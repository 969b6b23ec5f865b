------------------------------- MODULE Etharp -------------------------------
(***************************************************************************)
(* lwIP's ARP table (netif/etharp.c): the packets for a neighbour wait with *)
(* its entry until it is known, entries age, and when the table is full a   *)
(* new address takes the place of another.  A neighbour may at any time     *)
(* send an IP packet, an ARP request or a reply; its answers to requests    *)
(* are among these.  Its mac may change: the address is given to another.   *)
(*                                                                         *)
(* etharp_cleanup_netif finds no entry: the netif it compares with is only  *)
(* stored when LWIP_SNMP is on, and it is off.                              *)
(***************************************************************************)
EXTENDS Integers, Sequences, SequencesExt, FiniteSetsExt

CONSTANTS
    Hosts,                  \* addresses of the local network
    Macs,
    ARP_TABLE_SIZE,         \* 10
    ARP_MAXAGE,             \* 240
    ARP_AGE_REREQUEST_USED, \* ARP_MAXAGE - 12
    ARP_MAXPENDING,         \* 2
    QLEN,                   \* packets that wait with one entry: 3
    OUTPUTS                 \* bound: packets given to etharp_output

EtharpAssumption ==
    /\ {ARP_TABLE_SIZE, ARP_MAXPENDING, QLEN} \subseteq Nat \ {0} /\ {OUTPUTS, ARP_MAXAGE} \subseteq Nat
    /\ ARP_AGE_REREQUEST_USED \in 1..(ARP_MAXAGE - 1) /\ ARP_MAXPENDING < ARP_MAXAGE

VARIABLES
    arp_table,
    etharp_cached_entry,
    given,    \* packets given to etharp_output so far: a packet is its number
    sent,     \* history: the last packet sent to an address
    heard     \* history: the mac an address had when it was last heard

etharpVars == <<arp_table, etharp_cached_entry, given, sent, heard>>

NoMac == "ethzero"
IPADDR_ANY == "any"
Index == 1..ARP_TABLE_SIZE
Entry(state, ipaddr, ethaddr) ==
    [state |-> state, ipaddr |-> ipaddr, ethaddr |-> ethaddr, ctime |-> 0, q |-> <<>>]
\* free_entry; what it leaves in the entry is never read.
Freed == Entry("EMPTY", IPADDR_ANY, NoMac)
Stable(e) == e.state \in {"STABLE", "STABLE_REREQUESTING"}

Init ==
    /\ arp_table = [i \in Index |-> Freed]
    /\ etharp_cached_entry = 1
    /\ given = 0 /\ sent = [h \in Hosts |-> 0] /\ heard = [h \in Hosts |-> NoMac]

-----------------------------------------------------------------------------
\* find_entry.  The last of the oldest makes place for a new address; an
\* entry whose packets wait comes after all others.
Of(h) == {i \in Index : arp_table[i].state # "EMPTY" /\ arp_table[i].ipaddr = h}
Oldest(S) == Max({i \in S : \A j \in S : arp_table[j].ctime <= arp_table[i].ctime})
Empty == {i \in Index : arp_table[i].state = "EMPTY"}
Settled == {i \in Index : Stable(arp_table[i])}
Pending == {i \in Index : arp_table[i].state = "PENDING"}
Idle == {i \in Pending : arp_table[i].q = <<>>}
Recycled ==
    IF Empty # {} THEN Min(Empty)
    ELSE IF Settled # {} THEN Oldest(Settled)
    ELSE IF Idle # {} THEN Oldest(Idle) ELSE Oldest(Pending)
find_entry(h) == IF Of(h) # {} THEN Min(Of(h)) ELSE Recycled

\* etharp_send_ip.
Send(h, packets) == sent' = IF packets = <<>> THEN sent ELSE [sent EXCEPT ![h] = Last(packets)]

\* update_arp_entry: what waits for the address is sent.  Without
\* ETHARP_FLAG_TRY_HARD an unknown address stays unknown.  Mutant: the
\* packets are sent and stay.
update_arp_entry_Keep(h, mac, hard) ==
    LET i == find_entry(h) IN
    /\ Of(h) # {} \/ hard
    /\ arp_table' = [arp_table EXCEPT ![i] =
                       [Entry("STABLE", h, mac) EXCEPT !.q = IF Of(h) # {} THEN arp_table[i].q ELSE <<>>]]
    /\ Send(h, IF Of(h) # {} THEN arp_table[i].q ELSE <<>>)
update_arp_entry(h, mac, hard) ==
    LET i == find_entry(h) IN
    /\ Of(h) # {} \/ hard
    /\ arp_table' = [arp_table EXCEPT ![i] = Entry("STABLE", h, mac)]
    /\ Send(h, IF Of(h) # {} THEN arp_table[i].q ELSE <<>>)

\* etharp_ip_input and etharp_arp_input; only an ARP frame for this interface
\* makes a new entry.
Hear(h, mac, for_us) ==
    /\ heard' = [heard EXCEPT ![h] = mac]
    /\ \/ update_arp_entry(h, mac, for_us)
       \/ Of(h) = {} /\ ~for_us /\ UNCHANGED <<arp_table, sent>>
    /\ UNCHANGED <<etharp_cached_entry, given>>

\* etharp_output_to_arp_index: a used entry that is about to end is asked for
\* again, if there is memory for the request.
etharp_output_to_arp_index(i, n) ==
    /\ Send(arp_table[i].ipaddr, <<n>>)
    /\ \/ /\ arp_table[i].state = "STABLE" /\ arp_table[i].ctime >= ARP_AGE_REREQUEST_USED
          /\ arp_table' = [arp_table EXCEPT ![i].state = "STABLE_REREQUESTING"]
       \/ UNCHANGED arp_table

\* etharp_query of an address that is not stable: a copy of the packet waits,
\* if there is memory, and the oldest is dropped.
Queued(q, packets) ==
    LET all == q \o packets IN IF Len(all) > QLEN THEN Tail(all) ELSE all
etharp_query(h, packets) ==
    LET i == find_entry(h)
        e == IF Of(h) = {} THEN Entry("PENDING", h, NoMac) ELSE arp_table[i]
    IN \E copied \in {packets, <<>>} :
         /\ arp_table' = [arp_table EXCEPT ![i] = [e EXCEPT !.q = Queued(@, copied)]]
         /\ UNCHANGED sent

\* etharp_output, to a neighbour or by way of it.  The entry used last is
\* tried first.
Hint(h) == Stable(arp_table[etharp_cached_entry]) /\ arp_table[etharp_cached_entry].ipaddr = h
etharp_output(h) ==
    /\ given < OUTPUTS /\ given' = given + 1
    /\ \/ /\ Hint(h) /\ etharp_output_to_arp_index(etharp_cached_entry, given')
          /\ UNCHANGED etharp_cached_entry
       \/ /\ ~Hint(h) /\ Of(h) \cap Settled # {}
          /\ etharp_cached_entry' = Min(Of(h) \cap Settled)
          /\ etharp_output_to_arp_index(etharp_cached_entry', given')
       \/ /\ Of(h) \cap Settled = {}
          /\ etharp_query(h, <<given'>>) /\ UNCHANGED etharp_cached_entry
    /\ UNCHANGED heard

\* dhcp_check asks for an address and has no packet for it.
Ask(h) ==
    /\ etharp_query(h, <<>>)
    /\ UNCHANGED <<etharp_cached_entry, given, heard>>

Aged(e) ==
    LET older == [e EXCEPT !.ctime = @ + 1] IN
    IF e.state = "EMPTY" THEN e
    ELSE IF \/ older.ctime >= ARP_MAXAGE
            \/ e.state = "PENDING" /\ older.ctime >= ARP_MAXPENDING THEN Freed
    ELSE IF e.state = "STABLE_REREQUESTING" THEN [older EXCEPT !.state = "STABLE"] ELSE older
etharp_tmr ==
    /\ arp_table' = [i \in Index |-> Aged(arp_table[i])]
    /\ UNCHANGED <<etharp_cached_entry, given, sent, heard>>

Next ==
    \/ etharp_tmr
    \/ \E h \in Hosts : \/ etharp_output(h) \/ Ask(h)
                        \/ \E mac \in Macs, for_us \in BOOLEAN : Hear(h, mac, for_us)
Spec == Init /\ [][Next]_etharpVars
-----------------------------------------------------------------------------
\* The entries' types, and no entry older than it may get.
TypeOK ==
    /\ etharp_cached_entry \in Index
    /\ \A i \in Index :
         /\ arp_table[i].state \in {"EMPTY", "PENDING", "STABLE", "STABLE_REREQUESTING"}
         /\ arp_table[i].ipaddr \in Hosts \cup {IPADDR_ANY} /\ arp_table[i].ethaddr \in Macs \cup {NoMac}
         /\ arp_table[i].state # "EMPTY" => arp_table[i].ctime < ARP_MAXAGE

\* An address has one entry.  Packets wait only for an address that is asked
\* for, and leave in the order they came: what waits is newer than what was
\* sent.  A known address has the mac it was last heard with.
TableSound ==
    /\ \A i, j \in Index \ Empty : i # j => arp_table[i].ipaddr # arp_table[j].ipaddr
    /\ \A i \in Index :
         LET e == arp_table[i] IN
         /\ e.q # <<>> => e.state = "PENDING" /\ Len(e.q) <= QLEN /\ e.ctime < ARP_MAXPENDING
         /\ \A k \in DOMAIN e.q : e.q[k] > (IF k = 1 THEN sent[e.ipaddr] ELSE e.q[k - 1])
         /\ Stable(e) => e.ethaddr = heard[e.ipaddr]

=============================================================================
