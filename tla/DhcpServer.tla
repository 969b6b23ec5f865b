----------------------------- MODULE DhcpServer -----------------------------
(***************************************************************************)
(* The DHCP server of the soft access point (app/dhcpserver.c), stations    *)
(* that run lwIP's client, and the network between them, which keeps order  *)
(* and loses.  The server knows a station by its mac; it has no timer of    *)
(* its own but the minute's, in which leases run out.                       *)
(***************************************************************************)
EXTENDS Dhcp

CONSTANTS
    Stations,         \* macs
    FIRST, LAST,      \* dhcps_lease: the addresses to give
    LEASE,            \* DHCPS_LEASE_TIMER, in minutes
    MAX_STATION_NUM,  \* leases at which the oldest is dropped
    CHANNEL,          \* bound: messages under way
    EVENTS            \* bound: minutes, losses, early timers, departures

DhcpAssumption ==
    /\ {REQUEST_TRIES, REBIND_TRIES, REBOOT_TRIES} \subseteq Nat \ {0}
    /\ DHCP_MAXRTX \in Nat
    /\ FIRST \in Nat \ {ANY} /\ LAST \in Nat /\ FIRST <= LAST
    /\ LEASE \in Nat \ {0} /\ MAX_STATION_NUM \in Nat \ {0, 1} /\ CHANNEL \in Nat \ {0} /\ EVENTS \in Nat

VARIABLES
    dhcp,     \* the client of each station
    plist,    \* the server's list of leases, as far as one walks it before
    pnext,    \* ... the last one's pnext leads back to this place; 0: NULL
    asking,   \* messages of a station to the server
    answers,  \* the server's, to a station
    acked,    \* history: address last acknowledged to a station
    lapsed,   \* history: stations whose lease ended or moved since then
    events    \* minutes, losses, early timers, departures so far

dhcpVars == <<dhcp, plist, pnext, asking, answers, acked, lapsed, events>>

Init ==
    /\ dhcp = [c \in Stations |-> dhcp_cleared] /\ plist = <<>> /\ pnext = 0
    /\ asking = [c \in Stations |-> <<>>] /\ answers = [c \in Stations |-> <<>>]
    /\ acked = [c \in Stations |-> ANY] /\ lapsed = {} /\ events = 0

-----------------------------------------------------------------------------
(* The list of leases, in the order of their addresses.  Its nodes point     *)
(* each at the next, the last one at none, unless node_insert_to_list has     *)
(* made the list go round (NextOfLast).  Most walks of such a list do not     *)
(* end; what the server does with it is left out.                             *)

node_insert_to_list(list, node) ==
    LET k == Cardinality({i \in DOMAIN list : list[i].ip <= node.ip})
    IN InsertAt(list, k + 1, node)
\* node_insert_to_list does not set the pnext of a node that it appends.  A new
\* one's is NULL; the node of mac, if it was moved to the end from a place
\* further up, still has the one it had there, whose lease is now at that place.
NextOfLast(old, new, mac, m) ==
    IF m < Len(old) /\ Len(new) = Len(old) /\ new[Len(new)].mac = mac THEN m ELSE 0
\* The first of the places, or one past the end.
Found(list, places) == Min(places \cup {Len(list) + 1})
OfMac(list, mac) == Found(list, {i \in DOMAIN list : list[i].mac = mac})
OfIp(list, ip) == Found(list, {i \in DOMAIN list : ip # ANY /\ list[i].ip = ip})
Online(mac, ip, type) ==
    [mac |-> mac, ip |-> ip, timer |-> LEASE, type |-> type, online |-> TRUE]

\* The search for a free address stops at the lease of the mac: the first
\* gap before it, or its own place.  Mutant: the leases are counted.
FreeBefore_Count(list, k) == FIRST + Len(list)
FreeBefore(list, k) ==
    FIRST + Min({i \in 0..(k - 1) : i + 1 >= k \/ list[i + 1].ip # FIRST + i})

\* wifi_softap_dhcps_client_update: the list, and the address the server now
\* has for the mac, none if there is none to give.
client_update(mac, ciaddr) ==
    LET m == OfMac(plist, mac)
        i == OfIp(plist, ciaddr)
        known == m <= Len(plist)
        taken == i <= Len(plist)
        type == IF ciaddr = ANY THEN "DYNAMIC" ELSE "STATIC"
        addr == IF ciaddr = ANY THEN FreeBefore(plist, m) ELSE ciaddr
        none == [list |-> plist, addr |-> ANY]
        Keep(list, a) == [list |-> list, addr |-> a]
    IN IF known /\ taken /\ i = m
       THEN Keep([plist EXCEPT ![i] = Online(mac, ciaddr, "DYNAMIC")], ciaddr)
       ELSE IF taken
       THEN IF plist[i].online THEN none
            ELSE Keep(LET new == [plist EXCEPT ![i] = Online(mac, ciaddr, type)]
                      IN IF known THEN RemoveAt(new, m) ELSE new, ciaddr)
       ELSE IF known
       THEN Keep(node_insert_to_list(RemoveAt(plist, m), Online(mac, addr, type)), addr)
       ELSE IF addr > LAST THEN none
       ELSE Keep(node_insert_to_list(plist, Online(mac, addr, type)), addr)

\* wifi_softap_dhcps_client_leave: a lease with this address is dropped if it
\* is static or forced to, otherwise kept for its time.
client_leave(list, mac, ip, force) ==
    LET i == Found(list, {k \in DOMAIN list : list[k].mac = mac /\ list[k].ip = ip})
    IN IF i > Len(list) THEN list
       ELSE IF force \/ list[i].type = "STATIC" THEN RemoveAt(list, i)
       ELSE [list EXCEPT ![i].online = FALSE]

\* kill_oldest_dhcps_pool: of all but the first, the one that ends first; the
\* last of the list is marked offline.
kill_oldest_dhcps_pool(list) ==
    LET rest == 2..Len(list)
        k == Min({i \in rest : \A j \in rest : list[i].timer <= list[j].timer})
    IN RemoveAt([list EXCEPT ![Len(list)].online = FALSE], k)

\* What is left of a list of the places that are kept, in their order.
Kept(list, places) ==
    [k \in 1..Cardinality(places) |->
        list[CHOOSE i \in places : Cardinality({j \in places : j <= i}) = k]]
\* dhcps_coarse_tmr.
Aged(list) ==
    LET aged == [i \in DOMAIN list |->
                    IF list[i].type = "DYNAMIC" THEN [list[i] EXCEPT !.timer = @ - 1] ELSE list[i]]
    IN Kept(aged, {i \in DOMAIN list : aged[i].timer # 0})
\* Stations with a lease that is not there any more.
Leases(list) == {<<list[i].mac, list[i].ip>> : i \in DOMAIN list}
Lost(old, new) == {l[1] : l \in Leases(old) \ Leases(new)}

-----------------------------------------------------------------------------
\* A full channel loses.
Sent(channel, msgs) == SubSeq(channel \o msgs, 1, Min({CHANNEL, Len(channel \o msgs)}))
\* A step of a station's client.  What was acknowledged before it starts
\* over is forgotten; a new xid makes every message under way an old one.
Client(c, n, rest) ==
    /\ acked' = IF n.state = "SELECTING" THEN [acked EXCEPT ![c] = ANY] ELSE acked
    /\ lapsed' = IF n.state = "SELECTING" THEN lapsed \ {c} ELSE lapsed
    /\ dhcp' = [dhcp EXCEPT ![c] = [n EXCEPT !.out = <<>>, !.drawn = FALSE]]
    /\ asking' = [asking EXCEPT ![c] = Sent(IF n.drawn THEN Outdated(@) ELSE @, n.out)]
    /\ answers' = [answers EXCEPT ![c] = IF n.drawn THEN Outdated(rest) ELSE rest]

Event == events < EVENTS /\ events' = events + 1

\* dhcp_start.
Start(c) ==
    /\ dhcp[c].state = "OFF"
    /\ Client(c, dhcp_discover(dhcp_cleared), answers[c])
    /\ UNCHANGED <<plist, pnext, events>>
\* A try again while an answer is under way counts as an event.
Fine(c) ==
    /\ dhcp[c].armed /\ ~GivenUp(dhcp[c]) /\ Client(c, dhcp_fine_tmr(dhcp[c]), answers[c])
    /\ IF asking[c] = <<>> /\ answers[c] = <<>> THEN UNCHANGED events ELSE Event
    /\ UNCHANGED <<plist, pnext>>
Coarse(c) ==
    /\ dhcp[c].t1 > 0 \/ dhcp[c].t2 > 0
    /\ Client(c, dhcp_coarse_tmr(dhcp[c]), answers[c]) /\ Event
    /\ UNCHANGED <<plist, pnext>>
Recv(c) ==
    /\ answers[c] # <<>>
    /\ Client(c, dhcp_recv(dhcp[c], Head(answers[c])), Tail(answers[c]))
    /\ UNCHANGED <<plist, pnext, events>>
\* Who has an address says so when it is asked for, if it hears it.
ArpReply(c) ==
    /\ dhcp[c].offered # ANY
    /\ \E d \in Stations \ {c} : dhcp[d].up /\ dhcp[d].ip = dhcp[c].offered
    /\ dhcp[c].state = "CHECKING" /\ Client(c, dhcp_arp_reply(dhcp[c], dhcp[c].offered), answers[c])
    /\ UNCHANGED <<plist, pnext, events>>
Relink(c) ==
    /\ dhcp[c].state # "OFF" /\ Client(c, dhcp_network_changed(dhcp[c]), answers[c]) /\ Event
    /\ UNCHANGED <<plist, pnext>>

\* handle_dhcp: parse_msg and parse_options.  The client's REQUEST always says
\* which address it wants, even if that is none: the server that has none to
\* give acknowledges it.
Answer(m, u) ==
    CASE m.type = "DISCOVER" -> "OFFER"
      [] m.type = "REQUEST" -> IF m.requested = u.addr THEN "ACK" ELSE "NAK"
      [] m.type = "RELEASE" -> "RELEASE"
      [] OTHER -> "IDLE"
handle_dhcp(c) ==
    LET m == Head(asking[c])
        u == client_update(c, m.ciaddr)
        a == Answer(m, u)
    IN /\ pnext = 0 /\ asking[c] # <<>> /\ asking' = [asking EXCEPT ![c] = Tail(@)]
       /\ plist' = IF a = "RELEASE" THEN client_leave(u.list, c, m.ciaddr, TRUE) ELSE u.list
       /\ pnext' = NextOfLast(plist, plist', c, OfMac(plist, c))
       /\ IF a \in {"OFFER", "ACK", "NAK"}
          THEN answers' = [answers EXCEPT ![c] = Sent(@, <<[type |-> a, current |-> m.current,
                                                            yiaddr |-> u.addr, lease |-> LEASE]>>)]
          ELSE UNCHANGED answers
       /\ acked' = IF a = "ACK" THEN [acked EXCEPT ![c] = u.addr] ELSE acked
       /\ lapsed' = (lapsed \cup Lost(plist, plist')) \ (IF a = "ACK" THEN {c} ELSE {})
       /\ UNCHANGED <<dhcp, events>>

dhcps_coarse_tmr ==
    LET aged == Aged(plist)
        left == IF Len(aged) >= MAX_STATION_NUM THEN kill_oldest_dhcps_pool(aged) ELSE aged
    IN /\ pnext = 0 /\ plist # <<>> /\ plist' = left
       /\ lapsed' = lapsed \cup Lost(plist, left)
       /\ UNCHANGED <<pnext, dhcp, asking, answers, acked>> /\ Event
\* dhcps_stop and dhcps_start: every lease is forgotten.
Restart ==
    /\ pnext = 0 /\ plist # <<>> /\ plist' = <<>> /\ lapsed' = lapsed \cup Lost(plist, <<>>)
    /\ UNCHANGED <<pnext, dhcp, asking, answers, acked>> /\ Event

\* A station leaves the access point.
Leave(c) ==
    /\ dhcp[c].state # "OFF"
    /\ dhcp' = [dhcp EXCEPT ![c] = dhcp_cleared]
    /\ asking' = [asking EXCEPT ![c] = <<>>] /\ answers' = [answers EXCEPT ![c] = <<>>]
    /\ plist' = LET i == OfMac(plist, c)
                IN IF pnext # 0 \/ i > Len(plist) THEN plist ELSE client_leave(plist, c, plist[i].ip, FALSE)
    /\ acked' = [acked EXCEPT ![c] = ANY] /\ lapsed' = lapsed \ {c} /\ UNCHANGED pnext /\ Event
Lose(c) ==
    /\ \/ asking[c] # <<>> /\ asking' = [asking EXCEPT ![c] = Tail(@)] /\ UNCHANGED answers
       \/ answers[c] # <<>> /\ answers' = [answers EXCEPT ![c] = Tail(@)] /\ UNCHANGED asking
    /\ UNCHANGED <<dhcp, plist, pnext, acked, lapsed>> /\ Event

Next ==
    \/ dhcps_coarse_tmr \/ Restart
    \/ \E c \in Stations : \/ Start(c) \/ Fine(c) \/ Coarse(c) \/ Recv(c) \/ ArpReply(c) \/ Relink(c)
                           \/ handle_dhcp(c) \/ Leave(c) \/ Lose(c)
Spec == Init /\ [][Next]_dhcpVars
-----------------------------------------------------------------------------
\* Counters stay in their ranges.
TypeOK ==
    \A c \in Stations : /\ dhcp[c].tries \in 0..Most /\ dhcp[c].t2 \in 0..LEASE /\ dhcp[c].t1 <= LEASE
                        /\ Len(asking[c]) <= CHANNEL /\ Len(answers[c]) <= CHANNEL

\* The list, as far as it is walked before it goes round, is in the order of
\* the addresses, with one lease per address and per station.
ListSound ==
    \A i, j \in DOMAIN plist : i < j => plist[i].ip < plist[j].ip /\ plist[i].mac # plist[j].mac
\* A client that runs has a timer that brings it on, or a lease; it has an
\* address exactly while it may use it, and that one was acknowledged.
ClientsGoOn ==
    \A c \in Stations :
      LET n == dhcp[c] IN
      /\ n.state \notin {"OFF", "BOUND"} => n.armed
      /\ n.state = "BOUND" => n.up /\ n.t2 > 0
      /\ n.up => n.state \in {"BOUND", "RENEWING", "REBINDING"} /\ n.ip = acked[c]
\* Two stations have the same address only after a lease of one of them
\* ended at the server, or a repeated REQUEST of its own moved it, without the
\* station's knowing.  Stations that the server had no address for all have
\* none.
OwnAddress ==
    \A c, d \in Stations :
      c # d /\ dhcp[c].up /\ dhcp[d].up /\ dhcp[c].ip = dhcp[d].ip /\ dhcp[c].ip # ANY =>
        {c, d} \cap lapsed # {}

LeasesSound == ListSound /\ ClientsGoOn /\ OwnAddress

=============================================================================
