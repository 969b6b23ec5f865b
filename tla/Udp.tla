-------------------------------- MODULE Udp ---------------------------------
(***************************************************************************)
(* UDP (core/udp.c), raw IP (core/raw.c) and espconn's use of UDP           *)
(* (app/espconn_udp.c) on one netif: control blocks in a list, which a     *)
(* datagram walks to find who takes it and which is reordered by it, ports  *)
(* given and refused, and messages that espconn sends in pieces.  The netif *)
(* is the station's, which may have a DHCP client, or the access point's,   *)
(* which may have a DHCP server (app/dhcpserver.c).                         *)
(***************************************************************************)
EXTENDS Integers, Sequences, FiniteSets, SequencesExt

CONSTANTS
    PCBS,              \* bound: control blocks
    OWN, OLD,          \* the netif's address, and one it had or may get
    PEERS,             \* addresses of others
    PORTS,             \* ports that are asked for
    UDP_LOCAL_PORT_RANGE_START, UDP_LOCAL_PORT_RANGE_END,
    DHCP_CLIENT_PORT, DHCP_SERVER_PORT,
    LENGTHS, PIECE     \* of espconn's messages, and of a datagram of them

UdpAssumption ==
    /\ PCBS \in Nat /\ PIECE \in Nat \ {0} /\ LENGTHS \subseteq Nat \ {0}
    /\ UDP_LOCAL_PORT_RANGE_START <= UDP_LOCAL_PORT_RANGE_END
    /\ OWN # OLD /\ {OWN, OLD} \cap PEERS = {}
    /\ PORTS \cup {UDP_LOCAL_PORT_RANGE_START, UDP_LOCAL_PORT_RANGE_END, DHCP_CLIENT_PORT, DHCP_SERVER_PORT}
       \subseteq Nat \ {0}

ANY == "any"
BROADCAST == "broadcast"
Ids == 1..PCBS

VARIABLES
    pcb,         \* the blocks
    udp_pcbs,    \* the list: those with a port
    raw_pcbs,    \* the list of raw IP's blocks
    dhcp, dhcps, \* the block of the DHCP client, and of the server, or 0
    address,     \* the netif's
    tries        \* what espconn's message came to, where the last step sent one

udpVars == <<pcb, udp_pcbs, raw_pcbs, dhcp, dhcps, address, tries>>

Unused == [used |-> FALSE, local_ip |-> ANY, local_port |-> 0, remote_ip |-> ANY, remote_port |-> 0,
           connected |-> FALSE, espconn |-> FALSE]
NoTries == [pieces |-> <<>>, told |-> 0, length |-> 0]
Init ==
    /\ pcb = [i \in Ids |-> Unused] /\ udp_pcbs = <<>> /\ raw_pcbs = <<>> /\ dhcp = 0 /\ dhcps = 0
    /\ address = OWN /\ tries = NoTries

Listed == ToSet(udp_pcbs)
Front1(list, i) == <<i>> \o RemoveFirst(list, i)

-----------------------------------------------------------------------------
\* udp_input: the block that takes a datagram, 0 if none does.  DHCP's ports
\* are its own, whoever has bound them; else a block with the datagram's source
\* as its peer comes before the first that is not connected.
Reserved(d) == d.dport \in {DHCP_CLIENT_PORT, DHCP_SERVER_PORT}
DhcpReceiver(d) ==
    IF d.dport = DHCP_CLIENT_PORT THEN (IF d.sport = DHCP_SERVER_PORT THEN dhcp ELSE 0)
    ELSE IF d.sport = DHCP_CLIENT_PORT THEN dhcps ELSE 0
LocalMatch(i, d) ==
    /\ pcb[i].local_port = d.dport
    /\ d.dst = BROADCAST \/ pcb[i].local_ip \in {ANY, d.dst}
PeerMatch(i, d) == pcb[i].remote_port = d.sport /\ pcb[i].remote_ip \in {ANY, d.src}
First(good) ==
    IF good = {} THEN 0
    ELSE udp_pcbs[CHOOSE k \in 1..Len(udp_pcbs) : udp_pcbs[k] \in good /\ \A l \in 1..(k - 1) : udp_pcbs[l] \notin good]
\* A mutant: a connected block takes what comes from others, too.
Receiver_AnyPeer(d) ==
    IF Reserved(d) THEN DhcpReceiver(d)
    ELSE LET perfect == First({i \in Listed : LocalMatch(i, d) /\ PeerMatch(i, d)})
         IN IF perfect # 0 THEN perfect ELSE First({i \in Listed : LocalMatch(i, d)})
Receiver(d) ==
    IF Reserved(d) THEN DhcpReceiver(d)
    ELSE LET perfect == First({i \in Listed : LocalMatch(i, d) /\ PeerMatch(i, d)})
         IN IF perfect # 0 THEN perfect ELSE First({i \in Listed : LocalMatch(i, d) /\ ~pcb[i].connected})

Ports == PORTS \cup UDP_LOCAL_PORT_RANGE_START..UDP_LOCAL_PORT_RANGE_END \cup {DHCP_CLIENT_PORT, DHCP_SERVER_PORT}
Datagrams == [src : PEERS, sport : PORTS \cup {DHCP_CLIENT_PORT, DHCP_SERVER_PORT}, dst : {address, BROADCAST}, dport : Ports]
\* A block found as its peer's goes to the front of the list; one that takes
\* nothing frees the datagram, and so does a port that is not bound, after an
\* ICMP message.
udp_input(d) ==
    LET i == Receiver(d) IN
    /\ udp_pcbs' = IF ~Reserved(d) /\ i # 0 /\ PeerMatch(i, d) THEN Front1(udp_pcbs, i) ELSE udp_pcbs
    /\ UNCHANGED <<pcb, raw_pcbs, dhcp, dhcps, address>> /\ tries' = NoTries

-----------------------------------------------------------------------------
New == {i \in Ids : ~pcb[i].used}
udp_new(i) ==
    /\ i \in New
    /\ pcb' = [pcb EXCEPT ![i] = [Unused EXCEPT !.used = TRUE]]
    /\ UNCHANGED <<udp_pcbs, raw_pcbs, dhcp, dhcps, address>> /\ tries' = NoTries

\* A mutant: only the same address is in the way of a port.
Taken_SameAddress(i, ip, port) ==
    \E j \in Listed \ {i} : pcb[j].local_port = port /\ pcb[j].local_ip = ip
\* udp_bind: another block has the port at this address or at any.
Taken(i, ip, port) ==
    \E j \in Listed \ {i} : pcb[j].local_port = port /\ (ANY \in {pcb[j].local_ip, ip} \/ pcb[j].local_ip = ip)
FreePort ==
    LET free == {q \in UDP_LOCAL_PORT_RANGE_START..(UDP_LOCAL_PORT_RANGE_END - 1) : \A j \in Listed : pcb[j].local_port # q}
    IN IF free # {} THEN CHOOSE q \in free : \A r \in free : q <= r
       ELSE IF \A j \in Listed : pcb[j].local_port # UDP_LOCAL_PORT_RANGE_END THEN UDP_LOCAL_PORT_RANGE_END ELSE 0
\* What becomes of blocks and list: the address is set even if no port is free.
Bound(i, ip, port, blocks) ==
    LET at == [blocks EXCEPT ![i].local_ip = ip]
        q == IF port = 0 THEN FreePort ELSE port
    IN IF Taken(i, ip, port) THEN [ok |-> FALSE, pcb |-> blocks, list |-> udp_pcbs]
       ELSE IF q = 0 THEN [ok |-> FALSE, pcb |-> at, list |-> udp_pcbs]
       ELSE [ok |-> TRUE, pcb |-> [at EXCEPT ![i].local_port = q],
             list |-> IF i \in Listed THEN udp_pcbs ELSE <<i>> \o udp_pcbs]

Own(i) == pcb[i].used /\ i \notin {dhcp, dhcps}
udp_bind(i, ip, port) ==
    /\ Own(i)
    /\ LET b == Bound(i, ip, port, pcb) IN pcb' = b.pcb /\ udp_pcbs' = b.list
    /\ UNCHANGED <<raw_pcbs, dhcp, dhcps, address>> /\ tries' = NoTries

udp_connect(i, ip, port) ==
    /\ Own(i)
    /\ LET b == IF pcb[i].local_port = 0 THEN Bound(i, pcb[i].local_ip, 0, pcb) ELSE [ok |-> TRUE, pcb |-> pcb, list |-> udp_pcbs]
       IN /\ udp_pcbs' = b.list
          /\ pcb' = IF b.ok THEN [b.pcb EXCEPT ![i].remote_ip = ip, ![i].remote_port = port, ![i].connected = TRUE] ELSE b.pcb
    /\ UNCHANGED <<raw_pcbs, dhcp, dhcps, address>> /\ tries' = NoTries

udp_disconnect(i) ==
    /\ Own(i)
    /\ pcb' = [pcb EXCEPT ![i].remote_ip = ANY, ![i].remote_port = 0, ![i].connected = FALSE]
    /\ UNCHANGED <<udp_pcbs, raw_pcbs, dhcp, dhcps, address>> /\ tries' = NoTries

\* A mutant: only the first block leaves the list.
udp_remove_First(i) ==
    /\ Own(i) /\ ~pcb[i].espconn
    /\ pcb' = [pcb EXCEPT ![i] = Unused]
    /\ udp_pcbs' = IF udp_pcbs # <<>> /\ udp_pcbs[1] = i THEN Tail(udp_pcbs) ELSE udp_pcbs
    /\ UNCHANGED <<raw_pcbs, dhcp, dhcps, address>> /\ tries' = NoTries
udp_remove(i) ==
    /\ Own(i) /\ ~pcb[i].espconn
    /\ pcb' = [pcb EXCEPT ![i] = Unused]
    /\ udp_pcbs' = RemoveFirst(udp_pcbs, i)
    /\ UNCHANGED <<raw_pcbs, dhcp, dhcps, address>> /\ tries' = NoTries

\* udp_sendto: a block without a port gets one; a block bound to an address
\* that is not the netif's does not send.
Sendable(b, i) == b.ok /\ b.pcb[i].local_ip \in {ANY, address}
Ported(i, blocks) ==
    IF blocks[i].local_port = 0 THEN Bound(i, blocks[i].local_ip, 0, blocks) ELSE [ok |-> TRUE, pcb |-> blocks, list |-> udp_pcbs]
udp_sendto(i) ==
    /\ pcb[i].used /\ pcb[i].local_port = 0
    /\ LET b == Ported(i, pcb) IN pcb' = b.pcb /\ udp_pcbs' = b.list
    /\ UNCHANGED <<raw_pcbs, dhcp, dhcps, address>> /\ tries' = NoTries

\* The DHCP client's block (dhcp.c:702-703), and its end.  Whether its port could
\* be bound is not looked at: without it udp_connect finds another.
Fresh(i) == [pcb EXCEPT ![i] = [Unused EXCEPT !.used = TRUE]]
DhcpBound(i) ==
    LET b == Bound(i, ANY, DHCP_CLIENT_PORT, Fresh(i)) IN IF b.ok THEN b ELSE Ported(i, b.pcb)
DhcpStart(i) ==
    /\ dhcp = 0 /\ dhcps = 0 /\ i \in New
    /\ LET b == DhcpBound(i)
       IN /\ pcb' = IF b.ok THEN [b.pcb EXCEPT ![i].remote_port = DHCP_SERVER_PORT, ![i].connected = TRUE] ELSE b.pcb
          /\ udp_pcbs' = b.list
    /\ dhcp' = i
    /\ UNCHANGED <<raw_pcbs, dhcps, address>> /\ tries' = NoTries
DhcpStop ==
    /\ dhcp # 0
    /\ pcb' = [pcb EXCEPT ![dhcp] = Unused] /\ udp_pcbs' = RemoveFirst(udp_pcbs, dhcp) /\ dhcp' = 0
    /\ UNCHANGED <<raw_pcbs, dhcps, address>> /\ tries' = NoTries
\* The DHCP server's, which is bound but not connected; one that is started
\* again is stopped first.
dhcps_start(i) ==
    /\ dhcp = 0 /\ dhcps = 0 /\ i \in New
    /\ LET b == Bound(i, ANY, DHCP_SERVER_PORT, Fresh(i)) IN pcb' = b.pcb /\ udp_pcbs' = b.list
    /\ dhcps' = i
    /\ UNCHANGED <<raw_pcbs, dhcp, address>> /\ tries' = NoTries
dhcps_stop ==
    /\ dhcps # 0
    /\ pcb' = [pcb EXCEPT ![dhcps] = Unused] /\ udp_pcbs' = RemoveFirst(udp_pcbs, dhcps) /\ dhcps' = 0
    /\ UNCHANGED <<raw_pcbs, dhcp, address>> /\ tries' = NoTries
AddressChanges ==
    /\ address' = IF address = OWN THEN OLD ELSE OWN
    /\ UNCHANGED <<pcb, udp_pcbs, raw_pcbs, dhcp, dhcps>> /\ tries' = NoTries

-----------------------------------------------------------------------------
\* Raw IP: the first block of the protocol whose handler takes the datagram
\* gets it and goes to the front, unless it is there.
raw_new(i) ==
    /\ i \notin ToSet(raw_pcbs) /\ raw_pcbs' = <<i>> \o raw_pcbs
    /\ UNCHANGED <<pcb, udp_pcbs, dhcp, dhcps, address>> /\ tries' = NoTries
raw_input(eats) ==
    LET takers == {k \in 1..Len(raw_pcbs) : raw_pcbs[k] \in eats} IN
    /\ takers # {}
    /\ raw_pcbs' = Front1(raw_pcbs, raw_pcbs[CHOOSE k \in takers : \A l \in takers : k <= l])
    /\ UNCHANGED <<pcb, udp_pcbs, dhcp, dhcps, address>> /\ tries' = NoTries
raw_remove(i) ==
    /\ i \in ToSet(raw_pcbs) /\ raw_pcbs' = RemoveFirst(raw_pcbs, i)
    /\ UNCHANGED <<pcb, udp_pcbs, dhcp, dhcps, address>> /\ tries' = NoTries

-----------------------------------------------------------------------------
\* espconn_udp_server: whether the port could be bound is not looked at.
espconn_udp_server(i, port) ==
    /\ i \in New
    /\ LET b == Bound(i, ANY, port, [pcb EXCEPT ![i] = [Unused EXCEPT !.used = TRUE, !.espconn = TRUE]])
       IN pcb' = b.pcb /\ udp_pcbs' = b.list
    /\ UNCHANGED <<raw_pcbs, dhcp, dhcps, address>> /\ tries' = NoTries
espconn_udp_disconnect(i) ==
    /\ pcb[i].espconn
    /\ pcb' = [pcb EXCEPT ![i] = Unused] /\ udp_pcbs' = RemoveFirst(udp_pcbs, i)
    /\ UNCHANGED <<raw_pcbs, dhcp, dhcps, address>> /\ tries' = NoTries

\* espconn_udp_sent and espconn_udp_sendto: a message goes piece by piece, and
\* after the last one the user is told if that one went well.  A piece without
\* memory ends it; an error of one before the last is overwritten.  "ok", "err"
\* and "mem" are what becomes of the pieces.
PieceCount(length) == (length + PIECE - 1) \div PIECE
PieceOf(length, k) == IF k * PIECE <= length THEN PIECE ELSE length - (k - 1) * PIECE
espconn_data_sent(outcome) == IF outcome = "ok" THEN 1 ELSE 0
\* A mutant: who runs out of memory is told as well.
Sent_OnMem(length, outcomes) ==
    [pieces |-> [k \in 1..Len(outcomes) |-> [size |-> PieceOf(length, k), outcome |-> outcomes[k]]],
     told |-> IF Last(outcomes) = "mem" THEN 1 ELSE espconn_data_sent(Last(outcomes)), length |-> length]
Sent(length, outcomes) ==
    [pieces |-> [k \in 1..Len(outcomes) |-> [size |-> PieceOf(length, k), outcome |-> outcomes[k]]],
     told |-> IF Len(outcomes) = PieceCount(length) THEN espconn_data_sent(Last(outcomes)) ELSE 0, length |-> length]
Outcomes(length, sendable) ==
    LET n == PieceCount(length)
        each == IF sendable THEN {"ok", "err"} ELSE {"err"}
    IN [1..n -> each] \cup {Append(s, "mem") : s \in UNION {[1..k -> each] : k \in 0..(n - 1)}}
\* espconn_udp_sent notes the peer in the block, without connecting it.
espconn_udp_sent(i, ip, port, length) ==
    /\ pcb[i].espconn
    /\ LET noted == [pcb EXCEPT ![i].remote_ip = ip, ![i].remote_port = port]
           b == Ported(i, noted)
       IN \E outcomes \in Outcomes(length, Sendable(b, i)) :
            /\ tries' = Sent(length, outcomes)
            /\ IF outcomes[1] = "mem" THEN UNCHANGED <<pcb, udp_pcbs>> ELSE pcb' = b.pcb /\ udp_pcbs' = b.list
    /\ UNCHANGED <<raw_pcbs, dhcp, dhcps, address>>
espconn_udp_sendto(i, length) ==
    /\ pcb[i].espconn
    /\ LET b == Ported(i, pcb) IN
       \E outcomes \in Outcomes(length, Sendable(b, i)) :
            /\ tries' = Sent(length, outcomes)
            /\ IF outcomes[1] = "mem" THEN UNCHANGED <<pcb, udp_pcbs>> ELSE pcb' = b.pcb /\ udp_pcbs' = b.list
    /\ UNCHANGED <<raw_pcbs, dhcp, dhcps, address>>

-----------------------------------------------------------------------------
Netif == AddressChanges \/ DhcpStop \/ dhcps_stop \/ \E d \in Datagrams : udp_input(d)
User(i) ==
    \/ udp_new(i) \/ udp_disconnect(i) \/ udp_remove(i) \/ udp_sendto(i) \/ DhcpStart(i) \/ dhcps_start(i)
    \/ \E ip \in {ANY, OWN}, port \in PORTS \cup {0} : udp_bind(i, ip, port)
    \/ \E ip \in PEERS, port \in PORTS : udp_connect(i, ip, port)
    \/ \E port \in PORTS : espconn_udp_server(i, port)
    \/ espconn_udp_disconnect(i)
    \/ \E ip \in PEERS, port \in PORTS, length \in LENGTHS : espconn_udp_sent(i, ip, port, length)
    \/ \E length \in LENGTHS : espconn_udp_sendto(i, length)
Raw(i) == raw_new(i) \/ raw_remove(i)
Next == Netif \/ (\E i \in Ids : User(i) \/ Raw(i)) \/ \E eats \in SUBSET Ids : raw_input(eats)
Spec == Init /\ [][Next]_udpVars

-----------------------------------------------------------------------------
TypeOK ==
    /\ Listed \subseteq Ids /\ ToSet(raw_pcbs) \subseteq Ids /\ {dhcp, dhcps} \subseteq 0..PCBS
    /\ \A i \in Ids : pcb[i].local_port \in Ports \cup {0} /\ pcb[i].local_ip \in {ANY, OWN}
    /\ tries.told \in 0..1

\* However the lists are reordered while they are walked, no block is lost or
\* there twice, and the blocks in the list are those with a port
\* (udp.c:211-216, 911-926; raw.c:112-118).
ListsWhole ==
    /\ Cardinality(Listed) = Len(udp_pcbs) /\ Cardinality(ToSet(raw_pcbs)) = Len(raw_pcbs)
    /\ \A i \in Ids : i \in Listed <=> pcb[i].local_port # 0

\* A port is given to one block at an address, whichever way it came to it, so
\* that the order of the list does not decide who gets a datagram (udp.c:744).
PortsApart ==
    /\ \A i, j \in Listed : i # j /\ pcb[i].local_port = pcb[j].local_port =>
            ANY \notin {pcb[i].local_ip, pcb[j].local_ip} /\ pcb[i].local_ip # pcb[j].local_ip
    /\ \A d \in Datagrams : d.dst # BROADCAST => Cardinality({i \in Listed : LocalMatch(i, d)}) <= 1

\* A connected block only gets what its peer sent, and what comes for a bound
\* port is given to its block unless that is connected to somebody else
\* (udp.c:187-226).  DHCP's two ports are excepted: whoever else has bound one
\* gets nothing there, and the client and the server each get what the other
\* one's port sent, even where their own port could not be bound
\* (udp.c:142-165).
Reaches ==
    \A d \in Datagrams :
        LET i == Receiver(d) IN
        /\ i # 0 /\ pcb[i].connected => d.sport = pcb[i].remote_port /\ pcb[i].remote_ip \in {ANY, d.src}
        /\ \A j \in Listed : LocalMatch(j, d) /\ ~pcb[j].connected /\ ~Reserved(d) => i # 0
        /\ Reserved(d) => i \in {0, dhcp, dhcps}

\* Whoever is told that a message was sent has had every piece of it given to
\* UDP, and the last one with success (espconn_udp.c:55-64).
ToldAfterAll ==
    tries.told = 1 =>
        /\ FoldLeft(LAMBDA n, t : n + t.size, 0, tries.pieces) = tries.length
        /\ \A k \in 1..Len(tries.pieces) : tries.pieces[k].outcome # "mem"
        /\ Last(tries.pieces).outcome = "ok"

UdpSound == ListsWhole /\ PortsApart /\ Reaches /\ ToldAfterAll

=============================================================================
