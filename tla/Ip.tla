--------------------------------- MODULE Ip ---------------------------------
(***************************************************************************)
(* IP and its netifs (core/ipv4/ip.c, icmp.c, ip_addr.c, core/netif.c): the *)
(* station's and the softap's netif come and go, get addresses, and are up  *)
(* or down; by them it is decided where a datagram is sent, whether one     *)
(* that arrives is for this host, whether it is answered, and which TCP     *)
(* connections an address takes with it when it goes.                       *)
(***************************************************************************)
EXTENDS Integers, Sequences, FiniteSets, SequencesExt

CONSTANTS
    NETS, HOSTS, \* the addresses netifs may have: one of HOSTS in one of NETS
    CONNECTIONS, \* bound: TCP connections
    IP_FORWARD   \* 0 in this build

IpAssumption ==
    /\ NETS \cap {"any", "all", "none", "multicast", "far"} = {} /\ HOSTS \cap {"all", "other"} = {}
    /\ IP_FORWARD \in BOOLEAN /\ CONNECTIONS \in Nat

\* An address is a net and a host of it; the host "all" is its broadcast.
ADDRESSES == [net : NETS, host : HOSTS]
OTHERS == [net : NETS \cup {"far"}, host : {"other"}]
Broadcasts == [net : NETS \cup {"far"}, host : {"all"}]
ANY == [net |-> "any", host |-> "any"]             \* 0.0.0.0
LIMITED == [net |-> "all", host |-> "all"]         \* 255.255.255.255
GROUP == [net |-> "multicast", host |-> "group"]
Netifs == {"sta", "ap"}
NONE == "none"
NO_ADDRESS == [net |-> "none", host |-> "none"]

VARIABLES
    netif_list, netif_default,
    ifs,        \* each netif: its address, whether it is up and in the group
    active,     \* the local address of each TCP connection, or NO_ADDRESS
    listening,  \* that of a listening block
    gone        \* addresses that netifs had when they were removed

ipVars == <<netif_list, netif_default, ifs, active, listening, gone>>

Down == [ip |-> ANY, up |-> FALSE, member |-> FALSE]
Init ==
    /\ netif_list = <<>> /\ netif_default = NONE /\ ifs = [n \in Netifs |-> Down]
    /\ active = [c \in 1..CONNECTIONS |-> NO_ADDRESS] /\ listening = NO_ADDRESS /\ gone = {}

Listed == ToSet(netif_list)
Up(n) == n \in Netifs /\ ifs[n].up
First(good) == LET up == {k \in 1..Len(netif_list) : netif_list[k] \in good}
               IN IF up = {} THEN NONE ELSE netif_list[CHOOSE k \in up : \A l \in up : k <= l]

\* ip_addr_netcmp: a netif without an address has no mask either, and every
\* address is in its net.
SameNet(a, n) == ifs[n].ip = ANY \/ a.net = ifs[n].ip.net
ip_addr_isbroadcast(a, n) ==
    \/ a \in {ANY, LIMITED}
    \/ a # ifs[n].ip /\ ifs[n].ip # ANY /\ a = [net |-> ifs[n].ip.net, host |-> "all"]

-----------------------------------------------------------------------------
\* A mutant: a netif that is down is taken, too.
ip_route_Down(dest) ==
    LET near == First({n \in Netifs : SameNet(dest, n)}) IN
    IF near # NONE THEN near
    ELSE IF "sta" \in Listed /\ Up("sta") /\ ~ip_addr_isbroadcast(dest, "sta") THEN "sta"
    ELSE IF Up(netif_default) THEN netif_default ELSE NONE
\* ip_route: a netif of the same net, else the station's, else the default.
ip_route(dest) ==
    LET near == First({n \in Netifs : Up(n) /\ SameNet(dest, n)}) IN
    IF near # NONE THEN near
    ELSE IF "sta" \in Listed /\ Up("sta") /\ ~ip_addr_isbroadcast(dest, "sta") THEN "sta"
    ELSE IF Up(netif_default) THEN netif_default ELSE NONE

\* ip_input: the netif a datagram is for: first the one it came by, then the
\* others in the order of the list.
Mine(n, d) == Up(n) /\ ifs[n].ip # ANY /\ (d.dst = ifs[n].ip \/ ip_addr_isbroadcast(d.dst, n))
\* A mutant: only the netif it came by is asked.
Accepting_OwnOnly(d, inp) ==
    IF d.dst = GROUP THEN (IF ifs[inp].member THEN inp ELSE NONE)
    ELSE IF Mine(inp, d) THEN inp ELSE NONE
Accepting(d, inp) ==
    IF d.dst = GROUP THEN (IF ifs[inp].member THEN inp ELSE NONE)
    ELSE IF Mine(inp, d) THEN inp
    ELSE First({n \in Netifs \ {inp} : Mine(n, d)})
\* Datagrams for the DHCP client are taken without an address.
LinkLayerAddressed(d, inp) == Accepting(d, inp) = NONE /\ d.proto = "dhcp"
SourceRefused(d, inp) ==
    ~LinkLayerAddressed(d, inp) /\ d.src # ANY /\ (ip_addr_isbroadcast(d.src, inp) \/ d.src = GROUP)
ip_input(d, inp) ==
    CASE SourceRefused(d, inp) -> "dropped"
      [] ~SourceRefused(d, inp) /\ (Accepting(d, inp) # NONE \/ LinkLayerAddressed(d, inp)) -> "taken"
      [] OTHER -> IF IP_FORWARD /\ ~ip_addr_isbroadcast(d.dst, inp) THEN "forward" ELSE "dropped"

\* ip_forward: the netif it goes out by, or an ICMP message when its time is up.
ip_forward(d, inp) ==
    LET out == ip_route(d.dst) IN
    IF out \in {NONE, inp} THEN [out |-> NONE, icmp |-> FALSE]
    ELSE IF d.ttl = 1 THEN [out |-> NONE, icmp |-> d.proto # "icmp"]
    ELSE [out |-> out, icmp |-> FALSE]

\* ip_output_if fills in the netif's address where there is none; ip_output
\* routes.
ip_output_if(kind, src, dst, out) ==
    {[kind |-> kind, src |-> IF src = ANY THEN ifs[out].ip ELSE src, dst |-> dst, out |-> out]}
ip_output(kind, dst) == IF ip_route(dst) = NONE THEN {} ELSE ip_output_if(kind, ANY, dst, ip_route(dst))

\* An echo is answered by the netif it came by, and from the address it was
\* sent to; an error is routed to the source.
\* A mutant: echoes to a broadcast are answered.
icmp_input_Broadcast(d, inp) ==
    IF d.proto = "echo" /\ d.dst # GROUP THEN ip_output_if("echo", d.dst, d.src, inp) ELSE {}
icmp_input(d, inp) ==
    IF d.proto = "echo" /\ d.dst # GROUP /\ ~ip_addr_isbroadcast(d.dst, inp)
    THEN ip_output_if("echo", d.dst, d.src, inp) ELSE {}
icmp_send_response(d) == ip_output("error", d.src)
Answers(d, inp) ==
    CASE ip_input(d, inp) = "taken" ->
            IF d.proto = "unknown" /\ d.dst # GROUP /\ ~ip_addr_isbroadcast(d.dst, inp)
            THEN icmp_send_response(d) ELSE icmp_input(d, inp)
      [] ip_input(d, inp) = "forward" -> IF ip_forward(d, inp).icmp THEN icmp_send_response(d) ELSE {}
      [] OTHER -> {}

-----------------------------------------------------------------------------
\* netif_set_ipaddr: connections from the old address are aborted, listening
\* blocks are moved.  Only a change counts.
\* A mutant: listening blocks stay at the old address.
Moved_Stays(old, new) ==
    /\ active' = IF old = new THEN active ELSE [c \in DOMAIN active |-> IF active[c] = old THEN NO_ADDRESS ELSE active[c]]
    /\ listening' = listening
Moved(old, new) ==
    /\ active' = IF old = new THEN active ELSE [c \in DOMAIN active |-> IF active[c] = old THEN NO_ADDRESS ELSE active[c]]
    /\ listening' = IF listening = old /\ old # ANY THEN new ELSE listening
netif_set_addr(n, ip) ==
    /\ Moved(ifs[n].ip, ip)
    /\ ifs' = [ifs EXCEPT ![n].ip = ip]
    /\ UNCHANGED <<netif_list, netif_default, gone>>

\* netif_add: the address counts as changed from 0.0.0.0; without the list if
\* the driver's init fails.
netif_add(n, ip) ==
    /\ n \notin Listed
    /\ Moved(ANY, ip)
    /\ ifs' = [ifs EXCEPT ![n] = [Down EXCEPT !.ip = ip]]
    /\ netif_list' \in {netif_list, <<n>> \o netif_list}
    /\ gone' = gone \cup ({ifs[n].ip} \ {ANY})
    /\ UNCHANGED netif_default
\* netif_remove leaves the connections from its address.
netif_remove(n) ==
    /\ n \in Listed
    /\ netif_list' = RemoveFirst(netif_list, n)
    /\ netif_default' = IF netif_default = n THEN NONE ELSE netif_default
    /\ ifs' = [ifs EXCEPT ![n].up = FALSE, ![n].member = FALSE]
    /\ gone' = gone \cup ({ifs[n].ip} \ {ANY})
    /\ UNCHANGED <<active, listening>>
netif_set_default(n) ==
    /\ n \in Listed /\ netif_default' = n
    /\ UNCHANGED <<netif_list, ifs, active, listening, gone>>
netif_set_up(n) ==
    /\ n \in Listed /\ ~ifs[n].up /\ ifs' = [ifs EXCEPT ![n].up = TRUE]
    /\ UNCHANGED <<netif_list, netif_default, active, listening, gone>>
netif_set_down(n) ==
    /\ n \in Listed /\ ifs[n].up /\ ifs' = [ifs EXCEPT ![n].up = FALSE]
    /\ UNCHANGED <<netif_list, netif_default, active, listening, gone>>
\* Membership in the group, the station's here, is module Igmp's.
Joined(n) ==
    /\ n = "sta" /\ n \in Listed /\ ifs' = [ifs EXCEPT ![n].member = ~@]
    /\ UNCHANGED <<netif_list, netif_default, active, listening, gone>>

\* TCP above: a connection takes the address of the netif it is routed by, or
\* the one that its first segment was sent to.
tcp_connect(c, dest) ==
    /\ active[c] = NO_ADDRESS /\ ip_route(dest) # NONE
    /\ active' = [active EXCEPT ![c] = ifs[ip_route(dest)].ip]
    /\ UNCHANGED <<netif_list, netif_default, ifs, listening, gone>>
tcp_listen(ip) ==
    /\ listening = NO_ADDRESS /\ listening' = ip
    /\ UNCHANGED <<netif_list, netif_default, ifs, active, gone>>
tcp_accept(c, d, inp) ==
    /\ active[c] = NO_ADDRESS /\ listening \in {ANY, d.dst}
    /\ ip_input(d, inp) = "taken" /\ d.dst # GROUP /\ ~ip_addr_isbroadcast(d.dst, inp)
    /\ active' = [active EXCEPT ![c] = d.dst]
    /\ UNCHANGED <<netif_list, netif_default, ifs, listening, gone>>
tcp_close(c) ==
    /\ active[c] # NO_ADDRESS /\ active' = [active EXCEPT ![c] = NO_ADDRESS]
    /\ UNCHANGED <<netif_list, netif_default, ifs, listening, gone>>

-----------------------------------------------------------------------------
Destinations == ADDRESSES \cup OTHERS \cup {LIMITED, GROUP} \cup Broadcasts
Passing ==
    [src : {[net |-> "far", host |-> "other"]}, dst : Destinations, proto : {"tcp", "dhcp"}, ttl : {2}]
Asking ==
    [src : OTHERS \cup {ANY, GROUP, LIMITED}, dst : Destinations, proto : {"echo", "unknown"}, ttl : {1}]
Segments == [src : OTHERS, dst : ADDRESSES, proto : {"tcp"}, ttl : {2}]
Change ==
    \E n \in Netifs :
        \/ netif_remove(n) \/ netif_set_default(n) \/ netif_set_up(n) \/ netif_set_down(n) \/ Joined(n)
        \/ \E ip \in ADDRESSES \cup {ANY} : netif_add(n, ip) \/ (n \in Listed /\ netif_set_addr(n, ip))
Connection ==
    \/ \E ip \in {ANY} \cup {ifs[n].ip : n \in Listed} : tcp_listen(ip)
    \/ \E c \in 1..CONNECTIONS :
         \/ tcp_close(c)
         \/ \E dest \in OTHERS : tcp_connect(c, dest)
         \/ \E d \in Segments, inp \in Listed : tcp_accept(c, d, inp)
Next == Change \/ Connection
Spec == Init /\ [][Next]_ipVars

-----------------------------------------------------------------------------
TypeOK ==
    /\ Listed \subseteq Netifs /\ Cardinality(Listed) = Len(netif_list)
    /\ \A n \in Netifs : ifs[n].ip \in ADDRESSES \cup {ANY}
    /\ \A c \in DOMAIN active : active[c] \in ADDRESSES \cup {ANY, NO_ADDRESS}
    /\ listening \in ADDRESSES \cup {ANY, NO_ADDRESS} /\ gone \subseteq ADDRESSES

\* A datagram is sent by a netif that is in the list and up, and by one of the
\* receiver's net if there is one, but for a netif without an address that
\* comes before it (ip.c:123-156).
Routed ==
    \A dest \in Destinations :
        /\ ip_route(dest) # NONE => ip_route(dest) \in Listed /\ Up(ip_route(dest))
        /\ (\E n \in Listed : Up(n) /\ ifs[n].ip.net = dest.net) =>
              ip_route(dest) # NONE /\ (ifs[ip_route(dest)].ip = ANY \/ ifs[ip_route(dest)].ip.net = dest.net)

\* What is sent to an address of this host is taken, whichever netif it comes
\* by, and never sent on; what is sent to nobody's is not taken, but by a DHCP
\* client; and nothing goes back where it came from (ip.c:384-486, 237).
Delivered ==
    \A d \in Passing, inp \in {n \in Listed : Up(n)} :
        /\ d.proto = "tcp" /\ d.dst \in ADDRESSES =>
             (ip_input(d, inp) = "taken" <=> d.dst \in {ifs[n].ip : n \in {m \in Listed : Up(m)}})
        /\ ip_input(d, inp) = "forward" => ip_forward(d, inp).out # inp

\* An answer goes out with an address of this host, and to one who asked at it:
\* no broadcast is answered, but one of the other netif's net, which is not
\* seen as such, and a datagram for a group that ran out of time on its way
\* (icmp.c:108-132, ip.c:245, 575).
OthersBroadcast(d, inp) == \E n \in Netifs \ {inp} : d.dst # ifs[n].ip /\ ip_addr_isbroadcast(d.dst, n)
AnswersMeant ==
    \A d \in Asking, inp \in {n \in Listed : Up(n)} : \A a \in Answers(d, inp) :
        /\ d.dst = GROUP => ip_input(d, inp) = "forward"
        /\ d.dst # LIMITED /\ d.dst # [net |-> ifs[inp].ip.net, host |-> "all"]
        /\ a.kind = "echo" /\ ~OthersBroadcast(d, inp) => a.src \in {ifs[n].ip : n \in {m \in Listed : Up(m)}}
        /\ a.kind = "error" => a.out \in Listed /\ Up(a.out)

\* A connection's address is one of a netif, or of one that was removed; so is
\* that a block listens at (netif.c:319-364).
AddressesFollow ==
    /\ \A c \in DOMAIN active : active[c] \in {NO_ADDRESS} \cup gone \cup {ifs[n].ip : n \in Netifs}
    /\ listening \in {NO_ADDRESS, ANY} \cup gone \cup {ifs[n].ip : n \in Netifs}

IpSound == Routed /\ Delivered /\ AnswersMeant /\ AddressesFollow

=============================================================================
