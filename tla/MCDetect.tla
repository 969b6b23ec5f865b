------------------------------ MODULE MCDetect ------------------------------
(***************************************************************************)
(* Detection on small windows and few readings, and beside it the cloud      *)
(* client and the web server of the vendor's example, IoT_Demo, and what     *)
(* carries names and data: mDNS, UDP and lwIP's sockets, of a thread that    *)
(* accepts, of one that reads and of two that select.  They are checked in   *)
(* one run, side by side: part is the one that runs; the others stay as they *)
(* start.                                                                    *)
(***************************************************************************)
EXTENDS Detect

CONSTANTS
    RECON, WRAP, DNS_TABLE_SIZE, LINKS, REQUESTS, PIECES, SEGMENTS, FOUND, PAGE,
    INFOS, MDNS_USES, ANNOUNCEMENTS, PCBS, OWN, OLD, PEERS, PORTS,
    UDP_LOCAL_PORT_RANGE_START, UDP_LOCAL_PORT_RANGE_END, DHCP_CLIENT_PORT,
    DHCP_SERVER_PORT, LENGTHS, DATAGRAM, THREADS, WORKERS, ENDPOINTS, NUM_SOCKETS,
    MBOX, SIZES, STREAM, ASKED

VARIABLES
    part, client, requests, refused, starved, answered, conf, upload, scan, read,
    image, shown, infos, ms_info, mdns_pcb, orphans, bound, recv, arg,
    register_flag, mdns_flag, mdns_timer, member, host_addr, opmode, host_name,
    service_name, PUCK_SERVICE, usesLeft, early, moved, freedUsed, pcb, udp_pcbs,
    raw_pcbs, dhcp, dhcps, address, tries, sockets, netconns, threads,
    select_cb_list,
    select_cb, walks, stack

platformVars == <<client, requests, refused, starved, answered>>
webserverVars == <<conf, upload, scan, read, image, shown>>
mdnsVars == <<infos, ms_info, mdns_pcb, orphans, bound, recv, arg, register_flag,
    mdns_flag, mdns_timer, member, host_addr, opmode, host_name, service_name,
    PUCK_SERVICE, usesLeft, early, moved, freedUsed>>
udpVars == <<pcb, udp_pcbs, raw_pcbs, dhcp, dhcps, address, tries>>
socketsVars == <<sockets, netconns, threads, select_cb_list, select_cb, walks,
    stack>>

L == INSTANCE Platform
B == INSTANCE Webserver
M == INSTANCE Mdns WITH USES <- MDNS_USES
U == INSTANCE Udp WITH PIECE <- DATAGRAM
K == INSTANCE Sockets
R == INSTANCE Sockets WITH
       ENDPOINTS <- {"pcb"}, NUM_SOCKETS <- 1, SIZES <- {1, 2}, STREAM <- 4, ASKED <- {1, 3}
X == INSTANCE Sockets WITH
       THREADS <- {"one", "two"}, ENDPOINTS <- {"pcb"}, NUM_SOCKETS <- 1

ASSUME PartsAssumption ==
    /\ L!PlatformAssumption
    /\ B!WebserverAssumption
    /\ M!MdnsAssumption
    /\ U!UdpAssumption
    /\ K!SocketsAssumption
    /\ R!SocketsAssumption
    /\ X!SocketsAssumption

MCInit ==
    /\ part \in {"detect", "platform", "webserver", "mdns", "udp", "sockets", "reads", "selects"}
    /\ Init
    /\ L!Init
    /\ B!Init
    /\ M!Init
    /\ U!Init
    /\ IF part = "selects" THEN X!Init ELSE IF part = "reads" THEN R!Init ELSE K!Init
    /\ part # "detect" => SensorMode = "Init" /\ adoffset = FACTORY
    /\ part # "platform" => client = L!Boot(0)
    /\ part # "mdns" => opmode = {"sta"}

\* Every part but p stays as it is.
Others(p) ==
    /\ UNCHANGED part
    /\ p # "detect" => UNCHANGED vars
    /\ p # "platform" => UNCHANGED platformVars
    /\ p # "webserver" => UNCHANGED webserverVars
    /\ p # "mdns" => UNCHANGED mdnsVars
    /\ p # "udp" => UNCHANGED udpVars
    /\ p \notin {"sockets", "reads", "selects"} => UNCHANGED socketsVars

MCNext ==
    \/ part = "detect" /\ Next /\ Others("detect")
    \/ part = "platform" /\ L!Next /\ Others("platform")
    \/ part = "webserver" /\ B!Next /\ Others("webserver")
    \/ part = "mdns" /\ M!Next /\ Others("mdns")
    \/ part = "udp" /\ U!Next /\ Others("udp")
    \/ part = "sockets" /\ K!Next /\ Others("sockets")
    \/ part = "reads" /\ R!Next /\ Others("reads")
    \/ part = "selects" /\ X!Next /\ Others("selects")

mcVars == <<
    part, vars, platformVars, webserverVars, mdnsVars, udpVars, socketsVars>>
MCSpec == MCInit /\ [][MCNext]_mcVars

-----------------------------------------------------------------------------

\* What the modules Platform and Webserver state, and their types.
CloudSound ==
    /\ part = "platform" => L!TypeOK /\ L!PlatformSound
    /\ part = "webserver" => B!TypeOK /\ B!WebserverSound

\* What the modules Mdns, Udp and Sockets state: that names, datagrams, streams
\* and events reach whom they are for; and their types.
DeliverySound ==
    /\ part = "mdns" => M!TypeOK /\ M!MdnsSound
    /\ part = "udp" => U!TypeOK /\ U!UdpSound
    /\ part = "sockets" => K!TypeOK /\ K!SocketsSound
    /\ part = "reads" => R!TypeOK /\ R!SocketsSound
    /\ part = "selects" => X!TypeOK /\ X!SocketsSound

=============================================================================
