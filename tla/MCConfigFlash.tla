---------------------------- MODULE MCConfigFlash ----------------------------
(***************************************************************************)
(* The configuration in flash on two identities, and beside it parts of the  *)
(* network that do not touch it: DHCP, ARP, DNS, group membership, packet    *)
(* buffers and the heap.  They are checked in one run, side by side: part is the *)
(* one that runs; the others stay as they start.                             *)
(***************************************************************************)
EXTENDS ConfigFlash, TLC, Sequences, FiniteSets

CONSTANTS
    REQUEST_TRIES, REBIND_TRIES, REBOOT_TRIES, DHCP_MAXRTX, Stations, FIRST, LAST,
    LEASE, MAX_STATION_NUM, CHANNEL, EVENTS, Hosts, Macs, ARP_TABLE_SIZE,
    ARP_MAXAGE, ARP_AGE_REREQUEST_USED, ARP_MAXPENDING, QLEN, OUTPUTS, Names,
    DNS_TABLE_SIZE, DNS_MAX_RETRIES, DNS_MAX_SERVERS, SEQNOS, TTLS, NETIFS, GROUPS,
    MAXRESP, IGMP_V1_DELAYING_MEMBER_TMR, IGMP_JOIN_DELAYING_MEMBER_TMR, JOINS,
    PBUFS, POOL_SIZE, HLEN, LAYERS, PBUF_LENGTHS, HOLDS, OPS, MEM_SIZE, HEADER,
    MIN_SIZE, MEM_ALIGNMENT, WANTED

VARIABLES
    part, dhcp, plist, pnext, asking, answers, acked, lapsed, events, arp_table,
    etharp_cached_entry, given, sent, heard, dns, servers, entry, refused,
    igmp_group_list, mac_filter, router, pbuf, refs, kept, ops, headers, lfree,
    holds

dhcpVars == <<dhcp, plist, pnext, asking, answers, acked, lapsed, events>>
etharpVars == <<arp_table, etharp_cached_entry, given, sent, heard>>
dnsVars == <<dns, servers, entry, refused>>
igmpVars == <<igmp_group_list, mac_filter, router>>
pbufsVars == <<pbuf, refs, kept, ops>>
heapVars == <<headers, lfree, holds>>

S == INSTANCE DhcpServer
A == INSTANCE Etharp
N == INSTANCE Dns
G == INSTANCE Igmp WITH USES <- JOINS
B == INSTANCE Pbuf WITH LENGTHS <- PBUF_LENGTHS
H == INSTANCE Heap WITH ram <- headers

ASSUME PartsAssumption ==
    /\ S!DhcpAssumption
    /\ A!EtharpAssumption
    /\ N!DnsAssumption
    /\ G!IgmpAssumption
    /\ B!PbufAssumption
    /\ H!HeapAssumption

MCInit ==
    /\ part \in {"flash", "dhcp", "etharp", "dns", "igmp", "pbufs", "heap"}
    /\ Init
    /\ S!Init
    /\ A!Init
    /\ N!Init
    /\ G!Init
    /\ B!Init
    /\ H!Init
    /\ part # "flash" => C = Blank

\* Every part but p stays as it is.
Others(p) ==
    /\ UNCHANGED part
    /\ p # "flash" => UNCHANGED vars
    /\ p # "dhcp" => UNCHANGED dhcpVars
    /\ p # "etharp" => UNCHANGED etharpVars
    /\ p # "dns" => UNCHANGED dnsVars
    /\ p # "igmp" => UNCHANGED igmpVars
    /\ p # "pbufs" => UNCHANGED pbufsVars
    /\ p # "heap" => UNCHANGED heapVars

MCNext ==
    \/ part = "flash" /\ Next /\ Others("flash")
    \/ part = "dhcp" /\ S!Next /\ Others("dhcp")
    \/ part = "etharp" /\ A!Next /\ Others("etharp")
    \/ part = "dns" /\ N!Next /\ Others("dns")
    \/ part = "igmp" /\ G!Next /\ Others("igmp")
    \/ part = "pbufs" /\ B!Next /\ Others("pbufs")
    \/ part = "heap" /\ H!Next /\ Others("heap")

mcVars == <<
    part, vars, dhcpVars, etharpVars, dnsVars, igmpVars, pbufsVars, heapVars>>
MCSpec == MCInit /\ [][MCNext]_mcVars

-----------------------------------------------------------------------------
\* What module DhcpServer states, and that it keeps its types.
LeasesSound == part = "dhcp" => S!TypeOK /\ S!LeasesSound

\* What the modules Pbuf and Heap state of memory in use, and their types.
MemorySound ==
    /\ part = "pbufs" => B!TypeOK /\ B!PbufSound
    /\ part = "heap" => H!TypeOK /\ H!HeapSound

\* What the modules Etharp and Igmp state of the neighbours and the groups,
\* and their types.
LinkSound ==
    /\ part = "etharp" => A!TypeOK /\ A!TableSound
    /\ part = "igmp" => G!TypeOK /\ G!IgmpSound

\* What module Dns gives its callers, and its types.
LookupsSound == part = "dns" => N!TypeOK /\ N!LookupsSound

\* Identities and macs are interchangeable, and so are stations, hosts and
\* names; the parts share their model values.
Alike == Permutations(Ids \cup Macs) \cup Permutations(Stations \cup Hosts \cup Names)

=============================================================================
