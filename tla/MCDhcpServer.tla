---------------------------- MODULE MCDhcpServer ----------------------------
(***************************************************************************)
(* Three stations and three addresses, for what node_insert_to_list may do  *)
(* to the list of leases.  Nothing is lost here and nobody leaves: every    *)
(* behaviour is one of DhcpServer.                                          *)
(***************************************************************************)
EXTENDS DhcpServer

MCNext ==
    \/ dhcps_coarse_tmr
    \/ \E c \in Stations : Start(c) \/ Fine(c) \/ Coarse(c) \/ Recv(c) \/ handle_dhcp(c)
MCSpec == Init /\ [][MCNext]_dhcpVars

\* "insert the node to the list" (dhcpserver.c:42): what node_insert_to_list
\* leaves is a list, which ends.
ListEnds == pnext = 0

Alike == Permutations(Stations)

=============================================================================
