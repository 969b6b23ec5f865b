------------------------------ MODULE MCMailbox ------------------------------
(***************************************************************************)
(* The mailbox on two phones, one limit and two sessions, and beside it what *)
(* lies under the sessions in lwIP: the netifs and IP, and the               *)
(* checksums.  part is the one that runs; the others stay as they start.     *)
(***************************************************************************)
EXTENDS Mailbox

CONSTANTS
    NETS, HOSTS, CONNECTIONS, IP_FORWARD, BYTE, BYTES, LONG, SHORT, ICMP_ECHO

VARIABLES
    part, netif_list, netif_default, ifs, active, listening, gone, chain

ipVars == <<netif_list, netif_default, ifs, active, listening, gone>>
checksumVars == <<chain>>

I == INSTANCE Ip
C == INSTANCE Checksum

ASSUME PartsAssumption ==
    /\ I!IpAssumption
    /\ C!ChecksumAssumption

MCInit ==
    /\ part \in {"mailbox", "ip", "checksum"}
    /\ Init
    /\ I!Init
    /\ C!Init
    /\ part # "mailbox" => Dev_ID = NoPayload
    /\ part # "checksum" => chain = <<[at |-> 0, data |-> <<>>]>>

\* Every part but p stays as it is.
Others(p) ==
    /\ UNCHANGED part
    /\ p # "mailbox" => UNCHANGED vars
    /\ p # "ip" => UNCHANGED ipVars
    /\ p # "checksum" => UNCHANGED checksumVars

MCNext ==
    \/ part = "mailbox" /\ Next /\ Others("mailbox")
    \/ part = "ip" /\ I!Next /\ Others("ip")
    \/ part = "checksum" /\ C!Next /\ Others("checksum")

mcVars == <<part, vars, ipVars, checksumVars>>
MCSpec == MCInit /\ [][MCNext]_mcVars
\* The main loop comes around.
MCFairSpec == MCSpec /\ WF_mcVars(part = "mailbox" /\ Pass /\ Others("mailbox"))

-----------------------------------------------------------------------------

\* What the modules Ip and Checksum state, and their types.
StackSound ==
    /\ part = "ip" => I!TypeOK /\ I!IpSound
    /\ part = "checksum" => C!TypeOK /\ C!ChecksumSound

=============================================================================
