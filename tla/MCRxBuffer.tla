----------------------------- MODULE MCRxBuffer -----------------------------
(***************************************************************************)
(* The receive buffer of a session on a few short frames, and beside it what *)
(* carries a session: TCP, espconn and netconns.  part is the one that runs; the *)
(* others stay as they start.                                                *)
(***************************************************************************)
EXTENDS RxBuffer

CONSTANTS
    SEQ, MSS, TCP_WND, SND_BUF, FAST, MAXRTX, BYTES, REPLY, FAULTS, CHUNK, ESP_BUF,
    QUEUELEN, NUM, TIMEOUT, LENGTHS, PACKETS, LIVES, SHORT, CONNS, KEPT, TYPES,
    RECVMBOX, ACCEPTMBOX, SNDBUF, WRITES, UNITS

VARIABLES
    part, pcb, net, iss, written, got, held, eof, faults, node, listening, task,
    lives, ends, packets, lacking, conns, pcbs, app

tcpVars == <<pcb, net, iss, written, got, held, eof, faults>>
espconnVars == <<node, listening, task, lives, ends, packets, lacking>>
netconnVars == <<conns, pcbs, app>>

T == INSTANCE Tcp
E == INSTANCE Espconn
N == INSTANCE Netconn

ASSUME PartsAssumption ==
    /\ T!TcpAssumption
    /\ E!EspconnAssumption
    /\ N!NetconnAssumption

MCInit ==
    /\ part \in {"buffer", "tcp", "espconn", "netconn"}
    /\ Init
    /\ T!Init
    /\ E!Init
    /\ N!Init

\* Every part but p stays as it is.
Others(p) ==
    /\ UNCHANGED part
    /\ p # "buffer" => UNCHANGED vars
    /\ p # "tcp" => UNCHANGED tcpVars
    /\ p # "espconn" => UNCHANGED espconnVars
    /\ p # "netconn" => UNCHANGED netconnVars

MCNext ==
    \/ part = "buffer" /\ Next /\ Others("buffer")
    \/ part = "tcp" /\ T!Next /\ Others("tcp")
    \/ part = "espconn" /\ E!Next /\ Others("espconn")
    \/ part = "netconn" /\ N!Next /\ Others("netconn")

mcVars == <<part, vars, tcpVars, espconnVars, netconnVars>>
MCSpec == MCInit /\ [][MCNext]_mcVars

-----------------------------------------------------------------------------

\* What the modules Tcp, Espconn and Netconn state of data on its way,
\* and their types.
TransportSound ==
    /\ part = "tcp" => T!TypeOK /\ T!ConnectionSound
    /\ part = "espconn" => E!TypeOK /\ E!EspconnSound
    /\ part = "netconn" => N!TypeOK /\ N!NetconnSound

=============================================================================
