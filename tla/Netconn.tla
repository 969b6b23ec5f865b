------------------------------ MODULE Netconn ------------------------------
(***************************************************************************)
(* Netconns (api/api_lib.c, api/api_msg.c, api/tcpip.c): an application     *)
(* thread calls, its message goes to the thread of the stack and is         *)
(* answered by the semaphore of the netconn, at once or by a callback of    *)
(* TCP much later; what arrives waits in mailboxes that may be full.  As    *)
(* lwIP asks, one thread uses a netconn; core locking is off.               *)
(***************************************************************************)
EXTENDS Integers, Sequences, FiniteSets, SequencesExt

CONSTANTS
    CONNS,          \* the netconns there is memory for
    KEPT,           \* bound: those that are kept; the others are only had by
                    \*   connections that are refused at once
    TYPES,          \* of netconns that are made: "tcp", "udp"
    RECVMBOX, ACCEPTMBOX, \* sizes of the mailboxes
    SNDBUF,         \* TCP's send buffer; TCP_SNDLOWAT is half of it
    WRITES,         \* lengths of writes
    UNITS           \* bound: pieces of data a peer sends

NetconnAssumption ==
    /\ IsFiniteSet(CONNS) /\ KEPT \subseteq CONNS /\ TYPES \subseteq {"tcp", "udp"}
    /\ RECVMBOX \in Nat \ {0} /\ ACCEPTMBOX \in Nat \ {0} /\ SNDBUF \in Nat \ {0}
    /\ WRITES \subseteq Nat \ {0} /\ UNITS \in Nat

VARIABLES
    conns,   \* each netconn
    pcbs,    \* TCP's or UDP's block for it (external)
    app      \* the application thread: where it is, and its call

netconnVars == <<conns, pcbs, app>>

\* Pieces of data are numbered; the end of the stream is 0.
END == 0
CLOSED == [valid |-> FALSE, q |-> <<>>]
EMPTY == [valid |-> TRUE, q |-> <<>>]
FREE == [type |-> "none", state |-> "NONE", current_msg |-> FALSE, last_err |-> "ok", write_offset |-> 0,
         recvmbox |-> CLOSED, acceptmbox |-> CLOSED, nonblocking |-> FALSE, connecting |-> FALSE,
         checkspace |-> FALSE, sendevent |-> FALSE, pcb |-> FALSE, op_completed |-> 0, rcvevent |-> 0, got |-> 0]
\* arg: are the callbacks called with the netconn?  recv: is it recv_tcp?
\* half: it was shut on one side.
NOPCB == [st |-> "none", arg |-> FALSE, recv |-> FALSE, snd_buf |-> SNDBUF, next |-> 1, refused |-> 0, fin |-> FALSE, half |-> FALSE]
IDLE == [pc |-> "run", conn |-> "none", call |-> "none", len |-> 0, dontblock |-> FALSE, how |-> {}, err |-> "ok", done |-> 0]
TCP_SNDLOWAT == SNDBUF \div 2

Used(c) == conns[c].type # "none"
Fatal(r) == r.last_err = "fatal"
\* NETCONN_SET_SAFE_ERR; errors that are not fatal make no difference.
Safe(r, err) == IF err = "fatal" THEN [r EXCEPT !.last_err = "fatal"] ELSE r
Signal(r) == [r EXCEPT !.op_completed = @ + 1]
RcvPlus(r) == [r EXCEPT !.rcvevent = @ + 1]

Init ==
    /\ conns = [c \in CONNS |-> FREE] /\ pcbs = [c \in CONNS |-> NOPCB] /\ app = IDLE

-----------------------------------------------------------------------------
(* What arrives.                                                            *)

\* recv_tcp: the new netconn, and whether the piece was taken.
\* A mutant: the end is not told to who waits with select.
recv_tcp_Quiet(r, piece) ==
    IF ~r.recvmbox.valid THEN [conn |-> r, taken |-> TRUE]
    ELSE IF Len(r.recvmbox.q) = RECVMBOX THEN [conn |-> r, taken |-> FALSE]
    ELSE LET s == [r EXCEPT !.recvmbox.q = Append(@, piece)]
         IN [conn |-> IF piece = END THEN s ELSE RcvPlus(s), taken |-> TRUE]
recv_tcp(r, piece) ==
    IF ~r.recvmbox.valid THEN [conn |-> r, taken |-> TRUE]
    ELSE IF Len(r.recvmbox.q) = RECVMBOX THEN [conn |-> r, taken |-> FALSE]
    ELSE [conn |-> RcvPlus([r EXCEPT !.recvmbox.q = Append(@, piece)]), taken |-> TRUE]

\* TCP delivers a piece, again if it was refused, and after the last one the
\* end, which is told once; the end may come with a piece.
Deliver(r, p) ==
    LET n == IF p.refused # 0 THEN p.refused ELSE p.next
        d == IF p.recv THEN recv_tcp(r, n) ELSE [conn |-> r, taken |-> TRUE]
    IN [conn |-> d.conn, pcb |-> [p EXCEPT !.next = n + 1, !.refused = IF d.taken THEN 0 ELSE n]]
Ended(r, p) ==
    [conn |-> IF p.recv THEN recv_tcp(r, END).conn ELSE r, pcb |-> [p EXCEPT !.fin = TRUE]]
Received(c) ==
    /\ Used(c) /\ pcbs[c].arg /\ pcbs[c].st = "est"
    /\ LET p == pcbs[c]
           d == Deliver(conns[c], p)
       IN \/ /\ (p.refused # 0 \/ p.next <= UNITS) /\ (p.fin => p.refused # 0)
             /\ conns' = [conns EXCEPT ![c] = d.conn] /\ pcbs' = [pcbs EXCEPT ![c] = d.pcb]
          \/ /\ ~p.fin /\ p.refused = 0
             /\ \E e \in {Ended(conns[c], p)} \cup (IF p.next <= UNITS THEN {Ended(d.conn, d.pcb)} ELSE {}) :
                  conns' = [conns EXCEPT ![c] = e.conn] /\ pcbs' = [pcbs EXCEPT ![c] = e.pcb]
    /\ UNCHANGED app

\* recv_udp, recv_raw: dropped if there is no memory or no room.
recv_udp(c) ==
    /\ conns[c].type = "udp" /\ conns[c].pcb /\ pcbs[c].next <= UNITS
    /\ pcbs' = [pcbs EXCEPT ![c].next = @ + 1]
    /\ LET r == conns[c] IN
       \/ UNCHANGED conns
       \/ /\ r.recvmbox.valid /\ Len(r.recvmbox.q) < RECVMBOX
          /\ conns' = [conns EXCEPT ![c] = RcvPlus([r EXCEPT !.recvmbox.q = Append(@, pcbs[c].next)])]
    /\ UNCHANGED app

-----------------------------------------------------------------------------
(* What a call waits for: a connection, room to send, the end.  Each takes  *)
(* and returns the netconn r, its block p and the call a.                   *)

Done(r, a, err) ==
    [conn |-> Signal([r EXCEPT !.current_msg = FALSE, !.state = "NONE"]), call |-> [a EXCEPT !.err = err]]

\* A mutant: a write is finished when what fits has been sent.
do_writemore_Part(r, p, a, nomem) ==
    LET left == a.len - r.write_offset
        len == IF p.snd_buf < left THEN p.snd_buf ELSE left
        d == Done([r EXCEPT !.write_offset = 0, !.sendevent = FALSE], a, "ok")
    IN IF nomem THEN [conn |-> r, pcb |-> p, call |-> a]
       ELSE [conn |-> d.conn, pcb |-> [p EXCEPT !.snd_buf = @ - len], call |-> [d.call EXCEPT !.done = @ + len]]

\* do_writemore; nomem: tcp_write finds no memory.
do_writemore(r, p, a, nomem) ==
    LET dontblock == r.nonblocking \/ a.dontblock
        left == a.len - r.write_offset
        len == IF p.snd_buf < left THEN p.snd_buf ELSE left
        err == IF dontblock /\ len < a.len THEN "mem"
               ELSE IF p.st # "est" THEN "fatal" ELSE IF nomem THEN "mem" ELSE "ok"
        sent == IF err = "ok" THEN [p EXCEPT !.snd_buf = @ - len] ELSE p
        s == IF err \in {"ok", "mem"} /\ sent.snd_buf <= TCP_SNDLOWAT THEN [r EXCEPT !.sendevent = FALSE] ELSE r
        full == Done([r EXCEPT !.checkspace = TRUE, !.sendevent = FALSE], a, "soft")
        fail == Done(r, a, "fatal")
        end == Done([s EXCEPT !.write_offset = 0], a, "ok")
    IN CASE dontblock /\ err = "mem" -> [conn |-> full.conn, pcb |-> p, call |-> full.call]
         [] ~dontblock /\ err = "mem" -> [conn |-> s, pcb |-> p, call |-> a]
         [] err = "fatal" -> [conn |-> fail.conn, pcb |-> p, call |-> fail.call]
         [] err = "ok" /\ len = left -> [conn |-> end.conn, pcb |-> sent, call |-> [end.call EXCEPT !.done = @ + len]]
         [] OTHER -> [conn |-> [s EXCEPT !.write_offset = @ + len], pcb |-> sent, call |-> [a EXCEPT !.done = @ + len]]

\* do_close_internal; nomem: the FIN finds no memory.  A netconn that is shut
\* on one side loses its block as well, and the block keeps the netconn.
\* A mutant: the call is not answered when only one side is shut.
do_close_internal_Half(r, p, a, nomem) ==
    LET d == Done([r EXCEPT !.pcb = FALSE, !.rcvevent = IF "rd" \in a.how THEN @ + 1 ELSE @], a, "ok")
    IN [conn |-> IF a.how = {"rd", "wr"} THEN d.conn ELSE [d.conn EXCEPT !.op_completed = 0],
        pcb |-> IF a.how = {"rd", "wr"} THEN NOPCB ELSE p, call |-> d.call]
do_close_internal(r, p, a, nomem) ==
    LET quiet == IF "rd" \in a.how THEN [p EXCEPT !.recv = FALSE, !.refused = 0] ELSE p
        d == Done([r EXCEPT !.pcb = FALSE, !.rcvevent = IF "rd" \in a.how THEN @ + 1 ELSE @,
                            !.sendevent = @ \/ "wr" \in a.how], a, "ok")
    IN IF nomem /\ p.st = "est" /\ "wr" \in a.how
       THEN [conn |-> r, pcb |-> IF a.how = {"rd", "wr"} THEN quiet ELSE [quiet EXCEPT !.refused = p.refused], call |-> a]
       ELSE [conn |-> d.conn, pcb |-> IF a.how = {"rd", "wr"} THEN NOPCB ELSE [quiet EXCEPT !.half = TRUE], call |-> d.call]

\* sent_tcp and poll_tcp go on with what is waited for.
GoOn(r, p, a, nomem) ==
    CASE r.state = "WRITE" -> do_writemore(r, p, a, nomem)
      [] r.state = "CLOSE" -> do_close_internal(r, p, a, nomem)
      [] OTHER -> [conn |-> r, pcb |-> p, call |-> a]
Writable(r, p) == IF r.pcb /\ p.snd_buf > TCP_SNDLOWAT THEN [r EXCEPT !.checkspace = FALSE, !.sendevent = TRUE] ELSE r
CalledBack(c, p, checking) ==
    \E nomem \in BOOLEAN :
        LET g == GoOn(conns[c], p, app, nomem) IN
        /\ conns' = [conns EXCEPT ![c] = IF checking THEN Writable(g.conn, g.pcb) ELSE g.conn]
        /\ pcbs' = [pcbs EXCEPT ![c] = g.pcb]
        /\ app' = g.call
sent_tcp(c) ==
    /\ Used(c) /\ pcbs[c].arg /\ pcbs[c].st = "est" /\ pcbs[c].snd_buf < SNDBUF
    /\ \E n \in (pcbs[c].snd_buf + 1)..SNDBUF : CalledBack(c, [pcbs[c] EXCEPT !.snd_buf = n], TRUE)
poll_tcp(c) ==
    /\ Used(c) /\ pcbs[c].arg /\ pcbs[c].st = "est"
    /\ CalledBack(c, pcbs[c], conns[c].checkspace)

\* err_tcp: the block is gone; who reads is woken by an end, who waits for an
\* answer gets one.
Woken(r, a) ==
    LET wakes == r.state \in {"WRITE", "CLOSE", "CONNECT"} /\ ~r.connecting
        full == Len(r.recvmbox.q) = RECVMBOX
        s == [r EXCEPT !.pcb = FALSE, !.last_err = "fatal", !.state = "NONE", !.connecting = FALSE,
                       !.rcvevent = @ + 1, !.sendevent = TRUE,
                       !.recvmbox.q = IF r.recvmbox.valid /\ ~full THEN Append(@, END) ELSE @]
    IN IF wakes THEN Done(s, a, "fatal") ELSE [conn |-> s, call |-> a]
\* A mutant: only who writes or closes is woken.
err_tcp_Connect(c) ==
    /\ Used(c) /\ pcbs[c].arg /\ pcbs[c].st \in {"syn", "est"}
    /\ LET w == Woken(conns[c], app) IN
       /\ conns' = [conns EXCEPT ![c] = IF conns[c].state = "CONNECT" THEN [w.conn EXCEPT !.op_completed = 0] ELSE w.conn]
       /\ app' = w.call
    /\ pcbs' = [pcbs EXCEPT ![c] = NOPCB]
err_tcp(c) ==
    /\ Used(c) /\ pcbs[c].arg /\ pcbs[c].st \in {"syn", "est"}
    /\ LET w == Woken(conns[c], app) IN conns' = [conns EXCEPT ![c] = w.conn] /\ app' = w.call
    /\ pcbs' = [pcbs EXCEPT ![c] = NOPCB]

do_connected(c) ==
    /\ Used(c) /\ pcbs[c].arg /\ pcbs[c].st = "syn"
    /\ pcbs' = [pcbs EXCEPT ![c].st = "est"]
    /\ LET r == conns[c]
           s == [r EXCEPT !.connecting = FALSE, !.state = "NONE", !.current_msg = FALSE, !.sendevent = TRUE]
       IN IF r.connecting THEN conns' = [conns EXCEPT ![c] = s] /\ UNCHANGED app
          ELSE conns' = [conns EXCEPT ![c] = Signal(s)] /\ app' = [app EXCEPT !.err = "ok"]

\* accept_function; without memory for a netconn TCP aborts the new block and
\* tells nobody.  If the mailbox is full the netconn is freed, but the block
\* keeps it as the argument of its callbacks.
accept_function(c) ==
    /\ Used(c) /\ pcbs[c].arg /\ pcbs[c].st = "listen" /\ conns[c].acceptmbox.valid
    /\ \E n \in CONNS :
         /\ ~Used(n)
         /\ IF Len(conns[c].acceptmbox.q) = ACCEPTMBOX
            THEN /\ pcbs' = [pcbs EXCEPT ![n] = [NOPCB EXCEPT !.st = "refused", !.arg = TRUE, !.recv = TRUE]]
                 /\ UNCHANGED conns
            ELSE /\ n \in KEPT
                 /\ conns' = [conns EXCEPT ![n] = [FREE EXCEPT !.type = "tcp", !.recvmbox = EMPTY, !.sendevent = TRUE, !.pcb = TRUE],
                                            ![c] = RcvPlus([@ EXCEPT !.acceptmbox.q = Append(@, n)])]
                 /\ pcbs' = [pcbs EXCEPT ![n] = [NOPCB EXCEPT !.st = "est", !.arg = TRUE, !.recv = TRUE]]
    /\ UNCHANGED app

\* Then, before the stack does anything else, tcp_process aborts the block, and
\* err_tcp is called with the freed netconn: what it writes there is lost, since
\* nothing else has the memory yet.
Refusing == \E n \in CONNS : pcbs[n].st = "refused"
tcp_abort(n) ==
    /\ pcbs[n].st = "refused" /\ pcbs' = [pcbs EXCEPT ![n] = NOPCB]
    /\ UNCHANGED <<conns, app>>

-----------------------------------------------------------------------------
(* The messages: what the thread of the stack does with the call a on the   *)
(* netconn c.                                                               *)

\* TCPIP_APIMSG_ACK
Answer(a, r, err) ==
    /\ conns' = [conns EXCEPT ![a.conn] = Signal(r)]
    /\ app' = [a EXCEPT !.pc = "wait", !.err = err]
Waits(a, g) ==
    /\ conns' = [conns EXCEPT ![a.conn] = g.conn]
    /\ pcbs' = [pcbs EXCEPT ![a.conn] = g.pcb]
    /\ app' = [g.call EXCEPT !.pc = "wait"]

\* netconn_drain: the mailboxes go, and netconns that nobody accepted.
Dropped(c) == {n \in CONNS : \E k \in 1..Len(conns[c].acceptmbox.q) : conns[c].acceptmbox.q[k] = n}
Drained(c) ==
    [n \in CONNS |-> IF n \in Dropped(c) THEN FREE
                     ELSE IF n = c THEN [conns[c] EXCEPT !.recvmbox = CLOSED, !.acceptmbox = CLOSED] ELSE conns[n]]
\* A mutant: they stay connected.
Aborted_Left(c) == pcbs
Aborted(c) == [n \in CONNS |-> IF n \in Dropped(c) THEN NOPCB ELSE pcbs[n]]

\* The call a of netconn_new makes the block.
do_newconn(c, a) ==
    \/ UNCHANGED pcbs /\ Answer(a, conns[c], "mem")
    \/ /\ pcbs' = [pcbs EXCEPT ![c] = [NOPCB EXCEPT !.st = "new", !.arg = conns[c].type = "tcp", !.recv = conns[c].type = "tcp"]]
       /\ Answer(a, [conns[c] EXCEPT !.pcb = TRUE], "ok")
\* do_delconn: only a netconn that is at rest is drained and closed.
do_delconn(c, a) ==
    LET r == conns[c]
        both == [a EXCEPT !.how = {"rd", "wr"}]
        s == [Drained(c)[c] EXCEPT !.state = "CLOSE", !.current_msg = TRUE]
    IN IF r.state \in {"WRITE", "CLOSE"} THEN UNCHANGED pcbs /\ Answer(a, r, "inprogress")
       ELSE IF r.pcb /\ r.type = "tcp" THEN
            \E nomem \in BOOLEAN :
                LET g == do_close_internal(s, pcbs[c], both, nomem) IN
                /\ conns' = [Drained(c) EXCEPT ![c] = g.conn]
                /\ pcbs' = [Aborted(c) EXCEPT ![c] = g.pcb]
                /\ app' = [g.call EXCEPT !.pc = "wait"]
       ELSE /\ conns' = [Drained(c) EXCEPT ![c] = Signal(RcvPlus([Drained(c)[c] EXCEPT !.pcb = FALSE]))]
            /\ pcbs' = [Aborted(c) EXCEPT ![c] = IF r.type = "udp" THEN NOPCB ELSE @]
            /\ app' = [a EXCEPT !.pc = "wait", !.err = "ok"]

\* These change nothing of the netconn; but an error that is fatal, as that of
\* a port in use, closes it to most calls for good.
do_bind(c, a) ==
    /\ UNCHANGED pcbs
    /\ \E err \in IF Fatal(conns[c]) THEN {"fatal"} ELSE IF ~conns[c].pcb THEN {"soft"} ELSE {"ok", "soft", "fatal"} :
          Answer(a, conns[c], err)
do_send(c, a) ==
    /\ UNCHANGED pcbs
    /\ \E err \in IF Fatal(conns[c]) \/ ~conns[c].pcb \/ conns[c].type = "tcp" THEN {"fatal"} ELSE {"ok", "soft"} :
          Answer(a, conns[c], err)
\* The peer of a UDP netconn that is not connected is such an error too.
do_getaddr(c, a) ==
    /\ UNCHANGED pcbs
    /\ \E err \in IF ~conns[c].pcb THEN {"fatal"} ELSE IF conns[c].type = "tcp" THEN {"ok"} ELSE {"ok", "fatal"} :
          Answer(a, conns[c], err)
do_disconnect(c, a) ==
    UNCHANGED pcbs /\ Answer(a, conns[c], IF conns[c].type = "udp" THEN "ok" ELSE "soft")
do_connect(c, a) ==
    LET r == conns[c] IN
    IF ~r.pcb THEN UNCHANGED pcbs /\ Answer(a, r, "fatal")
    ELSE IF r.type = "udp" THEN UNCHANGED pcbs /\ Answer(a, r, "ok")
    ELSE IF r.state # "NONE" \/ pcbs[c].st # "new" THEN UNCHANGED pcbs /\ Answer(a, r, "fatal")
    ELSE \/ UNCHANGED pcbs /\ Answer(a, r, "soft")
         \/ /\ pcbs' = [pcbs EXCEPT ![c].st = "syn"]
            /\ IF r.nonblocking
               THEN Answer(a, [r EXCEPT !.state = "CONNECT", !.connecting = TRUE], "inprogress")
               ELSE /\ conns' = [conns EXCEPT ![c].state = "CONNECT", ![c].current_msg = TRUE]
                    /\ app' = [a EXCEPT !.pc = "wait"]
\* Without memory for the mailbox the block is lost.
do_listen(c, a) ==
    LET r == conns[c] IN
    IF Fatal(r) \/ ~r.pcb \/ r.type # "tcp" \/ r.state # "NONE" THEN UNCHANGED pcbs /\ Answer(a, r, "fatal")
    ELSE \/ UNCHANGED pcbs /\ Answer(a, r, "mem")
         \/ /\ pcbs[c].st = "new"
            /\ pcbs' = [pcbs EXCEPT ![c] = [NOPCB EXCEPT !.st = "listen", !.arg = TRUE]]
            /\ Answer(a, [r EXCEPT !.state = "LISTEN", !.recvmbox = CLOSED, !.acceptmbox = EMPTY], "ok")
         \/ /\ pcbs[c].st = "new"
            /\ pcbs' = [pcbs EXCEPT ![c] = NOPCB]
            /\ Answer(a, [r EXCEPT !.recvmbox = CLOSED, !.pcb = FALSE], "mem")
\* do_recv only moves the window.
do_recv(c, a) == UNCHANGED pcbs /\ Answer(a, conns[c], "ok")
do_write(c, a) ==
    LET r == conns[c] IN
    IF Fatal(r) \/ r.type # "tcp" THEN UNCHANGED pcbs /\ Answer(a, r, IF Fatal(r) THEN "fatal" ELSE "soft")
    ELSE IF r.state # "NONE" THEN UNCHANGED pcbs /\ Answer(a, r, "inprogress")
    ELSE IF ~r.pcb THEN UNCHANGED pcbs /\ Answer(a, r, "fatal")
    ELSE \E nomem \in BOOLEAN :
            Waits(a, do_writemore([r EXCEPT !.state = "WRITE", !.current_msg = TRUE, !.write_offset = 0], pcbs[c], a, nomem))
do_close(c, a) ==
    LET r == conns[c]
        rest == IF "rd" \in a.how THEN Drained(c) ELSE conns
    IN IF r.state \notin {"NONE", "LISTEN"} THEN UNCHANGED pcbs /\ Answer(a, r, "inprogress")
       ELSE IF ~r.pcb \/ r.type # "tcp" THEN UNCHANGED pcbs /\ Answer(a, r, "soft")
       ELSE IF a.how # {"rd", "wr"} /\ r.state = "LISTEN" THEN UNCHANGED pcbs /\ Answer(a, r, "fatal")
       ELSE \E nomem \in BOOLEAN :
                LET g == do_close_internal([rest[c] EXCEPT !.state = "CLOSE", !.current_msg = TRUE], pcbs[c], a, nomem) IN
                /\ conns' = [rest EXCEPT ![c] = g.conn]
                /\ pcbs' = [(IF "rd" \in a.how THEN Aborted(c) ELSE pcbs) EXCEPT ![c] = g.pcb]
                /\ app' = [g.call EXCEPT !.pc = "wait"]

\* tcpip_thread takes the message out of its mailbox.
tcpip_thread(c, a) ==
    \/ a.call = "new" /\ do_newconn(c, a)
    \/ a.call = "delete" /\ do_delconn(c, a)
    \/ a.call = "bind" /\ do_bind(c, a)
    \/ a.call = "send" /\ do_send(c, a)
    \/ a.call = "getaddr" /\ do_getaddr(c, a)
    \/ a.call = "disconnect" /\ do_disconnect(c, a)
    \/ a.call = "connect" /\ do_connect(c, a)
    \/ a.call = "listen" /\ do_listen(c, a)
    \/ a.call \in {"recv", "recved"} /\ do_recv(c, a)
    \/ a.call = "write" /\ do_write(c, a)
    \/ a.call = "close" /\ do_close(c, a)
Posted == app.pc = "posted" /\ tcpip_thread(app.conn, app)

-----------------------------------------------------------------------------
(* The calls.                                                               *)

\* A netconn that nobody accepted yet is known to nobody.
Owned(c) == Used(c) /\ \A n \in CONNS : c \notin Dropped(n)
\* NETCONN_EVT_RCVMINUS
Read(r, piece) ==
    IF piece = END THEN [r EXCEPT !.rcvevent = @ - 1, !.last_err = "fatal"]
    ELSE [r EXCEPT !.rcvevent = @ - 1, !.got = piece]

\* TCPIP_APIMSG, tcpip_apimsg: the message is posted, and waited for.  The
\* thread that posts reads nothing more, so whatever comes between the post and
\* its handling may as well come before the post: they are one step.
Call(c, a) == app.pc = "run" /\ Owned(c) /\ tcpip_thread(c, [a EXCEPT !.conn = c])
Plain(c, call) == Call(c, [IDLE EXCEPT !.call = call])

\* netconn_new_with_proto_and_callback, netconn_alloc; a block that was left
\* half shut is followed no further.  Bound: the others come by accept.
netconn_new(c) ==
    /\ app.pc = "run" /\ (\A n \in CONNS : ~Used(n)) /\ c = CHOOSE n \in KEPT : TRUE
    /\ \E t \in TYPES : conns' = [conns EXCEPT ![c] = [FREE EXCEPT !.type = t, !.recvmbox = EMPTY]]
    /\ pcbs' = [n \in CONNS |-> NOPCB]
    /\ app' = [IDLE EXCEPT !.pc = "posted", !.conn = c, !.call = "new"]

netconn_bind(c) == Plain(c, "bind")
netconn_send(c) == Plain(c, "send")
netconn_getaddr(c) == Plain(c, "getaddr")
netconn_disconnect(c) == Plain(c, "disconnect")
netconn_connect(c) == Plain(c, "connect")
netconn_listen(c) == Plain(c, "listen")
netconn_delete(c) == Plain(c, "delete")
netconn_recved(c) == conns[c].type = "tcp" /\ Plain(c, "recved")
netconn_write(c) ==
    /\ conns[c].type = "tcp"
    /\ \E len \in WRITES, dontblock \in IF conns[c].nonblocking THEN {FALSE} ELSE BOOLEAN :
          Call(c, [IDLE EXCEPT !.call = "write", !.len = len, !.dontblock = dontblock])
\* netconn_close, netconn_shutdown
netconn_close_shutdown(c) ==
    \E how \in {{"rd"}, {"wr"}, {"rd", "wr"}} : Call(c, [IDLE EXCEPT !.call = "close", !.how = how])
netconn_set_nonblocking(c) ==
    /\ Owned(c) /\ app.pc = "run" /\ ~conns[c].nonblocking
    /\ conns' = [conns EXCEPT ![c].nonblocking = TRUE]
    /\ UNCHANGED <<pcbs, app>>

\* netconn_accept waits at its mailbox; the netconn it finds is the caller's.
netconn_accept(c) ==
    \/ /\ conns[c].acceptmbox.valid /\ ~Fatal(conns[c]) /\ conns[c].acceptmbox.q = <<>>
       /\ app.pc = "run"
       /\ app' = [IDLE EXCEPT !.pc = "fetch", !.conn = c, !.call = "accept"]
       /\ UNCHANGED <<conns, pcbs>>
    \/ /\ conns[c].acceptmbox.q # <<>>
       /\ IF app.pc = "run" THEN ~Fatal(conns[c]) ELSE app.pc = "fetch" /\ app.conn = c
       /\ conns' = [conns EXCEPT ![c].acceptmbox.q = Tail(@), ![c].rcvevent = @ - 1]
       /\ app' = IDLE
       /\ UNCHANGED pcbs

\* netconn_recv_data waits at its mailbox; of a TCP netconn that is not to be
\* left to it, the stack is told that the window moves, and only then is the
\* event taken back.
netconn_recv_data(c) ==
    /\ Owned(c) /\ app.pc = "run" /\ conns[c].recvmbox.valid /\ ~Fatal(conns[c])
    /\ \E noautorecved \in BOOLEAN :
          app' = [IDLE EXCEPT !.pc = "fetch", !.conn = c, !.call = "recv", !.dontblock = noautorecved]
    /\ UNCHANGED <<conns, pcbs>>
sys_arch_mbox_fetch ==
    LET c == app.conn
        piece == Head(conns[c].recvmbox.q)
        tell == conns[c].type = "tcp" /\ (piece = END \/ ~app.dontblock)
        taken == [conns[c] EXCEPT !.recvmbox.q = Tail(@)]
    IN /\ app.pc = "fetch" /\ app.call = "recv" /\ conns[c].recvmbox.q # <<>>
       /\ conns' = [conns EXCEPT ![c] = IF tell THEN taken ELSE Read(taken, piece)]
       /\ app' = IF tell THEN [app EXCEPT !.pc = "posted", !.len = piece] ELSE IDLE
       /\ UNCHANGED pcbs

\* Nothing has come: the thread stays where it is.
Waiting ==
    /\ app.pc = "fetch" /\ conns[app.conn].recvmbox.q = <<>> /\ conns[app.conn].acceptmbox.q = <<>>
    /\ UNCHANGED netconnVars

\* The answer has come: the call returns.
netconn_returns ==
    LET c == app.conn
        r == [conns[c] EXCEPT !.op_completed = @ - 1]
    IN /\ app.pc = "wait" /\ conns[c].op_completed > 0
       /\ conns' = [conns EXCEPT ![c] =
            CASE app.call = "delete" \/ (app.call = "new" /\ app.err # "ok") -> FREE
              [] app.call = "recv" -> Read(r, app.len)
              [] app.call \in {"new", "recved"} -> r
              [] OTHER -> Safe(r, app.err)]
       /\ app' = IDLE
       /\ UNCHANGED pcbs

Next ==
    \/ \E n \in CONNS : tcp_abort(n)
    \/ /\ ~Refusing
       /\ \/ Posted \/ sys_arch_mbox_fetch \/ Waiting \/ netconn_returns
          \/ \E c \in CONNS :
               \/ Received(c) \/ recv_udp(c) \/ sent_tcp(c) \/ poll_tcp(c) \/ err_tcp(c)
               \/ do_connected(c) \/ accept_function(c)
               \/ netconn_new(c) \/ netconn_bind(c) \/ netconn_send(c) \/ netconn_getaddr(c)
               \/ netconn_disconnect(c) \/ netconn_connect(c) \/ netconn_listen(c)
               \/ netconn_delete(c) \/ netconn_recved(c) \/ netconn_write(c)
               \/ netconn_close_shutdown(c) \/ netconn_set_nonblocking(c)
               \/ netconn_accept(c) \/ netconn_recv_data(c)

Spec == Init /\ [][Next]_netconnVars

-----------------------------------------------------------------------------
TypeOK ==
    /\ \A c \in CONNS :
         /\ conns[c].type \in TYPES \cup {"none"} /\ conns[c].state \in {"NONE", "WRITE", "LISTEN", "CONNECT", "CLOSE"}
         /\ conns[c].op_completed \in 0..1 /\ conns[c].rcvevent \in Int
         /\ pcbs[c].st \in {"none", "new", "syn", "est", "listen", "refused"} /\ pcbs[c].snd_buf \in 0..SNDBUF
    /\ app.conn \in CONNS \cup {"none"} /\ app.pc \in {"run", "posted", "wait", "fetch"}

\* Who waits for the stack is answered: while no answer has come, the netconn
\* remembers the call, and TCP will call the netconn back.
Answered ==
    LET r == conns[app.conn] IN
    (app.pc = "wait" /\ r.op_completed = 0) =>
        /\ r.current_msg /\ r.state \in {"WRITE", "CLOSE", "CONNECT"} /\ r.pcb
        /\ pcbs[app.conn].arg /\ pcbs[app.conn].st \in {"syn", "est"}

\* An answer, and a call that is remembered, belong to the call that waits: the
\* message lies on its stack.
Remembered ==
    \A c \in CONNS :
        /\ conns[c].op_completed <= 1
        /\ (conns[c].op_completed = 1 \/ conns[c].current_msg) => app.pc = "wait" /\ app.conn = c
        /\ ~(conns[c].op_completed = 1 /\ conns[c].current_msg)

\* A write that says it wrote has given TCP every unit, over as many acks as it
\* took, and one that must not block all or none.
Wrote ==
    (app.call = "write" /\ app.pc = "wait" /\ conns[app.conn].op_completed = 1) =>
        /\ app.err = "ok" => app.done = app.len
        /\ app.err = "soft" => app.done = 0

\* What the mailbox holds follows what was read, without a gap and with the
\* end last, and what TCP was refused comes next.
InOrder ==
    \A c \in CONNS :
        LET q == conns[c].recvmbox.q
            left == IF pcbs[c].refused = 0 THEN <<>> ELSE <<pcbs[c].refused>>
            at == conns[c].got + IF app.pc # "run" /\ app.conn = c /\ app.call = "recv" /\ app.pc # "fetch"
                                    /\ app.len # END THEN 1 ELSE 0
            data == SelectSeq(q, LAMBDA piece : piece # END) \o left
        IN (conns[c].type = "tcp" /\ conns[c].recvmbox.valid) =>
             /\ \A k \in 1..Len(data) : data[k] = at + k
             /\ \A k \in 1..(Len(q) - 1) : q[k] # END \/ q[k + 1] = END

\* Who waits with select is not left asleep over something to read or accept.
Noticed ==
    \A c \in CONNS : conns[c].rcvevent >= Len(conns[c].recvmbox.q) + Len(conns[c].acceptmbox.q)

\* Who waits with select for room is not left asleep over a block that has none
\* to come: an ack will tell, or the poll.
RoomNoticed ==
    \A c \in CONNS : (conns[c].pcb /\ pcbs[c].st = "est" /\ ~conns[c].sendevent)
                       => conns[c].checkspace \/ pcbs[c].snd_buf < SNDBUF

\* TCP calls back no netconn that is free, but for two ways in which the code
\* does: one that was shut on one side before it was deleted, and one that
\* accept_function freed because the mailbox of who listens was full.
Forgotten ==
    \A c \in CONNS : pcbs[c].arg =>
        \/ Used(c) \/ pcbs[c].half
        \/ pcbs[c].st = "refused" /\ \E l \in CONNS : Len(conns[l].acceptmbox.q) = ACCEPTMBOX

NetconnSound == Answered /\ Remembered /\ Wrote /\ InOrder /\ Noticed /\ RoomNoticed /\ Forgotten

=============================================================================
