-------------------------------- MODULE Tcp --------------------------------
(***************************************************************************)
(* TCP of the lwIP that the SDK links (core/tcp.c, tcp_in.c, tcp_out.c): a *)
(* client that connects and a server that listens, both running this code  *)
(* over a network that loses, duplicates and reorders.  A pcb is a record; *)
(* a function of the code takes one and returns it, with the segments it   *)
(* sends in out.  Timers fire when they may; how long they run is left     *)
(* out, and so are round trip times, options and memory errors.  The       *)
(* congestion window is one segment after a timeout, else as large as the  *)
(* window.  Bytes are numbered in the order they are written.              *)
(***************************************************************************)
EXTENDS Integers, Sequences, FiniteSets, SequencesExt, FiniteSetsExt

CONSTANTS
    SEQ,        \* sequence numbers wrap here (2^32)
    MSS,        \* TCP_MSS
    TCP_WND,    \* receive window
    SND_BUF,    \* TCP_SND_BUF
    FAST,       \* duplicate acks before a fast retransmission (3)
    MAXRTX,     \* TCP_MAXRTX, TCP_SYNMAXRTX
    BYTES,      \* bound: bytes the client writes
    REPLY,      \* bound: bytes the server writes
    FAULTS      \* bound: losses, duplicates and early timeouts

TcpAssumption ==
    /\ MSS \in Nat \ {0} /\ TCP_WND >= 2 * MSS /\ SND_BUF > MSS /\ SEQ > 4 * TCP_WND
    /\ FAST \in Nat \ {0} /\ MAXRTX \in Nat \ {0} /\ FAULTS \in Nat
    /\ BYTES \in Nat /\ REPLY \in Nat

Ends == {"client", "server"}
Peer(e) == IF e = "client" THEN "server" ELSE "client"

VARIABLES
    pcb,        \* the control block of each end
    net,        \* segments on their way to each end
    iss,        \* tcp_next_iss
    written,    \* bytes tcp_write has accepted
    got,        \* bytes the recv callback has been given
    held,       \* bytes given and not yet acknowledged with tcp_recved
    eof,        \* the recv callback has been called with NULL
    faults

vars == <<pcb, net, iss, written, got, held, eof, faults>>

\* TCP_SEQ_LT and its kin: the sign of the difference.
Minus(a, b) == (a - b) % SEQ
Plus(a, n) == (a + n) % SEQ
Lt(a, b) == Minus(a, b) >= SEQ \div 2
Leq(a, b) == ~Lt(b, a)
Between(a, b, c) == Leq(b, a) /\ Leq(a, c)

\* struct tcp_seg: what is queued.
Len1(b) == IF b THEN 1 ELSE 0
TcpLen(s) == Len(s.data) + Len1(s.syn \/ s.fin)
End(s) == Plus(s.seq, TcpLen(s))

\* tcp_alloc; a freed pcb is one that is CLOSED.
tcp_alloc(i) ==
    [st |-> "CLOSED", flags |-> {}, rcv_nxt |-> 0, rcv_wnd |-> TCP_WND, ann_wnd |-> TCP_WND,
     edge |-> 0, snd_nxt |-> i, lastack |-> i, snd_lbb |-> i, snd_wnd |-> 0, snd_wl1 |-> 0,
     snd_wl2 |-> i, snd_buf |-> SND_BUF, unsent |-> <<>>, unacked |-> <<>>, ooseq |-> <<>>,
     refused |-> <<>>, rtime |-> FALSE, nrtx |-> 0, persist |-> FALSE, cwnd |-> 1,
     dupacks |-> 0, out |-> <<>>]
Freed == tcp_alloc(0)

Init ==
    /\ pcb = [e \in Ends |-> Freed] /\ net = [e \in Ends |-> <<>>] /\ iss = [e \in Ends |-> SEQ - 2]
    /\ written = [e \in Ends |-> 0] /\ got = [e \in Ends |-> <<>>] /\ held = [e \in Ends |-> 0]
    /\ eof = [e \in Ends |-> FALSE] /\ faults = 0

-----------------------------------------------------------------------------
(* tcp_out.c                                                                *)

\* tcp_output_alloc_header, tcp_output_segment, tcp_rst: what goes out.
Emit(p, seq, data, fl) ==
    [p EXCEPT !.out = Append(@, [seq |-> seq, data |-> data, fl |-> fl, ack |-> p.rcv_nxt,
                                 wnd |-> p.ann_wnd]),
              !.edge = Plus(p.rcv_nxt, p.ann_wnd)]
tcp_rst(p, seq, ack) ==
    [p EXCEPT !.out = Append(@, [seq |-> seq, data |-> <<>>, fl |-> {"RST", "ACK"},
                                 ack |-> ack, wnd |-> TCP_WND])]
tcp_send_empty_ack(p) ==
    [Emit(p, p.snd_nxt, <<>>, {"ACK"}) EXCEPT !.flags = @ \ {"ACK_DELAY", "ACK_NOW"}]

\* tcp_enqueue_flags: a SYN or a FIN is a segment of its own ...
tcp_enqueue_flags(p, f) ==
    LET s == [seq |-> p.snd_lbb, data |-> <<>>, syn |-> "SYN" \in f, fin |-> "FIN" \in f] IN
    [p EXCEPT !.unsent = Append(@, s), !.snd_lbb = Plus(@, 1), !.snd_buf = @ - 1,
              !.flags = @ \cup (f \cap {"FIN"})]
CanEnqueue(p) == p.snd_buf > 0
\* ... unless the FIN goes with the last segment that waits, and then it
\* takes no room and TF_FIN is not set.
OnLast(p) == p.unsent # <<>> /\ ~Last(p.unsent).syn /\ ~Last(p.unsent).fin
tcp_send_fin(p) ==
    IF OnLast(p) THEN [p EXCEPT !.unsent[Len(p.unsent)].fin = TRUE]
    ELSE tcp_enqueue_flags(p, {"FIN"})

\* tcp_write: bytes fill up the last segment that waits ...
Room(p) ==
    IF p.unsent # <<>> /\ Last(p.unsent).data # <<>> THEN MSS - Len(Last(p.unsent).data) ELSE 0
\* ... and then a new one.
tcp_write(p, bytes) ==
    LET n == Min({Room(p), Len(bytes)})
        fill == IF n = 0 THEN p.unsent
                ELSE [p.unsent EXCEPT ![Len(p.unsent)].data = @ \o SubSeq(bytes, 1, n)]
        rest == SubSeq(bytes, n + 1, Len(bytes))
        new == IF rest = <<>> THEN <<>>
               ELSE <<[seq |-> Plus(p.snd_lbb, n), data |-> rest, syn |-> FALSE, fin |-> FALSE]>>
    IN [p EXCEPT !.unsent = fill \o new, !.snd_lbb = Plus(@, Len(bytes)),
                 !.snd_buf = @ - Len(bytes)]

\* tcp_output: as many segments as window and Nagle let go.
Window(p) == IF p.cwnd < p.snd_wnd THEN p.cwnd ELSE p.snd_wnd
Fits(p, s, w) == Minus(s.seq, p.lastack) + Len(s.data) <= w
Nagle(p, i) ==
    \/ p.unacked = <<>> /\ i = 1
    \/ "INFR" \in p.flags
    \/ i < Len(p.unsent) \/ Len(p.unsent[i].data) >= MSS
    \/ "FIN" \in p.flags
Burst(p) ==
    Max({0} \cup {k \in 1..Len(p.unsent) :
                    \A i \in 1..k : Fits(p, p.unsent[i], Window(p)) /\ Nagle(p, i)})
Flags(p, s) ==
    (IF s.syn THEN {"SYN"} ELSE {}) \cup (IF s.fin THEN {"FIN"} ELSE {})
        \cup (IF p.st = "SYN_SENT" THEN {} ELSE {"ACK"})
SeqOrder(s, t) == Lt(s.seq, t.seq)
SendBurst(p, n) ==
    LET go == SubSeq(p.unsent, 1, n)
        q == FoldLeft(LAMBDA r, s : Emit(r, s.seq, s.data, Flags(p, s)), p, go)
        sent == SelectSeq(go, LAMBDA s : TcpLen(s) > 0)
        high == {End(s) : s \in ToSet(go)} \cup {p.snd_nxt}
    IN [q EXCEPT
        !.unsent = SubSeq(@, n + 1, Len(@)),
        !.unacked = SortSeq(@ \o sent, SeqOrder),
        !.snd_nxt = CHOOSE h \in high : \A x \in high : Leq(x, h),
        !.rtime = @ \/ n > 0,
        !.flags = IF n > 0 /\ p.st # "SYN_SENT" THEN @ \ {"ACK_DELAY", "ACK_NOW"} ELSE @]
tcp_output(p) ==
    IF "ACK_NOW" \in p.flags /\ (p.unsent = <<>> \/ ~Fits(p, Head(p.unsent), Window(p)))
    THEN tcp_send_empty_ack(p)
    ELSE LET q == SendBurst(p, Burst(p)) IN
         [q EXCEPT !.persist =
            @ \/ (q.unsent # <<>> /\ ~Fits(q, Head(q.unsent), q.snd_wnd))]

\* tcp_rexmit_rto, tcp_rexmit, tcp_rexmit_fast.
tcp_rexmit_rto(p) ==
    tcp_output([p EXCEPT !.unsent = p.unacked \o @, !.unacked = <<>>, !.nrtx = @ + 1, !.cwnd = MSS])
\* Mutant: what is sent again stays queued as sent.
tcp_rexmit_Twice(p) ==
    IF p.unacked = <<>> THEN p
    ELSE [p EXCEPT !.unsent = SortSeq(<<Head(p.unacked)>> \o @, SeqOrder), !.nrtx = @ + 1]
tcp_rexmit(p) ==
    IF p.unacked = <<>> THEN p
    ELSE [p EXCEPT !.unsent = SortSeq(<<Head(p.unacked)>> \o @, SeqOrder), !.unacked = Tail(@),
                   !.nrtx = @ + 1]
tcp_rexmit_fast(p) ==
    IF p.unacked = <<>> \/ "INFR" \in p.flags THEN p
    ELSE [tcp_rexmit(p) EXCEPT !.flags = @ \cup {"INFR"}, !.cwnd = TCP_WND]

\* tcp_keepalive, tcp_zero_window_probe: neither moves snd_nxt.
tcp_keepalive(p) == Emit(p, Minus(p.snd_nxt, 1), <<>>, {"ACK"})
tcp_zero_window_probe(p) ==
    LET q == p.unacked \o p.unsent IN
    IF q = <<>> THEN p
    ELSE LET s == Head(q) IN
         Emit(p, s.seq, SubSeq(s.data, 1, Min({1, Len(s.data)})),
              {"ACK"} \cup (IF s.fin /\ s.data = <<>> THEN {"FIN"} ELSE {}))

-----------------------------------------------------------------------------
(* tcp_in.c.  A segment s that arrives is [seq, data, fl, ack, wnd].        *)

SegLen(s) == Len(s.data) + Len1(s.fl \cap {"SYN", "FIN"} # {})
tcp_ack_now(p) == [p EXCEPT !.flags = @ \cup {"ACK_NOW"}]
tcp_ack(p) ==
    IF "ACK_DELAY" \in p.flags
    THEN [p EXCEPT !.flags = (@ \ {"ACK_DELAY"}) \cup {"ACK_NOW"}]
    ELSE [p EXCEPT !.flags = @ \cup {"ACK_DELAY"}]
tcp_update_rcv_ann_wnd(p) ==
    LET right == Plus(p.rcv_nxt, p.rcv_wnd)
        step == IF TCP_WND \div 2 < MSS THEN TCP_WND \div 2 ELSE MSS
    IN [p EXCEPT !.ann_wnd =
          IF Leq(Plus(p.edge, step), right) THEN p.rcv_wnd
          ELSE IF Lt(p.edge, p.rcv_nxt) THEN 0 ELSE Minus(p.edge, p.rcv_nxt)]

\* tcp_receive: the send window.
NewWindow(p, s) ==
    IF \/ Lt(p.snd_wl1, s.seq)
       \/ p.snd_wl1 = s.seq /\ Lt(p.snd_wl2, s.ack)
       \/ p.snd_wl2 = s.ack /\ s.wnd > p.snd_wnd
    THEN [p EXCEPT !.snd_wnd = s.wnd, !.snd_wl1 = s.seq, !.snd_wl2 = s.ack,
                   !.persist = @ /\ s.wnd = 0]
    ELSE p

\* An ack of nothing new counts as a duplicate if it says nothing else.
OldAck(p, s, right) ==
    LET dup == /\ SegLen(s) = 0 /\ Plus(p.snd_wl2, p.snd_wnd) = right
               /\ p.rtime /\ p.lastack = s.ack
        q == [p EXCEPT !.dupacks = IF dup THEN Min({@ + 1, FAST + 1}) ELSE 0]
    IN IF dup /\ q.dupacks = FAST THEN tcp_rexmit_fast(q) ELSE q

\* An ack of something new.
Acked(ss, a) == SelectSeq(ss, LAMBDA s : ~Leq(End(s), a))
\* Mutant: the timer stops although something is unacknowledged.
NewAck_StopsTimer(p, s) ==
    [p EXCEPT !.flags = @ \ {"INFR"}, !.nrtx = 0, !.snd_buf = @ + Minus(s.ack, p.lastack),
              !.dupacks = 0, !.lastack = s.ack, !.cwnd = TCP_WND,
              !.unacked = Acked(@, s.ack), !.rtime = FALSE]
NewAck(p, s) ==
    LET left == Acked(p.unacked, s.ack) IN
    [p EXCEPT !.flags = @ \ {"INFR"}, !.nrtx = 0, !.snd_buf = @ + Minus(s.ack, p.lastack),
              !.dupacks = 0, !.lastack = s.ack, !.cwnd = TCP_WND,
              !.unacked = left, !.rtime = left # <<>>]

\* What waits to be sent again may have been acked too.
UnsentAcked(p, s) ==
    LET n == Max({0} \cup {k \in 1..Len(p.unsent) :
                             \A i \in 1..k : Between(s.ack, End(p.unsent[i]), p.snd_nxt)})
    IN [p EXCEPT !.unsent = SubSeq(@, n + 1, Len(@))]

AckIn(p, s) ==
    IF "ACK" \notin s.fl THEN p
    ELSE LET right == Plus(p.snd_wl2, p.snd_wnd)
             q == NewWindow(p, s)
             r == IF Leq(s.ack, q.lastack) THEN OldAck(q, s, right)
                  ELSE IF Between(s.ack, Plus(q.lastack, 1), q.snd_nxt) THEN NewAck(q, s)
                  ELSE q
         IN UnsentAcked(r, s)

\* The part of an arriving segment that has been received before goes.
Trim(p, s) ==
    IF Between(p.rcv_nxt, Plus(s.seq, 1), Plus(s.seq, SegLen(s) - 1))
    THEN [s EXCEPT !.seq = p.rcv_nxt,
                   !.data = SubSeq(@, Minus(p.rcv_nxt, s.seq) + 1, Len(@))]
    ELSE s

\* What is put before other segments takes the place of those it covers,
\* with their FIN, and stops where the next begins.
Queued(s) == [seq |-> s.seq, data |-> s.data, syn |-> FALSE, fin |-> "FIN" \in s.fl]
PutBefore(c, after) ==
    IF c.fin THEN <<c>>
    ELSE LET stop == Plus(c.seq, Len(c.data))
             over == SelectSeq(after, LAMBDA t : Leq(Plus(t.seq, Len(t.data)), stop))
             rest == SelectSeq(after, LAMBDA t : ~Leq(Plus(t.seq, Len(t.data)), stop))
             cut == IF rest # <<>> /\ Lt(Head(rest).seq, stop)
                    THEN SubSeq(c.data, 1, Minus(Head(rest).seq, c.seq)) ELSE c.data
         IN <<[c EXCEPT !.fin = \E t \in ToSet(over) : t.fin, !.data = cut]>> \o rest

\* A segment ahead of what is expected is kept for later.
OosInsert(q, c, room) ==
    LET before == SelectSeq(q, LAMBDA t : Lt(t.seq, c.seq))
        after == SelectSeq(q, LAMBDA t : ~Lt(t.seq, c.seq))
        upTo == IF before = <<>> THEN <<>>
                ELSE [before EXCEPT ![Len(before)].data =
                        SubSeq(@, 1, Min({Len(@), Minus(c.seq, Last(before).seq)}))]
    IN IF after # <<>> /\ Head(after).seq = c.seq /\ Len(c.data) <= Len(Head(after).data) THEN q
       ELSE IF before # <<>> /\ after = <<>>
       THEN IF Last(before).fin THEN q
            ELSE Append(upTo, IF TcpLen(c) > room
                              THEN [c EXCEPT !.data = SubSeq(@, 1, room), !.fin = FALSE] ELSE c)
       ELSE upTo \o PutBefore(c, after)

\* The segment expected: it and what was kept behind it is received, as far
\* as the window goes.
Fit(p, c) ==
    IF TcpLen(c) > p.rcv_wnd
    THEN [c EXCEPT !.fin = FALSE, !.data = SubSeq(@, 1, Min({Len(@), p.rcv_wnd}))] ELSE c
Run(q) == Max({k \in 1..Len(q) : \A i \in 2..k : q[i].seq = End(q[i - 1])})
Take(p, run, kept) ==
    LET len == FoldLeft(LAMBDA k, t : k + TcpLen(t), 0, run)
    IN [p |-> tcp_ack(tcp_update_rcv_ann_wnd(
                [p EXCEPT !.rcv_nxt = Plus(@, len), !.rcv_wnd = @ - len, !.ooseq = kept,
                          !.st = IF @ = "ESTABLISHED" /\ Last(run).fin THEN "CLOSE_WAIT" ELSE @])),
        data |-> FoldLeft(LAMBDA d, t : d \o t.data, <<>>, run), fin |-> Last(run).fin]
TakeFrom(p, q) == Take(p, SubSeq(q, 1, Run(q)), SubSeq(q, Run(q) + 1, Len(q)))
InOrder(p, s) == TakeFrom(p, PutBefore(Fit(p, Queued(s)), p.ooseq))

\* tcp_receive, the data: what the callbacks are to be told is in data, fin.
Nothing(p) == [p |-> p, data |-> <<>>, fin |-> FALSE]
InWindow(p, s) == Between(s.seq, p.rcv_nxt, Minus(Plus(p.rcv_nxt, p.rcv_wnd), 1))
Trimmed(p, s) ==
    IF ~InWindow(p, s) THEN Nothing(tcp_send_empty_ack(p))
    ELSE IF s.seq = p.rcv_nxt THEN InOrder(p, s)
    ELSE Nothing([tcp_send_empty_ack(p) EXCEPT
                  !.ooseq = OosInsert(@, Queued(s), Minus(Plus(p.rcv_nxt, p.rcv_wnd), s.seq))])
DataIn(p, s) ==
    IF SegLen(s) = 0 THEN Nothing(IF InWindow(p, s) THEN p ELSE tcp_ack_now(p))
    ELSE Trimmed(IF Trim(p, s) = s /\ Lt(s.seq, p.rcv_nxt) THEN tcp_ack_now(p) ELSE p, Trim(p, s))
tcp_receive(p, s) == DataIn(AckIn(p, s), s)

-----------------------------------------------------------------------------
(* tcp_process by state, on p with what tcp_receive returned in r.          *)

Done(p) == [p |-> p, data |-> <<>>, fin |-> FALSE, verdict |-> "ok"]
After(r, p) == [p |-> p, data |-> r.data, fin |-> r.fin, verdict |-> "ok"]
tcp_pcb_purge(p) ==
    [p EXCEPT !.refused = <<>>, !.unsent = <<>>, !.unacked = <<>>, !.ooseq = <<>>, !.rtime = FALSE]
TimeWait(p) == [tcp_pcb_purge(p) EXCEPT !.st = "TIME_WAIT"]

SynSent(p, s) ==
    IF {"SYN", "ACK"} \subseteq s.fl /\ p.unacked # <<>> /\ s.ack = Plus(Head(p.unacked).seq, 1)
    THEN Done(tcp_ack_now(
            [p EXCEPT !.snd_buf = @ + 1, !.rcv_nxt = Plus(s.seq, 1), !.edge = Plus(s.seq, 1),
                      !.lastack = s.ack, !.snd_wnd = s.wnd, !.snd_wl1 = Minus(s.seq, 1),
                      !.st = "ESTABLISHED", !.cwnd = IF @ = 1 THEN TCP_WND ELSE MSS,
                      !.unacked = Tail(@), !.rtime = Len(p.unacked) > 1, !.nrtx = 0]))
    ELSE IF "ACK" \in s.fl THEN Done(tcp_rst(p, s.ack, Plus(s.seq, SegLen(s))))
    ELSE Done(p)

GotFin(r) == IF r.fin THEN [tcp_ack_now(r.p) EXCEPT !.st = "CLOSE_WAIT"] ELSE r.p
Opened(p, r) == After(r, [GotFin(r) EXCEPT !.cwnd = IF p.cwnd = 1 THEN TCP_WND ELSE MSS])
SynRcvd(p, s) ==
    IF "ACK" \in s.fl
    THEN IF Between(s.ack, Plus(p.lastack, 1), p.snd_nxt)
         THEN Opened(p, tcp_receive([p EXCEPT !.st = "ESTABLISHED"], s))
         ELSE Done(tcp_rst(p, s.ack, Plus(s.seq, SegLen(s))))
    ELSE IF "SYN" \in s.fl /\ s.seq = Minus(p.rcv_nxt, 1) THEN Done(tcp_rexmit(p))
    ELSE Done(p)

FinAcked(p, s) == "ACK" \in s.fl /\ s.ack = p.snd_nxt
Closing(r, s) ==
    CASE r.p.st = "FIN_WAIT_1" ->
            IF r.fin THEN IF FinAcked(r.p, s) THEN TimeWait(tcp_ack_now(r.p))
                          ELSE [tcp_ack_now(r.p) EXCEPT !.st = "CLOSING"]
            ELSE IF FinAcked(r.p, s) THEN [r.p EXCEPT !.st = "FIN_WAIT_2"] ELSE r.p
      [] r.p.st = "FIN_WAIT_2" -> IF r.fin THEN TimeWait(tcp_ack_now(r.p)) ELSE r.p
      [] r.p.st = "CLOSING" -> IF FinAcked(r.p, s) THEN TimeWait(r.p) ELSE r.p

Received(p, s, r) ==
    IF p.st \in {"ESTABLISHED", "CLOSE_WAIT"} THEN After(r, GotFin(r))
    ELSE IF p.st = "LAST_ACK"
    THEN [After(r, r.p) EXCEPT !.verdict = IF FinAcked(r.p, s) THEN "closed" ELSE "ok"]
    ELSE After(r, Closing(r, s))
tcp_process(p, s) ==
    IF "RST" \in s.fl
    THEN IF \/ p.st = "SYN_SENT" /\ s.ack = p.snd_nxt
            \/ p.st # "SYN_SENT" /\ Between(s.seq, p.rcv_nxt, Plus(p.rcv_nxt, p.rcv_wnd))
         THEN [Done(p) EXCEPT !.verdict = "reset"] ELSE Done(p)
    ELSE IF "SYN" \in s.fl /\ p.st \notin {"SYN_SENT", "SYN_RCVD"} THEN Done(tcp_ack_now(p))
    ELSE IF p.st = "SYN_SENT" THEN SynSent(p, s)
    ELSE IF p.st = "SYN_RCVD" THEN SynRcvd(p, s)
    ELSE Received(p, s, tcp_receive(p, s))

-----------------------------------------------------------------------------
(* tcp_input and the rest of tcp.c: the steps.                              *)

Active(e) == pcb[e].st \notin {"CLOSED", "TIME_WAIT"}
\* A step leaves the segments in transit ns, its pcb without them.
Commit(e, p, ns) ==
    /\ pcb' = [pcb EXCEPT ![e] = [p EXCEPT !.out = <<>>]]
    /\ net' = [ns EXCEPT ![Peer(e)] = @ \o p.out]
\* tcp_pcb_remove: an ack that was put off goes out, unless tcp_input runs.
Free(e, p, ns) ==
    Commit(e, [Freed EXCEPT !.out = IF "ACK_DELAY" \in p.flags
                                    THEN tcp_send_empty_ack(tcp_pcb_purge(p)).out ELSE p.out], ns)

\* tcp_recved: the window opens by n, and is announced if it opens far.
tcp_recved(p, n) ==
    LET q == [p EXCEPT !.rcv_wnd = Min({@ + n, TCP_WND})]
        r == tcp_update_rcv_ann_wnd(q)
        open == Leq(Plus(p.edge, Min({TCP_WND \div 2, MSS})), Plus(q.rcv_nxt, q.rcv_wnd))
    IN IF open /\ 4 * Minus(Plus(q.rcv_nxt, q.rcv_wnd), p.edge) >= TCP_WND
       THEN tcp_ack_now(r) ELSE r

\* The recv callback takes what it is given, holds it (and calls tcp_recved
\* later) or refuses it: once for each piece it is given.
Callback(e) == IF e = "client" THEN {"take"} ELSE {"hold", "refuse"}
Given(e, p, d, c) ==
    IF c = "take" THEN tcp_recved(p, Len(d)) ELSE p
Hear(e, d, c) ==
    /\ got' = [got EXCEPT ![e] = IF c = "refuse" THEN @ ELSE @ \o d]
    /\ held' = [held EXCEPT ![e] = IF c = "hold" THEN @ + Len(d) ELSE @]
HearBoth(e, old, was, data, c) ==
    IF was = "refuse" THEN Hear(e, data, c)
    ELSE IF c = "refuse" THEN Hear(e, old, was)
    ELSE Hear(e, old \o data, c)

\* With hardly a buffer left, the last segment kept out of order is given up.
pbuf_free_ooseq_new(p) == {p, [p EXCEPT !.ooseq = IF @ = <<>> THEN @ ELSE Front(@)]}

\* tcp_input for a pcb in use: data that was refused is offered again first,
\* then r, what tcp_process made of p, is told to the application.
Told(e, was, c, ns, old, p, r) ==
    LET data == IF "RXCLOSED" \in p.flags THEN <<>> ELSE r.data
        q == IF r.fin /\ r.p.rcv_wnd # TCP_WND THEN [r.p EXCEPT !.rcv_wnd = @ + 1] ELSE r.p
    IN /\ HearBoth(e, old, was, IF r.verdict = "ok" THEN data ELSE <<>>, c)
       /\ IF r.verdict # "ok"
          THEN Commit(e, [Freed EXCEPT !.out = r.p.out], ns) /\ UNCHANGED eof
          ELSE IF r.data # <<>> /\ "RXCLOSED" \in p.flags
          THEN /\ Commit(e, [Freed EXCEPT !.out = tcp_rst(r.p, r.p.snd_nxt, r.p.rcv_nxt).out], ns)
               /\ UNCHANGED eof
          ELSE /\ \E t \in pbuf_free_ooseq_new(
                              tcp_output(IF data # <<>> /\ c = "refuse"
                                         THEN [q EXCEPT !.refused = data]
                                         ELSE Given(e, q, data, c))) : Commit(e, t, ns)
               /\ eof' = [eof EXCEPT ![e] = @ \/ r.fin]
Process(e, s, was, c, ns, p) == Told(e, was, c, ns, pcb[e].refused, p, tcp_process(p, s))
InputActive(e, s, was, c, ns) ==
    LET old == pcb[e].refused IN
    IF old # <<>> /\ was = "refuse" /\ SegLen(s) > 0
    THEN Commit(e, pcb[e], ns) /\ UNCHANGED <<got, held, eof>>
    ELSE Process(e, s, was, c, ns,
                 IF old = <<>> \/ was = "refuse" THEN pcb[e]
                 ELSE Given(e, [pcb[e] EXCEPT !.refused = <<>>], old, was))

\* tcp_timewait_input.
InputTimeWait(e, s, ns) ==
    LET p == pcb[e] IN
    Commit(e, IF "RST" \in s.fl THEN p
              ELSE IF "SYN" \in s.fl /\ Between(s.seq, p.rcv_nxt, Plus(p.rcv_nxt, p.rcv_wnd))
              THEN tcp_rst(p, s.ack, Plus(s.seq, SegLen(s)))
              ELSE IF SegLen(s) > 0 THEN tcp_output(tcp_ack_now(p)) ELSE p, ns)

\* tcp_listen_input.
Accepts(e, s) == e = "server" /\ "SYN" \in s.fl /\ "ACK" \notin s.fl
tcp_listen_input(s, i) ==
    tcp_output(tcp_enqueue_flags(
        [tcp_alloc(i) EXCEPT !.st = "SYN_RCVD", !.rcv_nxt = Plus(s.seq, 1),
                             !.edge = Plus(s.seq, 1), !.snd_wnd = s.wnd,
                             !.snd_wl1 = Minus(s.seq, 1)], {"SYN", "ACK"}))
InputNone(e, s, ns) ==
    IF Accepts(e, s) THEN Commit(e, tcp_listen_input(s, iss[e]), ns)
    ELSE IF e = "server" /\ "ACK" \notin s.fl THEN Commit(e, Freed, ns)
    ELSE IF e = "server" THEN Commit(e, tcp_rst(Freed, Plus(s.ack, 1), Plus(s.seq, SegLen(s))), ns)
    ELSE Commit(e, IF "RST" \in s.fl THEN Freed ELSE tcp_rst(Freed, s.ack, Plus(s.seq, SegLen(s))), ns)

tcp_input(e, s, ns) ==
    /\ IF Active(e) THEN \E was, c \in Callback(e) : InputActive(e, s, was, c, ns)
       ELSE UNCHANGED <<got, held, eof>> /\ IF pcb[e].st = "TIME_WAIT" THEN InputTimeWait(e, s, ns)
                                            ELSE InputNone(e, s, ns)
    /\ iss' = IF pcb[e].st = "CLOSED" /\ Accepts(e, s)
              THEN [iss EXCEPT ![e] = Plus(@, 2 * TCP_WND)] ELSE iss
    /\ UNCHANGED written

\* External: the network.  What it does besides delivering in order is a fault.
Fault == faults < FAULTS /\ faults' = faults + 1
Without(e, i) == [net EXCEPT ![e] = RemoveAt(@, i)]
Deliver(e) ==
    /\ net[e] # <<>> /\ UNCHANGED faults
    /\ tcp_input(e, net[e][1], Without(e, 1))
Overtake(e) ==
    /\ Fault
    /\ \E i \in 2..Len(net[e]) : tcp_input(e, net[e][i], Without(e, i))
Duplicate(e) ==
    /\ net[e] # <<>> /\ Fault
    /\ \E i \in 1..Len(net[e]) : tcp_input(e, net[e][i], net)
Lose(e) ==
    /\ Fault /\ UNCHANGED <<pcb, iss, written, got, held, eof>>
    /\ \E i \in 1..Len(net[e]) : net' = Without(e, i)

\* The application.
quiet == <<iss, written, got, held, eof, faults>>
tcp_connect ==
    LET i == iss["client"] IN
    /\ pcb["client"].st = "CLOSED" /\ i = SEQ - 2
    /\ Commit("client", tcp_output([tcp_enqueue_flags(
            [tcp_alloc(i) EXCEPT !.lastack = Minus(i, 1), !.snd_lbb = Minus(i, 1),
                                 !.snd_wnd = TCP_WND], {"SYN"}) EXCEPT !.st = "SYN_SENT"]), net)
    /\ iss' = [iss EXCEPT !["client"] = Plus(@, 2 * TCP_WND)]
    /\ UNCHANGED <<written, got, held, eof, faults>>
Write(e, n) ==
    /\ pcb[e].st \in {"ESTABLISHED", "CLOSE_WAIT"}
    /\ n <= MSS /\ n <= pcb[e].snd_buf /\ written[e] + n <= (IF e = "client" THEN BYTES ELSE REPLY)
    /\ Commit(e, tcp_output(tcp_write(pcb[e], [i \in 1..n |-> written[e] + i])), net)
    /\ written' = [written EXCEPT ![e] = @ + n]
    /\ UNCHANGED <<iss, got, held, eof, faults>>
Recved(e) ==
    /\ Active(e) /\ held[e] > 0
    /\ Commit(e, LET p == tcp_recved(pcb[e], held[e]) IN
                 IF "ACK_NOW" \in p.flags THEN tcp_output(p) ELSE p, net)
    /\ held' = [held EXCEPT ![e] = 0]
    /\ UNCHANGED <<iss, written, got, eof, faults>>

\* tcp_close, tcp_abort.
CloseShutdown(e, p) ==
    IF p.st \in {"SYN_RCVD", "ESTABLISHED", "CLOSE_WAIT"}
    THEN IF OnLast(p) \/ CanEnqueue(p)
         THEN tcp_output([tcp_send_fin(p) EXCEPT
                          !.st = IF @ = "CLOSE_WAIT" THEN "LAST_ACK" ELSE "FIN_WAIT_1"])
         ELSE p
    ELSE p
tcp_close(e) ==
    LET p == [pcb[e] EXCEPT !.flags = @ \cup {"RXCLOSED"}] IN
    /\ Active(e) /\ "RXCLOSED" \notin pcb[e].flags /\ UNCHANGED quiet
    /\ IF p.refused # <<>> \/ p.rcv_wnd # TCP_WND
       THEN Commit(e, TimeWait(tcp_rst(p, p.snd_nxt, p.rcv_nxt)), net)
       ELSE IF p.st = "SYN_SENT" THEN Free(e, p, net)
       ELSE Commit(e, CloseShutdown(e, p), net)
tcp_abort(e) ==
    /\ Active(e) /\ Fault /\ UNCHANGED <<iss, written, got, held, eof>>
    /\ Free(e, tcp_rst(pcb[e], pcb[e].snd_nxt, pcb[e].rcv_nxt), net)

\* A timer before everything sent has arrived is a fault.
Arrived == \A e \in Ends : net[e] = <<>>
Early == IF Arrived THEN UNCHANGED faults ELSE Fault
\* tcp_slowtmr: retransmission, or giving up; the poll sends what it can.
Retransmit(e) ==
    LET p == pcb[e] IN
    /\ Active(e) /\ Early /\ UNCHANGED <<iss, written, got, held, eof>>
    /\ IF p.nrtx >= MAXRTX THEN Commit(e, Freed, net)
       ELSE Commit(e, tcp_output(IF p.persist THEN tcp_zero_window_probe(p)
                                 ELSE IF p.unacked # <<>> /\ p.rtime THEN tcp_rexmit_rto(p)
                                 ELSE p), net)
\* ... and the timeouts of a connection on which nothing arrives.
Inactive(e) ==
    LET p == pcb[e] IN
    /\ Arrived /\ UNCHANGED quiet
    /\ \/ /\ p.st \in {"FIN_WAIT_2", "SYN_RCVD", "LAST_ACK", "TIME_WAIT"}
          /\ Commit(e, Freed, net)
       \/ p.ooseq # <<>> /\ Commit(e, tcp_output([p EXCEPT !.ooseq = <<>>]), net)
       \/ /\ p.st \in {"ESTABLISHED", "CLOSE_WAIT"}
          /\ \/ Commit(e, tcp_output(tcp_keepalive(p)), net)
             \/ Commit(e, [Freed EXCEPT !.out = tcp_rst(p, p.snd_nxt, p.rcv_nxt).out], net)

\* tcp_fasttmr.
tcp_fasttmr(e) ==
    /\ Early /\ Active(e) /\ (pcb[e].refused # <<>> \/ "ACK_DELAY" \in pcb[e].flags)
    /\ \E c \in Callback(e) :
         LET d == pcb[e].refused
             p == IF c = "refuse" THEN pcb[e] ELSE Given(e, [pcb[e] EXCEPT !.refused = <<>>], d, c)
         IN /\ Hear(e, d, c)
            /\ Commit(e, IF "ACK_DELAY" \in p.flags
                         THEN [tcp_output(tcp_ack_now(p)) EXCEPT
                               !.flags = @ \ {"ACK_DELAY", "ACK_NOW"}]
                         ELSE IF "ACK_NOW" \in p.flags THEN tcp_output(p) ELSE p, net)
    /\ UNCHANGED <<iss, written, eof>>

Next ==
    \/ tcp_connect
    \/ \E e \in Ends : \/ Deliver(e) \/ Overtake(e) \/ Duplicate(e) \/ Lose(e)
                       \/ Recved(e) \/ tcp_close(e) \/ tcp_abort(e)
                       \/ Retransmit(e) \/ Inactive(e) \/ tcp_fasttmr(e)
                       \/ \E n \in 1..MSS : Write(e, n)

Spec == Init /\ [][Next]_vars
-----------------------------------------------------------------------------
Queue(p) == p.unacked \o p.unsent
\* Every pcb is in one of TCP's states, with no segment queued twice.
TypeOK ==
    /\ \A e \in Ends :
         /\ pcb[e].st \in {"CLOSED", "SYN_SENT", "SYN_RCVD", "ESTABLISHED", "CLOSE_WAIT",
                           "FIN_WAIT_1", "FIN_WAIT_2", "CLOSING", "LAST_ACK", "TIME_WAIT"}
         /\ pcb[e].out = <<>>
         /\ pcb[e].rcv_wnd \in 0..TCP_WND /\ pcb[e].snd_buf \in 0..(SND_BUF + 1)
         /\ LET q == Queue(pcb[e]) IN \A i, j \in DOMAIN q : q[i].seq = q[j].seq => i = j
    /\ faults \in 0..FAULTS

\* What the application gets is what the peer's wrote: nothing is lost,
\* doubled or out of order, whatever the network, refused data, probes and
\* closing do to it, and an end that hears of the end of the stream has had
\* (or still refuses) all of it.
StreamIntact ==
    \A e \in Ends :
      /\ got[e] = [i \in 1..Len(got[e]) |-> i]
      /\ Len(got[e]) + Len(pcb[e].refused) <= written[Peer(e)]
      /\ eof[e] /\ Active(e) /\ "RXCLOSED" \notin pcb[e].flags =>
           Len(got[e]) + Len(pcb[e].refused) = written[Peer(e)]

\* An end is still on its first connection: a SYN that arrives late starts
\* another at the server, which the client knows nothing of.
Only(e) == iss[e] = Plus(SEQ - 2, 2 * TCP_WND)

\* What an end has acknowledged it does not lose: what the peer has let go
\* of has been handed over.
AckedIsHandedOver ==
    \A e \in Ends :
      LET p == pcb[e]
          waiting == FoldLeft(LAMBDA k, t : k + Len(t.data), 0, Queue(p))
      IN Active(e) /\ Active(Peer(e)) /\ Only(e) =>
           written[e] - waiting <= Len(got[Peer(e)]) + Len(pcb[Peer(e)].refused)

\* Window that was announced is not taken back, and none is lost: what is
\* missing is what the application holds or refuses.
WindowHonest ==
    \A e \in Ends :
      LET p == pcb[e] IN
      p.st \in {"ESTABLISHED", "CLOSE_WAIT"} =>
        /\ Leq(p.edge, Plus(p.rcv_nxt, p.rcv_wnd)) \/ eof[e]
        /\ p.rcv_wnd + held[e] + Len(p.refused) = TCP_WND

\* Nothing waits for nobody: while something is unacknowledged the
\* retransmission timer runs, and what cannot be sent yet is probed for.
NeverStuck ==
    \A e \in Ends :
      LET p == pcb[e] IN
      Active(e) =>
        /\ p.unacked # <<>> => p.rtime
        /\ LET q == tcp_output(p) IN
           q.unsent # <<>> => q.persist \/ q.unacked # <<>>

\* The four together are what a connection of lwIP promises.
ConnectionSound == StreamIntact /\ AckedIsHandedOver /\ WindowHonest /\ NeverStuck

=============================================================================
