------------------------------ MODULE Espconn ------------------------------
(***************************************************************************)
(* espconn's TCP connections (app/espconn.c, app/espconn_tcp.c): the layer  *)
(* between lwIP's callbacks and an application.  One espconn that connects  *)
(* and one that listens and has accepted.  What lwIP holds of a connection  *)
(* is its state, the bytes in flight by tcp_write, and the bytes received   *)
(* and not given back with tcp_recved.  The end of a connection is posted   *)
(* to espconn_Task and told by it.  Between the two an application may      *)
(* close, and does not send: espconn_sent would use a pcb that may be gone, *)
(* and it unlocks a second close.                                           *)
(***************************************************************************)
EXTENDS Integers, Sequences, FiniteSets, SequencesExt, FiniteSetsExt

CONSTANTS
    CHUNK,      \* 2 * mss: at most this in one tcp_write
    ESP_BUF,    \* TCP_ESP_BUF
    QUEUELEN,   \* TCP_SND_QUEUELEN
    NUM,        \* pbuf_num: packets espconn_tcp_set_buf_count allows
    TIMEOUT,    \* polls without a byte after which a server closes
    LENGTHS,    \* bound: lengths of packets
    PACKETS,    \* bound: packets sent
    LIVES,      \* bound: connections
    SHORT       \* bound: memory errors

EspconnAssumption ==
    /\ CHUNK \in Nat \ {0} /\ ESP_BUF >= CHUNK /\ QUEUELEN \in Nat \ {0}
    /\ NUM \in Nat \ {0} /\ TIMEOUT \in Nat \ {0} /\ LENGTHS \subseteq Nat \ {0}
    /\ PACKETS \in Nat /\ LIVES \in Nat /\ SHORT \in Nat

Conns == {"client", "server"}
VARIABLES
    node,       \* the espconn_msg of each connection and what lwIP holds of it
    listening,  \* is the server's espconn in pserver_list?
    task,       \* events posted to espconn_Task
    lives,      \* connections made so far
    ends,       \* history: ends told to the application
    packets,    \* history: packets espconn_sent took
    lacking     \* memory errors so far

vars == <<node, listening, task, lives, ends, packets, lacking>>

\* espconn_msg is allocated with zeros, pbuf_num and write_flag are set when
\* the connection is there.
Fresh(tcp) ==
    [linked |-> TRUE, state |-> "WAIT", tcp |-> tcp, attached |-> TRUE, bufs |-> <<>>, tail |-> 0,
     flag |-> FALSE, copy |-> FALSE, num |-> 0, hold |-> FALSE, held |-> 0, check |-> 0,
     chunks |-> <<>>, window |-> 0, asked |-> 0, acked |-> 0, stranded |-> FALSE]
None == [Fresh("CLOSED") EXCEPT !.linked = FALSE, !.attached = FALSE, !.state = "NONE"]

Init ==
    /\ node = [c \in Conns |-> None] /\ listening = FALSE /\ task = <<>>
    /\ lives = [c \in Conns |-> 0] /\ ends = [c \in Conns |-> 0] /\ packets = 0 /\ lacking = 0

Sum(s) == FoldLeft(LAMBDA x, y : x + y, 0, s)
Set(c, n) == node' = [node EXCEPT ![c] = n]
Post(sig, c) == Append(task, [sig |-> sig, c |-> c])
Pending(c) == \E i \in DOMAIN task : task[i].c = c /\ task[i].sig # "WRITE"
Lives == lives["client"] + lives["server"]
Lack == lacking < SHORT /\ lacking' = lacking + 1

-----------------------------------------------------------------------------
(* Sending.  w is a node with what espconn_tcp_write posts in wrote, and in *)
(* mem the bytes lwIP still finds memory for.                               *)

SndBuf(n) == ESP_BUF - Sum(n.chunks)
Unsent(n) == IF n.tail = 0 THEN 0 ELSE n.bufs[n.tail].unsent

\* espconn_tcp_sent: as much of the packet as lwIP takes, halved until there
\* is memory, but never one byte; with the copy option a packet that is all
\* written lets the next one in.
Halved(len, mem) ==
    IF len <= mem THEN len
    ELSE Max({0} \cup {h \in {len \div 2^i : i \in 1..len} : 1 < h /\ h <= mem})
espconn_tcp_sent(w) ==
    LET n == w.n
        len == Halved(Min({SndBuf(n), CHUNK, Unsent(n)}), w.mem)
        all == n.copy /\ len = Unsent(n)
    IN IF len = 0 THEN w ELSE
       [n |-> [n EXCEPT !.bufs[n.tail].unsent = @ - len, !.chunks = Append(@, len),
                        !.flag = @ \/ all],
        wrote |-> w.wrote + IF all THEN 1 ELSE 0, mem |-> w.mem - len]

\* espconn_tcp_write: packet after packet while there is room; with Nagle
\* off, as it is from the start, not at all while the queue is full.
Next1(n) == IF n.tail = Len(n.bufs) THEN 0 ELSE n.tail + 1
Step(w) ==
    IF SndBuf(w.n) = 0 \/ w.n.tail = 0 THEN w
    ELSE IF Unsent(w.n) = 0 THEN [w EXCEPT !.n.tail = Next1(w.n)]
    ELSE IF Len(w.n.chunks) >= QUEUELEN THEN w
    ELSE espconn_tcp_sent(w)
espconn_tcp_write(n, mem) ==
    IF Len(n.chunks) >= QUEUELEN THEN [n |-> n, wrote |-> 0]
    ELSE FoldLeft(LAMBDA w, i : Step(w), [n |-> n, wrote |-> 0, mem |-> mem],
                  [i \in 1..(QUEUELEN + Len(n.bufs)) |-> i])

Wrote(c, w) == task \o [i \in 1..w.wrote |-> [sig |-> "WRITE", c |-> c]]

\* The write of a call: usually there is memory for all that fits.  If not,
\* what is not written stays queued, and only an ack or the next espconn_sent
\* writes it; stranded tells that no ack is to come.
Written(c, n, Then(_)) ==
    \/ LET w == espconn_tcp_write(n, ESP_BUF) IN
       Set(c, Then(w.n)) /\ task' = Wrote(c, w) /\ UNCHANGED lacking
    \/ /\ Lack
       /\ \E mem \in 0..(ESP_BUF - 1) :
             LET w == espconn_tcp_write(n, mem) IN
             /\ Set(c, Then([w.n EXCEPT !.stranded = w.n.chunks = <<>>]))
             /\ task' = Wrote(c, w)

\* espconn_sent.
Open == {"ESTABLISHED", "CLOSE_WAIT"}
Room(n) == IF n.copy THEN Len(n.chunks) < QUEUELEN ELSE Len(n.bufs) < n.num
Queue(n, len) ==
    [n EXCEPT !.bufs = Append(@, [len |-> len, tot |-> 0, unsent |-> len]),
              !.tail = IF @ = 0 THEN Len(n.bufs) + 1 ELSE @,
              !.flag = ~n.copy, !.state = "WRITE", !.asked = @ + len]
espconn_sent(c, len) ==
    LET n == node[c] IN
    /\ n.linked /\ ~Pending(c) /\ packets < PACKETS
    /\ IF n.tcp \in Open /\ n.flag /\ Room(n)
       THEN packets' = packets + 1 /\ Written(c, Queue(n, len), LAMBDA m : m)
       ELSE Set(c, [n EXCEPT !.state = "WRITE"]) /\ UNCHANGED <<task, packets, lacking>>
    /\ UNCHANGED <<listening, lives, ends>>

\* What lwIP frees of the bytes in flight when some are acknowledged.
Acked(s, k) ==
    LET whole == Max({i \in 0..Len(s) : Sum(SubSeq(s, 1, i)) <= k})
        rest == k - Sum(SubSeq(s, 1, whole))
    IN IF rest = 0 THEN SubSeq(s, whole + 1, Len(s))
       ELSE <<s[whole + 1] - rest>> \o SubSeq(s, whole + 2, Len(s))

\* Mutant: ptail still counts the packets that are deleted.
Finish_TailStays(n) ==
    LET k == Cardinality({i \in DOMAIN n.bufs : n.bufs[i].tot >= n.bufs[i].len})
    IN [n EXCEPT !.bufs = SubSeq(@, k + 1, Len(@)),
                 !.state = IF k > 0 THEN "CONNECT" ELSE @]
\* espconn_client_sent, espconn_server_sent, espconn_tcp_finish: what is
\* acknowledged counts for the packets in turn, each done is deleted.
Finish(n) ==
    LET done(i) == Sum([j \in 1..i |-> n.bufs[j].len]) <= Sum([j \in 1..Len(n.bufs) |-> n.bufs[j].tot])
        k == Max({i \in 0..Len(n.bufs) : done(i)})
        over == Sum([j \in 1..Len(n.bufs) |-> n.bufs[j].tot]) - Sum([j \in 1..k |-> n.bufs[j].len])
        rest == SubSeq(n.bufs, k + 1, Len(n.bufs))
    IN [n EXCEPT !.bufs = IF rest = <<>> THEN rest ELSE [rest EXCEPT ![1].tot = over],
                 !.tail = IF @ = 0 THEN 0 ELSE @ - k,
                 !.state = IF k > 0 THEN "CONNECT" ELSE @]
AckedByPeer(c, k) ==
    LET n == node[c] IN
    /\ n.attached /\ n.tcp \in Open /\ k <= Sum(n.chunks)
    /\ Written(c, [n EXCEPT !.chunks = Acked(@, k), !.acked = @ + k, !.check = 0,
                            !.bufs[1].tot = @ + k, !.stranded = FALSE], Finish)
    /\ UNCHANGED <<listening, lives, ends, packets>>

-----------------------------------------------------------------------------
(* Opening and receiving.                                                   *)

\* espconn_connect, espconn_tcp_client.
espconn_connect ==
    /\ ~node["client"].linked /\ Lives < LIVES
    /\ Set("client", Fresh("SYN_SENT"))
    /\ lives' = [lives EXCEPT !["client"] = @ + 1]
    /\ UNCHANGED <<listening, task, ends, packets, lacking>>
Ready(n) == [n EXCEPT !.state = "CONNECT", !.tcp = "ESTABLISHED", !.flag = TRUE, !.num = NUM]
espconn_client_connect ==
    /\ node["client"].tcp = "SYN_SENT" /\ Set("client", Ready(node["client"]))
    /\ UNCHANGED <<listening, task, lives, ends, packets, lacking>>

\* espconn_accept, espconn_tcp_server; espconn_tcp_accept; espconn_tcp_delete.
espconn_accept ==
    /\ ~listening /\ listening' = TRUE
    /\ UNCHANGED <<node, task, lives, ends, packets, lacking>>
espconn_tcp_accept ==
    /\ listening /\ ~node["server"].linked /\ Lives < LIVES
    /\ Set("server", Ready(Fresh("ESTABLISHED")))
    /\ lives' = [lives EXCEPT !["server"] = @ + 1]
    /\ UNCHANGED <<listening, task, ends, packets, lacking>>
espconn_tcp_delete ==
    /\ listening /\ ~node["server"].linked /\ listening' = FALSE
    /\ UNCHANGED <<node, task, lives, ends, packets, lacking>>

\* espconn_client_recv, espconn_server_recv: a byte.
Receive(c) ==
    LET n == node[c] IN
    /\ n.attached /\ n.tcp = "ESTABLISHED" /\ n.window < 1
    /\ Set(c, IF n.hold THEN [n EXCEPT !.window = @ + 1, !.held = @ + 1, !.check = 0,
                                       !.state = "CONNECT"]
              ELSE [n EXCEPT !.check = 0, !.state = "CONNECT"])
    /\ UNCHANGED <<listening, task, lives, ends, packets, lacking>>
espconn_recv_hold(c) ==
    LET n == node[c] IN
    /\ n.linked /\ ~n.hold /\ Set(c, [n EXCEPT !.hold = TRUE, !.held = 0])
    /\ UNCHANGED <<listening, task, lives, ends, packets, lacking>>
espconn_recv_unhold(c) ==
    LET n == node[c] IN
    /\ n.linked /\ ~Pending(c) /\ n.hold
    /\ Set(c, [n EXCEPT !.hold = FALSE, !.held = 0, !.window = @ - n.held])
    /\ UNCHANGED <<listening, task, lives, ends, packets, lacking>>

\* espconn_set_opt, espconn_clear_opt: ESPCONN_COPY.
Option(c) ==
    LET n == node[c] IN
    /\ n.linked /\ ~Pending(c) /\ n.bufs = <<>> /\ Set(c, [n EXCEPT !.copy = ~@])
    /\ UNCHANGED <<listening, task, lives, ends, packets, lacking>>

-----------------------------------------------------------------------------
(* Closing.                                                                 *)

\* espconn_client_close, espconn_server_close: unless lwIP is short of memory.
Closed(n, tcp) == [n EXCEPT !.attached = FALSE, !.state = "CLOSE", !.tcp = tcp]
Close(c) ==
    \/ Set(c, Closed(node[c], "CLOSING")) /\ task' = Post("CLOSE", c) /\ UNCHANGED lacking
    \/ Lack /\ UNCHANGED <<node, task>>
\* espconn_disconnect and espconn_abort: a client is protected from closing
\* what is closed already.
espconn_disconnect(c) ==
    /\ node[c].linked /\ UNCHANGED <<listening, lives, ends, packets>>
    /\ IF node[c].state = "CLOSE" THEN c = "client" /\ UNCHANGED <<node, task, lacking>>
       ELSE Close(c)
espconn_abort(c) ==
    /\ node[c].linked /\ node[c].state # "CLOSE"
    /\ Set(c, Closed(node[c], "CLOSED")) /\ task' = Post("CLOSE", c)
    /\ UNCHANGED <<listening, lives, ends, packets, lacking>>
\* The peer's FIN closes this side too, unless lwIP is short of memory: then it
\* stays half closed, until the poll of a server, or the application, closes it.
PeerCloses(c) ==
    LET n == node[c] IN
    /\ n.attached /\ n.tcp = "ESTABLISHED"
    /\ \/ Set(c, Closed(n, "CLOSING")) /\ task' = Post("CLOSE", c) /\ UNCHANGED lacking
       \/ Lack /\ Set(c, [n EXCEPT !.tcp = "CLOSE_WAIT"]) /\ UNCHANGED task
    /\ UNCHANGED <<listening, lives, ends, packets>>
\* espconn_client_err, esponn_server_err: reset, or given up.
Err(c) ==
    LET n == node[c] IN
    /\ n.attached /\ n.tcp \in {"SYN_SENT"} \cup Open
    /\ Set(c, Closed(n, "CLOSED")) /\ task' = Post("ERRER", c)
    /\ UNCHANGED <<listening, lives, ends, packets, lacking>>
\* espconn_server_poll.
espconn_server_poll ==
    LET n == node["server"] IN
    /\ n.attached /\ n.tcp \in Open /\ UNCHANGED <<listening, lives, ends, packets>>
    /\ IF n.tcp = "CLOSE_WAIT" THEN Close("server")
       ELSE IF n.check + 1 >= TIMEOUT
       THEN \/ Set("server", Closed([n EXCEPT !.check = 0], "CLOSING"))
               /\ task' = Post("CLOSE", "server") /\ UNCHANGED lacking
            \/ Lack /\ Set("server", [n EXCEPT !.check = 0]) /\ UNCHANGED task
       ELSE Set("server", [n EXCEPT !.check = @ + 1]) /\ UNCHANGED <<task, lacking>>

\* espconn_Task: espconn_tcp_disconnect_successful, espconn_tcp_reconnect.
espconn_Task ==
    /\ task # <<>> /\ task' = Tail(task)
    /\ LET e == Head(task) IN
       IF e.sig = "WRITE" THEN UNCHANGED <<node, ends>>
       ELSE Set(e.c, None) /\ ends' = [ends EXCEPT ![e.c] = @ + 1]
    /\ UNCHANGED <<listening, lives, packets, lacking>>

Next ==
    \/ espconn_connect \/ espconn_client_connect \/ espconn_accept \/ espconn_tcp_accept
    \/ espconn_tcp_delete \/ espconn_server_poll \/ espconn_Task
    \/ \E c \in Conns : \/ \E len \in LENGTHS : espconn_sent(c, len)
                        \/ \E k \in 1..ESP_BUF : AckedByPeer(c, k)
                        \/ Receive(c) \/ espconn_recv_hold(c) \/ espconn_recv_unhold(c)
                        \/ Option(c) \/ espconn_disconnect(c) \/ espconn_abort(c)
                        \/ PeerCloses(c) \/ Err(c)

Spec == Init /\ [][Next]_vars
-----------------------------------------------------------------------------
\* The lists hold what they may.
TypeOK ==
    /\ \A c \in Conns : /\ node[c].tail \in 0..Len(node[c].bufs)
                        /\ Sum(node[c].chunks) <= ESP_BUF /\ node[c].check < TIMEOUT
    /\ lacking \in 0..SHORT /\ packets \in 0..PACKETS

\* Every byte espconn_sent took is in one place, and ptail is the packet
\* that is being written: those before it are, those behind it are not.
BytesAccounted ==
    \A c \in Conns :
      LET n == node[c]
          open == Sum([i \in DOMAIN n.bufs |-> n.bufs[i].len - n.bufs[i].tot])
          unsent == Sum([i \in DOMAIN n.bufs |-> n.bufs[i].unsent])
      IN n.attached =>
           /\ open = n.asked - n.acked /\ Sum(n.chunks) + unsent = open
           /\ \A i \in DOMAIN n.bufs :
                /\ n.bufs[i].tot < n.bufs[i].len
                /\ n.tail = 0 \/ i < n.tail => n.bufs[i].unsent = 0
                /\ n.tail # 0 /\ i > n.tail => n.bufs[i].unsent = n.bufs[i].len

\* What waits to be written waits for an ack that will come, unless memory
\* was short when there was none to come.
AckWillCome ==
    \A c \in Conns :
      LET n == node[c] IN
      n.attached /\ n.tail # 0 /\ Unsent(n) > 0 => n.chunks # <<>> \/ n.stranded

\* The window that lwIP thinks the application has not taken is what it holds.
WindowReturned ==
    \A c \in Conns : node[c].attached => node[c].window = (IF node[c].hold THEN node[c].held ELSE 0)

\* Every connection ends once, by an event for a node that is still there,
\* and one whose callbacks are detached has its end posted.
EndsOnce ==
    /\ \A i \in DOMAIN task : node[task[i].c].linked
    /\ \A c \in Conns :
         /\ ends[c] = lives[c] - (IF node[c].linked THEN 1 ELSE 0)
         /\ Cardinality({i \in DOMAIN task : task[i].c = c /\ task[i].sig # "WRITE"})
              = (IF node[c].linked /\ ~node[c].attached THEN 1 ELSE 0)

EspconnSound == BytesAccounted /\ AckWillCome /\ WindowReturned /\ EndsOnce

=============================================================================
