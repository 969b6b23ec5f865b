------------------------------ MODULE Sockets ------------------------------
(***************************************************************************)
(* Sockets over netconns (api/sockets.c): threads that wait in select for   *)
(* several sockets while the thread of the stack, and other threads, change *)
(* what they wait for; connections that get a socket only when they have    *)
(* already received; reads of parts of pieces.  A step is what the code     *)
(* does under SYS_ARCH_PROTECT.  As lwIP asks, one thread uses a socket,    *)
(* and none closes one that another waits for in select.                    *)
(***************************************************************************)
EXTENDS Integers, Sequences, FiniteSets, SequencesExt, FiniteSetsExt

CONSTANTS
    THREADS,        \* of applications
    WORKERS,        \* those that open sockets; the others just wait in select
    ENDPOINTS,      \* the netconns there is memory for
    NUM_SOCKETS,
    MBOX,           \* the size of a mailbox
    SIZES,          \* lengths of pieces that arrive
    STREAM,         \* bound: units a peer sends
    ASKED           \* lengths of reads

SocketsAssumption ==
    /\ IsFiniteSet(THREADS) /\ WORKERS \subseteq THREADS /\ IsFiniteSet(ENDPOINTS) /\ "tcpip" \notin THREADS
    /\ NUM_SOCKETS \in Nat \ {0} /\ MBOX \in Nat \ {0} /\ STREAM \in Nat
    /\ SIZES \subseteq Nat \ {0} /\ ASKED \subseteq Nat \ {0} /\ "none" \notin ENDPOINTS \cup THREADS

VARIABLES
    sockets,
    netconns,
    threads,         \* where each thread is
    select_cb_list,  \* of the threads in select
    select_cb,       \* the semaphore of each
    walks,           \* event_callbacks that go through the list
    stack            \* events the thread of the stack has still to tell

socketsVars == <<sockets, netconns, threads, select_cb_list, select_cb, walks, stack>>

FDS == 0..(NUM_SOCKETS - 1)
END == 0
NOBODY == [conn |-> "none", owner |-> "none", lastdata |-> 0, lastoffset |-> 0, rcvevent |-> 0,
           sendevent |-> FALSE, errevent |-> FALSE, select_waiting |-> 0]
\* socket: below 0 it counts what came before there was one; sent and read are
\* the units that arrived and that a thread was given.
UNUSED == [type |-> "none", socket |-> -1, mbox |-> <<>>, err |-> FALSE, room |-> FALSE, sent |-> 0, read |-> 0]
CALM == [pc |-> "run", fd |-> 0, readset |-> {}, writeset |-> {}, todo |-> {}, ready |-> FALSE, off |-> 0, len |-> 0, peek |-> FALSE, dontwait |-> FALSE,
         conn |-> "none", piece |-> 0]
NOWALK == [fd |-> -1, at |-> 0, changed |-> FALSE]
UNTOLD == [conn |-> "none", evts |-> <<>>]

Open(fd) == sockets[fd].conn # "none" /\ netconns[sockets[fd].conn].socket = fd
\* Threads that are in select with this socket.
Selecting(fd) == {t \in THREADS : fd \in threads[t].readset \cup threads[t].writeset}
Free(c) == netconns[c].type = "none"
Idle(t) == threads[t].pc = "run" /\ walks[t] = NOWALK

Init ==
    /\ sockets = [fd \in FDS |-> NOBODY]
    /\ netconns = [c \in ENDPOINTS |-> UNUSED]
    /\ threads = [t \in THREADS |-> CALM]
    /\ select_cb_list = <<>>
    /\ select_cb = [t \in THREADS |-> [sem |-> 0, signalled |-> FALSE]]
    /\ walks = [a \in THREADS \cup {"tcpip"} |-> NOWALK]
    /\ stack = UNTOLD

-----------------------------------------------------------------------------
(* event_callback, called by the thread of the stack and, when something    *)
(* was taken, by the thread that took it.                                   *)

\* Does this socket have what the thread th waits for?  Who asks for data also
\* asks for errors (exceptset).
Ready(th, sock, fd) ==
    \/ fd \in th.readset /\ (sock.rcvevent > 0 \/ sock.errevent)
    \/ fd \in th.writeset /\ sock.sendevent
\* A scan also counts what is left of a piece.
Finds(th, fd) == Ready(th, sockets[fd], fd) \/ (fd \in th.readset /\ sockets[fd].lastdata # 0)
\* The actor a looks at the select that is at this place in the list, and may
\* signal it once; then it unlocks, and others may change the list.
Visit(a, fd, sock, at) ==
    IF at > Len(select_cb_list) THEN walks' = [walks EXCEPT ![a] = NOWALK] /\ UNCHANGED select_cb
    ELSE LET t == select_cb_list[at] IN
         /\ walks' = [walks EXCEPT ![a] = [fd |-> fd, at |-> at, changed |-> FALSE]]
         /\ select_cb' = IF ~select_cb[t].signalled /\ Ready(threads[t], sock, fd)
                         THEN [select_cb EXCEPT ![t] = [sem |-> @.sem + 1, signalled |-> TRUE]] ELSE select_cb
Changed(sock, evt) ==
    CASE evt = "RCVPLUS" -> [sock EXCEPT !.rcvevent = @ + 1]
      [] evt = "RCVMINUS" -> [sock EXCEPT !.rcvevent = @ - 1]
      [] evt = "SENDPLUS" -> [sock EXCEPT !.sendevent = TRUE]
      [] evt = "SENDMINUS" -> [sock EXCEPT !.sendevent = FALSE]
      [] evt = "ERROR" -> [sock EXCEPT !.errevent = TRUE]
\* A netconn without a socket only counts what arrives; r is the netconn.
event_callback(a, c, r, evt) ==
    LET fd == r.socket
        sock == Changed(sockets[fd], evt)
    IN IF fd < 0
       THEN /\ netconns' = [netconns EXCEPT ![c] = IF evt = "RCVPLUS" THEN [r EXCEPT !.socket = @ - 1] ELSE r]
            /\ UNCHANGED <<sockets, walks, select_cb>>
       ELSE /\ netconns' = [netconns EXCEPT ![c] = r]
            /\ sockets' = [sockets EXCEPT ![fd] = sock]
            /\ IF sock.select_waiting = 0 THEN UNCHANGED <<walks, select_cb>> ELSE Visit(a, fd, sock, 1)

\* With the lock again: from the start if the list was changed, which
\* select_cb_ctr tells.  A mutant: always go on.
Again_Onward(a) ==
    /\ walks[a] # NOWALK
    /\ Visit(a, walks[a].fd, sockets[walks[a].fd], walks[a].at + 1)
    /\ UNCHANGED <<sockets, netconns, threads, select_cb_list, stack>>
Again(a) ==
    /\ walks[a] # NOWALK
    /\ Visit(a, walks[a].fd, sockets[walks[a].fd], IF walks[a].changed THEN 1 ELSE walks[a].at + 1)
    /\ UNCHANGED <<sockets, netconns, threads, select_cb_list, stack>>

-----------------------------------------------------------------------------
(* The thread of the stack: a piece goes into the mailbox, then the event   *)
(* is told.                                                                 *)

Told == stack.evts = <<>> /\ walks["tcpip"] = NOWALK
Tell(c, r, evts) ==
    /\ netconns' = [netconns EXCEPT ![c] = r]
    /\ stack' = [conn |-> c, evts |-> evts]
    /\ UNCHANGED <<sockets, threads, select_cb_list, select_cb, walks>>
recv_tcp(c) ==
    LET r == netconns[c] IN
    /\ Told /\ r.type = "tcp" /\ ~r.err /\ Len(r.mbox) < MBOX
    /\ \E n \in SIZES : r.sent + n <= STREAM /\ Tell(c, [r EXCEPT !.mbox = Append(@, n), !.sent = @ + n], <<"RCVPLUS">>)
sent_tcp(c) ==
    /\ Told /\ netconns[c].type = "tcp" /\ ~netconns[c].room
    /\ Tell(c, [netconns[c] EXCEPT !.room = TRUE], <<"SENDPLUS">>)
\* The error is known before it is told; an end is posted last, if there is room.
err_tcp(c) ==
    /\ Told /\ netconns[c].type = "tcp" /\ ~netconns[c].err
    /\ Tell(c, [netconns[c] EXCEPT !.err = TRUE, !.room = TRUE], <<"ERROR", "RCVPLUS", "SENDPLUS", "END">>)
accept_function(c) ==
    /\ Told /\ netconns[c].type = "listen" /\ Len(netconns[c].mbox) < MBOX
    /\ \E n \in ENDPOINTS :
         /\ Free(n)
         /\ netconns' = [netconns EXCEPT ![n] = [UNUSED EXCEPT !.type = "tcp", !.room = TRUE],
                                         ![c].mbox = Append(@, n)]
         /\ stack' = [conn |-> c, evts |-> <<"RCVPLUS">>]
    /\ UNCHANGED <<sockets, threads, select_cb_list, select_cb, walks>>
Telling ==
    LET c == stack.conn
        r == netconns[c]
        more == Tail(stack.evts)
    IN /\ stack.evts # <<>> /\ walks["tcpip"] = NOWALK
       /\ stack' = IF more = <<>> THEN UNTOLD ELSE [stack EXCEPT !.evts = more]
       /\ UNCHANGED <<threads, select_cb_list>>
       /\ IF Head(stack.evts) = "END"
          THEN /\ netconns' = IF Len(r.mbox) < MBOX THEN [netconns EXCEPT ![c].mbox = Append(@, END)] ELSE netconns
               /\ UNCHANGED <<sockets, walks, select_cb>>
          ELSE event_callback("tcpip", c, r, Head(stack.evts))

-----------------------------------------------------------------------------
(* lwip_select, a step for each time it locks.                              *)

\* The list changes under those who walk through it.
Relist(list) ==
    /\ select_cb_list' = list
    /\ walks' = [a \in THREADS \cup {"tcpip"} |-> IF walks[a] = NOWALK THEN NOWALK ELSE [walks[a] EXCEPT !.changed = TRUE]]
Step(t, th) ==
    /\ threads' = [threads EXCEPT ![t] = th]
    /\ UNCHANGED <<sockets, netconns, select_cb_list, select_cb, walks, stack>>

\* The first scan, here in one step as the second will look again, finds
\* nothing; what it finds is returned at once, which changes nothing.  Then the
\* thread enters the list.
lwip_select(t) ==
    /\ Idle(t)
    /\ \E fds \in SUBSET {fd \in FDS : Open(fd) /\ netconns[sockets[fd].conn].type # "closed"}, reads \in BOOLEAN :
         LET th == [CALM EXCEPT !.pc = "count", !.readset = IF reads THEN fds ELSE {},
                                !.writeset = IF reads THEN {} ELSE fds, !.todo = fds]
         IN /\ fds # {}
            /\ \A fd \in fds : ~Finds(th, fd)
            /\ threads' = [threads EXCEPT ![t] = th]
            /\ select_cb' = [select_cb EXCEPT ![t] = [sem |-> 0, signalled |-> FALSE]]
            /\ Relist(<<t>> \o select_cb_list)
            /\ UNCHANGED <<sockets, netconns, stack>>
\* select_waiting of each socket, and only then the second scan, which looks at
\* one socket after the other.  A mutant: the other way around.
Count_Late(t) ==
    LET th == threads[t]
        fd == Min(th.todo)
        rest == [th EXCEPT !.todo = @ \ {fd}]
    IN /\ th.pc = "count"
       /\ IF th.todo # {} /\ Finds(th, fd) THEN sockets' = sockets /\ threads' = [threads EXCEPT ![t] = [th EXCEPT !.pc = "leave"]]
          ELSE IF th.todo # {} THEN sockets' = sockets /\ threads' = [threads EXCEPT ![t] = rest]
          ELSE /\ sockets' = [f \in FDS |-> IF t \in Selecting(f) THEN [sockets[f] EXCEPT !.select_waiting = @ + 1] ELSE sockets[f]]
               /\ threads' = [threads EXCEPT ![t].pc = "scan"]
       /\ UNCHANGED <<netconns, select_cb_list, select_cb, walks, stack>>
Count(t) ==
    LET th == threads[t]
        fd == Min(th.todo)
        rest == th.todo \ {fd}
    IN /\ th.pc = "count"
       /\ sockets' = [sockets EXCEPT ![fd].select_waiting = @ + 1]
       /\ threads' = [threads EXCEPT ![t] = IF rest # {} THEN [th EXCEPT !.todo = rest]
                                            ELSE [th EXCEPT !.pc = "scan", !.todo = th.readset \cup th.writeset]]
       /\ UNCHANGED <<netconns, select_cb_list, select_cb, walks, stack>>
lwip_selscan(t) ==
    LET th == threads[t]
        fd == Min(th.todo)
    IN /\ th.pc = "scan"
       /\ Step(t, IF th.todo = {} THEN [th EXCEPT !.pc = IF th.ready THEN "uncount" ELSE "wait", !.todo = th.readset \cup th.writeset]
                  ELSE [th EXCEPT !.todo = @ \ {fd}, !.ready = @ \/ Finds(th, fd)])
\* The semaphore, or the timeout.
Wait(t) ==
    /\ threads[t].pc = "wait"
    /\ select_cb' \in {select_cb} \cup (IF select_cb[t].sem > 0 THEN {[select_cb EXCEPT ![t].sem = @ - 1]} ELSE {})
    /\ threads' = [threads EXCEPT ![t].pc = "uncount"]
    /\ UNCHANGED <<sockets, netconns, select_cb_list, walks, stack>>
\* select_waiting again; then it leaves the list, and the last scan tells the
\* caller what there is.
Uncount(t) ==
    LET th == threads[t]
        fd == Min(th.todo)
    IN /\ th.pc = "uncount" /\ th.todo # {}
       /\ sockets' = [sockets EXCEPT ![fd].select_waiting = @ - 1]
       /\ threads' = [threads EXCEPT ![t].todo = @ \ {fd}]
       /\ UNCHANGED <<netconns, select_cb_list, select_cb, walks, stack>>
Leave(t) ==
    /\ threads[t].pc = "uncount" /\ threads[t].todo = {}
    /\ Relist(RemoveFirst(select_cb_list, t))
    /\ threads' = [threads EXCEPT ![t] = CALM]
    /\ select_cb' = [select_cb EXCEPT ![t] = [sem |-> 0, signalled |-> FALSE]]
    /\ UNCHANGED <<sockets, netconns, stack>>

-----------------------------------------------------------------------------
(* The life of a socket.                                                    *)

\* alloc_socket; a TCP socket that was not accepted cannot be written yet.
FirstFree == Min({fd \in FDS : sockets[fd].conn = "none"})
Full == \A fd \in FDS : sockets[fd].conn # "none"
alloc_socket(t, c, accepted) == [NOBODY EXCEPT !.conn = c, !.owner = t, !.sendevent = accepted]

\* lwip_socket, and the connect or listen after it (modelled in Netconn).
lwip_socket(t) ==
    /\ t \in WORKERS /\ Idle(t) /\ ~Full
    /\ \E c \in ENDPOINTS, type \in {"tcp", "listen"} :
         /\ Free(c)
         /\ netconns' = [netconns EXCEPT ![c] = [UNUSED EXCEPT !.type = type, !.socket = FirstFree]]
         /\ sockets' = [sockets EXCEPT ![FirstFree] = alloc_socket(t, c, FALSE)]
    /\ UNCHANGED <<threads, select_cb_list, select_cb, walks, stack>>

Mine(t, fd) == Open(fd) /\ sockets[fd].owner = t
\* lwip_accept: nobody waiting, or wait in netconn_accept.
lwip_accept(t) ==
    /\ Idle(t)
    /\ \E fd \in FDS :
         /\ Mine(t, fd) /\ netconns[sockets[fd].conn].type = "listen"
         /\ Step(t, [CALM EXCEPT !.pc = "accept", !.fd = fd])
netconn_accept(t) ==
    LET th == threads[t]
        c == sockets[th.fd].conn
        r == netconns[c]
    IN /\ th.pc = "accept" /\ r.mbox # <<>>
       /\ threads' = [threads EXCEPT ![t] = [th EXCEPT !.pc = "alloc", !.conn = Head(r.mbox)]]
       /\ event_callback(t, c, [r EXCEPT !.mbox = Tail(@)], "RCVMINUS")
       /\ UNCHANGED <<select_cb_list, stack>>
\* The connection may have ended, or there may be no socket for it; else it
\* gets one, and what was counted in it moves there.
\* A mutant: as if nothing had come before.
Adopt_Fresh(t) ==
    LET th == threads[t]
        fd == th.fd
    IN /\ th.pc = "adopt"
       /\ netconns' = [netconns EXCEPT ![th.conn].socket = fd]
       /\ threads' = [threads EXCEPT ![t] = CALM]
       /\ UNCHANGED <<sockets, select_cb_list, select_cb, walks, stack>>
Adopt(t) ==
    LET th == threads[t]
        fd == th.fd
    IN /\ th.pc = "adopt"
       /\ sockets' = [sockets EXCEPT ![fd].rcvevent = @ + (-1 - netconns[th.conn].socket)]
       /\ netconns' = [netconns EXCEPT ![th.conn].socket = fd]
       /\ threads' = [threads EXCEPT ![t] = CALM]
       /\ UNCHANGED <<select_cb_list, select_cb, walks, stack>>
Accepted(t) ==
    LET th == threads[t]
        c == th.conn
    IN /\ th.pc = "alloc" /\ walks[t] = NOWALK
       /\ IF netconns[c].err \/ Full
          THEN /\ stack.conn # c /\ netconns' = [netconns EXCEPT ![c] = UNUSED]
               /\ threads' = [threads EXCEPT ![t] = CALM]
               /\ UNCHANGED sockets
          ELSE /\ sockets' = [sockets EXCEPT ![FirstFree] = alloc_socket(t, c, TRUE)]
               /\ threads' = [threads EXCEPT ![t] = [th EXCEPT !.pc = "adopt", !.fd = FirstFree]]
               /\ UNCHANGED netconns
       /\ UNCHANGED <<select_cb_list, select_cb, walks, stack>>

\* lwip_close: the stack drains and deletes the netconn and tells it, then the
\* socket is free.
lwip_close(t) ==
    /\ Idle(t) /\ Told
    /\ \E fd \in FDS :
         LET c == sockets[fd].conn IN
         /\ Mine(t, fd) /\ Selecting(fd) = {}
         /\ threads' = [threads EXCEPT ![t] = [CALM EXCEPT !.pc = "close", !.fd = fd]]
         /\ netconns' = [n \in ENDPOINTS |->
              IF n = c THEN [netconns[c] EXCEPT !.mbox = <<>>, !.type = "closed"]
              ELSE IF netconns[c].type = "listen" /\ \E k \in 1..Len(netconns[c].mbox) : netconns[c].mbox[k] = n THEN UNUSED
              ELSE netconns[n]]
         /\ stack' = [conn |-> c, evts |-> <<"RCVPLUS", "SENDPLUS">>]
    /\ UNCHANGED <<sockets, select_cb_list, select_cb, walks>>
free_socket(t) ==
    LET fd == threads[t].fd IN
    /\ threads[t].pc = "close" /\ (Told \/ stack.conn # sockets[fd].conn)
    /\ netconns' = [netconns EXCEPT ![sockets[fd].conn] = UNUSED]
    /\ sockets' = [sockets EXCEPT ![fd] = NOBODY]
    /\ threads' = [threads EXCEPT ![t] = CALM]
    /\ UNCHANGED <<select_cb_list, select_cb, walks, stack>>

-----------------------------------------------------------------------------
(* lwip_recvfrom and lwip_send.                                             *)

lwip_send(t) ==
    /\ Idle(t) /\ Told
    /\ \E fd \in FDS :
         LET r == netconns[sockets[fd].conn] IN
         /\ Mine(t, fd) /\ r.type = "tcp" /\ ~r.err /\ r.room
         /\ Tell(sockets[fd].conn, [r EXCEPT !.room = FALSE], <<"SENDMINUS">>)

lwip_recvfrom(t) ==
    /\ Idle(t)
    /\ \E fd \in FDS, n \in ASKED, peek, dontwait \in BOOLEAN :
         /\ Mine(t, fd) /\ netconns[sockets[fd].conn].type = "tcp"
         /\ Step(t, [CALM EXCEPT !.pc = "recv", !.fd = fd, !.len = n, !.peek = peek, !.dontwait = dontwait])
\* What is left of the last piece, or the next; without any, or after an error,
\* what there is so far.
Took(t) ==
    LET th == threads[t]
        sock == sockets[th.fd]
        r == netconns[sock.conn]
    IN /\ th.pc = "recv" /\ walks[t] = NOWALK
       /\ IF sock.lastdata # 0 THEN Step(t, [th EXCEPT !.pc = "copy"])
          ELSE IF (th.dontwait /\ sock.rcvevent <= 0) \/ r.err THEN Step(t, CALM)
          ELSE Step(t, [th EXCEPT !.pc = "fetch"])
Fetched(t) ==
    LET th == threads[t]
        c == sockets[th.fd].conn
        r == [netconns[c] EXCEPT !.mbox = Tail(@)]
        piece == Head(netconns[c].mbox)
    IN /\ th.pc = "fetch" /\ netconns[c].mbox # <<>>
       /\ threads' = [threads EXCEPT ![t] = IF piece = END THEN CALM ELSE [th EXCEPT !.pc = "hold", !.piece = piece]]
       /\ event_callback(t, c, IF piece = END THEN [r EXCEPT !.err = TRUE] ELSE r, "RCVMINUS")
       /\ UNCHANGED <<select_cb_list, stack>>
Held(t) ==
    LET th == threads[t] IN
    /\ th.pc = "hold" /\ walks[t] = NOWALK
    /\ sockets' = [sockets EXCEPT ![th.fd].lastdata = th.piece]
    /\ threads' = [threads EXCEPT ![t] = [th EXCEPT !.pc = "copy", !.piece = 0]]
    /\ UNCHANGED <<netconns, select_cb_list, select_cb, walks, stack>>
\* Copy, and leave the rest; the piece may carry PSH, which ends the read.
\* A mutant: the offset outlives its piece.
Copied_Kept(t) ==
    LET th == threads[t]
        sock == sockets[th.fd]
        left == sock.lastdata - sock.lastoffset
        copylen == IF th.len > left THEN left ELSE th.len
        rest == IF left > copylen THEN [sock EXCEPT !.lastoffset = @ + copylen] ELSE [sock EXCEPT !.lastdata = 0]
    IN /\ th.pc = "copy"
       /\ sockets' = [sockets EXCEPT ![th.fd] = IF th.peek THEN sock ELSE rest]
       /\ netconns' = IF th.peek THEN netconns ELSE [netconns EXCEPT ![sock.conn].read = @ + copylen]
       /\ threads' = [threads EXCEPT ![t] = CALM]
       /\ UNCHANGED <<select_cb_list, select_cb, walks, stack>>
Copied(t) ==
    LET th == threads[t]
        sock == sockets[th.fd]
        left == sock.lastdata - sock.lastoffset
        copylen == IF th.len > left THEN left ELSE th.len
        rest == IF left > copylen THEN [sock EXCEPT !.lastoffset = @ + copylen]
                ELSE [sock EXCEPT !.lastdata = 0, !.lastoffset = 0]
        more == [th EXCEPT !.pc = "recv", !.off = @ + copylen, !.len = @ - copylen]
    IN /\ th.pc = "copy"
       /\ sockets' = [sockets EXCEPT ![th.fd] = IF th.peek THEN sock ELSE rest]
       /\ netconns' = IF th.peek THEN netconns ELSE [netconns EXCEPT ![sock.conn].read = @ + copylen]
       /\ \E push \in BOOLEAN :
             threads' = [threads EXCEPT ![t] = IF more.len = 0 \/ push \/ sock.rcvevent <= 0 \/ th.peek THEN CALM ELSE more]
       /\ UNCHANGED <<select_cb_list, select_cb, walks, stack>>

Next ==
    \/ Telling
    \/ \E c \in ENDPOINTS : recv_tcp(c) \/ sent_tcp(c) \/ err_tcp(c) \/ accept_function(c)
    \/ \E a \in THREADS \cup {"tcpip"} : Again(a)
    \/ \E t \in THREADS :
         \/ lwip_select(t) \/ Count(t) \/ lwip_selscan(t) \/ Wait(t) \/ Uncount(t) \/ Leave(t)
         \/ lwip_socket(t) \/ lwip_accept(t) \/ netconn_accept(t) \/ Accepted(t) \/ Adopt(t)
         \/ lwip_close(t) \/ free_socket(t)
         \/ lwip_send(t) \/ lwip_recvfrom(t) \/ Took(t) \/ Fetched(t) \/ Held(t) \/ Copied(t)

Spec == Init /\ [][Next]_socketsVars

-----------------------------------------------------------------------------
\* Every variable has its type.
TypeOK ==
    /\ \A fd \in FDS : /\ sockets[fd].conn \in ENDPOINTS \cup {"none"} /\ sockets[fd].rcvevent \in Int
                       /\ sockets[fd].select_waiting \in 0..Cardinality(THREADS)
    /\ \A c \in ENDPOINTS : /\ netconns[c].type \in {"none", "tcp", "listen", "closed"}
                            /\ netconns[c].socket \in Int /\ Len(netconns[c].mbox) <= MBOX
    /\ \A t \in THREADS : threads[t].todo \subseteq FDS /\ select_cb[t].sem \in 0..1

\* No select sleeps over what it waits for: whoever raised the event is still on
\* his way to it through the list, or will start again.
Woken ==
    \A t \in THREADS, fd \in FDS :
        (threads[t].pc = "wait" /\ ~select_cb[t].signalled /\ Ready(threads[t], sockets[fd], fd)) =>
            \E a \in THREADS \cup {"tcpip"} :
                /\ walks[a].fd = fd
                /\ walks[a].changed \/ (\E k \in (walks[a].at + 1)..Len(select_cb_list) : select_cb_list[k] = t)

\* select_waiting counts the selects that wait for the socket or are about to.
Counted ==
    \A fd \in FDS :
        sockets[fd].select_waiting =
            Cardinality({t \in Selecting(fd) : \/ (threads[t].pc = "count" /\ fd \notin threads[t].todo)
                                              \/ threads[t].pc \in {"scan", "wait"}
                                              \/ (threads[t].pc = "uncount" /\ fd \in threads[t].todo)})

\* The event count of a socket never falls behind its mailbox, but for the one
\* event that is just being told; so a read that has something already and goes
\* on does not block.
EventsMatch ==
    \A fd \in FDS : Open(fd) =>
        LET c == sockets[fd].conn IN
        /\ sockets[fd].rcvevent >= Len(netconns[c].mbox) - (IF stack.conn = c /\ Head(stack.evts) = "RCVPLUS" THEN 1 ELSE 0)
        /\ netconns[c].err \/ sockets[fd].rcvevent <= Len(netconns[c].mbox) \/ netconns[c].type = "closed"
NeverStuck ==
    \A t \in THREADS :
        (threads[t].pc = "fetch" /\ threads[t].off > 0) =>
            LET r == netconns[sockets[threads[t].fd].conn] IN r.mbox # <<>> \/ r.err

\* What a peer sent is read, once: what was given to threads, what is left of a
\* piece, and what waits make up what came.
NothingLost ==
    \A fd \in FDS : (Open(fd) /\ netconns[sockets[fd].conn].type = "tcp") =>
        LET r == netconns[sockets[fd].conn]
            th == threads[sockets[fd].owner]
            held == IF th.pc = "hold" /\ th.fd = fd THEN th.piece ELSE 0
        IN r.read + (sockets[fd].lastdata - sockets[fd].lastoffset) + held + FoldLeft(LAMBDA n, m : n + m, 0, r.mbox) = r.sent

\* The properties of the sockets.
SocketsSound == Woken /\ Counted /\ EventsMatch /\ NeverStuck /\ NothingLost

=============================================================================
