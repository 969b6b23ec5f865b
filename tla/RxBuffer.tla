------------------------------ MODULE RxBuffer ------------------------------
(***************************************************************************)
(* The receive buffer of the websocket: ubWebRxBuf and rxcount in           *)
(* tcp_udp.c, emptied by WebRecvData_Proc and cleared by Reflash in         *)
(* networking.c.  TCP delivers the server's frames as a byte stream cut     *)
(* anywhere; each piece is appended, and what then starts with 0x82 and is  *)
(* longer than MIN is taken for one frame.                                  *)
(*                                                                         *)
(* A byte is a pair of the frame it belongs to and its place in it; the one *)
(* at place 1 is the 0x82, and no other byte looks like it.  The buffer    *)
(* (128 bytes) is taken to be long enough for what collects in it.          *)
(***************************************************************************)
EXTENDS Integers, Sequences

CONSTANTS
    FRAME,      \* bytes of a frame
    MIN,        \* a frame is looked for in more bytes than this (5)
    MaxFrames,  \* bound on the frames of all sessions
    Coalesced   \* may a piece reach from one frame into the next?

ASSUME RxAssumption ==
    /\ FRAME \in Nat /\ MIN \in Nat /\ MIN < FRAME
    /\ MaxFrames \in Nat
    /\ Coalesced \in BOOLEAN

VARIABLES
    buf,           \* the first rxcount bytes of ubWebRxBuf
    WebSocketOK,
    handled,       \* the frames WebRecvData_Proc was run on, and were they whole?
    next,          \* external: the next byte of the stream
    first,         \* external: the first frame of this session
    clean          \* history: has every piece of this session been one frame?

vars == <<buf, WebSocketOK, handled, next, first, clean>>

Frames == 1..MaxFrames
Bytes == Frames \X (1..FRAME)
Zero == <<0, 0>>
rxcount == Len(buf)
Byte(n) == <<((n - 1) \div FRAME) + 1, ((n - 1) % FRAME) + 1>>
Whole(f) == [k \in 1..FRAME |-> <<f, k>>]

\* Every variable has its type.
TypeOK ==
    /\ buf \in Seq(Bytes \cup {Zero})
    /\ WebSocketOK \in BOOLEAN
    /\ handled \in Seq(Frames \X BOOLEAN)
    /\ next \in 1..(MaxFrames * FRAME + 1)
    /\ first \in 1..(MaxFrames + 1)
    /\ clean \in BOOLEAN

Init ==
    /\ buf = <<>> /\ WebSocketOK = FALSE /\ handled = <<>>
    /\ next = 1 /\ first = 1 /\ clean = TRUE

\* WebRecvData_Proc on the buffer: it reads a frame from the start, and
\* empties the buffer.
\* Mutant: the handled frame is left in the buffer.
WebRecvData_Proc_KeepsBuffer(b) ==
    /\ handled' = Append(handled, <<b[1][1], Len(b) >= FRAME /\ SubSeq(b, 1, FRAME) = Whole(b[1][1])>>)
    /\ buf' = b
WebRecvData_Proc(b) ==
    /\ handled' = Append(handled, <<b[1][1], Len(b) >= FRAME /\ SubSeq(b, 1, FRAME) = Whole(b[1][1])>>)
    /\ buf' = <<>>

\* websocket_tcp_recv_cb, lines 136-137 and 165-177.
\* Mutant: a cleared byte passes for the first of a frame.
StartsFrame_Cleared(b) == Len(b) > 0 /\ b[1][2] <= 1
StartsFrame(b) == Len(b) > 0 /\ b[1][2] = 1

Receive(piece) ==
    LET b == buf \o piece IN
    IF StartsFrame(b) /\ Len(b) > MIN THEN WebRecvData_Proc(b)
    ELSE buf' = b /\ UNCHANGED handled

\* TCP cuts the stream after byte n: in a frame, at its end, or further on.
StartOf(n) == Byte(n)[1]
OneFrame(n) == Byte(next)[2] = 1 /\ n = next + FRAME - 1

Segment ==
    /\ WebSocketOK
    /\ \E n \in next..(MaxFrames * FRAME) :
         /\ Coalesced \/ StartOf(n) = StartOf(next)
         /\ Receive([k \in 1..(n - next + 1) |-> Byte(next + k - 1)])
         /\ next' = n + 1
         /\ clean' = (clean /\ OneFrame(n))
    /\ UNCHANGED <<WebSocketOK, first>>

\* Reflash, after a command: the buffer is cleared, rxcount is not.
Reflash ==
    /\ WebSocketOK
    /\ buf' = [k \in 1..rxcount |-> Zero]
    /\ UNCHANGED <<WebSocketOK, handled, next, first, clean>>

\* http_tcp_recv_cb: the answer to the POST of another connection clears rxcount,
\* in the middle of a session too.  (It sets WebSocketOK as well, which stands
\* for the session here: that is not opened by it.)
HttpResultOk ==
    /\ buf' = <<>>
    /\ UNCHANGED <<WebSocketOK, handled, next, first, clean>>

\* The connection ends; the rest of the frame under way never comes.
Disconnect ==
    /\ WebSocketOK
    /\ WebSocketOK' = FALSE
    /\ LET f == StartOf(next + FRAME - 1) IN
       first' = f /\ next' = (f - 1) * FRAME + 1
    /\ UNCHANGED <<buf, handled, clean>>

\* "HTTP/1.1 101" of a new one: rxcount starts anew.
\* Mutant: it does not.
Upgrade_KeepsCount ==
    /\ ~WebSocketOK
    /\ WebSocketOK' = TRUE /\ clean' = TRUE
    /\ UNCHANGED <<buf, handled, next, first>>
Upgrade ==
    /\ ~WebSocketOK
    /\ WebSocketOK' = TRUE /\ clean' = TRUE
    /\ buf' = <<>>
    /\ UNCHANGED <<handled, next, first>>

Next == Segment \/ Reflash \/ HttpResultOk \/ Disconnect \/ Upgrade

Spec == Init /\ [][Next]_vars

-----------------------------------------------------------------------------
\* However the stream is cut, no frame is handled twice and none before an
\* earlier one.
HandledInOrder ==
    \A i \in 1..(Len(handled) - 1) : handled[i][1] < handled[i + 1][1]

\* As long as TCP delivers a session frame by frame, every frame is handled,
\* whole and at once: whatever an earlier session, however cut, has left in
\* the buffer, and whenever commands clear it.
WholeFrameHandled ==
    [][Segment /\ clean' => handled' = Append(handled, <<StartOf(next), TRUE>>)]_vars

\* The pieces of a frame are put together again: a frame of this session
\* that has arrived to its last byte has been handled whole.
FragmentsReassembled ==
    \A f \in Frames :
      f >= first /\ WebSocketOK /\ f * FRAME < next
        => \E i \in 1..Len(handled) : handled[i] = <<f, TRUE>>

=============================================================================
