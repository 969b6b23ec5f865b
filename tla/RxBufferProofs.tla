--------------------------- MODULE RxBufferProofs ---------------------------
(***************************************************************************)
(* Proofs about the receive buffer, for any length of a frame, any smallest *)
(* piece, any number of frames, and any cuts of the stream.                 *)
(***************************************************************************)
EXTENDS RxBuffer, SequenceTheorems, TLAPS

USE RxAssumption DEF RxAssumption

-----------------------------------------------------------------------------
(* The stream: byte k of frame f is byte (f - 1) * FRAME + k of it.          *)

LEMMA MulMonotone ==
    ASSUME NEW p \in Int, NEW q \in Int, NEW b \in Nat \ {0}
    PROVE  /\ p <= q <=> p * b <= q * b
           /\ p < q <=> p * b < q * b
  OBVIOUS

LEMMA Divide ==
    ASSUME NEW a \in Nat, NEW b \in Nat \ {0}
    PROVE  /\ a \div b \in Nat /\ (a % b) \in 0..(b - 1)
           /\ a = (a \div b) * b + (a % b)
  OBVIOUS

LEMMA DivideUnique ==
    ASSUME NEW q \in Nat, NEW b \in Nat \ {0}, NEW r \in 0..(b - 1)
    PROVE  (q * b + r) \div b = q /\ (q * b + r) % b = r
  OBVIOUS

Start(f) == (f - 1) * FRAME + 1

LEMMA FramePositive == FRAME \in Nat \ {0} /\ MaxFrames * FRAME \in Nat
  OBVIOUS

LEMMA StartIsInteger == ASSUME NEW f \in Frames PROVE Start(f) \in Int
  BY FramePositive DEF Start, Frames

\* A byte is at its place in its frame.
LEMMA BytePlace ==
    ASSUME NEW n \in Nat \ {0}
    PROVE  /\ Byte(n)[1] \in Nat \ {0} /\ Byte(n)[2] \in 1..FRAME
           /\ Byte(n) = <<Byte(n)[1], Byte(n)[2]>>
           /\ n = (Byte(n)[1] - 1) * FRAME + Byte(n)[2]
<1> DEFINE q == (n - 1) \div FRAME
           r == (n - 1) % FRAME
<1>1. q \in Nat /\ r \in 0..(FRAME - 1) /\ n - 1 = q * FRAME + r
  BY Divide, FramePositive
<1>2. Byte(n)[1] = q + 1 /\ Byte(n)[2] = r + 1 /\ Byte(n) = <<q + 1, r + 1>>
  BY DEF Byte
<1> HIDE DEF q, r
<1>3. (Byte(n)[1] - 1) * FRAME = q * FRAME
  BY <1>1, <1>2
<1>. QED BY <1>1, <1>2, <1>3, FramePositive

LEMMA PlaceByte ==
    ASSUME NEW f \in Nat \ {0}, NEW k \in 1..FRAME
    PROVE  Byte((f - 1) * FRAME + k) = <<f, k>>
<1> DEFINE q == f - 1
           r == k - 1
<1>1. q \in Nat /\ r \in 0..(FRAME - 1)
  OBVIOUS
<1>2. (q * FRAME + r) \div FRAME = q /\ (q * FRAME + r) % FRAME = r
  BY <1>1, DivideUnique, FramePositive
<1>3. (f - 1) * FRAME + k - 1 = q * FRAME + r
  BY FramePositive
<1>. QED BY <1>1, <1>2, <1>3 DEF Byte

LEMMA ByteTyped ==
    ASSUME NEW n \in 1..(MaxFrames * FRAME)
    PROVE  Byte(n) \in Bytes
<1> DEFINE f == Byte(n)[1]
<1>1. f \in Nat \ {0} /\ Byte(n)[2] \in 1..FRAME /\ n = (f - 1) * FRAME + Byte(n)[2]
      /\ Byte(n) = <<f, Byte(n)[2]>>
  BY BytePlace, FramePositive
<1> HIDE DEF f
<1>2. (f - 1) * FRAME < MaxFrames * FRAME
  BY <1>1, FramePositive
<1>3. f - 1 < MaxFrames
  BY <1>1, <1>2, MulMonotone, FramePositive
<1>. QED BY <1>1, <1>3 DEF Bytes, Frames

\* The frame that a lost connection leaves for the next one to start with.
LEMMA NextStart ==
    ASSUME NEW n \in 1..(MaxFrames * FRAME + 1)
    PROVE  LET f == StartOf(n + FRAME - 1) IN
           f \in 1..(MaxFrames + 1) /\ Start(f) \in n..(MaxFrames * FRAME + 1)
<1> DEFINE f == StartOf(n + FRAME - 1)
           k == Byte(n + FRAME - 1)[2]
<1>1. f \in Nat \ {0} /\ k \in 1..FRAME /\ n + FRAME - 1 = (f - 1) * FRAME + k
  BY BytePlace, FramePositive DEF StartOf
<1> HIDE DEF f, k
<1>2. (f - 1) * FRAME \in Int
  BY <1>1, FramePositive
<1>3. n <= Start(f)
  BY <1>1, <1>2, FramePositive DEF Start
<1>4. (f - 1) * FRAME < (MaxFrames + 1) * FRAME
  BY <1>1, <1>2, FramePositive
<1>5. f - 1 <= MaxFrames
  BY <1>1, <1>4, MulMonotone, FramePositive
<1>6. (f - 1) * FRAME <= MaxFrames * FRAME
  BY <1>1, <1>5, MulMonotone, FramePositive
<1>. QED BY <1>1, <1>2, <1>3, <1>5, <1>6, FramePositive DEF Start, f

-----------------------------------------------------------------------------
\* What the buffer starts with is newer than all that was handled, and so is
\* all that is still to come; a session cut frame by frame leaves nothing.
Past == \A i \in 1..Len(handled) : Start(handled[i][1]) < next
NewerAtStart ==
    StartsFrame(buf) => Start(buf[1][1]) < next /\ \A i \in 1..Len(handled) : handled[i][1] < buf[1][1]
NothingLeft == WebSocketOK /\ clean => buf = <<>>
RxInv == TypeOK /\ Past /\ NewerAtStart /\ NothingLeft /\ HandledInOrder

LEMMA PieceTyped ==
    ASSUME NEW m \in 1..(MaxFrames * FRAME + 1), NEW n \in m..(MaxFrames * FRAME)
    PROVE  LET piece == [k \in 1..(n - m + 1) |-> Byte(m + k - 1)] IN
           /\ piece \in Seq(Bytes \cup {Zero})
           /\ Len(piece) = n - m + 1
           /\ \A k \in 1..(n - m + 1) : piece[k] = Byte(m + k - 1)
<1> DEFINE piece == [k \in 1..(n - m + 1) |-> Byte(m + k - 1)]
<1>1. \A k \in 1..(n - m + 1) : Byte(m + k - 1) \in Bytes
  BY ByteTyped, FramePositive
<1>2. piece \in [1..(n - m + 1) -> Bytes \cup {Zero}]
  BY <1>1
<1>3. n - m + 1 \in Nat
  BY FramePositive
<1>. QED BY <1>2, <1>3

\* A handled frame is appended to those before it, all older.
LEMMA AppendKeepsOrder ==
    ASSUME handled \in Seq(Frames \X BOOLEAN), HandledInOrder,
           NEW f \in Frames, NEW w \in BOOLEAN,
           \A i \in 1..Len(handled) : handled[i][1] < f,
           handled' = Append(handled, <<f, w>>)
    PROVE  /\ handled' \in Seq(Frames \X BOOLEAN)
           /\ HandledInOrder'
           /\ \A i \in 1..Len(handled') : handled'[i][1] <= f
<1>1. /\ Len(handled') = Len(handled) + 1 /\ Len(handled) \in Nat
      /\ \A i \in 1..Len(handled) : handled'[i] = handled[i]
      /\ handled'[Len(handled) + 1] = <<f, w>>
      /\ handled' \in Seq(Frames \X BOOLEAN)
  OBVIOUS
<1>2. \A i \in 1..Len(handled) : handled[i][1] \in Int
  BY DEF Frames
<1>3. HandledInOrder'
  BY <1>1 DEF HandledInOrder
<1>. QED BY <1>1, <1>2, <1>3 DEF Frames

Stored == Seq(Bytes \cup {Zero})

\* What a stored piece starts with, if it starts a frame, is a frame's byte.
LEMMA StartTyped ==
    ASSUME NEW b \in Stored, StartsFrame(b)
    PROVE  b[1][1] \in Frames /\ b[1][2] = 1 /\ b[1] \in Bytes /\ Len(b) > 0
<1>1. b[1] \in Bytes \cup {Zero} /\ Len(b) > 0 /\ b[1][2] = 1
  BY DEF StartsFrame, Stored
<1>2. b[1] # Zero
  BY <1>1 DEF Zero
<1>. QED BY <1>1, <1>2 DEF Bytes

\* What a piece leaves the buffer to start with is newer than all handled.
LEMMA NewerWithPiece ==
    ASSUME TypeOK, Past, NewerAtStart,
           NEW piece \in Stored, Len(piece) > 0, piece[1] = Byte(next),
           StartsFrame(buf \o piece)
    PROVE  LET f == (buf \o piece)[1][1] IN
           /\ f \in Frames
           /\ Start(f) <= next
           /\ \A i \in 1..Len(handled) : handled[i][1] < f
<1> DEFINE b == buf \o piece
<1>1. buf \in Stored /\ b \in Stored
  BY DEF TypeOK, Stored
<1>2. b[1][1] \in Frames /\ b[1][2] = 1
  BY <1>1, StartTyped
<1>3. CASE buf = <<>>
  <2>1. b[1] = Byte(next)
    BY <1>3, <1>1 DEF Stored
  <2>2. next \in Nat \ {0}
    BY DEF TypeOK
  <2>3. next = Start(b[1][1])
    BY <1>2, <2>1, <2>2, BytePlace, FramePositive DEF Start
  <2>4. \A i \in 1..Len(handled) : handled[i][1] < b[1][1]
    <3> TAKE i \in 1..Len(handled)
    <3> DEFINE g == handled[i][1]
               f == b[1][1]
    <3>1. g \in Frames /\ f \in Frames
      BY <1>2 DEF TypeOK
    <3>2. Start(g) < Start(f)
      BY <2>3 DEF Past
    <3> HIDE DEF g, f
    <3>3. g - 1 \in Int /\ f - 1 \in Int /\ (g - 1) * FRAME \in Int /\ (f - 1) * FRAME \in Int
      BY <3>1, FramePositive DEF Frames
    <3>4. (g - 1) * FRAME < (f - 1) * FRAME
      BY <3>2, <3>3 DEF Start
    <3>5. g - 1 < f - 1
      BY <3>3, <3>4, MulMonotone, FramePositive
    <3>. QED BY <3>1, <3>5 DEF g, f, Frames
  <2>. QED BY <1>2, <2>2, <2>3, <2>4
<1>4. CASE buf # <<>>
  <2>1. b[1] = buf[1] /\ Len(buf) > 0
    BY <1>1, <1>4 DEF Stored
  <2>2. StartsFrame(buf)
    BY <1>2, <2>1 DEF StartsFrame
  <2>3. Start(buf[1][1]) \in Int /\ next \in Int
    BY <1>2, <2>1, FramePositive DEF Start, Frames, TypeOK
  <2>. QED BY <1>2, <2>1, <2>2, <2>3 DEF NewerAtStart
<1>. QED BY <1>3, <1>4

\* A piece that is one frame, put into an empty buffer, is taken for it.
LEMMA OneFrameIsWhole ==
    ASSUME NEW m \in 1..(MaxFrames * FRAME), NEW n \in m..(MaxFrames * FRAME),
           Byte(m)[2] = 1, n = m + FRAME - 1
    PROVE  LET piece == [k \in 1..(n - m + 1) |-> Byte(m + k - 1)] IN
           /\ piece = Whole(StartOf(m))
           /\ Len(piece) = FRAME /\ piece[1] = <<StartOf(m), 1>>
           /\ StartsFrame(piece)
           /\ SubSeq(piece, 1, FRAME) = piece
<1> DEFINE f == StartOf(m)
           piece == [k \in 1..(n - m + 1) |-> Byte(m + k - 1)]
<1>1. f \in Nat \ {0} /\ m = (f - 1) * FRAME + 1
  BY BytePlace, FramePositive DEF StartOf
<1>2. n - m + 1 = FRAME
  BY FramePositive
<1> HIDE DEF f
<1>3. (f - 1) * FRAME \in Int
  BY <1>1, FramePositive
<1>4. \A k \in 1..FRAME : m + k - 1 = (f - 1) * FRAME + k
  BY <1>1, <1>3, FramePositive
<1>5. \A k \in 1..FRAME : Byte(m + k - 1) = <<f, k>>
  BY <1>1, <1>4, PlaceByte
<1>6. piece = Whole(f)
  BY <1>2, <1>5 DEF Whole
<1>7. piece \in Stored /\ Len(piece) = FRAME
  <2>1. m \in 1..(MaxFrames * FRAME + 1)
    BY FramePositive
  <2>2. piece \in Seq(Bytes \cup {Zero}) /\ Len(piece) = n - m + 1
    BY <2>1, PieceTyped
  <2>. QED BY <1>2, <2>2 DEF Stored
<1>8. piece[1] = <<f, 1>>
  BY <1>6, FramePositive DEF Whole
<1>9. SubSeq(piece, 1, FRAME) = piece
  BY <1>7, FramePositive DEF Stored
<1>. QED BY <1>6, <1>7, <1>8, <1>9, FramePositive DEF f, StartsFrame

-----------------------------------------------------------------------------
LEMMA RxInitially == Init => RxInv
<1> SUFFICES ASSUME Init PROVE RxInv
  OBVIOUS
<1>1. TypeOK
  <2>1. /\ buf \in Seq(Bytes \cup {Zero}) /\ handled \in Seq(Frames \X BOOLEAN)
        /\ next \in 1..(MaxFrames * FRAME + 1) /\ first \in 1..(MaxFrames + 1)
    BY FramePositive DEF Init
  <2>2. WebSocketOK \in BOOLEAN /\ clean \in BOOLEAN
    BY DEF Init
  <2>. QED BY <2>1, <2>2 DEF TypeOK
<1>2. Past /\ HandledInOrder /\ NothingLeft
  BY DEF Init, Past, HandledInOrder, NothingLeft
<1>3. NewerAtStart
  BY DEF Init, NewerAtStart, StartsFrame
<1>. QED BY <1>1, <1>2, <1>3 DEF RxInv

\* A piece of the stream comes: it is handled, or kept.
LEMMA SegmentInductive == RxInv /\ Segment => RxInv'
<1> SUFFICES ASSUME RxInv, Segment PROVE RxInv'
  OBVIOUS
<1> USE DEF RxInv
<1>1. PICK n \in next..(MaxFrames * FRAME) :
        /\ Receive([k \in 1..(n - next + 1) |-> Byte(next + k - 1)])
        /\ next' = n + 1
        /\ clean' = (clean /\ OneFrame(n))
  BY DEF Segment
<1> DEFINE piece == [k \in 1..(n - next + 1) |-> Byte(next + k - 1)]
           b == buf \o piece
<1>2. /\ next \in 1..(MaxFrames * FRAME) /\ n \in 1..(MaxFrames * FRAME)
      /\ next \in 1..(MaxFrames * FRAME + 1) /\ n - next + 1 > 0
  BY FramePositive DEF TypeOK
<1>3. /\ piece \in Stored /\ Len(piece) = n - next + 1
      /\ \A k \in 1..(n - next + 1) : piece[k] = Byte(next + k - 1)
  BY <1>2, PieceTyped DEF Stored
<1>4. Len(piece) > 0 /\ piece[1] = Byte(next)
  BY <1>2, <1>3
<1>5. buf \in Stored /\ b \in Stored
  BY <1>3 DEF TypeOK, Stored
<1>6. next' \in 1..(MaxFrames * FRAME + 1) /\ next < next'
  BY <1>1, <1>2, FramePositive
<1>7. WebSocketOK' = WebSocketOK /\ first' = first /\ WebSocketOK
  BY DEF Segment
<1>8. clean' \in BOOLEAN /\ (clean' => clean /\ OneFrame(n))
  BY <1>1 DEF TypeOK
<1>9. Receive(piece)
  BY <1>1
<1> HIDE DEF piece
<1>10. CASE StartsFrame(b) /\ Len(b) > MIN
  <2> DEFINE f == b[1][1]
             w == Len(b) >= FRAME /\ SubSeq(b, 1, FRAME) = Whole(f)
  <2>1. handled' = Append(handled, <<f, w>>) /\ buf' = <<>>
    BY <1>9, <1>10 DEF Receive, WebRecvData_Proc
  <2>2. w \in BOOLEAN
    OBVIOUS
  <2>3. /\ f \in Frames /\ Start(f) <= next
        /\ \A i \in 1..Len(handled) : handled[i][1] < f
    BY <1>3, <1>4, <1>10, NewerWithPiece
  <2> HIDE DEF f, w
  <2>4. /\ handled' \in Seq(Frames \X BOOLEAN)
        /\ HandledInOrder'
        /\ \A i \in 1..Len(handled') : handled'[i][1] <= f
    BY <2>1, <2>2, <2>3, AppendKeepsOrder DEF TypeOK
  <2>5. TypeOK'
    BY <1>6, <1>7, <1>8, <2>1, <2>4 DEF TypeOK
  <2>6. NewerAtStart' /\ NothingLeft'
    BY <2>1 DEF NewerAtStart, NothingLeft, StartsFrame
  <2>7. Past'
    <3> SUFFICES ASSUME NEW i \in 1..Len(handled') PROVE Start(handled'[i][1]) < next'
      BY DEF Past, Start
    <3> DEFINE g == handled'[i][1]
    <3>1. g \in Frames /\ g <= f
      BY <2>4
    <3> HIDE DEF g
    <3>2. (g - 1) * FRAME <= (f - 1) * FRAME /\ (g - 1) * FRAME \in Int /\ (f - 1) * FRAME \in Int
      <4>1. g - 1 \in Int /\ f - 1 \in Int /\ g - 1 <= f - 1
        BY <2>3, <3>1 DEF Frames
      <4>. QED BY <4>1, MulMonotone, FramePositive
    <3>3. Start(g) < next'
      BY <1>2, <1>6, <2>3, <3>2, FramePositive DEF Start
    <3>. QED BY <3>3 DEF g
  <2>. QED BY <2>4, <2>5, <2>6, <2>7
<1>11. CASE ~(StartsFrame(b) /\ Len(b) > MIN)
  <2>1. buf' = b /\ handled' = handled
    BY <1>9, <1>11 DEF Receive
  <2>2. TypeOK'
    BY <1>5, <1>6, <1>7, <1>8, <2>1 DEF TypeOK, Stored
  <2>3. HandledInOrder'
    BY <2>1 DEF HandledInOrder
  <2>4. Past'
    <3> SUFFICES ASSUME NEW i \in 1..Len(handled) PROVE Start(handled[i][1]) < next'
      BY <2>1 DEF Past, Start
    <3>1. handled[i][1] \in Frames
      BY DEF TypeOK
    <3>2. Start(handled[i][1]) \in Int /\ Start(handled[i][1]) < next
      BY <3>1, FramePositive DEF Past, Start, Frames
    <3>. QED BY <1>2, <1>6, <3>2
  <2>5. NewerAtStart'
    <3> SUFFICES ASSUME StartsFrame(b)
                 PROVE  Start(b[1][1]) < next' /\ \A i \in 1..Len(handled) : handled[i][1] < b[1][1]
      BY <2>1 DEF NewerAtStart, StartsFrame, Start
    <3> DEFINE f == b[1][1]
    <3>1. /\ f \in Frames /\ Start(f) <= next
          /\ \A i \in 1..Len(handled) : handled[i][1] < f
      BY <1>3, <1>4, NewerWithPiece
    <3> HIDE DEF f
    <3>2. Start(f) \in Int
      BY <3>1, StartIsInteger
    <3>3. Start(f) < next'
      BY <1>2, <1>6, <3>1, <3>2
    <3>. QED BY <3>1, <3>3 DEF f
  <2>6. NothingLeft'
    <3> SUFFICES ASSUME clean' PROVE FALSE
      BY <2>1 DEF NothingLeft
    <3>1. buf = <<>> /\ Byte(next)[2] = 1 /\ n = next + FRAME - 1
      BY <1>7, <1>8 DEF NothingLeft, OneFrame
    <3>2. StartsFrame(piece) /\ Len(piece) = FRAME
      BY <1>2, <3>1, OneFrameIsWhole DEF piece
    <3>3. b = piece
      BY <1>3, <3>1 DEF Stored
    <3>. QED BY <1>11, <3>2, <3>3, FramePositive
  <2>. QED BY <2>2, <2>3, <2>4, <2>5, <2>6
<1>. QED BY <1>10, <1>11

LEMMA RxInductive == RxInv /\ [Next]_vars => RxInv'
<1> SUFFICES ASSUME RxInv, [Next]_vars PROVE RxInv'
  OBVIOUS
<1> USE DEF RxInv
<1>1. CASE Segment
  BY <1>1, SegmentInductive
<1>2. CASE Reflash
  <2>1. /\ buf' = [k \in 1..Len(buf) |-> Zero]
        /\ UNCHANGED <<WebSocketOK, handled, next, first, clean>>
    BY <1>2 DEF Reflash, rxcount
  <2>2. Len(buf) \in Nat
    BY DEF TypeOK
  <2>3. buf' \in Seq(Bytes \cup {Zero}) /\ Len(buf') = Len(buf)
    BY <2>1, <2>2
  <2>4. ~StartsFrame(buf')
    BY <2>1, <2>2, <2>3 DEF StartsFrame, Zero
  <2>5. TypeOK' /\ Past' /\ HandledInOrder'
    BY <2>1, <2>3 DEF TypeOK, Past, HandledInOrder, Start
  <2>6. NewerAtStart'
    BY <2>4 DEF NewerAtStart, StartsFrame
  <2>7. NothingLeft'
    BY <2>1, <2>2, <2>3 DEF NothingLeft, TypeOK
  <2>. QED BY <2>5, <2>6, <2>7
<1>3. CASE Disconnect
  <2> DEFINE f == StartOf(next + FRAME - 1)
  <2>1. /\ WebSocketOK' = FALSE /\ first' = f /\ next' = Start(f)
        /\ UNCHANGED <<buf, handled, clean>>
    BY <1>3 DEF Disconnect, Start
  <2>2. f \in 1..(MaxFrames + 1) /\ Start(f) \in next..(MaxFrames * FRAME + 1)
    BY NextStart DEF TypeOK
  <2> HIDE DEF f
  <2>3. next' \in 1..(MaxFrames * FRAME + 1) /\ next <= next' /\ next \in Int
    BY <2>1, <2>2, FramePositive DEF TypeOK
  <2>4. TypeOK' /\ HandledInOrder' /\ NothingLeft'
    BY <2>1, <2>2, <2>3 DEF TypeOK, HandledInOrder, NothingLeft
  <2>5. Past'
    <3> SUFFICES ASSUME NEW i \in 1..Len(handled) PROVE Start(handled[i][1]) < next'
      BY <2>1 DEF Past, Start
    <3>1. handled[i][1] \in Frames
      BY DEF TypeOK
    <3>2. Start(handled[i][1]) \in Int /\ Start(handled[i][1]) < next
      BY <3>1, FramePositive DEF Past, Start, Frames
    <3>. QED BY <2>3, <3>2
  <2>6. NewerAtStart'
    <3> SUFFICES ASSUME StartsFrame(buf)
                 PROVE  Start(buf[1][1]) < next' /\ \A i \in 1..Len(handled) : handled[i][1] < buf[1][1]
      BY <2>1 DEF NewerAtStart, StartsFrame, Start
    <3>1. buf[1][1] \in Frames
      BY StartTyped DEF TypeOK, Stored
    <3>2. Start(buf[1][1]) \in Int
      BY <3>1, FramePositive DEF Start, Frames
    <3>. QED BY <2>3, <3>2 DEF NewerAtStart
  <2>. QED BY <2>4, <2>5, <2>6
<1>4. CASE Upgrade
  <2>1. /\ buf' = <<>> /\ WebSocketOK' = TRUE /\ clean' = TRUE
        /\ UNCHANGED <<handled, next, first>>
    BY <1>4 DEF Upgrade
  <2>2. TypeOK' /\ Past' /\ HandledInOrder'
    BY <2>1 DEF TypeOK, Past, HandledInOrder, Start
  <2>. QED BY <2>1, <2>2 DEF NewerAtStart, NothingLeft, StartsFrame
<1>5. CASE HttpResultOk
  <2>1. buf' = <<>> /\ UNCHANGED <<WebSocketOK, handled, next, first, clean>>
    BY <1>5 DEF HttpResultOk
  <2>2. TypeOK' /\ Past' /\ HandledInOrder'
    BY <2>1 DEF TypeOK, Past, HandledInOrder, Start
  <2>. QED BY <2>1, <2>2 DEF NewerAtStart, NothingLeft, StartsFrame
<1>6. CASE UNCHANGED vars
  BY <1>6 DEF vars, TypeOK, Past, Start, NewerAtStart, StartsFrame, NothingLeft, HandledInOrder
<1>. QED BY <1>1, <1>2, <1>3, <1>4, <1>5, <1>6 DEF Next

\* The buffer and what was read from it keep their types, however the stream
\* is cut and whenever the connection and the commands come.
THEOREM RxTypeCorrect == Spec => []TypeOK
<1>1. RxInv => TypeOK
  BY DEF RxInv
<1>. QED BY <1>1, RxInitially, RxInductive, PTL DEF Spec

\* No frame is handled twice, and none before an earlier one.
THEOREM HandledOnceInOrder == Spec => []HandledInOrder
<1>1. RxInv => HandledInOrder
  BY DEF RxInv
<1>. QED BY <1>1, RxInitially, RxInductive, PTL DEF Spec

\* A session that comes frame by frame has every frame handled whole, at once.
THEOREM WholeFramesAreHandled == Spec => WholeFrameHandled
<1>1. RxInv /\ [Next]_vars
        => [Segment /\ clean' => handled' = Append(handled, <<StartOf(next), TRUE>>)]_vars
  <2> SUFFICES ASSUME RxInv, Segment, clean'
               PROVE  handled' = Append(handled, <<StartOf(next), TRUE>>)
    OBVIOUS
  <2>1. PICK n \in next..(MaxFrames * FRAME) :
          /\ Receive([k \in 1..(n - next + 1) |-> Byte(next + k - 1)])
          /\ clean' = (clean /\ OneFrame(n))
    BY DEF Segment
  <2> DEFINE piece == [k \in 1..(n - next + 1) |-> Byte(next + k - 1)]
  <2>2. next \in 1..(MaxFrames * FRAME) /\ n \in next..(MaxFrames * FRAME)
    BY FramePositive DEF RxInv, TypeOK
  <2>3. buf = <<>> /\ Byte(next)[2] = 1 /\ n = next + FRAME - 1
    BY <2>1 DEF Segment, RxInv, NothingLeft, OneFrame
  <2>4. /\ piece = Whole(StartOf(next))
        /\ Len(piece) = FRAME /\ piece[1] = <<StartOf(next), 1>>
        /\ StartsFrame(piece)
        /\ SubSeq(piece, 1, FRAME) = piece
    BY <2>2, <2>3, OneFrameIsWhole
  <2>5. piece \in Stored
    <3>1. next \in 1..(MaxFrames * FRAME + 1)
      BY <2>2, FramePositive
    <3>. QED BY <2>2, <3>1, PieceTyped DEF Stored
  <2>6. Receive(piece)
    BY <2>1
  <2> HIDE DEF piece
  <2>7. buf \o piece = piece
    BY <2>3, <2>5 DEF Stored
  <2>8. WebRecvData_Proc(piece)
    BY <2>4, <2>6, <2>7, FramePositive DEF Receive
  <2>9. Len(piece) >= FRAME /\ SubSeq(piece, 1, FRAME) = Whole(piece[1][1]) /\ piece[1][1] = StartOf(next)
    BY <2>4, FramePositive
  <2>10. (Len(piece) >= FRAME /\ SubSeq(piece, 1, FRAME) = Whole(piece[1][1])) = TRUE
    BY <2>9
  <2>. QED BY <2>8, <2>9, <2>10, Zenon DEF WebRecvData_Proc
<1>. QED BY <1>1, RxInitially, RxInductive, PTL DEF Spec, WholeFrameHandled

=============================================================================
