------------------------------ MODULE Checksum ------------------------------
(***************************************************************************)
(* The internet checksum (core/ipv4/inet_chksum.c): three ways to sum a     *)
(* piece of memory that may begin at an odd address, the sums over chains   *)
(* of pieces of any length, and the two places where a checksum is changed  *)
(* without summing again (ip_forward, icmp_input).  A byte counts modulo    *)
(* BYTE, so that a halfword and a word overflow on short pieces.            *)
(***************************************************************************)
EXTENDS Integers, Sequences, FiniteSets, SequencesExt

CONSTANTS
    BYTE,        \* 256 in the code
    BYTES,       \* that pieces are made of
    LONG,        \* bound: bytes of a piece that is alone
    SHORT,       \* bound: bytes of a chain of pieces
    ICMP_ECHO

ChecksumAssumption ==
    /\ BYTE \in Nat \ {0, 1, 2} /\ BYTES \subseteq 0..(BYTE - 1)
    /\ {LONG, SHORT} \subseteq 0..(BYTE * BYTE - 1)    \* lengths are halfwords
    /\ ICMP_ECHO \in 1..(BYTE - 1)

HALF == BYTE * BYTE
WORD == HALF * HALF

VARIABLE chain   \* the pieces: the address modulo 4, and the bytes

Init == \E at \in 0..3 : chain = <<[at |-> at, data |-> <<>>]>>

-----------------------------------------------------------------------------
\* FOLD_U32T and SWAP_BYTES_IN_WORD; the second drops what is beyond 16 bits.
Fold(w) == (w \div HALF) + (w % HALF)
Swap(w) == (w % BYTE) * BYTE + ((w \div BYTE) % BYTE)

\* The bytes as halfwords, the first byte low, as the processor reads them.
\* An odd byte at the end is a low one.
Halves(s) ==
    [i \in 1..((Len(s) + 1) \div 2) |-> s[2 * i - 1] + (IF 2 * i <= Len(s) THEN BYTE * s[2 * i] ELSE 0)]
SumOf(s) == FoldLeft(LAMBDA a, b : (a + b) % WORD, 0, Halves(s))

\* lwip_standard_chksum, the first: bytes one after the other.
lwip_standard_chksum_1(at, s) ==
    LET acc == Fold(FoldLeft(LAMBDA a, h : a + Swap(h), 0, Halves(s)))
    IN Swap(IF acc >= HALF THEN Fold(acc) ELSE acc)

\* The second: halfwords from the next even address; the byte before them and
\* the one behind make up the halfword t, and the sum is swapped in the end.
Odd(at, s) == at % 2 = 1 /\ s # <<>>
\* A mutant: the byte before an even address is taken as a low one.
Edges_Low(at, s) ==
    LET rest == IF Odd(at, s) THEN Tail(s) ELSE s
    IN (IF Odd(at, s) THEN s[1] ELSE 0) + (IF Len(rest) % 2 = 1 THEN Last(rest) ELSE 0)
Edges(at, s) ==
    LET rest == IF Odd(at, s) THEN Tail(s) ELSE s
    IN (IF Odd(at, s) THEN BYTE * s[1] ELSE 0) + (IF Len(rest) % 2 = 1 THEN Last(rest) ELSE 0)
Inner(at, s) ==
    LET rest == IF Odd(at, s) THEN Tail(s) ELSE s IN SubSeq(rest, 1, 2 * (Len(rest) \div 2))
Turned(at, sum) == IF at % 2 = 1 THEN Swap(sum) ELSE sum
lwip_standard_chksum_2(at, s) == Turned(at, Fold(Fold(SumOf(Inner(at, s)) + Edges(at, s))))

\* The third: two words at a time from the next address that four divides,
\* a carry out of a word goes back into it.
Carried(sum, w) == IF sum + w >= WORD THEN sum + w - WORD + 1 ELSE sum + w
lwip_standard_chksum_3(at, s) ==
    LET halves == Halves(Inner(at, s))
        even == IF Odd(at, s) THEN at + 1 ELSE at
        first == IF even % 4 # 0 /\ halves # <<>> THEN 1 ELSE 0
        words == 4 * ((Len(halves) - first) \div 4)    \* halfwords summed as pairs of words
        long == FoldLeft(LAMBDA sum, k : Carried(sum, halves[first + 2 * k - 1] + HALF * halves[first + 2 * k]),
                         IF first = 1 THEN halves[1] ELSE 0, [k \in 1..(words \div 2) |-> k])
        rest == FoldLeft(LAMBDA a, b : a + b, Fold(long), SubSeq(halves, first + words + 1, Len(halves)))
    IN Turned(at, Fold(Fold(rest + Edges(at, s))))

-----------------------------------------------------------------------------
\* The sum over a chain: after a piece of odd length the bytes change places.
\* A mutant: that they have is forgotten in the end.
Chained_NoSwap(pieces) ==
    FoldLeft(LAMBDA a, q : LET sum == Fold(a + lwip_standard_chksum_2(q.at, q.data))
                           IN IF q.len % 2 = 1 THEN Swap(sum) ELSE sum, 0, pieces)
Chained(pieces) ==
    LET Step(a, q) ==
            LET sum == Fold(a.acc + lwip_standard_chksum_2(q.at, q.data))
            IN IF q.len % 2 = 1 THEN [acc |-> Swap(sum), swapped |-> ~a.swapped] ELSE [a EXCEPT !.acc = sum]
        end == FoldLeft(Step, [acc |-> 0, swapped |-> FALSE], pieces)
    IN IF end.swapped THEN Swap(end.acc) ELSE end.acc
Complement(sum) == HALF - 1 - (sum % HALF)
\* The pieces up to a length; the last one keeps the parity of all of it.
Cut(pieces, length) ==
    LET before(k) == FoldLeft(LAMBDA n, q : n + Len(q.data), 0, SubSeq(pieces, 1, k - 1))
        in == {k \in 1..Len(pieces) : before(k) < length}
        chklen(k) == Min({Len(pieces[k].data), length - before(k)})
    IN [k \in 1..Cardinality(in) |->
          [at |-> pieces[k].at, len |-> Len(pieces[k].data), data |-> SubSeq(pieces[k].data, 1, chklen(k))]]
All(pieces) == [k \in 1..Len(pieces) |-> [at |-> pieces[k].at, len |-> Len(pieces[k].data), data |-> pieces[k].data]]
inet_chksum_pbuf(pieces) == Complement(Chained(All(pieces)))
inet_chksum(at, s) == Complement(lwip_standard_chksum_2(at, s))
\* Addresses, protocol and length as halfwords.
inet_chksum_pseudo(pieces, header) ==
    Complement(Fold(Fold(FoldLeft(LAMBDA a, b : a + b, Chained(All(pieces)), header))))
\* Only the first length bytes; the pieces behind are not looked at.
inet_chksum_pseudo_partial(pieces, header, length) ==
    Complement(Fold(Fold(FoldLeft(LAMBDA a, b : a + b, Chained(Cut(pieces, length)), header))))

\* Changes in place, of what is stored low byte first: ip_forward takes one
\* from the TTL, the first byte of its halfword, and icmp_input takes ICMP_ECHO
\* from the type.
\* A mutant: a carry is lost.
Changed_NoCarry(chksum, by) == (chksum + by) % HALF
Changed(chksum, by) == (IF chksum >= HALF - 1 - by THEN chksum + by + 1 ELSE chksum + by) % HALF

-----------------------------------------------------------------------------
Length == FoldLeft(LAMBDA n, q : n + Len(q.data), 0, chain)
AddByte ==
    /\ Length < (IF Len(chain) = 1 THEN LONG ELSE SHORT)
    /\ \E b \in BYTES : chain' = [chain EXCEPT ![Len(chain)].data = Append(@, b)]
AddPiece ==
    /\ Length < SHORT
    /\ \E at \in 0..1 : chain' = Append(chain, [at |-> at, data |-> <<>>])
    /\ Last(chain).data # <<>>
Again == Length >= SHORT /\ chain' \in {<<[at |-> at, data |-> <<>>]>> : at \in 0..3}
Next == AddByte \/ AddPiece \/ Again
Spec == Init /\ [][Next]_chain

TypeOK ==
    /\ \A k \in 1..Len(chain) : chain[k].at \in 0..3 /\ \A i \in 1..Len(chain[k].data) : chain[k].data[i] \in BYTES
    /\ inet_chksum_pbuf(chain) \in 0..(HALF - 1)

\* The checksum of RFC 1071: the ones' complement sum of the bytes in a row.
Sum(s) == LET total == FoldLeft(LAMBDA a, b : a + b, 0, s)
          IN IF total = 0 THEN 0 ELSE ((total - 1) % (HALF - 1)) + 1
Whole == FlattenSeq([k \in 1..Len(chain) |-> chain[k].data])

\* Wherever a piece begins and however long it is, the three ways agree with
\* the sum of its bytes in a row (inet_chksum.c:80-256).
PieceSummed ==
    LET q == Last(chain) IN
    {lwip_standard_chksum_1(q.at, q.data), lwip_standard_chksum_2(q.at, q.data), lwip_standard_chksum_3(q.at, q.data)}
    = {Sum(Halves(q.data))}

\* The checksum of a chain is that of its bytes in a row, and a pseudo header
\* counts as if it came before them; so does a part of it that ends anywhere
\* (inet_chksum.c:271-430).
ChainSummed ==
    /\ inet_chksum_pbuf(chain) = Complement(Sum(Halves(Whole)))
    /\ \A h \in {<<1, HALF - 1>>, <<HALF - 1, HALF - 1, HALF - 2>>} :
         /\ inet_chksum_pseudo(chain, h) = Complement(Sum(h \o Halves(Whole)))
         /\ \A n \in 0..Length :
              inet_chksum_pseudo_partial(chain, h, n) = Complement(Sum(h \o Halves(SubSeq(Whole, 1, n))))

\* A header that was right is right after the change (ip.c:257-261,
\* icmp.c:195-199), whatever else is in it.  An echo of zeros only is not: its
\* answer gets the checksum 0 where it should have all ones.
StaysRight ==
    \A by \in {1, ICMP_ECHO} : \A w \in {v \in 0..(HALF - 1) : v % BYTE >= by} :
        LET rest == Sum(Halves(Whole))
            right == Complement(Sum(<<rest, w>>))
        IN \A c \in {right} \cup (IF right = 0 THEN {HALF - 1} ELSE {}) :
             rest > 0 => Sum(<<rest, w - by, Changed(c, by)>>) = HALF - 1

ChecksumSound == PieceSummed /\ ChainSummed /\ StaysRight

=============================================================================
