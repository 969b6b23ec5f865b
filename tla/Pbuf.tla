-------------------------------- MODULE Pbuf --------------------------------
(***************************************************************************)
(* Packet buffers (core/pbuf.c): chains of pbufs that several users hold at *)
(* a time.  Data is kept as bytes, in buffers small enough that a packet    *)
(* needs several.  The users keep to what the comments ask of them: who     *)
(* chains, cuts or shortens has the head of a chain, and a tail belongs to  *)
(* one chain only.  Left out: PBUF_REF and PBUF_ESF_RX, which differ in     *)
(* where their payload comes from, custom pbufs, and checksums on copy.     *)
(***************************************************************************)
EXTENDS Integers, Sequences, FiniteSets

CONSTANTS
    PBUFS,      \* pbufs that fit in memory
    POOL_SIZE,  \* bytes of a pbuf of the pool: PBUF_POOL_BUFSIZE
    HLEN,       \* bytes of a header
    LAYERS,     \* bytes kept for headers: by the layer that asks
    LENGTHS,    \* lengths asked for
    HOLDS,      \* bound: references that users hold of one pbuf
    OPS         \* bound: calls, from one time nothing is held to the next, but releases

\* Bound: what is written into packets.  What lies behind a pbuf's length is
\* never read again and left out.
MESSAGE == <<1, 1, 2, 1>>

PbufAssumption ==
    /\ {PBUFS, POOL_SIZE, HLEN, HOLDS, OPS} \subseteq Nat 
    /\ LENGTHS \subseteq 0..Len(MESSAGE) /\ LAYERS \subseteq 0..(POOL_SIZE - 1)

VARIABLES
    pbuf,   \* the pbufs in memory
    refs,   \* the references users hold of each
    kept,   \* history: the step before left the bytes it should
    ops     \* calls since nothing was held, at most OPS

pbufVars == <<pbuf, refs, kept, ops>>

NULL == 0
Pbufs == 1..PBUFS
Unwritten == 0
Free == [type |-> "free", next |-> NULL, len |-> 0, tot_len |-> 0, ref |-> 0, payload |-> 0, bytes |-> <<>>]
Init == pbuf = [i \in Pbufs |-> Free] /\ refs = [i \in Pbufs |-> 0] /\ kept = TRUE /\ ops = 0

-----------------------------------------------------------------------------
(* Chains.                                                                 *)

\* The pbufs of a chain, and the bytes in them.
Chain(h, p) == LET from[q \in 0..PBUFS] == IF q = NULL THEN <<>> ELSE <<q>> \o from[h[q].next] IN from[p]
Bytes(q) == SubSeq(q.bytes, q.payload + 1, q.payload + q.len)
Content(h, p) == LET from[q \in 0..PBUFS] == IF q = NULL THEN <<>> ELSE Bytes(h[q]) \o from[h[q].next] IN from[p]
In(h, p) == {Chain(h, p)[i] : i \in DOMAIN Chain(h, p)}

Held(p) == refs[p] > 0
IsHead(p) == Held(p) /\ \A q \in Pbufs : pbuf[q].next # p
FreeIds(h) == {i \in Pbufs : h[i].type = "free"}
\* Which place the allocator takes does not matter.
Place(h, k) == CHOOSE i \in FreeIds(h) : Cardinality({j \in FreeIds(h) : j < i}) = k - 1

\* pbuf_free: as far down the chain as nobody else has a reference.
\* Mutant: the first that stays keeps that reference.
pbuf_free_Tail(h, p) ==
    LET c == Chain(h, p)
        gone == {c[i] : i \in {i \in DOMAIN c : \A j \in 1..i : h[c[j]].ref = 1}}
    IN [q \in Pbufs |-> IF q \in gone THEN Free ELSE h[q]]
pbuf_free(h, p) ==
    LET c == Chain(h, p)
        n == Cardinality({i \in DOMAIN c : \A j \in 1..i : h[c[j]].ref = 1})
    IN [q \in Pbufs |->
          IF \E i \in 1..n : q = c[i] THEN Free
          ELSE IF n < Len(c) /\ q = c[n + 1] THEN [h[q] EXCEPT !.ref = @ - 1] ELSE h[q]]

\* pbuf_alloc: of the pool, as many pbufs as the length needs.
Blank(n) == [i \in 1..n |-> Unwritten]
Pieces(offset, length) ==
    IF length <= POOL_SIZE - offset THEN 1
    ELSE 1 + (length - (POOL_SIZE - offset) + POOL_SIZE - 1) \div POOL_SIZE
PoolChain(h, offset, length) ==
    LET n == Pieces(offset, length)
        left(k) == IF k = 1 THEN length ELSE length - (POOL_SIZE - offset) - (k - 2) * POOL_SIZE
        room(k) == IF k = 1 THEN POOL_SIZE - offset ELSE POOL_SIZE
        new(k) == [type |-> "POOL", next |-> IF k = n THEN NULL ELSE Place(h, k + 1),
                   len |-> IF left(k) < room(k) THEN left(k) ELSE room(k), tot_len |-> left(k), ref |-> 1,
                   payload |-> POOL_SIZE - room(k),
                   bytes |-> Blank(POOL_SIZE - room(k) + (IF left(k) < room(k) THEN left(k) ELSE room(k)))]
    IN [q \in Pbufs |-> IF \E k \in 1..n : q = Place(h, k) THEN new(CHOOSE k \in 1..n : q = Place(h, k)) ELSE h[q]]
Single(h, type, offset, length, bytes) ==
    [h EXCEPT ![Place(h, 1)] = [type |-> type, next |-> NULL, len |-> length, tot_len |-> length, ref |-> 1,
                                payload |-> offset, bytes |-> bytes]]
\* The new packet is at Place(pbuf, 1); without memory nothing is left of it.
Fits(type, offset, length) ==
    Cardinality(FreeIds(pbuf)) >= IF type = "POOL" THEN Pieces(offset, length) ELSE 1
pbuf_alloc(h, type, offset, length) ==
    CASE type = "POOL" -> PoolChain(h, offset, length)
      [] type = "RAM" -> Single(h, "RAM", offset, length, Blank(offset + length))
      [] OTHER -> Single(h, "ROM", 0, length, Blank(length))

\* pbuf_realloc.  Mutant: the pbufs before the last keep their total.
Last(h, p, new_len) == CHOOSE q \in In(h, p) :
    /\ h[p].tot_len - h[q].tot_len < new_len \/ q = p
    /\ h[p].tot_len - h[q].tot_len + h[q].len >= new_len
pbuf_realloc_LastOnly(h, p, new_len) ==
    LET q == Last(h, p, new_len)
        rem_len == new_len - (h[p].tot_len - h[q].tot_len)
        cut == IF h[q].next = NULL THEN h ELSE pbuf_free(h, h[q].next)
    IN [cut EXCEPT ![q] = [@ EXCEPT !.next = NULL, !.len = rem_len, !.tot_len = rem_len,
                                    !.bytes = SubSeq(@, 1, h[q].payload + rem_len)]]
pbuf_realloc(h, p, new_len) ==
    LET q == Last(h, p, new_len)
        rem_len == new_len - (h[p].tot_len - h[q].tot_len)
        shorter == [i \in Pbufs |-> IF i \in In(h, p) \ In(h, q)
                                  THEN [h[i] EXCEPT !.tot_len = @ + new_len - h[p].tot_len] ELSE h[i]]
        cut == IF h[q].next = NULL THEN shorter ELSE pbuf_free(shorter, h[q].next)
    IN [cut EXCEPT ![q] = [@ EXCEPT !.next = NULL, !.len = rem_len, !.tot_len = rem_len,
                                    !.bytes = SubSeq(@, 1, h[q].payload + rem_len)]]

\* pbuf_header can move the payload by increment, negative to hide bytes.
HeaderFits(q, increment) ==
    /\ increment < 0 => -increment <= q.len
    /\ IF q.type = "ROM" THEN increment < 0 ELSE q.payload >= increment
pbuf_header(h, p, increment) ==
    [h EXCEPT ![p] = [@ EXCEPT !.payload = @ - increment, !.len = @ + increment, !.tot_len = @ + increment]]

pbuf_ref(h, p) == [h EXCEPT ![p].ref = @ + 1]
pbuf_cat(h, p, t) ==
    [q \in Pbufs |->
       IF q \notin In(h, p) THEN h[q]
       ELSE [h[q] EXCEPT !.tot_len = @ + h[t].tot_len, !.next = IF @ = NULL THEN t ELSE @]]
pbuf_chain(h, p, t) == pbuf_ref(pbuf_cat(h, p, t), t)

\* pbuf_dechain.  Mutant: the rest keeps the reference its chain had.
pbuf_dechain_KeepsRef(h, p) ==
    LET q == h[p].next IN
    [h EXCEPT ![q].tot_len = h[p].tot_len - h[p].len, ![p].next = NULL, ![p].tot_len = h[p].len]
pbuf_dechain(h, p) ==
    LET q == h[p].next IN
    pbuf_free([h EXCEPT ![q].tot_len = h[p].tot_len - h[p].len, ![p].next = NULL, ![p].tot_len = h[p].len], q)

\* A write into a chain, at its beginning: what pbuf_take and pbuf_copy do.
Written(h, p, bytes) ==
    [q \in Pbufs |->
       IF q \notin In(h, p) THEN h[q]
       ELSE LET before == h[p].tot_len - h[q].tot_len IN
            [h[q] EXCEPT !.bytes = [i \in DOMAIN @ |->
                LET k == before + i - h[q].payload IN
                IF i \in (h[q].payload + 1)..(h[q].payload + h[q].len) /\ k \in DOMAIN bytes
                THEN bytes[k] ELSE @[i]]]]

\* pbuf_copy: source and target are gone through side by side, in steps as
\* long as both their pbufs last.  Mutant: the target's place is not reset.
Least(a, b) == IF a <= b THEN a ELSE b
Step(h, c, reset) ==
    LET t == c.h[c.to]
        f == c.h[c.from]
        len == Least(t.len - c.offset_to, f.len - c.offset_from)
        target == c.offset_to + len
        source == c.offset_from + len
        moved == [t EXCEPT !.bytes = [i \in DOMAIN @ |->
                    IF i - t.payload - c.offset_to \in 1..len
                    THEN f.bytes[f.payload + c.offset_from + i - t.payload - c.offset_to] ELSE @[i]]]
    IN [h |-> [c.h EXCEPT ![c.to] = moved],
        to |-> IF target = t.len THEN t.next ELSE c.to,
        from |-> IF source >= f.len THEN f.next ELSE c.from,
        offset_to |-> IF target = t.len /\ reset THEN 0 ELSE target,
        offset_from |-> IF source >= f.len THEN 0 ELSE source]
Copied(h, to, from, reset) ==
    LET n == 2 * PBUFS
        run[k \in 0..n] ==
            IF k = 0 THEN [h |-> h, to |-> to, from |-> from, offset_to |-> 0, offset_from |-> 0]
            ELSE IF NULL \in {run[k - 1].from, run[k - 1].to} THEN run[k - 1]
            ELSE Step(h, run[k - 1], reset)
    IN run[n].h
pbuf_copy_Runs(h, to, from) == Copied(h, to, from, FALSE)
pbuf_copy(h, to, from) == Copied(h, to, from, TRUE)

-----------------------------------------------------------------------------
(* Reading.                                                                *)

\* pbuf_get_at: zero beyond the end.
pbuf_get_at(h, p, offset) ==
    LET at[q \in 0..PBUFS, k \in 0..offset] ==
          IF q = NULL THEN 0
          ELSE IF h[q].len <= k THEN at[h[q].next, k - h[q].len] ELSE Bytes(h[q])[k + 1]
    IN at[p, offset]
\* pbuf_memcmp: 0 for equal, else one more than the place of the first
\* difference.
NotFound == 65535
pbuf_memcmp(h, p, offset, needle) ==
    IF offset >= h[p].tot_len THEN NotFound
    ELSE LET differ == {i \in DOMAIN needle : pbuf_get_at(h, p, offset + i - 1) # needle[i]} IN
         IF differ = {} THEN 0 ELSE CHOOSE i \in differ : \A j \in differ : i <= j
\* pbuf_memfind goes on behind the place of the difference.
\* Mutant: one byte further.
pbuf_memfind_Further(h, p, needle) ==
    LET max == h[p].tot_len - Len(needle)
        from[i \in 0..NotFound] ==
            IF i > max THEN NotFound
            ELSE LET plus == pbuf_memcmp(h, p, i, needle) IN IF plus = 0 THEN i ELSE from[i + plus + 1]
    IN IF max < 0 THEN NotFound ELSE from[0]
pbuf_memfind(h, p, needle) ==
    LET max == h[p].tot_len - Len(needle)
        from[i \in 0..NotFound] ==
            IF i > max THEN NotFound
            ELSE LET plus == pbuf_memcmp(h, p, i, needle) IN IF plus = 0 THEN i ELSE from[i + plus]
    IN IF max < 0 THEN NotFound ELSE from[0]

-----------------------------------------------------------------------------
(* The users.                                                              *)

\* The bytes of a packet begin with these, after the step.
Kept(p, bytes) == kept' = (SubSeq(Content(pbuf', p), 1, Len(bytes)) = bytes)

\* A packet is allocated and filled, by pbuf_take.
Alloc(type, offset, length) ==
    /\ Fits(type, offset, length)
    /\ LET p == Place(pbuf, 1) IN
       /\ pbuf' = Written(pbuf_alloc(pbuf, type, offset, length), p, SubSeq(MESSAGE, 1, length))
       /\ refs' = [refs EXCEPT ![p] = 1]
       /\ Kept(p, SubSeq(MESSAGE, 1, length))
Release(p) ==
    /\ Held(p)
    /\ pbuf' = pbuf_free(pbuf, p)
    /\ refs' = [refs EXCEPT ![p] = @ - 1]
    /\ kept' = TRUE
Share(p) ==
    /\ Held(p) /\ refs[p] < HOLDS
    /\ pbuf' = pbuf_ref(pbuf, p)
    /\ refs' = [refs EXCEPT ![p] = @ + 1]
    /\ kept' = TRUE
Shorten(p, new_len) ==
    /\ IsHead(p) /\ new_len < pbuf[p].tot_len
    /\ pbuf' = pbuf_realloc(pbuf, p, new_len)
    /\ Kept(p, SubSeq(Content(pbuf, p), 1, new_len))
    /\ UNCHANGED refs
Header(p, increment) ==
    /\ IsHead(p) /\ HeaderFits(pbuf[p], increment)
    /\ pbuf' = pbuf_header(pbuf, p, increment)
    /\ kept' = TRUE /\ UNCHANGED refs
\* The reference to the tail goes to the chain, or stays with the user too.
Join(p, t) ==
    /\ IsHead(p) /\ IsHead(t) /\ t \notin In(pbuf, p) /\ p \notin In(pbuf, t)
    /\ \/ pbuf' = pbuf_cat(pbuf, p, t) /\ refs' = [refs EXCEPT ![t] = @ - 1]
       \/ pbuf' = pbuf_chain(pbuf, p, t) /\ UNCHANGED refs
    /\ Kept(p, Content(pbuf, p) \o Content(pbuf, t))
Dechain(p) ==
    /\ IsHead(p) /\ pbuf[p].next # NULL
    /\ pbuf' = pbuf_dechain(pbuf, p)
    /\ Kept(p, Bytes(pbuf[p])) /\ UNCHANGED refs
\* A ROM is not written to.
Writable(p) == \A q \in In(pbuf, p) : pbuf[q].type # "ROM"

\* An empty pbuf within a chain is taken for the end of a packet.
Full(p) == \A q \in In(pbuf, p) : pbuf[q].len > 0
Copy(to, from) ==
    /\ IsHead(to) /\ Held(from) /\ In(pbuf, to) \cap In(pbuf, from) = {}
    /\ Writable(to) /\ Full(to) /\ Full(from) /\ pbuf[to].tot_len >= pbuf[from].tot_len
    /\ pbuf' = pbuf_copy(pbuf, to, from)
    /\ Kept(to, Content(pbuf, from)) /\ UNCHANGED refs
\* pbuf_coalesce: the chain's copy in one piece, if there is memory.
pbuf_coalesce(p, offset) ==
    /\ IsHead(p) /\ pbuf[p].next # NULL /\ Full(p) /\ Fits("RAM", offset, pbuf[p].tot_len)
    /\ LET q == Place(pbuf, 1) IN
       /\ pbuf' = pbuf_free(pbuf_copy(pbuf_alloc(pbuf, "RAM", offset, pbuf[p].tot_len), q, p), p)
       /\ refs' = [refs EXCEPT ![p] = @ - 1, ![q] = 1]
       /\ Kept(q, Content(pbuf, p))

Call ==
    \/ \E type \in {"POOL", "RAM", "ROM"}, offset \in LAYERS, length \in LENGTHS : Alloc(type, offset, length)
    \/ \E p \in Pbufs :
         \/ Release(p) \/ Share(p) \/ Dechain(p)
         \/ \E new_len \in LENGTHS : Shorten(p, new_len)
         \/ \E increment \in {-HLEN, HLEN} : Header(p, increment)
         \/ \E q \in Pbufs : Join(p, q) \/ Copy(p, q)
         \/ \E offset \in LAYERS : pbuf_coalesce(p, offset)
Next ==
    /\ (ops < OPS /\ Call) \/ \E p \in Pbufs : Release(p)
    /\ ops' = IF \A p \in Pbufs : refs'[p] = 0 THEN 0 ELSE IF ops < OPS THEN ops + 1 ELSE OPS
Spec == Init /\ [][Next]_pbufVars

-----------------------------------------------------------------------------
TypeOK ==
    /\ refs \in [Pbufs -> 0..HOLDS]
    /\ \A p \in Pbufs :
         /\ pbuf[p].type \in {"free", "POOL", "RAM", "ROM"} /\ pbuf[p].next \in 0..PBUFS
         /\ pbuf[p].payload + pbuf[p].len <= Len(pbuf[p].bytes) /\ pbuf[p].payload \in Nat

\* pbuf.h: "the reference count always equals the number of pointers that
\* refer to this pbuf"; a pbuf nobody refers to is free, and nobody refers to
\* a free one.
RefsCounted ==
    \A p \in Pbufs :
        /\ pbuf[p].ref = refs[p] + Cardinality({q \in Pbufs : pbuf[q].next = p})
        /\ pbuf[p].type = "free" <=> pbuf[p].ref = 0

\* pbuf.h: the total length of a pbuf is its own and its successors'.
LengthsAdd ==
    \A p \in Pbufs : pbuf[p].tot_len = pbuf[p].len + (IF pbuf[p].next = NULL THEN 0 ELSE pbuf[pbuf[p].next].tot_len)

\* A packet that was copied, joined, cut or put in one piece has the bytes it
\* should have, however they are spread over pbufs.
BytesKept == kept

\* A sequence is only found where it is, and it is found unless a copy of its
\* first byte comes before: a difference ends the search at that place and at
\* all that were compared with it.
Needles == {<<1>>, <<1, 2>>, <<1, 2, 1>>}
Occurs(content, needle, i) == SubSeq(content, i + 1, i + Len(needle)) = needle
FoundWhereItIs ==
    \A p \in Pbufs : Held(p) => \A needle \in Needles :
        LET i == pbuf_memfind(pbuf, p, needle)
            content == Content(pbuf, p)
        IN IF i # NotFound THEN Occurs(content, needle, i)
           ELSE \A k \in 0..(Len(content) - Len(needle)) :
                  Occurs(content, needle, k) => \E j \in 1..k : content[j] = needle[1]

PbufSound == RefsCounted /\ LengthsAdd /\ BytesKept /\ FoundWhereItIs

=============================================================================
