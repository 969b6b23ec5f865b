----------------------------- MODULE NetProofs -----------------------------
(***************************************************************************)
(* Proofs about parts of the network that are checked beside the            *)
(* configuration in flash: the resolver's table of names, the membership of *)
(* multicast groups, the ARP table, the DHCP clients with their server, and *)
(* the heap, each for any number of places, hosts, stations, groups,        *)
(* netifs, retries and times, any length of a packet queue or a channel,    *)
(* and any size of the heap and of what is asked of it.                     *)
(***************************************************************************)
EXTENDS MCConfigFlash, FiniteSetTheorems, SequenceTheorems, WellFoundedInduction, TLAPS

-----------------------------------------------------------------------------
(* Least elements, and finite sets of places.                               *)

LEMMA LeastExists ==
    ASSUME NEW Z \in SUBSET Nat, Z # {}
    PROVE  \E x \in Z : \A y \in Z : x <= y
<1>1. \E x \in Z : \A y \in Z : ~(<<y, x>> \in OpToRel(<, Nat))
  BY NatLessThanWellFounded, WFMin
<1>2. PICK x \in Z : \A y \in Z : ~(<<y, x>> \in OpToRel(<, Nat))
  BY <1>1
<1>3. \A y \in Z : ~(y < x)
  BY <1>2 DEF OpToRel
<1>. QED BY <1>3

LEMMA LeastIs ==
    ASSUME NEW Z \in SUBSET Nat, Z # {}
    PROVE  LET m == CHOOSE x \in Z : \A y \in Z : x <= y IN m \in Z /\ \A y \in Z : m <= y
  BY LeastExists

-----------------------------------------------------------------------------
(* The resolver.                                                            *)

LEMMA DnsNumbers ==
    /\ DNS_TABLE_SIZE \in Nat \ {0} /\ DNS_MAX_RETRIES \in Nat /\ DNS_MAX_RETRIES > 1
    /\ DNS_MAX_SERVERS \in Nat \ {0} /\ SEQNOS \in Nat \ {0} /\ TTLS \subseteq Nat
  BY PartsAssumption DEF N!DnsAssumption

USE DnsNumbers

AnyName == Names \cup {N!NoName}
Entries ==
    [state : {"UNUSED", "ASKING", "DONE"}, name : AnyName, ipaddr : AnyName, numdns : Nat, tmr : Nat,
     retries : Nat, ttl : Nat, seqno : Nat, age : Nat]
Queries == {N!NoQuery} \cup [place : N!Place, name : AnyName]
Resolvers ==
    [table : [N!Place -> Entries], seqno : 0..(SEQNOS - 1), last : Queries, owed : Int]

Asking(n) == N!In(n.table, "ASKING")

\* The seconds that the first r tries of one server take, and those of the
\* try that has t seconds left.
Tries(r) == (r * (r - 1)) \div 2
Spent(r, t) == IF r = 0 THEN 0 ELSE 1 + Tries(r) + (r - t)

\* An entry that is asked for has its retry ahead, and its age is the time of
\* the servers before and of the tries of this one.
EntryOK(e) ==
    /\ e.retries < DNS_MAX_RETRIES /\ e.numdns < DNS_MAX_SERVERS
    /\ e.state = "ASKING" =>
         /\ e.tmr > 0 /\ e.tmr <= (IF e.retries = 0 THEN 1 ELSE e.retries)
         /\ e.age = e.numdns * N!Patience + Spent(e.retries, e.tmr)
    /\ e.state = "DONE" => e.ipaddr = e.name /\ e.ttl > 0

DnsTyped == dns \in Resolvers /\ servers \in 1..DNS_MAX_SERVERS /\ entry \in 0..DNS_TABLE_SIZE
DnsInv ==
    /\ DnsTyped /\ refused \in BOOLEAN
    /\ dns.owed = Cardinality(Asking(dns))
    /\ \A i \in N!Place : EntryOK(dns.table[i])
    /\ refused => \E i \in N!Place : dns.table[i].seqno >= dns.seqno

-----------------------------------------------------------------------------
(* Counting the entries that are asked for.                                 *)

LEMMA PlacesFinite == IsFiniteSet(N!Place)
  BY FS_Interval DEF N!Place

LEMMA AskingFinite ==
    ASSUME NEW n \in Resolvers
    PROVE  /\ Asking(n) \subseteq N!Place /\ IsFiniteSet(Asking(n))
           /\ Cardinality(Asking(n)) \in 0..DNS_TABLE_SIZE
<1>1. Asking(n) \subseteq N!Place
  BY DEF Asking, N!In
<1>2. Cardinality(N!Place) = DNS_TABLE_SIZE
  BY FS_Interval DEF N!Place
<1>3. IsFiniteSet(Asking(n)) /\ Cardinality(Asking(n)) <= DNS_TABLE_SIZE
  BY <1>1, <1>2, PlacesFinite, FS_Subset
<1>4. Cardinality(Asking(n)) \in Nat
  BY <1>3, FS_CardinalityType
<1>. QED BY <1>1, <1>3, <1>4

\* One entry is replaced.
LEMMA Replaced ==
    ASSUME NEW n \in Resolvers, NEW m \in Resolvers, NEW i \in N!Place, NEW e,
           m.table = [n.table EXCEPT ![i] = e]
    PROVE  /\ (e.state = "ASKING" <=> n.table[i].state = "ASKING") =>
                Cardinality(Asking(m)) = Cardinality(Asking(n))
           /\ e.state = "ASKING" /\ n.table[i].state # "ASKING" =>
                Cardinality(Asking(m)) = Cardinality(Asking(n)) + 1
           /\ e.state # "ASKING" /\ n.table[i].state = "ASKING" =>
                Cardinality(Asking(m)) = Cardinality(Asking(n)) - 1
<1>1. IsFiniteSet(Asking(n)) /\ Cardinality(Asking(n)) \in Nat
  BY AskingFinite
<1>2. n.table \in [N!Place -> Entries]
  BY DEF Resolvers
<1>3. CASE e.state = "ASKING"
  <2>1. Asking(m) = Asking(n) \cup {i}
    BY <1>2, <1>3 DEF Asking, N!In
  <2>2. i \in Asking(n) <=> n.table[i].state = "ASKING"
    BY DEF Asking, N!In
  <2>. QED BY <1>1, <1>3, <2>1, <2>2, FS_AddElement
<1>4. CASE e.state # "ASKING"
  <2>1. Asking(m) = Asking(n) \ {i}
    BY <1>2, <1>4 DEF Asking, N!In
  <2>2. i \in Asking(n) <=> n.table[i].state = "ASKING"
    BY DEF Asking, N!In
  <2>3. Cardinality(Asking(n) \ {i}) =
          IF i \in Asking(n) THEN Cardinality(Asking(n)) - 1 ELSE Cardinality(Asking(n))
    BY <1>1, FS_RemoveElement
  <2>4. CASE i \in Asking(n)
    BY <1>1, <1>4, <2>1, <2>2, <2>3, <2>4
  <2>5. CASE i \notin Asking(n)
    BY <1>1, <1>4, <2>1, <2>2, <2>3, <2>5
  <2>. QED BY <2>4, <2>5
<1>. QED BY <1>3, <1>4

-----------------------------------------------------------------------------
(* The times of the tries.                                                  *)

LEMMA TriesSum ==
    ASSUME NEW r \in Nat
    PROVE  /\ Tries(r) \in Nat /\ Tries(r + 1) = Tries(r) + r
           /\ \A q \in Nat : q <= r => Tries(q) <= Tries(r)
<1>1. \A q \in Nat : q * (q - 1) \in Nat
  OBVIOUS
<1>2. \A q \in Nat : Tries(q) \in Nat
  BY <1>1 DEF Tries
<1>3. (r + 1) * ((r + 1) - 1) = r * (r - 1) + 2 * r
  OBVIOUS
<1> DEFINE x == r * (r - 1)
<1>4. x \in Nat /\ (x + 2 * r) \div 2 = (x \div 2) + r
  <2>1. x \in Nat
    BY <1>1
  <2> HIDE DEF x
  <2>. QED BY <2>1
<1>5. Tries(r + 1) = Tries(r) + r
  BY <1>3, <1>4 DEF Tries
<1>6. ASSUME NEW q \in Nat, q <= r PROVE Tries(q) <= Tries(r)
  <2>1. q * (q - 1) <= r * (r - 1)
    BY <1>6
  <2>2. \A a, b \in Nat : a <= b => a \div 2 <= b \div 2
    OBVIOUS
  <2>. QED BY <1>1, <2>1, <2>2 DEF Tries
<1>. QED BY <1>2, <1>5, <1>6

LEMMA PatienceIs == N!Patience = 1 + Tries(DNS_MAX_RETRIES) /\ N!Patience \in Nat
<1>1. (DNS_MAX_RETRIES - 1) * DNS_MAX_RETRIES = DNS_MAX_RETRIES * (DNS_MAX_RETRIES - 1)
  OBVIOUS
<1>2. Tries(DNS_MAX_RETRIES) \in Nat
  BY TriesSum
<1>. QED BY <1>1, <1>2 DEF N!Patience, Tries

\* An entry that is asked for has not yet been asked for too long.
LEMMA StillPatient ==
    ASSUME NEW e \in Entries, EntryOK(e), e.state = "ASKING"
    PROVE  e.age < N!Patience * DNS_MAX_SERVERS
<1> DEFINE p == N!Patience
           s == Spent(e.retries, e.tmr)
           q == e.numdns
<1>1. p \in Nat /\ q \in Nat /\ e.retries \in Nat /\ e.tmr \in Nat
  BY PatienceIs DEF Entries
<1>2. s \in Nat /\ s < p
  <2>1. CASE e.retries = 0
    BY <2>1, PatienceIs, TriesSum DEF Spent
  <2>2. CASE e.retries # 0
    <3>1. e.retries + 1 <= DNS_MAX_RETRIES /\ e.retries + 1 \in Nat
      BY <1>1 DEF EntryOK
    <3>2. /\ Tries(e.retries) \in Nat /\ Tries(DNS_MAX_RETRIES) \in Nat
          /\ Tries(e.retries) + e.retries <= Tries(DNS_MAX_RETRIES)
      BY <1>1, <3>1, TriesSum
    <3>3. e.tmr > 0 /\ e.tmr <= e.retries
      BY <2>2 DEF EntryOK
    <3>. QED BY <1>1, <2>2, <3>2, <3>3, PatienceIs DEF Spent
  <2>. QED BY <2>1, <2>2
<1>3. e.age = q * p + s /\ q < DNS_MAX_SERVERS
  BY DEF EntryOK
<1> HIDE DEF p, s, q
<1>4. q * p \in Nat /\ (q + 1) * p = q * p + p /\ (q + 1) * p <= DNS_MAX_SERVERS * p
      /\ DNS_MAX_SERVERS * p = p * DNS_MAX_SERVERS
  BY <1>1, <1>3
<1>5. DNS_MAX_SERVERS * p \in Nat
  BY <1>1
<1>. QED BY <1>1, <1>2, <1>3, <1>4, <1>5 DEF p

-----------------------------------------------------------------------------
(* Accepting a lookup.                                                      *)

LEMMA OldestIs ==
    ASSUME NEW n \in Resolvers, NEW Z \in SUBSET N!Place, Z # {}
    PROVE  N!Oldest(n, Z) \in Z
<1> DEFINE age == {n.table[i].seqno : i \in Z}
           T == {i \in Z : \A j \in Z : n.table[j].seqno >= n.table[i].seqno}
<1>1. \A i \in Z : n.table[i].seqno \in Nat
  BY DEF Resolvers, Entries
<1>2. age \in SUBSET Nat /\ age # {}
  BY <1>1
<1>3. PICK x \in age : \A y \in age : x <= y
  BY <1>2, LeastExists
<1>4. PICK i \in Z : x = n.table[i].seqno
  BY <1>3
<1>5. i \in T
  BY <1>1, <1>3, <1>4
<1>6. T \in SUBSET Nat /\ T # {}
  BY <1>5 DEF N!Place
<1>7. (CHOOSE a \in T : \A b \in T : a <= b) \in T
  BY <1>6, LeastIs
<1>. QED BY <1>7 DEF N!Oldest, N!Min

\* A lookup takes no place of another that is asked for; and one is refused
\* in front of answers only when none of these is older.
LEMMA PlaceIs ==
    ASSUME NEW n \in Resolvers
    PROVE  LET p == N!PlaceFor(n) IN
           /\ p # 0 => p \in N!Place /\ n.table[p].state # "ASKING"
           /\ p = 0 /\ N!In(n.table, "DONE") # {} =>
                \E i \in N!Place : n.table[i].seqno >= n.seqno
<1> DEFINE free == N!In(n.table, "UNUSED")
           done == N!In(n.table, "DONE")
           older == {i \in done : n.seqno - n.table[i].seqno > 0}
           r == IF older = {} THEN 1 ELSE N!Oldest(n, older)
<1>1. n.seqno \in Nat /\ \A i \in N!Place : n.table[i].seqno \in Nat
  BY DEF Resolvers, Entries
<1>2. free \in SUBSET N!Place /\ done \in SUBSET N!Place /\ older \in SUBSET done
      /\ free \in SUBSET Nat /\ 0 \notin N!Place /\ 1 \in N!Place
  BY DEF N!In, N!Place
<1>3. older # {} => r \in older
  BY <1>2, OldestIs
<1>4. N!Recycled(n) = IF n.table[r].state = "DONE" THEN r ELSE 0
  BY DEF N!Recycled
<1>5. N!PlaceFor(n) = IF free # {} THEN N!Min(free) ELSE N!Recycled(n)
  BY DEF N!PlaceFor
<1>6. r \in N!Place /\ (older = {} => r = 1)
  BY <1>2, <1>3
<1>7. CASE free # {}
  <2>1. N!Min(free) \in free
    <3>1. (CHOOSE a \in free : \A b \in free : a <= b) \in free
      BY <1>2, <1>7, LeastIs
    <3>. QED BY <3>1 DEF N!Min
  <2>2. N!PlaceFor(n) = N!Min(free)
    BY <1>5, <1>7
  <2>. QED BY <1>2, <2>1, <2>2 DEF N!In
<1>8. CASE free = {}
  <2>1. N!PlaceFor(n) = IF n.table[r].state = "DONE" THEN r ELSE 0
    BY <1>4, <1>5, <1>8
  <2>2. CASE n.table[r].state = "DONE"
    BY <1>2, <1>6, <2>1, <2>2
  <2>3. CASE n.table[r].state # "DONE"
    <3>1. N!PlaceFor(n) = 0
      BY <2>1, <2>3
    <3>2. older = {}
      BY <1>3, <2>3 DEF N!In
    <3>3. \A i \in done : n.table[i].seqno >= n.seqno
      BY <1>1, <1>2, <3>2
    <3>. QED BY <1>2, <3>1, <3>3
  <2>. QED BY <2>2, <2>3
<1>. QED BY <1>7, <1>8

LEMMA NewIs ==
    ASSUME NEW n \in Resolvers, NEW name \in Names
    PROVE  LET e == N!New(n, name) IN
           e \in Entries /\ e.state = "ASKING" /\ e.name = name /\ EntryOK(e)
<1> DEFINE e == N!New(n, name)
<1>1. n.seqno \in Nat /\ name \in AnyName /\ N!NoName \in AnyName
  BY DEF Resolvers, AnyName
<1>2. N!Unused \in Entries /\ N!Unused.retries = 0 /\ N!Unused.numdns = 0 /\ N!Unused.age = 0
  BY <1>1 DEF N!Unused, Entries
<1>3. /\ e \in Entries /\ e.state = "ASKING" /\ e.name = name /\ e.tmr = 1
      /\ e.retries = 0 /\ e.numdns = 0 /\ e.age = 0
  BY <1>1, <1>2 DEF N!New, Entries
<1>4. Spent(0, 1) = 0 /\ 0 * N!Patience = 0
  BY PatienceIs DEF Spent
<1>. QED BY <1>3, <1>4 DEF EntryOK

LEMMA UnusedIs == N!Unused \in Entries /\ N!Unused.state = "UNUSED" /\ EntryOK(N!Unused)
  BY DEF N!Unused, Entries, AnyName, EntryOK

\* A query that is out, or is not for want of memory, leaves the table.
LEMMA AskedIs ==
    ASSUME NEW n \in Resolvers, NEW i \in N!Place, NEW out \in BOOLEAN
    PROVE  LET r == N!Asked(n, i, out) IN
           r \in Resolvers /\ r.table = n.table /\ r.owed = n.owed /\ r.seqno = n.seqno
<1> DEFINE q == IF out THEN [place |-> i, name |-> n.table[i].name] ELSE N!NoQuery
<1>1. n.table[i].name \in AnyName
  BY DEF Resolvers, Entries
<1>2. q \in Queries
  BY <1>1 DEF Queries
<1>3. N!Asked(n, i, out) = [n EXCEPT !.last = q]
  BY DEF N!Asked
<1> HIDE DEF q
<1>. QED BY <1>2, <1>3 DEF Resolvers

\* A lookup that is accepted replaces an entry that nobody waits for.
LEMMA LookedUpName ==
    ASSUME NEW n \in Resolvers, NEW name \in Names, NEW out \in BOOLEAN
    PROVE  LET r == N!dns_gethostbyname(n, name, out) IN
           /\ r \in Resolvers
           /\ \/ r.table = n.table /\ r.owed = n.owed
              \/ \E p \in N!Place, e \in Entries :
                   /\ n.table[p].state # "ASKING" /\ r.table = [n.table EXCEPT ![p] = e]
                   /\ e.state = "ASKING" /\ e.name = name /\ EntryOK(e) /\ r.owed = n.owed + 1
<1> DEFINE r == N!dns_gethostbyname(n, name, out)
           p == N!PlaceFor(n)
           e == N!New(n, name)
           m == [n EXCEPT !.table[p] = e, !.seqno = (@ + 1) % SEQNOS, !.owed = @ + 1]
<1>1. r \in {n, N!dns_enqueue(n, name, out)}
  BY DEF N!dns_gethostbyname
<1>2. p # 0 => p \in N!Place /\ n.table[p].state # "ASKING"
  BY PlaceIs
<1>3. N!dns_enqueue(n, name, out) = IF p = 0 THEN n ELSE N!Asked(m, p, out)
  BY DEF N!dns_enqueue
<1>4. CASE r = n
  BY <1>4
<1>5. CASE p # 0 /\ r = N!Asked(m, p, out)
  <2>1. e \in Entries /\ e.state = "ASKING" /\ e.name = name /\ EntryOK(e)
    BY NewIs
  <2>2. p \in N!Place /\ n.table[p].state # "ASKING"
    BY <1>2, <1>5
  <2>3. ((n.seqno + 1) % SEQNOS) \in 0..(SEQNOS - 1) /\ n.owed + 1 \in Int
    BY DEF Resolvers
  <2> DEFINE t == [n.table EXCEPT ![p] = e]
             q == ((n.seqno + 1) % SEQNOS)
  <2>4. t \in [N!Place -> Entries]
    BY <2>1, <2>2 DEF Resolvers
  <2>5. m = [n EXCEPT !.table = t, !.seqno = q, !.owed = n.owed + 1]
    BY DEF Resolvers
  <2> HIDE DEF t, q, e, p
  <2>6. m \in Resolvers /\ m.table = t /\ m.owed = n.owed + 1
    BY <2>3, <2>4, <2>5 DEF Resolvers, q
  <2> HIDE DEF m
  <2>7. r \in Resolvers /\ r.table = t /\ r.owed = n.owed + 1
    BY <1>5, <2>2, <2>6, AskedIs
  <2>. QED BY <2>1, <2>2, <2>7 DEF t
<1>. QED BY <1>1, <1>3, <1>4, <1>5

-----------------------------------------------------------------------------
(* The end of a lookup.                                                     *)

\* The callback, and the lookup it may make: r comes of n.
Called(n, again, r) ==
    /\ r \in Resolvers
    /\ \/ r.table = n.table /\ r.owed = n.owed - 1
       \/ \E p \in N!Place, e \in Entries :
            /\ n.table[p].state # "ASKING" /\ r.table = [n.table EXCEPT ![p] = e]
            /\ e.state = "ASKING" /\ e.name = again /\ EntryOK(e) /\ r.owed = n.owed
            /\ again # N!NoName

LEMMA FoundIs ==
    ASSUME NEW n \in Resolvers, NEW again \in AnyName, NEW out \in BOOLEAN
    PROVE  Called(n, again, N!Found(n, again, out))
<1> DEFINE called == [n EXCEPT !.owed = @ - 1]
<1>1. called \in Resolvers /\ called.table = n.table /\ called.owed = n.owed - 1 /\ n.owed \in Int
  BY DEF Resolvers
<1>2. N!Found(n, again, out) = IF again = N!NoName THEN called ELSE N!dns_gethostbyname(called, again, out)
  BY DEF N!Found
<1> HIDE DEF called
<1>3. CASE again = N!NoName
  BY <1>1, <1>2, <1>3 DEF Called
<1>4. CASE again # N!NoName
  <2>1. again \in Names /\ N!Found(n, again, out) = N!dns_gethostbyname(called, again, out)
    BY <1>2, <1>4 DEF AnyName
  <2> DEFINE r == N!dns_gethostbyname(called, again, out)
  <2> HIDE DEF r
  <2>2. /\ r \in Resolvers
        /\ \/ r.table = called.table /\ r.owed = called.owed
           \/ \E p \in N!Place, e \in Entries :
                /\ called.table[p].state # "ASKING" /\ r.table = [called.table EXCEPT ![p] = e]
                /\ e.state = "ASKING" /\ e.name = again /\ EntryOK(e) /\ r.owed = called.owed + 1
    <3>1. called \in Resolvers /\ again \in Names
      BY <1>1, <2>1
    <3>. QED BY <3>1, LookedUpName DEF r
  <2>3. called.owed + 1 = n.owed
    BY <1>1
  <2>4. N!Found(n, again, out) = r
    BY <2>1 DEF r
  <2>. QED BY <1>1, <1>4, <2>2, <2>3, <2>4 DEF Called
<1>. QED BY <1>3, <1>4

LEMMA PlaceFreedIs ==
    ASSUME NEW n \in Resolvers, NEW i \in N!Place
    PROVE  LET r == N!Freed(n, i) IN
           r \in Resolvers /\ r.table = [n.table EXCEPT ![i] = N!Unused] /\ r.owed = n.owed
<1> DEFINE t == [n.table EXCEPT ![i] = N!Unused]
<1>1. t \in [N!Place -> Entries]
  BY UnusedIs DEF Resolvers
<1>2. N!Freed(n, i) = [n EXCEPT !.table = t]
  BY DEF N!Freed, Resolvers
<1>3. t = [n.table EXCEPT ![i] = N!Unused]
  OBVIOUS
<1> HIDE DEF t
<1>. QED BY <1>1, <1>2, <1>3 DEF Resolvers

LEMMA FlushedIs ==
    ASSUME NEW n \in Resolvers, NEW i \in N!Place
    PROVE  LET r == N!Flushed(n, i) IN
           /\ r \in Resolvers /\ r.table = [n.table EXCEPT ![i] = N!Unused]
           /\ n.table[i].state = "ASKING" => r.owed = n.owed - 1
           /\ n.table[i].state # "ASKING" => r.owed = n.owed
<1> DEFINE o == IF n.table[i].state = "ASKING" THEN n.owed - 1 ELSE n.owed
           m == [n EXCEPT !.owed = o]
<1>1. o \in Int /\ n.owed \in Int
  BY DEF Resolvers
<1>2. m \in Resolvers /\ m.table = n.table /\ m.owed = o
  BY <1>1 DEF Resolvers
<1>3. N!Flushed(n, i) = N!Freed(m, i)
  BY DEF N!Flushed, Resolvers
<1>4. /\ n.table[i].state = "ASKING" => o = n.owed - 1
      /\ n.table[i].state # "ASKING" => o = n.owed
  OBVIOUS
<1> HIDE DEF o, m
<1>. QED BY <1>2, <1>3, <1>4, PlaceFreedIs

\* A lookup is answered and not kept: its callback comes, which may look up
\* another name, and its place is freed, whoever has it by then.  The counts
\* agree again.
LEMMA AnswerEnds ==
    ASSUME NEW n \in Resolvers, NEW i \in N!Place, NEW again \in AnyName, NEW out \in BOOLEAN,
           \A j \in N!Place \ {i} : EntryOK(n.table[j]),
           n.table[i].state # "ASKING", n.owed = Cardinality(Asking(n)) + 1
    PROVE  LET r == N!Flushed(N!Found(n, again, out), i) IN
           /\ r \in Resolvers /\ r.owed = Cardinality(Asking(r))
           /\ \A j \in N!Place : EntryOK(r.table[j])
<1> DEFINE m == N!Found(n, again, out)
           r == N!Flushed(m, i)
<1>1. Called(n, again, m) /\ m \in Resolvers
  <2>1. Called(n, again, m)
    BY FoundIs
  <2>. QED BY <2>1 DEF Called
<1>2. /\ r \in Resolvers /\ r.table = [m.table EXCEPT ![i] = N!Unused]
      /\ m.table[i].state = "ASKING" => r.owed = m.owed - 1
      /\ m.table[i].state # "ASKING" => r.owed = m.owed
  BY <1>1, FlushedIs
<1> HIDE DEF m, r
<1>3. /\ n.table \in [N!Place -> Entries] /\ m.table \in [N!Place -> Entries]
      /\ n.owed \in Int /\ m.owed \in Int
      /\ Cardinality(Asking(n)) \in Nat /\ Cardinality(Asking(m)) \in Nat /\ Cardinality(Asking(r)) \in Nat
  BY <1>1, <1>2, AskingFinite DEF Resolvers
<1>4. N!Unused.state # "ASKING" /\ EntryOK(N!Unused)
  BY UnusedIs
<1>5. /\ m.table[i].state # "ASKING" => Cardinality(Asking(r)) = Cardinality(Asking(m))
      /\ m.table[i].state = "ASKING" => Cardinality(Asking(r)) = Cardinality(Asking(m)) - 1
  BY <1>1, <1>2, <1>4, Replaced
<1>6. ASSUME m.table = n.table, m.owed = n.owed - 1
      PROVE  /\ r.owed = Cardinality(Asking(r))
             /\ \A j \in N!Place : EntryOK(r.table[j])
  <2>1. Asking(m) = Asking(n)
    BY <1>6 DEF Asking
  <2>2. \A j \in N!Place : EntryOK(r.table[j])
    BY <1>2, <1>3, <1>4, <1>6
  <2>3. r.owed = m.owed
    BY <1>2, <1>6
  <2>. QED BY <1>3, <1>5, <1>6, <2>1, <2>2, <2>3
<1>7. ASSUME NEW p \in N!Place, NEW e \in Entries,
             n.table[p].state # "ASKING", m.table = [n.table EXCEPT ![p] = e],
             e.state = "ASKING", EntryOK(e), m.owed = n.owed
      PROVE  /\ r.owed = Cardinality(Asking(r))
             /\ \A j \in N!Place : EntryOK(r.table[j])
  <2>1. Cardinality(Asking(m)) = Cardinality(Asking(n)) + 1
    BY <1>1, <1>7, Replaced
  <2>2. \A j \in N!Place : EntryOK(r.table[j])
    BY <1>2, <1>3, <1>4, <1>7
  <2>. QED BY <1>2, <1>3, <1>5, <1>7, <2>1, <2>2
<1>8. /\ r.owed = Cardinality(Asking(r))
      /\ \A j \in N!Place : EntryOK(r.table[j])
  BY <1>1, <1>6, <1>7 DEF Called
<1>. QED BY <1>2, <1>8 DEF r, m

\* A lookup is given up: what its callback looks up gets another place, as its
\* own is still being asked for.
LEMMA LookupEnds ==
    ASSUME NEW n \in Resolvers, NEW i \in N!Place, NEW again \in AnyName, NEW out \in BOOLEAN,
           \A j \in N!Place \ {i} : EntryOK(n.table[j]),
           n.table[i].state = "ASKING", n.owed = Cardinality(Asking(n))
    PROVE  LET r == N!Freed(N!Found(n, again, out), i) IN
           /\ r \in Resolvers /\ r.owed = Cardinality(Asking(r))
           /\ \A j \in N!Place : EntryOK(r.table[j])
<1> DEFINE m == N!Found(n, again, out)
           r == N!Freed(m, i)
<1>1. Called(n, again, m) /\ m \in Resolvers
  <2>1. Called(n, again, m)
    BY FoundIs
  <2>. QED BY <2>1 DEF Called
<1>2. r \in Resolvers /\ r.table = [m.table EXCEPT ![i] = N!Unused] /\ r.owed = m.owed
  BY <1>1, PlaceFreedIs
<1> HIDE DEF m, r
<1>3. /\ n.table \in [N!Place -> Entries] /\ m.table \in [N!Place -> Entries]
      /\ n.owed \in Int /\ m.owed \in Int
      /\ Cardinality(Asking(n)) \in Nat /\ Cardinality(Asking(m)) \in Nat /\ Cardinality(Asking(r)) \in Nat
  BY <1>1, <1>2, AskingFinite DEF Resolvers
<1>4. N!Unused.state # "ASKING" /\ EntryOK(N!Unused)
  BY UnusedIs
<1>5. m.table[i].state = "ASKING" => Cardinality(Asking(r)) = Cardinality(Asking(m)) - 1
  BY <1>1, <1>2, <1>4, Replaced
<1>6. ASSUME m.table = n.table, m.owed = n.owed - 1
      PROVE  /\ r.owed = Cardinality(Asking(r))
             /\ \A j \in N!Place : EntryOK(r.table[j])
  <2>1. Asking(m) = Asking(n)
    BY <1>6 DEF Asking
  <2>2. \A j \in N!Place : EntryOK(r.table[j])
    BY <1>2, <1>3, <1>4, <1>6
  <2>. QED BY <1>2, <1>3, <1>5, <1>6, <2>1, <2>2
<1>7. ASSUME NEW p \in N!Place, NEW e \in Entries,
             n.table[p].state # "ASKING", m.table = [n.table EXCEPT ![p] = e],
             e.state = "ASKING", EntryOK(e), m.owed = n.owed
      PROVE  /\ r.owed = Cardinality(Asking(r))
             /\ \A j \in N!Place : EntryOK(r.table[j])
  <2>1. Cardinality(Asking(m)) = Cardinality(Asking(n)) + 1
    BY <1>1, <1>7, Replaced
  <2>2. \A j \in N!Place : EntryOK(r.table[j])
    BY <1>2, <1>3, <1>4, <1>7
  <2>3. m.table[i] = n.table[i]
    BY <1>3, <1>7
  <2>. QED BY <1>2, <1>3, <1>5, <1>7, <2>1, <2>2, <2>3
<1>8. /\ r.owed = Cardinality(Asking(r))
      /\ \A j \in N!Place : EntryOK(r.table[j])
  BY <1>1, <1>6, <1>7 DEF Called
<1>. QED BY <1>2, <1>8 DEF r, m

-----------------------------------------------------------------------------
(* The handlers keep the table in order.                                    *)

InOrder(n) ==
    n \in Resolvers /\ n.owed = Cardinality(Asking(n)) /\ \A i \in N!Place : EntryOK(n.table[i])

LEMMA EntryChanged ==
    ASSUME NEW n, InOrder(n), NEW i \in N!Place, NEW e \in Entries, EntryOK(e),
           e.state = "ASKING" <=> n.table[i].state = "ASKING",
           NEW m \in Resolvers, m.table = [n.table EXCEPT ![i] = e], m.owed = n.owed
    PROVE  InOrder(m)
<1>1. n \in Resolvers /\ n.table \in [N!Place -> Entries]
  BY DEF InOrder, Resolvers
<1>2. Cardinality(Asking(m)) = Cardinality(Asking(n))
  BY <1>1, Replaced
<1>3. \A j \in N!Place : EntryOK(m.table[j])
  BY <1>1 DEF InOrder
<1>. QED BY <1>2, <1>3 DEF InOrder

LEMMA LookupKeepsOrder ==
    ASSUME NEW n, InOrder(n), NEW name \in Names, NEW out \in BOOLEAN
    PROVE  InOrder(N!dns_gethostbyname(n, name, out))
<1> DEFINE r == N!dns_gethostbyname(n, name, out)
<1>1. n \in Resolvers /\ n.table \in [N!Place -> Entries] /\ Cardinality(Asking(n)) \in Nat
  BY AskingFinite DEF InOrder, Resolvers
<1>2. /\ r \in Resolvers
      /\ \/ r.table = n.table /\ r.owed = n.owed
         \/ \E p \in N!Place, e \in Entries :
              /\ n.table[p].state # "ASKING" /\ r.table = [n.table EXCEPT ![p] = e]
              /\ e.state = "ASKING" /\ e.name = name /\ EntryOK(e) /\ r.owed = n.owed + 1
  <2>1. n \in Resolvers
    BY <1>1
  <2>. QED BY <2>1, LookedUpName, ZenonT(40)
<1> HIDE DEF r
<1>3. CASE r.table = n.table /\ r.owed = n.owed
  <2>1. Asking(r) = Asking(n)
    BY <1>3 DEF Asking
  <2>2. r.owed = Cardinality(Asking(r))
    BY <1>3, <2>1 DEF InOrder
  <2>3. \A j \in N!Place : EntryOK(r.table[j])
    BY <1>3 DEF InOrder
  <2>4. InOrder(r)
    BY <1>2, <2>2, <2>3 DEF InOrder
  <2>. QED BY <2>4 DEF r
<1>4. ASSUME NEW p \in N!Place, NEW e \in Entries, n.table[p].state # "ASKING",
             r.table = [n.table EXCEPT ![p] = e], e.state = "ASKING", EntryOK(e), r.owed = n.owed + 1
      PROVE  InOrder(r)
  <2>1. Cardinality(Asking(r)) = Cardinality(Asking(n)) + 1
    BY <1>1, <1>2, <1>4, Replaced
  <2>2. \A j \in N!Place : EntryOK(r.table[j])
    BY <1>1, <1>4 DEF InOrder
  <2>. QED BY <1>2, <1>4, <2>1, <2>2 DEF InOrder
<1>. QED BY <1>2, <1>3, <1>4 DEF r

LEMMA AnswerKeepsOrder ==
    ASSUME NEW n, InOrder(n), NEW i \in N!Place, n.table[i].state = "ASKING",
           NEW found \in BOOLEAN, NEW ttl \in TTLS, NEW again \in AnyName, NEW out \in BOOLEAN
    PROVE  InOrder(N!dns_recv(n, i, IF found THEN n.last.name ELSE N!NoName, ttl, again, out))
<1> DEFINE ip == IF found THEN n.last.name ELSE N!NoName
           a == N!Answered(n, i, ip, ttl)
           e == [n.table[i] EXCEPT !.state = "DONE", !.ttl = ttl, !.ipaddr = ip]
           name == n.table[i].name
<1>1. n \in Resolvers /\ n.table \in [N!Place -> Entries] /\ n.table[i] \in Entries /\ Cardinality(Asking(n)) \in Nat /\ n.owed \in Int
  BY AskingFinite DEF InOrder, Resolvers
<1>2. n.last.name \in AnyName /\ N!NoName \in AnyName
  BY <1>1 DEF Resolvers, Queries, N!NoQuery, AnyName
<1>3. ip \in AnyName /\ (ip # N!NoName => ip = n.last.name)
  BY <1>2
<1> HIDE DEF ip
<1>4. e \in Entries /\ e.state = "DONE" /\ e.name = name /\ e.ttl = ttl /\ e.ipaddr = ip
      /\ e.retries = n.table[i].retries /\ e.numdns = n.table[i].numdns
  BY <1>1, <1>3 DEF Entries
<1> DEFINE t == [n.table EXCEPT ![i] = e]
<1>5. t \in [N!Place -> Entries] /\ t[i] = e
  BY <1>1, <1>4
<1>6. a = [n EXCEPT !.table = t]
  BY <1>1 DEF N!Answered, Resolvers, Entries
<1>7. t = [n.table EXCEPT ![i] = e]
  OBVIOUS
<1> HIDE DEF a, e, t
<1>8. a \in Resolvers /\ a.table = t /\ a.owed = n.owed
  BY <1>1, <1>5, <1>6 DEF Resolvers
<1>9. Cardinality(Asking(a)) = Cardinality(Asking(n)) - 1 /\ Cardinality(Asking(a)) \in Nat
  BY <1>1, <1>4, <1>7, <1>8, Replaced, AskingFinite
<1>10. a.owed = Cardinality(Asking(a)) + 1
  BY <1>1, <1>8, <1>9 DEF InOrder
<1>11. \A j \in N!Place \ {i} : EntryOK(a.table[j])
  BY <1>1, <1>7, <1>8 DEF InOrder
<1>12. CASE ip = N!NoName \/ n.last.name # name \/ ttl = 0
  <2>1. N!dns_recv(n, i, ip, ttl, again, out) = N!Flushed(N!Found(a, again, out), i)
    BY <1>4, <1>5, <1>8, <1>12 DEF N!dns_recv, a
  <2>2. a.table[i].state # "ASKING"
    BY <1>4, <1>5, <1>8
  <2>. QED BY <1>8, <1>10, <1>11, <2>1, <2>2, AnswerEnds DEF InOrder, ip
<1>13. CASE ~(ip = N!NoName \/ n.last.name # name \/ ttl = 0)
  <2> DEFINE r == N!Found(a, again, out)
  <2>1. N!dns_recv(n, i, ip, ttl, again, out) = r
    BY <1>13 DEF N!dns_recv, a
  <2>2. EntryOK(e)
    <3>1. EntryOK(n.table[i]) /\ ttl \in Nat
      BY DEF InOrder
    <3>2. ttl > 0 /\ e.ipaddr = e.name
      BY <1>3, <1>4, <1>13, <3>1
    <3>. QED BY <1>4, <3>1, <3>2 DEF EntryOK
  <2>3. \A j \in N!Place : EntryOK(a.table[j])
    BY <1>5, <1>8, <1>11, <2>2
  <2>4. Called(a, again, r) /\ r \in Resolvers
    <3>1. Called(a, again, r)
      BY <1>8, FoundIs
    <3>. QED BY <3>1 DEF Called
  <2> HIDE DEF r
  <2>5. ASSUME r.table = a.table, r.owed = a.owed - 1 PROVE InOrder(r)
    <3>1. Asking(r) = Asking(a)
      BY <2>5 DEF Asking
    <3>. QED BY <1>9, <1>10, <2>3, <2>4, <2>5, <3>1 DEF InOrder
  <2>6. ASSUME NEW p \in N!Place, NEW f \in Entries, a.table[p].state # "ASKING",
               r.table = [a.table EXCEPT ![p] = f], f.state = "ASKING", EntryOK(f), r.owed = a.owed
        PROVE  InOrder(r)
    <3>1. Cardinality(Asking(r)) = Cardinality(Asking(a)) + 1
      BY <1>8, <2>4, <2>6, Replaced
    <3>2. \A j \in N!Place : EntryOK(r.table[j])
      BY <1>5, <1>8, <2>3, <2>6
    <3>. QED BY <1>9, <1>10, <2>4, <2>6, <3>1, <3>2 DEF InOrder
  <2>7. InOrder(r)
    BY <2>4, <2>5, <2>6 DEF Called
  <2>. QED BY <2>1, <2>7 DEF ip
<1>. QED BY <1>12, <1>13

\* A second passes for an entry that is asked for: its try goes on, it is asked
\* again, of this server or the next, or it has been asked long enough.
LEMMA SecondKeepsOrder ==
    ASSUME NEW n, InOrder(n), NEW i \in N!Place, n.table[i].state = "ASKING",
           servers \in 1..DNS_MAX_SERVERS,
           NEW again \in AnyName, NEW out \in BOOLEAN
    PROVE  InOrder(N!CheckAsking(N!Older(n, i), i, again, out))
<1> DEFINE e == n.table[i]
           old == [e EXCEPT !.age = @ + 1]
           o == N!Older(n, i)
           p == N!Patience
<1>1. n \in Resolvers /\ n.table \in [N!Place -> Entries] /\ e \in Entries /\ n.owed \in Int
  BY DEF InOrder, Resolvers
<1>2. /\ e.age \in Nat /\ e.tmr \in Nat /\ e.retries \in Nat /\ e.numdns \in Nat
      /\ e.retries < DNS_MAX_RETRIES /\ e.numdns < DNS_MAX_SERVERS
      /\ e.tmr > 0 /\ e.tmr <= (IF e.retries = 0 THEN 1 ELSE e.retries)
      /\ e.age = e.numdns * p + Spent(e.retries, e.tmr)
  BY <1>1 DEF InOrder, EntryOK, Entries
<1>3. /\ old \in Entries /\ old.state = "ASKING" /\ old.name = e.name /\ old.age = e.age + 1
      /\ old.tmr = e.tmr /\ old.retries = e.retries /\ old.numdns = e.numdns
  BY <1>1, <1>2 DEF Entries
<1> HIDE DEF old
<1>4. o = [n EXCEPT !.table[i] = old]
  BY <1>1 DEF N!Older, Resolvers, Entries, old
<1> DEFINE t == [n.table EXCEPT ![i] = old]
<1>5. t \in [N!Place -> Entries] /\ t[i] = old
  BY <1>1, <1>3
<1>6. o = [n EXCEPT !.table = t]
  BY <1>1, <1>4 DEF Resolvers
<1>7. t = [n.table EXCEPT ![i] = old]
  OBVIOUS
<1> HIDE DEF t, o
<1>8. o \in Resolvers /\ o.table = t /\ o.owed = n.owed
  BY <1>1, <1>5, <1>6 DEF Resolvers
<1>9. p \in Nat /\ p = 1 + Tries(DNS_MAX_RETRIES) /\ Tries(e.retries) \in Nat
      /\ Tries(e.retries + 1) = Tries(e.retries) + e.retries
      /\ e.numdns * p \in Nat /\ (e.numdns + 1) * p = e.numdns * p + p
  <2>1. p \in Nat /\ p = 1 + Tries(DNS_MAX_RETRIES) /\ Tries(e.retries) \in Nat
        /\ Tries(e.retries + 1) = Tries(e.retries) + e.retries
    BY <1>2, PatienceIs, TriesSum
  <2> DEFINE q == e.numdns
  <2>2. q \in Nat
    BY <1>2
  <2> HIDE DEF q, p
  <2>3. q * p \in Nat /\ (q + 1) * p = q * p + p
    BY <2>1, <2>2
  <2>. QED BY <2>1, <2>3 DEF q, p
<1> HIDE DEF p
\* What the entry becomes: the lookup goes on with a new entry f.
<1>10. ASSUME NEW f \in Entries, EntryOK(f), f.state = "ASKING", NEW m \in Resolvers,
              m.table = [o.table EXCEPT ![i] = f], m.owed = o.owed
       PROVE  InOrder(m)
  <2>1. m.table = [n.table EXCEPT ![i] = f]
    BY <1>1, <1>7, <1>8, <1>10
  <2>. QED BY <1>8, <1>10, <2>1, EntryChanged
<1>11. CASE old.tmr > 1
  <2> DEFINE f == [old EXCEPT !.tmr = @ - 1]
             m == [o EXCEPT !.table[i].tmr = @ - 1]
             u == [o.table EXCEPT ![i] = f]
  <2>1. e.tmr - 1 \in Nat /\ e.retries # 0
    BY <1>2, <1>3, <1>11
  <2>2. /\ f \in Entries /\ f.state = "ASKING" /\ f.tmr = e.tmr - 1 /\ f.retries = e.retries
        /\ f.numdns = e.numdns /\ f.age = e.age + 1
    BY <1>3, <2>1 DEF Entries
  <2> HIDE DEF f
  <2>3. EntryOK(f)
    BY <1>2, <1>3, <1>9, <1>11, <2>1, <2>2 DEF EntryOK, Spent, p
  <2>4. u \in [N!Place -> Entries]
    BY <1>5, <1>8, <2>2
  <2>5. m = [o EXCEPT !.table = u]
    BY <1>5, <1>8 DEF f, Resolvers, Entries
  <2>6. u = [o.table EXCEPT ![i] = f]
    OBVIOUS
  <2> HIDE DEF u, m
  <2>7. m \in Resolvers /\ m.table = u /\ m.owed = o.owed
    BY <1>8, <2>4, <2>5 DEF Resolvers
  <2>8. N!CheckAsking(o, i, again, out) = m
    BY <1>5, <1>8, <1>11 DEF N!CheckAsking, m
  <2>. QED BY <1>10, <2>2, <2>3, <2>6, <2>7, <2>8 DEF o
<1>12. CASE ~(old.tmr > 1) /\ old.retries + 1 < DNS_MAX_RETRIES
  <2> DEFINE f == [old EXCEPT !.retries = @ + 1, !.tmr = old.retries + 1]
             m == [o EXCEPT !.table[i].retries = @ + 1, !.table[i].tmr = o.table[i].retries + 1]
             u == [o.table EXCEPT ![i] = f]
  <2>1. e.tmr = 1 /\ e.retries + 1 \in Nat
    BY <1>2, <1>3, <1>12
  <2>2. /\ f \in Entries /\ f.state = "ASKING" /\ f.tmr = e.retries + 1 /\ f.retries = e.retries + 1
        /\ f.numdns = e.numdns /\ f.age = e.age + 1
    BY <1>2, <1>3, <2>1 DEF Entries
  <2>3. u \in [N!Place -> Entries]
    BY <1>5, <1>8, <2>2
  <2>4. m = [o EXCEPT !.table = u]
    BY <1>5, <1>8 DEF Resolvers, Entries
  <2>5. u = [o.table EXCEPT ![i] = f]
    OBVIOUS
  <2> HIDE DEF f, u, m
  <2>6. EntryOK(f)
    <3>1. Spent(e.retries + 1, e.retries + 1) = 1 + Tries(e.retries + 1)
      BY <1>2, <1>9 DEF Spent
    <3>2. Spent(e.retries, e.tmr) + 1 = 1 + Tries(e.retries + 1)
      <4>1. CASE e.retries = 0
        <5>1. Tries(0) = 0
          BY DEF Tries
        <5>. QED BY <1>9, <4>1, <5>1 DEF Spent
      <4>2. CASE e.retries # 0
        <5>1. Spent(e.retries, e.tmr) = 1 + Tries(e.retries) + e.retries - e.tmr
          BY <4>2 DEF Spent
        <5>2. Tries(e.retries) \in Nat /\ Tries(e.retries + 1) = Tries(e.retries) + e.retries
          BY <1>9
        <5>3. e.retries \in Nat /\ e.tmr = 1
          BY <1>2, <2>1
        <5>. QED BY <5>1, <5>2, <5>3
      <4>. QED BY <4>1, <4>2
    <3>3. Spent(e.retries, e.tmr) \in Int
      BY <1>2, <1>9 DEF Spent
    <3>4. f.age = f.numdns * p + Spent(f.retries, f.tmr)
      BY <1>2, <1>9, <2>2, <3>1, <3>2, <3>3
    <3>5. f.tmr > 0 /\ f.tmr <= (IF f.retries = 0 THEN 1 ELSE f.retries)
      BY <1>2, <2>1, <2>2
    <3>6. f.retries < DNS_MAX_RETRIES /\ f.numdns < DNS_MAX_SERVERS
      BY <1>2, <1>3, <1>12, <2>2
    <3>. QED BY <2>2, <3>4, <3>5, <3>6 DEF EntryOK, p
  <2>7. m \in Resolvers /\ m.table = u /\ m.owed = o.owed
    BY <1>8, <2>3, <2>4 DEF Resolvers
  <2>8. N!CheckAsking(o, i, again, out) = N!Asked(m, i, out)
    BY <1>5, <1>8, <1>12 DEF N!CheckAsking, N!Retried, m
  <2> DEFINE r == N!Asked(m, i, out)
  <2>9. r \in Resolvers /\ r.table = m.table /\ r.owed = m.owed
    BY <2>7, AskedIs
  <2> HIDE DEF r
  <2>10. InOrder(r)
    BY <1>10, <2>2, <2>5, <2>6, <2>7, <2>9
  <2>. QED BY <2>8, <2>10 DEF o, r
<1>13. CASE ~(old.tmr > 1) /\ ~(old.retries + 1 < DNS_MAX_RETRIES) /\ old.numdns + 1 < servers
  <2> DEFINE f == [old EXCEPT !.numdns = @ + 1, !.tmr = 1, !.retries = 0]
             m == N!NextServer(o, i)
             u == [o.table EXCEPT ![i] = f]
  <2>1. /\ e.tmr = 1 /\ e.retries + 1 = DNS_MAX_RETRIES /\ e.numdns + 1 \in Nat
        /\ e.numdns + 1 < DNS_MAX_SERVERS
    BY <1>2, <1>3, <1>13
  <2>2. /\ f \in Entries /\ f.state = "ASKING" /\ f.tmr = 1 /\ f.retries = 0
        /\ f.numdns = e.numdns + 1 /\ f.age = e.age + 1
    BY <1>2, <1>3, <2>1 DEF Entries
  <2>3. u \in [N!Place -> Entries]
    BY <1>5, <1>8, <2>2
  <2>4. m = [o EXCEPT !.table = u]
    BY <1>5, <1>8 DEF N!NextServer, Resolvers, Entries
  <2>5. u = [o.table EXCEPT ![i] = f]
    OBVIOUS
  <2> HIDE DEF f, u, m
  <2>6. EntryOK(f)
    <3>1. Spent(0, 1) = 0
      BY DEF Spent
    <3>2. Spent(e.retries, e.tmr) + 1 = p
      BY <1>2, <1>9, <2>1 DEF Spent
    <3>3. e.age + 1 = (e.numdns + 1) * p + 0
      <4>1. Spent(e.retries, e.tmr) \in Int
        BY <1>2, <1>9 DEF Spent
      <4>. QED BY <1>2, <1>9, <3>2, <4>1
    <3>. QED BY <2>1, <2>2, <3>1, <3>3 DEF EntryOK, p
  <2>7. m \in Resolvers /\ m.table = u /\ m.owed = o.owed
    BY <1>8, <2>3, <2>4 DEF Resolvers
  <2>8. N!CheckAsking(o, i, again, out) = m
    BY <1>5, <1>8, <1>13 DEF N!CheckAsking, m
  <2>. QED BY <1>10, <2>2, <2>5, <2>6, <2>7, <2>8 DEF o
<1>14. CASE ~(old.tmr > 1) /\ ~(old.retries + 1 < DNS_MAX_RETRIES) /\ ~(old.numdns + 1 < servers)
  <2>1. N!CheckAsking(o, i, again, out) = N!Freed(N!Found(o, again, out), i)
    BY <1>5, <1>8, <1>14 DEF N!CheckAsking
  <2>2. Cardinality(Asking(o)) = Cardinality(Asking(n))
    BY <1>1, <1>3, <1>7, <1>8, Replaced
  <2>3. o.owed = Cardinality(Asking(o))
    BY <1>8, <2>2 DEF InOrder
  <2>4. \A j \in N!Place \ {i} : EntryOK(o.table[j])
    BY <1>1, <1>7, <1>8 DEF InOrder
  <2>5. o.table[i].state = "ASKING"
    BY <1>3, <1>5, <1>8
  <2> DEFINE r == N!Freed(N!Found(o, again, out), i)
  <2>6. r \in Resolvers /\ r.owed = Cardinality(Asking(r)) /\ \A j \in N!Place : EntryOK(r.table[j])
    BY <1>8, <2>3, <2>4, <2>5, LookupEnds
  <2> HIDE DEF r
  <2>7. InOrder(r)
    BY <2>6 DEF InOrder
  <2>. QED BY <2>1, <2>7 DEF o, r
<1>. QED BY <1>11, <1>12, <1>13, <1>14

\* A second passes for an answer that is kept.
LEMMA AgeingKeepsOrder ==
    ASSUME NEW n, InOrder(n), NEW i \in N!Place, n.table[i].state = "DONE"
    PROVE  InOrder(N!CheckDone(n, i))
<1> DEFINE e == n.table[i]
<1>1. n \in Resolvers /\ n.table \in [N!Place -> Entries] /\ e \in Entries /\ EntryOK(e)
  BY DEF InOrder, Resolvers
<1>2. CASE e.ttl <= 1
  <2> DEFINE m == N!Freed(n, i)
  <2>1. m \in Resolvers /\ m.table = [n.table EXCEPT ![i] = N!Unused] /\ m.owed = n.owed
    BY <1>1, PlaceFreedIs
  <2> HIDE DEF m
  <2>2. InOrder(m)
    BY <2>1, UnusedIs, EntryChanged
  <2>. QED BY <1>2, <2>2 DEF N!CheckDone, m
<1>3. CASE ~(e.ttl <= 1)
  <2> DEFINE f == [e EXCEPT !.ttl = @ - 1]
             m == [n EXCEPT !.table[i].ttl = @ - 1]
             u == [n.table EXCEPT ![i] = f]
  <2>1. e.ttl \in Nat /\ e.ttl - 1 \in Nat /\ e.ttl - 1 > 0
    BY <1>1, <1>3 DEF Entries
  <2>2. /\ f \in Entries /\ f.state = "DONE" /\ f.ttl > 0 /\ f.ipaddr = e.ipaddr /\ f.name = e.name
        /\ f.retries = e.retries /\ f.numdns = e.numdns
    BY <1>1, <2>1 DEF Entries
  <2>3. EntryOK(f)
    BY <1>1, <2>2 DEF EntryOK
  <2>4. u \in [N!Place -> Entries]
    BY <1>1, <2>2
  <2>5. m = [n EXCEPT !.table = u]
    BY <1>1 DEF Resolvers, Entries
  <2>6. u = [n.table EXCEPT ![i] = f]
    OBVIOUS
  <2> HIDE DEF f, u, m
  <2>7. m \in Resolvers /\ m.table = u /\ m.owed = n.owed
    BY <1>1, <2>4, <2>5 DEF Resolvers
  <2>8. InOrder(m)
    BY <2>2, <2>3, <2>6, <2>7, EntryChanged
  <2>. QED BY <1>3, <2>8 DEF N!CheckDone, m
<1>. QED BY <1>2, <1>3

LEMMA DnsInitially == N!Init => DnsInv
<1> SUFFICES ASSUME N!Init PROVE DnsInv
  OBVIOUS
<1> DEFINE t == [i \in N!Place |-> N!Unused]
<1>1. t \in [N!Place -> Entries] /\ N!NoQuery \in Queries /\ 0 \in 0..(SEQNOS - 1) /\ 0 \in Int
  BY UnusedIs DEF Queries
<1>2. dns = [table |-> t, seqno |-> 0, last |-> N!NoQuery, owed |-> 0]
  BY DEF N!Init
<1>3. \A i \in N!Place : t[i] = N!Unused
  OBVIOUS
<1> HIDE DEF t
<1>4. dns \in Resolvers /\ dns.table = t /\ dns.owed = 0
  BY <1>1, <1>2 DEF Resolvers
<1>5. Asking(dns) = {}
  BY <1>3, <1>4, UnusedIs DEF Asking, N!In
<1>6. Cardinality(Asking(dns)) = 0
  BY <1>5, FS_EmptySet
<1>7. \A i \in N!Place : EntryOK(dns.table[i])
  BY <1>3, <1>4, UnusedIs
<1>8. servers \in 1..DNS_MAX_SERVERS /\ entry \in 0..DNS_TABLE_SIZE /\ refused = FALSE
  BY DEF N!Init
<1>9. refused \in BOOLEAN
  BY <1>8
<1>. QED BY <1>4, <1>6, <1>7, <1>8, <1>9 DEF DnsInv, DnsTyped

LEMMA DnsInductive == DnsInv /\ [N!Next]_dnsVars => DnsInv'
<1> SUFFICES ASSUME DnsInv, [N!Next]_dnsVars PROVE DnsInv'
  OBVIOUS
<1>1. /\ dns \in Resolvers /\ dns.table \in [N!Place -> Entries] /\ InOrder(dns)
      /\ servers \in 1..DNS_MAX_SERVERS /\ entry \in 0..DNS_TABLE_SIZE
  BY DEF DnsInv, DnsTyped, InOrder, Resolvers
\* A handler that refuses nothing.
<1>2. ASSUME InOrder(dns'), servers' \in 1..DNS_MAX_SERVERS, entry' \in 0..DNS_TABLE_SIZE, refused' = FALSE
      PROVE  DnsInv'
  <2>1. refused' \in BOOLEAN
    BY <1>2
  <2>2. /\ dns' \in Resolvers /\ dns'.owed = Cardinality(Asking(dns'))
        /\ \A i \in N!Place : EntryOK(dns'.table[i])
    BY <1>2 DEF InOrder
  <2>. QED BY <1>2, <2>1, <2>2 DEF DnsInv, DnsTyped, Asking
<1>3. CASE N!dns_setserver
  <2>1. servers < DNS_MAX_SERVERS /\ servers' = servers + 1 /\ refused' = FALSE
    BY <1>3 DEF N!dns_setserver
  <2>2. dns' = dns /\ entry' = entry
    BY <1>3 DEF N!dns_setserver
  <2>3. servers' \in 1..DNS_MAX_SERVERS
    BY <1>1, <2>1
  <2>. QED BY <1>1, <1>2, <2>1, <2>2, <2>3
<1>4. CASE N!dns_tmr
  <2>1. entry' = 1 /\ refused' = FALSE
    BY <1>4 DEF N!dns_tmr
  <2>2. dns' = dns /\ servers' = servers
    BY <1>4 DEF N!dns_tmr
  <2>3. 1 \in 0..DNS_TABLE_SIZE
    OBVIOUS
  <2>. QED BY <1>1, <1>2, <2>1, <2>2, <2>3
<1>5. ASSUME NEW out \in BOOLEAN, NEW name \in Names, N!Lookup(name, out) PROVE DnsInv'
  <2>1. InOrder(dns')
    BY <1>1, <1>5, LookupKeepsOrder DEF N!Lookup
  <2>2. /\ dns' \in Resolvers /\ dns'.owed = Cardinality(Asking(dns'))
        /\ \A i \in N!Place : EntryOK(dns'.table[i])
    BY <2>1 DEF InOrder
  <2>3. servers' = servers /\ entry' = entry
    BY <1>5 DEF N!Lookup
  <2>4. refused' \in BOOLEAN
    BY <1>5 DEF N!Lookup
  <2>5. refused' => \E i \in N!Place : dns'.table[i].seqno >= dns'.seqno
    <3> SUFFICES ASSUME refused' PROVE \E i \in N!Place : dns'.table[i].seqno >= dns'.seqno
      OBVIOUS
    <3>1. N!PlaceFor(dns) = 0 /\ N!In(dns.table, "DONE") # {}
      BY <1>5 DEF N!Lookup
    <3>2. dns' = dns
      BY <1>5, <3>1 DEF N!Lookup, N!dns_gethostbyname, N!dns_enqueue
    <3>. QED BY <1>1, <3>1, <3>2, PlaceIs
  <2>. QED BY <1>1, <2>2, <2>3, <2>4, <2>5 DEF DnsInv, DnsTyped, Asking
<1>6. ASSUME NEW out \in BOOLEAN, NEW again \in Names \cup {N!NoName}, N!dns_check_entry(again, out)
      PROVE  DnsInv'
  <2>1. entry \in N!Place /\ again \in AnyName
    BY <1>1, <1>6 DEF N!dns_check_entry, N!Place, AnyName
  <2>2. ((entry + 1) % (DNS_TABLE_SIZE + 1)) \in 0..DNS_TABLE_SIZE
    BY <1>1
  <2>3. servers' = servers /\ refused' = FALSE /\ entry' \in 0..DNS_TABLE_SIZE
    BY <1>6, <2>2 DEF N!dns_check_entry
  <2>4. CASE dns.table[entry].state = "ASKING"
    <3>1. dns' = N!CheckAsking(N!Older(dns, entry), entry, again, out)
      BY <1>6, <2>4 DEF N!dns_check_entry
    <3>2. InOrder(dns')
      BY <1>1, <2>1, <2>4, <3>1, SecondKeepsOrder
    <3>. QED BY <1>1, <1>2, <2>3, <3>2
  <2>5. CASE dns.table[entry].state = "DONE"
    <3>1. dns' = N!CheckDone(dns, entry)
      BY <1>6, <2>5 DEF N!dns_check_entry
    <3>2. InOrder(dns')
      BY <1>1, <2>1, <2>5, <3>1, AgeingKeepsOrder
    <3>. QED BY <1>1, <1>2, <2>3, <3>2
  <2>6. CASE dns.table[entry].state \notin {"ASKING", "DONE"}
    <3>1. dns' = dns
      BY <1>6, <2>6 DEF N!dns_check_entry
    <3>. QED BY <1>1, <1>2, <2>3, <3>1
  <2>. QED BY <2>4, <2>5, <2>6
<1>7. ASSUME NEW out \in BOOLEAN, NEW again \in Names \cup {N!NoName}, NEW found \in BOOLEAN, NEW ttl \in TTLS,
             N!Recv(found, ttl, again, out)
      PROVE  DnsInv'
  <2> DEFINE i == dns.last.place
  <2>1. dns.last # N!NoQuery /\ dns.last \in Queries
    BY <1>1, <1>7 DEF N!Recv, Resolvers
  <2>2. i \in N!Place /\ again \in AnyName
    BY <2>1 DEF Queries, AnyName
  <2>3. /\ dns.table[i].state = "ASKING"
        /\ dns' = N!dns_recv(dns, i, IF found THEN dns.last.name ELSE N!NoName, ttl, again, out)
        /\ refused' = FALSE /\ servers' = servers /\ entry' = entry
    BY <1>7 DEF N!Recv
  <2> HIDE DEF i
  <2>4. InOrder(dns')
    BY <1>1, <2>2, <2>3, AnswerKeepsOrder
  <2>. QED BY <1>1, <1>2, <2>3, <2>4
<1>8. CASE UNCHANGED dnsVars
  BY <1>8 DEF dnsVars, DnsInv, DnsTyped, Asking
<1>. QED BY <1>3, <1>4, <1>5, <1>6, <1>7, <1>8 DEF N!Next

LEMMA DnsAlone == [MCNext]_mcVars => [N!Next]_dnsVars
  BY DEF MCNext, Others, mcVars

\* Each lookup that was accepted gets its one callback, within the time the
\* servers may take, but for one that a callback makes and that gets the very
\* place dns_recv frees after it; what is kept is the address of its own name
\* and has time to live; and a lookup is refused only when every place is being
\* asked for, unless dns_seqno has wrapped (dns_enqueue, dns_recv,
\* dns_check_entry).
THEOREM LookupsAreSound == MCSpec => []LookupsSound
<1>1. MCInit => DnsInv
  <2>1. MCInit => N!Init
    BY DEF MCInit
  <2>. QED BY <2>1, DnsInitially
<1>2. DnsInv /\ [MCNext]_mcVars => DnsInv'
  BY DnsAlone, DnsInductive
<1>3. DnsInv => LookupsSound
  <2> SUFFICES ASSUME DnsInv PROVE N!TypeOK /\ N!LookupsSound
    BY DEF LookupsSound
  <2>1. dns \in Resolvers /\ \A i \in N!Place : EntryOK(dns.table[i]) /\ dns.table[i] \in Entries
    BY DEF DnsInv, DnsTyped, Resolvers
  <2>2. dns.last.place \in 0..DNS_TABLE_SIZE /\ dns.seqno \in 0..(SEQNOS - 1)
    <3>1. dns.last \in Queries
      BY <2>1 DEF Resolvers
    <3>. QED BY <2>1, <3>1 DEF Resolvers, Queries, N!NoQuery, N!Place
  <2>3. dns.owed = Cardinality(N!In(dns.table, "ASKING")) /\ dns.owed \in 0..DNS_TABLE_SIZE
    BY <2>1, AskingFinite DEF DnsInv, Asking
  <2>4. N!TypeOK
    BY <2>1, <2>2, <2>3 DEF N!TypeOK, EntryOK
  <2>5. \A i \in N!In(dns.table, "ASKING") :
          dns.table[i].tmr > 0 /\ dns.table[i].age < N!Patience * DNS_MAX_SERVERS
    BY <2>1, StillPatient DEF EntryOK, N!In
  <2>6. \A i \in N!In(dns.table, "DONE") : dns.table[i].ipaddr = dns.table[i].name /\ dns.table[i].ttl > 0
    BY <2>1 DEF EntryOK, N!In
  <2>7. refused => \E i \in N!Place : dns.table[i].seqno >= dns.seqno
    BY DEF DnsInv
  <2>8. N!Cardinality(N!In(dns.table, "ASKING")) = Cardinality(N!In(dns.table, "ASKING"))
    BY Zenon DEF N!Cardinality, Cardinality
  <2>9. N!LookupsSound
    BY <2>3, <2>5, <2>6, <2>7, <2>8 DEF N!LookupsSound
  <2>. QED BY <2>4, <2>9
<1>. QED BY <1>1, <1>2, <1>3, PTL DEF MCSpec

HIDE DnsNumbers

-----------------------------------------------------------------------------
(* Group membership.                                                        *)

LEMMA IgmpNumbers ==
    /\ G!allsystems \notin GROUPS /\ NETIFS \in Nat \ {0} /\ JOINS \in Nat \ {0}
    /\ MAXRESP \subseteq Nat
    /\ IGMP_V1_DELAYING_MEMBER_TMR \in Nat \ {0} /\ IGMP_JOIN_DELAYING_MEMBER_TMR \in Nat \ {0}
  BY PartsAssumption DEF G!IgmpAssumption

Members ==
    [group_state : {"NULL", "DELAYING_MEMBER", "IDLE_MEMBER"}, timer : Nat,
     last_reporter_flag : {0, 1}, use : 0..JOINS]
Knowledge == [reporter : {"none", "us", "other"}, due : Nat \cup {G!Never}, lost : BOOLEAN]

\* What the list and the network keep of a group on a netif: the timer of a
\* member that is asked runs out no later than the query, and the flag says
\* whether the network heard of the group from this host last.
MemberOK(e, r) ==
    /\ e \in Members /\ r \in Knowledge
    /\ e.group_state = "NULL" => e = G!NULL /\ (r.reporter = "us" => r.lost = TRUE)
    /\ e.group_state # "NULL" => e.use > 0 /\ (e.last_reporter_flag = 1 <=> r.reporter = "us")
    /\ e.timer > 0 => e.group_state = "DELAYING_MEMBER"
    /\ e.group_state = "IDLE_MEMBER" => e.last_reporter_flag = 0
    /\ r.due # 0 /\ (r.due > 0 => e.timer \in 1..r.due)
\* Nobody joins the all systems group, so it is new whenever it is not listed.
PlaceOK(p) ==
    /\ MemberOK(igmp_group_list[p], router[p])
    /\ p \in mac_filter <=> igmp_group_list[p].use > 0
    /\ p[2] = G!allsystems /\ igmp_group_list[p].group_state = "NULL" => router[p] = G!NoRouter
IgmpInv ==
    /\ igmp_group_list = [p \in G!Places |-> igmp_group_list[p]]
    /\ router = [p \in G!Places |-> router[p]]
    /\ mac_filter \subseteq G!Places
    /\ \A p \in G!Places : PlaceOK(p)

LEMMA Pair ==
    ASSUME NEW p \in G!Places
    PROVE  p = <<p[1], p[2]>> /\ p[1] \in G!Netifs /\ p[2] \in GROUPS \cup {G!allsystems}
  BY DEF G!Places

LEMMA NullIs ==
    /\ G!NULL \in Members /\ G!NULL.group_state = "NULL" /\ G!NULL.timer = 0 /\ G!NULL.use = 0
    /\ G!NULL.last_reporter_flag = 0 /\ [G!NULL EXCEPT !.timer = 0] = G!NULL
    /\ G!NoRouter \in Knowledge /\ G!NoRouter.due = G!Never /\ G!NoRouter.reporter = "none"
    /\ G!Never = -1
  BY IgmpNumbers DEF G!NULL, Members, G!NoRouter, Knowledge, G!Never

LEMMA NewIsOK == MemberOK(G!NULL, G!NoRouter)
  BY NullIs DEF MemberOK

LEMMA TimesAre ==
    ASSUME NEW m \in Nat, NEW t \in G!Times(m)
    PROVE  t \in Nat /\ t >= 1 /\ t <= (IF m = 0 THEN 1 ELSE m)
  BY DEF G!Times

LEMMA IgmpInitially == G!Init => IgmpInv
<1> SUFFICES ASSUME G!Init PROVE IgmpInv
  OBVIOUS
<1>1. \A p \in G!Places : igmp_group_list[p] = G!NULL /\ router[p] = G!NoRouter /\ p \notin mac_filter
  BY DEF G!Init
<1>2. igmp_group_list = [p \in G!Places |-> igmp_group_list[p]] /\ router = [p \in G!Places |-> router[p]]
  BY DEF G!Init
<1>3. \A p \in G!Places : PlaceOK(p)
  BY <1>1, NewIsOK, NullIs DEF PlaceOK
<1>4. mac_filter \subseteq G!Places
  BY DEF G!Init
<1>. QED BY <1>2, <1>3, <1>4 DEF IgmpInv

-----------------------------------------------------------------------------
(* One group on one netif.                                                  *)

\* A query, or a netif that comes up: due may be set to the time it allows.
LEMMA AskedMember ==
    ASSUME NEW e, NEW r, MemberOK(e, r), NEW m \in Nat, NEW t \in G!Times(m), e.group_state # "NULL"
    PROVE  LET d == G!igmp_delaying_member(e, m, t)
               w == IF m = 0 THEN 1 ELSE m IN
           /\ d.use = e.use /\ d.group_state # "NULL"
           /\ MemberOK(d, [r EXCEPT !.due = G!Sooner(@, w)])
           /\ m > 0 => MemberOK(d, r)
<1> DEFINE d == G!igmp_delaying_member(e, m, t)
           w == IF m = 0 THEN 1 ELSE m
           a == [r EXCEPT !.due = G!Sooner(@, w)]
<1>1. e \in Members /\ r \in Knowledge /\ e.timer \in Nat /\ r.due \in Nat \cup {-1}
  BY NullIs DEF MemberOK, Members, Knowledge
<1>2. t \in Nat /\ t >= 1 /\ t <= w /\ w \in Nat /\ w >= 1
  BY TimesAre
<1>3. /\ a \in Knowledge /\ a.reporter = r.reporter /\ a.lost = r.lost
      /\ a.due > 0 /\ a.due = G!Sooner(r.due, w)
  <2>1. G!Sooner(r.due, w) \in Nat /\ G!Sooner(r.due, w) > 0
    BY <1>1, <1>2, NullIs DEF G!Sooner, MemberOK
  <2>. QED BY <1>1, <2>1 DEF Knowledge
<1>4. CASE \/ e.group_state = "IDLE_MEMBER"
           \/ e.group_state = "DELAYING_MEMBER" /\ (e.timer = 0 \/ m < e.timer)
  <2>1. d = [e EXCEPT !.timer = t, !.group_state = "DELAYING_MEMBER"]
    BY <1>4 DEF G!igmp_delaying_member
  <2>2. /\ d \in Members /\ d.timer = t /\ d.group_state = "DELAYING_MEMBER" /\ d.use = e.use
        /\ d.last_reporter_flag = e.last_reporter_flag
    BY <1>1, <1>2, <2>1 DEF Members
  <2> HIDE DEF d, a
  <2>3. t <= a.due
    BY <1>1, <1>2, <1>3, <1>4, NullIs DEF G!Sooner, MemberOK
  <2>4. m > 0 /\ r.due > 0 => t <= r.due
    BY <1>1, <1>2, <1>4 DEF MemberOK
  <2>5. a.due \in Nat
    BY <1>3, NullIs DEF Knowledge
  <2>6. MemberOK(d, a)
    BY <1>1, <1>2, <1>3, <2>2, <2>3, <2>5 DEF MemberOK
  <2>7. m > 0 => MemberOK(d, r)
    BY <1>1, <1>2, <2>2, <2>4 DEF MemberOK
  <2>. QED BY <2>2, <2>6, <2>7 DEF d, a
<1>5. CASE ~(\/ e.group_state = "IDLE_MEMBER"
             \/ e.group_state = "DELAYING_MEMBER" /\ (e.timer = 0 \/ m < e.timer))
  <2>1. d = e
    BY <1>5 DEF G!igmp_delaying_member
  <2>2. e.timer > 0 /\ e.timer <= m /\ e.group_state = "DELAYING_MEMBER"
    BY <1>1, <1>5 DEF Members
  <2> HIDE DEF d, a
  <2>3. e.timer <= a.due /\ a.due \in Nat
    BY <1>1, <1>2, <1>3, <2>2, NullIs DEF G!Sooner, MemberOK
  <2>4. MemberOK(d, a)
    BY <1>1, <1>3, <2>1, <2>2, <2>3 DEF MemberOK
  <2>. QED BY <2>1, <2>2, <2>4 DEF d, a
<1>. QED BY <1>4, <1>5

\* A tick: a timer that runs out makes the report, if there is memory for it.
LEMMA TickedMember ==
    ASSUME NEW e, NEW r, MemberOK(e, r), NEW s,
           e.timer = 1 /\ e.group_state = "DELAYING_MEMBER" => s \in BOOLEAN
    PROVE  LET o == [e EXCEPT !.timer = IF @ > 0 THEN @ - 1 ELSE 0]
               a == [r EXCEPT !.due = IF @ > 0 THEN @ - 1 ELSE @]
               fires == e.timer = 1 /\ e.group_state = "DELAYING_MEMBER" IN
           /\ fires => /\ G!Reported(o, s).use = e.use /\ G!Reported(o, s).group_state = e.group_state
                       /\ MemberOK(G!Reported(o, s), G!Heard(r, s))
           /\ ~fires => /\ o.use = e.use /\ o.group_state = e.group_state /\ MemberOK(o, a)
                        /\ e.group_state = "NULL" => a = r
<1> DEFINE o == [e EXCEPT !.timer = IF @ > 0 THEN @ - 1 ELSE 0]
           fires == e.timer = 1 /\ e.group_state = "DELAYING_MEMBER"
<1>1. e \in Members /\ r \in Knowledge /\ e.timer \in Nat /\ r.due \in Nat \cup {-1} /\ G!Never = -1
  BY NullIs DEF MemberOK, Members, Knowledge
<1>2. /\ o \in Members /\ o.timer = (IF e.timer > 0 THEN e.timer - 1 ELSE 0) /\ o.group_state = e.group_state
      /\ o.use = e.use /\ o.last_reporter_flag = e.last_reporter_flag
  BY <1>1 DEF Members
<1> HIDE DEF o
<1>3. ASSUME fires
      PROVE  /\ G!Reported(o, s).use = e.use /\ G!Reported(o, s).group_state = e.group_state
             /\ MemberOK(G!Reported(o, s), G!Heard(r, s))
  <2> DEFINE d == G!Reported(o, s)
             a == G!Heard(r, s)
  <2>2. /\ d \in Members /\ d.timer = 0 /\ d.group_state = e.group_state /\ d.use = e.use
        /\ d.last_reporter_flag = IF s THEN 1 ELSE e.last_reporter_flag
    BY <1>1, <1>2, <1>3 DEF G!Reported, Members
  <2>3. /\ a \in Knowledge /\ a.due = -1 /\ a.reporter = IF s THEN "us" ELSE r.reporter
    BY <1>1 DEF G!Heard, Knowledge
  <2> HIDE DEF d, a
  <2>4. MemberOK(d, a)
    BY <1>1, <1>3, <2>2, <2>3 DEF MemberOK
  <2>. QED BY <2>2, <2>4 DEF d, a
<1>4. ASSUME ~fires
      PROVE  /\ o.use = e.use /\ o.group_state = e.group_state
             /\ MemberOK(o, [r EXCEPT !.due = IF @ > 0 THEN @ - 1 ELSE @])
             /\ e.group_state = "NULL" => [r EXCEPT !.due = IF @ > 0 THEN @ - 1 ELSE @] = r
  <2> DEFINE a == [r EXCEPT !.due = IF @ > 0 THEN @ - 1 ELSE @]
  <2>2. /\ a \in Knowledge /\ a.due = (IF r.due > 0 THEN r.due - 1 ELSE r.due)
        /\ a.reporter = r.reporter /\ a.lost = r.lost
    BY <1>1 DEF Knowledge
  <2>3. e.group_state = "NULL" => o = e /\ a = r
    <3> SUFFICES ASSUME e.group_state = "NULL" PROVE o = e /\ a = r
      OBVIOUS
    <3>1. e = G!NULL /\ r.due = -1
      BY <1>1, NullIs DEF MemberOK
    <3>2. o = e
      BY <3>1 DEF o, G!NULL
    <3>3. a = r
      BY <1>1, <3>1 DEF Knowledge
    <3>. QED BY <3>2, <3>3
  <2>4. e.timer > 1 \/ e.timer = 0
    BY <1>1, <1>4 DEF MemberOK
  <2> HIDE DEF a
  <2>5. MemberOK(o, a)
    BY <1>1, <1>2, <2>2, <2>3, <2>4 DEF MemberOK
  <2>. QED BY <1>2, <2>3, <2>5 DEF a
<1>. QED BY <1>3, <1>4 DEF o

-----------------------------------------------------------------------------
(* The groups' handlers.                                                    *)

\* A handler changes the list and what the network knows place by place.
LEMMA Assembled ==
    ASSUME IgmpInv, NEW l, NEW k,
           igmp_group_list' = [p \in G!Places |-> l[p]], router' = [p \in G!Places |-> k[p]],
           mac_filter' \subseteq G!Places,
           \A p \in G!Places :
             /\ MemberOK(l[p], k[p])
             /\ p \in mac_filter' <=> l[p].use > 0
             /\ p[2] = G!allsystems /\ l[p].group_state = "NULL" => k[p] = G!NoRouter
    PROVE  IgmpInv'
<1>1. \A p \in G!Places : igmp_group_list'[p] = l[p] /\ router'[p] = k[p]
  OBVIOUS
<1>2. /\ igmp_group_list' = [p \in G!Places |-> igmp_group_list'[p]]
      /\ router' = [p \in G!Places |-> router'[p]]
  BY <1>1
<1>3. \A p \in G!Places : PlaceOK(p)'
  BY <1>1 DEF PlaceOK
<1>. QED BY <1>2, <1>3 DEF IgmpInv

LEMMA PlaceIsOK ==
    ASSUME IgmpInv, NEW p \in G!Places
    PROVE  /\ MemberOK(igmp_group_list[p], router[p]) /\ igmp_group_list[p] \in Members
           /\ router[p] \in Knowledge /\ igmp_group_list[p].use \in 0..JOINS
           /\ p \in mac_filter <=> igmp_group_list[p].use > 0
           /\ igmp_group_list[p].group_state = "NULL" <=> igmp_group_list[p].use = 0
           /\ p[2] = G!allsystems /\ igmp_group_list[p].group_state = "NULL" => router[p] = G!NoRouter
  BY NullIs DEF IgmpInv, PlaceOK, MemberOK, Members

\* A query is answered, if at all, in time: of the groups asked for that are
\* listed.
LEMMA DelayingKeeps ==
    ASSUME IgmpInv, NEW asked \in SUBSET G!Places, NEW m \in Nat, G!Delaying(asked, m),
           \A p \in asked : igmp_group_list[p].group_state # "NULL",
           \/ G!Asked(asked, IF m = 0 THEN 1 ELSE m)
           \/ m > 0 /\ UNCHANGED router
    PROVE  IgmpInv'
<1> DEFINE w == IF m = 0 THEN 1 ELSE m
<1>1. PICK t \in [asked -> G!Times(m)] :
         igmp_group_list' = [p \in G!Places |->
           IF p \in asked THEN G!igmp_delaying_member(igmp_group_list[p], m, t[p]) ELSE igmp_group_list[p]]
  BY DEF G!Delaying
<1> DEFINE l == [p \in G!Places |->
             IF p \in asked THEN G!igmp_delaying_member(igmp_group_list[p], m, t[p]) ELSE igmp_group_list[p]]
<1>2. mac_filter' = mac_filter /\ mac_filter' \subseteq G!Places
  BY DEF G!Delaying, IgmpInv
<1>3. igmp_group_list' = [p \in G!Places |-> l[p]]
  BY <1>1
<1>4. \A p \in asked : LET d == G!igmp_delaying_member(igmp_group_list[p], m, t[p]) IN
         /\ d.use = igmp_group_list[p].use /\ d.group_state # "NULL"
         /\ MemberOK(d, [router[p] EXCEPT !.due = G!Sooner(@, w)])
         /\ m > 0 => MemberOK(d, router[p])
  <2> SUFFICES ASSUME NEW p \in asked
               PROVE  LET d == G!igmp_delaying_member(igmp_group_list[p], m, t[p]) IN
                      /\ d.use = igmp_group_list[p].use /\ d.group_state # "NULL"
                      /\ MemberOK(d, [router[p] EXCEPT !.due = G!Sooner(@, w)])
                      /\ m > 0 => MemberOK(d, router[p])
    OBVIOUS
  <2>1. MemberOK(igmp_group_list[p], router[p]) /\ t[p] \in G!Times(m)
    BY PlaceIsOK
  <2>. QED BY <2>1, AskedMember
<1>5. \A p \in G!Places :
        /\ p \in asked => /\ l[p].use = igmp_group_list[p].use /\ l[p].group_state # "NULL"
                          /\ MemberOK(l[p], [router[p] EXCEPT !.due = G!Sooner(@, w)])
                          /\ m > 0 => MemberOK(l[p], router[p])
        /\ p \notin asked => l[p] = igmp_group_list[p]
  BY <1>4
<1> HIDE DEF l
<1>6. CASE m > 0 /\ UNCHANGED router
  <2>1. router' = [p \in G!Places |-> router[p]]
    BY <1>6 DEF IgmpInv
  <2>2. \A p \in G!Places :
          /\ MemberOK(l[p], router[p])
          /\ p \in mac_filter' <=> l[p].use > 0
          /\ p[2] = G!allsystems /\ l[p].group_state = "NULL" => router[p] = G!NoRouter
    BY <1>2, <1>5, <1>6, PlaceIsOK
  <2>. QED BY <1>2, <1>3, <2>1, <2>2, Assembled
<1>7. CASE G!Asked(asked, w)
  <2> DEFINE k == [p \in G!Places |->
              IF p \in asked THEN [router[p] EXCEPT !.due = G!Sooner(@, w)] ELSE router[p]]
  <2>1. router' = [p \in G!Places |-> k[p]]
    BY <1>7 DEF G!Asked
  <2>2. \A p \in G!Places : /\ p \in asked => k[p] = [router[p] EXCEPT !.due = G!Sooner(@, w)]
                            /\ p \notin asked => k[p] = router[p]
    OBVIOUS
  <2> HIDE DEF k
  <2>3. \A p \in G!Places :
          /\ MemberOK(l[p], k[p])
          /\ p \in mac_filter' <=> l[p].use > 0
          /\ p[2] = G!allsystems /\ l[p].group_state = "NULL" => k[p] = G!NoRouter
    BY <1>2, <1>5, <2>2, PlaceIsOK
  <2>. QED BY <1>2, <1>3, <2>1, <2>3, Assembled
<1>. QED BY <1>6, <1>7

LEMMA ListedIs ==
    ASSUME NEW p \in G!Places
    PROVE  G!Listed(igmp_group_list, p[1], p[2]) <=> igmp_group_list[p].group_state # "NULL"
  BY Pair DEF G!Listed

LEMMA QueriesKeep ==
    ASSUME IgmpInv, NEW n \in G!Netifs
    PROVE  /\ G!igmp_report_groups(n) => IgmpInv'
           /\ \A m \in MAXRESP : G!GeneralQuery(n, m) => IgmpInv'
           /\ \A m \in MAXRESP, g \in GROUPS : G!GroupQuery(n, g, m) => IgmpInv'
<1>1. ASSUME G!igmp_report_groups(n) PROVE IgmpInv'
  <2> DEFINE asked == {p \in G!Places : p[1] = n /\ G!Listed(igmp_group_list, n, p[2])}
  <2>1. \A p \in asked : igmp_group_list[p].group_state # "NULL"
    BY ListedIs
  <2>2. G!Delaying(asked, IGMP_JOIN_DELAYING_MEMBER_TMR) /\ UNCHANGED router
    BY <1>1 DEF G!igmp_report_groups
  <2>3. asked \in SUBSET G!Places
    OBVIOUS
  <2> HIDE DEF asked
  <2>. QED BY <2>1, <2>2, <2>3, DelayingKeeps, IgmpNumbers
<1>2. ASSUME NEW i \in MAXRESP, G!GeneralQuery(n, i) PROVE IgmpInv'
  <2> DEFINE m == IF i = 0 THEN IGMP_V1_DELAYING_MEMBER_TMR ELSE i
             asked == {p \in G!Places : p[1] = n /\ p[2] # G!allsystems /\ G!Listed(igmp_group_list, n, p[2])}
  <2>1. m \in Nat /\ m > 0
    BY IgmpNumbers
  <2>2. \A p \in asked : igmp_group_list[p].group_state # "NULL"
    BY ListedIs
  <2>3. G!Delaying(asked, m) /\ G!Asked(asked, m)
    BY <1>2 DEF G!GeneralQuery
  <2>4. asked \in SUBSET G!Places
    OBVIOUS
  <2> HIDE DEF asked, m
  <2>5. m = IF m = 0 THEN 1 ELSE m
    BY <2>1
  <2>6. G!Asked(asked, IF m = 0 THEN 1 ELSE m)
    BY <2>3, <2>5
  <2>. QED BY <2>1, <2>2, <2>3, <2>4, <2>6, DelayingKeeps
<1>3. ASSUME NEW m \in MAXRESP, NEW g \in GROUPS, G!GroupQuery(n, g, m) PROVE IgmpInv'
  <2>1. <<n, g>> \in G!Places /\ m \in Nat
    BY IgmpNumbers DEF G!Places
  <2>2. igmp_group_list[<<n, g>>].group_state # "NULL"
    BY <1>3 DEF G!GroupQuery, G!Listed
  <2>3. G!Delaying({<<n, g>>}, m) /\ G!Asked({<<n, g>>}, IF m = 0 THEN 1 ELSE m)
    BY <1>3 DEF G!GroupQuery
  <2>. QED BY <2>1, <2>2, <2>3, DelayingKeeps
<1>. QED BY <1>1, <1>2, <1>3

LEMMA TickKeeps == ASSUME IgmpInv, G!igmp_tmr PROVE IgmpInv'
<1> DEFINE fires == G!Due
           older(p) == [igmp_group_list[p] EXCEPT !.timer = IF @ > 0 THEN @ - 1 ELSE 0]
<1>1. PICK s \in [fires -> BOOLEAN] :
        /\ igmp_group_list' = [p \in G!Places |-> IF p \in fires THEN G!Reported(older(p), s[p]) ELSE older(p)]
        /\ router' = [p \in G!Places |->
             IF p \in fires THEN G!Heard(router[p], s[p])
             ELSE [router[p] EXCEPT !.due = IF @ > 0 THEN @ - 1 ELSE @]]
        /\ mac_filter' = mac_filter
  BY DEF G!igmp_tmr
<1> DEFINE l == [p \in G!Places |-> IF p \in fires THEN G!Reported(older(p), s[p]) ELSE older(p)]
           k == [p \in G!Places |->
             IF p \in fires THEN G!Heard(router[p], s[p])
             ELSE [router[p] EXCEPT !.due = IF @ > 0 THEN @ - 1 ELSE @]]
<1>2. \A p \in G!Places :
        /\ l[p].use = igmp_group_list[p].use /\ l[p].group_state = igmp_group_list[p].group_state
        /\ MemberOK(l[p], k[p])
        /\ igmp_group_list[p].group_state = "NULL" => k[p] = router[p]
  <2> TAKE p \in G!Places
  <2>1. MemberOK(igmp_group_list[p], router[p])
    BY PlaceIsOK
  <2>2. p \in fires <=> igmp_group_list[p].timer = 1 /\ igmp_group_list[p].group_state = "DELAYING_MEMBER"
    BY DEF G!Due
  <2>3. CASE p \in fires
    <3>1. l[p] = G!Reported(older(p), s[p]) /\ k[p] = G!Heard(router[p], s[p])
      BY <2>3
    <3>2. /\ igmp_group_list[p].timer = 1 /\ igmp_group_list[p].group_state = "DELAYING_MEMBER"
          /\ s[p] \in BOOLEAN
      BY <2>2, <2>3
    <3> HIDE DEF l, k, fires
    <3>3. /\ G!Reported(older(p), s[p]).use = igmp_group_list[p].use
          /\ G!Reported(older(p), s[p]).group_state = igmp_group_list[p].group_state
          /\ MemberOK(G!Reported(older(p), s[p]), G!Heard(router[p], s[p]))
      BY <2>1, <3>2, TickedMember
    <3>. QED BY <3>1, <3>2, <3>3
  <2>4. CASE p \notin fires
    <3>1. l[p] = older(p) /\ k[p] = [router[p] EXCEPT !.due = IF @ > 0 THEN @ - 1 ELSE @]
      BY <2>4
    <3>2. ~(igmp_group_list[p].timer = 1 /\ igmp_group_list[p].group_state = "DELAYING_MEMBER")
      BY <2>2, <2>4
    <3>3. igmp_group_list[p].timer = 1 /\ igmp_group_list[p].group_state = "DELAYING_MEMBER" => s[p] \in BOOLEAN
      BY <3>2
    <3> HIDE DEF l, k, fires
    <3>. QED BY <2>1, <3>1, <3>2, <3>3, TickedMember
  <2>. QED BY <2>3, <2>4
<1>3. igmp_group_list' = [p \in G!Places |-> l[p]] /\ router' = [p \in G!Places |-> k[p]]
  BY <1>1
<1>4. mac_filter' \subseteq G!Places
  BY <1>1 DEF IgmpInv
<1> HIDE DEF l, k
<1>5. \A p \in G!Places :
        /\ MemberOK(l[p], k[p])
        /\ p \in mac_filter' <=> l[p].use > 0
        /\ p[2] = G!allsystems /\ l[p].group_state = "NULL" => k[p] = G!NoRouter
  BY <1>1, <1>2, PlaceIsOK
<1>. QED BY <1>3, <1>4, <1>5, Assembled

LEMMA ReportKeeps == ASSUME IgmpInv, NEW n \in G!Netifs, NEW g \in GROUPS, G!Report(n, g) PROVE IgmpInv'
<1> DEFINE q == <<n, g>>
           e == igmp_group_list[q]
           d == IF e.group_state = "DELAYING_MEMBER"
                THEN [e EXCEPT !.timer = 0, !.group_state = "IDLE_MEMBER", !.last_reporter_flag = 0] ELSE e
           a == [router[q] EXCEPT !.reporter = "other", !.due = G!Never]
           l == [p \in G!Places |-> IF p = q THEN d ELSE igmp_group_list[p]]
           k == [p \in G!Places |-> IF p = q THEN a ELSE router[p]]
<1>1. q \in G!Places /\ q[2] # G!allsystems
  BY IgmpNumbers DEF G!Places
<1>2. e.group_state # "NULL"
  BY DEF G!Report, G!Listed
<1>3. igmp_group_list' = [p \in G!Places |-> l[p]] /\ router' = [p \in G!Places |-> k[p]]
  BY <1>1 DEF G!Report, IgmpInv
<1> HIDE DEF l, k, d, a
<1>4. MemberOK(e, router[q]) /\ e \in Members /\ router[q] \in Knowledge /\ (q \in mac_filter <=> e.use > 0)
  BY <1>1, PlaceIsOK
<1>5. /\ a \in Knowledge /\ a.reporter = "other" /\ a.due = -1
  BY <1>4, NullIs DEF a, Knowledge
<1>6. /\ d \in Members /\ d.group_state # "NULL" /\ d.use = e.use /\ d.last_reporter_flag # 1
      /\ d.group_state = "IDLE_MEMBER" => d.last_reporter_flag = 0
      /\ d.timer > 0 => d.group_state = "DELAYING_MEMBER"
  <2> HIDE DEF e
  <2>1. CASE e.group_state = "DELAYING_MEMBER"
    <3>1. d = [e EXCEPT !.timer = 0, !.group_state = "IDLE_MEMBER", !.last_reporter_flag = 0]
      BY <2>1 DEF d
    <3> HIDE DEF d
    <3>2. d \in Members
      BY <1>4, <3>1 DEF Members
    <3>3. /\ d.timer = 0 /\ d.group_state = "IDLE_MEMBER" /\ d.last_reporter_flag = 0
          /\ d.use = e.use
      BY <1>4, <3>1 DEF Members
    <3>. QED BY <3>2, <3>3
  <2>2. CASE e.group_state = "IDLE_MEMBER"
    BY <1>4, <2>2 DEF d, MemberOK
  <2>. QED BY <1>2, <1>4, <2>1, <2>2 DEF Members
<1>7. MemberOK(d, a)
  BY <1>2, <1>4, <1>5, <1>6 DEF MemberOK
<1>8. mac_filter' = mac_filter /\ mac_filter' \subseteq G!Places
  BY DEF G!Report, IgmpInv
<1>9. l[q] = d /\ k[q] = a /\ \A p \in G!Places \ {q} : l[p] = igmp_group_list[p] /\ k[p] = router[p]
  BY <1>1 DEF l, k
<1>10. \A p \in G!Places :
         /\ MemberOK(l[p], k[p])
         /\ p \in mac_filter' <=> l[p].use > 0
         /\ p[2] = G!allsystems /\ l[p].group_state = "NULL" => k[p] = G!NoRouter
  <2> TAKE p \in G!Places
  <2>1. CASE p = q
    BY <1>1, <1>4, <1>6, <1>7, <1>8, <1>9, <2>1
  <2>2. CASE p # q
    BY <1>8, <1>9, <2>2, PlaceIsOK
  <2>. QED BY <2>1, <2>2
<1>. QED BY <1>3, <1>8, <1>10, Assembled

\* Of the netifs where a group is new, or is used once more.
LEMMA JoinKeeps ==
    ASSUME IgmpInv, NEW i \in 0..NETIFS, NEW g \in GROUPS, G!igmp_joingroup(i, g) PROVE IgmpInv'
<1>1. PICK until \in 1..(NETIFS + 1), went \in [G!Netifs -> BOOLEAN],
           timer \in [G!Netifs -> G!Times(IGMP_JOIN_DELAYING_MEMBER_TMR)] :
        LET joined == {n \in G!Match(i) : n < until} IN
        /\ \A n \in joined : igmp_group_list[n, g].use < JOINS
        /\ until <= NETIFS => until \in G!Match(i) /\ ~G!Listed(igmp_group_list, until, g)
        /\ igmp_group_list' = [p \in G!Places |->
             IF p[1] \notin joined \/ p[2] # g THEN igmp_group_list[p]
             ELSE IF G!Listed(igmp_group_list, p[1], g) THEN [igmp_group_list[p] EXCEPT !.use = @ + 1]
             ELSE G!New(went[p[1]], timer[p[1]])]
        /\ mac_filter' = mac_filter \cup {<<n, g>> : n \in joined}
        /\ router' = [p \in G!Places |->
             IF p[1] \in joined /\ p[2] = g /\ ~G!Listed(igmp_group_list, p[1], g) THEN G!Heard(G!NoRouter, went[p[1]])
             ELSE router[p]]
  BY DEF G!igmp_joingroup
<1> DEFINE joined == {n \in G!Match(i) : n < until}
           l == [p \in G!Places |->
             IF p[1] \notin joined \/ p[2] # g THEN igmp_group_list[p]
             ELSE IF G!Listed(igmp_group_list, p[1], g) THEN [igmp_group_list[p] EXCEPT !.use = @ + 1]
             ELSE G!New(went[p[1]], timer[p[1]])]
           k == [p \in G!Places |->
             IF p[1] \in joined /\ p[2] = g /\ ~G!Listed(igmp_group_list, p[1], g) THEN G!Heard(G!NoRouter, went[p[1]])
             ELSE router[p]]
<1>2. igmp_group_list' = [p \in G!Places |-> l[p]] /\ router' = [p \in G!Places |-> k[p]]
  BY <1>1
<1>3. \A p \in G!Places :
        /\ p[1] \notin joined \/ p[2] # g => l[p] = igmp_group_list[p] /\ k[p] = router[p]
        /\ p[1] \in joined /\ p[2] = g /\ igmp_group_list[p].group_state # "NULL" =>
             l[p] = [igmp_group_list[p] EXCEPT !.use = @ + 1] /\ k[p] = router[p]
        /\ p[1] \in joined /\ p[2] = g /\ igmp_group_list[p].group_state = "NULL" =>
             l[p] = G!New(went[p[1]], timer[p[1]]) /\ k[p] = G!Heard(G!NoRouter, went[p[1]])
  BY ListedIs
<1>4. joined \subseteq G!Netifs /\ mac_filter' = mac_filter \cup {<<n, g>> : n \in joined}
  BY <1>1 DEF G!Match
<1>5. \A p \in G!Places : p[1] \in joined /\ p[2] = g => igmp_group_list[p].use < JOINS
  BY <1>1, Pair
<1> HIDE DEF joined, l, k
<1>6. mac_filter' \subseteq G!Places
  BY <1>4 DEF IgmpInv, G!Places
<1>7. \A p \in G!Places : p \in mac_filter' <=> (p \in mac_filter \/ (p[1] \in joined /\ p[2] = g))
  BY <1>4, Pair
<1>8. ASSUME NEW s \in BOOLEAN, NEW t \in G!Times(IGMP_JOIN_DELAYING_MEMBER_TMR)
      PROVE  /\ MemberOK(G!New(s, t), G!Heard(G!NoRouter, s)) /\ G!New(s, t).use = 1
             /\ G!New(s, t).group_state # "NULL"
  <2>1. t \in Nat
    BY IgmpNumbers, TimesAre
  <2>2. /\ G!New(s, t) \in Members /\ G!New(s, t).group_state = "DELAYING_MEMBER" /\ G!New(s, t).use = 1
        /\ G!New(s, t).last_reporter_flag = IF s THEN 1 ELSE 0
    BY <2>1, IgmpNumbers DEF G!New, Members
  <2>3. /\ G!Heard(G!NoRouter, s) \in Knowledge /\ G!Heard(G!NoRouter, s).due = -1
        /\ G!Heard(G!NoRouter, s).reporter = IF s THEN "us" ELSE "none"
    BY NullIs DEF G!Heard, G!NoRouter, Knowledge
  <2>. QED BY <2>2, <2>3 DEF MemberOK
<1>9. \A p \in G!Places :
        /\ MemberOK(l[p], k[p])
        /\ p \in mac_filter' <=> l[p].use > 0
        /\ p[2] = G!allsystems /\ l[p].group_state = "NULL" => k[p] = G!NoRouter
  <2> TAKE p \in G!Places
  <2> DEFINE e == igmp_group_list[p]
             r == router[p]
  <2>1. MemberOK(e, r) /\ e \in Members /\ r \in Knowledge /\ e.use \in 0..JOINS
    BY PlaceIsOK
  <2>2. CASE p[1] \notin joined \/ p[2] # g
    BY <1>3, <1>7, <2>2, PlaceIsOK
  <2>3. CASE p[1] \in joined /\ p[2] = g /\ e.group_state # "NULL"
    <3>1. l[p] = [e EXCEPT !.use = @ + 1] /\ k[p] = r /\ e.use < JOINS
      BY <1>3, <1>5, <2>3
    <3>2. /\ l[p] \in Members /\ l[p].use = e.use + 1 /\ l[p].group_state = e.group_state
          /\ l[p].timer = e.timer /\ l[p].last_reporter_flag = e.last_reporter_flag
      BY <2>1, <3>1, IgmpNumbers DEF Members
    <3>3. MemberOK(l[p], k[p])
      BY <2>1, <2>3, <3>1, <3>2 DEF MemberOK
    <3>. QED BY <1>7, <2>1, <2>3, <3>2, <3>3
  <2>4. CASE p[1] \in joined /\ p[2] = g /\ e.group_state = "NULL"
    <3>1. l[p] = G!New(went[p[1]], timer[p[1]]) /\ k[p] = G!Heard(G!NoRouter, went[p[1]])
      BY <1>3, <2>4
    <3>2. p \in mac_filter'
      BY <1>7, <2>4
    <3>3. MemberOK(l[p], k[p]) /\ l[p].use = 1 /\ l[p].group_state # "NULL"
      <4>1. went[p[1]] \in BOOLEAN /\ timer[p[1]] \in G!Times(IGMP_JOIN_DELAYING_MEMBER_TMR)
        BY <1>4, <2>4
      <4>. QED BY <1>8, <3>1, <4>1
    <3>. QED BY <3>2, <3>3
  <2>. QED BY <2>2, <2>3, <2>4
<1>. QED BY <1>2, <1>6, <1>9, Assembled

LEMMA LeaveKeeps ==
    ASSUME IgmpInv, NEW i \in 0..NETIFS, NEW g \in GROUPS, G!igmp_leavegroup(i, g) PROVE IgmpInv'
<1> DEFINE members == {n \in G!Match(i) : G!Listed(igmp_group_list, n, g)}
           last == {n \in members : igmp_group_list[n, g].use <= 1}
           told(n, s) == igmp_group_list[n, g].last_reporter_flag = 1 /\ s
           after(p, s) == [reporter |-> IF told(p[1], s) THEN "none" ELSE router[p].reporter,
                           due |-> G!Never, lost |-> ~s]
<1>1. PICK went \in [G!Netifs -> BOOLEAN] :
        /\ igmp_group_list' = [p \in G!Places |->
             IF p[2] # g THEN igmp_group_list[p]
             ELSE IF p[1] \in last THEN G!NULL
             ELSE IF p[1] \in members THEN [igmp_group_list[p] EXCEPT !.use = @ - 1]
             ELSE igmp_group_list[p]]
        /\ mac_filter' = mac_filter \ {<<n, g>> : n \in last}
        /\ router' = [p \in G!Places |-> IF p[1] \in last /\ p[2] = g THEN after(p, went[p[1]]) ELSE router[p]]
  BY DEF G!igmp_leavegroup
<1> DEFINE l == [p \in G!Places |->
             IF p[2] # g THEN igmp_group_list[p]
             ELSE IF p[1] \in last THEN G!NULL
             ELSE IF p[1] \in members THEN [igmp_group_list[p] EXCEPT !.use = @ - 1]
             ELSE igmp_group_list[p]]
           k == [p \in G!Places |-> IF p[1] \in last /\ p[2] = g THEN after(p, went[p[1]]) ELSE router[p]]
<1>2. igmp_group_list' = [p \in G!Places |-> l[p]] /\ router' = [p \in G!Places |-> k[p]]
  BY <1>1
<1>3. \A p \in G!Places :
        /\ p[1] \notin members \/ p[2] # g => l[p] = igmp_group_list[p] /\ k[p] = router[p]
        /\ p[1] \in members \ last /\ p[2] = g =>
             l[p] = [igmp_group_list[p] EXCEPT !.use = @ - 1] /\ k[p] = router[p]
        /\ p[1] \in last /\ p[2] = g => l[p] = G!NULL /\ k[p] = after(p, went[p[1]])
  OBVIOUS
<1>4. last \subseteq members
  OBVIOUS
<1>5. \A p \in G!Places : p[2] = g =>
        /\ p[1] \in members => igmp_group_list[p].group_state # "NULL"
        /\ p[1] \in members => (p[1] \in last <=> igmp_group_list[p].use <= 1)
  BY ListedIs, Pair
<1>6. \A p \in G!Places, s \in BOOLEAN : p[2] = g =>
        /\ after(p, s).due = -1 /\ after(p, s).lost = ~s
        /\ after(p, s).reporter =
             IF igmp_group_list[p].last_reporter_flag = 1 /\ s THEN "none" ELSE router[p].reporter
  BY Pair, NullIs
<1>7. mac_filter' = mac_filter \ {<<n, g>> : n \in last}
  BY <1>1
<1>8. mac_filter' \subseteq G!Places
  BY <1>1 DEF IgmpInv
<1>9. \A p \in G!Places, s \in BOOLEAN : after(p, s) = [reporter |-> after(p, s).reporter, due |-> G!Never, lost |-> ~s]
  OBVIOUS
<1> HIDE DEF members, last, l, k, after
<1>10. \A p \in G!Places : p \in mac_filter' <=> (p \in mac_filter /\ ~(p[1] \in last /\ p[2] = g))
  BY <1>7, Pair
<1>11. \A p \in G!Places :
         /\ MemberOK(l[p], k[p])
         /\ p \in mac_filter' <=> l[p].use > 0
         /\ p[2] = G!allsystems /\ l[p].group_state = "NULL" => k[p] = G!NoRouter
  <2> TAKE p \in G!Places
  <2> DEFINE e == igmp_group_list[p]
             r == router[p]
             s == went[p[1]]
             a == after(p, s)
  <2>0. s \in BOOLEAN
    BY Pair
  <2>1. MemberOK(e, r) /\ e \in Members /\ r \in Knowledge /\ e.use \in 0..JOINS
    BY PlaceIsOK
  <2>2. CASE p[1] \notin members \/ p[2] # g
    BY <1>3, <1>4, <1>10, <2>2, PlaceIsOK
  <2>3. CASE p[1] \in members \ last /\ p[2] = g
    <3>1. l[p] = [e EXCEPT !.use = @ - 1] /\ k[p] = r /\ e.use > 1 /\ e.group_state # "NULL"
      BY <1>3, <1>5, <2>1, <2>3, IgmpNumbers
    <3>2. e.use - 1 \in 0..JOINS /\ e.use - 1 > 0
      BY <2>1, <3>1, IgmpNumbers
    <3>3. /\ l[p] \in Members /\ l[p].use = e.use - 1 /\ l[p].group_state = e.group_state
          /\ l[p].timer = e.timer /\ l[p].last_reporter_flag = e.last_reporter_flag
      BY <2>1, <3>1, <3>2 DEF Members
    <3>4. MemberOK(l[p], k[p])
      BY <2>1, <3>1, <3>2, <3>3 DEF MemberOK
    <3>5. p \in mac_filter'
      BY <1>10, <2>3, <3>1, PlaceIsOK
    <3>. QED BY <3>1, <3>2, <3>3, <3>4, <3>5
  <2>4. CASE p[1] \in last /\ p[2] = g
    <3>1. l[p] = G!NULL /\ k[p] = a /\ p \notin mac_filter' /\ e.group_state # "NULL"
      BY <1>3, <1>4, <1>5, <1>10, <2>4
    <3>2. a.due = -1 /\ a.lost = ~s
      BY <1>6, <2>0, <2>4
    <3>3. /\ e.last_reporter_flag = 1 /\ s => a.reporter = "none"
          /\ ~(e.last_reporter_flag = 1 /\ s) => a.reporter = r.reporter
      BY <1>6, <2>0, <2>4
    <3>4. a.reporter \in {"none", "us", "other"}
      BY <2>1, <3>3 DEF Knowledge
    <3>5. a \in Knowledge
      <4> DEFINE b == ~s
      <4>1. a = [reporter |-> a.reporter, due |-> G!Never, lost |-> b] /\ b \in BOOLEAN
        BY <1>9, <2>0
      <4> HIDE DEF a, b
      <4>. QED BY <3>4, <4>1 DEF Knowledge
    <3>6. a.reporter = "us" => a.lost = TRUE
      BY <2>1, <3>1, <3>2, <3>3 DEF MemberOK
    <3>7. MemberOK(l[p], k[p])
      BY <3>1, <3>2, <3>5, <3>6, NullIs DEF MemberOK
    <3>8. p[2] # G!allsystems
      BY <2>4, IgmpNumbers
    <3>. QED BY <3>1, <3>7, <3>8, NullIs
  <2>. QED BY <1>4, <2>2, <2>3, <2>4
<1>. QED BY <1>2, <1>8, <1>11, Assembled

LEMMA StartKeeps == ASSUME IgmpInv, NEW n \in G!Netifs, G!igmp_start(n) PROVE IgmpInv'
<1> DEFINE q == <<n, G!allsystems>>
           d == [G!NULL EXCEPT !.group_state = "IDLE_MEMBER", !.use = 1]
           l == [p \in G!Places |-> IF p = q THEN d ELSE igmp_group_list[p]]
<1>1. q \in G!Places
  BY DEF G!Places
<1>2. igmp_group_list[q].group_state = "NULL"
  BY DEF G!igmp_start, G!Listed
<1>3. igmp_group_list' = [p \in G!Places |-> l[p]]
  BY <1>1 DEF G!igmp_start, IgmpInv
<1>4. router' = router /\ router' = [p \in G!Places |-> router[p]]
  BY DEF G!igmp_start, IgmpInv
<1>5. mac_filter' = mac_filter \cup {q} /\ mac_filter' \subseteq G!Places
  BY <1>1 DEF G!igmp_start, IgmpInv
<1>6. router[q] = G!NoRouter
  BY <1>1, <1>2, PlaceIsOK
<1>7. /\ d \in Members /\ d.group_state = "IDLE_MEMBER" /\ d.use = 1 /\ d.timer = 0
      /\ d.last_reporter_flag = 0
  <2>1. 1 \in 0..JOINS
    BY IgmpNumbers
  <2>. QED BY <2>1, NullIs DEF Members
<1>8. l[q] = d /\ \A p \in G!Places \ {q} : l[p] = igmp_group_list[p]
  BY <1>1
<1> HIDE DEF d, l
<1>9. MemberOK(d, G!NoRouter)
  BY <1>7, NullIs DEF MemberOK
<1>10. \A p \in G!Places :
         /\ MemberOK(l[p], router[p])
         /\ p \in mac_filter' <=> l[p].use > 0
         /\ p[2] = G!allsystems /\ l[p].group_state = "NULL" => router[p] = G!NoRouter
  <2> TAKE p \in G!Places
  <2>1. CASE p = q
    BY <1>5, <1>6, <1>7, <1>8, <1>9, <2>1
  <2>2. CASE p # q
    BY <1>5, <1>8, <2>2, PlaceIsOK
  <2>. QED BY <2>1, <2>2
<1>. QED BY <1>3, <1>4, <1>5, <1>10, Assembled

LEMMA StopKeeps == ASSUME IgmpInv, NEW n \in G!Netifs, G!igmp_stop(n) PROVE IgmpInv'
<1> DEFINE l == [p \in G!Places |-> IF p[1] = n THEN G!NULL ELSE igmp_group_list[p]]
           k == [p \in G!Places |-> IF p[1] = n THEN G!NoRouter ELSE router[p]]
<1>1. igmp_group_list' = [p \in G!Places |-> l[p]] /\ router' = [p \in G!Places |-> k[p]]
  BY DEF G!igmp_stop
<1>2. /\ mac_filter' = {p \in mac_filter : p[1] # n} /\ mac_filter' \subseteq G!Places
  BY DEF G!igmp_stop, IgmpInv
<1>3. \A p \in G!Places : /\ p[1] = n => l[p] = G!NULL /\ k[p] = G!NoRouter
                          /\ p[1] # n => l[p] = igmp_group_list[p] /\ k[p] = router[p]
  OBVIOUS
<1> HIDE DEF l, k
<1>4. \A p \in G!Places :
         /\ MemberOK(l[p], k[p])
         /\ p \in mac_filter' <=> l[p].use > 0
         /\ p[2] = G!allsystems /\ l[p].group_state = "NULL" => k[p] = G!NoRouter
  <2> TAKE p \in G!Places
  <2>1. CASE p[1] = n
    BY <1>2, <1>3, <2>1, NullIs, NewIsOK
  <2>2. CASE p[1] # n
    BY <1>2, <1>3, <2>2, PlaceIsOK
  <2>. QED BY <2>1, <2>2
<1>. QED BY <1>1, <1>2, <1>4, Assembled

LEMMA IgmpInductive == IgmpInv /\ [G!Next]_igmpVars => IgmpInv'
<1> SUFFICES ASSUME IgmpInv, [G!Next]_igmpVars PROVE IgmpInv'
  OBVIOUS
<1>1. CASE UNCHANGED igmpVars
  BY <1>1 DEF igmpVars, IgmpInv, PlaceOK
<1>2. CASE G!Next
  BY <1>2, TickKeeps, StartKeeps, StopKeeps, QueriesKeep, ReportKeeps, JoinKeeps, LeaveKeeps DEF G!Next
<1>. QED BY <1>1, <1>2

\* What the invariant says of the groups.
LEMMA GroupsAreSound == IgmpInv => G!TypeOK /\ G!IgmpSound
<1> SUFFICES ASSUME IgmpInv PROVE G!TypeOK /\ G!IgmpSound
  OBVIOUS
<1>1. G!TypeOK
  <2>1. \A p \in G!Places :
          /\ igmp_group_list[p].group_state \in {"NULL", "DELAYING_MEMBER", "IDLE_MEMBER"}
          /\ igmp_group_list[p].timer \in Nat /\ igmp_group_list[p].use \in 0..JOINS
    BY PlaceIsOK DEF Members
  <2>2. mac_filter \subseteq G!Places
    BY DEF IgmpInv
  <2>. QED BY <2>1, <2>2 DEF G!TypeOK
<1>2. G!FilterMatches
  BY PlaceIsOK DEF G!FilterMatches
<1>3. G!QueriesAnswered
  BY PlaceIsOK DEF G!QueriesAnswered, MemberOK
<1>4. G!RoutersTold
  BY PlaceIsOK, ListedIs DEF G!RoutersTold, MemberOK
<1>. QED BY <1>1, <1>2, <1>3, <1>4 DEF G!IgmpSound

-----------------------------------------------------------------------------
(* The neighbours.                                                          *)

LEMMA ArpNumbers ==
    /\ ARP_TABLE_SIZE \in Nat \ {0} /\ ARP_MAXPENDING \in Nat \ {0} /\ QLEN \in Nat \ {0}
    /\ OUTPUTS \in Nat /\ ARP_MAXAGE \in Int /\ ARP_MAXPENDING < ARP_MAXAGE
  BY PartsAssumption DEF A!EtharpAssumption

Neighbours ==
    [state : {"EMPTY", "PENDING", "STABLE", "STABLE_REREQUESTING"}, ipaddr : Hosts \cup {A!IPADDR_ANY},
     ethaddr : Macs \cup {A!NoMac}, ctime : Nat, q : Seq(Nat)]

\* The packets of q wait in the order they came in: after the packet last,
\* and none is newer than the packet n.
InTurn(q, last, n) ==
    \A k \in 1..Len(q) : q[k] <= n /\ q[k] > (IF k = 1 THEN last ELSE q[k - 1])

\* An entry, when n packets were given so far, o were the last sent and m the
\* macs last heard.
NeighbourOK(e, n, o, m) ==
    /\ e \in Neighbours
    /\ e.state # "EMPTY" => e.ipaddr \in Hosts /\ e.ctime < ARP_MAXAGE
    /\ e.state # "PENDING" => e.q = <<>>
    /\ e.state = "PENDING" => e.ctime < ARP_MAXPENDING
    /\ Len(e.q) <= QLEN /\ (e.state # "EMPTY" => InTurn(e.q, o[e.ipaddr], n))
    /\ A!Stable(e) => e.ethaddr = m[e.ipaddr]

ArpTyped ==
    /\ etharp_cached_entry \in A!Index /\ given \in Nat
    /\ sent \in [Hosts -> Nat] /\ (\A h \in Hosts : sent[h] <= given)
    /\ heard \in [Hosts -> Macs \cup {A!NoMac}]
    /\ arp_table \in [A!Index -> Neighbours]
ArpInv ==
    /\ ArpTyped
    /\ \A i \in A!Index : NeighbourOK(arp_table[i], given, sent, heard)
    /\ \A i, j \in A!Index :
         i # j /\ arp_table[i].state # "EMPTY" /\ arp_table[j].state # "EMPTY" =>
           arp_table[i].ipaddr # arp_table[j].ipaddr

LEMMA FreedIs ==
    /\ A!Freed \in Neighbours /\ A!Freed.state = "EMPTY" /\ A!Freed.q = <<>> /\ A!Freed.ctime = 0
    /\ A!Freed.ipaddr = A!IPADDR_ANY /\ A!Freed.ethaddr = A!NoMac
  BY DEF A!Freed, A!Entry, Neighbours

LEMMA EntryIs ==
    ASSUME NEW state \in {"PENDING", "STABLE"}, NEW h \in Hosts, NEW m \in Macs \cup {A!NoMac}
    PROVE  LET e == A!Entry(state, h, m) IN
           /\ e \in Neighbours /\ e.state = state /\ e.ipaddr = h /\ e.ethaddr = m /\ e.ctime = 0
           /\ e.q = <<>>
  BY DEF A!Entry, Neighbours

LEMMA FreedIsOK == ASSUME NEW n, NEW o, NEW m PROVE NeighbourOK(A!Freed, n, o, m)
<1>1. Len(A!Freed.q) = 0 /\ ~A!Stable(A!Freed)
  BY FreedIs DEF A!Stable
<1>. QED BY <1>1, FreedIs, ArpNumbers DEF NeighbourOK

LEMMA ArpInitially == A!Init => ArpInv
<1> SUFFICES ASSUME A!Init PROVE ArpInv
  OBVIOUS
<1>1. /\ etharp_cached_entry \in A!Index /\ given \in Nat
      /\ sent \in [Hosts -> Nat] /\ (\A h \in Hosts : sent[h] <= given)
  BY ArpNumbers DEF A!Init, A!Index
<1>2. heard \in [Hosts -> Macs \cup {A!NoMac}]
  BY DEF A!Init
<1>3. arp_table = [i \in A!Index |-> A!Freed]
  BY DEF A!Init
<1>4. arp_table \in [A!Index -> Neighbours] /\ \A i \in A!Index : arp_table[i] = A!Freed
  BY <1>3, FreedIs
<1>. QED BY <1>1, <1>2, <1>4, FreedIs, FreedIsOK DEF ArpInv, ArpTyped

-----------------------------------------------------------------------------
(* Finding an entry.                                                        *)

LEMMA GreatestIs ==
    ASSUME NEW n \in Nat, NEW Z \in SUBSET (0..n), Z # {}
    PROVE  LET m == CHOOSE x \in Z : \A y \in Z : x >= y IN m \in Z /\ \A y \in Z : m >= y
<1> DEFINE Gaps == {n - x : x \in Z}
<1>1. Gaps \in SUBSET Nat /\ Gaps # {}
  <2>1. \A x \in Z : n - x \in Nat
    OBVIOUS
  <2>2. PICK x \in Z : TRUE
    OBVIOUS
  <2>3. n - x \in Gaps
    BY <2>2
  <2>. QED BY <2>1, <2>3
<1>2. PICK d \in Gaps : \A c \in Gaps : d <= c
  <2> HIDE DEF Gaps
  <2>. QED BY <1>1, LeastExists
<1>3. PICK x \in Z : d = n - x
  BY <1>2
<1>4. \A y \in Z : x >= y
  <2> TAKE y \in Z
  <2>1. d <= n - y
    BY <1>2
  <2>2. x \in Int /\ y \in Int
    <3> HIDE DEF Gaps
    <3>1. x \in 0..n /\ y \in 0..n
      OBVIOUS
    <3>. QED BY <3>1
  <2>. QED BY <1>3, <2>1, <2>2
<1>. QED BY <1>3, <1>4

LEMMA OldestEntry ==
    ASSUME ArpInv, NEW Z \in SUBSET A!Index, Z # {}, \A i \in Z : arp_table[i].state # "EMPTY"
    PROVE  A!Oldest(Z) \in Z
<1> DEFINE times == {arp_table[i].ctime : i \in Z}
           T == {i \in Z : \A j \in Z : arp_table[j].ctime <= arp_table[i].ctime}
<1>1. \A i \in Z : arp_table[i].ctime \in 0..ARP_MAXAGE /\ arp_table[i].ctime \in Nat
  BY ArpNumbers DEF ArpInv, NeighbourOK, Neighbours
<1>2. times \in SUBSET (0..ARP_MAXAGE) /\ times # {} /\ ARP_MAXAGE \in Nat
  BY <1>1, ArpNumbers
<1>3. PICK t \in times : \A u \in times : t >= u
  <2> HIDE DEF times
  <2>. QED BY <1>2, GreatestIs
<1>4. PICK i \in Z : t = arp_table[i].ctime
  BY <1>3
<1>5. \A j \in Z : arp_table[j].ctime <= arp_table[i].ctime
  BY <1>1, <1>3, <1>4
<1>6. T # {} /\ T \subseteq Z /\ T \in SUBSET (0..ARP_TABLE_SIZE) /\ ARP_TABLE_SIZE \in Nat
  <2>1. i \in T
    BY <1>5
  <2>2. A!Index \subseteq 0..ARP_TABLE_SIZE
    BY ArpNumbers DEF A!Index
  <2>3. T \subseteq Z
    OBVIOUS
  <2> HIDE DEF T
  <2>. QED BY <2>1, <2>2, <2>3, ArpNumbers
<1>7. A!Oldest(Z) = A!Max(T)
  BY DEF A!Oldest
<1> HIDE DEF T
<1>8. A!Max(T) \in T
  BY <1>6, GreatestIs DEF A!Max
<1>. QED BY <1>6, <1>7, <1>8

\* The entry of an address is its only one; the place for a new address is a
\* place of the table.
LEMMA LeastEntry == \A Z \in SUBSET A!Index : Z # {} => A!Min(Z) \in Z
<1> TAKE Z \in SUBSET A!Index
<1> SUFFICES ASSUME Z # {} PROVE A!Min(Z) \in Z
  OBVIOUS
<1>1. Z \in SUBSET Nat
  BY DEF A!Index
<1>. QED BY <1>1, LeastIs DEF A!Min

LEMMA FoundEntry ==
    ASSUME ArpInv, NEW h \in Hosts
    PROVE  /\ A!find_entry(h) \in A!Index
           /\ A!Of(h) # {} => /\ arp_table[A!find_entry(h)].state # "EMPTY"
                              /\ arp_table[A!find_entry(h)].ipaddr = h
           /\ \A j \in A!Index \ {A!find_entry(h)} :
                arp_table[j].state # "EMPTY" => arp_table[j].ipaddr # h
<1>1. \A Z \in SUBSET A!Index : Z # {} => A!Min(Z) \in Z
  BY LeastEntry
<1>2. A!Of(h) \subseteq A!Index /\ \A i \in A!Index : i \in A!Of(h) <=> arp_table[i].state # "EMPTY" /\ arp_table[i].ipaddr = h
  BY DEF A!Of
<1>3. CASE A!Of(h) # {}
  <2>1. A!find_entry(h) \in A!Of(h)
    BY <1>1, <1>2, <1>3 DEF A!find_entry
  <2>. QED BY <1>2, <1>3, <2>1 DEF ArpInv
<1>4. CASE A!Of(h) = {}
  <2>1. A!find_entry(h) = A!Recycled
    BY <1>4 DEF A!find_entry
  <2>2. CASE A!Empty # {}
    BY <1>1, <2>1, <2>2, <1>2, <1>4 DEF A!Recycled, A!Empty
  <2>3. CASE A!Empty = {}
    <3>1. \A i \in A!Index : arp_table[i].state # "EMPTY"
      BY <2>3 DEF A!Empty
    <3>2. \A Z \in SUBSET A!Index : Z # {} => A!Oldest(Z) \in A!Index
      BY <3>1, OldestEntry
    <3>3. A!Settled \subseteq A!Index /\ A!Idle \subseteq A!Pending /\ A!Pending \subseteq A!Index
      BY DEF A!Settled, A!Idle, A!Pending
    <3>4. A!Settled # {} \/ A!Pending # {}
      <4>1. 1 \in A!Index
        BY ArpNumbers DEF A!Index
      <4>2. arp_table[1] \in Neighbours
        BY <4>1 DEF ArpInv, ArpTyped
      <4>3. arp_table[1].state \in {"PENDING", "STABLE", "STABLE_REREQUESTING"}
        BY <3>1, <4>1, <4>2 DEF Neighbours
      <4>. QED BY <4>1, <4>3 DEF A!Settled, A!Pending, A!Stable
    <3>5. A!Recycled \in A!Index
      BY <2>3, <3>2, <3>3, <3>4 DEF A!Recycled
    <3>. QED BY <1>2, <1>4, <2>1, <3>5
  <2>. QED BY <2>2, <2>3
<1>. QED BY <1>3, <1>4

-----------------------------------------------------------------------------
(* What waits.                                                              *)

\* A packet is given, one is sent to another address, another mac is heard.
LEMMA OtherNeighbour ==
    ASSUME NEW e, NEW n \in Nat, NEW o, NEW m, NeighbourOK(e, n, o, m),
           NEW n2 \in Nat, n <= n2, NEW o2, NEW m2,
           e.state # "EMPTY" => o2[e.ipaddr] = o[e.ipaddr] /\ m2[e.ipaddr] = m[e.ipaddr]
    PROVE  NeighbourOK(e, n2, o2, m2)
<1>1. e \in Neighbours /\ e.q \in Seq(Nat) /\ \A k \in 1..Len(e.q) : e.q[k] \in Nat
  BY DEF NeighbourOK, Neighbours
<1>2. e.state # "EMPTY" => InTurn(e.q, o2[e.ipaddr], n2)
  BY <1>1 DEF NeighbourOK, InTurn
<1>3. A!Stable(e) => e.ethaddr = m2[e.ipaddr]
  BY DEF NeighbourOK, A!Stable
<1>. QED BY <1>2, <1>3 DEF NeighbourOK

\* Packets that wait take in the newest, and the oldest makes place for it.
LEMMA QueuedIs ==
    ASSUME NEW q \in Seq(Nat), NEW last \in Nat, NEW n \in Nat, NEW w \in Nat, InTurn(q, last, n),
           Len(q) <= QLEN, last <= n, n <= w, NEW p \in {<<w>>, <<>>}, p = <<w>> => n < w
    PROVE  /\ A!Queued(q, p) \in Seq(Nat) /\ InTurn(A!Queued(q, p), last, w)
           /\ Len(A!Queued(q, p)) <= QLEN
<1> DEFINE all == q \o p
<1>1. p \in Seq(Nat) /\ Len(p) \in 0..1 /\ (Len(p) = 1 => p[1] = w /\ n < w)
  <2>1. CASE p = <<w>>
    BY <2>1
  <2>2. CASE p = <<>>
    BY <2>2
  <2>. QED BY <2>1, <2>2
<1>2. /\ all \in Seq(Nat) /\ Len(all) = Len(q) + Len(p) /\ Len(q) \in Nat
      /\ \A k \in 1..Len(q) : all[k] = q[k] /\ q[k] \in Nat
      /\ Len(p) = 1 => all[Len(q) + 1] = w
  BY <1>1
<1>3. A!Queued(q, p) = IF Len(all) > QLEN THEN Tail(all) ELSE all
  BY DEF A!Queued
<1> HIDE DEF all
<1>4. \A k \in 1..Len(all) : /\ all[k] \in Nat /\ all[k] <= w
                             /\ all[k] > IF k = 1 THEN last ELSE all[k - 1]
  <2> TAKE k \in 1..Len(all)
  <2>1. CASE k \in 1..Len(q)
    <3>1. q[k] <= n /\ q[k] > (IF k = 1 THEN last ELSE q[k - 1])
      BY <2>1 DEF InTurn
    <3>2. k # 1 => k - 1 \in 1..Len(q)
      BY <1>2, <2>1
    <3>3. all[k] = q[k] /\ q[k] \in Nat /\ (k # 1 => all[k - 1] = q[k - 1])
      BY <1>2, <2>1, <3>2
    <3>. QED BY <3>1, <3>3
  <2>2. CASE k \notin 1..Len(q)
    <3>1. k = Len(q) + 1 /\ Len(p) = 1
      <4> DEFINE x == Len(q)
                 y == Len(p)
                 z == Len(all)
      <4>1. x \in Nat /\ y \in 0..1 /\ z = x + y /\ k \in 1..z /\ k \notin 1..x
        BY <1>1, <1>2, <2>2
      <4> HIDE DEF x, y, z
      <4>2. k = x + 1 /\ y = 1
        BY <4>1
      <4>. QED BY <4>2 DEF x, y
    <3>4. all[k] = w
      BY <1>2, <3>1
    <3>2. CASE Len(q) = 0
      BY <1>1, <3>1, <3>2, <3>4
    <3>3. CASE Len(q) # 0
      <4>1. Len(q) \in 1..Len(q) /\ k - 1 = Len(q) /\ k # 1
        BY <1>2, <3>1, <3>3
      <4>2. all[k - 1] = q[Len(q)] /\ q[Len(q)] \in Nat /\ q[Len(q)] <= n
        BY <1>2, <4>1 DEF InTurn
      <4>. QED BY <1>1, <3>1, <3>4, <4>1, <4>2
    <3>. QED BY <3>2, <3>3
  <2>. QED BY <2>1, <2>2
<1>5. CASE ~(Len(all) > QLEN)
  <2>1. A!Queued(q, p) = all
    BY <1>3, <1>5
  <2>2. Len(all) <= QLEN
    BY <1>2, <1>5, ArpNumbers
  <2>. QED BY <1>2, <1>4, <2>1, <2>2 DEF InTurn
<1>6. CASE Len(all) > QLEN
  <2> DEFINE t == Tail(all)
  <2>1. A!Queued(q, p) = t
    BY <1>3, <1>6
  <2>2. Len(all) \in Nat /\ Len(all) >= 2 /\ Len(all) - 1 <= QLEN
    <3> DEFINE x == Len(q)
               y == Len(p)
               z == Len(all)
    <3>1. x \in Nat /\ y \in 0..1 /\ z = x + y /\ z > QLEN /\ x <= QLEN
      BY <1>1, <1>2, <1>6
    <3> HIDE DEF x, y, z
    <3>2. z \in Nat /\ z >= 2 /\ z - 1 <= QLEN
      BY <3>1, ArpNumbers
    <3>. QED BY <3>2 DEF z
  <2>3. t \in Seq(Nat) /\ Len(t) = Len(all) - 1 /\ \A k \in 1..Len(t) : t[k] = all[k + 1]
    <3>1. all # <<>> /\ all \in Seq(Nat)
      BY <1>2, <2>2
    <3>. QED BY <3>1, HeadTailProperties
  <2> HIDE DEF t
  <2>4. InTurn(t, last, w)
    <3> SUFFICES ASSUME NEW k \in 1..Len(t)
                 PROVE  t[k] <= w /\ t[k] > (IF k = 1 THEN last ELSE t[k - 1])
      BY DEF InTurn
    <3>1. /\ k \in 1..Len(all) /\ k + 1 \in 1..Len(all) /\ k + 1 # 1 /\ (k + 1) - 1 = k
          /\ t[k] = all[k + 1] /\ (k # 1 => k - 1 \in 1..Len(t) /\ (k - 1) + 1 = k)
      BY <2>2, <2>3
    <3>2. all[k + 1] <= w /\ all[k + 1] > all[k] /\ all[k] \in Nat /\ all[k + 1] \in Nat
      BY <1>4, <3>1
    <3>3. k = 1 => all[k] > last
      BY <1>4, <3>1
    <3>4. k # 1 => t[k - 1] = all[k]
      BY <2>3, <3>1
    <3>. QED BY <3>1, <3>2, <3>3, <3>4
  <2>. QED BY <2>1, <2>2, <2>3, <2>4
<1>. QED BY <1>5, <1>6

-----------------------------------------------------------------------------
(* The table's handlers.                                                    *)

\* One entry changes.
LEMMA ArpFrom ==
    ASSUME ArpInv, NEW i \in A!Index, NEW e, arp_table' = [arp_table EXCEPT ![i] = e],
           etharp_cached_entry' \in A!Index, given' \in Nat, given <= given',
           sent' \in [Hosts -> Nat], \A h \in Hosts : sent'[h] <= given',
           heard' \in [Hosts -> Macs \cup {A!NoMac}],
           NeighbourOK(e, given', sent', heard'),
           \A j \in A!Index \ {i} : arp_table[j].state # "EMPTY" =>
             /\ e.state # "EMPTY" => e.ipaddr # arp_table[j].ipaddr
             /\ sent'[arp_table[j].ipaddr] = sent[arp_table[j].ipaddr]
             /\ heard'[arp_table[j].ipaddr] = heard[arp_table[j].ipaddr]
    PROVE  ArpInv'
<1>1. arp_table \in [A!Index -> Neighbours] /\ given \in Nat /\ e \in Neighbours
  BY DEF ArpInv, ArpTyped, NeighbourOK
<1>2. arp_table' \in [A!Index -> Neighbours]
  BY <1>1
<1>3. arp_table'[i] = e /\ \A j \in A!Index \ {i} : arp_table'[j] = arp_table[j]
  BY <1>1
<1>4. \A j \in A!Index : NeighbourOK(arp_table'[j], given', sent', heard')
  <2> TAKE j \in A!Index
  <2>1. CASE j = i
    BY <1>3, <2>1
  <2>2. CASE j # i
    <3>1. NeighbourOK(arp_table[j], given, sent, heard)
      BY DEF ArpInv
    <3>2. NeighbourOK(arp_table[j], given', sent', heard')
      BY <1>1, <2>2, <3>1, OtherNeighbour
    <3>. QED BY <1>3, <2>2, <3>2
  <2>. QED BY <2>1, <2>2
<1>5. \A j, k \in A!Index :
        j # k /\ arp_table'[j].state # "EMPTY" /\ arp_table'[k].state # "EMPTY" =>
          arp_table'[j].ipaddr # arp_table'[k].ipaddr
  <2> TAKE j, k \in A!Index
  <2>1. CASE j # i /\ k # i
    BY <1>3, <2>1 DEF ArpInv
  <2>2. CASE j = i /\ k # i
    BY <1>3, <2>2
  <2>3. CASE j # i /\ k = i
    BY <1>3, <2>3
  <2>. QED BY <2>1, <2>2, <2>3
<1>. QED BY <1>2, <1>4, <1>5 DEF ArpInv, ArpTyped

\* A neighbour is heard of.
LEMMA HearKeeps ==
    ASSUME ArpInv, NEW h \in Hosts, NEW mac \in Macs, NEW us \in BOOLEAN, A!Hear(h, mac, us)
    PROVE  ArpInv'
<1> DEFINE i == A!find_entry(h)
           e == arp_table[i]
<1>1. /\ heard' = [heard EXCEPT ![h] = mac] /\ etharp_cached_entry' = etharp_cached_entry /\ given' = given
  BY DEF A!Hear
<1>2. /\ etharp_cached_entry \in A!Index /\ given \in Nat /\ sent \in [Hosts -> Nat]
      /\ (\A g \in Hosts : sent[g] <= given) /\ heard \in [Hosts -> Macs \cup {A!NoMac}]
      /\ arp_table \in [A!Index -> Neighbours]
  BY DEF ArpInv, ArpTyped
<1>3. /\ heard' \in [Hosts -> Macs \cup {A!NoMac}] /\ heard'[h] = mac
      /\ \A g \in Hosts \ {h} : heard'[g] = heard[g]
  BY <1>1, <1>2
<1>4. \A j \in A!Index : arp_table[j].state # "EMPTY" => arp_table[j].ipaddr \in Hosts
  BY DEF ArpInv, NeighbourOK
<1>7. etharp_cached_entry' \in A!Index /\ given' \in Nat /\ given <= given'
  BY <1>1, <1>2
<1>5. CASE A!update_arp_entry(h, mac, us)
  <2> DEFINE n == A!Entry("STABLE", h, mac)
             p == IF A!Of(h) # {} THEN e.q ELSE <<>>
  <2>1. arp_table' = [arp_table EXCEPT ![i] = n] /\ A!Send(h, p)
    BY <1>5 DEF A!update_arp_entry
  <2>2. /\ n \in Neighbours /\ n.state = "STABLE" /\ n.ipaddr = h /\ n.ethaddr = mac /\ n.ctime = 0 /\ n.q = <<>>
    BY EntryIs
  <2>3. i \in A!Index /\ \A j \in A!Index \ {i} : arp_table[j].state # "EMPTY" => arp_table[j].ipaddr # h
    BY FoundEntry
  <2>4. p \in Seq(Nat) /\ \A k \in 1..Len(p) : p[k] <= given
    <3>1. CASE A!Of(h) = {}
      BY <3>1
    <3>2. CASE A!Of(h) # {}
      <4>1. p = e.q /\ e.state # "EMPTY" /\ e \in Neighbours
        BY <1>2, <2>3, <3>2, FoundEntry
      <4>2. InTurn(e.q, sent[e.ipaddr], given)
        BY <2>3, <4>1 DEF ArpInv, NeighbourOK
      <4>. QED BY <4>1, <4>2 DEF InTurn, Neighbours
    <3>. QED BY <3>1, <3>2
  <2> HIDE DEF n, p, i
  <2>5. /\ sent' \in [Hosts -> Nat] /\ (\A g \in Hosts : sent'[g] <= given)
        /\ \A g \in Hosts \ {h} : sent'[g] = sent[g]
    <3>1. CASE p = <<>>
      BY <1>2, <2>1, <3>1 DEF A!Send
    <3>2. CASE p # <<>>
      <4>1. Len(p) \in 1..Len(p)
        BY <2>4, <3>2
      <4>2. A!Last(p) \in Nat /\ A!Last(p) <= given
        BY <2>4, <4>1 DEF A!Last
      <4>3. sent' = [sent EXCEPT ![h] = A!Last(p)]
        BY <2>1, <3>2 DEF A!Send
      <4>. QED BY <1>2, <4>2, <4>3
    <3>. QED BY <3>1, <3>2
  <2>6. NeighbourOK(n, given', sent', heard')
    <3>1. Len(n.q) = 0 /\ InTurn(n.q, sent'[n.ipaddr], given')
      BY <2>2 DEF InTurn
    <3>. QED BY <1>3, <2>2, <3>1, ArpNumbers DEF NeighbourOK
  <2>7. \A g \in Hosts : sent'[g] <= given'
    BY <1>1, <2>5
  <2>8. \A j \in A!Index \ {i} : arp_table[j].state # "EMPTY" =>
             /\ n.state # "EMPTY" => n.ipaddr # arp_table[j].ipaddr
             /\ sent'[arp_table[j].ipaddr] = sent[arp_table[j].ipaddr]
             /\ heard'[arp_table[j].ipaddr] = heard[arp_table[j].ipaddr]
    BY <1>3, <1>4, <2>2, <2>3, <2>5
  <2>. QED BY <1>3, <1>7, <2>1, <2>3, <2>5, <2>6, <2>7, <2>8, ArpFrom
<1>6. CASE A!Of(h) = {} /\ UNCHANGED <<arp_table, sent>>
  <2>1. i \in A!Index /\ \A j \in A!Index : arp_table[j].state # "EMPTY" => arp_table[j].ipaddr # h
    BY <1>6, FoundEntry DEF A!Of
  <2> HIDE DEF i
  <2>2. arp_table' = [arp_table EXCEPT ![i] = e] /\ sent' = sent
    BY <1>2, <1>6, <2>1
  <2>3. NeighbourOK(e, given, sent, heard)
    BY <2>1 DEF ArpInv
  <2> HIDE DEF e
  <2>4. e.state # "EMPTY" => heard'[e.ipaddr] = heard[e.ipaddr] /\ sent'[e.ipaddr] = sent[e.ipaddr]
    BY <1>3, <1>4, <2>1, <2>2 DEF e
  <2>5. NeighbourOK(e, given', sent', heard')
    BY <1>7, <1>2, <2>2, <2>3, <2>4, OtherNeighbour
  <2>6. \A j \in A!Index \ {i} : arp_table[j].state # "EMPTY" =>
             /\ e.state # "EMPTY" => e.ipaddr # arp_table[j].ipaddr
             /\ sent'[arp_table[j].ipaddr] = sent[arp_table[j].ipaddr]
             /\ heard'[arp_table[j].ipaddr] = heard[arp_table[j].ipaddr]
    BY <1>3, <1>4, <2>1, <2>2 DEF ArpInv, e
  <2>7. sent' \in [Hosts -> Nat] /\ \A g \in Hosts : sent'[g] <= given'
    BY <1>1, <1>2, <2>2
  <2>. QED BY <1>3, <1>7, <2>1, <2>2, <2>5, <2>6, <2>7, ArpFrom
<1>. QED BY <1>5, <1>6 DEF A!Hear

\* A packet for an address that is not known waits, or none is given and the
\* address is asked for.
LEMMA QueryWaits ==
    ASSUME ArpInv, NEW h \in Hosts, NEW p \in {<<given'>>, <<>>}, A!etharp_query(h, p),
           given' \in Nat, given <= given', p = <<given'>> => given < given',
           p # <<>> => A!Of(h) \cap A!Settled = {},
           heard' = heard, etharp_cached_entry' = etharp_cached_entry
    PROVE  ArpInv'
<1> DEFINE i == A!find_entry(h)
           e == IF A!Of(h) = {} THEN A!Entry("PENDING", h, A!NoMac) ELSE arp_table[i]
<1>1. /\ etharp_cached_entry \in A!Index /\ given \in Nat /\ sent \in [Hosts -> Nat]
      /\ (\A g \in Hosts : sent[g] <= given) /\ heard \in [Hosts -> Macs \cup {A!NoMac}]
      /\ arp_table \in [A!Index -> Neighbours]
  BY DEF ArpInv, ArpTyped
<1>2. PICK c \in {p, <<>>} : arp_table' = [arp_table EXCEPT ![i] = [e EXCEPT !.q = A!Queued(@, c)]]
  BY DEF A!etharp_query
<1>3. sent' = sent
  BY DEF A!etharp_query
<1>4. i \in A!Index /\ \A j \in A!Index \ {i} : arp_table[j].state # "EMPTY" => arp_table[j].ipaddr # h
  BY FoundEntry
<1>5. /\ NeighbourOK(e, given, sent, heard) /\ e \in Neighbours /\ e.ipaddr = h
      /\ e.state \in {"PENDING", "STABLE", "STABLE_REREQUESTING"}
      /\ p # <<>> => e.state = "PENDING"
  <2>1. CASE A!Of(h) = {}
    <3>1. e = A!Entry("PENDING", h, A!NoMac)
      BY <2>1
    <3>2. /\ e \in Neighbours /\ e.state = "PENDING" /\ e.ipaddr = h /\ e.ctime = 0 /\ e.q = <<>>
      BY <3>1, EntryIs
    <3> HIDE DEF e
    <3>3. Len(e.q) = 0 /\ InTurn(e.q, sent[e.ipaddr], given) /\ ~A!Stable(e)
      BY <3>2 DEF InTurn, A!Stable
    <3>. QED BY <3>2, <3>3, ArpNumbers DEF NeighbourOK
  <2>2. CASE A!Of(h) # {}
    <3>1. e = arp_table[i]
      BY <2>2
    <3>2. e.state # "EMPTY" /\ e.ipaddr = h /\ e \in Neighbours
      BY <1>1, <1>4, <2>2, <3>1, FoundEntry
    <3>3. NeighbourOK(e, given, sent, heard)
      BY <1>4, <3>1 DEF ArpInv
    <3>4. e.state \in {"PENDING", "STABLE", "STABLE_REREQUESTING"}
      BY <3>2 DEF Neighbours
    <3>5. p # <<>> => i \notin A!Settled
      BY <1>4, <3>1, <3>2 DEF A!Of
    <3>6. p # <<>> => e.state = "PENDING"
      BY <1>4, <3>1, <3>4, <3>5 DEF A!Settled, A!Stable
    <3> HIDE DEF e
    <3>. QED BY <3>2, <3>3, <3>4, <3>6
  <2>. QED BY <2>1, <2>2
<1> HIDE DEF e, i
<1>6. e.q \in Seq(Nat) /\ Len(e.q) <= QLEN /\ InTurn(e.q, sent[h], given) /\ sent[h] \in Nat /\ sent[h] <= given
  BY <1>1, <1>5 DEF NeighbourOK, Neighbours
<1> DEFINE w == A!Queued(e.q, c)
           f == [e EXCEPT !.q = w]
<1>7. w \in Seq(Nat) /\ InTurn(w, sent[h], given') /\ Len(w) <= QLEN
  <2>1. c \in {<<given'>>, <<>>} /\ (c = <<given'>> => given < given')
    BY <1>2
  <2>. QED BY <1>1, <1>6, <2>1, QueuedIs
<1>8. e.state # "PENDING" => w = <<>>
  <2> SUFFICES ASSUME e.state # "PENDING" PROVE w = <<>>
    OBVIOUS
  <2>1. c = <<>> /\ e.q = <<>>
    BY <1>2, <1>5 DEF NeighbourOK
  <2>2. <<>> \o <<>> = <<>> /\ Len(<<>>) = 0
    OBVIOUS
  <2>. QED BY <2>1, <2>2, ArpNumbers DEF A!Queued
<1>9. arp_table' = [arp_table EXCEPT ![i] = f]
  BY <1>2
<1> HIDE DEF w
<1>10. /\ f \in Neighbours /\ f.state = e.state /\ f.ipaddr = h /\ f.ethaddr = e.ethaddr
       /\ f.ctime = e.ctime /\ f.q = w
  BY <1>5, <1>7 DEF Neighbours
<1> HIDE DEF f
<1>11. NeighbourOK(f, given', sent', heard')
  <2>1. A!Stable(f) => f.ethaddr = heard'[f.ipaddr]
    BY <1>5, <1>10 DEF NeighbourOK, A!Stable
  <2>. QED BY <1>3, <1>5, <1>7, <1>8, <1>10, <2>1 DEF NeighbourOK
<1>12. \A j \in A!Index \ {i} : arp_table[j].state # "EMPTY" =>
             /\ f.state # "EMPTY" => f.ipaddr # arp_table[j].ipaddr
             /\ sent'[arp_table[j].ipaddr] = sent[arp_table[j].ipaddr]
             /\ heard'[arp_table[j].ipaddr] = heard[arp_table[j].ipaddr]
  BY <1>3, <1>4, <1>10
<1>13. /\ sent' \in [Hosts -> Nat] /\ (\A g \in Hosts : sent'[g] <= given')
       /\ heard' \in [Hosts -> Macs \cup {A!NoMac}] /\ etharp_cached_entry' \in A!Index
  <2>1. \A g \in Hosts : sent[g] \in Nat /\ sent[g] <= given'
    BY <1>1
  <2>. QED BY <1>1, <1>3, <2>1
<1>. QED BY <1>4, <1>9, <1>11, <1>12, <1>13, ArpFrom

\* A packet leaves for a known address.
LEMMA SentAtOnce ==
    ASSUME ArpInv, NEW i \in A!Index, A!Stable(arp_table[i]), given' = given + 1,
           A!etharp_output_to_arp_index(i, given'), heard' = heard, etharp_cached_entry' \in A!Index
    PROVE  ArpInv'
<1> DEFINE e == arp_table[i]
           h == e.ipaddr
<1>1. /\ given \in Nat /\ sent \in [Hosts -> Nat] /\ (\A g \in Hosts : sent[g] <= given)
      /\ heard \in [Hosts -> Macs \cup {A!NoMac}] /\ arp_table \in [A!Index -> Neighbours]
  BY DEF ArpInv, ArpTyped
<1>2. /\ NeighbourOK(e, given, sent, heard) /\ e \in Neighbours /\ h \in Hosts /\ e.q = <<>>
      /\ e.state \in {"STABLE", "STABLE_REREQUESTING"} /\ e.ethaddr = heard[h]
  BY DEF ArpInv, NeighbourOK, A!Stable
<1>3. sent' = [sent EXCEPT ![h] = given']
  <2>1. A!Last(<<given'>>) = given' /\ <<given'>> # <<>>
    BY DEF A!Last
  <2>. QED BY <2>1 DEF A!etharp_output_to_arp_index, A!Send
<1>4. /\ sent' \in [Hosts -> Nat] /\ (\A g \in Hosts : sent'[g] <= given')
      /\ (\A g \in Hosts \ {h} : sent'[g] = sent[g]) /\ given' \in Nat /\ given <= given'
  <2>1. given' \in Nat /\ given <= given' /\ \A g \in Hosts : sent[g] \in Nat /\ sent[g] <= given'
    BY <1>1
  <2> HIDE DEF h
  <2>. QED BY <1>1, <1>2, <1>3, <2>1
<1>5. PICK f \in {e, [e EXCEPT !.state = "STABLE_REREQUESTING"]} : arp_table' = [arp_table EXCEPT ![i] = f]
  <2>1. CASE UNCHANGED arp_table
    BY <1>1, <2>1
  <2>2. CASE arp_table' = [arp_table EXCEPT ![i].state = "STABLE_REREQUESTING"]
    <3>1. arp_table' = [arp_table EXCEPT ![i] = [e EXCEPT !.state = "STABLE_REREQUESTING"]]
      BY <1>1, <2>2
    <3>. QED BY <3>1
  <2>. QED BY <2>1, <2>2 DEF A!etharp_output_to_arp_index
<1>6. \A j \in A!Index \ {i} : arp_table[j].state # "EMPTY" =>
             /\ h # arp_table[j].ipaddr
             /\ sent'[arp_table[j].ipaddr] = sent[arp_table[j].ipaddr]
             /\ heard'[arp_table[j].ipaddr] = heard[arp_table[j].ipaddr]
  <2> TAKE j \in A!Index \ {i}
  <2> SUFFICES ASSUME arp_table[j].state # "EMPTY"
               PROVE  /\ h # arp_table[j].ipaddr
                      /\ sent'[arp_table[j].ipaddr] = sent[arp_table[j].ipaddr]
                      /\ heard'[arp_table[j].ipaddr] = heard[arp_table[j].ipaddr]
    OBVIOUS
  <2>1. h # arp_table[j].ipaddr
    BY <1>2 DEF ArpInv
  <2>2. arp_table[j].ipaddr \in Hosts
    BY DEF ArpInv, NeighbourOK
  <2>. QED BY <1>4, <2>1, <2>2
<1> HIDE DEF e, h
<1>7. /\ f \in Neighbours /\ f.state \in {"STABLE", "STABLE_REREQUESTING"} /\ f.ipaddr = e.ipaddr
      /\ f.ethaddr = e.ethaddr /\ f.ctime = e.ctime /\ f.q = <<>>
  BY <1>2, <1>5 DEF Neighbours
<1>8. NeighbourOK(f, given', sent', heard')
  <2>1. Len(f.q) = 0 /\ InTurn(f.q, sent'[f.ipaddr], given')
    BY <1>7 DEF InTurn
  <2>2. f.ipaddr \in Hosts /\ f.ctime < ARP_MAXAGE /\ f.ethaddr = heard'[f.ipaddr]
    BY <1>2, <1>7 DEF NeighbourOK, h
  <2>. QED BY <1>7, <2>1, <2>2, ArpNumbers DEF NeighbourOK
<1>9. heard' \in [Hosts -> Macs \cup {A!NoMac}]
  BY <1>1
<1>10. \A j \in A!Index \ {i} : arp_table[j].state # "EMPTY" =>
             /\ f.state # "EMPTY" => f.ipaddr # arp_table[j].ipaddr
             /\ sent'[arp_table[j].ipaddr] = sent[arp_table[j].ipaddr]
             /\ heard'[arp_table[j].ipaddr] = heard[arp_table[j].ipaddr]
  BY <1>6, <1>7 DEF h
<1>11. arp_table' = [arp_table EXCEPT ![i] = f]
  BY <1>5
<1>. QED BY <1>4, <1>8, <1>9, <1>10, <1>11, ArpFrom

LEMMA OutputKeeps == ASSUME ArpInv, NEW h \in Hosts, A!etharp_output(h) PROVE ArpInv'
<1>1. given' = given + 1 /\ given \in Nat /\ heard' = heard /\ etharp_cached_entry \in A!Index
  BY DEF A!etharp_output, ArpInv, ArpTyped
<1>2. CASE A!Hint(h) /\ A!etharp_output_to_arp_index(etharp_cached_entry, given') /\ UNCHANGED etharp_cached_entry
  <2>1. A!Stable(arp_table[etharp_cached_entry])
    BY <1>2 DEF A!Hint
  <2>. QED BY <1>1, <1>2, <2>1, SentAtOnce
<1>3. CASE /\ A!Of(h) \cap A!Settled # {}
           /\ etharp_cached_entry' = A!Min(A!Of(h) \cap A!Settled)
           /\ A!etharp_output_to_arp_index(etharp_cached_entry', given')
  <2>1. etharp_cached_entry' \in A!Of(h) \cap A!Settled
    BY <1>3, LeastEntry DEF A!Of
  <2>2. etharp_cached_entry' \in A!Index /\ A!Stable(arp_table[etharp_cached_entry'])
    BY <2>1 DEF A!Settled
  <2>. QED BY <1>1, <1>3, <2>2, SentAtOnce
<1>4. CASE A!Of(h) \cap A!Settled = {} /\ A!etharp_query(h, <<given'>>) /\ UNCHANGED etharp_cached_entry
  <2>1. given' \in Nat /\ given <= given' /\ given < given'
    BY <1>1
  <2>. QED BY <1>1, <1>4, <2>1, QueryWaits
<1>. QED BY <1>2, <1>3, <1>4, Zenon DEF A!etharp_output

LEMMA AskKeeps == ASSUME ArpInv, NEW h \in Hosts, A!Ask(h) PROVE ArpInv'
<1>1. given' = given /\ given \in Nat /\ heard' = heard /\ etharp_cached_entry' = etharp_cached_entry
  BY DEF A!Ask, ArpInv, ArpTyped
<1>2. A!etharp_query(h, <<>>) /\ <<>> \in {<<given'>>, <<>>} /\ <<>> # <<given'>>
  BY DEF A!Ask
<1>3. given' \in Nat /\ given <= given'
  BY <1>1
<1>. QED BY <1>1, <1>2, <1>3, QueryWaits

\* The entries age; what nobody answers for is freed.
LEMMA AgedIs ==
    ASSUME NEW e, NEW n, NEW o, NEW m, NeighbourOK(e, n, o, m)
    PROVE  LET d == A!Aged(e) IN
           /\ NeighbourOK(d, n, o, m)
           /\ d.state # "EMPTY" => e.state # "EMPTY" /\ d.ipaddr = e.ipaddr
<1> DEFINE old == [e EXCEPT !.ctime = @ + 1]
           d == A!Aged(e)
<1>1. e \in Neighbours /\ e.ctime \in Nat
  BY DEF NeighbourOK, Neighbours
<1>2. /\ old \in Neighbours /\ old.state = e.state /\ old.ipaddr = e.ipaddr /\ old.ethaddr = e.ethaddr
      /\ old.q = e.q /\ old.ctime = e.ctime + 1
  <2>1. e.ctime + 1 \in Nat
    BY <1>1
  <2> DEFINE c == e.ctime + 1
  <2>2. old = [e EXCEPT !.ctime = c]
    OBVIOUS
  <2> HIDE DEF c, old
  <2>3. old \in Neighbours
    BY <1>1, <2>1, <2>2 DEF Neighbours, c
  <2>4. old.state = e.state /\ old.ipaddr = e.ipaddr /\ old.ethaddr = e.ethaddr /\ old.q = e.q
    BY <1>1, <2>2 DEF Neighbours
  <2>5. old.ctime = c
    BY <1>1, <2>2 DEF Neighbours
  <2>. QED BY <2>3, <2>4, <2>5 DEF c
<1>3. CASE e.state = "EMPTY"
  <2>1. d = e
    BY <1>3 DEF A!Aged
  <2>. QED BY <1>3, <2>1
<1>4. CASE e.state # "EMPTY" /\ (old.ctime >= ARP_MAXAGE \/ (e.state = "PENDING" /\ old.ctime >= ARP_MAXPENDING))
  <2>1. d = A!Freed
    BY <1>4 DEF A!Aged
  <2>. QED BY <2>1, FreedIs, FreedIsOK
<1>5. CASE e.state # "EMPTY" /\ ~(old.ctime >= ARP_MAXAGE \/ (e.state = "PENDING" /\ old.ctime >= ARP_MAXPENDING))
  <2> DEFINE f == IF e.state = "STABLE_REREQUESTING" THEN [old EXCEPT !.state = "STABLE"] ELSE old
  <2>1. d = f
    BY <1>5 DEF A!Aged
  <2> HIDE DEF old, d
  <2>2. /\ f \in Neighbours /\ f.ipaddr = e.ipaddr /\ f.ethaddr = e.ethaddr /\ f.q = e.q
        /\ f.ctime = e.ctime + 1 /\ (f.state = "PENDING" <=> e.state = "PENDING") /\ f.state # "EMPTY"
        /\ A!Stable(f) <=> A!Stable(e)
    <3>1. CASE e.state = "STABLE_REREQUESTING"
      BY <1>2, <3>1 DEF Neighbours, A!Stable
    <3>2. CASE e.state # "STABLE_REREQUESTING"
      BY <1>2, <1>5, <3>2 DEF A!Stable
    <3>. QED BY <3>1, <3>2
  <2> HIDE DEF f
  <2>3. f.ctime < ARP_MAXAGE /\ (f.state = "PENDING" => f.ctime < ARP_MAXPENDING)
    BY <1>1, <1>2, <1>5, <2>2, ArpNumbers
  <2>4. NeighbourOK(f, n, o, m)
    BY <1>5, <2>2, <2>3 DEF NeighbourOK
  <2>. QED BY <1>5, <2>1, <2>2, <2>4 DEF d
<1>. QED BY <1>3, <1>4, <1>5

LEMMA AgeingKeeps == ASSUME ArpInv, A!etharp_tmr PROVE ArpInv'
<1>1. /\ etharp_cached_entry' = etharp_cached_entry /\ given' = given /\ sent' = sent /\ heard' = heard
      /\ arp_table' = [i \in A!Index |-> A!Aged(arp_table[i])]
  BY DEF A!etharp_tmr
<1>2. \A i \in A!Index :
        /\ NeighbourOK(A!Aged(arp_table[i]), given, sent, heard)
        /\ A!Aged(arp_table[i]).state # "EMPTY" =>
             arp_table[i].state # "EMPTY" /\ A!Aged(arp_table[i]).ipaddr = arp_table[i].ipaddr
  BY AgedIs DEF ArpInv
<1>3. \A i \in A!Index : arp_table'[i] = A!Aged(arp_table[i]) /\ A!Aged(arp_table[i]) \in Neighbours
  BY <1>1, <1>2 DEF NeighbourOK
<1>4. arp_table' \in [A!Index -> Neighbours]
  BY <1>1, <1>3
<1>5. ArpTyped'
  BY <1>1, <1>4 DEF ArpInv, ArpTyped
<1>6. \A i \in A!Index : NeighbourOK(arp_table'[i], given', sent', heard')
  BY <1>1, <1>2, <1>3
<1>7. \A i, j \in A!Index :
         i # j /\ arp_table'[i].state # "EMPTY" /\ arp_table'[j].state # "EMPTY" =>
           arp_table'[i].ipaddr # arp_table'[j].ipaddr
  BY <1>2, <1>3 DEF ArpInv
<1>. QED BY <1>5, <1>6, <1>7 DEF ArpInv

LEMMA ArpInductive == ArpInv /\ [A!Next]_etharpVars => ArpInv'
<1> SUFFICES ASSUME ArpInv, [A!Next]_etharpVars PROVE ArpInv'
  OBVIOUS
<1>1. CASE UNCHANGED etharpVars
  BY <1>1 DEF etharpVars, ArpInv, ArpTyped
<1>2. CASE A!Next
  BY <1>2, AgeingKeeps, OutputKeeps, AskKeeps, HearKeeps DEF A!Next
<1>. QED BY <1>1, <1>2

\* What the invariant says of the table.
LEMMA TableIsSound == ArpInv => A!TypeOK /\ A!TableSound
<1> SUFFICES ASSUME ArpInv PROVE A!TypeOK /\ A!TableSound
  OBVIOUS
<1>1. \A i \in A!Index : NeighbourOK(arp_table[i], given, sent, heard) /\ arp_table[i] \in Neighbours
  BY DEF ArpInv, NeighbourOK
<1>2. A!TypeOK
  <2>1. etharp_cached_entry \in A!Index
    BY DEF ArpInv, ArpTyped
  <2>. QED BY <1>1, <2>1 DEF A!TypeOK, NeighbourOK, Neighbours
<1>3. \A i, j \in A!Index \ A!Empty : i # j => arp_table[i].ipaddr # arp_table[j].ipaddr
  BY DEF ArpInv, A!Empty
<1>4. ASSUME NEW i \in A!Index
      PROVE  LET e == arp_table[i] IN
             /\ e.q # <<>> => e.state = "PENDING" /\ Len(e.q) <= QLEN /\ e.ctime < ARP_MAXPENDING
             /\ \A k \in DOMAIN e.q : e.q[k] > (IF k = 1 THEN sent[e.ipaddr] ELSE e.q[k - 1])
             /\ A!Stable(e) => e.ethaddr = heard[e.ipaddr]
  <2> DEFINE e == arp_table[i]
  <2>1. NeighbourOK(e, given, sent, heard) /\ e.q \in Seq(Nat)
    BY <1>1 DEF Neighbours
  <2> HIDE DEF e
  <2>2. e.q # <<>> => e.state = "PENDING" /\ Len(e.q) <= QLEN /\ e.ctime < ARP_MAXPENDING
    BY <2>1 DEF NeighbourOK
  <2>3. \A k \in DOMAIN e.q : e.q[k] > (IF k = 1 THEN sent[e.ipaddr] ELSE e.q[k - 1])
    <3>1. DOMAIN e.q = 1..Len(e.q)
      BY <2>1
    <3>2. CASE e.q = <<>>
      BY <3>1, <3>2
    <3>3. CASE e.q # <<>>
      <4>1. InTurn(e.q, sent[e.ipaddr], given)
        BY <2>1, <2>2, <3>3 DEF NeighbourOK
      <4>. QED BY <3>1, <4>1 DEF InTurn
    <3>. QED BY <3>2, <3>3
  <2>4. A!Stable(e) => e.ethaddr = heard[e.ipaddr]
    BY <2>1 DEF NeighbourOK
  <2>. QED BY <2>2, <2>3, <2>4 DEF e
<1>5. A!TableSound
  BY <1>3, <1>4 DEF A!TableSound
<1>. QED BY <1>2, <1>5

-----------------------------------------------------------------------------
LEMMA NeighboursAlone == [MCNext]_mcVars => [A!Next]_etharpVars
  BY DEF MCNext, Others, mcVars

LEMMA GroupsAlone == [MCNext]_mcVars => [G!Next]_igmpVars
  BY DEF MCNext, Others, mcVars

\* A neighbour's packets wait in one entry, leave in the order they came and go
\* to the mac it was last heard with, whatever entries age or make place
\* (etharp.c); a netif lets through the groups that are in use on it, a query
\* is answered in time, and routers are told of the last leave (igmp.c).
THEOREM LinkIsSound == MCSpec => []LinkSound
<1>1. MCInit => ArpInv /\ IgmpInv
  <2>1. MCInit => A!Init /\ G!Init
    BY DEF MCInit
  <2>. QED BY <2>1, ArpInitially, IgmpInitially
<1>2. ArpInv /\ IgmpInv /\ [MCNext]_mcVars => (ArpInv /\ IgmpInv)'
  BY NeighboursAlone, GroupsAlone, ArpInductive, IgmpInductive
<1>3. ArpInv /\ IgmpInv => LinkSound
  BY TableIsSound, GroupsAreSound DEF LinkSound
<1>. QED BY <1>1, <1>2, <1>3, PTL DEF MCSpec

-----------------------------------------------------------------------------
(* DHCP: what a client does with its state.                                 *)

LEMMA DhcpNumbers ==
    /\ REQUEST_TRIES \in Nat \ {0} /\ REBIND_TRIES \in Nat \ {0} /\ REBOOT_TRIES \in Nat \ {0}
    /\ DHCP_MAXRTX \in Nat /\ FIRST \in Nat \ {0} /\ LAST \in Nat /\ FIRST <= LAST
    /\ LEASE \in Nat \ {0} /\ MAX_STATION_NUM \in Nat /\ MAX_STATION_NUM >= 2
    /\ CHANNEL \in Nat \ {0} /\ EVENTS \in Nat
  BY PartsAssumption DEF S!DhcpAssumption, S!ANY

USE DhcpNumbers

LEMMA LeastOfTwo == \A x, y \in Int : S!Min({x, y}) = IF x <= y THEN x ELSE y
<1> SUFFICES ASSUME NEW x \in Int, NEW y \in Int PROVE S!Min({x, y}) = IF x <= y THEN x ELSE y
  OBVIOUS
<1>1. CASE x <= y
  BY <1>1 DEF S!Min
<1>2. CASE x > y
  BY <1>2 DEF S!Min
<1>. QED BY <1>1, <1>2

LEMMA GreatestOfTwo == \A x, y \in Int : S!Max({x, y}) = IF x >= y THEN x ELSE y
<1> SUFFICES ASSUME NEW x \in Int, NEW y \in Int PROVE S!Max({x, y}) = IF x >= y THEN x ELSE y
  OBVIOUS
<1>1. CASE x >= y
  BY <1>1 DEF S!Max
<1>2. CASE x < y
  BY <1>2 DEF S!Max
<1>. QED BY <1>1, <1>2

LEMMA MostTries == S!Most \in Nat /\ S!Most >= 2
<1> DEFINE few == {REQUEST_TRIES, REBIND_TRIES, REBOOT_TRIES, DHCP_MAXRTX, 2}
<1>1. \E x \in few : \A y \in few : x >= y
  OBVIOUS
<1>2. S!Max(few) \in few /\ \A y \in few : S!Max(few) >= y
  BY <1>1 DEF S!Max
<1>3. few \subseteq Nat /\ 2 \in few
  OBVIOUS
<1>4. S!Max(few) \in Nat /\ S!Max(few) >= 2
  BY <1>2, <1>3
<1>. QED BY <1>4 DEF S!Most

Addr == {x \in Nat : x = 0 \/ x >= FIRST}
States ==
    {"OFF", "BACKING_OFF", "SELECTING", "REQUESTING", "CHECKING", "BOUND", "RENEWING", "REBINDING",
     "REBOOTING"}
Msgs ==
    [type : {"DISCOVER", "REQUEST", "DECLINE", "RELEASE"}, current : BOOLEAN, ciaddr : Addr,
     requested : Addr]
Answers == [type : {"OFFER", "ACK", "NAK"}, current : BOOLEAN, yiaddr : Addr, lease : {LEASE}]
Clients ==
    [state : States, tries : 0..S!Most, armed : BOOLEAN, t1 : 0..LEASE, t2 : 0..LEASE,
     renew : 0..LEASE, rebind : 0..LEASE, drawn : BOOLEAN, offered : Addr, up : BOOLEAN,
     ip : Addr, out : Seq(Msgs)]

SameLease(q, n) ==
    /\ n.offered = q.offered /\ n.up = q.up /\ n.ip = q.ip /\ n.t1 = q.t1 /\ n.t2 = q.t2
    /\ n.renew = q.renew /\ n.rebind = q.rebind
\* A client that runs has a timer or a lease, and its address is the offered one.
Goes(n) ==
    /\ n.state \notin {"OFF", "BOUND"} => n.armed
    /\ n.state = "BOUND" => n.up /\ n.t2 > 0
    /\ n.up => n.state \in {"BOUND", "RENEWING", "REBINDING"} /\ n.ip = n.offered
Quiet(n) == n.out = <<>> /\ ~n.drawn

\* What a handler leaves: the messages of a new transaction, that starts with
\* no address, or at most a REQUEST of the same one.
Anew(n) ==
    /\ n.drawn /\ ~n.up /\ n.state # "CHECKING"
    /\ \E m \in Msgs : /\ m.current /\ m.type # "REQUEST"
                       /\ n.out = <<m>> \/ \E o \in Msgs : ~o.current /\ n.out = <<o, m>>
Further(n) ==
    /\ ~n.drawn
    /\ n.out = <<>> \/ \E m \in Msgs : /\ m.current /\ n.out = <<m>>
                                       /\ m.type = "REQUEST" =>
                                            m.requested = n.offered /\ n.state # "SELECTING"
\* From q to n; granted: with an acknowledgement.
Leads(q, n, granted) ==
    /\ n \in Clients /\ Goes(n)
    /\ \/ Anew(n)
       \/ /\ Further(n)
          /\ n.offered = q.offered \/ q.state = "SELECTING"
          /\ n.state = "SELECTING" => q.state = "SELECTING"
          /\ n.state = "CHECKING" \/ n.up => q.state = "CHECKING" \/ q.up \/ granted

LEMMA SetState ==
    ASSUME NEW n \in Clients, NEW s \in States
    PROVE  /\ S!dhcp_set_state(n, s) \in Clients
           /\ S!dhcp_set_state(n, s).state = s
           /\ S!dhcp_set_state(n, s).tries = IF s = n.state THEN n.tries ELSE 0
           /\ SameLease(n, S!dhcp_set_state(n, s))
           /\ S!dhcp_set_state(n, s).out = n.out /\ S!dhcp_set_state(n, s).drawn = n.drawn
<1>1. 0 \in 0..S!Most
  BY MostTries
<1>2. CASE s = n.state
  BY <1>2 DEF S!dhcp_set_state, SameLease
<1>3. CASE s # n.state
  <2> DEFINE q == [n EXCEPT !.state = s, !.tries = 0, !.armed = FALSE]
  <2>1. S!dhcp_set_state(n, s) = q
    BY <1>3 DEF S!dhcp_set_state
  <2>2. q \in Clients
    BY <1>1 DEF Clients
  <2>3. q.state = s /\ q.tries = 0 /\ SameLease(n, q) /\ q.out = n.out
    BY DEF Clients, SameLease
  <2>4. q.drawn = n.drawn
    BY DEF Clients
  <2> HIDE DEF q
  <2>. QED BY <1>3, <2>1, <2>2, <2>3, <2>4
<1>. QED BY <1>2, <1>3

LEMMA MessageIs ==
    ASSUME NEW n \in Clients, NEW ty \in {"DISCOVER", "REQUEST", "DECLINE", "RELEASE"}
    PROVE  /\ S!Message(n, ty) \in Msgs /\ S!Message(n, ty).current
           /\ S!Message(n, ty).type = ty
           /\ ty = "REQUEST" => S!Message(n, ty).requested = n.offered
<1>1. 0 \in Addr /\ n.ip \in Addr /\ n.offered \in Addr
  BY DEF Addr, Clients
<1>. QED BY <1>1 DEF S!Message, Msgs, S!ANY

LEMMA Tried == \A k \in 0..S!Most : S!Min({k + 1, S!Most}) \in 0..S!Most
  BY MostTries, LeastOfTwo

\* Messages of an old transaction.
LEMMA OutdatedIs ==
    ASSUME NEW q
    PROVE  /\ q \in Seq(Msgs) =>
                /\ S!Outdated(q) \in Seq(Msgs) /\ Len(S!Outdated(q)) = Len(q)
                /\ \A i \in 1..Len(q) : ~S!Outdated(q)[i].current
           /\ q \in Seq(Answers) =>
                /\ S!Outdated(q) \in Seq(Answers) /\ Len(S!Outdated(q)) = Len(q)
                /\ \A i \in 1..Len(q) : ~S!Outdated(q)[i].current
<1> DEFINE o == S!Outdated(q)
<1>1. ASSUME q \in Seq(Msgs) \/ q \in Seq(Answers)
      PROVE  o = [i \in 1..Len(q) |-> [q[i] EXCEPT !.current = FALSE]]
  BY <1>1 DEF S!Outdated
<1>2. ASSUME q \in Seq(Msgs), NEW i \in 1..Len(q)
      PROVE  [q[i] EXCEPT !.current = FALSE] \in Msgs /\ [q[i] EXCEPT !.current = FALSE].current = FALSE
  <2>1. q[i] \in Msgs
    BY <1>2
  <2>. QED BY <2>1 DEF Msgs
<1>3. ASSUME q \in Seq(Answers), NEW i \in 1..Len(q)
      PROVE  [q[i] EXCEPT !.current = FALSE] \in Answers /\ [q[i] EXCEPT !.current = FALSE].current = FALSE
  <2>1. q[i] \in Answers
    BY <1>3
  <2>. QED BY <2>1 DEF Answers
<1>4. CASE q \in Seq(Msgs)
  <2>1. o = [i \in 1..Len(q) |-> [q[i] EXCEPT !.current = FALSE]] /\ Len(q) \in Nat
    BY <1>1, <1>4
  <2> HIDE DEF o
  <2>2. o \in [1..Len(q) -> Msgs]
    BY <2>1, <1>2, <1>4
  <2>3. o \in Seq(Msgs) /\ Len(o) = Len(q)
    BY <2>1, <2>2
  <2>4. \A i \in 1..Len(q) : ~o[i].current
    BY <2>1, <1>2, <1>4
  <2>5. q \in Seq(Answers) => o \in Seq(Answers)
    <3>1. ASSUME q \in Seq(Answers) PROVE o \in [1..Len(q) -> Answers]
      BY <2>1, <1>3, <3>1
    <3>. QED BY <3>1, <2>1
  <2>. QED BY <2>3, <2>4, <2>5 DEF o
<1>5. CASE q \in Seq(Answers)
  <2>1. o = [i \in 1..Len(q) |-> [q[i] EXCEPT !.current = FALSE]] /\ Len(q) \in Nat
    BY <1>1, <1>5
  <2> HIDE DEF o
  <2>2. o \in [1..Len(q) -> Answers]
    BY <2>1, <1>3, <1>5
  <2>3. o \in Seq(Answers) /\ Len(o) = Len(q)
    BY <2>1, <2>2
  <2>4. \A i \in 1..Len(q) : ~o[i].current
    BY <2>1, <1>3, <1>5
  <2>5. q \in Seq(Msgs) => o \in Seq(Msgs)
    <3>1. ASSUME q \in Seq(Msgs) PROVE o \in [1..Len(q) -> Msgs]
      BY <2>1, <1>2, <3>1
    <3>. QED BY <3>1, <2>1
  <2>. QED BY <2>3, <2>4, <2>5 DEF o
<1>. QED BY <1>4, <1>5

\* The first message of a handler.
LEMMA SendIs ==
    ASSUME NEW n \in Clients, NEW ty \in {"DISCOVER", "REQUEST", "DECLINE", "RELEASE"}, n.out = <<>>
    PROVE  /\ S!Send(n, ty) \in Clients
           /\ S!Send(n, ty).armed
           /\ S!Send(n, ty).drawn = (n.drawn \/ (ty # "REQUEST" /\ n.tries = 0))
           /\ S!Send(n, ty).out = <<S!Message(n, ty)>>
           /\ S!Send(n, ty).out[1] \in Msgs
           /\ SameLease(n, S!Send(n, ty)) /\ S!Send(n, ty).state = n.state
<1> DEFINE new == ty # "REQUEST" /\ n.tries = 0
           m == S!Message(n, ty)
           o == Append(IF new THEN S!Outdated(n.out) ELSE n.out, m)
<1>1. m \in Msgs
  BY MessageIs
<1>2. o = <<m>>
  <2>1. <<>> \in Seq(Msgs) /\ Len(<<>>) = 0
    OBVIOUS
  <2>2. S!Outdated(<<>>) \in Seq(Msgs) /\ Len(S!Outdated(<<>>)) = 0
    BY <2>1, OutdatedIs
  <2>3. S!Outdated(n.out) = <<>>
    BY <2>2
  <2>4. n.out = <<>> /\ Append(<<>>, m) = <<m>>
    OBVIOUS
  <2>5. (IF new THEN S!Outdated(n.out) ELSE n.out) = <<>>
    BY <2>3, <2>4
  <2>. QED BY <2>4, <2>5
<1>3. <<m>> \in Seq(Msgs)
  BY <1>1
<1>4. n.tries \in 0..S!Most /\ n.drawn \in BOOLEAN
  BY DEF Clients
<1>5. (n.drawn \/ new) \in BOOLEAN
  OBVIOUS
<1>6. S!Min({n.tries + 1, S!Most}) \in 0..S!Most
  BY <1>4, Tried
<1>7. S!Send(n, ty) = [n EXCEPT !.drawn = n.drawn \/ new, !.out = o,
                                !.tries = S!Min({n.tries + 1, S!Most}), !.armed = TRUE]
  BY DEF S!Send
<1> HIDE DEF new, m, o
<1>8. S!Send(n, ty) \in Clients
  BY <1>2, <1>3, <1>5, <1>6, <1>7 DEF Clients
<1>9. S!Send(n, ty).drawn = (n.drawn \/ new)
  BY <1>7, Zenon DEF Clients
<1>10. /\ S!Send(n, ty).armed /\ S!Send(n, ty).out = o
       /\ SameLease(n, S!Send(n, ty)) /\ S!Send(n, ty).state = n.state
  BY <1>7 DEF Clients, SameLease
<1>. QED BY <1>1, <1>2, <1>8, <1>9, <1>10 DEF new, m

Rests(n) == n \in Clients /\ Quiet(n)
Requests == {"REQUESTING", "RENEWING", "REBINDING", "REBOOTING"}

LEMMA RequestIs ==
    ASSUME NEW n, Rests(n), NEW s \in Requests
    PROVE  LET q == S!Send(S!dhcp_set_state(n, s), "REQUEST")
           IN /\ q \in Clients /\ q.state = s /\ q.armed /\ SameLease(n, q) /\ Further(q)
<1> DEFINE p == S!dhcp_set_state(n, s)
           q == S!Send(p, "REQUEST")
           m == S!Message(p, "REQUEST")
<1>0. s \in States /\ n \in Clients /\ n.out = <<>> /\ ~n.drawn
  BY DEF Requests, States, Rests, Quiet
<1>1. p \in Clients /\ p.state = s /\ SameLease(n, p) /\ p.out = <<>> /\ ~p.drawn
  BY <1>0, SetState
<1>2. m \in Msgs /\ m.current /\ m.type = "REQUEST" /\ m.requested = p.offered
  BY <1>1, MessageIs
<1>3. /\ q \in Clients /\ q.armed /\ ~q.drawn /\ q.out = <<m>> /\ SameLease(p, q) /\ q.state = s
  <2> HIDE DEF p
  <2>1. "REQUEST" \in {"DISCOVER", "REQUEST", "DECLINE", "RELEASE"}
    OBVIOUS
  <2>2. /\ q \in Clients /\ q.armed /\ q.out = <<m>> /\ SameLease(p, q) /\ q.state = p.state
        /\ q.drawn = (p.drawn \/ ("REQUEST" # "REQUEST" /\ p.tries = 0))
    BY <1>1, <2>1, SendIs
  <2>. QED BY <1>1, <2>2
<1> HIDE DEF p, q, m
<1>4. SameLease(n, q)
  BY <1>1, <1>3 DEF SameLease
<1>5. m.requested = q.offered
  BY <1>2, <1>3 DEF SameLease
<1>6. q.state # "SELECTING"
  BY <1>3 DEF Requests
<1>7. Further(q)
  BY <1>2, <1>3, <1>5, <1>6 DEF Further
<1>. QED BY <1>3, <1>4, <1>7 DEF p, q

LEMMA DiscoverIs ==
    ASSUME NEW n, Rests(n), ~n.up
    PROVE  LET q == S!dhcp_discover(n)
           IN /\ q \in Clients /\ Goes(q) /\ q.state = "SELECTING" /\ ~q.up
              /\ Anew(q) \/ (Further(q) /\ n.state = "SELECTING")
<1> DEFINE r == [n EXCEPT !.offered = 0]
           p == S!dhcp_set_state(r, "SELECTING")
           q == S!Send(p, "DISCOVER")
           m == S!Message(p, "DISCOVER")
<1>0. n \in Clients /\ n.out = <<>> /\ ~n.drawn /\ "SELECTING" \in States /\ 0 \in Addr
  BY DEF States, Rests, Quiet, Addr
<1>1. r \in Clients /\ r.out = <<>> /\ r.drawn = n.drawn /\ r.state = n.state /\ r.up = n.up
  BY <1>0 DEF Clients
<1>2. /\ p \in Clients /\ p.state = "SELECTING" /\ p.out = <<>> /\ ~p.drawn /\ ~p.up
      /\ n.state # "SELECTING" => p.tries = 0
  <2> HIDE DEF r
  <2>. QED BY <1>0, <1>1, SetState DEF SameLease
<1>3. m \in Msgs /\ m.current /\ m.type = "DISCOVER"
  BY <1>2, MessageIs
<1>4. /\ q \in Clients /\ q.armed /\ q.out = <<m>> /\ SameLease(p, q) /\ q.state = "SELECTING"
      /\ n.state # "SELECTING" => q.drawn
  <2> HIDE DEF p
  <2>1. "DISCOVER" \in {"DISCOVER", "REQUEST", "DECLINE", "RELEASE"} /\ "DISCOVER" # "REQUEST"
    OBVIOUS
  <2>2. /\ q \in Clients /\ q.armed /\ q.out = <<m>> /\ SameLease(p, q) /\ q.state = p.state
        /\ q.drawn = (p.drawn \/ ("DISCOVER" # "REQUEST" /\ p.tries = 0))
    BY <1>2, <2>1, SendIs
  <2>. QED BY <1>2, <2>1, <2>2
<1>5. S!dhcp_discover(n) = q
  BY DEF S!dhcp_discover, S!ANY
<1> HIDE DEF r, p, q, m
<1>6. ~q.up
  BY <1>2, <1>4 DEF SameLease
<1>7. Goes(q)
  BY <1>4, <1>6 DEF Goes
<1>8. CASE q.drawn
  <2>1. Anew(q)
    BY <1>3, <1>4, <1>6, <1>8 DEF Anew
  <2>. QED BY <1>4, <1>5, <1>6, <1>7, <2>1
<1>9. CASE ~q.drawn
  <2>1. Further(q)
    BY <1>3, <1>4, <1>9 DEF Further
  <2>. QED BY <1>4, <1>5, <1>6, <1>7, <1>9, <2>1
<1>. QED BY <1>8, <1>9

\* A handler that ends with it.
LEMMA Discovered ==
    ASSUME NEW n, Rests(n), ~n.up, NEW p, n.state = "SELECTING" => p.state = "SELECTING", NEW g
    PROVE  Leads(p, S!dhcp_discover(n), g)
<1> DEFINE q == S!dhcp_discover(n)
<1>1. /\ q \in Clients /\ Goes(q) /\ q.state = "SELECTING" /\ ~q.up
      /\ Anew(q) \/ (Further(q) /\ n.state = "SELECTING")
  BY DiscoverIs
<1> HIDE DEF q
<1>2. Leads(p, q, g)
  BY <1>1 DEF Leads
<1>. QED BY <1>2 DEF q

LEMMA DeclineIs ==
    ASSUME NEW n, Rests(n), ~n.up, n.state = "CHECKING", NEW p, NEW g
    PROVE  Leads(p, S!dhcp_decline(n), g)
<1> DEFINE r == S!dhcp_set_state(n, "BACKING_OFF")
           q == S!Send(r, "DECLINE")
           m == S!Message(r, "DECLINE")
<1>0. n \in Clients /\ n.out = <<>> /\ ~n.drawn /\ "BACKING_OFF" \in States
  BY DEF States, Rests, Quiet
<1>1. /\ r \in Clients /\ r.state = "BACKING_OFF" /\ r.out = <<>> /\ ~r.drawn /\ ~r.up /\ r.tries = 0
  BY <1>0, SetState DEF SameLease
<1>2. m \in Msgs /\ m.current /\ m.type = "DECLINE"
  BY <1>1, MessageIs
<1>3. /\ q \in Clients /\ q.armed /\ q.out = <<m>> /\ SameLease(r, q) /\ q.state = "BACKING_OFF"
      /\ q.drawn
  <2> HIDE DEF r
  <2>1. "DECLINE" \in {"DISCOVER", "REQUEST", "DECLINE", "RELEASE"} /\ "DECLINE" # "REQUEST"
    OBVIOUS
  <2>2. /\ q \in Clients /\ q.armed /\ q.out = <<m>> /\ SameLease(r, q) /\ q.state = r.state
        /\ q.drawn = (r.drawn \/ ("DECLINE" # "REQUEST" /\ r.tries = 0))
    BY <1>1, <2>1, SendIs
  <2>. QED BY <1>1, <2>1, <2>2
<1>4. S!dhcp_decline(n) = q
  BY DEF S!dhcp_decline
<1> HIDE DEF r, q, m
<1>5. ~q.up
  BY <1>1, <1>3 DEF SameLease
<1>6. Goes(q)
  BY <1>3, <1>5 DEF Goes
<1>7. Anew(q)
  BY <1>2, <1>3, <1>5 DEF Anew
<1>8. Leads(p, q, g)
  BY <1>3, <1>6, <1>7 DEF Leads
<1>. QED BY <1>4, <1>8

\* A message that starts a transaction.
LEMMA SendNew ==
    ASSUME NEW n \in Clients, NEW ty \in {"DISCOVER", "DECLINE", "RELEASE"}, n.tries = 0
    PROVE  /\ S!Send(n, ty) \in Clients /\ S!Send(n, ty).armed /\ S!Send(n, ty).drawn
           /\ S!Send(n, ty).out = Append(S!Outdated(n.out), S!Message(n, ty))
           /\ SameLease(n, S!Send(n, ty)) /\ S!Send(n, ty).state = n.state
<1> DEFINE m == S!Message(n, ty)
           o == Append(S!Outdated(n.out), m)
           k == S!Min({n.tries + 1, S!Most})
           q == [n EXCEPT !.drawn = TRUE, !.out = o, !.tries = k, !.armed = TRUE]
<1>1. m \in Msgs
  BY MessageIs
<1>2. n.out \in Seq(Msgs) /\ n.tries \in 0..S!Most
  BY DEF Clients
<1>3. S!Outdated(n.out) \in Seq(Msgs)
  BY <1>2, OutdatedIs
<1>4. o \in Seq(Msgs)
  <2> HIDE DEF m
  <2>. QED BY <1>1, <1>3
<1>5. k \in 0..S!Most
  BY <1>2, Tried
<1>6. S!Send(n, ty) = q
  <2>1. ty # "REQUEST" /\ n.tries = 0
    OBVIOUS
  <2>2. (n.drawn \/ (ty # "REQUEST" /\ n.tries = 0)) = TRUE
    BY <2>1, Zenon
  <2>. QED BY <2>1, <2>2 DEF S!Send
<1> HIDE DEF m, o, k
<1>7. q \in Clients /\ q.armed /\ q.drawn /\ q.out = o /\ SameLease(n, q) /\ q.state = n.state
  BY <1>4, <1>5 DEF Clients, SameLease
<1>. QED BY <1>6, <1>7 DEF o, m

LEMMA SecondOf ==
    ASSUME NEW T, NEW y \in Seq(T), Len(y) = 1, NEW x \in T
    PROVE  Append(y, x) = <<y[1], x>>
<1> DEFINE t == Append(y, x)
           z == <<y[1], x>>
<1>1. y[1] \in T
  OBVIOUS
<1>2. t \in Seq(T) /\ Len(t) = 2 /\ t[1] = y[1] /\ t[2] = x
  <2>1. /\ t \in Seq(T) /\ Len(t) = Len(y) + 1 /\ \A i \in 1..Len(y) : t[i] = y[i]
        /\ t[Len(y) + 1] = x
    BY AppendProperties
  <2> HIDE DEF t
  <2>. QED BY <2>1
<1>3. z \in Seq(T) /\ Len(z) = 2 /\ z[1] = y[1] /\ z[2] = x
  BY <1>1
<1> HIDE DEF t, z
<1>4. \A i \in 1..Len(t) : t[i] = z[i]
  BY <1>2, <1>3
<1>5. t = z
  BY <1>2, <1>3, <1>4, SeqEqual
<1>. QED BY <1>5 DEF t, z

\* The tries have run out: the lease is given back, and it starts over.
LEMMA Restarted ==
    ASSUME NEW n, Rests(n), n.state \in {"REQUESTING", "REBINDING"}, NEW p, NEW g
    PROVE  Leads(p, S!dhcp_discover(S!dhcp_release(n)), g)
<1> DEFINE a == S!dhcp_set_state(n, "OFF")
           b == [a EXCEPT !.offered = 0, !.renew = 0, !.rebind = 0]
           d == S!Send(b, "RELEASE")
           e == [d EXCEPT !.up = FALSE, !.ip = 0]
           f == [e EXCEPT !.offered = 0]
           h == S!dhcp_set_state(f, "SELECTING")
           q == S!Send(h, "DISCOVER")
           m == S!Message(b, "RELEASE")
           x == S!Message(h, "DISCOVER")
<1>0. /\ n \in Clients /\ n.out = <<>> /\ ~n.drawn /\ 0 \in Addr /\ 0 \in 0..LEASE
      /\ {"OFF", "SELECTING"} \subseteq States
  BY DEF States, Rests, Quiet, Addr
<1>1. a \in Clients /\ a.tries = 0 /\ a.out = <<>> /\ a.state = "OFF"
  BY <1>0, SetState
<1>2. b \in Clients /\ b.tries = 0 /\ b.out = <<>> /\ b.state = "OFF"
  <2> HIDE DEF a
  <2>. QED BY <1>0, <1>1 DEF Clients
<1>3. d \in Clients /\ d.out = <<m>> /\ d.state = "OFF" /\ m \in Msgs
  <2> HIDE DEF b
  <2>1. "RELEASE" \in {"DISCOVER", "REQUEST", "DECLINE", "RELEASE"}
    OBVIOUS
  <2>. QED BY <1>2, <2>1, SendIs, MessageIs
<1>4. f \in Clients /\ f.out = <<m>> /\ f.state = "OFF" /\ ~f.up
  <2> HIDE DEF d
  <2>. QED BY <1>0, <1>3 DEF Clients
<1>5. h \in Clients /\ h.tries = 0 /\ h.out = <<m>> /\ h.state = "SELECTING" /\ ~h.up
  <2> HIDE DEF f
  <2>. QED BY <1>0, <1>4, SetState DEF SameLease
<1>6. x \in Msgs /\ x.current /\ x.type = "DISCOVER"
  BY <1>5, MessageIs
<1>7. /\ q \in Clients /\ q.armed /\ q.drawn /\ q.out = Append(S!Outdated(<<m>>), x)
      /\ ~q.up /\ q.state = "SELECTING"
  <2> HIDE DEF h
  <2>1. "DISCOVER" \in {"DISCOVER", "DECLINE", "RELEASE"}
    OBVIOUS
  <2>2. /\ q \in Clients /\ q.armed /\ q.drawn /\ q.out = Append(S!Outdated(h.out), x)
        /\ SameLease(h, q) /\ q.state = h.state
    BY <1>5, <2>1, SendNew
  <2>3. h.out = <<m>> /\ ~h.up /\ h.state = "SELECTING"
    BY <1>5
  <2> HIDE DEF q, m, x
  <2>. QED BY <2>2, <2>3 DEF SameLease
<1>8. \E o \in Msgs : ~o.current /\ q.out = <<o, x>>
  <2> DEFINE y == S!Outdated(<<m>>)
  <2> HIDE DEF q, m, x
  <2>1. m \in Msgs
    BY <1>3
  <2>2. <<m>> \in Seq(Msgs) /\ Len(<<m>>) = 1
    BY <2>1
  <2>3. y \in Seq(Msgs) /\ Len(y) = 1 /\ \A i \in 1..1 : ~y[i].current
    BY <2>2, OutdatedIs
  <2>4. q.out = Append(y, x)
    BY <1>7
  <2> HIDE DEF y
  <2>5. y[1] \in Msgs /\ ~y[1].current
    BY <2>3
  <2>6. Append(y, x) = <<y[1], x>>
    BY <1>6, <2>3, SecondOf
  <2>. QED BY <2>4, <2>5, <2>6
<1>9. S!dhcp_discover(S!dhcp_release(n)) = q
  BY DEF S!dhcp_discover, S!dhcp_release, S!NoAddress, S!ANY
<1> HIDE DEF a, b, d, e, f, h, q, m, x
<1>10. Anew(q)
  BY <1>6, <1>7, <1>8 DEF Anew
<1>11. Goes(q)
  BY <1>7 DEF Goes
<1>12. Leads(p, q, g)
  BY <1>7, <1>10, <1>11 DEF Leads
<1>. QED BY <1>9, <1>12

\* The lease begins, or goes on.
LEMMA BindIs ==
    ASSUME NEW n, Rests(n), n.state \in {"CHECKING", "REBOOTING", "RENEWING", "REBINDING"},
           NEW p, p.state # "SELECTING", n.offered = p.offered, NEW g,
           p.state = "CHECKING" \/ p.up \/ g
    PROVE  Leads(p, S!dhcp_bind(n), g)
<1> DEFINE t1 == S!Max({n.renew, 1})
           t2 == S!Max({n.rebind, 1})
           u == IF t1 >= t2 THEN 0 ELSE t1
           r == [n EXCEPT !.t1 = u, !.t2 = t2, !.up = TRUE, !.ip = n.offered]
           q == S!dhcp_set_state(r, "BOUND")
<1>0. n \in Clients /\ n.out = <<>> /\ ~n.drawn /\ "BOUND" \in States
  BY DEF States, Rests, Quiet
<1>1. n.renew \in 0..LEASE /\ n.rebind \in 0..LEASE /\ n.offered \in Addr
  BY <1>0 DEF Clients
<1>2. t1 \in 1..LEASE /\ t2 \in 1..LEASE
  BY <1>1, GreatestOfTwo
<1> HIDE DEF t1, t2
<1>3. u \in 0..LEASE /\ t2 \in 0..LEASE
  BY <1>2
<1> HIDE DEF u
<1>4. /\ r \in Clients /\ r.t2 = t2 /\ r.up /\ r.ip = n.offered /\ r.offered = n.offered
      /\ r.out = <<>> /\ r.drawn = n.drawn /\ r.state = n.state
  BY <1>0, <1>1, <1>3 DEF Clients
<1>5. S!dhcp_bind(n) = q
  BY DEF S!dhcp_bind, t1, t2, u
<1> HIDE DEF r
<1>6. q \in Clients /\ q.state = "BOUND" /\ SameLease(r, q) /\ q.out = <<>> /\ ~q.drawn
  BY <1>0, <1>4, SetState
<1> HIDE DEF q
<1>7. q.up /\ q.t2 > 0 /\ q.ip = q.offered /\ q.offered = p.offered
  BY <1>2, <1>4, <1>6 DEF SameLease
<1>8. Goes(q)
  BY <1>6, <1>7 DEF Goes
<1>9. Further(q)
  BY <1>6 DEF Further
<1>10. Leads(p, q, g)
  BY <1>6, <1>7, <1>8, <1>9 DEF Leads
<1>. QED BY <1>5, <1>10

LEMMA CheckIs ==
    ASSUME NEW n, Rests(n), ~n.up, NEW p, p.state # "SELECTING", n.offered = p.offered, NEW g,
           p.state = "CHECKING" \/ g
    PROVE  Leads(p, S!dhcp_check(n), g)
<1> DEFINE r == S!dhcp_set_state(n, "CHECKING")
           k == S!Min({r.tries + 1, S!Most})
           q == [r EXCEPT !.tries = k, !.armed = TRUE]
<1>0. n \in Clients /\ n.out = <<>> /\ ~n.drawn /\ "CHECKING" \in States
  BY DEF States, Rests, Quiet
<1>1. r \in Clients /\ r.state = "CHECKING" /\ SameLease(n, r) /\ r.out = <<>> /\ r.drawn = n.drawn
  BY <1>0, SetState
<1>2. S!dhcp_check(n) = q
  BY DEF S!dhcp_check
<1> HIDE DEF r
<1>3. k \in 0..S!Most
  <2>1. r.tries \in 0..S!Most
    BY <1>1 DEF Clients
  <2>. QED BY <2>1, Tried
<1> HIDE DEF k
<1>4. /\ q \in Clients /\ q.state = "CHECKING" /\ q.armed /\ q.offered = r.offered /\ q.up = r.up
      /\ q.out = <<>> /\ q.drawn = r.drawn
  BY <1>1, <1>3 DEF Clients
<1> HIDE DEF q
<1>5. ~q.up /\ q.offered = p.offered /\ ~q.drawn
  BY <1>0, <1>1, <1>4 DEF SameLease
<1>6. Goes(q) /\ Further(q)
  BY <1>4, <1>5 DEF Goes, Further
<1>7. Leads(p, q, g)
  BY <1>4, <1>5, <1>6 DEF Leads
<1>. QED BY <1>2, <1>7

\* A REQUEST of the same transaction.
LEMMA Requested ==
    ASSUME NEW n, Rests(n), NEW s \in Requests, NEW p, NEW g,
           n.up => s \in {"RENEWING", "REBINDING"} /\ p.up /\ n.ip = n.offered,
           n.offered = p.offered \/ p.state = "SELECTING"
    PROVE  Leads(p, S!Send(S!dhcp_set_state(n, s), "REQUEST"), g)
<1> DEFINE q == S!Send(S!dhcp_set_state(n, s), "REQUEST")
<1>1. q \in Clients /\ q.state = s /\ q.armed /\ SameLease(n, q) /\ Further(q)
  BY RequestIs
<1> HIDE DEF q
<1>2. q.state \notin {"SELECTING", "CHECKING", "OFF", "BOUND"}
  BY <1>1 DEF Requests
<1>3. Goes(q)
  BY <1>1, <1>2 DEF Goes, SameLease
<1>4. /\ q.offered = p.offered \/ p.state = "SELECTING"
      /\ q.up => p.up
  BY <1>1 DEF SameLease
<1>5. Leads(p, q, g)
  BY <1>1, <1>2, <1>3, <1>4 DEF Leads
<1>. QED BY <1>5 DEF q

\* Nothing is sent and the state stays.
LEMMA Stays ==
    ASSUME NEW n, NEW p, Rests(n), Goes(n), n.state = p.state, n.offered = p.offered, n.up = p.up,
           NEW g
    PROVE  Leads(p, n, g)
  BY DEF Leads, Further, Rests, Quiet

LEMMA FineLeads ==
    ASSUME NEW n, Rests(n), Goes(n), NEW g
    PROVE  Leads(n, S!dhcp_fine_tmr(n), g)
<1> DEFINE r == [n EXCEPT !.armed = FALSE]
<1>1. /\ Rests(r) /\ r.state = n.state /\ r.up = n.up /\ r.offered = n.offered /\ r.ip = n.ip
      /\ r.tries = n.tries /\ r.t2 = n.t2
  BY DEF Rests, Quiet, Clients
<1>2. S!dhcp_fine_tmr(n) = S!dhcp_timeout(r)
  BY DEF S!dhcp_fine_tmr
<1>3. r.state \in States
  BY <1>1 DEF Rests, Clients
<1>4. r.up => r.state \in {"BOUND", "RENEWING", "REBINDING"} /\ r.ip = r.offered
  BY <1>1 DEF Goes
<1> HIDE DEF r
<1>5. CASE r.state \in {"BACKING_OFF", "SELECTING"}
  <2>1. S!dhcp_timeout(r) = S!dhcp_discover(r)
    BY <1>5 DEF S!dhcp_timeout
  <2>2. ~r.up /\ (r.state = "SELECTING" => n.state = "SELECTING")
    BY <1>1, <1>4, <1>5
  <2>. QED BY <1>1, <1>2, <2>1, <2>2, Discovered
<1>6. CASE r.state = "REQUESTING"
  <2>1. CASE r.tries < REQUEST_TRIES
    <3>1. S!dhcp_timeout(r) = S!Send(S!dhcp_set_state(r, "REQUESTING"), "REQUEST")
      BY <1>6, <2>1 DEF S!dhcp_timeout, S!dhcp_select
    <3>2. ~r.up /\ "REQUESTING" \in Requests
      BY <1>4, <1>6 DEF Requests
    <3>. QED BY <1>1, <1>2, <3>1, <3>2, Requested
  <2>2. CASE ~(r.tries < REQUEST_TRIES)
    <3>1. S!dhcp_timeout(r) = S!dhcp_discover(S!dhcp_release(r))
      BY <1>6, <2>2 DEF S!dhcp_timeout
    <3>. QED BY <1>1, <1>2, <1>6, <3>1, Restarted
  <2>. QED BY <2>1, <2>2
<1>7. CASE r.state = "CHECKING"
  <2>1. CASE r.tries <= 1
    <3>1. S!dhcp_timeout(r) = S!dhcp_check(r)
      BY <1>7, <2>1 DEF S!dhcp_timeout
    <3>2. ~r.up /\ n.state # "SELECTING"
      BY <1>1, <1>4, <1>7
    <3>. QED BY <1>1, <1>2, <1>7, <3>1, <3>2, CheckIs
  <2>2. CASE ~(r.tries <= 1)
    <3>1. S!dhcp_timeout(r) = S!dhcp_bind(r)
      BY <1>7, <2>2 DEF S!dhcp_timeout
    <3>2. n.state # "SELECTING"
      BY <1>1, <1>7
    <3>. QED BY <1>1, <1>2, <1>7, <3>1, <3>2, BindIs
  <2>. QED BY <2>1, <2>2
<1>8. CASE r.state = "RENEWING"
  <2>1. S!dhcp_timeout(r) = S!Send(S!dhcp_set_state(r, "RENEWING"), "REQUEST")
    BY <1>8 DEF S!dhcp_timeout, S!dhcp_renew
  <2>2. "RENEWING" \in Requests /\ "RENEWING" \in {"RENEWING", "REBINDING"}
    BY DEF Requests
  <2>. QED BY <1>1, <1>2, <1>4, <2>1, <2>2, Requested
<1>9. CASE r.state = "REBINDING"
  <2>1. CASE r.tries < REBIND_TRIES
    <3>1. S!dhcp_timeout(r) = S!Send(S!dhcp_set_state(r, "REBINDING"), "REQUEST")
      BY <1>9, <2>1 DEF S!dhcp_timeout, S!dhcp_rebind
    <3>2. "REBINDING" \in Requests /\ "REBINDING" \in {"RENEWING", "REBINDING"}
      BY DEF Requests
    <3>. QED BY <1>1, <1>2, <1>4, <3>1, <3>2, Requested
  <2>2. CASE ~(r.tries < REBIND_TRIES)
    <3>1. S!dhcp_timeout(r) = S!dhcp_discover(S!dhcp_release(r))
      BY <1>9, <2>2 DEF S!dhcp_timeout
    <3>. QED BY <1>1, <1>2, <1>9, <3>1, Restarted
  <2>. QED BY <2>1, <2>2
<1>10. CASE r.state = "REBOOTING"
  <2>0. ~r.up /\ r.state # "SELECTING"
    BY <1>4, <1>10
  <2>1. CASE r.tries < REBOOT_TRIES
    <3>1. S!dhcp_timeout(r) = S!Send(S!dhcp_set_state(r, "REBOOTING"), "REQUEST")
      BY <1>10, <2>1 DEF S!dhcp_timeout, S!dhcp_reboot
    <3>2. "REBOOTING" \in Requests
      BY DEF Requests
    <3>. QED BY <1>1, <1>2, <2>0, <3>1, <3>2, Requested
  <2>2. CASE ~(r.tries < REBOOT_TRIES)
    <3>1. S!dhcp_timeout(r) = S!dhcp_discover(r)
      BY <1>10, <2>2 DEF S!dhcp_timeout
    <3>. QED BY <1>1, <1>2, <2>0, <3>1, Discovered
  <2>. QED BY <2>1, <2>2
<1>11. CASE r.state \in {"OFF", "BOUND"}
  <2>1. S!dhcp_timeout(r) = r
    BY <1>11 DEF S!dhcp_timeout
  <2>2. Goes(r)
    BY <1>1, <1>4, <1>11 DEF Goes
  <2>. QED BY <1>1, <1>2, <2>1, <2>2, Stays
<1>. QED BY <1>3, <1>5, <1>6, <1>7, <1>8, <1>9, <1>10, <1>11 DEF States

LEMMA CoarseLeads ==
    ASSUME NEW n, Rests(n), Goes(n), NEW g
    PROVE  Leads(n, S!dhcp_coarse_tmr(n), g)
<1> DEFINE a == S!Max({n.t2 - 1, 0})
           b == S!Max({n.t1 - 1, 0})
           late == [n EXCEPT !.t2 = a]
           soon == [late EXCEPT !.t1 = b]
<1>1. n \in Clients /\ n.t1 \in 0..LEASE /\ n.t2 \in 0..LEASE
  BY DEF Rests, Clients
<1>2. a \in 0..LEASE /\ b \in 0..LEASE /\ (n.t2 > 1 => a > 0)
  BY <1>1, GreatestOfTwo
<1> HIDE DEF a, b
<1>3. /\ Rests(late) /\ late.state = n.state /\ late.up = n.up /\ late.offered = n.offered
      /\ late.ip = n.ip /\ late.armed = n.armed /\ late.t2 = a /\ late.t1 = n.t1
  BY <1>2 DEF Rests, Quiet, Clients
<1>4. S!dhcp_coarse_tmr(n) =
        IF n.t2 = 1 THEN IF S!Leased(n) THEN S!dhcp_rebind(late) ELSE late
        ELSE IF n.t1 = 1 THEN IF S!Leased(n) THEN S!dhcp_renew(soon) ELSE soon
        ELSE soon
  <2>1. soon = [late EXCEPT !.t1 = S!Max({late.t1 - 1, 0})]
    BY <1>3 DEF b
  <2>. QED BY <2>1 DEF S!dhcp_coarse_tmr, a
<1> HIDE DEF late
<1>5. /\ Rests(soon) /\ soon.state = n.state /\ soon.up = n.up /\ soon.offered = n.offered
      /\ soon.ip = n.ip /\ soon.armed = n.armed /\ soon.t2 = a
  BY <1>2, <1>3 DEF Rests, Quiet, Clients
<1> HIDE DEF soon
<1>6. n.up => n.ip = n.offered
  BY DEF Goes
<1>7. CASE n.t2 = 1 /\ S!Leased(n)
  <2>1. S!dhcp_coarse_tmr(n) = S!Send(S!dhcp_set_state(late, "REBINDING"), "REQUEST")
    BY <1>4, <1>7 DEF S!dhcp_rebind
  <2>2. "REBINDING" \in Requests /\ "REBINDING" \in {"RENEWING", "REBINDING"}
    BY DEF Requests
  <2>. QED BY <1>3, <1>6, <2>1, <2>2, Requested
<1>8. CASE n.t2 = 1 /\ ~S!Leased(n)
  <2>1. S!dhcp_coarse_tmr(n) = late
    BY <1>4, <1>8
  <2>2. n.state # "BOUND"
    BY <1>8 DEF S!Leased
  <2>3. Goes(late)
    BY <1>3, <2>2 DEF Goes
  <2>. QED BY <1>3, <2>1, <2>3, Stays
<1>9. CASE n.t2 # 1 /\ n.t1 = 1 /\ S!Leased(n)
  <2>1. S!dhcp_coarse_tmr(n) = S!Send(S!dhcp_set_state(soon, "RENEWING"), "REQUEST")
    BY <1>4, <1>9 DEF S!dhcp_renew
  <2>2. "RENEWING" \in Requests /\ "RENEWING" \in {"RENEWING", "REBINDING"}
    BY DEF Requests
  <2>. QED BY <1>5, <1>6, <2>1, <2>2, Requested
<1>10. CASE n.t2 # 1 /\ ~(n.t1 = 1 /\ S!Leased(n))
  <2>1. S!dhcp_coarse_tmr(n) = soon
    BY <1>4, <1>10
  <2>2. n.state = "BOUND" => soon.up /\ soon.t2 > 0
    BY <1>1, <1>2, <1>5, <1>10 DEF Goes
  <2>3. Goes(soon)
    BY <1>5, <2>2 DEF Goes
  <2>. QED BY <1>5, <2>1, <2>3, Stays
<1>. QED BY <1>7, <1>8, <1>9, <1>10

LEMMA RelinkLeads ==
    ASSUME NEW n, Rests(n), Goes(n), n.state # "OFF", NEW g
    PROVE  Leads(n, S!dhcp_network_changed(n), g)
<1> DEFINE r == [n EXCEPT !.tries = 0]
           q == [r EXCEPT !.up = FALSE]
<1>1. 0 \in 0..S!Most
  BY MostTries
<1>2. Rests(r) /\ r.state = n.state /\ r.up = n.up /\ r.offered = n.offered
  BY <1>1 DEF Rests, Quiet, Clients
<1> HIDE DEF r
<1>3. Rests(q) /\ q.state = n.state /\ ~q.up /\ q.offered = n.offered
  BY <1>2 DEF Rests, Quiet, Clients
<1>4. CASE n.state \in {"REBINDING", "RENEWING", "BOUND", "REBOOTING"}
  <2>1. S!dhcp_network_changed(n) = S!Send(S!dhcp_set_state(q, "REBOOTING"), "REQUEST")
    BY <1>4 DEF S!dhcp_network_changed, S!dhcp_reboot, r
  <2>2. "REBOOTING" \in Requests
    BY DEF Requests
  <2> HIDE DEF q
  <2>. QED BY <1>3, <2>1, <2>2, Requested
<1>5. CASE n.state \notin {"REBINDING", "RENEWING", "BOUND", "REBOOTING"}
  <2>1. S!dhcp_network_changed(n) = S!dhcp_discover(r)
    BY <1>5 DEF S!dhcp_network_changed, r
  <2>2. ~r.up
    BY <1>2, <1>5 DEF Goes
  <2>. QED BY <1>2, <2>1, <2>2, Discovered
<1>. QED BY <1>4, <1>5

LEMMA ArpReplyLeads ==
    ASSUME NEW n, Rests(n), Goes(n), NEW addr, NEW g
    PROVE  Leads(n, S!dhcp_arp_reply(n, addr), g)
<1>1. CASE n.state = "CHECKING" /\ addr = n.offered
  <2>1. ~n.up
    BY <1>1 DEF Goes
  <2>. QED BY <1>1, <2>1, DeclineIs DEF S!dhcp_arp_reply
<1>2. CASE ~(n.state = "CHECKING" /\ addr = n.offered)
  BY <1>2, Stays DEF S!dhcp_arp_reply
<1>. QED BY <1>1, <1>2

LEMMA RecvLeads ==
    ASSUME NEW n, Rests(n), Goes(n), NEW m \in Answers,
           m.current /\ m.type = "ACK" => m.yiaddr = n.offered
    PROVE  Leads(n, S!dhcp_recv(n, m), m.current /\ m.type = "ACK")
<1> DEFINE g == m.current /\ m.type = "ACK"
<1>0. n.up => n.state \in {"BOUND", "RENEWING", "REBINDING"}
  BY DEF Goes
<1>1. CASE m.current /\ m.type = "ACK" /\ n.state = "REQUESTING"
  <2> DEFINE r == S!dhcp_handle_ack(n, m)
  <2>1. m.lease = LEASE /\ m.yiaddr \in Addr /\ (LEASE + 1) \div 2 \in 0..LEASE /\ LEASE \in 0..LEASE
    BY DEF Answers
  <2>2. Rests(r) /\ r.up = n.up /\ r.offered = n.offered
    BY <1>1, <2>1 DEF Rests, Quiet, Clients, S!dhcp_handle_ack
  <2> HIDE DEF r
  <2>3. S!dhcp_recv(n, m) = S!dhcp_check(r)
    BY <1>1 DEF S!dhcp_recv, r
  <2>4. ~r.up /\ n.state # "SELECTING" /\ g
    BY <1>0, <1>1, <2>2
  <2> HIDE DEF g
  <2>5. Leads(n, S!dhcp_check(r), g)
    BY <2>2, <2>4, CheckIs
  <2>. QED BY <2>3, <2>5 DEF g
<1>2. CASE m.current /\ m.type = "ACK" /\ n.state \in {"REBOOTING", "REBINDING", "RENEWING"}
  <2>1. S!dhcp_recv(n, m) = S!dhcp_bind(n)
    BY <1>2 DEF S!dhcp_recv
  <2>2. g /\ n.state # "SELECTING" /\ n.state \in {"CHECKING", "REBOOTING", "RENEWING", "REBINDING"}
    BY <1>2
  <2> HIDE DEF g
  <2>3. Leads(n, S!dhcp_bind(n), g)
    BY <2>2, BindIs
  <2>. QED BY <2>1, <2>3 DEF g
<1>3. CASE /\ m.current /\ m.type = "NAK"
           /\ n.state \in {"REBOOTING", "REQUESTING", "REBINDING", "RENEWING"}
  <2> DEFINE r == [n EXCEPT !.up = FALSE, !.ip = 0]
             q == S!dhcp_set_state(r, "BACKING_OFF")
  <2>1. Rests(r) /\ ~r.up
    BY DEF Rests, Quiet, Clients, Addr
  <2> HIDE DEF r
  <2>2. "BACKING_OFF" \in States
    BY DEF States
  <2>3. Rests(q) /\ ~q.up /\ q.state = "BACKING_OFF"
    BY <2>1, <2>2, SetState DEF Rests, Quiet, SameLease
  <2> HIDE DEF q
  <2>4. S!dhcp_recv(n, m) = S!dhcp_discover(q)
    BY <1>3 DEF S!dhcp_recv, S!dhcp_handle_nak, S!NoAddress, S!ANY, r, q
  <2> HIDE DEF g
  <2>5. Leads(n, S!dhcp_discover(q), g)
    BY <2>3, Discovered
  <2>. QED BY <2>4, <2>5 DEF g
<1>4. CASE m.current /\ m.type = "OFFER" /\ n.state = "SELECTING"
  <2> DEFINE r == [n EXCEPT !.armed = FALSE]
             q == [r EXCEPT !.offered = m.yiaddr]
  <2>1. m.yiaddr \in Addr
    BY DEF Answers
  <2>2. Rests(r) /\ r.up = n.up
    BY DEF Rests, Quiet, Clients
  <2> HIDE DEF r
  <2>3. Rests(q) /\ q.up = n.up
    BY <2>1, <2>2 DEF Rests, Quiet, Clients
  <2> HIDE DEF q
  <2>4. S!dhcp_recv(n, m) = S!Send(S!dhcp_set_state(q, "REQUESTING"), "REQUEST")
    BY <1>4 DEF S!dhcp_recv, S!dhcp_handle_offer, S!dhcp_select, r, q
  <2>5. "REQUESTING" \in Requests /\ ~q.up
    BY <1>0, <1>4, <2>3 DEF Requests
  <2> HIDE DEF g
  <2>6. Leads(n, S!Send(S!dhcp_set_state(q, "REQUESTING"), "REQUEST"), g)
    BY <1>4, <2>3, <2>5, Requested
  <2>. QED BY <2>4, <2>6 DEF g
<1>5. CASE ~(\/ m.current /\ m.type = "ACK" /\ n.state = "REQUESTING"
             \/ m.current /\ m.type = "ACK" /\ n.state \in {"REBOOTING", "REBINDING", "RENEWING"}
             \/ /\ m.current /\ m.type = "NAK"
                /\ n.state \in {"REBOOTING", "REQUESTING", "REBINDING", "RENEWING"}
             \/ m.current /\ m.type = "OFFER" /\ n.state = "SELECTING")
  <2>1. S!dhcp_recv(n, m) = n
    BY <1>5 DEF S!dhcp_recv
  <2> HIDE DEF g
  <2>2. Leads(n, n, g)
    BY Stays
  <2>. QED BY <2>1, <2>2 DEF g
<1>. QED BY <1>1, <1>2, <1>3, <1>4, <1>5

-----------------------------------------------------------------------------
(* DHCP: a station with what is under way to and from it.                   *)

LEMMA SentIs ==
    ASSUME NEW T, NEW q \in Seq(T), NEW r \in Seq(T)
    PROVE  /\ S!Sent(q, r) \in Seq(T) /\ Len(S!Sent(q, r)) <= CHANNEL
           /\ Len(S!Sent(q, r)) <= Len(q) + Len(r)
           /\ \A i \in 1..Len(S!Sent(q, r)) :
                \/ i \in 1..Len(q) /\ S!Sent(q, r)[i] = q[i]
                \/ i > Len(q) /\ i - Len(q) \in 1..Len(r) /\ S!Sent(q, r)[i] = r[i - Len(q)]
<1> DEFINE z == q \o r
           k == S!Min({CHANNEL, Len(z)})
           w == SubSeq(z, 1, k)
<1>1. /\ z \in Seq(T) /\ Len(z) = Len(q) + Len(r)
      /\ \A i \in 1..Len(z) : z[i] = IF i <= Len(q) THEN q[i] ELSE r[i - Len(q)]
  BY ConcatProperties
<1>2. Len(q) \in Nat /\ Len(r) \in Nat
  OBVIOUS
<1> HIDE DEF z
<1>3. Len(z) \in Nat /\ k = IF CHANNEL <= Len(z) THEN CHANNEL ELSE Len(z)
  BY <1>1, <1>2, LeastOfTwo
<1> HIDE DEF k
<1>4. k \in 0..Len(z) /\ k <= CHANNEL
  BY <1>3
<1>5. w \in Seq(T) /\ Len(w) = k /\ \A i \in 1..k : w[i] = z[i]
  BY <1>1, <1>3, <1>4
<1>6. S!Sent(q, r) = w
  BY DEF S!Sent, z, k
<1> HIDE DEF w
<1>7. \A i \in 1..k : \/ i \in 1..Len(q) /\ w[i] = q[i]
                      \/ i > Len(q) /\ i - Len(q) \in 1..Len(r) /\ w[i] = r[i - Len(q)]
  BY <1>1, <1>2, <1>4, <1>5
<1>. QED BY <1>1, <1>4, <1>5, <1>6, <1>7

AllCurrent(q) == \A i \in 1..Len(q) : q[i].current
NewLast(q) == \A i, j \in 1..Len(q) : i < j /\ q[i].current => q[j].current
AsksFor(q, n) ==
    \A i \in 1..Len(q) :
      q[i].current /\ q[i].type = "REQUEST" => q[i].requested = n.offered /\ n.state # "SELECTING"
\* A current answer means that no old message is ahead of the current ones.
Answered(r, q, n, a) ==
    \A i \in 1..Len(r) :
      r[i].current => /\ AllCurrent(q)
                      /\ r[i].type = "ACK" => /\ r[i].yiaddr = n.offered /\ a = n.offered
                                              /\ n.state # "SELECTING"
InUse(n) == n.state = "CHECKING" \/ n.up
StationOK(n, q, r, a) ==
    /\ Rests(n) /\ Goes(n) /\ a \in Addr
    /\ q \in Seq(Msgs) /\ Len(q) <= CHANNEL /\ r \in Seq(Answers) /\ Len(r) <= CHANNEL
    /\ NewLast(q) /\ AsksFor(q, n) /\ Answered(r, q, n, a)
    /\ InUse(n) => a = n.offered /\ AllCurrent(q)

LEMMA Silent ==
    ASSUME NEW p \in Clients, Goes(p)
    PROVE  LET e == [p EXCEPT !.out = <<>>, !.drawn = FALSE]
           IN Rests(e) /\ Goes(e) /\ e.state = p.state /\ e.offered = p.offered /\ e.up = p.up
<1> DEFINE e == [p EXCEPT !.out = <<>>, !.drawn = FALSE]
<1>1. <<>> \in Seq(Msgs) /\ FALSE \in BOOLEAN
  OBVIOUS
<1>2. e \in Clients /\ e.out = <<>> /\ e.drawn = FALSE
  BY <1>1 DEF Clients
<1>3. /\ e.state = p.state /\ e.offered = p.offered /\ e.up = p.up /\ e.armed = p.armed
      /\ e.ip = p.ip /\ e.t2 = p.t2
  BY DEF Clients
<1> HIDE DEF e
<1>4. Goes(e)
  BY <1>3 DEF Goes
<1>5. Rests(e)
  BY <1>2 DEF Rests, Quiet
<1>. QED BY <1>3, <1>4, <1>5 DEF e

\* A handler that goes on with the transaction.
LEMMA FurtherStep ==
    ASSUME NEW n, NEW q, NEW r, NEW a, StationOK(n, q, r, a),
           NEW rest \in Seq(Answers), Len(rest) <= Len(r),
           \A i \in 1..Len(rest) : \E j \in 1..Len(r) : rest[i] = r[j],
           NEW p, NEW g, Leads(n, p, g), ~Anew(p),
           g => a = n.offered /\ AllCurrent(q) /\ n.state # "SELECTING"
    PROVE  StationOK([p EXCEPT !.out = <<>>, !.drawn = FALSE], S!Sent(q, p.out), rest,
                     IF p.state = "SELECTING" THEN 0 ELSE a)
<1> DEFINE e == [p EXCEPT !.out = <<>>, !.drawn = FALSE]
           w == S!Sent(q, p.out)
           b == IF p.state = "SELECTING" THEN 0 ELSE a
<1>1. /\ p \in Clients /\ Goes(p) /\ Further(p)
      /\ p.offered = n.offered \/ n.state = "SELECTING"
      /\ p.state = "SELECTING" => n.state = "SELECTING"
      /\ InUse(p) => InUse(n) \/ g
  BY DEF Leads, InUse
<1>2. /\ Rests(e) /\ Goes(e) /\ e.state = p.state /\ e.offered = p.offered /\ e.up = p.up
  BY <1>1, Silent
<1>3. b \in Addr
  BY DEF StationOK, Addr
<1>4. q \in Seq(Msgs) /\ p.out \in Seq(Msgs) /\ Len(q) \in Nat
  BY <1>1 DEF Clients, StationOK
<1>5. /\ w \in Seq(Msgs) /\ Len(w) <= CHANNEL
      /\ \A i \in 1..Len(w) : \/ i \in 1..Len(q) /\ w[i] = q[i]
                              \/ i > Len(q) /\ i - Len(q) \in 1..Len(p.out) /\ w[i] = p.out[i - Len(q)]
  BY <1>4, SentIs
<1> HIDE DEF e, b, w
<1>6. \A i \in 1..Len(p.out) :
         /\ p.out[i].current
         /\ p.out[i].type = "REQUEST" => p.out[i].requested = p.offered /\ p.state # "SELECTING"
  <2>1. CASE p.out = <<>>
    BY <2>1
  <2>2. CASE \E m \in Msgs : /\ m.current /\ p.out = <<m>>
                             /\ m.type = "REQUEST" => m.requested = p.offered /\ p.state # "SELECTING"
    <3>1. PICK m \in Msgs : /\ m.current /\ p.out = <<m>>
                            /\ m.type = "REQUEST" => m.requested = p.offered /\ p.state # "SELECTING"
      BY <2>2
    <3>2. Len(p.out) = 1 /\ p.out[1] = m
      BY <3>1
    <3>. QED BY <3>1, <3>2
  <2>. QED BY <1>1, <2>1, <2>2 DEF Further
<1>7. AllCurrent(q) => AllCurrent(w)
  BY <1>5, <1>6 DEF AllCurrent
<1>8. NewLast(w)
  <2> SUFFICES ASSUME NEW i \in 1..Len(w), NEW j \in 1..Len(w), i < j, w[i].current PROVE w[j].current
    BY DEF NewLast
  <2>1. NewLast(q)
    BY DEF StationOK
  <2>2. CASE j \in 1..Len(q) /\ w[j] = q[j]
    <3>1. i \in 1..Len(q) /\ ~(i > Len(q))
      BY <1>4, <2>2
    <3>2. w[i] = q[i]
      BY <1>5, <3>1
    <3>. QED BY <2>1, <2>2, <3>1, <3>2 DEF NewLast
  <2>3. CASE j - Len(q) \in 1..Len(p.out) /\ w[j] = p.out[j - Len(q)]
    BY <1>6, <2>3
  <2>. QED BY <1>5, <2>2, <2>3
<1>9. AsksFor(w, e)
  <2> SUFFICES ASSUME NEW i \in 1..Len(w), w[i].current, w[i].type = "REQUEST"
               PROVE  w[i].requested = p.offered /\ p.state # "SELECTING"
    BY <1>2 DEF AsksFor
  <2>1. CASE i \in 1..Len(q) /\ w[i] = q[i]
    <3>1. q[i].requested = n.offered /\ n.state # "SELECTING"
      BY <2>1 DEF StationOK, AsksFor
    <3>. QED BY <1>1, <2>1, <3>1
  <2>2. CASE i - Len(q) \in 1..Len(p.out) /\ w[i] = p.out[i - Len(q)]
    BY <1>6, <2>2
  <2>. QED BY <1>5, <2>1, <2>2
<1>10. Answered(rest, w, e, b)
  <2> SUFFICES ASSUME NEW i \in 1..Len(rest), rest[i].current
               PROVE  /\ AllCurrent(w)
                      /\ rest[i].type = "ACK" => /\ rest[i].yiaddr = p.offered /\ b = p.offered
                                                 /\ p.state # "SELECTING"
    BY <1>2 DEF Answered
  <2>1. PICK j \in 1..Len(r) : rest[i] = r[j]
    OBVIOUS
  <2>2. /\ AllCurrent(q)
        /\ r[j].type = "ACK" => /\ r[j].yiaddr = n.offered /\ a = n.offered
                                /\ n.state # "SELECTING"
    BY <2>1 DEF StationOK, Answered
  <2>. QED BY <1>1, <1>7, <2>1, <2>2 DEF b
<1>11. InUse(e) => b = e.offered /\ AllCurrent(w)
  <2> SUFFICES ASSUME InUse(e) PROVE b = p.offered /\ AllCurrent(w)
    BY <1>2
  <2>1. InUse(p) /\ p.state # "SELECTING"
    BY <1>1, <1>2 DEF InUse, Goes
  <2>2. InUse(n) => n.state # "SELECTING" /\ a = n.offered /\ AllCurrent(q)
    BY DEF InUse, StationOK, Goes
  <2>. QED BY <1>1, <1>7, <2>1, <2>2 DEF b
<1>12. Len(rest) <= CHANNEL
  <2>1. Len(r) \in Nat /\ Len(rest) \in Nat /\ Len(r) <= CHANNEL
    BY DEF StationOK
  <2>. QED BY <2>1
<1>13. StationOK(e, w, rest, b)
  BY <1>2, <1>3, <1>5, <1>8, <1>9, <1>10, <1>11, <1>12 DEF StationOK
<1>. QED BY <1>13 DEF e, w, b

\* A handler that starts a transaction.
LEMMA AnewStep ==
    ASSUME NEW n, NEW q, NEW r, NEW a, StationOK(n, q, r, a),
           NEW rest \in Seq(Answers), Len(rest) <= Len(r),
           NEW p \in Clients, Goes(p), Anew(p)
    PROVE  StationOK([p EXCEPT !.out = <<>>, !.drawn = FALSE], S!Sent(S!Outdated(q), p.out),
                     S!Outdated(rest), IF p.state = "SELECTING" THEN 0 ELSE a)
<1> DEFINE e == [p EXCEPT !.out = <<>>, !.drawn = FALSE]
           u == S!Outdated(q)
           w == S!Sent(u, p.out)
           z == S!Outdated(rest)
           b == IF p.state = "SELECTING" THEN 0 ELSE a
<1>1. ~p.up /\ p.state # "CHECKING"
  BY DEF Anew
<1>2. /\ Rests(e) /\ Goes(e) /\ e.state = p.state /\ e.offered = p.offered /\ e.up = p.up
  BY Silent
<1>3. b \in Addr
  BY DEF StationOK, Addr
<1>4. q \in Seq(Msgs) /\ p.out \in Seq(Msgs)
  BY DEF Clients, StationOK
<1>5. u \in Seq(Msgs) /\ Len(u) = Len(q) /\ \A i \in 1..Len(u) : ~u[i].current
  BY <1>4, OutdatedIs
<1>6. z \in Seq(Answers) /\ Len(z) = Len(rest) /\ \A i \in 1..Len(z) : ~z[i].current
  BY OutdatedIs
<1> HIDE DEF e, b, u, z
<1>7. /\ w \in Seq(Msgs) /\ Len(w) <= CHANNEL
      /\ \A i \in 1..Len(w) : \/ i \in 1..Len(u) /\ w[i] = u[i]
                              \/ i > Len(u) /\ i - Len(u) \in 1..Len(p.out) /\ w[i] = p.out[i - Len(u)]
  BY <1>4, <1>5, SentIs
<1> HIDE DEF w
<1>8. /\ \A i \in 1..Len(p.out) : p.out[i].current => p.out[i].type # "REQUEST"
      /\ NewLast(p.out)
  <2>1. PICK m \in Msgs : /\ m.current /\ m.type # "REQUEST"
                          /\ p.out = <<m>> \/ \E o \in Msgs : ~o.current /\ p.out = <<o, m>>
    BY DEF Anew
  <2>2. CASE p.out = <<m>>
    <3>1. Len(p.out) = 1 /\ p.out[1] = m
      BY <2>2
    <3>. QED BY <2>1, <3>1 DEF NewLast
  <2>3. CASE \E o \in Msgs : ~o.current /\ p.out = <<o, m>>
    <3>1. PICK o \in Msgs : ~o.current /\ p.out = <<o, m>>
      BY <2>3
    <3>2. Len(p.out) = 2 /\ p.out[1] = o /\ p.out[2] = m
      BY <3>1
    <3>3. \A i \in 1..Len(p.out) : i = 1 \/ i = 2
      BY <3>2
    <3>. QED BY <2>1, <3>1, <3>2, <3>3 DEF NewLast
  <2>. QED BY <2>1, <2>2, <2>3
<1>9. NewLast(w)
  <2> SUFFICES ASSUME NEW i \in 1..Len(w), NEW j \in 1..Len(w), i < j, w[i].current PROVE w[j].current
    BY DEF NewLast
  <2>1. /\ i > Len(u) /\ i - Len(u) \in 1..Len(p.out) /\ w[i] = p.out[i - Len(u)]
    BY <1>5, <1>7
  <2>2. Len(u) \in Nat /\ Len(p.out) \in Nat
    BY <1>4, <1>5
  <2>3. ~(j \in 1..Len(u))
    BY <2>1, <2>2
  <2>4. j - Len(u) \in 1..Len(p.out) /\ w[j] = p.out[j - Len(u)]
    BY <1>7, <2>3
  <2>5. i - Len(u) < j - Len(u)
    BY <2>2
  <2>. QED BY <1>8, <2>1, <2>4, <2>5 DEF NewLast
<1>10. AsksFor(w, e)
  BY <1>5, <1>7, <1>8 DEF AsksFor
<1>11. Answered(z, w, e, b)
  BY <1>6 DEF Answered
<1>12. ~InUse(e)
  BY <1>1, <1>2 DEF InUse
<1>13. Len(z) <= CHANNEL
  <2>1. Len(r) \in Nat /\ Len(rest) \in Nat /\ Len(r) <= CHANNEL
    BY DEF StationOK
  <2>. QED BY <1>6, <2>1
<1>14. StationOK(e, w, z, b)
  BY <1>2, <1>3, <1>6, <1>7, <1>9, <1>10, <1>11, <1>12, <1>13 DEF StationOK
<1>. QED BY <1>14 DEF e, w, z, b, u

-----------------------------------------------------------------------------
(* DHCP: the server's list.                                                 *)

Rows ==
    [mac : Stations, ip : {x \in Nat : x >= FIRST}, timer : Nat \ {0}, type : {"DYNAMIC", "STATIC"},
     online : BOOLEAN]
Sorted(q) == q \in Seq(Rows) /\ \A i, j \in 1..Len(q) : i < j => q[i].ip < q[j].ip
ListOK(q) == Sorted(q) /\ \A i, j \in 1..Len(q) : i < j => q[i].mac # q[j].mac

\* Where the elements of a list come from when one is taken out.
After(k, i) == IF i < k THEN i ELSE i + 1

LEMMA TakenOut ==
    ASSUME NEW q \in Seq(Rows), NEW k \in 1..Len(q)
    PROVE  /\ S!RemoveAt(q, k) \in Seq(Rows) /\ Len(S!RemoveAt(q, k)) = Len(q) - 1
           /\ \A i \in 1..(Len(q) - 1) : S!RemoveAt(q, k)[i] = q[After(k, i)]
<1> DEFINE u == SubSeq(q, 1, k - 1)
           v == SubSeq(q, k + 1, Len(q))
<1>0. Len(q) \in Nat /\ k \in Nat /\ k >= 1 /\ k <= Len(q)
  OBVIOUS
<1>1. u \in Seq(Rows) /\ Len(u) = k - 1 /\ \A i \in 1..(k - 1) : u[i] = q[i]
  BY <1>0
<1>2. v \in Seq(Rows) /\ Len(v) = Len(q) - k /\ \A i \in 1..(Len(q) - k) : v[i] = q[k + i]
  BY <1>0
<1> HIDE DEF u, v
<1>3. /\ u \o v \in Seq(Rows) /\ Len(u \o v) = Len(u) + Len(v)
      /\ \A i \in 1..(Len(u) + Len(v)) : (u \o v)[i] = IF i <= Len(u) THEN u[i] ELSE v[i - Len(u)]
  BY <1>1, <1>2, ConcatProperties
<1>4. S!RemoveAt(q, k) = u \o v
  BY DEF S!RemoveAt, u, v
<1>5. ASSUME NEW i \in 1..(Len(q) - 1)
      PROVE  (u \o v)[i] = q[After(k, i)]
  <2>1. CASE i < k
    <3>1. (u \o v)[i] = u[i] /\ i \in 1..(k - 1)
      BY <1>0, <1>1, <1>2, <1>3, <2>1
    <3>. QED BY <1>1, <2>1, <3>1 DEF After
  <2>2. CASE i >= k
    <3>1. /\ i \in 1..(Len(u) + Len(v)) /\ ~(i <= Len(u)) /\ i - Len(u) \in 1..(Len(q) - k)
          /\ k + (i - Len(u)) = i + 1
      BY <1>0, <1>1, <1>2, <2>2
    <3>2. (u \o v)[i] = v[i - Len(u)]
      BY <1>3, <3>1
    <3>3. v[i - Len(u)] = q[k + (i - Len(u))]
      BY <1>2, <3>1
    <3>4. After(k, i) = i + 1
      BY <1>0, <2>2 DEF After
    <3>. QED BY <3>1, <3>2, <3>3, <3>4
  <2>3. i < k \/ i >= k
    BY <1>0
  <2>. QED BY <2>1, <2>2, <2>3
<1>6. Len(u) + Len(v) = Len(q) - 1
  BY <1>0, <1>1, <1>2
<1>. QED BY <1>3, <1>4, <1>5, <1>6

LEMMA StaysSorted ==
    ASSUME NEW q, Sorted(q), NEW k \in 1..Len(q)
    PROVE  Sorted(S!RemoveAt(q, k))
<1> DEFINE w == S!RemoveAt(q, k)
<1>1. /\ w \in Seq(Rows) /\ Len(w) = Len(q) - 1 /\ q \in Seq(Rows)
      /\ \A i \in 1..(Len(q) - 1) : w[i] = q[After(k, i)]
  BY TakenOut DEF Sorted
<1>2. Len(q) \in Nat
  BY <1>1
<1> HIDE DEF w
<1>3. ASSUME NEW i \in 1..Len(w), NEW j \in 1..Len(w), i < j
      PROVE  w[i].ip < w[j].ip
  <2>1. /\ i \in 1..(Len(q) - 1) /\ j \in 1..(Len(q) - 1)
        /\ After(k, i) \in 1..Len(q) /\ After(k, j) \in 1..Len(q) /\ After(k, i) < After(k, j)
    BY <1>1, <1>2, <1>3 DEF After
  <2>. QED BY <1>1, <2>1 DEF Sorted
<1>. QED BY <1>1, <1>3 DEF Sorted, w

LEMMA TakenOutOK ==
    ASSUME NEW q, ListOK(q), NEW k \in 1..Len(q)
    PROVE  /\ ListOK(S!RemoveAt(q, k))
           /\ \A i \in 1..Len(S!RemoveAt(q, k)) : S!RemoveAt(q, k)[i].mac # q[k].mac
           /\ \A i \in 1..Len(q) : i # k => <<q[i].mac, q[i].ip>> \in S!Leases(S!RemoveAt(q, k))
           /\ \A i \in 1..Len(S!RemoveAt(q, k)) :
                \E j \in 1..Len(q) : j # k /\ S!RemoveAt(q, k)[i] = q[j]
<1> DEFINE w == S!RemoveAt(q, k)
<1>1. /\ w \in Seq(Rows) /\ Len(w) = Len(q) - 1 /\ q \in Seq(Rows)
      /\ \A i \in 1..(Len(q) - 1) : w[i] = q[After(k, i)]
  BY TakenOut DEF Sorted, ListOK
<1>2. Len(q) \in Nat
  BY <1>1
<1>3. Sorted(w)
  BY StaysSorted DEF ListOK
<1>4. S!Leases(w) = {<<w[i].mac, w[i].ip>> : i \in 1..Len(w)}
  BY <1>1 DEF S!Leases
<1> HIDE DEF w
<1>5. \A i \in 1..Len(w) : After(k, i) \in 1..Len(q) /\ After(k, i) # k /\ w[i] = q[After(k, i)]
  BY <1>1, <1>2 DEF After
<1>6. ASSUME NEW i \in 1..Len(w), NEW j \in 1..Len(w), i < j
      PROVE  w[i].mac # w[j].mac
  <2>1. After(k, i) < After(k, j)
    BY <1>1, <1>2, <1>6 DEF After
  <2>. QED BY <1>5, <2>1 DEF ListOK
<1>7. ASSUME NEW i \in 1..Len(w) PROVE w[i].mac # q[k].mac
  <2>1. After(k, i) < k \/ k < After(k, i)
    BY <1>1, <1>2, <1>5
  <2>. QED BY <1>5, <2>1 DEF ListOK
<1>8. ASSUME NEW i \in 1..Len(q), i # k PROVE <<q[i].mac, q[i].ip>> \in S!Leases(w)
  <2> DEFINE j == IF i < k THEN i ELSE i - 1
  <2>1. j \in 1..Len(w) /\ After(k, j) = i
    BY <1>1, <1>2, <1>8 DEF After
  <2> HIDE DEF j
  <2>2. w[j] = q[i]
    BY <1>5, <2>1
  <2>. QED BY <1>4, <2>1, <2>2
<1>. QED BY <1>3, <1>5, <1>6, <1>7, <1>8 DEF ListOK, w

LEMMA FoundFirst ==
    ASSUME NEW q \in Seq(Rows), NEW Z \in SUBSET (1..Len(q))
    PROVE  /\ S!Found(q, Z) \in 1..(Len(q) + 1)
           /\ S!Found(q, Z) <= Len(q) => S!Found(q, Z) \in Z
           /\ S!Found(q, Z) > Len(q) => Z = {}
<1> DEFINE Y == Z \cup {Len(q) + 1}
<1>0. Len(q) \in Nat
  OBVIOUS
<1>1. Y \in SUBSET Nat /\ Y # {} /\ Y \subseteq 1..(Len(q) + 1)
  <2>1. \A x \in Z : x \in 1..Len(q)
    OBVIOUS
  <2>2. \A x \in Y : x \in Z \/ x = Len(q) + 1
    OBVIOUS
  <2>3. Len(q) + 1 \in Y
    OBVIOUS
  <2> HIDE DEF Y
  <2>4. ASSUME NEW x \in Y PROVE x \in Nat /\ x \in 1..(Len(q) + 1)
    <3>1. CASE x \in Z
      <4>1. x \in 1..Len(q)
        BY <2>1, <3>1
      <4>. QED BY <1>0, <4>1
    <3>2. CASE x = Len(q) + 1
      BY <1>0, <3>2
    <3>. QED BY <2>2, <3>1, <3>2
  <2>5. Y # {}
    BY <2>3
  <2>6. Y \subseteq Nat
    BY <2>4
  <2>7. Y \subseteq 1..(Len(q) + 1)
    BY <2>4
  <2>. QED BY <2>5, <2>6, <2>7
<1>3. \A x \in Y : x <= Len(q) => x \in Z
  BY <1>0
<1>4. Len(q) + 1 \in Y /\ Z \subseteq Y
  OBVIOUS
<1> HIDE DEF Y
<1>2. S!Min(Y) \in Y /\ \A x \in Y : S!Min(Y) <= x
  BY <1>1, LeastIs DEF S!Min
<1>5. S!Found(q, Z) = S!Min(Y)
  BY DEF S!Found, Y
<1>6. S!Min(Y) > Len(q) => Z = {}
  <2> SUFFICES ASSUME S!Min(Y) > Len(q), NEW x \in Z PROVE FALSE
    OBVIOUS
  <2>1. S!Min(Y) <= x /\ S!Min(Y) \in Nat
    BY <1>1, <1>2, <1>4
  <2>2. x \in 1..Len(q)
    OBVIOUS
  <2>. QED BY <1>0, <2>1, <2>2
<1>. QED BY <1>0, <1>1, <1>2, <1>3, <1>5, <1>6

LEMMA RowsOf ==
    ASSUME NEW q, Sorted(q)
    PROVE  /\ q \in Seq(Rows) /\ Len(q) \in Nat /\ DOMAIN q = 1..Len(q)
           /\ \A i \in 1..Len(q) : q[i] \in Rows /\ q[i].ip \in Nat /\ q[i].ip >= FIRST
<1>1. q \in Seq(Rows) /\ Len(q) \in Nat /\ DOMAIN q = 1..Len(q)
  BY DEF Sorted
<1>2. \A i \in 1..Len(q) : q[i] \in Rows
  BY <1>1
<1>3. \A e \in Rows : e.ip \in Nat /\ e.ip >= FIRST
  BY DEF Rows
<1>. QED BY <1>1, <1>2, <1>3

LEMMA CountsAlike == \A Z : S!Cardinality(Z) = Cardinality(Z)
  BY DEF S!Cardinality, Cardinality

\* A row goes in where the addresses stay in order.
LEMMA PutIn ==
    ASSUME NEW q, ListOK(q), NEW e \in Rows,
           \A i \in 1..Len(q) : q[i].ip # e.ip /\ q[i].mac # e.mac
    PROVE  /\ ListOK(S!node_insert_to_list(q, e))
           /\ <<e.mac, e.ip>> \in S!Leases(S!node_insert_to_list(q, e))
<1> DEFINE Low == {i \in 1..Len(q) : q[i].ip <= e.ip}
           Z == {i \in 1..(Len(q) + 1) : i \notin Low}
<1>0. q \in Seq(Rows) /\ Len(q) \in Nat /\ e.ip \in Nat /\ \A i \in 1..Len(q) : q[i].ip \in Nat
  <2>1. e.ip \in Nat
    BY DEF Rows
  <2>. QED BY <2>1, RowsOf DEF ListOK
<1>1. Z \in SUBSET Nat /\ Len(q) + 1 \in Z
  BY <1>0
<1>2. PICK b \in Z : \A x \in Z : b <= x
  <2> HIDE DEF Z
  <2>1. Z # {}
    BY <1>1
  <2>. QED BY <1>1, <2>1, LeastExists
<1>3. b \in 1..(Len(q) + 1) /\ b \notin Low
  OBVIOUS
<1> DEFINE k == b - 1
<1>4. k \in 0..Len(q) /\ b = k + 1
  BY <1>0, <1>3
<1>5. Low = 1..k
  <2>1. ASSUME NEW i \in 1..k PROVE i \in Low
    <3>1. i \in 1..(Len(q) + 1) /\ ~(b <= i)
      BY <1>0, <1>4
    <3>. QED BY <1>2, <3>1
  <2>2. ASSUME NEW i \in Low, i \notin 1..k PROVE FALSE
    <3>1. i \in 1..Len(q) /\ q[i].ip <= e.ip /\ i >= b
      BY <1>0, <1>4, <2>2
    <3>2. b \in 1..Len(q) /\ q[b].ip > e.ip
      BY <1>0, <1>3, <3>1
    <3>3. q[b].ip <= q[i].ip
      BY <1>0, <3>1, <3>2 DEF ListOK, Sorted
    <3>. QED BY <1>0, <3>1, <3>2, <3>3
  <2>. QED BY <2>1, <2>2
<1> HIDE DEF k
<1>6. Cardinality(1..k) = k
  BY <1>4, FS_Interval
<1> DEFINE u == SubSeq(q, 1, k)
           v == SubSeq(q, k + 1, Len(q))
           x == u \o <<e>>
           w == x \o v
<1>7. S!node_insert_to_list(q, e) = w
  <2>1. {i \in DOMAIN q : q[i].ip <= e.ip} = Low
    BY <1>0
  <2>2. S!Cardinality({i \in DOMAIN q : q[i].ip <= e.ip}) = k
    BY <1>5, <1>6, <2>1, CountsAlike
  <2> HIDE DEF Low
  <2>3. S!node_insert_to_list(q, e) = S!InsertAt(q, k + 1, e)
    BY <2>2 DEF S!node_insert_to_list
  <2>4. (k + 1) - 1 = k
    BY <1>4
  <2>. QED BY <2>3, <2>4 DEF S!InsertAt
<1>8. u \in Seq(Rows) /\ Len(u) = k /\ \A i \in 1..k : u[i] = q[i]
  BY <1>0, <1>4
<1>9. /\ v \in Seq(Rows) /\ Len(v) = Len(q) - k
      /\ \A i \in 1..(Len(q) - k) : v[i] = q[k + i]
  BY <1>0, <1>4
<1> HIDE DEF u, v
<1>10. <<e>> \in Seq(Rows) /\ Len(<<e>>) = 1 /\ <<e>>[1] = e
  OBVIOUS
<1>11. /\ x \in Seq(Rows) /\ Len(x) = k + 1
       /\ \A i \in 1..(k + 1) : x[i] = IF i <= k THEN u[i] ELSE <<e>>[i - k]
  BY <1>8, <1>10, ConcatProperties
<1> HIDE DEF x
<1>12. /\ w \in Seq(Rows) /\ Len(w) = (k + 1) + (Len(q) - k)
       /\ \A i \in 1..((k + 1) + (Len(q) - k)) : w[i] = IF i <= k + 1 THEN x[i] ELSE v[i - (k + 1)]
  <2>1. /\ w \in Seq(Rows) /\ Len(w) = Len(x) + Len(v)
        /\ \A i \in 1..(Len(x) + Len(v)) : w[i] = IF i <= Len(x) THEN x[i] ELSE v[i - Len(x)]
    <3>1. x \in Seq(Rows) /\ v \in Seq(Rows)
      BY <1>9, <1>11
    <3>. QED BY <3>1, ConcatProperties
  <2>2. Len(x) = k + 1 /\ Len(v) = Len(q) - k
    BY <1>9, <1>11
  <2> HIDE DEF w
  <2>. QED BY <2>1, <2>2
<1> HIDE DEF w
<1>13. Len(w) = Len(q) + 1
  BY <1>0, <1>4, <1>12
<1>14. ASSUME NEW i \in 1..Len(w)
       PROVE  /\ i <= k => i \in 1..Len(q) /\ w[i] = q[i] /\ i \in Low
              /\ i = k + 1 => w[i] = e
              /\ i > k + 1 => i - 1 \in 1..Len(q) /\ w[i] = q[i - 1] /\ i - 1 \notin Low
  <2>0. i \in 1..((k + 1) + (Len(q) - k))
    BY <1>0, <1>4, <1>13
  <2>1. CASE i <= k
    <3>1. i \in 1..k /\ i \in 1..(k + 1) /\ i <= k + 1 /\ i \in 1..Len(q)
      BY <1>0, <1>4, <2>1
    <3>2. w[i] = x[i] /\ x[i] = u[i] /\ u[i] = q[i] /\ i \in Low
      BY <1>5, <1>8, <1>11, <1>12, <2>0, <2>1, <3>1
    <3>. QED BY <1>4, <2>1, <3>1, <3>2
  <2>2. CASE i = k + 1
    <3>1. i \in 1..(k + 1) /\ i <= k + 1 /\ ~(i <= k) /\ i - k = 1
      BY <1>4, <2>2
    <3>2. w[i] = x[i] /\ x[i] = <<e>>[i - k]
      BY <1>11, <1>12, <2>0, <3>1
    <3>. QED BY <1>4, <1>10, <2>2, <3>1, <3>2
  <2>3. CASE i > k + 1
    <3>0. i \in Nat /\ i <= Len(q) + 1 /\ k \in Nat
      BY <1>0, <1>4, <1>13
    <3>4. \A g \in Nat : i <= g + 1 => i - 1 \in 1..g /\ i - (k + 1) \in 1..(g - k)
      BY <3>0, <2>3
    <3>5. ~(i <= k + 1) /\ k + (i - (k + 1)) = i - 1 /\ i - 1 \notin 1..k
      BY <3>0, <2>3
    <3>1. /\ ~(i <= k + 1) /\ i - (k + 1) \in 1..(Len(q) - k) /\ k + (i - (k + 1)) = i - 1
          /\ i - 1 \in 1..Len(q) /\ i - 1 \notin 1..k
      BY <1>0, <3>0, <3>4, <3>5
    <3>2. w[i] = v[i - (k + 1)]
      BY <1>12, <2>0, <3>1
    <3>3. v[i - (k + 1)] = q[k + (i - (k + 1))]
      BY <1>9, <3>1
    <3>. QED BY <1>4, <1>5, <2>3, <3>1, <3>2, <3>3
  <2>4. i <= k \/ i = k + 1 \/ i > k + 1
    BY <1>4
  <2>. QED BY <1>4, <2>1, <2>2, <2>3, <2>4
<1>15. \A i \in 1..Len(q) : (i \in Low => q[i].ip < e.ip) /\ (i \notin Low => e.ip < q[i].ip)
  BY <1>0
<1> HIDE DEF Low
<1>16. ASSUME NEW i \in 1..Len(w), NEW j \in 1..Len(w), i < j
       PROVE  w[i].ip < w[j].ip /\ w[i].mac # w[j].mac
  <2>1. \A m, n \in 1..Len(q) : m < n => q[m].ip < q[n].ip /\ q[m].mac # q[n].mac
    BY DEF ListOK, Sorted
  <2>2. CASE i <= k /\ j <= k
    BY <1>14, <1>16, <2>1, <2>2
  <2>3. CASE i <= k /\ j = k + 1
    BY <1>14, <1>15, <2>3
  <2>4. CASE i <= k /\ j > k + 1
    <3>1. i < j - 1
      BY <1>4, <2>4
    <3>. QED BY <1>14, <2>1, <2>4, <3>1
  <2>5. CASE i = k + 1 /\ j > k + 1
    BY <1>14, <1>15, <2>5
  <2>6. CASE i > k + 1 /\ j > k + 1
    <3>1. i - 1 < j - 1
      BY <1>4, <1>16
    <3>2. /\ i - 1 \in 1..Len(q) /\ w[i] = q[i - 1] /\ j - 1 \in 1..Len(q) /\ w[j] = q[j - 1]
      BY <1>14, <2>6
    <3>. QED BY <2>1, <3>1, <3>2
  <2>. QED BY <1>4, <1>16, <2>2, <2>3, <2>4, <2>5, <2>6
<1>17. ListOK(w)
  BY <1>12, <1>16 DEF ListOK, Sorted
<1>18. <<e.mac, e.ip>> \in S!Leases(w)
  <2>1. k + 1 \in 1..Len(w) /\ DOMAIN w = 1..Len(w)
    BY <1>0, <1>4, <1>12, <1>13
  <2>2. w[k + 1] = e
    BY <1>4, <1>14, <2>1
  <2>. QED BY <2>1, <2>2 DEF S!Leases
<1>. QED BY <1>7, <1>17, <1>18

\* The free address that is found is in no other row.
LEMMA FreeIs ==
    ASSUME NEW q, ListOK(q), NEW k \in 1..(Len(q) + 1)
    PROVE  /\ S!FreeBefore(q, k) \in Nat /\ S!FreeBefore(q, k) >= FIRST
           /\ \A i \in 1..Len(q) : i # k => q[i].ip # S!FreeBefore(q, k)
<1> DEFINE Z == {i \in 0..(k - 1) : i + 1 >= k \/ q[i + 1].ip # FIRST + i}
           b == S!Min(Z)
<1>0. /\ q \in Seq(Rows) /\ Len(q) \in Nat
      /\ \A i \in 1..Len(q) : q[i].ip \in Nat /\ q[i].ip >= FIRST
  BY RowsOf DEF ListOK
<1>1. Z \in SUBSET Nat /\ Z # {}
  <2>1. k - 1 \in 0..(k - 1) /\ (k - 1) + 1 >= k
    BY <1>0
  <2>2. k - 1 \in Z
    BY <2>1
  <2>3. Z \subseteq 0..(k - 1)
    OBVIOUS
  <2> HIDE DEF Z
  <2>. QED BY <1>0, <2>2, <2>3
<1>2. b \in Z /\ \A x \in Z : b <= x
  <2> HIDE DEF Z
  <2>. QED BY <1>1, LeastIs DEF S!Min
<1>3. S!FreeBefore(q, k) = FIRST + b
  BY DEF S!FreeBefore
<1> HIDE DEF b
<1>4. b \in 0..(k - 1) /\ (b + 1 >= k \/ q[b + 1].ip # FIRST + b)
  BY <1>2
<1>5. \A i \in 1..b : q[i].ip = FIRST + (i - 1)
  <2> SUFFICES ASSUME NEW i \in 1..b PROVE q[i].ip = FIRST + (i - 1)
    OBVIOUS
  <2>1. i - 1 \in 0..(k - 1) /\ ~(b <= i - 1) /\ ~((i - 1) + 1 >= k) /\ (i - 1) + 1 = i
    BY <1>0, <1>4
  <2>. QED BY <1>2, <2>1
<1>6. \A i \in 1..Len(q) : i > b => q[i].ip >= FIRST + b
  <2> SUFFICES ASSUME NEW i \in 1..Len(q), i > b PROVE q[i].ip >= FIRST + b
    OBVIOUS
  <2>1. CASE b = 0
    BY <1>0, <2>1
  <2>2. CASE b > 0
    <3>1. b \in 1..Len(q) /\ b \in 1..b
      BY <1>0, <1>4, <2>2
    <3>2. q[b].ip = FIRST + (b - 1)
      BY <1>5, <3>1
    <3>3. q[b].ip < q[i].ip
      BY <3>1 DEF ListOK, Sorted
    <3>. QED BY <1>0, <1>4, <3>1, <3>2, <3>3
  <2>. QED BY <1>4, <2>1, <2>2
<1>7. ASSUME NEW i \in 1..Len(q), i # k, q[i].ip = FIRST + b PROVE FALSE
  <2>1. CASE i <= b
    <3>1. i \in 1..b
      BY <1>4, <2>1
    <3>2. q[i].ip = FIRST + (i - 1)
      BY <1>5, <3>1
    <3>. QED BY <1>4, <1>7, <2>1, <3>2
  <2>2. CASE i > b + 1
    <3>1. b + 1 \in 1..Len(q) /\ b + 1 > b
      BY <1>0, <1>4, <2>2
    <3>2. q[b + 1].ip >= FIRST + b /\ q[b + 1].ip < q[i].ip
      BY <1>6, <2>2, <3>1 DEF ListOK, Sorted
    <3>. QED BY <1>0, <1>4, <1>7, <3>1, <3>2
  <2>3. CASE i = b + 1
    <3>1. b + 1 < k
      BY <1>0, <1>4, <1>7, <2>3
    <3>2. q[b + 1].ip # FIRST + b
      BY <1>0, <1>4, <3>1
    <3>. QED BY <1>7, <2>3, <3>2
  <2>. QED BY <1>4, <2>1, <2>2, <2>3
<1>. QED BY <1>3, <1>4, <1>7

\* A row is written over, for the same address.
LEMMA WrittenOver ==
    ASSUME NEW q, ListOK(q), NEW k \in 1..Len(q), NEW e \in Rows, e.ip = q[k].ip
    PROVE  LET w == [q EXCEPT ![k] = e]
           IN /\ Sorted(w) /\ Len(w) = Len(q) /\ w[k] = e
              /\ \A i \in 1..Len(q) : i # k => w[i] = q[i]
<1> DEFINE w == [q EXCEPT ![k] = e]
<1>1. /\ q \in Seq(Rows) /\ Len(q) \in Nat /\ DOMAIN q = 1..Len(q)
      /\ \A i \in 1..Len(q) : q[i] \in Rows
  BY RowsOf DEF ListOK
<1>2. /\ w \in Seq(Rows) /\ Len(w) = Len(q) /\ w[k] = e
      /\ \A i \in 1..Len(q) : i # k => w[i] = q[i]
  BY <1>1
<1> HIDE DEF w
<1>3. \A i \in 1..Len(q) : w[i].ip = q[i].ip
  BY <1>2
<1>4. Sorted(w)
  BY <1>2, <1>3 DEF ListOK, Sorted
<1>. QED BY <1>2, <1>4 DEF w

LEMMA LeaseOf ==
    ASSUME NEW w, Sorted(w), NEW k \in 1..Len(w)
    PROVE  <<w[k].mac, w[k].ip>> \in S!Leases(w)
<1>1. DOMAIN w = 1..Len(w)
  BY RowsOf
<1>. QED BY <1>1 DEF S!Leases

\* To a station without another row, or with one that is taken out.
LEMMA GivenTo ==
    ASSUME NEW q, ListOK(q), NEW k \in 1..Len(q), NEW e \in Rows, e.ip = q[k].ip,
           \A i \in 1..Len(q) : i # k => q[i].mac # e.mac
    PROVE  LET w == [q EXCEPT ![k] = e] IN ListOK(w) /\ <<e.mac, e.ip>> \in S!Leases(w)
<1> DEFINE w == [q EXCEPT ![k] = e]
<1>1. Sorted(w) /\ Len(w) = Len(q) /\ w[k] = e /\ \A i \in 1..Len(q) : i # k => w[i] = q[i]
  BY WrittenOver
<1> HIDE DEF w
<1>2. ASSUME NEW i \in 1..Len(w), NEW j \in 1..Len(w), i < j PROVE w[i].mac # w[j].mac
  <2>1. q[i].mac # q[j].mac
    BY <1>1, <1>2 DEF ListOK
  <2>2. CASE i = k
    BY <1>1, <1>2, <2>2
  <2>3. CASE j = k
    BY <1>1, <1>2, <2>3
  <2>4. CASE i # k /\ j # k
    BY <1>1, <2>1, <2>4
  <2>. QED BY <2>2, <2>3, <2>4
<1>3. ListOK(w)
  BY <1>1, <1>2 DEF ListOK
<1>4. <<w[k].mac, w[k].ip>> \in S!Leases(w)
  BY <1>1, LeaseOf
<1>. QED BY <1>1, <1>3, <1>4 DEF w

LEMMA MovedTo ==
    ASSUME NEW q, ListOK(q), NEW k \in 1..Len(q), NEW m \in 1..Len(q), k # m, NEW e \in Rows,
           e.ip = q[k].ip, e.mac = q[m].mac
    PROVE  LET w == S!RemoveAt([q EXCEPT ![k] = e], m)
           IN ListOK(w) /\ <<e.mac, e.ip>> \in S!Leases(w)
<1> DEFINE v == [q EXCEPT ![k] = e]
<1>1. Sorted(v) /\ Len(v) = Len(q) /\ v[k] = e /\ \A i \in 1..Len(q) : i # k => v[i] = q[i]
  BY WrittenOver, SMTT(30)
<1> HIDE DEF v
<1> DEFINE w == S!RemoveAt(v, m)
<1>2. v \in Seq(Rows) /\ Len(q) \in Nat
  BY <1>1, RowsOf DEF ListOK
<1>3. Sorted(w) /\ Len(w) = Len(q) - 1 /\ \A i \in 1..(Len(q) - 1) : w[i] = v[After(m, i)]
  BY <1>1, <1>2, StaysSorted, TakenOut
<1> HIDE DEF w
<1>4. \A i \in 1..Len(w) : After(m, i) \in 1..Len(q) /\ After(m, i) # m
  BY <1>2, <1>3 DEF After
<1>5. \A i, j \in 1..Len(q) : i # j => q[i].mac # q[j].mac
  <2> SUFFICES ASSUME NEW i \in 1..Len(q), NEW j \in 1..Len(q), i # j PROVE q[i].mac # q[j].mac
    OBVIOUS
  <2>1. i < j \/ j < i
    OBVIOUS
  <2>. QED BY <2>1 DEF ListOK
<1>6. \A i, j \in 1..Len(q) : i # j /\ i # m /\ j # m => v[i].mac # v[j].mac
  <2> SUFFICES ASSUME NEW i \in 1..Len(q), NEW j \in 1..Len(q), i # j, i # m, j # m
               PROVE  v[i].mac # v[j].mac
    OBVIOUS
  <2>1. CASE i = k
    BY <1>1, <1>5, <2>1
  <2>2. CASE j = k
    BY <1>1, <1>5, <2>2
  <2>3. CASE i # k /\ j # k
    BY <1>1, <1>5, <2>3
  <2>. QED BY <2>1, <2>2, <2>3
<1>7. ASSUME NEW i \in 1..Len(w), NEW j \in 1..Len(w), i < j PROVE w[i].mac # w[j].mac
  <2>1. After(m, i) # After(m, j)
    BY <1>2, <1>3, <1>7 DEF After
  <2>2. w[i] = v[After(m, i)] /\ w[j] = v[After(m, j)]
    BY <1>3
  <2>. QED BY <1>4, <1>6, <2>1, <2>2
<1>8. <<e.mac, e.ip>> \in S!Leases(w)
  <2> DEFINE b == IF k < m THEN k ELSE k - 1
  <2>1. b \in 1..Len(w) /\ After(m, b) = k
    BY <1>2, <1>3 DEF After
  <2> HIDE DEF b
  <2>2. w[b] = e
    BY <1>1, <1>3, <2>1
  <2>3. <<w[b].mac, w[b].ip>> \in S!Leases(w)
    BY <1>3, <2>1, LeaseOf
  <2>. QED BY <2>2, <2>3
<1>9. ListOK(w)
  BY <1>3, <1>7 DEF ListOK
<1>. QED BY <1>8, <1>9 DEF v, w

\* What a call of the server leaves and answers.
UpdateOK(u, c) ==
    ListOK(u.list) /\ u.addr \in Addr /\ (u.addr # 0 => <<c, u.addr>> \in S!Leases(u.list))

LEMMA UpdateIs ==
    ASSUME ListOK(plist), NEW c \in Stations, NEW ciaddr \in Addr
    PROVE  UpdateOK(S!client_update(c, ciaddr), c)
<1> DEFINE q == plist
           m == S!OfMac(q, c)
           k == S!OfIp(q, ciaddr)
           type == IF ciaddr = 0 THEN "DYNAMIC" ELSE "STATIC"
           addr == IF ciaddr = 0 THEN S!FreeBefore(q, m) ELSE ciaddr
           u == S!client_update(c, ciaddr)
           e == S!Online(c, addr, type)
<1> SUFFICES UpdateOK(u, c)
  OBVIOUS
<1>0. /\ q \in Seq(Rows) /\ Len(q) \in Nat /\ DOMAIN q = 1..Len(q)
      /\ \A i \in 1..Len(q) : q[i] \in Rows /\ q[i].ip \in Nat /\ q[i].ip >= FIRST
  BY RowsOf DEF ListOK
<1>1. /\ m \in 1..(Len(q) + 1)
      /\ m <= Len(q) => m \in 1..Len(q) /\ q[m].mac = c
      /\ m > Len(q) => \A i \in 1..Len(q) : q[i].mac # c
  <2> DEFINE Z == {i \in 1..Len(q) : q[i].mac = c}
  <2>1. m = S!Found(q, Z) /\ Z \in SUBSET (1..Len(q))
    BY <1>0 DEF S!OfMac
  <2>2. \A i \in 1..Len(q) : i \in Z <=> q[i].mac = c
    OBVIOUS
  <2> HIDE DEF Z, m
  <2>3. m \in 1..(Len(q) + 1) /\ (m <= Len(q) => m \in Z) /\ (m > Len(q) => Z = {})
    BY <1>0, <2>1, FoundFirst
  <2>. QED BY <2>1, <2>2, <2>3
<1>2. /\ k \in 1..(Len(q) + 1)
      /\ k <= Len(q) => k \in 1..Len(q) /\ q[k].ip = ciaddr /\ ciaddr # 0
      /\ k > Len(q) => ciaddr = 0 \/ \A i \in 1..Len(q) : q[i].ip # ciaddr
  <2> DEFINE Z == {i \in 1..Len(q) : ciaddr # 0 /\ q[i].ip = ciaddr}
  <2>1. k = S!Found(q, Z) /\ Z \in SUBSET (1..Len(q))
    BY <1>0 DEF S!OfIp, S!ANY
  <2>2. \A i \in 1..Len(q) : i \in Z <=> ciaddr # 0 /\ q[i].ip = ciaddr
    OBVIOUS
  <2> HIDE DEF Z, k
  <2>3. k \in 1..(Len(q) + 1) /\ (k <= Len(q) => k \in Z) /\ (k > Len(q) => Z = {})
    BY <1>0, <2>1, FoundFirst
  <2>. QED BY <2>1, <2>2, <2>3
<1>3. u = IF m <= Len(q) /\ k <= Len(q) /\ k = m
          THEN [list |-> [q EXCEPT ![k] = S!Online(c, ciaddr, "DYNAMIC")], addr |-> ciaddr]
          ELSE IF k <= Len(q)
          THEN IF q[k].online THEN [list |-> q, addr |-> 0]
               ELSE [list |-> LET new == [q EXCEPT ![k] = S!Online(c, ciaddr, type)]
                              IN IF m <= Len(q) THEN S!RemoveAt(new, m) ELSE new,
                     addr |-> ciaddr]
          ELSE IF m <= Len(q)
          THEN [list |-> S!node_insert_to_list(S!RemoveAt(q, m), e), addr |-> addr]
          ELSE IF addr > LAST THEN [list |-> q, addr |-> 0]
          ELSE [list |-> S!node_insert_to_list(q, e), addr |-> addr]
  BY DEF S!client_update, S!ANY
<1>4. addr \in Nat /\ addr >= FIRST
  <2>1. CASE ciaddr = 0
    <3>1. S!FreeBefore(q, m) \in Nat /\ S!FreeBefore(q, m) >= FIRST
      BY <1>1, FreeIs
    <3>. QED BY <2>1, <3>1
  <2>2. CASE ciaddr # 0
    BY <2>2 DEF Addr
  <2>. QED BY <2>1, <2>2
<1>5. k > Len(q) => \A i \in 1..Len(q) : i # m => q[i].ip # addr
  <2>1. CASE ciaddr = 0
    <3>1. \A i \in 1..Len(q) : i # m => q[i].ip # S!FreeBefore(q, m)
      BY <1>1, FreeIs
    <3>. QED BY <2>1, <3>1
  <2>2. CASE ciaddr # 0
    BY <1>2, <2>2
  <2>. QED BY <2>1, <2>2
<1>6. \A a \in Nat : \A ty \in {"DYNAMIC", "STATIC"} :
         a >= FIRST => /\ S!Online(c, a, ty) \in Rows
                       /\ S!Online(c, a, ty).ip = a /\ S!Online(c, a, ty).mac = c
  BY DEF S!Online, Rows
<1>7. type \in {"DYNAMIC", "STATIC"}
  OBVIOUS
<1>15. ListOK(q)
  OBVIOUS
<1> HIDE DEF type, addr, m, k, u, q
<1>8. e \in Rows /\ e.ip = addr /\ e.mac = c
  BY <1>4, <1>6, <1>7
<1> HIDE DEF e
<1>9. addr \in Addr /\ addr # 0 /\ 0 \in Addr
  BY <1>4 DEF Addr
<1>10. CASE m <= Len(q) /\ k <= Len(q) /\ k = m
  <2> DEFINE x == S!Online(c, ciaddr, "DYNAMIC")
             w == [q EXCEPT ![k] = x]
  <2>1. k \in 1..Len(q) /\ q[k].ip = ciaddr /\ q[k].mac = c /\ ciaddr \in Nat /\ ciaddr >= FIRST
    BY <1>0, <1>1, <1>2, <1>10
  <2>2. x \in Rows /\ x.ip = q[k].ip /\ x.mac = c /\ x.ip = ciaddr
    BY <1>6, <2>1
  <2>3. \A i \in 1..Len(q) : i # k => q[i].mac # c
    <3> SUFFICES ASSUME NEW i \in 1..Len(q), i # k PROVE q[i].mac # c
      OBVIOUS
    <3>1. i < k \/ k < i
      BY <1>0, <2>1
    <3>. QED BY <1>15, <2>1, <3>1 DEF ListOK
  <2> HIDE DEF x
  <2>4. ListOK(w) /\ <<x.mac, x.ip>> \in S!Leases(w)
    BY <1>15, <2>1, <2>2, <2>3, GivenTo
  <2>5. u = [list |-> w, addr |-> ciaddr]
    BY <1>3, <1>10 DEF x
  <2> HIDE DEF w
  <2>. QED BY <2>2, <2>4, <2>5 DEF UpdateOK
<1>11. CASE ~(m <= Len(q) /\ k <= Len(q) /\ k = m) /\ k <= Len(q)
  <2>1. CASE q[k].online
    <3>1. u = [list |-> q, addr |-> 0]
      BY <1>3, <1>11, <2>1
    <3>. QED BY <1>9, <1>15, <3>1 DEF UpdateOK
  <2>2. CASE ~q[k].online
    <3> DEFINE x == S!Online(c, ciaddr, type)
               w == [q EXCEPT ![k] = x]
               z == S!RemoveAt(w, m)
    <3>1. k \in 1..Len(q) /\ q[k].ip = ciaddr /\ ciaddr \in Nat /\ ciaddr >= FIRST
      BY <1>0, <1>2, <1>11
    <3>2. x \in Rows /\ x.ip = q[k].ip /\ x.mac = c /\ x.ip = ciaddr
      BY <1>6, <1>7, <3>1
    <3>3. u = [list |-> IF m <= Len(q) THEN z ELSE w, addr |-> ciaddr]
      BY <1>3, <1>11, <2>2
    <3> HIDE DEF x
    <3>4. CASE m <= Len(q)
      <4>1. m \in 1..Len(q) /\ q[m].mac = c /\ k # m
        BY <1>1, <1>11, <3>4
      <4>2. ListOK(z) /\ <<x.mac, x.ip>> \in S!Leases(z)
        BY <1>15, <3>1, <3>2, <4>1, MovedTo
      <4> HIDE DEF z
      <4>. QED BY <3>2, <3>3, <3>4, <4>2 DEF UpdateOK
    <3>5. CASE ~(m <= Len(q))
      <4>1. \A i \in 1..Len(q) : q[i].mac # c
        BY <1>0, <1>1, <3>5
      <4>2. ListOK(w) /\ <<x.mac, x.ip>> \in S!Leases(w)
        BY <1>15, <3>1, <3>2, <4>1, GivenTo
      <4> HIDE DEF w
      <4>. QED BY <3>2, <3>3, <3>5, <4>2 DEF UpdateOK
    <3>. QED BY <3>4, <3>5
  <2>. QED BY <2>1, <2>2
<1>12. CASE ~(k <= Len(q)) /\ m <= Len(q)
  <2> DEFINE r == S!RemoveAt(q, m)
             w == S!node_insert_to_list(r, e)
  <2>1. m \in 1..Len(q) /\ q[m].mac = c /\ k > Len(q)
    BY <1>0, <1>1, <1>2, <1>12
  <2>2. /\ ListOK(r) /\ \A i \in 1..Len(r) : r[i].mac # q[m].mac
        /\ \A i \in 1..Len(r) : \E j \in 1..Len(q) : j # m /\ r[i] = q[j]
    BY <1>15, <2>1, TakenOutOK
  <2> HIDE DEF r
  <2>3. \A i \in 1..Len(r) : r[i].ip # e.ip /\ r[i].mac # e.mac
    BY <1>5, <1>8, <2>1, <2>2
  <2>4. ListOK(w) /\ <<e.mac, e.ip>> \in S!Leases(w)
    BY <1>8, <2>2, <2>3, PutIn
  <2>5. u = [list |-> w, addr |-> addr]
    BY <1>3, <1>12 DEF r
  <2> HIDE DEF w
  <2>. QED BY <1>8, <1>9, <2>4, <2>5 DEF UpdateOK
<1>13. CASE ~(k <= Len(q)) /\ ~(m <= Len(q))
  <2>1. CASE addr > LAST
    <3>1. u = [list |-> q, addr |-> 0]
      BY <1>3, <1>13, <2>1
    <3>. QED BY <1>9, <1>15, <3>1 DEF UpdateOK
  <2>2. CASE ~(addr > LAST)
    <3> DEFINE w == S!node_insert_to_list(q, e)
    <3>1. \A i \in 1..Len(q) : q[i].ip # e.ip /\ q[i].mac # e.mac
      <4>1. k > Len(q) /\ m > Len(q) /\ \A i \in 1..Len(q) : i # m
        BY <1>0, <1>1, <1>2, <1>13
      <4>. QED BY <1>1, <1>5, <1>8, <4>1
    <3>2. ListOK(w) /\ <<e.mac, e.ip>> \in S!Leases(w)
      BY <1>8, <1>15, <3>1, PutIn
    <3>3. u = [list |-> w, addr |-> addr]
      BY <1>3, <1>13, <2>2
    <3> HIDE DEF w
    <3>. QED BY <1>8, <1>9, <3>2, <3>3 DEF UpdateOK
  <2>. QED BY <2>1, <2>2
<1>. QED BY <1>10, <1>11, <1>12, <1>13

\* A row is marked: nothing else changes.
LEMMA Marked ==
    ASSUME NEW q, ListOK(q), NEW k \in 1..Len(q)
    PROVE  LET w == [q EXCEPT ![k].online = FALSE]
           IN ListOK(w) /\ Len(w) = Len(q) /\ S!Leases(w) = S!Leases(q)
<1> DEFINE e == [q[k] EXCEPT !.online = FALSE]
           w == [q EXCEPT ![k] = e]
<1>0. /\ q \in Seq(Rows) /\ Len(q) \in Nat /\ DOMAIN q = 1..Len(q)
      /\ \A i \in 1..Len(q) : q[i] \in Rows
  BY RowsOf DEF ListOK
<1>1. e \in Rows /\ e.ip = q[k].ip /\ e.mac = q[k].mac
  BY <1>0 DEF Rows
<1>2. [q EXCEPT ![k].online = FALSE] = w
  OBVIOUS
<1> HIDE DEF e
<1>3. Sorted(w) /\ Len(w) = Len(q) /\ w[k] = e /\ \A i \in 1..Len(q) : i # k => w[i] = q[i]
  BY <1>1, WrittenOver
<1>4. DOMAIN w = 1..Len(q)
  BY <1>0
<1> HIDE DEF w
<1>5. \A i \in 1..Len(q) : w[i].mac = q[i].mac /\ w[i].ip = q[i].ip
  BY <1>1, <1>3
<1>6. ListOK(w)
  BY <1>3, <1>5 DEF ListOK
<1>7. S!Leases(w) = S!Leases(q)
  BY <1>0, <1>4, <1>5 DEF S!Leases
<1>. QED BY <1>2, <1>3, <1>6, <1>7

\* A station that leaves or releases: only its own leases go.
LEMMA LeaveIs ==
    ASSUME NEW q, ListOK(q), NEW mac, NEW ip, NEW force
    PROVE  /\ ListOK(S!client_leave(q, mac, ip, force))
           /\ \A d, x : d # mac /\ <<d, x>> \in S!Leases(q) =>
                          <<d, x>> \in S!Leases(S!client_leave(q, mac, ip, force))
<1> DEFINE Z == {k \in 1..Len(q) : q[k].mac = mac /\ q[k].ip = ip}
           i == S!Found(q, Z)
           w == S!client_leave(q, mac, ip, force)
<1>0. q \in Seq(Rows) /\ Len(q) \in Nat /\ DOMAIN q = 1..Len(q)
  BY RowsOf DEF ListOK
<1>1. Z \in SUBSET (1..Len(q)) /\ \A k \in Z : q[k].mac = mac
  OBVIOUS
<1>2. w = IF i > Len(q) THEN q
          ELSE IF force \/ q[i].type = "STATIC" THEN S!RemoveAt(q, i)
          ELSE [q EXCEPT ![i].online = FALSE]
  BY <1>0 DEF S!client_leave
<1> HIDE DEF Z, w
<1>3. i \in 1..(Len(q) + 1) /\ (i <= Len(q) => i \in Z)
  BY <1>0, <1>1, FoundFirst
<1> HIDE DEF i
<1>4. i <= Len(q) => i \in 1..Len(q) /\ q[i].mac = mac
  BY <1>1, <1>3
<1>5. S!Leases(q) = {<<q[k].mac, q[k].ip>> : k \in 1..Len(q)}
  BY <1>0 DEF S!Leases
<1>6. CASE i > Len(q)
  <2>1. w = q
    BY <1>2, <1>6
  <2>. QED BY <2>1 DEF w
<1>7. CASE i <= Len(q) /\ (force \/ q[i].type = "STATIC")
  <2>1. i \in 1..Len(q) /\ q[i].mac = mac
    BY <1>4, <1>7
  <2>2. ~(i > Len(q))
    BY <1>0, <1>3, <1>7
  <2>3. w = S!RemoveAt(q, i)
    BY <1>2, <1>7, <2>2
  <2>4. ListOK(w) /\ \A k \in 1..Len(q) : k # i => <<q[k].mac, q[k].ip>> \in S!Leases(w)
    BY <2>1, <2>3, TakenOutOK
  <2>5. ASSUME NEW d, NEW x, d # mac, <<d, x>> \in S!Leases(q)
        PROVE  <<d, x>> \in S!Leases(w)
    <3>1. PICK k \in 1..Len(q) : <<d, x>> = <<q[k].mac, q[k].ip>>
      BY <1>5, <2>5
    <3>2. d = q[k].mac
      BY <3>1
    <3>3. k # i
      BY <2>1, <2>5, <3>2
    <3>. QED BY <2>4, <3>1, <3>3
  <2>. QED BY <2>4, <2>5 DEF w
<1>8. CASE i <= Len(q) /\ ~(force \/ q[i].type = "STATIC")
  <2>1. i \in 1..Len(q) /\ ~(i > Len(q))
    BY <1>0, <1>3, <1>4, <1>8
  <2>2. w = [q EXCEPT ![i].online = FALSE]
    BY <1>2, <1>8, <2>1
  <2>3. ListOK(w) /\ S!Leases(w) = S!Leases(q)
    BY <2>1, <2>2, Marked
  <2>. QED BY <2>3 DEF w
<1>9. i > Len(q) \/ i <= Len(q)
  BY <1>0, <1>3
<1>. QED BY <1>6, <1>7, <1>8, <1>9

\* Of all rows but the first one goes.
LEMMA PoolMadeSmaller ==
    ASSUME NEW q, ListOK(q), Len(q) >= 2
    PROVE  ListOK(S!kill_oldest_dhcps_pool(q))
<1> DEFINE Z == {i \in 2..Len(q) : \A j \in 2..Len(q) : q[i].timer <= q[j].timer}
           v == [q EXCEPT ![Len(q)].online = FALSE]
           k == S!Min(Z)
<1>0. /\ q \in Seq(Rows) /\ Len(q) \in Nat
      /\ \A i \in 1..Len(q) : q[i] \in Rows
  BY RowsOf DEF ListOK
<1>1. \A i \in 2..Len(q) : q[i].timer \in Nat
  <2> SUFFICES ASSUME NEW i \in 2..Len(q) PROVE q[i].timer \in Nat
    OBVIOUS
  <2>1. q[i] \in Rows
    BY <1>0
  <2>. QED BY <2>1 DEF Rows
<1>2. \E b \in 2..Len(q) : \A j \in 2..Len(q) : q[b].timer <= q[j].timer
  <2> DEFINE T == {q[i].timer : i \in 2..Len(q)}
  <2>1. 2 \in 2..Len(q)
    BY <1>0
  <2>2. q[2].timer \in T
    BY <2>1
  <2>3. T \subseteq Nat
    BY <1>1
  <2>4. T \in SUBSET Nat /\ T # {}
    <3> HIDE DEF T
    <3>. QED BY <2>2, <2>3
  <2>5. \E t \in T : \A x \in T : t <= x
    <3> HIDE DEF T
    <3>. QED BY <2>4, LeastExists
  <2>. QED BY <2>5
<1>6. Z # {} /\ Z \subseteq 2..Len(q)
  BY <1>2
<1>10. S!kill_oldest_dhcps_pool(q) = S!RemoveAt(v, k)
  BY DEF S!kill_oldest_dhcps_pool
<1> HIDE DEF Z
<1>7. Z \in SUBSET Nat /\ Z # {}
  BY <1>0, <1>6
<1>8. k \in Z
  BY <1>7, LeastIs DEF S!Min
<1> HIDE DEF k
<1>9. k \in 1..Len(q) /\ Len(q) \in 1..Len(q)
  BY <1>0, <1>6, <1>8
<1>11. ListOK(v) /\ Len(v) = Len(q)
  BY <1>9, Marked
<1> HIDE DEF v
<1>12. ListOK(S!RemoveAt(v, k))
  BY <1>9, <1>11, TakenOutOK
<1>13. ListOK(S!kill_oldest_dhcps_pool(q))
  BY <1>10, <1>12
<1>. QED BY <1>13

\* What is left of a list is in order, as the list was.
LEMMA KeptIs ==
    ASSUME NEW q, ListOK(q), NEW a, NEW Z \in SUBSET (1..Len(q)),
           \A i \in Z : a[i] \in Rows /\ a[i].ip = q[i].ip /\ a[i].mac = q[i].mac
    PROVE  ListOK(S!Kept(a, Z))
<1> DEFINE R(i) == S!Cardinality({j \in Z : j <= i})
           n == S!Cardinality(Z)
           At(k) == CHOOSE i \in Z : R(i) = k
           w == S!Kept(a, Z)
<1>0. Len(q) \in Nat
  BY RowsOf DEF ListOK
<1>a. \A j \in Z : j \in Nat /\ j >= 1 /\ j <= Len(q)
  BY <1>0
<1>1. IsFiniteSet(Z) /\ n \in Nat
  <2>1. IsFiniteSet(1..Len(q))
    BY <1>0, FS_Interval
  <2>2. IsFiniteSet(Z)
    BY <2>1, FS_Subset
  <2>. QED BY <2>2, FS_CardinalityType, CountsAlike
<1>2. \A i : IsFiniteSet({j \in Z : j <= i}) /\ R(i) \in Nat
  <2> SUFFICES ASSUME NEW i PROVE IsFiniteSet({j \in Z : j <= i}) /\ R(i) \in Nat
    OBVIOUS
  <2>1. IsFiniteSet({j \in Z : j <= i})
    BY <1>1, FS_Subset
  <2>. QED BY <2>1, FS_CardinalityType, CountsAlike
<1>3. \A i, j \in Nat : i <= j => R(i) <= R(j)
  <2> SUFFICES ASSUME NEW i \in Nat, NEW j \in Nat, i <= j PROVE R(i) <= R(j)
    OBVIOUS
  <2> DEFINE X == {m \in Z : m <= i}
             Y == {m \in Z : m <= j}
  <2>1. X \subseteq Y
    <3> SUFFICES ASSUME NEW m \in Z, m <= i PROVE m <= j
      OBVIOUS
    <3>. QED BY <1>a
  <2>2. IsFiniteSet(Y)
    BY <1>2
  <2>3. R(i) = Cardinality(X) /\ R(j) = Cardinality(Y)
    BY CountsAlike
  <2> HIDE DEF X, Y, R
  <2>. QED BY <2>1, <2>2, <2>3, FS_Subset
<1>4. R(0) = 0 /\ R(Len(q)) = n
  <2>1. {j \in Z : j <= 0} = {}
    <3>1. ~ \E j \in Z : j <= 0
      BY <1>a
    <3>. QED BY <3>1
  <2>2. {j \in Z : j <= Len(q)} = Z
    BY <1>a
  <2>3. S!Cardinality({}) = 0
    BY FS_EmptySet, CountsAlike
  <2>. QED BY <2>1, <2>2, <2>3
<1>5. ASSUME NEW b \in Nat, b > 0
      PROVE  IF b \in Z THEN R(b) = R(b - 1) + 1 ELSE R(b) = R(b - 1)
  <2> DEFINE X == {j \in Z : j <= b - 1}
             Y == {j \in Z : j <= b}
  <2>1. R(b - 1) = Cardinality(X) /\ R(b) = Cardinality(Y) /\ IsFiniteSet(X)
    BY <1>2, CountsAlike
  <2>2. CASE b \in Z
    <3>0. \A j \in Z : (j <= b <=> j <= b - 1 \/ j = b)
      BY <1>a, <1>5
    <3>1. Y = X \cup {b} /\ b \notin X
      <4>1. ~(b <= b - 1)
        BY <1>5
      <4>2. b \notin X
        BY <4>1
      <4>3. \A j : j \in Y <=> j \in X \/ j = b
        BY <2>2, <3>0
      <4> HIDE DEF X, Y
      <4>. QED BY <4>2, <4>3
    <3> HIDE DEF X, Y, R
    <3>2. Cardinality(X \cup {b}) = Cardinality(X) + 1
      BY <2>1, <3>1, FS_AddElement
    <3>. QED BY <2>1, <2>2, <3>1, <3>2
  <2>3. CASE b \notin Z
    <3>0. \A j \in Z : (j <= b <=> j <= b - 1)
      BY <1>a, <1>5, <2>3
    <3>1. Y = X
      BY <3>0
    <3> HIDE DEF X, Y, R
    <3>. QED BY <2>1, <2>3, <3>1
  <2>. QED BY <2>2, <2>3
<1> HIDE DEF R, n
<1>6. ASSUME NEW k \in 1..n PROVE \E i \in Z : R(i) = k
  <2> DEFINE Y == {i \in Nat : R(i) >= k}
  <2>0. n \in Nat /\ k \in Nat /\ k >= 1 /\ k <= n
    BY <1>1
  <2>1. Y \in SUBSET Nat /\ Len(q) \in Y
    BY <1>0, <1>4, <2>0
  <2>2. PICK b \in Y : \A x \in Y : b <= x
    <3> HIDE DEF Y
    <3>1. Y # {}
      BY <2>1
    <3>. QED BY <2>1, <3>1, LeastExists
  <2>3. b \in Nat /\ R(b) >= k /\ R(b) \in Nat
    BY <1>2
  <2>4. b > 0
    BY <1>4, <2>0, <2>3
  <2>5. b - 1 \in Nat /\ R(b - 1) \in Nat /\ R(b - 1) < k
    <3>1. b - 1 \in Nat /\ ~(b <= b - 1)
      BY <2>3, <2>4
    <3>2. b - 1 \notin Y
      BY <2>2, <3>1
    <3>3. R(b - 1) \in Nat
      BY <1>2
    <3>. QED BY <2>0, <3>1, <3>2, <3>3
  <2>6. IF b \in Z THEN R(b) = R(b - 1) + 1 ELSE R(b) = R(b - 1)
    BY <1>5, <2>3, <2>4
  <2>7. b \in Z
    BY <2>0, <2>3, <2>5, <2>6
  <2>8. R(b) = k
    BY <2>0, <2>3, <2>5, <2>6, <2>7
  <2>. QED BY <2>7, <2>8
<1>7. \A k \in 1..n : At(k) \in Z /\ R(At(k)) = k
  BY <1>6
<1>8. w = [k \in 1..n |-> a[At(k)]]
  BY DEF S!Kept, R, n
<1> HIDE DEF At, w
<1>9. ASSUME NEW k \in 1..n, NEW l \in 1..n, k < l PROVE At(k) < At(l)
  <2>1. /\ At(k) \in 1..Len(q) /\ At(l) \in 1..Len(q) /\ R(At(k)) = k /\ R(At(l)) = l
    BY <1>7
  <2>2. CASE At(l) <= At(k)
    <3>1. l <= k
      BY <1>0, <1>3, <2>1, <2>2
    <3>. QED BY <1>1, <1>9, <3>1
  <2>. QED BY <1>0, <2>1, <2>2
<1>10. w \in [1..n -> Rows] /\ \A k \in 1..n : w[k] = a[At(k)]
  BY <1>7, <1>8
<1>11. w \in Seq(Rows) /\ Len(w) = n
  BY <1>1, <1>8, <1>10
<1>12. ASSUME NEW k \in 1..n, NEW l \in 1..n, k < l
       PROVE  w[k].ip < w[l].ip /\ w[k].mac # w[l].mac
  <2>1. At(k) \in 1..Len(q) /\ At(l) \in 1..Len(q) /\ At(k) < At(l) /\ At(k) \in Z /\ At(l) \in Z
    BY <1>7, <1>9, <1>12
  <2>2. q[At(k)].ip < q[At(l)].ip /\ q[At(k)].mac # q[At(l)].mac
    BY <2>1 DEF ListOK, Sorted
  <2>. QED BY <1>10, <2>1, <2>2
<1>. QED BY <1>11, <1>12 DEF ListOK, Sorted, w

\* A minute goes by: a lease with no time left is dropped.
LEMMA LeasesAged ==
    ASSUME NEW q, ListOK(q)
    PROVE  ListOK(S!Aged(q))
<1> DEFINE a == [i \in DOMAIN q |->
                    IF q[i].type = "DYNAMIC" THEN [q[i] EXCEPT !.timer = @ - 1] ELSE q[i]]
           Z == {i \in DOMAIN q : a[i].timer # 0}
<1>0. /\ q \in Seq(Rows) /\ Len(q) \in Nat /\ DOMAIN q = 1..Len(q)
      /\ \A i \in 1..Len(q) : q[i] \in Rows
  BY RowsOf DEF ListOK
<1>1. S!Aged(q) = S!Kept(a, Z)
  BY DEF S!Aged
<1>2. Z \in SUBSET (1..Len(q)) /\ \A i \in Z : a[i].timer # 0
  BY <1>0
<1>3. \A i \in 1..Len(q) :
         a[i] = IF q[i].type = "DYNAMIC" THEN [q[i] EXCEPT !.timer = q[i].timer - 1] ELSE q[i]
  BY <1>0
<1> HIDE DEF a, Z
<1>4. ASSUME NEW i \in Z PROVE a[i] \in Rows /\ a[i].ip = q[i].ip /\ a[i].mac = q[i].mac
  <2>1. i \in 1..Len(q) /\ q[i] \in Rows /\ a[i].timer # 0
    BY <1>0, <1>2
  <2>2. CASE q[i].type = "DYNAMIC"
    <3> DEFINE t == q[i].timer - 1
               e == [q[i] EXCEPT !.timer = t]
    <3>1. a[i] = e
      BY <1>3, <2>1, <2>2
    <3>2. t \in Nat
      BY <2>1 DEF Rows
    <3> HIDE DEF t
    <3>3. e.timer = t /\ e.ip = q[i].ip /\ e.mac = q[i].mac
      BY <2>1 DEF Rows
    <3>4. t \in Nat \ {0}
      BY <2>1, <3>1, <3>2, <3>3
    <3>5. e \in Rows
      BY <2>1, <3>4 DEF Rows
    <3> HIDE DEF e
    <3>. QED BY <3>1, <3>3, <3>5
  <2>3. CASE q[i].type # "DYNAMIC"
    BY <1>3, <2>1, <2>3
  <2>. QED BY <2>2, <2>3
<1>. QED BY <1>1, <1>2, <1>4, KeptIs

-----------------------------------------------------------------------------
(* DHCP: a station and the server, step by step.                            *)

\* A step of a client, whether it starts a transaction or goes on.
LEMMA ClientStep ==
    ASSUME NEW n, NEW q, NEW r, NEW a, StationOK(n, q, r, a),
           NEW rest \in Seq(Answers), Len(rest) <= Len(r),
           \A i \in 1..Len(rest) : \E j \in 1..Len(r) : rest[i] = r[j],
           NEW p, NEW g, Leads(n, p, g),
           g => a = n.offered /\ AllCurrent(q) /\ n.state # "SELECTING"
    PROVE  StationOK([p EXCEPT !.out = <<>>, !.drawn = FALSE],
                     S!Sent(IF p.drawn THEN S!Outdated(q) ELSE q, p.out),
                     IF p.drawn THEN S!Outdated(rest) ELSE rest,
                     IF p.state = "SELECTING" THEN 0 ELSE a)
<1>1. p \in Clients /\ Goes(p) /\ (Anew(p) \/ Further(p))
  BY DEF Leads
<1>2. CASE Anew(p)
  <2>1. p.drawn
    BY <1>2 DEF Anew
  <2>2. StationOK([p EXCEPT !.out = <<>>, !.drawn = FALSE], S!Sent(S!Outdated(q), p.out),
                  S!Outdated(rest), IF p.state = "SELECTING" THEN 0 ELSE a)
    BY <1>1, <1>2, AnewStep
  <2>. QED BY <2>1, <2>2
<1>3. CASE ~Anew(p)
  <2>1. ~p.drawn
    BY <1>1, <1>3 DEF Further
  <2>2. StationOK([p EXCEPT !.out = <<>>, !.drawn = FALSE], S!Sent(q, p.out), rest,
                  IF p.state = "SELECTING" THEN 0 ELSE a)
    BY <1>3, FurtherStep
  <2>. QED BY <2>1, <2>2
<1>. QED BY <1>2, <1>3

\* A message is taken off, or lost.
LEMMA RequestTaken ==
    ASSUME NEW n, NEW q, NEW r, NEW a, StationOK(n, q, r, a), q # <<>>
    PROVE  StationOK(n, Tail(q), r, a)
<1> DEFINE w == Tail(q)
<1>1. q \in Seq(Msgs) /\ r \in Seq(Answers)
  BY DEF StationOK
<1>2. /\ w \in Seq(Msgs) /\ Len(w) = Len(q) - 1 /\ Len(q) \in Nat
      /\ \A i \in 1..Len(w) : i + 1 \in 1..Len(q) /\ w[i] = q[i + 1]
  BY <1>1
<1> HIDE DEF w
<1>3. Len(q) <= CHANNEL => Len(w) <= CHANNEL
  BY <1>2
<1>4. ASSUME NewLast(q), NEW i \in 1..Len(w), NEW j \in 1..Len(w), i < j, w[i].current
      PROVE  w[j].current
  <2>1. /\ i + 1 \in 1..Len(q) /\ j + 1 \in 1..Len(q) /\ i + 1 < j + 1
        /\ w[i] = q[i + 1] /\ w[j] = q[j + 1]
    BY <1>2, <1>4
  <2>2. q[i + 1].current => q[j + 1].current
    BY <1>4, <2>1 DEF NewLast
  <2>. QED BY <1>4, <2>1, <2>2
<1>5. AsksFor(q, n) => AsksFor(w, n)
  BY <1>2 DEF AsksFor
<1>6. AllCurrent(q) => AllCurrent(w)
  BY <1>2 DEF AllCurrent
<1>7. Answered(r, q, n, a) => Answered(r, w, n, a)
  BY <1>6 DEF Answered
<1>8. NewLast(q) => NewLast(w)
  BY <1>4 DEF NewLast
<1>9. StationOK(n, w, r, a)
  BY <1>2, <1>3, <1>5, <1>6, <1>7, <1>8 DEF StationOK
<1>. QED BY <1>9 DEF w

LEMMA AnswerTaken ==
    ASSUME NEW n, NEW q, NEW r, NEW a, StationOK(n, q, r, a), r # <<>>
    PROVE  /\ StationOK(n, q, Tail(r), a)
           /\ Tail(r) \in Seq(Answers) /\ Len(Tail(r)) <= Len(r)
           /\ \A i \in 1..Len(Tail(r)) : \E j \in 1..Len(r) : Tail(r)[i] = r[j]
           /\ Head(r) \in Answers
           /\ Head(r).current /\ Head(r).type = "ACK" =>
                /\ Head(r).yiaddr = n.offered /\ a = n.offered /\ AllCurrent(q)
                /\ n.state # "SELECTING"
<1> DEFINE w == Tail(r)
<1>1. r \in Seq(Answers)
  BY DEF StationOK
<1>2. /\ w \in Seq(Answers) /\ Len(w) = Len(r) - 1 /\ Len(r) \in Nat
      /\ \A i \in 1..Len(w) : i + 1 \in 1..Len(r) /\ w[i] = r[i + 1]
  BY <1>1
<1>3. Head(r) \in Answers /\ Head(r) = r[1] /\ 1 \in 1..Len(r)
  BY <1>1
<1> HIDE DEF w
<1>4. Len(w) <= Len(r) /\ \A i \in 1..Len(w) : \E j \in 1..Len(r) : w[i] = r[j]
  BY <1>2
<1>5. Answered(r, q, n, a) /\ Len(r) <= CHANNEL
  BY DEF StationOK
<1>6. Answered(w, q, n, a)
  BY <1>2, <1>5 DEF Answered
<1>7. Len(w) <= CHANNEL
  BY <1>2, <1>5
<1>8. StationOK(n, q, w, a)
  BY <1>2, <1>6, <1>7 DEF StationOK
<1>9. r[1].current /\ r[1].type = "ACK" =>
        r[1].yiaddr = n.offered /\ a = n.offered /\ AllCurrent(q) /\ n.state # "SELECTING"
  BY <1>3, <1>5 DEF Answered
<1>. QED BY <1>2, <1>3, <1>4, <1>8, <1>9 DEF w

\* The server answers a message: to a REQUEST it acknowledges what was
\* requested or nothing.
LEMMA ServedStep ==
    ASSUME NEW n, NEW q, NEW r, NEW a, StationOK(n, q, r, a), q # <<>>,
           NEW ty \in {"OFFER", "ACK", "NAK"}, NEW x \in Addr,
           ty = "ACK" => Head(q).type = "REQUEST" /\ Head(q).requested = x
    PROVE  StationOK(n, Tail(q),
                     S!Sent(r, <<[type |-> ty, current |-> Head(q).current, yiaddr |-> x,
                                  lease |-> LEASE]>>),
                     IF ty = "ACK" THEN x ELSE a)
<1> DEFINE e == [type |-> ty, current |-> Head(q).current, yiaddr |-> x, lease |-> LEASE]
           t == <<e>>
           w == S!Sent(r, t)
           b == IF ty = "ACK" THEN x ELSE a
           v == Tail(q)
<1>1. /\ Rests(n) /\ Goes(n) /\ a \in Addr /\ q \in Seq(Msgs) /\ r \in Seq(Answers)
      /\ NewLast(q) /\ AsksFor(q, n) /\ Answered(r, q, n, a)
      /\ InUse(n) => a = n.offered /\ AllCurrent(q)
  BY DEF StationOK
<1>2. /\ Head(q) = q[1] /\ q[1] \in Msgs /\ 1 \in 1..Len(q) /\ Len(q) \in Nat
      /\ v \in Seq(Msgs) /\ Len(v) = Len(q) - 1
      /\ \A i \in 1..Len(v) : i + 1 \in 1..Len(q) /\ v[i] = q[i + 1]
  BY <1>1
<1>3. q[1].current \in BOOLEAN
  BY <1>2 DEF Msgs
<1>4. e \in Answers /\ e.type = ty /\ e.current = q[1].current /\ e.yiaddr = x
  BY <1>2, <1>3 DEF Answers
<1> HIDE DEF e, v
<1>5. t \in Seq(Answers) /\ Len(t) = 1 /\ t[1] = e
  BY <1>4
<1> HIDE DEF t
<1>6. /\ w \in Seq(Answers) /\ Len(w) <= CHANNEL
      /\ \A i \in 1..Len(w) : \/ i \in 1..Len(r) /\ w[i] = r[i]
                              \/ i - Len(r) \in 1..Len(t) /\ w[i] = t[i - Len(r)]
  BY <1>1, <1>5, SentIs
<1> HIDE DEF w
<1>7. \A i \in 1..Len(w) : w[i] = e \/ \E j \in 1..Len(r) : w[i] = r[j]
  <2> SUFFICES ASSUME NEW i \in 1..Len(w), i - Len(r) \in 1..Len(t), w[i] = t[i - Len(r)]
               PROVE  w[i] = e
    BY <1>6
  <2>1. i - Len(r) = 1
    BY <1>5
  <2>. QED BY <1>5, <2>1
<1>8. StationOK(n, v, r, a)
  BY RequestTaken DEF v
<1>9. NewLast(v) /\ AsksFor(v, n) /\ Len(v) <= CHANNEL
  BY <1>8 DEF StationOK
<1>10. q[1].current => AllCurrent(q)
  <2> SUFFICES ASSUME q[1].current, NEW i \in 1..Len(q) PROVE q[i].current
    BY DEF AllCurrent
  <2>1. i = 1 \/ 1 < i
    BY <1>2
  <2>. QED BY <1>1, <1>2, <2>1 DEF NewLast
<1>11. AllCurrent(q) => AllCurrent(v) /\ q[1].current
  BY <1>2 DEF AllCurrent
<1>12. ty = "ACK" /\ q[1].current => x = n.offered /\ n.state # "SELECTING"
  BY <1>1, <1>2 DEF AsksFor
<1>13. ASSUME NEW i \in 1..Len(w), w[i].current
       PROVE  /\ AllCurrent(v)
              /\ w[i].type = "ACK" =>
                   w[i].yiaddr = n.offered /\ b = n.offered /\ n.state # "SELECTING"
  <2>1. CASE w[i] = e
    <3>1. q[1].current
      BY <1>4, <1>13, <2>1
    <3>2. e.type = "ACK" => b = x /\ x = n.offered /\ n.state # "SELECTING"
      BY <1>4, <1>12, <3>1
    <3>3. AllCurrent(v)
      BY <1>10, <1>11, <3>1
    <3>. QED BY <1>4, <2>1, <3>2, <3>3
  <2>2. ASSUME NEW j \in 1..Len(r), w[i] = r[j]
        PROVE  /\ AllCurrent(v)
               /\ w[i].type = "ACK" =>
                    w[i].yiaddr = n.offered /\ b = n.offered /\ n.state # "SELECTING"
    <3>1. /\ AllCurrent(q)
          /\ r[j].type = "ACK" => r[j].yiaddr = n.offered /\ a = n.offered /\ n.state # "SELECTING"
      BY <1>1, <1>13, <2>2 DEF Answered
    <3>2. AllCurrent(v) /\ q[1].current
      BY <1>11, <3>1
    <3>3. r[j].type = "ACK" => b = n.offered
      BY <1>12, <3>1, <3>2
    <3>. QED BY <2>2, <3>1, <3>2, <3>3
  <2>. QED BY <1>7, <2>1, <2>2
<1>14. Answered(w, v, n, b)
  BY <1>13 DEF Answered
<1>15. InUse(n) => b = n.offered /\ AllCurrent(v)
  <2> SUFFICES ASSUME InUse(n) PROVE b = n.offered /\ AllCurrent(v)
    OBVIOUS
  <2>1. a = n.offered /\ AllCurrent(v) /\ q[1].current
    BY <1>1, <1>11
  <2>. QED BY <1>12, <2>1
<1>16. b \in Addr
  BY <1>1
<1> HIDE DEF b
<1>17. StationOK(n, v, w, b)
  BY <1>1, <1>2, <1>6, <1>9, <1>14, <1>15, <1>16 DEF StationOK
<1>. QED BY <1>17 DEF e, t, w, b, v

\* A lease that is gone makes its station one whose lease ended.
LEMMA LostIs ==
    ASSUME NEW q, NEW w, NEW d, NEW x, <<d, x>> \in S!Leases(q), d \notin S!Lost(q, w)
    PROVE  <<d, x>> \in S!Leases(w)
<1>1. CASE <<d, x>> \notin S!Leases(w)
  <2>1. <<d, x>> \in S!Leases(q) \ S!Leases(w)
    BY <1>1
  <2>2. <<d, x>>[1] = d
    OBVIOUS
  <2>3. d \in S!Lost(q, w)
    BY <2>1, <2>2 DEF S!Lost
  <2>. QED BY <2>3
<1>. QED BY <1>1

-----------------------------------------------------------------------------
(* DHCP: the invariant.                                                     *)

DhcpTyped ==
    /\ dhcp \in [Stations -> Clients] /\ acked \in [Stations -> Addr]
    /\ asking \in [Stations -> Seq(Msgs)] /\ answers \in [Stations -> Seq(Answers)]
StationsOK == \A c \in Stations : StationOK(dhcp[c], asking[c], answers[c], acked[c])
\* What was acknowledged is in the list, or the station counts as one whose
\* lease ended.
LeasesKept == \A c \in Stations : acked[c] # 0 /\ c \notin lapsed => <<c, acked[c]>> \in S!Leases(plist)
DhcpInv == DhcpTyped /\ StationsOK /\ ListOK(plist) /\ LeasesKept

\* One station changes.
LEMMA OneStation ==
    ASSUME DhcpTyped, StationsOK, NEW c \in Stations, NEW n, NEW q, NEW r, NEW a,
           StationOK(n, q, r, a),
           dhcp' = [dhcp EXCEPT ![c] = n], asking' = [asking EXCEPT ![c] = q],
           answers' = [answers EXCEPT ![c] = r], acked' = [acked EXCEPT ![c] = a]
    PROVE  /\ DhcpTyped' /\ StationsOK' /\ acked'[c] = a
           /\ \A d \in Stations : d # c => acked'[d] = acked[d]
<1>1. n \in Clients /\ q \in Seq(Msgs) /\ r \in Seq(Answers) /\ a \in Addr
  BY DEF StationOK, Rests
<1>2. DhcpTyped'
  BY <1>1 DEF DhcpTyped
<1>3. dhcp'[c] = n /\ asking'[c] = q /\ answers'[c] = r /\ acked'[c] = a
  BY DEF DhcpTyped
<1>4. \A d \in Stations : d # c =>
        dhcp'[d] = dhcp[d] /\ asking'[d] = asking[d] /\ answers'[d] = answers[d] /\ acked'[d] = acked[d]
  BY DEF DhcpTyped
<1>5. ASSUME NEW d \in Stations PROVE StationOK(dhcp'[d], asking'[d], answers'[d], acked'[d])
  <2>1. CASE d = c
    BY <1>3, <2>1
  <2>2. CASE d # c
    BY <1>4, <2>2 DEF StationsOK
  <2>. QED BY <2>1, <2>2
<1>6. StationsOK'
  BY <1>5 DEF StationsOK
<1>. QED BY <1>2, <1>3, <1>4, <1>6

LEMMA AsItIs ==
    ASSUME DhcpTyped, NEW c \in Stations
    PROVE  /\ dhcp = [dhcp EXCEPT ![c] = dhcp[c]] /\ asking = [asking EXCEPT ![c] = asking[c]]
           /\ answers = [answers EXCEPT ![c] = answers[c]] /\ acked = [acked EXCEPT ![c] = acked[c]]
  BY DEF DhcpTyped

\* A step of a client.
LEMMA ClientKeeps ==
    ASSUME DhcpInv, NEW c \in Stations, NEW rest \in Seq(Answers), Len(rest) <= Len(answers[c]),
           \A i \in 1..Len(rest) : \E j \in 1..Len(answers[c]) : rest[i] = answers[c][j],
           NEW p, NEW g, Leads(dhcp[c], p, g),
           g => acked[c] = dhcp[c].offered /\ AllCurrent(asking[c]) /\ dhcp[c].state # "SELECTING",
           S!Client(c, p, rest), plist' = plist
    PROVE  DhcpInv'
<1> DEFINE n == [p EXCEPT !.out = <<>>, !.drawn = FALSE]
           q == S!Sent(IF p.drawn THEN S!Outdated(asking[c]) ELSE asking[c], p.out)
           r == IF p.drawn THEN S!Outdated(rest) ELSE rest
           a == IF p.state = "SELECTING" THEN 0 ELSE acked[c]
<1>0. DhcpTyped /\ StationsOK /\ ListOK(plist) /\ LeasesKept
  BY DEF DhcpInv
<1>1. StationOK(dhcp[c], asking[c], answers[c], acked[c])
  BY <1>0 DEF StationsOK
<1>2. StationOK(n, q, r, a)
  BY <1>1, ClientStep
<1>3. /\ dhcp' = [dhcp EXCEPT ![c] = n] /\ asking' = [asking EXCEPT ![c] = q]
      /\ answers' = [answers EXCEPT ![c] = r]
      /\ acked' = IF p.state = "SELECTING" THEN [acked EXCEPT ![c] = 0] ELSE acked
      /\ lapsed' = IF p.state = "SELECTING" THEN lapsed \ {c} ELSE lapsed
  BY DEF S!Client, S!ANY
<1> HIDE DEF n, q, r
<1>4. acked' = [acked EXCEPT ![c] = a]
  BY <1>0, <1>3, AsItIs
<1>5. DhcpTyped' /\ StationsOK' /\ acked'[c] = a /\ \A d \in Stations : d # c => acked'[d] = acked[d]
  <2> HIDE DEF a
  <2>. QED BY <1>0, <1>2, <1>3, <1>4, OneStation
<1>6. ASSUME NEW d \in Stations, acked'[d] # 0, d \notin lapsed'
      PROVE  <<d, acked'[d]>> \in S!Leases(plist')
  <2>1. acked'[d] = acked[d]
    BY <1>5, <1>6
  <2>2. d \notin lapsed
    BY <1>3, <1>5, <1>6
  <2>. QED BY <1>0, <1>6, <2>1, <2>2 DEF LeasesKept
<1>7. LeasesKept'
  BY <1>6 DEF LeasesKept
<1>. QED BY <1>0, <1>5, <1>7 DEF DhcpInv

\* One that takes no answer.
LEMMA OwnStepKeeps ==
    ASSUME DhcpInv, NEW c \in Stations, NEW p, Leads(dhcp[c], p, FALSE),
           S!Client(c, p, answers[c]), plist' = plist
    PROVE  DhcpInv'
<1>1. StationOK(dhcp[c], asking[c], answers[c], acked[c])
  BY DEF DhcpInv, StationsOK
<1>2. answers[c] \in Seq(Answers) /\ Len(answers[c]) \in Nat
  BY <1>1 DEF StationOK
<1>3. \A i \in 1..Len(answers[c]) : \E j \in 1..Len(answers[c]) : answers[c][i] = answers[c][j]
  OBVIOUS
<1>4. Len(answers[c]) <= Len(answers[c])
  BY <1>2
<1>. QED BY <1>2, <1>3, <1>4, ClientKeeps

LEMMA CarriesOn == ASSUME DhcpInv, NEW c \in Stations PROVE Rests(dhcp[c]) /\ Goes(dhcp[c])
  BY DEF DhcpInv, StationsOK, StationOK

LEMMA ClearedIs == S!dhcp_cleared \in Clients /\ Rests(S!dhcp_cleared) /\ Goes(S!dhcp_cleared)
                   /\ ~S!dhcp_cleared.up /\ S!dhcp_cleared.state = "OFF"
<1>1. /\ 0 \in 0..S!Most /\ 0 \in 0..LEASE /\ 0 \in Addr /\ <<>> \in Seq(Msgs) /\ "OFF" \in States
      /\ FALSE \in BOOLEAN
  BY MostTries DEF Addr, States
<1>2. S!dhcp_cleared \in Clients
  BY <1>1 DEF S!dhcp_cleared, Clients, S!ANY
<1>3. /\ S!dhcp_cleared.state = "OFF" /\ ~S!dhcp_cleared.up /\ S!dhcp_cleared.out = <<>>
      /\ ~S!dhcp_cleared.drawn
  BY DEF S!dhcp_cleared
<1>. QED BY <1>2, <1>3 DEF Rests, Quiet, Goes

LEMMA StationStarts == ASSUME DhcpInv, NEW c \in Stations, S!Start(c) PROVE DhcpInv'
<1> DEFINE p == S!dhcp_discover(S!dhcp_cleared)
<1>1. Leads(dhcp[c], p, FALSE)
  BY ClearedIs, Discovered
<1>2. S!Client(c, p, answers[c]) /\ plist' = plist
  BY DEF S!Start
<1> HIDE DEF p
<1>. QED BY <1>1, <1>2, OwnStepKeeps

LEMMA FineKeeps == ASSUME DhcpInv, NEW c \in Stations, S!Fine(c) PROVE DhcpInv'
<1> DEFINE p == S!dhcp_fine_tmr(dhcp[c])
<1>1. Leads(dhcp[c], p, FALSE)
  BY CarriesOn, FineLeads
<1>2. S!Client(c, p, answers[c]) /\ plist' = plist
  BY DEF S!Fine
<1> HIDE DEF p
<1>. QED BY <1>1, <1>2, OwnStepKeeps

LEMMA CoarseKeeps == ASSUME DhcpInv, NEW c \in Stations, S!Coarse(c) PROVE DhcpInv'
<1> DEFINE p == S!dhcp_coarse_tmr(dhcp[c])
<1>1. Leads(dhcp[c], p, FALSE)
  BY CarriesOn, CoarseLeads
<1>2. S!Client(c, p, answers[c]) /\ plist' = plist
  BY DEF S!Coarse
<1> HIDE DEF p
<1>. QED BY <1>1, <1>2, OwnStepKeeps

LEMMA RelinkKeeps == ASSUME DhcpInv, NEW c \in Stations, S!Relink(c) PROVE DhcpInv'
<1> DEFINE p == S!dhcp_network_changed(dhcp[c])
<1>1. Leads(dhcp[c], p, FALSE)
  BY CarriesOn, RelinkLeads DEF S!Relink
<1>2. S!Client(c, p, answers[c]) /\ plist' = plist
  BY DEF S!Relink
<1> HIDE DEF p
<1>. QED BY <1>1, <1>2, OwnStepKeeps

LEMMA ArpReplyKeeps == ASSUME DhcpInv, NEW c \in Stations, S!ArpReply(c) PROVE DhcpInv'
<1> DEFINE p == S!dhcp_arp_reply(dhcp[c], dhcp[c].offered)
<1>1. Leads(dhcp[c], p, FALSE)
  BY CarriesOn, ArpReplyLeads
<1>2. S!Client(c, p, answers[c]) /\ plist' = plist
  BY DEF S!ArpReply
<1> HIDE DEF p
<1>. QED BY <1>1, <1>2, OwnStepKeeps

LEMMA RecvKeeps == ASSUME DhcpInv, NEW c \in Stations, S!Recv(c) PROVE DhcpInv'
<1> DEFINE m == Head(answers[c])
           p == S!dhcp_recv(dhcp[c], m)
           g == m.current /\ m.type = "ACK"
<1>0. StationOK(dhcp[c], asking[c], answers[c], acked[c])
  BY DEF DhcpInv, StationsOK
<1>1. answers[c] # <<>> /\ S!Client(c, p, Tail(answers[c])) /\ plist' = plist
  BY DEF S!Recv
<1>2. /\ Tail(answers[c]) \in Seq(Answers) /\ Len(Tail(answers[c])) <= Len(answers[c])
      /\ \A i \in 1..Len(Tail(answers[c])) :
           \E j \in 1..Len(answers[c]) : Tail(answers[c])[i] = answers[c][j]
      /\ m \in Answers
      /\ g => /\ m.yiaddr = dhcp[c].offered /\ acked[c] = dhcp[c].offered /\ AllCurrent(asking[c])
              /\ dhcp[c].state # "SELECTING"
  <2> DEFINE n == dhcp[c]
             q == asking[c]
             r == answers[c]
             a == acked[c]
  <2>1. StationOK(n, q, r, a) /\ r # <<>>
    BY <1>0, <1>1
  <2> HIDE DEF n, q, r, a, p
  <2>2. Tail(r) \in Seq(Answers) /\ Len(Tail(r)) <= Len(r) /\ Head(r) \in Answers
    BY <2>1, AnswerTaken
  <2>4. \A i \in 1..Len(Tail(r)) : \E j \in 1..Len(r) : Tail(r)[i] = r[j]
    <3>1. r \in Seq(Answers)
      BY <2>1 DEF StationOK
    <3>2. \A i \in 1..Len(Tail(r)) : i + 1 \in 1..Len(r) /\ Tail(r)[i] = r[i + 1]
      BY <2>1, <3>1
    <3>. QED BY <3>2
  <2>3. Head(r).current /\ Head(r).type = "ACK" =>
           /\ Head(r).yiaddr = n.offered /\ a = n.offered /\ AllCurrent(q)
           /\ n.state # "SELECTING"
    BY <2>1, AnswerTaken
  <2>. QED BY <2>2, <2>3, <2>4 DEF n, q, r, a
<1>3. Leads(dhcp[c], p, g)
  <2>1. Rests(dhcp[c]) /\ Goes(dhcp[c])
    BY CarriesOn
  <2>2. m \in Answers /\ (m.current /\ m.type = "ACK" => m.yiaddr = dhcp[c].offered)
    BY <1>2
  <2> HIDE DEF m
  <2>. QED BY <2>1, <2>2, RecvLeads
<1> HIDE DEF p, g, m
<1>. QED BY <1>1, <1>2, <1>3, ClientKeeps

LEMMA ServeKeeps == ASSUME DhcpInv, NEW c \in Stations, S!handle_dhcp(c) PROVE DhcpInv'
<1> DEFINE m == Head(asking[c])
           u == S!client_update(c, m.ciaddr)
           ty == S!Answer(m, u)
           e == [type |-> ty, current |-> m.current, yiaddr |-> u.addr, lease |-> LEASE]
           v == Tail(asking[c])
           r == IF ty \in {"OFFER", "ACK", "NAK"} THEN S!Sent(answers[c], <<e>>) ELSE answers[c]
           a == IF ty = "ACK" THEN u.addr ELSE acked[c]
<1>0. DhcpTyped /\ StationsOK /\ ListOK(plist) /\ LeasesKept
  BY DEF DhcpInv
<1>1. StationOK(dhcp[c], asking[c], answers[c], acked[c])
  BY <1>0 DEF StationsOK
<1>2. /\ asking[c] # <<>> /\ dhcp' = dhcp
      /\ asking' = [asking EXCEPT ![c] = v]
      /\ plist' = IF ty = "RELEASE" THEN S!client_leave(u.list, c, m.ciaddr, TRUE) ELSE u.list
      /\ answers' = IF ty \in {"OFFER", "ACK", "NAK"}
                    THEN [answers EXCEPT ![c] = S!Sent(answers[c], <<e>>)] ELSE answers
      /\ acked' = IF ty = "ACK" THEN [acked EXCEPT ![c] = u.addr] ELSE acked
      /\ lapsed' = (lapsed \cup S!Lost(plist, plist')) \ (IF ty = "ACK" THEN {c} ELSE {})
  BY DEF S!handle_dhcp
<1>3. m \in Msgs /\ m.ciaddr \in Addr
  <2>1. asking[c] \in Seq(Msgs)
    BY <1>1 DEF StationOK
  <2>2. m \in Msgs
    BY <1>2, <2>1
  <2> HIDE DEF m
  <2>. QED BY <2>2 DEF Msgs
<1>4. UpdateOK(u, c)
  <2> HIDE DEF m
  <2>. QED BY <1>0, <1>3, UpdateIs
<1>5. ty = "ACK" => m.type = "REQUEST" /\ m.requested = u.addr
  <2> HIDE DEF m, u
  <2>1. m.type \in {"DISCOVER", "REQUEST", "DECLINE", "RELEASE"}
    BY <1>3 DEF Msgs
  <2>. QED BY <2>1 DEF S!Answer
<1> HIDE DEF u, ty
<1>6. ListOK(u.list) /\ u.addr \in Addr /\ (u.addr # 0 => <<c, u.addr>> \in S!Leases(u.list))
  BY <1>4 DEF UpdateOK
<1>7. StationOK(dhcp[c], v, r, a)
  <2>1. CASE ty \in {"OFFER", "ACK", "NAK"}
    <3>1. StationOK(dhcp[c], v, S!Sent(answers[c], <<e>>), a)
      <4>1. ty = "ACK" => Head(asking[c]).type = "REQUEST" /\ Head(asking[c]).requested = u.addr
        BY <1>5
      <4> DEFINE x == u.addr
      <4> HIDE DEF x
      <4>2. x \in Addr /\ (ty = "ACK" => Head(asking[c]).type = "REQUEST" /\ Head(asking[c]).requested = x)
        BY <1>6, <4>1 DEF x
      <4>3. StationOK(dhcp[c], Tail(asking[c]),
                      S!Sent(answers[c], <<[type |-> ty, current |-> Head(asking[c]).current,
                                            yiaddr |-> x, lease |-> LEASE]>>),
                      IF ty = "ACK" THEN x ELSE acked[c])
        BY <1>1, <1>2, <2>1, <4>2, ServedStep
      <4>. QED BY <4>3 DEF x
    <3> HIDE DEF e, a, v
    <3>. QED BY <2>1, <3>1
  <2>2. CASE ty \notin {"OFFER", "ACK", "NAK"}
    <3>1. ty # "ACK"
      BY <2>2
    <3>2. StationOK(dhcp[c], v, answers[c], acked[c])
      BY <1>1, <1>2, RequestTaken
    <3> HIDE DEF e, v
    <3>. QED BY <2>2, <3>1, <3>2
  <2>. QED BY <2>1, <2>2
<1> HIDE DEF m, e, v
<1>8. /\ dhcp' = [dhcp EXCEPT ![c] = dhcp[c]] /\ answers' = [answers EXCEPT ![c] = r]
      /\ acked' = [acked EXCEPT ![c] = a]
  <2>1. /\ dhcp = [dhcp EXCEPT ![c] = dhcp[c]] /\ answers = [answers EXCEPT ![c] = answers[c]]
        /\ acked = [acked EXCEPT ![c] = acked[c]]
    BY <1>0, AsItIs
  <2>. QED BY <1>2, <2>1
<1> HIDE DEF r
<1>9. DhcpTyped' /\ StationsOK' /\ acked'[c] = a /\ \A d \in Stations : d # c => acked'[d] = acked[d]
  <2> DEFINE n == dhcp[c]
  <2>1. /\ StationOK(n, v, r, a) /\ dhcp' = [dhcp EXCEPT ![c] = n] /\ asking' = [asking EXCEPT ![c] = v]
        /\ answers' = [answers EXCEPT ![c] = r] /\ acked' = [acked EXCEPT ![c] = a]
    BY <1>2, <1>7, <1>8
  <2> HIDE DEF a, n
  <2>. QED BY <1>0, <2>1, OneStation
<1>10. ListOK(plist')
  <2>1. ListOK(S!client_leave(u.list, c, m.ciaddr, TRUE))
    BY <1>6, LeaveIs
  <2>. QED BY <1>2, <1>6, <2>1
<1>11. ASSUME NEW d \in Stations, acked'[d] # 0, d \notin lapsed'
       PROVE  <<d, acked'[d]>> \in S!Leases(plist')
  <2>1. CASE d = c /\ ty = "ACK"
    <3>1. acked'[d] = u.addr /\ plist' = u.list
      BY <1>2, <1>9, <2>1
    <3>. QED BY <1>6, <1>11, <2>1, <3>1
  <2>2. CASE ~(d = c /\ ty = "ACK")
    <3>1. acked'[d] = acked[d]
      BY <1>9, <2>2
    <3>2. d \notin lapsed /\ d \notin S!Lost(plist, plist')
      BY <1>2, <1>11, <2>2
    <3>3. <<d, acked[d]>> \in S!Leases(plist)
      BY <1>0, <1>11, <3>1, <3>2 DEF LeasesKept
    <3>. QED BY <3>1, <3>2, <3>3, LostIs
  <2>. QED BY <2>1, <2>2
<1>12. LeasesKept'
  BY <1>11 DEF LeasesKept
<1>. QED BY <1>9, <1>10, <1>12 DEF DhcpInv

\* The list changes and no station does.
LEMMA ListKeeps ==
    ASSUME DhcpInv, ListOK(plist'), lapsed' = lapsed \cup S!Lost(plist, plist'),
           UNCHANGED <<dhcp, asking, answers, acked>>
    PROVE  DhcpInv'
<1>0. DhcpTyped /\ StationsOK /\ LeasesKept
  BY DEF DhcpInv
<1>1. DhcpTyped' /\ StationsOK'
  BY <1>0 DEF DhcpTyped, StationsOK
<1>2. ASSUME NEW d \in Stations, acked'[d] # 0, d \notin lapsed'
      PROVE  <<d, acked'[d]>> \in S!Leases(plist')
  <2>1. acked'[d] = acked[d] /\ d \notin lapsed /\ d \notin S!Lost(plist, plist')
    BY <1>2
  <2>2. <<d, acked[d]>> \in S!Leases(plist)
    BY <1>0, <1>2, <2>1 DEF LeasesKept
  <2>. QED BY <2>1, <2>2, LostIs
<1>3. LeasesKept'
  BY <1>2 DEF LeasesKept
<1>. QED BY <1>1, <1>3 DEF DhcpInv

LEMMA MinuteKeeps == ASSUME DhcpInv, S!dhcps_coarse_tmr PROVE DhcpInv'
<1> DEFINE w == S!Aged(plist)
<1>1. ListOK(w)
  BY LeasesAged DEF DhcpInv
<1>2. /\ plist' = IF Len(w) >= MAX_STATION_NUM THEN S!kill_oldest_dhcps_pool(w) ELSE w
      /\ lapsed' = lapsed \cup S!Lost(plist, plist') /\ UNCHANGED <<dhcp, asking, answers, acked>>
  BY DEF S!dhcps_coarse_tmr
<1> HIDE DEF w
<1>3. Len(w) \in Nat
  BY <1>1, RowsOf DEF ListOK
<1>4. ListOK(plist')
  <2>1. CASE Len(w) >= MAX_STATION_NUM
    <3>1. Len(w) >= 2
      BY <1>3, <2>1
    <3>. QED BY <1>1, <1>2, <2>1, <3>1, PoolMadeSmaller
  <2>2. CASE ~(Len(w) >= MAX_STATION_NUM)
    BY <1>1, <1>2, <2>2
  <2>. QED BY <2>1, <2>2
<1>. QED BY <1>2, <1>4, ListKeeps

LEMMA NoneListed == ListOK(<<>>)
<1>1. <<>> \in Seq(Rows) /\ Len(<<>>) = 0
  OBVIOUS
<1>. QED BY <1>1 DEF ListOK, Sorted

LEMMA RestartKeeps == ASSUME DhcpInv, S!Restart PROVE DhcpInv'
<1>1. /\ plist' = <<>> /\ lapsed' = lapsed \cup S!Lost(plist, plist')
      /\ UNCHANGED <<dhcp, asking, answers, acked>>
  BY DEF S!Restart
<1>2. ListOK(plist')
  BY <1>1, NoneListed
<1>. QED BY <1>1, <1>2, ListKeeps

\* A client before it starts.
LEMMA NoneUnderWay == StationOK(S!dhcp_cleared, <<>>, <<>>, 0)
<1>1. /\ <<>> \in Seq(Msgs) /\ <<>> \in Seq(Answers) /\ Len(<<>>) = 0 /\ 0 \in Addr
      /\ NewLast(<<>>) /\ AsksFor(<<>>, S!dhcp_cleared) /\ AllCurrent(<<>>)
      /\ Answered(<<>>, <<>>, S!dhcp_cleared, 0)
  BY DEF Addr, NewLast, AsksFor, AllCurrent, Answered
<1>2. ~InUse(S!dhcp_cleared)
  BY ClearedIs DEF InUse
<1>3. 0 <= CHANNEL
  OBVIOUS
<1>. QED BY <1>1, <1>2, <1>3, ClearedIs DEF StationOK

LEMMA StationLeaves == ASSUME DhcpInv, NEW c \in Stations, S!Leave(c) PROVE DhcpInv'
<1> DEFINE i == S!OfMac(plist, c)
           left == S!client_leave(plist, c, plist[i].ip, FALSE)
<1>0. DhcpTyped /\ StationsOK /\ ListOK(plist) /\ LeasesKept
  BY DEF DhcpInv
<1>1. /\ dhcp' = [dhcp EXCEPT ![c] = S!dhcp_cleared] /\ asking' = [asking EXCEPT ![c] = <<>>]
      /\ answers' = [answers EXCEPT ![c] = <<>>] /\ acked' = [acked EXCEPT ![c] = 0]
      /\ lapsed' = lapsed \ {c} /\ plist' = IF pnext # 0 \/ i > Len(plist) THEN plist ELSE left
  BY DEF S!Leave, S!ANY
<1>2. StationOK(S!dhcp_cleared, <<>>, <<>>, 0)
  BY NoneUnderWay
<1>3. DhcpTyped' /\ StationsOK' /\ acked'[c] = 0 /\ \A d \in Stations : d # c => acked'[d] = acked[d]
  <2> DEFINE n == S!dhcp_cleared
  <2> HIDE DEF n
  <2>. QED BY <1>0, <1>1, <1>2, OneStation DEF n
<1>4. /\ ListOK(left)
      /\ \A d, x : d # c /\ <<d, x>> \in S!Leases(plist) => <<d, x>> \in S!Leases(left)
  BY <1>0, LeaveIs
<1> HIDE DEF i, left
<1>5. ListOK(plist')
  BY <1>0, <1>1, <1>4
<1>6. ASSUME NEW d \in Stations, acked'[d] # 0, d \notin lapsed'
      PROVE  <<d, acked'[d]>> \in S!Leases(plist')
  <2>1. d # c /\ acked'[d] = acked[d] /\ d \notin lapsed
    BY <1>1, <1>3, <1>6
  <2>2. <<d, acked[d]>> \in S!Leases(plist)
    BY <1>0, <1>6, <2>1 DEF LeasesKept
  <2>. QED BY <1>1, <1>4, <2>1, <2>2
<1>7. LeasesKept'
  BY <1>6 DEF LeasesKept
<1>. QED BY <1>3, <1>5, <1>7 DEF DhcpInv

LEMMA LoseKeeps == ASSUME DhcpInv, NEW c \in Stations, S!Lose(c) PROVE DhcpInv'
<1>0. DhcpTyped /\ StationsOK /\ ListOK(plist) /\ LeasesKept
  BY DEF DhcpInv
<1>1. StationOK(dhcp[c], asking[c], answers[c], acked[c])
  BY <1>0 DEF StationsOK
<1>2. UNCHANGED <<dhcp, plist, acked, lapsed>>
  BY DEF S!Lose
<1>3. /\ dhcp = [dhcp EXCEPT ![c] = dhcp[c]] /\ asking = [asking EXCEPT ![c] = asking[c]]
      /\ answers = [answers EXCEPT ![c] = answers[c]] /\ acked = [acked EXCEPT ![c] = acked[c]]
  BY <1>0, AsItIs
<1>4. DhcpTyped' /\ StationsOK'
  <2>1. CASE asking[c] # <<>> /\ asking' = [asking EXCEPT ![c] = Tail(@)] /\ UNCHANGED answers
    <3>1. StationOK(dhcp[c], Tail(asking[c]), answers[c], acked[c])
      BY <1>1, <2>1, RequestTaken
    <3>2. /\ dhcp' = [dhcp EXCEPT ![c] = dhcp[c]] /\ asking' = [asking EXCEPT ![c] = Tail(asking[c])]
          /\ answers' = [answers EXCEPT ![c] = answers[c]] /\ acked' = [acked EXCEPT ![c] = acked[c]]
      BY <1>2, <1>3, <2>1
    <3>. QED BY <1>0, <3>1, <3>2, OneStation
  <2>2. CASE answers[c] # <<>> /\ answers' = [answers EXCEPT ![c] = Tail(@)] /\ UNCHANGED asking
    <3>1. StationOK(dhcp[c], asking[c], Tail(answers[c]), acked[c])
      BY <1>1, <2>2, AnswerTaken
    <3>2. /\ dhcp' = [dhcp EXCEPT ![c] = dhcp[c]] /\ asking' = [asking EXCEPT ![c] = asking[c]]
          /\ answers' = [answers EXCEPT ![c] = Tail(answers[c])]
          /\ acked' = [acked EXCEPT ![c] = acked[c]]
      BY <1>2, <1>3, <2>2
    <3>. QED BY <1>0, <3>1, <3>2, OneStation
  <2>. QED BY <2>1, <2>2 DEF S!Lose
<1>5. ListOK(plist)' /\ LeasesKept'
  BY <1>0, <1>2 DEF LeasesKept
<1>. QED BY <1>4, <1>5 DEF DhcpInv

LEMMA DhcpInductive == DhcpInv /\ [S!Next]_dhcpVars => DhcpInv'
<1> SUFFICES ASSUME DhcpInv, [S!Next]_dhcpVars PROVE DhcpInv'
  OBVIOUS
<1>1. CASE UNCHANGED dhcpVars
  BY <1>1 DEF dhcpVars, DhcpInv, DhcpTyped, StationsOK, LeasesKept
<1>2. CASE S!dhcps_coarse_tmr \/ S!Restart
  BY <1>2, MinuteKeeps, RestartKeeps
<1>3. ASSUME NEW c \in Stations,
             \/ S!Start(c) \/ S!Fine(c) \/ S!Coarse(c) \/ S!Recv(c) \/ S!ArpReply(c) \/ S!Relink(c)
             \/ S!handle_dhcp(c) \/ S!Leave(c) \/ S!Lose(c)
      PROVE  DhcpInv'
  BY <1>3, StationStarts, FineKeeps, CoarseKeeps, RecvKeeps, ArpReplyKeeps, RelinkKeeps, ServeKeeps,
     StationLeaves, LoseKeeps
<1>. QED BY <1>1, <1>2, <1>3 DEF S!Next

LEMMA DhcpInitially == S!Init => DhcpInv
<1> SUFFICES ASSUME S!Init PROVE DhcpInv
  OBVIOUS
<1>1. /\ dhcp = [c \in Stations |-> S!dhcp_cleared] /\ plist = <<>>
      /\ asking = [c \in Stations |-> <<>>] /\ answers = [c \in Stations |-> <<>>]
      /\ acked = [c \in Stations |-> 0]
  BY DEF S!Init, S!ANY
<1>2. DhcpTyped
  <2>1. S!dhcp_cleared \in Clients /\ 0 \in Addr /\ <<>> \in Seq(Msgs) /\ <<>> \in Seq(Answers)
    BY ClearedIs DEF Addr
  <2>. QED BY <1>1, <2>1 DEF DhcpTyped
<1>3. StationsOK
  BY <1>1, NoneUnderWay DEF StationsOK
<1>. QED BY <1>1, <1>2, <1>3, NoneListed DEF DhcpInv, LeasesKept

\* What the invariant says of the stations and the list.
LEMMA StationsAreSound == DhcpInv => S!TypeOK /\ S!LeasesSound
<1> SUFFICES ASSUME DhcpInv PROVE S!TypeOK /\ S!LeasesSound
  OBVIOUS
<1>0. /\ ListOK(plist) /\ LeasesKept
      /\ \A c \in Stations : StationOK(dhcp[c], asking[c], answers[c], acked[c])
  BY DEF DhcpInv, StationsOK
<1>1. S!TypeOK
  <2> SUFFICES ASSUME NEW c \in Stations
               PROVE  /\ dhcp[c].tries \in 0..S!Most /\ dhcp[c].t2 \in 0..LEASE /\ dhcp[c].t1 <= LEASE
                      /\ Len(asking[c]) <= CHANNEL /\ Len(answers[c]) <= CHANNEL
    BY DEF S!TypeOK
  <2>1. dhcp[c] \in Clients /\ Len(asking[c]) <= CHANNEL /\ Len(answers[c]) <= CHANNEL
    BY <1>0 DEF StationOK, Rests
  <2>. QED BY <2>1 DEF Clients
<1>2. S!ListSound
  <2>1. DOMAIN plist = 1..Len(plist)
    BY <1>0, RowsOf DEF ListOK
  <2>. QED BY <1>0, <2>1 DEF S!ListSound, ListOK, Sorted
<1>3. S!ClientsGoOn
  <2> SUFFICES ASSUME NEW c \in Stations
               PROVE  LET n == dhcp[c] IN
                      /\ n.state \notin {"OFF", "BOUND"} => n.armed
                      /\ n.state = "BOUND" => n.up /\ n.t2 > 0
                      /\ n.up => n.state \in {"BOUND", "RENEWING", "REBINDING"} /\ n.ip = acked[c]
    BY DEF S!ClientsGoOn
  <2>. QED BY <1>0 DEF StationOK, Goes, InUse
<1>4. S!OwnAddress
  <2> SUFFICES ASSUME NEW c \in Stations, NEW d \in Stations, c # d, dhcp[c].up, dhcp[d].up,
                      dhcp[c].ip = dhcp[d].ip, dhcp[c].ip # 0, c \notin lapsed, d \notin lapsed
               PROVE  FALSE
    BY DEF S!OwnAddress, S!ANY
  <2> DEFINE x == dhcp[c].ip
  <2>1. acked[c] = x /\ acked[d] = x
    BY <1>3 DEF S!ClientsGoOn
  <2>2. x # 0
    OBVIOUS
  <2> HIDE DEF x
  <2>3. <<c, x>> \in S!Leases(plist) /\ <<d, x>> \in S!Leases(plist)
    BY <1>0, <2>1, <2>2 DEF LeasesKept
  <2>4. DOMAIN plist = 1..Len(plist) /\ plist \in Seq(Rows) /\ Len(plist) \in Nat
    BY <1>0, RowsOf DEF ListOK
  <2>5. PICK i \in 1..Len(plist) : <<c, x>> = <<plist[i].mac, plist[i].ip>>
    BY <2>3, <2>4 DEF S!Leases
  <2>6. PICK j \in 1..Len(plist) : <<d, x>> = <<plist[j].mac, plist[j].ip>>
    BY <2>3, <2>4 DEF S!Leases
  <2>7. plist[i].mac = c /\ plist[j].mac = d /\ plist[i].ip = x /\ plist[j].ip = x
    BY <2>5, <2>6
  <2>8. \A k \in 1..Len(plist) : plist[k].ip \in Nat
    BY <1>0, RowsOf DEF ListOK
  <2>9. i = j
    <3>1. i < j => plist[i].ip < plist[j].ip
      BY <1>0 DEF ListOK, Sorted
    <3>2. j < i => plist[j].ip < plist[i].ip
      BY <1>0 DEF ListOK, Sorted
    <3>. QED BY <2>7, <2>8, <3>1, <3>2
  <2>. QED BY <2>7, <2>9
<1>. QED BY <1>1, <1>2, <1>3, <1>4 DEF S!LeasesSound

-----------------------------------------------------------------------------
LEMMA StationsAlone == [MCNext]_mcVars => [S!Next]_dhcpVars
  BY DEF MCNext, Others, mcVars

\* Two stations never use the same address unless a lease of one of them ended
\* or moved at the server; a client that runs has a timer or a lease and uses
\* only what was acknowledged to it (dhcp.c); the server has its leases in the
\* order of their addresses, one per address and per station (dhcpserver.c).
THEOREM LeasesAreSound == MCSpec => []LeasesSound
<1>1. MCInit => DhcpInv
  <2>1. MCInit => S!Init
    BY DEF MCInit
  <2>. QED BY <2>1, DhcpInitially
<1>2. DhcpInv /\ [MCNext]_mcVars => DhcpInv'
  BY StationsAlone, DhcpInductive
<1>3. DhcpInv => LeasesSound
  BY StationsAreSound DEF LeasesSound
<1>. QED BY <1>1, <1>2, <1>3, PTL DEF MCSpec

-----------------------------------------------------------------------------
(* The heap: a chain of blocks, and what one block more or less does to it. *)

LEMMA HeapNumbers ==
    /\ MEM_ALIGNMENT \in Nat \ {0} /\ HEADER \in Nat \ {0} /\ MIN_SIZE \in Nat \ {0}
    /\ MEM_SIZE \in Nat /\ MEM_SIZE >= HEADER + MIN_SIZE /\ WANTED \subseteq Nat \ {0}
  BY PartsAssumption DEF H!HeapAssumption

USE HeapNumbers

Blocks == [next : 0..MEM_SIZE, prev : 0..MEM_SIZE, used : BOOLEAN]
Below(r) == DOMAIN r \ {MEM_SIZE}

\* A block reaches to the next, which leads back to it, and so does the one
\* before.
LinkOK(r, h) ==
    /\ r[h].next \in DOMAIN r /\ r[h].next - (h + HEADER) >= MIN_SIZE
    /\ \A x \in DOMAIN r : x <= h \/ r[h].next <= x
    /\ r[h].next # MEM_SIZE => r[r[h].next].prev = h
    /\ h # 0 => r[h].prev \in Below(r) /\ r[r[h].prev].next = h
Linked(r) ==
    /\ MEM_SIZE \in DOMAIN r /\ DOMAIN r \subseteq 0..MEM_SIZE /\ r \in [DOMAIN r -> Blocks]
    /\ r[MEM_SIZE].used /\ 0 \in Below(r) /\ r[0].prev = 0
    /\ \A h \in Below(r) : LinkOK(r, h)
Lowest(r, f) ==
    /\ f \in DOMAIN r
    /\ f = MEM_SIZE \/ ~r[f].used
    /\ \A h \in Below(r) : ~r[h].used => f <= h
\* The block behind h, unless h is used.
Apart(r, h) == ~r[h].used => r[h].next = MEM_SIZE \/ r[r[h].next].used
Owned(r, k) ==
    /\ k \in [DOMAIN k -> WANTED] /\ DOMAIN k \subseteq Below(r)
    /\ \A h \in Below(r) : r[h].used <=> h \in DOMAIN k
    /\ \A h \in DOMAIN k : r[h].next - (h + HEADER) >= k[h]

HeapInv ==
    /\ Linked(headers) /\ Lowest(headers, lfree) /\ Owned(headers, holds)
    /\ \A h \in Below(headers) : Apart(headers, h)

LEMMA PlacesOrdered ==
    ASSUME NEW r, Linked(r)
    PROVE  /\ \A h \in DOMAIN r : h \in Nat /\ h <= MEM_SIZE /\ r[h].used \in BOOLEAN
           /\ \A h \in Below(r) : /\ r[h].next \in Nat /\ r[h].next > h /\ r[h].next \in DOMAIN r
                                  /\ h # 0 => r[h].prev < h
<1>1. ASSUME NEW h \in DOMAIN r PROVE h \in Nat /\ h <= MEM_SIZE /\ r[h] \in Blocks
  BY <1>1 DEF Linked
<1>2. ASSUME NEW h \in Below(r)
      PROVE  r[h].next \in Nat /\ r[h].next > h /\ r[h].next \in DOMAIN r
  BY <1>1, <1>2 DEF Linked, LinkOK, Below
<1>3. ASSUME NEW h \in Below(r), h # 0 PROVE r[h].prev < h
  <2>1. r[h].prev \in Below(r) /\ r[r[h].prev].next = h
    BY <1>3 DEF Linked, LinkOK
  <2>. QED BY <1>2, <2>1
<1>. QED BY <1>1, <1>2, <1>3 DEF Blocks

OneLess(g, r, low, high) ==
    /\ DOMAIN g = DOMAIN r \ {high} /\ high \in Below(r)
    /\ \A h \in DOMAIN g : /\ g[h].used = r[h].used
                           /\ g[h].next = IF h = low THEN r[high].next ELSE r[h].next
                           /\ g[h].prev = IF h = r[high].next THEN low ELSE r[h].prev

LEMMA MergedIs ==
    ASSUME NEW r, Linked(r), NEW low \in Below(r), NEW high, high = r[low].next, high # MEM_SIZE
    PROVE  LET g == H!Merged(r, low, high) IN Linked(g) /\ OneLess(g, r, low, high)
<1> DEFINE g == H!Merged(r, low, high)
           z == r[high].next
<1>0. /\ MEM_SIZE \in DOMAIN r /\ DOMAIN r \subseteq 0..MEM_SIZE /\ r \in [DOMAIN r -> Blocks]
      /\ r[MEM_SIZE].used /\ 0 \in Below(r) /\ r[0].prev = 0
      /\ \A h \in Below(r) : LinkOK(r, h)
  BY DEF Linked
<1>1. /\ low \in Nat /\ high \in Below(r) /\ high \in Nat /\ high > low
      /\ z \in DOMAIN r /\ z \in Nat /\ z > high /\ low <= MEM_SIZE
  BY PlacesOrdered DEF Below
<1>2. DOMAIN g = DOMAIN r \ {high}
  BY DEF H!Merged
<1>3. \A h \in DOMAIN g : g[h] = [next |-> IF h = low THEN z ELSE r[h].next,
                                  prev |-> IF h = z THEN low ELSE r[h].prev, used |-> r[h].used]
  BY DEF H!Merged
<1>4. \A h \in DOMAIN g : /\ g[h].used = r[h].used
                          /\ g[h].next = IF h = low THEN z ELSE r[h].next
                          /\ g[h].prev = IF h = z THEN low ELSE r[h].prev
  <2> HIDE DEF g, z
  <2>. QED BY <1>3
<1>5. g \in [DOMAIN g -> Blocks]
  <2>1. ASSUME NEW h \in DOMAIN g PROVE g[h] \in Blocks
    <3>1. r[h] \in Blocks /\ z \in 0..MEM_SIZE /\ low \in 0..MEM_SIZE
      BY <1>0, <1>1, <1>2
    <3> HIDE DEF g, z
    <3>. QED BY <1>3, <3>1 DEF Blocks
  <2>2. g = [h \in DOMAIN g |-> g[h]]
    BY DEF H!Merged
  <2> HIDE DEF g
  <2>. QED BY <2>1, <2>2
<1> HIDE DEF g
<1>6. 0 \in Below(g) /\ MEM_SIZE \in DOMAIN g /\ g[MEM_SIZE].used /\ g[0].prev = 0
  BY <1>0, <1>1, <1>2, <1>4 DEF Below
<1>7. ASSUME NEW h \in Below(g) PROVE LinkOK(g, h)
  <2>0. h \in Below(r) /\ h # high /\ LinkOK(r, h) /\ LinkOK(r, low) /\ LinkOK(r, high)
    BY <1>0, <1>1, <1>2, <1>7 DEF Below
  <2>1. r[high].prev = low
    BY <2>0 DEF LinkOK
  <2>2. CASE h = low
    <3>1. g[h].next = z
      BY <1>4, <1>7, <2>2 DEF Below
    <3>2. z \in DOMAIN g /\ z - (h + HEADER) >= MIN_SIZE
      BY <1>0, <1>1, <1>2, <2>0, <2>2 DEF LinkOK
    <3>3. \A x \in DOMAIN g : x <= h \/ z <= x
      BY <1>0, <1>1, <1>2, <2>0, <2>2 DEF LinkOK
    <3>4. g[z].prev = h
      BY <1>4, <2>2, <3>2
    <3>5. ASSUME h # 0 PROVE g[h].prev \in Below(g) /\ g[g[h].prev].next = h
      <4>1. h # z /\ g[h].prev = r[h].prev /\ r[h].prev \in Below(r) /\ r[r[h].prev].next = h
        <5>1. h # z
          BY <1>1, <2>2
        <5>2. h \in DOMAIN g
          BY <1>7 DEF Below
        <5>3. r[h].prev \in Below(r) /\ r[r[h].prev].next = h
          BY <2>0, <3>5 DEF LinkOK
        <5> HIDE DEF z
        <5>. QED BY <1>4, <5>1, <5>2, <5>3
      <4>2. r[h].prev < h
        BY <2>0, <3>5, PlacesOrdered
      <4>3. r[h].prev # high /\ r[h].prev # low /\ r[h].prev \in DOMAIN g
        BY <1>0, <1>1, <1>2, <2>2, <4>1, <4>2 DEF Below
      <4>. QED BY <1>4, <4>1, <4>3 DEF Below
    <3>. QED BY <3>1, <3>2, <3>3, <3>4, <3>5 DEF LinkOK
  <2>3. CASE h # low
    <3> DEFINE y == r[h].next
    <3>1. g[h].next = y
      BY <1>4, <1>7, <2>3 DEF Below
    <3>2. y # high
      BY <1>1, <2>0, <2>1, <2>3 DEF LinkOK, Below
    <3>3. y \in DOMAIN g /\ y - (h + HEADER) >= MIN_SIZE /\ \A x \in DOMAIN g : x <= h \/ y <= x
      BY <1>2, <2>0, <3>2 DEF LinkOK
    <3>4. ASSUME y # MEM_SIZE PROVE g[y].prev = h
      <4>1. r[y].prev = h
        BY <2>0, <3>4 DEF LinkOK
      <4>2. y # z
        BY <2>0, <3>4, <4>1 DEF LinkOK
      <4>. QED BY <1>4, <3>3, <4>1, <4>2
    <3>5. ASSUME h # 0 PROVE g[h].prev \in Below(g) /\ g[g[h].prev].next = h
      <4>1. CASE h = z
        <5>1. g[h].prev = low
          BY <1>4, <1>7, <4>1 DEF Below
        <5>2. low \in Below(g)
          BY <1>1, <1>2 DEF Below
        <5>3. g[low].next = z
          BY <1>4, <5>2 DEF Below
        <5>. QED BY <4>1, <5>1, <5>2, <5>3
      <4>2. CASE h # z
        <5> DEFINE q == r[h].prev
        <5>1. g[h].prev = q /\ q \in Below(r) /\ r[q].next = h
          BY <1>4, <1>7, <2>0, <3>5, <4>2 DEF LinkOK, Below
        <5>2. q # high /\ q # low
          BY <2>0, <4>2, <5>1
        <5> HIDE DEF q
        <5>3. q \in Below(g)
          BY <1>2, <5>1, <5>2 DEF Below
        <5>4. g[q].next = h
          BY <1>4, <5>1, <5>2, <5>3 DEF Below
        <5>. QED BY <5>1, <5>3, <5>4
      <4>. QED BY <4>1, <4>2
    <3> HIDE DEF y
    <3>. QED BY <3>1, <3>3, <3>4, <3>5 DEF LinkOK
  <2>. QED BY <2>2, <2>3
<1>8. Linked(g)
  BY <1>0, <1>2, <1>5, <1>6, <1>7 DEF Linked
<1>9. OneLess(g, r, low, high)
  BY <1>1, <1>2, <1>4 DEF OneLess
<1>. QED BY <1>8, <1>9 DEF g

Halved(g, r, low, new, next) ==
    /\ DOMAIN g = {x \in DOMAIN r : x <= low \/ next <= x} \cup {new}
    /\ new # MEM_SIZE /\ ~g[new].used /\ g[new].next = next /\ g[low].next = new
    /\ low < new /\ new < next
    /\ \A h \in DOMAIN g : h # new => g[h].used = r[h].used /\ (h # low => g[h].next = r[h].next)

LEMMA SplitIs ==
    ASSUME NEW r, Linked(r), NEW low \in Below(r), NEW new \in Nat, NEW next \in DOMAIN r,
           new - (low + HEADER) >= MIN_SIZE, next - (new + HEADER) >= MIN_SIZE
    PROVE  LET g == H!Split(r, low, new, next) IN Linked(g) /\ Halved(g, r, low, new, next)
<1> DEFINE g == H!Split(r, low, new, next)
<1>0. /\ MEM_SIZE \in DOMAIN r /\ DOMAIN r \subseteq 0..MEM_SIZE /\ r \in [DOMAIN r -> Blocks]
      /\ r[MEM_SIZE].used /\ 0 \in Below(r) /\ r[0].prev = 0
      /\ \A h \in Below(r) : LinkOK(r, h)
  BY DEF Linked
<1>1. /\ low \in Nat /\ next \in Nat /\ low < new /\ new < next /\ next <= MEM_SIZE
      /\ low \in DOMAIN r /\ low # MEM_SIZE /\ low # next
  BY <1>0 DEF Below
<1>2. DOMAIN g = {x \in DOMAIN r : x <= low \/ next <= x} \cup {new}
  BY DEF H!Split
<1>3. \A h \in DOMAIN g : g[h] =
        IF h = new THEN [next |-> next, prev |-> low, used |-> FALSE]
        ELSE [next |-> IF h = low THEN new ELSE r[h].next,
              prev |-> IF h = next /\ h # MEM_SIZE THEN new ELSE r[h].prev, used |-> r[h].used]
  BY DEF H!Split, H!ram_end
<1>4. /\ g[new].next = next /\ g[new].prev = low /\ ~g[new].used
      /\ \A h \in DOMAIN g : h # new =>
           /\ g[h].used = r[h].used
           /\ g[h].next = IF h = low THEN new ELSE r[h].next
           /\ g[h].prev = IF h = next /\ h # MEM_SIZE THEN new ELSE r[h].prev
  <2>1. new \in DOMAIN g
    BY <1>2
  <2> HIDE DEF g
  <2>2. g[new] = [next |-> next, prev |-> low, used |-> FALSE]
    BY <1>3, <2>1
  <2>3. ASSUME NEW h \in DOMAIN g, h # new
        PROVE  g[h] = [next |-> IF h = low THEN new ELSE r[h].next,
                       prev |-> IF h = next /\ h # MEM_SIZE THEN new ELSE r[h].prev, used |-> r[h].used]
    BY <1>3, <2>3
  <2>. QED BY <2>2, <2>3
<1>5. g \in [DOMAIN g -> Blocks]
  <2>1. ASSUME NEW h \in DOMAIN g PROVE g[h] \in Blocks
    <3>1. next \in 0..MEM_SIZE /\ low \in 0..MEM_SIZE /\ new \in 0..MEM_SIZE
      BY <1>1
    <3>2. CASE h = new
      <4>1. [next |-> next, prev |-> low, used |-> FALSE] \in Blocks
        BY <3>1 DEF Blocks
      <4> HIDE DEF g
      <4>2. g[h] = [next |-> next, prev |-> low, used |-> FALSE]
        BY <1>3, <2>1, <3>2
      <4>. QED BY <4>1, <4>2
    <3>3. CASE h # new
      <4>1. r[h] \in Blocks
        BY <1>0, <1>2, <2>1, <3>3
      <4> HIDE DEF g
      <4>. QED BY <1>3, <2>1, <3>1, <3>3, <4>1 DEF Blocks
    <3>. QED BY <3>2, <3>3
  <2>2. g = [h \in DOMAIN g |-> g[h]]
    BY DEF H!Split
  <2> HIDE DEF g
  <2>. QED BY <2>1, <2>2
<1> HIDE DEF g
<1>6. 0 \in Below(g) /\ MEM_SIZE \in DOMAIN g /\ g[MEM_SIZE].used /\ g[0].prev = 0
  <2>1. 0 \in DOMAIN g /\ 0 # new /\ 0 # next /\ MEM_SIZE \in DOMAIN g /\ MEM_SIZE # new
    BY <1>0, <1>1, <1>2 DEF Below
  <2>. QED BY <1>0, <1>4, <2>1 DEF Below
\* What stays where it is leads to its like.
<1>7. ASSUME NEW h \in Below(r), h <= low \/ next <= h, h # low
      PROVE  /\ r[h].next \in DOMAIN g /\ r[h].next # new /\ r[h].next # next
             /\ h < low => r[h].next <= low
  <2>1. LinkOK(r, h) /\ r[h].next > h /\ r[h].next \in Nat /\ h \in Nat
    BY <1>0, PlacesOrdered DEF Below
  <2>2. CASE h < low
    <3>1. r[h].next <= low
      BY <1>1, <2>1, <2>2 DEF LinkOK
    <3>. QED BY <1>1, <1>2, <2>1, <3>1 DEF LinkOK
  <2>3. CASE next <= h
    <3>1. r[h].next > next
      BY <1>1, <2>1, <2>3
    <3>. QED BY <1>1, <1>2, <2>1, <2>3, <3>1 DEF LinkOK
  <2>. QED BY <1>1, <1>7, <2>1, <2>2, <2>3
<1>8. ASSUME NEW h \in Below(r), h <= low \/ next <= h, h # 0, h # next
      PROVE  /\ r[h].prev \in Below(r) /\ r[r[h].prev].next = h /\ r[h].prev # low
             /\ r[h].prev # new /\ r[h].prev \in DOMAIN g
  <2> DEFINE q == r[h].prev
  <2>1. LinkOK(r, h) /\ q \in Below(r) /\ r[q].next = h /\ q < h /\ h \in Nat
    BY <1>0, <1>8, PlacesOrdered DEF Below, LinkOK
  <2> HIDE DEF q
  <2>2. LinkOK(r, q) /\ q \in Nat /\ q \in DOMAIN r
    BY <1>0, <2>1 DEF Below
  <2>3. CASE h <= low
    <3>1. q < low
      BY <1>1, <2>1, <2>2, <2>3
    <3>. QED BY <1>1, <1>2, <2>1, <2>2, <3>1 DEF q
  <2>4. CASE next <= h
    <3>1. next <= q
      BY <1>1, <1>8, <2>1, <2>2, <2>4 DEF LinkOK
    <3>. QED BY <1>1, <1>2, <2>1, <2>2, <3>1 DEF q
  <2>. QED BY <1>8, <2>3, <2>4
<1>9. ASSUME NEW h \in Below(g) PROVE LinkOK(g, h)
  <2>0. LinkOK(r, low)
    BY <1>0
  <2>1. CASE h = new
    <3>1. g[h].next = next /\ next \in DOMAIN g /\ next - (h + HEADER) >= MIN_SIZE
      BY <1>1, <1>2, <1>4, <2>1
    <3>2. \A x \in DOMAIN g : x <= h \/ next <= x
      BY <1>0, <1>1, <1>2, <2>1
    <3>3. next # MEM_SIZE => g[next].prev = h
      BY <1>1, <1>4, <2>1, <3>1
    <3>4. low \in Below(g) /\ low # new
      BY <1>1, <1>2 DEF Below
    <3>5. g[h].prev \in Below(g) /\ g[g[h].prev].next = h
      BY <1>4, <2>1, <3>4 DEF Below
    <3>. QED BY <3>1, <3>2, <3>3, <3>5 DEF LinkOK
  <2>2. CASE h # new
    <3>0. h \in Below(r) /\ (h <= low \/ next <= h) /\ LinkOK(r, h) /\ h \in DOMAIN g /\ h \in Nat
      BY <1>0, <1>2, <1>9, <2>2 DEF Below
    <3>1. CASE h = low
      <4>1. g[h].next = new /\ new \in DOMAIN g /\ new # MEM_SIZE
        BY <1>1, <1>2, <1>4, <2>2, <3>0, <3>1
      <4>2. \A x \in DOMAIN g : x <= h \/ new <= x
        BY <1>0, <1>1, <1>2, <3>1
      <4>3. ASSUME h # 0 PROVE g[h].prev \in Below(g) /\ g[g[h].prev].next = h
        <5> DEFINE q == r[h].prev
        <5>1. q \in Below(r) /\ r[q].next = h /\ q # low /\ q # new /\ q \in DOMAIN g
          BY <1>1, <1>8, <3>0, <3>1, <4>3
        <5>2. g[h].prev = q
          BY <1>1, <1>4, <2>2, <3>0, <3>1
        <5> HIDE DEF q
        <5>. QED BY <1>4, <5>1, <5>2 DEF Below
      <4>. QED BY <1>4, <3>1, <4>1, <4>2, <4>3 DEF LinkOK
    <3>2. CASE h # low
      <4> DEFINE y == r[h].next
      <4>1. g[h].next = y /\ y \in DOMAIN g /\ y # new /\ y # next
        BY <1>4, <1>7, <2>2, <3>0, <3>2
      <4>2. y - (h + HEADER) >= MIN_SIZE /\ \A x \in DOMAIN r : x <= h \/ y <= x
        BY <3>0 DEF LinkOK
      <4>3. \A x \in DOMAIN g : x <= h \/ y <= x
        <5>1. new <= h \/ y <= new
          <6>1. CASE h < low
            <7>1. y <= low /\ y \in Nat
              BY <1>7, <3>0, <6>1, PlacesOrdered
            <7> HIDE DEF y
            <7>. QED BY <1>1, <7>1
          <6>2. CASE next <= h
            BY <1>1, <3>0, <6>2
          <6>. QED BY <1>1, <3>0, <3>2, <6>1, <6>2
        <5> HIDE DEF y
        <5>. QED BY <1>2, <4>2, <5>1
      <4>4. ASSUME y # MEM_SIZE PROVE g[y].prev = h
        <5>1. r[y].prev = h
          BY <3>0, <4>4 DEF LinkOK
        <5> HIDE DEF y
        <5>. QED BY <1>4, <4>1, <5>1
      <4>5. ASSUME h # 0 PROVE g[h].prev \in Below(g) /\ g[g[h].prev].next = h
        <5>1. CASE h = next
          <6>1. g[h].prev = new
            BY <1>4, <1>9, <2>2, <3>0, <5>1 DEF Below
          <6>2. new \in Below(g)
            BY <1>1, <1>2 DEF Below
          <6>. QED BY <1>4, <5>1, <6>1, <6>2
        <5>2. CASE h # next
          <6> DEFINE q == r[h].prev
          <6>1. q \in Below(r) /\ r[q].next = h /\ q # low /\ q # new /\ q \in DOMAIN g
            BY <1>8, <3>0, <4>5, <5>2
          <6>2. g[h].prev = q
            BY <1>4, <2>2, <3>0, <5>2
          <6> HIDE DEF q
          <6>. QED BY <1>4, <6>1, <6>2 DEF Below
        <5>. QED BY <5>1, <5>2
      <4> HIDE DEF y
      <4>. QED BY <4>1, <4>2, <4>3, <4>4, <4>5 DEF LinkOK
    <3>. QED BY <3>1, <3>2
  <2>. QED BY <2>1, <2>2
<1>10. DOMAIN g \subseteq 0..MEM_SIZE
  BY <1>0, <1>1, <1>2
<1>11. Linked(g)
  BY <1>5, <1>6, <1>9, <1>10 DEF Linked
<1>12. low \in DOMAIN g /\ low # new
  BY <1>1, <1>2
<1>13. g[low].next = new /\ new # MEM_SIZE
  BY <1>1, <1>4, <1>12
<1>14. Halved(g, r, low, new, next)
  BY <1>1, <1>2, <1>4, <1>13 DEF Halved
<1>. QED BY <1>11, <1>14 DEF g

-----------------------------------------------------------------------------
(* What its calls do.                                                       *)

\* Two blocks that are not used become one.
LEMMA MergeKeeps ==
    ASSUME NEW r, Linked(r), NEW low \in Below(r), NEW high, high = r[low].next, high # MEM_SIZE,
           ~r[low].used, ~r[high].used, NEW f, Lowest(r, f), NEW k, Owned(r, k)
    PROVE  LET g == H!Merged(r, low, high)
           IN Linked(g) /\ Lowest(g, H!Moved(f, low, high)) /\ Owned(g, k)
<1> DEFINE g == H!Merged(r, low, high)
<1>1. /\ Linked(g) /\ DOMAIN g = DOMAIN r \ {high} /\ high \in Below(r)
      /\ \A h \in DOMAIN g : /\ g[h].used = r[h].used
                             /\ g[h].next = IF h = low THEN r[high].next ELSE r[h].next
  <2>1. Linked(g) /\ OneLess(g, r, low, high)
    BY MergedIs
  <2> HIDE DEF g
  <2>. QED BY <2>1 DEF OneLess
<1> HIDE DEF g
<1>2. f <= low /\ low < high /\ f \in Nat /\ f \in DOMAIN r /\ low \in Nat /\ high \in Nat
  BY <1>1, PlacesOrdered DEF Lowest, Below
<1>3. f # high /\ H!Moved(f, low, high) = f
  BY <1>2 DEF H!Moved
<1>4. Lowest(g, f)
  BY <1>1, <1>2, <1>3 DEF Lowest, Below
<1>5. \A h \in DOMAIN k : h \in Below(r) /\ h # low /\ h # high /\ h \in DOMAIN g
  BY <1>1 DEF Owned, Below
<1>6. Owned(g, k)
  <2>1. DOMAIN k \subseteq Below(g)
    BY <1>5 DEF Below
  <2>2. \A h \in Below(g) : g[h].used <=> h \in DOMAIN k
    BY <1>1 DEF Owned, Below
  <2>3. \A h \in DOMAIN k : g[h].next - (h + HEADER) >= k[h]
    BY <1>1, <1>5 DEF Owned
  <2>. QED BY <2>1, <2>2, <2>3 DEF Owned
<1>. QED BY <1>1, <1>3, <1>4, <1>6 DEF g

\* A block that is given back, and its neighbours.
LEMMA PlugKeeps ==
    ASSUME NEW r, Linked(r), NEW mem \in Below(r), ~r[mem].used, NEW f, Lowest(r, f),
           NEW k, Owned(r, k),
           \A h \in Below(r) : h # mem /\ r[h].next # mem => Apart(r, h),
           r[mem].next # MEM_SIZE => Apart(r, r[mem].next),
           H!plug_holes(r, f, mem)
    PROVE  /\ Linked(headers') /\ Lowest(headers', lfree') /\ Owned(headers', k)
           /\ \A h \in Below(headers') : Apart(headers', h)
<1> DEFINE nmem == r[mem].next
           ahead == nmem # mem /\ ~r[nmem].used /\ nmem # MEM_SIZE
           r1 == IF ahead THEN H!Merged(r, mem, nmem) ELSE r
           f1 == IF ahead THEN H!Moved(f, mem, nmem) ELSE f
           pmem == r1[mem].prev
           behind == pmem # mem /\ ~r1[pmem].used
<1>1. /\ headers' = IF behind THEN H!Merged(r1, pmem, mem) ELSE r1
      /\ lfree' = IF behind THEN H!Moved(f1, pmem, mem) ELSE f1
  BY DEF H!plug_holes, H!ram_end
<1>2. nmem > mem /\ mem \in Nat /\ nmem \in Nat /\ nmem \in DOMAIN r
  BY PlacesOrdered DEF Below
<1>3. /\ Linked(r1) /\ Lowest(r1, f1) /\ Owned(r1, k) /\ mem \in Below(r1) /\ ~r1[mem].used
      /\ Apart(r1, mem) /\ \A h \in Below(r1) : r1[h].next # mem => Apart(r1, h)
  <2>1. CASE ahead
    <3>1. r1 = H!Merged(r, mem, nmem) /\ f1 = H!Moved(f, mem, nmem)
      BY <2>1
    <3>2. /\ DOMAIN r1 = DOMAIN r \ {nmem} /\ nmem \in Below(r)
          /\ \A h \in DOMAIN r1 : /\ r1[h].used = r[h].used
                                  /\ r1[h].next = IF h = mem THEN r[nmem].next ELSE r[h].next
      <4>1. Linked(r) /\ mem \in Below(r) /\ nmem = r[mem].next /\ nmem # MEM_SIZE
        BY <2>1
      <4> DEFINE g == H!Merged(r, mem, nmem)
      <4> HIDE DEF nmem, ahead
      <4>2. /\ DOMAIN g = DOMAIN r \ {nmem} /\ nmem \in Below(r)
            /\ \A h \in DOMAIN g : /\ g[h].used = r[h].used
                                   /\ g[h].next = IF h = mem THEN r[nmem].next ELSE r[h].next
        <5>1. OneLess(g, r, mem, nmem)
          BY <4>1, MergedIs
        <5> HIDE DEF g
        <5>. QED BY <5>1 DEF OneLess
      <4>3. r1 = g
        BY <3>1
      <4> HIDE DEF g, r1
      <4>. QED BY <4>2, <4>3
    <3>3. Linked(r1) /\ Lowest(r1, f1) /\ Owned(r1, k)
      BY <2>1, <3>1, MergeKeeps
    <3> HIDE DEF r1, f1
    <3>4. mem \in Below(r1) /\ ~r1[mem].used
      BY <1>2, <3>2 DEF Below
    <3>5. Apart(r1, mem)
      <4>1. r[nmem].next = MEM_SIZE \/ r[r[nmem].next].used
        BY <2>1 DEF Apart
      <4>2. r[nmem].next \in DOMAIN r /\ r[nmem].next # nmem
        BY <1>2, <3>2, PlacesOrdered
      <4>. QED BY <3>2, <3>4, <4>1, <4>2 DEF Apart, Below
    <3>6. ASSUME NEW h \in Below(r1), r1[h].next # mem PROVE Apart(r1, h)
      <4>1. CASE h = mem
        BY <3>5, <4>1
      <4>2. CASE h # mem
        <5>1. h \in Below(r) /\ r1[h].next = r[h].next /\ r1[h].used = r[h].used
          BY <3>2, <4>2 DEF Below
        <5>2. Apart(r, h)
          BY <3>6, <4>2, <5>1
        <5>3. r1[h].next \in DOMAIN r1
          BY <3>3, PlacesOrdered
        <5>. QED BY <3>2, <5>1, <5>2, <5>3 DEF Apart
      <4>. QED BY <4>1, <4>2
    <3>. QED BY <3>3, <3>4, <3>5, <3>6
  <2>2. CASE ~ahead
    <3>1. r1 = r /\ f1 = f
      BY <2>2
    <3>2. nmem = MEM_SIZE \/ r[nmem].used
      BY <1>2, <2>2
    <3>3. Apart(r, mem)
      BY <3>2 DEF Apart
    <3> HIDE DEF r1, f1
    <3>. QED BY <3>1, <3>3
  <2>. QED BY <2>1, <2>2
<1> HIDE DEF ahead, r1, f1
<1>4. CASE behind
  <2>1. mem # 0 /\ pmem \in Below(r1) /\ r1[pmem].next = mem
    <3>1. mem # 0
      BY <1>3, <1>4 DEF Linked
    <3>2. LinkOK(r1, mem)
      BY <1>3 DEF Linked
    <3>. QED BY <3>1, <3>2 DEF LinkOK
  <2>2. mem # MEM_SIZE
    BY DEF Below
  <2> DEFINE g == H!Merged(r1, pmem, mem)
  <2>3. headers' = g /\ lfree' = H!Moved(f1, pmem, mem) /\ ~r1[pmem].used
    BY <1>1, <1>4
  <2> HIDE DEF pmem, behind
  <2>4. /\ DOMAIN g = DOMAIN r1 \ {mem}
        /\ \A h \in DOMAIN g : /\ g[h].used = r1[h].used
                               /\ g[h].next = IF h = pmem THEN r1[mem].next ELSE r1[h].next
    <3>1. Linked(r1) /\ pmem \in Below(r1) /\ mem = r1[pmem].next /\ mem # MEM_SIZE
      BY <1>3, <2>1, <2>2
    <3> DEFINE y == r1[pmem].next
               u == H!Merged(r1, pmem, y)
    <3>2. y # MEM_SIZE
      BY <3>1
    <3>3. OneLess(u, r1, pmem, y)
      BY <3>1, <3>2, MergedIs
    <3>4. y = mem /\ u = g
      BY <3>1
    <3> HIDE DEF g, u, y
    <3>. QED BY <3>3, <3>4 DEF OneLess
  <2>5. Linked(g) /\ Lowest(g, H!Moved(f1, pmem, mem)) /\ Owned(g, k)
    BY <1>3, <2>1, <2>2, <2>3, MergeKeeps
  <2> HIDE DEF g
  <2>6. ASSUME NEW h \in Below(g) PROVE Apart(g, h)
    <3>1. h \in Below(r1) /\ h # mem /\ h \in DOMAIN g
      BY <2>4, <2>6 DEF Below
    <3>2. g[h].next \in DOMAIN g
      BY <2>5, <2>6, PlacesOrdered
    <3>3. CASE h = pmem
      BY <1>3, <2>4, <3>1, <3>2, <3>3 DEF Apart
    <3>4. CASE h # pmem
      <4>1. g[h].next = r1[h].next /\ r1[h].next # mem
        BY <2>4, <3>1, <3>2, <3>4
      <4>2. Apart(r1, h)
        BY <1>3, <3>1, <4>1
      <4>. QED BY <2>4, <3>1, <3>2, <4>1, <4>2 DEF Apart
    <3>. QED BY <3>3, <3>4
  <2>. QED BY <2>3, <2>5, <2>6
<1>5. CASE ~behind
  <2>1. headers' = r1 /\ lfree' = f1
    BY <1>1, <1>5
  <2>2. ASSUME NEW h \in Below(r1), r1[h].next = mem PROVE Apart(r1, h)
    <3>1. mem # 0 /\ mem # MEM_SIZE
      <4>1. h \in Nat /\ mem > h
        BY <1>3, <2>2, PlacesOrdered DEF Below
      <4>. QED BY <4>1 DEF Below
    <3>2. pmem = h
      BY <1>3, <2>2, <3>1 DEF Linked, LinkOK
    <3>3. h # mem
      BY <1>3, <2>2, PlacesOrdered
    <3>4. r1[h].used
      BY <1>5, <3>2, <3>3
    <3>. QED BY <3>4 DEF Apart
  <2>. QED BY <1>3, <2>1, <2>2
<1>. QED BY <1>4, <1>5

LEMMA FreeKeeps == ASSUME HeapInv, H!mem_free PROVE HeapInv'
<1>1. PICK mem \in DOMAIN holds :
        /\ H!plug_holes([headers EXCEPT ![mem].used = FALSE], IF mem < lfree THEN mem ELSE lfree, mem)
        /\ holds' = [h \in DOMAIN holds \ {mem} |-> holds[h]]
  BY DEF H!mem_free
<1> DEFINE r == [headers EXCEPT ![mem].used = FALSE]
           f == IF mem < lfree THEN mem ELSE lfree
<1>2. /\ Linked(headers) /\ Lowest(headers, lfree) /\ Owned(headers, holds)
      /\ \A h \in Below(headers) : Apart(headers, h)
  BY DEF HeapInv
<1>3. mem \in Below(headers) /\ headers[mem].used
  BY <1>2 DEF Owned
<1>4. /\ DOMAIN r = DOMAIN headers /\ ~r[mem].used /\ r \in [DOMAIN r -> Blocks]
      /\ \A h \in DOMAIN r : /\ r[h].next = headers[h].next /\ r[h].prev = headers[h].prev
                             /\ h # mem => r[h].used = headers[h].used
  BY <1>2, <1>3 DEF Linked, Blocks, Below
<1> HIDE DEF r
<1>5. Linked(r)
  <2>1. mem # MEM_SIZE
    BY <1>3 DEF Below
  <2>2. ASSUME NEW h \in Below(r) PROVE LinkOK(r, h)
    <3>1. h \in Below(headers) /\ LinkOK(headers, h)
      BY <1>2, <1>4 DEF Below, Linked
    <3>. QED BY <1>4, <3>1 DEF LinkOK, Below
  <2>. QED BY <1>2, <1>4, <2>1, <2>2 DEF Linked, Below
<1>6. mem \in Below(r) /\ mem \in Nat /\ lfree \in Nat
  <2>1. mem \in DOMAIN headers /\ mem # MEM_SIZE /\ lfree \in DOMAIN headers
    BY <1>2, <1>3 DEF Below, Lowest
  <2>. QED BY <1>2, <1>4, <2>1, PlacesOrdered DEF Below
<1>7. Lowest(r, f)
  <2>1. \A h \in Below(r) : h \in Nat /\ h \in Below(headers)
    BY <1>4, <1>5, PlacesOrdered DEF Below
  <2>. QED BY <1>2, <1>4, <1>6, <2>1 DEF Lowest, Below
<1>8. holds' \in [DOMAIN holds' -> WANTED] /\ DOMAIN holds' = DOMAIN holds \ {mem}
  BY <1>1, <1>2 DEF Owned
<1>9. Owned(r, holds')
  <2>1. DOMAIN holds' \subseteq Below(r)
    BY <1>2, <1>4, <1>8 DEF Owned, Below
  <2>2. \A h \in Below(r) : r[h].used <=> h \in DOMAIN holds'
    BY <1>2, <1>4, <1>8 DEF Owned, Below
  <2>3. \A h \in DOMAIN holds' : r[h].next - (h + HEADER) >= holds'[h]
    BY <1>1, <1>2, <1>4, <1>8, <2>1 DEF Owned, Below
  <2>. QED BY <1>8, <2>1, <2>2, <2>3 DEF Owned
<1>10. \A h \in Below(r) : h # mem /\ r[h].next # mem => Apart(r, h)
  <2> SUFFICES ASSUME NEW h \in Below(r), h # mem, r[h].next # mem PROVE Apart(r, h)
    OBVIOUS
  <2>1. h \in Below(headers) /\ h \in DOMAIN r /\ Apart(headers, h) /\ r[h].next \in DOMAIN r
    BY <1>2, <1>4, <1>5, PlacesOrdered DEF Below
  <2>. QED BY <1>4, <2>1 DEF Apart
<1>11. ASSUME r[mem].next # MEM_SIZE PROVE Apart(r, r[mem].next)
  <2> DEFINE h == r[mem].next
  <2>1. h \in Below(r) /\ h # mem
    BY <1>5, <1>6, <1>11, PlacesOrdered DEF Below
  <2>2. r[h].next # mem
    BY <1>5, <1>6, <2>1, PlacesOrdered DEF Below
  <2>. QED BY <1>10, <2>1, <2>2
<1>12. H!plug_holes(r, f, mem)
  BY <1>1 DEF r
<1> HIDE DEF f
<1>13. /\ Linked(headers') /\ Lowest(headers', lfree') /\ Owned(headers', holds')
       /\ \A h \in Below(headers') : Apart(headers', h)
  BY <1>4, <1>5, <1>6, <1>7, <1>9, <1>10, <1>11, <1>12, PlugKeeps
<1>. QED BY <1>13 DEF HeapInv

LEMMA Reserve ==
    ASSUME NEW n \in WANTED
    PROVE  H!Reserved(n) \in Nat /\ H!Reserved(n) >= n /\ H!Reserved(n) >= MIN_SIZE
<1> DEFINE a == MEM_ALIGNMENT
           x == n + a - 1
           q == x \div a
<1>1. n \in Nat /\ a \in Nat /\ a > 0 /\ x \in Nat
  OBVIOUS
<1>2. q \in Nat /\ x = a * q + (x % a) /\ x % a \in 0..(a - 1)
  <2> HIDE DEF a, x
  <2>. QED BY <1>1
<1>3. q * a \in Nat /\ q * a = x - (x % a)
  <2> HIDE DEF a, x, q
  <2>. QED BY <1>1, <1>2
<1>4. q * a >= n
  <2> DEFINE y == q * a
             z == x % a
  <2>1. y = n + a - 1 - z /\ z \in 0..(a - 1) /\ y \in Nat
    BY <1>2, <1>3
  <2> HIDE DEF y, z, a
  <2>2. y >= n
    BY <1>1, <2>1
  <2>. QED BY <2>2 DEF y
<1>5. H!Rounded(n) = q * a
  BY DEF H!Rounded
<1> HIDE DEF q, a, x
<1>. QED BY <1>1, <1>3, <1>4, <1>5 DEF H!Reserved

\* What is left of a chain whose block low ends at new.
Cut(g, r, k, low, new, next) ==
    /\ Linked(g) /\ \A h \in Below(g) : h # low => Apart(g, h)
    /\ DOMAIN g = {x \in DOMAIN r : x <= low \/ next <= x} \cup {new}
    /\ new \in Below(g) /\ ~g[new].used /\ g[low].next = new /\ low < new
    /\ low \in Below(g) /\ new \notin DOMAIN r
    /\ \A h \in DOMAIN g : h # new => g[h].used = r[h].used
    /\ DOMAIN k \subseteq Below(g) /\ \A h \in Below(g) : g[h].used <=> h \in DOMAIN k
    /\ \A h \in DOMAIN k : h # low => g[h].next - (h + HEADER) >= k[h]

\* A block gets shorter: what it had at its end, with a block behind that is
\* not used or without, is a block of its own.
LEMMA SplitKeeps ==
    ASSUME NEW r, Linked(r), \A h \in Below(r) : Apart(r, h), NEW k, Owned(r, k),
           NEW low \in Below(r), NEW new \in Nat, NEW next \in DOMAIN r,
           new - (low + HEADER) >= MIN_SIZE, next - (new + HEADER) >= MIN_SIZE, new < r[low].next,
           next = MEM_SIZE \/ r[next].used, \A x \in DOMAIN r : low < x /\ x < next => ~r[x].used
    PROVE  Cut(H!Split(r, low, new, next), r, k, low, new, next)
<1> DEFINE g == H!Split(r, low, new, next)
<1>1. /\ Linked(g) /\ DOMAIN g = {x \in DOMAIN r : x <= low \/ next <= x} \cup {new}
      /\ new # MEM_SIZE /\ ~g[new].used /\ g[new].next = next /\ g[low].next = new
      /\ low < new /\ new < next
      /\ \A h \in DOMAIN g : h # new => /\ g[h].used = r[h].used
                                        /\ h # low => g[h].next = r[h].next
  <2>1. Linked(g) /\ Halved(g, r, low, new, next)
    BY SplitIs
  <2> HIDE DEF g
  <2>. QED BY <2>1 DEF Halved
<1> HIDE DEF g
<1>2. /\ low \in Nat /\ next \in Nat /\ low \in DOMAIN r /\ low # MEM_SIZE
      /\ \A h \in DOMAIN r : h \in Nat
  BY PlacesOrdered DEF Below
<1>3. new \notin DOMAIN r
  <2>1. \A x \in DOMAIN r : x <= low \/ r[low].next <= x
    BY DEF Linked, LinkOK
  <2>2. r[low].next \in Nat
    BY PlacesOrdered
  <2>. QED BY <1>1, <1>2, <2>1, <2>2
<1>4. low \in Below(g) /\ new \in Below(g) /\ low # new /\ next \in DOMAIN g /\ next # new
  BY <1>1, <1>2 DEF Below
<1>5. ASSUME NEW h \in Below(g), h # low PROVE Apart(g, h)
  <2>1. CASE h = new
    <3>1. next = MEM_SIZE \/ g[next].used
      BY <1>1, <1>4
    <3>. QED BY <1>1, <2>1, <3>1 DEF Apart
  <2>2. CASE h # new
    <3>1. h \in Below(r) /\ h \in DOMAIN g /\ g[h].used = r[h].used /\ g[h].next = r[h].next
      BY <1>1, <1>5, <2>2 DEF Below
    <3>2. g[h].next \in DOMAIN g
      BY <1>1, <1>5, PlacesOrdered
    <3>3. g[h].next # new
      <4>1. \A x \in Below(g) : g[x].next = new => g[new].prev = x
        BY <1>1 DEF Linked, LinkOK
      <4>. QED BY <1>1, <1>4, <1>5, <4>1
    <3>4. Apart(r, h)
      BY <3>1
    <3>. QED BY <1>1, <3>1, <3>2, <3>3, <3>4 DEF Apart
  <2>. QED BY <2>1, <2>2
<1>6. ASSUME NEW h \in DOMAIN k PROVE h \in Below(g) /\ h # new /\ r[h].used
  <2>1. h \in Below(r) /\ r[h].used
    BY <1>6 DEF Owned
  <2>2. h \in DOMAIN r /\ h # MEM_SIZE /\ h \in Nat
    BY <1>2, <2>1 DEF Below
  <2>3. h <= low \/ next <= h
    BY <1>2, <2>1, <2>2
  <2>. QED BY <1>1, <1>3, <2>1, <2>2, <2>3 DEF Below
<1>7. \A h \in Below(g) : g[h].used <=> h \in DOMAIN k
  <2> SUFFICES ASSUME NEW h \in Below(g) PROVE g[h].used <=> h \in DOMAIN k
    OBVIOUS
  <2>1. CASE h = new
    BY <1>1, <1>6, <2>1
  <2>2. CASE h # new
    <3>1. h \in Below(r) /\ h \in DOMAIN g
      BY <1>1, <2>2 DEF Below
    <3>. QED BY <1>1, <2>2, <3>1 DEF Owned
  <2>. QED BY <2>1, <2>2
<1>8. ASSUME NEW h \in DOMAIN k, h # low PROVE g[h].next - (h + HEADER) >= k[h]
  <2>1. g[h].next = r[h].next
    BY <1>1, <1>6, <1>8 DEF Below
  <2>. QED BY <1>8, <2>1 DEF Owned
<1>9. Cut(g, r, k, low, new, next)
  BY <1>1, <1>3, <1>4, <1>5, <1>6, <1>7, <1>8 DEF Cut
<1>. QED BY <1>9 DEF g

LEMMA TrimKeeps == ASSUME HeapInv, H!mem_trim PROVE HeapInv'
<1>1. PICK mem \in DOMAIN holds, n \in WANTED :
        LET newsize == H!Reserved(n)
            mem2 == headers[mem].next
            ptr2 == mem + HEADER + newsize
        IN /\ newsize <= H!Room(mem)
           /\ holds' = [holds EXCEPT ![mem] = n]
           /\ \/ /\ newsize < H!Room(mem) /\ ~headers[mem2].used
                 /\ headers' = H!Split(headers, mem, ptr2, headers[mem2].next)
                 /\ lfree' = H!Moved(lfree, ptr2, mem2)
              \/ /\ headers[mem2].used /\ newsize + HEADER + MIN_SIZE <= H!Room(mem)
                 /\ headers' = H!Split(headers, mem, ptr2, mem2)
                 /\ lfree' = IF ptr2 < lfree THEN ptr2 ELSE lfree
              \/ UNCHANGED <<headers, lfree>>
  BY DEF H!mem_trim
<1> DEFINE newsize == H!Reserved(n)
           mem2 == headers[mem].next
           ptr2 == mem + HEADER + newsize
<1>2. /\ Linked(headers) /\ Lowest(headers, lfree) /\ Owned(headers, holds)
      /\ \A h \in Below(headers) : Apart(headers, h)
  BY DEF HeapInv
<1>3. newsize \in Nat /\ newsize >= n /\ newsize >= MIN_SIZE /\ n \in Nat
  BY Reserve
<1>4. /\ mem \in Below(headers) /\ headers[mem].used /\ mem \in Nat
      /\ mem2 \in DOMAIN headers /\ mem2 \in Nat /\ mem2 > mem
      /\ H!Room(mem) = mem2 - (mem + HEADER) /\ lfree \in Nat
      /\ \A h \in DOMAIN headers : h \in Nat /\ h <= MEM_SIZE
  <2>1. mem \in Below(headers) /\ headers[mem].used
    BY <1>2 DEF Owned
  <2>. QED BY <1>2, <2>1, PlacesOrdered DEF H!Room, Below, Lowest
<1>5. /\ newsize <= H!Room(mem) /\ holds' = [holds EXCEPT ![mem] = n]
      /\ \/ /\ newsize < H!Room(mem) /\ ~headers[mem2].used
            /\ headers' = H!Split(headers, mem, ptr2, headers[mem2].next)
            /\ lfree' = H!Moved(lfree, ptr2, mem2)
         \/ /\ headers[mem2].used /\ newsize + HEADER + MIN_SIZE <= H!Room(mem)
            /\ headers' = H!Split(headers, mem, ptr2, mem2)
            /\ lfree' = IF ptr2 < lfree THEN ptr2 ELSE lfree
         \/ UNCHANGED <<headers, lfree>>
  BY <1>1
<1>6. \A x \in DOMAIN headers : x <= mem \/ mem2 <= x
  BY <1>2, <1>4 DEF Linked, LinkOK
<1> HIDE DEF newsize, mem2
<1>7. ptr2 \in Nat /\ ptr2 - (mem + HEADER) = newsize
  BY <1>3, <1>4
<1>8. /\ holds' \in [DOMAIN holds' -> WANTED] /\ DOMAIN holds' = DOMAIN holds
      /\ holds'[mem] = n /\ \A h \in DOMAIN holds : h # mem => holds'[h] = holds[h]
  BY <1>2, <1>5 DEF Owned
\* Whoever comes next: the rest is one block.
<1>9. ASSUME NEW next \in DOMAIN headers, headers' = H!Split(headers, mem, ptr2, next),
             next - (ptr2 + HEADER) >= MIN_SIZE, ptr2 < mem2, next = MEM_SIZE \/ headers[next].used,
             \A x \in DOMAIN headers : mem < x /\ x < next => ~headers[x].used,
             lfree' \in DOMAIN headers', lfree' # MEM_SIZE => ~headers'[lfree'].used, lfree' <= ptr2,
             \A h \in DOMAIN headers : h # MEM_SIZE /\ (h <= mem \/ next <= h) /\ ~headers[h].used
                => lfree' <= h
      PROVE  HeapInv'
  <2> DEFINE g == H!Split(headers, mem, ptr2, next)
  <2>1. /\ Linked(g) /\ \A h \in Below(g) : h # mem => Apart(g, h)
        /\ DOMAIN g = {x \in DOMAIN headers : x <= mem \/ next <= x} \cup {ptr2}
        /\ g[mem].next = ptr2
        /\ mem \in Below(g) /\ mem # ptr2
        /\ \A h \in DOMAIN g : h # ptr2 => g[h].used = headers[h].used
        /\ DOMAIN holds \subseteq Below(g) /\ \A h \in Below(g) : g[h].used <=> h \in DOMAIN holds
        /\ \A h \in DOMAIN holds : h # mem => g[h].next - (h + HEADER) >= holds[h]
    <3> DEFINE new == ptr2
    <3>1. new \in Nat /\ new - (mem + HEADER) >= MIN_SIZE /\ new < headers[mem].next /\ mem # new
      BY <1>3, <1>4, <1>7, <1>9 DEF mem2
    <3>2. next - (new + HEADER) >= MIN_SIZE
      BY <1>9
    <3> HIDE DEF new
    <3> DEFINE w == H!Split(headers, mem, new, next)
    <3>3. /\ Linked(w) /\ \A h \in Below(w) : h # mem => Apart(w, h)
          /\ DOMAIN w = {x \in DOMAIN headers : x <= mem \/ next <= x} \cup {new}
          /\ w[mem].next = new /\ mem \in Below(w)
          /\ \A h \in DOMAIN w : h # new => w[h].used = headers[h].used
          /\ DOMAIN holds \subseteq Below(w) /\ \A h \in Below(w) : w[h].used <=> h \in DOMAIN holds
          /\ \A h \in DOMAIN holds : h # mem => w[h].next - (h + HEADER) >= holds[h]
      <4>1. Cut(w, headers, holds, mem, new, next)
        BY <1>2, <1>4, <1>9, <3>1, <3>2, SplitKeeps
      <4> HIDE DEF w
      <4>. QED BY <4>1 DEF Cut
    <3>. QED BY <3>1, <3>3 DEF new
  <2>2. headers' = g
    BY <1>9
  <2> HIDE DEF g, ptr2
  <2>3. \A h \in Below(g) : Apart(g, h)
    BY <1>4, <2>1 DEF Apart, Below
  <2>4. Lowest(g, lfree')
    <3> SUFFICES ASSUME NEW h \in Below(g), ~g[h].used PROVE lfree' <= h
      BY <1>9, <2>2 DEF Lowest
    <3>1. CASE h = ptr2
      BY <1>9, <3>1
    <3>2. CASE h # ptr2
      BY <1>9, <2>1, <3>2 DEF Below
    <3>. QED BY <3>1, <3>2
  <2>5. Owned(g, holds')
    <3>1. ASSUME NEW h \in DOMAIN holds' PROVE g[h].next - (h + HEADER) >= holds'[h]
      <4>1. CASE h = mem
        BY <1>3, <1>7, <1>8, <2>1, <4>1
      <4>2. CASE h # mem
        BY <1>8, <2>1, <3>1, <4>2
      <4>. QED BY <4>1, <4>2
    <3>. QED BY <1>8, <2>1, <3>1 DEF Owned
  <2>. QED BY <2>1, <2>2, <2>3, <2>4, <2>5 DEF HeapInv
<1>10. CASE /\ newsize < H!Room(mem) /\ ~headers[mem2].used
            /\ headers' = H!Split(headers, mem, ptr2, headers[mem2].next)
            /\ lfree' = H!Moved(lfree, ptr2, mem2)
  <2> DEFINE z == headers[mem2].next
  <2>1. /\ mem2 \in Below(headers) /\ z \in DOMAIN headers /\ z \in Nat /\ z > mem2
        /\ z - (mem2 + HEADER) >= MIN_SIZE /\ \A x \in DOMAIN headers : x <= mem2 \/ z <= x
        /\ z = MEM_SIZE \/ headers[z].used
    <3>1. mem2 \in Below(headers)
      BY <1>2, <1>4, <1>10 DEF Linked, Below
    <3>2. LinkOK(headers, mem2) /\ Apart(headers, mem2)
      BY <1>2, <3>1 DEF Linked
    <3>. QED BY <1>2, <1>10, <3>1, <3>2, PlacesOrdered DEF LinkOK, Apart
  <2> HIDE DEF z
  <2>2. ptr2 < mem2 /\ z - (ptr2 + HEADER) >= MIN_SIZE
    BY <1>3, <1>4, <1>10, <2>1
  <2>3. ASSUME NEW x \in DOMAIN headers, mem < x, x < z PROVE x = mem2
    BY <1>4, <1>6, <2>1, <2>3
  <2>4. headers' = H!Split(headers, mem, ptr2, z)
    BY <1>10 DEF z
  <2>5. /\ \A x \in DOMAIN headers : x <= mem \/ z <= x => x \in DOMAIN headers'
        /\ ptr2 \in DOMAIN headers' /\ ~headers'[ptr2].used
        /\ \A h \in DOMAIN headers' : h # ptr2 => headers'[h].used = headers[h].used
    <3> DEFINE new == ptr2
    <3>1. new \in Nat /\ new - (mem + HEADER) >= MIN_SIZE /\ z - (new + HEADER) >= MIN_SIZE
      BY <1>3, <1>7, <2>2
    <3> HIDE DEF new
    <3> DEFINE w == H!Split(headers, mem, new, z)
    <3>2. /\ DOMAIN w = {x \in DOMAIN headers : x <= mem \/ z <= x} \cup {new} /\ ~w[new].used
          /\ \A h \in DOMAIN w : h # new => w[h].used = headers[h].used
      <4>1. Linked(w) /\ Halved(w, headers, mem, new, z)
        BY <1>2, <1>4, <2>1, <3>1, SplitIs
      <4> HIDE DEF w
      <4>. QED BY <4>1 DEF Halved
    <3>3. headers' = w
      BY <2>4 DEF new
    <3> HIDE DEF w
    <3>. QED BY <3>2, <3>3 DEF new
  <2>6. lfree <= mem2 /\ lfree \in DOMAIN headers /\ (lfree = MEM_SIZE \/ ~headers[lfree].used)
    BY <1>2, <1>10, <2>1 DEF Lowest
  <2>7. CASE lfree = mem2
    <3>1. lfree' = ptr2
      BY <1>10, <2>7 DEF H!Moved
    <3>2. ASSUME NEW h \in DOMAIN headers, h # MEM_SIZE, ~headers[h].used PROVE lfree' <= h
      <4>1. lfree <= h
        BY <1>2, <3>2 DEF Lowest, Below
      <4>. QED BY <1>4, <1>7, <2>2, <2>7, <3>1, <3>2, <4>1
    <3> HIDE DEF ptr2
    <3>3. lfree' <= ptr2
      BY <1>7, <3>1
    <3>. QED BY <1>9, <2>1, <2>2, <2>3, <2>4, <2>5, <1>10, <3>1, <3>2, <3>3
  <2>8. CASE lfree # mem2
    <3>1. lfree' = lfree /\ lfree <= mem /\ lfree < ptr2
      BY <1>3, <1>4, <1>6, <1>10, <2>6, <2>8 DEF H!Moved
    <3>2. lfree \in DOMAIN headers' /\ lfree # ptr2 /\ (lfree # MEM_SIZE => ~headers'[lfree].used)
      BY <1>4, <1>7, <2>5, <2>6, <3>1
    <3>3. \A h \in DOMAIN headers : h # MEM_SIZE /\ ~headers[h].used => lfree' <= h
      BY <1>2, <3>1 DEF Lowest, Below
    <3>4. lfree' <= ptr2
      BY <1>4, <1>7, <3>1
    <3> HIDE DEF ptr2
    <3>. QED BY <1>9, <2>1, <2>2, <2>3, <2>4, <1>10, <3>1, <3>2, <3>3, <3>4
  <2>. QED BY <2>7, <2>8
<1>11. CASE /\ headers[mem2].used /\ newsize + HEADER + MIN_SIZE <= H!Room(mem)
            /\ headers' = H!Split(headers, mem, ptr2, mem2)
            /\ lfree' = IF ptr2 < lfree THEN ptr2 ELSE lfree
  <2>1. ptr2 < mem2 /\ mem2 - (ptr2 + HEADER) >= MIN_SIZE
    BY <1>3, <1>4, <1>11
  <2>2. ASSUME NEW x \in DOMAIN headers, mem < x, x < mem2 PROVE FALSE
    BY <1>4, <1>6, <2>2
  <2>3. /\ \A x \in DOMAIN headers : x \in DOMAIN headers'
        /\ ptr2 \in DOMAIN headers' /\ ~headers'[ptr2].used
        /\ \A h \in DOMAIN headers' : h # ptr2 => headers'[h].used = headers[h].used
    <3> DEFINE new == ptr2
    <3>1. new \in Nat /\ new - (mem + HEADER) >= MIN_SIZE /\ mem2 - (new + HEADER) >= MIN_SIZE
      BY <1>3, <1>7, <2>1
    <3> HIDE DEF new
    <3> DEFINE w == H!Split(headers, mem, new, mem2)
    <3>2. /\ DOMAIN w = {x \in DOMAIN headers : x <= mem \/ mem2 <= x} \cup {new} /\ ~w[new].used
          /\ \A h \in DOMAIN w : h # new => w[h].used = headers[h].used
      <4>1. Linked(w) /\ Halved(w, headers, mem, new, mem2)
        BY <1>2, <1>4, <3>1, SplitIs
      <4> HIDE DEF w
      <4>. QED BY <4>1 DEF Halved
    <3>3. headers' = w
      BY <1>11 DEF new
    <3> HIDE DEF w
    <3>. QED BY <1>6, <3>2, <3>3 DEF new
  <2>4. lfree \in DOMAIN headers /\ (lfree = MEM_SIZE \/ ~headers[lfree].used)
    BY <1>2 DEF Lowest
  <2>5. lfree' \in DOMAIN headers' /\ lfree' <= ptr2 /\ lfree' <= lfree /\ lfree' \in Nat
    BY <1>4, <1>7, <1>11, <2>3, <2>4
  <2>6. lfree' # MEM_SIZE => ~headers'[lfree'].used
    BY <1>4, <1>7, <1>11, <2>3, <2>4
  <2>7. ASSUME NEW h \in DOMAIN headers, h # MEM_SIZE, ~headers[h].used PROVE lfree' <= h
    <3>1. lfree <= h
      BY <1>2, <2>7 DEF Lowest, Below
    <3>. QED BY <1>4, <2>5, <3>1
  <2> HIDE DEF ptr2
  <2>. QED BY <1>4, <1>9, <1>11, <2>1, <2>2, <2>5, <2>6, <2>7
<1>12. CASE UNCHANGED <<headers, lfree>>
  <2>1. ASSUME NEW h \in DOMAIN holds' PROVE headers[h].next - (h + HEADER) >= holds'[h]
    <3>1. CASE h = mem
      <4>1. mem2 - (mem + HEADER) >= newsize
        BY <1>3, <1>4, <1>5
      <4>2. headers[h].next = mem2 /\ holds'[h] = n
        BY <1>8, <3>1 DEF mem2
      <4>. QED BY <1>3, <1>4, <3>1, <4>1, <4>2
    <3>2. CASE h # mem
      BY <1>2, <1>8, <2>1, <3>2 DEF Owned
    <3>. QED BY <3>1, <3>2
  <2>2. Owned(headers, holds')
    BY <1>2, <1>8, <2>1 DEF Owned
  <2>. QED BY <1>2, <1>12, <2>2 DEF HeapInv
<1>. QED BY <1>5, <1>10, <1>11, <1>12

\* What the search leaves: the block it took is used, and it starts there no
\* more.
Takes(r, mem, n) ==
    /\ headers' = [r EXCEPT ![mem].used = TRUE]
    /\ lfree' = IF mem = lfree
                THEN H!Min({h \in DOMAIN headers' : h > mem /\ (h = MEM_SIZE \/ ~headers'[h].used)})
                ELSE lfree
    /\ holds' = [h \in DOMAIN holds \cup {mem} |-> IF h = mem THEN n ELSE holds[h]]

\* The first block that fits is taken, cut to its size if it was larger.
LEMMA TakeKeeps ==
    ASSUME NEW r, Linked(r), NEW mem \in Below(r), ~r[mem].used, Lowest(r, lfree), Owned(r, holds),
           \A h \in Below(r) : h # mem => Apart(r, h),
           NEW n \in WANTED, r[mem].next - (mem + HEADER) >= n, Takes(r, mem, n)
    PROVE  HeapInv'
<1> DEFINE w == [r EXCEPT ![mem].used = TRUE]
<1>1. /\ DOMAIN w = DOMAIN r /\ w[mem].used /\ w \in [DOMAIN w -> Blocks]
      /\ \A h \in DOMAIN w : /\ w[h].next = r[h].next /\ w[h].prev = r[h].prev
                             /\ h # mem => w[h].used = r[h].used
  BY DEF Linked, Blocks, Below
<1>2. headers' = w
  BY DEF Takes
<1> HIDE DEF w
<1>3. Linked(w)
  <2>1. mem # MEM_SIZE
    BY DEF Below
  <2>2. ASSUME NEW h \in Below(w) PROVE LinkOK(w, h)
    <3>1. h \in Below(r) /\ LinkOK(r, h)
      BY <1>1 DEF Below, Linked
    <3>. QED BY <1>1, <3>1 DEF LinkOK, Below
  <2>. QED BY <1>1, <2>1, <2>2 DEF Linked, Below
<1>4. /\ mem \in Below(w) /\ mem \in Nat /\ mem < MEM_SIZE /\ lfree \in Nat
      /\ \A h \in DOMAIN w : h \in Nat /\ h <= MEM_SIZE
  <2>1. mem \in DOMAIN w /\ mem # MEM_SIZE /\ lfree \in DOMAIN w
    BY <1>1 DEF Below, Lowest
  <2>. QED BY <1>3, <2>1, PlacesOrdered DEF Below
<1>5. Lowest(w, lfree')
  <2>1. lfree <= mem
    BY DEF Lowest
  <2>2. CASE mem = lfree
    <3> DEFINE Z == {h \in DOMAIN w : h > mem /\ (h = MEM_SIZE \/ ~w[h].used)}
               m == CHOOSE x \in Z : \A y \in Z : x <= y
    <3>1. MEM_SIZE \in Z /\ Z \subseteq Nat
      BY <1>3, <1>4 DEF Linked
    <3>2. m \in Z /\ \A y \in Z : m <= y
      <4> HIDE DEF Z
      <4>. QED BY <3>1, LeastIs
    <3>3. lfree' = m
      <4>1. lfree' = H!Min(Z)
        BY <1>2, <2>2 DEF Takes
      <4> HIDE DEF Z
      <4>. QED BY <4>1 DEF H!Min
    <3> HIDE DEF m
    <3>4. \A h \in Below(w) : ~w[h].used => h \in Z
      <4> SUFFICES ASSUME NEW h \in Below(w), ~w[h].used PROVE h > mem
        BY DEF Below
      <4>1. h # mem /\ h \in Below(r) /\ ~r[h].used /\ h \in Nat
        BY <1>1, <1>4 DEF Below
      <4>. QED BY <1>4, <2>2, <4>1 DEF Lowest
    <3>. QED BY <3>2, <3>3, <3>4 DEF Lowest
  <2>3. CASE mem # lfree
    <3>1. lfree' = lfree /\ lfree \in DOMAIN w /\ (lfree = MEM_SIZE \/ ~w[lfree].used)
      BY <1>1, <2>3 DEF Lowest, Takes
    <3>2. ASSUME NEW h \in Below(w), ~w[h].used PROVE lfree <= h
      <4>1. h \in Below(r) /\ ~r[h].used
        BY <1>1, <3>2 DEF Below
      <4>. QED BY <4>1 DEF Lowest
    <3>. QED BY <3>1, <3>2 DEF Lowest
  <2>. QED BY <2>2, <2>3
<1>6. /\ DOMAIN holds' = DOMAIN holds \cup {mem} /\ holds'[mem] = n
      /\ holds' \in [DOMAIN holds' -> WANTED]
      /\ \A h \in DOMAIN holds : h # mem => holds'[h] = holds[h]
  BY DEF Owned, Takes
<1>7. Owned(w, holds')
  <2>1. DOMAIN holds' \subseteq Below(w)
    BY <1>1, <1>4, <1>6 DEF Owned, Below
  <2>2. ASSUME NEW h \in Below(w) PROVE w[h].used <=> h \in DOMAIN holds'
    <3>1. h \in DOMAIN w /\ h \in Below(r)
      BY <1>1 DEF Below
    <3>. QED BY <1>1, <1>6, <3>1 DEF Owned
  <2>3. ASSUME NEW h \in DOMAIN holds' PROVE w[h].next - (h + HEADER) >= holds'[h]
    <3>1. h \in DOMAIN w
      BY <2>1 DEF Below
    <3>2. CASE h = mem
      BY <1>1, <1>6, <3>1, <3>2
    <3>3. CASE h # mem
      BY <1>1, <1>6, <3>1, <3>3 DEF Owned
    <3>. QED BY <3>2, <3>3
  <2>. QED BY <1>6, <2>1, <2>2, <2>3 DEF Owned
<1>8. ASSUME NEW h \in Below(w) PROVE Apart(w, h)
  <2>1. CASE h = mem
    BY <1>1, <2>1 DEF Apart
  <2>2. CASE h # mem
    <3>1. h \in Below(r) /\ h \in DOMAIN w /\ w[h].next \in DOMAIN w
      BY <1>1, <1>3, PlacesOrdered DEF Below
    <3>2. Apart(r, h)
      BY <2>2, <3>1
    <3>. QED BY <1>1, <2>2, <3>1, <3>2 DEF Apart
  <2>. QED BY <2>1, <2>2
<1>. QED BY <1>2, <1>3, <1>5, <1>7, <1>8 DEF HeapInv

LEMMA MallocKeeps == ASSUME HeapInv, H!mem_malloc PROVE HeapInv'
<1>1. PICK n \in WANTED :
        LET size == H!Reserved(n)
            mem == H!Min(H!Found(size))
            r == IF H!Room(mem) >= size + HEADER + MIN_SIZE
                 THEN H!Split(headers, mem, mem + HEADER + size, headers[mem].next) ELSE headers
        IN H!Found(size) # {} /\ Takes(r, mem, n)
  BY DEF H!mem_malloc, H!ram_end, Takes
<1> DEFINE size == H!Reserved(n)
           mem == H!Min(H!Found(size))
           next == headers[mem].next
           new == mem + HEADER + size
           cut == H!Room(mem) >= size + HEADER + MIN_SIZE
           r == IF cut THEN H!Split(headers, mem, new, next) ELSE headers
<1>2. H!Found(size) # {} /\ Takes(r, mem, n)
  BY <1>1
<1>3. /\ Linked(headers) /\ Lowest(headers, lfree) /\ Owned(headers, holds)
      /\ \A h \in Below(headers) : Apart(headers, h)
  BY DEF HeapInv
<1>4. size \in Nat /\ size >= n /\ size >= MIN_SIZE /\ n \in Nat
  BY Reserve
<1> HIDE DEF size
<1>5. mem \in Below(headers) /\ ~headers[mem].used /\ H!Room(mem) >= size
  <2> DEFINE Z == H!Found(size)
             m == CHOOSE x \in Z : \A y \in Z : x <= y
  <2>1. Z \subseteq Below(headers) /\ \A h \in Z : ~headers[h].used /\ H!Room(h) >= size
    BY DEF H!Found, H!Headers, H!ram_end, Below
  <2>2. Below(headers) \subseteq Nat
    BY <1>3, PlacesOrdered DEF Below
  <2>3. Z # {}
    BY <1>2
  <2>4. mem = m
    BY DEF H!Min
  <2>5. m \in Z
    <3> HIDE DEF Z
    <3>. QED BY <2>1, <2>2, <2>3, LeastIs
  <2> HIDE DEF m, Z, mem
  <2>. QED BY <2>1, <2>4, <2>5
<1> HIDE DEF mem
<1>6. /\ mem \in Nat /\ next \in Nat /\ next > mem /\ next \in DOMAIN headers /\ next <= MEM_SIZE
      /\ H!Room(mem) = next - (mem + HEADER) /\ mem \in DOMAIN headers
      /\ \A h \in DOMAIN headers : h \in Nat
  BY <1>3, <1>5, PlacesOrdered DEF H!Room, Below
<1>7. next = MEM_SIZE \/ headers[next].used
  BY <1>3, <1>5 DEF Apart
<1>8. lfree <= mem /\ lfree \in Nat /\ lfree \in DOMAIN headers
  BY <1>3, <1>5, <1>6 DEF Lowest
<1>9. CASE cut
  <2>1. new \in Nat /\ new - (mem + HEADER) = size /\ next - (new + HEADER) >= MIN_SIZE /\ new < next
    BY <1>4, <1>6, <1>9
  <2>2. new - (mem + HEADER) >= MIN_SIZE
    BY <1>4, <2>1
  <2>3. \A x \in DOMAIN headers : x <= mem \/ next <= x
    BY <1>3, <1>5 DEF Linked, LinkOK
  <2>4. \A x \in DOMAIN headers : mem < x /\ x < next => ~headers[x].used
    BY <1>6, <2>3
  <2> DEFINE g == H!Split(headers, mem, new, next)
  <2> HIDE DEF new
  <2>5. new < headers[mem].next
    BY <2>1
  <2>6. next \in DOMAIN headers
    BY <1>6
  <2> HIDE DEF next, cut
  <2>7. /\ Linked(g) /\ \A h \in Below(g) : h # mem => Apart(g, h)
        /\ DOMAIN g = {x \in DOMAIN headers : x <= mem \/ next <= x} \cup {new}
        /\ new \in Below(g) /\ ~g[new].used /\ g[mem].next = new /\ mem < new
        /\ mem \in Below(g) /\ new \notin DOMAIN headers
        /\ \A h \in DOMAIN g : h # new => g[h].used = headers[h].used
        /\ DOMAIN holds \subseteq Below(g) /\ \A h \in Below(g) : g[h].used <=> h \in DOMAIN holds
        /\ \A h \in DOMAIN holds : h # mem => g[h].next - (h + HEADER) >= holds[h]
    <3>1. Cut(g, headers, holds, mem, new, next)
      BY <1>3, <1>5, <1>7, <2>1, <2>2, <2>4, <2>5, <2>6, SplitKeeps
    <3> HIDE DEF g
    <3>. QED BY <3>1 DEF Cut
  <2>8. r = g
    BY <1>9
  <2> HIDE DEF g, r
  <2>9. Lowest(g, lfree)
    <3>1. lfree \in DOMAIN g /\ lfree # new /\ (lfree = MEM_SIZE \/ ~g[lfree].used)
      BY <1>3, <1>6, <1>8, <2>7 DEF Lowest
    <3>2. ASSUME NEW h \in Below(g), ~g[h].used PROVE lfree <= h
      <4>1. CASE h = new
        BY <1>6, <1>8, <2>1, <2>7, <4>1
      <4>2. CASE h # new
        <5>1. h \in Below(headers) /\ ~headers[h].used
          BY <2>7, <3>2, <4>2 DEF Below
        <5>. QED BY <1>3, <5>1 DEF Lowest
      <4>. QED BY <4>1, <4>2
    <3>. QED BY <3>1, <3>2 DEF Lowest
  <2>10. ~g[mem].used /\ g[mem].next - (mem + HEADER) >= n
    <3>1. mem # new
      BY <1>6, <2>7
    <3>2. new - (mem + HEADER) >= n
      BY <1>4, <2>1
    <3>. QED BY <1>5, <2>7, <3>1, <3>2 DEF Below
  <2>11. mem \notin DOMAIN holds
    BY <2>7, <2>10
  <2>12. Owned(g, holds)
    BY <1>3, <2>7, <2>11 DEF Owned
  <2>13. Takes(g, mem, n)
    BY <1>2, <2>8
  <2>14. /\ Linked(g) /\ mem \in Below(g) /\ ~g[mem].used /\ Lowest(g, lfree) /\ Owned(g, holds)
         /\ \A h \in Below(g) : h # mem => Apart(g, h)
         /\ n \in WANTED /\ g[mem].next - (mem + HEADER) >= n
    BY <2>7, <2>9, <2>10, <2>12
  <2>. QED BY <2>13, <2>14, TakeKeeps
<1>10. CASE ~cut
  <2>1. r = headers
    BY <1>10
  <2> HIDE DEF r, cut
  <2>2. headers[mem].next - (mem + HEADER) >= n
    BY <1>4, <1>5, <1>6
  <2>. QED BY <1>2, <1>3, <1>5, <2>1, <2>2, TakeKeeps
<1>. QED BY <1>9, <1>10

LEMMA HeapInitially == H!Init => HeapInv
<1> SUFFICES ASSUME H!Init PROVE HeapInv
  OBVIOUS
<1>0. /\ headers = [h \in {0, MEM_SIZE} |-> [next |-> MEM_SIZE, prev |-> h, used |-> h = MEM_SIZE]]
      /\ holds = [h \in {} |-> 0] /\ lfree = 0 /\ MEM_SIZE # 0
  BY DEF H!Init, H!ram_end
<1>1. /\ DOMAIN headers = {0, MEM_SIZE} /\ DOMAIN holds = {} /\ lfree = 0 /\ MEM_SIZE # 0
      /\ headers[0].next = MEM_SIZE /\ headers[0].prev = 0 /\ ~headers[0].used /\ headers[MEM_SIZE].used
  BY <1>0
<1>2. headers \in [DOMAIN headers -> Blocks]
  BY <1>0 DEF Blocks
<1>3. Below(headers) = {0}
  BY <1>1 DEF Below
<1>4. LinkOK(headers, 0)
  BY <1>1 DEF LinkOK
<1>5. Linked(headers)
  BY <1>1, <1>2, <1>3, <1>4 DEF Linked
<1>6. Lowest(headers, lfree)
  BY <1>1, <1>3 DEF Lowest
<1>7. Owned(headers, holds)
  BY <1>1, <1>3 DEF Owned
<1>8. Apart(headers, 0)
  BY <1>1 DEF Apart
<1>. QED BY <1>3, <1>5, <1>6, <1>7, <1>8 DEF HeapInv

LEMMA HeapInductive == HeapInv /\ [H!Next]_heapVars => HeapInv'
<1> SUFFICES ASSUME HeapInv, [H!Next]_heapVars PROVE HeapInv'
  OBVIOUS
<1>1. CASE UNCHANGED heapVars
  BY <1>1 DEF heapVars, HeapInv
<1>2. CASE H!Next
  BY <1>2, FreeKeeps, TrimKeeps, MallocKeeps DEF H!Next
<1>. QED BY <1>1, <1>2

\* What the invariant says of the heap.
LEMMA BlocksAreSound == HeapInv => H!TypeOK /\ H!HeapSound
<1> SUFFICES ASSUME HeapInv PROVE H!TypeOK /\ H!HeapSound
  OBVIOUS
<1>0. /\ Linked(headers) /\ Lowest(headers, lfree) /\ Owned(headers, holds)
      /\ \A h \in Below(headers) : Apart(headers, h)
  BY DEF HeapInv
<1>1. H!Headers = Below(headers) /\ \A h : H!Room(h) = headers[h].next - (h + HEADER)
  BY DEF H!Headers, H!ram_end, Below, H!Room
<1>2. H!TypeOK
  BY <1>0, <1>1 DEF H!TypeOK, H!ram_end, Linked, Lowest, Owned, Blocks
<1>3. H!Chained
  BY <1>0, <1>1 DEF H!Chained, H!ram_end, Linked, LinkOK
<1>4. H!LowestFree
  BY <1>0, <1>1 DEF H!LowestFree, H!ram_end, Lowest
<1>5. H!Plugged
  BY <1>0, <1>1 DEF H!Plugged, H!ram_end, Apart
<1>6. H!Kept
  BY <1>0, <1>1 DEF H!Kept, Owned
<1>7. H!Served
  <2> SUFFICES ASSUME NEW n \in WANTED, NEW h \in H!Headers, ~headers[h].used, H!Room(h) >= H!Reserved(n)
               PROVE  h \in H!Found(H!Reserved(n))
    BY DEF H!Served
  <2> DEFINE size == H!Reserved(n)
  <2>1. size \in Nat
    BY Reserve
  <2>2. h \in Below(headers) /\ lfree <= h
    BY <1>0, <1>1 DEF Lowest
  <2>3. h \in Nat /\ headers[h].next \in Nat /\ headers[h].next <= MEM_SIZE
    BY <1>0, <2>2, PlacesOrdered DEF Below
  <2> HIDE DEF size
  <2>4. h < MEM_SIZE - size
    BY <1>1, <2>1, <2>3 DEF size
  <2>. QED BY <2>2, <2>4 DEF H!Found, size
<1>. QED BY <1>2, <1>3, <1>4, <1>5, <1>6, <1>7 DEF H!HeapSound

LEMMA HeapAlone == [MCNext]_mcVars => [H!Next]_heapVars
  BY DEF MCNext, Others, mcVars

\* The blocks of the heap cover it and can be walked both ways, no two that are
\* not used lie side by side, the search starts at the lowest of them, who
\* holds a block has the room asked for, and what fits is not refused (mem.c).
\* It is the heap's half of MemorySound.
THEOREM HeapIsSound == MCSpec => [](part = "heap" => H!TypeOK /\ H!HeapSound)
<1>1. MCInit => HeapInv
  BY HeapInitially DEF MCInit
<1>2. HeapInv /\ [MCNext]_mcVars => HeapInv'
  BY HeapAlone, HeapInductive
<1>3. HeapInv => (part = "heap" => H!TypeOK /\ H!HeapSound)
  BY BlocksAreSound
<1>. QED BY <1>1, <1>2, <1>3, PTL DEF MCSpec

=============================================================================
