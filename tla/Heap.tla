-------------------------------- MODULE Heap --------------------------------
(***************************************************************************)
(* lwIP's heap (core/mem.c): a chain of blocks, each with a header that says *)
(* where the next and the previous begin, and lfree, the lowest that is not  *)
(* used, from where the search starts.  Every call is under the heap's lock, *)
(* so each is one step.                                                      *)
(***************************************************************************)
EXTENDS Integers, FiniteSets, FiniteSetsExt

CONSTANTS
    MEM_SIZE,           \* the heap, aligned
    HEADER,             \* SIZEOF_STRUCT_MEM
    MIN_SIZE,           \* the least a block holds, aligned
    MEM_ALIGNMENT,
    WANTED              \* sizes callers ask for

HeapAssumption ==
    /\ MEM_ALIGNMENT \in Nat \ {0} /\ HEADER \in Nat \ {0} /\ MIN_SIZE \in Nat \ {0}
    /\ MEM_SIZE \in Nat /\ MEM_SIZE >= HEADER + MIN_SIZE
    /\ WANTED \subseteq Nat \ {0}

VARIABLES
    ram,                \* the headers, by where they are; the last is ram_end
    lfree,
    holds               \* what callers hold: their blocks, and the sizes they asked for

heapVars == <<ram, lfree, holds>>

ram_end == MEM_SIZE
Headers == DOMAIN ram \ {ram_end}
\* What a block can hold, and what is reserved for a request.
Room(h) == ram[h].next - (h + HEADER)
Rounded(n) == ((n + MEM_ALIGNMENT - 1) \div MEM_ALIGNMENT) * MEM_ALIGNMENT
Reserved(n) == IF Rounded(n) < MIN_SIZE THEN MIN_SIZE ELSE Rounded(n)

\* mem_init.
Init ==
    /\ ram = [h \in {0, ram_end} |-> [next |-> ram_end, prev |-> h, used |-> h = ram_end]]
    /\ lfree = 0
    /\ holds = [h \in {} |-> 0]

-----------------------------------------------------------------------------
\* The block high becomes a part of the one below it.
Merged(r, low, high) ==
    [h \in DOMAIN r \ {high} |->
        [next |-> IF h = low THEN r[high].next ELSE r[h].next,
         prev |-> IF h = r[high].next THEN low ELSE r[h].prev,
         used |-> r[h].used]]
Moved(free, low, high) == IF free = high THEN low ELSE free
\* A new unused block at h, behind low and up to next.  The end does not learn
\* of it.
Split(r, low, new, next) ==
    [h \in {x \in DOMAIN r : x <= low \/ next <= x} \cup {new} |->
        IF h = new THEN [next |-> next, prev |-> low, used |-> FALSE]
        ELSE [next |-> IF h = low THEN new ELSE r[h].next,
              prev |-> IF h = next /\ h # ram_end THEN new ELSE r[h].prev,
              used |-> r[h].used]]

\* With the block behind, then with the one before.  A mutant: only behind.
plug_holes_Ahead(r, free, mem) ==
    LET nmem == r[mem].next
        ahead == nmem # mem /\ ~r[nmem].used /\ nmem # ram_end
    IN /\ ram' = IF ahead THEN Merged(r, mem, nmem) ELSE r
       /\ lfree' = IF ahead THEN Moved(free, mem, nmem) ELSE free
plug_holes(r, free, mem) ==
    LET nmem == r[mem].next
        ahead == nmem # mem /\ ~r[nmem].used /\ nmem # ram_end
        r1 == IF ahead THEN Merged(r, mem, nmem) ELSE r
        f1 == IF ahead THEN Moved(free, mem, nmem) ELSE free
        pmem == r1[mem].prev
        behind == pmem # mem /\ ~r1[pmem].used
    IN /\ ram' = IF behind THEN Merged(r1, pmem, mem) ELSE r1
       /\ lfree' = IF behind THEN Moved(f1, pmem, mem) ELSE f1

mem_free ==
    \E mem \in DOMAIN holds :
        /\ plug_holes([ram EXCEPT ![mem].used = FALSE], IF mem < lfree THEN mem ELSE lfree, mem)
        /\ holds' = [h \in DOMAIN holds \ {mem} |-> holds[h]]

\* Give back the end of a block.  The room before the next block goes to it if
\* it is not used, or becomes a block if it can hold one.  A mutant forgets that
\* this may be the lowest.
mem_trim_High ==
    \E mem \in DOMAIN holds, n \in WANTED :
        LET newsize == Reserved(n)
            mem2 == ram[mem].next
            ptr2 == mem + HEADER + newsize
        IN /\ newsize <= Room(mem)
           /\ holds' = [holds EXCEPT ![mem] = n]
           /\ IF newsize < Room(mem) /\ (~ram[mem2].used \/ newsize + HEADER + MIN_SIZE <= Room(mem))
              THEN ram' = Split(ram, mem, ptr2, IF ram[mem2].used THEN mem2 ELSE ram[mem2].next) /\ lfree' = Moved(lfree, ptr2, mem2)
              ELSE UNCHANGED <<ram, lfree>>
mem_trim ==
    \E mem \in DOMAIN holds, n \in WANTED :
        LET newsize == Reserved(n)
            mem2 == ram[mem].next
            ptr2 == mem + HEADER + newsize
        IN /\ newsize <= Room(mem)
           /\ holds' = [holds EXCEPT ![mem] = n]
           /\ \/ /\ newsize < Room(mem) /\ ~ram[mem2].used
                 /\ ram' = Split(ram, mem, ptr2, ram[mem2].next)
                 /\ lfree' = Moved(lfree, ptr2, mem2)
              \/ /\ ram[mem2].used /\ newsize + HEADER + MIN_SIZE <= Room(mem)
                 /\ ram' = Split(ram, mem, ptr2, mem2)
                 /\ lfree' = IF ptr2 < lfree THEN ptr2 ELSE lfree
              \/ /\ newsize = Room(mem) \/ (ram[mem2].used /\ newsize + HEADER + MIN_SIZE > Room(mem))
                 /\ UNCHANGED <<ram, lfree>>

\* The blocks the search from lfree finds fitting: headers are chained in the
\* order of their places.
Found(size) == {h \in Headers : lfree <= h /\ h < MEM_SIZE - size /\ ~ram[h].used /\ Room(h) >= size}
\* The first gets used, and what is left becomes a block if it can hold one;
\* lfree goes on to the next that is not used, or to the end.
\* A mutant splits even if nothing is left for data.
mem_malloc_Tight ==
    \E n \in WANTED :
        LET size == Reserved(n)
            mem == Min(Found(size))
            r == IF Room(mem) >= size + HEADER THEN Split(ram, mem, mem + HEADER + size, ram[mem].next) ELSE ram
        IN /\ Found(size) # {}
           /\ ram' = [r EXCEPT ![mem].used = TRUE]
           /\ lfree' = IF mem = lfree THEN Min({h \in DOMAIN ram' : h > mem /\ (h = ram_end \/ ~ram'[h].used)}) ELSE lfree
           /\ holds' = [h \in DOMAIN holds \cup {mem} |-> IF h = mem THEN n ELSE holds[h]]
mem_malloc ==
    \E n \in WANTED :
        LET size == Reserved(n)
            mem == Min(Found(size))
            r == IF Room(mem) >= size + HEADER + MIN_SIZE
                 THEN Split(ram, mem, mem + HEADER + size, ram[mem].next) ELSE ram
        IN /\ Found(size) # {}
           /\ ram' = [r EXCEPT ![mem].used = TRUE]
           /\ lfree' = IF mem = lfree THEN Min({h \in DOMAIN ram' : h > mem /\ (h = ram_end \/ ~ram'[h].used)}) ELSE lfree
           /\ holds' = [h \in DOMAIN holds \cup {mem} |-> IF h = mem THEN n ELSE holds[h]]

Next == mem_free \/ mem_trim \/ mem_malloc

Spec == Init /\ [][Next]_heapVars

-----------------------------------------------------------------------------
\* Headers and what callers hold are of their types.
TypeOK ==
    /\ ram_end \in DOMAIN ram /\ DOMAIN ram \subseteq 0..MEM_SIZE
    /\ ram \in [DOMAIN ram -> [next : 0..MEM_SIZE, prev : 0..MEM_SIZE, used : BOOLEAN]]
    /\ lfree \in DOMAIN ram
    /\ DOMAIN holds \subseteq Headers /\ holds \in [DOMAIN holds -> WANTED]

\* The blocks cover the heap without gaps or overlaps, and can be walked both
\* ways.
Chained ==
    /\ 0 \in Headers /\ ram[0].prev = 0
    /\ \A h \in Headers :
         /\ ram[h].next \in DOMAIN ram /\ Room(h) >= MIN_SIZE
         /\ \A x \in DOMAIN ram : x <= h \/ ram[h].next <= x
         /\ ram[h].next # ram_end => ram[ram[h].next].prev = h

\* lfree is the lowest block that is not used, or the end.
LowestFree ==
    /\ lfree = ram_end \/ ~ram[lfree].used
    /\ \A h \in Headers : ~ram[h].used => lfree <= h

\* No two blocks side by side are unused: what was given back in any order is
\* one block again.
Plugged == \A h \in Headers : (~ram[h].used /\ ram[h].next # ram_end) => ram[ram[h].next].used

\* The blocks in use are those of callers, who have room for what they asked.
Kept ==
    /\ \A h \in Headers : ram[h].used <=> h \in DOMAIN holds
    /\ \A h \in DOMAIN holds : Room(h) >= holds[h]

\* A request is refused only if no block can take it.
Served == \A n \in WANTED : (\E h \in Headers : ~ram[h].used /\ Room(h) >= Reserved(n)) => Found(Reserved(n)) # {}

\* The properties of the heap.
HeapSound == Chained /\ LowestFree /\ Plugged /\ Kept /\ Served

=============================================================================
