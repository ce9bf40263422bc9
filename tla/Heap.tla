-------------------------------- MODULE Heap --------------------------------
(***************************************************************************)
(* The kernel heap (kheap.c), the ordered list of its holes (ordlist.c)    *)
(* and the checks that accompany every call (heapwatch.c).  Memory is a    *)
(* row of units; a header takes HeaderSize of them, a page PageSize.       *)
(*                                                                         *)
(* The functions work on a heap as a record: hdr, the headers in memory by *)
(* address, and index, the holes in the order of the list.  A header that  *)
(* a merge or a move leaves behind is taken out of hdr, and an address     *)
(* outside hdr holds the data of somebody: no check mistakes it for a      *)
(* header.                                                                 *)
(*                                                                         *)
(* A definition headed "variant" has a fault that the code does not have.  *)
(***************************************************************************)
EXTENDS Integers, Sequences, FiniteSets, SequencesExt

CONSTANTS
    HeaderSize,     \* sizeof(hheader_t)
    PageSize,       \* 0x1000
    HeapStart,      \* heap->start
    HeapSize,       \* heap->size
    MaxRecs,        \* the records of heapwatch_t
    AllocSizes,     \* the sizes callers of kmalloc ask for
    AlignedSizes    \* the sizes callers of kmalloc_a ask for
ASSUME SizesAssumption ==
    /\ HeaderSize \in Nat \ {0} /\ PageSize \in Nat /\ PageSize > 2 * HeaderSize
    /\ HeapStart \in Nat \ {0} /\ HeapStart % PageSize = 0
    /\ HeapSize \in Nat \ {0} /\ MaxRecs \in Nat
    /\ AllocSizes \cup AlignedSizes \subseteq Nat \ {0}

VARIABLES
    heap,       \* [hdr, index]
    live,       \* the records of heapwatch_t that are in use
    halted      \* what stopped the kernel, or the model
vars == << heap, live, halted >>

NULL == 0
RUNNING == "running"
HeapEnd == HeapStart + HeapSize
Addresses == HeapStart .. HeapEnd + HeaderSize - 1

Header(is_hole, size, prev) == [is_hole |-> is_hole, size |-> size, prev |-> prev]

---------------------------------------------------------------------------
(* The list of holes, by size. *)

\* From the end of the list past every hole that is larger.
ordlist_insert(hdr, index, hole) ==
    LET idx == SelectLastInSeq(index, LAMBDA h : hdr[h].size <= hdr[hole].size)
    IN  InsertAt(index, idx + 1, hole)

ordlist_remove(index, hole) == RemoveFirst(index, hole)

---------------------------------------------------------------------------
(* Headers. *)

hheader_next(hdr, a) == a + HeaderSize + hdr[a].size
hheader_isvalid(a) == a < HeapEnd

\* The first address from a on whose data, after a header, begins a page.
alignment_o(a) == a + ((PageSize - HeaderSize - a) % PageSize)

\* hdr with the header at a, if there is one, pointing back to prev.
LinkBack(hdr, a, prev) ==
    IF hheader_isvalid(a) /\ a \in DOMAIN hdr THEN [hdr EXCEPT ![a].prev = prev] ELSE hdr

Without(hdr, a) == [b \in DOMAIN hdr \ {a} |-> hdr[b]]
With(hdr, a, header) == [b \in DOMAIN hdr \cup {a} |-> IF b = a THEN header ELSE hdr[b]]

\* The hole h moves up to a, and the gap below it becomes a hole of its own.
heap_low_split(m, h, a) ==
    LET old == m.hdr[h]
        low == With(m.hdr, h, Header(TRUE, a - h - HeaderSize, old.prev))
        hdr == With(low, a, Header(FALSE, old.size - (a - h), h))
    IN  [hdr |-> hdr, index |-> ordlist_insert(hdr, m.index, h)]

\* The hole h moves up to a, and the gap is too small for a header: the block
\* below, if there is one, gets it.  The hole does not become smaller.
AbsorbGap(m, h, a) ==
    LET old == m.hdr[h]
        moved == With(IF a = h THEN m.hdr ELSE Without(m.hdr, h), a,
                      Header(FALSE, old.size, IF old.prev = NULL THEN 1 ELSE old.prev))
    IN  [hdr |-> IF old.prev \in DOMAIN moved
                 THEN [moved EXCEPT ![old.prev].size = @ + (a - h)] ELSE moved,
         index |-> m.index]

\* The variant that does not tell the next block of its new neighbour.
heap_high_split_unlinked(m, a, size) ==
    LET hole == a + HeaderSize + size
        hdr == With([m.hdr EXCEPT ![a].size = size], hole,
                    Header(TRUE, hheader_next(m.hdr, a) - hole - HeaderSize, a))
    IN  [hdr |-> hdr, index |-> ordlist_insert(hdr, m.index, hole)]

\* The block at a keeps size units, and what is above them becomes a hole.
heap_high_split(m, a, size) ==
    LET next == hheader_next(m.hdr, a)
        hole == a + HeaderSize + size
        cut == With([m.hdr EXCEPT ![a].size = size], hole,
                    Header(TRUE, next - hole - HeaderSize, a))
        hdr == LinkBack(cut, next, hole)
    IN  [hdr |-> hdr, index |-> ordlist_insert(hdr, m.index, hole)]

\* The variant that leaves the hole it takes in on the list.
heap_merge_listed(m, hole) ==
    LET next == hheader_next(m.hdr, hole)
    IN  IF hheader_isvalid(next) /\ m.hdr[next].is_hole
        THEN [hdr |-> Without([LinkBack(m.hdr, hheader_next(m.hdr, next), hole) EXCEPT
                                   ![hole].size = @ + m.hdr[next].size + HeaderSize], next),
              index |-> m.index]
        ELSE m

\* The hole takes in the next one.  Its place in the list stays.
heap_merge(m, hole) ==
    LET next == hheader_next(m.hdr, hole)
        linked == LinkBack(m.hdr, hheader_next(m.hdr, next), hole)
    IN  IF hheader_isvalid(next) /\ next \in DOMAIN m.hdr /\ m.hdr[next].is_hole
        THEN [hdr |-> Without([linked EXCEPT ![hole].size =
                                   @ + m.hdr[next].size + HeaderSize], next),
              index |-> ordlist_remove(m.index, next)]
        ELSE m

---------------------------------------------------------------------------
(* heap_check: the walk from the start of the heap. *)

\* The headers the walk meets.
Walk(hdr) ==
    LET from[a \in Addresses] ==
            IF a \in DOMAIN hdr /\ hheader_isvalid(hheader_next(hdr, a))
            THEN {a} \cup from[hheader_next(hdr, a)] ELSE {a}
    IN  from[HeapStart]

\* What is said of cur and the block before it, (1), (2) and (3) ...
LinkedBefore(hdr, cur) ==
    LET prev == hdr[cur].prev
    IN  /\ prev <= cur
        /\ prev >= HeapStart =>
              /\ prev \in DOMAIN hdr /\ hheader_next(hdr, prev) = cur
              /\ ~ (hdr[prev].is_hole /\ hdr[cur].is_hole)

\* ... and of cur and the block after it, (4) and (5).
LinkedAfter(hdr, cur) ==
    LET next == hheader_next(hdr, cur)
    IN  hheader_isvalid(next) =>
            /\ next \in DOMAIN hdr /\ hdr[next].prev = cur
            /\ ~ (hdr[cur].is_hole /\ hdr[next].is_hole)

heap_check(hdr) ==
    \A cur \in Walk(hdr) :
        cur \in DOMAIN hdr /\ LinkedBefore(hdr, cur) /\ LinkedAfter(hdr, cur)

---------------------------------------------------------------------------
Init ==
    /\ heap = [hdr   |-> [a \in {HeapStart} |-> Header(TRUE, HeapSize, NULL)],
               index |-> << HeapStart >>]
    /\ live = {}
    /\ halted = RUNNING

\* Where the block goes in a hole.
Place(h, align) == IF align THEN alignment_o(h) ELSE h

Fits(h, size, align) ==
    LET extrasize == Place(h, align) - h
    IN  /\ align => heap.hdr[h].size > extrasize
        /\ heap.hdr[h].size - extrasize >= size

\* "find the best hole": the first of the list that fits, 0 if there is none.
BestHole(size, align) ==
    LET i == SelectInSeq(heap.index, LAMBDA h : Fits(h, size, align))
    IN  IF i = 0 THEN NULL ELSE heap.index[i]

\* The gap below an aligned block that no header fits in.
GapTooSmall(h, align) == Place(h, align) - h \in 1 .. HeaderSize

\* The variants that ask for no room for a header, and for two.
LeavesSomething(spare) == spare > 0
LeavesRoomForTwo(spare) == spare > 2 * HeaderSize

\* What is left of a hole is worth a hole of its own.
LeavesRoom(spare) == spare > HeaderSize

\* The heap with size units allocated in the hole h.
Allocated(h, size, align) ==
    LET a == Place(h, align)
        taken == [hdr   |-> [heap.hdr EXCEPT ![h].is_hole = FALSE],
                  index |-> ordlist_remove(heap.index, h)]
        placed == IF ~ align THEN taken
                  ELSE IF a - h > HeaderSize THEN heap_low_split(taken, h, a)
                  ELSE AbsorbGap(taken, h, a)
    IN  IF LeavesRoom(placed.hdr[a].size - size)
        THEN heap_high_split(placed, a, size) ELSE placed

\* heapwatch_alloc looks for the two ends of the new block in the others.
AllocFault(ptr, size) ==
    \E rec \in live : {ptr, ptr + size - 1} \cap (rec.ptr .. rec.ptr + rec.size - 1) # {}

\* The kernel panics, the call returns, or the model goes no further.
AfterAlloc(h, ptr, size, align, new) ==
    IF AllocFault(ptr, size) THEN "ALLOC FAULT"
    ELSE IF Cardinality(live) = MaxRecs THEN "WATCHER OVERFLOWED"
    ELSE IF align /\ GapTooSmall(h, align) THEN "gap absorbed"
    ELSE IF ~ heap_check(new.hdr) THEN "corrupted heap"
    ELSE RUNNING

(***************************************************************************)
(* A call that finds no hole returns NULL and changes nothing.  The model  *)
(* stops at a gap that is absorbed: the block above it goes on with a size *)
(* that reaches into its neighbour.                                        *)
(***************************************************************************)
heap_alloc(size, align) ==
    LET h == BestHole(size, align)
        new == Allocated(h, size, align)
        ptr == Place(h, align) + HeaderSize
    IN  /\ halted = RUNNING
        /\ h # NULL
        /\ heap' = new
        /\ halted' = AfterAlloc(h, ptr, size, align, new)
        /\ live' = IF halted' \in {"ALLOC FAULT", "WATCHER OVERFLOWED"} THEN live
                   ELSE live \cup {[ptr |-> ptr, size |-> size]}

\* The free block merged with the hole above it, then into the one below.
Freed(block) ==
    LET hdr == [heap.hdr EXCEPT ![block].is_hole = TRUE]
        merged == heap_merge([hdr |-> hdr, index |-> ordlist_insert(hdr, heap.index, block)], block)
        prev == merged.hdr[block].prev
    IN  IF prev # NULL /\ merged.hdr[prev].is_hole THEN heap_merge(merged, prev) ELSE merged

heap_free(ptr) ==
    /\ halted = RUNNING
    /\ \E rec \in live : rec.ptr = ptr /\ live' = live \ {rec}
    /\ heap' = Freed(ptr - HeaderSize)
    /\ halted' = IF heap_check(heap'.hdr) THEN RUNNING ELSE "corrupted heap"

\* heapwatch_free finds no record of the pointer.
heap_free_unknown(ptr) ==
    /\ halted = RUNNING
    /\ \A rec \in live : rec.ptr # ptr
    /\ halted' = "DOUBLE FREE"
    /\ UNCHANGED << heap, live >>

Next ==
    \/ \E size \in AllocSizes : heap_alloc(size, FALSE)
    \/ \E size \in AlignedSizes : heap_alloc(size, TRUE)
    \/ \E ptr \in Addresses : heap_free(ptr) \/ heap_free_unknown(ptr)

Spec == Init /\ [][Next]_vars

---------------------------------------------------------------------------
Holes == {a \in DOMAIN heap.hdr : heap.hdr[a].is_hole}

\* The headers, the list of holes and the records have their types.
TypeOK ==
    /\ DOMAIN heap.hdr \subseteq Addresses
    /\ \A a \in DOMAIN heap.hdr :
          heap.hdr[a] \in [is_hole : BOOLEAN, size : 0 .. HeapSize, prev : {NULL} \cup Addresses]
    /\ heap.index \in Seq(Addresses)
    /\ live \subseteq [ptr : Addresses, size : AllocSizes \cup AlignedSizes]
    /\ halted \in {RUNNING, "ALLOC FAULT", "DOUBLE FREE", "WATCHER OVERFLOWED",
                   "corrupted heap", "gap absorbed"}

\* The list holds every hole once, and nothing else: splits, merges and
\* removals by address keep it so whatever the order of the calls.  As no two
\* holes are neighbours it has room for all of them, though ordlist_insert
\* does not look.
IndexExact ==
    /\ TypeOK
    /\ halted = RUNNING =>
          /\ Cardinality(Range(heap.index)) = Len(heap.index)
          /\ Range(heap.index) = Holes
          /\ Len(heap.index) <= Cardinality(live) + 1

\* No block is lost and none is shared: the blocks that are not holes are
\* those the callers have, each with the room that was asked for and no more
\* to spare than a header, and the walk meets all of them.
BlocksOwned ==
    halted = RUNNING =>
        /\ DOMAIN heap.hdr = Walk(heap.hdr)
        /\ DOMAIN heap.hdr \ Holes = {rec.ptr - HeaderSize : rec \in live}
        /\ \A rec \in live :
              heap.hdr[rec.ptr - HeaderSize].size - rec.size \in 0 .. HeaderSize

\* The only damage legal calls do to the heap: an aligned block that takes the
\* whole rest of its hole, so that the block above still points back to where
\* the hole began.  Every other check of heap_check, and that of
\* heapwatch_alloc, passes for ever.
OnlyStaleBackLink ==
    /\ halted # "ALLOC FAULT"
    /\ halted = "corrupted heap" =>
          \E a \in DOMAIN heap.hdr :
             LET h == heap.hdr[a].prev
                 next == hheader_next(heap.hdr, a)
             IN  /\ a % PageSize = PageSize - HeaderSize
                 /\ ~ heap.hdr[a].is_hole
                 /\ heap.hdr[next].prev = h /\ hheader_next(heap.hdr, h) = a
                 /\ heap_check([heap.hdr EXCEPT ![next].prev = a])
=============================================================================
