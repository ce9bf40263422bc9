----------------------------- MODULE UserAlloc -----------------------------
(***************************************************************************)
(* The allocator of user programs (user/alloc.c), as functions from a heap *)
(* to a heap.  A heap lies in the memory of a task from its root upwards:  *)
(* addresses are offsets from the root, and at[o] is what the last header  *)
(* written at offset o says, whether a block still begins there or not.    *)
(* The blocks lie one after the other from 0 to brk; the free ones are in  *)
(* a doubly linked list, the last one freed first.                         *)
(***************************************************************************)
EXTENDS Integers, SequencesExt

CONSTANTS
    HEADER,     \* sizeof(object_header)
    ALIGN,      \* the alignment malloc asks for
    Top         \* the model's bound on brk

ASSUME AllocAssumption ==
    /\ HEADER \in Nat \ {0} /\ ALIGN \in Nat \ {0} /\ Top \in Nat
    /\ HEADER % ALIGN = 0

NULL == -1
Offset == {o \in 0 .. Top : o % ALIGN = 0}
Pointer == Offset \cup {NULL}
Header == [size : 0 .. Top, used : BOOLEAN, next : Pointer, prev : Pointer]
Heap == [size : Nat, brk : Offset, free : Pointer, at : [Offset -> Header]]

alignment(size) == size + ((-size) % ALIGN)

object_header_new(size) ==
    [size |-> size, used |-> TRUE, next |-> NULL, prev |-> NULL]

heap_new(size) ==
    [size |-> size, brk |-> 0, free |-> NULL,
     at |-> [o \in Offset |-> [object_header_new(0) EXCEPT !.used = FALSE]]]

heap_expand(h, size) == [h EXCEPT !.size = @ + size]

object_header_next(h, o) == o + HEADER + h.at[o].size

heap_is_end(h, o) == object_header_next(h, o) = h.brk

heap_untouched_memory(h) == h.size - h.brk

heap_add_free(h, o) ==
    [h EXCEPT !.free = o,
              !.at = [p \in Offset |->
                 [h.at[p] EXCEPT
                    !.next = IF p = o THEN h.free ELSE @,
                    !.prev = CASE p = o -> NULL
                               [] p = h.free -> o
                               [] OTHER -> @]]]

heap_remove_free(h, o) ==
    LET next == h.at[o].next
        prev == h.at[o].prev
    IN  [h EXCEPT !.free = IF @ = o THEN next ELSE @,
                  !.at = [p \in Offset |->
                     [h.at[p] EXCEPT
                        !.next = CASE p = o -> NULL
                                   [] p = prev -> next
                                   [] OTHER -> @,
                        !.prev = CASE p = o -> NULL
                                   [] p = next -> prev
                                   [] OTHER -> @]]]

object_header_merge(h, o) ==
    [h EXCEPT !.at[o].size = @ + HEADER + h.at[object_header_next(h, o)].size]

\* A variant of Absorb that leaves the block above in the list, as the loop
\* of heap_realloc does.
AbsorbUnlisted(h, o) == object_header_merge(h, o)

\* What the search does to a block that is too small: it absorbs the free
\* block above it, which leaves the list.
Absorb(h, o) ==
    heap_remove_free(object_header_merge(h, o), object_header_next(h, o))

\* The loop of heap_find_best_fit.  It goes down the list and keeps the
\* smallest block that is large enough in best; one of the right size ends
\* it, and so does a block at the end of the heap that can be stretched.
Search == [heap : Heap, want : Offset, block : Pointer, best : Pointer]
heap_find_best_fit[s \in Search] ==
    LET h == s.heap
        o == s.block
        size == h.at[o].size
        next == object_header_next(h, o)
        found(heap, block) == [heap |-> heap, block |-> block]
        goOn(best) == heap_find_best_fit[[s EXCEPT !.block = h.at[o].next,
                                                   !.best = best]]
    IN  CASE o = NULL -> found(h, s.best)
          [] o # NULL /\ size = s.want -> found(h, o)
          [] o # NULL /\ size > s.want ->
                goOn(IF s.best = NULL THEN o
                     ELSE IF size < h.at[s.best].size THEN o ELSE s.best)
          [] o # NULL /\ size < s.want /\ heap_is_end(h, o) ->
                IF heap_untouched_memory(h) >= s.want - size
                THEN found([h EXCEPT !.brk = @ + s.want - size,
                                     !.at[o].size = s.want], o)
                ELSE goOn(s.best)
          [] OTHER ->
                IF next < h.brk /\ ~ h.at[next].used
                THEN heap_find_best_fit[[s EXCEPT !.heap = Absorb(h, o)]]
                ELSE goOn(s.best)

\* What is left of a block above the size wanted is given back: to the heap
\* if the block is the last one, as a free block if a header fits in it.
object_header_try_split(h, o, size) ==
    LET current == h.at[o].size
        rest == o + HEADER + size
    IN  CASE heap_is_end(h, o) /\ size < current ->
                [h EXCEPT !.brk = @ - (current - size), !.at[o].size = size]
          [] ~ heap_is_end(h, o) /\ size + HEADER < current ->
                heap_add_free(
                   [h EXCEPT !.at[o].size = size,
                             !.at[rest] = [object_header_new(current - size - HEADER)
                                           EXCEPT !.used = FALSE]],
                   rest)
          [] OTHER -> h

\* The heap after the call, and the header of the block, NULL if there is no
\* room (what the search has merged stays merged).
heap_alloc(h, n) ==
    LET size == alignment(n)
        s == heap_find_best_fit[[heap |-> h, want |-> size,
                                 block |-> h.free, best |-> NULL]]
        split == object_header_try_split(s.heap, s.block, size)
    IN  CASE s.block # NULL ->
                [heap |-> heap_remove_free(
                             [split EXCEPT !.at[s.block].used = TRUE], s.block),
                 block |-> s.block]
          [] s.block = NULL /\ size + HEADER > heap_untouched_memory(s.heap) ->
                [heap |-> s.heap, block |-> NULL]
          [] OTHER ->
                [heap |-> [s.heap EXCEPT
                             !.brk = @ + HEADER + size,
                             !.at[s.heap.brk] = object_header_new(size)],
                 block |-> s.heap.brk]

heap_dealloc(h, o) == heap_add_free([h EXCEPT !.at[o].used = FALSE], o)

\* ------------------------------------------------------------- REFERENCE

\* Where the blocks begin, from the root upwards.
Blocks(h) ==
    LET from[o \in Offset] ==
           IF o >= h.brk THEN {} ELSE {o} \cup from[object_header_next(h, o)]
    IN  from[0]

\* The units a block takes, its header included.
Units(h, o) == o .. object_header_next(h, o) - 1

\* The list from h.free visits the blocks of F once each, and back.
Lists(h, F) ==
    \E list \in SetToSeqs(F) :
       LET at(i) == IF i \in 1 .. Len(list) THEN list[i] ELSE NULL
       IN  /\ h.free = at(1)
           /\ \A i \in 1 .. Len(list) :
                 h.at[list[i]].next = at(i + 1) /\ h.at[list[i]].prev = at(i - 1)

\* The blocks tile the heap: those in use are the ones in the program's
\* hands, and the others are the free list.
Tiled(h, live) ==
    /\ h.brk <= h.size
    /\ {o \in Blocks(h) : h.at[o].used} = live
    /\ Lists(h, Blocks(h) \ live)

\* The blocks in the program's hands that begin inside a free block.
Swallowed(h, live) ==
    {o \in live : \E b \in Blocks(h) :
                     ~ h.at[b].used /\ o \in Units(h, b) \ {b}}
=============================================================================
