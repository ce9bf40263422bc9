------------------------------- MODULE Memory -------------------------------
(***************************************************************************)
(* The memory of user programs: the frames and page tables (paging.c), the *)
(* loader (prog.c), sbrk and fork as far as they concern memory, and in    *)
(* every task the heap of the standard library (user/stdlib.c), whose      *)
(* malloc asks sbrk for more when the allocator finds no room.             *)
(*                                                                         *)
(* An address is a number of units, and page p holds the PAGE units from   *)
(* p * PAGE on.  Page 0 stands for the stack; programs and heaps lie from  *)
(* page 1 upwards.  The kernel's own frames are the first ones, and frame  *)
(* 0, the kernel's, in an entry of a page table means that there is none.  *)
(* A system call runs with interrupts off: it is one step.                 *)
(***************************************************************************)
EXTENDS UserAlloc, FiniteSets

CONSTANTS
    Task, InitTask,
    PAGE,           \* units in a page
    FRAMES, KERNEL, \* frames counted by the bitset, whatever memory there is; the kernel's
    HEAP_SIZE,      \* units of a heap at first (startup)
    Programs,       \* sets of segments [start, len], in units
    Requests,       \* sizes malloc is asked for
    LastPage,       \* the model's bound on the address space
    MaxCalls        \* the model's bound on the calls of malloc and free

ASSUME MemoryAssumption ==
    /\ InitTask \in Task
    /\ {PAGE, FRAMES, KERNEL, HEAP_SIZE, LastPage} \subseteq Nat \ {0}
    /\ KERNEL + 2 <= FRAMES /\ MaxCalls \in Nat
    /\ Requests \subseteq 1 .. Top
    /\ \A program \in Programs : program # {} /\ IsFiniteSet(program)
    /\ \A program \in Programs : \A s \in program :
          s.start \in PAGE .. PAGE * LastPage /\ s.len \in Nat \ {0}

Frame == 0 .. FRAMES - 1
NO_FRAME == 0
Page == 0 .. LastPage

VARIABLES
    glb_frames,     \* the frames whose bit is set
    pages,          \* pages[t][p]: the frame of page p in the tables of t
    user,           \* user[t]: the program of t and its heap
    halted,         \* what has stopped the machine, if anything has
    calls           \* calls of malloc and free so far, for the bound

vars == <<glb_frames, pages, user, halted, calls>>

\* pc: "NONE" no task, "STUB" the code that loads the first program,
\* "LOADED" before startup, "RUNNING" after it.  want is the size of the
\* malloc that is asking sbrk for room, and live the blocks the program
\* holds: the offset of each one's header, and the size asked for.
NoProgram ==
    [pc |-> "NONE", program |-> {}, brk |-> 0, heap |-> heap_new(0),
     heap_size |-> 0, want |-> 0, live |-> {}]

\* kinit maps the kernel, then the stack and the page of the stub.
Init ==
    /\ glb_frames = 0 .. KERNEL + 1
    /\ pages = [t \in Task |-> [p \in Page |->
          IF t = InitTask /\ p \in {0, 1} THEN KERNEL + p ELSE NO_FRAME]]
    /\ user = [t \in Task |->
          IF t = InitTask THEN [NoProgram EXCEPT !.pc = "STUB"] ELSE NoProgram]
    /\ halted = "NO"
    /\ calls = 0

\* ---------------------------------------------------------------- FRAMES

Unset == Frame \ glb_frames

Mapped(t) == {p \in Page : pages[t][p] # NO_FRAME}

\* The loops that call alloc_frame go up the pages, and each takes the first
\* frame whose bit is not set.
FrameFor(p, P) ==
    CHOOSE f \in Unset :
       Cardinality({g \in Unset : g < f}) = Cardinality({q \in P : q < p})

\* alloc_frame for every page of P in the tables of t, none of which has a
\* frame.  Without a frame left it sets bit -1, half a gigabyte above the
\* bits, where nothing is mapped: the fault stops the machine.
alloc_frames(t, P) ==
    IF Cardinality(P) > Cardinality(Unset)
    THEN halted' = "OUT OF FRAMES" /\ UNCHANGED <<glb_frames, pages>>
    ELSE /\ pages' = [pages EXCEPT ![t] =
               [p \in Page |-> IF p \in P THEN FrameFor(p, P) ELSE @[p]]]
         /\ glb_frames' = glb_frames \cup {FrameFor(p, P) : p \in P}

\* t touches these units, once the pages of P have frames.
Touches(t, P, units) ==
    Cardinality(P) <= Cardinality(Unset) =>
       halted' = IF {u \div PAGE : u \in units} \subseteq Mapped(t) \cup P
                 THEN halted ELSE "PAGE FAULT"

\* The pages met by stepping PAGE units at a time from start, below end.
Stepped(start, end) ==
    {(start + k * PAGE) \div PAGE : k \in 0 .. (end - start - 1) \div PAGE}

Lacking(t, P) == P \ Mapped(t)

\* --------------------------------------------------------------- PROGRAMS

RoundUp(a) == a + ((-a) % PAGE)

LastUnits(program) == {s.start + s.len - 1 : s \in program}

\* The symbol end of the linker.
EndOf(program) == Max(LastUnits(program)) + 1

\* A variant of LoadedBrk that forgets to round.
LoadedBrkUnrounded(program) == Max(LastUnits(program))

\* prog_load rounds the last unit up, not the end: a program that ends one
\* unit into a page gets a break below its end.
LoadedBrk(program) == RoundUp(Max(LastUnits(program)))

heap_beg(program) == RoundUp(EndOf(program))

UnitsOf(program) == UNION {s.start .. s.start + s.len - 1 : s \in program}

\* exec: prog_load maps what lacks a frame and copies the segments.
syscall_exec(t) ==
    /\ user[t].pc \in {"STUB", "RUNNING"} /\ user[t].want = 0
    /\ \E program \in Programs :
          LET P == Lacking(t, UNION {Stepped(s.start, s.start + s.len) : s \in program})
          IN  /\ alloc_frames(t, P)
              /\ Touches(t, P, UnitsOf(program))
              /\ user' = [user EXCEPT ![t] =
                    [NoProgram EXCEPT !.pc = "LOADED", !.program = program,
                                      !.brk = LoadedBrk(program)]]
    /\ UNCHANGED calls

\* What sbrk(n) does to the tables: it looks at one address in every PAGE
\* units from the break on.
SbrkPages(t, n) == Lacking(t, Stepped(user[t].brk, user[t].brk + n))

startup(t) ==
    LET P == SbrkPages(t, HEAP_SIZE)
    IN  /\ user[t].pc = "LOADED"
        /\ alloc_frames(t, P)
        /\ Touches(t, P, {})
        /\ user' = [user EXCEPT ![t].pc = "RUNNING",
                                ![t].brk = @ + HEAP_SIZE,
                                ![t].heap = heap_new(HEAP_SIZE),
                                ![t].heap_size = HEAP_SIZE]
        /\ UNCHANGED calls

HeapUnits(t, units) == {heap_beg(user[t].program) + u : u \in units}

\* A call of heap_alloc on heap h, with the pages of P just mapped.  A block
\* that is found is the program's, who fills it; otherwise malloc goes on.
Attempt(t, h, n, P, grown) ==
    LET r == heap_alloc(h, n)
    IN  /\ Touches(t, P, IF r.block = NULL THEN {}
                         ELSE HeapUnits(t, Units(r.heap, r.block)))
        /\ user' = [user EXCEPT ![t] =
              [grown EXCEPT !.heap = r.heap,
                            !.want = IF r.block = NULL THEN n ELSE 0,
                            !.live = IF r.block = NULL THEN @
                                     ELSE @ \cup {[block |-> r.block, size |-> n]}]]

LiveBlocks(t) == {b.block : b \in user[t].live}

\* The program may call: it is not inside a call of malloc, and no block of
\* its was handed out inside a free one (from there on it overwrites itself).
Calls(t) ==
    /\ calls < MaxCalls /\ calls' = calls + 1
    /\ user[t].pc = "RUNNING" /\ user[t].want = 0
    /\ Swallowed(user[t].heap, LiveBlocks(t)) = {}

malloc(t) ==
    /\ Calls(t)
    /\ \E n \in Requests :
          /\ user[t].heap.brk + HEADER + alignment(n) <= Top
          /\ Attempt(t, user[t].heap, n, {}, user[t])
    /\ UNCHANGED <<glb_frames, pages>>

\* The loop of malloc: sbrk, heap_expand, and the next try.
malloc_grow(t) ==
    LET n == user[t].heap_size
        P == SbrkPages(t, n)
    IN  /\ user[t].want # 0
        /\ alloc_frames(t, P)
        /\ Attempt(t, heap_expand(user[t].heap, n), user[t].want, P,
                   [user[t] EXCEPT !.brk = @ + n, !.heap_size = 2 * n])
        /\ UNCHANGED calls

free(t) ==
    /\ Calls(t)
    /\ \E b \in user[t].live :
          user' = [user EXCEPT ![t].heap = heap_dealloc(@, b.block),
                               ![t].live = @ \ {b}]
    /\ UNCHANGED <<glb_frames, pages, halted>>

\* A variant of task_fork whose child shares the frames of its parent.
task_fork_shared(t, child) ==
    /\ user[t].pc \in {"STUB", "RUNNING"} /\ user[t].want = 0
    /\ user[child].pc = "NONE"
    /\ pages' = [pages EXCEPT ![child] = pages[t]]
    /\ user' = [user EXCEPT ![child] = user[t]]
    /\ UNCHANGED <<glb_frames, halted, calls>>

\* fork: page_directory_clone gives the child a copy of every page.
task_fork(t, child) ==
    LET P == Mapped(t)
    IN  /\ user[t].pc \in {"STUB", "RUNNING"} /\ user[t].want = 0
        /\ user[child].pc = "NONE"
        /\ alloc_frames(child, P)
        /\ Touches(child, P, {})
        /\ user' = [user EXCEPT ![child] = user[t]]
        /\ UNCHANGED calls

\* The end of a task: only the directory is freed, its frames stay taken.
task_free(t) ==
    /\ user[t].pc = "RUNNING" /\ user[t].want = 0
    /\ pages' = [pages EXCEPT ![t] = [p \in Page |-> NO_FRAME]]
    /\ user' = [user EXCEPT ![t] = NoProgram]
    /\ UNCHANGED <<glb_frames, halted, calls>>

Next ==
    /\ halted = "NO"
    /\ \E t \in Task :
          \/ syscall_exec(t) \/ startup(t) \/ malloc(t) \/ malloc_grow(t)
          \/ free(t) \/ task_free(t)
          \/ \E child \in Task : task_fork(t, child)

Spec == Init /\ [][Next]_vars

\* -------------------------------------------------------------- PROPERTIES

TypeOK ==
    /\ glb_frames \subseteq Frame
    /\ pages \in [Task -> [Page -> Frame]]
    /\ halted \in {"NO", "OUT OF FRAMES", "PAGE FAULT"}

\* The frames of tasks are private (alloc_frame, page_table_clone): no two
\* pages, of one task or of two, have the same frame, none is the kernel's,
\* and all are marked as taken.
FramesPrivate ==
    /\ TypeOK
    /\ \A t \in Task, p \in Page : pages[t][p] # NO_FRAME =>
          /\ pages[t][p] \in glb_frames \ (0 .. KERNEL - 1)
          /\ \A u \in Task, q \in Page :
                pages[u][q] = pages[t][p] => u = t /\ q = p

\* The blocks of a program's heap tile it, the list of free blocks is exact
\* both ways, and every block has the room asked for (heap_alloc, heap_dealloc,
\* heap_find_best_fit) -- unless the search has handed out a block that it had
\* itself merged into the one below, which is still free.
HeapTiled ==
    \A t \in Task : user[t].pc = "RUNNING" =>
       LET h == user[t].heap
           swallowed == Swallowed(h, LiveBlocks(t))
       IN  IF swallowed = {}
           THEN /\ Tiled(h, LiveBlocks(t))
                /\ \A b \in user[t].live : h.at[b.block].size >= b.size
           ELSE Cardinality(swallowed) = 1

\* A program whose segments start on a page or do not reach into one more
\* page than their length fills, and that does not end one unit into a page.
LaidOut(program) ==
    /\ EndOf(program) % PAGE # 1
    /\ \A s \in program :
          s.start % PAGE <= (s.start + s.len - 1) % PAGE

\* What a program gets from malloc it can use: the blocks it holds, its own
\* and those it has from its parent, have frames; and a page fault stops the
\* machine (syscall_sbrk, prog_load, malloc) only for a program that is laid
\* out in one of the two ways the loader does not see through.
BlocksMapped ==
    /\ halted = "NO" => \A t \in Task : \A o \in LiveBlocks(t) :
          {u \div PAGE : u \in HeapUnits(t, Units(user[t].heap, o))}
             \subseteq Mapped(t)
    /\ halted = "PAGE FAULT" =>
          \E t \in Task : user[t].program # {} /\ ~ LaidOut(user[t].program)
=============================================================================
