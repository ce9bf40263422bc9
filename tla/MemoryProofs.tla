---------------------------- MODULE MemoryProofs ----------------------------
(***************************************************************************)
(* The frames of user programs, for any set of tasks, any sizes of pages   *)
(* and of the machine, and any programs of finitely many segments.         *)
(***************************************************************************)
EXTENDS Memory, QueueLemmas

\* A finite set of numbers has a greatest.
LEMMA MaxProperties ==
    ASSUME NEW S \in SUBSET Int, IsFiniteSet(S), S # {}
    PROVE  Max(S) \in S /\ \A y \in S : Max(S) >= y
<1> QED
  BY SetEnds DEF Max

(***************************************************************************)
(* The frames.  FramesPrivate is inductive once the kernel's frames are    *)
(* known to be marked: alloc_frame gives none of them away.  That a step   *)
(* asks for finitely many frames, so that there are or are not as many,    *)
(* rests on the breaks and sizes being numbers.                            *)
(***************************************************************************)
FramesSound == FramesPrivate /\ 0 .. KERNEL - 1 \subseteq glb_frames

UsersSound ==
    /\ DOMAIN user = Task
    /\ \A t \in Task : /\ DOMAIN user[t] = DOMAIN NoProgram
                       /\ user[t].brk \in Nat /\ user[t].heap_size \in Nat

IInv == FramesSound /\ UsersSound

LEMMA UnsetFrames ==
    /\ Unset \in SUBSET Int /\ IsFiniteSet(Unset) /\ Cardinality(Unset) \in Nat
<1>1. FRAMES - 1 \in Int
  BY MemoryAssumption
<1>2. IsFiniteSet(Frame)
  BY <1>1, FS_Interval DEF Frame
<1>3. Unset \in SUBSET Frame
  BY DEF Unset
<1>4. IsFiniteSet(Unset)
  BY <1>2, <1>3, FS_Subset
<1> QED
  BY <1>3, <1>4, FS_CardinalityType DEF Frame

\* alloc_frame, page after page: every page gets a frame that was not set,
\* each its own.
LEMMA FramesFound ==
    ASSUME NEW P \in SUBSET Int, IsFiniteSet(P),
           Cardinality(P) <= Cardinality(Unset)
    PROVE  /\ \A p \in P : FrameFor(p, P) \in Unset
           /\ \A p, q \in P : FrameFor(p, P) = FrameFor(q, P) => p = q
<1>1. Unset \in SUBSET Int /\ IsFiniteSet(Unset) /\ Cardinality(Unset) \in Nat
  BY UnsetFrames
<1>2. Cardinality(P) \in Nat
  BY FS_CardinalityType
<1>3. ASSUME NEW p \in P
      PROVE  FrameFor(p, P) \in Unset /\ Rank(Unset, FrameFor(p, P)) = Rank(P, p)
  <2>1. Rank(P, p) \in 0 .. Cardinality(P) - 1
    BY RankBounds
  <2>2. Rank(P, p) \in 0 .. Cardinality(Unset) - 1
    BY <1>1, <1>2, <2>1
  <2>3. \E f \in Unset : Rank(Unset, f) = Rank(P, p)
    BY <1>1, <2>2, RankOnto
  <2>4. FrameFor(p, P) = CHOOSE f \in Unset : Rank(Unset, f) = Rank(P, p)
    BY DEF FrameFor, Rank
  <2> QED
    BY <2>3, <2>4
<1>4. ASSUME NEW p \in P, NEW q \in P, FrameFor(p, P) = FrameFor(q, P) PROVE p = q
  <2>1. Rank(P, p) = Rank(P, q) /\ p \in Int /\ q \in Int
    BY <1>3, <1>4
  <2>2. Rank(P, p) \in Int /\ Rank(P, q) \in Int
    BY RankBounds
  <2>3. ~ (p < q) /\ ~ (q < p)
    BY <2>1, <2>2, RankIncreases
  <2> QED
    BY <2>1, <2>3
<1> QED
  BY <1>3, <1>4

\* A step that moves no frame.
LEMMA SameFrames ==
    ASSUME FramesSound, glb_frames' = glb_frames, pages' = pages,
           halted' \in {halted, "OUT OF FRAMES", "PAGE FAULT"}
    PROVE  FramesSound'
<1>1. TypeOK'
  BY DEF FramesSound, FramesPrivate, TypeOK
<1>2. \A u \in Task, p \in Page : pages[u][p] # NO_FRAME =>
         /\ pages[u][p] \in glb_frames \ (0 .. KERNEL - 1)
         /\ \A v \in Task, q \in Page :
               pages[v][q] = pages[u][p] => v = u /\ q = p
  BY DEF FramesSound, FramesPrivate
<1>3. ASSUME NEW u \in Task, NEW p \in Page, pages'[u][p] # NO_FRAME
      PROVE  /\ pages'[u][p] \in glb_frames' \ (0 .. KERNEL - 1)
             /\ \A v \in Task, q \in Page :
                   pages'[v][q] = pages'[u][p] => v = u /\ q = p
  <2>1. pages[u][p] # NO_FRAME
    BY <1>3
  <2>2. pages[u][p] \in glb_frames \ (0 .. KERNEL - 1)
    BY <1>2, <2>1
  <2>3. ASSUME NEW v \in Task, NEW q \in Page, pages[v][q] = pages[u][p]
        PROVE  v = u /\ q = p
    BY <1>2, <2>1, <2>3
  <2> QED
    BY <2>2, <2>3
<1>4. FramesPrivate'
  BY <1>1, <1>3, Zenon DEF FramesPrivate
<1> QED
  BY <1>4 DEF FramesSound

\* A step that gives frames to pages of t keeps all frames private.
LEMMA AllocKeepsFrames ==
    ASSUME FramesSound, NEW t \in Task, NEW P \in SUBSET Int, IsFiniteSet(P),
           NEW units, alloc_frames(t, P), Touches(t, P, units)
    PROVE  FramesSound'
<1>1. Cardinality(P) \in Nat /\ Cardinality(Unset) \in Nat
  BY UnsetFrames, FS_CardinalityType
<1>2. CASE Cardinality(P) > Cardinality(Unset)
  <2>1. halted' = "OUT OF FRAMES" /\ glb_frames' = glb_frames /\ pages' = pages
    BY <1>2 DEF alloc_frames
  <2> QED
    BY <2>1, SameFrames
<1>3. CASE Cardinality(P) <= Cardinality(Unset)
  <2> DEFINE new(p) == FrameFor(p, P)
  <2>1. /\ pages' = [pages EXCEPT ![t] =
                       [p \in Page |-> IF p \in P THEN new(p) ELSE pages[t][p]]]
        /\ glb_frames' = glb_frames \cup {new(p) : p \in P}
    <3>1. ~ (Cardinality(P) > Cardinality(Unset))
      BY <1>1, <1>3
    <3> QED
      BY <3>1 DEF alloc_frames
  <2>2. halted' \in {"NO", "OUT OF FRAMES", "PAGE FAULT"}
    BY <1>3 DEF Touches, FramesSound, FramesPrivate, TypeOK
  <2>3. /\ \A p \in P : new(p) \in Unset
        /\ \A p, q \in P : new(p) = new(q) => p = q
    BY <1>3, FramesFound
  <2> HIDE DEF new
  <2>4. /\ glb_frames \subseteq Frame
        /\ pages \in [Task -> [Page -> Frame]]
        /\ 0 .. KERNEL - 1 \subseteq glb_frames
        /\ \A u \in Task, p \in Page : pages[u][p] # NO_FRAME =>
              /\ pages[u][p] \in glb_frames \ (0 .. KERNEL - 1)
              /\ \A v \in Task, q \in Page :
                    pages[v][q] = pages[u][p] => v = u /\ q = p
    BY DEF FramesSound, FramesPrivate, TypeOK
  <2>5. Unset \subseteq Frame /\ Unset \cap glb_frames = {}
    BY DEF Unset
  <2>6. 0 .. KERNEL - 1 \subseteq glb_frames' /\ glb_frames' \subseteq Frame
    BY <2>1, <2>3, <2>4, <2>5
  <2>7. /\ pages' \in [Task -> [Page -> Frame]]
        /\ \A u \in Task, p \in Page :
              pages'[u][p] = IF u = t /\ p \in P THEN new(p) ELSE pages[u][p]
    BY <2>1, <2>3, <2>4, <2>5
  <2>8. NO_FRAME \in 0 .. KERNEL - 1
    BY MemoryAssumption DEF NO_FRAME
  <2>9. ASSUME NEW u \in Task, NEW p \in Page, pages'[u][p] # NO_FRAME
        PROVE  /\ pages'[u][p] \in glb_frames' \ (0 .. KERNEL - 1)
               /\ \A v \in Task, q \in Page :
                     pages'[v][q] = pages'[u][p] => v = u /\ q = p
    <3>1. CASE u = t /\ p \in P
      <4>1. pages'[u][p] = new(p) /\ new(p) \in Unset /\ new(p) \in glb_frames'
        BY <2>1, <2>3, <2>7, <3>1
      <4>2. ASSUME NEW v \in Task, NEW q \in Page, pages'[v][q] = new(p)
            PROVE  v = u /\ q = p
        <5>1. CASE v = t /\ q \in P
          BY <2>3, <2>7, <3>1, <4>2, <5>1
        <5>2. CASE ~ (v = t /\ q \in P)
          <6>1. pages[v][q] = new(p)
            BY <2>7, <4>2, <5>2
          <6>2. pages[v][q] # NO_FRAME
            BY <2>4, <2>5, <2>8, <4>1, <6>1
          <6> QED
            BY <2>4, <2>5, <4>1, <6>1, <6>2
        <5> QED
          BY <5>1, <5>2
      <4> QED
        BY <2>4, <2>5, <4>1, <4>2
    <3>2. CASE ~ (u = t /\ p \in P)
      <4>1. pages'[u][p] = pages[u][p]
        BY <2>7, <3>2
      <4>2. pages[u][p] \in glb_frames \ (0 .. KERNEL - 1)
        BY <2>4, <2>9, <4>1
      <4>3. ASSUME NEW v \in Task, NEW q \in Page, pages'[v][q] = pages[u][p]
            PROVE  v = u /\ q = p
        <5>1. ~ (v = t /\ q \in P)
          BY <2>3, <2>5, <2>7, <4>2, <4>3
        <5>2. pages[v][q] = pages[u][p]
          BY <2>7, <4>3, <5>1
        <5> QED
          BY <2>4, <2>9, <4>1, <5>2
      <4> QED
        BY <2>1, <4>1, <4>2, <4>3
    <3> QED
      BY <3>1, <3>2
  <2> QED
    BY <2>2, <2>6, <2>7, <2>9 DEF FramesSound, FramesPrivate, TypeOK
<1> QED
  BY <1>1, <1>2, <1>3

LEMMA SteppedFinite ==
    ASSUME NEW start \in Int, NEW end \in Int
    PROVE  Stepped(start, end) \in SUBSET Int /\ IsFiniteSet(Stepped(start, end))
<1> DEFINE m == (end - start - 1) \div PAGE
           K == 0 .. m
           f(k) == (start + k * PAGE) \div PAGE
<1>1. PAGE \in Nat /\ PAGE > 0
  BY MemoryAssumption
<1>2. m \in Int
  BY <1>1
<1>3. \A k \in K : f(k) \in Int
  <2> SUFFICES ASSUME NEW k \in K PROVE f(k) \in Int
    OBVIOUS
  <2> k \in Int /\ k * PAGE \in Int
    BY <1>1, <1>2
  <2> QED
    BY <1>1
<1>4. IsFiniteSet(K)
  BY <1>2, FS_Interval
<1> DEFINE g == [k \in K |-> f(k)]
           T == {f(k) : k \in K}
<1>5. Stepped(start, end) = T
  BY DEF Stepped
<1> HIDE DEF m, f, K
<1>6. g \in Surjection(K, T)
  BY DEF Surjection
<1>7. IsFiniteSet(T)
  <2> HIDE DEF g, T
  <2> QED
    BY <1>4, <1>6, FS_Surjection
<1> QED
  BY <1>3, <1>5, <1>7

\* The greatest unit of a program, and its break, are numbers.
LEMMA BreakOfProgram ==
    ASSUME NEW program \in Programs
    PROVE  LoadedBrk(program) \in Nat
<1> DEFINE f == [s \in program |-> s.start + s.len - 1]
           S == LastUnits(program)
<1>1. /\ PAGE \in Nat /\ PAGE > 0 /\ program # {} /\ IsFiniteSet(program)
      /\ \A s \in program : s.start \in Nat /\ s.len \in Nat \ {0}
  BY MemoryAssumption
<1>2. S \in SUBSET Nat /\ S # {}
  BY <1>1 DEF LastUnits
<1>3. f \in Surjection(program, S)
  BY DEF Surjection, LastUnits
<1>4. IsFiniteSet(S)
  <2> HIDE DEF f, S
  <2> QED
    BY <1>1, <1>3, FS_Surjection
<1> HIDE DEF S
<1>5. Max(S) \in Nat
  <2>1. S \in SUBSET Int
    BY <1>2
  <2> QED
    BY <1>2, <1>4, <2>1, MaxProperties
<1> DEFINE a == Max(S)
<1>6. a \in Nat /\ LoadedBrk(program) = a + ((-a) % PAGE)
  BY <1>5 DEF LoadedBrk, RoundUp, S
<1> HIDE DEF a
<1> QED
  BY <1>1, <1>6

LEMMA LackingFinite ==
    ASSUME NEW t, NEW P \in SUBSET Int, IsFiniteSet(P)
    PROVE  Lacking(t, P) \in SUBSET Int /\ IsFiniteSet(Lacking(t, P))
<1>1. Lacking(t, P) \in SUBSET P
  BY DEF Lacking
<1> QED
  BY <1>1, FS_Subset

\* The pages that the segments of a program touch.
LEMMA SegmentsFinite ==
    ASSUME NEW program \in Programs
    PROVE  LET P == UNION {Stepped(s.start, s.start + s.len) : s \in program}
           IN  P \in SUBSET Int /\ IsFiniteSet(P)
<1> DEFINE g(s) == Stepped(s.start, s.start + s.len)
           f == [s \in program |-> g(s)]
           T == {g(s) : s \in program}
<1>1. /\ IsFiniteSet(program)
      /\ \A s \in program : s.start \in Int /\ s.start + s.len \in Int
  BY MemoryAssumption
<1>2. \A s \in program : g(s) \in SUBSET Int /\ IsFiniteSet(g(s))
  BY <1>1, SteppedFinite
<1> HIDE DEF g
<1>3. f \in Surjection(program, T)
  BY DEF Surjection
<1>4. IsFiniteSet(T)
  <2> HIDE DEF f, T
  <2> QED
    BY <1>1, <1>3, FS_Surjection
<1>5. \A X \in T : IsFiniteSet(X)
  BY <1>2
<1>6. UNION T \in SUBSET Int
  BY <1>2
<1>7. IsFiniteSet(UNION T)
  <2> HIDE DEF T
  <2> QED
    BY <1>4, <1>5, FS_UNION
<1> QED
  BY <1>6, <1>7 DEF g

(***************************************************************************)
(* The steps.                                                              *)
(***************************************************************************)
LEMMA InitIInv == Init => IInv
<1> SUFFICES ASSUME Init PROVE IInv
  OBVIOUS
<1>1. /\ KERNEL \in Nat /\ KERNEL > 0 /\ FRAMES \in Nat /\ KERNEL + 2 <= FRAMES
      /\ LastPage \in Nat /\ LastPage > 0
  BY MemoryAssumption
<1>2. /\ glb_frames \subseteq Frame /\ 0 .. KERNEL - 1 \subseteq glb_frames
      /\ halted = "NO"
  BY <1>1 DEF Init, Frame
<1>3. /\ pages \in [Task -> [Page -> Frame]]
      /\ \A t \in Task, p \in Page :
            pages[t][p] = IF t = InitTask /\ p \in {0, 1} THEN KERNEL + p ELSE 0
  BY <1>1 DEF Init, Frame, Page, NO_FRAME
<1>4. ASSUME NEW t \in Task, NEW p \in Page, pages[t][p] # NO_FRAME
      PROVE  /\ pages[t][p] \in glb_frames \ (0 .. KERNEL - 1)
             /\ \A u \in Task, q \in Page :
                   pages[u][q] = pages[t][p] => u = t /\ q = p
  <2>1. t = InitTask /\ p \in {0, 1} /\ pages[t][p] = KERNEL + p
    BY <1>3, <1>4 DEF NO_FRAME
  <2>2. pages[t][p] \in glb_frames \ (0 .. KERNEL - 1)
    BY <1>1, <2>1 DEF Init
  <2>3. ASSUME NEW u \in Task, NEW q \in Page, pages[u][q] = KERNEL + p
        PROVE  u = t /\ q = p
    BY <1>1, <1>3, <2>1, <2>3
  <2> QED
    BY <2>1, <2>2, <2>3
<1>5. FramesSound
  BY <1>2, <1>3, <1>4 DEF FramesSound, FramesPrivate, TypeOK
<1>6. UsersSound
  BY DEF Init, UsersSound, NoProgram
<1> QED
  BY <1>5, <1>6 DEF IInv

LEMMA ExecIInv ==
    ASSUME IInv, NEW t \in Task, syscall_exec(t)
    PROVE  IInv'
<1>1. PICK program \in Programs :
         LET P == Lacking(t, UNION {Stepped(s.start, s.start + s.len) : s \in program})
         IN  /\ alloc_frames(t, P)
             /\ Touches(t, P, UnitsOf(program))
             /\ user' = [user EXCEPT ![t] =
                   [NoProgram EXCEPT !.pc = "LOADED", !.program = program,
                                     !.brk = LoadedBrk(program)]]
  BY DEF syscall_exec
<1> DEFINE A == UNION {Stepped(s.start, s.start + s.len) : s \in program}
           P == Lacking(t, A)
           b == LoadedBrk(program)
<1>2. A \in SUBSET Int /\ IsFiniteSet(A)
  BY SegmentsFinite
<1>3. /\ alloc_frames(t, P) /\ Touches(t, P, UnitsOf(program))
      /\ user' = [user EXCEPT ![t] =
            [NoProgram EXCEPT !.pc = "LOADED", !.program = program, !.brk = b]]
  BY <1>1
<1> HIDE DEF A
<1>4. P \in SUBSET Int /\ IsFiniteSet(P)
  BY <1>2, LackingFinite
<1> HIDE DEF P
<1>5. FramesSound'
  BY <1>3, <1>4, AllocKeepsFrames DEF IInv
<1>6. b \in Nat
  BY BreakOfProgram
<1> HIDE DEF b
<1>7. UsersSound'
  BY <1>3, <1>6 DEF IInv, UsersSound, NoProgram
<1> QED
  BY <1>5, <1>7 DEF IInv

LEMMA StartupIInv ==
    ASSUME IInv, NEW t \in Task, startup(t)
    PROVE  IInv'
<1> DEFINE A == Stepped(user[t].brk, user[t].brk + HEAP_SIZE)
           P == Lacking(t, A)
<1>1. /\ alloc_frames(t, P) /\ Touches(t, P, {})
      /\ user' = [user EXCEPT ![t].pc = "RUNNING",
                              ![t].brk = @ + HEAP_SIZE,
                              ![t].heap = heap_new(HEAP_SIZE),
                              ![t].heap_size = HEAP_SIZE]
  BY DEF startup, SbrkPages
<1>2. HEAP_SIZE \in Nat /\ user[t].brk \in Int /\ user[t].brk + HEAP_SIZE \in Int
  BY MemoryAssumption DEF IInv, UsersSound
<1>3. A \in SUBSET Int /\ IsFiniteSet(A)
  BY <1>2, SteppedFinite
<1> HIDE DEF A
<1>4. P \in SUBSET Int /\ IsFiniteSet(P)
  BY <1>3, LackingFinite
<1> HIDE DEF P
<1>5. FramesSound'
  BY <1>1, <1>4, AllocKeepsFrames DEF IInv
<1>6. UsersSound'
  BY <1>1, <1>2 DEF IInv, UsersSound, NoProgram
<1> QED
  BY <1>5, <1>6 DEF IInv

\* A try of malloc moves no break: grown, the user with its break and size
\* moved or not, is what it started from.
LEMMA AttemptKeepsUsers ==
    ASSUME UsersSound, NEW t \in Task, NEW h, NEW n, NEW P, NEW grown,
           DOMAIN grown = DOMAIN NoProgram,
           grown.brk \in Nat, grown.heap_size \in Nat,
           Attempt(t, h, n, P, grown)
    PROVE  UsersSound'
<1> DEFINE r == heap_alloc(h, n)
           new == [grown EXCEPT !.heap = r.heap,
                                !.want = IF r.block = NULL THEN n ELSE 0,
                                !.live = IF r.block = NULL THEN @
                                         ELSE @ \cup {[block |-> r.block, size |-> n]}]
<1>1. user' = [user EXCEPT ![t] = new]
  BY DEF Attempt
<1> HIDE DEF r
<1>2. DOMAIN new = DOMAIN NoProgram /\ new.brk \in Nat /\ new.heap_size \in Nat
  BY DEF NoProgram
<1> HIDE DEF new
<1> QED
  BY <1>1, <1>2 DEF UsersSound

LEMMA MallocIInv ==
    ASSUME IInv, NEW t \in Task, malloc(t)
    PROVE  IInv'
<1>1. PICK n \in Requests : Attempt(t, user[t].heap, n, {}, user[t])
  BY DEF malloc
<1>2. glb_frames' = glb_frames /\ pages' = pages
  BY DEF malloc
<1>3. Cardinality({}) <= Cardinality(Unset)
  BY UnsetFrames, FS_EmptySet
<1>4. halted' \in {halted, "PAGE FAULT"}
  BY <1>1, <1>3 DEF Attempt, Touches
<1>5. FramesSound'
  BY <1>2, <1>4, SameFrames DEF IInv
<1>6. UsersSound'
  BY <1>1, AttemptKeepsUsers DEF IInv, UsersSound
<1> QED
  BY <1>5, <1>6 DEF IInv

LEMMA GrowIInv ==
    ASSUME IInv, NEW t \in Task, malloc_grow(t)
    PROVE  IInv'
<1> DEFINE n == user[t].heap_size
           A == Stepped(user[t].brk, user[t].brk + n)
           P == Lacking(t, A)
           grown == [user[t] EXCEPT !.brk = @ + n, !.heap_size = 2 * n]
           h == heap_expand(user[t].heap, n)
<1>1. alloc_frames(t, P) /\ Attempt(t, h, user[t].want, P, grown)
  BY DEF malloc_grow, SbrkPages
<1>2. n \in Nat /\ user[t].brk \in Nat /\ user[t].brk + n \in Nat
  BY DEF IInv, UsersSound
<1>3. DOMAIN grown = DOMAIN NoProgram /\ grown.brk \in Nat /\ grown.heap_size \in Nat
  BY <1>2 DEF IInv, UsersSound, NoProgram
<1> HIDE DEF n, grown, h
<1>4. A \in SUBSET Int /\ IsFiniteSet(A)
  BY <1>2, SteppedFinite
<1> HIDE DEF A
<1>5. P \in SUBSET Int /\ IsFiniteSet(P)
  BY <1>4, LackingFinite
<1> HIDE DEF P
<1>6. PICK units : Touches(t, P, units)
  BY <1>1 DEF Attempt
<1>7. FramesSound'
  BY <1>1, <1>5, <1>6, AllocKeepsFrames DEF IInv
<1>8. UsersSound'
  BY <1>1, <1>3, AttemptKeepsUsers DEF IInv
<1> QED
  BY <1>7, <1>8 DEF IInv

LEMMA FreeIInv ==
    ASSUME IInv, NEW t \in Task, free(t)
    PROVE  IInv'
<1>1. /\ glb_frames' = glb_frames /\ pages' = pages /\ halted' = halted
      /\ \E b \in user[t].live :
            user' = [user EXCEPT ![t].heap = heap_dealloc(@, b.block),
                                 ![t].live = @ \ {b}]
  BY DEF free
<1>2. FramesSound'
  BY <1>1, SameFrames DEF IInv
<1>3. UsersSound'
  BY <1>1 DEF IInv, UsersSound, NoProgram
<1> QED
  BY <1>2, <1>3 DEF IInv

\* fork: the child's pages get frames of their own.
LEMMA ForkIInv ==
    ASSUME IInv, NEW t \in Task, NEW child \in Task, task_fork(t, child)
    PROVE  IInv'
<1> DEFINE P == Mapped(t)
<1>1. /\ alloc_frames(child, P) /\ Touches(child, P, {})
      /\ user' = [user EXCEPT ![child] = user[t]]
  BY DEF task_fork
<1>2. LastPage \in Int
  BY MemoryAssumption
<1>3. IsFiniteSet(Page) /\ Page \in SUBSET Int
  BY <1>2, FS_Interval DEF Page
<1>4. P \in SUBSET Page
  BY DEF Mapped
<1> HIDE DEF P
<1>5. P \in SUBSET Int /\ IsFiniteSet(P)
  BY <1>3, <1>4, FS_Subset
<1>6. FramesSound'
  BY <1>1, <1>5, AllocKeepsFrames DEF IInv
<1>7. UsersSound'
  BY <1>1 DEF IInv, UsersSound
<1> QED
  BY <1>6, <1>7 DEF IInv

\* The end of a task: its frames stay marked, and nobody has them.
LEMMA TaskFreeIInv ==
    ASSUME IInv, NEW t \in Task, task_free(t)
    PROVE  IInv'
<1>1. /\ pages' = [pages EXCEPT ![t] = [p \in Page |-> NO_FRAME]]
      /\ user' = [user EXCEPT ![t] = NoProgram]
      /\ glb_frames' = glb_frames /\ halted' = halted
  BY DEF task_free
<1>2. /\ glb_frames \subseteq Frame
      /\ pages \in [Task -> [Page -> Frame]]
      /\ 0 .. KERNEL - 1 \subseteq glb_frames
      /\ halted \in {"NO", "OUT OF FRAMES", "PAGE FAULT"}
      /\ \A u \in Task, p \in Page : pages[u][p] # NO_FRAME =>
            /\ pages[u][p] \in glb_frames \ (0 .. KERNEL - 1)
            /\ \A v \in Task, q \in Page :
                  pages[v][q] = pages[u][p] => v = u /\ q = p
  BY DEF IInv, FramesSound, FramesPrivate, TypeOK
<1>3. NO_FRAME \in Frame
  BY MemoryAssumption DEF Frame, NO_FRAME
<1>4. /\ pages' \in [Task -> [Page -> Frame]]
      /\ \A u \in Task, p \in Page :
            pages'[u][p] = IF u = t THEN NO_FRAME ELSE pages[u][p]
  BY <1>1, <1>2, <1>3
<1>5. ASSUME NEW u \in Task, NEW p \in Page, pages'[u][p] # NO_FRAME
      PROVE  /\ pages'[u][p] \in glb_frames' \ (0 .. KERNEL - 1)
             /\ \A v \in Task, q \in Page :
                   pages'[v][q] = pages'[u][p] => v = u /\ q = p
  <2>1. u # t /\ pages'[u][p] = pages[u][p] /\ pages[u][p] # NO_FRAME
    BY <1>4, <1>5
  <2>2. ASSUME NEW v \in Task, NEW q \in Page, pages'[v][q] = pages[u][p]
        PROVE  v = u /\ q = p
    <3>1. pages[v][q] = pages[u][p]
      BY <1>4, <2>1, <2>2
    <3> QED
      BY <1>2, <2>1, <3>1
  <2> QED
    BY <1>1, <1>2, <2>1, <2>2
<1>6. FramesSound'
  <2>1. TypeOK'
    BY <1>1, <1>2, <1>4 DEF TypeOK
  <2>2. FramesPrivate'
    BY <1>5, <2>1, Zenon DEF FramesPrivate
  <2> QED
    BY <1>1, <1>2, <2>2 DEF FramesSound
<1>7. UsersSound'
  BY <1>1 DEF IInv, UsersSound, NoProgram
<1> QED
  BY <1>6, <1>7 DEF IInv

\* Every step keeps the invariant.
LEMMA NextIInv == IInv /\ [Next]_vars => IInv'
<1> SUFFICES ASSUME IInv, [Next]_vars PROVE IInv'
  OBVIOUS
<1>1. CASE Next
  BY <1>1, ExecIInv, StartupIInv, MallocIInv, GrowIInv, FreeIInv, ForkIInv,
     TaskFreeIInv DEF Next
<1>2. CASE UNCHANGED vars
  <2>1. /\ glb_frames' = glb_frames /\ pages' = pages /\ halted' = halted
        /\ user' = user
    BY <1>2 DEF vars
  <2>2. FramesSound'
    BY <2>1, SameFrames DEF IInv
  <2>3. UsersSound'
    BY <2>1 DEF IInv, UsersSound
  <2> QED
    BY <2>2, <2>3 DEF IInv
<1> QED
  BY <1>1, <1>2

\* The inductive invariant holds for every machine and every set of programs.
THEOREM Invariance == Spec => []IInv
<1> QED
  BY InitIInv, NextIInv, PTL DEF Spec

(***************************************************************************)
(* The result.                                                             *)
(***************************************************************************)

\* No two pages, of one task or of two, ever have the same frame, and none
\* has one of the kernel's: alloc_frame gives out only frames that are not
\* marked, page_table_clone copies a page into a frame of its own, and no
\* frame is unmarked while a table of pages has it.
THEOREM FramesArePrivate == Spec => []FramesPrivate
<1>1. IInv => FramesPrivate
  BY DEF IInv, FramesSound
<1> QED
  BY <1>1, Invariance, PTL
=============================================================================
