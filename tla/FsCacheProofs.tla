--------------------------- MODULE FsCacheProofs ---------------------------
(***************************************************************************)
(* The cache of inodes, for any finite set of tasks, any tree of paths,    *)
(* any calls and any number of inodes.                                     *)
(*                                                                         *)
(* In order: one krwlock; paths, types and counts; the inductive invariant *)
(* IInv, where a task's pointers, locks and references are related to each *)
(* other; lemmas for the steps that take one lock, release one, or close   *)
(* inodes; one lemma for each action of Next; and the theorems.            *)
(***************************************************************************)
EXTENDS FsCache, QueueLemmas

(***************************************************************************)
(* One krwlock, among the tasks: S sleep in its queue, K were woken and    *)
(* have not entered, HH have entered and not released it.  The last part   *)
(* is lost when somebody goes away and leaves the lock locked.             *)
(***************************************************************************)
LockSound(lock, S, K, HH, leaked) ==
    /\ lock \in Lock
    /\ Range(lock.procq) = S /\ IsInjective(lock.procq)
    /\ Len(lock.opq) = Len(lock.procq)
    /\ \/ leaked
       \/ /\ lock.readers <= Cardinality(HH)
          /\ lock.operation # "NONE" => HH # {}
          /\ lock.procq # << >> => HH # {} \/ K # {}

LEMMA LockFacts ==
    ASSUME NEW lock, NEW S, NEW K, NEW HH \in SUBSET Task, NEW leaked,
           LockSound(lock, S, K, HH, leaked)
    PROVE  /\ lock.procq \in Seq(Task) /\ lock.opq \in Seq({"READ", "WRITE"})
           /\ lock.readers \in Nat /\ lock.operation \in Operations
           /\ Len(lock.procq) \in Nat /\ Len(lock.opq) = Len(lock.procq)
           /\ lock.procq = << >> <=> Len(lock.procq) = 0
           /\ lock.opq = << >> <=> lock.procq = << >>
           /\ S \subseteq Task /\ IsFiniteSet(HH) /\ Cardinality(HH) \in Nat
<1>1. /\ lock.procq \in Seq(Task) /\ lock.opq \in Seq({"READ", "WRITE"})
      /\ lock.readers \in Nat /\ lock.operation \in Operations
      /\ Len(lock.opq) = Len(lock.procq) /\ Range(lock.procq) = S
  BY DEF LockSound, Lock
<1>2. /\ Len(lock.procq) \in Nat /\ S \subseteq Task
      /\ lock.procq = << >> <=> Len(lock.procq) = 0
  BY <1>1, QueueRange
<1>3. lock.opq = << >> <=> Len(lock.opq) = 0
  BY <1>1, QueueRange
<1>4. IsFiniteSet(HH)
  BY TreeAssumption, FS_Subset
<1>5. Cardinality(HH) \in Nat
  BY <1>4, FS_CardinalityType
<1> QED
  BY <1>1, <1>2, <1>3, <1>4, <1>5

\* A new inode's lock, and the one fs_node_child takes for writing.
LEMMA LockNew ==
    ASSUME NEW t \in Task
    PROVE  /\ LockSound(KRWLockInit, {}, {}, {}, FALSE)
           /\ LockSound(LoaderLock, {}, {}, {t}, FALSE)
           /\ LoaderLock.operation = "WRITE" /\ LoaderLock.readers = 0
<1> DEFINE free == KRWLockInit
           taken == LoaderLock
<1>1. /\ << >> \in Seq(Task) /\ << >> \in Seq({"READ", "WRITE"}) /\ Len(<< >>) = 0
      /\ Range(<< >>) = {} /\ IsInjective(<< >>)
  <2>1. << >> \in Seq(Task) /\ << >> \in Seq({"READ", "WRITE"}) /\ Len(<< >>) = 0
    BY EmptySeq
  <2>2. Range(<< >>) = {} /\ DOMAIN << >> = 1 .. 0
    BY <2>1, QueueRange
  <2> QED
    BY <2>1, <2>2 DEF IsInjective
<1>2. /\ free = [procq |-> << >>, opq |-> << >>, readers |-> 0, operation |-> "NONE"]
      /\ taken = [procq |-> << >>, opq |-> << >>, readers |-> 0, operation |-> "WRITE"]
  BY DEF KRWLockInit, LoaderLock, KRWLockWriteEnter
<1>3. free \in Lock /\ taken \in Lock
  BY <1>1, <1>2 DEF Lock, Operations
<1>4. Cardinality({}) = 0
  BY FS_EmptySet
<1>5. IsFiniteSet({t}) /\ Cardinality({t}) = 1
  BY FS_Singleton
<1> HIDE DEF free, taken
<1>6. LockSound(free, {}, {}, {}, FALSE)
  BY <1>1, <1>2, <1>3, <1>4 DEF LockSound
<1>7. LockSound(taken, {}, {}, {t}, FALSE)
  BY <1>1, <1>2, <1>3, <1>5 DEF LockSound
<1> QED
  BY <1>2, <1>6, <1>7 DEF free, taken

\* krwlock_read and krwlock_write past their test, or past their sleep.
LEMMA EnterSound ==
    ASSUME NEW lock, NEW S, NEW K, NEW HH \in SUBSET Task, NEW leaked,
           LockSound(lock, S, K, HH, leaked),
           NEW op \in {"READ", "WRITE"}, NEW t \in Task \ HH, NEW K2
    PROVE  /\ EnterWakes(lock, op) \subseteq S
           /\ LockSound(Entered(lock, op), S \ EnterWakes(lock, op), K2,
                        HH \cup {t}, leaked)
<1>1. /\ lock.procq \in Seq(Task) /\ lock.opq \in Seq({"READ", "WRITE"})
      /\ lock.readers \in Nat /\ lock.operation \in Operations
      /\ Len(lock.procq) \in Nat /\ Len(lock.opq) = Len(lock.procq)
      /\ S \subseteq Task /\ IsFiniteSet(HH) /\ Cardinality(HH) \in Nat
      /\ lock \in Lock
      /\ Range(lock.procq) = S /\ IsInjective(lock.procq)
      /\ leaked \/ lock.readers <= Cardinality(HH)
  BY LockFacts DEF LockSound
<1>2. Cardinality(HH \cup {t}) = Cardinality(HH) + 1 /\ HH \cup {t} # {}
  BY <1>1, FS_AddElement
<1>3. CASE op = "READ"
  <2> DEFINE n == LeadingReads(lock.opq)
             q == SubSeq(lock.procq, n + 1, Len(lock.procq))
             o == SubSeq(lock.opq, n + 1, Len(lock.opq))
             w == {lock.procq[i] : i \in 1 .. n}
             r == Entered(lock, op)
  <2>1. n \in 0 .. Len(lock.opq) /\ n \in 0 .. Len(lock.procq)
    BY <1>1, LeadingReadsBound
  <2>2. EnterWakes(lock, op) = w
    BY <1>3 DEF EnterWakes, KRWLockReadWakes
  <2>3. r = [procq |-> q, opq |-> o, readers |-> lock.readers + 1, operation |-> "READ"]
    BY <1>3 DEF Entered, KRWLockReadEnter
  <2> HIDE DEF n
  <2>4. /\ q \in Seq(Task) /\ Len(q) = Len(lock.procq) - n
        /\ Range(q) = Range(lock.procq) \ w /\ IsInjective(q)
    <3>1. /\ lock.procq \in Seq(Task) /\ n \in 0 .. Len(lock.procq)
          /\ IsInjective(lock.procq)
      BY <1>1, <2>1
    <3>2. /\ q \in Seq(Task)
          /\ Len(q) = Len(lock.procq) - n
          /\ IsInjective(lock.procq) =>
                /\ Range(q) = Range(lock.procq) \ {lock.procq[i] : i \in 1 .. n}
                /\ IsInjective(q)
      BY <3>1, DropProperties
    <3> QED
      BY <3>1, <3>2
  <2>5. o \in Seq({"READ", "WRITE"}) /\ Len(o) = Len(lock.opq) - n
    BY <1>1, <2>1, DropProperties
  <2>6. w \subseteq Range(lock.procq)
    BY <1>1, <2>1, QueueRange
  <2> HIDE DEF q, o, w, r
  <2>7. r \in Lock
    BY <1>1, <2>3, <2>4, <2>5 DEF Lock, Operations
  <2>8. LockSound(r, S \ w, K2, HH \cup {t}, leaked)
    <3>1. leaked \/ r.readers <= Cardinality(HH \cup {t})
      BY <1>1, <1>2, <2>3
    <3> QED
      BY <1>1, <1>2, <2>3, <2>4, <2>5, <2>7, <3>1 DEF LockSound
  <2> QED
    BY <1>1, <2>2, <2>6, <2>8 DEF r
<1>4. CASE op = "WRITE"
  <2> DEFINE r == Entered(lock, op)
  <2>1. EnterWakes(lock, op) = {}
    BY <1>4 DEF EnterWakes
  <2>2. r = [procq |-> lock.procq, opq |-> lock.opq, readers |-> lock.readers,
             operation |-> "WRITE"]
    BY <1>1, <1>4 DEF Entered, KRWLockWriteEnter, Lock
  <2> HIDE DEF r
  <2>3. r \in Lock
    BY <1>1, <2>2 DEF Lock, Operations
  <2>4. leaked \/ r.readers <= Cardinality(HH \cup {t})
    BY <1>1, <1>2, <2>2
  <2>5. LockSound(r, S, K2, HH \cup {t}, leaked)
    BY <1>1, <1>2, <2>2, <2>3, <2>4 DEF LockSound
  <2> QED
    BY <2>1, <2>5 DEF r
<1> QED
  BY <1>3, <1>4

\* The sleep in krwlock_read and krwlock_write: who sleeps, sleeps behind a
\* task that will release the lock.
LEMMA EnqueueSound ==
    ASSUME NEW lock, NEW S, NEW K, NEW HH \in SUBSET Task, NEW leaked,
           LockSound(lock, S, K, HH, leaked),
           NEW op \in {"READ", "WRITE"}, Blocks(lock, op),
           NEW t \in Task \ S, NEW K2
    PROVE  LockSound(KRWLockEnqueue(lock, t, op), S \cup {t}, K2, HH, leaked)
<1> DEFINE r == KRWLockEnqueue(lock, t, op)
<1>1. /\ lock.procq \in Seq(Task) /\ lock.opq \in Seq({"READ", "WRITE"})
      /\ lock.readers \in Nat /\ lock.operation \in Operations
      /\ Len(lock.procq) \in Nat /\ Len(lock.opq) = Len(lock.procq)
      /\ lock \in Lock
      /\ Range(lock.procq) = S /\ IsInjective(lock.procq)
  BY LockFacts DEF LockSound
<1>2. r = [procq |-> Append(lock.procq, t), opq |-> Append(lock.opq, op),
           readers |-> lock.readers, operation |-> lock.operation]
  BY <1>1 DEF KRWLockEnqueue
<1>3. /\ Append(lock.procq, t) \in Seq(Task)
      /\ Len(Append(lock.procq, t)) = Len(lock.procq) + 1
      /\ Range(Append(lock.procq, t)) = S \cup {t}
      /\ IsInjective(Append(lock.procq, t))
  BY <1>1, PushProperties
<1>4. /\ Append(lock.opq, op) \in Seq({"READ", "WRITE"})
      /\ Len(Append(lock.opq, op)) = Len(lock.opq) + 1
  BY <1>1, PushProperties
<1>5. lock.operation # "NONE"
  BY <1>1 DEF Blocks, KRWLockReadBlocks, KRWLockWriteBlocks
<1> HIDE DEF r
<1>6. r \in Lock
  BY <1>1, <1>2, <1>3, <1>4 DEF Lock
<1>7. LockSound(r, S \cup {t}, K2, HH, leaked)
  BY <1>1, <1>2, <1>3, <1>4, <1>5, <1>6 DEF LockSound
<1> QED
  BY <1>2, <1>7 DEF r

\* krwlock_release wakes a task that sleeps in the queue.
LEMMA ReleaseWakesQueued ==
    ASSUME NEW lock, NEW S, NEW K, NEW HH \in SUBSET Task, NEW leaked,
           LockSound(lock, S, K, HH, leaked)
    PROVE  KRWLockReleaseWakes(lock) \subseteq S
<1>1. lock.procq \in Seq(Task) /\ Range(lock.procq) = S /\ IsInjective(lock.procq)
  BY LockFacts DEF LockSound
<1>2. lock.procq # << >> => Head(lock.procq) \in Range(lock.procq)
  BY <1>1, PopProperties
<1> QED
  BY <1>1, <1>2 DEF KRWLockReleaseWakes

\* krwlock_release: whoever is left in the queue sleeps behind a reader that is
\* still counted, or behind the task woken.
LEMMA ReleaseSound ==
    ASSUME NEW lock, NEW S, NEW K, NEW HH \in SUBSET Task, NEW leaked,
           LockSound(lock, S, K, HH, leaked),
           NEW t \in HH, NEW K2, KRWLockReleaseWakes(lock) \subseteq K2
    PROVE  LockSound(KRWLockRelease(lock), S \ KRWLockReleaseWakes(lock), K2,
                     HH \ {t}, leaked)
<1> DEFINE w == KRWLockReleaseWakes(lock)
           r == KRWLockRelease(lock)
           wakes == KRWLockFrees(lock) /\ lock.procq # << >>
<1>1. /\ lock.procq \in Seq(Task) /\ lock.opq \in Seq({"READ", "WRITE"})
      /\ lock.readers \in Nat /\ lock.operation \in Operations
      /\ Len(lock.procq) \in Nat /\ Len(lock.opq) = Len(lock.procq)
      /\ lock.procq = << >> <=> Len(lock.procq) = 0
      /\ lock.opq = << >> <=> lock.procq = << >>
      /\ IsFiniteSet(HH) /\ Cardinality(HH) \in Nat
      /\ Range(lock.procq) = S /\ IsInjective(lock.procq)
      /\ \/ leaked
         \/ /\ lock.readers <= Cardinality(HH)
            /\ lock.operation # "NONE" => HH # {}
  BY LockFacts DEF LockSound
<1>2. /\ IsFiniteSet(HH \ {t})
      /\ Cardinality(HH \ {t}) = Cardinality(HH) - 1
      /\ Cardinality(HH \ {t}) \in Nat
      /\ HH \ {t} = {} <=> Cardinality(HH \ {t}) = 0
  <2>1. /\ IsFiniteSet(HH \ {t})
        /\ Cardinality(HH \ {t}) = Cardinality(HH) - 1
    BY <1>1, FS_RemoveElement
  <2> QED
    BY <2>1, FS_CardinalityType, FS_EmptySet
<1>3. w = IF wakes THEN {Head(lock.procq)} ELSE {}
  BY DEF KRWLockReleaseWakes
<1>4. r = [procq     |-> IF wakes THEN Tail(lock.procq) ELSE lock.procq,
           opq       |-> IF wakes THEN Tail(lock.opq) ELSE lock.opq,
           readers   |-> IF lock.readers = 0 THEN 0 ELSE lock.readers - 1,
           operation |-> IF lock.readers <= 1 THEN "NONE" ELSE lock.operation]
  BY DEF KRWLockRelease, KRWLockFrees
<1>5. wakes <=> lock.readers <= 1 /\ lock.procq # << >>
  BY DEF KRWLockFrees
<1> HIDE DEF r, w, wakes
<1>6. r.readers \in Nat /\ r.operation \in Operations
  BY <1>1, <1>4 DEF Operations
<1>7. leaked \/ (r.readers <= Cardinality(HH \ {t}) /\ (r.operation # "NONE" => HH \ {t} # {}))
  BY <1>1, <1>2, <1>4
<1>8. CASE wakes
  <2>1. /\ Tail(lock.procq) \in Seq(Task) /\ Len(Tail(lock.procq)) = Len(lock.procq) - 1
        /\ Range(Tail(lock.procq)) = Range(lock.procq) \ {Head(lock.procq)}
        /\ IsInjective(Tail(lock.procq)) /\ Head(lock.procq) \in Range(lock.procq)
    BY <1>1, <1>5, <1>8, PopProperties
  <2>2. /\ Tail(lock.opq) \in Seq({"READ", "WRITE"})
        /\ Len(Tail(lock.opq)) = Len(lock.opq) - 1
    BY <1>1, <1>5, <1>8, PopProperties
  <2>3. r \in Lock
    BY <1>4, <1>6, <1>8, <2>1, <2>2 DEF Lock
  <2>4. w = {Head(lock.procq)} /\ K2 # {}
    BY <1>3, <1>8 DEF w
  <2> QED
    BY <1>1, <1>4, <1>7, <1>8, <2>1, <2>2, <2>3, <2>4 DEF LockSound, r, w
<1>9. CASE ~ wakes
  <2>1. w = {} /\ r.procq = lock.procq /\ r.opq = lock.opq
    BY <1>3, <1>4, <1>9
  <2>2. r \in Lock
    BY <1>1, <1>4, <1>6, <1>9 DEF Lock
  <2>3. leaked \/ (r.procq # << >> => HH \ {t} # {})
    <3>1. r.procq # << >> => lock.readers > 1
      BY <1>1, <1>5, <1>9, <2>1
    <3> QED
      BY <1>1, <1>2, <3>1
  <2> QED
    BY <1>1, <1>7, <2>1, <2>2, <2>3 DEF LockSound, r, w
<1> QED
  BY <1>8, <1>9

(***************************************************************************)
(* The inductive invariant.                                                *)
(***************************************************************************)
First(s, i) == SubSeq(s, 1, i)

\* What pc, at, loaded and call have to do with each other.
Shape(t) ==
    /\ pc[t] \in Idle => at[t] = NULL /\ loaded[t] = << >>
    /\ pc[t] \notin Idle => at[t] \in Node
    /\ pc[t] \in Idle \ {"user"} => fd[t] # NULL
    /\ pc[t] \in {"child", "missed"} => at[t] = parentOf(t)
    /\ pc[t] = "loading" => loaded[t] # << >>
    /\ pc[t] \notin Idle \cup {"opened"} /\ call[t].create => call[t].dir # "any"
    /\ pc[t] \in {"allocated", "created"} => call[t].create
    /\ pc[t] \in Walking => Len(loaded[t]) <= Len(call[t].path)
    /\ pc[t] = "examine" => Len(loaded[t]) < Len(call[t].path)
    /\ pc[t] \in Opening =>
          Len(loaded[t]) = IF Len(call[t].path) > 2 THEN 2 ELSE Len(call[t].path)

\* The length of the path of the first inode that is still in loaded.
Base(t) == IF pc[t] \in Opening THEN Len(call[t].path) - Len(loaded[t]) ELSE 0

\* The inode of a descriptor has its directory for a parent.
FdPath(t) ==
    fd[t] # NULL =>
        \/ mem[fd[t]].path = << >> /\ mem[fd[t]].parent = NULL
        \/ /\ mem[fd[t]].path # << >> /\ mem[fd[t]].parent # NULL
           /\ mem[mem[fd[t]].parent].path
                = First(mem[fd[t]].path, Len(mem[fd[t]].path) - 1)
FdKinds(t) ==
    fd[t] # NULL =>
        /\ mem[fd[t]].kind \in {"file", "dir"}
        /\ mem[fd[t]].parent # NULL => mem[mem[fd[t]].parent].kind # Junk

\* The inodes a task has are those on the path it opens.
PathsFit(t) ==
    /\ \A i \in 1 .. Len(loaded[t]) :
          mem[loaded[t][i]].path = First(call[t].path, Base(t) + i - 1)
    /\ pc[t] \in {"loop", "examine", "loading"} \cup Opening =>
          mem[at[t]].path = First(call[t].path, Base(t) + Len(loaded[t]))
    /\ FdPath(t)

\* They are read from the disk, but for the one that is being loaded and those
\* just found in the cache.
KindsRead(t) ==
    /\ \A i \in 1 .. Len(loaded[t]) : mem[loaded[t][i]].kind # Junk
    /\ FdKinds(t)
    /\ pc[t] = "loading" => mem[at[t]].kind = Junk

\* A task that sleeps in a lock goes on where it has that lock.
WantFits(t) ==
    want[t] # NoWant =>
        /\ want[t].node \in Node /\ want[t].op \in {"READ", "WRITE"}
        /\ \/ pc[t] \in {"examine", "missed", "locked"} /\ want[t].node = at[t]
           \/ pc[t] = "lockparent" /\ want[t].node = gparentOf(t)
           \/ pc[t] = "locknode" /\ want[t].node = parentOf(t)
           \/ pc[t] \in {"reading", "writing"} /\ want[t].node = fd[t]
           \/ pc[t] = "locksecond" /\ want[t].node = mem[fd[t]].parent

\* The inodes that are locked where a task is: each lock from the step that
\* enters it to the one that releases it.
Holds(t) ==
    {n \in Node :
        /\ n # want[t].node
        /\ \/ /\ n = at[t]
              /\ pc[t] \in {"examine", "missed", "loading", "locked", "allocated",
                            "created", "opened"}
           \/ /\ n = parentOf(t)
              /\ pc[t] \in {"loading", "locknode", "locked", "allocated", "created",
                            "opened"}
           \/ /\ n = gparentOf(t)
              /\ pc[t] \in {"lockparent", "locknode", "locked", "allocated",
                            "created", "opened"}
           \/ n = fd[t] /\ pc[t] \in {"reading", "read", "writing", "written"}
           \/ n = mem[fd[t]].parent /\ pc[t] \in {"locksecond", "writing", "written"}}

Holders(n) == {t \in Task : n \in Holds(t)}
Waiters(n) == {t \in Task : want[t].node = n}

LocksSound ==
    \A n \in inodelist :
        LockSound(mem[n].lock, Waiters(n) \ ready, Waiters(n) \cap ready, Holders(n),
                  mem[n].leaked)

\* An inode that is not read yet is locked by the task that loads it, and
\* nobody else has come past the lock, or is about to.
JunkLocked ==
    \A n \in inodelist :
        mem[n].kind = Junk =>
            /\ mem[n].lock.operation = "WRITE" /\ mem[n].lock.readers = 0
            /\ Waiters(n) \cap ready = {}
            /\ \E t \in Task : pc[t] = "loading" /\ at[t] = n /\ Holders(n) = {t}

\* The pointers of a task that are counted: the inode it is at (which in child
\* and missed is the last of loaded), its descriptor's and the parent of that,
\* and those in loaded.
Points(t, i, n) ==
    \/ i = 0 /\ at[t] = n /\ pc[t] \notin {"child", "missed"}
    \/ i = 1 /\ fd[t] = n
    \/ i = 2 /\ fd[t] # NULL /\ mem[fd[t]].parent = n
    \/ i = 3 /\ \E j \in 1 .. Len(loaded[t]) : loaded[t][j] = n
Slots(n) == {s \in Task \X (0 .. 3) : Points(s[1], s[2], n)}

\* Whatever was not taken from the cache uncounted has a reference for each
\* pointer to it; the root has one more.
CountFits(n) ==
    ~ mem[n].hit => Cardinality(Slots(n)) + (IF n = root THEN 1 ELSE 0) <= mem[n].refs
RefsCounted == \A n \in Node : CountFits(n)

RootSound == mem[root].path = << >> /\ ~ mem[root].hit /\ mem[root].refs > 0

PathsUnique == \A m, n \in inodelist : mem[m].path = mem[n].path => m = n

Sound ==
    /\ \A t \in Task : PathsFit(t) /\ KindsRead(t) /\ WantFits(t)
    /\ LocksSound
    /\ JunkLocked

IInv ==
    /\ TypeOK
    /\ PathsUnique
    /\ \A t \in Task : Shape(t)
    /\ RootSound
    /\ RefsCounted
    /\ ~ Dangling => Sound

(***************************************************************************)
(* Paths, types, and counts.                                               *)
(***************************************************************************)
\* The prefixes of a path.
LEMMA FirstProperties ==
    ASSUME NEW p \in Path, NEW i \in 0 .. Len(p)
    PROVE  /\ First(p, i) \in Path /\ Len(First(p, i)) = i
           /\ First(p, Len(p)) = p
           /\ Len(p) \in Nat /\ (p = << >> <=> Len(p) = 0)
           /\ First(p, 0) = << >>
           /\ \A j \in 0 .. i : First(First(p, i), j) = First(p, j)
<1>1. p \in Seq(Name) /\ Len(p) \in Nat /\ (p = << >> <=> Len(p) = 0)
  BY TreeAssumption, QueueRange
<1>2. First(p, i) \in Path
  BY TreeAssumption DEF First
<1>3. ASSUME NEW k \in 0 .. Len(p)
      PROVE  /\ First(p, k) \in Seq(Name) /\ Len(First(p, k)) = k
             /\ \A j \in 1 .. k : First(p, k)[j] = p[j]
  <2>1. \A j \in 1 .. k : p[j] \in Name
    BY <1>1, ElementOfSeq
  <2>2. /\ SubSeq(p, 1, k) \in Seq(Name)
        /\ Len(SubSeq(p, 1, k)) = IF 1 <= k THEN k - 1 + 1 ELSE 0
        /\ \A j \in 1 .. k - 1 + 1 : SubSeq(p, 1, k)[j] = p[1 + j - 1]
    BY <1>1, <2>1, SubSeqProperties
  <2>3. Len(SubSeq(p, 1, k)) = k
    BY <2>2, <1>1
  <2>4. ASSUME NEW j \in 1 .. k PROVE SubSeq(p, 1, k)[j] = p[j]
    <3>1. j \in 1 .. k - 1 + 1 /\ 1 + j - 1 = j
      BY <1>1
    <3> QED
      BY <3>1, <2>2
  <2> QED
    BY <2>2, <2>3, <2>4 DEF First
<1>4. First(p, Len(p)) = p
  <2>1. Len(p) \in 0 .. Len(p)
    BY <1>1
  <2>2. /\ First(p, Len(p)) \in Seq(Name) /\ Len(First(p, Len(p))) = Len(p)
        /\ \A j \in 1 .. Len(p) : First(p, Len(p))[j] = p[j]
    BY <2>1, <1>3
  <2> QED
    BY <1>1, <2>2, SeqEqual
<1>5. First(p, 0) = << >>
  <2>1. First(p, 0) \in Seq(Name) /\ Len(First(p, 0)) = 0
    BY <1>1, <1>3
  <2> QED
    BY <2>1, QueueRange
<1>6. ASSUME NEW j \in 0 .. i PROVE First(First(p, i), j) = First(p, j)
  <2> DEFINE r == First(p, i)
  <2>0. i \in Nat /\ i <= Len(p) /\ j \in Nat /\ j <= i /\ j \in 0 .. Len(p)
    BY <1>1
  <2>1. r \in Seq(Name) /\ Len(r) = i /\ \A k \in 1 .. i : r[k] = p[k]
    BY <1>3
  <2> HIDE DEF r
  <2>2. \A k \in 1 .. j : r[k] \in Name
    BY <2>0, <2>1, ElementOfSeq
  <2>3. /\ SubSeq(r, 1, j) \in Seq(Name)
        /\ Len(SubSeq(r, 1, j)) = IF 1 <= j THEN j - 1 + 1 ELSE 0
        /\ \A k \in 1 .. j - 1 + 1 : SubSeq(r, 1, j)[k] = r[1 + k - 1]
    BY <2>0, <2>1, <2>2, SubSeqProperties
  <2>4. Len(SubSeq(r, 1, j)) = j
    BY <2>0, <2>3
  <2>5. ASSUME NEW k \in 1 .. j PROVE SubSeq(r, 1, j)[k] = p[k]
    <3>1. k \in 1 .. j - 1 + 1 /\ 1 + k - 1 = k /\ k \in 1 .. i
      BY <2>0
    <3> QED
      BY <3>1, <2>1, <2>3
  <2>6. /\ First(p, j) \in Seq(Name) /\ Len(First(p, j)) = j
        /\ \A k \in 1 .. j : First(p, j)[k] = p[k]
    BY <2>0, <1>3
  <2>7. SubSeq(r, 1, j) = First(p, j)
    BY <2>3, <2>4, <2>5, <2>6, SeqEqual
  <2> QED
    BY <2>7 DEF First, r
<1> QED
  BY <1>1, <1>2, <1>3, <1>4, <1>5, <1>6

\* How a count changes with one element gained, and one lost.
LEMMA CountChange ==
    ASSUME NEW A \in SUBSET (Task \X (0 .. 3)), NEW B, NEW x, NEW y
    PROVE  /\ Cardinality(A) \in Nat /\ (A # {} => Cardinality(A) > 0)
           /\ B \subseteq A => Cardinality(B) <= Cardinality(A)
           /\ B \subseteq A \cup {x} => Cardinality(B) <= Cardinality(A) + 1
           /\ y \in A /\ B \subseteq A \ {y} => Cardinality(B) <= Cardinality(A) - 1
           /\ y \in A /\ B \subseteq (A \ {y}) \cup {x} => Cardinality(B) <= Cardinality(A)
           /\ B \subseteq A \cup {x} => Cardinality(B) \in Nat
<1>1. IsFiniteSet(0 .. 3)
  <2>1. 0 \in Int /\ 3 \in Int
    OBVIOUS
  <2>2. \A a, b \in Int : IsFiniteSet(a .. b)
    BY FS_Interval
  <2> QED
    BY <2>1, <2>2, Zenon
<1>2. IsFiniteSet(Task \X (0 .. 3))
  BY <1>1, TreeAssumption, FS_Product
<1>3. IsFiniteSet(A)
  BY <1>2, FS_Subset
<1>4. Cardinality(A) \in Nat
  BY <1>3, FS_CardinalityType
<1>5. A # {} => Cardinality(A) > 0
  BY <1>3, <1>4, FS_EmptySet
<1>6. /\ IsFiniteSet(A \cup {x})
      /\ Cardinality(A \cup {x}) <= Cardinality(A) + 1
      /\ Cardinality(A \cup {x}) \in Nat
  <2>1. IsFiniteSet(A \cup {x})
        /\ Cardinality(A \cup {x}) = IF x \in A THEN Cardinality(A) ELSE Cardinality(A) + 1
    BY <1>3, FS_AddElement
  <2> QED
    BY <2>1, <1>4
<1>7. ASSUME B \subseteq A \cup {x}
      PROVE  IsFiniteSet(B) /\ Cardinality(B) \in Nat
             /\ Cardinality(B) <= Cardinality(A \cup {x})
  <2>1. B \in SUBSET (A \cup {x})
    BY <1>7
  <2>2. IsFiniteSet(B) /\ Cardinality(B) <= Cardinality(A \cup {x})
    BY <2>1, <1>6, FS_Subset
  <2> QED
    BY <2>2, FS_CardinalityType
<1>8. ASSUME B \subseteq A PROVE Cardinality(B) <= Cardinality(A)
  <2>1. B \in SUBSET A
    BY <1>8
  <2> QED
    BY <2>1, <1>3, FS_Subset
<1>9. ASSUME y \in A
      PROVE  /\ IsFiniteSet(A \ {y}) /\ Cardinality(A \ {y}) = Cardinality(A) - 1
             /\ Cardinality(A \ {y}) \in Nat
  <2>1. IsFiniteSet(A \ {y}) /\ Cardinality(A \ {y}) = Cardinality(A) - 1
    BY <1>3, <1>9, FS_RemoveElement
  <2> QED
    BY <2>1, FS_CardinalityType
<1>10. ASSUME y \in A, B \subseteq A \ {y} PROVE Cardinality(B) <= Cardinality(A) - 1
  <2>1. B \in SUBSET (A \ {y})
    BY <1>10
  <2>2. Cardinality(B) <= Cardinality(A \ {y})
    BY <2>1, <1>9, <1>10, FS_Subset
  <2> QED
    BY <2>2, <1>9, <1>10
<1>11. ASSUME y \in A, B \subseteq (A \ {y}) \cup {x}
       PROVE  Cardinality(B) <= Cardinality(A)
  <2>1. B \in SUBSET ((A \ {y}) \cup {x})
    BY <1>11
  <2>2. /\ IsFiniteSet((A \ {y}) \cup {x})
        /\ Cardinality((A \ {y}) \cup {x})
             = IF x \in A \ {y} THEN Cardinality(A \ {y}) ELSE Cardinality(A \ {y}) + 1
    BY <1>9, <1>11, FS_AddElement
  <2>3. Cardinality(B) <= Cardinality((A \ {y}) \cup {x})
    BY <2>1, <2>2, FS_Subset
  <2>4. IsFiniteSet(B) /\ Cardinality(B) \in Nat
    BY <2>1, <2>2, FS_Subset, FS_CardinalityType
  <2> QED
    BY <1>4, <1>9, <1>11, <2>2, <2>3, <2>4
<1>12. B \subseteq A \cup {x} => Cardinality(B) <= Cardinality(A) + 1
  BY <1>4, <1>6, <1>7
<1> QED
  BY <1>4, <1>5, <1>7, <1>8, <1>10, <1>11, <1>12

\* fs_node_close of inodes that are different from each other.
LEMMA ClosedOnce ==
    ASSUME NEW m, NEW D, NEW ns \in [D -> Node \cup {NULL}],
           \A i, j \in D : ns[i] = ns[j] => i = j,
           NEW n \in Node
    PROVE  /\ (\A i \in D : ns[i] # n) => Closed(m, ns)[n] = m[n]
           /\ (\E i \in D : ns[i] = n) =>
                 Closed(m, ns)[n] = IF m[n].refs > 1 THEN [m[n] EXCEPT !.refs = @ - 1]
                                    ELSE [Blank EXCEPT !.hit = m[n].hit]
<1> DEFINE I == {i \in DOMAIN ns : ns[i] = n}
<1>1. DOMAIN ns = D
  OBVIOUS
<1>2. Closed(m, ns)[n] =
        LET k == Cardinality(I)
        IN  IF k = 0 THEN m[n]
            ELSE IF m[n].refs > k THEN [m[n] EXCEPT !.refs = @ - k]
            ELSE [Blank EXCEPT !.hit = m[n].hit]
  BY DEF Closed
<1>3. ASSUME \A i \in D : ns[i] # n PROVE Closed(m, ns)[n] = m[n]
  <2>1. I = {}
    BY <1>1, <1>3
  <2>2. Cardinality(I) = 0
    BY <2>1, FS_EmptySet
  <2> HIDE DEF I
  <2> QED
    BY <1>2, <2>2
<1>4. ASSUME \E i \in D : ns[i] = n
      PROVE  Closed(m, ns)[n] = IF m[n].refs > 1 THEN [m[n] EXCEPT !.refs = @ - 1]
                                ELSE [Blank EXCEPT !.hit = m[n].hit]
  <2>1. PICK i \in D : ns[i] = n
    BY <1>4
  <2>2. I = {i}
    BY <1>1, <2>1
  <2>3. Cardinality(I) = 1
    BY <2>2, FS_Singleton
  <2> HIDE DEF I
  <2> QED
    BY <1>2, <2>3
<1> QED
  BY <1>3, <1>4

(***************************************************************************)
(* What the invariant says of one task and of one inode.                   *)
(***************************************************************************)
LEMMA NodeFacts ==
    ASSUME TypeOK, NEW n \in Node
    PROVE  /\ mem[n] \in Inode /\ n # NULL /\ NULL \notin Node /\ root \in Node
           /\ mem[n].path \in Path /\ Len(mem[n].path) \in Nat
           /\ mem[n].path = << >> <=> Len(mem[n].path) = 0
           /\ mem[n].refs \in 0 .. MaxRefs /\ mem[n].refs \in Nat
           /\ mem[n].kind \in Kind /\ mem[n].parent \in Node \cup {NULL}
           /\ mem[n].lock \in Lock /\ mem[n].hit \in BOOLEAN /\ mem[n].leaked \in BOOLEAN
<1>1. mem[n] \in Inode
  BY DEF TypeOK
<1>2. n # NULL /\ NULL \notin Node /\ root \in Node
  BY TreeAssumption DEF Node, NULL, root
<1>3. /\ mem[n].path \in Path
      /\ mem[n].refs \in 0 .. MaxRefs
      /\ mem[n].kind \in Kind /\ mem[n].parent \in Node \cup {NULL}
      /\ mem[n].lock \in Lock /\ mem[n].hit \in BOOLEAN /\ mem[n].leaked \in BOOLEAN
  BY <1>1 DEF Inode
<1>4. mem[n].refs \in Nat
  BY <1>3, TreeAssumption
<1>5. Len(mem[n].path) \in Nat /\ (mem[n].path = << >> <=> Len(mem[n].path) = 0)
  BY <1>3, TreeAssumption, QueueRange
<1> QED
  BY <1>1, <1>2, <1>3, <1>4, <1>5

LEMMA TaskFacts ==
    ASSUME TypeOK, NEW t \in Task
    PROVE  /\ pc[t] \in Idle \cup Walking \cup Opening
           /\ call[t] \in Call /\ call[t].path \in Path
           /\ Len(call[t].path) \in Nat /\ (call[t].path = << >> <=> Len(call[t].path) = 0)
           /\ at[t] \in Node \cup {NULL} /\ fd[t] \in Node \cup {NULL}
           /\ loaded[t] \in Seq(Node) /\ Len(loaded[t]) \in Nat
           /\ loaded[t] = << >> <=> Len(loaded[t]) = 0
           /\ \A i \in 1 .. Len(loaded[t]) : loaded[t][i] \in Node
           /\ want[t] \in [node : Node \cup {NULL}, op : Operations]
           /\ parentOf(t) \in Node \cup {NULL} /\ gparentOf(t) \in Node \cup {NULL}
           /\ parentOf(t) = NULL <=> loaded[t] = << >>
           /\ gparentOf(t) = NULL <=> Len(loaded[t]) < 2
           /\ loaded[t] # << >> => parentOf(t) = loaded[t][Len(loaded[t])]
           /\ Len(loaded[t]) >= 2 => gparentOf(t) = loaded[t][1]
           /\ NULL \notin Node
           /\ want[t] = NoWant <=> want[t].node = NULL /\ want[t].op = "NONE"
<1>1. /\ pc[t] \in Idle \cup Walking \cup Opening
      /\ call[t] \in Call
      /\ at[t] \in Node \cup {NULL} /\ fd[t] \in Node \cup {NULL}
      /\ loaded[t] \in Seq(Node)
      /\ want[t] \in [node : Node \cup {NULL}, op : Operations]
  BY DEF TypeOK
<1>2. call[t].path \in Path
  BY <1>1 DEF Call
<1>3. Len(call[t].path) \in Nat /\ (call[t].path = << >> <=> Len(call[t].path) = 0)
  BY <1>2, TreeAssumption, QueueRange
<1>4. /\ Len(loaded[t]) \in Nat /\ (loaded[t] = << >> <=> Len(loaded[t]) = 0)
      /\ \A i \in 1 .. Len(loaded[t]) : loaded[t][i] \in Node
  BY <1>1, QueueRange, ElementOfSeq
<1>5. NULL \notin Node
  BY TreeAssumption DEF Node, NULL
<1>6. loaded[t] # << >> => parentOf(t) = loaded[t][Len(loaded[t])] /\ parentOf(t) \in Node
  BY <1>4 DEF parentOf
<1>7. loaded[t] = << >> => parentOf(t) = NULL
  BY DEF parentOf
<1>8. Len(loaded[t]) >= 2 => gparentOf(t) = loaded[t][1] /\ gparentOf(t) \in Node
  BY <1>4 DEF gparentOf
<1>9. Len(loaded[t]) < 2 => gparentOf(t) = NULL
  BY <1>4 DEF gparentOf
<1>10. want[t] = NoWant <=> want[t].node = NULL /\ want[t].op = "NONE"
  BY <1>1 DEF NoWant
<1>11. Len(loaded[t]) >= 2 <=> ~ (Len(loaded[t]) < 2)
  BY <1>4
<1> QED
  BY <1>1, <1>2, <1>3, <1>4, <1>5, <1>6, <1>7, <1>8, <1>9, <1>10, <1>11

\* What a task points to is in memory.
LEMMA PointerFacts ==
    ASSUME TypeOK, NEW t \in Task
    PROVE  /\ Pointers(t) \subseteq Node
           /\ at[t] # NULL => at[t] \in Pointers(t)
           /\ fd[t] # NULL => /\ fd[t] \in Pointers(t)
                              /\ mem[fd[t]].parent \in Node \cup {NULL}
                              /\ mem[fd[t]].parent # NULL => mem[fd[t]].parent \in Pointers(t)
           /\ \A i \in 1 .. Len(loaded[t]) : loaded[t][i] \in Pointers(t)
           /\ parentOf(t) # NULL => parentOf(t) \in Pointers(t)
           /\ gparentOf(t) # NULL => gparentOf(t) \in Pointers(t)
           /\ ~ Dangling => Pointers(t) \subseteq inodelist
           /\ \A n \in Node : n \in inodelist <=> mem[n].refs # 0
           /\ \A n \in Pointers(t) :
                 \/ \E i \in 1 .. Len(loaded[t]) : loaded[t][i] = n
                 \/ n = at[t] \/ n = fd[t]
                 \/ fd[t] # NULL /\ n = mem[fd[t]].parent
<1>1. /\ at[t] \in Node \cup {NULL} /\ fd[t] \in Node \cup {NULL}
      /\ loaded[t] \in Seq(Node) /\ Len(loaded[t]) \in Nat
      /\ loaded[t] = << >> <=> Len(loaded[t]) = 0
      /\ parentOf(t) # NULL => loaded[t] # << >> /\ parentOf(t) = loaded[t][Len(loaded[t])]
      /\ gparentOf(t) # NULL => Len(loaded[t]) >= 2 /\ gparentOf(t) = loaded[t][1]
      /\ \A i \in 1 .. Len(loaded[t]) : loaded[t][i] \in Node
      /\ NULL \notin Node
  BY TaskFacts
<1>2. fd[t] # NULL => mem[fd[t]].parent \in Node \cup {NULL}
  BY <1>1, NodeFacts
<1>3. Range(loaded[t]) = {loaded[t][i] : i \in 1 .. Len(loaded[t])}
  BY <1>1, QueueRange
<1>4. /\ Pointers(t) \subseteq Node
      /\ \A i \in 1 .. Len(loaded[t]) : loaded[t][i] \in Pointers(t)
      /\ at[t] # NULL => at[t] \in Pointers(t)
      /\ fd[t] # NULL => fd[t] \in Pointers(t)
      /\ fd[t] # NULL /\ mem[fd[t]].parent # NULL => mem[fd[t]].parent \in Pointers(t)
  BY <1>1, <1>2, <1>3 DEF Pointers
<1>5. parentOf(t) # NULL => parentOf(t) \in Pointers(t)
  BY <1>1, <1>4
<1>6. gparentOf(t) # NULL => gparentOf(t) \in Pointers(t)
  BY <1>1, <1>4
<1>7. \A n \in Node : n \in inodelist <=> mem[n].refs # 0
  BY NodeFacts DEF inodelist
<1>8. ~ Dangling => Pointers(t) \subseteq inodelist
  BY <1>4, <1>7 DEF Dangling
<1>9. \A n \in Pointers(t) :
         \/ \E i \in 1 .. Len(loaded[t]) : loaded[t][i] = n
         \/ n = at[t] \/ n = fd[t]
         \/ fd[t] # NULL /\ n = mem[fd[t]].parent
  BY <1>3 DEF Pointers
<1> QED
  BY <1>2, <1>4, <1>5, <1>6, <1>7, <1>8, <1>9

\* The inodes on the way to the one a task is at are different from each other
\* and from that one: their paths get longer.
LEMMA WalkFacts ==
    ASSUME IInv, ~ Dangling, NEW t \in Task, pc[t] \notin Idle
    PROVE  /\ Base(t) \in Nat /\ Base(t) + Len(loaded[t]) <= Len(call[t].path)
           /\ \A i \in 1 .. Len(loaded[t]) :
                 Len(mem[loaded[t][i]].path) = Base(t) + i - 1
           /\ \A i, j \in 1 .. Len(loaded[t]) : loaded[t][i] = loaded[t][j] => i = j
           /\ pc[t] \in {"loop", "examine", "loading"} \cup Opening =>
                 /\ Len(mem[at[t]].path) = Base(t) + Len(loaded[t])
                 /\ \A i \in 1 .. Len(loaded[t]) : loaded[t][i] # at[t]
           /\ pc[t] \in {"child", "missed"} =>
                 /\ loaded[t] # << >> /\ at[t] = loaded[t][Len(loaded[t])]
                 /\ Len(mem[at[t]].path) = Len(loaded[t]) - 1
                 /\ mem[at[t]].path = First(call[t].path, Len(loaded[t]) - 1)
           /\ pc[t] \in Opening => mem[at[t]].path = call[t].path
           /\ pc[t] \notin Opening => Base(t) = 0
<1> DEFINE p == call[t].path
           b == Base(t)
           s == loaded[t]
           l == Len(loaded[t])
<1>1. /\ p \in Path /\ Len(p) \in Nat
      /\ s \in Seq(Node) /\ l \in Nat /\ (s = << >> <=> l = 0)
      /\ \A i \in 1 .. l : s[i] \in Node
      /\ at[t] \in Node \cup {NULL} /\ NULL \notin Node
      /\ pc[t] \in Walking \cup Opening
      /\ parentOf(t) = NULL <=> s = << >>
      /\ s # << >> => parentOf(t) = s[l]
  BY TaskFacts DEF IInv
<1>2. /\ pc[t] \in {"child", "missed"} => at[t] = parentOf(t)
      /\ at[t] \in Node
      /\ pc[t] \in Walking => l <= Len(p)
      /\ pc[t] \in Opening => l = IF Len(p) > 2 THEN 2 ELSE Len(p)
  BY DEF IInv, Shape
<1>3. /\ \A i \in 1 .. l : mem[s[i]].path = First(p, b + i - 1)
      /\ pc[t] \in {"loop", "examine", "loading"} \cup Opening =>
             mem[at[t]].path = First(p, b + l)
  BY DEF IInv, Sound, PathsFit, FdPath
<1>4. /\ pc[t] \in Opening => b = Len(p) - l
      /\ pc[t] \notin Opening => b = 0
  BY DEF Base
<1> HIDE DEF p, b, s, l
<1>5. b \in Nat /\ b + l <= Len(p) /\ (pc[t] \in Opening => b + l = Len(p))
  <2>1. CASE pc[t] \in Opening
    <3>1. l <= Len(p)
      BY <1>1, <1>2, <2>1
    <3> QED
      BY <1>1, <1>4, <2>1, <3>1
  <2>2. CASE pc[t] \notin Opening
    BY <1>1, <1>2, <1>4, <2>2
  <2> QED
    BY <2>1, <2>2
<1>6. ASSUME NEW i \in 1 .. l PROVE Len(mem[s[i]].path) = b + i - 1
  <2>1. b + i - 1 \in 0 .. Len(p)
    BY <1>1, <1>5
  <2> QED
    BY <1>1, <1>3, <2>1, FirstProperties
<1>7. ASSUME NEW i \in 1 .. l, NEW j \in 1 .. l, s[i] = s[j] PROVE i = j
  <2>1. b + i - 1 = b + j - 1
    BY <1>6, <1>7
  <2> QED
    BY <2>1, <1>5
<1>8. ASSUME pc[t] \in {"loop", "examine", "loading"} \cup Opening
      PROVE  /\ Len(mem[at[t]].path) = b + l
             /\ \A i \in 1 .. l : s[i] # at[t]
  <2>1. b + l \in 0 .. Len(p)
    BY <1>1, <1>5
  <2>2. Len(mem[at[t]].path) = b + l
    BY <1>1, <1>3, <1>8, <2>1, FirstProperties
  <2>3. ASSUME NEW i \in 1 .. l PROVE s[i] # at[t]
    BY <1>1, <1>5, <1>6, <2>2
  <2> QED
    BY <2>2, <2>3
<1>9. ASSUME pc[t] \in {"child", "missed"}
      PROVE  /\ s # << >> /\ at[t] = s[l]
             /\ Len(mem[at[t]].path) = l - 1
             /\ mem[at[t]].path = First(p, l - 1)
  <2>1. s # << >> /\ at[t] = s[l]
    BY <1>1, <1>2, <1>9
  <2>2. b = 0 /\ l \in 1 .. l
    BY <1>1, <1>4, <1>9, <2>1 DEF Opening
  <2>3. Len(mem[s[l]].path) = b + l - 1 /\ mem[s[l]].path = First(p, b + l - 1)
    BY <1>3, <1>6, <2>2
  <2>4. b + l - 1 = l - 1
    BY <1>1, <2>2
  <2> QED
    BY <2>1, <2>3, <2>4
<1>10. ASSUME pc[t] \in Opening PROVE mem[at[t]].path = p
  <2>1. b + l = Len(p) /\ 0 \in 0 .. Len(p)
    BY <1>1, <1>5, <1>10
  <2>2. First(p, Len(p)) = p
    BY <1>1, <2>1, FirstProperties
  <2> QED
    BY <1>3, <1>10, <2>1, <2>2
<1> QED
  BY <1>4, <1>5, <1>6, <1>7, <1>8, <1>9, <1>10 DEF p, b, s, l

\* The inode of a descriptor and its parent.
LEMMA FdFacts ==
    ASSUME IInv, ~ Dangling, NEW t \in Task, fd[t] # NULL
    PROVE  /\ fd[t] \in inodelist /\ fd[t] \in Node
           /\ mem[fd[t]].parent # NULL =>
                 /\ mem[fd[t]].parent \in inodelist /\ mem[fd[t]].parent \in Node
                 /\ mem[fd[t]].parent # fd[t]
                 /\ Len(mem[mem[fd[t]].parent].path) < Len(mem[fd[t]].path)
<1>1. /\ fd[t] \in Node /\ fd[t] \in inodelist
      /\ mem[fd[t]].parent # NULL => mem[fd[t]].parent \in inodelist
  BY TaskFacts, PointerFacts DEF IInv
<1>2. ASSUME mem[fd[t]].parent # NULL
      PROVE  /\ mem[fd[t]].parent \in Node
             /\ Len(mem[mem[fd[t]].parent].path) < Len(mem[fd[t]].path)
  <2> DEFINE p == mem[fd[t]].path
  <2>1. p # << >> /\ mem[mem[fd[t]].parent].path = First(p, Len(p) - 1)
    BY <1>2 DEF IInv, Sound, PathsFit, FdPath
  <2>2. p \in Path /\ Len(p) \in Nat /\ (p = << >> <=> Len(p) = 0)
        /\ mem[fd[t]].parent \in Node
    BY <1>1, <1>2, NodeFacts DEF IInv
  <2> HIDE DEF p
  <2>3. Len(p) - 1 \in 0 .. Len(p)
    BY <2>1, <2>2
  <2>4. Len(First(p, Len(p) - 1)) = Len(p) - 1
    BY <2>2, <2>3, FirstProperties
  <2> QED
    BY <2>1, <2>2, <2>4 DEF p
<1>3. mem[fd[t]].parent # NULL =>
         Len(mem[mem[fd[t]].parent].path) \in Nat /\ Len(mem[fd[t]].path) \in Nat
  BY <1>1, <1>2, NodeFacts DEF IInv
<1> QED
  BY <1>1, <1>2, <1>3

(***************************************************************************)
(* What a step leaves alone.                                               *)
(***************************************************************************)
Same(u) ==
    /\ pc'[u] = pc[u] /\ call'[u] = call[u] /\ at'[u] = at[u]
    /\ loaded'[u] = loaded[u] /\ want'[u] = want[u] /\ fd'[u] = fd[u]

\* An inode that keeps its path and is not unread.
Survives(n) ==
    /\ mem'[n].path = mem[n].path
    /\ mem[n].kind # Junk => mem'[n].kind # Junk
    /\ mem[n].kind \in {"file", "dir"} => mem'[n].kind \in {"file", "dir"}

\* A task that does nothing keeps what it knows, and its locks.
LEMMA SameFits ==
    ASSUME IInv, ~ Dangling, NEW u \in Task, Same(u),
           \A n \in Pointers(u) : Survives(n),
           fd[u] # NULL => mem'[fd[u]].parent = mem[fd[u]].parent,
           pc[u] = "loading" => mem'[at[u]].kind = Junk
    PROVE  /\ PathsFit(u)' /\ KindsRead(u)' /\ WantFits(u)' /\ Shape(u)'
           /\ Holds(u)' = Holds(u)
<1>1. /\ PathsFit(u) /\ KindsRead(u) /\ WantFits(u) /\ Shape(u)
      /\ pc[u] \in Idle \cup Walking \cup Opening
      /\ at[u] \in Node \cup {NULL}
  BY TaskFacts DEF IInv, Sound
<1>2. /\ at[u] # NULL => at[u] \in Pointers(u)
      /\ fd[u] # NULL => /\ fd[u] \in Pointers(u)
                         /\ mem[fd[u]].parent # NULL => mem[fd[u]].parent \in Pointers(u)
      /\ \A i \in 1 .. Len(loaded[u]) : loaded[u][i] \in Pointers(u)
  BY PointerFacts DEF IInv
<1>3. /\ pc'[u] = pc[u] /\ call'[u] = call[u] /\ at'[u] = at[u]
      /\ loaded'[u] = loaded[u] /\ want'[u] = want[u] /\ fd'[u] = fd[u]
  BY DEF Same
<1>4. Base(u)' = Base(u) /\ parentOf(u)' = parentOf(u) /\ gparentOf(u)' = gparentOf(u)
  BY <1>3 DEF Base, parentOf, gparentOf
<1>5. pc[u] \in {"loop", "examine", "loading"} \cup Opening => at[u] # NULL
  BY <1>1, TaskFacts DEF Shape, Idle, Opening, IInv
<1>6. PathsFit(u)'
  <2>1. \A i \in 1 .. Len(loaded[u]) : mem'[loaded[u][i]].path = mem[loaded[u][i]].path
    BY <1>2 DEF Survives
  <2>2. at[u] # NULL => mem'[at[u]].path = mem[at[u]].path
    BY <1>2 DEF Survives
  <2>3. fd[u] # NULL =>
           /\ mem'[fd[u]].path = mem[fd[u]].path
           /\ mem'[fd[u]].parent = mem[fd[u]].parent
           /\ mem[fd[u]].parent # NULL =>
                 mem'[mem[fd[u]].parent].path = mem[mem[fd[u]].parent].path
    BY <1>2 DEF Survives
  <2> QED
    BY <1>1, <1>3, <1>4, <1>5, <2>1, <2>2, <2>3 DEF PathsFit, FdPath
<1>7. KindsRead(u)'
  <2>1. \A i \in 1 .. Len(loaded[u]) : mem'[loaded[u][i]].kind # Junk
    BY <1>1, <1>2 DEF Survives, KindsRead, FdKinds
  <2>2. fd[u] # NULL =>
           /\ mem'[fd[u]].kind \in {"file", "dir"}
           /\ mem'[fd[u]].parent = mem[fd[u]].parent
           /\ mem[fd[u]].parent # NULL => mem'[mem[fd[u]].parent].kind # Junk
    BY <1>1, <1>2 DEF Survives, KindsRead, FdKinds
  <2> QED
    BY <1>3, <2>1, <2>2 DEF KindsRead, FdKinds
<1>8. pc[u] \in {"reading", "read", "locksecond", "writing", "written"} => fd[u] # NULL
  BY <1>1 DEF Shape, Idle
<1>9. pc[u] \in {"reading", "read", "locksecond", "writing", "written"} =>
         mem'[fd[u]].parent = mem[fd[u]].parent
  BY <1>8
<1>10. WantFits(u)'
  BY <1>1, <1>3, <1>4, <1>9 DEF WantFits, NoWant
<1>11. Shape(u)'
  BY <1>1, <1>3, <1>4 DEF Shape
<1>12. Holds(u)' = Holds(u)
  BY <1>3, <1>4, <1>9 DEF Holds
<1> QED
  BY <1>6, <1>7, <1>10, <1>11, <1>12

\* Its counted pointers stay, but for the parent of an inode that is freed.
LEMMA SamePoints ==
    ASSUME NEW u \in Task, Same(u), NEW n \in Node, NEW i,
           NULL \notin Node,
           fd[u] # NULL => mem'[fd[u]].parent \in {mem[fd[u]].parent, NULL},
           Points(u, i, n)'
    PROVE  Points(u, i, n)
BY DEF Same, Points

\* The holders of a lock and those who want it, when t alone does something.
OthersHold(t) ==
    \A u \in Task \ {t} :
        Holds(u)' = Holds(u) /\ want'[u] = want[u] /\ pc'[u] = pc[u] /\ at'[u] = at[u]

LEMMA HoldersStep ==
    ASSUME NEW t \in Task, OthersHold(t), NEW n
    PROVE  /\ n \in Holds(t)' => Holders(n)' = Holders(n) \cup {t}
           /\ n \notin Holds(t)' => Holders(n)' = Holders(n) \ {t}
           /\ (n \in Holds(t)' <=> n \in Holds(t)) => Holders(n)' = Holders(n)
           /\ want'[t].node = n => Waiters(n)' = Waiters(n) \cup {t}
           /\ want'[t].node # n => Waiters(n)' = Waiters(n) \ {t}
           /\ (want'[t].node = n <=> want[t].node = n) => Waiters(n)' = Waiters(n)
           /\ t \in Holders(n) <=> n \in Holds(t)
           /\ t \in Waiters(n) <=> want[t].node = n
BY DEF OthersHold, Holders, Waiters

(***************************************************************************)
(* The locks, as t enters one.                                             *)
(***************************************************************************)
LEMMA EnterLocks ==
    ASSUME IInv, ~ Dangling, NEW t \in Task, NEW n \in inodelist,
           NEW op \in {"READ", "WRITE"}, OthersHold(t), pc[t] # "loading",
           n \notin Holds(t), Holds(t)' = Holds(t) \cup {n}, want'[t] = NoWant,
           \/ want[t] = NoWant /\ ~ Blocks(mem[n].lock, op)
           \/ want[t].node = n /\ t \in ready,
           ready' = ready \cup EnterWakes(mem[n].lock, op),
           \A m \in Node :
              /\ mem'[m].lock = IF m = n THEN Entered(mem[m].lock, op) ELSE mem[m].lock
              /\ mem'[m].refs = mem[m].refs /\ mem'[m].kind = mem[m].kind
              /\ mem'[m].leaked = mem[m].leaked
    PROVE  LocksSound' /\ JunkLocked'
<1> DEFINE w == EnterWakes(mem[n].lock, op)
<1>1. LocksSound /\ JunkLocked
  BY DEF IInv, Sound
<1>2. inodelist' = inodelist /\ inodelist \subseteq Node /\ NULL \notin Node
  BY NodeFacts DEF inodelist, IInv
<1>3. /\ LockSound(mem[n].lock, Waiters(n) \ ready, Waiters(n) \cap ready, Holders(n),
                   mem[n].leaked)
      /\ Holders(n) \in SUBSET Task /\ t \notin Holders(n)
  BY <1>1 DEF LocksSound, Holders
<1>4. /\ w \subseteq Waiters(n) \ ready
      /\ \A K : LockSound(Entered(mem[n].lock, op), (Waiters(n) \ ready) \ w, K,
                         Holders(n) \cup {t}, mem[n].leaked)
  <2> DEFINE S == Waiters(n) \ ready
             K1 == Waiters(n) \cap ready
             HH == Holders(n)
             lock == mem[n].lock
             left == mem[n].leaked
  <2>1. LockSound(lock, S, K1, HH, left) /\ HH \in SUBSET Task /\ t \in Task \ HH
    BY <1>3
  <2> HIDE DEF S, K1, HH, lock, left
  <2>2. ASSUME NEW K
        PROVE  /\ EnterWakes(lock, op) \subseteq S
               /\ LockSound(Entered(lock, op), S \ EnterWakes(lock, op), K, HH \cup {t}, left)
    BY ONLY <2>1, EnterSound, op \in {"READ", "WRITE"}
  <2> QED
    BY <2>2 DEF S, HH, lock, left
<1>5. /\ \A m \in Node : want'[t].node # m
      /\ \A m \in Node : want[t].node = m => m = n /\ t \in ready
  BY <1>2 DEF NoWant
<1> HIDE DEF w
<1>6. ASSUME NEW m \in inodelist
      PROVE  LockSound(mem'[m].lock, Waiters(m)' \ ready', Waiters(m)' \cap ready',
                       Holders(m)', mem'[m].leaked)
  <2>1. CASE m = n
    <3>1. Holders(m)' = Holders(n) \cup {t} /\ Waiters(m)' = Waiters(n) \ {t}
          /\ (t \in Waiters(n) => t \in ready)
      BY <1>2, <1>5, <2>1, HoldersStep
    <3>2. Waiters(m)' \ ready' = (Waiters(n) \ ready) \ w
      BY <1>4, <3>1 DEF w
    <3>3. mem'[m].lock = Entered(mem[n].lock, op) /\ mem'[m].leaked = mem[n].leaked
      BY <1>2, <2>1
    <3> QED
      BY <1>4, <2>1, <3>1, <3>2, <3>3, ZenonT(40)
  <2>2. CASE m # n
    <3>1. Holders(m)' = Holders(m) /\ Waiters(m)' = Waiters(m)
      BY <1>2, <1>5, <2>2, HoldersStep
    <3>2. w \cap Waiters(m) = {}
      BY <1>4, <2>2 DEF Waiters
    <3>3. Waiters(m)' \ ready' = Waiters(m) \ ready
          /\ Waiters(m)' \cap ready' = Waiters(m) \cap ready
      BY <3>1, <3>2 DEF w
    <3>4. mem'[m].lock = mem[m].lock /\ mem'[m].leaked = mem[m].leaked
      BY <1>2, <2>2
    <3> QED
      BY <1>1, <3>1, <3>3, <3>4 DEF LocksSound
  <2> QED
    BY <2>1, <2>2
<1>7. ASSUME NEW m \in inodelist, mem'[m].kind = Junk
      PROVE  /\ mem'[m].lock.operation = "WRITE" /\ mem'[m].lock.readers = 0
             /\ Waiters(m)' \cap ready' = {}
             /\ \E u \in Task : pc'[u] = "loading" /\ at'[u] = m /\ Holders(m)' = {u}
  <2>1. mem[m].kind = Junk /\ m \in Node
    BY <1>2, <1>7
  <2>2. /\ mem[m].lock.operation = "WRITE" /\ mem[m].lock.readers = 0
        /\ Waiters(m) \cap ready = {}
    BY <1>1, <2>1 DEF JunkLocked
  <2>3. PICK u \in Task : pc[u] = "loading" /\ at[u] = m /\ Holders(m) = {u}
    BY <1>1, <2>1 DEF JunkLocked
  <2>4. m # n
    <3>1. m = n => Blocks(mem[n].lock, op)
      BY <2>2 DEF Blocks, KRWLockReadBlocks, KRWLockWriteBlocks
    <3>2. m = n => ~ (want[t].node = n /\ t \in ready)
      BY <2>2 DEF Waiters
    <3> QED
      BY <3>1, <3>2
  <2>5. Holders(m)' = Holders(m) /\ Waiters(m)' = Waiters(m)
    BY <1>5, <2>1, <2>4, HoldersStep
  <2>6. w \cap Waiters(m) = {}
    BY <1>4, <2>4 DEF Waiters
  <2>7. pc'[u] = "loading" /\ at'[u] = m
    BY <2>3 DEF OthersHold
  <2> QED
    BY <2>1, <2>2, <2>3, <2>4, <2>5, <2>6, <2>7 DEF w
<1>8. LocksSound'
  BY <1>2, <1>6 DEF LocksSound
<1>9. JunkLocked'
  BY <1>2, <1>7 DEF JunkLocked
<1> QED
  BY <1>8, <1>9

(***************************************************************************)
(* The locks, as t goes to sleep in one.                                   *)
(***************************************************************************)
LEMMA EnqueueLocks ==
    ASSUME IInv, ~ Dangling, NEW t \in Task, NEW n \in inodelist,
           NEW op \in {"READ", "WRITE"}, OthersHold(t), pc[t] # "loading",
           Holds(t)' = Holds(t), want[t] = NoWant, want'[t].node = n,
           Blocks(mem[n].lock, op),
           ready' = ready \ {t},
           \A m \in Node :
              /\ mem'[m].lock = IF m = n THEN KRWLockEnqueue(mem[m].lock, t, op)
                                ELSE mem[m].lock
              /\ mem'[m].refs = mem[m].refs /\ mem'[m].kind = mem[m].kind
              /\ mem'[m].leaked = mem[m].leaked
    PROVE  LocksSound' /\ JunkLocked'
<1>1. LocksSound /\ JunkLocked
  BY DEF IInv, Sound
<1>2. inodelist' = inodelist /\ inodelist \subseteq Node /\ NULL \notin Node
  BY NodeFacts DEF inodelist, IInv
<1>3. \A m \in Node : t \notin Waiters(m)
  BY <1>2 DEF Waiters, NoWant
<1>4. ASSUME NEW m \in inodelist
      PROVE  /\ Holders(m)' = Holders(m)
             /\ Waiters(m)' = IF m = n THEN Waiters(m) \cup {t} ELSE Waiters(m)
             /\ Waiters(m)' \cap ready' = Waiters(m) \cap ready
             /\ Waiters(m)' \ ready' = IF m = n THEN (Waiters(m) \ ready) \cup {t}
                                       ELSE Waiters(m) \ ready
             /\ t \notin Waiters(m) \ ready
             /\ mem'[m].leaked = mem[m].leaked
  <2>1. Holders(m)' = Holders(m)
    BY HoldersStep
  <2>2. Waiters(m)' = IF m = n THEN Waiters(m) \cup {t} ELSE Waiters(m)
    BY <1>2, <1>3, HoldersStep
  <2> QED
    BY <1>2, <1>3, <2>1, <2>2
<1>5. /\ LockSound(mem[n].lock, Waiters(n) \ ready, Waiters(n) \cap ready, Holders(n),
                   mem[n].leaked)
      /\ Holders(n) \in SUBSET Task
  BY <1>1 DEF LocksSound, Holders
<1>6. /\ LockSound(KRWLockEnqueue(mem[n].lock, t, op), (Waiters(n) \ ready) \cup {t},
                   Waiters(n) \cap ready, Holders(n), mem[n].leaked)
      /\ KRWLockEnqueue(mem[n].lock, t, op).operation = mem[n].lock.operation
      /\ KRWLockEnqueue(mem[n].lock, t, op).readers = mem[n].lock.readers
  <2> DEFINE S == Waiters(n) \ ready
             K == Waiters(n) \cap ready
             HH == Holders(n)
  <2>1. LockSound(mem[n].lock, S, K, HH, mem[n].leaked)
        /\ HH \in SUBSET Task /\ t \in Task \ S
    BY <1>4, <1>5
  <2> HIDE DEF S, K, HH
  <2>2. LockSound(KRWLockEnqueue(mem[n].lock, t, op), S \cup {t}, K, HH, mem[n].leaked)
    BY <2>1, EnqueueSound
  <2>3. /\ KRWLockEnqueue(mem[n].lock, t, op).operation = mem[n].lock.operation
        /\ KRWLockEnqueue(mem[n].lock, t, op).readers = mem[n].lock.readers
    BY DEF KRWLockEnqueue
  <2> QED
    BY <2>2, <2>3 DEF S, K, HH
<1>7. ASSUME NEW m \in inodelist
      PROVE  LockSound(mem'[m].lock, Waiters(m)' \ ready', Waiters(m)' \cap ready',
                       Holders(m)', mem'[m].leaked)
  <2>1. CASE m = n
    BY <1>2, <1>4, <1>6, <2>1
  <2>2. CASE m # n
    <3>1. LockSound(mem[m].lock, Waiters(m) \ ready, Waiters(m) \cap ready, Holders(m),
                    mem[m].leaked)
      BY <1>1 DEF LocksSound
    <3>2. mem'[m].lock = mem[m].lock
      BY <1>2, <2>2
    <3> QED
      BY <1>4, <2>2, <3>1, <3>2
  <2> QED
    BY <2>1, <2>2
<1>8. ASSUME NEW m \in inodelist, mem'[m].kind = Junk
      PROVE  /\ mem'[m].lock.operation = "WRITE" /\ mem'[m].lock.readers = 0
             /\ Waiters(m)' \cap ready' = {}
             /\ \E u \in Task : pc'[u] = "loading" /\ at'[u] = m /\ Holders(m)' = {u}
  <2>1. mem[m].kind = Junk /\ m \in Node
    BY <1>2, <1>8
  <2>2. /\ mem[m].lock.operation = "WRITE" /\ mem[m].lock.readers = 0
        /\ Waiters(m) \cap ready = {}
    BY <1>1, <2>1 DEF JunkLocked
  <2>3. PICK u \in Task : pc[u] = "loading" /\ at[u] = m /\ Holders(m) = {u}
    BY <1>1, <2>1 DEF JunkLocked
  <2>4. pc'[u] = "loading" /\ at'[u] = m
    BY <2>3 DEF OthersHold
  <2>5. mem'[m].lock.operation = mem[m].lock.operation
        /\ mem'[m].lock.readers = mem[m].lock.readers
    BY <1>6, <2>1
  <2> QED
    BY <1>4, <2>2, <2>3, <2>4, <2>5
<1>9. LocksSound'
  BY <1>2, <1>7 DEF LocksSound
<1>10. JunkLocked'
  BY <1>2, <1>8 DEF JunkLocked
<1> QED
  BY <1>9, <1>10

(***************************************************************************)
(* The locks, as t releases those of ns, or none, and inodes are freed.    *)
(***************************************************************************)
LEMMA ReleaseLocks ==
    ASSUME IInv, ~ Dangling, NEW t \in Task, NEW ns \in SUBSET Node, OthersHold(t),
           ns \subseteq Holds(t), Holds(t)' = Holds(t) \ ns,
           ns \subseteq inodelist,
           want[t] = NoWant, want'[t] = NoWant,
           \A u \in Task : want[u] # NoWant =>
              (u \in ready' <=> u \in ready \/ u \in ReleaseWakes(mem, ns)),
           \A m \in Node : mem'[m].refs > 0 =>
              /\ mem[m].refs > 0
              /\ mem'[m].lock = IF m \in ns THEN KRWLockRelease(mem[m].lock) ELSE mem[m].lock
              /\ mem'[m].leaked = mem[m].leaked
              /\ mem'[m].kind = Junk =>
                    /\ mem[m].kind = Junk /\ m \notin ns
                    /\ \/ pc[t] # "loading" \/ at[t] # m
                       \/ pc'[t] = pc[t] /\ at'[t] = at[t]
    PROVE  LocksSound' /\ JunkLocked'
<1>1. LocksSound /\ JunkLocked
  BY DEF IInv, Sound
<1>2. inodelist' \subseteq inodelist /\ inodelist' \subseteq Node /\ NULL \notin Node
  BY NodeFacts DEF inodelist, IInv
<1>3. \A m \in Node : t \notin Waiters(m) /\ Waiters(m)' = Waiters(m)
  BY <1>2, HoldersStep DEF NoWant, Waiters
<1>4. ASSUME NEW m \in ns
      PROVE  /\ KRWLockReleaseWakes(mem[m].lock) \subseteq Waiters(m) \ ready
             /\ \A K : KRWLockReleaseWakes(mem[m].lock) \subseteq K =>
                   LockSound(KRWLockRelease(mem[m].lock),
                             (Waiters(m) \ ready) \ KRWLockReleaseWakes(mem[m].lock),
                             K, Holders(m) \ {t}, mem[m].leaked)
  <2>1. /\ LockSound(mem[m].lock, Waiters(m) \ ready, Waiters(m) \cap ready, Holders(m),
                     mem[m].leaked)
        /\ Holders(m) \in SUBSET Task /\ t \in Holders(m)
    BY <1>1 DEF LocksSound, Holders
  <2>2. ASSUME NEW K, KRWLockReleaseWakes(mem[m].lock) \subseteq K
        PROVE  LockSound(KRWLockRelease(mem[m].lock),
                         (Waiters(m) \ ready) \ KRWLockReleaseWakes(mem[m].lock),
                         K, Holders(m) \ {t}, mem[m].leaked)
    BY <2>1, <2>2, ReleaseSound
  <2>3. KRWLockReleaseWakes(mem[m].lock) \subseteq Waiters(m) \ ready
    <3> DEFINE S == Waiters(m) \ ready
               HH == Holders(m)
    <3>1. /\ LockSound(mem[m].lock, S, Waiters(m) \cap ready, HH, mem[m].leaked)
          /\ HH \in SUBSET Task /\ t \in HH
      BY <2>1
    <3> HIDE DEF S, HH
    <3>2. KRWLockReleaseWakes(mem[m].lock) \subseteq S
      BY <3>1, ReleaseWakesQueued
    <3> QED
      BY <3>2 DEF S
  <2> QED
    BY <2>2, <2>3
<1>5. ASSUME NEW m \in Node, NEW u \in Waiters(m)
      PROVE  u \in ready' <=> \/ u \in ready
                              \/ m \in ns /\ u \in KRWLockReleaseWakes(mem[m].lock)
  <2>1. u \in Task /\ want[u].node = m /\ want[u] # NoWant
    BY <1>2 DEF Waiters, NoWant
  <2>2. u \in ready' <=> u \in ready \/ \E k \in ns : u \in KRWLockReleaseWakes(mem[k].lock)
    BY <2>1 DEF ReleaseWakes
  <2>3. \A k \in ns : u \in KRWLockReleaseWakes(mem[k].lock) => k = m
    BY <1>4, <2>1 DEF Waiters
  <2> QED
    BY <2>2, <2>3
<1>6. ASSUME NEW m \in inodelist'
      PROVE  LockSound(mem'[m].lock, Waiters(m)' \ ready', Waiters(m)' \cap ready',
                       Holders(m)', mem'[m].leaked)
  <2>1. m \in Node /\ m \in inodelist /\ mem'[m].refs > 0 /\ mem'[m].leaked = mem[m].leaked
    BY <1>2 DEF inodelist
  <2>2. CASE m \in ns
    <3> DEFINE w == KRWLockReleaseWakes(mem[m].lock)
    <3>1. Holders(m)' = Holders(m) \ {t}
      BY <2>2, HoldersStep
    <3>2. /\ Waiters(m)' \ ready' = (Waiters(m) \ ready) \ w
          /\ w \subseteq Waiters(m)' \cap ready'
      BY <1>3, <1>4, <1>5, <2>1, <2>2, ZenonT(40)
    <3>3. mem'[m].lock = KRWLockRelease(mem[m].lock)
      BY <2>1, <2>2
    <3> QED
      BY <1>4, <2>1, <2>2, <3>1, <3>2, <3>3, ZenonT(40)
  <2>3. CASE m \notin ns
    <3>1. Holders(m)' = Holders(m)
      BY <2>3, HoldersStep
    <3>2. /\ Waiters(m)' \ ready' = Waiters(m) \ ready
          /\ Waiters(m)' \cap ready' = Waiters(m) \cap ready
      BY <1>3, <1>5, <2>1, <2>3
    <3>3. mem'[m].lock = mem[m].lock
      BY <2>1, <2>3
    <3> QED
      BY <1>1, <2>1, <3>1, <3>2, <3>3 DEF LocksSound
  <2> QED
    BY <2>2, <2>3
<1>7. ASSUME NEW m \in inodelist', mem'[m].kind = Junk
      PROVE  /\ mem'[m].lock.operation = "WRITE" /\ mem'[m].lock.readers = 0
             /\ Waiters(m)' \cap ready' = {}
             /\ \E u \in Task : pc'[u] = "loading" /\ at'[u] = m /\ Holders(m)' = {u}
  <2>1. m \in Node /\ m \in inodelist /\ mem'[m].refs > 0
    BY <1>2 DEF inodelist
  <2>2. mem[m].kind = Junk /\ m \notin ns /\ mem'[m].lock = mem[m].lock
    BY <2>1, <1>7
  <2>3. /\ mem[m].lock.operation = "WRITE" /\ mem[m].lock.readers = 0
        /\ Waiters(m) \cap ready = {}
    BY <1>1, <2>1, <2>2 DEF JunkLocked
  <2>4. PICK u \in Task : pc[u] = "loading" /\ at[u] = m /\ Holders(m) = {u}
    BY <1>1, <2>1, <2>2 DEF JunkLocked
  <2>5. Holders(m)' = Holders(m)
    BY <2>2, HoldersStep
  <2>6. Waiters(m)' \cap ready' = {}
    BY <1>3, <1>5, <2>1, <2>2, <2>3
  <2>7. pc'[u] = "loading" /\ at'[u] = m
    BY <2>1, <2>4, <1>7 DEF OthersHold
  <2> QED
    BY <2>2, <2>3, <2>4, <2>5, <2>6, <2>7
<1>8. LocksSound'
  BY <1>6 DEF LocksSound
<1>9. JunkLocked'
  BY <1>7 DEF JunkLocked
<1> QED
  BY <1>8, <1>9

(***************************************************************************)
(* One step, put together.                                                 *)
(***************************************************************************)
\* The inodes that are listed have their locks, and the operations keep the
\* locks' types and wake tasks.
LEMMA LockTypes ==
    ASSUME IInv, ~ Dangling, NEW n \in inodelist, NEW t \in Task,
           NEW op \in {"READ", "WRITE"}
    PROVE  /\ Entered(mem[n].lock, op) \in Lock
           /\ KRWLockEnqueue(mem[n].lock, t, op) \in Lock
           /\ KRWLockRelease(mem[n].lock) \in Lock
           /\ EnterWakes(mem[n].lock, op) \subseteq Waiters(n) \ ready
           /\ KRWLockReleaseWakes(mem[n].lock) \subseteq Waiters(n) \ ready
           /\ LockSound(mem[n].lock, Waiters(n) \ ready, Waiters(n) \cap ready,
                        Holders(n), mem[n].leaked)
           /\ Waiters(n) \subseteq Task
<1> DEFINE lock == mem[n].lock
           S == Waiters(n) \ ready
           K == Waiters(n) \cap ready
<1>1. LockSound(lock, S, K, Holders(n), mem[n].leaked) /\ Waiters(n) \subseteq Task
  BY DEF IInv, Sound, LocksSound, Waiters
<1> HIDE DEF lock, S, K
<1>2. LockSound(lock, S, K, {}, TRUE)
  BY <1>1 DEF LockSound
<1>3. /\ EnterWakes(lock, op) \subseteq S
      /\ LockSound(Entered(lock, op), S \ EnterWakes(lock, op), K, {t}, TRUE)
  <2>1. {} \in SUBSET Task /\ t \in Task \ {}
    OBVIOUS
  <2>2. /\ EnterWakes(lock, op) \subseteq S
        /\ LockSound(Entered(lock, op), S \ EnterWakes(lock, op), K, {} \cup {t}, TRUE)
    BY <1>2, <2>1, EnterSound
  <2>3. {} \cup {t} = {t}
    OBVIOUS
  <2> QED
    BY <2>2, <2>3
<1>4. /\ lock.procq \in Seq(Task) /\ lock.opq \in Seq({"READ", "WRITE"})
      /\ lock.readers \in Nat /\ lock.operation \in Operations
      /\ Len(lock.procq) \in Nat /\ Len(lock.opq) = Len(lock.procq)
      /\ lock.procq = << >> <=> Len(lock.procq) = 0
      /\ lock.opq = << >> <=> lock.procq = << >>
      /\ Range(lock.procq) = S /\ IsInjective(lock.procq)
  <2>1. {} \in SUBSET Task
    OBVIOUS
  <2> QED
    BY <1>2, <2>1, LockFacts DEF LockSound
<1>5. KRWLockEnqueue(lock, t, op) \in Lock
  <2>1. Append(lock.procq, t) \in Seq(Task)
    BY <1>4, PushProperties
  <2>2. Append(lock.opq, op) \in Seq({"READ", "WRITE"})
    BY <1>4, PushProperties
  <2> QED
    BY <1>4, <2>1, <2>2 DEF KRWLockEnqueue, Lock
<1>6. KRWLockReleaseWakes(lock) \subseteq S
  <2>1. {} \in SUBSET Task
    OBVIOUS
  <2> QED
    BY <1>2, <2>1, ReleaseWakesQueued
<1>7. KRWLockRelease(lock) \in Lock
  <2> DEFINE wakes == KRWLockFrees(lock) /\ lock.procq # << >>
             r == KRWLockRelease(lock)
  <2>1. r = [procq     |-> IF wakes THEN Tail(lock.procq) ELSE lock.procq,
             opq       |-> IF wakes THEN Tail(lock.opq) ELSE lock.opq,
             readers   |-> IF lock.readers = 0 THEN 0 ELSE lock.readers - 1,
             operation |-> IF KRWLockFrees(lock) THEN "NONE" ELSE lock.operation]
    BY DEF KRWLockRelease
  <2>2. lock.procq # << >> => Tail(lock.procq) \in Seq(Task)
    BY <1>4, PopProperties
  <2>3. lock.procq # << >> => Tail(lock.opq) \in Seq({"READ", "WRITE"})
    BY <1>4, PopProperties
  <2>4. r.readers \in Nat /\ r.operation \in Operations
    BY <1>4, <2>1 DEF Operations
  <2> HIDE DEF wakes
  <2>5. wakes => lock.procq # << >>
    BY DEF wakes
  <2>6. r.procq \in Seq(Task) /\ r.opq \in Seq({"READ", "WRITE"})
    BY <1>4, <2>1, <2>2, <2>3, <2>5
  <2> QED
    BY <2>1, <2>4, <2>6 DEF Lock
<1>8. Entered(lock, op) \in Lock
  BY <1>3 DEF LockSound
<1> QED
  BY <1>1, <1>3, <1>5, <1>6, <1>7, <1>8 DEF lock, S, K

\* The count of one inode.
LEMMA CountStep ==
    ASSUME TypeOK, NEW n \in Node, CountFits(n), NEW x, NEW y,
           mem'[n].hit <=> mem[n].hit,
           mem'[n].refs \in Nat,
           \/ /\ mem'[n].refs >= mem[n].refs
              /\ \/ Slots(n)' \subseteq Slots(n)
                 \/ y \in Slots(n) /\ Slots(n)' \subseteq (Slots(n) \ {y}) \cup {x}
           \/ mem'[n].refs = mem[n].refs + 1 /\ Slots(n)' \subseteq Slots(n) \cup {x}
           \/ /\ mem'[n].refs = IF mem[n].refs > 1 THEN mem[n].refs - 1 ELSE 0
              /\ y \in Slots(n) /\ Slots(n)' \subseteq Slots(n) \ {y}
    PROVE  CountFits(n)'
<1> DEFINE A == Slots(n)
           B == Slots(n)'
           r == mem[n].refs
           q == mem'[n].refs
           one == IF n = root THEN 1 ELSE 0
<1>1. A \in SUBSET (Task \X (0 .. 3)) /\ r \in Nat /\ q \in Nat /\ one \in {0, 1}
  BY NodeFacts DEF Slots
<1>2. ~ mem[n].hit => Cardinality(A) + one <= r
  BY DEF CountFits
<1>3. \/ q >= r /\ (B \subseteq A \/ (y \in A /\ B \subseteq (A \ {y}) \cup {x}))
      \/ q = r + 1 /\ B \subseteq A \cup {x}
      \/ q = (IF r > 1 THEN r - 1 ELSE 0) /\ y \in A /\ B \subseteq A \ {y}
  OBVIOUS
<1>4. B \subseteq A \cup {x}
  BY <1>3
<1> HIDE DEF A, B, r, q, one
<1>5. /\ Cardinality(A) \in Nat /\ (A # {} => Cardinality(A) > 0)
      /\ B \subseteq A => Cardinality(B) <= Cardinality(A)
      /\ B \subseteq A \cup {x} => Cardinality(B) <= Cardinality(A) + 1
      /\ y \in A /\ B \subseteq A \ {y} => Cardinality(B) <= Cardinality(A) - 1
      /\ y \in A /\ B \subseteq (A \ {y}) \cup {x} => Cardinality(B) <= Cardinality(A)
      /\ B \subseteq A \cup {x} => Cardinality(B) \in Nat
  BY <1>1, CountChange
<1>6. ASSUME Cardinality(A) + one <= r PROVE Cardinality(B) + one <= q
  <2>1. CASE q >= r /\ (B \subseteq A \/ (y \in A /\ B \subseteq (A \ {y}) \cup {x}))
    BY <1>1, <1>4, <1>5, <1>6, <2>1
  <2>2. CASE q = r + 1 /\ B \subseteq A \cup {x}
    BY <1>1, <1>4, <1>5, <1>6, <2>2
  <2>3. CASE q = (IF r > 1 THEN r - 1 ELSE 0) /\ y \in A /\ B \subseteq A \ {y}
    <3>1. Cardinality(B) <= Cardinality(A) - 1 /\ Cardinality(B) \in Nat
      BY <1>4, <1>5, <2>3
    <3>2. r > 0
      BY <1>1, <1>5, <1>6, <3>1
    <3>3. q = r - 1
      BY <1>1, <2>3, <3>2
    <3> QED
      BY <1>1, <1>5, <1>6, <3>1, <3>3
  <2> QED
    BY <1>3, <2>1, <2>2, <2>3
<1>7. CountFits(n)' <=> (~ mem'[n].hit => Cardinality(B) + one <= q)
  BY DEF CountFits, B, q, one
<1> QED
  BY <1>2, <1>6, <1>7

\* The slots of one inode, when only t does something.
LEMMA SlotsStep ==
    ASSUME TypeOK, NEW t \in Task, \A u \in Task \ {t} : Same(u),
           \A u \in Task \ {t} :
              fd[u] # NULL => mem'[fd[u]].parent \in {mem[fd[u]].parent, NULL},
           NEW n \in Node
    PROVE  /\ \A s \in Slots(n)' :
                 \/ s \in Slots(n) /\ s[1] # t
                 \/ \E i \in 0 .. 3 : s = << t, i >> /\ Points(t, i, n)'
           /\ \A i \in 0 .. 3 : << t, i >> \in Slots(n) <=> Points(t, i, n)
<1>1. NULL \notin Node
  BY TreeAssumption DEF Node, NULL
<1>2. ASSUME NEW s \in Slots(n)', s[1] # t PROVE s \in Slots(n)
  <2>1. s \in Task \X (0 .. 3) /\ Points(s[1], s[2], n)'
    BY DEF Slots
  <2>2. s[1] \in Task \ {t} /\ s[2] \in 0 .. 3
    BY <1>2, <2>1
  <2>3. Same(s[1]) /\ (fd[s[1]] # NULL => mem'[fd[s[1]]].parent \in {mem[fd[s[1]]].parent, NULL})
    BY <2>2
  <2>4. Points(s[1], s[2], n)
    BY <1>1, <2>1, <2>2, <2>3, SamePoints
  <2> QED
    BY <2>1, <2>4 DEF Slots
<1>3. ASSUME NEW s \in Slots(n)', s[1] = t
      PROVE  \E i \in 0 .. 3 : s = << t, i >> /\ Points(t, i, n)'
  <2>1. s \in Task \X (0 .. 3) /\ Points(s[1], s[2], n)'
    BY DEF Slots
  <2>2. s = << t, s[2] >> /\ s[2] \in 0 .. 3
    BY <1>3, <2>1
  <2>3. Points(t, s[2], n)'
    BY <1>3, <2>1
  <2> QED
    BY <2>2, <2>3
<1>4. ASSUME NEW i \in 0 .. 3 PROVE << t, i >> \in Slots(n) <=> Points(t, i, n)
  BY DEF Slots
<1> QED
  BY <1>2, <1>3, <1>4
\* The count of one inode, from what becomes of t's pointers to it: none is
\* gained, j is traded for k, k is gained with a reference, or j is lost with one.
LEMMA CountMoves ==
    ASSUME TypeOK, NEW t \in Task, \A u \in Task \ {t} : Same(u),
           \A u \in Task \ {t} :
              fd[u] # NULL => mem'[fd[u]].parent \in {mem[fd[u]].parent, NULL},
           NEW n \in Node, CountFits(n), NEW j \in 0 .. 3, NEW k \in 0 .. 3,
           mem'[n].hit <=> mem[n].hit,
           mem'[n].refs \in Nat,
           \/ /\ mem'[n].refs >= mem[n].refs
              /\ \/ \A i \in 0 .. 3 : Points(t, i, n)' => Points(t, i, n)
                 \/ /\ Points(t, j, n) /\ ~ Points(t, j, n)'
                    /\ \A i \in (0 .. 3) \ {k} : Points(t, i, n)' => Points(t, i, n)
           \/ /\ mem'[n].refs = mem[n].refs + 1
              /\ \A i \in (0 .. 3) \ {k} : Points(t, i, n)' => Points(t, i, n)
           \/ /\ mem'[n].refs = IF mem[n].refs > 1 THEN mem[n].refs - 1 ELSE 0
              /\ Points(t, j, n) /\ ~ Points(t, j, n)'
              /\ \A i \in 0 .. 3 : Points(t, i, n)' => Points(t, i, n)
    PROVE  CountFits(n)'
<1> DEFINE A == Slots(n)
           B == Slots(n)'
<1>1. /\ \A s \in B : \/ s \in A /\ s[1] # t
                      \/ \E i \in 0 .. 3 : s = << t, i >> /\ Points(t, i, n)'
      /\ \A i \in 0 .. 3 : << t, i >> \in A <=> Points(t, i, n)
  BY SlotsStep
<1>2. /\ << t, j >>[1] = t
      /\ \A i \in 0 .. 3 : << t, i >> = << t, j >> => i = j
  OBVIOUS
<1> HIDE DEF A, B
<1>3. ASSUME \A i \in 0 .. 3 : Points(t, i, n)' => Points(t, i, n)
      PROVE  B \subseteq A /\ (Points(t, j, n) /\ ~ Points(t, j, n)' =>
                                  << t, j >> \in A /\ B \subseteq A \ {<< t, j >>})
  BY <1>1, <1>2, <1>3
<1>4. ASSUME \A i \in (0 .. 3) \ {k} : Points(t, i, n)' => Points(t, i, n)
      PROVE  /\ B \subseteq A \cup {<< t, k >>}
             /\ Points(t, j, n) /\ ~ Points(t, j, n)' =>
                   << t, j >> \in A /\ B \subseteq (A \ {<< t, j >>}) \cup {<< t, k >>}
  <2>1. B \subseteq A \cup {<< t, k >>}
    BY <1>1, <1>4
  <2>2. ASSUME Points(t, j, n), ~ Points(t, j, n)' PROVE << t, j >> \in A /\ << t, j >> \notin B
    BY <1>1, <1>2, <2>2
  <2> QED
    BY <2>1, <2>2
<1>5. \/ /\ mem'[n].refs >= mem[n].refs
         /\ \/ B \subseteq A
            \/ << t, j >> \in A /\ B \subseteq (A \ {<< t, j >>}) \cup {<< t, k >>}
      \/ mem'[n].refs = mem[n].refs + 1 /\ B \subseteq A \cup {<< t, k >>}
      \/ /\ mem'[n].refs = IF mem[n].refs > 1 THEN mem[n].refs - 1 ELSE 0
         /\ << t, j >> \in A /\ B \subseteq A \ {<< t, j >>}
  BY <1>3, <1>4
<1> QED
  BY <1>5, CountStep DEF A, B

\* The tasks that do nothing go on knowing what they knew.
LEMMA OthersFit ==
    ASSUME IInv, ~ Dangling, ~ Dangling', NEW t \in Task, NULL \notin Node,
           \A u \in Task \ {t} : Same(u),
           \A m \in Node : mem[m].refs > 0 /\ mem'[m].refs > 0 =>
              /\ Survives(m)
              /\ mem[m].kind = Junk =>
                    mem'[m].kind = Junk \/ (pc[t] = "loading" /\ at[t] = m),
           \A u \in Task \ {t} : fd[u] # NULL /\ mem'[fd[u]].refs > 0 =>
              mem'[fd[u]].parent = mem[fd[u]].parent,
           \A m \in Node : mem'[m].refs \in Nat,
           NEW u \in Task \ {t}
    PROVE  /\ PathsFit(u)' /\ KindsRead(u)' /\ WantFits(u)'
           /\ Holds(u)' = Holds(u)
           /\ want'[u] = want[u] /\ pc'[u] = pc[u] /\ at'[u] = at[u]
<1>1. /\ Pointers(u) \subseteq inodelist /\ Pointers(u) \subseteq Node
      /\ at[u] # NULL => at[u] \in Pointers(u)
      /\ fd[u] # NULL => /\ fd[u] \in Pointers(u)
                         /\ mem[fd[u]].parent \in Node \cup {NULL}
                         /\ mem[fd[u]].parent # NULL => mem[fd[u]].parent \in Pointers(u)
      /\ \A n \in Pointers(u) :
            \/ \E i \in 1 .. Len(loaded[u]) : loaded[u][i] = n
            \/ n = at[u] \/ n = fd[u]
            \/ fd[u] # NULL /\ n = mem[fd[u]].parent
      /\ \A n \in Node : n \in inodelist <=> mem[n].refs # 0
  BY PointerFacts DEF IInv
<1>2. /\ pc'[u] = pc[u] /\ call'[u] = call[u] /\ at'[u] = at[u]
      /\ loaded'[u] = loaded[u] /\ want'[u] = want[u] /\ fd'[u] = fd[u]
  BY DEF Same
<1>3. \A m \in Node : mem[m].refs \in Nat
  BY NodeFacts DEF IInv
<1>4. \A n \in Pointers(u)' : mem'[n].refs # 0
  BY DEF Dangling
<1>5. Range(loaded[u]) = {loaded[u][i] : i \in 1 .. Len(loaded[u])}
  BY TaskFacts, QueueRange DEF IInv
<1>6. /\ at[u] # NULL => at[u] \in Pointers(u)'
      /\ fd[u] # NULL => fd[u] \in Pointers(u)'
      /\ \A i \in 1 .. Len(loaded[u]) : loaded[u][i] \in Node => loaded[u][i] \in Pointers(u)'
      /\ fd[u] # NULL /\ mem'[fd[u]].parent # NULL => mem'[fd[u]].parent \in Pointers(u)'
  BY <1>2, <1>5 DEF Pointers
<1>7. fd[u] # NULL => mem'[fd[u]].parent = mem[fd[u]].parent
  <2>1. fd[u] # NULL => mem'[fd[u]].refs # 0 /\ mem'[fd[u]].refs \in Nat
    BY <1>1, <1>4, <1>6
  <2> QED
    BY <2>1
<1>8. ASSUME NEW n \in Pointers(u) PROVE mem'[n].refs > 0 /\ mem[n].refs > 0
  <2>1. n \in Node /\ mem[n].refs # 0 /\ NULL \notin Node
    BY <1>1
  <2>2. n \in Pointers(u)'
    BY <1>1, <1>6, <1>7, <2>1
  <2>3. mem'[n].refs # 0 /\ mem'[n].refs \in Nat /\ mem[n].refs \in Nat
    BY <1>3, <1>4, <2>1, <2>2
  <2> QED
    BY <2>1, <2>3
<1>9. \A n \in Pointers(u) : Survives(n)
  BY <1>1, <1>8
<1>10. ASSUME pc[u] = "loading" PROVE mem'[at[u]].kind = Junk
  <2>1. /\ KindsRead(u) /\ WantFits(u) /\ Shape(u) /\ JunkLocked
    BY DEF IInv, Sound
  <2>2. mem[at[u]].kind = Junk /\ at[u] \in Node /\ want[u] = NoWant
    BY <1>10, <2>1 DEF KindsRead, FdKinds, Shape, WantFits, Idle
  <2>3. at[u] \in inodelist /\ at[u] \in Pointers(u)
    BY <1>1, <2>2
  <2>4. PICK x \in Task : Holders(at[u]) = {x}
    BY <2>1, <2>2, <2>3 DEF JunkLocked
  <2>5. u \in Holders(at[u])
    BY <1>10, <2>2 DEF Holders, Holds, NoWant
  <2>6. ASSUME pc[t] = "loading", at[t] = at[u] PROVE FALSE
    <3>1. WantFits(t)
      BY DEF IInv, Sound
    <3>2. want[t] = NoWant
      BY <2>6, <3>1 DEF WantFits
    <3>3. t \in Holders(at[u])
      BY <2>2, <2>6, <3>2 DEF Holders, Holds, NoWant
    <3> QED
      BY <2>4, <2>5, <3>3
  <2> QED
    BY <1>8, <2>2, <2>3, <2>6
<1>11. Same(u) /\ u \in Task
  OBVIOUS
<1> QED
  BY <1>2, <1>7, <1>9, <1>10, <1>11, SameFits

\* A step of t is sound when what t does and what it does to the cache is.
LEMMA StepIInv ==
    ASSUME IInv, ~ Dangling, NEW t \in Task, NULL \notin Node,
           \A u \in Task \ {t} : Same(u),
           TypeOK', PathsUnique', RootSound', RefsCounted', Shape(t)',
           \A m \in Node : mem[m].refs > 0 /\ mem'[m].refs > 0 =>
              /\ Survives(m)
              /\ mem[m].kind = Junk =>
                    mem'[m].kind = Junk \/ (pc[t] = "loading" /\ at[t] = m),
           \A u \in Task \ {t} : fd[u] # NULL /\ mem'[fd[u]].refs > 0 =>
              mem'[fd[u]].parent = mem[fd[u]].parent,
           ~ Dangling' => PathsFit(t)' /\ KindsRead(t)' /\ WantFits(t)',
           ~ Dangling' /\ OthersHold(t) => LocksSound' /\ JunkLocked'
    PROVE  IInv'
<1>1. ASSUME NEW u \in Task PROVE Shape(u)'
  <2>1. CASE u = t
    BY <2>1
  <2>2. CASE u # t
    <3>1. Same(u) /\ Shape(u)
      BY <2>2 DEF IInv
    <3> QED
      BY <3>1 DEF Shape, Same, parentOf
  <2> QED
    BY <2>1, <2>2
<1>2. \A m \in Node : mem'[m].refs \in Nat
  <2>1. \A m \in Node : mem'[m] \in Inode
    BY DEF TypeOK
  <2>2. \A m \in Node : mem'[m].refs \in 0 .. MaxRefs
    BY <2>1 DEF Inode
  <2> QED
    BY <2>2, TreeAssumption
<1>3. ASSUME ~ Dangling' PROVE Sound'
  <2>1. ASSUME NEW u \in Task \ {t}
        PROVE  /\ PathsFit(u)' /\ KindsRead(u)' /\ WantFits(u)'
               /\ Holds(u)' = Holds(u)
               /\ want'[u] = want[u] /\ pc'[u] = pc[u] /\ at'[u] = at[u]
    BY <1>2, <1>3, OthersFit
  <2>2. OthersHold(t)
    BY <2>1 DEF OthersHold
  <2>3. ASSUME NEW u \in Task PROVE PathsFit(u)' /\ KindsRead(u)' /\ WantFits(u)'
    <3>1. CASE u = t
      BY <1>3, <3>1
    <3>2. CASE u # t
      BY <2>1, <3>2
    <3> QED
      BY <3>1, <3>2
  <2> QED
    BY <1>3, <2>2, <2>3 DEF Sound
<1> QED
  BY <1>1, <1>3 DEF IInv
---------------------------------------------------------------------------
\* The inode that inode_new begins with.
LEMMA BlankFacts ==
    /\ Blank \in Inode
    /\ Blank.path = << >> /\ Blank.refs = 0 /\ Blank.kind = Junk /\ Blank.parent = NULL
    /\ Blank.lock = KRWLockInit /\ Blank.hit = FALSE /\ Blank.leaked = FALSE
    /\ KRWLockInit \in Lock
    /\ LockSound(KRWLockInit, {}, {}, {}, FALSE)
<1>1. /\ << >> \in Seq(Task) /\ << >> \in Seq({"READ", "WRITE"}) /\ Len(<< >>) = 0
  BY EmptySeq
<1>2. Range(<< >>) = {} /\ DOMAIN << >> = 1 .. 0
  BY <1>1, QueueRange
<1>3. IsInjective(<< >>)
  BY <1>2 DEF IsInjective
<1>4. KRWLockInit \in Lock
  BY <1>1 DEF KRWLockInit, Lock, Operations
<1>5. Cardinality({}) = 0
  BY FS_EmptySet
<1>6. LockSound(KRWLockInit, {}, {}, {}, FALSE)
  BY <1>1, <1>2, <1>3, <1>4, <1>5 DEF LockSound, KRWLockInit
<1>7. 0 \in 0 .. MaxRefs /\ << >> \in Path
  BY TreeAssumption
<1>8. Blank \in Inode
  BY <1>4, <1>7 DEF Blank, Inode, Kind
<1> QED
  BY <1>4, <1>6, <1>8 DEF Blank

\* At first only the root is in memory, and nobody has anything.
LEMMA InitIInv == ASSUME Init PROVE IInv
<1> DEFINE b == Blank
           r == [b EXCEPT !.refs = 1, !.kind = "dir"]
<1>0. /\ b \in Inode
      /\ b.path = << >> /\ b.refs = 0 /\ b.kind = Junk /\ b.parent = NULL
      /\ b.lock = KRWLockInit /\ b.hit = FALSE /\ b.leaked = FALSE
  BY BlankFacts
<1>1. /\ disk = Stored /\ cpu = NULL /\ ready = Task
      /\ \A t \in Task : /\ pc[t] = "user" /\ call[t] = NoCall /\ at[t] = NULL
                         /\ loaded[t] = << >> /\ want[t] = NoWant /\ fd[t] = NULL
      /\ \A n \in Node : mem[n] = IF n = root THEN r ELSE b
      /\ mem = [n \in Node |-> IF n = root THEN r ELSE b]
  <2> HIDE DEF r
  <2>1. mem = [n \in Node |-> IF n = root THEN r ELSE b]
    BY DEF Init, r
  <2> HIDE DEF b
  <2> QED
    BY <2>1 DEF Init
<1> HIDE DEF b
<1>2. NULL \notin Node /\ root \in Node /\ 0 \in 0 .. MaxRefs /\ 1 \in 0 .. MaxRefs
      /\ << >> \in Path
  BY TreeAssumption DEF Node, NULL, root
<1>3. LockSound(KRWLockInit, {}, {}, {}, FALSE)
  BY BlankFacts
<1>4. r \in Inode
  BY <1>0, <1>2 DEF Inode, Kind
<1>5. /\ r.path = << >> /\ ~ r.hit /\ r.leaked = FALSE /\ r.refs = 1 /\ b.refs = 0
      /\ r.kind = "dir" /\ r.lock = KRWLockInit /\ r.parent = NULL
  BY <1>0 DEF Inode
<1> HIDE DEF r
<1>6. TypeOK
  <2>2. mem \in [Node -> Inode]
    BY <1>0, <1>1, <1>4
  <2>3. disk \in [Path -> {"file", "dir", Missing}]
    BY <1>1, TreeAssumption DEF Missing
  <2>4. NoCall \in Call
    BY TreeAssumption DEF NoCall, CallOf, Call
  <2>5. call \in [Task -> Call]
    BY <2>4 DEF Init
  <2>6. loaded \in [Task -> Seq(Node)]
    BY EmptySeq DEF Init
  <2>7. want \in [Task -> [node : Node \cup {NULL}, op : Operations]]
    BY DEF Init, NoWant, Operations
  <2> QED
    BY <2>2, <2>3, <2>5, <2>6, <2>7 DEF Init, TypeOK, Idle
<1>7. inodelist = {root}
  BY <1>1, <1>2, <1>5 DEF inodelist
<1>8. PathsUnique /\ RootSound
  BY <1>1, <1>2, <1>5, <1>7 DEF PathsUnique, RootSound
<1>9. ASSUME NEW t \in Task PROVE Shape(t) /\ Holds(t) = {}
  <2>1. Len(<< >>) = 0 /\ ~ NoCall.create /\ parentOf(t) = NULL
    BY <1>1 DEF NoCall, CallOf, parentOf
  <2> QED
    BY <1>1, <1>2, <2>1 DEF Shape, Holds, Idle, Walking, Opening, NoCall, CallOf
<1>10. ASSUME NEW n \in Node PROVE CountFits(n)
  <2>1. Len(<< >>) = 0
    OBVIOUS
  <2>2. \A s \in Slots(n) : FALSE
    BY <1>1, <1>2, <2>1 DEF Slots, Points
  <2>3. Cardinality(Slots(n)) = 0
    BY <2>2, FS_EmptySet
  <2> QED
    BY <1>1, <1>2, <1>5, <2>3 DEF CountFits
<1>11. ASSUME NEW t \in Task PROVE PathsFit(t) /\ KindsRead(t) /\ WantFits(t)
  <2>1. Len(<< >>) = 0
    OBVIOUS
  <2> QED
    BY <1>1, <2>1 DEF PathsFit, FdPath, KindsRead, FdKinds, WantFits, Opening
<1>12. Waiters(root) = {} /\ Holders(root) = {}
  BY <1>1, <1>2, <1>9 DEF Waiters, Holders, NoWant
<1>13. LocksSound
  <2>1. mem[root].lock = KRWLockInit /\ mem[root].leaked = FALSE
    BY <1>1, <1>2, <1>5
  <2>2. Waiters(root) \ ready = {} /\ Waiters(root) \cap ready = {}
    BY <1>12
  <2> QED
    BY <1>3, <1>7, <1>12, <2>1, <2>2 DEF LocksSound
<1>14. JunkLocked
  BY <1>1, <1>2, <1>5, <1>7 DEF JunkLocked, Junk
<1> QED
  BY <1>6, <1>8, <1>9, <1>10, <1>11, <1>13, <1>14 DEF IInv, Sound, RefsCounted

\* A step that changes no inode but in its lock, and of t's state only where it
\* is and what it waits for.
SameInode(m) ==
    /\ mem'[m].path = mem[m].path /\ mem'[m].refs = mem[m].refs
    /\ mem'[m].kind = mem[m].kind /\ mem'[m].parent = mem[m].parent
    /\ mem'[m].hit = mem[m].hit /\ mem'[m].leaked = mem[m].leaked

LEMMA QuietStep ==
    ASSUME IInv, ~ Dangling, NEW t \in Task, NULL \notin Node,
           \A u \in Task \ {t} : Same(u),
           \A m \in Node : SameInode(m),
           at' = at, loaded' = loaded, fd' = fd, call'[t].path = call[t].path,
           TypeOK', Shape(t)', WantFits(t)',
           pc'[t] \in {"child", "missed"} <=> pc[t] \in {"child", "missed"},
           pc'[t] \in Opening <=> pc[t] \in Opening,
           pc'[t] \in {"loop", "examine", "loading"} => pc[t] \in {"loop", "examine", "loading"},
           pc'[t] = "loading" => pc[t] = "loading",
           OthersHold(t) => LocksSound' /\ JunkLocked'
    PROVE  IInv'
<1>1. /\ TypeOK /\ PathsUnique /\ RootSound /\ RefsCounted
      /\ PathsFit(t) /\ KindsRead(t) /\ Shape(t)
  BY DEF IInv, Sound
<1>2. /\ root \in Node
      /\ at[t] \in Node \cup {NULL} /\ fd[t] \in Node \cup {NULL}
      /\ \A i \in 1 .. Len(loaded[t]) : loaded[t][i] \in Node
      /\ fd[t] # NULL => mem[fd[t]].parent \in Node \cup {NULL}
      /\ pc[t] \notin Idle => at[t] \in Node
  <2>1. at[t] \in Node \cup {NULL} /\ fd[t] \in Node \cup {NULL}
        /\ \A i \in 1 .. Len(loaded[t]) : loaded[t][i] \in Node
    BY <1>1, TaskFacts
  <2>2. fd[t] # NULL => mem[fd[t]].parent \in Node \cup {NULL}
    BY <1>1, <2>1, NodeFacts
  <2>3. root \in Node
    BY TreeAssumption DEF Node, root
  <2> QED
    BY <1>1, <2>1, <2>2, <2>3 DEF Shape
<1>3. inodelist' = inodelist /\ inodelist \subseteq Node
  BY DEF inodelist, SameInode
<1>4. PathsUnique' /\ RootSound'
  BY <1>1, <1>2, <1>3 DEF PathsUnique, RootSound, SameInode
<1>5. RefsCounted'
  <2>1. ASSUME NEW n \in Node PROVE CountFits(n)'
    <3>1. \A i \in 0 .. 3 : Points(t, i, n)' => Points(t, i, n)
      BY <1>2 DEF Points, SameInode
    <3>2. /\ mem'[n].hit <=> mem[n].hit
          /\ mem'[n].refs \in Nat /\ mem'[n].refs >= mem[n].refs
      BY <1>1, NodeFacts DEF SameInode
    <3>3. CountFits(n) /\ 0 \in 0 .. 3
      BY <1>1 DEF RefsCounted
    <3>4. \A u \in Task \ {t} :
              fd[u] # NULL => mem'[fd[u]].parent \in {mem[fd[u]].parent, NULL}
      BY <1>1, TaskFacts DEF SameInode
    <3> QED
      BY <1>1, <3>1, <3>2, <3>3, <3>4, CountMoves
  <2> QED
    BY <2>1 DEF RefsCounted
<1>6. /\ \A m \in Node : Survives(m) /\ (mem[m].kind = Junk => mem'[m].kind = Junk)
      /\ \A u \in Task \ {t} : fd[u] # NULL => mem'[fd[u]].parent = mem[fd[u]].parent
  BY <1>1, TaskFacts DEF SameInode, Survives
<1>7. Base(t)' = Base(t)
  BY DEF Base
<1>8. PathsFit(t)'
  <2>1. \A i \in 1 .. Len(loaded[t]) :
           mem'[loaded[t][i]].path = First(call[t].path, Base(t) + i - 1)
    BY <1>1, <1>2 DEF PathsFit, FdPath, SameInode
  <2>2. pc'[t] \in {"loop", "examine", "loading"} \cup Opening =>
           mem'[at[t]].path = First(call[t].path, Base(t) + Len(loaded[t]))
    BY <1>1, <1>2 DEF PathsFit, FdPath, SameInode, Idle, Opening
  <2>3. fd[t] # NULL =>
          \/ mem'[fd[t]].path = << >> /\ mem'[fd[t]].parent = NULL
          \/ /\ mem'[fd[t]].path # << >> /\ mem'[fd[t]].parent # NULL
             /\ mem'[mem'[fd[t]].parent].path
                  = First(mem'[fd[t]].path, Len(mem'[fd[t]].path) - 1)
    BY <1>1, <1>2 DEF PathsFit, FdPath, SameInode
  <2> QED
    BY <1>7, <2>1, <2>2, <2>3 DEF PathsFit, FdPath
<1>9. KindsRead(t)'
  BY <1>1, <1>2 DEF KindsRead, FdKinds, SameInode, Idle
<1> QED
  BY <1>4, <1>5, <1>6, <1>8, <1>9, StepIInv
---------------------------------------------------------------------------
(* The steps that take a lock. *)

\* The lock a task wants is that of an inode in memory, and one it has not got.
LEMMA WantFacts ==
    ASSUME IInv, ~ Dangling, NEW t \in Task
    PROVE  /\ NULL \notin Node
           /\ want[t] # NoWant => /\ want[t].node \in inodelist /\ want[t].node \in Node
                                  /\ want[t].op \in {"READ", "WRITE"}
                                  /\ want[t].node \notin Holds(t)
                                  /\ pc[t] \notin {"user", "loading"}
           /\ want[t] = NoWant <=> want[t].node = NULL
           /\ want[t] = NoWant <=> want[t].node \notin Node
           /\ Holds(t) \subseteq Pointers(t) /\ Holds(t) \subseteq inodelist
<1>1. /\ WantFits(t) /\ Shape(t) /\ TypeOK
  BY DEF IInv, Sound
<1>2. /\ NULL \notin Node
      /\ at[t] \in Node \cup {NULL} /\ fd[t] \in Node \cup {NULL}
      /\ parentOf(t) \in Node \cup {NULL} /\ gparentOf(t) \in Node \cup {NULL}
      /\ want[t] = NoWant <=> want[t].node = NULL /\ want[t].op = "NONE"
  BY <1>1, TaskFacts
<1>3. /\ Pointers(t) \subseteq inodelist
      /\ at[t] # NULL => at[t] \in Pointers(t)
      /\ fd[t] # NULL => /\ fd[t] \in Pointers(t)
                         /\ mem[fd[t]].parent # NULL => mem[fd[t]].parent \in Pointers(t)
      /\ parentOf(t) # NULL => parentOf(t) \in Pointers(t)
      /\ gparentOf(t) # NULL => gparentOf(t) \in Pointers(t)
  BY <1>1, PointerFacts
<1>4. pc[t] \in {"reading", "read", "locksecond", "writing", "written"} => fd[t] # NULL
  BY <1>1 DEF Shape, Idle
<1>5. ASSUME want[t] # NoWant
      PROVE  /\ want[t].node \in inodelist /\ want[t].node \in Node
             /\ want[t].op \in {"READ", "WRITE"} /\ want[t].node \notin Holds(t)
             /\ pc[t] \notin {"user", "loading"}
  <2>1. /\ want[t].node \in Node /\ want[t].op \in {"READ", "WRITE"}
        /\ \/ pc[t] \in {"examine", "missed", "locked"} /\ want[t].node = at[t]
           \/ pc[t] = "lockparent" /\ want[t].node = gparentOf(t)
           \/ pc[t] = "locknode" /\ want[t].node = parentOf(t)
           \/ pc[t] \in {"reading", "writing"} /\ want[t].node = fd[t]
           \/ pc[t] = "locksecond" /\ want[t].node = mem[fd[t]].parent
    BY <1>1, <1>5 DEF WantFits
  <2>2. want[t].node \in Pointers(t)
    BY <1>2, <1>3, <1>4, <2>1
  <2>3. want[t].node \notin Holds(t)
    BY DEF Holds
  <2> QED
    BY <1>3, <2>1, <2>2, <2>3
<1>6. ASSUME NEW n \in Holds(t) PROVE n \in Pointers(t)
  <2>1. n \in Node
    BY DEF Holds
  <2> QED
    BY <1>2, <1>3, <1>4, <2>1 DEF Holds
<1> QED
  BY <1>2, <1>3, <1>5, <1>6

\* krwlock_read and krwlock_write on the way to label.
LEMMA LockFields ==
    ASSUME IInv, ~ Dangling, NEW t \in Task, NEW n \in Node \cup {NULL},
           NEW op \in {"READ", "WRITE"}, NEW label \in Idle \cup Walking \cup Opening,
           want[t] = NoWant, LockAndGoto(t, n, op, label),
           UNCHANGED << disk, call, at, loaded, fd >>,
           n # NULL => n \in inodelist
    PROVE  /\ TypeOK' /\ pc'[t] = label
           /\ \A u \in Task \ {t} : Same(u)
           /\ \A m \in Node : SameInode(m)
           /\ \/ n = NULL /\ want' = want /\ ready' = ready /\ mem' = mem
              \/ /\ n # NULL /\ want'[t] = NoWant /\ ~ Blocks(mem[n].lock, op)
                 /\ ready' = ready \cup EnterWakes(mem[n].lock, op)
                 /\ \A m \in Node :
                       mem'[m].lock = IF m = n THEN Entered(mem[m].lock, op)
                                      ELSE mem[m].lock
              \/ /\ n # NULL /\ want'[t] = [node |-> n, op |-> op]
                 /\ Blocks(mem[n].lock, op)
                 /\ ready' = ready \ {t}
                 /\ \A m \in Node :
                       mem'[m].lock = IF m = n THEN KRWLockEnqueue(mem[m].lock, t, op)
                                      ELSE mem[m].lock
<1>1. TypeOK /\ NULL \notin Node
  BY TreeAssumption DEF IInv, Node, NULL
<1>2. /\ pc' = [pc EXCEPT ![t] = label]
      /\ disk' = disk /\ call' = call /\ at' = at /\ loaded' = loaded /\ fd' = fd
  BY DEF LockAndGoto, Pass, EnterAtOnce, SleepInLock, Goto
<1>3. /\ pc' \in [Task -> Idle \cup Walking \cup Opening] /\ pc'[t] = label
      /\ \A u \in Task \ {t} : pc'[u] = pc[u]
  BY <1>1, <1>2 DEF TypeOK
<1>4. CASE n = NULL
  <2>1. cpu' = t /\ mem' = mem /\ want' = want /\ ready' = ready
    BY <1>4 DEF LockAndGoto, Pass
  <2>2. TypeOK'
    BY <1>1, <1>2, <1>3, <2>1 DEF TypeOK
  <2> QED
    BY <1>2, <1>3, <1>4, <2>1, <2>2 DEF Same, SameInode
<1>5. CASE n # NULL
  <2>0. n \in Node /\ n \in inodelist
    BY <1>5
  <2>1. /\ Entered(mem[n].lock, op) \in Lock /\ KRWLockEnqueue(mem[n].lock, t, op) \in Lock
        /\ EnterWakes(mem[n].lock, op) \subseteq Task
    BY <2>0, LockTypes
  <2>2. ASSUME NEW l \in Lock, mem' = [mem EXCEPT ![n].lock = l]
        PROVE  /\ mem' \in [Node -> Inode]
               /\ \A m \in Node : SameInode(m)
               /\ \A m \in Node : mem'[m].lock = IF m = n THEN l ELSE mem[m].lock
    <3>1. mem \in [Node -> Inode]
      BY <1>1 DEF TypeOK
    <3>2. mem' \in [Node -> Inode]
      BY <2>0, <2>2, <3>1 DEF Inode
    <3>3. ASSUME NEW m \in Node
          PROVE  SameInode(m) /\ mem'[m].lock = IF m = n THEN l ELSE mem[m].lock
      <4>1. CASE m = n
        BY <2>0, <2>2, <3>1, <4>1 DEF Inode, SameInode
      <4>2. CASE m # n
        BY <2>0, <2>2, <3>1, <4>2 DEF SameInode
      <4> QED
        BY <4>1, <4>2
    <3> QED
      BY <3>2, <3>3
  <2>3. CASE EnterAtOnce(t, n, op, label)
    <3> DEFINE l == Entered(mem[n].lock, op)
    <3>1. /\ ~ Blocks(mem[n].lock, op) /\ mem' = [mem EXCEPT ![n].lock = l]
          /\ ready' = ready \cup EnterWakes(mem[n].lock, op)
          /\ cpu' = t /\ want' = want
      BY <2>3 DEF EnterAtOnce
    <3>2. l \in Lock
      BY <2>1
    <3> HIDE DEF l
    <3>3. /\ mem' \in [Node -> Inode]
          /\ \A m \in Node : SameInode(m)
          /\ \A m \in Node : mem'[m].lock = IF m = n THEN l ELSE mem[m].lock
      BY <2>2, <3>1, <3>2
    <3>4. TypeOK'
      BY <1>1, <1>2, <1>3, <2>1, <3>1, <3>3 DEF TypeOK
    <3>5. \A u \in Task \ {t} : Same(u)
      BY <1>2, <1>3, <3>1 DEF Same
    <3>6. \A m \in Node : mem'[m].lock = IF m = n THEN Entered(mem[m].lock, op)
                                          ELSE mem[m].lock
      BY <3>3 DEF l
    <3> QED
      BY <1>3, <1>5, <3>1, <3>3, <3>4, <3>5, <3>6
  <2>4. CASE SleepInLock(t, n, op, label)
    <3> DEFINE l == KRWLockEnqueue(mem[n].lock, t, op)
               w == [node |-> n, op |-> op]
    <3>1. /\ Blocks(mem[n].lock, op) /\ mem' = [mem EXCEPT ![n].lock = l]
          /\ ready' = ready \ {t}
          /\ cpu' = NULL /\ want' = [want EXCEPT ![t] = w]
      BY <2>4 DEF SleepInLock
    <3>2. l \in Lock /\ w \in [node : Node \cup {NULL}, op : Operations]
      BY <2>0, <2>1 DEF Operations
    <3> HIDE DEF l, w
    <3>3. /\ mem' \in [Node -> Inode]
          /\ \A m \in Node : SameInode(m)
          /\ \A m \in Node : mem'[m].lock = IF m = n THEN l ELSE mem[m].lock
      BY <2>2, <3>1, <3>2
    <3>4. /\ want' \in [Task -> [node : Node \cup {NULL}, op : Operations]]
          /\ want'[t] = w /\ \A u \in Task \ {t} : want'[u] = want[u]
      BY <1>1, <3>1, <3>2 DEF TypeOK
    <3>5. TypeOK'
      BY <1>1, <1>2, <1>3, <3>1, <3>3, <3>4 DEF TypeOK
    <3>6. \A u \in Task \ {t} : Same(u)
      BY <1>2, <1>3, <3>4 DEF Same
    <3>7. \A m \in Node : mem'[m].lock = IF m = n THEN KRWLockEnqueue(mem[m].lock, t, op)
                                          ELSE mem[m].lock
      BY <3>3 DEF l
    <3> QED
      BY <1>3, <1>5, <3>1, <3>3, <3>4, <3>5, <3>6, <3>7 DEF w
  <2> QED
    BY <1>5, <2>3, <2>4 DEF LockAndGoto
<1> QED
  BY <1>4, <1>5

\* No lock changes, nor does anybody get or lose one.
LEMMA IdleLocks ==
    ASSUME IInv, ~ Dangling, NEW t \in Task, OthersHold(t), Holds(t)' = Holds(t),
           want[t] = NoWant, want'[t] = NoWant,
           \A u \in Task : want[u] # NoWant => (u \in ready' <=> u \in ready),
           \A m \in Node : mem'[m].refs > 0 =>
              /\ mem[m].refs > 0
              /\ mem'[m].lock = mem[m].lock
              /\ mem'[m].leaked = mem[m].leaked
              /\ mem'[m].kind = Junk =>
                    /\ mem[m].kind = Junk
                    /\ \/ pc[t] # "loading" \/ at[t] # m
                       \/ pc'[t] = pc[t] /\ at'[t] = at[t]
    PROVE  LocksSound' /\ JunkLocked'
<1> DEFINE ns == {}
<1>1. /\ ns \in SUBSET Node /\ ns \subseteq Holds(t) /\ Holds(t)' = Holds(t) \ ns
      /\ ns \subseteq inodelist
  OBVIOUS
<1>2. \A u : u \notin ReleaseWakes(mem, ns)
  BY DEF ReleaseWakes
<1>3. \A m : m \notin ns
  OBVIOUS
<1> HIDE DEF ns
<1>4. \A u \in Task : want[u] # NoWant =>
         (u \in ready' <=> u \in ready \/ u \in ReleaseWakes(mem, ns))
  BY <1>2
<1>5. \A m \in Node : mem'[m].refs > 0 =>
         /\ mem[m].refs > 0
         /\ mem'[m].lock = IF m \in ns THEN KRWLockRelease(mem[m].lock) ELSE mem[m].lock
         /\ mem'[m].leaked = mem[m].leaked
         /\ mem'[m].kind = Junk =>
               /\ mem[m].kind = Junk /\ m \notin ns
               /\ \/ pc[t] # "loading" \/ at[t] # m
                  \/ pc'[t] = pc[t] /\ at'[t] = at[t]
  BY <1>3
<1> QED
  BY <1>1, <1>4, <1>5, ReleaseLocks
LEMMA LockStep ==
    ASSUME IInv, ~ Dangling, NEW t \in Task, NEW n \in Node \cup {NULL},
           NEW op \in {"READ", "WRITE"}, NEW label \in Idle \cup Walking \cup Opening,
           want[t] = NoWant, LockAndGoto(t, n, op, label),
           UNCHANGED << disk, call, at, loaded, fd >>,
           n # NULL => n \in inodelist /\ n \notin Holds(t),
           pc[t] # "loading", label # "loading",
           label \in {"child", "missed"} <=> pc[t] \in {"child", "missed"},
           label \in Opening <=> pc[t] \in Opening,
           label \in {"loop", "examine"} => pc[t] \in {"loop", "examine"},
           Shape(t)', WantFits(t)',
           want'[t] = NoWant => Holds(t)' = Holds(t) \cup ({n} \ {NULL}),
           want'[t] # NoWant => Holds(t)' = Holds(t)
    PROVE  IInv'
<1>1. /\ TypeOK' /\ pc'[t] = label
      /\ \A u \in Task \ {t} : Same(u)
      /\ \A m \in Node : SameInode(m)
      /\ \/ n = NULL /\ want' = want /\ ready' = ready /\ mem' = mem
         \/ /\ n # NULL /\ want'[t] = NoWant /\ ~ Blocks(mem[n].lock, op)
            /\ ready' = ready \cup EnterWakes(mem[n].lock, op)
            /\ \A m \in Node :
                  mem'[m].lock = IF m = n THEN Entered(mem[m].lock, op) ELSE mem[m].lock
         \/ /\ n # NULL /\ want'[t] = [node |-> n, op |-> op]
            /\ Blocks(mem[n].lock, op)
            /\ ready' = ready \ {t}
            /\ \A m \in Node :
                  mem'[m].lock = IF m = n THEN KRWLockEnqueue(mem[m].lock, t, op)
                                 ELSE mem[m].lock
  BY LockFields, ZenonT(40)
<1>2. NULL \notin Node
  BY WantFacts
<1>3. ASSUME OthersHold(t) PROVE LocksSound' /\ JunkLocked'
  <2>1. CASE n = NULL /\ want' = want /\ ready' = ready /\ mem' = mem
    <3>1. want'[t] = NoWant /\ Holds(t)' = Holds(t)
      BY <2>1
    <3>2. /\ \A u \in Task : want[u] # NoWant => (u \in ready' <=> u \in ready)
          /\ \A m \in Node : mem'[m] = mem[m]
      BY <2>1
    <3> QED
      BY <1>3, <3>1, <3>2, IdleLocks
  <2>2. CASE /\ n # NULL /\ want'[t] = NoWant /\ ~ Blocks(mem[n].lock, op)
             /\ ready' = ready \cup EnterWakes(mem[n].lock, op)
             /\ \A m \in Node :
                   mem'[m].lock = IF m = n THEN Entered(mem[m].lock, op) ELSE mem[m].lock
    <3>1. /\ n \in inodelist /\ n \notin Holds(t) /\ Holds(t)' = Holds(t) \cup {n}
      BY <2>2
    <3>2. \A m \in Node :
              /\ mem'[m].lock = IF m = n THEN Entered(mem[m].lock, op) ELSE mem[m].lock
              /\ mem'[m].refs = mem[m].refs /\ mem'[m].kind = mem[m].kind
              /\ mem'[m].leaked = mem[m].leaked
      BY <1>1, <2>2 DEF SameInode
    <3> QED
      BY <1>3, <2>2, <3>1, <3>2, EnterLocks
  <2>3. CASE /\ n # NULL /\ want'[t] = [node |-> n, op |-> op]
             /\ Blocks(mem[n].lock, op)
             /\ ready' = ready \ {t}
             /\ \A m \in Node :
                   mem'[m].lock = IF m = n THEN KRWLockEnqueue(mem[m].lock, t, op)
                                  ELSE mem[m].lock
    <3>1. n \in inodelist /\ want'[t] # NoWant /\ want'[t].node = n
      BY <2>3 DEF NoWant
    <3>2. Holds(t)' = Holds(t)
      BY <3>1
    <3>3. \A m \in Node :
              /\ mem'[m].lock = IF m = n THEN KRWLockEnqueue(mem[m].lock, t, op)
                                ELSE mem[m].lock
              /\ mem'[m].refs = mem[m].refs /\ mem'[m].kind = mem[m].kind
              /\ mem'[m].leaked = mem[m].leaked
      BY <1>1, <2>3 DEF SameInode
    <3> QED
      BY <1>3, <2>3, <3>1, <3>2, <3>3, EnqueueLocks
  <2> QED
    BY <1>1, <2>1, <2>2, <2>3
<1>4. /\ at' = at /\ loaded' = loaded /\ fd' = fd /\ call'[t].path = call[t].path
      /\ pc'[t] \in {"child", "missed"} <=> pc[t] \in {"child", "missed"}
      /\ pc'[t] \in Opening <=> pc[t] \in Opening
      /\ pc'[t] \in {"loop", "examine", "loading"} => pc[t] \in {"loop", "examine", "loading"}
      /\ pc'[t] = "loading" => pc[t] = "loading"
  BY <1>1
<1> QED
  BY <1>1, <1>2, <1>3, <1>4, QuietStep

\* What t's state is after it has asked for a lock.
LEMMA LockLands ==
    ASSUME IInv, ~ Dangling, NEW t \in Task, NEW n \in Node \cup {NULL},
           NEW op \in {"READ", "WRITE"}, NEW label \in Idle \cup Walking \cup Opening,
           want[t] = NoWant, LockAndGoto(t, n, op, label),
           UNCHANGED << disk, call, at, loaded, fd >>,
           n # NULL => n \in inodelist
    PROVE  /\ NULL \notin Node
           /\ pc'[t] = label /\ call'[t] = call[t] /\ at'[t] = at[t] /\ fd'[t] = fd[t]
           /\ loaded'[t] = loaded[t]
           /\ parentOf(t)' = parentOf(t) /\ gparentOf(t)' = gparentOf(t)
           /\ \A m \in Node : mem'[m].parent = mem[m].parent
           /\ want[t].node = NULL
           /\ \/ want'[t] = NoWant /\ want'[t].node = NULL
              \/ /\ want'[t].node = n /\ want'[t].op = op /\ n \in Node
                 /\ want'[t] # NoWant
<1>0. /\ TypeOK' /\ pc'[t] = label
      /\ \A u \in Task \ {t} : Same(u)
      /\ \A m \in Node : SameInode(m)
      /\ \/ n = NULL /\ want' = want /\ ready' = ready /\ mem' = mem
         \/ /\ n # NULL /\ want'[t] = NoWant /\ ~ Blocks(mem[n].lock, op)
            /\ ready' = ready \cup EnterWakes(mem[n].lock, op)
            /\ \A m \in Node :
                  mem'[m].lock = IF m = n THEN Entered(mem[m].lock, op) ELSE mem[m].lock
         \/ /\ n # NULL /\ want'[t] = [node |-> n, op |-> op]
            /\ Blocks(mem[n].lock, op)
            /\ ready' = ready \ {t}
            /\ \A m \in Node :
                  mem'[m].lock = IF m = n THEN KRWLockEnqueue(mem[m].lock, t, op)
                                 ELSE mem[m].lock
  BY LockFields, ZenonT(40)
<1>1. /\ pc'[t] = label
      /\ \A m \in Node : SameInode(m)
      /\ \/ n = NULL /\ want' = want
         \/ want'[t] = NoWant
         \/ n # NULL /\ want'[t] = [node |-> n, op |-> op]
  BY <1>0
<1>2. NULL \notin Node /\ NoWant.node = NULL
  BY WantFacts DEF NoWant
<1>3. \A m \in Node : mem'[m].parent = mem[m].parent
  BY <1>1 DEF SameInode
<1>4. \/ want'[t] = NoWant /\ want'[t].node = NULL
      \/ /\ want'[t].node = n /\ want'[t].op = op /\ n \in Node
         /\ want'[t] # NoWant
  <2>1. CASE n = NULL /\ want' = want
    BY <1>2, <2>1
  <2>2. CASE want'[t] = NoWant
    BY <1>2, <2>2
  <2>3. CASE n # NULL /\ want'[t] = [node |-> n, op |-> op]
    BY <1>2, <2>3
  <2> QED
    BY <1>1, <2>1, <2>2, <2>3
<1> QED
  BY <1>1, <1>2, <1>3, <1>4 DEF parentOf, gparentOf

\* krwlock_read of the inode, to look whether it is a directory.
LEMMA DescendStep ==
    ASSUME IInv, ~ Dangling, NEW t \in Task, Descend(t)
    PROVE  IInv'
<1>1. /\ pc[t] = "loop" /\ want[t] = NoWant /\ mem[at[t]].path # call[t].path
      /\ LockAndGoto(t, at[t], "READ", "examine")
      /\ UNCHANGED << disk, call, at, loaded, fd >>
      /\ pc[t] \notin Idle /\ Shape(t) /\ TypeOK
  BY DEF Descend, At, IInv, Idle
<1>2. at[t] \in Node /\ at[t] \in inodelist
  BY <1>1, PointerFacts, TaskFacts DEF Shape
<1>3. "examine" \in Idle \cup Walking \cup Opening /\ "READ" \in {"READ", "WRITE"}
  BY DEF Walking
<1>4. /\ NULL \notin Node
      /\ pc'[t] = "examine" /\ call'[t] = call[t] /\ at'[t] = at[t] /\ fd'[t] = fd[t]
      /\ loaded'[t] = loaded[t]
      /\ parentOf(t)' = parentOf(t) /\ gparentOf(t)' = gparentOf(t)
      /\ \A m \in Node : mem'[m].parent = mem[m].parent
      /\ want[t].node = NULL
      /\ \/ want'[t] = NoWant /\ want'[t].node = NULL
         \/ /\ want'[t].node = at[t] /\ want'[t].op = "READ" /\ want'[t] # NoWant
  BY <1>1, <1>2, <1>3, LockLands
<1>5. Len(loaded[t]) < Len(call[t].path)
  <2>1. /\ Len(loaded[t]) <= Len(call[t].path) /\ Len(loaded[t]) \in Nat
        /\ Len(call[t].path) \in Nat /\ call[t].path \in Path
    BY <1>1, TaskFacts DEF Shape, Walking
  <2>2. PathsFit(t) /\ Base(t) = 0
    BY <1>1 DEF IInv, Sound, Base, Opening
  <2>3. mem[at[t]].path = First(call[t].path, Len(loaded[t]))
    BY <1>1, <2>1, <2>2 DEF PathsFit, FdPath
  <2>4. 0 \in 0 .. Len(call[t].path)
    BY <2>1
  <2>5. First(call[t].path, Len(call[t].path)) = call[t].path
    BY <2>1, <2>4, FirstProperties
  <2> QED
    BY <1>1, <2>1, <2>3, <2>5
<1>6. Shape(t)'
  BY <1>1, <1>4, <1>5 DEF Shape, Idle, Walking, Opening
<1>7. WantFits(t)'
  BY <1>2, <1>4 DEF WantFits
<1>8. /\ Holds(t) = {}
      /\ want'[t] = NoWant => Holds(t)' = {at[t]}
      /\ want'[t] # NoWant => Holds(t)' = {}
  BY <1>1, <1>2, <1>4 DEF Holds
<1>9. /\ "examine" \in {"child", "missed"} <=> pc[t] \in {"child", "missed"}
      /\ "examine" \in Opening <=> pc[t] \in Opening
      /\ pc[t] # "loading" /\ at[t] \notin Holds(t) /\ at[t] # NULL
  BY <1>1, <1>2, <1>8, WantFacts DEF Opening
<1>10. /\ want'[t] = NoWant => Holds(t)' = Holds(t) \cup ({at[t]} \ {NULL})
       /\ want'[t] # NoWant => Holds(t)' = Holds(t)
  BY <1>8, <1>9
<1> QED
  BY <1>1, <1>2, <1>3, <1>6, <1>7, <1>9, <1>10, LockStep
\* The inodes an open has at hand are different from each other.
LEMMA OpenFacts ==
    ASSUME IInv, ~ Dangling, NEW t \in Task, pc[t] \in Opening
    PROVE  /\ at[t] \in Node /\ at[t] \in inodelist
           /\ parentOf(t) # NULL => parentOf(t) \in inodelist /\ parentOf(t) # at[t]
           /\ gparentOf(t) # NULL => /\ gparentOf(t) \in inodelist /\ gparentOf(t) # at[t]
                                     /\ gparentOf(t) # parentOf(t)
           /\ parentOf(t) \in Node \cup {NULL} /\ gparentOf(t) \in Node \cup {NULL}
           /\ NULL \notin Node
<1>1. /\ pc[t] \notin Idle /\ TypeOK /\ Shape(t)
  BY DEF IInv, Opening, Idle
<1>2. /\ at[t] \in Node /\ parentOf(t) \in Node \cup {NULL} /\ gparentOf(t) \in Node \cup {NULL}
      /\ NULL \notin Node /\ Len(loaded[t]) \in Nat
      /\ parentOf(t) # NULL => loaded[t] # << >> /\ parentOf(t) = loaded[t][Len(loaded[t])]
      /\ loaded[t] # << >> => Len(loaded[t]) # 0
      /\ gparentOf(t) # NULL => Len(loaded[t]) >= 2 /\ gparentOf(t) = loaded[t][1]
  BY <1>1, TaskFacts DEF Shape
<1>3. /\ at[t] \in inodelist
      /\ parentOf(t) # NULL => parentOf(t) \in inodelist
      /\ gparentOf(t) # NULL => gparentOf(t) \in inodelist
  BY <1>1, <1>2, PointerFacts
<1>4. /\ \A i, j \in 1 .. Len(loaded[t]) : loaded[t][i] = loaded[t][j] => i = j
      /\ \A i \in 1 .. Len(loaded[t]) : loaded[t][i] # at[t]
  BY <1>1, WalkFacts
<1>5. parentOf(t) # NULL => parentOf(t) # at[t]
  BY <1>2, <1>4
<1>6. ASSUME gparentOf(t) # NULL
      PROVE  gparentOf(t) # at[t] /\ gparentOf(t) # parentOf(t)
  <2>1. /\ Len(loaded[t]) >= 2 /\ gparentOf(t) = loaded[t][1]
        /\ Len(loaded[t]) \in Nat
    BY <1>2, <1>6
  <2>2. /\ 1 \in 1 .. Len(loaded[t]) /\ Len(loaded[t]) \in 1 .. Len(loaded[t])
        /\ 1 # Len(loaded[t])
    <3>1. \A l \in Nat : l >= 2 => 1 \in 1 .. l /\ l \in 1 .. l /\ 1 # l
      OBVIOUS
    <3> QED
      BY <2>1, <3>1
  <2>3. loaded[t][1] # loaded[t][Len(loaded[t])]
    BY <1>4, <2>2
  <2>4. loaded[t] # << >> /\ parentOf(t) = loaded[t][Len(loaded[t])]
    <3>1. loaded[t] # << >>
      BY <1>1, <2>1, TaskFacts
    <3> QED
      BY <1>1, <3>1, TaskFacts
  <2> QED
    BY <1>4, <2>1, <2>2, <2>3, <2>4
<1> QED
  BY <1>2, <1>3, <1>5, <1>6

\* krwlock_read of the directory, to look again for the child.
LEMMA ChildMissedStep ==
    ASSUME IInv, ~ Dangling, NEW t \in Task, ChildMissed(t)
    PROVE  IInv'
<1>1. /\ pc[t] = "child" /\ want[t] = NoWant
      /\ LockAndGoto(t, at[t], "READ", "missed")
      /\ UNCHANGED << disk, call, at, loaded, fd >>
      /\ pc[t] \notin Idle /\ Shape(t) /\ TypeOK
  BY DEF ChildMissed, At, IInv, Idle
<1>2. at[t] \in Node /\ at[t] \in inodelist
  BY <1>1, PointerFacts, TaskFacts DEF Shape
<1>3. "missed" \in Idle \cup Walking \cup Opening /\ "READ" \in {"READ", "WRITE"}
  BY DEF Walking
<1>4. /\ NULL \notin Node
      /\ pc'[t] = "missed" /\ call'[t] = call[t] /\ at'[t] = at[t] /\ fd'[t] = fd[t]
      /\ loaded'[t] = loaded[t]
      /\ parentOf(t)' = parentOf(t) /\ gparentOf(t)' = gparentOf(t)
      /\ \A m \in Node : mem'[m].parent = mem[m].parent
      /\ want[t].node = NULL
      /\ \/ want'[t] = NoWant /\ want'[t].node = NULL
         \/ /\ want'[t].node = at[t] /\ want'[t].op = "READ" /\ want'[t] # NoWant
  BY <1>1, <1>2, <1>3, LockLands
<1>5. Shape(t)'
  BY <1>1, <1>4 DEF Shape, Idle, Walking, Opening
<1>6. WantFits(t)'
  BY <1>2, <1>4 DEF WantFits
<1>7. /\ Holds(t) = {}
      /\ want'[t] = NoWant => Holds(t)' = {at[t]}
      /\ want'[t] # NoWant => Holds(t)' = {}
  BY <1>1, <1>2, <1>4 DEF Holds
<1>8. /\ "missed" \in {"child", "missed"} <=> pc[t] \in {"child", "missed"}
      /\ "missed" \in Opening <=> pc[t] \in Opening
      /\ pc[t] # "loading" /\ at[t] \notin Holds(t) /\ at[t] # NULL
  BY <1>1, <1>2, <1>7, WantFacts DEF Opening
<1>9. /\ want'[t] = NoWant => Holds(t)' = Holds(t) \cup ({at[t]} \ {NULL})
      /\ want'[t] # NoWant => Holds(t)' = Holds(t)
  BY <1>7, <1>8
<1> QED
  BY <1>1, <1>2, <1>3, <1>5, <1>6, <1>8, <1>9, LockStep

\* The three locks of fs_open.
LEMMA LockForOpenStep ==
    ASSUME IInv, ~ Dangling, NEW t \in Task, LockForOpen(t)
    PROVE  IInv'
<1>1. /\ want[t] = NoWant /\ TypeOK /\ Shape(t)
      /\ UNCHANGED << disk, call, at, loaded, fd >>
      /\ \/ pc[t] = "lockgparent" /\ LockAndGoto(t, gparentOf(t), "WRITE", "lockparent")
         \/ pc[t] = "lockparent" /\ LockAndGoto(t, parentOf(t), "WRITE", "locknode")
         \/ pc[t] = "locknode" /\ LockAndGoto(t, at[t], "WRITE", "locked")
  BY DEF LockForOpen, At, IInv
<1>2. pc[t] \in Opening /\ pc[t] \notin Idle \cup {"loading", "loop", "examine", "child", "missed"}
  BY <1>1 DEF Opening, Idle
<1>3. /\ at[t] \in Node /\ at[t] \in inodelist
      /\ parentOf(t) # NULL => parentOf(t) \in inodelist /\ parentOf(t) # at[t]
      /\ gparentOf(t) # NULL => /\ gparentOf(t) \in inodelist /\ gparentOf(t) # at[t]
                                /\ gparentOf(t) # parentOf(t)
      /\ parentOf(t) \in Node \cup {NULL} /\ gparentOf(t) \in Node \cup {NULL}
      /\ NULL \notin Node
  BY <1>2, OpenFacts
<1>4. ASSUME NEW n \in Node \cup {NULL}, n # NULL => n \in inodelist,
             NEW label \in {"lockparent", "locknode", "locked"},
             LockAndGoto(t, n, "WRITE", label),
             \/ pc[t] = "lockgparent" /\ label = "lockparent" /\ n = gparentOf(t)
             \/ pc[t] = "lockparent" /\ label = "locknode" /\ n = parentOf(t)
             \/ pc[t] = "locknode" /\ label = "locked" /\ n = at[t]
      PROVE  IInv'
  <2>1. label \in Idle \cup Walking \cup Opening /\ "WRITE" \in {"READ", "WRITE"}
        /\ label \in Opening /\ label \notin Idle \cup Walking \cup {"allocated", "created"}
    BY DEF Opening, Walking, Idle
  <2>2. /\ pc'[t] = label /\ call'[t] = call[t] /\ at'[t] = at[t] /\ fd'[t] = fd[t]
        /\ loaded'[t] = loaded[t]
        /\ parentOf(t)' = parentOf(t) /\ gparentOf(t)' = gparentOf(t)
        /\ \A m \in Node : mem'[m].parent = mem[m].parent
        /\ want[t].node = NULL
        /\ \/ want'[t] = NoWant /\ want'[t].node = NULL
           \/ /\ want'[t].node = n /\ want'[t].op = "WRITE" /\ n \in Node
              /\ want'[t] # NoWant
    BY <1>1, <1>4, <2>1, LockLands
  <2>3. Shape(t)'
    BY <1>1, <1>2, <1>3, <2>1, <2>2 DEF Shape, Idle, Walking, Opening
  <2>4. WantFits(t)'
    BY <1>4, <2>2 DEF WantFits
  <2>5. n # NULL => n \notin Holds(t)
    BY <1>2, <1>3, <1>4 DEF Holds
  <2>6. ASSUME want'[t] = NoWant PROVE Holds(t)' = Holds(t) \cup ({n} \ {NULL})
    <3>1. CASE pc[t] = "lockgparent" /\ label = "lockparent" /\ n = gparentOf(t)
      BY <1>3, <2>2, <2>6, <3>1 DEF Holds
    <3>2. CASE pc[t] = "lockparent" /\ label = "locknode" /\ n = parentOf(t)
      BY <1>3, <2>2, <2>6, <3>2 DEF Holds
    <3>3. CASE pc[t] = "locknode" /\ label = "locked" /\ n = at[t]
      BY <1>3, <2>2, <2>6, <3>3 DEF Holds
    <3> QED
      BY <1>4, <3>1, <3>2, <3>3
  <2>7. ASSUME want'[t] # NoWant PROVE Holds(t)' = Holds(t)
    <3>1. want'[t].node = n /\ n \in Node
      BY <2>2, <2>7
    <3>2. CASE pc[t] = "lockgparent" /\ label = "lockparent" /\ n = gparentOf(t)
      BY <1>3, <2>2, <3>1, <3>2 DEF Holds
    <3>3. CASE pc[t] = "lockparent" /\ label = "locknode" /\ n = parentOf(t)
      BY <1>3, <2>2, <3>1, <3>3 DEF Holds
    <3>4. CASE pc[t] = "locknode" /\ label = "locked" /\ n = at[t]
      BY <1>3, <2>2, <3>1, <3>4 DEF Holds
    <3> QED
      BY <1>4, <3>2, <3>3, <3>4
  <2>8. /\ pc[t] # "loading" /\ label # "loading"
        /\ label \in {"child", "missed"} <=> pc[t] \in {"child", "missed"}
        /\ label \in Opening <=> pc[t] \in Opening
        /\ label \in {"loop", "examine"} => pc[t] \in {"loop", "examine"}
    BY <1>2, <2>1
  <2> QED
    BY <1>1, <1>4, <2>1, <2>3, <2>4, <2>5, <2>6, <2>7, <2>8, LockStep
<1>5. CASE pc[t] = "lockgparent" /\ LockAndGoto(t, gparentOf(t), "WRITE", "lockparent")
  BY <1>3, <1>4, <1>5
<1>6. CASE pc[t] = "lockparent" /\ LockAndGoto(t, parentOf(t), "WRITE", "locknode")
  BY <1>3, <1>4, <1>6
<1>7. CASE pc[t] = "locknode" /\ LockAndGoto(t, at[t], "WRITE", "locked")
  BY <1>3, <1>4, <1>7
<1> QED
  BY <1>1, <1>5, <1>6, <1>7

\* The locks of fs_read and fs_write.
LEMMA FileLockStep ==
    ASSUME IInv, ~ Dangling, NEW t \in Task,
           BeginRead(t) \/ BeginWrite(t) \/ LockToWrite(t)
    PROVE  IInv'
<1> DEFINE p == mem[fd[t]].parent
<1>1. /\ want[t] = NoWant /\ TypeOK /\ Shape(t) /\ fd[t] # NULL
      /\ UNCHANGED << disk, call, at, loaded, fd >>
      /\ \/ pc[t] = "user" /\ LockAndGoto(t, fd[t], "READ", "reading")
         \/ pc[t] = "user" /\ LockAndGoto(t, p, "WRITE", "locksecond")
         \/ pc[t] = "locksecond" /\ LockAndGoto(t, SecondLock(t), "WRITE", "writing")
  BY DEF BeginRead, BeginWrite, LockToWrite, FirstLock, At, IInv, Shape, Idle
<1>2. /\ fd[t] \in Node /\ fd[t] \in inodelist /\ NULL \notin Node
      /\ p \in Node \cup {NULL}
      /\ p # NULL => p \in inodelist /\ p # fd[t]
      /\ p # fd[t]
  <2>1. /\ fd[t] \in Node /\ fd[t] \in inodelist /\ NULL \notin Node
        /\ p # NULL => p \in inodelist /\ p # fd[t]
    BY <1>1, FdFacts, WantFacts
  <2>2. p \in Node \cup {NULL}
    BY <1>1, <2>1, NodeFacts
  <2> QED
    BY <2>1, <2>2
<1>3. SecondLock(t) = fd[t]
  BY <1>2 DEF SecondLock, FirstLock
<1> HIDE DEF p
<1>4. ASSUME NEW n \in Node \cup {NULL}, n # NULL => n \in inodelist,
             NEW op \in {"READ", "WRITE"},
             NEW label \in {"reading", "locksecond", "writing"},
             LockAndGoto(t, n, op, label),
             \/ pc[t] = "user" /\ label = "reading" /\ n = fd[t]
             \/ pc[t] = "user" /\ label = "locksecond" /\ n = p
             \/ pc[t] = "locksecond" /\ label = "writing" /\ n = fd[t]
      PROVE  IInv'
  <2>1. /\ label \in Idle \cup Walking \cup Opening /\ label \in Idle \ {"user"}
        /\ label \notin Walking \cup Opening
        /\ pc[t] \in Idle /\ pc[t] \notin Walking \cup Opening
    BY <1>4 DEF Opening, Walking, Idle
  <2>2. /\ pc'[t] = label /\ call'[t] = call[t] /\ at'[t] = at[t] /\ fd'[t] = fd[t]
        /\ loaded'[t] = loaded[t]
        /\ parentOf(t)' = parentOf(t) /\ gparentOf(t)' = gparentOf(t)
        /\ \A m \in Node : mem'[m].parent = mem[m].parent
        /\ want[t].node = NULL
        /\ \/ want'[t] = NoWant /\ want'[t].node = NULL
           \/ /\ want'[t].node = n /\ want'[t].op = op /\ n \in Node
              /\ want'[t] # NoWant
    BY <1>1, <1>4, <2>1, LockLands
  <2>3. mem'[fd[t]].parent = p
    BY <1>2, <2>2 DEF p
  <2>4. Shape(t)'
    BY <1>1, <2>1, <2>2 DEF Shape, Idle, Walking, Opening
  <2>5. WantFits(t)'
    BY <1>4, <2>2, <2>3 DEF WantFits
  <2>6. Holds(t) = IF pc[t] = "locksecond" THEN {p} \ {NULL} ELSE {}
    BY <1>2, <1>4, <2>2 DEF Holds, p
  <2>7. Holds(t)' = (IF label = "reading" THEN {fd[t]}
                     ELSE IF label = "locksecond" THEN {p} \ {NULL}
                     ELSE {p, fd[t]} \ {NULL}) \ {want'[t].node}
    <3>1. CASE label = "reading"
      BY <1>2, <2>2, <2>3, <3>1 DEF Holds
    <3>2. CASE label = "locksecond"
      BY <1>2, <2>2, <2>3, <3>2 DEF Holds
    <3>3. CASE label = "writing"
      BY <1>2, <2>2, <2>3, <3>3 DEF Holds
    <3> QED
      BY <3>1, <3>2, <3>3
  <2>8. n # NULL => n \notin Holds(t)
    BY <1>2, <1>4, <2>6
  <2>9. want'[t] = NoWant => Holds(t)' = Holds(t) \cup ({n} \ {NULL})
    BY <1>2, <1>4, <2>2, <2>6, <2>7
  <2>10. want'[t] # NoWant => Holds(t)' = Holds(t)
    BY <1>2, <1>4, <2>2, <2>6, <2>7
  <2>11. /\ pc[t] # "loading" /\ label # "loading"
         /\ label \in {"child", "missed"} <=> pc[t] \in {"child", "missed"}
         /\ label \in Opening <=> pc[t] \in Opening
         /\ label \in {"loop", "examine"} => pc[t] \in {"loop", "examine"}
    BY <2>1 DEF Idle, Walking
  <2> QED
    BY <1>1, <1>4, <2>1, <2>4, <2>5, <2>8, <2>9, <2>10, <2>11, LockStep
<1>5. CASE pc[t] = "user" /\ LockAndGoto(t, fd[t], "READ", "reading")
  BY <1>2, <1>4, <1>5
<1>6. CASE pc[t] = "user" /\ LockAndGoto(t, p, "WRITE", "locksecond")
  BY <1>2, <1>4, <1>6
<1>7. CASE pc[t] = "locksecond" /\ LockAndGoto(t, SecondLock(t), "WRITE", "writing")
  BY <1>2, <1>3, <1>4, <1>7
<1> QED
  BY <1>1, <1>5, <1>6, <1>7

\* Back from the sleep in a lock.
LEMMA WakeInLockStep ==
    ASSUME IInv, ~ Dangling, NEW t \in Task, WakeInLock(t)
    PROVE  IInv'
<1> DEFINE n == want[t].node
           op == want[t].op
           l == Entered(mem[n].lock, op)
<1>1. /\ want[t] # NoWant /\ t \in ready
      /\ mem' = [mem EXCEPT ![n].lock = l]
      /\ ready' = ready \cup EnterWakes(mem[n].lock, op)
      /\ want' = [want EXCEPT ![t] = NoWant] /\ cpu' = t
      /\ disk' = disk /\ pc' = pc /\ call' = call /\ at' = at /\ loaded' = loaded /\ fd' = fd
      /\ TypeOK /\ Shape(t) /\ WantFits(t) /\ NULL \notin Node
  BY WantFacts DEF WakeInLock, IInv, Sound
<1>2. n \in inodelist /\ n \in Node /\ op \in {"READ", "WRITE"} /\ n \notin Holds(t)
      /\ pc[t] # "loading"
  BY <1>1, WantFacts
<1>3. l \in Lock /\ EnterWakes(mem[n].lock, op) \subseteq Task
  BY <1>2, LockTypes
<1>4. \/ pc[t] \in {"examine", "missed", "locked"} /\ n = at[t]
      \/ pc[t] = "lockparent" /\ n = gparentOf(t)
      \/ pc[t] = "locknode" /\ n = parentOf(t)
      \/ pc[t] \in {"reading", "writing"} /\ n = fd[t]
      \/ pc[t] = "locksecond" /\ n = mem[fd[t]].parent
  BY <1>1 DEF WantFits
<1> DEFINE w == NoWant
<1>5. /\ w \in [node : Node \cup {NULL}, op : Operations] /\ w.node = NULL
  BY DEF NoWant, Operations
<1>6. /\ want' \in [Task -> [node : Node \cup {NULL}, op : Operations]]
      /\ want'[t] = NoWant /\ want'[t].node = NULL
      /\ \A u \in Task \ {t} : want'[u] = want[u]
  <2> HIDE DEF w
  <2>1. want' = [want EXCEPT ![t] = w]
    BY <1>1 DEF w
  <2>2. /\ want' \in [Task -> [node : Node \cup {NULL}, op : Operations]]
        /\ want'[t] = w /\ \A u \in Task \ {t} : want'[u] = want[u]
    BY <1>1, <1>5, <2>1 DEF TypeOK
  <2> QED
    BY <1>5, <2>2 DEF w
<1>7. /\ mem' \in [Node -> Inode]
      /\ \A m \in Node : SameInode(m)
      /\ \A m \in Node : mem'[m].lock = IF m = n THEN Entered(mem[m].lock, op)
                                        ELSE mem[m].lock
  <2> HIDE DEF l, n, op
  <2>1. mem \in [Node -> Inode]
    BY <1>1 DEF TypeOK
  <2>2. mem' \in [Node -> Inode]
    BY <1>1, <1>2, <1>3, <2>1 DEF Inode
  <2>3. ASSUME NEW m \in Node
        PROVE  SameInode(m) /\ mem'[m].lock = IF m = n THEN l ELSE mem[m].lock
    <3>1. CASE m = n
      BY <1>1, <1>2, <2>1, <3>1 DEF Inode, SameInode
    <3>2. CASE m # n
      BY <1>1, <1>2, <2>1, <3>2 DEF SameInode
    <3> QED
      BY <3>1, <3>2
  <2> QED
    BY <2>2, <2>3 DEF l
<1>8. parentOf(t)' = parentOf(t) /\ gparentOf(t)' = gparentOf(t)
  BY <1>1 DEF parentOf, gparentOf
<1>9. pc[t] \in {"reading", "read", "locksecond", "writing", "written"} =>
         mem'[fd[t]].parent = mem[fd[t]].parent
  <2>1. pc[t] \in {"reading", "read", "locksecond", "writing", "written"} => fd[t] \in Node
    BY <1>1, TaskFacts DEF Shape, Idle
  <2> QED
    BY <1>7, <2>1 DEF SameInode
<1> HIDE DEF l, n, op, w
<1>10. Holds(t)' = Holds(t) \cup {n}
  <2>1. ASSUME NEW m \in Node PROVE m \in Holds(t)' <=> m \in Holds(t) \/ m = n
    <3>1. m # want'[t].node
      BY <1>1, <1>6
    <3>2. m = n => m \in Holds(t)'
      BY <1>1, <1>4, <1>6, <1>8, <1>9, <3>1 DEF Holds
    <3>3. m # n => (m \in Holds(t)' <=> m \in Holds(t))
      BY <1>1, <1>6, <1>8, <1>9, <3>1 DEF Holds, n
    <3> QED
      BY <3>2, <3>3
  <2> QED
    BY <1>2, <2>1 DEF Holds
<1>11. TypeOK'
  BY <1>1, <1>3, <1>6, <1>7 DEF TypeOK
<1>12. \A u \in Task \ {t} : Same(u)
  BY <1>1, <1>6 DEF Same
<1>13. Shape(t)' /\ WantFits(t)'
  BY <1>1, <1>6, <1>8 DEF Shape, WantFits
<1>14. ASSUME OthersHold(t) PROVE LocksSound' /\ JunkLocked'
  <2>1. \A m \in Node :
              /\ mem'[m].lock = IF m = n THEN Entered(mem[m].lock, op) ELSE mem[m].lock
              /\ mem'[m].refs = mem[m].refs /\ mem'[m].kind = mem[m].kind
              /\ mem'[m].leaked = mem[m].leaked
    BY <1>7 DEF SameInode
  <2>2. want[t].node = n
    BY DEF n
  <2> QED
    BY <1>1, <1>2, <1>6, <1>10, <1>14, <2>1, <2>2, EnterLocks
<1>15. call'[t].path = call[t].path
  BY <1>1
<1> QED
  BY <1>1, <1>7, <1>11, <1>12, <1>13, <1>14, <1>15, QuietStep
---------------------------------------------------------------------------
(* The steps that change no inode, but for the locks they release. *)
LEMMA PlainStep ==
    ASSUME IInv, ~ Dangling, NEW t \in Task, want[t] = NoWant,
           NEW label \in Idle \cup Walking \cup Opening,
           pc' = [pc EXCEPT ![t] = label],
           mem' = mem, at' = at, loaded' = loaded, fd' = fd, want' = want,
           ready' = ready \/ ready' = ready \ {t} \/ ready' = ready \cup {t},
           cpu' \in Task \cup {NULL},
           disk' \in [Path -> {"file", "dir", Missing}],
           call' \in [Task -> Call], call'[t].path = call[t].path,
           \A u \in Task \ {t} : call'[u] = call[u],
           Shape(t)', Holds(t)' = Holds(t),
           label \in {"child", "missed"} <=> pc[t] \in {"child", "missed"},
           label \in Opening <=> pc[t] \in Opening,
           label \in {"loop", "examine", "loading"} => pc[t] \in {"loop", "examine", "loading"},
           label = "loading" <=> pc[t] = "loading"
    PROVE  IInv'
<1>1. /\ pc' \in [Task -> Idle \cup Walking \cup Opening] /\ pc'[t] = label
      /\ \A u \in Task \ {t} : pc'[u] = pc[u]
  BY DEF IInv, TypeOK
<1>2. TypeOK' /\ NULL \notin Node
  BY <1>1, WantFacts DEF IInv, TypeOK
<1>3. \A u \in Task \ {t} : Same(u)
  BY <1>1 DEF Same
<1>4. \A m \in Node : SameInode(m)
  BY DEF SameInode
<1>5. WantFits(t)'
  BY DEF WantFits, NoWant
<1>6. ASSUME OthersHold(t) PROVE LocksSound' /\ JunkLocked'
  <2>1. want'[t] = NoWant
    OBVIOUS
  <2>2. \A u \in Task : want[u] # NoWant => (u \in ready' <=> u \in ready)
    <3>1. \A u \in Task : want[u] # NoWant => u # t
      OBVIOUS
    <3> QED
      BY <3>1
  <2>3. ASSUME NEW m \in Node
        PROVE  /\ mem'[m] = mem[m]
               /\ pc[t] = "loading" => pc'[t] = pc[t] /\ at'[t] = at[t]
    BY <1>1
  <2>4. \A m \in Node : mem'[m].refs > 0 =>
              /\ mem[m].refs > 0
              /\ mem'[m].lock = mem[m].lock
              /\ mem'[m].leaked = mem[m].leaked
              /\ mem'[m].kind = Junk =>
                    /\ mem[m].kind = Junk
                    /\ \/ pc[t] # "loading" \/ at[t] # m
                       \/ pc'[t] = pc[t] /\ at'[t] = at[t]
    BY <2>3
  <2> QED
    BY <1>6, <2>1, <2>2, <2>4, IdleLocks
<1>7. /\ pc'[t] \in {"child", "missed"} <=> pc[t] \in {"child", "missed"}
      /\ pc'[t] \in Opening <=> pc[t] \in Opening
      /\ pc'[t] \in {"loop", "examine", "loading"} => pc[t] \in {"loop", "examine", "loading"}
      /\ pc'[t] = "loading" => pc[t] = "loading"
  BY <1>1
<1> QED
  BY <1>2, <1>3, <1>4, <1>5, <1>6, <1>7, QuietStep

\* Where t has got is all that changes: the locks it holds stay.
LEMMA SameHolds ==
    ASSUME NEW t, mem' = mem, at' = at, loaded' = loaded, fd' = fd, want' = want,
           \/ pc'[t] = pc[t]
           \/ /\ pc[t] \in {"locked", "allocated", "created", "opened"}
              /\ pc'[t] \in {"locked", "allocated", "created", "opened"}
           \/ pc[t] \in {"reading", "read"} /\ pc'[t] \in {"reading", "read"}
           \/ pc[t] \in {"writing", "written"} /\ pc'[t] \in {"writing", "written"}
    PROVE  Holds(t)' = Holds(t)
<1>1. parentOf(t)' = parentOf(t) /\ gparentOf(t)' = gparentOf(t)
  BY DEF parentOf, gparentOf
<1>2. ASSUME pc[t] \in {"locked", "allocated", "created", "opened"},
             pc'[t] \in {"locked", "allocated", "created", "opened"}
      PROVE  Holds(t)' = Holds(t)
  BY <1>1, <1>2 DEF Holds
<1>3. ASSUME pc[t] \in {"reading", "read"}, pc'[t] \in {"reading", "read"}
      PROVE  Holds(t)' = Holds(t)
  BY <1>1, <1>3 DEF Holds
<1>4. ASSUME pc[t] \in {"writing", "written"}, pc'[t] \in {"writing", "written"}
      PROVE  Holds(t)' = Holds(t)
  BY <1>1, <1>4 DEF Holds
<1>5. ASSUME pc'[t] = pc[t] PROVE Holds(t)' = Holds(t)
  BY <1>1, <1>5 DEF Holds
<1> QED
  BY <1>2, <1>3, <1>4, <1>5

\* A transfer is done.
LEMMA DiskDoneStep ==
    ASSUME IInv, ~ Dangling, NEW t \in Task, DiskDone(t)
    PROVE  IInv'
<1>1. /\ t \notin ready /\ ~ Queued(t) /\ ready' = ready \cup {t}
      /\ disk' = disk /\ mem' = mem /\ pc' = pc /\ call' = call /\ at' = at
      /\ loaded' = loaded /\ want' = want /\ fd' = fd /\ cpu' = cpu
  BY DEF DiskDone, locals
<1>2. want[t] = NoWant
  <2>1. ASSUME want[t] # NoWant PROVE FALSE
    <3> DEFINE n == want[t].node
    <3>1. n \in inodelist
      BY <2>1, WantFacts
    <3>2. t \in Waiters(n) \ ready
      BY <1>1 DEF Waiters
    <3>3. LockSound(mem[n].lock, Waiters(n) \ ready, Waiters(n) \cap ready, Holders(n),
                    mem[n].leaked)
      BY <3>1 DEF IInv, Sound, LocksSound
    <3>4. t \in Range(mem[n].lock.procq)
      BY <3>2, <3>3 DEF LockSound
    <3> QED
      BY <1>1, <2>1, <3>4 DEF Queued
  <2> QED
    BY <2>1
<1>3. /\ pc[t] \in Idle \cup Walking \cup Opening /\ pc \in [Task -> Idle \cup Walking \cup Opening]
      /\ disk \in [Path -> {"file", "dir", Missing}] /\ call \in [Task -> Call]
      /\ cpu \in Task \cup {NULL}
  BY DEF IInv, TypeOK
<1>4. pc' = [pc EXCEPT ![t] = pc[t]]
  BY <1>1, <1>3
<1>5. Shape(t)' /\ Holds(t)' = Holds(t)
  <2>1. Shape(t)
    BY DEF IInv
  <2>2. Holds(t)' = Holds(t)
    BY <1>1, SameHolds
  <2>3. Shape(t)'
    BY <1>1, <2>1 DEF Shape, parentOf
  <2> QED
    BY <2>2, <2>3
<1> QED
  BY <1>1, <1>2, <1>3, <1>4, <1>5, PlainStep

\* The steps of fs_open between its locks and its end, but for CreateInode.
LEMMA OpenPlainStep ==
    ASSUME IInv, ~ Dangling, NEW t \in Task,
           BeginCreate(t) \/ EndCreate(t) \/ OpenExisting(t)
    PROVE  IInv'
<1>1. /\ want[t] = NoWant /\ cpu' \in Task \cup {NULL}
      /\ mem' = mem /\ at' = at /\ loaded' = loaded /\ fd' = fd /\ want' = want
      /\ ready' = ready \/ ready' = ready \ {t} \/ ready' = ready \cup {t}
  BY DEF BeginCreate, EndCreate, OpenExisting, At, TransferAndGoto
<1>2. /\ pc \in [Task -> Idle \cup Walking \cup Opening]
      /\ disk \in [Path -> {"file", "dir", Missing}]
      /\ call \in [Task -> Call] /\ call[t] \in Call /\ Shape(t)
  BY DEF IInv, TypeOK
<1>3. ASSUME NEW label \in {"allocated", "opened"}, pc' = [pc EXCEPT ![t] = label],
             pc[t] \in {"locked", "created"},
             label = "allocated" => call[t].create /\ call'[t] = call[t],
             disk' \in [Path -> {"file", "dir", Missing}],
             call' \in [Task -> Call], call'[t].path = call[t].path,
             \A u \in Task \ {t} : call'[u] = call[u]
      PROVE  IInv'
  <2>1. label \in Idle \cup Walking \cup Opening /\ pc'[t] = label
        /\ label \in Opening /\ pc[t] \in Opening
        /\ label \notin Idle \cup Walking /\ pc[t] \notin Idle \cup Walking
        /\ label \notin {"child", "missed", "loop", "examine", "loading"}
        /\ pc[t] \notin {"child", "missed", "loop", "examine", "loading"}
    BY <1>2, <1>3 DEF Idle, Walking, Opening
  <2>2. Shape(t)'
    <3>1. label = "opened" \/ label = "allocated"
      OBVIOUS
    <3>2. /\ at'[t] = at[t] /\ loaded'[t] = loaded[t] /\ fd'[t] = fd[t]
          /\ at[t] \in Node /\ call'[t].path = call[t].path
          /\ Len(loaded[t]) = IF Len(call[t].path) > 2 THEN 2 ELSE Len(call[t].path)
          /\ pc[t] \notin Idle \cup {"opened"} /\ call[t].create => call[t].dir # "any"
      BY <1>1, <1>2, <1>3, <2>1 DEF Shape
    <3>3. pc[t] \notin Idle \cup {"opened"}
      BY <1>3, <2>1
    <3>4. CASE label = "opened"
      BY <2>1, <3>2, <3>4 DEF Shape, Idle
    <3>5. CASE label = "allocated"
      BY <1>3, <2>1, <3>2, <3>3, <3>5 DEF Shape, Idle
    <3> QED
      BY <3>1, <3>4, <3>5
  <2>3. Holds(t)' = Holds(t)
    BY <1>1, <1>3, <2>1, SameHolds
  <2> QED
    BY <1>1, <1>3, <2>1, <2>2, <2>3, PlainStep
<1>4. CASE BeginCreate(t)
  <2>1. pc' = [pc EXCEPT ![t] = "allocated"] /\ pc[t] = "locked" /\ call[t].create
        /\ call' = call /\ disk' = disk
    BY <1>4 DEF BeginCreate, At, TransferAndGoto, Goto
  <2> QED
    BY <1>2, <1>3, <2>1
<1>5. CASE EndCreate(t)
  <2> DEFINE c == [call[t] EXCEPT !.dir = "any"]
  <2>1. pc' = [pc EXCEPT ![t] = "opened"] /\ pc[t] = "created"
        /\ disk' = [disk EXCEPT ![call[t].path] = call[t].dir]
        /\ call' = [call EXCEPT ![t] = c]
    BY <1>5 DEF EndCreate, At, Goto
  <2>2. c \in Call /\ c.path = call[t].path
    BY <1>2 DEF Call
  <2>3. call[t].dir \in {"file", "dir"} /\ call[t].path \in Path
    <3>1. call[t].dir \in {"file", "dir", "any"} /\ call[t].path \in Path
      BY <1>2 DEF Call
    <3>2. call[t].create /\ (call[t].create => call[t].dir # "any")
      BY <1>2, <2>1 DEF Shape, Idle
    <3> QED
      BY <3>1, <3>2
  <2> HIDE DEF c
  <2>4. call' \in [Task -> Call] /\ call'[t].path = call[t].path
        /\ \A u \in Task \ {t} : call'[u] = call[u]
    BY <1>2, <2>1, <2>2
  <2>5. disk' \in [Path -> {"file", "dir", Missing}]
    BY <1>2, <2>1, <2>3
  <2> QED
    BY <1>3, <2>1, <2>4, <2>5
<1>6. CASE OpenExisting(t)
  <2>1. pc' = [pc EXCEPT ![t] = "opened"] /\ pc[t] = "locked" /\ call' = call /\ disk' = disk
    BY <1>6 DEF OpenExisting, At, TransferAndGoto, Goto
  <2> QED
    BY <1>2, <1>3, <2>1
<1> QED
  BY <1>4, <1>5, <1>6

\* The transfers of fs_read and fs_write.
LEMMA TransferStep ==
    ASSUME IInv, ~ Dangling, NEW t \in Task, Transfer(t)
    PROVE  IInv'
<1>1. /\ want[t] = NoWant /\ cpu' = NULL
      /\ mem' = mem /\ at' = at /\ loaded' = loaded /\ fd' = fd /\ want' = want
      /\ disk' = disk /\ call' = call /\ ready' = ready \ {t}
      /\ \/ pc[t] = "reading" /\ pc' = [pc EXCEPT ![t] = "read"]
         \/ pc[t] = "writing" /\ pc' = [pc EXCEPT ![t] = "written"]
  BY DEF Transfer, At, TransferAndGoto, Goto
<1>2. /\ pc \in [Task -> Idle \cup Walking \cup Opening]
      /\ disk \in [Path -> {"file", "dir", Missing}]
      /\ call \in [Task -> Call] /\ Shape(t)
  BY DEF IInv, TypeOK
<1>3. ASSUME NEW label \in {"read", "written"}, pc' = [pc EXCEPT ![t] = label],
             \/ pc[t] = "reading" /\ label = "read"
             \/ pc[t] = "writing" /\ label = "written"
      PROVE  IInv'
  <2>1. /\ label \in Idle \cup Walking \cup Opening /\ pc'[t] = label
        /\ label \in Idle \ {"user"} /\ pc[t] \in Idle \ {"user"}
        /\ label \notin Walking \cup Opening /\ pc[t] \notin Walking \cup Opening
        /\ label \notin {"child", "missed", "loop", "examine", "loading"}
        /\ pc[t] \notin {"child", "missed", "loop", "examine", "loading"}
    BY <1>2, <1>3 DEF Idle, Walking, Opening
  <2>2. Shape(t)'
    BY <1>1, <1>2, <2>1 DEF Shape, Idle
  <2>3. Holds(t)' = Holds(t)
    BY <1>1, <1>3, <2>1, SameHolds
  <2> QED
    BY <1>1, <1>2, <1>3, <2>1, <2>2, <2>3, PlainStep
<1> QED
  BY <1>1, <1>3

\* What krwlock_release of some inodes leaves as it is.
LEMMA ReleasedFields ==
    ASSUME NEW m \in [Node -> Inode], NEW ns,
           \A n \in Node \cap ns : KRWLockRelease(m[n].lock) \in Lock
    PROVE  /\ Released(m, ns) \in [Node -> Inode]
           /\ \A n \in Node :
                 /\ Released(m, ns)[n].lock = IF n \in ns THEN KRWLockRelease(m[n].lock)
                                              ELSE m[n].lock
                 /\ Released(m, ns)[n].path = m[n].path
                 /\ Released(m, ns)[n].refs = m[n].refs
                 /\ Released(m, ns)[n].kind = m[n].kind
                 /\ Released(m, ns)[n].parent = m[n].parent
                 /\ Released(m, ns)[n].hit = m[n].hit
                 /\ Released(m, ns)[n].leaked = m[n].leaked
<1> DEFINE r == Released(m, ns)
<1>1. r = [n \in Node |-> IF n \in ns THEN [m[n] EXCEPT !.lock = KRWLockRelease(m[n].lock)]
                          ELSE m[n]]
  BY DEF Released
<1>2. ASSUME NEW n \in Node
      PROVE  /\ r[n] \in Inode
             /\ r[n].lock = IF n \in ns THEN KRWLockRelease(m[n].lock) ELSE m[n].lock
             /\ r[n].path = m[n].path /\ r[n].refs = m[n].refs /\ r[n].kind = m[n].kind
             /\ r[n].parent = m[n].parent /\ r[n].hit = m[n].hit /\ r[n].leaked = m[n].leaked
  <2> DEFINE i == m[n]
             l == KRWLockRelease(m[n].lock)
  <2>1. i \in Inode /\ (n \in ns => l \in Lock)
    OBVIOUS
  <2>2. r[n] = IF n \in ns THEN [i EXCEPT !.lock = l] ELSE i
    BY <1>1
  <2> HIDE DEF r, i, l
  <2>3. CASE n \in ns
    BY <2>1, <2>2, <2>3 DEF Inode, i, l
  <2>4. CASE n \notin ns
    BY <2>1, <2>2, <2>4 DEF i, l
  <2> QED
    BY <2>3, <2>4
<1>3. r \in [Node -> Inode]
  <2>1. r = [n \in Node |-> r[n]]
    BY <1>1
  <2> HIDE DEF r
  <2> QED
    BY <1>2, <2>1
<1> QED
  BY <1>2, <1>3

\* The end of fs_read and of fs_write.
LEMMA UnlockStep ==
    ASSUME IInv, ~ Dangling, NEW t \in Task, Unlock(t)
    PROVE  IInv'
<1> DEFINE p == mem[fd[t]].parent
           ns == IF pc[t] = "read" THEN {fd[t]} ELSE {fd[t], p} \ {NULL}
           l == "user"
<1>1. /\ want[t] = NoWant /\ cpu' = NULL /\ pc[t] \in {"read", "written"}
      /\ at' = at /\ loaded' = loaded /\ fd' = fd /\ want' = want
      /\ disk' = disk /\ call' = call
      /\ mem' = Released(mem, ns) /\ ready' = ready \cup ReleaseWakes(mem, ns)
      /\ pc' = [pc EXCEPT ![t] = l]
  BY DEF Unlock, At, Return, Goto
<1>2. /\ TypeOK /\ mem \in [Node -> Inode] /\ Shape(t) /\ NULL \notin Node
      /\ want[t].node = NULL /\ fd[t] # NULL
  BY <1>1, WantFacts DEF IInv, TypeOK, Shape, Idle
<1>3. /\ fd[t] \in Node /\ fd[t] \in inodelist /\ p \in Node \cup {NULL}
      /\ p # NULL => p \in inodelist
  <2>1. fd[t] \in Node /\ fd[t] \in inodelist /\ (p # NULL => p \in inodelist)
    BY <1>2, FdFacts
  <2> QED
    BY <1>2, <2>1, NodeFacts
<1>4. ns \in SUBSET Node /\ ns \subseteq inodelist
  BY <1>3
<1>5. Holds(t) = ns
  BY <1>1, <1>2, <1>3 DEF Holds
<1> HIDE DEF ns, p
<1>6. \A n \in ns : /\ KRWLockRelease(mem[n].lock) \in Lock
                    /\ KRWLockReleaseWakes(mem[n].lock) \subseteq Task
  <2>1. "READ" \in {"READ", "WRITE"}
    OBVIOUS
  <2>2. ASSUME NEW n \in inodelist
        PROVE  /\ KRWLockRelease(mem[n].lock) \in Lock
               /\ KRWLockReleaseWakes(mem[n].lock) \subseteq Task
    BY <2>1, LockTypes
  <2> QED
    BY <1>4, <2>2
<1>7. /\ mem' \in [Node -> Inode]
      /\ \A n \in Node :
            /\ SameInode(n)
            /\ mem'[n].lock = IF n \in ns THEN KRWLockRelease(mem[n].lock) ELSE mem[n].lock
  BY <1>1, <1>2, <1>6, ReleasedFields DEF SameInode
<1>8. ready' \subseteq Task
  BY <1>1, <1>2, <1>6 DEF ReleaseWakes, TypeOK
<1>9. /\ pc' \in [Task -> Idle \cup Walking \cup Opening] /\ pc'[t] = "user"
      /\ \A u \in Task \ {t} : pc'[u] = pc[u]
  BY <1>1, <1>2 DEF TypeOK, Idle
<1>10. TypeOK'
  BY <1>1, <1>2, <1>7, <1>8, <1>9 DEF TypeOK
<1>11. \A u \in Task \ {t} : Same(u)
  BY <1>1, <1>9 DEF Same
<1>12. Shape(t)' /\ WantFits(t)' /\ Holds(t)' = {}
  <2>1. Shape(t)' /\ WantFits(t)'
    BY <1>1, <1>2, <1>9 DEF Shape, Idle, Walking, Opening, WantFits
  <2>2. Holds(t)' = {}
    BY <1>9 DEF Holds
  <2> QED
    BY <2>1, <2>2
<1>13. ASSUME OthersHold(t) PROVE LocksSound' /\ JunkLocked'
  <2>1. /\ ns \subseteq Holds(t) /\ Holds(t)' = Holds(t) \ ns /\ want'[t] = NoWant
    BY <1>1, <1>5, <1>12
  <2>2. \A u \in Task : want[u] # NoWant =>
              (u \in ready' <=> u \in ready \/ u \in ReleaseWakes(mem, ns))
    BY <1>1
  <2>3. \A n \in ns : mem[n].kind # Junk
    <3>1. KindsRead(t)
      BY DEF IInv, Sound
    <3>2. mem[fd[t]].kind # Junk /\ (p # NULL => mem[p].kind # Junk)
      BY <1>2, <3>1 DEF KindsRead, FdKinds, Junk, p
    <3> QED
      BY <3>2 DEF ns
  <2>4. \A m \in Node : mem'[m].refs > 0 =>
              /\ mem[m].refs > 0
              /\ mem'[m].lock = IF m \in ns THEN KRWLockRelease(mem[m].lock) ELSE mem[m].lock
              /\ mem'[m].leaked = mem[m].leaked
              /\ mem'[m].kind = Junk =>
                    /\ mem[m].kind = Junk /\ m \notin ns
                    /\ \/ pc[t] # "loading" \/ at[t] # m
                       \/ pc'[t] = pc[t] /\ at'[t] = at[t]
    BY <1>1, <1>7, <2>3 DEF SameInode
  <2> QED
    BY <1>1, <1>4, <1>13, <2>1, <2>2, <2>4, ReleaseLocks
<1>14. /\ pc'[t] \in {"child", "missed"} <=> pc[t] \in {"child", "missed"}
       /\ pc'[t] \in Opening <=> pc[t] \in Opening
       /\ pc'[t] \in {"loop", "examine", "loading"} => pc[t] \in {"loop", "examine", "loading"}
       /\ pc'[t] = "loading" => pc[t] = "loading"
       /\ call'[t].path = call[t].path
  BY <1>1, <1>9 DEF Opening
<1> QED
  BY <1>1, <1>2, <1>7, <1>10, <1>11, <1>12, <1>13, <1>14, QuietStep
---------------------------------------------------------------------------
(* The steps that get to other inodes, read them, count them or close them. *)

\* Unless the step leaves a task with a pointer to a free inode, what t has
\* then is in memory.
LEMMA PointersAlive ==
    ASSUME TypeOK', ~ Dangling', NEW t \in Task, NULL \notin Node
    PROVE  /\ at'[t] # NULL => at'[t] \in Node /\ mem'[at'[t]].refs > 0
           /\ fd'[t] # NULL =>
                 /\ fd'[t] \in Node /\ mem'[fd'[t]].refs > 0
                 /\ mem'[fd'[t]].parent \in Node \cup {NULL}
                 /\ mem'[fd'[t]].parent # NULL => mem'[mem'[fd'[t]].parent].refs > 0
           /\ \A i \in 1 .. Len(loaded'[t]) :
                 loaded'[t][i] \in Node /\ mem'[loaded'[t][i]].refs > 0
<1>1. /\ mem' \in [Node -> Inode] /\ loaded'[t] \in Seq(Node)
      /\ at'[t] \in Node \cup {NULL} /\ fd'[t] \in Node \cup {NULL}
  BY DEF TypeOK
<1>2. \A n \in Node : mem'[n].refs \in Nat /\ mem'[n].parent \in Node \cup {NULL}
  <2>1. \A n \in Node : mem'[n] \in Inode
    BY <1>1
  <2>2. \A n \in Node : mem'[n].refs \in 0 .. MaxRefs /\ mem'[n].parent \in Node \cup {NULL}
    BY <2>1 DEF Inode
  <2> QED
    BY <2>2, TreeAssumption
<1>3. \A n \in Pointers(t)' : mem'[n].refs # 0
  BY DEF Dangling
<1>4. /\ Range(loaded'[t]) = {loaded'[t][i] : i \in 1 .. Len(loaded'[t])}
      /\ \A i \in 1 .. Len(loaded'[t]) : loaded'[t][i] \in Node
  <2>1. Range(loaded'[t]) = {loaded'[t][i] : i \in 1 .. Len(loaded'[t])}
    BY <1>1, QueueRange
  <2>2. \A i \in 1 .. Len(loaded'[t]) : loaded'[t][i] \in Node
    BY <1>1, ElementOfSeq
  <2> QED
    BY <2>1, <2>2
<1>5. /\ at'[t] # NULL => at'[t] \in Pointers(t)'
      /\ fd'[t] # NULL => fd'[t] \in Pointers(t)'
      /\ fd'[t] # NULL /\ mem'[fd'[t]].parent # NULL => mem'[fd'[t]].parent \in Pointers(t)'
      /\ \A i \in 1 .. Len(loaded'[t]) : loaded'[t][i] \in Pointers(t)'
  BY <1>4 DEF Pointers
<1>6. \A n \in Node : n \in Pointers(t)' => mem'[n].refs > 0
  BY <1>2, <1>3
<1> QED
  BY <1>1, <1>2, <1>4, <1>5, <1>6

\* The inodes that are still there keep a descriptor what it was.
LEMMA FdKeeps ==
    ASSUME IInv, ~ Dangling, TypeOK', ~ Dangling', NEW t \in Task, fd'[t] = fd[t],
           \A m \in Node : mem'[m].refs > 0 => mem[m].refs > 0 /\ Survives(m),
           fd[t] # NULL /\ mem'[fd[t]].refs > 0 => mem'[fd[t]].parent = mem[fd[t]].parent
    PROVE  FdPath(t)' /\ FdKinds(t)'
<1>1. NULL \notin Node
  BY WantFacts
<1>2. FdPath(t) /\ FdKinds(t)
  BY DEF IInv, Sound, PathsFit, KindsRead
<1>3. ASSUME fd[t] # NULL
      PROVE  /\ fd[t] \in Node /\ mem'[fd[t]].refs > 0
             /\ mem'[fd[t]].parent = mem[fd[t]].parent
             /\ mem[fd[t]].parent # NULL =>
                   mem[fd[t]].parent \in Node /\ mem'[mem[fd[t]].parent].refs > 0
  BY <1>1, <1>3, PointersAlive
<1>4. ASSUME fd[t] # NULL
      PROVE  /\ mem'[fd[t]].path = mem[fd[t]].path /\ mem'[fd[t]].kind \in {"file", "dir"}
             /\ mem[fd[t]].parent # NULL =>
                   /\ mem'[mem[fd[t]].parent].path = mem[mem[fd[t]].parent].path
                   /\ mem'[mem[fd[t]].parent].kind # Junk
  BY <1>2, <1>3, <1>4 DEF Survives, FdKinds
<1> QED
  BY <1>2, <1>3, <1>4 DEF FdPath, FdKinds

LEMMA MoveStep ==
    ASSUME IInv, ~ Dangling, NEW t \in Task, NEW ns \in SUBSET Node,
           \A u \in Task \ {t} : Same(u),
           TypeOK', RefsCounted', Shape(t)', want[t] = NoWant, want'[t] = NoWant,
           ns \subseteq inodelist, ns \subseteq Holds(t),
           ~ Dangling' => Holds(t)' = Holds(t) \ ns,
           \A u \in Task : want[u] # NoWant =>
              (u \in ready' <=> u \in ready \/ u \in ReleaseWakes(mem, ns)),
           \A m \in Node : mem'[m].refs > 0 =>
              /\ mem[m].refs > 0 /\ Survives(m)
              /\ mem'[m].lock = IF m \in ns THEN KRWLockRelease(mem[m].lock) ELSE mem[m].lock
              /\ mem'[m].leaked = mem[m].leaked
              /\ mem[m].kind = Junk =>
                    mem'[m].kind = Junk \/ (pc[t] = "loading" /\ at[t] = m)
              /\ mem'[m].kind = Junk =>
                    /\ mem[m].kind = Junk /\ m \notin ns
                    /\ pc[t] # "loading" \/ at[t] # m,
           \A u \in Task \ {t} : fd[u] # NULL /\ mem'[fd[u]].refs > 0 =>
              mem'[fd[u]].parent = mem[fd[u]].parent,
           mem'[root].refs > 0, ~ mem'[root].hit,
           ~ Dangling' => PathsFit(t)' /\ KindsRead(t)'
    PROVE  IInv'
<1>1. NULL \notin Node /\ root \in Node
  BY WantFacts, TreeAssumption DEF root, Node
<1>2. inodelist' \subseteq inodelist /\ inodelist' \subseteq Node
      /\ \A m \in inodelist' : mem'[m].path = mem[m].path
  BY DEF inodelist, Survives
<1>3. PathsUnique' /\ RootSound'
  <2>1. PathsUnique /\ RootSound
    BY DEF IInv
  <2>2. PathsUnique'
    BY <1>2, <2>1 DEF PathsUnique
  <2>3. RootSound'
    BY <1>1, <2>1 DEF RootSound, Survives
  <2> QED
    BY <2>2, <2>3
<1>4. ASSUME ~ Dangling' PROVE PathsFit(t)' /\ KindsRead(t)' /\ WantFits(t)'
  BY <1>4 DEF WantFits
<1>5. ASSUME ~ Dangling', OthersHold(t) PROVE LocksSound' /\ JunkLocked'
  <2>1. Holds(t)' = Holds(t) \ ns
    BY <1>5
  <2>2. \A m \in Node : mem'[m].refs > 0 =>
              /\ mem[m].refs > 0
              /\ mem'[m].lock = IF m \in ns THEN KRWLockRelease(mem[m].lock) ELSE mem[m].lock
              /\ mem'[m].leaked = mem[m].leaked
              /\ mem'[m].kind = Junk =>
                    /\ mem[m].kind = Junk /\ m \notin ns
                    /\ \/ pc[t] # "loading" \/ at[t] # m
                       \/ pc'[t] = pc[t] /\ at'[t] = at[t]
    OBVIOUS
  <2> QED
    BY <1>5, <2>1, <2>2, ReleaseLocks
<1>6. \A m \in Node : mem[m].refs > 0 /\ mem'[m].refs > 0 =>
              /\ Survives(m)
              /\ mem[m].kind = Junk =>
                    mem'[m].kind = Junk \/ (pc[t] = "loading" /\ at[t] = m)
  OBVIOUS
<1> QED
  BY <1>1, <1>3, <1>4, <1>5, <1>6, StepIInv

\* The same for a step that takes and releases no lock.
LEMMA MoveFree ==
    ASSUME IInv, ~ Dangling, NEW t \in Task,
           \A u \in Task \ {t} : Same(u),
           TypeOK', RefsCounted', Shape(t)', want[t] = NoWant, want'[t] = NoWant,
           ~ Dangling' => Holds(t)' = Holds(t),
           \A u \in Task \ {t} : u \in ready' <=> u \in ready,
           \A m \in Node : mem'[m].refs > 0 =>
              /\ mem[m].refs > 0 /\ Survives(m)
              /\ mem'[m].lock = mem[m].lock /\ mem'[m].leaked = mem[m].leaked
              /\ mem'[m].kind = Junk <=> mem[m].kind = Junk,
           pc[t] # "loading",
           \A u \in Task \ {t} : fd[u] # NULL /\ mem'[fd[u]].refs > 0 =>
              mem'[fd[u]].parent = mem[fd[u]].parent,
           mem'[root].refs > 0, ~ mem'[root].hit,
           ~ Dangling' => PathsFit(t)' /\ KindsRead(t)'
    PROVE  IInv'
<1> DEFINE ns == {}
<1>1. /\ ns \in SUBSET Node /\ ns \subseteq inodelist /\ ns \subseteq Holds(t)
      /\ ~ Dangling' => Holds(t)' = Holds(t) \ ns
      /\ \A m : m \notin ns
      /\ \A u : u \notin ReleaseWakes(mem, ns)
  BY DEF ReleaseWakes
<1> HIDE DEF ns
<1>2. \A u \in Task : want[u] # NoWant =>
         (u \in ready' <=> u \in ready \/ u \in ReleaseWakes(mem, ns))
  BY <1>1
<1>3. \A m \in Node : mem'[m].refs > 0 =>
         /\ mem[m].refs > 0 /\ Survives(m)
         /\ mem'[m].lock = IF m \in ns THEN KRWLockRelease(mem[m].lock) ELSE mem[m].lock
         /\ mem'[m].leaked = mem[m].leaked
         /\ mem[m].kind = Junk =>
               mem'[m].kind = Junk \/ (pc[t] = "loading" /\ at[t] = m)
         /\ mem'[m].kind = Junk =>
               /\ mem[m].kind = Junk /\ m \notin ns
               /\ pc[t] # "loading" \/ at[t] # m
  BY <1>1
<1> QED
  BY <1>1, <1>2, <1>3, MoveStep

\* What fs_node_close of some inodes, each of them once, does to each inode.
LEMMA ClosedFields ==
    ASSUME NEW m \in [Node -> Inode], NEW D, NEW ns \in [D -> Node \cup {NULL}],
           \A i, j \in D : ns[i] = ns[j] => i = j
    PROVE  /\ Closed(m, ns) \in [Node -> Inode]
           /\ \A n \in Node :
                 /\ (\A i \in D : ns[i] # n) => Closed(m, ns)[n] = m[n]
                 /\ (\E i \in D : ns[i] = n) =>
                       Closed(m, ns)[n].refs = IF m[n].refs > 1 THEN m[n].refs - 1 ELSE 0
                 /\ Closed(m, ns)[n].hit = m[n].hit
                 /\ Closed(m, ns)[n].parent \in {m[n].parent, NULL}
                 /\ Closed(m, ns)[n].refs \in Nat
                 /\ Closed(m, ns)[n].refs > 0 =>
                       /\ m[n].refs > 0
                       /\ Closed(m, ns)[n].path = m[n].path
                       /\ Closed(m, ns)[n].kind = m[n].kind
                       /\ Closed(m, ns)[n].parent = m[n].parent
                       /\ Closed(m, ns)[n].lock = m[n].lock
                       /\ Closed(m, ns)[n].leaked = m[n].leaked
<1> DEFINE r == Closed(m, ns)
<1>1. Blank \in Inode /\ Blank.refs = 0 /\ Blank.parent = NULL
  BY BlankFacts
<1>2. ASSUME NEW n \in Node
      PROVE  /\ r[n] \in Inode
             /\ (\A i \in D : ns[i] # n) => r[n] = m[n]
             /\ (\E i \in D : ns[i] = n) =>
                   r[n].refs = IF m[n].refs > 1 THEN m[n].refs - 1 ELSE 0
             /\ r[n].hit = m[n].hit
             /\ r[n].parent \in {m[n].parent, NULL}
             /\ r[n].refs \in Nat
             /\ r[n].refs > 0 =>
                   /\ m[n].refs > 0
                   /\ r[n].path = m[n].path /\ r[n].kind = m[n].kind
                   /\ r[n].parent = m[n].parent /\ r[n].lock = m[n].lock
                   /\ r[n].leaked = m[n].leaked
  <2> DEFINE o == m[n]
             k == o.refs - 1
             h == o.hit
             b == Blank
  <2>1. /\ (\A i \in D : ns[i] # n) => r[n] = o
        /\ (\E i \in D : ns[i] = n) =>
              r[n] = IF o.refs > 1 THEN [o EXCEPT !.refs = k] ELSE [b EXCEPT !.hit = h]
    BY ClosedOnce
  <2>2. o \in Inode
    OBVIOUS
  <2>3. o.refs \in 0 .. MaxRefs /\ o.hit \in BOOLEAN
    BY <2>2 DEF Inode
  <2>4. o.refs \in Nat /\ (o.refs > 1 => k \in 0 .. MaxRefs /\ k \in Nat /\ k > 0)
        /\ h \in BOOLEAN
    BY <2>3, TreeAssumption
  <2>5. b \in Inode /\ b.refs = 0 /\ b.parent = NULL
    BY <1>1
  <2> HIDE DEF r, o, k, h, b
  <2>6. CASE \A i \in D : ns[i] # n
    <3>1. r[n] = o
      BY <2>1, <2>6
    <3> QED
      BY <2>2, <2>4, <2>6, <3>1 DEF o
  <2>7. CASE (\E i \in D : ns[i] = n) /\ o.refs > 1
    <3>1. r[n] = [o EXCEPT !.refs = k]
      BY <2>1, <2>7
    <3>2. /\ r[n] \in Inode /\ r[n].refs = k /\ r[n].hit = o.hit /\ r[n].path = o.path
          /\ r[n].kind = o.kind /\ r[n].parent = o.parent /\ r[n].lock = o.lock
          /\ r[n].leaked = o.leaked
      BY <2>2, <2>4, <2>7, <3>1 DEF Inode
    <3> QED
      BY <2>4, <2>7, <3>2 DEF o, k
  <2>8. CASE (\E i \in D : ns[i] = n) /\ ~ (o.refs > 1)
    <3>1. r[n] = [b EXCEPT !.hit = h]
      BY <2>1, <2>8
    <3>2. r[n] \in Inode /\ r[n].refs = 0 /\ r[n].hit = h /\ r[n].parent = NULL
      BY <2>4, <2>5, <3>1 DEF Inode
    <3> QED
      BY <2>4, <2>8, <3>2 DEF o, h
  <2> QED
    BY <2>6, <2>7, <2>8
<1>3. r \in [Node -> Inode]
  <2>1. r = [n \in Node |-> r[n]]
    BY DEF Closed
  <2> HIDE DEF r
  <2> QED
    BY <1>2, <2>1
<1> QED
  BY <1>2, <1>3

\* The root is not freed: it has a reference of its own.
LEMMA RootStays ==
    ASSUME IInv, NEW t \in Task, NEW j \in 0 .. 3, Points(t, j, root)
    PROVE  mem[root].refs > 1
<1>1. /\ root \in Node /\ CountFits(root) /\ ~ mem[root].hit /\ mem[root].refs \in Nat
  <2>1. root \in Node
    BY TreeAssumption DEF root, Node
  <2> QED
    BY <2>1, NodeFacts DEF IInv, RefsCounted, RootSound
<1>2. << t, j >> \in Slots(root)
  BY DEF Slots
<1>3. Slots(root) \in SUBSET (Task \X (0 .. 3))
  BY DEF Slots
<1>4. Cardinality(Slots(root)) \in Nat /\ Cardinality(Slots(root)) > 0
  BY <1>2, <1>3, CountChange
<1>5. Cardinality(Slots(root)) + 1 <= mem[root].refs
  BY <1>1 DEF CountFits
<1> QED
  BY <1>1, <1>4, <1>5
\* What is locked is read from the disk, but for what the task is loading.
LEMMA HeldRead ==
    ASSUME IInv, ~ Dangling, NEW t \in Task, pc[t] # "loading", NEW n \in Holds(t)
    PROVE  mem[n].kind # Junk
<1>1. n \in inodelist /\ t \in Holders(n) /\ JunkLocked
  BY WantFacts DEF Holders, IInv, Sound
<1> QED
  BY <1>1 DEF JunkLocked

\* inodelist_get.
LEMMA CachedFacts ==
    ASSUME NEW p, NULL \notin Node
    PROVE  /\ Cached(p) # NULL => Cached(p) \in inodelist /\ Cached(p) \in Node
                                  /\ mem[Cached(p)].path = p
           /\ Cached(p) = NULL => \A n \in inodelist : mem[n].path # p
<1> DEFINE found == {n \in inodelist : mem[n].path = p}
<1>1. Cached(p) = IF found = {} THEN NULL ELSE CHOOSE n \in found : TRUE
  BY DEF Cached
<1>2. found # {} => (CHOOSE n \in found : TRUE) \in found
  OBVIOUS
<1>3. \A n \in found : n \in inodelist /\ n \in Node /\ mem[n].path = p /\ n # NULL
  BY DEF inodelist
<1>4. found = {} => \A n \in inodelist : mem[n].path # p
  OBVIOUS
<1> HIDE DEF found
<1> QED
  BY <1>1, <1>2, <1>3, <1>4

\* The path of the child that fs_node_child looks for.
LEMMA ChildFacts ==
    ASSUME IInv, ~ Dangling, NEW t \in Task, pc[t] \in {"child", "missed"}
    PROVE  /\ Len(loaded[t]) \in Nat /\ Len(loaded[t]) > 0
           /\ Len(loaded[t]) <= Len(call[t].path) /\ Len(call[t].path) \in Nat
           /\ ChildPath(t) = First(call[t].path, Len(loaded[t]))
           /\ ChildPath(t) \in Path /\ Len(ChildPath(t)) = Len(loaded[t])
           /\ ChildPath(t) # << >>
           /\ at[t] \in Node /\ at[t] \in inodelist /\ parentOf(t) = at[t]
           /\ Base(t) = 0
<1>1. TypeOK /\ Shape(t) /\ pc[t] \notin Idle /\ pc[t] \in Walking
  BY DEF IInv, Idle, Walking
<1>2. /\ loaded[t] # << >> /\ Len(mem[at[t]].path) = Len(loaded[t]) - 1
      /\ Base(t) = 0
  BY <1>1, WalkFacts DEF Opening
<1>3. /\ Len(loaded[t]) \in Nat /\ (loaded[t] = << >> <=> Len(loaded[t]) = 0)
      /\ Len(call[t].path) \in Nat /\ call[t].path \in Path
      /\ at[t] \in Node /\ Len(loaded[t]) <= Len(call[t].path) /\ at[t] = parentOf(t)
  BY <1>1, TaskFacts DEF Shape
<1>4. at[t] \in inodelist
  BY <1>1, <1>3, PointerFacts, WantFacts
<1>5. Len(mem[at[t]].path) + 1 = Len(loaded[t]) /\ Len(loaded[t]) > 0
      /\ Len(loaded[t]) \in 0 .. Len(call[t].path)
  BY <1>2, <1>3
<1>6. ChildPath(t) = First(call[t].path, Len(loaded[t]))
  BY <1>5 DEF ChildPath, First
<1>7. ChildPath(t) \in Path /\ Len(ChildPath(t)) = Len(loaded[t])
  BY <1>3, <1>5, <1>6, FirstProperties
<1>8. ChildPath(t) # << >>
  <2>1. 0 \in 0 .. Len(ChildPath(t))
    BY <1>3, <1>7
  <2>2. ChildPath(t) = << >> <=> Len(ChildPath(t)) = 0
    BY <1>7, <2>1, FirstProperties
  <2> QED
    BY <1>5, <1>7, <2>2
<1> QED
  BY <1>2, <1>3, <1>4, <1>5, <1>6, <1>7, <1>8

\* fs_node_open begins with a reference to the root.
LEMMA OpenRootStep ==
    ASSUME IInv, ~ Dangling, NEW t \in Task, NEW c \in Calls, OpenRoot(t, c)
    PROVE  IInv'
<1> DEFINE k == mem[root].refs + 1
           label == "loop"
<1>1. /\ want[t] = NoWant /\ pc[t] = "user" /\ mem[root].refs < MaxRefs
      /\ mem' = [mem EXCEPT ![root].refs = k]
      /\ call' = [call EXCEPT ![t] = c] /\ at' = [at EXCEPT ![t] = root]
      /\ pc' = [pc EXCEPT ![t] = label] /\ cpu' = t
      /\ disk' = disk /\ loaded' = loaded /\ want' = want /\ fd' = fd /\ ready' = ready
  BY DEF OpenRoot, At, Goto
<1>2. TypeOK /\ Shape(t) /\ RootSound /\ RefsCounted /\ NULL \notin Node /\ root \in Node
  BY WantFacts, TreeAssumption DEF IInv, root, Node
<1>3. /\ c \in Call /\ (c.create => c.dir # "any") /\ c.path \in Path
      /\ Len(c.path) \in Nat /\ First(c.path, 0) = << >>
  <2>1. c \in Call /\ (c.create => c.dir # "any")
    BY TreeAssumption DEF Call
  <2>2. c.path \in Path
    BY <2>1 DEF Call
  <2>3. Len(c.path) \in Nat
    BY <2>2, TreeAssumption, QueueRange
  <2>4. 0 \in 0 .. Len(c.path)
    BY <2>3
  <2> QED
    BY <2>1, <2>2, <2>3, <2>4, FirstProperties
<1>4. loaded[t] = << >> /\ at[t] = NULL /\ Len(loaded[t]) = 0
  BY <1>1, <1>2, TaskFacts DEF Shape, Idle
<1>5. k \in 0 .. MaxRefs /\ k \in Nat /\ mem[root].refs \in Nat /\ k > 0
  <2>1. mem[root].refs \in Nat /\ MaxRefs \in Nat
    BY <1>2, NodeFacts, TreeAssumption
  <2> QED
    BY <1>1, <2>1
<1> HIDE DEF k
<1>6. /\ mem' \in [Node -> Inode]
      /\ \A m \in Node :
            /\ mem'[m].refs = IF m = root THEN k ELSE mem[m].refs
            /\ mem'[m].path = mem[m].path /\ mem'[m].kind = mem[m].kind
            /\ mem'[m].parent = mem[m].parent /\ mem'[m].lock = mem[m].lock
            /\ mem'[m].hit = mem[m].hit /\ mem'[m].leaked = mem[m].leaked
  <2>1. mem \in [Node -> Inode]
    BY <1>2 DEF TypeOK
  <2>2. mem' \in [Node -> Inode]
    BY <1>1, <1>2, <1>5, <2>1 DEF Inode
  <2>3. ASSUME NEW m \in Node
        PROVE  /\ mem'[m].refs = IF m = root THEN k ELSE mem[m].refs
               /\ mem'[m].path = mem[m].path /\ mem'[m].kind = mem[m].kind
               /\ mem'[m].parent = mem[m].parent /\ mem'[m].lock = mem[m].lock
               /\ mem'[m].hit = mem[m].hit /\ mem'[m].leaked = mem[m].leaked
    <3>1. CASE m = root
      BY <1>1, <1>2, <2>1, <3>1 DEF Inode
    <3>2. CASE m # root
      BY <1>1, <1>2, <2>1, <3>2
    <3> QED
      BY <3>1, <3>2
  <2> QED
    BY <2>2, <2>3
<1>7. /\ pc' \in [Task -> Idle \cup Walking \cup Opening] /\ pc'[t] = "loop"
      /\ call' \in [Task -> Call] /\ call'[t] = c
      /\ at' \in [Task -> Node \cup {NULL}] /\ at'[t] = root
      /\ \A u \in Task \ {t} : pc'[u] = pc[u] /\ call'[u] = call[u] /\ at'[u] = at[u]
  BY <1>1, <1>2, <1>3 DEF TypeOK, Walking
<1>8. TypeOK'
  BY <1>1, <1>2, <1>6, <1>7 DEF TypeOK
<1>9. \A u \in Task \ {t} : Same(u)
  BY <1>1, <1>7 DEF Same
<1>10. \A u \in Task : fd[u] # NULL => mem'[fd[u]].parent = mem[fd[u]].parent
  BY <1>2, <1>6, TaskFacts
<1>11. RefsCounted'
  <2>1. ASSUME NEW n \in Node PROVE CountFits(n)'
    <3>1. \A i \in (0 .. 3) \ {0} : Points(t, i, n)' => Points(t, i, n)
      BY <1>1, <1>10 DEF Points
    <3>2. n # root => ~ Points(t, 0, n)'
      BY <1>7 DEF Points
    <3>3. n # root => \A i \in 0 .. 3 : Points(t, i, n)' => Points(t, i, n)
      BY <3>1, <3>2
    <3>4. /\ mem'[n].hit <=> mem[n].hit
          /\ mem'[n].refs \in Nat /\ mem[n].refs \in Nat
          /\ n = root => mem'[n].refs = mem[n].refs + 1
          /\ n # root => mem'[n].refs >= mem[n].refs
      BY <1>2, <1>5, <1>6, NodeFacts DEF k
    <3>5. CountFits(n) /\ 0 \in 0 .. 3
      BY <1>2 DEF RefsCounted
    <3>6. \A u \in Task \ {t} :
              fd[u] # NULL => mem'[fd[u]].parent \in {mem[fd[u]].parent, NULL}
      BY <1>10
    <3> QED
      BY <1>2, <1>9, <3>1, <3>3, <3>4, <3>5, <3>6, CountMoves
  <2> QED
    BY <2>1 DEF RefsCounted
<1>12. Shape(t)'
  BY <1>1, <1>2, <1>3, <1>4, <1>7 DEF Shape, Idle, Walking, Opening
<1>13. \A m \in Node : mem'[m].refs > 0 =>
          /\ mem[m].refs > 0 /\ Survives(m)
          /\ mem'[m].lock = mem[m].lock /\ mem'[m].leaked = mem[m].leaked
          /\ mem'[m].kind = mem[m].kind
  BY <1>2, <1>6 DEF RootSound, Survives
<1>14. mem'[root].refs > 0 /\ ~ mem'[root].hit
  BY <1>2, <1>5, <1>6 DEF RootSound
<1>15. ASSUME ~ Dangling' PROVE PathsFit(t)' /\ KindsRead(t)'
  <2>1. FdPath(t)' /\ FdKinds(t)'
    <3>1. fd[t] # NULL /\ mem'[fd[t]].refs > 0 => mem'[fd[t]].parent = mem[fd[t]].parent
      BY <1>10
    <3>2. fd'[t] = fd[t]
      BY <1>1
    <3> QED
      BY <1>8, <1>13, <1>15, <3>1, <3>2, FdKeeps
  <2>2. Base(t)' = 0
    BY <1>7 DEF Base, Opening
  <2>3. mem'[at'[t]].path = First(call'[t].path, 0 + 0)
    BY <1>2, <1>3, <1>6, <1>7 DEF RootSound
  <2>4. Len(loaded'[t]) = 0
    BY <1>1, <1>4
  <2>5. PathsFit(t)'
    BY <2>1, <2>2, <2>3, <2>4 DEF PathsFit
  <2> QED
    BY <1>7, <2>1, <2>4, <2>5 DEF KindsRead
<1>16. Holds(t) = {} /\ Holds(t)' = {}
  BY <1>1, <1>7 DEF Holds
<1>17. want'[t] = NoWant /\ pc[t] # "loading" /\ Holds(t)' = Holds(t)
       /\ \A u \in Task \ {t} : u \in ready' <=> u \in ready
  BY <1>1, <1>16
<1> QED
  BY <1>1, <1>8, <1>9, <1>10, <1>11, <1>12, <1>13, <1>14, <1>15, <1>17, MoveFree

\* fs_node_child takes a child that is in the cache as it is.
LEMMA ChildCachedStep ==
    ASSUME IInv, ~ Dangling, NEW t \in Task, ChildCached(t)
    PROVE  IInv'
<1> DEFINE c == Cached(ChildPath(t))
           label == "loop"
<1>1. /\ want[t] = NoWant /\ pc[t] = "child" /\ c # NULL
      /\ mem' = [mem EXCEPT ![c].hit = TRUE]
      /\ at' = [at EXCEPT ![t] = c]
      /\ pc' = [pc EXCEPT ![t] = label] /\ cpu' = t
      /\ disk' = disk /\ call' = call /\ loaded' = loaded /\ want' = want /\ fd' = fd
      /\ ready' = ready
  BY DEF ChildCached, At, Goto
<1>2. TypeOK /\ Shape(t) /\ RootSound /\ RefsCounted /\ NULL \notin Node
  BY WantFacts DEF IInv
<1>3. c \in inodelist /\ c \in Node /\ mem[c].path = ChildPath(t)
  BY <1>1, <1>2, CachedFacts
<1>4. /\ Len(loaded[t]) \in Nat /\ Len(loaded[t]) <= Len(call[t].path)
      /\ ChildPath(t) = First(call[t].path, Len(loaded[t])) /\ ChildPath(t) # << >>
      /\ Base(t) = 0
  BY <1>1, ChildFacts
<1> HIDE DEF c
<1>5. /\ mem' \in [Node -> Inode]
      /\ \A m \in Node :
            /\ mem'[m].hit = IF m = c THEN TRUE ELSE mem[m].hit
            /\ mem'[m].path = mem[m].path /\ mem'[m].kind = mem[m].kind
            /\ mem'[m].parent = mem[m].parent /\ mem'[m].lock = mem[m].lock
            /\ mem'[m].refs = mem[m].refs /\ mem'[m].leaked = mem[m].leaked
  <2>1. mem \in [Node -> Inode]
    BY <1>2 DEF TypeOK
  <2>2. mem' \in [Node -> Inode]
    BY <1>1, <1>3, <2>1 DEF Inode
  <2>3. ASSUME NEW m \in Node
        PROVE  /\ mem'[m].hit = IF m = c THEN TRUE ELSE mem[m].hit
               /\ mem'[m].path = mem[m].path /\ mem'[m].kind = mem[m].kind
               /\ mem'[m].parent = mem[m].parent /\ mem'[m].lock = mem[m].lock
               /\ mem'[m].refs = mem[m].refs /\ mem'[m].leaked = mem[m].leaked
    <3>1. CASE m = c
      BY <1>1, <1>3, <2>1, <3>1 DEF Inode
    <3>2. CASE m # c
      BY <1>1, <1>3, <2>1, <3>2
    <3> QED
      BY <3>1, <3>2
  <2> QED
    BY <2>2, <2>3
<1>6. /\ pc' \in [Task -> Idle \cup Walking \cup Opening] /\ pc'[t] = "loop"
      /\ at' \in [Task -> Node \cup {NULL}] /\ at'[t] = c
      /\ \A u \in Task \ {t} : pc'[u] = pc[u] /\ at'[u] = at[u]
  BY <1>1, <1>2, <1>3 DEF TypeOK, Walking
<1>7. TypeOK'
  BY <1>1, <1>2, <1>5, <1>6 DEF TypeOK
<1>8. \A u \in Task \ {t} : Same(u)
  BY <1>1, <1>6 DEF Same
<1>9. \A u \in Task : fd[u] # NULL => mem'[fd[u]].parent = mem[fd[u]].parent
  BY <1>2, <1>5, TaskFacts
<1>10. RefsCounted'
  <2>1. ASSUME NEW n \in Node PROVE CountFits(n)'
    <3>1. CASE n = c
      BY <1>3, <1>5, <3>1 DEF CountFits
    <3>2. CASE n # c
      <4>1. \A i \in 0 .. 3 : Points(t, i, n)' => Points(t, i, n)
        <5>1. ~ Points(t, 0, n)'
          BY <1>6, <3>2 DEF Points
        <5>2. \A i \in (0 .. 3) \ {0} : Points(t, i, n)' => Points(t, i, n)
          BY <1>1, <1>9 DEF Points
        <5> QED
          BY <5>1, <5>2
      <4>2. /\ mem'[n].hit <=> mem[n].hit
            /\ mem'[n].refs \in Nat /\ mem'[n].refs >= mem[n].refs
        <5>1. mem'[n].refs = mem[n].refs /\ mem'[n].hit = mem[n].hit
          BY <1>5, <3>2
        <5> QED
          BY <1>2, <5>1, NodeFacts
      <4>3. CountFits(n) /\ 0 \in 0 .. 3
        BY <1>2 DEF RefsCounted
      <4>4. \A u \in Task \ {t} :
                fd[u] # NULL => mem'[fd[u]].parent \in {mem[fd[u]].parent, NULL}
        BY <1>9
      <4> QED
        BY <1>2, <1>8, <4>1, <4>2, <4>3, <4>4, CountMoves
    <3> QED
      BY <3>1, <3>2
  <2> QED
    BY <2>1 DEF RefsCounted
<1>11. Shape(t)'
  BY <1>1, <1>2, <1>3, <1>4, <1>6 DEF Shape, Idle, Walking, Opening
<1>12. \A m \in Node : mem'[m].refs > 0 =>
          /\ mem[m].refs > 0 /\ Survives(m)
          /\ mem'[m].lock = mem[m].lock /\ mem'[m].leaked = mem[m].leaked
          /\ mem'[m].kind = Junk <=> mem[m].kind = Junk
  BY <1>2, <1>5 DEF Survives
<1>13. mem'[root].refs > 0 /\ ~ mem'[root].hit
  <2>1. root \in Node /\ root # c
    BY <1>2, <1>3, <1>4, TreeAssumption DEF RootSound, root, Node
  <2> QED
    BY <1>2, <1>5, <2>1 DEF RootSound
<1>14. ASSUME ~ Dangling' PROVE PathsFit(t)' /\ KindsRead(t)'
  <2>0. PathsFit(t) /\ KindsRead(t) /\ \A i \in 1 .. Len(loaded[t]) : loaded[t][i] \in Node
    BY <1>2, TaskFacts DEF IInv, Sound
  <2>1. FdPath(t)' /\ FdKinds(t)'
    <3>1. fd[t] # NULL /\ mem'[fd[t]].refs > 0 => mem'[fd[t]].parent = mem[fd[t]].parent
      BY <1>9
    <3>2. fd'[t] = fd[t]
      BY <1>1
    <3> QED
      BY <1>7, <1>12, <1>14, <3>1, <3>2, FdKeeps
  <2>2. Base(t)' = 0
    BY <1>6 DEF Base, Opening
  <2>3. mem'[at'[t]].path = First(call'[t].path, 0 + Len(loaded'[t]))
    BY <1>1, <1>3, <1>4, <1>5, <1>6
  <2>4. \A i \in 1 .. Len(loaded'[t]) :
           /\ mem'[loaded'[t][i]].path = First(call'[t].path, 0 + i - 1)
           /\ mem'[loaded'[t][i]].kind # Junk
    BY <1>1, <1>4, <1>5, <2>0 DEF PathsFit, KindsRead
  <2>5. PathsFit(t)'
    BY <2>1, <2>2, <2>3, <2>4 DEF PathsFit
  <2> QED
    BY <1>6, <2>1, <2>4, <2>5 DEF KindsRead
<1>15. Holds(t) = {} /\ Holds(t)' = {}
  BY <1>1, <1>6 DEF Holds
<1>16. want'[t] = NoWant /\ pc[t] # "loading" /\ Holds(t)' = Holds(t)
       /\ \A u \in Task \ {t} : u \in ready' <=> u \in ready
  BY <1>1, <1>15
<1> QED
  BY <1>1, <1>7, <1>8, <1>9, <1>10, <1>11, <1>12, <1>13, <1>14, <1>16, MoveFree

\* fs_open makes a missing inode a file or a directory.
LEMMA CreateInodeStep ==
    ASSUME IInv, ~ Dangling, NEW t \in Task, CreateInode(t)
    PROVE  IInv'
<1> DEFINE a == at[t]
           k == call[t].dir
           label == "created"
<1>1. /\ want[t] = NoWant /\ pc[t] = "allocated"
      /\ mem' = [mem EXCEPT ![a].kind = k]
      /\ pc' = [pc EXCEPT ![t] = label] /\ cpu' = NULL /\ ready' = ready \ {t}
      /\ disk' = disk /\ call' = call /\ at' = at /\ loaded' = loaded /\ want' = want
      /\ fd' = fd
  BY DEF CreateInode, At, TransferAndGoto, Goto
<1>2. TypeOK /\ Shape(t) /\ RootSound /\ RefsCounted /\ NULL \notin Node
  BY WantFacts DEF IInv
<1>3. pc[t] \in Opening /\ pc[t] \notin Idle \cup {"opened"}
  BY <1>1 DEF Opening, Idle
<1>4. a \in Node /\ a \in inodelist
  BY <1>3, OpenFacts
<1>5. k \in {"file", "dir"}
  <2>1. k \in {"file", "dir", "any"}
    BY <1>2, TaskFacts DEF Call
  <2>2. call[t].create /\ (call[t].create => k # "any")
    BY <1>1, <1>2, <1>3 DEF Shape
  <2> QED
    BY <2>1, <2>2
<1>6. mem[a].kind # Junk
  <2>1. want[t].node = NULL
    BY <1>1, <1>2, TaskFacts
  <2>2. a \in Holds(t)
    BY <1>1, <1>2, <1>4, <2>1 DEF Holds
  <2> QED
    BY <1>1, <2>2, HeldRead
<1> HIDE DEF a, k
<1>7. /\ mem' \in [Node -> Inode]
      /\ \A m \in Node :
            /\ mem'[m].kind = IF m = a THEN k ELSE mem[m].kind
            /\ mem'[m].path = mem[m].path /\ mem'[m].hit = mem[m].hit
            /\ mem'[m].parent = mem[m].parent /\ mem'[m].lock = mem[m].lock
            /\ mem'[m].refs = mem[m].refs /\ mem'[m].leaked = mem[m].leaked
  <2>1. mem \in [Node -> Inode]
    BY <1>2 DEF TypeOK
  <2>2. mem' \in [Node -> Inode]
    BY <1>1, <1>4, <1>5, <2>1 DEF Inode, Kind
  <2>3. ASSUME NEW m \in Node
        PROVE  /\ mem'[m].kind = IF m = a THEN k ELSE mem[m].kind
               /\ mem'[m].path = mem[m].path /\ mem'[m].hit = mem[m].hit
               /\ mem'[m].parent = mem[m].parent /\ mem'[m].lock = mem[m].lock
               /\ mem'[m].refs = mem[m].refs /\ mem'[m].leaked = mem[m].leaked
    <3>1. CASE m = a
      BY <1>1, <1>4, <2>1, <3>1 DEF Inode
    <3>2. CASE m # a
      BY <1>1, <1>4, <2>1, <3>2
    <3> QED
      BY <3>1, <3>2
  <2> QED
    BY <2>2, <2>3
<1>8. /\ pc' \in [Task -> Idle \cup Walking \cup Opening] /\ pc'[t] = "created"
      /\ \A u \in Task \ {t} : pc'[u] = pc[u]
  BY <1>1, <1>2 DEF TypeOK, Opening
<1>9. TypeOK'
  BY <1>1, <1>2, <1>7, <1>8 DEF TypeOK
<1>10. \A u \in Task \ {t} : Same(u)
  BY <1>1, <1>8 DEF Same
<1>11. \A u \in Task : fd[u] # NULL => mem'[fd[u]].parent = mem[fd[u]].parent
  BY <1>2, <1>7, TaskFacts
<1>12. RefsCounted'
  <2>1. ASSUME NEW n \in Node PROVE CountFits(n)'
    <3>1. \A i \in 0 .. 3 : Points(t, i, n)' => Points(t, i, n)
      BY <1>1, <1>8, <1>11 DEF Points
    <3>2. /\ mem'[n].hit <=> mem[n].hit
          /\ mem'[n].refs \in Nat /\ mem'[n].refs >= mem[n].refs
      BY <1>2, <1>7, NodeFacts
    <3>3. CountFits(n) /\ 0 \in 0 .. 3
      BY <1>2 DEF RefsCounted
    <3>4. \A u \in Task \ {t} :
              fd[u] # NULL => mem'[fd[u]].parent \in {mem[fd[u]].parent, NULL}
      BY <1>11
    <3> QED
      BY <1>2, <1>10, <3>1, <3>2, <3>3, <3>4, CountMoves
  <2> QED
    BY <2>1 DEF RefsCounted
<1>13. Shape(t)'
  BY <1>1, <1>2, <1>3, <1>8 DEF Shape, Idle, Walking, Opening
<1>14. \A m \in Node : mem'[m].refs > 0 =>
          /\ mem[m].refs > 0 /\ Survives(m)
          /\ mem'[m].lock = mem[m].lock /\ mem'[m].leaked = mem[m].leaked
          /\ mem'[m].kind = Junk <=> mem[m].kind = Junk
  BY <1>2, <1>5, <1>6, <1>7 DEF Survives, Junk
<1>15. mem'[root].refs > 0 /\ ~ mem'[root].hit
  <2>1. root \in Node
    BY TreeAssumption DEF root, Node
  <2> QED
    BY <1>2, <1>7, <2>1 DEF RootSound
<1>16. ASSUME ~ Dangling' PROVE PathsFit(t)' /\ KindsRead(t)'
  <2>0. PathsFit(t) /\ KindsRead(t) /\ \A i \in 1 .. Len(loaded[t]) : loaded[t][i] \in Node
    BY <1>2, TaskFacts DEF IInv, Sound
  <2>1. FdPath(t)' /\ FdKinds(t)'
    <3>1. fd[t] # NULL /\ mem'[fd[t]].refs > 0 => mem'[fd[t]].parent = mem[fd[t]].parent
      BY <1>11
    <3>2. fd'[t] = fd[t]
      BY <1>1
    <3> QED
      BY <1>9, <1>14, <1>16, <3>1, <3>2, FdKeeps
  <2>2. Base(t)' = Base(t)
    BY <1>1, <1>3, <1>8 DEF Base, Opening
  <2>3. mem'[at'[t]].path = First(call'[t].path, Base(t) + Len(loaded'[t]))
    BY <1>1, <1>3, <1>4, <1>7, <2>0 DEF PathsFit, a
  <2>4. \A i \in 1 .. Len(loaded'[t]) :
           /\ mem'[loaded'[t][i]].path = First(call'[t].path, Base(t) + i - 1)
           /\ mem'[loaded'[t][i]].kind # Junk
    BY <1>1, <1>5, <1>7, <2>0 DEF PathsFit, KindsRead, Junk
  <2>5. PathsFit(t)'
    BY <2>1, <2>2, <2>3, <2>4 DEF PathsFit
  <2> QED
    BY <1>8, <2>1, <2>4, <2>5 DEF KindsRead
<1>17. Holds(t)' = Holds(t)
  <2>1. parentOf(t)' = parentOf(t) /\ gparentOf(t)' = gparentOf(t)
    BY <1>1 DEF parentOf, gparentOf
  <2> QED
    BY <1>1, <1>8, <2>1 DEF Holds
<1>18. want'[t] = NoWant /\ pc[t] # "loading"
       /\ \A u \in Task \ {t} : u \in ready' <=> u \in ready
  BY <1>1
<1> QED
  BY <1>1, <1>9, <1>10, <1>11, <1>12, <1>13, <1>14, <1>15, <1>16, <1>17, <1>18, MoveFree

\* The disk is done: the child is filled, and the directory and the child are
\* released.
LEMMA ChildLoadedStep ==
    ASSUME IInv, ~ Dangling, NEW t \in Task, ChildLoaded(t)
    PROVE  IInv'
<1> DEFINE a == at[t]
           dir == parentOf(t)
           k == disk[mem[a].path]
           filled == [mem EXCEPT ![a].kind = k]
           ns == {dir, a}
           label == "loop"
<1>1. /\ want[t] = NoWant /\ pc[t] = "loading"
      /\ mem' = Released(filled, ns) /\ ready' = ready \cup ReleaseWakes(mem, ns)
      /\ pc' = [pc EXCEPT ![t] = label] /\ cpu' = t
      /\ disk' = disk /\ call' = call /\ at' = at /\ loaded' = loaded /\ want' = want
      /\ fd' = fd
  BY DEF ChildLoaded, At, Goto
<1>2. /\ TypeOK /\ Shape(t) /\ RootSound /\ RefsCounted /\ NULL \notin Node
      /\ mem \in [Node -> Inode] /\ PathsFit(t) /\ KindsRead(t) /\ want[t].node = NULL
  BY <1>1, WantFacts DEF IInv, TypeOK, Sound
<1>3. pc[t] \in Walking /\ pc[t] \notin Idle /\ pc[t] \notin Opening
  BY <1>1 DEF Walking, Idle, Opening
<1>4. /\ a \in Node /\ a \in inodelist /\ dir \in Node /\ dir \in inodelist /\ dir # a
      /\ mem[a].kind = Junk /\ mem[dir].kind # Junk
      /\ \A i \in 1 .. Len(loaded[t]) : loaded[t][i] \in Node /\ loaded[t][i] # a
  <2>1. a \in Node /\ a \in inodelist
    BY <1>2, <1>3, PointerFacts DEF Shape
  <2>2. loaded[t] # << >> /\ Len(loaded[t]) \in Nat /\ Len(loaded[t]) # 0
    BY <1>1, <1>2, TaskFacts DEF Shape
  <2>3. Len(loaded[t]) \in 1 .. Len(loaded[t]) /\ dir = loaded[t][Len(loaded[t])]
    BY <1>2, <2>2, TaskFacts
  <2>4. \A i \in 1 .. Len(loaded[t]) : loaded[t][i] \in Node /\ loaded[t][i] # a
    <3>1. \A i \in 1 .. Len(loaded[t]) : loaded[t][i] # a
      BY <1>1, <1>3, WalkFacts
    <3> QED
      BY <1>2, <3>1, TaskFacts
  <2>5. dir \in inodelist
    BY <1>2, <2>3, <2>4, PointerFacts
  <2>6. mem[a].kind = Junk /\ mem[dir].kind # Junk
    BY <1>1, <1>2, <2>3 DEF KindsRead
  <2> QED
    BY <2>1, <2>3, <2>4, <2>5, <2>6
<1>5. k \in Kind /\ k # Junk
  <2>1. mem[a].path \in Path
    BY <1>2, <1>4, NodeFacts
  <2>2. k \in {"file", "dir", Missing}
    BY <1>2, <2>1 DEF TypeOK
  <2> QED
    BY <2>2 DEF Kind, Junk, Missing
<1>6. Holds(t) = ns /\ ns \in SUBSET Node /\ ns \subseteq inodelist
  BY <1>1, <1>2, <1>4 DEF Holds
<1> HIDE DEF a, dir, k
<1>7. /\ filled \in [Node -> Inode]
      /\ \A m \in Node :
            /\ filled[m].kind = IF m = a THEN k ELSE mem[m].kind
            /\ filled[m].path = mem[m].path /\ filled[m].hit = mem[m].hit
            /\ filled[m].parent = mem[m].parent /\ filled[m].lock = mem[m].lock
            /\ filled[m].refs = mem[m].refs /\ filled[m].leaked = mem[m].leaked
  <2>1. filled \in [Node -> Inode]
    BY <1>2, <1>4, <1>5 DEF Inode
  <2>2. ASSUME NEW m \in Node
        PROVE  /\ filled[m].kind = IF m = a THEN k ELSE mem[m].kind
               /\ filled[m].path = mem[m].path /\ filled[m].hit = mem[m].hit
               /\ filled[m].parent = mem[m].parent /\ filled[m].lock = mem[m].lock
               /\ filled[m].refs = mem[m].refs /\ filled[m].leaked = mem[m].leaked
    <3>1. CASE m = a
      BY <1>2, <1>4, <3>1 DEF Inode
    <3>2. CASE m # a
      BY <1>2, <1>4, <3>2
    <3> QED
      BY <3>1, <3>2
  <2> QED
    BY <2>1, <2>2
<1> HIDE DEF filled, ns
<1>8. \A n \in ns : /\ KRWLockRelease(mem[n].lock) \in Lock
                    /\ KRWLockReleaseWakes(mem[n].lock) \subseteq Task
  <2>1. "READ" \in {"READ", "WRITE"}
    OBVIOUS
  <2>2. ASSUME NEW n \in inodelist
        PROVE  /\ KRWLockRelease(mem[n].lock) \in Lock
               /\ KRWLockReleaseWakes(mem[n].lock) \subseteq Task
    BY <2>1, LockTypes
  <2> QED
    BY <1>6, <2>2
<1>9. \A n \in Node \cap ns : KRWLockRelease(filled[n].lock) \in Lock
  BY <1>7, <1>8
<1>10. /\ mem' \in [Node -> Inode]
       /\ \A n \in Node :
             /\ mem'[n].lock = IF n \in ns THEN KRWLockRelease(mem[n].lock) ELSE mem[n].lock
             /\ mem'[n].path = mem[n].path /\ mem'[n].refs = mem[n].refs
             /\ mem'[n].kind = IF n = a THEN k ELSE mem[n].kind
             /\ mem'[n].parent = mem[n].parent /\ mem'[n].hit = mem[n].hit
             /\ mem'[n].leaked = mem[n].leaked
  BY <1>1, <1>7, <1>9, ReleasedFields
<1>11. ready' \subseteq Task
  BY <1>1, <1>2, <1>8 DEF ReleaseWakes, TypeOK
<1>12. /\ pc' \in [Task -> Idle \cup Walking \cup Opening] /\ pc'[t] = "loop"
       /\ \A u \in Task \ {t} : pc'[u] = pc[u]
  BY <1>1, <1>2 DEF TypeOK, Walking
<1>13. TypeOK'
  BY <1>1, <1>2, <1>10, <1>11, <1>12 DEF TypeOK
<1>14. \A u \in Task \ {t} : Same(u)
  BY <1>1, <1>12 DEF Same
<1>15. \A u \in Task : fd[u] # NULL => mem'[fd[u]].parent = mem[fd[u]].parent
  BY <1>2, <1>10, TaskFacts
<1>16. RefsCounted'
  <2>1. ASSUME NEW n \in Node PROVE CountFits(n)'
    <3>1. \A i \in 0 .. 3 : Points(t, i, n)' => Points(t, i, n)
      BY <1>1, <1>12, <1>15 DEF Points
    <3>2. /\ mem'[n].hit <=> mem[n].hit
          /\ mem'[n].refs \in Nat /\ mem'[n].refs >= mem[n].refs
      BY <1>2, <1>10, NodeFacts
    <3>3. CountFits(n) /\ 0 \in 0 .. 3
      BY <1>2 DEF RefsCounted
    <3>4. \A u \in Task \ {t} :
              fd[u] # NULL => mem'[fd[u]].parent \in {mem[fd[u]].parent, NULL}
      BY <1>15
    <3> QED
      BY <1>2, <1>14, <3>1, <3>2, <3>3, <3>4, CountMoves
  <2> QED
    BY <2>1 DEF RefsCounted
<1>17. Shape(t)'
  BY <1>1, <1>2, <1>3, <1>12 DEF Shape, Idle, Walking, Opening
<1>18. ASSUME NEW m \in Node, mem'[m].refs > 0
       PROVE  /\ mem[m].refs > 0 /\ Survives(m)
              /\ mem'[m].lock = IF m \in ns THEN KRWLockRelease(mem[m].lock) ELSE mem[m].lock
              /\ mem'[m].leaked = mem[m].leaked
              /\ mem[m].kind = Junk =>
                    mem'[m].kind = Junk \/ (pc[t] = "loading" /\ at[t] = m)
              /\ mem'[m].kind = Junk =>
                    /\ mem[m].kind = Junk /\ m \notin ns
                    /\ pc[t] # "loading" \/ at[t] # m
  <2>1. CASE m = a
    BY <1>1, <1>4, <1>5, <1>10, <1>18, <2>1 DEF Survives, Junk, a
  <2>2. CASE m # a
    <3>1. m \in ns => m = dir
      BY <2>2 DEF ns
    <3> QED
      BY <1>1, <1>4, <1>10, <1>18, <2>2, <3>1 DEF Survives, a
  <2> QED
    BY <2>1, <2>2
<1>19. mem'[root].refs > 0 /\ ~ mem'[root].hit
  <2>1. root \in Node
    BY TreeAssumption DEF root, Node
  <2> QED
    BY <1>2, <1>10, <2>1 DEF RootSound
<1>20. ASSUME ~ Dangling' PROVE PathsFit(t)' /\ KindsRead(t)'
  <2>1. FdPath(t)' /\ FdKinds(t)'
    <3>1. fd[t] # NULL /\ mem'[fd[t]].refs > 0 => mem'[fd[t]].parent = mem[fd[t]].parent
      BY <1>15
    <3>2. fd'[t] = fd[t]
      BY <1>1
    <3> QED
      BY <1>13, <1>18, <1>20, <3>1, <3>2, FdKeeps
  <2>2. Base(t)' = 0 /\ Base(t) = 0
    BY <1>3, <1>12 DEF Base, Opening
  <2>3. mem'[at'[t]].path = First(call'[t].path, 0 + Len(loaded'[t]))
    BY <1>1, <1>2, <1>4, <1>10, <2>2 DEF PathsFit, a
  <2>4. \A i \in 1 .. Len(loaded'[t]) :
           /\ mem'[loaded'[t][i]].path = First(call'[t].path, 0 + i - 1)
           /\ mem'[loaded'[t][i]].kind # Junk
    BY <1>1, <1>2, <1>4, <1>10, <2>2 DEF PathsFit, KindsRead
  <2>5. PathsFit(t)'
    BY <2>1, <2>2, <2>3, <2>4 DEF PathsFit
  <2> QED
    BY <1>12, <2>1, <2>4, <2>5 DEF KindsRead
<1>21. Holds(t)' = {}
  BY <1>12 DEF Holds
<1>22. /\ ns \subseteq Holds(t) /\ (~ Dangling' => Holds(t)' = Holds(t) \ ns)
       /\ want'[t] = NoWant
       /\ \A u \in Task : want[u] # NoWant =>
             (u \in ready' <=> u \in ready \/ u \in ReleaseWakes(mem, ns))
       /\ \A u \in Task \ {t} : fd[u] # NULL /\ mem'[fd[u]].refs > 0 =>
             mem'[fd[u]].parent = mem[fd[u]].parent
  BY <1>1, <1>6, <1>15, <1>21
<1> QED
  BY <1>1, <1>6, <1>13, <1>14, <1>16, <1>17, <1>18, <1>19, <1>20, <1>22, MoveStep

\* fs_close.
LEMMA CloseStep ==
    ASSUME IInv, ~ Dangling, NEW t \in Task, Close(t)
    PROVE  IInv'
<1> DEFINE f == fd[t]
           p == mem[f].parent
           ns == << f, p >>
<1>1. /\ want[t] = NoWant /\ pc[t] = "user" /\ f # NULL
      /\ mem' = Closed(mem, ns) /\ fd' = [fd EXCEPT ![t] = NULL]
      /\ pc' = pc /\ cpu' = cpu /\ ready' = ready
      /\ disk' = disk /\ call' = call /\ at' = at /\ loaded' = loaded /\ want' = want
  BY DEF Close, At, FileClosed
<1>2. /\ TypeOK /\ Shape(t) /\ RootSound /\ RefsCounted /\ NULL \notin Node
      /\ mem \in [Node -> Inode] /\ root \in Node
  BY WantFacts, TreeAssumption DEF IInv, TypeOK, root, Node
<1>3. /\ loaded[t] = << >> /\ at[t] = NULL /\ Len(loaded[t]) = 0
  BY <1>1, <1>2, TaskFacts DEF Shape, Idle
<1>4. /\ f \in Node /\ p \in Node \cup {NULL} /\ p # f
  <2>1. f \in Node /\ (p # NULL => p # f)
    BY <1>1, FdFacts
  <2> QED
    BY <1>2, <2>1, NodeFacts
<1>5. Points(t, 1, f) /\ (p # NULL => Points(t, 2, p))
  BY <1>1 DEF Points
<1> HIDE DEF f, p
<1>6. /\ ns \in [1 .. 2 -> Node \cup {NULL}] /\ \A i, j \in 1 .. 2 : ns[i] = ns[j] => i = j
      /\ \A n : (\A i \in 1 .. 2 : ns[i] # n) <=> n # f /\ n # p
  BY <1>4
<1> HIDE DEF ns
<1>7. /\ mem' \in [Node -> Inode]
      /\ \A n \in Node :
            /\ n # f /\ n # p => mem'[n].refs = mem[n].refs
            /\ n = f \/ n = p => mem'[n].refs = IF mem[n].refs > 1 THEN mem[n].refs - 1 ELSE 0
            /\ mem'[n].hit = mem[n].hit /\ mem'[n].refs \in Nat
            /\ mem'[n].parent \in {mem[n].parent, NULL}
            /\ mem'[n].refs > 0 =>
                  /\ mem[n].refs > 0 /\ mem'[n].path = mem[n].path
                  /\ mem'[n].kind = mem[n].kind /\ mem'[n].parent = mem[n].parent
                  /\ mem'[n].lock = mem[n].lock /\ mem'[n].leaked = mem[n].leaked
  <2> DEFINE D == 1 .. 2
             r == Closed(mem, ns)
  <2>1. /\ ns \in [D -> Node \cup {NULL}] /\ \A i, j \in D : ns[i] = ns[j] => i = j
        /\ \A n : n # f /\ n # p => \A i \in D : ns[i] # n
        /\ \A n : n = f \/ n = p => \E i \in D : ns[i] = n
    BY <1>6
  <2> HIDE DEF D
  <2>2. /\ r \in [Node -> Inode]
        /\ \A n \in Node :
              /\ (\A i \in D : ns[i] # n) => r[n] = mem[n]
              /\ (\E i \in D : ns[i] = n) =>
                    r[n].refs = IF mem[n].refs > 1 THEN mem[n].refs - 1 ELSE 0
              /\ r[n].hit = mem[n].hit
              /\ r[n].parent \in {mem[n].parent, NULL}
              /\ r[n].refs \in Nat
              /\ r[n].refs > 0 =>
                    /\ mem[n].refs > 0
                    /\ r[n].path = mem[n].path
                    /\ r[n].kind = mem[n].kind
                    /\ r[n].parent = mem[n].parent
                    /\ r[n].lock = mem[n].lock
                    /\ r[n].leaked = mem[n].leaked
    BY <1>2, <2>1, ClosedFields
  <2>3. mem' = r
    BY <1>1
  <2> HIDE DEF r
  <2>4. ASSUME NEW n \in Node
        PROVE  /\ n # f /\ n # p => r[n].refs = mem[n].refs
               /\ n = f \/ n = p =>
                     r[n].refs = IF mem[n].refs > 1 THEN mem[n].refs - 1 ELSE 0
    <3>1. CASE n = f \/ n = p
      <4>1. \E i \in D : ns[i] = n
        BY <2>1, <3>1
      <4> QED
        BY <2>2, <3>1, <4>1
    <3>2. CASE n # f /\ n # p
      <4>1. \A i \in D : ns[i] # n
        BY <2>1, <3>2
      <4>2. r[n] = mem[n]
        BY <2>2, <4>1
      <4> QED
        BY <3>2, <4>2
    <3> QED
      BY <3>1, <3>2
  <2> QED
    BY <2>2, <2>3, <2>4
<1>8. /\ fd' \in [Task -> Node \cup {NULL}] /\ fd'[t] = NULL
      /\ \A u \in Task \ {t} : fd'[u] = fd[u]
  BY <1>1, <1>2 DEF TypeOK
<1>9. TypeOK'
  BY <1>1, <1>2, <1>7, <1>8 DEF TypeOK
<1>10. \A u \in Task \ {t} : Same(u)
  BY <1>1, <1>8 DEF Same
<1>11. \A u \in Task : fd[u] # NULL =>
          /\ mem'[fd[u]].parent \in {mem[fd[u]].parent, NULL}
          /\ mem'[fd[u]].refs > 0 => mem'[fd[u]].parent = mem[fd[u]].parent
  BY <1>2, <1>7, TaskFacts
<1>12. RefsCounted'
  <2>1. ASSUME NEW n \in Node PROVE CountFits(n)'
    <3>1. /\ ~ Points(t, 1, n)' /\ ~ Points(t, 2, n)'
          /\ Points(t, 0, n)' => Points(t, 0, n)
          /\ Points(t, 3, n)' => Points(t, 3, n)
      BY <1>1, <1>2, <1>8 DEF Points
    <3>2. \A i \in 0 .. 3 : Points(t, i, n)' => Points(t, i, n)
      BY <3>1
    <3>3. /\ mem'[n].hit <=> mem[n].hit
          /\ mem'[n].refs \in Nat /\ mem[n].refs \in Nat
      BY <1>2, <1>7, NodeFacts
    <3>4. CountFits(n)
      BY <1>2 DEF RefsCounted
    <3>5. \A u \in Task \ {t} :
              fd[u] # NULL => mem'[fd[u]].parent \in {mem[fd[u]].parent, NULL}
      BY <1>11
    <3>6. CASE n # f /\ n # p
      <4>1. mem'[n].refs >= mem[n].refs /\ 0 \in 0 .. 3
        BY <1>7, <3>3, <3>6
      <4> QED
        BY <1>2, <1>10, <3>2, <3>3, <3>4, <3>5, <4>1, CountMoves
    <3>7. CASE n = f
      <4>1. mem'[n].refs = (IF mem[n].refs > 1 THEN mem[n].refs - 1 ELSE 0) /\ 1 \in 0 .. 3
        BY <1>7, <3>7
      <4>2. Points(t, 1, n) /\ ~ Points(t, 1, n)'
        BY <1>5, <3>1, <3>7
      <4> QED
        BY <1>2, <1>10, <3>2, <3>3, <3>4, <3>5, <4>1, <4>2, CountMoves
    <3>8. CASE n = p
      <4>1. mem'[n].refs = (IF mem[n].refs > 1 THEN mem[n].refs - 1 ELSE 0) /\ 2 \in 0 .. 3
        BY <1>7, <3>8
      <4>2. Points(t, 2, n) /\ ~ Points(t, 2, n)'
        BY <1>2, <1>5, <3>1, <3>8
      <4> QED
        BY <1>2, <1>10, <3>2, <3>3, <3>4, <3>5, <4>1, <4>2, CountMoves
    <3> QED
      BY <3>6, <3>7, <3>8
  <2> QED
    BY <2>1 DEF RefsCounted
<1>13. Shape(t)'
  BY <1>1, <1>2, <1>3 DEF Shape, Idle, Walking, Opening
<1>14. \A m \in Node : mem'[m].refs > 0 =>
          /\ mem[m].refs > 0 /\ Survives(m)
          /\ mem'[m].lock = mem[m].lock /\ mem'[m].leaked = mem[m].leaked
          /\ mem'[m].kind = Junk <=> mem[m].kind = Junk
  BY <1>7 DEF Survives
<1>15. mem'[root].refs > 0 /\ ~ mem'[root].hit
  <2>1. root = f \/ root = p => mem[root].refs > 1
    <3>1. 1 \in 0 .. 3 /\ 2 \in 0 .. 3
      OBVIOUS
    <3> QED
      BY <1>2, <1>5, <3>1, RootStays
  <2>2. mem[root].refs \in Nat /\ mem[root].refs > 0 /\ ~ mem[root].hit
    BY <1>2, NodeFacts DEF RootSound
  <2> QED
    BY <1>2, <1>7, <2>1, <2>2
<1>16. PathsFit(t)' /\ KindsRead(t)'
  BY <1>1, <1>3, <1>8 DEF PathsFit, KindsRead, FdPath, FdKinds, Opening
<1>17. Holds(t) = {} /\ Holds(t)' = {}
  BY <1>1 DEF Holds
<1>18. want'[t] = NoWant /\ pc[t] # "loading" /\ (~ Dangling' => Holds(t)' = Holds(t))
       /\ (\A u \in Task \ {t} : u \in ready' <=> u \in ready)
       /\ (~ Dangling' => PathsFit(t)' /\ KindsRead(t)')
       /\ \A u \in Task \ {t} : fd[u] # NULL /\ mem'[fd[u]].refs > 0 =>
             mem'[fd[u]].parent = mem[fd[u]].parent
  BY <1>1, <1>11, <1>16, <1>17
<1> QED
  BY <1>1, <1>9, <1>10, <1>12, <1>13, <1>14, <1>15, <1>18, MoveFree

\* fd_table_clone counts the inode and its parent for the child.
LEMMA CloneStep ==
    ASSUME IInv, ~ Dangling, NEW t \in Task, NEW child \in Task, Clone(t, child)
    PROVE  IInv'
<1> DEFINE f == fd[t]
           p == mem[f].parent
           S == {f, p} \ {NULL}
<1>1. /\ want[child] = NoWant /\ pc[child] = "user" /\ f # NULL /\ fd[child] = NULL
      /\ \A n \in S : mem[n].refs < MaxRefs
      /\ mem' = [n \in Node |-> IF n \in S THEN [mem[n] EXCEPT !.refs = @ + 1] ELSE mem[n]]
      /\ fd' = [fd EXCEPT ![child] = f]
      /\ pc' = pc /\ cpu' = cpu /\ ready' = ready
      /\ disk' = disk /\ call' = call /\ at' = at /\ loaded' = loaded /\ want' = want
  BY DEF Clone, At, CloneCounts
<1>2. /\ TypeOK /\ Shape(child) /\ RootSound /\ RefsCounted /\ NULL \notin Node
      /\ mem \in [Node -> Inode] /\ root \in Node
  BY WantFacts, TreeAssumption DEF IInv, TypeOK, root, Node
<1>3. loaded[child] = << >> /\ at[child] = NULL /\ Len(loaded[child]) = 0
  BY <1>1, <1>2, TaskFacts DEF Shape, Idle
<1>4. f \in Node /\ p \in Node \cup {NULL} /\ p # f
  <2>1. f \in Node /\ (p # NULL => p # f)
    BY <1>1, FdFacts
  <2> QED
    BY <1>2, <2>1, NodeFacts
<1>5. FdPath(t) /\ FdKinds(t)
  BY DEF IInv, Sound, PathsFit, KindsRead
<1>6. /\ f # NULL =>
            \/ mem[f].path = << >> /\ p = NULL
            \/ /\ mem[f].path # << >> /\ p # NULL
               /\ mem[p].path = First(mem[f].path, Len(mem[f].path) - 1)
      /\ f # NULL => mem[f].kind \in {"file", "dir"} /\ (p # NULL => mem[p].kind # Junk)
  BY <1>5 DEF FdPath, FdKinds
<1>7. \A n \in Node : n \in S <=> n = f \/ n = p
  BY <1>2
<1>8. p = mem[f].parent
  OBVIOUS
<1> HIDE DEF f, p, S
<1>9. /\ mem' \in [Node -> Inode]
      /\ \A n \in Node :
            /\ n # f /\ n # p => mem'[n].refs = mem[n].refs
            /\ n = f \/ n = p => mem'[n].refs = mem[n].refs + 1
            /\ mem'[n].hit = mem[n].hit
            /\ mem'[n].path = mem[n].path /\ mem'[n].kind = mem[n].kind
            /\ mem'[n].parent = mem[n].parent
            /\ mem'[n].lock = mem[n].lock /\ mem'[n].leaked = mem[n].leaked
  <2>1. ASSUME NEW n \in Node
        PROVE  /\ mem'[n] \in Inode
               /\ n # f /\ n # p => mem'[n].refs = mem[n].refs
               /\ n = f \/ n = p => mem'[n].refs = mem[n].refs + 1
               /\ mem'[n].hit = mem[n].hit
               /\ mem'[n].path = mem[n].path /\ mem'[n].kind = mem[n].kind
               /\ mem'[n].parent = mem[n].parent
               /\ mem'[n].lock = mem[n].lock /\ mem'[n].leaked = mem[n].leaked
    <3> DEFINE o == mem[n]
               k == o.refs + 1
    <3>1. o \in Inode /\ o.refs \in Nat /\ MaxRefs \in Nat
      BY <1>2, NodeFacts, TreeAssumption
    <3>2. CASE n = f \/ n = p
      <4>1. n \in S
        BY <1>7, <3>2
      <4>2. mem'[n] = [o EXCEPT !.refs = k]
        BY <1>1, <4>1
      <4>3. o.refs < MaxRefs
        BY <1>1, <4>1
      <4>4. k \in 0 .. MaxRefs /\ k = o.refs + 1
        BY <3>1, <4>3
      <4> HIDE DEF o, k
      <4>5. /\ mem'[n] \in Inode /\ mem'[n].refs = k /\ mem'[n].hit = o.hit
            /\ mem'[n].path = o.path /\ mem'[n].kind = o.kind
            /\ mem'[n].parent = o.parent /\ mem'[n].lock = o.lock
            /\ mem'[n].leaked = o.leaked
        BY <3>1, <4>2, <4>4 DEF Inode
      <4> QED
        BY <3>2, <4>4, <4>5 DEF o
    <3>3. CASE n # f /\ n # p
      <4>1. mem'[n] = mem[n]
        BY <1>1, <1>7, <3>3
      <4> QED
        BY <3>1, <3>3, <4>1
    <3> QED
      BY <3>2, <3>3
  <2>2. mem' = [n \in Node |-> mem'[n]]
    BY <1>1
  <2>3. mem' \in [Node -> Inode]
    BY <2>1, <2>2
  <2> QED
    BY <2>1, <2>3
<1>10. /\ fd' \in [Task -> Node \cup {NULL}] /\ fd'[child] = f
       /\ \A u \in Task \ {child} : fd'[u] = fd[u]
  BY <1>1, <1>2, <1>4 DEF TypeOK
<1>11. TypeOK'
  BY <1>1, <1>2, <1>9, <1>10 DEF TypeOK
<1>12. \A u \in Task \ {child} : Same(u)
  BY <1>1, <1>10 DEF Same
<1>13. \A u \in Task : fd[u] # NULL => mem'[fd[u]].parent = mem[fd[u]].parent
  BY <1>2, <1>9, TaskFacts
<1>14. RefsCounted'
  <2>1. ASSUME NEW n \in Node PROVE CountFits(n)'
    <3>1. /\ Points(child, 0, n)' => Points(child, 0, n)
          /\ Points(child, 1, n)' => n = f
          /\ Points(child, 2, n)' => n = p
          /\ Points(child, 3, n)' => Points(child, 3, n)
      BY <1>1, <1>4, <1>8, <1>9, <1>10 DEF Points
    <3>2. /\ mem'[n].hit <=> mem[n].hit
          /\ mem'[n].refs \in Nat /\ mem[n].refs \in Nat
      <4>1. mem'[n].refs \in {mem[n].refs, mem[n].refs + 1} /\ mem'[n].hit = mem[n].hit
        BY <1>9
      <4> QED
        BY <1>2, <4>1, NodeFacts
    <3>3. CountFits(n)
      BY <1>2 DEF RefsCounted
    <3>4. \A u \in Task \ {child} :
              fd[u] # NULL => mem'[fd[u]].parent \in {mem[fd[u]].parent, NULL}
      BY <1>13
    <3>5. CASE n # f /\ n # p
      <4>1. mem'[n].refs >= mem[n].refs /\ 0 \in 0 .. 3
        BY <1>9, <3>2, <3>5
      <4>2. \A i \in 0 .. 3 : Points(child, i, n)' => Points(child, i, n)
        BY <3>1, <3>5
      <4> QED
        BY <1>2, <1>12, <3>2, <3>3, <3>4, <4>1, <4>2, CountMoves
    <3>6. CASE n = f
      <4>1. mem'[n].refs = mem[n].refs + 1 /\ 1 \in 0 .. 3
        BY <1>9, <3>6
      <4>2. \A i \in (0 .. 3) \ {1} : Points(child, i, n)' => Points(child, i, n)
        BY <1>4, <3>1, <3>6
      <4> QED
        BY <1>2, <1>12, <3>2, <3>3, <3>4, <4>1, <4>2, CountMoves
    <3>7. CASE n = p
      <4>1. mem'[n].refs = mem[n].refs + 1 /\ 2 \in 0 .. 3
        BY <1>9, <3>7
      <4>2. \A i \in (0 .. 3) \ {2} : Points(child, i, n)' => Points(child, i, n)
        BY <1>4, <3>1, <3>7
      <4> QED
        BY <1>2, <1>12, <3>2, <3>3, <3>4, <4>1, <4>2, CountMoves
    <3> QED
      BY <3>5, <3>6, <3>7
  <2> QED
    BY <2>1 DEF RefsCounted
<1>15. Shape(child)'
  BY <1>1, <1>2, <1>3 DEF Shape, Idle, Walking, Opening
<1>16. f \in inodelist /\ (p # NULL => p \in inodelist)
  <2>1. fd[t] # NULL
    BY <1>1 DEF f
  <2> QED
    BY <2>1, FdFacts DEF f, p
<1>17. \A m \in Node : mem'[m].refs > 0 =>
          /\ mem[m].refs > 0 /\ Survives(m)
          /\ mem'[m].lock = mem[m].lock /\ mem'[m].leaked = mem[m].leaked
          /\ mem'[m].kind = Junk <=> mem[m].kind = Junk
  <2>1. \A m \in Node : mem'[m].refs > 0 => mem[m].refs > 0
    BY <1>2, <1>9, <1>16 DEF inodelist
  <2> QED
    BY <1>9, <2>1 DEF Survives
<1>18. mem'[root].refs > 0 /\ ~ mem'[root].hit
  <2>1. mem[root].refs \in Nat /\ mem[root].refs > 0 /\ ~ mem[root].hit
    BY <1>2, NodeFacts DEF RootSound
  <2> QED
    BY <1>2, <1>9, <2>1
<1>19. PathsFit(child)' /\ KindsRead(child)'
  <2>1. mem'[f].parent = p
    BY <1>4, <1>8, <1>9
  <2>2. FdPath(child)' /\ FdKinds(child)'
    BY <1>1, <1>4, <1>6, <1>9, <1>10, <2>1 DEF FdPath, FdKinds
  <2> QED
    BY <1>1, <1>3, <2>2 DEF PathsFit, KindsRead, Opening
<1>20. Holds(child) = {} /\ Holds(child)' = {}
  BY <1>1 DEF Holds
<1>21. want'[child] = NoWant /\ pc[child] # "loading"
       /\ (~ Dangling' => Holds(child)' = Holds(child))
       /\ (\A u \in Task \ {child} : u \in ready' <=> u \in ready)
       /\ (~ Dangling' => PathsFit(child)' /\ KindsRead(child)')
       /\ \A u \in Task \ {child} : fd[u] # NULL /\ mem'[fd[u]].refs > 0 =>
             mem'[fd[u]].parent = mem[fd[u]].parent
  BY <1>1, <1>13, <1>19, <1>20
<1> QED
  BY <1>1, <1>11, <1>12, <1>14, <1>15, <1>17, <1>18, <1>21, MoveFree

\* fs_node_open has its inode, and closes those above the parent of its parent.
LEMMA ReachedStep ==
    ASSUME IInv, ~ Dangling, NEW t \in Task, Reached(t)
    PROVE  IInv'
<1> DEFINE s == loaded[t]
           L == Len(s)
           keep == IF L > 2 THEN 2 ELSE L
           rest == SubSeq(s, 1, L - keep)
           kept == SubSeq(s, Len(rest) + 1, L)
           label == "lockgparent"
           r == L - keep
           D == 1 .. r
           path == call[t].path
           above(n) == \E i \in D : s[i] = n
<1>1. /\ want[t] = NoWant /\ pc[t] = "loop" /\ mem[at[t]].path = path
      /\ mem' = Closed(mem, rest) /\ loaded' = [loaded EXCEPT ![t] = kept]
      /\ pc' = [pc EXCEPT ![t] = label] /\ cpu' = t
      /\ disk' = disk /\ call' = call /\ at' = at /\ want' = want
      /\ fd' = fd /\ ready' = ready
  BY DEF Reached, At, Goto
<1>2. /\ TypeOK /\ Shape(t) /\ RootSound /\ RefsCounted /\ NULL \notin Node
      /\ mem \in [Node -> Inode] /\ root \in Node /\ PathsFit(t) /\ KindsRead(t)
  BY WantFacts, TreeAssumption DEF IInv, TypeOK, root, Node, Sound
<1>3. pc[t] \in Walking /\ pc[t] \notin Idle /\ pc[t] \notin Opening
  BY <1>1 DEF Walking, Idle, Opening
<1>4. /\ s \in Seq(Node) /\ L \in Nat /\ path \in Path /\ Len(path) \in Nat
      /\ \A i \in 1 .. L : s[i] \in Node
  BY <1>2, TaskFacts
<1>5. /\ Base(t) = 0 /\ L <= Len(path)
      /\ \A i, j \in 1 .. L : s[i] = s[j] => i = j
      /\ Len(mem[at[t]].path) = 0 + L
  BY <1>1, <1>3, WalkFacts
<1>6. L = Len(path)
  BY <1>1, <1>4, <1>5
<1>7. /\ r \in Nat /\ r <= L /\ keep \in Nat /\ r + keep = L /\ keep <= 2
      /\ keep = IF Len(path) > 2 THEN 2 ELSE Len(path)
      /\ \A i \in 1 .. r : i \in 1 .. L
      /\ \A i \in 1 .. keep : r + i \in 1 .. L
  <2>2. L \in Nat /\ keep = (IF L > 2 THEN 2 ELSE L) /\ r = L - keep
    BY <1>4
  <2> HIDE DEF keep, r, L
  <2>3. r \in Nat /\ r <= L /\ keep \in Nat /\ r + keep = L /\ keep <= 2
    BY <2>2
  <2>4. \A i \in 1 .. keep : r + i \in 1 .. L
    BY <2>2, <2>3
  <2>5. \A i \in 1 .. r : i \in 1 .. L
    BY <2>2, <2>3
  <2> QED
    BY <1>6, <2>2, <2>3, <2>4, <2>5
<1>8. /\ Len(rest) = r /\ rest \in [D -> Node \cup {NULL}]
      /\ \A i \in D : rest[i] = s[i]
  <2>1. /\ r \in Nat /\ 1 \in Int /\ r \in Int /\ \A i \in 1 .. r : s[i] \in Node
    BY <1>4, <1>7
  <2>2. rest = SubSeq(s, 1, r) /\ D = 1 .. r
    OBVIOUS
  <2> HIDE DEF s, r, rest, D
  <2>3. /\ rest \in Seq(Node) /\ Len(rest) = (IF 1 <= r THEN r - 1 + 1 ELSE 0)
        /\ \A i \in 1 .. r - 1 + 1 : rest[i] = s[1 + i - 1]
    BY <2>1, <2>2, SubSeqProperties
  <2>4. Len(rest) = r /\ \A i \in D : rest[i] = s[i]
    BY <2>1, <2>2, <2>3
  <2>5. rest \in [1 .. Len(rest) -> Node]
    BY <2>3, LenProperties
  <2> QED
    BY <2>2, <2>4, <2>5
<1>9. /\ kept \in Seq(Node) /\ Len(kept) = keep
      /\ \A i \in 1 .. keep : kept[i] = s[r + i]
  <2>1. /\ r \in Nat /\ L \in Nat /\ r + keep = L /\ keep \in Nat
        /\ r + 1 \in Int /\ L \in Int /\ \A i \in r + 1 .. L : s[i] \in Node
    BY <1>4, <1>7
  <2>2. kept = SubSeq(s, r + 1, L)
    BY <1>8
  <2> HIDE DEF keep, rest, kept, r, L, s
  <2>3. /\ kept \in Seq(Node)
        /\ Len(kept) = IF r + 1 <= L THEN L - (r + 1) + 1 ELSE 0
        /\ \A i \in 1 .. L - (r + 1) + 1 : kept[i] = s[r + 1 + i - 1]
    BY <2>1, <2>2, SubSeqProperties
  <2> QED
    BY <2>1, <2>3
<1> HIDE DEF L, keep, rest, kept, r
<1>10. \A i, j \in D : rest[i] = rest[j] => i = j
  <2>1. \A i \in D : i \in 1 .. L
    BY <1>7
  <2> HIDE DEF D
  <2> QED
    BY <1>5, <1>8, <2>1
<1>11. \A n : (\A i \in D : rest[i] # n) <=> ~ above(n)
  BY <1>8
<1> HIDE DEF s, D, path
<1>12. /\ mem' \in [Node -> Inode]
       /\ \A n \in Node :
             /\ ~ above(n) => mem'[n] = mem[n]
             /\ above(n) => mem'[n].refs = IF mem[n].refs > 1 THEN mem[n].refs - 1 ELSE 0
             /\ mem'[n].hit = mem[n].hit /\ mem'[n].refs \in Nat
             /\ mem'[n].parent \in {mem[n].parent, NULL}
             /\ mem'[n].refs > 0 =>
                   /\ mem[n].refs > 0 /\ mem'[n].path = mem[n].path
                   /\ mem'[n].kind = mem[n].kind /\ mem'[n].parent = mem[n].parent
                   /\ mem'[n].lock = mem[n].lock /\ mem'[n].leaked = mem[n].leaked
  <2> DEFINE m == Closed(mem, rest)
  <2>1. /\ m \in [Node -> Inode]
        /\ \A n \in Node :
              /\ (\A i \in D : rest[i] # n) => m[n] = mem[n]
              /\ (\E i \in D : rest[i] = n) =>
                    m[n].refs = IF mem[n].refs > 1 THEN mem[n].refs - 1 ELSE 0
              /\ m[n].hit = mem[n].hit
              /\ m[n].parent \in {mem[n].parent, NULL}
              /\ m[n].refs \in Nat
              /\ m[n].refs > 0 =>
                    /\ mem[n].refs > 0
                    /\ m[n].path = mem[n].path
                    /\ m[n].kind = mem[n].kind
                    /\ m[n].parent = mem[n].parent
                    /\ m[n].lock = mem[n].lock
                    /\ m[n].leaked = mem[n].leaked
    BY <1>2, <1>8, <1>10, ClosedFields, SMTT(30)
  <2>2. mem' = m
    BY <1>1
  <2> HIDE DEF m
  <2>3. ASSUME NEW n \in Node
        PROVE  /\ ~ above(n) => m[n] = mem[n]
               /\ above(n) => m[n].refs = IF mem[n].refs > 1 THEN mem[n].refs - 1 ELSE 0
    <3>1. CASE above(n)
      <4>1. \E i \in D : rest[i] = n
        BY <1>11, <3>1
      <4> QED
        BY <2>1, <3>1, <4>1
    <3>2. CASE ~ above(n)
      <4>1. m[n] = mem[n]
        BY <1>11, <2>1, <3>2
      <4> QED
        BY <3>2, <4>1
    <3> QED
      BY <3>1, <3>2
  <2> QED
    BY <2>1, <2>2, <2>3
<1>13. /\ pc' \in [Task -> Idle \cup Walking \cup Opening] /\ pc'[t] = "lockgparent"
       /\ loaded' \in [Task -> Seq(Node)] /\ loaded'[t] = kept
       /\ \A u \in Task \ {t} : pc'[u] = pc[u] /\ loaded'[u] = loaded[u]
  BY <1>1, <1>2, <1>9 DEF TypeOK, Opening
<1>14. TypeOK'
  BY <1>1, <1>2, <1>12, <1>13 DEF TypeOK
<1>15. \A u \in Task \ {t} : Same(u)
  BY <1>1, <1>13 DEF Same
<1>16. \A u \in Task : fd[u] # NULL =>
          /\ mem'[fd[u]].parent \in {mem[fd[u]].parent, NULL}
          /\ mem'[fd[u]].refs > 0 => mem'[fd[u]].parent = mem[fd[u]].parent
  BY <1>2, <1>12, TaskFacts
<1>17. ASSUME NEW n \in Node
       PROVE  /\ Points(t, 3, n)' => Points(t, 3, n) /\ ~ above(n)
              /\ above(n) => Points(t, 3, n)
  <2>1. above(n) => Points(t, 3, n)
    BY <1>7 DEF Points, D, L, s
  <2>2. ASSUME Points(t, 3, n)' PROVE Points(t, 3, n) /\ ~ above(n)
    <3>1. PICK j \in 1 .. keep : kept[j] = n
      BY <1>9, <1>13, <2>2 DEF Points
    <3>2. r + j \in 1 .. L /\ s[r + j] = n
      BY <1>7, <1>9, <3>1
    <3>3. ASSUME NEW i \in D PROVE s[i] # n
      <4>1. i \in 1 .. L /\ i # r + j
        BY <1>7, <3>1, <3>3 DEF D
      <4> QED
        BY <1>5, <3>2, <4>1
    <3> QED
      BY <3>2, <3>3 DEF Points, L, s
  <2> QED
    BY <2>1, <2>2
<1>18. RefsCounted'
  <2>1. ASSUME NEW n \in Node PROVE CountFits(n)'
    <3>1. \A i \in 0 .. 3 : Points(t, i, n)' => Points(t, i, n)
      <4>1. /\ Points(t, 0, n)' => Points(t, 0, n)
            /\ Points(t, 1, n)' => Points(t, 1, n)
        BY <1>1 DEF Points
      <4>2. Points(t, 2, n)' => Points(t, 2, n)
        BY <1>1, <1>2, <1>16 DEF Points
      <4> QED
        BY <1>17, <4>1, <4>2
    <3>2. /\ mem'[n].hit <=> mem[n].hit
          /\ mem'[n].refs \in Nat /\ mem[n].refs \in Nat /\ 3 \in 0 .. 3
      BY <1>2, <1>12, NodeFacts
    <3>3. CountFits(n)
      BY <1>2 DEF RefsCounted
    <3>4. \A u \in Task \ {t} :
              fd[u] # NULL => mem'[fd[u]].parent \in {mem[fd[u]].parent, NULL}
      BY <1>16
    <3>5. CASE ~ above(n)
      <4>1. mem'[n].refs >= mem[n].refs
        BY <1>12, <3>2, <3>5
      <4> QED
        BY <1>2, <1>15, <3>1, <3>2, <3>3, <3>4, <4>1, CountMoves
    <3>6. CASE above(n)
      <4>1. mem'[n].refs = IF mem[n].refs > 1 THEN mem[n].refs - 1 ELSE 0
        BY <1>12, <3>6
      <4>2. Points(t, 3, n) /\ ~ Points(t, 3, n)'
        BY <1>17, <3>6
      <4> QED
        BY <1>2, <1>15, <3>1, <3>2, <3>3, <3>4, <4>1, <4>2, CountMoves
    <3> QED
      BY <3>5, <3>6
  <2> QED
    BY <2>1 DEF RefsCounted
<1>19. Shape(t)'
  <2>1. Len(loaded'[t]) = IF Len(call'[t].path) > 2 THEN 2 ELSE Len(call'[t].path)
    BY <1>1, <1>7, <1>9, <1>13 DEF path
  <2> QED
    BY <1>1, <1>2, <1>3, <1>13, <2>1 DEF Shape, Idle, Walking, Opening
<1>20. \A m \in Node : mem'[m].refs > 0 =>
          /\ mem[m].refs > 0 /\ Survives(m)
          /\ mem'[m].lock = mem[m].lock /\ mem'[m].leaked = mem[m].leaked
          /\ mem'[m].kind = Junk <=> mem[m].kind = Junk
  BY <1>12 DEF Survives
<1>21. mem'[root].refs > 0 /\ ~ mem'[root].hit
  <2>1. above(root) => mem[root].refs > 1
    <3>1. 3 \in 0 .. 3
      OBVIOUS
    <3> QED
      BY <1>2, <1>17, <3>1, RootStays
  <2>2. mem[root].refs \in Nat /\ mem[root].refs > 0 /\ ~ mem[root].hit
    BY <1>2, NodeFacts DEF RootSound
  <2> QED
    BY <1>2, <1>12, <2>1, <2>2
<1>22. ASSUME ~ Dangling' PROVE PathsFit(t)' /\ KindsRead(t)'
  <2>1. FdPath(t)' /\ FdKinds(t)'
    <3>1. fd[t] # NULL /\ mem'[fd[t]].refs > 0 => mem'[fd[t]].parent = mem[fd[t]].parent
      BY <1>16
    <3>2. fd'[t] = fd[t]
      BY <1>1
    <3> QED
      BY <1>14, <1>20, <1>22, <3>1, <3>2, FdKeeps
  <2>2. Base(t)' = r
    <3>1. pc'[t] \in Opening
      BY <1>13 DEF Opening
    <3>2. Len(path) - keep = r
      BY <1>4, <1>6, <1>7
    <3> QED
      BY <1>1, <1>9, <1>13, <3>1, <3>2 DEF Base, path
  <2>3. /\ at'[t] # NULL => at'[t] \in Node /\ mem'[at'[t]].refs > 0
        /\ \A i \in 1 .. Len(loaded'[t]) :
              loaded'[t][i] \in Node /\ mem'[loaded'[t][i]].refs > 0
    BY <1>2, <1>14, <1>22, PointersAlive
  <2>4. at[t] \in Node /\ at[t] # NULL
    BY <1>2, <1>3 DEF Shape
  <2>5. mem'[at'[t]].path = First(call'[t].path, r + Len(loaded'[t]))
    <3>1. mem'[at'[t]].path = mem[at[t]].path
      BY <1>1, <1>12, <2>3, <2>4
    <3>2. mem[at[t]].path = First(path, 0 + L)
      BY <1>1, <1>2, <1>5 DEF PathsFit, path, L, s
    <3>3. 0 + L = r + Len(loaded'[t])
      <4>1. Len(loaded'[t]) = keep
        BY <1>9, <1>13
      <4> QED
        BY <1>4, <1>7, <4>1
    <3> QED
      BY <1>1, <3>1, <3>2, <3>3 DEF path
  <2>6. ASSUME NEW i \in 1 .. Len(loaded'[t])
        PROVE  /\ mem'[loaded'[t][i]].path = First(call'[t].path, r + i - 1)
               /\ mem'[loaded'[t][i]].kind # Junk
    <3>1. i \in 1 .. keep /\ r + i \in 1 .. L /\ loaded'[t][i] = s[r + i]
      BY <1>7, <1>9, <1>13
    <3>2. /\ mem[s[r + i]].path = First(path, 0 + (r + i) - 1)
          /\ mem[s[r + i]].kind # Junk
      BY <1>2, <1>5, <3>1 DEF PathsFit, KindsRead, path, L, s
    <3>3. 0 + (r + i) - 1 = r + i - 1
      BY <1>7, <3>1
    <3>4. /\ mem'[loaded'[t][i]].path = mem[s[r + i]].path
          /\ mem'[loaded'[t][i]].kind = mem[s[r + i]].kind
      BY <1>12, <2>3, <3>1
    <3> QED
      BY <1>1, <3>2, <3>3, <3>4 DEF path
  <2>7. PathsFit(t)'
    BY <2>1, <2>2, <2>5, <2>6 DEF PathsFit
  <2> QED
    BY <1>13, <2>1, <2>6, <2>7 DEF KindsRead
<1>23. Holds(t) = {} /\ Holds(t)' = {}
  BY <1>1, <1>13 DEF Holds
<1>24. want'[t] = NoWant /\ pc[t] # "loading" /\ (~ Dangling' => Holds(t)' = Holds(t))
       /\ (\A u \in Task \ {t} : u \in ready' <=> u \in ready)
       /\ \A u \in Task \ {t} : fd[u] # NULL /\ mem'[fd[u]].refs > 0 =>
             mem'[fd[u]].parent = mem[fd[u]].parent
  BY <1>1, <1>16, <1>23
<1> QED
  BY <1>1, <1>14, <1>15, <1>18, <1>19, <1>20, <1>21, <1>22, <1>24, MoveFree

\* What the task has while it looks at an inode in fs_node_open.
LEMMA ExamineFacts ==
    ASSUME IInv, ~ Dangling, NEW t \in Task, Examine(t)
    PROVE  /\ TypeOK /\ Shape(t) /\ RootSound /\ RefsCounted /\ NULL \notin Node
           /\ mem \in [Node -> Inode] /\ root \in Node /\ PathsFit(t) /\ KindsRead(t)
           /\ pc[t] = "examine" /\ pc[t] \in Walking /\ pc[t] \notin Idle
           /\ pc[t] \notin Opening /\ Base(t) = 0 /\ want[t] = NoWant
           /\ at[t] \in Node /\ at[t] \in inodelist /\ mem[at[t]].kind # Junk
           /\ loaded[t] \in Seq(Node) /\ Len(loaded[t]) \in Nat
           /\ \A i \in 1 .. Len(loaded[t]) : loaded[t][i] \in Node /\ loaded[t][i] # at[t]
           /\ \A i, j \in 1 .. Len(loaded[t]) : loaded[t][i] = loaded[t][j] => i = j
           /\ Append(loaded[t], at[t]) \in Seq(Node)
           /\ Len(Append(loaded[t], at[t])) = Len(loaded[t]) + 1
           /\ \A i \in 1 .. Len(loaded[t]) : Append(loaded[t], at[t])[i] = loaded[t][i]
           /\ Append(loaded[t], at[t])[Len(loaded[t]) + 1] = at[t]
           /\ Holds(t) = {at[t]}
           /\ KRWLockRelease(mem[at[t]].lock) \in Lock
           /\ ready \cup ReleaseWakes(mem, {at[t]}) \subseteq Task
<1>1. want[t] = NoWant /\ pc[t] = "examine"
  BY DEF Examine, At
<1>2. /\ TypeOK /\ Shape(t) /\ RootSound /\ RefsCounted /\ NULL \notin Node
      /\ mem \in [Node -> Inode] /\ root \in Node /\ PathsFit(t) /\ KindsRead(t)
      /\ want[t].node = NULL
  BY <1>1, WantFacts, TreeAssumption DEF IInv, TypeOK, root, Node, Sound
<1>3. pc[t] \in Walking /\ pc[t] \notin Idle /\ pc[t] \notin Opening
  BY <1>1 DEF Walking, Idle, Opening
<1>4. at[t] \in Node /\ at[t] \in inodelist
  BY <1>2, <1>3, PointerFacts DEF Shape
<1>5. Holds(t) = {at[t]}
  BY <1>1, <1>2, <1>4 DEF Holds
<1>6. mem[at[t]].kind # Junk
  BY <1>1, <1>5, HeldRead
<1>7. /\ loaded[t] \in Seq(Node) /\ Len(loaded[t]) \in Nat
      /\ \A i \in 1 .. Len(loaded[t]) : loaded[t][i] \in Node
  BY <1>2, TaskFacts
<1>8. /\ \A i \in 1 .. Len(loaded[t]) : loaded[t][i] # at[t]
      /\ \A i, j \in 1 .. Len(loaded[t]) : loaded[t][i] = loaded[t][j] => i = j
      /\ Base(t) = 0
  BY <1>1, <1>3, WalkFacts
<1>9. /\ Append(loaded[t], at[t]) \in Seq(Node)
      /\ Len(Append(loaded[t], at[t])) = Len(loaded[t]) + 1
      /\ \A i \in 1 .. Len(loaded[t]) : Append(loaded[t], at[t])[i] = loaded[t][i]
      /\ Append(loaded[t], at[t])[Len(loaded[t]) + 1] = at[t]
  BY <1>4, <1>7, AppendProperties
<1>10. /\ KRWLockRelease(mem[at[t]].lock) \in Lock
       /\ KRWLockReleaseWakes(mem[at[t]].lock) \subseteq Task
  <2>1. "READ" \in {"READ", "WRITE"}
    OBVIOUS
  <2> QED
    BY <1>4, <2>1, LockTypes
<1>11. ready \cup ReleaseWakes(mem, {at[t]}) \subseteq Task
  BY <1>2, <1>10 DEF ReleaseWakes, TypeOK
<1> QED
  BY <1>1, <1>2, <1>3, <1>4, <1>5, <1>6, <1>7, <1>8, <1>9, <1>10, <1>11

\* It is a directory: it goes to loaded, and the child is looked for.
LEMMA ExamineDirectory ==
    ASSUME IInv, ~ Dangling, NEW t \in Task, Examine(t), mem[at[t]].kind = "dir"
    PROVE  IInv'
<1> DEFINE a == at[t]
           s == loaded[t]
           all == Append(s, a)
           L == Len(s)
           ns == {a}
           label == "child"
<1>1. /\ mem' = Released(mem, ns) /\ ready' = ready \cup ReleaseWakes(mem, ns)
      /\ loaded' = [loaded EXCEPT ![t] = all]
      /\ pc' = [pc EXCEPT ![t] = label] /\ cpu' = t
      /\ disk' = disk /\ call' = call /\ at' = at /\ want' = want /\ fd' = fd
  BY DEF Examine, Goto
<1>2. /\ TypeOK /\ Shape(t) /\ RootSound /\ RefsCounted /\ NULL \notin Node
      /\ mem \in [Node -> Inode] /\ root \in Node /\ PathsFit(t) /\ KindsRead(t)
      /\ pc[t] = "examine" /\ pc[t] \in Walking /\ pc[t] \notin Idle
      /\ pc[t] \notin Opening /\ Base(t) = 0 /\ want[t] = NoWant
      /\ a \in Node /\ a \in inodelist /\ mem[a].kind # Junk
      /\ s \in Seq(Node) /\ L \in Nat
      /\ \A i \in 1 .. L : s[i] \in Node /\ s[i] # a
      /\ all \in Seq(Node) /\ Len(all) = L + 1
      /\ \A i \in 1 .. L : all[i] = s[i]
      /\ all[L + 1] = a
      /\ Holds(t) = ns
      /\ \A n \in Node \cap ns : KRWLockRelease(mem[n].lock) \in Lock
      /\ ready \cup ReleaseWakes(mem, ns) \subseteq Task
  BY ExamineFacts
<1>3. ns \in SUBSET Node /\ ns \subseteq inodelist /\ (\A n : n \in ns <=> n = a)
  BY <1>2
<1>4. L < Len(call[t].path) /\ Len(call[t].path) \in Nat
  BY <1>2, TaskFacts DEF Shape
<1>5. mem[a].path = First(call[t].path, 0 + L)
  BY <1>2 DEF PathsFit
<1>6. \A i \in 1 .. L : /\ mem[s[i]].path = First(call[t].path, 0 + i - 1)
                        /\ mem[s[i]].kind # Junk
  BY <1>2 DEF PathsFit, KindsRead
<1>7. \A i \in 1 .. L + 1 : i \in 1 .. L \/ i = L + 1
  BY <1>2
<1>8. a = at[t] /\ L = Len(loaded[t]) /\ s = loaded[t]
  OBVIOUS
<1> HIDE DEF a, s, all, L, ns
<1>9. /\ mem' \in [Node -> Inode]
      /\ \A n \in Node :
            /\ mem'[n].lock = IF n \in ns THEN KRWLockRelease(mem[n].lock) ELSE mem[n].lock
            /\ mem'[n].path = mem[n].path /\ mem'[n].refs = mem[n].refs
            /\ mem'[n].kind = mem[n].kind /\ mem'[n].parent = mem[n].parent
            /\ mem'[n].hit = mem[n].hit /\ mem'[n].leaked = mem[n].leaked
  BY <1>1, <1>2, ReleasedFields
<1>10. /\ pc' \in [Task -> Idle \cup Walking \cup Opening] /\ pc'[t] = "child"
       /\ loaded' \in [Task -> Seq(Node)] /\ loaded'[t] = all
       /\ \A u \in Task \ {t} : pc'[u] = pc[u] /\ loaded'[u] = loaded[u]
  BY <1>1, <1>2 DEF TypeOK, Walking
<1>11. TypeOK'
  BY <1>1, <1>2, <1>9, <1>10 DEF TypeOK
<1>12. \A u \in Task \ {t} : Same(u)
  BY <1>1, <1>10 DEF Same
<1>13. \A u \in Task : fd[u] # NULL => mem'[fd[u]].parent = mem[fd[u]].parent
  BY <1>2, <1>9, TaskFacts
<1>14. RefsCounted'
  <2>1. ASSUME NEW n \in Node PROVE CountFits(n)'
    <3>1. /\ \A i \in (0 .. 3) \ {3} : Points(t, i, n)' => Points(t, i, n)
          /\ ~ Points(t, 0, n)'
      BY <1>1, <1>2, <1>10, <1>13 DEF Points
    <3>2. n # a /\ Points(t, 3, n)' => Points(t, 3, n)
      <4>1. ASSUME n # a, Points(t, 3, n)' PROVE Points(t, 3, n)
        <5>1. PICK j \in 1 .. L + 1 : all[j] = n
          BY <1>2, <1>10, <4>1 DEF Points
        <5>2. j \in 1 .. L /\ s[j] = n
          BY <1>2, <1>7, <4>1, <5>1
        <5> QED
          BY <1>8, <5>2 DEF Points
      <4> QED
        BY <4>1
    <3>3. /\ mem'[n].hit <=> mem[n].hit
          /\ mem'[n].refs \in Nat /\ mem'[n].refs >= mem[n].refs
          /\ 0 \in 0 .. 3 /\ 3 \in 0 .. 3
      <4>1. mem'[n].refs = mem[n].refs /\ mem'[n].hit = mem[n].hit
        BY <1>9
      <4> QED
        BY <1>2, <4>1, NodeFacts
    <3>4. CountFits(n)
      BY <1>2 DEF RefsCounted
    <3>5. \A u \in Task \ {t} :
              fd[u] # NULL => mem'[fd[u]].parent \in {mem[fd[u]].parent, NULL}
      BY <1>13
    <3>6. CASE n = a
      <4>1. Points(t, 0, n)
        BY <1>2, <1>8, <3>6 DEF Points
      <4> QED
        BY <1>2, <1>12, <3>1, <3>3, <3>4, <3>5, <4>1, CountMoves
    <3>7. CASE n # a
      <4>1. \A i \in 0 .. 3 : Points(t, i, n)' => Points(t, i, n)
        BY <3>1, <3>2, <3>7
      <4> QED
        BY <1>2, <1>12, <3>3, <3>4, <3>5, <4>1, CountMoves
    <3> QED
      BY <3>6, <3>7
  <2> QED
    BY <2>1 DEF RefsCounted
<1>15. parentOf(t)' = a
  <2>1. all # << >>
    BY <1>2, QueueRange
  <2> QED
    BY <1>2, <1>10, <2>1 DEF parentOf
<1>16. Shape(t)'
  <2>1. Len(loaded'[t]) <= Len(call'[t].path)
    BY <1>1, <1>2, <1>4, <1>10
  <2>2. at'[t] = a /\ at'[t] \in Node
    BY <1>1, <1>2, <1>8
  <2> QED
    BY <1>1, <1>2, <1>10, <1>15, <2>1, <2>2 DEF Shape, Idle, Walking, Opening
<1>17. ASSUME NEW m \in Node, mem'[m].refs > 0
       PROVE  /\ mem[m].refs > 0 /\ Survives(m)
              /\ mem'[m].lock = IF m \in ns THEN KRWLockRelease(mem[m].lock) ELSE mem[m].lock
              /\ mem'[m].leaked = mem[m].leaked
              /\ mem[m].kind = Junk =>
                    mem'[m].kind = Junk \/ (pc[t] = "loading" /\ at[t] = m)
              /\ mem'[m].kind = Junk =>
                    /\ mem[m].kind = Junk /\ m \notin ns
                    /\ pc[t] # "loading" \/ at[t] # m
  BY <1>2, <1>3, <1>9, <1>17 DEF Survives
<1>18. mem'[root].refs > 0 /\ ~ mem'[root].hit
  BY <1>2, <1>9 DEF RootSound
<1>19. ASSUME ~ Dangling' PROVE PathsFit(t)' /\ KindsRead(t)'
  <2>1. FdPath(t)' /\ FdKinds(t)'
    <3>1. fd[t] # NULL /\ mem'[fd[t]].refs > 0 => mem'[fd[t]].parent = mem[fd[t]].parent
      BY <1>13
    <3>2. fd'[t] = fd[t]
      BY <1>1
    <3> QED
      BY <1>11, <1>17, <1>19, <3>1, <3>2, FdKeeps
  <2>2. Base(t)' = 0
    BY <1>10 DEF Base, Opening
  <2>3. ASSUME NEW i \in 1 .. L + 1
        PROVE  /\ mem'[all[i]].path = First(call[t].path, 0 + i - 1)
               /\ mem'[all[i]].kind # Junk
    <3>1. CASE i = L + 1
      <4>1. 0 + i - 1 = 0 + L /\ all[i] = a
        BY <1>2, <3>1
      <4> QED
        BY <1>2, <1>5, <1>9, <4>1
    <3>2. CASE i \in 1 .. L
      BY <1>2, <1>6, <1>9, <3>2
    <3> QED
      BY <1>7, <3>1, <3>2
  <2>4. \A i \in 1 .. Len(loaded'[t]) :
           /\ mem'[loaded'[t][i]].path = First(call'[t].path, 0 + i - 1)
           /\ mem'[loaded'[t][i]].kind # Junk
    BY <1>1, <1>2, <1>10, <2>3
  <2>5. PathsFit(t)'
    BY <1>10, <2>1, <2>2, <2>4 DEF PathsFit, Opening
  <2> QED
    BY <1>10, <2>1, <2>4, <2>5 DEF KindsRead
<1>20. Holds(t)' = {}
  BY <1>10 DEF Holds
<1>21. /\ ns \subseteq Holds(t) /\ (~ Dangling' => Holds(t)' = Holds(t) \ ns)
       /\ want'[t] = NoWant
       /\ \A u \in Task : want[u] # NoWant =>
             (u \in ready' <=> u \in ready \/ u \in ReleaseWakes(mem, ns))
       /\ \A u \in Task \ {t} : fd[u] # NULL /\ mem'[fd[u]].refs > 0 =>
             mem'[fd[u]].parent = mem[fd[u]].parent
  BY <1>1, <1>2, <1>13, <1>20
<1> QED
  BY <1>2, <1>3, <1>11, <1>12, <1>14, <1>16, <1>17, <1>18, <1>19, <1>21, MoveStep

\* It is no directory: the open fails, and closes all it has.
LEMMA ExamineOther ==
    ASSUME IInv, ~ Dangling, NEW t \in Task, Examine(t), mem[at[t]].kind # "dir"
    PROVE  IInv'
<1> DEFINE a == at[t]
           s == loaded[t]
           all == Append(s, a)
           L == Len(s)
           D == 1 .. L + 1
           ns == {a}
           m == Released(mem, ns)
           mine(n) == \E i \in D : all[i] = n
           label == "user"
           empty == << >>
<1>1. /\ mem' = Closed(m, all) /\ ready' = ready \cup ReleaseWakes(mem, ns)
      /\ loaded' = [loaded EXCEPT ![t] = empty]
      /\ at' = [at EXCEPT ![t] = NULL] /\ call' = [call EXCEPT ![t] = NoCall]
      /\ pc' = [pc EXCEPT ![t] = label] /\ cpu' = NULL
      /\ disk' = disk /\ want' = want /\ fd' = fd
  BY DEF Examine, Goto, Return
<1>2. /\ TypeOK /\ Shape(t) /\ RootSound /\ RefsCounted /\ NULL \notin Node
      /\ mem \in [Node -> Inode] /\ root \in Node
      /\ pc[t] = "examine" /\ pc[t] \in Walking /\ pc[t] \notin Idle
      /\ want[t] = NoWant
      /\ a \in Node /\ a \in inodelist /\ mem[a].kind # Junk
      /\ s \in Seq(Node) /\ L \in Nat
      /\ \A i \in 1 .. L : s[i] \in Node /\ s[i] # a
      /\ \A i, j \in 1 .. L : s[i] = s[j] => i = j
      /\ all \in Seq(Node) /\ Len(all) = L + 1
      /\ \A i \in 1 .. L : all[i] = s[i]
      /\ all[L + 1] = a
      /\ Holds(t) = ns
      /\ \A n \in Node \cap ns : KRWLockRelease(mem[n].lock) \in Lock
      /\ ready \cup ReleaseWakes(mem, ns) \subseteq Task
  BY ExamineFacts
<1>3. ns \in SUBSET Node /\ ns \subseteq inodelist /\ (\A n : n \in ns <=> n = a)
  BY <1>2
<1>4. NoCall \in Call
  BY TreeAssumption DEF NoCall, CallOf, Call
<1>5. \A i \in D : i \in 1 .. L \/ i = L + 1
  BY <1>2
<1>6. L + 1 \in D /\ \A i \in 1 .. L : i \in D
  BY <1>2
<1>7. a = at[t] /\ L = Len(loaded[t]) /\ s = loaded[t]
  OBVIOUS
<1>8. all \in [D -> Node \cup {NULL}]
  <2>1. all \in [1 .. Len(all) -> Node]
    BY <1>2, LenProperties
  <2> QED
    BY <1>2, <2>1
<1> HIDE DEF a, s, all, L, ns, D, m, empty
<1>9. \A i, j \in D : all[i] = all[j] => i = j
  BY <1>2, <1>5
<1>10. /\ m \in [Node -> Inode]
       /\ \A n \in Node :
             /\ m[n].lock = IF n \in ns THEN KRWLockRelease(mem[n].lock) ELSE mem[n].lock
             /\ m[n].path = mem[n].path /\ m[n].refs = mem[n].refs
             /\ m[n].kind = mem[n].kind /\ m[n].parent = mem[n].parent
             /\ m[n].hit = mem[n].hit /\ m[n].leaked = mem[n].leaked
  BY <1>2, ReleasedFields DEF m
<1>11. /\ mem' \in [Node -> Inode]
       /\ \A n \in Node :
             /\ ~ mine(n) => mem'[n].refs = mem[n].refs
             /\ mine(n) => mem'[n].refs = IF mem[n].refs > 1 THEN mem[n].refs - 1 ELSE 0
             /\ mem'[n].hit = mem[n].hit /\ mem'[n].refs \in Nat
             /\ mem'[n].parent \in {mem[n].parent, NULL}
             /\ mem'[n].refs > 0 =>
                   /\ mem[n].refs > 0 /\ mem'[n].path = mem[n].path
                   /\ mem'[n].kind = mem[n].kind /\ mem'[n].parent = mem[n].parent
                   /\ mem'[n].lock = IF n \in ns THEN KRWLockRelease(mem[n].lock)
                                     ELSE mem[n].lock
                   /\ mem'[n].leaked = mem[n].leaked
  <2> DEFINE c == Closed(m, all)
  <2>1. /\ c \in [Node -> Inode]
        /\ \A n \in Node :
              /\ (\A i \in D : all[i] # n) => c[n] = m[n]
              /\ (\E i \in D : all[i] = n) =>
                    c[n].refs = IF m[n].refs > 1 THEN m[n].refs - 1 ELSE 0
              /\ c[n].hit = m[n].hit
              /\ c[n].parent \in {m[n].parent, NULL}
              /\ c[n].refs \in Nat
              /\ c[n].refs > 0 =>
                    /\ m[n].refs > 0
                    /\ c[n].path = m[n].path
                    /\ c[n].kind = m[n].kind
                    /\ c[n].parent = m[n].parent
                    /\ c[n].lock = m[n].lock
                    /\ c[n].leaked = m[n].leaked
    BY <1>8, <1>9, <1>10, ClosedFields
  <2>2. mem' = c
    BY <1>1
  <2> HIDE DEF c
  <2>3. ASSUME NEW n \in Node
        PROVE  /\ ~ mine(n) => c[n].refs = m[n].refs
               /\ mine(n) => c[n].refs = IF m[n].refs > 1 THEN m[n].refs - 1 ELSE 0
    <3>1. CASE mine(n)
      BY <2>1, <3>1
    <3>2. CASE ~ mine(n)
      <4>1. c[n] = m[n]
        BY <2>1, <3>2
      <4> QED
        BY <3>2, <4>1
    <3> QED
      BY <3>1, <3>2
  <2> QED
    BY <1>10, <2>1, <2>2, <2>3
<1>12. /\ pc' \in [Task -> Idle \cup Walking \cup Opening] /\ pc'[t] = "user"
       /\ loaded' \in [Task -> Seq(Node)] /\ loaded'[t] = << >>
       /\ at' \in [Task -> Node \cup {NULL}] /\ at'[t] = NULL
       /\ call' \in [Task -> Call] /\ call'[t] = NoCall
       /\ \A u \in Task \ {t} : /\ pc'[u] = pc[u] /\ loaded'[u] = loaded[u]
                                /\ at'[u] = at[u] /\ call'[u] = call[u]
  <2>1. empty \in Seq(Node) /\ empty = << >>
    BY EmptySeq DEF empty
  <2> QED
    BY <1>1, <1>2, <1>4, <2>1 DEF TypeOK, Idle
<1>13. TypeOK'
  BY <1>1, <1>2, <1>11, <1>12 DEF TypeOK
<1>14. \A u \in Task \ {t} : Same(u)
  BY <1>1, <1>12 DEF Same
<1>15. \A u \in Task : fd[u] # NULL =>
          /\ mem'[fd[u]].parent \in {mem[fd[u]].parent, NULL}
          /\ mem'[fd[u]].refs > 0 => mem'[fd[u]].parent = mem[fd[u]].parent
  BY <1>2, <1>11, TaskFacts
<1>16. Len(loaded'[t]) = 0
  BY <1>12, EmptySeq
<1>17. ASSUME NEW n \in Node
       PROVE  /\ ~ Points(t, 0, n)' /\ ~ Points(t, 3, n)'
              /\ mine(n) => Points(t, 0, n) \/ Points(t, 3, n)
  <2>1. ~ Points(t, 0, n)' /\ ~ Points(t, 3, n)'
    BY <1>2, <1>12, <1>16 DEF Points
  <2>2. ASSUME mine(n) PROVE Points(t, 0, n) \/ Points(t, 3, n)
    <3>1. PICK i \in D : all[i] = n
      BY <2>2
    <3>2. CASE i = L + 1
      <4>1. n = at[t]
        BY <1>2, <1>7, <3>1, <3>2
      <4> QED
        BY <1>2, <4>1 DEF Points
    <3>3. CASE i \in 1 .. L
      <4>1. s[i] = n
        BY <1>2, <3>1, <3>3
      <4> QED
        BY <1>7, <3>3, <4>1 DEF Points
    <3> QED
      BY <1>5, <3>2, <3>3
  <2> QED
    BY <2>1, <2>2
<1>18. RefsCounted'
  <2>1. ASSUME NEW n \in Node PROVE CountFits(n)'
    <3>1. \A i \in 0 .. 3 : Points(t, i, n)' => Points(t, i, n)
      <4>1. Points(t, 1, n)' => Points(t, 1, n)
        BY <1>1 DEF Points
      <4>2. Points(t, 2, n)' => Points(t, 2, n)
        BY <1>1, <1>2, <1>15 DEF Points
      <4> QED
        BY <1>17, <4>1, <4>2
    <3>2. /\ mem'[n].hit <=> mem[n].hit
          /\ mem'[n].refs \in Nat /\ mem[n].refs \in Nat
          /\ 0 \in 0 .. 3 /\ 3 \in 0 .. 3
      BY <1>2, <1>11, NodeFacts
    <3>3. CountFits(n)
      BY <1>2 DEF RefsCounted
    <3>4. \A u \in Task \ {t} :
              fd[u] # NULL => mem'[fd[u]].parent \in {mem[fd[u]].parent, NULL}
      BY <1>15
    <3>5. CASE ~ mine(n)
      <4>1. mem'[n].refs >= mem[n].refs
        BY <1>11, <3>2, <3>5
      <4> QED
        BY <1>2, <1>14, <3>1, <3>2, <3>3, <3>4, <4>1, CountMoves
    <3>6. CASE mine(n) /\ Points(t, 0, n)
      <4>1. mem'[n].refs = IF mem[n].refs > 1 THEN mem[n].refs - 1 ELSE 0
        BY <1>11, <3>6
      <4>2. Points(t, 0, n) /\ ~ Points(t, 0, n)'
        BY <1>17, <3>6
      <4> QED
        BY <1>2, <1>14, <3>1, <3>2, <3>3, <3>4, <4>1, <4>2, CountMoves
    <3>7. CASE mine(n) /\ Points(t, 3, n)
      <4>1. mem'[n].refs = IF mem[n].refs > 1 THEN mem[n].refs - 1 ELSE 0
        BY <1>11, <3>7
      <4>2. Points(t, 3, n) /\ ~ Points(t, 3, n)'
        BY <1>17, <3>7
      <4> QED
        BY <1>2, <1>14, <3>1, <3>2, <3>3, <3>4, <4>1, <4>2, CountMoves
    <3> QED
      BY <1>17, <3>5, <3>6, <3>7
  <2> QED
    BY <2>1 DEF RefsCounted
<1>19. Shape(t)'
  BY <1>1, <1>2, <1>12 DEF Shape, Idle, Walking, Opening
<1>20. ASSUME NEW n \in Node, mem'[n].refs > 0
       PROVE  /\ mem[n].refs > 0 /\ Survives(n)
              /\ mem'[n].lock = IF n \in ns THEN KRWLockRelease(mem[n].lock) ELSE mem[n].lock
              /\ mem'[n].leaked = mem[n].leaked
              /\ mem[n].kind = Junk =>
                    mem'[n].kind = Junk \/ (pc[t] = "loading" /\ at[t] = n)
              /\ mem'[n].kind = Junk =>
                    /\ mem[n].kind = Junk /\ n \notin ns
                    /\ pc[t] # "loading" \/ at[t] # n
  BY <1>2, <1>3, <1>11, <1>20 DEF Survives
<1>21. mem'[root].refs > 0 /\ ~ mem'[root].hit
  <2>1. mine(root) => mem[root].refs > 1
    <3>1. 0 \in 0 .. 3 /\ 3 \in 0 .. 3
      OBVIOUS
    <3>2. mine(root) => Points(t, 0, root) \/ Points(t, 3, root)
      BY <1>2, <1>17
    <3> QED
      BY <3>1, <3>2, RootStays
  <2>2. mem[root].refs \in Nat /\ mem[root].refs > 0 /\ ~ mem[root].hit
    BY <1>2, NodeFacts DEF RootSound
  <2> QED
    BY <1>2, <1>11, <2>1, <2>2
<1>22. ASSUME ~ Dangling' PROVE PathsFit(t)' /\ KindsRead(t)'
  <2>1. FdPath(t)' /\ FdKinds(t)'
    <3>1. fd[t] # NULL /\ mem'[fd[t]].refs > 0 => mem'[fd[t]].parent = mem[fd[t]].parent
      BY <1>15
    <3>2. fd'[t] = fd[t]
      BY <1>1
    <3> QED
      BY <1>13, <1>20, <1>22, <3>1, <3>2, FdKeeps
  <2> QED
    BY <1>12, <1>16, <2>1 DEF PathsFit, KindsRead, Opening
<1>23. Holds(t)' = {}
  BY <1>12 DEF Holds
<1>24. /\ ns \subseteq Holds(t) /\ (~ Dangling' => Holds(t)' = Holds(t) \ ns)
       /\ want'[t] = NoWant
       /\ \A u \in Task : want[u] # NoWant =>
             (u \in ready' <=> u \in ready \/ u \in ReleaseWakes(mem, ns))
       /\ \A u \in Task \ {t} : fd[u] # NULL /\ mem'[fd[u]].refs > 0 =>
             mem'[fd[u]].parent = mem[fd[u]].parent
  BY <1>1, <1>2, <1>15, <1>23
<1> QED
  BY <1>2, <1>3, <1>13, <1>14, <1>18, <1>19, <1>20, <1>21, <1>22, <1>24, MoveStep

\* fs_node_close of one inode.
LEMMA ClosedOne ==
    ASSUME NEW m \in [Node -> Inode], NEW x \in Node \cup {NULL}
    PROVE  /\ Closed(m, << x >>) \in [Node -> Inode]
           /\ \A n \in Node :
                 /\ n # x => Closed(m, << x >>)[n] = m[n]
                 /\ n = x =>
                       Closed(m, << x >>)[n].refs = IF m[n].refs > 1 THEN m[n].refs - 1 ELSE 0
                 /\ Closed(m, << x >>)[n].hit = m[n].hit
                 /\ Closed(m, << x >>)[n].parent \in {m[n].parent, NULL}
                 /\ Closed(m, << x >>)[n].refs \in Nat
                 /\ Closed(m, << x >>)[n].refs > 0 =>
                       /\ m[n].refs > 0
                       /\ Closed(m, << x >>)[n].path = m[n].path
                       /\ Closed(m, << x >>)[n].kind = m[n].kind
                       /\ Closed(m, << x >>)[n].parent = m[n].parent
                       /\ Closed(m, << x >>)[n].lock = m[n].lock
                       /\ Closed(m, << x >>)[n].leaked = m[n].leaked
<1> DEFINE ns == << x >>
           D == 1 .. 1
           c == Closed(m, ns)
<1>1. /\ ns \in [D -> Node \cup {NULL}] /\ \A i, j \in D : ns[i] = ns[j] => i = j
      /\ \A n : n # x => \A i \in D : ns[i] # n
      /\ \A n : n = x => \E i \in D : ns[i] = n
  OBVIOUS
<1> HIDE DEF D, ns
<1>2. /\ c \in [Node -> Inode]
      /\ \A n \in Node :
            /\ (\A i \in D : ns[i] # n) => c[n] = m[n]
            /\ (\E i \in D : ns[i] = n) =>
                  c[n].refs = IF m[n].refs > 1 THEN m[n].refs - 1 ELSE 0
            /\ c[n].hit = m[n].hit
            /\ c[n].parent \in {m[n].parent, NULL}
            /\ c[n].refs \in Nat
            /\ c[n].refs > 0 =>
                  /\ m[n].refs > 0
                  /\ c[n].path = m[n].path
                  /\ c[n].kind = m[n].kind
                  /\ c[n].parent = m[n].parent
                  /\ c[n].lock = m[n].lock
                  /\ c[n].leaked = m[n].leaked
  BY <1>1, ClosedFields
<1>3. c = Closed(m, << x >>)
  BY DEF ns
<1> HIDE DEF c
<1>4. ASSUME NEW n \in Node
      PROVE  /\ n # x => c[n] = m[n]
             /\ n = x => c[n].refs = IF m[n].refs > 1 THEN m[n].refs - 1 ELSE 0
  <2>1. CASE n = x
    <3>1. \E i \in D : ns[i] = n
      BY <1>1, <2>1
    <3> QED
      BY <1>2, <2>1, <3>1
  <2>2. CASE n # x
    <3>1. \A i \in D : ns[i] # n
      BY <1>1, <2>2
    <3>2. c[n] = m[n]
      BY <1>2, <3>1
    <3> QED
      BY <2>2, <3>2
  <2> QED
    BY <2>1, <2>2
<1> QED
  BY <1>2, <1>3, <1>4

\* fs_node_close of two.
LEMMA ClosedTwo ==
    ASSUME NEW m \in [Node -> Inode], NEW x \in Node \cup {NULL},
           NEW y \in Node \cup {NULL}, x # y
    PROVE  /\ Closed(m, << x, y >>) \in [Node -> Inode]
           /\ \A n \in Node :
                 /\ (n # x /\ n # y) => Closed(m, << x, y >>)[n] = m[n]
                 /\ (n = x \/ n = y) =>
                       Closed(m, << x, y >>)[n].refs = IF m[n].refs > 1 THEN m[n].refs - 1 ELSE 0
                 /\ Closed(m, << x, y >>)[n].hit = m[n].hit
                 /\ Closed(m, << x, y >>)[n].parent \in {m[n].parent, NULL}
                 /\ Closed(m, << x, y >>)[n].refs \in Nat
                 /\ Closed(m, << x, y >>)[n].refs > 0 =>
                       /\ m[n].refs > 0
                       /\ Closed(m, << x, y >>)[n].path = m[n].path
                       /\ Closed(m, << x, y >>)[n].kind = m[n].kind
                       /\ Closed(m, << x, y >>)[n].parent = m[n].parent
                       /\ Closed(m, << x, y >>)[n].lock = m[n].lock
                       /\ Closed(m, << x, y >>)[n].leaked = m[n].leaked
<1> DEFINE ns == << x, y >>
           D == 1 .. 2
           c == Closed(m, ns)
<1>1. /\ ns \in [D -> Node \cup {NULL}] /\ \A i, j \in D : ns[i] = ns[j] => i = j
      /\ \A n : (n # x /\ n # y) => \A i \in D : ns[i] # n
      /\ \A n : (n = x \/ n = y) => \E i \in D : ns[i] = n
  OBVIOUS
<1> HIDE DEF D, ns
<1>2. /\ c \in [Node -> Inode]
      /\ \A n \in Node :
            /\ (\A i \in D : ns[i] # n) => c[n] = m[n]
            /\ (\E i \in D : ns[i] = n) =>
                  c[n].refs = IF m[n].refs > 1 THEN m[n].refs - 1 ELSE 0
            /\ c[n].hit = m[n].hit
            /\ c[n].parent \in {m[n].parent, NULL}
            /\ c[n].refs \in Nat
            /\ c[n].refs > 0 =>
                  /\ m[n].refs > 0
                  /\ c[n].path = m[n].path
                  /\ c[n].kind = m[n].kind
                  /\ c[n].parent = m[n].parent
                  /\ c[n].lock = m[n].lock
                  /\ c[n].leaked = m[n].leaked
  BY <1>1, ClosedFields
<1>3. c = Closed(m, << x, y >>)
  BY DEF ns
<1> HIDE DEF c
<1>4. ASSUME NEW n \in Node
      PROVE  /\ (n # x /\ n # y) => c[n] = m[n]
             /\ (n = x \/ n = y) => c[n].refs = IF m[n].refs > 1 THEN m[n].refs - 1 ELSE 0
  <2>1. CASE (n = x \/ n = y)
    <3>1. \E i \in D : ns[i] = n
      BY <1>1, <2>1
    <3> QED
      BY <1>2, <2>1, <3>1
  <2>2. CASE (n # x /\ n # y)
    <3>1. \A i \in D : ns[i] # n
      BY <1>1, <2>2
    <3>2. c[n] = m[n]
      BY <1>2, <3>1
    <3> QED
      BY <2>2, <3>2
  <2> QED
    BY <2>1, <2>2
<1> QED
  BY <1>2, <1>3, <1>4

\* What a task has at the end of fs_open.
LEMMA ReturnFacts ==
    ASSUME IInv, ~ Dangling, NEW t \in Task, pc[t] = "opened", want[t] = NoWant
    PROVE  /\ TypeOK /\ Shape(t) /\ RootSound /\ RefsCounted /\ NULL \notin Node
           /\ mem \in [Node -> Inode] /\ root \in Node
           /\ at[t] \in Node /\ at[t] \in inodelist /\ mem[at[t]].kind # Junk
           /\ parentOf(t) \in Node \cup {NULL} /\ gparentOf(t) \in Node \cup {NULL}
           /\ parentOf(t) # at[t] /\ gparentOf(t) # at[t]
           /\ parentOf(t) # NULL => gparentOf(t) # parentOf(t)
           /\ \A n \in Opened(t) : /\ n \in Node /\ n \in inodelist /\ mem[n].kind # Junk
                                   /\ KRWLockRelease(mem[n].lock) \in Lock
           /\ Holds(t) = Opened(t)
           /\ ready \cup ReleaseWakes(mem, Opened(t)) \subseteq Task
           /\ Points(t, 0, at[t])
           /\ parentOf(t) # NULL => Points(t, 3, parentOf(t))
           /\ gparentOf(t) # NULL => Points(t, 3, gparentOf(t))
           /\ \/ mem[at[t]].path = << >> /\ parentOf(t) = NULL
              \/ /\ mem[at[t]].path # << >> /\ parentOf(t) # NULL
                 /\ mem[parentOf(t)].path = First(mem[at[t]].path, Len(mem[at[t]].path) - 1)
           /\ \A u \in Task : fd[u] = at[t] => mem[at[t]].parent = parentOf(t)
<1> DEFINE a == at[t]
           p == parentOf(t)
           g == gparentOf(t)
           s == loaded[t]
           L == Len(s)
           path == call[t].path
<1>1. /\ TypeOK /\ Shape(t) /\ RootSound /\ RefsCounted /\ NULL \notin Node
      /\ mem \in [Node -> Inode] /\ root \in Node /\ PathsFit(t) /\ KindsRead(t)
      /\ want[t].node = NULL /\ PathsUnique
  BY WantFacts, TreeAssumption DEF IInv, TypeOK, root, Node, Sound
<1>2. pc[t] \in Opening /\ pc[t] \notin Idle
  BY DEF Opening, Idle
<1>3. /\ a \in Node /\ a \in inodelist
      /\ p # NULL => p \in inodelist /\ p # a
      /\ g # NULL => g \in inodelist /\ g # a /\ g # p
      /\ p \in Node \cup {NULL} /\ g \in Node \cup {NULL}
  BY <1>2, OpenFacts
<1>4. Holds(t) = Opened(t)
  BY <1>1, <1>3 DEF Holds, Opened
<1>5. \A n \in Opened(t) : n \in Node /\ n \in inodelist /\ mem[n].kind # Junk
  <2>1. \A n \in Holds(t) : mem[n].kind # Junk
    BY HeldRead
  <2>2. \A n \in Opened(t) : n \in Node /\ n \in inodelist
    BY <1>3 DEF Opened
  <2> QED
    BY <1>4, <2>1, <2>2
<1>6. \A n \in Opened(t) : /\ KRWLockRelease(mem[n].lock) \in Lock
                           /\ KRWLockReleaseWakes(mem[n].lock) \subseteq Task
  <2>1. "READ" \in {"READ", "WRITE"}
    OBVIOUS
  <2>2. ASSUME NEW n \in inodelist
        PROVE  /\ KRWLockRelease(mem[n].lock) \in Lock
               /\ KRWLockReleaseWakes(mem[n].lock) \subseteq Task
    BY <2>1, LockTypes
  <2> QED
    BY <1>5, <2>2
<1>7. ready \cup ReleaseWakes(mem, Opened(t)) \subseteq Task
  BY <1>1, <1>6 DEF ReleaseWakes, TypeOK
<1>8. a \in Opened(t)
  BY <1>1, <1>3 DEF Opened
<1>9. Points(t, 0, a)
  BY DEF Points
<1>10. /\ L \in Nat /\ path \in Path /\ Len(path) \in Nat
       /\ p = NULL <=> L = 0
       /\ L # 0 => p = s[L]
       /\ g # NULL => L >= 2 /\ g = s[1]
       /\ L = IF Len(path) > 2 THEN 2 ELSE Len(path)
       /\ \A i \in 1 .. L : s[i] \in Node
  <2>1. L = IF Len(path) > 2 THEN 2 ELSE Len(path)
    BY <1>1, <1>2 DEF Shape
  <2>2. /\ L \in Nat /\ (s = << >> <=> L = 0) /\ (p = NULL <=> s = << >>)
        /\ s # << >> => p = s[L]
        /\ g = NULL <=> L < 2
        /\ L >= 2 => g = s[1]
        /\ path \in Path /\ Len(path) \in Nat /\ \A i \in 1 .. L : s[i] \in Node
    BY <1>1, TaskFacts
  <2> QED
    BY <2>1, <2>2
<1>11. /\ \A i \in 1 .. L : mem[s[i]].path = First(path, Base(t) + i - 1)
       /\ mem[a].path = path /\ Base(t) = Len(path) - L
  <2>1. \A i \in 1 .. L : mem[s[i]].path = First(path, Base(t) + i - 1)
    BY <1>1 DEF PathsFit
  <2>2. mem[a].path = path
    BY <1>2, WalkFacts
  <2> QED
    BY <1>2, <2>1, <2>2 DEF Base
<1>12. path = << >> <=> Len(path) = 0
  BY <1>1, TaskFacts
<1> HIDE DEF a, p, g, L, path
<1>13. /\ p # NULL => Points(t, 3, p)
       /\ g # NULL => Points(t, 3, g)
  BY <1>10 DEF Points, L, s
<1> HIDE DEF s
<1>14. \/ mem[a].path = << >> /\ p = NULL
       \/ mem[a].path # << >> /\ p # NULL /\ mem[p].path = First(mem[a].path, Len(mem[a].path) - 1)
  <2>1. CASE L = 0
    <3>1. Len(path) = 0
      BY <1>10, <2>1
    <3> QED
      BY <1>10, <1>11, <1>12, <2>1, <3>1
  <2>2. CASE L # 0
    <3>1. Len(path) # 0 /\ L \in 1 .. L
      BY <1>10, <2>2
    <3>2. Base(t) + L - 1 = Len(path) - 1
      BY <1>10, <1>11
    <3>3. mem[p].path = First(path, Len(path) - 1)
      BY <1>10, <1>11, <2>2, <3>1, <3>2
    <3> QED
      BY <1>10, <1>11, <1>12, <2>2, <3>1, <3>3
  <2> QED
    BY <2>1, <2>2
<1>15. ASSUME NEW u \in Task, fd[u] = a PROVE mem[a].parent = p
  <2> DEFINE q == mem[a].parent
  <2>1. FdPath(u)
    BY DEF IInv, Sound, PathsFit
  <2>2. fd[u] # NULL
    BY <1>1, <1>3, <1>15
  <2>3. \/ mem[a].path = << >> /\ q = NULL
        \/ mem[a].path # << >> /\ q # NULL /\ mem[q].path = First(mem[a].path, Len(mem[a].path) - 1)
    BY <1>15, <2>1, <2>2 DEF FdPath
  <2>4. q # NULL => q \in inodelist
    BY <1>15, <2>2, FdFacts
  <2> HIDE DEF q
  <2>5. q = p
    BY <1>1, <1>3, <1>14, <2>3, <2>4 DEF PathsUnique
  <2> QED
    BY <2>5 DEF q
<1> QED
  BY <1>1, <1>3, <1>4, <1>5, <1>6, <1>7, <1>8, <1>9, <1>13, <1>14, <1>15 DEF a, p, g

\* What the end of fs_open does to the inodes.
Gone(t) ==
    {n \in {gparentOf(t), parentOf(t), at[t]} :
        n = gparentOf(t) \/ call[t].then = "close"}
NewParent(t, n) == IF n = at[t] THEN parentOf(t) ELSE mem[n].parent

LEMMA ReturnFields ==
    ASSUME IInv, ~ Dangling, NEW t \in Task, OpenReturns(t)
    PROVE  /\ mem' \in [Node -> Inode]
           /\ \A n \in Node :
                 /\ n \notin Gone(t) => mem'[n].refs = mem[n].refs
                 /\ n \in Gone(t) =>
                       mem'[n].refs = IF mem[n].refs > 1 THEN mem[n].refs - 1 ELSE 0
                 /\ mem'[n].hit = mem[n].hit /\ mem'[n].refs \in Nat
                 /\ mem'[n].parent \in {NewParent(t, n), NULL}
                 /\ mem'[n].refs > 0 =>
                       /\ mem[n].refs > 0 /\ mem'[n].path = mem[n].path
                       /\ mem'[n].kind = mem[n].kind /\ mem'[n].parent = NewParent(t, n)
                       /\ mem'[n].lock = IF n \in Opened(t) THEN KRWLockRelease(mem[n].lock)
                                         ELSE mem[n].lock
                       /\ mem'[n].leaked = mem[n].leaked
<1> DEFINE a == at[t]
           p == parentOf(t)
           g == gparentOf(t)
           O == Opened(t)
           m0 == Released(mem, O)
           m1 == [m0 EXCEPT ![a].parent = p]
           m2 == Closed(m1, << g >>)
           q == m2[a].parent
           m3 == Closed(m2, << a, q >>)
           close == call[t].then = "close"
<1>1. pc[t] = "opened" /\ want[t] = NoWant
  BY DEF OpenReturns, At
<1>2. /\ mem \in [Node -> Inode] /\ NULL \notin Node
      /\ a \in Node /\ p \in Node \cup {NULL} /\ g \in Node \cup {NULL}
      /\ p # a /\ g # a /\ (p # NULL => g # p)
      /\ \A n \in Node \cap O : KRWLockRelease(mem[n].lock) \in Lock
  BY <1>1, ReturnFacts
<1>3. mem' = IF close THEN m3 ELSE m2
  BY <1>2 DEF OpenReturns, FileClosed
<1>4. /\ \A n : n \in Gone(t) <=> n = g \/ (close /\ n \in {a, p})
      /\ \A n : NewParent(t, n) = IF n = a THEN p ELSE mem[n].parent
  BY DEF Gone, NewParent
<1> HIDE DEF a, p, g, O, close
<1>5. /\ m0 \in [Node -> Inode]
      /\ \A n \in Node :
            /\ m0[n].lock = IF n \in O THEN KRWLockRelease(mem[n].lock) ELSE mem[n].lock
            /\ m0[n].path = mem[n].path /\ m0[n].refs = mem[n].refs
            /\ m0[n].kind = mem[n].kind /\ m0[n].parent = mem[n].parent
            /\ m0[n].hit = mem[n].hit /\ m0[n].leaked = mem[n].leaked
  BY <1>2, ReleasedFields
<1> HIDE DEF m0
<1>6. /\ m1 \in [Node -> Inode]
      /\ \A n \in Node :
            /\ m1[n].lock = m0[n].lock
            /\ m1[n].path = m0[n].path /\ m1[n].refs = m0[n].refs
            /\ m1[n].kind = m0[n].kind /\ m1[n].hit = m0[n].hit
            /\ m1[n].leaked = m0[n].leaked
            /\ m1[n].parent = IF n = a THEN p ELSE m0[n].parent
  <2>1. m1 \in [Node -> Inode]
    BY <1>2, <1>5 DEF Inode
  <2>2. ASSUME NEW n \in Node
        PROVE  /\ m1[n].lock = m0[n].lock
               /\ m1[n].path = m0[n].path /\ m1[n].refs = m0[n].refs
               /\ m1[n].kind = m0[n].kind /\ m1[n].hit = m0[n].hit
               /\ m1[n].leaked = m0[n].leaked
               /\ m1[n].parent = IF n = a THEN p ELSE m0[n].parent
    <3>1. CASE n = a
      BY <1>2, <1>5, <3>1 DEF Inode
    <3>2. CASE n # a
      BY <1>2, <1>5, <3>2
    <3> QED
      BY <3>1, <3>2
  <2> QED
    BY <2>1, <2>2
<1> HIDE DEF m1
<1>7. /\ m2 \in [Node -> Inode]
      /\ \A n \in Node :
            /\ n # g => m2[n] = m1[n]
            /\ n = g => m2[n].refs = IF m1[n].refs > 1 THEN m1[n].refs - 1 ELSE 0
            /\ m2[n].hit = m1[n].hit
            /\ m2[n].parent \in {m1[n].parent, NULL}
            /\ m2[n].refs \in Nat
            /\ m2[n].refs > 0 =>
                  /\ m1[n].refs > 0 /\ m2[n].path = m1[n].path
                  /\ m2[n].kind = m1[n].kind /\ m2[n].parent = m1[n].parent
                  /\ m2[n].lock = m1[n].lock /\ m2[n].leaked = m1[n].leaked
  BY <1>2, <1>6, ClosedOne
<1>8. q = p
  <2>1. m2[a] = m1[a]
    BY <1>2, <1>7
  <2> QED
    BY <1>2, <1>6, <2>1
<1> HIDE DEF m2, q
<1>9. /\ m3 \in [Node -> Inode]
      /\ \A n \in Node :
            /\ (n # a /\ n # p) => m3[n] = m2[n]
            /\ (n = a \/ n = p) => m3[n].refs = IF m2[n].refs > 1 THEN m2[n].refs - 1 ELSE 0
            /\ m3[n].hit = m2[n].hit
            /\ m3[n].parent \in {m2[n].parent, NULL}
            /\ m3[n].refs \in Nat
            /\ m3[n].refs > 0 =>
                  /\ m2[n].refs > 0 /\ m3[n].path = m2[n].path
                  /\ m3[n].kind = m2[n].kind /\ m3[n].parent = m2[n].parent
                  /\ m3[n].lock = m2[n].lock /\ m3[n].leaked = m2[n].leaked
  <2>1. m3 = Closed(m2, << a, p >>)
    BY <1>8
  <2> HIDE DEF m3
  <2> QED
    BY <1>2, <1>7, <2>1, ClosedTwo
<1> HIDE DEF m3
<1>10. mem' \in [Node -> Inode]
  BY <1>3, <1>7, <1>9
<1>11. ASSUME NEW n \in Node
       PROVE  /\ n \notin Gone(t) => mem'[n].refs = mem[n].refs
              /\ n \in Gone(t) => mem'[n].refs = IF mem[n].refs > 1 THEN mem[n].refs - 1 ELSE 0
              /\ mem'[n].hit = mem[n].hit /\ mem'[n].refs \in Nat
              /\ mem'[n].parent \in {NewParent(t, n), NULL}
              /\ mem'[n].refs > 0 =>
                    /\ mem[n].refs > 0 /\ mem'[n].path = mem[n].path
                    /\ mem'[n].kind = mem[n].kind /\ mem'[n].parent = NewParent(t, n)
                    /\ mem'[n].lock = IF n \in O THEN KRWLockRelease(mem[n].lock)
                                      ELSE mem[n].lock
                    /\ mem'[n].leaked = mem[n].leaked
  <2>1. /\ m1[n].lock = IF n \in O THEN KRWLockRelease(mem[n].lock) ELSE mem[n].lock
        /\ m1[n].path = mem[n].path /\ m1[n].refs = mem[n].refs
        /\ m1[n].kind = mem[n].kind /\ m1[n].hit = mem[n].hit
        /\ m1[n].leaked = mem[n].leaked /\ m1[n].parent = NewParent(t, n)
    BY <1>4, <1>5, <1>6
  <2>2. /\ n # g => m2[n].refs = m1[n].refs
        /\ n = g => m2[n].refs = IF m1[n].refs > 1 THEN m1[n].refs - 1 ELSE 0
    <3>1. CASE n = g
      BY <1>7, <3>1
    <3>2. CASE n # g
      <4>1. m2[n] = m1[n]
        BY <1>7, <3>2
      <4> QED
        BY <3>2, <4>1
    <3> QED
      BY <3>1, <3>2
  <2>3. CASE ~ close
    <3>1. mem' = m2 /\ (n \in Gone(t) <=> n = g)
      BY <1>3, <1>4, <2>3
    <3> QED
      BY <1>7, <2>1, <2>2, <3>1
  <2>4. CASE close
    <3>1. mem' = m3 /\ (n \in Gone(t) <=> n = g \/ n \in {a, p})
      BY <1>3, <1>4, <2>4
    <3>2. /\ n \notin {a, p} => m3[n].refs = m2[n].refs
          /\ n \in {a, p} => m3[n].refs = IF m2[n].refs > 1 THEN m2[n].refs - 1 ELSE 0
      <4>1. CASE n \in {a, p}
        BY <1>9, <4>1
      <4>2. CASE n \notin {a, p}
        <5>1. m3[n] = m2[n]
          BY <1>9, <4>2
        <5> QED
          BY <4>2, <5>1
      <4> QED
        BY <4>1, <4>2
    <3>3. n = g => n \notin {a, p}
      BY <1>2
    <3>4. /\ n \notin Gone(t) => m3[n].refs = mem[n].refs
          /\ n \in Gone(t) => m3[n].refs = IF mem[n].refs > 1 THEN mem[n].refs - 1 ELSE 0
      BY <2>1, <2>2, <3>1, <3>2, <3>3
    <3>5. /\ m3[n].hit = mem[n].hit /\ m3[n].refs \in Nat
          /\ m3[n].parent \in {NewParent(t, n), NULL}
          /\ m3[n].refs > 0 =>
                /\ mem[n].refs > 0 /\ m3[n].path = mem[n].path
                /\ m3[n].kind = mem[n].kind /\ m3[n].parent = NewParent(t, n)
                /\ m3[n].lock = m1[n].lock /\ m3[n].leaked = mem[n].leaked
      BY <1>7, <1>9, <2>1
    <3> QED
      BY <2>1, <3>1, <3>4, <3>5
  <2> QED
    BY <2>3, <2>4
<1> QED
  BY <1>10, <1>11 DEF O

\* The end of fs_open.
LEMMA OpenReturnsStep ==
    ASSUME IInv, ~ Dangling, NEW t \in Task, OpenReturns(t)
    PROVE  IInv'
<1> DEFINE a == at[t]
           p == parentOf(t)
           g == gparentOf(t)
           O == Opened(t)
           keeps == call[t].then = "keep" /\ Succeeds(t)
           label == "user"
           empty == << >>
<1>1. /\ want[t] = NoWant /\ pc[t] = "opened"
      /\ ready' = ready \cup ReleaseWakes(mem, O)
      /\ fd' = IF keeps THEN [fd EXCEPT ![t] = a] ELSE fd
      /\ loaded' = [loaded EXCEPT ![t] = empty]
      /\ at' = [at EXCEPT ![t] = NULL] /\ call' = [call EXCEPT ![t] = NoCall]
      /\ pc' = [pc EXCEPT ![t] = label] /\ cpu' = NULL
      /\ disk' = disk /\ want' = want
  BY DEF OpenReturns, At, Goto, Return
<1>2. /\ TypeOK /\ Shape(t) /\ RootSound /\ RefsCounted /\ NULL \notin Node
      /\ mem \in [Node -> Inode] /\ root \in Node
      /\ a \in Node /\ a \in inodelist /\ mem[a].kind # Junk
      /\ p \in Node \cup {NULL} /\ g \in Node \cup {NULL}
      /\ p # a /\ g # a /\ (p # NULL => g # p)
      /\ \A n \in O : /\ n \in Node /\ n \in inodelist /\ mem[n].kind # Junk
                      /\ KRWLockRelease(mem[n].lock) \in Lock
      /\ Holds(t) = O
      /\ ready \cup ReleaseWakes(mem, O) \subseteq Task
      /\ Points(t, 0, a) /\ (p # NULL => Points(t, 3, p)) /\ (g # NULL => Points(t, 3, g))
      /\ \/ mem[a].path = << >> /\ p = NULL
         \/ /\ mem[a].path # << >> /\ p # NULL
            /\ mem[p].path = First(mem[a].path, Len(mem[a].path) - 1)
      /\ \A u \in Task : fd[u] = a => mem[a].parent = p
  BY <1>1, ReturnFacts
<1>3. p # NULL => mem[p].kind # Junk
  BY <1>2 DEF Opened
<1>4. /\ \A n : n \in Gone(t) => n = g \/ n = a \/ n = p
      /\ keeps => (\A n : n \in Gone(t) => n = g)
      /\ \A n : n = g => n \in Gone(t)
  BY DEF Gone
<1>5. /\ \A n \in Node : n # a => NewParent(t, n) = mem[n].parent
      /\ NewParent(t, a) = p
  BY DEF NewParent
<1>6. keeps => mem[a].kind \in {"file", "dir"}
  <2>1. mem[a].kind \in Kind
    BY <1>2, NodeFacts
  <2> QED
    BY <1>2, <2>1 DEF Succeeds, Kind
<1>7. NoCall \in Call
  BY TreeAssumption DEF NoCall, CallOf, Call
<1>8. a = at[t]
  OBVIOUS
<1> HIDE DEF a, p, g, O, keeps, empty
<1>9. /\ mem' \in [Node -> Inode]
      /\ \A n \in Node :
            /\ n \notin Gone(t) => mem'[n].refs = mem[n].refs
            /\ n \in Gone(t) => mem'[n].refs = IF mem[n].refs > 1 THEN mem[n].refs - 1 ELSE 0
            /\ mem'[n].hit = mem[n].hit /\ mem'[n].refs \in Nat
            /\ mem'[n].parent \in {NewParent(t, n), NULL}
            /\ mem'[n].refs > 0 =>
                  /\ mem[n].refs > 0 /\ mem'[n].path = mem[n].path
                  /\ mem'[n].kind = mem[n].kind /\ mem'[n].parent = NewParent(t, n)
                  /\ mem'[n].lock = IF n \in O THEN KRWLockRelease(mem[n].lock)
                                    ELSE mem[n].lock
                  /\ mem'[n].leaked = mem[n].leaked
  BY ReturnFields DEF O
<1>10. /\ pc' \in [Task -> Idle \cup Walking \cup Opening] /\ pc'[t] = "user"
       /\ loaded' \in [Task -> Seq(Node)] /\ loaded'[t] = << >>
       /\ at' \in [Task -> Node \cup {NULL}] /\ at'[t] = NULL
       /\ call' \in [Task -> Call] /\ call'[t] = NoCall
       /\ \A u \in Task \ {t} : /\ pc'[u] = pc[u] /\ loaded'[u] = loaded[u]
                                /\ at'[u] = at[u] /\ call'[u] = call[u]
  <2>1. empty \in Seq(Node) /\ empty = << >>
    BY EmptySeq DEF empty
  <2> QED
    BY <1>1, <1>2, <1>7, <2>1 DEF TypeOK, Idle
<1>11. /\ fd' \in [Task -> Node \cup {NULL}]
       /\ keeps => fd'[t] = a
       /\ ~ keeps => fd'[t] = fd[t]
       /\ \A u \in Task \ {t} : fd'[u] = fd[u]
  <2>1. CASE keeps
    BY <1>1, <1>2, <2>1 DEF TypeOK
  <2>2. CASE ~ keeps
    BY <1>1, <1>2, <2>2 DEF TypeOK
  <2> QED
    BY <2>1, <2>2
<1>12. TypeOK'
  BY <1>1, <1>2, <1>9, <1>10, <1>11 DEF TypeOK
<1>13. \A u \in Task \ {t} : Same(u)
  BY <1>1, <1>10, <1>11 DEF Same
<1>14. \A u \in Task : fd[u] # NULL =>
          /\ mem'[fd[u]].parent \in {mem[fd[u]].parent, NULL}
          /\ mem'[fd[u]].refs > 0 => mem'[fd[u]].parent = mem[fd[u]].parent
  <2>1. ASSUME NEW u \in Task, fd[u] # NULL
        PROVE  /\ fd[u] \in Node /\ NewParent(t, fd[u]) = mem[fd[u]].parent
    <3>1. fd[u] \in Node
      BY <1>2, <2>1, TaskFacts
    <3> QED
      BY <1>2, <1>5, <2>1, <3>1
  <2> QED
    BY <1>9, <2>1
<1>15. Len(loaded'[t]) = 0
  BY <1>10, EmptySeq
<1>16. ASSUME NEW n \in Node
       PROVE  /\ ~ Points(t, 0, n)' /\ ~ Points(t, 3, n)'
              /\ keeps /\ Points(t, 1, n)' => n = a
              /\ keeps /\ Points(t, 2, n)' => n = p
              /\ ~ keeps => (Points(t, 1, n)' => Points(t, 1, n))
              /\ ~ keeps => (Points(t, 2, n)' => Points(t, 2, n))
  <2>1. ~ Points(t, 0, n)' /\ ~ Points(t, 3, n)'
    BY <1>2, <1>10, <1>15 DEF Points
  <2>2. CASE keeps
    <3>1. mem'[a].parent \in {p, NULL} /\ n # NULL
      BY <1>2, <1>5, <1>9
    <3> QED
      BY <1>11, <2>1, <2>2, <3>1 DEF Points
  <2>3. CASE ~ keeps
    BY <1>2, <1>11, <1>14, <2>1, <2>3 DEF Points
  <2> QED
    BY <2>2, <2>3
<1>17. RefsCounted'
  <2>1. ASSUME NEW n \in Node PROVE CountFits(n)'
    <3>1. /\ mem'[n].hit <=> mem[n].hit
          /\ mem'[n].refs \in Nat /\ mem[n].refs \in Nat
          /\ 0 \in 0 .. 3 /\ 1 \in 0 .. 3 /\ 2 \in 0 .. 3 /\ 3 \in 0 .. 3
      BY <1>2, <1>9, NodeFacts
    <3>2. CountFits(n)
      BY <1>2 DEF RefsCounted
    <3>3. \A u \in Task \ {t} :
              fd[u] # NULL => mem'[fd[u]].parent \in {mem[fd[u]].parent, NULL}
      BY <1>14
    <3>4. /\ ~ Points(t, 0, n)' /\ ~ Points(t, 3, n)'
          /\ n = a => Points(t, 0, n)
          /\ n = p \/ n = g => Points(t, 3, n)
      BY <1>2, <1>16
    <3>5. n \notin Gone(t) => mem'[n].refs >= mem[n].refs
      BY <1>9, <3>1
    <3>6. CASE keeps /\ n = a
      <4>1. \A i \in (0 .. 3) \ {1} : Points(t, i, n)' => Points(t, i, n)
        BY <1>2, <1>16, <3>6
      <4>2. n \notin Gone(t)
        BY <1>2, <1>4, <3>6
      <4> QED
        BY <1>2, <1>13, <3>1, <3>2, <3>3, <3>4, <3>5, <3>6, <4>1, <4>2, CountMoves
    <3>7. CASE keeps /\ n = p
      <4>1. \A i \in (0 .. 3) \ {2} : Points(t, i, n)' => Points(t, i, n)
        BY <1>2, <1>16, <3>7
      <4>2. n \notin Gone(t)
        BY <1>2, <1>4, <3>7
      <4> QED
        BY <1>2, <1>13, <3>1, <3>2, <3>3, <3>4, <3>5, <3>7, <4>1, <4>2, CountMoves
    <3>8. CASE ~ (keeps /\ n \in {a, p})
      <4>1. \A i \in 0 .. 3 : Points(t, i, n)' => Points(t, i, n)
        BY <1>16, <3>8
      <4>2. CASE n \notin Gone(t)
        BY <1>2, <1>13, <3>1, <3>2, <3>3, <3>5, <4>1, <4>2, CountMoves
      <4>3. CASE n \in Gone(t) /\ n = a
        <5>1. mem'[n].refs = IF mem[n].refs > 1 THEN mem[n].refs - 1 ELSE 0
          BY <1>9, <4>3
        <5> QED
          BY <1>2, <1>13, <3>1, <3>2, <3>3, <3>4, <4>1, <4>3, <5>1, CountMoves
      <4>4. CASE n \in Gone(t) /\ n # a
        <5>1. mem'[n].refs = IF mem[n].refs > 1 THEN mem[n].refs - 1 ELSE 0
          BY <1>9, <4>4
        <5>2. n = p \/ n = g
          BY <1>4, <4>4
        <5> QED
          BY <1>2, <1>13, <3>1, <3>2, <3>3, <3>4, <4>1, <5>1, <5>2, CountMoves
      <4> QED
        BY <4>2, <4>3, <4>4
    <3> QED
      BY <3>6, <3>7, <3>8
  <2> QED
    BY <2>1 DEF RefsCounted
<1>18. Shape(t)'
  BY <1>1, <1>2, <1>10 DEF Shape, Idle, Walking, Opening
<1>19. ASSUME NEW n \in Node, mem'[n].refs > 0
       PROVE  /\ mem[n].refs > 0 /\ Survives(n)
              /\ mem'[n].lock = IF n \in O THEN KRWLockRelease(mem[n].lock) ELSE mem[n].lock
              /\ mem'[n].leaked = mem[n].leaked
              /\ mem[n].kind = Junk =>
                    mem'[n].kind = Junk \/ (pc[t] = "loading" /\ at[t] = n)
              /\ mem'[n].kind = Junk =>
                    /\ mem[n].kind = Junk /\ n \notin O
                    /\ pc[t] # "loading" \/ at[t] # n
  BY <1>1, <1>2, <1>9, <1>19 DEF Survives
<1>20. mem'[root].refs > 0 /\ ~ mem'[root].hit
  <2>1. root \in Gone(t) => mem[root].refs > 1
    <3>1. 0 \in 0 .. 3 /\ 3 \in 0 .. 3
      OBVIOUS
    <3>2. root \in Gone(t) => Points(t, 0, root) \/ Points(t, 3, root)
      BY <1>2, <1>4
    <3> QED
      BY <3>1, <3>2, RootStays
  <2>2. mem[root].refs \in Nat /\ mem[root].refs > 0 /\ ~ mem[root].hit
    BY <1>2, NodeFacts DEF RootSound
  <2> QED
    BY <1>2, <1>9, <2>1, <2>2
<1>21. ASSUME ~ Dangling' PROVE PathsFit(t)' /\ KindsRead(t)'
  <2>1. FdPath(t)' /\ FdKinds(t)'
    <3>1. CASE keeps
      <4>1. /\ mem'[a].refs > 0 /\ mem'[a].parent = p
            /\ p # NULL => p \in Node /\ mem'[p].refs > 0
        <5>1. /\ fd'[t] # NULL
              /\ fd'[t] # NULL =>
                    /\ mem'[fd'[t]].refs > 0
                    /\ mem'[fd'[t]].parent # NULL => mem'[mem'[fd'[t]].parent].refs > 0
          BY <1>2, <1>11, <1>12, <1>21, <3>1, PointersAlive
        <5>2. mem'[a].refs > 0 /\ (mem'[a].parent # NULL => mem'[mem'[a].parent].refs > 0)
          BY <1>11, <3>1, <5>1
        <5> QED
          BY <1>2, <1>5, <1>9, <5>2
      <4>2. /\ mem'[a].path = mem[a].path /\ mem'[a].kind = mem[a].kind
            /\ p # NULL => mem'[p].path = mem[p].path /\ mem'[p].kind = mem[p].kind
        BY <1>2, <1>9, <4>1
      <4> QED
        BY <1>2, <1>3, <1>6, <1>11, <3>1, <4>1, <4>2 DEF FdPath, FdKinds
    <3>2. CASE ~ keeps
      <4>1. fd'[t] = fd[t]
        BY <1>11, <3>2
      <4>2. fd[t] # NULL /\ mem'[fd[t]].refs > 0 => mem'[fd[t]].parent = mem[fd[t]].parent
        BY <1>14
      <4> QED
        BY <1>12, <1>19, <1>21, <4>1, <4>2, FdKeeps
    <3> QED
      BY <3>1, <3>2
  <2> QED
    BY <1>10, <1>15, <2>1 DEF PathsFit, KindsRead, Opening
<1>22. Holds(t)' = {}
  <2>1. pc'[t] = "user"
    BY <1>10
  <2> QED
    BY <2>1 DEF Holds
<1>23. /\ O \in SUBSET Node /\ O \subseteq inodelist
       /\ O \subseteq Holds(t) /\ (~ Dangling' => Holds(t)' = Holds(t) \ O)
       /\ want'[t] = NoWant
       /\ \A u \in Task : want[u] # NoWant =>
             (u \in ready' <=> u \in ready \/ u \in ReleaseWakes(mem, O))
       /\ \A u \in Task \ {t} : fd[u] # NULL /\ mem'[fd[u]].refs > 0 =>
             mem'[fd[u]].parent = mem[fd[u]].parent
  BY <1>1, <1>2, <1>14, <1>22
<1> QED
  BY <1>1, <1>12, <1>13, <1>17, <1>18, <1>19, <1>20, <1>21, <1>23, MoveStep

\* The child has come into the cache while the directory was being locked, and
\* the directory is left locked.
LEMMA ChildLoadedMeanwhileStep ==
    ASSUME IInv, ~ Dangling, NEW t \in Task, ChildLoadedMeanwhile(t)
    PROVE  IInv'
<1> DEFINE a == at[t]
           c == Cached(ChildPath(t))
           label == "loop"
<1>1. /\ want[t] = NoWant /\ pc[t] = "missed" /\ c # NULL
      /\ mem' = [mem EXCEPT ![c].hit = TRUE, ![a].leaked = TRUE]
      /\ at' = [at EXCEPT ![t] = c]
      /\ pc' = [pc EXCEPT ![t] = label] /\ cpu' = t
      /\ disk' = disk /\ call' = call /\ loaded' = loaded /\ want' = want /\ fd' = fd
      /\ ready' = ready
  BY DEF ChildLoadedMeanwhile, CachedNow, At, Goto
<1>2. /\ TypeOK /\ Shape(t) /\ RootSound /\ RefsCounted /\ NULL \notin Node
      /\ LocksSound /\ JunkLocked /\ PathsFit(t) /\ KindsRead(t) /\ PathsUnique
      /\ mem \in [Node -> Inode] /\ want[t].node = NULL
  BY <1>1, WantFacts DEF IInv, Sound, TypeOK
<1>3. c \in inodelist /\ c \in Node /\ mem[c].path = ChildPath(t)
  BY <1>1, <1>2, CachedFacts
<1>4. /\ Len(loaded[t]) \in Nat /\ Len(loaded[t]) <= Len(call[t].path)
      /\ ChildPath(t) = First(call[t].path, Len(loaded[t])) /\ ChildPath(t) # << >>
      /\ Base(t) = 0 /\ a \in Node /\ a \in inodelist
  BY <1>1, ChildFacts
<1>5. Holds(t) = {a} /\ mem[a].kind # Junk
  <2>1. Holds(t) = {a}
    BY <1>1, <1>2, <1>4 DEF Holds
  <2> QED
    BY <1>1, <2>1, HeldRead
<1>6. a = at[t]
  OBVIOUS
<1> HIDE DEF a, c
<1>7. /\ mem' \in [Node -> Inode]
      /\ \A m \in Node :
            /\ mem'[m].hit = IF m = c THEN TRUE ELSE mem[m].hit
            /\ mem'[m].leaked = IF m = a THEN TRUE ELSE mem[m].leaked
            /\ mem'[m].path = mem[m].path /\ mem'[m].kind = mem[m].kind
            /\ mem'[m].parent = mem[m].parent /\ mem'[m].lock = mem[m].lock
            /\ mem'[m].refs = mem[m].refs
  <2> DEFINE m1 == [mem EXCEPT ![c].hit = TRUE]
  <2>1. /\ m1 \in [Node -> Inode]
        /\ \A m \in Node :
              /\ m1[m].hit = IF m = c THEN TRUE ELSE mem[m].hit
              /\ m1[m].leaked = mem[m].leaked
              /\ m1[m].path = mem[m].path /\ m1[m].kind = mem[m].kind
              /\ m1[m].parent = mem[m].parent /\ m1[m].lock = mem[m].lock
              /\ m1[m].refs = mem[m].refs
    <3>1. m1 \in [Node -> Inode]
      BY <1>2, <1>3, ZenonT(40) DEF Inode
    <3>2. ASSUME NEW m \in Node
          PROVE  /\ m1[m].hit = IF m = c THEN TRUE ELSE mem[m].hit
                 /\ m1[m].leaked = mem[m].leaked
                 /\ m1[m].path = mem[m].path /\ m1[m].kind = mem[m].kind
                 /\ m1[m].parent = mem[m].parent /\ m1[m].lock = mem[m].lock
                 /\ m1[m].refs = mem[m].refs
      <4>1. CASE m = c
        BY <1>2, <1>3, <4>1 DEF Inode
      <4>2. CASE m # c
        BY <1>2, <1>3, <4>2
      <4> QED
        BY <4>1, <4>2
    <3> QED
      BY <3>1, <3>2
  <2>2. mem' = [m1 EXCEPT ![a].leaked = TRUE]
    BY <1>1
  <2> HIDE DEF m1
  <2>3. /\ mem' \in [Node -> Inode]
        /\ \A m \in Node :
              /\ mem'[m].hit = m1[m].hit
              /\ mem'[m].leaked = IF m = a THEN TRUE ELSE m1[m].leaked
              /\ mem'[m].path = m1[m].path /\ mem'[m].kind = m1[m].kind
              /\ mem'[m].parent = m1[m].parent /\ mem'[m].lock = m1[m].lock
              /\ mem'[m].refs = m1[m].refs
    <3>0. a \in Node /\ m1 \in [Node -> Inode]
      BY <1>4, <2>1
    <3>1. mem' \in [Node -> Inode]
      BY <2>2, <3>0 DEF Inode
    <3>2. ASSUME NEW m \in Node
          PROVE  /\ mem'[m].hit = m1[m].hit
                 /\ mem'[m].leaked = IF m = a THEN TRUE ELSE m1[m].leaked
                 /\ mem'[m].path = m1[m].path /\ mem'[m].kind = m1[m].kind
                 /\ mem'[m].parent = m1[m].parent /\ mem'[m].lock = m1[m].lock
                 /\ mem'[m].refs = m1[m].refs
      <4>1. CASE m = a
        BY <2>2, <3>0, <4>1 DEF Inode
      <4>2. CASE m # a
        BY <2>2, <3>0, <4>2
      <4> QED
        BY <4>1, <4>2
    <3> QED
      BY <3>1, <3>2
  <2> QED
    BY <2>1, <2>3, ZenonT(40)
<1>8. /\ pc' \in [Task -> Idle \cup Walking \cup Opening] /\ pc'[t] = "loop"
      /\ at' \in [Task -> Node \cup {NULL}] /\ at'[t] = c
      /\ \A u \in Task \ {t} : pc'[u] = pc[u] /\ at'[u] = at[u]
  BY <1>1, <1>2, <1>3 DEF TypeOK, Walking
<1>9. TypeOK'
  BY <1>1, <1>2, <1>7, <1>8 DEF TypeOK
<1>10. \A u \in Task \ {t} : Same(u)
  BY <1>1, <1>8 DEF Same
<1>11. \A u \in Task : fd[u] # NULL => mem'[fd[u]].parent = mem[fd[u]].parent
  BY <1>2, <1>7, TaskFacts
<1>12. RefsCounted'
  <2>1. ASSUME NEW n \in Node PROVE CountFits(n)'
    <3>1. CASE n = c
      BY <1>3, <1>7, <3>1 DEF CountFits
    <3>2. CASE n # c
      <4>1. \A i \in 0 .. 3 : Points(t, i, n)' => Points(t, i, n)
        <5>1. ~ Points(t, 0, n)'
          BY <1>8, <3>2 DEF Points
        <5>2. \A i \in (0 .. 3) \ {0} : Points(t, i, n)' => Points(t, i, n)
          BY <1>1, <1>11 DEF Points
        <5> QED
          BY <5>1, <5>2
      <4>2. /\ mem'[n].hit <=> mem[n].hit
            /\ mem'[n].refs \in Nat /\ mem'[n].refs >= mem[n].refs
        <5>1. mem'[n].refs = mem[n].refs /\ mem'[n].hit = mem[n].hit
          BY <1>7, <3>2
        <5> QED
          BY <1>2, <5>1, NodeFacts
      <4>3. CountFits(n) /\ 0 \in 0 .. 3
        BY <1>2 DEF RefsCounted
      <4>4. \A u \in Task \ {t} :
                fd[u] # NULL => mem'[fd[u]].parent \in {mem[fd[u]].parent, NULL}
        BY <1>11
      <4> QED
        BY <1>2, <1>10, <4>1, <4>2, <4>3, <4>4, CountMoves
    <3> QED
      BY <3>1, <3>2
  <2> QED
    BY <2>1 DEF RefsCounted
<1>13. Shape(t)'
  BY <1>1, <1>2, <1>3, <1>4, <1>8 DEF Shape, Idle, Walking, Opening
<1>14. \A m \in Node : mem'[m].refs > 0 =>
          /\ mem[m].refs > 0 /\ Survives(m)
          /\ mem'[m].lock = mem[m].lock
          /\ mem'[m].kind = Junk <=> mem[m].kind = Junk
  BY <1>2, <1>7 DEF Survives
<1>15. inodelist' = inodelist /\ inodelist \subseteq Node
  BY <1>7 DEF inodelist
<1>16. PathsUnique' /\ RootSound'
  <2>1. root \in Node /\ root # c
    BY <1>2, <1>3, <1>4, TreeAssumption DEF RootSound, root, Node
  <2>2. RootSound'
    BY <1>2, <1>7, <2>1 DEF RootSound
  <2>3. PathsUnique'
    <3>1. \A m \in inodelist : mem'[m].path = mem[m].path
      BY <1>7, <1>15
    <3>2. PathsUnique /\ inodelist' = inodelist
      BY <1>2, <1>15
    <3> QED
      BY <3>1, <3>2 DEF PathsUnique
  <2> QED
    BY <2>2, <2>3
<1>17. ASSUME ~ Dangling' PROVE PathsFit(t)' /\ KindsRead(t)' /\ WantFits(t)'
  <2>0. \A i \in 1 .. Len(loaded[t]) : loaded[t][i] \in Node
    BY <1>2, TaskFacts
  <2>1. FdPath(t)' /\ FdKinds(t)'
    <3>1. fd[t] # NULL /\ mem'[fd[t]].refs > 0 => mem'[fd[t]].parent = mem[fd[t]].parent
      BY <1>11
    <3>2. fd'[t] = fd[t]
      BY <1>1
    <3> QED
      BY <1>9, <1>14, <1>17, <3>1, <3>2, FdKeeps
  <2>2. Base(t)' = 0
    BY <1>8 DEF Base, Opening
  <2>3. mem'[at'[t]].path = First(call'[t].path, 0 + Len(loaded'[t]))
    <3>1. mem'[at'[t]].path = First(call[t].path, Len(loaded[t]))
      BY <1>3, <1>4, <1>7, <1>8
    <3>2. 0 + Len(loaded[t]) = Len(loaded[t])
      BY <1>4
    <3> QED
      BY <1>1, <3>1, <3>2
  <2>4. \A i \in 1 .. Len(loaded'[t]) :
           /\ mem'[loaded'[t][i]].path = First(call'[t].path, 0 + i - 1)
           /\ mem'[loaded'[t][i]].kind # Junk
    <3>1. Base(t) = 0
      BY <1>4
    <3>2. \A i \in 1 .. Len(loaded[t]) :
             /\ mem[loaded[t][i]].path = First(call[t].path, 0 + i - 1)
             /\ mem[loaded[t][i]].kind # Junk
      BY <1>2, <3>1 DEF PathsFit, KindsRead
    <3>3. \A i \in 1 .. Len(loaded[t]) :
             /\ mem'[loaded[t][i]].path = mem[loaded[t][i]].path
             /\ mem'[loaded[t][i]].kind = mem[loaded[t][i]].kind
      BY <1>7, <2>0
    <3> QED
      BY <1>1, <3>2, <3>3, ZenonT(40)
  <2>5. PathsFit(t)'
    BY <2>1, <2>2, <2>3, <2>4 DEF PathsFit
  <2>6. KindsRead(t)'
    BY <1>8, <2>1, <2>4, <2>5 DEF KindsRead
  <2> QED
    BY <1>1, <2>5, <2>6 DEF WantFits
<1>18. Holds(t)' = {}
  BY <1>8 DEF Holds
<1>19. ASSUME OthersHold(t) PROVE LocksSound' /\ JunkLocked'
  <2>1. ASSUME NEW n \in Node
        PROVE  /\ Waiters(n)' = Waiters(n) /\ ready' = ready
               /\ n # a => Holders(n)' = Holders(n)
    <3>1. want'[t] = want[t]
      BY <1>1
    <3>2. Waiters(n)' = Waiters(n)
      BY <1>19, <3>1, HoldersStep
    <3>3. n # a => Holders(n)' = Holders(n)
      BY <1>5, <1>18, <1>19, HoldersStep
    <3> QED
      BY <1>1, <3>2, <3>3
  <2>2. ASSUME NEW n \in inodelist'
        PROVE  LockSound(mem'[n].lock, Waiters(n)' \ ready', Waiters(n)' \cap ready',
                         Holders(n)', mem'[n].leaked)
    <3>1. /\ n \in Node /\ n \in inodelist /\ mem'[n].lock = mem[n].lock
          /\ Waiters(n)' = Waiters(n) /\ ready' = ready
      BY <1>7, <1>15, <2>1
    <3>2. LockSound(mem[n].lock, Waiters(n) \ ready, Waiters(n) \cap ready, Holders(n),
                    mem[n].leaked)
      BY <1>2, <3>1 DEF LocksSound
    <3>3. CASE n = a
      <4>1. mem'[n].leaked = TRUE
        BY <1>7, <3>1, <3>3
      <4> QED
        BY <3>1, <3>2, <4>1 DEF LockSound
    <3>4. CASE n # a
      <4>1. mem'[n].leaked = mem[n].leaked /\ Holders(n)' = Holders(n)
        BY <1>7, <2>1, <3>1, <3>4
      <4> QED
        BY <3>1, <3>2, <4>1
    <3> QED
      BY <3>3, <3>4
  <2>3. ASSUME NEW n \in inodelist', mem'[n].kind = Junk
        PROVE  /\ mem'[n].lock.operation = "WRITE" /\ mem'[n].lock.readers = 0
               /\ Waiters(n)' \cap ready' = {}
               /\ \E u \in Task : pc'[u] = "loading" /\ at'[u] = n /\ Holders(n)' = {u}
    <3>1. /\ n \in Node /\ n \in inodelist /\ mem[n].kind = Junk /\ n # a
          /\ mem'[n].lock = mem[n].lock
      BY <1>5, <1>7, <1>15, <2>3
    <3>2. /\ mem[n].lock.operation = "WRITE" /\ mem[n].lock.readers = 0
          /\ Waiters(n) \cap ready = {}
      BY <1>2, <3>1 DEF JunkLocked
    <3>3. PICK u \in Task : pc[u] = "loading" /\ at[u] = n /\ Holders(n) = {u}
      BY <1>2, <3>1 DEF JunkLocked
    <3>4. u # t /\ pc'[u] = "loading" /\ at'[u] = n
      BY <1>1, <1>8, <3>3
    <3> QED
      BY <2>1, <3>1, <3>2, <3>3, <3>4
  <2>4. LocksSound'
    BY <2>2 DEF LocksSound
  <2>5. JunkLocked'
    BY <2>3 DEF JunkLocked
  <2> QED
    BY <2>4, <2>5
<1>20. /\ \A m \in Node : mem[m].refs > 0 /\ mem'[m].refs > 0 =>
             /\ Survives(m)
             /\ mem[m].kind = Junk => mem'[m].kind = Junk \/ (pc[t] = "loading" /\ at[t] = m)
       /\ \A u \in Task \ {t} : fd[u] # NULL /\ mem'[fd[u]].refs > 0 =>
             mem'[fd[u]].parent = mem[fd[u]].parent
  BY <1>11, <1>14
<1> QED
  BY <1>2, <1>9, <1>10, <1>12, <1>13, <1>16, <1>17, <1>19, <1>20, StepIInv

\* A child that is not in the cache is added to it, locked, and its disk read
\* begins.
LEMMA LoadChildStep ==
    ASSUME IInv, ~ Dangling, NEW t \in Task, LoadChild(t)
    PROVE  IInv'
<1> DEFINE a == at[t]
           cp == ChildPath(t)
           new == [Blank EXCEPT !.path = cp, !.refs = 1, !.lock = LoaderLock]
           label == "loading"
<1>0. PICK c \in Node : /\ mem[c].refs = 0 /\ mem' = [mem EXCEPT ![c] = new]
                        /\ at' = [at EXCEPT ![t] = c]
  <2> DEFINE free == {n \in Node : mem[n].refs = 0}
             child == CHOOSE n \in free : TRUE
  <2>1. /\ free # {} /\ mem' = [mem EXCEPT ![child] = new]
        /\ at' = [at EXCEPT ![t] = child]
    BY DEF LoadChild
  <2>2. child \in free
    BY <2>1
  <2>3. child \in Node /\ mem[child].refs = 0
    BY <2>2
  <2> HIDE DEF child, new
  <2> QED
    BY <2>1, <2>3
<1>1. /\ want[t] = NoWant /\ pc[t] = "missed" /\ Cached(cp) = NULL
      /\ mem' = [mem EXCEPT ![c] = new]
      /\ at' = [at EXCEPT ![t] = c]
      /\ pc' = [pc EXCEPT ![t] = label] /\ cpu' = NULL /\ ready' = ready \ {t}
      /\ disk' = disk /\ call' = call /\ loaded' = loaded /\ want' = want /\ fd' = fd
  BY <1>0 DEF LoadChild, CachedNow, At, TransferAndGoto, Goto
<1>2. /\ TypeOK /\ Shape(t) /\ RootSound /\ RefsCounted /\ NULL \notin Node
      /\ LocksSound /\ JunkLocked /\ PathsFit(t) /\ KindsRead(t) /\ PathsUnique
      /\ mem \in [Node -> Inode] /\ want[t].node = NULL
  BY <1>1, WantFacts DEF IInv, Sound, TypeOK
<1>3. c \in Node /\ mem[c].refs = 0 /\ c \notin inodelist
  BY <1>0 DEF inodelist
<1>4. /\ Len(loaded[t]) \in Nat /\ Len(loaded[t]) > 0
      /\ Len(loaded[t]) <= Len(call[t].path)
      /\ cp = First(call[t].path, Len(loaded[t])) /\ cp \in Path
      /\ Base(t) = 0 /\ a \in Node /\ a \in inodelist /\ parentOf(t) = a
  BY <1>1, ChildFacts
<1>5. \A n \in inodelist : mem[n].path # cp
  BY <1>1, <1>2, CachedFacts
<1>6. new \in Inode /\ new.path = cp /\ new.refs = 1 /\ new.lock = LoaderLock
      /\ new.kind = Junk /\ new.parent = NULL /\ new.hit = FALSE /\ new.leaked = FALSE
  <2> DEFINE b == Blank
             k == LoaderLock
             one == 1
  <2>1. one \in 0 .. MaxRefs /\ k \in Lock
    <3>1. MaxRefs \in Nat /\ MaxRefs >= 1
      BY TreeAssumption
    <3>2. k \in Lock
      BY LockNew DEF LockSound
    <3> QED
      BY <3>1, <3>2
  <2>2. b \in Inode /\ b.kind = Junk /\ b.parent = NULL /\ b.hit = FALSE /\ b.leaked = FALSE
    BY BlankFacts
  <2>3. new = [b EXCEPT !.path = cp, !.refs = one, !.lock = k]
    OBVIOUS
  <2> HIDE DEF b, k, one, new, cp
  <2>4. /\ new \in Inode /\ new.path = cp /\ new.refs = one /\ new.lock = k
        /\ new.kind = b.kind /\ new.parent = b.parent /\ new.hit = b.hit
        /\ new.leaked = b.leaked
    BY <1>4, <2>1, <2>2, <2>3 DEF Inode
  <2> QED
    BY <2>2, <2>4 DEF k, one
<1>7. a = at[t] /\ a # c
  BY <1>3, <1>4
<1> HIDE DEF a, cp, new
<1>8. /\ mem' \in [Node -> Inode]
      /\ mem'[c] = new
      /\ \A m \in Node : m # c => mem'[m] = mem[m]
  BY <1>1, <1>2, <1>3, <1>6
<1>9. /\ pc' \in [Task -> Idle \cup Walking \cup Opening] /\ pc'[t] = "loading"
      /\ at' \in [Task -> Node \cup {NULL}] /\ at'[t] = c
      /\ \A u \in Task \ {t} : pc'[u] = pc[u] /\ at'[u] = at[u]
  BY <1>1, <1>2, <1>3 DEF TypeOK, Walking
<1>10. TypeOK'
  BY <1>1, <1>2, <1>8, <1>9 DEF TypeOK
<1>11. \A u \in Task \ {t} : Same(u)
  BY <1>1, <1>9 DEF Same
<1>12. ASSUME NEW u \in Task
       PROVE  /\ fd[u] # NULL => /\ fd[u] \in Node /\ fd[u] # c /\ mem[fd[u]].parent # c
                                 /\ mem'[fd[u]].parent = mem[fd[u]].parent
              /\ at[u] # c
              /\ \A i \in 1 .. Len(loaded[u]) : loaded[u][i] \in Node /\ loaded[u][i] # c
  <2>1. Pointers(u) \subseteq inodelist /\ c # NULL
    BY <1>2, <1>3, PointerFacts
  <2>2. /\ at[u] # NULL => at[u] \in Pointers(u)
        /\ fd[u] # NULL => /\ fd[u] \in Pointers(u)
                           /\ mem[fd[u]].parent # NULL => mem[fd[u]].parent \in Pointers(u)
        /\ \A i \in 1 .. Len(loaded[u]) : loaded[u][i] \in Pointers(u)
    BY <1>2, PointerFacts
  <2>3. /\ fd[u] # NULL => fd[u] \in Node
        /\ \A i \in 1 .. Len(loaded[u]) : loaded[u][i] \in Node
    BY <1>2, TaskFacts
  <2> QED
    BY <1>3, <1>8, <2>1, <2>2, <2>3
<1>13. ASSUME NEW u \in Task, NEW i \in 0 .. 3 PROVE ~ Points(u, i, c)
  BY <1>2, <1>3, <1>12 DEF Points
<1>14. \A u \in Task \ {t} :
           fd[u] # NULL => mem'[fd[u]].parent \in {mem[fd[u]].parent, NULL}
  BY <1>12
<1>15. \A i \in (0 .. 3) \ {0} : \A n : Points(t, i, n)' => Points(t, i, n)
  BY <1>1, <1>12 DEF Points
<1>16. CountFits(c)'
  <2> DEFINE x == << t, 0 >>
             B == Slots(c)'
             none == {}
  <2>1. \A s \in Slots(c)' : \/ s \in Slots(c) /\ s[1] # t
                             \/ \E i \in 0 .. 3 : s = << t, i >> /\ Points(t, i, c)'
    BY <1>2, <1>3, <1>11, <1>14, SlotsStep
  <2>2. Slots(c) = {}
    BY <1>13 DEF Slots
  <2>3. \A i \in 0 .. 3 : Points(t, i, c)' => i = 0
    BY <1>13, <1>15
  <2>4. B \subseteq none \cup {x}
    BY <2>1, <2>2, <2>3
  <2>5. none \in SUBSET (Task \X (0 .. 3)) /\ Cardinality(none) = 0
    BY FS_EmptySet
  <2> HIDE DEF B, none, x
  <2>6. Cardinality(B) <= Cardinality(none) + 1 /\ Cardinality(B) \in Nat
    BY <2>4, <2>5, CountChange
  <2>7. Cardinality(B) <= 1
    BY <2>5, <2>6
  <2>8. root # c /\ mem'[c].refs = 1
    BY <1>2, <1>3, <1>6, <1>8 DEF RootSound
  <2> QED
    BY <2>6, <2>7, <2>8 DEF CountFits, B
<1>17. RefsCounted'
  <2>1. ASSUME NEW n \in Node, n # c PROVE CountFits(n)'
    <3>1. \A i \in 0 .. 3 : Points(t, i, n)' => Points(t, i, n)
      <4>1. ~ Points(t, 0, n)'
        BY <1>9, <2>1 DEF Points
      <4> QED
        BY <1>15, <4>1
    <3>2. /\ mem'[n].hit <=> mem[n].hit
          /\ mem'[n].refs \in Nat /\ mem'[n].refs >= mem[n].refs
      <4>1. mem'[n] = mem[n]
        BY <1>8, <2>1
      <4> QED
        BY <1>2, <4>1, NodeFacts
    <3>3. CountFits(n) /\ 0 \in 0 .. 3
      BY <1>2 DEF RefsCounted
    <3> QED
      BY <1>2, <1>11, <1>14, <3>1, <3>2, <3>3, CountMoves
  <2> QED
    BY <1>16, <2>1 DEF RefsCounted
<1>18. Shape(t)'
  <2>1. loaded'[t] # << >> /\ Len(loaded'[t]) <= Len(call'[t].path)
    BY <1>1, <1>2, <1>4, TaskFacts
  <2> QED
    BY <1>1, <1>2, <1>3, <1>9, <2>1 DEF Shape, Idle, Walking, Opening
<1>19. \A m \in Node : mem[m].refs > 0 =>
          /\ m # c /\ mem'[m] = mem[m] /\ Survives(m)
  BY <1>3, <1>8 DEF Survives
<1>20. inodelist' = inodelist \cup {c} /\ inodelist \subseteq Node
  <2>1. mem'[c].refs > 0
    BY <1>6, <1>8
  <2> QED
    BY <1>3, <1>8, <2>1 DEF inodelist
<1>21. PathsUnique' /\ RootSound'
  <2>1. root \in Node
    BY TreeAssumption DEF root, Node
  <2>2. RootSound'
    BY <1>2, <1>19, <2>1 DEF RootSound
  <2>3. \A m \in inodelist : mem'[m].path = mem[m].path /\ mem'[m].path # mem'[c].path
    BY <1>5, <1>6, <1>8, <1>19, <1>20 DEF inodelist
  <2>4. PathsUnique'
    BY <1>2, <1>20, <2>3 DEF PathsUnique
  <2> QED
    BY <2>2, <2>4
<1>22. PathsFit(t)' /\ KindsRead(t)' /\ WantFits(t)'
  <2>1. FdPath(t)' /\ FdKinds(t)'
    <3>1. FdPath(t) /\ FdKinds(t)
      BY <1>2 DEF PathsFit, KindsRead
    <3>2. fd[t] # NULL =>
             /\ mem'[fd[t]] = mem[fd[t]]
             /\ mem[fd[t]].parent # NULL => mem'[mem[fd[t]].parent] = mem[mem[fd[t]].parent]
      <4>1. fd[t] # NULL => fd[t] \in Node /\ mem[fd[t]].parent \in Node \cup {NULL}
        BY <1>2, <1>12, NodeFacts
      <4> QED
        BY <1>8, <1>12, <4>1
    <3> QED
      BY <1>1, <3>1, <3>2 DEF FdPath, FdKinds
  <2>2. Base(t)' = 0
    BY <1>9 DEF Base, Opening
  <2>3. mem'[at'[t]].path = First(call'[t].path, 0 + Len(loaded'[t]))
    BY <1>1, <1>4, <1>6, <1>8, <1>9
  <2>4. \A i \in 1 .. Len(loaded'[t]) :
           /\ mem'[loaded'[t][i]].path = First(call'[t].path, 0 + i - 1)
           /\ mem'[loaded'[t][i]].kind # Junk
    BY <1>1, <1>2, <1>4, <1>8, <1>12 DEF PathsFit, KindsRead
  <2>5. PathsFit(t)'
    BY <2>1, <2>2, <2>3, <2>4 DEF PathsFit
  <2>6. KindsRead(t)'
    BY <1>6, <1>8, <1>9, <2>1, <2>4, <2>5 DEF KindsRead
  <2> QED
    BY <1>1, <2>5, <2>6 DEF WantFits
<1>23. Holds(t) = {a} /\ Holds(t)' = {a, c}
  <2>1. Holds(t) = {a}
    BY <1>1, <1>2, <1>4, <1>7 DEF Holds
  <2>2. parentOf(t)' = a
    BY <1>1, <1>4 DEF parentOf
  <2>3. want'[t].node = NULL
    BY <1>1, <1>2
  <2>4. Holds(t)' = {a, c}
    BY <1>2, <1>3, <1>4, <1>9, <2>2, <2>3 DEF Holds
  <2> QED
    BY <2>1, <2>4
<1>24. ASSUME OthersHold(t) PROVE LocksSound' /\ JunkLocked'
  <2>1. ASSUME NEW n
        PROVE  /\ Waiters(n)' = Waiters(n)
               /\ n # c => Holders(n)' = Holders(n)
               /\ n = c => Holders(n)' = Holders(n) \cup {t}
               /\ n # NULL => t \notin Waiters(n)
    <3>1. want'[t] = want[t]
      BY <1>1
    <3>2. Waiters(n)' = Waiters(n)
      BY <1>24, <3>1, HoldersStep
    <3>3. n # c => (n \in Holds(t)' <=> n \in Holds(t))
      BY <1>23
    <3>4. n # c => Holders(n)' = Holders(n)
      BY <1>24, <3>3, HoldersStep
    <3>5. n = c => Holders(n)' = Holders(n) \cup {t}
      BY <1>23, <1>24, HoldersStep
    <3>6. n # NULL => t \notin Waiters(n)
      BY <1>2 DEF Waiters
    <3> QED
      BY <3>2, <3>4, <3>5, <3>6
  <2>2. Waiters(c) = {} /\ Holders(c) = {}
    <3>1. ASSUME NEW u \in Task PROVE want[u].node # c /\ c \notin Holds(u)
      BY <1>2, <1>3, WantFacts
    <3> QED
      BY <3>1 DEF Waiters, Holders
  <2>3. ASSUME NEW n \in inodelist'
        PROVE  LockSound(mem'[n].lock, Waiters(n)' \ ready', Waiters(n)' \cap ready',
                         Holders(n)', mem'[n].leaked)
    <3>1. CASE n = c
      <4>1. /\ Waiters(n)' \ ready' = {} /\ Waiters(n)' \cap ready' = {}
            /\ Holders(n)' = {t}
        BY <2>1, <2>2, <3>1
      <4>2. mem'[n].lock = LoaderLock /\ mem'[n].leaked = FALSE
        BY <1>6, <1>8, <3>1
      <4> QED
        BY <4>1, <4>2, LockNew
    <3>2. CASE n # c
      <4>1. n \in inodelist /\ n \in Node /\ mem'[n] = mem[n] /\ n # NULL
        BY <1>2, <1>8, <1>20, <3>2
      <4>2. /\ Waiters(n)' \ ready' = Waiters(n) \ ready
            /\ Waiters(n)' \cap ready' = Waiters(n) \cap ready
            /\ Holders(n)' = Holders(n)
        BY <1>1, <2>1, <3>2, <4>1
      <4> QED
        BY <1>2, <4>1, <4>2 DEF LocksSound
    <3> QED
      BY <3>1, <3>2
  <2>4. ASSUME NEW n \in inodelist', mem'[n].kind = Junk
        PROVE  /\ mem'[n].lock.operation = "WRITE" /\ mem'[n].lock.readers = 0
               /\ Waiters(n)' \cap ready' = {}
               /\ \E u \in Task : pc'[u] = "loading" /\ at'[u] = n /\ Holders(n)' = {u}
    <3>1. CASE n = c
      <4>1. Waiters(n)' \cap ready' = {} /\ Holders(n)' = {t}
        BY <2>1, <2>2, <3>1
      <4>2. mem'[n].lock.operation = "WRITE" /\ mem'[n].lock.readers = 0
        BY <1>6, <1>8, <3>1, LockNew
      <4> QED
        BY <1>9, <3>1, <4>1, <4>2
    <3>2. CASE n # c
      <4>1. n \in inodelist /\ n \in Node /\ mem'[n] = mem[n] /\ n # NULL
        BY <1>2, <1>8, <1>20, <3>2
      <4>2. mem[n].kind = Junk
        BY <2>4, <4>1
      <4>3. /\ mem[n].lock.operation = "WRITE" /\ mem[n].lock.readers = 0
            /\ Waiters(n) \cap ready = {}
        BY <1>2, <4>1, <4>2 DEF JunkLocked
      <4>4. PICK u \in Task : pc[u] = "loading" /\ at[u] = n /\ Holders(n) = {u}
        BY <1>2, <4>1, <4>2 DEF JunkLocked
      <4>5. u # t /\ pc'[u] = "loading" /\ at'[u] = n
        BY <1>1, <1>9, <4>4
      <4>6. Waiters(n)' \cap ready' = {} /\ Holders(n)' = Holders(n)
        BY <1>1, <2>1, <3>2, <4>3
      <4> QED
        BY <4>1, <4>3, <4>4, <4>5, <4>6
    <3> QED
      BY <3>1, <3>2
  <2>5. LocksSound'
    BY <2>3 DEF LocksSound
  <2>6. JunkLocked'
    BY <2>4 DEF JunkLocked
  <2> QED
    BY <2>5, <2>6
<1>25. /\ \A m \in Node : mem[m].refs > 0 /\ mem'[m].refs > 0 =>
             /\ Survives(m)
             /\ mem[m].kind = Junk => mem'[m].kind = Junk \/ (pc[t] = "loading" /\ at[t] = m)
       /\ \A u \in Task \ {t} : fd[u] # NULL /\ mem'[fd[u]].refs > 0 =>
             mem'[fd[u]].parent = mem[fd[u]].parent
  BY <1>12, <1>19
<1> QED
  BY <1>2, <1>10, <1>11, <1>17, <1>18, <1>21, <1>22, <1>24, <1>25, StepIInv

\* A step in which nothing changes.
LEMMA StutterStep == ASSUME IInv, UNCHANGED vars PROVE IInv'
<1>1. /\ disk' = disk /\ mem' = mem /\ pc' = pc /\ call' = call /\ at' = at
      /\ loaded' = loaded /\ want' = want /\ fd' = fd /\ cpu' = cpu /\ ready' = ready
  BY DEF vars, locals
<1>2. TypeOK' /\ PathsUnique' /\ RootSound' /\ inodelist' = inodelist
  <2>1. TypeOK'
    BY <1>1 DEF IInv, TypeOK
  <2>2. inodelist' = inodelist
    BY <1>1 DEF inodelist
  <2>3. PathsUnique'
    BY <1>1, <2>2 DEF IInv, PathsUnique
  <2>4. RootSound'
    BY <1>1 DEF IInv, RootSound
  <2> QED
    BY <2>1, <2>2, <2>3, <2>4
<1>3. ASSUME NEW t \in Task
      PROVE  /\ Shape(t)' /\ parentOf(t)' = parentOf(t) /\ gparentOf(t)' = gparentOf(t)
             /\ Base(t)' = Base(t)
  <2>1. parentOf(t)' = parentOf(t) /\ gparentOf(t)' = gparentOf(t) /\ Base(t)' = Base(t)
    BY <1>1 DEF parentOf, gparentOf, Base
  <2>2. Shape(t)
    BY DEF IInv
  <2> QED
    BY <1>1, <2>1, <2>2 DEF Shape
<1>4. RefsCounted'
  <2>1. \A n : Slots(n)' = Slots(n)
    BY <1>1 DEF Slots, Points
  <2> QED
    BY <1>1, <2>1 DEF IInv, RefsCounted, CountFits
<1>5. Dangling' = Dangling
  BY <1>1 DEF Dangling, Pointers
<1>6. ASSUME Sound PROVE Sound'
  <2>1. ASSUME NEW t \in Task PROVE PathsFit(t)' /\ KindsRead(t)' /\ WantFits(t)'
    <3>1. PathsFit(t) /\ KindsRead(t) /\ WantFits(t)
      BY <1>6 DEF Sound
    <3>2. PathsFit(t)'
      BY <1>1, <1>3, <3>1 DEF PathsFit, FdPath
    <3>3. KindsRead(t)'
      BY <1>1, <3>1 DEF KindsRead, FdKinds
    <3>4. WantFits(t)'
      BY <1>1, <1>3, <3>1 DEF WantFits
    <3> QED
      BY <3>2, <3>3, <3>4
  <2>2. \A n : Holders(n)' = Holders(n) /\ Waiters(n)' = Waiters(n)
    <3>1. \A t \in Task : Holds(t)' = Holds(t)
      BY <1>1, <1>3 DEF Holds
    <3> QED
      BY <1>1, <3>1 DEF Holders, Waiters
  <2>3. LocksSound'
    BY <1>1, <1>2, <1>6, <2>2 DEF Sound, LocksSound
  <2>4. JunkLocked'
    BY <1>1, <1>2, <1>6, <2>2 DEF Sound, JunkLocked
  <2> QED
    BY <2>1, <2>3, <2>4 DEF Sound
<1> QED
  BY <1>2, <1>3, <1>4, <1>5, <1>6 DEF IInv

LEMMA NextIInv == ASSUME IInv, [Next]_vars PROVE IInv'
<1>1. CASE UNCHANGED vars
  BY <1>1, StutterStep
<1>2. CASE Next
  <2>1. ~ Dangling
    BY <1>2 DEF Next
  <2>2. ASSUME NEW t \in Task, WakeInLock(t) PROVE IInv'
    BY <2>1, <2>2, WakeInLockStep
  <2>3. ASSUME NEW t \in Task, DiskDone(t) PROVE IInv'
    BY <2>1, <2>3, DiskDoneStep
  <2>4. ASSUME NEW t \in Task, NEW c \in Calls, OpenRoot(t, c) PROVE IInv'
    BY <2>1, <2>4, OpenRootStep
  <2>5. ASSUME NEW t \in Task, Reached(t) PROVE IInv'
    BY <2>1, <2>5, ReachedStep
  <2>6. ASSUME NEW t \in Task, Descend(t) PROVE IInv'
    BY <2>1, <2>6, DescendStep
  <2>7. ASSUME NEW t \in Task, Examine(t) PROVE IInv'
    <3>1. CASE mem[at[t]].kind = "dir"
      BY <2>1, <2>7, <3>1, ExamineDirectory
    <3>2. CASE mem[at[t]].kind # "dir"
      BY <2>1, <2>7, <3>2, ExamineOther
    <3> QED
      BY <3>1, <3>2
  <2>8. ASSUME NEW t \in Task, ChildCached(t) PROVE IInv'
    BY <2>1, <2>8, ChildCachedStep
  <2>9. ASSUME NEW t \in Task, ChildMissed(t) PROVE IInv'
    BY <2>1, <2>9, ChildMissedStep
  <2>10. ASSUME NEW t \in Task, ChildLoadedMeanwhile(t) PROVE IInv'
    BY <2>1, <2>10, ChildLoadedMeanwhileStep
  <2>11. ASSUME NEW t \in Task, LoadChild(t) PROVE IInv'
    BY <2>1, <2>11, LoadChildStep
  <2>12. ASSUME NEW t \in Task, ChildLoaded(t) PROVE IInv'
    BY <2>1, <2>12, ChildLoadedStep
  <2>13. ASSUME NEW t \in Task, LockForOpen(t) PROVE IInv'
    BY <2>1, <2>13, LockForOpenStep
  <2>14. ASSUME NEW t \in Task, BeginCreate(t) \/ EndCreate(t) \/ OpenExisting(t) PROVE IInv'
    BY <2>1, <2>14, OpenPlainStep
  <2>15. ASSUME NEW t \in Task, CreateInode(t) PROVE IInv'
    BY <2>1, <2>15, CreateInodeStep
  <2>16. ASSUME NEW t \in Task, OpenReturns(t) PROVE IInv'
    BY <2>1, <2>16, OpenReturnsStep
  <2>17. ASSUME NEW t \in Task, BeginRead(t) \/ BeginWrite(t) \/ LockToWrite(t) PROVE IInv'
    BY <2>1, <2>17, FileLockStep
  <2>18. ASSUME NEW t \in Task, Transfer(t) PROVE IInv'
    BY <2>1, <2>18, TransferStep
  <2>19. ASSUME NEW t \in Task, Unlock(t) PROVE IInv'
    BY <2>1, <2>19, UnlockStep
  <2>20. ASSUME NEW t \in Task, Close(t) PROVE IInv'
    BY <2>1, <2>20, CloseStep
  <2>21. ASSUME NEW t \in Task, NEW child \in Task, Clone(t, child) PROVE IInv'
    BY <2>1, <2>21, CloneStep
  <2> QED
    BY <1>2, <2>2, <2>3, <2>4, <2>5, <2>6, <2>7, <2>8, <2>9, <2>10, <2>11, <2>12, <2>13,
       <2>14, <2>15, <2>16, <2>17, <2>18, <2>19, <2>20, <2>21 DEF Next
<1> QED
  BY <1>1, <1>2

---------------------------------------------------------------------------
(* What holds in every state. *)

\* The inductive invariant holds of every run of fs_open, fs_read, fs_write,
\* fs_close and fd_table_clone, with any tasks and any tree on the disk.
THEOREM Invariance == Spec => []IInv
<1>1. Init => IInv
  BY InitIInv
<1>2. IInv /\ [Next]_vars => IInv'
  BY NextIInv
<1> QED
  BY <1>1, <1>2, PTL DEF Spec

\* fs_node_child never adds a path to the cache that is in it already, though
\* it sleeps in the lock of the directory between looking and adding.
THEOREM CacheIsUnique == Spec => []CacheUnique
<1>1. IInv => CacheUnique
  BY DEF IInv, CacheUnique, PathsUnique
<1> QED
  BY <1>1, Invariance, PTL

\* fs_node_open and fs_open look at no inode that fs_node_child has still to
\* read from the disk, though it is in the cache already.
THEOREM InodesFilledBeforeUse == Spec => []FilledBeforeUse
<1>1. ASSUME IInv, ~ Dangling, NEW t \in Task
      PROVE  /\ pc[t] \in {"examine", "locked"} /\ want[t] = NoWant => mem[at[t]].kind # Junk
             /\ fd[t] # NULL => mem[fd[t]].kind \in {"file", "dir"}
  <2>1. ASSUME pc[t] \in {"examine", "locked"}, want[t] = NoWant PROVE mem[at[t]].kind # Junk
    <3>1. at[t] \in Node /\ want[t].node = NULL /\ NULL \notin Node
      BY <1>1, <2>1, WantFacts DEF IInv, Shape, Idle
    <3>2. at[t] \in Holds(t)
      BY <2>1, <3>1 DEF Holds
    <3> QED
      BY <1>1, <2>1, <3>2, HeldRead
  <2>2. fd[t] # NULL => mem[fd[t]].kind \in {"file", "dir"}
    BY <1>1 DEF IInv, Sound, KindsRead, FdKinds
  <2> QED
    BY <2>1, <2>2
<1>2. IInv => FilledBeforeUse
  BY <1>1 DEF FilledBeforeUse
<1> QED
  BY <1>2, Invariance, PTL

\* An inode that is freed while a task has it was taken from the cache by an
\* fs_node_child that did not count it: the counts of fs_node_open, fs_open,
\* fs_close and fd_table_clone are right otherwise.
THEOREM FreedOnlyAfterHit == Spec => []FreedInUseOnlyAfterHit
<1>1. ASSUME IInv, NEW t \in Task, NEW n \in Pointers(t), mem[n].refs = 0
      PROVE  mem[n].hit
  <2>1. TypeOK /\ Shape(t) /\ RefsCounted
    BY <1>1 DEF IInv
  <2>2. n \in Node /\ NULL \notin Node
    <3>1. Pointers(t) \subseteq Node
      BY <2>1, PointerFacts
    <3> QED
      BY <2>1, <3>1, TaskFacts
  <2>3. \E i \in 0 .. 3 : Points(t, i, n)
    <3>1. \/ \E i \in 1 .. Len(loaded[t]) : loaded[t][i] = n
          \/ n = at[t] \/ n = fd[t]
          \/ fd[t] # NULL /\ n = mem[fd[t]].parent
      BY <2>1, PointerFacts
    <3>2. 0 \in 0 .. 3 /\ 1 \in 0 .. 3 /\ 2 \in 0 .. 3 /\ 3 \in 0 .. 3
      OBVIOUS
    <3>3. CASE \E i \in 1 .. Len(loaded[t]) : loaded[t][i] = n
      BY <3>2, <3>3 DEF Points
    <3>4. CASE n = at[t]
      <4>1. CASE pc[t] \notin {"child", "missed"}
        BY <3>2, <3>4, <4>1 DEF Points
      <4>2. CASE pc[t] \in {"child", "missed"}
        <5>1. parentOf(t) = n
          BY <2>1, <3>4, <4>2 DEF Shape
        <5>2. /\ loaded[t] # << >> /\ Len(loaded[t]) \in Nat
              /\ n = loaded[t][Len(loaded[t])] /\ Len(loaded[t]) # 0
          BY <2>1, <2>2, <5>1, TaskFacts
        <5>3. Len(loaded[t]) \in 1 .. Len(loaded[t])
          BY <5>2
        <5> QED
          BY <3>2, <5>2, <5>3 DEF Points
      <4> QED
        BY <4>1, <4>2
    <3>5. CASE n = fd[t]
      BY <3>2, <3>5 DEF Points
    <3>6. CASE fd[t] # NULL /\ n = mem[fd[t]].parent
      BY <3>2, <3>6 DEF Points
    <3> QED
      BY <3>1, <3>3, <3>4, <3>5, <3>6
  <2>4. Slots(n) \in SUBSET (Task \X (0 .. 3)) /\ Slots(n) # {}
    <3>1. Slots(n) \in SUBSET (Task \X (0 .. 3))
      BY DEF Slots
    <3>2. PICK i \in 0 .. 3 : Points(t, i, n)
      BY <2>3
    <3>3. << t, i >> \in Slots(n)
      BY <3>2 DEF Slots
    <3> QED
      BY <3>1, <3>3
  <2>5. Cardinality(Slots(n)) \in Nat /\ Cardinality(Slots(n)) > 0
    BY <2>4, CountChange
  <2>6. CountFits(n)
    BY <2>1, <2>2 DEF RefsCounted
  <2> QED
    BY <1>1, <2>5, <2>6 DEF CountFits
<1>2. IInv => FreedInUseOnlyAfterHit
  BY <1>1 DEF FreedInUseOnlyAfterHit
<1> QED
  BY <1>2, Invariance, PTL

\* Among some tasks, one that waits for an inode as deep as any.
LEMMA Deepest ==
    ASSUME NEW Q \in SUBSET Task, Q # {}, NEW f \in [Q -> Nat]
    PROVE  \E u \in Q : \A v \in Q : f[v] <= f[u]
<1> DEFINE D(u) == {v \in Q : f[v] > f[u]}
           E == {D(u) : u \in Q}
           R == StrictSubsetOrdering(Task)
           F == FiniteSubsetsOf(Task)
<1>1. IsWellFoundedOn(R, F)
  BY FS_StrictSubsetOrderingWellFounded
<1>2. F = SUBSET Task
  BY TreeAssumption, FS_FiniteSubsetsOfFinite
<1>3. E \subseteq F /\ E # {}
  <2>1. \A u \in Q : D(u) \in SUBSET Task
    OBVIOUS
  <2>2. E \subseteq SUBSET Task
    <3> HIDE DEF D
    <3> QED
      BY <2>1
  <2>3. PICK u : u \in Q
    OBVIOUS
  <2>4. D(u) \in E
    <3> HIDE DEF D
    <3> QED
      BY <2>3
  <2> QED
    BY <1>2, <2>2, <2>4
<1>4. \E x \in E : \A y \in E : ~ (<< y, x >> \in R)
  <2> HIDE DEF E, R, F
  <2> QED
    BY <1>1, <1>3, WFMin
<1>5. PICK u \in Q : \A y \in E : ~ (<< y, D(u) >> \in R)
  BY <1>4
<1>6. ASSUME NEW v \in Q, f[v] > f[u] PROVE FALSE
  <2>1. D(v) \subseteq D(u)
    BY <1>6
  <2>2. v \in D(u) /\ v \notin D(v)
    BY <1>6
  <2>3. << D(v), D(u) >> \in R
    BY <2>1, <2>2 DEF StrictSubsetOrdering
  <2> QED
    BY <1>5, <2>3
<1> QED
  BY <1>6

\* The order in which locks are taken: a task that sleeps in one has entered
\* only locks of inodes nearer the root (the grandparent, the parent and then
\* the inode in fs_open, the parent and then the inode in fs_write).
LEMMA Deeper ==
    ASSUME IInv, ~ Dangling, NEW t \in Task, want[t] # NoWant, NEW n \in Holds(t)
    PROVE  Len(mem[n].path) < Len(mem[want[t].node].path)
<1>1. TypeOK /\ Shape(t) /\ WantFits(t) /\ NULL \notin Node
  BY NodeFacts, WantFacts DEF IInv, Sound
<1>2. /\ n \in Node /\ n # want[t].node /\ n # NULL
      /\ Len(loaded[t]) \in Nat /\ Len(call[t].path) \in Nat
      /\ parentOf(t) # NULL => loaded[t] # << >> /\ parentOf(t) = loaded[t][Len(loaded[t])]
      /\ gparentOf(t) # NULL => Len(loaded[t]) >= 2 /\ gparentOf(t) = loaded[t][1]
      /\ loaded[t] = << >> <=> Len(loaded[t]) = 0
  BY <1>1, TaskFacts DEF Holds
<1>3. \/ pc[t] \in {"examine", "missed", "locked"} /\ want[t].node = at[t]
      \/ pc[t] = "lockparent" /\ want[t].node = gparentOf(t)
      \/ pc[t] = "locknode" /\ want[t].node = parentOf(t)
      \/ pc[t] \in {"reading", "writing"} /\ want[t].node = fd[t]
      \/ pc[t] = "locksecond" /\ want[t].node = mem[fd[t]].parent
  BY <1>1 DEF WantFits
<1>4. CASE pc[t] \in {"examine", "missed", "lockparent", "reading", "locksecond"}
  BY <1>2, <1>3, <1>4 DEF Holds
<1>5. CASE pc[t] \in {"locked", "locknode"}
  <2>1. /\ Base(t) \in Nat
        /\ \A i \in 1 .. Len(loaded[t]) :
              Len(mem[loaded[t][i]].path) = Base(t) + i - 1
        /\ Len(mem[at[t]].path) = Base(t) + Len(loaded[t])
    BY <1>5, WalkFacts DEF Idle, Opening
  <2>2. CASE pc[t] = "locked"
    <3>1. want[t].node = at[t] /\ (n = parentOf(t) \/ n = gparentOf(t))
      BY <1>2, <1>3, <2>2 DEF Holds
    <3>2. PICK i \in 1 .. Len(loaded[t]) : n = loaded[t][i]
      <4>1. CASE n = parentOf(t)
        <5>1. Len(loaded[t]) \in 1 .. Len(loaded[t])
          BY <1>2, <4>1
        <5> QED
          BY <1>2, <4>1, <5>1
      <4>2. CASE n = gparentOf(t)
        <5>1. 1 \in 1 .. Len(loaded[t])
          BY <1>2, <4>2
        <5> QED
          BY <1>2, <4>2, <5>1
      <4> QED
        BY <3>1, <4>1, <4>2
    <3>3. Len(mem[n].path) = Base(t) + i - 1
      BY <2>1, <3>2
    <3> QED
      BY <1>2, <2>1, <3>1, <3>3
  <2>3. CASE pc[t] = "locknode"
    <3>1. want[t].node = parentOf(t) /\ n = gparentOf(t)
      BY <1>2, <1>3, <2>3 DEF Holds
    <3>2. /\ Len(loaded[t]) >= 2 /\ n = loaded[t][1]
          /\ 1 \in 1 .. Len(loaded[t]) /\ Len(loaded[t]) \in 1 .. Len(loaded[t])
      BY <1>2, <3>1
    <3>3. want[t].node = loaded[t][Len(loaded[t])]
      BY <1>1, <1>2, <3>1, <1>3 DEF WantFits
    <3>4. /\ Len(mem[n].path) = Base(t) + 1 - 1
          /\ Len(mem[want[t].node].path) = Base(t) + Len(loaded[t]) - 1
      BY <2>1, <3>2, <3>3
    <3> QED
      BY <1>2, <2>1, <3>2, <3>4
  <2> QED
    BY <1>5, <2>2, <2>3
<1>6. CASE pc[t] = "writing"
  <2>1. want[t].node = fd[t] /\ n = mem[fd[t]].parent /\ fd[t] # NULL
    BY <1>1, <1>2, <1>3, <1>6 DEF Holds, WantFits
  <2> QED
    BY <1>2, <2>1, FdFacts
<1> QED
  BY <1>3, <1>4, <1>5, <1>6

\* A sleeper in a lock that nobody left locked is behind a task that will
\* release it, or that was woken and will enter it.
LEMMA SleeperBehind ==
    ASSUME IInv, ~ Dangling, \A m \in Node : ~ mem[m].leaked,
           NEW u \in Task, Queued(u)
    PROVE  /\ u \notin ready /\ pc[u] # "user"
           /\ \/ \E h \in Task : pc[h] # "user" /\ want[u].node \in Holds(h)
              \/ \E w \in ready : pc[w] # "user"
<1> DEFINE n == want[u].node
<1>1. /\ want[u] # NoWant /\ n \in inodelist /\ n \in Node /\ pc[u] # "user"
      /\ NULL \notin Node
  BY WantFacts DEF Queued
<1>2. LockSound(mem[n].lock, Waiters(n) \ ready, Waiters(n) \cap ready, Holders(n),
                mem[n].leaked)
  BY <1>1 DEF IInv, Sound, LocksSound
<1>3. /\ Range(mem[n].lock.procq) = Waiters(n) \ ready
      /\ mem[n].lock.procq # << >> => Holders(n) # {} \/ Waiters(n) \cap ready # {}
  BY <1>1, <1>2 DEF LockSound
<1>4. u \in Range(mem[n].lock.procq)
  BY DEF Queued
<1>5. mem[n].lock.procq # << >>
  <2>1. mem[n].lock.procq \in Seq(Task)
    BY <1>2 DEF LockSound, Lock
  <2> QED
    BY <1>4, <2>1, QueueRange
<1>6. CASE Holders(n) # {}
  <2>1. PICK h \in Task : n \in Holds(h)
    BY <1>6 DEF Holders
  <2>2. pc[h] # "user"
    <3>1. Shape(h) /\ TypeOK
      BY DEF IInv
    <3>2. pc[h] = "user" => at[h] = NULL
      BY <3>1 DEF Shape, Idle
    <3> QED
      BY <1>1, <2>1, <3>2 DEF Holds
  <2> QED
    BY <1>1, <1>3, <1>4, <2>1, <2>2
<1>7. CASE Waiters(n) \cap ready # {}
  <2>1. PICK w \in ready : w \in Task /\ want[w].node = n
    BY <1>7 DEF Waiters
  <2>2. want[w] # NoWant
    BY <1>1, <2>1, WantFacts
  <2>3. pc[w] # "user"
    BY <2>1, <2>2, WantFacts
  <2> QED
    BY <1>1, <1>3, <1>4, <2>1, <2>3
<1> QED
  BY <1>3, <1>5, <1>6, <1>7

\* Tasks never wait for each other's locks in a circle: one of them runs, or
\* sleeps for the disk, as long as fs_node_child has left nothing locked.
THEOREM NeverDeadlocked == Spec => []NoDeadlock
<1>1. ASSUME IInv, ~ Dangling, \A n \in Node : ~ mem[n].leaked,
             NEW t \in Task, Queued(t)
      PROVE  \E u \in Task : u # t /\ pc[u] # "user" /\ (u \in ready \/ ~ Queued(u))
  <2> SUFFICES ASSUME \A u \in Task : u # t /\ pc[u] # "user" => u \notin ready /\ Queued(u)
               PROVE  FALSE
    OBVIOUS
  <2> DEFINE Q == {u \in Task : Queued(u)}
             f == [u \in Q |-> Len(mem[want[u].node].path)]
  <2>1. \A u \in Q : want[u] # NoWant /\ want[u].node \in Node
    BY <1>1, WantFacts DEF Queued
  <2>2. f \in [Q -> Nat]
    <3>1. TypeOK
      BY <1>1 DEF IInv
    <3> QED
      BY <2>1, <3>1, NodeFacts
  <2>3. Q \in SUBSET Task /\ Q # {}
    BY <1>1
  <2>4. \E u \in Q : \A v \in Q : f[v] <= f[u]
    <3> HIDE DEF Q, f
    <3> QED
      BY <2>2, <2>3, Deepest
  <2>5. PICK u \in Q : \A v \in Q : f[v] <= f[u]
    BY <2>4
  <2>6. t \notin ready /\ pc[t] # "user"
    BY <1>1, SleeperBehind
  <2>7. \A w \in ready : pc[w] = "user"
    <3>1. ready \subseteq Task
      BY <1>1 DEF IInv, TypeOK
    <3> QED
      BY <2>6, <3>1
  <2>8. PICK h \in Task : pc[h] # "user" /\ want[u].node \in Holds(h)
    <3>1. u \in Task /\ Queued(u)
      OBVIOUS
    <3> QED
      BY <1>1, <2>7, <3>1, SleeperBehind
  <2>9. h \in Q
    BY <1>1, <2>8
  <2>10. Len(mem[want[u].node].path) < Len(mem[want[h].node].path)
    BY <1>1, <2>1, <2>8, <2>9, Deeper
  <2>11. f[u] < f[h] /\ f[h] <= f[u] /\ f[u] \in Nat /\ f[h] \in Nat
    BY <2>2, <2>5, <2>9, <2>10
  <2> QED
    BY <2>11
<1>2. IInv => NoDeadlock
  BY <1>1 DEF NoDeadlock
<1> QED
  BY <1>2, Invariance, PTL
=============================================================================
