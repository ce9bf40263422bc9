---------------------------- MODULE QueueLemmas ----------------------------
(***************************************************************************)
(* Facts about queues without repetitions (kqueue_t as a sequence), used   *)
(* by the proofs about the locks, the scheduler and the drivers: what a    *)
(* push, a pop and the removal of the first n elements do to the set of    *)
(* queued tasks; what a ksemaphore of one permit does as a mutex; and the  *)
(* place of a number in a finite set of them.                              *)
(***************************************************************************)
EXTENDS KernelLocks, SequenceTheorems, FiniteSetTheorems, TLAPS

\* The elements of a queue are those at its positions.
LEMMA QueueRange ==
    ASSUME NEW S, NEW q \in Seq(S)
    PROVE  /\ Range(q) = {q[i] : i \in 1 .. Len(q)}
           /\ Range(q) \subseteq S
           /\ Len(q) \in Nat
           /\ DOMAIN q = 1 .. Len(q)
           /\ q = << >> <=> Range(q) = {}
           /\ q = << >> <=> Len(q) = 0
<1>1. /\ Len(q) \in Nat
      /\ DOMAIN q = 1 .. Len(q)
      /\ \A i \in 1 .. Len(q) : q[i] \in S
  BY LenProperties
<1>2. Range(q) = {q[i] : i \in 1 .. Len(q)}
  BY <1>1 DEF Range
<1>3. q = << >> <=> Len(q) = 0
  OBVIOUS
<1>4. q # << >> => q[1] \in Range(q)
  BY <1>1, <1>2, <1>3
<1>5. q = << >> => Range(q) = {}
  BY <1>1, <1>2, <1>3
<1> QED
  BY <1>1, <1>2, <1>3, <1>4, <1>5

\* kqueue_push of an element that is not queued.
LEMMA PushProperties ==
    ASSUME NEW S, NEW q \in Seq(S), NEW e \in S
    PROVE  /\ Append(q, e) \in Seq(S)
           /\ Len(Append(q, e)) = Len(q) + 1
           /\ Range(Append(q, e)) = Range(q) \cup {e}
           /\ IsInjective(q) /\ e \notin Range(q) => IsInjective(Append(q, e))
<1> DEFINE r == Append(q, e)
<1>1. /\ r \in Seq(S)
      /\ Len(r) = Len(q) + 1
      /\ \A i \in 1 .. Len(q) : r[i] = q[i]
      /\ r[Len(q) + 1] = e
  BY AppendProperties
<1>2. /\ Range(q) = {q[i] : i \in 1 .. Len(q)} /\ Len(q) \in Nat
      /\ DOMAIN q = 1 .. Len(q)
      /\ Range(r) = {r[i] : i \in 1 .. Len(r)} /\ DOMAIN r = 1 .. Len(r)
  BY <1>1, QueueRange
<1> HIDE DEF r
<1>3. 1 .. Len(r) = (1 .. Len(q)) \cup {Len(q) + 1}
  BY <1>1, <1>2
<1>4. Range(r) = Range(q) \cup {e}
  BY <1>1, <1>2, <1>3
<1>5. ASSUME IsInjective(q), e \notin Range(q) PROVE IsInjective(r)
  <2> SUFFICES ASSUME NEW i \in 1 .. Len(r), NEW j \in 1 .. Len(r), r[i] = r[j]
               PROVE  i = j
    BY <1>2 DEF IsInjective
  <2>1. CASE i \in 1 .. Len(q) /\ j \in 1 .. Len(q)
    BY <2>1, <1>1, <1>2, <1>5 DEF IsInjective
  <2>2. CASE i = Len(q) + 1 /\ j \in 1 .. Len(q)
    BY <2>2, <1>1, <1>2, <1>5
  <2>3. CASE i \in 1 .. Len(q) /\ j = Len(q) + 1
    BY <2>3, <1>1, <1>2, <1>5
  <2>4. CASE i = Len(q) + 1 /\ j = Len(q) + 1
    BY <2>4
  <2> QED
    BY <2>1, <2>2, <2>3, <2>4, <1>3
<1> QED
  BY <1>1, <1>4, <1>5 DEF r

\* Taking the first n elements out of a queue without repetitions leaves the
\* others, in their order.
LEMMA DropProperties ==
    ASSUME NEW S, NEW q \in Seq(S), NEW n \in 0 .. Len(q)
    PROVE  LET r == SubSeq(q, n + 1, Len(q))
           IN  /\ r \in Seq(S)
               /\ Len(r) = Len(q) - n
               /\ \A i \in 1 .. Len(r) : r[i] = q[i + n]
               /\ Range(r) \subseteq Range(q)
               /\ IsInjective(q) =>
                     /\ Range(r) = Range(q) \ {q[i] : i \in 1 .. n}
                     /\ IsInjective(r)
<1> DEFINE r == SubSeq(q, n + 1, Len(q))
<1>1. /\ Range(q) = {q[i] : i \in 1 .. Len(q)} /\ Len(q) \in Nat
      /\ DOMAIN q = 1 .. Len(q)
      /\ \A i \in 1 .. Len(q) : q[i] \in S
  BY QueueRange, LenProperties
<1>2. /\ r \in Seq(S)
      /\ Len(r) = Len(q) - n
      /\ \A i \in 1 .. Len(q) - n : r[i] = q[i + n]
  <2>1. \A i \in n + 1 .. Len(q) : q[i] \in S
    BY <1>1
  <2>2. /\ r \in Seq(S)
        /\ Len(r) = IF n + 1 <= Len(q) THEN Len(q) - (n + 1) + 1 ELSE 0
        /\ \A i \in 1 .. Len(q) - (n + 1) + 1 : r[i] = q[n + 1 + i - 1]
    BY <1>1, <2>1, SubSeqProperties
  <2> HIDE DEF r
  <2>3. Len(r) = Len(q) - n
    <3>0. n \in Nat /\ n <= Len(q) /\ Len(q) \in Nat
      BY <1>1
    <3>1. CASE n + 1 <= Len(q)
      BY <2>2, <1>1, <3>1
    <3>2. CASE n = Len(q)
      BY <2>2, <1>1, <3>2
    <3> QED
      BY <3>0, <3>1, <3>2
  <2>4. ASSUME NEW i \in 1 .. Len(q) - n PROVE r[i] = q[i + n]
    <3>1. i \in 1 .. Len(q) - (n + 1) + 1 /\ n + 1 + i - 1 = i + n
      BY <1>1
    <3> QED
      BY <3>1, <2>2
  <2> QED
    BY <2>2, <2>3, <2>4
<1> HIDE DEF r
<1>3. Range(r) = {r[i] : i \in 1 .. Len(r)} /\ DOMAIN r = 1 .. Len(r)
  BY <1>2, QueueRange
<1>4. Range(r) = {q[i] : i \in n + 1 .. Len(q)}
  <2>1. ASSUME NEW x \in Range(r) PROVE x \in {q[i] : i \in n + 1 .. Len(q)}
    <3>1. PICK i \in 1 .. Len(q) - n : x = q[i + n]
      BY <2>1, <1>2, <1>3
    <3> QED
      BY <3>1, <1>1
  <2>2. ASSUME NEW i \in n + 1 .. Len(q) PROVE q[i] \in Range(r)
    <3>1. i - n \in 1 .. Len(r) /\ r[i - n] = q[(i - n) + n] /\ (i - n) + n = i
      BY <1>1, <1>2
    <3> QED
      BY <3>1, <1>3
  <2> QED
    BY <2>1, <2>2
<1>5. Range(r) \subseteq Range(q)
  BY <1>1, <1>4
<1>6. ASSUME IsInjective(q)
      PROVE  Range(r) = Range(q) \ {q[i] : i \in 1 .. n} /\ IsInjective(r)
  <2>1. ASSUME NEW i \in n + 1 .. Len(q), NEW j \in 1 .. n PROVE q[i] # q[j]
    BY <1>1, <1>6 DEF IsInjective
  <2>2. 1 .. Len(q) = (1 .. n) \cup (n + 1 .. Len(q))
    BY <1>1
  <2>3. Range(r) = Range(q) \ {q[i] : i \in 1 .. n}
    BY <1>1, <1>4, <2>1, <2>2
  <2>4. ASSUME NEW i \in 1 .. Len(r), NEW j \in 1 .. Len(r), r[i] = r[j]
        PROVE  i = j
    <3>1. i + n \in 1 .. Len(q) /\ j + n \in 1 .. Len(q) /\ q[i + n] = q[j + n]
      BY <2>4, <1>1, <1>2
    <3> QED
      BY <3>1, <1>1, <1>6 DEF IsInjective
  <2> QED
    BY <2>3, <2>4, <1>3 DEF IsInjective
<1> QED
  BY <1>2, <1>5, <1>6 DEF r

\* kqueue_pop.
LEMMA PopProperties ==
    ASSUME NEW S, NEW q \in Seq(S), q # << >>
    PROVE  /\ Head(q) \in Range(q)
           /\ Head(q) = q[1]
           /\ Tail(q) \in Seq(S)
           /\ Len(Tail(q)) = Len(q) - 1
           /\ \A i \in 1 .. Len(Tail(q)) : Tail(q)[i] = q[i + 1]
           /\ Range(Tail(q)) \subseteq Range(q)
           /\ IsInjective(q) => /\ Range(Tail(q)) = Range(q) \ {Head(q)}
                                /\ IsInjective(Tail(q))
<1>1. Len(q) \in Nat \ {0}
  BY EmptySeq
<1>2. Head(q) = q[1]
  OBVIOUS
<1>3. Head(q) \in Range(q)
  BY <1>1, <1>2, QueueRange
<1>4. Tail(q) = SubSeq(q, 1 + 1, Len(q))
  BY TailIsSubSeq
<1>5. {q[i] : i \in 1 .. 1} = {Head(q)}
  BY <1>2
<1>6. 1 \in 0 .. Len(q)
  BY <1>1
<1> DEFINE r == SubSeq(q, 1 + 1, Len(q))
<1>7. /\ r \in Seq(S)
      /\ Len(r) = Len(q) - 1
      /\ \A i \in 1 .. Len(r) : r[i] = q[i + 1]
      /\ Range(r) \subseteq Range(q)
      /\ IsInjective(q) =>
            /\ Range(r) = Range(q) \ {q[i] : i \in 1 .. 1}
            /\ IsInjective(r)
  BY <1>6, DropProperties
<1> HIDE DEF r
<1>8. Tail(q) = r
  BY <1>4 DEF r
<1> QED
  BY <1>2, <1>3, <1>5, <1>7, <1>8

\* The wake-up loop of krwlock_read stops within the queue.
LEMMA LeadingReadsBound ==
    ASSUME NEW opq, Len(opq) \in Nat
    PROVE  LeadingReads(opq) \in 0 .. Len(opq)
<1> DEFINE I == {i \in 1 .. Len(opq) : \A j \in 1 .. i : opq[j] = "READ"}
<1>1. IsFiniteSet(1 .. Len(opq)) /\ Cardinality(1 .. Len(opq)) = Len(opq)
  BY FS_Interval, SMTT(30)
<1>2. I \in SUBSET (1 .. Len(opq))
  OBVIOUS
<1>3. IsFiniteSet(I) /\ Cardinality(I) <= Cardinality(1 .. Len(opq))
  BY <1>1, <1>2, FS_Subset
<1>4. Cardinality(I) \in Nat
  BY <1>3, FS_CardinalityType
<1> QED
  BY <1>1, <1>3, <1>4 DEF LeadingReads

(***************************************************************************)
(* A ksemaphore made with one permit, used as disk_sem and stdin_lock are: *)
(* among the tasks S, those in queued sleep in it, and those in inside     *)
(* have come through it, or were woken to come through, and have not       *)
(* signalled yet.                                                          *)
(***************************************************************************)
MutexSound(S, sem, queued, inside) ==
    /\ sem \in [value : Int, sq : Seq(S)]
    /\ Range(sem.sq) = queued
    /\ IsInjective(sem.sq)
    /\ \/ inside = {} /\ sem.sq = << >> /\ sem.value = 1
       \/ (\E t \in S : inside = {t}) /\ sem.value + Len(sem.sq) = 0

\* A new semaphore is free.
LEMMA MutexInit ==
    ASSUME NEW S
    PROVE  MutexSound(S, KSemaphoreInit(1), {}, {})
<1>1. /\ << >> \in Seq(S) /\ Len(<< >>) = 0
      /\ Range(<< >>) = {} /\ DOMAIN << >> = 1 .. 0
  BY EmptySeq, QueueRange
<1>2. IsInjective(<< >>)
  BY <1>1 DEF IsInjective
<1> QED
  BY <1>1, <1>2 DEF MutexSound, KSemaphoreInit

\* ksemaphore_wait sleeps exactly when somebody is inside.
LEMMA MutexBlocks ==
    ASSUME NEW S, NEW sem, NEW queued, NEW inside,
           MutexSound(S, sem, queued, inside)
    PROVE  /\ KSemaphoreBlocks(sem) <=> inside # {}
           /\ inside = {} => queued = {}
           /\ \A t, u \in inside : t = u
<1>1. /\ sem \in [value : Int, sq : Seq(S)] /\ Range(sem.sq) = queued
      /\ Len(sem.sq) \in Nat /\ (sem.sq = << >> <=> Range(sem.sq) = {})
  BY QueueRange DEF MutexSound
<1>2. CASE inside = {} /\ sem.sq = << >> /\ sem.value = 1
  BY <1>1, <1>2 DEF KSemaphoreBlocks
<1>3. CASE (\E t \in S : inside = {t}) /\ sem.value + Len(sem.sq) = 0
  <2>2. sem.value <= 0
    BY <1>1, <1>3
  <2> QED
    BY <1>3, <2>2 DEF KSemaphoreBlocks
<1> QED
  BY <1>2, <1>3 DEF MutexSound

\* ksemaphore_wait, with the sleep and without.
LEMMA MutexWait ==
    ASSUME NEW S, NEW sem, NEW queued, NEW inside, NEW t \in S,
           MutexSound(S, sem, queued, inside),
           t \notin queued
    PROVE  MutexSound(S, KSemaphoreWait(sem, t),
                      IF KSemaphoreBlocks(sem) THEN queued \cup {t} ELSE queued,
                      IF KSemaphoreBlocks(sem) THEN inside ELSE {t})
<1>1. /\ sem \in [value : Int, sq : Seq(S)] /\ Range(sem.sq) = queued
      /\ Len(sem.sq) \in Nat /\ IsInjective(sem.sq)
      /\ sem.sq = << >> => Len(sem.sq) = 0
  BY QueueRange DEF MutexSound
<1>2. CASE KSemaphoreBlocks(sem)
  <2>1. KSemaphoreWait(sem, t)
          = [value |-> sem.value - 1, sq |-> Append(sem.sq, t)]
    BY <1>2 DEF KSemaphoreWait
  <2>2. /\ Append(sem.sq, t) \in Seq(S)
        /\ Len(Append(sem.sq, t)) = Len(sem.sq) + 1
        /\ Range(Append(sem.sq, t)) = queued \cup {t}
        /\ IsInjective(Append(sem.sq, t))
    BY <1>1, PushProperties
  <2>3. (\E u \in S : inside = {u}) /\ sem.value + Len(sem.sq) = 0
    BY <1>2, MutexBlocks DEF MutexSound
  <2>4. sem.value - 1 \in Int /\ sem.value - 1 + Len(Append(sem.sq, t)) = 0
    BY <1>1, <2>2, <2>3
  <2> QED
    BY <1>1, <1>2, <2>1, <2>2, <2>3, <2>4 DEF MutexSound
<1>3. CASE ~ KSemaphoreBlocks(sem)
  <2>1. KSemaphoreWait(sem, t) = [value |-> sem.value - 1, sq |-> sem.sq]
    BY <1>3 DEF KSemaphoreWait
  <2>2. sem.sq = << >> /\ sem.value = 1
    BY <1>3, MutexBlocks DEF MutexSound
  <2>3. /\ KSemaphoreWait(sem, t).sq = sem.sq
        /\ KSemaphoreWait(sem, t).value + Len(sem.sq) = 0
        /\ KSemaphoreWait(sem, t) \in [value : Int, sq : Seq(S)]
    BY <1>1, <2>1, <2>2
  <2>4. \E u \in S : {t} = {u}
    OBVIOUS
  <2>5. MutexSound(S, KSemaphoreWait(sem, t), queued, {t})
    <3>1. Range(KSemaphoreWait(sem, t).sq) = queued
          /\ IsInjective(KSemaphoreWait(sem, t).sq)
      BY <1>1, <2>3
    <3> QED
      BY <2>3, <2>4, <3>1 DEF MutexSound
  <2> QED
    BY <1>3, <2>5
<1> QED
  BY <1>2, <1>3

\* ksemaphore_signal by the task inside hands the permit to the one it wakes.
LEMMA MutexSignal ==
    ASSUME NEW S, NEW sem, NEW queued, NEW inside,
           MutexSound(S, sem, queued, inside),
           inside # {}
    PROVE  /\ KSemaphoreWakes(sem) \subseteq queued
           /\ KSemaphoreWakes(sem) = {} => queued = {}
           /\ MutexSound(S, KSemaphoreSignal(sem), queued \ KSemaphoreWakes(sem),
                         KSemaphoreWakes(sem))
<1>1. /\ sem \in [value : Int, sq : Seq(S)] /\ Range(sem.sq) = queued
      /\ Len(sem.sq) \in Nat /\ IsInjective(sem.sq)
      /\ sem.sq = << >> <=> Len(sem.sq) = 0
      /\ sem.sq = << >> <=> queued = {}
      /\ queued \subseteq S
      /\ sem.value + Len(sem.sq) = 0
  BY QueueRange DEF MutexSound
<1>2. CASE sem.sq = << >>
  <2>1. /\ KSemaphoreSignal(sem) = [value |-> sem.value + 1, sq |-> << >>]
        /\ KSemaphoreWakes(sem) = {}
    BY <1>2 DEF KSemaphoreSignal, KSemaphoreWakes
  <2> QED
    BY <1>1, <1>2, <2>1 DEF MutexSound
<1>3. CASE sem.sq # << >>
  <2>1. /\ KSemaphoreSignal(sem) = [value |-> sem.value + 1, sq |-> Tail(sem.sq)]
        /\ KSemaphoreWakes(sem) = {Head(sem.sq)}
    BY <1>3 DEF KSemaphoreSignal, KSemaphoreWakes
  <2>2. /\ Head(sem.sq) \in queued
        /\ Tail(sem.sq) \in Seq(S)
        /\ Len(Tail(sem.sq)) = Len(sem.sq) - 1
        /\ Range(Tail(sem.sq)) = queued \ {Head(sem.sq)}
        /\ IsInjective(Tail(sem.sq))
    BY <1>1, <1>3, PopProperties
  <2>3. sem.value + 1 \in Int /\ sem.value + 1 + Len(Tail(sem.sq)) = 0
    BY <1>1, <2>2
  <2>4. Head(sem.sq) \in S
    BY <1>1, <2>2
  <2> QED
    <3>1. /\ KSemaphoreSignal(sem).sq = Tail(sem.sq)
          /\ KSemaphoreSignal(sem).value + Len(Tail(sem.sq)) = 0
          /\ KSemaphoreSignal(sem) \in [value : Int, sq : Seq(S)]
      BY <2>1, <2>2, <2>3
    <3>2. MutexSound(S, KSemaphoreSignal(sem), queued \ {Head(sem.sq)}, {Head(sem.sq)})
      BY <2>2, <2>4, <3>1 DEF MutexSound
    <3> QED
      BY <2>1, <2>2, <3>2
<1> QED
  BY <1>2, <1>3

---------------------------------------------------------------------------
(***************************************************************************)
(* The place of a number in a finite set.                                  *)
(***************************************************************************)
Rank(S, x) == Cardinality({y \in S : y < x})

LEMMA RankBounds ==
    ASSUME NEW S \in SUBSET Int, IsFiniteSet(S), NEW x \in S
    PROVE  /\ Cardinality(S) \in Nat
           /\ Rank(S, x) \in 0 .. Cardinality(S) - 1
           /\ Rank(S, x) = Cardinality(S) - 1 => \A y \in S : x >= y
<1> DEFINE B == {y \in S : y < x}
           R == S \ {x}
<1>1. B \in SUBSET R
  OBVIOUS
<1>2. IsFiniteSet(R) /\ Cardinality(R) = Cardinality(S) - 1
  BY FS_RemoveElement
<1>3. Cardinality(S) \in Nat /\ Cardinality(R) \in Nat
  BY <1>2, FS_CardinalityType
<1> HIDE DEF B, R
<1>4. /\ IsFiniteSet(B) /\ Cardinality(B) <= Cardinality(R)
      /\ Cardinality(R) = Cardinality(B) => R = B
  BY <1>1, <1>2, FS_Subset
<1>5. Cardinality(B) \in Nat
  BY <1>4, FS_CardinalityType
<1>6. Rank(S, x) = Cardinality(B)
  BY DEF Rank, B
<1>7. R = B => \A y \in S : x >= y
  BY DEF B, R
<1> QED
  BY <1>2, <1>3, <1>4, <1>5, <1>6, <1>7

LEMMA RankIncreases ==
    ASSUME NEW S \in SUBSET Int, IsFiniteSet(S), NEW x \in S, NEW y \in S, x < y
    PROVE  Rank(S, x) < Rank(S, y)
<1> DEFINE A == {z \in S : z < x}
           B == {z \in S : z < y}
<1>1. A \in SUBSET S /\ B \in SUBSET S
  OBVIOUS
<1>2. A \in SUBSET B /\ x \in B /\ x \notin A
  <2>1. x \in Int /\ y \in Int /\ ~ (x < x)
    OBVIOUS
  <2>2. \A z \in S : z < x => z < y
    BY <2>1
  <2> QED
    BY <2>1, <2>2
<1>3. Rank(S, x) = Cardinality(A) /\ Rank(S, y) = Cardinality(B)
  BY DEF Rank
<1> HIDE DEF A, B
<1>4. IsFiniteSet(A) /\ IsFiniteSet(B)
  BY <1>1, FS_Subset
<1>5. Cardinality(A) <= Cardinality(B) /\ (Cardinality(B) = Cardinality(A) => B = A)
  BY <1>2, <1>4, FS_Subset
<1>6. Cardinality(A) \in Nat /\ Cardinality(B) \in Nat
  BY <1>4, FS_CardinalityType
<1> QED
  BY <1>2, <1>3, <1>5, <1>6

\* Every place is taken.
LEMMA RankOnto ==
    ASSUME NEW S \in SUBSET Int, IsFiniteSet(S), NEW n \in 0 .. Cardinality(S) - 1
    PROVE  \E x \in S : Rank(S, x) = n
<1> DEFINE T == 0 .. Cardinality(S) - 1
           f == [x \in S |-> Rank(S, x)]
<1>1. Cardinality(S) \in Nat
  BY FS_CardinalityType
<1>2. IsFiniteSet(T) /\ Cardinality(T) = Cardinality(S)
  BY <1>1, FS_Interval
<1>3. f \in [S -> T]
  BY RankBounds
<1>4. ASSUME NEW x \in S, NEW y \in S, f[x] = f[y] PROVE x = y
  <2>1. Rank(S, x) = Rank(S, y) /\ x \in Int /\ y \in Int
    BY <1>4
  <2>2. Rank(S, x) \in Int /\ Rank(S, y) \in Int
    BY RankBounds
  <2>3. ~ (x < y) /\ ~ (y < x)
    BY <2>1, <2>2, RankIncreases
  <2> QED
    BY <2>1, <2>3
<1>5. f \in Injection(S, T)
  BY <1>3, <1>4 DEF Injection, IsInjective
<1> HIDE DEF T
<1>6. f \in Surjection(S, T)
  <2> HIDE DEF f
  <2> QED
    BY <1>2, <1>5, FS_Injection
<1>7. n \in T
  BY DEF T
<1>8. \E x \in S : f[x] = n
  BY <1>6, <1>7 DEF Surjection
<1> QED
  BY <1>8

\* A finite set of numbers has a greatest and a least.
LEMMA SetEnds ==
    ASSUME NEW S \in SUBSET Int, IsFiniteSet(S), S # {}
    PROVE  (\E x \in S : \A y \in S : x >= y) /\ (\E x \in S : \A y \in S : x <= y)
<1>1. Cardinality(S) \in Nat /\ Cardinality(S) # 0
  BY FS_CardinalityType, FS_EmptySet
<1>2. \E x \in S : \A y \in S : x >= y
  <2>1. Cardinality(S) - 1 \in 0 .. Cardinality(S) - 1
    BY <1>1
  <2>2. PICK x \in S : Rank(S, x) = Cardinality(S) - 1
    BY <2>1, RankOnto
  <2> QED
    BY <2>2, RankBounds
<1>3. \E x \in S : \A y \in S : x <= y
  <2>1. 0 \in 0 .. Cardinality(S) - 1
    BY <1>1
  <2>2. PICK x \in S : Rank(S, x) = 0
    BY <2>1, RankOnto
  <2>3. ASSUME NEW y \in S, y < x PROVE FALSE
    <3>1. Rank(S, y) < Rank(S, x) /\ Rank(S, y) \in 0 .. Cardinality(S) - 1
      BY <2>3, RankIncreases, RankBounds
    <3> QED
      BY <1>1, <2>2, <3>1
  <2>4. \A y \in S : x <= y
    BY <2>3
  <2> QED
    BY <2>4
<1> QED
  BY <1>2, <1>3
=============================================================================
