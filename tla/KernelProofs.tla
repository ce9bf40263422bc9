---------------------------- MODULE KernelProofs -----------------------------
(***************************************************************************)
(* What puts tasks to sleep in the kernel and wakes them, for any finite   *)
(* set of tasks.  The ksemaphore: its value counts the permits, and it     *)
(* implements FifoPermits.  The krwlock: its queues hold the sleepers      *)
(* exactly, no wake-up is lost, and the lock is free when nobody holds it. *)
(* The ATA driver, any sectors and any data: no interrupt is lost, and a   *)
(* transfer that begins with the disk at rest is done when its task is     *)
(* woken.  The keyboard and the readers of standard input, any lengths: a  *)
(* reader that is woken finds its line, nobody sleeps beside input, and a  *)
(* backspace stays within the line.                                        *)
(***************************************************************************)
EXTENDS Semaphore, RWLock, Ata, Stdin, QueueLemmas

(* The ksemaphore. *)

(***************************************************************************)
(* The inductive invariant: the queue holds the sleepers, so that a signal *)
(* wakes a task that owns nothing yet, and the value is tied to the number *)
(* of owners and sleepers, so that the test value <= 0 tells whether all   *)
(* permits are owned.                                                      *)
(***************************************************************************)
SemIInv == SemSleepersQueued /\ PermitsConserved

\* The owners are finitely many.
LEMMA OwnersFinite ==
    /\ IsFiniteSet(Owners) /\ Cardinality(Owners) \in Nat
    /\ Owners = {} <=> Cardinality(Owners) = 0
<1>1. Owners \in SUBSET Task
  BY DEF Owners
<1>2. IsFiniteSet(Owners)
  BY <1>1, TaskAssumption, FS_Subset
<1> QED
  BY <1>2, FS_CardinalityType, FS_EmptySet

\* The parts of the invariant as the steps use them.
LEMMA SemIInvFacts ==
    ASSUME SemIInv
    PROVE  /\ sem = [value |-> sem.value, sq |-> sem.sq]
           /\ sem.value \in Int /\ sem.sq \in Seq(Task) /\ Len(sem.sq) \in Nat
           /\ sem.sq = << >> <=> Len(sem.sq) = 0
           /\ pc \in [Task -> {"out", "waits", "holds"}]
           /\ ready \subseteq Task
           /\ Range(sem.sq) = Task \ ready
           /\ IsInjective(sem.sq)
           /\ \A t \in Task \ ready : pc[t] = "waits"
           /\ sem.value <= 0 <=> Cardinality(Owners) = Initial
           /\ sem.value > 0 <=> Cardinality(Owners) < Initial
           /\ sem.value > 0 => sem.sq = << >>
<1>1. /\ sem = [value |-> sem.value, sq |-> sem.sq]
      /\ sem.value \in Int /\ sem.sq \in Seq(Task)
      /\ pc \in [Task -> {"out", "waits", "holds"}]
      /\ ready \subseteq Task
  BY DEF SemIInv, PermitsConserved, SemTypeOK
<1>2. Len(sem.sq) \in Nat /\ (sem.sq = << >> <=> Len(sem.sq) = 0)
  BY <1>1, QueueRange
<1>3. /\ Range(sem.sq) = Task \ ready
      /\ IsInjective(sem.sq)
      /\ \A t \in Task \ ready : pc[t] = "waits"
  BY DEF SemIInv, SemSleepersQueued
<1> DEFINE c == Cardinality(Owners)
<1>4. /\ c \in Nat /\ c <= Initial /\ sem.value = Initial - c - Len(sem.sq)
      /\ sem.sq # << >> => c = Initial
  BY OwnersFinite DEF SemIInv, PermitsConserved
<1> HIDE DEF c
<1>5. /\ sem.value <= 0 <=> c = Initial
      /\ sem.value > 0 <=> c < Initial
      /\ sem.value > 0 => sem.sq = << >>
  BY <1>1, <1>2, <1>4, InitialAssumption
<1> QED
  BY <1>1, <1>2, <1>3, <1>5 DEF c

LEMMA SemInitIInv == SemInit => SemIInv /\ Permits!Init
<1> SUFFICES ASSUME SemInit PROVE SemIInv /\ Permits!Init
  OBVIOUS
<1> USE DEF SemInit, KSemaphoreInit
<1>1. /\ << >> \in Seq(Task) /\ Len(<< >>) = 0
      /\ Range(<< >>) = {} /\ DOMAIN << >> = 1 .. 0
  BY EmptySeq, QueueRange
<1>2. SemTypeOK
  BY <1>1, InitialAssumption DEF SemTypeOK
<1>3. SemSleepersQueued
  <2>1. IsInjective(<< >>)
    BY <1>1 DEF IsInjective
  <2> QED
    BY <1>1, <2>1 DEF SemSleepersQueued
<1>4. Owners = {}
  BY DEF Owners
<1>5. Cardinality(Owners) = 0
  BY <1>4, OwnersFinite
<1>6. PermitsConserved
  BY <1>1, <1>2, <1>5, InitialAssumption DEF PermitsConserved
<1>7. FreePermits = Initial
  BY InitialAssumption DEF FreePermits
<1> QED
  BY <1>3, <1>4, <1>6, <1>7 DEF SemIInv, Permits!Init

\* ksemaphore_wait: the task sleeps exactly when every permit is owned.
LEMMA WaitIInv ==
    ASSUME SemIInv, NEW t \in Task, Wait(t)
    PROVE  SemIInv' /\ Permits!Acquire(t)
<1>1. /\ sem.value \in Int /\ sem.sq \in Seq(Task) /\ Len(sem.sq) \in Nat
      /\ sem.sq = << >> <=> Len(sem.sq) = 0
      /\ pc \in [Task -> {"out", "waits", "holds"}]
      /\ ready \subseteq Task
      /\ Range(sem.sq) = Task \ ready
      /\ IsInjective(sem.sq)
      /\ \A u \in Task \ ready : pc[u] = "waits"
      /\ sem.value <= 0 <=> Cardinality(Owners) = Initial
      /\ sem.value > 0 <=> Cardinality(Owners) < Initial
      /\ sem.value > 0 => sem.sq = << >>
  BY SemIInvFacts
<1>2. t \in ready /\ t \notin Owners /\ t \notin Range(sem.sq)
  BY <1>1 DEF Wait, Owners
<1> DEFINE c == Cardinality(Owners)
<1>3. /\ c \in Nat /\ c <= Initial /\ sem.value = Initial - c - Len(sem.sq)
      /\ sem.sq # << >> => c = Initial
  BY OwnersFinite DEF SemIInv, PermitsConserved
<1>4. CASE sem.value <= 0
  <2>1. /\ sem' = [value |-> sem.value - 1, sq |-> Append(sem.sq, t)]
        /\ pc' = [pc EXCEPT ![t] = "waits"]
        /\ ready' = ready \ {t}
    BY <1>4 DEF Wait, KSemaphoreWait, KSemaphoreBlocks
  <2>2. /\ Append(sem.sq, t) \in Seq(Task)
        /\ Len(Append(sem.sq, t)) = Len(sem.sq) + 1
        /\ Range(Append(sem.sq, t)) = Range(sem.sq) \cup {t}
        /\ IsInjective(Append(sem.sq, t))
    BY <1>1, <1>2, PushProperties
  <2>3. Owners' = Owners
    BY <1>1, <1>2, <2>1 DEF Owners
  <2>4. SemTypeOK'
    BY <1>1, <2>1, <2>2 DEF SemTypeOK
  <2>5. SemSleepersQueued'
    BY <1>1, <2>1, <2>2 DEF SemSleepersQueued
  <2>6. c = Initial
    BY <1>1, <1>4 DEF c
  <2>7. PermitsConserved'
    <3>1. Cardinality(Owners') = c
      BY <2>3 DEF c
    <3> HIDE DEF c
    <3>2. sem'.value = Initial - c - Len(sem'.sq)
      BY <1>1, <1>3, <2>1, <2>2, <2>6, InitialAssumption
    <3> QED
      BY <1>3, <2>4, <2>6, <3>1, <3>2 DEF PermitsConserved
  <2>8. Permits!Acquire(t)
    <3>1. FreePermits = 0 /\ FreePermits' = FreePermits
      BY <1>1, <1>4, <2>1 DEF FreePermits
    <3> QED
      BY <1>1, <1>2, <2>1, <2>3, <3>1 DEF Permits!Acquire, Range
  <2> QED
    BY <2>5, <2>7, <2>8 DEF SemIInv
<1>5. CASE ~ (sem.value <= 0)
  <2>1. /\ sem' = [value |-> sem.value - 1, sq |-> sem.sq]
        /\ pc' = [pc EXCEPT ![t] = "holds"]
        /\ ready' = ready
    BY <1>5 DEF Wait, KSemaphoreWait, KSemaphoreBlocks
  <2>2. Owners' = Owners \cup {t}
    BY <1>1, <1>2, <2>1 DEF Owners
  <2>3. sem.sq = << >> /\ c < Initial
    BY <1>1, <1>5
  <2>4. SemTypeOK'
    BY <1>1, <2>1 DEF SemTypeOK
  <2>5. SemSleepersQueued'
    BY <1>1, <1>2, <2>1 DEF SemSleepersQueued
  <2>6. Cardinality(Owners') = c + 1
    BY <1>2, <2>2, OwnersFinite, FS_AddElement
  <2>7. PermitsConserved'
    <3> HIDE DEF c
    <3>1. c + 1 <= Initial /\ sem'.value = Initial - (c + 1) - Len(sem'.sq)
      BY <1>1, <1>3, <2>1, <2>3, InitialAssumption
    <3> QED
      BY <2>1, <2>3, <2>4, <2>6, <3>1 DEF PermitsConserved
  <2>8. Permits!Acquire(t)
    <3>1. FreePermits > 0 /\ FreePermits' = FreePermits - 1
      BY <1>1, <1>5, <2>1 DEF FreePermits
    <3> QED
      BY <1>1, <1>2, <2>1, <2>2, <3>1 DEF Permits!Acquire, Range
  <2> QED
    BY <2>5, <2>7, <2>8 DEF SemIInv
<1> QED
  BY <1>4, <1>5

\* The return from task_sleep moves no permit.
LEMMA WaitReturnsIInv ==
    ASSUME SemIInv, NEW t \in Task, WaitReturns(t)
    PROVE  SemIInv' /\ UNCHANGED << FreePermits, Owners, sem.sq >>
<1>1. /\ pc \in [Task -> {"out", "waits", "holds"}]
      /\ \A u \in Task \ ready : pc[u] = "waits"
  BY SemIInvFacts
<1>2. /\ t \in ready /\ pc[t] = "waits"
      /\ pc' = [pc EXCEPT ![t] = "holds"]
      /\ sem' = sem /\ ready' = ready
  BY DEF WaitReturns
<1>3. Owners' = Owners
  BY <1>1, <1>2 DEF Owners
<1>4. SemTypeOK'
  BY <1>1, <1>2 DEF SemIInv, PermitsConserved, SemTypeOK
<1>5. SemSleepersQueued'
  BY <1>1, <1>2 DEF SemIInv, SemSleepersQueued
<1>6. PermitsConserved'
  BY <1>2, <1>3, <1>4 DEF SemIInv, PermitsConserved
<1>7. FreePermits' = FreePermits
  BY <1>2 DEF FreePermits
<1> QED
  BY <1>2, <1>3, <1>5, <1>6, <1>7 DEF SemIInv

\* ksemaphore_signal hands the permit to the head of the queue.
LEMMA SignalIInv ==
    ASSUME SemIInv, NEW t \in Task, Signal(t)
    PROVE  SemIInv' /\ Permits!Release(t)
<1>1. /\ sem.value \in Int /\ sem.sq \in Seq(Task) /\ Len(sem.sq) \in Nat
      /\ sem.sq = << >> <=> Len(sem.sq) = 0
      /\ pc \in [Task -> {"out", "waits", "holds"}]
      /\ ready \subseteq Task
      /\ Range(sem.sq) = Task \ ready
      /\ IsInjective(sem.sq)
      /\ \A u \in Task \ ready : pc[u] = "waits"
  BY SemIInvFacts
<1>2. /\ pc[t] = "holds" /\ pc' = [pc EXCEPT ![t] = "out"]
      /\ t \in ready /\ t \in Owners
  BY <1>1 DEF Signal, Owners
<1> DEFINE c == Cardinality(Owners)
<1>3. /\ c \in Nat /\ c <= Initial /\ sem.value = Initial - c - Len(sem.sq)
      /\ sem.sq # << >> => c = Initial
  BY OwnersFinite DEF SemIInv, PermitsConserved
<1>4. /\ IsFiniteSet(Owners \ {t})
      /\ Cardinality(Owners \ {t}) = c - 1
  BY <1>2, OwnersFinite, FS_RemoveElement
<1>5. CASE sem.sq = << >>
  <2>1. sem' = [value |-> sem.value + 1, sq |-> << >>] /\ ready' = ready
    BY <1>5 DEF Signal, KSemaphoreSignal, KSemaphoreWakes
  <2>2. Owners' = Owners \ {t}
    BY <1>1, <1>2, <2>1 DEF Owners
  <2>3. SemTypeOK'
    BY <1>1, <1>2, <1>5, <2>1 DEF SemTypeOK
  <2>4. SemSleepersQueued'
    BY <1>1, <1>2, <1>5, <2>1 DEF SemSleepersQueued
  <2>5. PermitsConserved'
    <3>1. Cardinality(Owners') = c - 1
      BY <1>4, <2>2
    <3> HIDE DEF c
    <3>2. /\ c - 1 <= Initial
          /\ sem'.value = Initial - (c - 1) - Len(sem'.sq)
      <4>1. sem'.value = sem.value + 1 /\ sem'.sq = sem.sq
        BY <1>5, <2>1
      <4>2. Len(sem'.sq) = 0 /\ Len(sem.sq) = 0
        BY <1>1, <1>5, <4>1
      <4> QED
        BY <1>1, <1>3, <4>1, <4>2, InitialAssumption
    <3> QED
      BY <2>1, <2>3, <3>1, <3>2 DEF PermitsConserved
  <2>6. Permits!Release(t)
    <3>1. FreePermits' = FreePermits + 1
      <4>1. c \in Nat /\ c >= 1 /\ Len(sem.sq) = 0
        BY <1>1, <1>2, <1>5, OwnersFinite
      <4> HIDE DEF c
      <4>2. sem.value >= 0
        BY <1>3, <4>1, InitialAssumption
      <4> QED
        BY <1>1, <2>1, <4>2 DEF FreePermits
    <3> QED
      BY <1>2, <1>5, <2>1, <2>2, <3>1 DEF Permits!Release
  <2> QED
    BY <2>4, <2>5, <2>6 DEF SemIInv
<1>6. CASE sem.sq # << >>
  <2> DEFINE h == Head(sem.sq)
  <2>1. /\ sem' = [value |-> sem.value + 1, sq |-> Tail(sem.sq)]
        /\ ready' = ready \cup {h}
    BY <1>6 DEF Signal, KSemaphoreSignal, KSemaphoreWakes
  <2>2. /\ h \in Range(sem.sq)
        /\ Tail(sem.sq) \in Seq(Task)
        /\ Len(Tail(sem.sq)) = Len(sem.sq) - 1
        /\ Range(Tail(sem.sq)) = Range(sem.sq) \ {h}
        /\ IsInjective(Tail(sem.sq))
    BY <1>1, <1>6, PopProperties
  <2> HIDE DEF h
  <2>3. h \in Task /\ h \notin ready /\ h # t /\ pc[h] = "waits" /\ h \notin Owners
    BY <1>1, <1>2, <2>2 DEF Owners
  <2>4. Owners' = (Owners \ {t}) \cup {h}
    BY <1>1, <1>2, <2>1, <2>3 DEF Owners
  <2>5. SemTypeOK'
    BY <1>1, <1>2, <2>1, <2>2, <2>3 DEF SemTypeOK
  <2>6. SemSleepersQueued'
    BY <1>1, <1>2, <2>1, <2>2, <2>3 DEF SemSleepersQueued
  <2>7. PermitsConserved'
    <3>1. Cardinality(Owners') = c - 1 + 1
      BY <1>4, <2>3, <2>4, FS_AddElement
    <3>2. Cardinality(Owners') = c /\ c = Initial
      BY <1>3, <1>6, <3>1
    <3> HIDE DEF c
    <3>3. sem'.value = Initial - c - Len(sem'.sq)
      <4>1. sem'.value = sem.value + 1 /\ Len(sem'.sq) = Len(sem.sq) - 1
        BY <2>1, <2>2
      <4> QED
        BY <1>1, <1>3, <4>1, InitialAssumption
    <3> QED
      BY <2>5, <3>2, <3>3, InitialAssumption DEF PermitsConserved
  <2>8. Permits!Release(t)
    <3>1. FreePermits = 0 /\ FreePermits' = 0
      <4>1. c = Initial /\ Len(sem.sq) >= 1
        BY <1>1, <1>3, <1>6
      <4> HIDE DEF c
      <4>2. sem.value < 0
        BY <1>1, <1>3, <4>1, InitialAssumption
      <4> QED
        BY <1>1, <2>1, <4>2 DEF FreePermits
    <3> QED
      BY <1>2, <1>6, <2>1, <2>4, <3>1 DEF Permits!Release, h
  <2> QED
    BY <2>6, <2>7, <2>8 DEF SemIInv
<1> QED
  BY <1>5, <1>6

\* Every step keeps the invariant and is a step of FifoPermits or a stutter.
LEMMA SemNextIInv == SemIInv /\ [SemNext]_semVars => SemIInv' /\ [Permits!Next]_(Permits!absVars)
<1> SUFFICES ASSUME SemIInv, [SemNext]_semVars
             PROVE  SemIInv' /\ [Permits!Next]_(Permits!absVars)
  OBVIOUS
<1> USE DEF Permits!Next, Permits!absVars
<1>1. ASSUME NEW t \in Task, Wait(t)
      PROVE  SemIInv' /\ [Permits!Next]_(Permits!absVars)
  BY <1>1, WaitIInv
<1>2. ASSUME NEW t \in Task, WaitReturns(t)
      PROVE  SemIInv' /\ [Permits!Next]_(Permits!absVars)
  BY <1>2, WaitReturnsIInv
<1>3. ASSUME NEW t \in Task, Signal(t)
      PROVE  SemIInv' /\ [Permits!Next]_(Permits!absVars)
  BY <1>3, SignalIInv
<1>4. CASE UNCHANGED semVars
  BY <1>4 DEF semVars, SemIInv, SemTypeOK, SemSleepersQueued, PermitsConserved, Owners,
              FreePermits
<1> QED
  BY <1>1, <1>2, <1>3, <1>4 DEF SemNext

\* The inductive invariant holds of every step of a semaphore used as a lock.
THEOREM SemInvariance == SemSpec => []SemIInv
<1> QED
  BY SemInitIInv, SemNextIInv, PTL DEF SemSpec

(***************************************************************************)
(* The results.                                                            *)
(***************************************************************************)

\* ksemaphore_wait and ksemaphore_signal neither lose nor invent a permit:
\* with one permit, disk_sem and stdin_lock let one task in at a time.
THEOREM PermitsAreConserved == SemSpec => []PermitsConserved
<1>1. SemIInv => PermitsConserved
  BY DEF SemIInv
<1> QED
  BY <1>1, SemInvariance, PTL

\* The semaphore implements the abstract first-come first-served permits.
THEOREM SemaphoreImplementsPermits == SemSpec => ImplementsPermits
<1>1. SemInit => Permits!Init
  BY SemInitIInv
<1>2. SemIInv /\ [SemNext]_semVars => [Permits!Next]_(Permits!absVars)
  BY SemNextIInv
<1> QED
  BY <1>1, <1>2, SemInvariance, PTL DEF SemSpec, ImplementsPermits, Permits!Spec

---------------------------------------------------------------------------
(* The krwlock. *)

(***************************************************************************)
(* The inductive invariant.  NoLostWaiter is not inductive by itself: a    *)
(* release that does not free the lock wakes nobody, and is harmless only  *)
(* because the count of readers is never above the number of holders; a    *)
(* task queues itself when operation is set, and is safe only because an   *)
(* operation is set while somebody holds the lock.                         *)
(***************************************************************************)
ReadersHold == lock.readers <= Cardinality(Holders)

BusyHeld == lock.operation # "NONE" => Holders # {}

RWIInv == RWTypeOK /\ SleepersQueued /\ ReadersHold /\ BusyHeld /\ NoLostWaiter

\* The holders are finitely many.
LEMMA HoldersFinite ==
    /\ IsFiniteSet(Holders) /\ Cardinality(Holders) \in Nat
    /\ Holders = {} <=> Cardinality(Holders) = 0
<1>1. Holders \in SUBSET Task
  BY DEF Holders
<1>2. IsFiniteSet(Holders)
  BY <1>1, TaskAssumption, FS_Subset
<1> QED
  BY <1>2, FS_CardinalityType, FS_EmptySet

LEMMA RWInitIInv == RWInit => RWIInv
<1> SUFFICES ASSUME RWInit PROVE RWIInv
  OBVIOUS
<1> USE DEF RWInit, KRWLockInit
<1>1. << >> \in Seq(Task) /\ << >> \in Seq({"READ", "WRITE"}) /\ Len(<< >>) = 0
  BY EmptySeq
<1>2. RWTypeOK
  BY <1>1 DEF RWTypeOK, Operations
<1>3. Range(<< >>) = {}
  BY <1>1, QueueRange
<1>4. DOMAIN << >> = 1 .. 0
  BY <1>1, QueueRange
<1>5. IsInjective(<< >>)
  BY <1>4 DEF IsInjective
<1>6. SleepersQueued
  BY <1>1, <1>3, <1>5 DEF SleepersQueued
<1>7. ReadersHold
  BY HoldersFinite DEF ReadersHold
<1> QED
  BY <1>2, <1>6, <1>7 DEF RWIInv, BusyHeld, NoLostWaiter

(***************************************************************************)
(* A task that queues itself.                                              *)
(***************************************************************************)
LEMMA EnqueueIInv ==
    ASSUME RWIInv, NEW t \in Task, NEW op \in {"READ", "WRITE"},
           pc[t] = "out",
           lock.operation # "NONE",
           lock' = KRWLockEnqueue(lock, t, op),
           pc' = [pc EXCEPT ![t] = IF op = "READ" THEN "rdwait" ELSE "wrwait"],
           ready' = ready \ {t}
    PROVE  RWIInv'
<1> USE DEF RWIInv
<1>1. /\ lock \in [procq : Seq(Task), opq : Seq({"READ", "WRITE"}),
                   readers : Nat, operation : Operations]
      /\ Len(lock.procq) = Len(lock.opq) /\ Len(lock.procq) \in Nat
      /\ pc \in [Task -> {"out", "rdwait", "wrwait", "reading", "writing"}]
      /\ ready \subseteq Task
  BY QueueRange DEF RWTypeOK
<1>2. lock' = [procq |-> Append(lock.procq, t), opq |-> Append(lock.opq, op),
               readers |-> lock.readers, operation |-> lock.operation]
  BY <1>1 DEF KRWLockEnqueue
<1>3. t \notin Range(lock.procq)
  <2>1. \A i \in 1 .. Len(lock.procq) : pc[lock.procq[i]] \in {"rdwait", "wrwait"}
    BY DEF SleepersQueued
  <2> QED
    BY <1>1, <2>1, QueueRange
<1>4. /\ Append(lock.procq, t) \in Seq(Task)
      /\ Len(Append(lock.procq, t)) = Len(lock.procq) + 1
      /\ Range(Append(lock.procq, t)) = Range(lock.procq) \cup {t}
      /\ IsInjective(Append(lock.procq, t))
  BY <1>1, <1>3, PushProperties DEF SleepersQueued
<1>5. /\ Append(lock.opq, op) \in Seq({"READ", "WRITE"})
      /\ Len(Append(lock.opq, op)) = Len(lock.opq) + 1
  BY <1>1, PushProperties
<1>6. RWTypeOK'
  BY <1>1, <1>2, <1>4, <1>5 DEF RWTypeOK
<1>7. SleepersQueued'
  <2>1. Range(lock'.procq) = Task \ ready'
    BY <1>2, <1>4 DEF SleepersQueued
  <2>2. ASSUME NEW i \in 1 .. Len(lock'.procq)
        PROVE  pc'[lock'.procq[i]]
                 = IF lock'.opq[i] = "READ" THEN "rdwait" ELSE "wrwait"
    <3>1. CASE i = Len(lock.procq) + 1
      <4>1. lock'.procq[i] = t /\ lock'.opq[i] = op
        BY <1>1, <1>2, <3>1, AppendProperties
      <4> QED
        BY <4>1, <1>1
    <3>2. CASE i \in 1 .. Len(lock.procq)
      <4>1. lock'.procq[i] = lock.procq[i] /\ lock'.opq[i] = lock.opq[i]
        BY <1>1, <1>2, <3>2, AppendProperties
      <4>2. lock.procq[i] # t
        BY <1>1, <1>3, <3>2, QueueRange
      <4> QED
        BY <4>1, <4>2, <1>1, <3>2 DEF SleepersQueued
    <3> QED
      BY <3>1, <3>2, <1>1, <1>2, <1>4
  <2>3. IsInjective(lock'.procq)
    BY <1>2, <1>4
  <2> QED
    BY <2>1, <2>2, <2>3 DEF SleepersQueued
<1>8. Holders' = Holders
  BY <1>1 DEF Holders
<1>9. ReadersHold' /\ BusyHeld' /\ NoLostWaiter'
  BY <1>2, <1>8 DEF ReadersHold, BusyHeld, NoLostWaiter
<1> QED
  BY <1>6, <1>7, <1>9

(***************************************************************************)
(* A reader that goes on, and wakes the readers at the head of the queue.  *)
(***************************************************************************)
LEMMA ReadEntersIInv ==
    ASSUME RWIInv, NEW t \in Task, ReadEnters(t)
    PROVE  RWIInv'
<1> USE DEF RWIInv
<1> DEFINE n == LeadingReads(lock.opq)
           q == SubSeq(lock.procq, n + 1, Len(lock.procq))
           o == SubSeq(lock.opq, n + 1, Len(lock.opq))
<1>1. /\ lock \in [procq : Seq(Task), opq : Seq({"READ", "WRITE"}),
                   readers : Nat, operation : Operations]
      /\ Len(lock.procq) = Len(lock.opq) /\ Len(lock.procq) \in Nat
      /\ pc \in [Task -> {"out", "rdwait", "wrwait", "reading", "writing"}]
      /\ ready \subseteq Task
  BY QueueRange DEF RWTypeOK
<1>2. /\ lock' = [procq |-> q, opq |-> o,
                  readers |-> lock.readers + 1, operation |-> "READ"]
      /\ pc' = [pc EXCEPT ![t] = "reading"]
      /\ ready' = ready \cup {lock.procq[i] : i \in 1 .. n}
  BY DEF ReadEnters, KRWLockReadEnter, KRWLockReadWakes
<1>3. n \in 0 .. Len(lock.opq) /\ n \in 0 .. Len(lock.procq)
  BY <1>1, LeadingReadsBound
<1> HIDE DEF n
<1>4. t \notin Range(lock.procq)
  <2>1. CASE pc[t] = "rdwait" /\ t \in ready
    BY <2>1 DEF SleepersQueued
  <2>2. CASE pc[t] = "out"
    <3>1. \A i \in 1 .. Len(lock.procq) : pc[lock.procq[i]] \in {"rdwait", "wrwait"}
      BY DEF SleepersQueued
    <3> QED
      BY <1>1, <2>2, <3>1, QueueRange
  <2> QED
    BY <2>1, <2>2 DEF ReadEnters
<1>5. /\ q \in Seq(Task)
      /\ Len(q) = Len(lock.procq) - n
      /\ \A i \in 1 .. Len(q) : q[i] = lock.procq[i + n]
      /\ Range(q) \subseteq Range(lock.procq)
      /\ Range(q) = Range(lock.procq) \ {lock.procq[i] : i \in 1 .. n}
      /\ IsInjective(q)
  <2> DEFINE p == lock.procq
             r == SubSeq(p, n + 1, Len(p))
  <2>1. p \in Seq(Task) /\ n \in 0 .. Len(p)
    BY <1>1, <1>3
  <2>2. IsInjective(p)
    BY DEF SleepersQueued
  <2> HIDE DEF p
  <2>3. /\ r \in Seq(Task)
        /\ Len(r) = Len(p) - n
        /\ \A i \in 1 .. Len(r) : r[i] = p[i + n]
        /\ Range(r) \subseteq Range(p)
        /\ IsInjective(p) =>
              /\ Range(r) = Range(p) \ {p[i] : i \in 1 .. n}
              /\ IsInjective(r)
    BY <2>1, DropProperties
  <2> HIDE DEF r
  <2>4. r = q
    BY DEF p, r
  <2> QED
    BY <2>2, <2>3, <2>4 DEF p
<1>6. /\ o \in Seq({"READ", "WRITE"})
      /\ Len(o) = Len(lock.opq) - n
      /\ \A i \in 1 .. Len(o) : o[i] = lock.opq[i + n]
  BY <1>1, <1>3, DropProperties
<1> HIDE DEF q, o
<1>7. {lock.procq[i] : i \in 1 .. n} \subseteq Range(lock.procq)
  BY <1>1, <1>3, QueueRange
<1>8. Range(lock.procq) \subseteq Task
  BY <1>1, QueueRange
<1>9. RWTypeOK'
  <2>1. Len(q) = Len(o)
    BY <1>1, <1>5, <1>6
  <2>2. lock' \in [procq : Seq(Task), opq : Seq({"READ", "WRITE"}),
                   readers : Nat, operation : Operations]
    BY <1>1, <1>2, <1>5, <1>6 DEF Operations
  <2> QED
    BY <1>1, <1>2, <1>7, <1>8, <2>1, <2>2 DEF RWTypeOK
<1>10. SleepersQueued'
  <2>1. Range(lock'.procq) = Task \ ready'
    <3>1. Range(lock.procq) = Task \ ready
      BY DEF SleepersQueued
    <3> QED
      BY <1>2, <1>5, <3>1
  <2>2. IsInjective(lock'.procq)
    BY <1>2, <1>5
  <2>3. ASSUME NEW i \in 1 .. Len(lock'.procq)
        PROVE  pc'[lock'.procq[i]]
                 = IF lock'.opq[i] = "READ" THEN "rdwait" ELSE "wrwait"
    <3>1. i \in 1 .. Len(q) /\ i \in 1 .. Len(o) /\ i + n \in 1 .. Len(lock.procq)
      BY <1>1, <1>2, <1>3, <1>5, <1>6
    <3>2. lock'.procq[i] = lock.procq[i + n] /\ lock'.opq[i] = lock.opq[i + n]
      BY <1>2, <1>5, <1>6, <3>1
    <3>3. lock.procq[i + n] # t
      BY <1>1, <1>4, <3>1, QueueRange
    <3>4. pc'[lock.procq[i + n]] = pc[lock.procq[i + n]]
      BY <1>1, <1>2, <3>3
    <3> QED
      BY <3>1, <3>2, <3>4 DEF SleepersQueued
  <2> QED
    BY <2>1, <2>2, <2>3 DEF SleepersQueued
<1>11. Holders' = Holders \cup {t} /\ t \notin Holders
  BY <1>1, <1>2 DEF Holders, ReadEnters
<1>12. ReadersHold'
  <2>1. Cardinality(Holders \cup {t}) = Cardinality(Holders) + 1
    BY <1>11, HoldersFinite, FS_AddElement
  <2>2. lock'.readers <= Cardinality(Holders \cup {t})
    BY <1>1, <1>2, <2>1, HoldersFinite DEF ReadersHold
  <2> QED
    BY <1>11, <2>2 DEF ReadersHold
<1>13. BusyHeld' /\ NoLostWaiter'
  BY <1>11 DEF BusyHeld, NoLostWaiter
<1> QED
  BY <1>9, <1>10, <1>12, <1>13

(***************************************************************************)
(* A writer that goes on.                                                  *)
(***************************************************************************)
LEMMA WriteEntersIInv ==
    ASSUME RWIInv, NEW t \in Task, WriteEnters(t)
    PROVE  RWIInv'
<1> USE DEF RWIInv
<1>1. /\ lock \in [procq : Seq(Task), opq : Seq({"READ", "WRITE"}),
                   readers : Nat, operation : Operations]
      /\ Len(lock.procq) = Len(lock.opq) /\ Len(lock.procq) \in Nat
      /\ pc \in [Task -> {"out", "rdwait", "wrwait", "reading", "writing"}]
      /\ ready \subseteq Task
  BY QueueRange DEF RWTypeOK
<1>2. /\ lock' = [procq |-> lock.procq, opq |-> lock.opq,
                  readers |-> lock.readers, operation |-> "WRITE"]
      /\ pc' = [pc EXCEPT ![t] = "writing"]
      /\ ready' = ready
  BY <1>1 DEF WriteEnters, KRWLockWriteEnter
<1>3. t \notin Range(lock.procq)
  <2>1. CASE pc[t] = "wrwait" /\ t \in ready
    BY <2>1 DEF SleepersQueued
  <2>2. CASE pc[t] = "out"
    <3>1. \A i \in 1 .. Len(lock.procq) : pc[lock.procq[i]] \in {"rdwait", "wrwait"}
      BY DEF SleepersQueued
    <3> QED
      BY <1>1, <2>2, <3>1, QueueRange
  <2> QED
    BY <2>1, <2>2 DEF WriteEnters
<1>4. RWTypeOK'
  BY <1>1, <1>2 DEF RWTypeOK, Operations
<1>5. SleepersQueued'
  <2>1. ASSUME NEW i \in 1 .. Len(lock.procq)
        PROVE  pc'[lock.procq[i]]
                 = IF lock.opq[i] = "READ" THEN "rdwait" ELSE "wrwait"
    <3>1. lock.procq[i] # t
      BY <1>1, <1>3, QueueRange
    <3>2. pc'[lock.procq[i]] = pc[lock.procq[i]]
      BY <1>1, <1>2, <3>1
    <3> QED
      BY <3>2 DEF SleepersQueued
  <2>2. lock'.procq = lock.procq /\ lock'.opq = lock.opq
    BY <1>2
  <2> QED
    BY <1>2, <2>1, <2>2 DEF SleepersQueued
<1>6. Holders' = Holders \cup {t} /\ t \notin Holders
  BY <1>1, <1>2 DEF Holders, WriteEnters
<1>7. ReadersHold'
  <2>1. Cardinality(Holders \cup {t}) = Cardinality(Holders) + 1
    BY <1>6, HoldersFinite, FS_AddElement
  <2>2. lock'.readers <= Cardinality(Holders \cup {t})
    BY <1>1, <1>2, <2>1, HoldersFinite DEF ReadersHold
  <2> QED
    BY <1>6, <2>2 DEF ReadersHold
<1>8. BusyHeld' /\ NoLostWaiter'
  BY <1>6 DEF BusyHeld, NoLostWaiter
<1> QED
  BY <1>4, <1>5, <1>7, <1>8

(***************************************************************************)
(* A release.                                                              *)
(***************************************************************************)
LEMMA ReleaseIInv ==
    ASSUME RWIInv, NEW t \in Task, Release(t)
    PROVE  RWIInv'
<1> USE DEF RWIInv
<1> DEFINE wakes == KRWLockFrees(lock) /\ lock.procq # << >>
<1>1. /\ lock \in [procq : Seq(Task), opq : Seq({"READ", "WRITE"}),
                   readers : Nat, operation : Operations]
      /\ Len(lock.procq) = Len(lock.opq) /\ Len(lock.procq) \in Nat
      /\ pc \in [Task -> {"out", "rdwait", "wrwait", "reading", "writing"}]
      /\ ready \subseteq Task
  BY QueueRange DEF RWTypeOK
<1>2. /\ t \in Holders
      /\ pc' = [pc EXCEPT ![t] = "out"]
      /\ lock'.readers = IF lock.readers = 0 THEN 0 ELSE lock.readers - 1
      /\ lock'.operation = IF lock.readers <= 1 THEN "NONE" ELSE lock.operation
      /\ lock'.procq = IF wakes THEN Tail(lock.procq) ELSE lock.procq
      /\ lock'.opq = IF wakes THEN Tail(lock.opq) ELSE lock.opq
      /\ ready' = ready \cup IF wakes THEN {Head(lock.procq)} ELSE {}
  BY DEF Release, KRWLockRelease, KRWLockReleaseWakes, KRWLockFrees
<1>3. lock' = [procq |-> IF wakes THEN Tail(lock.procq) ELSE lock.procq,
               opq |-> IF wakes THEN Tail(lock.opq) ELSE lock.opq,
               readers |-> IF lock.readers = 0 THEN 0 ELSE lock.readers - 1,
               operation |-> IF lock.readers <= 1 THEN "NONE" ELSE lock.operation]
  BY DEF Release, KRWLockRelease, KRWLockFrees
<1> HIDE DEF wakes
<1>4. t \notin Range(lock.procq)
  <2>1. \A i \in 1 .. Len(lock.procq) : pc[lock.procq[i]] \in {"rdwait", "wrwait"}
    BY DEF SleepersQueued
  <2> QED
    BY <1>1, <1>2, <2>1, QueueRange DEF Holders
<1>14. /\ Holders' = Holders \ {t}
       /\ Cardinality(Holders') = Cardinality(Holders) - 1
       /\ Cardinality(Holders) \in Nat
       /\ Cardinality(Holders') \in Nat
       /\ Holders' = {} => Cardinality(Holders) = 1
  <2>1. Holders' = Holders \ {t}
    BY <1>1, <1>2 DEF Holders
  <2>2. /\ IsFiniteSet(Holders \ {t})
        /\ Cardinality(Holders \ {t}) = Cardinality(Holders) - 1
    BY <1>2, HoldersFinite, FS_RemoveElement
  <2>3. Holders \ {t} = {} <=> Cardinality(Holders \ {t}) = 0
    BY <2>2, FS_EmptySet
  <2>4. Cardinality(Holders) \in Nat /\ Cardinality(Holders \ {t}) \in Nat
    BY <2>2, HoldersFinite, FS_CardinalityType
  <2> QED
    BY <2>1, <2>2, <2>3, <2>4
<1> DEFINE c == Cardinality(Holders)
           d == Cardinality(Holders')
<1>15. c \in Nat /\ d \in Nat /\ d = c - 1 /\ lock.readers <= c
  BY <1>14 DEF ReadersHold
<1>16. c # 1 => Holders' # {}
  BY <1>14
<1>17. lock'.readers <= d => ReadersHold'
  BY DEF ReadersHold
<1> HIDE DEF c, d
<1>5. CASE wakes
  <2>1. lock.procq # << >> /\ lock.opq # << >> /\ lock.readers <= 1
    BY <1>1, <1>5, QueueRange DEF wakes, KRWLockFrees
  <2>2. /\ Head(lock.procq) \in Range(lock.procq)
        /\ Head(lock.procq) = lock.procq[1]
        /\ Tail(lock.procq) \in Seq(Task)
        /\ Len(Tail(lock.procq)) = Len(lock.procq) - 1
        /\ \A i \in 1 .. Len(Tail(lock.procq)) :
              Tail(lock.procq)[i] = lock.procq[i + 1]
        /\ Range(Tail(lock.procq)) = Range(lock.procq) \ {Head(lock.procq)}
        /\ IsInjective(Tail(lock.procq))
    BY <1>1, <2>1, PopProperties DEF SleepersQueued
  <2>3. /\ Tail(lock.opq) \in Seq({"READ", "WRITE"})
        /\ Len(Tail(lock.opq)) = Len(lock.opq) - 1
        /\ \A i \in 1 .. Len(Tail(lock.opq)) : Tail(lock.opq)[i] = lock.opq[i + 1]
    BY <1>1, <2>1, PopProperties
  <2>4. /\ lock'.procq = Tail(lock.procq) /\ lock'.opq = Tail(lock.opq)
        /\ ready' = ready \cup {Head(lock.procq)}
        /\ lock'.readers = 0 /\ lock'.operation = "NONE"
    BY <1>1, <1>2, <1>5, <2>1
  <2>5. Head(lock.procq) \in Task /\ Head(lock.procq) # t
    BY <1>1, <1>4, <2>2, QueueRange
  <2>6. RWTypeOK'
    <3>1. lock' \in [procq : Seq(Task), opq : Seq({"READ", "WRITE"}),
                     readers : Nat, operation : Operations]
      BY <1>1, <1>3, <1>5, <2>1, <2>2, <2>3 DEF Operations
    <3>2. Len(lock'.procq) = Len(lock'.opq)
      BY <1>1, <2>2, <2>3, <2>4
    <3> QED
      BY <1>1, <1>2, <2>4, <2>5, <3>1, <3>2 DEF RWTypeOK
  <2>7. SleepersQueued'
    <3>1. Range(lock'.procq) = Task \ ready'
      BY <2>2, <2>4 DEF SleepersQueued
    <3>2. IsInjective(lock'.procq)
      BY <2>2, <2>4
    <3>3. ASSUME NEW i \in 1 .. Len(lock'.procq)
          PROVE  pc'[lock'.procq[i]]
                   = IF lock'.opq[i] = "READ" THEN "rdwait" ELSE "wrwait"
      <4>1. i \in 1 .. Len(Tail(lock.procq)) /\ i \in 1 .. Len(Tail(lock.opq))
            /\ i + 1 \in 1 .. Len(lock.procq)
        BY <1>1, <2>2, <2>3, <2>4
      <4>2. lock'.procq[i] = lock.procq[i + 1] /\ lock'.opq[i] = lock.opq[i + 1]
        BY <2>2, <2>3, <2>4, <4>1
      <4>3. lock.procq[i + 1] # t
        BY <1>1, <1>4, <4>1, QueueRange
      <4>4. pc'[lock.procq[i + 1]] = pc[lock.procq[i + 1]]
        BY <1>1, <1>2, <4>3
      <4> QED
        BY <4>1, <4>2, <4>4 DEF SleepersQueued
    <3> QED
      BY <3>1, <3>2, <3>3 DEF SleepersQueued
  <2>8. ReadersHold' /\ BusyHeld'
    <3>1. lock'.readers <= d
      BY <1>15, <2>4
    <3> QED
      BY <1>17, <3>1, <2>4 DEF BusyHeld
  <2>9. NoLostWaiter'
    <3>1. pc[Head(lock.procq)] \in {"rdwait", "wrwait"}
      BY <1>1, <2>1, <2>2 DEF SleepersQueued
    <3>2. Head(lock.procq) \in Woken'
      BY <1>1, <1>2, <2>4, <2>5, <3>1 DEF Woken, Waiting
    <3> QED
      BY <3>2 DEF NoLostWaiter
  <2> QED
    BY <2>6, <2>7, <2>8, <2>9
<1>6. CASE ~ wakes
  <2>1. lock'.procq = lock.procq /\ lock'.opq = lock.opq /\ ready' = ready
    BY <1>1, <1>2, <1>6
  <2>2. lock'.readers \in Nat /\ lock'.operation \in Operations
    BY <1>1, <1>2 DEF Operations
  <2>3. RWTypeOK'
    BY <1>1, <1>2, <1>3, <2>1, <2>2 DEF RWTypeOK
  <2>4. SleepersQueued'
    <3>1. ASSUME NEW i \in 1 .. Len(lock.procq)
          PROVE  pc'[lock.procq[i]]
                   = IF lock.opq[i] = "READ" THEN "rdwait" ELSE "wrwait"
      <4>1. lock.procq[i] # t
        BY <1>1, <1>4, QueueRange
      <4>2. pc'[lock.procq[i]] = pc[lock.procq[i]]
        BY <1>1, <1>2, <4>1
      <4> QED
        BY <4>2 DEF SleepersQueued
    <3> QED
      BY <2>1, <3>1 DEF SleepersQueued
  <2>5. CASE KRWLockFrees(lock)
    <3>1. lock.procq = << >> /\ lock.readers <= 1
      BY <1>6, <2>5 DEF wakes, KRWLockFrees
    <3>2. lock'.readers = 0 /\ lock'.operation = "NONE"
      BY <1>1, <1>2, <3>1
    <3>3. lock'.readers <= d
      BY <1>15, <3>2
    <3> QED
      BY <1>17, <2>1, <2>3, <2>4, <3>1, <3>2, <3>3
      DEF BusyHeld, NoLostWaiter
  <2>6. CASE ~ KRWLockFrees(lock)
    <3>1. lock.readers >= 2 /\ lock'.readers = lock.readers - 1
      BY <1>1, <1>2, <2>6 DEF KRWLockFrees
    <3>2. lock'.readers <= d /\ c # 1
      BY <1>1, <1>15, <3>1
    <3> QED
      BY <1>16, <1>17, <2>3, <2>4, <3>2 DEF BusyHeld, NoLostWaiter
  <2> QED
    BY <2>5, <2>6
<1> QED
  BY <1>5, <1>6

(***************************************************************************)
(* Every step keeps the invariant.                                         *)
(***************************************************************************)
LEMMA RWNextIInv == RWIInv /\ [RWNext]_rwVars => RWIInv'
<1> SUFFICES ASSUME RWIInv, [RWNext]_rwVars PROVE RWIInv'
  OBVIOUS
<1>1. ASSUME NEW t \in Task, ReadSleeps(t) PROVE RWIInv'
  <2>1. lock.operation # "NONE"
    BY <1>1 DEF ReadSleeps, KRWLockReadBlocks
  <2> QED
    BY <1>1, <2>1, EnqueueIInv DEF ReadSleeps
<1>2. ASSUME NEW t \in Task, WriteSleeps(t) PROVE RWIInv'
  <2>1. lock.operation # "NONE"
    BY <1>2 DEF WriteSleeps, KRWLockWriteBlocks
  <2> QED
    BY <1>2, <2>1, EnqueueIInv DEF WriteSleeps
<1>3. ASSUME NEW t \in Task, ReadEnters(t) PROVE RWIInv'
  BY <1>3, ReadEntersIInv
<1>4. ASSUME NEW t \in Task, WriteEnters(t) PROVE RWIInv'
  BY <1>4, WriteEntersIInv
<1>5. ASSUME NEW t \in Task, Release(t) PROVE RWIInv'
  BY <1>5, ReleaseIInv
<1>6. CASE UNCHANGED rwVars
  BY <1>6 DEF rwVars, RWIInv, RWTypeOK, SleepersQueued, ReadersHold, BusyHeld,
              NoLostWaiter, Holders, Woken, Waiting
<1> QED
  BY <1>1, <1>2, <1>3, <1>4, <1>5, <1>6 DEF RWNext

\* The inductive invariant holds for the lock of every finite set of tasks.
THEOREM RWInvariance == RWSpec => []RWIInv
<1> QED
  BY RWInitIInv, RWNextIInv, PTL DEF RWSpec

(***************************************************************************)
(* The results.                                                            *)
(***************************************************************************)

\* Type correctness of the krwlock and its users.
THEOREM RWTypeCorrect == RWSpec => []RWTypeOK
<1>1. RWIInv => RWTypeOK
  BY DEF RWIInv
<1> QED
  BY <1>1, RWInvariance, PTL

\* krwlock_read, krwlock_write and krwlock_release keep procq and opq in
\* step: the tasks asleep in the lock are those in procq, once each, with
\* their own operation at the same position of opq.
THEOREM SleepersAreQueued == RWSpec => []SleepersQueued
<1>1. RWIInv => SleepersQueued
  BY DEF RWIInv
<1> QED
  BY <1>1, RWInvariance, PTL

\* No wake-up is lost in krwlock_release, however many tasks there are.
THEOREM NoWaiterLost == RWSpec => []NoLostWaiter
<1>1. RWIInv => NoLostWaiter
  BY DEF RWIInv
<1> QED
  BY <1>1, RWInvariance, PTL

\* A lock nobody holds is free.
THEOREM UnheldIsFree == RWSpec => []FreeWhenUnheld
<1>1. RWIInv => FreeWhenUnheld
  <2> SUFFICES ASSUME RWIInv, Holders = {}
               PROVE  lock.operation = "NONE" /\ lock.readers = 0
    BY DEF FreeWhenUnheld, RWIInv
  <2>1. Cardinality(Holders) = 0
    BY HoldersFinite
  <2>2. lock.readers \in Nat /\ lock.readers <= 0
    BY <2>1 DEF RWIInv, RWTypeOK, ReadersHold
  <2> QED
    BY <2>2 DEF RWIInv, BusyHeld
<1> QED
  BY <1>1, RWInvariance, PTL

(* The ATA driver. *)

(***************************************************************************)
(* The inductive invariant.  disk_sem lets one task at a time into the     *)
(* driver, and is passed to the next by the one that leaves: ata_task is   *)
(* then the task that sleeps in a transfer, if there is one, and the       *)
(* registers of the driver are its own.                                    *)
(***************************************************************************)
AtaQueuedTasks == {t \in Task : pc[t] = "queued" /\ t \notin ready}
AtaInside == {t \in Task : pc[t] = "transfer" \/ (pc[t] = "queued" /\ t \in ready)}

AtaOneInside ==
    /\ MutexSound(Task, disk_sem, AtaQueuedTasks, AtaInside)
    /\ \A t \in Task : pc[t] = "user" => t \in ready

\* The requests are good until they are done.  The data a queued writer passed
\* can be overwritten by an interrupt that comes after the reader before it was
\* woken, but by a sector, never by what the port gives without one.
DevOf(r, data) == [op |-> r.op, sector |-> r.sector, data |-> data]

RequestsGood ==
    /\ \/ dev = Idle \/ dev = [op |-> "FLUSH"]
       \/ \E r \in Request, data \in Data \cup {JUNK} :
             dev = DevOf(r, data) /\ (r.op = "WRITE" => data \in Data)
    /\ \A t \in Task : pc[t] # "user" =>
          /\ req[t] \in Request
          /\ pc[t] = "queued" /\ req[t].op = "WRITE" => buffer[t] \in Data
    /\ ata_current_op = "READ" =>
          /\ dev = Idle \/ dev.op = "READ"
          /\ irq /\ ata_task = NULL => drq \in Data

AtaTaskSleeps ==
    /\ ata_task # NULL =>
          /\ pc[ata_task] = "transfer" /\ ata_task \notin ready
          /\ ata_current_buffer = ata_task
          /\ irq \/ dev # Idle
    /\ \A t \in Task : pc[t] = "transfer" /\ t \notin ready => ata_task = t

\* A transfer that began with the disk at rest: asleep, its command is the one
\* the disk works on, or is done with the interrupt still to come; awake, it
\* is done, and at most the flush is left.
QuietAsleep(t) ==
    /\ ata_current_op = req[t].op
    /\ \/ dev = DevOf(req[t], buffer[t]) /\ ~ irq
       \/ /\ dev = Idle /\ irq
          /\ IF req[t].op = "READ" THEN drq = disk[req[t].sector]
             ELSE buffer[t] = disk[req[t].sector]

QuietAwake(t) ==
    /\ dev = Idle \/ dev.op = "FLUSH"
    /\ ata_current_op = "READ" => dev = Idle /\ ~ irq
    /\ buffer[t] = disk[req[t].sector]

QuietSound ==
    \A t \in Task \ raced :
        pc[t] = "transfer" => IF t \in ready THEN QuietAwake(t) ELSE QuietAsleep(t)

AtaIInv ==
    /\ AtaTypeOK
    /\ AtaOneInside
    /\ RequestsGood
    /\ AtaTaskSleeps
    /\ QuietSound

\* The parts of TypeOK the steps use.
LEMMA AtaTypeFacts ==
    ASSUME AtaIInv
    PROVE  /\ disk \in [Sector -> Data] /\ drq \in Data \cup {JUNK}
           /\ irq \in BOOLEAN /\ ata_current_op \in Command
           /\ {ata_current_buffer, ata_task} \subseteq Task \cup {NULL}
           /\ pc \in [Task -> {"user", "queued", "transfer"}]
           /\ req \in [Task -> Request \cup {Idle}]
           /\ buffer \in [Task -> Data \cup {JUNK}]
           /\ raced \subseteq Task /\ ready \subseteq Task
           /\ disk_sem \in [value : Int, sq : Seq(Task)]
<1> QED
  BY DEF AtaIInv, AtaTypeOK

\* What the disk does when a command is done, whatever the command was.
LEMMA DeviceFacts ==
    ASSUME AtaIInv
    PROVE  /\ DiskAfter(disk, dev) \in [Sector -> Data]
           /\ PortAfter(drq, disk, dev) \in Data \cup {JUNK}
           /\ dev # Idle /\ dev.op = "READ" => PortAfter(drq, disk, dev) \in Data
           /\ dev.op # "WRITE" => DiskAfter(disk, dev) = disk
<1> USE AtaTypeFacts
<1>1. CASE dev = Idle \/ dev = [op |-> "FLUSH"]
  BY <1>1 DEF DiskAfter, PortAfter, Idle
<1>2. ASSUME NEW r \in Request, NEW data \in Data \cup {JUNK},
             dev = DevOf(r, data), r.op = "WRITE" => data \in Data
      PROVE  /\ DiskAfter(disk, dev) \in [Sector -> Data]
             /\ PortAfter(drq, disk, dev) \in Data \cup {JUNK}
             /\ dev.op = "READ" => PortAfter(drq, disk, dev) \in Data
  <2>1. /\ r.op \in {"READ", "WRITE"} /\ r.sector \in Sector
        /\ dev.op = r.op /\ dev.sector = r.sector /\ dev.data = data
    BY <1>2 DEF Request, DevOf
  <2> QED
    BY <1>2, <2>1 DEF DiskAfter, PortAfter
<1> QED
  BY <1>1, <1>2 DEF AtaIInv, RequestsGood, DiskAfter

\* The records of commands and requests.
LEMMA CommandFacts ==
    ASSUME NEW r \in Request, NEW data
    PROVE  /\ DevOf(r, data) # Idle
           /\ DevOf(r, data).op = r.op /\ DevOf(r, data).sector = r.sector
           /\ DevOf(r, data).data = data
           /\ r.op \in {"READ", "WRITE"} /\ r.sector \in Sector
<1>1. DevOf(r, data).op = r.op /\ r.op \in {"READ", "WRITE"} /\ Idle.op = "NONE"
  BY DEF DevOf, Request, Idle
<1>2. DevOf(r, data) # Idle
  BY <1>1
<1> QED
  BY <1>1, <1>2 DEF DevOf, Request

LEMMA AtaInitIInv == AtaInit => AtaIInv
<1> SUFFICES ASSUME AtaInit PROVE AtaIInv
  OBVIOUS
<1> USE TaskAssumption, NullAssumption DEF AtaInit
<1>1. AtaQueuedTasks = {} /\ AtaInside = {}
  BY DEF AtaQueuedTasks, AtaInside
<1>2. AtaOneInside
  BY <1>1, MutexInit DEF AtaOneInside
<1>3. disk_sem \in [value : Int, sq : Seq(Task)]
  BY <1>2 DEF AtaOneInside, MutexSound
<1>4. AtaTypeOK
  BY <1>3 DEF AtaTypeOK, Command, Idle
<1> QED
  BY <1>2, <1>4 DEF AtaIInv, RequestsGood, AtaTaskSleeps, QuietSound

(***************************************************************************)
(* The disk.                                                               *)
(***************************************************************************)
LEMMA DeviceIInv ==
    ASSUME AtaIInv, DeviceFinishes
    PROVE  AtaIInv'
<1>1. /\ dev # Idle /\ dev' = Idle /\ irq' = TRUE
      /\ disk' = DiskAfter(disk, dev) /\ drq' = PortAfter(drq, disk, dev)
      /\ UNCHANGED << ata_current_op, ata_current_buffer, ata_task, disk_sem,
                      pc, req, buffer, raced, ready >>
      /\ AtaQueuedTasks' = AtaQueuedTasks /\ AtaInside' = AtaInside
  BY DEF DeviceFinishes, driver, AtaQueuedTasks, AtaInside
<1>2. AtaTypeOK'
  BY <1>1, AtaTypeFacts, DeviceFacts DEF AtaTypeOK
<1>3. AtaOneInside'
  BY <1>1 DEF AtaIInv, AtaOneInside
<1>4. RequestsGood'
  BY <1>1, DeviceFacts DEF AtaIInv, RequestsGood
<1>5. AtaTaskSleeps'
  BY <1>1 DEF AtaIInv, AtaTaskSleeps
<1>6. QuietSound'
  <2> SUFFICES ASSUME NEW t \in Task \ raced, pc[t] = "transfer"
               PROVE  IF t \in ready THEN QuietAwake(t)' ELSE QuietAsleep(t)'
    BY <1>1 DEF QuietSound
  <2>1. CASE t \in ready
    <3>1. QuietAwake(t)
      BY <2>1 DEF AtaIInv, QuietSound
    <3>2. dev.op = "FLUSH" /\ ata_current_op # "READ" /\ disk' = disk
      BY <1>1, <3>1, DeviceFacts DEF QuietAwake
    <3> QED
      BY <1>1, <2>1, <3>1, <3>2 DEF QuietAwake
  <2>2. CASE t \notin ready
    <3>1. QuietAsleep(t)
      BY <2>2 DEF AtaIInv, QuietSound
    <3>2. dev = DevOf(req[t], buffer[t]) /\ ata_current_op = req[t].op
      BY <1>1, <3>1 DEF QuietAsleep
    <3>3. req[t] \in Request
      BY DEF AtaIInv, RequestsGood
    <3>4. /\ req[t].op = "READ" => drq' = disk[req[t].sector] /\ disk' = disk
          /\ req[t].op = "WRITE" => disk' = [disk EXCEPT ![req[t].sector] = buffer[t]]
          /\ req[t].op \in {"READ", "WRITE"} /\ req[t].sector \in Sector
      BY <1>1, <3>2, <3>3, CommandFacts DEF DiskAfter, PortAfter
    <3>5. QuietAsleep(t)'
      BY <1>1, <3>2, <3>4, AtaTypeFacts DEF QuietAsleep
    <3> QED
      BY <2>2, <3>5
  <2> QED
    BY <2>1, <2>2
<1> QED
  BY <1>2, <1>3, <1>4, <1>5, <1>6 DEF AtaIInv

(***************************************************************************)
(* ata_ihandler.  The sector goes to the task that is woken, or to one     *)
(* that was woken before by another interrupt, and is out of the driver or *)
(* queued for it again.                                                    *)
(***************************************************************************)
LEMMA HandlerIInv ==
    ASSUME AtaIInv, ata_ihandler
    PROVE  AtaIInv'
<1>1. /\ irq = TRUE /\ irq' = FALSE
      /\ ready' = ready \cup ({ata_task} \ {NULL}) /\ ata_task' = NULL
      /\ UNCHANGED << disk, ata_current_buffer, disk_sem, pc, req, raced >>
  BY AtaTypeFacts DEF ata_ihandler, Awoken
<1>2. /\ dev' = dev \/ (dev = Idle /\ dev' = [op |-> "FLUSH"])
      /\ ata_current_op = "READ" => dev' = dev /\ ata_current_op' = "READ"
      /\ ata_current_op # "READ" =>
            ata_current_op' = "FLUSH" /\ buffer' = buffer /\ drq' = drq
      /\ ata_current_op = "READ" => buffer' = InsSector /\ drq' = JUNK
  BY AtaTypeFacts DEF ata_ihandler, HandleWrite, HandleRead, HandleFlush, Command
<1>3. /\ buffer' \in [Task -> Data \cup {JUNK}]
      /\ \A t \in Task : ata_current_op # "READ" \/ t # ata_current_buffer
                            => buffer'[t] = buffer[t]
      /\ \A t \in Task : ata_current_op = "READ" /\ t = ata_current_buffer
                            => buffer'[t] = drq
  BY <1>2, AtaTypeFacts, TaskAssumption, NullAssumption DEF InsSector
<1>4. \A t \in ready' \ ready : pc[t] = "transfer" /\ t = ata_task
  BY <1>1 DEF AtaIInv, AtaTaskSleeps
<1>5. AtaTypeOK'
  <2>1. dev' = Idle \/ dev'.op \in Command
    BY <1>2 DEF AtaIInv, AtaTypeOK, Command
  <2>2. drq' \in Data \cup {JUNK} /\ ata_current_op' \in Command
    BY <1>2, AtaTypeFacts DEF Command
  <2> QED
    BY <1>1, <1>3, <2>1, <2>2, AtaTypeFacts DEF AtaTypeOK
<1>6. AtaOneInside'
  <2>1. AtaQueuedTasks' = AtaQueuedTasks /\ AtaInside' = AtaInside
    BY <1>1, <1>4 DEF AtaQueuedTasks, AtaInside
  <2> QED
    BY <1>1, <2>1 DEF AtaIInv, AtaOneInside
<1>7. RequestsGood'
  <2>1. dev' = Idle \/ dev' = [op |-> "FLUSH"] \/
           \E r \in Request, data \in Data \cup {JUNK} :
              dev' = DevOf(r, data) /\ (r.op = "WRITE" => data \in Data)
    BY <1>2 DEF AtaIInv, RequestsGood
  <2>2. ASSUME NEW t \in Task, pc[t] = "queued", req[t].op = "WRITE"
        PROVE  buffer'[t] \in Data
    <3>1. CASE ata_current_op # "READ" \/ t # ata_current_buffer
      BY <1>3, <2>2, <3>1 DEF AtaIInv, RequestsGood
    <3>2. CASE ata_current_op = "READ" /\ t = ata_current_buffer
      <4>1. ata_task = NULL
        BY <2>2, <3>2 DEF AtaIInv, AtaTaskSleeps
      <4>2. drq \in Data
        BY <1>1, <3>2, <4>1 DEF AtaIInv, RequestsGood
      <4> QED
        BY <1>3, <3>2, <4>2
    <3> QED
      BY <3>1, <3>2
  <2>3. ata_current_op' = "READ" => dev' = Idle \/ dev'.op = "READ"
    BY <1>2 DEF AtaIInv, RequestsGood
  <2> QED
    BY <1>1, <2>1, <2>2, <2>3 DEF AtaIInv, RequestsGood
<1>8. AtaTaskSleeps'
  BY <1>1 DEF AtaIInv, AtaTaskSleeps
<1>9. QuietSound'
  <2> SUFFICES ASSUME NEW t \in Task \ raced, pc[t] = "transfer"
               PROVE  t \in ready' /\ QuietAwake(t)'
    BY <1>1, <1>8 DEF QuietSound, AtaTaskSleeps
  <2>1. t \in ready'
    BY <1>1, <1>8, TaskAssumption, NullAssumption DEF AtaTaskSleeps
  <2>2. req[t] \in Request /\ req[t].op \in {"READ", "WRITE"}
    BY CommandFacts DEF AtaIInv, RequestsGood
  <2>3. [op |-> "FLUSH"].op = "FLUSH"
    OBVIOUS
  <2>4. CASE t \in ready
    <3>1. QuietAwake(t) /\ ata_current_op # "READ"
      BY <1>1, <2>4 DEF AtaIInv, QuietSound, QuietAwake
    <3>2. dev' = Idle \/ dev'.op = "FLUSH"
      BY <1>2, <2>3, <3>1 DEF QuietAwake
    <3>3. buffer'[t] = buffer[t] /\ ata_current_op' # "READ"
      BY <1>2, <1>3, <3>1
    <3> QED
      BY <1>1, <2>1, <3>1, <3>2, <3>3 DEF QuietAwake
  <2>5. CASE t \notin ready
    <3>1. t = ata_task /\ t = ata_current_buffer /\ QuietAsleep(t)
      BY <2>5, TaskAssumption, NullAssumption DEF AtaIInv, AtaTaskSleeps, QuietSound
    <3>2. /\ dev = Idle /\ ata_current_op = req[t].op
          /\ IF req[t].op = "READ" THEN drq = disk[req[t].sector]
             ELSE buffer[t] = disk[req[t].sector]
      BY <1>1, <3>1 DEF QuietAsleep
    <3>3. buffer'[t] = disk[req[t].sector]
      BY <1>3, <3>1, <3>2
    <3> QED
      BY <1>1, <1>2, <2>1, <2>2, <2>3, <3>2, <3>3 DEF QuietAwake
  <2> QED
    BY <2>4, <2>5
<1> QED
  BY <1>5, <1>6, <1>7, <1>8, <1>9 DEF AtaIInv

(***************************************************************************)
(* A task that is queued for disk_sem.                                     *)
(***************************************************************************)
LEMMA QueueIInv ==
    ASSUME AtaIInv, NEW t \in Task, NEW r \in Request, NEW data \in Data \cup {JUNK},
           r.op = "WRITE" => data \in Data,
           Queue(t, r, data)
    PROVE  AtaIInv'
<1>1. /\ pc[t] = "user" /\ KSemaphoreBlocks(disk_sem)
      /\ disk_sem' = KSemaphoreWait(disk_sem, t)
      /\ pc' = [pc EXCEPT ![t] = "queued"] /\ req' = [req EXCEPT ![t] = r]
      /\ buffer' = [buffer EXCEPT ![t] = data] /\ ready' = ready \ {t}
      /\ UNCHANGED << disk, dev, drq, irq, ata_current_op, ata_current_buffer,
                      ata_task, raced >>
  BY DEF Queue, device
<1>2. /\ t \in ready /\ t \notin AtaQueuedTasks
      /\ AtaQueuedTasks' = AtaQueuedTasks \cup {t} /\ AtaInside' = AtaInside
  BY <1>1, AtaTypeFacts DEF AtaIInv, AtaOneInside, AtaQueuedTasks, AtaInside
<1>3. AtaOneInside'
  <2>1. MutexSound(Task, disk_sem', AtaQueuedTasks', AtaInside')
    BY <1>1, <1>2, MutexWait DEF AtaIInv, AtaOneInside
  <2> QED
    BY <1>1, <2>1, AtaTypeFacts DEF AtaIInv, AtaOneInside
<1>4. disk_sem' \in [value : Int, sq : Seq(Task)]
  BY <1>3 DEF AtaOneInside, MutexSound
<1>5. AtaTypeOK'
  BY <1>1, <1>4, AtaTypeFacts DEF AtaIInv, AtaTypeOK
<1>6. RequestsGood'
  BY <1>1, AtaTypeFacts DEF AtaIInv, RequestsGood
<1>7. AtaTaskSleeps'
  BY <1>1, AtaTypeFacts DEF AtaIInv, AtaTaskSleeps
<1>8. QuietSound'
  <2> SUFFICES ASSUME NEW u \in Task \ raced, pc'[u] = "transfer"
               PROVE  IF u \in ready' THEN QuietAwake(u)' ELSE QuietAsleep(u)'
    BY <1>1 DEF QuietSound
  <2>1. u # t /\ pc[u] = "transfer" /\ (u \in ready' <=> u \in ready)
        /\ req'[u] = req[u] /\ buffer'[u] = buffer[u]
    BY <1>1, AtaTypeFacts
  <2> QED
    BY <1>1, <2>1 DEF AtaIInv, QuietSound, QuietAwake, QuietAsleep
<1> QED
  BY <1>3, <1>5, <1>6, <1>7, <1>8 DEF AtaIInv

(***************************************************************************)
(* The task that has disk_sem issues its command.                          *)
(***************************************************************************)
LEMMA IssueIInv ==
    ASSUME AtaIInv, NEW t \in Task, NEW r \in Request, NEW data \in Data \cup {JUNK},
           r.op = "WRITE" => data \in Data,
           t \notin AtaQueuedTasks, AtaInside \subseteq {t},
           MutexSound(Task, disk_sem', AtaQueuedTasks, {t}),
           req' = [req EXCEPT ![t] = r], buffer' = [buffer EXCEPT ![t] = data],
           Issue(t, r, data)
    PROVE  AtaIInv'
<1>1. /\ ata_current_buffer' = t /\ ata_current_op' = r.op /\ ata_task' = t
      /\ disk' = DiskAfter(disk, dev) /\ drq' = JUNK
      /\ irq' \in {FALSE, irq \/ dev # Idle}
      /\ dev' = DevOf(r, data)
      /\ pc' = [pc EXCEPT ![t] = "transfer"]
      /\ raced' = IF irq \/ dev # Idle THEN raced \cup {t} ELSE raced \ {t}
      /\ ready' = ready \ {t}
  BY DEF Issue, DevOf
<1>2. /\ dev' # Idle /\ dev'.op = r.op /\ r.op \in {"READ", "WRITE"}
      /\ t # NULL
  BY <1>1, CommandFacts, TaskAssumption, NullAssumption
<1>3. AtaQueuedTasks' = AtaQueuedTasks /\ AtaInside' = {t}
  BY <1>1, AtaTypeFacts DEF AtaQueuedTasks, AtaInside
<1>4. AtaOneInside'
  BY <1>1, <1>3, AtaTypeFacts DEF AtaIInv, AtaOneInside
<1>5. AtaTypeOK'
  <2>1. disk_sem' \in [value : Int, sq : Seq(Task)]
    BY <1>4 DEF AtaOneInside, MutexSound
  <2>2. irq' \in BOOLEAN
    BY <1>1, AtaTypeFacts
  <2> QED
    BY <1>1, <1>2, <2>1, <2>2, AtaTypeFacts, DeviceFacts DEF AtaTypeOK, Command
<1>6. RequestsGood'
  <2>1. \A u \in Task : pc'[u] # "user" =>
           /\ req'[u] \in Request
           /\ pc'[u] = "queued" /\ req'[u].op = "WRITE" => buffer'[u] \in Data
    BY <1>1, AtaTypeFacts DEF AtaIInv, RequestsGood
  <2> QED
    BY <1>1, <1>2, <2>1 DEF RequestsGood
<1>7. \A u \in Task \ {t} : pc'[u] # "transfer"
  BY <1>1, AtaTypeFacts DEF AtaInside
<1>8. AtaTaskSleeps'
  BY <1>1, <1>2, <1>7, AtaTypeFacts DEF AtaTaskSleeps
<1>9. QuietSound'
  <2> SUFFICES ASSUME t \notin raced' PROVE QuietAsleep(t)'
    BY <1>1, <1>7 DEF QuietSound
  <2>1. ~ irq'
    BY <1>1
  <2> QED
    BY <1>1, <2>1, AtaTypeFacts DEF QuietAsleep
<1> QED
  BY <1>4, <1>5, <1>6, <1>8, <1>9 DEF AtaIInv

LEMMA StartIInv ==
    ASSUME AtaIInv, NEW t \in Task, NEW r \in Request, NEW data \in Data \cup {JUNK},
           r.op = "WRITE" => data \in Data,
           Start(t, r, data)
    PROVE  AtaIInv'
<1>1. /\ pc[t] = "user" /\ ~ KSemaphoreBlocks(disk_sem)
      /\ disk_sem' = KSemaphoreWait(disk_sem, t)
      /\ req' = [req EXCEPT ![t] = r] /\ buffer' = [buffer EXCEPT ![t] = data]
      /\ Issue(t, r, data)
  BY DEF Start
<1>2. t \notin AtaQueuedTasks
  BY <1>1 DEF AtaQueuedTasks
<1>3. /\ MutexSound(Task, disk_sem, AtaQueuedTasks, AtaInside)
      /\ AtaInside = {}
      /\ MutexSound(Task, disk_sem', AtaQueuedTasks, {t})
  BY <1>1, <1>2, MutexBlocks, MutexWait DEF AtaIInv, AtaOneInside
<1> QED
  BY <1>1, <1>2, <1>3, IssueIInv

LEMMA StartQueuedIInv ==
    ASSUME AtaIInv, NEW t \in Task, StartQueued(t)
    PROVE  AtaIInv'
<1>1. /\ pc[t] = "queued" /\ t \in ready
      /\ Issue(t, req[t], buffer[t])
      /\ disk_sem' = disk_sem /\ req' = req /\ buffer' = buffer
  BY DEF StartQueued
<1>2. /\ req[t] \in Request /\ buffer[t] \in Data \cup {JUNK}
      /\ req[t].op = "WRITE" => buffer[t] \in Data
  BY <1>1, AtaTypeFacts DEF AtaIInv, RequestsGood
<1>3. t \notin AtaQueuedTasks /\ t \in AtaInside
  BY <1>1 DEF AtaQueuedTasks, AtaInside
<1>4. AtaInside = {t} /\ MutexSound(Task, disk_sem', AtaQueuedTasks, {t})
  <2>1. MutexSound(Task, disk_sem, AtaQueuedTasks, AtaInside)
    BY DEF AtaIInv, AtaOneInside
  <2>2. \A u \in AtaInside : u = t
    BY <1>3, <2>1, MutexBlocks
  <2>3. AtaInside = {t}
    BY <1>3, <2>2
  <2> QED
    BY <1>1, <2>1, <2>3
<1>5. req' = [req EXCEPT ![t] = req[t]] /\ buffer' = [buffer EXCEPT ![t] = buffer[t]]
  BY <1>1, AtaTypeFacts
<1> QED
  BY <1>1, <1>2, <1>3, <1>4, <1>5, IssueIInv

(***************************************************************************)
(* The end of a call: disk_sem is handed to the head of its queue.         *)
(***************************************************************************)
LEMMA FinishIInv ==
    ASSUME AtaIInv, NEW t \in Task, Finish(t)
    PROVE  AtaIInv'
<1> DEFINE woken == KSemaphoreWakes(disk_sem)
<1>1. /\ pc[t] = "transfer" /\ t \in ready
      /\ disk_sem' = KSemaphoreSignal(disk_sem)
      /\ ready' = ready \cup woken
      /\ pc' = [pc EXCEPT ![t] = "user"]
      /\ UNCHANGED << disk, dev, drq, irq, ata_current_op, ata_current_buffer,
                      ata_task, req, buffer, raced >>
  BY DEF Finish, device
<1>2. /\ t \in AtaInside /\ \A u \in AtaInside : u = t
      /\ woken \subseteq AtaQueuedTasks
      /\ MutexSound(Task, disk_sem', AtaQueuedTasks \ woken, woken)
  <2>1. t \in AtaInside
    BY <1>1 DEF AtaInside
  <2> QED
    BY <1>1, <2>1, MutexBlocks, MutexSignal DEF AtaIInv, AtaOneInside
<1> HIDE DEF woken
<1>3. AtaQueuedTasks' = AtaQueuedTasks \ woken /\ AtaInside' = woken
  BY <1>1, <1>2, AtaTypeFacts DEF AtaQueuedTasks, AtaInside
<1>4. AtaOneInside'
  BY <1>1, <1>2, <1>3, AtaTypeFacts DEF AtaIInv, AtaOneInside
<1>5. AtaTypeOK'
  <2>1. disk_sem' \in [value : Int, sq : Seq(Task)]
    BY <1>4 DEF AtaOneInside, MutexSound
  <2>2. woken \subseteq Task
    BY <1>2 DEF AtaQueuedTasks
  <2> QED
    BY <1>1, <2>1, <2>2, AtaTypeFacts DEF AtaIInv, AtaTypeOK
<1>6. RequestsGood'
  BY <1>1, AtaTypeFacts DEF AtaIInv, RequestsGood
<1>7. \A u \in Task : pc'[u] # "transfer"
  BY <1>1, <1>2, AtaTypeFacts DEF AtaInside
<1>8. ata_task = NULL
  <2>1. ata_task # NULL => ata_task \in AtaInside /\ ata_task \notin ready
    BY AtaTypeFacts DEF AtaIInv, AtaTaskSleeps, AtaInside
  <2> QED
    BY <1>1, <1>2, <2>1
<1>9. AtaTaskSleeps' /\ QuietSound'
  BY <1>1, <1>7, <1>8 DEF AtaTaskSleeps, QuietSound
<1> QED
  BY <1>4, <1>5, <1>6, <1>9 DEF AtaIInv

(***************************************************************************)
(* Every step keeps the invariant.                                         *)
(***************************************************************************)
LEMMA AtaNextIInv == AtaIInv /\ [AtaNext]_ataVars => AtaIInv'
<1> SUFFICES ASSUME AtaIInv, [AtaNext]_ataVars PROVE AtaIInv'
  OBVIOUS
<1>1. ASSUME NEW t \in Task, NEW s \in Sector, NEW data \in Data,
             Queue(t, [op |-> "WRITE", sector |-> s], data)
               \/ Start(t, [op |-> "WRITE", sector |-> s], data)
      PROVE  AtaIInv'
  <2>1. [op |-> "WRITE", sector |-> s] \in Request
    BY DEF Request
  <2> QED
    BY <1>1, <2>1, QueueIInv, StartIInv
<1>2. ASSUME NEW t \in Task, NEW s \in Sector,
             Queue(t, [op |-> "READ", sector |-> s], JUNK)
               \/ Start(t, [op |-> "READ", sector |-> s], JUNK)
      PROVE  AtaIInv'
  <2>1. /\ [op |-> "READ", sector |-> s] \in Request
        /\ [op |-> "READ", sector |-> s].op # "WRITE"
    BY DEF Request
  <2> QED
    BY <1>2, <2>1, QueueIInv, StartIInv
<1>3. ASSUME NEW t \in Task, StartQueued(t) PROVE AtaIInv'
  BY <1>3, StartQueuedIInv
<1>4. ASSUME NEW t \in Task, Finish(t) PROVE AtaIInv'
  BY <1>4, FinishIInv
<1>5. CASE DeviceFinishes
  BY <1>5, DeviceIInv
<1>6. CASE ata_ihandler
  BY <1>6, HandlerIInv
<1>7. CASE UNCHANGED ataVars
  <2>1. /\ UNCHANGED << disk, dev, drq, irq, ata_current_op, ata_current_buffer,
                        ata_task, disk_sem, pc, req, buffer, raced, ready >>
        /\ AtaQueuedTasks' = AtaQueuedTasks /\ AtaInside' = AtaInside
    BY <1>7 DEF ataVars, device, driver, AtaQueuedTasks, AtaInside
  <2>2. AtaTypeOK' /\ AtaOneInside' /\ RequestsGood' /\ AtaTaskSleeps'
    BY <2>1 DEF AtaIInv, AtaTypeOK, AtaOneInside, RequestsGood, AtaTaskSleeps
  <2>3. QuietSound'
    BY <2>1 DEF AtaIInv, QuietSound, QuietAwake, QuietAsleep
  <2> QED
    BY <2>2, <2>3 DEF AtaIInv
<1> QED
  BY <1>1, <1>2, <1>3, <1>4, <1>5, <1>6, <1>7 DEF AtaNext

\* The inductive invariant holds however tasks queue for the driver, and however
\* late the disk and its interrupts are.
THEOREM AtaInvariance == AtaSpec => []AtaIInv
<1> QED
  BY AtaInitIInv, AtaNextIInv, PTL DEF AtaSpec

(***************************************************************************)
(* The results.                                                            *)
(***************************************************************************)

\* No lost interrupt in ata_read, ata_write and ata_ihandler: the task asleep
\* in a transfer is ata_task, and an interrupt is pending or comes when the
\* disk is done.
THEOREM SleeperIsWoken == AtaSpec => []SleeperHasInterrupt
<1>1. AtaIInv => SleeperHasInterrupt
  BY TaskAssumption, NullAssumption DEF AtaIInv, AtaTaskSleeps, SleeperHasInterrupt
<1> QED
  BY <1>1, AtaInvariance, PTL

\* A transfer that begins with the disk at rest and no interrupt pending is
\* done when ata_read or ata_write goes on.
THEOREM QuietTransfersAreDone == AtaSpec => []QuietTransfersDone
<1>1. AtaIInv => QuietTransfersDone
  BY DEF AtaIInv, QuietSound, QuietAwake, QuietTransfersDone
<1> QED
  BY <1>1, AtaInvariance, PTL

---------------------------------------------------------------------------
(* Standard input. *)

(***************************************************************************)
(* The inductive invariant.  stdin_lock lets one reader at a time look at  *)
(* input_list, so that the line a reader was woken for cannot be taken by  *)
(* another; and reader_task is exactly the reader that sleeps for a line,  *)
(* so that the keyboard, which wakes it with the first line, wakes nobody  *)
(* who has gone on in the meantime.                                        *)
(***************************************************************************)
StdinQueuedTasks == {t \in Task : pc[t] = "queued" /\ t \notin ready}
StdinInside == {t \in Task : pc[t] = "awaits" \/ (pc[t] = "queued" /\ t \in ready)}

StdinOneInside ==
    /\ MutexSound(Task, stdin_lock, StdinQueuedTasks, StdinInside)
    /\ \A t \in Task : pc[t] = "user" => t \in ready

ReaderAwaits ==
    /\ reader_task # NULL => pc[reader_task] = "awaits" /\ reader_task \notin ready
    /\ \A t \in Task : pc[t] = "awaits" =>
          IF t \in ready THEN input_list # << >>
          ELSE reader_task = t /\ input_list = << >>

LineFits == Len(terminal_buffer) <= MaxLine

StdinIInv ==
    /\ BackspaceWithinLine
    /\ LineFits
    /\ StdinOneInside
    /\ ReaderAwaits

\* The parts of TypeOK the steps use.
LEMMA StdinTypeFacts ==
    ASSUME StdinIInv
    PROVE  /\ terminal_buffer \in Seq({"char", "NUL"}) /\ Len(terminal_buffer) \in Nat
           /\ keyboard_input_size \in Nat
           /\ keyboard_input_size <= Len(terminal_buffer)
           /\ Len(terminal_buffer) <= MaxLine
           /\ held \subseteq {"shift", "ctrl"}
           /\ input_list \in Seq(0 .. MaxLine)
           /\ reader_task \in Task \cup {NULL}
           /\ pc \in [Task -> {"user", "queued", "awaits"}]
           /\ len \in [Task -> 1 .. MaxLine]
           /\ ready \subseteq Task
<1> QED
  BY QueueRange DEF StdinIInv, BackspaceWithinLine, LineFits, StdinTypeOK

\* strlen finds no more characters than there are.
LEMMA strlenBound ==
    ASSUME NEW S, NEW str \in Seq(S)
    PROVE  strlen(str) \in 0 .. Len(str)
<1> DEFINE I == {i \in DOMAIN str : \A j \in 1 .. i : str[j] # "NUL"}
<1>1. DOMAIN str = 1 .. Len(str) /\ Len(str) \in Nat
  BY QueueRange
<1>2. IsFiniteSet(1 .. Len(str)) /\ Cardinality(1 .. Len(str)) = Len(str)
  BY <1>1, FS_Interval
<1>3. I \in SUBSET (1 .. Len(str))
  BY <1>1
<1>4. IsFiniteSet(I) /\ Cardinality(I) <= Len(str)
  BY <1>2, <1>3, FS_Subset
<1>5. Cardinality(I) \in Nat
  BY <1>4, FS_CardinalityType
<1> QED
  BY <1>1, <1>4, <1>5 DEF strlen

\* What LineLeft leaves of the list: the rest of the first line, or none.
LEMMA LineLeftType ==
    ASSUME StdinIInv, input_list # << >>, NEW n \in 1 .. MaxLine
    PROVE  LineLeft(n) \in Seq(0 .. MaxLine)
<1>1. /\ input_list \in Seq(0 .. MaxLine)
      /\ Tail(input_list) \in Seq(0 .. MaxLine)
      /\ Head(input_list) \in 0 .. MaxLine
  BY StdinTypeFacts, PopProperties, QueueRange
<1>2. n < Head(input_list) => Head(input_list) - n \in 0 .. MaxLine
  BY <1>1, BoundAssumption
<1>3. n < Head(input_list) =>
         << Head(input_list) - n >> \o Tail(input_list) \in Seq(0 .. MaxLine)
  BY <1>1, <1>2, ConcatProperties
<1> QED
  BY <1>1, <1>3 DEF LineLeft

LEMMA StdinInitIInv == StdinInit => StdinIInv
<1> SUFFICES ASSUME StdinInit PROVE StdinIInv
  OBVIOUS
<1> USE TaskAssumption, NullAssumption, BoundAssumption DEF StdinInit
<1>1. StdinQueuedTasks = {} /\ StdinInside = {}
  BY DEF StdinQueuedTasks, StdinInside
<1>2. StdinOneInside
  BY <1>1, MutexInit DEF StdinOneInside
<1>3. stdin_lock \in [value : Int, sq : Seq(Task)]
  BY <1>2 DEF StdinOneInside, MutexSound
<1>4. /\ << >> \in Seq({"char", "NUL"}) /\ << >> \in Seq(0 .. MaxLine)
      /\ Len(<< >>) = 0 /\ 1 \in 1 .. MaxLine
  BY EmptySeq
<1>5. StdinTypeOK
  BY <1>3, <1>4 DEF StdinTypeOK
<1> QED
  BY <1>2, <1>4, <1>5 DEF StdinIInv, BackspaceWithinLine, LineFits, ReaderAwaits

(***************************************************************************)
(* The end of a line: the reader that awaits one is woken with it.         *)
(***************************************************************************)
LEMMA EofIInv ==
    ASSUME StdinIInv, NEW str, NEW S, str \in Seq(S), Len(str) <= MaxLine,
           keyboard_eof(str),
           UNCHANGED << held, stdin_lock, pc, len >>
    PROVE  StdinIInv'
<1>1. /\ keyboard_input_size' = 0 /\ terminal_buffer' = << >>
      /\ input_list' = Append(input_list, strlen(str))
      /\ ready' = ready \cup ({reader_task} \ {NULL})
      /\ reader_task' = NULL
  BY DEF keyboard_eof, ReaderWoken, SizeAfterEof
<1>2. strlen(str) \in 0 .. MaxLine
  BY strlenBound, QueueRange, BoundAssumption
<1>3. input_list' \in Seq(0 .. MaxLine) /\ input_list' # << >>
  <2>1. /\ Append(input_list, strlen(str)) \in Seq(0 .. MaxLine)
        /\ Len(Append(input_list, strlen(str))) = Len(input_list) + 1
        /\ Len(input_list) \in Nat
    BY <1>2, StdinTypeFacts, PushProperties, QueueRange
  <2>2. Len(input_list') # 0
    BY <1>1, <2>1
  <2> QED
    BY <1>1, <2>1, <2>2, QueueRange
<1>4. << >> \in Seq({"char", "NUL"}) /\ Len(<< >>) = 0
  BY EmptySeq
<1>5. BackspaceWithinLine'
  <2>1. stdin_lock \in [value : Int, sq : Seq(Task)]
    BY DEF StdinIInv, StdinOneInside, MutexSound
  <2> QED
    BY <1>1, <1>3, <1>4, <2>1, StdinTypeFacts DEF BackspaceWithinLine, StdinTypeOK
<1>6. LineFits'
  BY <1>1, <1>4, BoundAssumption DEF LineFits
<1>7. \A t \in ready' \ ready : pc[t] = "awaits" /\ t = reader_task
  BY <1>1 DEF StdinIInv, ReaderAwaits
<1>8. StdinOneInside'
  <2>1. StdinQueuedTasks' = StdinQueuedTasks /\ StdinInside' = StdinInside
    BY <1>1, <1>7 DEF StdinQueuedTasks, StdinInside
  <2> QED
    BY <1>1, <2>1 DEF StdinIInv, StdinOneInside
<1>9. ReaderAwaits'
  <2>1. ASSUME NEW t \in Task, pc[t] = "awaits" PROVE t \in ready'
    BY <1>1, <2>1, TaskAssumption, NullAssumption DEF StdinIInv, ReaderAwaits
  <2> QED
    BY <1>1, <1>3, <2>1 DEF ReaderAwaits
<1> QED
  BY <1>5, <1>6, <1>8, <1>9 DEF StdinIInv

(***************************************************************************)
(* The keys.  The reader side is untouched by all but the end of a line.   *)
(***************************************************************************)
LEMMA KeyIInv ==
    ASSUME StdinIInv,
           terminal_buffer' \in Seq({"char", "NUL"}),
           Len(terminal_buffer') <= MaxLine,
           keyboard_input_size' \in Nat,
           keyboard_input_size' <= Len(terminal_buffer'),
           held' \subseteq {"shift", "ctrl"},
           UNCHANGED << input_list, reader_task, stdin_lock, pc, len, ready >>
    PROVE  StdinIInv'
<1>1. BackspaceWithinLine'
  <2>1. stdin_lock \in [value : Int, sq : Seq(Task)]
    BY DEF StdinIInv, StdinOneInside, MutexSound
  <2> QED
    BY <2>1, StdinTypeFacts DEF BackspaceWithinLine, StdinTypeOK
<1>2. StdinQueuedTasks' = StdinQueuedTasks /\ StdinInside' = StdinInside
  BY DEF StdinQueuedTasks, StdinInside
<1> QED
  BY <1>1, <1>2 DEF StdinIInv, StdinOneInside, ReaderAwaits, LineFits

LEMMA KeyboardIInv ==
    ASSUME StdinIInv, keyboard_handler
    PROVE  StdinIInv'
<1>1. UNCHANGED << stdin_lock, pc, len >>
  BY DEF keyboard_handler
<1>2. ASSUME NEW key \in {"shift", "ctrl"}, Modifier(key) PROVE StdinIInv'
  <2>1. held' \subseteq {"shift", "ctrl"}
    BY <1>2, StdinTypeFacts DEF Modifier
  <2>2. UNCHANGED << terminal_buffer, keyboard_input_size, input_list,
                     reader_task, ready >>
    BY <1>2 DEF Modifier
  <2> QED
    BY <1>1, <2>1, <2>2, StdinTypeFacts, KeyIInv
<1>3. CASE CtrlD
  BY <1>1, <1>3, StdinTypeFacts, EofIInv DEF CtrlD
<1>4. CASE Backspace
  <2> DEFINE n == Len(terminal_buffer) - 1
             shorter == SubSeq(terminal_buffer, 1, n)
  <2>1. /\ keyboard_input_size > 0
        /\ keyboard_input_size' = keyboard_input_size - 1
        /\ terminal_buffer' = shorter
        /\ UNCHANGED << held, input_list, reader_task, ready >>
    BY <1>4 DEF Backspace
  <2>2. n \in Nat /\ 1 \in Nat /\ n <= Len(terminal_buffer)
    BY <2>1, StdinTypeFacts
  <2>3. shorter \in Seq({"char", "NUL"}) /\ Len(shorter) = n
    <3>1. \A i \in 1 .. n : terminal_buffer[i] \in {"char", "NUL"}
      BY <2>2, StdinTypeFacts, LenProperties
    <3>2. /\ shorter \in Seq({"char", "NUL"})
          /\ Len(shorter) = IF 1 <= n THEN n - 1 + 1 ELSE 0
      BY <2>2, <3>1, SubSeqProperties, StdinTypeFacts
    <3> HIDE DEF shorter, n
    <3> QED
      BY <2>2, <3>2
  <2>4. Len(shorter) <= MaxLine /\ keyboard_input_size - 1 \in Nat
        /\ keyboard_input_size - 1 <= Len(shorter)
    BY <2>1, <2>2, <2>3, StdinTypeFacts, BoundAssumption
  <2> HIDE DEF shorter, n
  <2> QED
    BY <1>1, <2>1, <2>3, <2>4, StdinTypeFacts, KeyIInv
<1>5. ASSUME NEW key \in {"letter", "space", "enter"}, Character(key) PROVE StdinIInv'
  <2> DEFINE typed == Append(terminal_buffer, CharOf(key))
  <2>1. UNCHANGED held
    BY <1>5 DEF Character
  <2>2. CharOf(key) \in {"char", "NUL", "newline"}
    BY DEF CharOf
  <2>3. /\ typed \in Seq({"char", "NUL", "newline"})
        /\ Len(typed) = Len(terminal_buffer) + 1 /\ Len(typed) <= MaxLine
    <3>1. terminal_buffer \in Seq({"char", "NUL", "newline"})
      BY StdinTypeFacts
    <3>2. /\ typed \in Seq({"char", "NUL", "newline"})
          /\ Len(typed) = Len(terminal_buffer) + 1
      BY <2>2, <3>1, PushProperties
    <3>3. Len(terminal_buffer) < MaxLine
      BY <1>5 DEF Character
    <3> QED
      BY <3>2, <3>3, StdinTypeFacts, BoundAssumption
  <2>4. CASE CharOf(key) = "newline"
    <3>1. keyboard_eof(typed)
      BY <1>5, <2>4 DEF Character
    <3> HIDE DEF typed
    <3> QED
      BY <1>1, <2>1, <2>3, <3>1, EofIInv
  <2>5. CASE CharOf(key) # "newline"
    <3>1. /\ keyboard_input_size' = keyboard_input_size + 1
          /\ terminal_buffer' = typed
          /\ UNCHANGED << input_list, reader_task, ready >>
      BY <1>5, <2>5 DEF Character
    <3>2. typed \in Seq({"char", "NUL"})
      BY <2>2, <2>5, StdinTypeFacts, PushProperties
    <3> HIDE DEF typed
    <3>3. keyboard_input_size' \in Nat /\ keyboard_input_size' <= Len(terminal_buffer')
      BY <2>3, <3>1, StdinTypeFacts
    <3> QED
      BY <1>1, <2>1, <2>3, <3>1, <3>2, <3>3, StdinTypeFacts, KeyIInv
  <2> QED
    BY <2>4, <2>5
<1> QED
  BY <1>2, <1>3, <1>4, <1>5 DEF keyboard_handler

(***************************************************************************)
(* A reader that is queued for stdin_lock.                                 *)
(***************************************************************************)
LEMMA ReadQueuesIInv ==
    ASSUME StdinIInv, NEW t \in Task, NEW n \in 1 .. MaxLine, ReadQueues(t, n)
    PROVE  StdinIInv'
<1>1. /\ pc[t] = "user" /\ KSemaphoreBlocks(stdin_lock)
      /\ stdin_lock' = KSemaphoreWait(stdin_lock, t)
      /\ pc' = [pc EXCEPT ![t] = "queued"] /\ len' = [len EXCEPT ![t] = n]
      /\ ready' = ready \ {t}
      /\ UNCHANGED << terminal_buffer, keyboard_input_size, held, input_list,
                      reader_task >>
  BY DEF ReadQueues, keyboard
<1>2. /\ t \in ready /\ t \notin StdinQueuedTasks
      /\ StdinQueuedTasks' = StdinQueuedTasks \cup {t} /\ StdinInside' = StdinInside
  BY <1>1, StdinTypeFacts DEF StdinIInv, StdinOneInside, StdinQueuedTasks, StdinInside
<1>3. StdinOneInside'
  <2>1. MutexSound(Task, stdin_lock', StdinQueuedTasks', StdinInside')
    BY <1>1, <1>2, MutexWait DEF StdinIInv, StdinOneInside
  <2> QED
    BY <1>1, <2>1, StdinTypeFacts DEF StdinIInv, StdinOneInside
<1>4. BackspaceWithinLine' /\ LineFits'
  <2>1. stdin_lock' \in [value : Int, sq : Seq(Task)]
    BY <1>3 DEF StdinOneInside, MutexSound
  <2>2. pc' \in [Task -> {"user", "queued", "awaits"}] /\ len' \in [Task -> 1 .. MaxLine]
        /\ ready' \subseteq Task
    BY <1>1, StdinTypeFacts
  <2> QED
    BY <1>1, <2>1, <2>2, StdinTypeFacts DEF StdinIInv, LineFits, BackspaceWithinLine, StdinTypeOK
<1>5. ReaderAwaits'
  BY <1>1, StdinTypeFacts DEF StdinIInv, ReaderAwaits
<1> QED
  BY <1>3, <1>4, <1>5 DEF StdinIInv

(***************************************************************************)
(* The reader that has stdin_lock, as mutex, and finds no line.            *)
(***************************************************************************)
LEMMA AwaitIInv ==
    ASSUME StdinIInv, NEW t \in Task, NEW mutex,
           t \notin StdinQueuedTasks, StdinInside \subseteq {t},
           MutexSound(Task, mutex, StdinQueuedTasks, {t}),
           len' \in [Task -> 1 .. MaxLine],
           Await(t, mutex)
    PROVE  StdinIInv'
<1>1. /\ input_list = << >> /\ stdin_lock' = mutex /\ reader_task' = t
      /\ pc' = [pc EXCEPT ![t] = "awaits"] /\ ready' = ready \ {t}
      /\ UNCHANGED << terminal_buffer, keyboard_input_size, held, input_list >>
  BY DEF Await, keyboard
<1>2. StdinQueuedTasks' = StdinQueuedTasks /\ StdinInside' = {t}
  BY <1>1, StdinTypeFacts DEF StdinQueuedTasks, StdinInside
<1>3. StdinOneInside'
  BY <1>1, <1>2, StdinTypeFacts DEF StdinIInv, StdinOneInside
<1>4. BackspaceWithinLine' /\ LineFits'
  <2>1. stdin_lock' \in [value : Int, sq : Seq(Task)]
    BY <1>3 DEF StdinOneInside, MutexSound
  <2> QED
    BY <1>1, <2>1, StdinTypeFacts DEF StdinIInv, LineFits, BackspaceWithinLine, StdinTypeOK
<1>5. ReaderAwaits'
  BY <1>1, StdinTypeFacts DEF ReaderAwaits, StdinInside
<1> QED
  BY <1>3, <1>4, <1>5 DEF StdinIInv

(***************************************************************************)
(* The reader that has stdin_lock, as mutex, and finds a line: it takes it *)
(* and hands the mutex to the head of the queue.                           *)
(***************************************************************************)
LEMMA TakeIInv ==
    ASSUME StdinIInv, NEW t \in Task, NEW n \in 1 .. MaxLine, NEW mutex,
           t \in ready, StdinInside \subseteq {t},
           MutexSound(Task, mutex, StdinQueuedTasks, {t}),
           len' \in [Task -> 1 .. MaxLine],
           Take(t, n, mutex)
    PROVE  StdinIInv'
<1> DEFINE woken == KSemaphoreWakes(mutex)
<1>1. /\ input_list # << >> /\ input_list' = LineLeft(n)
      /\ stdin_lock' = KSemaphoreSignal(mutex)
      /\ ready' = ready \cup woken
      /\ pc' = [pc EXCEPT ![t] = "user"]
      /\ UNCHANGED << terminal_buffer, keyboard_input_size, held, reader_task >>
  BY DEF Take, keyboard
<1>2. woken \subseteq StdinQueuedTasks
      /\ MutexSound(Task, stdin_lock', StdinQueuedTasks \ woken, woken)
  BY <1>1, MutexSignal
<1> HIDE DEF woken
<1>3. StdinQueuedTasks' = StdinQueuedTasks \ woken /\ StdinInside' = woken
  BY <1>1, <1>2, StdinTypeFacts DEF StdinQueuedTasks, StdinInside
<1>4. StdinOneInside'
  BY <1>1, <1>2, <1>3, StdinTypeFacts DEF StdinIInv, StdinOneInside
<1>5. BackspaceWithinLine' /\ LineFits'
  <2>1. stdin_lock' \in [value : Int, sq : Seq(Task)]
    BY <1>4 DEF StdinOneInside, MutexSound
  <2>2. input_list' \in Seq(0 .. MaxLine)
    BY <1>1, LineLeftType
  <2>3. ready' \subseteq Task
    BY <1>1, <1>2, StdinTypeFacts DEF StdinQueuedTasks
  <2> QED
    BY <1>1, <2>1, <2>2, <2>3, StdinTypeFacts DEF StdinIInv, LineFits, BackspaceWithinLine, StdinTypeOK
<1>6. reader_task = NULL
  <2>1. reader_task # NULL => reader_task \in StdinInside /\ reader_task \notin ready
    BY StdinTypeFacts DEF StdinIInv, ReaderAwaits, StdinInside
  <2> QED
    BY <2>1
<1>7. \A u \in Task : pc'[u] # "awaits"
  BY <1>1, StdinTypeFacts DEF StdinInside
<1>8. ReaderAwaits'
  BY <1>1, <1>6, <1>7 DEF ReaderAwaits
<1> QED
  BY <1>4, <1>5, <1>8 DEF StdinIInv

LEMMA ReadBeginsIInv ==
    ASSUME StdinIInv, NEW t \in Task, NEW n \in 1 .. MaxLine, ReadBegins(t, n)
    PROVE  StdinIInv'
<1> DEFINE mutex == KSemaphoreWait(stdin_lock, t)
<1>1. /\ pc[t] = "user" /\ ~ KSemaphoreBlocks(stdin_lock)
      /\ len' = [len EXCEPT ![t] = n]
      /\ Await(t, mutex) \/ Take(t, n, mutex)
  BY DEF ReadBegins
<1>2. t \notin StdinQueuedTasks /\ t \in ready
  BY <1>1 DEF StdinQueuedTasks, StdinIInv, StdinOneInside
<1>3. /\ StdinInside = {}
      /\ MutexSound(Task, mutex, StdinQueuedTasks, {t})
  BY <1>1, <1>2, MutexBlocks, MutexWait DEF StdinIInv, StdinOneInside
<1>4. len' \in [Task -> 1 .. MaxLine]
  BY <1>1, StdinTypeFacts
<1> HIDE DEF mutex
<1> QED
  BY <1>1, <1>2, <1>3, <1>4, AwaitIInv, TakeIInv

\* Back from either sleep, the reader is the one inside.
LEMMA InsideAlone ==
    ASSUME StdinIInv, NEW t \in StdinInside
    PROVE  /\ StdinInside = {t} /\ t \notin StdinQueuedTasks
           /\ MutexSound(Task, stdin_lock, StdinQueuedTasks, {t})
<1>1. MutexSound(Task, stdin_lock, StdinQueuedTasks, StdinInside)
  BY DEF StdinIInv, StdinOneInside
<1>2. \A u \in StdinInside : u = t
  BY <1>1, MutexBlocks
<1>3. StdinInside = {t}
  BY <1>2
<1> QED
  BY <1>1, <1>3 DEF StdinInside, StdinQueuedTasks

LEMMA ReadResumesIInv ==
    ASSUME StdinIInv, NEW t \in Task, ReadUnqueued(t) \/ ReadAwoken(t)
    PROVE  StdinIInv'
<1>1. /\ t \in ready /\ len' = len
      /\ Await(t, stdin_lock) \/ Take(t, len[t], stdin_lock)
      /\ t \in StdinInside
  BY DEF ReadUnqueued, ReadAwoken, StdinInside
<1>2. len[t] \in 1 .. MaxLine /\ len' \in [Task -> 1 .. MaxLine]
  BY <1>1, StdinTypeFacts
<1>3. /\ StdinInside \subseteq {t} /\ t \notin StdinQueuedTasks
      /\ MutexSound(Task, stdin_lock, StdinQueuedTasks, {t})
  BY <1>1, InsideAlone
<1> QED
  BY <1>1, <1>2, <1>3, AwaitIInv, TakeIInv

(***************************************************************************)
(* Every step keeps the invariant.                                         *)
(***************************************************************************)
LEMMA StdinNextIInv == StdinIInv /\ [StdinNext]_stdinVars => StdinIInv'
<1> SUFFICES ASSUME StdinIInv, [StdinNext]_stdinVars PROVE StdinIInv'
  OBVIOUS
<1>1. CASE keyboard_handler
  BY <1>1, KeyboardIInv
<1>2. ASSUME NEW t \in Task, NEW n \in 1 .. MaxLine,
             ReadQueues(t, n) \/ ReadBegins(t, n)
      PROVE  StdinIInv'
  BY <1>2, ReadQueuesIInv, ReadBeginsIInv
<1>3. ASSUME NEW t \in Task, ReadUnqueued(t) \/ ReadAwoken(t) PROVE StdinIInv'
  BY <1>3, ReadResumesIInv
<1>4. ASSUME NEW t \in Task, syscall_write_stdout(t) PROVE StdinIInv'
  <2>1. /\ keyboard_input_size' = 0
        /\ UNCHANGED << terminal_buffer, held, input_list, reader_task,
                        stdin_lock, pc, len, ready >>
    BY <1>4 DEF syscall_write_stdout
  <2> QED
    BY <2>1, StdinTypeFacts, KeyIInv
<1>5. CASE UNCHANGED stdinVars
  <2>1. UNCHANGED << terminal_buffer, keyboard_input_size, held, input_list,
                     reader_task, stdin_lock, pc, len, ready >>
    BY <1>5 DEF stdinVars, keyboard
  <2> QED
    BY <2>1, StdinTypeFacts, KeyIInv
<1> QED
  BY <1>1, <1>2, <1>3, <1>4, <1>5 DEF StdinNext

\* The inductive invariant holds whatever is typed while readers come, sleep and
\* are woken, one key at a time.
THEOREM StdinInvariance == StdinSpec => []StdinIInv
<1> QED
  BY StdinInitIInv, StdinNextIInv, PTL DEF StdinSpec

(***************************************************************************)
(* The results.                                                            *)
(***************************************************************************)

\* A reader woken by keyboard_eof finds a line in syscall_read_stdin, however
\* late it runs, and one reader at a time waits for a line.
THEOREM ReadersFindTheirLine == StdinSpec => []ReaderFindsLine
<1>1. StdinIInv => ReaderFindsLine
  <2> SUFFICES ASSUME StdinIInv, NEW t \in Task, pc[t] = "awaits"
               PROVE  /\ t \in ready => input_list # << >>
                      /\ \A u \in Task \ {t} : pc[u] # "awaits"
    BY DEF ReaderFindsLine
  <2>1. StdinInside = {t}
    BY InsideAlone DEF StdinInside
  <2> QED
    BY <2>1 DEF StdinIInv, ReaderAwaits, StdinInside
<1> QED
  BY <1>1, StdinInvariance, PTL

\* Nobody sleeps beside input: the reader asleep for a line is reader_task and
\* there is no line, and whoever sleeps for stdin_lock sleeps behind a task
\* that will release it.
THEOREM NobodySleepsBesideInput == StdinSpec => []NoSleepBesideInput
<1>1. StdinIInv => NoSleepBesideInput
  <2> SUFFICES ASSUME StdinIInv, NEW t \in Task \ ready
               PROVE  \/ pc[t] = "awaits" /\ reader_task = t /\ input_list = << >>
                      \/ pc[t] = "queued" /\ \E u \in Task \ {t} :
                            pc[u] = "awaits" \/ (pc[u] = "queued" /\ u \in ready)
    BY DEF NoSleepBesideInput
  <2>1. pc[t] # "user" /\ pc[t] \in {"user", "queued", "awaits"}
    BY StdinTypeFacts DEF StdinIInv, StdinOneInside
  <2>2. CASE pc[t] = "awaits"
    BY <2>2 DEF StdinIInv, ReaderAwaits
  <2>3. CASE pc[t] = "queued"
    <3>1. t \in StdinQueuedTasks /\ t \notin StdinInside
      BY <2>3 DEF StdinQueuedTasks, StdinInside
    <3>2. StdinInside # {}
      BY <3>1, MutexBlocks DEF StdinIInv, StdinOneInside
    <3> QED
      BY <2>3, <3>1, <3>2 DEF StdinInside
  <2> QED
    BY <2>1, <2>2, <2>3
<1> QED
  BY <1>1, StdinInvariance, PTL

\* The count of the characters a backspace may erase never passes the length
\* of the line, whatever keyboard_eof and the writes of other tasks reset.
THEOREM BackspacesStayWithinLine == StdinSpec => []BackspaceWithinLine
<1>1. StdinIInv => BackspaceWithinLine
  BY DEF StdinIInv
<1> QED
  BY <1>1, StdinInvariance, PTL
=============================================================================
