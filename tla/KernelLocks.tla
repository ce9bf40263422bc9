---------------------------- MODULE KernelLocks ----------------------------
(***************************************************************************)
(* The two blocking primitives of the kernel, lock.c, as operators on lock *)
(* records.  Interrupts are off in the kernel, so each function runs       *)
(* without interruption except at its task_sleep(): an operation is split  *)
(* there, into the part before the sleep and the part after it.  Waking a  *)
(* task (task_awake) is left to the caller: the operators named ...Wakes   *)
(* give the set of tasks the operation wakes.                              *)
(*                                                                         *)
(* A definition headed "variant" is one with a fault that the code does    *)
(* not have; it is there to show that a property tells the two apart.      *)
(***************************************************************************)
EXTENDS Integers, Sequences, FiniteSets, Functions

(***************************************************************************)
(* ksemaphore_t: the value and the queue of sleeping tasks.                *)
(***************************************************************************)
KSemaphoreInit(initial) == [value |-> initial, sq |-> << >>]

\* The variant that lets one task too many in.
KSemaphoreBlocksLate(sem) == sem.value < 0

\* if (sem->value-- <= 0): the caller sleeps.
KSemaphoreBlocks(sem) == sem.value <= 0

\* The variant that serves the last comer first.
KSemaphoreWaitInFront(sem, t) ==
    [value |-> sem.value - 1,
     sq    |-> IF KSemaphoreBlocks(sem) THEN << t >> \o sem.sq ELSE sem.sq]

KSemaphoreWait(sem, t) ==
    [value |-> sem.value - 1,
     sq    |-> IF KSemaphoreBlocks(sem) THEN Append(sem.sq, t) ELSE sem.sq]

\* The variant that wakes what it pops, even from an empty queue.
KSemaphoreWakesUntested(sem) == {IF sem.sq = << >> THEN "NULL" ELSE Head(sem.sq)}

KSemaphoreWakes(sem) == IF sem.sq = << >> THEN {} ELSE {Head(sem.sq)}

\* The variant that leaves the task it wakes in the queue.
KSemaphoreSignalPeeks(sem) == [sem EXCEPT !.value = @ + 1]

KSemaphoreSignal(sem) ==
    [value |-> sem.value + 1,
     sq    |-> IF sem.sq = << >> THEN << >> ELSE Tail(sem.sq)]

(***************************************************************************)
(* krwlock: procq holds the sleeping tasks and opq, position by position,  *)
(* what each of them wants.                                                *)
(***************************************************************************)
Operations == {"NONE", "READ", "WRITE"}

KRWLockInit ==
    [procq |-> << >>, opq |-> << >>, readers |-> 0, operation |-> "NONE"]

\* The variant that lets readers pass a waiting writer.
KRWLockReadBlocksForWriter(lock) == lock.operation = "WRITE"

KRWLockReadBlocks(lock) ==
    \/ lock.operation = "WRITE"
    \/ /\ lock.operation = "READ"
       /\ lock.opq # << >>
       /\ Head(lock.opq) = "WRITE"

KRWLockWriteBlocks(lock) == lock.operation # "NONE"

KRWLockEnqueue(lock, t, op) ==
    [procq     |-> Append(lock.procq, t),
     opq       |-> Append(lock.opq, op),
     readers   |-> lock.readers,
     operation |-> lock.operation]

\* The waiters at the head of the queue that all want to read.
LeadingReads(opq) ==
    Cardinality({i \in 1 .. Len(opq) : \A j \in 1 .. i : opq[j] = "READ"})

\* What krwlock_read does once it may go on: the reader is counted and the
\* readers at the head of the queue are taken out of it ...
KRWLockReadEnter(lock) ==
    LET n == LeadingReads(lock.opq)
    IN  [procq     |-> SubSeq(lock.procq, n + 1, Len(lock.procq)),
         opq       |-> SubSeq(lock.opq, n + 1, Len(lock.opq)),
         readers   |-> lock.readers + 1,
         operation |-> "READ"]

\* ... and woken.
KRWLockReadWakes(lock) == {lock.procq[i] : i \in 1 .. LeadingReads(lock.opq)}

KRWLockWriteEnter(lock) == [lock EXCEPT !.operation = "WRITE"]

\* The variant that tests the count of readers before it is decremented.
KRWLockFreesLate(lock) == lock.readers = 0

\* The release that leaves no reader counted frees the lock.
KRWLockFrees(lock) == lock.readers <= 1

\* The variant that leaves the lock taken for the task it wakes.
KRWLockReleaseKeeps(lock) ==
    LET wakes == KRWLockFrees(lock) /\ lock.procq # << >>
    IN  [procq     |-> IF wakes THEN Tail(lock.procq) ELSE lock.procq,
         opq       |-> IF wakes THEN Tail(lock.opq) ELSE lock.opq,
         readers   |-> IF lock.readers = 0 THEN 0 ELSE lock.readers - 1,
         operation |-> IF KRWLockFrees(lock) /\ ~ wakes THEN "NONE" ELSE lock.operation]

KRWLockRelease(lock) ==
    [procq     |-> IF KRWLockFrees(lock) /\ lock.procq # << >>
                   THEN Tail(lock.procq) ELSE lock.procq,
     opq       |-> IF KRWLockFrees(lock) /\ lock.procq # << >>
                   THEN Tail(lock.opq) ELSE lock.opq,
     readers   |-> IF lock.readers = 0 THEN 0 ELSE lock.readers - 1,
     operation |-> IF KRWLockFrees(lock) THEN "NONE" ELSE lock.operation]

\* The variant that wakes the task at the wrong end of the queue.
KRWLockReleaseWakesLast(lock) ==
    IF KRWLockFrees(lock) /\ lock.procq # << >>
    THEN {lock.procq[Len(lock.procq)]} ELSE {}

KRWLockReleaseWakes(lock) ==
    IF KRWLockFrees(lock) /\ lock.procq # << >> THEN {Head(lock.procq)} ELSE {}
=============================================================================
