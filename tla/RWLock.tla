------------------------------ MODULE RWLock ------------------------------
(***************************************************************************)
(* A krwlock and the tasks that use it the way fs.c does: krwlock_read or  *)
(* krwlock_write, disk transfers during which the task may sleep holding   *)
(* the lock, krwlock_release.  A task that finds the lock taken queues     *)
(* itself and sleeps; a release wakes it, but it goes on only when the     *)
(* scheduler runs it again, and other tasks use the lock in between.       *)
(***************************************************************************)
EXTENDS KernelTasks

VARIABLE lock   \* the krwlock
rwVars == << lock, pc, ready >>

Waiting == {t \in Task : pc[t] \in {"rdwait", "wrwait"}}
Holders == {t \in Task : pc[t] \in {"reading", "writing"}}
\* Taken out of the queue by another task, and not yet run again.
Woken == Waiting \cap ready

RWInit ==
    /\ lock = KRWLockInit
    /\ pc = [t \in Task |-> "out"]
    /\ ready = Task

---------------------------------------------------------------------------
\* krwlock_read up to its task_sleep ...
ReadSleeps(t) ==
    /\ pc[t] = "out"
    /\ KRWLockReadBlocks(lock)
    /\ lock' = KRWLockEnqueue(lock, t, "READ")
    /\ pc' = [pc EXCEPT ![t] = "rdwait"]
    /\ ready' = ready \ {t}

\* ... and the rest of it, reached at once or after the sleep.
ReadEnters(t) ==
    /\ \/ pc[t] = "out" /\ ~ KRWLockReadBlocks(lock)
       \/ pc[t] = "rdwait" /\ t \in ready
    /\ lock' = KRWLockReadEnter(lock)
    /\ pc' = [pc EXCEPT ![t] = "reading"]
    /\ ready' = ready \cup KRWLockReadWakes(lock)

WriteSleeps(t) ==
    /\ pc[t] = "out"
    /\ KRWLockWriteBlocks(lock)
    /\ lock' = KRWLockEnqueue(lock, t, "WRITE")
    /\ pc' = [pc EXCEPT ![t] = "wrwait"]
    /\ ready' = ready \ {t}

WriteEnters(t) ==
    /\ \/ pc[t] = "out" /\ ~ KRWLockWriteBlocks(lock)
       \/ pc[t] = "wrwait" /\ t \in ready
    /\ lock' = KRWLockWriteEnter(lock)
    /\ pc' = [pc EXCEPT ![t] = "writing"]
    /\ UNCHANGED ready

Release(t) ==
    /\ t \in Holders
    /\ lock' = KRWLockRelease(lock)
    /\ pc' = [pc EXCEPT ![t] = "out"]
    /\ ready' = ready \cup KRWLockReleaseWakes(lock)

RWNext ==
    \E t \in Task : \/ ReadSleeps(t)
                    \/ ReadEnters(t)
                    \/ WriteSleeps(t)
                    \/ WriteEnters(t)
                    \/ Release(t)

Resume(t) == t \in Woken /\ (ReadEnters(t) \/ WriteEnters(t))

(***************************************************************************)
(* The round robin queue runs every woken task again, and the disk, which  *)
(* answers every command, lets every holder get to its release.            *)
(***************************************************************************)
RWFairness == \A t \in Task : WF_rwVars(Resume(t)) /\ WF_rwVars(Release(t))

RWSpec == RWInit /\ [][RWNext]_rwVars /\ RWFairness

---------------------------------------------------------------------------
\* The lock, the tasks and the two queues have their types, and the queues
\* have an operation for every task.
RWTypeOK ==
    /\ lock \in [procq : Seq(Task), opq : Seq({"READ", "WRITE"}),
                 readers : Nat, operation : Operations]
    /\ Len(lock.procq) = Len(lock.opq)
    /\ pc \in [Task -> {"out", "rdwait", "wrwait", "reading", "writing"}]
    /\ ready \subseteq Task

\* Every task asleep in the lock stands in its queue exactly once, with the
\* operation it is asleep in, and nobody else does: krwlock_release and the
\* wake-up loop of krwlock_read never wake a task twice or forget one they
\* took out of one of the two queues.
SleepersQueued ==
    /\ Range(lock.procq) = Task \ ready
    /\ IsInjective(lock.procq)
    /\ \A i \in 1 .. Len(lock.procq) :
          pc[lock.procq[i]] = IF lock.opq[i] = "READ" THEN "rdwait" ELSE "wrwait"

\* When no task holds the lock, it is free: operation says so and no reader
\* is left counted, whatever the order in which readers and writers came,
\* overlapped and left.
FreeWhenUnheld ==
    /\ RWTypeOK
    /\ Holders = {} => lock.operation = "NONE" /\ lock.readers = 0

\* No lost wake-up: while tasks are queued, some task that will go on to
\* release the lock is there, a holder or a woken waiter.  krwlock_release
\* wakes one waiter only when the count of readers falls to zero, and
\* krwlock_read may have left later readers behind a writer.
NoLostWaiter == lock.procq # << >> => Holders \cup Woken # {}

\* Every task that sleeps in the lock gets it in the end: neither readers nor
\* writers starve.
EventuallyServed == \A t \in Task : t \in Waiting ~> t \in Holders

\* What the lock is for: a writer (krwlock_write) has it alone.  The code
\* breaks it, see the run rwlock_exclusion.
Exclusion ==
    \A t, u \in Task : t # u /\ pc[t] = "writing" => u \notin Holders
=============================================================================
