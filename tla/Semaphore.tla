----------------------------- MODULE Semaphore -----------------------------
(***************************************************************************)
(* A ksemaphore used as a lock, the way ata.c uses disk_sem and syscall.c  *)
(* uses stdin_lock: ksemaphore_wait, work during which the task may sleep  *)
(* for other reasons, ksemaphore_signal by the same task.  The signal      *)
(* gives the permit to the task at the head of the queue, which learns of  *)
(* it when the scheduler runs it again.                                    *)
(***************************************************************************)
EXTENDS KernelTasks

CONSTANT Initial
ASSUME InitialAssumption == Initial \in Nat \ {0}

VARIABLE sem    \* the ksemaphore_t
semVars == << sem, pc, ready >>

\* The tasks that own a permit: those past ksemaphore_wait, and those woken
\* from it that have not run yet.
Owners == {t \in Task : pc[t] = "holds" \/ (pc[t] = "waits" /\ t \in ready)}

SemInit ==
    /\ sem = KSemaphoreInit(Initial)
    /\ pc = [t \in Task |-> "out"]
    /\ ready = Task

---------------------------------------------------------------------------
Wait(t) ==
    /\ pc[t] = "out"
    /\ sem' = KSemaphoreWait(sem, t)
    /\ IF KSemaphoreBlocks(sem)
       THEN pc' = [pc EXCEPT ![t] = "waits"] /\ ready' = ready \ {t}
       ELSE pc' = [pc EXCEPT ![t] = "holds"] /\ UNCHANGED ready

\* Back from task_sleep.
WaitReturns(t) ==
    /\ pc[t] = "waits"
    /\ t \in ready
    /\ pc' = [pc EXCEPT ![t] = "holds"]
    /\ UNCHANGED << sem, ready >>

Signal(t) ==
    /\ pc[t] = "holds"
    /\ sem' = KSemaphoreSignal(sem)
    /\ pc' = [pc EXCEPT ![t] = "out"]
    /\ ready' = ready \cup KSemaphoreWakes(sem)

SemNext == \E t \in Task : Wait(t) \/ WaitReturns(t) \/ Signal(t)

(***************************************************************************)
(* The round robin queue runs a woken task again; the work done under the  *)
(* semaphore ends.                                                         *)
(***************************************************************************)
SemFairness == \A t \in Task : WF_semVars(WaitReturns(t)) /\ WF_semVars(Signal(t))

SemSpec == SemInit /\ [][SemNext]_semVars /\ SemFairness

---------------------------------------------------------------------------
\* The semaphore, the program counters and the ready set have their types.
SemTypeOK ==
    /\ sem \in [value : Int, sq : Seq(Task)]
    /\ pc \in [Task -> {"out", "waits", "holds"}]
    /\ ready \subseteq Task

\* The queue holds the tasks asleep in ksemaphore_wait, each of them once.
SemSleepersQueued ==
    /\ Range(sem.sq) = Task \ ready
    /\ IsInjective(sem.sq)
    /\ \A t \in Task \ ready : pc[t] = "waits"

\* The value counts: no permit is lost or made up, a negative value is the
\* number of sleepers, and while anyone sleeps every permit is owned.  (With
\* Initial = 1 at most one task is in the disk driver, or reads the keyboard.)
PermitsConserved ==
    /\ SemTypeOK
    /\ Cardinality(Owners) <= Initial
    /\ sem.value = Initial - Cardinality(Owners) - Len(sem.sq)
    /\ sem.sq # << >> => Cardinality(Owners) = Initial

\* The permits nobody owns.
FreePermits == IF sem.value > 0 THEN sem.value ELSE 0

\* ksemaphore_wait and ksemaphore_signal implement the abstract permits: a
\* woken task owns its permit before it runs.
Permits == INSTANCE FifoPermits WITH
    Task <- Task, Permits <- Initial,
    free <- FreePermits, holding <- Owners, line <- sem.sq
ImplementsPermits == Permits!Spec

\* Every task that sleeps in ksemaphore_wait comes to own a permit and to run
\* with it, however often the others come back.
EventuallyHolds == \A t \in Task : pc[t] = "waits" ~> pc[t] = "holds"
=============================================================================
