------------------------------- MODULE Tasks -------------------------------
(***************************************************************************)
(* Processes: the round robin run queue, preemption, fork, exit and wait   *)
(* (task.c and the process system calls of syscall.c).  The head of        *)
(* rr_queue is the task that runs.  Interrupts are off in the kernel, so a *)
(* system call is one step, or two when it sleeps in between; the timer    *)
(* preempts user code only.  Pid 0 is the idle task left over from boot,   *)
(* pid 1 is init.                                                          *)
(*                                                                         *)
(* A task_t itself is never freed, only what hangs off it (task_free), so  *)
(* the fields of a reaped task stay readable.  Descriptors and memory, the *)
(* other things a fork copies and an exit gives back, have their own       *)
(* modules.                                                                *)
(***************************************************************************)
EXTENDS Integers, Sequences, FiniteSets, Functions

CONSTANTS
    MaxPid,     \* bound: no more than MaxPid + 1 tasks are ever made
    Status      \* the exit statuses tasks give
ASSUME MaxPidAssumption == MaxPid \in Nat /\ MaxPid >= 1
ASSUME StatusAssumption == Status \subseteq Int

IDLE == 0
INIT_PID == 1
NULL == -1
ALIVE == -1     \* exit_status of a task that has not exited
Pid == 0 .. MaxPid

VARIABLES
    rr_queue,
    task_count,
    tasklist,       \* the pids whose entry of the vector is not NULL
    parent,         \* and the fields of the task_t of each pid
    exit_status,
    wait,
    chwait,
    pc,             \* where each task is: in user code, in syscall_wait ...
    fault           \* the memory error that stopped the kernel, if any
vars == << rr_queue, task_count, tasklist, parent, exit_status, wait, chwait,
           pc, fault >>

Current == Head(rr_queue)
Runnable == Range(rr_queue)
Used == 0 .. task_count - 1

\* After multitasking_init and the fork of init in kmain.
Init ==
    /\ rr_queue = << IDLE, INIT_PID >>
    /\ task_count = 2
    /\ tasklist = {IDLE, INIT_PID}
    /\ parent = [p \in Pid |-> IF p = INIT_PID THEN IDLE ELSE NULL]
    /\ exit_status = [p \in Pid |-> ALIVE]
    /\ wait = [p \in Pid |-> "NONE"]
    /\ chwait = [p \in Pid |-> NULL]
    /\ pc = [p \in Pid |-> IF p \in {IDLE, INIT_PID} THEN "user" ELSE "none"]
    /\ fault = "none"

---------------------------------------------------------------------------
\* The running task is in user code, and is not the idle task, whose code is
\* a jump to itself.
InUser(p) == fault = "none" /\ p = Current /\ pc[p] = "user" /\ p # IDLE

\* The variant that lets the first two tasks take turns.
RotateTwo(q) == << q[2], q[1] >> \o SubSeq(q, 3, Len(q))

\* task_switch(0): the running task goes to the end of the queue.
Rotate(q) == Append(Tail(q), Head(q))

\* The timer interrupt.
task_timer ==
    /\ fault = "none"
    /\ pc[Current] = "user"
    /\ Len(rr_queue) > 1
    /\ rr_queue' = Rotate(rr_queue)
    /\ UNCHANGED << task_count, tasklist, parent, exit_status, wait, chwait,
                    pc, fault >>

\* The variant that counts the task before it numbers it.
NewPidLate == task_count + 1

NewPid == task_count

task_fork(p) ==
    /\ InUser(p)
    /\ task_count <= MaxPid
    /\ LET new == NewPid
       IN  /\ task_count' = task_count + 1
           /\ exit_status' = [exit_status EXCEPT ![new] = ALIVE]
           /\ wait' = [wait EXCEPT ![new] = "NONE"]
           /\ rr_queue' = Append(rr_queue, new)
           /\ parent' = [parent EXCEPT ![new] = p]
           /\ chwait' = [chwait EXCEPT ![new] = NULL]
           /\ tasklist' = tasklist \cup {new}
           /\ pc' = [pc EXCEPT ![new] = "user"]
    /\ UNCHANGED fault

\* The variants that wake any parent, and only one that waits for a pid.
WaitedForAlways(c) == parent[c] # NULL
WaitedForByPid(c) == wait[parent[c]] = "PID" /\ chwait[parent[c]] = c

\* Does the exit of task c wake its parent?
WaitedFor(c) ==
    LET p == parent[c]
    IN  (wait[p] = "PID" /\ chwait[p] = c) \/ wait[p] = "ALL"

\* The parent, when it waits, is queued before the exiting task leaves.
syscall_exit(c, status) ==
    /\ InUser(c)
    /\ exit_status' = [exit_status EXCEPT ![c] = status]
    /\ pc' = [pc EXCEPT ![c] = "exited"]
    /\ LET p == parent[c]
       IN  IF WaitedFor(c)
           THEN /\ chwait' = [chwait EXCEPT ![p] = c]
                /\ wait' = [wait EXCEPT ![p] = "NONE"]
                /\ rr_queue' = Tail(Append(rr_queue, p))
           ELSE /\ rr_queue' = Tail(rr_queue)
                /\ UNCHANGED << wait, chwait >>
    /\ UNCHANGED << task_count, tasklist, parent, fault >>

\* The zombies task_find_zombie looks for.  It reads the fields of the NULL
\* entries of tasklist as well, from low memory, where no pointer to a task is:
\* they match nobody.
Zombies(p) == {c \in tasklist : parent[c] = p /\ exit_status[c] # ALIVE}

\* The variants that forget the children, and take everybody's.
task_orphan_none(p) == UNCHANGED parent
task_orphan_everyone(p) ==
    parent' = [c \in Pid |-> IF c \in tasklist \ {IDLE, INIT_PID}
                             THEN INIT_PID ELSE parent[c]]

task_orphan_all(p) ==
    parent' = [c \in Pid |-> IF c \in tasklist /\ parent[c] = p
                             THEN INIT_PID ELSE parent[c]]

(***************************************************************************)
(* The end of syscall_wait: the child in chwait is reaped.  A NULL chwait  *)
(* is dereferenced; a child reaped before has its memory freed again, at   *)
(* which heapwatch_free panics.                                            *)
(***************************************************************************)
ReapWaitedChild(p) ==
    LET c == chwait[p]
    IN  IF c = NULL
        THEN /\ fault' = "null dereference"
             /\ UNCHANGED << tasklist, parent >>
        ELSE IF c \notin tasklist
        THEN /\ fault' = "double free"
             /\ UNCHANGED << tasklist, parent >>
        ELSE /\ task_orphan_all(c)
             /\ tasklist' = tasklist \ {c}
             /\ UNCHANGED fault

\* syscall_wait up to its task_sleep ...
WaitSleeps(p) ==
    /\ InUser(p)
    /\ Zombies(p) = {}
    /\ wait' = [wait EXCEPT ![p] = "ALL"]
    /\ pc' = [pc EXCEPT ![p] = "waiting"]
    /\ rr_queue' = Tail(rr_queue)
    /\ UNCHANGED << task_count, tasklist, parent, exit_status, chwait, fault >>

\* ... and after it, or without a sleep when there is a zombie: the zombie
\* that task_find_zombie found is not the one that is reaped.
WaitReaps(p) ==
    /\ \/ InUser(p) /\ Zombies(p) # {}
       \/ fault = "none" /\ p = Current /\ pc[p] = "waiting"
    /\ ReapWaitedChild(p)
    /\ pc' = [pc EXCEPT ![p] = "user"]
    /\ UNCHANGED << rr_queue, task_count, exit_status, wait, chwait >>

\* syscall_waitpid asks whether the caller is its own parent, instead of the
\* parent of child c, and refuses every call; what it would do otherwise, the
\* sleep with wait = TASK_WAIT_PID and the reaping of c, is out of reach by
\* ParentsSound.
syscall_waitpid(p, c) ==
    /\ InUser(p)
    /\ ~ (c \in tasklist /\ parent[p] = p)
    /\ UNCHANGED vars

Next ==
    \/ task_timer
    \/ \E p \in Pid : \/ task_fork(p)
                      \/ \E status \in Status : syscall_exit(p, status)
                      \/ WaitSleeps(p)
                      \/ WaitReaps(p)
                      \/ \E c \in Pid : syscall_waitpid(p, c)

\* The timer interrupts user code for ever, and a system call that was woken
\* runs to its end.
Fairness ==
    /\ WF_vars(task_timer)
    /\ \A p \in Pid : WF_vars(pc[p] = "waiting" /\ WaitReaps(p))

Spec == Init /\ [][Next]_vars /\ Fairness

---------------------------------------------------------------------------
\* The fields of the tasks have their types, pids are given out in order.
TypeOK ==
    /\ rr_queue \in Seq(Pid)
    /\ task_count \in 2 .. MaxPid + 1
    /\ tasklist \subseteq Used
    /\ parent \in [Pid -> Pid \cup {NULL}]
    /\ exit_status \in [Pid -> Status \cup {ALIVE}]
    /\ wait \in [Pid -> {"NONE", "PID", "ALL"}]
    /\ chwait \in [Pid -> Pid \cup {NULL}]
    /\ pc \in [Pid -> {"none", "user", "waiting", "exited"}]
    /\ fault \in {"none", "null dereference", "double free"}

\* The run queue never empties (the idle task is always in it), holds no task
\* twice, and holds exactly the tasks in user code and the ones exit has woken
\* from their wait: no task is woken twice, runs after its exit, or is left
\* out of the queue.
RunQueueSound ==
    /\ TypeOK
    /\ IDLE \in Runnable
    /\ IsInjective(rr_queue)
    /\ \A p \in Pid :
          p \in Runnable <=> \/ pc[p] = "user"
                             \/ pc[p] = "waiting" /\ wait[p] = "NONE"

\* The child handed to a parent woken from its wait is still there when the
\* parent runs: exited, its own child, not reaped by anybody else.
HandedChildIsZombie ==
    \A p \in Runnable :
        pc[p] = "waiting" =>
            /\ chwait[p] \in tasklist
            /\ parent[chwait[p]] = p
            /\ pc[chwait[p]] = "exited"

\* No task other than init sleeps in wait beside a child that has exited and
\* can be reaped.  (Init may: task_orphan_all gives it zombies without waking
\* it.)
NoSleepBesideZombie ==
    \A p \in Pid \ {INIT_PID} :
        pc[p] = "waiting" /\ p \notin Runnable => Zombies(p) = {}

\* Every task that is not reaped has a parent that is not reaped, so that the
\* parent pointer syscall_exit follows is good, and no task is its own parent,
\* the case syscall_waitpid asks for.
ParentsSound ==
    \A c \in tasklist \ {IDLE} : parent[c] \in tasklist \ {c}

\* Only a parent takes a task out of tasklist, after the exit of the task and
\* its own sleep in wait: the stale chwait of a call that does not sleep never
\* frees a task that is alive, or somebody else's.
OwnZombieLeaves ==
    \A c \in tasklist \ tasklist' :
        /\ pc[c] = "exited"
        /\ parent[c] = Current
        /\ pc[Current] = "waiting"
ReapsOwnZombie == [][OwnZombieLeaves]_vars

\* Round robin starves nobody: a runnable task gets the processor, unless the
\* kernel has stopped.
EventuallyRuns ==
    \A p \in Pid : p \in Runnable ~> (p = Current \/ fault # "none")

\* What heapwatch.c asserts of every kfree.  The code breaks it, see the run
\* tasks_double_free.
NoDoubleFree == fault # "double free"
=============================================================================
