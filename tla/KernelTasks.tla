---------------------------- MODULE KernelTasks ----------------------------
(***************************************************************************)
(* The tasks as one part of the kernel sees them, a lock or a driver: how  *)
(* far each has come in its calls of that part, and which of them are not  *)
(* asleep in a task_sleep() of it.  task_awake makes a task ready; it goes *)
(* on when the scheduler, which Tasks describes, runs it again.            *)
(***************************************************************************)
EXTENDS KernelLocks

CONSTANT Task
ASSUME TaskAssumption == IsFiniteSet(Task)

VARIABLES
    pc,     \* where each task is with respect to the part
    ready   \* the tasks that are not asleep in it

\* The pointer to no task.
NULL == "NULL"
ASSUME NullAssumption == NULL \notin Task
=============================================================================
