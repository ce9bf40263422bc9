------------------------------ MODULE MCTasks ------------------------------
(***************************************************************************)
(* Tasks with init and three more tasks: enough for a parent with two      *)
(* children, and for a child whose parent has exited before it.  A task    *)
(* may exit with -1, the value that also means "alive".                    *)
(***************************************************************************)
EXTENDS Tasks
MCStatus == {-1, 0}
=============================================================================
