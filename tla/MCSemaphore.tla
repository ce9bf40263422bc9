---------------------------- MODULE MCSemaphore ----------------------------
(***************************************************************************)
(* Semaphore with one permit, as disk_sem and stdin_lock are initialised,  *)
(* and enough tasks for a queue of three behind the holder.                *)
(***************************************************************************)
EXTENDS Semaphore
CONSTANTS t1, t2, t3, t4
MCTask == {t1, t2, t3, t4}
=============================================================================
