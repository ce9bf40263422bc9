----------------------------- MODULE MCRWLock -----------------------------
(***************************************************************************)
(* RWLock on a small instance: a holder, and enough other tasks for a      *)
(* queue that mixes readers and writers, and for a barging newcomer.       *)
(***************************************************************************)
EXTENDS RWLock
CONSTANTS t1, t2, t3, t4
MCTask == {t1, t2, t3, t4}
=============================================================================
