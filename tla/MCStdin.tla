------------------------------ MODULE MCStdin ------------------------------
(***************************************************************************)
(* Stdin with three readers: one that waits for a line or has been woken,  *)
(* one queued behind it, and a newcomer.                                   *)
(***************************************************************************)
EXTENDS Stdin
CONSTANTS t1, t2, t3
MCTask == {t1, t2, t3}
=============================================================================
