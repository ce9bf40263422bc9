------------------------------- MODULE MCAta -------------------------------
(***************************************************************************)
(* Ata with three tasks (one in the driver, two in the queue), one sector  *)
(* to write and read, and two values.                                      *)
(***************************************************************************)
EXTENDS Ata
CONSTANTS t1, t2, t3, s1
MCTask == {t1, t2, t3}
MCSector == {s1}
MCData == {"old", "new"}
=============================================================================
