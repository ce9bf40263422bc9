----------------------------- MODULE MCFsCache -----------------------------
(***************************************************************************)
(* A directory d with a file f, and a file g beside it: three tasks open   *)
(* and create them.                                                        *)
(***************************************************************************)
EXTENDS FsCache, TLC

CONSTANTS t1, t2, t3

MCTask == {t1, t2, t3}
d == << "d" >>
f == << "d", "f" >>
g == << "g" >>
MCName == {"d", "f", "g"}
MCPath == {<< >>, d, f, g}
MCStored == (<< >> :> "dir") @@ (d :> "dir") @@ (f :> "file") @@ (g :> Missing)
MCCalls == {syscall_open(f, FALSE), syscall_open(g, TRUE), syscall_setcwd(<< >>)}
Symmetry == Permutations(MCTask)
=============================================================================
