----------------------------- MODULE MCFsDisk ------------------------------
(***************************************************************************)
(* Two tasks, a directory of up to two names in the root beside another:   *)
(* the second entry of a table crosses into its second sector inside the   *)
(* index.  The calls give texts, which lead to their paths; the texts of   *)
(* up to five components that PathsResolve looks at are any.               *)
(***************************************************************************)
EXTENDS FsDisk

CONSTANTS t1, t2

MCTask == {t1, t2}
a == 11
b == 12
MCName == {a, b}
MCPath == {Root, << a >>, << b >>, << a, a >>}
MCTexts == UNION {[1 .. n -> {a, b, Up, Here, Empty}] : n \in 1 .. 5}

OpenOf(cwd, text, how) == [cwd |-> cwd, text |-> text, how |-> how]
MCOpens == {OpenOf(Root, << a >>, "mkdir"), OpenOf(<< a >>, << a >>, "create"),
            OpenOf(<< a >>, << Up, b >>, "create"), OpenOf(<< a >>, << Here >>, "truncate"),
            OpenOf(<< a >>, << Empty, b >>, "truncate"), OpenOf(Root, << a, Empty >>, "opendir"),
            OpenOf(<< a >>, << Up >>, "opendir")}
MCReads == {3, 8}
MCWrites == {8}

\* A history has files that are written, and a power cut, or one task that
\* lists the root or lists with read(); 3 units end in an index.
Listers == {t \in Task : fd[t].raw \/ fd[t].path = Root}
Filing == \/ crashes > 0
          \/ \E p \in Path : synced[p] # {}
          \/ \E t \in Task : op[t].units # << >> /\ ~ op[t].add
Bounds == /\ Cardinality(Listers) <= IF Filing THEN 0 ELSE 1
          /\ \A t \in Task : fd[t] # NoFd /\ mem[fd[t].path].type = "file" =>
                fd[t].pos % 8 = 0

Symmetry == Permutations(MCTask)
=============================================================================
