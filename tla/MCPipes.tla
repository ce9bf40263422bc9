------------------------------ MODULE MCPipes ------------------------------
(***************************************************************************)
(* Two small instances of Pipes in one: three tasks (two readers and a     *)
(* writer, or a reader that is raced by a newcomer) and the pipe they      *)
(* share, with several messages; or two tasks, two names of message queues *)
(* and three addresses, so that a queue can die, be reopened, or lose its  *)
(* place to another.  Messages may be longer than what a read takes.       *)
(***************************************************************************)
EXTENDS Pipes, TLC
CONSTANTS t1, t2, t3, p1, p2, p3
Tasks3 == {t1, t2, t3}
Pipes3 == {p1, p2, p3}
TwoNames == {"a", "b"}

SharedPipe == mqlist = << >> /\ Cardinality(alloc) <= 1

NamedQueues ==
    /\ Cardinality({t \in Task : pc[t] # "none"}) <= 2
    /\ \A p \in Address : Len(pipe[p].list) <= 1

Bounds == SharedPipe \/ NamedQueues

\* t1 is set apart as First.
Symmetry == Permutations({t2, t3}) \cup Permutations(Pipes3)
=============================================================================
