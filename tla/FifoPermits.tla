---------------------------- MODULE FifoPermits ----------------------------
(***************************************************************************)
(* What a counting semaphore promises: a task that asks for a permit gets  *)
(* one of the Permits while any is free and waits in line otherwise, and a *)
(* permit that is given back goes to the task that has waited longest.     *)
(* There is no moment at which a permit is free while a task waits.        *)
(***************************************************************************)
EXTENDS Integers, Sequences

CONSTANTS Task, Permits

VARIABLES
    free,      \* the number of permits nobody holds
    holding,   \* the tasks that hold a permit
    line       \* the tasks that wait for one, in order of arrival
absVars == << free, holding, line >>

Init == free = Permits /\ holding = {} /\ line = << >>

Acquire(t) ==
    /\ t \notin holding
    /\ \A i \in DOMAIN line : line[i] # t
    /\ \/ /\ free > 0
          /\ free' = free - 1
          /\ holding' = holding \cup {t}
          /\ UNCHANGED line
       \/ /\ free = 0
          /\ line' = Append(line, t)
          /\ UNCHANGED << free, holding >>

Release(t) ==
    /\ t \in holding
    /\ \/ /\ line = << >>
          /\ free' = free + 1
          /\ holding' = holding \ {t}
          /\ UNCHANGED line
       \/ /\ line # << >>
          /\ holding' = (holding \ {t}) \cup {Head(line)}
          /\ line' = Tail(line)
          /\ UNCHANGED free

Next == \E t \in Task : Acquire(t) \/ Release(t)

Spec == Init /\ [][Next]_absVars
=============================================================================
