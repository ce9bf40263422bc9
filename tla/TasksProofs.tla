---------------------------- MODULE TasksProofs ----------------------------
(***************************************************************************)
(* Processes, for any number of pids and any exit statuses: the run queue  *)
(* is sound, the child handed to a waiting parent is there when the parent *)
(* runs, nobody sleeps beside a zombie, and parent pointers are good.      *)
(***************************************************************************)
EXTENDS Tasks, QueueLemmas

(***************************************************************************)
(* The inductive invariant.  The four properties rest on each other and on *)
(* how pids are used.  A task leaves the tasklist only after its exit, so  *)
(* a task that runs is listed and so is its parent.  The idle task never   *)
(* waits, so init, its child, is never reaped, and the orphans given to    *)
(* init have a parent.  A task in user code has a chwait that is not       *)
(* listed, so the call of wait that does not sleep, which reaps the child  *)
(* of the call before, reaps nobody who is there.                          *)
(***************************************************************************)
PidsInOrder == \A p \in Pid : pc[p] = "none" <=> p >= task_count

ListedUntilExit ==
    /\ {IDLE, INIT_PID} \subseteq tasklist
    /\ \A p \in Used : pc[p] # "exited" => p \in tasklist

IdleRuns == pc[IDLE] = "user" /\ parent[INIT_PID] = IDLE

WaitsForAll ==
    \A p \in Pid : wait[p] # "NONE" => wait[p] = "ALL" /\ pc[p] = "waiting"

ChwaitStale ==
    \A p \in Pid : /\ chwait[p] \in Used \cup {NULL}
                   /\ pc[p] = "user" => chwait[p] \notin tasklist

IInv ==
    /\ RunQueueSound
    /\ HandedChildIsZombie
    /\ NoSleepBesideZombie
    /\ ParentsSound
    /\ PidsInOrder
    /\ ListedUntilExit
    /\ IdleRuns
    /\ WaitsForAll
    /\ ChwaitStale

\* The run queue is never empty, and its head is one of its tasks.
LEMMA QueueFacts ==
    ASSUME IInv
    PROVE  /\ rr_queue \in Seq(Pid) /\ rr_queue # << >>
           /\ Runnable \subseteq Pid
           /\ IsInjective(rr_queue)
           /\ Current \in Runnable
           /\ Tail(rr_queue) \in Seq(Pid)
           /\ Range(Tail(rr_queue)) = Runnable \ {Current}
           /\ IsInjective(Tail(rr_queue))
<1>1. rr_queue \in Seq(Pid) /\ IDLE \in Runnable /\ IsInjective(rr_queue)
  BY DEF IInv, RunQueueSound, TypeOK
<1>2. rr_queue # << >> /\ Range(rr_queue) \subseteq Pid
  BY <1>1, QueueRange DEF Runnable
<1> QED
  BY <1>1, <1>2, PopProperties DEF Runnable, Current

\* A task in user code other than the idle task: it is in the run queue and in
\* the tasklist, its chwait is stale, and it may leave the queue.
LEMMA UserFacts ==
    ASSUME IInv, NEW p \in Pid, InUser(p)
    PROVE  /\ p \in Runnable /\ p = Current /\ p # IDLE
           /\ p \in tasklist /\ pc[p] = "user" /\ wait[p] = "NONE"
           /\ chwait[p] \notin tasklist
           /\ parent[p] \in tasklist \ {p}
           /\ parent[p] \in Pid
<1>1. p = Current /\ pc[p] = "user" /\ p # IDLE /\ p \in Runnable
  BY QueueFacts DEF InUser
<1>2. task_count \in 2 .. MaxPid + 1 /\ tasklist \subseteq Used /\ Used \subseteq Pid
  <2>1. task_count \in 2 .. MaxPid + 1 /\ tasklist \subseteq Used
    BY DEF IInv, RunQueueSound, TypeOK
  <2> QED
    BY <2>1, MaxPidAssumption DEF Used, Pid
<1>3. p \in tasklist
  <2>1. ~ (p >= task_count)
    BY <1>1 DEF IInv, PidsInOrder
  <2>2. p \in Used
    BY <1>2, <2>1, MaxPidAssumption DEF Used, Pid
  <2> QED
    BY <1>1, <2>2 DEF IInv, ListedUntilExit
<1>4. wait[p] = "NONE"
  BY <1>1 DEF IInv, WaitsForAll
<1>5. chwait[p] \notin tasklist
  BY <1>1 DEF IInv, ChwaitStale
<1>6. parent[p] \in tasklist \ {p}
  BY <1>1, <1>3 DEF IInv, ParentsSound
<1> QED
  BY <1>1, <1>2, <1>3, <1>4, <1>5, <1>6

LEMMA InitIInv == Init => IInv
<1> SUFFICES ASSUME Init PROVE IInv
  OBVIOUS
<1> USE MaxPidAssumption DEF Init, IDLE, INIT_PID, NULL, ALIVE, Pid
<1>1. 0 \in Pid /\ 1 \in Pid
  OBVIOUS
<1>2. /\ rr_queue = << 0, 1 >> /\ rr_queue \in Seq(Pid) /\ Len(rr_queue) = 2
      /\ rr_queue[1] = 0 /\ rr_queue[2] = 1
  BY <1>1
<1>3. Runnable = {0, 1}
  <2>1. Range(rr_queue) = {rr_queue[i] : i \in 1 .. Len(rr_queue)}
    BY <1>2, QueueRange
  <2>2. 1 .. Len(rr_queue) = {1, 2}
    BY <1>2
  <2> QED
    BY <1>2, <2>1, <2>2 DEF Runnable
<1>4. IsInjective(rr_queue)
  <2>1. DOMAIN rr_queue = {1, 2}
    BY <1>2, QueueRange
  <2> QED
    BY <1>2, <2>1 DEF IsInjective
<1>5. TypeOK
  <2>1. task_count \in 2 .. MaxPid + 1 /\ tasklist \subseteq Used
    BY DEF Used
  <2> QED
    BY <1>1, <1>2, <2>1 DEF TypeOK
<1>6. RunQueueSound
  BY <1>1, <1>3, <1>4, <1>5 DEF RunQueueSound
<1>7. HandedChildIsZombie /\ NoSleepBesideZombie /\ ParentsSound
  BY <1>1, <1>3 DEF HandedChildIsZombie, NoSleepBesideZombie, ParentsSound, Zombies
<1>8. PidsInOrder /\ ListedUntilExit /\ IdleRuns /\ WaitsForAll /\ ChwaitStale
  BY DEF PidsInOrder, ListedUntilExit, IdleRuns, WaitsForAll, ChwaitStale, Used
<1> QED
  BY <1>6, <1>7, <1>8 DEF IInv

(***************************************************************************)
(* The timer: the tasks of the queue stay the same.                        *)
(***************************************************************************)
LEMMA TimerIInv ==
    ASSUME IInv, task_timer
    PROVE  IInv'
<1>1. /\ rr_queue' = Append(Tail(rr_queue), Current)
      /\ UNCHANGED << task_count, tasklist, parent, exit_status, wait, chwait,
                      pc, fault >>
  BY DEF task_timer, Rotate, Current
<1>2. /\ rr_queue' \in Seq(Pid)
      /\ Range(rr_queue') = Range(Tail(rr_queue)) \cup {Current}
      /\ IsInjective(rr_queue')
  <2>1. /\ Tail(rr_queue) \in Seq(Pid) /\ IsInjective(Tail(rr_queue))
        /\ Current \in Pid /\ Current \notin Range(Tail(rr_queue))
    BY QueueFacts
  <2> QED
    BY <1>1, <2>1, PushProperties, ZenonT(40)
<1>3. Runnable' = Runnable
  BY <1>2, QueueFacts DEF Runnable
<1>4. TypeOK'
  BY <1>1, <1>2 DEF IInv, RunQueueSound, TypeOK, Used
<1>5. RunQueueSound'
  BY <1>1, <1>2, <1>3, <1>4 DEF IInv, RunQueueSound
<1> QED
  BY <1>1, <1>3, <1>5 DEF IInv, HandedChildIsZombie, NoSleepBesideZombie,
     Zombies, ParentsSound, PidsInOrder, ListedUntilExit, IdleRuns, WaitsForAll,
     ChwaitStale, Used

(***************************************************************************)
(* task_fork: the new pid is nobody's yet.                                 *)
(***************************************************************************)
LEMMA ForkIInv ==
    ASSUME IInv, NEW p \in Pid, task_fork(p)
    PROVE  IInv'
<1> DEFINE new == task_count
<1>1. /\ new \in Pid /\ task_count \in 2 .. MaxPid + 1 /\ task_count' = new + 1
      /\ rr_queue' = Append(rr_queue, new)
      /\ tasklist' = tasklist \cup {new}
      /\ parent' = [parent EXCEPT ![new] = p]
      /\ exit_status' = [exit_status EXCEPT ![new] = ALIVE]
      /\ wait' = [wait EXCEPT ![new] = "NONE"]
      /\ chwait' = [chwait EXCEPT ![new] = NULL]
      /\ pc' = [pc EXCEPT ![new] = "user"]
      /\ UNCHANGED fault
  <2>1. task_count \in 2 .. MaxPid + 1 /\ task_count <= MaxPid
    BY DEF task_fork, IInv, RunQueueSound, TypeOK
  <2>2. new \in Pid
    BY <2>1, MaxPidAssumption DEF Pid
  <2> QED
    BY <2>1, <2>2 DEF task_fork, NewPid
<1>2. /\ parent \in [Pid -> Pid \cup {NULL}]
      /\ exit_status \in [Pid -> Status \cup {ALIVE}]
      /\ wait \in [Pid -> {"NONE", "PID", "ALL"}]
      /\ chwait \in [Pid -> Pid \cup {NULL}]
      /\ pc \in [Pid -> {"none", "user", "waiting", "exited"}]
      /\ tasklist \subseteq Used
  BY DEF IInv, RunQueueSound, TypeOK
<1>3. /\ new \notin Used /\ Used' = Used \cup {new}
      /\ 0 \in Used /\ 1 \in Used /\ NULL # new
  BY <1>1 DEF Used, NULL
<1> HIDE DEF new
<1>4. pc[new] = "none" /\ new # IDLE /\ new # INIT_PID
  BY <1>1, <1>3 DEF IInv, PidsInOrder, IDLE, INIT_PID, new
<1>5. p \in tasklist /\ p # new /\ pc[p] = "user"
  BY <1>2, <1>3, UserFacts DEF task_fork
<1>6. new \notin Runnable
  BY <1>1, <1>4 DEF IInv, RunQueueSound
<1>7. /\ rr_queue' \in Seq(Pid)
      /\ Runnable' = Runnable \cup {new}
      /\ IsInjective(rr_queue')
  BY <1>1, <1>6, QueueFacts, PushProperties DEF Runnable
<1>8. TypeOK'
  <2>1. task_count' \in 2 .. MaxPid + 1
    BY <1>1, MaxPidAssumption DEF Pid, new
  <2> QED
    BY <1>1, <1>2, <1>3, <1>7, <2>1 DEF TypeOK, IInv, RunQueueSound
<1>9. RunQueueSound'
  BY <1>1, <1>2, <1>7, <1>8 DEF IInv, RunQueueSound
<1>10. HandedChildIsZombie'
  <2> SUFFICES ASSUME NEW q \in Runnable', pc'[q] = "waiting"
               PROVE  /\ chwait'[q] \in tasklist'
                      /\ parent'[chwait'[q]] = q
                      /\ pc'[chwait'[q]] = "exited"
    BY DEF HandedChildIsZombie
  <2>1. q # new /\ q \in Runnable /\ q \in Pid /\ pc[q] = "waiting"
    BY <1>1, <1>2, <1>7, QueueFacts
  <2>2. chwait[q] \in tasklist /\ parent[chwait[q]] = q /\ pc[chwait[q]] = "exited"
    BY <2>1 DEF IInv, HandedChildIsZombie
  <2>3. chwait'[q] = chwait[q] /\ chwait[q] # new
    BY <1>1, <1>2, <1>3, <2>1, <2>2
  <2> QED
    BY <1>1, <1>2, <2>2, <2>3
<1>11. NoSleepBesideZombie'
  <2> SUFFICES ASSUME NEW q \in Pid \ {INIT_PID},
                      pc'[q] = "waiting", q \notin Runnable'
               PROVE  Zombies(q)' = {}
    BY DEF NoSleepBesideZombie
  <2>1. pc[q] = "waiting" /\ q \notin Runnable
    BY <1>1, <1>2, <1>7
  <2>2. Zombies(q) = {}
    BY <2>1 DEF IInv, NoSleepBesideZombie
  <2> QED
    BY <1>1, <1>2, <1>3, <2>2 DEF Zombies
<1>12. ParentsSound'
  <2> SUFFICES ASSUME NEW c \in tasklist' \ {IDLE}
               PROVE  parent'[c] \in tasklist' \ {c}
    BY DEF ParentsSound
  <2>1. CASE c = new
    BY <1>1, <1>2, <1>5, <2>1
  <2>2. CASE c # new
    BY <1>1, <1>2, <2>2 DEF IInv, ParentsSound
  <2> QED
    BY <2>1, <2>2
<1>13. PidsInOrder'
  <2> SUFFICES ASSUME NEW q \in Pid PROVE pc'[q] = "none" <=> q >= new + 1
    BY <1>1 DEF PidsInOrder
  <2>1. q = new \/ (q >= new <=> q >= new + 1)
    BY <1>1 DEF Pid, new
  <2>2. pc[q] = "none" <=> q >= new
    BY DEF IInv, PidsInOrder, new
  <2>3. ~ (new >= new + 1)
    BY <1>1 DEF new
  <2> QED
    BY <1>1, <1>2, <2>1, <2>2, <2>3
<1>14. ListedUntilExit'
  <2>1. \A q \in Used' : q \in Used \/ q \in tasklist'
    BY <1>1, <1>3
  <2>2. \A q \in Used : pc[q] # "exited" => q \in tasklist'
    BY <1>1 DEF IInv, ListedUntilExit
  <2>3. \A q \in Used : pc'[q] = pc[q]
    BY <1>1, <1>2, <1>3
  <2> QED
    BY <1>1, <2>1, <2>2, <2>3 DEF IInv, ListedUntilExit
<1>15. IdleRuns'
  BY <1>1, <1>2, <1>4 DEF IInv, IdleRuns
<1>16. WaitsForAll'
  BY <1>1, <1>2, <1>4 DEF IInv, WaitsForAll
<1>17. ChwaitStale'
  <2> SUFFICES ASSUME NEW q \in Pid
               PROVE  /\ chwait'[q] \in Used' \cup {NULL}
                      /\ pc'[q] = "user" => chwait'[q] \notin tasklist'
    BY DEF ChwaitStale
  <2>1. CASE q = new
    <3>1. NULL \notin tasklist'
      BY <1>1, <1>2, <1>3 DEF Used, NULL
    <3> QED
      BY <1>1, <1>2, <2>1, <3>1
  <2>2. CASE q # new
    <3>1. chwait'[q] = chwait[q] /\ pc'[q] = pc[q]
      BY <1>1, <1>2, <2>2
    <3> QED
      BY <1>1, <1>3, <3>1 DEF IInv, ChwaitStale
  <2> QED
    BY <2>1, <2>2
<1> QED
  BY <1>9, <1>10, <1>11, <1>12, <1>13, <1>14, <1>15, <1>16, <1>17 DEF IInv

(***************************************************************************)
(* syscall_exit: the only new zombie is the caller's, and its parent, when *)
(* it sleeps, is woken with it.                                            *)
(***************************************************************************)
LEMMA ExitIInv ==
    ASSUME IInv, NEW c \in Pid, NEW status \in Status, syscall_exit(c, status)
    PROVE  IInv'
<1> DEFINE p == parent[c]
<1>1. /\ c \in Runnable /\ c = Current /\ c # IDLE /\ c \in tasklist
      /\ pc[c] = "user" /\ wait[c] = "NONE" /\ p \in tasklist \ {c} /\ p \in Pid
  BY UserFacts DEF syscall_exit
<1>2. /\ parent \in [Pid -> Pid \cup {NULL}]
      /\ exit_status \in [Pid -> Status \cup {ALIVE}]
      /\ wait \in [Pid -> {"NONE", "PID", "ALL"}]
      /\ chwait \in [Pid -> Pid \cup {NULL}]
      /\ pc \in [Pid -> {"none", "user", "waiting", "exited"}]
      /\ tasklist \subseteq Used /\ p \in Used
  BY <1>1 DEF IInv, RunQueueSound, TypeOK
<1>3. /\ exit_status' = [exit_status EXCEPT ![c] = status]
      /\ pc' = [pc EXCEPT ![c] = "exited"]
      /\ UNCHANGED << task_count, tasklist, parent, fault >>
      /\ Used' = Used
  BY DEF syscall_exit, Used
<1> HIDE DEF p
\* Who is in the queue, and what the parent gets, in the two cases.
<1>4. CASE WaitedFor(c)
  <2>1. /\ chwait' = [chwait EXCEPT ![p] = c]
        /\ wait' = [wait EXCEPT ![p] = "NONE"]
        /\ rr_queue' = Tail(Append(rr_queue, p))
    BY <1>4 DEF syscall_exit, p
  <2>2. wait[p] = "ALL" /\ pc[p] = "waiting"
    BY <1>1, <1>4 DEF WaitedFor, p, IInv, WaitsForAll
  <2>3. p \notin Runnable
    BY <1>1, <2>2 DEF IInv, RunQueueSound
  <2>4. /\ rr_queue' \in Seq(Pid)
        /\ Runnable' = (Runnable \ {c}) \cup {p}
        /\ IsInjective(rr_queue')
    <3> DEFINE q == Append(rr_queue, p)
    <3>1. /\ q \in Seq(Pid) /\ Len(q) = Len(rr_queue) + 1
          /\ Range(q) = Runnable \cup {p} /\ IsInjective(q)
      BY <1>1, <2>3, QueueFacts, PushProperties DEF Runnable
    <3>2. Head(q) = c /\ q # << >>
      <4>1. Len(rr_queue) \in Nat /\ Len(rr_queue) # 0 /\ Current = rr_queue[1]
        BY QueueFacts, QueueRange, PopProperties DEF Current
      <4>2. \A i \in 1 .. Len(rr_queue) : q[i] = rr_queue[i]
        BY <1>1, QueueFacts, AppendProperties
      <4>3. q[1] = rr_queue[1]
        BY <4>1, <4>2
      <4> HIDE DEF q
      <4>4. q # << >>
        BY <3>1, <4>1, QueueRange
      <4> QED
        BY <1>1, <3>1, <4>1, <4>3, <4>4, PopProperties
    <3> HIDE DEF q
    <3>3. /\ Tail(q) \in Seq(Pid) /\ IsInjective(Tail(q))
          /\ Range(Tail(q)) = (Runnable \cup {p}) \ {c}
      BY <3>1, <3>2, PopProperties
    <3> QED
      BY <1>1, <2>1, <3>3 DEF q, Runnable
  <2>5. TypeOK'
    BY <1>1, <1>2, <1>3, <2>1, <2>4 DEF TypeOK, IInv, RunQueueSound
  <2>6. RunQueueSound'
    BY <1>1, <1>2, <1>3, <2>1, <2>2, <2>4, <2>5 DEF IInv, RunQueueSound
  <2>7. HandedChildIsZombie'
    <3> SUFFICES ASSUME NEW q \in Runnable', pc'[q] = "waiting"
                 PROVE  /\ chwait'[q] \in tasklist
                        /\ parent[chwait'[q]] = q
                        /\ pc'[chwait'[q]] = "exited"
      BY <1>3 DEF HandedChildIsZombie
    <3>1. CASE q = p
      BY <1>1, <1>2, <1>3, <2>1, <3>1 DEF p
    <3>2. CASE q # p
      <4>1. q \in Runnable /\ q \in Pid /\ pc[q] = "waiting"
        BY <1>1, <1>2, <1>3, <2>4, <3>2, QueueFacts
      <4>2. chwait[q] \in tasklist /\ parent[chwait[q]] = q
            /\ pc[chwait[q]] = "exited"
        BY <4>1 DEF IInv, HandedChildIsZombie
      <4> QED
        BY <1>1, <1>2, <1>3, <2>1, <3>2, <4>1, <4>2
    <3> QED
      BY <3>1, <3>2
  <2>8. NoSleepBesideZombie'
    <3> SUFFICES ASSUME NEW q \in Pid \ {INIT_PID},
                        pc'[q] = "waiting", q \notin Runnable'
                 PROVE  Zombies(q)' = {}
      BY DEF NoSleepBesideZombie
    <3>1. pc[q] = "waiting" /\ q \notin Runnable /\ q # p
      BY <1>1, <1>2, <1>3, <2>4
    <3>2. Zombies(q) = {}
      BY <3>1 DEF IInv, NoSleepBesideZombie
    <3> QED
      BY <1>2, <1>3, <3>1, <3>2 DEF Zombies, p
  <2>9. WaitsForAll'
    BY <1>1, <1>2, <1>3, <2>1 DEF IInv, WaitsForAll
  <2>10. ChwaitStale'
    BY <1>1, <1>2, <1>3, <2>1, <2>2 DEF IInv, ChwaitStale
  <2> QED
    BY <1>1, <1>2, <1>3, <2>6, <2>7, <2>8, <2>9, <2>10
    DEF IInv, ParentsSound, PidsInOrder, ListedUntilExit, IdleRuns
<1>5. CASE ~ WaitedFor(c)
  <2>1. rr_queue' = Tail(rr_queue) /\ UNCHANGED << wait, chwait >>
    BY <1>5 DEF syscall_exit
  <2>2. /\ rr_queue' \in Seq(Pid)
        /\ Runnable' = Runnable \ {c}
        /\ IsInjective(rr_queue')
    BY <1>1, <2>1, QueueFacts DEF Runnable
  <2>3. TypeOK'
    BY <1>1, <1>2, <1>3, <2>1, <2>2 DEF TypeOK, IInv, RunQueueSound
  <2>4. RunQueueSound'
    BY <1>1, <1>2, <1>3, <2>1, <2>2, <2>3 DEF IInv, RunQueueSound
  <2>5. HandedChildIsZombie'
    BY <1>1, <1>2, <1>3, <2>1, <2>2, QueueFacts DEF IInv, HandedChildIsZombie
  <2>6. NoSleepBesideZombie'
    <3> SUFFICES ASSUME NEW q \in Pid \ {INIT_PID},
                        pc'[q] = "waiting", q \notin Runnable'
                 PROVE  Zombies(q)' = {}
      BY DEF NoSleepBesideZombie
    <3>1. pc[q] = "waiting" /\ q \notin Runnable
      BY <1>1, <1>2, <1>3, <2>2
    <3>2. Zombies(q) = {}
      BY <3>1 DEF IInv, NoSleepBesideZombie
    <3>3. q # p
      <4>1. wait[q] = "ALL"
        BY <1>2, <3>1 DEF IInv, RunQueueSound, WaitsForAll
      <4> QED
        BY <1>5, <4>1 DEF WaitedFor, p
    <3> QED
      BY <1>2, <1>3, <3>2, <3>3 DEF Zombies, p
  <2>7. WaitsForAll'
    BY <1>1, <1>2, <1>3, <2>1 DEF IInv, WaitsForAll
  <2>8. ChwaitStale'
    BY <1>1, <1>2, <1>3, <2>1 DEF IInv, ChwaitStale
  <2> QED
    BY <1>1, <1>2, <1>3, <2>4, <2>5, <2>6, <2>7, <2>8
    DEF IInv, ParentsSound, PidsInOrder, ListedUntilExit, IdleRuns
<1> QED
  BY <1>4, <1>5

(***************************************************************************)
(* syscall_wait up to its sleep: the caller has no zombie.                 *)
(***************************************************************************)
LEMMA WaitSleepsIInv ==
    ASSUME IInv, NEW p \in Pid, WaitSleeps(p)
    PROVE  IInv'
<1>1. /\ p \in Runnable /\ p = Current /\ p # IDLE /\ p \in tasklist
      /\ pc[p] = "user" /\ Zombies(p) = {}
  BY UserFacts DEF WaitSleeps
<1>2. /\ wait \in [Pid -> {"NONE", "PID", "ALL"}]
      /\ pc \in [Pid -> {"none", "user", "waiting", "exited"}]
  BY DEF IInv, RunQueueSound, TypeOK
<1>3. /\ wait' = [wait EXCEPT ![p] = "ALL"]
      /\ pc' = [pc EXCEPT ![p] = "waiting"]
      /\ rr_queue' = Tail(rr_queue)
      /\ UNCHANGED << task_count, tasklist, parent, exit_status, chwait, fault >>
      /\ Used' = Used /\ \A q \in Pid : Zombies(q)' = Zombies(q)
  BY DEF WaitSleeps, Used, Zombies
<1>4. /\ rr_queue' \in Seq(Pid)
      /\ Runnable' = Runnable \ {p}
      /\ IsInjective(rr_queue')
  BY <1>1, <1>3, QueueFacts DEF Runnable
<1>5. TypeOK'
  BY <1>2, <1>3, <1>4 DEF TypeOK, IInv, RunQueueSound
<1>6. RunQueueSound'
  BY <1>1, <1>2, <1>3, <1>4, <1>5 DEF IInv, RunQueueSound
<1>7. HandedChildIsZombie'
  <2> SUFFICES ASSUME NEW q \in Runnable', pc'[q] = "waiting"
               PROVE  /\ chwait[q] \in tasklist
                      /\ parent[chwait[q]] = q
                      /\ pc'[chwait[q]] = "exited"
    BY <1>3 DEF HandedChildIsZombie
  <2>1. q # p /\ q \in Runnable /\ pc[q] = "waiting"
    BY <1>2, <1>3, <1>4, QueueFacts
  <2>2. chwait[q] \in tasklist /\ parent[chwait[q]] = q /\ pc[chwait[q]] = "exited"
    BY <2>1 DEF IInv, HandedChildIsZombie
  <2> QED
    BY <1>1, <1>2, <1>3, <2>2
<1>8. NoSleepBesideZombie'
  BY <1>1, <1>2, <1>3, <1>4 DEF IInv, NoSleepBesideZombie
<1>9. WaitsForAll' /\ ChwaitStale'
  BY <1>2, <1>3 DEF IInv, WaitsForAll, ChwaitStale
<1> QED
  BY <1>1, <1>2, <1>3, <1>6, <1>7, <1>8, <1>9
  DEF IInv, ParentsSound, PidsInOrder, ListedUntilExit, IdleRuns

(***************************************************************************)
(* The rest of syscall_wait.  In user code it stops the kernel or reaps    *)
(* nobody, by ChwaitStale; after the sleep it reaps the zombie handed to   *)
(* the caller, whose children go to init.                                  *)
(***************************************************************************)
LEMMA WaitReapsIInv ==
    ASSUME IInv, NEW p \in Pid, WaitReaps(p)
    PROVE  IInv'
<1> DEFINE c == chwait[p]
<1>1. /\ parent \in [Pid -> Pid \cup {NULL}]
      /\ wait \in [Pid -> {"NONE", "PID", "ALL"}]
      /\ pc \in [Pid -> {"none", "user", "waiting", "exited"}]
      /\ tasklist \subseteq Used
  BY DEF IInv, RunQueueSound, TypeOK
<1>2. p \in Runnable /\ pc[p] \in {"user", "waiting"}
  BY UserFacts, QueueFacts DEF WaitReaps
<1>3. /\ pc' = [pc EXCEPT ![p] = "user"]
      /\ UNCHANGED << rr_queue, task_count, exit_status, wait, chwait >>
      /\ Runnable' = Runnable /\ Used' = Used
  BY DEF WaitReaps, Runnable, Used
<1>4. wait[p] = "NONE"
  BY <1>2 DEF IInv, RunQueueSound, WaitsForAll
\* The steps that leave the tasklist alone: in user code they all do.
<1>6. CASE UNCHANGED << tasklist, parent >> /\ c \notin tasklist
  <2>1. pc[p] = "user"
    BY <1>2, <1>6 DEF IInv, HandedChildIsZombie
  <2>2. pc' = pc
    BY <1>1, <1>3, <2>1
  <2>3. fault' \in {"none", "null dereference", "double free"}
    BY DEF WaitReaps, ReapWaitedChild, InUser
  <2>4. TypeOK'
    BY <1>3, <1>6, <2>2, <2>3 DEF TypeOK, IInv, RunQueueSound
  <2>5. RunQueueSound'
    BY <1>3, <1>6, <2>2, <2>4 DEF IInv, RunQueueSound
  <2> QED
    BY <1>3, <1>6, <2>2, <2>5 DEF IInv, HandedChildIsZombie,
       NoSleepBesideZombie, Zombies, ParentsSound, PidsInOrder, ListedUntilExit,
       IdleRuns, WaitsForAll, ChwaitStale
<1>7. CASE c \in tasklist
  <2>1. pc[p] = "waiting"
    BY <1>2, <1>7 DEF IInv, ChwaitStale
  <2>2. parent[c] = p /\ pc[c] = "exited"
    BY <1>2, <2>1 DEF IInv, HandedChildIsZombie
  <2>3. /\ c # NULL /\ c \in Pid
        /\ c \in Used /\ \A q \in Used : q \in Pid /\ q # NULL
    <3>1. task_count \in 2 .. MaxPid + 1
      BY DEF IInv, RunQueueSound, TypeOK
    <3>2. \A q \in Used : q \in Pid /\ q # NULL
      BY <3>1, MaxPidAssumption DEF Used, Pid, NULL
    <3> QED
      BY <1>1, <1>7, <3>2
  <2>4. /\ parent' = [x \in Pid |-> IF x \in tasklist /\ parent[x] = c
                                    THEN INIT_PID ELSE parent[x]]
        /\ tasklist' = tasklist \ {c}
        /\ UNCHANGED fault
    BY <1>7, <2>3 DEF WaitReaps, ReapWaitedChild, task_orphan_all
  <2> HIDE DEF c
  <2>5. c # IDLE /\ c # INIT_PID /\ p # c
    BY <2>1, <2>2 DEF IInv, IdleRuns
  <2>6. INIT_PID \in tasklist /\ IDLE \in tasklist /\ INIT_PID \in Pid /\ IDLE \in Pid
        /\ INIT_PID # IDLE
    BY <1>1, <2>3 DEF IInv, ListedUntilExit, INIT_PID, IDLE
  <2>7. TypeOK'
    <3>1. parent' \in [Pid -> Pid \cup {NULL}] /\ tasklist' \subseteq Used
      BY <1>1, <2>4, <2>6
    <3> QED
      BY <1>1, <1>3, <2>4, <3>1 DEF TypeOK, IInv, RunQueueSound
  <2>8. RunQueueSound'
    BY <1>1, <1>2, <1>3, <1>4, <2>1, <2>7 DEF IInv, RunQueueSound
  <2>9. HandedChildIsZombie'
    <3> SUFFICES ASSUME NEW q \in Runnable, pc'[q] = "waiting"
                 PROVE  /\ chwait[q] \in tasklist'
                        /\ parent'[chwait[q]] = q
                        /\ pc'[chwait[q]] = "exited"
      BY <1>3 DEF HandedChildIsZombie
    <3>1. q # p /\ q \in Pid /\ pc[q] = "waiting"
      BY <1>1, <1>3, QueueFacts
    <3>2. chwait[q] \in tasklist /\ parent[chwait[q]] = q /\ pc[chwait[q]] = "exited"
      BY <3>1 DEF IInv, HandedChildIsZombie
    <3>3. chwait[q] # c /\ q # c /\ chwait[q] # p /\ chwait[q] \in Pid
      BY <1>1, <2>1, <2>2, <2>3, <3>1, <3>2
    <3> QED
      BY <1>1, <1>3, <2>4, <3>2, <3>3
  <2>10. NoSleepBesideZombie'
    <3> SUFFICES ASSUME NEW q \in Pid \ {INIT_PID},
                        pc'[q] = "waiting", q \notin Runnable
                 PROVE  Zombies(q)' = {}
      BY <1>3 DEF NoSleepBesideZombie
    <3>1. Zombies(q) = {}
      BY <1>1, <1>2, <1>3 DEF IInv, NoSleepBesideZombie
    <3>2. \A x \in Pid : parent'[x] = q => parent[x] = q
      BY <1>1, <2>4
    <3> QED
      BY <1>1, <1>3, <2>3, <2>4, <3>1, <3>2 DEF Zombies
  <2>11. ParentsSound'
    <3> SUFFICES ASSUME NEW x \in tasklist \ {IDLE}, x # c
                 PROVE  parent'[x] \in (tasklist \ {c}) \ {x}
      BY <2>4 DEF ParentsSound
    <3>1. x \in Pid /\ parent[x] \in tasklist \ {x}
      BY <1>1, <2>3 DEF IInv, ParentsSound
    <3>2. CASE parent[x] = c
      <4>1. parent'[x] = INIT_PID
        BY <2>4, <3>1, <3>2
      <4>2. x # INIT_PID
        BY <2>5, <3>2 DEF IInv, IdleRuns
      <4> QED
        BY <2>5, <2>6, <4>1, <4>2
    <3>3. CASE parent[x] # c
      BY <2>4, <3>1, <3>3
    <3> QED
      BY <3>2, <3>3
  <2>12. PidsInOrder'
    BY <1>1, <1>3, <2>1 DEF IInv, PidsInOrder
  <2>13. ListedUntilExit'
    BY <1>1, <1>2, <1>3, <2>1, <2>2, <2>3, <2>4, <2>5 DEF IInv, ListedUntilExit
  <2>14. IdleRuns'
    BY <1>1, <1>3, <2>4, <2>5, <2>6 DEF IInv, IdleRuns
  <2>15. WaitsForAll'
    BY <1>1, <1>3, <1>4 DEF IInv, WaitsForAll
  <2>16. ChwaitStale'
    BY <1>1, <1>3, <2>4 DEF IInv, ChwaitStale, c
  <2> QED
    BY <2>8, <2>9, <2>10, <2>11, <2>12, <2>13, <2>14, <2>15, <2>16 DEF IInv
<1>8. c \notin tasklist => UNCHANGED << tasklist, parent >>
  BY DEF WaitReaps, ReapWaitedChild
<1> QED
  BY <1>6, <1>7, <1>8

(***************************************************************************)
(* Every step keeps the invariant.                                         *)
(***************************************************************************)
LEMMA NextIInv == IInv /\ [Next]_vars => IInv'
<1> SUFFICES ASSUME IInv, [Next]_vars PROVE IInv'
  OBVIOUS
<1>1. CASE task_timer
  BY <1>1, TimerIInv
<1>2. ASSUME NEW p \in Pid, task_fork(p) PROVE IInv'
  BY <1>2, ForkIInv
<1>3. ASSUME NEW p \in Pid, NEW status \in Status, syscall_exit(p, status)
      PROVE  IInv'
  BY <1>3, ExitIInv
<1>4. ASSUME NEW p \in Pid, WaitSleeps(p) PROVE IInv'
  BY <1>4, WaitSleepsIInv
<1>5. ASSUME NEW p \in Pid, WaitReaps(p) PROVE IInv'
  BY <1>5, WaitReapsIInv
<1>6. CASE UNCHANGED vars
  <2>1. /\ UNCHANGED << rr_queue, task_count, tasklist, parent, exit_status,
                        wait, chwait, pc, fault >>
        /\ Runnable' = Runnable /\ Used' = Used
    BY <1>6 DEF vars, Runnable, Used
  <2>2. RunQueueSound'
    BY <2>1 DEF IInv, RunQueueSound, TypeOK
  <2>3. HandedChildIsZombie' /\ NoSleepBesideZombie' /\ ParentsSound'
    BY <2>1 DEF IInv, HandedChildIsZombie, NoSleepBesideZombie, Zombies, ParentsSound
  <2> QED
    BY <2>1, <2>2, <2>3 DEF IInv, PidsInOrder, ListedUntilExit, IdleRuns,
       WaitsForAll, ChwaitStale
<1>7. ASSUME NEW p \in Pid, NEW c \in Pid, syscall_waitpid(p, c) PROVE IInv'
  BY <1>6, <1>7 DEF syscall_waitpid
<1> QED
  BY <1>1, <1>2, <1>3, <1>4, <1>5, <1>6, <1>7 DEF Next

\* The inductive invariant holds however the calls of tasks and the timer
\* interleave, and whatever number of pids task_fork has to give.
THEOREM Invariance == Spec => []IInv
<1> QED
  BY InitIInv, NextIInv, PTL DEF Spec

(***************************************************************************)
(* The results.                                                            *)
(***************************************************************************)

\* The run queue never empties, holds no task twice, and holds exactly the
\* tasks in user code and the ones woken from wait: task_fork, syscall_exit,
\* syscall_wait and the timer agree on who runs.
THEOREM RunQueueIsSound == Spec => []RunQueueSound
<1>1. IInv => RunQueueSound
  BY DEF IInv
<1> QED
  BY <1>1, Invariance, PTL

\* A parent woken from wait finds the child syscall_exit handed to it: exited,
\* its own, not reaped by anybody in between.
THEOREM ChildHandedIsZombie == Spec => []HandedChildIsZombie
<1>1. IInv => HandedChildIsZombie
  BY DEF IInv
<1> QED
  BY <1>1, Invariance, PTL

\* Nobody but init sleeps in syscall_wait beside a child it could reap: no
\* exit is lost, however the calls of parent and children interleave.
THEOREM ExitIsNotLost == Spec => []NoSleepBesideZombie
<1>1. IInv => NoSleepBesideZombie
  BY DEF IInv
<1> QED
  BY <1>1, Invariance, PTL

\* task_orphan_all keeps every parent pointer good, and no task becomes its
\* own parent, so that syscall_waitpid refuses every call.
THEOREM ParentsAreSound == Spec => []ParentsSound
<1>1. IInv => ParentsSound
  BY DEF IInv
<1> QED
  BY <1>1, Invariance, PTL

\* A task leaves the tasklist by its own parent only, after its exit and the
\* sleep of the parent: by ChwaitStale a syscall_wait that does not sleep finds
\* nobody listed in chwait, and task_timer, task_fork and syscall_exit take
\* nobody out.
THEOREM OnlyParentsReap == Spec => ReapsOwnZombie
<1>1. IInv /\ [Next]_vars => [OwnZombieLeaves]_vars
  <2> SUFFICES ASSUME IInv, [Next]_vars PROVE OwnZombieLeaves \/ UNCHANGED vars
    OBVIOUS
  <2> USE DEF OwnZombieLeaves
  <2>1. ASSUME NEW p \in Pid, WaitReaps(p) PROVE OwnZombieLeaves
    <3> SUFFICES ASSUME NEW c \in tasklist \ tasklist'
                 PROVE  pc[c] = "exited" /\ parent[c] = p
                        /\ p = Current /\ pc[p] = "waiting"
      BY <2>1, UserFacts DEF WaitReaps
    <3>1. c = chwait[p] /\ c \in tasklist
      BY <2>1 DEF WaitReaps, ReapWaitedChild
    <3>2. p = Current /\ p \in Runnable /\ pc[p] \in {"user", "waiting"}
      BY <2>1, QueueFacts DEF WaitReaps, InUser
    <3>3. pc[p] # "user"
      BY <3>1 DEF IInv, ChwaitStale
    <3> QED
      BY <3>1, <3>2, <3>3 DEF IInv, HandedChildIsZombie
  <2>2. ASSUME NEW p \in Pid, task_fork(p) PROVE OwnZombieLeaves
    BY <2>2 DEF task_fork
  <2>3. ASSUME NEW p \in Pid, NEW status \in Status, syscall_exit(p, status)
        PROVE  OwnZombieLeaves
    BY <2>3 DEF syscall_exit
  <2>4. ASSUME NEW p \in Pid, WaitSleeps(p) PROVE OwnZombieLeaves
    BY <2>4 DEF WaitSleeps
  <2>5. CASE task_timer
    BY <2>5 DEF task_timer
  <2>6. ASSUME NEW p \in Pid, NEW c \in Pid, syscall_waitpid(p, c)
        PROVE  UNCHANGED vars
    BY <2>6 DEF syscall_waitpid
  <2> QED
    BY <2>1, <2>2, <2>3, <2>4, <2>5, <2>6 DEF Next
<1> QED
  BY <1>1, Invariance, PTL DEF Spec, ReapsOwnZombie
=============================================================================
