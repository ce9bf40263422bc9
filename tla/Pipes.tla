------------------------------- MODULE Pipes -------------------------------
(***************************************************************************)
(* Descriptor tables, pipes and message queues (descriptor.c, pipe.c, mq.c *)
(* and their system calls).  A pipe is shared by every descriptor cloned   *)
(* from the two that made it, by dup and by fork, and is destroyed when    *)
(* the last of them is closed; a message queue is a pipe found by name.    *)
(* A message is abstracted to the number of characters strlen finds in it. *)
(* The descriptors of the terminal and of files, which refer to no pipe,   *)
(* are left out of the tables.                                             *)
(***************************************************************************)
EXTENDS KernelLocks

CONSTANTS
    Task,       \* bound: the tasks there will ever be
    First,      \* the one that forks the others
    Address,    \* bound: where kmalloc may put a pipe_t
    Name,       \* the names of message queues
    MaxFd,      \* bound: entries of a descriptor table
    MaxLen,     \* bound: characters of a message
    MaxList     \* bound: messages in a pipe
ASSUME FirstAssumption == First \in Task
ASSUME TaskAssumption == IsFiniteSet(Task)
ASSUME BoundAssumption == MaxFd \in Nat /\ MaxLen \in Nat /\ MaxList \in Nat

NULL == "NULL"

VARIABLES
    table,      \* the fd_table of each task, a sequence of fd_t
    pipe,       \* the pipe_t at each address
    alloc,      \* the addresses at which a pipe_t is allocated
    mqlist,     \* the names and pipes of the message queues, in step
    pc,         \* "none" before the task is forked, "reading" in pipe_read
    rd          \* the pipe and the length a task in pipe_read asked for
vars == << table, pipe, alloc, mqlist, pc, rd >>

---------------------------------------------------------------------------
(* descriptor.c *)

Fd(kind, access, ptr) ==
    [isopen |-> TRUE, kind |-> kind, access |-> access, ptr |-> ptr]

\* fd_table_rem leaves the rest of the entry as it was, but nothing reads it.
ClosedFd == [isopen |-> FALSE]

OpenFds(t) == {i \in DOMAIN table[t] : table[t][i].isopen}

\* The descriptors of t with one access to the pipe at address p.
Ends(t, access, p) ==
    {i \in OpenFds(t) :
        table[t][i].access = access /\ table[t][i].ptr = p}

\* The descriptors of all the tasks with one access to the pipe at address p.
EndsOf(access, p) ==
    {e \in Task \X (1 .. MaxFd) : e[2] \in Ends(e[1], access, p)}

Least(I) == CHOOSE i \in I : \A j \in I : i <= j

\* The lowest closed entry is reused before the table grows.
FdTableAdd(tab, fd) ==
    LET closed == {i \in DOMAIN tab : ~ tab[i].isopen}
    IN  IF closed = {} THEN Append(tab, fd)
        ELSE [tab EXCEPT ![Least(closed)] = fd]

Room(t, n) == Len(table[t]) + n <= MaxFd + Cardinality(DOMAIN table[t] \ OpenFds(t))

\* The variant that forgets that a copy can write as well.
CloneEndsReadersOnly(t, I) ==
    [p \in Address |->
        [pipe[p] EXCEPT !.reader_count = @ + Cardinality(I \cap Ends(t, "READ", p))]]

\* fd_table_clone_entry for the entries I of t: the copies are counted.
CloneEnds(t, I) ==
    [p \in Address |->
        [pipe[p] EXCEPT !.reader_count = @ + Cardinality(I \cap Ends(t, "READ", p)),
                        !.writer_count = @ + Cardinality(I \cap Ends(t, "WRITE", p))]]

---------------------------------------------------------------------------
(* pipe.c *)

pipe_new ==
    [list |-> << >>, reader_count |-> 1, writer_count |-> 1, dead |-> FALSE,
     lock |-> KSemaphoreInit(0)]

Closed(p) == [p EXCEPT !.list = << >>, !.dead = TRUE]

\* What there is at an address where no pipe_t is allocated.
NoPipe == Closed([pipe_new EXCEPT !.reader_count = 0, !.writer_count = 0])

\* The variant that destroys a pipe with the last end of either kind.
EitherKindGone(p) == p.reader_count = 0 \/ p.writer_count = 0

NoEndLeft(p) == p.reader_count = 0 /\ p.writer_count = 0

\* pipe_close_rd and pipe_close_wr for the entries I of the table of t.  The
\* close of the last end destroys the pipe, and frees it unless mqlist keeps it.
CloseFds(t, I) ==
    LET left(p) ==
            [pipe[p] EXCEPT
                !.reader_count = @ - Cardinality(I \cap Ends(t, "READ", p)),
                !.writer_count = @ - Cardinality(I \cap Ends(t, "WRITE", p))]
        touched == {table[t][i].ptr : i \in I \cap OpenFds(t)}
        last == {p \in touched : NoEndLeft(left(p))}
        freed == {table[t][i].ptr :
                    i \in {j \in I \cap OpenFds(t) :
                             table[t][j].kind = "PIPE" /\ table[t][j].ptr \in last}}
    IN  /\ table' = [table EXCEPT ![t] =
                        [i \in DOMAIN @ |-> IF i \in I THEN ClosedFd ELSE @[i]]]
        /\ pipe' = [p \in Address |->
                        IF p \in freed THEN NoPipe
                        ELSE IF p \in last THEN Closed(left(p)) ELSE left(p)]
        /\ alloc' = alloc \ freed

\* mqlist_open of a live queue.
Joined(p) == [p EXCEPT !.reader_count = @ + 1, !.writer_count = @ + 1]

\* pipe_write when there is a reader.
PutMessage(p, len) == [p EXCEPT !.list = Append(@, len), !.lock = KSemaphoreSignal(@)]

\* The ksemaphore_wait of pipe_read.
WaitMessage(p, t) == [p EXCEPT !.lock = KSemaphoreWait(@, t)]

\* The variants that do not compare the lengths, and that do not signal.
TakeMessageUnchecked(p, len) ==
    [p EXCEPT !.list = << Head(@) - len >> \o Tail(@), !.lock = KSemaphoreSignal(@)]

TakeMessageSilently(p, len) ==
    IF len < Head(p.list)
    THEN [p EXCEPT !.list = << Head(@) - len >> \o Tail(@)]
    ELSE [p EXCEPT !.list = Tail(@)]

\* pipe_read after the semaphore: what does not fit the buffer stays, and the
\* semaphore is signalled again for it.
TakeMessage(p, len) ==
    IF len < Head(p.list)
    THEN [p EXCEPT !.list = << Head(@) - len >> \o Tail(@),
                   !.lock = KSemaphoreSignal(@)]
    ELSE [p EXCEPT !.list = Tail(@)]

---------------------------------------------------------------------------
Init ==
    /\ table = [t \in Task |-> << >>]
    /\ pipe = [p \in Address |-> NoPipe]
    /\ alloc = {}
    /\ mqlist = << >>
    /\ pc = [t \in Task |-> IF t = First THEN "user" ELSE "none"]
    /\ rd = [t \in Task |-> << NULL, 0 >>]

AddEnds(t, kind, p) ==
    table' = [table EXCEPT ![t] =
                 FdTableAdd(FdTableAdd(@, Fd(kind, "READ", p)), Fd(kind, "WRITE", p))]

\* kmalloc gives any address that is not in use.
syscall_pipe(t) ==
    /\ pc[t] = "user" /\ Room(t, 2)
    /\ \E p \in Address \ alloc :
          /\ alloc' = alloc \cup {p}
          /\ pipe' = [pipe EXCEPT ![p] = pipe_new]
          /\ AddEnds(t, "PIPE", p)
    /\ UNCHANGED << mqlist, pc, rd >>

\* The variant for which a dead queue has lost its name.
NamedAlive(name) ==
    {i \in DOMAIN mqlist : mqlist[i].name = name /\ ~ pipe[mqlist[i].pipe].dead}

Named(name) == {i \in DOMAIN mqlist : mqlist[i].name = name}

\* mqlist_open when there is a queue of that name: it is joined, or made anew
\* in its place when it is dead.
JoinQueue(t, i) ==
    LET p == mqlist[i].pipe
    IN  /\ pipe' = [pipe EXCEPT ![p] =
              IF @.dead THEN pipe_new ELSE Joined(@)]
        /\ AddEnds(t, "MQ", p)
        /\ UNCHANGED << alloc, mqlist >>

\* Otherwise a new queue takes the place of the first dead one in the list,
\* whose pipe_t is forgotten, or is added to the list.
NewQueue(t, name) ==
    LET dead == {i \in DOMAIN mqlist : pipe[mqlist[i].pipe].dead}
    IN  \E p \in Address \ alloc :
          /\ alloc' = alloc \cup {p}
          /\ pipe' = [pipe EXCEPT ![p] = pipe_new]
          /\ LET entry == [name |-> name, pipe |-> p]
             IN  mqlist' = IF dead = {} THEN Append(mqlist, entry)
                           ELSE [mqlist EXCEPT ![Least(dead)] = entry]
          /\ AddEnds(t, "MQ", p)

syscall_mqopen(t, name) ==
    /\ pc[t] = "user" /\ Room(t, 2)
    /\ \/ \E i \in Named(name) : JoinQueue(t, i)
       \/ Named(name) = {} /\ NewQueue(t, name)
    /\ UNCHANGED << pc, rd >>

syscall_dup(t, i) ==
    /\ pc[t] = "user" /\ Room(t, 1)
    /\ i \in OpenFds(t)
    /\ table' = [table EXCEPT ![t] = FdTableAdd(@, @[i])]
    /\ pipe' = CloneEnds(t, {i})
    /\ UNCHANGED << alloc, mqlist, pc, rd >>

syscall_close(t, i) ==
    /\ pc[t] = "user"
    /\ i \in OpenFds(t)
    /\ CloseFds(t, {i})
    /\ UNCHANGED << mqlist, pc, rd >>

\* fd_table_clone.
task_fork(t, new) ==
    /\ pc[t] = "user" /\ pc[new] = "none"
    /\ table' = [table EXCEPT ![new] = table[t]]
    /\ pipe' = CloneEnds(t, OpenFds(t))
    /\ pc' = [pc EXCEPT ![new] = "user"]
    /\ UNCHANGED << alloc, mqlist, rd >>

\* task_close_all_fds.
syscall_exit(t) ==
    /\ pc[t] = "user"
    /\ CloseFds(t, OpenFds(t))
    /\ pc' = [pc EXCEPT ![t] = "exited"]
    /\ UNCHANGED << mqlist, rd >>

\* With no reader the message is dropped, and the caller is told it was sent.
syscall_write(t, i, len) ==
    /\ pc[t] = "user"
    /\ i \in OpenFds(t) /\ table[t][i].access = "WRITE"
    /\ LET p == table[t][i].ptr
       IN  /\ Len(pipe[p].list) < MaxList
           /\ pipe' = [pipe EXCEPT ![p] =
                 IF @.reader_count = 0 THEN @ ELSE PutMessage(@, len)]
    /\ UNCHANGED << table, alloc, mqlist, pc, rd >>

\* syscall_read does not look at the access of the descriptor (it tests it
\* with | instead of &): the write end can be read as well.
CanRead(t, i, p) ==
    /\ pc[t] = "user"
    /\ i \in OpenFds(t) /\ table[t][i].ptr = p
    /\ ~ (pipe[p].list = << >> /\ pipe[p].writer_count = 0)

ReadSleeps(t, i, len) ==
    \E p \in Address :
        /\ CanRead(t, i, p)
        /\ KSemaphoreBlocks(pipe[p].lock)
        /\ pipe' = [pipe EXCEPT ![p] = WaitMessage(@, t)]
        /\ pc' = [pc EXCEPT ![t] = "reading"]
        /\ rd' = [rd EXCEPT ![t] = << p, len >>]
        /\ UNCHANGED << table, alloc, mqlist >>

ReadAtOnce(t, i, len) ==
    \E p \in Address :
        /\ CanRead(t, i, p)
        /\ ~ KSemaphoreBlocks(pipe[p].lock)
        /\ pipe' = [pipe EXCEPT ![p] = TakeMessage(WaitMessage(@, t), len)]
        /\ UNCHANGED << table, alloc, mqlist, pc, rd >>

\* The readers woken by a signal that have not run yet.
Woken(p) ==
    {t \in Task : pc[t] = "reading" /\ rd[t][1] = p /\ t \notin Range(pipe[p].lock.sq)}

ReadResumes(t) ==
    \E p \in Address :
        /\ t \in Woken(p)
        /\ pipe' = [pipe EXCEPT ![p] = TakeMessage(@, rd[t][2])]
        /\ pc' = [pc EXCEPT ![t] = "user"]
        /\ rd' = [rd EXCEPT ![t] = << NULL, 0 >>]
        /\ UNCHANGED << table, alloc, mqlist >>

Next ==
    \E t \in Task :
        \/ syscall_pipe(t)
        \/ \E name \in Name : syscall_mqopen(t, name)
        \/ \E i \in 1 .. MaxFd : syscall_dup(t, i) \/ syscall_close(t, i)
        \/ \E new \in Task : task_fork(t, new)
        \/ syscall_exit(t)
        \/ \E i \in 1 .. MaxFd, len \in 0 .. MaxLen : syscall_write(t, i, len)
        \/ \E i \in 1 .. MaxFd, len \in 1 .. MaxLen :
              ReadSleeps(t, i, len) \/ ReadAtOnce(t, i, len)
        \/ ReadResumes(t)

Spec == Init /\ [][Next]_vars

---------------------------------------------------------------------------
\* Tables, pipes, lists and program counters have their types.
TypeOK ==
    /\ table \in [Task -> Seq({ClosedFd} \cup
                               [isopen : {TRUE}, kind : {"PIPE", "MQ"},
                                access : {"READ", "WRITE"}, ptr : Address])]
    /\ \A p \in Address :
          /\ pipe[p].list \in Seq(0 .. MaxLen)
          /\ pipe[p].reader_count \in Nat /\ pipe[p].writer_count \in Nat
          /\ pipe[p].dead \in BOOLEAN
          /\ pipe[p].lock.value \in Int /\ pipe[p].lock.sq \in Seq(Task)
    /\ alloc \subseteq Address
    /\ mqlist \in Seq([name : Name, pipe : Address])
    /\ pc \in [Task -> {"none", "user", "reading", "exited"}]
    /\ rd \in [Task -> (Address \cup {NULL}) \X (0 .. MaxLen)]

\* However descriptors are made, cloned by dup and fork, closed one by one or
\* by an exit, a pipe counts exactly the open descriptors of each kind.
CountsExact ==
    /\ TypeOK
    /\ \A p \in alloc : pipe[p].dead \/
           /\ pipe[p].reader_count = Cardinality(EndsOf("READ", p))
           /\ pipe[p].writer_count = Cardinality(EndsOf("WRITE", p))

\* No open descriptor, and no sleeping reader, refers to a pipe that was
\* destroyed or freed, and mqlist leads to no freed one.
NoDanglingPipe ==
    /\ \A t \in Task : \A i \in OpenFds(t) :
          table[t][i].ptr \in alloc /\ ~ pipe[table[t][i].ptr].dead
    /\ \A t \in Task : pc[t] = "reading" =>
          \E i \in OpenFds(t) : table[t][i].ptr = rd[t][1]
    /\ \A i \in DOMAIN mqlist : mqlist[i].pipe \in alloc

\* The semaphore of a pipe counts its messages: each message is free to be
\* read or promised to one woken reader, so that a woken reader finds one
\* (kqueue_peek on an empty list would read through NULL), and no reader
\* sleeps beside a message that is promised to nobody.
MessagesCounted ==
    \A p \in alloc : pipe[p].dead \/
        LET unpromised == Len(pipe[p].list) - Cardinality(Woken(p))
            value == pipe[p].lock.value
        IN  /\ unpromised >= 0
            /\ value = unpromised - Len(pipe[p].lock.sq)
            /\ pipe[p].lock.sq # << >> => unpromised = 0

\* A name stands for one queue: mqlist never holds it twice, and never two
\* names for the same pipe.
QueueNamesUnique ==
    \A i, j \in DOMAIN mqlist :
        i # j => mqlist[i].name # mqlist[j].name /\ mqlist[i].pipe # mqlist[j].pipe
=============================================================================
