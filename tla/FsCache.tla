------------------------------ MODULE FsCache ------------------------------
(***************************************************************************)
(* The cache of inodes (fs.c): opening a path loads its inodes one after   *)
(* the other, each with a count of references and a krwlock, and reading   *)
(* and writing lock them.  Kernel code runs without interruption except    *)
(* where it sleeps, in a lock or for the disk: cpu is the task that is     *)
(* between two sleeps.                                                     *)
(*                                                                         *)
(* An inode freed while somebody still has a pointer to it is where the    *)
(* model stops (Dangling).  What a transfer reads and writes is left to    *)
(* other modules: here it is a sleep.  No system call unlinks, so that     *)
(* inodes that exist go on existing.                                       *)
(*                                                                         *)
(* A definition headed "variant" has a fault that the code does not have.  *)
(***************************************************************************)
EXTENDS KernelLocks

CONSTANTS
    Task,
    Name,
    Path,       \* sequences of names, with all their prefixes
    Stored,     \* what the disk holds at first
    Calls,      \* the calls of fs_open that tasks make
    MaxNodes,   \* bound: inodes in memory
    MaxRefs     \* bound: references to the root
ASSUME TreeAssumption ==
    /\ IsFiniteSet(Task) /\ 0 \notin Task
    /\ Path \subseteq Seq(Name) /\ << >> \in Path
    /\ \A p \in Path : \A i \in 0 .. Len(p) : SubSeq(p, 1, i) \in Path
    /\ Stored \in [Path -> {"file", "dir", "missing"}]
    /\ \A p \in Path : Stored[p] # "missing" \/ p = << >> =>
          \A i \in 0 .. Len(p) - 1 : Stored[SubSeq(p, 1, i)] = "dir"
    /\ Calls \subseteq [path : Path, create : BOOLEAN, dir : {"file", "dir", "any"},
                        then : {"keep", "close", "leak"}]
    /\ \A c \in Calls : c.create => c.dir # "any"
    /\ MaxNodes \in Nat \ {0} /\ MaxRefs \in Nat \ {0}

Node == 1 .. MaxNodes
root == 1               \* inodelist.buffer[0]
NULL == 0
Missing == "missing"    \* ~ isvalid
Junk == "junk"          \* kmalloc'ed and not yet read from the disk
Kind == {"file", "dir", Missing, Junk}

VARIABLES
    disk,       \* what each path is on the disk
    mem,        \* the inodes in memory; one with no references is free
    pc,         \* where the task is in fs_open, fs_read or fs_write
    call,       \* the arguments of fs_open and what the system call does then
    at,         \* ptr, then node
    loaded,     \* the inodes pushed to loaded
    want,       \* the lock the task has queued for
    fd,         \* the file each task has open
    cpu,
    ready       \* the tasks that are not asleep
locals == << pc, call, at, loaded, want, fd >>
vars == << disk, mem, locals, cpu, ready >>

Call == [path  : Path, create : BOOLEAN,
         dir   : {"file", "dir", "any"},    \* 0, 1 and 2
         then  : {"keep", "close", "leak"}]

\* open, opendir, mkdir, setcwd and stat, which never closes.
CallOf(path, create, dir, then) ==
    [path |-> path, create |-> create, dir |-> dir, then |-> then]
syscall_open(p, create) == CallOf(p, create, "file", "keep")
syscall_opendir(p) == CallOf(p, FALSE, "dir", "keep")
syscall_mkdir(p) == CallOf(p, TRUE, "dir", "close")
syscall_setcwd(p) == CallOf(p, FALSE, "dir", "close")
syscall_stat(p) == CallOf(p, FALSE, "any", "leak")
NoCall == CallOf(<< >>, FALSE, "any", "close")
NoWant == [node |-> NULL, op |-> "NONE"]

Blank == [path |-> << >>, refs |-> 0, kind |-> Junk, parent |-> NULL,
          lock |-> KRWLockInit, hit |-> FALSE, leaked |-> FALSE]

Init ==
    /\ disk = Stored
    /\ mem = [n \in Node |->
                 IF n = root THEN [Blank EXCEPT !.refs = 1, !.kind = "dir"] ELSE Blank]
    /\ pc = [t \in Task |-> "user"]
    /\ call = [t \in Task |-> NoCall]
    /\ at = [t \in Task |-> NULL]
    /\ loaded = [t \in Task |-> << >>]
    /\ want = [t \in Task |-> NoWant]
    /\ fd = [t \in Task |-> NULL]
    /\ cpu = NULL
    /\ ready = Task

---------------------------------------------------------------------------
(* The cache. *)

\* inode_new lists an inode with its first reference, and fs_node_close takes
\* it out with the last.
inodelist == {n \in Node : mem[n].refs > 0}

\* inodelist_get: the one with that path, if any.
Cached(path) ==
    LET found == {n \in inodelist : mem[n].path = path}
    IN  IF found = {} THEN NULL ELSE CHOOSE n \in found : TRUE

\* fs_node_close of each of ns, free when the last reference goes.
Closed(m, ns) ==
    [n \in Node |->
        LET k == Cardinality({i \in DOMAIN ns : ns[i] = n})
        IN  IF k = 0 THEN m[n]
            ELSE IF m[n].refs > k THEN [m[n] EXCEPT !.refs = @ - k]
            ELSE [Blank EXCEPT !.hit = m[n].hit]]

\* fs_close closes the inode and its parent.
FileClosed(m, n) == IF n = NULL THEN m ELSE Closed(m, << n, m[n].parent >>)

Released(m, ns) ==
    [n \in Node |-> IF n \in ns THEN [m[n] EXCEPT !.lock = KRWLockRelease(@)] ELSE m[n]]
ReleaseWakes(m, ns) == UNION {KRWLockReleaseWakes(m[n].lock) : n \in ns}

\* The inodes a task has pointers to.
Pointers(t) ==
    (Range(loaded[t]) \cup {at[t], fd[t]}
        \cup (IF fd[t] = NULL THEN {} ELSE {mem[fd[t]].parent})) \ {NULL}

Dangling == \E t \in Task : \E n \in Pointers(t) : mem[n].refs = 0

---------------------------------------------------------------------------
(* Steps. *)

\* t is at label, waits for no lock, and runs.
At(t, label) ==
    /\ pc[t] = label /\ want[t] = NoWant
    /\ t \in ready /\ cpu \in {t, NULL}

Goto(t, label) == pc' = [pc EXCEPT ![t] = label]
Return(t) == Goto(t, "user") /\ cpu' = NULL

Blocks(lock, op) ==
    IF op = "READ" THEN KRWLockReadBlocks(lock) ELSE KRWLockWriteBlocks(lock)
Entered(lock, op) ==
    IF op = "READ" THEN KRWLockReadEnter(lock) ELSE KRWLockWriteEnter(lock)
EnterWakes(lock, op) == IF op = "READ" THEN KRWLockReadWakes(lock) ELSE {}

\* krwlock_read or krwlock_write, to go on at label; a NULL inode has no lock.
Pass(t, label) ==
    Goto(t, label) /\ cpu' = t /\ UNCHANGED << mem, want, ready >>

EnterAtOnce(t, n, op, label) ==
    /\ ~ Blocks(mem[n].lock, op)
    /\ mem' = [mem EXCEPT ![n].lock = Entered(@, op)]
    /\ ready' = ready \cup EnterWakes(mem[n].lock, op)
    /\ Goto(t, label) /\ cpu' = t
    /\ UNCHANGED want

SleepInLock(t, n, op, label) ==
    /\ Blocks(mem[n].lock, op)
    /\ mem' = [mem EXCEPT ![n].lock = KRWLockEnqueue(@, t, op)]
    /\ want' = [want EXCEPT ![t] = [node |-> n, op |-> op]]
    /\ ready' = ready \ {t}
    /\ Goto(t, label) /\ cpu' = NULL

LockAndGoto(t, n, op, label) ==
    IF n = NULL THEN Pass(t, label)
    ELSE EnterAtOnce(t, n, op, label) \/ SleepInLock(t, n, op, label)

\* Back from the sleep, the lock is entered without another look.
WakeInLock(t) ==
    LET n == want[t].node
    IN  /\ want[t] # NoWant /\ t \in ready /\ cpu = NULL
        /\ mem' = [mem EXCEPT ![n].lock = Entered(@, want[t].op)]
        /\ ready' = ready \cup EnterWakes(mem[n].lock, want[t].op)
        /\ want' = [want EXCEPT ![t] = NoWant]
        /\ cpu' = t
        /\ UNCHANGED << disk, pc, call, at, loaded, fd >>

\* A transfer, to go on at label: the task sleeps until the disk is done.
TransferAndGoto(t, label) ==
    /\ Goto(t, label)
    /\ ready' = ready \ {t}
    /\ cpu' = NULL

Queued(t) == want[t] # NoWant /\ t \in Range(mem[want[t].node].lock.procq)

\* The transfer of a sleeping task is done.
DiskDone(t) ==
    /\ t \notin ready /\ ~ Queued(t)
    /\ ready' = ready \cup {t}
    /\ UNCHANGED << disk, mem, locals, cpu >>

---------------------------------------------------------------------------
(* fs_node_open. *)

OpenRoot(t, c) ==
    /\ At(t, "user")
    /\ mem[root].refs < MaxRefs
    /\ c.then = "keep" => fd[t] = NULL
    /\ mem' = [mem EXCEPT ![root].refs = @ + 1]
    /\ call' = [call EXCEPT ![t] = c]
    /\ at' = [at EXCEPT ![t] = root]
    /\ Goto(t, "loop") /\ cpu' = t
    /\ UNCHANGED << disk, loaded, want, fd, ready >>

\* The path is reached: all but its parent and grandparent are closed, and
\* fs_open locks what is left.
Reached(t) ==
    LET keep == IF Len(loaded[t]) > 2 THEN 2 ELSE Len(loaded[t])
        rest == SubSeq(loaded[t], 1, Len(loaded[t]) - keep)
    IN  /\ At(t, "loop")
        /\ mem[at[t]].path = call[t].path
        /\ mem' = Closed(mem, rest)
        /\ loaded' = [loaded EXCEPT ![t] = SubSeq(@, Len(rest) + 1, Len(@))]
        /\ Goto(t, "lockgparent") /\ cpu' = t
        /\ UNCHANGED << disk, call, at, want, fd, ready >>

Descend(t) ==
    /\ At(t, "loop")
    /\ mem[at[t]].path # call[t].path
    /\ LockAndGoto(t, at[t], "READ", "examine")
    /\ UNCHANGED << disk, call, at, loaded, fd >>

\* The inode must be a directory, or the open fails.
Examine(t) ==
    LET m == Released(mem, {at[t]})
        all == Append(loaded[t], at[t])
    IN  /\ At(t, "examine")
        /\ ready' = ready \cup ReleaseWakes(mem, {at[t]})
        /\ IF mem[at[t]].kind = "dir"
           THEN /\ mem' = m
                /\ loaded' = [loaded EXCEPT ![t] = all]
                /\ Goto(t, "child") /\ cpu' = t
                /\ UNCHANGED << call, at >>
           ELSE /\ mem' = Closed(m, all)
                /\ loaded' = [loaded EXCEPT ![t] = << >>]
                /\ at' = [at EXCEPT ![t] = NULL]
                /\ call' = [call EXCEPT ![t] = NoCall]
                /\ Return(t)
        /\ UNCHANGED << disk, want, fd >>

\* The last inode pushed to loaded, and the one before it when loaded is down to
\* the two that are kept.
parentOf(t) == IF loaded[t] = << >> THEN NULL ELSE loaded[t][Len(loaded[t])]
gparentOf(t) == IF Len(loaded[t]) < 2 THEN NULL ELSE loaded[t][1]

ChildPath(t) == SubSeq(call[t].path, 1, Len(mem[at[t]].path) + 1)

\* fs_node_child: a cached child is taken as it is, its references not counted.
ChildCached(t) ==
    /\ At(t, "child")
    /\ Cached(ChildPath(t)) # NULL
    /\ at' = [at EXCEPT ![t] = Cached(ChildPath(t))]
    /\ mem' = [mem EXCEPT ![Cached(ChildPath(t))].hit = TRUE]
    /\ Goto(t, "loop") /\ cpu' = t
    /\ UNCHANGED << disk, call, loaded, want, fd, ready >>

ChildMissed(t) ==
    /\ At(t, "child")
    /\ Cached(ChildPath(t)) = NULL
    /\ LockAndGoto(t, at[t], "READ", "missed")
    /\ UNCHANGED << disk, call, at, loaded, fd >>

\* The variant that does not look again.
CachedUnchecked(path) == NULL
CachedNow(path) == Cached(path)

\* Looked up again under the lock, which is left locked if the child is there.
ChildLoadedMeanwhile(t) ==
    /\ At(t, "missed")
    /\ CachedNow(ChildPath(t)) # NULL
    /\ at' = [at EXCEPT ![t] = Cached(ChildPath(t))]
    /\ mem' = [mem EXCEPT ![Cached(ChildPath(t))].hit = TRUE, ![at[t]].leaked = TRUE]
    /\ Goto(t, "loop") /\ cpu' = t
    /\ UNCHANGED << disk, call, loaded, want, fd, ready >>

\* The variant that does not lock the inode it is going to fill.
LoaderUnlocked == KRWLockInit
LoaderLock == KRWLockWriteEnter(KRWLockInit)

\* inode_new, locked for writing while the disk is read.
LoadChild(t) ==
    LET free == {n \in Node : mem[n].refs = 0}
        child == CHOOSE n \in free : TRUE
    IN  /\ At(t, "missed")
        /\ CachedNow(ChildPath(t)) = NULL
        /\ free # {}
        /\ mem' = [mem EXCEPT ![child] = [Blank EXCEPT !.path = ChildPath(t), !.refs = 1,
                                             !.lock = LoaderLock]]
        /\ at' = [at EXCEPT ![t] = child]
        /\ TransferAndGoto(t, "loading")
        /\ UNCHANGED << disk, call, loaded, want, fd >>

\* The inode read, the directory released and then the child.
ChildLoaded(t) ==
    LET dir == parentOf(t)
        filled == [mem EXCEPT ![at[t]].kind = disk[mem[at[t]].path]]
    IN  /\ At(t, "loading")
        /\ mem' = Released(filled, {dir, at[t]})
        /\ ready' = ready \cup ReleaseWakes(mem, {dir, at[t]})
        /\ Goto(t, "loop") /\ cpu' = t
        /\ UNCHANGED << disk, call, at, loaded, want, fd >>

---------------------------------------------------------------------------
(* fs_open, once the inodes are at hand. *)

Opened(t) == {gparentOf(t), parentOf(t), at[t]} \ {NULL}

LockForOpen(t) ==
    /\ \/ At(t, "lockgparent") /\ LockAndGoto(t, gparentOf(t), "WRITE", "lockparent")
       \/ At(t, "lockparent") /\ LockAndGoto(t, parentOf(t), "WRITE", "locknode")
       \/ At(t, "locknode") /\ LockAndGoto(t, at[t], "WRITE", "locked")
    /\ UNCHANGED << disk, call, at, loaded, fd >>

\* A missing inode is created: balloc writes the allocation pointer out.
BeginCreate(t) ==
    /\ At(t, "locked")
    /\ mem[at[t]].kind = Missing /\ call[t].create
    /\ TransferAndGoto(t, "allocated")
    /\ UNCHANGED << disk, mem, call, at, loaded, want, fd >>

\* The inode becomes valid and is written out, and its parent after it.
CreateInode(t) ==
    /\ At(t, "allocated")
    /\ mem' = [mem EXCEPT ![at[t]].kind = call[t].dir]
    /\ TransferAndGoto(t, "created")
    /\ UNCHANGED << disk, call, at, loaded, want, fd >>

\* The result is 0, whatever somebody else makes of the inode.
EndCreate(t) ==
    /\ At(t, "created")
    /\ disk' = [disk EXCEPT ![call[t].path] = call[t].dir]
    /\ call' = [call EXCEPT ![t].dir = "any"]
    /\ Goto(t, "opened") /\ cpu' = t
    /\ UNCHANGED << mem, at, loaded, want, fd, ready >>

\* Anything else changes no inode but by a transfer: truncate, for a call that
\* asks for it and whatever the result.
OpenExisting(t) ==
    /\ At(t, "locked")
    /\ ~ (mem[at[t]].kind = Missing /\ call[t].create)
    /\ \/ Goto(t, "opened") /\ cpu' = t /\ UNCHANGED ready
       \/ /\ mem[at[t]].kind # Missing
          /\ call[t].then = "keep" /\ call[t].dir = "file"
          /\ TransferAndGoto(t, "opened")
    /\ UNCHANGED << disk, mem, call, at, loaded, want, fd >>

Succeeds(t) == mem[at[t]].kind # Missing /\ call[t].dir \in {"any", mem[at[t]].kind}

\* All is unlocked, the grandparent closed, and the system call keeps the
\* inode, closes it or forgets it.  An open that fails forgets it too.
OpenReturns(t) ==
    LET linked == [Released(mem, Opened(t)) EXCEPT ![at[t]].parent = parentOf(t)]
        m == Closed(linked, << gparentOf(t) >>)
    IN  /\ At(t, "opened")
        /\ ready' = ready \cup ReleaseWakes(mem, Opened(t))
        /\ mem' = IF call[t].then = "close" THEN FileClosed(m, at[t]) ELSE m
        /\ fd' = IF call[t].then = "keep" /\ Succeeds(t) THEN [fd EXCEPT ![t] = at[t]] ELSE fd
        /\ at' = [at EXCEPT ![t] = NULL]
        /\ loaded' = [loaded EXCEPT ![t] = << >>]
        /\ call' = [call EXCEPT ![t] = NoCall]
        /\ Return(t)
        /\ UNCHANGED << disk, want >>

---------------------------------------------------------------------------
(* fs_read, fs_readdir, fs_write, fs_close and fd_table_clone. *)

BeginRead(t) ==
    /\ At(t, "user") /\ fd[t] # NULL
    /\ LockAndGoto(t, fd[t], "READ", "reading")
    /\ UNCHANGED << disk, call, at, loaded, fd >>

\* The two locks of fs_write; the variant begins with the inode.
FirstLockNode(t) == fd[t]
FirstLock(t) == mem[fd[t]].parent
SecondLock(t) == IF FirstLock(t) = fd[t] THEN mem[fd[t]].parent ELSE fd[t]

BeginWrite(t) ==
    /\ At(t, "user") /\ fd[t] # NULL
    /\ mem[fd[t]].kind = "file"
    /\ LockAndGoto(t, FirstLock(t), "WRITE", "locksecond")
    /\ UNCHANGED << disk, call, at, loaded, fd >>

LockToWrite(t) ==
    /\ At(t, "locksecond")
    /\ LockAndGoto(t, SecondLock(t), "WRITE", "writing")
    /\ UNCHANGED << disk, call, at, loaded, fd >>

Transfer(t) ==
    /\ \/ At(t, "reading") /\ TransferAndGoto(t, "read")
       \/ At(t, "writing") /\ TransferAndGoto(t, "written")
    /\ UNCHANGED << disk, mem, call, at, loaded, want, fd >>

Unlock(t) ==
    LET ns == IF pc[t] = "read" THEN {fd[t]} ELSE {fd[t], mem[fd[t]].parent} \ {NULL}
    IN  /\ At(t, "read") \/ At(t, "written")
        /\ mem' = Released(mem, ns)
        /\ ready' = ready \cup ReleaseWakes(mem, ns)
        /\ Return(t)
        /\ UNCHANGED << disk, call, at, loaded, want, fd >>

Close(t) ==
    /\ At(t, "user") /\ fd[t] # NULL
    /\ mem' = FileClosed(mem, fd[t])
    /\ fd' = [fd EXCEPT ![t] = NULL]
    /\ UNCHANGED << disk, pc, call, at, loaded, want, cpu, ready >>

\* The variant that counts the inode only.
CloneCountsInode(n) == {n}
CloneCounts(n) == {n, mem[n].parent} \ {NULL}

\* The child of a fork has the file open too.
Clone(t, child) ==
    /\ At(t, "user") /\ At(child, "user")
    /\ fd[t] # NULL /\ fd[child] = NULL
    /\ \A n \in CloneCounts(fd[t]) : mem[n].refs < MaxRefs
    /\ mem' = [n \in Node |->
                  IF n \in CloneCounts(fd[t]) THEN [mem[n] EXCEPT !.refs = @ + 1] ELSE mem[n]]
    /\ fd' = [fd EXCEPT ![child] = fd[t]]
    /\ UNCHANGED << disk, pc, call, at, loaded, want, cpu, ready >>

Next ==
    /\ ~ Dangling
    /\ \E t \in Task :
          \/ WakeInLock(t) \/ DiskDone(t)
          \/ \E c \in Calls : OpenRoot(t, c)
          \/ Reached(t) \/ Descend(t) \/ Examine(t)
          \/ ChildCached(t) \/ ChildMissed(t) \/ ChildLoadedMeanwhile(t)
          \/ LoadChild(t) \/ ChildLoaded(t)
          \/ LockForOpen(t) \/ BeginCreate(t) \/ CreateInode(t) \/ EndCreate(t)
          \/ OpenExisting(t) \/ OpenReturns(t)
          \/ BeginRead(t) \/ BeginWrite(t) \/ LockToWrite(t) \/ Transfer(t)
          \/ Unlock(t) \/ Close(t)
          \/ \E child \in Task : Clone(t, child)

Spec == Init /\ [][Next]_vars

---------------------------------------------------------------------------
\* Where a task is: outside fs_open, in fs_node_open, and in the rest of fs_open.
Idle == {"user", "reading", "read", "locksecond", "writing", "written"}
Walking == {"loop", "examine", "child", "missed", "loading"}
Opening == {"lockgparent", "lockparent", "locknode", "locked", "allocated",
            "created", "opened"}

Lock == [procq : Seq(Task), opq : Seq({"READ", "WRITE"}),
         readers : Nat, operation : Operations]
Inode == [path : Path, refs : 0 .. MaxRefs, kind : Kind, parent : Node \cup {NULL},
          lock : Lock, hit : BOOLEAN, leaked : BOOLEAN]

\* The inodes and what the tasks know have their types.
TypeOK ==
    /\ disk \in [Path -> {"file", "dir", Missing}]
    /\ mem \in [Node -> Inode]
    /\ pc \in [Task -> Idle \cup Walking \cup Opening]
    /\ call \in [Task -> Call]
    /\ at \in [Task -> Node \cup {NULL}] /\ fd \in [Task -> Node \cup {NULL}]
    /\ loaded \in [Task -> Seq(Node)]
    /\ want \in [Task -> [node : Node \cup {NULL}, op : Operations]]
    /\ cpu \in Task \cup {NULL} /\ ready \subseteq Task

\* No path has two inodes in the cache, though a task sleeps between looking
\* for a child and adding it (fs_node_child looks twice).
CacheUnique ==
    /\ TypeOK
    /\ \A m, n \in inodelist : mem[m].path = mem[n].path => m = n

\* An inode is in the cache before it is read from the disk, but whoever looks
\* at it under its lock finds it read (the loader has it locked).
FilledBeforeUse ==
    ~ Dangling =>
        \A t \in Task :
            /\ pc[t] \in {"examine", "locked"} /\ want[t] = NoWant => mem[at[t]].kind # Junk
            /\ fd[t] # NULL => mem[fd[t]].kind \in {"file", "dir"}

\* References go wrong in one way only: an inode is freed under somebody only
\* if some open took it from the cache without counting it.
FreedInUseOnlyAfterHit ==
    \A t \in Task : \A n \in Pointers(t) : mem[n].refs = 0 => mem[n].hit

\* Locks are taken from the root down, so that tasks never wait for each other
\* in a circle, unless fs_node_child has left a directory locked.
NoDeadlock ==
    \A t \in Task : Queued(t) /\ (\A n \in Node : ~ mem[n].leaked) /\ ~ Dangling =>
        \E u \in Task : u # t /\ pc[u] # "user" /\ (u \in ready \/ ~ Queued(u))
=============================================================================
