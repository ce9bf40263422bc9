# A TLA+ verification project for Eedox

Eedox (`src/README.md`) is a small UNIX-like kernel for x86: one processor,
paging, round robin preemption, system calls, an ATA disk with a minimal file
system, fork and wait, pipes and message queues.  It comes without tests.  This
directory holds TLA+ modules of its core, TLC configurations that check them on
small instances, and proofs that TLAPS checks for every value of the constants.
Paths below are relative to `src/src/` unless they say otherwise.

## The system

### How the kernel runs

All interrupt and system call entries are interrupt gates (`idt.c`,
`ihandle.s`): interrupts are off while kernel code runs, so **a system call is
one atomic step, except where it calls `task_sleep()`**.  `task_sleep` takes the
running task out of `rr_queue` and switches to the next one; the task goes on
from there when some other task or an interrupt handler has put it back with
`task_awake` and its turn has come.  Between the wake-up and the turn, other
tasks run: nearly everything that is hard in this kernel is in that gap.  The
timer preempts user code only.  There are nine calls of `task_sleep`: two in the
krwlock, one in the ksemaphore, two in the ATA driver, one in the keyboard read
and three in wait, waitpid and exit (`syscall.c`).  Every module splits an
operation exactly there.

One exception: the first fork, in `kmain`, runs with interrupts on.

### Components

| Component | State | Operations | Interacts with |
|---|---|---|---|
| semaphores, `lock.c` | value, queue of sleepers | wait, signal | run queue; used by ATA, keyboard read, pipes |
| read/write locks, `lock.c` | procq, opq, readers, operation | read, write, release | run queue; used by the file system |
| tasks and scheduler, `task.c` | rr_queue, tasklist, task_count, the fields of each task | fork, timer, sleep, awake | everything |
| wait and exit, `syscall.c` | wait, chwait, exit_status, parent | wait, waitpid, exit | tasks, descriptors |
| descriptor tables, `descriptor.c` | a table of open descriptors per task | add, dup, clone, close | pipes, queues, inodes |
| pipes, `pipe.c` | messages, two end counts, semaphore | new, read, write, close | semaphores, descriptors |
| message queues, `mq.c` | names and pipes | open | pipes |
| keyboard and stdin, `kb.c`, `syscall.c` | line buffer, input_list, reader_task, stdin_lock | key, end of line, read | semaphores, terminal |
| ATA driver, `ata.c` | the operation in progress, its buffer and task, disk_sem | read, write, interrupt | semaphores |
| inode cache and open files, `fs.c` | inodelist, reference counts, a krwlock per inode | open, close, read, write, readdir | locks, ATA, descriptors |
| on-disk file system, `fs.c` | balloc_ptr, root index, inodes, child tables | create, write, realloc, truncate, delete | ATA |
| kernel heap, `kheap.c`, `ordlist.c`, `heapwatch.c` | block headers, index of holes, watch records | alloc, free, check | everything |
| paging, `paging.c`, `bitset.c`, `syscall_sbrk` | frames, page directories, brk | map, clone, sbrk | fork, exec |
| program loading, `prog.c`, `syscall_exec` | the address space and the break of a task | load | paging, file system |
| paths, `pathbuf.c` | (pure) | parse, join, compare | file system |
| user allocator, `src/user/alloc.c`, `stdlib.c` | block headers, list of free blocks, heap_size | malloc, free | sbrk |

What is not modelled is listed, with the reasons, at the end.

### What is hard, and what makes each component correct

`PROJECT.json` lists the hazards line by line.  The main ones:

* **krwlock**: `krwlock_release` frees the lock before the waiter it wakes has
  run (`lock.c:84`); it wakes one waiter, and only when no reader is left
  counted; a wake-up loop in `krwlock_read` wakes the readers at the head.  It
  should exclude writers, lose no waiter, be free when unheld, starve nobody.
* **ksemaphore**: a permit goes to a sleeper that runs later; it should be
  neither lost nor taken by a newcomer, and sleepers should be served in order.
* **wait and exit**: two children may exit before the parent they wake runs;
  `wait` reaps `chwait` whatever zombie it found; -1 is both a status and the
  mark of a living task; orphans move to init.  Nobody should be in the run
  queue twice, be handed a child of another, reap twice, or sleep beside a
  zombie.
* **pipes and queues**: end counts change in dup, fork, close and exit; readers
  sleep and are woken for a message that newcomers see; dead queues are reopened
  or replaced.  Counts must be exact, no descriptor may outlive its pipe, a
  woken reader must find a message, names must be unique.
* **stdin and ATA**: an interrupt handler and sleeping tasks share a buffer and a
  "who waits" pointer.  A woken reader must find a line, a sleeper must have an
  interrupt to come, a transfer must be complete when it returns.
* **inode cache**: an open sleeps between looking for an inode and adding it,
  and again before the inode is read; references are counted by hand; up to three
  locks are held at once.  A path should have one inode, nobody should see it
  unread, references should match pointers, tasks should not wait in a circle.
* **kernel heap**: page-aligned blocks are cut out of the middle of holes, and
  neighbours point at each other.  Blocks should never overlap, the list of holes
  should be exact, links should agree.
* **on-disk file system**: one call is up to a dozen writes of a sector, and the
  power may go between any two; an inode moves when its data outgrows it, and
  then its directory must lead to the new place, in a table that may itself cross
  sectors; sizes are unsigned differences.  No sector should have two owners, no
  name should lead to an inode that was never written, what a write returned for
  should stay, and no read should go past its buffer.
* **paths**: "..", names and empty components in any mixture should lead where
  walking them leads, from any directory.
* **memory of a process**: frames go from hand to hand through exec, sbrk and
  fork; loader, linker symbol and sbrk must agree on where the heap begins; the
  allocator merges blocks lazily, while it searches.  Frames should be private,
  blocks should tile the heap, and what malloc returns should be mapped.

## The modules

| Module | What it is |
|---|---|
| `KernelLocks` | `lock.c` as operators on lock records; the base of all modules that sleep |
| `KernelTasks` | what `RWLock`, `Semaphore`, `Stdin` and `Ata` have in common: the tasks, where each is in its calls of the part (`pc`), and which are not asleep in it (`ready`) |
| `RWLock` | tasks that use one krwlock the way `fs.c` does |
| `FifoPermits` | abstract: permits handed over in the order of arrival |
| `Semaphore` | tasks that use one ksemaphore as a lock, as `ata.c` and `syscall_read_stdin` do; refines `FifoPermits` |
| `Tasks` | run queue, preemption, fork, exit, wait, waitpid |
| `Pipes` | descriptor tables, pipes and message queues; composes `KernelLocks` (the pipe's semaphore counts messages) |
| `Stdin` | keyboard interrupt and reads of standard input; composes `KernelLocks` (`stdin_lock`) |
| `Ata` | disk driver over an external disk; composes `KernelLocks` (`disk_sem`) |
| `Heap` | `heap_alloc` and `heap_free` over one region, with the watcher's checks |
| `FsCache` | opening, reading, writing and closing files over cached inodes; composes `KernelLocks` (a krwlock per inode) |
| `Pathbuf` | `pathbuf.c` and the resolution of paths by system calls, as pure operators beside a walk of the components |
| `FileTree` | abstract: a tree of names, which calls under way may extend, and an open or a power cut may clear |
| `FsDisk` | the file system as sectors on a disk, with power cuts; extends `Pathbuf`, refines `FileTree` |
| `UserAlloc` | `user/alloc.c` as functions from a heap to a heap |
| `Memory` | frames, page tables, the loader, sbrk and fork, and in each task the heap of `user/stdlib.c`; extends `UserAlloc` |
| `QueueLemmas` | lemmas about queues without repetitions, a ksemaphore of one permit as a mutex (`MutexSound`), and the ends and the ranks of finite sets of numbers |
| `KernelProofs` | theorems about `RWLock`, `Semaphore`, `Ata` and `Stdin` |
| `DiskProofs` | theorems about `FsDisk` and `Pathbuf` |
| `TasksProofs`, `PipesProofs`, `FsCacheProofs`, `MemoryProofs`, `HeapProofs` | theorems about `Tasks`, `Pipes`, `FsCache`, `Memory` and `Heap` |
| `MC...` | small instances for TLC |

In the component modules, a definition under the heading "variant" differs from
the code by one plausible fault.  No specification uses it; each is the witness
that some property would notice that fault (`PROJECT.json`, "mutants").

**RWLock.** `lock` is the `krwlock`; `pc` says where each task is with respect to
it, `ready` is the complement of the tasks asleep in its queue.  `ReadSleeps` and
`WriteSleeps` are the functions up to their `task_sleep`, `ReadEnters` and
`WriteEnters` the rest of them, reached at once or when a woken task runs again.
A task may stay a holder for ever long, as during disk transfers.

**Semaphore.** `Wait`, `WaitReturns` (back from `task_sleep`) and `Signal`.  A task
past the wait, or woken and not yet run, owns a permit; with that mapping each
step is a step of `FifoPermits`, or a stutter (`WaitReturns`).

**Tasks.** The head of `rr_queue` runs.  `task_timer`, `task_fork`,
`syscall_exit` (with its closing wake-up of the parent), `WaitSleeps`/`WaitReaps`
(syscall_wait around its sleep) and `syscall_waitpid`, which the code always
refuses.  A `task_t` is never freed, only what hangs off it, so a pid keeps its
fields after it is reaped.  `fault` records the memory error that the kernel
would stop with.  Sleeps in locks, disk and keyboard are left out here: they take
a task out of the run queue and put it back without touching the other fields.

**Pipes.** A message is the number of characters `strlen` finds in it, so an
empty one (a message that starts with NUL) and the rest left by a short read are
there.  `pipe` maps the addresses `kmalloc` may return to a `pipe_t`; a freed
address can be handed out again.  Closing at exit closes all entries in one step,
since nothing sleeps in between.  A reader is split at the sleep in
`ksemaphore_wait`.  Descriptors of files and of the terminal are left out of the
tables; they refer to no pipe.  `syscall_read` does not check the access of a
descriptor (it tests it with `|`, `syscall.c:336`), so write ends are read too.

**Stdin.** `keyboard_handler` is the interrupt, between any two kernel steps:
modifiers, Ctrl-D, backspace, characters, and the end of a line with its wake-up.
A read is split at its two sleeps: in `stdin_lock` (`ReadQueues`,
`ReadUnqueued`) and for a line (`ReadBegins`, `ReadAwoken`).  A line in
`input_list` is the number of characters `strlen` finds in it: shift subtracts 32
from every character (`kb.c:131`), so a shifted blank is a NUL and cuts its line.

**Ata.** `Start` (or `Queue` and `StartQueued` when `disk_sem` is taken) runs up to
the sleep of `ata_read` and `ata_write`, `Finish` is the rest, `ata_ihandler` the
interrupt.  The disk works on one command at a time and its interrupt may be
delivered late.  The busy-wait at the start of a transfer lets the disk finish the
flush of an earlier write; reading the status register there takes the interrupt
line back, which an edge-triggered controller has latched or loses: both happen
in the model.  A flush commanded while the disk is busy is ignored, as disks do
with commands they are not ready for.  `raced` remembers the transfers that began
while the disk was at work or an interrupt was pending.

**Heap.** `heap.hdr` maps the addresses of block headers to an `hheader_t`,
`heap.index` is the list of holes, `live` the records of the watcher, `halted` what
stopped the kernel.  `heap_alloc`
is one step: the best hole, the gap that an alignment cuts off below, the rest
split off above, the watcher's record and `heap_check`.  `heap_free` merges
with both neighbours.  Two quirks are kept: the list of holes is ordered when a
hole is inserted and goes stale when a hole grows by merging, so the hole taken
is not always the best; and an aligned block whose gap is no larger than a header
gives the gap away without becoming smaller (`kheap.c:194`).  What happens after
the latter depends on the data in blocks, so the model stops there.  The branch
for an aligned block at the very start of the heap is dead: the start is page
aligned.

**FsCache.** `mem` maps the addresses of inodes to an `inode_t` with its krwlock;
`inodelist` is the cache: an inode enters it with its first reference and leaves
it with its last, and which of two with one path would be found first does not
matter, since there are never two (`CacheUnique`).  `cpu` is the task that runs in the kernel: nobody else
moves until it sleeps, in a lock (`SleepInLock`, back in `WakeInLock`) or for the
disk (`TransferAndGoto`, `DiskDone`), or returns.  `fs_node_open` is the loop
`Descend`, `Examine`, then one of `ChildCached`, `ChildMissed`; the second look
under the directory's lock is `ChildLoadedMeanwhile` or `LoadChild`.  `fs_open`
goes on with `LockForOpen` to `OpenReturns`.  Several transfers in a row under the
same locks are one sleep.  A task has at most one file open.  No system call
sets `unlink`, so `inode_delete` is not reachable and not in the model.  A
reference that goes wrong ends the run of the model (`Dangling`): what follows
reads freed memory.

**Pathbuf.** A text is the sequence of what stands between its slashes.
`pathbuf_parse`, `pathbuf_join` and the others are the functions of the code,
without `is_expldir`, which nothing reads.  `Walk` is the reference: it follows
one component after the other.  `FsDisk` resolves the texts that its calls give
with them, and `PathsResolve` compares the two for every text of up to five
components.

**FsDisk.** `saved`, `rootIndex` and `disk` are the sectors, `ptr` is
`balloc_ptr`, `mem` the inodes in memory, `pc` and `op` where in a call each task
is and what it has on its stack.  Every `ata_write` is a step, and so is every
stretch between two of them; reads take place with the step that follows them,
since the inodes read are locked.  A call goes: `OpenCreate` (walks the path,
locks, allocates), `LockBalloc`, `balloc_update`, `CreateInode`, then
`inode_write` of the directory's table: `Grow`, `LockBalloc`, `balloc_update`,
`CopySector` for each old sector, `MoveInode`, the write of the new place into the
parent's table or into sector 1, `WriteSize`, `WriteSector` for each sector of
the data, `EndCreate`.  `Crash` may come at any point and leaves the sectors;
`binit`, `FetchRoot`, `FindRoot`, `WriteRoot` are `fs_init`.  The write of one
sector is atomic.  The two faults shown elsewhere are left out here: locks exclude
(`RWLock` shows where they do not), and inodes are freed only when unused
(`Evict`; `FsCache`).  A directory whose table a power cut has left half written
is not parsed again (`damaged`): what the parser would make of it depends on
the bytes.  `BeginRead` is `read` of a file or of a directory, whose type nobody
asks for; `raw` remembers the second.  `ReadDir` goes to the next NUL (`NulsAfter`,
the `strlen`) and over an index; from a position inside an entry that need not be
an entry's.  `bfree` does nothing in the code, so a moved inode leaks its sectors.

**UserAlloc and Memory.** A heap is its size, its brk, the head of the free
list and the headers at each offset; `heap_alloc` returns the heap after the call
and the block.  The search of `heap_find_best_fit` changes the heap as it goes:
it absorbs free neighbours and stretches the last block.  `Memory` counts
addresses in units; page 0 stands for the stacks.  `syscall_exec` is `prog_load`:
which pages get a frame, where the break comes to lie.  `startup`, `malloc`,
`malloc_grow` (once around malloc's loop: sbrk, `heap_expand`, and another try)
and `free` are the library's; a
program touches each block it gets.  `task_fork` copies every page of the
tables, `task_free` is all that is left of a task's memory when it is reaped: the
directory is freed, **its frames never are**, so a machine that forks and exits
runs out of them.  `halted` is a fault that the kernel stops with: a page fault in
user memory, or a frame that could not be had, where `alloc_frame` sets bit -1 of
the bitset before it tests for -1 (`paging.c:17`).  A system call is one step
(interrupts are off, and of these only exec sleeps, before it touches memory).
After the allocator has handed out a block inside a free one, the task makes no
more calls: what it does next depends on what it writes.

## What the runs show

| Run | Instance | Shows |
|---|---|---|
| `rwlock` | 4 tasks | `SleepersQueued`, `FreeWhenUnheld`, `NoLostWaiter`, `EventuallyServed` |
| `rwlock_exclusion` | 4 tasks | finds two holders, one of them a writer |
| `semaphore` | 4 tasks, 1 permit | `PermitsConserved`, `ImplementsPermits`, `EventuallyHolds` |
| `tasks` | pids 0 to 4, statuses -1 and 0 | `RunQueueSound`, `HandedChildIsZombie`, `NoSleepBesideZombie`, `ParentsSound`, `ReapsOwnZombie`, `EventuallyRuns` |
| `tasks_double_free` | the same | finds a child reaped twice |
| `pipes` | 3 tasks, 1 pipe, 2 messages of up to 2 characters; or 2 tasks, 2 names, 3 pipes; 2 descriptors each | `CountsExact`, `MessagesCounted`, `NoDanglingPipe`, `QueueNamesUnique` |
| `stdin` | 3 readers, 2 lines of up to 2 characters | `ReaderFindsLine`, `NoSleepBesideInput`, `BackspaceWithinLine`, `EventuallyRead` |
| `ata` | 3 tasks, 1 sector, 2 values | `SleeperHasInterrupt`, `QuietTransfersDone`, `EventuallyReturns` |
| `heap` | headers of 2, pages of 6, 28 addresses, 4 blocks | `IndexExact`, `BlocksOwned`, `OnlyStaleBackLink` |
| `fs_cache` | 3 tasks, a directory with a file, a file to create, 4 inodes in memory | `CacheUnique`, `FilledBeforeUse`, `FreedInUseOnlyAfterHit`, `NoDeadlock` |
| `fs_disk` | 2 tasks, 4 paths, sectors of 7 units, 15 sectors, 1 power cut; writes of 8 units up to position 16, reads of 8 and 3 | `TreeSound`, `WritesLast`, `FileOverrunOnlyWhenCut`, `DirOverrunOnlyAstray`, `PathsResolve`, `ImplementsTree` |
| `memory` | 2 tasks, 3 programs, pages of 16 units, 9 frames, heaps of up to 18 units, 5 calls of malloc and free | `FramesPrivate`, `HeapTiled`, `BlocksMapped` |

The type invariants of `RWLock`, `Semaphore`, `Tasks`, `Pipes`, `Stdin`, `Ata`, `Heap`, `FsCache`, `FsDisk`
and `Memory` are the first conjunct of one of their invariants
(`FreeWhenUnheld`, `PermitsConserved`, `RunQueueSound`, `CountsExact`, `BackspaceWithinLine`, `SleeperHasInterrupt`,
`IndexExact`, `CacheUnique`, `TreeSound`, `FramesPrivate`).

**Bounds.** Four tasks in a lock give a holder, a queue that mixes both
operations around a writer, and a newcomer; the proofs remove the bound.  In
`tasks`, five pids give init, a parent with two children, and orphans; pids are
not reused by the code, so `MaxPid` bounds the forks of a whole history.
(`MaxPid` 5 was also run once, 277 thousand states, with the same results.)  In
`pipes`, three tasks give two sleeping readers and a writer, or a woken reader
and a newcomer; two descriptors per task are both ends, or a dup of one end;
length 2 gives a message that is read in two parts.  With names, two of them and
three pipes give a dead queue that is reopened, and one that is replaced while the other lives; a replaced
dead `pipe_t` is leaked by the code, so those histories end when addresses do.
The constraint `Bounds` of its configuration keeps a history of `pipes` in one of
the two instances: a pipe shared by three tasks, with several messages, or two
tasks with queues, and at most one message in each.  In `stdin`, three readers
are one that waits or was woken, one queued, and a newcomer; two lines are one
promised and one more; length 2 splits a line between two reads.  In `ata`, one
sector and two values tell old from new; the driver does not look at the sector.
In `heap`, a header of 2 in a
page of 6 gives gaps smaller than, equal to and larger than a header, and four
blocks give two neighbours on either side of a hole.  In `fs_cache`, three tasks
are a holder, one that sleeps and one that arrives (the second look finds a child
only when three of them meet); the paths give an open with a grandparent, one
without, and the root itself; four inodes are all there are.

In `fs_disk`, a table entry takes four units of a sector's seven, so that the
second entry of a directory crosses into a second sector inside its index: its
write can be torn, and the directory moves when it is added.  Writes of eight
units make a file move twice.  Fifteen sectors are room for three nodes and
their moves; what would allocate beyond them does not begin (the code tests for no
end of the disk).  A read of three units ends inside the index of an entry, and the
table of the root grows from one entry to two; past the end of a table `strlen`
may find its NUL anywhere up to the bound on positions.  The constraint `Bounds`
keeps a history in one of two instances: files are written and the power is cut,
or one task at a time lists the root or mixes its listing with reads.  Two
tasks are what the locks let interleave: allocations, writes of different files,
and a truncation between two reads of the other task; one power cut, because a
second finds the states of a first.  In `memory`, pages of 16 units hold three
growths of a heap of 4; the programs are one of two segments, one that ends one
unit into a page and one with a short segment across a page boundary; requests
of 1, 4 and 5 units fit exactly, leave less than a header, and split; nine
frames run out; five calls are what it takes to have a block absorbed that was
already chosen.

The constants called "bound" in `Pipes`, `Tasks`, `Stdin`, `Heap`, `FsCache`,
`FsDisk`, `UserAlloc` and `Memory`, and the two constraints, are all that cuts behaviour off;
deadlock checking is off where they (or the exit of all tasks, or a fault of the machine) make the model stop.

**Fairness.** `RWLock`, `Semaphore`: weak fairness of a woken task's return from
its sleep (`Resume`, `WaitReturns`: the round robin queue runs every woken task: `Tasks!EventuallyRuns`) and of the release (the work
under a lock is a finite number of disk transfers, and the disk answers).  No
fairness of arrivals.  `Tasks`: weak fairness of the timer (a hardware clock) and
of a woken wait running to its end.  `Pipes`, `Heap`, `FsCache`,
`FsDisk` and `Memory` claim no liveness.  `Stdin`:
weak fairness of woken readers; that somebody types is not assumed but is the
premise of `EventuallyRead`.  `Ata`: weak fairness of the disk (it answers every
command), of the delivery of a pending interrupt, and of woken tasks.

## Findings

1. **krwlock does not exclude** (`rwlock_exclusion`).  A writer holds; another
   waits; the first releases, which sets `operation` to none and wakes the
   second; before it runs, a third task finds the lock free and takes it; then
   the second enters without testing again.
2. **wait reaps a child twice** (`tasks_double_free`).  Init waits; two of its
   children exit before it runs; it reaps the first.  Its next wait finds the
   second zombie but reaps `chwait`, which still points to the first.  With no
   earlier wait, `chwait` is NULL.

Things the models show that no doc contradicts: an inode taken from the cache
is not counted (`fs.c:449`), so that another task's close may free it in use
(`FreedInUseOnlyAfterHit` says that this is the only way); when the second look
of `fs_node_child` finds the child, the directory stays locked (`NoDeadlock`
leaves these states out); opens that fail, `stat` and `exec` keep their
references; readers of a pipe whose last
writer closes stay asleep; orphaned zombies do not wake init; `waitpid` always
fails (`ParentsSound` is why: it asks whether the caller is its own parent); a
shifted newline ends no line.  A disk read that begins while the flush of the last
write is under way may be woken by the flush's interrupt, and return before its
sector is there; the sector's own interrupt then writes to a buffer that the
caller may have freed.  `QuietTransfersDone` states how far `ata_read` can be
relied on: when the disk was at rest as it began.

A page-aligned block of the kernel heap that fills its hole to the end leaves the
block above pointing back to the start of the old hole: only `heap_high_split`
tells that block of its new neighbour (`kheap.c:106`), and it does nothing when no
more than a header is left.  `heap_check` at the end of the same `heap_alloc`
panics with "corrupted heap (4)".  `OnlyStaleBackLink` says that nothing else is
ever wrong with the links, and that the block below such a link is an aligned
one that fills its hole.

On the disk: a power cut in the middle of a table that takes two sectors leaves a
table whose last entry has half an index (`Damage` in `FileTree`); an open for
truncation of a directory fails and clears the directory all the same
(`Clear`); a descriptor whose file was truncated by another open has a position
past the end, and its next read copies 4 GB less a little.  For files this is the
only way (`FileOverrunOnlyWhenCut`).  For directories there is another: `read` takes
the descriptor of an `opendir` too (`syscall.c:352`, `fs.c:649`), and leaves its
position inside an entry; `inode_readdir` takes what is there for an entry
(`fs.c:165`) and may step past the end of the table, and the next one underflows.
`DirOverrunOnlyAstray` says that a listing that mixes in no `read`, of a directory
that nobody truncates, never does.  A power cut between the first `balloc` and the
first write of the root leaves sector 1 leading to an inode that is not valid,
which the next boot repairs.

In memory: a program whose image ends one unit into a page has its break one page
below `heap_beg`, and a segment that starts off a page boundary may lack its last
page; both end in a page fault, the first in malloc, and `BlocksMapped` says that
nothing else does.  The search for the best fit may absorb a block that it has
already chosen and then hand it out, inside a block that is still free: a program
that allocates small, large, frees small, then large, and allocates something
between gets memory that will be given out again (`HeapTiled` says that this is
the only way the heap comes apart).

## What is proved

Each theorem is of the form "the specification implies `[]` of the property", for
every value of the constants that satisfies the assumptions of the module.  Each
proof goes the same way: an inductive invariant (`IInv`; in modules with two
components `RWIInv`, `SemIInv`, ...) holds initially, every action keeps it (one
lemma for each action), and it implies the property.  TLC has checked every
inductive invariant on the instance of the module's run.

**`KernelProofs`, read/write locks** (any finite set of tasks): `RWTypeCorrect`, `SleepersAreQueued`,
`NoWaiterLost`, `UnheldIsFree`.  `NoLostWaiter` is not inductive: that a release
wakes a waiter depends on the count of readers, which, since exclusion fails, is
not the number of tasks that read.  `IInv` adds that the count of readers is never
above the number of holders (so that the release of the last holder frees the
lock), and that `operation` is set only while somebody holds it (so that a task
that queues itself has somebody to wake it).

**`KernelProofs`, semaphores** (any finite set of tasks, any positive number of permits):
`PermitsAreConserved`, and `SemaphoreImplementsPermits` (each step maps to a step
of `FifoPermits` or a stutter).  `IInv` is `PermitsConserved` with
`SleepersQueued`: the value of the semaphore says nothing about the tasks without
the count of owners, and the count needs that a popped task was not an owner
already.

**`TasksProofs`** (any number of pids, any integers as statuses): `RunQueueIsSound`,
`ChildHandedIsZombie`, `ExitIsNotLost`, `ParentsAreSound`, and the action property
`OnlyParentsReap`.  The four invariants rest on each other and on: pids below
`task_count` are the ones in use (`PidsInOrder`); a task leaves `tasklist` only
after its exit (`ListedUntilExit`); the idle task never leaves user code and is the
parent of init, so that init is never reaped and orphans always have a parent
(`IdleRuns`); a sleep with no child named is syscall_wait's (`WaitsForAll`); and,
the key to `OnlyParentsReap`, the `chwait` of a task in user code is not listed any
more (`ChwaitStale`), so that the `syscall_wait` that does not sleep, which reaps
`chwait` whatever zombie it found, takes nobody out of `tasklist` who is there.

**`PipesProofs`** (any finite set of tasks, any addresses, names and bounds):
`EndsAreCounted`, `MessagesAreCounted`, `NothingDangles`, `QueueNamesAreUnique`.
The counts must be related to descriptors at every address, dead and freed ones
included (`EndsCounted`), since an address is given out again and a dead queue is
reopened.  A close frees a pipe without looking at `mqlist`: that leaves no pointer
there because a descriptor to a pipe of `mqlist` is never of kind `PIPE`
(`PointersSound`); and a reader asleep keeps the pipe alive because its own
descriptor does, which nobody else can close.  `LocksSound` ties the semaphore of
each pipe to its messages, its sleepers and the readers woken and not yet run.

**`KernelProofs`, standard input** (any finite set of tasks, lines of any length, any number of
lines): `ReadersFindTheirLine`, `NobodySleepsBesideInput`,
`BackspacesStayWithinLine`.  `stdin_lock` has one permit and one task inside
(`StdinOneInside`), so that the line a reader was woken for is not taken by another, and
`reader_task` is exactly the reader asleep for a line (`ReaderAwaits`).

**`KernelProofs`, the disk driver** (any finite set of tasks, any sectors and values): `SleeperIsWoken`,
`QuietTransfersAreDone`.  `disk_sem` lets one task at a time into the driver
(`AtaOneInside`); `ata_task` is then the task asleep in a transfer
(`AtaTaskSleeps`).  `QuietSound` follows one quiet transfer: asleep, its command is
the one the disk works on or its interrupt is to come; awake, it is done and at
most the flush is left.  `RequestsGood` is what a late interrupt may have done to
the buffer of a task that waits or has gone on.

**`FsCacheProofs`** (any finite set of tasks, any tree with any files in it, any
calls of the five system calls that open, any number of inodes in memory):
`CacheIsUnique`, `InodesFilledBeforeUse`, `FreedOnlyAfterHit`, `NeverDeadlocked`.
None of the four is inductive, and they need each other.  `IInv` says, as long as
nothing was freed in use:

* what a task has is what its path says (`Shape`, `PathsFit`): the inodes in
  `loaded` are those of consecutive prefixes of the path, the inode it is at is the
  next, and the parent of an open file is its directory;
* a krwlock counts no more readers than there are tasks inside, is taken only
  while somebody is, and somebody sleeps in it only behind a task that is inside
  or was woken to come (`LocksSound`), unless `fs_node_child` left it locked.  Who
  is inside is read off where each task is (`Holds`);
* an inode that is not yet read is locked for writing by the task that loads
  it, which is alone inside, and nobody was woken to come in (`JunkLocked`): so
  that whoever is inside finds it read (`KindsRead`);

and, even then, that an inode never taken from the cache by `fs_node_child` has a
reference for each pointer a task has to it, and the root one more (`RefsCounted`).
`NeverDeadlocked` follows: a task that sleeps in a lock is inside only locks of
inodes with shorter paths (`Deeper`), so that a sleeper whose inode is deepest is
behind a task that does not sleep in a lock.  `krwlock` does not exclude (Finding
1), and the proof does not need it to: it counts who is inside.

**`MemoryProofs`** (any finite set of tasks, any sizes of pages, frames and the
kernel, any programs of finitely many segments, any requests): `FramesArePrivate`.
`FramesPrivate` needs beside it that the kernel's frames are marked, so that
`alloc_frame` gives none of them away, and that breaks and heap sizes are numbers,
so that a call asks for finitely many frames (`UsersSound`).  `FrameFor` gives the
pages of one call frames by their rank among those that are free; that different
pages get different ones is `RankIncreases` and `RankOnto` of `QueueLemmas`.  The
rest is that exec, startup and sbrk map only pages that lack a frame, that the
copies of `task_fork` are as many as the pages of the parent, and that the calls of
the allocator touch neither.

**`HeapProofs`** (any sizes of headers and of a page-aligned heap, any pages larger
than two headers, any sequence of calls of any sizes): `Invariance`,
`NoBlockIsLost`, `ListIsExact`, `OneFault`.  While the kernel runs,

* each block ends where another begins or at the end of the heap, and no block
  begins inside another (`Tiled`);
* each points back to the one that ends where it begins (`Linked`);
* no hole ends where another begins (`HolesApartBut`: while `heap_free` is under way,
  the hole it just made may);
* the list has each hole once (`Listed`), though it is not in order;
* every other block has one record of the watcher, with the size that was asked
  for and at most a header to spare (`Recorded`).

A split puts a header where there was none and moves one back-pointer
(`SplitTiled`, `SplitLinked`); a merge takes one away (`MergeTiled`).  An aligned
block has two cases.  If the rest of its hole is larger than a header, both splits
happen and all is as before; if not, the block above keeps pointing to the start
of the hole, and that is all that is wrong then (`Stale`): `OneFault`.  That no two
holes are neighbours is what merging is for, and it is also what bounds the list:
there is at most one hole after each block, and one at the start (`ListIsExact`).
`heap_check` walks the chain of headers by recursion: that it meets every block
follows from the equation of the walk, of which the set of the headers that are
not below an address is a solution (`WalkMeetsAll`).  Where a gap no larger than a
header is given away (`kheap.c:194`), the model stops ("gap absorbed"), and nothing is
claimed of what comes after.

**`DiskProofs`, paths** (any names, any directories and texts of any length):
`PathsAlwaysResolve`.  `Misread` is a matter of operators alone, but both
`pathbuf_parse` and `Walk` are iterations over the text, so that the proof is an
induction over its length (`UpTo`).  `pathbuf_parse` starts without knowing where
the text will be resolved: it counts the ".." that lead above its start and keeps
what is left (`Parsed`).  What relates the two (`Agree`) is that going up that often
from where the walk starts, and then down what is left, is where the walk is after
as many components (`AgreeStep`).  `Upward` says what going up `n` times does, the
root being its own parent; `StringifyWalks` that the text of a directory leads back
to it, from which follow `getcwd` and the second try of `exec`.

**`DiskProofs`, positions** (any numbers of tasks and sectors, any tree of paths, any
opens, lengths and bounds): `Invariance`, `FileOverrunsNeedACut`.  `inode_read` takes
the difference of the size and the position without asking which is larger.  That
the size is, at every read of a file through a descriptor that was not cut, is kept
by every call for a reason of its own, which `IInv` states part by part.  Of the
positions in directories it says nothing: `read` leaves them anywhere, and so does
the `fs_readdir` after it.  The invariant also has that directories hold whole
entries (`GoodInode`): an entry is added with `from = 0` and units that are a whole
table (`CallFits`), and `WriteSize` keeps that.  What a task is
in the middle of, it has locked, and finds as it was when it began, at each stage of
a write (`CallFits`, `LocksApart`), so that the position a write leaves is at most
the size it wrote.  An inode that is open stays valid, and gets smaller only in
`inode_truncate`, which is where the others' descriptors are cut.  After a read
that went past its buffer no call begins, and those under way do not touch the inode
that was read (`Overran`), so that the reason stays to be seen.  An open walks a path from the
root through inodes in memory and on the disk (`Loaded`); `PathRecursion` says that
such a walk exists for a set of paths closed under prefixes.  The proof uses nothing
of what the tables on the disk lead to.

**Lemmas.**  `QueueLemmas` says what pushing to, popping from and dropping from a
queue does to its range, its length and the absence of repetitions, what wait and
signal do to a mutex, that a finite set of numbers has ends (`SetEnds`), and
that the ranks of its members are all numbers below its size (`RankBounds`,
`RankIncreases`, `RankOnto`).  `PipesProofs` has the same for tables of descriptors
and counts over them, `HeapProofs` for insertion into and removal from the middle
of a list, and for distances to the next page boundary.  All are proved from the
definitions.  Induction is by a least element: `UpTo` of `DiskProofs` from the ends
of a finite set, the others from the well-foundedness of the order on the naturals,
and the deepest sleeper from that of strict inclusion on finite sets.

**Assumptions.**  There are finitely many tasks; `NULL` is not a task
(`KernelTasks`); at least one permit (`Semaphore`); statuses are integers and there
is at least the pid of init (`Tasks`); every file on the disk lies in a directory,
and only opens that say what to create create (`FsCache`); a line holds at least
one character (`Stdin`); programs have at least one segment, finitely many of them,
none in page 0, and there are two frames more than the kernel's (`Memory`); sizes
are positive, a page is larger than two headers, and the heap begins at a page
boundary, as `link.ld` and `heap_init` place it (`Heap`); a name is neither "..",
"." nor empty (`Pathbuf`); with each path its prefixes are paths, and the units of a
table can be told apart (`FsDisk`); bounds are natural numbers.  No module declares a RECURSIVE operator.

**Left to TLC.**

* Liveness (TLAPS does not handle ENABLED): `EventuallyServed`, `EventuallyHolds`,
  `EventuallyRuns`, `EventuallyRead`, `EventuallyReturns`.
* `HeapTiled` and `BlocksMapped` of `Memory` rest on what `heap_find_best_fit` finds.
  Its search is a recursive function of the whole heap, which it changes as it
  goes; that such a function exists at all is an induction over the list.
* `TreeSound`, `WritesLast` and `ImplementsTree` of `FsDisk`: what a table says is
  parsed from sectors by recursion, one record after the other, and what a directory
  leads to while its table is half written is the point of all three.
* `DirOverrunOnlyAstray`: that a NUL follows each name, and an index that, is again
  a matter of what is in the table's sectors, and of whose they are.

## Plan

The modules planned are written, and every safety property of the modules other
than `Memory` and `FsDisk` is proved; of `Memory`, the one about frames is, and of
`FsDisk`, those about paths and about positions in files.  What is left to prove is what the
last list above names.

## Not modelled

* `kqueue.c`, `vec.c`, `kstring.c`, `kutil.c`, `util.c`: sequential containers and
  library functions; TLA+ sequences stand for them.
* `terminal.c`, `trace.c`: output, formatting, and a symbol table for panics.
* `gdt.c`, `idt.c`, the assembly, `main.c` but for what maps the first pages:
  hardware set-up.  What matters of it, that interrupts are off in the kernel, is
  an assumption of every module.
* The first fork, made in `kmain` with interrupts on, is not interleaved; entries
  of reaped tasks in `tasklist`, which are NULL and are dereferenced by the loops
  over it, are entries that match nothing (low memory is mapped and holds no
  pointer to a task).
* `inode_delete`, `childtable_remove`, `childtable_edit_name`: no system call
  unlinks or renames.  `free_frame`: called by nobody.
* `heap_realloc` and the library's `realloc`: no program that is built calls them.
  (The loop at `src/user/alloc.c:299` absorbs free blocks and leaves them in the
  list, as the variant `AbsorbUnlisted` does, which `HeapTiled` notices; it absorbs
  the unused memory above the last block, and copies from the new block to the old
  one.)  `llist.c`: the shell's list of
  characters and words, private to one program.
* The kernel's own memory for page tables, the attributes of pages, and the
  arguments that exec puts on the stack.
* The user programs: the models let a task make the calls that are modelled in any
  order, so that what the programs do with these is among it.  A program that
  calls `sbrk` itself is not: none that is built does, and `Memory` moves the break
  only as `startup` and `malloc` do.
* The host-side scripts that build and dump the disk image.
