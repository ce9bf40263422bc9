------------------------------- MODULE FsDisk -------------------------------
(***************************************************************************)
(* The file system on the disk (fs.c): a tree of inodes, each followed by  *)
(* the sectors of its data, and what a power cut leaves of it.             *)
(*                                                                         *)
(* Sector 0 holds the allocation pointer and sector 1 the sector of the    *)
(* root.  A directory's data is its table: for each child its name, a NUL  *)
(* and the sector of its inode, across sector boundaries.  A call that     *)
(* changes the disk is a sequence of writes of one sector, each a step, and *)
(* the power may go between any two.  An inode in memory is a copy of the  *)
(* one on the disk, kept as long as somebody uses it and maybe longer.     *)
(*                                                                         *)
(* The inodes a call has locked for writing are its own until it is done:  *)
(* here the krwlocks exclude (RWLock shows where they fail to), and the    *)
(* counts of references are right (FsCache shows where they are not).      *)
(* A table damaged by a power cut is not read again: what would be parsed  *)
(* from it is no longer a table.                                           *)
(*                                                                         *)
(* A definition headed "variant" has a fault that the code does not have.  *)
(***************************************************************************)
EXTENDS Pathbuf

CONSTANTS
    Task,
    Path,           \* sequences of names, one number each, with all their prefixes
    Byte,           \* what files are filled with
    SECTOR_SIZE,
    Radix,          \* of the two units that an index takes in a table
    Opens,          \* the calls of open, opendir and mkdir that tasks make
    Reads, Writes,  \* how much tasks read and write
    MaxSector,      \* bound: the last sector of the disk
    MaxPos,         \* bound: the position of a descriptor
    MaxCrashes      \* bound: power cuts
ASSUME DiskAssumption ==
    /\ << >> \in Path /\ Path \subseteq Seq(Name)
    /\ \A p \in Path : \A i \in 0 .. Len(p) : SubSeq(p, 1, i) \in Path
    /\ \A n \in Name \cup {Byte} : n \in Nat /\ n >= Radix
    /\ SECTOR_SIZE \in Nat \ {0} /\ Radix \in Nat \ {0, 1}
    /\ MaxSector \in Nat /\ MaxSector < Radix * Radix
    /\ Opens \subseteq [cwd : Seq(Name), text : Seq(Name \cup {Up, Here, Empty}),
                       how : {"open", "create", "truncate", "opendir", "mkdir"}]
    /\ Reads \cup Writes \subseteq Nat \ {0} /\ MaxPos \in Nat /\ MaxCrashes \in Nat

FS_START_SECTOR == 2
Sector == FS_START_SECTOR .. MaxSector
NUL == 0
Root == << >>
NoPath == << NUL >>     \* no name is NUL
Zeros == [k \in 1 .. SECTOR_SIZE |-> NUL]

VARIABLES
    saved,      \* sector 0
    rootIndex,  \* sector 1
    disk,       \* the other sectors: an inode or units of data
    ptr,        \* balloc_ptr
    mem,        \* the inodes in memory
    phase,      \* how far the system has booted
    pc,         \* where each task is
    op,         \* the call each task is in
    fd,         \* the file or directory each task has open
    overrun,    \* the tasks whose inode_read went past the end of the data
    crashes,
    damaged,    \* history: the directories that a power cut left half written
    synced,     \* history: the units of each file that writes returned for
    tree        \* history: what each path is, as the disk has it (treeOnDisk)
onDisk == << saved, rootIndex, disk >>
inCore == << ptr, phase, mem, pc, op, fd, overrun >>
ghosts == << crashes, damaged, synced >>
vars == << onDisk, inCore, ghosts, tree >>

---------------------------------------------------------------------------
(* Inodes, their data and their tables. *)

Inode == [isvalid : BOOLEAN, index : Nat, size : Nat, alloc : Nat,
          child_count : Nat, type : {"file", "dir", "not cached"}]
Invalid == [isvalid |-> FALSE, index |-> 0, size |-> 0, alloc |-> 0,
            child_count |-> 0, type |-> "file"]
NotCached == [Invalid EXCEPT !.type = "not cached"]
Blank == [inode |-> Invalid, units |-> Zeros]

NewInode(type, index) ==
    [Invalid EXCEPT !.isvalid = TRUE, !.type = type, !.index = index]

OfInode(node) == [inode |-> node, units |-> Zeros]
OfData(units) == [inode |-> Invalid, units |-> units]

\* inode_update: the inode goes to the sector it says it is in.
Updated(d, node) == [d EXCEPT ![node.index] = OfInode(node)]

inode_fetch(index) == IF index \in Sector THEN disk[index].inode ELSE Invalid

\* Sector i, from 0, of a node's data.
DataSector(node, i) == node.index + 1 + i
UnitsAt(node, i) == disk[DataSector(node, i)].units

Contents[node \in Inode] ==
    SubSeq([k \in 1 .. node.alloc * SECTOR_SIZE |->
                UnitsAt(node, (k - 1) \div SECTOR_SIZE)[((k - 1) % SECTOR_SIZE) + 1]],
           1, node.size)

\* memcpy of units over the sector read before.
Overlaid(node, i, from, units) ==
    [k \in 1 .. SECTOR_SIZE |->
        LET at == i * SECTOR_SIZE + k - from
        IN  IF at \in 1 .. Len(units) THEN units[at] ELSE UnitsAt(node, i)[k]]

\* childtable_find: from one record to the next, over a name, its NUL and an
\* index, to the name; 0 for NULL.
NulFrom(table, i) ==
    CHOOSE j \in i .. Len(table) + 1 : /\ j > Len(table) \/ table[j] = NUL
                                       /\ \A k \in i .. j - 1 : table[k] # NUL
RecordFrom[table \in Seq(Nat), name \in Name, i \in Nat] ==
    IF i > Len(table) THEN 0
    ELSE IF SubSeq(table, i, NulFrom(table, i) - 1) = << name >> THEN i
    ELSE RecordFrom[table, name, NulFrom(table, i) + 3]
childtable_find(table, name) == RecordFrom[table, name, 1]

IndexUnits(index) == << index % Radix, index \div Radix >>

childtable_get[table \in Seq(Nat), name \in Name] ==
    LET i == childtable_find(table, name)
    IN  IF i = 0 THEN 0 ELSE table[i + 2] + Radix * table[i + 3]

childtable_add(table, name, index) == table \o << name, NUL >> \o IndexUnits(index)

childtable_edit_index(table, name, index) ==
    LET i == childtable_find(table, name)
    IN  IF i = 0 THEN table
        ELSE [table EXCEPT ![i + 2] = IndexUnits(index)[1], ![i + 3] = IndexUnits(index)[2]]

---------------------------------------------------------------------------
(* inode_calculate_operation_bounds, for count units from a position. *)

SectorFrom(from) == from \div SECTOR_SIZE
SectorTo(from, count) == (from + count - 1) \div SECTOR_SIZE + 1
SectorOverflow(node, from, count) ==
    IF SectorTo(from, count) > node.alloc THEN SectorTo(from, count) - node.alloc ELSE 0
BytesOverflow(node, from, count) ==
    IF from + count > node.size THEN from + count - node.size ELSE 0

\* Differences are unsigned: one below zero is a very large number.
Huge == Radix * Radix * SECTOR_SIZE
Unsigned(n) == IF n < 0 THEN Huge + n ELSE n

\* The variant that gives all that is left of the file.
BytesReadToEnd(node, from, count) == Unsigned(node.size - from)
BytesRead(node, from, count) ==
    IF from + count > node.size THEN Unsigned(node.size - from) ELSE count

---------------------------------------------------------------------------
(* The tree on the disk, as a reader of the whole of it finds it. *)

\* The data a task is in the middle of writing, and to which inode.
Relocating(t) == pc[t] = "reloc"
Target(t) == IF Relocating(t) THEN Front(op[t].path) ELSE op[t].path
TargetFrom(t) == IF Relocating(t) THEN 0 ELSE op[t].from
TargetUnits(t) == IF Relocating(t) THEN op[t].table ELSE op[t].units
TableBefore(t) ==
    IF Relocating(t) THEN op[t].before ELSE SubSeq(op[t].units, 1, Len(op[t].units) - 4)
Writing(t, p) == pc[t] \in {"reloc", "data"} /\ Target(t) = p

\* A table that is half written counts as it was before.
TableOf(p, node) ==
    LET torn == {t \in Task : Writing(t, p) /\ Contents[node] # TargetUnits(t)}
    IN  IF torn = {} THEN Contents[node] ELSE TableBefore(CHOOSE t \in torn : TRUE)

ChildOnDisk[node \in Inode, p \in Path] ==
    IF node.isvalid /\ node.type = "dir" /\ Front(p) \notin damaged
    THEN childtable_get[TableOf(Front(p), node), Last(p)] ELSE 0
IndexOnDisk ==
    LET At[p \in Path] == IF p = Root THEN rootIndex
                          ELSE ChildOnDisk[inode_fetch(At[Front(p)]), p]
    IN  At

Named == {p \in Path \ {Root} : IndexOnDisk[p] # 0}
InodeOnDisk(p) == inode_fetch(IndexOnDisk[p])
SectorsOf(node) == node.index .. node.index + node.alloc

treeOnDisk ==
    LET index == IndexOnDisk
    IN  [p \in Path |-> IF p = Root THEN "dir"
                        ELSE IF index[p] = 0 THEN "none" ELSE inode_fetch(index[p]).type]

---------------------------------------------------------------------------
(* Booting: fs_init. *)

NoOp == [path |-> Root, from |-> 0, units |-> << >>, add |-> FALSE, i |-> 0,
         index |-> 0, sectors |-> 0, value |-> 0, then |-> "none",
         table |-> << >>, before |-> << >>,
         opened |-> Root, held |-> {}]

\* What a task has open; history: whether its inode was truncated since, and
\* whether read() was called on it, a directory.
NoFd == [path |-> NoPath, pos |-> 0, cut |-> FALSE, raw |-> FALSE]

All(S, value) == [x \in S |-> value]

Init ==
    /\ saved = 0 /\ rootIndex = 0
    /\ disk = All(Sector, Blank)
    /\ ptr = 0 /\ phase = "off" /\ overrun = {}
    /\ mem = All(Path, NotCached)
    /\ pc = All(Task, "user") /\ op = All(Task, NoOp) /\ fd = All(Task, NoFd)
    /\ crashes = 0 /\ damaged = {}
    /\ synced = All(Path, {})
    /\ tree = treeOnDisk

\* A blank disk is given an allocation pointer,
binit ==
    /\ phase = "off"
    /\ saved' = IF saved = 0 THEN FS_START_SECTOR ELSE saved
    /\ ptr' = saved'
    /\ phase' = "binit"
    /\ UNCHANGED << rootIndex, disk, mem, pc, op, fd, overrun, ghosts >>

\* a place for the root,
FetchRoot ==
    /\ phase = "binit"
    /\ rootIndex' = IF rootIndex = 0 THEN FS_START_SECTOR ELSE rootIndex
    /\ phase' = "root"
    /\ UNCHANGED << saved, disk, ptr, mem, pc, op, fd, overrun, ghosts >>

\* and a root, if there is none.
FindRoot ==
    LET node == inode_fetch(rootIndex)
    IN  /\ phase = "root"
        /\ IF node.isvalid
           THEN /\ mem' = [mem EXCEPT ![Root] = node]
                /\ phase' = "up"
                /\ UNCHANGED << saved, ptr >>
           ELSE /\ ptr <= MaxSector
                /\ mem' = [mem EXCEPT ![Root] = NewInode("dir", ptr)]
                /\ ptr' = ptr + 1
                /\ saved' = ptr'
                /\ phase' = "newroot"
        /\ UNCHANGED << rootIndex, disk, pc, op, fd, overrun, ghosts >>

WriteRoot ==
    /\ phase = "newroot"
    /\ disk' = Updated(disk, mem[Root])
    /\ phase' = "up"
    /\ UNCHANGED << saved, rootIndex, ptr, mem, pc, op, fd, overrun, ghosts >>

\* A table on the disk that is neither what it was nor what it was to be.
HalfWritten ==
    {p \in Named \cup {Root} :
        \E t \in Task : /\ Writing(t, p)
                        /\ InodeOnDisk(p).type = "dir"
                        /\ Contents[InodeOnDisk(p)] \notin {TargetUnits(t), TableBefore(t)}}

Crash ==
    /\ phase # "off" /\ crashes < MaxCrashes
    /\ ptr' = 0 /\ phase' = "off" /\ overrun' = {}
    /\ mem' = All(Path, NotCached)
    /\ pc' = All(Task, "user") /\ op' = All(Task, NoOp) /\ fd' = All(Task, NoFd)
    /\ crashes' = crashes + 1
    /\ damaged' = damaged \cup HalfWritten
    /\ UNCHANGED << onDisk, synced >>

---------------------------------------------------------------------------
(* fs_open: the path is walked, its last three inodes are locked. *)

Held(t) == IF pc[t] = "user" THEN {} ELSE op[t].held
Free(ps) == \A t \in Task : Held(t) \cap ps = {}

\* t is in no call and no other call has locked any of ps for writing.
MayBegin(t, ps) ==
    /\ phase = "up" /\ overrun = {}
    /\ pc[t] = "user"
    /\ Free(ps)

IsDir(node) == node.isvalid /\ node.type = "dir"

\* fs_node_child: the inode in memory, or the one its directory leads to.
Loaded ==
    LET At[p \in Path] ==
            IF mem[p] # NotCached THEN mem[p]
            ELSE LET dir == At[Front(p)]
                 IN  IF IsDir(dir)
                     THEN inode_fetch(childtable_get[Contents[dir], Last(p)])
                     ELSE NotCached
    IN  At

Walked(p) == [q \in Path |-> IF q \in Prefixes(p) THEN Loaded[q] ELSE mem[q]]
Reached(p) == \A q \in Prefixes(p) \ {p} : IsDir(Loaded[q])

BeginOpen(t, p) ==
    /\ MayBegin(t, Prefixes(p))
    /\ (Prefixes(p) \ {p}) \cap damaged = {}
    /\ fd[t] = NoFd

Creates(how) == how \in {"create", "mkdir"}
TypeFor(how) == IF how \in {"opendir", "mkdir"} THEN "dir" ELSE "file"
FdAt(p) == [NoFd EXCEPT !.path = p]

OpenPlain(t, p, how) ==
    LET node == Loaded[p]
        opened == Reached(p) /\ node.isvalid /\ node.type = TypeFor(how)
    IN  /\ BeginOpen(t, p)
        /\ how = "truncate" \/ Creates(how) => ~ Reached(p) \/ node.isvalid # (how = "truncate")
        /\ mem' = Walked(p)
        /\ fd' = IF opened /\ how # "mkdir" THEN [fd EXCEPT ![t] = FdAt(p)]
                 ELSE fd
        /\ UNCHANGED << onDisk, ptr, phase, pc, op, overrun, ghosts >>

Locked(p) == {SubSeq(p, 1, i) : i \in {j \in 0 .. Len(p) : j + 2 >= Len(p)}}

\* The inode is truncated whatever its type, and the open may fail all the same.
OpenTruncate(t, p, how) ==
    /\ how = "truncate"
    /\ BeginOpen(t, p) /\ Reached(p) /\ Loaded[p].isvalid
    /\ mem' = Walked(p)
    /\ op' = [op EXCEPT ![t] = [NoOp EXCEPT !.path = p, !.held = Locked(p)]]
    /\ pc' = [pc EXCEPT ![t] = "truncate"]
    /\ UNCHANGED << onDisk, ptr, phase, fd, overrun, ghosts >>

Goto(t, label) == pc' = [pc EXCEPT ![t] = label]
Set(t, o) == op' = [op EXCEPT ![t] = o]
Return(t) == Goto(t, "user") /\ Set(t, NoOp)

inode_truncate(t) ==
    LET p == op[t].path
        node == [mem[p] EXCEPT !.alloc = 0, !.size = 0]
        open == IF node.type = "file" THEN [fd EXCEPT ![t] = FdAt(p)] ELSE fd
    IN  /\ pc[t] = "truncate"
        /\ mem' = [mem EXCEPT ![p] = node]
        /\ disk' = Updated(disk, node)
        /\ fd' = [u \in Task |-> IF u # t /\ fd[u].path = p
                                 THEN [fd[u] EXCEPT !.cut = TRUE] ELSE open[u]]
        /\ synced' = [synced EXCEPT ![p] = {}]
        /\ Return(t)
        /\ UNCHANGED << saved, rootIndex, ptr, phase, overrun, crashes, damaged >>

---------------------------------------------------------------------------
(* balloc and balloc_update, to go on at op.then. *)

Balloc(t, o, size, then) ==
    /\ ptr + size <= MaxSector + 1
    /\ ptr' = ptr + size
    /\ Set(t, [o EXCEPT !.index = ptr, !.then = then])
    /\ Goto(t, "balloc")

\* Under balloc_lock: the pointer as it is when the lock is had.
LockBalloc(t) ==
    /\ pc[t] = "balloc"
    /\ \A u \in Task : pc[u] # "saving"
    /\ Set(t, [op[t] EXCEPT !.value = ptr])
    /\ Goto(t, "saving")
    /\ UNCHANGED << onDisk, ptr, phase, mem, fd, overrun, ghosts >>

\* The variant that leaves the pointer on the disk as it was.
balloc_not_updated(t) == saved
balloc_updated(t) == op[t].value

balloc_update(t) ==
    /\ pc[t] = "saving"
    /\ saved' = balloc_updated(t)
    /\ Set(t, [op[t] EXCEPT !.value = 0, !.then = "none"])
    /\ Goto(t, op[t].then)
    /\ UNCHANGED << rootIndex, disk, ptr, phase, mem, fd, overrun, ghosts >>

---------------------------------------------------------------------------
(* inode_create. *)

OpenCreate(t, p, how) ==
    /\ BeginOpen(t, p) /\ Reached(p) /\ ~ Loaded[p].isvalid
    /\ Creates(how)
    /\ mem' = [Walked(p) EXCEPT ![p] = NewInode(TypeFor(how), 0)]
    /\ Balloc(t, [NoOp EXCEPT !.path = p, !.opened = p, !.held = Locked(p)], 1, "create")
    /\ UNCHANGED << onDisk, phase, fd, overrun, ghosts >>

\* inode_write once there is room: the size, then the data.
AfterGrowth(node, o) ==
    IF BytesOverflow(node, o.from, Len(o.units)) > 0 THEN "size" ELSE "data"
InodeWrite(node, o) ==
    IF SectorOverflow(node, o.from, Len(o.units)) > 0 THEN "grow" ELSE AfterGrowth(node, o)

\* The inode is written, and an entry for it is to be added to its parent.
CreateInode(t) ==
    LET p == op[t].path
        child == [mem[p] EXCEPT !.index = op[t].index]
        dir == [mem[Front(p)] EXCEPT !.child_count = @ + 1]
        o == [op[t] EXCEPT !.path = Front(p), !.add = TRUE, !.index = 0,
                  !.units = childtable_add(Contents[dir], Last(p), child.index)]
    IN  /\ pc[t] = "create"
        /\ mem' = [mem EXCEPT ![p] = child, ![Front(p)] = dir]
        /\ disk' = Updated(disk, child)
        /\ synced' = [synced EXCEPT ![p] = {}]
        /\ Set(t, o) /\ Goto(t, InodeWrite(dir, o))
        /\ UNCHANGED << saved, rootIndex, ptr, phase, fd, overrun, crashes, damaged >>

---------------------------------------------------------------------------
(* inode_realloc: the inode moves to where there is room for its data. *)

Node(t) == mem[op[t].path]

\* The variant that copies nothing.
CopyNothing(t) == "move"
FirstCopy(t) == IF Node(t).alloc = 0 THEN "move" ELSE "copy"

Grow(t) ==
    LET sectors == Node(t).alloc
                     + SectorOverflow(Node(t), op[t].from, Len(op[t].units))
    IN  /\ pc[t] = "grow"
        /\ Balloc(t, [op[t] EXCEPT !.sectors = sectors], sectors + 1,
                  FirstCopy(t))
        /\ UNCHANGED << onDisk, phase, mem, fd, overrun, ghosts >>

\* The variant that copies all sectors but the last.
CopyAllButLast(t) == op[t].i + 2 < Node(t).alloc
CopyMore(t) == op[t].i + 1 < Node(t).alloc

CopySector(t) ==
    LET i == op[t].i
    IN  /\ pc[t] = "copy"
        /\ disk' = [disk EXCEPT ![op[t].index + 1 + i] = OfData(UnitsAt(Node(t), i))]
        /\ IF CopyMore(t)
           THEN Set(t, [op[t] EXCEPT !.i = @ + 1]) /\ UNCHANGED pc
           ELSE Set(t, [op[t] EXCEPT !.i = 0]) /\ Goto(t, "move")
        /\ UNCHANGED << saved, rootIndex, ptr, phase, mem, fd, overrun, ghosts >>

\* The inode is written in its new place, and its parent is to lead there.
MoveInode(t) ==
    LET p == op[t].path
        node == [Node(t) EXCEPT !.index = op[t].index, !.alloc = op[t].sectors]
        table == Contents[mem[Front(p)]]
        moved == [op[t] EXCEPT !.index = 0, !.sectors = 0]
    IN  /\ pc[t] = "move"
        /\ mem' = [mem EXCEPT ![p] = node]
        /\ disk' = Updated(disk, node)
        /\ IF p = Root THEN Set(t, moved) /\ Goto(t, "rootindex")
           ELSE /\ Set(t, [moved EXCEPT !.before = table,
                              !.table = childtable_edit_index(table, Last(p), node.index)])
                /\ Goto(t, IF table = << >> THEN "relocated" ELSE "reloc")
        /\ UNCHANGED << saved, rootIndex, ptr, phase, fd, overrun, ghosts >>

\* The root's place is in sector 1.
WriteRootIndex(t) ==
    /\ pc[t] = "rootindex"
    /\ rootIndex' = mem[Root].index
    /\ Goto(t, AfterGrowth(Node(t), op[t]))
    /\ UNCHANGED << saved, disk, ptr, phase, mem, op, fd, overrun, ghosts >>

\* inode_child_set ends with the parent's inode, which is as it was.
WriteParent(t) ==
    /\ pc[t] = "relocated"
    /\ disk' = Updated(disk, mem[Front(op[t].path)])
    /\ Set(t, [op[t] EXCEPT !.table = << >>, !.before = << >>])
    /\ Goto(t, AfterGrowth(Node(t), op[t]))
    /\ UNCHANGED << saved, rootIndex, ptr, phase, mem, fd, overrun, ghosts >>

---------------------------------------------------------------------------
(* The rest of inode_write, and the ends of the calls. *)

WriteSize(t) ==
    LET node == [Node(t) EXCEPT
                    !.size = @ + BytesOverflow(Node(t), op[t].from, Len(op[t].units))]
    IN  /\ pc[t] = "size"
        /\ mem' = [mem EXCEPT ![op[t].path] = node]
        /\ disk' = Updated(disk, node)
        /\ Goto(t, "data")
        /\ UNCHANGED << saved, rootIndex, ptr, phase, op, fd, overrun, ghosts >>

\* A call of fs_write is done: the position moves.
Written(t) ==
    LET at == op[t].from
        n == Len(op[t].units)
    IN  /\ fd' = [fd EXCEPT ![t].pos = at + n]
        /\ synced' = [synced EXCEPT ![op[t].path] = @ \cup (at + 1 .. at + n)]
        /\ Return(t)

\* One sector of a file, or of a table.
WriteSector(t) ==
    LET i == SectorFrom(TargetFrom(t)) + op[t].i
        node == mem[Target(t)]
        more == i + 1 < SectorTo(TargetFrom(t), Len(TargetUnits(t)))
    IN  /\ pc[t] \in {"reloc", "data"}
        /\ disk' = [disk EXCEPT ![DataSector(node, i)] =
                                OfData(Overlaid(node, i, TargetFrom(t), TargetUnits(t)))]
        /\ \/ /\ more
              /\ Set(t, [op[t] EXCEPT !.i = @ + 1])
              /\ UNCHANGED << pc, fd, synced >>
           \/ /\ ~ more /\ (Relocating(t) \/ op[t].add)
              /\ Set(t, [op[t] EXCEPT !.i = 0])
              /\ Goto(t, IF Relocating(t) THEN "relocated" ELSE "added")
              /\ UNCHANGED << fd, synced >>
           \/ /\ ~ more /\ ~ Relocating(t) /\ ~ op[t].add
              /\ Written(t)
        /\ UNCHANGED << saved, rootIndex, ptr, phase, mem, overrun, crashes, damaged >>

\* inode_child_set writes the directory once more; open keeps the new file.
EndCreate(t) ==
    LET p == op[t].opened
    IN  /\ pc[t] = "added"
        /\ disk' = Updated(disk, Node(t))
        /\ fd' = IF mem[p].type = "file" THEN [fd EXCEPT ![t] = FdAt(p)] ELSE fd
        /\ Return(t)
        /\ UNCHANGED << saved, rootIndex, ptr, phase, mem, overrun, ghosts >>

---------------------------------------------------------------------------
(* fs_write, fs_read, fs_readdir and fs_close. *)

BeginWrite(t, n) ==
    LET p == fd[t].path
        o == [NoOp EXCEPT !.path = p, !.from = fd[t].pos, !.units = [i \in 1 .. n |-> Byte],
                          !.held = {p, Front(p)}]
    IN  /\ fd[t] # NoFd /\ mem[p].type = "file"
        /\ MayBegin(t, {p, Front(p)})
        /\ fd[t].pos + n <= MaxPos
        /\ Set(t, o) /\ Goto(t, InodeWrite(mem[p], o))
        /\ UNCHANGED << onDisk, ptr, phase, mem, fd, overrun, ghosts >>

\* Of a file or, as nobody looks at the type, of a directory.  inode_read gives
\* more than was asked for when the position is past the end.
BeginRead(t, n) ==
    LET node == mem[fd[t].path]
        got == BytesRead(node, fd[t].pos, n)
    IN  /\ fd[t] # NoFd
        /\ MayBegin(t, {fd[t].path})
        /\ overrun' = IF got > n THEN {t} ELSE {}
        /\ fd' = IF got > n THEN fd
                 ELSE [fd EXCEPT ![t].pos = @ + got, ![t].raw = @ \/ node.type = "dir"]
        /\ UNCHANGED << onDisk, ptr, phase, mem, pc, op, ghosts >>

\* strlen from a position: the first NUL, or any place behind the table.
NulsAfter(table, pos) ==
    {i \in pos + 1 .. MaxPos - 2 : /\ i > Len(table) \/ table[i] = NUL
                                   /\ \A k \in pos + 1 .. i - 1 :
                                          k > Len(table) \/ table[k] # NUL}

\* The variant that takes the NUL for a unit of the index.
NextRecordNoNul(nul) == nul + 1
NextRecord(nul) == nul + 2

\* What is at the position is taken for a name, its NUL and an index.
ReadDir(t) ==
    LET node == mem[fd[t].path]
        past == Unsigned(node.size - fd[t].pos) > node.size
    IN  /\ fd[t] # NoFd /\ node.type = "dir"
        /\ fd[t].path \notin damaged
        /\ MayBegin(t, {fd[t].path})
        /\ fd[t].pos # node.size
        /\ \/ past /\ overrun' = {t} /\ UNCHANGED fd
           \/ /\ ~ past /\ overrun' = {}
              /\ \E nul \in NulsAfter(Contents[node], fd[t].pos) :
                    fd' = [fd EXCEPT ![t].pos = NextRecord(nul)]
        /\ UNCHANGED << onDisk, ptr, phase, mem, pc, op, ghosts >>

Close(t) ==
    /\ MayBegin(t, {}) /\ fd[t] # NoFd
    /\ fd' = [fd EXCEPT ![t] = NoFd]
    /\ UNCHANGED << onDisk, ptr, phase, mem, pc, op, overrun, ghosts >>

\* Nobody has the inode, or a child of it, open.
Evict(p) ==
    /\ phase = "up" /\ p # Root /\ mem[p] # NotCached
    /\ \A t \in Task : /\ p \notin Held(t)
                       /\ fd[t] # NoFd => p # fd[t].path /\ ~ IsStrictPrefix(p, fd[t].path)
    /\ mem' = [mem EXCEPT ![p] = NotCached]
    /\ UNCHANGED << onDisk, ptr, phase, pc, op, fd, overrun, ghosts >>

Open(t) ==
    \E c \in Opens :
        LET p == PathOf(pathbuf_of(c.cwd), c.text)
        IN  /\ p \in Path
            /\ \/ OpenPlain(t, p, c.how)
               \/ OpenCreate(t, p, c.how)
               \/ OpenTruncate(t, p, c.how)
Step(t) ==
    \/ LockBalloc(t) \/ balloc_update(t) \/ inode_truncate(t)
    \/ CreateInode(t) \/ Grow(t) \/ CopySector(t) \/ MoveInode(t)
    \/ WriteRootIndex(t) \/ WriteParent(t) \/ WriteSize(t) \/ WriteSector(t)
    \/ EndCreate(t)
Use(t) ==
    \/ \E n \in Writes : BeginWrite(t, n)
    \/ \E n \in Reads : BeginRead(t, n)
    \/ ReadDir(t) \/ Close(t)

Steps ==
    \/ binit \/ FetchRoot \/ FindRoot \/ WriteRoot \/ Crash
    \/ \E p \in Path : Evict(p)
    \/ \E t \in Task : Open(t) \/ Step(t) \/ Use(t)

Next == Steps /\ tree' = treeOnDisk'
Spec == Init /\ [][Next]_vars

---------------------------------------------------------------------------
TypeOK ==
    /\ saved \in {0} \cup FS_START_SECTOR .. MaxSector + 1
    /\ rootIndex \in {0} \cup Sector
    /\ \A s \in Sector : disk[s].inode \in Inode /\ Len(disk[s].units) = SECTOR_SIZE
    /\ ptr \in 0 .. MaxSector + 1
    /\ \A p \in Path : mem[p] \in Inode
    /\ \A t \in Task : fd[t].pos \in 0 .. MaxPos
    /\ \A p \in Path : synced[p] \subseteq 1 .. MaxPos
    /\ crashes \in 0 .. MaxCrashes
    /\ overrun \subseteq Task

\* Whatever write the power is cut after, each name leads to a valid inode,
\* which has room for its data in sectors that no other name leads to and that
\* will not be allocated again: balloc saves the pointer before it gives the
\* sectors, and a directory leads to an inode only once it is written.
TreeSound ==
    /\ TypeOK
    /\ \A p \in Named :
          LET node == InodeOnDisk(p)
          IN  /\ node.isvalid /\ node.index = IndexOnDisk[p]
              /\ node.size <= node.alloc * SECTOR_SIZE
              /\ \A s \in SectorsOf(node) : s < saved
              /\ \A q \in Named \ {p} : SectorsOf(node) \cap SectorsOf(InodeOnDisk(q)) = {}

\* What a write returned for is on the disk from then on, through the moves of
\* the file and of its directories and through power cuts, until the file is
\* truncated: inode_realloc copies the old sectors before the directory leads
\* to the new ones, and inode_write reads what it overwrites a part of.
WritesLast ==
    \A p \in Named :
        InodeOnDisk(p).type = "file" =>
            \A k \in synced[p] : /\ k <= InodeOnDisk(p).size
                                 /\ Contents[InodeOnDisk(p)][k] = Byte

\* An inode_read copies more of a file than the caller's buffer takes only
\* through a descriptor whose inode was truncated after it was opened: the
\* position is past the end, and what is left is an unsigned difference.
FileOverrunOnlyWhenCut ==
    \A t \in overrun : LET node == mem[fd[t].path]
                       IN  /\ fd[t].pos > node.size
                           /\ node.type = "file" => fd[t].cut

\* Of a directory, also through one that read() was called on, which leaves
\* the position inside a record: the next readdir takes what is there for a
\* record and steps past the end, and the one after it reads from there.
\* Nothing else leaves a position between two records.
DirOverrunOnlyAstray ==
    \A t \in overrun : mem[fd[t].path].type = "dir" => fd[t].cut \/ fd[t].raw

\* A create is whole or has not begun, for every power cut but one in the
\* middle of the table it adds a name to, and names are lost in no other way
\* but by a truncating open of their directory (fs.c:614).
Tree == INSTANCE FileTree WITH
    creating <- {op[t].opened : t \in {u \in Task : op[u].add}},
    truncating <- {op[t].path : t \in {u \in Task : pc[u] = "truncate"}},
    rewriting <- {Target(t) : t \in {u \in Task : pc[u] \in {"reloc", "data"}}}
ImplementsTree == Tree!Spec

\* Whatever ".." and "." a text is made of, in whatever order, a system call
\* that resolves it looks where walking its components one after the other
\* leads; what getcwd gives leads back there from anywhere; exec looks there
\* first, and then in /bin.  This is the same in every state, and looked at
\* in the first.
PathsResolve == phase = "off" /\ crashes = 0 => Misread = {}
=============================================================================
