---------------------------- MODULE PipesProofs ----------------------------
(***************************************************************************)
(* Pipes and message queues, for any finite set of tasks, any addresses    *)
(* and names, and any size of the tables, lists and messages: the counts   *)
(* are exact, nothing refers to a pipe that was destroyed, the semaphore   *)
(* of a pipe counts its messages, and a name stands for one queue.         *)
(***************************************************************************)
EXTENDS Pipes, QueueLemmas, WellFoundedInduction

(***************************************************************************)
(* The lowest closed entry of a table.                                     *)
(***************************************************************************)
LEMMA LeastProperties ==
    ASSUME NEW I \in SUBSET Nat, I # {}
    PROVE  Least(I) \in I /\ \A j \in I : Least(I) <= j
<1>1. \E i \in I : \A j \in I : ~ (<< j, i >> \in OpToRel(<, Nat))
  BY NatLessThanWellFounded, WFMin, Zenon
<1>2. \E i \in I : \A j \in I : i <= j
  <2>1. PICK i \in I : \A j \in I : ~ (<< j, i >> \in OpToRel(<, Nat))
    BY <1>1
  <2>2. ASSUME NEW j \in I PROVE i <= j
    <3>1. ~ (j < i)
      BY <2>1, Zenon DEF OpToRel
    <3> QED
      BY <3>1
  <2> QED
    BY <2>2
<1> QED
  BY <1>2 DEF Least

(***************************************************************************)
(* A table apart from the task it belongs to.                              *)
(***************************************************************************)
FdType == {ClosedFd} \cup
          [isopen : {TRUE}, kind : {"PIPE", "MQ"}, access : {"READ", "WRITE"},
           ptr : Address]

OpenIn(tab) == {i \in DOMAIN tab : tab[i].isopen}

EndsIn(tab, access, p) ==
    {i \in OpenIn(tab) : tab[i].access = access /\ tab[i].ptr = p}

\* Room for n more descriptors, as Room has it, in a table within its bound.
HasRoom(tab, n) ==
    /\ Len(tab) <= MaxFd
    /\ Len(tab) + n <= MaxFd + Cardinality(DOMAIN tab \ OpenIn(tab))

\* fd_table_add puts the descriptor into one entry that was closed or is new.
LEMMA AddProperties ==
    ASSUME NEW tab \in Seq(FdType), NEW n \in Nat, HasRoom(tab, n + 1),
           NEW fd \in FdType, fd.isopen
    PROVE  LET r == FdTableAdd(tab, fd)
           IN  /\ r \in Seq(FdType)
               /\ HasRoom(r, n)
               /\ \E k \in DOMAIN r :
                     /\ k \notin OpenIn(tab) /\ r[k] = fd
                     /\ OpenIn(r) = OpenIn(tab) \cup {k}
                     /\ \A i \in OpenIn(tab) : r[i] = tab[i]
<1> DEFINE closed == {i \in DOMAIN tab : ~ tab[i].isopen}
           r == FdTableAdd(tab, fd)
<1>1. /\ Len(tab) \in Nat /\ DOMAIN tab = 1 .. Len(tab)
      /\ closed = DOMAIN tab \ OpenIn(tab)
      /\ OpenIn(tab) \subseteq DOMAIN tab
  BY QueueRange DEF OpenIn
<1>2. IsFiniteSet(closed) /\ Cardinality(closed) \in Nat
      /\ (Cardinality(closed) = 0 <=> closed = {})
  <2>1. IsFiniteSet(1 .. Len(tab)) /\ closed \in SUBSET (1 .. Len(tab))
    BY <1>1, FS_Interval
  <2> QED
    BY <2>1, FS_Subset, FS_CardinalityType, FS_EmptySet
<1>3. Len(tab) <= MaxFd /\ Len(tab) + (n + 1) <= MaxFd + Cardinality(closed)
  BY <1>1 DEF HasRoom
<1>4. CASE closed = {}
  <2>1. r = Append(tab, fd)
    BY <1>4 DEF FdTableAdd
  <2>2. /\ r \in Seq(FdType) /\ Len(r) = Len(tab) + 1
        /\ \A i \in 1 .. Len(tab) : r[i] = tab[i]
        /\ r[Len(tab) + 1] = fd
    BY <2>1, AppendProperties
  <2> HIDE DEF r, closed
  <2>3. DOMAIN r = 1 .. Len(tab) + 1 /\ Len(tab) + 1 \in DOMAIN r
    BY <1>1, <2>2, QueueRange
  <2>4. OpenIn(tab) = 1 .. Len(tab)
    BY <1>1, <1>4
  <2>5. OpenIn(r) = OpenIn(tab) \cup {Len(tab) + 1}
    <3>1. 1 .. Len(tab) + 1 = (1 .. Len(tab)) \cup {Len(tab) + 1}
      BY <1>1
    <3>2. \A i \in 1 .. Len(tab) : r[i].isopen
      BY <2>2, <2>4 DEF OpenIn
    <3> QED
      BY <2>2, <2>3, <2>4, <3>1, <3>2 DEF OpenIn
  <2>6. DOMAIN r \ OpenIn(r) = {}
    BY <1>1, <2>3, <2>4, <2>5
  <2>7. HasRoom(r, n)
    <3>1. Cardinality(DOMAIN r \ OpenIn(r)) = 0 /\ Cardinality(closed) = 0
      BY <1>2, <1>4, <2>6, FS_EmptySet
    <3>2. Len(r) <= MaxFd /\ Len(r) + n <= MaxFd + 0
      BY <1>1, <1>3, <2>2, <3>1, BoundAssumption
    <3> QED
      BY <3>1, <3>2 DEF HasRoom
  <2>8. Len(tab) + 1 \notin OpenIn(tab)
    BY <1>1, <2>4
  <2> QED
    BY <2>2, <2>3, <2>4, <2>5, <2>7, <2>8 DEF r
<1>5. CASE closed # {}
  <2> DEFINE k == Least(closed)
  <2>1. k \in closed
    <3>1. closed \in SUBSET Nat
      BY <1>1
    <3> QED
      BY <1>5, <3>1, LeastProperties
  <2>2. r = [tab EXCEPT ![k] = fd]
    BY <1>5 DEF FdTableAdd
  <2> HIDE DEF r, k
  <2>3. /\ k \in 1 .. Len(tab) /\ k \notin OpenIn(tab)
    BY <1>1, <2>1
  <2>4. /\ r \in Seq(FdType) /\ Len(r) = Len(tab)
        /\ DOMAIN r = DOMAIN tab /\ r[k] = fd
        /\ \A i \in DOMAIN tab : i # k => r[i] = tab[i]
    BY <1>1, <2>2, <2>3, ExceptSeq
  <2>5. OpenIn(r) = OpenIn(tab) \cup {k}
    BY <1>1, <2>3, <2>4 DEF OpenIn
  <2>6. DOMAIN r \ OpenIn(r) = closed \ {k}
    BY <1>1, <2>4, <2>5
  <2>7. Cardinality(closed \ {k}) = Cardinality(closed) - 1
    BY <1>2, <2>1, FS_RemoveElement
  <2> HIDE DEF closed
  <2>8. HasRoom(r, n)
    <3>1. Cardinality(DOMAIN r \ OpenIn(r)) = Cardinality(closed) - 1
      BY <2>6, <2>7
    <3>2. Len(r) <= MaxFd /\ Len(r) + n <= MaxFd + (Cardinality(closed) - 1)
      BY <1>1, <1>2, <1>3, <2>4, BoundAssumption
    <3> QED
      BY <3>1, <3>2 DEF HasRoom
  <2> QED
    BY <1>1, <2>3, <2>4, <2>5, <2>8 DEF r
<1> QED
  BY <1>4, <1>5

\* The table r is tab with the two ends of a pipe put into two other entries.
TwoAdded(tab, r, kind, p) ==
    \E k1, k2 \in DOMAIN r :
        /\ k1 # k2 /\ k1 \notin OpenIn(tab) /\ k2 \notin OpenIn(tab)
        /\ r[k1] = Fd(kind, "READ", p) /\ r[k2] = Fd(kind, "WRITE", p)
        /\ OpenIn(r) = OpenIn(tab) \cup {k1, k2}
        /\ \A i \in OpenIn(tab) : r[i] = tab[i]

\* The two ends of a pipe, or of a message queue, are put into two entries.
LEMMA AddTwoProperties ==
    ASSUME NEW tab \in Seq(FdType), HasRoom(tab, 2),
           NEW kind \in {"PIPE", "MQ"}, NEW p \in Address
    PROVE  LET r == FdTableAdd(FdTableAdd(tab, Fd(kind, "READ", p)),
                               Fd(kind, "WRITE", p))
           IN  /\ r \in Seq(FdType)
               /\ HasRoom(r, 0)
               /\ TwoAdded(tab, r, kind, p)
<1> DEFINE rd1 == Fd(kind, "READ", p)
           wr2 == Fd(kind, "WRITE", p)
           s == FdTableAdd(tab, rd1)
           r == FdTableAdd(s, wr2)
<1>1. rd1 \in FdType /\ rd1.isopen /\ wr2 \in FdType /\ wr2.isopen
  BY DEF Fd, FdType
<1> HIDE DEF rd1, wr2
<1>2. HasRoom(tab, 1 + 1)
  OBVIOUS
<1>3. /\ s \in Seq(FdType) /\ HasRoom(s, 1)
      /\ \E k \in DOMAIN s :
            /\ k \notin OpenIn(tab) /\ s[k] = rd1
            /\ OpenIn(s) = OpenIn(tab) \cup {k}
            /\ \A i \in OpenIn(tab) : s[i] = tab[i]
  BY <1>1, <1>2, AddProperties
<1> HIDE DEF s
<1>4. HasRoom(s, 0 + 1)
  BY <1>3
<1>5. /\ r \in Seq(FdType) /\ HasRoom(r, 0)
      /\ \E k \in DOMAIN r :
            /\ k \notin OpenIn(s) /\ r[k] = wr2
            /\ OpenIn(r) = OpenIn(s) \cup {k}
            /\ \A i \in OpenIn(s) : r[i] = s[i]
  BY <1>1, <1>3, <1>4, AddProperties
<1> HIDE DEF r
<1>6. PICK k1 \in DOMAIN s :
            /\ k1 \notin OpenIn(tab) /\ s[k1] = rd1
            /\ OpenIn(s) = OpenIn(tab) \cup {k1}
            /\ \A i \in OpenIn(tab) : s[i] = tab[i]
  BY <1>3
<1>7. PICK k2 \in DOMAIN r :
            /\ k2 \notin OpenIn(s) /\ r[k2] = wr2
            /\ OpenIn(r) = OpenIn(s) \cup {k2}
            /\ \A i \in OpenIn(s) : r[i] = s[i]
  BY <1>5
<1>8. /\ k1 # k2 /\ k1 \notin OpenIn(tab) /\ k2 \notin OpenIn(tab)
      /\ r[k1] = rd1 /\ r[k2] = wr2
      /\ OpenIn(r) = OpenIn(tab) \cup {k1, k2}
      /\ \A i \in OpenIn(tab) : r[i] = tab[i]
  BY <1>6, <1>7
<1>9. k1 \in DOMAIN r
  BY <1>8 DEF OpenIn
<1>10. TwoAdded(tab, r, kind, p)
  BY <1>8, <1>9 DEF TwoAdded, rd1, wr2
<1> QED
  BY <1>5, <1>10 DEF r, s, rd1, wr2

(***************************************************************************)
(* What the entries I of one task add to, or take from, a count.           *)
(***************************************************************************)
LEMMA PairsAdded ==
    ASSUME NEW E, IsFiniteSet(E), NEW t, NEW I, IsFiniteSet(I),
           \A i \in I : << t, i >> \notin E
    PROVE  /\ IsFiniteSet(E \cup ({t} \X I))
           /\ Cardinality(E \cup ({t} \X I)) = Cardinality(E) + Cardinality(I)
           /\ Cardinality(E) \in Nat /\ Cardinality(I) \in Nat
<1>1. IsFiniteSet({t}) /\ Cardinality({t}) = 1
  BY FS_Singleton
<1>2. /\ IsFiniteSet({t} \X I)
      /\ Cardinality({t} \X I) = Cardinality({t}) * Cardinality(I)
  BY <1>1, FS_Product
<1>3. Cardinality(E) \in Nat /\ Cardinality(I) \in Nat
  BY FS_CardinalityType
<1>4. Cardinality({t} \X I) = Cardinality(I)
  BY <1>1, <1>2, <1>3
<1>5. E \cap ({t} \X I) = {}
  OBVIOUS
<1>6. Cardinality(E \cap ({t} \X I)) = 0
  BY <1>5, FS_EmptySet
<1>7. /\ IsFiniteSet(E \cup ({t} \X I))
      /\ Cardinality(E \cup ({t} \X I))
           = Cardinality(E) + Cardinality({t} \X I) - Cardinality(E \cap ({t} \X I))
  BY <1>2, FS_Union
<1> QED
  BY <1>3, <1>4, <1>6, <1>7

(***************************************************************************)
(* The semaphore of a pipe q, among the tasks R that are in pipe_read for  *)
(* it: those in the queue sleep, the others were woken and have not run.   *)
(***************************************************************************)
PipeType ==
    [list : Seq(0 .. MaxLen), reader_count : Nat, writer_count : Nat,
     dead : BOOLEAN, lock : [value : Int, sq : Seq(Task)]]

LockQueued(q, R) == Range(q.lock.sq) \subseteq R /\ IsInjective(q.lock.sq)

\* n messages, w readers woken, and the semaphore: see MessagesCounted.
Counted(n, w, value, sq) ==
    /\ n - w >= 0
    /\ value = n - w - Len(sq)
    /\ sq # << >> => n - w = 0

LockCounts(q, R) ==
    Counted(Len(q.list), Cardinality(R \ Range(q.lock.sq)), q.lock.value, q.lock.sq)

LEMMA LockTypes ==
    ASSUME NEW q \in PipeType, NEW R \in SUBSET Task
    PROVE  /\ q.list \in Seq(0 .. MaxLen) /\ Len(q.list) \in Nat
           /\ q.reader_count \in Nat /\ q.writer_count \in Nat
           /\ q.dead \in BOOLEAN
           /\ q.lock \in [value : Int, sq : Seq(Task)]
           /\ q.lock.value \in Int
           /\ q.lock.sq \in Seq(Task) /\ Len(q.lock.sq) \in Nat
           /\ IsFiniteSet(R)
           /\ IsFiniteSet(R \ Range(q.lock.sq))
           /\ Cardinality(R \ Range(q.lock.sq)) \in Nat
           /\ q = [list |-> q.list, reader_count |-> q.reader_count,
                    writer_count |-> q.writer_count, dead |-> q.dead, lock |-> q.lock]
<1>1. IsFiniteSet(R)
  BY TaskAssumption, FS_Subset
<1>2. IsFiniteSet(R \ Range(q.lock.sq))
  BY <1>1, FS_Subset
<1>3. Cardinality(R \ Range(q.lock.sq)) \in Nat
  BY <1>2, FS_CardinalityType
<1>4. q.lock.sq \in Seq(Task) /\ q.list \in Seq(0 .. MaxLen)
  BY DEF PipeType
<1>5. Len(q.lock.sq) \in Nat /\ Len(q.list) \in Nat
  BY <1>4, LenProperties
<1> QED
  BY <1>1, <1>2, <1>3, <1>4, <1>5 DEF PipeType

\* A new pipe, and the place where there is none, with nobody in pipe_read.
LEMMA LockNew ==
    /\ pipe_new \in PipeType /\ LockQueued(pipe_new, {}) /\ LockCounts(pipe_new, {})
    /\ NoPipe \in PipeType /\ LockQueued(NoPipe, {})
<1>1. /\ << >> \in Seq(Task) /\ << >> \in Seq(0 .. MaxLen)
      /\ Len(<< >>) = 0 /\ DOMAIN << >> = 1 .. 0
  BY EmptySeq
<1>2. Range(<< >>) = {} /\ IsInjective(<< >>)
  BY <1>1 DEF Range, IsInjective
<1>3. pipe_new.list = << >> /\ pipe_new.lock = [value |-> 0, sq |-> << >>]
  BY DEF pipe_new, KSemaphoreInit
<1>4. pipe_new \in PipeType
  BY <1>1 DEF pipe_new, PipeType, KSemaphoreInit
<1>5. NoPipe \in PipeType /\ NoPipe.lock = [value |-> 0, sq |-> << >>]
  BY <1>1, <1>3, <1>4 DEF NoPipe, Closed, PipeType
<1>7. {} \ Range(<< >>) = {} /\ Cardinality({}) = 0
  BY FS_EmptySet
<1> QED
  BY <1>1, <1>2, <1>3, <1>4, <1>5, <1>7 DEF LockQueued, LockCounts, Counted

\* What ksemaphore_signal does to the queue, and to the readers woken.
LEMMA SignalProperties ==
    ASSUME NEW sem \in [value : Int, sq : Seq(Task)], NEW R \in SUBSET Task,
           Range(sem.sq) \subseteq R, IsInjective(sem.sq)
    PROVE  LET s2 == KSemaphoreSignal(sem)
           IN  /\ s2 \in [value : Int, sq : Seq(Task)]
               /\ Range(s2.sq) \subseteq R /\ IsInjective(s2.sq)
               /\ s2.value = sem.value + 1
               /\ sem.sq = << >> => s2.sq = << >>
               /\ sem.sq # << >> =>
                     /\ Len(s2.sq) = Len(sem.sq) - 1
                     /\ Cardinality(R \ Range(s2.sq))
                          = Cardinality(R \ Range(sem.sq)) + 1
<1> DEFINE s2 == KSemaphoreSignal(sem)
<1>1. sem.sq \in Seq(Task) /\ sem.value \in Int
  OBVIOUS
<1>2. CASE sem.sq = << >>
  <2>1. s2 = [value |-> sem.value + 1, sq |-> << >>]
    BY <1>2 DEF KSemaphoreSignal
  <2> QED
    BY <1>1, <1>2, <2>1
<1>3. CASE sem.sq # << >>
  <2>1. s2 = [value |-> sem.value + 1, sq |-> Tail(sem.sq)]
    BY <1>3 DEF KSemaphoreSignal
  <2> DEFINE h == Head(sem.sq)
             W == R \ Range(sem.sq)
  <2>2. /\ h \in Range(sem.sq)
        /\ Tail(sem.sq) \in Seq(Task)
        /\ Len(Tail(sem.sq)) = Len(sem.sq) - 1
        /\ Range(Tail(sem.sq)) = Range(sem.sq) \ {h}
        /\ IsInjective(Tail(sem.sq))
    BY <1>1, <1>3, PopProperties
  <2>3. R \ Range(Tail(sem.sq)) = W \cup {h} /\ h \notin W
    BY <2>2
  <2>4. W \in SUBSET Task
    OBVIOUS
  <2>5. IsFiniteSet(W)
    BY <2>4, TaskAssumption, FS_Subset
  <2> HIDE DEF h, W
  <2>6. Cardinality(W \cup {h}) = Cardinality(W) + 1
    BY <2>3, <2>5, FS_AddElement
  <2>7. Cardinality(R \ Range(Tail(sem.sq))) = Cardinality(R \ Range(sem.sq)) + 1
    BY <2>3, <2>6 DEF W
  <2>8. s2.sq = Tail(sem.sq) /\ s2.value = sem.value + 1
    BY <2>1
  <2>9. s2 \in [value : Int, sq : Seq(Task)]
    BY <1>1, <2>1, <2>2
  <2> HIDE DEF s2
  <2>10. Range(s2.sq) \subseteq R
    BY <2>2, <2>8
  <2> QED
    BY <1>3, <2>2, <2>7, <2>8, <2>9, <2>10 DEF s2
<1> QED
  BY <1>2, <1>3

\* pipe_write: the message is counted, or promised to the reader woken.
LEMMA LockWrite ==
    ASSUME NEW q \in PipeType, NEW R \in SUBSET Task, NEW len \in 0 .. MaxLen,
           LockQueued(q, R), LockCounts(q, R)
    PROVE  LET r == PutMessage(q, len)
           IN  /\ r \in PipeType /\ r.dead = q.dead
               /\ r.reader_count = q.reader_count /\ r.writer_count = q.writer_count
               /\ LockQueued(r, R) /\ LockCounts(r, R)
<1> DEFINE r == PutMessage(q, len)
           s2 == KSemaphoreSignal(q.lock)
<1>1. /\ s2 \in [value : Int, sq : Seq(Task)]
      /\ Range(s2.sq) \subseteq R /\ IsInjective(s2.sq)
      /\ s2.value = q.lock.value + 1
      /\ q.lock.sq = << >> => s2.sq = << >>
      /\ q.lock.sq # << >> =>
            /\ Len(s2.sq) = Len(q.lock.sq) - 1
            /\ Cardinality(R \ Range(s2.sq)) = Cardinality(R \ Range(q.lock.sq)) + 1
  BY LockTypes, SignalProperties DEF LockQueued
<1>2. /\ Append(q.list, len) \in Seq(0 .. MaxLen)
      /\ Len(Append(q.list, len)) = Len(q.list) + 1
  <2>1. q.list \in Seq(0 .. MaxLen)
    BY LockTypes
  <2> QED
    BY <2>1, AppendProperties
<1>3. /\ r.list = Append(q.list, len) /\ r.lock = s2 /\ r.dead = q.dead
      /\ r.reader_count = q.reader_count /\ r.writer_count = q.writer_count
      /\ r \in PipeType
  <2> HIDE DEF s2
  <2> QED
    BY <1>1, <1>2 DEF PipeType, PutMessage, s2
<1> HIDE DEF r, s2
<1>4. LockCounts(r, R)
  <2>1. /\ Len(q.list) \in Nat /\ Len(q.lock.sq) \in Nat
        /\ q.lock.value \in Int
        /\ Cardinality(R \ Range(q.lock.sq)) \in Nat
    BY LockTypes
  <2>2. Len(r.list) = Len(q.list) + 1
    BY <1>2, <1>3
  <2> DEFINE n == Len(q.list)
             l == Len(q.lock.sq)
             w == Cardinality(R \ Range(q.lock.sq))
             l2 == Len(s2.sq)
             w2 == Cardinality(R \ Range(s2.sq))
             v == q.lock.value
             v2 == s2.value
  <2>3. /\ n - w >= 0 /\ v = n - w - l
        /\ q.lock.sq # << >> => n - w = 0
    BY DEF LockCounts, Counted
  <2>4. n \in Nat /\ l \in Nat /\ w \in Nat /\ v2 = v + 1
    BY <1>1, <2>1
  <2>5. Counted(n + 1, w2, v2, s2.sq)
    <3>1. CASE q.lock.sq = << >>
      <4>1. w2 = w /\ l2 = l /\ s2.sq = << >>
        BY <1>1, <3>1
      <4> HIDE DEF n, l, w, l2, w2, v, v2
      <4> QED
        BY <2>3, <2>4, <4>1 DEF Counted, l2
    <3>2. CASE q.lock.sq # << >>
      <4>1. w2 = w + 1 /\ l2 = l - 1 /\ n - w = 0
        BY <1>1, <2>3, <3>2
      <4> HIDE DEF n, l, w, l2, w2, v, v2
      <4> QED
        BY <2>3, <2>4, <4>1 DEF Counted, l2
    <3> QED
      BY <3>1, <3>2
  <2>6. /\ Len(r.list) = n + 1 /\ Cardinality(R \ Range(r.lock.sq)) = w2
        /\ r.lock.value = v2 /\ r.lock.sq = s2.sq
    BY <1>3, <2>2
  <2> HIDE DEF n, l, w, l2, w2, v, v2
  <2> QED
    BY <2>5, <2>6 DEF LockCounts
<1>5. LockQueued(r, R)
  BY <1>1, <1>3 DEF LockQueued
<1> QED
  BY <1>3, <1>4, <1>5 DEF r

\* pipe_read goes to sleep.
LEMMA LockSleeps ==
    ASSUME NEW q \in PipeType, NEW R \in SUBSET Task, NEW t \in Task \ R,
           LockQueued(q, R), LockCounts(q, R), KSemaphoreBlocks(q.lock)
    PROVE  LET r == WaitMessage(q, t)
           IN  /\ r \in PipeType /\ r.dead = q.dead
               /\ r.reader_count = q.reader_count /\ r.writer_count = q.writer_count
               /\ LockQueued(r, R \cup {t}) /\ LockCounts(r, R \cup {t})
<1> DEFINE r == WaitMessage(q, t)
           s2 == KSemaphoreWait(q.lock, t)
<1>1. s2 = [value |-> q.lock.value - 1, sq |-> Append(q.lock.sq, t)]
  BY DEF KSemaphoreWait
<1>2. /\ Append(q.lock.sq, t) \in Seq(Task)
      /\ Len(Append(q.lock.sq, t)) = Len(q.lock.sq) + 1
      /\ Range(Append(q.lock.sq, t)) = Range(q.lock.sq) \cup {t}
      /\ IsInjective(Append(q.lock.sq, t))
  <2>1. /\ q.lock.sq \in Seq(Task) /\ IsInjective(q.lock.sq)
        /\ t \notin Range(q.lock.sq)
    BY LockTypes DEF LockQueued
  <2> QED
    BY <2>1, PushProperties
<1>3. s2 \in [value : Int, sq : Seq(Task)]
  BY <1>1, <1>2, LockTypes, SMTT(30)
<1>4. /\ r.list = q.list /\ r.lock = s2 /\ r.dead = q.dead
      /\ r.reader_count = q.reader_count /\ r.writer_count = q.writer_count
      /\ r \in PipeType
  <2> HIDE DEF s2
  <2> QED
    BY <1>3 DEF PipeType, WaitMessage, s2
<1>5. s2.sq = Append(q.lock.sq, t) /\ s2.value = q.lock.value - 1
  BY <1>1
<1> HIDE DEF r, s2
<1>6. LockQueued(r, R \cup {t})
  BY <1>2, <1>4, <1>5 DEF LockQueued
<1>7. (R \cup {t}) \ Range(r.lock.sq) = R \ Range(q.lock.sq)
  BY <1>2, <1>4, <1>5
<1>8. LockCounts(r, R \cup {t})
  <2>1. /\ Len(q.list) \in Nat /\ Len(q.lock.sq) \in Nat
        /\ q.lock.value \in Int
        /\ Cardinality(R \ Range(q.lock.sq)) \in Nat
    BY LockTypes
  <2> DEFINE w == Cardinality(R \ Range(q.lock.sq))
  <2>2. /\ Len(q.list) - w >= 0
        /\ q.lock.value = Len(q.list) - w - Len(q.lock.sq)
        /\ q.lock.sq # << >> => Len(q.list) - w = 0
    BY DEF LockCounts, Counted
  <2>3. q.lock.sq = << >> => Len(q.lock.sq) = 0
    OBVIOUS
  <2> HIDE DEF w
  <2>4. /\ Len(q.list) - w = 0
        /\ q.lock.value - 1 = Len(q.list) - w - (Len(q.lock.sq) + 1)
    BY <2>1, <2>2, <2>3 DEF w, KSemaphoreBlocks
  <2>5. Counted(Len(q.list), w, q.lock.value - 1, Append(q.lock.sq, t))
    BY <1>2, <2>1, <2>4 DEF Counted, w
  <2> QED
    BY <1>4, <1>5, <1>7, <2>5 DEF LockCounts, w
<1> QED
  BY <1>4, <1>6, <1>8 DEF r

\* What pipe_read takes, whole or in part; the rest of a message is signalled.
LEMMA TakeMessageProperties ==
    ASSUME NEW q \in PipeType, q.list # << >>, NEW len \in 1 .. MaxLen,
           KSemaphoreSignal(q.lock) \in [value : Int, sq : Seq(Task)]
    PROVE  LET r == TakeMessage(q, len)
           IN  /\ r \in PipeType /\ r.dead = q.dead
               /\ r.reader_count = q.reader_count /\ r.writer_count = q.writer_count
               /\ \/ Len(r.list) = Len(q.list) /\ r.lock = KSemaphoreSignal(q.lock)
                  \/ Len(r.list) = Len(q.list) - 1 /\ r.lock = q.lock
<1> DEFINE r == TakeMessage(q, len)
<1>1. q.list \in Seq(0 .. MaxLen) /\ q.lock \in [value : Int, sq : Seq(Task)]
  BY DEF PipeType
<1>2. /\ Tail(q.list) \in Seq(0 .. MaxLen) /\ Len(Tail(q.list)) = Len(q.list) - 1
      /\ Head(q.list) \in 0 .. MaxLen /\ Len(q.list) \in Nat
  BY <1>1, PopProperties, QueueRange
<1>3. CASE len < Head(q.list)
  <2> DEFINE rest == << Head(q.list) - len >> \o Tail(q.list)
             s2 == KSemaphoreSignal(q.lock)
  <2>1. r = [q EXCEPT !.list = rest, !.lock = s2]
    BY <1>3 DEF TakeMessage
  <2>2. Head(q.list) - len \in 0 .. MaxLen
    BY <1>2, <1>3, BoundAssumption
  <2>3. << Head(q.list) - len >> \in Seq(0 .. MaxLen)
        /\ Len(<< Head(q.list) - len >>) = 1
    BY <2>2
  <2>4. rest \in Seq(0 .. MaxLen) /\ Len(rest) = Len(q.list)
    BY <1>2, <2>3, ConcatProperties
  <2> HIDE DEF r, rest, s2
  <2>5. /\ r.list = rest /\ r.lock = s2 /\ r.dead = q.dead
        /\ r.reader_count = q.reader_count /\ r.writer_count = q.writer_count
        /\ r \in PipeType
    BY <2>1, <2>4 DEF PipeType, s2
  <2> QED
    BY <2>4, <2>5 DEF r, s2
<1>4. CASE ~ (len < Head(q.list))
  <2>1. r = [q EXCEPT !.list = Tail(q.list)]
    BY <1>4 DEF TakeMessage
  <2> HIDE DEF r
  <2>2. /\ r.list = Tail(q.list) /\ r.lock = q.lock /\ r.dead = q.dead
        /\ r.reader_count = q.reader_count /\ r.writer_count = q.writer_count
        /\ r \in PipeType
    BY <1>2, <2>1 DEF PipeType
  <2> QED
    BY <1>2, <2>2 DEF r
<1> QED
  BY <1>3, <1>4

\* pipe_read does not sleep: there is a message, and nobody waits for it.
LEMMA LockAtOnce ==
    ASSUME NEW q \in PipeType, NEW R \in SUBSET Task, NEW t \in Task,
           NEW len \in 1 .. MaxLen,
           LockQueued(q, R), LockCounts(q, R), ~ KSemaphoreBlocks(q.lock)
    PROVE  LET r == TakeMessage(WaitMessage(q, t), len)
           IN  /\ q.list # << >>
               /\ r \in PipeType /\ r.dead = q.dead
               /\ r.reader_count = q.reader_count /\ r.writer_count = q.writer_count
               /\ LockQueued(r, R) /\ LockCounts(r, R)
<1> DEFINE s1 == KSemaphoreWait(q.lock, t)
           s2 == KSemaphoreSignal(s1)
           q1 == WaitMessage(q, t)
           r == TakeMessage(q1, len)
           n == Len(q.list)
           w == Cardinality(R \ Range(q.lock.sq))
           v == q.lock.value
<1>1. /\ n \in Nat /\ w \in Nat /\ v \in Int
      /\ q.lock.sq \in Seq(Task) /\ Len(q.lock.sq) \in Nat
  BY LockTypes
<1>2. n - w >= 0 /\ v = n - w - Len(q.lock.sq)
      /\ (q.lock.sq # << >> => n - w = 0)
  BY DEF LockCounts, Counted
<1>3. ~ (v <= 0)
  BY DEF KSemaphoreBlocks
<1>4. q.lock.sq = << >>
  <2> HIDE DEF n, w, v
  <2> QED
    BY <1>1, <1>2, <1>3
<1>5. n # 0 /\ n - w = v
  <2>1. Len(q.lock.sq) = 0
    BY <1>4
  <2> HIDE DEF n, w, v
  <2> QED
    BY <1>1, <1>2, <1>3, <2>1
<1>6. q.list # << >>
  BY <1>5
<1>7. s1 = [value |-> v - 1, sq |-> q.lock.sq]
  BY DEF KSemaphoreWait
<1>8. s1.value = v - 1 /\ s1.sq = << >>
      /\ s1 \in [value : Int, sq : Seq(Task)]
  BY <1>1, <1>4, <1>7
<1>9. s2 = [value |-> s1.value + 1, sq |-> << >>]
  BY <1>8 DEF KSemaphoreSignal
<1>10. s2.value = v /\ s2.sq = << >> /\ s2 \in [value : Int, sq : Seq(Task)]
  <2>1. s2.value = s1.value + 1 /\ s2.sq = << >>
    BY <1>9
  <2>2. s2.value = v
    <3> HIDE DEF v, s2, s1
    <3> QED
      BY <1>1, <1>8, <2>1
  <2>3. s1.value + 1 \in Int
    BY <1>8
  <2> QED
    BY <1>1, <1>4, <1>9, <2>1, <2>2, <2>3
<1>11. /\ q1 \in PipeType /\ q1.list = q.list /\ q1.lock = s1 /\ q1.dead = q.dead
       /\ q1.reader_count = q.reader_count /\ q1.writer_count = q.writer_count
  BY <1>8 DEF PipeType, WaitMessage, s1
<1> HIDE DEF q1, s1, s2
<1>12. KSemaphoreSignal(q1.lock) = s2
  BY <1>11 DEF s2
<1>13. /\ r \in PipeType /\ r.dead = q.dead
       /\ r.reader_count = q.reader_count /\ r.writer_count = q.writer_count
       /\ \/ Len(r.list) = n /\ r.lock = s2
          \/ Len(r.list) = n - 1 /\ r.lock = s1
  BY <1>6, <1>10, <1>11, <1>12, TakeMessageProperties
<1> HIDE DEF r
<1>14. r.lock.sq = q.lock.sq /\ Cardinality(R \ Range(r.lock.sq)) = w
  BY <1>4, <1>8, <1>10, <1>13
<1>15. LockQueued(r, R)
  BY <1>14 DEF LockQueued
<1>16. LockCounts(r, R)
  <2>0. Len(r.lock.sq) = 0 /\ r.lock.sq = << >>
    BY <1>4, <1>14
  <2>1. Counted(n, w, v, r.lock.sq)
    BY <1>4, <1>14 DEF LockCounts
  <2>2. Counted(n - 1, w, v - 1, r.lock.sq)
    <3> HIDE DEF n, w, v
    <3> QED
      BY <1>1, <1>3, <1>5, <2>0 DEF Counted
  <2>3. CASE Len(r.list) = n /\ r.lock = s2
    BY <1>10, <1>14, <2>1, <2>3 DEF LockCounts
  <2>4. CASE Len(r.list) = n - 1 /\ r.lock = s1
    BY <1>8, <1>14, <2>2, <2>4 DEF LockCounts
  <2> QED
    BY <1>13, <2>3, <2>4
<1> QED
  BY <1>6, <1>13, <1>15, <1>16 DEF r, q1, s1

\* A reader that was woken finds a message, takes it and is gone.
LEMMA LockResumes ==
    ASSUME NEW q \in PipeType, NEW R \in SUBSET Task, NEW len \in 1 .. MaxLen,
           LockQueued(q, R), LockCounts(q, R),
           NEW t \in R \ Range(q.lock.sq)
    PROVE  LET r == TakeMessage(q, len)
           IN  /\ q.list # << >>
               /\ r \in PipeType /\ r.dead = q.dead
               /\ r.reader_count = q.reader_count /\ r.writer_count = q.writer_count
               /\ LockQueued(r, R \ {t}) /\ LockCounts(r, R \ {t})
<1> DEFINE R2 == R \ {t}
           s2 == KSemaphoreSignal(q.lock)
           r == TakeMessage(q, len)
           n == Len(q.list)
           l == Len(q.lock.sq)
           v == q.lock.value
           w == Cardinality(R \ Range(q.lock.sq))
           w2 == Cardinality(R2 \ Range(q.lock.sq))
<1>1. /\ n \in Nat /\ w \in Nat /\ v \in Int /\ l \in Nat
      /\ q.lock \in [value : Int, sq : Seq(Task)]
      /\ IsFiniteSet(R \ Range(q.lock.sq))
  BY LockTypes
<1>2. n - w >= 0 /\ v = n - w - l /\ (q.lock.sq # << >> => n - w = 0)
  BY DEF LockCounts, Counted
<1>3. R2 \in SUBSET Task /\ Range(q.lock.sq) \subseteq R2 /\ IsInjective(q.lock.sq)
  BY DEF LockQueued
<1>4. w = w2 + 1 /\ w2 \in Nat
  <2>1. R2 \ Range(q.lock.sq) = (R \ Range(q.lock.sq)) \ {t}
    OBVIOUS
  <2> DEFINE W == R \ Range(q.lock.sq)
  <2>2. t \in W /\ IsFiniteSet(W)
    BY <1>1
  <2> HIDE DEF W
  <2>3. IsFiniteSet(W \ {t}) /\ Cardinality(W \ {t}) = Cardinality(W) - 1
    BY <2>2, FS_RemoveElement
  <2>4. Cardinality(W \ {t}) \in Nat
    BY <2>3, FS_CardinalityType
  <2>5. w2 = Cardinality(W \ {t}) /\ w = Cardinality(W)
    BY <2>1 DEF W
  <2> HIDE DEF w, w2
  <2> QED
    BY <1>1, <2>3, <2>4, <2>5
<1>5. q.list # << >>
  <2>1. n # 0
    <3> HIDE DEF n, w, w2
    <3> QED
      BY <1>1, <1>2, <1>4
  <2> QED
    BY <2>1
<1>6. /\ s2 \in [value : Int, sq : Seq(Task)]
      /\ Range(s2.sq) \subseteq R2 /\ IsInjective(s2.sq)
      /\ s2.value = v + 1
      /\ q.lock.sq = << >> => s2.sq = << >>
      /\ q.lock.sq # << >> =>
            /\ Len(s2.sq) = l - 1
            /\ Cardinality(R2 \ Range(s2.sq)) = w2 + 1
  BY <1>1, <1>3, SignalProperties
<1>7. /\ r \in PipeType /\ r.dead = q.dead
      /\ r.reader_count = q.reader_count /\ r.writer_count = q.writer_count
      /\ \/ Len(r.list) = n /\ r.lock = s2
         \/ Len(r.list) = n - 1 /\ r.lock = q.lock
  BY <1>5, <1>6, TakeMessageProperties
<1> HIDE DEF r, s2
<1>8. LockQueued(r, R2)
  BY <1>3, <1>6, <1>7 DEF LockQueued
<1>9. CASE Len(r.list) = n - 1 /\ r.lock = q.lock
  <2>1. Counted(n - 1, w2, v, q.lock.sq)
    <3> HIDE DEF n, w, w2, v, l
    <3> QED
      BY <1>1, <1>2, <1>4 DEF Counted, l
  <2>2. LockCounts(r, R2)
    BY <1>9, <2>1 DEF LockCounts
  <2> QED
    BY <1>5, <1>7, <1>8, <2>2 DEF r
<1>10. CASE Len(r.list) = n /\ r.lock = s2
  <2> DEFINE w3 == Cardinality(R2 \ Range(s2.sq))
             l3 == Len(s2.sq)
             v3 == s2.value
  <2>1. Counted(n, w3, v3, s2.sq)
    <3>1. CASE q.lock.sq = << >>
      <4>1. w3 = w2 /\ l3 = l /\ l = 0 /\ v3 = v + 1 /\ s2.sq = << >>
        BY <1>6, <3>1
      <4> HIDE DEF n, w, w2, w3, v, v3, l, l3
      <4> QED
        BY <1>1, <1>2, <1>4, <4>1 DEF Counted, l3
    <3>2. CASE q.lock.sq # << >>
      <4>1. w3 = w2 + 1 /\ l3 = l - 1 /\ v3 = v + 1 /\ n - w = 0
        BY <1>2, <1>6, <3>2
      <4> HIDE DEF n, w, w2, w3, v, v3, l, l3
      <4> QED
        BY <1>1, <1>2, <1>4, <4>1 DEF Counted, l3
    <3> QED
      BY <3>1, <3>2
  <2>2. LockCounts(r, R2)
    BY <1>10, <2>1 DEF LockCounts
  <2> QED
    BY <1>5, <1>7, <1>8, <2>2 DEF r
<1> QED
  BY <1>7, <1>9, <1>10

(***************************************************************************)
(* The inductive invariant.                                                *)
(***************************************************************************)
Types ==
    /\ table \in [Task -> Seq(FdType)]
    /\ pipe \in [Address -> PipeType]
    /\ alloc \subseteq Address
    /\ mqlist \in Seq([name : Name, pipe : Address])
    /\ pc \in [Task -> {"none", "user", "reading", "exited"}]
    /\ rd \in [Task -> (Address \cup {NULL}) \X (0 .. MaxLen)]

\* A table stays within its bound, and is empty until its task is forked.
TablesFit ==
    \A t \in Task : Len(table[t]) <= MaxFd /\ (pc[t] = "none" => table[t] = << >>)

\* The counts are those of the open descriptors at every address: a pipe that
\* is dead, or an address that was freed, has none.
EndsCounted ==
    \A p \in Address :
        /\ pipe[p].reader_count = Cardinality(EndsOf("READ", p))
        /\ pipe[p].writer_count = Cardinality(EndsOf("WRITE", p))

\* A descriptor of kind PIPE is never to a pipe of mqlist, so that the close
\* that frees a pipe leaves no pointer in mqlist.
PointersSound ==
    /\ \A t \in Task : \A i \in OpenFds(t) :
          /\ table[t][i].ptr \in alloc /\ ~ pipe[table[t][i].ptr].dead
          /\ table[t][i].kind = "PIPE" =>
                \A j \in DOMAIN mqlist : mqlist[j].pipe # table[t][i].ptr
    /\ \A t \in Task : pc[t] = "reading" =>
          /\ rd[t] \in Address \X (1 .. MaxLen)
          /\ \E i \in OpenFds(t) : table[t][i].ptr = rd[t][1]
    /\ \A i \in DOMAIN mqlist : mqlist[i].pipe \in alloc
    /\ \A p \in Address \ alloc : pipe[p].dead

Readers(p) == {t \in Task : pc[t] = "reading" /\ rd[t][1] = p}

LocksSound ==
    \A p \in Address :
        /\ LockQueued(pipe[p], Readers(p))
        /\ ~ pipe[p].dead => LockCounts(pipe[p], Readers(p))

IInv ==
    /\ Types
    /\ TablesFit
    /\ EndsCounted
    /\ PointersSound
    /\ LocksSound
    /\ QueueNamesUnique

(***************************************************************************)
(* How the counts change with the table of one task.                       *)
(***************************************************************************)
LEMMA TableFacts ==
    ASSUME Types, TablesFit
    PROVE  /\ \A t \in Task :
                 /\ table[t] \in Seq(FdType) /\ DOMAIN table[t] = 1 .. Len(table[t])
                 /\ Len(table[t]) \in Nat
                 /\ OpenFds(t) = OpenIn(table[t])
                 /\ OpenFds(t) \subseteq 1 .. MaxFd
                 /\ IsFiniteSet(OpenFds(t))
                 /\ \A i \in OpenFds(t) :
                       /\ table[t][i] \in FdType /\ table[t][i].isopen
                       /\ table[t][i].kind \in {"PIPE", "MQ"}
                       /\ table[t][i].access \in {"READ", "WRITE"}
                       /\ table[t][i].ptr \in Address
                 /\ \A access, p :
                       /\ Ends(t, access, p) = EndsIn(table[t], access, p)
                       /\ Ends(t, access, p) \subseteq OpenFds(t)
           /\ \A access, p :
                 /\ IsFiniteSet(EndsOf(access, p))
                 /\ Cardinality(EndsOf(access, p)) \in Nat
<1>0. \A t \in Task : \A access, p : Ends(t, access, p) \subseteq OpenFds(t)
  BY DEF Ends
<1>1. ASSUME NEW t \in Task
      PROVE  /\ table[t] \in Seq(FdType) /\ DOMAIN table[t] = 1 .. Len(table[t])
             /\ Len(table[t]) \in Nat
             /\ OpenFds(t) = OpenIn(table[t])
             /\ OpenFds(t) \subseteq 1 .. MaxFd
             /\ IsFiniteSet(OpenFds(t))
  <2>1. table[t] \in Seq(FdType) /\ Len(table[t]) <= MaxFd
    BY DEF Types, TablesFit
  <2>2. DOMAIN table[t] = 1 .. Len(table[t]) /\ Len(table[t]) \in Nat
    BY <2>1, QueueRange
  <2>3. OpenFds(t) = OpenIn(table[t])
    BY DEF OpenFds, OpenIn
  <2>4. OpenFds(t) \subseteq 1 .. MaxFd
    BY <2>1, <2>2, BoundAssumption DEF OpenFds
  <2>5. IsFiniteSet(1 .. MaxFd)
    BY FS_Interval, BoundAssumption
  <2> QED
    BY <2>1, <2>2, <2>3, <2>4, <2>5, FS_Subset
<1>2. ASSUME NEW t \in Task, NEW i \in OpenFds(t)
      PROVE  /\ table[t][i] \in FdType /\ table[t][i].isopen
             /\ table[t][i].kind \in {"PIPE", "MQ"}
             /\ table[t][i].access \in {"READ", "WRITE"}
             /\ table[t][i].ptr \in Address
  <2>1. i \in 1 .. Len(table[t]) /\ table[t][i].isopen
    BY <1>1 DEF OpenFds
  <2>2. table[t][i] \in FdType
    BY <1>1, <2>1
  <2>3. ClosedFd.isopen = FALSE
    BY DEF ClosedFd
  <2>4. table[t][i] # ClosedFd
    BY <2>1, <2>3
  <2> QED
    BY <2>1, <2>2, <2>4 DEF FdType
<1>3. \A t \in Task : \A access, p :
         Ends(t, access, p) = EndsIn(table[t], access, p)
  BY <1>1 DEF Ends, EndsIn
<1>4. ASSUME NEW access, NEW p
      PROVE  IsFiniteSet(EndsOf(access, p)) /\ Cardinality(EndsOf(access, p)) \in Nat
  <2>1. IsFiniteSet(1 .. MaxFd)
    BY FS_Interval, BoundAssumption
  <2>2. IsFiniteSet(Task \X (1 .. MaxFd))
    BY <2>1, TaskAssumption, FS_Product
  <2>3. EndsOf(access, p) \in SUBSET (Task \X (1 .. MaxFd))
    BY DEF EndsOf
  <2>4. IsFiniteSet(EndsOf(access, p))
    BY <2>2, <2>3, FS_Subset
  <2> QED
    BY <2>4, FS_CardinalityType
<1> QED
  BY <1>0, <1>1, <1>2, <1>3, <1>4

\* Entries J with this access and pointer are added to, or taken from, a table.
LEMMA CountChange ==
    ASSUME Types, TablesFit, NEW t \in Task, NEW tab \in Seq(FdType),
           Len(tab) <= MaxFd,
           table'[t] = tab, \A u \in Task \ {t} : table'[u] = table[u],
           NEW access, NEW p, NEW J \in SUBSET (1 .. MaxFd)
    PROVE  /\ EndsIn(tab, access, p) = Ends(t, access, p) \cup J
              /\ J \cap Ends(t, access, p) = {}
              => Cardinality(EndsOf(access, p)')
                   = Cardinality(EndsOf(access, p)) + Cardinality(J)
           /\ Ends(t, access, p) = EndsIn(tab, access, p) \cup J
              /\ J \cap EndsIn(tab, access, p) = {}
              => Cardinality(EndsOf(access, p)')
                   = Cardinality(EndsOf(access, p)) - Cardinality(J)
<1> DEFINE E == EndsOf(access, p)
           E2 == EndsOf(access, p)'
<1>1. IsFiniteSet(J)
  <2>1. IsFiniteSet(1 .. MaxFd)
    BY FS_Interval, BoundAssumption
  <2> QED
    BY <2>1, FS_Subset
<1>2. IsFiniteSet(E) /\ Cardinality(E) \in Nat
  BY TableFacts
<1>3. /\ Ends(t, access, p)' = EndsIn(tab, access, p)
      /\ \A u \in Task \ {t} : Ends(u, access, p)' = Ends(u, access, p)
  BY DEF Ends, OpenFds, EndsIn, OpenIn
<1>4. E2 = {e \in Task \X (1 .. MaxFd) :
              IF e[1] = t THEN e[2] \in EndsIn(tab, access, p)
              ELSE e[2] \in Ends(e[1], access, p)}
  BY <1>3 DEF EndsOf
<1>5. E = {e \in Task \X (1 .. MaxFd) :
              IF e[1] = t THEN e[2] \in Ends(t, access, p)
              ELSE e[2] \in Ends(e[1], access, p)}
  BY DEF EndsOf
<1> HIDE DEF E, E2
<1>6. ASSUME EndsIn(tab, access, p) = Ends(t, access, p) \cup J,
             J \cap Ends(t, access, p) = {}
      PROVE  Cardinality(E2) = Cardinality(E) + Cardinality(J)
  <2>1. E2 = E \cup ({t} \X J)
    BY <1>4, <1>5, <1>6
  <2>2. \A i \in J : << t, i >> \notin E
    BY <1>5, <1>6
  <2> QED
    BY <1>1, <1>2, <2>1, <2>2, PairsAdded, ZenonT(40)
<1>7. ASSUME Ends(t, access, p) = EndsIn(tab, access, p) \cup J,
             J \cap EndsIn(tab, access, p) = {}
      PROVE  Cardinality(E2) = Cardinality(E) - Cardinality(J)
  <2>1. E = E2 \cup ({t} \X J)
    BY <1>4, <1>5, <1>7
  <2>2. \A i \in J : << t, i >> \notin E2
    BY <1>4, <1>7
  <2>3. E2 \in SUBSET E
    BY <2>1
  <2>4. IsFiniteSet(E2)
    BY <1>2, <2>3, FS_Subset
  <2>5. /\ Cardinality(E) = Cardinality(E2) + Cardinality(J)
        /\ Cardinality(E2) \in Nat /\ Cardinality(J) \in Nat
    BY <1>1, <2>1, <2>2, <2>4, PairsAdded, ZenonT(40)
  <2> QED
    BY <2>5
<1> QED
  BY <1>6, <1>7 DEF E, E2

\* The two ends put into the table of t are counted once each, at p.
LEMMA AddEndsProperties ==
    ASSUME Types, TablesFit, NEW t \in Task, Room(t, 2), pc[t] # "none",
           NEW kind \in {"PIPE", "MQ"}, NEW p \in Address,
           AddEnds(t, kind, p), UNCHANGED pc
    PROVE  /\ table' \in [Task -> Seq(FdType)]
           /\ TablesFit'
           /\ \A u \in Task : \A i \in OpenFds(u) :
                 i \in OpenFds(u)' /\ table'[u][i] = table[u][i]
           /\ \A u \in Task : \A i \in OpenFds(u)' :
                 \/ i \in OpenFds(u) /\ table'[u][i] = table[u][i]
                 \/ table'[u][i].ptr = p /\ table'[u][i].kind = kind
           /\ \A access \in {"READ", "WRITE"}, q \in Address :
                 Cardinality(EndsOf(access, q)')
                   = Cardinality(EndsOf(access, q)) + (IF q = p THEN 1 ELSE 0)
<1> DEFINE tab == FdTableAdd(FdTableAdd(table[t], Fd(kind, "READ", p)),
                             Fd(kind, "WRITE", p))
<1>1. /\ table[t] \in Seq(FdType) /\ HasRoom(table[t], 2)
      /\ OpenFds(t) = OpenIn(table[t])
  BY TableFacts DEF Room, HasRoom, TablesFit
<1>2. /\ tab \in Seq(FdType) /\ HasRoom(tab, 0)
      /\ TwoAdded(table[t], tab, kind, p)
  BY <1>1, AddTwoProperties
<1>3. table' = [table EXCEPT ![t] = tab]
  BY DEF AddEnds
<1> HIDE DEF tab
<1>4. PICK k1 \in DOMAIN tab, k2 \in DOMAIN tab :
            /\ k1 # k2 /\ k1 \notin OpenIn(table[t]) /\ k2 \notin OpenIn(table[t])
            /\ tab[k1] = Fd(kind, "READ", p) /\ tab[k2] = Fd(kind, "WRITE", p)
            /\ OpenIn(tab) = OpenIn(table[t]) \cup {k1, k2}
            /\ \A i \in OpenIn(table[t]) : tab[i] = table[t][i]
  BY <1>2 DEF TwoAdded
<1>5. table'[t] = tab /\ \A u \in Task \ {t} : table'[u] = table[u]
  BY <1>3 DEF Types
<1>6. /\ OpenFds(t)' = OpenIn(tab)
      /\ \A u \in Task \ {t} : OpenFds(u)' = OpenFds(u)
  BY <1>5 DEF OpenFds, OpenIn
<1>7. Len(tab) <= MaxFd
  BY <1>2 DEF HasRoom
<1>8. table' \in [Task -> Seq(FdType)] /\ TablesFit'
  BY <1>2, <1>3, <1>5, <1>7 DEF Types, TablesFit
<1>9. /\ tab[k1].ptr = p /\ tab[k1].kind = kind /\ tab[k1].access = "READ"
      /\ tab[k2].ptr = p /\ tab[k2].kind = kind /\ tab[k2].access = "WRITE"
  BY <1>4 DEF Fd
<1>10. ASSUME NEW access \in {"READ", "WRITE"}, NEW q \in Address
       PROVE  Cardinality(EndsOf(access, q)')
                = Cardinality(EndsOf(access, q)) + (IF q = p THEN 1 ELSE 0)
  <2> DEFINE J == IF q # p THEN {} ELSE IF access = "READ" THEN {k1} ELSE {k2}
  <2>1. EndsIn(tab, access, q) = EndsIn(table[t], access, q) \cup J
    BY <1>4, <1>9 DEF EndsIn
  <2>2. J \cap EndsIn(table[t], access, q) = {}
    BY <1>4 DEF EndsIn
  <2>3. J \subseteq 1 .. MaxFd
    <3>1. DOMAIN tab = 1 .. Len(tab) /\ Len(tab) \in Nat
      BY <1>2, QueueRange
    <3> QED
      BY <1>7, <3>1, BoundAssumption
  <2>4. Cardinality(J) = IF q = p THEN 1 ELSE 0
    BY FS_Singleton, FS_EmptySet
  <2>5. Ends(t, access, q) = EndsIn(table[t], access, q)
    BY TableFacts
  <2> HIDE DEF J
  <2>6. /\ EndsIn(tab, access, q) = Ends(t, access, q) \cup J
        /\ J \cap Ends(t, access, q) = {}
    BY <2>1, <2>2, <2>5
  <2>7. Cardinality(EndsOf(access, q)') = Cardinality(EndsOf(access, q)) + Cardinality(J)
    BY <1>2, <1>5, <1>7, <2>3, <2>6, CountChange
  <2> QED
    BY <2>4, <2>7
<1>11. ASSUME NEW u \in Task, NEW i \in OpenFds(u)
       PROVE  i \in OpenFds(u)' /\ table'[u][i] = table[u][i]
  <2>1. CASE u = t
    BY <1>1, <1>4, <1>5, <1>6, <2>1
  <2>2. CASE u # t
    BY <1>5, <1>6, <2>2
  <2> QED
    BY <2>1, <2>2
<1>12. ASSUME NEW u \in Task, NEW i \in OpenFds(u)'
       PROVE  \/ i \in OpenFds(u) /\ table'[u][i] = table[u][i]
              \/ table'[u][i].ptr = p /\ table'[u][i].kind = kind
  <2>1. CASE u = t
    <3>1. i \in OpenIn(table[t]) \/ i = k1 \/ i = k2
      BY <1>4, <1>6, <2>1
    <3> QED
      BY <1>1, <1>4, <1>5, <1>9, <2>1, <3>1
  <2>2. CASE u # t
    BY <1>5, <1>6, <2>2
  <2> QED
    BY <2>1, <2>2
<1> QED
  BY <1>8, <1>10, <1>11, <1>12

LEMMA NoPipeFields ==
    NoPipe.reader_count = 0 /\ NoPipe.writer_count = 0 /\ NoPipe.dead
<1> DEFINE q == [pipe_new EXCEPT !.reader_count = 0, !.writer_count = 0]
<1>1. q.reader_count = 0 /\ q.writer_count = 0
  BY DEF pipe_new
<1>2. /\ Closed(q).reader_count = q.reader_count
      /\ Closed(q).writer_count = q.writer_count /\ Closed(q).dead
  BY DEF Closed, pipe_new
<1> QED
  BY <1>1, <1>2 DEF NoPipe

LEMMA InitIInv == Init => IInv
<1> SUFFICES ASSUME Init PROVE IInv
  OBVIOUS
<1> USE TaskAssumption, BoundAssumption DEF Init
<1>1. /\ << >> \in Seq(FdType) /\ << >> \in Seq([name : Name, pipe : Address])
      /\ Len(<< >>) = 0 /\ DOMAIN << >> = {}
  BY EmptySeq
<1>2. Types
  BY <1>1, LockNew DEF Types
<1>3. TablesFit
  BY <1>1 DEF TablesFit
<1>4. \A t \in Task : OpenFds(t) = {}
  BY <1>1 DEF OpenFds
<1>5. \A access, p : EndsOf(access, p) = {}
  BY <1>4 DEF EndsOf, Ends
<1>6. NoPipe.reader_count = 0 /\ NoPipe.writer_count = 0 /\ NoPipe.dead
  BY NoPipeFields
<1>7. EndsCounted
  BY <1>5, <1>6, FS_EmptySet DEF EndsCounted
<1>8. PointersSound
  BY <1>1, <1>4, <1>6 DEF PointersSound
<1>9. LocksSound
  BY <1>6, LockNew DEF LocksSound, Readers
<1>10. QueueNamesUnique
  BY <1>1 DEF QueueNamesUnique
<1> QED
  BY <1>2, <1>3, <1>7, <1>8, <1>9, <1>10 DEF IInv

\* The parts of the invariant about one descriptor and one address.
LEMMA PointerFacts ==
    ASSUME IInv
    PROVE  /\ \A t \in Task : \A i \in OpenFds(t) :
                 /\ table[t][i].ptr \in Address /\ table[t][i].ptr \in alloc
                 /\ ~ pipe[table[t][i].ptr].dead
           /\ \A p \in Address :
                 /\ pipe[p] \in PipeType
                 /\ Readers(p) \in SUBSET Task
                 /\ pipe[p].dead =>
                       /\ \A access : EndsOf(access, p) = {}
                       /\ Readers(p) = {}
<1>1. \A t \in Task : \A i \in OpenFds(t) :
         /\ table[t][i].ptr \in Address /\ table[t][i].ptr \in alloc
         /\ ~ pipe[table[t][i].ptr].dead
  BY TableFacts DEF IInv, PointersSound
<1>2. \A p \in Address : pipe[p] \in PipeType /\ Readers(p) \in SUBSET Task
  BY DEF IInv, Types, Readers
<1>3. ASSUME NEW p \in Address, pipe[p].dead, NEW access
      PROVE  EndsOf(access, p) = {}
  <2>1. \A t \in Task : Ends(t, access, p) = {}
    BY <1>1, <1>3 DEF Ends
  <2> QED
    BY <2>1 DEF EndsOf
<1>4. ASSUME NEW p \in Address, pipe[p].dead
      PROVE  Readers(p) = {}
  <2>1. ASSUME NEW t \in Readers(p) PROVE FALSE
    <3>1. \E i \in OpenFds(t) : table[t][i].ptr = p
      BY <2>1 DEF IInv, PointersSound, Readers
    <3>2. t \in Task
      BY <2>1 DEF Readers
    <3> QED
      BY <1>1, <1>4, <3>1, <3>2
  <2> QED
    BY <2>1
<1> QED
  BY <1>1, <1>2, <1>3, <1>4

(***************************************************************************)
(* A pipe is made, where there was none or in the place of a dead queue.   *)
(***************************************************************************)
LEMMA NewPipeIInv ==
    ASSUME IInv, NEW t \in Task, pc[t] = "user", Room(t, 2),
           NEW kind \in {"PIPE", "MQ"}, NEW p \in Address, pipe[p].dead,
           AddEnds(t, kind, p),
           pipe' = [pipe EXCEPT ![p] = pipe_new],
           alloc' = alloc \cup {p},
           UNCHANGED << pc, rd >>,
           mqlist' \in Seq([name : Name, pipe : Address]),
           \A i \in DOMAIN mqlist' :
              IF mqlist'[i].pipe = p THEN kind = "MQ"
              ELSE \E j \in DOMAIN mqlist : mqlist[j].pipe = mqlist'[i].pipe,
           QueueNamesUnique'
    PROVE  IInv'
<1>1. /\ table' \in [Task -> Seq(FdType)]
      /\ TablesFit'
      /\ \A u \in Task : \A i \in OpenFds(u) :
            i \in OpenFds(u)' /\ table'[u][i] = table[u][i]
      /\ \A u \in Task : \A i \in OpenFds(u)' :
            \/ i \in OpenFds(u) /\ table'[u][i] = table[u][i]
            \/ table'[u][i].ptr = p /\ table'[u][i].kind = kind
      /\ \A access \in {"READ", "WRITE"}, q \in Address :
            Cardinality(EndsOf(access, q)')
              = Cardinality(EndsOf(access, q)) + (IF q = p THEN 1 ELSE 0)
  BY AddEndsProperties DEF IInv
<1>2. pipe'[p] = pipe_new /\ \A q \in Address \ {p} : pipe'[q] = pipe[q]
  BY DEF IInv, Types
<1>3. /\ pipe_new \in PipeType /\ LockQueued(pipe_new, {}) /\ LockCounts(pipe_new, {})
      /\ pipe_new.reader_count = 1 /\ pipe_new.writer_count = 1 /\ ~ pipe_new.dead
  BY LockNew DEF pipe_new
<1>4. pc' = pc /\ rd' = rd
  OBVIOUS
<1>5. \A q : Readers(q)' = Readers(q)
  BY <1>4 DEF Readers
<1>6. Types'
  BY <1>1, <1>2, <1>3, <1>4 DEF IInv, Types
<1>7. EndsCounted'
  <2> SUFFICES ASSUME NEW q \in Address
               PROVE  /\ pipe'[q].reader_count = Cardinality(EndsOf("READ", q)')
                      /\ pipe'[q].writer_count = Cardinality(EndsOf("WRITE", q)')
    BY DEF EndsCounted
  <2>1. CASE q = p
    <3>0. EndsOf("READ", p) = {} /\ EndsOf("WRITE", p) = {}
      BY PointerFacts
    <3>1. Cardinality(EndsOf("READ", p)) = 0 /\ Cardinality(EndsOf("WRITE", p)) = 0
      BY <3>0, FS_EmptySet
    <3>2. /\ Cardinality(EndsOf("READ", p)') = Cardinality(EndsOf("READ", p)) + 1
          /\ Cardinality(EndsOf("WRITE", p)') = Cardinality(EndsOf("WRITE", p)) + 1
      BY <1>1
    <3>3. Cardinality(EndsOf("READ", p)') = 1 /\ Cardinality(EndsOf("WRITE", p)') = 1
      BY <3>1, <3>2
    <3> QED
      BY <1>2, <1>3, <2>1, <3>3
  <2>2. CASE q # p
    <3>1. /\ Cardinality(EndsOf("READ", q)) \in Nat
          /\ Cardinality(EndsOf("WRITE", q)) \in Nat
      BY TableFacts DEF IInv
    <3>2. /\ Cardinality(EndsOf("READ", q)') = Cardinality(EndsOf("READ", q))
          /\ Cardinality(EndsOf("WRITE", q)') = Cardinality(EndsOf("WRITE", q))
      BY <1>1, <2>2, <3>1
    <3> QED
      BY <1>2, <2>2, <3>2 DEF IInv, EndsCounted
  <2> QED
    BY <2>1, <2>2
<1>8. PointersSound'
  <2>1. ASSUME NEW u \in Task, NEW i \in OpenFds(u)'
        PROVE  /\ table'[u][i].ptr \in alloc' /\ ~ pipe'[table'[u][i].ptr].dead
               /\ table'[u][i].kind = "PIPE" =>
                     \A j \in DOMAIN mqlist' : mqlist'[j].pipe # table'[u][i].ptr
    <3>1. CASE table'[u][i].ptr = p /\ table'[u][i].kind = kind
      BY <1>2, <1>3, <3>1
    <3>2. CASE i \in OpenFds(u) /\ table'[u][i] = table[u][i]
      <4>1. /\ table[u][i].ptr \in alloc /\ ~ pipe[table[u][i].ptr].dead
            /\ table[u][i].ptr \in Address
            /\ table[u][i].kind = "PIPE" =>
                  \A j \in DOMAIN mqlist : mqlist[j].pipe # table[u][i].ptr
        BY <3>2, PointerFacts DEF IInv, PointersSound
      <4>2. table[u][i].ptr # p
        BY <4>1
      <4> QED
        BY <1>2, <3>2, <4>1, <4>2
    <3> QED
      BY <1>1, <3>1, <3>2
  <2>2. ASSUME NEW u \in Task, pc'[u] = "reading"
        PROVE  /\ rd'[u] \in Address \X (1 .. MaxLen)
               /\ \E i \in OpenFds(u)' : table'[u][i].ptr = rd'[u][1]
    <3>1. /\ rd[u] \in Address \X (1 .. MaxLen)
          /\ \E i \in OpenFds(u) : table[u][i].ptr = rd[u][1]
      BY <1>4, <2>2 DEF IInv, PointersSound
    <3> QED
      BY <1>1, <1>4, <3>1
  <2>3. \A i \in DOMAIN mqlist' : mqlist'[i].pipe \in alloc'
    BY DEF IInv, PointersSound
  <2>4. \A q \in Address \ alloc' : pipe'[q].dead
    BY <1>2 DEF IInv, PointersSound
  <2> QED
    BY <2>1, <2>2, <2>3, <2>4 DEF PointersSound
<1>9. LocksSound'
  <2> SUFFICES ASSUME NEW q \in Address
               PROVE  /\ LockQueued(pipe'[q], Readers(q)')
                      /\ ~ pipe'[q].dead => LockCounts(pipe'[q], Readers(q)')
    BY DEF LocksSound
  <2>1. CASE q = p
    BY <1>2, <1>3, <1>5, <2>1, PointerFacts
  <2>2. CASE q # p
    BY <1>2, <1>5, <2>2 DEF IInv, LocksSound
  <2> QED
    BY <2>1, <2>2
<1> QED
  BY <1>1, <1>6, <1>7, <1>8, <1>9 DEF IInv

LEMMA syscall_pipeIInv ==
    ASSUME IInv, NEW t \in Task, syscall_pipe(t)
    PROVE  IInv'
<1>1. PICK p \in Address \ alloc :
          /\ alloc' = alloc \cup {p}
          /\ pipe' = [pipe EXCEPT ![p] = pipe_new]
          /\ AddEnds(t, "PIPE", p)
  BY DEF syscall_pipe
<1>2. /\ pc[t] = "user" /\ Room(t, 2)
      /\ mqlist' = mqlist /\ pc' = pc /\ rd' = rd
  BY DEF syscall_pipe
<1>3. pipe[p].dead /\ \A i \in DOMAIN mqlist : mqlist[i].pipe # p
  BY <1>1 DEF IInv, PointersSound
<1>4. QueueNamesUnique'
  BY <1>2 DEF IInv, QueueNamesUnique
<1>5. /\ mqlist' \in Seq([name : Name, pipe : Address])
      /\ UNCHANGED << pc, rd >>
      /\ \A i \in DOMAIN mqlist' :
            IF mqlist'[i].pipe = p THEN "PIPE" = "MQ"
            ELSE \E j \in DOMAIN mqlist : mqlist[j].pipe = mqlist'[i].pipe
  BY <1>2, <1>3 DEF IInv, Types
<1> QED
  BY <1>1, <1>2, <1>3, <1>4, <1>5, NewPipeIInv

(***************************************************************************)
(* Descriptors to live pipes are added, as mqopen, dup and fork do: what   *)
(* is left to show for each of them is that it counts them.                *)
(***************************************************************************)
LEMMA AddedIInv ==
    ASSUME IInv,
           table' \in [Task -> Seq(FdType)], TablesFit',
           pc' \in [Task -> {"none", "user", "reading", "exited"}],
           \A u \in Task : pc'[u] = "reading" <=> pc[u] = "reading",
           \A u \in Task : \A i \in OpenFds(u) :
              i \in OpenFds(u)' /\ table'[u][i] = table[u][i],
           \A u \in Task : \A i \in OpenFds(u)' :
              \/ \E v \in Task : \E j \in OpenFds(v) : table'[u][i] = table[v][j]
              \/ /\ table'[u][i].kind = "MQ" /\ table'[u][i].ptr \in alloc
                 /\ ~ pipe[table'[u][i].ptr].dead,
           pipe' \in [Address -> PipeType],
           \A q \in Address :
              /\ pipe'[q].dead = pipe[q].dead /\ pipe'[q].list = pipe[q].list
              /\ pipe'[q].lock = pipe[q].lock,
           EndsCounted',
           UNCHANGED << alloc, mqlist, rd >>
    PROVE  IInv'
<1>1. alloc' = alloc /\ mqlist' = mqlist /\ rd' = rd
  OBVIOUS
<1>2. \A q : Readers(q)' = Readers(q)
  BY <1>1 DEF Readers
<1>3. Types'
  BY <1>1 DEF IInv, Types
<1>4. PointersSound'
  <2>1. ASSUME NEW u \in Task, NEW i \in OpenFds(u)'
        PROVE  /\ table'[u][i].ptr \in alloc /\ ~ pipe'[table'[u][i].ptr].dead
               /\ table'[u][i].kind = "PIPE" =>
                     \A k \in DOMAIN mqlist : mqlist[k].pipe # table'[u][i].ptr
    <3>1. CASE \E v \in Task : \E j \in OpenFds(v) : table'[u][i] = table[v][j]
      <4>1. PICK v \in Task : \E j \in OpenFds(v) : table'[u][i] = table[v][j]
        BY <3>1
      <4>2. PICK j \in OpenFds(v) : table'[u][i] = table[v][j]
        BY <4>1
      <4>3. /\ table[v][j].ptr \in Address
            /\ table[v][j].ptr \in alloc /\ ~ pipe[table[v][j].ptr].dead
            /\ table[v][j].kind = "PIPE" =>
                  \A k \in DOMAIN mqlist : mqlist[k].pipe # table[v][j].ptr
        BY PointerFacts DEF IInv, PointersSound
      <4> QED
        BY <4>2, <4>3
    <3>2. CASE /\ table'[u][i].kind = "MQ" /\ table'[u][i].ptr \in alloc
               /\ ~ pipe[table'[u][i].ptr].dead
      BY <3>2 DEF IInv, Types
    <3> QED
      BY <3>1, <3>2
  <2>2. ASSUME NEW u \in Task, pc'[u] = "reading"
        PROVE  /\ rd[u] \in Address \X (1 .. MaxLen)
               /\ \E i \in OpenFds(u)' : table'[u][i].ptr = rd[u][1]
    <3>1. /\ rd[u] \in Address \X (1 .. MaxLen)
          /\ \E i \in OpenFds(u) : table[u][i].ptr = rd[u][1]
      BY <2>2 DEF IInv, PointersSound
    <3> QED
      BY <3>1
  <2>3. \A q \in Address \ alloc : pipe'[q].dead
    BY DEF IInv, PointersSound
  <2>4. \A i \in DOMAIN mqlist : mqlist[i].pipe \in alloc
    BY DEF IInv, PointersSound
  <2> QED
    BY <1>1, <2>1, <2>2, <2>3, <2>4 DEF PointersSound
<1>5. LocksSound'
  <2> SUFFICES ASSUME NEW q \in Address
               PROVE  /\ LockQueued(pipe'[q], Readers(q)')
                      /\ ~ pipe'[q].dead => LockCounts(pipe'[q], Readers(q)')
    BY DEF LocksSound
  <2>1. /\ LockQueued(pipe[q], Readers(q))
        /\ ~ pipe[q].dead => LockCounts(pipe[q], Readers(q))
    BY DEF IInv, LocksSound
  <2> QED
    BY <1>2, <2>1 DEF LockQueued, LockCounts
<1>6. QueueNamesUnique'
  BY <1>1 DEF IInv, QueueNamesUnique
<1> QED
  BY <1>3, <1>4, <1>5, <1>6 DEF IInv

\* A live queue is joined.
LEMMA JoinAliveIInv ==
    ASSUME IInv, NEW t \in Task, pc[t] = "user", Room(t, 2),
           NEW i \in DOMAIN mqlist, JoinQueue(t, i), ~ pipe[mqlist[i].pipe].dead,
           UNCHANGED << pc, rd >>
    PROVE  IInv'
<1> DEFINE p == mqlist[i].pipe
           q1 == Joined(pipe[p])
<1>1. p \in Address /\ p \in alloc
  BY DEF IInv, Types, PointersSound
<1>2. /\ pipe' = [pipe EXCEPT ![p] = q1]
      /\ AddEnds(t, "MQ", p) /\ alloc' = alloc /\ mqlist' = mqlist
      /\ pc' = pc /\ rd' = rd
  BY DEF JoinQueue
<1>3. ~ pipe[p].dead
  OBVIOUS
<1> HIDE DEF p
<1>4. pipe[p] \in PipeType
  BY <1>1 DEF IInv, Types
<1>5. /\ q1 \in PipeType /\ q1.dead = pipe[p].dead /\ q1.list = pipe[p].list
      /\ q1.lock = pipe[p].lock /\ q1.reader_count = pipe[p].reader_count + 1
      /\ q1.writer_count = pipe[p].writer_count + 1
  <2>1. pipe[p].reader_count + 1 \in Nat /\ pipe[p].writer_count + 1 \in Nat
    BY <1>4 DEF PipeType
  <2> QED
    BY <1>4, <2>1 DEF Joined, PipeType
<1> HIDE DEF q1
<1>6. pipe'[p] = q1 /\ \A q \in Address \ {p} : pipe'[q] = pipe[q]
  BY <1>1, <1>2 DEF IInv, Types
<1>7. /\ pipe' \in [Address -> PipeType]
      /\ \A q \in Address :
            /\ pipe'[q].dead = pipe[q].dead /\ pipe'[q].list = pipe[q].list
            /\ pipe'[q].lock = pipe[q].lock
  BY <1>1, <1>2, <1>5, <1>6 DEF IInv, Types
<1>8. /\ table' \in [Task -> Seq(FdType)]
      /\ TablesFit'
      /\ \A u \in Task : \A k \in OpenFds(u) :
            k \in OpenFds(u)' /\ table'[u][k] = table[u][k]
      /\ \A u \in Task : \A k \in OpenFds(u)' :
            \/ k \in OpenFds(u) /\ table'[u][k] = table[u][k]
            \/ table'[u][k].ptr = p /\ table'[u][k].kind = "MQ"
      /\ \A access \in {"READ", "WRITE"}, q \in Address :
            Cardinality(EndsOf(access, q)')
              = Cardinality(EndsOf(access, q)) + (IF q = p THEN 1 ELSE 0)
  BY <1>1, <1>2, AddEndsProperties DEF IInv
<1>9. EndsCounted'
  <2> SUFFICES ASSUME NEW q \in Address
               PROVE  /\ pipe'[q].reader_count = Cardinality(EndsOf("READ", q)')
                      /\ pipe'[q].writer_count = Cardinality(EndsOf("WRITE", q)')
    BY DEF EndsCounted
  <2>1. /\ Cardinality(EndsOf("READ", q)) \in Nat
        /\ Cardinality(EndsOf("WRITE", q)) \in Nat
        /\ pipe[q].reader_count = Cardinality(EndsOf("READ", q))
        /\ pipe[q].writer_count = Cardinality(EndsOf("WRITE", q))
    BY TableFacts DEF IInv, EndsCounted
  <2>2. /\ Cardinality(EndsOf("READ", q)')
             = Cardinality(EndsOf("READ", q)) + (IF q = p THEN 1 ELSE 0)
        /\ Cardinality(EndsOf("WRITE", q)')
             = Cardinality(EndsOf("WRITE", q)) + (IF q = p THEN 1 ELSE 0)
    BY <1>8
  <2>3. CASE q = p
    BY <1>5, <1>6, <2>1, <2>2, <2>3
  <2>4. CASE q # p
    BY <1>6, <2>1, <2>2, <2>4
  <2> QED
    BY <2>3, <2>4
<1>10. \A u \in Task : \A k \in OpenFds(u)' :
          \/ \E v \in Task : \E j \in OpenFds(v) : table'[u][k] = table[v][j]
          \/ /\ table'[u][k].kind = "MQ" /\ table'[u][k].ptr \in alloc
             /\ ~ pipe[table'[u][k].ptr].dead
  BY <1>1, <1>3, <1>8
<1>11. pc' \in [Task -> {"none", "user", "reading", "exited"}]
       /\ \A u \in Task : pc'[u] = "reading" <=> pc[u] = "reading"
  BY <1>2 DEF IInv, Types
<1>12. UNCHANGED << alloc, mqlist, rd >>
  BY <1>2
<1> QED
  BY <1>7, <1>8, <1>9, <1>10, <1>11, <1>12, AddedIInv

LEMMA syscall_mqopenIInv ==
    ASSUME IInv, NEW t \in Task, NEW name \in Name, syscall_mqopen(t, name)
    PROVE  IInv'
<1>1. /\ pc[t] = "user" /\ Room(t, 2) /\ pc' = pc /\ rd' = rd
      /\ UNCHANGED << pc, rd >>
      /\ \/ \E i \in Named(name) : JoinQueue(t, i)
         \/ Named(name) = {} /\ NewQueue(t, name)
  BY DEF syscall_mqopen
<1>2. ASSUME NEW i \in Named(name), JoinQueue(t, i)
      PROVE  IInv'
  <2>1. i \in DOMAIN mqlist
    BY DEF Named
  <2>2. CASE ~ pipe[mqlist[i].pipe].dead
    BY <1>1, <1>2, <2>1, <2>2, JoinAliveIInv
  <2>3. CASE pipe[mqlist[i].pipe].dead
    <3> DEFINE p == mqlist[i].pipe
    <3>1. p \in Address /\ p \in alloc
      BY <2>1 DEF IInv, Types, PointersSound
    <3>2. /\ pipe' = [pipe EXCEPT ![p] = pipe_new]
          /\ AddEnds(t, "MQ", p) /\ alloc' = alloc /\ mqlist' = mqlist
      BY <1>2, <2>3, <3>1 DEF JoinQueue, IInv, Types
    <3>3. pipe[p].dead
      BY <2>3
    <3> HIDE DEF p
    <3>4. alloc' = alloc \cup {p}
      BY <3>1, <3>2
    <3>5. QueueNamesUnique'
      BY <3>2 DEF IInv, QueueNamesUnique
    <3>6. /\ mqlist' \in Seq([name : Name, pipe : Address])
          /\ \A k \in DOMAIN mqlist' :
                IF mqlist'[k].pipe = p THEN "MQ" = "MQ"
                ELSE \E j \in DOMAIN mqlist : mqlist[j].pipe = mqlist'[k].pipe
      BY <3>2 DEF IInv, Types
    <3> QED
      BY <1>1, <3>1, <3>2, <3>3, <3>4, <3>5, <3>6, NewPipeIInv
  <2> QED
    BY <2>2, <2>3
<1>3. ASSUME Named(name) = {}, NewQueue(t, name)
      PROVE  IInv'
  <2> DEFINE dead == {i \in DOMAIN mqlist : pipe[mqlist[i].pipe].dead}
             entry(p) == [name |-> name, pipe |-> p]
  <2>1. PICK p \in Address \ alloc :
          /\ alloc' = alloc \cup {p}
          /\ pipe' = [pipe EXCEPT ![p] = pipe_new]
          /\ mqlist' = IF dead = {} THEN Append(mqlist, entry(p))
                       ELSE [mqlist EXCEPT ![Least(dead)] = entry(p)]
          /\ AddEnds(t, "MQ", p)
    BY <1>3 DEF NewQueue
  <2>2. /\ entry(p) \in [name : Name, pipe : Address]
        /\ entry(p).name = name /\ entry(p).pipe = p
    OBVIOUS
  <2> DEFINE e == entry(p)
  <2>3. /\ mqlist \in Seq([name : Name, pipe : Address])
        /\ DOMAIN mqlist = 1 .. Len(mqlist) /\ Len(mqlist) \in Nat
    BY QueueRange DEF IInv, Types
  <2>4. /\ pipe[p].dead
        /\ \A i \in DOMAIN mqlist : mqlist[i].pipe # p /\ mqlist[i].name # name
    BY <1>3 DEF IInv, PointersSound, Named
  <2> HIDE DEF e
  <2>5. \E k \in Nat :
          /\ mqlist' \in Seq([name : Name, pipe : Address])
          /\ k \in DOMAIN mqlist' /\ mqlist'[k] = e
          /\ \A i \in DOMAIN mqlist' : i # k =>
                i \in DOMAIN mqlist /\ mqlist'[i] = mqlist[i]
    <3>1. CASE dead = {}
      <4>1. mqlist' = Append(mqlist, e)
        BY <2>1, <3>1 DEF e
      <4>2. /\ mqlist' \in Seq([name : Name, pipe : Address])
            /\ Len(mqlist') = Len(mqlist) + 1
            /\ \A i \in 1 .. Len(mqlist) : mqlist'[i] = mqlist[i]
            /\ mqlist'[Len(mqlist) + 1] = e
        BY <2>2, <2>3, <4>1, AppendProperties DEF e
      <4>3. DOMAIN mqlist' = 1 .. Len(mqlist) + 1
        BY <4>2, QueueRange
      <4> QED
        BY <2>3, <4>2, <4>3
    <3>2. CASE dead # {}
      <4> DEFINE k == Least(dead)
      <4>1. dead \in SUBSET Nat
        BY <2>3
      <4>2. k \in dead
        BY <3>2, <4>1, LeastProperties
      <4>3. mqlist' = [mqlist EXCEPT ![k] = e]
        BY <2>1, <3>2 DEF e
      <4> HIDE DEF k
      <4>4. k \in 1 .. Len(mqlist)
        BY <2>3, <4>2
      <4>5. /\ mqlist' \in Seq([name : Name, pipe : Address])
            /\ DOMAIN mqlist' = DOMAIN mqlist /\ mqlist'[k] = e
            /\ \A i \in DOMAIN mqlist : i # k => mqlist'[i] = mqlist[i]
        BY <2>2, <2>3, <4>3, <4>4, ExceptSeq DEF e
      <4> QED
        BY <2>3, <4>4, <4>5
    <3> QED
      BY <3>1, <3>2
  <2>6. PICK k \in Nat :
          /\ mqlist' \in Seq([name : Name, pipe : Address])
          /\ k \in DOMAIN mqlist' /\ mqlist'[k] = e
          /\ \A i \in DOMAIN mqlist' : i # k =>
                i \in DOMAIN mqlist /\ mqlist'[i] = mqlist[i]
    BY <2>5
  <2>7. e.name = name /\ e.pipe = p
    BY <2>2 DEF e
  <2>8. QueueNamesUnique'
    BY <2>4, <2>6, <2>7 DEF IInv, QueueNamesUnique
  <2>9. \A i \in DOMAIN mqlist' :
           IF mqlist'[i].pipe = p THEN "MQ" = "MQ"
           ELSE \E j \in DOMAIN mqlist : mqlist[j].pipe = mqlist'[i].pipe
    BY <2>6, <2>7
  <2>10. /\ p \in Address /\ pipe[p].dead /\ AddEnds(t, "MQ", p)
         /\ pipe' = [pipe EXCEPT ![p] = pipe_new] /\ alloc' = alloc \cup {p}
         /\ mqlist' \in Seq([name : Name, pipe : Address])
    BY <2>1, <2>4, <2>6
  <2>11. pc[t] = "user" /\ Room(t, 2) /\ UNCHANGED << pc, rd >>
    BY <1>1
  <2> QED
    BY <2>8, <2>9, <2>10, <2>11, NewPipeIInv
<1> QED
  BY <1>1, <1>2, <1>3

(***************************************************************************)
(* Descriptors are cloned, one by dup or all of them by fork.              *)
(***************************************************************************)
LEMMA CloneProperties ==
    ASSUME IInv, NEW t \in Task, NEW I \in SUBSET OpenFds(t),
           pipe' = CloneEnds(t, I)
    PROVE  /\ pipe' \in [Address -> PipeType]
           /\ \A q \in Address :
                 /\ pipe'[q].dead = pipe[q].dead /\ pipe'[q].list = pipe[q].list
                 /\ pipe'[q].lock = pipe[q].lock
                 /\ pipe'[q].reader_count
                      = pipe[q].reader_count + Cardinality(I \cap Ends(t, "READ", q))
                 /\ pipe'[q].writer_count
                      = pipe[q].writer_count + Cardinality(I \cap Ends(t, "WRITE", q))
<1> DEFINE a(q) == pipe[q].reader_count + Cardinality(I \cap Ends(t, "READ", q))
           b(q) == pipe[q].writer_count + Cardinality(I \cap Ends(t, "WRITE", q))
           r(q) == [pipe[q] EXCEPT !.reader_count = a(q), !.writer_count = b(q)]
<1>1. pipe' = [q \in Address |-> r(q)]
  BY DEF CloneEnds
<1> HIDE DEF a, b
<1>2. ASSUME NEW q \in Address
      PROVE  /\ r(q) \in PipeType /\ r(q).dead = pipe[q].dead
             /\ r(q).list = pipe[q].list /\ r(q).lock = pipe[q].lock
             /\ r(q).reader_count = a(q) /\ r(q).writer_count = b(q)
  <2>1. pipe[q] \in PipeType
    BY DEF IInv, Types
  <2>2. pipe[q].reader_count \in Nat /\ pipe[q].writer_count \in Nat
    BY <2>1 DEF PipeType
  <2>3. \A access : IsFiniteSet(I \cap Ends(t, access, q))
    <3>1. IsFiniteSet(OpenFds(t))
      BY TableFacts DEF IInv
    <3>2. \A access : I \cap Ends(t, access, q) \in SUBSET OpenFds(t)
      OBVIOUS
    <3> QED
      BY <3>1, <3>2, FS_Subset
  <2>4. \A access : Cardinality(I \cap Ends(t, access, q)) \in Nat
    BY <2>3, FS_CardinalityType
  <2>5. a(q) \in Nat /\ b(q) \in Nat
    BY <2>2, <2>4 DEF a, b
  <2> QED
    BY <2>1, <2>5 DEF PipeType
<1> HIDE DEF r
<1> QED
  BY <1>1, <1>2 DEF a, b

LEMMA syscall_dupIInv ==
    ASSUME IInv, NEW t \in Task, NEW i \in 1 .. MaxFd, syscall_dup(t, i)
    PROVE  IInv'
<1> DEFINE fd == table[t][i]
           tab == FdTableAdd(table[t], fd)
<1>1. /\ pc[t] = "user" /\ Room(t, 1) /\ i \in OpenFds(t)
      /\ table' = [table EXCEPT ![t] = tab]
      /\ pipe' = CloneEnds(t, {i})
      /\ alloc' = alloc /\ mqlist' = mqlist /\ pc' = pc /\ rd' = rd
  BY DEF syscall_dup
<1>2. /\ table[t] \in Seq(FdType) /\ OpenFds(t) = OpenIn(table[t])
      /\ fd \in FdType /\ fd.isopen
  BY <1>1, TableFacts DEF IInv
<1>3. HasRoom(table[t], 0 + 1)
  BY <1>1, <1>2 DEF Room, HasRoom, IInv, TablesFit
<1> HIDE DEF fd
<1>4. /\ tab \in Seq(FdType) /\ HasRoom(tab, 0)
      /\ \E k \in DOMAIN tab :
            /\ k \notin OpenIn(table[t]) /\ tab[k] = fd
            /\ OpenIn(tab) = OpenIn(table[t]) \cup {k}
            /\ \A j \in OpenIn(table[t]) : tab[j] = table[t][j]
  BY <1>2, <1>3, AddProperties
<1> HIDE DEF tab
<1>5. PICK k \in DOMAIN tab :
            /\ k \notin OpenIn(table[t]) /\ tab[k] = fd
            /\ OpenIn(tab) = OpenIn(table[t]) \cup {k}
            /\ \A j \in OpenIn(table[t]) : tab[j] = table[t][j]
  BY <1>4
<1>6. table'[t] = tab /\ \A u \in Task \ {t} : table'[u] = table[u]
  BY <1>1 DEF IInv, Types
<1>7. Len(tab) <= MaxFd
  BY <1>4 DEF HasRoom
<1>8. table' \in [Task -> Seq(FdType)] /\ TablesFit'
  BY <1>1, <1>4, <1>6, <1>7 DEF IInv, Types, TablesFit
<1>9. /\ OpenFds(t)' = OpenIn(tab)
      /\ \A u \in Task \ {t} : OpenFds(u)' = OpenFds(u)
  BY <1>6 DEF OpenFds, OpenIn
<1>10. ASSUME NEW u \in Task, NEW j \in OpenFds(u)
       PROVE  j \in OpenFds(u)' /\ table'[u][j] = table[u][j]
  <2>1. CASE u = t
    BY <1>2, <1>5, <1>6, <1>9, <2>1
  <2>2. CASE u # t
    BY <1>6, <1>9, <2>2
  <2> QED
    BY <2>1, <2>2
<1>11. ASSUME NEW u \in Task, NEW j \in OpenFds(u)'
       PROVE  \E v \in Task : \E h \in OpenFds(v) : table'[u][j] = table[v][h]
  <2>1. CASE u = t
    <3>1. j \in OpenIn(table[t]) \/ j = k
      BY <1>5, <1>9, <2>1
    <3>2. CASE j \in OpenIn(table[t])
      BY <1>2, <1>5, <1>6, <2>1, <3>2
    <3>3. CASE j = k
      BY <1>1, <1>5, <1>6, <2>1, <3>3 DEF fd
    <3> QED
      BY <3>1, <3>2, <3>3
  <2>2. CASE u # t
    BY <1>6, <1>9, <2>2
  <2> QED
    BY <2>1, <2>2
<1>12. ASSUME NEW access, NEW q \in Address
       PROVE  Cardinality(EndsOf(access, q)')
                = Cardinality(EndsOf(access, q)) + Cardinality({i} \cap Ends(t, access, q))
  <2> DEFINE J == IF i \in Ends(t, access, q) THEN {k} ELSE {}
  <2>1. Ends(t, access, q) = EndsIn(table[t], access, q)
    BY TableFacts DEF IInv
  <2>2. i \in Ends(t, access, q) <=> fd.access = access /\ fd.ptr = q
    BY <1>1 DEF Ends, fd
  <2>3. EndsIn(tab, access, q) = EndsIn(table[t], access, q) \cup J
    BY <1>5, <2>2 DEF EndsIn
  <2>4. J \cap EndsIn(table[t], access, q) = {}
    BY <1>5 DEF EndsIn
  <2>5. J \in SUBSET (1 .. MaxFd)
    <3>1. DOMAIN tab = 1 .. Len(tab) /\ Len(tab) \in Nat
      BY <1>4, QueueRange
    <3> QED
      BY <1>7, <3>1, BoundAssumption
  <2>6. Cardinality(J) = Cardinality({i} \cap Ends(t, access, q))
    <3>1. CASE i \in Ends(t, access, q)
      <4>1. J = {k} /\ {i} \cap Ends(t, access, q) = {i}
        BY <3>1
      <4> QED
        BY <4>1, FS_Singleton
    <3>2. CASE i \notin Ends(t, access, q)
      <4>1. J = {} /\ {i} \cap Ends(t, access, q) = {}
        BY <3>2
      <4> QED
        BY <4>1
    <3> QED
      BY <3>1, <3>2
  <2> HIDE DEF J
  <2>7. /\ EndsIn(tab, access, q) = Ends(t, access, q) \cup J
        /\ J \cap Ends(t, access, q) = {}
    BY <2>1, <2>3, <2>4
  <2>8. Cardinality(EndsOf(access, q)') = Cardinality(EndsOf(access, q)) + Cardinality(J)
    BY <1>4, <1>6, <1>7, <2>5, <2>7, CountChange DEF IInv
  <2> QED
    BY <2>6, <2>8
<1>13. /\ pipe' \in [Address -> PipeType]
       /\ \A q \in Address :
             /\ pipe'[q].dead = pipe[q].dead /\ pipe'[q].list = pipe[q].list
             /\ pipe'[q].lock = pipe[q].lock
             /\ pipe'[q].reader_count
                  = pipe[q].reader_count + Cardinality({i} \cap Ends(t, "READ", q))
             /\ pipe'[q].writer_count
                  = pipe[q].writer_count + Cardinality({i} \cap Ends(t, "WRITE", q))
  BY <1>1, CloneProperties, ZenonT(40)
<1>14. EndsCounted'
  BY <1>12, <1>13, ZenonT(40) DEF IInv, EndsCounted
<1>15. pc' \in [Task -> {"none", "user", "reading", "exited"}]
       /\ \A u \in Task : pc'[u] = "reading" <=> pc[u] = "reading"
  BY <1>1 DEF IInv, Types
<1>16. UNCHANGED << alloc, mqlist, rd >>
  BY <1>1
<1> QED
  BY <1>8, <1>10, <1>11, <1>13, <1>14, <1>15, <1>16, AddedIInv

LEMMA task_forkIInv ==
    ASSUME IInv, NEW t \in Task, NEW new \in Task, task_fork(t, new)
    PROVE  IInv'
<1>1. /\ pc[t] = "user" /\ pc[new] = "none"
      /\ table' = [table EXCEPT ![new] = table[t]]
      /\ pipe' = CloneEnds(t, OpenFds(t))
      /\ pc' = [pc EXCEPT ![new] = "user"]
      /\ alloc' = alloc /\ mqlist' = mqlist /\ rd' = rd
  BY DEF task_fork
<1>2. /\ table[t] \in Seq(FdType) /\ Len(table[t]) <= MaxFd
      /\ OpenFds(t) = OpenIn(table[t])
  BY TableFacts DEF IInv, TablesFit
<1>3. table'[new] = table[t] /\ \A u \in Task \ {new} : table'[u] = table[u]
  BY <1>1 DEF IInv, Types
<1>4. OpenFds(new) = {}
  <2>1. table[new] = << >>
    BY <1>1 DEF IInv, TablesFit
  <2>2. DOMAIN table[new] = {}
    BY <2>1
  <2> QED
    BY <2>2 DEF OpenFds
<1>5. pc'[new] = "user" /\ \A u \in Task \ {new} : pc'[u] = pc[u]
  BY <1>1 DEF IInv, Types
<1>6. pc' \in [Task -> {"none", "user", "reading", "exited"}]
      /\ \A u \in Task : pc'[u] = "reading" <=> pc[u] = "reading"
  BY <1>1, <1>5 DEF IInv, Types
<1>7. table' \in [Task -> Seq(FdType)]
  BY <1>1, <1>2 DEF IInv, Types
<1>8. TablesFit'
  BY <1>2, <1>3, <1>5 DEF IInv, TablesFit
<1>9. /\ OpenFds(new)' = OpenFds(t)
      /\ \A u \in Task \ {new} : OpenFds(u)' = OpenFds(u)
  BY <1>3 DEF OpenFds
<1>10. \A u \in Task : \A j \in OpenFds(u) :
          j \in OpenFds(u)' /\ table'[u][j] = table[u][j]
  BY <1>3, <1>4, <1>9
<1>11. ASSUME NEW u \in Task, NEW j \in OpenFds(u)'
       PROVE  \E v \in Task : \E h \in OpenFds(v) : table'[u][j] = table[v][h]
  <2>1. CASE u = new
    BY <1>3, <1>9, <2>1
  <2>2. CASE u # new
    BY <1>3, <1>9, <2>2
  <2> QED
    BY <2>1, <2>2
<1>12. ASSUME NEW access, NEW q \in Address
       PROVE  Cardinality(EndsOf(access, q)')
                = Cardinality(EndsOf(access, q))
                    + Cardinality(OpenFds(t) \cap Ends(t, access, q))
  <2> DEFINE J == OpenFds(t) \cap Ends(t, access, q)
  <2>1. /\ Ends(t, access, q) = EndsIn(table[t], access, q)
        /\ Ends(t, access, q) \subseteq OpenFds(t)
        /\ OpenFds(t) \subseteq 1 .. MaxFd
        /\ Ends(new, access, q) \subseteq OpenFds(new)
    BY TableFacts DEF IInv
  <2>2. J = EndsIn(table[t], access, q) /\ J \in SUBSET (1 .. MaxFd)
    BY <2>1
  <2>3. Ends(new, access, q) = {}
    BY <1>4, <2>1
  <2> HIDE DEF J
  <2>4. /\ EndsIn(table[t], access, q) = Ends(new, access, q) \cup J
        /\ J \cap Ends(new, access, q) = {}
    BY <2>2, <2>3
  <2>5. Cardinality(EndsOf(access, q)') = Cardinality(EndsOf(access, q)) + Cardinality(J)
    BY <1>2, <1>3, <2>2, <2>4, CountChange DEF IInv
  <2> QED
    BY <2>5 DEF J
<1>13. /\ pipe' \in [Address -> PipeType]
       /\ \A q \in Address :
             /\ pipe'[q].dead = pipe[q].dead /\ pipe'[q].list = pipe[q].list
             /\ pipe'[q].lock = pipe[q].lock
             /\ pipe'[q].reader_count
                  = pipe[q].reader_count + Cardinality(OpenFds(t) \cap Ends(t, "READ", q))
             /\ pipe'[q].writer_count
                  = pipe[q].writer_count + Cardinality(OpenFds(t) \cap Ends(t, "WRITE", q))
  BY <1>1, CloneProperties
<1>14. EndsCounted'
  BY <1>12, <1>13 DEF IInv, EndsCounted
<1>15. UNCHANGED << alloc, mqlist, rd >>
  BY <1>1
<1> QED
  BY <1>6, <1>7, <1>8, <1>10, <1>11, <1>13, <1>14, <1>15, AddedIInv

(***************************************************************************)
(* One pipe is read or written: what is left to show is its semaphore.     *)
(***************************************************************************)
LEMMA OnePipeIInv ==
    ASSUME IInv, NEW p \in Address, NEW r \in PipeType,
           r.dead = pipe[p].dead,
           r.reader_count = pipe[p].reader_count,
           r.writer_count = pipe[p].writer_count,
           pipe' \in [Address -> PipeType],
           pipe'[p] = r, \A q \in Address \ {p} : pipe'[q] = pipe[q],
           UNCHANGED << table, alloc, mqlist >>,
           pc' \in [Task -> {"none", "user", "reading", "exited"}],
           \A u \in Task : pc'[u] = "none" => pc[u] = "none",
           rd' \in [Task -> (Address \cup {NULL}) \X (0 .. MaxLen)],
           \A u \in Task : pc'[u] = "reading" =>
              /\ rd'[u] \in Address \X (1 .. MaxLen)
              /\ \E i \in OpenFds(u) : table[u][i].ptr = rd'[u][1],
           \A q \in Address \ {p} : Readers(q)' = Readers(q),
           LockQueued(r, Readers(p)'),
           ~ r.dead => LockCounts(r, Readers(p)')
    PROVE  IInv'
<1>1. table' = table /\ alloc' = alloc /\ mqlist' = mqlist
  OBVIOUS
<1>2. \A u : OpenFds(u)' = OpenFds(u)
  BY <1>1 DEF OpenFds
<1>3. \A access, q : EndsOf(access, q)' = EndsOf(access, q)
  BY <1>1, <1>2 DEF EndsOf, Ends
<1>4. Types'
  BY <1>1 DEF IInv, Types
<1>5. TablesFit'
  BY <1>1 DEF IInv, TablesFit
<1>6. \A q \in Address :
         /\ pipe'[q].dead = pipe[q].dead
         /\ pipe'[q].reader_count = pipe[q].reader_count
         /\ pipe'[q].writer_count = pipe[q].writer_count
  OBVIOUS
<1>7. EndsCounted'
  BY <1>3, <1>6 DEF IInv, EndsCounted
<1>8. PointersSound'
  <2>1. \A u \in Task : \A i \in OpenFds(u) :
           /\ table[u][i].ptr \in alloc /\ ~ pipe'[table[u][i].ptr].dead
           /\ table[u][i].kind = "PIPE" =>
                 \A j \in DOMAIN mqlist : mqlist[j].pipe # table[u][i].ptr
    BY <1>6, PointerFacts DEF IInv, PointersSound
  <2>2. /\ \A i \in DOMAIN mqlist : mqlist[i].pipe \in alloc
        /\ \A q \in Address \ alloc : pipe'[q].dead
    BY <1>6 DEF IInv, PointersSound
  <2> QED
    BY <1>1, <1>2, <2>1, <2>2 DEF PointersSound
<1>9. LocksSound'
  <2> SUFFICES ASSUME NEW q \in Address
               PROVE  /\ LockQueued(pipe'[q], Readers(q)')
                      /\ ~ pipe'[q].dead => LockCounts(pipe'[q], Readers(q)')
    BY DEF LocksSound
  <2>1. CASE q = p
    BY <2>1
  <2>2. CASE q # p
    BY <2>2 DEF IInv, LocksSound
  <2> QED
    BY <2>1, <2>2
<1>10. QueueNamesUnique'
  BY <1>1 DEF IInv, QueueNamesUnique
<1> QED
  BY <1>4, <1>5, <1>7, <1>8, <1>9, <1>10 DEF IInv

LEMMA syscall_writeIInv ==
    ASSUME IInv, NEW t \in Task, NEW i \in 1 .. MaxFd, NEW len \in 0 .. MaxLen,
           syscall_write(t, i, len)
    PROVE  IInv'
<1> DEFINE p == table[t][i].ptr
           r == IF pipe[p].reader_count = 0 THEN pipe[p] ELSE PutMessage(pipe[p], len)
<1>1. /\ pc[t] = "user" /\ i \in OpenFds(t)
      /\ pipe' = [pipe EXCEPT ![p] = r]
      /\ UNCHANGED << table, alloc, mqlist >>
      /\ pc' = pc /\ rd' = rd
  BY DEF syscall_write
<1>2. /\ p \in Address /\ ~ pipe[p].dead
      /\ pipe[p] \in PipeType /\ Readers(p) \in SUBSET Task
  BY <1>1, PointerFacts
<1> HIDE DEF p
<1>3. LockQueued(pipe[p], Readers(p)) /\ LockCounts(pipe[p], Readers(p))
  BY <1>2 DEF IInv, LocksSound
<1>4. /\ r \in PipeType /\ r.dead = pipe[p].dead
      /\ r.reader_count = pipe[p].reader_count
      /\ r.writer_count = pipe[p].writer_count
      /\ LockQueued(r, Readers(p)) /\ LockCounts(r, Readers(p))
  <2>1. CASE pipe[p].reader_count = 0
    BY <1>2, <1>3, <2>1
  <2>2. CASE pipe[p].reader_count # 0
    BY <1>2, <1>3, <2>2, LockWrite
  <2> QED
    BY <2>1, <2>2
<1> HIDE DEF r
<1>5. /\ pipe' \in [Address -> PipeType]
      /\ pipe'[p] = r /\ \A q \in Address \ {p} : pipe'[q] = pipe[q]
  BY <1>1, <1>2, <1>4 DEF IInv, Types
<1>6. \A q : Readers(q)' = Readers(q)
  BY <1>1 DEF Readers
<1>7. /\ pc' \in [Task -> {"none", "user", "reading", "exited"}]
      /\ rd' \in [Task -> (Address \cup {NULL}) \X (0 .. MaxLen)]
      /\ \A u \in Task : pc'[u] = "none" => pc[u] = "none"
      /\ \A u \in Task : pc'[u] = "reading" =>
            /\ rd'[u] \in Address \X (1 .. MaxLen)
            /\ \E j \in OpenFds(u) : table[u][j].ptr = rd'[u][1]
  BY <1>1 DEF IInv, Types, PointersSound
<1> QED
  BY <1>1, <1>2, <1>4, <1>5, <1>6, <1>7, OnePipeIInv

LEMMA ReadAtOnceIInv ==
    ASSUME IInv, NEW t \in Task, NEW i \in 1 .. MaxFd, NEW len \in 1 .. MaxLen,
           ReadAtOnce(t, i, len)
    PROVE  IInv'
<1>1. PICK p \in Address :
        /\ CanRead(t, i, p)
        /\ ~ KSemaphoreBlocks(pipe[p].lock)
        /\ pipe' = [pipe EXCEPT ![p] = TakeMessage(WaitMessage(@, t), len)]
        /\ UNCHANGED << table, alloc, mqlist, pc, rd >>
  BY DEF ReadAtOnce
<1> DEFINE r == TakeMessage(WaitMessage(pipe[p], t), len)
<1>2. /\ ~ pipe[p].dead /\ pipe[p] \in PipeType /\ Readers(p) \in SUBSET Task
  BY <1>1, PointerFacts DEF CanRead
<1>3. LockQueued(pipe[p], Readers(p)) /\ LockCounts(pipe[p], Readers(p))
  BY <1>2 DEF IInv, LocksSound
<1>4. /\ r \in PipeType /\ r.dead = pipe[p].dead
      /\ r.reader_count = pipe[p].reader_count
      /\ r.writer_count = pipe[p].writer_count
      /\ LockQueued(r, Readers(p)) /\ LockCounts(r, Readers(p))
  BY <1>1, <1>2, <1>3, LockAtOnce
<1>5. pipe' = [pipe EXCEPT ![p] = r]
  BY <1>1
<1> HIDE DEF r
<1>6. /\ pipe' \in [Address -> PipeType]
      /\ pipe'[p] = r /\ \A q \in Address \ {p} : pipe'[q] = pipe[q]
  BY <1>4, <1>5 DEF IInv, Types
<1>7. /\ UNCHANGED << table, alloc, mqlist >> /\ pc' = pc /\ rd' = rd
  BY <1>1
<1>8. \A q : Readers(q)' = Readers(q)
  BY <1>7 DEF Readers
<1>9. /\ pc' \in [Task -> {"none", "user", "reading", "exited"}]
      /\ rd' \in [Task -> (Address \cup {NULL}) \X (0 .. MaxLen)]
      /\ \A u \in Task : pc'[u] = "none" => pc[u] = "none"
      /\ \A u \in Task : pc'[u] = "reading" =>
            /\ rd'[u] \in Address \X (1 .. MaxLen)
            /\ \E j \in OpenFds(u) : table[u][j].ptr = rd'[u][1]
  BY <1>7 DEF IInv, Types, PointersSound
<1> QED
  BY <1>4, <1>6, <1>7, <1>8, <1>9, OnePipeIInv

LEMMA ReadSleepsIInv ==
    ASSUME IInv, NEW t \in Task, NEW i \in 1 .. MaxFd, NEW len \in 1 .. MaxLen,
           ReadSleeps(t, i, len)
    PROVE  IInv'
<1>1. PICK p \in Address :
        /\ CanRead(t, i, p)
        /\ KSemaphoreBlocks(pipe[p].lock)
        /\ pipe' = [pipe EXCEPT ![p] = WaitMessage(@, t)]
        /\ pc' = [pc EXCEPT ![t] = "reading"]
        /\ rd' = [rd EXCEPT ![t] = << p, len >>]
        /\ UNCHANGED << table, alloc, mqlist >>
  BY DEF ReadSleeps
<1> DEFINE r == WaitMessage(pipe[p], t)
<1>2. /\ pc[t] = "user" /\ i \in OpenFds(t) /\ table[t][i].ptr = p
      /\ ~ pipe[p].dead /\ pipe[p] \in PipeType /\ Readers(p) \in SUBSET Task
  BY <1>1, PointerFacts DEF CanRead
<1>3. LockQueued(pipe[p], Readers(p)) /\ LockCounts(pipe[p], Readers(p))
  BY <1>2 DEF IInv, LocksSound
<1>4. t \notin Readers(p)
  BY <1>2 DEF Readers
<1>5. /\ r \in PipeType /\ r.dead = pipe[p].dead
      /\ r.reader_count = pipe[p].reader_count
      /\ r.writer_count = pipe[p].writer_count
      /\ LockQueued(r, Readers(p) \cup {t}) /\ LockCounts(r, Readers(p) \cup {t})
  BY <1>1, <1>2, <1>3, <1>4, LockSleeps
<1>6. pipe' = [pipe EXCEPT ![p] = r]
  BY <1>1
<1> HIDE DEF r
<1>7. /\ pipe' \in [Address -> PipeType]
      /\ pipe'[p] = r /\ \A q \in Address \ {p} : pipe'[q] = pipe[q]
  BY <1>5, <1>6 DEF IInv, Types
<1>8. /\ pc'[t] = "reading" /\ rd'[t] = << p, len >>
      /\ \A u \in Task \ {t} : pc'[u] = pc[u] /\ rd'[u] = rd[u]
  BY <1>1 DEF IInv, Types
<1>9. /\ Readers(p)' = Readers(p) \cup {t}
      /\ \A q \in Address \ {p} : Readers(q)' = Readers(q)
  BY <1>2, <1>8 DEF Readers
<1>10. << p, len >> \in Address \X (1 .. MaxLen)
       /\ << p, len >> \in (Address \cup {NULL}) \X (0 .. MaxLen)
  BY BoundAssumption
<1>11. /\ pc' \in [Task -> {"none", "user", "reading", "exited"}]
       /\ rd' \in [Task -> (Address \cup {NULL}) \X (0 .. MaxLen)]
  BY <1>1, <1>10 DEF IInv, Types
<1>12. ASSUME NEW u \in Task
       PROVE  /\ pc'[u] = "none" => pc[u] = "none"
              /\ pc'[u] = "reading" =>
                    /\ rd'[u] \in Address \X (1 .. MaxLen)
                    /\ \E j \in OpenFds(u) : table[u][j].ptr = rd'[u][1]
  <2>1. CASE u = t
    BY <1>2, <1>8, <1>10, <2>1
  <2>2. CASE u # t
    BY <1>8, <2>2 DEF IInv, PointersSound
  <2> QED
    BY <2>1, <2>2
<1>13. UNCHANGED << table, alloc, mqlist >>
  BY <1>1
<1> QED
  BY <1>5, <1>7, <1>9, <1>11, <1>12, <1>13, OnePipeIInv

LEMMA ReadResumesIInv ==
    ASSUME IInv, NEW t \in Task, ReadResumes(t)
    PROVE  IInv'
<1>1. PICK p \in Address :
        /\ t \in Woken(p)
        /\ pipe' = [pipe EXCEPT ![p] = TakeMessage(@, rd[t][2])]
        /\ pc' = [pc EXCEPT ![t] = "user"]
        /\ rd' = [rd EXCEPT ![t] = << NULL, 0 >>]
        /\ UNCHANGED << table, alloc, mqlist >>
  BY DEF ReadResumes
<1> DEFINE len == rd[t][2]
           r == TakeMessage(pipe[p], len)
<1>2. /\ pc[t] = "reading" /\ rd[t][1] = p /\ t \in Readers(p) \ Range(pipe[p].lock.sq)
      /\ pipe[p] \in PipeType /\ Readers(p) \in SUBSET Task
  BY <1>1, PointerFacts DEF Woken, Readers
<1>3. ~ pipe[p].dead
  BY <1>2, PointerFacts
<1>4. LockQueued(pipe[p], Readers(p)) /\ LockCounts(pipe[p], Readers(p))
  BY <1>3 DEF IInv, LocksSound
<1>5. len \in 1 .. MaxLen
  BY <1>2 DEF IInv, PointersSound
<1>6. pipe' = [pipe EXCEPT ![p] = r]
  BY <1>1
<1> HIDE DEF len
<1>7. /\ r \in PipeType /\ r.dead = pipe[p].dead
      /\ r.reader_count = pipe[p].reader_count
      /\ r.writer_count = pipe[p].writer_count
      /\ LockQueued(r, Readers(p) \ {t}) /\ LockCounts(r, Readers(p) \ {t})
  <2> DEFINE q == pipe[p]
             R == Readers(p)
  <2>1. q \in PipeType /\ R \in SUBSET Task /\ t \in R \ Range(q.lock.sq)
    BY <1>2
  <2>2. LockQueued(q, R) /\ LockCounts(q, R)
    BY <1>4
  <2> HIDE DEF q, R
  <2>3. /\ TakeMessage(q, len) \in PipeType /\ TakeMessage(q, len).dead = q.dead
        /\ TakeMessage(q, len).reader_count = q.reader_count
        /\ TakeMessage(q, len).writer_count = q.writer_count
        /\ LockQueued(TakeMessage(q, len), R \ {t})
        /\ LockCounts(TakeMessage(q, len), R \ {t})
    BY <1>5, <2>1, <2>2, LockResumes
  <2> QED
    BY <2>3 DEF q, R
<1> HIDE DEF r
<1>8. /\ pipe' \in [Address -> PipeType]
      /\ pipe'[p] = r /\ \A q \in Address \ {p} : pipe'[q] = pipe[q]
  BY <1>6, <1>7 DEF IInv, Types
<1>9. /\ pc'[t] = "user"
      /\ \A u \in Task \ {t} : pc'[u] = pc[u] /\ rd'[u] = rd[u]
  BY <1>1 DEF IInv, Types
<1>10. /\ Readers(p)' = Readers(p) \ {t}
       /\ \A q \in Address \ {p} : Readers(q)' = Readers(q)
  BY <1>2, <1>9 DEF Readers
<1>11. << NULL, 0 >> \in (Address \cup {NULL}) \X (0 .. MaxLen)
  BY BoundAssumption
<1>12. /\ pc' \in [Task -> {"none", "user", "reading", "exited"}]
       /\ rd' \in [Task -> (Address \cup {NULL}) \X (0 .. MaxLen)]
  BY <1>1, <1>11 DEF IInv, Types
<1>13. ASSUME NEW u \in Task
       PROVE  /\ pc'[u] = "none" => pc[u] = "none"
              /\ pc'[u] = "reading" =>
                    /\ rd'[u] \in Address \X (1 .. MaxLen)
                    /\ \E j \in OpenFds(u) : table[u][j].ptr = rd'[u][1]
  <2>1. CASE u = t
    BY <1>9, <2>1
  <2>2. CASE u # t
    BY <1>9, <2>2 DEF IInv, PointersSound
  <2> QED
    BY <2>1, <2>2
<1>14. UNCHANGED << table, alloc, mqlist >>
  BY <1>1
<1> QED
  BY <1>7, <1>8, <1>10, <1>12, <1>13, <1>14, OnePipeIInv, ZenonT(40)

(***************************************************************************)
(* The close of one descriptor, or of all of them by an exit.              *)
(***************************************************************************)
LEMMA CloseTable ==
    ASSUME Types, TablesFit, NEW t \in Task, pc[t] # "none",
           NEW I \in SUBSET OpenFds(t), CloseFds(t, I),
           \A u \in Task : pc'[u] = "none" => pc[u] = "none"
    PROVE  /\ table' \in [Task -> Seq(FdType)]
           /\ TablesFit'
           /\ OpenFds(t)' = OpenFds(t) \ I
           /\ \A i \in OpenFds(t)' : table'[t][i] = table[t][i]
           /\ \A u \in Task \ {t} : table'[u] = table[u]
           /\ \A access, p :
                 /\ IsFiniteSet(EndsOf(access, p)')
                 /\ Cardinality(EndsOf(access, p)') \in Nat
                 /\ Cardinality(EndsOf(access, p)')
                      = Cardinality(EndsOf(access, p))
                          - Cardinality(I \cap Ends(t, access, p))
<1> DEFINE tab == [i \in DOMAIN table[t] |-> IF i \in I THEN ClosedFd ELSE table[t][i]]
<1>1. table' = [table EXCEPT ![t] = tab]
  BY DEF CloseFds
<1>2. /\ table[t] \in Seq(FdType) /\ DOMAIN table[t] = 1 .. Len(table[t])
      /\ Len(table[t]) \in Nat /\ Len(table[t]) <= MaxFd
      /\ OpenFds(t) \subseteq 1 .. MaxFd
      /\ \A i \in OpenFds(t) : i \in DOMAIN table[t] /\ table[t][i].isopen
  BY TableFacts DEF TablesFit, OpenFds
<1>3. tab \in Seq(FdType) /\ DOMAIN tab = DOMAIN table[t]
  <2>1. \A i \in 1 .. Len(table[t]) : table[t][i] \in FdType
    BY <1>2, ElementOfSeq
  <2>2. ClosedFd \in FdType
    BY DEF FdType
  <2>3. tab \in [1 .. Len(table[t]) -> FdType]
    BY <1>2, <2>1, <2>2
  <2> QED
    BY <1>2, <2>3, SeqDef
<1>4. Len(tab) = Len(table[t])
  BY <1>2, <1>3, LenProperties
<1>5. \A i \in DOMAIN tab : tab[i] = IF i \in I THEN ClosedFd ELSE table[t][i]
  OBVIOUS
<1> HIDE DEF tab
<1>6. table'[t] = tab /\ \A u \in Task \ {t} : table'[u] = table[u]
  BY <1>1 DEF Types
<1>7. OpenIn(tab) = OpenFds(t) \ I
  <2>1. ClosedFd.isopen = FALSE
    BY DEF ClosedFd
  <2> QED
    BY <1>3, <1>5, <2>1 DEF OpenIn, OpenFds
<1>8. OpenFds(t)' = OpenFds(t) \ I
  BY <1>6, <1>7 DEF OpenFds, OpenIn
<1>9. \A i \in OpenFds(t)' : table'[t][i] = table[t][i]
  BY <1>2, <1>3, <1>5, <1>6, <1>8
<1>10. table' \in [Task -> Seq(FdType)]
  BY <1>1, <1>3 DEF Types
<1>11. TablesFit'
  BY <1>2, <1>4, <1>6 DEF TablesFit
<1>12. ASSUME NEW access, NEW p
       PROVE  /\ IsFiniteSet(EndsOf(access, p)')
              /\ Cardinality(EndsOf(access, p)') \in Nat
              /\ Cardinality(EndsOf(access, p)')
                   = Cardinality(EndsOf(access, p))
                       - Cardinality(I \cap Ends(t, access, p))
  <2> DEFINE J == I \cap Ends(t, access, p)
  <2>1. J \in SUBSET (1 .. MaxFd)
    BY <1>2
  <2>2. EndsIn(tab, access, p) = Ends(t, access, p) \ I
    <3>1. \A i \in OpenFds(t) \ I : tab[i] = table[t][i]
      BY <1>6, <1>8, <1>9
    <3> QED
      BY <1>7, <3>1 DEF EndsIn, Ends
  <2>3. /\ Ends(t, access, p) = EndsIn(tab, access, p) \cup J
        /\ J \cap EndsIn(tab, access, p) = {}
    BY <2>2
  <2> HIDE DEF J
  <2>4. Cardinality(EndsOf(access, p)') = Cardinality(EndsOf(access, p)) - Cardinality(J)
    BY <1>2, <1>3, <1>4, <1>6, <2>1, <2>3, CountChange
  <2>5. EndsOf(access, p)' \in SUBSET EndsOf(access, p)
    <3>1. ASSUME NEW u \in Task PROVE Ends(u, access, p)' \subseteq Ends(u, access, p)
      <4>1. CASE u = t
        BY <1>8, <1>9, <4>1 DEF Ends
      <4>2. CASE u # t
        BY <1>6, <4>2 DEF Ends, OpenFds
      <4> QED
        BY <4>1, <4>2
    <3> QED
      BY <3>1 DEF EndsOf
  <2>6. IsFiniteSet(EndsOf(access, p))
    BY TableFacts
  <2>7. IsFiniteSet(EndsOf(access, p)')
    BY <2>5, <2>6, FS_Subset
  <2>8. Cardinality(EndsOf(access, p)') \in Nat
    BY <2>7, FS_CardinalityType
  <2> QED
    BY <2>4, <2>7, <2>8 DEF J
<1> QED
  BY <1>6, <1>8, <1>9, <1>10, <1>11, <1>12

LEMMA CloseFdsIInv ==
    ASSUME IInv, NEW t \in Task, pc[t] = "user",
           NEW I \in SUBSET OpenFds(t), CloseFds(t, I),
           pc' \in [Task -> {"none", "user", "reading", "exited"}],
           pc'[t] \in {"user", "exited"},
           \A u \in Task \ {t} : pc'[u] = pc[u],
           UNCHANGED << mqlist, rd >>
    PROVE  IInv'
<1> DEFINE left(p) ==
              [pipe[p] EXCEPT
                  !.reader_count = @ - Cardinality(I \cap Ends(t, "READ", p)),
                  !.writer_count = @ - Cardinality(I \cap Ends(t, "WRITE", p))]
           touched == {table[t][i].ptr : i \in I \cap OpenFds(t)}
           last == {p \in touched : NoEndLeft(left(p))}
           freed == {table[t][i].ptr :
                       i \in {j \in I \cap OpenFds(t) :
                                table[t][j].kind = "PIPE" /\ table[t][j].ptr \in last}}
<1>1. /\ pipe' = [p \in Address |->
                    IF p \in freed THEN NoPipe
                    ELSE IF p \in last THEN Closed(left(p)) ELSE left(p)]
      /\ alloc' = alloc \ freed
  BY DEF CloseFds
<1>2. \A u \in Task : pc'[u] = "none" => pc[u] = "none"
  OBVIOUS
<1>3. /\ table' \in [Task -> Seq(FdType)] /\ TablesFit'
      /\ OpenFds(t)' = OpenFds(t) \ I
      /\ \A i \in OpenFds(t)' : table'[t][i] = table[t][i]
      /\ \A u \in Task \ {t} : table'[u] = table[u]
      /\ \A access, p :
            /\ IsFiniteSet(EndsOf(access, p)')
            /\ Cardinality(EndsOf(access, p)') \in Nat
            /\ Cardinality(EndsOf(access, p)')
                 = Cardinality(EndsOf(access, p)) - Cardinality(I \cap Ends(t, access, p))
  BY <1>2, CloseTable DEF IInv
<1>4. ASSUME NEW p \in Address
      PROVE  /\ left(p) \in PipeType
             /\ left(p).reader_count = Cardinality(EndsOf("READ", p)')
             /\ left(p).writer_count = Cardinality(EndsOf("WRITE", p)')
             /\ left(p).dead = pipe[p].dead
             /\ left(p).list = pipe[p].list /\ left(p).lock = pipe[p].lock
  <2> DEFINE n == Cardinality(I \cap Ends(t, "READ", p))
             m == Cardinality(I \cap Ends(t, "WRITE", p))
             n2 == Cardinality(EndsOf("READ", p)')
             m2 == Cardinality(EndsOf("WRITE", p)')
             q == pipe[p]
  <2>1. q \in PipeType
    BY DEF IInv, Types
  <2>2. n2 \in Nat /\ m2 \in Nat /\ q.reader_count - n = n2 /\ q.writer_count - m = m2
    BY <1>3 DEF IInv, EndsCounted
  <2> HIDE DEF n, m, n2, m2, q
  <2>3. DEFINE r == [q EXCEPT !.reader_count = n2, !.writer_count = m2]
  <2>4. /\ r \in PipeType /\ r.reader_count = n2 /\ r.writer_count = m2
        /\ r.dead = q.dead /\ r.list = q.list /\ r.lock = q.lock
    BY <2>1, <2>2 DEF PipeType
  <2>5. left(p) = r
    BY <2>2 DEF n, m, q
  <2> QED
    BY <2>4, <2>5 DEF n2, m2, q
<1>5. /\ freed \subseteq last /\ last \subseteq touched /\ touched \subseteq Address
      /\ touched \subseteq alloc
      /\ \A p \in last : left(p).reader_count = 0 /\ left(p).writer_count = 0
  BY PointerFacts DEF NoEndLeft
<1>6. ASSUME NEW p \in freed
      PROVE  \A j \in DOMAIN mqlist : mqlist[j].pipe # p
  <2>1. PICK i \in OpenFds(t) : table[t][i].kind = "PIPE" /\ table[t][i].ptr = p
    OBVIOUS
  <2> HIDE DEF left, freed, last, touched
  <2> QED
    BY <2>1 DEF IInv, PointersSound
<1> HIDE DEF left, freed, last, touched
<1>7. ASSUME NEW p \in Address
      PROVE  /\ pipe'[p] \in PipeType
             /\ pipe'[p].reader_count = Cardinality(EndsOf("READ", p)')
             /\ pipe'[p].writer_count = Cardinality(EndsOf("WRITE", p)')
             /\ p \in last => pipe'[p].dead
             /\ p \notin last => /\ pipe'[p].dead = pipe[p].dead
                                 /\ pipe'[p].list = pipe[p].list
             /\ p \notin freed => pipe'[p].lock = pipe[p].lock
             /\ p \in freed => pipe'[p] = NoPipe
  <2>1. << >> \in Seq(0 .. MaxLen)
    BY EmptySeq
  <2>2. CASE p \in freed
    <3>1. pipe'[p] = NoPipe /\ p \in last
      BY <1>1, <1>5, <2>2
    <3>2. /\ NoPipe.reader_count = 0 /\ NoPipe.writer_count = 0 /\ NoPipe.dead
          /\ NoPipe \in PipeType
      BY LockNew, NoPipeFields
    <3> QED
      BY <1>4, <1>5, <2>2, <3>1, <3>2
  <2>3. CASE p \in last \ freed
    <3> DEFINE l == left(p)
    <3>1. pipe'[p] = Closed(l) /\ l \in PipeType /\ l.lock = pipe[p].lock
      BY <1>1, <1>4, <2>3
    <3>2. /\ l.reader_count = Cardinality(EndsOf("READ", p)')
          /\ l.writer_count = Cardinality(EndsOf("WRITE", p)')
      BY <1>4
    <3> HIDE DEF l
    <3>3. /\ Closed(l) \in PipeType /\ Closed(l).dead /\ Closed(l).lock = l.lock
          /\ Closed(l).reader_count = l.reader_count
          /\ Closed(l).writer_count = l.writer_count
      BY <2>1, <3>1 DEF Closed, PipeType
    <3> QED
      BY <2>3, <3>1, <3>2, <3>3
  <2>4. CASE p \notin last
    <3>1. pipe'[p] = left(p) /\ p \notin freed
      BY <1>1, <1>5, <2>4
    <3> QED
      BY <1>4, <2>4, <3>1
  <2> QED
    BY <1>5, <2>2, <2>3, <2>4
<1>8. ASSUME NEW u \in Task, NEW i \in OpenFds(u)'
      PROVE  /\ i \in OpenFds(u) /\ table'[u][i] = table[u][i]
             /\ table'[u][i].ptr \in Address /\ table'[u][i].ptr \notin last
  <2>1. i \in OpenFds(u) /\ table'[u][i] = table[u][i]
    <3>1. CASE u = t
      BY <1>3, <3>1
    <3>2. CASE u # t
      BY <1>3, <3>2 DEF OpenFds
    <3> QED
      BY <3>1, <3>2
  <2>2. PICK p \in Address, a \in {"READ", "WRITE"} :
          p = table[u][i].ptr /\ a = table[u][i].access /\ i \in 1 .. MaxFd
    BY <2>1, TableFacts DEF IInv
  <2>3. i \in Ends(u, a, p)'
    BY <2>1, <2>2 DEF Ends
  <2>4. << u, i >> \in EndsOf(a, p)'
    BY <2>2, <2>3 DEF EndsOf
  <2>5. p \notin last
    <3>1. ASSUME p \in last PROVE FALSE
      <4>1. Cardinality(EndsOf(a, p)') = 0
        BY <1>4, <1>5, <2>2, <3>1
      <4>2. IsFiniteSet(EndsOf(a, p)')
        BY <1>3
      <4>3. EndsOf(a, p)' = {}
        BY <4>1, <4>2, FS_EmptySet
      <4> QED
        BY <2>4, <4>3
    <3> QED
      BY <3>1
  <2> QED
    BY <2>1, <2>2, <2>5
<1>9. Types'
  <2>1. pipe' \in [Address -> PipeType]
    BY <1>1, <1>7
  <2> QED
    BY <1>1, <1>3, <2>1 DEF IInv, Types
<1>10. EndsCounted'
  BY <1>7 DEF EndsCounted
<1>11. PointersSound'
  <2>1. ASSUME NEW u \in Task, NEW i \in OpenFds(u)'
        PROVE  /\ table'[u][i].ptr \in alloc' /\ ~ pipe'[table'[u][i].ptr].dead
               /\ table'[u][i].kind = "PIPE" =>
                     \A j \in DOMAIN mqlist' : mqlist'[j].pipe # table'[u][i].ptr
    <3>1. table[u][i].ptr \in alloc /\ ~ pipe[table[u][i].ptr].dead
      BY <1>8, PointerFacts
    <3>2. table[u][i].kind = "PIPE" =>
             \A j \in DOMAIN mqlist : mqlist[j].pipe # table[u][i].ptr
      BY <1>8 DEF IInv, PointersSound
    <3> QED
      BY <1>1, <1>5, <1>7, <1>8, <3>1, <3>2
  <2>2. ASSUME NEW u \in Task, pc'[u] = "reading"
        PROVE  /\ rd'[u] \in Address \X (1 .. MaxLen)
               /\ \E i \in OpenFds(u)' : table'[u][i].ptr = rd'[u][1]
    <3>1. u # t /\ pc[u] = "reading" /\ rd'[u] = rd[u]
      BY <2>2
    <3>2. OpenFds(u)' = OpenFds(u) /\ table'[u] = table[u]
      BY <1>3, <3>1 DEF OpenFds
    <3> QED
      BY <3>1, <3>2 DEF IInv, PointersSound
  <2>3. \A i \in DOMAIN mqlist' : mqlist'[i].pipe \in alloc'
    BY <1>1, <1>6 DEF IInv, PointersSound
  <2>4. \A p \in Address \ alloc' : pipe'[p].dead
    BY <1>1, <1>5, <1>7 DEF IInv, PointersSound
  <2> QED
    BY <2>1, <2>2, <2>3, <2>4 DEF PointersSound
<1>12. LocksSound'
  <2>1. ASSUME NEW p \in Address
        PROVE  /\ LockQueued(pipe'[p], Readers(p)')
               /\ ~ pipe'[p].dead => LockCounts(pipe'[p], Readers(p)')
    <3>1. Readers(p)' = Readers(p)
      BY DEF Readers
    <3>2. LockQueued(pipe[p], Readers(p)) /\ (~ pipe[p].dead => LockCounts(pipe[p], Readers(p)))
      BY DEF IInv, LocksSound
    <3>3. CASE p \in freed
      <4>1. pipe'[p] = NoPipe /\ pipe'[p].dead
        BY <1>7, <3>3, NoPipeFields
      <4>2. LockQueued(NoPipe, Readers(p))
        BY LockNew DEF LockQueued
      <4> QED
        BY <3>1, <4>1, <4>2
    <3>4. CASE p \notin freed
      <4>1. pipe'[p].lock = pipe[p].lock
        BY <1>7, <3>4
      <4>2. LockQueued(pipe'[p], Readers(p))
        BY <3>2, <4>1 DEF LockQueued
      <4>3. ASSUME ~ pipe'[p].dead PROVE LockCounts(pipe'[p], Readers(p))
        <5>1. pipe'[p].list = pipe[p].list /\ ~ pipe[p].dead
          BY <1>7, <4>3
        <5> QED
          BY <3>2, <4>1, <5>1 DEF LockCounts
      <4> QED
        BY <3>1, <4>2, <4>3
    <3> QED
      BY <3>3, <3>4
  <2> QED
    BY <2>1 DEF LocksSound
<1>13. QueueNamesUnique'
  BY DEF IInv, QueueNamesUnique
<1> QED
  BY <1>3, <1>9, <1>10, <1>11, <1>12, <1>13 DEF IInv

LEMMA syscall_closeIInv ==
    ASSUME IInv, NEW t \in Task, NEW i, syscall_close(t, i)
    PROVE  IInv'
<1>1. /\ pc[t] = "user" /\ i \in OpenFds(t) /\ CloseFds(t, {i})
      /\ UNCHANGED << mqlist, pc, rd >>
  BY DEF syscall_close
<1>2. {i} \in SUBSET OpenFds(t)
  BY <1>1
<1>3. /\ pc' \in [Task -> {"none", "user", "reading", "exited"}]
      /\ pc'[t] \in {"user", "exited"} /\ \A u \in Task \ {t} : pc'[u] = pc[u]
  BY <1>1 DEF IInv, Types
<1> QED
  BY <1>1, <1>2, <1>3, CloseFdsIInv

LEMMA syscall_exitIInv ==
    ASSUME IInv, NEW t \in Task, syscall_exit(t)
    PROVE  IInv'
<1>1. /\ pc[t] = "user" /\ CloseFds(t, OpenFds(t))
      /\ pc' = [pc EXCEPT ![t] = "exited"]
      /\ UNCHANGED << mqlist, rd >>
  BY DEF syscall_exit
<1>2. /\ pc' \in [Task -> {"none", "user", "reading", "exited"}]
      /\ pc'[t] \in {"user", "exited"} /\ \A u \in Task \ {t} : pc'[u] = pc[u]
  BY <1>1 DEF IInv, Types
<1>3. OpenFds(t) \in SUBSET OpenFds(t)
  OBVIOUS
<1> QED
  BY <1>1, <1>2, <1>3, CloseFdsIInv

(***************************************************************************)
(* The theorems.                                                           *)
(***************************************************************************)
LEMMA NextIInv == IInv /\ [Next]_vars => IInv'
<1> SUFFICES ASSUME IInv, [Next]_vars PROVE IInv'
  OBVIOUS
<1>1. CASE Next
  <2>1. PICK t \in Task :
          \/ syscall_pipe(t)
          \/ \E name \in Name : syscall_mqopen(t, name)
          \/ \E i \in 1 .. MaxFd : syscall_dup(t, i) \/ syscall_close(t, i)
          \/ \E new \in Task : task_fork(t, new)
          \/ syscall_exit(t)
          \/ \E i \in 1 .. MaxFd, len \in 0 .. MaxLen : syscall_write(t, i, len)
          \/ \E i \in 1 .. MaxFd, len \in 1 .. MaxLen :
                ReadSleeps(t, i, len) \/ ReadAtOnce(t, i, len)
          \/ ReadResumes(t)
    BY <1>1 DEF Next
  <2>2. CASE syscall_pipe(t)
    BY <2>2, syscall_pipeIInv
  <2>3. CASE \E name \in Name : syscall_mqopen(t, name)
    BY <2>3, syscall_mqopenIInv
  <2>4. CASE \E i \in 1 .. MaxFd : syscall_dup(t, i)
    BY <2>4, syscall_dupIInv
  <2>5. CASE \E i \in 1 .. MaxFd : syscall_close(t, i)
    BY <2>5, syscall_closeIInv
  <2>6. CASE \E new \in Task : task_fork(t, new)
    BY <2>6, task_forkIInv
  <2>7. CASE syscall_exit(t)
    BY <2>7, syscall_exitIInv
  <2>8. CASE \E i \in 1 .. MaxFd, len \in 0 .. MaxLen : syscall_write(t, i, len)
    BY <2>8, syscall_writeIInv
  <2>9. CASE \E i \in 1 .. MaxFd, len \in 1 .. MaxLen : ReadSleeps(t, i, len)
    BY <2>9, ReadSleepsIInv
  <2>10. CASE \E i \in 1 .. MaxFd, len \in 1 .. MaxLen : ReadAtOnce(t, i, len)
    BY <2>10, ReadAtOnceIInv
  <2>11. CASE ReadResumes(t)
    BY <2>11, ReadResumesIInv
  <2> QED
    BY <2>1, <2>2, <2>3, <2>4, <2>5, <2>6, <2>7, <2>8, <2>9, <2>10, <2>11
<1>2. CASE UNCHANGED vars
  <2>1. /\ table' = table /\ pipe' = pipe /\ alloc' = alloc
        /\ mqlist' = mqlist /\ pc' = pc /\ rd' = rd
    BY <1>2 DEF vars
  <2>2. (\A u : OpenFds(u)' = OpenFds(u)) /\ (\A p : Readers(p)' = Readers(p))
    BY <2>1 DEF OpenFds, Readers
  <2>3. \A access, p : EndsOf(access, p)' = EndsOf(access, p)
    BY <2>1, <2>2 DEF EndsOf, Ends
  <2>4. Types' /\ TablesFit' /\ EndsCounted'
    BY <2>1, <2>3 DEF IInv, Types, TablesFit, EndsCounted
  <2>5. PointersSound' /\ LocksSound' /\ QueueNamesUnique'
    BY <2>1, <2>2 DEF IInv, PointersSound, LocksSound, QueueNamesUnique
  <2> QED
    BY <2>4, <2>5 DEF IInv
<1> QED
  BY <1>1, <1>2

\* The inductive invariant holds whatever tasks fork, open, copy, close, write
\* and read, however many tasks, pipes and names there are.
THEOREM Invariance == Spec => []IInv
  BY InitIInv, NextIInv, PTL DEF Spec

\* pipe_close_rd and pipe_close_wr destroy a pipe by its two counts: they are
\* the numbers of descriptors still open at each end, after any dup and fork.
THEOREM EndsAreCounted == Spec => []CountsExact
<1>1. IInv => CountsExact
  <2> SUFFICES ASSUME IInv PROVE CountsExact
    OBVIOUS
  <2>1. \A p \in Address : pipe[p] \in PipeType
    BY DEF IInv, Types
  <2>2. \A p \in Address :
           /\ pipe[p].list \in Seq(0 .. MaxLen)
           /\ pipe[p].reader_count \in Nat /\ pipe[p].writer_count \in Nat
           /\ pipe[p].dead \in BOOLEAN
           /\ pipe[p].lock.value \in Int /\ pipe[p].lock.sq \in Seq(Task)
    BY <2>1 DEF PipeType
  <2>3. TypeOK
    BY <2>2 DEF IInv, Types, TypeOK, FdType
  <2> QED
    BY <2>3 DEF IInv, Types, EndsCounted, CountsExact
<1> QED
  BY <1>1, Invariance, PTL

\* pipe_read peeks at the list without looking whether it is empty: a reader
\* woken by the semaphore finds a message, and none sleeps beside a free one.
THEOREM MessagesAreCounted == Spec => []MessagesCounted
<1>1. IInv => MessagesCounted
  <2> SUFFICES ASSUME IInv, NEW p \in alloc, ~ pipe[p].dead
               PROVE  LET unpromised == Len(pipe[p].list) - Cardinality(Woken(p))
                          value == pipe[p].lock.value
                      IN  /\ unpromised >= 0
                          /\ value = unpromised - Len(pipe[p].lock.sq)
                          /\ pipe[p].lock.sq # << >> => unpromised = 0
    BY DEF MessagesCounted
  <2>1. p \in Address
    BY DEF IInv, Types
  <2>2. LockCounts(pipe[p], Readers(p))
    BY <2>1 DEF IInv, LocksSound
  <2>3. Woken(p) = Readers(p) \ Range(pipe[p].lock.sq)
    BY DEF Woken, Readers
  <2> QED
    BY <2>2, <2>3 DEF LockCounts, Counted
<1> QED
  BY <1>1, Invariance, PTL

\* pipe_free is called while descriptors of other tasks, readers asleep and
\* mqlist hold pointers to pipes: none of them is to the pipe that is freed.
THEOREM NothingDangles == Spec => []NoDanglingPipe
<1>1. IInv => NoDanglingPipe
  BY DEF IInv, PointersSound, NoDanglingPipe
<1> QED
  BY <1>1, Invariance, PTL

\* mqlist_open, which reuses the entries of dead queues, never makes a name
\* stand for two queues, nor a queue have two names.
THEOREM QueueNamesAreUnique == Spec => []QueueNamesUnique
<1>1. IInv => QueueNamesUnique
  BY DEF IInv
<1> QED
  BY <1>1, Invariance, PTL

=============================================================================
