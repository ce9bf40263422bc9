----------------------------- MODULE DiskProofs -----------------------------
(***************************************************************************)
(* The file system on the disk, for any tree of names, any numbers of      *)
(* tasks and sectors, and any calls: what paths resolve to, and which      *)
(* reads go past their buffers.                                            *)
(***************************************************************************)
EXTENDS FsDisk, QueueLemmas

(* Functions defined from one number to the next. *)

\* What holds of 0 and of each number after one it holds of, holds up to n.
LEMMA UpTo ==
    ASSUME NEW n \in Nat, NEW T, 0 \in T, \A i \in 1 .. n : i - 1 \in T => i \in T
    PROVE  \A i \in 0 .. n : i \in T
<1> DEFINE Left == {i \in 0 .. n : i \notin T}
<1> SUFFICES ASSUME Left # {} PROVE FALSE
  OBVIOUS
<1>1. Left \in SUBSET (0 .. n) /\ IsFiniteSet(0 .. n)
  BY FS_Interval
<1>2. IsFiniteSet(Left)
  BY <1>1, FS_Subset
<1>3. Left \in SUBSET Int
  BY <1>1
<1> HIDE DEF Left
<1>4. PICK m \in Left : \A i \in Left : m <= i
  BY <1>2, <1>3, SetEnds
<1>5. m \in 0 .. n /\ m \notin T
  BY <1>4 DEF Left
<1>6. m \in 1 .. n /\ m - 1 \notin Left
  BY <1>3, <1>4, <1>5
<1>7. m - 1 \in T
  BY <1>6 DEF Left
<1> QED
  BY <1>5, <1>6, <1>7

\* A step taken n times.
Iterates(f, start, n, step) ==
    f[0] = start /\ \A i \in 1 .. n : f[i] = step[<< f[i - 1], i >>]

LEMMA Repeated ==
    ASSUME NEW S, NEW start \in S, NEW n \in Nat, NEW step \in [S \X (1 .. n) -> S]
    PROVE  \E f \in [0 .. n -> S] : Iterates(f, start, n, step)
<1> DEFINE Fits(f, m) == f \in [0 .. m -> S] /\ Iterates(f, start, m, step)
           T == {m \in 0 .. n : \E f \in [0 .. m -> S] : Fits(f, m)}
<1>1. 0 \in T
  <2> DEFINE f == [i \in 0 .. 0 |-> start]
  <2>1. f \in [0 .. 0 -> S] /\ f[0] = start /\ 1 .. 0 = {}
    OBVIOUS
  <2>2. Fits(f, 0) /\ 0 \in 0 .. n
    BY <2>1 DEF Iterates
  <2> HIDE DEF f, Fits
  <2> QED
    BY <2>1, <2>2
<1>2. ASSUME NEW m \in 1 .. n, m - 1 \in T PROVE m \in T
  <2>1. PICK g \in [0 .. m - 1 -> S] : Fits(g, m - 1)
    BY <1>2
  <2> DEFINE last == step[<< g[m - 1], m >>]
             f == [i \in 0 .. m |-> IF i = m THEN last ELSE g[i]]
  <2>2. last \in S
    BY <2>1
  <2>3. /\ f \in [0 .. m -> S] /\ f[0] = g[0] /\ f[m] = last
        /\ \A i \in 0 .. m - 1 : f[i] = g[i]
    BY <2>1, <2>2
  <2> HIDE DEF f
  <2>4. ASSUME NEW i \in 1 .. m PROVE f[i] = step[<< f[i - 1], i >>]
    <3>1. i - 1 \in 0 .. m - 1
      OBVIOUS
    <3>2. CASE i = m
      BY <2>3, <3>1, <3>2
    <3>3. CASE i # m
      <4>1. i \in 1 .. m - 1 /\ i \in 0 .. m - 1
        BY <3>3
      <4> QED
        BY <2>1, <2>3, <3>1, <4>1 DEF Iterates
    <3> QED
      BY <3>2, <3>3
  <2>5. Fits(f, m)
    BY <2>1, <2>3, <2>4 DEF Iterates
  <2> QED
    BY <2>3, <2>5
<1> HIDE DEF T
<1>3. n \in T
  <2>1. n \in 0 .. n
    OBVIOUS
  <2> QED
    BY <1>1, <1>2, <2>1, UpTo
<1> QED
  BY <1>3 DEF T

---------------------------------------------------------------------------
(* Paths. *)

\* What the texts are made of, over any names, and what they are parsed to.
Dots == {Up, Here, Empty}
Bufs(N) == [is_absolute : BOOLEAN, back : Nat, fields : Seq(N)]

\* A list without its last.
LEMMA FrontFacts ==
    ASSUME NEW N, NEW w \in Seq(N), w # << >>
    PROVE  /\ Len(w) \in Nat \ {0}
           /\ Front(w) = SubSeq(w, 1, Len(w) - 1)
           /\ Front(w) \in Seq(N) /\ Len(Front(w)) = Len(w) - 1
           /\ \A i \in 1 .. Len(w) - 1 : Front(w)[i] = w[i]
<1>1. Len(w) \in Nat \ {0}
  BY EmptySeq
<1>2. Front(w) = SubSeq(w, 1, Len(w) - 1)
  BY DEF Front
<1>3. \A i \in 1 .. Len(w) - 1 : w[i] \in N
  BY <1>1, ElementOfSeq
<1>4. /\ SubSeq(w, 1, Len(w) - 1) \in Seq(N)
      /\ Len(SubSeq(w, 1, Len(w) - 1)) = Len(w) - 1
      /\ \A i \in 1 .. Len(w) - 1 : SubSeq(w, 1, Len(w) - 1)[i] = w[i]
  <2>1. Len(w) - 1 \in Int /\ 1 \in Int
    BY <1>1
  <2>2. /\ SubSeq(w, 1, Len(w) - 1) \in Seq(N)
        /\ Len(SubSeq(w, 1, Len(w) - 1)) = IF 1 <= Len(w) - 1 THEN (Len(w) - 1) - 1 + 1 ELSE 0
        /\ \A i \in 1 .. (Len(w) - 1) - 1 + 1 : SubSeq(w, 1, Len(w) - 1)[i] = w[1 + i - 1]
    BY <1>3, <2>1, SubSeqProperties
  <2>3. ASSUME NEW i \in 1 .. Len(w) - 1 PROVE SubSeq(w, 1, Len(w) - 1)[i] = w[i]
    <3>1. i \in 1 .. (Len(w) - 1) - 1 + 1 /\ 1 + i - 1 = i
      BY <1>1
    <3> QED
      BY <2>2, <3>1
  <2>4. (IF 1 <= Len(w) - 1 THEN (Len(w) - 1) - 1 + 1 ELSE 0) = Len(w) - 1
    <3> DEFINE k == Len(w)
    <3>1. k \in Nat \ {0}
      BY <1>1
    <3> HIDE DEF k
    <3>2. (IF 1 <= k - 1 THEN (k - 1) - 1 + 1 ELSE 0) = k - 1
      BY <3>1
    <3> QED
      BY <3>2 DEF k
  <2> QED
    BY <2>2, <2>3, <2>4
<1> QED
  BY <1>1, <1>2, <1>4

\* The parts of a text, one by one.
LEMMA ParsedType ==
    ASSUME NEW N, NEW buf \in Bufs(N), NEW part \in N \cup Dots
    PROVE  Parsed(buf, part) \in Bufs(N)
<1>1. StepBack(buf) \in Bufs(N)
  BY FrontFacts DEF StepBack, Bufs
<1>2. part \in N => pathbuf_child(buf, part) \in Bufs(N)
  BY AppendProperties DEF pathbuf_child, Bufs
<1> QED
  BY <1>1, <1>2 DEF Parsed, Dots

LEMMA WalkToType ==
    ASSUME NEW N, NEW at \in Seq(N), NEW part \in N \cup Dots
    PROVE  WalkTo(at, part) \in Seq(N)
<1>1. at # << >> => Front(at) \in Seq(N)
  BY FrontFacts
<1>2. part \in N => Append(at, part) \in Seq(N)
  BY AppendProperties
<1> QED
  BY <1>1, <1>2 DEF WalkTo, Dots

\* pathbuf_parse reads a text from its first part to its last.
LEMMA ParseSteps ==
    ASSUME NEW N, NEW text \in Seq(N \cup Dots)
    PROVE  \E R \in [0 .. Len(text) -> Bufs(N)] :
               /\ R[0] = [pathbuf_root EXCEPT !.is_absolute = IsAbsolute(text)]
               /\ \A i \in 1 .. Len(text) : R[i] = Parsed(R[i - 1], text[i])
               /\ pathbuf_parse(text) = R[Len(text)]
<1> DEFINE n == Len(text)
           start == [pathbuf_root EXCEPT !.is_absolute = IsAbsolute(text)]
           step == [x \in Bufs(N) \X (1 .. n) |-> Parsed(x[1], text[x[2]])]
           Unfolded(f) == [i \in 0 .. n |-> IF i = 0 THEN start ELSE Parsed(f[i - 1], text[i])]
<1>1. n \in Nat /\ \A i \in 1 .. n : text[i] \in N \cup Dots
  BY LenProperties, ElementOfSeq
<1>2. start \in Bufs(N)
  BY EmptySeq DEF Bufs, pathbuf_root, IsAbsolute
<1>3. step \in [Bufs(N) \X (1 .. n) -> Bufs(N)]
  BY <1>1, ParsedType
<1>4. \A b \in Bufs(N), i \in 1 .. n : step[<< b, i >>] = Parsed(b, text[i])
  OBVIOUS
<1> HIDE DEF n, start, step
<1>5. PICK R \in [0 .. n -> Bufs(N)] :
          R[0] = start /\ \A i \in 1 .. n : R[i] = step[<< R[i - 1], i >>]
  <2> DEFINE S == Bufs(N)
  <2>1. n \in Nat /\ start \in S /\ step \in [S \X (1 .. n) -> S]
    BY <1>1, <1>2, <1>3
  <2> HIDE DEF S
  <2>2. \E f \in [0 .. n -> S] : Iterates(f, start, n, step)
    BY <2>1, Repeated
  <2> QED
    BY <2>2 DEF S, Iterates
<1>6. \A i \in 1 .. n : R[i] = Parsed(R[i - 1], text[i])
  <2>1. ASSUME NEW i \in 1 .. n PROVE R[i - 1] \in Bufs(N)
    BY <1>1
  <2> QED
    BY <1>4, <1>5, <2>1
<1>7. R = Unfolded(R)
  <2>1. \A i \in 0 .. n : R[i] = IF i = 0 THEN start ELSE Parsed(R[i - 1], text[i])
    BY <1>1, <1>5, <1>6
  <2>2. R = [i \in 0 .. n |-> R[i]]
    BY <1>5
  <2> QED
    BY <2>1, <2>2, Zenon
<1>8. \E f : f = Unfolded(f) /\ pathbuf_parse(text) = f[n]
  BY <1>7 DEF pathbuf_parse, n, start
<1>9. PICK f : f = Unfolded(f) /\ pathbuf_parse(text) = f[n]
  BY <1>8
<1>10. f[n] = R[n]
  <2> DEFINE T == {i \in 0 .. n : f[i] = R[i]}
  <2>1. \A i \in 0 .. n : f[i] = IF i = 0 THEN start ELSE Parsed(f[i - 1], text[i])
    BY <1>9
  <2>2. 0 \in T
    BY <1>1, <1>5, <2>1
  <2>3. ASSUME NEW i \in 1 .. n, i - 1 \in T PROVE i \in T
    BY <1>1, <1>6, <2>1, <2>3
  <2>4. n \in 0 .. n
    BY <1>1
  <2> HIDE DEF T
  <2>5. n \in T
    BY <1>1, <2>2, <2>3, <2>4, UpTo
  <2> QED
    BY <2>5 DEF T
<1> QED
  BY <1>5, <1>6, <1>9, <1>10 DEF n, start

\* So does the walk.
Walks(W, at, text) ==
    /\ W[0] = IF IsAbsolute(text) THEN << >> ELSE at
    /\ \A i \in 1 .. Len(text) : W[i] = WalkTo(W[i - 1], text[i])
    /\ Walk(at, text) = W[Len(text)]

LEMMA WalkSteps ==
    ASSUME NEW N, NEW text \in Seq(N \cup Dots), NEW at \in Seq(N)
    PROVE  \E W \in [0 .. Len(text) -> Seq(N)] : Walks(W, at, text)
<1> DEFINE n == Len(text)
           start == IF IsAbsolute(text) THEN << >> ELSE at
           step == [x \in Seq(N) \X (1 .. n) |-> WalkTo(x[1], text[x[2]])]
           Unfolded(f) == [i \in 0 .. n |-> IF i = 0 THEN start ELSE WalkTo(f[i - 1], text[i])]
<1>1. n \in Nat /\ \A i \in 1 .. n : text[i] \in N \cup Dots
  BY LenProperties, ElementOfSeq
<1>2. start \in Seq(N)
  BY EmptySeq
<1>3. step \in [Seq(N) \X (1 .. n) -> Seq(N)]
  BY <1>1, WalkToType
<1>4. \A b \in Seq(N), i \in 1 .. n : step[<< b, i >>] = WalkTo(b, text[i])
  OBVIOUS
<1> HIDE DEF n, start, step
<1>5. PICK W \in [0 .. n -> Seq(N)] :
          W[0] = start /\ \A i \in 1 .. n : W[i] = step[<< W[i - 1], i >>]
  <2> DEFINE S == Seq(N)
  <2>1. n \in Nat /\ start \in S /\ step \in [S \X (1 .. n) -> S]
    BY <1>1, <1>2, <1>3
  <2> HIDE DEF S
  <2>2. \E f \in [0 .. n -> S] : Iterates(f, start, n, step)
    BY <2>1, Repeated
  <2> QED
    BY <2>2 DEF S, Iterates
<1>6. \A i \in 1 .. n : W[i] = WalkTo(W[i - 1], text[i])
  <2>1. ASSUME NEW i \in 1 .. n PROVE W[i - 1] \in Seq(N)
    BY <1>1
  <2> QED
    BY <1>4, <1>5, <2>1
<1>7. W = Unfolded(W)
  <2>1. \A i \in 0 .. n : W[i] = IF i = 0 THEN start ELSE WalkTo(W[i - 1], text[i])
    BY <1>1, <1>5, <1>6
  <2>2. W = [i \in 0 .. n |-> W[i]]
    BY <1>5
  <2> QED
    BY <2>1, <2>2, Zenon
<1>8. \E f : f = Unfolded(f) /\ Walk(at, text) = f[n]
  BY <1>7 DEF Walk, n, start
<1>9. PICK f : f = Unfolded(f) /\ Walk(at, text) = f[n]
  BY <1>8
<1>10. f[n] = W[n]
  <2> DEFINE T == {i \in 0 .. n : f[i] = W[i]}
  <2>1. \A i \in 0 .. n : f[i] = IF i = 0 THEN start ELSE WalkTo(f[i - 1], text[i])
    BY <1>9
  <2>2. 0 \in T
    BY <1>1, <1>5, <2>1
  <2>3. ASSUME NEW i \in 1 .. n, i - 1 \in T PROVE i \in T
    BY <1>1, <1>6, <2>1, <2>3
  <2>4. n \in 0 .. n
    BY <1>1
  <2> HIDE DEF T
  <2>5. n \in T
    BY <1>1, <2>2, <2>3, <2>4, UpTo
  <2> QED
    BY <2>5 DEF T
<1> QED
  BY <1>5, <1>6, <1>9, <1>10 DEF n, start, Walks

\* The names of a directory that are left k directories further up.
Upward(w, k) == SubSeq(w, 1, IF k <= Len(w) THEN Len(w) - k ELSE 0)

\* Whoever goes up to the root stays there.
LEMMA UpwardFacts ==
    ASSUME NEW N, NEW w \in Seq(N), NEW k \in Nat
    PROVE  /\ Upward(w, 0) = w
           /\ Upward(w, k) \in Seq(N)
           /\ Upward(w, k) = << >> => Upward(w, k + 1) = << >>
           /\ Upward(w, k) # << >> => Upward(w, k + 1) = Front(Upward(w, k))
<1>1. Len(w) \in Nat /\ \A i \in 1 .. Len(w) : w[i] \in N
  BY LenProperties, ElementOfSeq
<1>2. ASSUME NEW j \in 0 .. Len(w)
      PROVE  /\ SubSeq(w, 1, j) \in Seq(N) /\ Len(SubSeq(w, 1, j)) = j
             /\ \A i \in 1 .. j : SubSeq(w, 1, j)[i] = w[i]
  <2>1. 1 \in Int /\ j \in Int /\ \A i \in 1 .. j : w[i] \in N
    BY <1>1
  <2>2. /\ SubSeq(w, 1, j) \in Seq(N)
        /\ Len(SubSeq(w, 1, j)) = IF 1 <= j THEN j - 1 + 1 ELSE 0
        /\ \A i \in 1 .. j - 1 + 1 : SubSeq(w, 1, j)[i] = w[1 + i - 1]
    BY <2>1, SubSeqProperties
  <2>3. (IF 1 <= j THEN j - 1 + 1 ELSE 0) = j
    BY <1>1
  <2>4. ASSUME NEW i \in 1 .. j PROVE SubSeq(w, 1, j)[i] = w[i]
    <3>1. i \in 1 .. j - 1 + 1 /\ 1 + i - 1 = i
      BY <1>1
    <3> QED
      BY <2>2, <3>1
  <2> QED
    BY <2>2, <2>3, <2>4
<1>3. SubSeq(w, 1, Len(w)) = w
  BY SubSeqFull
<1>4. SubSeq(w, 1, 0) = << >>
  BY SubSeqEmpty
<1> DEFINE left(i) == IF i <= Len(w) THEN Len(w) - i ELSE 0
<1>5. \A i \in Nat : left(i) \in 0 .. Len(w) /\ Upward(w, i) = SubSeq(w, 1, left(i))
  BY <1>1 DEF Upward
<1>6. /\ left(0) = Len(w) /\ left(k + 1) = (IF left(k) = 0 THEN 0 ELSE left(k) - 1)
      /\ k + 1 \in Nat
  BY <1>1
<1> HIDE DEF left
<1>7. Upward(w, 0) = w
  BY <1>3, <1>5, <1>6
<1>8. Upward(w, k) \in Seq(N) /\ Len(Upward(w, k)) = left(k)
  BY <1>2, <1>5
<1>9. ASSUME Upward(w, k) = << >> PROVE Upward(w, k + 1) = << >>
  <2>1. left(k) = 0
    BY <1>8, <1>9, EmptySeq
  <2> QED
    BY <1>4, <1>5, <1>6, <2>1
<1>10. ASSUME Upward(w, k) # << >> PROVE Upward(w, k + 1) = Front(Upward(w, k))
  <2> DEFINE u == Upward(w, k)
             v == Upward(w, k + 1)
             j == left(k)
  <2>1. j \in Nat \ {0} /\ Len(u) = j /\ u \in Seq(N)
    BY <1>5, <1>8, <1>10, EmptySeq
  <2>2. /\ Front(u) \in Seq(N) /\ Len(Front(u)) = j - 1
        /\ \A i \in 1 .. j - 1 : Front(u)[i] = u[i]
    BY <1>10, <2>1, FrontFacts
  <2>3. v = SubSeq(w, 1, j - 1) /\ u = SubSeq(w, 1, j) /\ j \in 0 .. Len(w)
        /\ j - 1 \in 0 .. Len(w)
    BY <1>1, <1>5, <1>6, <2>1
  <2>4. /\ v \in Seq(N) /\ Len(v) = j - 1
        /\ \A i \in 1 .. j - 1 : v[i] = w[i]
    BY <1>2, <2>3
  <2>5. \A i \in 1 .. j : u[i] = w[i]
    BY <1>2, <2>3
  <2> HIDE DEF u, v, j
  <2>6. \A i \in 1 .. Len(v) : v[i] = Front(u)[i]
    BY <2>1, <2>2, <2>4, <2>5
  <2>7. v = Front(u)
    BY <2>2, <2>4, <2>6, SeqEqual
  <2> QED
    BY <2>7 DEF u, v
<1> QED
  BY <1>7, <1>8, <1>9, <1>10

\* The fields of a path from the root, which is all that pathbuf_of sets.
LEMMA PathbufFields ==
    ASSUME NEW w
    PROVE  /\ pathbuf_of(w) = [is_absolute |-> TRUE, back |-> 0, fields |-> w]
           /\ pathbuf_of(w).fields = w /\ pathbuf_of(w).is_absolute
           /\ pathbuf_of(w).back = 0
           /\ \A v : [pathbuf_of(w) EXCEPT !.fields = v] = pathbuf_of(v)
<1> DEFINE K == {"is_absolute", "back", "fields"}
           path(u) == [is_absolute |-> TRUE, back |-> 0, fields |-> u]
<1>1. ASSUME NEW u, NEW v PROVE [path(u) EXCEPT !.fields = v] = path(v)
  <2> DEFINE x == [path(u) EXCEPT !.fields = v]
             y == path(v)
  <2>1. x = [k \in K |-> x[k]] /\ y = [k \in K |-> y[k]]
    OBVIOUS
  <2>2. x["is_absolute"] = y["is_absolute"] /\ x["back"] = y["back"] /\ x["fields"] = y["fields"]
    OBVIOUS
  <2> HIDE DEF x, y
  <2>3. x = y
    BY <2>1, <2>2
  <2> QED
    BY <2>3 DEF x, y
<1>2. \A v : pathbuf_of(v) = path(v)
  BY <1>1 DEF pathbuf_of, pathbuf_root
<1> QED
  BY <1>1, <1>2

\* pathbuf_join goes back as often as the path says, and then down its names.
LEMMA JoinUpward ==
    ASSUME NEW N, NEW w \in Seq(N), NEW buf \in Bufs(N), ~ buf.is_absolute
    PROVE  pathbuf_join(pathbuf_of(w), buf) = pathbuf_of(Upward(w, buf.back) \o buf.fields)
<1> DEFINE n == buf.back
           Unfolded(f) == [i \in 0 .. n |-> IF i = 0 THEN pathbuf_of(w) ELSE StepBack(f[i - 1])]
           g == [i \in 0 .. n |-> pathbuf_of(Upward(w, i))]
<1>1. n \in Nat
  BY DEF Bufs
<1> HIDE DEF n
<1>2. ASSUME NEW k \in Nat PROVE StepBack(pathbuf_of(Upward(w, k))) = pathbuf_of(Upward(w, k + 1))
  <2>1. CASE Upward(w, k) = << >>
    BY <2>1, PathbufFields, UpwardFacts DEF StepBack
  <2>2. CASE Upward(w, k) # << >>
    <3>1. Upward(w, k + 1) = Front(Upward(w, k))
      BY <2>2, UpwardFacts
    <3> QED
      BY <2>2, <3>1, PathbufFields DEF StepBack
  <2> QED
    BY <2>1, <2>2
<1>3. \A i \in 0 .. n : g[i] = IF i = 0 THEN pathbuf_of(w) ELSE StepBack(g[i - 1])
  <2>1. g[0] = pathbuf_of(w)
    BY <1>1, UpwardFacts
  <2>2. ASSUME NEW i \in 0 .. n, i # 0 PROVE g[i] = StepBack(g[i - 1])
    <3>1. i - 1 \in Nat /\ i - 1 \in 0 .. n /\ (i - 1) + 1 = i
      BY <1>1, <2>2
    <3>2. g[i - 1] = pathbuf_of(Upward(w, i - 1)) /\ g[i] = pathbuf_of(Upward(w, i))
      BY <3>1
    <3> HIDE DEF g
    <3> QED
      BY <1>2, <3>1, <3>2
  <2> QED
    BY <2>1, <2>2
<1>4. g = Unfolded(g)
  <2>1. g = [i \in 0 .. n |-> g[i]]
    OBVIOUS
  <2> HIDE DEF g
  <2> QED
    BY <1>3, <2>1, Zenon
<1>5. \E f : /\ f = Unfolded(f)
             /\ pathbuf_join(pathbuf_of(w), buf) = [f[n] EXCEPT !.fields = @ \o buf.fields]
  <2> HIDE DEF g
  <2> QED
    BY <1>4 DEF pathbuf_join, n
<1>6. PICK f : /\ f = Unfolded(f)
               /\ pathbuf_join(pathbuf_of(w), buf) = [f[n] EXCEPT !.fields = @ \o buf.fields]
  BY <1>5
<1>7. f[n] = pathbuf_of(Upward(w, n))
  <2> DEFINE T == {i \in 0 .. n : f[i] = g[i]}
  <2>1. \A i \in 0 .. n : f[i] = IF i = 0 THEN pathbuf_of(w) ELSE StepBack(f[i - 1])
    BY <1>6
  <2>2. 0 \in T
    <3> HIDE DEF g
    <3>1. 0 \in 0 .. n
      BY <1>1
    <3> QED
      BY <1>3, <2>1, <3>1
  <2>3. ASSUME NEW i \in 1 .. n, i - 1 \in T PROVE i \in T
    <3> HIDE DEF g
    <3>1. i # 0 /\ i \in 0 .. n
      BY <1>1
    <3> QED
      BY <1>3, <2>1, <2>3, <3>1
  <2>4. n \in 0 .. n
    BY <1>1
  <2> HIDE DEF T
  <2>5. n \in T
    BY <1>1, <2>2, <2>3, <2>4, UpTo
  <2> QED
    BY <2>4, <2>5 DEF T
<1>8. [pathbuf_of(Upward(w, n)) EXCEPT !.fields = @ \o buf.fields]
          = pathbuf_of(Upward(w, n) \o buf.fields)
  <2> DEFINE u == Upward(w, n)
             v == u \o buf.fields
  <2> HIDE DEF u
  <2>1. pathbuf_of(u).fields = u /\ \A x : [pathbuf_of(u) EXCEPT !.fields = x] = pathbuf_of(x)
    BY PathbufFields
  <2>2. [pathbuf_of(u) EXCEPT !.fields = v] = pathbuf_of(v)
    BY <2>1
  <2>3. [pathbuf_of(u) EXCEPT !.fields = @ \o buf.fields] = pathbuf_of(v)
    BY <2>1, <2>2
  <2> QED
    BY <2>3 DEF u
<1> QED
  BY <1>6, <1>7, <1>8 DEF n

\* What is read of a text, and where the walk over it has come to.
Agree(text, w, b, at) ==
    /\ b.is_absolute = IsAbsolute(text)
    /\ IsAbsolute(text) => b = pathbuf_of(at)
    /\ ~ IsAbsolute(text) => Upward(w, b.back) \o b.fields = at

LEMMA AgreeStep ==
    ASSUME NEW N, N \cap Dots = {}, NEW text, NEW w \in Seq(N), NEW b \in Bufs(N),
           NEW at \in Seq(N), NEW part \in N \cup Dots, Agree(text, w, b, at)
    PROVE  Agree(text, w, Parsed(b, part), WalkTo(at, part))
<1> DEFINE c == Parsed(b, part)
           to == WalkTo(at, part)
           abs == IsAbsolute(text)
<1>1. /\ b.is_absolute = abs /\ (abs => b = pathbuf_of(at))
      /\ (~ abs => Upward(w, b.back) \o b.fields = at)
      /\ c = Parsed(b, part) /\ to = WalkTo(at, part) /\ abs \in BOOLEAN
  BY DEF Agree, IsAbsolute
<1> SUFFICES /\ c.is_absolute = abs /\ (abs => c = pathbuf_of(to))
             /\ (~ abs => Upward(w, c.back) \o c.fields = to)
  BY DEF Agree
<1> HIDE DEF c, to, abs
<1>2. /\ b.is_absolute \in BOOLEAN /\ b.back \in Nat /\ b.fields \in Seq(N)
      /\ b = [is_absolute |-> b.is_absolute, back |-> b.back, fields |-> b.fields]
  BY <1>1 DEF Bufs
<1>3. CASE part \in {Here, Empty} /\ part # Up
  BY <1>1, <1>3 DEF Parsed, WalkTo
<1>4. CASE part \in N
  <2>1. part # Up /\ part \notin {Here, Empty}
    BY <1>4 DEF Dots
  <2>2. c = [b EXCEPT !.fields = Append(@, part)] /\ to = Append(at, part)
    BY <1>1, <2>1 DEF Parsed, WalkTo, pathbuf_child
  <2>3. CASE abs
    <3>1. b = pathbuf_of(at) /\ b.fields = at
      BY <1>1, <2>3, PathbufFields
    <3>2. c = [pathbuf_of(at) EXCEPT !.fields = to]
      BY <2>2, <3>1
    <3>3. c = pathbuf_of(to) /\ c.is_absolute
      BY <3>2, PathbufFields
    <3>4. c.is_absolute = abs
      BY <2>3, <3>3, PathbufFields DEF pathbuf_of, pathbuf_root
    <3> QED
      BY <2>3, <3>3, <3>4
  <2>4. CASE ~ abs
    <3> DEFINE u == Upward(w, b.back)
    <3>1. u \in Seq(N) /\ << part >> \in Seq(N)
      BY <1>2, <1>4, UpwardFacts
    <3>2. Append(b.fields, part) = b.fields \o << part >>
          /\ Append(at, part) = at \o << part >>
      BY <1>1, <1>2, <1>4, AppendIsConcat
    <3> HIDE DEF u
    <3>3. (u \o b.fields) \o << part >> = u \o (b.fields \o << part >>)
      BY <1>2, <3>1, ConcatAssociative, SMTT(30)
    <3>4. c.is_absolute = b.is_absolute /\ c.back = b.back
          /\ c.fields = Append(b.fields, part)
      BY <1>2, <2>2
    <3> QED
      BY <1>1, <2>2, <2>4, <3>2, <3>3, <3>4 DEF u
  <2> QED
    BY <2>3, <2>4
<1>5. CASE part = Up
  <2>1. c = StepBack(b) /\ to = IF at = << >> THEN at ELSE Front(at)
    BY <1>1, <1>5 DEF Parsed, WalkTo
  <2>2. CASE abs
    <3>1. b = pathbuf_of(at)
      BY <1>1, <2>2
    <3>2. b.fields = at /\ b.is_absolute
      BY <3>1, PathbufFields
    <3>3. CASE at = << >>
      BY <1>1, <2>1, <2>2, <3>1, <3>2, <3>3 DEF StepBack
    <3>4. CASE at # << >>
      <4>1. c = [pathbuf_of(at) EXCEPT !.fields = to]
        BY <2>1, <3>1, <3>2, <3>4 DEF StepBack
      <4>2. c = pathbuf_of(to)
        BY <4>1, PathbufFields
      <4>3. c.is_absolute = TRUE /\ abs = TRUE
        BY <1>1, <2>2, <4>2 DEF pathbuf_of, pathbuf_root
      <4> QED
        BY <2>2, <4>2, <4>3
    <3> QED
      BY <3>3, <3>4
  <2>3. CASE ~ abs /\ b.fields # << >>
    <3> DEFINE u == Upward(w, b.back)
               f == b.fields
    <3>1. u \in Seq(N) /\ f \in Seq(N) /\ f # << >> /\ at = u \o f
      BY <1>1, <1>2, <2>3, UpwardFacts
    <3>2. c.is_absolute = b.is_absolute /\ c.back = b.back /\ c.fields = Front(f)
      BY <1>2, <2>1, <2>3 DEF StepBack
    <3> HIDE DEF u, f
    <3>3. at # << >> /\ Front(at) = u \o Front(f)
      <4>1. /\ Len(f) \in Nat \ {0} /\ Front(f) \in Seq(N) /\ Len(Front(f)) = Len(f) - 1
            /\ \A j \in 1 .. Len(f) - 1 : Front(f)[j] = f[j]
        BY <3>1, FrontFacts
      <4>2. /\ at \in Seq(N) /\ Len(at) = Len(u) + Len(f)
            /\ \A j \in 1 .. Len(u) + Len(f) : at[j] = IF j <= Len(u) THEN u[j] ELSE f[j - Len(u)]
        BY <3>1, ConcatProperties
      <4>3. Len(u) \in Nat /\ Len(at) # 0
        BY <3>1, <4>1, <4>2, LenProperties
      <4>4. at # << >>
        BY <4>3
      <4>5. /\ Front(at) \in Seq(N) /\ Len(Front(at)) = Len(at) - 1
            /\ \A j \in 1 .. Len(at) - 1 : Front(at)[j] = at[j]
        BY <4>2, <4>4, FrontFacts
      <4>6. /\ u \o Front(f) \in Seq(N)
            /\ Len(u \o Front(f)) = Len(u) + Len(Front(f))
            /\ \A j \in 1 .. Len(u) + Len(Front(f)) :
                  (u \o Front(f))[j] = IF j <= Len(u) THEN u[j] ELSE Front(f)[j - Len(u)]
        <5> DEFINE g == Front(f)
        <5>1. u \in Seq(N) /\ g \in Seq(N)
          BY <3>1, <4>1
        <5> HIDE DEF g
        <5>2. /\ u \o g \in Seq(N) /\ Len(u \o g) = Len(u) + Len(g)
              /\ \A j \in 1 .. Len(u) + Len(g) :
                    (u \o g)[j] = IF j <= Len(u) THEN u[j] ELSE g[j - Len(u)]
          BY <5>1, ConcatProperties
        <5> QED
          BY <5>2 DEF g
      <4>7. Len(Front(at)) = Len(u \o Front(f))
        BY <4>1, <4>2, <4>3, <4>5, <4>6
      <4>8. ASSUME NEW j \in 1 .. Len(Front(at)) PROVE Front(at)[j] = (u \o Front(f))[j]
        <5>1. /\ j \in 1 .. Len(at) - 1 /\ j \in 1 .. Len(u) + Len(f)
              /\ j \in 1 .. Len(u) + Len(Front(f))
          BY <4>1, <4>2, <4>3, <4>5
        <5>2. ~ (j <= Len(u)) => j - Len(u) \in 1 .. Len(f) - 1
          BY <4>1, <4>2, <4>3, <5>1
        <5> QED
          BY <4>1, <4>2, <4>5, <4>6, <5>1, <5>2
      <4>9. Front(at) = u \o Front(f)
        BY <4>5, <4>6, <4>7, <4>8, SeqEqual
      <4> QED
        BY <4>4, <4>9
    <3> QED
      BY <1>1, <2>1, <2>3, <3>2, <3>3 DEF u
  <2>4. CASE ~ abs /\ b.fields = << >>
    <3>1. /\ c.is_absolute = b.is_absolute /\ c.back = b.back + 1
          /\ c.fields = << >>
      BY <1>1, <1>2, <2>1, <2>4 DEF StepBack
    <3>2. b.back + 1 \in Nat /\ Upward(w, b.back) \in Seq(N) /\ Upward(w, b.back + 1) \in Seq(N)
      BY <1>2, UpwardFacts
    <3>3. at = Upward(w, b.back) /\ Upward(w, b.back + 1) \o << >> = Upward(w, b.back + 1)
      BY <1>1, <2>4, <3>2, ConcatEmptySeq
    <3>4. to = Upward(w, b.back + 1)
      BY <1>2, <2>1, <3>3, UpwardFacts
    <3> QED
      BY <1>1, <2>4, <3>1, <3>3, <3>4
  <2> QED
    BY <2>2, <2>3, <2>4
<1> QED
  BY <1>3, <1>4, <1>5 DEF Dots

\* A text is read as it is walked: what is parsed and then joined to a
\* directory is the place that the walk from there comes to.
LEMMA SetcwdWalks ==
    ASSUME NEW N, N \cap Dots = {}, NEW w \in Seq(N), NEW text \in Seq(N \cup Dots)
    PROVE  /\ syscall_setcwd(pathbuf_of(w), text) = pathbuf_of(Walk(w, text))
           /\ Walk(w, text) \in Seq(N)
           /\ pathbuf_parse(text).is_absolute = IsAbsolute(text)
<1> DEFINE n == Len(text)
<1>1. PICK R \in [0 .. n -> Bufs(N)] :
          /\ R[0] = [pathbuf_root EXCEPT !.is_absolute = IsAbsolute(text)]
          /\ \A i \in 1 .. n : R[i] = Parsed(R[i - 1], text[i])
          /\ pathbuf_parse(text) = R[n]
  BY ParseSteps
<1>2. PICK W \in [0 .. n -> Seq(N)] :
          /\ W[0] = IF IsAbsolute(text) THEN << >> ELSE w
          /\ \A i \in 1 .. n : W[i] = WalkTo(W[i - 1], text[i])
          /\ Walk(w, text) = W[n]
  BY WalkSteps DEF Walks
<1>3. n \in Nat /\ \A i \in 1 .. n : text[i] \in N \cup Dots
  BY LenProperties, ElementOfSeq
<1> HIDE DEF n
<1> DEFINE T == {i \in 0 .. n : Agree(text, w, R[i], W[i])}
<1>4. 0 \in T
  <2>1. CASE IsAbsolute(text)
    <3>1. IsAbsolute(text) = TRUE
      BY <2>1 DEF IsAbsolute
    <3>2. R[0] = pathbuf_of(<< >>) /\ R[0].is_absolute = IsAbsolute(text)
      BY <1>1, <3>1 DEF pathbuf_of, pathbuf_root
    <3>3. Agree(text, w, R[0], W[0])
      BY <1>2, <2>1, <3>2 DEF Agree
    <3> QED
      BY <1>3, <3>3
  <2>2. CASE ~ IsAbsolute(text)
    <3>1. Upward(w, 0) = w /\ w \o << >> = w
      BY UpwardFacts, ConcatEmptySeq
    <3>2. R[0].back = 0 /\ R[0].fields = << >> /\ R[0].is_absolute = IsAbsolute(text)
      BY <1>1 DEF pathbuf_root
    <3>3. Agree(text, w, R[0], W[0])
      BY <1>2, <2>2, <3>1, <3>2 DEF Agree
    <3> QED
      BY <1>3, <3>3
  <2> QED
    BY <2>1, <2>2
<1>5. ASSUME NEW i \in 1 .. n, i - 1 \in T PROVE i \in T
  <2>1. /\ i - 1 \in 0 .. n /\ i \in 0 .. n /\ text[i] \in N \cup Dots
        /\ R[i - 1] \in Bufs(N) /\ W[i - 1] \in Seq(N)
    BY <1>3
  <2>2. Agree(text, w, Parsed(R[i - 1], text[i]), WalkTo(W[i - 1], text[i]))
    BY <1>5, <2>1, AgreeStep
  <2> QED
    BY <1>1, <1>2, <2>1, <2>2
<1>6. n \in 0 .. n
  BY <1>3
<1>7. Agree(text, w, R[n], W[n])
  <2> HIDE DEF T
  <2>1. n \in T
    BY <1>3, <1>4, <1>5, <1>6, UpTo
  <2> QED
    BY <2>1 DEF T
<1>8. R[n] \in Bufs(N) /\ W[n] \in Seq(N)
  BY <1>1, <1>2, <1>6
<1>9. CASE IsAbsolute(text)
  BY <1>1, <1>2, <1>7, <1>8, <1>9 DEF Agree, syscall_setcwd, resolve_path
<1>10. CASE ~ IsAbsolute(text)
  <2>1. pathbuf_join(pathbuf_of(w), R[n]) = pathbuf_of(W[n])
    <3>1. /\ ~ R[n].is_absolute
          /\ Upward(w, R[n].back) \o R[n].fields = W[n]
      BY <1>7, <1>10 DEF Agree
    <3> QED
      BY <1>8, <3>1, JoinUpward
  <2> QED
    BY <1>1, <1>2, <1>7, <1>8, <1>10, <2>1 DEF Agree, syscall_setcwd, resolve_path
<1> QED
  BY <1>9, <1>10

\* What getcwd gives for a directory is a text that leads there from anywhere.
LEMMA StringifyWalks ==
    ASSUME NEW N, N \cap Dots = {}, NEW w \in Seq(N), NEW at \in Seq(N)
    PROVE  LET text == pathbuf_stringify(pathbuf_of(w))
           IN  /\ text = << Empty >> \o w \o << Empty >>
               /\ text \in Seq(N \cup Dots) /\ IsAbsolute(text) /\ Walk(at, text) = w
<1> DEFINE D == N \cup Dots
           n == Len(w) + 2
           text == << Empty >> \o w \o << Empty >>
<1>1. << Empty >> \in Seq(D) /\ Len(<< Empty >>) = 1 /\ << Empty >>[1] = Empty
  BY DEF Dots
<1>2. /\ w \in Seq(D) /\ Len(w) \in Nat
      /\ \A i \in 1 .. Len(w) : w[i] \in N
  BY SeqMonotonic, LenProperties, ElementOfSeq
<1>3. pathbuf_stringify(pathbuf_of(w)) = text
  <2>1. [i \in 1 .. 0 |-> Up] = << >>
    OBVIOUS
  <2>2. pathbuf_stringify(pathbuf_of(w))
            = ((<< Empty >> \o [i \in 1 .. 0 |-> Up]) \o w) \o << Empty >>
    BY PathbufFields DEF pathbuf_stringify
  <2>3. << Empty >> \o << >> = << Empty >>
    BY <1>1, ConcatEmptySeq
  <2> QED
    BY <2>1, <2>2, <2>3
<1>4. /\ text \in Seq(D) /\ Len(text) = n /\ text[1] = Empty /\ text[n] = Empty
      /\ \A i \in 2 .. Len(w) + 1 : text[i] = w[i - 1]
  <2> DEFINE l == << Empty >> \o w
  <2>1. /\ l \in Seq(D) /\ Len(l) = 1 + Len(w)
        /\ \A i \in 1 .. 1 + Len(w) : l[i] = IF i <= 1 THEN << Empty >>[i] ELSE w[i - 1]
    BY <1>1, <1>2, ConcatProperties
  <2>2. l[1] = Empty /\ \A i \in 2 .. Len(w) + 1 : l[i] = w[i - 1]
    <3>1. l[1] = Empty
      BY <1>1, <1>2, <2>1
    <3>2. ASSUME NEW i \in 2 .. Len(w) + 1 PROVE l[i] = w[i - 1]
      <4>1. i \in 1 .. 1 + Len(w) /\ ~ (i <= 1)
        BY <1>2
      <4> QED
        BY <2>1, <4>1
    <3> QED
      BY <3>1, <3>2
  <2> HIDE DEF l
  <2>3. /\ l \o << Empty >> \in Seq(D) /\ Len(l \o << Empty >>) = Len(l) + 1
        /\ \A i \in 1 .. Len(l) + 1 :
              (l \o << Empty >>)[i] = IF i <= Len(l) THEN l[i] ELSE << Empty >>[i - Len(l)]
    BY <1>1, <2>1, ConcatProperties
  <2>4. /\ l \o << Empty >> \in Seq(D) /\ Len(l \o << Empty >>) = n
        /\ (l \o << Empty >>)[n] = Empty
        /\ \A i \in 1 .. Len(w) + 1 : (l \o << Empty >>)[i] = l[i]
    <3>1. Len(l) + 1 = n /\ n \in 1 .. Len(l) + 1 /\ ~ (n <= Len(l)) /\ n - Len(l) = 1
      BY <1>2, <2>1
    <3>2. (l \o << Empty >>)[n] = Empty
      BY <1>1, <2>3, <3>1
    <3>3. ASSUME NEW i \in 1 .. Len(w) + 1 PROVE (l \o << Empty >>)[i] = l[i]
      <4>1. i \in 1 .. Len(l) + 1 /\ i <= Len(l)
        BY <1>2, <2>1
      <4> QED
        BY <2>3, <4>1
    <3> QED
      BY <2>3, <3>1, <3>2, <3>3
  <2>5. 1 \in 1 .. Len(w) + 1 /\ \A i \in 2 .. Len(w) + 1 : i \in 1 .. Len(w) + 1
    BY <1>2
  <2> QED
    BY <2>2, <2>4, <2>5 DEF l
<1> HIDE DEF text
<1>5. IsAbsolute(text)
  BY <1>2, <1>4 DEF IsAbsolute
<1>6. PICK W \in [0 .. Len(text) -> Seq(N)] :
          /\ W[0] = IF IsAbsolute(text) THEN << >> ELSE at
          /\ \A i \in 1 .. Len(text) : W[i] = WalkTo(W[i - 1], text[i])
          /\ Walk(at, text) = W[Len(text)]
  <2>1. text \in Seq(N \cup Dots)
    BY <1>4
  <2> HIDE DEF n
  <2> QED
    <3>1. \E W \in [0 .. Len(text) -> Seq(N)] : Walks(W, at, text)
      BY <2>1, WalkSteps
    <3> QED
      BY <3>1 DEF Walks
<1> DEFINE upto(i) == IF i = 0 THEN 0 ELSE IF i = n THEN n - 2 ELSE i - 1
           T == {i \in 0 .. n : W[i] = SubSeq(w, 1, upto(i))}
<1>7. n \in Nat \ {0, 1} /\ n - 2 = Len(w) /\ n \in 1 .. n /\ Len(text) = n
  BY <1>2, <1>4
<1> HIDE DEF n
<1>8. ASSUME NEW a PROVE WalkTo(a, Empty) = a
  BY ComponentAssumption DEF WalkTo
<1>9. ASSUME NEW a, NEW part \in N PROVE WalkTo(a, part) = Append(a, part)
  BY DEF WalkTo, Dots
<1>10. 0 \in T
  <2>1. SubSeq(w, 1, 0) = << >>
    BY SubSeqEmpty
  <2>2. upto(0) = 0 /\ 0 \in 0 .. n
    BY <1>7
  <2>3. W[0] = << >>
    BY <1>5, <1>6
  <2> HIDE DEF upto
  <2> QED
    BY <2>1, <2>2, <2>3
<1>11. ASSUME NEW i \in 1 .. n, i - 1 \in T PROVE i \in T
  <2> DEFINE j == i - 1
  <2>1. W[i] = WalkTo(W[j], text[i]) /\ W[j] = SubSeq(w, 1, upto(j)) /\ j \in 0 .. n
        /\ i \in 0 .. n
    BY <1>4, <1>6, <1>7, <1>11
  <2>2. CASE i = 1
    <3>1. upto(i) = upto(j) /\ text[i] = Empty
      BY <1>4, <1>7, <2>2
    <3> HIDE DEF upto
    <3> QED
      BY <1>8, <2>1, <3>1
  <2>3. CASE i = n
    <3>1. upto(i) = upto(j) /\ text[i] = Empty
      BY <1>4, <1>7, <2>3
    <3> HIDE DEF upto
    <3> QED
      BY <1>8, <2>1, <3>1
  <2>4. CASE i # 1 /\ i # n
    <3> DEFINE k == i - 1
    <3>1. upto(i) = k /\ upto(j) = k - 1 /\ k \in 1 .. Len(w) /\ i \in 2 .. Len(w) + 1
      BY <1>2, <1>7, <2>4
    <3>2. text[i] = w[k] /\ w[k] \in N
      BY <1>2, <1>4, <3>1
    <3> HIDE DEF k
    <3>3. SubSeq(w, 1, k) = SubSeq(w, 1, k - 1) \o << w[k] >>
      <4>1. 1 \in 1 .. Len(w) /\ k \in 1 .. Len(w)
        BY <1>2, <3>1
      <4> QED
        BY <4>1, SubSeqRecursiveSecond
    <3>4. Append(W[j], w[k]) = W[j] \o << w[k] >>
      <4>1. W[j] \in Seq(N)
        BY <1>4, <1>6, <2>1
      <4> QED
        BY <3>2, <4>1, AppendIsConcat
    <3>5. W[i] = SubSeq(w, 1, upto(i))
      BY <1>9, <2>1, <3>1, <3>2, <3>3, <3>4
    <3> HIDE DEF upto
    <3> QED
      BY <2>1, <3>5
  <2> QED
    BY <2>2, <2>3, <2>4
<1>12. n \in T
  <2>1. n \in Nat /\ n \in 0 .. n
    BY <1>7
  <2> HIDE DEF T, n
  <2> QED
    BY <1>10, <1>11, <2>1, UpTo
<1>13. W[n] = w
  <2>1. upto(n) = Len(w)
    BY <1>2, <1>7
  <2> QED
    BY <1>12, <2>1, SubSeqFull
<1> QED
  BY <1>3, <1>4, <1>5, <1>6, <1>13 DEF text

\* Every text is read as it is walked, from every directory.
LEMMA NothingMisread == Misread = {}
<1> DEFINE N == Name \cup {Bin}
<1>1. N \cap Dots = {} /\ Bin \in N /\ Empty \in Dots
  BY ComponentAssumption DEF Dots
<1> SUFFICES ASSUME NEW s \in Cwds \X Texts
             PROVE  LET cwd == pathbuf_of(s[1])
                        there == syscall_setcwd(cwd, s[2])
                        places == exec_open(cwd, s[2])
                    IN  /\ there = pathbuf_of(Walk(s[1], s[2]))
                        /\ syscall_setcwd(cwd, syscall_getcwd(there)) = there
                        /\ places[1] = there
                        /\ ~ IsAbsolute(s[2]) => places[2].fields = Walk(<< Bin >>, s[2])
  BY DEF Misread
<1> DEFINE at == s[1]
           text == s[2]
           w == Walk(at, text)
<1>2. at \in Seq(N) /\ text \in Seq(N \cup Dots)
  <2>1. at \in Seq(Name) /\ text \in Seq(Name \cup {Up, Here, Empty})
    BY ComponentAssumption
  <2>2. Name \subseteq N /\ Name \cup {Up, Here, Empty} \subseteq N \cup Dots
    BY DEF Dots
  <2> HIDE DEF N, at, text
  <2> QED
    BY <2>1, <2>2, SeqMonotonic
<1> HIDE DEF N, at, text
<1>3. /\ syscall_setcwd(pathbuf_of(at), text) = pathbuf_of(w) /\ w \in Seq(N)
      /\ pathbuf_parse(text).is_absolute = IsAbsolute(text)
  BY <1>1, <1>2, SetcwdWalks
<1> HIDE DEF w
<1>4. syscall_setcwd(pathbuf_of(at), syscall_getcwd(pathbuf_of(w))) = pathbuf_of(w)
  <2> DEFINE back == pathbuf_stringify(pathbuf_of(w))
  <2>1. back \in Seq(N \cup Dots) /\ Walk(at, back) = w
    BY <1>1, <1>2, <1>3, StringifyWalks
  <2> HIDE DEF back
  <2>2. syscall_setcwd(pathbuf_of(at), back) = pathbuf_of(w)
    BY <1>1, <1>2, <2>1, SetcwdWalks
  <2> QED
    BY <2>2 DEF back, syscall_getcwd
<1>5. exec_open(pathbuf_of(at), text)[1] = pathbuf_of(w)
  BY <1>3 DEF exec_open, syscall_setcwd, resolve_path
<1>6. ASSUME ~ IsAbsolute(text)
      PROVE  exec_open(pathbuf_of(at), text)[2].fields = Walk(<< Bin >>, text)
  <2> DEFINE bin == << Empty, Bin, Empty >>
  <2>1. << Bin >> \in Seq(N)
    BY <1>1
  <2>2. << Empty >> \o << Bin >> \o << Empty >> = bin
    <3> DEFINE D == {Empty, Bin}
               x == (<< Empty >> \o << Bin >>) \o << Empty >>
    <3>1. << Empty >> \in Seq(D) /\ << Bin >> \in Seq(D) /\ bin \in Seq(D)
          /\ Len(bin) = 3 /\ bin[1] = Empty /\ bin[2] = Bin /\ bin[3] = Empty
      OBVIOUS
    <3>2. /\ << Empty >> \o << Bin >> \in Seq(D) /\ Len(<< Empty >> \o << Bin >>) = 2
          /\ (<< Empty >> \o << Bin >>)[1] = Empty /\ (<< Empty >> \o << Bin >>)[2] = Bin
      BY <3>1, ConcatProperties
    <3> HIDE DEF D, bin
    <3>3. x \in Seq(D) /\ Len(x) = 3 /\ x[1] = Empty /\ x[2] = Bin /\ x[3] = Empty
      BY <3>1, <3>2, ConcatProperties
    <3> HIDE DEF x
    <3>4. \A i \in 1 .. Len(x) : x[i] = bin[i]
      BY <3>1, <3>3
    <3>5. x = bin
      BY <3>1, <3>3, <3>4, SeqEqual
    <3> QED
      BY <3>5 DEF x
  <2>3. bin \in Seq(N \cup Dots) /\ IsAbsolute(bin) /\ Walk(<< Bin >>, bin) = << Bin >>
    <3> DEFINE dir == << Bin >>
    <3>1. << Empty >> \o dir \o << Empty >> = bin
      BY <2>2
    <3> HIDE DEF dir
    <3>2. dir \in Seq(N)
      BY <2>1 DEF dir
    <3> DEFINE back == pathbuf_stringify(pathbuf_of(dir))
    <3>3. back = << Empty >> \o dir \o << Empty >>
          /\ back \in Seq(N \cup Dots) /\ IsAbsolute(back) /\ Walk(dir, back) = dir
      BY <1>1, <3>2, StringifyWalks
    <3> HIDE DEF back
    <3> QED
      BY <3>1, <3>3 DEF dir
  <2> HIDE DEF bin
  <2>4. pathbuf_parse(bin) = pathbuf_of(<< Bin >>)
    BY <1>1, <2>1, <2>3, SetcwdWalks DEF syscall_setcwd, resolve_path
  <2>5. syscall_setcwd(pathbuf_of(<< Bin >>), text) = pathbuf_of(Walk(<< Bin >>, text))
    BY <1>1, <1>2, <2>1, SetcwdWalks
  <2>6. pathbuf_join(pathbuf_of(<< Bin >>), pathbuf_parse(text)) = pathbuf_of(Walk(<< Bin >>, text))
    BY <1>3, <1>6, <2>5 DEF syscall_setcwd, resolve_path
  <2>7. exec_open(pathbuf_of(at), text)[2] = pathbuf_of(Walk(<< Bin >>, text))
    BY <1>3, <1>6, <2>4, <2>6 DEF exec_open, bin
  <2> QED
    BY <2>7, PathbufFields
<1> QED
  BY <1>3, <1>4, <1>5, <1>6 DEF at, text, w

\* A system call that resolves a text, of any length and from any directory,
\* looks where walking the text leads, whatever ".." and "." are in it; what
\* getcwd gives leads back; and exec looks there first, and then in /bin.
THEOREM PathsAlwaysResolve == Spec => []PathsResolve
<1>1. PathsResolve
  BY NothingMisread DEF PathsResolve
<1> QED
  BY <1>1, PTL


(* Positions and buffers. *)

\* An entry of a table takes a unit for its name, one for the NUL and two for
\* the index: what a directory holds is a number of whole entries.
GoodInode == {node \in Inode : node.type = "dir" => node.size % 4 = 0}

\* Where a task will be once it has its place on the disk.
Stage(label, o) == IF label \in {"balloc", "saving"} THEN o.then ELSE label
WriteStages == {"grow", "copy", "move", "rootindex", "reloc", "relocated", "size",
                "data", "added"}
Fields == {"path", "from", "units", "add", "i", "index", "sectors", "value", "then",
           "table", "before", "opened", "held"}
Call(o) ==
    /\ DOMAIN o = Fields
    /\ o.path \in Path /\ o.opened \in Path /\ o.held \in SUBSET Path
    /\ o.from \in Nat /\ Len(o.units) \in Nat /\ o.add \in BOOLEAN
    /\ o.index \in Nat /\ o.sectors \in Nat /\ o.value \in Nat
Descriptor == [path : Path, pos : Nat, cut : BOOLEAN, raw : BOOLEAN]

DiskTyped ==
    /\ mem \in [Path -> GoodInode]
    /\ DOMAIN disk = Sector /\ \A s \in Sector : disk[s].inode \in GoodInode
    /\ ptr \in Nat /\ saved \in Nat
    /\ fd \in [Task -> Descriptor \cup {NoFd}]
    /\ DOMAIN pc = Task /\ DOMAIN op = Task /\ \A t \in Task : Call(op[t])
    /\ overrun \in SUBSET Task

\* Tasks only work in a system that has booted, which has its root.
Booted ==
    /\ phase \in {"newroot", "up"} => mem[Root].isvalid
    /\ phase # "up" => \A t \in Task : pc[t] = "user" /\ fd[t] = NoFd

LocksApart == \A t, u \in Task : t # u => Held(t) \cap Held(u) = {}

\* What a task in a call has locked, and what it finds there: at stage s, with
\* call o and descriptor d, in memory m.
CallFits(s, o, d, m) ==
    /\ o.path \in o.held
    /\ s \in {"truncate", "create"} \cup WriteStages
    /\ s = "truncate" => d = NoFd /\ m[o.path].isvalid
    /\ s = "create" => /\ o.opened = o.path /\ m[o.path].isvalid /\ o.from = 0
                       /\ Front(o.path) \in o.held /\ m[Front(o.path)].type = "dir"
    /\ s \in WriteStages /\ o.add = TRUE =>
          /\ o.opened \in o.held /\ m[o.opened].isvalid
          /\ o.from = 0 /\ Len(o.units) % 4 = 0
    /\ s \in WriteStages /\ o.add = FALSE =>
          d # NoFd /\ d.path = o.path /\ m[o.path].type = "file"
    /\ s = "added" => o.add = TRUE
    /\ s = "data" => o.from + Len(o.units) <= m[o.path].size
CallsFit ==
    \A t \in Task : pc[t] # "user" => CallFits(Stage(pc[t], op[t]), op[t], fd[t], mem)

\* A position is within its file, unless the inode was truncated since it was
\* opened; in a directory it may be anywhere.
DescriptorFits(d, m) ==
    d # NoFd =>
        /\ m[d.path].isvalid
        /\ d.cut = FALSE /\ m[d.path].type = "file" => d.pos <= m[d.path].size
DescriptorsFit == \A t \in Task : DescriptorFits(fd[t], mem)

\* Once a read has gone past its buffer no call begins, and nobody is in the
\* middle of changing what was read.
Overran(t) ==
    /\ pc[t] = "user" /\ fd[t] # NoFd
    /\ fd[t].pos > mem[fd[t].path].size
    /\ mem[fd[t].path].type = "file" => fd[t].cut = TRUE
    /\ Free({fd[t].path})
OverrunSound == \A t \in overrun : Overran(t)

\* The inductive invariant.
IInv ==
    /\ DiskTyped /\ Booted /\ LocksApart
    /\ CallsFit /\ DescriptorsFit /\ OverrunSound

LEMMA PathFacts ==
    /\ Root \in Path /\ NoPath \notin Path
    /\ \A p \in Path : /\ p \in Seq(Name) /\ Len(p) \in Nat
                       /\ Front(p) \in Path /\ Prefixes(p) \in SUBSET Path
                       /\ p \in Prefixes(p) /\ Locked(p) \in SUBSET Prefixes(p)
                       /\ p \in Locked(p)
    /\ \A p \in Path \ {Root} : Front(p) \in Locked(p) /\ Front(p) # p
<1>1. Root \in Path /\ Path \in SUBSET Seq(Name)
  BY DiskAssumption DEF Root
<1>2. NoPath \notin Path
  <2>1. SUFFICES ASSUME NoPath \in Seq(Name) PROVE FALSE
    BY <1>1
  <2>2. NUL \in Name
    BY <2>1 DEF NoPath
  <2> QED
    BY <2>2, DiskAssumption DEF NUL
<1>3. ASSUME NEW p \in Path
      PROVE  /\ p \in Seq(Name) /\ Len(p) \in Nat
             /\ \A i \in 0 .. Len(p) : SubSeq(p, 1, i) \in Path
             /\ SubSeq(p, 1, Len(p)) = p
  <2>1. p \in Seq(Name) /\ Len(p) \in Nat
    BY <1>1
  <2> QED
    BY <2>1, DiskAssumption
<1>4. ASSUME NEW p \in Path PROVE Locked(p) \in SUBSET Prefixes(p) /\ p \in Locked(p)
  <2>1. Locked(p) \in SUBSET Prefixes(p)
    BY DEF Locked, Prefixes
  <2>2. Len(p) \in {j \in 0 .. Len(p) : j + 2 >= Len(p)}
    BY <1>3
  <2> QED
    BY <1>3, <2>1, <2>2 DEF Locked
<1>5. ASSUME NEW p \in Path PROVE Prefixes(p) \in SUBSET Path
  BY <1>3 DEF Prefixes
<1>6. ASSUME NEW p \in Path, p # Root
      PROVE  Front(p) \in Path /\ Front(p) \in Locked(p) /\ Front(p) # p
  <2>1. /\ Len(p) \in Nat \ {0} /\ Len(Front(p)) = Len(p) - 1
        /\ Front(p) = SubSeq(p, 1, Len(p) - 1)
    BY <1>3, <1>6, FrontFacts DEF Root
  <2>2. Len(p) - 1 \in {j \in 0 .. Len(p) : j + 2 >= Len(p)}
    BY <2>1
  <2>3. Front(p) \in Locked(p)
    BY <2>1, <2>2 DEF Locked
  <2>4. Front(p) \in Path
    BY <1>4, <1>5, <2>3
  <2>5. Front(p) # p
    BY <2>1
  <2> QED
    BY <2>3, <2>4, <2>5
<1>7. Front(Root) \in Path
  <2>1. Front(Root) = << >>
    BY DEF Front, Root
  <2> QED
    BY <1>1, <2>1 DEF Root
<1> QED
  BY <1>1, <1>2, <1>3, <1>4, <1>5, <1>6, <1>7

---------------------------------------------------------------------------
(* What a walk loads. *)

\* From the root to each path, one step for each name.
Chain(f, p, S, root, step) ==
    /\ f \in [0 .. Len(p) -> S] /\ f[0] = root
    /\ \A i \in 1 .. Len(p) : f[i] = step[<< SubSeq(p, 1, i), f[i - 1] >>]

\* A function on paths can be defined from each path's parent.
FromParents(F, root, step) ==
    /\ F[Root] = root
    /\ \A p \in Path \ {Root} : F[p] = step[<< p, F[Front(p)] >>]

LEMMA PathRecursion ==
    ASSUME NEW S, NEW root \in S, NEW step \in [(Path \ {Root}) \X S -> S]
    PROVE  \E F \in [Path -> S] : FromParents(F, root, step)
<1> DEFINE Links(f, p) == Chain(f, p, S, root, step)
           W(p) == CHOOSE f : Links(f, p)
           F == [p \in Path |-> W(p)[Len(p)]]
<1>1. ASSUME NEW p \in Path PROVE \E f : Links(f, p)
  <2> DEFINE n == Len(p)
             along == [x \in S \X (1 .. n) |-> step[<< SubSeq(p, 1, x[2]), x[1] >>]]
  <2>1. n \in Nat
    BY PathFacts
  <2>2. ASSUME NEW s \in S, NEW i \in 1 .. n
        PROVE  << SubSeq(p, 1, i), s >> \in (Path \ {Root}) \X S
    <3>1. i \in 0 .. n /\ SubSeq(p, 1, i) \in Path
      BY <2>1, DiskAssumption
    <3>2. SubSeq(p, 1, i) # << >>
      <4>1. p \in Seq(Name) /\ i \in 1 .. Len(p)
        BY PathFacts
      <4>2. Len(SubSeq(p, 1, i)) = i
        BY <4>1
      <4> QED
        BY <4>1, <4>2
    <3> QED
      BY <3>1, <3>2 DEF Root
  <2>3. along \in [S \X (1 .. n) -> S]
    <3>1. ASSUME NEW x \in S \X (1 .. n) PROVE step[<< SubSeq(p, 1, x[2]), x[1] >>] \in S
      BY <2>2
    <3> QED
      BY <3>1
  <2>4. ASSUME NEW s \in S, NEW i \in 1 .. n
        PROVE  along[<< s, i >>] = step[<< SubSeq(p, 1, i), s >>]
    OBVIOUS
  <2> HIDE DEF along, n
  <2>5. PICK f \in [0 .. n -> S] : Iterates(f, root, n, along)
    BY <2>1, <2>3, Repeated
  <2>6. ASSUME NEW i \in 1 .. n PROVE f[i] = step[<< SubSeq(p, 1, i), f[i - 1] >>]
    <3>1. f[i - 1] \in S /\ f[i] = along[<< f[i - 1], i >>]
      BY <2>1, <2>5 DEF Iterates
    <3> QED
      BY <2>4, <3>1
  <2>7. Links(f, p)
    BY <2>5, <2>6 DEF Chain, Iterates, n
  <2> QED
    BY <2>7
<1>2. ASSUME NEW p \in Path PROVE Links(W(p), p)
  BY <1>1
<1> HIDE DEF W, Links
<1>3. F \in [Path -> S]
  <2>1. ASSUME NEW p \in Path PROVE W(p)[Len(p)] \in S
    <3>1. Len(p) \in Nat /\ W(p) \in [0 .. Len(p) -> S]
      BY <1>2, PathFacts DEF Links, Chain
    <3> QED
      BY <3>1
  <2> QED
    BY <2>1
<1>4. F[Root] = root
  <2>1. Len(Root) = 0 /\ Root \in Path
    BY PathFacts DEF Root
  <2> QED
    BY <1>2, <2>1 DEF Links, Chain
<1>5. ASSUME NEW p \in Path \ {Root} PROVE F[p] = step[<< p, F[Front(p)] >>]
  <2> DEFINE q == Front(p)
             n == Len(p)
             Same == {i \in 0 .. n - 1 : W(p)[i] = W(q)[i]}
  <2>1. /\ p \in Seq(Name) /\ n \in Nat \ {0} /\ Len(q) = n - 1
        /\ q \in Seq(Name) /\ q \in Path /\ q = SubSeq(p, 1, n - 1)
    BY PathFacts, FrontFacts DEF Root
  <2>2. ASSUME NEW i \in 1 .. n - 1 PROVE SubSeq(q, 1, i) = SubSeq(p, 1, i)
    BY <2>1
  <2>3. SubSeq(p, 1, n) = p
    BY <2>1
  <2> HIDE DEF q, n
  <2>4. Links(W(p), p) /\ Links(W(q), q)
    BY <1>2, <2>1
  <2>5. 0 \in Same
    BY <2>1, <2>4 DEF Links, Chain
  <2>6. ASSUME NEW i \in 1 .. n - 1, i - 1 \in Same PROVE i \in Same
    <3>1. i \in 1 .. n /\ i \in 1 .. Len(q) /\ i \in 0 .. n - 1
      BY <2>1
    <3>2. /\ W(p)[i] = step[<< SubSeq(p, 1, i), W(p)[i - 1] >>]
          /\ W(q)[i] = step[<< SubSeq(q, 1, i), W(q)[i - 1] >>]
      BY <2>4, <3>1 DEF Links, Chain, n
    <3> QED
      BY <2>2, <2>6, <3>1, <3>2
  <2> HIDE DEF Same
  <2>7. n - 1 \in Nat /\ n - 1 \in 0 .. n - 1
    BY <2>1
  <2>8. n - 1 \in Same
    BY <2>5, <2>6, <2>7, UpTo
  <2>9. W(p)[n - 1] = W(q)[Len(q)]
    BY <2>1, <2>8 DEF Same
  <2>10. W(p)[n] = step[<< p, W(p)[n - 1] >>]
    <3>1. n \in 1 .. n
      BY <2>1
    <3> QED
      BY <2>3, <2>4, <3>1 DEF Links, Chain, n
  <2>11. F[p] = W(p)[n] /\ F[q] = W(q)[Len(q)]
    BY <2>1 DEF n
  <2> HIDE DEF F
  <2> QED
    BY <2>9, <2>10, <2>11 DEF q
<1> HIDE DEF F
<1> QED
  BY <1>3, <1>4, <1>5 DEF FromParents

\* The inodes that the program makes are good, and so are those it changes.
LEMMA GoodInodes ==
    /\ Invalid \in GoodInode /\ NotCached \in GoodInode
    /\ ~ NotCached.isvalid /\ NotCached.type = "not cached"
    /\ \A type \in {"file", "dir"}, index \in Nat :
          /\ NewInode(type, index) \in GoodInode
          /\ NewInode(type, index).isvalid /\ NewInode(type, index).type = type
<1>1. Invalid \in GoodInode /\ NotCached \in GoodInode
  BY DEF GoodInode, Inode, Invalid, NotCached
<1>2. ~ NotCached.isvalid /\ NotCached.type = "not cached"
  BY DEF Invalid, NotCached
<1>3. ASSUME NEW type \in {"file", "dir"}, NEW index \in Nat
      PROVE  /\ NewInode(type, index) \in GoodInode
             /\ NewInode(type, index).isvalid /\ NewInode(type, index).type = type
  <2> DEFINE K == {"isvalid", "index", "size", "alloc", "child_count", "type"}
             x == NewInode(type, index)
             y == [isvalid |-> TRUE, index |-> index, size |-> 0, alloc |-> 0,
                   child_count |-> 0, type |-> type]
  <2>1. x = [k \in K |-> x[k]] /\ y = [k \in K |-> y[k]]
    BY DEF NewInode, Invalid
  <2>2. /\ x.isvalid = TRUE /\ x.type = type /\ x.index = index
        /\ x.size = 0 /\ x.alloc = 0 /\ x.child_count = 0
    BY DEF NewInode, Invalid
  <2> HIDE DEF x
  <2>3. x = y
    BY <2>1, <2>2
  <2>4. 0 % 4 = 0
    OBVIOUS
  <2>5. y \in GoodInode /\ y.isvalid /\ y.type = type
    BY <2>4 DEF GoodInode, Inode
  <2> QED
    BY <2>3, <2>5 DEF x
<1> QED
  BY <1>1, <1>2, <1>3

\* A good inode with a size that suits it is good.
LEMMA GoodInodeFields ==
    ASSUME NEW node \in GoodInode
    PROVE  /\ node.isvalid \in BOOLEAN /\ node.index \in Nat /\ node.size \in Nat
           /\ node.alloc \in Nat /\ node.child_count \in Nat
           /\ node.type \in {"file", "dir", "not cached"}
           /\ node.type = "dir" => node.size % 4 = 0
           /\ node = [isvalid |-> node.isvalid, index |-> node.index,
                      size |-> node.size, alloc |-> node.alloc,
                      child_count |-> node.child_count, type |-> node.type]
  BY DEF GoodInode, Inode

\* What is written back for a good inode leaves the disk with good inodes.
LEMMA UpdatedGood ==
    ASSUME DiskTyped, NEW node \in GoodInode
    PROVE  /\ DOMAIN Updated(disk, node) = Sector
           /\ \A s \in Sector : Updated(disk, node)[s].inode \in GoodInode
<1>1. OfInode(node).inode = node
  BY DEF OfInode
<1>2. DOMAIN disk = Sector /\ \A s \in Sector : disk[s].inode \in GoodInode
  BY DEF DiskTyped
<1> QED
  BY <1>1, <1>2 DEF Updated

\* And so does data.
LEMMA DataGood ==
    ASSUME DiskTyped, NEW at, NEW units
    PROVE  LET d == [disk EXCEPT ![at] = OfData(units)]
           IN  DOMAIN d = Sector /\ \A s \in Sector : d[s].inode \in GoodInode
<1>1. OfData(units).inode \in GoodInode
  BY GoodInodes DEF OfData
<1>2. DOMAIN disk = Sector /\ \A s \in Sector : disk[s].inode \in GoodInode
  BY DEF DiskTyped
<1> QED
  BY <1>1, <1>2

LEMMA FetchedGood ==
    ASSUME DiskTyped, NEW index
    PROVE  inode_fetch(index) \in GoodInode
  BY GoodInodes DEF inode_fetch, DiskTyped

\* What fs_node_child gives for each path: the inode in memory, or one from the
\* disk, whatever the tables say.
LEMMA LoadedFacts ==
    ASSUME DiskTyped, mem[Root].isvalid
    PROVE  /\ Loaded \in [Path -> GoodInode]
           /\ \A p \in Path : mem[p].isvalid => Loaded[p] = mem[p]
<1> DEFINE S == GoodInode
           ChildOf(p, dir) == IF IsDir(dir)
                              THEN inode_fetch(childtable_get[Contents[dir], Last(p)])
                              ELSE NotCached
           Value(p, dir) == IF mem[p] # NotCached THEN mem[p] ELSE ChildOf(p, dir)
           step == [x \in (Path \ {Root}) \X S |-> Value(x[1], x[2])]
           Body(f) == [p \in Path |-> Value(p, f[Front(p)])]
<1>1. mem \in [Path -> S] /\ mem[Root] # NotCached
  BY GoodInodes DEF DiskTyped
<1>2. ASSUME NEW p, NEW dir PROVE ChildOf(p, dir) \in S
  BY FetchedGood, GoodInodes
<1> HIDE DEF S, ChildOf
<1>3. ASSUME NEW p \in Path, NEW dir PROVE Value(p, dir) \in S
  BY <1>1, <1>2
<1>4. step \in [(Path \ {Root}) \X S -> S]
  <2>1. ASSUME NEW x \in (Path \ {Root}) \X S PROVE Value(x[1], x[2]) \in S
    BY <1>3
  <2> HIDE DEF Value
  <2> QED
    BY <2>1
<1>5. ASSUME NEW p \in Path \ {Root}, NEW dir \in S PROVE step[<< p, dir >>] = Value(p, dir)
  OBVIOUS
<1> HIDE DEF step
<1>6. \E F \in [Path -> S] : FromParents(F, mem[Root], step)
  <2> DEFINE root == mem[Root]
  <2>1. root \in S
    BY <1>1, PathFacts
  <2> HIDE DEF root
  <2>2. \E F \in [Path -> S] : FromParents(F, root, step)
    BY <1>4, <2>1, PathRecursion
  <2> QED
    BY <2>2 DEF root
<1>7. PICK F \in [Path -> S] : /\ F[Root] = mem[Root]
                               /\ \A p \in Path \ {Root} : F[p] = step[<< p, F[Front(p)] >>]
  BY <1>6 DEF FromParents
<1>8. F = Body(F)
  <2>1. ASSUME NEW p \in Path PROVE F[p] = Value(p, F[Front(p)])
    <3>1. CASE p = Root
      BY <1>1, <1>7, <3>1
    <3>2. CASE p # Root
      <4>1. F[Front(p)] \in S
        BY <1>7, PathFacts
      <4>2. F[p] = step[<< p, F[Front(p)] >>]
        BY <1>7, <3>2
      <4> QED
        BY <1>5, <3>2, <4>1, <4>2
    <3> QED
      BY <3>1, <3>2
  <2> HIDE DEF Value
  <2> QED
    BY <1>7, <2>1
<1>9. Loaded = CHOOSE f : f = Body(f)
  BY DEF Loaded, ChildOf
<1>10. Loaded = Body(Loaded)
  <2> HIDE DEF Body
  <2> QED
    BY <1>8, <1>9
<1>11. ASSUME NEW p \in Path PROVE Loaded[p] = Value(p, Loaded[Front(p)])
  <2> DEFINE L == Loaded
  <2>1. L = Body(L)
    BY <1>10
  <2> HIDE DEF L, Value
  <2>2. L[p] = Value(p, L[Front(p)])
    BY <2>1
  <2> QED
    BY <2>2 DEF L
<1>12. Loaded \in [Path -> S]
  <2> DEFINE L == Loaded
  <2>1. L = Body(L)
    BY <1>10
  <2>2. ASSUME NEW p \in Path PROVE Value(p, L[Front(p)]) \in S
    BY <1>3
  <2> HIDE DEF L, Value
  <2>3. L \in [Path -> S]
    BY <2>1, <2>2
  <2> QED
    BY <2>3 DEF L
<1>13. ASSUME NEW p \in Path, mem[p].isvalid PROVE Loaded[p] = mem[p]
  BY <1>11, <1>13, GoodInodes
<1> QED
  BY <1>12, <1>13 DEF S

\* A walk fills in the inodes along its path, and changes no other nor any that
\* is valid in memory.
LEMMA WalkedFacts ==
    ASSUME DiskTyped, mem[Root].isvalid, NEW p \in Path
    PROVE  /\ Walked(p) \in [Path -> GoodInode]
           /\ \A q \in Prefixes(p) : Walked(p)[q] = Loaded[q]
           /\ \A q \in Path : mem[q].isvalid \/ q \notin Prefixes(p) => Walked(p)[q] = mem[q]
           /\ p \in Prefixes(p) /\ Walked(p)[p] = Loaded[p]
           /\ Reached(p) /\ p # Root =>
                 Front(p) \in Prefixes(p) /\ IsDir(Walked(p)[Front(p)])
<1>1. /\ Loaded \in [Path -> GoodInode]
      /\ \A q \in Path : mem[q].isvalid => Loaded[q] = mem[q]
  BY LoadedFacts
<1>2. mem \in [Path -> GoodInode]
  BY DEF DiskTyped
<1>3. Prefixes(p) \in SUBSET Path /\ p \in Prefixes(p)
      /\ (p # Root => Front(p) \in Prefixes(p) \ {p})
  BY PathFacts
<1> DEFINE L == Loaded
<1>4. Walked(p) = [q \in Path |-> IF q \in Prefixes(p) THEN L[q] ELSE mem[q]]
  BY DEF Walked
<1>5. Reached(p) => \A q \in Prefixes(p) \ {p} : IsDir(L[q])
  BY DEF Reached
<1>6. L \in [Path -> GoodInode] /\ \A q \in Path : mem[q].isvalid => L[q] = mem[q]
  BY <1>1
<1> HIDE DEF L
<1>7. /\ Walked(p) \in [Path -> GoodInode]
      /\ \A q \in Prefixes(p) : Walked(p)[q] = L[q]
      /\ \A q \in Path : mem[q].isvalid \/ q \notin Prefixes(p) => Walked(p)[q] = mem[q]
  BY <1>2, <1>3, <1>4, <1>6
<1> QED
  BY <1>3, <1>5, <1>7 DEF L

---------------------------------------------------------------------------
(* What every step of a task keeps. *)

\* A call of another task, whose descriptor may be cut and what it has not
\* locked may change.
LEMMA CallKept ==
    ASSUME NEW s, NEW o, NEW d, NEW e, NEW m, NEW n,
           CallFits(s, o, d, m), Call(o), WriteStages \cap {"truncate", "create"} = {},
           \A q \in o.held : n[q] = m[q],
           e = d \/ (d # NoFd /\ d.path \notin o.held)
    PROVE  CallFits(s, o, e, n)
<1>1. o.path \in o.held /\ n[o.path] = m[o.path]
  BY DEF CallFits
<1>2. CASE e = d
  BY <1>1, <1>2 DEF CallFits
<1>3. CASE d # NoFd /\ d.path \notin o.held
  <2>1. s # "truncate"
    BY <1>3 DEF CallFits
  <2>2. s \in WriteStages => o.add = TRUE
    BY <1>1, <1>3 DEF CallFits, Call
  <2> QED
    BY <1>1, <2>1, <2>2 DEF CallFits
<1> QED
  BY <1>2, <1>3

\* Valid inodes that grow leave the positions within them.
LEMMA DescriptorKept ==
    ASSUME NEW d \in Descriptor \cup {NoFd}, DescriptorFits(d, mem),
           mem \in [Path -> GoodInode], mem' \in [Path -> GoodInode],
           \A q \in Path : mem[q].isvalid =>
              /\ mem'[q].isvalid /\ mem'[q].type = mem[q].type
              /\ mem[q].size <= mem'[q].size
    PROVE  DescriptorFits(d, mem')
<1> SUFFICES ASSUME d # NoFd PROVE DescriptorFits(d, mem')
  BY DEF DescriptorFits
<1>1. d.path \in Path /\ d.pos \in Nat
  BY DEF Descriptor
<1>2. mem[d.path].isvalid
  BY DEF DescriptorFits
<1>3. mem[d.path].size \in Nat /\ mem'[d.path].size \in Nat
  BY <1>1, GoodInodeFields
<1> QED
  BY <1>1, <1>2, <1>3 DEF DescriptorFits

\* Task t takes a step in which it changes the inodes of ps at most, which
\* nobody else has locked.
LEMMA Moves ==
    ASSUME IInv, phase = "up", phase' = "up", NEW t \in Task, NEW ps \in SUBSET Path,
           \A u \in Task \ {t} : Held(u) \cap ps = {},
           DOMAIN pc' = Task, DOMAIN op' = Task, Call(op'[t]),
           \A u \in Task \ {t} : pc'[u] = pc[u] /\ op'[u] = op[u],
           pc'[t] # "user" =>
              /\ op'[t].held \in SUBSET ps
              /\ CallFits(Stage(pc'[t], op'[t]), op'[t], fd'[t], mem'),
           mem' \in [Path -> GoodInode],
           \A q \in Path \ ps : mem'[q] = mem[q],
           \A q \in Path : mem[q].isvalid => mem'[q].isvalid,
           DOMAIN disk' = Sector, \A s \in Sector : disk'[s].inode \in GoodInode,
           ptr' \in Nat, saved' \in Nat, overrun' \in SUBSET Task,
           fd' \in [Task -> Descriptor \cup {NoFd}],
           \A u \in Task \ {t} : \/ fd'[u] = fd[u]
                                 \/ fd[u] # NoFd /\ fd[u].path \in ps,
           \A u \in Task : DescriptorFits(fd'[u], mem'),
           \A u \in overrun' :
              \/ u \in overrun /\ pc[t] # "user" /\ ps \in SUBSET op[t].held
              \/ Overran(u)'
    PROVE  IInv'
<1>1. DiskTyped'
  <2>1. \A u \in Task : Call(op[u])
    BY DEF IInv, DiskTyped
  <2>2. \A u \in Task : Call(op'[u])
    BY <2>1
  <2> QED
    BY <2>2 DEF DiskTyped, Call
<1>2. Booted'
  <2>1. mem[Root].isvalid
    BY DEF IInv, Booted
  <2> QED
    BY <2>1, PathFacts DEF Booted
<1>3. \A u \in Task \ {t} : Held(u)' = Held(u)
  BY DEF Held
<1>4. Held(t)' \in SUBSET ps
  BY DEF Held
<1>5. LocksApart'
  BY <1>3, <1>4 DEF IInv, LocksApart
<1>6. CallsFit'
  <2>1. ASSUME NEW u \in Task \ {t}, pc'[u] # "user"
        PROVE  CallFits(Stage(pc'[u], op'[u]), op'[u], fd'[u], mem')
    <3> DEFINE o == op[u]
               s == Stage(pc[u], o)
    <3>1. pc[u] # "user" /\ pc'[u] = pc[u] /\ op'[u] = o
      BY <2>1
    <3>2. CallFits(s, o, fd[u], mem) /\ Call(o)
      BY <3>1 DEF IInv, CallsFit, DiskTyped
    <3>3. o.held \cap ps = {} /\ o.held \in SUBSET Path
      BY <3>1, <3>2 DEF Held, Call
    <3>4. \A q \in o.held : mem'[q] = mem[q]
      BY <3>3
    <3>5. fd'[u] = fd[u] \/ (fd[u] # NoFd /\ fd[u].path \notin o.held)
      BY <3>3
    <3>6. WriteStages \cap {"truncate", "create"} = {}
      BY DEF WriteStages
    <3> HIDE DEF o, s
    <3>7. CallFits(s, o, fd'[u], mem')
      BY <3>2, <3>4, <3>5, <3>6, CallKept
    <3> QED
      BY <3>1, <3>7 DEF s
  <2> QED
    BY <2>1 DEF CallsFit
<1>7. DescriptorsFit'
  BY DEF DescriptorsFit
<1>8. OverrunSound'
  <2> SUFFICES ASSUME NEW u \in overrun, pc[t] # "user", ps \in SUBSET op[t].held
               PROVE  Overran(u)'
    BY DEF OverrunSound
  <2>1. u \in Task /\ Overran(u)
    BY DEF IInv, OverrunSound, DiskTyped
  <2> DEFINE q == fd[u].path
  <2>2. /\ pc[u] = "user" /\ fd[u] # NoFd /\ fd[u].pos > mem[q].size
        /\ mem[q].type = "file" => fd[u].cut = TRUE
        /\ Free({q}) /\ u # t
    BY <2>1 DEF Overran
  <2>3. q \in Path
    BY <2>2 DEF IInv, DiskTyped, Descriptor
  <2>4. q \notin Held(t) /\ Held(t) = op[t].held
    BY <2>2 DEF Free, Held
  <2>5. fd'[u] = fd[u] /\ mem'[q] = mem[q] /\ pc'[u] = "user"
    BY <2>1, <2>2, <2>3, <2>4
  <2>6. Free({q})'
    BY <1>3, <1>4, <2>2, <2>4, <2>5 DEF Free
  <2>7. Overran(u)'
    BY <2>2, <2>5, <2>6 DEF Overran
  <2> QED
    BY <2>7
<1> QED
  BY <1>1, <1>2, <1>5, <1>6, <1>7, <1>8 DEF IInv

---------------------------------------------------------------------------
(* Boots and power cuts: steps of the system while no task is at work. *)

LEMMA NoOpFacts ==
    /\ Call(NoOp) /\ NoOp.from = 0 /\ NoOp.add = FALSE
    /\ NoFd \notin Descriptor
<1>1. Root \in Path /\ NoPath \notin Path
  BY PathFacts
<1>2. DOMAIN NoOp = Fields
  BY DEF NoOp, Fields
<1>3. /\ NoOp.path = Root /\ NoOp.opened = Root /\ NoOp.held = {} /\ NoOp.from = 0
      /\ Len(NoOp.units) = 0 /\ NoOp.add = FALSE /\ NoOp.index = 0
      /\ NoOp.sectors = 0 /\ NoOp.value = 0
  BY DEF NoOp
<1>4. Call(NoOp)
  <2>1. NoOp.add \in BOOLEAN
    BY DEF NoOp
  <2> QED
    BY <1>1, <1>2, <1>3, <2>1 DEF Call
<1>5. NoFd \notin Descriptor
  BY <1>1 DEF NoFd, Descriptor
<1> QED
  BY <1>3, <1>4, <1>5

\* As long as no task has begun or has anything open, only the inodes, the
\* allocation pointer and the root matter.
LEMMA Idle ==
    ASSUME mem' \in [Path -> GoodInode],
           DOMAIN disk' = Sector, \A s \in Sector : disk'[s].inode \in GoodInode,
           ptr' \in Nat, saved' \in Nat, overrun' = {},
           phase' \in {"newroot", "up"} => mem'[Root].isvalid,
           DOMAIN pc' = Task, fd' \in [Task -> Descriptor \cup {NoFd}],
           \A t \in Task : pc'[t] = "user" /\ fd'[t] = NoFd,
           DOMAIN op' = Task, \A t \in Task : Call(op'[t])
    PROVE  IInv'
<1>1. DiskTyped'
  BY DEF DiskTyped, Call
<1>2. Booted' /\ LocksApart' /\ CallsFit'
  BY DEF Booted, LocksApart, CallsFit, Held
<1>3. DescriptorsFit' /\ OverrunSound'
  BY DEF DescriptorsFit, DescriptorFits, OverrunSound
<1> QED
  BY <1>1, <1>2, <1>3 DEF IInv

\* What the invariant says before the system is up.
LEMMA IdleFacts ==
    ASSUME IInv, phase # "up"
    PROVE  /\ mem \in [Path -> GoodInode]
           /\ DOMAIN disk = Sector /\ \A s \in Sector : disk[s].inode \in GoodInode
           /\ ptr \in Nat /\ saved \in Nat /\ overrun = {}
           /\ phase = "newroot" => mem[Root].isvalid
           /\ DOMAIN pc = Task /\ fd \in [Task -> Descriptor \cup {NoFd}]
           /\ \A t \in Task : pc[t] = "user" /\ fd[t] = NoFd
           /\ DOMAIN op = Task /\ \A t \in Task : Call(op[t])
<1>1. \A t \in Task : pc[t] = "user" /\ fd[t] = NoFd
  BY DEF IInv, Booted
<1>2. overrun = {}
  BY <1>1 DEF IInv, OverrunSound, Overran, DiskTyped
<1> QED
  BY <1>1, <1>2 DEF IInv, DiskTyped, Booted

LEMMA InitIInv ==
    ASSUME Init PROVE IInv
<1>1. /\ mem \in [Path -> GoodInode]
      /\ DOMAIN disk = Sector /\ \A s \in Sector : disk[s].inode \in GoodInode
  BY GoodInodes DEF Init, All, Blank
<1>2. /\ DOMAIN op = Task /\ \A t \in Task : Call(op[t])
      /\ DOMAIN pc = Task /\ \A t \in Task : pc[t] = "user" /\ fd[t] = NoFd
      /\ fd \in [Task -> Descriptor \cup {NoFd}]
  BY NoOpFacts DEF Init, All
<1>3. ptr \in Nat /\ saved \in Nat /\ overrun = {} /\ phase = "off"
  BY DEF Init
<1>4. DiskTyped
  BY <1>1, <1>2, <1>3 DEF DiskTyped
<1>5. Booted /\ LocksApart /\ CallsFit
  BY <1>2, <1>3 DEF Booted, LocksApart, CallsFit, Held
<1>6. DescriptorsFit /\ OverrunSound
  BY <1>2, <1>3 DEF DescriptorsFit, DescriptorFits, OverrunSound
<1> QED
  BY <1>4, <1>5, <1>6 DEF IInv

\* The steps of fs_init.
LEMMA BootIInv ==
    ASSUME IInv, binit \/ FetchRoot \/ FindRoot \/ WriteRoot
    PROVE  IInv'
<1>1. /\ phase # "up" /\ pc' = pc /\ fd' = fd /\ op' = op /\ overrun' = overrun
  BY DEF binit, FetchRoot, FindRoot, WriteRoot
<1>2. /\ mem \in [Path -> GoodInode]
      /\ DOMAIN disk = Sector /\ \A s \in Sector : disk[s].inode \in GoodInode
      /\ ptr \in Nat /\ saved \in Nat /\ overrun = {}
      /\ phase = "newroot" => mem[Root].isvalid
      /\ DOMAIN pc = Task /\ fd \in [Task -> Descriptor \cup {NoFd}]
      /\ \A t \in Task : pc[t] = "user" /\ fd[t] = NoFd
      /\ DOMAIN op = Task /\ \A t \in Task : Call(op[t])
  BY <1>1, IdleFacts
<1>3. DiskTyped
  BY DEF IInv
<1>4. Root \in Path
  BY PathFacts
<1>5. CASE binit
  <2>1. /\ mem' = mem /\ disk' = disk /\ phase' = "binit"
        /\ saved' \in Nat /\ ptr' \in Nat
    BY <1>2, <1>5 DEF binit, FS_START_SECTOR
  <2> QED
    BY <1>1, <1>2, <2>1, Idle
<1>6. CASE FetchRoot
  <2>1. /\ mem' = mem /\ disk' = disk /\ phase' = "root"
        /\ saved' = saved /\ ptr' = ptr
    BY <1>6 DEF FetchRoot
  <2> QED
    BY <1>1, <1>2, <2>1, Idle
<1>7. CASE FindRoot
  <2> DEFINE node == inode_fetch(rootIndex)
  <2>1. node \in GoodInode
    BY <1>3, FetchedGood
  <2>2. disk' = disk
    BY <1>7 DEF FindRoot
  <2>3. CASE node.isvalid
    <3>1. mem' = [mem EXCEPT ![Root] = node] /\ ptr' = ptr /\ saved' = saved
      BY <1>7, <2>3 DEF FindRoot
    <3> HIDE DEF node
    <3>2. mem' \in [Path -> GoodInode] /\ mem'[Root].isvalid
      BY <1>2, <1>4, <2>1, <2>3, <3>1
    <3> QED
      BY <1>1, <1>2, <2>2, <3>1, <3>2, Idle
  <2>4. CASE ~ node.isvalid
    <3> DEFINE new == NewInode("dir", ptr)
    <3>1. mem' = [mem EXCEPT ![Root] = new] /\ ptr' = ptr + 1 /\ saved' = ptr'
      BY <1>7, <2>4 DEF FindRoot
    <3>2. new \in GoodInode /\ new.isvalid
      BY <1>2, GoodInodes
    <3> HIDE DEF new
    <3>3. mem' \in [Path -> GoodInode] /\ mem'[Root].isvalid
          /\ ptr' \in Nat /\ saved' \in Nat
      BY <1>2, <1>4, <3>1, <3>2
    <3> QED
      BY <1>1, <1>2, <2>2, <3>1, <3>3, Idle
  <2> QED
    BY <2>3, <2>4
<1>8. CASE WriteRoot
  <2>1. /\ mem' = mem /\ disk' = Updated(disk, mem[Root]) /\ ptr' = ptr /\ saved' = saved
        /\ mem[Root].isvalid
    BY <1>2, <1>8 DEF WriteRoot
  <2>2. mem[Root] \in GoodInode
    BY <1>2, <1>4
  <2>3. DOMAIN disk' = Sector /\ \A s \in Sector : disk'[s].inode \in GoodInode
    BY <1>3, <2>1, <2>2, UpdatedGood
  <2> QED
    BY <1>1, <1>2, <2>1, <2>3, Idle
<1> QED
  BY <1>5, <1>6, <1>7, <1>8

\* A power cut leaves the disk.
LEMMA CrashIInv ==
    ASSUME IInv, Crash
    PROVE  IInv'
<1>1. mem' \in [Path -> GoodInode]
  BY GoodInodes DEF Crash, All
<1>2. /\ DOMAIN op' = Task /\ \A t \in Task : Call(op'[t])
      /\ DOMAIN pc' = Task /\ fd' \in [Task -> Descriptor \cup {NoFd}]
      /\ \A t \in Task : pc'[t] = "user" /\ fd'[t] = NoFd
  BY NoOpFacts DEF Crash, All
<1>3. /\ disk' = disk /\ ptr' = 0 /\ saved' = saved /\ overrun' = {}
      /\ phase' = "off"
  BY DEF Crash, onDisk
<1>4. DOMAIN disk = Sector /\ (\A s \in Sector : disk[s].inode \in GoodInode)
      /\ saved \in Nat
  BY DEF IInv, DiskTyped
<1>5. DOMAIN disk' = Sector /\ (\A s \in Sector : disk'[s].inode \in GoodInode)
      /\ saved' \in Nat /\ ptr' \in Nat
  BY <1>3, <1>4
<1> QED
  BY <1>1, <1>2, <1>3, <1>5, Idle

\* An inode that nobody has open or locked leaves the memory.
LEMMA EvictIInv ==
    ASSUME IInv, NEW p \in Path, Evict(p)
    PROVE  IInv'
<1>1. /\ phase = "up" /\ p # Root /\ mem' = [mem EXCEPT ![p] = NotCached]
      /\ \A t \in Task : p \notin Held(t) /\ (fd[t] # NoFd => p # fd[t].path)
      /\ disk' = disk /\ saved' = saved /\ ptr' = ptr /\ phase' = phase
      /\ pc' = pc /\ op' = op /\ fd' = fd /\ overrun' = overrun
  BY DEF Evict, onDisk
<1>2. DiskTyped
  BY DEF IInv
<1>3. mem' \in [Path -> GoodInode] /\ \A q \in Path \ {p} : mem'[q] = mem[q]
  BY <1>1, <1>2, GoodInodes DEF DiskTyped
<1>4. DiskTyped'
  BY <1>1, <1>2, <1>3 DEF DiskTyped, Call
<1>5. Booted' /\ LocksApart'
  BY <1>1, <1>3, PathFacts DEF IInv, Booted, LocksApart, Held
<1>6. CallsFit'
  <2>1. ASSUME NEW t \in Task, pc[t] # "user"
        PROVE  CallFits(Stage(pc[t], op[t]), op[t], fd[t], mem')
    <3> DEFINE o == op[t]
               s == Stage(pc[t], o)
               d == fd[t]
    <3>1. CallFits(s, o, d, mem) /\ Call(o)
      BY <1>2, <2>1 DEF IInv, CallsFit, DiskTyped
    <3>2. p \notin o.held /\ o.held \in SUBSET Path
      BY <1>1, <2>1, <3>1 DEF Held, Call
    <3>3. \A q \in o.held : mem'[q] = mem[q]
      BY <1>3, <3>2
    <3>4. WriteStages \cap {"truncate", "create"} = {}
      BY DEF WriteStages
    <3> HIDE DEF o, s, d
    <3>5. CallFits(s, o, d, mem')
      BY <3>1, <3>3, <3>4, CallKept
    <3> QED
      BY <3>5 DEF o, s, d
  <2> QED
    BY <1>1, <2>1 DEF CallsFit
<1>7. \A t \in Task : fd[t] # NoFd => mem'[fd[t].path] = mem[fd[t].path]
  BY <1>1, <1>2, <1>3 DEF DiskTyped, Descriptor
<1>8. DescriptorsFit'
  BY <1>1, <1>7 DEF IInv, DescriptorsFit, DescriptorFits
<1>9. OverrunSound'
  <2>1. ASSUME NEW t \in Task, Overran(t) PROVE Overran(t)'
    BY <1>1, <1>7, <2>1 DEF Overran, Free, Held
  <2> QED
    BY <1>1, <2>1 DEF IInv, OverrunSound, DiskTyped
<1> QED
  BY <1>4, <1>5, <1>6, <1>8, <1>9 DEF IInv

---------------------------------------------------------------------------
(* Calls that begin, and those that are one step. *)

LEMMA MayBeginFacts ==
    ASSUME IInv, NEW t \in Task, NEW ps, MayBegin(t, ps)
    PROVE  /\ phase = "up" /\ overrun = {} /\ pc[t] = "user"
           /\ \A u \in Task : Held(u) \cap ps = {}
           /\ DiskTyped /\ mem[Root].isvalid
           /\ mem \in [Path -> GoodInode]
           /\ DOMAIN disk = Sector /\ \A s \in Sector : disk[s].inode \in GoodInode
           /\ ptr \in Nat /\ saved \in Nat
           /\ fd \in [Task -> Descriptor \cup {NoFd}]
           /\ \A u \in Task : DescriptorFits(fd[u], mem)
           /\ DOMAIN pc = Task /\ DOMAIN op = Task /\ \A u \in Task : Call(op[u])
  BY DEF MayBegin, Free, IInv, Booted, DiskTyped, DescriptorsFit

\* A file that has just been opened.
LEMMA FdAtFacts ==
    ASSUME NEW p \in Path, NEW m, m[p] \in GoodInode, m[p].isvalid
    PROVE  FdAt(p) \in Descriptor /\ DescriptorFits(FdAt(p), m)
<1>1. FdAt(p) = [path |-> p, pos |-> 0, cut |-> FALSE, raw |-> FALSE]
  <2> DEFINE x == FdAt(p)
  <2>1. x = [k \in {"path", "pos", "cut", "raw"} |-> x[k]]
    BY DEF FdAt, NoFd
  <2>2. x.path = p /\ x.pos = 0 /\ x.cut = FALSE /\ x.raw = FALSE
    BY DEF FdAt, NoFd
  <2> HIDE DEF x
  <2>3. x = [path |-> p, pos |-> 0, cut |-> FALSE, raw |-> FALSE]
    BY <2>1, <2>2
  <2> QED
    BY <2>3 DEF x
<1>2. m[p].size \in Nat
  <2> DEFINE node == m[p]
  <2>1. node \in GoodInode
    OBVIOUS
  <2> HIDE DEF node
  <2>2. node.size \in Nat
    BY <2>1, GoodInodeFields
  <2> QED
    BY <2>2 DEF node
<1>3. m[p].size >= 0
  BY <1>2
<1> QED
  BY <1>1, <1>2, <1>3 DEF Descriptor, DescriptorFits

\* Calls of other tasks are what they were.
LEMMA UseIInv ==
    ASSUME IInv, NEW t \in Task, NEW ps \in SUBSET Path, MayBegin(t, ps),
           phase' = phase, pc' = pc, op' = op, disk' = disk, ptr' = ptr, saved' = saved,
           mem' \in [Path -> GoodInode],
           \A q \in Path \ ps : mem'[q] = mem[q],
           \A q \in Path : mem[q].isvalid => mem'[q] = mem[q],
           overrun' \in SUBSET Task, \A u \in overrun' : Overran(u)',
           NEW d \in Descriptor \cup {NoFd}, fd' = [fd EXCEPT ![t] = d],
           DescriptorFits(d, mem')
    PROVE  IInv'
<1>1. /\ phase = "up" /\ overrun = {} /\ pc[t] = "user"
      /\ \A u \in Task : Held(u) \cap ps = {}
      /\ DOMAIN disk = Sector /\ \A s \in Sector : disk[s].inode \in GoodInode
      /\ mem \in [Path -> GoodInode]
      /\ ptr \in Nat /\ saved \in Nat
      /\ fd \in [Task -> Descriptor \cup {NoFd}]
      /\ \A u \in Task : DescriptorFits(fd[u], mem)
      /\ DOMAIN pc = Task /\ DOMAIN op = Task /\ \A u \in Task : Call(op[u])
  BY MayBeginFacts
<1>2. /\ \A u \in Task \ {t} : fd'[u] = fd[u]
      /\ fd'[t] = d /\ fd' \in [Task -> Descriptor \cup {NoFd}]
  BY <1>1
<1>3. ASSUME NEW q \in Path, mem[q].isvalid
      PROVE  /\ mem'[q].isvalid /\ mem'[q].type = mem[q].type
             /\ mem[q].size <= mem'[q].size
  <2>1. mem[q].size \in Nat
    BY <1>1, GoodInodeFields
  <2> QED
    BY <1>3, <2>1
<1>4. \A u \in Task : DescriptorFits(fd'[u], mem')
  <2>1. ASSUME NEW u \in Task \ {t} PROVE DescriptorFits(fd[u], mem')
    BY <1>1, <1>3, DescriptorKept
  <2> QED
    BY <1>2, <2>1
<1>5. /\ phase' = "up" /\ pc'[t] = "user" /\ Call(op'[t])
      /\ DOMAIN pc' = Task /\ DOMAIN op' = Task
      /\ \A u \in Task \ {t} : pc'[u] = pc[u] /\ op'[u] = op[u]
  BY <1>1
<1>6. /\ DOMAIN disk' = Sector /\ \A s \in Sector : disk'[s].inode \in GoodInode
      /\ ptr' \in Nat /\ saved' \in Nat
  BY <1>1
<1>7. /\ \A u \in Task \ {t} : Held(u) \cap ps = {}
      /\ \A u \in Task \ {t} : fd'[u] = fd[u] \/ (fd[u] # NoFd /\ fd[u].path \in ps)
      /\ \A q \in Path : mem[q].isvalid => mem'[q].isvalid
      /\ \A u \in overrun' : \/ u \in overrun /\ pc[t] # "user" /\ ps \in SUBSET op[t].held
                             \/ Overran(u)'
  BY <1>1, <1>2, <1>3
<1> QED
  BY <1>1, <1>2, <1>4, <1>5, <1>6, <1>7, Moves

LEMMA OpenPlainIInv ==
    ASSUME IInv, NEW t \in Task, NEW p \in Path, NEW how, OpenPlain(t, p, how)
    PROVE  IInv'
<1> DEFINE node == Loaded[p]
           opened == Reached(p) /\ node.isvalid /\ node.type = TypeFor(how)
           d == IF opened /\ how # "mkdir" THEN FdAt(p) ELSE NoFd
<1>1. /\ MayBegin(t, Prefixes(p)) /\ fd[t] = NoFd
      /\ mem' = Walked(p) /\ phase' = phase /\ pc' = pc /\ op' = op
      /\ disk' = disk /\ ptr' = ptr /\ saved' = saved /\ overrun' = overrun
      /\ fd' = IF opened /\ how # "mkdir" THEN [fd EXCEPT ![t] = FdAt(p)] ELSE fd
  BY DEF OpenPlain, BeginOpen, onDisk
<1>2. /\ overrun = {} /\ DiskTyped /\ mem[Root].isvalid
      /\ fd \in [Task -> Descriptor \cup {NoFd}]
  BY <1>1, MayBeginFacts
<1>3. /\ mem' \in [Path -> GoodInode]
      /\ \A q \in Path : mem[q].isvalid \/ q \notin Prefixes(p) => mem'[q] = mem[q]
      /\ mem'[p] = node
  BY <1>1, <1>2, WalkedFacts
<1>4. fd' = [fd EXCEPT ![t] = d]
  BY <1>1, <1>2
<1>5. d \in Descriptor \cup {NoFd} /\ DescriptorFits(d, mem')
  <2>1. CASE opened /\ how # "mkdir"
    <3>1. mem'[p] \in GoodInode /\ mem'[p].isvalid
      BY <1>3, <2>1
    <3> QED
      BY <2>1, <3>1, FdAtFacts
  <2>2. CASE ~ (opened /\ how # "mkdir")
    BY <2>2 DEF DescriptorFits
  <2> QED
    BY <2>1, <2>2
<1> HIDE DEF d, node
<1>6. Prefixes(p) \in SUBSET Path
  BY PathFacts
<1> QED
  BY <1>1, <1>2, <1>3, <1>4, <1>5, <1>6, UseIInv

LEMMA CloseIInv ==
    ASSUME IInv, NEW t \in Task, Close(t)
    PROVE  IInv'
<1>1. /\ MayBegin(t, {}) /\ fd' = [fd EXCEPT ![t] = NoFd]
      /\ mem' = mem /\ phase' = phase /\ pc' = pc /\ op' = op
      /\ disk' = disk /\ ptr' = ptr /\ saved' = saved /\ overrun' = overrun
  BY DEF Close, onDisk
<1>2. overrun = {} /\ mem \in [Path -> GoodInode]
  BY <1>1, MayBeginFacts
<1>3. DescriptorFits(NoFd, mem')
  BY DEF DescriptorFits
<1>4. mem' \in [Path -> GoodInode] /\ \A q \in Path : mem'[q] = mem[q]
  BY <1>1, <1>2
<1> QED
  BY <1>1, <1>2, <1>3, <1>4, UseIInv

\* A read from within what there is leaves the position there, and gives no more
\* than was asked for.
LEMMA ReadBounds ==
    ASSUME NEW size \in Nat, NEW pos \in Nat, NEW n \in Nat
    PROVE  LET got == IF pos + n > size THEN Unsigned(size - pos) ELSE n
           IN  /\ got > n => pos > size
               /\ pos + got \in Nat
               /\ pos <= size => pos + got <= size
<1>1. Huge \in Nat
  <2>1. Radix \in Nat /\ SECTOR_SIZE \in Nat
    BY DiskAssumption
  <2>2. Radix * Radix \in Nat
    BY <2>1
  <2> DEFINE r == Radix * Radix
  <2> HIDE DEF r
  <2>3. r * SECTOR_SIZE \in Nat
    BY <2>1, <2>2 DEF r
  <2> QED
    BY <2>3 DEF Huge, r
<1>2. CASE pos + n > size /\ size - pos < 0
  BY <1>1, <1>2 DEF Unsigned
<1>3. CASE pos + n > size /\ size - pos >= 0
  BY <1>3 DEF Unsigned
<1>4. CASE pos + n <= size
  BY <1>4
<1> QED
  BY <1>2, <1>3, <1>4

\* What an open descriptor leads to.
LEMMA OpenFacts ==
    ASSUME IInv, NEW t \in Task, NEW ps, MayBegin(t, ps), fd[t] # NoFd
    PROVE  /\ fd[t] \in Descriptor /\ fd[t].path \in Path /\ fd[t].pos \in Nat
           /\ fd[t].cut \in BOOLEAN /\ fd[t].raw \in BOOLEAN
           /\ mem[fd[t].path] \in GoodInode /\ mem[fd[t].path].size \in Nat
           /\ mem[fd[t].path].isvalid
           /\ fd[t].cut = FALSE /\ mem[fd[t].path].type = "file" =>
                 fd[t].pos <= mem[fd[t].path].size
<1>1. /\ mem \in [Path -> GoodInode] /\ fd \in [Task -> Descriptor \cup {NoFd}]
      /\ DescriptorFits(fd[t], mem)
  BY MayBeginFacts
<1>2. /\ fd[t] \in Descriptor /\ fd[t].path \in Path /\ fd[t].pos \in Nat
      /\ fd[t].cut \in BOOLEAN /\ fd[t].raw \in BOOLEAN
  BY <1>1 DEF Descriptor
<1>3. mem[fd[t].path] \in GoodInode
  BY <1>1, <1>2
<1> QED
  BY <1>1, <1>2, <1>3, GoodInodeFields DEF DescriptorFits

\* A position that moves.
LEMMA MovedFits ==
    ASSUME NEW d \in Descriptor, NEW m, NEW pos \in Nat, NEW raw \in BOOLEAN, m[d.path].isvalid,
           d.cut = FALSE /\ m[d.path].type = "file" => pos <= m[d.path].size
    PROVE  LET e == [d EXCEPT !.pos = pos, !.raw = raw]
           IN  e \in Descriptor /\ DescriptorFits(e, m)
<1> DEFINE e == [d EXCEPT !.pos = pos, !.raw = raw]
<1>1. e \in Descriptor
  BY DEF Descriptor
<1>2. e.path = d.path /\ e.pos = pos
  BY DEF Descriptor
<1>3. e.cut = d.cut
  BY DEF Descriptor
<1> HIDE DEF e
<1>4. DescriptorFits(e, m)
  BY <1>2, <1>3 DEF DescriptorFits
<1> QED
  BY <1>1, <1>4 DEF e

\* A read that gives more than was asked for, or a directory read past its end.
LEMMA OverranNow ==
    ASSUME IInv, NEW t \in Task, MayBegin(t, {fd[t].path}), fd[t] # NoFd,
           fd[t].pos > mem[fd[t].path].size,
           fd' = fd, mem' = mem, pc' = pc, op' = op
    PROVE  Overran(t)'
<1> DEFINE d == fd[t]
<1>1. fd[t] = d /\ fd'[t] = d /\ d.pos \in Nat /\ mem[d.path].size \in Nat
  BY OpenFacts
<1>2. mem[d.path].type = "file" => d.cut = TRUE
  <2>1. d.cut \in BOOLEAN
    BY OpenFacts
  <2>2. ASSUME d.cut = FALSE, mem[d.path].type = "file" PROVE FALSE
    <3>1. d.pos <= mem[d.path].size
      BY <2>2, OpenFacts
    <3> QED
      BY <1>1, <3>1
  <2> QED
    BY <2>1, <2>2
<1>3. pc[t] = "user" /\ Free({d.path})
  BY DEF MayBegin
<1>4. Free({d.path})'
  BY <1>1, <1>3 DEF Free, Held
<1> QED
  BY <1>1, <1>2, <1>3, <1>4 DEF Overran

\* Of a file or of a directory.
LEMMA BeginReadIInv ==
    ASSUME IInv, NEW t \in Task, NEW n \in Reads, BeginRead(t, n)
    PROVE  IInv'
<1> DEFINE d == fd[t]
           node == mem[d.path]
           got == BytesRead(node, d.pos, n)
           pos == d.pos + got
           raw == d.raw \/ node.type = "dir"
           e == IF got > n THEN d ELSE [d EXCEPT !.pos = pos, !.raw = raw]
<1>1. /\ d # NoFd /\ MayBegin(t, {d.path})
      /\ overrun' = IF got > n THEN {t} ELSE {}
      /\ fd' = IF got > n THEN fd
               ELSE [fd EXCEPT ![t].pos = @ + got, ![t].raw = @ \/ node.type = "dir"]
      /\ mem' = mem /\ phase' = phase /\ pc' = pc /\ op' = op
      /\ disk' = disk /\ ptr' = ptr /\ saved' = saved
  BY DEF BeginRead, onDisk
<1>2. /\ d \in Descriptor /\ d.path \in Path /\ d.pos \in Nat /\ d.raw \in BOOLEAN
      /\ node.size \in Nat /\ node.isvalid
      /\ d.cut = FALSE /\ node.type = "file" => d.pos <= node.size
  <2>1. /\ d \in Descriptor /\ d.path \in Path /\ d.pos \in Nat /\ d.raw \in BOOLEAN
        /\ node.size \in Nat /\ node.isvalid
    BY <1>1, OpenFacts
  <2>2. ASSUME d.cut = FALSE, node.type = "file" PROVE d.pos <= node.size
    BY <1>1, <2>2, OpenFacts
  <2> QED
    BY <2>1, <2>2
<1>3. fd \in [Task -> Descriptor \cup {NoFd}] /\ mem \in [Path -> GoodInode]
      /\ DescriptorFits(d, mem)
  BY <1>1, MayBeginFacts
<1>4. n \in Nat
  BY DiskAssumption
<1>5. /\ got > n => d.pos > node.size
      /\ pos \in Nat
      /\ d.pos <= node.size => pos <= node.size
  <2> DEFINE size == node.size
             at == d.pos
             g == got
  <2>1. g = IF at + n > size THEN Unsigned(size - at) ELSE n
    BY DEF BytesRead
  <2>2. size \in Nat /\ at \in Nat
    BY <1>2
  <2> HIDE DEF size, at, g
  <2>3. LET x == IF at + n > size THEN Unsigned(size - at) ELSE n
        IN  /\ x > n => at > size
            /\ at + x \in Nat
            /\ at <= size => at + x <= size
    BY <1>4, <2>2, ReadBounds, Zenon
  <2>4. /\ g > n => at > size
        /\ at + g \in Nat
        /\ at <= size => at + g <= size
    BY <2>1, <2>3, Zenon
  <2> HIDE DEF got, node, d
  <2> QED
    BY <2>4 DEF size, at, g
<1>6. fd' = [fd EXCEPT ![t] = e]
  BY <1>1, <1>3
<1>7. e \in Descriptor /\ DescriptorFits(e, mem')
  <2>1. CASE got > n
    BY <1>1, <1>2, <1>3, <2>1
  <2>2. CASE ~ (got > n)
    <3>1. /\ d \in Descriptor /\ pos \in Nat /\ raw \in BOOLEAN /\ mem'[d.path].isvalid
          /\ d.cut = FALSE /\ mem'[d.path].type = "file" => pos <= mem'[d.path].size
      BY <1>1, <1>2, <1>5
    <3>2. e = [d EXCEPT !.pos = pos, !.raw = raw]
      BY <2>2
    <3> HIDE DEF d, pos, raw, e
    <3> QED
      BY <3>1, <3>2, MovedFits
  <2> QED
    BY <2>1, <2>2
<1>8. \A u \in overrun' : Overran(u)'
  <2>1. ASSUME got > n PROVE Overran(t)'
    <3>1. fd' = fd /\ d.pos > node.size
      BY <1>1, <1>5, <2>1
    <3> QED
      BY <1>1, <3>1, OverranNow
  <2> QED
    BY <1>1, <2>1
<1>9. overrun' \in SUBSET Task
  BY <1>1
<1>10. mem' \in [Path -> GoodInode] /\ {d.path} \in SUBSET Path
       /\ \A q \in Path : mem'[q] = mem[q]
  BY <1>1, <1>2, <1>3
<1> HIDE DEF e, d
<1> QED
  BY <1>1, <1>6, <1>7, <1>8, <1>9, <1>10, UseIInv

\* Wherever the listing goes on, a directory lets the position be there.
LEMMA ReadDirIInv ==
    ASSUME IInv, NEW t \in Task, ReadDir(t)
    PROVE  IInv'
<1> DEFINE d == fd[t]
           node == mem[d.path]
           past == Unsigned(node.size - d.pos) > node.size
<1>1. /\ d # NoFd /\ node.type = "dir" /\ MayBegin(t, {d.path})
      /\ mem' = mem /\ phase' = phase /\ pc' = pc /\ op' = op
      /\ disk' = disk /\ ptr' = ptr /\ saved' = saved
  BY DEF ReadDir, onDisk
<1>2. /\ d \in Descriptor /\ d.path \in Path /\ d.pos \in Nat /\ d.raw \in BOOLEAN
      /\ node.size \in Nat /\ node.isvalid
  BY <1>1, OpenFacts
<1>3. fd \in [Task -> Descriptor \cup {NoFd}] /\ mem \in [Path -> GoodInode]
      /\ DescriptorFits(d, mem)
  BY <1>1, MayBeginFacts
<1>4. mem' \in [Path -> GoodInode] /\ {d.path} \in SUBSET Path
      /\ \A q \in Path : mem'[q] = mem[q]
  BY <1>1, <1>2, <1>3
<1>5. CASE past /\ overrun' = {t} /\ fd' = fd
  <2>1. d.pos > node.size
    <3> DEFINE size == node.size
               at == d.pos
    <3>1. size \in Nat /\ at \in Nat /\ Unsigned(size - at) > size
      BY <1>2, <1>5
    <3> HIDE DEF size, at
    <3>2. at > size
      BY <3>1 DEF Unsigned
    <3> QED
      BY <3>2 DEF size, at
  <2>2. Overran(t)'
    BY <1>1, <1>5, <2>1, OverranNow
  <2>3. fd' = [fd EXCEPT ![t] = d] /\ DescriptorFits(d, mem')
    BY <1>1, <1>3, <1>5
  <2> HIDE DEF d
  <2> QED
    BY <1>1, <1>2, <1>4, <1>5, <2>2, <2>3, UseIInv
<1>6. CASE /\ overrun' = {}
           /\ \E nul \in NulsAfter(Contents[node], d.pos) :
                 fd' = [fd EXCEPT ![t].pos = NextRecord(nul)]
  <2>1. PICK nul \in NulsAfter(Contents[node], d.pos) :
                fd' = [fd EXCEPT ![t].pos = NextRecord(nul)]
    BY <1>6
  <2> DEFINE pos == NextRecord(nul)
             raw == d.raw
             e == [d EXCEPT !.pos = pos, !.raw = raw]
  <2>2. pos \in Nat
    <3>1. nul \in d.pos + 1 .. MaxPos - 2
      BY DEF NulsAfter
    <3>2. nul \in Nat
      BY <1>2, <3>1, DiskAssumption
    <3> QED
      BY <3>2 DEF NextRecord
  <2>3. /\ d \in Descriptor /\ raw \in BOOLEAN /\ mem'[d.path].isvalid
        /\ d.cut = FALSE /\ mem'[d.path].type = "file" => pos <= mem'[d.path].size
    BY <1>1, <1>2
  <2>4. fd' = [fd EXCEPT ![t] = e]
    <3>1. e = [d EXCEPT !.pos = pos]
      BY <1>2 DEF Descriptor
    <3> QED
      BY <1>3, <2>1, <3>1
  <2> HIDE DEF d, pos, raw
  <2>5. e \in Descriptor /\ DescriptorFits(e, mem')
    BY <2>2, <2>3, MovedFits
  <2> HIDE DEF e
  <2> QED
    BY <1>1, <1>4, <1>6, <2>4, <2>5, UseIInv
<1> QED
  BY <1>5, <1>6 DEF ReadDir

\* What inode_write does first, and that it goes on to the data only when the
\* inode is as large as it is to be.
LEMMA StagesOfWrite ==
    ASSUME NEW node, NEW o, node.size \in Nat, o.from \in Nat, Len(o.units) \in Nat
    PROVE  /\ AfterGrowth(node, o) \in {"size", "data"}
           /\ InodeWrite(node, o) \in {"grow", "size", "data"}
           /\ AfterGrowth(node, o) = "data" \/ InodeWrite(node, o) = "data" =>
                 o.from + Len(o.units) <= node.size
<1> DEFINE size == node.size
           last == o.from + Len(o.units)
<1>1. size \in Nat /\ last \in Nat
  OBVIOUS
<1>2. BytesOverflow(node, o.from, Len(o.units)) = IF last > size THEN last - size ELSE 0
  BY DEF BytesOverflow
<1> HIDE DEF size, last
<1>3. AfterGrowth(node, o) \in {"size", "data"}
  BY DEF AfterGrowth
<1>4. AfterGrowth(node, o) = "data" => last <= size
  BY <1>1, <1>2 DEF AfterGrowth
<1>5. InodeWrite(node, o) \in {"grow", AfterGrowth(node, o)}
  BY DEF InodeWrite
<1> QED
  BY <1>3, <1>4, <1>5 DEF size, last

\* A call begins, under the locks of ps.
LEMMA BeginIInv ==
    ASSUME IInv, NEW t \in Task, NEW ps \in SUBSET Path, MayBegin(t, ps),
           NEW label, NEW o, Call(o), o.held \in SUBSET ps,
           pc' = [pc EXCEPT ![t] = label], op' = [op EXCEPT ![t] = o],
           phase' = phase, disk' = disk, ptr' \in Nat, saved' = saved,
           fd' = fd, overrun' = overrun,
           mem' \in [Path -> GoodInode],
           \A q \in Path \ ps : mem'[q] = mem[q],
           \A q \in Path : mem[q].isvalid => mem'[q] = mem[q],
           CallFits(Stage(label, o), o, fd[t], mem')
    PROVE  IInv'
<1>1. /\ phase = "up" /\ overrun = {} /\ pc[t] = "user"
      /\ \A u \in Task : Held(u) \cap ps = {}
      /\ DOMAIN disk = Sector /\ \A s \in Sector : disk[s].inode \in GoodInode
      /\ mem \in [Path -> GoodInode]
      /\ ptr \in Nat /\ saved \in Nat
      /\ fd \in [Task -> Descriptor \cup {NoFd}]
      /\ \A u \in Task : DescriptorFits(fd[u], mem)
      /\ DOMAIN pc = Task /\ DOMAIN op = Task /\ \A u \in Task : Call(op[u])
  BY MayBeginFacts
<1>2. /\ \A u \in Task \ {t} : pc'[u] = pc[u] /\ op'[u] = op[u]
      /\ pc'[t] = label /\ op'[t] = o /\ DOMAIN pc' = Task /\ DOMAIN op' = Task
  BY <1>1
<1>3. ASSUME NEW q \in Path, mem[q].isvalid
      PROVE  /\ mem'[q].isvalid /\ mem'[q].type = mem[q].type
             /\ mem[q].size <= mem'[q].size
  <2>1. mem[q].size \in Nat
    BY <1>1, GoodInodeFields
  <2> QED
    BY <1>3, <2>1
<1>4. \A u \in Task : DescriptorFits(fd'[u], mem')
  <2>1. ASSUME NEW u \in Task PROVE DescriptorFits(fd[u], mem')
    BY <1>1, <1>3, DescriptorKept
  <2> QED
    BY <2>1
<1>5. op'[t].held \in SUBSET ps /\ CallFits(Stage(pc'[t], op'[t]), op'[t], fd'[t], mem')
  BY <1>2
<1>6. Call(op'[t]) /\ saved' \in Nat /\ overrun' = {}
  BY <1>1, <1>2
<1>7. /\ fd' \in [Task -> Descriptor \cup {NoFd}] /\ \A u \in Task \ {t} : fd'[u] = fd[u]
      /\ DOMAIN disk' = Sector /\ \A s \in Sector : disk'[s].inode \in GoodInode
  BY <1>1
<1>8. /\ phase' = "up" /\ \A u \in Task \ {t} : Held(u) \cap ps = {}
      /\ \A u \in Task \ {t} : fd'[u] = fd[u] \/ (fd[u] # NoFd /\ fd[u].path \in ps)
      /\ \A q \in Path : mem[q].isvalid => mem'[q].isvalid
      /\ DOMAIN pc' = Task /\ DOMAIN op' = Task
      /\ \A u \in Task \ {t} : pc'[u] = pc[u] /\ op'[u] = op[u]
  BY <1>1, <1>2, <1>3, <1>7
<1> QED
  BY <1>1, <1>4, <1>5, <1>6, <1>7, <1>8, Moves

LEMMA OpenTruncateIInv ==
    ASSUME IInv, NEW t \in Task, NEW p \in Path, NEW how, OpenTruncate(t, p, how)
    PROVE  IInv'
<1> DEFINE o == [NoOp EXCEPT !.path = p, !.held = Locked(p)]
<1>1. /\ MayBegin(t, Prefixes(p)) /\ fd[t] = NoFd /\ Loaded[p].isvalid
      /\ mem' = Walked(p)
      /\ pc' = [pc EXCEPT ![t] = "truncate"] /\ op' = [op EXCEPT ![t] = o]
      /\ phase' = phase /\ disk' = disk /\ ptr' = ptr /\ saved' = saved
      /\ fd' = fd /\ overrun' = overrun
  BY DEF OpenTruncate, BeginOpen, onDisk
<1>2. DiskTyped /\ mem[Root].isvalid /\ ptr \in Nat
  BY <1>1, MayBeginFacts
<1>3. /\ mem' \in [Path -> GoodInode]
      /\ \A q \in Path : mem[q].isvalid \/ q \notin Prefixes(p) => mem'[q] = mem[q]
      /\ mem'[p] = Loaded[p]
  BY <1>1, <1>2, WalkedFacts
<1>4. /\ Prefixes(p) \in SUBSET Path /\ Locked(p) \in SUBSET Prefixes(p)
      /\ p \in Locked(p)
  BY PathFacts
<1>5. Call(o) /\ o.path = p /\ o.held = Locked(p)
  BY <1>4, NoOpFacts DEF Call, Fields
<1> HIDE DEF o
<1>6. Stage("truncate", o) = "truncate"
  BY DEF Stage
<1>7. CallFits("truncate", o, fd[t], mem')
  BY <1>1, <1>3, <1>4, <1>5 DEF CallFits, WriteStages
<1>8. /\ \A q \in Path \ Prefixes(p) : mem'[q] = mem[q]
      /\ \A q \in Path : mem[q].isvalid => mem'[q] = mem[q]
      /\ ptr' \in Nat /\ o.held \in SUBSET Prefixes(p)
  BY <1>1, <1>2, <1>3, <1>4, <1>5
<1> QED
  BY <1>1, <1>3, <1>4, <1>5, <1>6, <1>7, <1>8, BeginIInv

LEMMA OpenCreateIInv ==
    ASSUME IInv, NEW t \in Task, NEW p \in Path, NEW how, OpenCreate(t, p, how)
    PROVE  IInv'
<1> DEFINE c == [NoOp EXCEPT !.path = p, !.opened = p, !.held = Locked(p)]
           o == [c EXCEPT !.index = ptr, !.then = "create"]
           new == NewInode(TypeFor(how), 0)
           W == Walked(p)
<1>1. /\ MayBegin(t, Prefixes(p)) /\ fd[t] = NoFd
      /\ Reached(p) /\ ~ Loaded[p].isvalid
      /\ mem' = [W EXCEPT ![p] = new]
      /\ pc' = [pc EXCEPT ![t] = "balloc"] /\ op' = [op EXCEPT ![t] = o]
      /\ ptr' = ptr + 1
      /\ phase' = phase /\ disk' = disk /\ saved' = saved
      /\ fd' = fd /\ overrun' = overrun
  BY DEF OpenCreate, BeginOpen, Balloc, Set, Goto, onDisk
<1>2. DiskTyped /\ mem[Root].isvalid /\ ptr \in Nat
  BY <1>1, MayBeginFacts
<1>3. /\ W \in [Path -> GoodInode]
      /\ \A q \in Path : mem[q].isvalid \/ q \notin Prefixes(p) => W[q] = mem[q]
      /\ W[p] = Loaded[p]
      /\ p # Root => IsDir(W[Front(p)])
  BY <1>1, <1>2, WalkedFacts
<1>4. /\ Prefixes(p) \in SUBSET Path /\ Locked(p) \in SUBSET Prefixes(p)
      /\ p \in Locked(p) /\ Root \in Path /\ Front(p) \in Path
  BY PathFacts
<1>5. p # Root
  BY <1>1, <1>2, <1>3, <1>4
<1>6. Front(p) \in Locked(p) /\ Front(p) # p
  BY <1>5, PathFacts
<1>7. new \in GoodInode /\ new.isvalid
  BY GoodInodes DEF TypeFor
<1> HIDE DEF W, new
<1>8. /\ mem' \in [Path -> GoodInode] /\ mem'[p].isvalid
      /\ \A q \in Path : mem[q].isvalid \/ q \notin Prefixes(p) => mem'[q] = mem[q]
      /\ mem'[Front(p)].type = "dir"
  <2>1. mem' \in [Path -> GoodInode] /\ mem'[p].isvalid
    BY <1>1, <1>3, <1>7
  <2>2. ~ mem[p].isvalid
    BY <1>1, <1>3
  <2>3. \A q \in Path : mem[q].isvalid \/ q \notin Prefixes(p) => mem'[q] = mem[q]
    BY <1>1, <1>3, <1>4, <2>2
  <2>4. mem'[Front(p)].type = "dir"
    BY <1>1, <1>3, <1>4, <1>5, <1>6 DEF IsDir
  <2> QED
    BY <2>1, <2>3, <2>4
<1>9. Call(c) /\ c.path = p /\ c.held = Locked(p) /\ c.opened = p /\ c.from = 0
  BY <1>4, NoOpFacts DEF Call, Fields
<1> HIDE DEF c
<1>10. Call(o) /\ o.path = p /\ o.held = Locked(p) /\ o.opened = p /\ o.then = "create" /\ o.from = 0
  BY <1>2, <1>9 DEF Call, Fields
<1> HIDE DEF o
<1>11. Stage("balloc", o) = "create"
  BY <1>10 DEF Stage
<1>12. CallFits("create", o, fd[t], mem')
  BY <1>4, <1>6, <1>8, <1>10 DEF CallFits, WriteStages
<1>13. /\ \A q \in Path \ Prefixes(p) : mem'[q] = mem[q]
       /\ \A q \in Path : mem[q].isvalid => mem'[q] = mem[q]
       /\ ptr' \in Nat /\ o.held \in SUBSET Prefixes(p)
  BY <1>1, <1>2, <1>4, <1>8, <1>10
<1> QED
  BY <1>1, <1>4, <1>8, <1>10, <1>11, <1>12, <1>13, BeginIInv

LEMMA BeginWriteIInv ==
    ASSUME IInv, NEW t \in Task, NEW n \in Writes, BeginWrite(t, n)
    PROVE  IInv'
<1> DEFINE p == fd[t].path
           units == [i \in 1 .. n |-> Byte]
           o == [NoOp EXCEPT !.path = p, !.from = fd[t].pos, !.units = units,
                             !.held = {p, Front(p)}]
           label == InodeWrite(mem[p], o)
<1>1. /\ MayBegin(t, {p, Front(p)}) /\ fd[t] # NoFd /\ mem[p].type = "file"
      /\ pc' = [pc EXCEPT ![t] = label] /\ op' = [op EXCEPT ![t] = o]
      /\ phase' = phase /\ disk' = disk /\ ptr' = ptr /\ saved' = saved
      /\ mem' = mem /\ fd' = fd /\ overrun' = overrun
  BY DEF BeginWrite, Set, Goto, onDisk
<1>2. mem \in [Path -> GoodInode] /\ ptr \in Nat
  BY <1>1, MayBeginFacts
<1>3. p \in Path /\ fd[t].pos \in Nat /\ mem[p].size \in Nat
  BY <1>1, OpenFacts
<1>4. Front(p) \in Path
  BY <1>3, PathFacts
<1>5. n \in Nat /\ Len(units) = n
  BY DiskAssumption
<1> HIDE DEF units
<1>6. /\ Call(o) /\ o.path = p /\ o.held = {p, Front(p)} /\ o.from = fd[t].pos
      /\ o.units = units /\ o.add = FALSE
  BY <1>3, <1>4, <1>5, NoOpFacts DEF Call, Fields
<1> HIDE DEF o
<1>7. /\ label \in {"grow", "size", "data"}
      /\ label = "data" => o.from + Len(o.units) <= mem[p].size
  BY <1>3, <1>5, <1>6, StagesOfWrite
<1> HIDE DEF label
<1>8. Stage(label, o) = label
  BY <1>7 DEF Stage
<1>9. CallFits(label, o, fd[t], mem')
  BY <1>1, <1>6, <1>7 DEF CallFits, WriteStages
<1>10. /\ {p, Front(p)} \in SUBSET Path /\ mem' \in [Path -> GoodInode]
       /\ \A q \in Path : mem'[q] = mem[q]
       /\ ptr' \in Nat /\ o.held \in SUBSET {p, Front(p)}
  BY <1>1, <1>2, <1>3, <1>4, <1>6
<1> QED
  BY <1>1, <1>6, <1>8, <1>9, <1>10, BeginIInv

---------------------------------------------------------------------------
(* The steps of calls. *)

LEMMA AtWork ==
    ASSUME IInv, NEW t \in Task, pc[t] # "user"
    PROVE  /\ phase = "up" /\ DiskTyped /\ mem[Root].isvalid
           /\ mem \in [Path -> GoodInode]
           /\ DOMAIN disk = Sector /\ \A s \in Sector : disk[s].inode \in GoodInode
           /\ ptr \in Nat /\ saved \in Nat
           /\ fd \in [Task -> Descriptor \cup {NoFd}]
           /\ \A u \in Task : DescriptorFits(fd[u], mem)
           /\ DOMAIN pc = Task /\ DOMAIN op = Task
           /\ Call(op[t]) /\ op[t].path \in Path /\ op[t].held \in SUBSET Path
           /\ op[t].opened \in Path
           /\ op[t].from \in Nat /\ Len(op[t].units) \in Nat /\ op[t].add \in BOOLEAN
           /\ op[t].index \in Nat /\ op[t].sectors \in Nat
           /\ mem[op[t].path] \in GoodInode
           /\ CallFits(Stage(pc[t], op[t]), op[t], fd[t], mem)
           /\ \A u \in Task \ {t} : Held(u) \cap op[t].held = {}
<1>1. /\ phase = "up" /\ DiskTyped /\ mem[Root].isvalid
      /\ mem \in [Path -> GoodInode]
      /\ DOMAIN disk = Sector /\ \A s \in Sector : disk[s].inode \in GoodInode
      /\ ptr \in Nat /\ saved \in Nat
      /\ fd \in [Task -> Descriptor \cup {NoFd}]
      /\ \A u \in Task : DescriptorFits(fd[u], mem)
      /\ DOMAIN pc = Task /\ DOMAIN op = Task
      /\ Call(op[t])
  BY DEF IInv, Booted, DiskTyped, DescriptorsFit
<1>2. /\ op[t].path \in Path /\ op[t].held \in SUBSET Path /\ op[t].opened \in Path
      /\ op[t].from \in Nat /\ Len(op[t].units) \in Nat /\ op[t].add \in BOOLEAN
      /\ op[t].index \in Nat /\ op[t].sectors \in Nat
  BY <1>1 DEF Call
<1>3. CallFits(Stage(pc[t], op[t]), op[t], fd[t], mem)
  BY DEF IInv, CallsFit
<1>4. \A u \in Task \ {t} : Held(u) \cap op[t].held = {}
  <2>1. Held(t) = op[t].held
    BY DEF Held
  <2> QED
    BY <2>1 DEF IInv, LocksApart
<1> QED
  BY <1>1, <1>2, <1>3, <1>4

\* A task goes on with its call, or returns from it.
LEMMA StepIInv ==
    ASSUME IInv, NEW t \in Task, pc[t] # "user", NEW label, NEW o, Call(o),
           DOMAIN pc' = Task, DOMAIN op' = Task, pc'[t] = label, op'[t] = o,
           \A u \in Task \ {t} : pc'[u] = pc[u] /\ op'[u] = op[u],
           label # "user" => /\ o.held = op[t].held
                             /\ CallFits(Stage(label, o), o, fd'[t], mem'),
           phase' = phase, overrun' = overrun,
           DOMAIN disk' = Sector, \A s \in Sector : disk'[s].inode \in GoodInode,
           ptr' \in Nat, saved' \in Nat,
           mem' \in [Path -> GoodInode],
           \A q \in Path \ op[t].held : mem'[q] = mem[q],
           \A q \in Path : mem[q].isvalid => mem'[q].isvalid,
           fd' \in [Task -> Descriptor \cup {NoFd}],
           \A u \in Task \ {t} : \/ fd'[u] = fd[u]
                                 \/ fd[u] # NoFd /\ fd[u].path \in op[t].held,
           \A u \in Task : DescriptorFits(fd'[u], mem')
    PROVE  IInv'
<1> DEFINE ps == op[t].held
<1>1. /\ phase = "up" /\ phase' = "up" /\ ps \in SUBSET Path
      /\ \A u \in Task \ {t} : Held(u) \cap ps = {}
  BY AtWork
<1>2. overrun \in SUBSET Task
  BY DEF IInv, DiskTyped
<1>3. pc'[t] # "user" =>
         /\ op'[t].held \in SUBSET ps
         /\ CallFits(Stage(pc'[t], op'[t]), op'[t], fd'[t], mem')
  OBVIOUS
<1>4. /\ \A q \in Path \ ps : mem'[q] = mem[q]
      /\ \A u \in Task \ {t} : \/ fd'[u] = fd[u]
                               \/ fd[u] # NoFd /\ fd[u].path \in ps
      /\ Call(op'[t]) /\ ps \in SUBSET op[t].held /\ overrun' \in SUBSET Task
  BY <1>2
<1> HIDE DEF ps
<1> QED
  BY <1>1, <1>3, <1>4, Moves

\* An inode that is changed, but not made smaller, under the task's locks.
LEMMA GrowIInv ==
    ASSUME IInv, NEW t \in Task, pc[t] # "user", NEW label, NEW o, Call(o),
           DOMAIN pc' = Task, DOMAIN op' = Task, pc'[t] = label, op'[t] = o,
           \A u \in Task \ {t} : pc'[u] = pc[u] /\ op'[u] = op[u],
           o.held = op[t].held, CallFits(Stage(label, o), o, fd[t], mem'),
           phase' = phase, overrun' = overrun, fd' = fd,
           DOMAIN disk' = Sector, \A s \in Sector : disk'[s].inode \in GoodInode,
           ptr' \in Nat, saved' \in Nat,
           mem' \in [Path -> GoodInode],
           \A q \in Path \ op[t].held : mem'[q] = mem[q],
           \A q \in Path : /\ mem[q].isvalid => mem'[q].isvalid
                           /\ mem'[q].type = mem[q].type
                           /\ mem[q].size <= mem'[q].size
    PROVE  IInv'
<1>1. /\ mem \in [Path -> GoodInode]
      /\ fd \in [Task -> Descriptor \cup {NoFd}]
      /\ \A u \in Task : DescriptorFits(fd[u], mem)
  BY AtWork
<1>2. ASSUME NEW u \in Task PROVE DescriptorFits(fd[u], mem')
  BY <1>1, DescriptorKept
<1>3. /\ fd' \in [Task -> Descriptor \cup {NoFd}]
      /\ \A u \in Task \ {t} : fd'[u] = fd[u]
      /\ \A u \in Task : DescriptorFits(fd'[u], mem')
      /\ CallFits(Stage(label, o), o, fd'[t], mem')
  BY <1>1, <1>2
<1> QED
  BY <1>3, StepIInv

\* A step that leaves the inodes in memory.
LEMMA SameInodesIInv ==
    ASSUME IInv, NEW t \in Task, pc[t] # "user", NEW label, NEW o, Call(o),
           DOMAIN pc' = Task, DOMAIN op' = Task, pc'[t] = label, op'[t] = o,
           \A u \in Task \ {t} : pc'[u] = pc[u] /\ op'[u] = op[u],
           o.held = op[t].held, CallFits(Stage(label, o), o, fd[t], mem),
           phase' = phase, overrun' = overrun, fd' = fd, mem' = mem,
           DOMAIN disk' = Sector, \A s \in Sector : disk'[s].inode \in GoodInode,
           ptr' \in Nat, saved' \in Nat
    PROVE  IInv'
<1>1. mem \in [Path -> GoodInode]
  BY AtWork
<1>2. ASSUME NEW q \in Path PROVE mem[q].size <= mem'[q].size
  <2>1. mem[q].size \in Nat
    BY <1>1, GoodInodeFields
  <2> QED
    BY <2>1
<1>3. /\ mem' \in [Path -> GoodInode]
      /\ \A q \in Path \ op[t].held : mem'[q] = mem[q]
      /\ \A q \in Path : /\ mem[q].isvalid => mem'[q].isvalid
                         /\ mem'[q].type = mem[q].type
                         /\ mem[q].size <= mem'[q].size
      /\ CallFits(Stage(label, o), o, fd[t], mem')
  BY <1>1, <1>2
<1> QED
  BY <1>3, GrowIInv

\* The parts of a call that its locks and its stage are about.
Alike(o, x) ==
    /\ o.path = x.path /\ o.held = x.held /\ o.opened = x.opened /\ o.add = x.add
    /\ o.from = x.from /\ o.units = x.units

\* From one stage of a write to the next, the inode grows.
LEMMA NextStage ==
    ASSUME NEW s, NEW r \in WriteStages, NEW o, NEW x, NEW d, NEW m, NEW n,
           CallFits(s, o, d, m), s \in WriteStages, Alike(o, x),
           r = "added" => o.add = TRUE,
           r = "data" => o.from + Len(o.units) <= n[o.path].size,
           m[o.opened].isvalid => n[o.opened].isvalid,
           n[o.path].type = m[o.path].type
    PROVE  CallFits(r, x, d, n)
<1>1. /\ o.path = x.path /\ o.held = x.held /\ o.opened = x.opened /\ o.add = x.add
      /\ o.from = x.from /\ o.units = x.units
  BY DEF Alike
<1>2. r # "truncate" /\ r # "create"
  BY DEF WriteStages
<1>3. x.path \in x.held
  BY <1>1 DEF CallFits
<1>4. x.add = TRUE => /\ x.opened \in x.held /\ n[x.opened].isvalid
                      /\ x.from = 0 /\ Len(x.units) % 4 = 0
  BY <1>1 DEF CallFits
<1>5. x.add = FALSE => d # NoFd /\ d.path = x.path /\ n[x.path].type = "file"
  BY <1>1 DEF CallFits
<1>6. /\ r = "added" => x.add = TRUE
      /\ r = "data" => x.from + Len(x.units) <= n[x.path].size
  BY <1>1
<1> QED
  BY <1>2, <1>3, <1>4, <1>5, <1>6 DEF CallFits

\* The same stage of a like call.
LEMMA SameStage ==
    ASSUME NEW s, NEW o, NEW x, NEW d, NEW m, CallFits(s, o, d, m), Alike(o, x)
    PROVE  CallFits(s, x, d, m)
  BY DEF CallFits, Alike

\* Calls that differ in what the task has on its stack.
LEMMA CallFields ==
    ASSUME NEW o, Call(o), NEW index \in Nat, NEW sectors \in Nat, NEW value \in Nat
    PROVE  /\ LET x == [o EXCEPT !.value = value]
              IN  Call(x) /\ Alike(o, x) /\ x.then = o.then
           /\ \A then : LET x == [o EXCEPT !.value = value, !.then = then]
                        IN  Call(x) /\ Alike(o, x) /\ x.then = then
           /\ \A i : LET x == [o EXCEPT !.i = i]
                     IN  Call(x) /\ Alike(o, x)
           /\ \A table, before : LET x == [o EXCEPT !.table = table, !.before = before]
                                 IN  Call(x) /\ Alike(o, x)
           /\ LET x == [o EXCEPT !.index = index, !.sectors = sectors]
              IN  Call(x) /\ Alike(o, x)
           /\ LET x == [o EXCEPT !.sectors = sectors]
              IN  Call(x) /\ Alike(o, x)
           /\ \A then : LET x == [o EXCEPT !.index = index, !.then = then]
                        IN  Call(x) /\ Alike(o, x) /\ x.then = then
<1> USE DEF Call, Alike, Fields
<1>1. LET x == [o EXCEPT !.value = value]
      IN  Call(x) /\ Alike(o, x) /\ x.then = o.then
  OBVIOUS
<1>2. ASSUME NEW then
      PROVE  LET x == [o EXCEPT !.value = value, !.then = then]
             IN  Call(x) /\ Alike(o, x) /\ x.then = then
  OBVIOUS
<1>3. ASSUME NEW i
      PROVE  LET x == [o EXCEPT !.i = i]
             IN  Call(x) /\ Alike(o, x)
  OBVIOUS
<1>4. ASSUME NEW table, NEW before
      PROVE  LET x == [o EXCEPT !.table = table, !.before = before]
             IN  Call(x) /\ Alike(o, x)
  OBVIOUS
<1>5. LET x == [o EXCEPT !.index = index, !.sectors = sectors]
      IN  Call(x) /\ Alike(o, x)
  OBVIOUS
<1>6. LET x == [o EXCEPT !.sectors = sectors]
      IN  Call(x) /\ Alike(o, x)
  OBVIOUS
<1>7. ASSUME NEW then
      PROVE  LET x == [o EXCEPT !.index = index, !.then = then]
             IN  Call(x) /\ Alike(o, x) /\ x.then = then
  OBVIOUS
<1> HIDE DEF Call, Alike, Fields
<1> QED
  BY <1>1, <1>2, <1>3, <1>4, <1>5, <1>6, <1>7

\* A step that leaves the inodes in memory and changes what the task has on its
\* stack.
LEMMA GoesOn ==
    ASSUME IInv, NEW t \in Task, pc[t] # "user", NEW label, NEW o,
           Call(o), Alike(op[t], o),
           pc' = [pc EXCEPT ![t] = label], op' = [op EXCEPT ![t] = o],
           CallFits(Stage(label, o), o, fd[t], mem),
           phase' = phase, overrun' = overrun, fd' = fd, mem' = mem,
           DOMAIN disk' = Sector, \A s \in Sector : disk'[s].inode \in GoodInode,
           ptr' \in Nat, saved' \in Nat
    PROVE  IInv'
<1>1. DOMAIN pc = Task /\ DOMAIN op = Task
  BY AtWork
<1>2. /\ DOMAIN pc' = Task /\ DOMAIN op' = Task /\ pc'[t] = label /\ op'[t] = o
      /\ \A u \in Task \ {t} : pc'[u] = pc[u] /\ op'[u] = op[u]
  BY <1>1
<1>3. o.held = op[t].held
  BY DEF Alike
<1> QED
  BY <1>2, <1>3, SameInodesIInv

LEMMA LockBallocIInv ==
    ASSUME IInv, NEW t \in Task, LockBalloc(t)
    PROVE  IInv'
<1> DEFINE c == op[t]
           o == [c EXCEPT !.value = ptr]
<1>1. /\ pc[t] = "balloc"
      /\ pc' = [pc EXCEPT ![t] = "saving"] /\ op' = [op EXCEPT ![t] = o]
      /\ phase' = phase /\ overrun' = overrun /\ fd' = fd /\ mem' = mem
      /\ disk' = disk /\ ptr' = ptr /\ saved' = saved
  BY DEF LockBalloc, Set, Goto, onDisk
<1>2. /\ Call(c) /\ ptr \in Nat /\ saved \in Nat
      /\ DOMAIN disk = Sector /\ \A s \in Sector : disk[s].inode \in GoodInode
      /\ CallFits(Stage("balloc", c), c, fd[t], mem)
  BY <1>1, AtWork
<1> HIDE DEF c
<1>3. Call(o) /\ Alike(c, o) /\ o.then = c.then
  BY <1>2, CallFields
<1> HIDE DEF o
<1>4. CallFits(Stage("saving", o), o, fd[t], mem)
  <2>1. Stage("saving", o) = Stage("balloc", c)
    BY <1>3 DEF Stage
  <2> QED
    BY <1>2, <1>3, <2>1, SameStage
<1>5. /\ DOMAIN disk' = Sector /\ \A s \in Sector : disk'[s].inode \in GoodInode
      /\ ptr' \in Nat /\ saved' \in Nat
  BY <1>1, <1>2
<1>6. pc[t] # "user" /\ Alike(op[t], o)
  BY <1>1, <1>3 DEF c
<1> QED
  BY <1>1, <1>3, <1>4, <1>5, <1>6, GoesOn

\* The stages are not those of waiting for the lock.
LEMMA StagesApart ==
    ASSUME NEW s \in {"truncate", "create"} \cup WriteStages, NEW o
    PROVE  s # "balloc" /\ s # "saving" /\ s # "user" /\ Stage(s, o) = s
  BY DEF WriteStages, Stage

LEMMA BallocUpdateIInv ==
    ASSUME IInv, NEW t \in Task, balloc_update(t)
    PROVE  IInv'
<1> DEFINE c == op[t]
           then == c.then
           o == [c EXCEPT !.value = 0, !.then = "none"]
<1>1. /\ pc[t] = "saving"
      /\ pc' = [pc EXCEPT ![t] = then] /\ op' = [op EXCEPT ![t] = o]
      /\ phase' = phase /\ overrun' = overrun /\ fd' = fd /\ mem' = mem
      /\ disk' = disk /\ ptr' = ptr /\ saved' = c.value
  BY DEF balloc_update, balloc_updated, Set, Goto
<1>2. /\ Call(c) /\ ptr \in Nat
      /\ DOMAIN disk = Sector /\ \A s \in Sector : disk[s].inode \in GoodInode
      /\ CallFits(Stage("saving", c), c, fd[t], mem)
  BY <1>1, AtWork
<1>3. c.value \in Nat
  BY <1>2 DEF Call
<1> HIDE DEF c
<1>4. Call(o) /\ Alike(c, o)
  BY <1>2, CallFields
<1> HIDE DEF o
<1>5. CallFits(then, c, fd[t], mem)
  BY <1>2 DEF Stage
<1> HIDE DEF then
<1>6. then \in {"truncate", "create"} \cup WriteStages
  BY <1>5 DEF CallFits
<1>7. CallFits(Stage(then, o), o, fd[t], mem)
  <2>1. Stage(then, o) = then
    BY <1>6, StagesApart
  <2> QED
    BY <1>4, <1>5, <2>1, SameStage
<1>8. /\ DOMAIN disk' = Sector /\ \A s \in Sector : disk'[s].inode \in GoodInode
      /\ ptr' \in Nat /\ saved' \in Nat
  BY <1>1, <1>2, <1>3
<1>9. pc[t] # "user" /\ Alike(op[t], o)
  BY <1>1, <1>4 DEF c
<1> QED
  BY <1>1, <1>4, <1>7, <1>8, <1>9, GoesOn

\* The sectors that an inode is to have.
LEMMA SectorsNeeded ==
    ASSUME NEW node \in GoodInode, NEW from \in Nat, NEW count \in Nat
    PROVE  node.alloc + SectorOverflow(node, from, count) \in Nat
<1>1. node.alloc \in Nat
  BY GoodInodeFields
<1>2. SectorTo(from, count) \in Int
  <2>1. SECTOR_SIZE \in Nat /\ SECTOR_SIZE > 0
    BY DiskAssumption
  <2>2. (from + count - 1) \div SECTOR_SIZE \in Int
    BY <2>1
  <2> QED
    BY <2>2 DEF SectorTo
<1>3. SectorOverflow(node, from, count) \in Nat
  BY <1>1, <1>2 DEF SectorOverflow
<1> QED
  BY <1>1, <1>3

LEMMA GrowStepIInv ==
    ASSUME IInv, NEW t \in Task, Grow(t)
    PROVE  IInv'
<1> DEFINE c == op[t]
           sectors == Node(t).alloc + SectorOverflow(Node(t), c.from, Len(c.units))
           first == FirstCopy(t)
           b == [c EXCEPT !.sectors = sectors]
           o == [b EXCEPT !.index = ptr, !.then = first]
<1>1. /\ pc[t] = "grow"
      /\ pc' = [pc EXCEPT ![t] = "balloc"] /\ op' = [op EXCEPT ![t] = o]
      /\ phase' = phase /\ overrun' = overrun /\ fd' = fd /\ mem' = mem
      /\ disk' = disk /\ ptr' = ptr + (sectors + 1) /\ saved' = saved
  BY DEF Grow, Balloc, Set, Goto, onDisk
<1>2. /\ Call(c) /\ ptr \in Nat /\ saved \in Nat
      /\ DOMAIN disk = Sector /\ \A s \in Sector : disk[s].inode \in GoodInode
      /\ CallFits(Stage("grow", c), c, fd[t], mem)
      /\ Node(t) \in GoodInode /\ c.from \in Nat /\ Len(c.units) \in Nat
  BY <1>1, AtWork DEF Node
<1>3. sectors \in Nat
  BY <1>2, SectorsNeeded
<1>4. first \in {"move", "copy"}
  BY DEF FirstCopy
<1> HIDE DEF c, sectors, first
<1>5. Call(b) /\ Alike(c, b)
  BY <1>2, <1>3, CallFields
<1> HIDE DEF b
<1>6. Call(o) /\ Alike(b, o) /\ o.then = first
  BY <1>2, <1>5 DEF Call, Alike, Fields
<1> HIDE DEF o
<1>7. Alike(c, o)
  BY <1>5, <1>6 DEF Alike
<1>8. CallFits("grow", c, fd[t], mem)
  BY <1>2, StagesApart DEF WriteStages
<1>9. CallFits(Stage("balloc", o), o, fd[t], mem)
  <2>1. Stage("balloc", o) = first
    BY <1>6 DEF Stage
  <2>2. "grow" \in WriteStages /\ first \in WriteStages /\ first # "added" /\ first # "data"
    BY <1>4 DEF WriteStages
  <2> QED
    BY <1>7, <1>8, <2>1, <2>2, NextStage
<1>10. /\ DOMAIN disk' = Sector /\ \A s \in Sector : disk'[s].inode \in GoodInode
       /\ ptr' \in Nat /\ saved' \in Nat
  BY <1>1, <1>2, <1>3
<1>11. pc[t] # "user" /\ Alike(op[t], o)
  BY <1>1, <1>7 DEF c
<1> QED
  BY <1>1, <1>6, <1>9, <1>10, <1>11, GoesOn

LEMMA CopySectorIInv ==
    ASSUME IInv, NEW t \in Task, CopySector(t)
    PROVE  IInv'
<1> DEFINE c == op[t]
           label == IF CopyMore(t) THEN "copy" ELSE "move"
           i == IF CopyMore(t) THEN c.i + 1 ELSE 0
           o == [c EXCEPT !.i = i]
           units == UnitsAt(Node(t), c.i)
<1>1. pc[t] = "copy" /\ pc[t] # "user"
  BY DEF CopySector
<1>2. /\ Call(c) /\ ptr \in Nat /\ saved \in Nat /\ DiskTyped
      /\ CallFits(Stage("copy", c), c, fd[t], mem)
      /\ DOMAIN pc = Task /\ DOMAIN op = Task
  BY <1>1, AtWork
<1>3. /\ phase' = phase /\ overrun' = overrun /\ fd' = fd /\ mem' = mem
      /\ disk' = [disk EXCEPT ![c.index + 1 + c.i] = OfData(units)]
      /\ ptr' = ptr /\ saved' = saved
  BY DEF CopySector, ghosts
<1>4. /\ op' = [op EXCEPT ![t] = o]
      /\ pc' = IF CopyMore(t) THEN pc ELSE [pc EXCEPT ![t] = "move"]
  BY DEF CopySector, Set, Goto
<1>5. /\ DOMAIN pc' = Task /\ DOMAIN op' = Task /\ pc'[t] = label /\ op'[t] = o
      /\ \A u \in Task \ {t} : pc'[u] = pc[u] /\ op'[u] = op[u]
  BY <1>1, <1>2, <1>4
<1>6. label \in {"copy", "move"}
  OBVIOUS
<1> HIDE DEF c, label, i, units
<1>7. Call(o) /\ Alike(c, o)
  BY <1>2, CallFields
<1> HIDE DEF o
<1>8. o.held = op[t].held
  BY <1>7 DEF Alike, c
<1>9. CallFits(Stage(label, o), o, fd[t], mem)
  <2>1. "copy" \in WriteStages /\ label \in WriteStages /\ label # "added" /\ label # "data"
    BY <1>6 DEF WriteStages
  <2>2. CallFits("copy", c, fd[t], mem) /\ Stage(label, o) = label
    BY <1>2, <2>1, StagesApart
  <2> QED
    BY <1>7, <2>1, <2>2, NextStage
<1>10. /\ DOMAIN disk' = Sector /\ \A s \in Sector : disk'[s].inode \in GoodInode
       /\ ptr' \in Nat /\ saved' \in Nat
  BY <1>2, <1>3, DataGood
<1> QED
  BY <1>1, <1>3, <1>5, <1>7, <1>8, <1>9, <1>10, SameInodesIInv

LEMMA WriteRootIndexIInv ==
    ASSUME IInv, NEW t \in Task, WriteRootIndex(t)
    PROVE  IInv'
<1> DEFINE c == op[t]
           label == AfterGrowth(Node(t), c)
<1>1. /\ pc[t] = "rootindex" /\ pc[t] # "user"
      /\ pc' = [pc EXCEPT ![t] = label] /\ op' = op
      /\ phase' = phase /\ overrun' = overrun /\ fd' = fd /\ mem' = mem
      /\ disk' = disk /\ ptr' = ptr /\ saved' = saved
  BY DEF WriteRootIndex, Goto
<1>2. /\ Call(c) /\ ptr \in Nat /\ saved \in Nat
      /\ DOMAIN disk = Sector /\ \A s \in Sector : disk[s].inode \in GoodInode
      /\ CallFits(Stage("rootindex", c), c, fd[t], mem)
      /\ DOMAIN pc = Task /\ DOMAIN op = Task
      /\ Node(t) \in GoodInode /\ c.from \in Nat /\ Len(c.units) \in Nat
  BY <1>1, AtWork DEF Node
<1>3. /\ label \in {"size", "data"}
      /\ label = "data" => c.from + Len(c.units) <= mem[c.path].size
  <2>1. Node(t).size \in Nat /\ Node(t) = mem[c.path]
    BY <1>2, GoodInodeFields DEF Node
  <2> QED
    BY <1>2, <2>1, StagesOfWrite
<1>4. /\ DOMAIN pc' = Task /\ DOMAIN op' = Task /\ pc'[t] = label /\ op'[t] = c
      /\ \A u \in Task \ {t} : pc'[u] = pc[u] /\ op'[u] = op[u]
      /\ c.held = op[t].held
  BY <1>1, <1>2
<1> HIDE DEF c, label
<1>5. CallFits(Stage(label, c), c, fd[t], mem)
  <2>1. "rootindex" \in WriteStages /\ label \in WriteStages /\ label # "added"
    BY <1>3 DEF WriteStages
  <2>2. CallFits("rootindex", c, fd[t], mem) /\ Stage(label, c) = label
    BY <1>2, <2>1, StagesApart
  <2>3. Alike(c, c)
    BY DEF Alike
  <2> QED
    BY <1>3, <2>1, <2>2, <2>3, NextStage
<1>6. /\ DOMAIN disk' = Sector /\ \A s \in Sector : disk'[s].inode \in GoodInode
      /\ ptr' \in Nat /\ saved' \in Nat
  BY <1>1, <1>2
<1> QED
  BY <1>1, <1>2, <1>4, <1>5, <1>6, SameInodesIInv

LEMMA WriteParentIInv ==
    ASSUME IInv, NEW t \in Task, WriteParent(t)
    PROVE  IInv'
<1> DEFINE c == op[t]
           o == [c EXCEPT !.table = << >>, !.before = << >>]
           label == AfterGrowth(Node(t), c)
           parent == mem[Front(c.path)]
<1>1. /\ pc[t] = "relocated" /\ pc[t] # "user"
      /\ pc' = [pc EXCEPT ![t] = label] /\ op' = [op EXCEPT ![t] = o]
      /\ phase' = phase /\ overrun' = overrun /\ fd' = fd /\ mem' = mem
      /\ disk' = Updated(disk, parent) /\ ptr' = ptr /\ saved' = saved
  BY DEF WriteParent, Goto, Set, ghosts
<1>2. /\ Call(c) /\ ptr \in Nat /\ saved \in Nat /\ DiskTyped
      /\ CallFits(Stage("relocated", c), c, fd[t], mem)
      /\ Node(t) \in GoodInode /\ c.from \in Nat /\ Len(c.units) \in Nat
      /\ mem \in [Path -> GoodInode] /\ c.path \in Path
  BY <1>1, AtWork DEF Node
<1>3. /\ label \in {"size", "data"}
      /\ label = "data" => c.from + Len(c.units) <= mem[c.path].size
  <2>1. Node(t).size \in Nat /\ Node(t) = mem[c.path]
    BY <1>2, GoodInodeFields DEF Node
  <2> QED
    BY <1>2, <2>1, StagesOfWrite
<1>4. parent \in GoodInode
  BY <1>2, PathFacts
<1> HIDE DEF c, label, parent
<1>5. Call(o) /\ Alike(c, o)
  BY <1>2, CallFields
<1> HIDE DEF o
<1>6. CallFits(Stage(label, o), o, fd[t], mem)
  <2>1. "relocated" \in WriteStages /\ label \in WriteStages /\ label # "added"
    BY <1>3 DEF WriteStages
  <2>2. CallFits("relocated", c, fd[t], mem) /\ Stage(label, o) = label
    BY <1>2, <2>1, StagesApart
  <2> QED
    BY <1>3, <1>5, <2>1, <2>2, NextStage
<1>7. /\ DOMAIN disk' = Sector /\ \A s \in Sector : disk'[s].inode \in GoodInode
      /\ ptr' \in Nat /\ saved' \in Nat
  BY <1>1, <1>2, <1>4, UpdatedGood
<1>8. Alike(op[t], o)
  BY <1>5 DEF c
<1> QED
  BY <1>1, <1>5, <1>6, <1>7, <1>8, GoesOn

\* Inodes whose place, number of children or size changes.
LEMMA IndexChanges ==
    ASSUME NEW node \in GoodInode, NEW index \in Nat
    PROVE  LET x == [node EXCEPT !.index = index]
           IN  /\ x \in GoodInode /\ x.isvalid = node.isvalid
               /\ x.type = node.type /\ x.size = node.size
  BY DEF GoodInode, Inode

LEMMA CountChanges ==
    ASSUME NEW node \in GoodInode, NEW count \in Nat
    PROVE  LET x == [node EXCEPT !.child_count = count]
           IN  /\ x \in GoodInode /\ x.isvalid = node.isvalid
               /\ x.type = node.type /\ x.size = node.size
  BY DEF GoodInode, Inode

LEMMA SizeChanges ==
    ASSUME NEW node \in GoodInode, NEW size \in Nat, node.type = "dir" => size % 4 = 0
    PROVE  LET x == [node EXCEPT !.size = size]
           IN  /\ x \in GoodInode /\ x.isvalid = node.isvalid
               /\ x.type = node.type /\ x.size = size
  BY DEF GoodInode, Inode

LEMMA EmptyInode ==
    ASSUME NEW node \in GoodInode
    PROVE  LET x == [node EXCEPT !.alloc = 0, !.size = 0]
           IN  /\ x \in GoodInode /\ x.isvalid = node.isvalid
               /\ x.type = node.type /\ x.size = 0
<1>1. 0 % 4 = 0
  OBVIOUS
<1> QED
  BY <1>1 DEF GoodInode, Inode

\* One inode of memory becomes another that is no smaller.
LEMMA OneGrows ==
    ASSUME mem \in [Path -> GoodInode], NEW p \in Path, NEW node \in GoodInode,
           mem' = [mem EXCEPT ![p] = node],
           mem[p].isvalid => node.isvalid, node.type = mem[p].type,
           mem[p].size <= node.size
    PROVE  /\ mem' \in [Path -> GoodInode] /\ mem'[p] = node
           /\ \A q \in Path \ {p} : mem'[q] = mem[q]
           /\ \A q \in Path : /\ mem[q].isvalid => mem'[q].isvalid
                              /\ mem'[q].type = mem[q].type
                              /\ mem[q].size <= mem'[q].size
<1>1. /\ mem' \in [Path -> GoodInode] /\ mem'[p] = node
      /\ \A q \in Path \ {p} : mem'[q] = mem[q]
  OBVIOUS
<1>2. ASSUME NEW q \in Path
      PROVE  /\ mem[q].isvalid => mem'[q].isvalid
             /\ mem'[q].type = mem[q].type
             /\ mem[q].size <= mem'[q].size
  <2>1. mem[q].size \in Nat
    BY GoodInodeFields
  <2> QED
    BY <1>1, <2>1
<1> QED
  BY <1>1, <1>2

LEMMA MoveInodeIInv ==
    ASSUME IInv, NEW t \in Task, MoveInode(t)
    PROVE  IInv'
<1> DEFINE c == op[t]
           p == c.path
           node == [Node(t) EXCEPT !.index = c.index, !.alloc = c.sectors]
           was == Contents[mem[Front(p)]]
           moved == [c EXCEPT !.index = 0, !.sectors = 0]
           edited == childtable_edit_index(was, Last(p), node.index)
           parent == [moved EXCEPT !.before = was, !.table = edited]
           o == IF p = Root THEN moved ELSE parent
           label == IF p = Root THEN "rootindex"
                    ELSE IF was = << >> THEN "relocated" ELSE "reloc"
<1>1. /\ pc[t] = "move" /\ pc[t] # "user"
      /\ pc' = [pc EXCEPT ![t] = label] /\ op' = [op EXCEPT ![t] = o]
      /\ phase' = phase /\ overrun' = overrun /\ fd' = fd
      /\ mem' = [mem EXCEPT ![p] = node]
      /\ disk' = Updated(disk, node) /\ ptr' = ptr /\ saved' = saved
  BY DEF MoveInode, Goto, Set, ghosts
<1>2. /\ Call(c) /\ ptr \in Nat /\ saved \in Nat /\ DiskTyped
      /\ CallFits(Stage("move", c), c, fd[t], mem)
      /\ mem \in [Path -> GoodInode] /\ p \in Path /\ mem[p] \in GoodInode
      /\ c.index \in Nat /\ c.sectors \in Nat
      /\ DOMAIN pc = Task /\ DOMAIN op = Task
  BY <1>1, AtWork
<1>3. /\ node \in GoodInode /\ node.isvalid = mem[p].isvalid
      /\ node.type = mem[p].type /\ node.size = mem[p].size /\ mem[p].size \in Nat
  <2> DEFINE old == mem[p]
  <2>1. old \in GoodInode /\ node = [old EXCEPT !.index = c.index, !.alloc = c.sectors]
    BY <1>2 DEF Node
  <2>2. old.size \in Nat /\ (old.type = "dir" => old.size % 4 = 0)
        /\ old.child_count \in Nat
    BY <2>1, GoodInodeFields
  <2> DEFINE index == c.index
             sectors == c.sectors
  <2>3. index \in Nat /\ sectors \in Nat /\ node = [old EXCEPT !.index = index, !.alloc = sectors]
    BY <1>2, <2>1
  <2> HIDE DEF old, node, index, sectors
  <2>4. /\ node \in GoodInode /\ node.isvalid = old.isvalid
        /\ node.type = old.type /\ node.size = old.size
    BY <2>1, <2>3 DEF GoodInode, Inode
  <2> QED
    BY <2>2, <2>4 DEF old
<1>4. Call(moved) /\ Alike(c, moved)
  BY <1>2 DEF Call, Alike, Fields
<1> HIDE DEF moved, edited, was
<1>5. Call(parent) /\ Alike(moved, parent)
  BY <1>4 DEF Call, Alike, Fields
<1> HIDE DEF parent
<1>6. Call(o) /\ Alike(c, o)
  BY <1>4, <1>5 DEF Alike
<1>7. label \in {"rootindex", "relocated", "reloc"}
  OBVIOUS
<1> HIDE DEF c, o, label, node
<1>8. /\ mem' \in [Path -> GoodInode] /\ mem'[p] = node
      /\ \A q \in Path \ {p} : mem'[q] = mem[q]
      /\ \A q \in Path : /\ mem[q].isvalid => mem'[q].isvalid
                         /\ mem'[q].type = mem[q].type
                         /\ mem[q].size <= mem'[q].size
  <2>1. mem[p].size <= node.size
    BY <1>3
  <2> HIDE DEF p
  <2> QED
    BY <1>1, <1>2, <1>3, <2>1, OneGrows
<1>9. CallFits("move", c, fd[t], mem) /\ p \in c.held
  <2>1. CallFits("move", c, fd[t], mem)
    BY <1>2, StagesApart DEF WriteStages
  <2> QED
    BY <2>1 DEF CallFits
<1>10. CallFits(Stage(label, o), o, fd[t], mem')
  <2>1. "move" \in WriteStages /\ label \in WriteStages /\ label # "added" /\ label # "data"
    BY <1>7 DEF WriteStages
  <2>2. Stage(label, o) = label
    BY <2>1, StagesApart
  <2>3. mem[c.opened].isvalid => mem'[c.opened].isvalid
    BY <1>2, <1>8 DEF Call
  <2>4. mem'[c.path].type = mem[c.path].type
    BY <1>2, <1>8
  <2> QED
    BY <1>6, <1>9, <2>1, <2>2, <2>3, <2>4, NextStage
<1>11. /\ DOMAIN disk' = Sector /\ \A s \in Sector : disk'[s].inode \in GoodInode
       /\ ptr' \in Nat /\ saved' \in Nat
  BY <1>1, <1>2, <1>3, UpdatedGood
<1>12. /\ DOMAIN pc' = Task /\ DOMAIN op' = Task /\ pc'[t] = label /\ op'[t] = o
       /\ \A u \in Task \ {t} : pc'[u] = pc[u] /\ op'[u] = op[u]
       /\ o.held = op[t].held
  BY <1>1, <1>2, <1>6 DEF Alike, c
<1>13. \A q \in Path \ op[t].held : mem'[q] = mem[q]
  BY <1>8, <1>9 DEF c
<1> QED
  BY <1>1, <1>6, <1>8, <1>10, <1>11, <1>12, <1>13, GrowIInv

LEMMA WriteSizeIInv ==
    ASSUME IInv, NEW t \in Task, WriteSize(t)
    PROVE  IInv'
<1> DEFINE c == op[t]
           p == c.path
           old == mem[p]
           last == c.from + Len(c.units)
           size == old.size + BytesOverflow(old, c.from, Len(c.units))
           node == [old EXCEPT !.size = size]
<1>1. /\ pc[t] = "size" /\ pc[t] # "user"
      /\ pc' = [pc EXCEPT ![t] = "data"] /\ op' = op
      /\ phase' = phase /\ overrun' = overrun /\ fd' = fd
      /\ mem' = [mem EXCEPT ![p] = node]
      /\ disk' = Updated(disk, node) /\ ptr' = ptr /\ saved' = saved
  BY DEF WriteSize, Goto, ghosts, Node
<1>2. /\ Call(c) /\ ptr \in Nat /\ saved \in Nat /\ DiskTyped
      /\ CallFits(Stage("size", c), c, fd[t], mem)
      /\ mem \in [Path -> GoodInode] /\ p \in Path /\ old \in GoodInode
      /\ c.from \in Nat /\ Len(c.units) \in Nat /\ c.add \in BOOLEAN
      /\ DOMAIN pc = Task /\ DOMAIN op = Task
  BY <1>1, AtWork
<1>3. old.size \in Nat /\ (old.type = "dir" => old.size % 4 = 0)
      /\ old.index \in Nat /\ old.alloc \in Nat /\ old.child_count \in Nat
  BY <1>2, GoodInodeFields
<1>4. last \in Nat /\ size \in Nat /\ last <= size /\ old.size <= size
      /\ (size = old.size \/ size = last)
  <2> DEFINE length == old.size
             n == Len(c.units)
             from == c.from
  <2>1. length \in Nat /\ n \in Nat /\ from \in Nat
    BY <1>2, <1>3
  <2>2. size = length + (IF from + n > length THEN from + n - length ELSE 0)
        /\ last = from + n
    BY DEF BytesOverflow
  <2> HIDE DEF length, n, from, size, last
  <2>3. last \in Nat /\ size \in Nat /\ last <= size /\ length <= size
        /\ (size = length \/ size = last)
    BY <2>1, <2>2
  <2> QED
    BY <2>3 DEF length
<1>5. CallFits("size", c, fd[t], mem) /\ p \in c.held
  <2>1. CallFits("size", c, fd[t], mem)
    BY <1>2, StagesApart DEF WriteStages
  <2> QED
    BY <2>1 DEF CallFits
<1>6. old.type = "dir" => size % 4 = 0
  <2> SUFFICES ASSUME old.type = "dir" PROVE last % 4 = 0
    BY <1>3, <1>4
  <2>1. c.add = TRUE
    BY <1>2, <1>5 DEF CallFits, WriteStages
  <2>2. c.from = 0 /\ Len(c.units) % 4 = 0
    BY <1>5, <2>1 DEF CallFits, WriteStages
  <2>3. last = Len(c.units)
    BY <1>2, <2>2
  <2> QED
    BY <2>2, <2>3
<1> HIDE DEF size
<1>7. /\ node \in GoodInode /\ node.isvalid = old.isvalid
      /\ node.type = old.type /\ node.size = size
  <2> HIDE DEF old
  <2> QED
    BY <1>2, <1>4, <1>6, SizeChanges
<1> HIDE DEF node
<1>8. /\ mem' \in [Path -> GoodInode] /\ mem'[p] = node
      /\ \A q \in Path \ {p} : mem'[q] = mem[q]
      /\ \A q \in Path : /\ mem[q].isvalid => mem'[q].isvalid
                         /\ mem'[q].type = mem[q].type
                         /\ mem[q].size <= mem'[q].size
  <2>1. /\ mem[p].size <= node.size /\ (mem[p].isvalid => node.isvalid)
        /\ node.type = mem[p].type
    BY <1>4, <1>7
  <2> HIDE DEF p
  <2> QED
    BY <1>1, <1>2, <1>7, <2>1, OneGrows
<1>9. CallFits(Stage("data", c), c, fd[t], mem')
  <2>1. "size" \in WriteStages /\ "data" \in WriteStages
    BY DEF WriteStages
  <2>2. Stage("data", c) = "data"
    BY DEF Stage
  <2>3. mem[c.opened].isvalid => mem'[c.opened].isvalid
    BY <1>2, <1>8 DEF Call
  <2>4. mem'[c.path].type = mem[c.path].type
    BY <1>2, <1>8
  <2>5. c.from + Len(c.units) <= mem'[c.path].size
    BY <1>4, <1>7, <1>8
  <2>6. Alike(c, c)
    BY DEF Alike
  <2> HIDE DEF c
  <2> QED
    BY <1>5, <2>1, <2>2, <2>3, <2>4, <2>5, <2>6, NextStage
<1>10. /\ DOMAIN disk' = Sector /\ \A s \in Sector : disk'[s].inode \in GoodInode
       /\ ptr' \in Nat /\ saved' \in Nat
  BY <1>1, <1>2, <1>7, UpdatedGood
<1>11. /\ DOMAIN pc' = Task /\ DOMAIN op' = Task /\ pc'[t] = "data" /\ op'[t] = c
       /\ \A u \in Task \ {t} : pc'[u] = pc[u] /\ op'[u] = op[u]
       /\ c.held = op[t].held
  BY <1>1, <1>2
<1>12. \A q \in Path \ op[t].held : mem'[q] = mem[q]
  BY <1>5, <1>8
<1> HIDE DEF c
<1> QED
  BY <1>1, <1>2, <1>8, <1>9, <1>10, <1>11, <1>12, GrowIInv

\* The table of a directory with an entry for one more child.
LEMMA EntryAdded ==
    ASSUME NEW node \in GoodInode, node.type = "dir", NEW name, NEW index
    PROVE  LET units == childtable_add(Contents[node], name, index)
           IN  Len(units) \in Nat /\ Len(units) % 4 = 0
<1>1. node \in Inode /\ node.size \in Nat /\ node.size % 4 = 0
  BY GoodInodeFields DEF GoodInode
<1> DEFINE f == [k \in 1 .. node.alloc * SECTOR_SIZE |->
                    UnitsAt(node, (k - 1) \div SECTOR_SIZE)[((k - 1) % SECTOR_SIZE) + 1]]
           size == node.size
           a == << name, NUL >>
           b == IndexUnits(index)
           units == (SubSeq(f, 1, size) \o a) \o b
<1>2. Contents[node] = SubSeq(f, 1, size)
  BY <1>1 DEF Contents
<1>3. childtable_add(Contents[node], name, index) = units
  BY <1>2 DEF childtable_add
<1>4. size \in Nat /\ size % 4 = 0
  BY <1>1
<1> HIDE DEF f, size
<1>5. Len(units) = size + 4
  BY <1>4 DEF IndexUnits
<1>6. (size + 4) % 4 = 0 /\ size + 4 \in Nat
  BY <1>4
<1> HIDE DEF units
<1> QED
  BY <1>3, <1>5, <1>6

LEMMA CreateInodeIInv ==
    ASSUME IInv, NEW t \in Task, CreateInode(t)
    PROVE  IInv'
<1> DEFINE c == op[t]
           p == c.path
           f == Front(p)
           above == mem[f]
           child == [mem[p] EXCEPT !.index = c.index]
           dir == [above EXCEPT !.child_count = above.child_count + 1]
           units == childtable_add(Contents[dir], Last(p), child.index)
           o == [c EXCEPT !.path = f, !.add = TRUE, !.index = 0, !.units = units]
           label == InodeWrite(dir, o)
<1>1. /\ pc[t] = "create" /\ pc[t] # "user"
      /\ pc' = [pc EXCEPT ![t] = label] /\ op' = [op EXCEPT ![t] = o]
      /\ phase' = phase /\ overrun' = overrun /\ fd' = fd
      /\ mem' = [mem EXCEPT ![p] = child, ![f] = dir]
      /\ disk' = Updated(disk, child) /\ ptr' = ptr /\ saved' = saved
  BY DEF CreateInode, Goto, Set
<1>2. /\ Call(c) /\ ptr \in Nat /\ saved \in Nat /\ DiskTyped
      /\ CallFits(Stage("create", c), c, fd[t], mem)
      /\ mem \in [Path -> GoodInode] /\ p \in Path /\ mem[p] \in GoodInode
      /\ c.index \in Nat /\ c.opened \in Path
      /\ DOMAIN pc = Task /\ DOMAIN op = Task
  BY <1>1, AtWork
<1>3. /\ p \in c.held /\ c.opened = p /\ mem[p].isvalid /\ c.from = 0
      /\ f \in c.held /\ above.type = "dir" /\ f \in Path /\ above \in GoodInode
  <2>1. Stage("create", c) = "create"
    BY DEF Stage
  <2> QED
    BY <1>2, <2>1, PathFacts DEF CallFits
<1>4. /\ child \in GoodInode /\ child.isvalid = mem[p].isvalid
      /\ child.type = mem[p].type /\ child.size = mem[p].size
  <2> DEFINE old == mem[p]
             index == c.index
  <2>1. old \in GoodInode /\ index \in Nat /\ child = [old EXCEPT !.index = index]
    BY <1>2
  <2> HIDE DEF old, index, child
  <2>2. /\ child \in GoodInode /\ child.isvalid = old.isvalid
        /\ child.type = old.type /\ child.size = old.size
    BY <2>1, IndexChanges
  <2> QED
    BY <2>2 DEF old
<1>5. /\ dir \in GoodInode /\ dir.isvalid = above.isvalid
      /\ dir.type = above.type /\ dir.size = above.size
  <2> DEFINE count == above.child_count + 1
  <2>1. dir = [above EXCEPT !.child_count = count]
    OBVIOUS
  <2>2. above \in GoodInode
    BY <1>3
  <2> HIDE DEF above, dir
  <2>3. count \in Nat
    <3>1. above.child_count \in Nat
      BY <2>2, GoodInodeFields
    <3> QED
      BY <3>1
  <2> HIDE DEF count
  <2>4. LET x == [above EXCEPT !.child_count = count]
        IN  /\ x \in GoodInode /\ x.isvalid = above.isvalid
            /\ x.type = above.type /\ x.size = above.size
    BY <2>2, <2>3, CountChanges
  <2> QED
    BY <2>1, <2>4
<1> HIDE DEF child, dir
<1>6. Len(units) \in Nat /\ Len(units) % 4 = 0
  BY <1>3, <1>5, EntryAdded
<1> HIDE DEF units, c
<1>7. /\ Call(o) /\ o.path = f /\ o.add = TRUE /\ o.units = units
      /\ o.opened = c.opened /\ o.held = c.held /\ o.from = c.from
  BY <1>2, <1>3, <1>6 DEF Call, Fields
<1> HIDE DEF o
<1>8. dir.size \in Nat
  BY <1>5, GoodInodeFields
<1>9. /\ label \in {"grow", "size", "data"}
      /\ label = "data" => o.from + Len(o.units) <= dir.size
  BY <1>3, <1>6, <1>7, <1>8, StagesOfWrite
<1> HIDE DEF label, p, f
<1>10. /\ mem' \in [Path -> GoodInode] /\ mem'[f] = dir
       /\ \A q \in Path \ {p, f} : mem'[q] = mem[q]
       /\ mem'[p] = IF p = f THEN dir ELSE child
  BY <1>1, <1>2, <1>3, <1>4, <1>5
<1>11. ASSUME NEW q \in Path
       PROVE  /\ mem[q].isvalid => mem'[q].isvalid
              /\ mem'[q].type = mem[q].type
              /\ mem[q].size <= mem'[q].size
  <2>1. mem[q].size \in Nat
    BY <1>2, GoodInodeFields
  <2>2. CASE q = f
    BY <1>5, <1>10, <2>1, <2>2 DEF above
  <2>3. CASE q = p /\ q # f
    BY <1>4, <1>10, <2>1, <2>3
  <2>4. CASE q # p /\ q # f
    BY <1>10, <2>1, <2>4
  <2> QED
    BY <2>2, <2>3, <2>4
<1>12. CallFits(Stage(label, o), o, fd[t], mem')
  <2>1. label \in WriteStages /\ label # "added"
        /\ label # "truncate" /\ label # "create" /\ Stage(label, o) = label
    BY <1>9, StagesApart DEF WriteStages
  <2>2. o.path \in o.held /\ o.opened \in o.held /\ mem'[o.opened].isvalid
        /\ o.from = 0 /\ Len(o.units) % 4 = 0
    BY <1>2, <1>3, <1>6, <1>7, <1>11
  <2>3. label = "data" => o.from + Len(o.units) <= mem'[o.path].size
    BY <1>7, <1>9, <1>10
  <2> QED
    BY <1>7, <2>1, <2>2, <2>3 DEF CallFits
<1>13. /\ DOMAIN disk' = Sector /\ \A s \in Sector : disk'[s].inode \in GoodInode
       /\ ptr' \in Nat /\ saved' \in Nat
  BY <1>1, <1>2, <1>4, UpdatedGood
<1>14. /\ DOMAIN pc' = Task /\ DOMAIN op' = Task /\ pc'[t] = label /\ op'[t] = o
       /\ \A u \in Task \ {t} : pc'[u] = pc[u] /\ op'[u] = op[u]
       /\ o.held = op[t].held
  BY <1>1, <1>2, <1>7 DEF c
<1>15. \A q \in Path \ op[t].held : mem'[q] = mem[q]
  BY <1>3, <1>10 DEF c
<1> QED
  BY <1>1, <1>7, <1>10, <1>11, <1>12, <1>13, <1>14, <1>15, GrowIInv

LEMMA EndCreateIInv ==
    ASSUME IInv, NEW t \in Task, EndCreate(t)
    PROVE  IInv'
<1> DEFINE c == op[t]
           p == c.opened
           node == Node(t)
           new == IF mem[p].type = "file" THEN FdAt(p) ELSE fd[t]
<1>1. /\ pc[t] = "added" /\ pc[t] # "user"
      /\ pc' = [pc EXCEPT ![t] = "user"] /\ op' = [op EXCEPT ![t] = NoOp]
      /\ phase' = phase /\ overrun' = overrun /\ mem' = mem
      /\ disk' = Updated(disk, node) /\ ptr' = ptr /\ saved' = saved
      /\ fd' = IF mem[p].type = "file" THEN [fd EXCEPT ![t] = FdAt(p)] ELSE fd
  BY DEF EndCreate, Return, Goto, Set
<1>2. /\ Call(c) /\ ptr \in Nat /\ saved \in Nat /\ DiskTyped
      /\ CallFits(Stage("added", c), c, fd[t], mem)
      /\ mem \in [Path -> GoodInode] /\ p \in Path /\ node \in GoodInode
      /\ fd \in [Task -> Descriptor \cup {NoFd}]
      /\ \A u \in Task : DescriptorFits(fd[u], mem)
      /\ DOMAIN pc = Task /\ DOMAIN op = Task
  BY <1>1, AtWork DEF Node
<1>3. mem[p].isvalid /\ mem[p] \in GoodInode
  <2>1. CallFits("added", c, fd[t], mem) /\ "added" \in WriteStages
    BY <1>2, StagesApart DEF WriteStages
  <2> QED
    BY <1>2, <2>1 DEF CallFits
<1>4. FdAt(p) \in Descriptor /\ DescriptorFits(FdAt(p), mem)
  BY <1>2, <1>3, FdAtFacts
<1>5. new \in Descriptor \cup {NoFd} /\ DescriptorFits(new, mem)
  BY <1>2, <1>4
<1>6. fd' = [fd EXCEPT ![t] = new]
  BY <1>1, <1>2
<1> HIDE DEF new, c, node
<1>7. /\ fd' \in [Task -> Descriptor \cup {NoFd}]
      /\ \A u \in Task \ {t} : fd'[u] = fd[u]
      /\ \A u \in Task : DescriptorFits(fd'[u], mem')
  BY <1>1, <1>2, <1>5, <1>6
<1>8. /\ DOMAIN disk' = Sector /\ \A s \in Sector : disk'[s].inode \in GoodInode
      /\ ptr' \in Nat /\ saved' \in Nat
  BY <1>1, <1>2, UpdatedGood
<1>9. /\ DOMAIN pc' = Task /\ DOMAIN op' = Task /\ pc'[t] = "user" /\ op'[t] = NoOp
      /\ \A u \in Task \ {t} : pc'[u] = pc[u] /\ op'[u] = op[u]
      /\ Call(NoOp)
  BY <1>1, <1>2, NoOpFacts
<1>10. /\ mem' \in [Path -> GoodInode] /\ \A q \in Path : mem'[q] = mem[q]
  BY <1>1, <1>2
<1> QED
  BY <1>1, <1>7, <1>8, <1>9, <1>10, StepIInv

\* A truncated file cuts the descriptors of others that have it open.
LEMMA TruncateIInv ==
    ASSUME IInv, NEW t \in Task, inode_truncate(t)
    PROVE  IInv'
<1> DEFINE c == op[t]
           p == c.path
           old == mem[p]
           node == [old EXCEPT !.alloc = 0, !.size = 0]
           open == IF node.type = "file" THEN [fd EXCEPT ![t] = FdAt(p)] ELSE fd
<1>1. /\ pc[t] = "truncate" /\ pc[t] # "user"
      /\ pc' = [pc EXCEPT ![t] = "user"] /\ op' = [op EXCEPT ![t] = NoOp]
      /\ phase' = phase /\ overrun' = overrun
      /\ mem' = [mem EXCEPT ![p] = node]
      /\ disk' = Updated(disk, node) /\ ptr' = ptr /\ saved' = saved
      /\ fd' = [u \in Task |-> IF u # t /\ fd[u].path = p
                               THEN [fd[u] EXCEPT !.cut = TRUE] ELSE open[u]]
  BY DEF inode_truncate, Return, Goto, Set
<1>2. /\ Call(c) /\ ptr \in Nat /\ saved \in Nat /\ DiskTyped
      /\ CallFits(Stage("truncate", c), c, fd[t], mem)
      /\ mem \in [Path -> GoodInode] /\ p \in Path /\ old \in GoodInode
      /\ fd \in [Task -> Descriptor \cup {NoFd}]
      /\ \A u \in Task : DescriptorFits(fd[u], mem)
      /\ DOMAIN pc = Task /\ DOMAIN op = Task
  BY <1>1, AtWork
<1>3. p \in c.held /\ fd[t] = NoFd /\ old.isvalid
  <2>1. CallFits("truncate", c, fd[t], mem)
    BY <1>2, StagesApart
  <2> QED
    BY <2>1 DEF CallFits
<1>4. /\ node \in GoodInode /\ node.isvalid = old.isvalid
      /\ node.type = old.type /\ node.size = 0
  <2> HIDE DEF old
  <2> QED
    BY <1>2, EmptyInode
<1> HIDE DEF node
<1>5. /\ mem' \in [Path -> GoodInode] /\ mem'[p] = node
      /\ \A q \in Path \ {p} : mem'[q] = mem[q]
      /\ \A q \in Path : mem[q].isvalid => mem'[q].isvalid
  BY <1>1, <1>2, <1>3, <1>4
<1>6. FdAt(p) \in Descriptor /\ DescriptorFits(FdAt(p), mem')
  <2>1. mem'[p] \in GoodInode /\ mem'[p].isvalid
    BY <1>3, <1>4, <1>5
  <2> QED
    BY <1>2, <2>1, FdAtFacts
<1> HIDE DEF c, p
<1>7. ASSUME NEW u \in Task
      PROVE  /\ fd'[u] \in Descriptor \cup {NoFd} /\ DescriptorFits(fd'[u], mem')
             /\ u = t \/ fd'[u] = fd[u] \/ (fd[u] # NoFd /\ fd[u].path = p)
  <2>1. CASE u # t /\ fd[u].path = p
    <3> DEFINE d == fd[u]
               e == [d EXCEPT !.cut = TRUE]
    <3>1. d \in Descriptor /\ d # NoFd
      BY <1>2, <2>1, PathFacts DEF NoFd
    <3>2. fd'[u] = e
      BY <1>1, <2>1
    <3>3. d.path = p
      BY <2>1
    <3> HIDE DEF d
    <3>4. e \in Descriptor /\ e.path = p
      BY <3>1, <3>3 DEF Descriptor
    <3>5. e.cut = TRUE
      BY <3>1 DEF Descriptor
    <3> HIDE DEF e
    <3>6. DescriptorFits(e, mem')
      BY <1>3, <1>4, <1>5, <3>4, <3>5 DEF DescriptorFits
    <3> QED
      BY <2>1, <3>1, <3>2, <3>4, <3>6 DEF d
  <2>2. CASE u # t /\ fd[u].path # p
    <3>1. fd'[u] = fd[u] /\ fd[u] \in Descriptor \cup {NoFd}
      BY <1>1, <1>2, <2>2
    <3>2. fd[u] # NoFd => mem'[fd[u].path] = mem[fd[u].path]
      BY <1>2, <1>5, <2>2 DEF Descriptor
    <3> QED
      BY <1>2, <3>1, <3>2 DEF DescriptorFits
  <2>3. CASE u = t
    <3>1. fd'[u] = IF node.type = "file" THEN FdAt(p) ELSE NoFd
      BY <1>1, <1>2, <1>3, <2>3
    <3>2. DescriptorFits(NoFd, mem')
      BY DEF DescriptorFits
    <3> QED
      BY <1>6, <2>3, <3>1, <3>2
  <2> QED
    BY <2>1, <2>2, <2>3
<1> HIDE DEF open
<1>8. /\ fd' \in [Task -> Descriptor \cup {NoFd}]
      /\ \A u \in Task \ {t} : \/ fd'[u] = fd[u]
                               \/ fd[u] # NoFd /\ fd[u].path \in op[t].held
      /\ \A u \in Task : DescriptorFits(fd'[u], mem')
  <2>1. fd' = [u \in Task |-> fd'[u]]
    BY <1>1
  <2> QED
    BY <1>3, <1>7, <2>1 DEF c
<1>9. /\ DOMAIN disk' = Sector /\ \A s \in Sector : disk'[s].inode \in GoodInode
      /\ ptr' \in Nat /\ saved' \in Nat
  BY <1>1, <1>2, <1>4, UpdatedGood
<1>10. /\ DOMAIN pc' = Task /\ DOMAIN op' = Task /\ pc'[t] = "user" /\ op'[t] = NoOp
       /\ \A u \in Task \ {t} : pc'[u] = pc[u] /\ op'[u] = op[u]
       /\ Call(NoOp)
  BY <1>1, <1>2, NoOpFacts
<1>11. \A q \in Path \ op[t].held : mem'[q] = mem[q]
  BY <1>3, <1>5 DEF c
<1> QED
  BY <1>1, <1>5, <1>8, <1>9, <1>10, <1>11, StepIInv

LEMMA WriteSectorIInv ==
    ASSUME IInv, NEW t \in Task, WriteSector(t)
    PROVE  IInv'
<1> DEFINE c == op[t]
           i == SectorFrom(TargetFrom(t)) + c.i
           node == mem[Target(t)]
           more == i + 1 < SectorTo(TargetFrom(t), Len(TargetUnits(t)))
           units == Overlaid(node, i, TargetFrom(t), TargetUnits(t))
<1>1. /\ pc[t] \in {"reloc", "data"} /\ pc[t] # "user"
      /\ disk' = [disk EXCEPT ![DataSector(node, i)] = OfData(units)]
      /\ phase' = phase /\ overrun' = overrun /\ mem' = mem /\ ptr' = ptr /\ saved' = saved
  BY DEF WriteSector
<1>2. /\ Call(c) /\ ptr \in Nat /\ saved \in Nat /\ DiskTyped
      /\ CallFits(Stage(pc[t], c), c, fd[t], mem)
      /\ mem \in [Path -> GoodInode] /\ c.path \in Path
      /\ fd \in [Task -> Descriptor \cup {NoFd}]
      /\ \A u \in Task : DescriptorFits(fd[u], mem)
      /\ DOMAIN pc = Task /\ DOMAIN op = Task
      /\ c.add \in BOOLEAN /\ c.from \in Nat /\ Len(c.units) \in Nat
  BY <1>1, AtWork
<1>3. \/ op' = [op EXCEPT ![t] = [op[t] EXCEPT !.i = @ + 1]] /\ pc' = pc /\ fd' = fd
      \/ /\ Relocating(t) \/ op[t].add
         /\ op' = [op EXCEPT ![t] = [op[t] EXCEPT !.i = 0]]
         /\ pc' = [pc EXCEPT ![t] = IF Relocating(t) THEN "relocated" ELSE "added"]
         /\ fd' = fd
      \/ ~ Relocating(t) /\ ~ op[t].add /\ Written(t)
  BY DEF WriteSector, Set, Goto
<1>4. /\ DOMAIN disk' = Sector /\ \A s \in Sector : disk'[s].inode \in GoodInode
      /\ ptr' \in Nat /\ saved' \in Nat
  <2> HIDE DEF units, i, node
  <2> QED
    BY <1>1, <1>2, DataGood
<1> HIDE DEF i, node, more, units
<1>5. CallFits(pc[t], c, fd[t], mem) /\ pc[t] \in WriteStages
  <2>1. pc[t] \in WriteStages
    BY <1>1 DEF WriteStages
  <2> QED
    BY <1>2, <2>1, StagesApart
<1>6. CASE op' = [op EXCEPT ![t] = [op[t] EXCEPT !.i = @ + 1]] /\ pc' = pc /\ fd' = fd
  <2> DEFINE o == [c EXCEPT !.i = c.i + 1]
             label == pc[t]
  <2>1. op' = [op EXCEPT ![t] = o]
    BY <1>6
  <2>2. Call(o) /\ Alike(c, o)
    BY <1>2 DEF Call, Alike, Fields
  <2> HIDE DEF o
  <2>3. CallFits(Stage(label, o), o, fd[t], mem)
    BY <1>5, <2>2, SameStage, StagesApart
  <2>4. /\ DOMAIN pc' = Task /\ DOMAIN op' = Task /\ pc'[t] = label /\ op'[t] = o
        /\ \A u \in Task \ {t} : pc'[u] = pc[u] /\ op'[u] = op[u]
        /\ o.held = op[t].held
    BY <1>2, <1>6, <2>1, <2>2 DEF Alike
  <2> HIDE DEF label
  <2> QED
    BY <1>1, <1>4, <1>6, <2>2, <2>3, <2>4, SameInodesIInv
<1>7. CASE /\ Relocating(t) \/ op[t].add
           /\ op' = [op EXCEPT ![t] = [op[t] EXCEPT !.i = 0]]
           /\ pc' = [pc EXCEPT ![t] = IF Relocating(t) THEN "relocated" ELSE "added"]
           /\ fd' = fd
  <2> DEFINE o == [c EXCEPT !.i = 0]
             label == IF Relocating(t) THEN "relocated" ELSE "added"
  <2>1. op' = [op EXCEPT ![t] = o] /\ pc' = [pc EXCEPT ![t] = label]
    BY <1>7
  <2>2. Call(o) /\ Alike(c, o)
    BY <1>2 DEF Call, Alike, Fields
  <2>3. label \in {"relocated", "added"} /\ (label = "added" => c.add = TRUE)
    BY <1>2, <1>7
  <2> HIDE DEF o, label
  <2>4. CallFits(Stage(label, o), o, fd[t], mem)
    <3>1. label \in WriteStages /\ label # "data"
      BY <2>3 DEF WriteStages
    <3>2. Stage(label, o) = label
      BY <3>1, StagesApart
    <3> DEFINE s == pc[t]
               d == fd[t]
    <3>3. CallFits(s, c, d, mem) /\ s \in WriteStages
      BY <1>5
    <3> HIDE DEF s, d, c
    <3>4. CallFits(label, o, d, mem)
      BY <2>2, <2>3, <3>1, <3>3, NextStage
    <3> QED
      BY <3>2, <3>4 DEF d
  <2>5. Alike(op[t], o)
    BY <2>2
  <2> QED
    BY <1>1, <1>4, <1>7, <2>1, <2>2, <2>4, <2>5, GoesOn
<1>8. CASE ~ Relocating(t) /\ ~ op[t].add /\ Written(t)
  <2> DEFINE d == fd[t]
             pos == c.from + Len(c.units)
             raw == d.raw
             e == [d EXCEPT !.pos = pos, !.raw = raw]
  <2>1. /\ pc' = [pc EXCEPT ![t] = "user"] /\ op' = [op EXCEPT ![t] = NoOp]
        /\ fd' = [fd EXCEPT ![t].pos = pos]
    BY <1>8 DEF Written, Return, Goto, Set
  <2>2. pc[t] = "data" /\ c.add = FALSE
    BY <1>1, <1>2, <1>8 DEF Relocating
  <2>3. d # NoFd /\ d.path = c.path /\ mem[c.path].type = "file" /\ pos <= mem[c.path].size
    <3>1. CallFits("data", c, d, mem) /\ "data" \in WriteStages
      BY <1>5, <2>2
    <3> QED
      BY <2>2, <3>1 DEF CallFits
  <2>4. d \in Descriptor /\ DescriptorFits(d, mem) /\ pos \in Nat
    BY <1>2, <2>3
  <2>5. fd' = [fd EXCEPT ![t] = e]
    <3>1. e = [d EXCEPT !.pos = pos]
      BY <2>4 DEF Descriptor
    <3> QED
      BY <1>2, <2>1, <3>1
  <2>6. e \in Descriptor /\ DescriptorFits(e, mem)
    <3>1. mem[d.path].isvalid
      BY <2>3, <2>4 DEF DescriptorFits
    <3>2. raw \in BOOLEAN /\ pos <= mem[d.path].size
      BY <2>3, <2>4 DEF Descriptor
    <3> HIDE DEF d, pos, raw
    <3> QED
      BY <2>4, <3>1, <3>2, MovedFits
  <2> HIDE DEF e
  <2>7. /\ fd' \in [Task -> Descriptor \cup {NoFd}]
        /\ \A u \in Task \ {t} : fd'[u] = fd[u]
        /\ \A u \in Task : DescriptorFits(fd'[u], mem')
    BY <1>1, <1>2, <2>5, <2>6
  <2>8. /\ DOMAIN pc' = Task /\ DOMAIN op' = Task /\ pc'[t] = "user" /\ op'[t] = NoOp
        /\ \A u \in Task \ {t} : pc'[u] = pc[u] /\ op'[u] = op[u]
        /\ Call(NoOp)
    BY <1>2, <2>1, NoOpFacts
  <2>9. mem' \in [Path -> GoodInode] /\ \A q \in Path : mem'[q] = mem[q]
    BY <1>1, <1>2
  <2> QED
    BY <1>1, <1>4, <2>7, <2>8, <2>9, StepIInv
<1> QED
  BY <1>3, <1>6, <1>7, <1>8

---------------------------------------------------------------------------

LEMMA CallIInv ==
    ASSUME IInv, NEW t \in Task, Open(t) \/ Step(t) \/ Use(t)
    PROVE  IInv'
<1>1. CASE Open(t)
  <2>1. PICK c \in Opens : LET p == PathOf(pathbuf_of(c.cwd), c.text)
                           IN  /\ p \in Path
                               /\ \/ OpenPlain(t, p, c.how)
                                  \/ OpenCreate(t, p, c.how)
                                  \/ OpenTruncate(t, p, c.how)
    BY <1>1 DEF Open
  <2> QED
    BY <2>1, OpenPlainIInv, OpenCreateIInv, OpenTruncateIInv
<1>2. CASE Step(t)
  BY <1>2, LockBallocIInv, BallocUpdateIInv, TruncateIInv, CreateInodeIInv, GrowStepIInv,
     CopySectorIInv, MoveInodeIInv, WriteRootIndexIInv, WriteParentIInv, WriteSizeIInv,
     WriteSectorIInv, EndCreateIInv DEF Step
<1>3. CASE Use(t)
  BY <1>3, ReadDirIInv, CloseIInv, BeginWriteIInv, BeginReadIInv DEF Use
<1> QED
  BY <1>1, <1>2, <1>3

LEMMA NextIInv ==
    ASSUME IInv, [Next]_vars PROVE IInv'
<1>1. CASE Steps
  <2>1. CASE binit \/ FetchRoot \/ FindRoot \/ WriteRoot
    BY <2>1, BootIInv
  <2>2. CASE Crash
    BY <2>2, CrashIInv
  <2>3. CASE \E p \in Path : Evict(p)
    BY <2>3, EvictIInv
  <2>4. CASE \E t \in Task : Open(t) \/ Step(t) \/ Use(t)
    BY <2>4, CallIInv
  <2> QED
    BY <1>1, <2>1, <2>2, <2>3, <2>4 DEF Steps
<1>2. CASE UNCHANGED vars
  <2>1. /\ mem' = mem /\ disk' = disk /\ ptr' = ptr /\ saved' = saved /\ fd' = fd
        /\ pc' = pc /\ op' = op /\ overrun' = overrun /\ phase' = phase
    BY <1>2 DEF vars, onDisk, inCore
  <2>2. DiskTyped' /\ Booted' /\ LocksApart'
    BY <2>1 DEF IInv, DiskTyped, Booted, LocksApart, Held
  <2>3. CallsFit' /\ DescriptorsFit'
    BY <2>1 DEF IInv, CallsFit, DescriptorsFit
  <2>4. OverrunSound'
    BY <2>1 DEF IInv, OverrunSound, Overran, Free, Held
  <2> QED
    BY <2>2, <2>3, <2>4 DEF IInv
<1> QED
  BY <1>1, <1>2 DEF Next

\* Whatever is opened, written, truncated and cut off, an inode is in memory or
\* on the disk with whole entries if it is a directory, a call has locked the
\* inodes it changes, and a position is within its file unless the file was
\* truncated under it: the inductive invariant of fs.c's reads.  Of positions in
\* directories it says nothing, as read() leaves them anywhere.
THEOREM Invariance == Spec => []IInv
<1>1. Init => IInv
  BY InitIInv
<1>2. IInv /\ [Next]_vars => IInv'
  BY NextIInv
<1> QED
  BY <1>1, <1>2, PTL DEF Spec

\* However many tasks open, write, truncate, read and list, and wherever the
\* power is cut, inode_read goes past the end of the data only from a position
\* behind it; of a file it gives more than fs_read's buffer takes only through a
\* descriptor whose inode another fs_open truncated after it was opened.
THEOREM FileOverrunsNeedACut == Spec => []FileOverrunOnlyWhenCut
<1>1. IInv => FileOverrunOnlyWhenCut
  BY DEF IInv, OverrunSound, Overran, FileOverrunOnlyWhenCut
<1> QED
  BY <1>1, Invariance, PTL
=============================================================================
