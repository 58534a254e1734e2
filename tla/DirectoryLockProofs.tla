------------------------- MODULE DirectoryLockProofs -------------------------
(***************************************************************************)
(* What locking and unlocking a directory does to the files below it: for  *)
(* any tree, any number of walks at once and any changes by others between *)
(* their steps.                                                            *)
(*                                                                         *)
(* What a walk reaches depends on how its paths resolve, a recursion over  *)
(* the path: the lemmas about it are proved by the inductions of Induction,*)
(* with a set of paths in the place of a predicate.  Operators whose names *)
(* end in In take the tree as a parameter, to compare the trees before and *)
(* after a step.                                                           *)
(***************************************************************************)
EXTENDS DirectoryLock, Induction, TLAPS

USE DEF At, Goto

-----------------------------------------------------------------------------
(* Paths *)

Paths == Seq(Bases)

Starts(q, p) == Len(q) <= Len(p) /\ \A i \in 1..Len(q) : q[i] = p[i]
Upto(p, i) == SubSeq(p, 1, i)

\* A path and one name more.
LEMMA AppendPath ==
    ASSUME NEW p \in Paths, NEW b \in Bases
    PROVE  /\ Append(p, b) \in Paths
           /\ Len(p) \in Nat /\ Len(Append(p, b)) = Len(p) + 1
           /\ Append(p, b)[Len(p) + 1] = b
           /\ \A i \in 1..Len(p) : Append(p, b)[i] = p[i]
  BY AppendProperties, LenProperties DEF Paths

\* Paths that are equal entry by entry are equal.
LEMMA PathEqual ==
    ASSUME NEW p \in Paths, NEW q \in Paths, Starts(p, q), Len(q) <= Len(p)
    PROVE  p = q
  BY SeqEqual, LenProperties DEF Paths, Starts

\* How a path starts, and how it starts with one name more.
LEMMA StartsFacts ==
    ASSUME NEW p \in Paths, NEW q \in Paths, NEW b \in Bases
    PROVE  /\ Starts(p, p)
           /\ Starts(p, Append(p, b)) /\ ~Starts(Append(p, b), p)
           /\ Starts(q, Append(p, b)) => Starts(q, p) \/ q = Append(p, b)
           /\ Starts(q, p) => Starts(q, Append(p, b))
           /\ Starts(Append(q, b), p) => Starts(q, p) /\ Len(q) < Len(p) /\ p[Len(q) + 1] = b
<1> DEFINE pb == Append(p, b)
           qb == Append(q, b)
<1>1. /\ Len(p) \in Nat /\ Len(q) \in Nat /\ pb \in Paths /\ qb \in Paths
      /\ Len(pb) = Len(p) + 1 /\ Len(qb) = Len(q) + 1
      /\ pb[Len(p) + 1] = b /\ qb[Len(q) + 1] = b
      /\ \A i \in 1..Len(p) : pb[i] = p[i]
      /\ \A i \in 1..Len(q) : qb[i] = q[i]
  BY AppendPath
<1> HIDE DEF pb, qb
<1>2. Starts(p, p) /\ Starts(p, pb) /\ ~Starts(pb, p)
  BY <1>1 DEF Starts
<1>3. ASSUME Starts(q, pb)
      PROVE  Starts(q, p) \/ q = pb
  <2>1. CASE Len(q) <= Len(p)
    BY <1>1, <1>3, <2>1 DEF Starts
  <2>2. CASE Len(q) > Len(p)
    BY <1>1, <1>3, <2>2, PathEqual DEF Starts
  <2> QED  BY <1>1, <2>1, <2>2
<1>4. Starts(q, p) => Starts(q, pb)
  BY <1>1 DEF Starts
<1>5. Starts(qb, p) => Starts(q, p) /\ Len(q) < Len(p) /\ p[Len(q) + 1] = b
  BY <1>1 DEF Starts
<1> QED  BY <1>2, <1>3, <1>4, <1>5 DEF pb, qb

\* A path starts as its beginning starts.
LEMMA StartsTransitive ==
    ASSUME NEW p \in Paths, NEW q \in Paths, NEW r \in Paths, Starts(p, q), Starts(q, r)
    PROVE  Starts(p, r)
<1>1. Len(p) \in Nat /\ Len(q) \in Nat /\ Len(r) \in Nat
  BY LenProperties DEF Paths
<1> QED  BY <1>1 DEF Starts

\* Between a path and one that starts with it there is a next one.
LEMMA StartsNext ==
    ASSUME NEW p \in Paths, NEW q \in Paths, Starts(q, p), q # p
    PROVE  /\ Len(q) + 1 \in 1..Len(p) /\ p[Len(q) + 1] \in Bases
           /\ Starts(Append(q, p[Len(q) + 1]), p)
<1>1. Len(p) \in Nat /\ Len(q) \in Nat
  BY LenProperties DEF Paths
<1>2. Len(q) < Len(p)
  BY <1>1, PathEqual DEF Starts
<1>3. p[Len(q) + 1] \in Bases
  BY <1>1, <1>2, ElementOfSeq DEF Paths
<1> QED  BY <1>1, <1>2, <1>3, AppendPath DEF Starts

\* The parts of a path.
LEMMA UptoFacts ==
    ASSUME NEW p \in Paths
    PROVE  /\ Len(p) \in Nat
           /\ Upto(p, 0) = <<>>
           /\ Upto(p, Len(p)) = p
           /\ \A i \in 0..Len(p) : Upto(p, i) \in Paths /\ Len(Upto(p, i)) = i /\ Starts(Upto(p, i), p)
           /\ \A i \in 1..Len(p) : p[i] \in Bases /\ Upto(p, i) = Append(Upto(p, i - 1), p[i])
           /\ \A q \in Paths : Starts(q, p) => Upto(p, Len(q)) = q
<1>1. Len(p) \in Nat /\ \A i \in 1..Len(p) : p[i] \in Bases
  BY LenProperties, ElementOfSeq DEF Paths
<1>2. Upto(p, 0) = <<>> /\ Upto(p, Len(p)) = p
  BY SubSeqEmpty, SubSeqFull DEF Paths, Upto
<1>3. \A i \in 0..Len(p) : /\ Upto(p, i) \in Paths /\ Len(Upto(p, i)) = i
                           /\ \A j \in 1..i : Upto(p, i)[j] = p[j]
  <2> SUFFICES ASSUME NEW i \in 0..Len(p)
               PROVE  /\ Upto(p, i) \in Paths /\ Len(Upto(p, i)) = i
                      /\ \A j \in 1..i : Upto(p, i)[j] = p[j]
    OBVIOUS
  <2>1. i \in Int /\ 1 \in Int /\ \A j \in 1..i : p[j] \in Bases
    BY <1>1
  <2> QED  BY <2>1, SubSeqProperties DEF Paths, Upto
<1>4. \A i \in 0..Len(p) : Starts(Upto(p, i), p)
  BY <1>1, <1>3 DEF Starts
<1>5. ASSUME NEW i \in 1..Len(p)
      PROVE  Upto(p, i) = Append(Upto(p, i - 1), p[i])
  <2>1. i \in 0..Len(p) /\ i - 1 \in 0..Len(p)
    BY <1>1
  <2>2. PICK u, v : u = Upto(p, i) /\ v = Append(Upto(p, i - 1), p[i])
    OBVIOUS
  <2>3. v \in Paths /\ Len(v) = i /\ v[i] = p[i] /\ \A j \in 1..(i - 1) : v[j] = p[j]
    BY <1>1, <1>3, <2>1, <2>2, AppendPath
  <2>4. u \in Paths /\ Len(u) = i /\ \A j \in 1..i : u[j] = p[j]
    BY <1>3, <2>1, <2>2
  <2>5. Starts(u, v)
    BY <2>3, <2>4 DEF Starts
  <2>6. Len(v) <= Len(u)
    BY <1>1, <2>3, <2>4
  <2>7. u = v
    BY <2>3, <2>4, <2>5, <2>6, PathEqual
  <2> QED  BY <2>2, <2>7
<1>6. ASSUME NEW q \in Paths, Starts(q, p)
      PROVE  Upto(p, Len(q)) = q
  <2>1. Len(q) \in 0..Len(p)
    BY <1>1, <1>6, LenProperties DEF Paths, Starts
  <2>2. Starts(Upto(p, Len(q)), q)
    BY <1>3, <1>6, <2>1 DEF Starts
  <2> QED  BY <1>3, <2>1, <2>2, PathEqual
<1> QED  BY <1>1, <1>2, <1>3, <1>4, <1>5, <1>6

\* One of them and the next.
LEMMA UptoNext ==
    ASSUME NEW p \in Paths, NEW i \in 1..Len(p)
    PROVE  /\ Upto(p, i - 1) \in Paths /\ p[i] \in Bases
           /\ Upto(p, i) = Append(Upto(p, i - 1), p[i])
<1>1. Len(p) \in Nat /\ i - 1 \in 0..Len(p)
  BY UptoFacts
<1> QED  BY <1>1, UptoFacts

-----------------------------------------------------------------------------
(* Where paths lead *)

EnterIn(tr, at, base) ==
    LET x == <<at.dir, base, <<>> >> IN
    IF ~(x \in DOMAIN tr) \/ (x \in DOMAIN tr /\ tr[x].type = "file") THEN [at EXCEPT !.dir = NoDir]
    ELSE [dir |-> tr[x].at, hops |-> at.hops + IF tr[x].type = "link" THEN 1 ELSE 0]

AtTop == [dir |-> Top, hops |-> 0]

IsWay(way, tr, p) ==
    way = [i \in 0..Len(p) |-> IF i = 0 THEN AtTop ELSE EnterIn(tr, way[i - 1], p[i])]

ResolveIn(tr, p) == (CHOOSE way : IsWay(way, tr, p))[Len(p)]

\* Resolve, with the tree as a parameter.
LEMMA ResolveIs == \A p : Resolve(p) = ResolveIn(tree, p)
  BY DEF Resolve, ResolveIn, IsWay, EnterIn, AtTop, Exists, IsFile

\* The same in the next state.
LEMMA ResolveIsNext == \A p : Resolve(p)' = ResolveIn(tree', p)
  BY DEF Resolve, ResolveIn, IsWay, EnterIn, AtTop, Exists, IsFile

\* A path has a way, and only one.
LEMMA WayExists ==
    ASSUME NEW tr
    PROVE  \A p \in Paths : \E way : IsWay(way, tr, p)
<1> DEFINE T == {p \in Paths : \E way : IsWay(way, tr, p)}
<1>1. <<>> \in T
  <2> DEFINE way == [i \in 0..0 |-> AtTop]
  <2>1. IsWay(way, tr, <<>>)
    BY EmptySeq DEF IsWay
  <2> HIDE DEF way
  <2> QED  BY <2>1, EmptySeq DEF Paths
<1>2. ASSUME NEW p \in Paths, NEW b \in Bases, p \in T
      PROVE  Append(p, b) \in T
  <2> DEFINE q == Append(p, b)
  <2>1. PICK way : IsWay(way, tr, p)
    BY <1>2
  <2> DEFINE longer == [i \in 0..Len(q) |-> IF i = Len(q) THEN EnterIn(tr, way[i - 1], b) ELSE way[i]]
  <2>2. q \in Paths /\ Len(q) = Len(p) + 1 /\ Len(p) \in Nat
        /\ q[Len(q)] = b /\ \A i \in 1..Len(p) : q[i] = p[i]
    BY AppendPath
  <2>3. IsWay(longer, tr, q)
    <3>1. \A i \in 0..Len(p) : way[i] = IF i = 0 THEN AtTop ELSE EnterIn(tr, way[i - 1], p[i])
      BY <2>1 DEF IsWay
    <3>2. \A i \in 0..Len(q) :
            longer[i] = IF i = 0 THEN AtTop ELSE EnterIn(tr, longer[i - 1], q[i])
      <4> SUFFICES ASSUME NEW i \in 0..Len(q)
                   PROVE  longer[i] = IF i = 0 THEN AtTop ELSE EnterIn(tr, longer[i - 1], q[i])
        OBVIOUS
      <4>1. CASE i = Len(q)
        <5>1. i # 0 /\ i - 1 \in 0..Len(q) /\ i - 1 # Len(q)
          BY <4>1, <2>2
        <5>2. longer[i - 1] = way[i - 1]
          BY <5>1
        <5>3. longer[i] = EnterIn(tr, way[i - 1], b) /\ q[i] = b
          BY <4>1, <2>2
        <5> HIDE DEF longer, q
        <5> QED  BY <5>1, <5>2, <5>3
      <4>2. CASE i # Len(q) /\ i # 0
        <5>1. i \in 1..Len(p) /\ i \in 0..Len(p) /\ i - 1 \in 0..Len(q) /\ i - 1 # Len(q)
          BY <4>2, <2>2
        <5>2. longer[i - 1] = way[i - 1] /\ longer[i] = way[i] /\ q[i] = p[i]
          BY <4>2, <5>1, <2>2
        <5>3. way[i] = EnterIn(tr, way[i - 1], p[i])
          BY <3>1, <5>1, <4>2
        <5> HIDE DEF longer, q
        <5> QED  BY <4>2, <5>2, <5>3
      <4>3. CASE i = 0
        <5>1. longer[i] = way[0] /\ way[0] = AtTop
          BY <4>3, <3>1, <2>2
        <5> HIDE DEF longer, q
        <5> QED BY <5>1, <4>3
      <4> QED  BY <4>1, <4>2, <4>3
    <3>3. longer = [i \in 0..Len(q) |-> longer[i]]
      OBVIOUS
    <3> HIDE DEF longer, q
    <3> QED  BY <3>2, <3>3 DEF IsWay
  <2> HIDE DEF longer
  <2> QED  BY <2>2, <2>3
<1>3. Paths \subseteq T
  <2> HIDE DEF T
  <2> QED  BY <1>1, <1>2, SequenceInduction DEF Paths
<1> QED  BY <1>3

\* Two ways to a path agree step by step.
LEMMA WayUnique ==
    ASSUME NEW tr, NEW p \in Paths, NEW v, NEW w, IsWay(v, tr, p), IsWay(w, tr, p)
    PROVE  v = w
<1> DEFINE T == {i \in Nat : i <= Len(p) => v[i] = w[i]}
<1>0. Len(p) \in Nat
  BY LenProperties DEF Paths
<1>1. \A i \in 0..Len(p) : /\ v[i] = IF i = 0 THEN AtTop ELSE EnterIn(tr, v[i - 1], p[i])
                           /\ w[i] = IF i = 0 THEN AtTop ELSE EnterIn(tr, w[i - 1], p[i])
  BY DEF IsWay
<1>2. 0 \in T
  BY <1>0, <1>1
<1>3. ASSUME NEW i \in Nat, i \in T
      PROVE  i + 1 \in T
  <2> SUFFICES ASSUME i + 1 <= Len(p)
               PROVE  v[i + 1] = w[i + 1]
    OBVIOUS
  <2>1. i + 1 \in 0..Len(p) /\ i + 1 # 0 /\ (i + 1) - 1 = i /\ v[i] = w[i]
    BY <1>0, <1>3
  <2> QED  BY <1>1, <2>1
<1>4. Nat \subseteq T
  <2> HIDE DEF T
  <2> QED  BY <1>2, <1>3, NumberInduction
<1>5. \A i \in 0..Len(p) : v[i] = w[i]
  BY <1>4, <1>0
<1>6. v = [i \in 0..Len(p) |-> v[i]] /\ w = [i \in 0..Len(p) |-> w[i]]
  BY DEF IsWay
<1> QED  BY <1>5, <1>6

\* The last step of the way to a path.
LEMMA ResolveSteps ==
    ASSUME NEW tr
    PROVE  /\ ResolveIn(tr, <<>>) = AtTop
           /\ \A p \in Paths, b \in Bases :
                ResolveIn(tr, Append(p, b)) = EnterIn(tr, ResolveIn(tr, p), b)
<1>1. ResolveIn(tr, <<>>) = AtTop
  <2>1. <<>> \in Paths /\ Len(<<>>) = 0
    BY EmptySeq DEF Paths
  <2>2. PICK v : v = CHOOSE way : IsWay(way, tr, <<>>)
    OBVIOUS
  <2>3. IsWay(v, tr, <<>>)
    BY <2>1, <2>2, WayExists
  <2>4. v[0] = AtTop
    BY <2>1, <2>3 DEF IsWay
  <2> QED  BY <2>1, <2>2, <2>4 DEF ResolveIn
<1>2. ASSUME NEW p \in Paths, NEW b \in Bases
      PROVE  ResolveIn(tr, Append(p, b)) = EnterIn(tr, ResolveIn(tr, p), b)
  <2>1. PICK q : q = Append(p, b)
    OBVIOUS
  <2>2. q \in Paths /\ Len(q) = Len(p) + 1 /\ Len(p) \in Nat
        /\ q[Len(q)] = b /\ \A i \in 1..Len(p) : q[i] = p[i]
    BY <2>1, AppendPath
  <2>3. PICK v : v = CHOOSE way : IsWay(way, tr, p)
    OBVIOUS
  <2>4. PICK w : w = CHOOSE way : IsWay(way, tr, q)
    OBVIOUS
  <2>5. IsWay(v, tr, p) /\ IsWay(w, tr, q)
    BY <2>2, <2>3, <2>4, WayExists
  <2>6. PICK u : u = [i \in 0..Len(p) |-> w[i]]
    OBVIOUS
  <2>7. IsWay(u, tr, p)
    <3>1. \A i \in 0..Len(q) : w[i] = IF i = 0 THEN AtTop ELSE EnterIn(tr, w[i - 1], q[i])
      BY <2>5 DEF IsWay
    <3>2. \A i \in 0..Len(p) : u[i] = IF i = 0 THEN AtTop ELSE EnterIn(tr, u[i - 1], p[i])
      <4> SUFFICES ASSUME NEW i \in 0..Len(p)
                   PROVE  u[i] = IF i = 0 THEN AtTop ELSE EnterIn(tr, u[i - 1], p[i])
        OBVIOUS
      <4>1. i \in 0..Len(q) /\ u[i] = w[i]
        BY <2>2, <2>6
      <4>2. i # 0 => i - 1 \in 0..Len(p) /\ i \in 1..Len(p)
        BY <2>2
      <4> QED  BY <2>2, <2>6, <3>1, <4>1, <4>2
    <3> QED  BY <2>6, <3>2 DEF IsWay
  <2>8. u = v
    BY <2>5, <2>7, WayUnique
  <2>9. w[Len(q)] = EnterIn(tr, w[Len(p)], b)
    <3>1. Len(q) \in 0..Len(q) /\ Len(q) # 0 /\ Len(q) - 1 = Len(p)
      BY <2>2
    <3>2. w[Len(q)] = IF Len(q) = 0 THEN AtTop ELSE EnterIn(tr, w[Len(q) - 1], q[Len(q)])
      BY <2>5, <3>1 DEF IsWay
    <3> QED  BY <2>2, <3>1, <3>2
  <2>10. w[Len(p)] = v[Len(p)]
    BY <2>2, <2>6, <2>8
  <2>11. ResolveIn(tr, p) = v[Len(p)] /\ ResolveIn(tr, q) = w[Len(q)]
    BY <2>3, <2>4 DEF ResolveIn
  <2> QED  BY <2>1, <2>9, <2>10, <2>11
<1> QED  BY <1>1, <1>2

DirIn(tr, p) == ResolveIn(tr, p).dir
HopsIn(tr, p) == ResolveIn(tr, p).hops

\* DirOf and Looped, in this state and the next.
LEMMA DirOfIs ==
    /\ \A p : DirOf(p) = DirIn(tree, p) /\ (Looped(p) <=> HopsIn(tree, p) > MaxHops)
    /\ \A p : DirOf(p)' = DirIn(tree', p) /\ (Looped(p)' <=> HopsIn(tree', p) > MaxHops)
<1>1. \A p : Resolve(p) = ResolveIn(tree, p) /\ Resolve(p)' = ResolveIn(tree', p)
  BY ResolveIs, ResolveIsNext
<1>2. \A p : DirOf(p) = DirIn(tree, p) /\ (Looped(p) <=> HopsIn(tree, p) > MaxHops)
  BY <1>1 DEF DirOf, Looped, DirIn, HopsIn
<1>3. \A p : DirOf(p)' = DirIn(tree', p) /\ (Looped(p)' <=> HopsIn(tree', p) > MaxHops)
  <2> SUFFICES ASSUME NEW p
               PROVE  DirOf(p)' = DirIn(tree', p) /\ (Looped(p)' <=> HopsIn(tree', p) > MaxHops)
    OBVIOUS
  <2> QED  BY <1>1 DEF DirOf, Looped, DirIn, HopsIn
<1> QED  BY <1>2, <1>3

\* A name that leads on.
Leading(tr, d, b) == <<d, b, <<>> >> \in DOMAIN tr /\ tr[<<d, b, <<>> >>].type # "file"

\* Where a path leads, one name after the other.
LEMMA DirSteps ==
    ASSUME NEW tr
    PROVE  /\ DirIn(tr, <<>>) = Top /\ HopsIn(tr, <<>>) = 0
           /\ \A p \in Paths : HopsIn(tr, p) \in Nat
           /\ \A p \in Paths, b \in Bases :
                /\ DirIn(tr, Append(p, b)) =
                     IF Leading(tr, DirIn(tr, p), b) THEN tr[<<DirIn(tr, p), b, <<>> >>].at ELSE NoDir
                /\ HopsIn(tr, Append(p, b)) = HopsIn(tr, p) +
                     IF Leading(tr, DirIn(tr, p), b) /\ tr[<<DirIn(tr, p), b, <<>> >>].type = "link"
                     THEN 1 ELSE 0
<1> DEFINE Good == {p \in Paths : /\ ResolveIn(tr, p) = [dir |-> DirIn(tr, p), hops |-> HopsIn(tr, p)]
                                  /\ HopsIn(tr, p) \in Nat}
<1>1. <<>> \in Paths
  BY EmptySeq DEF Paths
<1>2. ResolveIn(tr, <<>>) = AtTop /\ \A p \in Paths, b \in Bases :
                ResolveIn(tr, Append(p, b)) = EnterIn(tr, ResolveIn(tr, p), b)
  BY ResolveSteps
<1>3. <<>> \in Good /\ DirIn(tr, <<>>) = Top /\ HopsIn(tr, <<>>) = 0
  BY <1>1, <1>2 DEF AtTop, DirIn, HopsIn
<1>4. ASSUME NEW p \in Paths, NEW b \in Bases, p \in Good
      PROVE  /\ Append(p, b) \in Good
             /\ DirIn(tr, Append(p, b)) =
                     IF Leading(tr, DirIn(tr, p), b) THEN tr[<<DirIn(tr, p), b, <<>> >>].at ELSE NoDir
             /\ HopsIn(tr, Append(p, b)) = HopsIn(tr, p) +
                     IF Leading(tr, DirIn(tr, p), b) /\ tr[<<DirIn(tr, p), b, <<>> >>].type = "link"
                     THEN 1 ELSE 0
  <2>1. PICK d, h : d = DirIn(tr, p) /\ h = HopsIn(tr, p)
    OBVIOUS
  <2>2. h \in Nat /\ ResolveIn(tr, Append(p, b)) = EnterIn(tr, [dir |-> d, hops |-> h], b)
    BY <1>2, <1>4, <2>1
  <2>3. EnterIn(tr, [dir |-> d, hops |-> h], b) =
          [dir |-> IF Leading(tr, d, b) THEN tr[<<d, b, <<>> >>].at ELSE NoDir,
           hops |-> h + IF Leading(tr, d, b) /\ tr[<<d, b, <<>> >>].type = "link" THEN 1 ELSE 0]
    BY <2>2 DEF EnterIn, Leading
  <2>4. PICK q : q = Append(p, b)
    OBVIOUS
  <2>5. q \in Paths
    BY <2>4, AppendPath
  <2>6. /\ DirIn(tr, q) = IF Leading(tr, d, b) THEN tr[<<d, b, <<>> >>].at ELSE NoDir
        /\ HopsIn(tr, q) = h + IF Leading(tr, d, b) /\ tr[<<d, b, <<>> >>].type = "link" THEN 1 ELSE 0
        /\ ResolveIn(tr, q) = [dir |-> DirIn(tr, q), hops |-> HopsIn(tr, q)]
    BY <2>2, <2>3, <2>4 DEF DirIn, HopsIn
  <2>7. q \in Good
    BY <2>2, <2>5, <2>6
  <2> QED  BY <2>1, <2>4, <2>6, <2>7
<1>5. Paths \subseteq Good
  <2> HIDE DEF Good
  <2> QED  BY <1>3, <1>4, SequenceInduction DEF Paths
<1> QED  BY <1>3, <1>4, <1>5

\* One name further.
LEMMA DirStep ==
    ASSUME NEW tr, NEW p \in Paths, NEW b \in Bases
    PROVE  /\ DirIn(tr, Append(p, b)) =
                IF Leading(tr, DirIn(tr, p), b) THEN tr[<<DirIn(tr, p), b, <<>> >>].at ELSE NoDir
           /\ HopsIn(tr, Append(p, b)) = HopsIn(tr, p) +
                IF Leading(tr, DirIn(tr, p), b) /\ tr[<<DirIn(tr, p), b, <<>> >>].type = "link"
                THEN 1 ELSE 0
  BY DirSteps

\* Where nothing leads elsewhere, paths lead where they did.
LEMMA SameLeads ==
    ASSUME NEW tr, NEW ts,
           \A d, b : /\ Leading(ts, d, b) <=> Leading(tr, d, b)
                     /\ Leading(tr, d, b) => ts[<<d, b, <<>> >>] = tr[<<d, b, <<>> >>]
    PROVE  \A p \in Paths : DirIn(ts, p) = DirIn(tr, p) /\ HopsIn(ts, p) = HopsIn(tr, p)
<1> DEFINE Good == {p \in Paths : DirIn(ts, p) = DirIn(tr, p) /\ HopsIn(ts, p) = HopsIn(tr, p)}
<1>1. <<>> \in Good
  BY DirSteps, EmptySeq DEF Paths
<1>2. ASSUME NEW p \in Paths, NEW b \in Bases, p \in Good
      PROVE  Append(p, b) \in Good
  <2>1. Append(p, b) \in Paths
    BY AppendPath
  <2>2. PICK d, h, q : d = DirIn(tr, p) /\ h = HopsIn(tr, p) /\ q = Append(p, b)
    OBVIOUS
  <2>3. DirIn(ts, p) = d /\ HopsIn(ts, p) = h
    BY <1>2, <2>2
  <2>4. /\ DirIn(tr, q) = IF Leading(tr, d, b) THEN tr[<<d, b, <<>> >>].at ELSE NoDir
        /\ HopsIn(tr, q) = h +
             IF Leading(tr, d, b) /\ tr[<<d, b, <<>> >>].type = "link" THEN 1 ELSE 0
    BY <1>2, <2>2, DirStep
  <2>5. /\ DirIn(ts, q) = IF Leading(ts, d, b) THEN ts[<<d, b, <<>> >>].at ELSE NoDir
        /\ HopsIn(ts, q) = h +
             IF Leading(ts, d, b) /\ ts[<<d, b, <<>> >>].type = "link" THEN 1 ELSE 0
    BY <1>2, <2>2, <2>3, DirStep
  <2>6. /\ Leading(ts, d, b) <=> Leading(tr, d, b)
        /\ Leading(tr, d, b) => ts[<<d, b, <<>> >>] = tr[<<d, b, <<>> >>]
    OBVIOUS
  <2>7. DirIn(ts, q) = DirIn(tr, q) /\ HopsIn(ts, q) = HopsIn(tr, q)
    BY <2>4, <2>5, <2>6
  <2> QED  BY <2>1, <2>2, <2>7
<1>3. Paths \subseteq Good
  <2> HIDE DEF Good
  <2> QED  BY <1>1, <1>2, SequenceInduction DEF Paths
<1> QED  BY <1>3

\* A path whose names stay leads where it did.
LEMMA WayStays ==
    ASSUME NEW tr, NEW ts, NEW p \in Paths,
           \A i \in 1..Len(p) :
             LET x == <<DirIn(tr, Upto(p, i - 1)), p[i], <<>> >> IN
             Leading(tr, x[1], x[2]) /\ x \in DOMAIN ts /\ ts[x] = tr[x]
    PROVE  \A i \in 0..Len(p) : DirIn(ts, Upto(p, i)) = DirIn(tr, Upto(p, i))
<1> DEFINE Good == {i \in Nat : i <= Len(p) => DirIn(ts, Upto(p, i)) = DirIn(tr, Upto(p, i))}
<1>0. Len(p) \in Nat
  BY UptoFacts
<1>1. 0 \in Good
  BY DirSteps, UptoFacts
<1>2. ASSUME NEW i \in Nat, i \in Good
      PROVE  i + 1 \in Good
  <2> SUFFICES ASSUME i + 1 <= Len(p)
               PROVE  DirIn(ts, Upto(p, i + 1)) = DirIn(tr, Upto(p, i + 1))
    OBVIOUS
  <2>1. i + 1 \in 1..Len(p) /\ i \in 0..Len(p) /\ (i + 1) - 1 = i
    BY <1>0
  <2>2. Upto(p, i) \in Paths /\ p[i + 1] \in Bases /\ Upto(p, i + 1) = Append(Upto(p, i), p[i + 1])
    BY <2>1, UptoNext
  <2>3. PICK d : d = DirIn(tr, Upto(p, i))
    OBVIOUS
  <2>4. DirIn(ts, Upto(p, i)) = d
    BY <1>2, <2>1, <2>3
  <2>5. Leading(tr, d, p[i + 1]) /\ <<d, p[i + 1], <<>> >> \in DOMAIN ts
        /\ ts[<<d, p[i + 1], <<>> >>] = tr[<<d, p[i + 1], <<>> >>]
    BY <2>1, <2>3
  <2>6. Leading(ts, d, p[i + 1])
    BY <2>5 DEF Leading
  <2>7. PICK q, b : q = Upto(p, i) /\ b = p[i + 1]
    OBVIOUS
  <2>8. /\ DirIn(tr, Append(q, b)) = tr[<<d, b, <<>> >>].at
        /\ DirIn(ts, Append(q, b)) = ts[<<d, b, <<>> >>].at
    <3>1. q \in Paths /\ b \in Bases /\ DirIn(tr, q) = d /\ DirIn(ts, q) = d
          /\ Leading(tr, d, b) /\ Leading(ts, d, b)
      BY <2>2, <2>3, <2>4, <2>5, <2>6, <2>7
    <3>2. DirIn(tr, Append(q, b)) = tr[<<d, b, <<>> >>].at
      BY <3>1, DirStep
    <3>3. DirIn(ts, Append(q, b)) = ts[<<d, b, <<>> >>].at
      BY <3>1, DirStep
    <3> QED  BY <3>2, <3>3
  <2> QED  BY <2>2, <2>5, <2>7, <2>8
<1>3. Nat \subseteq Good
  <2> HIDE DEF Good
  <2> QED  BY <1>1, <1>2, NumberInduction
<1> QED  BY <1>0, <1>3

-----------------------------------------------------------------------------
(* Names, files and the work on one file *)

TreeOK ==
    \A x \in DOMAIN tree :
      /\ IsDir(x[1])
      /\ tree[x].type = "dir" => \E n \in DOMAIN SubDirs : x = Plain(n) /\ tree[x].at = SubDirs[n]
      /\ tree[x].type = "link" => x[3] = <<>> /\ tree[x].at = Top

RequestsKnown == \A t \in Threads : pc[t] # "idle" => req[t] \in Requests

\* Each directory but the top has one place.
LEMMA DirsFacts ==
    /\ NoDir \notin Dirs /\ Top \in Dirs /\ Top # NoDir
    /\ \A n \in DOMAIN SubDirs : /\ n = <<n[1], n[2]>> /\ n[1] \in Dirs /\ n[2] \in Bases
                                 /\ SubDirs[n] \in Dirs /\ SubDirs[n] # Top /\ SubDirs[n] # NoDir
    /\ \A m, n \in DOMAIN SubDirs : SubDirs[m] = SubDirs[n] \/ Plain(m) = Plain(n) => m = n
<1>1. \A n \in DOMAIN SubDirs : SubDirs[n] \in Range(SubDirs)
  BY DEF Range
<1>2. NoDir \notin Dirs /\ Top \in Dirs /\ Top # NoDir
  BY TreeAssumption, NamesAssumption DEF Dirs
<1>3. \A n \in DOMAIN SubDirs : SubDirs[n] \in Dirs /\ SubDirs[n] # Top /\ SubDirs[n] # NoDir
  BY <1>1, TreeAssumption DEF Dirs
<1>4. \A n \in DOMAIN SubDirs : n \in Dirs \X Bases
  BY NamesAssumption
<1>5. \A n \in DOMAIN SubDirs : n = <<n[1], n[2]>> /\ n[1] \in Dirs /\ n[2] \in Bases
  BY <1>4
<1>6. \A m, n \in DOMAIN SubDirs : SubDirs[m] = SubDirs[n] => m = n
  BY TreeAssumption DEF IsInjective
<1>7. \A m, n \in DOMAIN SubDirs : Plain(m) = Plain(n) => m = n
  BY <1>5 DEF Plain
<1> QED  BY <1>2, <1>3, <1>5, <1>6, <1>7

\* Names without prefixes.
LEMMA PlainNamesFacts ==
    ASSUME NEW x \in PlainNames
    PROVE  /\ x = <<x[1], x[2], <<>> >> /\ x[1] \in Dirs /\ x[2] \in Bases /\ x[3] = <<>>
           /\ x \in Names /\ x = Plain(<<x[1], x[2]>>)
<1>1. PICK n \in FileNames \union LinkNames \union DOMAIN SubDirs : x = Plain(n)
  BY DEF PlainNames
<1>2. n \in Dirs \X Bases
  BY NamesAssumption
<1>3. x = <<x[1], x[2], <<>> >> /\ x[1] \in Dirs /\ x[2] \in Bases /\ x[3] = <<>>
  BY <1>1, <1>2 DEF Plain
<1>4. x = Plain(<<x[1], x[2]>>)
  BY <1>3 DEF Plain
<1>5. x \in Names
  BY <1>3 DEF Names
<1> QED  BY <1>3, <1>4, <1>5

\* Files, directories and symlinks.
LEMMA NodesFacts ==
    ASSUME NEW n \in Nodes
    PROVE  /\ n.type \in {"file", "dir", "link"}
           /\ n.type = "file" => n.at \in Contents /\ n = File(n.at)
           /\ n.type # "file" => n.at \in Dirs
<1>1. CASE n \in [type : {"file"}, at : Contents]
  BY <1>1 DEF File
<1>2. CASE n \in [type : {"dir", "link"}, at : Dirs]
  BY <1>2
<1> QED  BY <1>1, <1>2 DEF Nodes

\* What is in the tree.
LEMMA TreeFacts ==
    ASSUME TypeOK, NEW x \in DOMAIN tree
    PROVE  /\ x = <<x[1], x[2], x[3]>> /\ x[1] \in Dirs /\ x[2] \in Bases /\ x[1] # NoDir
           /\ tree[x].type \in {"file", "dir", "link"}
           /\ IsFile(x) => tree[x].at \in Contents /\ tree[x] = File(tree[x].at)
           /\ ~IsFile(x) => tree[x].at \in Dirs
<1>1. x \in Names /\ tree[x] \in Nodes
  BY DEF TypeOK
<1>2. x = <<x[1], x[2], x[3]>> /\ x[1] \in Dirs /\ x[2] \in Bases /\ x[1] # NoDir
  BY <1>1, DirsFacts DEF Names
<1> QED  BY <1>1, <1>2, NodesFacts DEF IsFile, Exists

\* A marker of a plain name is not plain.
LEMMA MarkerIs ==
    ASSUME NEW x, x[3] = <<>>, NEW kind
    PROVE  /\ Marker(x, kind) = <<x[1], x[2], <<kind>> >> /\ <<kind>> # <<>>
           /\ Marker(x, kind)[1] = x[1] /\ Marker(x, kind)[2] = x[2] /\ Marker(x, kind)[3] # <<>>
           /\ Marker(x, kind) # x
<1>1. <<kind>> \in Seq({kind})
  OBVIOUS
<1>2. <<kind>> \o <<>> = <<kind>>
  BY <1>1, ConcatEmptySeq
<1>3. Len(<<kind>>) = 1 /\ Len(<<>>) = 0
  OBVIOUS
<1>4. Marker(x, kind) = <<x[1], x[2], <<kind>> >> /\ <<kind>> # <<>>
  BY <1>2, <1>3 DEF Marker
<1> QED  BY <1>4

LocksIn(tr, ts, x, m, k) ==
    /\ DOMAIN ts = DOMAIN tr \union {x, m}
    /\ ts[x] = File(Of(Placeholder))
    /\ ts[m] = File(Sealed(IF x \in DOMAIN tr /\ tr[x].type = "file" THEN tr[x].at.data ELSE Nothing, k))
    /\ \A y \in DOMAIN tr \ {x, m} : ts[y] = tr[y]

UnlocksIn(tr, ts, x, m) ==
    /\ m \in DOMAIN tr
    /\ DOMAIN ts = (DOMAIN tr \union {x}) \ {m}
    /\ ts[x] = File(Of(tr[m].at.data))
    /\ \A y \in DOMAIN tr \ {x, m} : ts[y] = tr[y]

DamagesIn(tr, ts, x) ==
    /\ DOMAIN ts = DOMAIN tr \union {x}
    /\ ts[x] = File(Of(Placeholder))
    /\ \A y \in DOMAIN tr \ {x} : ts[y] = tr[y]

\* A file and its content.
LEMMA FileIs ==
    ASSUME NEW d, NEW k
    PROVE  /\ File(Sealed(d, k)).type = "file" /\ File(Sealed(d, k)).at = Sealed(d, k)
           /\ Sealed(d, k).data = d /\ Sealed(d, k).by = k
           /\ Of(d) = Sealed(d, Nothing) /\ Of(d).data = d
  BY DEF File, Sealed, Of

\* What working on one file does.
LEMMA WorkIs ==
    ASSUME NEW op, NEW d, NEW x, x[3] = <<>>, NEW c,
           NEW w, w = Work(op, d, x, c)
    PROVE  LET m == Marker(x, c[1]) IN
           \/ /\ w.tree = tree
              /\ w.ok = (d = NoDir /\ op = "lock")
              /\ d # NoDir => op = "lock" /\ IsEncrypted(x)
           \/ /\ op = "lock" /\ ~IsEncrypted(x) /\ w.ok = TRUE
              /\ LocksIn(tree, w.tree, x, m, c[2])
           \/ /\ op # "lock" /\ Opens(x, c) /\ w.ok = TRUE
              /\ UnlocksIn(tree, w.tree, x, m)
           \/ /\ op # "lock" /\ ~Opens(x, c) /\ w.ok = FALSE
              /\ DamagesIn(tree, w.tree, x)
<1> DEFINE m == Marker(x, c[1])
<1>0. m # x
  BY MarkerIs
<1> HIDE DEF m
<1>1. CASE d = NoDir
  BY <1>1 DEF Work
<1>2. CASE d # NoDir /\ op = "lock" /\ IsEncrypted(x)
  BY <1>2 DEF Work, EncryptFile
<1>3. CASE d # NoDir /\ op = "lock" /\ ~IsEncrypted(x)
  <2>1. w.tree = AfterLock(x, c) /\ w.ok = TRUE
    BY <1>3 DEF Work, EncryptFile
  <2>2. PICK files, v : v = Sealed(Read(x).data, c[2]) /\ files = Put(tree, m, v)
    OBVIOUS
  <2>3. w.tree = Put(files, x, Of(Placeholder))
    BY <2>1, <2>2 DEF AfterLock, m
  <2>4. DOMAIN files = DOMAIN tree \union {m} /\ \A y \in DOMAIN files : files[y] = IF y = m THEN File(v) ELSE tree[y]
    BY <2>2 DEF Put
  <2>5. DOMAIN w.tree = DOMAIN files \union {x} /\ \A y \in DOMAIN w.tree : w.tree[y] = IF y = x THEN File(Of(Placeholder)) ELSE files[y]
    BY <2>3 DEF Put
  <2>6. Read(x).data = IF x \in DOMAIN tree /\ tree[x].type = "file" THEN tree[x].at.data ELSE Nothing
    BY FileIs DEF Read, IsFile, Exists
  <2>7. /\ DOMAIN w.tree = DOMAIN tree \union {x, m}
        /\ w.tree[x] = File(Of(Placeholder)) /\ w.tree[m] = File(v)
        /\ \A y \in DOMAIN tree \ {x, m} : w.tree[y] = tree[y]
    BY <1>0, <2>4, <2>5
  <2> QED  BY <1>3, <2>1, <2>2, <2>6, <2>7 DEF LocksIn, m
<1>4. CASE d # NoDir /\ op # "lock" /\ Opens(x, c)
  <2>1. w.tree = Without(Put(tree, x, Of(tree[m].at.data)), m) /\ w.ok = TRUE
    BY <1>4 DEF Work, DecryptFile, m
  <2>2. PICK files : files = Put(tree, x, Of(tree[m].at.data))
    OBVIOUS
  <2>3. DOMAIN files = DOMAIN tree \union {x} /\ \A y \in DOMAIN files : files[y] = IF y = x THEN File(Of(tree[m].at.data)) ELSE tree[y]
    BY <2>2 DEF Put
  <2>4. DOMAIN w.tree = DOMAIN files \ {m} /\ \A y \in DOMAIN w.tree : w.tree[y] = files[y]
    BY <2>1, <2>2 DEF Without, Restrict
  <2>5. m \in DOMAIN tree
    BY <1>4 DEF Opens, IsFile, Exists, m
  <2>6. UnlocksIn(tree, w.tree, x, m)
    BY <1>0, <2>3, <2>4, <2>5 DEF UnlocksIn
  <2> QED  BY <1>4, <2>1, <2>6 DEF m
<1>5. CASE d # NoDir /\ op # "lock" /\ ~Opens(x, c)
  <2>1. w.tree = Put(tree, x, Of(Placeholder)) /\ w.ok = FALSE
    BY <1>5 DEF Work, DecryptFile
  <2>2. DamagesIn(tree, w.tree, x)
    BY <2>1 DEF Put, DamagesIn
  <2> QED  BY <1>5, <2>1, <2>2
<1> QED  BY <1>1, <1>2, <1>3, <1>4, <1>5

\* It touches the file and its marker, and makes only files.
LEMMA WorkTouches ==
    ASSUME NEW op, NEW d, NEW x, x[3] = <<>>, NEW c,
           NEW w, w = Work(op, d, x, c), NEW m, m = Marker(x, c[1])
    PROVE  /\ \A y : y # x /\ y # m => (y \in DOMAIN w.tree <=> y \in DOMAIN tree) /\ (y \in DOMAIN tree => w.tree[y] = tree[y])
           /\ \A y \in {x, m} : y \in DOMAIN w.tree =>
                \/ y \in DOMAIN tree /\ w.tree[y] = tree[y]
                \/ w.tree[y].type = "file"
           /\ x \in DOMAIN tree => x \in DOMAIN w.tree
<1> DEFINE ts == w.tree
<1>1. m # x
  BY MarkerIs
<1>2. \/ ts = tree
      \/ LocksIn(tree, ts, x, m, c[2])
      \/ UnlocksIn(tree, ts, x, m)
      \/ DamagesIn(tree, ts, x)
  BY WorkIs
<1>7. x \in DOMAIN tree => x \in DOMAIN ts
  BY <1>1, <1>2 DEF LocksIn, UnlocksIn, DamagesIn
<1>3. CASE ts = tree
  BY <1>3
<1>4. CASE LocksIn(tree, ts, x, m, c[2])
  <2>1. ts[x].type = "file" /\ ts[m].type = "file" /\ x \in DOMAIN ts
    BY <1>4, FileIs DEF LocksIn
  <2>2. \A y : y # x /\ y # m => (y \in DOMAIN w.tree <=> y \in DOMAIN tree) /\ (y \in DOMAIN tree => w.tree[y] = tree[y])
    BY <1>4 DEF LocksIn
  <2> QED  BY <2>1, <2>2
<1>5. CASE UnlocksIn(tree, ts, x, m)
  <2>1. ts[x].type = "file" /\ m \notin DOMAIN ts /\ x \in DOMAIN ts
    BY <1>1, <1>5, FileIs DEF UnlocksIn
  <2>2. \A y : y # x /\ y # m => (y \in DOMAIN w.tree <=> y \in DOMAIN tree) /\ (y \in DOMAIN tree => w.tree[y] = tree[y])
    BY <1>5 DEF UnlocksIn
  <2> QED  BY <2>1, <2>2
<1>6. CASE DamagesIn(tree, ts, x)
  <2>1. ts[x].type = "file" /\ x \in DOMAIN ts
    BY <1>6, FileIs DEF DamagesIn
  <2>2. \A y : y # x => (y \in DOMAIN w.tree <=> y \in DOMAIN tree) /\ (y \in DOMAIN tree => w.tree[y] = tree[y])
    BY <1>6 DEF DamagesIn
  <2> QED  BY <1>1, <2>1, <2>2
<1> QED  BY <1>2, <1>3, <1>4, <1>5, <1>6

-----------------------------------------------------------------------------
(* The tree *)

\* What leads on is there and is no file.
LEMMA LeadingIs ==
    /\ \A d, b : Leading(tree, d, b) <=> Exists(<<d, b, <<>> >>) /\ ~IsFile(<<d, b, <<>> >>)
    /\ \A d, b : Leading(tree', d, b) <=> Exists(<<d, b, <<>> >>)' /\ ~IsFile(<<d, b, <<>> >>)'
  BY DEF Leading, Exists, IsFile

\* Where a path leads is a directory that is there.
LEMMA ResolvesToDirectory ==
    ASSUME TypeOK, TreeOK
    PROVE  \A p \in Paths : DirOf(p) = NoDir \/ (DirOf(p) \in Dirs /\ IsDir(DirOf(p)))
<1> DEFINE Good == {p \in Paths : DirOf(p) = NoDir \/ (DirOf(p) \in Dirs /\ IsDir(DirOf(p)))}
<1>1. <<>> \in Good
  BY DirOfIs, DirSteps, DirsFacts, EmptySeq DEF Paths, IsDir
<1>2. ASSUME NEW p \in Paths, NEW b \in Bases, p \in Good
      PROVE  Append(p, b) \in Good
  <2>1. Append(p, b) \in Paths
    BY AppendPath
  <2>2. PICK x : x = <<DirOf(p), b, <<>> >>
    OBVIOUS
  <2>3. DirOf(Append(p, b)) = IF Leading(tree, DirOf(p), b) THEN tree[x].at ELSE NoDir
    BY <2>2, DirOfIs, DirSteps
  <2>4. CASE Leading(tree, DirOf(p), b)
    <3>1. x \in DOMAIN tree /\ tree[x].type # "file"
      BY <2>2, <2>4 DEF Leading
    <3>2. tree[x].at \in Dirs /\ tree[x].type \in {"dir", "link"}
      BY <3>1, TreeFacts DEF IsFile, Exists
    <3>3. CASE tree[x].type = "dir"
      <4>1. PICK n \in DOMAIN SubDirs : x = Plain(n) /\ tree[x].at = SubDirs[n]
        BY <3>1, <3>3 DEF TreeOK
      <4> QED  BY <2>1, <2>3, <2>4, <3>1, <3>2, <3>3, <4>1 DEF IsDir, Exists
    <3>4. CASE tree[x].type = "link"
      BY <2>1, <2>3, <2>4, <3>1, <3>2, <3>4 DEF IsDir, TreeOK
    <3> QED  BY <3>2, <3>3, <3>4
  <2> QED  BY <2>1, <2>3, <2>4
<1>3. Paths \subseteq Good
  <2> HIDE DEF Good
  <2> QED  BY <1>1, <1>2, SequenceInduction DEF Paths
<1> QED  BY <1>3

\* The types of the tree.
TreeTyped == DOMAIN tree \subseteq Names /\ \A x \in DOMAIN tree : tree[x] \in Nodes

\* A file that a step makes.
LEMMA FileTyped ==
    ASSUME NEW d \in PlainNames \union {Nothing, Placeholder},
           NEW k \in {c[2] : c \in Creds} \union {Nothing}
    PROVE  File(Sealed(d, k)) \in Nodes /\ File(Of(d)) \in Nodes
  BY DEF File, Sealed, Of, Nodes, Contents

\* What is read from a file.
LEMMA DatumTyped ==
    ASSUME TypeOK, NEW x, IsFile(x)
    PROVE  tree[x].at.data \in PlainNames \union {Nothing, Placeholder}
<1>1. tree[x].at \in Contents
  BY TreeFacts DEF IsFile, Exists
<1> QED  BY <1>1 DEF Contents

\* What stays of a directory.
LEMMA DirectoryStays ==
    ASSUME NEW d, IsDir(d),
           \A n \in DOMAIN SubDirs :
             SubDirs[n] = d /\ Plain(n) \in DOMAIN tree /\ tree[Plain(n)].type = "dir"
             => Plain(n) \in DOMAIN tree' /\ tree'[Plain(n)] = tree[Plain(n)]
    PROVE  IsDir(d)'
  BY DEF IsDir, Exists

\* Working on a file in a directory that is there.
LEMMA WorkKeepsTree ==
    ASSUME TypeOK, TreeOK, NEW op, NEW d, NEW x, x[3] = <<>>, NEW c \in Creds,
           tree' = Work(op, d, x, c).tree,
           d # NoDir => /\ x \in Names /\ IsDir(x[1])
                        /\ x \in DOMAIN tree => IsFile(x)
    PROVE  TreeTyped' /\ TreeOK'
<1> DEFINE m == Marker(x, c[1])
<1>0. m # x /\ m = <<x[1], x[2], <<c[1]>> >> /\ c[1] \in Kinds /\ m[1] = x[1]
  BY MarkerIs, CredsAssumption
<1> HIDE DEF m
<1>1. CASE tree' = tree
  BY <1>1 DEF TypeOK, TreeTyped, TreeOK, IsDir, Exists
<1>2. CASE tree' # tree
  <2>1. d # NoDir
    BY <1>2 DEF Work
  <2>2. x \in Names /\ IsDir(x[1]) /\ (x \in DOMAIN tree => IsFile(x))
    BY <2>1
  <2>3. m \in Names
    BY <1>0, <2>2 DEF Names
  <2>4. \/ LocksIn(tree, tree', x, m, c[2])
        \/ UnlocksIn(tree, tree', x, m) /\ Opens(x, c)
        \/ DamagesIn(tree, tree', x)
    BY <1>2, WorkIs DEF m
  <2>5. Opens(x, c) => IsFile(m)
    BY DEF Opens, m
  <2>6. /\ \A y : y # x /\ y # m => (y \in DOMAIN tree' <=> y \in DOMAIN tree) /\ (y \in DOMAIN tree => tree'[y] = tree[y])
        /\ \A y \in {x, m} : y \in DOMAIN tree' => (y \in DOMAIN tree /\ tree'[y] = tree[y]) \/ tree'[y].type = "file"
    BY WorkTouches DEF m
  <2>7. m \in DOMAIN tree => tree[m].type # "dir"
    <3>1. \A n : m # Plain(n)
      BY <1>0, MarkerIs DEF Plain
    <3> QED  BY <3>1 DEF TreeOK
  <2>8. ASSUME NEW e, IsDir(e)
        PROVE  IsDir(e)'
    <3>1. \A n \in DOMAIN SubDirs :
             Plain(n) \in DOMAIN tree /\ tree[Plain(n)].type = "dir"
             => Plain(n) \in DOMAIN tree' /\ tree'[Plain(n)] = tree[Plain(n)]
      BY <2>2, <2>6, <2>7 DEF IsFile
    <3> QED  BY <2>8, <3>1, DirectoryStays
  <2>9. DOMAIN tree' \subseteq DOMAIN tree \union {x, m}
    BY <2>4 DEF LocksIn, UnlocksIn, DamagesIn
  <2>10. TreeOK'
    <3> SUFFICES ASSUME NEW y \in DOMAIN tree'
                 PROVE  /\ IsDir(y[1])'
                        /\ tree'[y].type = "dir" => \E n \in DOMAIN SubDirs : y = Plain(n) /\ tree'[y].at = SubDirs[n]
                        /\ tree'[y].type = "link" => y[3] = <<>> /\ tree'[y].at = Top
      BY DEF TreeOK
    <3>1. CASE y \in DOMAIN tree /\ tree'[y] = tree[y]
      BY <2>8, <3>1 DEF TreeOK
    <3>2. CASE ~(y \in DOMAIN tree /\ tree'[y] = tree[y])
      <4>1. y \in {x, m}
        BY <2>6, <3>2
      <4>2. tree'[y].type = "file"
        BY <2>6, <3>2, <4>1
      <4>3. IsDir(y[1])'
        BY <1>0, <2>2, <2>8, <4>1
      <4> QED  BY <4>2, <4>3
    <3> QED  BY <3>1, <3>2
  <2>11. TreeTyped'
    <3>1. Placeholder \in PlainNames \union {Nothing, Placeholder} /\ c[2] \in {k[2] : k \in Creds}
      OBVIOUS
    <3>2. File(Of(Placeholder)) \in Nodes
      BY <3>1, FileTyped
    <3>3. \A y \in DOMAIN tree : tree[y] \in Nodes /\ y \in Names
      BY DEF TypeOK
    <3>4. CASE LocksIn(tree, tree', x, m, c[2])
      <4>1. PICK v : v = IF x \in DOMAIN tree /\ tree[x].type = "file" THEN tree[x].at.data ELSE Nothing
        OBVIOUS
      <4>2. v \in PlainNames \union {Nothing, Placeholder}
        BY <4>1, DatumTyped DEF IsFile, Exists
      <4>3. File(Sealed(v, c[2])) \in Nodes
        BY <3>1, <4>2, FileTyped
      <4> QED  BY <2>2, <2>3, <3>2, <3>3, <3>4, <4>1, <4>3 DEF LocksIn, TreeTyped
    <3>5. CASE UnlocksIn(tree, tree', x, m) /\ Opens(x, c)
      <4>1. File(Of(tree[m].at.data)) \in Nodes
        BY <2>5, <3>1, <3>5, DatumTyped, FileTyped
      <4> QED  BY <2>2, <3>3, <3>5, <4>1 DEF UnlocksIn, TreeTyped
    <3>6. CASE DamagesIn(tree, tree', x)
      BY <2>2, <3>2, <3>3, <3>6 DEF DamagesIn, TreeTyped
    <3> QED  BY <2>4, <3>4, <3>5, <3>6
  <2> QED  BY <2>10, <2>11
<1> QED  BY <1>1, <1>2

\* What others do to a name, one kind of change at a time.
LEMMA ChangeKeepsTree ==
    ASSUME TypeOK, TreeOK, NEW x \in PlainNames, Change(x)
    PROVE  TreeTyped' /\ TreeOK'
<1>1. /\ x = <<x[1], x[2], <<>> >> /\ x[1] \in Dirs /\ x[2] \in Bases /\ x[3] = <<>>
      /\ x \in Names /\ x = Plain(<<x[1], x[2]>>)
  BY PlainNamesFacts
<1>2. /\ DOMAIN tree \subseteq Names /\ \A y \in DOMAIN tree : tree[y] \in Nodes
      /\ \A y \in DOMAIN tree :
           /\ IsDir(y[1])
           /\ tree[y].type = "dir" => \E n \in DOMAIN SubDirs : y = Plain(n) /\ tree[y].at = SubDirs[n]
           /\ tree[y].type = "link" => y[3] = <<>> /\ tree[y].at = Top
  BY DEF TypeOK, TreeOK
<1>3. CASE Unlink(x)
  <2>1. /\ tree[x].type # "dir" /\ DOMAIN tree' = DOMAIN tree \ {x}
        /\ \A y \in DOMAIN tree' : tree'[y] = tree[y]
    BY <1>3 DEF Unlink, Without, Restrict
  <2>2. \A d : IsDir(d) => IsDir(d)'
    BY <2>1, DirectoryStays
  <2> QED  BY <1>2, <2>1, <2>2 DEF TreeTyped, TreeOK
<1>4. CASE Rmdir(x)
  <2>1. PICK d : d = tree[x].at
    OBVIOUS
  <2>2. /\ x \in DOMAIN tree /\ tree[x].type = "dir"
        /\ DOMAIN tree' = {y \in DOMAIN tree \ {x} : y[1] # d}
        /\ \A y \in DOMAIN tree' : tree'[y] = tree[y]
        /\ \A e \in Subfiles(d) : e[2] # <<>>
    BY <1>4, <2>1 DEF Rmdir, Restrict, Exists
  <2>3. \A y \in DOMAIN tree : y[1] = d => y[3] # <<>>
    <3> SUFFICES ASSUME NEW y \in DOMAIN tree, y[1] = d
                 PROVE  y[3] # <<>>
      OBVIOUS
    <3>1. <<y[2], y[3]>> \in Subfiles(d)
      BY DEF Subfiles
    <3> QED  BY <2>2, <3>1
  <2>4. PICK n \in DOMAIN SubDirs : x = Plain(n) /\ d = SubDirs[n]
    BY <1>2, <2>1, <2>2
  <2>5. ASSUME NEW e, e # d, IsDir(e)
        PROVE  IsDir(e)'
    <3>1. ASSUME NEW q \in DOMAIN SubDirs, SubDirs[q] = e, Plain(q) \in DOMAIN tree
          PROVE  Plain(q) \in DOMAIN tree' /\ tree'[Plain(q)] = tree[Plain(q)]
      <4>1. Plain(q) # x
        BY <2>4, <2>5, <3>1, DirsFacts
      <4>2. Plain(q)[3] = <<>>
        BY DEF Plain
      <4> QED  BY <2>2, <2>3, <3>1, <4>1, <4>2
    <3> QED  BY <2>5, <3>1, DirectoryStays
  <2> QED  BY <1>2, <2>2, <2>5 DEF TreeTyped, TreeOK
<1>5. CASE Write(x)
  <2>1. /\ IsDir(x[1]) /\ (x \in DOMAIN tree => tree[x].type = "file")
        /\ DOMAIN tree' = DOMAIN tree \union {x} /\ tree'[x] = File(Of(x))
        /\ \A y \in DOMAIN tree' : y # x => tree'[y] = tree[y]
    BY <1>5 DEF Write, Put, Exists, IsFile
  <2>2. \A d : IsDir(d) => IsDir(d)'
    BY <2>1, DirectoryStays
  <2>3. File(Of(x)) \in Nodes /\ File(Of(x)).type = "file"
    BY FileTyped, FileIs
  <2> QED  BY <1>1, <1>2, <2>1, <2>2, <2>3 DEF TreeTyped, TreeOK
<1>6. CASE \E op \in {"lock", "unlock"}, c \in Creds : FileHook(op, x, c)
  <2>1. PICK op \in {"lock", "unlock"}, c \in Creds : FileHook(op, x, c)
    BY <1>6
  <2> QED  BY <1>1, <1>2, <2>1, WorkKeepsTree DEF FileHook, IsFile, Exists
<1>7. ASSUME NEW type \in {"dir", "link"}, NEW d \in Dirs, MakeDirectory(x, type, d),
             type = "dir" => \E n \in DOMAIN SubDirs : x = Plain(n) /\ d = SubDirs[n],
             type = "link" => d = Top
      PROVE  TreeTyped' /\ TreeOK'
  <2>1. /\ x \notin DOMAIN tree /\ IsDir(x[1])
        /\ DOMAIN tree' = DOMAIN tree \union {x} /\ tree'[x] = [type |-> type, at |-> d]
        /\ \A y \in DOMAIN tree : tree'[y] = tree[y]
    BY <1>7 DEF MakeDirectory, Exists
  <2>2. \A e : IsDir(e) => IsDir(e)'
    BY <2>1, DirectoryStays
  <2>3. [type |-> type, at |-> d] \in Nodes
    BY DEF Nodes
  <2> QED  BY <1>1, <1>2, <1>7, <2>1, <2>2, <2>3 DEF TreeTyped, TreeOK
<1>8. ASSUME <<x[1], x[2]>> \in DOMAIN SubDirs, MakeDirectory(x, "dir", SubDirs[<<x[1], x[2]>>])
      PROVE  TreeTyped' /\ TreeOK'
  BY <1>1, <1>7, <1>8, DirsFacts
<1>9. ASSUME MakeDirectory(x, "link", Top)
      PROVE  TreeTyped' /\ TreeOK'
  BY <1>7, <1>9, DirsFacts
<1> QED  BY <1>3, <1>4, <1>5, <1>6, <1>8, <1>9 DEF Change

-----------------------------------------------------------------------------
(* The types *)

Typed == TypeOK /\ TreeOK /\ RequestsKnown

\* The entries to visit are plain names.
LEMMA ToVisitIs ==
    ASSUME TypeOK
    PROVE  \A d : /\ ToVisit(d) \subseteq Bases \X {<<>>}
                  /\ \A e : e \in ToVisit(d) <=> e = <<e[1], <<>> >> /\ <<d, e[1], <<>> >> \in DOMAIN tree
<1> SUFFICES ASSUME NEW d
             PROVE  /\ ToVisit(d) \subseteq Bases \X {<<>>}
                    /\ \A e : e \in ToVisit(d) <=> e = <<e[1], <<>> >> /\ <<d, e[1], <<>> >> \in DOMAIN tree
  OBVIOUS
<1>1. ASSUME NEW e \in ToVisit(d)
      PROVE  e = <<e[1], <<>> >> /\ <<d, e[1], <<>> >> \in DOMAIN tree /\ e \in Bases \X {<<>>}
  <2>1. PICK x \in DOMAIN tree : x[1] = d /\ e = <<x[2], x[3]>> /\ e[2] = <<>>
    BY DEF ToVisit, Subfiles
  <2> QED  BY <2>1, TreeFacts
<1>2. ASSUME NEW e, e = <<e[1], <<>> >>, <<d, e[1], <<>> >> \in DOMAIN tree
      PROVE  e \in ToVisit(d)
  BY <1>2 DEF ToVisit, Subfiles
<1> QED  BY <1>1, <1>2

\* What a request asks for.
LEMMA RequestsFacts ==
    ASSUME NEW r \in Requests
    PROVE  /\ r.op \in {"lock", "unlock"} /\ r.path \in Roots /\ r.path \in Paths
           /\ r.cred \in WalkCreds /\ r.cred \in Creds /\ r.cred[1] \in Kinds
  BY NamesAssumption, CredsAssumption DEF Requests, Paths

\* Worker t visits entry e, which path p leads to, with what Work makes of it.
Visits(t, e, p, d, x, w) ==
    /\ e \in todo[t] /\ e = <<e[1], <<>> >> /\ e[1] \in Bases
    /\ cur[t] \in Paths /\ p \in Paths /\ p = Append(cur[t], e[1])
    /\ d = DirOf(cur[t]) /\ x = <<d, e[1], <<>> >>
    /\ w = Work(req[t].op, d, x, req[t].cred)

\* It keeps a directory for later, fails on a path that is too long, or works.
Descends(t, e, p) ==
    /\ DirOf(p) # NoDir /\ ~Looped(p)
    /\ stack' = [stack EXCEPT ![t] = Append(@, p)]
    /\ todo' = [todo EXCEPT ![t] = @ \ {e}]
    /\ UNCHANGED <<tree, owed, success, pc>>

GivesUp(t, p) ==
    /\ Looped(p)
    /\ success' = [success EXCEPT ![t] = FALSE]
    /\ pc' = [pc EXCEPT ![t] = "return"]
    /\ todo' = [todo EXCEPT ![t] = {}]
    /\ UNCHANGED <<tree, owed, stack>>

Works(t, e, p, x, w) ==
    /\ DirOf(p) = NoDir /\ ~Looped(p)
    /\ tree' = w.tree
    /\ success' = [success EXCEPT ![t] = @ /\ w.ok]
    /\ owed' = [u \in Threads |-> IF u = t THEN owed[u] ELSE owed[u] \ {x}]
    /\ todo' = [todo EXCEPT ![t] = @ \ {e}]
    /\ UNCHANGED <<stack, pc>>

\* A visit, with the names of what it visits.
LEMMA VisitIs ==
    ASSUME NEW t \in Threads, Visit(t), TypeOK
    PROVE  /\ pc[t] = "walk" /\ req' = req /\ cur' = cur /\ changes' = changes /\ record' = record
           /\ \E e, p, d, x, w :
                /\ Visits(t, e, p, d, x, w)
                /\ Descends(t, e, p) \/ GivesUp(t, p) \/ Works(t, e, p, x, w)
<1>1. pc[t] = "walk" /\ req' = req /\ cur' = cur /\ changes' = changes /\ record' = record
  BY DEF Visit
<1>2. PICK e \in todo[t] :
        LET d == DirOf(cur[t])
            p == Append(cur[t], e[1])
        IN /\ \/ e[2] = <<>> /\ VisitDirectory(t, p)
              \/ /\ e[2] # <<>> \/ (DirOf(p) = NoDir /\ ~Looped(p))
                 /\ VisitFile(t, d, <<d, e[1], e[2]>>)
           /\ todo' = [todo EXCEPT ![t] = IF pc'[t] = "return" THEN {} ELSE @ \ {e}]
  BY DEF Visit
<1> DEFINE d == DirOf(cur[t])
           p == Append(cur[t], e[1])
           x == <<d, e[1], <<>> >>
           w == Work(req[t].op, d, x, req[t].cred)
<1>3. e \in Bases \X {<<>>} /\ cur[t] \in Paths /\ pc[t] \in {"idle", "walk", "return"}
      /\ pc = [u \in Threads |-> pc[u]]
  BY DEF TypeOK, Paths
<1>4. e = <<e[1], <<>> >> /\ e[1] \in Bases /\ e[2] = <<>> /\ p \in Paths
  BY <1>3, AppendPath
<1>5. /\ \/ VisitDirectory(t, p)
         \/ DirOf(p) = NoDir /\ ~Looped(p) /\ VisitFile(t, d, x)
      /\ todo' = [todo EXCEPT ![t] = IF pc'[t] = "return" THEN {} ELSE @ \ {e}]
  BY <1>2, <1>4
<1>6. Visits(t, e, p, d, x, w)
  BY <1>3, <1>4 DEF Visits
<1> HIDE DEF d, p, x, w
<1>7. CASE pc' = pc
  <2>1. todo' = [todo EXCEPT ![t] = @ \ {e}]
    BY <1>1, <1>5, <1>7
  <2>2. pc' # [pc EXCEPT ![t] = "return"]
    BY <1>1, <1>3, <1>7
  <2>3. VisitDirectory(t, p) => Descends(t, e, p)
    BY <1>7, <2>1, <2>2 DEF VisitDirectory, Descends
  <2>4. DirOf(p) = NoDir /\ ~Looped(p) /\ VisitFile(t, d, x) => Works(t, e, p, x, w)
    BY <2>1 DEF VisitFile, Outcome, Works, w
  <2> QED  BY <1>1, <1>5, <1>6, <2>3, <2>4
<1>8. CASE pc' # pc
  <2>1. /\ Looped(p) /\ success' = [success EXCEPT ![t] = FALSE]
        /\ pc' = [pc EXCEPT ![t] = "return"] /\ UNCHANGED <<tree, owed, stack>>
    BY <1>5, <1>8 DEF VisitDirectory, VisitFile
  <2>2. todo' = [todo EXCEPT ![t] = {}]
    BY <1>3, <1>5, <2>1
  <2>3. GivesUp(t, p)
    BY <2>1, <2>2 DEF GivesUp
  <2> QED  BY <1>1, <1>6, <2>3
<1> QED  BY <1>7, <1>8

\* A stack without its top, and the top.
LEMMA FrontAndLast ==
    ASSUME NEW S, NEW s \in Seq(S), s # <<>>
    PROVE  /\ Len(s) \in Nat /\ Len(s) >= 1 /\ Last(s) = s[Len(s)] /\ Last(s) \in S
           /\ Front(s) \in Seq(S) /\ Len(Front(s)) = Len(s) - 1
           /\ \A i \in 1..(Len(s) - 1) : Front(s)[i] = s[i]
<1>1. Len(s) \in Nat /\ Len(s) # 0
  BY LenProperties, EmptySeq
<1>2. \A i \in 1..Len(s) : s[i] \in S
  BY ElementOfSeq
<1>3. /\ Last(s) = s[Len(s)] /\ Last(s) \in S
  BY <1>1, <1>2 DEF Last
<1>4. 1 \in Int /\ Len(s) - 1 \in Int /\ \A i \in 1..(Len(s) - 1) : s[i] \in S
  BY <1>1, <1>2
<1>5. PICK f : f = SubSeq(s, 1, Len(s) - 1)
  OBVIOUS
<1>6. f \in Seq(S) /\ Len(f) = Len(s) - 1
  <2>1. PICK n \in Int : n = Len(s) - 1
    BY <1>4
  <2>2. f \in Seq(S) /\ Len(f) = IF 1 <= n THEN n - 1 + 1 ELSE 0
    BY <1>4, <1>5, <2>1, SubSeqProperties
  <2> QED  BY <1>1, <2>1, <2>2
<1>7. \A i \in 1..(Len(s) - 1) : f[i] = s[i]
  BY <1>1, <1>4, <1>5, SubSeqProperties
<1>8. Front(s) = f
  BY <1>5 DEF Front
<1> QED  BY <1>1, <1>3, <1>6, <1>7, <1>8

\* Taking the next directory.
LEMMA NextDirectoryIs ==
    ASSUME NEW t \in Threads, NextDirectory(t), TypeOK
    PROVE  LET q == Last(stack[t]) IN
           /\ pc[t] = "walk" /\ todo[t] = {} /\ stack[t] # <<>> /\ q \in Paths
           /\ stack' = [stack EXCEPT ![t] = Front(@)] /\ Front(stack[t]) \in Seq(Seq(Bases))
           /\ cur' = [cur EXCEPT ![t] = q]
           /\ UNCHANGED <<tree, req, changes, owed, record>>
           /\ \/ /\ DirOf(q) # NoDir /\ ~Looped(q)
                 /\ todo' = [todo EXCEPT ![t] = ToVisit(DirOf(q))]
                 /\ UNCHANGED <<success, pc>>
              \/ /\ DirOf(q) = NoDir \/ Looped(q)
                 /\ success' = [success EXCEPT ![t] = FALSE]
                 /\ pc' = [pc EXCEPT ![t] = "return"]
                 /\ todo' = todo
<1> DEFINE q == Last(stack[t])
<1>1. stack[t] \in Seq(Seq(Bases)) /\ stack[t] # <<>>
  BY DEF TypeOK, NextDirectory
<1>2. q \in Paths /\ Front(stack[t]) \in Seq(Seq(Bases))
  BY <1>1, FrontAndLast DEF Paths
<1>3. cur' = [cur EXCEPT ![t] = q] /\ cur'[t] = q
  BY DEF NextDirectory, TypeOK
<1> HIDE DEF q
<1> QED  BY <1>1, <1>2, <1>3 DEF NextDirectory, q

\* Every step keeps the types: the tree has only directories that are there.
LEMMA Types ==
    ASSUME Typed, [Next]_vars
    PROVE  Typed'
<1> USE DEF Typed
<1>0. /\ req \in [Threads -> Requests \union {NoRequest}]
      /\ stack \in [Threads -> Seq(Seq(Bases))]
      /\ cur \in [Threads -> Seq(Bases)]
      /\ todo \in [Threads -> SUBSET (Bases \X {<<>>})]
      /\ success \in [Threads -> BOOLEAN]
      /\ pc \in [Threads -> {"idle", "walk", "return"}]
      /\ changes \in 0..MaxChanges
      /\ MaxChanges \in Nat
      /\ TreeTyped
  BY BoundsAssumption DEF TypeOK, TreeTyped
<1>2. ASSUME TreeTyped', TreeOK', UNCHANGED <<req, pc>>,
             stack' \in [Threads -> Seq(Seq(Bases))],
             cur' \in [Threads -> Seq(Bases)],
             todo' \in [Threads -> SUBSET (Bases \X {<<>>})],
             success' \in [Threads -> BOOLEAN],
             changes' \in 0..MaxChanges
      PROVE  Typed'
  BY <1>0, <1>2 DEF TypeOK, TreeTyped, RequestsKnown
<1>3. CASE UNCHANGED vars
  <2>1. TreeTyped' /\ TreeOK'
    BY <1>0, <1>3 DEF vars, TreeTyped, TreeOK, IsDir, Exists
  <2> QED  BY <1>0, <1>2, <1>3, <2>1 DEF vars, walkVars
<1>4. ASSUME NEW t \in Threads, NEW r \in Requests, Begin(t, r)
      PROVE  Typed'
  <2>1. /\ req' = [req EXCEPT ![t] = r] /\ pc' = [pc EXCEPT ![t] = "walk"]
        /\ stack' = [stack EXCEPT ![t] = <<r.path>>]
        /\ UNCHANGED <<tree, cur, todo, success, changes>>
    BY <1>4 DEF Begin
  <2>2. <<r.path>> \in Seq(Seq(Bases))
    BY RequestsFacts DEF Paths
  <2>3. TreeTyped' /\ TreeOK'
    BY <1>0, <2>1 DEF TreeTyped, TreeOK, IsDir, Exists
  <2> QED  BY <1>0, <2>1, <2>2, <2>3 DEF TypeOK, TreeTyped, RequestsKnown
<1>5. ASSUME NEW t \in Threads, NextDirectory(t)
      PROVE  Typed'
  <2> DEFINE q == Last(stack[t])
  <2>1. /\ q \in Paths /\ Front(stack[t]) \in Seq(Seq(Bases)) /\ pc[t] = "walk"
        /\ stack' = [stack EXCEPT ![t] = Front(@)]
        /\ cur' = [cur EXCEPT ![t] = q]
        /\ UNCHANGED <<tree, req, changes>>
        /\ \/ todo' = [todo EXCEPT ![t] = ToVisit(DirOf(q))] /\ UNCHANGED <<success, pc>>
           \/ /\ success' = [success EXCEPT ![t] = FALSE]
              /\ pc' = [pc EXCEPT ![t] = "return"]
              /\ todo' = todo
    BY <1>5, NextDirectoryIs
  <2>2. ToVisit(DirOf(q)) \subseteq Bases \X {<<>>}
    BY ToVisitIs
  <2> HIDE DEF q
  <2>3. TreeTyped' /\ TreeOK'
    <3>1. tree' = tree
      BY <2>1
    <3> QED  BY <1>0, <3>1 DEF TreeTyped, TreeOK, IsDir, Exists
  <2>4. stack' \in [Threads -> Seq(Seq(Bases))]
    BY <1>0, <2>1
  <2>5. cur' \in [Threads -> Seq(Bases)]
    BY <1>0, <2>1 DEF Paths
  <2>6. todo' \in [Threads -> SUBSET (Bases \X {<<>>})]
    BY <1>0, <2>1, <2>2
  <2>7. success' \in [Threads -> BOOLEAN] /\ pc' \in [Threads -> {"idle", "walk", "return"}]
    BY <1>0, <2>1
  <2>8. RequestsKnown'
    BY <1>0, <2>1 DEF RequestsKnown
  <2> QED  BY <1>0, <2>1, <2>3, <2>4, <2>5, <2>6, <2>7, <2>8 DEF TypeOK, TreeTyped
<1>6. ASSUME NEW t \in Threads, Visit(t)
      PROVE  Typed'
  <2>1. /\ pc[t] = "walk" /\ req' = req /\ cur' = cur /\ changes' = changes
    BY <1>6, VisitIs
  <2>0. PICK e, p, d, x, w :
          /\ Visits(t, e, p, d, x, w)
          /\ Descends(t, e, p) \/ GivesUp(t, p) \/ Works(t, e, p, x, w)
    BY <1>6, VisitIs
  <2>2. /\ e \in todo[t] /\ p \in Paths
        /\ x = <<DirOf(cur[t]), e[1], <<>> >> /\ e[1] \in Bases /\ cur[t] \in Paths
        /\ p = Append(cur[t], e[1]) /\ d = DirOf(cur[t])
        /\ w = Work(req[t].op, d, x, req[t].cred)
        /\ \/ /\ stack' = [stack EXCEPT ![t] = Append(@, p)]
              /\ todo' = [todo EXCEPT ![t] = @ \ {e}]
              /\ UNCHANGED <<tree, success, pc>>
           \/ /\ success' = [success EXCEPT ![t] = FALSE]
              /\ pc' = [pc EXCEPT ![t] = "return"]
              /\ todo' = [todo EXCEPT ![t] = {}]
              /\ UNCHANGED <<tree, stack>>
           \/ /\ DirOf(p) = NoDir
              /\ tree' = w.tree
              /\ success' = [success EXCEPT ![t] = @ /\ w.ok]
              /\ todo' = [todo EXCEPT ![t] = @ \ {e}]
              /\ UNCHANGED <<stack, pc>>
    BY <2>0 DEF Visits, Descends, GivesUp, Works
  <2>3. stack' \in [Threads -> Seq(Seq(Bases))]
    <3>1. Append(stack[t], p) \in Seq(Seq(Bases))
      BY <1>0, <2>2, AppendProperties DEF Paths
    <3> QED  BY <1>0, <2>2, <3>1
  <2>4. todo' \in [Threads -> SUBSET (Bases \X {<<>>})]
    <3>1. todo[t] \ {e} \in SUBSET (Bases \X {<<>>}) /\ {} \in SUBSET (Bases \X {<<>>})
      BY <1>0
    <3>2. \E S \in SUBSET (Bases \X {<<>>}) : todo' = [todo EXCEPT ![t] = S]
      BY <2>2, <3>1
    <3> QED  BY <1>0, <3>2
  <2>5. pc' \in [Threads -> {"idle", "walk", "return"}] /\ RequestsKnown'
    BY <1>0, <2>1, <2>2 DEF RequestsKnown
  <2>6. req[t] \in Requests /\ req[t].cred \in Creds
    BY <2>1, RequestsFacts DEF RequestsKnown
  <2>7. x[3] = <<>> /\ x[1] = DirOf(cur[t]) /\ x[2] = e[1] /\ x = <<x[1], x[2], <<>> >>
    BY <2>2
  <2>8. success' \in [Threads -> BOOLEAN]
    <3>1. w.ok \in BOOLEAN
      <4>1. \/ w.ok = (d = NoDir /\ req[t].op = "lock") \/ w.ok = TRUE \/ w.ok = FALSE
        BY <2>2, <2>7, WorkIs
      <4> QED  BY <4>1
    <3> QED  BY <1>0, <2>2, <3>1
  <2>9. TreeTyped' /\ TreeOK'
    <3>1. CASE tree' = tree
      BY <1>0, <3>1 DEF TreeTyped, TreeOK, IsDir, Exists
    <3>2. CASE DirOf(p) = NoDir /\ tree' = w.tree
      <4>1. DirOf(cur[t]) = NoDir \/ (DirOf(cur[t]) \in Dirs /\ IsDir(DirOf(cur[t])))
        BY <2>2, ResolvesToDirectory
      <4>2. DirOf(cur[t]) \in Dirs => x \in Names
        BY <2>2 DEF Names
      <4>3. x \in DOMAIN tree => IsFile(x)
        <5>1. ASSUME x \in DOMAIN tree, ~IsFile(x)
              PROVE  FALSE
          <6>1. Leading(tree, DirOf(cur[t]), e[1])
            BY <2>2, <5>1, LeadingIs DEF Exists
          <6>2. DirOf(p) = tree[x].at
            BY <2>2, <6>1, DirOfIs, DirSteps
          <6> QED  BY <3>2, <5>1, <6>2, TreeFacts, DirsFacts
        <5> QED  BY <5>1
      <4> QED  BY <2>2, <2>6, <2>7, <3>2, <4>1, <4>2, <4>3, WorkKeepsTree
    <3> QED  BY <2>2, <3>1, <3>2
  <2> QED  BY <1>0, <2>1, <2>3, <2>4, <2>5, <2>8, <2>9 DEF TypeOK, TreeTyped
<1>7. ASSUME NEW t \in Threads, Finish(t)
      PROVE  Typed'
  <2>1. /\ pc[t] = "walk" /\ pc' = [pc EXCEPT ![t] = "return"]
        /\ UNCHANGED <<tree, req, stack, cur, todo, success, changes>>
    BY <1>7 DEF Finish
  <2>3. TreeTyped' /\ TreeOK'
    BY <1>0, <2>1 DEF TreeTyped, TreeOK, IsDir, Exists
  <2> QED  BY <1>0, <2>1, <2>3 DEF TypeOK, TreeTyped, RequestsKnown
<1>8. ASSUME NEW t \in Threads, Return(t)
      PROVE  Typed'
  <2>1. /\ pc' = [pc EXCEPT ![t] = "idle"] /\ req' = [req EXCEPT ![t] = NoRequest]
        /\ stack' = [stack EXCEPT ![t] = <<>>] /\ cur' = [cur EXCEPT ![t] = <<>>]
        /\ success' = [success EXCEPT ![t] = TRUE] /\ changes' \in {0, changes}
        /\ UNCHANGED <<tree, todo>>
    BY <1>8 DEF Return
  <2>2. changes' \in 0..MaxChanges
    BY <1>0, <2>1
  <2>3. TreeTyped' /\ TreeOK'
    BY <1>0, <2>1 DEF TreeTyped, TreeOK, IsDir, Exists
  <2>4. <<>> \in Seq(Bases) /\ <<>> \in Seq(Seq(Bases))
    BY EmptySeq
  <2> QED  BY <1>0, <2>1, <2>2, <2>3, <2>4 DEF TypeOK, TreeTyped, RequestsKnown
<1>9. ASSUME NEW x \in PlainNames, Change(x)
      PROVE  Typed'
  <2>1. TreeTyped' /\ TreeOK'
    BY <1>9, ChangeKeepsTree
  <2>2. changes' \in 0..MaxChanges
    BY <1>0, <1>9 DEF Change
  <2> QED  BY <1>0, <1>2, <1>9, <2>1, <2>2 DEF Change, walkVars
<1> QED  BY <1>3, <1>4, <1>5, <1>6, <1>7, <1>8, <1>9 DEF Next, Walk

-----------------------------------------------------------------------------
(* Ways through the tree *)

\* In tree tr, path p leads to d, below r through no symlink.
LeadsIn(tr, r, p, d) ==
    /\ Starts(r, p)
    /\ DirIn(tr, p) = d
    /\ \A i \in 1..Len(p) :
         LET x == <<DirIn(tr, Upto(p, i - 1)), p[i], <<>> >> IN
         /\ Leading(tr, x[1], x[2])
         /\ i > Len(r) => tr[x].type = "dir"

\* The parts of a path and one name more.
LEMMA UptoAppend ==
    ASSUME NEW p \in Paths, NEW b \in Bases
    PROVE  /\ \A i \in 0..Len(p) : Upto(Append(p, b), i) = Upto(p, i)
           /\ Upto(Append(p, b), Len(p) + 1) = Append(p, b)
<1> DEFINE pb == Append(p, b)
<1>1. pb \in Paths /\ Len(p) \in Nat /\ Len(pb) = Len(p) + 1 /\ Starts(p, pb)
  BY AppendPath, StartsFacts
<1> HIDE DEF pb
<1>2. ASSUME NEW i \in 0..Len(p)
      PROVE  Upto(pb, i) = Upto(p, i)
  <2>1. PICK q : q = Upto(p, i)
    OBVIOUS
  <2>2. q \in Paths /\ Len(q) = i /\ Starts(q, p)
    BY <2>1, UptoFacts
  <2>3. Starts(q, pb)
    BY <1>1, <2>2, StartsTransitive
  <2>4. Upto(pb, Len(q)) = q
    BY <1>1, <2>2, <2>3, UptoFacts
  <2> QED  BY <2>1, <2>2, <2>4
<1>3. Upto(pb, Len(p) + 1) = pb
  BY <1>1, UptoFacts
<1> QED  BY <1>2, <1>3 DEF pb

\* A path that leads somewhere leads on at each of its names.
LEMMA NamesOnTheWay ==
    ASSUME TypeOK
    PROVE  \A p \in Paths : DirOf(p) # NoDir =>
             \A i \in 1..Len(p) : /\ Leading(tree, DirOf(Upto(p, i - 1)), p[i])
                                  /\ DirOf(Upto(p, i)) # NoDir
<1> DEFINE Good == {p \in Paths : DirOf(p) # NoDir =>
             \A i \in 1..Len(p) : /\ Leading(tree, DirOf(Upto(p, i - 1)), p[i])
                                  /\ DirOf(Upto(p, i)) # NoDir}
<1>1. <<>> \in Good
  BY EmptySeq DEF Paths
<1>2. ASSUME NEW p \in Paths, NEW b \in Bases, p \in Good
      PROVE  Append(p, b) \in Good
  <2>1. PICK q : q = Append(p, b)
    OBVIOUS
  <2>2. q \in Paths /\ Len(p) \in Nat /\ Len(q) = Len(p) + 1 /\ q[Len(p) + 1] = b
        /\ \A i \in 1..Len(p) : q[i] = p[i]
    BY <2>1, AppendPath
  <2>3. /\ \A i \in 0..Len(p) : Upto(q, i) = Upto(p, i)
        /\ Upto(q, Len(q)) = q /\ Upto(p, Len(p)) = p
    BY <2>1, <2>2, UptoAppend, UptoFacts
  <2> SUFFICES ASSUME DirOf(q) # NoDir, NEW i \in 1..Len(q)
               PROVE  Leading(tree, DirOf(Upto(q, i - 1)), q[i]) /\ DirOf(Upto(q, i)) # NoDir
    BY <2>1, <2>2
  <2>4. Leading(tree, DirOf(p), b)
    BY <2>1, DirOfIs, DirSteps
  <2>5. DirOf(p) # NoDir
    BY <2>4, TreeFacts DEF Leading
  <2>6. CASE i = Len(q)
    <3>1. i - 1 = Len(p) /\ Len(p) \in 0..Len(p)
      BY <2>2, <2>6
    <3> QED  BY <2>2, <2>3, <2>4, <2>6, <3>1
  <2>7. CASE i # Len(q)
    <3>1. i \in 1..Len(p) /\ i \in 0..Len(p) /\ i - 1 \in 0..Len(p)
      BY <2>2, <2>7
    <3>2. Leading(tree, DirOf(Upto(p, i - 1)), p[i]) /\ DirOf(Upto(p, i)) # NoDir
      BY <1>2, <2>5, <3>1
    <3> QED  BY <2>2, <2>3, <3>1, <3>2
  <2> QED  BY <2>6, <2>7
<1>3. Paths \subseteq Good
  <2> HIDE DEF Good
  <2> QED  BY <1>1, <1>2, SequenceInduction DEF Paths
<1> QED  BY <1>3

\* One that leads somewhere leads there, through no symlink below itself.
LEMMA LeadsToItself ==
    ASSUME TypeOK, NEW p \in Paths, DirOf(p) # NoDir
    PROVE  LeadsIn(tree, p, p, DirOf(p))
<1>1. \A i \in 1..Len(p) : Leading(tree, DirIn(tree, Upto(p, i - 1)), p[i])
  BY NamesOnTheWay, DirOfIs
<1>2. Len(p) \in Nat
  BY UptoFacts
<1> QED  BY <1>1, <1>2, StartsFacts, DirOfIs DEF LeadsIn, Starts

\* What leads through directories leads somewhere.
LEMMA LeadsSomewhere ==
    ASSUME TypeOK, NEW r, NEW p \in Paths, NEW d, LeadsIn(tree, r, p, d), d # NoDir
    PROVE  DirOf(p) = d /\ DirOf(p) # NoDir
  BY DirOfIs DEF LeadsIn

\* One name further.
LEMMA LeadsOn ==
    ASSUME TypeOK, NEW r \in Paths, NEW p \in Paths, NEW d, LeadsIn(tree, r, p, d),
           NEW b \in Bases, NEW x, x = <<d, b, <<>> >>, x \in DOMAIN tree, tree[x].type = "dir"
    PROVE  LeadsIn(tree, r, Append(p, b), tree[x].at)
<1>1. PICK q : q = Append(p, b)
  OBVIOUS
<1>2. q \in Paths /\ Len(p) \in Nat /\ Len(q) = Len(p) + 1 /\ q[Len(p) + 1] = b
      /\ \A i \in 1..Len(p) : q[i] = p[i]
  BY <1>1, AppendPath
<1>3. /\ \A i \in 0..Len(p) : Upto(q, i) = Upto(p, i)
      /\ Upto(p, Len(p)) = p
  BY <1>1, <1>2, UptoAppend, UptoFacts
<1>4. Starts(r, q) /\ DirIn(tree, p) = d
  BY <1>1, StartsFacts DEF LeadsIn
<1>5. Leading(tree, d, b)
  BY DEF Leading
<1>6. DirIn(tree, q) = tree[x].at
  BY <1>1, <1>4, <1>5, DirSteps
<1>7. ASSUME NEW i \in 1..Len(q)
      PROVE  LET y == <<DirIn(tree, Upto(q, i - 1)), q[i], <<>> >> IN
             /\ Leading(tree, y[1], y[2])
             /\ i > Len(r) => tree[y].type = "dir"
  <2>1. CASE i = Len(q)
    <3>1. i - 1 = Len(p) /\ Len(p) \in 0..Len(p)
      BY <1>2, <2>1
    <3>2. DirIn(tree, Upto(q, i - 1)) = d /\ q[i] = b
      BY <1>2, <1>3, <1>4, <2>1, <3>1
    <3> QED  BY <1>5, <3>2
  <2>2. CASE i # Len(q)
    <3>1. i \in 1..Len(p) /\ i - 1 \in 0..Len(p)
      BY <1>2, <2>2
    <3>2. Upto(q, i - 1) = Upto(p, i - 1) /\ q[i] = p[i]
      BY <1>2, <1>3, <3>1
    <3> QED  BY <3>1, <3>2 DEF LeadsIn
  <2> QED  BY <2>1, <2>2
<1> QED  BY <1>1, <1>4, <1>6, <1>7 DEF LeadsIn

\* Each directory below the one that a path leads to can be reached from it.
LEMMA BelowIsReached ==
    ASSUME TypeOK, TreeOK, NEW r \in Paths, DirOf(r) # NoDir,
           NEW e \in Below(DirOf(r)), IsDir(e)
    PROVE  \E p \in Paths : LeadsIn(tree, r, p, e)
<1> DEFINE D == {f \in Dirs : IsDir(f) => \E p \in Paths : LeadsIn(tree, r, p, f)}
<1>1. DirOf(r) \in D
  <2>1. DirOf(r) \in Dirs
    BY ResolvesToDirectory
  <2> QED  BY <2>1, LeadsToItself
<1>2. ASSUME NEW n \in DOMAIN SubDirs, n[1] \in D
      PROVE  SubDirs[n] \in D
  <2>1. /\ n = <<n[1], n[2]>> /\ n[1] \in Dirs /\ n[2] \in Bases
        /\ SubDirs[n] \in Dirs /\ SubDirs[n] # Top
    BY DirsFacts
  <2> SUFFICES ASSUME IsDir(SubDirs[n])
               PROVE  \E p \in Paths : LeadsIn(tree, r, p, SubDirs[n])
    BY <2>1
  <2>2. PICK m \in DOMAIN SubDirs : /\ SubDirs[m] = SubDirs[n] /\ Plain(m) \in DOMAIN tree
                                    /\ tree[Plain(m)].type = "dir"
    BY <2>1 DEF IsDir, Exists
  <2>3. PICK x : x = Plain(n)
    OBVIOUS
  <2>4. x \in DOMAIN tree /\ tree[x].type = "dir" /\ x = <<n[1], n[2], <<>> >>
    BY <2>2, <2>3, DirsFacts DEF Plain
  <2>5. IsDir(x[1]) /\ x[1] = n[1]
    BY <2>4 DEF TreeOK
  <2>6. tree[x].at = SubDirs[n]
    <3>1. PICK k \in DOMAIN SubDirs : x = Plain(k) /\ tree[x].at = SubDirs[k]
      BY <2>4 DEF TreeOK
    <3> QED  BY <2>3, <3>1, DirsFacts
  <2>7. PICK p \in Paths : LeadsIn(tree, r, p, n[1])
    BY <1>2, <2>5
  <2>8. LeadsIn(tree, r, Append(p, n[2]), tree[x].at) /\ Append(p, n[2]) \in Paths
    BY <2>1, <2>4, <2>7, LeadsOn, AppendPath
  <2> QED  BY <2>6, <2>8
<1>3. D \in SUBSET Dirs
  OBVIOUS
<1> HIDE DEF D
<1>4. e \in D
  BY <1>1, <1>2, <1>3 DEF Below
<1> QED  BY <1>4 DEF D

\* Working on a name that does not lead on leaves all ways as they are.
LEMMA WorkKeepsWays ==
    ASSUME NEW op, NEW d, NEW x, x = <<x[1], x[2], <<>> >>, NEW c, NEW w, w = Work(op, d, x, c),
           ~Leading(tree, x[1], x[2])
    PROVE  /\ \A f, b : /\ Leading(w.tree, f, b) <=> Leading(tree, f, b)
                        /\ Leading(tree, f, b) => w.tree[<<f, b, <<>> >>] = tree[<<f, b, <<>> >>]
           /\ \A p \in Paths : DirIn(w.tree, p) = DirIn(tree, p) /\ HopsIn(w.tree, p) = HopsIn(tree, p)
<1>1. PICK ts : ts = w.tree
  OBVIOUS
<1>2. x[3] = <<>>
  OBVIOUS
<1>3. PICK m : m = Marker(x, c[1]) /\ m[3] # <<>>
  BY <1>2, MarkerIs
<1>4. /\ \A y : y # x /\ y # m => (y \in DOMAIN ts <=> y \in DOMAIN tree) /\ (y \in DOMAIN tree => ts[y] = tree[y])
      /\ \A y \in {x, m} : y \in DOMAIN ts =>
           \/ y \in DOMAIN tree /\ ts[y] = tree[y]
           \/ ts[y].type = "file"
  BY <1>1, <1>2, <1>3, WorkTouches
<1>5. ASSUME NEW f, NEW b
      PROVE  /\ Leading(ts, f, b) <=> Leading(tree, f, b)
             /\ Leading(tree, f, b) => ts[<<f, b, <<>> >>] = tree[<<f, b, <<>> >>]
  <2>1. PICK y : y = <<f, b, <<>> >>
    OBVIOUS
  <2>2. y # m
    BY <1>3, <2>1
  <2>3. CASE y = x
    <3>1. f = x[1] /\ b = x[2]
      BY <2>1, <2>3
    <3>2. ~Leading(tree, f, b)
      BY <3>1
    <3>3. ~Leading(ts, f, b)
      BY <1>4, <2>1, <2>3, <3>2 DEF Leading
    <3> QED  BY <3>2, <3>3
  <2>4. CASE y # x
    BY <1>4, <2>1, <2>2, <2>4 DEF Leading
  <2> QED  BY <2>3, <2>4
<1>6. \A p \in Paths : DirIn(ts, p) = DirIn(tree, p) /\ HopsIn(ts, p) = HopsIn(tree, p)
  BY <1>5, SameLeads
<1> QED  BY <1>1, <1>5, <1>6

\* Then what leads somewhere leads there still.
LEMMA LeadsStill ==
    ASSUME NEW tr, NEW ts, NEW r, NEW p \in Paths, NEW d, LeadsIn(tr, r, p, d),
           \A i \in 1..Len(p) :
             LET x == <<DirIn(tr, Upto(p, i - 1)), p[i], <<>> >> IN
             x \in DOMAIN ts /\ ts[x] = tr[x]
    PROVE  LeadsIn(ts, r, p, d)
<1>1. Len(p) \in Nat /\ Upto(p, Len(p)) = p
  BY UptoFacts
<1>2. \A i \in 1..Len(p) :
             LET x == <<DirIn(tr, Upto(p, i - 1)), p[i], <<>> >> IN
             Leading(tr, x[1], x[2]) /\ x \in DOMAIN ts /\ ts[x] = tr[x]
  BY DEF LeadsIn
<1>3. \A i \in 0..Len(p) : DirIn(ts, Upto(p, i)) = DirIn(tr, Upto(p, i))
  BY <1>2, WayStays
<1>4. DirIn(ts, p) = d
  BY <1>1, <1>3 DEF LeadsIn
<1>5. ASSUME NEW i \in 1..Len(p)
      PROVE  LET x == <<DirIn(ts, Upto(p, i - 1)), p[i], <<>> >> IN
             /\ Leading(ts, x[1], x[2])
             /\ i > Len(r) => ts[x].type = "dir"
  <2>1. i - 1 \in 0..Len(p)
    BY <1>1
  <2>2. PICK x : x = <<DirIn(tr, Upto(p, i - 1)), p[i], <<>> >>
    OBVIOUS
  <2>3. x = <<DirIn(ts, Upto(p, i - 1)), p[i], <<>> >>
    BY <1>3, <2>1, <2>2
  <2>4. Leading(tr, x[1], x[2]) /\ x \in DOMAIN ts /\ ts[x] = tr[x]
        /\ (i > Len(r) => tr[x].type = "dir")
    BY <1>2, <2>2 DEF LeadsIn
  <2>5. Leading(ts, x[1], x[2])
    BY <2>2, <2>4 DEF Leading
  <2> QED  BY <2>3, <2>4, <2>5
<1> QED  BY <1>4, <1>5 DEF LeadsIn

-----------------------------------------------------------------------------
(* What is ahead, and what is owed *)

\* Worker t has not come to the directory p, or to the entry b of it.
Ahead(t, p) ==
    \/ \E i \in 1..Len(stack[t]) : Starts(stack[t][i], p)
    \/ \E e \in todo[t] : Starts(Append(cur[t], e[1]), p)

Pending(t, p, b) == Ahead(t, p) \/ (p = cur[t] /\ <<b, <<>> >> \in todo[t])

PhasesOK ==
    \A t \in Threads :
      /\ pc[t] = "idle" => success[t]
      /\ pc[t] # "walk" => todo[t] = {}
      /\ pc[t] = "return" /\ success[t] => stack[t] = <<>>

\* What locking owes to x, it has done.
LockedBy(x, c) == Read(x) = Of(Placeholder) /\ Opens(x, c)

Owes(t, x) ==
    /\ IsFile(x) /\ x[3] = <<>>
    /\ \E p \in Paths :
         /\ LeadsIn(tree, req[t].path, p, x[1])
         /\ Pending(t, p, x[2]) \/ LockedBy(x, req[t].cred)

OwedOK ==
    /\ owed = [t \in Threads |-> owed[t]]
    /\ \A t \in Threads :
         pc[t] # "idle" /\ req[t].op = "lock" /\ success[t] => \A x \in owed[t] : Owes(t, x)

\* Every step keeps the phases: only a worker that walks has entries to visit,
\* and one that has not failed returns with nothing left.
LEMMA PhasesStep ==
    ASSUME Typed, PhasesOK, [Next]_vars
    PROVE  PhasesOK'
<1> USE DEF PhasesOK
<1>0. /\ stack = [u \in Threads |-> stack[u]] /\ todo = [u \in Threads |-> todo[u]]
      /\ success = [u \in Threads |-> success[u]] /\ pc = [u \in Threads |-> pc[u]]
      /\ TypeOK
  BY DEF Typed, TypeOK
<1>1. CASE UNCHANGED vars
  BY <1>1 DEF vars, walkVars
<1>2. ASSUME NEW t \in Threads, NEW r \in Requests, Begin(t, r)
      PROVE  PhasesOK'
  BY <1>0, <1>2 DEF Begin
<1>3. ASSUME NEW t \in Threads, NextDirectory(t)
      PROVE  PhasesOK'
  <2>1. PICK q, s : /\ pc[t] = "walk" /\ todo[t] = {}
           /\ stack' = [stack EXCEPT ![t] = s]
           /\ \/ todo' = [todo EXCEPT ![t] = q] /\ UNCHANGED <<success, pc>>
              \/ /\ success' = [success EXCEPT ![t] = FALSE]
                 /\ pc' = [pc EXCEPT ![t] = "return"]
                 /\ todo' = todo
    BY <1>0, <1>3, NextDirectoryIs
  <2>2. CASE todo' = [todo EXCEPT ![t] = q] /\ UNCHANGED <<success, pc>>
    BY <1>0, <2>1, <2>2
  <2>3. CASE /\ success' = [success EXCEPT ![t] = FALSE]
             /\ pc' = [pc EXCEPT ![t] = "return"]
             /\ todo' = todo
    BY <1>0, <2>1, <2>3
  <2> QED  BY <2>1, <2>2, <2>3
<1>4. ASSUME NEW t \in Threads, Visit(t)
      PROVE  PhasesOK'
  <2>1. PICK e, p, d, x, w :
          /\ Visits(t, e, p, d, x, w)
          /\ Descends(t, e, p) \/ GivesUp(t, p) \/ Works(t, e, p, x, w)
    BY <1>0, <1>4, VisitIs
  <2>2. pc[t] = "walk"
    BY <1>4 DEF Visit
  <2>3. CASE Descends(t, e, p)
    BY <1>0, <2>2, <2>3 DEF Descends
  <2>4. CASE GivesUp(t, p)
    BY <1>0, <2>2, <2>4 DEF GivesUp
  <2>5. CASE Works(t, e, p, x, w)
    BY <1>0, <2>2, <2>5 DEF Works
  <2> QED  BY <2>1, <2>3, <2>4, <2>5
<1>5. ASSUME NEW t \in Threads, Finish(t)
      PROVE  PhasesOK'
  BY <1>0, <1>5 DEF Finish
<1>6. ASSUME NEW t \in Threads, Return(t)
      PROVE  PhasesOK'
  BY <1>0, <1>6 DEF Return
<1>7. ASSUME NEW x \in PlainNames, Change(x)
      PROVE  PhasesOK'
  BY <1>7 DEF Change, walkVars
<1> QED  BY <1>1, <1>2, <1>3, <1>4, <1>5, <1>6, <1>7 DEF Next, Walk

\* What others do to x spares what is not x or a marker of it, except hidden
\* entries of a directory that they remove.
LEMMA ChangeTouches ==
    ASSUME TypeOK, NEW x \in PlainNames, Change(x)
    PROVE  /\ x[3] = <<>>
           /\ \A z : z # x /\ (\A k \in Kinds : z # Marker(x, k)) /\ z \in DOMAIN tree
                => \/ z \in DOMAIN tree' /\ tree'[z] = tree[z]
                   \/ /\ z[3] # <<>> /\ x \in DOMAIN tree /\ tree[x].type = "dir" /\ z[1] = tree[x].at
           /\ \A z : z # x /\ (\A k \in Kinds : z # Marker(x, k)) /\ z \in DOMAIN tree'
                => z \in DOMAIN tree
           /\ x \in DOMAIN tree /\ tree[x].type = "dir"
                => \A z \in DOMAIN tree : z[1] = tree[x].at => z[3] # <<>>
<1>1. x[3] = <<>>
  BY PlainNamesFacts
<1>2. CASE Unlink(x)
  BY <1>1, <1>2 DEF Unlink, Without, Restrict
<1>3. CASE Rmdir(x)
  <2>1. PICK d : d = tree[x].at
    OBVIOUS
  <2>2. /\ x \in DOMAIN tree /\ tree[x].type = "dir"
        /\ DOMAIN tree' = {y \in DOMAIN tree \ {x} : y[1] # d}
        /\ \A y \in DOMAIN tree' : tree'[y] = tree[y]
        /\ \A e \in Subfiles(d) : e[2] # <<>>
    BY <1>3, <2>1 DEF Rmdir, Restrict, Exists
  <2>3. \A y \in DOMAIN tree : y[1] = d => y[3] # <<>>
    <3> SUFFICES ASSUME NEW y \in DOMAIN tree, y[1] = d
                 PROVE  y[3] # <<>>
      OBVIOUS
    <3>1. <<y[2], y[3]>> \in Subfiles(d)
      BY DEF Subfiles
    <3> QED  BY <2>2, <3>1
  <2> QED  BY <1>1, <2>1, <2>2, <2>3
<1>4. CASE Write(x)
  BY <1>1, <1>4 DEF Write, Put, Exists, IsFile
<1>5. CASE \E op \in {"lock", "unlock"}, c \in Creds : FileHook(op, x, c)
  <2>1. PICK op \in {"lock", "unlock"}, c \in Creds : FileHook(op, x, c)
    BY <1>5
  <2>2. PICK w : w = Work(op, x[1], x, c) /\ tree' = w.tree
    BY <2>1 DEF FileHook
  <2>3. PICK m : m = Marker(x, c[1]) /\ c[1] \in Kinds
    BY CredsAssumption
  <2>4. \A y : y # x /\ y # m => (y \in DOMAIN w.tree <=> y \in DOMAIN tree) /\ (y \in DOMAIN tree => w.tree[y] = tree[y])
    BY <1>1, <2>2, <2>3, WorkTouches
  <2>5. IsFile(x)
    BY <2>1 DEF FileHook
  <2> QED  BY <1>1, <2>2, <2>3, <2>4, <2>5 DEF IsFile
<1>6. ASSUME NEW type, NEW d, MakeDirectory(x, type, d)
      PROVE  /\ x \notin DOMAIN tree /\ DOMAIN tree' = DOMAIN tree \union {x}
             /\ \A y \in DOMAIN tree : tree'[y] = tree[y]
  BY <1>6 DEF MakeDirectory, Exists
<1>7. CASE \E type, d : MakeDirectory(x, type, d)
  BY <1>1, <1>6, <1>7
<1> QED  BY <1>2, <1>3, <1>4, <1>5, <1>7 DEF Change

\* A file that others do not touch stays where it was, and its markers, unless
\* a name that its directory is reached by goes.
LEMMA ChangeSpares ==
    ASSUME TypeOK, NEW x \in PlainNames, Change(x),
           NEW r \in Paths, x \notin Way(r), NEW p \in Paths,
           NEW y \in DOMAIN tree, y[3] = <<>>, y # x, LeadsIn(tree, r, p, y[1])
    PROVE  /\ LeadsIn(tree', r, p, y[1])
           /\ \A z : z = y \/ (\E k \in Kinds : z = Marker(y, k)) =>
                /\ z \in DOMAIN tree' <=> z \in DOMAIN tree
                /\ z \in DOMAIN tree => tree'[z] = tree[z]
<1>1. /\ x[3] = <<>>
      /\ \A z : z # x /\ (\A k \in Kinds : z # Marker(x, k)) /\ z \in DOMAIN tree
                => \/ z \in DOMAIN tree' /\ tree'[z] = tree[z]
                   \/ /\ z[3] # <<>> /\ x \in DOMAIN tree /\ tree[x].type = "dir" /\ z[1] = tree[x].at
      /\ \A z : z # x /\ (\A k \in Kinds : z # Marker(x, k)) /\ z \in DOMAIN tree'
                => z \in DOMAIN tree
      /\ x \in DOMAIN tree /\ tree[x].type = "dir"
                => \A z \in DOMAIN tree : z[1] = tree[x].at => z[3] # <<>>
  BY ChangeTouches
<1>2. Len(p) \in Nat /\ Upto(p, Len(p)) = p
  BY UptoFacts
<1>3. ASSUME NEW i \in 1..Len(p)
      PROVE  LET z == <<DirIn(tree, Upto(p, i - 1)), p[i], <<>> >> IN
             z \in DOMAIN tree' /\ tree'[z] = tree[z]
  <2>1. PICK z : z = <<DirIn(tree, Upto(p, i - 1)), p[i], <<>> >>
    OBVIOUS
  <2>2. z \in DOMAIN tree /\ tree[z].type # "file" /\ z[3] = <<>>
    BY <2>1 DEF LeadsIn, Leading
  <2>3. \A k \in Kinds : z # Marker(x, k)
    BY <1>1, <2>2, MarkerIs
  <2>4. CASE i <= Len(r)
    <3>1. i \in 1..Len(r) /\ i - 1 \in 0..Len(r) /\ i - 1 \in 0..Len(p)
      BY <1>2, <2>4, UptoFacts
    <3>2. Starts(r, p) /\ p[i] = r[i]
      BY <3>1 DEF LeadsIn, Starts
    <3>3. Upto(r, i - 1) = Upto(p, i - 1)
      <4>1. PICK q : q = Upto(r, i - 1)
        OBVIOUS
      <4>2. q \in Paths /\ Len(q) = i - 1 /\ Starts(q, r)
        BY <3>1, <4>1, UptoFacts
      <4>3. Starts(q, p)
        BY <3>2, <4>2, StartsTransitive
      <4> QED  BY <4>1, <4>2, <4>3, UptoFacts
    <3>4. z \in Way(r)
      <4>1. i \in DOMAIN r
        BY <3>1, LenProperties DEF Paths
      <4>2. z = <<DirOf(SubSeq(r, 1, i - 1)), r[i], <<>> >>
        BY <2>1, <3>2, <3>3, DirOfIs DEF Upto
      <4> QED  BY <4>1, <4>2 DEF Way
    <3> QED  BY <1>1, <2>1, <2>2, <2>3, <3>4
  <2>5. CASE i > Len(r)
    <3>1. tree[z].type = "dir"
      BY <2>1, <2>5 DEF LeadsIn
    <3>2. PICK d : d = DirIn(tree, Upto(p, i)) /\ d = tree[z].at
      <4>1. i - 1 \in 0..Len(p)
        BY <1>2
      <4>2. PICK q, b : q = Upto(p, i - 1) /\ b = p[i]
        OBVIOUS
      <4>3. q \in Paths /\ b \in Bases /\ Upto(p, i) = Append(q, b)
        BY <4>2, UptoNext
      <4>4. Leading(tree, DirIn(tree, q), b) /\ z = <<DirIn(tree, q), b, <<>> >>
        BY <2>1, <2>2, <4>2 DEF Leading
      <4> QED  BY <4>3, <4>4, DirSteps
    <3>3. \E u \in DOMAIN tree : u[1] = d /\ u[3] = <<>>
      <4>1. CASE i = Len(p)
        BY <1>2, <3>2, <4>1 DEF LeadsIn
      <4>2. CASE i # Len(p)
        <5>1. i + 1 \in 1..Len(p) /\ (i + 1) - 1 = i
          BY <1>2, <4>2
        <5>2. PICK u : u = <<DirIn(tree, Upto(p, (i + 1) - 1)), p[i + 1], <<>> >>
          OBVIOUS
        <5>3. u \in DOMAIN tree
          BY <5>1, <5>2 DEF LeadsIn, Leading
        <5> QED  BY <3>2, <5>1, <5>2, <5>3
      <4> QED  BY <4>1, <4>2
    <3>4. z # x
      BY <1>1, <2>2, <3>1, <3>2, <3>3
    <3> QED  BY <1>1, <2>1, <2>2, <2>3, <3>4
  <2>6. i \in Int /\ Len(r) \in Int
    BY UptoFacts
  <2> QED  BY <2>4, <2>5, <2>6
<1>4. LeadsIn(tree', r, p, y[1])
  <2>1. PICK ts : ts = tree'
    OBVIOUS
  <2>2. LeadsIn(ts, r, p, y[1])
    BY <1>3, <2>1, LeadsStill
  <2> QED  BY <2>1, <2>2
<1>5. ASSUME NEW z, z = y \/ \E k \in Kinds : z = Marker(y, k)
      PROVE  /\ z \in DOMAIN tree' <=> z \in DOMAIN tree
             /\ z \in DOMAIN tree => tree'[z] = tree[z]
  <2>1. z # x /\ z[1] = y[1] /\ \A k \in Kinds : z # Marker(x, k)
    <3>1. y = <<y[1], y[2], <<>> >> /\ x = <<x[1], x[2], <<>> >>
      BY TreeFacts, PlainNamesFacts
    <3>2. CASE z = y
      BY <1>1, <3>2, MarkerIs
    <3>3. ASSUME NEW k \in Kinds, z = Marker(y, k)
          PROVE  z # x /\ z[1] = y[1] /\ \A j \in Kinds : z # Marker(x, j)
      <4>1. z = <<y[1], y[2], <<k>> >> /\ z[3] # <<>>
        BY <3>3, MarkerIs
      <4>2. \A j \in Kinds : Marker(x, j) = <<x[1], x[2], <<j>> >>
        BY <1>1, MarkerIs
      <4> QED  BY <1>1, <3>1, <4>1, <4>2
    <3> QED  BY <1>5, <3>2, <3>3
  <2> QED  BY <1>1, <2>1
<1> QED  BY <1>4, <1>5

-----------------------------------------------------------------------------
(* How a walk moves what is ahead *)

\* Taking the next directory from the stack changes nothing but that this
\* directory itself is there.
LEMMA NextAhead ==
    ASSUME TypeOK, NEW t \in Threads, stack[t] # <<>>, todo[t] = {},
           NEW q, q = Last(stack[t]),
           stack' = [stack EXCEPT ![t] = Front(@)],
           cur' = [cur EXCEPT ![t] = q],
           todo' = [todo EXCEPT ![t] = ToVisit(DirOf(q))],
           NEW p \in Paths, DirOf(p) # NoDir
    PROVE  /\ Ahead(t, p) <=> Ahead(t, p)' \/ p = q
           /\ \A b : Exists(<<DirOf(p), b, <<>> >>) => (Pending(t, p, b) <=> Pending(t, p, b)')
<1>1. PICK s, f : s = stack[t] /\ f = Front(s)
  OBVIOUS
<1>2. /\ s \in Seq(Paths) /\ s # <<>> /\ stack'[t] = f /\ cur'[t] = q /\ todo'[t] = ToVisit(DirOf(q))
  BY <1>1 DEF TypeOK, Paths
<1>3. /\ Len(s) \in Nat /\ Len(s) >= 1 /\ q = s[Len(s)] /\ q \in Paths
      /\ f \in Seq(Paths) /\ Len(f) = Len(s) - 1
      /\ \A i \in 1..(Len(s) - 1) : f[i] = s[i]
  BY <1>1, <1>2, FrontAndLast
<1>4. Ahead(t, p) <=> \E i \in 1..Len(s) : Starts(s[i], p)
  BY <1>1 DEF Ahead
<1>5. Ahead(t, p)' <=> \/ \E i \in 1..Len(f) : Starts(f[i], p)
                       \/ \E e \in ToVisit(DirOf(q)) : Starts(Append(q, e[1]), p)
  BY <1>2 DEF Ahead
<1>6. ASSUME Starts(q, p), q # p
      PROVE  \E e \in ToVisit(DirOf(q)) : Starts(Append(q, e[1]), p)
  <2>1. PICK n, b : n = Len(q) + 1 /\ b = p[n]
    OBVIOUS
  <2>2. n \in 1..Len(p) /\ b \in Bases /\ Starts(Append(q, b), p)
    BY <1>3, <1>6, <2>1, StartsNext
  <2>3. n - 1 = Len(q) /\ Upto(p, Len(q)) = q
    BY <1>3, <1>6, <2>1, UptoFacts
  <2>4. Leading(tree, DirOf(q), b)
    BY <2>1, <2>2, <2>3, NamesOnTheWay
  <2>5. <<b, <<>> >> \in ToVisit(DirOf(q))
    BY <2>4, ToVisitIs DEF Leading
  <2> QED  BY <2>2, <2>5
<1>7. ASSUME NEW e \in ToVisit(DirOf(q)), Starts(Append(q, e[1]), p)
      PROVE  Starts(q, p)
  <2>1. e[1] \in Bases
    BY ToVisitIs
  <2> QED  BY <1>3, <1>7, <2>1, StartsFacts
<1>8. Starts(p, p)
  BY UptoFacts DEF Starts
<1>9. Ahead(t, p) <=> Ahead(t, p)' \/ p = q
  <2>1. ASSUME Ahead(t, p)
        PROVE  Ahead(t, p)' \/ p = q
    <3>1. PICK i \in 1..Len(s) : Starts(s[i], p)
      BY <1>4, <2>1
    <3>2. CASE i = Len(s)
      BY <1>3, <1>5, <1>6, <3>1, <3>2
    <3>3. CASE i # Len(s)
      <4>1. i \in 1..Len(f) /\ f[i] = s[i]
        BY <1>3, <3>3
      <4> QED  BY <1>5, <3>1, <4>1
    <3> QED  BY <3>2, <3>3
  <2>2. ASSUME Ahead(t, p)' \/ p = q
        PROVE  Ahead(t, p)
    <3>1. Len(s) \in 1..Len(s)
      BY <1>3
    <3>2. CASE Starts(q, p)
      BY <1>3, <1>4, <3>1, <3>2
    <3>3. CASE \E i \in 1..Len(f) : Starts(f[i], p)
      <4>1. PICK i \in 1..Len(f) : Starts(f[i], p)
        BY <3>3
      <4>2. i \in 1..Len(s) /\ s[i] = f[i]
        BY <1>3
      <4> QED  BY <1>4, <4>1, <4>2
    <3> QED  BY <1>5, <1>7, <1>8, <2>2, <3>2, <3>3
  <2> QED  BY <2>1, <2>2
<1>10. ASSUME NEW b, Exists(<<DirOf(p), b, <<>> >>)
       PROVE  Pending(t, p, b) <=> Pending(t, p, b)'
  <2>1. Pending(t, p, b) <=> Ahead(t, p)
    BY DEF Pending
  <2>2. Pending(t, p, b)' <=> Ahead(t, p)' \/ (p = q /\ <<b, <<>> >> \in ToVisit(DirOf(q)))
    BY <1>2 DEF Pending
  <2>3. p = q => <<b, <<>> >> \in ToVisit(DirOf(q))
    BY <1>10, ToVisitIs DEF Exists
  <2> QED  BY <1>9, <2>1, <2>2, <2>3
<1> QED  BY <1>9, <1>10

\* A visit takes one entry from those ahead; if it is a directory, it goes on
\* the stack instead.
LEMMA VisitAhead ==
    ASSUME TypeOK, NEW t \in Threads, NEW e, NEW pp, NEW d, NEW x, NEW w,
           Visits(t, e, pp, d, x, w), cur' = cur,
           Descends(t, e, pp) \/ Works(t, e, pp, x, w),
           NEW p \in Paths, DirOf(p) # NoDir
    PROVE  /\ Ahead(t, p) <=> Ahead(t, p)'
           /\ \A b : Pending(t, p, b)' => Pending(t, p, b)
           /\ \A b : Pending(t, p, b) => \/ Pending(t, p, b)'
                                         \/ p = cur[t] /\ e = <<b, <<>> >>
<1>1. PICK s, c : s = stack[t] /\ c = cur[t]
  OBVIOUS
<1>2. /\ s \in Seq(Paths) /\ c \in Paths /\ pp = Append(c, e[1]) /\ pp \in Paths
      /\ e \in todo[t] /\ todo'[t] = todo[t] \ {e} /\ cur'[t] = c
      /\ \A f \in todo[t] : f = <<f[1], <<>> >> /\ f[1] \in Bases
  BY <1>1 DEF TypeOK, Paths, Visits, Descends, Works
<1>3. Ahead(t, p) <=> \/ \E i \in 1..Len(s) : Starts(s[i], p)
                      \/ \E f \in todo[t] : Starts(Append(c, f[1]), p)
  BY <1>1 DEF Ahead
<1>4. Ahead(t, p)' <=> \/ \E i \in 1..Len(stack'[t]) : Starts(stack'[t][i], p)
                       \/ \E f \in todo[t] \ {e} : Starts(Append(c, f[1]), p)
  BY <1>2 DEF Ahead
<1>5. CASE Descends(t, e, pp)
  <2>1. PICK u : u = Append(s, pp)
    OBVIOUS
  <2>2. stack'[t] = u
    BY <1>1, <1>5, <2>1 DEF Descends, TypeOK
  <2>3. /\ Len(s) \in Nat /\ Len(u) = Len(s) + 1 /\ u[Len(s) + 1] = pp
        /\ \A i \in 1..Len(s) : u[i] = s[i]
    BY <1>2, <2>1, AppendProperties, LenProperties
  <2>4. (\E i \in 1..Len(u) : Starts(u[i], p)) <=> (\E i \in 1..Len(s) : Starts(s[i], p)) \/ Starts(pp, p)
    <3>1. ASSUME NEW i \in 1..Len(u), Starts(u[i], p)
          PROVE  (\E j \in 1..Len(s) : Starts(s[j], p)) \/ Starts(pp, p)
      <4>1. i = Len(s) + 1 \/ i \in 1..Len(s)
        BY <2>3
      <4> QED  BY <2>3, <3>1, <4>1
    <3>2. ASSUME NEW i \in 1..Len(s), Starts(s[i], p)
          PROVE  \E j \in 1..Len(u) : Starts(u[j], p)
      <4>1. i \in 1..Len(u)
        BY <2>3
      <4> QED  BY <2>3, <3>2, <4>1
    <3>3. ASSUME Starts(pp, p)
          PROVE  \E j \in 1..Len(u) : Starts(u[j], p)
      <4>1. Len(s) + 1 \in 1..Len(u)
        BY <2>3
      <4> QED  BY <2>3, <3>3, <4>1
    <3> QED  BY <3>1, <3>2, <3>3
  <2> QED  BY <1>2, <1>3, <1>4, <2>2, <2>4 DEF Pending
<1>6. CASE Works(t, e, pp, x, w)
  <2>1. stack'[t] = s /\ DirOf(pp) = NoDir
    BY <1>1, <1>6 DEF Works
  <2>2. ~Starts(pp, p)
    <3> SUFFICES ASSUME Starts(pp, p)
                 PROVE  FALSE
      OBVIOUS
    <3>1. Len(pp) \in 1..Len(p) /\ Upto(p, Len(pp)) = pp
      <4>1. Len(pp) = Len(c) + 1 /\ Len(c) \in Nat /\ Len(p) \in Nat
        BY <1>2, AppendPath, UptoFacts
      <4>2. Len(pp) <= Len(p)
        BY DEF Starts
      <4>3. Upto(p, Len(pp)) = pp
        BY <1>2, UptoFacts
      <4> QED  BY <1>2, <4>1, <4>2, <4>3, AppendPath
    <3> QED  BY <2>1, <3>1, NamesOnTheWay
  <2> QED  BY <1>2, <1>3, <1>4, <2>1, <2>2 DEF Pending
<1> QED  BY <1>5, <1>6

\* Descending loses no file that is to be visited.
LEMMA DescendsKeepsFiles ==
    ASSUME TypeOK, NEW t \in Threads, NEW e, NEW pp, NEW d, NEW x, NEW w,
           Visits(t, e, pp, d, x, w), cur' = cur, Descends(t, e, pp),
           NEW p \in Paths, DirOf(p) # NoDir, NEW b, IsFile(<<DirOf(p), b, <<>> >>)
    PROVE  Pending(t, p, b) <=> Pending(t, p, b)'
<1>1. ~(p = cur[t] /\ e = <<b, <<>> >>)
  <2> SUFFICES ASSUME p = cur[t], e = <<b, <<>> >>
               PROVE  FALSE
    OBVIOUS
  <2>1. DirOf(pp) # NoDir /\ pp = Append(p, b) /\ b \in Bases
    BY DEF Visits, Descends
  <2>2. Leading(tree, DirOf(p), b)
    BY <2>1, DirOfIs, DirSteps
  <2> QED  BY <2>2 DEF Leading, IsFile
<1> QED  BY <1>1, VisitAhead

-----------------------------------------------------------------------------
(* What a lock owes *)

\* What a visit works on is no directory and no symlink.
LEMMA WorksOnFile ==
    ASSUME TypeOK, NEW t \in Threads, NEW e, NEW pp, NEW d, NEW x, NEW w,
           Visits(t, e, pp, d, x, w), DirOf(pp) = NoDir
    PROVE  /\ x = <<x[1], x[2], <<>> >> /\ x[1] = d /\ x[2] = e[1] /\ ~Leading(tree, x[1], x[2])
<1>1. /\ x = <<x[1], x[2], <<>> >> /\ x[1] = d /\ x[2] = e[1]
  BY DEF Visits
<1>2. ASSUME Leading(tree, d, e[1])
      PROVE  FALSE
  <2>1. x \in DOMAIN tree /\ ~IsFile(x)
    BY <1>1, <1>2 DEF Leading, IsFile
  <2>2. DirOf(pp) = tree[x].at
    BY <1>1, <1>2, DirOfIs, DirSteps DEF Visits
  <2> QED  BY <2>1, <2>2, TreeFacts, DirsFacts
<1> QED  BY <1>1, <1>2

\* Locking and unlocking a file that can be locked or unlocked.
LEMMA LockIs ==
    ASSUME NEW d, d # NoDir, NEW x, x[3] = <<>>, NEW c, NEW w, w = Work("lock", d, x, c), w.ok
    PROVE  ~IsEncrypted(x) /\ LocksIn(tree, w.tree, x, Marker(x, c[1]), c[2])
<1>1. \/ w.ok = (d = NoDir)
      \/ ~IsEncrypted(x) /\ LocksIn(tree, w.tree, x, Marker(x, c[1]), c[2])
  BY WorkIs
<1> QED  BY <1>1

\* Unlocking one that can be unlocked.
LEMMA UnlockIs ==
    ASSUME NEW d, d # NoDir, NEW x, x[3] = <<>>, NEW c, NEW op, op # "lock",
           NEW w, w = Work(op, d, x, c), Opens(x, c)
    PROVE  w.ok /\ UnlocksIn(tree, w.tree, x, Marker(x, c[1]))
<1>1. w.ok = TRUE /\ UnlocksIn(tree, w.tree, x, Marker(x, c[1]))
  BY WorkIs
<1> QED  BY <1>1

\* A file that is not worked on, and its markers.
LEMMA OthersStay ==
    ASSUME TypeOK, NEW op, NEW d, NEW x, x = <<x[1], x[2], <<>> >>, NEW c,
           NEW w, w = Work(op, d, x, c),
           NEW y \in DOMAIN tree, y[3] = <<>>, y # x
    PROVE  /\ y \in DOMAIN w.tree /\ w.tree[y] = tree[y]
           /\ \A k \in Kinds : LET z == Marker(y, k) IN
                /\ z \in DOMAIN w.tree <=> z \in DOMAIN tree
                /\ z \in DOMAIN tree => w.tree[z] = tree[z]
<1>1. x[3] = <<>> /\ y = <<y[1], y[2], <<>> >>
  BY TreeFacts
<1>2. PICK m : m = Marker(x, c[1])
  OBVIOUS
<1>3. m = <<x[1], x[2], <<c[1]>> >> /\ m[3] # <<>>
  BY <1>1, <1>2, MarkerIs
<1>4. \A u : u # x /\ u # m => (u \in DOMAIN w.tree <=> u \in DOMAIN tree) /\ (u \in DOMAIN tree => w.tree[u] = tree[u])
  BY <1>1, <1>2, WorkTouches
<1>5. ASSUME NEW k \in Kinds, NEW z, z = Marker(y, k)
      PROVE  z # x /\ z # m
  <2>1. z = <<y[1], y[2], <<k>> >> /\ z[3] # <<>>
    BY <1>1, <1>5, MarkerIs
  <2> QED  BY <1>1, <1>3, <2>1
<1> QED  BY <1>1, <1>3, <1>4, <1>5

\* Working on one file spares all others.
LEMMA WorkSpares ==
    ASSUME TypeOK, NEW op, NEW d, NEW x, x = <<x[1], x[2], <<>> >>, NEW c,
           NEW w, w = Work(op, d, x, c), ~Leading(tree, x[1], x[2])
    PROVE  /\ \A r, f : \A p \in Paths : LeadsIn(tree, r, p, f) => LeadsIn(w.tree, r, p, f)
           /\ \A y \in DOMAIN tree : y[3] = <<>> /\ y # x =>
                \A z : z = y \/ (\E k \in Kinds : z = Marker(y, k)) =>
                  /\ z \in DOMAIN w.tree <=> z \in DOMAIN tree
                  /\ z \in DOMAIN tree => w.tree[z] = tree[z]
<1>1. ASSUME NEW r, NEW f, NEW p \in Paths, LeadsIn(tree, r, p, f)
      PROVE  LeadsIn(w.tree, r, p, f)
  <2>1. \A g, b : Leading(tree, g, b) =>
          <<g, b, <<>> >> \in DOMAIN w.tree /\ w.tree[<<g, b, <<>> >>] = tree[<<g, b, <<>> >>]
    BY WorkKeepsWays DEF Leading
  <2>2. \A i \in 1..Len(p) :
             LET y == <<DirIn(tree, Upto(p, i - 1)), p[i], <<>> >> IN
             y \in DOMAIN w.tree /\ w.tree[y] = tree[y]
    BY <1>1, <2>1 DEF LeadsIn
  <2>3. PICK tr, ts : tr = tree /\ ts = w.tree
    OBVIOUS
  <2>4. LeadsIn(ts, r, p, f)
    BY <1>1, <2>2, <2>3, LeadsStill
  <2> QED  BY <2>3, <2>4
<1>2. ASSUME NEW y \in DOMAIN tree, y[3] = <<>>, y # x,
             NEW z, z = y \/ \E k \in Kinds : z = Marker(y, k)
      PROVE  /\ z \in DOMAIN w.tree <=> z \in DOMAIN tree
             /\ z \in DOMAIN tree => w.tree[z] = tree[z]
  <2>1. CASE z = y
    BY <1>2, <2>1, OthersStay
  <2>2. ASSUME NEW k \in Kinds, z = Marker(y, k)
        PROVE  /\ z \in DOMAIN w.tree <=> z \in DOMAIN tree
               /\ z \in DOMAIN tree => w.tree[z] = tree[z]
    BY <1>2, <2>2, OthersStay
  <2> QED  BY <1>2, <2>1, <2>2
<1> QED  BY <1>1, <1>2

\* What is owed is owed still where the file, its marker and the way to it stay.
LEMMA OwesStill ==
    ASSUME NEW t \in Threads, NEW y, Owes(t, y), req'[t] = req[t], req[t].cred[1] \in Kinds,
           \A p \in Paths : LeadsIn(tree, req[t].path, p, y[1])
             => /\ LeadsIn(tree', req[t].path, p, y[1])
                /\ Pending(t, p, y[2]) => Pending(t, p, y[2])',
           \A z : z = y \/ (\E k \in Kinds : z = Marker(y, k)) =>
                  /\ z \in DOMAIN tree' <=> z \in DOMAIN tree
                  /\ z \in DOMAIN tree => tree'[z] = tree[z]
    PROVE  Owes(t, y)'
<1>1. PICK p \in Paths : /\ LeadsIn(tree, req[t].path, p, y[1])
                         /\ Pending(t, p, y[2]) \/ LockedBy(y, req[t].cred)
  BY DEF Owes
<1>2. /\ LeadsIn(tree', req[t].path, p, y[1])
      /\ Pending(t, p, y[2]) => Pending(t, p, y[2])'
  BY <1>1
<1>3. IsFile(y)' /\ y[3] = <<>>
  BY DEF Owes, IsFile, Exists
<1>4. LockedBy(y, req[t].cred) => LockedBy(y, req[t].cred)'
  BY DEF Owes, LockedBy, Read, Opens, IsFile, Exists
<1> QED  BY <1>1, <1>2, <1>3, <1>4 DEF Owes

\* What is owed is owed still where nothing about it changes.
LEMMA OwesFrame ==
    ASSUME NEW t \in Threads, NEW y, Owes(t, y), tree' = tree, req'[t] = req[t],
           stack'[t] = stack[t], cur'[t] = cur[t], todo'[t] = todo[t]
    PROVE  Owes(t, y)'
<1>1. \A p : Pending(t, p, y[2]) => Pending(t, p, y[2])'
  BY DEF Pending, Ahead
<1>2. LockedBy(y, req[t].cred) => LockedBy(y, req[t].cred)'
  BY DEF LockedBy, Read, Opens, IsFile, Exists
<1> QED  BY <1>1, <1>2 DEF Owes, IsFile, Exists

\* What a lock owes it has locked or comes to, whoever takes the next step.
LEMMA OwedStep ==
    ASSUME Typed, PhasesOK, OwedOK, [Next]_vars
    PROVE  OwedOK'
<1>0. /\ stack = [u \in Threads |-> stack[u]] /\ todo = [u \in Threads |-> todo[u]]
      /\ cur = [u \in Threads |-> cur[u]] /\ req = [u \in Threads |-> req[u]]
      /\ success = [u \in Threads |-> success[u]] /\ pc = [u \in Threads |-> pc[u]]
      /\ owed = [u \in Threads |-> owed[u]]
      /\ TypeOK /\ TreeOK
      /\ \A u \in Threads : pc[u] # "idle" =>
           req[u].path \in Paths /\ req[u].cred \in Creds /\ req[u].cred[1] \in Kinds
  BY RequestsFacts DEF Typed, TypeOK, OwedOK, RequestsKnown
<1>1. ASSUME owed' = [u \in Threads |-> owed'[u]],
             \A t \in Threads :
               pc'[t] # "idle" /\ req'[t].op = "lock" /\ success'[t] => \A x \in owed'[t] : Owes(t, x)'
      PROVE  OwedOK'
  BY <1>1 DEF OwedOK
<1>2. CASE UNCHANGED vars
  <2> SUFFICES ASSUME NEW t \in Threads, pc[t] # "idle", req[t].op = "lock", success[t], NEW y \in owed[t]
               PROVE  Owes(t, y)'
    BY <1>0, <1>1, <1>2 DEF vars, walkVars
  <2> QED  BY <1>2, OwesFrame DEF vars, walkVars, OwedOK
<1>3. ASSUME NEW t \in Threads, NEW r \in Requests, Begin(t, r)
      PROVE  OwedOK'
  <2>1. /\ pc' = [pc EXCEPT ![t] = "walk"] /\ req' = [req EXCEPT ![t] = r]
        /\ stack' = [stack EXCEPT ![t] = <<r.path>>]
        /\ owed' = [owed EXCEPT ![t] = IF r.op = "lock" THEN FilesBelow(DirOf(r.path)) ELSE {}]
        /\ UNCHANGED <<tree, cur, todo, success>>
        /\ DirOf(r.path) # NoDir
    BY <1>3 DEF Begin
  <2> SUFFICES ASSUME NEW u \in Threads, pc'[u] # "idle", req'[u].op = "lock", success'[u], NEW y \in owed'[u]
               PROVE  Owes(u, y)'
    BY <1>0, <1>1, <2>1
  <2>2. CASE u # t
    <3>1. Owes(u, y)
      BY <1>0, <2>1, <2>2 DEF OwedOK
    <3> QED  BY <1>0, <2>1, <2>2, <3>1, OwesFrame
  <2>3. CASE u = t
    <3>1. r.op = "lock" /\ y \in FilesBelow(DirOf(r.path)) /\ req'[t] = r
      BY <1>0, <2>1, <2>3
    <3>2. y \in DOMAIN tree /\ IsFile(y) /\ y[1] \in Below(DirOf(r.path)) /\ y[3] = <<>> /\ IsDir(y[1])
      BY <1>0, <3>1 DEF FilesBelow, TreeOK
    <3>3. r.path \in Paths
      BY RequestsFacts
    <3>4. PICK p \in Paths : LeadsIn(tree, r.path, p, y[1])
      BY <1>0, <2>1, <3>2, <3>3, BelowIsReached
    <3>5. Pending(t, p, y[2])'
      <4>1. Starts(r.path, p)
        BY <3>4 DEF LeadsIn
      <4>2. stack'[t] = <<r.path>> /\ 1 \in 1..Len(<<r.path>>) /\ <<r.path>>[1] = r.path
        BY <1>0, <2>1
      <4> QED  BY <4>1, <4>2 DEF Pending, Ahead
    <3> QED  BY <2>1, <2>3, <3>1, <3>2, <3>4, <3>5 DEF Owes, IsFile, Exists
  <2> QED  BY <2>2, <2>3
<1>4. ASSUME NEW t \in Threads, NextDirectory(t)
      PROVE  OwedOK'
  <2> DEFINE q == Last(stack[t])
  <2>1. /\ pc[t] = "walk" /\ todo[t] = {} /\ stack[t] # <<>>
        /\ stack' = [stack EXCEPT ![t] = Front(@)]
        /\ cur' = [cur EXCEPT ![t] = q]
        /\ UNCHANGED <<tree, req, owed>>
        /\ \/ /\ todo' = [todo EXCEPT ![t] = ToVisit(DirOf(q))]
              /\ UNCHANGED <<success, pc>>
           \/ /\ success' = [success EXCEPT ![t] = FALSE]
              /\ pc' = [pc EXCEPT ![t] = "return"]
              /\ todo' = todo
    BY <1>0, <1>4, NextDirectoryIs
  <2> HIDE DEF q
  <2> SUFFICES ASSUME NEW u \in Threads, pc'[u] # "idle", req'[u].op = "lock", success'[u], NEW y \in owed'[u]
               PROVE  Owes(u, y)'
    BY <1>0, <1>1, <2>1
  <2>2. CASE u # t
    <3>1. Owes(u, y)
      BY <1>0, <2>1, <2>2 DEF OwedOK
    <3> QED  BY <1>0, <2>1, <2>2, <3>1, OwesFrame
  <2>3. CASE u = t
    <3>1. todo' = [todo EXCEPT ![t] = ToVisit(DirOf(q))] /\ UNCHANGED <<success, pc>>
      BY <1>0, <2>1, <2>3
    <3>2. Owes(t, y)
      BY <1>0, <2>1, <2>3, <3>1 DEF OwedOK
    <3>3. y = <<y[1], y[2], <<>> >> /\ y \in DOMAIN tree /\ y[1] # NoDir
      BY <1>0, <3>2, TreeFacts DEF Owes, IsFile, Exists
    <3>4. ASSUME NEW p \in Paths, LeadsIn(tree, req[t].path, p, y[1])
          PROVE  Pending(t, p, y[2]) => Pending(t, p, y[2])'
      <4>1. DirOf(p) = y[1] /\ DirOf(p) # NoDir
        BY <1>0, <3>3, <3>4, LeadsSomewhere
      <4>2. Exists(<<DirOf(p), y[2], <<>> >>)
        BY <3>3, <4>1 DEF Exists
      <4> QED  BY <1>0, <2>1, <3>1, <4>1, <4>2, NextAhead DEF q
    <3>5. req'[t] = req[t] /\ req[t].cred[1] \in Kinds /\ tree' = tree
      BY <1>0, <2>1
    <3> QED  BY <2>3, <3>2, <3>4, <3>5, OwesStill
  <2> QED  BY <2>2, <2>3
<1>5. ASSUME NEW t \in Threads, Visit(t)
      PROVE  OwedOK'
  <2>1. /\ pc[t] = "walk" /\ req' = req /\ cur' = cur
        /\ \E e, p, d, x, w :
             /\ Visits(t, e, p, d, x, w)
             /\ Descends(t, e, p) \/ GivesUp(t, p) \/ Works(t, e, p, x, w)
    BY <1>0, <1>5, VisitIs
  <2>2. PICK e, pp, d, x, w :
          /\ Visits(t, e, pp, d, x, w)
          /\ Descends(t, e, pp) \/ GivesUp(t, pp) \/ Works(t, e, pp, x, w)
    BY <2>1
  <2>3. \A u \in Threads : u # t => /\ stack'[u] = stack[u] /\ todo'[u] = todo[u] /\ pc'[u] = pc[u]
                                    /\ success'[u] = success[u] /\ req'[u] = req[u] /\ cur'[u] = cur[u]
    BY <1>0, <2>1, <2>2 DEF Descends, GivesUp, Works
  <2>4. owed' = [u \in Threads |-> owed'[u]] /\ \A u \in Threads : owed'[u] \subseteq owed[u]
    BY <1>0, <2>2 DEF Descends, GivesUp, Works
  <2>5. success'[t] => success[t]
    BY <1>0, <2>2 DEF Descends, GivesUp, Works
  <2> SUFFICES ASSUME NEW u \in Threads, pc'[u] # "idle", req'[u].op = "lock", success'[u], NEW y \in owed'[u]
               PROVE  Owes(u, y)'
    BY <1>1, <2>4
  <2>6. Owes(u, y) /\ pc[u] # "idle" /\ req[u].cred[1] \in Kinds /\ req'[u] = req[u]
    BY <1>0, <2>1, <2>3, <2>4, <2>5 DEF OwedOK
  <2>7. y = <<y[1], y[2], <<>> >> /\ y \in DOMAIN tree /\ y[1] # NoDir /\ IsFile(y) /\ y[3] = <<>>
    BY <1>0, <2>6, TreeFacts DEF Owes, IsFile, Exists
  <2>8. \A p \in Paths : LeadsIn(tree, req[u].path, p, y[1]) => DirOf(p) = y[1] /\ DirOf(p) # NoDir
    BY <1>0, <2>7, LeadsSomewhere
  <2>9. CASE u # t /\ ~Works(t, e, pp, x, w)
    BY <2>2, <2>3, <2>6, <2>9, OwesFrame DEF Descends, GivesUp
  <2>10. CASE u = t /\ Descends(t, e, pp)
    <3>1. tree' = tree
      BY <2>10 DEF Descends
    <3>2. ASSUME NEW p \in Paths, LeadsIn(tree, req[t].path, p, y[1])
          PROVE  Pending(t, p, y[2]) => Pending(t, p, y[2])'
      <4>1. DirOf(p) # NoDir /\ IsFile(<<DirOf(p), y[2], <<>> >>)
        BY <2>7, <2>8, <2>10, <3>2
      <4> QED  BY <1>0, <2>1, <2>2, <2>10, <4>1, DescendsKeepsFiles
    <3> QED  BY <2>6, <2>10, <3>1, <3>2, OwesStill
  <2>11. CASE u = t /\ GivesUp(t, pp)
    BY <1>0, <2>11 DEF GivesUp
  <2>12. CASE Works(t, e, pp, x, w)
    <3>1. /\ DirOf(pp) = NoDir /\ tree' = w.tree /\ success' = [success EXCEPT ![t] = @ /\ w.ok]
          /\ owed' = [v \in Threads |-> IF v = t THEN owed[v] ELSE owed[v] \ {x}]
          /\ w = Work(req[t].op, d, x, req[t].cred)
      BY <2>2, <2>12 DEF Works, Visits
    <3>2. x = <<x[1], x[2], <<>> >> /\ x[1] = d /\ x[2] = e[1] /\ ~Leading(tree, x[1], x[2])
      BY <1>0, <2>2, <3>1, WorksOnFile
    <3>3. \A r, f : \A p \in Paths : LeadsIn(tree, r, p, f) => LeadsIn(tree', r, p, f)
      BY <1>0, <3>1, <3>2, WorkSpares
    <3>4. y # x => \A z : z = y \/ (\E k \in Kinds : z = Marker(y, k)) =>
                  /\ z \in DOMAIN tree' <=> z \in DOMAIN tree
                  /\ z \in DOMAIN tree => tree'[z] = tree[z]
      <4>1. PICK op, c : op = req[t].op /\ c = req[t].cred
        OBVIOUS
      <4>2. w = Work(op, d, x, c)
        BY <3>1, <4>1
      <4>3. TypeOK
        BY <1>0
      <4>4. ASSUME y # x, NEW z, z = y \/ (\E k \in Kinds : z = Marker(y, k))
            PROVE  /\ z \in DOMAIN w.tree <=> z \in DOMAIN tree
                   /\ z \in DOMAIN tree => w.tree[z] = tree[z]
        BY <2>7, <3>2, <4>2, <4>3, <4>4, WorkSpares
      <4> QED  BY <3>1, <4>4
    <3>5. CASE u # t
      <4>1. y # x
        BY <3>1, <3>5
      <4>2. \A p : Pending(u, p, y[2]) => Pending(u, p, y[2])'
        BY <2>3, <3>5 DEF Pending, Ahead
      <4> QED  BY <2>6, <3>3, <3>4, <4>1, <4>2, OwesStill
    <3>6. CASE u = t /\ y # x
      <4>1. ASSUME NEW p \in Paths, LeadsIn(tree, req[t].path, p, y[1]), Pending(t, p, y[2])
            PROVE  Pending(t, p, y[2])'
        <5>1. DirOf(p) = y[1] /\ DirOf(p) # NoDir
          BY <2>8, <3>6, <4>1
        <5>2. ~(p = cur[t] /\ e = <<y[2], <<>> >>)
          BY <2>2, <2>7, <3>2, <3>6, <5>1 DEF Visits
        <5> QED  BY <1>0, <2>1, <2>2, <2>12, <4>1, <5>1, <5>2, VisitAhead
      <4> QED  BY <2>6, <3>3, <3>4, <3>6, <4>1, OwesStill
    <3>7. CASE u = t /\ y = x
      <4>1. PICK m, c : m = Marker(x, c[1]) /\ c = req[t].cred
        OBVIOUS
      <4>2. w.ok /\ req[t].op = "lock" /\ d # NoDir /\ x[3] = <<>>
        BY <1>0, <2>1, <2>7, <3>1, <3>2, <3>7
      <4>3. LocksIn(tree, w.tree, x, m, c[2])
        BY <3>1, <4>1, <4>2, LockIs
      <4>4. m # x
        BY <4>1, <4>2, MarkerIs
      <4>5. /\ x \in DOMAIN tree' /\ tree'[x] = File(Of(Placeholder))
            /\ m \in DOMAIN tree' /\ \E v : tree'[m] = File(Sealed(v, c[2]))
        BY <3>1, <4>3 DEF LocksIn
      <4>6. LockedBy(x, c)' /\ IsFile(x)'
        BY <4>1, <4>5, FileIs DEF LockedBy, Read, Opens, IsFile, Exists
      <4> QED  BY <2>6, <3>3, <3>7, <4>1, <4>2, <4>6 DEF Owes
    <3> QED  BY <3>5, <3>6, <3>7
  <2> QED  BY <2>2, <2>9, <2>10, <2>11, <2>12
<1>6. ASSUME NEW t \in Threads, Finish(t)
      PROVE  OwedOK'
  <2>1. /\ pc[t] = "walk" /\ pc' = [pc EXCEPT ![t] = "return"]
        /\ UNCHANGED <<tree, req, stack, cur, todo, success, owed>>
    BY <1>6 DEF Finish
  <2> SUFFICES ASSUME NEW u \in Threads, pc'[u] # "idle", req'[u].op = "lock", success'[u], NEW y \in owed'[u]
               PROVE  Owes(u, y)'
    BY <1>0, <1>1, <2>1
  <2>2. Owes(u, y)
    BY <1>0, <2>1 DEF OwedOK
  <2> QED  BY <2>1, <2>2, OwesFrame
<1>7. ASSUME NEW t \in Threads, Return(t)
      PROVE  OwedOK'
  <2>1. /\ pc' = [pc EXCEPT ![t] = "idle"] /\ req' = [req EXCEPT ![t] = NoRequest]
        /\ stack' = [stack EXCEPT ![t] = <<>>] /\ cur' = [cur EXCEPT ![t] = <<>>]
        /\ success' = [success EXCEPT ![t] = TRUE] /\ owed' = [owed EXCEPT ![t] = {}]
        /\ UNCHANGED <<tree, todo>>
    BY <1>7 DEF Return
  <2> SUFFICES ASSUME NEW u \in Threads, pc'[u] # "idle", req'[u].op = "lock", success'[u], NEW y \in owed'[u]
               PROVE  Owes(u, y)'
    BY <1>0, <1>1, <2>1
  <2>2. u # t
    BY <1>0, <2>1
  <2>3. Owes(u, y)
    BY <1>0, <2>1, <2>2 DEF OwedOK
  <2> QED  BY <1>0, <2>1, <2>2, <2>3, OwesFrame
<1>8. ASSUME NEW x \in PlainNames, Change(x)
      PROVE  OwedOK'
  <2>1. /\ UNCHANGED <<req, stack, cur, todo, success, pc>>
        /\ owed' = [t \in Threads |-> IF owed[t] # {} /\ x \in Way(req[t].path) THEN {}
                                       ELSE owed[t] \ {x}]
    BY <1>8 DEF Change, walkVars
  <2> SUFFICES ASSUME NEW u \in Threads, pc'[u] # "idle", req'[u].op = "lock", success'[u], NEW y \in owed'[u]
               PROVE  Owes(u, y)'
    BY <1>0, <1>1, <2>1
  <2>2. y \in owed[u] /\ y # x /\ x \notin Way(req[u].path)
    BY <2>1
  <2>3. Owes(u, y) /\ req[u].cred[1] \in Kinds /\ req[u].path \in Paths /\ req'[u] = req[u]
    BY <1>0, <2>1, <2>2 DEF OwedOK
  <2>4. y \in DOMAIN tree /\ y[3] = <<>>
    BY <2>3 DEF Owes, IsFile, Exists
  <2>5. \A p : Pending(u, p, y[2]) => Pending(u, p, y[2])'
    BY <2>1 DEF Pending, Ahead
  <2>6. \A p \in Paths : LeadsIn(tree, req[u].path, p, y[1]) => LeadsIn(tree', req[u].path, p, y[1])
    BY <1>0, <1>8, <2>2, <2>3, <2>4, ChangeSpares
  <2>7. \A z : z = y \/ (\E k \in Kinds : z = Marker(y, k)) =>
                  /\ z \in DOMAIN tree' <=> z \in DOMAIN tree
                  /\ z \in DOMAIN tree => tree'[z] = tree[z]
    <3>1. PICK p \in Paths : LeadsIn(tree, req[u].path, p, y[1])
      BY <2>3 DEF Owes
    <3> QED  BY <1>0, <1>8, <2>2, <2>3, <2>4, <3>1, ChangeSpares
  <2> QED  BY <2>3, <2>5, <2>6, <2>7, OwesStill
<1> QED  BY <1>2, <1>3, <1>4, <1>5, <1>6, <1>7, <1>8 DEF Next, Walk

-----------------------------------------------------------------------------
(* What is on the stack *)

\* What is still to be visited has one path on the stack, or one name among the
\* entries of the current directory, in front of it.
StackOK(t) ==
    /\ \A i \in 1..Len(stack[t]) :
         /\ Starts(req[t].path, stack[t][i])
         /\ \A j \in 1..Len(stack[t]) : Starts(stack[t][i], stack[t][j]) => i = j
    /\ todo[t] # {} =>
         /\ Starts(req[t].path, cur[t])
         /\ \A i \in 1..Len(stack[t]) :
              /\ ~Starts(stack[t][i], cur[t])
              /\ \A e \in todo[t] : ~Starts(Append(cur[t], e[1]), stack[t][i])

StacksOK == \A t \in Threads : pc[t] # "idle" => StackOK(t)

\* A path does not start with more than itself.
LEMMA StartsLonger ==
    ASSUME NEW p \in Paths, NEW b \in Bases, NEW c \in Bases
    PROVE  /\ ~Starts(Append(p, b), p)
           /\ Starts(Append(p, b), Append(p, c)) => b = c
<1>1. PICK u, v : u = Append(p, b) /\ v = Append(p, c)
  OBVIOUS
<1>2. /\ Len(p) \in Nat /\ Len(u) = Len(p) + 1 /\ Len(v) = Len(p) + 1
      /\ u[Len(p) + 1] = b /\ v[Len(p) + 1] = c
  BY <1>1, AppendPath
<1> QED  BY <1>1, <1>2 DEF Starts

\* Taking the top of the stack.
LEMMA StackTakes ==
    ASSUME TypeOK, NEW t \in Threads, StackOK(t), stack[t] # <<>>, todo[t] = {},
           NEW q, q = Last(stack[t]), req'[t] = req[t],
           stack' = [stack EXCEPT ![t] = Front(@)],
           cur' = [cur EXCEPT ![t] = q],
           todo'[t] = {} \/ todo'[t] = ToVisit(DirOf(q))
    PROVE  StackOK(t)'
<1>1. PICK s, f, r : s = stack[t] /\ f = Front(s) /\ r = req[t].path
  OBVIOUS
<1>2. /\ s \in Seq(Paths) /\ s # <<>> /\ stack'[t] = f /\ cur'[t] = q /\ req'[t].path = r
      /\ \A e \in todo'[t] : e[1] \in Bases
  BY <1>1, ToVisitIs DEF TypeOK, Paths
<1>3. /\ Len(s) \in Nat /\ Len(s) >= 1 /\ q = s[Len(s)] /\ q \in Paths
      /\ f \in Seq(Paths) /\ Len(f) = Len(s) - 1
      /\ \A i \in 1..(Len(s) - 1) : f[i] = s[i]
  BY <1>1, <1>2, FrontAndLast
<1>4. \A i \in 1..Len(s) : /\ Starts(r, s[i]) /\ s[i] \in Paths
                           /\ \A j \in 1..Len(s) : Starts(s[i], s[j]) => i = j
  BY <1>1, <1>2, ElementOfSeq DEF StackOK
<1>5. \A i \in 1..Len(f) : f[i] = s[i] /\ i \in 1..Len(s) /\ i # Len(s)
  BY <1>3
<1>6. Len(s) \in 1..Len(s)
  BY <1>3
<1>7. ASSUME NEW i \in 1..Len(f)
      PROVE  /\ Starts(r, f[i])
             /\ \A j \in 1..Len(f) : Starts(f[i], f[j]) => i = j
             /\ ~Starts(f[i], q)
             /\ \A e \in todo'[t] : ~Starts(Append(q, e[1]), f[i])
  <2>1. ~Starts(q, f[i])
    BY <1>3, <1>4, <1>5, <1>6
  <2>2. ASSUME NEW e \in todo'[t], Starts(Append(q, e[1]), f[i])
        PROVE  FALSE
    BY <1>2, <1>3, <1>4, <1>5, <2>1, <2>2, StartsFacts
  <2> QED  BY <1>3, <1>4, <1>5, <1>6, <2>2
<1>8. Starts(r, q)
  BY <1>3, <1>4, <1>6
<1> QED  BY <1>2, <1>7, <1>8 DEF StackOK

\* Putting a directory on the stack.
LEMMA StackGrows ==
    ASSUME TypeOK, NEW t \in Threads, StackOK(t), NEW e, NEW pp, NEW d, NEW x, NEW w,
           Visits(t, e, pp, d, x, w), Descends(t, e, pp), cur' = cur, req' = req, req[t].path \in Paths
    PROVE  StackOK(t)'
<1>1. PICK s, u, c, r : s = stack[t] /\ u = Append(s, pp) /\ c = cur[t] /\ r = req[t].path
  OBVIOUS
<1>2. /\ s \in Seq(Paths) /\ c \in Paths /\ pp = Append(c, e[1]) /\ pp \in Paths
      /\ stack'[t] = u /\ cur'[t] = c /\ req'[t].path = r /\ r \in Paths
      /\ e \in todo[t] /\ todo'[t] = todo[t] \ {e} /\ todo[t] # {}
      /\ \A f \in todo[t] : f = <<f[1], <<>> >> /\ f[1] \in Bases
  BY <1>1 DEF TypeOK, Paths, Visits, Descends
<1>3. /\ Len(s) \in Nat /\ Len(u) = Len(s) + 1 /\ u[Len(s) + 1] = pp
      /\ \A i \in 1..Len(s) : u[i] = s[i] /\ s[i] \in Paths
  BY <1>1, <1>2, AppendProperties, LenProperties, ElementOfSeq
<1>4. /\ \A i \in 1..Len(s) : /\ Starts(r, s[i])
                              /\ \A j \in 1..Len(s) : Starts(s[i], s[j]) => i = j
      /\ Starts(r, c)
      /\ \A i \in 1..Len(s) : ~Starts(s[i], c) /\ \A f \in todo[t] : ~Starts(Append(c, f[1]), s[i])
  BY <1>1, <1>2 DEF StackOK
<1>5. \A i \in 1..Len(u) : i = Len(s) + 1 \/ i \in 1..Len(s)
  BY <1>3
<1>6. Starts(r, pp) /\ Starts(pp, pp) /\ ~Starts(pp, c)
  BY <1>2, <1>4, StartsFacts
<1>7. \A i \in 1..Len(s) : ~Starts(s[i], pp) /\ ~Starts(pp, s[i])
  <2> SUFFICES ASSUME NEW i \in 1..Len(s)
               PROVE  ~Starts(s[i], pp) /\ ~Starts(pp, s[i])
    OBVIOUS
  <2>1. ~Starts(pp, s[i])
    BY <1>2, <1>4
  <2>2. ~Starts(s[i], pp)
    <3>1. Starts(s[i], pp) => Starts(s[i], c) \/ s[i] = pp
      BY <1>2, <1>3, StartsFacts
    <3> QED  BY <1>4, <1>6, <2>1, <3>1
  <2> QED  BY <2>1, <2>2
<1>8. \A f \in todo[t] \ {e} : ~Starts(Append(c, f[1]), pp)
  <2> SUFFICES ASSUME NEW f \in todo[t], f # e, Starts(Append(c, f[1]), pp)
               PROVE  FALSE
    OBVIOUS
  <2>1. f[1] = e[1]
    BY <1>2, StartsLonger
  <2> QED  BY <1>2, <2>1
<1>9. ASSUME NEW i \in 1..Len(u)
      PROVE  /\ Starts(r, u[i])
             /\ \A j \in 1..Len(u) : Starts(u[i], u[j]) => i = j
             /\ ~Starts(u[i], c)
             /\ \A f \in todo[t] \ {e} : ~Starts(Append(c, f[1]), u[i])
  <2>1. CASE i = Len(s) + 1
    BY <1>3, <1>5, <1>6, <1>7, <1>8, <2>1
  <2>2. CASE i \in 1..Len(s)
    BY <1>3, <1>4, <1>5, <1>7, <2>2
  <2> QED  BY <1>5, <2>1, <2>2
<1> QED  BY <1>2, <1>4, <1>9 DEF StackOK

\* Visiting fewer entries.
LEMMA StackStays ==
    ASSUME NEW t, StackOK(t), req'[t] = req[t], stack'[t] = stack[t], cur'[t] = cur[t],
           todo'[t] \subseteq todo[t]
    PROVE  StackOK(t)'
  BY DEF StackOK

\* Every step keeps what is to be visited apart.
LEMMA StacksStep ==
    ASSUME Typed, PhasesOK, StacksOK, [Next]_vars
    PROVE  StacksOK'
<1>0. /\ stack = [u \in Threads |-> stack[u]] /\ todo = [u \in Threads |-> todo[u]]
      /\ cur = [u \in Threads |-> cur[u]] /\ req = [u \in Threads |-> req[u]]
      /\ pc = [u \in Threads |-> pc[u]]
      /\ TypeOK
      /\ \A u \in Threads : pc[u] # "idle" => req[u].path \in Paths
  BY RequestsFacts DEF Typed, TypeOK, RequestsKnown
<1>1. CASE UNCHANGED vars
  BY <1>1, StackStays DEF StacksOK, vars, walkVars
<1>2. ASSUME NEW t \in Threads, NEW r \in Requests, Begin(t, r)
      PROVE  StacksOK'
  <2>1. /\ pc[t] = "idle" /\ pc' = [pc EXCEPT ![t] = "walk"] /\ req' = [req EXCEPT ![t] = r]
        /\ stack' = [stack EXCEPT ![t] = <<r.path>>] /\ UNCHANGED <<cur, todo>>
    BY <1>2 DEF Begin
  <2>2. StackOK(t)'
    <3>1. stack'[t] = <<r.path>> /\ req'[t] = r /\ todo'[t] = {}
      BY <1>0, <2>1 DEF PhasesOK
    <3>2. PICK s : s = <<r.path>>
      OBVIOUS
    <3>3. Len(s) = 1 /\ s[1] = r.path /\ \A i \in 1..Len(s) : i = 1
      BY <3>2
    <3>4. Starts(r.path, r.path)
      BY RequestsFacts, UptoFacts DEF Starts
    <3> QED  BY <3>1, <3>2, <3>3, <3>4 DEF StackOK
  <2>3. ASSUME NEW u \in Threads, u # t, pc'[u] # "idle"
        PROVE  StackOK(u)'
    BY <1>0, <2>1, <2>3, StackStays DEF StacksOK
  <2> QED  BY <2>2, <2>3 DEF StacksOK
<1>3. ASSUME NEW t \in Threads, NextDirectory(t)
      PROVE  StacksOK'
  <2> DEFINE q == Last(stack[t])
  <2>1. /\ pc[t] = "walk" /\ todo[t] = {} /\ stack[t] # <<>>
        /\ stack' = [stack EXCEPT ![t] = Front(@)]
        /\ cur' = [cur EXCEPT ![t] = q]
        /\ UNCHANGED req
        /\ \/ /\ todo' = [todo EXCEPT ![t] = ToVisit(DirOf(q))]
              /\ UNCHANGED <<pc>>
           \/ /\ pc' = [pc EXCEPT ![t] = "return"]
              /\ todo' = todo
    BY <1>0, <1>3, NextDirectoryIs
  <2> HIDE DEF q
  <2>2. StackOK(t)'
    <3>1. todo'[t] = {} \/ todo'[t] = ToVisit(DirOf(q))
      BY <1>0, <2>1
    <3>2. req'[t] = req[t] /\ StackOK(t)
      BY <2>1 DEF StacksOK
    <3> QED  BY <1>0, <2>1, <3>1, <3>2, StackTakes DEF q
  <2>3. ASSUME NEW u \in Threads, u # t, pc'[u] # "idle"
        PROVE  StackOK(u)'
    BY <1>0, <2>1, <2>3, StackStays DEF StacksOK
  <2> QED  BY <2>2, <2>3 DEF StacksOK
<1>4. ASSUME NEW t \in Threads, Visit(t)
      PROVE  StacksOK'
  <2>1. /\ pc[t] = "walk" /\ req' = req /\ cur' = cur
    BY <1>4 DEF Visit
  <2>2. PICK e, pp, d, x, w :
          /\ Visits(t, e, pp, d, x, w)
          /\ Descends(t, e, pp) \/ GivesUp(t, pp) \/ Works(t, e, pp, x, w)
    BY <1>0, <1>4, VisitIs
  <2>3. \A u \in Threads : u # t => stack'[u] = stack[u] /\ todo'[u] = todo[u] /\ pc'[u] = pc[u]
    BY <1>0, <2>2 DEF Descends, GivesUp, Works
  <2>4. StackOK(t)'
    <3>1. StackOK(t) /\ req[t].path \in Paths
      BY <1>0, <2>1 DEF StacksOK
    <3>2. CASE Descends(t, e, pp)
      BY <1>0, <2>1, <2>2, <3>1, <3>2, StackGrows
    <3>3. CASE ~Descends(t, e, pp)
      <4>1. stack'[t] = stack[t] /\ todo'[t] \subseteq todo[t]
        BY <1>0, <2>2, <3>3 DEF GivesUp, Works
      <4> QED  BY <2>1, <3>1, <4>1, StackStays
    <3> QED  BY <3>2, <3>3
  <2>5. ASSUME NEW u \in Threads, u # t, pc'[u] # "idle"
        PROVE  StackOK(u)'
    BY <1>0, <2>1, <2>3, <2>5, StackStays DEF StacksOK
  <2> QED  BY <2>4, <2>5 DEF StacksOK
<1>5. ASSUME NEW t \in Threads, Finish(t)
      PROVE  StacksOK'
  <2>1. pc[t] = "walk" /\ pc' = [pc EXCEPT ![t] = "return"] /\ UNCHANGED <<req, stack, cur, todo>>
    BY <1>5 DEF Finish
  <2> QED  BY <1>0, <2>1, StackStays DEF StacksOK
<1>6. ASSUME NEW t \in Threads, Return(t)
      PROVE  StacksOK'
  <2>1. /\ pc' = [pc EXCEPT ![t] = "idle"] /\ req' = [req EXCEPT ![t] = NoRequest]
        /\ stack' = [stack EXCEPT ![t] = <<>>] /\ cur' = [cur EXCEPT ![t] = <<>>]
        /\ UNCHANGED todo
    BY <1>6 DEF Return
  <2>2. ASSUME NEW u \in Threads, pc'[u] # "idle"
        PROVE  StackOK(u)'
    BY <1>0, <2>1, <2>2, StackStays DEF StacksOK
  <2> QED  BY <2>2 DEF StacksOK
<1>7. ASSUME NEW x \in PlainNames, Change(x)
      PROVE  StacksOK'
  BY <1>7, StackStays DEF StacksOK, Change, walkVars
<1> QED  BY <1>1, <1>2, <1>3, <1>4, <1>5, <1>6, <1>7 DEF Next, Walk

-----------------------------------------------------------------------------
(* What an unlock after a lock finds *)

\* The directories and files that a walk from the recorded directory comes to.
Walked(p) == Starts(record.path, p) /\ DirIn(tree, p) # NoDir
Entry(p, b) == <<DirIn(tree, p), b, <<>> >>
HasFile(p, b) == Walked(p) /\ IsFile(Entry(p, b))
Long(p) == HopsIn(tree, p) > MaxHops

\* The content of x is behind its marker.
Kept(x) ==
    /\ Opens(x, record.cred)
    /\ x \in DOMAIN record.files =>
         tree[Marker(x, record.cred[1])].at.data = record.files[x].at.data

OnePathEach ==
    \A p, q \in Paths : \A b \in Bases :
      HasFile(p, b) /\ HasFile(q, b) /\ DirIn(tree, p) = DirIn(tree, q) => p = q

NoneLong == \A p \in Paths : Walked(p) => ~Long(p)

LockedTree ==
    /\ \A p \in Paths : \A b \in Bases : HasFile(p, b) => Kept(Entry(p, b))
    /\ OnePathEach /\ NoneLong

LockSoFar(t) ==
    /\ \A x \in DOMAIN record.files : tree[x] = record.files[x] \/ Kept(x)
    /\ \A p \in Paths : \A b \in Bases : HasFile(p, b) /\ ~Pending(t, p, b) => Kept(Entry(p, b))
    /\ \A p, q \in Paths : \A b \in Bases :
         /\ HasFile(p, b) /\ ~Pending(t, p, b)
         /\ HasFile(q, b) /\ ~Pending(t, q, b)
         /\ DirIn(tree, p) = DirIn(tree, q)
         => p = q
    /\ \A p \in Paths : Walked(p) /\ ~Ahead(t, p) => ~Long(p)

UnlockSoFar(t) ==
    /\ \A p \in Paths : \A b \in Bases : HasFile(p, b) /\ Pending(t, p, b) => Kept(Entry(p, b))
    /\ \A x \in DOMAIN record.files : \A p \in Paths :
         Walked(p) /\ DirIn(tree, p) = x[1] /\ ~Pending(t, p, x[2]) => tree[x] = record.files[x]
    /\ OnePathEach /\ NoneLong

RecordTyped == record.path \in Roots /\ record.cred \in WalkCreds /\ Walked(record.path)

FilesRecorded ==
    \A x \in DOMAIN record.files :
      /\ x = <<x[1], x[2], <<>> >> /\ x[2] \in Bases /\ IsFile(x)
      /\ record.files[x] = File(Of(record.files[x].at.data))
      /\ \E p \in Paths : Walked(p) /\ DirIn(tree, p) = x[1]

\* What worker t still has to visit is there.
StillThere(t) ==
    /\ \A i \in 1..Len(stack[t]) : DirIn(tree, stack[t][i]) # NoDir
    /\ todo[t] # {} => DirIn(tree, cur[t]) # NoDir
    /\ \A e \in todo[t] : Exists(Entry(cur[t], e[1]))

WalksAlone(t) ==
    /\ \A u \in Threads : u # t => pc[u] = "idle"
    /\ req[t].path = record.path /\ req[t].cred = record.cred
    /\ StillThere(t)
    /\ req[t].op = "lock" /\ success[t] => LockSoFar(t)
    /\ req[t].op = "unlock" => success[t] /\ UnlockSoFar(t)

RecordOK ==
    record # NoRecord =>
      /\ RecordTyped /\ FilesRecorded
      /\ (\A t \in Threads : pc[t] = "idle") => LockedTree
      /\ \A t \in Threads : pc[t] # "idle" => WalksAlone(t)

\* Nothing recorded depends on more than the tree and the record.
LEMMA RecordFrame ==
    ASSUME UNCHANGED <<tree, record>>
    PROVE  /\ RecordTyped => RecordTyped'
           /\ FilesRecorded => FilesRecorded'
           /\ LockedTree => LockedTree'
           /\ OnePathEach => OnePathEach'
           /\ NoneLong => NoneLong'
           /\ \A p : (Walked(p)' <=> Walked(p)) /\ (Long(p)' <=> Long(p))
           /\ \A p, b : Entry(p, b)' = Entry(p, b) /\ (HasFile(p, b)' <=> HasFile(p, b))
           /\ \A x : Kept(x)' <=> Kept(x)
<1>1. \A p : (Walked(p)' <=> Walked(p)) /\ (Long(p)' <=> Long(p))
  BY DEF Walked, Long
<1>2. \A p, b : Entry(p, b)' = Entry(p, b) /\ (HasFile(p, b)' <=> HasFile(p, b))
  BY DEF Walked, Entry, HasFile, IsFile, Exists
<1>3. \A x : Kept(x)' <=> Kept(x)
  BY DEF Kept, Opens, IsFile, Exists
<1>4. \A x : IsFile(x)' <=> IsFile(x)
  BY DEF IsFile, Exists
<1>5. OnePathEach => OnePathEach'
  BY <1>2 DEF OnePathEach
<1>6. NoneLong => NoneLong'
  BY <1>1 DEF NoneLong
<1>7. LockedTree => LockedTree'
  BY <1>2, <1>3, <1>5, <1>6 DEF LockedTree
<1>8. RecordTyped => RecordTyped'
  BY <1>1 DEF RecordTyped
<1>9. FilesRecorded => FilesRecorded'
  BY <1>1, <1>4 DEF FilesRecorded
<1> QED  BY <1>1, <1>2, <1>3, <1>5, <1>6, <1>7, <1>8, <1>9

\* A step that moves none of the files that are to be visited.
LEMMA SoFarStays ==
    ASSUME UNCHANGED <<tree, record>>, FilesRecorded, NEW t,
           \A p \in Paths : \A b \in Bases : HasFile(p, b) => (Pending(t, p, b) <=> Pending(t, p, b)'),
           \A p \in Paths : Walked(p) /\ Ahead(t, p) => Ahead(t, p)' \/ ~Long(p)
    PROVE  /\ LockSoFar(t) => LockSoFar(t)'
           /\ UnlockSoFar(t) => UnlockSoFar(t)'
<1>1. /\ OnePathEach => OnePathEach'
      /\ NoneLong => NoneLong'
      /\ \A p : (Walked(p)' <=> Walked(p)) /\ (Long(p)' <=> Long(p))
      /\ \A p, b : Entry(p, b)' = Entry(p, b) /\ (HasFile(p, b)' <=> HasFile(p, b))
      /\ \A x : Kept(x)' <=> Kept(x)
  BY RecordFrame
<1>2. LockSoFar(t) => LockSoFar(t)'
  <2> SUFFICES ASSUME LockSoFar(t) PROVE LockSoFar(t)'
    OBVIOUS
  <2>1. \A x \in DOMAIN record'.files : tree'[x] = record'.files[x] \/ Kept(x)'
    BY <1>1 DEF LockSoFar
  <2>2. \A p \in Paths : \A b \in Bases : HasFile(p, b)' /\ ~Pending(t, p, b)' => HasFile(p, b) /\ ~Pending(t, p, b)
    BY <1>1
  <2>3. \A p \in Paths : \A b \in Bases : HasFile(p, b)' /\ ~Pending(t, p, b)' => Kept(Entry(p, b))'
    BY <1>1, <2>2 DEF LockSoFar
  <2>4. \A p, q \in Paths : \A b \in Bases :
         /\ HasFile(p, b)' /\ ~Pending(t, p, b)'
         /\ HasFile(q, b)' /\ ~Pending(t, q, b)'
         /\ DirIn(tree', p) = DirIn(tree', q)
         => p = q
    BY <2>2 DEF LockSoFar
  <2>5. \A p \in Paths : Walked(p)' /\ ~Ahead(t, p)' => ~Long(p)'
    BY <1>1 DEF LockSoFar
  <2> QED  BY <2>1, <2>3, <2>4, <2>5 DEF LockSoFar
<1>3. UnlockSoFar(t) => UnlockSoFar(t)'
  <2> SUFFICES ASSUME UnlockSoFar(t) PROVE UnlockSoFar(t)'
    OBVIOUS
  <2>1. \A p \in Paths : \A b \in Bases : HasFile(p, b)' /\ Pending(t, p, b)' => Kept(Entry(p, b))'
    BY <1>1 DEF UnlockSoFar
  <2>2. ASSUME NEW x \in DOMAIN record.files, NEW p \in Paths,
               Walked(p), DirIn(tree, p) = x[1], ~Pending(t, p, x[2])'
        PROVE  tree[x] = record.files[x]
    <3>1. x = Entry(p, x[2]) /\ x[2] \in Bases /\ HasFile(p, x[2])
      BY <2>2 DEF FilesRecorded, Entry, HasFile
    <3> QED  BY <2>2, <3>1 DEF UnlockSoFar
  <2>3. \A x \in DOMAIN record'.files : \A p \in Paths :
         Walked(p)' /\ DirIn(tree', p) = x[1] /\ ~Pending(t, p, x[2])' => tree'[x] = record'.files[x]
    BY <1>1, <2>2
  <2> QED  BY <1>1, <2>1, <2>3 DEF UnlockSoFar
<1> QED  BY <1>2, <1>3

-----------------------------------------------------------------------------
(* Working on a file of the recorded directory *)

\* Working on one file keeps the others behind their markers.
LEMMA OthersStayKept ==
    ASSUME TypeOK, NEW op, NEW d, NEW x, x = <<x[1], x[2], <<>> >>, NEW c,
           NEW w, w = Work(op, d, x, c), tree' = w.tree, record' = record,
           record.cred[1] \in Kinds,
           NEW y \in DOMAIN tree, y[3] = <<>>, y # x
    PROVE  y \in DOMAIN tree' /\ tree'[y] = tree[y] /\ (Kept(y)' <=> Kept(y))
<1>1. /\ y \in DOMAIN tree' /\ tree'[y] = tree[y]
      /\ \A k \in Kinds : LET z == Marker(y, k) IN
             /\ z \in DOMAIN tree' <=> z \in DOMAIN tree
             /\ z \in DOMAIN tree => tree'[z] = tree[z]
  <2>1. y \in DOMAIN w.tree /\ w.tree[y] = tree[y]
    BY OthersStay
  <2>2. ASSUME NEW k \in Kinds, NEW z, z = Marker(y, k)
        PROVE  /\ z \in DOMAIN w.tree <=> z \in DOMAIN tree
               /\ z \in DOMAIN tree => w.tree[z] = tree[z]
    BY <2>2, OthersStay
  <2> QED  BY <2>1, <2>2
<1>2. PICK n : n = Marker(y, record.cred[1])
  OBVIOUS
<1>3. (n \in DOMAIN tree' <=> n \in DOMAIN tree) /\ (n \in DOMAIN tree => tree'[n] = tree[n])
  BY <1>1, <1>2
<1> QED  BY <1>1, <1>2, <1>3 DEF Kept, Opens, IsFile, Exists

\* Working on a file of a recorded directory leaves what is there as it is.
LEMMA WorkFrame ==
    ASSUME TypeOK, NEW op, NEW d, NEW x, x = <<x[1], x[2], <<>> >>, IsFile(x), NEW c,
           NEW w, w = Work(op, d, x, c), tree' = w.tree, record' = record,
           record.cred[1] \in Kinds
    PROVE  /\ \A p \in Paths : DirIn(tree', p) = DirIn(tree, p) /\ (Walked(p)' <=> Walked(p)) /\ (Long(p)' <=> Long(p))
           /\ \A p \in Paths : \A b : Entry(p, b)' = Entry(p, b) /\ (HasFile(p, b)' <=> HasFile(p, b))
           /\ \A z : z[3] = <<>> => (IsFile(z)' <=> IsFile(z))
           /\ \A z : z[3] = <<>> => (Exists(z)' <=> Exists(z))
<1>1. ~Leading(tree, x[1], x[2])
  BY DEF Leading, IsFile
<1>2. \A p \in Paths : DirIn(tree', p) = DirIn(tree, p) /\ HopsIn(tree', p) = HopsIn(tree, p)
  BY <1>1, WorkKeepsWays
<1>3. PICK m : m = Marker(x, c[1])
  OBVIOUS
<1>4. x[3] = <<>> /\ m[3] # <<>>
  BY <1>3, MarkerIs
<1>5. /\ \A y : y # x /\ y # m => (y \in DOMAIN w.tree <=> y \in DOMAIN tree) /\ (y \in DOMAIN tree => w.tree[y] = tree[y])
      /\ \A y \in {x, m} : y \in DOMAIN w.tree =>
                \/ y \in DOMAIN tree /\ w.tree[y] = tree[y]
                \/ w.tree[y].type = "file"
      /\ x \in DOMAIN tree => x \in DOMAIN w.tree
  BY <1>3, <1>4, WorkTouches
<1>6. \A z : z[3] = <<>> => (IsFile(z)' <=> IsFile(z))
  BY <1>4, <1>5 DEF IsFile, Exists
<1>7. \A z : z[3] = <<>> => (Exists(z)' <=> Exists(z))
  BY <1>4, <1>5 DEF IsFile, Exists
<1>9. \A p \in Paths : (Walked(p)' <=> Walked(p)) /\ (Long(p)' <=> Long(p))
  BY <1>2 DEF Walked, Long
<1>10. \A p \in Paths : \A b : Entry(p, b)' = Entry(p, b) /\ (HasFile(p, b)' <=> HasFile(p, b))
  <2> SUFFICES ASSUME NEW p \in Paths, NEW b
               PROVE  Entry(p, b)' = Entry(p, b) /\ (HasFile(p, b)' <=> HasFile(p, b))
    OBVIOUS
  <2>1. Entry(p, b)' = Entry(p, b) /\ Entry(p, b)[3] = <<>>
    BY <1>2 DEF Entry
  <2>2. IsFile(Entry(p, b))' <=> IsFile(Entry(p, b))
    BY <1>4, <1>5, <2>1 DEF IsFile, Exists
  <2> QED  BY <1>9, <2>1, <2>2 DEF HasFile
<1> QED  BY <1>2, <1>6, <1>7, <1>9, <1>10

\* Locking the next file.
LEMMA LockContinues ==
    ASSUME TypeOK, FilesRecorded, NEW t, LockSoFar(t), record.cred[1] \in Kinds,
           NEW d, d # NoDir, NEW x, x = <<x[1], x[2], <<>> >>, IsFile(x),
           NEW w, w = Work("lock", d, x, record.cred), w.ok, tree' = w.tree, record' = record,
           NEW q0 \in Paths, x = Entry(q0, x[2]),
           \A p \in Paths : Walked(p) => (Ahead(t, p) => Ahead(t, p)'),
           \A p \in Paths : \A b \in Bases : HasFile(p, b) /\ Pending(t, p, b) =>
             Pending(t, p, b)' \/ (p = q0 /\ b = x[2])
    PROVE  LockSoFar(t)'
<1>1. PICK m, c : c = record.cred /\ m = Marker(x, c[1])
  OBVIOUS
<1>2. ~IsEncrypted(x) /\ LocksIn(tree, w.tree, x, m, c[2]) /\ x[3] = <<>>
  BY <1>1, LockIs
<1>3. \A y : y = x => ~Kept(y)
  BY <1>2 DEF Kept, Opens, IsEncrypted, IsFile
<1>4. m # x /\ m \in DOMAIN tree' /\ tree'[m] = File(Sealed(tree[x].at.data, c[2]))
  BY <1>1, <1>2, MarkerIs DEF LocksIn, IsFile, Exists
<1>5. Kept(x)'
  <2>1. Opens(x, c)'
    BY <1>1, <1>4, FileIs DEF Opens, IsFile, Exists
  <2>2. x \in DOMAIN record.files => tree[x] = record.files[x]
    BY <1>3 DEF LockSoFar
  <2>3. tree'[m].at.data = tree[x].at.data
    BY <1>4, FileIs
  <2> QED  BY <1>1, <2>1, <2>2, <2>3 DEF Kept
<1>6. /\ \A p \in Paths : DirIn(tree', p) = DirIn(tree, p) /\ (Walked(p)' <=> Walked(p)) /\ (Long(p)' <=> Long(p))
      /\ \A p \in Paths : \A b : Entry(p, b)' = Entry(p, b) /\ (HasFile(p, b)' <=> HasFile(p, b))
      /\ \A y \in DOMAIN tree : y[3] = <<>> /\ y # x =>
            /\ y \in DOMAIN tree' /\ tree'[y] = tree[y]
            /\ Kept(y)' <=> Kept(y)
  <2>1. w = Work("lock", d, x, c)
    BY <1>1
  <2>2. \A p \in Paths : DirIn(tree', p) = DirIn(tree, p) /\ (Walked(p)' <=> Walked(p)) /\ (Long(p)' <=> Long(p))
    BY <2>1, WorkFrame
  <2>3. \A p \in Paths : \A b : Entry(p, b)' = Entry(p, b) /\ (HasFile(p, b)' <=> HasFile(p, b))
    BY <2>1, WorkFrame
  <2>4. ASSUME NEW y \in DOMAIN tree, y[3] = <<>>, y # x
        PROVE  y \in DOMAIN tree' /\ tree'[y] = tree[y] /\ (Kept(y)' <=> Kept(y))
    BY <2>1, <2>4, OthersStayKept
  <2> QED  BY <2>2, <2>3, <2>4
<1>7. ASSUME NEW y \in DOMAIN record.files
      PROVE  tree'[y] = record.files[y] \/ Kept(y)'
  <2>1. CASE y = x
    BY <1>5, <2>1
  <2>2. CASE y # x
    <3>1. y \in DOMAIN tree /\ y[3] = <<>>
      BY DEF FilesRecorded, IsFile, Exists
    <3> QED  BY <1>6, <2>2, <3>1 DEF LockSoFar
  <2> QED  BY <2>1, <2>2
<1>8. ASSUME NEW p \in Paths, NEW b \in Bases, HasFile(p, b), ~Pending(t, p, b)'
      PROVE  /\ Kept(Entry(p, b))'
             /\ Pending(t, p, b) => p = q0 /\ b = x[2]
             /\ Entry(p, b) = x => Pending(t, p, b)
  <2>1. PICK y : y = Entry(p, b)
    OBVIOUS
  <2>2. y \in DOMAIN tree /\ y[3] = <<>> /\ Entry(p, b)' = y
    BY <1>6, <1>8, <2>1 DEF HasFile, Entry, IsFile, Exists
  <2>3. Pending(t, p, b) => p = q0 /\ b = x[2]
    BY <1>8
  <2>4. ~Pending(t, p, b) => Kept(y)
    BY <1>8, <2>1 DEF LockSoFar
  <2>5. y # x => Kept(y) /\ Kept(y)'
    BY <1>6, <2>1, <2>2, <2>3, <2>4
  <2>6. Kept(y)'
    BY <1>5, <2>5
  <2> QED  BY <1>3, <2>1, <2>2, <2>3, <2>4, <2>6
<1>9. ASSUME NEW p \in Paths, NEW q \in Paths, NEW b \in Bases,
             HasFile(p, b), ~Pending(t, p, b)', HasFile(q, b), ~Pending(t, q, b)',
             DirIn(tree, p) = DirIn(tree, q)
      PROVE  p = q
  <2>1. Entry(p, b) = Entry(q, b)
    BY <1>9 DEF Entry
  <2>2. CASE Entry(p, b) = x
    BY <1>8, <1>9, <2>1, <2>2
  <2>3. CASE Entry(p, b) # x
    <3>1. ~Pending(t, p, b) /\ ~Pending(t, q, b)
      BY <1>8, <1>9, <2>1, <2>3
    <3> QED  BY <1>9, <3>1 DEF LockSoFar
  <2> QED  BY <2>2, <2>3
<1>10. \A p \in Paths : Walked(p)' /\ ~Ahead(t, p)' => ~Long(p)'
  BY <1>6 DEF LockSoFar
<1>11. \A p \in Paths : \A b \in Bases : HasFile(p, b)' /\ ~Pending(t, p, b)' => Kept(Entry(p, b))'
  BY <1>6, <1>8
<1>12. \A p, q \in Paths : \A b \in Bases :
         /\ HasFile(p, b)' /\ ~Pending(t, p, b)'
         /\ HasFile(q, b)' /\ ~Pending(t, q, b)'
         /\ DirIn(tree', p) = DirIn(tree', q)
         => p = q
  BY <1>6, <1>9
<1>13. \A y \in DOMAIN record'.files : tree'[y] = record'.files[y] \/ Kept(y)'
  BY <1>7
<1> QED  BY <1>10, <1>11, <1>12, <1>13 DEF LockSoFar

\* Unlocking the next file.
LEMMA UnlockContinues ==
    ASSUME TypeOK, FilesRecorded, NEW t, UnlockSoFar(t), record.cred[1] \in Kinds,
           NEW d, d # NoDir, NEW x, x = <<x[1], x[2], <<>> >>, x[2] \in Bases, IsFile(x),
           NEW op, op # "lock",
           NEW w, w = Work(op, d, x, record.cred), tree' = w.tree, record' = record,
           NEW q0 \in Paths, x = Entry(q0, x[2]), Walked(q0),
           Pending(t, q0, x[2]), ~Pending(t, q0, x[2])',
           \A p \in Paths : \A b \in Bases : HasFile(p, b) =>
             /\ Pending(t, p, b)' => Pending(t, p, b)
             /\ Pending(t, p, b) => Pending(t, p, b)' \/ (p = q0 /\ b = x[2])
    PROVE  UnlockSoFar(t)' /\ w.ok
<1>1. PICK m, c : c = record.cred /\ m = Marker(x, c[1])
  OBVIOUS
<1>2. HasFile(q0, x[2])
  BY DEF HasFile
<1>3. Kept(x)
  <2>1. Kept(Entry(q0, x[2]))
    BY <1>2 DEF UnlockSoFar
  <2> QED  BY <2>1
<1>4. w.ok /\ UnlocksIn(tree, w.tree, x, m) /\ x[3] = <<>>
  BY <1>1, <1>3, UnlockIs DEF Kept
<1>5. x \in DOMAIN record.files => tree'[x] = record.files[x]
  <2>1. tree'[x] = File(Of(tree[m].at.data))
    BY <1>4 DEF UnlocksIn
  <2> QED  BY <1>1, <1>3, <2>1 DEF Kept, FilesRecorded
<1>6. /\ \A p \in Paths : DirIn(tree', p) = DirIn(tree, p) /\ (Walked(p)' <=> Walked(p)) /\ (Long(p)' <=> Long(p))
      /\ \A p \in Paths : \A b : Entry(p, b)' = Entry(p, b) /\ (HasFile(p, b)' <=> HasFile(p, b))
      /\ \A y \in DOMAIN tree : y[3] = <<>> /\ y # x =>
            /\ y \in DOMAIN tree' /\ tree'[y] = tree[y]
            /\ Kept(y)' <=> Kept(y)
  <2>1. w = Work(op, d, x, c)
    BY <1>1
  <2>2. \A p \in Paths : DirIn(tree', p) = DirIn(tree, p) /\ (Walked(p)' <=> Walked(p)) /\ (Long(p)' <=> Long(p))
    BY <2>1, WorkFrame
  <2>3. \A p \in Paths : \A b : Entry(p, b)' = Entry(p, b) /\ (HasFile(p, b)' <=> HasFile(p, b))
    BY <2>1, WorkFrame
  <2>4. ASSUME NEW y \in DOMAIN tree, y[3] = <<>>, y # x
        PROVE  y \in DOMAIN tree' /\ tree'[y] = tree[y] /\ (Kept(y)' <=> Kept(y))
    BY <2>1, <2>4, OthersStayKept
  <2> QED  BY <2>2, <2>3, <2>4
<1>7. ASSUME NEW p \in Paths, NEW b \in Bases, HasFile(p, b), Pending(t, p, b)'
      PROVE  Kept(Entry(p, b))'
  <2>1. PICK y : y = Entry(p, b)
    OBVIOUS
  <2>2. y \in DOMAIN tree /\ y[3] = <<>> /\ Entry(p, b)' = y /\ y = <<DirIn(tree, p), b, <<>> >>
    BY <1>6, <1>7, <2>1 DEF HasFile, Entry, IsFile, Exists
  <2>3. y # x
    <3>1. ASSUME y = x
          PROVE  FALSE
      <4>1. DirIn(tree, p) = DirIn(tree, q0) /\ b = x[2]
        BY <2>2, <3>1 DEF Entry
      <4>2. p = q0
        BY <1>2, <1>7, <4>1 DEF UnlockSoFar, OnePathEach
      <4> QED  BY <1>7, <4>1, <4>2
    <3> QED  BY <3>1
  <2>4. Kept(y)
    BY <1>7, <2>1 DEF UnlockSoFar
  <2>5. Kept(y)'
    BY <1>6, <2>2, <2>3, <2>4
  <2> QED  BY <2>1, <2>2, <2>5
<1>8. ASSUME NEW y \in DOMAIN record.files, NEW p \in Paths,
             Walked(p), DirIn(tree, p) = y[1], ~Pending(t, p, y[2])'
      PROVE  tree'[y] = record.files[y]
  <2>1. y = Entry(p, y[2]) /\ y[2] \in Bases /\ HasFile(p, y[2]) /\ y[3] = <<>> /\ y \in DOMAIN tree
    BY <1>8 DEF FilesRecorded, Entry, HasFile, IsFile, Exists
  <2>2. CASE y = x
    BY <1>5, <2>2
  <2>3. CASE y # x
    <3>1. ~(p = q0 /\ y[2] = x[2])
      BY <2>1, <2>3
    <3>2. ~Pending(t, p, y[2])
      BY <1>8, <2>1, <3>1
    <3>3. tree[y] = record.files[y]
      BY <1>8, <3>2 DEF UnlockSoFar
    <3> QED  BY <1>6, <2>1, <2>3, <3>3
  <2> QED  BY <2>2, <2>3
<1>9. OnePathEach'
  <2>1. OnePathEach
    BY DEF UnlockSoFar
  <2> QED  BY <1>6, <2>1 DEF OnePathEach
<1>10. NoneLong'
  BY <1>6 DEF NoneLong, UnlockSoFar
<1>11. \A p \in Paths : \A b \in Bases : HasFile(p, b)' /\ Pending(t, p, b)' => Kept(Entry(p, b))'
  BY <1>6, <1>7
<1>12. \A y \in DOMAIN record'.files : \A p \in Paths :
         Walked(p)' /\ DirIn(tree', p) = y[1] /\ ~Pending(t, p, y[2])' => tree'[y] = record'.files[y]
  BY <1>6, <1>8
<1> QED  BY <1>4, <1>9, <1>10, <1>11, <1>12 DEF UnlockSoFar

-----------------------------------------------------------------------------
(* The record: walks begin and return *)

\* Only markers hold sealed data.
SealsInMarkers ==
    \A x \in DOMAIN tree :
      IsFile(x) /\ x[3] = <<>> => tree[x].at = Of(tree[x].at.data)

\* With nothing left to visit, the tree is locked.
LEMMA LockEnds ==
    ASSUME NEW t, LockSoFar(t), stack[t] = <<>>, todo[t] = {}
    PROVE  LockedTree
<1>1. Len(stack[t]) = 0
  OBVIOUS
<1>2. \A p : ~Ahead(t, p) /\ \A b : ~Pending(t, p, b)
  BY <1>1 DEF Ahead, Pending
<1>3. \A p \in Paths : \A b \in Bases : HasFile(p, b) => Kept(Entry(p, b))
  BY <1>2 DEF LockSoFar
<1>4. OnePathEach
  BY <1>2 DEF LockSoFar, OnePathEach
<1>5. NoneLong
  BY <1>2 DEF LockSoFar, NoneLong
<1> QED  BY <1>3, <1>4, <1>5 DEF LockedTree

\* A walk that begins has all of the directory ahead.
LEMMA AllAhead ==
    ASSUME NEW t, NEW r, stack'[t] = <<r.path>>
    PROVE  \A p : Starts(r.path, p) => Ahead(t, p)' /\ \A b : Pending(t, p, b)'
<1>1. Len(stack'[t]) = 1 /\ stack'[t][1] = r.path /\ 1 \in 1..1
  OBVIOUS
<1> QED  BY <1>1 DEF Ahead, Pending

\* A lock that begins alone makes the record; an unlock that undoes it finds the
\* tree as the lock left it.
LEMMA RecordBegins ==
    ASSUME Typed, PhasesOK, SealsInMarkers, RecordOK, NEW t \in Threads, NEW r \in Requests, Begin(t, r)
    PROVE  RecordOK'
<1>0. /\ TypeOK /\ TreeOK /\ success = [u \in Threads |-> success[u]] /\ req = [u \in Threads |-> req[u]]
      /\ stack = [u \in Threads |-> stack[u]] /\ pc = [u \in Threads |-> pc[u]]
      /\ r.path \in Roots /\ r.path \in Paths /\ r.cred \in WalkCreds /\ r.op \in {"lock", "unlock"}
  BY RequestsFacts DEF Typed, TypeOK
<1>1. /\ pc[t] = "idle" /\ pc' = [pc EXCEPT ![t] = "walk"] /\ req' = [req EXCEPT ![t] = r]
      /\ stack' = [stack EXCEPT ![t] = <<r.path>>]
      /\ UNCHANGED <<tree, cur, todo, success>>
      /\ DirOf(r.path) # NoDir
  BY DEF Begin
<1>2. /\ DirIn(tree, r.path) # NoDir /\ Starts(r.path, r.path)
      /\ stack'[t] = <<r.path>> /\ todo'[t] = {} /\ success'[t] /\ req'[t] = r /\ pc'[t] = "walk"
  BY <1>0, <1>1, DirOfIs, UptoFacts DEF PhasesOK, Starts
<1>3. \A p : Starts(r.path, p) => Ahead(t, p)' /\ \A b : Pending(t, p, b)'
  BY <1>2, AllAhead
<1>4. StillThere(t)'
  <2>1. PICK s : s = <<r.path>>
    OBVIOUS
  <2>2. Len(s) = 1 /\ s[1] = r.path /\ (\A i \in 1..Len(s) : i = 1) /\ stack'[t] = s
    BY <1>2, <2>1
  <2> QED  BY <1>1, <1>2, <2>2 DEF StillThere
<1>5. CASE (\A u \in Threads : pc[u] = "idle") /\ r.op = "lock"
  <2>1. record' = [path |-> r.path, cred |-> r.cred,
                   files |-> Restrict(tree, FilesBelow(DirOf(r.path)))]
    BY <1>5 DEF Begin
  <2>2. /\ record'.path = r.path /\ record'.cred = r.cred
        /\ DOMAIN record'.files = FilesBelow(DirOf(r.path))
        /\ \A x \in FilesBelow(DirOf(r.path)) : record'.files[x] = tree[x]
    BY <2>1 DEF Restrict
  <2>3. ASSUME NEW x \in FilesBelow(DirOf(r.path))
        PROVE  /\ x = <<x[1], x[2], <<>> >> /\ x[2] \in Bases /\ IsFile(x)
               /\ tree[x] = File(Of(tree[x].at.data))
               /\ \E p \in Paths : Starts(r.path, p) /\ DirIn(tree, p) # NoDir /\ DirIn(tree, p) = x[1]
    <3>1. x \in DOMAIN tree /\ IsFile(x) /\ x[1] \in Below(DirOf(r.path)) /\ x[3] = <<>> /\ IsDir(x[1])
      BY <1>0 DEF FilesBelow, TreeOK
    <3>2. x = <<x[1], x[2], <<>> >> /\ x[2] \in Bases /\ x[1] # NoDir /\ tree[x] = File(tree[x].at)
      BY <1>0, <3>1, TreeFacts
    <3>3. PICK p \in Paths : LeadsIn(tree, r.path, p, x[1])
      BY <1>0, <1>1, <3>1, BelowIsReached
    <3> QED  BY <3>1, <3>2, <3>3 DEF LeadsIn, SealsInMarkers
  <2>4. RecordTyped'
    BY <1>0, <1>1, <1>2, <2>2 DEF RecordTyped, Walked
  <2>5. FilesRecorded'
    <3> SUFFICES ASSUME NEW x \in DOMAIN record'.files
                 PROVE  /\ x = <<x[1], x[2], <<>> >> /\ x[2] \in Bases /\ IsFile(x)'
                        /\ record'.files[x] = File(Of(record'.files[x].at.data))
                        /\ \E p \in Paths : Walked(p)' /\ DirIn(tree', p) = x[1]
      BY DEF FilesRecorded
    <3>1. x \in FilesBelow(DirOf(r.path)) /\ record'.files[x] = tree[x]
      BY <2>2
    <3>2. IsFile(x)' <=> IsFile(x)
      BY <1>1 DEF IsFile, Exists
    <3> QED  BY <1>1, <2>2, <2>3, <3>1, <3>2 DEF Walked
  <2>6. LockSoFar(t)'
    <3>1. \A x \in DOMAIN record'.files : tree'[x] = record'.files[x]
      BY <1>1, <2>2
    <3>2. \A p : Walked(p)' => Ahead(t, p)' /\ \A b : Pending(t, p, b)'
      BY <1>3, <2>2 DEF Walked
    <3>3. \A p, b : HasFile(p, b)' => Pending(t, p, b)'
      BY <3>2 DEF HasFile
    <3> QED  BY <3>1, <3>2, <3>3 DEF LockSoFar
  <2>7. WalksAlone(t)'
    BY <1>0, <1>1, <1>2, <1>4, <1>5, <2>2, <2>6 DEF WalksAlone
  <2>8. \A u \in Threads : pc'[u] # "idle" => u = t
    BY <1>0, <1>1, <1>5
  <2> QED  BY <1>2, <2>4, <2>5, <2>7, <2>8 DEF RecordOK
<1>6. CASE /\ (\A u \in Threads : pc[u] = "idle") /\ r.op # "lock"
           /\ record # NoRecord /\ record.path = r.path /\ record.cred = r.cred
  <2>1. record' = record
    BY <1>6 DEF Begin
  <2>2. RecordTyped /\ FilesRecorded /\ LockedTree
    BY <1>6 DEF RecordOK
  <2>3. RecordTyped' /\ FilesRecorded' /\ LockedTree'
    BY <1>1, <2>1, <2>2, RecordFrame
  <2>4. UnlockSoFar(t)'
    <3>1. \A p : Walked(p)' => \A b : Pending(t, p, b)'
      BY <1>3, <1>6, <2>1 DEF Walked
    <3>2. OnePathEach' /\ NoneLong' /\ \A p \in Paths : \A b \in Bases : HasFile(p, b)' => Kept(Entry(p, b))'
      BY <2>3 DEF LockedTree
    <3> QED  BY <3>1, <3>2 DEF UnlockSoFar
  <2>5. WalksAlone(t)'
    BY <1>0, <1>1, <1>2, <1>4, <1>6, <2>1, <2>4 DEF WalksAlone
  <2>6. \A u \in Threads : pc'[u] # "idle" => u = t
    BY <1>0, <1>1, <1>6
  <2> QED  BY <1>2, <2>3, <2>5, <2>6 DEF RecordOK
<1>7. CASE record' = NoRecord
  BY <1>7 DEF RecordOK
<1> QED  BY <1>5, <1>6, <1>7 DEF Begin

\* A lock that returns leaves the tree locked.
LEMMA RecordReturns ==
    ASSUME Typed, PhasesOK, RecordOK, NEW t \in Threads, Return(t)
    PROVE  RecordOK'
<1>1. CASE ~(req[t].op = "lock" /\ success[t])
  BY <1>1 DEF Return, RecordOK
<1>2. CASE req[t].op = "lock" /\ success[t] /\ record # NoRecord
  <2>1. pc[t] = "return" /\ record' = record /\ tree' = tree /\ pc' = [pc EXCEPT ![t] = "idle"]
    BY <1>2 DEF Return
  <2>2. WalksAlone(t) /\ RecordTyped /\ FilesRecorded
    BY <1>2, <2>1 DEF RecordOK
  <2>3. todo[t] = {} /\ stack[t] = <<>>
    BY <1>2, <2>1 DEF PhasesOK
  <2>4. LockedTree
    BY <1>2, <2>2, <2>3, LockEnds DEF WalksAlone
  <2>5. \A u \in Threads : pc'[u] = "idle"
    BY <2>1, <2>2 DEF WalksAlone, Typed, TypeOK
  <2> QED  BY <2>1, <2>2, <2>4, <2>5, RecordFrame DEF RecordOK
<1>3. CASE record = NoRecord
  BY <1>3 DEF Return, RecordOK
<1> QED  BY <1>1, <1>2, <1>3

-----------------------------------------------------------------------------
(* The record: the next directory *)

\* While one worker walks, the record is about its walk.
LEMMA RecordGoesOn ==
    ASSUME RecordOK, record # NoRecord, NEW t \in Threads, pc[t] = "walk", pc'[t] # "idle",
           \A u \in Threads : u # t => pc'[u] = pc[u],
           UNCHANGED <<req, record>>, RecordTyped', FilesRecorded',
           StillThere(t)',
           req[t].op = "lock" /\ success'[t] => LockSoFar(t)',
           req[t].op = "unlock" => success'[t] /\ UnlockSoFar(t)'
    PROVE  RecordOK'
<1>1. WalksAlone(t)
  BY DEF RecordOK
<1>2. WalksAlone(t)'
  BY <1>1 DEF WalksAlone
<1>3. \A u \in Threads : pc'[u] # "idle" => u = t
  BY <1>1 DEF WalksAlone
<1> QED  BY <1>2, <1>3 DEF RecordOK

\* Taking the next directory: a lock may fail on it, an unlock finds it.
LEMMA RecordTakes ==
    ASSUME Typed, PhasesOK, StacksOK, RecordOK, NEW t \in Threads, NextDirectory(t)
    PROVE  RecordOK'
<1> DEFINE q == Last(stack[t])
<1>1. /\ pc[t] = "walk" /\ todo[t] = {} /\ stack[t] # <<>> /\ q \in Paths
      /\ stack' = [stack EXCEPT ![t] = Front(@)]
      /\ cur' = [cur EXCEPT ![t] = q]
      /\ UNCHANGED <<tree, req, record>>
      /\ \/ /\ DirOf(q) # NoDir /\ ~Looped(q)
            /\ todo' = [todo EXCEPT ![t] = ToVisit(DirOf(q))]
            /\ UNCHANGED <<success, pc>>
         \/ /\ DirOf(q) = NoDir \/ Looped(q)
            /\ success' = [success EXCEPT ![t] = FALSE]
            /\ pc' = [pc EXCEPT ![t] = "return"]
            /\ todo' = todo
  BY NextDirectoryIs DEF Typed
<1>2. CASE record = NoRecord
  BY <1>1, <1>2 DEF RecordOK
<1>3. CASE record # NoRecord
  <2>0. /\ stack = [u \in Threads |-> stack[u]] /\ todo = [u \in Threads |-> todo[u]]
        /\ cur = [u \in Threads |-> cur[u]] /\ pc = [u \in Threads |-> pc[u]]
        /\ success = [u \in Threads |-> success[u]]
        /\ TypeOK /\ RecordTyped /\ FilesRecorded /\ WalksAlone(t) /\ StackOK(t) /\ StillThere(t)
    <3>1. RecordTyped /\ FilesRecorded /\ WalksAlone(t) /\ StackOK(t)
      <4>1. pc[t] # "idle"
        BY <1>1
      <4> QED  BY <1>3, <4>1 DEF RecordOK, StacksOK
    <3> QED  BY <3>1 DEF Typed, TypeOK, WalksAlone
  <2>1. /\ Len(stack[t]) \in 1..Len(stack[t]) /\ q = stack[t][Len(stack[t])]
        /\ Len(stack'[t]) = Len(stack[t]) - 1 /\ Len(stack[t]) \in Nat
        /\ \A i \in 1..Len(stack'[t]) : i \in 1..Len(stack[t]) /\ stack'[t][i] = stack[t][i]
    <3>1. stack[t] \in Seq(Paths) /\ stack'[t] = Front(stack[t])
      BY <1>1, <2>0 DEF TypeOK, Paths
    <3> QED  BY <1>1, <3>1, FrontAndLast
  <2> HIDE DEF q
  <2>2. DirIn(tree, q) # NoDir /\ Starts(record.path, q) /\ Walked(q)
    BY <2>0, <2>1 DEF StackOK, StillThere, WalksAlone, Walked
  <2>3. DirOf(q) = DirIn(tree, q) /\ (Looped(q) <=> Long(q))
    BY DirOfIs DEF Long
  <2>4. RecordTyped' /\ FilesRecorded'
    BY <1>1, <2>0, RecordFrame
  <2>5. CASE ~Long(q)
    <3>1. todo' = [todo EXCEPT ![t] = ToVisit(DirOf(q))] /\ UNCHANGED <<success, pc>>
      BY <1>1, <2>2, <2>3, <2>5
    <3>2. StillThere(t)'
      <4>1. \A e \in ToVisit(DirOf(q)) : <<DirOf(q), e[1], <<>> >> \in DOMAIN tree
        BY <2>0, ToVisitIs
      <4>2. \A i \in 1..Len(stack'[t]) : DirIn(tree', stack'[t][i]) # NoDir
        BY <1>1, <2>0, <2>1 DEF StillThere
      <4>3. cur'[t] = q /\ todo'[t] = ToVisit(DirOf(q)) /\ tree' = tree
        BY <1>1, <2>0, <3>1
      <4> QED  BY <2>2, <2>3, <4>1, <4>2, <4>3 DEF StillThere, Entry, Exists
    <3>3. \A p \in Paths : \A b \in Bases : HasFile(p, b) => (Pending(t, p, b) <=> Pending(t, p, b)')
      <4> SUFFICES ASSUME NEW p \in Paths, NEW b \in Bases, HasFile(p, b)
                   PROVE  Pending(t, p, b) <=> Pending(t, p, b)'
        OBVIOUS
      <4>1. DirOf(p) # NoDir /\ Exists(<<DirOf(p), b, <<>> >>)
        BY DirOfIs DEF HasFile, Walked, Entry, IsFile
      <4> QED  BY <1>1, <2>0, <3>1, <4>1, NextAhead DEF q
    <3>4. \A p \in Paths : Walked(p) /\ Ahead(t, p) => Ahead(t, p)' \/ ~Long(p)
      <4> SUFFICES ASSUME NEW p \in Paths, Walked(p), Ahead(t, p)
                   PROVE  Ahead(t, p)' \/ ~Long(p)
        OBVIOUS
      <4>1. DirOf(p) # NoDir
        BY DirOfIs DEF Walked
      <4>2. Ahead(t, p)' \/ p = q
        BY <1>1, <2>0, <3>1, <4>1, NextAhead DEF q
      <4> QED  BY <2>5, <4>2
    <3>5. /\ LockSoFar(t) => LockSoFar(t)'
          /\ UnlockSoFar(t) => UnlockSoFar(t)'
      BY <1>1, <2>0, <3>3, <3>4, SoFarStays
    <3> QED  BY <1>1, <1>3, <2>0, <2>4, <3>1, <3>2, <3>5, RecordGoesOn DEF WalksAlone
  <2>6. CASE Long(q)
    <3>1. success' = [success EXCEPT ![t] = FALSE] /\ pc' = [pc EXCEPT ![t] = "return"] /\ todo' = todo
      BY <1>1, <2>3, <2>6
    <3>2. req[t].op # "unlock"
      BY <1>1, <2>0, <2>2, <2>6 DEF WalksAlone, UnlockSoFar, NoneLong
    <3>3. StillThere(t)'
      <4>1. \A i \in 1..Len(stack'[t]) : DirIn(tree', stack'[t][i]) # NoDir
        BY <1>1, <2>0, <2>1 DEF StillThere
      <4> QED  BY <1>1, <3>1, <4>1 DEF StillThere
    <3>4. ~success'[t] /\ pc'[t] = "return" /\ \A u \in Threads : u # t => pc'[u] = pc[u]
      BY <2>0, <3>1
    <3> QED  BY <1>1, <1>3, <2>4, <3>2, <3>3, <3>4, RecordGoesOn
  <2> QED  BY <2>5, <2>6
<1> QED  BY <1>2, <1>3

\* The end of a walk.
LEMMA RecordFinishes ==
    ASSUME Typed, RecordOK, NEW t \in Threads, Finish(t)
    PROVE  RecordOK'
<1>1. /\ pc[t] = "walk" /\ pc' = [pc EXCEPT ![t] = "return"]
      /\ UNCHANGED <<tree, req, stack, cur, todo, success, record>>
  BY DEF Finish
<1>2. CASE record = NoRecord
  BY <1>1, <1>2 DEF RecordOK
<1>3. CASE record # NoRecord
  <2>1. RecordTyped /\ FilesRecorded /\ WalksAlone(t) /\ pc = [u \in Threads |-> pc[u]]
    BY <1>1, <1>3 DEF RecordOK, Typed, TypeOK
  <2>2. RecordTyped' /\ FilesRecorded'
    BY <1>1, <2>1, RecordFrame
  <2>3. StillThere(t)'
    BY <1>1, <2>1 DEF WalksAlone, StillThere, Entry, Exists
  <2>4. \A p : (Ahead(t, p) <=> Ahead(t, p)') /\ \A b : Pending(t, p, b) <=> Pending(t, p, b)'
    BY <1>1 DEF Ahead, Pending
  <2>5. /\ LockSoFar(t) => LockSoFar(t)'
        /\ UnlockSoFar(t) => UnlockSoFar(t)'
    BY <1>1, <2>1, <2>4, SoFarStays
  <2> QED  BY <1>1, <1>3, <2>1, <2>2, <2>3, <2>5, RecordGoesOn DEF WalksAlone
<1> QED  BY <1>2, <1>3

-----------------------------------------------------------------------------
(* The record: visits *)

\* A visit to a directory.
LEMMA RecordDescends ==
    ASSUME Typed, StacksOK, RecordOK, record # NoRecord, NEW t \in Threads, pc[t] = "walk",
           UNCHANGED <<req, cur, record>>,
           NEW e, NEW pp, NEW d, NEW x, NEW w, Visits(t, e, pp, d, x, w), Descends(t, e, pp)
    PROVE  RecordOK'
<1>0. /\ stack = [u \in Threads |-> stack[u]] /\ todo = [u \in Threads |-> todo[u]]
      /\ TypeOK /\ RecordTyped /\ FilesRecorded /\ WalksAlone(t) /\ StillThere(t)
  BY DEF Typed, TypeOK, RecordOK, WalksAlone
<1>1. /\ DirOf(pp) # NoDir
      /\ stack' = [stack EXCEPT ![t] = Append(@, pp)]
      /\ todo' = [todo EXCEPT ![t] = @ \ {e}]
      /\ UNCHANGED <<tree, success, pc>>
  BY DEF Descends
<1>2. RecordTyped' /\ FilesRecorded'
  BY <1>0, <1>1, RecordFrame
<1>3. StillThere(t)'
  <2>1. PICK s, v : s = stack[t] /\ v = Append(s, pp)
    OBVIOUS
  <2>2. s \in Seq(Paths) /\ pp \in Paths /\ stack'[t] = v /\ todo'[t] \subseteq todo[t]
    BY <1>0, <1>1, <2>1 DEF TypeOK, Paths, Visits
  <2>3. /\ Len(s) \in Nat /\ Len(v) = Len(s) + 1 /\ v[Len(s) + 1] = pp
        /\ \A i \in 1..Len(s) : v[i] = s[i]
    BY <2>1, <2>2, AppendProperties, LenProperties
  <2>4. DirIn(tree, pp) # NoDir
    BY <1>1, DirOfIs
  <2>5. \A i \in 1..Len(v) : i = Len(s) + 1 \/ i \in 1..Len(s)
    BY <2>3
  <2>6. \A i \in 1..Len(v) : DirIn(tree, v[i]) # NoDir
    BY <1>0, <2>1, <2>3, <2>4, <2>5 DEF StillThere
  <2> QED  BY <1>0, <1>1, <2>2, <2>6 DEF StillThere, Entry, Exists
<1>4. \A p \in Paths : \A b \in Bases : HasFile(p, b) => (Pending(t, p, b) <=> Pending(t, p, b)')
  <2> SUFFICES ASSUME NEW p \in Paths, NEW b \in Bases, HasFile(p, b)
               PROVE  Pending(t, p, b) <=> Pending(t, p, b)'
    OBVIOUS
  <2>1. DirOf(p) # NoDir /\ IsFile(<<DirOf(p), b, <<>> >>)
    BY DirOfIs DEF HasFile, Walked, Entry
  <2> QED  BY <1>0, <2>1, DescendsKeepsFiles
<1>5. \A p \in Paths : Walked(p) /\ Ahead(t, p) => Ahead(t, p)' \/ ~Long(p)
  <2> SUFFICES ASSUME NEW p \in Paths, Walked(p), Ahead(t, p)
               PROVE  Ahead(t, p)'
    OBVIOUS
  <2>1. DirOf(p) # NoDir
    BY DirOfIs DEF Walked
  <2> QED  BY <1>0, <2>1, VisitAhead
<1>6. /\ LockSoFar(t) => LockSoFar(t)'
      /\ UnlockSoFar(t) => UnlockSoFar(t)'
  BY <1>0, <1>1, <1>4, <1>5, SoFarStays
<1> QED  BY <1>0, <1>1, <1>2, <1>3, <1>6, RecordGoesOn DEF WalksAlone

\* A path that the walk fails on is too long, or its directory has a path that is.
LEMMA GivingUpIsLong ==
    ASSUME TypeOK, NEW c \in Paths, NEW b \in Bases, Walked(c), Looped(Append(c, b)), record.path \in Paths
    PROVE  ~NoneLong
<1>1. PICK p : p = Append(c, b)
  OBVIOUS
<1>2. p \in Paths /\ HopsIn(tree, p) > MaxHops
  BY <1>1, AppendPath, DirOfIs
<1>3. CASE Leading(tree, DirIn(tree, c), b)
  <2>1. PICK x : x = <<DirIn(tree, c), b, <<>> >>
    OBVIOUS
  <2>2. DirIn(tree, p) = tree[x].at /\ x \in DOMAIN tree /\ ~IsFile(x)
    BY <1>1, <1>3, <2>1, DirSteps DEF Leading, IsFile
  <2>3. DirIn(tree, p) # NoDir
    BY <2>2, TreeFacts, DirsFacts
  <2>4. Walked(p)
    BY <1>1, <2>3, StartsFacts DEF Walked
  <2> QED  BY <1>2, <2>4 DEF NoneLong, Long
<1>4. CASE ~Leading(tree, DirIn(tree, c), b)
  <2>1. HopsIn(tree, p) = HopsIn(tree, c)
    <3>1. HopsIn(tree, c) \in Nat /\ HopsIn(tree, p) = HopsIn(tree, c) + 0
      BY <1>1, <1>4, DirSteps
    <3> QED  BY <3>1
  <2> QED  BY <1>2, <2>1 DEF NoneLong, Long
<1> QED  BY <1>3, <1>4

\* A path that is too long: a lock fails on it, an unlock meets none.
LEMMA RecordGivesUp ==
    ASSUME Typed, StacksOK, RecordOK, record # NoRecord, NEW t \in Threads, pc[t] = "walk",
           UNCHANGED <<req, cur, record>>,
           NEW e, NEW pp, NEW d, NEW x, NEW w, Visits(t, e, pp, d, x, w), GivesUp(t, pp)
    PROVE  RecordOK'
<1>0. /\ success = [u \in Threads |-> success[u]] /\ todo = [u \in Threads |-> todo[u]]
      /\ pc = [u \in Threads |-> pc[u]]
      /\ TypeOK /\ RecordTyped /\ FilesRecorded /\ WalksAlone(t) /\ StillThere(t) /\ StackOK(t)
  BY DEF Typed, TypeOK, RecordOK, WalksAlone, StacksOK
<1>1. /\ Looped(pp)
      /\ success' = [success EXCEPT ![t] = FALSE]
      /\ pc' = [pc EXCEPT ![t] = "return"]
      /\ todo' = [todo EXCEPT ![t] = {}]
      /\ UNCHANGED <<tree, stack>>
  BY DEF GivesUp
<1>2. RecordTyped' /\ FilesRecorded'
  BY <1>0, <1>1, RecordFrame
<1>3. StillThere(t)'
  BY <1>0, <1>1 DEF StillThere
<1>4. req[t].op # "unlock"
  <2>1. cur[t] \in Paths /\ e[1] \in Bases /\ pp = Append(cur[t], e[1]) /\ todo[t] # {}
    BY DEF Visits
  <2>2. Walked(cur[t])
    BY <1>0, <2>1 DEF Walked, StackOK, StillThere, WalksAlone
  <2>3. record.path \in Paths
    BY <1>0, NamesAssumption DEF RecordTyped, Paths
  <2>4. ~NoneLong
    BY <1>0, <1>1, <2>1, <2>2, <2>3, GivingUpIsLong
  <2> QED  BY <1>0, <2>4 DEF WalksAlone, UnlockSoFar
<1>5. ~success'[t] /\ pc'[t] = "return" /\ \A u \in Threads : u # t => pc'[u] = pc[u]
  BY <1>0, <1>1
<1> QED  BY <1>1, <1>2, <1>3, <1>4, <1>5, RecordGoesOn

\* Working on one file.
LEMMA RecordWorks ==
    ASSUME Typed, StacksOK, RecordOK, record # NoRecord, NEW t \in Threads, pc[t] = "walk",
           UNCHANGED <<req, cur, record>>,
           NEW e, NEW pp, NEW d, NEW x, NEW w, Visits(t, e, pp, d, x, w), Works(t, e, pp, x, w)
    PROVE  RecordOK'
<1>0. /\ stack = [u \in Threads |-> stack[u]] /\ todo = [u \in Threads |-> todo[u]]
      /\ success = [u \in Threads |-> success[u]]
      /\ TypeOK /\ RecordTyped /\ FilesRecorded /\ WalksAlone(t) /\ StillThere(t) /\ StackOK(t)
      /\ stack[t] \in Seq(Paths) /\ todo[t] \subseteq Bases \X {<<>>} /\ success[t] \in BOOLEAN
  BY DEF Typed, TypeOK, RecordOK, WalksAlone, StacksOK, Paths
<1>1. /\ DirOf(pp) = NoDir /\ tree' = w.tree
      /\ success' = [success EXCEPT ![t] = @ /\ w.ok]
      /\ todo' = [todo EXCEPT ![t] = @ \ {e}]
      /\ UNCHANGED <<stack, pc>>
  BY DEF Works
<1>2. /\ e \in todo[t] /\ e = <<e[1], <<>> >> /\ e[1] \in Bases
      /\ cur[t] \in Paths /\ pp = Append(cur[t], e[1])
      /\ d = DirOf(cur[t]) /\ d = DirIn(tree, cur[t]) /\ x = <<d, e[1], <<>> >>
  BY DirOfIs DEF Visits
<1>3. req[t].cred = record.cred /\ req[t].path = record.path /\ record.cred[1] \in Kinds
      /\ req[t].op \in {"lock", "unlock"} /\ req[t].path \in Paths
  <2>1. req[t] \in Requests
    BY DEF Typed, RequestsKnown
  <2> QED  BY <1>0, <2>1, RequestsFacts DEF WalksAlone
<1>4. w = Work(req[t].op, d, x, record.cred)
  BY <1>3 DEF Visits
<1>5. /\ x = <<x[1], x[2], <<>> >> /\ x[1] = d /\ x[2] = e[1] /\ ~Leading(tree, x[1], x[2])
  BY <1>0, <1>1, WorksOnFile
<1>6. d # NoDir /\ IsFile(x) /\ x = Entry(cur[t], x[2]) /\ Walked(cur[t])
  <2>1. d # NoDir /\ Exists(x)
    BY <1>0, <1>2 DEF StillThere, Entry
  <2>2. IsFile(x)
    BY <1>5, <2>1 DEF Leading, IsFile, Exists
  <2>3. Walked(cur[t])
    BY <1>0, <1>2, <1>3, <2>1 DEF Walked, StackOK
  <2> QED  BY <1>2, <1>5, <2>1, <2>2, <2>3 DEF Entry
<1>7. /\ \A p \in Paths : DirIn(tree', p) = DirIn(tree, p) /\ (Walked(p)' <=> Walked(p)) /\ (Long(p)' <=> Long(p))
      /\ \A p \in Paths : \A b : Entry(p, b)' = Entry(p, b)
      /\ \A z : z[3] = <<>> => (IsFile(z)' <=> IsFile(z))
      /\ \A z : z[3] = <<>> => (Exists(z)' <=> Exists(z))
  BY <1>1, <1>3, <1>4, <1>5, <1>6, <1>0, WorkFrame
<1>8. RecordTyped' /\ FilesRecorded'
  <2>1. record.path \in Paths
    BY <1>3
  <2>2. RecordTyped'
    BY <1>0, <1>7, <2>1 DEF RecordTyped
  <2>3. \A y \in DOMAIN record.files : y[3] = <<>>
    BY <1>0 DEF FilesRecorded
  <2>4. FilesRecorded'
    BY <1>0, <1>7, <2>3 DEF FilesRecorded
  <2> QED  BY <2>2, <2>4
<1>9. StillThere(t)'
  <2>1. \A i \in 1..Len(stack'[t]) : DirIn(tree', stack'[t][i]) # NoDir
    BY <1>0, <1>1, <1>7, ElementOfSeq DEF StillThere
  <2>2. DirIn(tree', cur'[t]) # NoDir
    BY <1>2, <1>6, <1>7
  <2>3. ASSUME NEW f \in todo'[t]
        PROVE  Exists(Entry(cur[t], f[1]))'
    <3>1. f \in todo[t]
      BY <1>0, <1>1
    <3>2. PICK y : y = Entry(cur[t], f[1])
      OBVIOUS
    <3>3. Exists(y) /\ y[3] = <<>> /\ Entry(cur[t], f[1])' = y
      BY <1>0, <1>2, <1>7, <3>1, <3>2 DEF StillThere, Entry
    <3> QED  BY <1>7, <3>3
  <2> QED  BY <2>1, <2>2, <2>3 DEF StillThere
<1>10. ASSUME NEW p \in Paths, Walked(p)
       PROVE  /\ Ahead(t, p) <=> Ahead(t, p)'
              /\ \A b : Pending(t, p, b)' => Pending(t, p, b)
              /\ \A b : Pending(t, p, b) => Pending(t, p, b)' \/ (p = cur[t] /\ b = x[2])
  <2>1. DirOf(p) # NoDir
    BY <1>10, DirOfIs DEF Walked
  <2>2. /\ Ahead(t, p) <=> Ahead(t, p)'
        /\ \A b : Pending(t, p, b)' => Pending(t, p, b)
        /\ \A b : Pending(t, p, b) => \/ Pending(t, p, b)'
                                      \/ p = cur[t] /\ e = <<b, <<>> >>
    BY <1>0, <2>1, VisitAhead
  <2> QED  BY <1>2, <1>5, <2>2
<1>11. Pending(t, cur[t], x[2]) /\ ~Pending(t, cur[t], x[2])'
  <2>1. Pending(t, cur[t], x[2])
    BY <1>2, <1>5 DEF Pending
  <2>2. ~Ahead(t, cur[t])
    <3>1. \A i \in 1..Len(stack[t]) : ~Starts(stack[t][i], cur[t])
      BY <1>0, <1>2 DEF StackOK
    <3>2. \A f \in todo[t] : ~Starts(Append(cur[t], f[1]), cur[t])
      BY <1>0, <1>2, StartsLonger
    <3> QED  BY <3>1, <3>2 DEF Ahead
  <2>3. ~Ahead(t, cur[t])'
    BY <1>2, <1>6, <1>10, <2>2
  <2>4. <<x[2], <<>> >> \notin todo'[t]
    BY <1>0, <1>1, <1>2, <1>5
  <2> QED  BY <2>1, <2>3, <2>4 DEF Pending
<1>12. CASE req[t].op = "lock"
  <2>1. ASSUME success'[t]
        PROVE  LockSoFar(t)'
    <3>1. success[t] /\ w.ok /\ LockSoFar(t)
      BY <1>0, <1>1, <1>12, <2>1 DEF WalksAlone
    <3>2. w = Work("lock", d, x, record.cred)
      BY <1>4, <1>12
    <3>3. \A p \in Paths : Walked(p) => (Ahead(t, p) => Ahead(t, p)')
      BY <1>10
    <3>4. \A p \in Paths : \A b \in Bases : HasFile(p, b) /\ Pending(t, p, b) =>
             Pending(t, p, b)' \/ (p = cur[t] /\ b = x[2])
      BY <1>10 DEF HasFile
    <3>5. PICK q0 : q0 = cur[t]
      OBVIOUS
    <3>6. q0 \in Paths /\ x = Entry(q0, x[2]) /\ TypeOK /\ FilesRecorded /\ LockSoFar(t) /\ record.cred[1] \in Kinds
      BY <1>0, <1>2, <1>3, <1>6, <3>1, <3>5
    <3>7. d # NoDir /\ x = <<x[1], x[2], <<>> >> /\ IsFile(x) /\ w.ok /\ tree' = w.tree /\ record' = record
      BY <1>1, <1>5, <1>6, <3>1
    <3>8. \A p \in Paths : \A b \in Bases : HasFile(p, b) /\ Pending(t, p, b) =>
             Pending(t, p, b)' \/ (p = q0 /\ b = x[2])
      BY <3>4, <3>5
    <3> QED  BY <3>2, <3>3, <3>6, <3>7, <3>8, LockContinues
  <2> QED  BY <1>1, <1>8, <1>9, <1>12, <2>1, RecordGoesOn
<1>13. CASE req[t].op # "lock"
  <2>1. success[t] /\ UnlockSoFar(t)
    BY <1>0, <1>3, <1>13 DEF WalksAlone
  <2>2. \A p \in Paths : \A b \in Bases : HasFile(p, b) =>
             /\ Pending(t, p, b)' => Pending(t, p, b)
             /\ Pending(t, p, b) => Pending(t, p, b)' \/ (p = cur[t] /\ b = x[2])
    BY <1>10 DEF HasFile
  <2>3. PICK op : op = req[t].op
    OBVIOUS
  <2>4. UnlockSoFar(t)' /\ w.ok
    <3>1. PICK q0 : q0 = cur[t]
      OBVIOUS
    <3>2. q0 \in Paths /\ x = Entry(q0, x[2]) /\ Walked(q0) /\ TypeOK /\ FilesRecorded /\ record.cred[1] \in Kinds
      BY <1>0, <1>2, <1>3, <1>6, <3>1
    <3>3. /\ d # NoDir /\ x = <<x[1], x[2], <<>> >> /\ x[2] \in Bases /\ IsFile(x) /\ tree' = w.tree /\ record' = record
          /\ op # "lock" /\ w = Work(op, d, x, record.cred)
      BY <1>1, <1>2, <1>4, <1>5, <1>6, <1>13, <2>3
    <3>4. Pending(t, q0, x[2]) /\ ~Pending(t, q0, x[2])'
      <4>1. cur'[t] = cur[t]
        OBVIOUS
      <4> QED  BY <1>11, <3>1, <4>1
    <3>5. \A p \in Paths : \A b \in Bases : HasFile(p, b) =>
             /\ Pending(t, p, b)' => Pending(t, p, b)
             /\ Pending(t, p, b) => Pending(t, p, b)' \/ (p = q0 /\ b = x[2])
      BY <2>2, <3>1
    <3> QED  BY <2>1, <3>2, <3>3, <3>4, <3>5, UnlockContinues
  <2>5. success'[t]
    BY <1>0, <1>1, <2>1, <2>4
  <2> QED  BY <1>1, <1>8, <1>9, <1>13, <2>4, <2>5, RecordGoesOn
<1> QED  BY <1>12, <1>13

\* Every step keeps the record true.
LEMMA RecordStep ==
    ASSUME Typed, PhasesOK, StacksOK, SealsInMarkers, RecordOK, [Next]_vars
    PROVE  RecordOK'
<1>1. CASE UNCHANGED vars
  <2>1. UNCHANGED <<tree, req, stack, cur, todo, success, pc, record>>
    BY <1>1 DEF vars, walkVars
  <2>2. \A t : (StillThere(t) => StillThere(t)')
    BY <2>1 DEF StillThere, Entry, Exists
  <2>3. \A t, p : (Ahead(t, p) <=> Ahead(t, p)') /\ \A b : Pending(t, p, b) <=> Pending(t, p, b)'
    BY <2>1 DEF Ahead, Pending
  <2>4. ASSUME FilesRecorded, NEW t
        PROVE  /\ LockSoFar(t) => LockSoFar(t)'
               /\ UnlockSoFar(t) => UnlockSoFar(t)'
    BY <2>1, <2>3, <2>4, SoFarStays
  <2>5. ASSUME FilesRecorded, NEW t, WalksAlone(t)
        PROVE  WalksAlone(t)'
    BY <2>1, <2>2, <2>4, <2>5 DEF WalksAlone
  <2> QED  BY <2>1, <2>5, RecordFrame DEF RecordOK
<1>2. ASSUME NEW t \in Threads, Visit(t)
      PROVE  RecordOK'
  <2>1. pc[t] = "walk" /\ UNCHANGED <<req, cur, record>>
    BY <1>2 DEF Visit
  <2>2. PICK e, p, d, x, w :
                /\ Visits(t, e, p, d, x, w)
                /\ Descends(t, e, p) \/ GivesUp(t, p) \/ Works(t, e, p, x, w)
    BY <1>2, VisitIs DEF Typed
  <2>3. CASE record = NoRecord
    BY <2>1, <2>3 DEF RecordOK
  <2>4. CASE record # NoRecord
    BY <2>1, <2>2, <2>4, RecordDescends, RecordGivesUp, RecordWorks
  <2> QED  BY <2>3, <2>4
<1>3. ASSUME NEW x \in PlainNames, Change(x)
      PROVE  RecordOK'
  BY <1>3 DEF Change, RecordOK
<1> QED  BY <1>1, <1>2, <1>3, RecordBegins, RecordTakes, RecordFinishes, RecordReturns DEF Next, Walk

-----------------------------------------------------------------------------
(* What the files hold *)

\* Locking and unlocking one file leaves seals to markers.
LEMMA WorkSealsMarkers ==
    ASSUME SealsInMarkers, NEW op, NEW d, NEW x, x[3] = <<>>, NEW c,
           NEW w, w = Work(op, d, x, c), tree' = w.tree
    PROVE  SealsInMarkers'
<1>1. PICK m : m = Marker(x, c[1])
  OBVIOUS
<1>2. \/ tree' = tree
      \/ LocksIn(tree, tree', x, m, c[2])
      \/ UnlocksIn(tree, tree', x, m)
      \/ DamagesIn(tree, tree', x)
  BY <1>1, WorkIs
<1>3. m[3] # <<>>
  BY <1>1, MarkerIs
<1>4. CASE tree' = tree
  BY <1>4 DEF SealsInMarkers, IsFile, Exists
<1>5. ASSUME NEW datum, x \in DOMAIN tree', tree'[x] = File(Of(datum)),
             \A y \in DOMAIN tree' : y # x /\ y # m => y \in DOMAIN tree /\ tree'[y] = tree[y]
      PROVE  SealsInMarkers'
  <2> SUFFICES ASSUME NEW y \in DOMAIN tree', tree'[y].type = "file", y[3] = <<>>
               PROVE  tree'[y].at = Of(tree'[y].at.data)
    BY DEF SealsInMarkers, IsFile, Exists
  <2>1. CASE y = x
    BY <1>5, <2>1, FileIs
  <2>2. CASE y # x
    BY <1>3, <1>5, <2>2 DEF SealsInMarkers, IsFile, Exists
  <2> QED  BY <2>1, <2>2
<1>6. CASE LocksIn(tree, tree', x, m, c[2])
  BY <1>5, <1>6 DEF LocksIn
<1>7. CASE UnlocksIn(tree, tree', x, m)
  <2>1. x \in DOMAIN tree'
    BY <1>3, <1>7 DEF UnlocksIn
  <2> QED  BY <1>5, <1>7, <2>1 DEF UnlocksIn
<1>8. CASE DamagesIn(tree, tree', x)
  BY <1>5, <1>8 DEF DamagesIn
<1> QED  BY <1>2, <1>4, <1>6, <1>7, <1>8

\* Locking one file that can be locked loses nothing.
LEMMA LockKeepsData ==
    ASSUME NEW d, NEW x, x[3] = <<>>, NEW c, c[1] \in Kinds,
           NEW w, w = Work("lock", d, x, c), tree' = w.tree
    PROVE  Held \subseteq Held'
<1>1. PICK m : m = Marker(x, c[1])
  OBVIOUS
<1>2. \/ tree' = tree
      \/ ~IsEncrypted(x) /\ LocksIn(tree, tree', x, m, c[2])
  BY <1>1, WorkIs
<1>3. CASE tree' = tree
  BY <1>3 DEF Held, IsFile, Exists
<1>4. CASE ~IsEncrypted(x) /\ LocksIn(tree, tree', x, m, c[2])
  <2>1. m # x /\ m \notin DOMAIN tree
    BY <1>1, <1>4, MarkerIs DEF IsEncrypted, Exists
  <2>2. m \in DOMAIN tree' /\ \A y \in DOMAIN tree : y # x => y \in DOMAIN tree' /\ tree'[y] = tree[y]
    BY <1>4, <2>1 DEF LocksIn
  <2>3. ASSUME NEW y \in DOMAIN tree, IsFile(y)
        PROVE  tree[y].at.data \in Held'
    <3>1. CASE y = x
      <4>1. tree'[m] = File(Sealed(tree[y].at.data, c[2]))
        BY <1>4, <2>3, <3>1 DEF LocksIn, IsFile
      <4>2. tree'[m].at.data = tree[y].at.data /\ tree'[m].type = "file"
        BY <4>1, FileIs
      <4> QED  BY <2>2, <4>2 DEF Held, IsFile, Exists
    <3>2. CASE y # x
      BY <2>2, <2>3, <3>2 DEF Held, IsFile, Exists
    <3> QED  BY <3>1, <3>2
  <2> QED  BY <2>3 DEF Held
<1> QED  BY <1>2, <1>3, <1>4

\* Unlocking one file loses only what was written over its placeholder.
LEMMA UnlockKeepsSealed ==
    ASSUME SealsInMarkers, NEW d, NEW x, x[3] = <<>>, NEW c, c[1] \in Kinds,
           NEW op, op # "lock", NEW w, w = Work(op, d, x, c), tree' = w.tree, w.ok,
           NEW datum \in Held \ Held'
    PROVE  x \in DOMAIN tree /\ IsEncrypted(x) /\ Read(x) = Of(datum)
<1>1. PICK m : m = Marker(x, c[1])
  OBVIOUS
<1>2. \/ tree' = tree
      \/ Opens(x, c) /\ UnlocksIn(tree, tree', x, m)
  <2>1. w.ok # FALSE
    OBVIOUS
  <2> QED  BY <1>1, <2>1, WorkIs
<1>3. tree' # tree
  BY DEF Held, IsFile, Exists
<1>4. m \in DOMAIN tree /\ IsFile(m) /\ m # x /\ IsEncrypted(x)
  BY <1>1, <1>2, <1>3, MarkerIs DEF Opens, IsFile, IsEncrypted, Exists
<1>5. /\ x \in DOMAIN tree' /\ tree'[x] = File(Of(tree[m].at.data))
      /\ \A y \in DOMAIN tree : y # x /\ y # m => y \in DOMAIN tree' /\ tree'[y] = tree[y]
  BY <1>2, <1>3, <1>4 DEF UnlocksIn
<1>6. PICK y \in DOMAIN tree : IsFile(y) /\ tree[y].at.data = datum
  BY DEF Held
<1>7. y = x
  <2>1. CASE y = m
    <3>1. tree'[x].type = "file" /\ tree'[x].at.data = datum
      BY <1>5, <1>6, <2>1, FileIs
    <3> QED  BY <1>5, <3>1 DEF Held, IsFile, Exists
  <2>2. CASE y # m /\ y # x
    BY <1>5, <1>6, <2>2 DEF Held, IsFile, Exists
  <2> QED  BY <2>1, <2>2
<1> QED  BY <1>4, <1>6, <1>7 DEF SealsInMarkers, Read

\* What others do to a name leaves seals to markers.
LEMMA ChangeSealsMarkers ==
    ASSUME SealsInMarkers, NEW x \in PlainNames, Change(x)
    PROVE  SealsInMarkers'
<1>1. x[3] = <<>>
  BY PlainNamesFacts
<1>2. CASE Unlink(x)
  BY <1>2 DEF Unlink, Without, Restrict, SealsInMarkers, IsFile, Exists
<1>3. CASE Rmdir(x)
  BY <1>3 DEF Rmdir, Restrict, SealsInMarkers, IsFile, Exists
<1>4. CASE Write(x)
  <2>1. \A y \in DOMAIN tree' : y # x => y \in DOMAIN tree /\ tree'[y] = tree[y]
    BY <1>4 DEF Write, Put
  <2>2. tree'[x] = File(Of(x))
    BY <1>4 DEF Write, Put
  <2> QED  BY <2>1, <2>2, FileIs DEF SealsInMarkers, IsFile, Exists
<1>5. CASE \E op \in {"lock", "unlock"}, c \in Creds : FileHook(op, x, c)
  BY <1>1, <1>5, WorkSealsMarkers DEF FileHook
<1>6. ASSUME NEW type \in {"dir", "link"}, NEW d, MakeDirectory(x, type, d)
      PROVE  SealsInMarkers'
  <2>1. \A y \in DOMAIN tree' : y # x => y \in DOMAIN tree /\ tree'[y] = tree[y]
    BY <1>6 DEF MakeDirectory
  <2>2. tree'[x].type # "file"
    BY <1>6 DEF MakeDirectory
  <2> QED  BY <2>1, <2>2 DEF SealsInMarkers, IsFile, Exists
<1> QED  BY <1>2, <1>3, <1>4, <1>5, <1>6 DEF Change

\* Every step leaves seals to markers.
LEMMA SealsStep ==
    ASSUME Typed, SealsInMarkers, [Next]_vars
    PROVE  SealsInMarkers'
<1>1. CASE tree' = tree
  BY <1>1 DEF SealsInMarkers, IsFile, Exists
<1>2. ASSUME NEW t \in Threads, Visit(t)
      PROVE  SealsInMarkers'
  <2>1. PICK e, p, d, x, w :
                /\ Visits(t, e, p, d, x, w)
                /\ Descends(t, e, p) \/ GivesUp(t, p) \/ Works(t, e, p, x, w)
    BY <1>2, VisitIs DEF Typed
  <2>2. CASE Works(t, e, p, x, w)
    <3>1. tree' = w.tree /\ x[3] = <<>> /\ w = Work(req[t].op, d, x, req[t].cred)
      BY <2>1, <2>2 DEF Works, Visits
    <3> QED  BY <3>1, WorkSealsMarkers
  <2> QED  BY <1>1, <2>1, <2>2 DEF Descends, GivesUp
<1>3. ASSUME NEW x \in PlainNames, Change(x)
      PROVE  SealsInMarkers'
  BY <1>3, ChangeSealsMarkers
<1> QED  BY <1>1, <1>2, <1>3 DEF Next, Walk, Begin, NextDirectory, Finish, Return, vars

-----------------------------------------------------------------------------
(* The invariant *)

LInv ==
    /\ Typed /\ SealsInMarkers
    /\ PhasesOK /\ StacksOK /\ OwedOK
    /\ RecordOK

\* The invariant holds at the start, and every step keeps it.
LEMMA Invariance == Spec => []LInv
<1>1. Init => LInv
  <2> SUFFICES ASSUME Init PROVE LInv
    OBVIOUS
  <2>1. DOMAIN tree = {}
    BY DEF Init
  <2>2. TypeOK
    <3>1. MaxChanges \in Nat
      BY BoundsAssumption
    <3> QED  BY <2>1, <3>1 DEF Init, TypeOK
  <2> QED  BY <2>1, <2>2 DEF Init, LInv, Typed, TreeOK, RequestsKnown, SealsInMarkers,
                             PhasesOK, StacksOK, OwedOK, RecordOK
<1>2. LInv /\ [Next]_vars => LInv'
  <2> SUFFICES ASSUME LInv, [Next]_vars PROVE LInv'
    OBVIOUS
  <2>1. Typed'
    BY Types DEF LInv
  <2>2. SealsInMarkers'
    BY SealsStep DEF LInv
  <2>3. PhasesOK'
    BY PhasesStep DEF LInv
  <2>4. StacksOK'
    BY StacksStep DEF LInv
  <2>5. OwedOK'
    BY OwedStep DEF LInv
  <2>6. RecordOK'
    BY RecordStep DEF LInv
  <2> QED  BY <2>1, <2>2, <2>3, <2>4, <2>5, <2>6 DEF LInv
<1> QED  BY <1>1, <1>2, PTL DEF Spec

-----------------------------------------------------------------------------
(* The theorems *)

\* The backing directory holds files, directories and symlinks under the names
\* that clients and hooks make, and each walk keeps paths of base names (the
\* locals of encrypt_directory and decrypt_directory), whatever the directories,
\* the paths of the hooks and the number of workers.
THEOREM TreeStaysTyped == Spec => []TypeOK
<1>1. LInv => TypeOK
  BY DEF LInv, Typed
<1> QED  BY <1>1, Invariance, PTL

\* encrypt_directory returns true only when each file that was below the directory
\* at the start, and that nobody else touched, is locked with its key: no entry is
\* lost between the stack and the listings, for a tree of any depth, with symlinks
\* to the top, any number of walks at once and any changes by others, as long as
\* no symlink that the directory was named by goes.
THEOREM LocksCover == Spec => []LockCovers
<1>1. LInv => LockCovers
  <2> SUFFICES ASSUME LInv, NEW t \in Threads, pc[t] = "return", req[t].op = "lock", success[t],
                      NEW x \in owed[t]
               PROVE  Read(x) = Of(Placeholder) /\ Opens(x, req[t].cred)
    BY DEF LockCovers
  <2>1. todo[t] = {} /\ stack[t] = <<>>
    BY DEF LInv, PhasesOK
  <2>2. Len(stack[t]) = 0
    BY <2>1
  <2>3. \A p : ~Pending(t, p, x[2])
    BY <2>1, <2>2 DEF Pending, Ahead
  <2>4. Owes(t, x)
    BY DEF LInv, OwedOK
  <2> QED  BY <2>3, <2>4 DEF Owes, LockedBy
<1> QED  BY <1>1, Invariance, PTL

\* decrypt_directory after an encrypt_directory that returned true, with the same
\* path and credentials and nothing in between: each file has its content again and
\* the unlock reports success, for a tree of any depth.  Symlinks do not break it:
\* a lock that comes to one file on two paths fails on the second.
THEOREM UnlocksUndoLocks == Spec => []UnlockUndoesLock
<1>1. LInv => UnlockUndoesLock
  <2> SUFFICES ASSUME LInv, NEW t \in Threads, pc[t] = "return", req[t].op = "unlock", record # NoRecord
               PROVE  /\ success[t]
                      /\ \A x \in DOMAIN record.files : Exists(x) /\ tree[x] = record.files[x]
    BY DEF UnlockUndoesLock
  <2>1. WalksAlone(t) /\ FilesRecorded
    BY DEF LInv, RecordOK
  <2>2. success[t] /\ UnlockSoFar(t)
    BY <2>1 DEF WalksAlone
  <2>3. todo[t] = {} /\ stack[t] = <<>>
    BY <2>2 DEF LInv, PhasesOK
  <2>4. Len(stack[t]) = 0
    BY <2>3
  <2>5. \A p, b : ~Pending(t, p, b)
    BY <2>3, <2>4 DEF Pending, Ahead
  <2>6. ASSUME NEW x \in DOMAIN record.files
        PROVE  Exists(x) /\ tree[x] = record.files[x]
    <3>1. PICK p \in Paths : Walked(p) /\ DirIn(tree, p) = x[1]
      BY <2>1 DEF FilesRecorded
    <3>2. tree[x] = record.files[x]
      BY <2>2, <2>5, <3>1 DEF UnlockSoFar
    <3> QED  BY <2>1, <3>2 DEF FilesRecorded, IsFile
  <2> QED  BY <2>2, <2>6
<1> QED  BY <1>1, Invariance, PTL

\* A step of a walk that has not failed loses nothing when it locks, and when
\* it unlocks only what somebody wrote into a locked file, over the placeholder
\* (encrypt_directory, decrypt_directory), whatever the tree looks like and
\* whatever others do to it between the steps.
THEOREM LossesAreReported == Spec => LossIsReported
<1> DEFINE Reported ==
      \A t \in Threads :
        At(t, "walk") /\ todo'[t] # todo[t] /\ success'[t]
        => \A d \in Held \ Held' : /\ req[t].op = "unlock"
                                   /\ \E x \in DOMAIN tree : IsEncrypted(x) /\ Read(x) = Of(d)
<1>1. LInv /\ [Next]_vars => [Reported]_vars
  <2> SUFFICES ASSUME LInv, Next, NEW t \in Threads, pc[t] = "walk",
                      todo'[t] # todo[t], success'[t], NEW datum \in Held \ Held'
               PROVE  /\ req[t].op = "unlock"
                      /\ \E x \in DOMAIN tree : IsEncrypted(x) /\ Read(x) = Of(datum)
    OBVIOUS
  <2>1. /\ TypeOK /\ SealsInMarkers /\ todo = [u \in Threads |-> todo[u]]
        /\ success = [u \in Threads |-> success[u]]
        /\ req[t].op \in {"lock", "unlock"} /\ req[t].cred[1] \in Kinds
    BY RequestsFacts DEF LInv, Typed, TypeOK, RequestsKnown
  <2>2. tree' # tree
    BY DEF Held, IsFile, Exists
  <2>3. \A x : ~Change(x)
    BY DEF Change, walkVars
  <2>4. Visit(t)
    <3>1. ASSUME NEW u \in Threads, Visit(u), u # t
          PROVE  FALSE
      <4>1. PICK S : todo' = [todo EXCEPT ![u] = S]
        BY <3>1 DEF Visit
      <4> QED  BY <2>1, <3>1, <4>1
    <3>2. \E u \in Threads : Visit(u)
      BY <2>2, <2>3 DEF Next, Walk, NextDirectory, Finish, Return, Begin
    <3> QED  BY <3>1, <3>2
  <2>5. PICK e, p, d, x, w :
                /\ Visits(t, e, p, d, x, w)
                /\ Descends(t, e, p) \/ GivesUp(t, p) \/ Works(t, e, p, x, w)
    BY <2>1, <2>4, VisitIs
  <2>6. Works(t, e, p, x, w)
    BY <2>2, <2>5 DEF Descends, GivesUp
  <2>7. /\ x[3] = <<>> /\ tree' = w.tree /\ w.ok
        /\ w = Work(req[t].op, d, x, req[t].cred)
    BY <2>1, <2>5, <2>6 DEF Visits, Works
  <2>8. req[t].op # "lock"
    BY <2>1, <2>7, LockKeepsData
  <2>9. x \in DOMAIN tree /\ IsEncrypted(x) /\ Read(x) = Of(datum)
    BY <2>1, <2>7, <2>8, UnlockKeepsSealed
  <2> QED  BY <2>1, <2>8, <2>9
<1> QED  BY <1>1, Invariance, PTL DEF Spec, LossIsReported
=============================================================================
