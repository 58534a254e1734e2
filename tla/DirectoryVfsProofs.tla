------------------------- MODULE DirectoryVfsProofs -------------------------
(***************************************************************************)
(* What DirectoryVfs promises, for any number of worker threads, streams,  *)
(* directories and entries.                                                *)
(*                                                                         *)
(* DInv is the inductive invariant.  ControlOK and UsesOK say who holds    *)
(* what: which step has which request, and that rmdir is alone in its      *)
(* directory and readdir on its stream.  RmdirOK follows one rmdir through *)
(* its two readings of the directory.  The rest follows one listing: where *)
(* the entries are that it still owes, and where those are that it gave.   *)
(***************************************************************************)
EXTENDS DirectoryVfs, SequenceTheorems, TLAPS

Op(t, op) == req[t] # NoRequest /\ req[t].op = op

\* What a thread has in hand fits the step it is at.
ControlOK ==
    \A t \in Threads :
      /\ At(t, "idle") <=> req[t] = NoRequest
      /\ pc[t] \in {"iterate", "fill"} => Op(t, "readdir") /\ filler[t] = req[t].handle
      /\ pc[t] \in {"check", "delete", "unlink"} => Op(t, "rmdir")
      /\ At(t, "fill") /\ snap[t] # <<>> => pos[t] + Len(snap[t]) <= MaxEntries

\* A request's directory exists until its rmdir has succeeded.
DirectoryThere(t) ==
    \/ req[t].dir \in DOMAIN content
    \/ At(t, "return") /\ req[t].op = "rmdir" /\ reply[t] = "ok"

\* A rmdir has its directory to itself, and a readdir its stream.
UsesOK ==
    /\ \A t \in Threads : req[t] # NoRequest => DirectoryThere(t)
    /\ \A t, u \in Threads :
         Op(t, "rmdir") /\ req[u] # NoRequest /\ req[u].dir = req[t].dir => u = t
    /\ \A t \in Threads :
         Op(t, "readdir") => /\ stream[req[t].handle].dir = req[t].dir
                             /\ ~stream[req[t].handle].end
    /\ \A t, u \in Threads :
         Op(t, "readdir") /\ Op(u, "readdir") /\ req[u].handle = req[t].handle => u = t

\* A stream is at a directory that exists, or at none.
StreamsOK ==
    \A h \in Handles :
      /\ stream[h].dir \in DOMAIN content \union {NoDir}
      /\ stream[h].dir = NoDir =>
           stream[h] = NotListing /\ due[h] = {} /\ listed[h] = {} /\ changes[h] = {}

\* Only a request that has begun to fill its reply has anything in it.
BufferOK ==
    \A h \in Handles :
      /\ buffer[h] # <<>> =>
           \E t \in Threads : /\ Op(t, "readdir") /\ req[t].handle = h
                              /\ pc[t] \in {"fill", "return"}
      /\ \A i \in 1..Len(buffer[h]) : buffer[h][i][1] \in Visible

\* What is in the directory of a rmdir while no hook has locked it.
RmdirOf(t) ==
    /\ \/ pc[t] \in {"check", "delete"}
       \/ At(t, "return") /\ reply[t] = "notempty"
       => before[t] \subseteq Range(content[req[t].dir])
    /\ pc[t] \in {"delete", "unlink"} =>
         \A x \in Range(content[req[t].dir]) : IsPrefixed(x)
    /\ At(t, "unlink") => Range(content[req[t].dir]) \subseteq Range(snap[t])

RmdirOK ==
    \A t \in Threads : Op(t, "rmdir") /\ ~hooked[t] => RmdirOf(t)

HoldsInv == TypeOK /\ ControlOK /\ UsesOK /\ StreamsOK /\ BufferOK /\ RmdirOK

-----------------------------------------------------------------------------
(* One listing *)

Created(h) == "created" \in changes[h]
Removed(h) == "removed" \in changes[h]

\* x stands after position n of the directory that h lists.
After(h, x, n) ==
    \E i \in 1..Len(content[stream[h].dir]) : i > n /\ content[stream[h].dir][i] = x

\* x stands at no position after n of the directory that h lists.
NotAfter(h, x, n) ==
    \A i \in 1..Len(content[stream[h].dir]) : content[stream[h].dir][i] = x => i <= n

InPage(h, x) == \E i \in 1..Len(buffer[h]) : buffer[h][i][1] = x

\* t has a request to read the stream h.
Reads(t, h) == Op(t, "readdir") /\ req[t].handle = h

\* No reply is being filled for h.
Quiet(h) == \A t \in Threads : Reads(t, h) => At(t, "iterate")

HistoryOf(h) ==
    /\ Removed(h) => due[h] = {}
    /\ Created(h) => listed[h] = {}
    /\ stream[h].end => due[h] = {}
    /\ ~twice[h]

\* Between two replies what is due stands after the offset, and what was
\* listed does not.
PlaceOf(h) ==
    stream[h].dir # NoDir =>
      /\ Quiet(h) => \A x \in due[h] : After(h, x, stream[h].off)
      /\ \A x \in listed[h] : NotAfter(h, x, stream[h].off)

\* The entries of a reply: none was listed before, and none stands after the
\* place it has in the reply.
PageOf(h) ==
    /\ \A i \in 1..Len(buffer[h]) : buffer[h][i][2] <= buffer[h][Len(buffer[h])][2]
    /\ buffer[h] # <<>> => stream[h].off <= buffer[h][Len(buffer[h])][2]
    /\ ~Created(h) =>
         \A i \in 1..Len(buffer[h]) :
           /\ buffer[h][i][1] \notin listed[h]
           /\ NotAfter(h, buffer[h][i][1], buffer[h][i][2])

\* While t fills a reply, what is due is in it or is still to be visited.
FillOf(t, h) ==
    /\ \A x \in due[h] : InPage(h, x) \/ \E j \in 1..Len(snap[t]) : snap[t][j] = x
    /\ stream[h].off <= pos[t]
    /\ \A i \in 1..Len(buffer[h]) : buffer[h][i][2] <= pos[t]
    /\ ~Removed(h) => \A j \in 1..Len(snap[t]) : After(h, snap[t][j], pos[t] + j - 1)
    /\ ~Created(h) => \A j \in 1..Len(snap[t]) : /\ snap[t][j] \notin listed[h]
                                                 /\ NotAfter(h, snap[t][j], pos[t] + j)

\* When it is answered, what is due is in it or stands after its last entry.
AnswerOf(h) ==
    /\ buffer[h] = <<>> => due[h] = {}
    /\ \A x \in due[h] : InPage(h, x) \/ After(h, x, buffer[h][Len(buffer[h])][2])

ListingOf(h) ==
    /\ HistoryOf(h) /\ PlaceOf(h) /\ PageOf(h)
    /\ \A t \in Threads : Reads(t, h) => /\ At(t, "fill") => FillOf(t, h)
                                         /\ At(t, "return") => AnswerOf(h)

ListingInv == \A h \in Handles : ListingOf(h)

DInv == HoldsInv /\ ListingInv

-----------------------------------------------------------------------------
(* Sequences *)

\* InsertAt makes room for the new element and shifts what follows.
LEMMA InsertAtShifts ==
    ASSUME NEW S, NEW s \in Seq(S), NEW x \in S, NEW i \in 1..(Len(s) + 1)
    PROVE  /\ InsertAt(s, i, x) \in Seq(S)
           /\ Len(InsertAt(s, i, x)) = Len(s) + 1
           /\ \A k \in 1..(Len(s) + 1) :
                InsertAt(s, i, x)[k] = IF k < i THEN s[k] ELSE IF k = i THEN x ELSE s[k - 1]
<1> DEFINE front == SubSeq(s, 1, i - 1)
           back == SubSeq(s, i, Len(s))
<1>0. Len(s) \in Nat /\ i \in Nat /\ \A k \in 1..Len(s) : s[k] \in S
  BY ElementOfSeq, LenProperties
<1>1. /\ front \in Seq(S) /\ Len(front) = i - 1
      /\ \A k \in 1..(i - 1) : front[k] = s[k]
  <2>1. \A k \in 1..(i - 1) : s[k] \in S
    BY <1>0
  <2>2. 1 \in Int /\ i - 1 \in Int
    BY <1>0
  <2> QED BY <1>0, <2>1, <2>2, SubSeqProperties
<1>2. /\ back \in Seq(S) /\ Len(back) = Len(s) - i + 1
      /\ \A k \in 1..(Len(s) - i + 1) : back[k] = s[i + k - 1]
  <2>1. \A k \in i..Len(s) : s[k] \in S
    BY <1>0
  <2>2. i \in Int /\ Len(s) \in Int
    BY <1>0
  <2> QED BY <1>0, <2>1, <2>2, SubSeqProperties
<1> DEFINE mid == <<x>>
<1>3. mid \in Seq(S) /\ Len(mid) = 1 /\ mid[1] = x
  OBVIOUS
<1> HIDE DEF front, back, mid
<1> DEFINE fm == front \o mid
<1>4. /\ fm \in Seq(S) /\ Len(fm) = i
      /\ \A k \in 1..i : fm[k] = IF k < i THEN s[k] ELSE x
  <2>1. /\ fm \in Seq(S) /\ Len(fm) = Len(front) + Len(mid)
        /\ \A k \in 1..(Len(front) + Len(mid)) :
             fm[k] = IF k <= Len(front) THEN front[k] ELSE mid[k - Len(front)]
    BY <1>1, <1>3, ConcatProperties
  <2> QED BY <2>1, <1>0, <1>1, <1>3
<1> HIDE DEF fm
<1>5. /\ fm \o back \in Seq(S) /\ Len(fm \o back) = Len(fm) + Len(back)
      /\ \A k \in 1..(Len(fm) + Len(back)) :
           (fm \o back)[k] = IF k <= Len(fm) THEN fm[k] ELSE back[k - Len(fm)]
  BY <1>2, <1>4, ConcatProperties
<1>6. InsertAt(s, i, x) = fm \o back
  BY DEF InsertAt, fm, front, back, mid
<1> QED BY <1>0, <1>2, <1>4, <1>5, <1>6

\* RemoveAt closes the gap that the removed element leaves.
LEMMA RemoveAtShifts ==
    ASSUME NEW S, NEW s \in Seq(S), NEW i \in 1..Len(s)
    PROVE  /\ RemoveAt(s, i) \in Seq(S)
           /\ Len(RemoveAt(s, i)) = Len(s) - 1
           /\ \A k \in 1..(Len(s) - 1) :
                RemoveAt(s, i)[k] = IF k < i THEN s[k] ELSE s[k + 1]
<1> DEFINE front == SubSeq(s, 1, i - 1)
           back == SubSeq(s, i + 1, Len(s))
<1>0. Len(s) \in Nat /\ i \in Nat /\ \A k \in 1..Len(s) : s[k] \in S
  BY ElementOfSeq, LenProperties
<1>1. /\ front \in Seq(S) /\ Len(front) = i - 1
      /\ \A k \in 1..(i - 1) : front[k] = s[k]
  <2>1. \A k \in 1..(i - 1) : s[k] \in S
    BY <1>0
  <2>2. 1 \in Int /\ i - 1 \in Int
    BY <1>0
  <2> QED BY <1>0, <2>1, <2>2, SubSeqProperties
<1>2. /\ back \in Seq(S) /\ Len(back) = Len(s) - i
      /\ \A k \in 1..(Len(s) - i) : back[k] = s[i + k]
  <2>1. \A k \in (i + 1)..Len(s) : s[k] \in S
    BY <1>0
  <2>2. i + 1 \in Int /\ Len(s) \in Int
    BY <1>0
  <2> QED BY <1>0, <2>1, <2>2, SubSeqProperties
<1> HIDE DEF front, back
<1>3. /\ front \o back \in Seq(S) /\ Len(front \o back) = Len(front) + Len(back)
      /\ \A k \in 1..(Len(front) + Len(back)) :
           (front \o back)[k] = IF k <= Len(front) THEN front[k] ELSE back[k - Len(front)]
  BY <1>1, <1>2, ConcatProperties
<1>4. RemoveAt(s, i) = front \o back
  BY DEF RemoveAt, front, back
<1>5. Len(front) + Len(back) = Len(s) - 1
  BY <1>0, <1>1, <1>2
<1>6. ASSUME NEW k \in 1..(Len(s) - 1)
      PROVE  (front \o back)[k] = IF k < i THEN s[k] ELSE s[k + 1]
  <2>1. CASE k < i
    BY <2>1, <1>0, <1>1, <1>3, <1>5
  <2>2. CASE ~(k < i)
    <3>1. (front \o back)[k] = back[k - (i - 1)]
      BY <2>2, <1>0, <1>1, <1>3, <1>5
    <3>2. k - (i - 1) \in 1..(Len(s) - i) /\ i + (k - (i - 1)) = k + 1
      BY <2>2, <1>0
    <3>3. back[k - (i - 1)] = s[i + (k - (i - 1))]
      BY <3>2, <1>2
    <3> QED BY <3>1, <3>2, <3>3, <2>2
  <2> QED BY <2>1, <2>2
<1> QED BY <1>3, <1>4, <1>5, <1>6

\* The range of a sequence, by its positions.
LEMMA RangeByPosition ==
    ASSUME NEW S, NEW s \in Seq(S)
    PROVE  /\ \A x : x \in Range(s) <=> \E i \in 1..Len(s) : s[i] = x
           /\ Range(s) \subseteq S
           /\ Len(s) \in Nat
           /\ DOMAIN s = 1..Len(s)
           /\ s = <<>> <=> Len(s) = 0
<1>1. Range(s) = {s[i] : i \in 1..Len(s)}
  BY RangeEquality
<1>2. \A i \in 1..Len(s) : s[i] \in S
  BY ElementOfSeq
<1>3. Len(s) \in Nat /\ DOMAIN s = 1..Len(s)
  BY LenProperties
<1>4. s = <<>> <=> Len(s) = 0
  BY EmptySeq
<1> QED BY <1>1, <1>2, <1>3, <1>4

\* A sequence without repetition, by its positions.
LEMMA InjectiveByPosition ==
    ASSUME NEW S, NEW s \in Seq(S)
    PROVE  IsInjective(s) <=> \A i, j \in 1..Len(s) : s[i] = s[j] => i = j
BY LenProperties DEF IsInjective

\* Every element of s is found in u, and no earlier than in s.
Advances(s, u) == \A k \in 1..Len(s) : \E m \in 1..Len(u) : m >= k /\ u[m] = s[k]

\* How a step may change the entries of a directory: what only comes moves
\* the others on, what only goes lets them move up.
Rewrites(s, u) ==
    /\ u \in Seq(Entries) /\ IsInjective(u) /\ Len(u) <= MaxEntries
    /\ Range(s) \subseteq Range(u) => Advances(s, u)
    /\ Range(u) \subseteq Range(s) => Advances(u, s)

\* A new entry, put anywhere.
LEMMA InsertRewrites ==
    ASSUME NEW s \in Seq(Entries), IsInjective(s), Len(s) < MaxEntries,
           NEW x \in Entries, x \notin Range(s), NEW i \in 1..(Len(s) + 1)
    PROVE  /\ Rewrites(s, InsertAt(s, i, x))
           /\ Range(InsertAt(s, i, x)) = Range(s) \union {x}
<1>2. PICK u : u = InsertAt(s, i, x)
  OBVIOUS
<1>1. /\ u \in Seq(Entries) /\ Len(u) = Len(s) + 1
      /\ \A k \in 1..(Len(s) + 1) :
           u[k] = IF k < i THEN s[k] ELSE IF k = i THEN x ELSE s[k - 1]
  <2>1. /\ InsertAt(s, i, x) \in Seq(Entries)
        /\ Len(InsertAt(s, i, x)) = Len(s) + 1
        /\ \A k \in 1..(Len(s) + 1) :
             InsertAt(s, i, x)[k] = IF k < i THEN s[k] ELSE IF k = i THEN x ELSE s[k - 1]
    BY InsertAtShifts
  <2> QED BY <2>1, <1>2
<1>3. /\ \A y : y \in Range(s) <=> \E k \in 1..Len(s) : s[k] = y
      /\ Len(s) \in Nat /\ i \in Nat
  BY RangeByPosition
<1>4. \A y : y \in Range(u) <=> \E k \in 1..(Len(s) + 1) : u[k] = y
  BY <1>1, RangeByPosition
<1>5. \A k, m \in 1..Len(s) : s[k] = s[m] => k = m
  BY InjectiveByPosition
<1>6. Len(u) <= MaxEntries
  BY <1>1, <1>3, BoundsAssumption
<1>7. IsInjective(u)
  <2>1. ASSUME NEW k \in 1..(Len(s) + 1), NEW m \in 1..(Len(s) + 1), u[k] = u[m]
        PROVE  k = m
    <3>1. CASE k = i \/ m = i
      <4>1. \A n \in 1..(Len(s) + 1) : n # i => u[n] \in Range(s)
        BY <1>1, <1>3
      <4> QED BY <4>1, <3>1, <2>1, <1>1
    <3>2. CASE k # i /\ m # i
      <4> DEFINE old(n) == IF n < i THEN n ELSE n - 1
      <4>1. \A n \in 1..(Len(s) + 1) : n # i => old(n) \in 1..Len(s) /\ u[n] = s[old(n)]
        BY <1>1, <1>3
      <4>2. old(k) = old(m)
        <5> HIDE DEF old
        <5> QED BY <4>1, <3>2, <2>1, <1>5
      <4> QED BY <4>2, <3>2, <1>3
    <3> QED BY <3>1, <3>2
  <2> QED BY <2>1, <1>1, InjectiveByPosition
<1>8. Advances(s, u)
  <2>1. ASSUME NEW k \in 1..Len(s)
        PROVE  \E m \in 1..Len(u) : m >= k /\ u[m] = s[k]
    <3>1. CASE k < i
      BY <3>1, <1>1, <1>3
    <3>2. CASE ~(k < i)
      <4>1. k + 1 \in 1..Len(u) /\ k + 1 >= k /\ u[k + 1] = s[k]
        BY <3>2, <1>1, <1>3
      <4> QED BY <4>1
    <3> QED BY <3>1, <3>2
  <2> QED BY <2>1 DEF Advances
<1>9. Range(u) = Range(s) \union {x}
  <2>1. \A y : y \in Range(u) => y \in Range(s) \union {x}
    BY <1>1, <1>3, <1>4
  <2>2. x \in Range(u)
    BY <1>1, <1>3, <1>4
  <2>3. Range(s) \subseteq Range(u)
    BY <1>8, <1>1, <1>3, <1>4 DEF Advances
  <2> QED BY <2>1, <2>2, <2>3
<1> QED BY <1>1, <1>2, <1>6, <1>7, <1>8, <1>9 DEF Rewrites

\* Taking away an entry, or leaving the directory alone when it has gone.
LEMMA WithoutRewrites ==
    ASSUME NEW s \in Seq(Entries), IsInjective(s), Len(s) <= MaxEntries, NEW x
    PROVE  /\ Rewrites(s, Without(s, x))
           /\ Range(Without(s, x)) = Range(s) \ {x}
<1> DEFINE u == Without(s, x)
<1>0. /\ \A y : y \in Range(s) <=> \E k \in 1..Len(s) : s[k] = y
      /\ Len(s) \in Nat /\ DOMAIN s = 1..Len(s)
  BY RangeByPosition
<1>1. CASE x \notin Range(s)
  <2>1. u = s
    BY <1>1 DEF Without
  <2>2. Advances(s, s)
    BY <1>0 DEF Advances
  <2> QED BY <2>1, <2>2, <1>1 DEF Rewrites
<1>2. CASE x \in Range(s)
  <2> DEFINE i == CHOOSE n \in DOMAIN s : s[n] = x
  <2>1. i \in 1..Len(s) /\ s[i] = x
    BY <1>0, <1>2
  <2>2. u = RemoveAt(s, i)
    BY <1>2 DEF Without
  <2> HIDE DEF i, u
  <2>3. /\ u \in Seq(Entries) /\ Len(u) = Len(s) - 1
        /\ \A k \in 1..(Len(s) - 1) : u[k] = IF k < i THEN s[k] ELSE s[k + 1]
    BY <2>1, <2>2, RemoveAtShifts
  <2>4. \A y : y \in Range(u) <=> \E k \in 1..Len(u) : u[k] = y
    BY <2>3, RangeByPosition
  <2>5. \A k, m \in 1..Len(s) : s[k] = s[m] => k = m
    BY InjectiveByPosition
  <2>6. Len(u) <= MaxEntries
    BY <2>3, <1>0, BoundsAssumption
  <2>7. IsInjective(u)
    <3>1. ASSUME NEW k \in 1..Len(u), NEW m \in 1..Len(u), u[k] = u[m]
          PROVE  k = m
      <4> DEFINE old(n) == IF n < i THEN n ELSE n + 1
      <4>1. \A n \in 1..Len(u) : old(n) \in 1..Len(s) /\ u[n] = s[old(n)]
        BY <2>1, <2>3, <1>0
      <4>2. old(k) = old(m)
        <5> HIDE DEF old
        <5> QED BY <4>1, <3>1, <2>5
      <4>3. k \in Nat /\ m \in Nat /\ i \in Nat
        BY <2>1, <2>3, <1>0
      <4> QED BY <4>2, <4>3
    <3> QED BY <3>1, <2>3, InjectiveByPosition
  <2>8. Advances(u, s)
    <3>1. ASSUME NEW k \in 1..Len(u)
          PROVE  \E m \in 1..Len(s) : m >= k /\ s[m] = u[k]
      <4>1. CASE k < i
        BY <4>1, <2>1, <2>3, <1>0
      <4>2. CASE ~(k < i)
        <5>1. k + 1 \in 1..Len(s) /\ k + 1 >= k /\ s[k + 1] = u[k]
          BY <4>2, <2>1, <2>3, <1>0
        <5> QED BY <5>1
      <4> QED BY <4>1, <4>2
    <3> QED BY <3>1 DEF Advances
  <2>9. x \notin Range(u)
    <3>1. \A k \in 1..Len(u) : u[k] # x
      BY <2>1, <2>3, <2>5, <1>0
    <3> QED BY <3>1, <2>4
  <2>10. ASSUME NEW y \in Range(s), y # x
         PROVE  y \in Range(u)
    <3>1. PICK k \in 1..Len(s) : s[k] = y
      BY <1>0, <2>10
    <3>2. CASE k < i
      <4>1. k \in 1..Len(u) /\ u[k] = y
        BY <3>1, <3>2, <2>1, <2>3, <1>0
      <4> QED BY <4>1, <2>4
    <3>3. CASE ~(k < i)
      <4>1. k # i
        BY <3>1, <2>1, <2>10
      <4>2. k - 1 \in 1..Len(u) /\ u[k - 1] = y
        BY <4>1, <3>1, <3>3, <2>1, <2>3, <1>0
      <4> QED BY <4>2, <2>4
    <3> QED BY <3>2, <3>3
  <2>11. Range(u) \subseteq Range(s)
    BY <2>8, <2>4, <1>0 DEF Advances
  <2>12. Range(u) = Range(s) \ {x}
    BY <2>9, <2>10, <2>11
  <2>13. ~(Range(s) \subseteq Range(u))
    BY <2>9, <1>2
  <2> QED BY <2>3, <2>6, <2>7, <2>8, <2>12, <2>13 DEF Rewrites, u
<1> QED BY <1>1, <1>2

-----------------------------------------------------------------------------
(* Requests, and changes of a directory *)

\* The fields of a request.
LEMMA RequestFields ==
    ASSUME TypeOK, NEW t \in Threads, req[t] # NoRequest
    PROVE  /\ req[t] \in Requests
           /\ req[t].dir \in Dirs
           /\ req[t].op \in {"readdir", "rmdir"}
           /\ req[t].op = "readdir" => req[t].handle \in Handles
<1>1. req[t] \in Requests
  BY DEF TypeOK
<1> QED BY <1>1 DEF Requests

\* What Change does to the variables it writes.
LEMMA ChangeWrites ==
    ASSUME TypeOK, NEW d \in DOMAIN content, NEW entries,
           Rewrites(content[d], entries), Change(d, entries)
    PROVE  /\ content' = [content EXCEPT ![d] = entries]
           /\ \A e \in DOMAIN content : /\ content'[e] \in Seq(Entries)
                                        /\ IsInjective(content'[e])
                                        /\ Len(content'[e]) <= MaxEntries
           /\ changes' \in [Handles -> SUBSET {"created", "removed"}]
           /\ due' \in [Handles -> SUBSET Visible]
           /\ listed' \in [Handles -> SUBSET Entries]
           /\ twice' = twice
           /\ \A h \in Handles :
                /\ changes[h] \subseteq changes'[h]
                /\ stream[h].dir # d => changes'[h] = changes[h]
                /\ stream[h].dir = d =>
                     /\ Range(entries) \subseteq Range(content[d]) \/ "created" \in changes'[h]
                     /\ Range(content[d]) \subseteq Range(entries) \/ "removed" \in changes'[h]
                /\ due'[h] = IF "removed" \in changes'[h] THEN {} ELSE due[h]
                /\ listed'[h] = IF "created" \in changes'[h] THEN {} ELSE listed[h]
<1>1. /\ content' = [content EXCEPT ![d] = entries]
      /\ twice' = twice
      /\ due' = [h \in Handles |-> IF "removed" \in changes'[h] THEN {} ELSE due[h]]
      /\ listed' = [h \in Handles |-> IF "created" \in changes'[h] THEN {} ELSE listed[h]]
  BY DEF Change
<1>2. \A e \in DOMAIN content : /\ content'[e] \in Seq(Entries)
                                /\ IsInjective(content'[e])
                                /\ Len(content'[e]) <= MaxEntries
  <2>1. ASSUME NEW e \in DOMAIN content
        PROVE  content'[e] = IF e = d THEN entries ELSE content[e]
    BY <1>1
  <2>2. entries \in Seq(Entries) /\ IsInjective(entries) /\ Len(entries) <= MaxEntries
    BY DEF Rewrites
  <2>3. \A e \in DOMAIN content : /\ content[e] \in Seq(Entries) /\ IsInjective(content[e])
                                  /\ Len(content[e]) <= MaxEntries
    BY DEF TypeOK
  <2> QED BY <2>1, <2>2, <2>3
<1> DEFINE new == IF Range(entries) \subseteq Range(content[d]) THEN {} ELSE {"created"}
           gone == IF Range(content[d]) \subseteq Range(entries) THEN {} ELSE {"removed"}
<1>3. changes' = [h \in Handles |-> IF h \in Streams(d) THEN changes[h] \union new \union gone
                                    ELSE changes[h]]
  BY DEF Change
<1>4. new \subseteq {"created"} /\ gone \subseteq {"removed"}
  OBVIOUS
<1>5. /\ Range(entries) \subseteq Range(content[d]) \/ "created" \in new
      /\ Range(content[d]) \subseteq Range(entries) \/ "removed" \in gone
  OBVIOUS
<1> HIDE DEF new, gone
<1>6. changes \in [Handles -> SUBSET {"created", "removed"}]
  BY DEF TypeOK
<1>7. changes' \in [Handles -> SUBSET {"created", "removed"}]
  <2>1. \A h \in Handles : changes[h] \union new \union gone \in SUBSET {"created", "removed"}
    BY <1>4, <1>6
  <2> QED BY <1>3, <1>6, <2>1
<1>8. /\ due' \in [Handles -> SUBSET Visible]
      /\ listed' \in [Handles -> SUBSET Entries]
  <2>1. due \in [Handles -> SUBSET Visible] /\ listed \in [Handles -> SUBSET Entries]
    BY DEF TypeOK
  <2> QED BY <1>1, <2>1
<1>9. ASSUME NEW h \in Handles
      PROVE  /\ changes[h] \subseteq changes'[h]
             /\ stream[h].dir # d => changes'[h] = changes[h]
             /\ stream[h].dir = d =>
                  /\ Range(entries) \subseteq Range(content[d]) \/ "created" \in changes'[h]
                  /\ Range(content[d]) \subseteq Range(entries) \/ "removed" \in changes'[h]
  <2>1. h \in Streams(d) <=> stream[h].dir = d
    BY DEF Streams
  <2>2. changes'[h] = IF h \in Streams(d) THEN changes[h] \union new \union gone ELSE changes[h]
    BY <1>3
  <2> QED BY <2>1, <2>2, <1>5
<1>10. \A h \in Handles :
         /\ due'[h] = IF "removed" \in changes'[h] THEN {} ELSE due[h]
         /\ listed'[h] = IF "created" \in changes'[h] THEN {} ELSE listed[h]
  BY <1>1
<1> QED BY <1>1, <1>2, <1>7, <1>8, <1>9, <1>10

\* A directory that changes keeps what does not depend on its entries.
LEMMA ChangeKeepsUses ==
    ASSUME HoldsInv, NEW d \in DOMAIN content, NEW entries,
           Rewrites(content[d], entries), Change(d, entries),
           UNCHANGED <<stream, buffer, filler, pc, req, pos, reply>>,
           snap' \in [Threads -> Seq(Entries)],
           \A u \in Threads : At(u, "fill") => snap'[u] = snap[u],
           before' \in [Threads -> SUBSET Entries], hooked' \in [Threads -> BOOLEAN]
    PROVE  TypeOK' /\ ControlOK' /\ UsesOK' /\ StreamsOK' /\ BufferOK'
<1>1. TypeOK /\ ControlOK /\ UsesOK /\ StreamsOK /\ BufferOK
  BY DEF HoldsInv
<1>2. DOMAIN content' = DOMAIN content
  BY <1>1, ChangeWrites
<1>3. TypeOK'
  <2>1. \A e \in DOMAIN content : /\ content'[e] \in Seq(Entries)
                                  /\ IsInjective(content'[e])
                                  /\ Len(content'[e]) <= MaxEntries
    BY <1>1, ChangeWrites
  <2>2. /\ changes' \in [Handles -> SUBSET {"created", "removed"}]
        /\ due' \in [Handles -> SUBSET Visible]
        /\ listed' \in [Handles -> SUBSET Entries]
        /\ twice' = twice
    BY <1>1, ChangeWrites
  <2> QED BY <1>1, <1>2, <2>1, <2>2 DEF TypeOK
<1>4. ControlOK'
  BY <1>1 DEF ControlOK, At, Op
<1>5. UsesOK'
  BY <1>1, <1>2 DEF UsesOK, At, Op, DirectoryThere
<1>6. StreamsOK'
  <2>1. ASSUME NEW h \in Handles
        PROVE  /\ stream'[h].dir \in DOMAIN content' \union {NoDir}
               /\ stream'[h].dir = NoDir =>
                    /\ stream'[h] = NotListing
                    /\ due'[h] = {} /\ listed'[h] = {} /\ changes'[h] = {}
    <3>1. /\ stream[h].dir # d => changes'[h] = changes[h]
          /\ due'[h] = IF "removed" \in changes'[h] THEN {} ELSE due[h]
          /\ listed'[h] = IF "created" \in changes'[h] THEN {} ELSE listed[h]
      BY <1>1, ChangeWrites
    <3>2. d # NoDir
      BY <1>1, NoDirAssumption DEF TypeOK
    <3> QED BY <1>1, <1>2, <3>1, <3>2 DEF StreamsOK
  <2> QED BY <2>1 DEF StreamsOK
<1>7. BufferOK'
  BY <1>1 DEF BufferOK, Op
<1> QED BY <1>3, <1>4, <1>5, <1>6, <1>7

-----------------------------------------------------------------------------
(* Each step keeps HoldsInv *)

\* Nobody holds anything at first.
LEMMA InitHolds == Init => HoldsInv
<1> SUFFICES ASSUME Init PROVE HoldsInv
  OBVIOUS
<1>1. TypeOK
  <2>1. \A S : <<>> \in Seq(S) /\ Len(<<>>) = 0
    BY EmptySeq
  <2>2. IsInjective(<<>>)
    BY DEF IsInjective
  <2> QED BY <2>1, <2>2, BoundsAssumption DEF Init, TypeOK, NotListing
<1>2. ControlOK
  BY DEF Init, ControlOK, At, Op
<1>3. UsesOK /\ StreamsOK /\ RmdirOK
  BY DEF Init, UsesOK, StreamsOK, RmdirOK, RmdirOf, Op, NotListing
<1>4. BufferOK
  <2>1. Len(<<>>) = 0
    BY EmptySeq
  <2> QED BY <2>1 DEF Init, BufferOK
<1> QED BY <1>1, <1>2, <1>3, <1>4 DEF HoldsInv

\* A page is asked for.
LEMMA BeginReaddirKeepsHolds ==
    ASSUME HoldsInv, NEW t \in Threads, NEW h \in Handles, BeginReaddir(t, h)
    PROVE  HoldsInv'
<1> DEFINE d == stream[h].dir
           r == [op |-> "readdir", dir |-> d, handle |-> h]
<1>1. TypeOK /\ ControlOK /\ UsesOK /\ StreamsOK /\ BufferOK /\ RmdirOK
  BY DEF HoldsInv
<1>2. /\ At(t, "idle") /\ ~stream[h].end /\ ~Listing(h) /\ ~Removing(d)
      /\ pc' = [pc EXCEPT ![t] = "iterate"]
      /\ req' = [req EXCEPT ![t] = r]
      /\ filler' = [filler EXCEPT ![t] = h]
      /\ UNCHANGED <<content, stream, buffer, snap, pos, reply, streamHistory, before, hooked>>
  BY DEF BeginReaddir, Begin, SetFiller, Goto
<1>3. d \in DOMAIN content
  BY <1>1, <1>2 DEF StreamsOK, NotListing
<1>4. r \in Requests /\ r # NoRequest
  BY <1>1, <1>3, NoRequestAssumption DEF TypeOK, Requests
<1>5. r.op = "readdir" /\ r.dir = d /\ r.handle = h
  OBVIOUS
<1>6. /\ req \in [Threads -> Requests \union {NoRequest}]
      /\ pc \in [Threads -> {"idle", "return", "iterate", "fill", "check", "delete", "unlink"}]
      /\ filler \in [Threads -> Handles \union {NoHandle}]
  BY <1>1 DEF TypeOK
<1>7. req[t] = NoRequest
  BY <1>1, <1>2 DEF ControlOK
<1> HIDE DEF r
<1>8. TypeOK'
  BY <1>1, <1>2, <1>4 DEF TypeOK, streamHistory
<1>9. ControlOK'
  BY <1>1, <1>2, <1>4, <1>5, <1>6 DEF ControlOK, At, Op
<1>10. UsesOK'
  <2>1. \A u \in Threads : req[u] # NoRequest => DirectoryThere(u)
    BY <1>1 DEF UsesOK
  <2>2. \A u \in Threads : req'[u] # NoRequest => DirectoryThere(u)'
    BY <2>1, <1>2, <1>3, <1>5, <1>6 DEF DirectoryThere, At
  <2>3. \A u \in Threads : Op(u, "rmdir") => req[u].dir # d
    BY <1>2 DEF Removing, Busy, Op
  <2>4. \A u \in Threads : Op(u, "readdir") => req[u].handle # h
    BY <1>1, <1>2 DEF Listing, Busy, Op, UsesOK
  <2>5. \A u, v \in Threads :
          Op(u, "rmdir")' /\ req'[v] # NoRequest /\ req'[v].dir = req'[u].dir => v = u
    BY <2>3, <1>1, <1>2, <1>4, <1>5, <1>6 DEF UsesOK, Op
  <2>6. \A u \in Threads :
          Op(u, "readdir")' => /\ stream'[req'[u].handle].dir = req'[u].dir
                               /\ ~stream'[req'[u].handle].end
    BY <1>1, <1>2, <1>5, <1>6 DEF UsesOK, Op
  <2>7. \A u, v \in Threads :
          Op(u, "readdir")' /\ Op(v, "readdir")' /\ req'[v].handle = req'[u].handle => v = u
    BY <2>4, <1>1, <1>2, <1>5, <1>6 DEF UsesOK, Op
  <2> QED BY <2>2, <2>5, <2>6, <2>7 DEF UsesOK
<1>11. StreamsOK'
  BY <1>1, <1>2 DEF StreamsOK, streamHistory
<1>12. BufferOK'
  BY <1>1, <1>2, <1>6, <1>7 DEF BufferOK, Op, streamHistory
<1>13. RmdirOK'
  BY <1>1, <1>2, <1>5, <1>6 DEF RmdirOK, RmdirOf, Op, At
<1> QED BY <1>8, <1>9, <1>10, <1>11, <1>12, <1>13 DEF HoldsInv

\* The part of the directory after the offset is read.
LEMMA IterateReads ==
    ASSUME HoldsInv, NEW t \in Threads, Iterate(t)
    PROVE  LET s == content[req[t].dir]
               off == stream[req[t].handle].off
           IN  /\ Op(t, "readdir")
               /\ req[t].handle \in Handles
               /\ req[t].dir \in DOMAIN content
               /\ off \in Nat /\ off <= MaxEntries
               /\ s \in Seq(Entries) /\ Len(s) \in Nat /\ Len(s) <= MaxEntries
               /\ snap'[t] \in Seq(Entries)
               /\ pos'[t] = off
               /\ Len(snap'[t]) = IF off <= Len(s) THEN Len(s) - off ELSE 0
               /\ \A j \in 1..Len(snap'[t]) : snap'[t][j] = s[off + j]
<1> DEFINE s == content[req[t].dir]
           off == stream[req[t].handle].off
<1>1. TypeOK /\ ControlOK /\ UsesOK
  BY DEF HoldsInv
<1>2. /\ At(t, "iterate")
      /\ snap' = [snap EXCEPT ![t] = SubSeq(s, off + 1, Len(s))]
      /\ pos' = [pos EXCEPT ![t] = off]
  BY DEF Iterate
<1>3. Op(t, "readdir")
  BY <1>1, <1>2 DEF ControlOK, At
<1>4. req[t].handle \in Handles
  BY <1>1, <1>3, RequestFields DEF Op
<1>5. req[t].dir \in DOMAIN content
  BY <1>1, <1>2, <1>3 DEF UsesOK, DirectoryThere, Op, At
<1>6. s \in Seq(Entries) /\ Len(s) <= MaxEntries
  BY <1>1, <1>5 DEF TypeOK
<1>7. off \in Nat /\ off <= MaxEntries
  BY <1>1, <1>4, BoundsAssumption DEF TypeOK
<1>8. Len(s) \in Nat /\ \A i \in 1..Len(s) : s[i] \in Entries
  BY <1>6, LenProperties, ElementOfSeq
<1> DEFINE rest == SubSeq(s, off + 1, Len(s))
<1>9. snap'[t] = rest /\ pos'[t] = off
  BY <1>1, <1>2 DEF TypeOK
<1> HIDE DEF s, off
<1>10. /\ rest \in Seq(Entries)
       /\ Len(rest) = IF off <= Len(s) THEN Len(s) - off ELSE 0
       /\ \A j \in 1..Len(rest) : rest[j] = s[off + j]
  <2>1. \A i \in (off + 1)..Len(s) : s[i] \in Entries
    BY <1>7, <1>8
  <2>2. off + 1 \in Int /\ Len(s) \in Int
    BY <1>7, <1>8
  <2>3. /\ rest \in Seq(Entries)
        /\ Len(rest) = IF off + 1 <= Len(s) THEN Len(s) - (off + 1) + 1 ELSE 0
        /\ \A j \in 1..(Len(s) - (off + 1) + 1) : rest[j] = s[off + 1 + j - 1]
    BY <2>1, <2>2, SubSeqProperties
  <2>4. Len(rest) = IF off <= Len(s) THEN Len(s) - off ELSE 0
    BY <2>3, <1>7, <1>8
  <2>5. ASSUME NEW j \in 1..Len(rest)
        PROVE  rest[j] = s[off + j]
    <3>1. j \in 1..(Len(s) - (off + 1) + 1) /\ off + 1 + j - 1 = off + j
      BY <2>4, <1>7, <1>8
    <3> QED BY <3>1, <2>3
  <2> QED BY <2>3, <2>4, <2>5
<1> HIDE DEF rest
<1> QED BY <1>3, <1>4, <1>5, <1>6, <1>7, <1>8, <1>9, <1>10 DEF s, off

\* Reading the directory fills the thread's list, and nothing else.
LEMMA IterateKeepsHolds ==
    ASSUME HoldsInv, NEW t \in Threads, Iterate(t)
    PROVE  HoldsInv'
<1>1. TypeOK /\ ControlOK /\ UsesOK /\ StreamsOK /\ BufferOK /\ RmdirOK
  BY DEF HoldsInv
<1>2. /\ At(t, "iterate")
      /\ pc' = [pc EXCEPT ![t] = "fill"]
      /\ \A u \in Threads : u # t => snap'[u] = snap[u] /\ pos'[u] = pos[u]
      /\ DOMAIN snap' = DOMAIN snap /\ DOMAIN pos' = DOMAIN pos
      /\ snap' = [snap EXCEPT ![t] = snap'[t]]
      /\ pos' = [pos EXCEPT ![t] = pos'[t]]
      /\ UNCHANGED <<content, stream, buffer, filler, req, reply, history>>
  BY <1>1 DEF Iterate, Goto, TypeOK
<1>3. /\ Op(t, "readdir")
      /\ snap'[t] \in Seq(Entries) /\ Len(snap'[t]) \in Nat
      /\ pos'[t] \in 0..MaxEntries
      /\ snap'[t] # <<>> => pos'[t] + Len(snap'[t]) <= MaxEntries
  <2>1. snap'[t] # <<>> <=> Len(snap'[t]) # 0
    BY IterateReads, RangeByPosition
  <2> QED BY <2>1, IterateReads, BoundsAssumption
<1>4. TypeOK'
  BY <1>1, <1>2, <1>3 DEF TypeOK, history, streamHistory
<1>5. pc \in [Threads -> {"idle", "return", "iterate", "fill", "check", "delete", "unlink"}]
  BY <1>1 DEF TypeOK
<1>6. ControlOK'
  BY <1>1, <1>2, <1>3, <1>5 DEF ControlOK, At, Op
<1>7. UsesOK'
  BY <1>1, <1>2, <1>5 DEF UsesOK, Op, At, DirectoryThere
<1>8. StreamsOK'
  BY <1>1, <1>2 DEF StreamsOK, history, streamHistory
<1>9. BufferOK'
  BY <1>1, <1>2, <1>5 DEF BufferOK, Op, At
<1>10. RmdirOK'
  BY <1>1, <1>2, <1>3, <1>5 DEF RmdirOK, RmdirOf, Op, At, history
<1> QED BY <1>4, <1>6, <1>7, <1>8, <1>9, <1>10 DEF HoldsInv

\* One entry is visited: it is added to the reply, or passed over because it is
\* hidden or gone.
LEMMA FillVisits ==
    ASSUME HoldsInv, NEW t \in Threads, Fill(t)
    PROVE  LET h == req[t].handle
               x == snap[t][1]
               n == Len(buffer[h])
           IN  /\ Op(t, "readdir") /\ At(t, "fill")
               /\ h \in Handles
               /\ req[t].dir \in DOMAIN content
               /\ x \in Entries
               /\ pos[t] \in Nat /\ pos'[t] = pos[t] + 1 /\ pos[t] + 1 <= MaxEntries
               /\ Len(snap[t]) \in Nat \ {0}
               /\ snap'[t] \in Seq(Entries) /\ Len(snap'[t]) = Len(snap[t]) - 1
               /\ \A j \in 1..Len(snap'[t]) : snap'[t][j] = snap[t][j + 1]
               /\ snap'[t] # <<>> => pos'[t] + Len(snap'[t]) <= MaxEntries
               /\ n \in Nat
               /\ \/ /\ x \in Visible
                     /\ buffer'[h] \in Seq(Entries \X (1..MaxEntries))
                     /\ Len(buffer'[h]) = n + 1
                     /\ \A i \in 1..n : buffer'[h][i] = buffer[h][i]
                     /\ buffer'[h][n + 1] = <<x, pos[t] + 1>>
                  \/ /\ ~Shown(t)
                     /\ buffer'[h] = buffer[h]
               /\ \A g \in Handles : g # h => buffer'[g] = buffer[g]
               /\ DOMAIN buffer' = DOMAIN buffer
               /\ buffer'[h] \in Seq(Entries \X (1..MaxEntries))
<1> DEFINE h == req[t].handle
           x == snap[t][1]
           n == Len(buffer[h])
           e == <<x, pos[t] + 1>>
           E == Entries \X (1..MaxEntries)
<1>1. TypeOK /\ ControlOK /\ UsesOK
  BY DEF HoldsInv
<1>2. /\ At(t, "fill") /\ snap[t] # <<>>
      /\ snap' = [snap EXCEPT ![t] = Tail(snap[t])]
      /\ pos' = [pos EXCEPT ![t] = pos[t] + 1]
  BY DEF Fill
<1>3. Op(t, "readdir") /\ filler[t] = h /\ pos[t] + Len(snap[t]) <= MaxEntries
  BY <1>1, <1>2 DEF ControlOK, At
<1>4. h \in Handles
  BY <1>1, <1>3, RequestFields DEF Op
<1>5. req[t].dir \in DOMAIN content
  BY <1>1, <1>2, <1>3 DEF UsesOK, DirectoryThere, Op, At
<1>6. /\ snap[t] \in Seq(Entries) /\ pos[t] \in 0..MaxEntries /\ buffer[h] \in Seq(E)
      /\ buffer \in [Handles -> Seq(E)]
  BY <1>1, <1>4 DEF TypeOK
<1>7. Len(snap[t]) \in Nat \ {0} /\ pos[t] \in Nat /\ n \in Nat
  BY <1>2, <1>6, EmptySeq, LenProperties
<1>8. x \in Entries
  BY <1>6, <1>7, ElementOfSeq
<1>9. snap'[t] = Tail(snap[t]) /\ pos'[t] = pos[t] + 1
  BY <1>1, <1>2 DEF TypeOK
<1>10. /\ snap'[t] \in Seq(Entries) /\ Len(snap'[t]) = Len(snap[t]) - 1
       /\ \A j \in 1..Len(snap'[t]) : snap'[t][j] = snap[t][j + 1]
  <2>1. /\ Tail(snap[t]) \in Seq(Entries) /\ Len(Tail(snap[t])) = Len(snap[t]) - 1
        /\ \A j \in 1..Len(Tail(snap[t])) : Tail(snap[t])[j] = snap[t][j + 1]
    <3> DEFINE s == snap[t]
    <3>1. s \in Seq(Entries) /\ s # <<>>
      BY <1>2, <1>6
    <3> HIDE DEF s
    <3>2. /\ Tail(s) \in Seq(Entries) /\ Len(Tail(s)) = Len(s) - 1
          /\ \A j \in 1..Len(Tail(s)) : Tail(s)[j] = s[j + 1]
      BY <3>1, HeadTailProperties
    <3> QED BY <3>2 DEF s
  <2> QED BY <1>9, <2>1
<1>11. pos[t] + 1 \in 1..MaxEntries
  BY <1>3, <1>7, BoundsAssumption
<1>12. pos'[t] + Len(snap'[t]) <= MaxEntries
  BY <1>3, <1>7, <1>9, <1>10, BoundsAssumption
<1>13. e \in E
  BY <1>8, <1>11
<1> HIDE DEF h, x, n, E
<1>14. /\ \/ /\ x \in Visible
             /\ Len(buffer'[h]) = n + 1
             /\ \A i \in 1..n : buffer'[h][i] = buffer[h][i]
             /\ buffer'[h][n + 1] = e
          \/ ~Shown(t) /\ buffer'[h] = buffer[h]
       /\ \A g \in Handles : g # h => buffer'[g] = buffer[g]
       /\ DOMAIN buffer' = DOMAIN buffer
       /\ buffer'[h] \in Seq(E)
  <2>1. CASE /\ Shown(t) /\ ~Full(t)
             /\ buffer' = [buffer EXCEPT ![filler[t]] = Append(@, <<snap[t][1], pos[t] + 1>>)]
    <3>1. buffer' = [buffer EXCEPT ![h] = Append(buffer[h], e)]
      BY <1>3, <2>1 DEF x
    <3>2. buffer'[h] = Append(buffer[h], e) /\ DOMAIN buffer' = DOMAIN buffer
      BY <3>1, <1>4, <1>6
    <3>3. \A g \in Handles : g # h => buffer'[g] = buffer[g]
      BY <3>1, <1>6
    <3>4. x \in Visible
      BY <1>8, <2>1 DEF Shown, Visible, IsPrefixed, x
    <3>5. /\ buffer'[h] \in Seq(E)
          /\ Len(buffer'[h]) = n + 1
          /\ \A i \in 1..n : buffer'[h][i] = buffer[h][i]
          /\ buffer'[h][n + 1] = e
      <4> HIDE DEF e
      <4> QED BY <3>2, <1>6, <1>13, AppendProperties DEF n
    <3> QED BY <3>2, <3>3, <3>4, <3>5
  <2>2. CASE ~Shown(t) /\ UNCHANGED buffer
    BY <1>6, <2>2
  <2> QED BY <2>1, <2>2 DEF Fill
<1>15. /\ Op(t, "readdir") /\ At(t, "fill")
       /\ Len(snap[t]) \in Nat \ {0}
       /\ pos[t] \in Nat /\ pos'[t] = pos[t] + 1 /\ pos[t] + 1 <= MaxEntries
       /\ snap'[t] # <<>> => pos'[t] + Len(snap'[t]) <= MaxEntries
  BY <1>2, <1>3, <1>7, <1>9, <1>11, <1>12
<1> QED BY <1>4, <1>5, <1>7, <1>8, <1>10, <1>14, <1>15 DEF h, x, n, E

\* What is added to a reply is visible, and the reply is the request's own.
LEMMA FillKeepsHolds ==
    ASSUME HoldsInv, NEW t \in Threads, Fill(t)
    PROVE  HoldsInv'
<1> DEFINE h == req[t].handle
<1>1. TypeOK /\ ControlOK /\ UsesOK /\ StreamsOK /\ BufferOK /\ RmdirOK
  BY DEF HoldsInv
<1>2. /\ At(t, "fill")
      /\ \A u \in Threads : u # t => snap'[u] = snap[u] /\ pos'[u] = pos[u]
      /\ snap' = [snap EXCEPT ![t] = snap'[t]]
      /\ pos' = [pos EXCEPT ![t] = pos'[t]]
      /\ UNCHANGED <<content, stream, filler, pc, req, reply, history>>
  BY <1>1 DEF Fill, TypeOK
<1>3. /\ Op(t, "readdir") /\ h \in Handles
      /\ \A g \in Handles : g # h => buffer'[g] = buffer[g]
      /\ DOMAIN buffer' = DOMAIN buffer
      /\ buffer'[h] \in Seq(Entries \X (1..MaxEntries))
  BY FillVisits
<1>4. TypeOK'
  <2>1. snap'[t] \in Seq(Entries) /\ pos'[t] \in 0..MaxEntries
    BY FillVisits, BoundsAssumption
  <2>2. buffer' \in [Handles -> Seq(Entries \X (1..MaxEntries))]
    <3>1. buffer' = [g \in Handles |-> buffer'[g]]
      BY <1>1, <1>3 DEF TypeOK, Fill
    <3>2. \A g \in Handles : buffer'[g] \in Seq(Entries \X (1..MaxEntries))
      BY <1>1, <1>3 DEF TypeOK
    <3> QED BY <3>1, <3>2
  <2> QED BY <1>1, <1>2, <2>1, <2>2 DEF TypeOK, history, streamHistory
<1>5. ControlOK'
  BY <1>1, <1>2, FillVisits DEF ControlOK, At, Op
<1>6. UsesOK'
  BY <1>1, <1>2 DEF UsesOK, Op, At, DirectoryThere
<1>7. StreamsOK'
  BY <1>1, <1>2 DEF StreamsOK, history, streamHistory
<1>8. BufferOK'
  <2>1. \A i \in 1..Len(buffer'[h]) : buffer'[h][i][1] \in Visible
    <3> DEFINE n == Len(buffer[h])
               x == snap[t][1]
    <3>1. \A i \in 1..n : buffer[h][i][1] \in Visible
      BY <1>1, <1>3 DEF BufferOK
    <3>2. /\ n \in Nat
          /\ \/ /\ x \in Visible
                /\ Len(buffer'[h]) = n + 1
                /\ \A i \in 1..n : buffer'[h][i] = buffer[h][i]
                /\ buffer'[h][n + 1] = <<x, pos[t] + 1>>
             \/ buffer'[h] = buffer[h]
      BY FillVisits
    <3> HIDE DEF x
    <3>3. CASE /\ x \in Visible
               /\ Len(buffer'[h]) = n + 1
               /\ \A i \in 1..n : buffer'[h][i] = buffer[h][i]
               /\ buffer'[h][n + 1] = <<x, pos[t] + 1>>
      <4>1. \A i \in 1..(n + 1) : i \in 1..n \/ i = n + 1
        BY <3>2
      <4>2. buffer'[h][n + 1][1] \in Visible
        BY <3>3
      <4> QED BY <3>1, <3>3, <4>1, <4>2
    <3>4. CASE buffer'[h] = buffer[h]
      BY <3>1, <3>4
    <3> QED BY <3>2, <3>3, <3>4
  <2>2. \A g \in Handles : g # h => 
          /\ buffer'[g] # <<>> => \E u \in Threads : /\ Op(u, "readdir") /\ req[u].handle = g
                                                     /\ pc[u] \in {"fill", "return"}
          /\ \A i \in 1..Len(buffer'[g]) : buffer'[g][i][1] \in Visible
    BY <1>1, <1>3 DEF BufferOK
  <2>3. UNCHANGED <<pc, req>>
    BY <1>2
  <2> QED BY <1>2, <1>3, <2>1, <2>2, <2>3 DEF BufferOK, Op, At
<1>9. RmdirOK'
  BY <1>1, <1>2, <1>3 DEF RmdirOK, RmdirOf, Op, At, history
<1> QED BY <1>4, <1>5, <1>6, <1>7, <1>8, <1>9 DEF HoldsInv

\* The reply is answered and stays with its request.
LEMMA FillEndsKeepsHolds ==
    ASSUME HoldsInv, NEW t \in Threads, FillEnds(t)
    PROVE  HoldsInv'
<1>1. TypeOK /\ ControlOK /\ UsesOK /\ StreamsOK /\ BufferOK /\ RmdirOK
  BY DEF HoldsInv
<1>2. /\ At(t, "fill")
      /\ pc' = [pc EXCEPT ![t] = "return"]
      /\ reply' = [reply EXCEPT ![t] = "ok"]
      /\ snap' = [snap EXCEPT ![t] = <<>>]
      /\ pos' = [pos EXCEPT ![t] = 0]
      /\ UNCHANGED <<content, stream, buffer, filler, req, history>>
  BY DEF FillEnds, Answer, Goto
<1>3. pc \in [Threads -> {"idle", "return", "iterate", "fill", "check", "delete", "unlink"}]
  BY <1>1 DEF TypeOK
<1>4. Op(t, "readdir")
  BY <1>1, <1>2 DEF ControlOK, At
<1>5. TypeOK'
  BY <1>1, <1>2, EmptySeq, BoundsAssumption DEF TypeOK, history, streamHistory
<1>6. ControlOK'
  BY <1>1, <1>2, <1>3, <1>4 DEF ControlOK, At, Op, TypeOK
<1>7. UsesOK'
  BY <1>1, <1>2, <1>3, <1>4 DEF UsesOK, Op, At, DirectoryThere, TypeOK
<1>8. StreamsOK'
  BY <1>1, <1>2 DEF StreamsOK, history, streamHistory
<1>9. BufferOK'
  BY <1>1, <1>2, <1>3 DEF BufferOK, Op, At
<1>10. RmdirOK'
  BY <1>1, <1>2, <1>3, <1>4 DEF RmdirOK, RmdirOf, Op, At, history, TypeOK
<1> QED BY <1>5, <1>6, <1>7, <1>8, <1>9, <1>10 DEF HoldsInv

\* What Done does.
LEMMA DoneFrees ==
    ASSUME TypeOK, NEW t \in Threads, Done(t)
    PROVE  /\ At(t, "return")
           /\ pc' = [pc EXCEPT ![t] = "idle"]
           /\ req' = [req EXCEPT ![t] = NoRequest]
           /\ snap' = [snap EXCEPT ![t] = <<>>]
           /\ pos' = [pos EXCEPT ![t] = 0]
           /\ reply' = [reply EXCEPT ![t] = "none"]
           /\ before' = [before EXCEPT ![t] = {}]
           /\ hooked' = [hooked EXCEPT ![t] = FALSE]
           /\ filler' = [filler EXCEPT ![t] = NoHandle]
           /\ content' = content
           /\ snap' \in [Threads -> Seq(Entries)]
           /\ pos' \in [Threads -> 0..MaxEntries]
           /\ pc' \in [Threads -> {"idle", "return", "iterate", "fill", "check", "delete",
                                   "unlink"}]
           /\ req' \in [Threads -> Requests \union {NoRequest}]
           /\ reply' \in [Threads -> {"none", "ok", "notempty"}]
           /\ before' \in [Threads -> SUBSET Entries]
           /\ hooked' \in [Threads -> BOOLEAN]
           /\ filler' \in [Threads -> Handles \union {NoHandle}]
<1>1. /\ At(t, "return")
      /\ pc' = [pc EXCEPT ![t] = "idle"]
      /\ req' = [req EXCEPT ![t] = NoRequest]
      /\ snap' = [snap EXCEPT ![t] = <<>>]
      /\ pos' = [pos EXCEPT ![t] = 0]
      /\ reply' = [reply EXCEPT ![t] = "none"]
      /\ before' = [before EXCEPT ![t] = {}]
      /\ hooked' = [hooked EXCEPT ![t] = FALSE]
      /\ filler' = [filler EXCEPT ![t] = NoHandle]
      /\ content' = content
  BY DEF Done, Goto
<1>2. <<>> \in Seq(Entries) /\ 0 \in 0..MaxEntries
  BY EmptySeq, BoundsAssumption
<1> QED BY <1>1, <1>2 DEF TypeOK

\* What a page does to its stream and to what is known of it.
LEMMA PageMoves ==
    ASSUME HoldsInv, NEW t \in Threads, ReturnPage(t)
    PROVE  LET h == req[t].handle
               page == buffer[h]
               names == {e[1] : e \in Range(page)}
           IN  /\ Op(t, "readdir") /\ h \in Handles /\ Done(t)
               /\ stream[h].dir # NoDir /\ ~stream[h].end
               /\ Len(page) \in Nat
               /\ names \subseteq Visible
               /\ names = {page[i][1] : i \in 1..Len(page)}
               /\ \A g \in Handles : g # h =>
                    /\ stream'[g] = stream[g] /\ buffer'[g] = buffer[g]
                    /\ due'[g] = due[g] /\ listed'[g] = listed[g] /\ twice'[g] = twice[g]
               /\ due'[h] = due[h] \ names
               /\ "created" \in changes[h] => listed'[h] = listed[h] /\ twice'[h] = twice[h]
               /\ "created" \notin changes[h] =>
                    /\ listed'[h] = listed[h] \union names
                    /\ twice'[h] = (twice[h] \/ names \intersect listed[h] # {})
               /\ page = <<>> =>
                    /\ stream'[h].dir = stream[h].dir
                    /\ stream'[h].off = stream[h].off /\ stream'[h].end
               /\ page # <<>> =>
                    /\ page[Len(page)][2] \in 1..MaxEntries
                    /\ stream'[h].dir = stream[h].dir
                    /\ stream'[h].off = page[Len(page)][2] /\ stream'[h].end = stream[h].end
               /\ buffer'[h] = <<>>
               /\ changes' = changes
               /\ stream' \in [Handles -> [dir : Dirs \union {NoDir}, off : 0..MaxEntries,
                                           end : BOOLEAN]]
               /\ buffer' \in [Handles -> Seq(Entries \X (1..MaxEntries))]
               /\ due' \in [Handles -> SUBSET Visible]
               /\ listed' \in [Handles -> SUBSET Entries]
               /\ twice' \in [Handles -> BOOLEAN]
<1> DEFINE h == req[t].handle
           page == buffer[h]
           names == {e[1] : e \in Range(page)}
           E == Entries \X (1..MaxEntries)
           STR == [dir : Dirs \union {NoDir}, off : 0..MaxEntries, end : BOOLEAN]
<1>1. TypeOK /\ ControlOK /\ UsesOK /\ StreamsOK /\ BufferOK
  BY DEF HoldsInv
<1>2. /\ At(t, "return") /\ req[t].op = "readdir"
      /\ due' = [due EXCEPT ![h] = @ \ names]
      /\ IF "created" \in changes[h] THEN UNCHANGED <<listed, twice>>
         ELSE /\ listed' = [listed EXCEPT ![h] = @ \union names]
              /\ twice' = [twice EXCEPT ![h] = @ \/ names \intersect listed[h] # {}]
      /\ stream' = [stream EXCEPT ![h] =
                      IF page = <<>> THEN [@ EXCEPT !.end = TRUE]
                      ELSE [@ EXCEPT !.off = Last(page)[2]]]
      /\ buffer' = [buffer EXCEPT ![h] = <<>>]
      /\ Done(t)
      /\ UNCHANGED changes
  BY DEF ReturnPage
<1>3. Op(t, "readdir")
  BY <1>1, <1>2 DEF ControlOK, At, Op
<1>4. h \in Handles
  BY <1>1, <1>3, RequestFields DEF Op
<1>5. stream[h].dir # NoDir /\ ~stream[h].end
  <2>1. ~stream[h].end
    BY <1>1, <1>3 DEF UsesOK
  <2>2. NotListing.end = TRUE
    BY DEF NotListing
  <2> QED BY <2>1, <2>2, <1>1, <1>4 DEF StreamsOK
<1>6. /\ stream \in [Handles -> STR] /\ buffer \in [Handles -> Seq(E)]
      /\ due \in [Handles -> SUBSET Visible]
      /\ listed \in [Handles -> SUBSET Entries]
      /\ twice \in [Handles -> BOOLEAN]
  BY <1>1 DEF TypeOK
<1>7. page \in Seq(E)
  BY <1>4, <1>6
<1>8. Len(page) \in Nat /\ (page = <<>> <=> Len(page) = 0)
  BY <1>7, RangeByPosition
<1>9. names = {page[i][1] : i \in 1..Len(page)}
  <2> HIDE DEF page
  <2> QED BY <1>7, RangeByPosition
<1>10. names \subseteq Visible
  BY <1>1, <1>4, <1>9 DEF BufferOK
<1>11. page # <<>> => page[Len(page)] \in E
  BY <1>7, <1>8, ElementOfSeq
<1>12. Last(page) = page[Len(page)]
  BY DEF Last
<1>13. names \subseteq Entries
  BY <1>10 DEF Visible
<1> HIDE DEF h, page, names
<1>14. /\ \A g \in Handles : g # h =>
            /\ stream'[g] = stream[g] /\ buffer'[g] = buffer[g] /\ due'[g] = due[g]
       /\ due'[h] = due[h] \ names
       /\ buffer'[h] = <<>>
       /\ due' \in [Handles -> SUBSET Visible]
       /\ buffer' \in [Handles -> Seq(E)]
  <2>1. <<>> \in Seq(E)
    BY EmptySeq
  <2> QED BY <1>2, <1>4, <1>6, <2>1
<1>15. /\ \A g \in Handles : g # h => listed'[g] = listed[g] /\ twice'[g] = twice[g]
       /\ "created" \in changes[h] => listed'[h] = listed[h] /\ twice'[h] = twice[h]
       /\ "created" \notin changes[h] =>
            /\ listed'[h] = listed[h] \union names
            /\ twice'[h] = (twice[h] \/ names \intersect listed[h] # {})
       /\ listed' \in [Handles -> SUBSET Entries]
       /\ twice' \in [Handles -> BOOLEAN]
  BY <1>2, <1>4, <1>6, <1>13
<1>16. /\ page = <<>> =>
            /\ stream'[h].dir = stream[h].dir
            /\ stream'[h].off = stream[h].off /\ stream'[h].end
       /\ page # <<>> =>
            /\ page[Len(page)][2] \in 1..MaxEntries
            /\ stream'[h].dir = stream[h].dir
            /\ stream'[h].off = page[Len(page)][2] /\ stream'[h].end = stream[h].end
       /\ stream' \in [Handles -> STR]
  <2>1. CASE page = <<>>
    <3>1. stream' = [stream EXCEPT ![h] = [stream[h] EXCEPT !.end = TRUE]]
      BY <1>2, <2>1
    <3>2. stream[h] \in STR
      BY <1>4, <1>6
    <3>3. [stream[h] EXCEPT !.end = TRUE] \in STR
      BY <3>2
    <3> QED BY <3>1, <3>2, <3>3, <1>4, <1>6, <2>1
  <2>2. CASE page # <<>>
    <3> DEFINE m == page[Len(page)][2]
    <3>1. stream' = [stream EXCEPT ![h] = [stream[h] EXCEPT !.off = m]]
      BY <1>2, <1>12, <2>2
    <3>2. stream[h] \in STR
      BY <1>4, <1>6
    <3>3. m \in 1..MaxEntries
      BY <1>11, <2>2
    <3> HIDE DEF m
    <3>4. [stream[h] EXCEPT !.off = m] \in STR
      BY <3>2, <3>3, BoundsAssumption
    <3>5. stream'[h] = [stream[h] EXCEPT !.off = m] /\ stream' \in [Handles -> STR]
      BY <3>1, <3>4, <1>4, <1>6
    <3>6. /\ stream'[h].dir = stream[h].dir
          /\ stream'[h].off = m /\ stream'[h].end = stream[h].end
      BY <3>2, <3>5
    <3> QED BY <3>3, <3>5, <3>6, <2>2 DEF m
  <2> QED BY <2>1, <2>2
<1> QED BY <1>2, <1>3, <1>4, <1>5, <1>8, <1>9, <1>10, <1>14, <1>15, <1>16 DEF h, page, names

\* The page goes to the client, and the thread is free again.
LEMMA ReturnPageKeepsHolds ==
    ASSUME HoldsInv, NEW t \in Threads, ReturnPage(t)
    PROVE  HoldsInv'
<1> DEFINE h == req[t].handle
<1>1. TypeOK /\ ControlOK /\ UsesOK /\ StreamsOK /\ BufferOK /\ RmdirOK
  BY DEF HoldsInv
<1>2. /\ Op(t, "readdir") /\ h \in Handles /\ Done(t)
      /\ stream[h].dir # NoDir
      /\ \A g \in Handles : g # h =>
           /\ stream'[g] = stream[g] /\ buffer'[g] = buffer[g]
           /\ due'[g] = due[g] /\ listed'[g] = listed[g]
      /\ stream'[h].dir = stream[h].dir
      /\ buffer'[h] = <<>> /\ changes' = changes
  BY PageMoves
<1>3. /\ pc' = [pc EXCEPT ![t] = "idle"]
      /\ req' = [req EXCEPT ![t] = NoRequest]
      /\ \A u \in Threads : u # t =>
           /\ snap'[u] = snap[u] /\ pos'[u] = pos[u] /\ reply'[u] = reply[u]
           /\ before'[u] = before[u] /\ hooked'[u] = hooked[u] /\ filler'[u] = filler[u]
           /\ pc'[u] = pc[u] /\ req'[u] = req[u]
      /\ content' = content
      /\ pc'[t] = "idle" /\ req'[t] = NoRequest
  BY <1>1, <1>2, DoneFrees DEF TypeOK
<1>4. TypeOK'
  <2>1. /\ stream' \in [Handles -> [dir : Dirs \union {NoDir}, off : 0..MaxEntries,
                                    end : BOOLEAN]]
        /\ buffer' \in [Handles -> Seq(Entries \X (1..MaxEntries))]
        /\ due' \in [Handles -> SUBSET Visible]
        /\ listed' \in [Handles -> SUBSET Entries]
        /\ twice' \in [Handles -> BOOLEAN]
    BY PageMoves
  <2>2. /\ snap' \in [Threads -> Seq(Entries)]
        /\ pos' \in [Threads -> 0..MaxEntries]
        /\ pc' \in [Threads -> {"idle", "return", "iterate", "fill", "check", "delete",
                                "unlink"}]
        /\ req' \in [Threads -> Requests \union {NoRequest}]
        /\ reply' \in [Threads -> {"none", "ok", "notempty"}]
        /\ before' \in [Threads -> SUBSET Entries]
        /\ hooked' \in [Threads -> BOOLEAN]
        /\ filler' \in [Threads -> Handles \union {NoHandle}]
    BY <1>1, <1>2, DoneFrees
  <2> QED BY <1>1, <1>2, <1>3, <2>1, <2>2 DEF TypeOK
<1>5. ControlOK'
  BY <1>1, <1>3 DEF ControlOK, At, Op
<1>6. UsesOK'
  <2>1. \A u \in Threads : req'[u] # NoRequest => DirectoryThere(u)'
    BY <1>1, <1>3 DEF UsesOK, At, DirectoryThere
  <2>2. \A u, v \in Threads :
          Op(u, "rmdir")' /\ req'[v] # NoRequest /\ req'[v].dir = req'[u].dir => v = u
    BY <1>1, <1>3 DEF UsesOK, Op
  <2>3. ASSUME NEW u \in Threads, Op(u, "readdir")'
        PROVE  /\ stream'[req'[u].handle].dir = req'[u].dir
               /\ ~stream'[req'[u].handle].end
    <3>1. u # t /\ Op(u, "readdir") /\ req'[u] = req[u]
      BY <1>3, <2>3 DEF Op
    <3>2. req[u].handle # h /\ req[u].handle \in Handles
      BY <1>1, <1>2, <3>1, RequestFields DEF UsesOK, Op
    <3> QED BY <1>1, <1>2, <3>1, <3>2 DEF UsesOK
  <2>4. \A u, v \in Threads :
          Op(u, "readdir")' /\ Op(v, "readdir")' /\ req'[v].handle = req'[u].handle => v = u
    BY <1>1, <1>3 DEF UsesOK, Op
  <2> QED BY <2>1, <2>2, <2>3, <2>4 DEF UsesOK
<1>7. StreamsOK'
  BY <1>1, <1>2, <1>3 DEF StreamsOK
<1>8. BufferOK'
  <2>1. Len(<<>>) = 0
    BY EmptySeq
  <2> QED BY <2>1, <1>1, <1>2, <1>3 DEF BufferOK, Op
<1>9. RmdirOK'
  <2>1. ASSUME NEW u \in Threads, Op(u, "rmdir")', ~hooked'[u]
        PROVE  RmdirOf(u)'
    <3>1. u # t
      BY <1>3, <2>1 DEF Op
    <3>2. /\ snap'[u] = snap[u] /\ reply'[u] = reply[u] /\ before'[u] = before[u]
          /\ hooked'[u] = hooked[u] /\ pc'[u] = pc[u] /\ req'[u] = req[u]
      BY <1>3, <3>1
    <3>3. RmdirOf(u)
      BY <1>1, <2>1, <3>2 DEF RmdirOK, Op
    <3> QED BY <1>3, <3>2, <3>3 DEF RmdirOf, At
  <2> QED BY <2>1 DEF RmdirOK
<1> QED BY <1>4, <1>5, <1>6, <1>7, <1>8, <1>9 DEF HoldsInv

\* The reply of a rmdir.
LEMMA ReturnKeepsHolds ==
    ASSUME HoldsInv, NEW t \in Threads, Return(t)
    PROVE  HoldsInv'
<1>1. TypeOK /\ ControlOK /\ UsesOK /\ StreamsOK /\ BufferOK /\ RmdirOK
  BY DEF HoldsInv
<1>2. /\ At(t, "return") /\ req[t].op # "readdir" /\ Done(t)
      /\ UNCHANGED <<stream, buffer, streamHistory>>
  BY DEF Return
<1>3. /\ \A u \in Threads : u # t =>
           /\ snap'[u] = snap[u] /\ pos'[u] = pos[u] /\ reply'[u] = reply[u]
           /\ before'[u] = before[u] /\ hooked'[u] = hooked[u] /\ filler'[u] = filler[u]
           /\ pc'[u] = pc[u] /\ req'[u] = req[u]
      /\ content' = content
      /\ pc'[t] = "idle" /\ req'[t] = NoRequest
  BY <1>1, <1>2, DoneFrees DEF TypeOK
<1>4. TypeOK'
  <2>1. /\ snap' \in [Threads -> Seq(Entries)]
        /\ pos' \in [Threads -> 0..MaxEntries]
        /\ pc' \in [Threads -> {"idle", "return", "iterate", "fill", "check", "delete",
                                "unlink"}]
        /\ req' \in [Threads -> Requests \union {NoRequest}]
        /\ reply' \in [Threads -> {"none", "ok", "notempty"}]
        /\ before' \in [Threads -> SUBSET Entries]
        /\ hooked' \in [Threads -> BOOLEAN]
        /\ filler' \in [Threads -> Handles \union {NoHandle}]
    BY <1>1, <1>2, DoneFrees
  <2> QED BY <1>1, <1>2, <1>3, <2>1 DEF TypeOK, streamHistory
<1>5. ControlOK'
  BY <1>1, <1>3 DEF ControlOK, At, Op
<1>6. UsesOK'
  BY <1>1, <1>2, <1>3 DEF UsesOK, Op, At, DirectoryThere
<1>7. StreamsOK'
  BY <1>1, <1>2, <1>3 DEF StreamsOK, streamHistory
<1>8. BufferOK'
  BY <1>1, <1>2, <1>3 DEF BufferOK, Op
<1>9. RmdirOK'
  <2>1. ASSUME NEW u \in Threads, Op(u, "rmdir")', ~hooked'[u]
        PROVE  RmdirOf(u)'
    <3>1. u # t
      BY <1>3, <2>1 DEF Op
    <3>2. /\ snap'[u] = snap[u] /\ reply'[u] = reply[u] /\ before'[u] = before[u]
          /\ hooked'[u] = hooked[u] /\ pc'[u] = pc[u] /\ req'[u] = req[u]
      BY <1>3, <3>1
    <3>3. RmdirOf(u)
      BY <1>1, <2>1, <3>2 DEF RmdirOK, Op
    <3> QED BY <1>3, <3>2, <3>3 DEF RmdirOf, At
  <2> QED BY <2>1 DEF RmdirOK
<1> QED BY <1>4, <1>5, <1>6, <1>7, <1>8, <1>9 DEF HoldsInv

\* A rmdir begins when nobody uses the directory.
LEMMA BeginRmdirKeepsHolds ==
    ASSUME HoldsInv, NEW t \in Threads, NEW d \in Dirs, BeginRmdir(t, d)
    PROVE  HoldsInv'
<1> DEFINE r == [op |-> "rmdir", dir |-> d]
<1>1. TypeOK /\ ControlOK /\ UsesOK /\ StreamsOK /\ BufferOK /\ RmdirOK
  BY DEF HoldsInv
<1>2. /\ At(t, "idle") /\ d \in DOMAIN content /\ ~InUse(d)
      /\ pc' = [pc EXCEPT ![t] = "check"]
      /\ req' = [req EXCEPT ![t] = r]
      /\ before' = [before EXCEPT ![t] = Range(content[d])]
      /\ UNCHANGED <<content, stream, buffer, filler, snap, pos, reply, streamHistory, hooked>>
  BY DEF BeginRmdir, Begin, Goto
<1>3. r \in Requests /\ r # NoRequest /\ r.op = "rmdir" /\ r.dir = d
  BY NoRequestAssumption DEF Requests
<1> HIDE DEF r
<1>4. /\ \A u \in Threads : u # t => pc'[u] = pc[u] /\ req'[u] = req[u] /\ before'[u] = before[u]
      /\ pc'[t] = "check" /\ req'[t] = r /\ before'[t] = Range(content[d])
  BY <1>1, <1>2 DEF TypeOK
<1>5. Range(content[d]) \subseteq Entries
  BY <1>1, <1>2, RangeByPosition DEF TypeOK
<1>6. req[t] = NoRequest
  BY <1>1, <1>2 DEF ControlOK
<1>7. TypeOK'
  BY <1>1, <1>2, <1>3, <1>5 DEF TypeOK, streamHistory
<1>8. ControlOK'
  BY <1>1, <1>2, <1>3, <1>4 DEF ControlOK, At, Op
<1>9. UsesOK'
  <2>1. \A u \in Threads : req[u] # NoRequest => req[u].dir # d
    BY <1>2 DEF InUse
  <2> QED BY <2>1, <1>1, <1>2, <1>3, <1>4 DEF UsesOK, At, Op, DirectoryThere
<1>10. StreamsOK'
  BY <1>1, <1>2 DEF StreamsOK, streamHistory
<1>11. BufferOK'
  BY <1>1, <1>2, <1>4, <1>6 DEF BufferOK, Op
<1>12. RmdirOK'
  <2>1. ASSUME NEW u \in Threads, u # t, Op(u, "rmdir")', ~hooked'[u]
        PROVE  RmdirOf(u)'
    <3>1. RmdirOf(u)
      BY <1>1, <1>2, <1>4, <2>1 DEF RmdirOK, Op
    <3> QED BY <1>2, <1>4, <2>1, <3>1 DEF RmdirOf, At
  <2>2. RmdirOf(t)'
    BY <1>2, <1>3, <1>4 DEF RmdirOf, At
  <2> QED BY <2>1, <2>2 DEF RmdirOK
<1> QED BY <1>7, <1>8, <1>9, <1>10, <1>11, <1>12 DEF HoldsInv

\* A rmdir looks for an entry that is not hidden.
LEMMA RmdirCheckKeepsHolds ==
    ASSUME HoldsInv, NEW t \in Threads, RmdirCheck(t)
    PROVE  HoldsInv'
<1>1. TypeOK /\ ControlOK /\ UsesOK /\ StreamsOK /\ BufferOK /\ RmdirOK
  BY DEF HoldsInv
<1>2. /\ At(t, "check")
      /\ \/ /\ pc' = [pc EXCEPT ![t] = "return"]
            /\ reply' = [reply EXCEPT ![t] = "notempty"]
         \/ /\ \A x \in Range(content[req[t].dir]) : IsPrefixed(x)
            /\ pc' = [pc EXCEPT ![t] = "delete"]
            /\ UNCHANGED reply
      /\ UNCHANGED <<content, stream, buffer, filler, req, snap, pos, history>>
  BY DEF RmdirCheck, Answer, Goto, jobVars
<1>3. Op(t, "rmdir")
  BY <1>1, <1>2 DEF ControlOK, At
<1>4. /\ \A u \in Threads : u # t => pc'[u] = pc[u] /\ reply'[u] = reply[u]
      /\ \/ pc'[t] = "return" /\ reply'[t] = "notempty"
         \/ pc'[t] = "delete" /\ \A x \in Range(content[req[t].dir]) : IsPrefixed(x)
  BY <1>1, <1>2 DEF TypeOK
<1>5. TypeOK'
  BY <1>1, <1>2 DEF TypeOK, history, streamHistory
<1>6. ControlOK'
  BY <1>1, <1>2, <1>3, <1>4 DEF ControlOK, At, Op
<1>7. UsesOK'
  <2>1. req[t].dir \in DOMAIN content
    BY <1>1, <1>2, <1>3 DEF UsesOK, DirectoryThere, At, Op
  <2> QED BY <2>1, <1>1, <1>2, <1>3, <1>4 DEF UsesOK, At, Op, DirectoryThere
<1>8. StreamsOK'
  BY <1>1, <1>2 DEF StreamsOK, history, streamHistory
<1>9. BufferOK'
  BY <1>1, <1>2, <1>3, <1>4 DEF BufferOK, Op
<1>10. RmdirOK'
  <2>1. ASSUME NEW u \in Threads, u # t, Op(u, "rmdir")', ~hooked'[u]
        PROVE  RmdirOf(u)'
    <3>1. RmdirOf(u)
      BY <1>1, <1>2, <2>1 DEF RmdirOK, Op, history
    <3> QED BY <1>2, <1>4, <2>1, <3>1 DEF RmdirOf, At, history
  <2>2. ASSUME ~hooked[t] PROVE RmdirOf(t)'
    <3>1. before[t] \subseteq Range(content[req[t].dir])
      BY <1>1, <1>2, <1>3, <2>2 DEF RmdirOK, RmdirOf, At
    <3> QED BY <1>2, <1>4, <3>1 DEF RmdirOf, At, history
  <2> QED BY <1>2, <2>1, <2>2 DEF RmdirOK, history
<1> QED BY <1>5, <1>6, <1>7, <1>8, <1>9, <1>10 DEF HoldsInv

\* It reads the directory a second time.
LEMMA RmdirDeleteKeepsHolds ==
    ASSUME HoldsInv, NEW t \in Threads, RmdirDelete(t)
    PROVE  HoldsInv'
<1>1. TypeOK /\ ControlOK /\ UsesOK /\ StreamsOK /\ BufferOK /\ RmdirOK
  BY DEF HoldsInv
<1>2. /\ At(t, "delete")
      /\ pc' = [pc EXCEPT ![t] = "unlink"]
      /\ snap' = [snap EXCEPT ![t] = content[req[t].dir]]
      /\ UNCHANGED <<content, stream, buffer, filler, req, pos, reply, history>>
  BY DEF RmdirDelete, Goto
<1>3. Op(t, "rmdir") /\ req[t].dir \in DOMAIN content
  BY <1>1, <1>2 DEF ControlOK, UsesOK, DirectoryThere, At, Op
<1>4. /\ \A u \in Threads : u # t => pc'[u] = pc[u] /\ snap'[u] = snap[u]
      /\ pc'[t] = "unlink" /\ snap'[t] = content[req[t].dir]
  BY <1>1, <1>2 DEF TypeOK
<1>5. TypeOK'
  <2>1. content[req[t].dir] \in Seq(Entries)
    BY <1>1, <1>3 DEF TypeOK
  <2> QED BY <1>1, <1>2, <2>1 DEF TypeOK, history, streamHistory
<1>6. ControlOK'
  BY <1>1, <1>2, <1>3, <1>4 DEF ControlOK, At, Op
<1>7. UsesOK'
  BY <1>1, <1>2, <1>3, <1>4 DEF UsesOK, At, Op, DirectoryThere
<1>8. StreamsOK'
  BY <1>1, <1>2 DEF StreamsOK, history, streamHistory
<1>9. BufferOK'
  BY <1>1, <1>2, <1>3, <1>4 DEF BufferOK, Op
<1>10. RmdirOK'
  <2>1. ASSUME NEW u \in Threads, u # t, Op(u, "rmdir")', ~hooked'[u]
        PROVE  RmdirOf(u)'
    <3>1. RmdirOf(u)
      BY <1>1, <1>2, <2>1 DEF RmdirOK, Op, history
    <3> QED BY <1>2, <1>4, <2>1, <3>1 DEF RmdirOf, At, history
  <2>2. ASSUME ~hooked[t] PROVE RmdirOf(t)'
    <3>1. \A x \in Range(content[req[t].dir]) : IsPrefixed(x)
      BY <1>1, <1>2, <1>3, <2>2 DEF RmdirOK, RmdirOf, At
    <3> QED BY <1>2, <1>4, <3>1 DEF RmdirOf, At, history
  <2> QED BY <1>2, <2>1, <2>2 DEF RmdirOK, history
<1> QED BY <1>5, <1>6, <1>7, <1>8, <1>9, <1>10 DEF HoldsInv

\* A rmdir of another directory does not see the change.
LEMMA RmdirElsewhereStays ==
    ASSUME HoldsInv, NEW d \in DOMAIN content, NEW entries,
           content' = [content EXCEPT ![d] = entries],
           UNCHANGED <<pc, req, reply>>,
           NEW u \in Threads, Op(u, "rmdir"), ~hooked[u], req[u].dir # d,
           before'[u] = before[u], snap'[u] = snap[u]
    PROVE  RmdirOf(u)'
<1>1. RmdirOf(u) /\ UsesOK
  BY DEF HoldsInv, RmdirOK
<1>2. DirectoryThere(u)
  BY <1>1 DEF UsesOK, Op
<1>3. CASE req[u].dir \in DOMAIN content
  <2>1. content'[req[u].dir] = content[req[u].dir]
    BY <1>3
  <2> QED BY <1>1, <2>1 DEF RmdirOf, At
<1>4. CASE At(u, "return") /\ reply[u] = "ok"
  BY <1>4 DEF RmdirOf, At
<1> QED BY <1>2, <1>3, <1>4 DEF DirectoryThere

\* It deletes one of the names it has read.
LEMMA RmdirUnlinks ==
    ASSUME HoldsInv, NEW t \in Threads, RmdirUnlink(t)
    PROVE  LET d == req[t].dir
               x == snap[t][1]
               entries == IF IsPrefixed(x) THEN Without(content[d], x) ELSE content[d]
           IN  /\ At(t, "unlink") /\ Op(t, "rmdir") /\ d \in DOMAIN content
               /\ Rewrites(content[d], entries) /\ Change(d, entries)
               /\ Range(entries) = IF IsPrefixed(x) THEN Range(content[d]) \ {x}
                                   ELSE Range(content[d])
               /\ snap[t] \in Seq(Entries) /\ snap[t] # <<>>
               /\ snap' = [snap EXCEPT ![t] = Tail(snap[t])]
               /\ UNCHANGED <<stream, buffer, filler, pc, req, pos, reply, before, hooked>>
<1> DEFINE d == req[t].dir
           x == snap[t][1]
           entries == IF IsPrefixed(x) THEN Without(content[d], x) ELSE content[d]
<1>1. TypeOK /\ ControlOK /\ UsesOK
  BY DEF HoldsInv
<1>2. /\ At(t, "unlink") /\ snap[t] # <<>>
      /\ Change(d, entries)
      /\ snap' = [snap EXCEPT ![t] = Tail(snap[t])]
      /\ UNCHANGED <<stream, buffer, filler, pc, req, pos, reply, before, hooked>>
  BY DEF RmdirUnlink
<1>3. Op(t, "rmdir") /\ d \in DOMAIN content
  BY <1>1, <1>2 DEF ControlOK, UsesOK, DirectoryThere, At, Op
<1>4. content[d] \in Seq(Entries) /\ IsInjective(content[d]) /\ Len(content[d]) <= MaxEntries
  BY <1>1, <1>3 DEF TypeOK
<1>5. snap[t] \in Seq(Entries)
  BY <1>1 DEF TypeOK
<1>6. /\ Rewrites(content[d], entries)
      /\ Range(entries) = IF IsPrefixed(x) THEN Range(content[d]) \ {x} ELSE Range(content[d])
  <2>1. CASE IsPrefixed(x)
    <3>1. entries = Without(content[d], x)
      BY <2>1
    <3> HIDE DEF d, x, entries
    <3> QED BY <2>1, <3>1, <1>4, WithoutRewrites
  <2>2. CASE ~IsPrefixed(x)
    <3>1. entries = content[d]
      BY <2>2
    <3>2. Len(content[d]) \in Nat
      BY <1>4, LenProperties
    <3> HIDE DEF d, x, entries
    <3>3. Advances(content[d], content[d])
      BY <3>2 DEF Advances
    <3> QED BY <2>2, <3>1, <3>3, <1>4 DEF Rewrites
  <2> QED BY <2>1, <2>2
<1> QED BY <1>2, <1>3, <1>5, <1>6

\* What a rmdir deletes leaves its list and the directory alike.
LEMMA RmdirUnlinkKeepsHolds ==
    ASSUME HoldsInv, NEW t \in Threads, RmdirUnlink(t)
    PROVE  HoldsInv'
<1> DEFINE d == req[t].dir
           x == snap[t][1]
           entries == IF IsPrefixed(x) THEN Without(content[d], x) ELSE content[d]
<1>1. /\ At(t, "unlink") /\ Op(t, "rmdir") /\ d \in DOMAIN content
      /\ Rewrites(content[d], entries) /\ Change(d, entries)
      /\ Range(entries) = IF IsPrefixed(x) THEN Range(content[d]) \ {x} ELSE Range(content[d])
      /\ snap[t] \in Seq(Entries) /\ snap[t] # <<>>
      /\ snap' = [snap EXCEPT ![t] = Tail(snap[t])]
      /\ UNCHANGED <<stream, buffer, filler, pc, req, pos, reply, before, hooked>>
  BY RmdirUnlinks
<1> HIDE DEF entries
<1>2. TypeOK /\ UsesOK /\ RmdirOK
  BY DEF HoldsInv
<1>3. /\ Tail(snap[t]) \in Seq(Entries)
      /\ Len(Tail(snap[t])) = Len(snap[t]) - 1
      /\ \A j \in 1..Len(Tail(snap[t])) : Tail(snap[t])[j] = snap[t][j + 1]
  <2> DEFINE s == snap[t]
  <2>1. s \in Seq(Entries) /\ s # <<>>
    BY <1>1
  <2> HIDE DEF s
  <2>2. /\ Tail(s) \in Seq(Entries) /\ Len(Tail(s)) = Len(s) - 1
        /\ \A j \in 1..Len(Tail(s)) : Tail(s)[j] = s[j + 1]
    BY <2>1, HeadTailProperties
  <2> QED BY <2>2 DEF s
<1>4. /\ snap' \in [Threads -> Seq(Entries)]
      /\ \A u \in Threads : u # t => snap'[u] = snap[u]
      /\ snap'[t] = Tail(snap[t])
  BY <1>1, <1>2, <1>3 DEF TypeOK
<1>5. \A u \in Threads : At(u, "fill") => snap'[u] = snap[u]
  BY <1>1, <1>4 DEF At
<1>6. before' \in [Threads -> SUBSET Entries] /\ hooked' \in [Threads -> BOOLEAN]
  BY <1>1, <1>2 DEF TypeOK
<1>7. TypeOK' /\ ControlOK' /\ UsesOK' /\ StreamsOK' /\ BufferOK'
  <2>1. UNCHANGED <<stream, buffer, filler, pc, req, pos, reply>>
    BY <1>1
  <2> QED BY <1>1, <1>4, <1>5, <1>6, <2>1, ChangeKeepsUses
<1>8. content' = [content EXCEPT ![d] = entries]
  BY <1>1, <1>2, ChangeWrites
<1>9. RmdirOK'
  <2>1. ASSUME NEW u \in Threads, u # t, Op(u, "rmdir")', ~hooked'[u]
        PROVE  RmdirOf(u)'
    <3>1. Op(u, "rmdir") /\ ~hooked[u]
      BY <1>1, <2>1 DEF Op
    <3>2. req[u].dir # d
      BY <1>1, <1>2, <2>1, <3>1 DEF UsesOK, Op
    <3>3. before'[u] = before[u] /\ snap'[u] = snap[u] /\ UNCHANGED <<pc, req, reply>>
      BY <1>1, <1>4, <2>1
    <3> HIDE DEF d
    <3> QED BY <1>1, <1>8, <3>1, <3>2, <3>3, RmdirElsewhereStays
  <2>2. ASSUME ~hooked[t] PROVE RmdirOf(t)'
    <3>1. /\ \A y \in Range(content[d]) : IsPrefixed(y)
          /\ Range(content[d]) \subseteq Range(snap[t])
      BY <1>1, <1>2, <2>2 DEF RmdirOK, RmdirOf, At
    <3>2. content'[d] = entries
      BY <1>1, <1>8
    <3>3. Range(entries) \subseteq Range(content[d]) \ {x}
      BY <1>1, <3>1
    <3>4. Range(snap[t]) \ {x} \subseteq Range(Tail(snap[t]))
      <4>1. /\ \A y : y \in Range(snap[t]) <=> \E i \in 1..Len(snap[t]) : snap[t][i] = y
            /\ Len(snap[t]) \in Nat
        BY <1>1, RangeByPosition
      <4>2. \A y : y \in Range(Tail(snap[t])) <=>
                     \E i \in 1..Len(Tail(snap[t])) : Tail(snap[t])[i] = y
        BY <1>3, RangeByPosition
      <4>3. ASSUME NEW y \in Range(snap[t]), y # x
            PROVE  y \in Range(Tail(snap[t]))
        <5>1. PICK i \in 1..Len(snap[t]) : snap[t][i] = y
          BY <4>1, <4>3
        <5>2. i # 1
          BY <5>1, <4>3
        <5>3. i - 1 \in 1..Len(Tail(snap[t])) /\ i - 1 + 1 = i
          BY <5>1, <5>2, <4>1, <1>3
        <5>4. Tail(snap[t])[i - 1] = y
          BY <5>1, <5>3, <1>3
        <5> QED BY <5>3, <5>4, <4>2
      <4> QED BY <4>3
    <3> QED BY <1>1, <1>4, <3>1, <3>2, <3>3, <3>4 DEF RmdirOf, At
  <2> QED BY <1>1, <2>1, <2>2 DEF RmdirOK
<1> QED BY <1>7, <1>9 DEF HoldsInv

\* The directory goes, unless something is left in it.
LEMMA RmdirRemoveKeepsHolds ==
    ASSUME HoldsInv, NEW t \in Threads, RmdirRemove(t)
    PROVE  HoldsInv'
<1> DEFINE d == req[t].dir
<1>1. TypeOK /\ ControlOK /\ UsesOK /\ StreamsOK /\ BufferOK /\ RmdirOK
  BY DEF HoldsInv
<1>2. /\ At(t, "unlink") /\ snap[t] = <<>>
      /\ pc' = [pc EXCEPT ![t] = "return"]
      /\ UNCHANGED <<buffer, filler, req, snap, pos, before, hooked>>
  BY DEF RmdirRemove, Answer, Goto, jobVars
<1>3. Op(t, "rmdir") /\ d \in DOMAIN content
  BY <1>1, <1>2 DEF ControlOK, UsesOK, DirectoryThere, At, Op
<1>4. /\ pc' \in [Threads -> {"idle", "return", "iterate", "fill", "check", "delete", "unlink"}]
      /\ \A u \in Threads : u # t => pc'[u] = pc[u]
      /\ pc'[t] = "return"
  BY <1>1, <1>2 DEF TypeOK
<1>5. \A u \in Threads : u # t /\ req[u] # NoRequest => req[u].dir # d
  BY <1>1, <1>3 DEF UsesOK
<1>6. ControlOK'
  BY <1>1, <1>2, <1>3, <1>4 DEF ControlOK, At, Op
<1>7. BufferOK'
  BY <1>1, <1>2, <1>3, <1>4 DEF BufferOK, Op
<1>8. CASE content[d] = <<>>
  <2>1. /\ content' = Restrict(content, DOMAIN content \ {d})
        /\ stream' = [h \in Handles |-> IF h \in Streams(d) THEN NotListing ELSE stream[h]]
        /\ Forget(Streams(d))
        /\ reply' = [reply EXCEPT ![t] = "ok"]
    BY <1>8 DEF RmdirRemove, Answer
  <2>2. /\ DOMAIN content' = DOMAIN content \ {d}
        /\ \A e \in DOMAIN content' : content'[e] = content[e]
    BY <2>1 DEF Restrict
  <2>3. \A h \in Handles : h \in Streams(d) <=> stream[h].dir = d
    BY DEF Streams
  <2>4. /\ due' = [h \in Handles |-> IF h \in Streams(d) THEN {} ELSE due[h]]
        /\ listed' = [h \in Handles |-> IF h \in Streams(d) THEN {} ELSE listed[h]]
        /\ twice' = [h \in Handles |-> h \notin Streams(d) /\ twice[h]]
        /\ changes' = [h \in Handles |-> IF h \in Streams(d) THEN {} ELSE changes[h]]
    BY <2>1 DEF Forget
  <2>5. /\ \A u \in Threads : u # t => reply'[u] = reply[u]
        /\ reply'[t] = "ok"
        /\ reply' \in [Threads -> {"none", "ok", "notempty"}]
    BY <1>1, <2>1 DEF TypeOK
  <2>6. TypeOK'
    <3>1. stream' \in [Handles -> [dir : Dirs \union {NoDir}, off : 0..MaxEntries,
                                   end : BOOLEAN]]
      <4>1. NotListing \in [dir : Dirs \union {NoDir}, off : 0..MaxEntries, end : BOOLEAN]
        BY BoundsAssumption DEF NotListing
      <4> QED BY <1>1, <2>1, <4>1 DEF TypeOK
    <3>2. /\ DOMAIN content' \subseteq Dirs
          /\ \A e \in DOMAIN content' : /\ content'[e] \in Seq(Entries) /\ IsInjective(content'[e])
                                        /\ Len(content'[e]) <= MaxEntries
      BY <1>1, <2>2 DEF TypeOK
    <3>3. /\ due' \in [Handles -> SUBSET Visible]
          /\ listed' \in [Handles -> SUBSET Entries]
          /\ twice' \in [Handles -> BOOLEAN]
          /\ changes' \in [Handles -> SUBSET {"created", "removed"}]
      BY <1>1, <2>4 DEF TypeOK
    <3> QED BY <1>1, <1>2, <1>4, <2>5, <3>1, <3>2, <3>3 DEF TypeOK
  <2>7. UsesOK'
    <3>1. \A u \in Threads : req'[u] # NoRequest => DirectoryThere(u)'
      BY <1>1, <1>2, <1>3, <1>4, <1>5, <2>2, <2>5 DEF UsesOK, DirectoryThere, At, Op
    <3>2. \A u, v \in Threads :
            Op(u, "rmdir")' /\ req'[v] # NoRequest /\ req'[v].dir = req'[u].dir => v = u
      BY <1>1, <1>2 DEF UsesOK, Op
    <3>3. ASSUME NEW u \in Threads, Op(u, "readdir")'
          PROVE  /\ stream'[req'[u].handle].dir = req'[u].dir
                 /\ ~stream'[req'[u].handle].end
      <4>1. u # t /\ Op(u, "readdir") /\ req'[u] = req[u]
        BY <1>2, <1>3, <3>3 DEF Op
      <4>2. req[u].handle \in Handles
        BY <1>1, <4>1, RequestFields DEF Op
      <4>3. stream[req[u].handle].dir = req[u].dir /\ req[u].dir # d
        BY <1>1, <1>5, <4>1 DEF UsesOK, Op
      <4>4. stream'[req[u].handle] = stream[req[u].handle]
        BY <2>1, <2>3, <4>2, <4>3
      <4> QED BY <1>1, <4>1, <4>4 DEF UsesOK
    <3>4. \A u, v \in Threads :
            Op(u, "readdir")' /\ Op(v, "readdir")' /\ req'[v].handle = req'[u].handle => v = u
      BY <1>1, <1>2 DEF UsesOK, Op
    <3> QED BY <3>1, <3>2, <3>3, <3>4 DEF UsesOK
  <2>8. StreamsOK'
    <3>1. NotListing.dir = NoDir
      BY DEF NotListing
    <3> QED BY <1>1, <2>1, <2>2, <2>3, <2>4, <3>1 DEF StreamsOK
  <2>9. RmdirOK'
    <3>1. ASSUME NEW u \in Threads, u # t, Op(u, "rmdir")', ~hooked'[u]
          PROVE  RmdirOf(u)'
      <4>1. RmdirOf(u) /\ DirectoryThere(u)
        BY <1>1, <1>2, <3>1 DEF RmdirOK, UsesOK, Op
      <4>2. req[u].dir # d
        BY <1>2, <1>5, <3>1 DEF Op
      <4>3. CASE req[u].dir \in DOMAIN content
        <5>1. content'[req[u].dir] = content[req[u].dir]
          BY <2>2, <4>2, <4>3
        <5> QED BY <1>2, <1>4, <2>5, <3>1, <4>1, <5>1 DEF RmdirOf, At
      <4>4. CASE At(u, "return") /\ reply[u] = "ok"
        BY <1>4, <2>5, <3>1, <4>4 DEF RmdirOf, At
      <4> QED BY <4>1, <4>3, <4>4 DEF DirectoryThere
    <3>2. RmdirOf(t)'
      BY <1>4, <2>5 DEF RmdirOf, At
    <3> QED BY <3>1, <3>2 DEF RmdirOK
  <2> QED BY <1>6, <1>7, <2>6, <2>7, <2>8, <2>9 DEF HoldsInv
<1>9. CASE content[d] # <<>>
  <2>1. /\ UNCHANGED <<content, stream, streamHistory>>
        /\ reply' = [reply EXCEPT ![t] = "notempty"]
    BY <1>9 DEF RmdirRemove, Answer
  <2>2. /\ \A u \in Threads : u # t => reply'[u] = reply[u]
        /\ reply'[t] = "notempty"
        /\ reply' \in [Threads -> {"none", "ok", "notempty"}]
    BY <1>1, <2>1 DEF TypeOK
  <2>3. TypeOK'
    BY <1>1, <1>2, <1>4, <2>1, <2>2 DEF TypeOK, streamHistory
  <2>4. UsesOK'
    BY <1>1, <1>2, <1>3, <1>4, <2>1, <2>2 DEF UsesOK, DirectoryThere, At, Op
  <2>5. StreamsOK'
    BY <1>1, <2>1 DEF StreamsOK, streamHistory
  <2>6. RmdirOK'
    <3>1. ASSUME NEW u \in Threads, u # t, Op(u, "rmdir")', ~hooked'[u]
          PROVE  RmdirOf(u)'
      <4>1. RmdirOf(u)
        BY <1>1, <1>2, <3>1 DEF RmdirOK, Op
      <4> QED BY <1>2, <1>4, <2>1, <2>2, <3>1, <4>1 DEF RmdirOf, At
    <3>2. ASSUME ~hooked[t] PROVE FALSE
      <4>1. Range(content[d]) \subseteq Range(snap[t])
        BY <1>1, <1>2, <1>3, <3>2 DEF RmdirOK, RmdirOf, At
      <4>2. Range(snap[t]) = {}
        BY <1>2 DEF Range
      <4>3. content[d] \in Seq(Entries)
        BY <1>1, <1>3 DEF TypeOK
      <4>4. Len(content[d]) \in Nat /\ Len(content[d]) # 0
        BY <1>9, <4>3, RangeByPosition
      <4>5. content[d][1] \in Range(content[d])
        BY <4>3, <4>4, RangeByPosition
      <4> QED BY <4>1, <4>2, <4>5
    <3> QED BY <1>2, <3>1, <3>2 DEF RmdirOK
  <2> QED BY <1>6, <1>7, <2>3, <2>4, <2>5, <2>6 DEF HoldsInv
<1> QED BY <1>8, <1>9

\* A request in one step leaves the threads alone.
ThreadsStay == UNCHANGED <<buffer, filler, pc, req, snap, pos, reply, before, hooked>>

\* A stream is opened on a directory that exists.
LEMMA OpendirKeepsHolds ==
    ASSUME HoldsInv, ThreadsStay, NEW h \in Handles, NEW d \in Dirs, Opendir(h, d)
    PROVE  HoldsInv'
<1>1. TypeOK /\ ControlOK /\ UsesOK /\ StreamsOK /\ BufferOK /\ RmdirOK
  BY DEF HoldsInv
<1> DEFINE n == [dir |-> d, off |-> 0, end |-> FALSE]
<1>2. /\ stream[h] = NotListing /\ d \in DOMAIN content
      /\ stream' = [stream EXCEPT ![h] = n]
      /\ due' = [due EXCEPT ![h] = Range(content[d]) \intersect Visible]
      /\ UNCHANGED <<content, listed, twice, changes>>
  BY DEF Opendir
<1>3. n.dir = d /\ ~n.end /\ n \in [dir : Dirs \union {NoDir}, off : 0..MaxEntries, end : BOOLEAN]
  BY BoundsAssumption
<1> HIDE DEF n
<1>4. TypeOK'
  BY <1>1, <1>2, <1>3 DEF TypeOK, ThreadsStay
<1>5. ControlOK'
  BY <1>1 DEF ControlOK, At, Op, ThreadsStay
<1>6. UsesOK'
  <2>1. \A u \in Threads : Op(u, "readdir") => req[u].handle # h
    BY <1>1, <1>2 DEF UsesOK, NotListing
  <2>2. \A g \in Handles : g # h => stream'[g] = stream[g]
    BY <1>1, <1>2 DEF TypeOK
  <2>3. \A u \in Threads : Op(u, "readdir") => req[u].handle \in Handles
    BY <1>1, RequestFields DEF Op
  <2> QED BY <2>1, <2>2, <2>3, <1>1, <1>2 DEF UsesOK, Op, At, DirectoryThere, ThreadsStay
<1>7. StreamsOK'
  <2>1. d # NoDir
    BY NoDirAssumption
  <2> QED BY <2>1, <1>1, <1>2, <1>3 DEF StreamsOK, TypeOK
<1>8. BufferOK'
  BY <1>1 DEF BufferOK, Op, ThreadsStay
<1>9. RmdirOK'
  BY <1>1, <1>2 DEF RmdirOK, RmdirOf, Op, At, ThreadsStay
<1> QED BY <1>4, <1>5, <1>6, <1>7, <1>8, <1>9 DEF HoldsInv

\* A stream is released when nobody reads it.
LEMMA ReleasedirKeepsHolds ==
    ASSUME HoldsInv, ThreadsStay, NEW h \in Handles, Releasedir(h)
    PROVE  HoldsInv'
<1>1. TypeOK /\ ControlOK /\ UsesOK /\ StreamsOK /\ BufferOK /\ RmdirOK
  BY DEF HoldsInv
<1>2. /\ stream[h].end
      /\ stream' = [stream EXCEPT ![h] = NotListing]
      /\ due' = [g \in Handles |-> IF g \in {h} THEN {} ELSE due[g]]
      /\ listed' = [g \in Handles |-> IF g \in {h} THEN {} ELSE listed[g]]
      /\ twice' = [g \in Handles |-> g \notin {h} /\ twice[g]]
      /\ changes' = [g \in Handles |-> IF g \in {h} THEN {} ELSE changes[g]]
      /\ content' = content
  BY DEF Releasedir, Forget
<1>3. /\ NotListing \in [dir : Dirs \union {NoDir}, off : 0..MaxEntries, end : BOOLEAN]
      /\ NotListing.dir = NoDir
  BY BoundsAssumption DEF NotListing
<1>4. TypeOK'
  <2>1. stream' \in [Handles -> [dir : Dirs \union {NoDir}, off : 0..MaxEntries, end : BOOLEAN]]
    BY <1>1, <1>2, <1>3 DEF TypeOK
  <2>2. /\ due' \in [Handles -> SUBSET Visible]
        /\ listed' \in [Handles -> SUBSET Entries]
        /\ twice' \in [Handles -> BOOLEAN]
        /\ changes' \in [Handles -> SUBSET {"created", "removed"}]
    BY <1>1, <1>2 DEF TypeOK
  <2> QED BY <1>1, <1>2, <2>1, <2>2 DEF TypeOK, ThreadsStay
<1>5. ControlOK'
  BY <1>1 DEF ControlOK, At, Op, ThreadsStay
<1>6. UsesOK'
  <2>1. \A u \in Threads : Op(u, "readdir") => req[u].handle # h
    BY <1>1, <1>2 DEF UsesOK
  <2>2. \A g \in Handles : g # h => stream'[g] = stream[g]
    BY <1>1, <1>2 DEF TypeOK
  <2>3. \A u \in Threads : Op(u, "readdir") => req[u].handle \in Handles
    BY <1>1, RequestFields DEF Op
  <2> QED BY <2>1, <2>2, <2>3, <1>1, <1>2 DEF UsesOK, Op, At, DirectoryThere, ThreadsStay
<1>7. StreamsOK'
  BY <1>1, <1>2, <1>3 DEF StreamsOK, TypeOK
<1>8. BufferOK'
  BY <1>1 DEF BufferOK, Op, ThreadsStay
<1>9. RmdirOK'
  BY <1>1, <1>2 DEF RmdirOK, RmdirOf, Op, At, ThreadsStay
<1> QED BY <1>4, <1>5, <1>6, <1>7, <1>8, <1>9 DEF HoldsInv

\* A new directory is empty and nobody's.
LEMMA MkdirKeepsHolds ==
    ASSUME HoldsInv, ThreadsStay, NEW d \in Dirs, Mkdir(d)
    PROVE  HoldsInv'
<1>1. TypeOK /\ ControlOK /\ UsesOK /\ StreamsOK /\ BufferOK /\ RmdirOK
  BY DEF HoldsInv
<1>2. /\ d \notin DOMAIN content
      /\ content' = [e \in DOMAIN content \union {d} |-> IF e = d THEN <<>> ELSE content[e]]
      /\ UNCHANGED <<stream, streamHistory>>
  BY DEF Mkdir
<1>3. /\ DOMAIN content' = DOMAIN content \union {d}
      /\ \A e \in DOMAIN content : content'[e] = content[e]
      /\ content'[d] = <<>>
  BY <1>2
<1>4. TypeOK'
  <2>1. \A e \in DOMAIN content' : /\ content'[e] \in Seq(Entries) /\ IsInjective(content'[e])
                                   /\ Len(content'[e]) <= MaxEntries
    <3>1. <<>> \in Seq(Entries) /\ Len(<<>>) = 0
      BY EmptySeq
    <3>2. IsInjective(<<>>)
      BY DEF IsInjective
    <3>3. \A e \in DOMAIN content : /\ content[e] \in Seq(Entries) /\ IsInjective(content[e])
                                    /\ Len(content[e]) <= MaxEntries
      BY <1>1 DEF TypeOK
    <3>4. 0 <= MaxEntries
      BY BoundsAssumption
    <3>5. ASSUME NEW e \in DOMAIN content'
          PROVE  content'[e] = <<>> \/ (e \in DOMAIN content /\ content'[e] = content[e])
      BY <1>3, <3>5
    <3> QED BY <3>1, <3>2, <3>3, <3>4, <3>5
  <2>2. DOMAIN content' \subseteq Dirs
    BY <1>1, <1>3 DEF TypeOK
  <2> QED BY <1>1, <1>2, <2>1, <2>2 DEF TypeOK, ThreadsStay, streamHistory
<1>5. ControlOK'
  BY <1>1 DEF ControlOK, At, Op, ThreadsStay
<1>6. UsesOK'
  BY <1>1, <1>2, <1>3 DEF UsesOK, Op, At, DirectoryThere, ThreadsStay
<1>7. StreamsOK'
  BY <1>1, <1>2, <1>3 DEF StreamsOK, streamHistory
<1>8. BufferOK'
  BY <1>1 DEF BufferOK, Op, ThreadsStay
<1>9. RmdirOK'
  <2>1. ASSUME NEW u \in Threads, Op(u, "rmdir")', ~hooked'[u]
        PROVE  RmdirOf(u)'
    <3>1. RmdirOf(u) /\ DirectoryThere(u)
      BY <1>1, <2>1 DEF RmdirOK, UsesOK, Op, ThreadsStay
    <3>2. CASE req[u].dir \in DOMAIN content
      <4>1. content'[req[u].dir] = content[req[u].dir]
        BY <1>3, <3>2
      <4> QED BY <3>1, <4>1 DEF RmdirOf, At, ThreadsStay
    <3>3. CASE At(u, "return") /\ reply[u] = "ok"
      BY <3>3 DEF RmdirOf, At, ThreadsStay
    <3> QED BY <3>1, <3>2, <3>3 DEF DirectoryThere
  <2> QED BY <2>1 DEF RmdirOK
<1> QED BY <1>4, <1>5, <1>6, <1>7, <1>8, <1>9 DEF HoldsInv

\* What Put does is a change that InsertAt makes.
LEMMA PutChanges ==
    ASSUME HoldsInv, NEW d \in DOMAIN content, NEW x, Put(d, x)
    PROVE  \E entries : /\ Rewrites(content[d], entries) /\ Change(d, entries)
                        /\ Range(entries) = Range(content[d]) \union {x}
<1>1. /\ x \in Entries /\ x \notin Range(content[d]) /\ Len(content[d]) < MaxEntries
      /\ \E i \in 1..(Len(content[d]) + 1) : Change(d, InsertAt(content[d], i, x))
  BY DEF Put
<1>2. PICK i \in 1..(Len(content[d]) + 1) : Change(d, InsertAt(content[d], i, x))
  BY <1>1
<1>3. content[d] \in Seq(Entries) /\ IsInjective(content[d])
  BY DEF HoldsInv, TypeOK
<1>4. /\ Rewrites(content[d], InsertAt(content[d], i, x))
      /\ Range(InsertAt(content[d], i, x)) = Range(content[d]) \union {x}
  BY <1>1, <1>3, InsertRewrites
<1> QED BY <1>2, <1>4

\* What Drop does is a change that Without makes.
LEMMA DropChanges ==
    ASSUME HoldsInv, NEW d \in DOMAIN content, NEW x, Drop(d, x)
    PROVE  \E entries : Rewrites(content[d], entries) /\ Change(d, entries)
<1>1. Change(d, Without(content[d], x))
  BY DEF Drop
<1>2. /\ content[d] \in Seq(Entries) /\ IsInjective(content[d])
      /\ Len(content[d]) <= MaxEntries
  BY DEF HoldsInv, TypeOK
<1>3. Rewrites(content[d], Without(content[d], x))
  BY <1>2, WithoutRewrites
<1> QED BY <1>1, <1>3

\* A client or a hook changes a directory that no rmdir holds.
LEMMA CallChangeKeepsHolds ==
    ASSUME HoldsInv, ThreadsStay, NEW d \in DOMAIN content, ~Removing(d), stream' = stream,
           NEW entries, Rewrites(content[d], entries), Change(d, entries)
    PROVE  HoldsInv'
<1>1. TypeOK /\ RmdirOK
  BY DEF HoldsInv
<1>2. /\ snap' \in [Threads -> Seq(Entries)]
      /\ \A u \in Threads : At(u, "fill") => snap'[u] = snap[u]
      /\ before' \in [Threads -> SUBSET Entries] /\ hooked' \in [Threads -> BOOLEAN]
      /\ UNCHANGED <<stream, buffer, filler, pc, req, pos, reply>>
  BY <1>1 DEF TypeOK, ThreadsStay
<1>3. TypeOK' /\ ControlOK' /\ UsesOK' /\ StreamsOK' /\ BufferOK'
  BY <1>2, ChangeKeepsUses
<1>4. content' = [content EXCEPT ![d] = entries]
  BY <1>1, ChangeWrites
<1>5. ASSUME NEW u \in Threads, Op(u, "rmdir")', ~hooked'[u]
      PROVE  RmdirOf(u)'
  <2>1. Op(u, "rmdir") /\ ~hooked[u] /\ before'[u] = before[u] /\ snap'[u] = snap[u]
        /\ UNCHANGED <<pc, req, reply>>
    BY <1>5 DEF Op, ThreadsStay
  <2>2. req[u].dir # d
    BY <2>1 DEF Removing, Busy, Op
  <2> QED BY <1>4, <2>1, <2>2, RmdirElsewhereStays
<1> QED BY <1>3, <1>5 DEF HoldsInv, RmdirOK

\* A hook in the parent locks a file of a directory that a rmdir holds.
LEMMA DirectoryHookKeepsHolds ==
    ASSUME HoldsInv, NEW d \in DOMAIN content, DirectoryHook(d)
    PROVE  HoldsInv'
<1>1. TypeOK /\ RmdirOK
  BY DEF HoldsInv
<1>2. /\ \E x \in Range(content[d]) : Put(d, MarkerEntry(x))
      /\ hooked' = [t \in Threads |-> hooked[t] \/ Busy(t, "rmdir", d)]
      /\ UNCHANGED <<stream, buffer, filler, pc, req, snap, pos, reply, before>>
  BY DEF DirectoryHook, jobVars
<1>3. PICK entries : Rewrites(content[d], entries) /\ Change(d, entries)
  BY <1>2, PutChanges
<1>4. /\ snap' \in [Threads -> Seq(Entries)]
      /\ \A u \in Threads : At(u, "fill") => snap'[u] = snap[u]
      /\ before' \in [Threads -> SUBSET Entries] /\ hooked' \in [Threads -> BOOLEAN]
      /\ UNCHANGED <<stream, buffer, filler, pc, req, pos, reply>>
  BY <1>1, <1>2 DEF TypeOK, Busy
<1>5. TypeOK' /\ ControlOK' /\ UsesOK' /\ StreamsOK' /\ BufferOK'
  BY <1>3, <1>4, ChangeKeepsUses
<1>6. content' = [content EXCEPT ![d] = entries]
  BY <1>1, <1>3, ChangeWrites
<1>7. ASSUME NEW u \in Threads, Op(u, "rmdir")', ~hooked'[u]
      PROVE  RmdirOf(u)'
  <2>1. Op(u, "rmdir") /\ ~hooked[u] /\ ~Busy(u, "rmdir", d)
    BY <1>2, <1>7 DEF Op
  <2>2. req[u].dir # d
    BY <2>1 DEF Busy, Op
  <2>3. before'[u] = before[u] /\ snap'[u] = snap[u] /\ UNCHANGED <<pc, req, reply>>
    BY <1>2
  <2> QED BY <1>6, <2>1, <2>2, <2>3, RmdirElsewhereStays
<1> QED BY <1>5, <1>7 DEF HoldsInv, RmdirOK

\* The requests that are one step.
LEMMA OneCallIs ==
    ASSUME OneCall
    PROVE  /\ ThreadsStay
           /\ \/ \E h \in Handles : Releasedir(h)
              \/ \E h \in Handles, d \in Dirs : Opendir(h, d)
              \/ \E d \in Dirs : Mkdir(d)
              \/ \E d \in DOMAIN content : /\ ~Removing(d) /\ stream' = stream
                                           /\ \E x : Put(d, x) \/ Drop(d, x)
<1>1. ThreadsStay
  BY DEF OneCall, ThreadsStay, jobVars
<1>2. ASSUME NEW d \in DOMAIN content, NEW f \in Files, Create(d, f)
      PROVE  ~Removing(d) /\ stream' = stream /\ \E x : Put(d, x) \/ Drop(d, x)
  BY <1>2 DEF Create
<1>3. ASSUME NEW d \in DOMAIN content, NEW x \in Entries, Unlink(d, x)
      PROVE  ~Removing(d) /\ stream' = stream /\ \E y : Put(d, y) \/ Drop(d, y)
  BY <1>3 DEF Unlink
<1> QED BY <1>1, <1>2, <1>3 DEF OneCall

\* Every step keeps HoldsInv.
LEMMA HoldsIsInductive == HoldsInv /\ [Next]_vars => HoldsInv'
<1> SUFFICES ASSUME HoldsInv, [Next]_vars PROVE HoldsInv'
  OBVIOUS
<1>1. ASSUME NEW t \in Threads, Step(t) PROVE HoldsInv'
  BY <1>1, IterateKeepsHolds, FillKeepsHolds, FillEndsKeepsHolds, ReturnPageKeepsHolds,
     ReturnKeepsHolds, RmdirCheckKeepsHolds, RmdirDeleteKeepsHolds, RmdirUnlinkKeepsHolds,
     RmdirRemoveKeepsHolds DEF Step
<1>2. ASSUME OneCall PROVE HoldsInv'
  <2>1. ThreadsStay
    BY <1>2, OneCallIs
  <2>2. ASSUME NEW d \in DOMAIN content, ~Removing(d), stream' = stream, NEW x,
               Put(d, x) \/ Drop(d, x)
        PROVE  HoldsInv'
    <3>1. PICK entries : Rewrites(content[d], entries) /\ Change(d, entries)
      BY <2>2, PutChanges, DropChanges
    <3> QED BY <2>1, <2>2, <3>1, CallChangeKeepsHolds
  <2> QED BY <1>2, <2>1, <2>2, OneCallIs, ReleasedirKeepsHolds, OpendirKeepsHolds,
             MkdirKeepsHolds
<1>3. CASE UNCHANGED vars
  <2>1. /\ UNCHANGED <<content, stream, buffer, filler, pc, req, snap, pos, reply>>
        /\ UNCHANGED <<due, listed, twice, changes, before, hooked>>
    BY <1>3 DEF vars, jobVars, history, streamHistory
  <2>2. TypeOK'
    BY <2>1 DEF HoldsInv, TypeOK
  <2>3. ControlOK' /\ UsesOK'
    BY <2>1 DEF HoldsInv, ControlOK, UsesOK, DirectoryThere, At, Op
  <2>4. StreamsOK' /\ BufferOK'
    BY <2>1 DEF HoldsInv, StreamsOK, BufferOK, Op
  <2>5. RmdirOK'
    BY <2>1 DEF HoldsInv, RmdirOK, RmdirOf, At, Op
  <2> QED BY <2>2, <2>3, <2>4, <2>5 DEF HoldsInv
<1> QED BY <1>1, <1>2, <1>3, BeginReaddirKeepsHolds, BeginRmdirKeepsHolds,
           DirectoryHookKeepsHolds DEF Next

\* Whatever the workers do, who holds what, what is in a reply and what a rmdir
\* leaves stay as HoldsInv says.
THEOREM HoldsAlways == Spec => []HoldsInv
BY InitHolds, HoldsIsInductive, PTL DEF Spec

\* Every variable keeps its type: no directory holds a name twice, and no
\* place in one lies beyond its end.
THEOREM TypesAreKept == Spec => []TypeOK
<1>1. HoldsInv => TypeOK
  BY DEF HoldsInv
<1> QED BY <1>1, HoldsAlways, PTL

\* CustomVfs::readdir and fill_dir: a reply has no hidden name in it, and only
\* names that the request of its own stream put there, although fill_dir finds
\* the filler in a variable of the wrapper.
THEOREM RepliesAreOwnAndVisible == Spec => []ListsOwnVisibleEntries
<1>1. HoldsInv => ListsOwnVisibleEntries
  <2> SUFFICES ASSUME HoldsInv, NEW h \in Handles, NEW i \in DOMAIN buffer[h]
               PROVE  /\ buffer[h][i][1] \in Visible
                      /\ \E t \in Threads : /\ req[t] # NoRequest /\ req[t].op = "readdir"
                                            /\ req[t].handle = h
    BY DEF ListsOwnVisibleEntries
  <2>1. buffer[h] \in Seq(Entries \X (1..MaxEntries))
    BY DEF HoldsInv, TypeOK
  <2>2. i \in 1..Len(buffer[h]) /\ buffer[h] # <<>>
    BY <2>1, RangeByPosition
  <2> QED BY <2>2 DEF HoldsInv, BufferOK, Op
<1> QED BY <1>1, HoldsAlways, PTL

\* CustomVfs::rmdir: one that answers ENOTEMPTY has deleted nothing, unless a
\* hook locked a file of the directory in between.
THEOREM FailedRmdirKeepsEntries == Spec => []FailedRmdirDeletesNothing
<1>1. HoldsInv => FailedRmdirDeletesNothing
  <2> SUFFICES ASSUME HoldsInv, NEW t \in Threads,
                      At(t, "return"), req[t].op = "rmdir", reply[t] = "notempty", ~hooked[t]
               PROVE  before[t] \subseteq Range(content[req[t].dir])
    BY DEF FailedRmdirDeletesNothing
  <2>1. req[t] # NoRequest
    BY DEF HoldsInv, ControlOK, At
  <2> QED BY <2>1 DEF HoldsInv, RmdirOK, RmdirOf, Op, At
<1> QED BY <1>1, HoldsAlways, PTL

-----------------------------------------------------------------------------
(* Each step keeps ListingInv *)

\* What is known of a stream: its fields, its page, and its only reader.
LEMMA StreamFields ==
    ASSUME HoldsInv, NEW h \in Handles
    PROVE  /\ stream[h].off \in Nat /\ stream[h].off <= MaxEntries
           /\ stream[h].dir # NoDir =>
                /\ stream[h].dir \in DOMAIN content
                /\ content[stream[h].dir] \in Seq(Entries)
                /\ Len(content[stream[h].dir]) \in Nat
                /\ \A i, j \in 1..Len(content[stream[h].dir]) :
                     content[stream[h].dir][i] = content[stream[h].dir][j] => i = j
           /\ Len(buffer[h]) \in Nat
           /\ buffer[h] = <<>> <=> Len(buffer[h]) = 0
           /\ \A i \in 1..Len(buffer[h]) : /\ buffer[h][i][1] \in Entries
                                           /\ buffer[h][i][2] \in Nat
           /\ due[h] \subseteq Visible
           /\ \A t, u \in Threads : Reads(t, h) /\ Reads(u, h) => t = u
           /\ \A t \in Threads : Reads(t, h) => /\ stream[h].dir = req[t].dir
                                                /\ stream[h].dir # NoDir
                                                /\ ~stream[h].end
                                                /\ pc[t] \in {"iterate", "fill", "return"}
           /\ buffer[h] # <<>> =>
                \E t \in Threads : Reads(t, h) /\ pc[t] \in {"fill", "return"}
<1>1. TypeOK /\ ControlOK /\ UsesOK /\ StreamsOK /\ BufferOK
  BY DEF HoldsInv
<1>2. stream[h].off \in Nat /\ stream[h].off <= MaxEntries
  BY <1>1, BoundsAssumption DEF TypeOK
<1>3. ASSUME stream[h].dir # NoDir
      PROVE  /\ stream[h].dir \in DOMAIN content
             /\ content[stream[h].dir] \in Seq(Entries)
             /\ Len(content[stream[h].dir]) \in Nat
             /\ \A i, j \in 1..Len(content[stream[h].dir]) :
                  content[stream[h].dir][i] = content[stream[h].dir][j] => i = j
  <2> DEFINE s == content[stream[h].dir]
  <2>1. stream[h].dir \in DOMAIN content
    BY <1>1, <1>3 DEF StreamsOK
  <2>2. s \in Seq(Entries) /\ IsInjective(s)
    BY <1>1, <2>1 DEF TypeOK
  <2> HIDE DEF s
  <2>3. Len(s) \in Nat /\ \A i, j \in 1..Len(s) : s[i] = s[j] => i = j
    BY <2>2, LenProperties, InjectiveByPosition
  <2> QED BY <2>1, <2>2, <2>3 DEF s
<1>4. /\ Len(buffer[h]) \in Nat
      /\ buffer[h] = <<>> <=> Len(buffer[h]) = 0
      /\ \A i \in 1..Len(buffer[h]) : /\ buffer[h][i][1] \in Entries
                                      /\ buffer[h][i][2] \in Nat
  <2>1. buffer[h] \in Seq(Entries \X (1..MaxEntries))
    BY <1>1 DEF TypeOK
  <2>2. \A i \in 1..Len(buffer[h]) : buffer[h][i] \in Entries \X (1..MaxEntries)
    BY <2>1, ElementOfSeq
  <2>3. Len(buffer[h]) \in Nat /\ (buffer[h] = <<>> <=> Len(buffer[h]) = 0)
    BY <2>1, RangeByPosition
  <2> QED BY <2>2, <2>3, BoundsAssumption
<1>5. due[h] \subseteq Visible
  BY <1>1 DEF TypeOK
<1>6. \A t, u \in Threads : Reads(t, h) /\ Reads(u, h) => t = u
  BY <1>1 DEF UsesOK, Reads
<1>7. ASSUME NEW t \in Threads, Reads(t, h)
      PROVE  /\ stream[h].dir = req[t].dir
             /\ stream[h].dir # NoDir
             /\ ~stream[h].end
             /\ pc[t] \in {"iterate", "fill", "return"}
  <2>1. Op(t, "readdir") /\ req[t].handle = h
    BY <1>7 DEF Reads
  <2>2. stream[h].dir = req[t].dir /\ ~stream[h].end
    BY <1>1, <2>1 DEF UsesOK
  <2>3. req[t].dir \in Dirs
    BY <1>1, <2>1, RequestFields DEF Op
  <2>4. pc[t] \in {"iterate", "fill", "return"}
    BY <1>1, <2>1 DEF TypeOK, ControlOK, At, Op
  <2> QED BY <2>2, <2>3, <2>4, NoDirAssumption
<1>8. buffer[h] # <<>> => \E t \in Threads : Reads(t, h) /\ pc[t] \in {"fill", "return"}
  BY <1>1 DEF BufferOK, Reads
<1> QED BY <1>2, <1>3, <1>4, <1>5, <1>6, <1>7, <1>8

\* A listing that a step has nothing to do with.
LEMMA OtherListingStays ==
    ASSUME HoldsInv, NEW h \in Handles, ListingOf(h),
           stream'[h] = stream[h], buffer'[h] = buffer[h],
           due'[h] = due[h], listed'[h] = listed[h], twice'[h] = twice[h],
           changes'[h] = changes[h],
           stream[h].dir \in DOMAIN content =>
             content'[stream[h].dir] = content[stream[h].dir],
           \A t \in Threads : Reads(t, h)' <=> Reads(t, h),
           \A t \in Threads :
             Reads(t, h) => pc'[t] = pc[t] /\ snap'[t] = snap[t] /\ pos'[t] = pos[t]
    PROVE  ListingOf(h)'
<1>1. HistoryOf(h) /\ PlaceOf(h) /\ PageOf(h)
  BY DEF ListingOf
<1>2. \A x, n : stream[h].dir # NoDir => /\ After(h, x, n)' <=> After(h, x, n)
                                         /\ NotAfter(h, x, n)' <=> NotAfter(h, x, n)
  BY StreamFields DEF After, NotAfter
<1>3. \A x : InPage(h, x)' <=> InPage(h, x)
  BY DEF InPage
<1>4. Quiet(h)' => Quiet(h)
  BY DEF Quiet, At
<1>5. HistoryOf(h)'
  BY <1>1 DEF HistoryOf, Removed, Created
<1>6. PlaceOf(h)'
  BY <1>1, <1>2, <1>4 DEF PlaceOf
<1>7. PageOf(h)'
  <2>1. ASSUME NEW i \in 1..Len(buffer[h]) PROVE stream[h].dir # NoDir
    BY StreamFields, <2>1
  <2> QED BY <1>1, <1>2, <2>1 DEF PageOf, Created
<1>8. ASSUME NEW t \in Threads, Reads(t, h)'
      PROVE  /\ At(t, "fill")' => FillOf(t, h)'
             /\ At(t, "return")' => AnswerOf(h)'
  <2>1. Reads(t, h) /\ pc'[t] = pc[t] /\ snap'[t] = snap[t] /\ pos'[t] = pos[t]
    BY <1>8
  <2>2. stream[h].dir # NoDir
    BY <2>1, StreamFields
  <2>3. /\ At(t, "fill") => FillOf(t, h)
        /\ At(t, "return") => AnswerOf(h)
    BY <2>1 DEF ListingOf
  <2>4. ASSUME At(t, "fill") PROVE FillOf(t, h)'
    BY <1>2, <1>3, <2>1, <2>2, <2>3, <2>4 DEF FillOf, Removed, Created
  <2>5. ASSUME At(t, "return") PROVE AnswerOf(h)'
    BY <1>2, <1>3, <2>1, <2>2, <2>3, <2>5 DEF AnswerOf
  <2> QED BY <2>1, <2>4, <2>5 DEF At
<1> QED BY <1>5, <1>6, <1>7, <1>8 DEF ListingOf

\* A change of the directory: what only comes moves what is due on, what only
\* goes moves nothing behind what it was behind.
LEMMA ChangeKeepsListing ==
    ASSUME HoldsInv, ListingInv, NEW d \in DOMAIN content, NEW entries,
           Rewrites(content[d], entries), Change(d, entries),
           stream' = stream, buffer' = buffer,
           \A t \in Threads : Op(t, "readdir")' <=> Op(t, "readdir"),
           \A t \in Threads : Op(t, "readdir") => /\ pc'[t] = pc[t] /\ req'[t] = req[t]
                                                  /\ snap'[t] = snap[t] /\ pos'[t] = pos[t]
    PROVE  ListingInv'
<1> SUFFICES ASSUME NEW h \in Handles PROVE ListingOf(h)'
  BY DEF ListingInv
<1>1. TypeOK /\ ListingOf(h)
  BY DEF HoldsInv, ListingInv
<1>2. /\ content' = [content EXCEPT ![d] = entries]
      /\ twice' = twice
      /\ changes[h] \subseteq changes'[h]
      /\ stream[h].dir = d => /\ Range(entries) \subseteq Range(content[d]) \/ Created(h)'
                              /\ Range(content[d]) \subseteq Range(entries) \/ Removed(h)'
      /\ due'[h] = IF Removed(h)' THEN {} ELSE due[h]
      /\ listed'[h] = IF Created(h)' THEN {} ELSE listed[h]
  BY <1>1, ChangeWrites DEF Created, Removed
<1>3. \A t \in Threads : Reads(t, h)' <=> Reads(t, h)
  BY DEF Reads, Op
<1>4. \A t \in Threads : Reads(t, h) => /\ pc'[t] = pc[t] /\ snap'[t] = snap[t]
                                        /\ pos'[t] = pos[t]
  BY DEF Reads
<1>5. ASSUME NEW x, NEW n \in Nat, stream[h].dir # NoDir, ~Removed(h)', After(h, x, n)
      PROVE  After(h, x, n)'
  <2>1. stream[h].dir \in DOMAIN content
    BY <1>5, StreamFields
  <2>2. CASE stream[h].dir # d
    BY <1>2, <1>5, <2>1, <2>2 DEF After
  <2>3. CASE stream[h].dir = d
    <3>1. content'[stream[h].dir] = entries
      BY <1>2, <2>3
    <3>2. PICK i \in 1..Len(content[d]) : i > n /\ content[d][i] = x
      BY <1>5, <2>3 DEF After
    <3>3. PICK m \in 1..Len(entries) : m >= i /\ entries[m] = content[d][i]
      BY <1>2, <1>5, <2>3 DEF Rewrites, Advances
    <3>4. Len(content[d]) \in Nat /\ Len(entries) \in Nat
      BY <1>5, <2>3, StreamFields, LenProperties DEF Rewrites
    <3>5. m > n /\ entries[m] = x
      BY <3>2, <3>3, <3>4
    <3> QED BY <3>1, <3>5 DEF After
  <2> QED BY <2>2, <2>3
<1>6. ASSUME NEW x, NEW n \in Nat, stream[h].dir # NoDir, ~Created(h)', NotAfter(h, x, n)
      PROVE  NotAfter(h, x, n)'
  <2>1. stream[h].dir \in DOMAIN content
    BY <1>6, StreamFields
  <2>2. CASE stream[h].dir # d
    BY <1>2, <1>6, <2>1, <2>2 DEF NotAfter
  <2>3. CASE stream[h].dir = d
    <3>1. content'[stream[h].dir] = entries
      BY <1>2, <2>3
    <3>2. ASSUME NEW i \in 1..Len(entries), entries[i] = x
          PROVE  i <= n
      <4>1. PICK m \in 1..Len(content[d]) : m >= i /\ content[d][m] = entries[i]
        BY <1>2, <1>6, <2>3 DEF Rewrites, Advances
      <4>2. Len(content[d]) \in Nat /\ Len(entries) \in Nat
        BY <1>6, <2>3, StreamFields, LenProperties DEF Rewrites
      <4>3. m <= n
        BY <1>6, <2>3, <3>2, <4>1 DEF NotAfter
      <4> QED BY <4>1, <4>2, <4>3
    <3> QED BY <3>1, <3>2 DEF NotAfter
  <2> QED BY <2>2, <2>3
<1>7. /\ stream[h].off \in Nat
      /\ \A i \in 1..Len(buffer[h]) : buffer[h][i][2] \in Nat
      /\ \A x : InPage(h, x)' <=> InPage(h, x)
      /\ Created(h) => Created(h)'
      /\ Removed(h) => Removed(h)'
  BY <1>2, StreamFields DEF InPage, Created, Removed
<1>8. HistoryOf(h)'
  BY <1>1, <1>2, <1>7 DEF ListingOf, HistoryOf
<1>9. PlaceOf(h)'
  <2>1. Quiet(h)' => Quiet(h)
    BY <1>3, <1>4 DEF Quiet, At
  <2>2. PlaceOf(h)
    BY <1>1 DEF ListingOf
  <2> QED BY <1>2, <1>5, <1>6, <1>7, <2>1, <2>2 DEF PlaceOf
<1>10. PageOf(h)'
  <2>1. ASSUME NEW i \in 1..Len(buffer[h]) PROVE stream[h].dir # NoDir
    BY StreamFields, <2>1
  <2>2. PageOf(h)
    BY <1>1 DEF ListingOf
  <2>3. ASSUME ~Created(h)', NEW i \in 1..Len(buffer[h])
        PROVE  /\ buffer[h][i][1] \notin listed'[h]
               /\ NotAfter(h, buffer[h][i][1], buffer[h][i][2])'
    <3>1. /\ buffer[h][i][1] \notin listed[h]
          /\ NotAfter(h, buffer[h][i][1], buffer[h][i][2])
      BY <1>7, <2>2, <2>3 DEF PageOf
    <3>2. buffer[h][i][2] \in Nat /\ stream[h].dir # NoDir
      BY <1>7, <2>1, <2>3
    <3>3. NotAfter(h, buffer[h][i][1], buffer[h][i][2])'
      <4> DEFINE x == buffer[h][i][1]
                 n == buffer[h][i][2]
      <4>1. buffer'[h][i][1] = x /\ buffer'[h][i][2] = n
        OBVIOUS
      <4>2. NotAfter(h, x, n) /\ n \in Nat
        BY <3>1, <3>2
      <4> HIDE DEF x, n
      <4>3. \A k \in 1..Len(content'[stream'[h].dir]) : content'[stream'[h].dir][k] = x => k <= n
        BY <1>6, <2>3, <3>2, <4>2 DEF NotAfter
      <4> QED BY <4>1, <4>3 DEF NotAfter, x, n
    <3> QED BY <1>2, <2>3, <3>1, <3>3
  <2> QED BY <2>2, <2>3 DEF PageOf
<1>11. ASSUME NEW t \in Threads, Reads(t, h)'
       PROVE  /\ At(t, "fill")' => FillOf(t, h)'
              /\ At(t, "return")' => AnswerOf(h)'
  <2>1. Reads(t, h) /\ pc'[t] = pc[t] /\ snap'[t] = snap[t] /\ pos'[t] = pos[t]
    BY <1>3, <1>4, <1>11
  <2>2. stream[h].dir # NoDir
    BY <2>1, StreamFields
  <2>3. /\ At(t, "fill") => FillOf(t, h)
        /\ At(t, "return") => AnswerOf(h)
    BY <1>1, <2>1 DEF ListingOf
  <2>4. pos[t] \in Nat /\ Len(snap[t]) \in Nat
    BY <1>1, LenProperties, BoundsAssumption DEF TypeOK
  <2>5. ASSUME At(t, "fill") PROVE FillOf(t, h)'
    <3>1. FillOf(t, h)
      BY <2>3, <2>5
    <3>2. ASSUME ~Removed(h)', NEW j \in 1..Len(snap[t])
          PROVE  After(h, snap[t][j], pos[t] + j - 1)'
      <4> DEFINE x == snap[t][j]
                 n == pos[t] + j - 1
      <4>1. snap'[t][j] = x /\ pos'[t] + j - 1 = n /\ n \in Nat
        BY <2>1, <2>4
      <4>2. After(h, x, n)
        BY <1>7, <3>1, <3>2 DEF FillOf
      <4> HIDE DEF x, n
      <4>3. \E k \in 1..Len(content'[stream'[h].dir]) :
              k > n /\ content'[stream'[h].dir][k] = x
        BY <1>5, <2>2, <3>2, <4>1, <4>2 DEF After
      <4> QED BY <4>1, <4>3 DEF After
    <3>3. ASSUME ~Created(h)', NEW j \in 1..Len(snap[t])
          PROVE  /\ snap[t][j] \notin listed'[h]
                 /\ NotAfter(h, snap[t][j], pos[t] + j)'
      <4> DEFINE x == snap[t][j]
                 n == pos[t] + j
      <4>1. snap'[t][j] = x /\ pos'[t] + j = n /\ n \in Nat
        BY <2>1, <2>4
      <4>2. NotAfter(h, x, n) /\ x \notin listed[h]
        BY <1>7, <3>1, <3>3 DEF FillOf
      <4> HIDE DEF x, n
      <4>3. \A k \in 1..Len(content'[stream'[h].dir]) :
              content'[stream'[h].dir][k] = x => k <= n
        BY <1>6, <2>2, <3>3, <4>1, <4>2 DEF NotAfter
      <4> QED BY <1>2, <3>3, <4>1, <4>2, <4>3 DEF NotAfter, x
    <3> QED BY <1>2, <1>7, <2>1, <3>1, <3>2, <3>3 DEF FillOf
  <2>6. ASSUME At(t, "return") PROVE AnswerOf(h)'
    <3>1. AnswerOf(h)
      BY <2>3, <2>6
    <3> DEFINE m == buffer[h][Len(buffer[h])][2]
    <3>2. ASSUME NEW x \in due'[h] PROVE InPage(h, x) \/ After(h, x, m)'
      <4>1. x \in due[h] /\ ~Removed(h)' /\ buffer[h] # <<>>
        BY <1>2, <3>1, <3>2 DEF AnswerOf
      <4>2. m \in Nat
        BY <4>1, StreamFields
      <4>3. InPage(h, x) \/ After(h, x, m)
        BY <3>1, <4>1 DEF AnswerOf
      <4> HIDE DEF m
      <4>4. ASSUME After(h, x, m)
            PROVE  \E k \in 1..Len(content'[stream'[h].dir]) :
                     k > m /\ content'[stream'[h].dir][k] = x
        BY <1>5, <2>2, <4>1, <4>2, <4>4 DEF After
      <4> QED BY <4>3, <4>4 DEF After, m
    <3> QED BY <1>2, <1>7, <3>1, <3>2 DEF AnswerOf
  <2> QED BY <2>1, <2>5, <2>6 DEF At
<1> QED BY <1>8, <1>9, <1>10, <1>11 DEF ListingOf

\* A step that reads no directory and leaves their entries alone.
LEMMA ListingsStay ==
    ASSUME HoldsInv, ListingInv,
           UNCHANGED <<stream, buffer, due, listed, twice, changes>>,
           \A e \in DOMAIN content : content'[e] = content[e],
           \A t \in Threads : Op(t, "readdir")' <=> Op(t, "readdir"),
           \A t \in Threads : Op(t, "readdir") => /\ pc'[t] = pc[t] /\ req'[t] = req[t]
                                                  /\ snap'[t] = snap[t] /\ pos'[t] = pos[t]
    PROVE  ListingInv'
<1> SUFFICES ASSUME NEW h \in Handles PROVE ListingOf(h)'
  BY DEF ListingInv
<1>1. ListingOf(h)
  BY DEF ListingInv
<1>2. /\ \A t \in Threads : Reads(t, h)' <=> Reads(t, h)
      /\ \A t \in Threads : Reads(t, h) => pc'[t] = pc[t] /\ snap'[t] = snap[t] /\ pos'[t] = pos[t]
  BY DEF Reads, Op
<1> QED BY <1>1, <1>2, OtherListingStays

\* No stream is open at first.
LEMMA InitListing == Init => ListingInv
<1> SUFFICES ASSUME Init, NEW h \in Handles PROVE ListingOf(h)
  BY DEF ListingInv
<1>1. /\ stream[h] = NotListing /\ buffer[h] = <<>> /\ due[h] = {} /\ listed[h] = {}
      /\ twice[h] = FALSE
      /\ \A t \in Threads : req[t] = NoRequest
  BY DEF Init
<1>2. Len(<<>>) = 0
  BY EmptySeq
<1>3. \A t \in Threads : ~Reads(t, h)
  BY <1>1 DEF Reads, Op
<1> QED BY <1>1, <1>2, <1>3 DEF ListingOf, HistoryOf, PlaceOf, PageOf, NotListing

\* Nothing has been read yet for the page.
LEMMA BeginReaddirKeepsListing ==
    ASSUME HoldsInv, ListingInv, NEW t \in Threads, NEW h \in Handles, BeginReaddir(t, h)
    PROVE  ListingInv'
<1> DEFINE r == [op |-> "readdir", dir |-> stream[h].dir, handle |-> h]
<1>1. TypeOK /\ ControlOK /\ UsesOK
  BY DEF HoldsInv
<1>2. /\ At(t, "idle") /\ ~Listing(h)
      /\ pc' = [pc EXCEPT ![t] = "iterate"]
      /\ req' = [req EXCEPT ![t] = r]
      /\ UNCHANGED <<content, stream, buffer, snap, pos, streamHistory>>
  BY DEF BeginReaddir, Begin, Goto
<1>3. r.op = "readdir" /\ r.handle = h
  OBVIOUS
<1> HIDE DEF r
<1>4. /\ \A u \in Threads : u # t => pc'[u] = pc[u] /\ req'[u] = req[u]
      /\ pc'[t] = "iterate" /\ req'[t] = r
      /\ req[t] = NoRequest
  BY <1>1, <1>2 DEF TypeOK, ControlOK
<1>5. \A u \in Threads : ~Reads(u, h)
  BY <1>1, <1>2 DEF Listing, Busy, Op, Reads, UsesOK
<1>6. ASSUME NEW g \in Handles, g # h
      PROVE  ListingOf(g)'
  <2>1. \A u \in Threads : Reads(u, g)' <=> Reads(u, g)
    BY <1>3, <1>4, <1>6 DEF Reads, Op
  <2>2. \A u \in Threads : Reads(u, g) => pc'[u] = pc[u] /\ snap'[u] = snap[u] /\ pos'[u] = pos[u]
    BY <1>2, <1>4 DEF Reads, Op
  <2>3. ListingOf(g)
    BY DEF ListingInv
  <2> QED BY <1>2, <2>1, <2>2, <2>3, OtherListingStays DEF streamHistory
<1>7. ListingOf(h)'
  <2>1. HistoryOf(h) /\ PlaceOf(h) /\ PageOf(h)
    BY DEF ListingInv, ListingOf
  <2>2. Quiet(h)
    BY <1>5 DEF Quiet
  <2>3. \A u \in Threads : Reads(u, h)' => u = t
    BY <1>4, <1>5 DEF Reads, Op
  <2>4. /\ HistoryOf(h)'
        /\ PageOf(h)'
    BY <1>2, <2>1 DEF HistoryOf, PageOf, Created, Removed, NotAfter, streamHistory
  <2>5. PlaceOf(h)'
    BY <1>2, <2>1, <2>2 DEF PlaceOf, After, NotAfter, streamHistory
  <2> QED BY <1>4, <2>3, <2>4, <2>5 DEF ListingOf, At
<1> QED BY <1>6, <1>7 DEF ListingInv

\* What is read are the entries after the offset, in their order.
LEMMA IterateKeepsListing ==
    ASSUME HoldsInv, ListingInv, NEW t \in Threads, Iterate(t)
    PROVE  ListingInv'
<1>0. PICK h \in Handles : req[t].handle = h
  BY IterateReads
<1> DEFINE s == content[req[t].dir]
           off == stream[h].off
<1>1. TypeOK
  BY DEF HoldsInv
<1>2. /\ At(t, "iterate")
      /\ pc' = [pc EXCEPT ![t] = "fill"]
      /\ UNCHANGED <<content, stream, buffer, req, history>>
      /\ \A u \in Threads : u # t => /\ pc'[u] = pc[u] /\ snap'[u] = snap[u]
                                     /\ pos'[u] = pos[u]
      /\ pc'[t] = "fill"
  BY <1>1 DEF Iterate, Goto, TypeOK
<1>3. /\ Op(t, "readdir") /\ h \in Handles
      /\ off \in Nat /\ s \in Seq(Entries) /\ Len(s) \in Nat
      /\ pos'[t] = off
      /\ Len(snap'[t]) = IF off <= Len(s) THEN Len(s) - off ELSE 0
      /\ \A j \in 1..Len(snap'[t]) : snap'[t][j] = s[off + j]
  BY <1>0, IterateReads
<1>4. Reads(t, h) /\ \A u \in Threads : \A g \in Handles : Reads(u, g)' <=> Reads(u, g)
  BY <1>0, <1>2, <1>3 DEF Reads, Op
<1>5. ASSUME NEW g \in Handles, g # h
      PROVE  ListingOf(g)'
  <2>1. \A u \in Threads : Reads(u, g) => u # t
    BY <1>0, <1>5 DEF Reads
  <2>2. ListingOf(g)
    BY DEF ListingInv
  <2> QED BY <1>2, <1>4, <2>1, <2>2, OtherListingStays DEF history, streamHistory
<1>6. ListingOf(h)'
  <2>1. HistoryOf(h) /\ PlaceOf(h) /\ PageOf(h)
    BY <1>3 DEF ListingInv, ListingOf
  <2>2. /\ stream[h].dir = req[t].dir /\ stream[h].dir # NoDir
        /\ \A u \in Threads : Reads(u, h) => u = t
    BY <1>3, <1>4, StreamFields
  <2>3. \A i, j \in 1..Len(s) : s[i] = s[j] => i = j
    BY <1>3, <2>2, StreamFields
  <2>4. Quiet(h)
    BY <1>2, <2>2 DEF Quiet
  <2>5. buffer[h] = <<>> /\ Len(buffer[h]) = 0
    <3>1. \A u \in Threads : Reads(u, h) => pc[u] \notin {"fill", "return"}
      BY <1>2, <2>2 DEF At
    <3> QED BY <1>3, <3>1, StreamFields
  <2>6. UNCHANGED <<due, listed, twice, changes>>
    BY <1>2 DEF history, streamHistory
  <2>7. HistoryOf(h)' /\ PageOf(h)'
    BY <1>2, <2>1, <2>6 DEF HistoryOf, PageOf, Created, Removed, NotAfter
  <2>8. ~Quiet(h)'
    BY <1>2, <1>3, <1>4 DEF Quiet, At
  <2>9. PlaceOf(h)'
    BY <1>2, <2>1, <2>6, <2>8 DEF PlaceOf, NotAfter
  <2>10. FillOf(t, h)'
    <3>1. ASSUME NEW x \in due[h] PROVE \E j \in 1..Len(snap'[t]) : snap'[t][j] = x
      <4>1. PICK i \in 1..Len(s) : i > off /\ s[i] = x
        BY <2>1, <2>2, <2>4, <3>1 DEF PlaceOf, After
      <4>2. i - off \in 1..Len(snap'[t]) /\ off + (i - off) = i
        <5> HIDE DEF off, s
        <5> QED BY <4>1, <1>3
      <4>3. snap'[t][i - off] = x
        <5> HIDE DEF off, s
        <5> QED BY <4>1, <4>2, <1>3
      <4> QED BY <4>2, <4>3
    <3>2. ASSUME NEW j \in 1..Len(snap'[t])
          PROVE  /\ off + j \in 1..Len(s) /\ off + j > off + j - 1
                 /\ s[off + j] = snap'[t][j]
                 /\ off + j \in Nat
      <4> HIDE DEF off, s
      <4> QED BY <1>3, <3>2
    <3>3. ASSUME NEW j \in 1..Len(snap'[t])
          PROVE  After(h, snap'[t][j], off + j - 1)
      BY <2>2, <3>2, <3>3 DEF After
    <3>4. ASSUME NEW j \in 1..Len(snap'[t])
          PROVE  /\ NotAfter(h, snap'[t][j], off + j)
                 /\ snap'[t][j] \notin listed[h]
      <4>1. \A i \in 1..Len(s) : s[i] = snap'[t][j] => i = off + j
        BY <2>3, <3>2, <3>4
      <4>2. NotAfter(h, snap'[t][j], off + j)
        BY <2>2, <3>2, <3>4, <4>1 DEF NotAfter
      <4>3. ~(off + j <= off)
        BY <1>3, <3>2, <3>4
      <4> QED BY <2>1, <2>2, <3>2, <3>4, <4>2, <4>3 DEF PlaceOf, NotAfter
    <3>5. \A j \in 1..Len(snap'[t]) : After(h, snap[t][j], pos[t] + j - 1)'
      BY <1>2, <1>3, <3>3 DEF After
    <3>6. \A j \in 1..Len(snap'[t]) : /\ NotAfter(h, snap[t][j], pos[t] + j)'
                                      /\ snap'[t][j] \notin listed'[h]
      BY <1>2, <1>3, <2>6, <3>4 DEF NotAfter
    <3>7. off <= off
      BY <1>3
    <3>8. \A x \in due'[h] : \E j \in 1..Len(snap'[t]) : snap'[t][j] = x
      BY <2>6, <3>1
    <3>9. stream'[h].off <= pos'[t] /\ Len(buffer'[h]) = 0
      BY <1>2, <1>3, <2>5, <3>7
    <3> QED BY <3>5, <3>6, <3>8, <3>9 DEF FillOf
  <2> QED BY <1>2, <1>4, <2>2, <2>7, <2>9, <2>10 DEF ListingOf, At
<1> QED BY <1>5, <1>6 DEF ListingInv

\* What is passed over is owed to nobody: it is hidden, or it is gone.
LEMMA FillKeepsListing ==
    ASSUME HoldsInv, ListingInv, NEW t \in Threads, Fill(t)
    PROVE  ListingInv'
<1>0. PICK h \in Handles : req[t].handle = h
  BY FillVisits
<1>a. PICK x, p, n : x = snap[t][1] /\ p = pos[t] /\ n = Len(buffer[h])
  OBVIOUS
<1>1. TypeOK
  BY DEF HoldsInv
<1>2. /\ UNCHANGED <<content, stream, pc, req, history>>
      /\ \A u \in Threads : u # t => snap'[u] = snap[u] /\ pos'[u] = pos[u]
  BY <1>1 DEF Fill, TypeOK
<1>3. /\ Op(t, "readdir") /\ At(t, "fill")
      /\ p \in Nat /\ pos'[t] = p + 1
      /\ Len(snap[t]) \in Nat \ {0}
      /\ Len(snap'[t]) = Len(snap[t]) - 1
      /\ \A j \in 1..Len(snap'[t]) : snap'[t][j] = snap[t][j + 1]
      /\ n \in Nat
      /\ \/ /\ Len(buffer'[h]) = n + 1
            /\ \A i \in 1..n : buffer'[h][i] = buffer[h][i]
            /\ buffer'[h][n + 1] = <<x, p + 1>>
         \/ ~Shown(t) /\ buffer'[h] = buffer[h]
      /\ \A g \in Handles : g # h => buffer'[g] = buffer[g]
  BY <1>0, <1>a, FillVisits
<1>4. /\ Reads(t, h)
      /\ \A u \in Threads : \A g \in Handles : Reads(u, g)' <=> Reads(u, g)
  BY <1>0, <1>2, <1>3 DEF Reads, Op
<1>5. ASSUME NEW g \in Handles, g # h
      PROVE  ListingOf(g)'
  <2>1. \A u \in Threads : Reads(u, g) => u # t
    BY <1>0, <1>5 DEF Reads
  <2>2. ListingOf(g)
    BY DEF ListingInv
  <2> QED BY <1>2, <1>3, <1>4, <1>5, <2>1, <2>2, OtherListingStays DEF history, streamHistory
<1>6. ListingOf(h)'
  <2>1. HistoryOf(h) /\ PlaceOf(h) /\ PageOf(h) /\ FillOf(t, h)
    BY <1>3, <1>4 DEF ListingInv, ListingOf
  <2>2. /\ stream[h].dir = req[t].dir /\ stream[h].dir # NoDir
        /\ \A u \in Threads : Reads(u, h) => u = t
        /\ stream[h].off \in Nat
        /\ \A i \in 1..n : buffer[h][i][2] \in Nat
        /\ due[h] \subseteq Visible
        /\ content[stream[h].dir] \in Seq(Entries)
    BY <1>a, <1>4, StreamFields
  <2>3. UNCHANGED <<due, listed, twice, changes>>
    BY <1>2 DEF history, streamHistory
  <2>4. HistoryOf(h)'
    BY <1>2, <2>1, <2>3 DEF HistoryOf, Created, Removed
  <2>5. ~Quiet(h)'
    BY <1>2, <1>3, <1>4 DEF Quiet, At
  <2>6. PlaceOf(h)'
    BY <1>2, <2>1, <2>3, <2>5 DEF PlaceOf, NotAfter
  <2>7. \A y, m : /\ After(h, y, m)' <=> After(h, y, m)
                  /\ NotAfter(h, y, m)' <=> NotAfter(h, y, m)
    BY <1>2 DEF After, NotAfter
  <2>8. 1 \in 1..Len(snap[t])
    BY <1>3
  <2>9. ~Created(h) => x \notin listed[h] /\ NotAfter(h, x, p + 1)
    BY <1>a, <2>1, <2>8 DEF FillOf
  <2>10. /\ stream[h].off <= p
         /\ \A i \in 1..n : buffer[h][i][2] <= p
    BY <1>a, <2>1 DEF FillOf
  <2>11. PageOf(h)'
    <3>1. CASE /\ Len(buffer'[h]) = n + 1
               /\ \A i \in 1..n : buffer'[h][i] = buffer[h][i]
               /\ buffer'[h][n + 1] = <<x, p + 1>>
      <4>1. \A i \in 1..(n + 1) : i \in 1..n \/ i = n + 1
        BY <1>3
      <4>2. \A i \in 1..(n + 1) : buffer'[h][i][2] <= p + 1
        <5>1. \A i \in 1..n : buffer[h][i][2] <= p + 1
          BY <1>3, <2>2, <2>10
        <5> QED BY <1>3, <3>1, <4>1, <5>1
      <4>3. stream'[h].off <= p + 1
        BY <1>2, <1>3, <2>2, <2>10
      <4>4. ASSUME ~Created(h), NEW i \in 1..(n + 1)
            PROVE  /\ buffer'[h][i][1] \notin listed[h]
                   /\ NotAfter(h, buffer'[h][i][1], buffer'[h][i][2])
        <5>1. CASE i \in 1..n
          BY <1>a, <2>1, <3>1, <4>4, <5>1 DEF PageOf
        <5>2. CASE i = n + 1
          BY <2>9, <3>1, <4>4, <5>2
        <5> QED BY <4>1, <4>4, <5>1, <5>2
      <4>5. ASSUME ~Created(h), NEW i \in 1..(n + 1)
            PROVE  NotAfter(h, buffer[h][i][1], buffer[h][i][2])'
        BY <1>2, <4>4, <4>5 DEF NotAfter
      <4> QED BY <2>3, <3>1, <4>2, <4>3, <4>4, <4>5 DEF PageOf, Created
    <3>2. CASE buffer'[h] = buffer[h]
      BY <1>2, <2>1, <2>3, <3>2 DEF PageOf, Created, NotAfter
    <3> QED BY <1>3, <3>1, <3>2
  <2>12. FillOf(t, h)'
    <3>1. ASSUME NEW y \in due[h]
          PROVE  \/ \E i \in 1..Len(buffer'[h]) : buffer'[h][i][1] = y
                 \/ \E j \in 1..Len(snap'[t]) : snap'[t][j] = y
      <4>1. CASE InPage(h, y)
        <5>1. PICK i \in 1..n : buffer[h][i][1] = y
          BY <1>a, <4>1 DEF InPage
        <5>2. i \in 1..Len(buffer'[h]) /\ buffer'[h][i] = buffer[h][i]
          BY <1>a, <1>3, <5>1
        <5> QED BY <5>1, <5>2
      <4>2. CASE y = x
        <5>1. Shown(t)
          <6>1. After(h, x, p + 1 - 1)
            BY <1>a, <2>1, <2>8, <3>1, <4>2 DEF FillOf, HistoryOf
          <6>2. x \in Range(content[req[t].dir])
            BY <2>2, <6>1, RangeByPosition DEF After
          <6>3. ~IsPrefixed(x)
            BY <2>2, <3>1, <4>2 DEF Visible, IsPrefixed
          <6> QED BY <1>a, <6>2, <6>3 DEF Shown
        <5>2. n + 1 \in 1..Len(buffer'[h]) /\ buffer'[h][n + 1][1] = x
          BY <1>3, <5>1
        <5> QED BY <4>2, <5>2
      <4>3. CASE y # x /\ \E j \in 1..Len(snap[t]) : snap[t][j] = y
        <5>1. PICK j \in 1..Len(snap[t]) : snap[t][j] = y
          BY <4>3
        <5>2. j # 1
          BY <1>a, <4>3, <5>1
        <5>3. j - 1 \in 1..Len(snap'[t]) /\ j - 1 + 1 = j
          BY <1>3, <5>1, <5>2
        <5>4. snap'[t][j - 1] = y
          BY <1>3, <5>1, <5>3
        <5> QED BY <5>3, <5>4
      <4> QED BY <2>1, <3>1, <4>1, <4>2, <4>3 DEF FillOf
    <3>2. stream'[h].off <= pos'[t]
      BY <1>2, <1>3, <2>2, <2>10
    <3>3. \A i \in 1..Len(buffer'[h]) : buffer'[h][i][2] <= pos'[t]
      <4>1. \A i \in 1..n : buffer[h][i][2] <= p + 1
        BY <1>3, <2>2, <2>10
      <4>2. \A i \in 1..(n + 1) : i \in 1..n \/ i = n + 1
        BY <1>3
      <4>3. CASE /\ Len(buffer'[h]) = n + 1
                 /\ \A i \in 1..n : buffer'[h][i] = buffer[h][i]
                 /\ buffer'[h][n + 1] = <<x, p + 1>>
        <5>1. buffer'[h][n + 1][2] = p + 1 /\ p + 1 <= p + 1
          BY <1>3, <4>3
        <5>2. \A i \in 1..(n + 1) : buffer'[h][i][2] <= p + 1
          BY <4>1, <4>2, <4>3, <5>1
        <5> QED BY <1>3, <4>3, <5>2
      <4>4. CASE buffer'[h] = buffer[h]
        BY <1>a, <1>3, <4>1, <4>4
      <4> QED BY <1>3, <4>3, <4>4
    <3>4. ASSUME NEW j \in 1..Len(snap'[t])
          PROVE  /\ j + 1 \in 1..Len(snap[t]) /\ snap'[t][j] = snap[t][j + 1]
                 /\ pos'[t] + j - 1 = p + (j + 1) - 1 /\ pos'[t] + j = p + (j + 1)
      <4>1. j \in Nat /\ j + 1 \in 1..Len(snap[t]) /\ snap'[t][j] = snap[t][j + 1]
        BY <1>3, <3>4
      <4>2. \A q : q = p + 1 => q + j - 1 = p + (j + 1) - 1 /\ q + j = p + (j + 1)
        BY <1>3, <4>1
      <4>3. pos'[t] = p + 1
        BY <1>3
      <4> QED BY <4>1, <4>2, <4>3
    <3>5. ASSUME ~Removed(h), NEW j \in 1..Len(snap'[t])
          PROVE  After(h, snap[t][j], pos[t] + j - 1)'
      <4>1. After(h, snap[t][j + 1], p + (j + 1) - 1)
        BY <1>a, <2>1, <3>4, <3>5 DEF FillOf
      <4>2. After(h, snap'[t][j], pos'[t] + j - 1)
        BY <3>4, <3>5, <4>1
      <4> QED BY <1>2, <4>2 DEF After
    <3>6. ASSUME ~Created(h), NEW j \in 1..Len(snap'[t])
          PROVE  snap'[t][j] \notin listed[h] /\ NotAfter(h, snap[t][j], pos[t] + j)'
      <4>1. snap[t][j + 1] \notin listed[h] /\ NotAfter(h, snap[t][j + 1], p + (j + 1))
        BY <1>a, <2>1, <3>4, <3>6 DEF FillOf
      <4>2. NotAfter(h, snap'[t][j], pos'[t] + j)
        BY <3>4, <3>6, <4>1
      <4> QED BY <1>2, <3>4, <3>6, <4>1, <4>2 DEF NotAfter
    <3> QED BY <2>3, <3>1, <3>2, <3>3, <3>5, <3>6 DEF FillOf, InPage, Created, Removed
  <2> QED BY <1>2, <1>3, <1>4, <2>2, <2>4, <2>6, <2>11, <2>12 DEF ListingOf, At
<1> QED BY <1>5, <1>6 DEF ListingInv

\* A reply that is not full has all there was; a full one owes what follows it.
LEMMA FillEndsKeepsListing ==
    ASSUME HoldsInv, ListingInv, NEW t \in Threads, FillEnds(t)
    PROVE  ListingInv'
<1>1. TypeOK /\ ControlOK
  BY DEF HoldsInv
<1>2. /\ At(t, "fill")
      /\ snap[t] # <<>> => Full(t)
      /\ pc' = [pc EXCEPT ![t] = "return"]
      /\ UNCHANGED <<content, stream, buffer, req, history>>
      /\ \A u \in Threads : u # t => /\ pc'[u] = pc[u] /\ snap'[u] = snap[u]
                                     /\ pos'[u] = pos[u]
      /\ pc'[t] = "return"
  BY <1>1 DEF FillEnds, Answer, Goto, TypeOK
<1>3. Op(t, "readdir") /\ filler[t] = req[t].handle
  BY <1>1, <1>2 DEF ControlOK, At
<1>0. PICK h \in Handles : req[t].handle = h
  BY <1>1, <1>3, RequestFields DEF Op
<1>4. /\ Reads(t, h)
      /\ \A u \in Threads : \A g \in Handles : Reads(u, g)' <=> Reads(u, g)
  BY <1>0, <1>2, <1>3 DEF Reads, Op
<1>5. ASSUME NEW g \in Handles, g # h
      PROVE  ListingOf(g)'
  <2>1. \A u \in Threads : Reads(u, g) => u # t
    BY <1>0, <1>5 DEF Reads
  <2>2. ListingOf(g)
    BY DEF ListingInv
  <2> QED BY <1>2, <1>4, <2>1, <2>2, OtherListingStays DEF history, streamHistory
<1>6. ListingOf(h)'
  <2>1. HistoryOf(h) /\ PlaceOf(h) /\ PageOf(h) /\ FillOf(t, h)
    BY <1>2, <1>4 DEF ListingInv, ListingOf
  <2>a. PICK n : n = Len(buffer[h])
    OBVIOUS
  <2>2. /\ \A u \in Threads : Reads(u, h) => u = t
        /\ n \in Nat /\ (buffer[h] = <<>> <=> n = 0)
        /\ \A i \in 1..n : buffer[h][i][2] \in Nat
        /\ stream[h].dir # NoDir
        /\ Len(content[stream[h].dir]) \in Nat
    BY <1>4, <2>a, StreamFields
  <2>3. UNCHANGED <<due, listed, twice, changes>>
    BY <1>2 DEF history, streamHistory
  <2>4. HistoryOf(h)' /\ PageOf(h)'
    BY <1>2, <2>1, <2>3 DEF HistoryOf, PageOf, Created, Removed, NotAfter
  <2>5. ~Quiet(h)'
    BY <1>2, <1>4 DEF Quiet, At
  <2>6. PlaceOf(h)'
    BY <1>2, <2>1, <2>3, <2>5 DEF PlaceOf, NotAfter
  <2>7. pos[t] \in Nat /\ Len(snap[t]) \in Nat /\ (snap[t] = <<>> <=> Len(snap[t]) = 0)
    BY <1>1, RangeByPosition, BoundsAssumption DEF TypeOK
  <2>8. snap[t] # <<>> => n # 0
    BY <1>0, <1>2, <1>3, <2>2, <2>a, BoundsAssumption DEF Full
  <2>9. ASSUME buffer[h] = <<>> PROVE due[h] = {}
    <3>1. n = 0 /\ Len(snap[t]) = 0
      BY <2>2, <2>7, <2>8, <2>9
    <3> QED BY <2>1, <2>a, <3>1 DEF FillOf, InPage
  <2>10. ASSUME NEW x \in due[h], ~InPage(h, x)
         PROVE  After(h, x, buffer[h][n][2])
    <3>1. PICK j \in 1..Len(snap[t]) : snap[t][j] = x
      BY <2>1, <2>10 DEF FillOf
    <3>2. After(h, x, pos[t] + j - 1)
      BY <2>1, <2>10, <3>1 DEF FillOf, HistoryOf
    <3>3. PICK i \in 1..Len(content[stream[h].dir]) :
            i > pos[t] + j - 1 /\ content[stream[h].dir][i] = x
      BY <3>2 DEF After
    <3>4. n \in 1..n
      BY <2>2, <2>7, <2>8, <3>1
    <3>5. buffer[h][n][2] \in Nat /\ buffer[h][n][2] <= pos[t]
      BY <2>1, <2>2, <2>a, <3>4 DEF FillOf
    <3>6. i > buffer[h][n][2]
      BY <2>2, <2>7, <3>1, <3>3, <3>5
    <3> QED BY <3>3, <3>6 DEF After
  <2>11. AnswerOf(h)'
    <3>1. \A x : InPage(h, x)' <=> InPage(h, x)
      BY <1>2 DEF InPage
    <3>2. ASSUME NEW x \in due[h], ~InPage(h, x)
          PROVE  After(h, x, buffer[h][Len(buffer[h])][2])'
      BY <1>2, <2>a, <2>10, <3>2 DEF After
    <3> QED BY <1>2, <2>3, <2>9, <3>1, <3>2 DEF AnswerOf
  <2> QED BY <1>2, <1>4, <2>2, <2>4, <2>6, <2>11 DEF ListingOf, At
<1> QED BY <1>5, <1>6 DEF ListingInv

\* The offset moves to the place of the last entry in the page.
LEMMA ReturnPageKeepsListing ==
    ASSUME HoldsInv, ListingInv, NEW t \in Threads, ReturnPage(t)
    PROVE  ListingInv'
<1>0. PICK h \in Handles : req[t].handle = h
  BY PageMoves
<1>a. PICK page, n, names : /\ page = buffer[h] /\ n = Len(page)
                            /\ names = {page[i][1] : i \in 1..n}
  OBVIOUS
<1>1. TypeOK
  BY DEF HoldsInv
<1>2. /\ Op(t, "readdir") /\ Done(t)
      /\ stream[h].dir # NoDir /\ ~stream[h].end
      /\ n \in Nat
      /\ \A g \in Handles : g # h =>
           /\ stream'[g] = stream[g] /\ buffer'[g] = buffer[g]
           /\ due'[g] = due[g] /\ listed'[g] = listed[g] /\ twice'[g] = twice[g]
      /\ due'[h] = due[h] \ names
      /\ "created" \in changes[h] => listed'[h] = listed[h] /\ twice'[h] = twice[h]
      /\ "created" \notin changes[h] =>
           /\ listed'[h] = listed[h] \union names
           /\ twice'[h] = (twice[h] \/ names \intersect listed[h] # {})
      /\ page = <<>> => /\ stream'[h].dir = stream[h].dir
                        /\ stream'[h].off = stream[h].off /\ stream'[h].end
      /\ page # <<>> => /\ stream'[h].dir = stream[h].dir
                        /\ stream'[h].off = page[n][2]
                        /\ stream'[h].end = stream[h].end
      /\ buffer'[h] = <<>> /\ changes' = changes
  <2> DEFINE set == {e[1] : e \in Range(page)}
  <2>1. LET hh == req[t].handle IN
          {e[1] : e \in Range(buffer[hh])} = {buffer[hh][i][1] : i \in 1..Len(buffer[hh])}
    BY PageMoves
  <2>2. names = {e[1] : e \in Range(buffer[h])}
    BY <1>0, <1>a, <2>1
  <2> QED BY <1>0, <1>a, <2>2, PageMoves
<1>3. /\ At(t, "return") /\ content' = content
      /\ \A u \in Threads : u # t =>
           /\ snap'[u] = snap[u] /\ pos'[u] = pos[u]
           /\ pc'[u] = pc[u] /\ req'[u] = req[u]
      /\ req'[t] = NoRequest
  BY <1>1, <1>2, DoneFrees DEF TypeOK
<1>4. /\ Reads(t, h)
      /\ \A u \in Threads : Reads(u, h) => u = t
  BY <1>0, <1>2, StreamFields DEF Reads
<1>5. ASSUME NEW g \in Handles, g # h
      PROVE  ListingOf(g)'
  <2>1. \A u \in Threads : Reads(u, g) => u # t
    BY <1>0, <1>5 DEF Reads
  <2>2. \A u \in Threads : Reads(u, g)' <=> Reads(u, g)
    BY <1>3, <2>1 DEF Reads, Op
  <2>3. ListingOf(g)
    BY DEF ListingInv
  <2> QED BY <1>2, <1>3, <1>5, <2>1, <2>2, <2>3, OtherListingStays
<1>6. ListingOf(h)'
  <2>1. HistoryOf(h) /\ PlaceOf(h) /\ PageOf(h) /\ AnswerOf(h)
    BY <1>3, <1>4 DEF ListingInv, ListingOf
  <2>2. \A u \in Threads : ~Reads(u, h)'
    BY <1>3, <1>4 DEF Reads, Op
  <2>3. /\ page = <<>> <=> n = 0
        /\ stream[h].off \in Nat
        /\ \A i \in 1..n : page[i][2] \in Nat
        /\ Len(content[stream[h].dir]) \in Nat
    BY <1>2, <1>a, StreamFields
  <2>4. stream'[h].dir = stream[h].dir
    BY <1>2
  <2>5. /\ stream'[h].off \in Nat
        /\ stream[h].off <= stream'[h].off
        /\ \A i \in 1..n : page[i][2] <= stream'[h].off
    <3>1. CASE page = <<>>
      BY <1>2, <2>3, <3>1
    <3>2. CASE page # <<>>
      <4>1. n \in 1..n
        BY <1>2, <2>3, <3>2
      <4> QED BY <1>2, <1>a, <2>1, <2>3, <3>2, <4>1 DEF PageOf
    <3> QED BY <3>1, <3>2
  <2>6. HistoryOf(h)'
    <3>1. Removed(h) => due'[h] = {}
      BY <1>2, <2>1 DEF HistoryOf
    <3>2. Created(h) => listed'[h] = {}
      BY <1>2, <2>1 DEF HistoryOf, Created
    <3>3. stream'[h].end => due'[h] = {}
      BY <1>2, <1>a, <2>1 DEF AnswerOf
    <3>4. ~twice'[h]
      <4>1. CASE Created(h)
        BY <1>2, <2>1, <4>1 DEF HistoryOf, Created
      <4>2. CASE ~Created(h)
        <5>1. names \intersect listed[h] = {}
          BY <1>a, <2>1, <4>2 DEF PageOf
        <5> QED BY <1>2, <2>1, <4>2, <5>1 DEF HistoryOf, Created
      <4> QED BY <4>1, <4>2
    <3> QED BY <1>2, <3>1, <3>2, <3>3, <3>4 DEF HistoryOf, Created, Removed
  <2>7. PlaceOf(h)'
    <3>1. ASSUME NEW x \in due'[h]
          PROVE  After(h, x, stream'[h].off)
      <4>1. x \in due[h] /\ ~InPage(h, x) /\ page # <<>>
        BY <1>2, <1>a, <2>1, <3>1 DEF AnswerOf, InPage
      <4> QED BY <1>2, <1>a, <2>1, <4>1 DEF AnswerOf
    <3>2. ASSUME NEW x \in listed'[h], NEW i \in 1..Len(content[stream[h].dir]),
                 content[stream[h].dir][i] = x
          PROVE  i <= stream'[h].off
      <4>1. CASE x \in listed[h]
        <5>1. i <= stream[h].off
          BY <1>2, <2>1, <3>2, <4>1 DEF PlaceOf, NotAfter
        <5> QED BY <2>3, <2>5, <5>1
      <4>2. CASE x \notin listed[h]
        <5>1. x \in names /\ ~Created(h)
          BY <1>2, <3>2, <4>2 DEF Created
        <5>2. PICK k \in 1..n : page[k][1] = x
          BY <1>a, <5>1
        <5>3. i <= page[k][2]
          BY <1>a, <2>1, <3>2, <5>1, <5>2 DEF PageOf, NotAfter
        <5> QED BY <2>3, <2>5, <5>2, <5>3
      <4> QED BY <4>1, <4>2
    <3>3. \A x \in due'[h] : After(h, x, stream[h].off)'
      BY <1>3, <2>4, <3>1 DEF After
    <3>4. \A x \in listed'[h] : NotAfter(h, x, stream[h].off)'
      BY <1>3, <2>4, <3>2 DEF NotAfter
    <3> QED BY <3>3, <3>4 DEF PlaceOf
  <2>8. PageOf(h)'
    <3>1. Len(buffer'[h]) = 0
      BY <1>2, EmptySeq
    <3> QED BY <1>2, <3>1 DEF PageOf
  <2> QED BY <2>2, <2>6, <2>7, <2>8 DEF ListingOf
<1> QED BY <1>5, <1>6 DEF ListingInv

\* The streams of a directory that goes are over.
LEMMA RmdirRemoveKeepsListing ==
    ASSUME HoldsInv, ListingInv, NEW t \in Threads, RmdirRemove(t)
    PROVE  ListingInv'
<1>1. TypeOK /\ ControlOK /\ UsesOK
  BY DEF HoldsInv
<1>2. /\ At(t, "unlink")
      /\ pc' = [pc EXCEPT ![t] = "return"]
      /\ UNCHANGED <<buffer, req, snap, pos>>
  BY DEF RmdirRemove, Answer, Goto, jobVars
<1>3. Op(t, "rmdir")
  BY <1>1, <1>2 DEF ControlOK, At
<1>4. \A u \in Threads : Op(u, "readdir") => u # t /\ pc'[u] = pc[u]
  BY <1>1, <1>2, <1>3 DEF Op, TypeOK
<1>5. PICK d : d = req[t].dir
  OBVIOUS
<1>6. CASE content[d] = <<>>
  <2>1. /\ content' = Restrict(content, DOMAIN content \ {d})
        /\ stream' = [h \in Handles |-> IF h \in Streams(d) THEN NotListing ELSE stream[h]]
        /\ Forget(Streams(d))
    BY <1>5, <1>6 DEF RmdirRemove
  <2>2. \A e \in DOMAIN content : e # d => content'[e] = content[e]
    BY <2>1 DEF Restrict
  <2>3. \A h \in Handles : h \in Streams(d) <=> stream[h].dir = d
    BY DEF Streams
  <2>4. /\ due' = [h \in Handles |-> IF h \in Streams(d) THEN {} ELSE due[h]]
        /\ listed' = [h \in Handles |-> IF h \in Streams(d) THEN {} ELSE listed[h]]
        /\ twice' = [h \in Handles |-> h \notin Streams(d) /\ twice[h]]
        /\ changes' = [h \in Handles |-> IF h \in Streams(d) THEN {} ELSE changes[h]]
    BY <2>1 DEF Forget
  <2>5. \A u \in Threads : \A h \in Handles : Reads(u, h)' <=> Reads(u, h)
    BY <1>2 DEF Reads, Op
  <2>6. ASSUME NEW h \in Handles, stream[h].dir # d
        PROVE  ListingOf(h)'
    <3>1. ListingOf(h)
      BY DEF ListingInv
    <3>2. h \notin Streams(d)
      BY <2>3, <2>6
    <3>3. twice'[h] = twice[h]
      BY <1>1, <2>4, <3>2 DEF TypeOK
    <3>4. /\ stream'[h] = stream[h] /\ buffer'[h] = buffer[h]
          /\ due'[h] = due[h] /\ listed'[h] = listed[h] /\ changes'[h] = changes[h]
      BY <1>2, <2>1, <2>4, <3>2
    <3>5. \A u \in Threads : Reads(u, h) => /\ pc'[u] = pc[u] /\ snap'[u] = snap[u]
                                            /\ pos'[u] = pos[u]
      BY <1>2, <1>4 DEF Reads
    <3> QED BY <2>2, <2>5, <2>6, <3>1, <3>3, <3>4, <3>5, OtherListingStays
  <2>7. ASSUME NEW h \in Handles, stream[h].dir = d
        PROVE  ListingOf(h)'
    <3>1. \A u \in Threads : ~Reads(u, h)
      <4>1. \A u \in Threads : Reads(u, h) => stream[h].dir = req[u].dir
        BY StreamFields
      <4> QED BY <1>1, <1>3, <1>4, <1>5, <2>7, <4>1 DEF UsesOK, Reads, Op
    <3>2. buffer[h] = <<>> /\ Len(buffer[h]) = 0
      BY <3>1, StreamFields
    <3>3. /\ stream'[h] = NotListing /\ due'[h] = {} /\ listed'[h] = {} /\ ~twice'[h]
          /\ changes'[h] = {}
      BY <2>1, <2>3, <2>4, <2>7
    <3> QED BY <1>2, <2>5, <3>1, <3>2, <3>3
            DEF ListingOf, HistoryOf, PlaceOf, PageOf, NotListing
  <2> QED BY <2>6, <2>7 DEF ListingInv
<1>7. CASE content[d] # <<>>
  <2>1. UNCHANGED <<content, stream, streamHistory>>
    BY <1>5, <1>7 DEF RmdirRemove
  <2> QED BY <1>2, <1>4, <2>1, ListingsStay DEF streamHistory, Op
<1> QED BY <1>6, <1>7

\* A new stream owes what is visible in the directory.
LEMMA OpendirKeepsListing ==
    ASSUME HoldsInv, ListingInv, ThreadsStay, NEW h \in Handles, NEW d \in Dirs, Opendir(h, d)
    PROVE  ListingInv'
<1> DEFINE new == [dir |-> d, off |-> 0, end |-> FALSE]
<1>1. TypeOK /\ StreamsOK
  BY DEF HoldsInv
<1>2. /\ stream[h] = NotListing /\ d \in DOMAIN content
      /\ stream' = [stream EXCEPT ![h] = new]
      /\ due' = [due EXCEPT ![h] = Range(content[d]) \intersect Visible]
      /\ UNCHANGED <<content, listed, twice, changes>>
  BY DEF Opendir
<1>3. new.dir = d /\ ~new.end /\ new.off = 0
  OBVIOUS
<1> HIDE DEF new
<1>4. /\ \A u \in Threads : \A g \in Handles : Reads(u, g)' <=> Reads(u, g)
      /\ UNCHANGED <<buffer, pc, snap, pos>>
  BY DEF Reads, Op, ThreadsStay
<1>5. ASSUME NEW g \in Handles, g # h
      PROVE  ListingOf(g)'
  <2>1. stream'[g] = stream[g] /\ due'[g] = due[g]
    BY <1>1, <1>2, <1>5 DEF TypeOK
  <2>2. ListingOf(g)
    BY DEF ListingInv
  <2> QED BY <1>2, <1>4, <2>1, <2>2, OtherListingStays
<1>6. ListingOf(h)'
  <2>1. stream[h].dir = NoDir
    BY <1>2 DEF NotListing
  <2>2. \A u \in Threads : ~Reads(u, h)
    BY <2>1, StreamFields
  <2>3. buffer[h] = <<>> /\ Len(buffer[h]) = 0
    BY <2>2, StreamFields
  <2>4. stream'[h] = new /\ due'[h] = Range(content[d]) \intersect Visible
    BY <1>1, <1>2 DEF TypeOK
  <2>5. listed[h] = {} /\ changes[h] = {} /\ ~twice[h]
    BY <1>1, <2>1 DEF StreamsOK, ListingInv, ListingOf, HistoryOf
  <2>6. content[d] \in Seq(Entries)
    BY <1>1, <1>2 DEF TypeOK
  <2>7. ASSUME NEW x \in due'[h] PROVE After(h, x, stream[h].off)'
    <3>1. PICK i \in 1..Len(content[d]) : content[d][i] = x
      BY <2>4, <2>6, <2>7, RangeByPosition
    <3>2. i > 0
      OBVIOUS
    <3> QED BY <1>2, <1>3, <2>4, <3>1, <3>2 DEF After
  <2>8. HistoryOf(h)' /\ PlaceOf(h)'
    BY <1>2, <1>3, <2>4, <2>5, <2>7 DEF HistoryOf, PlaceOf, Created, Removed
  <2>9. PageOf(h)'
    BY <1>4, <2>3 DEF PageOf
  <2> QED BY <1>4, <2>2, <2>8, <2>9 DEF ListingOf
<1> QED BY <1>5, <1>6 DEF ListingInv

\* A released stream owes nothing.
LEMMA ReleasedirKeepsListing ==
    ASSUME HoldsInv, ListingInv, ThreadsStay, NEW h \in Handles, Releasedir(h)
    PROVE  ListingInv'
<1>1. TypeOK
  BY DEF HoldsInv
<1>2. /\ stream[h].end
      /\ stream' = [stream EXCEPT ![h] = NotListing]
      /\ due' = [g \in Handles |-> IF g \in {h} THEN {} ELSE due[g]]
      /\ listed' = [g \in Handles |-> IF g \in {h} THEN {} ELSE listed[g]]
      /\ twice' = [g \in Handles |-> g \notin {h} /\ twice[g]]
      /\ changes' = [g \in Handles |-> IF g \in {h} THEN {} ELSE changes[g]]
      /\ content' = content
  BY DEF Releasedir, Forget
<1>3. /\ \A u \in Threads : \A g \in Handles : Reads(u, g)' <=> Reads(u, g)
      /\ UNCHANGED <<buffer, pc, snap, pos>>
  BY DEF Reads, Op, ThreadsStay
<1>4. ASSUME NEW g \in Handles, g # h
      PROVE  ListingOf(g)'
  <2>1. /\ stream'[g] = stream[g] /\ due'[g] = due[g] /\ listed'[g] = listed[g]
        /\ changes'[g] = changes[g]
    BY <1>1, <1>2, <1>4 DEF TypeOK
  <2>2. twice'[g] = twice[g]
    BY <1>1, <1>2, <1>4 DEF TypeOK
  <2>3. ListingOf(g)
    BY DEF ListingInv
  <2> QED BY <1>2, <1>3, <2>1, <2>2, <2>3, OtherListingStays
<1>5. ListingOf(h)'
  <2>1. \A u \in Threads : ~Reads(u, h)
    BY <1>2, StreamFields
  <2>2. buffer[h] = <<>> /\ Len(buffer[h]) = 0
    BY <2>1, StreamFields
  <2>3. /\ stream'[h] = NotListing /\ due'[h] = {} /\ listed'[h] = {} /\ ~twice'[h]
        /\ changes'[h] = {}
    BY <1>1, <1>2 DEF TypeOK
  <2> QED BY <1>3, <2>1, <2>2, <2>3 DEF ListingOf, HistoryOf, PlaceOf, PageOf, NotListing
<1> QED BY <1>4, <1>5 DEF ListingInv

\* A rmdir's own steps, but for those that change the directory.
LEMMA RmdirKeepsListing ==
    ASSUME HoldsInv, ListingInv, NEW t \in Threads,
           \/ Return(t) \/ RmdirCheck(t) \/ RmdirDelete(t)
           \/ \E d \in Dirs : BeginRmdir(t, d)
    PROVE  ListingInv'
<1>1. TypeOK /\ ControlOK
  BY DEF HoldsInv
<1>2. CASE Return(t)
  <2>1. At(t, "return") /\ req[t].op # "readdir" /\ Done(t)
        /\ UNCHANGED <<stream, buffer, streamHistory>>
    BY <1>2 DEF Return
  <2>2. /\ content' = content
        /\ req'[t] = NoRequest
        /\ \A u \in Threads : u # t => /\ snap'[u] = snap[u] /\ pos'[u] = pos[u]
                                       /\ pc'[u] = pc[u] /\ req'[u] = req[u]
    BY <1>1, <2>1, DoneFrees DEF TypeOK
  <2>3. /\ \A u \in Threads : Op(u, "readdir")' <=> Op(u, "readdir")
        /\ \A u \in Threads : Op(u, "readdir") => u # t
    BY <2>1, <2>2 DEF Op
  <2> QED BY <2>1, <2>2, <2>3, ListingsStay DEF streamHistory
<1>3. CASE RmdirCheck(t)
  <2>1. /\ At(t, "check")
        /\ pc' = [pc EXCEPT ![t] = "return"] \/ pc' = [pc EXCEPT ![t] = "delete"]
        /\ UNCHANGED <<content, stream, buffer, req, snap, pos, history>>
    BY <1>3 DEF RmdirCheck, Answer, Goto, jobVars
  <2>2. ~Op(t, "readdir")
    BY <1>1, <2>1 DEF ControlOK, At, Op
  <2>3. \A u \in Threads : Op(u, "readdir") => pc'[u] = pc[u]
    BY <1>1, <2>1, <2>2 DEF TypeOK
  <2>4. \A u \in Threads : Op(u, "readdir")' <=> Op(u, "readdir")
    BY <2>1 DEF Op
  <2> QED BY <2>1, <2>3, <2>4, ListingsStay DEF history, streamHistory
<1>4. CASE RmdirDelete(t)
  <2>1. /\ At(t, "delete")
        /\ pc' = [pc EXCEPT ![t] = "unlink"]
        /\ snap' = [snap EXCEPT ![t] = content[req[t].dir]]
        /\ UNCHANGED <<content, stream, buffer, req, pos, history>>
    BY <1>4 DEF RmdirDelete, Goto
  <2>2. ~Op(t, "readdir")
    BY <1>1, <2>1 DEF ControlOK, At, Op
  <2>3. \A u \in Threads : Op(u, "readdir") => pc'[u] = pc[u] /\ snap'[u] = snap[u]
    BY <1>1, <2>1, <2>2 DEF TypeOK
  <2>4. \A u \in Threads : Op(u, "readdir")' <=> Op(u, "readdir")
    BY <2>1 DEF Op
  <2> QED BY <2>1, <2>3, <2>4, ListingsStay DEF history, streamHistory
<1>5. ASSUME NEW d \in Dirs, BeginRmdir(t, d) PROVE ListingInv'
  <2>1. /\ At(t, "idle")
        /\ pc' = [pc EXCEPT ![t] = "check"]
        /\ req' = [req EXCEPT ![t] = [op |-> "rmdir", dir |-> d]]
        /\ UNCHANGED <<content, stream, buffer, snap, pos, streamHistory>>
    BY <1>5 DEF BeginRmdir, Begin, Goto
  <2>2. req[t] = NoRequest
    BY <1>1, <2>1 DEF ControlOK
  <2>3. req'[t].op = "rmdir" /\ \A u \in Threads : u # t => pc'[u] = pc[u] /\ req'[u] = req[u]
    BY <1>1, <2>1 DEF TypeOK
  <2>4. /\ \A u \in Threads : Op(u, "readdir")' <=> Op(u, "readdir")
        /\ \A u \in Threads : Op(u, "readdir") => pc'[u] = pc[u] /\ req'[u] = req[u]
    BY <2>2, <2>3 DEF Op
  <2> QED BY <2>1, <2>4, ListingsStay DEF streamHistory
<1> QED BY <1>2, <1>3, <1>4, <1>5

\* A rmdir takes away an entry, as an unlink does.
LEMMA RmdirUnlinkKeepsListing ==
    ASSUME HoldsInv, ListingInv, NEW t \in Threads, RmdirUnlink(t)
    PROVE  ListingInv'
<1> DEFINE d == req[t].dir
           x == snap[t][1]
           entries == IF IsPrefixed(x) THEN Without(content[d], x) ELSE content[d]
<1>1. /\ Op(t, "rmdir") /\ d \in DOMAIN content
      /\ Rewrites(content[d], entries) /\ Change(d, entries)
      /\ snap' = [snap EXCEPT ![t] = Tail(snap[t])]
      /\ UNCHANGED <<stream, buffer, pc, req, pos>>
  BY RmdirUnlinks
<1> HIDE DEF d, x, entries
<1>2. \A u \in Threads : u # t => snap'[u] = snap[u]
  BY <1>1 DEF HoldsInv, TypeOK
<1>3. /\ \A u \in Threads : Op(u, "readdir")' <=> Op(u, "readdir")
      /\ \A u \in Threads : Op(u, "readdir") => u # t
  BY <1>1 DEF Op
<1> QED BY <1>1, <1>2, <1>3, ChangeKeepsListing

\* Every step keeps ListingInv.
LEMMA ListingIsInductive == HoldsInv /\ ListingInv /\ [Next]_vars => ListingInv'
<1> SUFFICES ASSUME HoldsInv, ListingInv, [Next]_vars PROVE ListingInv'
  OBVIOUS
<1>1. ASSUME NEW t \in Threads, Step(t) PROVE ListingInv'
  BY <1>1, IterateKeepsListing, FillKeepsListing, FillEndsKeepsListing, ReturnPageKeepsListing,
     RmdirKeepsListing, RmdirUnlinkKeepsListing, RmdirRemoveKeepsListing DEF Step
<1>2. ASSUME OneCall PROVE ListingInv'
  <2>1. ThreadsStay
    BY <1>2, OneCallIs
  <2>2. \A u \in Threads : Op(u, "readdir")' <=> Op(u, "readdir")
    BY <2>1 DEF ThreadsStay, Op
  <2>3. ASSUME NEW d \in DOMAIN content, stream' = stream, NEW x, Put(d, x) \/ Drop(d, x)
        PROVE  ListingInv'
    <3>1. PICK entries : Rewrites(content[d], entries) /\ Change(d, entries)
      BY <2>3, PutChanges, DropChanges
    <3> QED BY <2>1, <2>2, <2>3, <3>1, ChangeKeepsListing DEF ThreadsStay
  <2>4. ASSUME NEW d \in Dirs, Mkdir(d) PROVE ListingInv'
    <3>1. /\ \A e \in DOMAIN content : content'[e] = content[e]
          /\ UNCHANGED <<stream, streamHistory>>
      BY <2>4 DEF Mkdir
    <3> QED BY <2>1, <2>2, <3>1, ListingsStay DEF ThreadsStay, streamHistory
  <2> QED BY <1>2, <2>1, <2>3, <2>4, OneCallIs, ReleasedirKeepsListing, OpendirKeepsListing
<1>3. ASSUME NEW d \in DOMAIN content, DirectoryHook(d) PROVE ListingInv'
  <2>1. /\ \E y \in Range(content[d]) : Put(d, MarkerEntry(y))
        /\ UNCHANGED <<stream, buffer, pc, req, snap, pos>>
    BY <1>3 DEF DirectoryHook, jobVars
  <2>2. PICK entries : Rewrites(content[d], entries) /\ Change(d, entries)
    BY <2>1, PutChanges
  <2>3. \A u \in Threads : Op(u, "readdir")' <=> Op(u, "readdir")
    BY <2>1 DEF Op
  <2> QED BY <2>1, <2>2, <2>3, ChangeKeepsListing
<1>4. CASE UNCHANGED vars
  <2>1. UNCHANGED <<content, stream, buffer, due, listed, twice, changes, pc, req, snap, pos>>
    BY <1>4 DEF vars, jobVars, history, streamHistory
  <2>2. \A u \in Threads : Op(u, "readdir")' <=> Op(u, "readdir")
    BY <2>1 DEF Op
  <2> QED BY <2>1, <2>2, ListingsStay
<1> QED BY <1>1, <1>2, <1>3, <1>4, BeginReaddirKeepsListing, RmdirKeepsListing DEF Next

\* The invariant of the whole module.
THEOREM InvariantHolds == Spec => []DInv
<1>1. Init => DInv
  BY InitHolds, InitListing DEF DInv
<1>2. DInv /\ [Next]_vars => DInv'
  BY HoldsIsInductive, ListingIsInductive DEF DInv
<1> QED BY <1>1, <1>2, PTL DEF Spec

\* CustomVfs::readdir with offsets that count the entries of the directory: a
\* listing, however many pages it takes and whatever the other workers do, has
\* everything opendir saw unless an entry was removed, and nothing twice
\* unless one was created.
THEOREM ListingsAreComplete == Spec => []ListingIsComplete
<1>1. DInv => ListingIsComplete
  BY DEF DInv, ListingInv, ListingOf, HistoryOf, ListingIsComplete
<1> QED BY <1>1, InvariantHolds, PTL
=============================================================================
