------------------------- MODULE PrefixNamesProofs -------------------------
(***************************************************************************)
(* Names with prefixes are told apart and read back: for any base names,   *)
(* modules, arguments and tokens that meet the assumptions of PrefixNames, *)
(* any depth of directories and any number of prefixes on a component.     *)
(*                                                                         *)
(* Splitting, counting, flattening and taking prefixes away are loops over *)
(* a name; the lemmas about them are proved by the inductions of           *)
(* Induction, with a set in the place of a predicate.  On top of them come *)
(* lemmas that say what each function of Path and PrefixParser gives for a *)
(* base name under a sequence of prefixes.                                 *)
(***************************************************************************)
EXTENDS PrefixNames, Induction, TLAPS

-----------------------------------------------------------------------------
(* Sequences *)

\* Two sequences one after the other.
LEMMA Joined ==
    ASSUME NEW S, NEW u \in Seq(S), NEW v \in Seq(S)
    PROVE  /\ u \o v \in Seq(S)
           /\ Len(u) \in Nat /\ Len(v) \in Nat /\ Len(u \o v) = Len(u) + Len(v)
           /\ DOMAIN (u \o v) = 1..(Len(u) + Len(v))
           /\ \A i \in 1..Len(u) : (u \o v)[i] = u[i]
           /\ \A i \in 1..Len(v) : (u \o v)[Len(u) + i] = v[i]
<1>1. Len(u) \in Nat /\ Len(v) \in Nat
  BY LenProperties
<1> QED  BY <1>1, ConcatProperties, LenProperties

\* A part of a sequence.
LEMMA PartIs ==
    ASSUME NEW S, NEW w \in Seq(S), NEW m \in Nat, NEW n \in Nat,
           1 <= m, m <= n + 1, n <= Len(w)
    PROVE  /\ SubSeq(w, m, n) \in Seq(S) /\ Len(SubSeq(w, m, n)) = n - m + 1
           /\ \A i \in 1..(n - m + 1) : SubSeq(w, m, n)[i] = w[m + i - 1]
<1>1. Len(w) \in Nat /\ \A i \in m..n : w[i] \in S
  BY LenProperties, ElementOfSeq
<1>2. m \in Int /\ n \in Int
  OBVIOUS
<1>3. /\ SubSeq(w, m, n) \in Seq(S)
      /\ Len(SubSeq(w, m, n)) = IF m <= n THEN n - m + 1 ELSE 0
      /\ \A i \in 1..(n - m + 1) : SubSeq(w, m, n)[i] = w[m + i - 1]
  BY <1>1, <1>2, SubSeqProperties
<1> QED  BY <1>3

\* A part of a sequence that equals another, position by position.
LEMMA PartEquals ==
    ASSUME NEW S, NEW w \in Seq(S), NEW v \in Seq(S), NEW m \in Nat, NEW n \in Nat,
           m + Len(v) = n, n <= Len(w), \A i \in 1..Len(v) : w[m + i] = v[i]
    PROVE  SubSeq(w, m + 1, n) = v
<1>1. Len(v) \in Nat /\ Len(w) \in Nat
  BY LenProperties
<1>2. PICK k : k = m + 1
  OBVIOUS
<1>3. k \in Nat /\ 1 <= k /\ k <= n + 1 /\ n - k + 1 = Len(v)
  BY <1>1, <1>2
<1>4. PICK b : b = SubSeq(w, k, n)
  OBVIOUS
<1>5. b \in Seq(S) /\ Len(b) = n - k + 1 /\ \A i \in 1..(n - k + 1) : b[i] = w[k + i - 1]
  BY <1>3, <1>4, PartIs
<1>6. \A i \in 1..Len(v) : b[i] = v[i]
  BY <1>1, <1>2, <1>3, <1>5
<1>7. b = v
  BY <1>3, <1>5, <1>6, SeqEqual
<1> QED  BY <1>2, <1>4, <1>7

\* Three sequences one after the other.
LEMMA Joined3 ==
    ASSUME NEW S, NEW u \in Seq(S), NEW v \in Seq(S), NEW w \in Seq(S)
    PROVE  /\ u \o v \o w \in Seq(S) /\ u \o v \o w = u \o (v \o w)
           /\ Len(u) \in Nat /\ Len(v) \in Nat /\ Len(w) \in Nat
           /\ Len(u \o v \o w) = Len(u) + Len(v) + Len(w)
           /\ \A i \in 1..Len(u) : (u \o v \o w)[i] = u[i]
           /\ \A i \in 1..Len(v) : (u \o v \o w)[Len(u) + i] = v[i]
           /\ \A i \in 1..Len(w) : (u \o v \o w)[Len(u) + Len(v) + i] = w[i]
<1>1. PICK x : x = u \o v
  OBVIOUS
<1>2. PICK y : y = x \o w
  OBVIOUS
<1>3. /\ x \in Seq(S) /\ Len(u) \in Nat /\ Len(v) \in Nat /\ Len(x) = Len(u) + Len(v)
      /\ \A i \in 1..Len(u) : x[i] = u[i]
      /\ \A i \in 1..Len(v) : x[Len(u) + i] = v[i]
  BY <1>1, Joined
<1>4. x \in Seq(S)
  BY <1>3
<1>5. /\ y \in Seq(S) /\ Len(w) \in Nat /\ Len(y) = Len(x) + Len(w)
      /\ \A i \in 1..Len(x) : y[i] = x[i]
      /\ \A i \in 1..Len(w) : y[Len(x) + i] = w[i]
  BY <1>2, <1>4, Joined
<1>6. /\ \A i \in 1..Len(u) : y[i] = u[i]
      /\ \A i \in 1..Len(v) : y[Len(u) + i] = v[i]
      /\ \A i \in 1..Len(w) : y[Len(u) + Len(v) + i] = w[i]
  BY <1>3, <1>5
<1>7. y = u \o (v \o w)
  BY <1>1, <1>2, ConcatAssociative
<1> QED  BY <1>1, <1>2, <1>3, <1>5, <1>6, <1>7

\* The parts of three sequences one after the other.
LEMMA Parted3 ==
    ASSUME NEW S, NEW u \in Seq(S), NEW v \in Seq(S), NEW w \in Seq(S)
    PROVE  /\ SubSeq(u \o v \o w, 1, Len(u)) = u
           /\ SubSeq(u \o v \o w, Len(u) + 1, Len(u) + Len(v)) = v
           /\ SubSeq(u \o v \o w, Len(u) + Len(v) + 1, Len(u) + Len(v) + Len(w)) = w
<1>1. PICK y : y = u \o v \o w
  OBVIOUS
<1>2. /\ y \in Seq(S) /\ Len(u) \in Nat /\ Len(v) \in Nat /\ Len(w) \in Nat
      /\ Len(y) = Len(u) + Len(v) + Len(w)
      /\ \A i \in 1..Len(u) : y[0 + i] = u[i]
      /\ \A i \in 1..Len(v) : y[Len(u) + i] = v[i]
      /\ \A i \in 1..Len(w) : y[Len(u) + Len(v) + i] = w[i]
  BY <1>1, Joined3
<1>3. SubSeq(y, 0 + 1, Len(u)) = u
  BY <1>2, PartEquals
<1>4. PICK m \in Nat, n \in Nat : m = Len(u) + Len(v) /\ n = m + Len(w)
  BY <1>2
<1>5. SubSeq(y, Len(u) + 1, m) = v
  <2>1. Len(u) + Len(v) = m /\ m <= Len(y) /\ Len(u) \in Nat /\ m \in Nat
    BY <1>2, <1>4
  <2>2. y \in Seq(S) /\ \A i \in 1..Len(v) : y[Len(u) + i] = v[i]
    BY <1>2
  <2> QED  BY <2>1, <2>2, PartEquals
<1>6. SubSeq(y, m + 1, n) = w
  <2>1. m + Len(w) = n /\ n <= Len(y) /\ n \in Nat /\ m \in Nat
    BY <1>2, <1>4
  <2>2. y \in Seq(S) /\ \A i \in 1..Len(w) : y[m + i] = w[i]
    BY <1>2, <1>4
  <2> QED  BY <2>1, <2>2, PartEquals
<1> QED  BY <1>1, <1>3, <1>4, <1>5, <1>6

-----------------------------------------------------------------------------
(* Searching *)

\* The least and the greatest of a set of positions.
LEMMA MinAndMax ==
    ASSUME NEW n \in Nat, NEW I \in SUBSET (1..n), I # {}
    PROVE  /\ Min(I) \in I /\ \A i \in I : Min(I) <= i
           /\ Max(I) \in I /\ \A i \in I : i <= Max(I)
<1>1. \E m \in I : \A i \in I : m <= i
  BY LeastElement
<1>2. \E m \in I : \A i \in I : i <= m
  <2> DEFINE J == {n - i : i \in I}
  <2>0. \A j \in J : j \in Nat
    OBVIOUS
  <2>1. J \in SUBSET Nat /\ J # {}
    BY <2>0
  <2> HIDE DEF J
  <2>2. PICK k \in J : \A j \in J : k <= j
    BY <2>1, LeastElement
  <2>3. PICK m \in I : k = n - m
    BY <2>2 DEF J
  <2>4. \A i \in I : k <= n - i
    BY <2>2 DEF J
  <2> QED  BY <2>3, <2>4
<1> QED  BY <1>1, <1>2 DEF Min, Max

\* pattern stands at place i of s.
Occurs(s, pattern, i) == SubSeq(s, i, i + Len(pattern) - 1) = pattern

\* Find gives the first place of pattern, or 0 when there is none.
LEMMA FindIs ==
    ASSUME NEW s \in Words, NEW pattern \in Words, pattern # <<>>, NEW from \in Nat \ {0},
           NEW n, n = Len(s) - Len(pattern) + 1
    PROVE  \/ /\ Find(s, pattern, from) = 0
              /\ \A i \in from..n : ~Occurs(s, pattern, i)
           \/ /\ Find(s, pattern, from) \in from..n
              /\ Occurs(s, pattern, Find(s, pattern, from))
              /\ \A i \in from..n : Occurs(s, pattern, i) => Find(s, pattern, from) <= i
<1> DEFINE I == {i \in from..n : Occurs(s, pattern, i)}
           place == Find(s, pattern, from)
<1>1. Len(s) \in Nat /\ Len(pattern) \in Nat \ {0}
  BY LenProperties, EmptySeq DEF Words
<1>2. I = {i \in from..n : [j \in 1..Len(s) |-> SubSeq(s, j, j + Len(pattern) - 1)][i] = pattern}
  BY <1>1 DEF Occurs
<1>3. place = IF I # {} THEN Min(I) ELSE 0
  BY <1>2 DEF Find, SelectInSubSeq
<1>4. I \in SUBSET (1..Len(s))
  BY <1>1
<1>5. \/ I = {} /\ place = 0
      \/ place \in I /\ \A i \in I : place <= i
  <2> HIDE DEF I, place
  <2> QED  BY <1>1, <1>3, <1>4, MinAndMax
<1>6. CASE I = {} /\ place = 0
  BY <1>6
<1>7. CASE place \in I /\ \A i \in I : place <= i
  BY <1>7
<1> QED  BY <1>5, <1>6, <1>7

\* Searching one token.
LEMMA FindOne ==
    ASSUME NEW s \in Words, NEW c \in Tokens, NEW from \in Nat \ {0},
           NEW place, place = Find(s, <<c>>, from)
    PROVE  \/ place = 0 /\ \A i \in from..Len(s) : s[i] # c
           \/ /\ place \in from..Len(s) /\ s[place] = c
              /\ \A i \in from..(place - 1) : s[i] # c
<1>1. PICK pattern : pattern = <<c>>
  OBVIOUS
<1>2. pattern \in Words /\ pattern # <<>> /\ Len(pattern) = 1 /\ pattern[1] = c
  BY <1>1 DEF Words
<1>3. Len(s) \in Nat
  BY LenProperties DEF Words
<1>4. PICK n : n = Len(s) - Len(pattern) + 1
  OBVIOUS
<1>5. n = Len(s)
  BY <1>2, <1>3, <1>4
<1>6. \A i \in from..n : Occurs(s, pattern, i) <=> s[i] = c
  <2> SUFFICES ASSUME NEW i \in from..n
               PROVE  Occurs(s, pattern, i) <=> s[i] = c
    OBVIOUS
  <2>1. i \in Nat /\ 1 <= i /\ i <= i + 1 /\ i <= Len(s)
    BY <1>3, <1>5
  <2>2. PICK k, b : k = i /\ b = SubSeq(s, i, k)
    OBVIOUS
  <2>3. b \in Seq(Tokens) /\ Len(b) = k - i + 1 /\ \A j \in 1..(k - i + 1) : b[j] = s[i + j - 1]
    <3>1. i \in Nat /\ k \in Nat /\ 1 <= i /\ i <= k + 1 /\ k <= Len(s)
      BY <2>1, <2>2
    <3>2. s \in Seq(Tokens)
      BY DEF Words
    <3> QED  BY <2>2, <3>1, <3>2, PartIs
  <2>4. Len(b) = 1 /\ b[1] = s[i]
    BY <2>1, <2>2, <2>3
  <2>5. b = pattern <=> \A j \in 1..1 : b[j] = pattern[j]
    BY <1>2, <2>3, <2>4, SeqEqual DEF Words
  <2>6. i + Len(pattern) - 1 = i
    BY <1>2, <2>1
  <2> QED  BY <1>2, <2>2, <2>4, <2>5, <2>6 DEF Occurs
<1>7. place = Find(s, pattern, from)
  BY <1>1
<1>8. \/ place = 0 /\ \A i \in from..n : ~Occurs(s, pattern, i)
      \/ /\ place \in from..n
         /\ \A i \in from..n : Occurs(s, pattern, i) => place <= i
         /\ Occurs(s, pattern, place)
  <2>1. pattern \in Words
    BY <1>2
  <2>2. pattern # <<>>
    BY <1>2
  <2>3. PICK q \in Words : q = pattern /\ q # <<>>
    BY <2>1, <2>2
  <2>4. n = Len(s) - Len(q) + 1
    BY <1>4, <2>3
  <2>5. \/ Find(s, q, from) = 0 /\ \A i \in from..n : ~Occurs(s, q, i)
        \/ /\ Find(s, q, from) \in from..n
           /\ \A i \in from..n : Occurs(s, q, i) => Find(s, q, from) <= i
           /\ Occurs(s, q, Find(s, q, from))
    BY <2>3, <2>4, FindIs
  <2> QED  BY <1>7, <2>3, <2>5
<1>9. \/ place = 0 /\ \A i \in from..n : s[i] # c
      \/ /\ place \in from..n
         /\ \A i \in from..n : s[i] = c => place <= i
         /\ s[place] = c
  BY <1>6, <1>8
<1> QED  BY <1>3, <1>5, <1>9

\* Where three tokens stand.
Triples(s, a, b, c) ==
    {i \in 1..Len(s) : i + 2 <= Len(s) /\ s[i] = a /\ s[i + 1] = b /\ s[i + 2] = c}

\* Find of three tokens gives the first place where they stand: the search
\* of contains_prefix and args_from_prefix.
LEMMA FindThree ==
    ASSUME NEW s \in Words, NEW a \in Tokens, NEW b \in Tokens, NEW c \in Tokens,
           NEW place, place = Find(s, <<a, b, c>>, 1),
           NEW I, I = Triples(s, a, b, c)
    PROVE  \/ place = 0 /\ I = {}
           \/ place \in I /\ \A i \in I : place <= i
<1>1. PICK pattern : pattern = <<a, b, c>>
  OBVIOUS
<1>2. /\ pattern \in Words /\ pattern # <<>> /\ Len(pattern) = 3
      /\ pattern[1] = a /\ pattern[2] = b /\ pattern[3] = c
  BY <1>1 DEF Words
<1>3. Len(s) \in Nat
  BY LenProperties DEF Words
<1>4. PICK n : n = Len(s) - Len(pattern) + 1
  OBVIOUS
<1>5. n = Len(s) - 2
  BY <1>2, <1>3, <1>4
<1>6. \A i \in 1..n : Occurs(s, pattern, i)
                        <=> s[i] = a /\ s[i + 1] = b /\ s[i + 2] = c
  <2> SUFFICES ASSUME NEW i \in 1..n
               PROVE  Occurs(s, pattern, i)
                        <=> s[i] = a /\ s[i + 1] = b /\ s[i + 2] = c
    OBVIOUS
  <2>1. i \in Nat /\ 1 <= i /\ i + 2 <= Len(s)
    BY <1>3, <1>5
  <2>2. PICK k \in Nat : k = i + 2
    OBVIOUS
  <2>3. PICK q : q = SubSeq(s, i, k)
    OBVIOUS
  <2>4. i <= k + 1 /\ k <= Len(s) /\ k - i + 1 = 3
    BY <2>1, <2>2
  <2>5. q \in Seq(Tokens) /\ Len(q) = k - i + 1 /\ \A j \in 1..(k - i + 1) : q[j] = s[i + j - 1]
    BY <2>1, <2>3, <2>4, PartIs DEF Words
  <2>6. Len(q) = 3 /\ q[1] = s[i] /\ q[2] = s[i + 1] /\ q[3] = s[i + 2]
    BY <2>1, <2>4, <2>5
  <2>7. q = pattern <=> \A j \in 1..3 : q[j] = pattern[j]
    BY <1>2, <2>5, <2>6, SeqEqual DEF Words
  <2>8. i + Len(pattern) - 1 = k
    BY <1>2, <2>1, <2>2
  <2> QED  BY <1>2, <2>3, <2>6, <2>7, <2>8 DEF Occurs
<1>7. place = Find(s, pattern, 1)
  BY <1>1
<1>8. \/ place = 0 /\ \A i \in 1..n : ~Occurs(s, pattern, i)
      \/ /\ place \in 1..n
         /\ \A i \in 1..n : Occurs(s, pattern, i) => place <= i
         /\ Occurs(s, pattern, place)
  <2>1. pattern \in Words
    BY <1>2
  <2>2. pattern # <<>>
    BY <1>2
  <2> QED  BY <2>1, <2>2, <1>4, <1>7, FindIs
<1>9. \A i : i \in I <=> i \in 1..n /\ Occurs(s, pattern, i)
  <2>1. \A i : i \in 1..Len(s) /\ i + 2 <= Len(s) <=> i \in 1..n
    BY <1>3, <1>5
  <2> QED  BY <1>6, <2>1 DEF Triples
<1> QED  BY <1>8, <1>9

\* A token that comes once from some place on is found there.
LEMMA FoundAt ==
    ASSUME NEW s \in Words, NEW c \in Tokens, NEW from \in Nat \ {0}, NEW k \in from..Len(s),
           s[k] = c, \A i \in from..(k - 1) : s[i] # c
    PROVE  Find(s, <<c>>, from) = k
<1>1. Len(s) \in Nat
  BY LenProperties DEF Words
<1>2. PICK place : place = Find(s, <<c>>, from)
  OBVIOUS
<1>3. \/ place = 0 /\ \A i \in from..Len(s) : s[i] # c
      \/ /\ place \in from..Len(s) /\ s[place] = c
         /\ \A i \in from..(place - 1) : s[i] # c
  BY <1>2, FindOne
<1>4. place \in Nat
  BY <1>1, <1>3
<1> QED  BY <1>1, <1>2, <1>3, <1>4

\* The last slash.
LEMMA LastSlashIs ==
    ASSUME NEW p \in Words
    PROVE  \/ LastSlash(p) = 0 /\ \A i \in 1..Len(p) : p[i] # Slash
           \/ /\ LastSlash(p) \in 1..Len(p) /\ p[LastSlash(p)] = Slash
              /\ \A i \in 1..Len(p) : p[i] = Slash => i <= LastSlash(p)
<1>1. Len(p) \in Nat
  BY LenProperties DEF Words
<1>2. PICK I \in SUBSET (1..Len(p)) : I = {i \in 1..Len(p) : p[i] = Slash}
  OBVIOUS
<1>3. LastSlash(p) = IF I # {} THEN Max(I) ELSE 0
  BY <1>2 DEF LastSlash, SelectLastInSeq
<1>4. CASE I = {}
  BY <1>2, <1>3, <1>4
<1>5. CASE I # {}
  <2>1. Max(I) \in I /\ \A i \in I : i <= Max(I)
    BY <1>1, <1>5, MinAndMax
  <2> QED  BY <1>2, <1>3, <1>5, <2>1
<1> QED  BY <1>4, <1>5

-----------------------------------------------------------------------------
(* Paths *)

\* What a Path object of a directory holds, but for the root, which is <<>> here.
Place(p) == p \in Words /\ (p = <<>> \/ (p[1] = Slash /\ p[Len(p)] # Slash))
AsPath(p) == IF p = <<>> THEN Root ELSE p

\* A component of a path.
Component(s) == s \in Words /\ s # <<>> /\ \A i \in 1..Len(s) : s[i] # Slash

\* The root is a path of one slash.
LEMMA RootIs == Root \in Words /\ Len(Root) = 1 /\ Root[1] = Slash /\ Root # <<>>
<1>1. Slash \in Tokens
  BY TokensAssumption
<1> HIDE DEF Slash
<1> QED  BY <1>1 DEF Root, Words

\* Where the slashes are in a path with a last component.
LEMMA PathIs ==
    ASSUME NEW P, Place(P), NEW s, Component(s), NEW p, p = P \o Root \o s
    PROVE  /\ Place(p) /\ p # <<>> /\ p # Root
           /\ Len(P) \in Nat /\ Len(s) \in Nat \ {0} /\ Len(p) = Len(P) + 1 + Len(s)
           /\ LastSlash(p) = Len(P) + 1
           /\ SubSeq(p, 1, Len(P)) = P /\ SubSeq(p, Len(P) + 2, Len(p)) = s
<1>1. P \in Words /\ s \in Words /\ s # <<>>
  BY DEF Place, Component
<1>2. /\ p \in Words /\ Len(P) \in Nat /\ Len(s) \in Nat /\ Len(p) = Len(P) + 1 + Len(s)
      /\ \A i \in 1..Len(P) : p[i] = P[i]
      /\ \A i \in 1..1 : p[Len(P) + i] = Root[i]
      /\ \A i \in 1..Len(s) : p[Len(P) + 1 + i] = s[i]
  <2>1. PICK r \in Seq(Tokens) : r = Root /\ Len(r) = 1
    BY RootIs DEF Words
  <2>2. P \in Seq(Tokens) /\ s \in Seq(Tokens) /\ p = P \o r \o s
    BY <1>1, <2>1 DEF Words
  <2>3. /\ p \in Seq(Tokens) /\ Len(P) \in Nat /\ Len(s) \in Nat
        /\ Len(p) = Len(P) + Len(r) + Len(s)
        /\ \A i \in 1..Len(P) : p[i] = P[i]
        /\ \A i \in 1..Len(r) : p[Len(P) + i] = r[i]
        /\ \A i \in 1..Len(s) : p[Len(P) + Len(r) + i] = s[i]
    BY <2>2, Joined3
  <2> QED  BY <2>1, <2>3 DEF Words
<1>3. Len(s) \in Nat \ {0}
  BY <1>1, <1>2, EmptySeq DEF Words
<1>4. p[Len(P) + 1] = Slash
  BY <1>2, RootIs
<1>5. p[Len(p)] # Slash /\ p # <<>> /\ p # Root
  <2>1. p[Len(P) + 1 + Len(s)] = s[Len(s)] /\ s[Len(s)] # Slash
    BY <1>2, <1>3 DEF Component
  <2>2. Len(p) # 0 /\ Len(p) # 1
    BY <1>2, <1>3
  <2> QED  BY <1>2, <2>1, <2>2, RootIs, EmptySeq
<1>6. p[1] = Slash
  <2>1. CASE P = <<>>
    <3>1. Len(P) + 1 = 1
      BY <2>1
    <3> QED  BY <1>4, <3>1
  <2>2. CASE P # <<>>
    BY <1>1, <1>2, <2>2, EmptySeq DEF Place, Words
  <2> QED  BY <2>1, <2>2
<1>7. LastSlash(p) = Len(P) + 1
  <2>1. \A i \in (Len(P) + 2)..Len(p) : p[i] # Slash
    <3> SUFFICES ASSUME NEW i \in (Len(P) + 2)..Len(p) PROVE p[i] # Slash
      OBVIOUS
    <3>1. PICK j : j = i - (Len(P) + 1)
      OBVIOUS
    <3>2. j \in 1..Len(s) /\ i = Len(P) + 1 + j
      BY <1>2, <3>1
    <3> QED  BY <1>2, <3>2 DEF Component
  <2>2. Len(P) + 1 \in 1..Len(p)
    BY <1>2, <1>3
  <2>3. \/ LastSlash(p) = 0 /\ \A i \in 1..Len(p) : p[i] # Slash
        \/ /\ LastSlash(p) \in 1..Len(p) /\ p[LastSlash(p)] = Slash
           /\ \A i \in 1..Len(p) : p[i] = Slash => i <= LastSlash(p)
    BY <1>2, LastSlashIs
  <2>4. LastSlash(p) \in 1..Len(p) /\ p[LastSlash(p)] = Slash /\ Len(P) + 1 <= LastSlash(p)
    BY <1>4, <2>2, <2>3
  <2>5. LastSlash(p) \notin (Len(P) + 2)..Len(p)
    BY <2>1, <2>4
  <2> QED  BY <1>2, <2>4, <2>5
<1>8. SubSeq(p, 1, Len(P)) = P /\ SubSeq(p, Len(P) + 2, Len(p)) = s
  <2>1. /\ SubSeq(p, 1, Len(P)) = P
        /\ SubSeq(p, Len(P) + Len(Root) + 1, Len(P) + Len(Root) + Len(s)) = s
    <3>1. PICK r \in Seq(Tokens) : r = Root
      BY RootIs DEF Words
    <3>2. P \in Seq(Tokens) /\ s \in Seq(Tokens) /\ p = P \o r \o s
      BY <1>1, <3>1 DEF Words
    <3>3. /\ SubSeq(p, 1, Len(P)) = P
          /\ SubSeq(p, Len(P) + Len(r) + 1, Len(P) + Len(r) + Len(s)) = s
      BY <3>2, Parted3
    <3> QED  BY <3>1, <3>3
  <2>2. Len(P) + Len(Root) + 1 = Len(P) + 2 /\ Len(P) + Len(Root) + Len(s) = Len(p)
    BY <1>2, RootIs
  <2> QED  BY <2>1, <2>2
<1> QED  BY <1>2, <1>3, <1>5, <1>6, <1>7, <1>8 DEF Place

\* normalize changes no path.
LEMMA NormalizePlace ==
    ASSUME NEW p, Place(p)
    PROVE  Normalize(p) = p /\ Normalize(AsPath(p)) = AsPath(p)
<1>1. CASE p = <<>>
  BY <1>1 DEF Normalize, AsPath
<1>2. CASE p # <<>>
  <2>1. Head(p) = p[1] /\ Last(p) = p[Len(p)]
    BY <1>2 DEF Last
  <2> QED  BY <1>2, <2>1 DEF Normalize, AsPath, Place
<1> QED  BY <1>1, <1>2

\* string_basename, parent and normalize of a path with a last component.
LEMMA PathParts ==
    ASSUME NEW P, Place(P), NEW s, Component(s), NEW p, p = P \o Root \o s
    PROVE  /\ StringBasename(p) = s /\ Normalize(p) = p
           /\ StringParent(p) = AsPath(P) /\ Parent(p) = AsPath(P)
<1>1. /\ Place(p) /\ p # <<>> /\ p # Root
      /\ Len(P) \in Nat /\ Len(s) \in Nat \ {0} /\ Len(p) = Len(P) + 1 + Len(s)
      /\ LastSlash(p) = Len(P) + 1
      /\ SubSeq(p, 1, Len(P)) = P /\ SubSeq(p, Len(P) + 2, Len(p)) = s
  BY PathIs
<1>2. StringBasename(p) = s
  <2>1. LastSlash(p) + 1 = Len(P) + 2
    BY <1>1
  <2> QED  BY <1>1, <2>1 DEF StringBasename
<1>3. StringParent(p) = AsPath(P)
  <2>1. CASE P = <<>>
    <3>1. LastSlash(p) = 1
      BY <1>1, <2>1
    <3> QED  BY <1>1, <2>1, <3>1 DEF StringParent, AsPath
  <2>2. CASE P # <<>>
    <3>1. Len(P) # 0
      BY <2>2, EmptySeq DEF Place, Words
    <3>2. LastSlash(p) # 0 /\ LastSlash(p) # 1 /\ LastSlash(p) - 1 = Len(P)
      BY <1>1, <3>1
    <3> QED  BY <1>1, <2>2, <3>2 DEF StringParent, AsPath
  <2> QED  BY <2>1, <2>2
<1> QED  BY <1>1, <1>2, <1>3, NormalizePlace DEF Parent

\* operator/ puts a component behind a path.
LEMMA Slashing ==
    ASSUME NEW P, Place(P), NEW s, Component(s)
    PROVE  SlashedString(AsPath(P), s) = P \o Root \o s
<1>1. s \in Words /\ P \in Words /\ Root \in Words /\ Len(s) \in Nat \ {0}
  BY RootIs, EmptySeq DEF Place, Component, Words
<1>2. PICK q : q = Root \o s
  OBVIOUS
<1>3. q = <<>> \o Root \o s /\ Place(<<>>) /\ P \o Root \o s = P \o q
  <2>1. PICK r \in Seq(Tokens) : r = Root
    BY <1>1 DEF Words
  <2>2. P \in Seq(Tokens) /\ s \in Seq(Tokens) /\ <<>> \in Seq(Tokens)
    BY <1>1 DEF Words
  <2>3. <<>> \o r = r
    BY ConcatEmptySeq
  <2>4. P \o r \o s = P \o (r \o s)
    BY <2>2, ConcatAssociative
  <2> QED  BY <1>2, <2>1, <2>2, <2>3, <2>4 DEF Place, Words
<1>4. Place(q) /\ q # <<>> /\ q # Root
  BY <1>3, PathIs
<1>5. Normalize(s) = q
  <2>1. Head(s) = s[1] /\ s[1] # Slash /\ s # <<>>
    BY <1>1 DEF Component
  <2>2. s # Root
    BY <2>1, RootIs
  <2>3. Last(q) # Slash
    BY <1>4 DEF Place, Last
  <2> QED  BY <1>2, <2>1, <2>2, <2>3 DEF Normalize
<1>6. Normalize(q) = q /\ Normalize(AsPath(P)) = AsPath(P)
  BY <1>4, NormalizePlace
<1>7. Slashed(AsPath(P), q) = P \o q
  <2>1. CASE P = <<>>
    <3>1. P \o q = q
      BY <1>4, <2>1, ConcatEmptySeq DEF Place, Words
    <3> QED  BY <1>4, <1>6, <2>1, <3>1 DEF Slashed, AsPath
  <2>2. CASE P # <<>>
    <3>1. AsPath(P) = P /\ P # Root
      BY <2>2, RootIs DEF AsPath, Place
    <3>2. Place(P \o q)
      BY <1>3, PathIs
    <3> QED  BY <1>4, <1>6, <2>2, <3>1, <3>2, NormalizePlace DEF Slashed
  <2> QED  BY <2>1, <2>2
<1> QED  BY <1>3, <1>5, <1>6, <1>7 DEF SlashedString

\* f is the function that a recursive definition with these steps defines.
Iterates(f, base, step, n) == f[0] = base /\ \A i \in 1..n : f[i] = step[i][f[i - 1]]

\* A function on numbers defined from its value before.
LEMMA NumberRecursion ==
    ASSUME NEW V, NEW base \in V, NEW n \in Nat, NEW step \in [1..n -> [V -> V]]
    PROVE  \E f \in [0..n -> V] : Iterates(f, base, step, n)
<1> DEFINE Upto(f, k) == Iterates(f, base, step, k)
           T == {k \in Nat : k <= n => \E f \in [0..k -> V] : Upto(f, k)}
<1> USE DEF Iterates
<1>1. 0 \in T
  <2>1. PICK f : f = [i \in 0..0 |-> base]
    OBVIOUS
  <2>2. f \in [0..0 -> V] /\ Upto(f, 0)
    BY <2>1
  <2> QED  BY <2>2
<1>2. ASSUME NEW k \in Nat, k \in T
      PROVE  k + 1 \in T
  <2> SUFFICES ASSUME k + 1 <= n
               PROVE  \E f \in [0..(k + 1) -> V] : Upto(f, k + 1)
    OBVIOUS
  <2>1. PICK f \in [0..k -> V] : Upto(f, k)
    BY <1>2
  <2>2. PICK v : v = step[k + 1][f[k]]
    OBVIOUS
  <2>3. v \in V
    <3>1. f[k] \in V /\ k + 1 \in 1..n
      OBVIOUS
    <3> QED  BY <2>2, <3>1
  <2>4. PICK g : g = [i \in 0..(k + 1) |-> IF i = k + 1 THEN v ELSE f[i]]
    OBVIOUS
  <2>5. g \in [0..(k + 1) -> V]
    BY <2>3, <2>4
  <2>6. g[0] = base
    BY <2>1, <2>4
  <2>7. \A i \in 1..(k + 1) : g[i] = step[i][g[i - 1]]
    <3> SUFFICES ASSUME NEW i \in 1..(k + 1) PROVE g[i] = step[i][g[i - 1]]
      OBVIOUS
    <3>1. g[i - 1] = f[i - 1]
      BY <2>4
    <3>2. CASE i = k + 1
      <4>1. g[i] = v /\ g[i - 1] = f[k]
        BY <2>4, <3>1, <3>2
      <4> QED  BY <2>2, <3>2, <4>1
    <3>3. CASE i # k + 1
      <4>1. i \in 1..k
        BY <3>3
      <4>2. g[i] = f[i] /\ f[i] = step[i][f[i - 1]]
        BY <2>1, <2>4, <3>3, <4>1
      <4> QED  BY <3>1, <4>2
    <3> QED  BY <3>2, <3>3
  <2> QED  BY <2>5, <2>6, <2>7
<1>3. Nat \subseteq T
  <2> HIDE DEF T
  <2> QED  BY <1>1, <1>2, NumberInduction
<1> QED  BY <1>3

-----------------------------------------------------------------------------
(* Sequences of names *)

\* Sequences of names and arguments.
Texts == Seq(Words)

\* The parts of ss, one after the other, are f.
IsSum(f, ss) ==
    f[0] = <<>> /\ \A i \in 1..Len(ss) : f[i] = f[i - 1] \o ss[i]

\* There is one.
LEMMA SumExists ==
    ASSUME NEW ss \in Texts
    PROVE  \E f \in [0..Len(ss) -> Words] : IsSum(f, ss)
<1>1. Len(ss) \in Nat /\ \A i \in 1..Len(ss) : ss[i] \in Words
  BY LenProperties, ElementOfSeq DEF Texts
<1>2. PICK step : step = [i \in 1..Len(ss) |-> [u \in Words |-> u \o ss[i]]]
  OBVIOUS
<1>3. \A u, v : u \in Words /\ v \in Words => u \o v \in Words
  BY Joined DEF Words
<1>4. step \in [1..Len(ss) -> [Words -> Words]]
  BY <1>1, <1>2, <1>3
<1>5. <<>> \in Words
  BY EmptySeq DEF Words
<1>6. PICK f \in [0..Len(ss) -> Words] :
        f[0] = <<>> /\ \A i \in 1..Len(ss) : f[i] = step[i][f[i - 1]]
  <2>1. PICK base \in Words, n \in Nat : base = <<>> /\ n = Len(ss)
    BY <1>1, <1>5
  <2>2. step \in [1..n -> [Words -> Words]]
    BY <1>4, <2>1
  <2>3. PICK f \in [0..n -> Words] : Iterates(f, base, step, n)
    BY <2>2, NumberRecursion
  <2> QED  BY <2>1, <2>3 DEF Iterates
<1>7. \A i \in 1..Len(ss) : step[i][f[i - 1]] = f[i - 1] \o ss[i]
  <2> SUFFICES ASSUME NEW i \in 1..Len(ss) PROVE step[i][f[i - 1]] = f[i - 1] \o ss[i]
    OBVIOUS
  <2>1. f[i - 1] \in Words
    BY <1>1
  <2> QED  BY <1>2, <2>1
<1> QED  BY <1>6, <1>7 DEF IsSum

\* FlattenSeq is its last value.
LEMMA FlattenIs ==
    ASSUME NEW ss \in Texts, NEW f, IsSum(f, ss)
    PROVE  FlattenSeq(ss) = f[Len(ss)]
<1>1. Len(ss) \in Nat /\ \A i \in 1..Len(ss) : ss[i] \in Words
  BY LenProperties, ElementOfSeq DEF Texts
<1>2. CASE Len(ss) = 0
  <2>1. ss = <<>>
    BY <1>2, EmptySeq DEF Texts
  <2> QED  BY <1>2, <2>1 DEF FlattenSeq, IsSum
<1>3. CASE Len(ss) # 0
  <2> DEFINE IsFlat(g) == g = [i \in 1..Len(ss) |-> IF i = 1 THEN ss[i] ELSE g[i - 1] \o ss[i]]
  <2>1. PICK g : g = CHOOSE h : IsFlat(h)
    OBVIOUS
  <2>2. FlattenSeq(ss) = g[Len(ss)]
    BY <1>3, <2>1 DEF FlattenSeq
  <2>3. PICK k : k = [i \in 1..Len(ss) |-> f[i]]
    OBVIOUS
  <2>4. f[1] = ss[1]
    <3>1. 1 \in 1..Len(ss) /\ 1 - 1 = 0
      BY <1>1, <1>3
    <3>2. f[1] = <<>> \o ss[1]
      BY <3>1 DEF IsSum
    <3> QED  BY <1>1, <3>1, <3>2, ConcatEmptySeq DEF Words
  <2>5. IsFlat(k)
    <3>1. ASSUME NEW i \in 1..Len(ss)
          PROVE  f[i] = IF i = 1 THEN ss[i] ELSE k[i - 1] \o ss[i]
      <4>1. CASE i = 1
        BY <2>4, <4>1
      <4>2. CASE i # 1
        <5>1. k[i - 1] = f[i - 1]
          BY <1>1, <2>3, <4>2
        <5> QED  BY <4>2, <5>1 DEF IsSum
      <4> QED  BY <4>1, <4>2
    <3> QED  BY <2>3, <3>1
  <2>6. IsFlat(g)
    BY <2>1, <2>5
  <2> DEFINE T == {n \in Nat : n + 1 \in 1..Len(ss) => g[n + 1] = f[n + 1]}
  <2>7. 0 \in T
    BY <1>1, <1>3, <2>4, <2>6
  <2>8. ASSUME NEW n \in Nat, n \in T
        PROVE  n + 1 \in T
    <3> SUFFICES ASSUME n + 2 \in 1..Len(ss) PROVE g[n + 2] = f[n + 2]
      BY <2>8
    <3>1. n + 1 \in 1..Len(ss) /\ n + 2 # 1 /\ (n + 2) - 1 = n + 1
      BY <1>1, <2>8
    <3>2. g[n + 2] = g[n + 1] \o ss[n + 2]
      BY <2>6, <3>1
    <3>3. f[n + 2] = f[n + 1] \o ss[n + 2]
      BY <3>1 DEF IsSum
    <3> QED  BY <2>8, <3>1, <3>2, <3>3
  <2>9. Nat \subseteq T
    <3> HIDE DEF T
    <3> QED  BY <2>7, <2>8, NumberInduction
  <2>10. Len(ss) - 1 \in T /\ (Len(ss) - 1) + 1 = Len(ss) /\ Len(ss) \in 1..Len(ss)
    BY <1>1, <1>3, <2>9
  <2> QED  BY <2>2, <2>10
<1> QED  BY <1>2, <1>3

\* FlattenSeq of nothing, and of one more at the end.
LEMMA FlattenAppend ==
    ASSUME NEW ss \in Texts, NEW s \in Words
    PROVE  /\ FlattenSeq(<<>>) = <<>>
           /\ FlattenSeq(ss) \in Words
           /\ Append(ss, s) \in Texts
           /\ FlattenSeq(Append(ss, s)) = FlattenSeq(ss) \o s
<1>1. FlattenSeq(<<>>) = <<>>
  BY DEF FlattenSeq
<1>2. PICK q : q = Append(ss, s)
  OBVIOUS
<1>3. /\ q \in Texts /\ Len(ss) \in Nat /\ Len(q) = Len(ss) + 1
      /\ q[Len(ss) + 1] = s /\ \A i \in 1..Len(ss) : q[i] = ss[i]
  BY <1>2, AppendProperties, LenProperties DEF Texts
<1>4. PICK f \in [0..Len(q) -> Words] : IsSum(f, q)
  BY <1>3, SumExists
<1>5. FlattenSeq(q) = f[Len(ss) + 1]
  BY <1>3, <1>4, FlattenIs
<1>6. IsSum(f, ss)
  <2>1. \A i \in 1..Len(ss) : i \in 1..Len(q)
    BY <1>3
  <2> QED  BY <1>3, <1>4, <2>1 DEF IsSum
<1>7. FlattenSeq(ss) = f[Len(ss)] /\ f[Len(ss)] \in Words
  BY <1>3, <1>4, <1>6, FlattenIs
<1>8. f[Len(ss) + 1] = f[Len(ss)] \o s
  <2>1. Len(ss) + 1 \in 1..Len(q) /\ (Len(ss) + 1) - 1 = Len(ss)
    BY <1>3
  <2> QED  BY <1>3, <1>4, <2>1 DEF IsSum
<1> QED  BY <1>1, <1>2, <1>3, <1>5, <1>7, <1>8

\* Sequences that grow at the end.
LEMMA Grown ==
    ASSUME NEW S, NEW u \in Seq(S), NEW v \in Seq(S), NEW e \in S
    PROVE  /\ Append(u, e) = u \o <<e>> /\ <<e>> \in Seq(S) /\ Append(u, e) \in Seq(S)
           /\ u \o Append(v, e) = Append(u \o v, e)
           /\ Append(<<>>, e) = <<e>> /\ <<>> \o u = u /\ u \o <<>> = u
<1>1. Append(u, e) = u \o <<e>> /\ Append(v, e) = v \o <<e>> /\ Append(u, e) \in Seq(S)
  BY AppendIsConcat, AppendProperties
<1>2. <<e>> \in Seq(S)
  OBVIOUS
<1>3. u \o v \in Seq(S)
  BY Joined
<1>4. Append(u \o v, e) = (u \o v) \o <<e>>
  BY <1>3, AppendIsConcat
<1>5. (u \o v) \o <<e>> = u \o (v \o <<e>>)
  BY <1>2, ConcatAssociative
<1>6. Append(<<>>, e) = <<e>>
  OBVIOUS
<1>7. <<>> \o u = u /\ u \o <<>> = u
  BY ConcatEmptySeq
<1> QED  BY <1>1, <1>2, <1>4, <1>5, <1>6, <1>7

\* Two sequences of names one after the other.
LEMMA FlattenJoined ==
    ASSUME NEW ss \in Texts, NEW tt \in Texts
    PROVE  ss \o tt \in Texts /\ FlattenSeq(ss \o tt) = FlattenSeq(ss) \o FlattenSeq(tt)
<1> DEFINE T == {t \in Texts : FlattenSeq(ss \o t) = FlattenSeq(ss) \o FlattenSeq(t)}
<1>1. <<>> \in T
  <2>1. <<>> \in Texts /\ ss \o <<>> = ss
    BY EmptySeq, ConcatEmptySeq DEF Texts
  <2>2. FlattenSeq(<<>>) = <<>> /\ FlattenSeq(ss) \in Words
    BY FlattenAppend, EmptySeq DEF Words
  <2>3. FlattenSeq(ss) \o <<>> = FlattenSeq(ss)
    BY <2>2, ConcatEmptySeq DEF Words
  <2> QED  BY <2>1, <2>2, <2>3
<1>2. ASSUME NEW t \in Seq(Words), NEW x \in Words, t \in T
      PROVE  Append(t, x) \in T
  <2>1. ss \o Append(t, x) = Append(ss \o t, x) /\ ss \o t \in Texts
    BY Grown, Joined DEF Texts
  <2>2. PICK a, b, c : a = FlattenSeq(ss) /\ b = FlattenSeq(t) /\ c = FlattenSeq(ss \o t)
    OBVIOUS
  <2>3. a \in Words /\ b \in Words /\ FlattenSeq(Append(t, x)) = b \o x /\ Append(t, x) \in Texts
    BY <2>2, FlattenAppend DEF Texts
  <2>4. FlattenSeq(Append(ss \o t, x)) = c \o x
    BY <2>1, <2>2, FlattenAppend
  <2>5. (a \o b) \o x = a \o (b \o x)
    BY SMTT(60), <2>3, ConcatAssociative DEF Words
  <2> QED  BY <1>2, <2>1, <2>2, <2>3, <2>4, <2>5
<1>3. Texts \subseteq T
  <2> HIDE DEF T
  <2> QED  BY <1>1, <1>2, SequenceInduction DEF Texts
<1> QED  BY <1>3, Joined DEF Texts

\* One name.
LEMMA FlattenOne ==
    ASSUME NEW s \in Words
    PROVE  <<s>> \in Texts /\ FlattenSeq(<<s>>) = s
<1>1. <<>> \in Texts /\ Append(<<>>, s) = <<s>> /\ <<s>> \in Texts
  BY EmptySeq DEF Texts
<1>2. FlattenSeq(Append(<<>>, s)) = FlattenSeq(<<>>) \o s /\ FlattenSeq(<<>>) = <<>>
  BY <1>1, FlattenAppend
<1>3. <<>> \o s = s
  BY ConcatEmptySeq DEF Words
<1> QED  BY <1>1, <1>2, <1>3

\* Flattening brings in no tokens.
LEMMA FlattenIn ==
    ASSUME NEW C \in SUBSET Tokens, NEW ss \in Seq(Seq(C))
    PROVE  FlattenSeq(ss) \in Seq(C) /\ ss \in Texts
<1>1. Seq(C) \subseteq Words
  BY SeqMonotonic DEF Words
<1>2. Seq(Seq(C)) \subseteq Texts
  BY <1>1, SeqMonotonic DEF Texts
<1> DEFINE T == {t \in Texts : FlattenSeq(t) \in Seq(C)}
<1>3. <<>> \in T
  <2>1. FlattenSeq(<<>>) = <<>>
    BY DEF FlattenSeq
  <2> QED  BY <2>1, EmptySeq DEF Texts
<1>4. ASSUME NEW t \in Seq(Seq(C)), NEW x \in Seq(C), t \in T
      PROVE  Append(t, x) \in T
  <2>1. x \in Words /\ t \in Texts
    BY <1>1, <1>4
  <2>2. FlattenSeq(Append(t, x)) = FlattenSeq(t) \o x /\ Append(t, x) \in Texts
    BY <2>1, FlattenAppend
  <2>3. FlattenSeq(t) \o x \in Seq(C)
    BY <1>4, Joined
  <2> QED  BY <2>2, <2>3
<1>5. Seq(Seq(C)) \subseteq T
  <2> HIDE DEF T
  <2> QED  BY <1>3, <1>4, SequenceInduction
<1> QED  BY <1>2, <1>5

-----------------------------------------------------------------------------
(* Splitting *)

\* What SplitAtHyphens builds, and its step.
Args == Texts \ { <<>> }
Taken(args, c) == IF c = Hyphen THEN Append(args, <<>>)
                  ELSE [args EXCEPT ![Len(args)] = Append(@, c)]

\* One more character keeps at least one argument.
LEMMA TakenIs ==
    ASSUME NEW args \in Args, NEW c \in Tokens
    PROVE  Taken(args, c) \in Args
<1>1. args \in Seq(Words) /\ args # <<>> /\ Len(args) \in Nat \ {0}
  BY LenProperties, EmptySeq DEF Args, Texts
<1>2. <<>> \in Words
  BY EmptySeq DEF Words
<1>3. CASE c = Hyphen
  <2>1. PICK q : q = Append(args, <<>>)
    OBVIOUS
  <2>2. q \in Seq(Words) /\ Len(q) = Len(args) + 1
    BY <1>1, <1>2, <2>1, AppendProperties
  <2>3. q # <<>>
    BY <1>1, <2>2, EmptySeq
  <2> QED  BY <1>3, <2>1, <2>2, <2>3 DEF Taken, Args, Texts
<1>4. CASE c # Hyphen
  <2>1. args[Len(args)] \in Words
    BY <1>1, ElementOfSeq
  <2>2. PICK x : x = Append(args[Len(args)], c)
    OBVIOUS
  <2>3. x \in Words
    BY <2>1, <2>2, AppendProperties DEF Words
  <2>4. PICK q : q = [args EXCEPT ![Len(args)] = x]
    OBVIOUS
  <2>5. q \in Seq(Words) /\ Len(q) = Len(args)
    BY <1>1, <2>3, <2>4, ExceptSeq
  <2>6. q # <<>>
    BY <1>1, <2>5, EmptySeq
  <2>7. Taken(args, c) = q
    BY <1>4, <2>2, <2>4 DEF Taken
  <2> QED  BY <2>5, <2>6, <2>7 DEF Args, Texts
<1> QED  BY <1>3, <1>4

\* f is the recursion of SplitAtHyphens on s.
IsSplit(f, s) == f[0] = << <<>> >> /\ \A i \in 1..Len(s) : f[i] = Taken(f[i - 1], s[i])

\* The loop of args_from_prefix runs through.
LEMMA SplitExists ==
    ASSUME NEW s \in Words
    PROVE  \E f \in [0..Len(s) -> Args] : IsSplit(f, s)
<1>1. Len(s) \in Nat /\ \A i \in 1..Len(s) : s[i] \in Tokens
  BY LenProperties, ElementOfSeq DEF Words
<1>2. PICK step : step = [i \in 1..Len(s) |-> [a \in Args |-> Taken(a, s[i])]]
  OBVIOUS
<1>3. step \in [1..Len(s) -> [Args -> Args]]
  BY <1>1, <1>2, TakenIs
<1>4. << <<>> >> \in Args
  <2>1. <<>> \in Words
    BY EmptySeq DEF Words
  <2> QED  BY <2>1 DEF Args, Texts
<1>5. PICK base \in Args, n \in Nat : base = << <<>> >> /\ n = Len(s)
  BY <1>1, <1>4
<1>6. step \in [1..n -> [Args -> Args]]
  BY <1>3, <1>5
<1>7. PICK f \in [0..n -> Args] : Iterates(f, base, step, n)
  BY <1>6, NumberRecursion
<1>8. \A i \in 1..n : f[i] = Taken(f[i - 1], s[i])
  <2> SUFFICES ASSUME NEW i \in 1..n PROVE f[i] = Taken(f[i - 1], s[i])
    OBVIOUS
  <2>1. f[i - 1] \in Args
    OBVIOUS
  <2>2. f[i] = step[i][f[i - 1]]
    BY <1>7 DEF Iterates
  <2> QED  BY <1>2, <1>5, <2>1, <2>2
<1> QED  BY <1>5, <1>7, <1>8 DEF IsSplit, Iterates

\* SplitAtHyphens is its last value.
LEMMA SplitIs ==
    ASSUME NEW s \in Words, NEW f, IsSplit(f, s)
    PROVE  SplitAtHyphens(s) = f[Len(s)]
<1>1. Len(s) \in Nat
  BY LenProperties DEF Words
<1> DEFINE IsLoop(g) == g = [i \in 0..Len(s) |-> IF i = 0 THEN << <<>> >>
                                                 ELSE Taken(g[i - 1], s[i])]
<1>2. PICK g : g = CHOOSE h : IsLoop(h)
  OBVIOUS
<1>3. SplitAtHyphens(s) = g[Len(s)]
  BY <1>2 DEF SplitAtHyphens, Taken
<1>4. PICK k : k = [i \in 0..Len(s) |-> f[i]]
  OBVIOUS
<1>5. IsLoop(k)
  <2>1. ASSUME NEW i \in 0..Len(s)
        PROVE  f[i] = IF i = 0 THEN << <<>> >> ELSE Taken(k[i - 1], s[i])
    <3>1. CASE i = 0
      BY <3>1 DEF IsSplit
    <3>2. CASE i # 0
      <4>1. k[i - 1] = f[i - 1] /\ i \in 1..Len(s)
        BY <1>1, <1>4, <3>2
      <4> QED  BY <3>2, <4>1 DEF IsSplit
    <3> QED  BY <3>1, <3>2
  <2> QED  BY <1>4, <2>1
<1>6. IsLoop(g)
  BY <1>2, <1>5
<1> DEFINE T == {n \in Nat : n \in 0..Len(s) => g[n] = f[n]}
<1>7. 0 \in T
  BY <1>1, <1>6 DEF IsSplit
<1>8. ASSUME NEW n \in Nat, n \in T
      PROVE  n + 1 \in T
  <2> SUFFICES ASSUME n + 1 \in 0..Len(s) PROVE g[n + 1] = f[n + 1]
    OBVIOUS
  <2>1. n \in 0..Len(s) /\ n + 1 # 0 /\ (n + 1) - 1 = n /\ n + 1 \in 1..Len(s)
    BY <1>1
  <2>2. g[n + 1] = Taken(g[n], s[n + 1])
    BY <1>6, <2>1
  <2>3. f[n + 1] = Taken(f[n], s[n + 1])
    BY <2>1 DEF IsSplit
  <2> QED  BY <1>8, <2>1, <2>2, <2>3
<1>9. Nat \subseteq T
  <2> HIDE DEF T
  <2> QED  BY <1>7, <1>8, NumberInduction
<1>10. Len(s) \in T /\ Len(s) \in 0..Len(s)
  BY <1>1, <1>9
<1> QED  BY <1>3, <1>10

\* SplitAtHyphens, one character after the other.
LEMMA SplitAppend ==
    ASSUME NEW s \in Words, NEW c \in Tokens
    PROVE  /\ SplitAtHyphens(<<>>) = << <<>> >>
           /\ SplitAtHyphens(s) \in Args
           /\ SplitAtHyphens(Append(s, c)) = Taken(SplitAtHyphens(s), c)
<1>1. SplitAtHyphens(<<>>) = << <<>> >>
  <2>1. <<>> \in Words /\ Len(<<>>) = 0
    BY EmptySeq DEF Words
  <2>2. PICK f : IsSplit(f, <<>>)
    BY <2>1, SplitExists
  <2> QED  BY <2>1, <2>2, SplitIs DEF IsSplit
<1>2. PICK q : q = Append(s, c)
  OBVIOUS
<1>3. /\ q \in Words /\ Len(s) \in Nat /\ Len(q) = Len(s) + 1
      /\ q[Len(s) + 1] = c /\ \A i \in 1..Len(s) : q[i] = s[i]
  BY <1>2, AppendProperties, LenProperties DEF Words
<1>4. PICK f \in [0..Len(q) -> Args] : IsSplit(f, q)
  BY <1>3, SplitExists
<1>5. IsSplit(f, s)
  <2>1. \A i \in 1..Len(s) : i \in 1..Len(q)
    BY <1>3
  <2> QED  BY <1>3, <1>4, <2>1 DEF IsSplit
<1>6. SplitAtHyphens(q) = f[Len(q)] /\ SplitAtHyphens(s) = f[Len(s)] /\ f[Len(s)] \in Args
  BY <1>3, <1>4, <1>5, SplitIs
<1>7. f[Len(s) + 1] = Taken(f[Len(s)], c)
  <2>1. Len(s) + 1 \in 1..Len(q) /\ (Len(s) + 1) - 1 = Len(s)
    BY <1>3
  <2> QED  BY <1>3, <1>4, <2>1 DEF IsSplit
<1> QED  BY <1>1, <1>2, <1>3, <1>6, <1>7

\* An argument without a hyphen stays in one piece.
LEMMA SplitArg ==
    ASSUME NEW s \in Words, NEW a \in Seq(Tokens \ {Hyphen}), NEW t \in Texts,
           SplitAtHyphens(s) = Append(t, <<>>)
    PROVE  SplitAtHyphens(s \o a) = Append(t, a)
<1> DEFINE T == {x \in Seq(Tokens \ {Hyphen}) : SplitAtHyphens(s \o x) = Append(t, x)}
<1>0. Seq(Tokens \ {Hyphen}) \subseteq Words
  BY SeqMonotonic DEF Words
<1>1. <<>> \in T
  BY EmptySeq, ConcatEmptySeq DEF Words
<1>2. ASSUME NEW x \in Seq(Tokens \ {Hyphen}), NEW c \in Tokens \ {Hyphen}, x \in T
      PROVE  Append(x, c) \in T
  <2>1. x \in Words /\ c \in Tokens /\ c # Hyphen /\ Append(x, c) \in Seq(Tokens \ {Hyphen})
    BY <1>0, AppendProperties
  <2>2. s \o Append(x, c) = Append(s \o x, c) /\ s \o x \in Words /\ Append(x, c) \in Words
    BY <1>0, <2>1, Grown, Joined DEF Words
  <2>3. SplitAtHyphens(Append(s \o x, c)) = Taken(Append(t, x), c)
    BY <1>2, <2>1, <2>2, SplitAppend
  <2>4. PICK q, y : q = Append(t, x) /\ y = Append(x, c)
    OBVIOUS
  <2>5. Len(t) \in Nat /\ q \in Seq(Words) /\ Len(q) = Len(t) + 1 /\ q[Len(t) + 1] = x
        /\ \A i \in 1..Len(t) : q[i] = t[i]
    BY <2>1, <2>4, AppendProperties, LenProperties DEF Texts
  <2>6. PICK z : z = [q EXCEPT ![Len(q)] = y]
    OBVIOUS
  <2>7. z \in Seq(Words) /\ Len(z) = Len(q) /\ \A i \in 1..Len(q) : z[i] = IF i = Len(q) THEN y ELSE q[i]
    <3>1. PICK k \in 1..Len(q) : k = Len(q)
      BY <2>5
    <3>2. y \in Words
      BY <2>2, <2>4
    <3>3. z = [q EXCEPT ![k] = y]
      BY <2>6, <3>1
    <3>4. z \in Seq(Words) /\ Len(z) = Len(q) /\ \A i \in 1..Len(q) : z[i] = IF i = k THEN y ELSE q[i]
      BY <2>5, <3>1, <3>2, <3>3, ExceptSeq
    <3> QED  BY <3>1, <3>4
  <2>8. PICK r : r = Append(t, y)
    OBVIOUS
  <2>9. r \in Seq(Words) /\ Len(r) = Len(t) + 1 /\ r[Len(t) + 1] = y
        /\ \A i \in 1..Len(t) : r[i] = t[i]
    BY <2>2, <2>4, <2>8, AppendProperties DEF Texts
  <2>10. \A i \in 1..Len(z) : z[i] = r[i]
    <3> SUFFICES ASSUME NEW i \in 1..Len(z) PROVE z[i] = r[i]
      OBVIOUS
    <3>1. CASE i = Len(q)
      BY <2>5, <2>7, <2>9, <3>1
    <3>2. CASE i # Len(q)
      <4>1. i \in 1..Len(t) /\ i \in 1..Len(q)
        BY <2>5, <2>7, <3>2
      <4> QED  BY <2>5, <2>7, <2>9, <3>2, <4>1
    <3> QED  BY <3>1, <3>2
  <2>11. Len(z) = Len(r)
    BY <2>5, <2>7, <2>9
  <2>12. z = r
    BY <2>7, <2>9, <2>10, <2>11, SeqEqual
  <2>13. Taken(q, c) = z
    BY <2>1, <2>4, <2>5, <2>6 DEF Taken
  <2> QED  BY <2>1, <2>2, <2>3, <2>4, <2>8, <2>12, <2>13
<1>3. Seq(Tokens \ {Hyphen}) \subseteq T
  <2> HIDE DEF T
  <2> QED  BY <1>1, <1>2, SequenceInduction
<1> QED  BY <1>3

-----------------------------------------------------------------------------
(* Counting *)

\* Counting in a sequence that grows at its end.
LEMMA CountAppend ==
    ASSUME NEW s \in Words, NEW e \in Tokens, NEW c
    PROVE  /\ CountOf(<<>>, c) = 0 /\ CountOf(s, c) \in Nat
           /\ CountOf(Append(s, e), c) = CountOf(s, c) + (IF e = c THEN 1 ELSE 0)
<1>1. PICK n \in Nat : n = Len(s)
  BY LenProperties DEF Words
<1>1a. PICK q : q = Append(s, e)
  OBVIOUS
<1>2. Len(q) = n + 1 /\ q[n + 1] = e /\ DOMAIN s = 1..n /\ DOMAIN q = 1..(n + 1)
      /\ \A i \in 1..n : q[i] = s[i]
  BY <1>1, <1>1a, AppendProperties, LenProperties DEF Words
<1>3. PICK I : I = {i \in 1..n : s[i] = c}
  OBVIOUS
<1>4. PICK J : J = {i \in 1..(n + 1) : q[i] = c}
  OBVIOUS
<1>5. IsFiniteSet(1..n) /\ I \subseteq 1..n
  BY <1>3, FS_Interval
<1>6. IsFiniteSet(I) /\ Cardinality(I) \in Nat
  BY <1>5, FS_Subset, FS_CardinalityType
<1>7. J = IF e = c THEN I \cup {n + 1} ELSE I
  BY <1>1, <1>1a, <1>2, <1>3, <1>4
<1>8. n + 1 \notin I
  BY <1>1, <1>1a, <1>3
<1>9. Cardinality(J) = Cardinality(I) + (IF e = c THEN 1 ELSE 0)
  <2>1. Cardinality(I \cup {n + 1}) = Cardinality(I) + 1
    BY <1>6, <1>8, FS_AddElement
  <2> QED  BY <1>6, <1>7, <2>1
<1>10. CountOf(s, c) = Cardinality(I) /\ CountOf(q, c) = Cardinality(J)
  BY <1>2, <1>3, <1>4 DEF CountOf
<1>11. CountOf(<<>>, c) = 0
  <2>1. {i \in DOMAIN <<>> : <<>>[i] = c} = {}
    OBVIOUS
  <2> QED  BY <2>1, FS_EmptySet DEF CountOf
<1> QED  BY <1>1, <1>1a, <1>6, <1>9, <1>10, <1>11

\* Counting in two sequences.
LEMMA CountJoined ==
    ASSUME NEW s \in Words, NEW t \in Words, NEW c
    PROVE  /\ CountOf(s, c) \in Nat /\ CountOf(t, c) \in Nat
           /\ CountOf(s \o t, c) = CountOf(s, c) + CountOf(t, c)
<1> DEFINE T == {x \in Words : CountOf(s \o x, c) = CountOf(s, c) + CountOf(x, c)}
<1>1. <<>> \in T
  <2>1. <<>> \in Words /\ s \o <<>> = s
    BY EmptySeq, ConcatEmptySeq DEF Words
  <2>2. CountOf(<<>>, c) = 0 /\ CountOf(s, c) \in Nat
    BY CountAppend, TokensAssumption
  <2> QED  BY <2>1, <2>2
<1>2. ASSUME NEW x \in Seq(Tokens), NEW e \in Tokens, x \in T
      PROVE  Append(x, e) \in T
  <2>1. s \o Append(x, e) = Append(s \o x, e) /\ s \o x \in Words /\ Append(x, e) \in Words
    BY Grown, Joined DEF Words
  <2>2. x \in Words /\ CountOf(s, c) \in Nat /\ CountOf(x, c) \in Nat
    BY <1>2, CountAppend
  <2>3. CountOf(Append(x, e), c) = CountOf(x, c) + (IF e = c THEN 1 ELSE 0)
    BY <2>2, CountAppend
  <2>4. CountOf(Append(s \o x, e), c) = CountOf(s \o x, c) + (IF e = c THEN 1 ELSE 0)
    BY <2>1, CountAppend
  <2>5. PICK k \in Nat : k = IF e = c THEN 1 ELSE 0
    OBVIOUS
  <2>6. CountOf(s \o x, c) = CountOf(s, c) + CountOf(x, c)
    BY <1>2
  <2>7. CountOf(s \o Append(x, e), c) = CountOf(s, c) + CountOf(Append(x, e), c)
    BY <2>1, <2>2, <2>3, <2>4, <2>5, <2>6
  <2> QED  BY <2>1, <2>7
<1>3. Words \subseteq T
  <2> HIDE DEF T
  <2> QED  BY <1>1, <1>2, SequenceInduction DEF Words
<1> QED  BY <1>3, CountAppend, TokensAssumption

\* Counting a token that does not come.
LEMMA CountNone ==
    ASSUME NEW c, NEW s \in Seq(Tokens \ {c})
    PROVE  CountOf(s, c) = 0
<1>1. \A i \in DOMAIN s : s[i] \in Tokens \ {c}
  BY LenProperties, ElementOfSeq
<1>2. {i \in DOMAIN s : s[i] = c} = {}
  BY <1>1
<1> QED  BY <1>2, FS_EmptySet DEF CountOf

\* Counting in one token.
LEMMA CountOne ==
    ASSUME NEW e \in Tokens, NEW c
    PROVE  CountOf(<<e>>, c) = IF e = c THEN 1 ELSE 0
<1>1. Append(<<>>, e) = <<e>> /\ <<>> \in Words
  BY EmptySeq DEF Words
<1>2. CountOf(Append(<<>>, e), c) = CountOf(<<>>, c) + (IF e = c THEN 1 ELSE 0)
      /\ CountOf(<<>>, c) = 0
  BY ZenonT(60), <1>1, CountAppend
<1> QED  BY <1>1, <1>2

-----------------------------------------------------------------------------
(* Prefixes *)

\* The tokens of an argument.
ArgTokens == Tokens \ ({Hash, Hyphen, Slash} \cup Modules)
\* The tokens between the module word and the '#' of a prefix.
InnerTokens == Tokens \ ({Hash, Slash} \cup Modules)

\* The part of a prefix between the module word and the last "#", as
\* apply_prefix writes it.
Hyphenated(args) == [i \in DOMAIN args |-> <<Hyphen>> \o args[i]]
Middle(args) == FlattenSeq(Hyphenated(args))

\* The marks of a prefix are told apart from each other and from module words.
LEMMA Distinct ==
    /\ Hash # Hyphen /\ Hash # Slash /\ Hyphen # Slash
    /\ Hash \in Tokens /\ Hyphen \in Tokens /\ Slash \in Tokens
    /\ Hash \notin Modules /\ Hyphen \notin Modules /\ Slash \notin Modules
    /\ Modules \subseteq Tokens
    /\ Hyphen \in InnerTokens /\ Hyphen \notin ArgTokens /\ ArgTokens \subseteq InnerTokens
    /\ InnerTokens \subseteq Tokens
<1>1. Hash # Hyphen /\ Hash # Slash /\ Hyphen # Slash
  BY DEF Hash, Hyphen, Slash
<1> HIDE DEF Hash, Hyphen, Slash
<1> QED  BY <1>1, TokensAssumption, ModulesAssumption DEF ArgTokens, InnerTokens

\* The arguments the decorators give.
LEMMA ArgsAre ==
    ASSUME NEW args \in ArgLists
    PROVE  /\ args \in Seq(Seq(ArgTokens)) /\ args # <<>>
           /\ \A i \in DOMAIN args : args[i] # <<>>
<1>1. GoodArgs(args)
  BY ArgListsAssumption
<1>2. args \in Seq(Words) /\ args # <<>> /\ \A i \in DOMAIN args : args[i] # <<>>
  BY <1>1 DEF GoodArgs
<1>3. DOMAIN args = 1..Len(args) /\ Len(args) \in Nat /\ args \in [1..Len(args) -> Words]
  BY <1>2, LenProperties
<1>4. ASSUME NEW i \in 1..Len(args)
      PROVE  args[i] \in Seq(ArgTokens)
  <2>1. PICK a : a = args[i]
    OBVIOUS
  <2>2. a \in Seq(Tokens)
    BY <1>3, <2>1 DEF Words
  <2>3. /\ ~Contains(a, Hyphen) /\ ~Contains(a, Hash) /\ ~Contains(a, Slash)
        /\ \A m \in Modules : ~Contains(a, m)
    BY <1>1, <1>3, <2>1 DEF GoodArgs, ArgsAllowed
  <2>4. \A j \in 1..Len(a) : a[j] \in Tokens
    BY <2>2, ElementOfSeq
  <2>5. \A j \in 1..Len(a) : a[j] \in ArgTokens
    BY <2>3, <2>4 DEF ArgTokens, Contains
  <2>6. a \in Seq(ArgTokens)
    BY <2>2, <2>5, LenProperties, IsASeq
  <2> QED  BY <2>1, <2>6
<1>5. args \in Seq(Seq(ArgTokens))
  BY <1>2, <1>3, <1>4, IsASeq
<1> QED  BY <1>2, <1>5

\* Between module word and '#': a hyphen, and what is split into the arguments.
LEMMA MiddleIs ==
    ASSUME NEW args \in Seq(Seq(ArgTokens))
    PROVE  /\ Middle(args) \in Seq(InnerTokens)
           /\ \/ args = <<>>
              \/ \E w \in Seq(InnerTokens) : /\ Middle(args) = <<Hyphen>> \o w
                                             /\ SplitAtHyphens(w) = args
<1> DEFINE Begins(a, w) == Middle(a) = <<Hyphen>> \o w /\ SplitAtHyphens(w) = a
           T == {a \in Seq(Seq(ArgTokens)) :
                   /\ Hyphenated(a) \in Texts
                   /\ Middle(a) \in Seq(InnerTokens)
                   /\ a = <<>> \/ \E w \in Seq(InnerTokens) : Begins(a, w)}
<1>0. /\ Seq(InnerTokens) \subseteq Words /\ Seq(ArgTokens) \subseteq Seq(InnerTokens)
      /\ Seq(ArgTokens) \subseteq Seq(Tokens \ {Hyphen})
      /\ Seq(Seq(ArgTokens)) \subseteq Texts
  <2>1. /\ Seq(InnerTokens) \subseteq Words /\ Seq(ArgTokens) \subseteq Seq(InnerTokens)
        /\ Seq(ArgTokens) \subseteq Seq(Tokens \ {Hyphen})
    BY Distinct, SeqMonotonic DEF Words, ArgTokens, InnerTokens
  <2>2. Seq(ArgTokens) \subseteq Words
    BY <2>1
  <2> QED  BY <2>1, <2>2, SeqMonotonic DEF Texts
<1>1. <<>> \in T
  <2>1. Hyphenated(<<>>) = <<>>
    BY DEF Hyphenated
  <2>2. Middle(<<>>) = <<>>
    BY <2>1 DEF Middle, FlattenSeq
  <2> QED  BY <2>1, <2>2, EmptySeq DEF Texts
<1>2. ASSUME NEW a \in Seq(Seq(ArgTokens)), NEW x \in Seq(ArgTokens), a \in T
      PROVE  Append(a, x) \in T
  <2>1. PICK h, y : h = Hyphenated(a) /\ y = <<Hyphen>> \o x
    OBVIOUS
  <2>2. x \in Seq(InnerTokens) /\ <<Hyphen>> \in Seq(InnerTokens)
    BY <1>0, Distinct
  <2>3. y \in Seq(InnerTokens)
    BY <2>1, <2>2, Joined
  <2>4. h \in Texts /\ y \in Words
    BY <1>0, <1>2, <2>1, <2>3
  <2>5. Append(a, x) \in Seq(Seq(ArgTokens))
    BY AppendProperties
  <2>6. Hyphenated(Append(a, x)) = Append(h, y)
    <3>1. PICK n \in Nat : n = Len(a)
      BY LenProperties
    <3>1a. PICK q : q = Append(a, x)
      OBVIOUS
    <3>2. DOMAIN a = 1..n /\ DOMAIN q = 1..(n + 1) /\ q[n + 1] = x /\ \A i \in 1..n : q[i] = a[i]
      BY <3>1, <3>1a, <2>5, AppendProperties, LenProperties
    <3>3. DOMAIN h = 1..n /\ Len(h) = n
      BY <2>1, <2>4, <3>2, LenProperties DEF Hyphenated, Texts
    <3>4. PICK g, k : g = Hyphenated(q) /\ k = Append(h, y)
      OBVIOUS
    <3>5. g = [i \in 1..(n + 1) |-> <<Hyphen>> \o q[i]]
      BY <3>2, <3>4 DEF Hyphenated
    <3>6. /\ k \in Seq(Words) /\ Len(k) = n + 1 /\ k[n + 1] = y
          /\ \A i \in 1..n : k[i] = h[i]
      BY <2>4, <3>3, <3>4, AppendProperties DEF Texts
    <3>7. k \in [1..(n + 1) -> Words]
      BY <3>6, LenProperties
    <3>8. \A i \in 1..(n + 1) : k[i] = g[i]
      <4>1. \A i \in 1..n : h[i] = <<Hyphen>> \o q[i]
        BY <2>1, <3>2 DEF Hyphenated
      <4>2. k[n + 1] = <<Hyphen>> \o q[n + 1]
        BY <2>1, <3>2, <3>6
      <4>3. ASSUME NEW i \in 1..(n + 1) PROVE k[i] = g[i]
        <5>1. CASE i = n + 1
          <6>1. g[i] = <<Hyphen>> \o q[i]
            BY <3>5
          <6>2. k[i] = <<Hyphen>> \o q[i]
            BY <4>2, <5>1
          <6> QED  BY <6>1, <6>2
        <5>2. CASE i # n + 1
          <6>1. i \in 1..n
            BY <3>1, <3>1a, <5>2
          <6>2. k[i] = h[i] /\ h[i] = <<Hyphen>> \o q[i]
            BY <3>6, <4>1, <6>1
          <6>3. g[i] = <<Hyphen>> \o q[i]
            BY <3>5
          <6> QED  BY <6>2, <6>3
        <5> QED  BY <5>1, <5>2
      <4> QED  BY <4>3
    <3>9. k = g
      BY <3>5, <3>7, <3>8
    <3> QED  BY <3>1, <3>1a, <3>4, <3>9
  <2>7. Append(h, y) \in Texts /\ Middle(Append(a, x)) = Middle(a) \o y
    BY <2>1, <2>4, <2>6, FlattenAppend DEF Middle
  <2>8. Middle(a) \o y \in Seq(InnerTokens)
    BY <1>2, <2>3, Joined
  <2>9. \E w \in Seq(InnerTokens) : Begins(Append(a, x), w)
    <3>1. CASE a = <<>>
      <4>1. Middle(a) = <<>>
        <5>1. Hyphenated(<<>>) = <<>>
          BY DEF Hyphenated
        <5> QED  BY <3>1, <5>1 DEF Middle, FlattenSeq
      <4>2. Middle(a) \o y = y
        BY <2>3, <4>1, ConcatEmptySeq
      <4>3. <<>> \in Words /\ <<>> \in Texts /\ x \in Seq(Tokens \ {Hyphen}) /\ x \in Words
        BY <1>0, EmptySeq DEF Words, Texts
      <4>4. SplitAtHyphens(<<>>) = Append(<<>>, <<>>)
        BY <4>3, Distinct, SplitAppend
      <4>5. SplitAtHyphens(<<>> \o x) = Append(<<>>, x)
        BY <4>3, <4>4, SplitArg
      <4>6. <<>> \o x = x
        BY <4>3, ConcatEmptySeq DEF Words
      <4> QED  BY <2>1, <2>2, <2>7, <3>1, <4>2, <4>5, <4>6
    <3>2. CASE a # <<>>
      <4>1. PICK w \in Seq(InnerTokens) : Begins(a, w)
        BY <1>2, <3>2
      <4>2. PICK v : v = Append(w, Hyphen)
        OBVIOUS
      <4>3. v \in Seq(InnerTokens) /\ w \in Words /\ v \in Words
        BY <1>0, <4>2, Distinct, AppendProperties
      <4>4. a \in Texts /\ x \in Seq(Tokens \ {Hyphen})
        BY <1>0
      <4>5. SplitAtHyphens(v) = Append(a, <<>>)
        BY <4>1, <4>2, <4>3, Distinct, SplitAppend DEF Taken
      <4>6. SplitAtHyphens(v \o x) = Append(a, x)
        BY <4>3, <4>4, <4>5, SplitArg
      <4>7. v \o x \in Seq(InnerTokens)
        BY <2>2, <4>3, Joined
      <4>8. Middle(a) \o y = <<Hyphen>> \o (v \o x)
        <5>1. PICK e : e = <<Hyphen>>
          OBVIOUS
        <5>2. e \in Seq(InnerTokens)
          BY <2>2, <5>1
        <5>3. v = w \o e
          BY <4>2, <5>1, Distinct, Grown
        <5>6. w \in Seq(InnerTokens) /\ x \in Seq(InnerTokens)
          BY <2>2
        <5>7. e \o x \in Seq(InnerTokens)
          BY <5>2, <5>6, Joined
        <5>4. (e \o w) \o (e \o x) = e \o (w \o (e \o x))
          BY SMTT(60), <5>2, <5>6, <5>7, ConcatAssociative
        <5>5. (w \o e) \o x = w \o (e \o x)
          BY SMTT(60), <5>2, <5>6, ConcatAssociative
        <5> QED  BY <2>1, <4>1, <5>1, <5>3, <5>4, <5>5
      <4> QED  BY <2>7, <4>6, <4>7, <4>8
    <3> QED  BY <3>1, <3>2
  <2> QED  BY <2>5, <2>6, <2>7, <2>8, <2>9
<1>3. Seq(Seq(ArgTokens)) \subseteq T
  <2> HIDE DEF T
  <2> QED  BY <1>1, <1>2, SequenceInduction
<1> QED  BY <1>3

-----------------------------------------------------------------------------
(* A function applied to every element of a sequence *)

\* A function on S, and its value at each element of a sequence.
Maps(f, S, V) == f \in [S -> V]
Each(f, s) == [i \in DOMAIN s |-> f[s[i]]]

\* Two sequences one after the other.
LEMMA EachJoined ==
    ASSUME NEW S, NEW V, NEW f, Maps(f, S, V), NEW u \in Seq(S), NEW v \in Seq(S)
    PROVE  /\ Each(f, u) \in Seq(V) /\ Each(f, v) \in Seq(V) /\ Each(f, <<>>) = <<>>
           /\ u \o v \in Seq(S) /\ Each(f, u \o v) = Each(f, u) \o Each(f, v)
<1>1. ASSUME NEW s \in Seq(S)
      PROVE  Each(f, s) \in Seq(V) /\ Len(s) \in Nat /\ Len(Each(f, s)) = Len(s)
             /\ \A i \in 1..Len(s) : Each(f, s)[i] = f[s[i]]
  <2>1. PICK n \in Nat : n = Len(s)
    BY LenProperties
  <2>2. DOMAIN s = 1..n /\ \A i \in 1..n : s[i] \in S
    BY <2>1, LenProperties, ElementOfSeq
  <2>3. PICK e : e = Each(f, s)
    OBVIOUS
  <2>4. e = [i \in 1..n |-> f[s[i]]]
    BY <2>2, <2>3 DEF Each
  <2>5. e \in [1..n -> V]
    BY <2>2, <2>4 DEF Maps
  <2>6. e \in Seq(V)
    BY <2>5, SeqDef
  <2>7. Len(e) = n
    <3>1. DOMAIN e = 1..Len(e) /\ Len(e) \in Nat
      BY <2>6, LenProperties
    <3> QED  BY <2>4, <3>1
  <2> QED  BY <2>1, <2>3, <2>4, <2>6, <2>7
<1>2. Each(f, <<>>) = <<>>
  BY DEF Each
<1>3. PICK w : w = u \o v
  OBVIOUS
<1>4. /\ w \in Seq(S) /\ Len(u) \in Nat /\ Len(v) \in Nat /\ Len(w) = Len(u) + Len(v)
      /\ \A i \in 1..Len(u) : w[i] = u[i]
      /\ \A i \in 1..Len(v) : w[Len(u) + i] = v[i]
  BY <1>3, Joined
<1>5. PICK a, b, c : a = Each(f, u) /\ b = Each(f, v) /\ c = Each(f, w)
  OBVIOUS
<1>6. a \in Seq(V) /\ b \in Seq(V) /\ c \in Seq(V)
  BY <1>1, <1>4, <1>5
<1>7. /\ Len(a) = Len(u) /\ \A i \in 1..Len(u) : a[i] = f[u[i]]
      /\ Len(b) = Len(v) /\ \A i \in 1..Len(v) : b[i] = f[v[i]]
      /\ Len(c) = Len(w) /\ \A i \in 1..Len(w) : c[i] = f[w[i]]
  BY <1>1, <1>4, <1>5
<1>8. PICK d : d = a \o b
  OBVIOUS
<1>9. /\ d \in Seq(V) /\ Len(d) = Len(a) + Len(b)
      /\ \A i \in 1..Len(a) : d[i] = a[i]
      /\ \A i \in 1..Len(b) : d[Len(a) + i] = b[i]
  BY <1>6, <1>8, Joined
<1>10. \A i \in 1..Len(c) : c[i] = d[i]
  <2> SUFFICES ASSUME NEW i \in 1..Len(c) PROVE c[i] = d[i]
    OBVIOUS
  <2>1. CASE i \in 1..Len(u)
    <3>1. i \in 1..Len(w) /\ i \in 1..Len(a)
      BY <1>4, <1>7, <2>1
    <3>2. c[i] = f[w[i]] /\ w[i] = u[i] /\ d[i] = a[i] /\ a[i] = f[u[i]]
      BY <1>4, <1>7, <1>9, <2>1, <3>1
    <3> QED  BY <3>2
  <2>2. CASE i \notin 1..Len(u)
    <3>1. PICK j : j = i - Len(u)
      OBVIOUS
    <3>2. j \in 1..Len(v) /\ i = Len(u) + j /\ i \in 1..Len(w) /\ Len(a) = Len(u) /\ j \in 1..Len(b)
      BY <1>4, <1>7, <2>2, <3>1
    <3>3. c[i] = f[w[i]] /\ w[i] = v[j] /\ d[i] = b[j] /\ b[j] = f[v[j]]
      BY <1>4, <1>7, <1>9, <3>2
    <3> QED  BY <3>3
  <2> QED  BY <2>1, <2>2
<1>11. c = d
  BY <1>4, <1>6, <1>7, <1>9, <1>10, SeqEqual
<1> QED  BY <1>2, <1>3, <1>4, <1>5, <1>6, <1>8, <1>11

\* One element.
LEMMA EachAppend ==
    ASSUME NEW S, NEW V, NEW f, Maps(f, S, V), NEW u \in Seq(S), NEW e \in S
    PROVE  /\ Each(f, <<>>) = <<>> /\ Each(f, u) \in Seq(V)
           /\ Append(u, e) \in Seq(S) /\ Each(f, Append(u, e)) = Append(Each(f, u), f[e])
           /\ <<e>> \in Seq(S) /\ Each(f, <<e>>) = <<f[e]>>
<1>1. PICK o : o = <<e>>
  OBVIOUS
<1>2. o \in Seq(S) /\ Append(u, e) = u \o o /\ Append(u, e) \in Seq(S)
  BY <1>1, Grown
<1>3. Each(f, u \o o) = Each(f, u) \o Each(f, o) /\ Each(f, u) \in Seq(V) /\ Each(f, <<>>) = <<>>
  <2>1. o \in Seq(S)
    BY <1>2
  <2>2. /\ Each(f, u) \in Seq(V) /\ Each(f, <<>>) = <<>>
        /\ Each(f, u \o o) = Each(f, u) \o Each(f, o)
    BY <2>1, EachJoined
  <2> QED  BY <2>2
<1>4. Each(f, o) = <<f[e]>>
  <2>1. DOMAIN o = 1..1 /\ o[1] = e
    BY <1>1
  <2> QED  BY <2>1 DEF Each
<1>5. Append(Each(f, u), f[e]) = Each(f, u) \o <<f[e]>>
  <2>1. f[e] \in V
    BY DEF Maps
  <2> QED  BY <1>3, <2>1, Grown
<1> QED  BY <1>1, <1>2, <1>3, <1>4, <1>5

-----------------------------------------------------------------------------
(* The prefixes of a name *)

\* What apply_prefix puts on names: the records of parts, how each is shown,
\* and several of them one after the other.
Puts == [module : Modules, args : ArgLists]
ShownBy == [p \in Puts |-> Shown(p)]
Show(ps) == FlattenSeq(Each(ShownBy, ps))

\* What stands for a prefix.
LEMMA ShownIs ==
    ASSUME NEW p \in Puts
    PROVE  \E w \in Seq(InnerTokens) :
             /\ SplitAtHyphens(w) = p.args
             /\ Shown(p) = <<Hash, p.module>> \o (<<Hyphen>> \o w) \o <<Hash>>
<1>1. p.args \in Seq(Seq(ArgTokens)) /\ p.args # <<>>
  BY ArgsAre DEF Puts
<1>2. PICK w \in Seq(InnerTokens) : Middle(p.args) = <<Hyphen>> \o w /\ SplitAtHyphens(w) = p.args
  BY <1>1, MiddleIs
<1> QED  BY <1>2 DEF Shown, Middle, Hyphenated

\* Its tokens.
LEMMA ShownTokens ==
    ASSUME NEW p \in Puts, NEW C \in SUBSET Tokens,
           InnerTokens \subseteq C, Hash \in C, p.module \in C
    PROVE  Shown(p) \in Seq(C) /\ Shown(p) \in Words
<1>1. PICK w \in Seq(InnerTokens) : Shown(p) = <<Hash, p.module>> \o (<<Hyphen>> \o w) \o <<Hash>>
  BY ShownIs
<1>2. PICK a, b, c : a = <<Hash, p.module>> /\ b = <<Hyphen>> /\ c = <<Hash>>
  OBVIOUS
<1>3. a \in Seq(C) /\ b \in Seq(C) /\ c \in Seq(C)
  BY <1>2, Distinct
<1>4. w \in Seq(C)
  BY SeqMonotonic
<1>5. b \o w \in Seq(C)
  BY <1>3, <1>4, Joined
<1>6. a \o (b \o w) \in Seq(C)
  BY <1>3, <1>5, Joined
<1>7. Shown(p) \in Seq(C)
  BY <1>1, <1>2, <1>3, <1>6, Joined
<1> QED  BY <1>7, SeqMonotonic DEF Words

\* Prefixes one after the other.
LEMMA ShowAppend ==
    ASSUME NEW u \in Seq(Puts), NEW p \in Puts
    PROVE  /\ Show(<<>>) = <<>> /\ Show(u) \in Words
           /\ Append(u, p) \in Seq(Puts) /\ Show(Append(u, p)) = Show(u) \o Shown(p)
           /\ <<p>> \in Seq(Puts) /\ Show(<<p>>) = Shown(p)
<1>1. Maps(ShownBy, Puts, Words) /\ ShownBy[p] = Shown(p)
  <2>1. ASSUME NEW q \in Puts PROVE Shown(q) \in Words
    <3>1. q.module \in Tokens
      BY Distinct DEF Puts
    <3> QED  BY <3>1, Distinct, ShownTokens
  <2> QED  BY <2>1 DEF ShownBy, Maps
<1>2. /\ Each(ShownBy, <<>>) = <<>> /\ Each(ShownBy, u) \in Texts
      /\ Append(u, p) \in Seq(Puts)
      /\ Each(ShownBy, Append(u, p)) = Append(Each(ShownBy, u), Shown(p))
      /\ <<p>> \in Seq(Puts) /\ Each(ShownBy, <<p>>) = <<Shown(p)>>
  <2>1. /\ Each(ShownBy, <<>>) = <<>> /\ Each(ShownBy, u) \in Seq(Words)
        /\ Append(u, p) \in Seq(Puts)
        /\ Each(ShownBy, Append(u, p)) = Append(Each(ShownBy, u), ShownBy[p])
        /\ <<p>> \in Seq(Puts) /\ Each(ShownBy, <<p>>) = <<ShownBy[p]>>
    BY <1>1, EachAppend
  <2> QED  BY <1>1, <2>1 DEF Texts
<1>3. Shown(p) \in Words
  BY <1>1 DEF Maps
<1>4. PICK e : e = Each(ShownBy, u)
  OBVIOUS
<1>5. FlattenSeq(<<>>) = <<>> /\ FlattenSeq(e) \in Words /\ FlattenSeq(Append(e, Shown(p))) = FlattenSeq(e) \o Shown(p)
  BY <1>2, <1>3, <1>4, FlattenAppend
<1>6. FlattenSeq(<<Shown(p)>>) = Shown(p)
  BY <1>3, FlattenOne
<1> QED  BY <1>2, <1>4, <1>5, <1>6 DEF Show

\* The prefixes of two sequences, one after the other.
LEMMA ShowJoined ==
    ASSUME NEW u \in Seq(Puts), NEW v \in Seq(Puts)
    PROVE  /\ Show(u) \in Words /\ Show(v) \in Words
           /\ u \o v \in Seq(Puts) /\ Show(u \o v) = Show(u) \o Show(v)
<1>1. Maps(ShownBy, Puts, Words)
  <2>1. ASSUME NEW q \in Puts PROVE Shown(q) \in Words
    <3>1. q.module \in Tokens
      BY Distinct DEF Puts
    <3> QED  BY <3>1, Distinct, ShownTokens
  <2> QED  BY <2>1 DEF ShownBy, Maps
<1>2. PICK a, b : a = Each(ShownBy, u) /\ b = Each(ShownBy, v)
  OBVIOUS
<1>3. a \in Texts /\ b \in Texts /\ u \o v \in Seq(Puts) /\ Each(ShownBy, u \o v) = a \o b
  <2>1. /\ Each(ShownBy, u) \in Seq(Words) /\ Each(ShownBy, v) \in Seq(Words)
        /\ u \o v \in Seq(Puts)
        /\ Each(ShownBy, u \o v) = Each(ShownBy, u) \o Each(ShownBy, v)
    BY <1>1, EachJoined
  <2> QED  BY <1>2, <2>1 DEF Texts
<1>4. FlattenSeq(a \o b) = FlattenSeq(a) \o FlattenSeq(b)
  BY <1>3, FlattenJoined
<1>5. FlattenSeq(a) \in Words /\ FlattenSeq(b) \in Words
  <2>1. Tokens \in SUBSET Tokens
    OBVIOUS
  <2> QED  BY <1>3, <2>1, FlattenIn DEF Texts, Words
<1> QED  BY <1>2, <1>3, <1>4, <1>5 DEF Show

\* The tokens of prefixes.
LEMMA ShowTokens ==
    ASSUME NEW C \in SUBSET Tokens, InnerTokens \subseteq C, Hash \in C,
           NEW u \in Seq(Puts), \A i \in 1..Len(u) : u[i].module \in C
    PROVE  Show(u) \in Seq(C)
<1> DEFINE P == {p \in Puts : p.module \in C}
           T == {v \in Seq(Puts) : Show(v) \in Seq(C)}
<1>1. u \in Seq(P)
  <2>1. \A i \in 1..Len(u) : u[i] \in P
    BY ElementOfSeq
  <2>2. Len(u) \in Nat /\ u \in [1..Len(u) -> Puts]
    BY LenProperties
  <2>3. u \in [1..Len(u) -> P]
    <3> HIDE DEF P
    <3> QED  BY <2>1, <2>2
  <2> QED  BY <2>2, <2>3, SeqDef
<1>2. <<>> \in T
  <2>1. Show(<<>>) = <<>>
    BY DEF Show, Each, FlattenSeq
  <2> QED  BY <2>1, EmptySeq
<1>3. ASSUME NEW v \in Seq(P), NEW p \in P, v \in T
      PROVE  Append(v, p) \in T
  <2>1. v \in Seq(Puts) /\ p \in Puts /\ p.module \in C
    BY <1>3
  <2>2. Append(v, p) \in Seq(Puts) /\ Show(Append(v, p)) = Show(v) \o Shown(p)
    BY <2>1, ShowAppend
  <2>3. Shown(p) \in Seq(C)
    BY <2>1, ShownTokens
  <2>4. Show(v) \in Seq(C)
    BY <1>3
  <2>5. Show(v) \o Shown(p) \in Seq(C)
    BY <2>3, <2>4, Joined
  <2> QED  BY <2>2, <2>5
<1>4. Seq(P) \subseteq T
  <2> HIDE DEF T, P
  <2> QED  BY <1>2, <1>3, SequenceInduction
<1> QED  BY <1>1, <1>4

\* The definition in ShownPart.
LEMMA ShowIs ==
    ASSUME NEW ps \in Seq(Puts)
    PROVE  FlattenSeq([i \in DOMAIN ps |-> Shown(ps[i])]) = Show(ps)
<1>1. DOMAIN ps = 1..Len(ps) /\ \A i \in 1..Len(ps) : ps[i] \in Puts
  BY LenProperties, ElementOfSeq
<1>2. [i \in DOMAIN ps |-> Shown(ps[i])] = Each(ShownBy, ps)
  BY <1>1 DEF Each, ShownBy
<1> QED  BY <1>2 DEF Show

\* A name without prefixes.
LEMMA BaseIs ==
    ASSUME NEW b \in BaseNames
    PROVE  /\ b \in Seq(Tokens \ {Hash, Slash}) /\ b \in Words /\ b # <<>>
           /\ Len(b) \in Nat \ {0}
           /\ \A i \in 1..Len(b) : b[i] # Hash /\ b[i] # Slash
           /\ b[1] \in Modules => Len(b) = 1 \/ b[2] # Hyphen
<1>1. GoodBase(b)
  BY BaseNamesAssumption
<1>2. b \in Seq(Tokens) /\ b # <<>> /\ Len(b) \in Nat \ {0}
  BY <1>1, EmptySeq DEF GoodBase, Words
<1>3. \A i \in 1..Len(b) : b[i] \in Tokens \ {Hash, Slash}
  BY <1>1, <1>2, ElementOfSeq DEF GoodBase, Contains
<1>4. b \in [1..Len(b) -> Tokens \ {Hash, Slash}]
  BY <1>2, <1>3, LenProperties
<1>5. b \in Seq(Tokens \ {Hash, Slash})
  BY <1>2, <1>4, SeqDef
<1> QED  BY <1>1, <1>2, <1>3, <1>5 DEF GoodBase, Words

\* The prefix found by SelectInSeq, and what RemoveFirstMatch leaves.
OfModule(ps, m) == SelectInSeq(ps, LAMBDA p : p.module = m)
WithoutModule(ps, m) == RemoveFirstMatch(ps, LAMBDA p : p.module = m)

\* p is the first prefix of module m; u are before it and v after it.
IsOutermost(ps, m, u, p, v) ==
    /\ ps = u \o <<p>> \o v /\ p.module = m
    /\ \A i \in 1..Len(u) : u[i].module # m
    /\ OfModule(ps, m) # 0 /\ ps[OfModule(ps, m)] = p
    /\ WithoutModule(ps, m) = u \o v

\* Either no prefix is of the module, or one is the outermost: the reference
\* for remove_specific_prefix, contains_prefix and args_from_prefix.
LEMMA OutermostIs ==
    ASSUME NEW ps \in Seq(Puts), NEW m
    PROVE  \/ /\ OfModule(ps, m) = 0
              /\ \A i \in 1..Len(ps) : ps[i].module # m
           \/ \E u \in Seq(Puts), p \in Puts, v \in Seq(Puts) : IsOutermost(ps, m, u, p, v)
<1>1. PICK n \in Nat : n = Len(ps)
  BY LenProperties
<1>1a. PICK k : k = OfModule(ps, m)
  OBVIOUS
<1>2. PICK I \in SUBSET (1..n) : I = {i \in 1..n : ps[i].module = m}
  OBVIOUS
<1>3. k = IF I # {} THEN Min(I) ELSE 0
  BY <1>1, <1>1a, <1>2 DEF OfModule, SelectInSeq
<1>4. CASE I = {}
  BY <1>1, <1>1a, <1>2, <1>3, <1>4
<1>5. CASE I # {}
  <2>1. k \in I /\ \A i \in I : k <= i
    BY <1>3, <1>5, MinAndMax
  <2>2. k \in 1..n /\ ps[k].module = m /\ \A i \in 1..(k - 1) : ps[i].module # m
    BY <1>2, <2>1
  <2>3. PICK u, p, v : u = SubSeq(ps, 1, k - 1) /\ p = ps[k] /\ v = SubSeq(ps, k + 1, n)
    OBVIOUS
  <2>4. WithoutModule(ps, m) = u \o v
    <3>1. \E i \in 1..Len(ps) : ps[i].module = m
      BY <1>1, <1>1a, <2>2
    <3> QED  BY <1>1, <1>1a, <2>3, <3>1 DEF WithoutModule, RemoveFirstMatch, RemoveAt, OfModule
  <2>5. u \in Seq(Puts) /\ Len(u) = k - 1 /\ \A i \in 1..(k - 1) : u[i] = ps[i]
    <3>1. PICK o \in Nat, h \in Nat : o = 1 /\ h = k - 1
      BY <2>2
    <3>2. 1 <= o /\ o <= h + 1 /\ h <= Len(ps) /\ h - o + 1 = k - 1
      BY <1>1, <1>1a, <2>2, <3>1
    <3>3. /\ SubSeq(ps, o, h) \in Seq(Puts) /\ Len(SubSeq(ps, o, h)) = h - o + 1
          /\ \A i \in 1..(h - o + 1) : SubSeq(ps, o, h)[i] = ps[o + i - 1]
      BY <3>2, PartIs
    <3>4. \A i \in 1..(k - 1) : o + i - 1 = i
      BY <3>1
    <3> QED  BY <2>3, <3>1, <3>2, <3>3, <3>4
  <2>6. v \in Seq(Puts) /\ Len(v) = n - k /\ \A i \in 1..(n - k) : v[i] = ps[k + i]
    <3>1. PICK o \in Nat, h \in Nat : o = k + 1 /\ h = n
      BY <2>2
    <3>2. 1 <= o /\ o <= h + 1 /\ h <= Len(ps) /\ h - o + 1 = n - k
      BY <1>1, <1>1a, <2>2, <3>1
    <3>3. /\ SubSeq(ps, o, h) \in Seq(Puts) /\ Len(SubSeq(ps, o, h)) = h - o + 1
          /\ \A i \in 1..(h - o + 1) : SubSeq(ps, o, h)[i] = ps[o + i - 1]
      BY <3>2, PartIs
    <3>4. \A i \in 1..(n - k) : o + i - 1 = k + i
      BY <2>2, <3>1
    <3> QED  BY <2>3, <3>1, <3>2, <3>3, <3>4
  <2>7. p \in Puts
    BY <1>1, <1>1a, <2>2, <2>3, ElementOfSeq
  <2>8. ps = u \o <<p>> \o v
    <3>1. PICK o : o = <<p>>
      OBVIOUS
    <3>2. o \in Seq(Puts) /\ Len(o) = 1 /\ o[1] = p
      BY <2>7, <3>1
    <3>3. PICK w : w = u \o o \o v
      OBVIOUS
    <3>4. /\ w \in Seq(Puts) /\ Len(w) = Len(u) + Len(o) + Len(v)
          /\ \A i \in 1..Len(u) : w[i] = u[i]
          /\ \A i \in 1..Len(o) : w[Len(u) + i] = o[i]
          /\ \A i \in 1..Len(v) : w[Len(u) + Len(o) + i] = v[i]
      <4>1. o \in Seq(Puts) /\ u \in Seq(Puts) /\ v \in Seq(Puts)
        BY <2>5, <2>6, <3>2
      <4> QED  BY <3>3, <4>1, Joined3
    <3>5. Len(w) = n
      BY <2>2, <2>5, <2>6, <3>2, <3>4
    <3>6. \A i \in 1..n : w[i] = ps[i]
      <4> SUFFICES ASSUME NEW i \in 1..n PROVE w[i] = ps[i]
        OBVIOUS
      <4>1. CASE i < k
        <5>1. i \in 1..(k - 1) /\ i \in 1..Len(u)
          BY <2>2, <2>5, <4>1
        <5> QED  BY <2>5, <3>4, <5>1
      <4>2. CASE i = k
        <5>1. i = Len(u) + 1 /\ 1 \in 1..Len(o)
          BY <2>2, <2>5, <3>2, <4>2
        <5> QED  BY <2>3, <3>2, <3>4, <4>2, <5>1
      <4>3. CASE i > k
        <5>1. PICK j : j = i - k
          OBVIOUS
        <5>2. j \in 1..(n - k) /\ i = Len(u) + Len(o) + j /\ i = k + j /\ j \in 1..Len(v)
          BY <2>2, <2>5, <2>6, <3>2, <4>3, <5>1
        <5>3. w[i] = v[j] /\ v[j] = ps[k + j]
          BY <2>6, <3>4, <5>2
        <5> QED  BY <5>2, <5>3
      <4> QED  BY <2>2, <4>1, <4>2, <4>3
    <3>7. w = ps
      BY <1>1, <1>1a, <3>4, <3>5, <3>6, SeqEqual
    <3> QED  BY <3>1, <3>3, <3>7
  <2>9. \A i \in 1..Len(u) : u[i].module # m
    BY <2>2, <2>5
  <2>10. u \in Seq(Puts) /\ v \in Seq(Puts) /\ p.module = m /\ k # 0
    BY <2>2, <2>3, <2>5, <2>6
  <2>11. IsOutermost(ps, m, u, p, v)
    BY <1>1, <1>1a, <2>3, <2>4, <2>8, <2>9, <2>10 DEF IsOutermost
  <2> QED  BY <2>7, <2>10, <2>11
<1> QED  BY <1>4, <1>5

\* How many '#' and '-' there are.
LEMMA ShowCounts ==
    ASSUME NEW ps \in Seq(Puts)
    PROVE  /\ CountOf(Show(ps), Hash) = 2 * Len(ps)
           /\ CountOf(Show(ps), Hyphen) \in Nat /\ CountOf(Show(ps), Hyphen) >= Len(ps)
<1> DEFINE T == {u \in Seq(Puts) : /\ CountOf(Show(u), Hash) = 2 * Len(u)
                                   /\ CountOf(Show(u), Hyphen) \in Nat
                                   /\ CountOf(Show(u), Hyphen) >= Len(u)}
<1>1. <<>> \in T
  <2>1. Show(<<>>) = <<>>
    BY DEF Show, Each, FlattenSeq
  <2>2. CountOf(<<>>, Hash) = 0 /\ CountOf(<<>>, Hyphen) = 0 /\ Len(<<>>) = 0
    BY CountAppend, Distinct, EmptySeq DEF Words
  <2> QED  BY <2>1, <2>2, EmptySeq
<1>2. ASSUME NEW u \in Seq(Puts), NEW p \in Puts, u \in T
      PROVE  Append(u, p) \in T
  <2>1. /\ Append(u, p) \in Seq(Puts) /\ Show(Append(u, p)) = Show(u) \o Shown(p)
        /\ Show(u) \in Words
    BY ShowAppend
  <2>2. Len(u) \in Nat /\ Len(Append(u, p)) = Len(u) + 1
    BY AppendProperties, LenProperties
  <2>3. PICK w \in Seq(InnerTokens) : Shown(p) = <<Hash, p.module>> \o (<<Hyphen>> \o w) \o <<Hash>>
    BY ShownIs
  <2>4. PICK a, b, c : a = <<Hash, p.module>> /\ b = <<Hyphen>> /\ c = <<Hash>>
    OBVIOUS
  <2>5. /\ a \in Words /\ b \in Words /\ c \in Words /\ w \in Words
        /\ b \o w \in Words /\ a \o (b \o w) \in Words
    <3>1. p.module \in Tokens
      BY Distinct DEF Puts
    <3>2. a \in Words /\ b \in Words /\ c \in Words
      BY <2>4, <3>1, Distinct DEF Words
    <3>3. w \in Words
      BY Distinct, SeqMonotonic DEF Words
    <3>4. b \o w \in Words
      BY <3>2, <3>3, Joined DEF Words
    <3> QED  BY <3>2, <3>3, <3>4, Joined DEF Words
  <2>6. CountOf(a, Hash) = 1 /\ CountOf(a, Hyphen) = 0
    <3>1. PICK h, r : h = <<Hash>> /\ r = <<p.module>>
      OBVIOUS
    <3>2. p.module \in Tokens /\ p.module # Hash /\ p.module # Hyphen /\ Hash # Hyphen
      BY Distinct DEF Puts
    <3>3. h \in Words /\ r \in Words /\ a = h \o r
      BY <2>4, <3>1, <3>2, Distinct DEF Words
    <3>4. CountOf(h, Hash) = 1 /\ CountOf(h, Hyphen) = 0 /\ CountOf(r, Hash) = 0 /\ CountOf(r, Hyphen) = 0
      BY <3>1, <3>2, Distinct, CountOne
    <3>5. /\ CountOf(a, Hash) = CountOf(h, Hash) + CountOf(r, Hash)
          /\ CountOf(a, Hyphen) = CountOf(h, Hyphen) + CountOf(r, Hyphen)
      BY <3>3, CountJoined
    <3> QED  BY <3>4, <3>5
  <2>7. /\ CountOf(b, Hash) = 0 /\ CountOf(b, Hyphen) = 1
        /\ CountOf(c, Hash) = 1 /\ CountOf(c, Hyphen) = 0
    BY <2>4, Distinct, CountOne
  <2>8. CountOf(w, Hash) = 0 /\ CountOf(w, Hyphen) \in Nat
    <3>1. w \in Seq(Tokens \ {Hash})
      BY SeqMonotonic DEF InnerTokens
    <3> QED  BY <2>5, <3>1, CountNone, CountJoined
  <2>9. \A e \in {Hash, Hyphen} :
          CountOf(Shown(p), e) = CountOf(a, e) + (CountOf(b, e) + CountOf(w, e)) + CountOf(c, e)
    <3> SUFFICES ASSUME NEW e PROVE CountOf(Shown(p), e) = CountOf(a, e) + (CountOf(b, e) + CountOf(w, e)) + CountOf(c, e)
      OBVIOUS
    <3>1. CountOf(b \o w, e) = CountOf(b, e) + CountOf(w, e)
      BY <2>5, CountJoined
    <3>2. CountOf(a \o (b \o w), e) = CountOf(a, e) + CountOf(b \o w, e)
      BY <2>5, CountJoined
    <3>3. CountOf(a \o (b \o w) \o c, e) = CountOf(a \o (b \o w), e) + CountOf(c, e)
      BY <2>5, CountJoined
    <3> QED  BY <2>3, <2>4, <3>1, <3>2, <3>3
  <2>10. CountOf(Shown(p), Hash) = 2 /\ CountOf(Shown(p), Hyphen) \in Nat \ {0}
    BY <2>6, <2>7, <2>8, <2>9
  <2>11. Shown(p) \in Words
    BY <2>3, <2>4, <2>5, Joined DEF Words
  <2>12. /\ CountOf(Show(u) \o Shown(p), Hash) = CountOf(Show(u), Hash) + CountOf(Shown(p), Hash)
         /\ CountOf(Show(u) \o Shown(p), Hyphen) = CountOf(Show(u), Hyphen) + CountOf(Shown(p), Hyphen)
    BY <2>1, <2>11, CountJoined
  <2>13. /\ CountOf(Show(u), Hash) = 2 * Len(u) /\ CountOf(Show(u), Hyphen) \in Nat
         /\ CountOf(Show(u), Hyphen) >= Len(u)
    BY <1>2
  <2>14. PICK x, y, z : x = CountOf(Show(u), Hyphen) /\ y = CountOf(Shown(p), Hyphen) /\ z = Len(u)
    OBVIOUS
  <2>15. x \in Nat /\ y \in Nat \ {0} /\ z \in Nat /\ x >= z
    BY <2>2, <2>10, <2>13, <2>14
  <2>16. x + y \in Nat /\ x + y >= z + 1 /\ 2 * z + 2 = 2 * (z + 1)
    BY <2>15
  <2> QED  BY <2>1, <2>2, <2>10, <2>12, <2>13, <2>14, <2>16
<1>3. Seq(Puts) \subseteq T
  <2> HIDE DEF T
  <2> QED  BY <1>1, <1>2, SequenceInduction
<1> QED  BY <1>3

-----------------------------------------------------------------------------
(* Words one after the other *)

\* Two names one after the other.
LEMMA WordsJoined ==
    ASSUME NEW u \in Words, NEW v \in Words
    PROVE  /\ u \o v \in Words
           /\ Len(u) \in Nat /\ Len(v) \in Nat /\ Len(u \o v) = Len(u) + Len(v)
           /\ \A i \in 1..Len(u) : (u \o v)[i] = u[i]
           /\ \A i \in 1..Len(v) : (u \o v)[Len(u) + i] = v[i]
<1>1. u \in Seq(Tokens) /\ v \in Seq(Tokens)
  BY DEF Words
<1> QED  BY <1>1, Joined DEF Words

\* Three names one after the other.
LEMMA WordsJoined3 ==
    ASSUME NEW u \in Words, NEW v \in Words, NEW w \in Words
    PROVE  /\ u \o v \o w \in Words /\ u \o v \o w = u \o (v \o w)
           /\ Len(u) \in Nat /\ Len(v) \in Nat /\ Len(w) \in Nat
           /\ Len(u \o v \o w) = Len(u) + Len(v) + Len(w)
           /\ \A i \in 1..Len(u) : (u \o v \o w)[i] = u[i]
           /\ \A i \in 1..Len(v) : (u \o v \o w)[Len(u) + i] = v[i]
           /\ \A i \in 1..Len(w) : (u \o v \o w)[Len(u) + Len(v) + i] = w[i]
<1>1. PICK x, y : x = u \o v /\ y = x \o w
  OBVIOUS
<1>2. /\ x \in Words /\ Len(u) \in Nat /\ Len(v) \in Nat /\ Len(x) = Len(u) + Len(v)
      /\ \A i \in 1..Len(u) : x[i] = u[i]
      /\ \A i \in 1..Len(v) : x[Len(u) + i] = v[i]
  BY <1>1, WordsJoined
<1>3. x \in Words
  BY <1>2
<1>4. /\ y \in Words /\ Len(w) \in Nat /\ Len(y) = Len(x) + Len(w)
      /\ \A i \in 1..Len(x) : y[i] = x[i]
      /\ \A i \in 1..Len(w) : y[Len(x) + i] = w[i]
  BY ZenonT(60), <1>1, <1>3, WordsJoined
<1>5. /\ \A i \in 1..Len(u) : y[i] = u[i]
      /\ \A i \in 1..Len(v) : y[Len(u) + i] = v[i]
      /\ \A i \in 1..Len(w) : y[Len(u) + Len(v) + i] = w[i]
  BY <1>2, <1>4
<1>6. y = u \o (v \o w)
  BY <1>1, ConcatAssociative DEF Words
<1> QED  BY <1>1, <1>2, <1>4, <1>5, <1>6

-----------------------------------------------------------------------------
(* A name with prefixes *)

\* A name with prefixes is a component of a path, and its '#' and '-' count its prefixes.
LEMMA NameIs ==
    ASSUME NEW ps \in Seq(Puts), NEW b \in BaseNames, NEW s, s = Show(ps) \o b
    PROVE  /\ s \in Words /\ Component(s)
           /\ Len(ps) \in Nat
           /\ CountOf(s, Hash) = 2 * Len(ps)
           /\ CountOf(s, Hyphen) \in Nat /\ CountOf(s, Hyphen) >= Len(ps)
<1>1. Show(ps) \in Seq(Tokens \ {Slash})
  <2>1. PICK C \in SUBSET Tokens : C = Tokens \ {Slash}
    OBVIOUS
  <2>2. InnerTokens \subseteq C /\ Hash \in C
    BY <2>1, Distinct DEF InnerTokens
  <2>3. \A i \in 1..Len(ps) : ps[i].module \in C
    <3>1. \A i \in 1..Len(ps) : ps[i] \in Puts
      BY ElementOfSeq
    <3> QED  BY <2>1, <3>1, Distinct DEF Puts
  <2> QED  BY <2>1, <2>2, <2>3, ShowTokens
<1>2. b \in Seq(Tokens \ {Slash}) /\ Len(b) \in Nat \ {0}
  <2>1. b \in Seq(Tokens \ {Hash, Slash}) /\ Len(b) \in Nat \ {0}
    BY BaseIs
  <2> QED  BY <2>1, SeqMonotonic
<1>3. /\ s \in Seq(Tokens \ {Slash}) /\ Len(s) = Len(Show(ps)) + Len(b)
      /\ Len(Show(ps)) \in Nat
  BY <1>1, <1>2, Joined
<1>4. s \in Words
  BY <1>3, SeqMonotonic DEF Words
<1>5. Component(s)
  <2>1. Len(s) # 0
    BY <1>2, <1>3
  <2>2. \A i \in 1..Len(s) : s[i] # Slash
    BY <1>3, ElementOfSeq
  <2> QED  BY <1>4, <2>1, <2>2, EmptySeq DEF Component, Words
<1>6. b \in Words /\ Show(ps) \in Words
  BY <1>1, BaseIs, SeqMonotonic DEF Words
<1>7. /\ CountOf(s, Hash) = CountOf(Show(ps), Hash) + CountOf(b, Hash)
      /\ CountOf(s, Hyphen) = CountOf(Show(ps), Hyphen) + CountOf(b, Hyphen)
      /\ CountOf(b, Hyphen) \in Nat
  BY <1>6, CountJoined
<1>8. CountOf(b, Hash) = 0
  <2>1. b \in Seq(Tokens \ {Hash})
    BY BaseIs, SeqMonotonic
  <2> QED  BY <2>1, CountNone
<1>9. /\ CountOf(Show(ps), Hash) = 2 * Len(ps)
      /\ CountOf(Show(ps), Hyphen) \in Nat /\ CountOf(Show(ps), Hyphen) >= Len(ps)
      /\ Len(ps) \in Nat
  BY ShowCounts, LenProperties
<1> QED  BY <1>4, <1>5, <1>7, <1>8, <1>9

\* contains_prefix and args_from_prefix find no prefix of a module that put none.
LEMMA NothingFound ==
    ASSUME NEW ps \in Seq(Puts), NEW b \in BaseNames, NEW s, s = Show(ps) \o b,
           NEW m \in Modules, \A i \in 1..Len(ps) : ps[i].module # m
    PROVE  Find(s, <<Hash, m, Hyphen>>, 1) = 0 /\ Find(s, <<Hash, m, Hash>>, 1) = 0
<1>1. PICK A, n : A = Show(ps) /\ n = Len(A)
  OBVIOUS
<1>2. A \in Seq(Tokens \ {m})
  <2>1. PICK C \in SUBSET Tokens : C = Tokens \ {m}
    OBVIOUS
  <2>2. InnerTokens \subseteq C /\ Hash \in C
    BY <2>1, Distinct DEF InnerTokens
  <2>3. \A i \in 1..Len(ps) : ps[i].module \in C
    <3>1. \A i \in 1..Len(ps) : ps[i] \in Puts
      BY ElementOfSeq
    <3> QED  BY <2>1, <3>1, Distinct DEF Puts
  <2> QED  BY <1>1, <2>1, <2>2, <2>3, ShowTokens
<1>3. A \in Words /\ b \in Words /\ s \in Words /\ n \in Nat /\ Len(b) \in Nat
  BY <1>1, <1>2, BaseIs, NameIs, SeqMonotonic, LenProperties DEF Words
<1>4. /\ Len(s) = n + Len(b)
      /\ \A i \in 1..n : s[i] = A[i]
      /\ \A i \in 1..Len(b) : s[n + i] = b[i]
  BY <1>1, <1>3, Joined DEF Words
<1>5. \A i \in 1..n : A[i] # m
  BY <1>1, <1>2, ElementOfSeq
<1>6. ASSUME NEW i \in 1..Len(s), i + 2 <= Len(s), s[i] = Hash, s[i + 1] = m,
             s[i + 2] \in {Hash, Hyphen}
      PROVE  FALSE
  <2>1. i <= n
    <3> SUFFICES ASSUME i > n PROVE FALSE
      BY <1>3, <1>4
    <3>1. PICK j : j = i - n
      OBVIOUS
    <3>2. j \in 1..Len(b) /\ i = n + j
      BY <1>3, <1>4, <3>1
    <3>3. s[i] = b[j] /\ b[j] # Hash
      BY <1>4, <3>2, BaseIs
    <3> QED  BY <1>6, <3>3
  <2>2. i = n
    <3> SUFFICES ASSUME i < n PROVE FALSE
      BY <1>3, <2>1
    <3>1. i + 1 \in 1..n
      BY <1>3
    <3> QED  BY <1>4, <1>5, <1>6, <3>1
  <2>3. 1 \in 1..Len(b) /\ 2 \in 1..Len(b) /\ i + 1 = n + 1 /\ i + 2 = n + 2
    BY <1>3, <1>4, <1>6, <2>2
  <2>4. b[1] = m /\ b[2] \in {Hash, Hyphen}
    BY <1>4, <1>6, <2>3
  <2>5. b[2] # Hash /\ b[2] # Hyphen
    BY <2>3, <2>4, BaseIs
  <2> QED  BY <2>4, <2>5
<1>7. ASSUME NEW c \in {Hash, Hyphen}
      PROVE  Find(s, <<Hash, m, c>>, 1) = 0
  <2>1. PICK I : I = Triples(s, Hash, m, c)
    OBVIOUS
  <2>2. I = {}
    BY <1>6, <2>1 DEF Triples
  <2>3. PICK k : k = Find(s, <<Hash, m, c>>, 1)
    OBVIOUS
  <2>4. Hash \in Tokens /\ m \in Tokens /\ c \in Tokens
    BY Distinct
  <2>5. \/ k = 0 /\ I = {}
        \/ k \in I /\ \A i \in I : k <= i
    <3>1. s \in Words
      BY <1>3
    <3> QED  BY <2>1, <2>3, <2>4, <3>1, FindThree
  <2> QED  BY <2>2, <2>3, <2>5
<1> QED  BY <1>7

\* s is A, a prefix of module m with w between its hyphen and its '#', and R.
Laid(s, A, m, w, R) ==
    /\ s \in Words /\ A \in Words /\ R \in Words /\ w \in Seq(InnerTokens)
    /\ Len(A) \in Nat /\ Len(w) \in Nat /\ Len(R) \in Nat
    /\ Len(s) = Len(A) + Len(w) + 4 + Len(R)
    /\ \A i \in 1..Len(A) : s[i] = A[i]
    /\ s[Len(A) + 1] = Hash /\ s[Len(A) + 2] = m /\ s[Len(A) + 3] = Hyphen
    /\ \A i \in 1..Len(w) : s[Len(A) + 3 + i] = w[i]
    /\ s[Len(A) + Len(w) + 4] = Hash
    /\ \A i \in 1..Len(R) : s[Len(A) + Len(w) + 4 + i] = R[i]

\* Where the parts of the outermost prefix of a module are.
LEMMA Layout ==
    ASSUME NEW u \in Seq(Puts), NEW p \in Puts, NEW v \in Seq(Puts), NEW b \in BaseNames,
           NEW s, s = Show(u \o <<p>> \o v) \o b
    PROVE  \E w \in Seq(InnerTokens) :
             /\ SplitAtHyphens(w) = p.args
             /\ Laid(s, Show(u), p.module, w, Show(v) \o b)
             /\ Show(u \o v) \o b = Show(u) \o (Show(v) \o b)
<1>1. PICK w \in Seq(InnerTokens) :
        /\ SplitAtHyphens(w) = p.args
        /\ Shown(p) = <<Hash, p.module>> \o (<<Hyphen>> \o w) \o <<Hash>>
  BY ShownIs
<1>2. PICK A, B, R, k, n : /\ A = Show(u) /\ B = Show(v) /\ R = B \o b
                           /\ k = Len(w) /\ n = Len(A)
  OBVIOUS
<1>3. PICK a, c, d : a = <<Hash, p.module>> /\ c = <<Hyphen>> /\ d = <<Hash>>
  OBVIOUS
<1>4. /\ a \in Words /\ c \in Words /\ d \in Words /\ w \in Words
      /\ Len(a) = 2 /\ a[1] = Hash /\ a[2] = p.module
      /\ Len(c) = 1 /\ c[1] = Hyphen /\ Len(d) = 1 /\ d[1] = Hash
      /\ k \in Nat
  <2>1. p.module \in Tokens
    BY Distinct DEF Puts
  <2>2. w \in Words
    BY Distinct, SeqMonotonic DEF Words
  <2> QED  BY <1>2, <1>3, <2>1, <2>2, Distinct, LenProperties DEF Words
<1>5. PICK e : e = c \o w
  OBVIOUS
<1>6. /\ e \in Words /\ Len(e) = k + 1 /\ e[1] = Hyphen
      /\ \A i \in 1..k : e[1 + i] = w[i]
  <2>1. /\ e \in Words /\ Len(e) = Len(c) + Len(w)
        /\ \A i \in 1..Len(c) : e[i] = c[i]
        /\ \A i \in 1..Len(w) : e[Len(c) + i] = w[i]
    BY ZenonT(60), <1>4, <1>5, WordsJoined
  <2>2. 1 \in 1..Len(c)
    BY <1>4
  <2>3. Len(c) = 1 /\ c[1] = Hyphen /\ Len(w) = k /\ k \in Nat
    BY <1>2, <1>4
  <2>4. e[1] = Hyphen
    BY <2>1, <2>2, <2>3
  <2>5. Len(e) = k + 1
    BY <2>1, <2>3
  <2> QED  BY <2>1, <2>3, <2>4, <2>5
<1>7. PICK P : P = a \o e \o d
  OBVIOUS
<1>8. /\ P \in Words /\ Len(P) = k + 4 /\ P[1] = Hash /\ P[2] = p.module /\ P[3] = Hyphen
      /\ \A i \in 1..k : P[3 + i] = w[i]
      /\ P[k + 4] = Hash
  <2>1. /\ P \in Words /\ Len(P) = Len(a) + Len(e) + Len(d)
        /\ \A i \in 1..Len(a) : P[i] = a[i]
        /\ \A i \in 1..Len(e) : P[Len(a) + i] = e[i]
        /\ \A i \in 1..Len(d) : P[Len(a) + Len(e) + i] = d[i]
    <3>1. a \in Words /\ e \in Words /\ d \in Words
      BY <1>4, <1>6
    <3>2. /\ a \o e \o d \in Words /\ Len(a \o e \o d) = Len(a) + Len(e) + Len(d)
          /\ \A i \in 1..Len(a) : (a \o e \o d)[i] = a[i]
          /\ \A i \in 1..Len(e) : (a \o e \o d)[Len(a) + i] = e[i]
          /\ \A i \in 1..Len(d) : (a \o e \o d)[Len(a) + Len(e) + i] = d[i]
      BY <3>1, WordsJoined3
    <3> QED  BY <1>7, <3>2
  <2>2. P[1] = Hash /\ P[2] = p.module
    BY <1>4, <2>1
  <2>3. P[3] = Hyphen
    <3>1. 1 \in 1..Len(e) /\ Len(a) + 1 = 3
      BY <1>4, <1>6
    <3> QED  BY <1>6, <2>1, <3>1
  <2>4. ASSUME NEW i \in 1..k PROVE P[3 + i] = w[i]
    <3>1. 1 + i \in 1..Len(e) /\ Len(a) + (1 + i) = 3 + i
      BY <1>4, <1>6
    <3>2. P[3 + i] = e[1 + i]
      BY <2>1, <3>1
    <3> QED  BY <1>6, <3>2
  <2>5. P[k + 4] = Hash
    <3>1. 1 \in 1..Len(d) /\ Len(a) + Len(e) + 1 = k + 4
      BY <1>4, <1>6
    <3> QED  BY <1>4, <2>1, <3>1
  <2> QED  BY <1>4, <1>6, <2>1, <2>2, <2>3, <2>4, <2>5
<1>9. P = Shown(p)
  BY <1>1, <1>3, <1>5, <1>7
<1>10. A \in Words /\ B \in Words /\ b \in Words /\ R \in Words /\ n \in Nat /\ Len(R) \in Nat
  <2>1. A \in Words /\ B \in Words /\ b \in Words
    BY <1>2, ShowJoined, BaseIs
  <2>2. R \in Words
    BY <1>2, <2>1, Joined DEF Words
  <2> QED  BY <1>2, <2>1, <2>2, LenProperties DEF Words
<1>11. Show(u \o <<p>> \o v) = A \o P \o B
  <2>1. PICK o : o = <<p>>
    OBVIOUS
  <2>2. o \in Seq(Puts) /\ Show(o) = P
    BY <1>9, <2>1, ShowAppend
  <2>3. PICK x : x = u \o o
    OBVIOUS
  <2>4. x \in Seq(Puts) /\ Show(x) = A \o P
    BY <1>2, <2>2, <2>3, ShowJoined
  <2>5. Show(x \o v) = Show(x) \o B
    BY <1>2, <2>4, ShowJoined
  <2> QED  BY <2>1, <2>3, <2>4, <2>5
<1>12. s = A \o P \o R
  <2>1. A \o P \in Words
    BY <1>8, <1>10, Joined DEF Words
  <2>2. ((A \o P) \o B) \o b = (A \o P) \o (B \o b)
    BY <1>10, <2>1, WordsJoined3
  <2> QED  BY <1>2, <1>11, <2>2
<1>13. /\ s \in Words /\ Len(s) = n + Len(P) + Len(R)
       /\ \A i \in 1..n : s[i] = A[i]
       /\ \A i \in 1..Len(P) : s[n + i] = P[i]
       /\ \A i \in 1..Len(R) : s[n + Len(P) + i] = R[i]
  <2>1. P \in Words /\ A \in Words /\ R \in Words
    BY <1>8, <1>10
  <2>2. /\ A \o P \o R \in Words /\ Len(A \o P \o R) = Len(A) + Len(P) + Len(R)
        /\ \A i \in 1..Len(A) : (A \o P \o R)[i] = A[i]
        /\ \A i \in 1..Len(P) : (A \o P \o R)[Len(A) + i] = P[i]
        /\ \A i \in 1..Len(R) : (A \o P \o R)[Len(A) + Len(P) + i] = R[i]
    BY <2>1, WordsJoined3
  <2>3. Len(A) = n
    BY <1>2
  <2> QED  BY <1>12, <2>2, <2>3
<1>14. s[n + 1] = Hash /\ s[n + 2] = p.module /\ s[n + 3] = Hyphen /\ s[n + k + 4] = Hash
  <2>1. 1 \in 1..Len(P) /\ 2 \in 1..Len(P) /\ 3 \in 1..Len(P) /\ k + 4 \in 1..Len(P)
    BY <1>4, <1>8
  <2>2. n + (k + 4) = n + k + 4
    BY <1>4, <1>10
  <2>3. s[n + (k + 4)] = P[k + 4]
    BY <1>13, <2>1
  <2> QED  BY <1>8, <1>13, <2>1, <2>2, <2>3
<1>15. \A i \in 1..k : s[n + 3 + i] = w[i]
  <2> SUFFICES ASSUME NEW i \in 1..k PROVE s[n + 3 + i] = w[i]
    OBVIOUS
  <2>1. 3 + i \in 1..Len(P) /\ n + (3 + i) = n + 3 + i
    BY SMTT(60), <1>4, <1>8, <1>10
  <2> QED  BY <1>8, <1>13, <2>1
<1>16. \A i \in 1..Len(R) : s[n + k + 4 + i] = R[i]
  <2> SUFFICES ASSUME NEW i \in 1..Len(R) PROVE s[n + k + 4 + i] = R[i]
    OBVIOUS
  <2>1. n + Len(P) + i = n + k + 4 + i
    BY <1>4, <1>8, <1>10
  <2> QED  BY <1>13, <2>1
<1>17. Len(s) = n + k + 4 + Len(R)
  <2>1. Len(s) = n + Len(P) + Len(R) /\ Len(P) = k + 4
    BY <1>8, <1>13
  <2> QED  BY <1>4, <1>10, <2>1
<1>18. Show(u \o v) \o b = A \o R
  <2>1. Show(u \o v) = A \o B
    BY <1>2, ShowJoined
  <2>2. (A \o B) \o b = A \o (B \o b)
    BY ZenonT(60), <1>10, WordsJoined3
  <2> QED  BY <1>2, <2>1, <2>2
<1>19. k \in Nat /\ n \in Nat /\ Len(R) \in Nat /\ R \in Words /\ A \in Words
  BY <1>4, <1>10
<1>20. Laid(s, A, p.module, w, R)
  BY <1>2, <1>13, <1>14, <1>15, <1>16, <1>17, <1>19 DEF Laid
<1> QED  BY <1>1, <1>2, <1>18, <1>20

\* What is found in a name with a prefix of module m.
LEMMA LaidFound ==
    ASSUME NEW s, NEW A, NEW m \in Modules, NEW w, NEW R, Laid(s, A, m, w, R),
           \A i \in 1..Len(A) : A[i] # m
    PROVE  /\ Find(s, <<Hash, m, Hyphen>>, 1) = Len(A) + 1
           /\ Find(s, <<Hash>>, Len(A) + 4) = Len(A) + Len(w) + 4
           /\ Find(s, <<m>>, 1) = Len(A) + 2
           /\ Find(s, <<Hash>>, Len(A) + 3) = Len(A) + Len(w) + 4
<1>1. PICK n, k, r : n = Len(A) /\ k = Len(w) /\ r = Len(R)
  OBVIOUS
<1>2. /\ s \in Words /\ n \in Nat /\ k \in Nat /\ r \in Nat /\ Len(s) = n + k + 4 + r
      /\ s[n + 1] = Hash /\ s[n + 2] = m /\ s[n + 3] = Hyphen /\ s[n + k + 4] = Hash
  BY <1>1 DEF Laid
<1>3. \A i \in 1..n : s[i] # m
  BY <1>1 DEF Laid
<1>4. m \in Tokens /\ m # Hash /\ m # Hyphen /\ Hash # Hyphen /\ Hash \in Tokens /\ Hyphen \in Tokens
  BY Distinct
<1>5. \A i \in (n + 4)..(n + k + 3) : s[i] # Hash
  <2> SUFFICES ASSUME NEW i \in (n + 4)..(n + k + 3) PROVE s[i] # Hash
    OBVIOUS
  <2>1. PICK j : j = i - n - 3
    OBVIOUS
  <2>2. j \in 1..k /\ n + 3 + j = i
    BY SMTT(60), <1>2, <2>1
  <2>3. s[i] = w[j] /\ w \in Seq(InnerTokens) /\ j \in 1..Len(w)
    BY <1>1, <2>2 DEF Laid
  <2>4. w[j] \in InnerTokens
    BY <2>3, ElementOfSeq
  <2> QED  BY <2>3, <2>4 DEF InnerTokens
<1>6. Find(s, <<Hash, m, Hyphen>>, 1) = n + 1
  <2>1. PICK I, place : I = Triples(s, Hash, m, Hyphen) /\ place = Find(s, <<Hash, m, Hyphen>>, 1)
    OBVIOUS
  <2>2. \/ place = 0 /\ I = {}
        \/ place \in I /\ \A i \in I : place <= i
    BY SMTT(60), <1>2, <1>4, <2>1, FindThree
  <2>3. n + 1 \in I
    <3>1. n + 1 \in 1..Len(s) /\ (n + 1) + 1 = n + 2 /\ (n + 1) + 2 = n + 3 /\ n + 3 <= Len(s)
      BY SMTT(60), <1>2
    <3> QED  BY <1>2, <2>1, <3>1 DEF Triples
  <2>4. ASSUME NEW i \in I
        PROVE  i >= n + 1
    <3>1. i \in 1..Len(s) /\ s[i + 1] = m
      BY <2>1 DEF Triples
    <3>2. i + 1 \notin 1..n /\ i + 1 # n + 1
      BY <1>2, <1>3, <1>4, <3>1
    <3> QED  BY <1>2, <3>1, <3>2
  <2>5. place \in I /\ place <= n + 1 /\ place >= n + 1
    BY <2>2, <2>3, <2>4
  <2>6. place \in 1..Len(s)
    BY <2>1, <2>5 DEF Triples
  <2> QED  BY <1>2, <2>1, <2>5, <2>6
<1>7. Find(s, <<Hash>>, n + 4) = n + k + 4
  <2>1. PICK f \in Nat \ {0} : f = n + 4
    BY <1>2
  <2>1a. PICK g : g = n + k + 4
    OBVIOUS
  <2>2. g \in f..Len(s) /\ s[g] = Hash /\ \A i \in f..(g - 1) : s[i] # Hash
    BY <1>2, <1>5, <2>1, <2>1a
  <2> QED  BY <1>2, <1>4, <2>1, <2>1a, <2>2, FoundAt
<1>8. Find(s, <<m>>, 1) = n + 2
  <2>1. PICK g : g = n + 2
    OBVIOUS
  <2>2. \A i \in 1..(g - 1) : s[i] # m
    <3> SUFFICES ASSUME NEW i \in 1..(g - 1) PROVE s[i] # m
      OBVIOUS
    <3>1. i \in 1..n \/ i = n + 1
      BY <1>2, <2>1
    <3> QED  BY <1>2, <1>3, <1>4, <3>1
  <2>3. g \in 1..Len(s) /\ s[g] = m
    BY <1>2, <2>1
  <2> QED  BY <1>2, <1>4, <2>1, <2>2, <2>3, FoundAt
<1>9. Find(s, <<Hash>>, n + 3) = n + k + 4
  <2>1. PICK f \in Nat \ {0} : f = n + 3
    BY <1>2
  <2>1a. PICK g : g = n + k + 4
    OBVIOUS
  <2>2. \A i \in f..(g - 1) : s[i] # Hash
    <3> SUFFICES ASSUME NEW i \in f..(g - 1) PROVE s[i] # Hash
      OBVIOUS
    <3>1. i \in (n + 4)..(n + k + 3) \/ i = n + 3
      BY SMTT(60), <1>2, <2>1, <2>1a
    <3> QED  BY <1>2, <1>4, <1>5, <3>1
  <2>3. g \in f..Len(s) /\ s[g] = Hash
    BY <1>2, <2>1, <2>1a
  <2> QED  BY <1>2, <1>4, <2>1, <2>1a, <2>2, <2>3, FoundAt
<1> QED  BY <1>1, <1>6, <1>7, <1>8, <1>9

\* The parts of such a name.
LEMMA LaidParts ==
    ASSUME NEW s, NEW A, NEW m, NEW w, NEW R, Laid(s, A, m, w, R)
    PROVE  /\ SubSeq(s, 1, Len(A)) = A
           /\ SubSeq(s, Len(A) + 4, Len(A) + Len(w) + 3) = w
           /\ SubSeq(s, Len(A) + Len(w) + 5, Len(s)) = R
<1>1. PICK n, k, r : n = Len(A) /\ k = Len(w) /\ r = Len(R)
  OBVIOUS
<1>2. /\ s \in Seq(Tokens) /\ n \in Nat /\ k \in Nat /\ r \in Nat /\ Len(s) = n + k + 4 + r
      /\ A \in Seq(Tokens) /\ R \in Seq(Tokens)
  BY <1>1 DEF Laid, Words
<1>3. w \in Seq(Tokens)
  BY Distinct, SeqMonotonic DEF Laid
<1>4. SubSeq(s, 1, n) = A
  <2>1. \A i \in 1..Len(A) : s[0 + i] = A[i]
    BY <1>1, <1>2 DEF Laid
  <2>2. 0 + Len(A) = n /\ n <= Len(s) /\ 0 + 1 = 1
    BY <1>1, <1>2
  <2>3. SubSeq(s, 0 + 1, n) = A
    BY <1>2, <2>1, <2>2, PartEquals
  <2> QED  BY <2>2, <2>3
<1>5. SubSeq(s, n + 4, n + k + 3) = w
  <2>1. PICK x \in Nat, y \in Nat : x = n + 3 /\ y = n + k + 3
    BY <1>2
  <2>2. \A i \in 1..Len(w) : s[x + i] = w[i]
    BY <1>1, <2>1 DEF Laid
  <2>3. x + Len(w) = y /\ y <= Len(s) /\ x + 1 = n + 4
    BY <1>1, <1>2, <2>1
  <2>4. SubSeq(s, x + 1, y) = w
    BY <1>2, <1>3, <2>2, <2>3, PartEquals
  <2> QED  BY <2>1, <2>3, <2>4
<1>6. SubSeq(s, n + k + 5, Len(s)) = R
  <2>1. PICK x \in Nat, y \in Nat : x = n + k + 4 /\ y = Len(s)
    BY <1>2
  <2>2. \A i \in 1..Len(R) : s[x + i] = R[i]
    BY <1>1, <2>1 DEF Laid
  <2>3. x + Len(R) = y /\ y <= Len(s) /\ x + 1 = n + k + 5
    BY <1>1, <1>2, <2>1
  <2>4. SubSeq(s, x + 1, y) = R
    BY <1>2, <2>2, <2>3, PartEquals
  <2> QED  BY <2>1, <2>3, <2>4
<1> QED  BY <1>1, <1>4, <1>5, <1>6

\* ErasePair leaves a name without prefixes alone.
LEMMA BaseErased ==
    ASSUME NEW b \in BaseNames
    PROVE  ErasePair(b) = b
<1>1. b \in Words /\ \A i \in 1..Len(b) : b[i] # Hash
  BY BaseIs
<1>2. PICK place : place = Find(b, <<Hash>>, 1)
  OBVIOUS
<1>3. \/ place = 0 /\ \A i \in 1..Len(b) : b[i] # Hash
      \/ /\ place \in 1..Len(b) /\ b[place] = Hash
         /\ \A i \in 1..(place - 1) : b[i] # Hash
  BY <1>1, <1>2, Distinct, FindOne
<1>4. place = 0
  BY <1>1, <1>3
<1> QED  BY <1>2, <1>4 DEF ErasePair

\* It takes the first prefix away.
LEMMA Erased ==
    ASSUME NEW p \in Puts, NEW v \in Seq(Puts), NEW b \in BaseNames
    PROVE  ErasePair(Show(<<p>> \o v) \o b) = Show(v) \o b
<1>2. PICK s : s = Show(<<p>> \o v) \o b
  OBVIOUS
<1>3. PICK e \in Seq(Puts) : e = <<>>
  BY EmptySeq
<1>4. e \o <<p>> = <<p>> /\ Show(e) = <<>>
  <2>1. <<p>> \in Seq(Puts)
    OBVIOUS
  <2> QED  BY <1>3, <2>1, ConcatEmptySeq DEF Show, Each, FlattenSeq
<1>5. s = Show(e \o <<p>> \o v) \o b
  BY <1>2, <1>4
<1>6. PICK w \in Seq(InnerTokens) : Laid(s, Show(e), p.module, w, Show(v) \o b)
  BY <1>5, Layout
<1>7. PICK m \in Modules : m = p.module
  BY DEF Puts
<1>7a. PICK R, k : R = Show(v) \o b /\ k = Len(w)
  OBVIOUS
<1>8. Laid(s, <<>>, m, w, R) /\ Len(<<>>) = 0
  BY <1>4, <1>6, <1>7, <1>7a, EmptySeq
<1>9. /\ s \in Words /\ k \in Nat /\ Len(R) \in Nat /\ Len(s) = k + 4 + Len(R)
      /\ s[1] = Hash /\ s[2] = m
  BY <1>7, <1>7a, <1>8 DEF Laid
<1>10. Find(s, <<Hash>>, 3) = k + 4
  <2>1. PICK E : E = <<>>
    OBVIOUS
  <2>2. Laid(s, E, m, w, R) /\ Len(E) = 0 /\ \A i \in 1..Len(E) : E[i] # m
    BY <1>8, <2>1
  <2>3. Find(s, <<Hash>>, Len(E) + 3) = Len(E) + Len(w) + 4
    <3>1. Laid(s, E, m, w, R)
      BY <2>2
    <3>2. \A i \in 1..Len(E) : E[i] # m
      BY <2>2
    <3> QED  BY ZenonT(60), <3>1, <3>2, LaidFound
  <2>4. Len(E) + 3 = 3 /\ Len(E) + Len(w) + 4 = k + 4
    BY <1>7, <1>7a, <1>9, <2>2
  <2> QED  BY <2>3, <2>4
<1>11. Find(s, <<Hash>>, 1) = 1
  <2>1. 1 \in 1..Len(s) /\ \A i \in 1..(1 - 1) : s[i] # Hash
    BY <1>9
  <2> QED  BY <1>9, <2>1, Distinct, FoundAt
<1>12. Find(s, <<Hash>>, 2) = k + 4
  <2>1. PICK place : place = Find(s, <<Hash>>, 3)
    OBVIOUS
  <2>2. \/ place = 0 /\ \A i \in 3..Len(s) : s[i] # Hash
        \/ /\ place \in 3..Len(s) /\ s[place] = Hash
           /\ \A i \in 3..(place - 1) : s[i] # Hash
    <3>1. PICK f \in Nat \ {0} : f = 3
      OBVIOUS
    <3>2. place = Find(s, <<Hash>>, f) /\ s \in Words /\ Hash \in Tokens
      BY <1>9, <2>1, <3>1, Distinct
    <3> QED  BY SMTT(60), <3>1, <3>2, FindOne
  <2>3. place = k + 4 /\ s[place] = Hash /\ \A i \in 3..(place - 1) : s[i] # Hash
    BY SMTT(60), <1>9, <1>10, <2>1, <2>2
  <2>4. \A i \in 2..(place - 1) : s[i] # Hash
    <3> SUFFICES ASSUME NEW i \in 2..(place - 1) PROVE s[i] # Hash
      OBVIOUS
    <3>1. i = 2 \/ i \in 3..(place - 1)
      OBVIOUS
    <3> QED  BY <1>9, <2>3, <3>1, Distinct
  <2>5. place \in 2..Len(s)
    BY <1>9, <2>3
  <2> QED  BY SMTT(60), <1>9, <2>3, <2>4, <2>5, Distinct, FoundAt
<1>13. SubSeq(s, k + 5, Len(s)) = R
  <2>1. PICK E : E = <<>>
    OBVIOUS
  <2>2. Laid(s, E, m, w, R) /\ Len(E) = 0
    BY <1>8, <2>1
  <2>3. SubSeq(s, Len(E) + Len(w) + 5, Len(s)) = R
    BY <2>2, LaidParts
  <2>4. Len(E) + Len(w) + 5 = k + 5
    BY <1>7, <1>7a, <1>9, <2>2
  <2> QED  BY <2>3, <2>4
<1>14. SubSeq(s, 1, 1 - 1) = <<>>
  <2>1. SubSeq(s, 1, Len(<<>>)) = <<>>
    BY <1>8, LaidParts
  <2>2. Len(<<>>) = 1 - 1
    BY <1>8
  <2> QED  BY <2>1, <2>2
<1>15. ErasePair(s) = <<>> \o R
  <2>1. (k + 4) + 1 = k + 5 /\ k + 4 # 0 /\ 1 + 1 = 2
    BY <1>9
  <2>2. ErasePair(s) = SubSeq(s, 1, 1 - 1) \o SubSeq(s, (k + 4) + 1, Len(s))
    BY <1>11, <1>12, <2>1 DEF ErasePair
  <2> QED  BY <1>13, <1>14, <2>1, <2>2
<1>16. <<>> \o R = R
  BY <1>8, ConcatEmptySeq DEF Laid, Words
<1> QED  BY <1>2, <1>7, <1>7a, <1>15, <1>16

\* No token comes more often than there are tokens.
LEMMA CountBound ==
    ASSUME NEW s \in Words, NEW c
    PROVE  CountOf(s, c) <= Len(s) /\ CountOf(s, c) \in Nat /\ Len(s) \in Nat
<1>1. PICK n \in Nat : n = Len(s)
  BY LenProperties DEF Words
<1>2. DOMAIN s = 1..n
  BY <1>1, LenProperties DEF Words
<1>3. PICK I \in SUBSET (1..n) : I = {i \in 1..n : s[i] = c}
  OBVIOUS
<1>4. IsFiniteSet(1..n) /\ Cardinality(1..n) = n
  BY FS_Interval
<1>5. IsFiniteSet(I) /\ Cardinality(I) <= n /\ Cardinality(I) \in Nat
  BY <1>4, FS_Subset, FS_CardinalityType
<1>6. CountOf(s, c) = Cardinality(I)
  BY <1>2, <1>3 DEF CountOf
<1> QED  BY <1>1, <1>5, <1>6

\* What is left of a name when n prefixes have been taken away.
Left(ps, n) == SubSeq(ps, n + 1, Len(ps))
Rest(ps, b, n) == IF n <= Len(ps) THEN Show(Left(ps, n)) \o b ELSE b

\* Taking one prefix more away.
LEMMA LeftIs ==
    ASSUME NEW ps \in Seq(Puts), NEW n \in Nat, n < Len(ps)
    PROVE  Left(ps, n) = <<ps[n + 1]>> \o Left(ps, n + 1) /\ Left(ps, n + 1) \in Seq(Puts)
           /\ ps[n + 1] \in Puts
<1>1. PICK k \in Nat : k = Len(ps)
  BY LenProperties
<1>1a. PICK p : p = ps[n + 1]
  OBVIOUS
<1>2. p \in Puts /\ n + 1 \in 1..k
  <2>1. n + 1 \in 1..Len(ps)
    BY <1>1, <1>1a
  <2> QED  BY <1>1, <1>1a, <2>1, ElementOfSeq
<1>3. PICK u, v : u = Left(ps, n) /\ v = Left(ps, n + 1)
  OBVIOUS
<1>4. u \in Seq(Puts) /\ Len(u) = k - n /\ \A i \in 1..(k - n) : u[i] = ps[n + i]
  <2>1. PICK o \in Nat : o = n + 1
    OBVIOUS
  <2>2. 1 <= o /\ o <= k + 1 /\ k <= Len(ps) /\ k - o + 1 = k - n
    BY <1>1, <1>1a, <2>1
  <2>3. /\ SubSeq(ps, o, k) \in Seq(Puts) /\ Len(SubSeq(ps, o, k)) = k - o + 1
        /\ \A i \in 1..(k - o + 1) : SubSeq(ps, o, k)[i] = ps[o + i - 1]
    BY <2>2, PartIs
  <2>4. \A i \in 1..(k - n) : o + i - 1 = n + i
    BY <2>1
  <2> QED  BY <1>1, <1>1a, <1>3, <2>1, <2>2, <2>3, <2>4 DEF Left
<1>5. v \in Seq(Puts) /\ Len(v) = k - n - 1 /\ \A i \in 1..(k - n - 1) : v[i] = ps[n + 1 + i]
  <2>1. PICK o \in Nat : o = n + 2 /\ o = (n + 1) + 1
    OBVIOUS
  <2>2. 1 <= o /\ o <= k + 1 /\ k <= Len(ps) /\ k - o + 1 = k - n - 1
    BY <1>1, <1>1a, <2>1
  <2>3. /\ SubSeq(ps, o, k) \in Seq(Puts) /\ Len(SubSeq(ps, o, k)) = k - o + 1
        /\ \A i \in 1..(k - o + 1) : SubSeq(ps, o, k)[i] = ps[o + i - 1]
    BY <2>2, PartIs
  <2>4. \A i \in 1..(k - n - 1) : o + i - 1 = n + 1 + i
    BY <2>1
  <2> QED  BY <1>1, <1>1a, <1>3, <2>1, <2>2, <2>3, <2>4 DEF Left
<1>6. PICK q, w : q = <<p>> /\ w = q \o v
  OBVIOUS
<1>7. q \in Seq(Puts) /\ Len(q) = 1 /\ q[1] = p
  BY <1>2, <1>6
<1>8. /\ w \in Seq(Puts) /\ Len(w) = Len(q) + Len(v)
      /\ \A i \in 1..Len(q) : w[i] = q[i]
      /\ \A i \in 1..Len(v) : w[Len(q) + i] = v[i]
  BY <1>5, <1>6, <1>7, Joined
<1>9. Len(w) = Len(u)
  BY <1>1, <1>1a, <1>4, <1>5, <1>7, <1>8
<1>10. \A i \in 1..Len(u) : u[i] = w[i]
  <2> SUFFICES ASSUME NEW i \in 1..Len(u) PROVE u[i] = w[i]
    OBVIOUS
  <2>1. i \in 1..(k - n)
    BY <1>4
  <2>2. CASE i = 1
    <3>1. w[1] = p /\ u[1] = ps[n + 1]
      BY <1>4, <1>7, <1>8, <2>1, <2>2
    <3> QED  BY <1>1, <1>1a, <2>2, <3>1
  <2>3. CASE i # 1
    <3>1. PICK j : j = i - 1
      OBVIOUS
    <3>2. j \in 1..(k - n - 1) /\ j \in 1..Len(v) /\ i = Len(q) + j /\ n + i = n + 1 + j
      BY <1>1, <1>1a, <1>5, <1>7, <2>1, <2>3, <3>1
    <3>3. w[i] = v[j] /\ v[j] = ps[n + 1 + j] /\ u[i] = ps[n + i]
      BY <1>4, <1>5, <1>8, <2>1, <3>2
    <3> QED  BY <3>2, <3>3
  <2> QED  BY <2>2, <2>3
<1>11. u = w
  BY <1>4, <1>8, <1>9, <1>10, SeqEqual
<1> QED  BY <1>1, <1>1a, <1>2, <1>3, <1>5, <1>6, <1>11

\* Each round of get_nonprefixed takes one prefix away and changes a name
\* without prefixes no more.
LEMMA RestIs ==
    ASSUME NEW ps \in Seq(Puts), NEW b \in BaseNames
    PROVE  /\ Rest(ps, b, 0) = Show(ps) \o b
           /\ \A n \in Nat : ErasePair(Rest(ps, b, n)) = Rest(ps, b, n + 1)
           /\ \A n \in Nat : n >= Len(ps) => Rest(ps, b, n) = b
<1>1. Len(ps) \in Nat
  BY LenProperties
<1>2. Rest(ps, b, 0) = Show(ps) \o b
  <2>1. SubSeq(ps, 0 + 1, Len(ps)) = ps
    <3>1. 0 + Len(ps) = Len(ps) /\ \A i \in 1..Len(ps) : ps[0 + i] = ps[i]
      BY <1>1
    <3> QED  BY <1>1, <3>1, PartEquals
  <2>2. Left(ps, 0) = ps /\ 0 <= Len(ps)
    BY <1>1, <2>1 DEF Left
  <2> QED  BY <2>2 DEF Rest
<1>3. ASSUME NEW n \in Nat, n >= Len(ps) PROVE Rest(ps, b, n) = b
  <2>1. CASE n > Len(ps)
    BY <1>1, <2>1 DEF Rest
  <2>2. CASE n = Len(ps)
    <3>1. PICK e : e = SubSeq(ps, n + 1, n)
      OBVIOUS
    <3>2. PICK o \in Nat : o = n + 1
      OBVIOUS
    <3>3. 1 <= o /\ o <= n + 1 /\ n <= Len(ps) /\ n - o + 1 = 0
      BY <2>2, <3>2
    <3>4. e \in Seq(Puts) /\ Len(e) = n - o + 1
      BY <3>1, <3>2, <3>3, PartIs
    <3>5. e = <<>>
      BY <3>3, <3>4, EmptySeq
    <3>6. Show(<<>>) = <<>>
      BY DEF Show, Each, FlattenSeq
    <3>7. <<>> \o b = b
      BY BaseIs, ConcatEmptySeq DEF Words
    <3> QED  BY <1>1, <2>2, <3>1, <3>5, <3>6, <3>7 DEF Rest, Left
  <2> QED  BY <1>1, <1>3, <2>1, <2>2
<1>4. ASSUME NEW n \in Nat PROVE ErasePair(Rest(ps, b, n)) = Rest(ps, b, n + 1)
  <2>1. CASE n < Len(ps)
    <3>1. PICK p \in Puts, v \in Seq(Puts) : v = Left(ps, n + 1) /\ Left(ps, n) = <<p>> \o v
      BY <2>1, LeftIs
    <3>2. Rest(ps, b, n) = Show(<<p>> \o v) \o b /\ Rest(ps, b, n + 1) = Show(v) \o b
      BY SMTT(60), <1>1, <2>1, <3>1 DEF Rest
    <3> QED  BY <3>2, Erased
  <2>2. CASE n >= Len(ps)
    <3>1. Rest(ps, b, n) = b /\ Rest(ps, b, n + 1) = b
      BY <1>1, <1>3, <2>2
    <3>2. ErasePair(b) = b
      BY BaseErased
    <3> QED  BY <3>1, <3>2
  <2> QED  BY <1>1, <2>1, <2>2
<1> QED  BY <1>2, <1>3, <1>4

\* get_nonprefixed leaves the name without its prefixes.
LEMMA NonprefixedIs ==
    ASSUME NEW ps \in Seq(Puts), NEW b \in BaseNames, NEW s, s = Show(ps) \o b
    PROVE  GetNonprefixed(s) = b
<1>1. Len(s) \in Nat /\ Len(ps) \in Nat /\ Len(ps) <= Len(s)
  <2>1. /\ s \in Words /\ Len(ps) \in Nat
        /\ CountOf(s, Hyphen) \in Nat /\ CountOf(s, Hyphen) >= Len(ps)
    BY NameIs
  <2>2. CountOf(s, Hyphen) <= Len(s) /\ Len(s) \in Nat
    BY <2>1, CountBound
  <2> QED  BY <2>1, <2>2
<1> DEFINE IsLoop(g) == g = [n \in 0..Len(s) |-> IF n = 0 THEN s ELSE ErasePair(g[n - 1])]
<1>2. PICK g : g = CHOOSE h : IsLoop(h)
  OBVIOUS
<1>3. GetNonprefixed(s) = g[Len(s)]
  BY <1>2 DEF GetNonprefixed
<1>4. PICK k : k = [n \in 0..Len(s) |-> Rest(ps, b, n)]
  OBVIOUS
<1>5. IsLoop(k)
  <2>1. ASSUME NEW n \in 0..Len(s)
        PROVE  Rest(ps, b, n) = IF n = 0 THEN s ELSE ErasePair(k[n - 1])
    <3>1. CASE n = 0
      BY <3>1, RestIs
    <3>2. CASE n # 0
      <4>1. PICK m \in Nat : m = n - 1
        BY <3>2
      <4>2. k[n - 1] = Rest(ps, b, m) /\ m + 1 = n
        BY <1>1, <1>4, <3>2, <4>1
      <4>3. ErasePair(Rest(ps, b, m)) = Rest(ps, b, m + 1)
        BY RestIs
      <4> QED  BY <3>2, <4>2, <4>3
    <3> QED  BY <3>1, <3>2
  <2> QED  BY <1>4, <2>1
<1>6. IsLoop(g)
  BY <1>2, <1>5
<1> DEFINE T == {n \in Nat : n \in 0..Len(s) => g[n] = Rest(ps, b, n)}
<1>7. 0 \in T
  BY <1>1, <1>6, RestIs
<1>8. ASSUME NEW n \in Nat, n \in T
      PROVE  n + 1 \in T
  <2> SUFFICES ASSUME n + 1 \in 0..Len(s) PROVE g[n + 1] = Rest(ps, b, n + 1)
    OBVIOUS
  <2>1. n \in 0..Len(s) /\ n + 1 # 0 /\ (n + 1) - 1 = n
    BY <1>1
  <2>2. g[n + 1] = ErasePair(g[n])
    BY <1>6, <2>1
  <2>3. ErasePair(Rest(ps, b, n)) = Rest(ps, b, n + 1)
    BY RestIs
  <2> QED  BY <1>8, <2>1, <2>2, <2>3
<1>9. Nat \subseteq T
  <2> HIDE DEF T
  <2> QED  BY <1>7, <1>8, NumberInduction
<1>10. g[Len(s)] = Rest(ps, b, Len(s))
  <2>1. Len(s) \in T /\ Len(s) \in 0..Len(s)
    BY <1>1, <1>9
  <2> QED  BY <2>1
<1>11. Rest(ps, b, Len(s)) = b
  BY <1>1, RestIs
<1> QED  BY <1>3, <1>10, <1>11

-----------------------------------------------------------------------------
(* The functions of PrefixParser on a name *)

\* The prefixes u come before the outermost prefix of module m.
LEMMA ShowWithout ==
    ASSUME NEW u \in Seq(Puts), NEW m \in Modules, \A i \in 1..Len(u) : u[i].module # m
    PROVE  \A i \in 1..Len(Show(u)) : Show(u)[i] # m
<1>1. PICK C \in SUBSET Tokens : C = Tokens \ {m}
  OBVIOUS
<1>2. InnerTokens \subseteq C /\ Hash \in C
  BY <1>1, Distinct DEF InnerTokens
<1>3. \A i \in 1..Len(u) : u[i].module \in C
  <2>1. \A i \in 1..Len(u) : u[i] \in Puts
    BY ElementOfSeq
  <2> QED  BY <1>1, <2>1, Distinct DEF Puts
<1>4. Show(u) \in Seq(C)
  BY <1>2, <1>3, ShowTokens
<1> QED  BY <1>1, <1>4, ElementOfSeq

\* A component is its own basename.
LEMMA BasenameOfName ==
    ASSUME NEW s, Component(s)
    PROVE  StringBasename(s) = s
<1>1. s \in Words /\ s \in Seq(Tokens) /\ \A i \in 1..Len(s) : s[i] # Slash
  BY DEF Component, Words
<1>2. Len(s) \in Nat
  BY <1>1, LenProperties
<1>3. \/ LastSlash(s) = 0 /\ \A i \in 1..Len(s) : s[i] # Slash
      \/ /\ LastSlash(s) \in 1..Len(s) /\ s[LastSlash(s)] = Slash
         /\ \A i \in 1..Len(s) : s[i] = Slash => i <= LastSlash(s)
  BY <1>1, LastSlashIs
<1>4. LastSlash(s) = 0
  BY <1>1, <1>3
<1>5. SubSeq(s, 0 + 1, Len(s)) = s
  <2>1. 0 + Len(s) = Len(s) /\ \A i \in 1..Len(s) : s[0 + i] = s[i]
    BY <1>2
  <2> QED  BY <1>1, <1>2, <2>1, PartEquals
<1> QED  BY <1>4, <1>5 DEF StringBasename

\* is_prefixed.
LEMMA PrefixedIs ==
    ASSUME NEW ps \in Seq(Puts), NEW b \in BaseNames, NEW q,
           StringBasename(q) = Show(ps) \o b
    PROVE  IsPrefixed(q) <=> ps # <<>>
<1>1. PICK s, n, h, y : /\ s = Show(ps) \o b /\ n = Len(ps)
                        /\ h = CountOf(s, Hash) /\ y = CountOf(s, Hyphen)
  OBVIOUS
<1>2. n \in Nat /\ h = 2 * n /\ y \in Nat /\ y >= n
  BY <1>1, NameIs
<1>3. h % 2 = 0 /\ h \div 2 = n /\ (h > 0 <=> n # 0)
  BY <1>2
<1>4. n # 0 <=> ps # <<>>
  BY <1>1, EmptySeq
<1>5. IsPrefixed(q) <=> h > 0 /\ h % 2 = 0 /\ y >= h \div 2
  BY <1>1 DEF IsPrefixed
<1> QED  BY <1>2, <1>3, <1>4, <1>5

\* args_from_prefix.
LEMMA ArgsFromIs ==
    ASSUME NEW ps \in Seq(Puts), NEW b \in BaseNames, NEW q,
           StringBasename(q) = Show(ps) \o b, NEW m \in Modules
    PROVE  ArgsFromPrefix(q, m) = IF OfModule(ps, m) = 0 THEN <<>>
                                  ELSE ps[OfModule(ps, m)].args
<1>1. PICK s : s = Show(ps) \o b
  OBVIOUS
<1>2. CASE OfModule(ps, m) = 0 /\ \A i \in 1..Len(ps) : ps[i].module # m
  <2>1. Find(s, <<Hash, m, Hyphen>>, 1) = 0
    BY <1>1, <1>2, NothingFound
  <2> QED  BY <1>1, <1>2, <2>1 DEF ArgsFromPrefix
<1>3. CASE \E u \in Seq(Puts), p \in Puts, v \in Seq(Puts) : IsOutermost(ps, m, u, p, v)
  <2>0. PICK u \in Seq(Puts), p \in Puts, v \in Seq(Puts) : IsOutermost(ps, m, u, p, v)
    BY <1>3
  <2>1. s = Show(u \o <<p>> \o v) \o b
    BY <1>1, <2>0 DEF IsOutermost
  <2>2. PICK w \in Seq(InnerTokens) : /\ SplitAtHyphens(w) = p.args
                                      /\ Laid(s, Show(u), p.module, w, Show(v) \o b)
    BY <2>1, Layout
  <2>3. PICK A, R : A = Show(u) /\ R = Show(v) \o b
    OBVIOUS
  <2>4. Laid(s, A, m, w, R)
    BY <2>0, <2>2, <2>3 DEF IsOutermost
  <2>5. \A i \in 1..Len(A) : A[i] # m
    BY <2>0, <2>3, ShowWithout DEF IsOutermost
  <2>6. PICK n, k : n = Len(A) /\ k = Len(w)
    OBVIOUS
  <2>7. n \in Nat /\ k \in Nat
    BY <2>4, <2>6 DEF Laid
  <2>8. Find(s, <<Hash, m, Hyphen>>, 1) = n + 1 /\ Find(s, <<Hash>>, n + 4) = n + k + 4
    BY ZenonT(60), <2>4, <2>5, <2>6, LaidFound
  <2>9. SubSeq(s, n + 4, n + k + 3) = w
    BY <2>4, <2>6, LaidParts
  <2>10. n + 1 # 0 /\ n + k + 4 # 0 /\ (n + 1) + 3 = n + 4 /\ (n + k + 4) - 1 = n + k + 3
    BY <2>7
  <2>11. ArgsFromPrefix(q, m) = SplitAtHyphens(SubSeq(s, n + 4, n + k + 3))
    BY <1>1, <2>8, <2>10 DEF ArgsFromPrefix
  <2> QED  BY <2>0, <2>2, <2>9, <2>11 DEF IsOutermost
<1> QED  BY <1>2, <1>3, OutermostIs

\* contains_prefix.
LEMMA ContainsIs ==
    ASSUME NEW ps \in Seq(Puts), NEW b \in BaseNames, NEW q,
           StringBasename(q) = Show(ps) \o b, NEW m \in Modules
    PROVE  ContainsPrefix(q, m) <=> OfModule(ps, m) # 0
<1>1. PICK s : s = Show(ps) \o b
  OBVIOUS
<1>2. CASE OfModule(ps, m) = 0 /\ \A i \in 1..Len(ps) : ps[i].module # m
  <2>1. Find(s, <<Hash, m, Hyphen>>, 1) = 0 /\ Find(s, <<Hash, m, Hash>>, 1) = 0
    BY <1>1, <1>2, NothingFound
  <2> QED  BY <1>1, <1>2, <2>1 DEF ContainsPrefix
<1>3. CASE \E u \in Seq(Puts), p \in Puts, v \in Seq(Puts) : IsOutermost(ps, m, u, p, v)
  <2>0. PICK u \in Seq(Puts), p \in Puts, v \in Seq(Puts) : IsOutermost(ps, m, u, p, v)
    BY <1>3
  <2>1. s = Show(u \o <<p>> \o v) \o b
    BY <1>1, <2>0 DEF IsOutermost
  <2>2. PICK w \in Seq(InnerTokens) : Laid(s, Show(u), p.module, w, Show(v) \o b)
    BY <2>1, Layout
  <2>3. PICK A, R : A = Show(u) /\ R = Show(v) \o b
    OBVIOUS
  <2>4. Laid(s, A, m, w, R)
    BY <2>0, <2>2, <2>3 DEF IsOutermost
  <2>5. \A i \in 1..Len(A) : A[i] # m
    BY <2>0, <2>3, ShowWithout DEF IsOutermost
  <2>6. Len(A) \in Nat
    BY <2>4 DEF Laid
  <2>7. Find(s, <<Hash, m, Hyphen>>, 1) = Len(A) + 1
    BY <2>4, <2>5, LaidFound
  <2>8. ps # <<>>
    <3>1. PICK o : o = <<p>>
      OBVIOUS
    <3>2. o \in Seq(Puts) /\ Len(o) = 1
      BY <3>1
    <3>3. Len(ps) = Len(u) + Len(o) + Len(v) /\ Len(u) \in Nat /\ Len(v) \in Nat
      BY <2>0, <3>1, <3>2, Joined3 DEF IsOutermost
    <3>4. Len(ps) # 0
      BY <3>2, <3>3
    <3> QED  BY <3>4, EmptySeq
  <2>9. IsPrefixed(q)
    BY <2>8, PrefixedIs
  <2> QED  BY <1>1, <2>0, <2>6, <2>7, <2>9 DEF ContainsPrefix, IsOutermost
<1> QED  BY <1>2, <1>3, OutermostIs

\* remove_specific_prefix.
LEMMA RemoveIs ==
    ASSUME NEW ps \in Seq(Puts), NEW b \in BaseNames, NEW P, Place(P),
           NEW m \in Modules, OfModule(ps, m) # 0
    PROVE  /\ WithoutModule(ps, m) \in Seq(Puts)
           /\ RemoveSpecificPrefix(P \o Root \o (Show(ps) \o b), m)
                = P \o Root \o (Show(WithoutModule(ps, m)) \o b)
<1>1. PICK s, q : s = Show(ps) \o b /\ q = P \o Root \o s
  OBVIOUS
<1>2. Component(s) /\ s \in Words /\ Len(s) \in Nat
  BY <1>1, NameIs, LenProperties DEF Words
<1>3. StringBasename(q) = s /\ Normalize(q) = q /\ Parent(q) = AsPath(P)
  BY <1>1, <1>2, PathParts
<1>4. /\ RemoveSpecificPrefix(q, m) = P \o Root \o (Show(WithoutModule(ps, m)) \o b)
      /\ WithoutModule(ps, m) \in Seq(Puts)
  <2>0. PICK u \in Seq(Puts), p \in Puts, v \in Seq(Puts) : IsOutermost(ps, m, u, p, v)
    BY OutermostIs
  <2>1. s = Show(u \o <<p>> \o v) \o b
    BY <1>1, <2>0 DEF IsOutermost
  <2>2. PICK w \in Seq(InnerTokens) : /\ Laid(s, Show(u), p.module, w, Show(v) \o b)
                                      /\ Show(u \o v) \o b = Show(u) \o (Show(v) \o b)
    BY <2>1, Layout
  <2>3. PICK A, R : A = Show(u) /\ R = Show(v) \o b
    OBVIOUS
  <2>4. Laid(s, A, m, w, R)
    BY <2>0, <2>2, <2>3 DEF IsOutermost
  <2>5. \A i \in 1..Len(A) : A[i] # m
    BY <2>0, <2>3, ShowWithout DEF IsOutermost
  <2>6. PICK n, k : n = Len(A) /\ k = Len(w)
    OBVIOUS
  <2>7. n \in Nat /\ k \in Nat
    BY <2>4, <2>6 DEF Laid
  <2>8. Find(s, <<m>>, 1) = n + 2 /\ Find(s, <<Hash>>, n + 3) = n + k + 4
    BY ZenonT(60), <2>4, <2>5, <2>6, LaidFound
  <2>9. SubSeq(s, 1, n) = A /\ SubSeq(s, n + k + 5, Len(s)) = R
    BY <2>4, <2>6, LaidParts
  <2>10. /\ n + 2 # 0 /\ n + 2 # 1 /\ (n + 2) + 1 = n + 3 /\ (n + 2) - 2 = n
         /\ (n + k + 4) + 1 = n + k + 5
    BY <2>7
  <2>11. RemoveSpecificPrefix(q, m) = SlashedString(AsPath(P), A \o R)
    BY <1>3, <2>8, <2>9, <2>10 DEF RemoveSpecificPrefix
  <2>12. u \o v \in Seq(Puts)
    BY ShowJoined
  <2>13. A \o R = Show(u \o v) \o b
    BY <2>2, <2>3
  <2>14. Component(A \o R)
    BY <2>12, <2>13, NameIs
  <2>15. SlashedString(AsPath(P), A \o R) = P \o Root \o (A \o R)
    BY <2>14, Slashing
  <2> QED  BY <2>0, <2>11, <2>12, <2>13, <2>15 DEF IsOutermost
<1> QED  BY <1>1, <1>4

\* apply_prefix.
LEMMA ApplyIs ==
    ASSUME NEW ps \in Seq(Puts), NEW b \in BaseNames, NEW P, Place(P),
           NEW p \in Puts
    PROVE  /\ <<p>> \o ps \in Seq(Puts)
           /\ ApplyPrefix(P \o Root \o (Show(ps) \o b), p.module, p.args)
                = P \o Root \o (Show(<<p>> \o ps) \o b)
<1>1. PICK s, q : s = Show(ps) \o b /\ q = P \o Root \o s
  OBVIOUS
<1>2. Component(s) /\ s \in Words
  BY <1>1, NameIs
<1>3. StringBasename(q) = s /\ Normalize(q) = q /\ Parent(q) = AsPath(P)
  BY <1>1, <1>2, PathParts
<1>4. ApplyPrefix(q, p.module, p.args) = SlashedString(AsPath(P), Shown(p) \o s)
  BY <1>3 DEF ApplyPrefix, Shown
<1>5. /\ <<p>> \o ps \in Seq(Puts) /\ Show(<<p>> \o ps) = Shown(p) \o Show(ps)
      /\ Shown(p) \in Words /\ Show(ps) \in Words
  <2>1. PICK o : o = <<p>>
    OBVIOUS
  <2>2. o \in Seq(Puts) /\ Show(o) = Shown(p)
    BY <2>1, ShowAppend
  <2>3. o \o ps \in Seq(Puts) /\ Show(o \o ps) = Show(o) \o Show(ps) /\ Show(ps) \in Words /\ Show(o) \in Words
    BY <2>2, ShowJoined
  <2> QED  BY <2>1, <2>2, <2>3
<1>6. Shown(p) \o s = Show(<<p>> \o ps) \o b
  <2>1. b \in Words
    BY BaseIs
  <2>2. (Shown(p) \o Show(ps)) \o b = Shown(p) \o (Show(ps) \o b)
    BY <1>5, <2>1, WordsJoined3
  <2> QED  BY <1>1, <1>5, <2>2
<1>7. Component(Show(<<p>> \o ps) \o b)
  BY <1>5, NameIs
<1> QED  BY <1>1, <1>4, <1>5, <1>6, <1>7, Slashing

-----------------------------------------------------------------------------
(* What a name stands for *)

\* The components of a path, and the names they stand for one below the other.
Parts == [base : BaseNames, prefixes : Seq(Puts)]
DownBy == [x \in Parts |-> Root \o ShownPart(x)]
Down(xs) == FlattenSeq(Each(DownBy, xs))

\* A component, as ShownPart and as the lemmas have it.
LEMMA ShownPartIs ==
    ASSUME NEW x \in Parts
    PROVE  /\ x.base \in BaseNames /\ x.prefixes \in Seq(Puts)
           /\ ShownPart(x) = Show(x.prefixes) \o x.base
           /\ ShownPart(x) \in Words /\ Component(ShownPart(x))
<1>1. x.base \in BaseNames /\ x.prefixes \in Seq(Puts)
  BY DEF Parts
<1>2. ShownPart(x) = Show(x.prefixes) \o x.base
  BY <1>1, ShowIs DEF ShownPart
<1> QED  BY <1>1, <1>2, NameIs

\* A path that grows by a component.
LEMMA DownAppend ==
    ASSUME NEW xs \in Seq(Parts), NEW x \in Parts
    PROVE  /\ Down(<<>>) = <<>> /\ Down(xs) \in Words
           /\ Append(xs, x) \in Seq(Parts)
           /\ Down(Append(xs, x)) = Down(xs) \o Root \o ShownPart(x)
<1>1. Maps(DownBy, Parts, Words)
  <2>1. ASSUME NEW y \in Parts PROVE Root \o ShownPart(y) \in Words
    BY ShownPartIs, RootIs, WordsJoined
  <2> QED  BY <2>1 DEF DownBy, Maps
<1>2. PICK d : d = Root \o ShownPart(x)
  OBVIOUS
<1>3. d \in Words /\ DownBy[x] = d
  BY <1>2, ShownPartIs, RootIs, WordsJoined DEF DownBy
<1>4. PICK e : e = Each(DownBy, xs)
  OBVIOUS
<1>5. /\ Each(DownBy, <<>>) = <<>> /\ e \in Texts
      /\ Append(xs, x) \in Seq(Parts) /\ Each(DownBy, Append(xs, x)) = Append(e, d)
  <2>1. /\ Each(DownBy, <<>>) = <<>> /\ Each(DownBy, xs) \in Seq(Words)
        /\ Append(xs, x) \in Seq(Parts)
        /\ Each(DownBy, Append(xs, x)) = Append(Each(DownBy, xs), DownBy[x])
    <3>1. /\ Each(DownBy, <<>>) = <<>> /\ Each(DownBy, xs) \in Seq(Words)
          /\ Append(xs, x) \in Seq(Parts)
          /\ Each(DownBy, Append(xs, x)) = Append(Each(DownBy, xs), DownBy[x])
          /\ <<x>> \in Seq(Parts) /\ Each(DownBy, <<x>>) = <<DownBy[x]>>
      BY <1>1, EachAppend
    <3> QED  BY <3>1
  <2> QED  BY <1>3, <1>4, <2>1 DEF Texts
<1>6. FlattenSeq(<<>>) = <<>> /\ FlattenSeq(e) \in Words /\ FlattenSeq(Append(e, d)) = FlattenSeq(e) \o d
  BY <1>3, <1>5, FlattenAppend
<1>7. FlattenSeq(e) \o (Root \o ShownPart(x)) = FlattenSeq(e) \o Root \o ShownPart(x)
  BY <1>6, ShownPartIs, RootIs, WordsJoined3
<1> QED  BY <1>2, <1>4, <1>5, <1>6, <1>7 DEF Down

\* It is the path of a directory or file.
LEMMA DownIs ==
    ASSUME NEW xs \in Seq(Parts)
    PROVE  /\ Place(Down(xs))
           /\ Down(xs) = <<>> <=> xs = <<>>
           /\ FlattenSeq([i \in DOMAIN xs |-> Root \o ShownPart(xs[i])]) = Down(xs)
<1> DEFINE T == {y \in Seq(Parts) : Place(Down(y)) /\ (Down(y) = <<>> <=> y = <<>>)}
<1>1. <<>> \in T
  <2>1. Down(<<>>) = <<>>
    BY DEF Down, Each, FlattenSeq
  <2> QED  BY <2>1, EmptySeq DEF Place, Words
<1>2. ASSUME NEW y \in Seq(Parts), NEW x \in Parts, y \in T
      PROVE  Append(y, x) \in T
  <2>1. PICK P, s, p : P = Down(y) /\ s = ShownPart(x) /\ p = P \o Root \o s
    OBVIOUS
  <2>2. Place(P) /\ Component(s)
    BY <1>2, <2>1, ShownPartIs
  <2>3. Place(p) /\ p # <<>>
    BY <2>1, <2>2, PathIs
  <2>4. Down(Append(y, x)) = p /\ Append(y, x) \in Seq(Parts)
    BY <2>1, DownAppend
  <2>5. Append(y, x) # <<>>
    <3>1. PICK q : q = Append(y, x)
      OBVIOUS
    <3>2. Len(q) = Len(y) + 1 /\ Len(y) \in Nat
      BY <3>1, AppendProperties, LenProperties
    <3>3. Len(q) # 0
      BY <3>2
    <3> QED  BY <3>1, <3>3, EmptySeq
  <2> QED  BY <2>3, <2>4, <2>5
<1>3. Seq(Parts) \subseteq T
  <2> HIDE DEF T
  <2> QED  BY <1>1, <1>2, SequenceInduction
<1>4. [i \in DOMAIN xs |-> Root \o ShownPart(xs[i])] = Each(DownBy, xs)
  <2>1. DOMAIN xs = 1..Len(xs) /\ \A i \in 1..Len(xs) : xs[i] \in Parts
    BY LenProperties, ElementOfSeq
  <2> QED  BY <2>1 DEF Each, DownBy
<1> QED  BY <1>3, <1>4 DEF Down

\* The last component of a path.
LEMMA LastIs ==
    ASSUME NEW xs \in Seq(Parts), NEW x \in Parts, NEW zs, zs = Append(xs, x)
    PROVE  zs # <<>> /\ Last(zs) = x /\ zs[Len(zs)] = x /\ Front(zs) = xs
<1>1. PICK n \in Nat : n = Len(xs)
  BY LenProperties
<1>2. /\ zs \in Seq(Parts) /\ Len(zs) = n + 1 /\ zs[n + 1] = x
      /\ \A i \in 1..n : zs[i] = xs[i]
  BY <1>1, AppendProperties
<1>3. zs # <<>>
  BY <1>2, EmptySeq
<1>4. Front(zs) = xs
  <2>1. \A i \in 1..Len(xs) : zs[0 + i] = xs[i]
    BY <1>1, <1>2
  <2>2. 0 + Len(xs) = n /\ n <= Len(zs) /\ 0 + 1 = 1 /\ Len(zs) - 1 = n
    BY <1>1, <1>2
  <2>3. SubSeq(zs, 0 + 1, n) = xs
    BY <1>2, <2>1, <2>2, PartEquals
  <2> QED  BY <2>2, <2>3 DEF Front
<1>5. Last(zs) = x /\ zs[Len(zs)] = x
  BY <1>2 DEF Last
<1> QED  BY <1>3, <1>4, <1>5

\* Another last component.
LEMMA LastChanged ==
    ASSUME NEW xs \in Seq(Parts), NEW x \in Parts, NEW y \in Parts,
           NEW zs, zs = Append(xs, x)
    PROVE  [zs EXCEPT ![Len(zs)] = y] = Append(xs, y)
<1>1. PICK n \in Nat : n = Len(xs)
  BY LenProperties
<1>2. /\ zs \in Seq(Parts) /\ Len(zs) = n + 1 /\ zs[n + 1] = x
      /\ \A i \in 1..n : zs[i] = xs[i]
  BY <1>1, AppendProperties
<1>5. [zs EXCEPT ![Len(zs)] = y] = Append(xs, y)
  <2>0. PICK k \in 1..Len(zs) : k = n + 1
    BY <1>2
  <2>2. PICK a, b : a = [zs EXCEPT ![k] = y] /\ b = Append(xs, y)
    OBVIOUS
  <2>1. b = Append(xs, y) /\ k = n + 1
    BY <2>0, <2>2
  <2>3. /\ a \in Seq(Parts) /\ Len(a) = n + 1
        /\ \A i \in 1..(n + 1) : a[i] = IF i = k THEN y ELSE zs[i]
    <3>1. zs \in Seq(Parts) /\ Len(zs) = n + 1
      BY <1>2
    <3>2. y \in Parts
      OBVIOUS
    <3>3. a = [zs EXCEPT ![k] = y]
      BY <2>2
    <3>4. k \in 1..Len(zs)
      OBVIOUS
    <3>5. zs \in [1..(n + 1) -> Parts]
      BY <3>1, LenProperties
    <3>6. /\ a \in [1..(n + 1) -> Parts]
          /\ \A i \in 1..(n + 1) : a[i] = IF i = k THEN y ELSE zs[i]
      BY <3>1, <3>3, <3>5
    <3>7. a \in Seq(Parts)
      BY <3>6, SeqDef
    <3>8. Len(a) = n + 1
      <4>1. DOMAIN a = 1..Len(a) /\ Len(a) \in Nat
        BY <3>7, LenProperties
      <4>2. DOMAIN a = 1..(n + 1)
        BY <3>6
      <4>7. PICK l \in Nat : l = Len(a)
        BY <4>1
      <4>8. PICK h \in Nat : h = n + 1
        OBVIOUS
      <4>3. l = Len(a) /\ h = n + 1
        BY <4>7, <4>8
      <4>4. 1..l = 1..h
        BY <4>1, <4>2, <4>3
      <4>5. h \in 1..h /\ (l = 0 \/ l \in 1..l)
        BY <4>3
      <4>6. h <= l /\ l <= h
        BY <4>4, <4>5
      <4> QED  BY <4>3, <4>6
    <3> QED  BY <3>6, <3>7, <3>8
  <2>4. /\ b \in Seq(Parts) /\ Len(b) = n + 1 /\ b[n + 1] = y
        /\ \A i \in 1..n : b[i] = xs[i]
    BY <1>1, <2>1, AppendProperties
  <2>5. \A i \in 1..Len(a) : a[i] = b[i]
    <3> SUFFICES ASSUME NEW i \in 1..(n + 1) PROVE a[i] = b[i]
      BY <2>3
    <3>1. CASE i = n + 1
      BY <2>1, <2>3, <2>4, <3>1
    <3>2. CASE i # n + 1
      <4>1. i \in 1..n
        BY <3>2
      <4> QED  BY <1>2, <2>1, <2>3, <2>4, <3>2, <4>1
    <3> QED  BY <3>1, <3>2
  <2>6. a = b
    BY <2>3, <2>4, <2>5, SeqEqual
  <2> QED  BY <1>2, <2>1, <2>2, <2>6
<1> QED  BY <1>5

-----------------------------------------------------------------------------
(* The invariant *)

\* Every component is a base name under prefixes that apply_prefix put
\* there, and the path the code built is the one they stand for.
NInv == parts \in Seq(Parts) /\ path = AsPath(Down(parts))

\* The invariant is the round trip, in the words of the lemmas.
LEMMA NInvRoundTrip == NInv => NamesRoundTrip
<1> SUFFICES ASSUME NInv PROVE NamesRoundTrip
  OBVIOUS
<1>1. /\ Place(Down(parts))
      /\ Down(parts) = <<>> <=> parts = <<>>
      /\ FlattenSeq([i \in DOMAIN parts |-> Root \o ShownPart(parts[i])]) = Down(parts)
  BY DownIs DEF NInv
<1> QED  BY <1>1 DEF NInv, NamesRoundTrip, Denoted, AsPath

\* A path with a last component, and its parts.
EndsIn(q, zs, xs, x, ps, b) ==
    /\ xs \in Seq(Parts) /\ x \in Parts /\ zs = Append(xs, x)
    /\ ps = x.prefixes /\ b = x.base /\ ps \in Seq(Puts) /\ b \in BaseNames
    /\ Place(Down(xs)) /\ q = Down(xs) \o Root \o (Show(ps) \o b)

\* A path that is not the root has a last component.
LEMMA HereIs ==
    ASSUME NInv, parts # <<>>
    PROVE  \E xs, x, ps, b : EndsIn(path, parts, xs, x, ps, b)
<1>1. PICK xs \in Seq(Parts), x \in Parts : parts = Append(xs, x)
  BY SequenceEmptyOrAppend DEF NInv
<1>2. PICK ps, b : ps = x.prefixes /\ b = x.base
  OBVIOUS
<1>3. ps \in Seq(Puts) /\ b \in BaseNames /\ ShownPart(x) = Show(ps) \o b
  BY <1>2, ShownPartIs
<1>4. Place(Down(xs)) /\ Down(parts) = Down(xs) \o Root \o ShownPart(x)
  BY <1>1, DownIs, DownAppend
<1>5. Down(parts) # <<>>
  BY DownIs DEF NInv
<1>6. EndsIn(path, parts, xs, x, ps, b)
  BY <1>1, <1>2, <1>3, <1>4, <1>5 DEF EndsIn, NInv, AsPath
<1> QED  BY <1>6

\* string_basename and parent take such a path apart.
LEMMA EndsInIs ==
    ASSUME NEW q, NEW zs, NEW xs, NEW x, NEW ps, NEW b, EndsIn(q, zs, xs, x, ps, b)
    PROVE  /\ zs # <<>> /\ Last(zs) = x /\ Front(zs) = xs
           /\ StringBasename(q) = Show(ps) \o b
           /\ StringBasename(StringBasename(q)) = Show(ps) \o b
           /\ Parent(q) = AsPath(Down(xs))
<1>1. zs # <<>> /\ Last(zs) = x /\ Front(zs) = xs
  BY LastIs DEF EndsIn
<1>2. PICK s : s = Show(ps) \o b
  OBVIOUS
<1>3. Component(s)
  BY <1>2, NameIs DEF EndsIn
<1>4. StringBasename(q) = s /\ Parent(q) = AsPath(Down(xs))
  BY <1>2, <1>3, PathParts DEF EndsIn
<1>5. StringBasename(s) = s
  BY <1>3, BasenameOfName
<1> QED  BY <1>1, <1>2, <1>4, <1>5

\* The root stands for no parts.
LEMMA NInvInit == Init => NInv
<1> SUFFICES ASSUME Init PROVE NInv
  OBVIOUS
<1>1. Down(<<>>) = <<>>
  BY DEF Down, Each, FlattenSeq
<1> QED  BY <1>1, EmptySeq DEF Init, NInv, AsPath

\* A path that ends in another component.
LEMMA NewLast ==
    ASSUME NEW xs \in Seq(Parts), NEW x \in Parts,
           parts' = Append(xs, x), path' = Down(xs) \o Root \o ShownPart(x)
    PROVE  NInv'
<1>1. /\ Append(xs, x) \in Seq(Parts)
      /\ Down(Append(xs, x)) = Down(xs) \o Root \o ShownPart(x)
  BY DownAppend
<1>2. Place(Down(xs)) /\ Component(ShownPart(x))
  BY DownIs, ShownPartIs
<1>3. Down(xs) \o Root \o ShownPart(x) # <<>>
  BY <1>2, PathIs
<1> QED  BY <1>1, <1>3 DEF NInv, AsPath

\* operator/ with the name of a file adds a component.
LEMMA NInvGoDown ==
    ASSUME NInv, NEW b \in BaseNames, GoDown(b)
    PROVE  NInv'
<1>1. PICK x : x = [base |-> b, prefixes |-> <<>>]
  OBVIOUS
<1>2. x \in Parts /\ x.base = b /\ x.prefixes = <<>>
  BY <1>1, EmptySeq DEF Parts
<1>3. ShownPart(x) = b /\ Component(b)
  <2>1. ShownPart(x) = Show(<<>>) \o b /\ Component(ShownPart(x))
    BY <1>2, ShownPartIs
  <2>2. Show(<<>>) = <<>>
    BY DEF Show, Each, FlattenSeq
  <2>3. <<>> \o b = b
    BY BaseIs, ConcatEmptySeq DEF Words
  <2> QED  BY <2>1, <2>2, <2>3
<1>4. parts \in Seq(Parts) /\ path = AsPath(Down(parts)) /\ Place(Down(parts))
  BY DownIs DEF NInv
<1>5. path' = Down(parts) \o Root \o ShownPart(x)
  BY <1>3, <1>4, Slashing DEF GoDown
<1>6. parts' = Append(parts, x)
  BY <1>1 DEF GoDown
<1> QED  BY <1>2, <1>4, <1>5, <1>6, NewLast

\* parent takes the last component away.
LEMMA NInvGoUp ==
    ASSUME NInv, GoUp
    PROVE  NInv'
<1>1. PICK xs, x, ps, b : EndsIn(path, parts, xs, x, ps, b)
  BY HereIs DEF GoUp
<1>2. Front(parts) = xs /\ Parent(path) = AsPath(Down(xs))
  BY <1>1, EndsInIs
<1>3. xs \in Seq(Parts)
  BY <1>1 DEF EndsIn
<1> QED  BY <1>2, <1>3 DEF GoUp, NInv

\* Other prefixes on the last component.
LEMMA NewPrefixes ==
    ASSUME NEW xs, NEW x, NEW ps, NEW b, EndsIn(path, parts, xs, x, ps, b),
           NEW us \in Seq(Puts),
           parts' = [parts EXCEPT ![Len(parts)].prefixes = us],
           path' = Down(xs) \o Root \o (Show(us) \o b)
    PROVE  NInv'
<1>1. xs \in Seq(Parts) /\ x \in Parts /\ b = x.base /\ b \in BaseNames /\ parts = Append(xs, x)
  BY DEF EndsIn
<1>2. PICK y : y = [x EXCEPT !.prefixes = us]
  OBVIOUS
<1>3. y \in Parts /\ y.base = b /\ y.prefixes = us
  BY <1>1, <1>2 DEF Parts
<1>4. parts[Len(parts)] = x
  BY <1>1, LastIs
<1>5. parts' = [parts EXCEPT ![Len(parts)] = y]
  BY <1>2, <1>4
<1>6. parts' = Append(xs, y)
  <2>1. PICK zs : zs = parts
    OBVIOUS
  <2>2. zs = Append(xs, x) /\ xs \in Seq(Parts) /\ x \in Parts
    BY <1>1, <2>1
  <2>3. [zs EXCEPT ![Len(zs)] = y] = Append(xs, y)
    BY <1>3, <2>2, LastChanged
  <2> QED  BY <1>5, <2>1, <2>3
<1>7. path' = Down(xs) \o Root \o ShownPart(y)
  BY <1>3, ShownPartIs
<1> QED  BY <1>1, <1>3, <1>6, <1>7, NewLast

\* apply_prefix puts a prefix before those of the last component.
LEMMA NInvApply ==
    ASSUME NInv, NEW m \in Modules, NEW args \in ArgLists, Apply(m, args)
    PROVE  NInv'
<1>1. PICK xs, x, ps, b : EndsIn(path, parts, xs, x, ps, b)
  BY HereIs DEF Apply
<1>2. PICK p : p = [module |-> m, args |-> args]
  OBVIOUS
<1>3. p \in Puts /\ p.module = m /\ p.args = args
  BY <1>2 DEF Puts
<1>4. PICK P : P = Down(xs)
  OBVIOUS
<1>5. Place(P) /\ ps \in Seq(Puts) /\ b \in BaseNames /\ path = P \o Root \o (Show(ps) \o b)
  BY <1>1, <1>4 DEF EndsIn
<1>6. /\ <<p>> \o ps \in Seq(Puts)
      /\ ApplyPrefix(P \o Root \o (Show(ps) \o b), p.module, p.args)
           = P \o Root \o (Show(<<p>> \o ps) \o b)
  BY SMTT(60), <1>3, <1>5, ApplyIs
<1>7. path' = Down(xs) \o Root \o (Show(<<p>> \o ps) \o b)
  BY <1>3, <1>4, <1>5, <1>6 DEF Apply
<1>8. parts' = [parts EXCEPT ![Len(parts)].prefixes = <<p>> \o ps]
  <2>1. parts[Len(parts)] = x /\ ps = x.prefixes
    BY <1>1, LastIs DEF EndsIn
  <2> QED  BY <1>2, <2>1 DEF Apply
<1> QED  BY <1>1, <1>6, <1>7, <1>8, NewPrefixes

\* The root has no prefix to remove.
LEMMA RootBare == ~ IsPrefixed(Root)
<1>1. /\ Root \in Words /\ Len(Root) = 1 /\ Root[1] = Slash
  BY RootIs
<1>2. PICK l : l = LastSlash(Root)
  OBVIOUS
<1>3. \/ l = 0 /\ \A i \in 1..Len(Root) : Root[i] # Slash
      \/ /\ l \in 1..Len(Root) /\ Root[l] = Slash
         /\ \A i \in 1..Len(Root) : Root[i] = Slash => i <= l
  BY <1>1, <1>2, LastSlashIs
<1>4. l = 1
  BY <1>1, <1>3
<1>5. StringBasename(Root) = <<>>
  <2>1. PICK o \in Nat : o = 2
    OBVIOUS
  <2>1a. PICK e : e = SubSeq(Root, o, 1)
    OBVIOUS
  <2>2. Root \in Seq(Tokens) /\ 1 <= o /\ o <= 1 + 1 /\ 1 <= Len(Root) /\ 1 - o + 1 = 0
    BY <1>1, <2>1, <2>1a DEF Words
  <2>3. e \in Seq(Tokens) /\ Len(e) = 1 - o + 1
    BY <2>1, <2>1a, <2>2, PartIs
  <2>4. e = <<>>
    BY <2>2, <2>3, EmptySeq
  <2> QED  BY <1>1, <1>2, <1>4, <2>1, <2>1a, <2>4 DEF StringBasename
<1>6. CountOf(<<>>, Hash) = 0
  BY CountAppend, Distinct, EmptySeq DEF Words
<1> QED  BY <1>5, <1>6 DEF IsPrefixed

\* remove_specific_prefix takes the outermost prefix of the module away.
LEMMA NInvRemove1 ==
    ASSUME NInv, NEW m \in Modules, Remove1(m)
    PROVE  NInv'
<1>1. parts # <<>>
  <2> SUFFICES ASSUME parts = <<>> PROVE FALSE
    OBVIOUS
  <2>1. path = Root
    BY DownIs DEF NInv, AsPath
  <2> QED  BY <2>1, RootBare DEF Remove1, ContainsPrefix
<1>2. PICK xs, x, ps, b : EndsIn(path, parts, xs, x, ps, b)
  BY <1>1, HereIs
<1>3. PICK P : P = Down(xs)
  OBVIOUS
<1>4. Place(P) /\ ps \in Seq(Puts) /\ b \in BaseNames /\ path = P \o Root \o (Show(ps) \o b)
  BY <1>2, <1>3 DEF EndsIn
<1>5. StringBasename(path) = Show(ps) \o b
  BY <1>2, EndsInIs
<1>6. OfModule(ps, m) # 0
  BY <1>4, <1>5, ContainsIs DEF Remove1
<1>7. /\ WithoutModule(ps, m) \in Seq(Puts)
      /\ RemoveSpecificPrefix(P \o Root \o (Show(ps) \o b), m)
           = P \o Root \o (Show(WithoutModule(ps, m)) \o b)
  BY <1>4, <1>6, RemoveIs
<1>8. path' = Down(xs) \o Root \o (Show(WithoutModule(ps, m)) \o b)
  BY <1>3, <1>4, <1>7 DEF Remove1
<1>9. parts' = [parts EXCEPT ![Len(parts)].prefixes = WithoutModule(ps, m)]
  <2>1. parts[Len(parts)] = x /\ ps = x.prefixes
    BY <1>2, LastIs DEF EndsIn
  <2> QED  BY <2>1 DEF Remove1, WithoutModule
<1> QED  BY <1>2, <1>7, <1>8, <1>9, NewPrefixes

\* Every step keeps the invariant.
LEMMA NInvNext == NInv /\ [Next]_vars => NInv'
<1> SUFFICES ASSUME NInv, [Next]_vars PROVE NInv'
  OBVIOUS
<1>1. CASE \E b \in BaseNames : GoDown(b)
  BY <1>1, NInvGoDown
<1>2. CASE GoUp
  BY <1>2, NInvGoUp
<1>3. CASE \E m \in Modules, args \in ArgLists : Apply(m, args)
  BY <1>3, NInvApply
<1>4. CASE \E m \in Modules : Remove1(m)
  BY <1>4, NInvRemove1
<1>5. CASE UNCHANGED vars
  BY <1>5 DEF vars, NInv
<1> QED  BY <1>1, <1>2, <1>3, <1>4, <1>5 DEF Next

\* The invariant holds in every reachable state.
LEMMA NInvAlways == Spec => []NInv
<1> QED  BY NInvInit, NInvNext, PTL DEF Spec

-----------------------------------------------------------------------------
(* What the functions tell of a name *)

\* The basename of the path, and what the model says of its prefixes.
LEMMA HereRead ==
    ASSUME NInv, parts # <<>>
    PROVE  \E ps, b :
             /\ ps \in Seq(Puts) /\ b \in BaseNames
             /\ Here.prefixes = ps /\ Here.base = b
             /\ StringBasename(path) = Show(ps) \o b
             /\ StringBasename(StringBasename(path)) = Show(ps) \o b
             /\ \A m : Outermost(m) = IF OfModule(ps, m) = 0 THEN <<>>
                                       ELSE << ps[OfModule(ps, m)] >>
<1>1. PICK xs, x, ps, b : EndsIn(path, parts, xs, x, ps, b)
  BY HereIs
<1>2. ps \in Seq(Puts) /\ b \in BaseNames /\ x.prefixes = ps /\ x.base = b
  BY <1>1 DEF EndsIn
<1>3. /\ Here = x /\ StringBasename(path) = Show(ps) \o b
      /\ StringBasename(StringBasename(path)) = Show(ps) \o b
  BY <1>1, EndsInIs DEF Here
<1>4. \A m : Outermost(m) = IF OfModule(ps, m) = 0 THEN <<>> ELSE << ps[OfModule(ps, m)] >>
  BY <1>2, <1>3 DEF Outermost, OfModule
<1> QED  BY <1>2, <1>3, <1>4

\* args_from_prefix on the names that the invariant allows.
LEMMA NInvArgsReadBack == NInv => ArgsReadBack
<1> SUFFICES ASSUME NInv, parts # <<>>, NEW m \in Modules
             PROVE  ArgsFromPrefix(path, m) = IF Outermost(m) = <<>> THEN <<>>
                                              ELSE Outermost(m)[1].args
  BY DEF ArgsReadBack
<1>1. PICK ps, b :
        /\ ps \in Seq(Puts) /\ b \in BaseNames /\ StringBasename(path) = Show(ps) \o b
        /\ Outermost(m) = IF OfModule(ps, m) = 0 THEN <<>> ELSE << ps[OfModule(ps, m)] >>
  BY HereRead
<1>2. ArgsFromPrefix(path, m) = IF OfModule(ps, m) = 0 THEN <<>>
                                ELSE ps[OfModule(ps, m)].args
  BY <1>1, ArgsFromIs
<1> QED  BY <1>1, <1>2

\* is_prefixed on the names that the invariant allows.
LEMMA NInvHidden == NInv => HiddenIffPrefixed
<1> SUFFICES ASSUME NInv, parts # <<>>
             PROVE  IsPrefixed(path) <=> Here.prefixes # <<>>
  BY DEF HiddenIffPrefixed
<1>1. PICK ps, b : /\ ps \in Seq(Puts) /\ b \in BaseNames /\ Here.prefixes = ps
                   /\ StringBasename(path) = Show(ps) \o b
  BY HereRead
<1>2. IsPrefixed(path) <=> ps # <<>>
  BY <1>1, PrefixedIs
<1> QED  BY <1>1, <1>2

\* contains_prefix on the names that the invariant allows.
LEMMA NInvRecognised == NInv => RecognisedIffPrefixed
<1> SUFFICES ASSUME NInv, parts # <<>>, NEW m \in Modules
             PROVE  ContainsPrefix(path, m) <=> Outermost(m) # <<>>
  BY DEF RecognisedIffPrefixed
<1>1. PICK ps, b :
        /\ ps \in Seq(Puts) /\ b \in BaseNames /\ StringBasename(path) = Show(ps) \o b
        /\ Outermost(m) = IF OfModule(ps, m) = 0 THEN <<>> ELSE << ps[OfModule(ps, m)] >>
  BY HereRead
<1>2. ContainsPrefix(path, m) <=> OfModule(ps, m) # 0
  BY <1>1, ContainsIs
<1> QED  BY <1>1, <1>2

\* get_related_names and get_max_version on the names that the invariant allows.
LEMMA NInvVersions == NInv => VersionsOfTheFileOnly /\ VersionsHaveNumbers
<1> SUFFICES ASSUME NInv, parts # <<>>
             PROVE  VersionsOfTheFileOnly /\ VersionsHaveNumbers
  BY DEF VersionsOfTheFileOnly, VersionsHaveNumbers
<1>1. PICK m \in Modules : m = "VERSION"
  BY ModulesAssumption
<1>2. PICK ps, b :
        /\ ps \in Seq(Puts) /\ b \in BaseNames /\ Here.base = b
        /\ StringBasename(path) = Show(ps) \o b
        /\ StringBasename(StringBasename(path)) = Show(ps) \o b
        /\ Outermost(m) = IF OfModule(ps, m) = 0 THEN <<>> ELSE << ps[OfModule(ps, m)] >>
  BY HereRead
<1>3. PICK s : s = StringBasename(path)
  OBVIOUS
<1>4. s = Show(ps) \o b /\ StringBasename(s) = Show(ps) \o b
  BY <1>2, <1>3
<1>5. PICK args : args = ArgsFromPrefix(s, m)
  OBVIOUS
<1>6. /\ args = IF OfModule(ps, m) = 0 THEN <<>> ELSE ps[OfModule(ps, m)].args
      /\ ArgsFromPrefix(path, m) = args
  BY SMTT(60), <1>2, <1>4, <1>5, ArgsFromIs
<1>7. args = IF Outermost(m) = <<>> THEN <<>> ELSE Outermost(m)[1].args
  BY <1>2, <1>6
<1>8. IsVersionFile(s) <=> Len(args) = 1 /\ \A i \in DOMAIN args[1] : args[1][i] \in Digits
  BY <1>1, <1>5 DEF IsVersionFile
<1>9. Len(<<>>) # 1
  BY EmptySeq
<1>10. VersionsOfTheFileOnly
  <2> SUFFICES ASSUME NEW c \in BaseNames
               PROVE  IsRelated(s, c)
                        <=> /\ c = b
                            /\ Outermost(m) # <<>>
                            /\ LET a == Outermost(m)[1].args IN
                               Len(a) = 1 /\ \A i \in DOMAIN a[1] : a[1][i] \in Digits
    BY <1>1, <1>2, <1>3 DEF VersionsOfTheFileOnly
  <2>1. GetNonprefixed(s) = b
    BY <1>2, <1>4, NonprefixedIs
  <2>2. \A e \in BaseNames : StringBasename(e) = e
    <3> SUFFICES ASSUME NEW e \in BaseNames PROVE StringBasename(e) = e
      OBVIOUS
    <3>1. Component(e)
      BY BaseIs DEF Component
    <3> QED  BY <3>1, BasenameOfName
  <2>3. IsRelated(s, c) <=> IsVersionFile(s) /\ b = c
    BY <1>2, <2>1, <2>2 DEF IsRelated
  <2> QED  BY <1>7, <1>8, <1>9, <2>3
<1>11. VersionsHaveNumbers
  <2> SUFFICES ASSUME IsVersionFile(s) PROVE args[1] # <<>>
    BY <1>1, <1>3, <1>6 DEF VersionsHaveNumbers
  <2>1. OfModule(ps, m) # 0 /\ Len(args) = 1
    BY <1>6, <1>8, <1>9
  <2>2. PICK u \in Seq(Puts), p \in Puts, v \in Seq(Puts) : IsOutermost(ps, m, u, p, v)
    BY <1>2, <2>1, OutermostIs
  <2>3. args = p.args
    BY <1>6, <2>1, <2>2 DEF IsOutermost
  <2>4. args \in ArgLists
    BY <2>3 DEF Puts
  <2>5. DOMAIN args = 1..Len(args) /\ \A i \in DOMAIN args : args[i] # <<>>
    BY <2>4, ArgsAre, LenProperties
  <2> QED  BY <2>1, <2>5
<1> QED  BY <1>10, <1>11

-----------------------------------------------------------------------------
(* Theorems *)

\* Path::parent undoes operator/ and remove_specific_prefix undoes
\* apply_prefix, whatever names, modules and arguments there are and however
\* many prefixes are stacked on a name.
THEOREM NamesAreUndone == Spec => []NamesRoundTrip
<1> QED  BY NInvAlways, NInvRoundTrip, PTL

\* args_from_prefix reads back the arguments that apply_prefix wrote for the
\* outermost prefix of a module, under and over any prefixes of others.
THEOREM ArgumentsAreRead == Spec => []ArgsReadBack
<1> QED  BY NInvAlways, NInvArgsReadBack, PTL

\* is_prefixed, by which readdir hides names and writes pass the versioning,
\* holds of exactly the names that carry a prefix.
THEOREM PrefixesHide == Spec => []HiddenIffPrefixed
<1> QED  BY NInvAlways, NInvHidden, PTL

\* contains_prefix tells for every module whether it put a prefix on a name.
THEOREM PrefixesAreRecognised == Spec => []RecognisedIffPrefixed
<1> QED  BY NInvAlways, NInvRecognised, PTL

\* get_related_names takes exactly the versions of a file for its versions.
THEOREM VersionsBelong == Spec => []VersionsOfTheFileOnly
<1> QED  BY NInvAlways, NInvVersions, PTL

\* Every name taken for a version has a number for std::stoi to read.
THEOREM VersionsAreNumbered == Spec => []VersionsHaveNumbers
<1> QED  BY NInvAlways, NInvVersions, PTL
=============================================================================
