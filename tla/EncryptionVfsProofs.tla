------------------------ MODULE EncryptionVfsProofs ------------------------
(***************************************************************************)
(* What EncryptionVfs keeps for any number of files, keys, versions, seals *)
(* and clients when fuse_main has one worker thread ("-s"), whatever the   *)
(* clients do and whether or not the daemon is killed.  With two workers   *)
(* these facts are false: see the run encryption_open_race.                *)
(***************************************************************************)
EXTENDS EncryptionVfs, SequenceTheorems, FiniteSetTheorems, TLAPS

OneWorker == \E t : Threads = {t}

SealerOps == {"lock", "defaultLock", "release"}
SealLoopPC == {"sealOpen", "sealWrite", "sealHide"}
FilePC == {"sealWrite", "sealHide", "unsealWrite", "unsealRemove"}

\* A name with n prefixes holds a content under at most n seals.
SealsFitNames == \A x \in DOMAIN store : Len(store[x].seals) <= Len(x[3])

\* The label tells whether a worker has a request, of which kind, and whether
\* it has a key to work with.
ControlOK ==
    \A t \in Threads :
      /\ pc[t] = "idle" => req[t] = NoRequest
      /\ pc[t] # "idle" => req[t] \in Requests
      /\ pc[t] \in SealPC => req[t].op \in SealerOps
      /\ pc[t] \in UnsealPC => req[t].op \in {"unlock", "open"}
      /\ pc[t] \in SealPC \union UnsealPC \union {"readRelated"} => cred[t] \in Creds
      /\ pc[t] = "loadDefault" => req[t].op = "defaultLock"
      /\ pc[t] \in {"checkLocked", "makeTmp", "openFile"} => req[t].op = "open"
      /\ pc[t] \in {"checkTmp", "removeTmp", "reloadDefault", "closeAgain"}
           => req[t].op = "release"

\* There is room for the client an open is about to add, and a client for the
\* release that is about to remove one.
ClientsCounted ==
    \A t \in Threads :
      /\ pc[t] \notin {"idle", "return"} /\ req[t].op = "open"
           => opened[req[t].name] < MaxOpens
      /\ pc[t] = "checkTmp" => opened[req[t].name] > 0

\* The loop visits the file last, after versions of it.
FileComesLast ==
    \A t \in Threads :
      /\ pc[t] \in SealLoopPC \union UnsealPC
           => \A x \in todo[t] : x = req[t].name \/ x[2] # 0
      /\ pc[t] \in {"sealOpen", "unsealOpen"}
           => req[t].name \in todo[t] \/ todo[t] = {}
      /\ pc[t] \in FilePC
           => \/ cur[t] = req[t].name /\ todo[t] = {}
              \/ cur[t][2] # 0 /\ req[t].name \in todo[t]

\* What the marker of the file in hand holds, step by step.
MarkerInHand ==
    \A t \in Threads :
      /\ pc[t] \in FilePC => cur[t] \in Names /\ Len(cur[t][3]) < MaxSeals
      /\ pc[t] \in {"sealWrite", "sealHide"} => Exists(MarkerOf(t))
      /\ pc[t] = "sealWrite" => store[MarkerOf(t)] = Of(Nothing)
      /\ pc[t] = "sealHide"
           => store[MarkerOf(t)] = Seal(Read(cur[t]), cred[t][2])
      /\ pc[t] \in {"unsealWrite", "unsealRemove"}
           => /\ cur[t][3] = <<>>
              /\ Exists(cur[t])
              /\ buf[t] = Read(MarkerOf(t))
      /\ pc[t] = "unsealRemove" => store[cur[t]] = Unseal(buf[t])

\* A file is not locked when its lock begins ...
NotLockedYet ==
    \A t \in Threads :
      \/ pc[t] = "readRelated" /\ Sealing(t)
      \/ pc[t] \in SealLoopPC /\ req[t].name \in todo[t]
      => ~IsEncrypted(req[t].name)

\* ... and is hidden behind its seal when the loop is over.
LoopKeepsItsWord ==
    \A t \in Threads :
      LET x == req[t].name
          m == Marker(x, cred[t][1])
      IN  /\ pc[t] = "sealOpen" /\ todo[t] = {}
               => Exists(m) /\ Opens(cred[t][2], store[m]) /\ store[x] = Of(Placeholder)
          /\ pc[t] = "unsealOpen" /\ todo[t] = {} /\ success[t] => ~Exists(m)

IInv ==
    /\ TypeOK
    /\ SealsFitNames
    /\ ControlOK
    /\ ClientsCounted
    /\ FileComesLast
    /\ MarkerInHand
    /\ NotLockedYet
    /\ LoopKeepsItsWord
    /\ HooksTellTheTruth

USE DEF At, Goto

-----------------------------------------------------------------------------
(* Names and contents *)

\* The sequences of bounded length, as Names and Contents write them.
LEMMA BoundedSeq ==
    ASSUME NEW S, NEW n \in Nat, NEW s
    PROVE  s \in UNION {[1..m -> S] : m \in 0..n} <=> s \in Seq(S) /\ Len(s) <= n
<1>1. ASSUME NEW m \in 0..n, s \in [1..m -> S]
      PROVE  s \in Seq(S) /\ Len(s) <= n
  <2>1. m \in Nat
    OBVIOUS
  <2>2. s \in Seq(S)
    BY <1>1, <2>1
  <2>3. Len(s) = m
    BY <1>1, <2>1, <2>2, LenProperties
  <2> QED  BY <2>2, <2>3
<1>2. ASSUME s \in Seq(S), Len(s) <= n
      PROVE  Len(s) \in 0..n /\ s \in [1..Len(s) -> S]
  BY <1>2, LenProperties
<1> QED  BY <1>1, <1>2

\* What a name is made of.
LEMMA NameParts ==
    ASSUME NEW x
    PROVE  x \in Names <=> /\ x = <<x[1], x[2], x[3]>>
                           /\ x[1] \in Files
                           /\ x[2] \in 0..MaxVersion
                           /\ x[3] \in Seq(Kinds \union {"tmp"})
                           /\ Len(x[3]) <= MaxSeals
<1>1. MaxSeals \in Nat
  BY BoundsAssumption
<1> DEFINE P == UNION {[1..n -> Kinds \union {"tmp"}] : n \in 0..MaxSeals}
<1>2. x \in Names <=> /\ x = <<x[1], x[2], x[3]>>
                      /\ x[1] \in Files
                      /\ x[2] \in 0..MaxVersion
                      /\ x[3] \in P
  BY DEF Names
<1>3. x[3] \in P <=> x[3] \in Seq(Kinds \union {"tmp"}) /\ Len(x[3]) <= MaxSeals
  BY <1>1, BoundedSeq
<1> QED  BY <1>2, <1>3

\* What a content is made of.
LEMMA ContentParts ==
    ASSUME NEW c
    PROVE  c \in Contents <=> /\ c = [seals |-> c.seals, data |-> c.data]
                              /\ c.seals \in Seq(Keys)
                              /\ Len(c.seals) <= MaxSeals
                              /\ c.data \in Data \union {Nothing, Placeholder, Garbled}
<1>1. MaxSeals \in Nat
  BY BoundsAssumption
<1> DEFINE P == UNION {[1..n -> Keys] : n \in 0..MaxSeals}
<1>2. c \in Contents <=> /\ c = [seals |-> c.seals, data |-> c.data]
                         /\ c.seals \in P
                         /\ c.data \in Data \union {Nothing, Placeholder, Garbled}
  BY DEF Contents
<1>3. c.seals \in P <=> c.seals \in Seq(Keys) /\ Len(c.seals) <= MaxSeals
  BY <1>1, BoundedSeq
<1> QED  BY <1>2, <1>3

\* A name without prefixes, which is no target when it has a version number.
LEMMA PlainName ==
    ASSUME NEW f \in Files, NEW n \in 0..MaxVersion
    PROVE  /\ Plain(f, n) \in Names
           /\ Plain(f, n)[1] = f /\ Plain(f, n)[2] = n /\ Plain(f, n)[3] = <<>>
           /\ Plain(f, n) = <<f, n, <<>> >>
           /\ Len(Plain(f, n)[3]) = 0
<1>1. <<>> \in Seq(Kinds \union {"tmp"}) /\ Len(<<>>) = 0
  BY EmptySeq
<1>2. MaxSeals >= 0
  BY BoundsAssumption
<1> QED  BY <1>1, <1>2, NameParts DEF Plain

\* A target is the name of a file.
LEMMA TargetName ==
    ASSUME NEW x \in Targets
    PROVE  /\ x \in Names
           /\ x[1] \in Files /\ x[2] = 0 /\ x[3] = <<>>
           /\ x = Plain(x[1], 0)
           /\ Len(x[3]) = 0 /\ Len(x[3]) < MaxSeals
<1>1. PICK f \in Files : x = Plain(f, 0)
  BY DEF Targets
<1>2. 0 \in 0..MaxVersion
  BY BoundsAssumption
<1> QED  BY <1>1, <1>2, PlainName, BoundsAssumption

\* A marker has one prefix more than the name it stands for.
LEMMA MarkerName ==
    ASSUME NEW x \in Names, NEW kind \in Kinds \union {"tmp"}
    PROVE  LET m == Marker(x, kind) IN
           /\ m[1] = x[1] /\ m[2] = x[2] /\ m[3] \in Seq(Kinds \union {"tmp"})
           /\ Len(m[3]) = Len(x[3]) + 1
           /\ m[3] # <<>>
           /\ m[3][1] = kind
           /\ Head(m[3]) = kind /\ Tail(m[3]) = x[3]
           /\ Len(x[3]) < MaxSeals => m \in Names
<1> DEFINE m == Marker(x, kind)
<1>1. m[1] = x[1] /\ m[2] = x[2] /\ m[3] = <<kind>> \o x[3] /\ m = <<m[1], m[2], m[3]>>
  BY DEF Marker
<1>2. x[3] \in Seq(Kinds \union {"tmp"}) /\ x[1] \in Files /\ x[2] \in 0..MaxVersion
  BY NameParts
<1>3. <<kind>> \in Seq(Kinds \union {"tmp"}) /\ Len(<<kind>>) = 1 /\ <<kind>>[1] = kind
  OBVIOUS
<1>4. /\ m[3] \in Seq(Kinds \union {"tmp"})
      /\ Len(m[3]) = Len(x[3]) + 1
      /\ m[3][1] = kind
  BY <1>1, <1>2, <1>3, ConcatProperties, LenProperties
<1>5. m[3] # <<>>
  BY <1>2, <1>4, EmptySeq, LenProperties
<1>6. Head(m[3]) = kind /\ Tail(m[3]) = x[3]
  BY <1>1, <1>2
<1>7. Len(x[3]) < MaxSeals => Len(m[3]) <= MaxSeals
  BY <1>2, <1>4, LenProperties, BoundsAssumption
<1>8. Len(x[3]) < MaxSeals => m \in Names
  BY <1>1, <1>2, <1>4, <1>7, NameParts
<1> QED  BY <1>1, <1>4, <1>5, <1>6, <1>8

\* Different names have different markers, and so have different kinds.
LEMMA MarkersDiffer ==
    ASSUME NEW x \in Names, NEW y \in Names,
           NEW a \in Kinds \union {"tmp"}, NEW b \in Kinds \union {"tmp"},
           Marker(x, a) = Marker(y, b)
    PROVE  x = y /\ a = b
<1>1. x[1] = y[1] /\ x[2] = y[2] /\ x[3] = y[3] /\ a = b
  BY MarkerName
<1> QED  BY <1>1, NameParts

\* An unsealed content.
LEMMA PlainContent ==
    ASSUME NEW d \in Data \union {Nothing, Placeholder, Garbled}
    PROVE  /\ Of(d) \in Contents
           /\ Of(d).seals = <<>> /\ Len(Of(d).seals) = 0
           /\ Of(d).data = d
<1>1. <<>> \in Seq(Keys) /\ Len(<<>>) = 0
  BY EmptySeq
<1>2. Of(d).seals = <<>> /\ Of(d).data = d
  BY DEF Of
<1>3. Of(d) = [seals |-> Of(d).seals, data |-> Of(d).data]
  BY DEF Of
<1>4. Len(Of(d).seals) = 0 /\ 0 <= MaxSeals
  BY <1>1, <1>2, BoundsAssumption
<1>5. Of(d) \in Contents
  BY <1>1, <1>2, <1>3, <1>4, ContentParts
<1> QED  BY <1>2, <1>4, <1>5

\* A seal can be opened by its key only.
LEMMA SealContent ==
    ASSUME NEW c \in Contents, NEW k \in Keys
    PROVE  /\ Len(c.seals) < MaxSeals => Seal(c, k) \in Contents
           /\ Len(Seal(c, k).seals) = Len(c.seals) + 1
           /\ Seal(c, k).seals # <<>>
           /\ Head(Seal(c, k).seals) = k
           /\ Opens(k, Seal(c, k))
           /\ Unseal(Seal(c, k)) = c
<1>1. c = [seals |-> c.seals, data |-> c.data] /\ c.seals \in Seq(Keys)
  BY ContentParts
<1> DEFINE s == <<k>> \o c.seals
<1>11. Seal(c, k) = [c EXCEPT !.seals = s]
  BY DEF Seal
<1>12. ASSUME NEW e PROVE [c EXCEPT !.seals = e] = [seals |-> e, data |-> c.data]
  <2>1. c = [seals |-> c.seals, data |-> c.data]
    BY <1>1
  <2> QED  BY <2>1
<1>2. Seal(c, k) = [seals |-> <<k>> \o c.seals, data |-> c.data]
  BY <1>11, <1>12
<1>3. <<k>> \in Seq(Keys) /\ Len(<<k>>) = 1
  OBVIOUS
<1>4. /\ <<k>> \o c.seals \in Seq(Keys)
      /\ Len(<<k>> \o c.seals) = Len(c.seals) + 1
  BY <1>1, <1>3, ConcatProperties, LenProperties
<1>5. <<k>> \o c.seals # <<>>
  BY <1>1, <1>4, EmptySeq, LenProperties
<1>6. Head(<<k>> \o c.seals) = k /\ Tail(<<k>> \o c.seals) = c.seals
  BY <1>1
<1>7. Len(c.seals) < MaxSeals => Len(<<k>> \o c.seals) <= MaxSeals
  BY <1>1, <1>4, LenProperties, BoundsAssumption
<1>8. Len(c.seals) < MaxSeals => Seal(c, k) \in Contents
  BY <1>1, <1>2, <1>4, <1>7, ContentParts
<1>9. Unseal(Seal(c, k)) = c
  BY <1>1, <1>2, <1>6 DEF Unseal
<1> QED  BY <1>2, <1>4, <1>5, <1>6, <1>8, <1>9 DEF Opens

\* What comes out of a seal.
LEMMA UnsealContent ==
    ASSUME NEW c \in Contents, c.seals # <<>>
    PROVE  /\ Unseal(c) \in Contents
           /\ Len(Unseal(c).seals) = Len(c.seals) - 1
           /\ Len(c.seals) > 0
<1>1. c = [seals |-> c.seals, data |-> c.data] /\ c.seals \in Seq(Keys)
  BY ContentParts
<1> DEFINE s == Tail(c.seals)
<1>11. Unseal(c) = [c EXCEPT !.seals = s]
  BY DEF Unseal
<1>12. ASSUME NEW e PROVE [c EXCEPT !.seals = e] = [seals |-> e, data |-> c.data]
  <2>1. c = [seals |-> c.seals, data |-> c.data]
    BY <1>1
  <2> QED  BY <2>1
<1>2. Unseal(c) = [seals |-> Tail(c.seals), data |-> c.data]
  BY <1>11, <1>12
<1>3. /\ Tail(c.seals) \in Seq(Keys)
      /\ Len(Tail(c.seals)) = Len(c.seals) - 1
  BY <1>1, HeadTailProperties
<1>4. Len(c.seals) > 0
  BY <1>1, EmptySeq, LenProperties
<1>5. Len(s) <= MaxSeals
  BY <1>1, <1>3, ContentParts, BoundsAssumption, LenProperties
<1>6. c.data \in Data \union {Nothing, Placeholder, Garbled}
  BY ContentParts
<1>7. Unseal(c).seals = s /\ Unseal(c).data = c.data
  BY <1>2
<1>8. Unseal(c) \in Contents
  BY <1>2, <1>3, <1>5, <1>6, <1>7, ContentParts
<1> QED  BY <1>3, <1>4, <1>7, <1>8

-----------------------------------------------------------------------------
(* The backing directory *)

\* x has the content c, and nothing else is different.
Becomes(x, c) ==
    /\ DOMAIN store' = DOMAIN store \union {x}
    /\ store'[x] = c
    /\ \A y \in DOMAIN store : y # x => store'[y] = store[y]

\* The names X have gone, and nothing else is different.
Loses(X) ==
    /\ DOMAIN store' = DOMAIN store \ X
    /\ \A y \in DOMAIN store \ X : store'[y] = store[y]

StoreOK ==
    /\ DOMAIN store \subseteq Names
    /\ \A x \in DOMAIN store : store[x] \in Contents
    /\ SealsFitNames

\* What the three ways to change the directory do.
LEMMA StoreChanges ==
    ASSUME NEW x
    PROVE  /\ \A c : store' = Put(x, c) => Becomes(x, c)
           /\ \A c : Exists(x) /\ store' = Fill(x, c) => Becomes(x, c)
           /\ \A X : store' = Without(X) => Loses(X)
  BY DEF Becomes, Loses, Put, Fill, Without, Restrict, Exists

\* A content fits the directory when it has no more seals than its name.
LEMMA StoreKept ==
    ASSUME StoreOK
    PROVE  /\ \A x \in Names, c \in Contents :
                Becomes(x, c) /\ Len(c.seals) <= Len(x[3]) => StoreOK'
           /\ \A X : Loses(X) => StoreOK'
           /\ UNCHANGED store => StoreOK'
  BY DEF StoreOK, SealsFitNames, Becomes, Loses

\* What a stream reads fits the name too.
LEMMA ReadFits ==
    ASSUME StoreOK, NEW x \in Names
    PROVE  /\ Read(x) \in Contents
           /\ Len(Read(x).seals) <= Len(x[3])
<1>1. CASE Exists(x)
  BY <1>1 DEF StoreOK, SealsFitNames, Read, Exists
<1>2. CASE ~Exists(x)
  BY <1>2, PlainContent, NameParts, LenProperties DEF Read
<1> QED  BY <1>1, <1>2

\* The empty file and the placeholder fit any name.
LEMMA PlainFits ==
    ASSUME StoreOK, NEW x \in Names,
           NEW d \in Data \union {Nothing, Placeholder, Garbled}, Becomes(x, Of(d))
    PROVE  StoreOK'
  BY StoreKept, PlainContent, NameParts, LenProperties

\* The name of a request is a target, and its key a credential.
LEMMA RequestParts ==
    ASSUME NEW r \in Requests
    PROVE  /\ r.op \in {"lock", "defaultLock", "unlock", "open", "release"}
           /\ r.name \in Targets
  BY DEF Requests

\* A credential is a marker word and a key.
LEMMA CredParts ==
    ASSUME NEW c \in Creds
    PROVE  c[1] \in Kinds /\ c[2] \in Keys
  BY DEF Creds, Kinds, Keys

\* TypeOK but for the directory.
JobsOK ==
    /\ default \in KeyFiles \union {NoDefault, BadDefault}
    /\ opened \in [Targets -> 0..MaxOpens]
    /\ pc \in [Threads -> PC]
    /\ req \in [Threads -> Requests \union {NoRequest}]
    /\ cred \in [Threads -> Creds \union {NoCred}]
    /\ todo \in [Threads -> SUBSET Names]
    /\ cur \in [Threads -> Names \union {NoRequest}]
    /\ buf \in [Threads -> Contents]
    /\ success \in [Threads -> BOOLEAN]
    /\ reply \in [Threads -> {"none", "ok", "failed", "enoent", "ebadf"}]

LoopInv == FileComesLast /\ MarkerInHand /\ NotLockedYet /\ LoopKeepsItsWord

\* The invariant, part by part, before and after a step.
LEMMA InvParts ==
    /\ IInv => StoreOK /\ JobsOK
    /\ /\ StoreOK' /\ JobsOK'
       /\ ControlOK' /\ ClientsCounted' /\ LoopInv' /\ HooksTellTheTruth'
       => IInv'
  BY DEF IInv, LoopInv, TypeOK, StoreOK, JobsOK

-----------------------------------------------------------------------------
(* A step of the only worker *)

\* Outside the loops the files in hand and the results do not matter.
LEMMA OutsideLoops ==
    ASSUME IInv, NEW t \in Threads, Threads = {t},
           NEW label \in PC \ (SealLoopPC \union UnsealPC \union {"readRelated", "return"}),
           Goto(t, label)
    PROVE  LoopInv' /\ HooksTellTheTruth'
<1>1. pc'[t] = label /\ \A u \in Threads : u = t
  BY InvParts DEF JobsOK
<1> QED
  BY <1>1 DEF LoopInv, FileComesLast, MarkerInHand, NotLockedYet, LoopKeepsItsWord,
              HooksTellTheTruth, SealLoopPC, UnsealPC, FilePC

\* A result on its way to the client: only a hook's success says anything.
LEMMA AnswerKeeps ==
    ASSUME IInv, NEW t \in Threads, Threads = {t}, pc[t] # "idle",
           NEW r \in {"ok", "failed", "enoent", "ebadf"}, Answer(t, r),
           opened' \in [Targets -> 0..MaxOpens],
           UNCHANGED <<store, default, jobVars>>,
           r = "ok" /\ req[t].op \in {"lock", "defaultLock", "unlock"}
             => LET x == req[t].name
                    m == Marker(x, cred[t][1])
                IN IF req[t].op = "unlock" THEN ~Exists(m)
                   ELSE /\ Exists(m) /\ Opens(cred[t][2], store[m])
                        /\ store[x] = Of(Placeholder)
    PROVE  IInv'
<1> USE DEF Answer, jobVars
<1>1. StoreOK' /\ JobsOK'
  BY InvParts, StoreKept DEF JobsOK, PC
<1>2. pc'[t] = "return" /\ reply'[t] = r /\ \A u \in Threads : u = t
  BY InvParts DEF JobsOK
<1>3. ControlOK'
  BY <1>2 DEF IInv, ControlOK, SealPC, UnsealPC
<1>4. ClientsCounted'
  BY <1>2 DEF ClientsCounted
<1>5. LoopInv'
  BY <1>2 DEF LoopInv, FileComesLast, MarkerInHand, NotLockedYet, LoopKeepsItsWord,
              SealLoopPC, UnsealPC, FilePC
<1>6. HooksTellTheTruth'
  BY <1>2 DEF HooksTellTheTruth, Exists
<1> QED  BY <1>1, <1>3, <1>4, <1>5, <1>6, InvParts

\* The end of encrypt_file or decrypt_file, when the loop kept its word.
LEMMA FinishKeeps ==
    ASSUME IInv, NEW t \in Threads, Threads = {t},
           pc[t] \in {"isEncrypted", "sealOpen", "unsealOpen"},
           NEW ok \in BOOLEAN, Finish(t, ok), UNCHANGED store,
           ok => pc[t] # "isEncrypted" /\ todo[t] = {},
           ok /\ pc[t] = "unsealOpen" => success[t]
    PROVE  IInv'
<1> USE DEF jobVars
<1>1. pc[t] # "idle" /\ req[t] \in Requests
  BY DEF IInv, ControlOK
<1>2. opened' \in [Targets -> 0..MaxOpens]
  BY DEF Finish, IInv, TypeOK
<1>3. CASE req[t].op = "release"
  BY <1>1, <1>2, <1>3, AnswerKeeps DEF Finish
<1>4. CASE req[t].op = "open"
  <2>1. pc'[t] \in {"makeTmp", "openFile"} /\ \A u \in Threads : u = t
    BY <1>4, InvParts DEF JobsOK, Finish
  <2>2. StoreOK' /\ JobsOK'
    BY <1>4, InvParts, StoreKept DEF JobsOK, Finish, PC
  <2>3. ControlOK'
    BY <1>1, <1>4, <2>1 DEF IInv, ControlOK, Finish, SealPC, UnsealPC
  <2>4. ClientsCounted'
    BY <1>1, <1>4, <2>1 DEF IInv, ClientsCounted, Finish
  <2>5. LoopInv' /\ HooksTellTheTruth'
    BY <1>4, OutsideLoops DEF Finish, PC, SealLoopPC, UnsealPC
  <2> QED  BY <2>2, <2>3, <2>4, <2>5, InvParts
<1>5. CASE req[t].op \in {"lock", "defaultLock", "unlock"}
  <2>1. Answer(t, IF ok THEN "ok" ELSE "failed")
    BY <1>5 DEF Finish
  <2>2. ok => LET x == req[t].name
                  m == Marker(x, cred[t][1])
              IN IF req[t].op = "unlock" THEN ~Exists(m)
                 ELSE /\ Exists(m) /\ Opens(cred[t][2], store[m])
                      /\ store[x] = Of(Placeholder)
    BY <1>5 DEF IInv, ControlOK, LoopKeepsItsWord, SealPC, UnsealPC, SealerOps
  <2> QED  BY <1>1, <1>2, <2>1, <2>2, AnswerKeeps DEF Finish
<1> QED  BY <1>1, <1>3, <1>4, <1>5, RequestParts

\* encrypt_file refuses a file that is locked, and goes on with one that is not.
LEMMA CheckEncryptedKeeps ==
    ASSUME IInv, NEW t \in Threads, Threads = {t}, CheckEncrypted(t)
    PROVE  IInv'
<1>1. CASE Finish(t, FALSE)
  BY <1>1, FinishKeeps DEF CheckEncrypted, Finish, Then
<1>2. CASE ~IsEncrypted(req[t].name) /\ Then(t, "readRelated") /\ UNCHANGED store
  <2> USE DEF Then, jobVars
  <2>1. pc'[t] = "readRelated" /\ \A u \in Threads : u = t
    BY <1>2, InvParts DEF JobsOK
  <2>2. StoreOK' /\ JobsOK'
    BY <1>2, InvParts, StoreKept DEF JobsOK, PC
  <2>3. ControlOK' /\ ClientsCounted'
    BY <1>2, <2>1 DEF IInv, ControlOK, ClientsCounted, CheckEncrypted, SealPC, UnsealPC
  <2>4. NotLockedYet'
    BY <1>2, <2>1 DEF NotLockedYet, SealLoopPC, IsEncrypted, Exists
  <2>5. LoopInv'
    BY <2>1, <2>4 DEF LoopInv, FileComesLast, MarkerInHand, LoopKeepsItsWord,
                SealLoopPC, UnsealPC, FilePC
  <2>6. HooksTellTheTruth'
    BY <2>1 DEF HooksTellTheTruth
  <2> QED  BY <2>2, <2>3, <2>5, <2>6, InvParts
<1> QED  BY <1>1, <1>2 DEF CheckEncrypted

\* prepare_files: the file itself is among the related files.
LEMMA ReadRelatedKeeps ==
    ASSUME IInv, NEW t \in Threads, Threads = {t}, ReadRelated(t)
    PROVE  IInv'
<1> USE DEF ReadRelated
<1>1. /\ pc'[t] = (IF Sealing(t) THEN "sealOpen" ELSE "unsealOpen")
      /\ todo'[t] = Related(req[t].name)
      /\ \A u \in Threads : u = t
  BY InvParts DEF JobsOK
<1>2. req[t] \in Requests /\ cred[t] \in Creds
  BY DEF IInv, ControlOK
<1>3. req[t].name \in Names
  BY <1>2, RequestParts, TargetName
<1>4. Related(req[t].name) \subseteq Names
  BY <1>3, InvParts DEF Related, VersionNames, StoreOK
<1>5. StoreOK' /\ JobsOK'
  BY <1>4, InvParts, StoreKept DEF JobsOK, PC, SealPC, UnsealPC
<1>6. ControlOK'
  BY <1>1, <1>2, RequestParts
     DEF IInv, ControlOK, Sealing, SealPC, UnsealPC, SealerOps
<1>7. ClientsCounted'
  BY <1>1 DEF IInv, ClientsCounted
<1>8. FileComesLast'
  BY <1>1 DEF FileComesLast, Related, VersionNames, SealLoopPC, UnsealPC, FilePC
<1>9. MarkerInHand'
  BY <1>1 DEF MarkerInHand, FilePC
<1>10. NotLockedYet'
  BY <1>1 DEF IInv, NotLockedYet, SealLoopPC, IsEncrypted, Exists
<1>11. LoopKeepsItsWord' /\ HooksTellTheTruth'
  BY <1>1 DEF LoopKeepsItsWord, HooksTellTheTruth, Related
<1> QED  BY <1>5, <1>6, <1>7, <1>8, <1>9, <1>10, <1>11, InvParts DEF LoopInv

-----------------------------------------------------------------------------
(* encrypt_file *)

\* What a worker in a loop has at hand.
LEMMA LoopTyped ==
    ASSUME IInv, NEW t \in Threads, pc[t] \in SealLoopPC \union UnsealPC
    PROVE  /\ req[t] \in Requests /\ req[t].name \in Targets
           /\ req[t].name \in Names
           /\ cred[t][1] \in Kinds /\ cred[t][2] \in Keys
           /\ todo[t] \subseteq Names
  BY RequestParts, TargetName, CredParts
     DEF IInv, TypeOK, ControlOK, PC, SealPC, SealLoopPC, UnsealPC

\* What it has at hand of a file.
LEMMA FileTyped ==
    ASSUME IInv, NEW t \in Threads, pc[t] \in FilePC
    PROVE  /\ cur[t] \in Names /\ Len(cur[t][3]) < MaxSeals
           /\ MarkerOf(t) \in Names
           /\ Len(MarkerOf(t)[3]) = Len(cur[t][3]) + 1
           /\ MarkerOf(t) # cur[t]
<1>1. cur[t] \in Names /\ Len(cur[t][3]) < MaxSeals
  BY DEF IInv, MarkerInHand
<1>2. cred[t][1] \in Kinds
  BY LoopTyped DEF FilePC, SealLoopPC, UnsealPC
<1>3. Len(cur[t][3]) \in Nat
  BY <1>1, NameParts, LenProperties
<1> QED  BY <1>1, <1>2, <1>3, MarkerName DEF MarkerOf

\* The stream on a new marker truncates no marker of the file.
LEMMA SealOpenKeeps ==
    ASSUME IInv, NEW t \in Threads, Threads = {t}, SealOpen(t)
    PROVE  IInv'
<1>1. CASE todo[t] = {} /\ Finish(t, TRUE)
  BY <1>1, FinishKeeps DEF SealOpen, Finish
<1>2. ASSUME NEW x \in todo[t], NextFile(t, x), UNCHANGED buf,
             Len(x[3]) = MaxSeals, UNCHANGED <<store, pc>>
      PROVE  IInv'
  <2> USE DEF NextFile
  <2>1. pc'[t] = "sealOpen" /\ todo'[t] = todo[t] \ {x} /\ \A u \in Threads : u = t
    BY <1>2, InvParts DEF JobsOK, SealOpen
  <2>2. x \in Names /\ x # req[t].name
    BY <1>2, LoopTyped, TargetName DEF SealOpen, SealLoopPC
  <2>3. StoreOK' /\ JobsOK'
    BY <1>2, <2>2, InvParts, StoreKept DEF JobsOK
  <2>4. ControlOK' /\ ClientsCounted'
    BY <1>2 DEF IInv, ControlOK, ClientsCounted
  <2>5. req[t].name \in todo[t]
    BY <1>2 DEF IInv, FileComesLast, SealOpen
  <2>6. FileComesLast'
    BY <1>2, <2>1, <2>2, <2>5 DEF IInv, FileComesLast, SealLoopPC, UnsealPC, FilePC
  <2>7. MarkerInHand' /\ LoopKeepsItsWord' /\ HooksTellTheTruth'
    BY <2>1, <2>2, <2>5 DEF MarkerInHand, LoopKeepsItsWord, HooksTellTheTruth, FilePC
  <2>8. NotLockedYet'
    BY <1>2, <2>1 DEF IInv, NotLockedYet, IsEncrypted, Exists
  <2> QED  BY <2>3, <2>4, <2>6, <2>7, <2>8, InvParts DEF LoopInv
<1>3. ASSUME NEW x \in todo[t], NextFile(t, x), UNCHANGED buf,
             Len(x[3]) # MaxSeals,
             store' = Put(Marker(x, cred[t][1]), Of(Nothing)), Goto(t, "sealWrite")
      PROVE  IInv'
  <2> USE DEF NextFile
  <2> DEFINE m == Marker(x, cred[t][1])
  <2>1. /\ pc'[t] = "sealWrite" /\ todo'[t] = todo[t] \ {x} /\ cur'[t] = x
        /\ \A u \in Threads : u = t
    BY <1>3, InvParts DEF JobsOK
  <2>2. x \in Names /\ cred[t][1] \in Kinds
    BY LoopTyped DEF SealOpen, SealLoopPC
  <2>3. Len(x[3]) < MaxSeals
    BY <1>3, <2>2, NameParts, LenProperties, BoundsAssumption
  <2>4. m \in Names /\ Becomes(m, Of(Nothing))
    BY <1>3, <2>2, <2>3, MarkerName, StoreChanges
  <2>5. StoreOK' /\ JobsOK'
    BY <1>3, <2>2, <2>4, InvParts, PlainFits DEF JobsOK, PC, SealPC
  <2>6. ControlOK' /\ ClientsCounted'
    BY <1>3, <2>1 DEF IInv, ControlOK, ClientsCounted, SealOpen, SealPC, UnsealPC
  <2>7. req[t].name \in todo[t]
    BY <1>3 DEF IInv, FileComesLast, SealOpen
  <2>8. FileComesLast'
    BY <1>3, <2>1, <2>7 DEF IInv, FileComesLast, SealOpen, SealLoopPC, UnsealPC, FilePC
  <2>9. MarkerInHand'
    BY <1>3, <2>1, <2>2, <2>3, <2>4 DEF MarkerInHand, MarkerOf, Exists, Becomes, FilePC
  <2>10. req[t].name \in todo'[t] => x # req[t].name
    BY <2>1
  <2>11. x # req[t].name =>
           \A kind \in Kinds : m # Marker(req[t].name, kind)
    BY <2>2, LoopTyped, MarkersDiffer DEF SealOpen, SealLoopPC
  <2>12. NotLockedYet'
    BY <1>3, <2>1, <2>4, <2>7, <2>10, <2>11
       DEF IInv, NotLockedYet, IsEncrypted, Exists, Becomes, SealOpen, SealLoopPC
  <2>13. LoopKeepsItsWord' /\ HooksTellTheTruth'
    BY <2>1 DEF LoopKeepsItsWord, HooksTellTheTruth
  <2> QED  BY <2>5, <2>6, <2>8, <2>9, <2>12, <2>13, InvParts DEF LoopInv
<1> QED  BY <1>1, <1>2, <1>3 DEF SealOpen

\* A marker that a handler changes inside its loop is the marker of the file or
\* of a version: it is the file's own marker only when the file is in hand.
LEMMA OtherMarker ==
    ASSUME IInv, NEW t \in Threads, pc[t] \in FilePC,
           NEW x \in Targets, NEW kind \in Kinds, cur[t] # x
    PROVE  MarkerOf(t) # Marker(x, kind)
<1>1. cur[t] \in Names /\ x \in Names /\ cred[t][1] \in Kinds
  BY FileTyped, TargetName, LoopTyped DEF FilePC, SealLoopPC, UnsealPC
<1> QED  BY <1>1, MarkersDiffer DEF MarkerOf

\* The content goes to the marker under one more seal.
LEMMA SealWriteKeeps ==
    ASSUME IInv, NEW t \in Threads, Threads = {t}, SealWrite(t)
    PROVE  IInv'
<1> USE DEF SealWrite, Then, jobVars
<1> DEFINE m == MarkerOf(t)
           c == Seal(Read(cur[t]), cred[t][2])
<1>1. pc[t] \in FilePC /\ pc[t] \in SealLoopPC
  BY DEF FilePC, SealLoopPC
<1>2. pc'[t] = "sealHide" /\ \A u \in Threads : u = t
  BY InvParts DEF JobsOK
<1>3. /\ Read(cur[t]) \in Contents
      /\ Len(Read(cur[t]).seals) <= Len(cur[t][3])
  BY <1>1, FileTyped, InvParts, ReadFits
<1>4. c \in Contents /\ Len(c.seals) <= Len(m[3])
  <2>1. cred[t][2] \in Keys
    BY <1>1, LoopTyped
  <2>2. Len(Read(cur[t]).seals) \in Nat /\ Len(cur[t][3]) \in Nat /\ MaxSeals \in Nat
    BY <1>1, <1>3, FileTyped, ContentParts, NameParts, LenProperties, BoundsAssumption
  <2> QED  BY <1>1, <1>3, <2>1, <2>2, FileTyped, SealContent
<1>5. Exists(m) /\ store' = Fill(m, c)
  BY DEF IInv, MarkerInHand
<1>6. Becomes(m, c) /\ m \in Names /\ m # cur[t]
  BY <1>1, <1>5, FileTyped, StoreChanges
<1> HIDE DEF c
<1>7. StoreOK' /\ JobsOK'
  BY <1>4, <1>6, InvParts, StoreKept DEF JobsOK, PC, SealPC
<1>8. ControlOK' /\ ClientsCounted'
  BY <1>2 DEF IInv, ControlOK, ClientsCounted, SealPC, UnsealPC
<1>9. FileComesLast'
  BY <1>2 DEF IInv, FileComesLast, SealLoopPC, UnsealPC, FilePC
<1>10. (Read(cur[t]))' = Read(cur[t]) /\ MarkerOf(t)' = m
  BY <1>6 DEF Read, Exists, Becomes, MarkerOf
<1>11. MarkerInHand'
  <2>1. store'[m] = c /\ m \in DOMAIN store'
    BY <1>6 DEF Becomes
  <2>2. c = (Seal(Read(cur[t]), cred[t][2]))'
    BY <1>10 DEF c, Seal
  <2>3. cur[t] \in Names /\ Len(cur[t][3]) < MaxSeals
    BY <1>1, FileTyped
  <2> QED  BY <1>2, <1>10, <2>1, <2>2, <2>3 DEF MarkerInHand, Exists, FilePC
<1>12. NotLockedYet'
  <2>1. req[t].name \in todo[t] => cur[t] # req[t].name
    BY <1>1, LoopTyped, TargetName DEF IInv, FileComesLast
  <2>2. req[t].name \in todo[t] => ~IsEncrypted(req[t].name)
    BY <1>1 DEF IInv, NotLockedYet
  <2>3. req[t].name \in todo[t] =>
          \A kind \in Kinds : m # Marker(req[t].name, kind)
    BY <1>1, <2>1, LoopTyped, OtherMarker
  <2> QED  BY <1>2, <1>6, <2>2, <2>3 DEF NotLockedYet, IsEncrypted, Exists, Becomes
<1>13. LoopKeepsItsWord' /\ HooksTellTheTruth'
  BY <1>2 DEF LoopKeepsItsWord, HooksTellTheTruth
<1> QED  BY <1>7, <1>8, <1>9, <1>11, <1>12, <1>13, InvParts DEF LoopInv

\* Only then is the file hidden.
LEMMA SealHideKeeps ==
    ASSUME IInv, NEW t \in Threads, Threads = {t}, SealHide(t)
    PROVE  IInv'
<1> USE DEF SealHide, Then, jobVars
<1> DEFINE m == Marker(req[t].name, cred[t][1])
<1>1. pc[t] \in FilePC /\ pc[t] \in SealLoopPC
  BY DEF FilePC, SealLoopPC
<1>2. pc'[t] = "sealOpen" /\ \A u \in Threads : u = t
  BY InvParts DEF JobsOK
<1>3. Becomes(cur[t], Of(Placeholder)) /\ cur[t] \in Names
  BY <1>1, FileTyped, StoreChanges
<1>4. StoreOK' /\ JobsOK'
  BY <1>3, InvParts, PlainFits DEF JobsOK, PC, SealPC
<1>5. ControlOK' /\ ClientsCounted'
  BY <1>2 DEF IInv, ControlOK, ClientsCounted, SealPC, UnsealPC
<1>6. FileComesLast'
  BY <1>2 DEF IInv, FileComesLast, SealLoopPC, UnsealPC, FilePC
<1>7. MarkerInHand' /\ HooksTellTheTruth'
  BY <1>2 DEF MarkerInHand, HooksTellTheTruth, FilePC
<1>8. NotLockedYet'
  <2>1. req[t].name \in todo[t] => ~IsEncrypted(req[t].name) /\ cur[t][2] # 0
    BY <1>1, TargetName, LoopTyped DEF IInv, NotLockedYet, FileComesLast
  <2>2. \A kind \in Kinds : Marker(req[t].name, kind)[2] = 0
    BY <1>1, LoopTyped, TargetName, MarkerName
  <2> QED  BY <1>2, <1>3, <2>1, <2>2 DEF NotLockedYet, IsEncrypted, Exists, Becomes
<1>9. LoopKeepsItsWord'
  <2>1. SUFFICES ASSUME todo[t] = {}
                 PROVE  LoopKeepsItsWord'
    BY <1>2 DEF LoopKeepsItsWord
  <2>2. cur[t] = req[t].name /\ MarkerOf(t) = m
    BY <1>1, <2>1 DEF IInv, FileComesLast, MarkerOf
  <2>3. Exists(m) /\ store[m] = Seal(Read(cur[t]), cred[t][2])
    BY <2>2 DEF IInv, MarkerInHand
  <2>4. Opens(cred[t][2], store[m]) /\ m # cur[t]
    BY <1>1, <2>2, <2>3, FileTyped, LoopTyped, InvParts, ReadFits, SealContent
  <2>5. /\ Exists(m)' /\ store'[m] = store[m]
        /\ store'[req[t].name] = Of(Placeholder)
    BY <1>3, <2>2, <2>3, <2>4 DEF Becomes, Exists
  <2> QED  BY <1>2, <2>4, <2>5 DEF LoopKeepsItsWord, Opens
<1> QED  BY <1>4, <1>5, <1>6, <1>7, <1>8, <1>9, InvParts DEF LoopInv

-----------------------------------------------------------------------------
(* decrypt_file *)

\* The stream on the file truncates it; what the marker holds is in memory.
LEMMA UnsealOpenKeeps ==
    ASSUME IInv, NEW t \in Threads, Threads = {t}, UnsealOpen(t)
    PROVE  IInv'
<1> USE DEF UnsealOpen
<1>0. pc[t] \in UnsealPC
  BY DEF UnsealPC
<1>1. CASE todo[t] = {} /\ Finish(t, success[t])
  <2>1. success[t] \in BOOLEAN
    BY InvParts DEF JobsOK
  <2> QED  BY <1>1, <2>1, FinishKeeps DEF Finish
<1>2. ASSUME NEW x \in todo[t], NextFile(t, x), x[3] # <<>>, UNCHANGED <<store, pc, buf>>
      PROVE  IInv'
  <2> USE DEF NextFile
  <2>1. pc'[t] = "unsealOpen" /\ todo'[t] = todo[t] \ {x} /\ \A u \in Threads : u = t
    BY <1>2, InvParts DEF JobsOK
  <2>2. x \in Names /\ x # req[t].name
    BY <1>0, <1>2, LoopTyped, TargetName
  <2>3. StoreOK' /\ JobsOK'
    BY <1>2, <2>2, InvParts, StoreKept DEF JobsOK
  <2>4. ControlOK' /\ ClientsCounted'
    BY <1>2 DEF IInv, ControlOK, ClientsCounted
  <2>5. req[t].name \in todo[t]
    BY <1>2 DEF IInv, FileComesLast
  <2>6. FileComesLast'
    BY <1>2, <2>1, <2>2, <2>5 DEF IInv, FileComesLast, SealLoopPC, UnsealPC, FilePC
  <2>7. MarkerInHand' /\ NotLockedYet' /\ LoopKeepsItsWord' /\ HooksTellTheTruth'
    BY <2>1, <2>2, <2>5
       DEF MarkerInHand, NotLockedYet, LoopKeepsItsWord, HooksTellTheTruth, FilePC, SealLoopPC
  <2> QED  BY <2>3, <2>4, <2>6, <2>7, InvParts DEF LoopInv
<1>3. ASSUME NEW x \in todo[t], NextFile(t, x), x[3] = <<>>,
             buf' = [buf EXCEPT ![t] = Read(Marker(x, cred[t][1]))],
             store' = Put(x, Of(Nothing)), Goto(t, "unsealWrite")
      PROVE  IInv'
  <2> USE DEF NextFile
  <2> DEFINE m == Marker(x, cred[t][1])
  <2>1. /\ pc'[t] = "unsealWrite" /\ todo'[t] = todo[t] \ {x} /\ cur'[t] = x
        /\ buf'[t] = Read(m) /\ \A u \in Threads : u = t
    BY <1>3, InvParts DEF JobsOK
  <2>2. x \in Names /\ cred[t][1] \in Kinds
    BY <1>0, LoopTyped
  <2>3. Len(x[3]) < MaxSeals
    BY <1>3, EmptySeq, BoundsAssumption
  <2>4. m \in Names /\ m # x /\ Becomes(x, Of(Nothing))
    <3>1. m \in Names /\ m[3] # <<>>
      BY <2>2, <2>3, MarkerName
    <3> QED  BY <1>3, <3>1, StoreChanges
  <2>5. StoreOK'
    BY <2>2, <2>4, InvParts, PlainFits
  <2>6. JobsOK'
    BY <1>3, <2>2, <2>4, InvParts, ReadFits DEF JobsOK, PC, UnsealPC
  <2>7. ControlOK' /\ ClientsCounted'
    BY <1>3, <2>1 DEF IInv, ControlOK, ClientsCounted, SealPC, UnsealPC
  <2>8. req[t].name \in todo[t]
    BY <1>3 DEF IInv, FileComesLast
  <2>9. FileComesLast'
    BY <1>3, <2>1, <2>8 DEF IInv, FileComesLast, SealLoopPC, UnsealPC, FilePC
  <2>10. MarkerInHand'
    <3>1. (Read(m))' = Read(m) /\ MarkerOf(t)' = m
      BY <1>3, <2>1, <2>4 DEF Read, Exists, Becomes, MarkerOf
    <3>2. Exists(x)'
      BY <2>4 DEF Exists, Becomes
    <3> QED  BY <1>3, <2>1, <2>2, <2>3, <3>1, <3>2 DEF MarkerInHand, FilePC
  <2>11. NotLockedYet' /\ LoopKeepsItsWord' /\ HooksTellTheTruth'
    BY <2>1 DEF NotLockedYet, LoopKeepsItsWord, HooksTellTheTruth, SealLoopPC
  <2> QED  BY <2>5, <2>6, <2>7, <2>9, <2>10, <2>11, InvParts DEF LoopInv
<1> QED  BY <1>1, <1>2, <1>3

\* Whatever a failure leaves in the file fits its name.
LEMMA FailureFits ==
    ASSUME NEW k, NEW c \in Contents, NEW n \in Nat, Len(c.seals) <= n + 1,
           NEW d \in AfterFailure(k, c)
    PROVE  d \in Contents /\ Len(d.seals) <= n
<1>1. CASE d \in {Of(Placeholder), Of(Garbled)}
  BY <1>1, PlainContent
<1>2. CASE d = Unseal(c) /\ Opens(k, c)
  <2>1. /\ Unseal(c) \in Contents
        /\ Len(Unseal(c).seals) = Len(c.seals) - 1
    BY <1>2, UnsealContent DEF Opens
  <2>2. Len(c.seals) \in Nat
    BY ContentParts, LenProperties
  <2> QED  BY <1>2, <2>1, <2>2
<1> QED  BY <1>1, <1>2 DEF AfterFailure

\* The content of the marker is in the file before the marker is removed.
LEMMA UnsealWriteKeeps ==
    ASSUME IInv, NEW t \in Threads, Threads = {t}, UnsealWrite(t)
    PROVE  IInv'
<1> USE DEF UnsealWrite
<1> DEFINE m == MarkerOf(t)
           opens == Opens(cred[t][2], buf[t])
<1>1. pc[t] \in FilePC /\ pc[t] \in UnsealPC /\ \A u \in Threads : u = t
  BY DEF FilePC, UnsealPC
<1>2. /\ cur[t] \in Names /\ m \in Names /\ m # cur[t] /\ Exists(cur[t])
      /\ buf[t] = Read(m) /\ cur[t][3] = <<>> /\ Len(cur[t][3]) = 0
      /\ Len(m[3]) = 1
  <2>1. Exists(cur[t]) /\ buf[t] = Read(m) /\ cur[t][3] = <<>>
    BY DEF IInv, MarkerInHand
  <2>2. Len(cur[t][3]) = 0
    BY <2>1, EmptySeq
  <2>3. /\ cur[t] \in Names /\ m \in Names /\ m # cur[t]
        /\ Len(m[3]) = Len(cur[t][3]) + 1
    BY <1>1, FileTyped
  <2>4. Len(m[3]) = 1
    BY <2>2, <2>3
  <2> QED  BY <2>1, <2>2, <2>3, <2>4
<1>3. /\ buf[t] \in Contents /\ Len(buf[t].seals) <= 1
  BY <1>2, InvParts, ReadFits
<1>4. CASE /\ opens /\ success[t]
           /\ store' = Fill(cur[t], Unseal(buf[t]))
           /\ Goto(t, "unsealRemove")
           /\ UNCHANGED success
  <2>1. pc'[t] = "unsealRemove"
    BY <1>4, InvParts DEF JobsOK
  <2>2. Becomes(cur[t], Unseal(buf[t]))
    BY <1>2, <1>4, StoreChanges
  <2>3. Unseal(buf[t]) \in Contents /\ Len(Unseal(buf[t]).seals) <= 0
    BY <1>3, <1>4, UnsealContent, ContentParts, LenProperties DEF Opens
  <2>4. StoreOK'
    BY <1>2, <2>2, <2>3, InvParts, StoreKept
  <2>5. JobsOK'
    BY <1>4, InvParts DEF JobsOK, PC, UnsealPC
  <2>6. ControlOK' /\ ClientsCounted'
    BY <1>4, <2>1 DEF IInv, ControlOK, ClientsCounted, SealPC, UnsealPC
  <2>7. FileComesLast'
    BY <1>1, <2>1 DEF IInv, FileComesLast, SealLoopPC, UnsealPC, FilePC
  <2>8. MarkerInHand'
    <3>1. (Read(m))' = Read(m) /\ MarkerOf(t)' = m
      BY <1>2, <2>2 DEF Read, Exists, Becomes, MarkerOf
    <3>2. cur[t] \in DOMAIN store' /\ store'[cur[t]] = Unseal(buf[t])
      BY <2>2 DEF Becomes
    <3>3. (Unseal(buf[t]))' = Unseal(buf[t])
      BY DEF Unseal
    <3>4. Len(cur[t][3]) < MaxSeals
      BY <1>1, FileTyped
    <3> QED  BY <1>1, <1>2, <2>1, <3>1, <3>2, <3>3, <3>4 DEF MarkerInHand, Exists, FilePC
  <2>9. NotLockedYet' /\ LoopKeepsItsWord' /\ HooksTellTheTruth'
    BY <1>1, <2>1 DEF NotLockedYet, LoopKeepsItsWord, HooksTellTheTruth, SealLoopPC
  <2> QED  BY <2>4, <2>5, <2>6, <2>7, <2>8, <2>9, InvParts DEF LoopInv
<1>5. ASSUME NEW c \in AfterFailure(cred[t][2], buf[t]), store' = Put(cur[t], c),
             success' = [success EXCEPT ![t] = FALSE], Goto(t, "unsealOpen")
      PROVE  IInv'
  <2>1. pc'[t] = "unsealOpen" /\ ~success'[t]
    BY <1>5, InvParts DEF JobsOK
  <2>2. Becomes(cur[t], c)
    BY <1>5, StoreChanges
  <2>3. c \in Contents /\ Len(c.seals) <= 0
    <3>1. 0 \in Nat /\ Len(buf[t].seals) <= 0 + 1
      BY <1>3
    <3> QED  BY <1>3, <1>5, <3>1, FailureFits
  <2>4. StoreOK'
    BY <1>2, <2>2, <2>3, InvParts, StoreKept
  <2>5. JobsOK'
    BY <1>5, InvParts DEF JobsOK, PC, UnsealPC
  <2>6. ControlOK' /\ ClientsCounted'
    BY <1>5, <2>1 DEF IInv, ControlOK, ClientsCounted, SealPC, UnsealPC
  <2>7. FileComesLast'
    BY <1>1, <2>1 DEF IInv, FileComesLast, SealLoopPC, UnsealPC, FilePC
  <2>8. MarkerInHand' /\ NotLockedYet' /\ LoopKeepsItsWord' /\ HooksTellTheTruth'
    BY <1>1, <2>1 DEF MarkerInHand, NotLockedYet, LoopKeepsItsWord, HooksTellTheTruth,
                      FilePC, SealLoopPC
  <2> QED  BY <2>4, <2>5, <2>6, <2>7, <2>8, InvParts DEF LoopInv
<1> QED  BY <1>4, <1>5

\* An unlock that has come to its end without a failure has removed the marker.
LEMMA UnsealRemoveKeeps ==
    ASSUME IInv, NEW t \in Threads, Threads = {t}, UnsealRemove(t)
    PROVE  IInv'
<1> USE DEF UnsealRemove, Then, jobVars
<1>1. pc[t] \in FilePC /\ pc[t] \in UnsealPC /\ \A u \in Threads : u = t
  BY DEF FilePC, UnsealPC
<1>2. pc'[t] = "unsealOpen"
  BY InvParts DEF JobsOK
<1>3. Loses({MarkerOf(t)})
  BY StoreChanges
<1>4. StoreOK' /\ JobsOK'
  BY <1>3, InvParts, StoreKept DEF JobsOK, PC, UnsealPC
<1>5. ControlOK' /\ ClientsCounted'
  BY <1>2 DEF IInv, ControlOK, ClientsCounted, SealPC, UnsealPC
<1>6. FileComesLast'
  BY <1>1, <1>2 DEF IInv, FileComesLast, SealLoopPC, UnsealPC, FilePC
<1>7. MarkerInHand' /\ NotLockedYet' /\ HooksTellTheTruth'
  BY <1>1, <1>2 DEF MarkerInHand, NotLockedYet, HooksTellTheTruth, FilePC, SealLoopPC
<1>8. LoopKeepsItsWord'
  <2>1. todo[t] = {} => MarkerOf(t) = Marker(req[t].name, cred[t][1])
    BY <1>1 DEF IInv, FileComesLast, MarkerOf
  <2> QED  BY <1>1, <1>2, <1>3, <2>1 DEF LoopKeepsItsWord, Exists, Loses
<1> QED  BY <1>4, <1>5, <1>6, <1>7, <1>8, InvParts DEF LoopInv

-----------------------------------------------------------------------------
(* Hooks, open and release *)

\* A step of a handler outside the loops: what is left to show.
LEMMA HandlerMoves ==
    ASSUME IInv, NEW t \in Threads, Threads = {t}, pc[t] # "idle",
           NEW label \in {"isEncrypted", "openFile", "removeTmp", "reloadDefault",
                          "closeAgain"},
           Goto(t, label), StoreOK',
           opened' \in [Targets -> 0..MaxOpens],
           cred' \in [Threads -> Creds \union {NoCred}],
           label = "isEncrypted" => req[t].op \in SealerOps \ {"open"} /\ cred'[t] \in Creds,
           label = "openFile" => req[t].op = "open" /\ UNCHANGED opened /\ pc[t] # "return",
           label \in {"removeTmp", "reloadDefault", "closeAgain"} => req[t].op = "release",
           UNCHANGED <<default, req, todo, cur, buf, success, reply>>
    PROVE  IInv'
<1>1. pc'[t] = label /\ \A u \in Threads : u = t
  BY InvParts DEF JobsOK
<1>2. JobsOK'
  BY InvParts DEF JobsOK, PC, SealPC
<1>3. ControlOK'
  BY <1>1 DEF IInv, ControlOK, SealPC, UnsealPC
<1>4. ClientsCounted'
  BY <1>1 DEF IInv, ClientsCounted, SealerOps
<1>5. LoopInv' /\ HooksTellTheTruth'
  BY OutsideLoops DEF PC, SealPC, SealLoopPC, UnsealPC
<1> QED  BY <1>2, <1>3, <1>4, <1>5, InvParts

\* A lock with the default key begins only when the key can be read.
LEMMA LoadDefaultKeeps ==
    ASSUME IInv, NEW t \in Threads, Threads = {t}, LoadDefault(t)
    PROVE  IInv'
<1> USE DEF LoadDefault, jobVars
<1>1. req[t].op = "defaultLock" /\ opened \in [Targets -> 0..MaxOpens]
  BY InvParts DEF IInv, ControlOK, JobsOK
<1>2. CASE UseDefault(t, "isEncrypted")
  <2>1. <<"key", default>> \in Creds
    BY <1>2 DEF UseDefault, Creds
  <2>2. cred'[t] \in Creds /\ cred' \in [Threads -> Creds \union {NoCred}]
    BY <1>2, <2>1, InvParts DEF UseDefault, JobsOK
  <2>3. StoreOK'
    BY <1>2, InvParts, StoreKept DEF UseDefault
  <2> QED  BY <1>1, <1>2, <2>2, <2>3, HandlerMoves DEF UseDefault, SealerOps
<1>3. CASE Answer(t, "failed") /\ UNCHANGED <<store, default, opened, jobVars>>
  BY <1>1, <1>3, AnswerKeeps
<1> QED  BY <1>2, <1>3

\* open unseals a file only when it is under a key and the default key is there.
LEMMA CheckLockedKeeps ==
    ASSUME IInv, NEW t \in Threads, Threads = {t}, CheckLocked(t)
    PROVE  IInv'
<1> USE DEF CheckLocked, jobVars
<1>1. /\ req[t] \in Requests /\ req[t].op = "open" /\ \A u \in Threads : u = t
      /\ opened \in [Targets -> 0..MaxOpens]
      /\ cred \in [Threads -> Creds \union {NoCred}]
  BY InvParts DEF IInv, ControlOK, JobsOK
<1>2. CASE UseDefault(t, "readRelated")
  <2> USE DEF UseDefault
  <2>1. <<"key", default>> \in Creds
    BY <1>2 DEF Creds
  <2>2. pc'[t] = "readRelated" /\ cred'[t] \in Creds
    BY <1>2, <2>1, InvParts DEF JobsOK
  <2>3. StoreOK' /\ JobsOK'
    BY <1>2, <2>1, InvParts, StoreKept DEF JobsOK, PC
  <2>4. ControlOK' /\ ClientsCounted'
    BY <1>1, <1>2, <2>2 DEF IInv, ControlOK, ClientsCounted, SealPC, UnsealPC
  <2>5. LoopInv' /\ HooksTellTheTruth'
    BY <1>1, <1>2, <2>2
       DEF LoopInv, FileComesLast, MarkerInHand, NotLockedYet, LoopKeepsItsWord,
           HooksTellTheTruth, Sealing, SealLoopPC, UnsealPC, FilePC
  <2> QED  BY <2>3, <2>4, <2>5, InvParts
<1>3. CASE Then(t, "openFile") /\ UNCHANGED store
  <2>1. StoreOK'
    BY <1>3, InvParts, StoreKept
  <2> QED  BY <1>1, <1>3, <2>1, HandlerMoves DEF Then
<1> QED  BY <1>2, <1>3

\* The tmp marker of a file that is not under it yet is empty.
LEMMA MakeTmpKeeps ==
    ASSUME IInv, NEW t \in Threads, Threads = {t}, MakeTmp(t)
    PROVE  IInv'
<1> USE DEF MakeTmp, Then, jobVars
<1> DEFINE m == Tmp(req[t].name)
<1>1. /\ req[t] \in Requests /\ req[t].op = "open"
      /\ opened \in [Targets -> 0..MaxOpens]
      /\ cred \in [Threads -> Creds \union {NoCred}]
  BY InvParts DEF IInv, ControlOK, JobsOK
<1>2. req[t].name \in Names /\ Len(req[t].name[3]) < MaxSeals
  BY <1>1, RequestParts, TargetName
<1>3. m \in Names /\ Becomes(m, Read(m))
  BY <1>2, MarkerName, StoreChanges DEF Tmp
<1>4. StoreOK'
  BY <1>3, InvParts, ReadFits, StoreKept
<1> QED  BY <1>1, <1>4, HandlerMoves

\* open counts a client for whom there is room.
LEMMA OpenFileKeeps ==
    ASSUME IInv, NEW t \in Threads, Threads = {t}, OpenFile(t)
    PROVE  IInv'
<1> USE DEF OpenFile
<1> DEFINE x == req[t].name
<1>1. /\ req[t] \in Requests /\ req[t].op = "open"
      /\ opened \in [Targets -> 0..MaxOpens] /\ opened[x] < MaxOpens
  BY InvParts DEF IInv, ControlOK, ClientsCounted, JobsOK
<1>2. x \in Targets /\ MaxOpens \in Nat
  BY <1>1, RequestParts, BoundsAssumption
<1>3. opened[x] + 1 \in 0..MaxOpens
  BY <1>1, <1>2
<1>4. opened' \in [Targets -> 0..MaxOpens]
  BY <1>1, <1>3
<1>5. CASE opened' = [opened EXCEPT ![x] = @ + 1] /\ Answer(t, "ok")
  <2>1. StoreOK' /\ JobsOK'
    BY <1>4, <1>5, InvParts, StoreKept DEF JobsOK, PC, Answer, jobVars
  <2>2. pc'[t] = "return" /\ \A u \in Threads : u = t
    BY <1>5, InvParts DEF JobsOK, Answer
  <2>3. ControlOK' /\ ClientsCounted'
    BY <1>1, <2>2 DEF IInv, ControlOK, ClientsCounted, SealPC, UnsealPC, jobVars
  <2>4. LoopInv' /\ HooksTellTheTruth'
    BY <1>1, <2>2
       DEF LoopInv, FileComesLast, MarkerInHand, NotLockedYet, LoopKeepsItsWord,
           HooksTellTheTruth, SealLoopPC, UnsealPC, FilePC, jobVars
  <2> QED  BY <2>1, <2>3, <2>4, InvParts
<1>6. CASE Answer(t, "enoent") /\ UNCHANGED opened
  BY <1>1, <1>6, AnswerKeeps
<1> QED  BY <1>5, <1>6

\* release takes away a client that was there.
LEMMA CheckTmpKeeps ==
    ASSUME IInv, NEW t \in Threads, Threads = {t}, CheckTmp(t)
    PROVE  IInv'
<1> USE DEF CheckTmp
<1> DEFINE x == req[t].name
<1>1. /\ req[t] \in Requests /\ req[t].op = "release"
      /\ opened \in [Targets -> 0..MaxOpens] /\ opened[x] > 0
      /\ cred \in [Threads -> Creds \union {NoCred}]
  BY InvParts DEF IInv, ControlOK, ClientsCounted, JobsOK
<1>2. x \in Targets /\ MaxOpens \in Nat
  BY <1>1, RequestParts, BoundsAssumption
<1>3. opened[x] - 1 \in 0..MaxOpens
  BY <1>1, <1>2
<1>4. opened' \in [Targets -> 0..MaxOpens]
  BY <1>1, <1>3 DEF Close
<1>5. StoreOK'
  BY InvParts, StoreKept
<1>6. CASE Goto(t, "removeTmp") /\ UNCHANGED reply
  BY <1>1, <1>4, <1>5, <1>6, HandlerMoves DEF jobVars
<1>7. CASE Answer(t, "ok")
  BY <1>1, <1>4, <1>7, AnswerKeeps
<1> QED  BY <1>6, <1>7

\* The tmp marker goes before the file is locked again.
LEMMA RemoveTmpKeeps ==
    ASSUME IInv, NEW t \in Threads, Threads = {t}, RemoveTmp(t)
    PROVE  IInv'
<1> USE DEF RemoveTmp, Then, jobVars
<1>1. /\ req[t].op = "release"
      /\ opened \in [Targets -> 0..MaxOpens]
      /\ cred \in [Threads -> Creds \union {NoCred}]
  BY InvParts DEF IInv, ControlOK, JobsOK
<1>2. StoreOK'
  BY InvParts, StoreChanges, StoreKept
<1> QED  BY <1>1, <1>2, HandlerMoves

\* release locks a file again only with a default key that can be read.
LEMMA ReloadDefaultKeeps ==
    ASSUME IInv, NEW t \in Threads, Threads = {t}, ReloadDefault(t)
    PROVE  IInv'
<1> USE DEF ReloadDefault, jobVars
<1>1. /\ req[t].op = "release"
      /\ opened \in [Targets -> 0..MaxOpens]
      /\ cred \in [Threads -> Creds \union {NoCred}]
  BY InvParts DEF IInv, ControlOK, JobsOK
<1>2. CASE UseDefault(t, "isEncrypted")
  <2>1. <<"key", default>> \in Creds
    BY <1>2 DEF UseDefault, Creds
  <2>2. cred'[t] \in Creds /\ cred' \in [Threads -> Creds \union {NoCred}]
    BY <1>1, <1>2, <2>1 DEF UseDefault
  <2>3. StoreOK'
    BY <1>2, InvParts, StoreKept DEF UseDefault
  <2> QED  BY <1>1, <1>2, <2>2, <2>3, HandlerMoves DEF UseDefault, SealerOps
<1>3. CASE Then(t, "closeAgain") /\ UNCHANGED store
  <2>1. StoreOK'
    BY <1>3, InvParts, StoreKept
  <2> QED  BY <1>1, <1>3, <2>1, HandlerMoves DEF Then
<1> QED  BY <1>2, <1>3

\* The second close of a descriptor fails, and nothing else changes.
LEMMA CloseAgainKeeps ==
    ASSUME IInv, NEW t \in Threads, Threads = {t}, CloseAgain(t)
    PROVE  IInv'
<1>1. opened \in [Targets -> 0..MaxOpens]
  BY InvParts DEF JobsOK
<1> QED  BY <1>1, AnswerKeeps DEF CloseAgain

\* The worker is free again.
LEMMA ReturnKeeps ==
    ASSUME IInv, NEW t \in Threads, Threads = {t}, Return(t)
    PROVE  IInv'
<1> USE DEF Return
<1>1. pc'[t] = "idle" /\ req'[t] = NoRequest /\ \A u \in Threads : u = t
  BY InvParts DEF JobsOK
<1>2. StoreOK' /\ JobsOK'
  BY InvParts, StoreKept, PlainContent DEF JobsOK, PC
<1>3. ControlOK' /\ ClientsCounted'
  BY <1>1 DEF ControlOK, ClientsCounted, SealPC, UnsealPC
<1>4. LoopInv' /\ HooksTellTheTruth'
  BY OutsideLoops DEF PC, SealLoopPC, UnsealPC
<1> QED  BY <1>2, <1>3, <1>4, InvParts

-----------------------------------------------------------------------------
(* Clients *)

\* A request is taken up: what is left to show.
LEMMA BeginKeeps ==
    ASSUME IInv, NEW t \in Threads, Threads = {t}, NEW r \in Requests,
           NEW c \in Creds \union {NoCred},
           NEW label \in {"isEncrypted", "loadDefault", "readRelated", "checkLocked", "checkTmp"},
           Begin(t, r, c, label),
           label = "isEncrypted" => r.op \in SealerOps /\ c \in Creds,
           label = "loadDefault" => r.op = "defaultLock",
           label = "readRelated" => r.op = "unlock" /\ c \in Creds,
           label = "checkLocked" => r.op = "open" /\ opened[r.name] < MaxOpens,
           label = "checkTmp" => r.op = "release" /\ opened[r.name] > 0
    PROVE  IInv'
<1> USE DEF Begin
<1>1. pc'[t] = label /\ req'[t] = r /\ cred'[t] = c /\ \A u \in Threads : u = t
  BY InvParts DEF JobsOK
<1>2. StoreOK' /\ JobsOK'
  BY InvParts, StoreKept DEF JobsOK, PC, SealPC
<1>3. ControlOK'
  BY <1>1 DEF ControlOK, SealPC, UnsealPC
<1>4. ClientsCounted'
  BY <1>1 DEF ClientsCounted, SealerOps
<1>5. LoopInv' /\ HooksTellTheTruth'
  BY <1>1 DEF LoopInv, FileComesLast, MarkerInHand, NotLockedYet, LoopKeepsItsWord,
              HooksTellTheTruth, Sealing, SealLoopPC, UnsealPC, FilePC
<1> QED  BY <1>2, <1>3, <1>4, <1>5, InvParts

\* Whatever clients ask for, a handler begins where its invariants hold.
LEMMA ClientsKeep ==
    ASSUME IInv, NEW t \in Threads, Threads = {t}, NEW x \in Targets,
           \/ BeginLock(t, x) \/ BeginUnlock(t, x)
           \/ BeginOpen(t, x) \/ BeginRelease(t, x)
    PROVE  IInv'
<1>1. CASE BeginLock(t, x)
  <2>1. ASSUME NEW c \in Creds,
               Begin(t, [op |-> "lock", name |-> x, cred |-> c], c, "isEncrypted")
        PROVE  IInv'
    <3>1. [op |-> "lock", name |-> x, cred |-> c] \in Requests
      BY DEF Requests
    <3> QED  BY <2>1, <3>1, BeginKeeps DEF SealerOps
  <2>2. CASE Begin(t, [op |-> "defaultLock", name |-> x], NoCred, "loadDefault")
    <3>1. [op |-> "defaultLock", name |-> x] \in Requests
      BY DEF Requests
    <3> QED  BY <2>2, <3>1, BeginKeeps
  <2> QED  BY <1>1, <2>1, <2>2 DEF BeginLock
<1>2. CASE BeginUnlock(t, x)
  <2>1. PICK c \in Creds :
          Begin(t, [op |-> "unlock", name |-> x, cred |-> c], c, "readRelated")
    BY <1>2 DEF BeginUnlock
  <2>2. [op |-> "unlock", name |-> x, cred |-> c] \in Requests
    BY DEF Requests
  <2> QED  BY <2>1, <2>2, BeginKeeps
<1>3. CASE BeginOpen(t, x)
  <2>1. Opening(x) = {}
    BY <1>3 DEF BeginOpen, Begin, Opening, IInv, ControlOK
  <2>2. opened[x] < MaxOpens
    <3>1. opened[x] \in Nat
      BY InvParts DEF JobsOK
    <3> QED  BY <1>3, <2>1, <3>1, FS_EmptySet DEF BeginOpen
  <2>3. [op |-> "open", name |-> x] \in Requests
    BY DEF Requests
  <2> QED  BY <1>3, <2>2, <2>3, BeginKeeps DEF BeginOpen
<1>4. CASE BeginRelease(t, x)
  <2>1. Closing(x) = {}
    BY <1>4 DEF BeginRelease, Begin, Closing
  <2>2. opened[x] > 0
    BY <1>4, <2>1, FS_EmptySet DEF BeginRelease
  <2>3. [op |-> "release", name |-> x] \in Requests
    BY DEF Requests
  <2> QED  BY <1>4, <2>2, <2>3, BeginKeeps DEF BeginRelease
<1> QED  BY <1>1, <1>2, <1>3, <1>4

\* A call of a client while the worker is idle: what is left to show.
LEMMA QuietKeeps ==
    ASSUME IInv, NEW t \in Threads, Threads = {t}, pc[t] = "idle",
           StoreOK', opened' \in [Targets -> 0..MaxOpens],
           default' \in KeyFiles \union {NoDefault, BadDefault},
           UNCHANGED <<pc, jobVars, reply>>
    PROVE  IInv'
<1> USE DEF jobVars
<1>1. pc'[t] = "idle" /\ \A u \in Threads : u = t
  OBVIOUS
<1>2. JobsOK'
  BY InvParts DEF JobsOK
<1>3. ControlOK' /\ ClientsCounted'
  BY <1>1 DEF IInv, ControlOK, ClientsCounted, SealPC, UnsealPC
<1>4. LoopInv' /\ HooksTellTheTruth'
  BY <1>1 DEF LoopInv, FileComesLast, MarkerInHand, NotLockedYet, LoopKeepsItsWord,
              HooksTellTheTruth, SealLoopPC, UnsealPC, FilePC
<1> QED  BY <1>2, <1>3, <1>4, InvParts

\* Whatever a client writes, moves or removes fits the names it goes to.
LEMMA CallsFit ==
    ASSUME StoreOK, opened \in [Targets -> 0..MaxOpens]
    PROVE  /\ \A x \in Targets : Truncate(x) => StoreOK' /\ UNCHANGED opened
           /\ \A x \in Targets, d \in Data :
                Write(x, d) \/ Generate(x, d) => StoreOK' /\ UNCHANGED opened
           /\ \A f \in Files : Mknod(f) => StoreOK' /\ UNCHANGED opened
           /\ \A f \in Files : Unlink(f) =>
                StoreOK' /\ opened' \in [Targets -> 0..MaxOpens]
           /\ \A f \in Files, g \in Files : Rename(f, g) =>
                StoreOK' /\ opened' \in [Targets -> 0..MaxOpens]
           /\ \A f \in Files, n \in 1..MaxVersion :
                RestoreVersion(f, n) \/ DeleteVersion(f, n) => StoreOK' /\ UNCHANGED opened
           /\ \A f \in Files : DeleteAllVersions(f) => StoreOK' /\ UNCHANGED opened
<1>0. MaxVersion \in Nat /\ MaxOpens \in Nat /\ 0 \in 0..MaxVersion
  BY BoundsAssumption
<1>1. ASSUME NEW f \in Files, NEW n \in 0..MaxVersion
      PROVE  /\ Plain(f, n) \in Names
             /\ \A c \in Contents : Becomes(Plain(f, n), c) /\ Len(c.seals) = 0 => StoreOK'
             /\ Exists(Plain(f, n)) => /\ store[Plain(f, n)] \in Contents
                                       /\ Len(store[Plain(f, n)].seals) = 0
  <2>1. Plain(f, n) \in Names /\ Len(Plain(f, n)[3]) = 0
    BY PlainName
  <2>2. Exists(Plain(f, n)) => Read(Plain(f, n)) = store[Plain(f, n)]
    BY DEF Read
  <2>3. \A c \in Contents : Len(c.seals) \in Nat
    BY ContentParts, LenProperties
  <2> QED  BY <2>1, <2>2, <2>3, StoreKept, ReadFits
<1>2. ASSUME NEW f \in Files
      PROVE  Plain(f, 0) \in Targets
  BY DEF Targets
<1>3. ASSUME NEW x \in Targets, Truncate(x)
      PROVE  StoreOK' /\ UNCHANGED opened
  BY <1>3, TargetName, StoreChanges, PlainFits DEF Truncate
<1>4. ASSUME NEW x \in Targets, NEW d \in Data, Generate(x, d)
      PROVE  StoreOK' /\ UNCHANGED opened
  BY <1>4, TargetName, StoreChanges, PlainFits DEF Generate
<1>5. ASSUME NEW x \in Targets, NEW d \in Data, Write(x, d)
      PROVE  StoreOK' /\ UNCHANGED opened
  <2>1. PICK n \in 1..MaxVersion :
          store' = [y \in DOMAIN store \union {x, Plain(x[1], n)} |->
                      IF y \in {x, Plain(x[1], n)} THEN Of(d) ELSE store[y]]
    BY <1>5 DEF Write
  <2>2. x \in Names /\ Plain(x[1], n) \in Names
    BY <1>0, TargetName, PlainName
  <2>3. Of(d) \in Contents /\ Len(Of(d).seals) = 0
    BY PlainContent
  <2>4. \A y \in Names : Len(y[3]) \in Nat
    BY NameParts, LenProperties
  <2> DEFINE X == {x, Plain(x[1], n)}
  <2>5. /\ DOMAIN store' = DOMAIN store \union X
        /\ \A y \in X : store'[y] = Of(d)
        /\ \A y \in DOMAIN store \ X : store'[y] = store[y]
    BY <2>1
  <2>6. X \subseteq Names
    BY <2>2
  <2> HIDE DEF X
  <2> QED  BY <1>5, <2>3, <2>4, <2>5, <2>6 DEF Write, StoreOK, SealsFitNames
<1>6. ASSUME NEW f \in Files, Mknod(f)
      PROVE  StoreOK' /\ UNCHANGED opened
  <2>1. Becomes(Plain(f, 0), Of(Nothing))
    BY <1>6, StoreChanges DEF Mknod
  <2>2. Of(Nothing) \in Contents /\ Len(Of(Nothing).seals) = 0
    BY PlainContent
  <2> QED  BY <1>0, <1>1, <1>6, <2>1, <2>2 DEF Mknod
<1>7. ASSUME NEW f \in Files, Unlink(f)
      PROVE  StoreOK' /\ opened' \in [Targets -> 0..MaxOpens]
  <2>1. StoreOK'
    BY <1>7, StoreChanges, StoreKept DEF Unlink
  <2>2. Plain(f, 0) \in Targets /\ 0 \in 0..MaxOpens
    BY <1>0, <1>2
  <2> QED  BY <1>7, <2>1, <2>2 DEF Unlink
<1>8. ASSUME NEW f \in Files, NEW g \in Files, Rename(f, g)
      PROVE  StoreOK' /\ opened' \in [Targets -> 0..MaxOpens]
  <2> DEFINE x == Plain(f, 0)
             y == Plain(g, 0)
  <2>1. x \in Targets /\ y \in Targets /\ x \in Names /\ y \in Names
    BY <1>0, <1>1, <1>2
  <2>2. store[x] \in Contents /\ Len(store[x].seals) = 0 /\ Len(y[3]) = 0
    BY <1>0, <1>1, <1>8, PlainName DEF Rename
  <2>3. store' = [z \in (DOMAIN store \ {x}) \union {y} |->
                    IF z = y THEN store[x] ELSE store[z]]
    BY <1>8 DEF Rename
  <2>4. opened' = [opened EXCEPT ![y] = opened[x], ![x] = 0]
    BY <1>8 DEF Rename
  <2> HIDE DEF x, y
  <2>5. StoreOK'
    BY <2>1, <2>2, <2>3 DEF StoreOK, SealsFitNames
  <2> QED  BY <1>0, <2>1, <2>4, <2>5
<1>9. ASSUME NEW f \in Files, NEW n \in 1..MaxVersion,
             RestoreVersion(f, n) \/ DeleteVersion(f, n)
      PROVE  StoreOK' /\ UNCHANGED opened
  BY <1>0, <1>1, <1>9, StoreChanges, StoreKept DEF RestoreVersion, DeleteVersion
<1>10. ASSUME NEW f \in Files, DeleteAllVersions(f)
       PROVE  StoreOK' /\ UNCHANGED opened
  BY <1>10, StoreChanges, StoreKept DEF DeleteAllVersions
<1> QED  BY <1>3, <1>4, <1>5, <1>6, <1>7, <1>8, <1>9, <1>10

\* The calls that VersioningVfs and CustomVfs answer touch no handler's state.
LEMMA OneCallKeeps ==
    ASSUME IInv, NEW t \in Threads, Threads = {t}, OneCall
    PROVE  IInv'
<1>1. pc[t] = "idle"
  BY DEF OneCall, WorkerFree
<1>2. /\ StoreOK /\ opened \in [Targets -> 0..MaxOpens]
      /\ default \in KeyFiles \union {NoDefault, BadDefault}
  BY InvParts DEF JobsOK
<1>3. StoreOK' /\ opened' \in [Targets -> 0..MaxOpens]
  BY <1>2, CallsFit DEF OneCall
<1> QED  BY <1>1, <1>2, <1>3, QuietKeeps DEF OneCall

\* Nor does the hook that sets the default key.
LEMMA SetDefaultKeeps ==
    ASSUME IInv, NEW t \in Threads, Threads = {t}, SetDefault
    PROVE  IInv'
<1>1. pc[t] = "idle"
  BY DEF SetDefault, WorkerFree
<1>2. StoreOK' /\ opened' \in [Targets -> 0..MaxOpens]
  BY InvParts, StoreKept DEF SetDefault, JobsOK
<1>3. default' \in KeyFiles \union {NoDefault, BadDefault}
  BY DEF SetDefault
<1> QED  BY <1>1, <1>2, <1>3, QuietKeeps DEF SetDefault

\* A mount finds what a kill has left in the directory, and no clients.
LEMMA RestartKeeps ==
    ASSUME IInv, NEW t \in Threads, Threads = {t}, Restart
    PROVE  IInv'
<1> USE DEF Restart, NoClients
<1>1. pc'[t] = "idle" /\ req'[t] = NoRequest /\ \A u \in Threads : u = t
  OBVIOUS
<1>2. StoreOK'
  BY InvParts, StoreKept
<1>3. JobsOK'
  BY InvParts, PlainContent, BoundsAssumption DEF JobsOK, PC
<1>4. ControlOK' /\ ClientsCounted'
  BY <1>1 DEF ControlOK, ClientsCounted, SealPC, UnsealPC
<1>5. LoopInv' /\ HooksTellTheTruth'
  BY <1>1 DEF LoopInv, FileComesLast, MarkerInHand, NotLockedYet, LoopKeepsItsWord,
              HooksTellTheTruth, SealLoopPC, UnsealPC, FilePC
<1> QED  BY <1>2, <1>3, <1>4, <1>5, InvParts

-----------------------------------------------------------------------------
(* The invariant *)

\* A new mount of an empty directory.
LEMMA InitEstablishes ==
    ASSUME OneWorker, Init
    PROVE  IInv
<1> USE DEF Init, JobsInit, NoClients
<1>1. PICK t : Threads = {t}
  BY DEF OneWorker
<1>2. DOMAIN store = {}
  OBVIOUS
<1>3. TypeOK /\ SealsFitNames
  BY <1>2, PlainContent, BoundsAssumption DEF TypeOK, SealsFitNames, PC
<1>4. \A u \in Threads : pc[u] = "idle" /\ req[u] = NoRequest
  OBVIOUS
<1>5. ControlOK /\ ClientsCounted
  BY <1>4 DEF ControlOK, ClientsCounted, SealPC, UnsealPC
<1>6. LoopInv /\ HooksTellTheTruth
  BY <1>4 DEF LoopInv, FileComesLast, MarkerInHand, NotLockedYet, LoopKeepsItsWord,
              HooksTellTheTruth, SealLoopPC, UnsealPC, FilePC
<1> QED  BY <1>3, <1>5, <1>6 DEF IInv, LoopInv

\* No step of the worker, of a client or of the system breaks the invariant.
LEMMA NextKeeps ==
    ASSUME OneWorker, IInv, [Next]_vars
    PROVE  IInv'
<1>1. PICK t : Threads = {t} /\ t \in Threads
  BY DEF OneWorker
<1>2. CASE UNCHANGED vars
  BY <1>2 DEF vars, jobVars, IInv, TypeOK, SealsFitNames, ControlOK, ClientsCounted,
              FileComesLast, MarkerInHand, NotLockedYet, LoopKeepsItsWord,
              HooksTellTheTruth, Exists, IsEncrypted, Read, Sealing, MarkerOf
<1>3. CASE Step(t)
  BY <1>1, <1>3, ReturnKeeps, CheckEncryptedKeeps, ReadRelatedKeeps, SealOpenKeeps,
     SealWriteKeeps, SealHideKeeps, UnsealOpenKeeps, UnsealWriteKeeps, UnsealRemoveKeeps,
     LoadDefaultKeeps, CheckLockedKeeps, MakeTmpKeeps, OpenFileKeeps, CheckTmpKeeps,
     RemoveTmpKeeps, ReloadDefaultKeeps, CloseAgainKeeps DEF Step
<1>4. CASE OneCall \/ SetDefault \/ Restart
  BY <1>1, <1>4, OneCallKeeps, SetDefaultKeeps, RestartKeeps
<1>5. CASE \E x \in Targets : \/ BeginLock(t, x) \/ BeginUnlock(t, x)
                              \/ BeginOpen(t, x) \/ BeginRelease(t, x)
  BY <1>1, <1>5, ClientsKeep
<1> QED  BY <1>1, <1>2, <1>3, <1>4, <1>5 DEF Next

\* With one worker, the inductive invariant holds.
THEOREM InvariantHolds ==
    ASSUME OneWorker
    PROVE  Spec => []IInv
<1>1. Init => IInv
  BY InitEstablishes
<1>2. IInv /\ [Next]_vars => IInv'
  BY NextKeeps
<1> QED  BY <1>1, <1>2, PTL DEF Spec

-----------------------------------------------------------------------------
(* The properties *)

\* The directory holds names and contents, the counters stay in bounds, and a
\* worker holds what its label says (EncryptionVfs).
THEOREM TypesAreKept ==
    ASSUME OneWorker
    PROVE  Spec => []TypeOK
<1>1. IInv => TypeOK
  BY DEF IInv
<1> QED  BY <1>1, InvariantHolds, PTL

\* A hook that reports success has hidden the file behind the key it was given,
\* or has removed the lock it was asked to remove (handle_hook).
THEOREM HooksAreTruthful ==
    ASSUME OneWorker
    PROVE  Spec => []HooksTellTheTruth
<1>1. IInv => HooksTellTheTruth
  BY DEF IInv
<1> QED  BY <1>1, InvariantHolds, PTL

\* A lock hides a file only when the marker holds all of it (encrypt_file).
THEOREM NothingIsHiddenUnsealed ==
    ASSUME OneWorker
    PROVE  Spec => HiddenOnlyWhenSealed
<1>1. IInv /\ [Next]_vars
      => [\A t \in Threads :
            SealHide(t) => /\ Exists(MarkerOf(t))
                           /\ store[MarkerOf(t)] = Seal(Read(cur[t]), cred[t][2])]_vars
  BY DEF IInv, MarkerInHand, SealHide
<1> QED  BY <1>1, InvariantHolds, PTL DEF Spec, HiddenOnlyWhenSealed

Kept(m) == m \in DOMAIN store' /\ store'[m] = store[m]

\* A step that changes only other names keeps a marker.
LEMMA OthersChange ==
    ASSUME NEW m, Exists(m)
    PROVE  /\ UNCHANGED store => Kept(m)
           /\ \A x, c : store' = Put(x, c) /\ x # m => Kept(m)
           /\ \A x, c : store' = Fill(x, c) /\ x # m => Kept(m)
           /\ \A X : store' = Without(X) /\ m \notin X => Kept(m)
  BY DEF Exists, Kept, Put, Fill, Without, Restrict

\* The loops: a marker is overwritten only when it holds nothing, and removed
\* only when its content is in the file.
LEMMA LoopKeepsSeals ==
    ASSUME IInv, NEW t \in Threads, Threads = {t},
           NEW x \in Targets, NEW kind \in Kinds, NEW m, m = Marker(x, kind),
           Exists(m), store[m].seals # <<>>,
           \/ SealOpen(t) \/ SealWrite(t) \/ SealHide(t)
           \/ UnsealOpen(t) \/ UnsealWrite(t) \/ UnsealRemove(t)
    PROVE  \/ Kept(m)
           \/ m \notin DOMAIN store' /\ Exists(x) /\ store[x] = Unseal(store[m])
<1>1. x \in Names /\ x[2] = 0 /\ x[3] = <<>> /\ m[2] = 0 /\ m[3] # <<>>
  BY TargetName, MarkerName
<1>2. CASE SealOpen(t)
  <2>1. CASE UNCHANGED store
    BY <2>1, OthersChange
  <2>2. ASSUME NEW y \in todo[t], store' = Put(Marker(y, cred[t][1]), Of(Nothing))
        PROVE  Kept(m)
    <3>1. y \in Names /\ cred[t][1] \in Kinds
      BY <1>2, LoopTyped DEF SealOpen, SealLoopPC
    <3>2. Marker(y, cred[t][1]) # m
      <4>1. SUFFICES ASSUME Marker(y, cred[t][1]) = m
                     PROVE  FALSE
        OBVIOUS
      <4>2. y = x
        BY <1>1, <3>1, <4>1, MarkersDiffer
      <4>3. y = req[t].name
        BY <1>1, <1>2, <4>2 DEF IInv, FileComesLast, SealOpen, SealLoopPC
      <4>4. ~IsEncrypted(x)
        BY <1>2, <4>2, <4>3 DEF IInv, NotLockedYet, SealOpen, SealLoopPC
      <4> QED
        BY <4>4 DEF IsEncrypted
    <3> QED  BY <2>2, <3>2, OthersChange
  <2> QED  BY <1>2, <2>1, <2>2 DEF SealOpen, Finish
<1>3. CASE SealWrite(t)
  <2>1. MarkerOf(t) # m
    BY <1>3, PlainContent DEF IInv, MarkerInHand, SealWrite
  <2>2. Exists(MarkerOf(t))
    BY <1>3 DEF IInv, MarkerInHand, SealWrite
  <2> QED  BY <1>3, <2>1, <2>2, OthersChange DEF SealWrite
<1>4. CASE SealHide(t)
  <2>1. cur[t] # m
    BY <1>1, <1>4, LoopTyped, TargetName
       DEF IInv, FileComesLast, SealHide, FilePC, SealLoopPC
  <2> QED  BY <1>4, <2>1, OthersChange DEF SealHide
<1>5. CASE UnsealOpen(t)
  <2>1. CASE UNCHANGED store
    BY <2>1, OthersChange
  <2>2. ASSUME NEW y \in todo[t], y[3] = <<>>, store' = Put(y, Of(Nothing))
        PROVE  Kept(m)
    BY <1>1, <2>2, OthersChange
  <2> QED  BY <1>5, <2>1, <2>2 DEF UnsealOpen, Finish
<1>6. CASE UnsealWrite(t)
  <2>1. cur[t][3] = <<>> /\ Exists(cur[t])
    BY <1>6 DEF IInv, MarkerInHand, UnsealWrite
  <2>2. cur[t] # m
    BY <1>1, <2>1
  <2> QED  BY <1>6, <2>2, OthersChange DEF UnsealWrite
<1>7. CASE UnsealRemove(t)
  <2>1. CASE MarkerOf(t) # m
    BY <1>7, <2>1, OthersChange DEF UnsealRemove
  <2>2. CASE MarkerOf(t) = m
    <3>1. cur[t] = x
      BY <1>7, <2>2, OtherMarker DEF UnsealRemove, FilePC
    <3>2. Exists(x) /\ store[x] = Unseal(buf[t]) /\ buf[t] = store[m]
      BY <1>7, <2>2, <3>1 DEF IInv, MarkerInHand, UnsealRemove, Read
    <3>3. Loses({m})
      BY <1>7, <2>2, StoreChanges DEF UnsealRemove
    <3> QED  BY <3>2, <3>3 DEF Loses
  <2> QED  BY <2>1, <2>2
<1> QED  BY <1>2, <1>3, <1>4, <1>5, <1>6, <1>7

\* Clients write, move and remove files and version files, not markers.
LEMMA CallsKeepSeals ==
    ASSUME NEW x \in Targets, NEW kind \in Kinds, NEW m, m = Marker(x, kind),
           Exists(m), StoreOK, OneCall
    PROVE  Kept(m)
<1>1. m[2] = 0 /\ m[3] # <<>>
  BY TargetName, MarkerName
<1>2. \A f \in Files, n \in 0..MaxVersion : Plain(f, n) # m
  BY <1>1, PlainName
<1>3. \A f \in Files : m \notin VersionNames(f)
  BY <1>1 DEF VersionNames
<1>4. \A y \in Targets : y # m
  BY <1>1, TargetName
<1>5. 0 \in 0..MaxVersion /\ \A n \in 1..MaxVersion : n \in 0..MaxVersion
  BY BoundsAssumption
<1>6. ASSUME NEW y \in Targets, NEW d \in Data, Write(y, d)
      PROVE  Kept(m)
  <2>1. PICK n \in 1..MaxVersion :
          store' = [z \in DOMAIN store \union {y, Plain(y[1], n)} |->
                      IF z \in {y, Plain(y[1], n)} THEN Of(d) ELSE store[z]]
    BY <1>6 DEF Write
  <2>2. m \notin {y, Plain(y[1], n)}
    BY <1>2, <1>4, <1>5, TargetName
  <2> QED  BY <2>1, <2>2 DEF Exists, Kept
<1>7. ASSUME NEW f \in Files, NEW g \in Files, Rename(f, g)
      PROVE  Kept(m)
  <2>1. m # Plain(f, 0) /\ m # Plain(g, 0)
    BY <1>2, <1>5
  <2> QED  BY <1>7, <2>1 DEF Rename, Exists, Kept
<1>8. ASSUME NEW y \in Targets,
             Truncate(y) \/ \E d \in Data : Generate(y, d)
      PROVE  Kept(m)
  BY <1>4, <1>8, OthersChange DEF Truncate, Generate
<1>9. ASSUME NEW f \in Files, Mknod(f) \/ Unlink(f) \/ DeleteAllVersions(f)
      PROVE  Kept(m)
  <2>1. m # Plain(f, 0) /\ m \notin VersionNames(f) \union {Plain(f, 0)}
    BY <1>2, <1>3, <1>5
  <2> QED
    BY <1>9, <2>1, OthersChange DEF Mknod, Unlink, DeleteAllVersions
<1>10. ASSUME NEW f \in Files, NEW n \in 1..MaxVersion,
              RestoreVersion(f, n) \/ DeleteVersion(f, n)
       PROVE  Kept(m)
  <2>1. m # Plain(f, 0) /\ m # Plain(f, n)
    BY <1>2, <1>5
  <2> QED
    BY <1>10, <2>1, OthersChange DEF RestoreVersion, DeleteVersion
<1> QED  BY <1>6, <1>7, <1>8, <1>9, <1>10 DEF OneCall

\* No step at all takes a content away from its marker before it is in the file.
LEMMA StepKeepsSeals ==
    ASSUME OneWorker, IInv, Next,
           NEW x \in Targets, NEW kind \in Kinds, NEW m, m = Marker(x, kind),
           Exists(m), store[m].seals # <<>>
    PROVE  \/ Kept(m)
           \/ m \notin DOMAIN store' /\ Exists(x) /\ store[x] = Unseal(store[m])
<1>1. PICK t : Threads = {t} /\ t \in Threads
  BY DEF OneWorker
<1>2. CASE OneCall
  BY <1>2, CallsKeepSeals, InvParts
<1>3. CASE UNCHANGED store
  BY <1>3, OthersChange
<1>4. CASE MakeTmp(t) \/ RemoveTmp(t)
  <2>1. req[t] \in Requests
    BY <1>1, <1>4 DEF IInv, ControlOK, MakeTmp, RemoveTmp
  <2>2. req[t].name \in Names /\ x \in Names
    BY <2>1, RequestParts, TargetName
  <2>3. Tmp(req[t].name) # m
    BY <2>2, MarkersDiffer DEF Tmp, Kinds
  <2> QED  BY <1>4, <2>3, OthersChange DEF MakeTmp, RemoveTmp
<1>5. CASE \/ SealOpen(t) \/ SealWrite(t) \/ SealHide(t)
           \/ UnsealOpen(t) \/ UnsealWrite(t) \/ UnsealRemove(t)
  BY <1>1, <1>5, LoopKeepsSeals
<1> QED
  BY <1>1, <1>2, <1>3, <1>4, <1>5
     DEF Next, Step, Return, CheckEncrypted, ReadRelated, LoadDefault, CheckLocked, OpenFile,
         CheckTmp, ReloadDefault, CloseAgain, UseDefault, Finish, Then, SetDefault, Restart,
         BeginLock, BeginUnlock, BeginOpen, BeginRelease, Begin

\* No lock, unlock, open, release or other call, finished or killed, costs a
\* file the content a lock has put away (encrypt_file, decrypt_file).
THEOREM SealsAreKept ==
    ASSUME OneWorker
    PROVE  Spec => SealKeptUntilOpened
<1>1. IInv /\ [Next]_vars
      => [\A f \in Files, kind \in Kinds :
            LET m == Marker(Plain(f, 0), kind) IN
            Exists(m) /\ store[m].seals # <<>>
            => \/ Exists(m)' /\ store'[m] = store[m]
               \/ ~Exists(m)' /\ Exists(Plain(f, 0))
                    /\ store[Plain(f, 0)] = Unseal(store[m])]_vars
  <2>1. SUFFICES
          ASSUME IInv, Next, NEW f \in Files, NEW kind \in Kinds,
                 NEW m, m = Marker(Plain(f, 0), kind), Exists(m), store[m].seals # <<>>
          PROVE  \/ Exists(m)' /\ store'[m] = store[m]
                 \/ ~Exists(m)' /\ Exists(Plain(f, 0))
                      /\ store[Plain(f, 0)] = Unseal(store[m])
    OBVIOUS
  <2>2. Plain(f, 0) \in Targets
    BY DEF Targets
  <2> QED  BY <2>1, <2>2, StepKeepsSeals DEF Exists, Kept
<1> QED  BY <1>1, InvariantHolds, PTL DEF Spec, SealKeptUntilOpened
=============================================================================
