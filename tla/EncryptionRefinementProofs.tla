--------------------- MODULE EncryptionRefinementProofs ---------------------
(***************************************************************************)
(* The refinement of Vault, for any number of files, versions, keys, seals *)
(* and clients: with one worker, clients that respect the locks and no     *)
(* kill, every handler does what Vault promises, and nothing of its        *)
(* intermediate states is left when it answers.                            *)
(***************************************************************************)
EXTENDS EncryptionRefinement, EncryptionVfsProofs

VaultConditions == OneWorker /\ Disciplined /\ ~Crashes

LoopPC == SealLoopPC \union UnsealPC

\* What a client may have written
Clear == Data \union {Nothing}
Locks == Creds \union {NoLock}

\* In the directory dir, y and its markers are those of a file that is not
\* there, ...
AbsentIn(dir, y) ==
    /\ y \notin DOMAIN dir
    /\ \A kind \in Kinds : Marker(y, kind) \notin DOMAIN dir

\* ... of one with the content b, ...
ClearIn(dir, y, b) ==
    /\ y \in DOMAIN dir /\ dir[y] = Of(b)
    /\ \A kind \in Kinds : Marker(y, kind) \notin DOMAIN dir

SealedIn(dir, y, l, b) ==
    /\ \A kind \in Kinds : Marker(y, kind) \in DOMAIN dir <=> kind = l[1]
    /\ dir[Marker(y, l[1])] = Seal(Of(b), l[2])

\* ... and of one with the content b behind the lock l.
HiddenIn(dir, y, l, b) ==
    /\ y \in DOMAIN dir /\ dir[y] = Of(Placeholder)
    /\ SealedIn(dir, y, l, b)

\* f with its versions has the lock l, or none, and the content c.
FileIn(dir, f, l, c) ==
    /\ DOMAIN c \subseteq 0..MaxVersion
    /\ l # NoLock => 0 \in DOMAIN c
    /\ \A n \in 0..MaxVersion :
         LET y == Plain(f, n) IN
         IF n \notin DOMAIN c THEN AbsentIn(dir, y)
         ELSE /\ c[n] \in Clear
              /\ IF l = NoLock THEN ClearIn(dir, y, c[n]) ELSE HiddenIn(dir, y, l, c[n])

OldLock(f) == LockOf(settled, f)
OldContent(f) == ContentOf(settled, f)
OldLent(f) == IsLent(settled, f)
NowLent(f) == IsLent(store, f)

\* Between handlers every file is locked or not, and complete.
SettledOK ==
    /\ Quiet => settled = store
    /\ \A f \in Files : /\ OldLock(f) \in Locks
                        /\ FileIn(settled, f, OldLock(f), OldContent(f))

SameAt(dir1, dir2, x) ==
    /\ x \in DOMAIN dir1 <=> x \in DOMAIN dir2
    /\ x \in DOMAIN dir1 => dir1[x] = dir2[x]

\* y and its markers are the same in two directories, ...
SameName(dir1, dir2, y) ==
    /\ SameAt(dir1, dir2, y)
    /\ \A kind \in Kinds : SameAt(dir1, dir2, Marker(y, kind))

\* ... and so are f, its versions and their markers.
SameFile(dir1, dir2, f) ==
    /\ \A n \in 0..MaxVersion : SameName(dir1, dir2, Plain(f, n))
    /\ IsLent(dir1, f) <=> IsLent(dir2, f)

\* A handler touches its own file only.
OthersUntouched ==
    \A f \in Files :
      (\A t \in Threads : pc[t] # "idle" => req[t].name # Plain(f, 0))
      => SameFile(settled, store, f)

\* In the loop of encrypt_file: y had the content b and gets the lock l.
SealLoopAt(t, y, b) ==
    IF pc[t] \in FilePC /\ y = cur[t]
    THEN /\ y \in DOMAIN store /\ store[y] = Of(b)
         /\ \A kind \in Kinds : Exists(Marker(y, kind)) <=> kind = cred[t][1]
    ELSE IF y \in todo[t] THEN ClearIn(store, y, b)
    ELSE HiddenIn(store, y, cred[t], b)

\* In the loop of decrypt_file: y was locked with l and has the content b.
UnsealLoopAt(t, y, l, b) ==
    IF pc[t] \in FilePC /\ y = cur[t]
    THEN /\ y \in DOMAIN store /\ SealedIn(store, y, l, b)
         /\ IF pc[t] = "unsealWrite" THEN store[y] = Of(Nothing)
            ELSE l = cred[t] /\ store[y] = Of(b)
    ELSE IF y \in todo[t] \/ l # cred[t] THEN HiddenIn(store, y, l, b)
    ELSE ClearIn(store, y, b)

\* A loop is about names of its file; a file in hand is not visited again.
LoopNames(t, f) ==
    LET plain == {Plain(f, n) : n \in 0..MaxVersion} IN
    /\ pc[t] \in SealLoopPC => todo[t] \subseteq plain
    /\ \A y \in todo[t] : y[1] = f /\ (y[3] = <<>> => y \in plain)
    /\ pc[t] \in FilePC => cur[t] \in plain /\ cur[t] \notin todo[t]

\* What a loop has made so far of the version n of f
NameInLoop(t, f, n) ==
    LET y == Plain(f, n)
        b == OldContent(f)[n]
    IN  IF n \notin DOMAIN OldContent(f)
        THEN AbsentIn(store, y) /\ y \notin todo[t] /\ (pc[t] \in FilePC => y # cur[t])
        ELSE IF OldLock(f) = NoLock THEN SealLoopAt(t, y, b)
        ELSE UnsealLoopAt(t, y, OldLock(f), b)

\* A loop is at work on a file that is there, from locked to unlocked or back;
\* an unlock fails when it does not have the key, and then only.
Loop(t, f) ==
    /\ LoopNames(t, f)
    /\ pc[t] \in SealLoopPC <=> OldLock(f) = NoLock
    /\ OldLock(f) = cred[t] => success[t]
    /\ pc[t] = "unsealOpen" /\ todo[t] = {} /\ success[t] => OldLock(f) = cred[t]
    /\ 0 \in DOMAIN OldContent(f)
    /\ \A n \in 0..MaxVersion : NameInLoop(t, f, n)

\* What a handler may have made of f outside its loop
Unchanged(f) == FileIn(store, f, OldLock(f), OldContent(f))
WasLocked(t, f) ==
    OldLock(f) = NoLock /\ cred[t] \in Creds /\ FileIn(store, f, cred[t], OldContent(f))
WasUnlocked(t, f) ==
    OldLock(f) = cred[t] /\ cred[t] \in Creds /\ FileIn(store, f, NoLock, OldContent(f))

SameTmp(f) == NowLent(f) <=> OldLent(f)
Taken(f) == OldLent(f) /\ ~NowLent(f)
TmpPart(t, f) == IF req[t].op = "release" THEN Taken(f) ELSE SameTmp(f)

\* Where a handler of f stands
HandlerAt(t, f) ==
    /\ pc[t] # "closeAgain"
    /\ pc[t] \in LoopPC => Loop(t, f) /\ TmpPart(t, f)
    /\ pc[t] = "makeTmp" => WasUnlocked(t, f) /\ SameTmp(f)
    /\ pc[t] \in {"loadDefault", "checkLocked", "checkTmp", "removeTmp"}
         => Unchanged(f) /\ SameTmp(f)
    /\ pc[t] = "removeTmp" => NowLent(f)
    /\ pc[t] = "reloadDefault" => Unchanged(f) /\ Taken(f)
    /\ pc[t] \in {"isEncrypted", "readRelated"} => Unchanged(f) /\ TmpPart(t, f)
    /\ pc[t] = "openFile"
         => \/ Unchanged(f) /\ SameTmp(f)
            \/ WasUnlocked(t, f) /\ NowLent(f)
    /\ pc[t] = "return"
         => \/ Unchanged(f) /\ SameTmp(f)
            \/ req[t].op \in {"lock", "defaultLock"} /\ WasLocked(t, f) /\ SameTmp(f)
            \/ req[t].op = "unlock" /\ WasUnlocked(t, f) /\ SameTmp(f)
            \/ req[t].op = "open" /\ WasUnlocked(t, f) /\ NowLent(f)
            \/ /\ req[t].op = "release" /\ Taken(f)
               /\ WasLocked(t, f) \/ (OldLock(f) # NoLock /\ Unchanged(f))

HandlersOK ==
    \A t \in Threads, f \in Files :
      pc[t] # "idle" /\ req[t].name = Plain(f, 0) => HandlerAt(t, f)

\* What a handler finds when it begins
Begun ==
    \A t \in Threads :
      LET x == req[t].name IN
      /\ pc[t] \in {"loadDefault", "isEncrypted", "readRelated", "removeTmp", "reloadDefault"}
           => Exists(x)
      /\ pc[t] = "readRelated" /\ ~Sealing(t) => IsEncrypted(x)
      /\ \/ pc[t] \in {"removeTmp", "reloadDefault"}
         \/ pc[t] \in {"readRelated", "makeTmp"} \union UnsealPC /\ req[t].op = "open"
         => default \in KeyFiles
      /\ pc[t] \notin UnsealPC \union {"makeTmp", "openFile", "return"} => success[t]

\* Of a version there are the file itself and its markers.
StoreShape ==
    \A x \in DOMAIN store :
      \/ x[3] = <<>>
      \/ x[2] = 0
      \/ \E kind \in Kinds : x = Marker(Plain(x[1], x[2]), kind)

\* A tmp marker stands for a file that clients have open, and the default key
\* is there to lock it again.
TmpOpen ==
    \A f \in Files :
      LET x == Plain(f, 0) IN
      NowLent(f) => /\ Exists(x)
                    /\ default \in KeyFiles
                    /\ \/ opened[x] > 0
                       \/ \E t \in Threads : pc[t] \in {"openFile", "removeTmp"}
                                             /\ req[t].name = x

VInv ==
    /\ IInv
    /\ SettledOK
    /\ OthersUntouched
    /\ HandlersOK
    /\ Begun
    /\ StoreShape
    /\ TmpOpen
    /\ UnlockByItsKeySucceeds

USE DEF At, Goto

-----------------------------------------------------------------------------
(* Names and directories *)

\* The names of a file: itself, its versions and their markers are different,
\* and those of another file are others.
LEMMA NamesOfFile ==
    ASSUME NEW f \in Files, NEW n \in 0..MaxVersion, NEW kind \in Kinds \union {"tmp"}
    PROVE  LET y == Plain(f, n)
               m == Marker(y, kind)
           IN  /\ y \in Names /\ y[1] = f /\ y[2] = n /\ y[3] = <<>>
               /\ m \in Names /\ m[1] = f /\ m[2] = n /\ m[3] # <<>>
               /\ m[3][1] = kind
               /\ 0 \in 0..MaxVersion /\ Plain(f, 0) \in Targets
<1> DEFINE y == Plain(f, n)
           m == Marker(y, kind)
<1>1. /\ y \in Names /\ y[1] = f /\ y[2] = n /\ y[3] = <<>>
      /\ Len(y[3]) = 0
  BY PlainName
<1>2. Len(y[3]) < MaxSeals
  BY <1>1, BoundsAssumption
<1>3. m \in Names /\ m[1] = f /\ m[2] = n /\ m[3] # <<>> /\ m[3][1] = kind
  BY <1>1, <1>2, MarkerName
<1>4. 0 \in 0..MaxVersion /\ Plain(f, 0) \in Targets
  BY BoundsAssumption DEF Targets
<1> QED  BY <1>1, <1>3, <1>4

\* The same for all the names of all files.
LEMMA NamesOfFiles ==
    \A g \in Files :
      /\ \A n \in 0..MaxVersion :
           /\ Plain(g, n)[1] = g /\ Plain(g, n)[2] = n /\ Plain(g, n)[3] = <<>>
           /\ \A kind \in Kinds : /\ Marker(Plain(g, n), kind)[1] = g
                                  /\ Marker(Plain(g, n), kind)[2] = n
                                  /\ Marker(Plain(g, n), kind)[3] # <<>>
      /\ Tmp(Plain(g, 0))[1] = g /\ Tmp(Plain(g, 0))[2] = 0 /\ Tmp(Plain(g, 0))[3] # <<>>
<1>1. 0 \in 0..MaxVersion
  BY BoundsAssumption
<1>2. ASSUME NEW g \in Files
      PROVE  Tmp(Plain(g, 0))[1] = g /\ Tmp(Plain(g, 0))[2] = 0 /\ Tmp(Plain(g, 0))[3] # <<>>
  BY <1>1, NamesOfFile DEF Tmp
<1>3. ASSUME NEW g \in Files, NEW n \in 0..MaxVersion
      PROVE  Plain(g, n)[1] = g /\ Plain(g, n)[2] = n /\ Plain(g, n)[3] = <<>>
  BY PlainName
<1> QED  BY <1>2, <1>3, NamesOfFile

\* A target is the name of one file.
LEMMA TargetFile ==
    ASSUME NEW x \in Targets
    PROVE  /\ x[1] \in Files /\ x = Plain(x[1], 0)
           /\ \A f \in Files : x = Plain(f, 0) <=> f = x[1]
<1>1. 0 \in 0..MaxVersion
  BY BoundsAssumption
<1>2. \A f \in Files : Plain(f, 0)[1] = f
  BY <1>1, PlainName
<1> QED  BY <1>2, TargetName

\* A content under a seal comes back.
LEMMA SealOfClear ==
    ASSUME NEW b \in Clear, NEW k \in Keys
    PROVE  /\ Of(b).data = b
           /\ Head(Seal(Of(b), k).seals) = k
           /\ Opens(k, Seal(Of(b), k))
           /\ \A j : Opens(j, Seal(Of(b), k)) => j = k
           /\ Unseal(Seal(Of(b), k)) = Of(b)
<1>1. Of(b) \in Contents /\ Of(b).data = b
  BY PlainContent DEF Clear
<1> QED  BY <1>1, SealContent DEF Opens

\* A lock is a marker word and a key.
LEMMA LockParts ==
    ASSUME NEW l \in Locks, l # NoLock
    PROVE  l \in Creds /\ l[1] \in Kinds /\ l[2] \in Keys /\ l = <<l[1], l[2]>>
  BY CredParts DEF Locks, Creds

\* A directory that has f with the lock l and the content c says so.
LEMMA FileSays ==
    ASSUME NEW dir, NEW f \in Files, NEW l \in Locks, NEW c, c = [n \in DOMAIN c |-> c[n]],
           FileIn(dir, f, l, c)
    PROVE  /\ LockOf(dir, f) = l
           /\ ContentOf(dir, f) = c
           /\ ShownOf(dir, f) = [n \in DOMAIN c |-> IF l = NoLock THEN c[n] ELSE Placeholder]
<1>1. 0 \in 0..MaxVersion
  BY BoundsAssumption
<1>2. Numbers(dir, f) = DOMAIN c
  BY DEF FileIn, AbsentIn, ClearIn, HiddenIn, Numbers
<1>3. CASE l = NoLock
  <2>1. \A n \in 0..MaxVersion : LocksOf(dir, Plain(f, n)) = {}
    BY <1>3 DEF FileIn, AbsentIn, ClearIn, LocksOf
  <2>2. LockOf(dir, f) = l
    BY <1>1, <1>3, <2>1 DEF LockOf
  <2>3. ASSUME NEW n \in DOMAIN c
        PROVE  Behind(dir, Plain(f, n)) = c[n] /\ dir[Plain(f, n)].data = c[n]
    <3>1. n \in 0..MaxVersion /\ dir[Plain(f, n)] = Of(c[n])
      BY <1>3 DEF FileIn, ClearIn
    <3> QED  BY <2>1, <3>1 DEF Behind, Of
  <2> QED  BY <1>2, <1>3, <2>2, <2>3 DEF ContentOf, ShownOf
<1>4. CASE l # NoLock
  <2>1. l[1] \in Kinds /\ l[2] \in Keys /\ l = <<l[1], l[2]>>
    BY <1>4, LockParts
  <2>2. ASSUME NEW n \in DOMAIN c
        PROVE  LET y == Plain(f, n) IN
               /\ KindOf(dir, y) = l[1] /\ LocksOf(dir, y) # {}
               /\ Locked(dir, y) = Seal(Of(c[n]), l[2])
               /\ dir[y].data = Placeholder
               /\ c[n] \in Clear
    <3> DEFINE y == Plain(f, n)
    <3>1. c[n] \in Clear /\ HiddenIn(dir, y, l, c[n])
      BY <1>4 DEF FileIn
    <3>2. \A kind \in Kinds : kind \in LocksOf(dir, y) <=> kind = l[1]
      BY <3>1 DEF HiddenIn, SealedIn, LocksOf
    <3>3. KindOf(dir, y) = l[1]
      BY <2>1, <3>2 DEF KindOf
    <3>4. dir[Marker(y, l[1])] = Seal(Of(c[n]), l[2]) /\ dir[y].data = Placeholder
      BY <3>1 DEF HiddenIn, SealedIn, Of
    <3> QED  BY <2>1, <3>1, <3>2, <3>3, <3>4 DEF Locked
  <2>3. LockOf(dir, f) = l
    <3>1. 0 \in DOMAIN c
      BY <1>4 DEF FileIn
    <3> QED  BY <2>1, <2>2, <3>1, SealOfClear DEF LockOf
  <2>4. \A n \in DOMAIN c : Behind(dir, Plain(f, n)) = c[n]
    BY <2>1, <2>2, SealOfClear DEF Behind
  <2> QED  BY <1>2, <1>4, <2>2, <2>3, <2>4 DEF ContentOf, ShownOf
<1> QED  BY <1>3, <1>4

\* It says the same as any directory that is the same where f is concerned.
LEMMA SameFileIn ==
    ASSUME NEW dir1, NEW dir2, NEW f \in Files, NEW l \in Locks, NEW c,
           SameFile(dir1, dir2, f), FileIn(dir1, f, l, c)
    PROVE  FileIn(dir2, f, l, c)
<1>1. ASSUME NEW n \in 0..MaxVersion, AbsentIn(dir1, Plain(f, n))
      PROVE  AbsentIn(dir2, Plain(f, n))
  BY <1>1 DEF AbsentIn, SameFile, SameName, SameAt
<1>2. ASSUME NEW n \in 0..MaxVersion, NEW b, ClearIn(dir1, Plain(f, n), b)
      PROVE  ClearIn(dir2, Plain(f, n), b)
  BY <1>2 DEF ClearIn, SameFile, SameName, SameAt
<1>3. ASSUME NEW n \in 0..MaxVersion, NEW b, HiddenIn(dir1, Plain(f, n), l, b), l # NoLock
      PROVE  HiddenIn(dir2, Plain(f, n), l, b)
  <2>1. l[1] \in Kinds
    BY <1>3, LockParts
  <2> QED  BY <1>3, <2>1 DEF HiddenIn, SealedIn, SameFile, SameName, SameAt
<1> QED  BY <1>1, <1>2, <1>3 DEF FileIn

\* Sameness is carried on.
LEMMA SameFileAgain ==
    ASSUME NEW dir1, NEW dir2, NEW dir3, NEW f,
           SameFile(dir1, dir2, f), SameFile(dir2, dir3, f)
    PROVE  SameFile(dir1, dir3, f)
  BY DEF SameFile, SameName, SameAt

\* A step that changes names of one file changes nothing of another one.
LEMMA OtherFileSame ==
    ASSUME NEW f \in Files, NEW g \in Files, g # f, NEW x, x[1] = f,
           \/ \E c : Becomes(x, c)
           \/ Loses({x})
    PROVE  SameFile(store, store', g)
<1>1. \A n \in 0..MaxVersion : /\ Plain(g, n) # x
                               /\ \A kind \in Kinds : Marker(Plain(g, n), kind) # x
  BY NamesOfFile
<1>2. Tmp(Plain(g, 0)) # x
  BY NamesOfFile, BoundsAssumption DEF Tmp
<1> QED  BY <1>1, <1>2 DEF SameFile, SameName, SameAt, IsLent, Becomes, Loses

\* The three ways a loop and the tmp marker change the directory leave the
\* other names of the file alone.
LEMMA OtherNameSame ==
    ASSUME NEW f \in Files, NEW n \in 0..MaxVersion, NEW k \in 0..MaxVersion, n # k,
           NEW kind \in Kinds \union {"tmp"}
    PROVE  LET y == Plain(f, k)
               m == Marker(y, kind)
           IN  /\ \A c : Becomes(y, c) => SameName(store, store', Plain(f, n))
               /\ \A c : Becomes(m, c) => SameName(store, store', Plain(f, n))
               /\ Loses({m}) => SameName(store, store', Plain(f, n))
<1> DEFINE z == Plain(f, n)
           y == Plain(f, k)
           m == Marker(y, kind)
<1>1. /\ z[2] = n /\ y[2] = k /\ m[2] = k
      /\ \A j \in Kinds : Marker(z, j)[2] = n
  BY NamesOfFile
<1>2. z # y /\ z # m /\ \A j \in Kinds : Marker(z, j) # y /\ Marker(z, j) # m
  BY <1>1
<1> HIDE DEF z, y, m
<1> QED  BY <1>2 DEF SameName, SameAt, Becomes, Loses, z, y, m

\* The tmp marker is none of the names a lock works on.
LEMMA TmpApart ==
    ASSUME NEW f \in Files, NEW n \in 0..MaxVersion
    PROVE  LET m == Tmp(Plain(f, 0)) IN
           /\ \A c : Becomes(m, c) => SameName(store, store', Plain(f, n))
           /\ Loses({m}) => SameName(store, store', Plain(f, n))
<1> DEFINE z == Plain(f, n)
           m == Tmp(Plain(f, 0))
<1>1. m[3] # <<>> /\ m[3][1] = "tmp"
  BY NamesOfFile, BoundsAssumption DEF Tmp
<1>2. z # m /\ \A j \in Kinds : Marker(z, j) # m
  BY <1>1, NamesOfFile DEF Kinds
<1> HIDE DEF z, m
<1> QED  BY <1>2 DEF SameName, SameAt, Becomes, Loses, z, m

\* What a step of a loop may do to the directory: no other file, no tmp marker
\* and no new kind of name is touched, and no file disappears.
LoopChange(f) ==
    /\ \A g \in Files : g # f => SameFile(store, store', g)
    /\ IsLent(store', f) <=> IsLent(store, f)
    /\ \A g \in Files : Plain(g, 0) \in DOMAIN store => Plain(g, 0) \in DOMAIN store'
    /\ \A x \in DOMAIN store' :
         \/ x \in DOMAIN store
         \/ x[3] = <<>>
         \/ \E kind \in Kinds : x = Marker(Plain(x[1], x[2]), kind)

\* A loop writes to versions of its file and to their markers, and removes
\* markers: each of these is such a change.
LEMMA LoopChanges ==
    ASSUME NEW f \in Files, NEW n \in 0..MaxVersion, NEW kind \in Kinds
    PROVE  LET y == Plain(f, n)
               m == Marker(y, kind)
           IN  /\ \A c : Becomes(y, c) => LoopChange(f)
               /\ \A c : Becomes(m, c) => LoopChange(f)
               /\ Loses({m}) => LoopChange(f)
               /\ UNCHANGED store => LoopChange(f)
<1> DEFINE y == Plain(f, n)
           m == Marker(y, kind)
<1>1. /\ y[1] = f /\ y[3] = <<>> /\ m[1] = f /\ m[2] = n /\ m[3] # <<>> /\ m[3][1] = kind
  BY NamesOfFile
<1>2. \A g \in Files : /\ Tmp(Plain(g, 0))[3] # <<>> /\ Tmp(Plain(g, 0))[3][1] = "tmp"
                       /\ Plain(g, 0)[3] = <<>>
  BY NamesOfFile, BoundsAssumption DEF Tmp
<1>3. kind # "tmp"
  BY DEF Kinds
<1>4. m = Marker(Plain(m[1], m[2]), kind)
  BY <1>1
<1>5. Tmp(Plain(f, 0)) # y /\ Tmp(Plain(f, 0)) # m /\ \A g \in Files : Plain(g, 0) # m
  BY <1>1, <1>2, <1>3
<1> DEFINE LoopRest ==
    /\ IsLent(store', f) <=> IsLent(store, f)
    /\ \A g \in Files : Plain(g, 0) \in DOMAIN store => Plain(g, 0) \in DOMAIN store'
    /\ \A x \in DOMAIN store' :
         \/ x \in DOMAIN store
         \/ x[3] = <<>>
         \/ \E j \in Kinds : x = Marker(Plain(x[1], x[2]), j)
<1>6. ASSUME NEW c, Becomes(y, c)
      PROVE  LoopChange(f)
  <2>1. \A g \in Files : g # f => SameFile(store, store', g)
    BY <1>1, <1>6, OtherFileSame
  <2>2. LoopRest
    BY <1>1, <1>5, <1>6 DEF Becomes, IsLent
  <2> QED  BY <2>1, <2>2 DEF LoopChange
<1>7. ASSUME NEW c, Becomes(m, c)
      PROVE  LoopChange(f)
  <2>1. \A g \in Files : g # f => SameFile(store, store', g)
    BY <1>1, <1>7, OtherFileSame
  <2>2. LoopRest
    BY <1>4, <1>5, <1>7 DEF Becomes, IsLent
  <2> QED  BY <2>1, <2>2 DEF LoopChange
<1>8. ASSUME Loses({m})
      PROVE  LoopChange(f)
  <2>1. \A g \in Files : g # f => SameFile(store, store', g)
    BY <1>1, <1>8, OtherFileSame
  <2>2. LoopRest
    BY <1>5, <1>8 DEF Loses, IsLent
  <2> QED  BY <2>1, <2>2 DEF LoopChange
<1>9. UNCHANGED store => LoopChange(f)
  BY DEF LoopChange, SameFile, SameName, SameAt, IsLent
<1> QED  BY <1>6, <1>7, <1>8, <1>9

-----------------------------------------------------------------------------
(* A step of a handler *)

\* The worker and its file.
LEMMA Handling ==
    ASSUME VInv, NEW t \in Threads, Threads = {t}, pc[t] # "idle"
    PROVE  \E f \in Files :
             /\ req[t] \in Requests /\ req[t].name = Plain(f, 0) /\ req[t].name[1] = f
             /\ Plain(f, 0) \in Targets /\ Plain(f, 0) \in Names
             /\ HandlerAt(t, f)
             /\ OldLock(f) \in Locks
             /\ FileIn(settled, f, OldLock(f), OldContent(f))
<1>1. req[t] \in Requests
  BY DEF VInv, IInv, ControlOK
<1>2. req[t].name \in Targets /\ req[t].name \in Names
  BY <1>1, RequestParts, TargetName
<1> DEFINE f == req[t].name[1]
<1>3. f \in Files /\ req[t].name = Plain(f, 0)
  BY <1>2, TargetFile
<1>4. HandlerAt(t, f) /\ OldLock(f) \in Locks /\ FileIn(settled, f, OldLock(f), OldContent(f))
  BY <1>3 DEF VInv, HandlersOK, SettledOK
<1> HIDE DEF f
<1>5. f = req[t].name[1]
  BY DEF f
<1> QED  BY <1>1, <1>2, <1>3, <1>4, <1>5

\* A handler that goes on leaves every other file alone, and what is settled.
LEMMA HandlerStep ==
    ASSUME VInv, IInv', NEW t \in Threads, Threads = {t}, NEW f \in Files,
           pc[t] # "idle", pc'[t] # "idle", req[t].name = Plain(f, 0),
           UNCHANGED <<settled, req>>,
           \A g \in Files : g # f => SameFile(store, store', g),
           HandlerAt(t, f)', Begun', StoreShape', TmpOpen', UnlockByItsKeySucceeds'
    PROVE  VInv'
<1>1. \A g \in Files : Plain(f, 0) = Plain(g, 0) => g = f
  BY PlainName, BoundsAssumption
<1>2. SettledOK'
  BY DEF VInv, SettledOK, Quiet, OldLock, OldContent, At
<1>3. OthersUntouched'
  <2>1. ASSUME NEW g \in Files, g # f
        PROVE  SameFile(settled, store', g)
    <3>1. SameFile(settled, store, g)
      BY <1>1, <2>1 DEF VInv, OthersUntouched
    <3> QED  BY <2>1, <3>1, SameFileAgain
  <2> QED  BY <1>1, <2>1 DEF OthersUntouched
<1>4. HandlersOK'
  BY <1>1 DEF HandlersOK
<1> QED  BY <1>2, <1>3, <1>4 DEF VInv

\* What lies in the directory and what is lent is in order after a step of a loop.
LEMMA DirectoryStep ==
    ASSUME VInv, NEW t \in Threads, Threads = {t}, NEW f \in Files, LoopChange(f),
           UNCHANGED <<default, opened>>, pc[t] \notin {"openFile", "removeTmp"}
    PROVE  StoreShape' /\ TmpOpen' /\ \A g \in Files : NowLent(g)' <=> NowLent(g)
<1>1. StoreShape'
  BY DEF VInv, StoreShape, LoopChange
<1>2. \A g \in Files : NowLent(g)' <=> NowLent(g)
  BY DEF LoopChange, SameFile, NowLent
<1>3. TmpOpen'
  <2>1. ASSUME NEW g \in Files, NowLent(g)'
        PROVE  /\ Plain(g, 0) \in DOMAIN store'
               /\ default \in KeyFiles
               /\ opened[Plain(g, 0)] > 0
    BY <1>2, <2>1 DEF VInv, TmpOpen, LoopChange, Exists
  <2> QED  BY <2>1 DEF TmpOpen, Exists
<1> QED  BY <1>1, <1>2, <1>3

\* A handler stays in its loop or begins it.
LEMMA LoopStep ==
    ASSUME VInv, IInv', NEW t \in Threads, Threads = {t}, NEW f \in Files,
           req[t].name = Plain(f, 0), HandlerAt(t, f),
           pc[t] \in LoopPC \union {"readRelated"}, pc'[t] \in LoopPC,
           pc'[t] \in UnsealPC => pc[t] \in UnsealPC \union {"readRelated"},
           pc'[t] \in SealLoopPC => success'[t],
           UNCHANGED <<settled, req, default, opened>>, LoopChange(f), Loop(t, f)'
    PROVE  VInv'
<1> USE DEF LoopPC, SealLoopPC, UnsealPC
<1>1. StoreShape' /\ TmpOpen' /\ (NowLent(f)' <=> NowLent(f))
  BY DirectoryStep
<1>2. TmpPart(t, f)'
  <2>1. TmpPart(t, f)
    BY DEF HandlerAt
  <2> QED  BY <1>1, <2>1 DEF TmpPart, Taken, SameTmp, OldLent
<1>3. HandlerAt(t, f)'
  BY <1>2 DEF HandlerAt
<1>4. Begun' /\ UnlockByItsKeySucceeds'
  <2>1. pc'[t] \in UnsealPC /\ req[t].op = "open" => default \in KeyFiles
    BY DEF VInv, Begun
  <2>2. /\ pc'[t] \in {"sealOpen", "sealWrite", "sealHide", "unsealOpen", "unsealWrite",
                       "unsealRemove"}
        /\ \A u \in Threads : u = t
    OBVIOUS
  <2>3. UnlockByItsKeySucceeds'
    BY <2>2 DEF UnlockByItsKeySucceeds
  <2>4. Begun'
    BY <2>1, <2>2 DEF Begun
  <2> QED  BY <2>3, <2>4
<1> QED  BY <1>1, <1>3, <1>4, HandlerStep DEF LoopChange

\* A handler answers.
LEMMA AnswerStep ==
    ASSUME VInv, IInv', NEW t \in Threads, Threads = {t}, NEW f \in Files,
           req[t].name = Plain(f, 0), pc[t] # "idle", pc'[t] = "return",
           UNCHANGED <<settled, req, store, cred>>,
           \/ Unchanged(f) /\ SameTmp(f)
           \/ req[t].op \in {"lock", "defaultLock"} /\ WasLocked(t, f) /\ SameTmp(f)
           \/ req[t].op = "unlock" /\ WasUnlocked(t, f) /\ SameTmp(f)
           \/ req[t].op = "open" /\ WasUnlocked(t, f) /\ NowLent(f)
           \/ /\ req[t].op = "release" /\ Taken(f)
              /\ WasLocked(t, f) \/ (OldLock(f) # NoLock /\ Unchanged(f)),
           TmpOpen',
           req[t].op = "unlock"
             => LET m == Marker(req[t].name, cred[t][1]) IN
                Exists(m) /\ Opens(cred[t][2], store[m]) => reply'[t] = "ok"
    PROVE  VInv'
<1> USE DEF LoopPC, SealLoopPC, UnsealPC
<1>1. HandlerAt(t, f)'
  BY DEF HandlerAt, Unchanged, WasLocked, WasUnlocked, SameTmp, Taken, OldLock, OldContent,
         OldLent, NowLent
<1>2. Begun' /\ StoreShape'
  BY DEF Begun, StoreShape, VInv
<1>3. UnlockByItsKeySucceeds'
  BY DEF UnlockByItsKeySucceeds, Exists
<1>4. \A g \in Files : g # f => SameFile(store, store', g)
  BY DEF SameFile, SameName, SameAt
<1> QED  BY <1>1, <1>2, <1>3, <1>4, HandlerStep

-----------------------------------------------------------------------------
(* The loops of encrypt_file and decrypt_file *)

\* A name that is the same in two directories is in the same state.
LEMMA SameNameIn ==
    ASSUME NEW dir1, NEW dir2, NEW y, SameName(dir1, dir2, y)
    PROVE  /\ AbsentIn(dir1, y) => AbsentIn(dir2, y)
           /\ \A b : ClearIn(dir1, y, b) => ClearIn(dir2, y, b)
           /\ \A l, b : l[1] \in Kinds /\ SealedIn(dir1, y, l, b) => SealedIn(dir2, y, l, b)
           /\ \A l, b : l[1] \in Kinds /\ HiddenIn(dir1, y, l, b) => HiddenIn(dir2, y, l, b)
<1>1. \A l, b : l[1] \in Kinds /\ SealedIn(dir1, y, l, b) => SealedIn(dir2, y, l, b)
  BY DEF SealedIn, SameName, SameAt
<1> QED  BY <1>1 DEF AbsentIn, ClearIn, HiddenIn, SameName, SameAt

\* What a worker in a loop has in hand.
LEMMA InLoop ==
    ASSUME VInv, NEW t \in Threads, Threads = {t}, pc[t] \in LoopPC,
           NEW f \in Files, HandlerAt(t, f)
    PROVE  /\ Loop(t, f) /\ TmpPart(t, f)
           /\ cred[t] \in Creds /\ cred[t] \in Locks /\ cred[t] # NoLock
           /\ cred[t][1] \in Kinds /\ cred[t][2] \in Keys
           /\ OldLock(f) \in Locks
           /\ DOMAIN OldContent(f) \subseteq 0..MaxVersion
           /\ \A n \in DOMAIN OldContent(f) : OldContent(f)[n] \in Clear
<1>1. cred[t] \in Creds
  BY DEF VInv, IInv, ControlOK, LoopPC, SealLoopPC, SealPC
<1>2. Loop(t, f) /\ TmpPart(t, f)
  BY DEF HandlerAt
<1>3. /\ OldLock(f) \in Locks
      /\ FileIn(settled, f, OldLock(f), OldContent(f))
  BY DEF VInv, SettledOK
<1>4. /\ DOMAIN OldContent(f) \subseteq 0..MaxVersion
      /\ \A n \in DOMAIN OldContent(f) : OldContent(f)[n] \in Clear
  BY <1>3 DEF FileIn
<1> QED  BY <1>1, <1>2, <1>3, <1>4, CredParts, NoLockAssumption DEF Locks

\* A step on one name leaves the others where they are.
LEMMA OtherNameKept ==
    ASSUME NEW t \in Threads, NEW f \in Files, NEW n \in 0..MaxVersion, NameInLoop(t, f, n),
           OldLock(f) \in Locks, cred[t] \in Creds,
           SameName(store, store', Plain(f, n)), UNCHANGED <<settled, cred>>,
           Plain(f, n) \in todo'[t] <=> Plain(f, n) \in todo[t],
           pc[t] \in FilePC => cur[t] # Plain(f, n),
           pc'[t] \in FilePC => cur'[t] # Plain(f, n)
    PROVE  NameInLoop(t, f, n)'
<1> DEFINE y == Plain(f, n)
           b == OldContent(f)[n]
           l == OldLock(f)
<1>1. OldLock(f)' = OldLock(f) /\ OldContent(f)' = OldContent(f)
  BY DEF OldLock, OldContent
<1>2. cred[t][1] \in Kinds
  BY CredParts
<1>3. CASE n \notin DOMAIN OldContent(f)
  BY <1>1, <1>3, SameNameIn DEF NameInLoop
<1>4. CASE n \in DOMAIN OldContent(f) /\ l = NoLock
  <2>1. SealLoopAt(t, y, b)
    BY <1>4 DEF NameInLoop
  <2>2. IF y \in todo[t] THEN ClearIn(store', y, b) ELSE HiddenIn(store', y, cred[t], b)
    BY <1>2, <2>1, SameNameIn DEF SealLoopAt
  <2>3. SealLoopAt(t, y, b)'
    BY <1>1, <2>2 DEF SealLoopAt
  <2> QED  BY <1>1, <1>4, <2>3 DEF NameInLoop
<1>5. CASE n \in DOMAIN OldContent(f) /\ l # NoLock
  <2>0. l[1] \in Kinds
    BY <1>5, LockParts
  <2>1. UnsealLoopAt(t, y, l, b)
    BY <1>5 DEF NameInLoop
  <2>2. IF y \in todo[t] \/ l # cred[t] THEN HiddenIn(store', y, l, b)
        ELSE ClearIn(store', y, b)
    BY <2>0, <2>1, SameNameIn DEF UnsealLoopAt
  <2>3. UnsealLoopAt(t, y, l, b)'
    BY <1>1, <2>2 DEF UnsealLoopAt
  <2> QED  BY <1>1, <1>5, <2>3 DEF NameInLoop
<1> QED  BY <1>3, <1>4, <1>5

\* A step of a loop on the version k of f leaves the other versions where they are.
LEMMA OtherNamesKept ==
    ASSUME NEW t \in Threads, NEW f \in Files, NEW k \in 0..MaxVersion, Loop(t, f),
           OldLock(f) \in Locks, cred[t] \in Creds,
           \A n \in 0..MaxVersion : n # k => SameName(store, store', Plain(f, n)),
           UNCHANGED <<settled, cred>>,
           todo'[t] = todo[t] \/ todo'[t] = todo[t] \ {Plain(f, k)},
           pc[t] \in FilePC => cur[t] = Plain(f, k),
           pc'[t] \in FilePC => cur'[t] = Plain(f, k)
    PROVE  \A n \in 0..MaxVersion : n # k => NameInLoop(t, f, n)'
<1> TAKE n \in 0..MaxVersion
<1> HAVE n # k
<1>1. Plain(f, n) # Plain(f, k)
  BY PlainName
<1>2. NameInLoop(t, f, n)
  BY DEF Loop
<1> QED  BY <1>1, <1>2, OtherNameKept

\* The file in hand is a version of f that there was.
LEMMA FileInHand ==
    ASSUME NEW t \in Threads, NEW f \in Files, Loop(t, f), pc[t] \in FilePC
    PROVE  \E k \in 0..MaxVersion :
             /\ k \in DOMAIN OldContent(f) /\ cur[t] = Plain(f, k) /\ cur[t] \notin todo[t]
             /\ MarkerOf(t) = Marker(Plain(f, k), cred[t][1])
             /\ IF OldLock(f) = NoLock THEN SealLoopAt(t, cur[t], OldContent(f)[k])
                ELSE UnsealLoopAt(t, cur[t], OldLock(f), OldContent(f)[k])
<1>1. PICK k \in 0..MaxVersion : cur[t] = Plain(f, k)
  BY DEF Loop, LoopNames
<1>2. NameInLoop(t, f, k) /\ cur[t] \notin todo[t]
  BY DEF Loop, LoopNames
<1>3. k \in DOMAIN OldContent(f)
  BY <1>1, <1>2 DEF NameInLoop
<1> QED  BY <1>1, <1>2, <1>3 DEF NameInLoop, MarkerOf

\* What is settled changes when the worker becomes idle only.
Settles == settled' = IF Quiet' THEN store' ELSE settled

\* As long as it is at work nothing is.
LEMMA NotSettled ==
    ASSUME NEW t \in Threads, Settles, pc'[t] # "idle"
    PROVE  UNCHANGED settled
  BY DEF Settles, Quiet

\* When a lock's loop is over every version of the file is locked.
LEMMA SealOpenHolds ==
    ASSUME VInv, NEW t \in Threads, Threads = {t}, Settles, SealOpen(t)
    PROVE  VInv'
<1> USE DEF SealOpen
<1>1. IInv'
  BY SealOpenKeeps DEF VInv
<1>2. pc[t] \in LoopPC /\ pc[t] # "idle" /\ pc[t] \in SealLoopPC /\ pc[t] \notin FilePC
  BY DEF LoopPC, SealLoopPC, FilePC
<1>3. PICK f \in Files : /\ req[t] \in Requests /\ req[t].name = Plain(f, 0)
                         /\ HandlerAt(t, f)
  BY <1>2, Handling
<1>4. /\ Loop(t, f) /\ TmpPart(t, f) /\ OldLock(f) = NoLock
      /\ cred[t] \in Creds /\ cred[t] # NoLock /\ cred[t][1] \in Kinds /\ OldLock(f) \in Locks
      /\ req[t].op \in SealerOps
      /\ pc \in [Threads -> PC] /\ todo \in [Threads -> SUBSET Names]
      /\ cur \in [Threads -> Names \union {NoRequest}]
  <2>1. Loop(t, f) /\ TmpPart(t, f) /\ cred[t] \in Creds /\ cred[t] # NoLock
           /\ cred[t][1] \in Kinds /\ OldLock(f) \in Locks
    BY <1>2, <1>3, InLoop
  <2> QED  BY <1>2, <2>1 DEF VInv, IInv, ControlOK, SealPC, Loop, TypeOK
<1>5. CASE todo[t] = {} /\ Finish(t, TRUE)
  <2>1. pc'[t] = "return" /\ UNCHANGED <<store, default, opened, req, cred>>
    BY <1>4, <1>5 DEF Finish, Answer, SealerOps, jobVars
  <2>2. WasLocked(t, f)
    <3>1. ASSUME NEW n \in 0..MaxVersion, n \in DOMAIN OldContent(f)
          PROVE  HiddenIn(store, Plain(f, n), cred[t], OldContent(f)[n])
      BY <1>2, <1>4, <1>5, <3>1 DEF Loop, NameInLoop, SealLoopAt
    <3>2. ASSUME NEW n \in 0..MaxVersion, n \notin DOMAIN OldContent(f)
          PROVE  AbsentIn(store, Plain(f, n))
      BY <1>4, <3>2 DEF Loop, NameInLoop
    <3>3. /\ DOMAIN OldContent(f) \subseteq 0..MaxVersion /\ 0 \in DOMAIN OldContent(f)
          /\ \A n \in DOMAIN OldContent(f) : OldContent(f)[n] \in Clear
      BY <1>2, <1>3, InLoop DEF Loop
    <3> QED  BY <1>4, <3>1, <3>2, <3>3 DEF WasLocked, FileIn
  <2>3. TmpOpen'
    <3>1. LoopChange(f)
      BY <2>1 DEF LoopChange, SameFile, SameName, SameAt, IsLent
    <3> QED  BY <2>1, <3>1, DirectoryStep
  <2>4. UNCHANGED settled
    BY <2>1, NotSettled
  <2> QED  BY <1>1, <1>2, <1>3, <1>4, <2>1, <2>2, <2>3, <2>4, AnswerStep
           DEF TmpPart, SealerOps
<1>6. ASSUME NEW x \in todo[t], NextFile(t, x),
             IF Len(x[3]) = MaxSeals THEN UNCHANGED <<store, pc>>
             ELSE /\ store' = Put(Marker(x, cred[t][1]), Of(Nothing))
                  /\ Goto(t, "sealWrite")
      PROVE  VInv'
  <2> USE DEF NextFile
  <2>1. PICK k \in 0..MaxVersion : x = Plain(f, k)
    BY <1>2, <1>4, <1>6 DEF Loop, LoopNames
  <2> DEFINE m == Marker(Plain(f, k), cred[t][1])
             b == OldContent(f)[k]
  <2>2. /\ k \in DOMAIN OldContent(f) /\ ClearIn(store, x, b)
    BY <1>2, <1>4, <1>6, <2>1 DEF Loop, NameInLoop, SealLoopAt
  <2>3. store' = Put(m, Of(Nothing)) /\ pc'[t] = "sealWrite"
    BY <1>4, <1>6, <2>1, PlainName, BoundsAssumption
  <2>4. Becomes(m, Of(Nothing))
    BY <2>3, StoreChanges
  <2>5. UNCHANGED <<settled, req, cred, default, opened, success>>
        /\ todo'[t] = todo[t] \ {x} /\ cur'[t] = x
    BY <1>4, <1>6, <2>3, NotSettled
  <2>6. SealLoopAt(t, x, b)'
    <3>1. \A kind \in Kinds : /\ Marker(x, kind) # x
                              /\ Marker(x, kind) = m <=> kind = cred[t][1]
      BY <1>4, <2>1, NamesOfFile
    <3>2. /\ x \in DOMAIN store' /\ store'[x] = Of(b)
          /\ \A kind \in Kinds : Marker(x, kind) \in DOMAIN store' <=> kind = cred[t][1]
      <4> HIDE DEF m
      <4> QED  BY <1>4, <2>1, <2>2, <2>4, <3>1 DEF ClearIn, Becomes, m
    <3>3. pc'[t] \in FilePC /\ cur'[t] = x /\ cred'[t] = cred[t] /\ b' = b
      BY <2>3, <2>5 DEF FilePC, OldContent
    <3> QED  BY <3>2, <3>3 DEF SealLoopAt, Exists
  <2>7. Loop(t, f)'
    <3>1. LoopNames(t, f)'
      BY <1>2, <1>4, <2>1, <2>5 DEF Loop, LoopNames
    <3>2. \A n \in 0..MaxVersion : n # k => SameName(store, store', Plain(f, n))
      BY <1>4, <2>4, OtherNameSame
    <3>3. \A n \in 0..MaxVersion : n # k => NameInLoop(t, f, n)'
      BY <1>2, <1>4, <2>1, <2>5, <3>2, OtherNamesKept
    <3>4. NameInLoop(t, f, k)'
      BY <1>4, <2>1, <2>2, <2>5, <2>6 DEF NameInLoop, OldLock, OldContent
    <3> QED  BY <1>4, <2>3, <2>5, <3>1, <3>3, <3>4
             DEF Loop, OldLock, OldContent, SealLoopPC
  <2>8. LoopChange(f)
    BY <1>4, <2>4, LoopChanges
  <2>9. success'[t] /\ pc'[t] \in SealLoopPC /\ pc'[t] \notin UnsealPC /\ pc'[t] \in LoopPC
    BY <2>3, <2>5 DEF VInv, Begun, UnsealPC, SealLoopPC, LoopPC
  <2> QED  BY <1>1, <1>2, <1>3, <2>5, <2>7, <2>8, <2>9, LoopStep
<1> QED  BY <1>5, <1>6

\* A step on the file in hand keeps the invariant when it keeps what the loop
\* says of that file.
LEMMA HandStep ==
    ASSUME VInv, IInv', NEW t \in Threads, Threads = {t}, NEW f \in Files,
           req[t].name = Plain(f, 0), HandlerAt(t, f), pc[t] \in LoopPC, pc[t] \in FilePC,
           NEW k \in 0..MaxVersion, cur[t] = Plain(f, k),
           pc'[t] \in LoopPC, pc'[t] \in SealLoopPC <=> pc[t] \in SealLoopPC,
           pc'[t] \in FilePC => cur'[t] = cur[t],
           UNCHANGED <<settled, req, cred, todo, default, opened>>,
           LoopChange(f),
           \A n \in 0..MaxVersion : n # k => SameName(store, store', Plain(f, n)),
           NameInLoop(t, f, k)',
           pc'[t] \in SealLoopPC \/ OldLock(f) = cred[t] => success'[t],
           pc'[t] = "unsealOpen" /\ success'[t] => OldLock(f) = cred[t]
    PROVE  VInv'
<1>1. Loop(t, f) /\ OldLock(f) \in Locks /\ cred[t] \in Creds
  BY InLoop
<1>2. LoopNames(t, f)'
  BY <1>1 DEF Loop, LoopNames
<1>3. \A n \in 0..MaxVersion : n # k => NameInLoop(t, f, n)'
  BY <1>1, OtherNamesKept
<1>4. Loop(t, f)'
  BY <1>1, <1>2, <1>3 DEF Loop, OldLock, OldContent
<1>5. pc'[t] \in UnsealPC => pc[t] \in UnsealPC
  BY DEF UnsealPC, SealLoopPC, LoopPC
<1> QED  BY <1>4, <1>5, LoopStep

\* The content of the version in hand goes behind the lock ...
LEMMA SealWriteHolds ==
    ASSUME VInv, NEW t \in Threads, Threads = {t}, Settles, SealWrite(t)
    PROVE  VInv'
<1> USE DEF SealWrite, Then, jobVars
<1>1. IInv'
  BY SealWriteKeeps DEF VInv
<1>2. pc[t] \in LoopPC /\ pc[t] # "idle" /\ pc[t] \in SealLoopPC /\ pc[t] \in FilePC
  BY DEF LoopPC, SealLoopPC, FilePC
<1>3. PICK f \in Files : /\ req[t] \in Requests /\ req[t].name = Plain(f, 0)
                         /\ HandlerAt(t, f)
  BY <1>2, Handling
<1>4. /\ Loop(t, f) /\ OldLock(f) = NoLock
      /\ cred[t][1] \in Kinds
      /\ pc'[t] = "sealHide" /\ Exists(MarkerOf(t))
  BY <1>2, <1>3, InLoop DEF VInv, IInv, TypeOK, Loop, MarkerInHand
<1>5. PICK k \in 0..MaxVersion :
             /\ k \in DOMAIN OldContent(f) /\ cur[t] = Plain(f, k)
             /\ MarkerOf(t) = Marker(Plain(f, k), cred[t][1])
             /\ SealLoopAt(t, cur[t], OldContent(f)[k])
  BY <1>2, <1>4, FileInHand
<1> DEFINE y == Plain(f, k)
           m == MarkerOf(t)
           c == Seal(Read(cur[t]), cred[t][2])
           b == OldContent(f)[k]
<1>6. Becomes(m, c) /\ Exists(m)
  BY <1>4, StoreChanges
<1>7. UNCHANGED settled /\ pc'[t] \in LoopPC /\ pc'[t] \in SealLoopPC /\ pc'[t] \in FilePC
  BY <1>4, NotSettled DEF LoopPC, SealLoopPC, FilePC
<1>8. LoopChange(f) /\ \A n \in 0..MaxVersion : n # k => SameName(store, store', Plain(f, n))
  BY <1>4, <1>5, <1>6, LoopChanges, OtherNameSame
<1>9. NameInLoop(t, f, k)'
  <2>1. /\ y \in DOMAIN store /\ store[y] = Of(b)
        /\ \A kind \in Kinds : Marker(y, kind) \in DOMAIN store <=> kind = cred[t][1]
    BY <1>2, <1>5 DEF SealLoopAt, Exists
  <2>2. y # m
    BY <1>4, <1>5, NamesOfFile
  <2>3. /\ y \in DOMAIN store' /\ store'[y] = Of(b)
        /\ \A kind \in Kinds : Marker(y, kind) \in DOMAIN store' <=> kind = cred[t][1]
    <3> HIDE DEF m, c, y, b
    <3> QED  BY <1>6, <2>1, <2>2 DEF Becomes, Exists
  <2>4. cur'[t] = y /\ b' = b /\ OldLock(f)' = NoLock
        /\ DOMAIN OldContent(f)' = DOMAIN OldContent(f)
    BY <1>4, <1>5, <1>7 DEF OldContent, OldLock
  <2> QED  BY <1>5, <1>7, <2>3, <2>4 DEF NameInLoop, SealLoopAt, Exists
<1>10. success'[t] /\ pc'[t] # "unsealOpen"
  BY <1>4 DEF VInv, Begun, UnsealPC
<1> QED  BY <1>1, <1>2, <1>3, <1>5, <1>7, <1>8, <1>9, <1>10, HandStep

\* ... and the version shows the placeholder.
LEMMA SealHideHolds ==
    ASSUME VInv, NEW t \in Threads, Threads = {t}, Settles, SealHide(t)
    PROVE  VInv'
<1> USE DEF SealHide, Then, jobVars
<1>1. IInv'
  BY SealHideKeeps DEF VInv
<1>2. pc[t] \in LoopPC /\ pc[t] # "idle" /\ pc[t] \in SealLoopPC /\ pc[t] \in FilePC
  BY DEF LoopPC, SealLoopPC, FilePC
<1>3. PICK f \in Files : /\ req[t] \in Requests /\ req[t].name = Plain(f, 0)
                         /\ HandlerAt(t, f)
  BY <1>2, Handling
<1>4. /\ Loop(t, f) /\ OldLock(f) = NoLock
      /\ cred[t][1] \in Kinds
      /\ pc'[t] = "sealOpen"
      /\ Exists(MarkerOf(t)) /\ store[MarkerOf(t)] = Seal(Read(cur[t]), cred[t][2])
  BY <1>2, <1>3, InLoop DEF VInv, IInv, TypeOK, Loop, MarkerInHand
<1>5. PICK k \in 0..MaxVersion :
             /\ k \in DOMAIN OldContent(f) /\ cur[t] = Plain(f, k) /\ cur[t] \notin todo[t]
             /\ MarkerOf(t) = Marker(Plain(f, k), cred[t][1])
             /\ SealLoopAt(t, cur[t], OldContent(f)[k])
  BY <1>2, <1>4, FileInHand
<1> DEFINE y == Plain(f, k)
           b == OldContent(f)[k]
<1>6. Becomes(y, Of(Placeholder))
  BY <1>5, StoreChanges
<1>7. UNCHANGED settled /\ pc'[t] \in LoopPC /\ pc'[t] \in SealLoopPC /\ pc'[t] \notin FilePC
  BY <1>4, NotSettled DEF LoopPC, SealLoopPC, FilePC
<1>8. LoopChange(f) /\ \A n \in 0..MaxVersion : n # k => SameName(store, store', Plain(f, n))
  BY <1>4, <1>5, <1>6, LoopChanges, OtherNameSame
<1>9. NameInLoop(t, f, k)'
  <2>1. /\ y \in DOMAIN store /\ store[y] = Of(b)
        /\ \A kind \in Kinds : Marker(y, kind) \in DOMAIN store <=> kind = cred[t][1]
        /\ store[Marker(y, cred[t][1])] = Seal(Of(b), cred[t][2])
    BY <1>2, <1>4, <1>5 DEF SealLoopAt, Exists, Read
  <2>2. \A kind \in Kinds : Marker(y, kind) # y
    BY <1>4, <1>5, NamesOfFile
  <2>3. HiddenIn(store', y, cred[t], b)
    <3> HIDE DEF y, b
    <3> QED  BY <1>4, <1>6, <2>1, <2>2 DEF Becomes, HiddenIn, SealedIn
  <2>4. b' = b /\ OldLock(f)' = NoLock /\ cred'[t] = cred[t] /\ todo'[t] = todo[t]
        /\ DOMAIN OldContent(f)' = DOMAIN OldContent(f)
    BY <1>4, <1>5, <1>7 DEF OldContent, OldLock
  <2> QED  BY <1>5, <1>7, <2>3, <2>4 DEF NameInLoop, SealLoopAt
<1>10. success'[t] /\ pc'[t] # "unsealOpen"
  BY <1>4 DEF VInv, Begun, UnsealPC
<1> QED  BY <1>1, <1>2, <1>3, <1>5, <1>7, <1>8, <1>9, <1>10, HandStep

\* A version that is hidden opens with its own key only.
LEMMA HiddenOpens ==
    ASSUME NEW y, NEW l \in Locks, l # NoLock, NEW b \in Clear,
           SealedIn(store, y, l, b), NEW c \in Creds,
           NEW e, e = Read(Marker(y, c[1]))
    PROVE  /\ Opens(c[2], e) <=> c = l
           /\ c = l => Unseal(e) = Of(b)
<1>1. l[1] \in Kinds /\ l[2] \in Keys /\ l = <<l[1], l[2]>>
      /\ c[1] \in Kinds /\ c[2] \in Keys /\ c = <<c[1], c[2]>>
  BY LockParts, CredParts DEF Creds
<1>2. CASE c[1] = l[1]
  <2>1. e = Seal(Of(b), l[2])
    BY <1>1, <1>2 DEF SealedIn, Read, Exists
  <2> QED  BY <1>1, <1>2, <2>1, SealOfClear
<1>3. CASE c[1] # l[1]
  <2>1. e = Of(Nothing)
    BY <1>1, <1>3 DEF SealedIn, Read, Exists
  <2> QED  BY <1>1, <1>3, <2>1, PlainContent DEF Opens
<1> QED  BY <1>2, <1>3

\* An unlock that is over has opened every version of the file or, without the
\* key, none.
LEMMA UnsealOver ==
    ASSUME VInv, NEW t \in Threads, Threads = {t}, NEW f \in Files,
           Loop(t, f), pc[t] = "unsealOpen", todo[t] = {}, OldLock(f) # NoLock,
           DOMAIN OldContent(f) \subseteq 0..MaxVersion,
           \A n \in DOMAIN OldContent(f) : OldContent(f)[n] \in Clear,
           cred[t] \in Creds, req[t].name = Plain(f, 0)
    PROVE  /\ success[t] => WasUnlocked(t, f)
           /\ ~success[t] => Unchanged(f)
           /\ LET m == Marker(Plain(f, 0), cred[t][1]) IN
              ~success[t] => ~(Exists(m) /\ Opens(cred[t][2], store[m]))
<1>1. success[t] <=> OldLock(f) = cred[t]
  BY DEF Loop
<1>2. ASSUME NEW n \in 0..MaxVersion, n \in DOMAIN OldContent(f)
      PROVE  IF success[t] THEN ClearIn(store, Plain(f, n), OldContent(f)[n])
             ELSE HiddenIn(store, Plain(f, n), OldLock(f), OldContent(f)[n])
  <2>1. NameInLoop(t, f, n)
    BY DEF Loop
  <2> QED  BY <1>1, <1>2, <2>1 DEF NameInLoop, UnsealLoopAt, FilePC
<1>3. ASSUME NEW n \in 0..MaxVersion, n \notin DOMAIN OldContent(f)
      PROVE  AbsentIn(store, Plain(f, n))
  BY <1>3 DEF Loop, NameInLoop
<1>4. 0 \in DOMAIN OldContent(f) /\ 0 \in 0..MaxVersion
  BY BoundsAssumption DEF Loop
<1>5. success[t] => WasUnlocked(t, f)
  BY <1>1, <1>2, <1>3 DEF WasUnlocked, FileIn
<1>6. ~success[t] => Unchanged(f)
  BY <1>2, <1>3, <1>4 DEF Unchanged, FileIn
<1>7. ASSUME ~success[t]
      PROVE  LET m == Marker(Plain(f, 0), cred[t][1]) IN
             ~(Exists(m) /\ Opens(cred[t][2], store[m]))
  <2>1. SealedIn(store, Plain(f, 0), OldLock(f), OldContent(f)[0])
    BY <1>2, <1>4, <1>7 DEF HiddenIn
  <2>2. OldLock(f) \in Locks
    BY DEF VInv, SettledOK
  <2> DEFINE m == Marker(Plain(f, 0), cred[t][1])
  <2>3. ~Opens(cred[t][2], Read(m))
    BY <1>1, <1>4, <1>7, <2>1, <2>2, HiddenOpens
  <2> QED  BY <2>3 DEF Read
<1> QED  BY <1>5, <1>6, <1>7

\* The next file of an unlock is emptied; its content is behind the lock.
LEMMA UnsealOpenHolds ==
    ASSUME VInv, NEW t \in Threads, Threads = {t}, Settles, UnsealOpen(t)
    PROVE  VInv'
<1> USE DEF UnsealOpen
<1>1. IInv'
  BY UnsealOpenKeeps DEF VInv
<1>2. /\ pc[t] \in LoopPC /\ pc[t] # "idle" /\ pc[t] \in UnsealPC /\ pc[t] \notin SealLoopPC
      /\ pc[t] \notin FilePC
  BY DEF LoopPC, SealLoopPC, FilePC, UnsealPC
<1>3. PICK f \in Files : /\ req[t] \in Requests /\ req[t].name = Plain(f, 0)
                         /\ Plain(f, 0) \in Names /\ HandlerAt(t, f)
  BY <1>2, Handling
<1>4. /\ Loop(t, f) /\ TmpPart(t, f) /\ OldLock(f) # NoLock
      /\ cred[t] \in Creds /\ cred[t][1] \in Kinds /\ OldLock(f) \in Locks
      /\ DOMAIN OldContent(f) \subseteq 0..MaxVersion
      /\ \A n \in DOMAIN OldContent(f) : OldContent(f)[n] \in Clear
  BY <1>2, <1>3, InLoop DEF Loop
<1>41. /\ req[t].op \in {"unlock", "open"}
       /\ pc \in [Threads -> PC] /\ todo \in [Threads -> SUBSET Names]
       /\ cur \in [Threads -> Names \union {NoRequest}]
       /\ success \in [Threads -> BOOLEAN]
       /\ reply \in [Threads -> {"none", "ok", "failed", "enoent", "ebadf"}]
  BY <1>2 DEF VInv, IInv, ControlOK, TypeOK
<1>5. CASE todo[t] = {} /\ Finish(t, success[t])
  <2>1. UNCHANGED <<store, default, opened, req, cred>>
    BY <1>5 DEF Finish, jobVars
  <2>2. /\ success[t] => WasUnlocked(t, f)
        /\ ~success[t] => Unchanged(f)
        /\ LET m == Marker(Plain(f, 0), cred[t][1]) IN
           ~success[t] => ~(Exists(m) /\ Opens(cred[t][2], store[m]))
    BY <1>3, <1>4, <1>5, UnsealOver
  <2>3. LoopChange(f)
    BY <2>1 DEF LoopChange, SameFile, SameName, SameAt, IsLent
  <2>4. TmpOpen' /\ StoreShape'
    BY <1>2, <2>1, <2>3, DirectoryStep DEF UnsealPC
  <2>5. CASE req[t].op = "unlock"
    <3>1. pc'[t] = "return" /\ reply'[t] = IF success[t] THEN "ok" ELSE "failed"
      BY <1>5, <1>41, <2>5 DEF Finish, Answer
    <3>2. UNCHANGED settled
      BY <3>1, NotSettled
    <3>3. SameTmp(f)
      BY <1>4, <2>5 DEF TmpPart
    <3> QED  BY <1>1, <1>2, <1>3, <2>1, <2>2, <2>4, <2>5, <3>1, <3>2, <3>3, AnswerStep
  <2>6. CASE req[t].op = "open"
    <3>1. pc'[t] = IF success[t] THEN "makeTmp" ELSE "openFile"
      BY <1>5, <1>41, <2>6 DEF Finish
    <3>2. UNCHANGED settled
      BY <3>1, NotSettled
    <3>3. SameTmp(f)
      BY <1>4, <2>6 DEF TmpPart
    <3>4. HandlerAt(t, f)'
      BY <2>1, <2>2, <3>1, <3>2, <3>3
         DEF HandlerAt, WasUnlocked, Unchanged, SameTmp, OldLock, OldContent, OldLent, NowLent,
             LoopPC, SealLoopPC, UnsealPC
    <3>5. default \in KeyFiles
      BY <1>2, <2>6 DEF VInv, Begun
    <3>6. Begun' /\ UnlockByItsKeySucceeds'
      BY <2>1, <3>1, <3>5 DEF Begun, UnlockByItsKeySucceeds, UnsealPC
    <3> QED  BY <1>1, <1>2, <1>3, <2>1, <2>3, <2>4, <3>1, <3>2, <3>4, <3>6, HandlerStep
             DEF LoopChange
  <2> QED  BY <1>41, <2>5, <2>6
<1>6. ASSUME NEW x \in todo[t], NextFile(t, x), x[3] # <<>>, UNCHANGED <<store, pc, buf>>
      PROVE  VInv'
  <2> USE DEF NextFile
  <2>1. /\ UNCHANGED <<settled, req, cred, default, opened, success>>
        /\ todo'[t] = todo[t] \ {x} /\ cur'[t] = x
    BY <1>2, <1>41, <1>6, NotSettled
  <2>2. LoopChange(f)
    BY <1>6 DEF LoopChange, SameFile, SameName, SameAt, IsLent
  <2>3. ASSUME NEW n \in 0..MaxVersion
        PROVE  NameInLoop(t, f, n)'
    <3>1. Plain(f, n) # x
      BY <1>6, PlainName
    <3>2. NameInLoop(t, f, n) /\ SameName(store, store', Plain(f, n))
      BY <1>4, <1>6 DEF Loop, SameName, SameAt
    <3> QED  BY <1>2, <1>4, <1>6, <2>1, <3>1, <3>2, OtherNameKept
  <2>4. Plain(f, 0) \in todo'[t]
    <3>1. Plain(f, 0) # x
      BY <1>6, PlainName, BoundsAssumption
    <3>2. Plain(f, 0) \in todo[t]
      BY <1>3, <1>6 DEF VInv, IInv, FileComesLast
    <3> QED  BY <2>1, <3>1, <3>2
  <2>5. LoopNames(t, f)'
    BY <1>2, <1>4, <1>6, <2>1 DEF Loop, LoopNames
  <2>6. Loop(t, f)'
    BY <1>2, <1>4, <1>6, <2>1, <2>3, <2>4, <2>5 DEF Loop, OldLock, OldContent
  <2> QED  BY <1>1, <1>2, <1>3, <1>6, <2>1, <2>2, <2>6, LoopStep
<1>7. ASSUME NEW x \in todo[t], NextFile(t, x), x[3] = <<>>,
             buf' = [buf EXCEPT ![t] = Read(Marker(x, cred[t][1]))],
             store' = Put(x, Of(Nothing)), Goto(t, "unsealWrite")
      PROVE  VInv'
  <2> USE DEF NextFile
  <2>1. PICK k \in 0..MaxVersion : x = Plain(f, k)
    BY <1>4, <1>7 DEF Loop, LoopNames
  <2> DEFINE b == OldContent(f)[k]
             l == OldLock(f)
  <2>2. k \in DOMAIN OldContent(f) /\ HiddenIn(store, x, l, b)
    BY <1>2, <1>4, <1>7, <2>1 DEF Loop, NameInLoop, UnsealLoopAt
  <2>3. Becomes(x, Of(Nothing))
    BY <1>7, StoreChanges
  <2>4. pc'[t] = "unsealWrite" /\ pc'[t] \in UnsealPC /\ pc'[t] \in LoopPC
        /\ pc'[t] \notin SealLoopPC /\ pc'[t] \in FilePC
    BY <1>7, <1>41 DEF UnsealPC, LoopPC, SealLoopPC, FilePC
  <2>5. UNCHANGED <<settled, req, cred, default, opened, success>>
        /\ todo'[t] = todo[t] \ {x} /\ cur'[t] = x
    BY <1>41, <1>7, <2>4, NotSettled
  <2>6. NameInLoop(t, f, k)'
    <3>1. l[1] \in Kinds /\ \A kind \in Kinds : Marker(x, kind) # x
      BY <1>4, <2>1, NamesOfFile, LockParts
    <3>2. x \in DOMAIN store' /\ store'[x] = Of(Nothing) /\ SealedIn(store', x, l, b)
      <4> HIDE DEF b, l
      <4> QED  BY <2>2, <2>3, <3>1 DEF HiddenIn, SealedIn, Becomes
    <3>3. b' = b /\ OldLock(f)' = l /\ DOMAIN OldContent(f)' = DOMAIN OldContent(f)
      BY <2>5 DEF OldContent, OldLock
    <3> QED  BY <1>4, <2>1, <2>2, <2>4, <2>5, <3>2, <3>3 DEF NameInLoop, UnsealLoopAt
  <2>7. LoopChange(f) /\ \A n \in 0..MaxVersion : n # k => SameName(store, store', Plain(f, n))
    BY <1>4, <2>1, <2>3, LoopChanges, OtherNameSame
  <2>8. \A n \in 0..MaxVersion : n # k => NameInLoop(t, f, n)'
    BY <1>2, <1>4, <2>1, <2>5, <2>7, OtherNamesKept
  <2>9. LoopNames(t, f)'
    BY <1>2, <1>4, <2>1, <2>4, <2>5 DEF Loop, LoopNames
  <2>10. Loop(t, f)'
    BY <1>2, <1>4, <2>4, <2>5, <2>6, <2>8, <2>9 DEF Loop, OldLock, OldContent
  <2> QED  BY <1>1, <1>2, <1>3, <2>4, <2>5, <2>7, <2>10, LoopStep
<1> QED  BY <1>5, <1>6, <1>7

\* What the version in hand gets: its content with the right key, the
\* placeholder with a wrong one.
LEMMA UnsealWriteHolds ==
    ASSUME VInv, NEW t \in Threads, Threads = {t}, Settles, UnsealWrite(t)
    PROVE  VInv'
<1> USE DEF UnsealWrite
<1>1. IInv'
  BY UnsealWriteKeeps DEF VInv
<1>2. /\ pc[t] \in LoopPC /\ pc[t] # "idle" /\ pc[t] \in UnsealPC /\ pc[t] \notin SealLoopPC
      /\ pc[t] \in FilePC
  BY DEF LoopPC, SealLoopPC, FilePC, UnsealPC
<1>3. PICK f \in Files : /\ req[t] \in Requests /\ req[t].name = Plain(f, 0)
                         /\ HandlerAt(t, f)
  BY <1>2, Handling
<1>4. /\ Loop(t, f) /\ OldLock(f) # NoLock
      /\ cred[t] \in Creds /\ cred[t][1] \in Kinds /\ OldLock(f) \in Locks
      /\ \A n \in DOMAIN OldContent(f) : OldContent(f)[n] \in Clear
      /\ pc \in [Threads -> PC] /\ success \in [Threads -> BOOLEAN]
      /\ buf[t] = Read(MarkerOf(t))
  BY <1>2, <1>3, InLoop DEF Loop, VInv, IInv, TypeOK, MarkerInHand
<1>5. PICK k \in 0..MaxVersion :
             /\ k \in DOMAIN OldContent(f) /\ cur[t] = Plain(f, k) /\ cur[t] \notin todo[t]
             /\ MarkerOf(t) = Marker(Plain(f, k), cred[t][1])
             /\ UnsealLoopAt(t, cur[t], OldLock(f), OldContent(f)[k])
  BY <1>2, <1>4, FileInHand
<1> DEFINE y == Plain(f, k)
           b == OldContent(f)[k]
           l == OldLock(f)
<1>6. /\ y \in DOMAIN store /\ SealedIn(store, y, l, b)
      /\ Opens(cred[t][2], buf[t]) <=> cred[t] = l
      /\ cred[t] = l => Unseal(buf[t]) = Of(b) /\ success[t]
  <2>1. y \in DOMAIN store /\ SealedIn(store, y, l, b)
    BY <1>2, <1>5 DEF UnsealLoopAt
  <2> QED  BY <1>4, <1>5, <2>1, HiddenOpens DEF Loop
<1>7. ASSUME NEW c, Becomes(y, c)
      PROVE  /\ y \in DOMAIN store' /\ store'[y] = c /\ SealedIn(store', y, l, b)
             /\ LoopChange(f)
             /\ \A n \in 0..MaxVersion : n # k => SameName(store, store', Plain(f, n))
  <2>1. l[1] \in Kinds /\ \A kind \in Kinds : Marker(y, kind) # y
    BY <1>4, <1>5, NamesOfFile, LockParts
  <2>2. y \in DOMAIN store' /\ store'[y] = c /\ SealedIn(store', y, l, b)
    <3> HIDE DEF y, b, l
    <3> QED  BY <1>6, <1>7, <2>1 DEF SealedIn, Becomes
  <2> QED  BY <1>4, <1>5, <1>7, <2>2, LoopChanges, OtherNameSame
<1>8. CASE cred[t] = l
  <2>1. store' = Fill(cur[t], Of(b)) /\ pc'[t] = "unsealRemove" /\ UNCHANGED success
    BY <1>4, <1>6, <1>8
  <2>2. Becomes(y, Of(b))
    BY <1>5, <1>6, <2>1, StoreChanges DEF Exists
  <2>3. pc'[t] \in LoopPC /\ pc'[t] \notin SealLoopPC /\ pc'[t] \in FilePC
        /\ UNCHANGED settled
    BY <2>1, NotSettled DEF UnsealPC, LoopPC, SealLoopPC, FilePC
  <2>4. NameInLoop(t, f, k)'
    <3>1. b' = b /\ OldLock(f)' = l /\ DOMAIN OldContent(f)' = DOMAIN OldContent(f)
      BY <2>3 DEF OldContent, OldLock
    <3> QED  BY <1>4, <1>5, <1>7, <1>8, <2>1, <2>2, <2>3, <3>1 DEF NameInLoop, UnsealLoopAt
  <2> QED  BY <1>1, <1>2, <1>3, <1>5, <1>6, <1>7, <1>8, <2>1, <2>2, <2>3, <2>4, HandStep
<1>9. CASE cred[t] # l
  <2>1. /\ store' = Put(cur[t], Of(Placeholder)) /\ pc'[t] = "unsealOpen"
        /\ success'[t] = FALSE
    BY <1>4, <1>6, <1>9 DEF AfterFailure
  <2>2. Becomes(y, Of(Placeholder))
    BY <1>5, <2>1, StoreChanges
  <2>3. pc'[t] \in LoopPC /\ pc'[t] \notin SealLoopPC /\ pc'[t] \notin FilePC
        /\ UNCHANGED settled
    BY <2>1, NotSettled DEF UnsealPC, LoopPC, SealLoopPC, FilePC
  <2>4. NameInLoop(t, f, k)'
    <3>1. b' = b /\ OldLock(f)' = l /\ DOMAIN OldContent(f)' = DOMAIN OldContent(f)
      BY <2>3 DEF OldContent, OldLock
    <3>2. HiddenIn(store', y, l, b)
      BY <1>7, <2>2 DEF HiddenIn
    <3> QED  BY <1>4, <1>5, <1>9, <2>3, <3>1, <3>2 DEF NameInLoop, UnsealLoopAt
  <2> QED  BY <1>1, <1>2, <1>3, <1>5, <1>7, <1>9, <2>1, <2>2, <2>3, <2>4, HandStep
<1> QED  BY <1>8, <1>9

\* The marker goes when its content is back.
LEMMA UnsealRemoveHolds ==
    ASSUME VInv, NEW t \in Threads, Threads = {t}, Settles, UnsealRemove(t)
    PROVE  VInv'
<1> USE DEF UnsealRemove, Then, jobVars
<1>1. IInv'
  BY UnsealRemoveKeeps DEF VInv
<1>2. /\ pc[t] \in LoopPC /\ pc[t] # "idle" /\ pc[t] \in UnsealPC /\ pc[t] \notin SealLoopPC
      /\ pc[t] \in FilePC
  BY DEF LoopPC, SealLoopPC, FilePC, UnsealPC
<1>3. PICK f \in Files : /\ req[t] \in Requests /\ req[t].name = Plain(f, 0)
                         /\ HandlerAt(t, f)
  BY <1>2, Handling
<1>4. /\ Loop(t, f) /\ OldLock(f) # NoLock
      /\ cred[t] \in Creds /\ cred[t][1] \in Kinds /\ OldLock(f) \in Locks
      /\ pc'[t] = "unsealOpen"
  BY <1>2, <1>3, InLoop DEF Loop, VInv, IInv, TypeOK
<1>5. PICK k \in 0..MaxVersion :
             /\ k \in DOMAIN OldContent(f) /\ cur[t] = Plain(f, k) /\ cur[t] \notin todo[t]
             /\ MarkerOf(t) = Marker(Plain(f, k), cred[t][1])
             /\ UnsealLoopAt(t, cur[t], OldLock(f), OldContent(f)[k])
  BY <1>2, <1>4, FileInHand
<1> DEFINE y == Plain(f, k)
           b == OldContent(f)[k]
           l == OldLock(f)
<1>6. /\ y \in DOMAIN store /\ SealedIn(store, y, l, b) /\ l = cred[t] /\ store[y] = Of(b)
      /\ success[t]
  BY <1>2, <1>4, <1>5 DEF UnsealLoopAt, Loop
<1>7. Loses({MarkerOf(t)})
  BY StoreChanges
<1>8. LoopChange(f) /\ \A n \in 0..MaxVersion : n # k => SameName(store, store', Plain(f, n))
  BY <1>4, <1>5, <1>7, LoopChanges, OtherNameSame
<1>9. pc'[t] \in LoopPC /\ pc'[t] \notin SealLoopPC /\ pc'[t] \notin FilePC
      /\ UNCHANGED settled
  BY <1>4, NotSettled DEF UnsealPC, LoopPC, SealLoopPC, FilePC
<1>10. NameInLoop(t, f, k)'
  <2>1. \A kind \in Kinds : Marker(y, kind) # y
    BY <1>5, NamesOfFile
  <2>2. ClearIn(store', y, b)
    <3> DEFINE m == Marker(y, cred[t][1])
    <3>1. m # y /\ Loses({m}) /\ \A kind \in Kinds : Marker(y, kind) \in DOMAIN store
                                                       => Marker(y, kind) = m
      BY <1>4, <1>5, <1>6, <1>7, <2>1 DEF SealedIn
    <3> HIDE DEF m, y, b
    <3> QED  BY <1>6, <3>1 DEF ClearIn, Loses
  <2>3. b' = b /\ OldLock(f)' = l /\ DOMAIN OldContent(f)' = DOMAIN OldContent(f)
    BY <1>9 DEF OldContent, OldLock
  <2> QED  BY <1>4, <1>5, <1>6, <1>9, <2>2, <2>3 DEF NameInLoop, UnsealLoopAt
<1> QED  BY <1>1, <1>2, <1>3, <1>5, <1>6, <1>8, <1>9, <1>10, HandStep

\* prepare_files finds every version of the file, and nothing else that is to
\* be locked.
LEMMA ReadRelatedHolds ==
    ASSUME VInv, NEW t \in Threads, Threads = {t}, Settles, ReadRelated(t)
    PROVE  VInv'
<1> USE DEF ReadRelated
<1>1. IInv'
  BY ReadRelatedKeeps DEF VInv
<1>2. pc[t] # "idle" /\ pc[t] = "readRelated"
  OBVIOUS
<1>3. PICK f \in Files : /\ req[t] \in Requests /\ req[t].name = Plain(f, 0)
                         /\ req[t].name[1] = f /\ HandlerAt(t, f)
                         /\ OldLock(f) \in Locks
                         /\ FileIn(settled, f, OldLock(f), OldContent(f))
  BY <1>2, Handling
<1> DEFINE x == Plain(f, 0)
           c == OldContent(f)
           l == OldLock(f)
<1>4. /\ Unchanged(f) /\ Exists(x) /\ success[t]
      /\ ~Sealing(t) => IsEncrypted(x)
      /\ Sealing(t) => ~IsEncrypted(x)
      /\ DOMAIN store \subseteq Names
      /\ pc'[t] = (IF Sealing(t) THEN "sealOpen" ELSE "unsealOpen")
      /\ todo'[t] = {x} \union {z \in DOMAIN store : z[1] = f /\ z[2] # 0}
  BY <1>2, <1>3 DEF HandlerAt, VInv, IInv, TypeOK, Begun, NotLockedYet, UnsealPC, Related,
                    VersionNames
<1>5. UNCHANGED <<settled, req, default, opened, success, cred, store>> /\ pc'[t] \in LoopPC
  BY <1>4, NotSettled DEF LoopPC, SealLoopPC, UnsealPC
<1>6. /\ 0 \in DOMAIN c /\ 0 \in 0..MaxVersion
      /\ Sealing(t) <=> l = NoLock
      /\ cred[t] \in Creds
  <2>1. 0 \in 0..MaxVersion /\ cred[t] \in Creds
    BY <1>2, BoundsAssumption DEF VInv, IInv, ControlOK
  <2>2. 0 \in DOMAIN c
    BY <1>4, <2>1 DEF Unchanged, FileIn, AbsentIn, Exists
  <2>3. CASE l = NoLock
    BY <1>4, <2>1, <2>2, <2>3 DEF Unchanged, FileIn, ClearIn, IsEncrypted, Exists
  <2>4. CASE l # NoLock
    BY <1>3, <1>4, <2>1, <2>2, <2>4, LockParts
       DEF Unchanged, FileIn, HiddenIn, SealedIn, IsEncrypted, Exists
  <2> QED  BY <2>1, <2>2, <2>3, <2>4
<1>7. ASSUME NEW z \in todo'[t]
      PROVE  /\ z[1] = f
             /\ z[3] = <<>> => \E n \in 0..MaxVersion : z = Plain(f, n)
             /\ Sealing(t) => z[3] = <<>>
  <2>1. CASE z = x
    BY <1>6, <2>1, PlainName
  <2>2. CASE z \in DOMAIN store /\ z[1] = f /\ z[2] # 0
    <3>1. z = <<z[1], z[2], z[3]>> /\ z[2] \in 0..MaxVersion
      BY <1>4, <2>2, NameParts
    <3>2. z[3] = <<>> => z = Plain(f, z[2])
      BY <2>2, <3>1 DEF Plain
    <3>3. ASSUME Sealing(t), z[3] # <<>>
          PROVE  FALSE
      <4>1. PICK kind \in Kinds : z = Marker(Plain(f, z[2]), kind)
        BY <2>2, <3>3 DEF VInv, StoreShape
      <4> QED  BY <1>4, <1>6, <2>2, <3>1, <3>3, <4>1 DEF Unchanged, FileIn, AbsentIn, ClearIn
    <3> QED  BY <2>2, <3>1, <3>2, <3>3
  <2> QED  BY <1>4, <2>1, <2>2
<1>8. ASSUME NEW n \in 0..MaxVersion
      PROVE  NameInLoop(t, f, n)'
  <2> DEFINE y == Plain(f, n)
  <2>1. y[1] = f /\ y[2] = n
    BY PlainName
  <2>2. y \in todo'[t] <=> y \in DOMAIN store
    BY <1>4, <2>1 DEF Exists
  <2>3. y \in DOMAIN store <=> n \in DOMAIN c
    BY <1>4 DEF Unchanged, FileIn, AbsentIn, ClearIn, HiddenIn
  <2>4. OldLock(f)' = l /\ OldContent(f)' = c
    BY <1>5 DEF OldContent, OldLock
  <2>5. pc'[t] \notin FilePC
    BY <1>4 DEF FilePC
  <2>6. CASE n \notin DOMAIN c
    BY <1>4, <1>5, <2>2, <2>3, <2>4, <2>5, <2>6 DEF NameInLoop, Unchanged, FileIn
  <2>7. CASE n \in DOMAIN c
    BY <1>4, <1>5, <2>2, <2>3, <2>4, <2>5, <2>7
       DEF NameInLoop, Unchanged, FileIn, SealLoopAt, UnsealLoopAt
  <2> QED  BY <2>6, <2>7
<1>9. Loop(t, f)'
  <2>1. LoopNames(t, f)'
    BY <1>4, <1>7 DEF LoopNames, SealLoopPC, FilePC
  <2>2. OldLock(f)' = l /\ OldContent(f)' = c
    BY <1>5 DEF OldContent, OldLock
  <2> QED  BY <1>4, <1>5, <1>6, <1>8, <2>1, <2>2 DEF Loop, SealLoopPC
<1>10. LoopChange(f)
  BY <1>5 DEF LoopChange, SameFile, SameName, SameAt, IsLent
<1> QED  BY <1>1, <1>2, <1>3, <1>4, <1>5, <1>9, <1>10, LoopStep

-----------------------------------------------------------------------------
(* The steps before and after the loops *)

\* A handler goes on without touching the directory.
LEMMA HandlerGoesOn ==
    ASSUME VInv, IInv', NEW t \in Threads, Threads = {t}, NEW f \in Files, Settles,
           req[t].name = Plain(f, 0), pc[t] \notin {"idle", "openFile", "removeTmp"},
           pc'[t] \in {"isEncrypted", "readRelated", "openFile"},
           UNCHANGED <<store, default, opened, req, success>>,
           Unchanged(f),
           IF pc'[t] = "openFile" THEN SameTmp(f) ELSE TmpPart(t, f),
           pc'[t] # "openFile" => Exists(Plain(f, 0)) /\ success[t],
           pc'[t] = "readRelated" /\ ~Sealing(t) => IsEncrypted(Plain(f, 0)),
           pc'[t] = "readRelated" /\ req[t].op = "open" => default \in KeyFiles
    PROVE  VInv'
<1>1. UNCHANGED settled
  BY NotSettled
<1>2. LoopChange(f)
  BY DEF LoopChange, SameFile, SameName, SameAt, IsLent
<1>3. StoreShape' /\ TmpOpen'
  BY <1>2, DirectoryStep
<1>4. HandlerAt(t, f)'
  BY <1>1 DEF HandlerAt, Unchanged, SameTmp, TmpPart, Taken, OldLock, OldContent, OldLent,
              NowLent, LoopPC, SealLoopPC, UnsealPC
<1>5. Begun'
  BY DEF Begun, UnsealPC, Exists, IsEncrypted, Sealing
<1>6. UnlockByItsKeySucceeds'
  BY DEF UnlockByItsKeySucceeds
<1> QED  BY <1>1, <1>2, <1>3, <1>4, <1>5, <1>6, HandlerStep DEF LoopChange

\* What is there and what is locked can be told from the directory.
LEMMA LockedFile ==
    ASSUME NEW f \in Files, NEW l \in Locks, NEW c, NEW dir, FileIn(dir, f, l, c)
    PROVE  LET x == Plain(f, 0) IN
           /\ x \in DOMAIN dir <=> 0 \in DOMAIN c
           /\ (\E kind \in Kinds : Marker(x, kind) \in DOMAIN dir) <=> l # NoLock
           /\ l # NoLock => x \in DOMAIN dir
<1>1. 0 \in 0..MaxVersion
  BY BoundsAssumption
<1>2. CASE l = NoLock
  BY <1>1, <1>2 DEF FileIn, AbsentIn, ClearIn
<1>3. CASE l # NoLock
  BY <1>1, <1>3, LockParts DEF FileIn, HiddenIn, SealedIn
<1> QED  BY <1>2, <1>3

\* encrypt_file is done at once when the file is locked.
LEMMA CheckEncryptedHolds ==
    ASSUME VInv, NEW t \in Threads, Threads = {t}, Settles, CheckEncrypted(t)
    PROVE  VInv'
<1> USE DEF CheckEncrypted
<1>1. IInv'
  BY CheckEncryptedKeeps DEF VInv
<1>2. PICK f \in Files : /\ req[t] \in Requests /\ req[t].name = Plain(f, 0)
                         /\ HandlerAt(t, f) /\ OldLock(f) \in Locks
  BY Handling
<1>3. /\ Unchanged(f) /\ TmpPart(t, f) /\ Exists(Plain(f, 0)) /\ success[t]
      /\ req[t].op \in SealerOps /\ pc \in [Threads -> PC]
      /\ reply \in [Threads -> {"none", "ok", "failed", "enoent", "ebadf"}]
  BY <1>2 DEF HandlerAt, VInv, Begun, IInv, TypeOK, ControlOK, SealPC, UnsealPC
<1>4. CASE IsEncrypted(req[t].name) /\ Finish(t, FALSE)
  <2>1. pc'[t] = "return" /\ UNCHANGED <<store, default, opened, req, cred>>
    BY <1>3, <1>4 DEF Finish, Answer, SealerOps, jobVars
  <2>2. OldLock(f) # NoLock
    BY <1>2, <1>3, <1>4, LockedFile DEF Unchanged, IsEncrypted, Exists
  <2>3. LoopChange(f)
    BY <2>1 DEF LoopChange, SameFile, SameName, SameAt, IsLent
  <2>4. TmpOpen'
    BY <2>1, <2>3, DirectoryStep
  <2>5. UNCHANGED settled
    BY <2>1, NotSettled
  <2>6. req[t].op # "unlock"
    BY <1>3 DEF SealerOps
  <2>7. \/ Unchanged(f) /\ SameTmp(f)
        \/ /\ req[t].op = "release" /\ Taken(f)
           /\ OldLock(f) # NoLock /\ Unchanged(f)
    BY <1>3, <2>2 DEF TmpPart
  <2> QED  BY <1>1, <1>2, <2>1, <2>4, <2>5, <2>6, <2>7, AnswerStep
<1>5. CASE ~IsEncrypted(req[t].name) /\ Then(t, "readRelated") /\ UNCHANGED store
  <2>1. pc'[t] = "readRelated" /\ UNCHANGED <<store, default, opened, req, cred, success>>
    BY <1>3, <1>5 DEF Then, jobVars
  <2>2. Sealing(t) /\ req[t].op # "open"
    BY <1>3 DEF Sealing, SealerOps
  <2> QED  BY <1>1, <1>2, <1>3, <2>1, <2>2, HandlerGoesOn
<1> QED  BY <1>4, <1>5

\* The default key is there or the hook fails.
LEMMA LoadDefaultHolds ==
    ASSUME VInv, NEW t \in Threads, Threads = {t}, Settles, LoadDefault(t)
    PROVE  VInv'
<1> USE DEF LoadDefault
<1>1. IInv'
  BY LoadDefaultKeeps DEF VInv
<1>2. PICK f \in Files : /\ req[t] \in Requests /\ req[t].name = Plain(f, 0)
                         /\ HandlerAt(t, f)
  BY Handling
<1>3. /\ Unchanged(f) /\ SameTmp(f) /\ Exists(Plain(f, 0)) /\ success[t]
      /\ req[t].op = "defaultLock" /\ pc \in [Threads -> PC]
  BY <1>2 DEF HandlerAt, VInv, Begun, IInv, TypeOK, ControlOK, UnsealPC
<1>4. CASE UseDefault(t, "isEncrypted")
  <2>1. pc'[t] = "isEncrypted" /\ UNCHANGED <<store, default, opened, req, success>>
    BY <1>3, <1>4 DEF UseDefault
  <2>2. TmpPart(t, f)
    BY <1>3 DEF TmpPart
  <2> QED  BY <1>1, <1>2, <1>3, <2>1, <2>2, HandlerGoesOn
<1>5. CASE Answer(t, "failed") /\ UNCHANGED <<store, default, opened, jobVars>>
  <2>1. pc'[t] = "return" /\ UNCHANGED <<store, default, opened, req, cred>>
    BY <1>3, <1>5 DEF Answer, jobVars
  <2>2. LoopChange(f)
    BY <2>1 DEF LoopChange, SameFile, SameName, SameAt, IsLent
  <2>3. TmpOpen' /\ UNCHANGED settled
    BY <2>1, <2>2, DirectoryStep, NotSettled
  <2> QED  BY <1>1, <1>2, <1>3, <2>1, <2>3, AnswerStep
<1> QED  BY <1>4, <1>5

\* open goes on as an unlock when the file has the marker of a key.
LEMMA CheckLockedHolds ==
    ASSUME VInv, NEW t \in Threads, Threads = {t}, Settles, CheckLocked(t)
    PROVE  VInv'
<1> USE DEF CheckLocked
<1>1. IInv'
  BY CheckLockedKeeps DEF VInv
<1>2. PICK f \in Files : /\ req[t] \in Requests /\ req[t].name = Plain(f, 0)
                         /\ HandlerAt(t, f) /\ OldLock(f) \in Locks
  BY Handling
<1>3. /\ Unchanged(f) /\ SameTmp(f) /\ success[t]
      /\ req[t].op = "open" /\ pc \in [Threads -> PC]
  BY <1>2 DEF HandlerAt, VInv, Begun, IInv, TypeOK, ControlOK, UnsealPC
<1>4. CASE Exists(Marker(req[t].name, "key")) /\ UseDefault(t, "readRelated")
  <2>1. pc'[t] = "readRelated" /\ UNCHANGED <<store, default, opened, req, success>>
        /\ default \in KeyFiles
    BY <1>3, <1>4 DEF UseDefault
  <2>2. TmpPart(t, f)
    BY <1>3 DEF TmpPart
  <2>3. IsEncrypted(Plain(f, 0))
    BY <1>2, <1>4 DEF IsEncrypted, Kinds
  <2>4. Exists(Plain(f, 0))
    BY <1>2, <1>3, <2>3, LockedFile DEF Unchanged, IsEncrypted, Exists
  <2> QED  BY <1>1, <1>2, <1>3, <2>1, <2>2, <2>3, <2>4, HandlerGoesOn
<1>5. CASE Then(t, "openFile") /\ UNCHANGED store
  <2>1. pc'[t] = "openFile" /\ UNCHANGED <<store, default, opened, req, success>>
    BY <1>3, <1>5 DEF Then, jobVars
  <2> QED  BY <1>1, <1>2, <1>3, <2>1, HandlerGoesOn
<1> QED  BY <1>4, <1>5

\* release locks the file again, with what is the default key now.
LEMMA ReloadDefaultHolds ==
    ASSUME VInv, NEW t \in Threads, Threads = {t}, Settles, ReloadDefault(t)
    PROVE  VInv'
<1> USE DEF ReloadDefault
<1>1. IInv'
  BY ReloadDefaultKeeps DEF VInv
<1>2. PICK f \in Files : /\ req[t] \in Requests /\ req[t].name = Plain(f, 0)
                         /\ HandlerAt(t, f)
  BY Handling
<1>3. /\ Unchanged(f) /\ Taken(f) /\ Exists(Plain(f, 0)) /\ success[t]
      /\ req[t].op = "release" /\ default \in KeyFiles /\ pc \in [Threads -> PC]
  BY <1>2 DEF HandlerAt, VInv, Begun, IInv, TypeOK, ControlOK, UnsealPC
<1>4. pc'[t] = "isEncrypted" /\ UNCHANGED <<store, default, opened, req, success>>
  BY <1>3 DEF UseDefault
<1>5. TmpPart(t, f)
  BY <1>3 DEF TmpPart
<1> QED  BY <1>1, <1>2, <1>3, <1>4, <1>5, HandlerGoesOn

\* The tmp marker says nothing of contents and locks.
LEMMA TmpStep ==
    ASSUME NEW f \in Files, NEW l \in Locks, NEW c, FileIn(store, f, l, c),
           LET m == Tmp(Plain(f, 0)) IN (\E e : Becomes(m, e)) \/ Loses({m})
    PROVE  /\ FileIn(store', f, l, c)
           /\ \A g \in Files : g # f => SameFile(store, store', g)
           /\ \A g \in Files : Plain(g, 0) \in DOMAIN store => Plain(g, 0) \in DOMAIN store'
<1> DEFINE m == Tmp(Plain(f, 0))
<1>1. m[1] = f /\ m[2] = 0 /\ m[3] # <<>> /\ m[3][1] = "tmp"
  BY NamesOfFile, BoundsAssumption DEF Tmp
<1>2. \A n \in 0..MaxVersion : SameName(store, store', Plain(f, n))
  BY TmpApart
<1>3. FileIn(store', f, l, c)
  <2>1. ASSUME NEW n \in 0..MaxVersion, l # NoLock, HiddenIn(store, Plain(f, n), l, c[n])
        PROVE  HiddenIn(store', Plain(f, n), l, c[n])
    BY <1>2, <2>1, SameNameIn, LockParts
  <2> QED  BY <1>2, <2>1, SameNameIn DEF FileIn
<1>4. \A g \in Files : g # f => SameFile(store, store', g)
  BY <1>1, OtherFileSame
<1>5. \A g \in Files : Plain(g, 0) # m
  BY <1>1, PlainName, BoundsAssumption
<1> HIDE DEF m
<1> QED  BY <1>3, <1>4, <1>5 DEF Becomes, Loses, m

\* open marks the file as unsealed for its readers.
LEMMA MakeTmpHolds ==
    ASSUME VInv, NEW t \in Threads, Threads = {t}, Settles, MakeTmp(t)
    PROVE  VInv'
<1> USE DEF MakeTmp, Then, jobVars
<1>1. IInv'
  BY MakeTmpKeeps DEF VInv
<1>2. PICK f \in Files : /\ req[t] \in Requests /\ req[t].name = Plain(f, 0)
                         /\ HandlerAt(t, f) /\ OldLock(f) \in Locks
                         /\ FileIn(settled, f, OldLock(f), OldContent(f))
  BY Handling
<1> DEFINE m == Tmp(Plain(f, 0))
<1>3. /\ WasUnlocked(t, f) /\ default \in KeyFiles
      /\ req[t].op = "open" /\ pc \in [Threads -> PC] /\ pc'[t] = "openFile"
  BY <1>2 DEF HandlerAt, VInv, Begun, IInv, TypeOK, ControlOK
<1>4. Becomes(m, Read(m))
  BY <1>2, StoreChanges
<1>5. UNCHANGED settled
  BY <1>3, NotSettled
<1>6. /\ FileIn(store', f, NoLock, OldContent(f))
      /\ \A g \in Files : g # f => SameFile(store, store', g)
      /\ \A g \in Files : Plain(g, 0) \in DOMAIN store => Plain(g, 0) \in DOMAIN store'
  <2>1. FileIn(store, f, NoLock, OldContent(f)) /\ NoLock \in Locks
    BY <1>3 DEF WasUnlocked, Locks
  <2> QED  BY <1>4, <2>1, TmpStep
<1>7. NowLent(f)'
  BY <1>4 DEF NowLent, IsLent, Becomes
<1>8. HandlerAt(t, f)'
  BY <1>3, <1>5, <1>6, <1>7
     DEF HandlerAt, WasUnlocked, OldLock, OldContent, LoopPC, SealLoopPC, UnsealPC
<1>9. Begun' /\ UnlockByItsKeySucceeds'
  BY <1>3 DEF Begun, UnsealPC, UnlockByItsKeySucceeds
<1>10. StoreShape'
  <2>1. m[2] = 0
    BY NamesOfFile, BoundsAssumption DEF Tmp
  <2> QED  BY <1>4, <2>1 DEF VInv, StoreShape, Becomes
<1>11. TmpOpen'
  <2>1. Plain(f, 0) \in DOMAIN store'
    <3>1. OldLock(f) # NoLock
      BY <1>3, NoLockAssumption DEF WasUnlocked
    <3>2. 0 \in DOMAIN OldContent(f)
      BY <1>2, <3>1 DEF FileIn
    <3> QED  BY <1>6, <3>2, LockedFile DEF Locks
  <2>2. ASSUME NEW g \in Files, g # f, NowLent(g)'
        PROVE  Plain(g, 0) \in DOMAIN store' /\ opened[Plain(g, 0)] > 0
    <3>1. NowLent(g)
      BY <1>6, <2>2 DEF SameFile, NowLent
    <3> QED  BY <1>6, <2>2, <3>1 DEF VInv, TmpOpen, Exists
  <2> QED  BY <1>2, <1>3, <2>1, <2>2 DEF TmpOpen, Exists
<1> QED  BY <1>1, <1>2, <1>3, <1>5, <1>6, <1>8, <1>9, <1>10, <1>11, HandlerStep

\* A file that is lent is there: it is opened.
LEMMA OpenFileHolds ==
    ASSUME VInv, NEW t \in Threads, Threads = {t}, Settles, OpenFile(t)
    PROVE  VInv'
<1> USE DEF OpenFile
<1>1. IInv'
  BY OpenFileKeeps DEF VInv
<1>2. PICK f \in Files : /\ req[t] \in Requests /\ req[t].name = Plain(f, 0)
                         /\ Plain(f, 0) \in Targets /\ HandlerAt(t, f)
  BY Handling
<1> DEFINE x == Plain(f, 0)
<1>3. /\ (Unchanged(f) /\ SameTmp(f)) \/ (WasUnlocked(t, f) /\ NowLent(f))
      /\ req[t].op = "open" /\ pc \in [Threads -> PC] /\ opened \in [Targets -> 0..MaxOpens]
      /\ pc'[t] = "return" /\ UNCHANGED <<store, default, req, cred>>
  BY <1>2 DEF HandlerAt, VInv, IInv, TypeOK, ControlOK, Answer, jobVars
<1>4. UNCHANGED settled
  BY <1>3, NotSettled
<1>5. TmpOpen'
  <2>1. CASE Exists(x) /\ opened' = [opened EXCEPT ![x] = @ + 1]
    <3>1. /\ opened'[x] > 0
          /\ \A g \in Files : opened[Plain(g, 0)] > 0 => opened'[Plain(g, 0)] > 0
      BY <1>2, <1>3, <2>1 DEF Targets
    <3> QED  BY <1>2, <1>3, <3>1 DEF VInv, TmpOpen, NowLent, Exists
  <2>2. CASE ~Exists(x) /\ UNCHANGED opened
    <3>1. ~NowLent(f)
      BY <2>2 DEF VInv, TmpOpen
    <3> QED  BY <1>2, <1>3, <2>2, <3>1 DEF VInv, TmpOpen, NowLent, Exists
  <2> QED  BY <1>2, <2>1, <2>2
<1> QED  BY <1>1, <1>2, <1>3, <1>4, <1>5, AnswerStep

\* release ends here unless the file is lent.
LEMMA CheckTmpHolds ==
    ASSUME VInv, NEW t \in Threads, Threads = {t}, Settles, CheckTmp(t)
    PROVE  VInv'
<1> USE DEF CheckTmp, jobVars
<1>1. IInv'
  BY CheckTmpKeeps DEF VInv
<1>2. PICK f \in Files : /\ req[t] \in Requests /\ req[t].name = Plain(f, 0)
                         /\ Plain(f, 0) \in Targets /\ HandlerAt(t, f)
  BY Handling
<1> DEFINE x == Plain(f, 0)
<1>3. /\ Unchanged(f) /\ SameTmp(f) /\ success[t]
      /\ req[t].op = "release" /\ pc \in [Threads -> PC]
  BY <1>2 DEF HandlerAt, VInv, Begun, IInv, TypeOK, ControlOK, UnsealPC
<1>4. \A g \in Files : g # f => opened'[Plain(g, 0)] = opened[Plain(g, 0)]
  BY <1>2, PlainName, BoundsAssumption DEF Close, VInv, IInv, TypeOK, Targets
<1>5. \A g \in Files : NowLent(g) => /\ Plain(g, 0) \in DOMAIN store
                                     /\ default \in KeyFiles /\ default # NoDefault
                                     /\ opened[Plain(g, 0)] > 0
  BY NoDefaultAssumption DEF VInv, TmpOpen, Exists
<1>6. CASE Exists(Tmp(req[t].name)) /\ default # NoDefault
  <2>1. pc'[t] = "removeTmp" /\ NowLent(f)
    BY <1>2, <1>3, <1>6 DEF NowLent, IsLent, Exists
  <2>2. UNCHANGED settled
    BY <2>1, NotSettled
  <2>3. HandlerAt(t, f)'
    BY <1>3, <2>1, <2>2 DEF HandlerAt, Unchanged, SameTmp, OldLock, OldContent, OldLent,
                            NowLent, LoopPC, SealLoopPC, UnsealPC
  <2>4. Begun' /\ UnlockByItsKeySucceeds' /\ StoreShape'
    BY <1>2, <1>3, <1>5, <2>1
       DEF Begun, UnlockByItsKeySucceeds, UnsealPC, VInv, StoreShape, Exists
  <2>5. TmpOpen'
    BY <1>2, <1>4, <1>5, <2>1 DEF TmpOpen, NowLent, Exists
  <2>6. \A g \in Files : g # f => SameFile(store, store', g)
    BY DEF SameFile, SameName, SameAt
  <2> QED  BY <1>1, <1>2, <2>1, <2>2, <2>3, <2>4, <2>5, <2>6, HandlerStep
<1>7. CASE ~(Exists(Tmp(req[t].name)) /\ default # NoDefault)
  <2>1. pc'[t] = "return" /\ ~NowLent(f)
    BY <1>2, <1>3, <1>5, <1>7 DEF NowLent, IsLent, Exists, Answer
  <2>2. UNCHANGED settled
    BY <2>1, NotSettled
  <2>3. TmpOpen'
    BY <1>4, <1>5, <2>1 DEF TmpOpen, NowLent, Exists
  <2> QED  BY <1>1, <1>2, <1>3, <2>1, <2>2, <2>3, AnswerStep
<1> QED  BY <1>6, <1>7

\* release takes the tmp marker away.
LEMMA RemoveTmpHolds ==
    ASSUME VInv, NEW t \in Threads, Threads = {t}, Settles, RemoveTmp(t)
    PROVE  VInv'
<1> USE DEF RemoveTmp, Then, jobVars
<1>1. IInv'
  BY RemoveTmpKeeps DEF VInv
<1>2. PICK f \in Files : /\ req[t] \in Requests /\ req[t].name = Plain(f, 0)
                         /\ HandlerAt(t, f) /\ OldLock(f) \in Locks
  BY Handling
<1> DEFINE m == Tmp(Plain(f, 0))
<1>3. /\ Unchanged(f) /\ OldLent(f) /\ default \in KeyFiles /\ Exists(Plain(f, 0))
      /\ success[t]
      /\ req[t].op = "release" /\ pc \in [Threads -> PC] /\ pc'[t] = "reloadDefault"
  BY <1>2 DEF HandlerAt, VInv, Begun, IInv, TypeOK, ControlOK, SameTmp, UnsealPC
<1>4. Loses({m})
  BY <1>2, StoreChanges
<1>5. UNCHANGED settled
  BY <1>3, NotSettled
<1>6. /\ FileIn(store', f, OldLock(f), OldContent(f))
      /\ \A g \in Files : g # f => SameFile(store, store', g)
      /\ \A g \in Files : Plain(g, 0) \in DOMAIN store => Plain(g, 0) \in DOMAIN store'
  <2>1. FileIn(store, f, OldLock(f), OldContent(f))
    BY <1>3 DEF Unchanged
  <2> QED  BY <1>2, <1>4, <2>1, TmpStep
<1>7. ~NowLent(f)'
  BY <1>4 DEF NowLent, IsLent, Loses
<1>8. HandlerAt(t, f)'
  BY <1>3, <1>5, <1>6, <1>7
     DEF HandlerAt, Unchanged, Taken, OldLock, OldContent, OldLent, LoopPC, SealLoopPC, UnsealPC
<1>9. Begun' /\ UnlockByItsKeySucceeds'
  BY <1>2, <1>3, <1>6 DEF Begun, UnsealPC, UnlockByItsKeySucceeds, Exists
<1>10. StoreShape'
  BY <1>4 DEF VInv, StoreShape, Loses
<1>11. TmpOpen'
  <2>1. ASSUME NEW g \in Files, NowLent(g)'
        PROVE  Plain(g, 0) \in DOMAIN store' /\ opened[Plain(g, 0)] > 0 /\ default \in KeyFiles
    <3>1. g # f
      BY <1>7, <2>1
    <3>2. NowLent(g)
      BY <1>6, <2>1, <3>1 DEF SameFile, NowLent
    <3>3. Plain(g, 0)[1] = g /\ Plain(f, 0)[1] = f
      BY PlainName, BoundsAssumption
    <3> QED  BY <1>2, <1>6, <3>1, <3>2, <3>3 DEF VInv, TmpOpen, Exists
  <2> QED  BY <2>1 DEF TmpOpen, Exists
<1> QED  BY <1>1, <1>2, <1>3, <1>5, <1>6, <1>8, <1>9, <1>10, <1>11, HandlerStep

-----------------------------------------------------------------------------
(* The worker becomes idle, and takes up a request *)

\* A directory has f in one piece, locked or not.
Complete(dir, f) ==
    LockOf(dir, f) \in Locks /\ FileIn(dir, f, LockOf(dir, f), ContentOf(dir, f))

\* The same file is as complete, and says the same.
LEMMA SameFileSays ==
    ASSUME NEW dir1, NEW dir2, NEW f \in Files, SameFile(dir1, dir2, f), Complete(dir1, f)
    PROVE  /\ Complete(dir2, f)
           /\ LockOf(dir2, f) = LockOf(dir1, f)
           /\ ContentOf(dir2, f) = ContentOf(dir1, f)
<1> DEFINE l == LockOf(dir1, f)
           c == ContentOf(dir1, f)
<1>1. l \in Locks /\ FileIn(dir2, f, l, c)
  BY SameFileIn DEF Complete
<1>2. c = [n \in DOMAIN c |-> c[n]]
  BY DEF ContentOf
<1>3. LockOf(dir2, f) = l /\ ContentOf(dir2, f) = c
  <2> HIDE DEF l, c
  <2> QED  BY <1>1, <1>2, FileSays
<1> QED  BY <1>1, <1>3 DEF Complete

\* A complete file says what its readers see.
LEMMA CompleteShows ==
    ASSUME NEW dir, NEW f \in Files, Complete(dir, f)
    PROVE  ShownOf(dir, f) = [n \in DOMAIN ContentOf(dir, f) |->
                                IF LockOf(dir, f) = NoLock THEN ContentOf(dir, f)[n]
                                ELSE Placeholder]
<1> DEFINE l == LockOf(dir, f)
           c == ContentOf(dir, f)
<1>1. l \in Locks /\ FileIn(dir, f, l, c)
  BY DEF Complete
<1>2. c = [n \in DOMAIN c |-> c[n]]
  BY DEF ContentOf
<1>3. ShownOf(dir, f) = [n \in DOMAIN c |-> IF l = NoLock THEN c[n] ELSE Placeholder]
  <2> HIDE DEF l, c
  <2> QED  BY <1>1, <1>2, FileSays
<1> QED  BY <1>3

\* An idle worker leaves a directory of complete files.
LEMMA Settle ==
    ASSUME IInv', NEW t \in Threads, Threads = {t}, Settles, pc'[t] = "idle", success'[t],
           \A f \in Files : Complete(store', f), StoreShape', TmpOpen'
    PROVE  VInv' /\ settled' = store'
<1>1. settled' = store'
  BY DEF Settles, Quiet
<1>2. SettledOK'
  BY <1>1 DEF SettledOK, Complete, OldLock, OldContent
<1>3. OthersUntouched'
  BY <1>1 DEF OthersUntouched, SameFile, SameName, SameAt
<1>4. HandlersOK' /\ Begun' /\ UnlockByItsKeySucceeds'
  BY DEF HandlersOK, Begun, UnlockByItsKeySucceeds, UnsealPC
<1> QED  BY <1>1, <1>2, <1>3, <1>4 DEF VInv

\* What an idle worker has left, file by file.
LEMMA QuietFile ==
    ASSUME VInv, NEW t \in Threads, Threads = {t}, pc[t] = "idle", NEW f \in Files
    PROVE  /\ settled = store /\ Complete(settled, f)
           /\ FileIn(store, f, OldLock(f), OldContent(f)) /\ OldLock(f) \in Locks
           /\ Unlocked(Plain(f, 0)) <=> OldLock(f) = NoLock
           /\ DOMAIN OldContent(f) \subseteq 0..MaxVersion
           /\ OldContent(f) = [n \in DOMAIN OldContent(f) |-> OldContent(f)[n]]
           /\ \A n \in 0..MaxVersion :
                /\ Plain(f, n) \in DOMAIN store <=> n \in DOMAIN OldContent(f)
                /\ n \in DOMAIN OldContent(f)
                   => /\ OldContent(f)[n] \in Clear
                      /\ OldLock(f) = NoLock => store[Plain(f, n)] = Of(OldContent(f)[n])
<1>1. settled = store
  BY DEF VInv, SettledOK, Quiet
<1>2. FileIn(store, f, OldLock(f), OldContent(f)) /\ OldLock(f) \in Locks
  BY <1>1 DEF VInv, SettledOK
<1>3. Complete(settled, f)
  BY <1>1, <1>2 DEF Complete, OldLock, OldContent
<1>4. Unlocked(Plain(f, 0)) <=> OldLock(f) = NoLock
  BY <1>2, LockedFile DEF Unlocked, IsEncrypted, Exists
<1>5. OldContent(f) = [n \in DOMAIN OldContent(f) |-> OldContent(f)[n]]
  BY DEF OldContent, ContentOf
<1>6. \A n \in 0..MaxVersion :
         /\ Plain(f, n) \in DOMAIN store <=> n \in DOMAIN OldContent(f)
         /\ n \in DOMAIN OldContent(f)
            => /\ OldContent(f)[n] \in Clear
               /\ OldLock(f) = NoLock => store[Plain(f, n)] = Of(OldContent(f)[n])
  BY <1>2 DEF FileIn, AbsentIn, ClearIn, HiddenIn
<1> QED  BY <1>1, <1>2, <1>3, <1>4, <1>5, <1>6 DEF FileIn

\* What a handler that answers has made of its file, and of the others.
LEMMA Answered ==
    ASSUME VInv, NEW t \in Threads, Threads = {t}, Return(t)
    PROVE  \E f \in Files :
             /\ req[t].name = Plain(f, 0) /\ req[t].name[1] = f /\ req[t] \in Requests
             /\ \A g \in Files : Complete(store, g) /\ ContentOf(store, g) = OldContent(g)
             /\ \A g \in Files : g # f => /\ LockOf(store, g) = OldLock(g)
                                          /\ NowLent(g) <=> OldLent(g)
             /\ OldLock(f) # NoLock \/ LockOf(store, f) # NoLock => 0 \in DOMAIN OldContent(f)
             /\ \/ LockOf(store, f) = OldLock(f) /\ SameTmp(f)
                \/ /\ LockOf(store, f) = cred[t] /\ OldLock(f) = NoLock /\ SameTmp(f)
                   /\ cred[t] \in Creds
                \/ /\ LockOf(store, f) = NoLock /\ OldLock(f) = cred[t]
                   /\ SameTmp(f) \/ NowLent(f)
                   /\ cred[t] \in Creds
                \/ /\ Taken(f)
                   /\ \/ /\ LockOf(store, f) = cred[t] /\ OldLock(f) = NoLock
                         /\ cred[t] \in Creds
                      \/ OldLock(f) # NoLock /\ LockOf(store, f) = OldLock(f)
<1>1. pc[t] = "return" /\ pc[t] # "idle"
  BY DEF Return
<1>2. PICK f \in Files : /\ req[t] \in Requests /\ req[t].name = Plain(f, 0)
                         /\ req[t].name[1] = f /\ HandlerAt(t, f)
                         /\ OldLock(f) \in Locks
                         /\ FileIn(settled, f, OldLock(f), OldContent(f))
  BY <1>1, Handling
<1>3. \A g \in Files : Complete(settled, g)
  BY DEF VInv, SettledOK, Complete, OldLock, OldContent
<1>4. ASSUME NEW g \in Files, g # f
      PROVE  /\ Complete(store, g) /\ ContentOf(store, g) = OldContent(g)
             /\ LockOf(store, g) = OldLock(g)
             /\ NowLent(g) <=> OldLent(g)
  <2>1. Plain(g, 0)[1] = g /\ Plain(f, 0)[1] = f
    BY PlainName, BoundsAssumption
  <2>2. SameFile(settled, store, g)
    BY <1>2, <1>4, <2>1 DEF VInv, OthersUntouched
  <2> QED  BY <1>3, <2>2, SameFileSays DEF OldContent, OldLock, NowLent, OldLent, SameFile
<1>5. OldContent(f) = [n \in DOMAIN OldContent(f) |-> OldContent(f)[n]]
  BY DEF OldContent, ContentOf
<1>6. ASSUME NEW l \in Locks, FileIn(store, f, l, OldContent(f))
      PROVE  /\ LockOf(store, f) = l /\ ContentOf(store, f) = OldContent(f)
             /\ Complete(store, f)
             /\ OldLock(f) # NoLock \/ l # NoLock => 0 \in DOMAIN OldContent(f)
  <2>1. LockOf(store, f) = l /\ ContentOf(store, f) = OldContent(f)
    BY <1>5, <1>6, FileSays
  <2> QED  BY <1>2, <1>6, <2>1 DEF Complete, FileIn
<1>7. CASE Unchanged(f) /\ SameTmp(f)
  BY <1>2, <1>4, <1>6, <1>7 DEF Unchanged
<1>8. CASE WasLocked(t, f) /\ SameTmp(f)
  BY <1>2, <1>4, <1>6, <1>8 DEF WasLocked, Locks
<1>9. CASE WasUnlocked(t, f) /\ (SameTmp(f) \/ NowLent(f))
  BY <1>2, <1>4, <1>6, <1>9 DEF WasUnlocked, Locks
<1>10. CASE Taken(f) /\ WasLocked(t, f)
  BY <1>2, <1>4, <1>6, <1>10 DEF WasLocked, Locks
<1>11. CASE Taken(f) /\ OldLock(f) # NoLock /\ Unchanged(f)
  BY <1>2, <1>4, <1>6, <1>11 DEF Unchanged
<1> QED  BY <1>1, <1>2, <1>7, <1>8, <1>9, <1>10, <1>11 DEF HandlerAt

\* The answer goes out and what the handler has done counts.
LEMMA ReturnHolds ==
    ASSUME VInv, NEW t \in Threads, Threads = {t}, Settles, Return(t)
    PROVE  VInv' /\ settled' = store'
<1> USE DEF Return
<1>1. IInv'
  BY ReturnKeeps DEF VInv
<1>2. \A g \in Files : Complete(store', g)
  BY Answered
<1>3. pc'[t] = "idle" /\ success'[t]
  BY DEF VInv, IInv, TypeOK
<1>4. StoreShape' /\ TmpOpen'
  BY DEF VInv, StoreShape, TmpOpen, NowLent, Exists
<1> QED  BY <1>1, <1>2, <1>3, <1>4, Settle

\* A request is taken up.
LEMMA BeginHolds ==
    ASSUME VInv, IInv', NEW t \in Threads, Threads = {t}, Settles, NEW x \in Targets,
           NEW r, r.name = x, NEW c, NEW label, Begin(t, r, c, label),
           label \in {"isEncrypted", "loadDefault", "readRelated", "checkLocked", "checkTmp"},
           label \in {"isEncrypted", "loadDefault", "readRelated"}
             => Exists(x) /\ r.op # "release",
           label = "readRelated" => IsEncrypted(x) /\ r.op = "unlock"
    PROVE  VInv'
<1> USE DEF Begin
<1>1. PICK f \in Files : x = Plain(f, 0)
  BY DEF Targets
<1>2. /\ pc'[t] = label /\ pc'[t] # "idle" /\ req'[t] = r /\ pc[t] = "idle"
      /\ UNCHANGED <<store, default, opened, success>>
      /\ success[t]
  BY DEF VInv, IInv, TypeOK, Begun, UnsealPC
<1>3. UNCHANGED settled
  BY <1>2, NotSettled
<1>4. SettledOK'
  BY <1>2, <1>3 DEF VInv, SettledOK, Quiet, OldLock, OldContent
<1>5. \A g \in Files : Plain(f, 0) = Plain(g, 0) => g = f
  BY PlainName, BoundsAssumption
<1>6. settled = store
  BY <1>2 DEF VInv, SettledOK, Quiet
<1>7. OthersUntouched'
  BY <1>2, <1>3, <1>6 DEF OthersUntouched, SameFile, SameName, SameAt
<1>8. HandlerAt(t, f)'
  <2>1. Unchanged(f) /\ SameTmp(f)
    BY <1>2, <1>6, QuietFile DEF Unchanged, SameTmp, NowLent, OldLent
  <2>2. Unchanged(f)' /\ SameTmp(f)'
    BY <1>2, <1>3, <2>1 DEF Unchanged, SameTmp, NowLent, OldLent, OldLock, OldContent
  <2>3. TmpPart(t, f)' \/ label \notin {"isEncrypted", "readRelated"}
    BY <1>2, <2>2 DEF TmpPart
  <2> QED  BY <1>2, <2>2, <2>3 DEF HandlerAt, LoopPC, SealLoopPC, UnsealPC
<1>9. HandlersOK'
  BY <1>1, <1>2, <1>5, <1>8 DEF HandlersOK
<1>10. Begun' /\ UnlockByItsKeySucceeds'
  BY <1>2 DEF Begun, UnlockByItsKeySucceeds, UnsealPC, Exists, IsEncrypted
<1>11. StoreShape' /\ TmpOpen'
  BY <1>2 DEF VInv, StoreShape, TmpOpen, NowLent, Exists
<1> QED  BY <1>4, <1>7, <1>9, <1>10, <1>11 DEF VInv

\* Disciplined clients ask for what a file can give.
LEMMA ClientsHold ==
    ASSUME VInv, Disciplined, NEW t \in Threads, Threads = {t}, Settles, NEW x \in Targets,
           \/ BeginLock(t, x) \/ BeginUnlock(t, x)
           \/ BeginOpen(t, x) \/ BeginRelease(t, x)
    PROVE  VInv' /\ pc'[t] # "idle"
<1>1. IInv'
  BY ClientsKeep DEF VInv
<1>2. \A r, c, label : Begin(t, r, c, label) => pc'[t] = label
  BY DEF Begin, VInv, IInv, TypeOK
<1>3. CASE BeginLock(t, x)
  BY <1>1, <1>2, <1>3, BeginHolds DEF BeginLock
<1>4. CASE BeginUnlock(t, x)
  <2>1. IsEncrypted(x) /\ Exists(x)
    <3>1. PICK f \in Files : x = Plain(f, 0)
      BY DEF Targets
    <3>2. FileIn(store, f, OldLock(f), OldContent(f)) /\ OldLock(f) \in Locks
      BY <1>4, QuietFile DEF BeginUnlock, Begin
    <3>3. IsEncrypted(x)
      BY <1>4 DEF BeginUnlock
    <3> QED  BY <3>1, <3>2, <3>3, LockedFile DEF IsEncrypted, Exists
  <2> QED  BY <1>1, <1>2, <1>4, <2>1, BeginHolds DEF BeginUnlock
<1>5. CASE BeginOpen(t, x)
  BY <1>1, <1>2, <1>5, BeginHolds DEF BeginOpen
<1>6. CASE BeginRelease(t, x)
  BY <1>1, <1>2, <1>6, BeginHolds DEF BeginRelease
<1> QED  BY <1>3, <1>4, <1>5, <1>6

-----------------------------------------------------------------------------
(* The calls of clients while no handler is under way *)

\* A call has given the unlocked files F the contents C, and nothing else has
\* changed but the versions and markers it took away.
Makes(F, C) ==
    /\ \A f \in F : /\ OldLock(f) = NoLock
                    /\ FileIn(store', f, NoLock, C[f])
                    /\ C[f] = [n \in DOMAIN C[f] |-> C[f][n]]
    /\ \A g \in Files \ F : SameFile(store, store', g)
    /\ \A g \in Files : IsLent(store', g) <=> IsLent(store, g)
    /\ StoreShape'

\* So much for what each file is then.
LEMMA Made ==
    ASSUME VInv, NEW t \in Threads, Threads = {t}, pc[t] = "idle",
           NEW F \in SUBSET Files, NEW C, Makes(F, C), NEW g \in Files
    PROVE  /\ Complete(store', g)
           /\ LockOf(store', g) = OldLock(g)
           /\ ContentOf(store', g) = IF g \in F THEN C[g] ELSE OldContent(g)
<1>1. CASE g \in F
  <2> DEFINE c == C[g]
  <2>1. /\ NoLock \in Locks /\ FileIn(store', g, NoLock, c) /\ OldLock(g) = NoLock
        /\ c = [n \in DOMAIN c |-> c[n]]
    BY <1>1 DEF Makes, Locks
  <2>2. LockOf(store', g) = NoLock /\ ContentOf(store', g) = c
    <3> HIDE DEF c
    <3> QED  BY <2>1, FileSays
  <2> QED  BY <1>1, <2>1, <2>2 DEF Complete
<1>2. CASE g \notin F
  <2>1. Complete(store, g) /\ LockOf(store, g) = OldLock(g) /\ ContentOf(store, g) = OldContent(g)
    BY QuietFile DEF OldLock, OldContent
  <2> QED  BY <1>2, <2>1, SameFileSays DEF Makes
<1> QED  BY <1>1, <1>2

\* d is written to some versions of an unlocked file.
LEMMA PutMakes ==
    ASSUME VInv, NEW t \in Threads, Threads = {t}, pc[t] = "idle",
           NEW f \in Files, OldLock(f) = NoLock, NEW d \in Clear,
           NEW N \in SUBSET (0..MaxVersion), NEW X, X = {Plain(f, n) : n \in N},
           DOMAIN store' = DOMAIN store \union X,
           \A x \in DOMAIN store' : store'[x] = IF x \in X THEN Of(d) ELSE store[x]
    PROVE  Makes({f}, [g \in {f} |-> [m \in DOMAIN OldContent(f) \union N |->
                                         IF m \in N THEN d ELSE OldContent(f)[m]]])
<1> DEFINE c == [m \in DOMAIN OldContent(f) \union N |->
                   IF m \in N THEN d ELSE OldContent(f)[m]]
<1>1. FileIn(store, f, NoLock, OldContent(f)) /\ DOMAIN OldContent(f) \subseteq 0..MaxVersion
  BY QuietFile
<1>2. ASSUME NEW n \in 0..MaxVersion
      PROVE  /\ Plain(f, n) \in X <=> n \in N
             /\ \A kind \in Kinds : Marker(Plain(f, n), kind) \notin X
  BY NamesOfFile
<1>3. FileIn(store', f, NoLock, c)
  <2>1. ASSUME NEW n \in 0..MaxVersion, n \notin DOMAIN c
        PROVE  AbsentIn(store', Plain(f, n))
    BY <1>1, <1>2, <2>1 DEF FileIn, AbsentIn
  <2>2. ASSUME NEW n \in 0..MaxVersion, n \in DOMAIN c
        PROVE  c[n] \in Clear /\ ClearIn(store', Plain(f, n), c[n])
    BY <1>1, <1>2, <2>2 DEF FileIn, AbsentIn, ClearIn
  <2> QED  BY <1>1, <2>1, <2>2 DEF FileIn
<1>0. \A x \in X : x[1] = f /\ x[3] = <<>>
  BY PlainName
<1>4. ASSUME NEW g \in Files, g # f
      PROVE  SameFile(store, store', g)
  <2>1. \A n \in 0..MaxVersion : /\ Plain(g, n) \notin X
                                 /\ \A kind \in Kinds : Marker(Plain(g, n), kind) \notin X
    BY <1>0, <1>4, NamesOfFiles
  <2>2. Tmp(Plain(g, 0)) \notin X
    BY <1>0, <1>4, NamesOfFiles
  <2> QED  BY <2>1, <2>2 DEF SameFile, SameName, SameAt, IsLent
<1>5. \A g \in Files : IsLent(store', g) <=> IsLent(store, g)
  <2>1. \A g \in Files : Tmp(Plain(g, 0)) \notin X
    BY <1>0, NamesOfFiles
  <2> QED  BY <2>1 DEF IsLent
<1>6. StoreShape'
  BY <1>0 DEF VInv, StoreShape
<1> HIDE DEF c
<1> QED  BY <1>3, <1>4, <1>5, <1>6 DEF Makes, c

\* Some versions of an unlocked file are taken away, with what stands for them.
LEMMA LossMakes ==
    ASSUME VInv, NEW t \in Threads, Threads = {t}, pc[t] = "idle",
           NEW f \in Files, OldLock(f) = NoLock, NEW X, Loses(X),
           \A x \in X : x[1] = f /\ (x[3] = <<>> \/ x[2] # 0),
           NEW N, \A n \in 0..MaxVersion : Plain(f, n) \in X /\ Exists(Plain(f, n)) <=> n \in N
    PROVE  Makes({f}, [g \in {f} |-> [m \in DOMAIN OldContent(f) \ N |-> OldContent(f)[m]]])
<1> DEFINE c == [m \in DOMAIN OldContent(f) \ N |-> OldContent(f)[m]]
<1>1. FileIn(store, f, NoLock, OldContent(f)) /\ DOMAIN OldContent(f) \subseteq 0..MaxVersion
  BY QuietFile
<1>2. FileIn(store', f, NoLock, c)
  <2>1. ASSUME NEW n \in 0..MaxVersion, n \notin DOMAIN c
        PROVE  AbsentIn(store', Plain(f, n))
    BY <1>1, <2>1 DEF FileIn, AbsentIn, ClearIn, Loses, Exists
  <2>2. ASSUME NEW n \in 0..MaxVersion, n \in DOMAIN c
        PROVE  c[n] \in Clear /\ ClearIn(store', Plain(f, n), c[n])
    BY <1>1, <2>2 DEF FileIn, ClearIn, Loses, Exists
  <2> QED  BY <1>1, <2>1, <2>2 DEF FileIn
<1>3. ASSUME NEW g \in Files, g # f
      PROVE  SameFile(store, store', g)
  <2>1. \A n \in 0..MaxVersion : /\ Plain(g, n) \notin X
                                 /\ \A kind \in Kinds : Marker(Plain(g, n), kind) \notin X
    BY <1>3, NamesOfFiles
  <2>2. Tmp(Plain(g, 0)) \notin X
    BY <1>3, NamesOfFiles
  <2> QED  BY <2>1, <2>2 DEF SameFile, SameName, SameAt, IsLent, Loses
<1>4. \A g \in Files : IsLent(store', g) <=> IsLent(store, g)
  <2>1. \A g \in Files : Tmp(Plain(g, 0)) \notin X
    BY NamesOfFiles
  <2> QED  BY <2>1 DEF IsLent, Loses
<1>5. StoreShape'
  BY DEF VInv, StoreShape, Loses
<1> HIDE DEF c
<1> QED  BY <1>2, <1>3, <1>4, <1>5 DEF Makes, c

\* An unlocked file takes the name of another.
LEMMA RenameMakes ==
    ASSUME VInv, NEW t \in Threads, Threads = {t}, pc[t] = "idle",
           NEW f \in Files, NEW g \in Files, f # g,
           OldLock(f) = NoLock, OldLock(g) = NoLock,
           Exists(Plain(f, 0)),
           store' = [z \in (DOMAIN store \ {Plain(f, 0)}) \union {Plain(g, 0)} |->
                       IF z = Plain(g, 0) THEN store[Plain(f, 0)] ELSE store[z]]
    PROVE  Makes({f, g},
                 [h \in {f, g} |->
                    IF h = f THEN [m \in DOMAIN OldContent(f) \ {0} |-> OldContent(f)[m]]
                    ELSE [m \in DOMAIN OldContent(g) \union {0} |->
                            IF m = 0 THEN OldContent(f)[0] ELSE OldContent(g)[m]]])
<1> DEFINE x == Plain(f, 0)
           y == Plain(g, 0)
           c == [m \in DOMAIN OldContent(f) \ {0} |-> OldContent(f)[m]]
           d == [m \in DOMAIN OldContent(g) \union {0} |->
                   IF m = 0 THEN OldContent(f)[0] ELSE OldContent(g)[m]]
<1>0. 0 \in 0..MaxVersion
  BY BoundsAssumption
<1>1. /\ FileIn(store, f, NoLock, OldContent(f)) /\ DOMAIN OldContent(f) \subseteq 0..MaxVersion
      /\ FileIn(store, g, NoLock, OldContent(g)) /\ DOMAIN OldContent(g) \subseteq 0..MaxVersion
      /\ 0 \in DOMAIN OldContent(f)
      /\ store[x] = Of(OldContent(f)[0]) /\ OldContent(f)[0] \in Clear
  BY <1>0, QuietFile DEF Exists
<1>2. \A h \in Files :
        /\ \A n \in 0..MaxVersion :
             /\ Plain(h, n) = x <=> h = f /\ n = 0
             /\ Plain(h, n) = y <=> h = g /\ n = 0
             /\ \A kind \in Kinds : Marker(Plain(h, n), kind) \notin {x, y}
        /\ Tmp(Plain(h, 0)) \notin {x, y}
  <2>1. /\ x[1] = f /\ x[2] = 0 /\ x[3] = <<>>
        /\ y[1] = g /\ y[2] = 0 /\ y[3] = <<>>
    BY <1>0, NamesOfFiles
  <2> HIDE DEF x, y
  <2>2. \A h \in Files, n \in 0..MaxVersion : h = f /\ n = 0 => Plain(h, n) = x
    BY DEF x
  <2>3. \A h \in Files, n \in 0..MaxVersion : h = g /\ n = 0 => Plain(h, n) = y
    BY DEF y
  <2> QED  BY <2>1, <2>2, <2>3, NamesOfFiles
<1>3. /\ DOMAIN store' = (DOMAIN store \ {x}) \union {y}
      /\ store'[y] = store[x]
      /\ \A z \in DOMAIN store \ {x, y} : store'[z] = store[z]
  OBVIOUS
<1> HIDE DEF x, y
<1>4. FileIn(store', f, NoLock, c)
  <2>1. ASSUME NEW n \in 0..MaxVersion, n \notin DOMAIN c
        PROVE  AbsentIn(store', Plain(f, n))
    BY <1>1, <1>2, <1>3, <2>1 DEF FileIn, AbsentIn, ClearIn
  <2>2. ASSUME NEW n \in 0..MaxVersion, n \in DOMAIN c
        PROVE  c[n] \in Clear /\ ClearIn(store', Plain(f, n), c[n])
    BY <1>1, <1>2, <1>3, <2>2 DEF FileIn, ClearIn
  <2> QED  BY <1>1, <2>1, <2>2 DEF FileIn
<1>5. FileIn(store', g, NoLock, d)
  <2>1. ASSUME NEW n \in 0..MaxVersion, n \notin DOMAIN d
        PROVE  AbsentIn(store', Plain(g, n))
    BY <1>1, <1>2, <1>3, <2>1 DEF FileIn, AbsentIn
  <2>2. ASSUME NEW n \in 0..MaxVersion, n \in DOMAIN d
        PROVE  d[n] \in Clear /\ ClearIn(store', Plain(g, n), d[n])
    <3>1. \A kind \in Kinds : Marker(Plain(g, n), kind) \notin DOMAIN store
      BY <1>1 DEF FileIn, AbsentIn, ClearIn
    <3>2. CASE n = 0
      BY <1>0, <1>1, <1>2, <1>3, <3>1, <3>2 DEF ClearIn
    <3>3. CASE n # 0
      <4>1. n \in DOMAIN OldContent(g) /\ d[n] = OldContent(g)[n]
        BY <2>2, <3>3
      <4>2. d[n] \in Clear /\ ClearIn(store, Plain(g, n), d[n])
        BY <1>1, <4>1 DEF FileIn
      <4> HIDE DEF d
      <4> QED  BY <1>2, <1>3, <3>1, <3>3, <4>2 DEF ClearIn
    <3> QED  BY <3>2, <3>3
  <2>3. DOMAIN d \subseteq 0..MaxVersion
    BY <1>0, <1>1
  <2> QED  BY <2>1, <2>2, <2>3 DEF FileIn
<1>6. ASSUME NEW h \in Files, h # f, h # g
      PROVE  SameFile(store, store', h)
  BY <1>2, <1>3, <1>6 DEF SameFile, SameName, SameAt, IsLent
<1>7. \A h \in Files : IsLent(store', h) <=> IsLent(store, h)
  BY <1>2, <1>3 DEF IsLent
<1>8. StoreShape'
  <2>1. y[3] = <<>>
    BY <1>0, PlainName DEF y
  <2> QED  BY <1>3, <2>1 DEF VInv, StoreShape
<1> HIDE DEF c, d
<1> QED  BY <1>4, <1>5, <1>6, <1>7, <1>8 DEF Makes, c, d

-----------------------------------------------------------------------------
(* The steps of the vault *)

VaultContent == [f \in Files |-> ContentOf(settled, f)]
VaultLock == [f \in Files |-> LockOf(settled, f)]
VaultLent == {f \in Files : IsLent(settled, f)}
VaultShown == [f \in Files |-> ShownOf(settled, f)]

\* What readers see follows from the contents and the locks.
LEMMA ViewOf ==
    ASSUME NEW dir, \A f \in Files : Complete(dir, f)
    PROVE  [f \in Files |-> ShownOf(dir, f)]
             = Secret!View([f \in Files |-> ContentOf(dir, f)], [f \in Files |-> LockOf(dir, f)])
<1>1. ASSUME NEW f \in Files
      PROVE  ShownOf(dir, f) = [n \in DOMAIN ContentOf(dir, f) |->
                                  IF LockOf(dir, f) = NoLock THEN ContentOf(dir, f)[n]
                                  ELSE Placeholder]
  BY CompleteShows
<1> QED  BY <1>1 DEF Secret!View

\* A call of a client changes the contents it says, and no lock.
LEMMA CallMaps ==
    ASSUME VInv, IInv', NEW t \in Threads, Threads = {t}, pc[t] = "idle", Settles,
           UNCHANGED <<default, pc, jobVars, reply>>,
           NEW F \in SUBSET Files, NEW C, Makes(F, C),
           \A g \in Files : NowLent(g) => /\ Plain(g, 0) \in DOMAIN store'
                                          /\ opened'[Plain(g, 0)] = opened[Plain(g, 0)]
    PROVE  /\ VInv'
           /\ VaultContent' = [g \in Files |-> IF g \in F THEN C[g] ELSE VaultContent[g]]
           /\ UNCHANGED <<VaultLock, VaultLent>>
<1>1. \A g \in Files : /\ Complete(store', g) /\ LockOf(store', g) = OldLock(g)
                       /\ ContentOf(store', g) = IF g \in F THEN C[g] ELSE OldContent(g)
  BY Made
<1>2. TmpOpen'
  <2>1. ASSUME NEW g \in Files, NowLent(g)'
        PROVE  /\ Plain(g, 0) \in DOMAIN store' /\ default \in KeyFiles
               /\ opened'[Plain(g, 0)] > 0
    <3>1. NowLent(g)
      BY <2>1 DEF Makes, NowLent
    <3> QED  BY <3>1 DEF VInv, TmpOpen
  <2> QED  BY <2>1 DEF TmpOpen, Exists
<1>3. StoreShape' /\ success'[t] /\ pc'[t] = "idle"
  BY DEF Makes, jobVars, VInv, Begun, UnsealPC
<1>4. VInv' /\ settled' = store' /\ settled = store
  BY <1>1, <1>2, <1>3, Settle, QuietFile DEF VInv, SettledOK, Quiet
<1>5. \A g \in Files : IsLent(settled', g) <=> IsLent(settled, g)
  BY <1>4 DEF Makes
<1> QED  BY <1>1, <1>4, <1>5 DEF VaultContent, VaultLock, VaultLent, OldLock, OldContent

\* The actions of the vault, for a file and the contents a call makes of it.
LEMMA VaultActions ==
    ASSUME NEW f \in Files, UNCHANGED <<VaultLock, VaultLent>>, VaultLock[f] = NoLock
    PROVE  /\ \A d \in Data, n \in 1..MaxVersion :
                /\ 0 \in DOMAIN VaultContent[f]
                /\ \A m \in DOMAIN VaultContent[f] : m < n
                /\ n = 1 \/ n - 1 \in DOMAIN VaultContent[f]
                /\ VaultContent' = [VaultContent EXCEPT ![f] =
                                      [m \in DOMAIN VaultContent[f] \union {0, n} |->
                                         IF m \in {0, n} THEN d ELSE VaultContent[f][m]]]
                => Secret!FileNext(f)
           /\ \A d :
                /\ VaultContent' = [VaultContent EXCEPT ![f] =
                                      [m \in DOMAIN VaultContent[f] \union {0} |->
                                         IF m \in {0} THEN d ELSE VaultContent[f][m]]]
                /\ \/ /\ d \in Data \union {Nothing}
                      /\ 0 \in DOMAIN VaultContent[f] \/ f \notin VaultLent
                   \/ \E n \in 1..MaxVersion : n \in DOMAIN VaultContent[f]
                                               /\ d = VaultContent[f][n]
                => Secret!FileNext(f)
           /\ \A N :
                /\ VaultContent' = [VaultContent EXCEPT ![f] =
                                      [m \in DOMAIN VaultContent[f] \ N |-> VaultContent[f][m]]]
                /\ \/ \E n \in 1..MaxVersion : n \in DOMAIN VaultContent[f] /\ N = {n}
                   \/ /\ 0 \in DOMAIN VaultContent[f] /\ f \notin VaultLent
                      /\ N = {0} \/ DOMAIN VaultContent[f] \subseteq N
                => Secret!FileNext(f)
<1> USE DEF VaultContent, VaultLock, VaultLent, Secret!Become, Secret!Has, Secret!Free,
            Secret!FileNext
<1>1. ASSUME NEW d \in Data, NEW n \in 1..MaxVersion,
             0 \in DOMAIN VaultContent[f],
             \A m \in DOMAIN VaultContent[f] : m < n,
             n = 1 \/ n - 1 \in DOMAIN VaultContent[f],
             VaultContent' = [VaultContent EXCEPT ![f] =
                                [m \in DOMAIN VaultContent[f] \union {0, n} |->
                                   IF m \in {0, n} THEN d ELSE VaultContent[f][m]]]
      PROVE  Secret!FileNext(f)
  <2>1. DOMAIN VaultContent[f] \union {0, n} = DOMAIN VaultContent[f] \union {n}
    BY <1>1
  <2>2. Secret!WriteFile(f, d)
    BY <1>1, <2>1 DEF Secret!WriteFile
  <2> QED  BY <2>2
<1>2. ASSUME NEW d,
             VaultContent' = [VaultContent EXCEPT ![f] =
                                [m \in DOMAIN VaultContent[f] \union {0} |->
                                   IF m \in {0} THEN d ELSE VaultContent[f][m]]],
             \/ /\ d \in Data \union {Nothing}
                /\ 0 \in DOMAIN VaultContent[f] \/ f \notin VaultLent
             \/ \E n \in 1..MaxVersion : n \in DOMAIN VaultContent[f] /\ d = VaultContent[f][n]
      PROVE  Secret!FileNext(f)
  <2>1. [m \in DOMAIN VaultContent[f] \union {0} |->
           IF m \in {0} THEN d ELSE VaultContent[f][m]]
        = [m \in DOMAIN VaultContent[f] \union {0} |->
             IF m = 0 THEN d ELSE VaultContent[f][m]]
    OBVIOUS
  <2>2. CASE /\ d \in Data \union {Nothing}
             /\ 0 \in DOMAIN VaultContent[f] \/ f \notin VaultLent
    BY <1>2, <2>1, <2>2 DEF Secret!ReplaceFile, Secret!Set
  <2>3. ASSUME NEW n \in 1..MaxVersion, n \in DOMAIN VaultContent[f], d = VaultContent[f][n]
        PROVE  Secret!FileNext(f)
    BY <1>2, <2>1, <2>3 DEF Secret!RestoreFile, Secret!Set
  <2> QED  BY <1>2, <2>2, <2>3
<1>3. ASSUME NEW N,
             VaultContent' = [VaultContent EXCEPT ![f] =
                                [m \in DOMAIN VaultContent[f] \ N |-> VaultContent[f][m]]],
             \/ \E n \in 1..MaxVersion : n \in DOMAIN VaultContent[f] /\ N = {n}
             \/ /\ 0 \in DOMAIN VaultContent[f] /\ f \notin VaultLent
                /\ N = {0} \/ DOMAIN VaultContent[f] \subseteq N
      PROVE  Secret!FileNext(f)
  <2>1. ASSUME NEW n \in 1..MaxVersion, n \in DOMAIN VaultContent[f], N = {n}
        PROVE  Secret!FileNext(f)
    <3>1. n # 0
      BY BoundsAssumption
    <3>2. Secret!ForgetVersion(f, n)
      BY <1>3, <2>1, <3>1 DEF Secret!ForgetVersion, Secret!Drop, Secret!Restrict
    <3> QED  BY <3>2
  <2>2. CASE 0 \in DOMAIN VaultContent[f] /\ f \notin VaultLent /\ N = {0}
    BY <1>3, <2>2 DEF Secret!RemoveFile, Secret!Drop, Secret!Restrict
  <2>3. CASE /\ 0 \in DOMAIN VaultContent[f] /\ f \notin VaultLent
             /\ DOMAIN VaultContent[f] \subseteq N
    <3>1. DOMAIN VaultContent[f] \ N = {}
      BY <2>3
    <3>2. [m \in DOMAIN VaultContent[f] \ N |-> VaultContent[f][m]] = <<>>
      BY <3>1
    <3>3. Secret!ForgetFile(f)
      BY <1>3, <2>3, <3>2 DEF Secret!ForgetFile
    <3> QED  BY <3>3
  <2> QED  BY <1>3, <2>1, <2>2, <2>3
<1> QED  BY <1>1, <1>2, <1>3

\* A call on one file makes its new content that of the vault.
LEMMA FileCall ==
    ASSUME VInv, IInv', NEW t \in Threads, Threads = {t}, pc[t] = "idle", Settles,
           UNCHANGED <<default, pc, jobVars, reply>>,
           NEW f \in Files, NEW c, Makes({f}, [g \in {f} |-> c]),
           \/ Plain(f, 0) \in DOMAIN store' /\ UNCHANGED opened
           \/ /\ ~NowLent(f)
              /\ \A g \in Files : g # f => opened'[Plain(g, 0)] = opened[Plain(g, 0)]
    PROVE  /\ VInv'
           /\ VaultContent' = [VaultContent EXCEPT ![f] = c]
           /\ UNCHANGED <<VaultLock, VaultLent>>
<1> DEFINE C == [g \in {f} |-> c]
<1>1. ASSUME NEW g \in Files, NowLent(g)
      PROVE  /\ Plain(g, 0) \in DOMAIN store'
             /\ opened'[Plain(g, 0)] = opened[Plain(g, 0)]
  <2>1. CASE g = f
    BY <1>1, <2>1
  <2>2. CASE g # f
    <3>1. Plain(g, 0) \in DOMAIN store
      BY <1>1 DEF VInv, TmpOpen, Exists
    <3>2. SameFile(store, store', g) /\ 0 \in 0..MaxVersion
      BY <2>2, BoundsAssumption DEF Makes
    <3>3. Plain(g, 0) \in DOMAIN store'
      BY <3>1, <3>2 DEF SameFile, SameName, SameAt
    <3> QED  BY <2>2, <3>3
  <2> QED  BY <2>1, <2>2
<1>2. /\ VInv'
      /\ VaultContent' = [g \in Files |-> IF g \in {f} THEN C[g] ELSE VaultContent[g]]
      /\ UNCHANGED <<VaultLock, VaultLent>>
  <2> HIDE DEF C
  <2> QED  BY <1>1, CallMaps DEF C
<1>3. [g \in Files |-> IF g \in {f} THEN C[g] ELSE VaultContent[g]]
      = [VaultContent EXCEPT ![f] = c]
  BY DEF VaultContent
<1> QED  BY <1>2, <1>3

\* What the vault says of a file while the worker is idle.
LEMMA QuietVault ==
    ASSUME VInv, NEW t \in Threads, Threads = {t}, pc[t] = "idle", NEW f \in Files
    PROVE  /\ VaultContent[f] = OldContent(f)
           /\ Unlocked(Plain(f, 0)) => VaultLock[f] = NoLock /\ OldLock(f) = NoLock
           /\ Settled(Plain(f, 0)) => f \notin VaultLent /\ ~NowLent(f)
           /\ \A n \in 0..MaxVersion : Exists(Plain(f, n)) <=> n \in DOMAIN VaultContent[f]
<1>1. /\ settled = store /\ (Unlocked(Plain(f, 0)) <=> OldLock(f) = NoLock)
      /\ \A n \in 0..MaxVersion : Plain(f, n) \in DOMAIN store <=> n \in DOMAIN OldContent(f)
  BY QuietFile
<1> QED  BY <1>1 DEF VaultContent, VaultLock, VaultLent, OldContent, OldLock, NowLent,
                     IsLent, Settled, Exists

\* A call that writes d to a file, and to a version of it.
LEMMA PutCall ==
    ASSUME VInv, IInv', NEW t \in Threads, Threads = {t}, pc[t] = "idle", Settles,
           UNCHANGED <<default, pc, jobVars, reply, opened>>,
           NEW f \in Files, Unlocked(Plain(f, 0)), NEW d \in Clear,
           NEW N \in SUBSET (0..MaxVersion), 0 \in N,
           NEW X, X = {Plain(f, n) : n \in N},
           store' = [y \in DOMAIN store \union X |-> IF y \in X THEN Of(d) ELSE store[y]]
    PROVE  /\ VInv'
           /\ VaultContent' = [VaultContent EXCEPT ![f] =
                                 [m \in DOMAIN VaultContent[f] \union N |->
                                    IF m \in N THEN d ELSE VaultContent[f][m]]]
           /\ UNCHANGED <<VaultLock, VaultLent>>
<1> DEFINE c == [m \in DOMAIN OldContent(f) \union N |-> IF m \in N THEN d ELSE OldContent(f)[m]]
<1>1. OldLock(f) = NoLock /\ VaultContent[f] = OldContent(f)
  BY QuietVault
<1>2. /\ DOMAIN store' = DOMAIN store \union X
      /\ \A x \in DOMAIN store' : store'[x] = IF x \in X THEN Of(d) ELSE store[x]
  OBVIOUS
<1>3. Makes({f}, [g \in {f} |-> c])
  BY <1>1, <1>2, PutMakes
<1>4. Plain(f, 0) \in DOMAIN store'
  BY <1>2
<1>5. /\ VInv'
      /\ VaultContent' = [VaultContent EXCEPT ![f] = c]
      /\ UNCHANGED <<VaultLock, VaultLent>>
  <2> HIDE DEF c
  <2> QED  BY <1>3, <1>4, FileCall
<1> QED  BY <1>1, <1>5

\* A call that takes versions of a file away.
LEMMA LossCall ==
    ASSUME VInv, IInv', NEW t \in Threads, Threads = {t}, pc[t] = "idle", Settles,
           UNCHANGED <<default, pc, jobVars, reply>>,
           NEW f \in Files, Unlocked(Plain(f, 0)), NEW X, store' = Without(X),
           \A x \in X : x[1] = f /\ (x[3] = <<>> \/ x[2] # 0),
           \/ Plain(f, 0) \notin X /\ UNCHANGED opened
           \/ /\ Settled(Plain(f, 0))
              /\ \A g \in Files : g # f => opened'[Plain(g, 0)] = opened[Plain(g, 0)],
           NEW N, \A n \in 0..MaxVersion : Plain(f, n) \in X /\ Exists(Plain(f, n)) <=> n \in N
    PROVE  /\ VInv'
           /\ VaultContent' = [VaultContent EXCEPT ![f] =
                                 [m \in DOMAIN VaultContent[f] \ N |-> VaultContent[f][m]]]
           /\ UNCHANGED <<VaultLock, VaultLent>>
<1> DEFINE c == [m \in DOMAIN OldContent(f) \ N |-> OldContent(f)[m]]
<1>1. OldLock(f) = NoLock /\ VaultContent[f] = OldContent(f)
  BY QuietVault
<1>2. Loses(X)
  BY StoreChanges
<1>3. Makes({f}, [g \in {f} |-> c])
  BY <1>1, <1>2, LossMakes
<1>4. \/ Plain(f, 0) \in DOMAIN store' /\ UNCHANGED opened
      \/ /\ ~NowLent(f)
         /\ \A g \in Files : g # f => opened'[Plain(g, 0)] = opened[Plain(g, 0)]
  <2>1. NowLent(f) => Plain(f, 0) \in DOMAIN store
    BY DEF VInv, TmpOpen, Exists
  <2> QED  BY <1>2, <2>1, QuietVault DEF Loses
<1>5. /\ VInv'
      /\ VaultContent' = [VaultContent EXCEPT ![f] = c]
      /\ UNCHANGED <<VaultLock, VaultLent>>
  <2> HIDE DEF c
  <2> QED  BY <1>3, <1>4, FileCall
<1> QED  BY <1>1, <1>5

\* The version a write stores comes after those the vault has.
LEMMA NextVersion ==
    ASSUME VInv, NEW t \in Threads, Threads = {t}, pc[t] = "idle",
           NEW f \in Files, Unlocked(Plain(f, 0)),
           NEW n \in 1..MaxVersion, IsNextVersion(f, n)
    PROVE  /\ \A m \in DOMAIN VaultContent[f] : m < n
           /\ n = 1 \/ n - 1 \in DOMAIN VaultContent[f]
<1>1. /\ FileIn(store, f, NoLock, VaultContent[f])
      /\ DOMAIN VaultContent[f] \subseteq 0..MaxVersion
      /\ \A m \in 0..MaxVersion : Exists(Plain(f, m)) <=> m \in DOMAIN VaultContent[f]
  BY QuietFile, QuietVault
<1>2. ASSUME NEW m \in DOMAIN VaultContent[f]
      PROVE  m < n
  <2>1. m \in 0..MaxVersion /\ Plain(f, m) \in DOMAIN store
    BY <1>1 DEF Exists
  <2>2. CASE m = 0
    BY <2>2
  <2>3. CASE m # 0
    <3>1. Plain(f, m)[1] = f /\ Plain(f, m)[2] = m
      BY <2>1, PlainName
    <3>2. Plain(f, m) \in VersionNames(f)
      BY <2>1, <2>3, <3>1 DEF VersionNames
    <3> QED  BY <3>1, <3>2 DEF IsNextVersion
  <2> QED  BY <2>2, <2>3
<1>3. ASSUME NEW x \in VersionNames(f), x[2] = n - 1
      PROVE  n - 1 \in DOMAIN VaultContent[f]
  <2>0. n - 1 \in 0..MaxVersion
    BY BoundsAssumption
  <2>1. x \in DOMAIN store /\ x \in Names /\ x[1] = f /\ x[2] # 0 /\ n - 1 \in 0..MaxVersion
    BY <1>3, <2>0 DEF VersionNames, VInv, IInv, TypeOK
  <2>2. x = <<f, n - 1, x[3]>>
    BY <1>3, <2>1, NameParts
  <2>3. CASE x[3] = <<>>
    BY <1>1, <2>1, <2>2, <2>3 DEF Plain, Exists
  <2>4. CASE \E kind \in Kinds : x = Marker(Plain(f, n - 1), kind)
    BY <1>1, <2>1, <2>4 DEF FileIn, AbsentIn, ClearIn
  <2> QED  BY <1>3, <2>1, <2>3, <2>4 DEF VInv, StoreShape
<1> QED  BY <1>2, <1>3 DEF IsNextVersion

FileCallStep(f) ==
    VInv' /\ Secret!FileNext(f) /\ UNCHANGED <<VaultLock, VaultLent>>

\* A client's call on one file is a step of the vault for that file.
LEMMA FileCalls ==
    ASSUME VInv, IInv', NEW t \in Threads, Threads = {t}, pc[t] = "idle", Settles,
           UNCHANGED <<default, pc, jobVars, reply>>, Disciplined,
           NEW f \in Files,
           LET x == Plain(f, 0) IN
           \/ Truncate(x)
           \/ \E d \in Data : Write(x, d) \/ Generate(x, d)
           \/ Mknod(f)
           \/ Unlink(f)
           \/ DeleteAllVersions(f)
           \/ \E n \in 1..MaxVersion : RestoreVersion(f, n) \/ DeleteVersion(f, n)
    PROVE  FileCallStep(f)
<1> DEFINE x == Plain(f, 0)
<1> USE DEF FileCallStep
<1>1. /\ 0 \in 0..MaxVersion /\ 1..MaxVersion \subseteq 0..MaxVersion
      /\ {x} = {Plain(f, n) : n \in {0}} /\ x[1] = f /\ x[3] = <<>>
      /\ {0} \in SUBSET (0..MaxVersion)
  BY PlainName, BoundsAssumption
<1>2. Unlocked(x)
  BY DEF Truncate, Write, Generate, Mknod, Unlink, DeleteAllVersions, RestoreVersion,
         DeleteVersion, Settled, Unlocked
<1>3. VaultLock[f] = NoLock
  BY <1>2, QuietVault
<1>4. Exists(x) <=> 0 \in DOMAIN VaultContent[f]
  BY <1>1, QuietVault
<1>5. Settled(x) => f \notin VaultLent
  BY QuietVault
<1>6. ASSUME NEW d \in Clear, store' = Put(x, Of(d)), UNCHANGED opened
      PROVE  /\ VInv'
             /\ VaultContent' = [VaultContent EXCEPT ![f] =
                                   [m \in DOMAIN VaultContent[f] \union {0} |->
                                      IF m \in {0} THEN d ELSE VaultContent[f][m]]]
             /\ UNCHANGED <<VaultLock, VaultLent>>
  <2>1. store' = [y \in DOMAIN store \union {x} |-> IF y \in {x} THEN Of(d) ELSE store[y]]
    BY <1>6 DEF Put
  <2> HIDE DEF x
  <2>2. UNCHANGED <<default, pc, jobVars, reply, opened>>
    BY <1>6
  <2> QED  BY <1>1, <1>2, <2>1, <2>2, PutCall DEF x
<1>7. CASE Truncate(x)
  <2>1. Nothing \in Clear /\ Nothing \in Data \union {Nothing}
    BY DEF Clear
  <2> QED  BY <1>3, <1>4, <1>6, <1>7, <2>1, VaultActions DEF Truncate
<1>8. ASSUME NEW d \in Data, Generate(x, d)
      PROVE  FileCallStep(f)
  <2>1. d \in Clear /\ d \in Data \union {Nothing}
    BY DEF Clear
  <2> QED  BY <1>3, <1>4, <1>5, <1>6, <1>8, <2>1, VaultActions DEF Generate
<1>9. CASE Mknod(f)
  <2>1. Nothing \in Clear /\ Nothing \in Data \union {Nothing}
    BY DEF Clear
  <2> QED  BY <1>3, <1>5, <1>6, <1>9, <2>1, VaultActions DEF Mknod
<1>10. ASSUME NEW n \in 1..MaxVersion, RestoreVersion(f, n)
       PROVE  FileCallStep(f)
  <2>1. n \in DOMAIN VaultContent[f] /\ VaultContent[f] = OldContent(f) /\ OldLock(f) = NoLock
    BY <1>1, <1>2, <1>10, QuietVault DEF RestoreVersion
  <2> DEFINE d == VaultContent[f][n]
  <2>2. d \in Clear /\ store[Plain(f, n)] = Of(d)
    BY <1>1, <2>1, QuietFile
  <2>3. store' = Put(x, Of(d)) /\ UNCHANGED opened
    BY <1>10, <2>2 DEF RestoreVersion
  <2> HIDE DEF x
  <2>4. VaultContent' = [VaultContent EXCEPT ![f] =
                                   [m \in DOMAIN VaultContent[f] \union {0} |->
                                      IF m \in {0} THEN d ELSE VaultContent[f][m]]]
        /\ VInv' /\ UNCHANGED <<VaultLock, VaultLent>>
    BY <1>6, <2>2, <2>3
  <2> QED  BY <1>3, <2>1, <2>4, VaultActions
<1>11. ASSUME NEW d \in Data, NEW n \in 1..MaxVersion, Exists(x), UNCHANGED opened,
              IsNextVersion(x[1], n),
              store' = [y \in DOMAIN store \union {x, Plain(x[1], n)} |->
                          IF y \in {x, Plain(x[1], n)} THEN Of(d) ELSE store[y]]
       PROVE  FileCallStep(f)
  <2> DEFINE X == {Plain(f, k) : k \in {0, n}}
  <2>1. X = {x, Plain(x[1], n)} /\ {0, n} \in SUBSET (0..MaxVersion) /\ d \in Clear
    BY <1>1 DEF Clear
  <2>2. store' = [y \in DOMAIN store \union X |-> IF y \in X THEN Of(d) ELSE store[y]]
    BY <1>11, <2>1
  <2>3. UNCHANGED <<default, pc, jobVars, reply, opened>>
    BY <1>11
  <2>4. /\ VInv'
        /\ VaultContent' = [VaultContent EXCEPT ![f] =
                              [m \in DOMAIN VaultContent[f] \union {0, n} |->
                                 IF m \in {0, n} THEN d ELSE VaultContent[f][m]]]
        /\ UNCHANGED <<VaultLock, VaultLent>>
    <3> HIDE DEF x
    <3>1. X = {Plain(f, k) : k \in {0, n}}
      OBVIOUS
    <3>2. Unlocked(Plain(f, 0)) /\ 0 \in {0, n}
      BY <1>2 DEF x
    <3> HIDE DEF X
    <3> QED  BY <2>1, <2>2, <2>3, <3>1, <3>2, PutCall
  <2>5. /\ \A m \in DOMAIN VaultContent[f] : m < n
        /\ n = 1 \/ n - 1 \in DOMAIN VaultContent[f]
    BY <1>1, <1>2, <1>11, NextVersion
  <2> QED  BY <1>3, <1>4, <1>11, <2>4, <2>5, VaultActions
<1>12. ASSUME NEW n \in 1..MaxVersion, DeleteVersion(f, n)
       PROVE  FileCallStep(f)
  <2>1. n \in DOMAIN VaultContent[f]
    BY <1>1, <1>12, QuietVault DEF DeleteVersion
  <2>2. /\ Plain(f, n)[1] = f /\ Plain(f, n)[3] = <<>> /\ Plain(f, n)[2] # 0
        /\ \A k \in 0..MaxVersion : Plain(f, k) = Plain(f, n) <=> k = n
    BY <1>1, PlainName, BoundsAssumption
  <2>3. \A k \in 0..MaxVersion : Plain(f, k) \in {Plain(f, n)} /\ Exists(Plain(f, k)) <=> k \in {n}
    BY <1>12, <2>2 DEF DeleteVersion
  <2>4. store' = Without({Plain(f, n)}) /\ UNCHANGED opened
    BY <1>12 DEF DeleteVersion
  <2>5. VaultContent' = [VaultContent EXCEPT ![f] =
                           [m \in DOMAIN VaultContent[f] \ {n} |-> VaultContent[f][m]]]
        /\ VInv' /\ UNCHANGED <<VaultLock, VaultLent>>
    <3>1. x \notin {Plain(f, n)}
      BY <1>1, <2>2
    <3> QED  BY <1>2, <2>2, <2>3, <2>4, <3>1, LossCall
  <2> QED  BY <1>3, <2>1, <2>5, VaultActions
<1>13. CASE Unlink(f)
  <2> DEFINE N == {0}
  <2>1. \A k \in 0..MaxVersion : Plain(f, k) \in {x} /\ Exists(Plain(f, k)) <=> k \in N
    BY <1>1, <1>13, PlainName DEF Unlink
  <2>2. Settled(x) /\ Exists(x) /\ store' = Without({x})
    BY <1>13 DEF Unlink
  <2>3. \A g \in Files : g # f => opened'[Plain(g, 0)] = opened[Plain(g, 0)]
    BY <1>1, <1>13, PlainName DEF Unlink, VInv, IInv, TypeOK, Targets
  <2>4. VaultContent' = [VaultContent EXCEPT ![f] =
                           [m \in DOMAIN VaultContent[f] \ N |-> VaultContent[f][m]]]
        /\ VInv' /\ UNCHANGED <<VaultLock, VaultLent>>
    <3>1. \A y \in {x} : y[1] = f /\ (y[3] = <<>> \/ y[2] # 0)
      BY <1>1
    <3> HIDE DEF N
    <3> QED  BY <1>2, <2>1, <2>2, <2>3, <3>1, LossCall
  <2> QED  BY <1>3, <1>4, <1>5, <2>2, <2>4, VaultActions
<1>14. CASE DeleteAllVersions(f)
  <2> DEFINE X == VersionNames(f) \union {x}
             N == DOMAIN VaultContent[f]
  <2>1. Settled(x) /\ Exists(x) /\ store' = Without(X) /\ UNCHANGED opened
    BY <1>14 DEF DeleteAllVersions
  <2>2. \A y \in X : y[1] = f /\ (y[3] = <<>> \/ y[2] # 0)
    BY <1>1 DEF VersionNames
  <2>3. ASSUME NEW k \in 0..MaxVersion
        PROVE  Plain(f, k) \in X /\ Exists(Plain(f, k)) <=> k \in N
    <3>1. Plain(f, k)[1] = f /\ Plain(f, k)[2] = k
      BY PlainName
    <3>2. Exists(Plain(f, k)) => Plain(f, k) \in X
      BY <3>1 DEF VersionNames, Exists
    <3>3. Exists(Plain(f, k)) <=> k \in N
      BY QuietVault
    <3> QED  BY <3>2, <3>3
  <2>4. VaultContent' = [VaultContent EXCEPT ![f] =
                           [m \in DOMAIN VaultContent[f] \ N |-> VaultContent[f][m]]]
        /\ VInv' /\ UNCHANGED <<VaultLock, VaultLent>>
    <3>1. \A g \in Files : g # f => opened'[Plain(g, 0)] = opened[Plain(g, 0)]
      BY <2>1
    <3> HIDE DEF X, N
    <3> QED  BY <1>2, <2>1, <2>2, <2>3, <3>1, LossCall
  <2> QED  BY <1>3, <1>4, <1>5, <2>1, <2>4, VaultActions
<1> QED  BY <1>2, <1>7, <1>8, <1>9, <1>10, <1>11, <1>12, <1>13, <1>14 DEF Write

\* A rename moves the content, and leaves the versions.
LEMMA RenameCall ==
    ASSUME VInv, IInv', NEW t \in Threads, Threads = {t}, pc[t] = "idle", Settles,
           UNCHANGED <<default, pc, jobVars, reply>>, Disciplined,
           NEW f \in Files, NEW g \in Files, Rename(f, g)
    PROVE  FileCallStep(f)
<1> DEFINE c == [m \in DOMAIN OldContent(f) \ {0} |-> OldContent(f)[m]]
           d == [m \in DOMAIN OldContent(g) \union {0} |->
                   IF m = 0 THEN OldContent(f)[0] ELSE OldContent(g)[m]]
           C == [h \in {f, g} |-> IF h = f THEN c ELSE d]
<1>1. /\ f # g /\ Settled(Plain(f, 0)) /\ Settled(Plain(g, 0)) /\ Exists(Plain(f, 0))
      /\ store' = [z \in (DOMAIN store \ {Plain(f, 0)}) \union {Plain(g, 0)} |->
                       IF z = Plain(g, 0) THEN store[Plain(f, 0)] ELSE store[z]]
      /\ opened' = [opened EXCEPT ![Plain(g, 0)] = opened[Plain(f, 0)], ![Plain(f, 0)] = 0]
  BY DEF Rename
<1>2. /\ VaultContent[f] = OldContent(f) /\ VaultContent[g] = OldContent(g)
      /\ VaultLock[f] = NoLock /\ VaultLock[g] = NoLock
      /\ OldLock(f) = NoLock /\ OldLock(g) = NoLock
      /\ f \notin VaultLent /\ g \notin VaultLent /\ ~NowLent(f) /\ ~NowLent(g)
      /\ 0 \in DOMAIN VaultContent[f]
  <2>1. Unlocked(Plain(f, 0)) /\ Unlocked(Plain(g, 0)) /\ 0 \in 0..MaxVersion
    BY <1>1, BoundsAssumption DEF Settled, Unlocked
  <2> QED  BY <1>1, <2>1, QuietVault
<1>3. Makes({f, g}, C)
  BY <1>1, <1>2, RenameMakes
<1>4. ASSUME NEW h \in Files, NowLent(h)
      PROVE  /\ Plain(h, 0) \in DOMAIN store'
             /\ opened'[Plain(h, 0)] = opened[Plain(h, 0)]
  <2>1. h # f /\ h # g
    BY <1>2, <1>4
  <2>2. Plain(h, 0) # Plain(f, 0) /\ Plain(h, 0) # Plain(g, 0)
    BY <2>1, PlainName, BoundsAssumption
  <2>3. Plain(h, 0) \in DOMAIN store
    BY <1>4 DEF VInv, TmpOpen, Exists
  <2>4. opened \in [Targets -> 0..MaxOpens] /\ Plain(h, 0) \in Targets
    BY DEF VInv, IInv, TypeOK, Targets
  <2> QED  BY <1>1, <2>2, <2>3, <2>4
<1>5. /\ VInv'
      /\ VaultContent' = [h \in Files |-> IF h \in {f, g} THEN C[h] ELSE VaultContent[h]]
      /\ UNCHANGED <<VaultLock, VaultLent>>
  <2>1. {f, g} \in SUBSET Files
    OBVIOUS
  <2> HIDE DEF C
  <2> QED  BY <1>3, <1>4, <2>1, CallMaps
<1>6. [h \in Files |-> IF h \in {f, g} THEN C[h] ELSE VaultContent[h]]
      = [VaultContent EXCEPT ![f] = c, ![g] = d]
  <2>1. DOMAIN VaultContent = Files /\ VaultContent = [h \in Files |-> VaultContent[h]]
    BY DEF VaultContent
  <2>2. f \in DOMAIN C /\ g \in DOMAIN C /\ C[f] = c /\ C[g] = d
    BY <1>1
  <2> HIDE DEF c, d, C
  <2> QED  BY <1>1, <2>1, <2>2
<1>7. Secret!MoveFile(f, g)
  <2>1. c = Secret!Drop(f, {0}) /\ d = Secret!Set(g, 0, VaultContent[f][0])
    BY <1>2 DEF Secret!Drop, Secret!Restrict, Secret!Set, VaultContent
  <2>2. VaultContent' = [VaultContent EXCEPT ![f] = Secret!Drop(f, {0}),
                                             ![g] = Secret!Set(g, 0, VaultContent[f][0])]
    BY <1>5, <1>6, <2>1
  <2> HIDE DEF c, d, C
  <2> QED  BY <1>1, <1>2, <1>5, <2>2
           DEF Secret!MoveFile, Secret!Free, Secret!Has, VaultContent, VaultLock, VaultLent
<1> QED  BY <1>5, <1>7 DEF FileCallStep, Secret!FileNext

\* A client's call that takes one step of the daemon is one step of the vault.
LEMMA OneCallStep ==
    ASSUME VInv, Disciplined, NEW t \in Threads, Threads = {t}, Settles, OneCall
    PROVE  \E f \in Files : FileCallStep(f)
<1>1. /\ IInv' /\ pc[t] = "idle"
      /\ UNCHANGED <<default, pc, jobVars, reply>>
  BY OneCallKeeps DEF OneCall, WorkerFree, VInv
<1>2. ASSUME NEW x \in Targets, Truncate(x) \/ \E d \in Data : Write(x, d) \/ Generate(x, d)
      PROVE  \E f \in Files : FileCallStep(f)
  <2>1. PICK f \in Files : x = Plain(f, 0)
    BY DEF Targets
  <2> QED  BY <1>1, <1>2, <2>1, FileCalls
<1>3. ASSUME NEW f \in Files, \/ Mknod(f)
                              \/ Unlink(f)
                              \/ DeleteAllVersions(f)
                              \/ \E g \in Files : Rename(f, g)
                              \/ \E n \in 1..MaxVersion : \/ RestoreVersion(f, n)
                                                          \/ DeleteVersion(f, n)
      PROVE  FileCallStep(f)
  BY <1>1, <1>3, FileCalls, RenameCall
<1> QED  BY <1>2, <1>3 DEF OneCall

\* The vault is offered the credential of the handler and its file.
LEMMA OfferIs ==
    ASSUME NEW t \in Threads, Threads = {t}, cred[t] \in Creds
    PROVE  Offer = <<req[t].name[1], cred[t]>>
<1>1. cred[t] # NoCred
  BY NoCredAssumption
<1>2. {u \in Threads : cred[u] # NoCred} = {t}
  BY <1>1
<1>3. (CHOOSE u \in {t} : TRUE) = t
  OBVIOUS
<1> QED  BY <1>2, <1>3 DEF Offer

\* What readers see is what the contents and the locks say, before and after.
LEMMA ShownIsView ==
    ASSUME VInv, VInv'
    PROVE  /\ VaultShown = Secret!View(VaultContent, VaultLock)
           /\ VaultShown' = Secret!View(VaultContent', VaultLock')
<1>1. \A f \in Files : Complete(settled, f)
  BY DEF VInv, SettledOK, Complete, OldLock, OldContent
<1>2. \A f \in Files : Complete(settled', f)
  BY DEF VInv, SettledOK, Complete, OldLock, OldContent
<1> QED  BY <1>1, <1>2, ViewOf DEF VaultShown, VaultContent, VaultLock

\* The answer of a handler is its step of the vault: a lock, an unlock, a loan,
\* its end, or nothing when the hook has failed or the file was not locked.
LEMMA ReturnStep ==
    ASSUME VInv, NEW t \in Threads, Threads = {t}, Settles, Return(t)
    PROVE  \/ \E f \in Files : Secret!FileNext(f)
           \/ UNCHANGED <<VaultContent, VaultLock, VaultLent>>
<1>1. settled' = store' /\ store' = store
  BY ReturnHolds DEF Return
<1>2. PICK f \in Files :
             /\ req[t].name = Plain(f, 0) /\ req[t].name[1] = f
             /\ \A g \in Files : ContentOf(store, g) = OldContent(g)
             /\ \A g \in Files : g # f => /\ LockOf(store, g) = OldLock(g)
                                          /\ NowLent(g) <=> OldLent(g)
             /\ OldLock(f) # NoLock \/ LockOf(store, f) # NoLock => 0 \in DOMAIN OldContent(f)
             /\ \/ LockOf(store, f) = OldLock(f) /\ SameTmp(f)
                \/ /\ LockOf(store, f) = cred[t] /\ OldLock(f) = NoLock /\ SameTmp(f)
                   /\ cred[t] \in Creds
                \/ /\ LockOf(store, f) = NoLock /\ OldLock(f) = cred[t]
                   /\ SameTmp(f) \/ NowLent(f)
                   /\ cred[t] \in Creds
                \/ /\ Taken(f)
                   /\ \/ /\ LockOf(store, f) = cred[t] /\ OldLock(f) = NoLock
                         /\ cred[t] \in Creds
                      \/ OldLock(f) # NoLock /\ LockOf(store, f) = OldLock(f)
  BY Answered
<1> DEFINE l == LockOf(store, f)
<1>3. UNCHANGED VaultContent
  BY <1>1, <1>2 DEF VaultContent, OldContent
<1>4. /\ VaultLock[f] = OldLock(f) /\ VaultContent[f] = OldContent(f)
      /\ f \in VaultLent <=> OldLent(f)
  BY DEF VaultLock, VaultContent, VaultLent, OldLock, OldContent, OldLent
<1>5. VaultLock' = [VaultLock EXCEPT ![f] = l]
  <2>1. VaultLock = [g \in Files |-> OldLock(g)] /\ VaultLock' = [g \in Files |-> LockOf(store, g)]
    BY <1>1 DEF VaultLock, OldLock
  <2> QED  BY <1>2, <2>1
<1>6. /\ VaultLent = {g \in Files : OldLent(g)}
      /\ VaultLent' = {g \in Files : NowLent(g)}
  BY <1>1 DEF VaultLent, OldLent, NowLent
<1>7. /\ SameTmp(f) => UNCHANGED VaultLent
      /\ NowLent(f) => VaultLent' = VaultLent \union {f}
      /\ Taken(f) => VaultLent' = VaultLent \ {f} /\ f \in VaultLent
  BY <1>2, <1>6 DEF SameTmp, Taken
<1>8. l = OldLock(f) => UNCHANGED VaultLock
  BY <1>4, <1>5 DEF VaultLock
<1>9. cred[t] \in Creds => Offer = <<f, cred[t]>> /\ Offer[1] = f /\ Offer[2] = cred[t]
  BY <1>2, OfferIs
<1> HIDE DEF l
<1>10. CASE l = OldLock(f) /\ SameTmp(f)
  BY <1>3, <1>7, <1>8, <1>10
<1>11. CASE l = cred[t] /\ OldLock(f) = NoLock /\ SameTmp(f) /\ cred[t] \in Creds
  <2>1. 0 \in DOMAIN OldContent(f)
    BY <1>2, <1>11, NoLockAssumption DEF l
  <2>2. Secret!LockFile(f)
    BY <1>3, <1>4, <1>5, <1>7, <1>9, <1>11, <2>1
       DEF Secret!LockFile, Secret!Has, VaultContent, VaultLock, VaultLent
  <2> QED  BY <2>2 DEF Secret!FileNext
<1>12. CASE l = NoLock /\ OldLock(f) = cred[t] /\ SameTmp(f) /\ cred[t] \in Creds
  <2>1. Secret!UnlockFile(f)
    BY <1>3, <1>4, <1>5, <1>7, <1>9, <1>12
       DEF Secret!UnlockFile, VaultContent, VaultLock, VaultLent
  <2> QED  BY <2>1 DEF Secret!FileNext
<1>13. CASE l = NoLock /\ OldLock(f) = cred[t] /\ NowLent(f) /\ cred[t] \in Creds
  <2>1. Secret!LendFile(f)
    BY <1>3, <1>4, <1>5, <1>7, <1>9, <1>13
       DEF Secret!LendFile, VaultContent, VaultLock, VaultLent
  <2> QED  BY <2>1 DEF Secret!FileNext
<1>14. CASE Taken(f) /\ l = cred[t] /\ OldLock(f) = NoLock /\ cred[t] \in Creds
  <2>1. VaultLock' = [VaultLock EXCEPT ![f] = IF @ = NoLock THEN Offer[2] ELSE @]
    BY <1>4, <1>5, <1>9, <1>14
  <2>2. Secret!TakeBackFile(f)
    BY <1>3, <1>7, <1>14, <2>1
       DEF Secret!TakeBackFile, VaultContent, VaultLock, VaultLent
  <2> QED  BY <2>2 DEF Secret!FileNext
<1>15. CASE Taken(f) /\ OldLock(f) # NoLock /\ l = OldLock(f)
  <2>1. VaultLock' = [VaultLock EXCEPT ![f] = IF @ = NoLock THEN Offer[2] ELSE @]
    BY <1>4, <1>5, <1>15
  <2>2. Secret!TakeBackFile(f)
    BY <1>3, <1>7, <1>15, <2>1
       DEF Secret!TakeBackFile, VaultContent, VaultLock, VaultLent
  <2> QED  BY <2>2 DEF Secret!FileNext
<1> QED  BY <1>2, <1>10, <1>11, <1>12, <1>13, <1>14, <1>15 DEF l

-----------------------------------------------------------------------------
(* The refinement *)

\* A new mount has no files, and the vault is empty.
LEMMA InitRefines ==
    ASSUME VaultConditions, RefinementInit
    PROVE  VInv /\ Secret!VaultInit
<1>1. PICK t : Threads = {t} /\ t \in Threads
  BY DEF VaultConditions, OneWorker
<1>2. IInv /\ DOMAIN store = {} /\ settled = store /\ pc[t] = "idle"
  BY <1>1, InitEstablishes DEF VaultConditions, RefinementInit, Init, JobsInit
<1>3. success[t]
  BY <1>1 DEF RefinementInit, Init, JobsInit
<1>4. ASSUME NEW f \in Files
      PROVE  /\ LockOf(settled, f) = NoLock /\ ContentOf(settled, f) = <<>>
             /\ ShownOf(settled, f) = <<>> /\ ~IsLent(settled, f)
             /\ FileIn(settled, f, NoLock, <<>>)
  <2>1. LocksOf(settled, Plain(f, 0)) = {} /\ Numbers(settled, f) = {}
    BY <1>2 DEF LocksOf, Numbers
  <2>2. FileIn(settled, f, NoLock, <<>>)
    BY <1>2 DEF FileIn, AbsentIn
  <2> QED  BY <1>2, <2>1, <2>2 DEF LockOf, ContentOf, ShownOf, IsLent
<1>5. SettledOK
  BY <1>2, <1>4 DEF SettledOK, OldLock, OldContent, Locks
<1>6. OthersUntouched
  BY <1>2 DEF OthersUntouched, SameFile, SameName, SameAt
<1>7. HandlersOK /\ Begun /\ UnlockByItsKeySucceeds
  BY <1>1, <1>2, <1>3 DEF HandlersOK, Begun, UnlockByItsKeySucceeds, UnsealPC
<1>8. StoreShape /\ TmpOpen
  BY <1>2 DEF StoreShape, TmpOpen, NowLent, IsLent
<1>9. VInv
  BY <1>2, <1>5, <1>6, <1>7, <1>8 DEF VInv
<1>10. Secret!VaultInit
  <2>1. \A f \in Files : Complete(settled, f)
    BY <1>4 DEF Complete, Locks
  <2>2. VaultShown = Secret!View(VaultContent, VaultLock)
    BY <2>1, ViewOf DEF VaultShown, VaultContent, VaultLock
  <2>3. /\ VaultContent = [f \in Files |-> <<>>]
        /\ VaultLock = [f \in Files |-> NoLock]
        /\ VaultLent = {}
    BY <1>4 DEF VaultContent, VaultLock, VaultLent
  <2> QED  BY <2>2, <2>3 DEF Secret!VaultInit, VaultShown, VaultContent, VaultLock, VaultLent
<1> QED  BY <1>9, <1>10

\* The default key is another one; nothing is locked or unlocked.
LEMMA SetDefaultHolds ==
    ASSUME VInv, Disciplined, NEW t \in Threads, Threads = {t}, Settles, SetDefault
    PROVE  VInv' /\ settled' = settled
<1> USE DEF SetDefault, WorkerFree, jobVars
<1>1. IInv'
  BY SetDefaultKeeps DEF VInv
<1>2. pc[t] = "idle" /\ pc'[t] = "idle" /\ success'[t] /\ UNCHANGED store /\ default' \in KeyFiles
  BY DEF VInv, Begun, UnsealPC
<1>3. settled = store /\ \A f \in Files : Complete(store', f)
  <2>1. settled = store /\ \A f \in Files : Complete(settled, f)
    <3>1. settled = store
      BY <1>2 DEF VInv, SettledOK, Quiet
    <3> QED  BY <1>2, <3>1, QuietFile
  <2>2. store' = settled
    BY <1>2, <2>1
  <2> QED  BY <2>1, <2>2
<1>4. StoreShape' /\ TmpOpen'
  BY <1>2 DEF VInv, StoreShape, TmpOpen, NowLent, Exists
<1> QED  BY <1>1, <1>2, <1>3, <1>4, Settle

\* No step of a handler breaks the invariant, and only its answer makes what it
\* has done count.
LEMMA HandlerHolds ==
    ASSUME VInv, NEW t \in Threads, Threads = {t}, Settles, Step(t)
    PROVE  VInv' /\ (~Return(t) => UNCHANGED settled)
<1>1. ~CloseAgain(t)
  BY Handling DEF CloseAgain, HandlerAt
<1>2. VInv'
  BY <1>1, ReturnHolds, CheckEncryptedHolds, ReadRelatedHolds, SealOpenHolds,
     SealWriteHolds, SealHideHolds, UnsealOpenHolds, UnsealWriteHolds, UnsealRemoveHolds,
     LoadDefaultHolds, CheckLockedHolds, MakeTmpHolds, OpenFileHolds, CheckTmpHolds,
     RemoveTmpHolds, ReloadDefaultHolds DEF Step
<1>3. ASSUME ~Return(t)
      PROVE  pc'[t] # "idle"
  <2>1. pc \in [Threads -> PC] /\ pc[t] # "idle"
    BY DEF VInv, IInv, TypeOK, Step, CheckEncrypted, ReadRelated, SealOpen, SealWrite,
           SealHide, UnsealOpen, UnsealWrite, UnsealRemove, LoadDefault, CheckLocked, MakeTmp,
           OpenFile, CheckTmp, RemoveTmp, ReloadDefault, CloseAgain, Return
  <2>2. CASE CheckEncrypted(t) \/ ReadRelated(t) \/ SealOpen(t) \/ SealWrite(t) \/ SealHide(t)
    BY <2>1, <2>2 DEF CheckEncrypted, ReadRelated, SealOpen, SealWrite, SealHide, Finish,
                      Then, Answer, NextFile
  <2>3. CASE UnsealOpen(t) \/ UnsealWrite(t) \/ UnsealRemove(t) \/ LoadDefault(t)
    BY <2>1, <2>3 DEF UnsealOpen, UnsealWrite, UnsealRemove, LoadDefault, Finish,
                      Then, Answer, NextFile, UseDefault
  <2>4. CASE CheckLocked(t) \/ MakeTmp(t) \/ OpenFile(t) \/ CheckTmp(t) \/ RemoveTmp(t)
             \/ ReloadDefault(t) \/ CloseAgain(t)
    BY <2>1, <2>4 DEF CheckLocked, MakeTmp, OpenFile, CheckTmp, RemoveTmp, ReloadDefault,
                      CloseAgain, Then, Answer, UseDefault
  <2> QED  BY <1>3, <2>2, <2>3, <2>4 DEF Step
<1> QED  BY <1>2, <1>3, NotSettled

\* Every step keeps the invariant, and is a step of the vault or changes
\* nothing of it.
LEMMA NextRefines ==
    ASSUME VaultConditions, VInv, [RefinementNext]_<<vars, settled>>
    PROVE  VInv' /\ Secret!VaultNext
<1>1. PICK t : Threads = {t} /\ t \in Threads
  BY DEF VaultConditions, OneWorker
<1> DEFINE Same == UNCHANGED <<VaultContent, VaultLock, VaultLent>>
           Moves == (\E f \in Files : Secret!FileNext(f)) \/ Same
<1>2. UNCHANGED settled => Same
  BY DEF VaultContent, VaultLock, VaultLent
<1>3. VInv' /\ Moves
  <2>1. CASE UNCHANGED <<vars, settled>>
    <3>1. IInv'
      BY <2>1, NextKeeps DEF VInv, VaultConditions
    <3>2. VInv'
      BY <2>1, <3>1
         DEF vars, jobVars, VInv, SettledOK, Quiet, OldLock, OldContent, OthersUntouched,
             HandlersOK, HandlerAt, Loop, LoopNames, NameInLoop, AbsentIn, ClearIn, HiddenIn,
             SealedIn, SealLoopAt, UnsealLoopAt, TmpPart, Taken, SameTmp, OldLent, NowLent,
             Unchanged, WasLocked, WasUnlocked, Begun, StoreShape, TmpOpen,
             UnlockByItsKeySucceeds, Exists, IsEncrypted, Sealing
    <3> QED  BY <1>2, <2>1, <3>2
  <2>2. CASE Next /\ Settles
    <3>1. CASE Step(t)
      BY <1>1, <1>2, <2>2, <3>1, HandlerHolds, ReturnStep
    <3>2. CASE OneCall
      BY <1>1, <2>2, <3>2, OneCallStep DEF FileCallStep, VaultConditions
    <3>3. CASE SetDefault
      BY <1>1, <1>2, <2>2, <3>3, SetDefaultHolds DEF VaultConditions
    <3>4. CASE \E x \in Targets : \/ BeginLock(t, x) \/ BeginUnlock(t, x)
                                  \/ BeginOpen(t, x) \/ BeginRelease(t, x)
      <4>1. VInv' /\ pc'[t] # "idle"
        BY <1>1, <2>2, <3>4, ClientsHold DEF VaultConditions
      <4> QED  BY <1>1, <1>2, <2>2, <4>1, NotSettled
    <3>5. ~Restart
      BY DEF VaultConditions, Restart
    <3> QED  BY <1>1, <2>2, <3>1, <3>2, <3>3, <3>4, <3>5 DEF Next
  <2> QED  BY <2>1, <2>2 DEF RefinementNext, Settles
<1>4. /\ VaultShown = Secret!View(VaultContent, VaultLock)
      /\ VaultShown' = Secret!View(VaultContent', VaultLock')
  BY <1>3, ShownIsView
<1>5. CASE Same
  <2>1. UNCHANGED <<VaultContent, VaultLock, VaultLent, VaultShown>>
    BY <1>4, <1>5
  <2> QED  BY <1>3, <2>1 DEF Secret!VaultNext, VaultContent, VaultLock, VaultLent, VaultShown
<1>6. CASE \E f \in Files : Secret!FileNext(f)
  BY <1>3, <1>4, <1>6 DEF Secret!VaultNext, VaultContent, VaultLock, VaultLent, VaultShown
<1> QED  BY <1>3, <1>5, <1>6

\* The inductive invariant holds.
THEOREM VaultInvariantHolds ==
    ASSUME VaultConditions
    PROVE  RefinementSpec => []VInv
<1>1. RefinementInit => VInv
  BY InitRefines
<1>2. VInv /\ [RefinementNext]_<<vars, settled>> => VInv'
  BY NextRefines
<1> QED  BY <1>1, <1>2, PTL DEF RefinementSpec

\* With one worker, clients that respect the locks and no kill, the handlers of
\* the decorator implement Vault: no lock, unlock, open or release loses a
\* content, versions are locked and unlocked with their file, and only the key a
\* file was locked with opens it (encrypt_file, decrypt_file, open, release).
THEOREM VaultIsImplemented ==
    ASSUME VaultConditions
    PROVE  RefinementSpec => ImplementsVault
<1>1. RefinementInit => Secret!VaultInit
  BY InitRefines
<1>2. VInv /\ [RefinementNext]_<<vars, settled>> => Secret!VaultNext
  BY NextRefines
<1> QED  BY <1>1, <1>2, VaultInvariantHolds, PTL DEF RefinementSpec, ImplementsVault, Secret!VaultSpec

\* A file that shows the placeholder between handlers has its content behind a
\* marker (decrypt_file).
THEOREM NoContentIsThrownAway ==
    ASSUME VaultConditions
    PROVE  RefinementSpec => []PlaceholderHasSeal
<1>1. ASSUME VInv
      PROVE  PlaceholderHasSeal
  <2>1. PICK t : Threads = {t} /\ t \in Threads
    BY DEF VaultConditions, OneWorker
  <2>2. ASSUME pc[t] = "idle", NEW f \in Files, Read(Plain(f, 0)) = Of(Placeholder)
        PROVE  IsEncrypted(Plain(f, 0))
    <3>1. /\ Unlocked(Plain(f, 0)) <=> OldLock(f) = NoLock
          /\ Plain(f, 0) \in DOMAIN store <=> 0 \in DOMAIN OldContent(f)
          /\ 0 \in DOMAIN OldContent(f)
             => /\ OldContent(f)[0] \in Clear
                /\ OldLock(f) = NoLock => store[Plain(f, 0)] = Of(OldContent(f)[0])
      BY <1>1, <2>1, <2>2, QuietFile, BoundsAssumption
    <3>2. \A b \in Clear : Of(b) # Of(Placeholder)
      BY PlaceholderAssumption DEF Of, Clear
    <3>3. Nothing \in Clear
      BY DEF Clear
    <3> QED  BY <2>2, <3>1, <3>2, <3>3 DEF Read, Exists, Unlocked
  <2> QED  BY <2>1, <2>2 DEF PlaceholderHasSeal
<1> QED  BY <1>1, VaultInvariantHolds, PTL

\* An unlock with the credential a file was locked with does not fail
\* (handle_encryption_action).
THEOREM UnlockGivesTheContentBack ==
    ASSUME VaultConditions
    PROVE  RefinementSpec => []UnlockByItsKeySucceeds
<1>1. VInv => UnlockByItsKeySucceeds
  BY DEF VInv
<1> QED  BY <1>1, VaultInvariantHolds, PTL

\* A file is unsealed for its readers only while it has readers: the tmp marker
\* never outlives the last release (open, release).
THEOREM TmpMarkerIsTakenAway ==
    ASSUME VaultConditions
    PROVE  RefinementSpec => []TempOnlyWhileOpen
<1>1. ASSUME VInv
      PROVE  TempOnlyWhileOpen
  <2>1. ASSUME Quiet, NEW x \in Targets, Exists(Tmp(x))
        PROVE  opened[x] > 0
    <3>1. PICK f \in Files : x = Plain(f, 0)
      BY DEF Targets
    <3> QED  BY <1>1, <2>1, <3>1 DEF VInv, TmpOpen, NowLent, IsLent, Exists, Quiet
  <2> QED  BY <2>1 DEF TempOnlyWhileOpen
<1> QED  BY <1>1, VaultInvariantHolds, PTL
=============================================================================
