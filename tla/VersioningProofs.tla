--------------------------- MODULE VersioningProofs ---------------------------
(***************************************************************************)
(* The inductive invariant of VersioningVfs and the theorems that follow   *)
(* from it, for any number of files, workers, versions and blocks, with    *)
(* crashes and I/O errors or without; and then what VersioningVfs promises *)
(* when fuse_main has one worker ("-s"): the results it reports are true,  *)
(* through crashes and I/O errors, and without those its handlers look     *)
(* atomic: they implement VersionHistory.  With two workers the first is   *)
(* false already: see the run versioning_write_race.                       *)
(***************************************************************************)
EXTENDS VersioningRefinement, SequenceTheorems, TLAPS

Busy(t) == req[t] # NoRequest
IsWriter(t) == Busy(t) /\ req[t].op = "write"

\* A worker is inside a handler exactly when it has a request, and the label
\* tells the kind of request.
ControlOK ==
    \A t \in Threads :
      /\ pc[t] = "idle" <=> req[t] = NoRequest
      /\ pc[t] \in WritePC => req[t].op = "write"
      /\ pc[t] \in CopyPC => req[t].op \in {"write", "restore"}
      /\ pc[t] = "check" => req[t].op # "write"
      /\ pc[t] = "restoreUnlink" => req[t].op = "restore"
      /\ pc[t] = "deleteUnlink" => req[t].op = "delete"
      /\ pc[t] = "readNames" => req[t].op \in {"deleteAll", "list"}
      /\ pc[t] \in {"unlinkVersions", "unlinkFile", "unlinkAgain"}
           => req[t].op = "deleteAll"

\* The kernel keeps a second write of the same file waiting.
OneWriter ==
    \A t, u \in Threads :
      IsWriter(t) /\ IsWriter(u) /\ req[t].file = req[u].file => t = u

\* Nobody but the writer itself uses up the last version number.
RoomForVersion ==
    \A t \in Threads :
      pc[t] = "scan" => ~Exists(VersionName(req[t].file, MaxVersion))

\* After the scan the writer holds a version number ...
VersionChosen ==
    \A t \in Threads :
      pc[t] \in {"openForWrite", "pwrite", "copyOpen", "copyFill", "copyTouch"}
      /\ req[t].op = "write"
      => ver[t] \in Versions

\* ... and from the creation of the version on, no version is newer.
NewVersionIsLast ==
    \A t \in Threads :
      pc[t] \in {"copyFill", "copyTouch"} /\ req[t].op = "write"
      => \A m \in RelatedVersions(req[t].file) : m <= ver[t]

\* The name behind an open descriptor is in the directory.
OpenNamesExist ==
    \A t \in Threads : handle[t] # NoName => Exists(handle[t])

IInv ==
    /\ TypeOK
    /\ ControlOK
    /\ OneWriter
    /\ RoomForVersion
    /\ VersionChosen
    /\ NewVersionIsFresh
    /\ NewVersionIsLast
    /\ OpenNamesExist

USE DEF At, Goto, BaseName, VersionName, storeVars, workerVars

-----------------------------------------------------------------------------
(* Lemmas on requests and names *)

\* Files have names, and so have their versions.
LEMMA NamesTyped ==
    /\ \A f \in Files : BaseName(f) \in Names
    /\ \A f \in Files, n \in Versions : VersionName(f, n) \in Names
  BY BoundsAssumption DEF Names, Versions

\* A file nobody wrote has a content.
LEMMA EmptyTyped == Empty \in Content
  BY DEF Empty, Content

\* So does a file after a write of one block.
LEMMA ContentTyped ==
    ASSUME NEW c \in Content
    PROVE  \A b \in Blocks, d \in Data : [c EXCEPT ![b] = d] \in Content
  BY DEF Content

\* The fields of a request, by its kind.
LEMMA RequestTyped ==
    ASSUME NEW r \in Requests
    PROVE  /\ r.op \in {"write", "restore", "delete", "deleteAll", "list"}
           /\ r.file \in Files
           /\ r.op = "write" => r.block \in Blocks /\ r.datum \in Data
           /\ r.op \in {"restore", "delete"} => r.version \in Versions
  BY DEF Requests, WriteReq, VersionedReq, UnversionedReq

\* A worker inside a handler has a request.
LEMMA BusyTyped ==
    ASSUME TypeOK, ControlOK, NEW t \in Threads, pc[t] # "idle"
    PROVE  req[t] \in Requests
  BY DEF TypeOK, ControlOK

\* What a write's copy and a restore's copy read and create are names.
LEMMA CopyTyped ==
    ASSUME TypeOK, ControlOK, VersionChosen, NEW t \in Threads, pc[t] \in CopyPC
    PROVE  CopySource(t) \in Names /\ CopyTarget(t) \in Names
<1>1. req[t] \in Requests /\ req[t].op \in {"write", "restore"}
  BY BusyTyped DEF ControlOK, CopyPC
<1>2. req[t].op = "write" => ver[t] \in Versions
  BY DEF VersionChosen, CopyPC
<1> QED  BY <1>1, <1>2, RequestTyped, NamesTyped DEF CopySource, CopyTarget

\* The end of the daemon leaves nothing behind but the backing directory.
LEMMA StopTyped ==
    ASSUME TypeOK, NEW how \in {"killed", "aborted"}, Stop(how)
    PROVE  TypeOK'
  BY EmptyTyped, BoundsAssumption DEF TypeOK, StoreTypeOK, Stop, PC, Replies

\* The same for an exception, which only a hook survives.
LEMMA ThrowTyped ==
    ASSUME TypeOK, NEW t \in Threads, Throw(t)
    PROVE  TypeOK'
<1>1. CASE req[t].op = "write"
  BY <1>1, StopTyped DEF Throw
<1>2. CASE req[t].op # "write"
  BY <1>2, EmptyTyped DEF Throw, Answer, TypeOK, StoreTypeOK, PC, Replies
<1> QED  BY <1>1, <1>2

\* A worker may take up any request.
LEMMA BeginTyped ==
    ASSUME TypeOK, NEW t \in Threads, NEW r \in Requests, NEW label \in PC,
           Begin(t, r, label)
    PROVE  TypeOK'
  BY DEF Begin, TypeOK, StoreTypeOK

-----------------------------------------------------------------------------
(* Types *)

\* Writing or cutting a file that exists keeps the types.
LEMMA ChangeTyped ==
    ASSUME StoreTypeOK, NEW x \in Names, Overwrite(x) \/ Truncate(x)
    PROVE  /\ StoreTypeOK'
           /\ \E c \in Content : store' = [store EXCEPT ![x] = c]
<1> USE DEF StoreTypeOK
<1>1. store[x] \in Content
  BY DEF Overwrite, Truncate, Exists
<1>2. CASE Truncate(x)
  <2>1. PICK len \in 0..(NumBlocks - 1) :
          store' = [store EXCEPT ![x] =
                      [b \in Blocks |-> IF b <= len THEN @[b] ELSE Hole]]
    BY <1>2 DEF Truncate
  <2>2. [b \in Blocks |-> IF b <= len THEN store[x][b] ELSE Hole] \in Content
    BY <1>1 DEF Content
  <2> QED  BY <1>2, <2>1, <2>2 DEF Truncate
<1>3. CASE Overwrite(x)
  <2>1. PICK b \in Blocks, d \in Data :
          store' = [store EXCEPT ![x] = [@ EXCEPT ![b] = d]]
    BY <1>3 DEF Overwrite
  <2>2. [store[x] EXCEPT ![b] = d] \in Content
    BY <1>1, ContentTyped
  <2> QED  BY <1>3, <2>1, <2>2 DEF Overwrite
<1> QED  BY <1>2, <1>3

\* Requests that are one call keep the types.
LEMMA CallTypes ==
    ASSUME TypeOK, OneCall
    PROVE  TypeOK'
<1> USE DEF TypeOK, StoreTypeOK
<1>1. PICK f \in Files : \/ Mknod(f)
                         \/ Open(f)
                         \/ Release(f)
                         \/ Truncate(BaseName(f))
                         \/ Unlink(f)
                         \/ \E g \in Files : Rename(f, g)
  BY DEF OneCall
<1>2. UNCHANGED <<daemon, workerVars>>
  BY DEF OneCall
<1>3. CASE Mknod(f)
  BY <1>2, <1>3, EmptyTyped, NamesTyped DEF Mknod
<1>4. CASE Open(f)
  BY <1>2, <1>4 DEF Open
<1>5. CASE Release(f)
  BY <1>2, <1>5 DEF Release
<1>6. CASE Truncate(BaseName(f))
  BY <1>2, <1>6, ChangeTyped, NamesTyped DEF Truncate
<1>7. CASE Unlink(f)
  BY <1>2, <1>7, NamesTyped DEF Unlink, Orphan
<1>8. CASE \E g \in Files : Rename(f, g)
  BY <1>2, <1>8, NamesTyped DEF Rename
<1> QED  BY <1>1, <1>3, <1>4, <1>5, <1>6, <1>7, <1>8

\* So do clients that open a version file under its own name.
LEMMA ByNameTypes ==
    ASSUME TypeOK, NEW f \in Files, NEW n \in Versions, VersionByName(f, n)
    PROVE  TypeOK'
<1> USE DEF TypeOK, VersionByName
<1>1. VersionName(f, n) \in Names
  BY NamesTyped
<1>2. CASE Overwrite(VersionName(f, n)) \/ Truncate(VersionName(f, n))
  BY <1>1, <1>2, ChangeTyped
<1>3. CASE UnlinkName(VersionName(f, n))
  BY <1>1, <1>3 DEF UnlinkName, Orphan, StoreTypeOK
<1> QED  BY <1>2, <1>3

\* So does every step of a handler: the scan needs that there is room for a
\* version, the copies need that their source and target are names.
LEMMA StepTypes ==
    ASSUME TypeOK, ControlOK, RoomForVersion, VersionChosen, OpenNamesExist,
           NEW t \in Threads, Step(t)
    PROVE  TypeOK'
<1> USE DEF TypeOK, StoreTypeOK
<1>1. CASE Return(t)
  BY <1>1, BoundsAssumption DEF Return, PC, Replies
<1>2. CASE Scan(t)
  <2>1. req[t] \in Requests /\ req[t].file \in Files
    BY <1>2, BusyTyped, RequestTyped DEF Scan
  <2>2. MaxVersion \notin RelatedVersions(req[t].file)
    BY <1>2 DEF Scan, RoomForVersion, RelatedVersions
  <2>3. PICK n \in 0..MaxVersion : /\ IsMaxVersion(req[t].file, n)
                                   /\ ver' = [ver EXCEPT ![t] = n + 1]
    BY <1>2 DEF Scan
  <2>4. n # MaxVersion
    BY <2>2, <2>3, BoundsAssumption DEF IsMaxVersion
  <2> QED
    BY <1>2, <2>3, <2>4, BoundsAssumption DEF Scan, PC, WritePC
<1>3. CASE WriteOpen(t)
  <2>1. req[t].file \in Files
    BY <1>3, BusyTyped, RequestTyped DEF WriteOpen
  <2> QED
    BY <1>3, <2>1, NamesTyped
    DEF WriteOpen, OpenForWrite, PC, WritePC, CopyPC, Replies
<1>4. CASE WritePwrite(t)
  <2>1. req[t] \in Requests /\ req[t].op = "write"
    BY <1>4, BusyTyped DEF WritePwrite, ControlOK, WritePC
  <2>2. req[t].block \in Blocks /\ req[t].datum \in Data
    BY <2>1, RequestTyped
  <2>3. CASE handle[t] = NoName \/ CloseHandle(t)
    BY <1>4, <2>3
    DEF WritePwrite, PwriteBlock, CloseHandle, PC, CopyPC, Replies
  <2>4. CASE handle[t] # NoName /\ PwriteBlock(t, req[t].block, req[t].datum)
    <3>1. handle[t] \in Names /\ store[handle[t]] \in Content
      BY <2>4 DEF OpenNamesExist, Exists
    <3>2. [store[handle[t]] EXCEPT ![req[t].block] = req[t].datum] \in Content
      BY <2>2, <3>1, ContentTyped
    <3>3. store' = [store EXCEPT ![handle[t]] =
                      [@ EXCEPT ![req[t].block] = req[t].datum]]
      BY <2>4 DEF PwriteBlock
    <3>4. store' \in [Names -> Content \union {Absent}]
      BY <3>1, <3>2, <3>3
    <3> QED
      BY <1>4, <2>4, <3>4 DEF WritePwrite, PwriteBlock, PC, CopyPC, Replies
  <2> QED
    BY <1>4, <2>3, <2>4 DEF WritePwrite
<1>5. CASE Copy(t)
  <2>1. CopySource(t) \in Names /\ CopyTarget(t) \in Names
    BY <1>5, CopyTyped DEF Copy, CopyPC
  <2>2. CASE CopyThrows(CopySource(t), CopyTarget(t)) /\ Throw(t)
    BY <2>2, ThrowTyped
  <2>3. CASE /\ CopyOpen(t, CopySource(t), CopyTarget(t))
             /\ Goto(t, "copyFill")
             /\ UNCHANGED <<daemon, req, ver, todo, reply>>
    BY <2>1, <2>3, EmptyTyped DEF CopyOpen, CopyThrows, Exists, PC, CopyPC
  <2> QED  BY <1>5, <2>2, <2>3 DEF Copy
<1>6. CASE CopyData(t)
  <2>1. CASE Throw(t)
    BY <2>1, ThrowTyped
  <2>2. CASE /\ CopyFill(t)
             /\ Goto(t, "copyTouch")
             /\ UNCHANGED <<daemon, req, ver, todo, reply>>
    BY <2>2, EmptyTyped DEF CopyFill, PC, CopyPC
  <2> QED  BY <1>6, <2>1, <2>2 DEF CopyData
<1>7. CASE CopyTouch(t)
  <2>1. CopyTarget(t) \in Names
    BY <1>7, CopyTyped DEF CopyTouch, CopyPC
  <2> QED
    BY <1>7, <2>1, EmptyTyped DEF CopyTouch, TouchName, Answer, PC, Replies
<1>8. CASE HookCheck(t)
  BY <1>8 DEF HookCheck, FirstStep, Answer, PC, HookPC, Replies
<1>9. CASE RestoreUnlink(t)
  BY <1>9 DEF RestoreUnlink, UnlinkName, Orphan, PC, CopyPC
<1>10. CASE DeleteVersion(t)
  BY <1>10 DEF DeleteVersion, UnlinkName, Orphan, Answer, PC, Replies
<1>11. CASE ReadNames(t)
  BY <1>11 DEF ReadNames, RelatedVersions, PC, HookPC, Replies
<1>12. CASE UnlinkVersions(t)
  <2>1. ASSUME NEW n \in todo[t],
               UnlinkName(VersionName(req[t].file, n)),
               todo' = [todo EXCEPT ![t] = @ \ {n}],
               UNCHANGED <<daemon, pc, req, ver, reply>>
        PROVE  TypeOK'
    <3>1. todo' \in [Threads -> SUBSET Versions]
      BY <2>1
    <3>2. store' \in [Names -> Content \union {Absent}]
      BY <2>1 DEF UnlinkName
    <3>3. handle' \in [Threads -> Names \union {NoName}]
      BY <2>1 DEF UnlinkName, Orphan
    <3> QED  BY <2>1, <3>1, <3>2, <3>3 DEF UnlinkName
  <2>2. CASE /\ Goto(t, "unlinkFile")
             /\ UNCHANGED <<storeVars, daemon, req, ver, todo, reply>>
    BY <2>2 DEF PC, HookPC
  <2> QED  BY <1>12, <2>1, <2>2 DEF UnlinkVersions
<1>13. CASE UnlinkFile(t)
  BY <1>13 DEF UnlinkFile, UnlinkName, Orphan, PC, HookPC
<1>14. CASE UnlinkAgain(t)
  BY <1>14 DEF UnlinkAgain, UnlinkName, Orphan, Answer, PC, Replies
<1> QED
  BY <1>1, <1>2, <1>3, <1>4, <1>5, <1>6, <1>7, <1>8, <1>9, <1>10, <1>11,
     <1>12, <1>13, <1>14 DEF Step

\* Every step from a state of the invariant keeps the types.
LEMMA TypeStep ==
    ASSUME IInv, Next
    PROVE  TypeOK'
<1> USE DEF IInv
<1>1. ASSUME NEW t \in Threads, NEW f \in Files, BeginWrite(t, f)
      PROVE  TypeOK'
  <2>1. PICK b \in Blocks, d \in Data :
          Begin(t, [op |-> "write", file |-> f, block |-> b, datum |-> d], "scan")
    BY <1>1 DEF BeginWrite
  <2>2. [op |-> "write", file |-> f, block |-> b, datum |-> d] \in Requests
    BY DEF Requests, WriteReq
  <2> QED  BY <2>1, <2>2, BeginTyped DEF PC, WritePC
<1>2. ASSUME NEW t \in Threads, NEW f \in Files, BeginHook(t, f)
      PROVE  TypeOK'
  <2>1. PICK r \in Requests : Begin(t, r, "check")
    BY <1>2 DEF BeginHook, Requests, VersionedReq, UnversionedReq
  <2> QED  BY <2>1, BeginTyped DEF PC, HookPC
<1>3. ASSUME NEW t \in Threads, Step(t)
      PROVE  TypeOK'
  BY <1>3, StepTypes
<1>4. CASE OneCall
  BY <1>4, CallTypes
<1>5. CASE Kill
  BY <1>5, StopTyped DEF Kill
<1>6. CASE Remount
  BY <1>6 DEF Remount, TypeOK, StoreTypeOK
<1>7. ASSUME NEW f \in Files, NEW n \in Versions, VersionByName(f, n)
      PROVE  TypeOK'
  BY <1>7, ByNameTypes
<1> QED  BY <1>1, <1>2, <1>3, <1>4, <1>5, <1>6, <1>7 DEF Next
-----------------------------------------------------------------------------
(* Control *)

\* A handler goes from label to label as its request asks, and starts no write.
LEMMA StepControl ==
    ASSUME TypeOK, ControlOK, OneWriter, NEW t \in Threads, Step(t)
    PROVE  ControlOK' /\ OneWriter'
<1> USE DEF TypeOK, ControlOK, OneWriter, IsWriter, Busy,
            WritePC, CopyPC
<1> USE RequestTyped, NoRequestAssumption
<1>1. CASE Return(t)
  BY <1>1 DEF Return
<1>2. CASE Scan(t)
  BY <1>2 DEF Scan
<1>3. CASE WriteOpen(t)
  BY <1>3 DEF WriteOpen
<1>4. CASE WritePwrite(t)
  BY <1>4 DEF WritePwrite
<1>5. CASE Copy(t)
  BY <1>5 DEF Copy, Throw, Stop, Answer
<1>6. CASE CopyData(t)
  BY <1>6 DEF CopyData, Throw, Stop, Answer
<1>7. CASE CopyTouch(t)
  BY <1>7 DEF CopyTouch, Answer
<1>8. CASE HookCheck(t)
  BY <1>8 DEF HookCheck, FirstStep, Answer
<1>9. CASE RestoreUnlink(t)
  BY <1>9 DEF RestoreUnlink
<1>10. CASE DeleteVersion(t)
  BY <1>10 DEF DeleteVersion, Answer
<1>11. CASE ReadNames(t)
  BY <1>11 DEF ReadNames
<1>12. CASE UnlinkVersions(t)
  <2>1. UNCHANGED pc \/ Goto(t, "unlinkFile")
    BY <1>12 DEF UnlinkVersions
  <2> QED  BY <1>12, <2>1 DEF UnlinkVersions
<1>13. CASE UnlinkFile(t)
  BY <1>13 DEF UnlinkFile
<1>14. CASE UnlinkAgain(t)
  BY <1>14 DEF UnlinkAgain, Answer
<1> QED
  BY <1>1, <1>2, <1>3, <1>4, <1>5, <1>6, <1>7, <1>8, <1>9, <1>10, <1>11,
     <1>12, <1>13, <1>14 DEF Step

\* Every step keeps labels and requests together and one writer for each file.
LEMMA ControlStep ==
    ASSUME IInv, Next
    PROVE  ControlOK' /\ OneWriter'
<1> USE DEF IInv, TypeOK, ControlOK, OneWriter, IsWriter, Busy, WritePC, CopyPC
<1>1. ASSUME NEW t \in Threads, NEW f \in Files, BeginWrite(t, f)
      PROVE  ControlOK' /\ OneWriter'
  <2>1. PICK b \in Blocks, d \in Data :
          Begin(t, [op |-> "write", file |-> f, block |-> b, datum |-> d], "scan")
    BY <1>1 DEF BeginWrite
  <2>2. [op |-> "write", file |-> f, block |-> b, datum |-> d] # NoRequest
    BY NoRequestAssumption DEF Requests, WriteReq
  <2> QED  BY <1>1, <2>1, <2>2 DEF BeginWrite, Begin, Writing
<1>2. ASSUME NEW t \in Threads, NEW f \in Files, BeginHook(t, f)
      PROVE  ControlOK' /\ OneWriter'
  <2>1. PICK r \in Requests : r.op # "write" /\ Begin(t, r, "check")
    BY <1>2 DEF BeginHook, Requests, VersionedReq, UnversionedReq
  <2> QED  BY <2>1, NoRequestAssumption DEF Begin
<1>3. ASSUME NEW t \in Threads, Step(t)
      PROVE  ControlOK' /\ OneWriter'
  BY <1>3, StepControl
<1>4. CASE OneCall
  BY <1>4 DEF OneCall
<1>5. CASE Kill
  BY <1>5 DEF Kill, Stop
<1>6. CASE Remount
  BY <1>6 DEF Remount
<1>7. CASE \E f \in Files, n \in Versions : VersionByName(f, n)
  BY <1>7 DEF VersionByName
<1> QED  BY <1>1, <1>2, <1>3, <1>4, <1>5, <1>6, <1>7 DEF Next

-----------------------------------------------------------------------------
(* Open descriptors *)

\* A handler's step leaves no descriptor behind that claims a missing name.
LEMMA StepNames ==
    ASSUME TypeOK, ControlOK, VersionChosen, OpenNamesExist,
           NEW t \in Threads, Step(t)
    PROVE  OpenNamesExist'
<1> USE DEF TypeOK, StoreTypeOK, OpenNamesExist, Exists
<1>1. CASE Return(t)
  BY <1>1 DEF Return
<1>2. CASE Scan(t)
  BY <1>2 DEF Scan
<1>3. CASE WriteOpen(t)
  BY <1>3 DEF WriteOpen, OpenForWrite
<1>4. CASE WritePwrite(t)
  <2>1. CASE CloseHandle(t)
    BY <2>1 DEF CloseHandle
  <2>2. CASE PwriteBlock(t, req[t].block, req[t].datum)
    <3>1. req[t] \in Requests /\ req[t].op = "write"
      BY <1>4, BusyTyped DEF WritePwrite, ControlOK, WritePC
    <3>2. req[t].block \in Blocks /\ req[t].datum \in Data
      BY <3>1, RequestTyped
    <3> QED
      BY <2>2, <3>2, ContentTyped, SentinelAssumption DEF PwriteBlock
  <2> QED  BY <1>4, <2>1, <2>2 DEF WritePwrite
<1>5. CASE Copy(t)
  <2>1. CopyTarget(t) \in Names
    BY <1>5, CopyTyped DEF Copy, CopyPC
  <2>2. CASE CopyOpen(t, CopySource(t), CopyTarget(t))
    BY <2>1, <2>2, EmptyTyped, SentinelAssumption DEF CopyOpen
  <2>3. CASE Throw(t)
    BY <2>3 DEF Throw, Stop
  <2> QED  BY <1>5, <2>2, <2>3 DEF Copy
<1>6. CASE CopyData(t)
  <2>1. CASE CopyFill(t)
    BY <2>1, SentinelAssumption DEF CopyFill
  <2>2. CASE Throw(t)
    BY <2>2 DEF Throw, Stop
  <2> QED  BY <1>6, <2>1, <2>2 DEF CopyData
<1>7. CASE CopyTouch(t)
  <2>1. CopyTarget(t) \in Names
    BY <1>7, CopyTyped DEF CopyTouch, CopyPC
  <2> QED
    BY <1>7, <2>1, EmptyTyped, SentinelAssumption DEF CopyTouch, TouchName
<1>8. CASE HookCheck(t)
  BY <1>8 DEF HookCheck
<1>9. CASE RestoreUnlink(t)
  BY <1>9 DEF RestoreUnlink, UnlinkName, Orphan
<1>10. CASE DeleteVersion(t)
  BY <1>10 DEF DeleteVersion, UnlinkName, Orphan
<1>11. CASE ReadNames(t)
  BY <1>11 DEF ReadNames
<1>12. CASE UnlinkVersions(t)
  <2>1. ASSUME NEW n \in todo[t], UnlinkName(VersionName(req[t].file, n))
        PROVE  OpenNamesExist'
    BY <2>1 DEF UnlinkName, Orphan
  <2>2. CASE UNCHANGED storeVars
    BY <2>2
  <2> QED  BY <1>12, <2>1, <2>2 DEF UnlinkVersions
<1>13. CASE UnlinkFile(t)
  BY <1>13 DEF UnlinkFile, UnlinkName, Orphan
<1>14. CASE UnlinkAgain(t)
  BY <1>14 DEF UnlinkAgain, UnlinkName, Orphan
<1> QED
  BY <1>1, <1>2, <1>3, <1>4, <1>5, <1>6, <1>7, <1>8, <1>9, <1>10, <1>11,
     <1>12, <1>13, <1>14 DEF Step

\* Neither does any other step: unlink and rename take descriptors with them.
LEMMA NamesStep ==
    ASSUME IInv, Next
    PROVE  OpenNamesExist'
<1> USE DEF IInv, TypeOK, StoreTypeOK, OpenNamesExist, Exists
<1>1. ASSUME NEW t \in Threads, NEW f \in Files,
             BeginWrite(t, f) \/ BeginHook(t, f)
      PROVE  OpenNamesExist'
  BY <1>1 DEF BeginWrite, BeginHook, Begin
<1>2. ASSUME NEW t \in Threads, Step(t)
      PROVE  OpenNamesExist'
  BY <1>2, StepNames
<1>3. CASE OneCall
  <2>1. PICK f \in Files : \/ Mknod(f)
                           \/ Open(f)
                           \/ Release(f)
                           \/ Truncate(BaseName(f))
                           \/ Unlink(f)
                           \/ \E g \in Files : Rename(f, g)
    BY <1>3 DEF OneCall
  <2>2. CASE Mknod(f)
    BY <2>2, EmptyTyped, SentinelAssumption, NamesTyped DEF Mknod
  <2>3. CASE Open(f) \/ Release(f)
    BY <2>3 DEF Open, Release
  <2>4. CASE Truncate(BaseName(f))
    <3>1. PICK c \in Content : store' = [store EXCEPT ![BaseName(f)] = c]
      BY <2>4, ChangeTyped, NamesTyped
    <3> QED  BY <2>4, <3>1, SentinelAssumption DEF Truncate
  <2>5. CASE Unlink(f)
    BY <2>5, NamesTyped DEF Unlink, Orphan
  <2>6. CASE \E g \in Files : Rename(f, g)
    BY <2>6, NamesTyped, SentinelAssumption DEF Rename
  <2> QED  BY <2>1, <2>2, <2>3, <2>4, <2>5, <2>6
<1>4. CASE Kill
  BY <1>4 DEF Kill, Stop
<1>5. CASE Remount
  BY <1>5 DEF Remount
<1>6. ASSUME NEW f \in Files, NEW n \in Versions, VersionByName(f, n)
      PROVE  OpenNamesExist'
  <2>1. VersionName(f, n) \in Names
    BY NamesTyped
  <2>2. CASE Overwrite(VersionName(f, n)) \/ Truncate(VersionName(f, n))
    <3>1. PICK c \in Content : store' = [store EXCEPT ![VersionName(f, n)] = c]
      BY <2>1, <2>2, ChangeTyped
    <3> QED  BY <2>2, <3>1, SentinelAssumption DEF Overwrite, Truncate
  <2>3. CASE UnlinkName(VersionName(f, n))
    BY <2>1, <2>3 DEF UnlinkName, Orphan
  <2> QED  BY <1>6, <2>2, <2>3 DEF VersionByName
<1> QED  BY <1>1, <1>2, <1>3, <1>4, <1>5, <1>6 DEF Next

-----------------------------------------------------------------------------
(* Version numbers *)

BeforeCopy == {"openForWrite", "pwrite", "copyOpen"}
AfterCopy == {"copyFill", "copyTouch"}

\* A version file appears only where a write creates it: in its copy, or in
\* the touch after it when somebody has deleted it in between.
Creates(t, f, n) ==
    /\ pc[t] \in {"copyOpen", "copyTouch"}
    /\ pc'[t] \notin BeforeCopy
    /\ req[t].op = "write"
    /\ req[t].file = f
    /\ ver[t] = n

\* Only the copy of a write creates a version file: get_max_version has chosen
\* its number (write).
LEMMA StepCreates ==
    ASSUME TypeOK, ControlOK, VersionChosen, OpenNamesExist,
           NEW t \in Threads, Step(t),
           NEW f \in Files, NEW n \in Versions, ~Exists(VersionName(f, n)),
           store'[VersionName(f, n)] # Absent
    PROVE  Creates(t, f, n)
<1> USE DEF TypeOK, StoreTypeOK, Exists, BeforeCopy
<1>0. <<f, n>> \in Names
  BY NamesTyped
<1>1. CASE Copy(t)
  <2>1. CopyTarget(t) = <<f, n>> /\ CopyTarget(t) \in Names
    BY <1>0, <1>1, CopyTyped DEF Copy, CopyOpen, Throw, Stop, CopyPC
  <2> QED
    BY <1>1, <2>1, BoundsAssumption
    DEF Copy, CopyTarget, Creates, Versions, Throw, Stop, Answer
<1>2. CASE CopyTouch(t)
  <2>1. CopyTarget(t) = <<f, n>> /\ CopyTarget(t) \in Names
    BY <1>0, <1>2, CopyTyped DEF CopyTouch, TouchName, CopyPC
  <2> QED
    BY <1>2, <2>1, BoundsAssumption
    DEF CopyTouch, CopyTarget, Creates, Versions, Answer
<1>3. CASE WritePwrite(t) \/ CopyData(t)
  <2>1. handle[t] # <<f, n>>
    BY <1>0, SentinelAssumption DEF OpenNamesExist
  <2>2. \/ store' = store
        \/ \E c : store' = [store EXCEPT ![handle[t]] = c]
    BY <1>3 DEF WritePwrite, PwriteBlock, CloseHandle, CopyData, CopyFill, Throw,
                Stop
  <2> QED  BY <1>0, <2>1, <2>2
<1>4. CASE RestoreUnlink(t) \/ UnlinkFile(t) \/ UnlinkAgain(t)
  BY <1>0, <1>4 DEF RestoreUnlink, UnlinkFile, UnlinkAgain, UnlinkName
<1>5. CASE DeleteVersion(t)
  BY <1>0, <1>5 DEF DeleteVersion, UnlinkName
<1>6. CASE UnlinkVersions(t)
  <2>1. ASSUME NEW m \in todo[t], UnlinkName(VersionName(req[t].file, m))
        PROVE  FALSE
    BY <1>0, <2>1 DEF UnlinkName
  <2> QED  BY <1>6, <2>1 DEF UnlinkVersions
<1>7. CASE Return(t) \/ Scan(t) \/ WriteOpen(t) \/ HookCheck(t) \/ ReadNames(t)
  BY <1>7 DEF Return, Scan, WriteOpen, OpenForWrite, HookCheck, ReadNames
<1> QED
  BY <1>1, <1>2, <1>3, <1>4, <1>5, <1>6, <1>7 DEF Step

\* Requests that are one call leave the version files alone.
LEMMA CallsKeepVersions ==
    ASSUME TypeOK, OneCall, NEW f \in Files, NEW n \in Versions
    PROVE  store'[VersionName(f, n)] = store[VersionName(f, n)]
<1>1. PICK g \in Files : \/ Mknod(g)
                         \/ Open(g)
                         \/ Release(g)
                         \/ Truncate(BaseName(g))
                         \/ Unlink(g)
                         \/ \E h \in Files : Rename(g, h)
  BY DEF OneCall
<1>2. <<f, n>> \in Names /\ n # 0
  BY NamesTyped DEF Versions
<1>3. CASE \E h \in Files : Rename(g, h)
  <2>1. PICK h \in Files : Rename(g, h)
    BY <1>3
  <2>2. <<f, n>> # BaseName(g) /\ <<f, n>> # BaseName(h)
    BY <1>2
  <2> QED  BY <1>2, <2>1, <2>2 DEF TypeOK, StoreTypeOK, Rename
<1>4. CASE Truncate(BaseName(g))
  <2>1. \E c : store' = [store EXCEPT ![BaseName(g)] = c]
    BY <1>4 DEF Truncate
  <2> QED  BY <1>2, <2>1 DEF TypeOK, StoreTypeOK
<1> QED
  BY <1>1, <1>2, <1>3, <1>4
  DEF TypeOK, StoreTypeOK, Mknod, Open, Release, Unlink

\* A version file that appears in a step has been created by such a copy.
LEMMA VersionCreated ==
    ASSUME IInv, Next,
           NEW f \in Files, NEW n \in Versions, ~Exists(VersionName(f, n)),
           store'[VersionName(f, n)] # Absent
    PROVE  \E t \in Threads : Step(t) /\ Creates(t, f, n)
<1> USE DEF IInv, Exists
<1>1. ASSUME NEW t \in Threads, NEW g \in Files,
             BeginWrite(t, g) \/ BeginHook(t, g)
      PROVE  FALSE
  BY <1>1 DEF BeginWrite, BeginHook, Begin
<1>2. CASE OneCall
  BY <1>2, CallsKeepVersions
<1>3. CASE Kill \/ Remount
  BY <1>3 DEF Kill, Stop, Remount
<1>4. ASSUME NEW g \in Files, NEW m \in Versions, VersionByName(g, m)
      PROVE  FALSE
  <2>1. \E c : store' = [store EXCEPT ![VersionName(g, m)] = c]
    BY <1>4 DEF VersionByName, Overwrite, Truncate, UnlinkName
  <2>2. CASE <<g, m>> = <<f, n>>
    BY <1>4, <2>2 DEF VersionByName
  <2>3. CASE <<g, m>> # <<f, n>>
    BY <2>1, <2>3, NamesTyped DEF TypeOK, StoreTypeOK
  <2> QED  BY <2>2, <2>3
<1> QED  BY <1>1, <1>2, <1>3, <1>4, StepCreates DEF Next

\* What a step does to a worker that is in a write after it.
Starts(t) == /\ pc[t] = "idle"
             /\ ~Exists(VersionName(req'[t].file, MaxVersion))
             /\ pc'[t] = "scan"
             /\ UNCHANGED store

Chooses(t) == /\ Scan(t)
              /\ pc'[t] = "openForWrite"

GoesOn(t) == /\ UNCHANGED <<req[t], ver[t]>>
             /\ \/ pc[t] = "scan" /\ pc'[t] = "scan"
                \/ pc[t] \in BeforeCopy /\ pc'[t] \in BeforeCopy
                \/ pc[t] \in AfterCopy /\ pc'[t] \in AfterCopy
                \/ pc[t] = "copyOpen" /\ pc'[t] = "copyFill"

InWrite(t) == /\ pc[t] \in {"scan"} \union BeforeCopy \union AfterCopy
              /\ req[t].op = "write"

\* A worker that is inside a write has just started it, has just chosen its
\* version, or was inside it with the same version before.
LEMMA WriterMoves ==
    ASSUME IInv, Next, NEW u \in Threads, InWrite(u)'
    PROVE  Starts(u) \/ Chooses(u) \/ GoesOn(u)
<1> USE DEF IInv, TypeOK, ControlOK, InWrite, BeforeCopy, AfterCopy
<1>1. ASSUME NEW t \in Threads, NEW f \in Files, BeginWrite(t, f)
      PROVE  Starts(u) \/ GoesOn(u)
  BY <1>1 DEF BeginWrite, Begin, Starts, GoesOn
<1>2. ASSUME NEW t \in Threads, NEW f \in Files, BeginHook(t, f)
      PROVE  GoesOn(u)
  BY <1>2 DEF BeginHook, Begin, GoesOn
<1>3. ASSUME NEW t \in Threads, Step(t)
      PROVE  Chooses(u) \/ GoesOn(u)
  <2>1. CASE u # t
    BY <1>3, <2>1 DEF GoesOn, Step, Return, Scan, WriteOpen, WritePwrite, Copy,
      CopyData, CopyTouch, HookCheck, RestoreUnlink, DeleteVersion, ReadNames,
      UnlinkVersions, UnlinkFile, UnlinkAgain, Answer, Throw, Stop
  <2>2. CASE u = t
    BY <1>3, <2>2 DEF GoesOn, Chooses, Step, Return, Scan, WriteOpen,
      WritePwrite, Copy, CopyData, CopyTouch, HookCheck, RestoreUnlink,
      DeleteVersion, ReadNames, UnlinkVersions, UnlinkFile, UnlinkAgain, Answer,
      Throw, Stop, FirstStep
  <2> QED  BY <2>1, <2>2
<1>4. CASE \/ OneCall
           \/ Remount
           \/ \E f \in Files, n \in Versions : VersionByName(f, n)
  BY <1>4 DEF OneCall, Remount, VersionByName, GoesOn
<1>5. CASE Kill
  BY <1>5 DEF Kill, Stop
<1> QED  BY <1>1, <1>2, <1>3, <1>4, <1>5 DEF Next

\* While a file is being written, only its writer creates a version of it.
LEMMA OnlyWriterCreates ==
    ASSUME IInv, Next, NEW u \in Threads, InWrite(u), NEW n \in Versions,
           ~Exists(VersionName(req[u].file, n)),
           store'[VersionName(req[u].file, n)] # Absent
    PROVE  Creates(u, req[u].file, n)
<1>1. req[u] \in Requests /\ req[u] # NoRequest
  BY BusyTyped, NoRequestAssumption DEF InWrite, IInv, BeforeCopy, AfterCopy
<1>2. PICK t \in Threads : Creates(t, req[u].file, n)
  BY <1>1, RequestTyped, VersionCreated
<1>3. req[t] \in Requests /\ req[t] # NoRequest
  BY <1>2, BusyTyped, NoRequestAssumption DEF Creates, IInv
<1>4. t = u
  BY <1>1, <1>2, <1>3 DEF Creates, InWrite, IInv, OneWriter, IsWriter, Busy
<1> QED  BY <1>2, <1>4

\* Every step keeps the four facts about version numbers: a number once chosen
\* stays larger than every version of its file until its copy exists.
LEMMA VersionStep ==
    ASSUME IInv, Next
    PROVE  /\ RoomForVersion'
           /\ VersionChosen'
           /\ NewVersionIsFresh'
           /\ NewVersionIsLast'
<1> USE DEF IInv, BeforeCopy, AfterCopy
<1>1. ASSUME NEW u \in Threads, Chooses(u)
      PROVE  /\ UNCHANGED <<store, req>>
             /\ ver'[u] \in Versions
             /\ \A m \in RelatedVersions(req[u].file) : m < ver'[u]
  <2>1. PICK n \in 0..MaxVersion : /\ IsMaxVersion(req[u].file, n)
                                   /\ ver' = [ver EXCEPT ![u] = n + 1]
    BY <1>1 DEF Chooses, Scan
  <2>2. MaxVersion \notin RelatedVersions(req[u].file)
    BY <1>1 DEF Chooses, Scan, RoomForVersion, RelatedVersions
  <2>3. n # MaxVersion
    BY <2>1, <2>2, BoundsAssumption DEF IsMaxVersion
  <2>4. ver'[u] = n + 1
    BY <2>1 DEF TypeOK
  <2> QED
    BY <1>1, <2>1, <2>3, <2>4, BoundsAssumption
    DEF Chooses, Scan, IsMaxVersion, RelatedVersions, Versions
<1>2. ASSUME NEW u \in Threads, InWrite(u)', GoesOn(u)
      PROVE  /\ InWrite(u) /\ req'[u] = req[u] /\ ver'[u] = ver[u]
             /\ \A m \in RelatedVersions(req[u].file)' :
                  m \in RelatedVersions(req[u].file) \/ Creates(u, req[u].file, m)
  <2>1. InWrite(u) /\ req'[u] = req[u] /\ ver'[u] = ver[u]
    BY <1>2 DEF InWrite, GoesOn
  <2> QED  BY <2>1, OnlyWriterCreates DEF RelatedVersions, Exists
<1>3. RoomForVersion'
  <2> SUFFICES ASSUME NEW u \in Threads, pc'[u] = "scan"
               PROVE  ~Exists(VersionName(req[u].file, MaxVersion))'
    BY DEF RoomForVersion
  <2>1. InWrite(u)' /\ ~Chooses(u)
    BY ControlStep DEF InWrite, Chooses, ControlOK, WritePC
  <2>2. CASE Starts(u)
    BY <2>2 DEF Starts, Exists
  <2>3. CASE GoesOn(u)
    <3>1. pc[u] = "scan" /\ MaxVersion \notin RelatedVersions(req[u].file)
      BY <2>3 DEF GoesOn, RoomForVersion, RelatedVersions
    <3>2. MaxVersion \notin RelatedVersions(req[u].file)'
      BY <1>2, <2>1, <2>3, <3>1 DEF Creates
    <3> QED
      BY <1>2, <2>1, <2>3, <3>2, BoundsAssumption
      DEF RelatedVersions, Exists, Versions
  <2> QED  BY <2>1, <2>2, <2>3, WriterMoves
<1>4. ASSUME NEW u \in Threads, InWrite(u)', pc'[u] \in BeforeCopy
      PROVE  /\ ver'[u] \in Versions
             /\ \A m \in RelatedVersions(req[u].file)' : m < ver'[u]
  <2>1. Chooses(u) \/ GoesOn(u)
    BY <1>4, WriterMoves DEF Starts
  <2>2. CASE Chooses(u)
    BY <1>1, <2>2 DEF RelatedVersions, Exists
  <2>3. CASE GoesOn(u)
    BY <1>2, <1>4, <2>3
    DEF GoesOn, Creates, InWrite, VersionChosen, NewVersionIsFresh
  <2> QED  BY <2>1, <2>2, <2>3
<1>5. ASSUME NEW u \in Threads, InWrite(u)', pc'[u] \in AfterCopy
      PROVE  /\ ver'[u] \in Versions
             /\ \A m \in RelatedVersions(req[u].file)' : m <= ver'[u]
  <2>1. GoesOn(u)
    BY <1>5, WriterMoves DEF Starts, Chooses
  <2>2. InWrite(u) /\ ver[u] \in Versions
    BY <1>2, <1>5, <2>1 DEF GoesOn, InWrite, VersionChosen
  <2>3. \A m \in RelatedVersions(req[u].file) : m <= ver[u]
    BY <1>5, <2>1, <2>2, BoundsAssumption
    DEF GoesOn, InWrite, NewVersionIsFresh, NewVersionIsLast, RelatedVersions,
        Versions
  <2> QED
    BY <1>2, <1>5, <2>1, <2>2, <2>3, BoundsAssumption DEF Creates, Versions
<1>6. VersionChosen'
  BY <1>4, <1>5 DEF VersionChosen, InWrite
<1>7. NewVersionIsFresh'
  BY <1>4 DEF NewVersionIsFresh, InWrite
<1>8. NewVersionIsLast'
  BY <1>5 DEF NewVersionIsLast, InWrite
<1> QED  BY <1>3, <1>6, <1>7, <1>8

-----------------------------------------------------------------------------
(* Stored versions *)

\* A complete version file changes only by a delete of it.
Safe(f, n) ==
    LET x == VersionName(f, n) IN
    (Exists(x) /\ \A t \in Threads : handle[t] # x)
    => \/ store'[x] = store[x]
       \/ store'[x] = Absent /\ \E t \in Threads : Deletes(t, f, n)
       \/ VersionByName(f, n)

\* A handler's step leaves complete version files alone, a delete excepted.
LEMMA StepKeepsVersions ==
    ASSUME IInv, NEW t \in Threads, Step(t), NEW f \in Files, NEW n \in Versions
    PROVE  Safe(f, n)
<1> DEFINE x == VersionName(f, n)
<1> USE DEF IInv, TypeOK, StoreTypeOK, Exists
<1> SUFFICES ASSUME Exists(x), \A u \in Threads : handle[u] # x
             PROVE  \/ store'[x] = store[x]
                    \/ store'[x] = Absent /\ Deletes(t, f, n)
  BY DEF Safe
<1>1. x \in Names /\ n # 0
  BY NamesTyped DEF Versions
<1>2. CASE Copy(t)
  BY <1>1, <1>2 DEF Copy, CopyOpen, CopyThrows, Throw, Stop
<1>3. CASE CopyTouch(t)
  BY <1>3 DEF CopyTouch, TouchName
<1>4. CASE WritePwrite(t) \/ CopyData(t)
  <2>1. \/ store' = store
        \/ \E c : store' = [store EXCEPT ![handle[t]] = c]
    BY <1>4 DEF WritePwrite, PwriteBlock, CloseHandle, CopyData, CopyFill, Throw,
                Stop
  <2> QED  BY <1>1, <2>1
<1>5. CASE RestoreUnlink(t) \/ UnlinkFile(t) \/ UnlinkAgain(t)
  BY <1>1, <1>5 DEF RestoreUnlink, UnlinkFile, UnlinkAgain, UnlinkName
<1>6. CASE DeleteVersion(t)
  BY <1>1, <1>6 DEF DeleteVersion, UnlinkName, Deletes
<1>7. CASE UnlinkVersions(t)
  <2>1. ASSUME NEW m \in todo[t], UnlinkName(VersionName(req[t].file, m))
        PROVE  \/ store'[x] = store[x]
               \/ store'[x] = Absent /\ Deletes(t, f, n)
    BY <1>1, <1>7, <2>1 DEF UnlinkVersions, UnlinkName, Deletes
  <2> QED  BY <1>7, <2>1 DEF UnlinkVersions
<1>8. CASE Return(t) \/ Scan(t) \/ WriteOpen(t) \/ HookCheck(t) \/ ReadNames(t)
  BY <1>8 DEF Return, Scan, WriteOpen, OpenForWrite, HookCheck, ReadNames
<1> QED
  BY <1>2, <1>3, <1>4, <1>5, <1>6, <1>7, <1>8 DEF Step

\* So does every step, except a client that changes the version by its name.
LEMMA NextKeepsVersions ==
    ASSUME IInv, Next, NEW f \in Files, NEW n \in Versions
    PROVE  Safe(f, n)
<1>1. ASSUME NEW t \in Threads, NEW g \in Files,
             BeginWrite(t, g) \/ BeginHook(t, g)
      PROVE  UNCHANGED store
  BY <1>1 DEF BeginWrite, BeginHook, Begin
<1>2. ASSUME OneCall
      PROVE  store'[VersionName(f, n)] = store[VersionName(f, n)]
  BY <1>2, CallsKeepVersions DEF IInv
<1>3. ASSUME Kill \/ Remount
      PROVE  UNCHANGED store
  BY <1>3 DEF Kill, Stop, Remount
<1>4. ASSUME NEW g \in Files, NEW m \in Versions, VersionByName(g, m)
      PROVE  Safe(f, n)
  <2>1. \E c : store' = [store EXCEPT ![VersionName(g, m)] = c]
    BY <1>4 DEF VersionByName, Overwrite, Truncate, UnlinkName
  <2>2. CASE g = f /\ m = n
    BY <1>4, <2>2 DEF Safe
  <2>3. CASE <<g, m>> # <<f, n>>
    BY <2>1, <2>3, NamesTyped DEF IInv, TypeOK, StoreTypeOK, Safe
  <2> QED  BY <2>2, <2>3
<1> QED  BY <1>1, <1>2, <1>3, <1>4, StepKeepsVersions DEF Next, Safe

-----------------------------------------------------------------------------
(* The theorems *)

\* The empty mount satisfies the invariant.
LEMMA InitIInv == Init => IInv
<1> SUFFICES ASSUME Init PROVE IInv
  OBVIOUS
<1>1. TypeOK
  BY EmptyTyped, BoundsAssumption
  DEF Init, StoreInit, TypeOK, StoreTypeOK, PC, Replies
<1>2. ControlOK /\ OneWriter
  BY DEF Init, ControlOK, OneWriter, IsWriter, Busy, WritePC, CopyPC
<1>3. RoomForVersion /\ VersionChosen /\ NewVersionIsFresh /\ NewVersionIsLast
  BY DEF Init, RoomForVersion, VersionChosen, NewVersionIsFresh, NewVersionIsLast
<1>4. OpenNamesExist
  BY DEF Init, StoreInit, OpenNamesExist
<1> QED  BY <1>1, <1>2, <1>3, <1>4 DEF IInv

\* Every step keeps the invariant.
LEMMA StepIInv == IInv /\ [Next]_vars => IInv'
<1>1. ASSUME IInv, Next
      PROVE  IInv'
  BY <1>1, TypeStep, ControlStep, NamesStep, VersionStep DEF IInv
<1>2. ASSUME IInv, UNCHANGED vars
      PROVE  IInv'
  BY <1>2 DEF vars, IInv, TypeOK, StoreTypeOK, ControlOK, OneWriter, IsWriter,
    Busy, RoomForVersion, VersionChosen, NewVersionIsFresh, NewVersionIsLast,
    OpenNamesExist, RelatedVersions, Exists
<1> QED  BY <1>1, <1>2

\* The invariant holds in every reachable state.
LEMMA Invariance == Spec => []IInv
  BY InitIInv, StepIInv, PTL DEF Spec

\* The state of the handlers and of the backing directory keeps its types: in
\* particular a write never chooses a version number it has no room for.
THEOREM TypeCorrect == Spec => []TypeOK
<1>1. IInv => TypeOK
  BY DEF IInv
<1> QED  BY <1>1, Invariance, PTL

\* Between get_max_version and copy_file no version as new as the one chosen
\* can appear, whatever the hooks of the other workers do: copy_file never
\* finds its target taken.
THEOREM FreshVersions == Spec => []NewVersionIsFresh
<1>1. IInv => NewVersionIsFresh
  BY DEF IInv
<1> QED  BY <1>1, Invariance, PTL

\* The versions of a file are stored in the order of its writes.
THEOREM OrderedVersions == Spec => VersionsInOrder
<1> DEFINE Ordered ==
      \A f \in Files, n \in Versions :
         ~Exists(VersionName(f, n)) /\ store'[VersionName(f, n)] # Absent
         => \A m \in RelatedVersions(f) : m < n
<1>1. IInv /\ [Next]_vars => [Ordered]_vars
  <2> SUFFICES ASSUME IInv, Next, NEW f \in Files, NEW n \in Versions,
                      ~Exists(VersionName(f, n)),
                      store'[VersionName(f, n)] # Absent,
                      NEW m \in RelatedVersions(f)
               PROVE  m < n
    OBVIOUS
  <2>1. PICK t \in Threads : Creates(t, f, n)
    BY VersionCreated
  <2>2. m <= n
    BY <2>1, BoundsAssumption
    DEF Creates, IInv, NewVersionIsFresh, NewVersionIsLast, RelatedVersions,
        Versions
  <2>3. m # n
    BY DEF RelatedVersions
  <2> QED  BY <2>2, <2>3, BoundsAssumption DEF RelatedVersions, Versions
<1> QED  BY <1>1, Invariance, PTL DEF Spec, VersionsInOrder

\* A stored version is immutable: from the end of its copy to its deletion its
\* content stays what it is, through every write, restore, rename and crash.
THEOREM ImmutableVersions == Spec => StoredVersionsImmutable
<1> DEFINE Kept == \A f \in Files, n \in Versions : Safe(f, n)
<1>1. IInv /\ [Next]_vars => [Kept]_vars
  BY NextKeepsVersions
<1>2. Kept => \A f \in Files, n \in Versions :
                LET x == VersionName(f, n) IN
                (Exists(x) /\ \A t \in Threads : handle[t] # x)
                => \/ store'[x] = store[x]
                   \/ store'[x] = Absent /\ \E t \in Threads : Deletes(t, f, n)
                   \/ VersionByName(f, n)
  BY DEF Safe
<1> QED  BY <1>1, <1>2, Invariance, PTL DEF Spec, StoredVersionsImmutable

\* Only the copy of a write ends the daemon, and its target is never taken.
LEMMA StepAborts ==
    ASSUME IInv, NEW t \in Threads, Step(t),
           daemon = "running", daemon' = "aborted"
    PROVE  /\ req[t] # NoRequest /\ req[t].op = "write"
           /\ At(t, "copyFill") \/ (At(t, "copyOpen") /\ ~Exists(CopySource(t)))
<1>1. Copy(t) \/ CopyData(t)
  BY DEF Step, Return, Scan, WriteOpen, WritePwrite, CopyTouch, HookCheck,
    RestoreUnlink, DeleteVersion, ReadNames, UnlinkVersions, UnlinkFile,
    UnlinkAgain, Answer
<1>2. pc[t] \in {"copyOpen", "copyFill"}
  BY <1>1 DEF Copy, CopyData
<1>3. Throw(t)
  BY <1>1 DEF Copy, CopyData
<1>4. req[t].op = "write"
  BY <1>3 DEF Throw, Answer
<1>5. req[t] \in Requests /\ req[t] # NoRequest
  BY <1>2, BusyTyped, NoRequestAssumption DEF IInv
<1>6. ~Exists(CopyTarget(t)) \/ pc[t] = "copyFill"
  <2>1. ver[t] \in Versions
    BY <1>2, <1>4 DEF IInv, VersionChosen
  <2>2. ASSUME pc[t] = "copyOpen", Exists(<<req[t].file, ver[t]>>)
        PROVE  FALSE
    <3>1. ver[t] \in RelatedVersions(req[t].file)
      BY <2>1, <2>2 DEF RelatedVersions
    <3>2. ver[t] < ver[t]
      BY <1>4, <2>2, <3>1 DEF IInv, NewVersionIsFresh
    <3> QED  BY <2>1, <3>2, BoundsAssumption DEF Versions
  <2> QED  BY <1>2, <1>4, <2>2 DEF CopyTarget
<1>7. pc[t] = "copyOpen" => ~Exists(CopySource(t)) \/ Exists(CopyTarget(t))
  BY <1>1 DEF Copy, CopyData, CopyThrows
<1> QED  BY <1>2, <1>4, <1>5, <1>6, <1>7

\* The daemon survives every interleaving of its handlers: an exception ends it
\* only when the file a write has to copy has gone, or copying it fails.
THEOREM AbortsExplained == Spec => AbortsOnlyWithoutSource
<1> DEFINE Explained ==
      daemon = "running" /\ daemon' = "aborted"
        => \E t \in Threads :
             /\ req[t] # NoRequest /\ req[t].op = "write"
             /\ At(t, "copyFill") \/ (At(t, "copyOpen") /\ ~Exists(CopySource(t)))
<1>1. IInv /\ [Next]_vars => [Explained]_vars
  <2> SUFFICES ASSUME IInv, Next, daemon = "running", daemon' = "aborted"
               PROVE  \E t \in Threads : Step(t)
    BY StepAborts
  <2> QED
    BY DEF Next, BeginWrite, BeginHook, Begin, OneCall, Kill, Stop, Remount,
      VersionByName
<1> QED  BY <1>1, Invariance, PTL DEF Spec, AbortsOnlyWithoutSource

-----------------------------------------------------------------------------
(* One worker *)

OneWorker == \E t : Threads = {t}

-----------------------------------------------------------------------------
(* What a handler reports is true *)

\* A write has its file in hand until the datum is written; from then on, when
\* the datum got there, the file holds it until it is read for the copy, ...
WriteInHand(t) ==
    LET f == req[t].file
        v == VersionName(f, ver[t])
        b == req[t].block
        d == req[t].datum
    IN  /\ pc[t] = "pwrite" => handle[t] = BaseName(f) /\ Exists(BaseName(f))
        /\ pc[t] = "copyFill" => handle[t] = v
        /\ reply[t] = "ok" =>
             /\ pc[t] \in CopyPC \union {"return"}
             /\ pc[t] = "copyOpen" => store[BaseName(f)][b] = d
             /\ pc[t] = "copyFill" => copied[t][b] = d
             /\ pc[t] \in {"copyTouch", "return"} => Exists(v) /\ store[v][b] = d

\* ... and a restore has in hand what the version holds.
RestoreInHand(t) ==
    LET f == req[t].file
        v == VersionName(f, req[t].version)
    IN  /\ pc[t] = "copyFill" => handle[t] = BaseName(f) /\ copied[t] = store[v] /\ Exists(v)
        /\ \/ pc[t] = "copyTouch"
           \/ pc[t] = "return" /\ reply[t] = "ok"
           => store[BaseName(f)] = store[v] /\ Exists(v)

ResultInHand ==
    \A t \in Threads :
      /\ pc[t] = "idle" => reply[t] = "none"
      /\ pc[t] # "idle" /\ req[t].op = "write" => WriteInHand(t)
      /\ pc[t] # "idle" /\ req[t].op = "restore" => RestoreInHand(t)

OneInv == IInv /\ ResultInHand

\* A version is never the file it is a version of.
LEMMA VersionIsNotBase ==
    ASSUME NEW f, NEW n \in Versions
    PROVE  VersionName(f, n) # BaseName(f)
  BY BoundsAssumption DEF Versions

\* A step of the handler of a write keeps what it has in hand.
LEMMA WriteKeepsHand ==
    ASSUME OneInv, NEW t \in Threads, Step(t), req[t].op = "write",
           pc'[t] # "idle"
    PROVE  req'[t] = req[t] /\ WriteInHand(t)'
<1> DEFINE f == req[t].file
           v == VersionName(f, ver[t])
           b == req[t].block
           d == req[t].datum
<1>1. /\ pc[t] # "idle" => /\ req[t] \in Requests /\ f \in Files /\ b \in Blocks /\ d \in Data
                           /\ WriteInHand(t)
      /\ TypeOK
  BY BusyTyped, RequestTyped DEF OneInv, IInv, ResultInHand
<1>2. BaseName(f) \in Names
  <2>1. pc[t] # "idle"
    BY DEF Step, Return, Scan, WriteOpen, WritePwrite, Copy, CopyData, CopyTouch, HookCheck,
       RestoreUnlink, DeleteVersion, ReadNames, UnlinkVersions, UnlinkFile, UnlinkAgain
  <2> QED  BY <1>1, <2>1, NamesTyped
<1>3. /\ pc[t] \in {"openForWrite", "pwrite", "copyOpen", "copyFill", "copyTouch"}
           => ver[t] \in Versions /\ v \in Names /\ v # BaseName(f)
  BY <1>1, NamesTyped, VersionIsNotBase DEF OneInv, IInv, VersionChosen
<1>4. CASE Scan(t)
  BY <1>1, <1>4 DEF Scan, WriteInHand, TypeOK, CopyPC
<1>5. CASE WriteOpen(t)
  <2>1. reply[t] # "ok"
    BY <1>1, <1>5 DEF WriteOpen, WriteInHand, CopyPC
  <2> QED
    BY <1>1, <1>2, <1>5, <2>1 DEF WriteOpen, OpenForWrite, Exists, WriteInHand, TypeOK, StoreTypeOK, CopyPC
<1>6. CASE WritePwrite(t)
  <2>1. handle[t] = BaseName(f) /\ handle[t] # NoName /\ store[BaseName(f)] \in Content
    BY <1>1, <1>2, <1>6, SentinelAssumption
       DEF WritePwrite, WriteInHand, TypeOK, StoreTypeOK, Exists
  <2>2. CASE reply'[t] = "ok"
    <3>1. PwriteBlock(t, b, d)
      BY <1>1, <1>6, <2>2 DEF WritePwrite, TypeOK
    <3>2. store'[BaseName(f)] = [store[BaseName(f)] EXCEPT ![b] = d]
      BY <1>1, <1>2, <2>1, <3>1 DEF PwriteBlock, TypeOK, StoreTypeOK
    <3>3. store'[BaseName(f)][b] = d
      BY <1>1, <1>6, <2>1, <3>2 DEF Content, WritePwrite
    <3> QED
      BY <1>1, <1>6, <3>3 DEF WritePwrite, WriteInHand, TypeOK, CopyPC
  <2>3. CASE reply'[t] # "ok"
    BY <1>1, <1>6, <2>3 DEF WritePwrite, WriteInHand, TypeOK
  <2> QED  BY <2>2, <2>3
<1>7. CASE Copy(t)
  <2>1. CopyOpen(t, BaseName(f), v) /\ pc' = [pc EXCEPT ![t] = "copyFill"]
        /\ UNCHANGED <<daemon, req, ver, todo, reply>>
    BY <1>1, <1>7 DEF Copy, CopySource, CopyTarget, Throw, Stop, TypeOK
  <2>2. handle'[t] = v /\ copied'[t] = store[BaseName(f)]
    BY <1>1, <2>1 DEF CopyOpen, TypeOK, StoreTypeOK
  <2> QED
    BY <1>1, <1>7, <2>1, <2>2 DEF Copy, WriteInHand, TypeOK, CopyPC
<1>8. CASE CopyData(t)
  <2>1. CopyFill(t) /\ pc' = [pc EXCEPT ![t] = "copyTouch"]
        /\ UNCHANGED <<daemon, req, ver, todo, reply>>
    BY <1>1, <1>8 DEF CopyData, Throw, Stop, TypeOK
  <2>2. handle[t] = v /\ v # NoName /\ v \in Names
    BY <1>1, <1>3, <1>8, SentinelAssumption DEF CopyData, WriteInHand
  <2>3. store'[v] = copied[t] /\ copied[t] \in Content
    BY <1>1, <2>1, <2>2 DEF CopyFill, TypeOK, StoreTypeOK
  <2>4. store'[v] # Absent
    BY <2>3, SentinelAssumption
  <2> QED
    BY <1>1, <1>8, <2>1, <2>3, <2>4 DEF CopyData, WriteInHand, Exists, TypeOK, CopyPC
<1>9. CASE CopyTouch(t)
  <2>1. pc'[t] = "return" /\ reply'[t] = reply[t] /\ UNCHANGED <<req, ver>>
    BY <1>1, <1>9 DEF CopyTouch, Answer, TypeOK
  <2>2. reply[t] = "ok" => store'[v] = store[v] /\ Exists(v)
    BY <1>1, <1>9 DEF CopyTouch, CopyTarget, TouchName, WriteInHand, Exists
  <2> QED
    BY <1>1, <1>9, <2>1, <2>2 DEF CopyTouch, WriteInHand, Exists, CopyPC
<1>10. Scan(t) \/ WriteOpen(t) \/ WritePwrite(t) \/ Copy(t) \/ CopyData(t) \/ CopyTouch(t)
  BY <1>1 DEF Step, Return, HookCheck, RestoreUnlink, DeleteVersion, ReadNames, UnlinkVersions,
     UnlinkFile, UnlinkAgain, OneInv, IInv, ControlOK, TypeOK
<1>11. req'[t] = req[t]
  BY <1>1, <1>10 DEF Scan, WriteOpen, WritePwrite, Copy, CopyData, CopyTouch, Answer, Throw, Stop, TypeOK
<1> QED  BY <1>4, <1>5, <1>6, <1>7, <1>8, <1>9, <1>10, <1>11

\* So does a step of the handler of a restore.
LEMMA RestoreKeepsHand ==
    ASSUME OneInv, NEW t \in Threads, Step(t), req[t].op = "restore",
           pc[t] # "idle", pc'[t] # "idle"
    PROVE  req'[t] = req[t] /\ RestoreInHand(t)'
<1> DEFINE f == req[t].file
           v == VersionName(f, req[t].version)
<1>1. /\ req[t] \in Requests /\ f \in Files /\ req[t].version \in Versions
      /\ RestoreInHand(t)
      /\ TypeOK
  BY BusyTyped, RequestTyped DEF OneInv, IInv, ResultInHand
<1>2. BaseName(f) \in Names /\ v \in Names /\ v # BaseName(f)
  BY <1>1, NamesTyped, VersionIsNotBase
<1>3. CASE HookCheck(t)
  BY <1>1, <1>3 DEF HookCheck, FirstStep, Answer, RestoreInHand, TypeOK
<1>4. CASE RestoreUnlink(t)
  BY <1>1, <1>4 DEF RestoreUnlink, RestoreInHand, TypeOK
<1>5. CASE Copy(t)
  <2>1. CASE Throw(t)
    BY <1>1, <2>1 DEF Throw, Answer, RestoreInHand, TypeOK
  <2>2. CASE /\ CopyOpen(t, v, BaseName(f))
             /\ pc' = [pc EXCEPT ![t] = "copyFill"]
             /\ UNCHANGED <<daemon, req, ver, todo, reply>>
    <3>1. handle'[t] = BaseName(f) /\ copied'[t] = store[v] /\ store'[v] = store[v] /\ Exists(v)
      BY <1>1, <1>2, <2>2 DEF CopyOpen, CopyThrows, TypeOK, StoreTypeOK
    <3> QED  BY <1>1, <2>2, <3>1 DEF RestoreInHand, Exists, TypeOK
  <2> QED  BY <1>1, <1>5, <2>1, <2>2 DEF Copy, CopySource, CopyTarget
<1>6. CASE CopyData(t)
  <2>1. CASE Throw(t)
    BY <1>1, <2>1 DEF Throw, Answer, RestoreInHand, TypeOK
  <2>2. CASE /\ CopyFill(t)
             /\ pc' = [pc EXCEPT ![t] = "copyTouch"]
             /\ UNCHANGED <<daemon, req, ver, todo, reply>>
    <3>1. handle[t] = BaseName(f) /\ copied[t] = store[v] /\ Exists(v) /\ BaseName(f) # NoName
      BY <1>1, <1>2, <1>6, SentinelAssumption DEF CopyData, RestoreInHand
    <3>2. store'[v] = store[v] /\ store'[BaseName(f)] = store[v]
      BY <1>1, <1>2, <2>2, <3>1 DEF CopyFill, TypeOK, StoreTypeOK
    <3> QED  BY <1>1, <2>2, <3>1, <3>2 DEF RestoreInHand, Exists, TypeOK
  <2> QED  BY <1>6, <2>1, <2>2 DEF CopyData
<1>7. CASE CopyTouch(t)
  BY <1>1, <1>7 DEF CopyTouch, CopyTarget, TouchName, Answer, RestoreInHand, Exists, TypeOK
<1>8. HookCheck(t) \/ RestoreUnlink(t) \/ Copy(t) \/ CopyData(t) \/ CopyTouch(t)
  BY <1>1 DEF Step, Return, Scan, WriteOpen, WritePwrite, DeleteVersion, ReadNames,
     UnlinkVersions, UnlinkFile, UnlinkAgain, OneInv, IInv, ControlOK, TypeOK, WritePC
<1>9. req'[t] = req[t]
  BY <1>1, <1>8 DEF HookCheck, RestoreUnlink, Copy, CopyData, CopyTouch, Answer, Throw
<1> QED  BY <1>3, <1>4, <1>5, <1>6, <1>7, <1>8, <1>9

\* A worker that returns, or ends with its daemon, has no reply any more, and a
\* worker inside a handler keeps its request.
LEMMA StepEnds ==
    ASSUME TypeOK, NEW t \in Threads, Step(t)
    PROVE  /\ pc[t] # "idle"
           /\ pc'[t] = "idle" => reply'[t] = "none"
           /\ pc'[t] # "idle" => req'[t] = req[t]
<1>1. CASE Return(t)
  BY <1>1 DEF Return, TypeOK
<1>2. CASE Copy(t)
  BY <1>2 DEF Copy, Throw, Stop, Answer, TypeOK
<1>3. CASE CopyData(t)
  BY <1>3 DEF CopyData, Throw, Stop, Answer, TypeOK
<1>4. CASE HookCheck(t)
  BY <1>4 DEF HookCheck, FirstStep, Answer, TypeOK
<1>5. CASE \/ Scan(t) \/ WriteOpen(t) \/ WritePwrite(t) \/ CopyTouch(t) \/ RestoreUnlink(t)
           \/ DeleteVersion(t) \/ ReadNames(t) \/ UnlinkVersions(t) \/ UnlinkFile(t)
           \/ UnlinkAgain(t)
  BY <1>5 DEF Scan, WriteOpen, WritePwrite, CopyTouch, RestoreUnlink, DeleteVersion, ReadNames,
     UnlinkVersions, UnlinkFile, UnlinkAgain, Answer, TypeOK
<1> QED  BY <1>1, <1>2, <1>3, <1>4, <1>5 DEF Step

\* The worker alone moves while it is inside a handler.
LEMMA OnlyTheWorker ==
    ASSUME NEW t, Threads = {t}, pc[t] # "idle", Next
    PROVE  Step(t) \/ Kill \/ Remount
  BY DEF Next, BeginWrite, BeginHook, Begin, OneCall, VersionByName, WorkerFree

\* Every step keeps what a handler has in hand.
LEMMA StepKeepsHand ==
    ASSUME OneWorker, OneInv, Next
    PROVE  ResultInHand'
<1>1. PICK t : Threads = {t} /\ t \in Threads
  BY DEF OneWorker
<1>2. TypeOK /\ ControlOK
  BY DEF OneInv, IInv
<1>3. CASE Step(t)
  <2>1. ASSUME pc'[t] # "idle", req[t].op = "write"
        PROVE  WriteInHand(t)'
    BY <1>1, <1>3, <2>1, WriteKeepsHand
  <2>2. ASSUME pc'[t] # "idle", req[t].op = "restore"
        PROVE  RestoreInHand(t)'
    BY <1>1, <1>2, <1>3, <2>2, RestoreKeepsHand, StepEnds
  <2> QED  BY <1>1, <1>2, <1>3, <2>1, <2>2, StepEnds DEF ResultInHand
<1>4. CASE Kill
  BY <1>1, <1>4 DEF Kill, Stop, ResultInHand
<1>5. CASE Remount
  BY <1>1, <1>5 DEF Remount, OneInv, ResultInHand, WriteInHand, RestoreInHand, Exists
<1>6. CASE pc[t] = "idle" /\ \E f \in Files : BeginWrite(t, f) \/ BeginHook(t, f)
  <2>1. PICK f \in Files : BeginWrite(t, f) \/ BeginHook(t, f)
    BY <1>6
  <2>2. \E r, label : label \in {"scan", "check"} /\ Begin(t, r, label)
    <3>1. CASE BeginWrite(t, f)
      BY <3>1 DEF BeginWrite
    <3>2. CASE BeginHook(t, f)
      <4>1. PICK r : Begin(t, r, "check")
        BY <3>2 DEF BeginHook
      <4> QED  BY <4>1
    <3> QED  BY <2>1, <3>1, <3>2
  <2>3. pc'[t] \in {"scan", "check"} /\ reply'[t] = "none"
    BY <1>1, <1>2, <1>6, <2>2 DEF Begin, OneInv, ResultInHand, TypeOK
  <2> QED  BY <1>1, <2>3 DEF ResultInHand, WriteInHand, RestoreInHand
<1>7. CASE UNCHANGED <<pc, reply>> /\ pc[t] = "idle"
  BY <1>1, <1>7 DEF ResultInHand, OneInv
<1>8. CASE pc[t] = "idle" /\ (OneCall \/ \E f \in Files, n \in Versions : VersionByName(f, n))
  BY <1>7, <1>8 DEF OneCall, VersionByName
<1>9. pc[t] = "idle" => ~Step(t)
  BY <1>1, <1>2, StepEnds
<1> QED
  BY <1>1, <1>3, <1>4, <1>5, <1>6, <1>8, <1>9, OnlyTheWorker DEF Next

\* The invariant holds with one worker.
LEMMA OneInvariance ==
    ASSUME OneWorker
    PROVE  Spec => []OneInv
<1>1. Init => OneInv
  BY InitIInv DEF OneInv, ResultInHand, Init
<1>2. ASSUME OneInv, [Next]_vars
      PROVE  OneInv'
  <2>1. CASE Next
    BY <1>2, <2>1, StepIInv, StepKeepsHand DEF OneInv
  <2>2. CASE UNCHANGED vars
    <3>1. ResultInHand'
      BY <1>2, <2>2 DEF vars, OneInv, ResultInHand, WriteInHand, RestoreInHand, Exists
    <3> QED  BY <1>2, <3>1, StepIInv DEF OneInv
  <2> QED  BY <1>2, <2>1, <2>2
<1> QED  BY <1>1, <1>2, PTL DEF Spec

\* With one worker, a write that reports success has stored what it wrote in
\* the version it made (write).
THEOREM ReportedWritesAreStored ==
    ASSUME OneWorker
    PROVE  Spec => []WriteIsVersioned
<1>1. OneInv => WriteIsVersioned
  BY DEF OneInv, ResultInHand, WriteInHand, WriteIsVersioned
<1> QED  BY <1>1, OneInvariance, PTL

\* With one worker, a restore that reports success has set the file to the
\* version it was asked for (restore_version).
THEOREM ReportedRestoresAreDone ==
    ASSUME OneWorker
    PROVE  Spec => []RestoreSetsCurrent
<1>1. OneInv => RestoreSetsCurrent
  BY DEF OneInv, ResultInHand, RestoreInHand, RestoreSetsCurrent
<1> QED  BY <1>1, OneInvariance, PTL

-----------------------------------------------------------------------------
(* Handlers look atomic *)

\* One worker, no kill, no failing I/O, and clients that leave versions alone
HistoryConditions == OneWorker /\ ~Crashes /\ ~IOErrors /\ ~ByName

There(x) == settled[x] # Absent

\* n is the number after the last version of f.
NextNumber(f, n) ==
    /\ n \in Versions
    /\ \A m \in SettledVersions(f) : m < n
    /\ n = 1 \/ n - 1 \in SettledVersions(f)

\* The directory as it was, but for what x holds now
SettledBut(x, c) == [settled EXCEPT ![x] = c]

\* The directory as it was, without the names of f that have a number in N
Cleared(f, N) == [x \in Names |-> IF x[1] = f /\ x[2] \in N THEN Absent ELSE settled[x]]

\* What the handler of a write has made of the directory
WriteAt(t) ==
    LET base == BaseName(req[t].file)
        v == VersionName(req[t].file, ver[t])
        new == [settled[base] EXCEPT ![req[t].block] = req[t].datum]
        put == SettledBut(base, new)
    IN  /\ pc[t] \in WritePC => store = settled
        /\ pc[t] # "scan" => NextNumber(req[t].file, ver[t])
        /\ pc[t] \in {"pwrite", "copyFill", "copyTouch", "return"} => There(base)
        /\ pc[t] = "pwrite" => handle[t] = base
        /\ pc[t] = "copyOpen" => \/ store = settled /\ ~There(base)
                                 \/ store = put /\ There(base)
        /\ pc[t] = "copyFill" => /\ handle[t] = v
                                 /\ copied[t] = new
                                 /\ store = [put EXCEPT ![v] = Empty]
        /\ pc[t] \in {"copyTouch", "return"} => store = [put EXCEPT ![v] = new]

\* ... that of a restore, ...
RestoreAt(t) ==
    LET base == BaseName(req[t].file)
        v == VersionName(req[t].file, req[t].version)
        done == There(v) /\ store = SettledBut(base, settled[v])
    IN  /\ pc[t] \in {"check", "restoreUnlink"} => store = settled
        /\ pc[t] \in CopyPC \union {"restoreUnlink"} => There(v)
        /\ pc[t] = "copyOpen" => store = SettledBut(base, Absent)
        /\ pc[t] = "copyFill" => /\ handle[t] = base
                                 /\ copied[t] = settled[v]
                                 /\ store = SettledBut(base, Empty)
        /\ pc[t] = "copyTouch" => done
        /\ pc[t] = "return" => store = settled \/ done

\* ... of a delete, ...
DeleteAt(t) ==
    LET v == VersionName(req[t].file, req[t].version) IN
    /\ pc[t] \in {"check", "deleteUnlink"} => store = settled
    /\ pc[t] = "deleteUnlink" => There(v)
    /\ pc[t] = "return" => store = settled \/ (There(v) /\ store = SettledBut(v, Absent))

\* ... and of a deleteAll.
DeleteAllAt(t) ==
    LET f == req[t].file
        all == SettledVersions(f)
    IN  /\ pc[t] \in {"check", "readNames"} => store = settled
        /\ pc[t] \in HookPC \ {"check"} => There(BaseName(f))
        /\ pc[t] = "unlinkVersions" => /\ todo[t] \subseteq all
                                       /\ store = Cleared(f, all \ todo[t])
        /\ pc[t] = "unlinkFile" => store = Cleared(f, all)
        /\ pc[t] = "unlinkAgain" => store = Cleared(f, all \union {0})
        /\ pc[t] = "return" => \/ store = settled
                               \/ There(BaseName(f)) /\ store = Cleared(f, all \union {0})

HandlerAt(t) ==
    /\ req[t].op = "write" => WriteAt(t)
    /\ req[t].op = "restore" => RestoreAt(t)
    /\ req[t].op = "delete" => DeleteAt(t)
    /\ req[t].op = "deleteAll" => DeleteAllAt(t)
    /\ req[t].op = "list" => store = settled

SettledTypeOK == settled \in [Names -> Content \union {Absent}]

RInv ==
    /\ IInv
    /\ SettledTypeOK
    /\ \A t \in Threads : IF pc[t] = "idle" THEN store = settled ELSE HandlerAt(t)

\* A handler counts when it returns.
Settles(t) == settled' = IF pc'[t] = "idle" THEN store' ELSE settled

\* The steps of the handler of a write.
LEMMA WriteStepAt ==
    ASSUME RInv, HistoryConditions, NEW t \in Threads, Step(t), ~Return(t), Settles(t),
           pc[t] # "idle", req[t].op = "write"
    PROVE  settled' = settled /\ (pc'[t] # "idle" => WriteAt(t)')
<1> DEFINE f == req[t].file
           base == BaseName(f)
           v == VersionName(f, ver[t])
           b == req[t].block
           d == req[t].datum
           new == [settled[base] EXCEPT ![b] = d]
           put == SettledBut(base, new)
<1>1. /\ req[t] \in Requests /\ f \in Files /\ b \in Blocks /\ d \in Data
      /\ WriteAt(t)
      /\ TypeOK /\ SettledTypeOK
  BY BusyTyped, RequestTyped DEF RInv, IInv, HandlerAt
<1>2. base \in Names /\ base # NoName
  BY <1>1, NamesTyped, SentinelAssumption
<1>3. /\ pc[t] # "scan" => ver[t] \in Versions /\ v \in Names /\ v # base /\ v # NoName
      /\ pc[t] # "scan" => settled[v] = Absent
  <2>1. pc[t] # "scan" => NextNumber(f, ver[t])
    BY <1>1 DEF WriteAt
  <2>2. pc[t] # "scan" => ver[t] \in Versions /\ v \in Names /\ v # base /\ v # NoName
    BY <1>1, <2>1, NamesTyped, VersionIsNotBase, SentinelAssumption DEF NextNumber
  <2>3. ASSUME pc[t] # "scan", settled[v] # Absent
        PROVE  FALSE
    <3>1. ver[t] \in SettledVersions(f)
      BY <2>2, <2>3 DEF SettledVersions
    <3>2. ver[t] < ver[t]
      BY <2>1, <2>3, <3>1 DEF NextNumber
    <3> QED  BY <2>2, <2>3, <3>2, BoundsAssumption DEF Versions
  <2> QED  BY <2>2, <2>3
<1>4. There(base) => new \in Content /\ new # Absent
  BY <1>1, <1>2, ContentTyped, SentinelAssumption DEF SettledTypeOK, There
<1>5. CASE Scan(t)
  <2>1. store = settled /\ settled' = settled /\ pc'[t] = "openForWrite"
    BY <1>1, <1>5 DEF Scan, WriteAt, WritePC, Settles, TypeOK
  <2>2. PICK n \in 0..MaxVersion : IsMaxVersion(f, n) /\ ver' = [ver EXCEPT ![t] = n + 1]
    BY <1>5 DEF Scan
  <2>3. MaxVersion \notin RelatedVersions(f)
    BY <1>5 DEF Scan, RInv, IInv, RoomForVersion, RelatedVersions
  <2>4. n # MaxVersion
    BY <2>2, <2>3, BoundsAssumption DEF IsMaxVersion
  <2>5. RelatedVersions(f) = SettledVersions(f)
    BY <2>1 DEF RelatedVersions, SettledVersions, Exists
  <2>6. NextNumber(f, n + 1)
    <3>1. n + 1 \in Versions
      BY <2>4, BoundsAssumption DEF Versions
    <3>2. n + 1 = 1 \/ (n + 1) - 1 \in SettledVersions(f)
      BY <2>2, <2>5, BoundsAssumption DEF IsMaxVersion
    <3>3. \A m \in SettledVersions(f) : m < n + 1
      <4>1. \A m \in SettledVersions(f) : m \in Nat /\ m <= n
        BY <2>2, <2>5, BoundsAssumption DEF IsMaxVersion, SettledVersions, Versions
      <4> QED  BY <4>1
    <3> QED  BY <3>1, <3>2, <3>3 DEF NextNumber
  <2>7. ver'[t] = n + 1 /\ req' = req /\ store' = store
    BY <1>1, <1>5, <2>2 DEF Scan, TypeOK
  <2>8. NextNumber(f, ver[t])'
    BY <2>1, <2>6, <2>7 DEF NextNumber, SettledVersions
  <2> QED
    BY <1>5, <2>1, <2>7, <2>8 DEF WriteAt, CopyPC
<1>6. CASE WriteOpen(t)
  <2>1. /\ store' = store /\ store = settled /\ settled' = settled
        /\ pc'[t] \in {"pwrite", "copyOpen"}
        /\ pc'[t] = "pwrite" => Exists(base) /\ handle'[t] = base
        /\ pc'[t] = "copyOpen" => ~Exists(base)
        /\ UNCHANGED <<req, ver>>
    BY <1>1, <1>2, <1>6 DEF WriteOpen, OpenForWrite, WriteAt, WritePC, Settles, TypeOK, StoreTypeOK
  <2>2. NextNumber(f, ver[t])'
    BY <1>1, <1>6, <2>1 DEF WriteOpen, WriteAt, NextNumber, SettledVersions
  <2> QED
    BY <2>1, <2>2 DEF WriteAt, There, Exists
<1>7. CASE WritePwrite(t)
  <2>1. /\ handle[t] = base /\ There(base) /\ store = settled /\ settled' = settled
        /\ pc'[t] = "copyOpen"
        /\ PwriteBlock(t, b, d)
        /\ UNCHANGED <<req, ver>>
    BY <1>1, <1>7 DEF WritePwrite, WriteAt, WritePC, Settles, TypeOK, HistoryConditions
  <2>2. store' = put
    BY <1>2, <2>1 DEF PwriteBlock, SettledBut
  <2>3. NextNumber(f, ver[t])'
    BY <1>1, <1>7, <2>1 DEF WritePwrite, WriteAt, NextNumber, SettledVersions
  <2> QED
    BY <2>1, <2>2, <2>3 DEF WriteAt, There, SettledBut, WritePC
<1>8. CASE Copy(t)
  <2>1. CASE store = settled /\ ~There(base)
    <3>1. Stop("aborted")
      BY <1>8, <2>1 DEF Copy, CopyOpen, CopyThrows, CopySource, Throw, Exists, There
    <3> QED
      BY <1>1, <2>1, <3>1 DEF Stop, Settles
  <2>2. CASE store = put /\ There(base)
    <3>1. store[base] = new /\ store[v] = Absent
      BY <1>1, <1>2, <1>3, <1>8, <2>2 DEF Copy, SettledBut, SettledTypeOK
    <3>2. CopyOpen(t, base, v) /\ pc' = [pc EXCEPT ![t] = "copyFill"]
          /\ UNCHANGED <<daemon, req, ver, todo, reply>>
      BY <1>4, <1>8, <2>2, <3>1 DEF Copy, CopySource, CopyTarget, CopyThrows, Exists
    <3>3. /\ pc'[t] = "copyFill" /\ settled' = settled
          /\ handle'[t] = v /\ copied'[t] = new /\ store' = [put EXCEPT ![v] = Empty]
      BY <1>1, <2>2, <3>1, <3>2 DEF CopyOpen, Settles, TypeOK, StoreTypeOK
    <3>4. NextNumber(f, ver[t])'
      BY <1>1, <1>8, <3>2, <3>3 DEF Copy, WriteAt, NextNumber, SettledVersions
    <3> QED
      BY <2>2, <3>2, <3>3, <3>4 DEF WriteAt, There, SettledBut, WritePC
  <2> QED  BY <1>1, <1>8, <2>1, <2>2 DEF Copy, WriteAt
<1>9. CASE CopyData(t)
  <2>1. /\ CopyFill(t) /\ pc'[t] = "copyTouch" /\ settled' = settled
        /\ UNCHANGED <<req, ver>>
        /\ handle[t] = v /\ copied[t] = new /\ store = [put EXCEPT ![v] = Empty]
        /\ There(base)
    BY <1>1, <1>9 DEF CopyData, WriteAt, Settles, TypeOK, HistoryConditions
  <2>2. store' = [put EXCEPT ![v] = new]
    <3>1. store' = [[put EXCEPT ![v] = Empty] EXCEPT ![v] = new]
      BY <1>3, <1>9, <2>1 DEF CopyFill, CopyData
    <3> QED  BY <3>1 DEF SettledBut
  <2>3. NextNumber(f, ver[t])'
    BY <1>1, <1>9, <2>1 DEF CopyData, WriteAt, NextNumber, SettledVersions
  <2> QED
    BY <2>1, <2>2, <2>3 DEF WriteAt, There, SettledBut, WritePC
<1>10. CASE CopyTouch(t)
  <2>1. /\ pc'[t] = "return" /\ settled' = settled
        /\ UNCHANGED <<req, ver>>
        /\ TouchName(v) /\ store = [put EXCEPT ![v] = new]
        /\ There(base)
    BY <1>1, <1>10 DEF CopyTouch, CopyTarget, Answer, WriteAt, Settles, TypeOK
  <2>2. store[v] = new
    BY <1>1, <1>2, <1>3, <1>10, <2>1 DEF CopyTouch, SettledBut, SettledTypeOK
  <2>3. store' = store
    BY <1>4, <2>1, <2>2 DEF TouchName, Exists
  <2>4. NextNumber(f, ver[t])'
    BY <1>1, <1>10, <2>1 DEF CopyTouch, WriteAt, NextNumber, SettledVersions
  <2> QED
    BY <2>1, <2>3, <2>4 DEF WriteAt, There, SettledBut, WritePC
<1>11. Scan(t) \/ WriteOpen(t) \/ WritePwrite(t) \/ Copy(t) \/ CopyData(t) \/ CopyTouch(t)
  BY <1>1 DEF Step, HookCheck, RestoreUnlink, DeleteVersion, ReadNames, UnlinkVersions,
     UnlinkFile, UnlinkAgain, RInv, IInv, ControlOK, TypeOK
<1> QED  BY <1>5, <1>6, <1>7, <1>8, <1>9, <1>10, <1>11

\* Removing one more name of f.
LEMMA ClearedMore ==
    ASSUME NEW f \in Files, NEW N, NEW n \in 0..MaxVersion
    PROVE  [Cleared(f, N) EXCEPT ![<<f, n>>] = Absent] = Cleared(f, N \union {n})
<1>1. /\ Cleared(f, N \union {n}) = [x \in Names |-> Cleared(f, N \union {n})[x]]
      /\ [Cleared(f, N) EXCEPT ![<<f, n>>] = Absent]
           = [x \in Names |-> [Cleared(f, N) EXCEPT ![<<f, n>>] = Absent][x]]
  BY DEF Cleared
<1>2. ASSUME NEW x \in Names
      PROVE  [Cleared(f, N) EXCEPT ![<<f, n>>] = Absent][x] = Cleared(f, N \union {n})[x]
  <2>1. x = <<x[1], x[2]>> /\ x[1] \in Files /\ x[2] \in 0..MaxVersion
    BY DEF Names
  <2>2. CASE x[1] = f /\ x[2] = n
    BY <2>1, <2>2 DEF Cleared
  <2>3. CASE ~(x[1] = f /\ x[2] = n)
    <3>1. x # <<f, n>>
      BY <2>3
    <3> QED  BY <2>3, <3>1 DEF Cleared
  <2> QED  BY <2>2, <2>3
<1> QED  BY <1>1, <1>2

\* The steps of the handler of a restore.
LEMMA RestoreStepAt ==
    ASSUME RInv, HistoryConditions, NEW t \in Threads, Step(t), ~Return(t), Settles(t),
           pc[t] # "idle", req[t].op = "restore"
    PROVE  settled' = settled /\ req'[t] = req[t] /\ RestoreAt(t)'
<1> DEFINE f == req[t].file
           base == BaseName(f)
           v == VersionName(f, req[t].version)
<1>1. /\ req[t] \in Requests /\ f \in Files /\ req[t].version \in Versions
      /\ RestoreAt(t)
      /\ TypeOK /\ SettledTypeOK
  BY BusyTyped, RequestTyped DEF RInv, IInv, HandlerAt
<1>2. base \in Names /\ base # NoName /\ v \in Names /\ v # base
  BY <1>1, NamesTyped, SentinelAssumption, VersionIsNotBase
<1>3. CASE HookCheck(t)
  BY <1>1, <1>3 DEF HookCheck, FirstStep, Wanted, Answer, RestoreAt, Settles, There, Exists,
     TypeOK, CopyPC
<1>4. CASE RestoreUnlink(t)
  <2>1. /\ pc'[t] = "copyOpen" /\ settled' = settled /\ UNCHANGED req /\ There(v)
        /\ store' = SettledBut(base, Absent)
    BY <1>1, <1>4 DEF RestoreUnlink, UnlinkName, RestoreAt, Settles, TypeOK, SettledBut
  <2> QED  BY <2>1 DEF RestoreAt, There, SettledBut
<1>5. CASE Copy(t)
  <2>1. There(v) /\ store = SettledBut(base, Absent)
    BY <1>1, <1>5 DEF Copy, RestoreAt, CopyPC
  <2>2. store[base] = Absent /\ store[v] = settled[v]
    BY <1>1, <1>2, <2>1 DEF SettledBut, SettledTypeOK
  <2>3. /\ CopyOpen(t, v, base) /\ pc' = [pc EXCEPT ![t] = "copyFill"]
        /\ UNCHANGED <<daemon, req, ver, todo, reply>>
    BY <1>5, <2>1, <2>2 DEF Copy, CopySource, CopyTarget, CopyThrows, Exists, There
  <2>4. /\ pc'[t] = "copyFill" /\ settled' = settled
        /\ handle'[t] = base /\ copied'[t] = settled[v] /\ store' = SettledBut(base, Empty)
    BY <1>1, <2>1, <2>2, <2>3 DEF CopyOpen, Settles, TypeOK, StoreTypeOK, SettledBut
  <2> QED  BY <2>1, <2>3, <2>4 DEF RestoreAt, There, SettledBut
<1>6. CASE CopyData(t)
  <2>1. /\ CopyFill(t) /\ pc'[t] = "copyTouch" /\ settled' = settled /\ UNCHANGED req
        /\ handle[t] = base /\ copied[t] = settled[v] /\ store = SettledBut(base, Empty)
        /\ There(v)
    BY <1>1, <1>6 DEF CopyData, RestoreAt, Settles, TypeOK, HistoryConditions, CopyPC
  <2>2. store' = SettledBut(base, settled[v])
    BY <1>2, <2>1 DEF CopyFill, SettledBut
  <2> QED  BY <2>1, <2>2 DEF RestoreAt, There, SettledBut
<1>7. CASE CopyTouch(t)
  <2>1. /\ pc'[t] = "return" /\ settled' = settled /\ UNCHANGED req
        /\ TouchName(base) /\ store = SettledBut(base, settled[v]) /\ There(v)
    BY <1>1, <1>7 DEF CopyTouch, CopyTarget, Answer, RestoreAt, Settles, TypeOK
  <2>2. store[base] = settled[v]
    BY <1>1, <1>2, <2>1 DEF SettledBut, SettledTypeOK
  <2>3. store' = store
    BY <2>1, <2>2 DEF TouchName, Exists, There
  <2> QED  BY <2>1, <2>3 DEF RestoreAt, There, SettledBut, CopyPC
<1>8. HookCheck(t) \/ RestoreUnlink(t) \/ Copy(t) \/ CopyData(t) \/ CopyTouch(t)
  BY <1>1 DEF Step, Scan, WriteOpen, WritePwrite, DeleteVersion, ReadNames, UnlinkVersions,
     UnlinkFile, UnlinkAgain, RInv, IInv, ControlOK, TypeOK, WritePC
<1> QED  BY <1>3, <1>4, <1>5, <1>6, <1>7, <1>8

\* The steps of the handler of a delete.
LEMMA DeleteStepAt ==
    ASSUME RInv, NEW t \in Threads, Step(t), ~Return(t), Settles(t),
           pc[t] # "idle", req[t].op = "delete"
    PROVE  settled' = settled /\ req'[t] = req[t] /\ DeleteAt(t)'
<1>1. DeleteAt(t) /\ TypeOK
  BY DEF RInv, IInv, HandlerAt
<1>2. CASE HookCheck(t)
  BY <1>1, <1>2 DEF HookCheck, FirstStep, Wanted, Answer, DeleteAt, Settles, There, Exists, TypeOK
<1>3. CASE DeleteVersion(t)
  <2>1. /\ pc'[t] = "return" /\ settled' = settled /\ UNCHANGED req
        /\ There(VersionName(req[t].file, req[t].version))
        /\ store' = SettledBut(VersionName(req[t].file, req[t].version), Absent)
    BY <1>1, <1>3 DEF DeleteVersion, UnlinkName, Answer, DeleteAt, Settles, TypeOK, SettledBut
  <2> QED  BY <2>1 DEF DeleteAt, There, SettledBut
<1>4. HookCheck(t) \/ DeleteVersion(t)
  BY <1>1 DEF Step, Scan, WriteOpen, WritePwrite, Copy, CopyData, CopyTouch, RestoreUnlink,
     ReadNames, UnlinkVersions, UnlinkFile, UnlinkAgain, RInv, IInv, ControlOK, TypeOK, WritePC,
     CopyPC
<1> QED  BY <1>2, <1>3, <1>4

\* The steps of the handler of a deleteAll.
LEMMA DeleteAllStepAt ==
    ASSUME RInv, NEW t \in Threads, Step(t), ~Return(t), Settles(t),
           pc[t] # "idle", req[t].op = "deleteAll"
    PROVE  settled' = settled /\ req'[t] = req[t] /\ DeleteAllAt(t)'
<1> DEFINE f == req[t].file
           all == SettledVersions(f)
<1>1. /\ req[t] \in Requests /\ f \in Files
      /\ DeleteAllAt(t)
      /\ TypeOK /\ SettledTypeOK
  BY BusyTyped, RequestTyped DEF RInv, IInv, HandlerAt
<1>2. all \subseteq 0..MaxVersion /\ 0 \in 0..MaxVersion
  BY BoundsAssumption DEF SettledVersions, Versions
<1>3. CASE HookCheck(t)
  BY <1>1, <1>3 DEF HookCheck, FirstStep, Wanted, Answer, DeleteAllAt, Settles, There, Exists,
     TypeOK, HookPC
<1>4. CASE ReadNames(t)
  <2>1. /\ pc'[t] = "unlinkVersions" /\ settled' = settled /\ UNCHANGED <<req, store>>
        /\ There(BaseName(f)) /\ store = settled
        /\ todo'[t] = RelatedVersions(f)
    BY <1>1, <1>4 DEF ReadNames, DeleteAllAt, Settles, TypeOK, HookPC
  <2>2. RelatedVersions(f) = all
    BY <2>1 DEF RelatedVersions, SettledVersions, Exists
  <2>3. settled = Cleared(f, all \ all)
    BY <1>1 DEF Cleared, SettledTypeOK
  <2>4. (SettledVersions(f) = all)' /\ Cleared(f, all \ all)' = Cleared(f, all \ all)
    BY <2>1 DEF SettledVersions, Cleared
  <2> QED
    BY <2>1, <2>2, <2>3 DEF DeleteAllAt, There, SettledVersions, Cleared
<1>5. CASE UnlinkVersions(t)
  <2>1. There(BaseName(f)) /\ todo[t] \subseteq all /\ store = Cleared(f, all \ todo[t])
    BY <1>1, <1>5 DEF UnlinkVersions, DeleteAllAt, HookPC
  <2>2. CASE todo[t] = {} /\ pc' = [pc EXCEPT ![t] = "unlinkFile"] /\ UNCHANGED <<req, store, todo>>
    <3>1. all \ todo[t] = all
      BY <2>2
    <3>2. settled' = settled /\ pc'[t] = "unlinkFile"
      BY <1>1, <2>2 DEF Settles, TypeOK
    <3> QED  BY <2>1, <2>2, <3>1, <3>2 DEF DeleteAllAt, There, SettledVersions, Cleared
  <2>3. ASSUME NEW n \in todo[t], UnlinkName(VersionName(f, n)),
               todo' = [todo EXCEPT ![t] = @ \ {n}], UNCHANGED <<pc, req>>
        PROVE  settled' = settled /\ req'[t] = req[t] /\ DeleteAllAt(t)'
    <3>1. settled' = settled /\ pc'[t] = "unlinkVersions"
      BY <1>1, <1>5, <2>3 DEF Settles, TypeOK, UnlinkVersions
    <3>2. store' = Cleared(f, (all \ todo[t]) \union {n})
      BY <1>1, <1>2, <2>1, <2>3, ClearedMore DEF UnlinkName
    <3>3. todo'[t] \subseteq all /\ (all \ todo[t]) \union {n} = all \ todo'[t]
      BY <1>1, <2>1, <2>3 DEF TypeOK
    <3> QED  BY <2>1, <2>3, <3>1, <3>2, <3>3 DEF DeleteAllAt, There, SettledVersions, Cleared
  <2> QED  BY <1>5, <2>2, <2>3 DEF UnlinkVersions
<1>6. CASE UnlinkFile(t)
  <2>1. /\ There(BaseName(f)) /\ store = Cleared(f, all) /\ settled' = settled
        /\ pc'[t] = "unlinkAgain" /\ UnlinkName(BaseName(f)) /\ UNCHANGED req
    BY <1>1, <1>6 DEF UnlinkFile, DeleteAllAt, Settles, TypeOK, HookPC
  <2>2. store' = Cleared(f, all \union {0})
    BY <1>1, <1>2, <2>1, ClearedMore DEF UnlinkName
  <2> QED  BY <2>1, <2>2 DEF DeleteAllAt, There, SettledVersions, Cleared
<1>7. CASE UnlinkAgain(t)
  <2>1. /\ There(BaseName(f)) /\ store = Cleared(f, all \union {0}) /\ settled' = settled
        /\ pc'[t] = "return" /\ UnlinkName(BaseName(f)) /\ UNCHANGED req
    BY <1>1, <1>7 DEF UnlinkAgain, DeleteAllAt, Answer, Settles, TypeOK, HookPC
  <2>2. store' = Cleared(f, (all \union {0}) \union {0})
    BY <1>1, <1>2, <2>1, ClearedMore DEF UnlinkName
  <2>3. (all \union {0}) \union {0} = all \union {0}
    OBVIOUS
  <2> QED  BY <2>1, <2>2, <2>3 DEF DeleteAllAt, There, SettledVersions, Cleared, HookPC
<1>8. \/ HookCheck(t) \/ ReadNames(t) \/ UnlinkVersions(t) \/ UnlinkFile(t) \/ UnlinkAgain(t)
  BY <1>1 DEF Step, Scan, WriteOpen, WritePwrite, Copy, CopyData, CopyTouch, RestoreUnlink,
     DeleteVersion, RInv, IInv, ControlOK, TypeOK, WritePC, CopyPC
<1> QED  BY <1>3, <1>4, <1>5, <1>6, <1>7, <1>8

\* The steps of the handler of a list.
LEMMA ListStepAt ==
    ASSUME RInv, NEW t \in Threads, Step(t), ~Return(t), Settles(t),
           pc[t] # "idle", req[t].op = "list"
    PROVE  settled' = settled /\ req'[t] = req[t] /\ store' = settled
<1>1. TypeOK /\ store = settled
  BY DEF RInv, IInv, HandlerAt
<1>2. HookCheck(t) \/ ReadNames(t)
  BY <1>1 DEF Step, Scan, WriteOpen, WritePwrite, Copy, CopyData, CopyTouch, RestoreUnlink,
     DeleteVersion, UnlinkVersions, UnlinkFile, UnlinkAgain, RInv, IInv, ControlOK, TypeOK,
     WritePC, CopyPC
<1> QED  BY <1>1, <1>2 DEF HookCheck, Answer, ReadNames, Settles, TypeOK

-----------------------------------------------------------------------------
(* What the user sees of a change of the directory *)

Current == [f \in Files |-> settled[BaseName(f)]]
VersionsOf(f) == [n \in SettledVersions(f) |-> settled[VersionName(f, n)]]
Histories == [f \in Files |-> VersionsOf(f)]

\* A file whose versions stay what they are keeps its history.
LEMMA SameHistory ==
    ASSUME NEW f \in Files, NEW dir,
           \A n \in Versions : dir[VersionName(f, n)] = settled[VersionName(f, n)],
           settled' = dir
    PROVE  VersionsOf(f)' = VersionsOf(f)
<1>1. SettledVersions(f)' = SettledVersions(f)
  BY DEF SettledVersions
<1>2. \A n \in SettledVersions(f) : n \in Versions
  BY DEF SettledVersions
<1> QED  BY <1>1, <1>2 DEF VersionsOf

\* A change of the content of f is one of its current content alone.
LEMMA ContentChanges ==
    ASSUME SettledTypeOK, NEW f \in Files, NEW c, settled' = SettledBut(BaseName(f), c)
    PROVE  /\ Current' = [Current EXCEPT ![f] = c]
           /\ Histories' = Histories
<1>1. BaseName(f) \in Names
  BY NamesTyped
<1>2. \A g \in Files : settled'[BaseName(g)] = IF g = f THEN c ELSE settled[BaseName(g)]
  BY <1>1, NamesTyped DEF SettledBut, SettledTypeOK
<1>3. ASSUME NEW g \in Files
      PROVE  VersionsOf(g)' = VersionsOf(g)
  <2>1. \A n \in Versions :
          SettledBut(BaseName(f), c)[VersionName(g, n)] = settled[VersionName(g, n)]
    BY NamesTyped, BoundsAssumption DEF SettledBut, SettledTypeOK, Versions
  <2> QED  BY <2>1, SameHistory
<1>4. Current' = [Current EXCEPT ![f] = c]
  BY <1>2 DEF Current
<1>5. Histories' = Histories
  BY <1>3 DEF Histories
<1> QED  BY <1>4, <1>5

\* A change of names of f leaves the other files alone.
LEMMA FileChanges ==
    ASSUME NEW f \in Files, NEW dir, settled' = dir,
           \A x \in Names : x[1] # f => dir[x] = settled[x]
    PROVE  /\ Current' = [Current EXCEPT ![f] = dir[BaseName(f)]]
           /\ Histories' = [Histories EXCEPT ![f] = VersionsOf(f)']
<1>1. \A g \in Files : g # f => dir[BaseName(g)] = settled[BaseName(g)]
  BY NamesTyped
<1>2. ASSUME NEW g \in Files, g # f
      PROVE  VersionsOf(g)' = VersionsOf(g)
  <2>1. \A n \in Versions : dir[VersionName(g, n)] = settled[VersionName(g, n)]
    BY <1>2, NamesTyped
  <2> QED  BY <2>1, SameHistory
<1>3. Current' = [Current EXCEPT ![f] = dir[BaseName(f)]]
  BY <1>1 DEF Current
<1>4. Histories' = [Histories EXCEPT ![f] = VersionsOf(f)']
  <2>1. \A g \in Files : Histories'[g] = IF g = f THEN VersionsOf(f)' ELSE Histories[g]
    BY <1>2 DEF Histories
  <2> QED  BY <2>1 DEF Histories
<1> QED  BY <1>3, <1>4

\* A new content of f, stored as its next version as well, is a write.
LEMMA WriteSettles ==
    ASSUME SettledTypeOK, NEW f \in Files, NEW n, NEW b \in Blocks, NEW d \in Data, NEW c,
           c = [settled[BaseName(f)] EXCEPT ![b] = d],
           NextNumber(f, n), There(BaseName(f)),
           settled' = [SettledBut(BaseName(f), c) EXCEPT ![VersionName(f, n)] = c]
    PROVE  History!WriteFile(f, b, d)
<1> DEFINE base == BaseName(f)
           v == VersionName(f, n)
           old == SettledVersions(f)
<1>1. base \in Names /\ v \in Names /\ v # base /\ n \in Versions
  BY NamesTyped, VersionIsNotBase DEF NextNumber
<1>2. c # Absent
  <2>1. settled[base] \in Content
    BY <1>1 DEF SettledTypeOK, There
  <2> QED  BY <2>1, ContentTyped, SentinelAssumption
<1>3. \A x \in Names : settled'[x] = IF x = base \/ x = v THEN c ELSE settled[x]
  BY <1>1 DEF SettledBut, SettledTypeOK
<1>4. /\ Current' = [Current EXCEPT ![f] = c]
      /\ Histories' = [Histories EXCEPT ![f] = VersionsOf(f)']
  <2>1. PICK dir : dir = [SettledBut(base, c) EXCEPT ![v] = c]
    OBVIOUS
  <2>2. settled' = dir
    BY <2>1
  <2>3. dir[base] = c /\ \A x \in Names : x[1] # f => dir[x] = settled[x]
    <3>1. \A x : x[1] # f => x # base /\ x # v
      OBVIOUS
    <3> HIDE DEF base, v
    <3> QED  BY <1>1, <1>3, <2>2, <3>1
  <2> HIDE DEF base, v
  <2> QED  BY <2>2, <2>3, FileChanges DEF base
<1>5. VersionsOf(f)' = [m \in old \union {n} |-> IF m = n THEN c ELSE VersionsOf(f)[m]]
  <2>1. \A m \in Versions : settled'[VersionName(f, m)]
                              = IF m = n THEN c ELSE settled[VersionName(f, m)]
    BY <1>3, NamesTyped, BoundsAssumption DEF Versions
  <2>2. SettledVersions(f)' = old \union {n}
    BY <1>1, <1>2, <2>1 DEF SettledVersions
  <2>3. \A m \in old : m \in Versions
    BY DEF SettledVersions
  <2> QED  BY <1>1, <2>1, <2>2, <2>3 DEF VersionsOf
<1>6. Current[f] = settled[base] /\ DOMAIN Histories[f] = old /\ Histories[f] = VersionsOf(f)
  BY DEF Current, Histories, VersionsOf
<1>7. n \in 1..MaxVersion /\ (\A m \in old : m < n) /\ (n = 1 \/ n - 1 \in old)
  BY DEF NextNumber, Versions
<1>8. Current' = [Current EXCEPT ![f] = [Current[f] EXCEPT ![b] = d]]
  BY <1>4, <1>6
<1>9. Histories' = [Histories EXCEPT ![f] =
        [m \in old \union {n} |-> IF m = n THEN [Current[f] EXCEPT ![b] = d]
                                  ELSE Histories[f][m]]]
  BY <1>4, <1>5, <1>6
<1>10. Current[f] # Absent
  BY <1>6 DEF There
<1> QED
  BY <1>6, <1>7, <1>8, <1>9, <1>10
     DEF History!WriteFile, History!SetCurrent, Current, Histories, VersionsOf

\* A new content of f that is one of its versions is a restore.
LEMMA RestoreSettles ==
    ASSUME SettledTypeOK, NEW f \in Files, NEW n \in Versions, There(VersionName(f, n)),
           settled' = SettledBut(BaseName(f), settled[VersionName(f, n)])
    PROVE  History!RestoreFile(f, n)
<1>1. PICK c : c = settled[VersionName(f, n)]
  OBVIOUS
<1>2. n \in SettledVersions(f)
  BY DEF There, SettledVersions
<1>3. n \in DOMAIN Histories[f] /\ Histories[f][n] = c
  BY <1>1, <1>2 DEF Histories, VersionsOf
<1>4. Current' = [Current EXCEPT ![f] = c] /\ Histories' = Histories
  BY <1>1, ContentChanges
<1> QED
  BY <1>3, <1>4
     DEF History!RestoreFile, History!SetCurrent, Current, Histories, VersionsOf

\* A version that goes has been forgotten.
LEMMA DeleteSettles ==
    ASSUME SettledTypeOK, NEW f \in Files, NEW n \in Versions, There(VersionName(f, n)),
           settled' = SettledBut(VersionName(f, n), Absent)
    PROVE  History!ForgetVersion(f, n)
<1> DEFINE rest == SettledVersions(f) \ {n}
<1>1. VersionName(f, n) \in Names /\ BaseName(f) \in Names /\ VersionName(f, n) # BaseName(f)
  BY NamesTyped, VersionIsNotBase
<1>2. \A x \in Names : settled'[x] = IF x = VersionName(f, n) THEN Absent ELSE settled[x]
  BY <1>1 DEF SettledBut, SettledTypeOK
<1>3. /\ Current' = [Current EXCEPT ![f] = settled[BaseName(f)]]
      /\ Histories' = [Histories EXCEPT ![f] = VersionsOf(f)']
  <2>1. PICK dir : dir = SettledBut(VersionName(f, n), Absent)
    OBVIOUS
  <2>2. settled' = dir
    BY <2>1
  <2>3. dir[BaseName(f)] = settled[BaseName(f)] /\ \A x \in Names : x[1] # f => dir[x] = settled[x]
    <3>1. \A x : x[1] # f => x # VersionName(f, n)
      OBVIOUS
    <3>2. dir[BaseName(f)] = settled[BaseName(f)]
      BY <1>1, <1>2, <2>2
    <3>3. ASSUME NEW x \in Names, x[1] # f
          PROVE  dir[x] = settled[x]
      BY <1>2, <2>2, <3>1, <3>3
    <3> QED  BY <3>2, <3>3
  <2>4. Current' = [Current EXCEPT ![f] = dir[BaseName(f)]]
        /\ Histories' = [Histories EXCEPT ![f] = VersionsOf(f)']
    BY <2>2, <2>3, FileChanges
  <2> QED  BY <2>3, <2>4
<1>4. Current' = Current
  BY <1>3 DEF Current
<1>5. VersionsOf(f)' = [m \in rest |-> VersionsOf(f)[m]]
  <2>1. \A m \in Versions : settled'[VersionName(f, m)]
                              = IF m = n THEN Absent ELSE settled[VersionName(f, m)]
    BY <1>2, NamesTyped, BoundsAssumption DEF Versions
  <2>2. SettledVersions(f)' = rest
    BY <2>1 DEF SettledVersions
  <2>3. \A m \in rest : m \in Versions /\ m \in SettledVersions(f) /\ m # n
    BY DEF SettledVersions
  <2> QED  BY <2>1, <2>2, <2>3 DEF VersionsOf
<1>6. n \in SettledVersions(f) /\ DOMAIN Histories[f] = SettledVersions(f)
      /\ Histories[f] = VersionsOf(f)
  BY DEF There, SettledVersions, Histories, VersionsOf
<1>7. Histories' = [Histories EXCEPT ![f] = [m \in DOMAIN Histories[f] \ {n} |-> Histories[f][m]]]
  BY <1>3, <1>5, <1>6
<1> QED
  BY <1>4, <1>6, <1>7
     DEF History!ForgetVersion, History!Keep, Current, Histories, VersionsOf

\* A file that goes with all its versions has been forgotten.
LEMMA DeleteAllSettles ==
    ASSUME SettledTypeOK, NEW f \in Files, There(BaseName(f)),
           settled' = Cleared(f, SettledVersions(f) \union {0})
    PROVE  History!ForgetFile(f)
<1> DEFINE all == SettledVersions(f) \union {0}
<1>1. BaseName(f) \in Names
  BY NamesTyped
<1>2. \A x \in Names : settled'[x] = IF x[1] = f /\ x[2] \in all THEN Absent ELSE settled[x]
  BY DEF Cleared
<1>3. /\ Current' = [Current EXCEPT ![f] = Absent]
      /\ Histories' = [Histories EXCEPT ![f] = VersionsOf(f)']
  <2>1. PICK dir : dir = Cleared(f, SettledVersions(f) \union {0})
    OBVIOUS
  <2>2. settled' = dir
    BY <2>1
  <2>3. dir[BaseName(f)] = Absent /\ \A x \in Names : x[1] # f => dir[x] = settled[x]
    BY <1>1, <1>2, <2>2
  <2>4. Current' = [Current EXCEPT ![f] = dir[BaseName(f)]]
        /\ Histories' = [Histories EXCEPT ![f] = VersionsOf(f)']
    BY <2>2, <2>3, FileChanges
  <2> QED  BY <2>3, <2>4
<1>4. VersionsOf(f)' = [m \in {} |-> VersionsOf(f)[m]]
  <2>1. \A m \in Versions : settled'[VersionName(f, m)] = Absent
    BY <1>2, NamesTyped DEF SettledVersions
  <2>2. SettledVersions(f)' = {}
    BY <2>1 DEF SettledVersions
  <2> QED  BY <2>2 DEF VersionsOf
<1>5. Current[f] # Absent /\ Histories[f] = VersionsOf(f)
  BY DEF There, Current, Histories
<1>6. Histories' = [Histories EXCEPT ![f] = [m \in {} |-> Histories[f][m]]]
  BY <1>3, <1>4, <1>5
<1> QED
  BY <1>3, <1>5, <1>6
     DEF History!ForgetFile, History!SetCurrent, History!Keep, Current, Histories, VersionsOf

\* What a handler has made of the directory when it returns is one step of the
\* history, or none.
LEMMA ReturnSettles ==
    ASSUME RInv, NEW t \in Threads, Return(t), settled' = store
    PROVE  settled' = settled \/ History!HistoryNext
<1>1. PICK f : f = req[t].file
  OBVIOUS
<1>2. /\ req[t] \in Requests /\ f \in Files /\ SettledTypeOK /\ HandlerAt(t) /\ pc[t] = "return"
      /\ Blocks = 1..NumBlocks /\ Versions = 1..MaxVersion
  BY <1>1, BusyTyped, RequestTyped DEF RInv, IInv, Return, Blocks, Versions
<1>3. CASE req[t].op = "write"
  <2>1. PICK b \in Blocks, d \in Data : b = req[t].block /\ d = req[t].datum
    BY <1>2, <1>3, RequestTyped
  <2>2. PICK n, c : n = ver[t] /\ c = [settled[BaseName(f)] EXCEPT ![b] = d]
    OBVIOUS
  <2>3. NextNumber(f, n) /\ There(BaseName(f))
        /\ settled' = [SettledBut(BaseName(f), c) EXCEPT ![VersionName(f, n)] = c]
    BY <1>1, <1>2, <1>3, <2>1, <2>2 DEF HandlerAt, WriteAt
  <2>4. History!WriteFile(f, b, d)
    BY <1>2, <2>2, <2>3, WriteSettles
  <2> QED  BY <1>2, <2>4 DEF History!HistoryNext
<1>4. CASE req[t].op = "restore"
  <2>1. PICK n \in Versions : n = req[t].version
    BY <1>2, <1>4, RequestTyped
  <2>2. ASSUME settled' # settled
        PROVE  History!RestoreFile(f, n)
    <3>1. There(VersionName(f, n))
          /\ settled' = SettledBut(BaseName(f), settled[VersionName(f, n)])
      BY <1>1, <1>2, <1>4, <2>1, <2>2 DEF HandlerAt, RestoreAt
    <3> QED  BY <1>2, <3>1, RestoreSettles
  <2> QED  BY <1>2, <2>2 DEF History!HistoryNext
<1>5. CASE req[t].op = "delete"
  <2>1. PICK n \in Versions : n = req[t].version
    BY <1>2, <1>5, RequestTyped
  <2>2. ASSUME settled' # settled
        PROVE  History!ForgetVersion(f, n)
    <3>1. There(VersionName(f, n)) /\ settled' = SettledBut(VersionName(f, n), Absent)
      BY <1>1, <1>2, <1>5, <2>1, <2>2 DEF HandlerAt, DeleteAt
    <3> QED  BY <1>2, <3>1, DeleteSettles
  <2> QED  BY <1>2, <2>2 DEF History!HistoryNext
<1>6. CASE req[t].op = "deleteAll"
  <2>1. ASSUME settled' # settled
        PROVE  History!ForgetFile(f)
    <3>1. There(BaseName(f)) /\ settled' = Cleared(f, SettledVersions(f) \union {0})
      BY <1>1, <1>2, <1>6, <2>1 DEF HandlerAt, DeleteAllAt
    <3> QED  BY <1>2, <3>1, DeleteAllSettles
  <2> QED  BY <1>2, <2>1 DEF History!HistoryNext
<1>7. CASE req[t].op = "list"
  BY <1>2, <1>7 DEF HandlerAt
<1> QED  BY <1>2, <1>3, <1>4, <1>5, <1>6, <1>7, RequestTyped

\* A file that moves takes its content along, and no version.
LEMMA RenameSettles ==
    ASSUME SettledTypeOK, store = settled, NEW f \in Files, NEW g \in Files, Rename(f, g),
           settled' = store'
    PROVE  History!MoveFile(f, g)
<1>1. /\ f # g /\ settled[BaseName(f)] # Absent
      /\ settled' = [settled EXCEPT ![BaseName(g)] = settled[BaseName(f)],
                                    ![BaseName(f)] = Absent]
  BY DEF Rename, Exists
<1>2. BaseName(f) \in Names /\ BaseName(g) \in Names
  BY NamesTyped
<1>3. \A x \in Names : settled'[x] = IF x = BaseName(f) THEN Absent
                                     ELSE IF x = BaseName(g) THEN settled[BaseName(f)]
                                     ELSE settled[x]
  BY <1>1, <1>2 DEF SettledTypeOK
<1>4. Current' = [Current EXCEPT ![g] = Current[f], ![f] = Absent]
  <2>1. \A h \in Files : settled'[BaseName(h)] = IF h = f THEN Absent
                                                 ELSE IF h = g THEN settled[BaseName(f)]
                                                 ELSE settled[BaseName(h)]
    BY <1>3, NamesTyped
  <2> QED  BY <1>1, <2>1 DEF Current
<1>5. Histories' = Histories
  <2>1. ASSUME NEW h \in Files
        PROVE  VersionsOf(h)' = VersionsOf(h)
    <3>1. PICK dir : dir = [settled EXCEPT ![BaseName(g)] = settled[BaseName(f)],
                                           ![BaseName(f)] = Absent]
      OBVIOUS
    <3>2. settled' = dir
      BY <1>1, <3>1
    <3>3. \A n \in Versions : VersionName(h, n) # BaseName(f) /\ VersionName(h, n) # BaseName(g)
      BY BoundsAssumption DEF Versions
    <3>4. \A n \in Versions : dir[VersionName(h, n)] = settled[VersionName(h, n)]
      BY <1>3, <3>2, <3>3, NamesTyped
    <3> QED  BY <3>2, <3>4, SameHistory
  <2> QED  BY <2>1 DEF Histories
<1>6. Current[f] # Absent
  BY <1>1 DEF Current
<1> QED
  BY <1>1, <1>4, <1>5, <1>6 DEF History!MoveFile, Current, Histories, VersionsOf

\* Requests that are one call are one step of the history, or none.
LEMMA CallSettles ==
    ASSUME SettledTypeOK, store = settled, OneCall, settled' = store'
    PROVE  settled' = settled \/ History!HistoryNext
<1>1. PICK f \in Files : \/ Mknod(f)
                         \/ Open(f)
                         \/ Release(f)
                         \/ Truncate(BaseName(f))
                         \/ Unlink(f)
                         \/ \E g \in Files : Rename(f, g)
  BY DEF OneCall
<1>2. Current[f] = settled[BaseName(f)]
  BY DEF Current
<1>3. CASE Mknod(f)
  <2>1. settled' = SettledBut(BaseName(f), Empty) /\ Current[f] = Absent
    BY <1>2, <1>3 DEF Mknod, SettledBut, Exists
  <2>2. Current' = [Current EXCEPT ![f] = Empty] /\ Histories' = Histories
    <3>1. PICK c : c = Empty
      OBVIOUS
    <3> QED  BY <2>1, <3>1, ContentChanges
  <2>3. History!Blank = Empty
    BY DEF History!Blank, Empty, Blocks
  <2>4. History!CreateFile(f)
    BY <2>1, <2>2, <2>3
       DEF History!CreateFile, History!SetCurrent, Current, Histories, VersionsOf
  <2> QED  BY <2>4 DEF History!HistoryNext
<1>4. CASE Open(f) \/ Release(f)
  BY <1>4 DEF Open, Release
<1>5. CASE Truncate(BaseName(f))
  <2>1. PICK len \in 0..(NumBlocks - 1) :
          store' = [store EXCEPT ![BaseName(f)] =
                      [b \in Blocks |-> IF b <= len THEN @[b] ELSE Hole]]
    BY <1>5 DEF Truncate
  <2>2. PICK c : c = [b \in 1..NumBlocks |-> IF b <= len THEN Current[f][b] ELSE Hole]
    OBVIOUS
  <2>3. settled' = SettledBut(BaseName(f), c) /\ Current[f] # Absent
    BY <1>2, <1>5, <2>1, <2>2 DEF Truncate, SettledBut, Exists, Blocks
  <2>4. Current' = [Current EXCEPT ![f] = c] /\ Histories' = Histories
    BY <2>3, ContentChanges
  <2>5. History!ShortenFile(f)
    BY <2>2, <2>3, <2>4
       DEF History!ShortenFile, History!SetCurrent, Current, Histories, VersionsOf
  <2> QED  BY <2>5 DEF History!HistoryNext
<1>6. CASE Unlink(f)
  <2>1. settled' = SettledBut(BaseName(f), Absent) /\ Current[f] # Absent
    BY <1>2, <1>6 DEF Unlink, SettledBut, Exists
  <2>2. Current' = [Current EXCEPT ![f] = Absent] /\ Histories' = Histories
    BY <2>1, ContentChanges
  <2>3. History!RemoveFile(f)
    BY <2>1, <2>2
       DEF History!RemoveFile, History!SetCurrent, Current, Histories, VersionsOf
  <2> QED  BY <2>3 DEF History!HistoryNext
<1>7. CASE \E g \in Files : Rename(f, g)
  <2>1. PICK g \in Files : Rename(f, g)
    BY <1>7
  <2>2. History!MoveFile(f, g)
    BY <2>1, RenameSettles
  <2> QED  BY <2>2 DEF History!HistoryNext
<1> QED  BY <1>1, <1>3, <1>4, <1>5, <1>6, <1>7

-----------------------------------------------------------------------------
(* The refinement *)

\* A handler begins with the directory as it is.
LEMMA BeginAt ==
    ASSUME RInv, NEW t \in Threads, NEW f \in Files, BeginWrite(t, f) \/ BeginHook(t, f),
           UNCHANGED settled
    PROVE  pc[t] = "idle" /\ pc'[t] # "idle" /\ HandlerAt(t)'
<1>1. TypeOK /\ (pc[t] = "idle" => store = settled)
  BY DEF RInv, IInv
<1>2. CASE BeginWrite(t, f)
  <2>1. PICK r \in Requests : r.op = "write" /\ Begin(t, r, "scan")
    BY <1>2 DEF BeginWrite, Requests, WriteReq
  <2>2. pc[t] = "idle" /\ pc'[t] = "scan" /\ req'[t] = r /\ store' = settled'
    BY <1>1, <2>1 DEF Begin, TypeOK
  <2> QED  BY <2>1, <2>2 DEF HandlerAt, WriteAt
<1>3. CASE BeginHook(t, f)
  <2>1. PICK r \in Requests : r.op # "write" /\ Begin(t, r, "check")
    BY <1>3 DEF BeginHook, Requests, VersionedReq, UnversionedReq
  <2>2. pc[t] = "idle" /\ pc'[t] = "check" /\ req'[t] = r /\ store' = settled'
    BY <1>1, <2>1 DEF Begin, TypeOK
  <2> QED
    BY <2>1, <2>2 DEF HandlerAt, RestoreAt, DeleteAt, DeleteAllAt, CopyPC, HookPC
<1> QED  BY <1>2, <1>3

\* A step inside a handler is not seen.
LEMMA HandlerStepAt ==
    ASSUME RInv, HistoryConditions, NEW t \in Threads, Step(t), ~Return(t), Settles(t)
    PROVE  settled' = settled /\ (pc'[t] # "idle" => HandlerAt(t)')
<1>1. TypeOK /\ pc[t] # "idle" /\ (pc'[t] # "idle" => req'[t] = req[t])
  BY StepEnds DEF RInv, IInv
<1>2. req[t].op \in {"write", "restore", "delete", "deleteAll", "list"}
  BY <1>1, BusyTyped, RequestTyped DEF RInv, IInv
<1>3. CASE req[t].op = "write"
  BY <1>1, <1>3, WriteStepAt DEF HandlerAt
<1>4. CASE req[t].op = "restore"
  BY <1>1, <1>4, RestoreStepAt DEF HandlerAt
<1>5. CASE req[t].op = "delete"
  BY <1>1, <1>5, DeleteStepAt DEF HandlerAt
<1>6. CASE req[t].op = "deleteAll"
  BY <1>1, <1>6, DeleteAllStepAt DEF HandlerAt
<1>7. CASE req[t].op = "list"
  BY <1>1, <1>7, ListStepAt DEF HandlerAt
<1> QED  BY <1>2, <1>3, <1>4, <1>5, <1>6, <1>7

\* What a handler has made stays when nothing changes.
LEMMA NothingHappens ==
    ASSUME NEW t, HandlerAt(t), UNCHANGED <<store, handle, copied, pc, req, ver, todo, settled>>
    PROVE  HandlerAt(t)'
  BY DEF HandlerAt, WriteAt, RestoreAt, DeleteAt, DeleteAllAt, NextNumber, SettledVersions,
     There, SettledBut, Cleared

\* Every step is one of the history, or none.
LEMMA NextRefines ==
    ASSUME HistoryConditions, RInv, RefinementNext
    PROVE  RInv' /\ (settled' = settled \/ History!HistoryNext)
<1>1. PICK t : Threads = {t} /\ t \in Threads
  BY DEF HistoryConditions, OneWorker
<1>2. IInv' /\ Next
  BY StepIInv DEF RInv, RefinementNext
<1>3. Settles(t)
  BY <1>1 DEF RefinementNext, Settles, Quiet
<1>4. TypeOK /\ SettledTypeOK /\ (pc[t] = "idle" => store = settled)
      /\ (pc[t] # "idle" => HandlerAt(t))
  BY <1>1 DEF RInv, IInv
<1>5. SettledTypeOK'
  <2>1. settled' = store' \/ settled' = settled
    BY <1>3 DEF Settles
  <2> QED  BY <1>2, <1>4, <2>1 DEF SettledTypeOK, IInv, TypeOK, StoreTypeOK
<1>6. SUFFICES /\ IF pc'[t] = "idle" THEN store' = settled' ELSE HandlerAt(t)'
               /\ settled' = settled \/ History!HistoryNext
  BY <1>1, <1>2, <1>5 DEF RInv
<1>7. pc'[t] = "idle" => store' = settled'
  BY <1>3 DEF Settles
<1>8. CASE Return(t)
  <2>1. pc'[t] = "idle" /\ store' = store /\ settled' = store
    BY <1>1, <1>3, <1>4, <1>8 DEF Return, Settles, TypeOK
  <2> QED  BY <1>1, <1>7, <1>8, <2>1, ReturnSettles
<1>9. CASE Step(t) /\ ~Return(t)
  BY <1>1, <1>3, <1>7, <1>9, HandlerStepAt
<1>10. CASE \E f \in Files : BeginWrite(t, f) \/ BeginHook(t, f)
  <2>1. PICK f \in Files : BeginWrite(t, f) \/ BeginHook(t, f)
    BY <1>10
  <2>2. pc'[t] \in {"scan", "check"}
    BY <1>1, <1>4, <2>1 DEF BeginWrite, BeginHook, Begin, TypeOK
  <2>3. settled' = settled
    BY <1>3, <2>2 DEF Settles
  <2> QED  BY <1>1, <1>7, <2>1, <2>3, BeginAt
<1>11. CASE OneCall
  <2>1. pc[t] = "idle" /\ pc' = pc
    BY <1>1, <1>11 DEF OneCall, WorkerFree
  <2> QED  BY <1>3, <1>4, <1>7, <1>11, <2>1, CallSettles DEF Settles
<1>12. CASE Remount
  <2>1. UNCHANGED <<store, handle, copied, pc, req, ver, todo, reply>>
    BY <1>12 DEF Remount
  <2>2. settled' = settled
    BY <1>3, <1>4, <2>1 DEF Settles
  <2>3. pc[t] # "idle" => HandlerAt(t)'
    BY <1>4, <2>1, <2>2, NothingHappens
  <2> QED  BY <1>7, <2>1, <2>2, <2>3
<1>13. ~Kill /\ ~\E f \in Files, n \in Versions : VersionByName(f, n)
  BY DEF HistoryConditions, Kill, VersionByName
<1> QED  BY <1>1, <1>2, <1>8, <1>9, <1>10, <1>11, <1>12, <1>13 DEF Next

\* The empty mount has no files and no versions.
LEMMA InitRefines == RefinementInit => RInv /\ History!HistoryInit
<1> SUFFICES ASSUME RefinementInit
             PROVE  RInv /\ History!HistoryInit
  OBVIOUS
<1>1. /\ Init /\ IInv /\ settled = store
      /\ store = [x \in Names |-> Absent]
      /\ \A t \in Threads : pc[t] = "idle"
  BY InitIInv DEF RefinementInit, Init, StoreInit
<1>2. RInv
  BY <1>1 DEF RInv, SettledTypeOK
<1>3. Current = [f \in Files |-> Absent]
  BY <1>1, NamesTyped DEF Current
<1>4. Histories = [f \in Files |-> <<>>]
  <2>1. \A f \in Files : SettledVersions(f) = {}
    BY <1>1, NamesTyped DEF SettledVersions
  <2>2. ASSUME NEW f \in Files
        PROVE  VersionsOf(f) = <<>>
    <3>1. VersionsOf(f) = [n \in {} |-> settled[VersionName(f, n)]]
      BY <2>1, <2>2 DEF VersionsOf
    <3>2. <<>> \in Seq({}) /\ Len(<<>>) = 0
      BY EmptySeq
    <3>3. <<>> \in [1..0 -> {}] /\ 1..0 = {}
      BY <3>2, LenProperties
    <3> QED  BY <3>1, <3>3
  <2> QED  BY <2>2 DEF Histories
<1>5. History!HistoryInit
  BY <1>3, <1>4 DEF History!HistoryInit, Current, Histories, VersionsOf
<1> QED  BY <1>2, <1>5

\* The directory between two requests, and what the handler under way has made
\* of it.
THEOREM HistoryInvariantHolds ==
    ASSUME HistoryConditions
    PROVE  RefinementSpec => []RInv
<1>1. ASSUME RInv, [RefinementNext]_<<vars, settled>>
      PROVE  RInv'
  <2>1. CASE RefinementNext
    BY <1>1, <2>1, NextRefines
  <2>2. CASE UNCHANGED <<vars, settled>>
    <3>1. IInv'
      BY <1>1, <2>2, StepIInv DEF RInv
    <3>2. ASSUME NEW t \in Threads
          PROVE  (IF pc[t] = "idle" THEN store = settled ELSE HandlerAt(t))'
      <4>1. UNCHANGED <<store, handle, copied, pc, req, ver, todo, settled>>
        BY <2>2 DEF vars
      <4>2. IF pc[t] = "idle" THEN store = settled ELSE HandlerAt(t)
        BY <1>1 DEF RInv
      <4> QED  BY <4>1, <4>2, NothingHappens
    <3> QED  BY <1>1, <2>2, <3>1, <3>2 DEF RInv, SettledTypeOK
  <2> QED  BY <1>1, <2>1, <2>2
<1> QED  BY <1>1, InitRefines, PTL DEF RefinementSpec

\* With one worker, no kill and no failing I/O, every request changes what the
\* user can see as if it were one step: a write changes the file and adds its
\* next version, a restore, delete or deleteAll does what it says, and nothing
\* in between is visible (write, restore_version, delete_version,
\* delete_all_versions).
THEOREM HistoryIsImplemented ==
    ASSUME HistoryConditions
    PROVE  RefinementSpec => ImplementsHistory
<1>1. ASSUME RInv, [RefinementNext]_<<vars, settled>>
      PROVE  [History!HistoryNext]_<<Current, Histories>>
  <2>1. ASSUME settled' = settled
        PROVE  UNCHANGED <<Current, Histories>>
    BY <2>1 DEF Current, Histories, VersionsOf, SettledVersions
  <2> QED  BY <1>1, <2>1, NextRefines
<1>2. RInv /\ [RefinementNext]_<<vars, settled>> => [History!HistoryNext]_(History!histVars)
  BY <1>1 DEF History!histVars, Current, Histories, VersionsOf
<1> QED
  BY <1>2, InitRefines, HistoryInvariantHolds, PTL
     DEF RefinementSpec, ImplementsHistory, History!HistorySpec
=============================================================================
