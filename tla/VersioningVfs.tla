---------------------------- MODULE VersioningVfs ----------------------------
(***************************************************************************)
(* The versioning decorator.  Every write of a file stores a copy of the   *)
(* file in a version file; writing to a hook file ("#VERSION-restore-2#f") *)
(* restores, deletes or lists versions.                                    *)
(*                                                                         *)
(* fuse_main runs the handlers on several threads and VersioningVfs holds  *)
(* no lock, so a handler is modelled as the sequence of its calls on the   *)
(* backing directory, interleaved with the other handlers' calls.  What    *)
(* the kernel serialises stays serial: two requests for the same file (it  *)
(* locks the inode) are never in flight together, but a hook is a file of  *)
(* its own and its handler works on f while a write of f is in flight.     *)
(*                                                                         *)
(* An exception that leaves the write handler ends the daemon              *)
(* (std::terminate): only hooks are inside a try block.                    *)
(***************************************************************************)
EXTENDS CustomVfs, FiniteSets

CONSTANTS
    NoRequest,   \* the request of an idle worker
    Crashes,     \* BOOLEAN: the daemon may be killed between any two calls
    IOErrors,    \* BOOLEAN: ::pwrite and the copying of data may fail
    ByName       \* BOOLEAN: clients open version files under their own names

ASSUME RequestAssumption ==
    /\ Crashes \in BOOLEAN
    /\ IOErrors \in BOOLEAN
    /\ ByName \in BOOLEAN

VARIABLES
    daemon,   \* "running", "killed" or "aborted" (by an uncaught exception)
    pc,       \* where each worker stands in its handler
    req,      \* the request each worker handles
    ver,      \* the version number a write has chosen
    todo,     \* the version files a deleteAll or list has read and not visited
    reply     \* the result the handler is going to return

workerVars == <<pc, req, ver, todo, reply>>
vars == <<store, handle, copied, opened, daemon, pc, req, ver, todo, reply>>

WriteReq == [op : {"write"}, file : Files, block : Blocks, datum : Data]
VersionedReq == [op : {"restore", "delete"}, file : Files, version : Versions]
UnversionedReq == [op : {"deleteAll", "list"}, file : Files]
Requests == WriteReq \union VersionedReq \union UnversionedReq

ASSUME NoRequestAssumption == NoRequest \notin Requests

WritePC == {"scan", "openForWrite", "pwrite"}
CopyPC == {"copyOpen", "copyFill", "copyTouch"}
HookPC == {"check", "restoreUnlink", "deleteUnlink", "readNames",
           "unlinkVersions", "unlinkFile", "unlinkAgain"}
PC == {"idle", "return"} \union WritePC \union CopyPC \union HookPC

Replies == {"none", "ok", "enoent", "unavailable", "failed"}

TypeOK ==
    /\ StoreTypeOK
    /\ daemon \in {"running", "killed", "aborted"}
    /\ pc \in [Threads -> PC]
    /\ req \in [Threads -> Requests \union {NoRequest}]
    /\ ver \in [Threads -> 0..MaxVersion]
    /\ todo \in [Threads -> SUBSET Versions]
    /\ reply \in [Threads -> Replies]

Init ==
    /\ StoreInit
    /\ daemon = "running"
    /\ pc = [t \in Threads |-> "idle"]
    /\ req = [t \in Threads |-> NoRequest]
    /\ ver = [t \in Threads |-> 0]
    /\ todo = [t \in Threads |-> {}]
    /\ reply = [t \in Threads |-> "none"]

-----------------------------------------------------------------------------
(* Control *)

At(t, label) == pc[t] = label
Goto(t, label) == pc' = [pc EXCEPT ![t] = label]

Answer(t, r) ==
    /\ Goto(t, "return")
    /\ reply' = [reply EXCEPT ![t] = r]
    /\ UNCHANGED <<req, ver, todo, daemon>>

Writing(f) == \E t \in Threads : /\ req[t] # NoRequest
                                 /\ req[t].op = "write"
                                 /\ req[t].file = f

\* The daemon ends: its threads and the clients' open files are gone, the
\* backing directory stays as it is.
Stop(how) ==
    /\ daemon' = how
    /\ pc' = [t \in Threads |-> "idle"]
    /\ req' = [t \in Threads |-> NoRequest]
    /\ ver' = [t \in Threads |-> 0]
    /\ todo' = [t \in Threads |-> {}]
    /\ reply' = [t \in Threads |-> "none"]
    /\ handle' = [t \in Threads |-> NoName]
    /\ copied' = [t \in Threads |-> Empty]
    /\ opened' = {}
    /\ UNCHANGED store

Begin(t, r, label) ==
    /\ daemon = "running"
    /\ At(t, "idle")
    /\ \A u \in Threads : req[u] # r
    /\ req' = [req EXCEPT ![t] = r]
    /\ Goto(t, label)
    /\ UNCHANGED <<storeVars, daemon, ver, todo, reply>>

\* The handler returns to libfuse.
Return(t) ==
    /\ At(t, "return")
    /\ Goto(t, "idle")
    /\ req' = [req EXCEPT ![t] = NoRequest]
    /\ ver' = [ver EXCEPT ![t] = 0]
    /\ todo' = [todo EXCEPT ![t] = {}]
    /\ reply' = [reply EXCEPT ![t] = "none"]
    /\ UNCHANGED <<storeVars, daemon>>

-----------------------------------------------------------------------------
(* write of a file that is neither a hook nor prefixed *)

BeginWrite(t, f) ==
    /\ f \in opened
    /\ ~Writing(f)
    /\ ~Exists(VersionName(f, MaxVersion))
    /\ \E b \in Blocks, d \in Data :
         Begin(t, [op |-> "write", file |-> f, block |-> b, datum |-> d], "scan")

\* Mutant of IsMaxVersion: the number before the first free one.
IsBeforeGap(f, n) ==
    /\ n + 1 \notin RelatedVersions(f)
    /\ 1..n \subseteq RelatedVersions(f)

\* Mutant of IsMaxVersion: the versions are counted.
IsVersionCount(f, n) == n = Cardinality(RelatedVersions(f))

\* get_max_version: n is the largest version number of f, 0 without versions
IsMaxVersion(f, n) ==
    /\ n = 0 \/ n \in RelatedVersions(f)
    /\ \A m \in RelatedVersions(f) : m <= n

\* Mutant of Scan: the number is increased twice.
ScanTwice(t) ==
    /\ At(t, "scan")
    /\ \E n \in 0..MaxVersion :
         /\ IsMaxVersion(req[t].file, n)
         /\ ver' = [ver EXCEPT ![t] = n + 2]
    /\ Goto(t, "openForWrite")
    /\ UNCHANGED <<storeVars, daemon, req, todo, reply>>

Scan(t) ==
    /\ At(t, "scan")
    /\ \E n \in 0..MaxVersion :
         /\ IsMaxVersion(req[t].file, n)
         /\ ver' = [ver EXCEPT ![t] = n + 1]
    /\ Goto(t, "openForWrite")
    /\ UNCHANGED <<storeVars, daemon, req, todo, reply>>

\* CustomVfs::write: a file that has gone is answered with -ENOENT, and the
\* handler goes on to the copy
WriteOpen(t) ==
    /\ At(t, "openForWrite")
    /\ LET x == BaseName(req[t].file) IN
         \/ /\ OpenForWrite(t, x)
            /\ Goto(t, "pwrite")
            /\ UNCHANGED reply
         \/ /\ ~Exists(x)
            /\ reply' = [reply EXCEPT ![t] = "enoent"]
            /\ Goto(t, "copyOpen")
            /\ UNCHANGED storeVars
    /\ UNCHANGED <<daemon, req, ver, todo>>

\* Mutant of WritePwrite: the result of ::pwrite is ignored.
WritePwriteUnchecked(t) ==
    /\ At(t, "pwrite")
    /\ \/ PwriteBlock(t, req[t].block, req[t].datum)
       \/ IOErrors /\ CloseHandle(t)
    /\ reply' = [reply EXCEPT ![t] = "ok"]
    /\ Goto(t, "copyOpen")
    /\ UNCHANGED <<daemon, req, ver, todo>>

WritePwrite(t) ==
    /\ At(t, "pwrite")
    /\ \/ /\ PwriteBlock(t, req[t].block, req[t].datum)
          /\ reply' = [reply EXCEPT ![t] = "ok"]
       \/ /\ IOErrors
          /\ CloseHandle(t)
          /\ reply' = [reply EXCEPT ![t] = "failed"]
    /\ Goto(t, "copyOpen")
    /\ UNCHANGED <<daemon, req, ver, todo>>

-----------------------------------------------------------------------------
(* copy_file: from the file to its new version in a write, from the version
   to the file in a restore *)

CopySource(t) == IF req[t].op = "write" THEN BaseName(req[t].file)
                 ELSE VersionName(req[t].file, req[t].version)

CopyTarget(t) == IF req[t].op = "write" THEN VersionName(req[t].file, ver[t])
                 ELSE BaseName(req[t].file)

\* Mutant of Throw: the hook handler swallows the exception.
ThrowSwallowed(t) == IF req[t].op = "write" THEN Stop("aborted")
                     ELSE /\ handle' = [handle EXCEPT ![t] = NoName]
                          /\ copied' = [copied EXCEPT ![t] = Empty]
                          /\ UNCHANGED <<store, opened>>
                          /\ Answer(t, "ok")

\* An exception of copy_file: the hook handler catches it and returns -1,
\* nobody catches it on the write path.
Throw(t) == IF req[t].op = "write" THEN Stop("aborted")
            ELSE /\ handle' = [handle EXCEPT ![t] = NoName]
                 /\ copied' = [copied EXCEPT ![t] = Empty]
                 /\ UNCHANGED <<store, opened>>
                 /\ Answer(t, "failed")

Copy(t) ==
    /\ At(t, "copyOpen")
    /\ \/ /\ CopyOpen(t, CopySource(t), CopyTarget(t))
          /\ Goto(t, "copyFill")
          /\ UNCHANGED <<daemon, req, ver, todo, reply>>
       \/ /\ CopyThrows(CopySource(t), CopyTarget(t))
          /\ Throw(t)

CopyData(t) ==
    /\ At(t, "copyFill")
    /\ \/ /\ CopyFill(t)
          /\ Goto(t, "copyTouch")
          /\ UNCHANGED <<daemon, req, ver, todo, reply>>
       \/ /\ IOErrors
          /\ Throw(t)

CopyTouch(t) ==
    /\ At(t, "copyTouch")
    /\ TouchName(CopyTarget(t))
    /\ Answer(t, IF req[t].op = "write" THEN reply[t] ELSE "ok")

-----------------------------------------------------------------------------
(* Hooks *)

BeginHook(t, f) ==
    \/ \E c \in {"restore", "delete"}, v \in Versions :
         Begin(t, [op |-> c, file |-> f, version |-> v], "check")
    \/ \E c \in {"deleteAll", "list"} :
         Begin(t, [op |-> c, file |-> f], "check")

\* The name a hook wants to exist: the version it was given, or the file.
Wanted(r) == IF r.op \in {"restore", "delete"} THEN VersionName(r.file, r.version)
             ELSE BaseName(r.file)

FirstStep(op) == CASE op = "restore" -> "restoreUnlink"
                   [] op = "delete" -> "deleteUnlink"
                   [] OTHER -> "readNames"

HookCheck(t) ==
    /\ At(t, "check")
    /\ UNCHANGED storeVars
    /\ \/ /\ Exists(Wanted(req[t]))
          /\ Goto(t, FirstStep(req[t].op))
          /\ UNCHANGED <<daemon, req, ver, todo, reply>>
       \/ /\ ~Exists(Wanted(req[t]))
          /\ Answer(t, "unavailable")

\* Mutant of RestoreUnlink: the wrong file is removed.
RestoreUnlinkVersion(t) ==
    /\ At(t, "restoreUnlink")
    /\ UnlinkName(VersionName(req[t].file, req[t].version))
    /\ Goto(t, "copyOpen")
    /\ UNCHANGED <<daemon, req, ver, todo, reply>>

\* restore_version: the current file is removed before the copy starts
RestoreUnlink(t) ==
    /\ At(t, "restoreUnlink")
    /\ UnlinkName(BaseName(req[t].file))
    /\ Goto(t, "copyOpen")
    /\ UNCHANGED <<daemon, req, ver, todo, reply>>

DeleteVersion(t) ==
    /\ At(t, "deleteUnlink")
    /\ UnlinkName(VersionName(req[t].file, req[t].version))
    /\ Answer(t, "ok")

\* get_related_names of a deleteAll or of a list
ReadNames(t) ==
    /\ At(t, "readNames")
    /\ todo' = [todo EXCEPT ![t] = RelatedVersions(req[t].file)]
    /\ Goto(t, IF req[t].op = "list" THEN "return" ELSE "unlinkVersions")
    /\ reply' = [reply EXCEPT ![t] = "ok"]
    /\ UNCHANGED <<storeVars, daemon, req, ver>>

\* Mutant of UnlinkVersions: the loop ends early.
UnlinkSomeVersions(t) ==
    /\ At(t, "unlinkVersions")
    /\ UNCHANGED <<daemon, req, ver, reply>>
    /\ \/ \E n \in todo[t] :
            /\ UnlinkName(VersionName(req[t].file, n))
            /\ todo' = [todo EXCEPT ![t] = @ \ {n}]
            /\ UNCHANGED pc
       \/ /\ Goto(t, "unlinkFile")
          /\ UNCHANGED <<storeVars, todo>>

\* Mutant of UnlinkVersions: the loop reads the directory again and again.
UnlinkVersionsAgain(t) ==
    /\ At(t, "unlinkVersions")
    /\ UNCHANGED <<daemon, req, ver, reply>>
    /\ \/ \E n \in todo[t] :
            /\ UnlinkName(VersionName(req[t].file, n))
            /\ todo' = [todo EXCEPT ![t] = Versions]
            /\ UNCHANGED pc
       \/ /\ todo[t] = {}
          /\ Goto(t, "unlinkFile")
          /\ UNCHANGED <<storeVars, todo>>

\* delete_all_versions: the version files in the order of the directory, then
\* the file, then the file once more
UnlinkVersions(t) ==
    /\ At(t, "unlinkVersions")
    /\ UNCHANGED <<daemon, req, ver, reply>>
    /\ \/ \E n \in todo[t] :
            /\ UnlinkName(VersionName(req[t].file, n))
            /\ todo' = [todo EXCEPT ![t] = @ \ {n}]
            /\ UNCHANGED pc
       \/ /\ todo[t] = {}
          /\ Goto(t, "unlinkFile")
          /\ UNCHANGED <<storeVars, todo>>

UnlinkFile(t) ==
    /\ At(t, "unlinkFile")
    /\ UnlinkName(BaseName(req[t].file))
    /\ Goto(t, "unlinkAgain")
    /\ UNCHANGED <<daemon, req, ver, todo, reply>>

UnlinkAgain(t) ==
    /\ At(t, "unlinkAgain")
    /\ UnlinkName(BaseName(req[t].file))
    /\ Answer(t, "ok")

-----------------------------------------------------------------------------
(* Requests that are one call, the end of the daemon and its restart *)

WorkerFree == daemon = "running" /\ \E t \in Threads : At(t, "idle")

OneCall ==
    /\ WorkerFree
    /\ \E f \in Files :
         \/ Mknod(f)
         \/ Open(f)
         \/ ~Writing(f) /\ \/ Release(f)
                           \/ Truncate(BaseName(f))
                           \/ Unlink(f)
                           \/ \E g \in Files : ~Writing(g) /\ Rename(f, g)
    /\ UNCHANGED <<daemon, workerVars>>

\* Version files are hidden, not protected: a client that knows the name of one
\* can write it (a prefixed name that is no hook), cut it or remove it.
VersionByName(f, n) ==
    /\ ByName
    /\ WorkerFree
    /\ Exists(VersionName(f, n))
    /\ \/ Overwrite(VersionName(f, n))
       \/ Truncate(VersionName(f, n))
       \/ UnlinkName(VersionName(f, n))
    /\ UNCHANGED <<daemon, workerVars>>

Kill == Crashes /\ daemon = "running" /\ Stop("killed")

Remount ==
    /\ daemon # "running"
    /\ daemon' = "running"
    /\ UNCHANGED <<storeVars, workerVars>>

Step(t) ==
    \/ Return(t)
    \/ Scan(t)
    \/ WriteOpen(t)
    \/ WritePwrite(t)
    \/ Copy(t)
    \/ CopyData(t)
    \/ CopyTouch(t)
    \/ HookCheck(t)
    \/ RestoreUnlink(t)
    \/ DeleteVersion(t)
    \/ ReadNames(t)
    \/ UnlinkVersions(t)
    \/ UnlinkFile(t)
    \/ UnlinkAgain(t)

Next ==
    \/ \E t \in Threads, f \in Files : BeginWrite(t, f) \/ BeginHook(t, f)
    \/ \E t \in Threads : Step(t)
    \/ OneCall
    \/ \E f \in Files, n \in Versions : VersionByName(f, n)
    \/ Kill
    \/ Remount

Spec == Init /\ [][Next]_vars

\* Every call on the backing directory returns and every thread is scheduled.
FairSpec == Spec /\ \A t \in Threads : WF_vars(Step(t))

-----------------------------------------------------------------------------
(* Safety *)

\* The versions of a file being written are older than the one its writer has
\* chosen, so that copy_file never finds its target taken (get_max_version and
\* write; hooks of other workers may delete versions in between).
NewVersionIsFresh ==
    \A t \in Threads :
      /\ pc[t] \in {"openForWrite", "pwrite", "copyOpen"}
      /\ req[t].op = "write"
      => \A m \in RelatedVersions(req[t].file) : m < ver[t]

\* The steps that may remove version n of f: a delete of that version and a
\* deleteAll of the file.
Deletes(t, f, n) ==
    \/ /\ At(t, "deleteUnlink")
       /\ req[t].file = f
       /\ req[t].version = n
    \/ /\ At(t, "unlinkVersions")
       /\ req[t].file = f

\* A stored version never changes: once its copy is complete its content stays
\* what it is, whatever is written, restored or renamed, through crashes too,
\* until a hook deletes it or a client changes it under its own name (write and
\* handle_hook).
StoredVersionsImmutable ==
    [][\A f \in Files, n \in Versions :
         LET x == VersionName(f, n) IN
         (Exists(x) /\ \A t \in Threads : handle[t] # x)
         => \/ store'[x] = store[x]
            \/ store'[x] = Absent /\ \E t \in Threads : Deletes(t, f, n)
            \/ VersionByName(f, n)]_vars

\* Version numbers follow the order of the writes: the version a write stores
\* is larger than every version its file has (max_version + 1).
VersionsInOrder ==
    [][\A f \in Files, n \in Versions :
         ~Exists(VersionName(f, n)) /\ store'[VersionName(f, n)] # Absent
         => \A m \in RelatedVersions(f) : m < n]_vars

\* A write that reports success has stored what it wrote: its version, unless
\* it has been deleted since, holds the datum in the block written.
WriteIsVersioned ==
    \A t \in Threads :
      At(t, "return") /\ reply[t] = "ok" /\ req[t].op = "write"
      => LET x == VersionName(req[t].file, ver[t]) IN
         Exists(x) => store[x][req[t].block] = req[t].datum

\* A restore that reports success leaves the file with the content of the
\* version asked for (restore_version: unlink, then copy).
RestoreSetsCurrent ==
    \A t \in Threads :
      At(t, "return") /\ reply[t] = "ok" /\ req[t].op = "restore"
      => store[BaseName(req[t].file)]
           = store[VersionName(req[t].file, req[t].version)]

\* No exception ends the daemon but that of a write whose file has gone when it
\* is copied, or whose copy fails: never one of a version that is there already
\* (copy_file throws then too, and write does not catch it).
AbortsOnlyWithoutSource ==
    [][daemon = "running" /\ daemon' = "aborted"
         => \E t \in Threads :
              /\ req[t] # NoRequest /\ req[t].op = "write"
              /\ At(t, "copyFill") \/ (At(t, "copyOpen") /\ ~Exists(CopySource(t)))]_vars

(* Liveness *)

\* Every request is answered, or the daemon ends: no handler loops or waits.
RequestsAreAnswered == \A t \in Threads : pc[t] # "idle" ~> pc[t] = "idle"
=============================================================================
