---------------------------- MODULE EncryptionVfs ----------------------------
(***************************************************************************)
(* The encryption decorator.  Writing to a hook file                       *)
(* ("#ENCRYPTION-lock#f") seals a file and its version files: the content  *)
(* moves, encrypted, to a marker file ("#ENCRYPTION-pass#f" for a password,*)
(* "#ENCRYPTION-key#f" for a key file) and the file shows a placeholder.   *)
(* A file sealed with the default key is unsealed by open and sealed again *)
(* by release; an empty marker "#ENCRYPTION-tmp#f" stands for it meanwhile.*)
(*                                                                         *)
(* A handler is the sequence of its calls on the backing directory.  The   *)
(* decorator below is one call: VersioningVfs is checked to change what a  *)
(* client sees as if its handlers were atomic (VersioningRefinement).      *)
(* Streams are followed by name, and a content is one datum under the keys *)
(* it is sealed with.                                                      *)
(***************************************************************************)
EXTENDS Naturals, Sequences, FiniteSets, Functions

CONSTANTS
    Files,         \* base names without '#'
    Data,          \* contents a client writes
    KeyFiles,      \* what the readable key files hold
    Passwords,     \* what passwords derive
    MaxVersion,    \* bound: no write is started at version MaxVersion
    MaxOpens,      \* bound on the clients that hold a file open
    MaxSeals,      \* bound: a name with MaxSeals prefixes is not sealed again
    Threads,       \* the worker threads of fuse_main
    Nothing,       \* what an empty file holds
    Placeholder,   \* "This file is encrypted"
    Garbled,       \* a placeholder that a short content has partly overwritten
    NoDefault,     \* the path file of the default key does not exist
    BadDefault,    \* the path file names a key that cannot be read
    NoCred, NoRequest,
    Crashes,       \* BOOLEAN: the daemon may be killed between any two calls
    Disciplined    \* BOOLEAN: clients respect the locks, see "Clients" below

ASSUME BoundsAssumption ==
    /\ MaxVersion \in Nat \ {0}
    /\ MaxOpens \in Nat \ {0}
    /\ MaxSeals \in Nat \ {0}

ASSUME SwitchAssumption ==
    {Crashes, Disciplined} \subseteq BOOLEAN

\* No client writes the placeholder itself: its file would pass for a hidden one.
ASSUME PlaceholderAssumption ==
    Placeholder \notin Data \union {Nothing}

ASSUME NoDefaultAssumption ==
    NoDefault \notin KeyFiles

Keys == KeyFiles \union Passwords
Creds == ({"key"} \X KeyFiles) \union ({"pass"} \X Passwords)
Kinds == {"key", "pass"}

ASSUME NoCredAssumption ==
    NoCred \notin Creds

\* A name: file, version (0 is the file itself), ENCRYPTION prefixes.
Plain(f, v) == <<f, v, <<>> >>
Marker(x, kind) == <<x[1], x[2], <<kind>> \o x[3]>>
Targets == {Plain(f, 0) : f \in Files}
Names == Files \X (0..MaxVersion)
               \X UNION {[1..n -> Kinds \union {"tmp"}] : n \in 0..MaxSeals}

Of(d) == [seals |-> <<>>, data |-> d]
Seal(c, k) == [c EXCEPT !.seals = <<k>> \o @]
Unseal(c) == [c EXCEPT !.seals = Tail(@)]
Opens(k, c) == c.seals # <<>> /\ Head(c.seals) = k
Contents == [seals : UNION {[1..n -> Keys] : n \in 0..MaxSeals},
             data : Data \union {Nothing, Placeholder, Garbled}]

Requests ==
    [op : {"lock", "unlock"}, name : Targets, cred : Creds]
      \union [op : {"defaultLock", "open", "release"}, name : Targets]

VARIABLES
    store,     \* the backing directory: a function from the names it has
    default,   \* what the path file of the default key leads to
    opened,    \* how many clients hold each file open
    pc,        \* where each worker stands in its handler
    req,       \* the request each worker handles
    cred,      \* the marker word and the key the handler works with
    todo,      \* the related files it has not visited
    cur,       \* the related file it works on
    buf,       \* what it has read from a marker
    success,   \* no file of this handler has failed to decrypt
    reply      \* the result it is going to return

jobVars == <<req, cred, todo, cur, buf, success>>
vars == <<store, default, opened, pc, req, cred, todo, cur, buf, success, reply>>

SealPC == {"isEncrypted", "sealOpen", "sealWrite", "sealHide"}
UnsealPC == {"unsealOpen", "unsealWrite", "unsealRemove"}
PC == {"idle", "return", "loadDefault", "readRelated", "checkLocked", "makeTmp",
       "openFile", "checkTmp", "removeTmp", "reloadDefault", "closeAgain"}
        \union SealPC \union UnsealPC

TypeOK ==
    /\ DOMAIN store \subseteq Names
    /\ \A x \in DOMAIN store : store[x] \in Contents
    /\ default \in KeyFiles \union {NoDefault, BadDefault}
    /\ opened \in [Targets -> 0..MaxOpens]
    /\ pc \in [Threads -> PC]
    /\ req \in [Threads -> Requests \union {NoRequest}]
    /\ cred \in [Threads -> Creds \union {NoCred}]
    /\ todo \in [Threads -> SUBSET Names]
    /\ cur \in [Threads -> Names \union {NoRequest}]
    /\ buf \in [Threads -> Contents]
    /\ success \in [Threads -> BOOLEAN]
    /\ reply \in [Threads -> {"none", "ok", "failed", "enoent", "ebadf"}]

NoClients == [x \in Targets |-> 0]

JobsInit ==
    /\ pc = [t \in Threads |-> "idle"]
    /\ req = [t \in Threads |-> NoRequest]
    /\ cred = [t \in Threads |-> NoCred]
    /\ todo = [t \in Threads |-> {}]
    /\ cur = [t \in Threads |-> NoRequest]
    /\ buf = [t \in Threads |-> Of(Nothing)]
    /\ success = [t \in Threads |-> TRUE]
    /\ reply = [t \in Threads |-> "none"]

Init ==
    /\ store = <<>>
    /\ default = NoDefault
    /\ opened = NoClients
    /\ JobsInit

-----------------------------------------------------------------------------
(* The backing directory *)

Exists(x) == x \in DOMAIN store

\* ofstream: creates or truncates x, then writes c
Put(x, c) == [y \in DOMAIN store \union {x} |-> IF y = x THEN c ELSE store[y]]

\* a stream on x that was opened before: nothing appears when x has gone
Fill(x, c) == IF Exists(x) THEN [store EXCEPT ![x] = c] ELSE store

Without(X) == Restrict(store, DOMAIN store \ X)
Read(x) == IF Exists(x) THEN store[x] ELSE Of(Nothing)

\* EncryptionVfs::is_encrypted
IsEncrypted(x) == \E kind \in Kinds : Exists(Marker(x, kind))
Tmp(x) == Marker(x, "tmp")

\* The names VersioningVfs::get_related_names finds: the version files of f,
\* those that carry ENCRYPTION prefixes too.
VersionNames(f) == {x \in DOMAIN store : x[1] = f /\ x[2] # 0}

\* Mutant of Related: the versions are forgotten.
RelatedNone(x) == {x}

\* VersioningVfs::get_related_files
Related(x) == {x} \union VersionNames(x[1])

-----------------------------------------------------------------------------
(* Control *)

At(t, label) == pc[t] = label
Goto(t, label) == pc' = [pc EXCEPT ![t] = label]

Answer(t, r) ==
    /\ Goto(t, "return")
    /\ reply' = [reply EXCEPT ![t] = r]

\* The handler goes on, and only the backing directory changes.
Then(t, label) ==
    /\ Goto(t, label)
    /\ UNCHANGED <<default, opened, jobVars, reply>>

Begin(t, r, c, label) ==
    /\ At(t, "idle")
    /\ Goto(t, label)
    /\ req' = [req EXCEPT ![t] = r]
    /\ cred' = [cred EXCEPT ![t] = c]
    /\ UNCHANGED <<store, default, opened, todo, cur, buf, success, reply>>

Return(t) ==
    /\ At(t, "return")
    /\ Goto(t, "idle")
    /\ req' = [req EXCEPT ![t] = NoRequest]
    /\ cred' = [cred EXCEPT ![t] = NoCred]
    /\ todo' = [todo EXCEPT ![t] = {}]
    /\ cur' = [cur EXCEPT ![t] = NoRequest]
    /\ buf' = [buf EXCEPT ![t] = Of(Nothing)]
    /\ success' = [success EXCEPT ![t] = TRUE]
    /\ reply' = [reply EXCEPT ![t] = "none"]
    /\ UNCHANGED <<store, default, opened>>

Sealing(t) == req[t].op \in {"lock", "defaultLock", "release"}

\* Mutant of Finish: hooks always report success.
FinishWell(t, ok) ==
    /\ CASE req[t].op = "release" -> Answer(t, "ok")
         [] req[t].op = "open" -> /\ Goto(t, IF ok THEN "makeTmp" ELSE "openFile")
                                  /\ UNCHANGED reply
         [] OTHER -> Answer(t, "ok")
    /\ UNCHANGED <<store, default, opened, jobVars>>

\* encrypt_file or decrypt_file returns to its caller.  release ignores the
\* result; open takes a failure for an ordinary open.
Finish(t, ok) ==
    /\ CASE req[t].op = "release" -> Answer(t, "ok")
         [] req[t].op = "open" -> /\ Goto(t, IF ok THEN "makeTmp" ELSE "openFile")
                                  /\ UNCHANGED reply
         [] OTHER -> Answer(t, IF ok THEN "ok" ELSE "failed")
    /\ UNCHANGED <<store, default, opened, jobVars>>

\* Mutant of UseDefault: a key that cannot be read is used.
UseAnyDefault(t, label) ==
    /\ cred' = [cred EXCEPT ![t] = <<"key", default>>]
    /\ Goto(t, label)
    /\ UNCHANGED <<store, default, opened, req, todo, cur, buf, success, reply>>

\* get_default_key_encryptor
UseDefault(t, label) ==
    /\ default \in KeyFiles
    /\ cred' = [cred EXCEPT ![t] = <<"key", default>>]
    /\ Goto(t, label)
    /\ UNCHANGED <<store, default, opened, req, todo, cur, buf, success, reply>>

-----------------------------------------------------------------------------
(* encrypt_file *)

\* Mutant of CheckEncrypted: a locked file is locked again.
CheckNothing(t) ==
    /\ At(t, "isEncrypted")
    /\ Then(t, "readRelated")
    /\ UNCHANGED store

CheckEncrypted(t) ==
    /\ At(t, "isEncrypted")
    /\ \/ IsEncrypted(req[t].name) /\ Finish(t, FALSE)
       \/ /\ ~IsEncrypted(req[t].name)
          /\ Then(t, "readRelated")
          /\ UNCHANGED store

\* prepare_files
ReadRelated(t) ==
    /\ At(t, "readRelated")
    /\ todo' = [todo EXCEPT ![t] = Related(req[t].name)]
    /\ Goto(t, IF Sealing(t) THEN "sealOpen" ELSE "unsealOpen")
    /\ UNCHANGED <<store, default, opened, req, cred, cur, buf, success, reply>>

\* The version files come in the order of the directory, the file comes last.
NextFile(t, x) ==
    /\ x = req[t].name => todo[t] = {x}
    /\ todo' = [todo EXCEPT ![t] = @ \ {x}]
    /\ cur' = [cur EXCEPT ![t] = x]
    /\ UNCHANGED <<default, opened, req, cred, success, reply>>

MarkerOf(t) == Marker(cur[t], cred[t][1])

SealOpen(t) ==
    /\ At(t, "sealOpen")
    /\ \/ todo[t] = {} /\ Finish(t, TRUE)
       \/ \E x \in todo[t] :
            /\ NextFile(t, x)
            /\ UNCHANGED buf
            /\ IF Len(x[3]) = MaxSeals THEN UNCHANGED <<store, pc>>
               ELSE /\ store' = Put(Marker(x, cred[t][1]), Of(Nothing))
                    /\ Goto(t, "sealWrite")

\* Mutant of SealWrite: the marker's content is never written.
SealWriteLost(t) ==
    /\ At(t, "sealWrite")
    /\ UNCHANGED store
    /\ Then(t, "sealHide")

SealWrite(t) ==
    /\ At(t, "sealWrite")
    /\ store' = Fill(MarkerOf(t), Seal(Read(cur[t]), cred[t][2]))
    /\ Then(t, "sealHide")

SealHide(t) ==
    /\ At(t, "sealHide")
    /\ store' = Put(cur[t], Of(Placeholder))
    /\ Then(t, "sealOpen")

-----------------------------------------------------------------------------
(* decrypt_file *)

\* Mutant of UnsealOpen: names with an ENCRYPTION prefix are not skipped.
UnsealOpenAll(t) ==
    /\ At(t, "unsealOpen")
    /\ \/ todo[t] = {} /\ Finish(t, success[t])
       \/ \E x \in todo[t] :
            /\ NextFile(t, x)
            /\ buf' = [buf EXCEPT ![t] = Read(Marker(x, cred[t][1]))]
            /\ store' = Put(x, Of(Nothing))
            /\ Goto(t, "unsealWrite")

\* prepare_streams truncates the file before anything is known of the marker.
UnsealOpen(t) ==
    /\ At(t, "unsealOpen")
    /\ \/ todo[t] = {} /\ Finish(t, success[t])
       \/ \E x \in todo[t] :
            /\ NextFile(t, x)
            /\ IF x[3] # <<>> THEN UNCHANGED <<store, pc, buf>>
               ELSE /\ buf' = [buf EXCEPT ![t] = Read(Marker(x, cred[t][1]))]
                    /\ store' = Put(x, Of(Nothing))
                    /\ Goto(t, "unsealWrite")

\* After one failure every later file gets the placeholder.  Its plaintext may
\* have been written all the same: before the placeholder when it is long,
\* after it, when its stream is destroyed, when it is short.
AfterFailure(k, c) ==
    {Of(Placeholder)}
      \union IF Opens(k, c) THEN {Unseal(c), Of(Garbled)} ELSE {}

\* Mutant of UnsealWrite: after a failure the marker is removed all the same.
UnsealWriteRemoving(t) ==
    /\ At(t, "unsealWrite")
    /\ LET opens == Opens(cred[t][2], buf[t]) IN
         \/ /\ opens /\ success[t]
            /\ store' = Fill(cur[t], Unseal(buf[t]))
            /\ UNCHANGED success
         \/ /\ ~(opens /\ success[t])
            /\ store' = Put(cur[t], Of(Placeholder))
            /\ success' = [success EXCEPT ![t] = FALSE]
    /\ Goto(t, "unsealRemove")
    /\ UNCHANGED <<default, opened, req, cred, todo, cur, buf, reply>>

UnsealWrite(t) ==
    /\ At(t, "unsealWrite")
    /\ LET opens == Opens(cred[t][2], buf[t]) IN
         \/ /\ opens /\ success[t]
            /\ store' = Fill(cur[t], Unseal(buf[t]))
            /\ Goto(t, "unsealRemove")
            /\ UNCHANGED success
         \/ /\ ~(opens /\ success[t])
            /\ \E c \in AfterFailure(cred[t][2], buf[t]) : store' = Put(cur[t], c)
            /\ success' = [success EXCEPT ![t] = FALSE]
            /\ Goto(t, "unsealOpen")
    /\ UNCHANGED <<default, opened, req, cred, todo, cur, buf, reply>>

UnsealRemove(t) ==
    /\ At(t, "unsealRemove")
    /\ store' = Without({MarkerOf(t)})
    /\ Then(t, "unsealOpen")

-----------------------------------------------------------------------------
(* Hooks *)

LoadDefault(t) ==
    /\ At(t, "loadDefault")
    /\ \/ UseDefault(t, "isEncrypted")
       \/ /\ default \notin KeyFiles
          /\ Answer(t, "failed")
          /\ UNCHANGED <<store, default, opened, jobVars>>

-----------------------------------------------------------------------------
(* open *)

CheckLocked(t) ==
    /\ At(t, "checkLocked")
    /\ LET locked == Exists(Marker(req[t].name, "key")) IN
         \/ locked /\ UseDefault(t, "readRelated")
         \/ /\ ~(locked /\ default \in KeyFiles)
            /\ Then(t, "openFile")
            /\ UNCHANGED store

\* mknod; a marker that is there already is an ignored EEXIST
MakeTmp(t) ==
    /\ At(t, "makeTmp")
    /\ store' = Put(Tmp(req[t].name), Read(Tmp(req[t].name)))
    /\ Then(t, "openFile")

OpenFile(t) ==
    /\ At(t, "openFile")
    /\ LET x == req[t].name IN
         \/ /\ Exists(x)
            /\ opened' = [opened EXCEPT ![x] = @ + 1]
            /\ Answer(t, "ok")
         \/ /\ ~Exists(x)
            /\ Answer(t, "enoent")
            /\ UNCHANGED opened
    /\ UNCHANGED <<store, default, jobVars>>

-----------------------------------------------------------------------------
(* release *)

Close(t) == opened' = [opened EXCEPT ![req[t].name] = @ - 1]

CheckTmp(t) ==
    /\ At(t, "checkTmp")
    /\ Close(t)
    /\ IF Exists(Tmp(req[t].name)) /\ default # NoDefault
       THEN Goto(t, "removeTmp") /\ UNCHANGED reply
       ELSE Answer(t, "ok")
    /\ UNCHANGED <<store, default, jobVars>>

\* Mutant of RemoveTmp: the marker stays.
KeepTmp(t) ==
    /\ At(t, "removeTmp")
    /\ UNCHANGED store
    /\ Then(t, "reloadDefault")

RemoveTmp(t) ==
    /\ At(t, "removeTmp")
    /\ store' = Without({Tmp(req[t].name)})
    /\ Then(t, "reloadDefault")

ReloadDefault(t) ==
    /\ At(t, "reloadDefault")
    /\ \/ UseDefault(t, "isEncrypted")
       \/ /\ default \notin KeyFiles
          /\ Then(t, "closeAgain")
          /\ UNCHANGED store

\* The descriptor is closed a second time.
CloseAgain(t) ==
    /\ At(t, "closeAgain")
    /\ Answer(t, "ebadf")
    /\ UNCHANGED <<store, default, opened, jobVars>>

-----------------------------------------------------------------------------
(* Clients.  A disciplined client locks files that exist, unlocks files that
   are locked, one request at a time, does not change a locked file or its
   versions, moves or removes a file only when it is not under a lock, and
   names a default key that can be read. *)

Unlocked(x) == ~IsEncrypted(x)
Settled(x) == ~IsEncrypted(x) /\ ~Exists(Tmp(x))
Alone(x) == \A t \in Threads : req[t] # NoRequest => req[t].name # x

BeginLock(t, x) ==
    /\ Disciplined => Exists(x) /\ Alone(x)
    /\ \/ \E c \in Creds :
            Begin(t, [op |-> "lock", name |-> x, cred |-> c], c, "isEncrypted")
       \/ Begin(t, [op |-> "defaultLock", name |-> x], NoCred, "loadDefault")

BeginUnlock(t, x) ==
    /\ Disciplined => IsEncrypted(x) /\ Alone(x)
    /\ \E c \in Creds :
         Begin(t, [op |-> "unlock", name |-> x, cred |-> c], c, "readRelated")

Opening(x) == {t \in Threads : /\ req[t] # NoRequest
                               /\ req[t].op = "open"
                               /\ req[t].name = x
                               /\ ~At(t, "return")}
Closing(x) == {t \in Threads : At(t, "checkTmp") /\ req[t].name = x}

BeginOpen(t, x) ==
    /\ Exists(x)
    /\ opened[x] + Cardinality(Opening(x)) < MaxOpens
    /\ Begin(t, [op |-> "open", name |-> x], NoCred, "checkLocked")

BeginRelease(t, x) ==
    /\ opened[x] > Cardinality(Closing(x))
    /\ Begin(t, [op |-> "release", name |-> x], NoCred, "checkTmp")

\* VersioningVfs::write stores a version of a file.
IsNextVersion(f, n) ==
    /\ \A x \in VersionNames(f) : x[2] < n
    /\ n = 1 \/ \E x \in VersionNames(f) : x[2] = n - 1

Write(x, d) ==
    /\ opened[x] > 0
    /\ Exists(x)
    /\ Disciplined => Unlocked(x)
    /\ \E n \in 1..MaxVersion :
         /\ IsNextVersion(x[1], n)
         /\ store' = [y \in DOMAIN store \union {x, Plain(x[1], n)} |->
                        IF y \in {x, Plain(x[1], n)} THEN Of(d) ELSE store[y]]
    /\ UNCHANGED opened

Truncate(x) ==
    /\ Exists(x)
    /\ Disciplined => Unlocked(x)
    /\ store' = Put(x, Of(Nothing))
    /\ UNCHANGED opened

\* generate_encryption_file writes a new key over the file, or makes it, and
\* stores no version.  Its stream is empty first: that is a Truncate.
Generate(x, d) ==
    /\ Disciplined => Unlocked(x) /\ (Exists(x) \/ Settled(x))
    /\ store' = Put(x, Of(d))
    /\ UNCHANGED opened

Mknod(f) ==
    /\ ~Exists(Plain(f, 0))
    /\ Disciplined => Settled(Plain(f, 0))
    /\ store' = Put(Plain(f, 0), Of(Nothing))
    /\ UNCHANGED opened

\* A client that has the file open goes on under a hidden name of libfuse.
Unlink(f) ==
    /\ Exists(Plain(f, 0))
    /\ Disciplined => Settled(Plain(f, 0))
    /\ store' = Without({Plain(f, 0)})
    /\ opened' = [opened EXCEPT ![Plain(f, 0)] = 0]

Rename(f, g) ==
    LET x == Plain(f, 0)
        y == Plain(g, 0)
    IN  /\ f # g
        /\ Exists(x)
        /\ Disciplined => Settled(x) /\ Settled(y)
        /\ store' = [z \in (DOMAIN store \ {x}) \union {y} |->
                       IF z = y THEN store[x] ELSE store[z]]
        /\ opened' = [opened EXCEPT ![y] = opened[x], ![x] = 0]

RestoreVersion(f, n) ==
    /\ Exists(Plain(f, n))
    /\ Disciplined => Unlocked(Plain(f, 0))
    /\ store' = Put(Plain(f, 0), store[Plain(f, n)])
    /\ UNCHANGED opened

DeleteVersion(f, n) ==
    /\ Exists(Plain(f, n))
    /\ Disciplined => Unlocked(Plain(f, 0))
    /\ store' = Without({Plain(f, n)})
    /\ UNCHANGED opened

DeleteAllVersions(f) ==
    /\ Exists(Plain(f, 0))
    /\ Disciplined => Settled(Plain(f, 0))
    /\ store' = Without(VersionNames(f) \union {Plain(f, 0)})
    /\ UNCHANGED opened

WorkerFree == \E t \in Threads : At(t, "idle")

OneCall ==
    /\ WorkerFree
    /\ \/ \E x \in Targets : Truncate(x) \/ \E d \in Data : Write(x, d) \/ Generate(x, d)
       \/ \E f \in Files : \/ Mknod(f)
                           \/ Unlink(f)
                           \/ DeleteAllVersions(f)
                           \/ \E g \in Files : Rename(f, g)
                           \/ \E n \in 1..MaxVersion : \/ RestoreVersion(f, n)
                                                       \/ DeleteVersion(f, n)
    /\ UNCHANGED <<default, pc, jobVars, reply>>

\* The setDefault hook writes the path file and does not look at the key.
SetDefault ==
    /\ WorkerFree
    /\ default' \in KeyFiles \union (IF Disciplined THEN {} ELSE {BadDefault})
    /\ UNCHANGED <<store, opened, pc, jobVars, reply>>

\* The daemon is killed and mounted again.
Restart ==
    /\ Crashes
    /\ opened' = NoClients
    /\ pc' = [t \in Threads |-> "idle"]
    /\ req' = [t \in Threads |-> NoRequest]
    /\ cred' = [t \in Threads |-> NoCred]
    /\ todo' = [t \in Threads |-> {}]
    /\ cur' = [t \in Threads |-> NoRequest]
    /\ buf' = [t \in Threads |-> Of(Nothing)]
    /\ success' = [t \in Threads |-> TRUE]
    /\ reply' = [t \in Threads |-> "none"]
    /\ UNCHANGED <<store, default>>

Step(t) ==
    \/ Return(t)
    \/ CheckEncrypted(t)
    \/ ReadRelated(t)
    \/ SealOpen(t)
    \/ SealWrite(t)
    \/ SealHide(t)
    \/ UnsealOpen(t)
    \/ UnsealWrite(t)
    \/ UnsealRemove(t)
    \/ LoadDefault(t)
    \/ CheckLocked(t)
    \/ MakeTmp(t)
    \/ OpenFile(t)
    \/ CheckTmp(t)
    \/ RemoveTmp(t)
    \/ ReloadDefault(t)
    \/ CloseAgain(t)

Next ==
    \/ \E t \in Threads, x \in Targets : \/ BeginLock(t, x)
                                         \/ BeginUnlock(t, x)
                                         \/ BeginOpen(t, x)
                                         \/ BeginRelease(t, x)
    \/ \E t \in Threads : Step(t)
    \/ OneCall
    \/ SetDefault
    \/ Restart

Spec == Init /\ [][Next]_vars

-----------------------------------------------------------------------------
(* Safety *)

\* The content a lock has put away for a file is given up only when it is back
\* in the file: no lock, unlock, open or release, right or wrong, finished or
\* killed, removes or overwrites the marker before (decrypt_file, encrypt_file).
SealKeptUntilOpened ==
    [][\A f \in Files, kind \in Kinds :
         LET m == Marker(Plain(f, 0), kind) IN
         Exists(m) /\ store[m].seals # <<>>
         => \/ Exists(m)' /\ store'[m] = store[m]
            \/ ~Exists(m)' /\ Exists(Plain(f, 0))
                 /\ store[Plain(f, 0)] = Unseal(store[m])]_vars

\* A lock hides a file only when the marker holds all of what the file holds.
HiddenOnlyWhenSealed ==
    [][\A t \in Threads :
         SealHide(t) => /\ Exists(MarkerOf(t))
                        /\ store[MarkerOf(t)] = Seal(Read(cur[t]), cred[t][2])]_vars

\* A lock that reports success has hidden the file and put its content under
\* the key it was given; an unlock that reports success leaves no marker
\* (handle_hook returns whether the hook was successful).
HooksTellTheTruth ==
    \A t \in Threads :
      At(t, "return") /\ reply[t] = "ok" /\ req[t].op \in {"lock", "defaultLock", "unlock"}
      => LET x == req[t].name
             m == Marker(x, cred[t][1])
         IN IF req[t].op = "unlock" THEN ~Exists(m)
            ELSE /\ Exists(m) /\ Opens(cred[t][2], store[m])
                 /\ store[x] = Of(Placeholder)

\* An unlock with the credential a file was locked with does not fail: locking
\* and unlocking give the content back (handle_encryption_action).
UnlockByItsKeySucceeds ==
    \A t \in Threads :
      At(t, "return") /\ req[t].op = "unlock"
      => LET m == Marker(req[t].name, cred[t][1]) IN
         Exists(m) /\ Opens(cred[t][2], store[m]) => reply[t] = "ok"

\* When no handler is under way, a file that shows the placeholder has its
\* content behind a marker: no unlock and no open has thrown a content away
\* (decrypt_file).
PlaceholderHasSeal ==
    (\A t \in Threads : At(t, "idle"))
    => \A f \in Files :
         Read(Plain(f, 0)) = Of(Placeholder) => IsEncrypted(Plain(f, 0))

\* An unlock that is going to fail does not cost a file that is not locked its
\* content (decrypt_file).
UnlockSparesPlainFiles ==
    [][\A x \in DOMAIN store :
         /\ \E t \in Threads : UnsealOpen(t) /\ req[t].op = "unlock"
         /\ store[x] \in {Of(d) : d \in Data}
         => Exists(x)' /\ store'[x] = store[x]]_vars
=============================================================================
