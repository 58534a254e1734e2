----------------------------- MODULE KeyRequests -----------------------------
(***************************************************************************)
(* The daemon as a client of itself, and its descriptors.  The default key *)
(* may be a file of the mount: then a handler that reads it makes requests *)
(* to the daemon, which another worker has to handle.  fi->fh is a number  *)
(* in the table of the process, which every handler shares.                *)
(*                                                                         *)
(* Requests of the kernel are handled in the order they come.  A caller is *)
(* a client or a worker; it waits for open, flush, write and hooks, and    *)
(* not for release, which the kernel sends when the caller has gone on.    *)
(* Reading the key is part of its flush, and streams of the daemon itself  *)
(* are left out of the table.  EncryptionVfs has the contents of the files.*)
(***************************************************************************)
EXTENDS Naturals, Sequences, FiniteSets

CONSTANTS
    Files,
    KeyFile,       \* the file that is the default key when it is "inside"
    Clients,
    Threads,       \* the workers of fuse_main: one with -s, else what threads it can make
    MaxFd,         \* the descriptors that the process may have
    MaxQueue,      \* bound: clients make no call while so many requests wait
    Free, NoOne, NoRequest

ASSUME FilesAssumption == KeyFile \in Files
ASSUME BoundsAssumption == {MaxFd, MaxQueue} \subseteq Nat \ {0}

Callers == Clients \union Threads

ASSUME CallersAssumption ==
    /\ Clients \intersect Threads = {}
    /\ NoOne \notin Callers

Descriptors == 1..MaxFd
NoFd == 0
Closed == [file |-> Free, fd |-> NoFd]
Places == {"outside", "inside", "missing"}

Requests ==
    [op : {"open", "write", "flush", "release", "defaultLock"}, file : Files,
     fd : 0..MaxFd, by : Callers \union {NoOne}]

ASSUME SentinelsAssumption ==
    /\ Free \notin Files
    /\ NoRequest \notin Requests

VARIABLES
    default,   \* where the default key is; "missing" when it cannot be read
    locked,    \* the files with a "key" marker
    tmp,       \* the files with a "tmp" marker
    table,     \* what each descriptor is open on
    handle,    \* the file each caller has open, and its fi->fh
    queue,     \* the requests no worker has taken yet
    waiting,   \* the callers that wait for an answer
    pc, req,
    own,       \* the descriptor of a write
    \* history:
    selfLocked,  \* the key file has been locked with the default key
    keyFailed    \* some release could not read the key

files == <<default, locked, tmp>>
history == <<selfLocked, keyFailed>>
vars == <<files, table, handle, queue, waiting, pc, req, own, history>>

Labels == {"idle", "open", "openFd", "release", "closeAgain", "write", "writing",
           "flush", "key", "await", "loaded", "failed"}

TypeOK ==
    /\ default \in Places
    /\ locked \subseteq Files /\ tmp \subseteq Files
    /\ table \in [Descriptors -> Files \union {Free}]
    /\ handle \in [Callers -> [file : Files, fd : Descriptors] \union {Closed}]
    /\ queue \in Seq(Requests)
    /\ waiting \subseteq Callers
    /\ pc \in [Threads -> Labels]
    /\ req \in [Threads -> Requests \union {NoRequest}]
    /\ own \in [Threads -> 0..MaxFd]
    /\ selfLocked \in BOOLEAN /\ keyFailed \in BOOLEAN

Init ==
    /\ default \in Places
    /\ locked = {} /\ tmp = {}
    /\ table = [n \in Descriptors |-> Free]
    /\ handle = [c \in Callers |-> Closed]
    /\ queue = <<>>
    /\ waiting = {}
    /\ pc = [t \in Threads |-> "idle"]
    /\ req = [t \in Threads |-> NoRequest]
    /\ own = [t \in Threads |-> NoFd]
    /\ selfLocked = FALSE /\ keyFailed = FALSE

-----------------------------------------------------------------------------
(* Descriptors *)

LowestFree(n) == table[n] = Free /\ \A m \in 1..(n - 1) : table[m] # Free
TableFull == \A n \in Descriptors : table[n] # Free
Opened(n, f) == table' = [table EXCEPT ![n] = f]

\* close(2): of a number that is not open it is EBADF, which nobody looks at.
Close(n) == table' = [m \in Descriptors |-> IF m = n THEN Free ELSE table[m]]

-----------------------------------------------------------------------------
(* Requests and answers *)

At(t, label) == pc[t] = label
Goto(t, label) == pc' = [pc EXCEPT ![t] = label]

Request(op, f, n, c) == [op |-> op, file |-> f, fd |-> n, by |-> c]

Call(c, r) ==
    /\ c \notin waiting /\ Len(queue) < MaxQueue
    /\ queue' = Append(queue, r)
    /\ waiting' = waiting \union {c}
    /\ UNCHANGED <<files, table, handle, pc, req, own, history>>

ClientCall(c) ==
    \/ /\ handle[c] = Closed
       /\ \E f \in Files, op \in {"open", "defaultLock"} : Call(c, Request(op, f, NoFd, c))
    \/ /\ handle[c] # Closed
       /\ \E op \in {"write", "flush"} : Call(c, Request(op, handle[c].file, handle[c].fd, c))

FirstStep(op) == IF op = "defaultLock" THEN "key" ELSE op

Take(t) ==
    /\ At(t, "idle") /\ queue # <<>>
    /\ queue' = Tail(queue)
    /\ req' = [req EXCEPT ![t] = Head(queue)]
    /\ Goto(t, FirstStep(Head(queue).op))
    /\ UNCHANGED <<files, table, handle, waiting, own, history>>

\* A client goes on with what it does; a worker with the key it is reading.
Caller(t) == req[t].by

AnswerTo(t, label) ==
    /\ pc' = [u \in Threads |-> IF u = t THEN "idle"
                                ELSE IF u = Caller(t) THEN label ELSE pc[u]]
    /\ req' = [req EXCEPT ![t] = NoRequest]
    /\ waiting' = waiting \ {Caller(t)}

Answer(t) == AnswerTo(t, "failed")

-----------------------------------------------------------------------------
(* get_default_key_encryptor *)

\* A key of the mount takes an open of it and then a flush.
LoadKey(t) ==
    /\ At(t, "key")
    /\ \/ /\ default = "inside"
          /\ queue' = Append(queue, Request("open", KeyFile, NoFd, t))
          /\ waiting' = waiting \union {t}
          /\ Goto(t, "await")
       \/ /\ default # "inside"
          /\ Goto(t, IF default = "outside" THEN "loaded" ELSE "failed")
          /\ UNCHANGED <<queue, waiting>>
    /\ UNCHANGED <<files, table, handle, req, own, history>>

CloseKey(t) ==
    /\ At(t, "await") /\ t \notin waiting
    /\ queue' = Append(queue, Request("flush", KeyFile, handle[t].fd, t))
    /\ waiting' = waiting \union {t}
    /\ UNCHANGED <<files, table, handle, pc, req, own, history>>

\* Mutant of KeyFails: the key is tried again.
KeyFailsAgain(t) ==
    /\ At(t, "failed")
    /\ Goto(t, "key")
    /\ UNCHANGED <<files, table, handle, queue, waiting, req, own, history>>

\* open goes on without the key, release closes the file a second time, and
\* the hook fails.
KeyFails(t) ==
    /\ At(t, "failed")
    /\ \/ /\ req[t].op = "defaultLock"
          /\ Answer(t)
          /\ UNCHANGED keyFailed
       \/ /\ req[t].op = "open"
          /\ Goto(t, "openFd")
          /\ UNCHANGED <<waiting, req, keyFailed>>
       \/ /\ req[t].op = "release"
          /\ Goto(t, "closeAgain")
          /\ keyFailed' = TRUE
          /\ UNCHANGED <<waiting, req>>
    /\ UNCHANGED <<files, table, handle, queue, own, selfLocked>>

\* encrypt_file
Lock(f) ==
    /\ locked' = locked \union {f}
    /\ selfLocked' = (selfLocked \/ f = KeyFile)
    /\ UNCHANGED tmp

-----------------------------------------------------------------------------
(* open *)

\* Mutant of Open: it reads the key whether the file is locked or not.
OpenWithKey(t) ==
    /\ At(t, "open")
    /\ Goto(t, "key")
    /\ UNCHANGED <<files, table, handle, queue, waiting, req, own, history>>

Open(t) ==
    /\ At(t, "open")
    /\ Goto(t, IF req[t].file \in locked THEN "key" ELSE "openFd")
    /\ UNCHANGED <<files, table, handle, queue, waiting, req, own, history>>

\* decrypt_file, and mknod of the tmp marker if it has succeeded
Unseal(t) ==
    /\ At(t, "loaded") /\ req[t].op = "open"
    /\ Goto(t, "openFd")
    /\ locked' = locked \ {req[t].file}
    /\ tmp' = IF req[t].file \in locked THEN tmp \union {req[t].file} ELSE tmp
    /\ UNCHANGED <<default, table, handle, queue, waiting, req, own, history>>

\* Mutant of OpenFd: the result of ::open is not looked at.
OpenFdUnchecked(t) ==
    /\ At(t, "openFd")
    /\ \E n \in 0..MaxFd :
         /\ IF TableFull THEN n = 0 ELSE n # 0 /\ LowestFree(n)
         /\ table' = [m \in Descriptors |-> IF m = n THEN req[t].file ELSE table[m]]
         /\ handle' = [handle EXCEPT ![Caller(t)] = [file |-> req[t].file, fd |-> n]]
         /\ AnswerTo(t, "await")
    /\ UNCHANGED <<files, queue, own, history>>

OpenFd(t) ==
    /\ At(t, "openFd")
    /\ \/ \E n \in Descriptors :
            /\ LowestFree(n)
            /\ Opened(n, req[t].file)
            /\ handle' = [handle EXCEPT ![Caller(t)] = [file |-> req[t].file, fd |-> n]]
            /\ AnswerTo(t, "await")
       \/ /\ TableFull
          /\ Answer(t)
          /\ UNCHANGED <<table, handle>>
    /\ UNCHANGED <<files, queue, own, history>>

-----------------------------------------------------------------------------
(* flush, and the release that follows it *)

Flush(t) ==
    /\ At(t, "flush")
    /\ queue' = Append(queue, Request("release", req[t].file, req[t].fd, NoOne))
    /\ handle' = [handle EXCEPT ![Caller(t)] = Closed]
    /\ AnswerTo(t, IF KeyFile \in locked THEN "failed" ELSE "loaded")
    /\ UNCHANGED <<files, table, own, history>>

Release(t) ==
    /\ At(t, "release")
    /\ Close(req[t].fd)
    /\ \/ /\ req[t].file \in tmp
          /\ tmp' = tmp \ {req[t].file}
          /\ Goto(t, "key")
          /\ UNCHANGED <<waiting, req>>
       \/ /\ req[t].file \notin tmp
          /\ Answer(t)
          /\ UNCHANGED tmp
    /\ UNCHANGED <<default, locked, handle, queue, own, history>>

\* Mutant of SealAgain: release does not return here.
SealAndClose(t) ==
    /\ At(t, "loaded") /\ req[t].op \in {"release", "defaultLock"}
    /\ Lock(req[t].file)
    /\ \/ /\ req[t].op = "release"
          /\ Goto(t, "closeAgain")
          /\ UNCHANGED <<waiting, req>>
       \/ /\ req[t].op = "defaultLock"
          /\ Answer(t)
    /\ UNCHANGED <<default, table, handle, queue, own, keyFailed>>

\* encrypt_file of release and of the defaultLock hook
SealAgain(t) ==
    /\ At(t, "loaded") /\ req[t].op \in {"release", "defaultLock"}
    /\ Lock(req[t].file)
    /\ Answer(t)
    /\ UNCHANGED <<default, table, handle, queue, own, keyFailed>>

CloseAgain(t) ==
    /\ At(t, "closeAgain")
    /\ Close(req[t].fd)
    /\ Answer(t)
    /\ UNCHANGED <<files, handle, queue, own, history>>

-----------------------------------------------------------------------------
(* write *)

WriteOpen(t) ==
    /\ At(t, "write")
    /\ \/ \E n \in Descriptors :
            /\ LowestFree(n)
            /\ Opened(n, req[t].file)
            /\ own' = [own EXCEPT ![t] = n]
            /\ Goto(t, "writing")
            /\ UNCHANGED <<waiting, req>>
       \/ /\ TableFull
          /\ Answer(t)
          /\ UNCHANGED <<table, own>>
    /\ UNCHANGED <<files, handle, queue, history>>

\* pwrite to whatever the number is open on by now, and close
WriteClose(t) ==
    /\ At(t, "writing")
    /\ Close(own[t])
    /\ own' = [own EXCEPT ![t] = NoFd]
    /\ Answer(t)
    /\ UNCHANGED <<files, handle, queue, history>>

-----------------------------------------------------------------------------
(* The default changes, or its key file *)

ChangeDefault ==
    /\ \E place \in Places : default' = place
    /\ UNCHANGED <<locked, tmp, table, handle, queue, waiting, pc, req, own, history>>

Step(t) ==
    \/ Take(t)
    \/ LoadKey(t) \/ CloseKey(t) \/ KeyFails(t)
    \/ Open(t) \/ Unseal(t) \/ OpenFd(t)
    \/ Flush(t)
    \/ Release(t) \/ SealAgain(t) \/ CloseAgain(t)
    \/ WriteOpen(t) \/ WriteClose(t)

Next ==
    \/ \E c \in Clients : ClientCall(c)
    \/ \E t \in Threads : Step(t)
    \/ ChangeDefault

Spec == Init /\ [][Next]_vars /\ \A t \in Threads : WF_vars(Step(t))

-----------------------------------------------------------------------------
(* Properties *)

\* Reading the key takes one more worker and no more, unless the key file was
\* itself locked with the default key: no handler of a request for it reads it.
KeyNeedsNoKey ==
    \A t \in Threads :
      /\ At(t, "await") \/ At(t, "key")
      /\ req[t].file = KeyFile /\ req[t].op \in {"open", "release"}
      => selfLocked

\* A number a caller has in fi->fh, or a write has of its own, is open on its
\* file until it closes it, unless a release could not read the key: then its
\* second close takes the number from whoever got it in between.
DescriptorsStayTheirs ==
    keyFailed
      \/ /\ \A c \in Callers : handle[c] # Closed => table[handle[c].fd] = handle[c].file
         /\ \A t \in Threads : At(t, "writing") => table[own[t]] = req[t].file

\* Every call is answered, or all workers wait for a key of the mount and none is
\* left to hand it out.
Starved == \A t \in Threads : At(t, "await") /\ t \in waiting
CallsEndOrStarve == \A c \in Clients : c \in waiting ~> c \notin waiting \/ Starved
=============================================================================
