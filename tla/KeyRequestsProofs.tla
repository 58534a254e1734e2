-------------------------- MODULE KeyRequestsProofs --------------------------
(***************************************************************************)
(* The inductive invariant of KeyRequests and the theorems that follow     *)
(* from it, for any number of workers, clients, files and descriptors.     *)
(***************************************************************************)
EXTENDS KeyRequests, SequenceTheorems, TLAPS

Busy(t) == req[t] # NoRequest
KeyPC == {"key", "await", "loaded", "failed"}

\* A worker is inside a handler exactly when it has a request, and the label
\* tells the kind of request.
ControlOK ==
    \A t \in Threads :
      /\ pc[t] = "idle" <=> ~Busy(t)
      /\ pc[t] \in {"open", "openFd"} => req[t].op = "open"
      /\ pc[t] \in {"release", "closeAgain"} => req[t].op = "release"
      /\ pc[t] \in {"write", "writing"} => req[t].op = "write"
      /\ pc[t] = "flush" => req[t].op = "flush"
      /\ pc[t] \in KeyPC => req[t].op \in {"open", "release", "defaultLock"}

\* Nobody waits for a release.  Of any other request the caller waits (w), with
\* a worker at "await" (p), with the file open that it wants to close, and with
\* none open when it wants one (h).
Sound(r, w, p, h) ==
    /\ r.op = "release" <=> r.by = NoOne
    /\ r.op # "release" => r.by \in w
    /\ r.by \in Threads => p[r.by] = "await" /\ r.op \in {"open", "flush"}
    /\ r.op = "flush" => h[r.by] # Closed /\ h[r.by].fd = r.fd
    /\ r.op \in {"open", "defaultLock"} => h[r.by] = Closed

RequestsSound ==
    /\ \A i \in 1..Len(queue) : Sound(queue[i], waiting, pc, handle)
    /\ \A t \in Threads : Busy(t) => Sound(req[t], waiting, pc, handle)

\* A caller has one call at a time.
OneCallEach ==
    /\ \A i, j \in 1..Len(queue) :
         queue[i].by \in Callers /\ queue[i].by = queue[j].by => i = j
    /\ \A i \in 1..Len(queue), t \in Threads :
         Busy(t) /\ req[t].by \in Callers => queue[i].by # req[t].by
    /\ \A t, u \in Threads :
         Busy(t) /\ Busy(u) /\ req[t].by \in Callers /\ req[t].by = req[u].by => t = u

\* A worker has the key file open only while it reads it.
KeyFileOpen ==
    \A t \in Threads :
      /\ pc[t] # "await" => handle[t] = Closed
      /\ pc[t] = "await" /\ t \notin waiting => handle[t] # Closed

\* The key file gets a marker only by being locked with itself.
KeyFilePlain == selfLocked \/ (KeyFile \notin locked /\ KeyFile \notin tmp)

\* Only a release that could not read the key closes its file again.
SecondClose == \A t \in Threads : pc[t] = "closeAgain" => keyFailed

\* Whoever holds a descriptor: a caller with a file open, a write with its own,
\* a release that waits, a release that runs.
Has(c) == handle[c] # Closed
Writes(t) == pc[t] = "writing"
Waits(i) == queue[i].op = "release"
Releases(t) == pc[t] = "release"

\* What they hold is open ...
Open1 == \A c \in Callers : Has(c) => table[handle[c].fd] = handle[c].file
Open2 == \A t \in Threads : Writes(t) => own[t] \in Descriptors /\ table[own[t]] = req[t].file
Open3 == \A i \in 1..Len(queue) : Waits(i) => queue[i].fd \in Descriptors /\ table[queue[i].fd] # Free
Open4 == \A t \in Threads : Releases(t) => req[t].fd \in Descriptors /\ table[req[t].fd] # Free

\* ... and no two of them hold the same.
Apart11 == \A c, d \in Callers : Has(c) /\ Has(d) /\ handle[c].fd = handle[d].fd => c = d
Apart12 == \A c \in Callers, t \in Threads : Has(c) /\ Writes(t) => handle[c].fd # own[t]
Apart13 == \A c \in Callers, i \in 1..Len(queue) : Has(c) /\ Waits(i) => handle[c].fd # queue[i].fd
Apart14 == \A c \in Callers, t \in Threads : Has(c) /\ Releases(t) => handle[c].fd # req[t].fd
Apart22 == \A t, u \in Threads : Writes(t) /\ Writes(u) /\ own[t] = own[u] => t = u
Apart23 == \A t \in Threads, i \in 1..Len(queue) : Writes(t) /\ Waits(i) => own[t] # queue[i].fd
Apart24 == \A t, u \in Threads : Writes(t) /\ Releases(u) => own[t] # req[u].fd
Apart33 == \A i, j \in 1..Len(queue) : Waits(i) /\ Waits(j) /\ queue[i].fd = queue[j].fd => i = j
Apart34 == \A i \in 1..Len(queue), t \in Threads : Waits(i) /\ Releases(t) => queue[i].fd # req[t].fd
Apart44 == \A t, u \in Threads : Releases(t) /\ Releases(u) /\ req[t].fd = req[u].fd => t = u

Owned ==
    /\ Open1 /\ Open2 /\ Open3 /\ Open4
    /\ Apart11 /\ Apart12 /\ Apart13 /\ Apart14
    /\ Apart22 /\ Apart23 /\ Apart24
    /\ Apart33 /\ Apart34 /\ Apart44

KInv ==
    /\ TypeOK
    /\ ControlOK
    /\ RequestsSound
    /\ OneCallEach
    /\ KeyFileOpen
    /\ KeyFilePlain
    /\ KeyNeedsNoKey
    /\ SecondClose
    /\ keyFailed \/ Owned

USE DEF At, Goto

-----------------------------------------------------------------------------
(* Requests and the queue *)

\* The fields of a request.
LEMMA RequestTyped ==
    ASSUME NEW r \in Requests
    PROVE  /\ r.op \in {"open", "write", "flush", "release", "defaultLock"}
           /\ r.file \in Files
           /\ r.fd \in 0..MaxFd
           /\ r.by \in Callers \union {NoOne}
  BY DEF Requests

\* What Request makes is one, and its fields are what it is given.
LEMMA RequestMade ==
    ASSUME NEW op \in {"open", "write", "flush", "release", "defaultLock"},
           NEW file \in Files, NEW n \in 0..MaxFd, NEW c \in Callers \union {NoOne}
    PROVE  LET r == Request(op, file, n, c) IN
           r \in Requests /\ r.op = op /\ r.file = file /\ r.fd = n /\ r.by = c
  BY DEF Request, Requests

\* A handle is closed or on a file.
LEMMA HandleTyped ==
    ASSUME TypeOK, NEW c \in Callers
    PROVE  /\ MaxFd \in Nat \ {0}
           /\ handle[c].fd \in 0..MaxFd
           /\ handle[c] # Closed => handle[c].file \in Files /\ handle[c].fd \in Descriptors
<1>1. MaxFd \in Nat \ {0}
  BY BoundsAssumption
<1>2. handle[c] \in [file : Files, fd : Descriptors] \union {Closed}
  BY DEF TypeOK
<1>3. CASE handle[c] = Closed
  BY <1>1, <1>3 DEF Closed, NoFd
<1>4. CASE handle[c] \in [file : Files, fd : Descriptors]
  BY <1>1, <1>4 DEF Descriptors
<1> QED  BY <1>1, <1>2, <1>3, <1>4

\* A worker inside a handler has a request.
LEMMA BusyTyped ==
    ASSUME TypeOK, ControlOK, NEW t \in Threads, pc[t] # "idle"
    PROVE  Busy(t) /\ req[t] \in Requests
  BY DEF TypeOK, ControlOK, Busy

\* A request that is put into the queue comes behind the others.
LEMMA QueueAppend ==
    ASSUME TypeOK, NEW r \in Requests, queue' = Append(queue, r)
    PROVE  /\ queue' \in Seq(Requests)
           /\ Len(queue) \in Nat
           /\ Len(queue') = Len(queue) + 1
           /\ \A i \in 1..Len(queue) : queue'[i] = queue[i]
           /\ queue'[Len(queue) + 1] = r
  BY AppendProperties DEF TypeOK

\* A request that is taken was the first, and the others move up.
LEMMA QueueTail ==
    ASSUME TypeOK, queue # <<>>, queue' = Tail(queue)
    PROVE  /\ queue' \in Seq(Requests)
           /\ Len(queue) \in Nat \ {0}
           /\ Head(queue) \in Requests /\ Head(queue) = queue[1]
           /\ Len(queue') = Len(queue) - 1
           /\ \A i \in 1..Len(queue') : queue'[i] = queue[i + 1]
<1>1. queue \in Seq(Requests)
  BY DEF TypeOK
<1>2. Len(queue) \in Nat \ {0} /\ Head(queue) = queue[1]
  BY <1>1
<1> QED  BY <1>1, <1>2, HeadTailProperties

-----------------------------------------------------------------------------
(* Types *)

\* The end of a handler keeps the types.
LEMMA AnswerTyped ==
    ASSUME TypeOK, NEW t \in Threads, NEW label \in Labels, AnswerTo(t, label)
    PROVE  /\ pc' \in [Threads -> Labels]
           /\ req' \in [Threads -> Requests \union {NoRequest}]
           /\ waiting' \subseteq Callers
  BY DEF TypeOK, AnswerTo, Labels

\* Every action keeps the types.
LEMMA TypeStep ==
    ASSUME TypeOK, ControlOK, [Next]_vars
    PROVE  TypeOK'
<1>1. ASSUME NEW c \in Clients, ClientCall(c) PROVE TypeOK'
  <2>1. c \in Callers
    BY DEF Callers
  <2>2. PICK r \in Requests : Call(c, r)
    <3>1. CASE handle[c] = Closed
      BY <1>1, <2>1, <3>1, RequestMade, HandleTyped DEF ClientCall, NoFd
    <3>2. CASE handle[c] # Closed
      BY <1>1, <2>1, <3>2, RequestMade, HandleTyped DEF ClientCall
    <3> QED  BY <3>1, <3>2
  <2>3. queue' \in Seq(Requests)
    BY <2>2, QueueAppend DEF Call
  <2> QED  BY <2>1, <2>2, <2>3 DEF Call, TypeOK, files, history
<1>2. ASSUME NEW t \in Threads, Take(t) PROVE TypeOK'
  <2>1. queue' \in Seq(Requests) /\ Head(queue) \in Requests
    BY <1>2, QueueTail DEF Take
  <2>2. FirstStep(Head(queue).op) \in Labels
    BY <2>1, RequestTyped DEF FirstStep, Labels
  <2> QED  BY <1>2, <2>1, <2>2 DEF Take, TypeOK, files, history
<1>3. ASSUME NEW t \in Threads, LoadKey(t) PROVE TypeOK'
  <2>1. queue' \in Seq(Requests)
    BY <1>3, FilesAssumption, RequestMade, QueueAppend, BoundsAssumption
       DEF LoadKey, Callers, TypeOK, NoFd
  <2> QED  BY <1>3, <2>1 DEF LoadKey, TypeOK, Callers, Labels, files, history
<1>4. ASSUME NEW t \in Threads, CloseKey(t) PROVE TypeOK'
  <2>1. handle[t].fd \in 0..MaxFd
    BY HandleTyped DEF Callers
  <2>2. queue' \in Seq(Requests)
    BY <1>4, <2>1, FilesAssumption, RequestMade, QueueAppend DEF CloseKey, Callers
  <2> QED  BY <1>4, <2>2 DEF CloseKey, TypeOK, Callers, files, history
<1>5. ASSUME NEW t \in Threads, KeyFails(t) PROVE TypeOK'
  <2>1. CASE req[t].op = "defaultLock"
    BY <1>5, <2>1, AnswerTyped DEF KeyFails, Answer, TypeOK, Labels, files
  <2>2. CASE req[t].op # "defaultLock"
    BY <1>5, <2>2 DEF KeyFails, TypeOK, Labels, files
  <2> QED  BY <2>1, <2>2
<1>6. ASSUME NEW t \in Threads, Open(t) PROVE TypeOK'
  BY <1>6 DEF Open, TypeOK, Labels, files, history
<1>7. ASSUME NEW t \in Threads, Unseal(t) PROVE TypeOK'
  BY <1>7 DEF Unseal, TypeOK, Labels, history
<1>8. ASSUME NEW t \in Threads, OpenFd(t) PROVE TypeOK'
  <2>1. req[t] \in Requests
    BY <1>8, BusyTyped DEF OpenFd
  <2>2. pc' \in [Threads -> Labels] /\ req' \in [Threads -> Requests \union {NoRequest}]
        /\ waiting' \subseteq Callers
    BY <1>8, AnswerTyped DEF OpenFd, Answer, Labels
  <2>3. table' \in [Descriptors -> Files \union {Free}]
    BY <1>8, <2>1, RequestTyped DEF OpenFd, Opened, TypeOK
  <2>4. handle' \in [Callers -> [file : Files, fd : Descriptors] \union {Closed}]
    <3>1. ASSUME NEW n \in Descriptors,
                 handle' = [handle EXCEPT ![Caller(t)] = [file |-> req[t].file, fd |-> n]]
          PROVE  handle' \in [Callers -> [file : Files, fd : Descriptors] \union {Closed}]
      <4>1. [file |-> req[t].file, fd |-> n] \in [file : Files, fd : Descriptors]
        BY <2>1, RequestTyped
      <4> QED  BY <3>1, <4>1 DEF TypeOK
    <3> QED  BY <1>8, <3>1 DEF OpenFd, TypeOK
  <2> QED  BY <1>8, <2>2, <2>3, <2>4 DEF OpenFd, TypeOK, files, history
<1>9. ASSUME NEW t \in Threads, Flush(t) PROVE TypeOK'
  <2>1. req[t] \in Requests
    BY <1>9, BusyTyped DEF Flush
  <2>2. queue' \in Seq(Requests)
    BY <1>9, <2>1, RequestTyped, RequestMade, QueueAppend DEF Flush
  <2>3. pc' \in [Threads -> Labels] /\ req' \in [Threads -> Requests \union {NoRequest}]
        /\ waiting' \subseteq Callers
    BY <1>9, AnswerTyped DEF Flush, Labels
  <2> QED  BY <1>9, <2>2, <2>3 DEF Flush, TypeOK, files, history
<1>10. ASSUME NEW t \in Threads, Release(t) PROVE TypeOK'
  BY <1>10, AnswerTyped DEF Release, Close, Answer, TypeOK, Labels, history
<1>11. ASSUME NEW t \in Threads, SealAgain(t) PROVE TypeOK'
  <2>1. req[t] \in Requests
    BY <1>11, BusyTyped DEF SealAgain
  <2> QED  BY <1>11, <2>1, RequestTyped, AnswerTyped DEF SealAgain, Lock, Answer, TypeOK, Labels
<1>12. ASSUME NEW t \in Threads, CloseAgain(t) PROVE TypeOK'
  BY <1>12, AnswerTyped DEF CloseAgain, Close, Answer, TypeOK, Labels, files, history
<1>13. ASSUME NEW t \in Threads, WriteOpen(t) PROVE TypeOK'
  <2>1. req[t] \in Requests
    BY <1>13, BusyTyped DEF WriteOpen
  <2>2. \A n \in Descriptors : n \in 0..MaxFd
    BY BoundsAssumption DEF Descriptors
  <2>3. CASE TableFull
    BY <1>13, <2>3, AnswerTyped
       DEF WriteOpen, LowestFree, TableFull, Answer, TypeOK, Labels, files, history
  <2>4. CASE ~TableFull
    BY <1>13, <2>1, <2>2, <2>4, RequestTyped
       DEF WriteOpen, Opened, TypeOK, Labels, files, history
  <2> QED  BY <2>3, <2>4
<1>14. ASSUME NEW t \in Threads, WriteClose(t) PROVE TypeOK'
  BY <1>14, AnswerTyped, BoundsAssumption
     DEF WriteClose, Close, Answer, TypeOK, Labels, NoFd, files, history
<1>15. ASSUME ChangeDefault PROVE TypeOK'
  BY <1>15 DEF ChangeDefault, TypeOK, history
<1>16. ASSUME UNCHANGED vars PROVE TypeOK'
  BY <1>16 DEF vars, files, history, TypeOK
<1> QED  BY <1>1, <1>2, <1>3, <1>4, <1>5, <1>6, <1>7, <1>8, <1>9, <1>10, <1>11, <1>12,
            <1>13, <1>14, <1>15, <1>16 DEF Next, Step

-----------------------------------------------------------------------------
(* Labels *)

\* The caller a handler works for is another worker or none.
LEMMA CallerAwaits ==
    ASSUME TypeOK, ControlOK, RequestsSound, NEW t \in Threads, pc[t] \notin {"idle", "await"},
           Caller(t) \in Threads
    PROVE  Caller(t) # t /\ pc[Caller(t)] = "await" /\ Busy(Caller(t)) /\ Caller(t) \in waiting
<1>1. Sound(req[t], waiting, pc, handle)
  BY BusyTyped DEF RequestsSound
<1>2. pc[Caller(t)] = "await" /\ req[t].op \in {"open", "flush"}
  BY <1>1 DEF Sound, Caller
<1>3. Caller(t) \in waiting
  BY <1>1, <1>2 DEF Sound, Caller
<1> QED  BY <1>2, <1>3 DEF ControlOK

\* An answer leaves the labels right.
LEMMA AnswerControl ==
    ASSUME TypeOK, ControlOK, RequestsSound, NEW t \in Threads, pc[t] \notin {"idle", "await"},
           NEW label \in {"await", "loaded", "failed"}, AnswerTo(t, label)
    PROVE  ControlOK'
<1> SUFFICES ASSUME NEW u \in Threads
             PROVE  /\ pc'[u] = "idle" <=> req'[u] = NoRequest
                    /\ u = t \/ req'[u] = req[u]
                    /\ u = t \/ pc'[u] = pc[u] \/ (pc[u] = "await" /\ pc'[u] = label)
                    /\ u = t => pc'[u] = "idle"
  BY DEF ControlOK, Busy, KeyPC
<1>1. CASE u = t
  BY <1>1 DEF AnswerTo, TypeOK
<1>2. CASE u # t /\ u # Caller(t)
  BY <1>2 DEF AnswerTo, TypeOK, ControlOK, Busy
<1>3. CASE u # t /\ u = Caller(t)
  BY <1>3, CallerAwaits DEF AnswerTo, TypeOK, ControlOK, Busy
<1> QED  BY <1>1, <1>2, <1>3

\* Labels tell the kind of request.
LEMMA ControlStep ==
    ASSUME TypeOK, ControlOK, RequestsSound, [Next]_vars
    PROVE  ControlOK'
<1>1. ASSUME NEW c \in Clients, ClientCall(c) PROVE ControlOK'
  BY <1>1 DEF ClientCall, Call, ControlOK, Busy
<1>2. ASSUME NEW t \in Threads, Take(t) PROVE ControlOK'
  <2>1. Head(queue) \in Requests
    BY <1>2, QueueTail DEF Take
  <2>2. Head(queue) # NoRequest
    BY <2>1, SentinelsAssumption
  <2>3. Head(queue).op \in {"open", "write", "flush", "release", "defaultLock"}
    BY <2>1, RequestTyped
  <2> QED  BY <1>2, <2>2, <2>3 DEF Take, FirstStep, ControlOK, Busy, KeyPC, TypeOK
<1>3. ASSUME NEW t \in Threads, LoadKey(t) PROVE ControlOK'
  BY <1>3 DEF LoadKey, ControlOK, Busy, KeyPC, TypeOK
<1>4. ASSUME NEW t \in Threads, CloseKey(t) PROVE ControlOK'
  BY <1>4 DEF CloseKey, ControlOK, Busy
<1>5. ASSUME NEW t \in Threads, KeyFails(t) PROVE ControlOK'
  <2>1. CASE req[t].op = "defaultLock"
    BY <1>5, <2>1, AnswerControl DEF KeyFails, Answer
  <2>2. CASE req[t].op # "defaultLock"
    BY <1>5, <2>2 DEF KeyFails, ControlOK, Busy, KeyPC, TypeOK
  <2> QED  BY <2>1, <2>2
<1>6. ASSUME NEW t \in Threads, Open(t) PROVE ControlOK'
  BY <1>6 DEF Open, ControlOK, Busy, KeyPC, TypeOK
<1>7. ASSUME NEW t \in Threads, Unseal(t) PROVE ControlOK'
  BY <1>7 DEF Unseal, ControlOK, Busy, KeyPC, TypeOK
<1>8. ASSUME NEW t \in Threads, OpenFd(t) PROVE ControlOK'
  BY <1>8, AnswerControl DEF OpenFd, Answer
<1>9. ASSUME NEW t \in Threads, Flush(t) PROVE ControlOK'
  BY <1>9, AnswerControl DEF Flush
<1>10. ASSUME NEW t \in Threads, Release(t) PROVE ControlOK'
  <2>1. CASE req[t].file \in tmp
    BY <1>10, <2>1 DEF Release, ControlOK, Busy, KeyPC, TypeOK
  <2>2. CASE req[t].file \notin tmp
    BY <1>10, <2>2, AnswerControl DEF Release, Answer
  <2> QED  BY <2>1, <2>2
<1>11. ASSUME NEW t \in Threads, SealAgain(t) PROVE ControlOK'
  BY <1>11, AnswerControl DEF SealAgain, Answer
<1>12. ASSUME NEW t \in Threads, CloseAgain(t) PROVE ControlOK'
  BY <1>12, AnswerControl DEF CloseAgain, Answer
<1>13. ASSUME NEW t \in Threads, WriteOpen(t) PROVE ControlOK'
  <2>1. CASE Answer(t)
    BY <1>13, <2>1, AnswerControl DEF WriteOpen, Answer
  <2>2. CASE ~Answer(t)
    BY <1>13, <2>2 DEF WriteOpen, ControlOK, Busy, KeyPC, TypeOK
  <2> QED  BY <2>1, <2>2
<1>14. ASSUME NEW t \in Threads, WriteClose(t) PROVE ControlOK'
  BY <1>14, AnswerControl DEF WriteClose, Answer
<1>15. ASSUME ChangeDefault PROVE ControlOK'
  BY <1>15 DEF ChangeDefault, ControlOK, Busy
<1>16. ASSUME UNCHANGED vars PROVE ControlOK'
  BY <1>16 DEF vars, ControlOK, Busy
<1> QED  BY <1>1, <1>2, <1>3, <1>4, <1>5, <1>6, <1>7, <1>8, <1>9, <1>10, <1>11, <1>12,
            <1>13, <1>14, <1>15, <1>16 DEF Next, Step

-----------------------------------------------------------------------------
(* Calls *)

\* Who does not wait for an answer has no call under way.
LEMMA NotAsking ==
    ASSUME TypeOK, RequestsSound, NEW c \in Callers,
           c \notin waiting \/ (c \in Threads /\ pc[c] # "await")
    PROVE  /\ \A i \in 1..Len(queue) : queue[i].by # c
           /\ \A u \in Threads : Busy(u) => req[u].by # c
<1>1. c # NoOne
  BY CallersAssumption
<1>2. \A r : Sound(r, waiting, pc, handle) => r.by # c
  BY <1>1 DEF Sound
<1> QED  BY <1>2 DEF RequestsSound

\* A new call leaves every caller with one, and so does the release that
\* follows an answer.
LEMMA AppendOnce ==
    ASSUME TypeOK, OneCallEach, NEW r \in Requests, queue' = Append(queue, r),
           \A u \in Threads : req'[u] \in {req[u], NoRequest},
           r.by \in Callers =>
             /\ \A i \in 1..Len(queue) : queue[i].by # r.by
             /\ \A u \in Threads : Busy(u) => req[u].by # r.by
    PROVE  OneCallEach'
<1>1. /\ Len(queue) \in Nat
      /\ Len(queue') = Len(queue) + 1
      /\ \A i \in 1..Len(queue) : queue'[i] = queue[i]
      /\ queue'[Len(queue) + 1] = r
  BY QueueAppend
<1>2. \A i \in 1..Len(queue') : i \in 1..Len(queue) \/ i = Len(queue) + 1
  BY <1>1
<1>3. ASSUME NEW i \in 1..Len(queue'), NEW j \in 1..Len(queue'),
             queue'[i].by \in Callers, queue'[i].by = queue'[j].by
      PROVE  i = j
  BY <1>1, <1>2, <1>3 DEF OneCallEach
<1>4. ASSUME NEW i \in 1..Len(queue'), NEW t \in Threads, Busy(t)', req'[t].by \in Callers
      PROVE  queue'[i].by # req'[t].by
  BY <1>1, <1>2, <1>4 DEF OneCallEach, Busy
<1>5. ASSUME NEW t \in Threads, NEW u \in Threads, Busy(t)', Busy(u)',
             req'[t].by \in Callers, req'[t].by = req'[u].by
      PROVE  t = u
  BY <1>5 DEF OneCallEach, Busy
<1> QED  BY <1>3, <1>4, <1>5 DEF OneCallEach

\* An answer ends a call.
LEMMA AnswerOnce ==
    ASSUME TypeOK, OneCallEach, NEW t \in Threads, NEW label, AnswerTo(t, label),
           UNCHANGED queue
    PROVE  OneCallEach'
<1>1. \A u \in Threads : req'[u] \in {req[u], NoRequest}
  BY DEF AnswerTo, TypeOK
<1> QED  BY <1>1 DEF OneCallEach, Busy

\* Every action leaves every caller with one call.
LEMMA OnceStep ==
    ASSUME TypeOK, ControlOK, RequestsSound, OneCallEach, [Next]_vars
    PROVE  OneCallEach'
<1>1. ASSUME NEW c \in Clients, ClientCall(c) PROVE OneCallEach'
  <2>1. c \in Callers
    BY DEF Callers
  <2>2. PICK r \in Requests : Call(c, r) /\ r.by = c
    <3>1. CASE handle[c] = Closed
      BY <1>1, <2>1, <3>1, RequestMade, HandleTyped DEF ClientCall, NoFd
    <3>2. CASE handle[c] # Closed
      BY <1>1, <2>1, <3>2, RequestMade, HandleTyped DEF ClientCall
    <3> QED  BY <3>1, <3>2
  <2> QED  BY <2>1, <2>2, NotAsking, AppendOnce DEF Call
<1>2. ASSUME NEW t \in Threads, Take(t) PROVE OneCallEach'
  <2>1. /\ Len(queue) \in Nat \ {0}
        /\ Head(queue) = queue[1]
        /\ Len(queue') = Len(queue) - 1
        /\ \A i \in 1..Len(queue') : queue'[i] = queue[i + 1]
    BY <1>2, QueueTail DEF Take
  <2>2. \A i \in 1..Len(queue') : i + 1 \in 1..Len(queue) /\ i + 1 # 1
    BY <2>1
  <2>3. 1 \in 1..Len(queue)
    BY <2>1
  <2>4. \A u \in Threads : req'[u] = IF u = t THEN queue[1] ELSE req[u]
    BY <1>2, <2>1 DEF Take, TypeOK
  <2>5. ASSUME NEW i \in 1..Len(queue'), NEW j \in 1..Len(queue'),
               queue'[i].by \in Callers, queue'[i].by = queue'[j].by
        PROVE  i = j
    BY <2>1, <2>2, <2>5 DEF OneCallEach
  <2>6. ASSUME NEW i \in 1..Len(queue'), NEW u \in Threads, Busy(u)', req'[u].by \in Callers
        PROVE  queue'[i].by # req'[u].by
    BY <2>1, <2>2, <2>3, <2>4, <2>6 DEF OneCallEach, Busy
  <2>7. ASSUME NEW u \in Threads, NEW v \in Threads, Busy(u)', Busy(v)',
               req'[u].by \in Callers, req'[u].by = req'[v].by
        PROVE  u = v
    BY <2>3, <2>4, <2>7 DEF OneCallEach, Busy
  <2> QED  BY <2>5, <2>6, <2>7 DEF OneCallEach
<1>3. ASSUME NEW t \in Threads, LoadKey(t) PROVE OneCallEach'
  <2>1. CASE default = "inside"
    <3>1. t \in Callers
      BY DEF Callers
    <3>2. PICK r \in Requests : r.by = t /\ queue' = Append(queue, r)
      BY <1>3, <2>1, <3>1, FilesAssumption, BoundsAssumption, RequestMade DEF LoadKey, NoFd
    <3> QED  BY <1>3, <3>1, <3>2, NotAsking, AppendOnce DEF LoadKey
  <2>2. CASE default # "inside"
    BY <1>3, <2>2 DEF LoadKey, OneCallEach, Busy
  <2> QED  BY <2>1, <2>2
<1>4. ASSUME NEW t \in Threads, CloseKey(t) PROVE OneCallEach'
  <2>1. t \in Callers
    BY DEF Callers
  <2>2. PICK r \in Requests : r.by = t /\ queue' = Append(queue, r)
    BY <1>4, <2>1, FilesAssumption, HandleTyped, RequestMade DEF CloseKey
  <2> QED  BY <1>4, <2>1, <2>2, NotAsking, AppendOnce DEF CloseKey
<1>5. ASSUME NEW t \in Threads, KeyFails(t) PROVE OneCallEach'
  <2>1. CASE req[t].op = "defaultLock"
    BY <1>5, <2>1, AnswerOnce DEF KeyFails, Answer
  <2>2. CASE req[t].op # "defaultLock"
    BY <1>5, <2>2 DEF KeyFails, OneCallEach, Busy
  <2> QED  BY <2>1, <2>2
<1>6. ASSUME NEW t \in Threads, Open(t) \/ Unseal(t) PROVE OneCallEach'
  BY <1>6 DEF Open, Unseal, OneCallEach, Busy
<1>8. ASSUME NEW t \in Threads, OpenFd(t) PROVE OneCallEach'
  BY <1>8, AnswerOnce DEF OpenFd, Answer
<1>9. ASSUME NEW t \in Threads, Flush(t) PROVE OneCallEach'
  <2>1. PICK r \in Requests : r.by = NoOne /\ queue' = Append(queue, r)
    BY <1>9, BusyTyped, RequestTyped, RequestMade DEF Flush
  <2>2. \A u \in Threads : req'[u] \in {req[u], NoRequest}
    BY <1>9 DEF Flush, AnswerTo, TypeOK
  <2> QED  BY <2>1, <2>2, CallersAssumption, AppendOnce
<1>10. ASSUME NEW t \in Threads, Release(t) PROVE OneCallEach'
  <2>1. CASE req[t].file \in tmp
    BY <1>10, <2>1 DEF Release, OneCallEach, Busy
  <2>2. CASE req[t].file \notin tmp
    BY <1>10, <2>2, AnswerOnce DEF Release, Answer
  <2> QED  BY <2>1, <2>2
<1>11. ASSUME NEW t \in Threads, SealAgain(t) \/ CloseAgain(t) \/ WriteClose(t)
       PROVE  OneCallEach'
  BY <1>11, AnswerOnce DEF SealAgain, CloseAgain, WriteClose, Answer
<1>13. ASSUME NEW t \in Threads, WriteOpen(t) PROVE OneCallEach'
  <2>1. CASE Answer(t)
    BY <1>13, <2>1, AnswerOnce DEF WriteOpen, Answer
  <2>2. CASE ~Answer(t)
    BY <1>13, <2>2 DEF WriteOpen, OneCallEach, Busy
  <2> QED  BY <2>1, <2>2
<1>15. ASSUME ChangeDefault \/ UNCHANGED vars PROVE OneCallEach'
  BY <1>15 DEF ChangeDefault, vars, OneCallEach, Busy
<1> QED  BY <1>1, <1>2, <1>3, <1>4, <1>5, <1>6, <1>8, <1>9, <1>10, <1>11, <1>13, <1>15
         DEF Next, Step

-----------------------------------------------------------------------------
(* What calls are about *)

\* A request stays sound as long as its caller is left alone.
LEMMA SoundKept ==
    ASSUME NEW r, NEW w, NEW p, NEW h, NEW w1, NEW p1, NEW h1, Sound(r, w, p, h),
           r.by \in w => r.by \in w1,
           r.by \in Threads => p1[r.by] = p[r.by],
           r.op # "release" => h1[r.by] = h[r.by]
    PROVE  Sound(r, w1, p1, h1)
  BY DEF Sound

\* When the queue, the requests and the handles stay, and no worker that waits
\* for a key moves, all requests stay sound.
LEMMA SoundFrame ==
    ASSUME RequestsSound, UNCHANGED <<queue, req, handle, waiting>>,
           \A u \in Threads : pc[u] = "await" => pc'[u] = "await"
    PROVE  RequestsSound'
  BY DEF RequestsSound, Sound, Busy

\* A new call is the only one that has to be looked at.
LEMMA SoundAppend ==
    ASSUME TypeOK, RequestsSound, NEW r \in Requests, queue' = Append(queue, r),
           Sound(r, waiting', pc', handle'),
           waiting \subseteq waiting',
           \A u \in Threads : pc[u] = "await" => pc'[u] = "await",
           UNCHANGED <<req, handle>>
    PROVE  RequestsSound'
<1>1. /\ Len(queue) \in Nat
      /\ Len(queue') = Len(queue) + 1
      /\ \A i \in 1..Len(queue) : queue'[i] = queue[i]
      /\ queue'[Len(queue) + 1] = r
  BY QueueAppend
<1>2. \A i \in 1..Len(queue') : i \in 1..Len(queue) \/ i = Len(queue) + 1
  BY <1>1
<1>3. \A q : Sound(q, waiting, pc, handle) => Sound(q, waiting', pc', handle')
  BY DEF Sound
<1> QED  BY <1>1, <1>2, <1>3 DEF RequestsSound, Busy

\* An answer leaves the other calls sound.
LEMMA AnswerSound ==
    ASSUME TypeOK, ControlOK, RequestsSound, OneCallEach,
           NEW t \in Threads, pc[t] \notin {"idle", "await"},
           NEW label \in {"await", "loaded", "failed"}, AnswerTo(t, label),
           \A c \in Callers : c # Caller(t) => handle'[c] = handle[c]
    PROVE  /\ \A i \in 1..Len(queue) : Sound(queue[i], waiting', pc', handle')
           /\ \A u \in Threads : Busy(u)' => Sound(req'[u], waiting', pc', handle')
<1>1. Busy(t) /\ req[t] \in Requests
  BY BusyTyped
<1>2. ASSUME NEW r \in Requests, Sound(r, waiting, pc, handle),
             r.by \in Callers => r.by # Caller(t)
      PROVE  Sound(r, waiting', pc', handle')
  <2>1. r.by \in Callers \union {NoOne} /\ (r.by = NoOne => r.by \notin Threads)
    BY RequestTyped, CallersAssumption DEF Callers
  <2>2. CASE r.by = NoOne
    BY <1>2, <2>1, <2>2 DEF Sound, Requests
  <2>3. CASE r.by \in Callers
    <3>1. r.by # Caller(t) /\ r.op # "release"
      BY <1>2, <2>3, CallersAssumption DEF Sound
    <3>2. r.by \in waiting => r.by \in waiting'
      BY <3>1 DEF AnswerTo
    <3>3. r.by \in Threads => pc'[r.by] = pc[r.by]
      <4>1. CASE r.by = t
        BY <1>2, <4>1 DEF Sound
      <4>2. CASE r.by # t
        BY <3>1, <4>2 DEF AnswerTo, TypeOK
      <4> QED  BY <4>1, <4>2
    <3>4. handle'[r.by] = handle[r.by]
      BY <2>3, <3>1
    <3> QED  BY <1>2, <3>2, <3>3, <3>4, SoundKept
  <2> QED  BY <2>1, <2>2, <2>3
<1>3. ASSUME NEW i \in 1..Len(queue) PROVE Sound(queue[i], waiting', pc', handle')
  <2>1. queue[i] \in Requests
    BY DEF TypeOK
  <2>2. queue[i].by \in Callers => queue[i].by # Caller(t)
    BY <1>1 DEF OneCallEach, Caller
  <2> QED  BY <1>2, <2>1, <2>2 DEF RequestsSound
<1>4. ASSUME NEW u \in Threads, Busy(u)' PROVE Sound(req'[u], waiting', pc', handle')
  <2>1. u # t /\ req'[u] = req[u] /\ Busy(u)
    BY <1>4 DEF AnswerTo, TypeOK, Busy
  <2>2. req[u] \in Requests
    BY <2>1 DEF TypeOK, Busy
  <2>3. req[u].by \in Callers => req[u].by # Caller(t)
    BY <1>1, <2>1 DEF OneCallEach, Caller
  <2> QED  BY <1>2, <2>1, <2>2, <2>3 DEF RequestsSound
<1> QED  BY <1>3, <1>4

\* Every action leaves the calls sound.
LEMMA SoundStep ==
    ASSUME TypeOK, ControlOK, RequestsSound, OneCallEach, KeyFileOpen, [Next]_vars
    PROVE  RequestsSound'
<1>1. ASSUME NEW c \in Clients, ClientCall(c) PROVE RequestsSound'
  <2>1. c \in Callers /\ c \notin Threads /\ c # NoOne
    BY CallersAssumption DEF Callers
  <2>2. PICK r \in Requests :
          /\ Call(c, r) /\ r.by = c /\ r.op # "release"
          /\ r.op = "flush" => handle[c] # Closed /\ handle[c].fd = r.fd
          /\ r.op \in {"open", "defaultLock"} => handle[c] = Closed
    <3>1. CASE handle[c] = Closed
      BY <1>1, <2>1, <3>1, RequestMade, HandleTyped DEF ClientCall, NoFd
    <3>2. CASE handle[c] # Closed
      BY <1>1, <2>1, <3>2, RequestMade, HandleTyped DEF ClientCall
    <3> QED  BY <3>1, <3>2
  <2>3. Sound(r, waiting', pc', handle')
    BY <2>1, <2>2 DEF Call, Sound
  <2> QED  BY <2>2, <2>3, SoundAppend DEF Call
<1>2. ASSUME NEW t \in Threads, Take(t) PROVE RequestsSound'
  <2>1. /\ Len(queue) \in Nat \ {0}
        /\ Head(queue) = queue[1]
        /\ Len(queue') = Len(queue) - 1
        /\ \A i \in 1..Len(queue') : queue'[i] = queue[i + 1]
    BY <1>2, QueueTail DEF Take
  <2>2. /\ 1 \in 1..Len(queue)
        /\ \A i \in 1..Len(queue') : i + 1 \in 1..Len(queue)
    BY <2>1
  <2>3. \A u \in Threads : req'[u] = IF u = t THEN queue[1] ELSE req[u]
    BY <1>2, <2>1 DEF Take, TypeOK
  <2>4. \A u \in Threads : pc[u] = "await" => pc'[u] = "await"
    BY <1>2 DEF Take, TypeOK
  <2>5. \A q : Sound(q, waiting, pc, handle) => Sound(q, waiting', pc', handle')
    BY <1>2, <2>4 DEF Take, Sound
  <2> QED  BY <2>1, <2>2, <2>3, <2>5 DEF RequestsSound, Busy
<1>3. ASSUME NEW t \in Threads, LoadKey(t) PROVE RequestsSound'
  <2>1. CASE default = "inside"
    <3>1. t \in Callers /\ t # NoOne
      BY CallersAssumption DEF Callers
    <3>2. PICK r \in Requests : r.by = t /\ r.op = "open" /\ queue' = Append(queue, r)
      BY <1>3, <2>1, <3>1, FilesAssumption, BoundsAssumption, RequestMade DEF LoadKey, NoFd
    <3>3. handle[t] = Closed
      BY <1>3 DEF LoadKey, KeyFileOpen
    <3>4. t \in waiting' /\ pc'[t] = "await" /\ handle' = handle
      BY <1>3, <2>1 DEF LoadKey, TypeOK
    <3>5. Sound(r, waiting', pc', handle')
      BY <3>1, <3>2, <3>3, <3>4 DEF Sound
    <3>6. \A u \in Threads : pc[u] = "await" => pc'[u] = "await"
      BY <1>3, <2>1 DEF LoadKey, TypeOK
    <3> QED  BY <1>3, <2>1, <3>2, <3>5, <3>6, SoundAppend DEF LoadKey
  <2>2. CASE default # "inside"
    BY <1>3, <2>2, SoundFrame DEF LoadKey, TypeOK
  <2> QED  BY <2>1, <2>2
<1>4. ASSUME NEW t \in Threads, CloseKey(t) PROVE RequestsSound'
  <2>1. t \in Callers /\ t # NoOne
    BY CallersAssumption DEF Callers
  <2>2. PICK r \in Requests : /\ r.by = t /\ r.op = "flush" /\ r.fd = handle[t].fd
                             /\ queue' = Append(queue, r)
    BY <1>4, <2>1, FilesAssumption, HandleTyped, RequestMade DEF CloseKey
  <2>3. handle[t] # Closed /\ pc[t] = "await"
    BY <1>4 DEF CloseKey, KeyFileOpen
  <2>4. Sound(r, waiting', pc', handle')
    BY <1>4, <2>1, <2>2, <2>3 DEF CloseKey, Sound
  <2> QED  BY <1>4, <2>2, <2>4, SoundAppend DEF CloseKey
<1>5. ASSUME NEW t \in Threads, KeyFails(t) PROVE RequestsSound'
  <2>1. CASE req[t].op = "defaultLock"
    <3>1. AnswerTo(t, "failed") /\ UNCHANGED <<queue, handle>> /\ pc[t] = "failed"
      BY <1>5, <2>1 DEF KeyFails, Answer
    <3> QED  BY <3>1, AnswerSound DEF RequestsSound
  <2>2. CASE req[t].op # "defaultLock"
    BY <1>5, <2>2, SoundFrame DEF KeyFails, TypeOK
  <2> QED  BY <2>1, <2>2
<1>6. ASSUME NEW t \in Threads, Open(t) \/ Unseal(t) PROVE RequestsSound'
  BY <1>6, SoundFrame DEF Open, Unseal, TypeOK
<1>8. ASSUME NEW t \in Threads, OpenFd(t) PROVE RequestsSound'
  <2>1. PICK label \in {"await", "failed"} : AnswerTo(t, label)
    BY <1>8 DEF OpenFd, Answer
  <2>2. \A c \in Callers : c # Caller(t) => handle'[c] = handle[c]
    BY <1>8 DEF OpenFd, TypeOK
  <2>3. pc[t] = "openFd" /\ UNCHANGED queue
    BY <1>8 DEF OpenFd
  <2> QED  BY <2>1, <2>2, <2>3, AnswerSound DEF RequestsSound
<1>9. ASSUME NEW t \in Threads, Flush(t) PROVE RequestsSound'
  <2>1. PICK r \in Requests : r.by = NoOne /\ r.op = "release" /\ queue' = Append(queue, r)
    BY <1>9, BusyTyped, RequestTyped, RequestMade DEF Flush
  <2>2. PICK label \in {"loaded", "failed"} : AnswerTo(t, label)
    BY <1>9 DEF Flush
  <2>3. \A c \in Callers : c # Caller(t) => handle'[c] = handle[c]
    BY <1>9 DEF Flush, TypeOK
  <2>4. /\ \A i \in 1..Len(queue) : Sound(queue[i], waiting', pc', handle')
        /\ \A u \in Threads : Busy(u)' => Sound(req'[u], waiting', pc', handle')
    BY <1>9, <2>2, <2>3, AnswerSound DEF Flush
  <2>5. Sound(r, waiting', pc', handle')
    BY <2>1, CallersAssumption DEF Sound, Callers
  <2>6. /\ Len(queue) \in Nat
        /\ Len(queue') = Len(queue) + 1
        /\ \A i \in 1..Len(queue) : queue'[i] = queue[i]
        /\ queue'[Len(queue) + 1] = r
    BY <2>1, QueueAppend
  <2>7. \A i \in 1..Len(queue') : i \in 1..Len(queue) \/ i = Len(queue) + 1
    BY <2>6
  <2> QED  BY <2>4, <2>5, <2>6, <2>7 DEF RequestsSound
<1>10. ASSUME NEW t \in Threads, Release(t) PROVE RequestsSound'
  <2>1. CASE req[t].file \in tmp
    BY <1>10, <2>1, SoundFrame DEF Release, TypeOK
  <2>2. CASE req[t].file \notin tmp
    <3>1. AnswerTo(t, "failed") /\ UNCHANGED <<queue, handle>> /\ pc[t] = "release"
      BY <1>10, <2>2 DEF Release, Answer
    <3> QED  BY <3>1, AnswerSound DEF RequestsSound
  <2> QED  BY <2>1, <2>2
<1>11. ASSUME NEW t \in Threads, SealAgain(t) \/ CloseAgain(t) \/ WriteClose(t)
       PROVE  RequestsSound'
  <2>1. AnswerTo(t, "failed") /\ UNCHANGED <<queue, handle>> /\ pc[t] \notin {"idle", "await"}
    BY <1>11 DEF SealAgain, CloseAgain, WriteClose, Answer
  <2> QED  BY <2>1, AnswerSound DEF RequestsSound
<1>13. ASSUME NEW t \in Threads, WriteOpen(t) PROVE RequestsSound'
  <2>1. CASE Answer(t)
    <3>1. AnswerTo(t, "failed") /\ UNCHANGED <<queue, handle>> /\ pc[t] = "write"
      BY <1>13, <2>1 DEF WriteOpen, Answer
    <3> QED  BY <3>1, AnswerSound DEF RequestsSound
  <2>2. CASE ~Answer(t)
    BY <1>13, <2>2, SoundFrame DEF WriteOpen, TypeOK
  <2> QED  BY <2>1, <2>2
<1>15. ASSUME ChangeDefault \/ UNCHANGED vars PROVE RequestsSound'
  BY <1>15, SoundFrame DEF ChangeDefault, vars
<1> QED  BY <1>1, <1>2, <1>3, <1>4, <1>5, <1>6, <1>8, <1>9, <1>10, <1>11, <1>13, <1>15
         DEF Next, Step

-----------------------------------------------------------------------------
(* The key file *)

\* An answer by which no worker gets or loses a file keeps KeyFileOpen.
LEMMA AnswerKeyFile ==
    ASSUME TypeOK, ControlOK, RequestsSound, KeyFileOpen,
           NEW t \in Threads, pc[t] \notin {"idle", "await"}, AnswerTo(t, "failed"),
           UNCHANGED handle, req[t].op # "flush"
    PROVE  KeyFileOpen'
<1> SUFFICES ASSUME NEW u \in Threads
             PROVE  /\ pc'[u] # "await" => handle[u] = Closed
                    /\ pc'[u] = "await" /\ u \notin waiting' => handle[u] # Closed
  BY DEF KeyFileOpen
<1>1. CASE u = t
  BY <1>1 DEF AnswerTo, TypeOK, KeyFileOpen
<1>2. CASE u # t /\ u = Caller(t)
  <2>1. Sound(req[t], waiting, pc, handle)
    BY BusyTyped DEF RequestsSound
  <2>2. handle[u] = Closed
    BY <1>2, <2>1 DEF Sound, Caller
  <2> QED  BY <1>2, <2>2 DEF AnswerTo, TypeOK
<1>3. CASE u # t /\ u # Caller(t)
  BY <1>3 DEF AnswerTo, TypeOK, KeyFileOpen
<1> QED  BY <1>1, <1>2, <1>3

\* A worker has the key file open only while it reads it.
LEMMA KeyFileStep ==
    ASSUME TypeOK, ControlOK, RequestsSound, KeyFileOpen, [Next]_vars
    PROVE  KeyFileOpen'
<1>1. ASSUME NEW c \in Clients, ClientCall(c) PROVE KeyFileOpen'
  <2>1. waiting \subseteq waiting' /\ UNCHANGED <<pc, handle>>
    BY <1>1 DEF ClientCall, Call
  <2> QED  BY <2>1 DEF KeyFileOpen
<1>2. ASSUME NEW t \in Threads, Take(t) PROVE KeyFileOpen'
  <2>1. FirstStep(Head(queue).op) # "await"
    BY <1>2, QueueTail, RequestTyped DEF Take, FirstStep
  <2> QED  BY <1>2, <2>1 DEF Take, TypeOK, KeyFileOpen
<1>3. ASSUME NEW t \in Threads, LoadKey(t) PROVE KeyFileOpen'
  BY <1>3 DEF LoadKey, TypeOK, KeyFileOpen
<1>4. ASSUME NEW t \in Threads, CloseKey(t) PROVE KeyFileOpen'
  BY <1>4 DEF CloseKey, KeyFileOpen
<1>5. ASSUME NEW t \in Threads, KeyFails(t) PROVE KeyFileOpen'
  <2>1. CASE req[t].op = "defaultLock"
    BY <1>5, <2>1, AnswerKeyFile DEF KeyFails, Answer
  <2>2. CASE req[t].op # "defaultLock"
    BY <1>5, <2>2 DEF KeyFails, TypeOK, KeyFileOpen
  <2> QED  BY <2>1, <2>2
<1>6. ASSUME NEW t \in Threads, Open(t) \/ Unseal(t) PROVE KeyFileOpen'
  BY <1>6 DEF Open, Unseal, TypeOK, KeyFileOpen
<1>8. ASSUME NEW t \in Threads, OpenFd(t) PROVE KeyFileOpen'
  <2>1. CASE TableFull
    <3>1. AnswerTo(t, "failed") /\ UNCHANGED handle
      BY <1>8, <2>1 DEF OpenFd, Answer, LowestFree, TableFull
    <3> QED  BY <1>8, <3>1, AnswerKeyFile DEF OpenFd, ControlOK
  <2>2. CASE ~TableFull
    <3>1. PICK n \in Descriptors :
            handle' = [handle EXCEPT ![Caller(t)] = [file |-> req[t].file, fd |-> n]]
      BY <1>8, <2>2 DEF OpenFd
    <3>2. [file |-> req[t].file, fd |-> n] # Closed
      BY BoundsAssumption DEF Closed, NoFd, Descriptors
    <3>3. AnswerTo(t, "await") /\ pc[t] = "openFd"
      BY <1>8, <2>2 DEF OpenFd
    <3>4. ASSUME NEW u \in Threads
          PROVE  /\ pc'[u] # "await" => handle'[u] = Closed
                 /\ pc'[u] = "await" /\ u \notin waiting' => handle'[u] # Closed
      <4>1. CASE u = t
        <5>1. u # Caller(t)
          BY <3>3, <4>1, CallerAwaits
        <5> QED  BY <3>1, <3>3, <4>1, <5>1 DEF AnswerTo, TypeOK, KeyFileOpen, Callers
      <4>2. CASE u # t /\ u = Caller(t)
        BY <3>1, <3>2, <3>3, <4>2 DEF AnswerTo, TypeOK, Callers
      <4>3. CASE u # t /\ u # Caller(t)
        BY <3>1, <3>3, <4>3 DEF AnswerTo, TypeOK, KeyFileOpen, Callers
      <4> QED  BY <4>1, <4>2, <4>3
    <3> QED  BY <3>4 DEF KeyFileOpen
  <2> QED  BY <2>1, <2>2
<1>9. ASSUME NEW t \in Threads, Flush(t) PROVE KeyFileOpen'
  <2>1. PICK label \in {"loaded", "failed"} : AnswerTo(t, label)
    BY <1>9 DEF Flush
  <2>2. ASSUME NEW u \in Threads
        PROVE  /\ pc'[u] # "await" => handle'[u] = Closed
               /\ pc'[u] = "await" /\ u \notin waiting' => handle'[u] # Closed
    <3>1. CASE u = t
      BY <1>9, <2>1, <3>1 DEF Flush, AnswerTo, TypeOK, KeyFileOpen, Callers
    <3>2. CASE u # t /\ u = Caller(t)
      BY <1>9, <2>1, <3>2 DEF Flush, AnswerTo, TypeOK, KeyFileOpen, Callers
    <3>3. CASE u # t /\ u # Caller(t)
      BY <1>9, <2>1, <3>3 DEF Flush, AnswerTo, TypeOK, KeyFileOpen, Callers
    <3> QED  BY <3>1, <3>2, <3>3
  <2> QED  BY <2>2 DEF KeyFileOpen
<1>10. ASSUME NEW t \in Threads, Release(t) PROVE KeyFileOpen'
  <2>1. CASE req[t].file \in tmp
    BY <1>10, <2>1 DEF Release, TypeOK, KeyFileOpen
  <2>2. CASE req[t].file \notin tmp
    BY <1>10, <2>2, AnswerKeyFile DEF Release, Answer, ControlOK
  <2> QED  BY <2>1, <2>2
<1>11. ASSUME NEW t \in Threads, SealAgain(t) \/ CloseAgain(t) \/ WriteClose(t)
       PROVE  KeyFileOpen'
  <2>1. AnswerTo(t, "failed") /\ UNCHANGED handle /\ pc[t] \notin {"idle", "await"}
        /\ req[t].op # "flush"
    BY <1>11 DEF SealAgain, CloseAgain, WriteClose, Answer, ControlOK
  <2> QED  BY <2>1, AnswerKeyFile
<1>13. ASSUME NEW t \in Threads, WriteOpen(t) PROVE KeyFileOpen'
  <2>1. CASE Answer(t)
    BY <1>13, <2>1, AnswerKeyFile DEF WriteOpen, Answer, ControlOK
  <2>2. CASE ~Answer(t)
    BY <1>13, <2>2 DEF WriteOpen, TypeOK, KeyFileOpen
  <2> QED  BY <2>1, <2>2
<1>15. ASSUME ChangeDefault \/ UNCHANGED vars PROVE KeyFileOpen'
  BY <1>15 DEF ChangeDefault, vars, KeyFileOpen
<1> QED  BY <1>1, <1>2, <1>3, <1>4, <1>5, <1>6, <1>8, <1>9, <1>10, <1>11, <1>13, <1>15
         DEF Next, Step

\* A marker of the key file comes from locking it.
LEMMA KeyFilePlainStep ==
    ASSUME TypeOK, KeyFilePlain, [Next]_vars
    PROVE  /\ KeyFilePlain'
           /\ selfLocked => selfLocked'
<1>1. ASSUME UNCHANGED <<locked, tmp, selfLocked>> PROVE KeyFilePlain' /\ (selfLocked => selfLocked')
  BY <1>1 DEF KeyFilePlain
<1>2. ASSUME NEW t \in Threads, Step(t) PROVE KeyFilePlain' /\ (selfLocked => selfLocked')
  <2>1. CASE Unseal(t)
    BY <2>1 DEF Unseal, KeyFilePlain, history
  <2>2. CASE Release(t)
    BY <2>2 DEF Release, KeyFilePlain, history
  <2>3. CASE SealAgain(t)
    BY <2>3 DEF SealAgain, Lock, KeyFilePlain
  <2>4. CASE ~Unseal(t) /\ ~Release(t) /\ ~SealAgain(t)
    BY <1>1, <1>2, <2>4 DEF Step, Take, LoadKey, CloseKey, KeyFails, Open, OpenFd, Flush,
                            CloseAgain, WriteOpen, WriteClose, files, history
  <2> QED  BY <2>1, <2>2, <2>3, <2>4
<1>3. ASSUME NEW c \in Clients, ClientCall(c) PROVE KeyFilePlain' /\ (selfLocked => selfLocked')
  BY <1>1, <1>3 DEF ClientCall, Call, files, history
<1>4. CASE ChangeDefault \/ UNCHANGED vars
  BY <1>1, <1>4 DEF ChangeDefault, vars, files, history
<1> QED  BY <1>2, <1>3, <1>4 DEF Next

\* An answer sends no worker to read a key: one that goes on has been waiting.
LEMMA AnswerNeedsNoKey ==
    ASSUME TypeOK, ControlOK, RequestsSound, KeyNeedsNoKey, selfLocked => selfLocked',
           NEW t \in Threads, pc[t] \notin {"idle", "await"},
           NEW label \in {"await", "loaded", "failed"}, AnswerTo(t, label)
    PROVE  KeyNeedsNoKey'
<1> SUFFICES ASSUME NEW u \in Threads, pc'[u] \in {"await", "key"}
             PROVE  pc[u] \in {"await", "key"} /\ req'[u] = req[u]
  BY DEF KeyNeedsNoKey
<1>1. u # t
  BY DEF AnswerTo, TypeOK
<1>2. CASE u = Caller(t)
  BY <1>1, <1>2, CallerAwaits DEF AnswerTo, TypeOK
<1>3. CASE u # Caller(t)
  BY <1>1, <1>3 DEF AnswerTo, TypeOK
<1> QED  BY <1>1, <1>2, <1>3

\* Nothing that is needed to read a key needs a key.
LEMMA NeedsNoKeyStep ==
    ASSUME TypeOK, ControlOK, RequestsSound, KeyFilePlain, KeyNeedsNoKey, [Next]_vars
    PROVE  KeyNeedsNoKey'
<1>0. selfLocked => selfLocked'
  BY KeyFilePlainStep
<1>1. ASSUME NEW c \in Clients, ClientCall(c) PROVE KeyNeedsNoKey'
  BY <1>0, <1>1 DEF ClientCall, Call, KeyNeedsNoKey
<1>2. ASSUME NEW t \in Threads, Take(t) PROVE KeyNeedsNoKey'
  BY <1>0, <1>2 DEF Take, FirstStep, TypeOK, KeyNeedsNoKey
<1>3. ASSUME NEW t \in Threads, LoadKey(t) PROVE KeyNeedsNoKey'
  BY <1>0, <1>3 DEF LoadKey, TypeOK, KeyNeedsNoKey
<1>4. ASSUME NEW t \in Threads, CloseKey(t) PROVE KeyNeedsNoKey'
  BY <1>0, <1>4 DEF CloseKey, KeyNeedsNoKey
<1>5. ASSUME NEW t \in Threads, KeyFails(t) PROVE KeyNeedsNoKey'
  <2>1. CASE req[t].op = "defaultLock"
    BY <1>0, <1>5, <2>1, AnswerNeedsNoKey DEF KeyFails, Answer
  <2>2. CASE req[t].op # "defaultLock"
    BY <1>0, <1>5, <2>2 DEF KeyFails, TypeOK, KeyNeedsNoKey
  <2> QED  BY <2>1, <2>2
<1>6. ASSUME NEW t \in Threads, Open(t) PROVE KeyNeedsNoKey'
  BY <1>0, <1>6 DEF Open, TypeOK, KeyNeedsNoKey, KeyFilePlain
<1>7. ASSUME NEW t \in Threads, Unseal(t) PROVE KeyNeedsNoKey'
  BY <1>0, <1>7 DEF Unseal, TypeOK, KeyNeedsNoKey
<1>8. ASSUME NEW t \in Threads, OpenFd(t) \/ Flush(t) PROVE KeyNeedsNoKey'
  <2>1. PICK label \in {"await", "loaded", "failed"} : AnswerTo(t, label)
    BY <1>8 DEF OpenFd, Flush, Answer
  <2>2. pc[t] \notin {"idle", "await"}
    BY <1>8 DEF OpenFd, Flush
  <2> QED  BY <1>0, <2>1, <2>2, AnswerNeedsNoKey
<1>10. ASSUME NEW t \in Threads, Release(t) PROVE KeyNeedsNoKey'
  <2>1. CASE req[t].file \in tmp
    BY <1>0, <1>10, <2>1 DEF Release, TypeOK, KeyNeedsNoKey, KeyFilePlain
  <2>2. CASE req[t].file \notin tmp
    BY <1>0, <1>10, <2>2, AnswerNeedsNoKey DEF Release, Answer
  <2> QED  BY <2>1, <2>2
<1>11. ASSUME NEW t \in Threads, SealAgain(t) \/ CloseAgain(t) \/ WriteClose(t)
       PROVE  KeyNeedsNoKey'
  <2>1. AnswerTo(t, "failed") /\ pc[t] \notin {"idle", "await"}
    BY <1>11 DEF SealAgain, CloseAgain, WriteClose, Answer
  <2> QED  BY <1>0, <2>1, AnswerNeedsNoKey
<1>13. ASSUME NEW t \in Threads, WriteOpen(t) PROVE KeyNeedsNoKey'
  <2>1. CASE Answer(t)
    BY <1>0, <1>13, <2>1, AnswerNeedsNoKey DEF WriteOpen, Answer
  <2>2. CASE ~Answer(t)
    BY <1>0, <1>13, <2>2 DEF WriteOpen, TypeOK, KeyNeedsNoKey
  <2> QED  BY <2>1, <2>2
<1>15. ASSUME ChangeDefault \/ UNCHANGED vars PROVE KeyNeedsNoKey'
  BY <1>0, <1>15 DEF ChangeDefault, vars, KeyNeedsNoKey
<1> QED  BY <1>1, <1>2, <1>3, <1>4, <1>5, <1>6, <1>7, <1>8, <1>10, <1>11, <1>13, <1>15
         DEF Next, Step

\* The second close comes after the failure that is remembered.
LEMMA SecondCloseStep ==
    ASSUME TypeOK, SecondClose, [Next]_vars
    PROVE  /\ SecondClose'
           /\ keyFailed => keyFailed'
<1>1. ASSUME NEW t \in Threads, NEW label \in {"await", "loaded", "failed"},
             AnswerTo(t, label), UNCHANGED keyFailed
      PROVE  SecondClose'
  BY <1>1 DEF AnswerTo, SecondClose, TypeOK
<1>2. ASSUME NEW t \in Threads, NEW label \in Labels \ {"closeAgain"},
             Goto(t, label), UNCHANGED keyFailed
      PROVE  SecondClose'
  BY <1>2 DEF SecondClose, TypeOK
<1>3. ASSUME UNCHANGED <<pc, keyFailed>> PROVE SecondClose'
  BY <1>3 DEF SecondClose
<1>4. ASSUME NEW t \in Threads, Step(t) PROVE SecondClose' /\ (keyFailed => keyFailed')
  <2>1. CASE Take(t)
    <3>1. FirstStep(Head(queue).op) \in Labels \ {"closeAgain"}
      BY <2>1, QueueTail, RequestTyped DEF Take, FirstStep, Labels
    <3> QED  BY <1>2, <2>1, <3>1 DEF Take, history
  <2>2. CASE KeyFails(t)
    BY <1>1, <1>2, <2>2 DEF KeyFails, Answer, SecondClose, TypeOK, Labels
  <2>3. CASE LoadKey(t) \/ CloseKey(t) \/ Open(t) \/ Unseal(t)
    BY <1>2, <1>3, <2>3 DEF LoadKey, CloseKey, Open, Unseal, Labels, history
  <2>4. CASE OpenFd(t) \/ Flush(t) \/ SealAgain(t) \/ CloseAgain(t) \/ WriteClose(t)
    BY <1>1, <2>4 DEF OpenFd, Flush, SealAgain, CloseAgain, WriteClose, Answer, history
  <2>5. CASE Release(t) \/ WriteOpen(t)
    BY <1>1, <1>2, <2>5 DEF Release, WriteOpen, Answer, Labels, history
  <2> QED  BY <1>4, <2>1, <2>2, <2>3, <2>4, <2>5 DEF Step
<1>5. CASE \E c \in Clients : ClientCall(c)
  BY <1>3, <1>5 DEF ClientCall, Call, history
<1>6. CASE ChangeDefault \/ UNCHANGED vars
  BY <1>3, <1>6 DEF ChangeDefault, vars, history
<1> QED  BY <1>4, <1>5, <1>6 DEF Next

-----------------------------------------------------------------------------
(* Descriptors *)

\* n is held by somebody.
Held(n) ==
    \/ \E c \in Callers : Has(c) /\ handle[c].fd = n
    \/ \E t \in Threads : Writes(t) /\ own[t] = n
    \/ \E i \in 1..Len(queue) : Waits(i) /\ queue[i].fd = n
    \/ \E t \in Threads : Releases(t) /\ req[t].fd = n

\* Nobody holds a number that is free.
LEMMA FreeNotHeld ==
    ASSUME TypeOK, ControlOK, Owned, NEW n \in Descriptors, table[n] = Free
    PROVE  ~Held(n)
<1>1. ASSUME NEW c \in Callers, Has(c) PROVE handle[c].fd # n
  BY <1>1, HandleTyped, SentinelsAssumption DEF Owned, Open1, Has
<1>2. ASSUME NEW t \in Threads, Writes(t) PROVE own[t] # n
  BY <1>2, BusyTyped, RequestTyped, SentinelsAssumption DEF Owned, Open2, Writes
<1> QED  BY <1>1, <1>2 DEF Held, Owned, Open3, Open4

\* When nobody gets a descriptor, and those that are still held stay what they
\* are, everybody keeps what is theirs.
LEMMA OwnedShrinks ==
    ASSUME TypeOK, TypeOK', Owned,
           \A c \in Callers : Has(c)' => handle'[c] = handle[c],
           \A t \in Threads : Writes(t)' => Writes(t) /\ own'[t] = own[t] /\ req'[t] = req[t],
           \A i \in 1..Len(queue') : Waits(i)' => i \in 1..Len(queue) /\ queue'[i] = queue[i],
           \A t \in Threads : Releases(t)' => Releases(t) /\ req'[t] = req[t],
           \A n \in Descriptors : Held(n)' => table'[n] = table[n]
    PROVE  Owned'
<1>1. \A c \in Callers : Has(c)' => Has(c) /\ handle[c].fd \in Descriptors
  BY HandleTyped DEF Has
<1>2. \A i \in 1..Len(queue') : Waits(i)' => Waits(i)
  BY DEF Waits
<1>3. Open1' /\ Open2'
  BY <1>1 DEF Owned, Open1, Open2, Held
<1>4. Open3' /\ Open4'
  BY <1>2 DEF Owned, Open3, Open4, Held
<1>5. Apart11' /\ Apart12' /\ Apart14' /\ Apart22' /\ Apart24' /\ Apart44'
  BY <1>1 DEF Owned, Apart11, Apart12, Apart14, Apart22, Apart24, Apart44
<1>6. Apart13' /\ Apart23' /\ Apart33' /\ Apart34'
  BY <1>1, <1>2 DEF Owned, Apart13, Apart23, Apart33, Apart34
<1> QED  BY <1>3, <1>4, <1>5, <1>6 DEF Owned

\* An answer gives nobody a descriptor by itself.
LEMMA AnswerOwned ==
    ASSUME TypeOK, TypeOK', Owned,
           NEW t \in Threads, NEW label \in {"await", "loaded", "failed"}, AnswerTo(t, label),
           UNCHANGED <<queue, handle>>,
           \A u \in Threads : u # t => own'[u] = own[u],
           \A n \in Descriptors : Held(n)' => table'[n] = table[n]
    PROVE  Owned'
<1>1. \A u \in Threads : pc'[u] \in {"writing", "release"} =>
        u # t /\ pc[u] = pc'[u] /\ req'[u] = req[u]
  BY DEF AnswerTo, TypeOK
<1> QED  BY <1>1, OwnedShrinks DEF Writes, Releases, Waits

\* A step of a handler to a label at which nothing is held.
LEMMA GotoOwned ==
    ASSUME TypeOK, TypeOK', Owned,
           NEW t \in Threads, NEW label \in Labels \ {"writing", "release"}, Goto(t, label),
           UNCHANGED <<handle, own, req>>,
           \A i \in 1..Len(queue') : Waits(i)' => i \in 1..Len(queue) /\ queue'[i] = queue[i],
           \A n \in Descriptors : Held(n)' => table'[n] = table[n]
    PROVE  Owned'
<1>1. \A u \in Threads : pc'[u] \in {"writing", "release"} => pc[u] = pc'[u]
  BY DEF TypeOK
<1> QED  BY <1>1, OwnedShrinks DEF Writes, Releases

\* A new request that is no release holds nothing.
LEMMA AppendOwned ==
    ASSUME TypeOK, NEW r \in Requests, r.op # "release", queue' = Append(queue, r)
    PROVE  \A i \in 1..Len(queue') : Waits(i)' => i \in 1..Len(queue) /\ queue'[i] = queue[i]
<1>1. /\ Len(queue) \in Nat
      /\ Len(queue') = Len(queue) + 1
      /\ \A i \in 1..Len(queue) : queue'[i] = queue[i]
      /\ queue'[Len(queue) + 1] = r
  BY QueueAppend
<1>2. \A i \in 1..Len(queue') : i \in 1..Len(queue) \/ i = Len(queue) + 1
  BY <1>1
<1> QED  BY <1>1, <1>2 DEF Waits

\* A worker that takes a release holds what the release held.
LEMMA TakeOwned ==
    ASSUME TypeOK, TypeOK', Owned, NEW t \in Threads, Take(t)
    PROVE  Owned'
<1>1. /\ Len(queue) \in Nat \ {0}
      /\ Head(queue) \in Requests /\ Head(queue) = queue[1]
      /\ Len(queue') = Len(queue) - 1
      /\ \A i \in 1..Len(queue') : queue'[i] = queue[i + 1]
  BY QueueTail DEF Take
<1>2. /\ 1 \in 1..Len(queue)
      /\ \A i \in 1..Len(queue') : i + 1 \in 1..Len(queue) /\ i + 1 # 1
  BY <1>1
<1>3. \A i \in 1..Len(queue') : Waits(i)' => Waits(i + 1)
  BY <1>1 DEF Waits
<1>4. \A u \in Threads : Writes(u)' => u # t /\ Writes(u) /\ req'[u] = req[u]
  BY <1>1, RequestTyped DEF Take, FirstStep, Writes, TypeOK
<1>5. \A u \in Threads : Releases(u)' =>
        \/ u # t /\ Releases(u) /\ req'[u] = req[u]
        \/ u = t /\ Waits(1) /\ req'[u] = queue[1]
  BY <1>1, RequestTyped DEF Take, FirstStep, Releases, Waits, TypeOK
<1>6. UNCHANGED <<table, handle, own>> /\ \A c \in Callers : Has(c)' <=> Has(c)
  BY DEF Take, Has
<1>7. Open1' /\ Open2' /\ Open3' /\ Open4'
  BY <1>1, <1>2, <1>3, <1>4, <1>5, <1>6 DEF Owned, Open1, Open2, Open3, Open4
<1>8. Apart11' /\ Apart12' /\ Apart13' /\ Apart14'
  <2>1. Apart11' /\ Apart12'
    BY <1>4, <1>6 DEF Owned, Apart11, Apart12
  <2>2. Apart13'
    BY <1>1, <1>2, <1>3, <1>6 DEF Owned, Apart13
  <2>3. Apart14'
    BY <1>2, <1>5, <1>6 DEF Owned, Apart13, Apart14
  <2> QED  BY <2>1, <2>2, <2>3
<1>9. Apart22' /\ Apart23' /\ Apart24'
  BY <1>1, <1>2, <1>3, <1>4, <1>5, <1>6 DEF Owned, Apart22, Apart23, Apart24
<1>10. Apart33'
  BY <1>1, <1>2, <1>3 DEF Owned, Apart33
<1>11. Apart34' /\ Apart44'
  BY <1>1, <1>2, <1>3, <1>5 DEF Owned, Apart33, Apart34, Apart44
<1> QED  BY <1>7, <1>8, <1>9, <1>10, <1>11 DEF Owned

\* The release of a flush holds what its caller had.
LEMMA FlushOwned ==
    ASSUME TypeOK, TypeOK', ControlOK, RequestsSound, Owned, NEW t \in Threads, Flush(t)
    PROVE  Owned'
<1> DEFINE c0 == Caller(t)
           n == req[t].fd
           last == Len(queue) + 1
<1>1. Busy(t) /\ req[t] \in Requests /\ req[t].op = "flush"
  BY BusyTyped DEF Flush, ControlOK
<1>2. c0 \in Callers /\ Has(c0) /\ handle[c0].fd = n
  BY <1>1, RequestTyped DEF RequestsSound, Sound, Caller, Has
<1>3. n \in Descriptors /\ table[n] # Free
  BY <1>2, HandleTyped, SentinelsAssumption DEF Owned, Open1, Has
<1>4. PICK r \in Requests : r.op = "release" /\ r.fd = n /\ queue' = Append(queue, r)
  BY <1>1, RequestTyped, RequestMade DEF Flush
<1>5. /\ Len(queue) \in Nat
      /\ Len(queue') = last
      /\ \A i \in 1..Len(queue) : queue'[i] = queue[i]
      /\ queue'[last] = r
  BY <1>4, QueueAppend
<1>6. \A i \in 1..Len(queue') : i \in 1..Len(queue) \/ i = last
  BY <1>5
<1>7. \A i \in 1..Len(queue') : Waits(i)' =>
        \/ i \in 1..Len(queue) /\ Waits(i) /\ queue'[i].fd = queue[i].fd
        \/ i = last /\ queue'[i].fd = n
  BY <1>4, <1>5, <1>6 DEF Waits
<1>8. \A c \in Callers : Has(c)' => c # c0 /\ Has(c) /\ handle'[c] = handle[c]
  BY DEF Flush, TypeOK, Has
<1>9. \A u \in Threads : pc'[u] \in {"writing", "release"} =>
        pc[u] = pc'[u] /\ req'[u] = req[u]
  BY DEF Flush, AnswerTo, TypeOK
<1>10. \A u \in Threads : Writes(u)' => Writes(u) /\ req'[u] = req[u]
  BY <1>9 DEF Writes
<1>11. \A u \in Threads : Releases(u)' => Releases(u) /\ req'[u] = req[u]
  BY <1>9 DEF Releases
<1>12. UNCHANGED <<table, own>>
  BY DEF Flush
<1> HIDE DEF c0, n, last
<1>13. Open1' /\ Open2' /\ Open4'
  BY <1>8, <1>10, <1>11, <1>12 DEF Owned, Open1, Open2, Open4
<1>14. Open3'
  BY <1>3, <1>7, <1>12 DEF Owned, Open3
<1>15. Apart11' /\ Apart12' /\ Apart14' /\ Apart22' /\ Apart24' /\ Apart44'
  BY <1>8, <1>10, <1>11, <1>12
     DEF Owned, Apart11, Apart12, Apart14, Apart22, Apart24, Apart44
<1>16. Apart13'
  BY <1>2, <1>7, <1>8 DEF Owned, Apart11, Apart13
<1>17. Apart23'
  BY <1>2, <1>7, <1>10, <1>12 DEF Owned, Apart12, Apart23
<1>18. Apart33'
  BY <1>2, <1>7 DEF Owned, Apart13, Apart33
<1>19. Apart34'
  BY <1>2, <1>7, <1>11 DEF Owned, Apart14, Apart34
<1> QED  BY <1>13, <1>14, <1>15, <1>16, <1>17, <1>18, <1>19 DEF Owned

\* open gives its caller a number that nobody holds.
LEMMA OpenFdOwned ==
    ASSUME TypeOK, TypeOK', ControlOK, RequestsSound, Owned, NEW t \in Threads, OpenFd(t)
    PROVE  Owned'
<1>1. CASE TableFull
  <2>1. AnswerTo(t, "failed") /\ UNCHANGED <<queue, handle, own, table>>
    BY <1>1 DEF OpenFd, LowestFree, TableFull, Answer
  <2> QED  BY <2>1, AnswerOwned
<1>2. CASE ~TableFull
  <2>1. PICK n \in Descriptors :
          /\ table[n] = Free
          /\ table' = [table EXCEPT ![n] = req[t].file]
          /\ handle' = [handle EXCEPT ![Caller(t)] = [file |-> req[t].file, fd |-> n]]
    BY <1>2 DEF OpenFd, LowestFree, Opened
  <2> DEFINE c0 == Caller(t)
             f == req[t].file
  <2>2. Busy(t) /\ req[t] \in Requests /\ req[t].op = "open"
    BY BusyTyped DEF OpenFd, ControlOK
  <2>3. c0 \in Callers /\ f \in Files
    BY <2>2, RequestTyped DEF RequestsSound, Sound, Caller
  <2>4. ~Held(n)
    BY <2>1, FreeNotHeld
  <2>5. \A c \in Callers : Has(c)' =>
          \/ c # c0 /\ Has(c) /\ handle'[c] = handle[c] /\ handle[c].fd \in Descriptors
          \/ c = c0 /\ handle'[c].fd = n /\ handle'[c].file = f
    BY <2>1, <2>3, HandleTyped DEF Has, TypeOK
  <2>6. \A u \in Threads : pc'[u] \in {"writing", "release"} =>
          pc[u] = pc'[u] /\ req'[u] = req[u]
    BY DEF OpenFd, Answer, AnswerTo, TypeOK
  <2>7. \A u \in Threads : Writes(u)' => Writes(u) /\ req'[u] = req[u] /\ own[u] # n
    BY <2>4, <2>6 DEF Writes, Held
  <2>8. \A u \in Threads : Releases(u)' => Releases(u) /\ req'[u] = req[u] /\ req[u].fd # n
    BY <2>4, <2>6 DEF Releases, Held
  <2>9. \A i \in 1..Len(queue) : Waits(i) => queue[i].fd # n
    BY <2>4 DEF Held
  <2>10. UNCHANGED <<queue, own>> /\ \A i : Waits(i)' <=> Waits(i)
    BY DEF OpenFd, Waits
  <2>11. \A c \in Callers : Has(c) => handle[c].fd # n
    BY <2>4 DEF Held
  <2>12. /\ \A m \in Descriptors : m # n => table'[m] = table[m]
         /\ table'[n] = f /\ f # Free
    BY <2>1, <2>3, SentinelsAssumption DEF TypeOK
  <2> HIDE DEF c0, f
  <2>13. Open1' /\ Open2'
    BY <2>5, <2>7, <2>10, <2>11, <2>12 DEF Owned, Open1, Open2
  <2>14. Open3' /\ Open4'
    BY <2>8, <2>9, <2>10, <2>12 DEF Owned, Open3, Open4
  <2>15. Apart11' /\ Apart12'
    BY <2>5, <2>7, <2>10, <2>11 DEF Owned, Apart11, Apart12
  <2>16. Apart13' /\ Apart14'
    BY <2>5, <2>8, <2>9, <2>10 DEF Owned, Apart13, Apart14
  <2>17. Apart22' /\ Apart23' /\ Apart24' /\ Apart33' /\ Apart34' /\ Apart44'
    BY <2>7, <2>8, <2>10 DEF Owned, Apart22, Apart23, Apart24, Apart33, Apart34, Apart44
  <2> QED  BY <2>13, <2>14, <2>15, <2>16, <2>17 DEF Owned
<1> QED  BY <1>1, <1>2

\* write gets a number that nobody holds.
LEMMA WriteOpenOwned ==
    ASSUME TypeOK, TypeOK', ControlOK, Owned, NEW t \in Threads, WriteOpen(t)
    PROVE  Owned'
<1>1. CASE TableFull
  <2>1. AnswerTo(t, "failed") /\ UNCHANGED <<queue, handle, own, table>>
    BY <1>1 DEF WriteOpen, LowestFree, TableFull, Answer
  <2> QED  BY <2>1, AnswerOwned
<1>2. CASE ~TableFull
  <2>1. PICK n \in Descriptors :
          /\ table[n] = Free
          /\ table' = [table EXCEPT ![n] = req[t].file]
          /\ own' = [own EXCEPT ![t] = n]
    BY <1>2 DEF WriteOpen, LowestFree, Opened
  <2> DEFINE f == req[t].file
  <2>2. f \in Files
    BY BusyTyped, RequestTyped DEF WriteOpen
  <2>3. ~Held(n)
    BY <2>1, FreeNotHeld
  <2>4. \A u \in Threads : pc'[u] = IF u = t THEN "writing" ELSE pc[u]
    BY <1>2 DEF WriteOpen, TypeOK
  <2>5. UNCHANGED <<queue, handle, req>> /\ (\A i : Waits(i)' <=> Waits(i))
        /\ (\A c : Has(c)' <=> Has(c))
    BY <1>2 DEF WriteOpen, Waits, Has
  <2>6. \A u \in Threads : Writes(u)' =>
          \/ u # t /\ Writes(u) /\ own'[u] = own[u] /\ own[u] # n
          \/ u = t /\ own'[u] = n
    BY <2>1, <2>3, <2>4 DEF Writes, Held, TypeOK
  <2>7. \A u \in Threads : Releases(u)' => Releases(u) /\ req[u].fd # n
    BY <2>3, <2>4 DEF Releases, Held
  <2>8. \A i \in 1..Len(queue) : Waits(i) => queue[i].fd # n
    BY <2>3 DEF Held
  <2>9. \A c \in Callers : Has(c) => handle[c].fd # n /\ handle[c].fd \in Descriptors
    BY <2>3, HandleTyped DEF Held, Has
  <2>10. /\ \A m \in Descriptors : m # n => table'[m] = table[m]
         /\ table'[n] = f /\ f # Free
    BY <2>1, <2>2, SentinelsAssumption DEF TypeOK
  <2> HIDE DEF f
  <2>11. Open1' /\ Open3' /\ Open4'
    BY <2>5, <2>7, <2>8, <2>9, <2>10 DEF Owned, Open1, Open3, Open4
  <2>12. Open2'
    BY <2>5, <2>6, <2>10 DEF Owned, Open2, f
  <2>13. Apart11' /\ Apart13' /\ Apart14' /\ Apart33' /\ Apart34' /\ Apart44'
    BY <2>5, <2>7 DEF Owned, Apart11, Apart13, Apart14, Apart33, Apart34, Apart44
  <2>14. Apart12' /\ Apart22'
    BY <2>5, <2>6, <2>9 DEF Owned, Apart12, Apart22
  <2>15. Apart23' /\ Apart24'
    BY <2>5, <2>6, <2>7, <2>8 DEF Owned, Apart23, Apart24
  <2> QED  BY <2>11, <2>12, <2>13, <2>14, <2>15 DEF Owned
<1> QED  BY <1>1, <1>2

\* As long as no release fails to read the key, everybody keeps what is theirs.
LEMMA OwnedStep ==
    ASSUME TypeOK, TypeOK', ControlOK, RequestsSound, SecondClose, Owned, ~keyFailed',
           [Next]_vars
    PROVE  Owned'
<1>0. ~keyFailed
  BY SecondCloseStep
<1>1. ASSUME NEW c \in Clients, ClientCall(c) PROVE Owned'
  <2>1. c \in Callers
    BY DEF Callers
  <2>2. PICK r \in Requests : Call(c, r) /\ r.op # "release"
    <3>1. CASE handle[c] = Closed
      BY <1>1, <2>1, <3>1, RequestMade, HandleTyped DEF ClientCall, NoFd
    <3>2. CASE handle[c] # Closed
      BY <1>1, <2>1, <3>2, RequestMade, HandleTyped DEF ClientCall
    <3> QED  BY <3>1, <3>2
  <2>3. \A i \in 1..Len(queue') : Waits(i)' => i \in 1..Len(queue) /\ queue'[i] = queue[i]
    BY <2>2, AppendOwned DEF Call
  <2> QED  BY <2>2, <2>3, OwnedShrinks DEF Call, Writes, Releases
<1>2. ASSUME NEW t \in Threads, Take(t) PROVE Owned'
  BY <1>2, TakeOwned
<1>3. ASSUME NEW t \in Threads, LoadKey(t) PROVE Owned'
  <2>1. CASE default = "inside"
    <3>1. t \in Callers
      BY DEF Callers
    <3>2. PICK r \in Requests : r.op # "release" /\ queue' = Append(queue, r)
      BY <1>3, <2>1, <3>1, FilesAssumption, BoundsAssumption, RequestMade DEF LoadKey, NoFd
    <3>3. \A i \in 1..Len(queue') : Waits(i)' => i \in 1..Len(queue) /\ queue'[i] = queue[i]
      BY <3>2, AppendOwned
    <3> QED  BY <1>3, <2>1, <3>3, GotoOwned DEF LoadKey, Labels
  <2>2. CASE default # "inside"
    BY <1>3, <2>2, GotoOwned DEF LoadKey, Labels, Waits
  <2> QED  BY <2>1, <2>2
<1>4. ASSUME NEW t \in Threads, CloseKey(t) PROVE Owned'
  <2>1. t \in Callers
    BY DEF Callers
  <2>2. PICK r \in Requests : r.op # "release" /\ queue' = Append(queue, r)
    BY <1>4, <2>1, FilesAssumption, HandleTyped, RequestMade DEF CloseKey
  <2>3. \A i \in 1..Len(queue') : Waits(i)' => i \in 1..Len(queue) /\ queue'[i] = queue[i]
    BY <2>2, AppendOwned
  <2> QED  BY <1>4, <2>3, OwnedShrinks DEF CloseKey, Writes, Releases
<1>5. ASSUME NEW t \in Threads, KeyFails(t) PROVE Owned'
  <2>1. CASE req[t].op = "defaultLock"
    BY <1>5, <2>1, AnswerOwned DEF KeyFails, Answer
  <2>2. CASE req[t].op = "open"
    BY <1>5, <2>2, GotoOwned DEF KeyFails, Labels, Waits
  <2> QED  BY <1>5, <2>1, <2>2 DEF KeyFails
<1>6. ASSUME NEW t \in Threads, Open(t) \/ Unseal(t) PROVE Owned'
  BY <1>6, GotoOwned DEF Open, Unseal, Labels, Waits
<1>8. ASSUME NEW t \in Threads, OpenFd(t) PROVE Owned'
  BY <1>8, OpenFdOwned
<1>9. ASSUME NEW t \in Threads, Flush(t) PROVE Owned'
  BY <1>9, FlushOwned
<1>10. ASSUME NEW t \in Threads, Release(t) PROVE Owned'
  <2>0. PICK n : n = req[t].fd
    OBVIOUS
  <2>1. \A m \in Descriptors : m # n => table'[m] = table[m]
    BY <1>10, <2>0 DEF Release, Close, TypeOK
  <2>2. Releases(t)
    BY <1>10 DEF Release, Releases
  <2>3. \A u \in Threads : Writes(u)' => Writes(u) /\ own'[u] = own[u]
    BY <1>10 DEF Release, Answer, AnswerTo, Writes, TypeOK
  <2>4. \A u \in Threads : Releases(u)' => u # t /\ Releases(u) /\ req'[u] = req[u]
    BY <1>10 DEF Release, Answer, AnswerTo, Releases, TypeOK
  <2>5. UNCHANGED <<queue, handle>> /\ (\A i : Waits(i)' <=> Waits(i))
        /\ (\A c : Has(c)' <=> Has(c))
    BY <1>10 DEF Release, Waits, Has
  <2>6. ~Held(n)'
    BY <2>0, <2>2, <2>3, <2>4, <2>5 DEF Held, Owned, Apart14, Apart24, Apart34, Apart44
  <2>7. CASE req[t].file \in tmp
    BY <1>10, <2>1, <2>6, <2>7, GotoOwned DEF Release, Labels, Waits
  <2>8. CASE req[t].file \notin tmp
    BY <1>10, <2>1, <2>6, <2>8, AnswerOwned DEF Release, Answer
  <2> QED  BY <2>7, <2>8
<1>11. ASSUME NEW t \in Threads, SealAgain(t) PROVE Owned'
  BY <1>11, AnswerOwned DEF SealAgain, Answer
<1>12. ASSUME NEW t \in Threads, CloseAgain(t) PROVE Owned'
  BY <1>0, <1>12 DEF CloseAgain, SecondClose
<1>13. ASSUME NEW t \in Threads, WriteOpen(t) PROVE Owned'
  BY <1>13, WriteOpenOwned
<1>14. ASSUME NEW t \in Threads, WriteClose(t) PROVE Owned'
  <2>0. PICK n : n = own[t]
    OBVIOUS
  <2>1. \A m \in Descriptors : m # n => table'[m] = table[m]
    BY <1>14, <2>0 DEF WriteClose, Close, TypeOK
  <2>2. Writes(t)
    BY <1>14 DEF WriteClose, Writes
  <2>3. \A u \in Threads : Writes(u)' => u # t /\ Writes(u) /\ own'[u] = own[u]
    BY <1>14 DEF WriteClose, Answer, AnswerTo, Writes, TypeOK
  <2>4. \A u \in Threads : Releases(u)' => Releases(u) /\ req'[u] = req[u]
    BY <1>14 DEF WriteClose, Answer, AnswerTo, Releases, TypeOK
  <2>5. UNCHANGED <<queue, handle>> /\ (\A i : Waits(i)' <=> Waits(i))
        /\ (\A c : Has(c)' <=> Has(c))
    BY <1>14 DEF WriteClose, Waits, Has
  <2>6. ~Held(n)'
    BY <2>0, <2>2, <2>3, <2>4, <2>5 DEF Held, Owned, Apart12, Apart22, Apart23, Apart24
  <2>7. \A u \in Threads : u # t => own'[u] = own[u]
    BY <1>14 DEF WriteClose, TypeOK
  <2> QED  BY <1>14, <2>1, <2>6, <2>7, AnswerOwned DEF WriteClose, Answer
<1>15. ASSUME ChangeDefault \/ UNCHANGED vars PROVE Owned'
  <2>1. UNCHANGED <<table, handle, queue, pc, req, own>>
    BY <1>15 DEF ChangeDefault, vars
  <2> QED  BY <2>1, OwnedShrinks DEF Writes, Releases, Waits
<1> QED  BY <1>1, <1>2, <1>3, <1>4, <1>5, <1>6, <1>8, <1>9, <1>10, <1>11, <1>12, <1>13,
            <1>14, <1>15 DEF Next, Step

-----------------------------------------------------------------------------
(* The theorems *)

\* The initial state.
LEMMA InitKInv == Init => KInv
<1> SUFFICES ASSUME Init PROVE KInv
  OBVIOUS
<1>1. TypeOK
  <2>1. queue \in Seq(Requests)
    BY EmptySeq DEF Init
  <2>2. NoFd \in 0..MaxFd
    BY BoundsAssumption DEF NoFd
  <2> QED  BY <2>1, <2>2 DEF Init, TypeOK, Labels
<1>2. Len(queue) = 0
  BY DEF Init
<1>3. ControlOK /\ RequestsSound /\ OneCallEach /\ KeyFileOpen /\ KeyFilePlain
        /\ KeyNeedsNoKey /\ SecondClose
  BY <1>2 DEF Init, ControlOK, RequestsSound, OneCallEach, KeyFileOpen, KeyFilePlain,
              KeyNeedsNoKey, SecondClose, Busy, KeyPC, Callers
<1>4. Owned
  BY <1>2 DEF Init, Owned, Open1, Open2, Open3, Open4, Apart11, Apart12, Apart13, Apart14,
              Apart22, Apart23, Apart24, Apart33, Apart34, Apart44, Has, Writes, Waits, Releases
<1> QED  BY <1>1, <1>3, <1>4 DEF KInv

\* Every step keeps the invariant.
LEMMA StepKInv == KInv /\ [Next]_vars => KInv'
<1> SUFFICES ASSUME KInv, [Next]_vars PROVE KInv'
  OBVIOUS
<1>1. TypeOK' /\ ControlOK'
  BY TypeStep, ControlStep DEF KInv
<1>2. RequestsSound' /\ OneCallEach'
  BY SoundStep, OnceStep DEF KInv
<1>3. KeyFileOpen' /\ KeyFilePlain' /\ KeyNeedsNoKey'
  BY KeyFileStep, KeyFilePlainStep, NeedsNoKeyStep DEF KInv
<1>4. SecondClose' /\ (keyFailed => keyFailed')
  BY SecondCloseStep DEF KInv
<1>5. keyFailed' \/ Owned'
  BY <1>1, <1>4, OwnedStep DEF KInv
<1> QED  BY <1>1, <1>2, <1>3, <1>4, <1>5 DEF KInv

\* The invariant of the specification.
LEMMA SpecKInv == Spec => []KInv
  BY InitKInv, StepKInv, PTL DEF Spec

\* The variables have their types, whatever the number of workers and descriptors.
THEOREM KeyRequestsTyped == Spec => []TypeOK
<1>1. KInv => TypeOK
  BY DEF KInv
<1> QED  BY <1>1, SpecKInv, PTL

\* open and release of the key file, which get_default_key_encryptor waits for,
\* do not read the key themselves, unless the key file was locked with itself.
THEOREM KeyFileNeedsNoKey == Spec => []KeyNeedsNoKey
<1>1. KInv => KeyNeedsNoKey
  BY DEF KInv
<1> QED  BY <1>1, SpecKInv, PTL

\* fi->fh and the descriptor of a write stay open on their files until they are
\* closed, as long as no release failed to read the default key: without the
\* second ::close of EncryptionVfs::release no handler closes a number of another.
THEOREM DescriptorsKept == Spec => []DescriptorsStayTheirs
<1>1. KInv => DescriptorsStayTheirs
  BY DEF KInv, Owned, Open1, Open2, Has, Writes, DescriptorsStayTheirs
<1> QED  BY <1>1, SpecKInv, PTL
=============================================================================
