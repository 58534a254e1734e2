---------------------------- MODULE DirectoryVfs ----------------------------
(***************************************************************************)
(* Directories: listing one page by page while others create and remove    *)
(* files in it, removing one, and listing the versions of a file.  All     *)
(* three read the directory and act on what they have read.                *)
(*                                                                         *)
(* A directory is the sequence in which readdir(3) finds its entries; a    *)
(* new entry may come anywhere in it.  A request of a directory holds its  *)
(* node in libfuse, and rmdir holds it alone; a hook on the directory has  *)
(* its path in the parent and does not hold it.                            *)
(***************************************************************************)
EXTENDS Naturals, SequencesExt

CONSTANTS
    Dirs,          \* the paths of directories
    Files,         \* base names
    Handles,       \* the directory streams of clients (struct file of the kernel)
    Threads,       \* the worker threads of fuse_main
    MaxVersion,    \* bound on version numbers
    MaxEntries,    \* bound on the entries of a directory
    PageSize,      \* how many entries a reply of readdir holds
    NoDir, NoRequest, NoHandle

ASSUME BoundsAssumption ==
    /\ MaxVersion \in Nat
    /\ MaxEntries \in Nat
    /\ PageSize \in Nat \ {0}

\* An entry: base name, version (0 is the file itself), and whether it is the
\* ENCRYPTION marker of that name.
Entry(f, v) == <<f, v, FALSE>>
MarkerEntry(x) == <<x[1], x[2], TRUE>>
EntryNames == Files \X (0..MaxVersion) \X BOOLEAN

CONSTANT Entries   \* bound: the names that are ever made

ASSUME EntriesAssumption == Entries \subseteq EntryNames

ASSUME NoDirAssumption == NoDir \notin Dirs

\* PrefixParser::is_prefixed (PrefixNames: HiddenIffPrefixed)
IsPrefixed(x) == x[2] # 0 \/ x[3]

Visible == {x \in Entries : x[2] = 0 /\ ~x[3]}

Requests ==
    [op : {"readdir"}, dir : Dirs, handle : Handles]
      \union [op : {"rmdir"}, dir : Dirs]

ASSUME NoRequestAssumption == NoRequest \notin Requests

NotListing == [dir |-> NoDir, off |-> 0, end |-> TRUE]

VARIABLES
    content,   \* the directories there are, and the entries of each in order
    stream,    \* what a client's directory stream is at: [dir, off, end]
    buffer,    \* the entries of the reply that is being filled for a stream
    filler,    \* thread_local filler and filler_handle: where fill_dir puts entries
    pc, req, reply,
    snap,      \* what a handler has read of the directory and not yet visited
    pos,       \* how many entries directory_iterator has passed
    \* history:
    due,       \* what opendir saw and was not listed yet, while nothing is removed
    listed,    \* what was listed, while nothing is created
    twice,     \* something was listed twice although nothing was created
    changes,   \* what happened to the directory since opendir
    before,    \* the entries when a rmdir began
    hooked     \* a hook on the directory has run since

jobVars == <<req, snap, pos>>
streamHistory == <<due, listed, twice, changes>>
history == <<streamHistory, before, hooked>>
vars == <<content, stream, buffer, filler, pc, jobVars, reply, history>>

TypeOK ==
    /\ DOMAIN content \subseteq Dirs
    /\ \A d \in DOMAIN content : /\ content[d] \in Seq(Entries) /\ IsInjective(content[d])
                                 /\ Len(content[d]) <= MaxEntries
    /\ stream \in [Handles -> [dir : Dirs \union {NoDir}, off : 0..MaxEntries, end : BOOLEAN]]
    /\ buffer \in [Handles -> Seq(Entries \X (1..MaxEntries))]
    /\ filler \in [Threads -> Handles \union {NoHandle}]
    /\ pc \in [Threads -> {"idle", "return", "iterate", "fill", "check", "delete",
                           "unlink"}]
    /\ req \in [Threads -> Requests \union {NoRequest}]
    /\ snap \in [Threads -> Seq(Entries)]
    /\ pos \in [Threads -> 0..MaxEntries]
    /\ reply \in [Threads -> {"none", "ok", "notempty"}]
    /\ due \in [Handles -> SUBSET Visible]
    /\ listed \in [Handles -> SUBSET Entries]
    /\ twice \in [Handles -> BOOLEAN]
    /\ changes \in [Handles -> SUBSET {"created", "removed"}]
    /\ before \in [Threads -> SUBSET Entries]
    /\ hooked \in [Threads -> BOOLEAN]

Init ==
    /\ content = [d \in Dirs |-> <<>>]
    /\ stream = [h \in Handles |-> NotListing]
    /\ buffer = [h \in Handles |-> <<>>]
    /\ filler = [t \in Threads |-> NoHandle]
    /\ pc = [t \in Threads |-> "idle"]
    /\ req = [t \in Threads |-> NoRequest]
    /\ snap = [t \in Threads |-> <<>>]
    /\ pos = [t \in Threads |-> 0]
    /\ reply = [t \in Threads |-> "none"]
    /\ due = [h \in Handles |-> {}]
    /\ listed = [h \in Handles |-> {}]
    /\ twice = [h \in Handles |-> FALSE]
    /\ changes = [h \in Handles |-> {}]
    /\ before = [t \in Threads |-> {}]
    /\ hooked = [t \in Threads |-> FALSE]

-----------------------------------------------------------------------------
(* Requests and locks *)

At(t, label) == pc[t] = label
Goto(t, label) == pc' = [pc EXCEPT ![t] = label]

Busy(t, op, d) == req[t] # NoRequest /\ req[t].op = op /\ req[t].dir = d
Removing(d) == \E t \in Threads : Busy(t, "rmdir", d)
InUse(d) == \E t \in Threads : req[t] # NoRequest /\ req[t].dir = d
Listing(h) == \E t \in Threads : Busy(t, "readdir", stream[h].dir) /\ req[t].handle = h
WorkerFree == \E t \in Threads : At(t, "idle")

Begin(t, r, label) ==
    /\ At(t, "idle")
    /\ Goto(t, label)
    /\ req' = [req EXCEPT ![t] = r]
    /\ UNCHANGED <<content, stream, buffer, snap, pos, reply, streamHistory>>

Answer(t, r) ==
    /\ Goto(t, "return")
    /\ reply' = [reply EXCEPT ![t] = r]

Done(t) ==
    /\ At(t, "return")
    /\ Goto(t, "idle")
    /\ req' = [req EXCEPT ![t] = NoRequest]
    /\ snap' = [snap EXCEPT ![t] = <<>>]
    /\ pos' = [pos EXCEPT ![t] = 0]
    /\ reply' = [reply EXCEPT ![t] = "none"]
    /\ before' = [before EXCEPT ![t] = {}]
    /\ hooked' = [hooked EXCEPT ![t] = FALSE]
    /\ filler' = [filler EXCEPT ![t] = NoHandle]   \* nothing uses it any more
    /\ UNCHANGED content

-----------------------------------------------------------------------------
(* readdir *)

\* Mutant of SetFiller: one filler for all threads.
SetFillerShared(t, h) == filler' = [u \in Threads |-> h]

\* FuseWrapper::detail::readdir
SetFiller(t, h) == filler' = [filler EXCEPT ![t] = h]

\* One request at a time for a stream: the kernel and libfuse both lock it.
BeginReaddir(t, h) ==
    LET d == stream[h].dir IN
    /\ ~stream[h].end
    /\ ~Listing(h) /\ ~Removing(d)
    /\ SetFiller(t, h)
    /\ Begin(t, [op |-> "readdir", dir |-> d, handle |-> h], "iterate")
    /\ UNCHANGED <<before, hooked>>

\* Mutant of Iterate: the entries before the offset come again.
IterateAgain(t) ==
    /\ At(t, "iterate")
    /\ snap' = [snap EXCEPT ![t] = content[req[t].dir]]
    /\ pos' = [pos EXCEPT ![t] = stream[req[t].handle].off]
    /\ Goto(t, "fill")
    /\ UNCHANGED <<content, stream, buffer, filler, req, reply, history>>

\* directory_iterator; the entries before the offset are passed over.
Iterate(t) ==
    LET entries == content[req[t].dir]
        off == stream[req[t].handle].off
    IN  /\ At(t, "iterate")
        /\ snap' = [snap EXCEPT ![t] = SubSeq(entries, off + 1, Len(entries))]
        /\ pos' = [pos EXCEPT ![t] = off]
        /\ Goto(t, "fill")
        /\ UNCHANGED <<content, stream, buffer, filler, req, reply, history>>

\* lstat finds the entry, and CustomVfs::fill_dir is going to hand it on
Shown(t) == /\ snap[t][1] \in Range(content[req[t].dir])
            /\ ~IsPrefixed(snap[t][1])
Full(t) == Len(buffer[filler[t]]) >= PageSize

Fill(t) ==
    /\ At(t, "fill")
    /\ snap[t] # <<>>
    /\ \/ /\ Shown(t) /\ ~Full(t)
          /\ buffer' = [buffer EXCEPT ![filler[t]] = Append(@, <<snap[t][1], pos[t] + 1>>)]
       \/ /\ ~Shown(t)
          /\ UNCHANGED buffer
    /\ snap' = [snap EXCEPT ![t] = Tail(@)]
    /\ pos' = [pos EXCEPT ![t] = @ + 1]
    /\ UNCHANGED <<content, stream, filler, pc, req, reply, history>>

\* No entry is left, or the buffer is full.
FillEnds(t) ==
    /\ At(t, "fill")
    /\ snap[t] # <<>> => Shown(t) /\ Full(t)
    /\ Answer(t, "ok")
    /\ snap' = [snap EXCEPT ![t] = <<>>]
    /\ pos' = [pos EXCEPT ![t] = 0]
    /\ UNCHANGED <<content, stream, buffer, filler, req, history>>

\* The client gets the page; an empty one is the end of the directory.
ReturnPage(t) ==
    LET h == req[t].handle
        page == buffer[h]
        names == {e[1] : e \in Range(page)}
    IN  /\ At(t, "return") /\ req[t].op = "readdir"
        /\ due' = [due EXCEPT ![h] = @ \ names]
        /\ IF "created" \in changes[h] THEN UNCHANGED <<listed, twice>>
           ELSE /\ listed' = [listed EXCEPT ![h] = @ \union names]
                /\ twice' = [twice EXCEPT ![h] = @ \/ names \intersect listed[h] # {}]
        /\ stream' = [stream EXCEPT ![h] =
                        IF page = <<>> THEN [@ EXCEPT !.end = TRUE]
                        ELSE [@ EXCEPT !.off = Last(page)[2]]]
        /\ buffer' = [buffer EXCEPT ![h] = <<>>]
        /\ Done(t)
        /\ UNCHANGED changes

Return(t) ==
    /\ At(t, "return") /\ req[t].op # "readdir"
    /\ Done(t)
    /\ UNCHANGED <<stream, buffer, streamHistory>>

-----------------------------------------------------------------------------
(* Changes of a directory, and what the history says of them *)

Streams(d) == {h \in Handles : stream[h].dir = d}

Change(d, entries) ==
    LET new == IF Range(entries) \subseteq Range(content[d]) THEN {} ELSE {"created"}
        gone == IF Range(content[d]) \subseteq Range(entries) THEN {} ELSE {"removed"}
    IN  /\ content' = [content EXCEPT ![d] = entries]
        /\ changes' = [h \in Handles |-> IF h \in Streams(d) THEN changes[h] \union new \union gone
                                         ELSE changes[h]]
        /\ due' = [h \in Handles |-> IF "removed" \in changes'[h] THEN {} ELSE due[h]]
        /\ listed' = [h \in Handles |-> IF "created" \in changes'[h] THEN {} ELSE listed[h]]
        /\ UNCHANGED twice

Put(d, x) ==
    /\ x \in Entries
    /\ x \notin Range(content[d])
    /\ Len(content[d]) < MaxEntries
    /\ \E i \in 1..(Len(content[d]) + 1) : Change(d, InsertAt(content[d], i, x))

\* unlink; a name that has gone is an ignored ENOENT
Without(entries, x) ==
    IF x \notin Range(entries) THEN entries
    ELSE RemoveAt(entries, CHOOSE i \in DOMAIN entries : entries[i] = x)

Drop(d, x) == Change(d, Without(content[d], x))

Forget(H) ==
    /\ due' = [h \in Handles |-> IF h \in H THEN {} ELSE due[h]]
    /\ listed' = [h \in Handles |-> IF h \in H THEN {} ELSE listed[h]]
    /\ twice' = [h \in Handles |-> h \notin H /\ twice[h]]
    /\ changes' = [h \in Handles |-> IF h \in H THEN {} ELSE changes[h]]

-----------------------------------------------------------------------------
(* rmdir *)

BeginRmdir(t, d) ==
    /\ d \in DOMAIN content
    /\ ~InUse(d)
    /\ Begin(t, [op |-> "rmdir", dir |-> d], "check")
    /\ before' = [before EXCEPT ![t] = Range(content[d])]
    /\ UNCHANGED <<filler, hooked>>

\* Mutant of RmdirCheck: it deletes what it may while it looks.
RmdirCheckDeleting(t) ==
    LET d == req[t].dir
        entries == content[d]
        first == SelectInSeq(entries, LAMBDA x : ~IsPrefixed(x))
    IN  /\ At(t, "check")
        /\ IF first = 0 THEN Goto(t, "delete") /\ UNCHANGED reply ELSE Answer(t, "notempty")
        /\ IF first = 0 THEN UNCHANGED <<content, streamHistory>>
           ELSE Change(d, SubSeq(entries, first, Len(entries)))
        /\ UNCHANGED <<stream, buffer, filler, jobVars, before, hooked>>

RmdirCheck(t) ==
    /\ At(t, "check")
    /\ \/ /\ \E x \in Range(content[req[t].dir]) : ~IsPrefixed(x)
          /\ Answer(t, "notempty")
       \/ /\ \A x \in Range(content[req[t].dir]) : IsPrefixed(x)
          /\ Goto(t, "delete")
          /\ UNCHANGED reply
    /\ UNCHANGED <<content, stream, buffer, filler, jobVars, history>>

\* The directory is read a second time.
RmdirDelete(t) ==
    /\ At(t, "delete")
    /\ snap' = [snap EXCEPT ![t] = content[req[t].dir]]
    /\ Goto(t, "unlink")
    /\ UNCHANGED <<content, stream, buffer, filler, req, pos, reply, history>>

RmdirUnlink(t) ==
    /\ At(t, "unlink")
    /\ snap[t] # <<>>
    /\ LET d == req[t].dir
           x == snap[t][1]
       IN  Change(d, IF IsPrefixed(x) THEN Without(content[d], x) ELSE content[d])
    /\ snap' = [snap EXCEPT ![t] = Tail(@)]
    /\ UNCHANGED <<stream, buffer, filler, pc, req, pos, reply, before, hooked>>

RmdirRemove(t) ==
    /\ At(t, "unlink")
    /\ snap[t] = <<>>
    /\ LET d == req[t].dir IN
         IF content[d] = <<>>
         THEN /\ Answer(t, "ok")
              /\ content' = Restrict(content, DOMAIN content \ {d})
              /\ stream' = [h \in Handles |-> IF h \in Streams(d) THEN NotListing ELSE stream[h]]
              /\ Forget(Streams(d))
         ELSE /\ Answer(t, "notempty")
              /\ UNCHANGED <<content, stream, streamHistory>>
    /\ UNCHANGED <<buffer, filler, jobVars, before, hooked>>

-----------------------------------------------------------------------------
(* list_versions changes nothing: it is what the client reads in the hook file *)

\* get_related_names; the marker of a version is found too
RelatedNames(entries, f) == SelectSeq(entries, LAMBDA x : x[1] = f /\ x[2] # 0)

\* Mutant of Numbers: they stay in the order of the directory.
NumbersUnsorted(names) == [i \in DOMAIN names |-> names[i][2]]

\* The numbers are sorted, the times are not.
Numbers(names) == SortSeq(NumbersUnsorted(names), LAMBDA m, n : m < n)

\* The time of a version is told by its number here.  A version that has gone
\* when its turn comes leaves the zeros of the new struct stat.
Times(names, gone) == [i \in DOMAIN names |-> IF names[i] \in gone THEN 0 ELSE names[i][2]]

ListVersions(entries, f, gone) ==
    LET names == RelatedNames(entries, f) IN
    IF Entry(f, 0) \notin Range(entries) THEN <<>>
    ELSE [i \in DOMAIN names |-> <<Numbers(names)[i], Times(names, gone)[i]>>]

-----------------------------------------------------------------------------
(* Requests in one step *)

Opendir(h, d) ==
    /\ stream[h] = NotListing
    /\ d \in DOMAIN content
    /\ ~Removing(d)
    /\ stream' = [stream EXCEPT ![h] = [dir |-> d, off |-> 0, end |-> FALSE]]
    /\ due' = [due EXCEPT ![h] = Range(content[d]) \intersect Visible]
    /\ UNCHANGED <<content, listed, twice, changes>>

Releasedir(h) ==
    /\ stream[h].end /\ stream[h].dir # NoDir
    /\ stream' = [stream EXCEPT ![h] = NotListing]
    /\ Forget({h})
    /\ UNCHANGED content

Mkdir(d) ==
    /\ d \notin DOMAIN content
    /\ content' = [e \in DOMAIN content \union {d} |-> IF e = d THEN <<>> ELSE content[e]]
    /\ UNCHANGED <<stream, streamHistory>>

\* mknod of a client, and the version that a write stores
Create(d, f) ==
    /\ ~Removing(d)
    /\ \/ Put(d, Entry(f, 0))
       \/ /\ Entry(f, 0) \in Range(content[d])
          /\ \E v \in 1..MaxVersion : Put(d, Entry(f, v))
    /\ UNCHANGED stream

\* unlink of a client, and the delete hook
Unlink(d, x) ==
    /\ ~Removing(d)
    /\ x \in Range(content[d])
    /\ Drop(d, x)
    /\ UNCHANGED stream

OneCall ==
    /\ WorkerFree
    /\ \/ \E h \in Handles : Releasedir(h) \/ \E d \in Dirs : Opendir(h, d)
       \/ \E d \in Dirs : Mkdir(d)
       \/ \E d \in DOMAIN content : \/ \E f \in Files : Create(d, f)
                                    \/ \E x \in Entries : Unlink(d, x)
    /\ UNCHANGED <<buffer, filler, pc, jobVars, reply, before, hooked>>

\* encrypt_directory, called by a hook in the parent, locks a file of d.  At
\* other times it does to d what a stored version does.
DirectoryHook(d) ==
    /\ WorkerFree
    /\ Removing(d)
    /\ \E x \in Range(content[d]) : ~x[3] /\ Put(d, MarkerEntry(x))
    /\ hooked' = [t \in Threads |-> hooked[t] \/ Busy(t, "rmdir", d)]
    /\ UNCHANGED <<stream, buffer, filler, pc, jobVars, reply, before>>

Step(t) ==
    \/ Iterate(t)
    \/ Fill(t)
    \/ FillEnds(t)
    \/ ReturnPage(t)
    \/ Return(t)
    \/ RmdirCheck(t)
    \/ RmdirDelete(t)
    \/ RmdirUnlink(t)
    \/ RmdirRemove(t)

Next ==
    \/ \E t \in Threads : Step(t)
    \/ \E t \in Threads, h \in Handles : BeginReaddir(t, h)
    \/ \E t \in Threads, d \in Dirs : BeginRmdir(t, d)
    \/ OneCall
    \/ \E d \in DOMAIN content : DirectoryHook(d)

Spec == Init /\ [][Next]_vars

-----------------------------------------------------------------------------
(* Properties *)

\* A client is shown no hidden entry, and none of another directory: what
\* fill_dir adds goes to the reply of its own request, although it finds the
\* buffer in a variable of the wrapper.
ListsOwnVisibleEntries ==
    \A h \in Handles : \A i \in DOMAIN buffer[h] :
      /\ buffer[h][i][1] \in Visible
      /\ \E t \in Threads : req[t] # NoRequest /\ req[t].op = "readdir" /\ req[t].handle = h

\* What was in the directory at opendir is in the listing unless something is
\* removed meanwhile, and nothing is there twice unless something is created: readdir
\* finds its place again by counting entries, hidden ones included.
ListingIsComplete ==
    \A h \in Handles :
      /\ stream[h].end => due[h] = {}
      /\ ~twice[h]

\* A rmdir that fails has deleted nothing, the versions and markers of the
\* directory included, as long as no hook locks the directory meanwhile.
FailedRmdirDeletesNothing ==
    \A t \in Threads :
      At(t, "return") /\ req[t].op = "rmdir" /\ reply[t] = "notempty" /\ ~hooked[t]
      => before[t] \subseteq Range(content[req[t].dir])

\* A listing of versions has its numbers in order.  Each stands beside its own
\* time, or beside the zeros of one deleted meanwhile, when the directory has
\* the versions in the order of their numbers, which readdir(3) does not promise.
ListingPairsTimes ==
    \A d \in DOMAIN content, f \in Files :
      LET names == RelatedNames(content[d], f)
          inOrder == \A i, j \in DOMAIN names : i < j => names[i][2] <= names[j][2]
      IN  \A gone \in SUBSET Range(names) :
          LET lines == ListVersions(content[d], f, gone) IN
          /\ \A i, j \in DOMAIN lines : i < j => lines[i][1] <= lines[j][1]
          /\ inOrder => \A i \in DOMAIN lines : lines[i][2] \in {0, lines[i][1]}
=============================================================================
