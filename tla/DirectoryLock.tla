---------------------------- MODULE DirectoryLock ----------------------------
(***************************************************************************)
(* Locking and unlocking a directory: the hook walks the tree below it and *)
(* locks or unlocks each file, while others create, write, remove, link,   *)
(* lock and unlock what is in it.                                          *)
(*                                                                         *)
(* Locking one file is one step here (EncryptionVfs has its calls), and a  *)
(* version of a file is a file like others: with_related is false.         *)
(* Directories are identified; a path is the names that lead to one from   *)
(* Top and is resolved again whenever it is used.                          *)
(***************************************************************************)
EXTENDS Naturals, SequencesExt

CONSTANTS
    Top,           \* the directory everything is in
    SubDirs,       \* the other directories: a function from <<dir, base>> to them
    Bases,         \* base names without prefixes
    FileNames,     \* bound: the pairs <<dir, base>> that are ever files
    LinkNames,     \* bound: the pairs <<dir, base>> that are ever symlinks to Top
    Roots,         \* the paths that hooks are written for
    Creds,         \* pairs <<"key", k>> and <<"pass", p>>
    WalkCreds,     \* bound: those that hooks for directories use
    Threads,       \* the worker threads that walk; one more is left for other requests
    MaxChanges,    \* bound on the changes by others during one walk
    MaxHops,       \* how many symlinks the kernel follows in one path
    Nothing, Placeholder, NoDir, NoRequest, NoRecord

ASSUME BoundsAssumption == {MaxChanges, MaxHops} \subseteq Nat

Dirs == {Top} \union Range(SubDirs)

\* A directory has one place.
ASSUME TreeAssumption == IsInjective(SubDirs) /\ {Top, NoDir} \intersect Range(SubDirs) = {}

ASSUME NamesAssumption ==
    /\ FileNames \union LinkNames \union DOMAIN SubDirs \subseteq Dirs \X Bases
    /\ Roots \subseteq Seq(Bases)
    /\ Top # NoDir

Kinds == {"key", "pass"}

ASSUME CredsAssumption == WalkCreds \subseteq Creds /\ \A c \in Creds : c[1] \in Kinds

\* A name: directory, base name, ENCRYPTION prefixes.
Plain(n) == <<n[1], n[2], <<>> >>
Marker(x, kind) == <<x[1], x[2], <<kind>> \o x[3]>>
PlainNames == {Plain(n) : n \in FileNames \union LinkNames \union DOMAIN SubDirs}
Names == Dirs \X Bases \X ({<<>>} \union {<<kind>> : kind \in Kinds})

\* A content is one datum, sealed or not; a client writes a datum of its own
\* to each file.
Sealed(d, k) == [by |-> k, data |-> d]
Of(d) == Sealed(d, Nothing)
Contents == [by : {c[2] : c \in Creds} \union {Nothing},
             data : PlainNames \union {Nothing, Placeholder}]

File(c) == [type |-> "file", at |-> c]
Nodes == [type : {"file"}, at : Contents] \union [type : {"dir", "link"}, at : Dirs]
Requests == [op : {"lock", "unlock"}, path : Roots, cred : WalkCreds]

VARIABLES
    tree,      \* the backing directory: what each name stands for
    req,       \* the request each worker walks for
    stack,     \* directories: the paths still to be visited
    cur,       \* current_directory
    todo,      \* the entries of it that are not visited yet
    success,
    pc,
    changes,   \* how much others have changed since a walk began
    \* history:
    owed,      \* the files below the directory that only this walk has touched,
               \* while the directory can be reached by its path
    record     \* the last lock and the files before it, while nothing else happens

walkVars == <<req, stack, cur, todo, success, pc>>
vars == <<tree, walkVars, changes, owed, record>>

TypeOK ==
    /\ DOMAIN tree \subseteq Names
    /\ \A x \in DOMAIN tree : tree[x] \in Nodes
    /\ req \in [Threads -> Requests \union {NoRequest}]
    /\ stack \in [Threads -> Seq(Seq(Bases))]
    /\ cur \in [Threads -> Seq(Bases)]
    /\ todo \in [Threads -> SUBSET (Bases \X {<<>>})]
    /\ success \in [Threads -> BOOLEAN]
    /\ pc \in [Threads -> {"idle", "walk", "return"}]
    /\ changes \in 0..MaxChanges

Init ==
    /\ tree = <<>>
    /\ req = [t \in Threads |-> NoRequest]
    /\ stack = [t \in Threads |-> <<>>]
    /\ cur = [t \in Threads |-> <<>>]
    /\ todo = [t \in Threads |-> {}]
    /\ success = [t \in Threads |-> TRUE]
    /\ pc = [t \in Threads |-> "idle"]
    /\ changes = 0
    /\ owed = [t \in Threads |-> {}]
    /\ record = NoRecord

-----------------------------------------------------------------------------
(* The backing directory *)

Exists(x) == x \in DOMAIN tree
IsFile(x) == Exists(x) /\ tree[x].type = "file"
Read(x) == IF IsFile(x) THEN tree[x].at ELSE Of(Nothing)

\* Where a path leads, and the symlinks on the way.
Resolve(p) ==
    LET Enter(at, base) ==
          LET x == <<at.dir, base, <<>> >> IN
          IF ~Exists(x) \/ IsFile(x) THEN [at EXCEPT !.dir = NoDir]
          ELSE [dir |-> tree[x].at,
                hops |-> at.hops + IF tree[x].type = "link" THEN 1 ELSE 0]
        after[i \in 0..Len(p)] ==
          IF i = 0 THEN [dir |-> Top, hops |-> 0] ELSE Enter(after[i - 1], p[i])
    IN  after[Len(p)]

DirOf(p) == Resolve(p).dir
Looped(p) == Resolve(p).hops > MaxHops

\* The names on the way.
Way(p) == {<<DirOf(SubSeq(p, 1, i - 1)), p[i], <<>> >> : i \in DOMAIN p}

\* CustomVfs::subfiles
Subfiles(d) == {<<x[2], x[3]>> : x \in {y \in DOMAIN tree : y[1] = d}}

\* Mutant of ToVisit: markers are files like others.
ToVisitAll(d) == Subfiles(d)

\* The walk skips what has an ENCRYPTION prefix.
ToVisit(d) == {e \in Subfiles(d) : e[2] = <<>>}

\* ofstream
Put(files, x, c) == [y \in DOMAIN files \union {x} |-> IF y = x THEN File(c) ELSE files[y]]

Without(files, x) == Restrict(files, DOMAIN files \ {x})

\* The directories below d, d among them.
Below(d) ==
    {e \in Dirs : \A D \in SUBSET Dirs :
        d \in D /\ (\A n \in DOMAIN SubDirs : n[1] \in D => SubDirs[n] \in D) => e \in D}

FilesBelow(d) == {x \in DOMAIN tree : IsFile(x) /\ x[1] \in Below(d) /\ x[3] = <<>>}

-----------------------------------------------------------------------------
(* encrypt_file and decrypt_file of one file *)

IsEncrypted(x) == \E kind \in Kinds : Exists(Marker(x, kind))

AfterLock(x, c) ==
    Put(Put(tree, Marker(x, c[1]), Sealed(Read(x).data, c[2])), x, Of(Placeholder))

\* Mutant of EncryptFile: a file that is locked already is locked again.
EncryptFileAgain(x, c) == [ok |-> TRUE, tree |-> AfterLock(x, c)]

EncryptFile(x, c) ==
    IF IsEncrypted(x) THEN [ok |-> FALSE, tree |-> tree]
    ELSE [ok |-> TRUE, tree |-> AfterLock(x, c)]

Opens(x, c) ==
    LET m == Marker(x, c[1]) IN IsFile(m) /\ tree[m].at.by = c[2]

DecryptFile(x, c) ==
    LET m == Marker(x, c[1]) IN
    IF Opens(x, c)
    THEN [ok |-> TRUE, tree |-> Without(Put(tree, x, Of(tree[m].at.data)), m)]
    ELSE [ok |-> FALSE, tree |-> Put(tree, x, Of(Placeholder))]

\* In a directory that has gone every stream fails: encrypt_file takes that for
\* an empty file, decrypt_file for a damaged one.
Work(op, d, x, c) ==
    IF d = NoDir THEN [ok |-> op = "lock", tree |-> tree]
    ELSE IF op = "lock" THEN EncryptFile(x, c) ELSE DecryptFile(x, c)

-----------------------------------------------------------------------------
(* encrypt_directory and decrypt_directory *)

At(t, label) == pc[t] = label
Goto(t, label) == pc' = [pc EXCEPT ![t] = label]

Begin(t, r) ==
    /\ At(t, "idle")
    /\ Goto(t, "walk")
    /\ DirOf(r.path) # NoDir /\ ~Looped(r.path)
    /\ req' = [req EXCEPT ![t] = r]
    /\ stack' = [stack EXCEPT ![t] = <<r.path>>]
    /\ owed' = [owed EXCEPT ![t] = IF r.op = "lock" THEN FilesBelow(DirOf(r.path)) ELSE {}]
    /\ LET alone == \A u \in Threads : At(u, "idle")
           undo == record # NoRecord /\ record.path = r.path /\ record.cred = r.cred
       IN record' =
            IF alone /\ r.op = "lock"
            THEN [path |-> r.path, cred |-> r.cred,
                  files |-> Restrict(tree, FilesBelow(DirOf(r.path)))]
            ELSE IF alone /\ undo THEN record ELSE NoRecord
    /\ UNCHANGED <<tree, cur, todo, success, changes>>

\* The mknod, or unlink, of a marker for the directory before fails and is
\* ignored: mknod(2) makes no directories.  subfiles of a directory that has
\* gone, or that the kernel does not get to, throws, and write reports it.
NextDirectory(t) ==
    /\ At(t, "walk") /\ todo[t] = {} /\ stack[t] # <<>>
    /\ stack' = [stack EXCEPT ![t] = Front(@)]
    /\ cur' = [cur EXCEPT ![t] = Last(stack[t])]
    /\ LET d == DirOf(Last(stack[t])) IN
         \/ /\ d # NoDir /\ ~Looped(cur'[t])
            /\ todo' = [todo EXCEPT ![t] = ToVisit(d)]
            /\ UNCHANGED <<success, pc>>
         \/ /\ d = NoDir \/ Looped(cur'[t])
            /\ success' = [success EXCEPT ![t] = FALSE]
            /\ Goto(t, "return")
            /\ UNCHANGED todo
    /\ UNCHANGED <<tree, req, changes, owed, record>>

\* is_directory fails where the kernel stops following symlinks, and throws.
VisitDirectory(t, p) ==
    /\ \/ /\ DirOf(p) # NoDir /\ ~Looped(p)
          /\ stack' = [stack EXCEPT ![t] = Append(@, p)]
          /\ UNCHANGED <<success, pc>>
       \/ /\ Looped(p)
          /\ success' = [success EXCEPT ![t] = FALSE]
          /\ Goto(t, "return")
          /\ UNCHANGED stack
    /\ UNCHANGED <<tree, owed>>

\* Mutant of Outcome: the last file decides.
OutcomeOfLast(ok, file_ok) == file_ok

\* success &= ...
Outcome(ok, file_ok) == ok /\ file_ok

VisitFile(t, d, x) ==
    LET work == Work(req[t].op, d, x, req[t].cred) IN
    /\ tree' = work.tree
    /\ success' = [success EXCEPT ![t] = Outcome(@, work.ok)]
    /\ owed' = [u \in Threads |-> IF u = t THEN owed[u] ELSE owed[u] \ {x}]
    /\ UNCHANGED <<stack, pc>>

Visit(t) ==
    /\ At(t, "walk")
    /\ \E e \in todo[t] :
         LET d == DirOf(cur[t])
             p == Append(cur[t], e[1])
         IN /\ \/ e[2] = <<>> /\ VisitDirectory(t, p)
               \/ /\ e[2] # <<>> \/ (DirOf(p) = NoDir /\ ~Looped(p))
                  /\ VisitFile(t, d, <<d, e[1], e[2]>>)
            /\ todo' = [todo EXCEPT ![t] = IF pc'[t] = "return" THEN {} ELSE @ \ {e}]
    /\ UNCHANGED <<req, cur, changes, record>>

Finish(t) ==
    /\ At(t, "walk") /\ todo[t] = {} /\ stack[t] = <<>>
    /\ Goto(t, "return")
    /\ UNCHANGED <<tree, req, stack, cur, todo, success, changes, owed, record>>

Return(t) ==
    /\ At(t, "return")
    /\ Goto(t, "idle")
    /\ req' = [req EXCEPT ![t] = NoRequest]
    /\ stack' = [stack EXCEPT ![t] = <<>>]
    /\ cur' = [cur EXCEPT ![t] = <<>>]
    /\ success' = [success EXCEPT ![t] = TRUE]
    /\ owed' = [owed EXCEPT ![t] = {}]
    /\ record' = IF req[t].op = "lock" /\ success[t] THEN record ELSE NoRecord
    /\ changes' = IF \A u \in Threads : pc'[u] = "idle" THEN 0 ELSE changes
    /\ UNCHANGED <<tree, todo>>

-----------------------------------------------------------------------------
(* What other workers do meanwhile, each in one step *)

IsDir(d) ==
    d = Top \/ \E n \in DOMAIN SubDirs : /\ SubDirs[n] = d /\ Exists(Plain(n))
                                         /\ tree[Plain(n)].type = "dir"

\* A client opens x with O_CREAT and writes it, whether it is locked or not.
Write(x) ==
    /\ IsDir(x[1])
    /\ Exists(x) => IsFile(x)
    /\ tree' = Put(tree, x, Of(x))

Unlink(x) ==
    /\ Exists(x) /\ tree[x].type # "dir"
    /\ tree' = Without(tree, x)

\* The hook for a single file (bound: one that is there)
FileHook(op, x, c) ==
    /\ IsFile(x)
    /\ tree' = Work(op, x[1], x, c).tree

MakeDirectory(x, type, d) ==
    /\ ~Exists(x) /\ IsDir(x[1])
    /\ tree' = [y \in DOMAIN tree \union {x} |->
                  IF y = x THEN [type |-> type, at |-> d] ELSE tree[y]]

\* CustomVfs::rmdir: the hidden entries go with the directory.
Rmdir(x) ==
    /\ Exists(x) /\ tree[x].type = "dir"
    /\ \A e \in Subfiles(tree[x].at) : e[2] # <<>>
    /\ tree' = Restrict(tree, {y \in DOMAIN tree \ {x} : y[1] # tree[x].at})

Change(x) ==
    /\ \/ /\ \A t \in Threads : At(t, "idle")
          /\ UNCHANGED changes
       \/ /\ ~\A t \in Threads : At(t, "idle")
          /\ changes < MaxChanges
          /\ changes' = changes + 1
    /\ \/ Unlink(x) \/ Rmdir(x)
       \/ <<x[1], x[2]>> \in FileNames /\ Write(x)
       \/ \E op \in {"lock", "unlock"}, c \in Creds :
            <<x[1], x[2]>> \in FileNames /\ FileHook(op, x, c)
       \/ <<x[1], x[2]>> \in DOMAIN SubDirs /\ MakeDirectory(x, "dir", SubDirs[<<x[1], x[2]>>])
       \/ <<x[1], x[2]>> \in LinkNames /\ MakeDirectory(x, "link", Top)
    /\ owed' = [t \in Threads |-> IF owed[t] # {} /\ x \in Way(req[t].path) THEN {}
                                   ELSE owed[t] \ {x}]
    /\ record' = NoRecord
    /\ UNCHANGED walkVars

Walk(t) == NextDirectory(t) \/ Visit(t) \/ Finish(t) \/ Return(t)

Next ==
    \/ \E t \in Threads : Walk(t) \/ \E r \in Requests : Begin(t, r)
    \/ \E x \in PlainNames : Change(x)

Spec == Init /\ [][Next]_vars

-----------------------------------------------------------------------------
(* Properties *)

\* A lock that reports success has locked, with its own key, every file that
\* was below the directory when it began and that nobody else has touched,
\* unless a symlink that the directory was named by has gone meanwhile.
LockCovers ==
    \A t \in Threads :
      At(t, "return") /\ req[t].op = "lock" /\ success[t]
      => \A x \in owed[t] : Read(x) = Of(Placeholder) /\ Opens(x, req[t].cred)

\* What the files and markers hold.
Held == {tree[x].at.data : x \in {y \in DOMAIN tree : IsFile(y)}}

\* A lock loses nothing; an unlock loses only what was written over the
\* placeholder of a file that it unlocks, or else reports failure.
LossIsReported ==
    [][ \A t \in Threads :
          At(t, "walk") /\ todo'[t] # todo[t] /\ success'[t]
          => \A d \in Held \ Held' : /\ req[t].op = "unlock"
                                     /\ \E x \in DOMAIN tree : IsEncrypted(x) /\ Read(x) = Of(d)
      ]_vars

\* When nothing else happens, an unlock with the credentials of the lock before
\* gives every file its content back and reports success.
UnlockUndoesLock ==
    \A t \in Threads :
      At(t, "return") /\ req[t].op = "unlock" /\ record # NoRecord
      => /\ success[t]
         /\ \A x \in DOMAIN record.files : Exists(x) /\ tree[x] = record.files[x]
=============================================================================
