------------------------------ MODULE CustomVfs ------------------------------
(***************************************************************************)
(* The backing store of the virtual file system: one directory of the      *)
(* backing folder, seen through the calls CustomVfs makes on it.           *)
(*                                                                         *)
(* A name is a base name together with a version number: <<f, 0>> is the   *)
(* file f itself and <<f, n>> with n > 0 is the version file               *)
(* "#VERSION-n#f" that apply_prefix builds.  (PrefixParser checks that the *)
(* parser tells such names apart.)  The content of a file is a function    *)
(* from its blocks to data; a worker thread of the FUSE daemon that is     *)
(* inside ::pwrite or std::filesystem::copy_file holds one file open, and  *)
(* keeps it open, without a name, when somebody unlinks the name.          *)
(*                                                                         *)
(* Every operator here is one uninterruptible call on the backing          *)
(* directory; VersioningVfs puts them in the order of its handlers.        *)
(***************************************************************************)
EXTENDS Naturals

CONSTANTS
    Files,        \* base names without '#'
    Data,         \* what a client may put into a block
    NumBlocks,    \* length of the longest file, in blocks
    MaxVersion,   \* bound: no write is started when version MaxVersion exists
    Threads,      \* the worker threads of fuse_main
    Hole,         \* content of a block nobody wrote
    Absent,       \* a name that is not in the backing directory
    NoName        \* a file descriptor that is closed, or whose name is gone

ASSUME BoundsAssumption ==
    /\ NumBlocks \in Nat \ {0}
    /\ MaxVersion \in Nat \ {0}

Blocks == 1..NumBlocks
Versions == 1..MaxVersion
Names == Files \X (0..MaxVersion)

Content == [Blocks -> Data \union {Hole}]
Empty == [b \in Blocks |-> Hole]

ASSUME SentinelAssumption ==
    /\ Absent \notin Content
    /\ NoName \notin Names

VARIABLES
    store,    \* the backing directory: content of every name, or Absent
    handle,   \* the name behind the descriptor each worker has open
    copied,   \* what a worker's copy_file has read from its source
    opened    \* the files some client of the mount holds open

storeVars == <<store, handle, copied, opened>>

StoreTypeOK ==
    /\ store \in [Names -> Content \union {Absent}]
    /\ handle \in [Threads -> Names \union {NoName}]
    /\ copied \in [Threads -> Content]
    /\ opened \in SUBSET Files

StoreInit ==
    /\ store = [x \in Names |-> Absent]
    /\ handle = [t \in Threads |-> NoName]
    /\ copied = [t \in Threads |-> Empty]
    /\ opened = {}

-----------------------------------------------------------------------------
(* Names *)

BaseName(f) == <<f, 0>>

\* PrefixParser::apply_prefix(f, "VERSION", {n})
VersionName(f, n) == <<f, n>>

Exists(x) == store[x] # Absent

\* VersioningVfs::get_related_names: the version files of f in its directory
RelatedVersions(f) == {n \in Versions : Exists(VersionName(f, n))}

-----------------------------------------------------------------------------
(* Calls made by a worker thread inside a handler *)

\* Descriptors that referred to x refer to no name any more.
Orphan(x) == [t \in Threads |-> IF handle[t] = x THEN NoName ELSE handle[t]]

\* ::unlink; a missing name is an ignored ENOENT
UnlinkName(x) ==
    /\ store' = [store EXCEPT ![x] = Absent]
    /\ handle' = Orphan(x)
    /\ UNCHANGED <<copied, opened>>

\* ::open(O_WRONLY) of a file that exists
OpenForWrite(t, x) ==
    /\ Exists(x)
    /\ handle' = [handle EXCEPT ![t] = x]
    /\ UNCHANGED <<store, copied, opened>>

\* ::pwrite of one block followed by ::close
PwriteBlock(t, b, d) ==
    /\ store' = IF handle[t] = NoName THEN store
                ELSE [store EXCEPT ![handle[t]] = [@ EXCEPT ![b] = d]]
    /\ handle' = [handle EXCEPT ![t] = NoName]
    /\ UNCHANGED <<copied, opened>>

\* ::pwrite that fails (disk full, I/O error) followed by ::close
CloseHandle(t) ==
    /\ handle' = [handle EXCEPT ![t] = NoName]
    /\ UNCHANGED <<store, copied, opened>>

\* std::filesystem::copy_file without overwrite: it throws when the source is
\* missing or the destination exists ...
CopyThrows(src, dst) == ~Exists(src) \/ Exists(dst)

\* ... and otherwise creates the destination ...
CopyOpen(t, src, dst) ==
    /\ ~CopyThrows(src, dst)
    /\ copied' = [copied EXCEPT ![t] = store[src]]
    /\ store' = [store EXCEPT ![dst] = Empty]
    /\ handle' = [handle EXCEPT ![t] = dst]
    /\ UNCHANGED opened

\* ... and fills it.
CopyFill(t) ==
    /\ store' = IF handle[t] = NoName THEN store
                ELSE [store EXCEPT ![handle[t]] = copied[t]]
    /\ handle' = [handle EXCEPT ![t] = NoName]
    /\ copied' = [copied EXCEPT ![t] = Empty]
    /\ UNCHANGED opened

\* std::ofstream(destination, app): creates the destination if it has gone
TouchName(x) ==
    /\ store' = IF Exists(x) THEN store ELSE [store EXCEPT ![x] = Empty]
    /\ UNCHANGED <<handle, copied, opened>>

-----------------------------------------------------------------------------
(* Requests of the kernel that CustomVfs answers with one call             *)

\* mknod: a client creates f (create is not implemented, so the kernel sends
\* mknod and open)
Mknod(f) ==
    /\ ~Exists(BaseName(f))
    /\ store' = [store EXCEPT ![BaseName(f)] = Empty]
    /\ UNCHANGED <<handle, copied, opened>>

\* open and release of a file that is not encrypted
Open(f) ==
    /\ Exists(BaseName(f))
    /\ f \notin opened
    /\ opened' = opened \union {f}
    /\ UNCHANGED <<store, handle, copied>>

Release(f) ==
    /\ f \in opened
    /\ opened' = opened \ {f}
    /\ UNCHANGED <<store, handle, copied>>

\* truncate to a length shorter than the longest file
Truncate(x) ==
    /\ Exists(x)
    /\ \E len \in 0..(NumBlocks - 1) :
         store' = [store EXCEPT ![x] =
                     [b \in Blocks |-> IF b <= len THEN @[b] ELSE Hole]]
    /\ UNCHANGED <<handle, copied, opened>>

\* write of a name no decorator looks at
Overwrite(x) ==
    /\ Exists(x)
    /\ \E b \in Blocks, d \in Data :
         store' = [store EXCEPT ![x] = [@ EXCEPT ![b] = d]]
    /\ UNCHANGED <<handle, copied, opened>>

\* unlink: libfuse lets a client that has f open go on under a hidden name
Unlink(f) ==
    /\ Exists(BaseName(f))
    /\ store' = [store EXCEPT ![BaseName(f)] = Absent]
    /\ handle' = Orphan(BaseName(f))
    /\ opened' = opened \ {f}
    /\ UNCHANGED copied

\* rename replaces g; the version files of f and of g stay where they are
Rename(f, g) ==
    /\ f # g
    /\ Exists(BaseName(f))
    /\ store' = [store EXCEPT ![BaseName(g)] = store[BaseName(f)],
                              ![BaseName(f)] = Absent]
    /\ handle' = [t \in Threads |->
                    CASE handle[t] = BaseName(f) -> BaseName(g)
                      [] handle[t] = BaseName(g) -> NoName
                      [] OTHER -> handle[t]]
    /\ opened' = (opened \ {f, g}) \union (IF f \in opened THEN {g} ELSE {})
    /\ UNCHANGED copied
=============================================================================
