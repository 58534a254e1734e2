---------------------------- MODULE ToolCommands ----------------------------
(***************************************************************************)
(* From a command line of the tools to the command the daemon carries out. *)
(* A tool turns its options into the name of a hook file and writes to it; *)
(* the daemon takes the name apart again.  Both ends are pure functions of *)
(* names and meet nowhere but in the name.                                 *)
(*                                                                         *)
(* A command line is a record: its options, and the values they are given. *)
(* A command of the daemon is a record [op, target, with].  A hook that    *)
(* cannot be made, or that says nothing to the daemon, is the empty set.   *)
(***************************************************************************)
EXTENDS PrefixNames, FiniteSets

CONSTANTS
    MountPath,     \* where the file system is mounted
    KeyPaths,      \* absolute paths a user may give for keys
    Numbers,       \* version numbers a user may give
    Password       \* what a user types at the prompt

ASSUME MountAssumption == MountPath # <<>> /\ Head(MountPath) = Slash

Bar == "|"
Space == " "
Blank == <<Space>>

-----------------------------------------------------------------------------
(* Hook generation *)

Replaced(s, old, new) == [i \in DOMAIN s |-> IF s[i] = old THEN new ELSE s[i]]

\* Mutant of Escaped: the slashes stay.
EscapedNot(p) == p

Escaped(p) == Replaced(p, Slash, Bar)

\* apply_prefix, which throws on arguments with '-' or '#'
Hook(file, module, args) ==
    IF ArgsAllowed(args) THEN {ApplyPrefix(file, module, args)} ELSE {}

LockPassHook(file) == Hook(file, "ENCRYPTION", << <<"lock">> >>)
UnlockPassHook(file) == Hook(file, "ENCRYPTION", << <<"unlock">> >>)
DefaultLockHook(file) == Hook(file, "ENCRYPTION", << <<"defaultLock">> >>)
LockKeyHook(file, key) == Hook(file, "ENCRYPTION", << <<"lock">>, Escaped(key) >>)
UnlockKeyHook(file, key) == Hook(file, "ENCRYPTION", << <<"unlock">>, Escaped(key) >>)
GenerateKeyHook(file) == Hook(file, "ENCRYPTION", << <<"generate">> >>)
SetKeyPathHook(vfs, key) ==
    Hook(SlashedString(vfs, <<".">>), "ENCRYPTION", << <<"setDefault">>, Escaped(key) >>)

ListHook(file) == Hook(file, "VERSION", << <<"list">> >>)
RestoreHook(file, n) == Hook(file, "VERSION", << <<"restore">>, n >>)
DeleteHook(file, n) == Hook(file, "VERSION", << <<"delete">>, n >>)
DeleteAllHook(file) == Hook(file, "VERSION", << <<"deleteAll">> >>)

-----------------------------------------------------------------------------
(* encryption_tool *)

Options == {"unlock", "lock", "default-lock", "key", "set-key-path", "generate"}

Conflicts == { {"generate", "key"}, {"default-lock", "unlock"}, {"default-lock", "key"},
               {"unlock", "lock"}, {"unlock", "generate"} }

\* Mutant of VerifyArgs: nothing is said of a key beside --default-lock.
VerifyArgsLax(o) ==
    /\ o \ {"key"} # {}
    /\ \A c \in Conflicts \ {{"default-lock", "key"}} : ~(c \subseteq o)

\* --set-key-path with --generate or --key prints a message and goes on.
VerifyArgs(o) ==
    /\ o \ {"key"} # {}
    /\ \A c \in Conflicts : ~(c \subseteq o)

UseKey(o) == o \intersect {"key", "generate"} # {}
Key(c) == IF "generate" \in c.options THEN c.generate ELSE c.key

\* The main operation is the first of these options that is given.
MainOption(o) ==
    LET given == SelectSeq(<<"set-key-path", "unlock", "lock", "default-lock">>,
                           LAMBDA x : x \in o)
    IN  IF given = <<>> THEN "none" ELSE Head(given)

\* perform_command writes a blank.
PerformCommand(hooks) == [name : hooks, content : {Blank}]

\* Nothing is written for an empty password.
PasswordCommand(hooks, password) ==
    IF password = <<>> THEN {} ELSE [name : hooks, content : {password}]

\* The password is empty unless it was asked for.
PasswordOf(o) ==
    IF UseKey(o) \/ o \intersect {"set-key-path", "default-lock"} # {} THEN <<>>
    ELSE Password

MainWrites(c) ==
    LET o == c.options
        main == MainOption(o)
    IN  CASE main = "set-key-path" ->
               PerformCommand(SetKeyPathHook(c.vfs, c.setKeyPath))
          [] main = "unlock" ->
               IF UseKey(o) THEN PerformCommand(UnlockKeyHook(c.file, Key(c)))
               ELSE PasswordCommand(UnlockPassHook(c.file), PasswordOf(o))
          [] main = "lock" ->
               IF UseKey(o) THEN PerformCommand(LockKeyHook(c.file, Key(c)))
               ELSE PasswordCommand(LockPassHook(c.file), PasswordOf(o))
          [] main = "default-lock" -> PerformCommand(DefaultLockHook(c.file))
          [] main = "none" -> {}

\* What the tool writes, one set for each step of main.  A generate hook that
\* cannot be made ends the tool.
EncryptionTool(c) ==
    LET generated == PerformCommand(GenerateKeyHook(c.generate)) IN
    CASE ~VerifyArgs(c.options) -> <<>>
      [] VerifyArgs(c.options) /\ "generate" \notin c.options -> <<MainWrites(c)>>
      [] VerifyArgs(c.options) /\ "generate" \in c.options ->
           IF generated = {} THEN <<>> ELSE <<generated, MainWrites(c)>>

-----------------------------------------------------------------------------
(* versioning_tool: all options that are given, in this order *)

VersioningTool(c) ==
    LET step == [ list |-> ListHook(c.file),
                  restore |-> RestoreHook(c.file, c.number),
                  delete |-> DeleteHook(c.file, c.number),
                  deleteAll |-> DeleteAllHook(c.file) ]
        given == SelectSeq(<<"list", "restore", "delete", "deleteAll">>,
                           LAMBDA x : x \in c.options)
    IN  [i \in DOMAIN given |-> PerformCommand(step[given[i]])]

-----------------------------------------------------------------------------
(* The daemon *)

Command(op, target, with) == [op |-> op, target |-> target, with |-> with]

Unescaped(s) == Replaced(s, Bar, Slash)

HandleSingleArg(target, arg, content) ==
    CASE arg \in {<<"lock">>, <<"unlock">>} ->
           {Command(Head(arg), target, <<"password", content>>)}
      [] arg = <<"defaultLock">> -> {Command("lock", target, <<"default">>)}
      [] arg = <<"generate">> -> {Command("generate", target, <<>>)}
      [] OTHER -> {}

HandleDoubleArg(target, arg, key) ==
    CASE arg \in {<<"lock">>, <<"unlock">>} ->
           {Command(Head(arg), target, <<"key", Unescaped(key)>>)}
      [] arg = <<"setDefault">> -> {Command("setDefault", Root, <<"key", Unescaped(key)>>)}
      [] OTHER -> {}

\* EncryptionVfs::handle_hook
EncryptionHook(name, content) ==
    LET target == RemoveSpecificPrefix(name, "ENCRYPTION")
        args == ArgsFromPrefix(name, "ENCRYPTION")
    IN  CASE Len(args) = 1 -> HandleSingleArg(target, args[1], content)
          [] Len(args) = 2 -> HandleDoubleArg(target, args[1], args[2])
          [] OTHER -> {}

\* VersioningVfs::handle_hook, for versions and files that exist
VersioningHook(name) ==
    LET target == RemoveSpecificPrefix(name, "VERSION")
        args == ArgsFromPrefix(name, "VERSION")
    IN  CASE Len(args) = 2 /\ args[1] \in {<<"restore">>, <<"delete">>} ->
               {Command(Head(args[1]), target, ApplyPrefix(target, "VERSION", <<args[2]>>))}
          [] Len(args) = 1 /\ args[1] \in {<<"list">>, <<"deleteAll">>} ->
               {Command(Head(args[1]), target, <<>>)}
          [] OTHER -> {}

\* Mutant of Carried: the versioning decorator is the outer one.
CarriedInner(name, content) ==
    IF ContainsPrefix(name, "VERSION") THEN VersioningHook(name)
    ELSE IF ContainsPrefix(name, "ENCRYPTION") THEN EncryptionHook(name, content)
    ELSE {}

\* The encryption decorator is the outer one.
Carried(name, content) ==
    IF ContainsPrefix(name, "ENCRYPTION") THEN EncryptionHook(name, content)
    ELSE IF ContainsPrefix(name, "VERSION") THEN VersioningHook(name)
    ELSE {}

\* The kernel hands over names below the mount point, without it.
Delivered(writes) ==
    UNION {Carried(SubSeq(w.name, Len(MountPath) + 1, Len(w.name)), w.content) :
             w \in {v \in writes : IsPrefix(MountPath \o Root, v.name)}}

\* What the daemon does for a tool
Obeyed(tool) == [i \in DOMAIN tool |-> Delivered(tool[i])]

-----------------------------------------------------------------------------
(* Properties *)

\* Key paths that survive the name of a hook: apply_prefix refuses '-' and '#'
\* and the daemon takes '|' for '/'.
Sendable(key) == \A i \in DOMAIN key : key[i] \notin {Hash, Hyphen, Bar}

\* The file the user names, as the tool sees it: a file, a version, a marker or
\* a hook
Named == MountPath \o path
UserNames == parts # <<>> /\ Len(Here.prefixes) <= 1

CommandLine(o, key) ==
    [options |-> o, file |-> Named, key |-> key, generate |-> key,
     setKeyPath |-> key, vfs |-> MountPath]

\* For every file, version or marker the user names and every key path a hook
\* can carry, the daemon does what the documented usages of encryption_tool
\* say, to that file, with that key; a key that goes to another directory level
\* or a file that loses a prefix on the way would show.
EncryptionUsagesObeyed ==
    UserNames => \A key \in {k \in KeyPaths : Sendable(k)} :
      LET does(o) == Obeyed(EncryptionTool(CommandLine(o, key)))
          withKey == <<"key", key>>
          typed == <<"password", Password>>
          inMount == IsPrefix(MountPath \o Root, key)
      IN  /\ does({"lock"}) = <<{Command("lock", path, typed)}>>
          /\ does({"unlock"}) = <<{Command("unlock", path, typed)}>>
          /\ does({"lock", "key"}) = <<{Command("lock", path, withKey)}>>
          /\ does({"unlock", "key"}) = <<{Command("unlock", path, withKey)}>>
          /\ does({"default-lock"}) = <<{Command("lock", path, <<"default">>)}>>
          /\ does({"set-key-path"}) = <<{Command("setDefault", Root, withKey)}>>
          /\ LET made == {c \in does({"lock", "generate"})[1] : c.op = "generate"} IN
             {MountPath \o c.target : c \in made} = IF inMount THEN {key} ELSE {}

\* Whatever options verify_args lets through, a lock or unlock works with the
\* key the user names, there is one of them at most, and no file is unlocked
\* with a key made a moment ago.
NamedKeyIsUsed ==
    UserNames /\ Len(parts) = 1 => \A o \in SUBSET Options, key \in {k \in KeyPaths : Sendable(k)} :
      LET does == Obeyed(EncryptionTool(CommandLine(o, key)))
          locks == {c \in UNION Range(does) : c.op \in {"lock", "unlock"}}
      IN  /\ Cardinality(locks) <= 1
          /\ \A c \in locks : /\ "key" \in o => c.with = <<"key", key>>
                              /\ c.op = "unlock" => "generate" \notin o

\* The commands of versioning_tool reach the file and the version the user
\* names, also a version of a version, unless the file is a marker of the
\* encryption: its decorator takes the hook and refuses it.
VersioningUsagesObeyed ==
    UserNames => \A n \in Numbers :
      LET does(o) == Obeyed(VersioningTool([options |-> o, file |-> Named, number |-> n]))
          refused == Outermost("ENCRYPTION") # <<>>
          version == ApplyPrefix(path, "VERSION", <<n>>)
          asked == << {Command("restore", path, version)}, {Command("delete", path, version)},
                      {Command("deleteAll", path, <<>>)} >>
          all == {"list", "restore", "delete", "deleteAll"}
      IN  /\ refused => \A c \in UNION Range(does(all)) : c.op \notin all
          /\ ~refused => /\ does({"list"}) = <<{Command("list", path, <<>>)}>>
                         /\ does({"restore", "delete", "deleteAll"}) = asked
=============================================================================
