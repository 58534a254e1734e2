---------------------------- MODULE PrefixNames ----------------------------
(***************************************************************************)
(* The decorators build and take apart names with Path and PrefixParser:   *)
(* they go down into directories and up again, put prefixes on the last    *)
(* component and remove them.  parts is what such a name stands for; path  *)
(* is the name the code has built.                                         *)
(***************************************************************************)
EXTENDS PrefixParser

CONSTANTS
    Tokens,        \* the pieces of names
    BaseNames,     \* names of files and directories
    Modules,       \* module words of the prefixes
    ArgLists,      \* arguments a decorator gives to apply_prefix
    MaxDepth,      \* bound on the directories of a path
    MaxPrefixes    \* bound on the prefixes of one component

\* A name or argument: a sequence of tokens
Words == Seq(Tokens)

\* A name without '#' that does not begin like a prefix that has lost its '#'
GoodBase(b) ==
    /\ b \in Words /\ b # <<>>
    /\ ~Contains(b, Hash) /\ ~Contains(b, Slash)
    /\ b[1] \in Modules => Len(b) = 1 \/ b[2] # Hyphen

\* The decorators give every prefix an argument and no argument is empty.
GoodArgs(args) ==
    /\ args \in Seq(Words) /\ args # <<>>
    /\ ArgsAllowed(args)
    /\ \A i \in DOMAIN args : /\ args[i] # <<>> /\ ~Contains(args[i], Slash)
                              /\ \A m \in Modules : ~Contains(args[i], m)

ASSUME BaseNamesAssumption == \A b \in BaseNames : GoodBase(b)

ASSUME TokensAssumption == {Hash, Hyphen, Slash} \subseteq Tokens

ASSUME ModulesAssumption ==
    "VERSION" \in Modules /\ Modules \subseteq Tokens \ {Hash, Hyphen, Slash}

ASSUME ArgListsAssumption == \A args \in ArgLists : GoodArgs(args)

VARIABLES path, parts

vars == <<path, parts>>

Init == path = Root /\ parts = <<>>

Here == Last(parts)

\* Path::operator/ with the name of a file of the directory
GoDown(b) ==
    /\ Len(parts) < MaxDepth
    /\ path' = SlashedString(path, b)
    /\ parts' = Append(parts, [base |-> b, prefixes |-> <<>>])

\* Path::parent
GoUp ==
    /\ parts # <<>>
    /\ path' = Parent(path)
    /\ parts' = Front(parts)

\* apply_prefix, for a hook, a version, a marker or an encrypted version
Apply(m, args) ==
    /\ parts # <<>>
    /\ Len(Here.prefixes) < MaxPrefixes
    /\ path' = ApplyPrefix(path, m, args)
    /\ parts' = [parts EXCEPT ![Len(parts)].prefixes =
                   <<[module |-> m, args |-> args]>> \o @]

\* remove_specific_prefix of a name that has one (handle_hook)
Remove1(m) ==
    /\ ContainsPrefix(path, m)
    /\ path' = RemoveSpecificPrefix(path, m)
    /\ parts' = [parts EXCEPT ![Len(parts)].prefixes =
                   RemoveFirstMatch(@, LAMBDA p : p.module = m)]

Next ==
    \/ \E b \in BaseNames : GoDown(b)
    \/ GoUp
    \/ \E m \in Modules, args \in ArgLists : Apply(m, args)
    \/ \E m \in Modules : Remove1(m)

Spec == Init /\ [][Next]_vars

-----------------------------------------------------------------------------
(* What a name stands for                                                  *)

Shown(p) ==
    <<Hash, p.module>> \o FlattenSeq([i \in DOMAIN p.args |-> <<Hyphen>> \o p.args[i]])
                       \o <<Hash>>

ShownPart(part) ==
    FlattenSeq([i \in DOMAIN part.prefixes |-> Shown(part.prefixes[i])]) \o part.base

Denoted ==
    IF parts = <<>> THEN Root
    ELSE FlattenSeq([i \in DOMAIN parts |-> Root \o ShownPart(parts[i])])

\* The outermost prefix of module m, as a sequence of at most one prefix
Outermost(m) == LET I == SelectInSeq(Here.prefixes, LAMBDA p : p.module = m)
                IN  IF I = 0 THEN <<>> ELSE <<Here.prefixes[I]>>

-----------------------------------------------------------------------------
(* Properties *)

\* Whatever way a name was reached, it is the one its parts stand for: parent
\* undoes operator/ and remove_specific_prefix undoes apply_prefix, also when
\* several prefixes are stacked on a name.
NamesRoundTrip == path = Denoted

\* args_from_prefix gives back the arguments of the outermost prefix of the
\* module it is asked for, whatever is stacked around it.
ArgsReadBack ==
    parts # <<>> => \A m \in Modules :
      ArgsFromPrefix(path, m) = IF Outermost(m) = <<>> THEN <<>>
                                ELSE Outermost(m)[1].args

\* is_prefixed, which hides names from readdir and sends writes past the
\* versioning, holds of a name exactly when it carries a prefix.
HiddenIffPrefixed ==
    parts # <<>> => (IsPrefixed(path) <=> Here.prefixes # <<>>)

\* contains_prefix tells which modules have put a prefix on a name.
RecognisedIffPrefixed ==
    parts # <<>> => \A m \in Modules :
      ContainsPrefix(path, m) <=> Outermost(m) # <<>>

\* get_related_names takes a name for a version of b exactly when the name is b
\* under a VERSION prefix that holds one number and nothing else; prefixes of
\* other modules around it (an encrypted version) make no difference.
VersionsOfTheFileOnly ==
    parts # <<>> => \A b \in BaseNames :
      IsRelated(StringBasename(path), b)
        <=> /\ b = Here.base
            /\ Outermost("VERSION") # <<>>
            /\ LET args == Outermost("VERSION")[1].args IN
               Len(args) = 1 /\ \A i \in DOMAIN args[1] : args[1][i] \in Digits

\* Every file that is taken for a version has a version number for std::stoi
\* to read (get_max_version, list_versions).
VersionsHaveNumbers ==
    parts # <<>> /\ IsVersionFile(StringBasename(path))
    => ArgsFromPrefix(path, "VERSION")[1] # <<>>
=============================================================================
