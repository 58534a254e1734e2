---------------------------- MODULE PrefixParser ----------------------------
(***************************************************************************)
(* The class PrefixParser: module names and arguments are kept in the      *)
(* basename of a file, as in "#ENCRYPTION-key##VERSION-3#name".  An        *)
(* argument is a sequence of tokens without "#" and "-".                   *)
(***************************************************************************)
EXTENDS Path

Hash == "#"
Hyphen == "-"

\* std::string::find: the first place of pattern in s at or after from; 0 is
\* npos
Find(s, pattern, from) ==
    SelectInSubSeq([i \in 1..Len(s) |-> SubSeq(s, i, i + Len(pattern) - 1)],
                   from, Len(s) - Len(pattern) + 1, LAMBDA t : t = pattern)

CountOf(s, c) == Cardinality({i \in DOMAIN s : s[i] = c})

\* apply_prefix throws on other arguments
ArgsAllowed(args) ==
    \A i \in DOMAIN args : ~Contains(args[i], Hyphen) /\ ~Contains(args[i], Hash)

ApplyPrefix(path, module, args) ==
    SlashedString(Parent(Normalize(path)),
       <<Hash, module>> \o FlattenSeq([i \in DOMAIN args |-> <<Hyphen>> \o args[i]])
                        \o <<Hash>> \o StringBasename(path))

\* The module word is searched, not "#" and the module word.
RemoveSpecificPrefix(path, module) ==
    LET base == StringBasename(path)
        start == Find(base, <<module>>, 1)
        end == Find(base, <<Hash>>, start + 1)
        before == IF start = 1 THEN base ELSE SubSeq(base, 1, start - 2)
    IN  IF start = 0 THEN path
        ELSE SlashedString(Parent(Normalize(path)),
                           before \o SubSeq(base, end + 1, Len(base)))

SplitAtHyphens(s) ==
    LET Take(args, c) == IF c = Hyphen THEN Append(args, <<>>)
                         ELSE [args EXCEPT ![Len(args)] = Append(@, c)]
        split[i \in 0..Len(s)] == IF i = 0 THEN << <<>> >> ELSE Take(split[i - 1], s[i])
    IN  split[Len(s)]

\* Mutant of ArgsFromPrefix: the prefix is taken to end at the last "#".
ArgsToLastHash(path, module) ==
    LET base == StringBasename(path)
        start == Find(base, <<Hash, module, Hyphen>>, 1)
        end == SelectLastInSeq(base, LAMBDA c : c = Hash)
    IN  IF start = 0 THEN <<>> ELSE SplitAtHyphens(SubSeq(base, start + 3, end - 1))

\* Mutant of ArgsFromPrefix: the last character is left out.
ArgsCutShort(path, module) ==
    LET base == StringBasename(path)
        start == Find(base, <<Hash, module, Hyphen>>, 1)
        end == Find(base, <<Hash>>, start + 3)
    IN  IF start = 0 THEN <<>> ELSE SplitAtHyphens(SubSeq(base, start + 3, end - 2))

ArgsFromPrefix(path, module) ==
    LET base == StringBasename(path)
        start == Find(base, <<Hash, module, Hyphen>>, 1)
        end == Find(base, <<Hash>>, start + 3)
    IN  IF start = 0 THEN <<>>
        ELSE SplitAtHyphens(
               SubSeq(base, start + 3, IF end = 0 THEN Len(base) ELSE end - 1))

\* Mutant of IsPrefixed: one hyphen for each "#" is asked for.
IsPrefixedTwice(path) ==
    LET base == StringBasename(path)
        hashes == CountOf(base, Hash)
    IN  /\ hashes > 0
        /\ hashes % 2 = 0
        /\ CountOf(base, Hyphen) >= hashes

IsPrefixed(path) ==
    LET base == StringBasename(path)
        hashes == CountOf(base, Hash)
    IN  /\ hashes > 0
        /\ hashes % 2 = 0
        /\ CountOf(base, Hyphen) >= hashes \div 2

\* Mutant of ContainsPrefix: the module word is searched without its "#".
ContainsWord(path, module) ==
    IsPrefixed(path) /\ Find(StringBasename(path), <<module>>, 1) # 0

ContainsPrefix(path, module) ==
    LET base == StringBasename(path) IN
    /\ IsPrefixed(path)
    /\ \/ Find(base, <<Hash, module, Hash>>, 1) # 0
       \/ Find(base, <<Hash, module, Hyphen>>, 1) # 0

ErasePair(s) ==
    LET first == Find(s, <<Hash>>, 1)
        next == Find(s, <<Hash>>, first + 1)
    IN  IF first = 0 \/ next = 0 THEN s
        ELSE SubSeq(s, 1, first - 1) \o SubSeq(s, next + 1, Len(s))

\* The loop erases from the first "#" to the next one, until there is no pair;
\* there are no more pairs than characters.
GetNonprefixed(s) ==
    LET erased[n \in 0..Len(s)] == IF n = 0 THEN s ELSE ErasePair(erased[n - 1])
    IN  erased[Len(s)]

-----------------------------------------------------------------------------
(* The readers of VersioningVfs                                            *)

CONSTANT Digits

\* Mutant of IsVersionFile: hooks with a version number are versions too.
EndsInNumber(name) ==
    LET args == ArgsFromPrefix(name, "VERSION") IN
    Len(args) >= 1 /\ \A i \in DOMAIN Last(args) : Last(args)[i] \in Digits

\* VersioningVfs::is_version_file
IsVersionFile(name) ==
    LET args == ArgsFromPrefix(name, "VERSION") IN
    Len(args) = 1 /\ \A i \in DOMAIN args[1] : args[1][i] \in Digits

\* what get_related_names compares before it takes name for a version of path
IsRelated(name, path) ==
    /\ IsVersionFile(name)
    /\ StringBasename(GetNonprefixed(name)) = StringBasename(path)
=============================================================================
