-------------------------------- MODULE Path --------------------------------
(***************************************************************************)
(* The class Path.  A path is a sequence of tokens: "/", and the pieces of *)
(* the names between the slashes ("#" and "-" are tokens of their own for  *)
(* PrefixParser).  A Path object is a sequence that went through Normalize.*)
(***************************************************************************)
EXTENDS Naturals, SequencesExt

Slash == "/"
Root == <<Slash>>

LastSlash(p) == SelectLastInSeq(p, LAMBDA c : c = Slash)

\* Path::normalize: a slash in front, and one slash less at the end
Normalize(p) ==
    IF p = <<>> \/ p = Root THEN p
    ELSE LET q == IF Head(p) = Slash THEN p ELSE Root \o p
         IN  IF Last(q) = Slash THEN Front(q) ELSE q

\* Mutant of StringParent: the slash stays when the path has one slash only.
StringParentOne(p) ==
    IF LastSlash(p) = 0 \/ p = Root THEN <<>> ELSE SubSeq(p, 1, LastSlash(p) - 1)

StringParent(p) ==
    CASE LastSlash(p) = 0 \/ p = Root -> <<>>
      [] LastSlash(p) = 1 /\ p # Root -> Root
      [] OTHER -> SubSeq(p, 1, LastSlash(p) - 1)

StringBasename(p) == SubSeq(p, LastSlash(p) + 1, Len(p))

\* Path::parent
Parent(p) == Normalize(StringParent(p))

\* operator/ of two Path objects
Slashed(p, q) ==
    CASE q = <<>> -> Normalize(p)
      [] q # <<>> /\ p \in {<<>>, Root} -> Normalize(q)
      [] OTHER -> Normalize(p \o Normalize(q))

\* operator/ with a string, which becomes a Path first
SlashedString(p, s) == Slashed(Normalize(p), Normalize(s))
=============================================================================
