--------------------------- MODULE MCDirectoryVfs ---------------------------
(***************************************************************************)
(* Instances of DirectoryVfs for TLC.                                      *)
(***************************************************************************)
EXTENDS DirectoryVfs, TLC

CONSTANTS d1, a, b, h1, h2, t1, t2

\* Two files, two versions of one of them, and the markers of the versions.
SomeNames == { <<a, 0, FALSE>>, <<b, 0, FALSE>>, <<a, 1, FALSE>>, <<a, 2, FALSE>>,
               <<a, 1, TRUE>> }

WorkersAndStreams == Permutations(Threads) \union Permutations(Handles)
=============================================================================
