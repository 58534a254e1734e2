--------------------------- MODULE MCVersioningVfs ---------------------------
(***************************************************************************)
(* Instances of VersioningVfs for TLC.                                     *)
(***************************************************************************)
EXTENDS VersioningVfs, TLC

CONSTANTS f1, f2, d1, d2, t1, t2

\* The data are only copied and compared, the workers only named.
Symmetry == Permutations(Data) \union Permutations(Threads)
=============================================================================
