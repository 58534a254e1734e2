----------------------- MODULE MCEncryptionRefinement -----------------------
(***************************************************************************)
(* Instances of EncryptionRefinement for TLC.                              *)
(***************************************************************************)
EXTENDS EncryptionRefinement, TLC

CONSTANTS f1, f2, d1, d2, k1, k2, p1, t1, t2

\* Files and keys are only named.
Symmetry == Permutations(Files) \union Permutations(KeyFiles)
=============================================================================
