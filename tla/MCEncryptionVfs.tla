-------------------------- MODULE MCEncryptionVfs --------------------------
(***************************************************************************)
(* Instances of EncryptionVfs for TLC.                                     *)
(***************************************************************************)
EXTENDS EncryptionVfs, TLC

CONSTANTS f1, f2, d1, d2, k1, k2, p1, t1, t2

\* Keys are only compared.
KeySymmetry == Permutations(KeyFiles)
=============================================================================
