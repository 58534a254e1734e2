---------------------------- MODULE MCKeyRequests ----------------------------
(***************************************************************************)
(* Instances of KeyRequests for TLC.                                       *)
(***************************************************************************)
EXTENDS KeyRequests

CONSTANTS f, k, c1, t1, t2
=============================================================================
