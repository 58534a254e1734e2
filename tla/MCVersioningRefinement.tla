----------------------- MODULE MCVersioningRefinement -----------------------
(***************************************************************************)
(* One worker, two files and two blocks, for the refinement.               *)
(***************************************************************************)
EXTENDS VersioningRefinement

CONSTANTS f1, f2, d1, d2, t1
=============================================================================
