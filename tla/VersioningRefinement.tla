------------------------ MODULE VersioningRefinement ------------------------
(***************************************************************************)
(* With one worker (the mount option -s) and no crash, the handlers of     *)
(* VersioningVfs implement VersionHistory: what a client can see between   *)
(* two requests changes as if every handler were one step.                 *)
(*                                                                         *)
(* settled remembers the backing directory as it was when no handler was   *)
(* under way; a handler takes effect when it returns.                      *)
(***************************************************************************)
EXTENDS VersioningVfs

VARIABLE settled

Quiet == \A t \in Threads : pc[t] = "idle"

RefinementInit == Init /\ settled = store

RefinementNext ==
    /\ Next
    /\ settled' = IF Quiet' THEN store' ELSE settled

RefinementSpec == RefinementInit /\ [][RefinementNext]_<<vars, settled>>

SettledVersions(f) == {n \in Versions : settled[VersionName(f, n)] # Absent}

History == INSTANCE VersionHistory WITH
    current <- [f \in Files |-> settled[BaseName(f)]],
    history <- [f \in Files |->
                 [n \in SettledVersions(f) |-> settled[VersionName(f, n)]]]

\* The versioning handlers, run one at a time, implement the version history
\* (write, restore_version, delete_version, delete_all_versions).
ImplementsHistory == History!HistorySpec
=============================================================================
