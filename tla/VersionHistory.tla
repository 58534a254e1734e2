--------------------------- MODULE VersionHistory ---------------------------
(***************************************************************************)
(* What versioning promises to the user of the mount: a file has a current *)
(* content and a history of numbered versions; a write changes both at     *)
(* once, a restore copies a version to the current content, and only a     *)
(* delete removes versions.  No intermediate state is visible.             *)
(***************************************************************************)
EXTENDS Naturals

CONSTANTS Files, Data, NumBlocks, MaxVersion, Hole, Absent

VARIABLES
    current,   \* content of each file, or Absent
    history    \* for each file, a function from version numbers to contents

histVars == <<current, history>>

Blank == [b \in 1..NumBlocks |-> Hole]

HistoryInit ==
    /\ current = [f \in Files |-> Absent]
    /\ history = [f \in Files |-> <<>>]

\* The versions of f are those in N, with the content they have now.
Keep(f, N) == history' = [history EXCEPT ![f] = [n \in N |-> @[n]]]

SetCurrent(f, c) == current' = [current EXCEPT ![f] = c]

\* The write of d to block b of f stores the new content under the next number.
WriteFile(f, b, d) ==
    /\ current[f] # Absent
    /\ LET c == [current[f] EXCEPT ![b] = d]
           old == DOMAIN history[f]
       IN \E n \in 1..MaxVersion :
            /\ \A m \in old : m < n
            /\ n = 1 \/ n - 1 \in old
            /\ SetCurrent(f, c)
            /\ history' = [history EXCEPT ![f] =
                 [m \in old \union {n} |-> IF m = n THEN c ELSE @[m]]]

RestoreFile(f, n) ==
    /\ n \in DOMAIN history[f]
    /\ SetCurrent(f, history[f][n])
    /\ UNCHANGED history

ForgetVersion(f, n) ==
    /\ n \in DOMAIN history[f]
    /\ Keep(f, DOMAIN history[f] \ {n})
    /\ UNCHANGED current

ForgetFile(f) ==
    /\ current[f] # Absent
    /\ SetCurrent(f, Absent)
    /\ Keep(f, {})

CreateFile(f) ==
    /\ current[f] = Absent
    /\ SetCurrent(f, Blank)
    /\ UNCHANGED history

ShortenFile(f) ==
    /\ current[f] # Absent
    /\ \E len \in 0..(NumBlocks - 1) :
         SetCurrent(f, [b \in 1..NumBlocks |->
                          IF b <= len THEN current[f][b] ELSE Hole])
    /\ UNCHANGED history

\* The history stays with the name.
RemoveFile(f) ==
    /\ current[f] # Absent
    /\ SetCurrent(f, Absent)
    /\ UNCHANGED history

MoveFile(f, g) ==
    /\ f # g
    /\ current[f] # Absent
    /\ current' = [current EXCEPT ![g] = current[f], ![f] = Absent]
    /\ UNCHANGED history

HistoryNext ==
    \E f \in Files :
      \/ \E b \in 1..NumBlocks, d \in Data : WriteFile(f, b, d)
      \/ \E n \in 1..MaxVersion : RestoreFile(f, n) \/ ForgetVersion(f, n)
      \/ ForgetFile(f)
      \/ CreateFile(f)
      \/ ShortenFile(f)
      \/ RemoveFile(f)
      \/ \E g \in Files : MoveFile(f, g)

HistorySpec == HistoryInit /\ [][HistoryNext]_histVars
=============================================================================
