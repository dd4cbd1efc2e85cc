--------------------------- MODULE SnapshotStore ---------------------------
(***************************************************************************)
(* What a project's generation store promises, without generations, files, *)
(* rows or locks: readers are shown one whole snapshot, or nothing; a      *)
(* power loss takes the store back only to a snapshot that was shown since *)
(* the last one whose publication was acknowledged, or to that one.        *)
(***************************************************************************)

CONSTANTS
    Snapshots,     \* whole snapshots of the graph
    Nothing        \* no snapshot

VARIABLES
    shown,         \* what a reader opening the store now sees
    recoverable,   \* what a reader could see after a power loss
    acknowledged,  \* the snapshot last reported as published
    newer          \* what was shown since

vars == <<shown, recoverable, acknowledged, newer>>

SnapshotOrNothing == Snapshots \cup {Nothing}

Init ==
    /\ shown = Nothing /\ recoverable = {Nothing}
    /\ acknowledged = Nothing /\ newer = {}

\* A publication, or a removal, changes what readers see.
Show(s) ==
    /\ shown' = s
    /\ recoverable' = recoverable \cup {s} /\ newer' = newer \cup {s}
    /\ UNCHANGED acknowledged

\* What is shown reaches the disk.
Persist ==
    /\ recoverable' = {shown}
    /\ UNCHANGED <<shown, acknowledged, newer>>

\* The publication of what is shown is acknowledged: nothing older can return.
Acknowledge ==
    /\ recoverable = {shown}
    /\ acknowledged' = shown /\ newer' = {}
    /\ UNCHANGED <<shown, recoverable>>

\* A power loss.
Revert ==
    /\ shown' \in recoverable /\ recoverable' = {shown'}
    /\ UNCHANGED <<acknowledged, newer>>

Next ==
    \/ \E s \in SnapshotOrNothing : Show(s)
    \/ Persist \/ Acknowledge \/ Revert

Spec == Init /\ [][Next]_vars

=============================================================================
