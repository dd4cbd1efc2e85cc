--------------------------- MODULE MCServerThreads -------------------------
(***************************************************************************)
(* Instances of ServerThreads for TLC: two auto-index threads, one job     *)
(* slot, and two addresses at which a project's state may lie.             *)
(***************************************************************************)
EXTENDS ServerThreads

MCAuto  == {"auto1", "auto2"}
MCSlots == {"job"}
MCStateIds == {1, 2}

============================================================================
