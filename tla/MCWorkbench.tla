---------------------------- MODULE MCWorkbench ----------------------------
(* Values for the constants of Workbench. *)
EXTENDS Workbench, TLC

CONSTANTS FirstVersions, SecondVersions

MCMatches == [s \in Searches |-> IF s = "" THEN Ids ELSE {"TM-001"}]
OneManifest == <<[id |-> "TM-001", status |-> "submitted", version |-> 1]>>
MCMaxVersion == [id \in Ids |-> IF id = "TM-001" THEN FirstVersions ELSE SecondVersions]

Permutation == Permutations(Calls)
=============================================================================
