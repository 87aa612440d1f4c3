--------------------------- MODULE MCRecordService ---------------------------
(* Constant values for checking RecordService as the manifest service. *)
EXTENDS RecordService, TLC

CONSTANTS k1, k2, d1, d2, w1, w2

MCContents == {d1, d2}
MCWorkers == {w1, w2}

Absent(s) == [state |-> "absent", status |-> s, version |-> 0, content |-> d1]
Seeded(s) == [state |-> "live", status |-> s, version |-> 1, content |-> d1]

ManifestStatuses == DOMAIN TransferManifestTransitions
ManifestSeed == [k \in Codes |-> IF k = k1 THEN Seeded("draft") ELSE Absent("draft")]

\* Workers are interchangeable; the properties checked with it are safety properties.
WorkerSymmetry == Permutations(MCWorkers)
=============================================================================
