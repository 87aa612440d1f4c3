--------------------------- MODULE MCAuditQueries ---------------------------
(* Values for the constants of AuditQueries. *)
EXTENDS AuditQueries, TLC

MCTypeOf == [e \in Entities |-> e]
Permutation == Permutations(Requests) \cup Permutations(Actors)
=============================================================================
