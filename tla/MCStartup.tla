------------------------------ MODULE MCStartup ------------------------------
(* Values for the constants of Startup. *)
EXTENDS Startup, TLC

MCTableOrder == <<"users", "generators", "manifests">>

\* One row stands for the seeded rows of a table.
FewSeedCodes == "users" :> {"admin"} @@ "generators" :> {"WG-001"} @@ "manifests" :> {"TM-001"}

FewOtherCodes == "users" :> {} @@ "generators" :> {"WG-009"} @@ "manifests" :> {}

\* Generators can be deleted in every status; some seeded manifests are submitted and cannot.
FewDeletableCodes == "users" :> {} @@ "generators" :> {"WG-001", "WG-009"} @@ "manifests" :> {}

=============================================================================
