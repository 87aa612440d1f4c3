------------------------------- MODULE SeedData -------------------------------
(***************************************************************************)
(* The records database.Seed inserts into empty tables, as far as the      *)
(* services tell them apart.  Expiry dates are ranked: 1 stands for four   *)
(* months after seeding, 2 for five, 3 for eight, 4 for ten, 5 for twelve. *)
(***************************************************************************)
EXTENDS Naturals, TLC

SeedPermit(status, expires) ==
    [state |-> "live", status |-> status, version |-> 1, expires |-> expires]

SeedWasteGenerator ==
       "WG-001" :> SeedPermit("active", 5)
    @@ "WG-002" :> SeedPermit("restricted", 3)
    @@ "WG-003" :> SeedPermit("suspended", 2)

SeedCarrierProfile ==
       "CP-001" :> SeedPermit("pending", 5)
    @@ "CP-002" :> SeedPermit("verified", 4)
    @@ "CP-003" :> SeedPermit("restricted", 1)

SeedManifest(status) ==
    [state |-> "live", status |-> status, version |-> 1,
     generator |-> "WG-001", carrier |-> "CP-002"]

SeedTransferManifest ==
       "TM-001" :> SeedManifest("draft")
    @@ "TM-002" :> SeedManifest("submitted")
    @@ "TM-003" :> SeedManifest("in_transit")

SeedCheck(status, manifest) ==
    [state |-> "live", status |-> status, version |-> 1, manifest |-> manifest]

SeedComplianceCheck ==
       "CC-001" :> SeedCheck("pending", "TM-002")
    @@ "CC-002" :> SeedCheck("pass", "TM-002")
    @@ "CC-003" :> SeedCheck("fail", "TM-003")
=============================================================================
