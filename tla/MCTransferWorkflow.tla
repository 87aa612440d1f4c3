-------------------------- MODULE MCTransferWorkflow --------------------------
(***************************************************************************)
(* Constant values for checking TransferWorkflow: seeded records, and      *)
(* codes nothing was created under yet.                                    *)
(***************************************************************************)
EXTENDS TransferWorkflow, SeedData

CONSTANTS w1, w2, GeneratorVersions, CarrierVersions, ManifestVersions, CheckVersions

MCWorkers == {w1, w2}
MCVersionBound == [generators |-> GeneratorVersions, carriers |-> CarrierVersions,
                   manifests |-> ManifestVersions, checks |-> CheckVersions]

\* The part of a seeded table under the codes of the model; other codes are free.
Table(codes, seed, blank) ==
    [k \in codes |-> IF k \in DOMAIN seed THEN seed[k]
                     ELSE [blank EXCEPT !.state = "absent", !.version = 0]]

\* Dates after the last moment of the clock are alike.
Capped(table) ==
    [k \in DOMAIN table |-> [table[k] EXCEPT !.expires = IF @ > Horizon THEN Horizon + 1 ELSE @]]

AnyOf(codes) == CHOOSE k \in codes : TRUE

MCGenerators == Capped(Table(GeneratorCodes, SeedWasteGenerator, SeedPermit("active", 5)))
MCCarriers == Capped(Table(CarrierCodes, SeedCarrierProfile, SeedPermit("pending", 5)))
MCManifests == Table(ManifestCodes, SeedTransferManifest,
                     [SeedManifest("draft") EXCEPT !.generator = AnyOf(GeneratorCodes),
                                                   !.carrier = AnyOf(CarrierCodes)])
MCChecks == Table(CheckCodes, SeedComplianceCheck, SeedCheck("pending", AnyOf(ManifestCodes)))

\* Workers are interchangeable; the properties checked with it are safety properties.
WorkerSymmetry == Permutations(MCWorkers)
=============================================================================
