SPECIFICATION Spec
CONSTANTS
    w1 = w1
    w2 = w2
    Workers = {w1}
    GeneratorCodes = {"WG-001"}
    CarrierCodes = {"CP-002"}
    ManifestCodes = {"TM-002", "TM-009"}
    CheckCodes = {"CC-001"}
    ExpiryDates = {4, 5}
    Start = 3
    Horizon = 3
    GeneratorVersions = 1
    CarrierVersions = 1
    ManifestVersions = 2
    CheckVersions = 3
    VersionBound <- MCVersionBound
    SeedGenerators <- MCGenerators
    SeedCarriers <- MCCarriers
    SeedManifests <- MCManifests
    SeedChecks <- MCChecks
INVARIANT FailedCanEscalate
