SPECIFICATION Spec
CONSTANTS
    w1 = w1
    w2 = w2
    Workers <- MCWorkers
    GeneratorCodes = {"WG-001"}
    CarrierCodes = {"CP-001"}
    ManifestCodes = {"TM-009"}
    CheckCodes = {}
    ExpiryDates = {5}
    Start = 4
    Horizon = 5
    GeneratorVersions = 2
    CarrierVersions = 2
    ManifestVersions = 3
    CheckVersions = 1
    VersionBound <- MCVersionBound
    SeedGenerators <- MCGenerators
    SeedCarriers <- MCCarriers
    SeedManifests <- MCManifests
    SeedChecks <- MCChecks
SYMMETRY WorkerSymmetry
INVARIANTS TypeOK QualifiedUnlessOvertaken
PROPERTIES ImplementsTransfers
