SPECIFICATION Spec
CONSTANTS
    k1 = k1
    k2 = k2
    d1 = d1
    d2 = d2
    w1 = w1
    w2 = w2
    Codes = {k1, k2}
    Contents <- MCContents
    Workers <- MCWorkers
    Statuses <- ManifestStatuses
    Transitions <- TransferManifestTransitions
    InitialStatus = "draft"
    Editable = {"draft"}
    Deletable = {"draft"}
    Seed <- ManifestSeed
    MaxVersion = 4
    Lookahead = 0
SYMMETRY WorkerSymmetry
INVARIANTS TypeOK FreshSnapshot TrailCountsWrites TrailTellsStatus IInv
PROPERTIES LegalMoves FrozenContent ImplementsAuditedRecord
