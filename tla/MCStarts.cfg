SPECIFICATION FairSpec
CONSTANTS
    r1 = r1
    r2 = r2
    Replicas = {r1, r2}
    TableOrder <- MCTableOrder
    SeedCodes <- FewSeedCodes
    OtherCodes <- FewOtherCodes
    DeletableCodes <- FewDeletableCodes
    Attempts = 2
    HasRedis = TRUE
    MaxFaults = 3
INVARIANTS SeedComesFirst ServingIsSeeded ReachedBeforeMigration IInv
PROPERTY ComesUpUnlessEmptied
CHECK_DEADLOCK FALSE
