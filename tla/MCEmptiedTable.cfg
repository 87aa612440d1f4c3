SPECIFICATION FairSpec
CONSTANTS
    r1 = r1
    Replicas = {r1}
    TableOrder <- MCTableOrder
    SeedCodes <- FewSeedCodes
    OtherCodes <- FewOtherCodes
    DeletableCodes <- FewDeletableCodes
    Attempts = 1
    HasRedis = TRUE
    MaxFaults = 1
PROPERTY ComesUp
CHECK_DEADLOCK FALSE
