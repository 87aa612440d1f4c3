SPECIFICATION Spec
CONSTANTS
    r1 = r1
    r2 = r2
    k1 = k1
    k2 = k2
    k3 = k3
    s1 = s1
    s2 = s2
    Redis = Redis
    Replicas = {r1}
    HasRedis = TRUE
    Keys = {k1, k2, k3}
    Slots = {s1, s2}
    Limit = 2
    Capacity = 2
    MaxRequests = 4
    MaxLost = 1
    MaxLife = 1
    MaxWindow = 2
SYMMETRY Permutation
INVARIANTS IInv OnlyLatestOverCapacity
PROPERTIES ImplementsWindowQuota RefusedOnlyWhenSpent
CHECK_DEADLOCK FALSE
