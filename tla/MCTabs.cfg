SPECIFICATION FairSpec
CONSTANTS
    b1 = b1
    b2 = b2
    t1 = t1
    t2 = t2
    Tabs = {b1, b2}
    Users = {"operator", "reviewer"}
    RoleOf <- MCRoleOf
    Tokens = {t1, t2}
    Operations = {"transition permit"}
    None = None
INVARIANTS TypeOK Whole SignedOutStaysOut OfferedIsAllowed
PROPERTY LoadingEnds
