SPECIFICATION Spec
CONSTANTS
    c1 = c1
    c2 = c2
    Ids = {"TM-001", "TM-002"}
    FirstRows <- OneManifest
    NewStatus = "draft"
    Accepted <- TransferManifestTransitions
    Offered <- OfferedForManifests
    Guarded = {"submitted", "in_transit"}
    Searches = {"", "TM-001"}
    Matches <- MCMatches
    PageSize = 1
    ReloadSize = 2
    Calls = {c1, c2}
    FirstVersions = 3
    SecondVersions = 1
    MaxVersion <- MCMaxVersion
    None = None
SYMMETRY Permutation
INVARIANTS IInv CopiesAreTrue BusyEnds CurrentQueryShown
PROPERTIES DoesWhatItShows OfferedIsAccepted
