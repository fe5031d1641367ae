SPECIFICATION FairSpec
CONSTANTS
    a = a
    b = b
    c = c
    Content <- ThreeContents
    Size <- ThreeSizes
    Nothing = Nothing
    Truncated = Truncated
    Special = Special
    Options = {"normal"}
    Races = {"scanToTransfer"}
    Faults = {"abort", "httpError", "lostReply"}
    MaxFaults = 1
    MaxClock = 3
    MaxRev = 3
    Editable = {TRUE}
    Blocks = FALSE
INVARIANTS
    TypeOK
    CacheInv
PROPERTIES
    VerdictSound
    TrashesOnlyBase
    PartialReplacesNothing
    Converges
