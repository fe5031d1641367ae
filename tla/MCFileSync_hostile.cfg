SPECIFICATION Spec
CONSTANTS
    a = a
    b = b
    c = c
    Content <- TwoContents
    Size <- TwoSizes
    Nothing = Nothing
    Truncated = Truncated
    Special = Special
    Options = {"normal", "force", "upload-only", "no-remote-new", "dry-run"}
    Races = {"scanToTransfer", "downloadToIndex", "listToDownload"}
    Faults = {"abort", "httpError", "lostReply"}
    MaxFaults = 1
    MaxClock = 3
    MaxRev = 3
    Editable = {TRUE, FALSE}
    Blocks = TRUE
PROPERTIES
    OverwritesOnlyBase
    ForceNeverOverwrites
