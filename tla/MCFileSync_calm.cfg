SPECIFICATION Spec
CONSTANTS
    a = a
    b = b
    c = c
    Content <- ThreeContents
    Size <- ThreeSizes
    Nothing = Nothing
    Truncated = Truncated
    Special = Special
    Options = {"normal"}
    Races = {}
    Faults = {"httpError"}
    MaxFaults = 1
    MaxClock = 4
    MaxRev = 4
    Editable = {TRUE}
    Blocks = FALSE
PROPERTIES
    UploadsOnlyLocalChanges
    KeepsTwoCopies
