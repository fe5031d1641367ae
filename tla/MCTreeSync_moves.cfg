SPECIFICATION FairSpec
CONSTANTS
    a = a
    b = b
    d = d
    e = e
    dx = dx
    ex = ex
    ds = ds
    dsx = dsx
    y = y
    Nothing = Nothing
    Truncated = Truncated
    Special = Special
    Root = Root
    Dir = Dir
    Content <- TwoContents
    Size <- TwoSizes
    Path <- ChainPath
    Folders <- ChainFolders
    Parent <- ChainParent
    ReadOnly = {}
    Options = {"normal"}
    Faults = {"abort", "httpError"}
    MaxFaults = 1
    MaxUser = 1
    MaxOthers = 1
INVARIANTS
    TypeOK
    FoldersFirst
PROPERTIES
    TrashesNoLocalWork
    Converges
