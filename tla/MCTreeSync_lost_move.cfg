SPECIFICATION Spec
CONSTANTS
    a = a
    b = b
    d = d
    e = e
    dx = dx
    ex = ex
    ds = ds
    dsx = dsx
    y = y
    Nothing = Nothing
    Truncated = Truncated
    Special = Special
    Root = Root
    Dir = Dir
    Content <- OneContent
    Size <- OneSize
    Path <- PairPath
    Folders <- PairFolders
    Parent <- PairParent
    ReadOnly = {}
    Options = {"normal"}
    Faults = {}
    MaxFaults = 0
    MaxUser = 2
    MaxOthers = 0
PROPERTIES
    LocalKept
