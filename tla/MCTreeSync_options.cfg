SPECIFICATION Spec
CONSTANTS
    a = a
    b = b
    d = d
    e = e
    dx = dx
    ex = ex
    ds = ds
    dsx = dsx
    y = y
    Nothing = Nothing
    Truncated = Truncated
    Special = Special
    Root = Root
    Dir = Dir
    Content <- TwoContents
    Size <- TwoSizes
    Path <- ChainPath
    Folders <- ChainFolders
    Parent <- ChainParent
    ReadOnly = {d}
    Options = {"normal", "force", "upload-only", "no-remote-new"}
    Faults = {"httpError"}
    MaxFaults = 1
    MaxUser = 1
    MaxOthers = 1
PROPERTIES
    CreatesOnlyMissing
    RemoteKept
