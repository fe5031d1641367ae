SPECIFICATION MCSpec
CONSTANTS
    timer = timer
    user = user
    own = own
    BuiltIn = BuiltIn
    Nothing = Nothing
    Runs <- TwoRuns
    Apps <- TwoApps
    Peers = {"browser", "stranger"}
    MaxTokens = 2
    MaxCrashes = 1
    a = a
    spoilt = spoilt
    Strings = {s}
    MaxOps = 2
    MaxText = 6
    XmlNames = {1, 2}
    Nodes = {v, w}
    Cells = {1, 2, 3, 4}
    MaxAdds = 2
SYMMETRY Alike
INVARIANTS
    TypeOK
    PairKept
    TokenKept
    ReadsWhatIsMeant
    NodesCounted
