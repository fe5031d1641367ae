SPECIFICATION MCFairSpec
CONSTANTS
    x = x
    y = y
    a = a
    b = b
    c = c
    Content <- AllOf
    Size <- OneSize
    Nothing = Nothing
    Truncated = Truncated
    Special = Special
    Names <- TwoNames
    ContentOf <- Apart
    Inside = x
    Kinds = {"file", "document"}
    Options = {"normal", "dir"}
    Again = TRUE
    MaxUser = 1
    MaxOthers = 2
    MaxRules = 1
    Plain = {f, g}
    Any = Any
    AnyPath = AnyPath
    Empty = Empty
    MaxLength = 3
    MaxFaults = 1
    Seconds = {0, 1}
    Fractions <- FewDigits
    Garbled = Garbled
INVARIANTS
    RulesMeant
    IndexAgrees
    EntriesFound
    DatesMeant
PROPERTIES
    IgnoredUntouched
    ActsOnMissing
    TrashesOnlyKnown
    Converges
