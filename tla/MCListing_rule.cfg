SPECIFICATION MCSpec
CONSTANTS
    x = x
    y = y
    a = a
    b = b
    c = c
    Content <- AllOf
    Size <- OneSize
    Nothing = Nothing
    Truncated = Truncated
    Special = Special
    Names <- TwoNames
    ContentOf <- Apart
    Inside = x
    Kinds = {"file"}
    Options = {"normal"}
    Again = FALSE
    MaxUser = 2
    MaxOthers = 0
    MaxRules = 2
    Plain = {f, g}
    Any = Any
    AnyPath = AnyPath
    Empty = Empty
    MaxLength = 3
    MaxFaults = 1
    Seconds = {0, 1}
    Fractions <- FewDigits
    Garbled = Garbled
PROPERTIES
    RuleChangeTrashesNothing
