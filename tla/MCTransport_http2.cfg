SPECIFICATION MCSpec
CONSTANTS
    Kinds <- AllKinds
    Conditional <- OnlyUpdate
    Protocols = {"HTTP/1.1", "HTTP/2"}
    Parts = 2
    Answer = 2
    Errors = {1, 2}
    Cap = 1
    Opening = Opening
    Closing = Closing
    Zero = Zero
    Old = Old
    New = New
    HeadSize = 2
    TailSize = 1
    MaxSize = 0
    MaxChanges = 0
    Asks = {1, 2, 4}
    Offsets = {0, 1, 2, 3, 9}
    MaxCalls = 1
    MaxTasks = 1
INVARIANTS
    ErrorsKeptOut
