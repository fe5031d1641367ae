SPECIFICATION EndlessSpec
CONSTANTS
    timer = timer
    changes = changes
    Nobody = Nobody
    Callers <- TwoCallers
    Changes = changes
    MaxClock = 4
INVARIANTS
    TypeOK
    HeardIsSynced
    OverlapsOnlyAfterRemoval
PROPERTIES
    EveryCallEnds
