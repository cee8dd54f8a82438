CONSTANTS
    Masters = {1, 2}
    Rank <- ByNumber
    OwnClock = {}
    Distant = {}
    MaxForeignMasters = 2
    MaxMessages = 2
    Threshold = 2
    CutoffAge = 3
    SequenceIds = 5
    MaxInFlight = 1
    Duplication = TRUE
    None = None
SPECIFICATION Spec
INVARIANT TypeOK
INVARIANT NewestLast
INVARIANT SilentIsForgotten
PROPERTY ErbestIsKept
