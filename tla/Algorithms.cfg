CONSTANTS
    Candidates <- MCCandidates
    MaxCandidates = 3
    SubUnits = 4
    CorrectionUnit = 2
    NanosPerSecond = 3
    Seconds = 8
    Scale = 2
SPECIFICATION ASpec
INVARIANTS
    BestIsBest
    ReadAsSent
    RelaysAnnounce
    ValidatedIsWalked
    FrequencyKeepsTime
    OffsetsAreExact
    DelaysAreClose
CHECK_DEADLOCK FALSE
