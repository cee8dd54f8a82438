CONSTANTS
    Noise = 0
    StepThreshold = 2
    EstimateThreshold = 2
    MaxSteer = 1
    MaxFreqOffset = 1
    Hysteresis = 1
    ScoreMax = 1
    DataLen = 1
    MaxElapsed = 1
    MaxPhase = 2
    MaxPending = 2
    MaxMeasurements = 3
    None = None
SPECIFICATION Spec
INVARIANTS WanderIsBehind PairedOnce FrequencyIsKnown
PROPERTY ImplementsServo
CHECK_DEADLOCK FALSE
