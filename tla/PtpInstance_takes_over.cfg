CONSTANTS
    Ports = {1, 2}
    OwnClock = 2
    Qualities <- Changing
    MasterOnly = {2}
    P2P = {}
    Announces <- OwnNetwork
    Acceptable = {2, 3}
    TimeWindow = 1
    AnnounceRounds <- OneRound
    PathTrace = TRUE
    None = None
SPECIFICATION FairSpec
INVARIANT MasterOnlyNeverSlave
PROPERTY TakesOver
