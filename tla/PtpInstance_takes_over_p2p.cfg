CONSTANTS
    Ports = {1}
    OwnClock = 2
    Qualities <- HighOnly
    MasterOnly = {}
    P2P = {1}
    Announces <- OneMaster
    Acceptable = {1}
    TimeWindow = 2
    AnnounceRounds <- OneRound
    PathTrace = FALSE
    None = None
SPECIFICATION FairSpec
PROPERTY TakesOver
