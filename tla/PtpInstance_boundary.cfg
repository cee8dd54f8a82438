CONSTANTS
    Ports = {1, 2}
    OwnClock = 2
    Qualities <- HighOnly
    MasterOnly = {}
    P2P = {1}
    Announces <- Unwanted
    Acceptable = {1, 3}
    TimeWindow = 1
    AnnounceRounds <- OneRound
    PathTrace = FALSE
    None = None
SPECIFICATION Spec
INVARIANT TypeOK
INVARIANT AtMostOneSlave
INVARIANT SlaveFollowsParent
INVARIANT TimersRun
INVARIANT ParentIsAcceptable
PROPERTY SlaveIsHeard
PROPERTY SlaveOnlyNoMaster
