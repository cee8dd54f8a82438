CONSTANTS
    N = 3
    None = None
    TimerCapacity = 3
    PacketIdCapacity = 2
    Tries = 1
SPECIFICATION ApplicationsSpec
INVARIANT StopTheWorld
INVARIANT StopsOnOrder
INVARIANT RoomInChannels
INVARIANT DutiesAreScheduled
PROPERTY ImplementsRounds
PROPERTY DaemonKeepsRunning
CHECK_DEADLOCK FALSE
