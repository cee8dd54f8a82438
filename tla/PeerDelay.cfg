CONSTANTS
    a = a
    b = b
    Peers = {a, b}
    SequenceIds = 2
    MaxInFlight = 2
    Survivors = {a}
    None = None
SPECIFICATION FairSpec
INVARIANT OneResponder
PROPERTY Recovers
