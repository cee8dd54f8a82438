CONSTANTS
    a = a
    b = b
    Masters = {a, b}
    MaxSyncs = 2
    MaxRequests = 2
    MaxInFlight = 2
    Duplication = TRUE
    None = None
SPECIFICATION Spec
INVARIANT TypeOK
INVARIANT OneExchange
INVARIANT OneMaster
INVARIANT CompleteIsMeasured
SYMMETRY Permuted
