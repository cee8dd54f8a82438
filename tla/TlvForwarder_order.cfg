CONSTANTS
    a = a
    b = b
    Ports = {1, 2}
    Ethernet = {2}
    Senders = {a, b}
    Sizes = {2, 3}
    Margins = {4}
    PathTraceEnabled = TRUE
    Capacity = 2
    MaxTlvs = 4
    None = None
SPECIFICATION Spec
INVARIANT InOrderOnce
CHECK_DEADLOCK FALSE
