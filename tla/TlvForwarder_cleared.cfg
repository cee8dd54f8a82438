CONSTANTS
    a = a
    b = b
    Ports = {1}
    Ethernet = {1}
    Senders = {a}
    Sizes = {2}
    Margins = {5}
    PathTraceEnabled = TRUE
    Capacity = 2
    MaxTlvs = 2
    None = None
SPECIFICATION Spec
PROPERTY ClearedUnlessMaster
