CONSTANTS
    a = a
    b = b
    c = c
    hw1 = hw1
    hw2 = hw2
    m1 = m1
    m2 = m2
    Ports = {a, b, c}
    Masters = {m1, m2}
    System = System
    ClockOf <- TwoHardwareClocks
    Frequencies = {0, 1}
    MaxBmca = 2
    None = None
SPECIFICATION Spec
INVARIANTS OnlySlavesSteer OneSteerer
PROPERTY FrequenciesAgree
