SPECIFICATION Spec
CONSTANTS
    h1 = h1
    h2 = h2
    Handles = {h1, h2}
    a = a
    b = b
    Fps = {a, b}
    NoFp = NoFp
    KeepAll = 1
    KeepRollup = 3
    Hour = 2
    RowPages = 2
    Cap = 4
    MaxClock = 4
    MaxId = 4
    MaxOther = 1
SYMMETRY Symmetry
PROPERTIES
    RetentionPolicy
    SoleEvictionKeepsNewest
    OneSizedPassSuffices
CHECK_DEADLOCK FALSE
