SPECIFICATION Spec
CONSTANTS
    r1 = r1
    r2 = r2
    Runs = {r1, r2}
    idx = idx
    Objects = {idx}
    d1 = d1
    Defs = {d1}
    Absent = Absent
    None = None
    MinAge = 1
    MaxClock = 1
    MaxId = 2
    MaxRuns = 3
    MaxChanges = 1
SYMMETRY Symmetry
INVARIANTS
    ExactEventsHappened
    NoDeltaAcrossReset
PROPERTY FingerprintsStayFiled
CHECK_DEADLOCK FALSE
