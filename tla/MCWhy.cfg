SPECIFICATION WhySpec
CONSTANTS
    victim = victim
    reader = reader
    h1 = h1
    h2 = h2
    orders = orders
    Sessions = {victim, reader}
    Holders = {h1, h2}
    Tables = {orders}
    Loads <- MCLoads
    Starts <- MCStarts
    Polls <- MCPolls
    Sightings <- MCSightings
    Hz = 20
    Seconds = 15
    Stretch = 5
    MaxSnaps = 3
    WhyWindow = 5
    From = 2
    Ends = 1
    Hour = 2
    KeepMinutes = 2
    KeepHours = 4
    MaxTime = 6
    MaxIdle = 1
    MaxWork = 5
    StudyWork = 4
INVARIANTS
    SlowdownIsReal
    CauseHoldsAtOnset
    WaitsConserved
    BaselinePredatesStudy
    BlameIsEarned
CHECK_DEADLOCK FALSE
