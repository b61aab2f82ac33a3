SPECIFICATION FindingsSpec
CONSTANT MaxUnusual = 2
INVARIANTS
    CriticalSurvivesTuning
    ReportIsConsistent
PROPERTIES
    AbsenceIsQuiet
    WorseIsNeverQuieter
