SPECIFICATION FairSpec
CONSTANTS
    writer = writer
    reader = reader
    app = app
    billing = billing
    Members <- MCMembers
    Databases <- MCDatabases
    Home = app
    NoMember = NoMember
    None = None
    ClusterWide = {"slot"}
    Reports <- MCReports
    Parallels = {0, 2}
INVARIANTS
    NeverMislabeled
    OutputIsExact
    PartialCoverageFails
PROPERTY RunEnds
CHECK_DEADLOCK FALSE
