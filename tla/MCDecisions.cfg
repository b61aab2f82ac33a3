SPECIFICATION Spec
CONSTANTS
    KnownIDs <- MCKnownIDs
    GlobMatches <- MCGlobMatches
    BadGlobs <- MCBadGlobs
    SuppressionUnusedAfter = 2
    Levels <- MCLevels
    Aggregates <- MCAggregates
    SchemaScoped <- MCSchemaScoped
    Files <- MCFiles
    Databases <- MCDatabases
    Invocations <- MCInvocations
    MaxChanges = 2
    MaxUses = 3
INVARIANTS
    MutingIsExact
    ExitIsExact
    ViewsAgree
    UnusedIsDead
CHECK_DEADLOCK FALSE
