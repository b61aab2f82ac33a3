SPECIFICATION FairSpec
CONSTANTS
    tables = tables
    locks = locks
    wal = wal
    Gauges = {tables, locks}
    Counters = {wal}
    Schema = {tables}
    Limit = 2
    MaxPolls = 2
    MaxApps = 1
    MaxResets = 1
INVARIANTS
    Contained
    RateIsHonest
PROPERTY RunReturns
CHECK_DEADLOCK FALSE
