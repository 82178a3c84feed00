\* Two runners, one of which is started again; one needless rebalance or one
\* expulsion; two records.
SPECIFICATION LiveSpec
CONSTANTS
    r1 = r1
    r2 = r2
    p1 = p1
    Runners = {r1, r2}
    Partitions = {p1}
    NumRecords = 2
    Logs <- TwoLogs
    MaxParallel = 1
    MaxLaunches = 3
    MaxExpelled = 1
    NoRunner = NoRunner
    NoRecord = NoRecord
INVARIANTS
    HandedOnce
    LossExplained
PROPERTY
    EverythingConsumed
