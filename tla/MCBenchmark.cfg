\* Two runs with two submissions between them: the second run can meet the first
\* one's, or an earlier invocation's, late and repeated reports under the ids it
\* uses again, or under others.
SPECIFICATION LiveSpec
CONSTANTS
    Scenarios = {"python-ok"}
    NumRuns = 2
    Replicas = 2
    MaxSent = 2
    MaxRepeats = 1
    EarlierRuns = 2
    EarlierSent = 1
INVARIANTS
    Ledger
    CompleteFrame
    OwnReportsOnceDrained
    NoRunnerLeft
PROPERTIES
    CompletesAtOnce
    HarnessEnds
