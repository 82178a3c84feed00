\* Two runs without repeated reports: a report of the first run is enough.
SPECIFICATION Spec
CONSTANTS
    Scenarios = {"python-ok"}
    NumRuns = 2
    Replicas = 2
    MaxSent = 2
    MaxRepeats = 0
    EarlierRuns = 0
    EarlierSent = 0
INVARIANT
    OnlyThisRun
