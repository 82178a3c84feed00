\* One or two iterations of two scenarios, or no end, from good and bad settings;
\* reports of other producers that count, that do not and that cannot be read.
SPECIFICATION LiveSpec
CONSTANTS
    Scenarios <- TwoScenarios
    Configurations <- Starts
    Backlogs <- OldReports
    AttemptTimes = {0, 320}
    Endless = Endless
    Unset = Unset
    Garbage = Garbage
    NoId = NoId
    MaxSent = 4
    MaxRepeats = 1
INVARIANTS
    OkEarned
    NoFalseAlarm
    GivesUpInTime
PROPERTY
    SimulatorEnds
