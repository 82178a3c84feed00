\* Four records, two slots and a limit of three scripts: the third script waits
\* for a slot, the limit leaves the fourth record on the topic.
SPECIFICATION LiveSpec
CONSTANTS
    NumMessages = 4
    MaxScripts = 3
    MaxParallel = 2
    MaxCopies = 1
INVARIANTS
    Accounting
    BoundedParallel
    ScriptLimit
    Drained
    NoUseAfterClose
    NoSilentLoss
PROPERTIES
    ImplementsContract
    ShutdownCompletes
    SubmissionsServed
