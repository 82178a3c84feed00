\* Every script, limit and input, each call failing or not, a signal at any
\* time, under a daemon that answers and a clock that runs.
SPECIFICATION LiveSpec
INVARIANTS
    ContainersReleased
    VerdictTruthful
    LateFinishKept
PROPERTIES
    ImplementsContract
    LimitedRunEnds
    CancelEndsRun
