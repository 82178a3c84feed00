\* Suites of up to three tests over three outputs, the empty one
\* included, and three exit codes.
SPECIFICATION Spec
CONSTANTS
    noOutput = noOutput
    oneOutput = oneOutput
    otherOutput = otherOutput
    MaxTests = 3
    Outputs = {noOutput, oneOutput, otherOutput}
    Empty = noOutput
    ExitCodes = {0, 1, 2}
INVARIANTS
    FirstFailureDecides
    VerdictGrounded
    ErrorReaches
    TailFromLastRun
    PreparedReleased
