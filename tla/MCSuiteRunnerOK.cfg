\* result.go:9 and 11 against a run that ends in an error.
SPECIFICATION Spec
CONSTANTS
    noOutput = noOutput
    oneOutput = oneOutput
    otherOutput = otherOutput
    MaxTests = 1
    Outputs = {noOutput, oneOutput}
    Empty = noOutput
    ExitCodes = {0, 1}
INVARIANT
    VerdictMeansFinished
