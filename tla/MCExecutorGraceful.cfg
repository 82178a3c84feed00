\* README.md:296 against a signal that finds a script running.
SPECIFICATION LiveSpec
CONSTANTS
    NumMessages = 2
    MaxScripts = 0
    MaxParallel = 1
    MaxCopies = 1
PROPERTY
    GracefulShutdown
