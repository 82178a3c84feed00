\* Six-bit integers and three ticks to the millisecond: 10 is the greatest time
\* limit that fits, 11 wraps to a negative one, 22 to a small one.
SPECIFICATION Spec
CONSTANTS
    MaxInt = 31
    TicksPerMs = 3
    Settings <- FewSettings
    Fields <- FewFields
INVARIANTS
    NoNegativeLimit
    LimitNotLifted
    LimitsOfOwnScript
