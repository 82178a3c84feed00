\* Three scripts over two languages and one without a module: two can meet at
\* the same once while a third passes at another or comes late.
SPECIFICATION LiveSpec
CONSTANTS
    python = python
    go = go
    s1 = s1
    s2 = s2
    s3 = s3
    Scripts = {s1, s2, s3}
    Languages = {python, go}
    NoLanguage = NoLanguage
INVARIANTS
    PulledOnce
    PreparedFromOwnPulls
    SameAnswer
PROPERTY
    CancelEndsPull
