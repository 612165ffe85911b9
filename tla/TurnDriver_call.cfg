\* Two handlers and a turn posted twice; a handler dies, an operation fails, Redis
\* loses the call, a request is retried; the caller may fall silent at some point.
CONSTANTS
    Vocabulary = {"yes", "oil", "severe"}
    Keys = {}
    MaxAttempts = 1
    Handlers = {h1, h2}
    ReportIds = {i1, i2}
    Taken = {i1}
    MaxRetries = 1
    MaxCrashes = 1
    MaxFaults = 1
    MaxExpiries = 1
SPECIFICATION FairSpec
INVARIANTS
    SpokenRefIsStored
    ReportsAreComplete
PROPERTIES
    SilentCallerIsLetGo
\* A call that is over stays over.
CHECK_DEADLOCK FALSE
