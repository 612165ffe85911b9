\* Two operators whose requests race each other and two fair replicas; the batch
\* limit leaves a row waiting.
CONSTANTS
    Rows = {1, 2}
    Relays = {p1, p2}
    Admins = {a1, a2}
    Chain <- ChainC
    MaxRetries = 2
    BatchSize = 1
    MaxCrashes = 0
    MaxRequests = 2
SPECIFICATION FairSpec
PROPERTIES
    SettledRowsStay
    EverySubmissionSettles
\* Rows is a bound: when every row is settled nothing is left to do.
CHECK_DEADLOCK FALSE
