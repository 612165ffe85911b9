\* Three rows that can die one by one, a threshold above one, one request.
CONSTANTS
    Rows = {1, 2, 3}
    Relays = {p1}
    Admins = {a1}
    Chain <- ChainC
    MaxRetries = 1
    BatchSize = 2
    MaxCrashes = 0
    MaxRequests = 1
    Threshold = 2
SPECIFICATION MSpec
PROPERTIES
    WarningMeansGrowth
    StandingQueueIsTracked
