\* Two dispatches, one decision on a report, one recompute; one fault.
CONSTANTS
    bank = bank
    ridge = ridge
    asha = asha
    ravi = ravi
    r1 = r1
    Hexes <- BankAndRidge
    Ring <- Neighbours
    Forecasts <- HighOrSevere
    Users <- Residents
    Places <- Homes
    Reports = {r1}
    NoReport = NoReport
    HexOf <- FromTheBank
    DepthOf <- KneeDeep
    Workers = {w1, w2}
    MaxRetries = 1
    MaxNow = 2
    MaxScores = 1
    MaxActions = 1
    MaxFaults = 1
SPECIFICATION Spec
INVARIANTS
    EveryUserHasAnOutcome
    OnePushEach
PROPERTIES
    DangerIsAnnounced
    VerifiedReachesNeighbours
\* The clock stops at its bound.
CHECK_DEADLOCK FALSE
