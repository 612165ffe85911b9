\* Two runs of different rain and the recomputes after them, beside a launch of the script
\* and one fault: the second is ingested while the first is scored.
CONSTANTS
    ridge = ridge
    river = river
    Hexes <- RidgeAndRiver
    Fsi <- TheirFsi
    Rains = {100, 400}
    Multipliers = {20000}
    Workers = {w1}
    Script = script
    MaxRetries = 1
    MaxNow = 6
    MaxFaults = 1
    MaxRefreshes = 1
SPECIFICATION PFairSpec
INVARIANTS
    ForecastIsOneFetch
    ServedMapIsWhole
    LevelsAreOfTheForecast
PROPERTIES
    ForecastIsScored
\* The clock stops at its bound.
CHECK_DEADLOCK FALSE
