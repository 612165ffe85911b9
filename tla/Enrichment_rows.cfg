SPECIFICATION Spec
CONSTANTS
    Districts <- MCDistricts
    Mandals <- MCMandals
    MinScore = 80
    Score <- NoScore
    Reports = {1, 2, 3, 4}
    Workers = {w1, w2}
    Said <- MCSaidFour
    Hazards = {"flood", "surge"}
    Proposals <- MCProposals
    Alike <- SameIncident
    Nearness <- Closer
    Window = 3
    MaxRuns = 3
    MaxPins = 1
    MaxErasures = 1
INVARIANTS
    LeaksAtMostOnce
    OneGroupPerIncident
    IncidentsStayApart
    ScoresCatchUp
PROPERTIES
    ErasedStaysErased
SYMMETRY Replicas
CHECK_DEADLOCK FALSE
