\* A script of seven answers, eager events, keys, hang-ups and the time limit.
CONSTANTS
    Vocabulary = {"yes", "restart", "storm", "oil", "severe", "knee", "hurt"}
    Keys = {"1"}
    MaxAttempts = 2
    MaxSaid = 8
    MaxWire = 1
SPECIFICATION FairSpec
INVARIANTS
    DangerEndsTheQuestions
    DeathCostsOneAnswer
PROPERTIES
    FinalWordsCount
    CallEnds
\* A call that is over stays over.
CHECK_DEADLOCK FALSE
