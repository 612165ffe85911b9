\* Two builds, which may fall into one second, a builder that dies, a worker that
\* boots and polls meanwhile.
CONSTANTS
    Kinds <- MCKinds
    PieceLetters = 4
    SoundsOf <- Sounds
    Spelt <- Ratio
    TopK = 3
    Corpora <- MCCorpora
    Fragments <- MCFragments
    Priors <- MCPriors
    MaxSeconds = 2
    MaxCrashes = 1
    MaxRestarts = 1
SPECIFICATION Spec
INVARIANTS
    ServedAsCurated
    ExactNameWins
    NoReloadIsMissed
\* After the last build nothing is left to do.
CHECK_DEADLOCK FALSE
