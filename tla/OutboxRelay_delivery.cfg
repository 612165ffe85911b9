\* Two replicas, two rows, a lost transaction and two dead-letter requests; a chain
\* whose first dispatcher skips plain rows and whose last one appends rows.
CONSTANTS
    Rows = {1, 2}
    Relays = {p1, p2}
    Admins = {a1}
    Chain <- ChainAE
    MaxRetries = 1
    BatchSize = 2
    MaxCrashes = 1
    MaxRequests = 2
SYMMETRY SymmetricRelays
SPECIFICATION Spec
INVARIANTS
    NoSharedRow
    DuplicatesAreAccounted
PROPERTIES
    ImplementsDelivery
\* Rows is a bound: when every row is settled nothing is left to do.
CHECK_DEADLOCK FALSE
