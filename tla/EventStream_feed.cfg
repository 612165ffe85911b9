\* Two reports, in either order of created_at or with the same one; a queue of two
\* slots overflows until a marker is itself the slot that is drained. Two polls are in
\* flight at once, and their pages are applied in either order.
CONSTANTS
    Reports = {1, 2}
    Times = {1, 2}
    Streams = {s1, s2}
    QueueMax = 2
    PageLimit = 2
    Polls = {p1, p2}
    MaxEvents = 5
    MaxBreaks = 1
SPECIFICATION Spec
INVARIANTS
    GapIsAnnounced
    PolledOnce
\* The bounds on events and breaks end a behaviour.
SYMMETRY Symmetry
CHECK_DEADLOCK FALSE
