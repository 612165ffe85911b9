----------------------------- MODULE DlqMonitor -----------------------------
(***************************************************************************)
(* The dead-letter depth monitor (persistence/dlq_monitor.py) beside the   *)
(* relay whose table it samples. Rows die, are retried and are purged      *)
(* between two scans; the monitor sees only the count at each scan.        *)
(***************************************************************************)
EXTENDS OutboxRelay

CONSTANT Threshold  \* alert_threshold (1 in the code)

ASSUME ThresholdAssumption == Threshold \in Nat \ {0}

VARIABLES
    peak,     \* _peak_depth
    warned,   \* whether the last scan logged depth_exceeded
    last,     \* the depth at the previous scan of this process (history)
    tick      \* flips at every scan, so that no scan is a stuttering step

mvars == <<row, relay, admin, heard, spoiled, crashes, requests,
           peak, warned, last, tick>>

Depth == Cardinality({r \in Rows : InDlq(row[r])})

MInit ==
    /\ Init
    /\ peak = 0 /\ warned = FALSE
    /\ last = 0 /\ tick = 0

\* Mutant: the peak is not compared.
Exceeds_Threshold == Depth >= Threshold

\* The condition of the warning: at or above the threshold, above the peak.
Exceeds == Depth >= Threshold /\ Depth > peak

\* Mutant: the peak never comes down.
Scan_UpOnly ==
    /\ warned' = Exceeds
    /\ peak' = IF Exceeds THEN Depth ELSE peak
    /\ last' = Depth
    /\ tick' = 1 - tick
    /\ UNCHANGED vars

\* One tick of the monitor: count, compare with the peak, move the peak up
\* with a warning or down without one.
Scan ==
    /\ warned' = Exceeds
    /\ peak' = IF Exceeds \/ Depth < peak THEN Depth ELSE peak
    /\ last' = Depth
    /\ tick' = 1 - tick
    /\ UNCHANGED vars

\* The monitor lives in the process of the relay and forgets with it.
Restart ==
    /\ peak' = 0 /\ last' = 0 /\ warned' = FALSE
    /\ UNCHANGED <<vars, tick>>

\* The relay, the callers and the operators go on meanwhile.
Background ==
    /\ Next
    /\ UNCHANGED <<peak, warned, last, tick>>

MNext == Scan \/ Restart \/ Background

\* The loop of run() scans every interval, whatever a scan raised.
MSpec == MInit /\ [][MNext]_mvars /\ WF_mvars(Scan)

MTypeOK ==
    /\ TypeOK
    /\ peak \in 0 .. Cardinality(Rows) /\ last \in 0 .. Cardinality(Rows)
    /\ warned \in BOOLEAN /\ tick \in {0, 1}

\* A warning is about growth since the previous scan of the process: operators
\* are not paged again at each tick for rows that they have been told of.
WarningMeansGrowth == [][tick' # tick /\ warned' => Depth > last]_mvars

\* A queue that stays at or above the threshold is known at its true depth
\* again and again, so that the next row to die there is compared with it.
StandingQueueIsTracked == <>[](Depth >= Threshold) => []<>(peak = Depth)
=============================================================================
