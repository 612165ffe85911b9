------------------------------ MODULE RainFeeds ------------------------------
(***************************************************************************)
(* What the backend makes of its upstreams: the parsers of                 *)
(* apps/ingest/parsers (forecast, stations, radar), the tasks that store   *)
(* stations and frames, and the radar view, which may refill its table     *)
(* itself.  A parser that raises yields Failed.  Times are hours, rain is  *)
(* in tenths of a millimetre, and Null is a reading that is missing.       *)
(***************************************************************************)
EXTENDS Integers, Sequences, FiniteSets
LOCAL INSTANCE FiniteSetsExt
LOCAL INSTANCE SequencesExt

Null == -1
Failed == [failed |-> TRUE]

LOCAL Total(s) == FoldLeft(LAMBDA a, v : IF v = Null THEN a ELSE a + v, 0, s)

-----------------------------------------------------------------------------
(* parsers/ecmwf.py                                                        *)

\* Readings of one sample: hours[i] names the i-th hour, rain[i] its rain.
SumFrom(hours, rain, run, n) ==
    LET start == {i \in DOMAIN hours : hours[i] >= run} IN
    IF start = {} THEN 0
    ELSE Total(SubSeq(rain, Min(start), Min({Min(start) + n - 1, Len(rain)})))

\* Chunks of the request; the answers are strung together in order.
OpenMeteoBatch(lats, lngs, limit, answer) ==
    IF Len(lats) # Len(lngs) THEN Failed
    ELSE FoldLeft(LAMBDA done, i : done \o answer[SubSeq([j \in DOMAIN lats |-> <<lats[j], lngs[j]>>],
                                                           i * limit + 1, Min({(i + 1) * limit, Len(lats)}))],
                  <<>>, [i \in 1..((Len(lats) + limit - 1) \div limit) |-> i - 1])

\* Mutant: the box is taken to start at zero.
SampleIndex_FromZero(x, low, high, n) == Min({n - 1, Max({0, (x * n) \div high})})

\* The index of the sample a coordinate is given, of n samples spread from low to high.
SampleIndex(x, low, high, n) == Min({n - 1, Max({0, ((x - low) * n) \div (high - low)})})

\* `cells' are <<lat, lng>>; `samples' the answers, row after row, each <<hours, rain>>.
RealForecast(cells, samples, nx, ny, run) ==
    LET low(i) == Min({cells[c][i] : c \in DOMAIN cells})
        high(i) == Max({cells[c][i] : c \in DOMAIN cells} \cup {low(i) + 1})   \* no empty box
        sample(c) == samples[SampleIndex(cells[c][1], low(1), high(1), ny) * nx
                             + SampleIndex(cells[c][2], low(2), high(2), nx) + 1]
        sum(c, n) == SumFrom(sample(c)[1], sample(c)[2], run, n)
    IN  CASE cells = <<>> -> <<>>
          [] cells # <<>> /\ (Len(samples) # nx * ny
                               \/ \E i \in DOMAIN samples : <<>> \in {samples[i][1], samples[i][2]}) -> Failed
          [] OTHER -> [c \in DOMAIN cells |->
                        [valid |-> run + 1, r1 |-> sum(c, 1), r3 |-> sum(c, 3), r24 |-> sum(c, 24)]]

-----------------------------------------------------------------------------
(* parsers/aws.py                                                          *)

\* The last reading is the hour still running; missing ones are dropped, not zero.
Observation(rain) ==
    LET completed == SelectSeq(Front(rain), LAMBDA v : v # Null)
        last(n) == Total(SubSeq(completed, Max({1, Len(completed) - n + 1}), Len(completed)))
    IN  IF rain = <<>> \/ completed = <<>> THEN Failed
        ELSE [r1 |-> last(1), r3 |-> last(3), r24 |-> last(24)]

\* One answer per station, in the order of the request, or nothing of it is used.
RealObservations(stations, results) ==
    IF Len(results) # Len(stations) \/ \E i \in DOMAIN results : Observation(results[i]) = Failed
    THEN Failed
    ELSE [i \in DOMAIN stations |-> [station |-> stations[i], obs |-> Observation(results[i])]]

\* ingest_aws: one row per station and minute, the first to come stays.
IngestAws(table, records, ts) ==
    table \cup {[station |-> r.station, ts |-> ts, obs |-> r.obs] :
                    r \in {x \in ToSet(records) : ~ \E o \in table : o.station = x.station /\ o.ts = ts}}

-----------------------------------------------------------------------------
(* parsers/radar.py, ingest_radar and ingest/views.py                      *)

DbzAnomalyMax == 75
DbzAnomalyMin == 20
DefaultDbz == <<0, 50>>

\* `zoom' says whether the tile template has its {z}.
ValidateGeoref(frame) == frame.path # "" /\ frame.zoom
DetectAnomaly(frame) == frame.dbz[2] > DbzAnomalyMax \/ frame.dbz[1] > DbzAnomalyMin

\* The newest past frame; the time is the task's, not the frame's.
RainviewerFrame(past, ts) ==
    IF past = <<>> \/ Last(past).path = "" THEN Failed
    ELSE [ts |-> ts, path |-> Last(past).path, zoom |-> TRUE, dbz |-> DefaultDbz]

Checked(frame) ==
    IF frame = Failed THEN Failed
    ELSE [ts |-> frame.ts, path |-> frame.path, georef |-> ValidateGeoref(frame), anomaly |-> DetectAnomaly(frame)]

IngestRadar(frames, frame) ==
    IF frame = Failed \/ \E f \in frames : f.ts = frame.ts THEN frames ELSE frames \cup {frame}

\* The table is older than an hour: all of it is replaced by what the upstream holds,
\* also by nothing; an upstream that fails leaves it.
Refreshed(frames, upstream, now) ==
    IF (\A f \in frames : now - f.ts > 60) /\ upstream # Failed
    THEN {[ts |-> u.ts, path |-> u.path, georef |-> TRUE, anomaly |-> FALSE] : u \in ToSet(upstream)}
    ELSE frames

MaxFrames == 48

RadarFrames(frames, upstream, now, since) ==
    LET kept == {f \in Refreshed(frames, upstream, now) : f.georef /\ f.ts >= since}
        newest == SetToSortSeq(kept, LAMBDA a, b : a.ts > b.ts)
    IN  SubSeq(newest, 1, Min({MaxFrames, Len(newest)}))

-----------------------------------------------------------------------------
(* What the feeds owe.                                                     *)

\* A sum never exceeds the sum over a longer window, whatever is missing or late.
Nested(r) == r.r1 <= r.r3 /\ r.r3 <= r.r24

\* The sample a cell is given lies at most one step beyond the nearest one, in either
\* direction of either axis: 2 * distance in steps <= 3, counted in span * (n - 1).
NearEnough(x, low, high, n) ==
    LET off == (x - low) * (n - 1) - SampleIndex(x, low, high, n) * (high - low)
    IN  2 * Max({off, -off}) <= 3 * (high - low)
=============================================================================
