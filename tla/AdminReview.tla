----------------------------- MODULE AdminReview -----------------------------
(***************************************************************************)
(* The staff's reading of the data, apps/adminapi: forecasts against       *)
(* stations (verify.py), reports against risk (validate.py), the           *)
(* calibration console, the moderation queue, exports, analytics and feed  *)
(* health.  Rows are sets of records, times are minutes, a window is given *)
(* by its ends, Null is a missing value and NoRow a row that is not there. *)
(* Fractions are in thousandths.                                           *)
(***************************************************************************)
EXTENDS Integers, Sequences, FiniteSets
LOCAL INSTANCE FiniteSetsExt
LOCAL INSTANCE SequencesExt
LOCAL INSTANCE RiskEngine

Null == -1
NoRow == [none |-> TRUE]
Hour == 60

LOCAL First(s, n) == SubSeq(s, 1, Min({n, Len(s)}))
LOCAL SumOf(f(_), S) == FoldSet(LAMBDA x, a : a + f(x), 0, S)
LOCAL Count(S, P(_)) == Cardinality({x \in S : P(x)})

\* The newest of some rows by a time of theirs, or NoRow.
Newest(rows, Time(_)) ==
    IF rows = {} THEN NoRow ELSE CHOOSE r \in rows : \A o \in rows : Time(o) <= Time(r)

-----------------------------------------------------------------------------
(* verify.py: pairs are <<predicted, observed>>, tagged by their hour.     *)

Mae(pairs) == IF pairs = {} THEN Null
              ELSE (1000 * SumOf(LAMBDA p : Max({p[2] - p[3], p[3] - p[2]}), pairs)) \div Cardinality(pairs)

Bias(pairs) == IF pairs = {} THEN Null
               ELSE (1000 * SumOf(LAMBDA p : p[2] - p[3], pairs)) \div Cardinality(pairs)

\* The correlation, as its numerator and the square of its denominator (n^2-fold each).
Corr(pairs) ==
    LET n == Cardinality(pairs)
        sum(i) == SumOf(LAMBDA p : p[i], pairs)
        co(i, j) == n * SumOf(LAMBDA p : p[i] * p[j], pairs) - sum(i) * sum(j)
    IN  IF n < 2 \/ co(2, 2) * co(3, 3) = 0 THEN Null ELSE <<co(2, 3), co(2, 2) * co(3, 3)>>

Metrics(pairs) == [mae |-> Mae(pairs), bias |-> Bias(pairs), corr |-> Corr(pairs), n |-> Cardinality(pairs)]

\* Observations and forecasts meet on the very same hour; of several forecasts of an hour
\* (one of each run) whichever the database lists last is taken.
Pairs(obs, forecasts, station, since) ==
    LET seen == {o \in obs : o.station = station.id /\ o.ts >= since}
        said == {f \in forecasts : f.hex = station.hex /\ f.valid >= since}
    IN  {<<o.ts, CHOOSE r \in {f.r1 : f \in {x \in said : x.valid = o.ts}} : TRUE, o.r1>> :
            o \in {x \in seen : \E f \in said : f.valid = x.ts}}

StationTimeseries(station, stations, obs, forecasts, factors, since) ==
    LET met == Pairs(obs, forecasts, station, since)
        hours == {o.ts : o \in {x \in obs : x.station = station.id /\ x.ts >= since}}
                 \cup {f.valid : f \in {x \in forecasts : x.hex = station.hex /\ x.valid >= since}}
        factor == Newest({b \in factors : b.station = station.id}, LAMBDA b : b.validFrom)
    IN  IF station \notin stations THEN NoRow
        ELSE [hours |-> hours,
              metrics |-> Metrics({p \in met : Null \notin {p[2], p[3]}}),
              multiplier |-> IF factor = NoRow THEN 10000 ELSE factor.multiplier]

\* The first 50 stations on a covered hexagon.
ErrorMetrics(stations, obs, forecasts, since) ==
    [s \in {First(SetToSeq({x \in stations : x.hex # Null}), 50)[i] :
                i \in 1..Min({50, Cardinality({x \in stations : x.hex # Null})})} |->
        Metrics({p \in Pairs(obs, forecasts, s, since) : Null \notin {p[2], p[3]}})]

\* Newest forecast minus newest reading, which need not be of the same hour.
ErrorMap(stations, obs, forecasts, since) ==
    LET last(s) == Newest({o \in obs : o.station = s.id /\ o.ts >= since}, LAMBDA o : o.ts)
        next(s) == Newest({f \in forecasts : f.hex = s.hex /\ f.valid >= since}, LAMBDA f : f.valid)
    IN  [s \in {x \in stations : x.hex # Null /\ last(x) # NoRow /\ next(x) # NoRow} |->
            Max({0, next(s).r1}) - Max({0, last(s).r1})]

-----------------------------------------------------------------------------
(* validate.py                                                             *)

RiskRank(level) == LevelOrder(level) - 1

\* The level that was shown for a hexagon when something was seen there.
RiskAt(snaps, hex, t) == Newest({s \in snaps : s.hex = hex /\ s.ts <= t}, LAMBDA s : s.ts)

DecidedSince(reports, from) ==
    {r \in reports : r.status \in {"VERIFIED", "REJECTED"} /\ from <= r.observed /\ r.hex # Null}

Decided(reports, from, to) == {r \in DecidedSince(reports, from) : r.observed <= to}

ReportsVsRisk(reports, snaps, from, to) ==
    LET rows == First(SetToSortSeq(Decided(reports, from, to), LAMBDA a, b : a.observed > b.observed), 200) IN
    [i \in DOMAIN rows |-> <<rows[i].id, RiskAt(snaps, rows[i].hex, rows[i].observed)>>]

LOCAL Judged(decided, snaps) == {r \in decided : RiskAt(snaps, r.hex, r.observed) # NoRow}

\* The view's names: a HIGH that stayed dry counts among the negatives, a flooded LOW among
\* the positives.
ConfusionMatrix(reports, snaps, from, to) ==
    LET judged == Judged(Decided(reports, from, to), snaps)
        cell(l, status) == Count(judged, LAMBDA r : r.status = status
                                                    /\ RiskAt(snaps, r.hex, r.observed).level = l)
    IN  [total |-> Cardinality(judged),
         false_negatives |-> cell("HIGH", "REJECTED") + cell("SEVERE", "REJECTED"),
         false_positives |-> cell("LOW", "VERIFIED") + cell("MODERATE", "VERIFIED")]

\* Each hexagon with its counts, the most accurate first.
LOCAL Ranked(judged, Agrees(_)) ==
    LET row(h) == LET here == {r \in judged : r.hex = h}
                      agree == Count(here, Agrees)
                  IN  [hex |-> h, agree |-> agree, disagree |-> Cardinality(here) - agree,
                       total |-> Cardinality(here), accuracy |-> (1000 * agree) \div Cardinality(here)]
    IN  First(SetToSortSeq({row(h) : h \in {r.hex : r \in judged}}, LAMBDA a, b : a.accuracy > b.accuracy), 50)

\* Mutant: a MODERATE level counts as having told of the flood.
HotspotRanking_ModerateCounts(reports, snaps, since) ==
    Ranked(Judged(DecidedSince(reports, since), snaps),
           LAMBDA r : (r.status = "VERIFIED") = (RiskRank(RiskAt(snaps, r.hex, r.observed).level) >= 1))

\* The window has no end: a report that is dated later than now is ranked too.
HotspotRanking(reports, snaps, since) ==
    Ranked(Judged(DecidedSince(reports, since), snaps),
           LAMBDA r : (r.status = "VERIFIED") = (RiskRank(RiskAt(snaps, r.hex, r.observed).level) >= 2))

-----------------------------------------------------------------------------
(* calibrate.py: weights are in hundredths.  The table only grows, and its *)
(* newest row is in force.                                                 *)

LayerKeys == {"twi", "depression_depth", "hand", "dist_to_water", "slope", "imperviousness"}
Defaults == [twi |-> 25, depression_depth |-> 20, hand |-> 20, dist_to_water |-> 15, slope |-> 10,
             imperviousness |-> 10, threshold_low |-> 25, threshold_moderate |-> 50, threshold_high |-> 75,
             hazard_low |-> 500, hazard_moderate |-> 1500, hazard_high |-> 3000]

Current(table) == IF table = <<>> THEN Defaults ELSE Last(table)

\* What the request leaves out falls back to the default, not to what was in force.
PutWeights(table, given, mayWrite) ==
    IF ~mayWrite THEN table
    ELSE Append(table, [k \in DOMAIN Defaults |-> IF k \in DOMAIN given THEN given[k] ELSE Defaults[k]])

LOCAL Given(w, k, default) == IF k \in DOMAIN w THEN w[k] ELSE default

\* There is no SEVERE.
RiskFromScore(score, w) ==
    IF score >= 100 * Given(w, "threshold_high", 75) THEN "HIGH"
    ELSE IF score >= 100 * Given(w, "threshold_moderate", 50) THEN "MODERATE" ELSE "LOW"

Fsi(inputs, w) == SumOf(LAMBDA k : Given(inputs, k, 0) * Given(w, k, 0), LayerKeys)

\* `cells' in the order listed, [hex, inputs, fsi]; the window is a day or the last 24 hours.
Preview(cells, snaps, proposed, from, to) ==
    LET listed == First(SelectSeq(cells, LAMBDA c : c.fsi > 0), 100)
        was(c) == Newest({s \in snaps : s.hex = c.hex /\ from <= s.ts /\ s.ts < to}, LAMBDA s : s.ts)
        rows == [i \in DOMAIN listed |->
                    [hex |-> listed[i].hex, was |-> IF was(listed[i]) = NoRow THEN "" ELSE was(listed[i]).level,
                     becomes |-> RiskFromScore(Fsi(listed[i].inputs, proposed), proposed)]]
    IN  [total |-> Len(rows), changed |-> Count(DOMAIN rows, LAMBDA i : rows[i].was # rows[i].becomes),
         preview |-> First(rows, 50)]

\* A verified report is right if its hexagon would be HIGH; 200 of them are tried.
Backtest(reportsInOrder, inputs, proposed) ==
    LET tried == First(SelectSeq(reportsInOrder, LAMBDA r : r.status = "VERIFIED" /\ r.hex # Null), 200)
        right == Count(DOMAIN tried, LAMBDA i : RiskFromScore(Fsi(inputs[tried[i].hex], proposed), proposed) = "HIGH")
    IN  [total |-> Len(tried), correct |-> right, incorrect |-> Len(tried) - right]

-----------------------------------------------------------------------------
(* moderation.py, export.py, analytics.py and health.py                    *)

Duplicates(reports, r) ==
    {o \in reports : o.hex = r.hex /\ o.status = "PENDING" /\ o.id # r.id
                     /\ r.observed - Hour <= o.observed /\ o.observed <= r.observed + Hour}

Queue(reports) ==
    LET shown == First(SetToSortSeq({r \in reports : r.status = "PENDING"}, LAMBDA a, b : a.created > b.created), 50) IN
    [i \in DOMAIN shown |-> [id |-> shown[i].id, duplicates |-> Cardinality(Duplicates(reports, shown[i]))]]

\* Of the risk rows GeoJSON has those whose hexagon is `centered', CSV has all.
ExportQuery(reports, snaps, from, to, fmt, type, centered) ==
    IF type = "risk"
    THEN SetToSortSeq({s \in snaps : from <= s.ts /\ s.ts <= to /\ (fmt = "geojson" => s.hex \in centered)},
                      LAMBDA a, b : a.ts > b.ts)
    ELSE SetToSortSeq({r \in reports : from <= r.observed /\ r.observed <= to}, LAMBDA a, b : a.observed > b.observed)

\* The ten hexagons with the most alerts.
AlertStats(events, deliveries, since) ==
    LET recent == {e \in events : e.created >= since}
        of(h) == Count(recent, LAMBDA e : e.hex = h)
        hexes == {e.hex : e \in recent} \ {Null}
    IN  [byStatus |-> [s \in {d.status : d \in deliveries} |->
                          Count(deliveries, LAMBDA d : d.status = s /\ \E e \in recent : e.id = d.event)],
         byLevel |-> [l \in {e.level : e \in recent} |-> Count(recent, LAMBDA e : e.level = l)],
         topAreas |-> First(SetToSortSeq(hexes, LAMBDA a, b : of(a) > of(b)), 10)]

UsageStats(users, reports, cells, since) ==
    LET residents == {u \in users : ~u.staff}
        recent == {r \in reports : r.created >= since}
        active == {r.hex : r \in recent} \ {Null}
    IN  [active_users |-> Count(residents, LAMBDA u : u.token # ""), total_users |-> Cardinality(residents),
         reports_30d |-> Cardinality(recent), dark |-> Max({0, Cardinality(cells) - Cardinality(active)})]

\* The age is rounded to a tenth of an hour before it is compared: 2:02 is not stale.
FeedIsStale(lastSuccess, now) ==
    lastSuccess = Null \/ (now - lastSuccess + 3) \div 6 > 2 * 10

StationIsUp(obs, station, now) ==
    LET last == Newest({o \in obs : o.station = station}, LAMBDA o : o.ts)
    IN  last # NoRow /\ now - last.ts < 2 * Hour

\* Pairs of neighbouring frames more than a quarter of an hour apart, of the last 48.
RadarGaps(frames) ==
    LET newest == First(SetToSortSeq({f.ts : f \in frames}, LAMBDA a, b : a > b), 48)
    IN  {<<newest[i + 1], newest[i]>> : i \in {j \in 1..(Len(newest) - 1) : newest[j] - newest[j + 1] > 15}}

-----------------------------------------------------------------------------
(* What the console owes.                                                  *)

\* The ranking and the matrix judge alike: the hexagons' totals add up to what the matrix
\* counts up to now and what it would count of the reports dated `later', and so do the
\* disagreements of the one to the two off-diagonal sums of the other.
ReviewsAgree(ranking, matrix, later) ==
    LET sum(f(_)) == SumOf(LAMBDA i : f(ranking[i]), DOMAIN ranking) IN
    /\ sum(LAMBDA h : h.total) = matrix.total + later.total
    /\ sum(LAMBDA h : h.disagree) = matrix.false_negatives + matrix.false_positives
                                     + later.false_negatives + later.false_positives

\* Two pending reports name each other as duplicates or neither does.
HintsAreMutual(reports) ==
    \A a, b \in {r \in reports : r.status = "PENDING"} : (b \in Duplicates(reports, a)) = (a \in Duplicates(reports, b))
=============================================================================
