----------------------------- MODULE PublicViews -----------------------------
(***************************************************************************)
(* What residents are answered: apps/risk/views.py, apps/alerts/views.py   *)
(* and the reading half of apps/reports/views.py.  An answer is a record   *)
(* with its status; `cached' is the answer still in the cache for the      *)
(* request's key, or NoAnswer.  Rain and means are integers, the rounding of   *)
(* the JSON to two decimals and the geometry are left out.  Rows the query *)
(* leaves unordered come in some order.                                    *)
(***************************************************************************)
EXTENDS RiskEngine
LOCAL INSTANCE FiniteSetsExt
LOCAL INSTANCE SequencesExt

Null == -1
Ok(data) == [status |-> 200, data |-> data]
Refused(status) == [status |-> status]
NoAnswer == [status |-> Null]

First(s, n) == SubSeq(s, 1, Min({n, Len(s)}))
Clamp(low, x, high) == Max({low, Min({x, high})})
SumOf(f(_), S) == FoldSet(LAMBDA x, a : a + f(x), 0, S)

-----------------------------------------------------------------------------
(* Rows of RiskSnapshot: [hex, ts, level, hazard, conf, r1, r24]; there is *)
(* one of a hex and an hour at most.                                       *)

LatestTs(rows) == Max({r.ts : r \in rows} \cup {Null})

StaleResponse == Refused(503)

\* As long as there is a row of whatever age, the data counts as fresh.
Fresh(rows) == rows # {}

\* `box' is <<low lng, low lat, high lng, high lat>> in tenths of a degree.
TargetResolution(box) ==
    LET span == Max({box[3] - box[1], box[4] - box[2]})
    IN  IF span > 20 THEN 5 ELSE IF span > 6 THEN 6 ELSE 7

MaxFeatures == 8000

ShownBefore(a, b) ==
    LET key(r) == <<LevelOrder(r.level), r.conf>> IN
    \/ key(a)[1] > key(b)[1]
    \/ key(a)[1] = key(b)[1] /\ key(a)[2] > key(b)[2]
    \/ key(a) = key(b) /\ a.hex < b.hex

HexesRaw(rows, max) == First(SetToSortSeq(rows, ShownBefore), max)

\* Mutant: a parent keeps the level of the child that was read first.
AddChild_FirstWins(groups, parent, r) ==
    LET g == IF parent \in DOMAIN groups THEN groups[parent]
             ELSE [level |-> r.level, hazard |-> r.hazard, conf |-> 0, r1 |-> 0, r24 |-> 0, n |-> 0]
    IN  [p \in DOMAIN groups \cup {parent} |->
            IF p = parent THEN [g EXCEPT !.conf = @ + r.conf, !.n = @ + 1] ELSE groups[p]]

AddChild(groups, parent, r) ==
    LET g == IF parent \in DOMAIN groups THEN groups[parent]
             ELSE [level |-> r.level, hazard |-> r.hazard, conf |-> 0, r1 |-> 0, r24 |-> 0, n |-> 0]
        worst == IF LevelOrder(r.level) > LevelOrder(g.level) THEN r ELSE g
        added == [level |-> worst.level, hazard |-> worst.hazard, conf |-> g.conf + r.conf,
                  r1 |-> g.r1 + r.r1, r24 |-> g.r24 + r.r24, n |-> g.n + 1]
    IN  [p \in DOMAIN groups \cup {parent} |-> IF p = parent THEN added ELSE groups[p]]

\* The mean of each group, and its worst child's level and class.
HexesAggregated(rowsInOrder, parent) ==
    LET groups == FoldLeft(LAMBDA g, r : AddChild(g, parent[r.hex], r), <<>>, rowsInOrder) IN
    [p \in DOMAIN groups |->
        [groups[p] EXCEPT !.conf = @ \div groups[p].n, !.r1 = @ \div groups[p].n, !.r24 = @ \div groups[p].n]]

\* `box' is <<>> when it is missing or cannot be read, `inside' its hexagons; `at' is Null
\* unless asked for, and an hour asked for passes the freshness gate and the latest hour by.
RiskHexes(box, inside, at, rows, cached, max, parent) ==
    LET ts == IF at # Null THEN at ELSE LatestTs(rows)
        asked == {r \in rows : r.ts = ts /\ r.hex \in inside}
    IN  CASE box = <<>> -> Refused(400)
          [] box # <<>> /\ (ts = Null \/ (at = Null /\ ~Fresh(rows))) -> StaleResponse
          [] OTHER -> IF cached # NoAnswer THEN cached
                      ELSE Ok(IF TargetResolution(box) = 7 THEN HexesRaw(asked, max)
                              ELSE HexesAggregated(SetToSeq(asked), parent))

\* The hexagon of a point, if it is covered, with its newest row and a strip of the last 24.
RiskLocation(hex, covered, rows) ==
    LET mine == SetToSortSeq({r \in rows : r.hex = hex}, LAMBDA a, b : a.ts > b.ts) IN
    CASE hex = Null -> Refused(400)
      [] hex # Null /\ hex \notin covered -> Refused(404)
      [] hex \in covered /\ (~Fresh(rows) \/ mine = <<>>) -> StaleResponse
      [] OTHER -> Ok([row |-> mine[1], text |-> Generate(mine[1].level, mine[1].hazard),
                      hourly |-> First(mine, 24)])

\* Shares in tenths of a per cent, rounded; the hotspots are ordered by rain alone.
RiskOverview(rows, cached) ==
    LET now == {r \in rows : r.ts = LatestTs(rows)}
        total == Cardinality(now)
        pct(l) == (2000 * Cardinality({r \in now : r.level = l}) + total) \div (2 * total)
    IN  IF ~Fresh(rows) THEN StaleResponse
        ELSE IF cached # NoAnswer THEN cached
        ELSE Ok([summary |-> [l \in ToSet(HazardLevels) |-> pct(l)],
                 rain24 |-> SumOf(LAMBDA r : r.r24, now) \div total,
                 rate |-> Max({r.r1 : r \in now}),
                 confidence |-> SumOf(LAMBDA r : r.conf, now) \div total,
                 hotspots |-> First(SetToSortSeq({r \in now : r.level \in {"HIGH", "SEVERE"}},
                                                 LAMBDA a, b : a.r1 > b.r1), 5)])

-----------------------------------------------------------------------------
(* Relayed from the forecast service; Null is an answer that did not come. *)

\* At most 48 hours from now on; a missing reading counts as dry.
HourlyForecast(times, rain, arrived, now, cached) ==
    LET n == Min({Len(times), Len(rain)})
        ahead == SelectSeq([i \in 1..n |-> [ts |-> times[i], rain |-> Max({0, rain[i]})]],
                           LAMBDA h : h.ts >= now)
    IN  IF cached # NoAnswer THEN cached
        ELSE IF ~arrived THEN Refused(503)
        ELSE Ok(First(ahead, 48))

WmoCodes == {0, 1, 2, 3, 45, 48, 51, 53, 55, 56, 57, 61, 63, 65, 66, 67, 71, 73, 75, 77, 80, 81,
             82, 85, 86, 95, 96, 99}
WmoDescription(code) == IF code \in WmoCodes THEN code ELSE Null

\* A field the answer lacks is zero: a missing weather code is a clear sky.
WeatherNow(current, arrived, cached) ==
    LET field(f) == IF current[f] = Null THEN 0 ELSE current[f] IN
    IF cached # NoAnswer THEN cached
    ELSE IF ~arrived THEN Refused(503)
    ELSE Ok([temperature |-> field("temperature"), humidity |-> field("humidity"), wind |-> field("wind"),
             code |-> field("code"), description |-> WmoDescription(field("code"))])

-----------------------------------------------------------------------------
(* Alerts and reports a resident sees.  Times are minutes.                 *)

\* Around a saved place the reports of the hexagons two rings out (`disk') count too.
AlertsList(events, places, scope, now, disk) ==
    LET nearby == UNION {disk[h] : h \in places}
        mine == {e \in events : /\ e.hex \in places \/ (e.source = "REPORT" /\ e.hex \in nearby)
                                /\ scope = "active" => e.windowEnd >= now - 24 * 60}
    IN  First(SetToSortSeq(mine, LAMBDA a, b : a.windowStart > b.windowStart), 50)

Open(reports) == {r \in reports : r.status \in {"PENDING", "VERIFIED"}}
NewestFirst(reports) == SetToSortSeq(reports, LAMBDA a, b : a.observed > b.observed)

\* `point' is <<>> when it is missing or not a pair of numbers; `distance' is that from it.
NearbyReports(reports, point, radius, since, now, distance) ==
    LET seen == {r \in Open(reports) : /\ distance[r.at] <= Clamp(100, radius, 50000)
                                       /\ r.observed >= now - Clamp(10, since, 10080)}
    IN  IF point = <<>> THEN Refused(400) ELSE Ok(First(NewestFirst(seen), 30))

DepthWeight == [ANKLE |-> 1, KNEE |-> 2, WAIST |-> 3, VEHICLE |-> 4]

\* A box that cannot be read (<<>>) is no box.
ReportsHeatmap(reports, sinceHours, box, inside, now) ==
    LET seen == {r \in Open(reports) : /\ r.observed >= now - 60 * Clamp(1, sinceHours, 168)
                                       /\ box # <<>> => r.at \in inside}
        shown == First(NewestFirst(seen), 500)
    IN  [i \in DOMAIN shown |-> [id |-> shown[i].id, weight |-> DepthWeight[shown[i].depth]]]

-----------------------------------------------------------------------------
(* What the map owes, read from its two zooms.  `close' is the street view *)
(* of a box, `wide' the region view of the same rows.                      *)

\* A cell that is left out of a full street view is no worse than any shown.
NothingWorseIsDropped(rows, close) ==
    \A d \in rows \ ToSet(close) : \A i \in DOMAIN close : LevelOrder(d.level) <= LevelOrder(close[i].level)

\* Whatever the street view shows, the region view shows at its worst, and nothing else.
ZoomsAgree(rows, wide, parent) ==
    /\ DOMAIN wide = {parent[r.hex] : r \in rows}
    /\ \A p \in DOMAIN wide :
          LET children == {r \in rows : parent[r.hex] = p} IN
          /\ \E r \in children : r.level = wide[p].level /\ r.hazard = wide[p].hazard
          /\ \A r \in children : LevelOrder(r.level) <= LevelOrder(wide[p].level)

\* The four shares are those of one whole, up to their rounding.
SharesAddUp(summary) ==
    LET sum == SumOf(LAMBDA l : summary[l], DOMAIN summary) IN 998 <= sum /\ sum <= 1002
=============================================================================
