---- MODULE MCAlgorithms ----
EXTENDS Algorithms
LOCAL INSTANCE SequencesExt
LOCAL INSTANCE TLC

MCRains == UNION {[1..n -> {-1, 0, 5}] : n \in 0..5}
MCSpans == {<<low + d, low, low + w, n>> : low \in {0, 3}, d \in 0..7, w \in 1..7, n \in 1..4}
MCSpansIn == {s \in MCSpans : s[1] <= s[3]}

Cell(h, look) == [hex |-> h, ts |-> 2, level |-> look[1], hazard |-> look[2], conf |-> look[3], r1 |-> h, r24 |-> 2 * h]
Looks == {"LOW", "MODERATE", "HIGH", "SEVERE"} \X {"LOW", "SEVERE"} \X {50, 80}
MCMaps == {{Cell(h, look[h]) : h \in 1..3} : look \in [1..3 -> Looks]}

Seen == {"PENDING", "VERIFIED", "REJECTED"} \X {-1, 1, 2} \X {10, 30, 100}
Of(id, s) == [id |-> id, status |-> s[1], hex |-> s[2], observed |-> s[3]]
\* 100 is later than now.
MCReportSets == {{Of(1, a), Of(2, b)} : a, b \in Seen}
Levels == {"LOW", "MODERATE", "HIGH", "SEVERE"}
MCRiskHistories == {{[hex |-> 1, ts |-> 20, level |-> a], [hex |-> 1, ts |-> 50, level |-> b],
                     [hex |-> 2, ts |-> 0, level |-> "HIGH"]} : a, b \in Levels}

Stored(id, t, s, l) == [id |-> id, created |-> t, source |-> s, hazard |-> "flood", severity |-> "light",
                        life |-> l, sampled |-> "no", reviewed |-> "no"]
MCTables == {{Stored(i, row[i][1], row[i][2], row[i][3]) : i \in 1..4} :
                row \in [1..4 -> (1..2) \X {"voice", "web"} \X {"yes", "no"}]}
MCFilters == {Lists!NoFilter, [Lists!NoFilter EXCEPT !.source = "web"], [Lists!NoFilter EXCEPT !.from = 2],
              [Lists!NoFilter EXCEPT !.to = 1], [Lists!NoFilter EXCEPT !.life = "yes"],
              [Lists!NoFilter EXCEPT !.life = "no", !.source = "web"]}

Shown == {"pending", "verified", "rejected"} \X {<<FALSE, FALSE>>, <<TRUE, FALSE>>, <<FALSE, TRUE>>} \X {1, 2}
MCPublicReports ==
    {{[id |-> i, cluster |-> r[i][3], status |-> r[i][1], personal |-> r[i][2][1], purged |-> r[i][2][2],
       received |-> i] : i \in 1..3} : r \in [1..3 -> Shown]}

Listed == Words!YesNo[1][2] \cup Words!YesNo[2][2] \cup Words!Restart
MCUtterances == {{p, q} : p, q \in Listed}
MCNeighbours == UNION {[1..n -> {"storm", "erosion", "other"} \X {0, 40, 90}] : n \in 1..4}

MCDistricts == {"d1", "d2", "d3"}
Command(c) == [cmd |-> c[1], districts |-> c[2], apply |-> TRUE, reached |-> TRUE]
Call(r) == [district |-> "d1", reached |-> r]
Events == {Command(c) : c \in {<<"enable", {"d1"}>>, <<"enable", {"d2"}>>, <<"disable", {"d1"}>>,
                               <<"full", {}>>, <<"reset", {}>>}}
          \cup {Call(r) : r \in BOOLEAN}
Gaps == {10, 60}
Timed(e, g) ==
    [i \in 1..4 |-> e[i] @@ [at |-> FoldLeft(LAMBDA a, j : a + g[j], 0, [j \in 1..i |-> j])]]
MCHistories == {Timed(e, g) : e \in [1..4 -> Events], g \in [1..4 -> Gaps]}
====
