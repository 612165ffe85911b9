------------------------------- MODULE Listings -------------------------------
(***************************************************************************)
(* What officers page through: the report list, its export and the QA      *)
(* queue (api/routes_reports.py), the dead letters (api/routes_dlq.py),    *)
(* the call console (api/routes_console.py) and the clusters of the public *)
(* API (src/api/app/routers/clusters.py).  Tables are sets of rows; the    *)
(* flags that a filter asks for are "yes" or "no", and Unset asks for none.  *)
(***************************************************************************)
EXTENDS Integers, Sequences, FiniteSets
LOCAL INSTANCE FiniteSetsExt
LOCAL INSTANCE SequencesExt

Unset == "any"
Null == -1
Ok(data) == [status |-> 200, data |-> data]
Refused(status) == [status |-> status]
LOCAL First(s, n) == SubSeq(s, 1, Min({n, Len(s)}))

-----------------------------------------------------------------------------
(* Reports: [id, created, source, hazard, severity, life, sampled, reviewed]*)

NoFilter == [source |-> Unset, hazard |-> Unset, severity |-> Unset, from |-> Null, to |-> Null,
             sampled |-> Unset, reviewed |-> Unset, life |-> Unset]

LOCAL Asked(want, have) == want \in {Unset, have}

\* What the database is asked for: every filter but that on the JSON flag.
Matches(r, f) ==
    /\ Asked(f.source, r.source) /\ Asked(f.hazard, r.hazard) /\ Asked(f.severity, r.severity)
    /\ Asked(f.sampled, r.sampled) /\ Asked(f.reviewed, r.reviewed)
    /\ f.from # Null => f.from <= r.created
    /\ f.to # Null => r.created <= f.to

HasLifeSafety(r, f) == Asked(f.life, r.life)

Before(a, b) == a.created > b.created \/ (a.created = b.created /\ a.id > b.id)

NewestFirst(rows) == SetToSortSeq(rows, Before)

\* A cursor names the row after which a page goes on: <<created, id>>, <<>> to begin.
Past(r, cursor) ==
    cursor = <<>> \/ r.created < cursor[1] \/ (r.created = cursor[1] /\ r.id < cursor[2])

LOCAL CursorOf(r) == <<r.created, r.id>>

\* Mutant: the cursor names the row that was peeked at, not the last one given.
ListReports_CursorPeeks(reports, f, cursor, limit) ==
    LET read == First(NewestFirst({r \in reports : Matches(r, f) /\ Past(r, cursor)}), limit + 1)
        rows == SelectSeq(read, LAMBDA r : HasLifeSafety(r, f))
        more == Len(rows) > limit
    IN  [items |-> First(rows, limit), next |-> IF more THEN CursorOf(rows[limit + 1]) ELSE <<>>]

\* One row more than the page is read, to know whether there is a next one; the flag is
\* filtered after that.
ListReports(reports, f, cursor, limit) ==
    LET read == First(NewestFirst({r \in reports : Matches(r, f) /\ Past(r, cursor)}), limit + 1)
        rows == SelectSeq(read, LAMBDA r : HasLifeSafety(r, f))
        more == Len(rows) > limit
    IN  [items |-> First(rows, limit), next |-> IF more THEN CursorOf(rows[limit]) ELSE <<>>]

\* The CSV rows: the same filters but the two of the QA queue, no pages.
ExportReportsCsv(reports, f) ==
    NewestFirst({r \in reports : Matches(r, [f EXCEPT !.sampled = Unset, !.reviewed = Unset]) /\ HasLifeSafety(r, f)})

GetReport(reports, id) ==
    IF \E r \in reports : r.id = id THEN Ok(CHOOSE r \in reports : r.id = id) ELSE Refused(404)

\* The status and the table a review of the QA queue leaves; a second one is let through.
ReviewQaSample(reports, id) ==
    CASE GetReport(reports, id).status = 404 -> <<404, reports>>
      [] \E r \in reports : r.id = id /\ r.sampled = "no" -> <<400, reports>>
      [] OTHER -> <<200, {IF r.id = id THEN [r EXCEPT !.reviewed = "yes"] ELSE r : r \in reports}>>

-----------------------------------------------------------------------------
(* Dead letters: `rows' are [id, dispatched, retries].                     *)

InDlq(row, maxRetries) == ~row.dispatched /\ row.retries >= maxRetries

\* Cursors are row numbers here, Null to begin.
ListDlq(rows, maxRetries, cursor, limit) ==
    LET read == First(SetToSortSeq({r \in rows : InDlq(r, maxRetries) /\ (cursor # Null => r.id < cursor)},
                                   LAMBDA a, b : a.id > b.id), limit + 1)
    IN  [items |-> First(read, limit), next |-> IF Len(read) > limit THEN read[limit].id ELSE Null]

GetDlqEntry(rows, maxRetries, id) ==
    IF \E r \in rows : r.id = id /\ InDlq(r, maxRetries) THEN 200 ELSE 404

-----------------------------------------------------------------------------
(* The call console.  Of its filters only the confidence one is applied,   *)
(* and there is no second page.                                            *)

ListCalls(reports, maxConfidence, limit) ==
    First(SetToSortSeq({r \in reports : maxConfidence # Null => r.confidence <= maxConfidence},
                       LAMBDA a, b : a.created > b.created), limit)

CallOutcome(r) == IF r.status = "pending_enrichment" THEN "unknown" ELSE "submitted"

\* The slots the fixture expects; its script is empty, for turns are not stored.
GoldenFixture(reports, id) ==
    LET detail == GetReport(reports, id) IN
    IF detail.status = 404 THEN detail
    ELSE Ok([script |-> <<>>, slots |-> {s \in {detail.data.hazard, detail.data.severity} : s # ""}])

-----------------------------------------------------------------------------
(* Clusters: [id, at, status, verified, heat] and their reports            *)
(* [id, cluster, status, personal, purged, received].                      *)

Shows(r, c) == r.cluster = c.id /\ r.status # "rejected" /\ ~r.personal /\ ~r.purged

\* Verified first, then the newest (no two came at the same time); a set of at most one.
Representative(reports, c) ==
    LET better(a, b) == IF (a.status = "verified") = (b.status = "verified") THEN a.received > b.received
                        ELSE a.status = "verified"
        shown == {r \in reports : Shows(r, c)}
    IN  {r \in shown : \A o \in shown \ {r} : better(r, o)}

ActiveClusters(clusters) == {c \in clusters : c.status = "active"}

ClustersNearby(clusters, distance, radius) ==
    First(SetToSortSeq({c \in ActiveClusters(clusters) : distance[c.at] <= radius},
                       LAMBDA a, b : distance[a.at] < distance[b.at]), 20)

\* `heat' is in hundredths.
ClustersHeat(clusters, reports, inside) ==
    [c \in {x \in ActiveClusters(clusters) : x.heat > 5 /\ x.at \in inside} |-> Representative(reports, c)]

ClusterReportDetail(clusters, reports, id) ==
    IF \E c \in ActiveClusters(clusters) : c.id = id
    THEN Ok(Representative(reports, CHOOSE c \in ActiveClusters(clusters) : c.id = id))
    ELSE Refused(404)

ClustersGeojson(clusters, inside) ==
    [c \in {x \in ActiveClusters(clusters) : x.at \in inside} |->
        IF c.verified > 0 THEN "verified" ELSE "under_review"]

FlagReasons == {"not_flooding", "privacy", "offensive", "other"}
FlagCluster(flags, cluster, device, reason) ==
    IF reason \in FlagReasons THEN Append(flags, <<cluster, device, reason>>) ELSE flags

-----------------------------------------------------------------------------
(* What a listing owes its reader.                                         *)

\* The rows met when paging from the start; arrived(k) is the table at the k-th page.
Walk(Page(_, _), n) ==
    LET step(done, k) == LET page == Page(k, done.next) IN
                         IF done.over THEN done
                         ELSE [met |-> done.met \o page.items, next |-> page.next, over |-> page.next = <<>>]
    IN  FoldLeft(step, [met |-> <<>>, next |-> <<>>, over |-> FALSE], [k \in 1..n |-> k])

\* Paging from the first page to the last meets the rows of the export once and in its
\* order, also when a newer report is stored after the first page.  No row is left out
\* unless life safety was asked for and a row came before it that the query read and the
\* flag's filter removed: a page that is short after that filter ends the listing.
PagesFollow(reports, newer, f, limit) ==
    LET table(k) == IF k = 1 THEN reports ELSE reports \cup newer
        walk == Walk(LAMBDA k, cursor : ListReports(table(k), f, cursor, limit), Cardinality(reports) + 1)
        export == ExportReportsCsv(reports, f)
        removed == {r \in reports : Matches(r, f) /\ ~HasLifeSafety(r, f)}
    IN  /\ walk.over /\ IsPrefix(walk.met, export)
        /\ \A missed \in ToSet(export) \ ToSet(walk.met) : \E r \in removed : Before(r, missed)

\* A cluster's marker and its popup stand for the same report, and never for one that was
\* rejected, shows personal data or lost its photo.
MarkerIsPopup(clusters, reports) ==
    LET heat == ClustersHeat(clusters, reports, {c.at : c \in clusters}) IN
    \A c \in DOMAIN heat :
        /\ ClusterReportDetail(clusters, reports, c.id) = Ok(heat[c])
        /\ \A r \in heat[c] : Shows(r, c)
        /\ (heat[c] = {}) = (\A r \in reports : ~Shows(r, c))
=============================================================================
