------------------------------ MODULE Algorithms ------------------------------
(***************************************************************************)
(* The computations that keep no state of their own, asked one bounded     *)
(* input each: a behaviour picks an input and ends.  What is promised of   *)
(* an answer is an invariant, one of each module; the inputs are the       *)
(* constants.                                                              *)
(***************************************************************************)
EXTENDS Integers, Sequences, FiniteSets
LOCAL INSTANCE SequencesExt

Feeds == INSTANCE RainFeeds
Views == INSTANCE PublicViews
Review == INSTANCE AdminReview
Lists == INSTANCE Listings
Words == INSTANCE Extraction
Agent == INSTANCE Ops

CONSTANTS
    Rains,          \* readings of one place, hour after hour
    Spans,          \* <<x, low, high, n>>: a coordinate, the box it is in, the samples
    Maps,           \* the rows of one hour of the risk map
    ReportSets,     \* reports staff review
    RiskHistories,  \* risk rows of some hexagons
    Tables,         \* reports officers page through
    Filters,
    PublicReports,  \* reports of a cluster
    Utterances,     \* sets of listed phrases
    Neighbours,     \* sequences of <<label, similarity>>
    Histories,      \* commands of the rollout and calls, in order
    Districts

VARIABLE input

None == [asked |-> "nothing"]
Init == input = None

Asked(question) == input' = question

AskFeed == \E rain \in Rains, start \in -2..1 : Asked([asked |-> "feed", rain |-> rain, start |-> start])
AskSample == \E s \in Spans : Asked([asked |-> "sample", span |-> s])
AskMap == \E rows \in Maps, max \in 1..2 : Asked([asked |-> "map", rows |-> rows, max |-> max])
AskReview == \E r \in ReportSets, h \in RiskHistories : Asked([asked |-> "review", reports |-> r, snaps |-> h])
AskListing == \E t \in Tables, f \in Filters, n \in 1..3 : Asked([asked |-> "listing", table |-> t, f |-> f, limit |-> n])
AskCluster == \E r \in PublicReports : Asked([asked |-> "cluster", reports |-> r])
AskWords == \E said \in Utterances : Asked([asked |-> "words", said |-> said])
AskNeighbours == \E sims \in Neighbours : Asked([asked |-> "neighbours", sims |-> sims])
AskRollout == \E h \in Histories : Asked([asked |-> "rollout", history |-> h])

Next ==
    /\ input = None
    /\ \/ AskFeed \/ AskSample \/ AskMap \/ AskReview \/ AskListing \/ AskCluster
       \/ AskWords \/ AskNeighbours \/ AskRollout

Spec == Init /\ [][Next]_input

-----------------------------------------------------------------------------
LOCAL Hours(n, start) == [i \in 1..n |-> start + i - 1]

\* ecmwf.py and aws.py: whatever readings are missing or late, the rain of an hour is at
\* most that of three and of a day; and the sample a cell is given is at most one step off
\* the nearest.
RainFitsHourAndPlace ==
    /\ input.asked = "feed" =>
         LET answer == <<Hours(Len(input.rain), input.start), input.rain>>
             cells == <<<<10, 20>>, <<11, 22>>>>
             forecast == Feeds!RealForecast(cells, [i \in 1..4 |-> answer], 2, 2, 0)
             seen == Feeds!Observation(input.rain)
         IN  /\ forecast # Feeds!Failed => \A i \in DOMAIN forecast : Feeds!Nested(forecast[i])
             /\ seen # Feeds!Failed => Feeds!Nested(seen)
    /\ input.asked = "sample" =>
         Feeds!NearEnough(input.span[1], input.span[2], input.span[3], input.span[4])

LOCAL Street == <<0, 0, 5, 5>>
LOCAL Region == <<0, 0, 15, 15>>
LOCAL Parent == [hex \in 1..3 |-> hex \div 2]

\* risk/views.py: the street view leaves out nothing worse than it shows, the region view
\* shows of each parent what is worst below it, the location of a cell repeats what the
\* street view says of it, and the shares of the overview are those of one whole.  A row
\* of an hour that has passed is in none of them.
MapViewsAgree ==
    input.asked = "map" =>
        LET rows == input.rows \cup {[hex |-> 1, ts |-> 1, level |-> "SEVERE", hazard |-> "SEVERE",
                                      conf |-> 90, r1 |-> 9, r24 |-> 9]}
            now == input.rows
            ask(box) == Views!RiskHexes(box, 1..3, Views!Null, rows, Views!NoAnswer, input.max, Parent)
            close == ask(Street).data
            wide == ask(Region).data
            overview == Views!RiskOverview(rows, Views!NoAnswer).data
        IN  /\ ToSet(close) \subseteq now
            /\ Views!NothingWorseIsDropped(now, close)
            /\ Views!ZoomsAgree(now, wide, Parent)
            /\ \A i \in DOMAIN close : Views!RiskLocation(close[i].hex, 1..3, rows).data.row = close[i]
            /\ Views!SharesAddUp(overview.summary)
            /\ ToSet(overview.hotspots) = {r \in now : r.level \in {"HIGH", "SEVERE"}}

LOCAL Now == 60
LOCAL LastDate == 100

\* validate.py and moderation.py: the ranking of hexagons judges a report as the confusion
\* matrix does, and ranks besides what the matrix counts only the reports that are dated
\* after the end of its window; hints at duplicates are mutual.
StaffViewsAgree ==
    input.asked = "review" =>
        /\ Review!ReviewsAgree(Review!HotspotRanking(input.reports, input.snaps, 0),
                               Review!ConfusionMatrix(input.reports, input.snaps, 0, Now),
                               Review!ConfusionMatrix(input.reports, input.snaps, Now + 1, LastDate))
        /\ Review!HintsAreMutual(input.reports)

LOCAL NewReport == [id |-> 9, created |-> 9, source |-> "voice", hazard |-> "flood", severity |-> "light",
                    life |-> "no", sampled |-> "no", reviewed |-> "no"]

\* routes_reports.py: the pages of a listing follow its export, also when a report comes in
\* after the first page, and end early only behind a row without the flag that was asked
\* for.  clusters.py: a marker's popup shows the marker's report.
PagesFollowTheExport ==
    /\ input.asked = "listing" => \A newer \in {{}, {NewReport}} :
                                     Lists!PagesFollow(input.table, newer, input.f, input.limit)
    /\ input.asked = "cluster" =>
         Lists!MarkerIsPopup({[id |-> c, at |-> c, status |-> "active", verified |-> 0, heat |-> 4 + c] : c \in 1..2},
                             input.reports)

\* normalize.py: no utterance of listed phrases is a yes for the words of a refusal in it.
\* taxonomy.py: a lead of a margin survives the loss of a neighbour that counts for less.
WordsAreUnderstood ==
    /\ input.asked = "words" => Words!YesIsMeant(Words!Closed(input.said))
    /\ input.asked = "neighbours" => Words!LeadIsKept(input.sims, 3)

\* rollout_guard.py: a caller is turned away only for a list without the caller's district
\* that was in force within the last minute.
NobodyIsBlockedUnlisted ==
    input.asked = "rollout" => Agent!BlockedOnlyIfListed(input.history, Districts)
=============================================================================
