----------------------------- MODULE EventStream -----------------------------
(***************************************************************************)
(* The live feed: the in-process broker (persistence/broker.py) that the   *)
(* relay's first dispatcher publishes to, the server-sent-events endpoint  *)
(* that drains one bounded queue per subscriber (api/routes_reports.py),   *)
(* and the mobile app's client (mobile/lib/data/api/voice_reports_sse.dart)*)
(* with its polling fallback.                                              *)
(*                                                                         *)
(* Kept: a publish reaches every queue in one step (there is no await      *)
(* between two queues), the queue limit and the LAGGED marker, the reply's *)
(* headers before the subscription, a connection the server still serves   *)
(* after it broke, reconnects, several polls in flight at once (nothing    *)
(* stops the timer's next tick while an answer is awaited) whose pages are *)
(* applied in any order, and which keys an event's payload carries.        *)
(*                                                                         *)
(* Left out: keepalive comments, authentication, values of the payload,    *)
(* and listeners that come and go: the first one stays. When the last one  *)
(* leaves and another comes, _start opens one more stream beside the       *)
(* reconnects still pending; the poll it fires is one more poll in flight. *)
(***************************************************************************)
EXTENDS Integers, FiniteSets, Sequences

CONSTANTS
    Reports,    \* identities of stored reports
    Times,      \* values of created_at (a replica's clock, before its commit)
    Streams,    \* SSE connections the server can be serving at once
    QueueMax,   \* slots of a subscriber's queue (100 in the code)
    PageLimit,  \* rows of the page a poll asks for (50 in the code)
    Polls,      \* polls that can be in flight at once
    MaxEvents,  \* bound: events ever published
    MaxBreaks   \* bound: connections that break or are refused

ASSUME StreamConstants ==
    /\ Times \subseteq Nat \ {0} /\ Reports \subseteq Nat
    /\ QueueMax \in Nat \ {0} /\ PageLimit \in Nat \ {0}
    /\ MaxEvents \in Nat /\ MaxBreaks \in Nat

NoStream == "none"
Lagged == [kind |-> "lagged"]
Events == [kind : {"submitted", "enriched"}, id : Reports]

VARIABLES
    stored,  \* stored[r]: created_at of a committed report, 0 before
    link,    \* link[s]: "none", "headers", "open", "severed"
    queue,   \* queue[s]: the subscriber's queue
    owed,    \* owed[s]: events published to s since it was last told of a gap,
             \* less those it was given (history)
    app,     \* the mobile client
    poll,    \* poll[p]: a poll in flight and the page it was answered with
    polled,  \* polled[r]: how often a poll announced r (history)
    events, breaks  \* bound counters

vars == <<stored, link, queue, owed, app, poll, polled, events, breaks>>
server == <<link, queue, owed>>

NoPoll == [at |-> "idle", page |-> <<>>]
NewApp == [sse |-> "asking", retry |-> FALSE, stream |-> NoStream,
           leftover |-> FALSE, lastSeen |-> 0, shown |-> {}, told |-> FALSE]

Init ==
    /\ stored = [r \in Reports |-> 0]
    /\ link = [s \in Streams |-> "none"]
    /\ queue = [s \in Streams |-> <<>>]
    /\ owed = [s \in Streams |-> 0]
    /\ app = NewApp
    /\ poll = [p \in Polls |-> NoPoll]
    /\ polled = [r \in Reports |-> 0]
    /\ events = 0 /\ breaks = 0

-----------------------------------------------------------------------------
(* The broker. *)

\* Mutant: a full queue loses its oldest event and nobody is told.
Offered_Rolling(q, e) == IF Len(q) < QueueMax THEN Append(q, e) ELSE Append(Tail(q), e)

\* put_nowait, and when the queue is full: one slot is drained for the marker
\* and the new event is dropped as well.
Offered(q, e) ==
    IF Len(q) < QueueMax THEN Append(q, e) ELSE Append(Tail(q), Lagged)

Subscribed(s) == link[s] \in {"open", "severed"}

\* PubSubDispatcher.dispatch: a relay may publish a row again, and rows in an
\* order of its own.
Publish(r, kind) ==
    /\ events < MaxEvents
    /\ stored[r] # 0
    /\ LET e == [kind |-> kind, id |-> r] IN
        /\ queue' = [s \in Streams |->
                        IF Subscribed(s) THEN Offered(queue[s], e) ELSE queue[s]]
        /\ owed' = [s \in Streams |-> IF Subscribed(s) THEN owed[s] + 1 ELSE owed[s]]
    /\ events' = events + 1
    /\ UNCHANGED <<stored, link, app, poll, polled, breaks>>

\* A caller's report is committed; its created_at was read before.
Submit(r, at) ==
    /\ stored[r] = 0
    /\ stored' = [stored EXCEPT ![r] = at]
    /\ UNCHANGED <<server, app, poll, polled, events, breaks>>

-----------------------------------------------------------------------------
(* The endpoint: GET /reports/stream. *)

\* The reply has begun (the client holds its headers) and the body generator
\* enters broker.subscribe().
Subscribe(s) ==
    /\ link[s] = "headers"
    /\ link' = [link EXCEPT ![s] = "open"]
    /\ UNCHANGED <<stored, queue, owed, app, poll, polled, events, breaks>>

\* is_disconnected() is asked before every item; the queue goes with its
\* subscription.
Leave(s) ==
    /\ link[s] = "severed"
    /\ link' = [link EXCEPT ![s] = "none"]
    /\ queue' = [queue EXCEPT ![s] = <<>>]
    /\ owed' = [owed EXCEPT ![s] = 0]
    /\ UNCHANGED <<stored, app, poll, polled, events, breaks>>

Count(q) == Cardinality({i \in DOMAIN q : q[i] # Lagged})

\* What a subscriber is still owed once it has been given item x.
OwedAfter(s, x) == IF x = Lagged THEN Count(Tail(queue[s])) ELSE owed[s] - 1

-----------------------------------------------------------------------------
(* The client. *)

\* The keys that ReportOut and VoiceReport.fromJson insist on.
Required == {"report_id", "short_ref", "created_at", "updated_at"}

\* The required keys the sink and the enrichment put into an outbox payload
\* (_normalise_payload adds none that is missing here).
PayloadKeys(kind) == {"report_id", "short_ref", "created_at"}

Parses(kind) == Required \subseteq PayloadKeys(kind)

\* _emitFromBuffer: fromJson throws on a missing key before anything is shown
\* and before the caller clears the buffer, so the next event is joined to the
\* leftover lines and is no JSON; a lagged frame shows as such in any case.
AfterFrame(a, x) ==
    CASE x = Lagged -> [a EXCEPT !.told = TRUE, !.leftover = FALSE]
      [] x # Lagged /\ a.leftover -> [a EXCEPT !.leftover = FALSE]
      [] x # Lagged /\ ~a.leftover /\ ~Parses(x.kind) -> [a EXCEPT !.leftover = TRUE]
      [] x # Lagged /\ ~a.leftover /\ Parses(x.kind) ->
            [a EXCEPT !.shown = @ \cup {x.id}, !.lastSeen = stored[x.id]]

\* The generator takes the next item. On a broken connection it is written to
\* nobody.
NextItem(s) ==
    /\ Subscribed(s)
    /\ queue[s] # <<>>
    /\ LET x == Head(queue[s]) IN
        /\ queue' = [queue EXCEPT ![s] = Tail(@)]
        /\ owed' = [owed EXCEPT ![s] = OwedAfter(s, x)]
        /\ IF link[s] = "open"
             THEN app' = AfterFrame(app, x)
             ELSE UNCHANGED app
    /\ UNCHANGED <<stored, link, poll, polled, events, breaks>>

\* _startSse has its answer: the buffer is a fresh one.
Connected(s) ==
    /\ app.sse = "asking"
    /\ link[s] = "none"
    /\ link' = [link EXCEPT ![s] = "headers"]
    /\ app' = [app EXCEPT !.sse = "up", !.stream = s, !.leftover = FALSE]
    /\ UNCHANGED <<stored, queue, owed, poll, polled, events, breaks>>

\* A DioException instead of an answer.
Refused ==
    /\ app.sse = "asking"
    /\ breaks < MaxBreaks
    /\ app' = [app EXCEPT !.sse = "down", !.retry = TRUE]
    /\ breaks' = breaks + 1
    /\ UNCHANGED <<stored, server, poll, polled, events>>

\* onError or onDone: the client schedules a reconnect, the server has not
\* noticed yet.
Break ==
    /\ app.sse = "up"
    /\ link[app.stream] \in {"headers", "open"}
    /\ breaks < MaxBreaks
    /\ link' = [link EXCEPT ![app.stream] = IF @ = "headers" THEN "none" ELSE "severed"]
    /\ app' = [app EXCEPT !.sse = "down", !.retry = TRUE, !.stream = NoStream]
    /\ breaks' = breaks + 1
    /\ UNCHANGED <<stored, queue, owed, poll, polled, events>>

Reconnect ==
    /\ app.retry
    /\ app' = [app EXCEPT !.sse = "asking", !.retry = FALSE]
    /\ UNCHANGED <<stored, server, poll, polled, events, breaks>>

\* A page of GET /reports: newest first, ties by descending identity.
Newer(a, b) == stored[a] > stored[b] \/ (stored[a] = stored[b] /\ a > b)
Listed == {r \in Reports : stored[r] # 0}
Rank(r) == Cardinality({x \in Listed : Newer(x, r)})
NewestFirst == [i \in 1 .. Cardinality(Listed) |-> CHOOSE r \in Listed : Rank(r) = i - 1]
FirstPage == SubSeq(NewestFirst, 1, IF Len(NewestFirst) < PageLimit
                                    THEN Len(NewestFirst) ELSE PageLimit)

\* _pollOnce begins: skipped while the stream is up, and by nothing else; polls that
\* have begun before may still be unanswered.
PollAsks(p) ==
    /\ app.sse # "up"
    /\ poll[p].at = "idle"
    /\ poll' = [poll EXCEPT ![p].at = "asked"]
    /\ UNCHANGED <<stored, server, app, polled, events, breaks>>

\* The server answers with the page of that moment.
PollReads(p) ==
    /\ poll[p].at = "asked"
    /\ poll' = [poll EXCEPT ![p] = [at |-> "read", page |-> FirstPage]]
    /\ UNCHANGED <<stored, server, app, polled, events, breaks>>

\* A DioException, before or after the server has read: the poll is over.
PollFails(p) ==
    /\ poll[p].at # "idle"
    /\ poll' = [poll EXCEPT ![p] = NoPoll]
    /\ UNCHANGED <<stored, server, app, polled, events, breaks>>

\* The rows the loop announces: oldest first, each later than the last seen, so
\* of rows with one created_at only the first.
Fresh(seen, page) ==
    {page[i] : i \in {j \in DOMAIN page :
        /\ stored[page[j]] > seen
        /\ \A k \in j + 1 .. Len(page) : stored[page[k]] < stored[page[j]]}}

\* Mutant: the position is that of the page's newest row, also when a late page has
\* nothing new in it.
Position_Newest(seen, page) == IF page = <<>> THEN seen ELSE stored[page[1]]

\* What the loop leaves as the last seen: if any row is fresh, the newest one is.
Position(seen, page) == IF Fresh(seen, page) = {} THEN seen ELSE stored[page[1]]

\* The page arrives, whatever the stream and the other polls did meanwhile.
PollAnswers(p) ==
    /\ poll[p].at = "read"
    /\ poll' = [poll EXCEPT ![p] = NoPoll]
    /\ LET fresh == Fresh(app.lastSeen, poll[p].page) IN
        /\ app' = [app EXCEPT !.shown = @ \cup fresh,
                              !.lastSeen = Position(@, poll[p].page)]
        /\ polled' = [r \in Reports |-> polled[r] + IF r \in fresh THEN 1 ELSE 0]
    /\ UNCHANGED <<stored, server, events, breaks>>

-----------------------------------------------------------------------------

Next ==
    \/ \E r \in Reports, at \in Times : Submit(r, at)
    \/ \E r \in Reports, kind \in {"submitted", "enriched"} : Publish(r, kind)
    \/ \E s \in Streams : Subscribe(s) \/ Leave(s) \/ NextItem(s) \/ Connected(s)
    \/ Refused \/ Break \/ Reconnect
    \/ \E p \in Polls : PollAsks(p) \/ PollReads(p) \/ PollFails(p) \/ PollAnswers(p)

Spec == Init /\ [][Next]_vars

-----------------------------------------------------------------------------
(* Properties. *)

AppType == [sse : {"down", "asking", "up"}, retry : BOOLEAN, stream : Streams \cup {NoStream},
            leftover : BOOLEAN, lastSeen : Times \cup {0},
            shown : SUBSET Reports, told : BOOLEAN]

\* Types, and the bound of every queue.
TypeOK ==
    /\ stored \in [Reports -> Times \cup {0}]
    /\ link \in [Streams -> {"none", "headers", "open", "severed"}]
    /\ queue \in [Streams -> Seq(Events \cup {Lagged})]
    /\ \A s \in Streams : Len(queue[s]) <= QueueMax
    /\ owed \in [Streams -> Nat]
    /\ app \in AppType
    /\ poll \in [Polls -> [at : {"idle", "asked", "read"}, page : Seq(Reports)]]
    /\ polled \in [Reports -> Nat]
    /\ events \in Nat /\ breaks \in Nat

\* A slow subscriber never misses an event silently: as long as it is owed more
\* events than its queue holds, a LAGGED marker waits in that queue, also when a
\* marker was itself the slot that was drained.
GapIsAnnounced ==
    \A s \in Streams : Subscribed(s) =>
        \/ Count(queue[s]) = owed[s]
        \/ \E i \in DOMAIN queue[s] : queue[s][i] = Lagged

\* The polling fallback announces a report once, however often its page is fetched and
\* in whatever order the pages of overlapping polls arrive.
PolledOnce == \A r \in Reports : polled[r] <= 1

=============================================================================
