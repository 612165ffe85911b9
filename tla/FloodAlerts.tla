----------------------------- MODULE FloodAlerts -----------------------------
(***************************************************************************)
(* From the risk table and the moderation queue to push messages:          *)
(* dispatch_alerts, sent by beat every hour, dispatch_report_alert, sent   *)
(* by the moderation view, and the table of alert events they share.       *)
(* Whoever saved a place in a cell is pushed its alerts; a verified        *)
(* report's alert goes to the cells around it too.  The risk table is      *)
(* written as RiskPipeline shows it to be: an hour's rows are all there or *)
(* none is, and a recompute takes them out before it puts them back.       *)
(* Time counts hours; beat sends the dispatch once in each.                *)
(***************************************************************************)
EXTENDS Integers, Sequences, FiniteSets, TLC

CONSTANTS
    Hexes,          \* the cells
    Ring,           \* the cells within two steps of each cell, itself among them
    Forecasts,      \* what a recompute can find: a level for each cell
    Users,
    Places,         \* <<user, cell>>: saved with notify on, by a user with a push token
    Reports,        \* reports in the moderation queue
    HexOf,          \* the cell of each report
    DepthOf,        \* and its depth
    NoReport,
    Workers,        \* the worker's processes
    MaxRetries,     \* max_retries of both tasks
    MaxNow,         \* bound: the last hour
    MaxScores,      \* bound: recomputes
    MaxActions,     \* bound: moderators' decisions
    MaxFaults       \* bound: pushes and tasks that fail, processes killed

ASSUME AlertAssumption ==
    /\ Ring \in [Hexes -> SUBSET Hexes] /\ \A h \in Hexes : h \in Ring[h]
    /\ Forecasts \subseteq [Hexes -> 1..4]
    /\ Places \subseteq Users \X Hexes
    /\ HexOf \in [Reports -> Hexes]
    /\ DepthOf \in [Reports -> {"ANKLE", "KNEE", "WAIST", "VEHICLE"}]
    /\ NoReport \notin Reports
    /\ MaxRetries \in Nat /\ MaxNow \in Nat

VARIABLES
    now,            \* the clock
    snaps,          \* the risk table: <<cell, hour, level>>
    queue,          \* task messages no worker has taken: <<report or none, tries>>
    job,            \* what each worker is doing
    events,         \* the alert events, in the order of creation
    deliveries,     \* one row per event and user
    status,         \* the reports' status
    spent           \* recomputes, decisions, faults, and the deaths among these

vars == <<now, snaps, queue, job, events, deliveries, status, spent>>

AlertLevels == {3, 4}               \* HIGH and SEVERE

DepthToRisk == [ANKLE |-> 2, KNEE |-> 3, WAIST |-> 4, VEHICLE |-> 4]

\* A message of dispatch_alerts names no report.
Idle == [pc |-> "idle", report |-> NoReport, tries |-> 0, at |-> 0, rows |-> {}, event |-> 0, todo |-> {}]

\* A task goes on with the event's next user, then with the next cell, then it ends.
Settled(j) ==
    IF j.todo # {} THEN [j EXCEPT !.pc = "queue"]
    ELSE IF j.rows # {} THEN [j EXCEPT !.pc = "check", !.event = 0]
    ELSE Idle

\* The rows of the hour that is being forecast.
Ts == now + 1
Rows(forecast) == {<<h, Ts, forecast[h]>> : h \in Hexes}

Cells == Hexes \X (1..4)
JobType ==
    [pc : {"idle", "check", "create", "queue", "send"}, report : Reports \cup {NoReport},
     tries : 0..MaxRetries, at : 0..MaxNow, rows : SUBSET Cells, event : Nat, todo : SUBSET Users]
EventType == [hex : Hexes, level : 1..4, report : Reports \cup {NoReport}, start : 0..MaxNow]

TypeOK ==
    /\ now \in 0..MaxNow
    /\ snaps \subseteq Hexes \X (1..(MaxNow + 1)) \X (1..4)
    /\ queue \subseteq (Reports \cup {NoReport}) \X (0..MaxRetries)
    /\ job \in [Workers -> JobType]
    /\ events \in Seq(EventType) /\ \A w \in Workers : job[w].event \in 0..Len(events)
    /\ deliveries \subseteq [event : DOMAIN events, user : Users, status : {"QUEUED", "DELIVERED", "FAILED"}]
    /\ status \in [Reports -> {"PENDING", "VERIFIED", "REJECTED", "SPAM"}]
    /\ spent \in [scores : Nat, actions : Nat, faults : Nat, deaths : Nat]

Init ==
    /\ now = 0
    /\ \E forecast \in Forecasts : snaps = Rows(forecast)
    /\ queue = {}
    /\ job = [w \in Workers |-> Idle]
    /\ events = <<>>
    /\ deliveries = {}
    /\ status = [r \in Reports |-> "PENDING"]
    /\ spent = [scores |-> 0, actions |-> 0, faults |-> 0, deaths |-> 0]

-----------------------------------------------------------------------------
(* Around the two tasks.                                                   *)

Tick ==
    /\ now < MaxNow
    /\ now' = now + 1
    /\ queue' = queue \cup {<<NoReport, 0>>}
    /\ UNCHANGED <<snaps, job, events, deliveries, status, spent>>

\* RiskPipeline's RiskDelete and RiskWrite.
Blank ==
    /\ \E s \in snaps : s[2] = Ts
    /\ spent.scores < MaxScores
    /\ snaps' = {s \in snaps : s[2] # Ts}
    /\ UNCHANGED <<now, queue, job, events, deliveries, status, spent>>

Score ==
    /\ \A s \in snaps : s[2] # Ts
    /\ spent.scores < MaxScores
    /\ spent' = [spent EXCEPT !.scores = @ + 1]
    /\ \E forecast \in Forecasts : snaps' = snaps \cup Rows(forecast)
    /\ UNCHANGED <<now, queue, job, events, deliveries, status>>

\* The moderation view looks at no status: a report may be decided upon again.
Decision == [VERIFY |-> "VERIFIED", REJECT |-> "REJECTED", SPAM |-> "SPAM"]

\* Mutant: the verdict is saved and its alert forgotten.
Moderate_Unsaved(r, act) ==
    /\ spent.actions < MaxActions
    /\ spent' = [spent EXCEPT !.actions = @ + 1]
    /\ status' = [status EXCEPT ![r] = Decision[act]]
    /\ UNCHANGED <<now, snaps, queue, job, events, deliveries>>

Moderate(r, act) ==
    /\ spent.actions < MaxActions
    /\ spent' = [spent EXCEPT !.actions = @ + 1]
    /\ status' = [status EXCEPT ![r] = Decision[act]]
    /\ queue' = IF act = "VERIFY" THEN queue \cup {<<r, 0>>} ELSE queue
    /\ UNCHANGED <<now, snaps, job, events, deliveries>>

\* A worker acknowledges a message before it runs it.
Take(w, m) == job[w].pc = "idle" /\ m \in queue /\ queue' = queue \ {m}
Started(m) == [Idle EXCEPT !.report = m[1], !.tries = m[2], !.at = now]

-----------------------------------------------------------------------------
(* dispatch_alerts.                                                        *)

\* HIGH and SEVERE rows of the last two hours, the newest such row of each cell.
UniqueSnapshots ==
    LET recent == {s \in snaps : s[3] \in AlertLevels /\ s[2] >= now - 2} IN
    {<<s[1], s[3]>> : s \in {x \in recent : \A y \in recent : y[1] = x[1] => y[2] <= x[2]}}

AlertsRead(w, m) ==
    /\ Take(w, m) /\ m[1] = NoReport
    /\ job' = [job EXCEPT ![w] = Settled([Started(m) EXCEPT !.rows = UniqueSnapshots])]
    /\ UNCHANGED <<now, snaps, events, deliveries, status, spent>>

\* The next cell in the order of its index.
NextRow(w) == CHOOSE r \in job[w].rows : TRUE

\* Mutant: an alert of the cell, at whatever level, silences the next.
Silenced_AnyLevel(row, at, early) ==
    \E i \in DOMAIN events :
        /\ events[i].hex = row[1]
        /\ events[i].start = at \/ (early /\ events[i].start = at - 1)

\* An alert of that cell and level in the last hour, whatever its source: one of the
\* hour before may be more or less than an hour old.
Silenced(row, at, early) ==
    \E i \in DOMAIN events :
        /\ events[i].hex = row[1] /\ events[i].level = row[2]
        /\ events[i].start = at \/ (early /\ events[i].start = at - 1)

AlertsCheck(w) ==
    /\ job[w].pc = "check"
    /\ \E early \in BOOLEAN :
        job' = IF Silenced(NextRow(w), job[w].at, early)
               THEN [job EXCEPT ![w] = Settled([job[w] EXCEPT !.rows = @ \ {NextRow(w)}])]
               ELSE [job EXCEPT ![w].pc = "create"]
    /\ UNCHANGED <<now, snaps, queue, events, deliveries, status, spent>>

Subscribers(cells) == {u \in Users : \E h \in cells : <<u, h>> \in Places}
Event(h, level, report, at) == [hex |-> h, level |-> level, report |-> report, start |-> at]
Audience(event) == Subscribers(IF event.report = NoReport THEN {event.hex} ELSE Ring[event.hex])

\* Mutant: an event of that cell, level and report is taken up again.
Create_Again(w, j, event) ==
    LET same == {i \in DOMAIN events : /\ events[i].hex = event.hex /\ events[i].level = event.level
                                       /\ events[i].report = event.report}
        n == IF same = {} THEN Len(events) + 1 ELSE CHOOSE i \in same : TRUE IN
    /\ events' = IF same = {} THEN Append(events, event) ELSE events
    /\ job' = [job EXCEPT ![w] = Settled([j EXCEPT !.event = n, !.todo = Audience(event),
                                                   !.rows = {r \in @ : r[1] # event.hex}])]

\* The event is committed before the first push.
Create(w, j, event) ==
    /\ events' = Append(events, event)
    /\ job' = [job EXCEPT ![w] = Settled([j EXCEPT !.event = Len(events) + 1, !.todo = Audience(event),
                                                   !.rows = {r \in @ : r[1] # event.hex}])]

AlertsCreate(w) ==
    /\ job[w].pc = "create"
    /\ Create(w, job[w], Event(NextRow(w)[1], NextRow(w)[2], NoReport, job[w].at))
    /\ UNCHANGED <<now, snaps, queue, deliveries, status, spent>>

-----------------------------------------------------------------------------
(* dispatch_report_alert: one event per message, none looked for before.   *)

ReportAlertsCreate(w, m) ==
    /\ Take(w, m) /\ m[1] # NoReport
    /\ Create(w, Started(m), Event(HexOf[m[1]], DepthToRisk[DepthOf[m[1]]], m[1], now))
    /\ UNCHANGED <<now, snaps, deliveries, status, spent>>

-----------------------------------------------------------------------------
(* The pushes of either.                                                   *)

NextUser(w) == CHOOSE u \in job[w].todo : TRUE
Delivery(w, outcome) == [event |-> job[w].event, user |-> NextUser(w), status |-> outcome]

QueueRow(w) ==
    /\ job[w].pc = "queue"
    /\ deliveries' = deliveries \cup {Delivery(w, "QUEUED")}
    /\ job' = [job EXCEPT ![w].pc = "send"]
    /\ UNCHANGED <<now, snaps, queue, events, status, spent>>

Sent(w, outcome) == deliveries' = (deliveries \ {Delivery(w, "QUEUED")}) \cup {Delivery(w, outcome)}

Fault(deaths) ==
    /\ spent.faults < MaxFaults
    /\ spent' = [spent EXCEPT !.faults = @ + 1, !.deaths = @ + deaths]

\* Mutant: the first push that fails ends the loop over the users.
Send_Stops(w) ==
    /\ job[w].pc = "send"
    /\ \/ /\ Sent(w, "DELIVERED") /\ UNCHANGED spent
          /\ job' = [job EXCEPT ![w] = Settled([job[w] EXCEPT !.todo = @ \ {NextUser(w)}])]
       \/ /\ Sent(w, "FAILED") /\ Fault(0)
          /\ job' = [job EXCEPT ![w] = Settled([job[w] EXCEPT !.todo = {}])]
    /\ UNCHANGED <<now, snaps, queue, events, status>>

\* A push that fails is recorded, and the next user's goes out.
Send(w) ==
    /\ job[w].pc = "send"
    /\ \/ Sent(w, "DELIVERED") /\ UNCHANGED spent
       \/ Sent(w, "FAILED") /\ Fault(0)
    /\ job' = [job EXCEPT ![w] = Settled([job[w] EXCEPT !.todo = @ \ {NextUser(w)}])]
    /\ UNCHANGED <<now, snaps, queue, events, status>>

\* The database fails: self.retry sends the whole task again, or it has failed.
Fail(w) ==
    /\ job[w].pc # "idle"
    /\ Fault(1)
    /\ queue' = IF job[w].tries < MaxRetries THEN queue \cup {<<job[w].report, job[w].tries + 1>>} ELSE queue
    /\ job' = [job EXCEPT ![w] = Idle]
    /\ UNCHANGED <<now, snaps, events, deliveries, status>>

\* A worker is killed in its task, or with one it has just taken.
Die(w) ==
    /\ Fault(1)
    /\ \/ job[w].pc # "idle" /\ UNCHANGED queue
       \/ \E m \in queue : Take(w, m)
    /\ job' = [job EXCEPT ![w] = Idle]
    /\ UNCHANGED <<now, snaps, events, deliveries, status>>

-----------------------------------------------------------------------------
Task(w) ==
    \/ \E m \in queue : AlertsRead(w, m) \/ ReportAlertsCreate(w, m)
    \/ AlertsCheck(w) \/ AlertsCreate(w) \/ QueueRow(w) \/ Send(w)

Next ==
    \/ Tick \/ Blank \/ Score
    \/ \E r \in Reports, act \in DOMAIN Decision : Moderate(r, act)
    \/ \E w \in Workers : Task(w) \/ Fail(w) \/ Die(w)

\* Beat ticks and the workers work; clock and tasks are bounded, so that going on at all
\* is going on to the end.  Moderators and recomputes owe nothing.
Progress == Tick \/ \E w \in Workers : Task(w)
Fairness == WF_vars(Progress)

Spec == Init /\ [][Next]_vars /\ Fairness

-----------------------------------------------------------------------------
\* Every cell whose newest row is HIGH or SEVERE is announced at that level to all who
\* saved a place in it, if a dispatch is still to come: whatever was announced of it at
\* another level, and whether or not a verified report was faster, once no later or
\* repeated recompute takes the row's place (alerts/tasks.py:58-145).
Newest(row) == row \in snaps /\ \A s \in snaps : s[1] = row[1] => s[2] <= row[2]
Announced(h, level) ==
    \A u \in Subscribers({h}) : \E d \in deliveries :
        /\ d.user = u /\ d.status = "DELIVERED"
        /\ events[d.event].hex = h /\ events[d.event].level = level
DangerIsAnnounced ==
    (now < MaxNow /\ spent.scores = MaxScores)
        ~> \/ \A row \in snaps : (Newest(row) /\ row[3] \in AlertLevels) => Announced(row[1], row[3])
           \/ spent.faults > 0

\* A verified report is pushed to everyone with a place around it, or their failed push
\* is on file, unless a process dies or a task fails (moderation.py:74-76,
\* alerts/tasks.py:193-246).
VerifiedReachesNeighbours ==
    \A r \in Reports :
        status[r] = "VERIFIED"
            ~> \/ \A u \in Subscribers(Ring[HexOf[r]]) : \E d \in deliveries :
                    d.user = u /\ d.status # "QUEUED" /\ events[d.event].report = r
               \/ spent.deaths > 0

\* A failing push never costs the next resident the warning: as long as no task died or
\* failed, the dispatch leaves an event only when each of its users has an outcome on
\* file, delivered or failed (alerts/tasks.py:117-145, 214-246).
EveryUserHasAnOutcome ==
    spent.deaths = 0 =>
        \A i \in DOMAIN events :
            \/ \E w \in Workers : job[w].event = i
            \/ Audience(events[i]) \subseteq
                    {d.user : d \in {x \in deliveries : x.event = i /\ x.status # "QUEUED"}}

\* An event's pushes go to its audience, and to each of them once: two workers that
\* announce the same danger, and a task that is retried after its first pushes, write
\* each to an event of their own (alerts/tasks.py:106-121, 193-221).
OnePushEach ==
    /\ \A d \in deliveries : d.user \in Audience(events[d.event])
    /\ \A a, b \in deliveries : (a.event = b.event /\ a.user = b.user) => a = b

=============================================================================
