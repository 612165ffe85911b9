# FloodGuard: a verification project

FloodGuard takes flood and coastal hazard reports by telephone and from a mobile
app, enriches and groups them, and turns rain forecasts and reports into a risk
map, push warnings and a moderation queue. This directory holds TLA+ models of
it, the TLC runs that check them, and TLAPS proofs that the safety properties of its
concurrent parts hold for every number of processes, rows, reports and faults. Paths
are relative to the repository; `fg_voice/` stands for
`ai-calling-agent/src/fg_voice/`, `apps/` for `backend/apps/`.

1. [The system](#the-system)
2. [The modules and how they correspond to the code](#the-modules)
3. [The runs](#the-runs)
4. [Fairness](#fairness)
5. [What is proved](#what-is-proved)
6. [Where code and documents disagree](#where-code-and-documents-disagree)
7. [What is not modelled](#what-is-not-modelled)
8. [Plan](#plan)

## The system

The interesting state lives in seven places: the call state in Redis, the reports
and outbox tables in the voice agent's database, the gazetteer snapshot on disk,
the queues of the event broker, the backend's database, the CSV file, and the
phone's local queue. The processes around them are requests (Twilio webhooks,
operators, moderators, the app), long-running loops (the relay, the dead-letter
monitor, the streaming runner, SSE streams, the snapshot poller) and Celery tasks.

```
 caller -- Twilio -+- webhooks -- TurnDriver ---+-- report sink --+-- reports
                   +- media  ---- StreamingCall-+   call state    +-- outbox --+
                                                    (Redis)                    |
 operators -- dead-letter API ------------------------------------> outbox   relay
 monitor   -- counts dead letters --------------------------------> outbox   replicas
 app, console <-- SSE <-- broker <-- CSV <-- alerts <-- enrichment <-----------+
 caller -- pin form, erasure --------------------------> reports <-- enrichment
 builder -- snapshot, marker --> place index --> extraction of a call

 forecasts, stations --> ingest tasks --> stages, factors --> recompute --> risk map
 phone queue --> submit_report --> moderation --> dispatch_report_alert --+
 risk map --> dispatch_alerts --------------------------------------------+--> pushes
```

| Component | State | What is hard | What makes it correct |
|---|---|---|---|
| Outbox, relay, dispatchers (`fg_voice/persistence/`) | rows with `dispatched_at`, `retry_count`; one transaction per batch; effects outside it | several replicas, a death in the middle of a batch, one dispatcher of a chain fails | at-least-once delivery, isolation of replicas, duplicates have a cause, every row settles |
| Dead-letter API and monitor (`api/routes_dlq.py`, `dlq_monitor.py`) | the same rows; a peak | reads without a lock, writes later; samples of a moving count | delivered rows stay delivered; only operators revive; warnings mean growth |
| Call script (`conversation/graph.py`, `policies.py`, `nodes.py`, `safety.py`) | node, attempt, slots, flags | loops, old slots, three limits on attempts | a report has all its answers; the ladder ends |
| Turn driver, report sink, text offer (`conversation/driver.py`, `sql_report_sink.py`, `api/routes_gather.py`, `sms_pin_offer.py`) | a call state per call, whole copies in handlers, report rows | two posts of one turn, lost state, faults, check then insert | the caller hears the reference of a report that is stored |
| Streaming runner (`conversation/runner.py`, `pipeline/`) | call state, speculation, an event queue | clips and timers around one loop, cancellation, deaths | final words decide; danger ends the questions; the call ends |
| Enrichment, pin, erasure (`enrichment/`, `api/routes_pin.py`, `routes_privacy.py`) | report rows, groups | a long time between read and write, concurrent flows | one group per incident and one incident per group, scores that fit, erased stays erased |
| Broker and SSE (`persistence/broker.py`, `api/routes_reports.py`), the app's client (`mobile/lib/data/api/voice_reports_sse.dart`) | bounded queues, a position | full queues, reconnects, overlapping polls | a gap is announced; the polls announce a report once |
| Extraction and retrieval (`extraction/`, `rag/`, `geocoders/`) | tables; a snapshot and a marker | order of rules, rounding, files that are replaced while read | phrases are understood; places are served as curated |
| Backend ingest and risk (`apps/ingest`, `apps/risk`) | stages, factors, snapshots, logs | beat, retries and a script at once; delete and insert apart | one fetch, one recompute, never a map with holes or with the level of another hour |
| Backend alerts and moderation (`apps/alerts`, `apps/adminapi/moderation.py`) | events, deliveries | commits between pushes, suppression, retries | danger is announced; nobody is skipped or pushed twice |
| Report intake (`apps/reports`, `mobile/lib/features/report`) | the phone's queue, rows by `client_uuid` | two senders, late answers, deaths | stored once, forgotten only then, arrives |
| Console, probes, rollout, boot (`api/`, `main.py`, `scripts/`), public views, staff views (`apps/*/views.py`, `apps/adminapi`) | tables they read, a cached list of districts | pages, rounding, counting the same things by different rules | answers agree with each other |

The list of hazards, each at the line where it bites and with the properties
that cover it, is in `PROJECT.json`.

## The modules

| Module | Models |
|---|---|
| `OutboxRelay` | the outbox table, relay replicas, the dispatcher chain, the dead-letter API |
| `EventDelivery` | what the outbox promises: an abstract specification that `OutboxRelay` implements |
| `OutboxRelay_proofs` | theorems about `OutboxRelay`, its refinement of `EventDelivery`, and `DlqMonitor` |
| `DlqMonitor` | extends `OutboxRelay` with the monitor |
| `ConversationGraph` | the call script as constant operators, and what one caller turn does to a dialog |
| `TurnDriver` | extends `ConversationGraph` with Twilio's line, concurrent handlers, Redis, the report sink and the text message |
| `StreamingCall` | extends `ConversationGraph` with the streaming loop, Flux, the keypad, the time limit and a worker's death |
| `Enrichment` | flows of several replicas, dedupe groups, pin and erasure over the report rows; extends `Gazetteer` |
| `Gazetteer` | the look-up of districts and mandals in a sequence of pieces of words |
| `EventStream` | broker queues, the SSE endpoint, the app's client with its poller |
| `PlaceResolution` | the place index: names, sounds, spelling, fusion, priors |
| `PlaceIndex` | extends it with the builder of snapshots, the marker and a worker that boots and polls |
| `RiskEngine` | hazard classes, susceptibility, the risk matrix, confidence, texts |
| `RiskPipeline` | extends it with beat, workers, `run_ingest.py`, ingest, bias and recompute over the tables |
| `FloodAlerts` | the hourly dispatch, the alert of a verified report, moderation, pushes |
| `ReportIntake` | the phone's queue and its two senders, the network, `submit_report` |
| `ReportHandover` | what phone and backend promise of a report: an abstract specification that `ReportIntake` implements |
| `RainFeeds`, `PublicViews`, `AdminReview`, `Listings`, `Extraction` | computations without state: forecasts and observations; what residents, staff and officers are answered; what words mean |
| `Ops` | rollout, surge switch, on-call helper, probes, boot, doors of a call, session rows, media socket |
| `Algorithms` | asks those computations every input of bounded sets |
| `ReportIntake_proofs`, `EventStream_proofs`, `RiskPipeline_proofs`, `TurnDriver_proofs`, `FloodAlerts_proofs`, `StreamingCall_proofs`, `Enrichment_proofs` | theorems about the module of that name |
| `MC*` | values for constants that a `.cfg` cannot write, and symmetry sets |

### OutboxRelay

`row[r]` is an outbox row. `purged` tells a `dispatched_at` that an operator set
from one that the relay set; in the code only the text of `last_error` does.
`relay[p]` is the transaction of replica `p`: the rows of the batch still to do,
the position in the chain, whether a dispatcher already raised for the current
row, and the uncommitted marks. `Claim` is the select with
`FOR UPDATE SKIP LOCKED` (`relay.py:174-206`), `Ignore`, `Perform` and `Raise`
are one dispatcher call each (`dispatchers.py:51-64`), `Handled` is `_handle_one`
(`relay.py:208-229`), `Commit` and `Rollback` are the two ways out of
`session.begin()`. A call that raises may have had its effect or not, and the
chain goes on with the next dispatcher in either case. `AdminRead` and
`AdminWrite` are the two halves of `retry` and `purge`: the select takes no lock,
the update waits for the lock of whoever holds the row and then overwrites.
`heard` counts effects and `spoiled` counts passes over a row that failed or were
rolled back; both are history and no guard reads them.

A rolled back claim is not special: the marks were only in `relay[p]`. The reply
of a commit that is lost is a commit, and the relay polls again. PostgreSQL
semantics are assumed, as the fallback to a plain select (`relay.py:191-205`) is
documented as being for tests.

Rows are numbered in `created_at` order but may be submitted in any order, since
a transaction that started earlier may commit later. An enrichment commits its
`report.enriched` row in a transaction of its own, while the relay's transaction
is still open; `Appended` does the same.

### DlqMonitor

`Scan` is one `_scan_once` (`dlq_monitor.py:84-112`), `Restart` forgets the peak
with the process, `Background` is any step of the relay. A scan counts with one
query, so it is one step.

### ConversationGraph

`Edges` lists the guarded edges of `graph.py:209-398` in their order, `Target`
takes the first open one, `Walk` is the loop of `driver.py:172-221` up to the
next question, terminal node or `SUBMIT`. `Applied` is `_apply_input`:
tripwire, extraction or keypad, slot, edge, or a rung of the ladder. An
utterance is one of nine words; each stands for all utterances that the keyword
rules treat alike (`storm` for the hazards with a water depth, `oil` for the
others). A free text slot remembers whether the words answered its own question.
Location confidence is the constant 0.6 that the extractor gives to any words,
so the branches for a resolved and for an ambiguous location are dead, as they
are in the code until the gazetteer is wired in.

### TurnDriver

`line` is Twilio: the phase of the call, the handler whose answer it waits for,
and the question the caller heard last. `task[h]` is a request in service with
its own copy of the call state. `store` is the key in Redis, `reports` the
report rows with their outbox rows. The steps of a handler are its awaits: load
and apply (`Step`), the idempotency check (`Lookup`), mint, insert and commit
(`Insert`, or `InsertConflict`, or `InsertRefused`), `Save`, `Answer`. The work
between the load and the next await runs on a copy, so it is part of the same
step. `Taken` are identifiers whose four-character short reference collides with
that of an earlier report, which makes `_mint_short_ref` add a suffix.

### StreamingCall

`pc` is where the loop of `runner.py` awaits: in a clip (`play`, `ack`), in
`next_event` (`listen`), or nowhere (`walk`). A clip is awaited before events are
read, so events wait in `wire`. `dialog` is the worker's call state and `saved`
the one in Redis. `draft` is the transcript of the speculation in hand, dropped,
replaced or committed as in `eager_eot.py`. `Deadline` is the cancellation of
`asyncio.wait_for`: a clip that may be interrupted swallows it
(`runner.py:497-503`), so does the await of a speculation whose words are the final ones
(`eager_eot.py:154-160`), and it does not come again. Any eager event may precede
any final one, with other words; nothing is assumed of Flux.

### Enrichment and Gazetteer

A flow is `Assemble`, `Extract`, `Dedupe`, `Persist` or its failure, with
everything else in between. `assemble.py:33` keeps no reference to the row, so that
`session.get` in `persist.py:61` may find it in the session or select it again: `Held` has
both. `Persisted` writes the columns that differ from the row held and leaves the others
as they are now, which is what SQLAlchemy does and what an erasure in between relies on.
A flow that holds the loaded row leaves a pin alone when it resolves the place to the value
it loaded; one that selected again overwrites it.
Reports are numbered by `created_at` and submitted in that order. `Grouped` is the text
window with its back-fill. `Nearness` and `Alike` are tables of the instance, since what counts is only who is alike. `leaked` counts
the events that repeat a caller's words after they were erased; `astray` remembers that
two flows were ever under way at once or that a hazard was revised.

`text_window.py:22-39` promises a group per incident without saying what an incident
is. Three reports of which only neighbours are within the window are joined to one
group or to two, depending on the order of the flows; so are reports at a mandal and at
its district, and reports whose hazard was revised and revised back. `Incidents` are the
sets of reports for which the promise can be meant: they agree in hazard, place and
words, no two are further apart than the window, and no flow may take another report for
one of them. Of those `OneGroupPerIncident` and `IncidentsStayApart` state both
directions, as long as flows do not overlap, no hazard was revised, and no report was
pinned or erased.

### EventStream

A publish reaches every queue in one step, because there is no await between two
queues; the subscription comes after the reply's headers, and a connection the
server still serves may have broken. `owed` counts the events a subscriber is
owed and its queue did not hold. The client's parse fails for events without
`updated_at`, which is every event; see the disagreements. A poll is asked for, read by
the server, and applied or failed in three steps, and several are in flight at once
(`Polls`): the timer's tick does not wait for the last answer, and an answer may take
longer than a tick. Their pages arrive in any order. One listener stays for the life of
the client; what listeners that come and go add (a second stream beside a pending
reconnect, `_start` and `_stopIfIdle`) is left out, except for the extra poll in flight.

### PlaceResolution and PlaceIndex

A text is a sequence of words and a word a sequence of pieces, so that a name can
be in another, and be spelt or sound like another; the tables `SoundsOf` and
`Spelt` say which do. `Resolution` computes the three signals, their weights,
priors, truncation to the best and order. In `PlaceIndex` each file operation is a
step: opening for writing empties the file, so a reader may find it empty; two
builds of one second carry one stamp. `booted` is history: the last build that had begun
when the worker had read its marker. `NoReloadIsMissed` speaks of the builds after it
whose second no earlier build has; the two ways in which a reload is missed, a boot in the
middle of a build and two builds of one second, are listed under the disagreements. That a
worker polls at all is what the docstring of `snapshot.py` asks of its caller: nothing in
`src/` calls `SnapshotLoader` but its tests.

### RiskEngine, RiskPipeline

Rain is in tenths of a millimetre, scores in whole points. Time counts quarters of an hour;
beat sends a task when its minute comes, and a task that is still queued when the next is
sent is one message. The clock waits until an idle worker has taken what is queued
(`Prompt`): tasks take any time, workers die and stay busy for hours, but there is no
outage of all workers in which messages pile up. A process is a program counter with the
rows it has read: `ingest` checks, fetches and inserts; the recompute reads the newest
run, the factors and the rows of the run (`risk/tasks.py:34-69`), deletes, and inserts in a
transaction. All processes of a deployment fetch from one source: the unique key
(`ingest/models.py:39-42`) also has the column `source`, so that rows of a mock fetch and of
a live one would not conflict, and both would be scored. `stage` and
`snaps` carry who wrote a row, as history. `LevelsAreOfTheForecast` compares each level on
file with what the forecast of its own time may give under some factor.

### FloodAlerts

`queue`, `job` and the clock are as in `RiskPipeline`. A dispatch reads the cells'
newest rows, decides for each whether an event of that cell and level within the
hour silences it, commits the event, then pushes to one user after another, each
with its delivery row. The recompute is `Blank` and `Score`, since the pipeline
shows that rows of an hour are all there or none is.

### ReportIntake

`outbox` is the phone's table, `sender` what the screen and the background flush
do, `requests` what the server works on, also when its sender has given up.
`Check` and `Create` are the two halves of `submit_report`; a late second insert
meets the unique column and fails. A photo's file may be cleared away while its
row waits, and then no form can be built from it. `Status` reads a report's status off
both tables: queued on the phone, filed in the backend, handed over once the phone has
marked it; `ReportHandover` says how it may move. A report with two rows, or marked
without one, reads "twice" or "lost", which no step of the handover reaches.

### The computations

`RainFeeds`, `PublicViews`, `AdminReview`, `Listings` and `Extraction` are pure
operators, one per function or handler, over sets and sequences of records.
Remote answers, caches and clocks are parameters. `Ops` is the same for handlers
that write one row or one parameter: the new value is the operator's result.
`Algorithms` has one action per kind of question; each takes an input from a
constant set and ends, and the promises are invariants over the input.

## The runs

All runs finish; none of the state spaces is cut by a constraint. Bounds are
constants that guards of the modules mention.

| Run | Checks | Instance |
|---|---|---|
| `OutboxRelay_delivery` | `NoSharedRow`, `DuplicatesAreAccounted`, `ImplementsDelivery` | two replicas, two rows, batches of two, chain alert + enrichment, one rollback, two requests, cap 1 |
| `OutboxRelay_operators` | `SettledRowsStay`, `EverySubmissionSettles` | two replicas, two operators, two rows, batches of one, cap 2, two requests |
| `DlqMonitor_tracking` | `WarningMeansGrowth`, `StandingQueueIsTracked` | three rows, threshold 2, one replica, one request |
| `TurnDriver_call` | `SpokenRefIsStored`, `ReportsAreComplete`, `SilentCallerIsLetGo` | two handlers, one turn posted twice, a crash, a fault, a lost call state, two identifiers of which one collides |
| `StreamingCall_turns` | `DangerEndsTheQuestions`, `DeathCostsOneAnswer`, `FinalWordsCount`, `CallEnds` | seven words, a key, two attempts, eight events from the caller, one waiting event |
| `Enrichment_rows` | `LeaksAtMostOnce`, `OneGroupPerIncident`, `IncidentsStayApart`, `ScoresCatchUp`, `ErasedStaysErased` | two replicas, four reports of two callers and two incidents, three flows, a window of three, a pin, an erasure |
| `PlaceIndex_reload` | `ServedAsCurated`, `ExactNameWins`, `NoReloadIsMissed` | two corpora, two builds, two seconds, a builder that dies, a restart |
| `EventStream_feed` | `GapIsAnnounced`, `PolledOnce` | two reports, two streams, queues of two, pages of two, two polls in flight, five events, a break |
| `RiskPipeline_hours` | `ForecastIsOneFetch`, `ServedMapIsWhole`, `LevelsAreOfTheForecast`, `ForecastIsScored` | two cells, two rains, one factor, a worker and the script, six quarters of an hour, one failed fetch or death |
| `FloodAlerts_push` | `EveryUserHasAnOutcome`, `OnePushEach`, `DangerIsAnnounced`, `VerifiedReachesNeighbours` | two cells, two residents, two workers, a report, one recompute, one fault |
| `ReportIntake_sync` | `EveryReportArrives`, `ImplementsHandover` | two reports, two senders, two faults |
| `Algorithms` | `RainFitsHourAndPlace`, `MapViewsAgree`, `StaffViewsAgree`, `PagesFollowTheExport`, `WordsAreUnderstood`, `NobodyIsBlockedUnlisted` | 148,173 inputs |

Why the bounds are enough.

* Outbox. Two replicas and two rows give every way of sharing, splitting and
  overtaking that the claim allows: a row interacts with another one only through
  the batch limit, its order and its transaction. Two requests are what a race of a
  retry with a purge takes. Cap 1 in the delivery run keeps the passes few and the
  refinement small; cap 2 in the other run has a row that fails and is tried again
  before it dies. With three rows and a threshold of two the depth can be below, at
  and above the threshold.
* Calls. Two handlers and one retry are the smallest race between posts of a turn;
  further retries repeat it. The words of `TurnDriver_call` walk the shortest script;
  the loops of the script (restart, the question of the depth, danger) are in the
  vocabulary of `StreamingCall_turns`, which walks the same `ConversationGraph`. A
  full script is seven answers, so eight events leave one to spare for noise; since
  the queue is only read between clips, one waiting event is one that came too
  early.
* Enrichment. Three reports of one incident are the smallest group that two flows can
  join and back-fill in different orders; three flows enrich all of them, or one twice. A
  window of three is the shortest that holds them with a report of another incident
  among them, which shares hazard, place and time and is told apart by its words alone:
  it can land in their group and be taken for one of them.
* Event stream. A queue of two overflows until the marker itself is the slot that
  is drained, which takes five events.
* Place index. Two builds in two seconds can share a second or not; a worker can read
  the marker of one and the snapshot of the other. Corpora and fragments have names
  inside names, a variant that is another place's name, a name in two tiers, and a
  misspelling.
* Backend. Six quarters of an hour hold two ingests, two recomputes and a launch of
  the script between any two of their steps; a cell that is read early and one that
  is read late is all a mixed table needs; two rains that differ by a level tell the hours
  of two runs apart. One fault, because a second
  meets the same code as the first. Two residents are one before and one after a push
  that fails. One decision on the report: with a second, which may repeat or reverse the
  first, the run would not end in time; on an instance of one hour with two decisions its
  properties hold as well.
* Intake. Two reports, so that one can be lost behind the other; two faults, so that
  the retry of a lost request can be lost as well.
* Algorithms. Sequences up to five hours with gaps, grids up to four samples, maps of
  three cells with every look, four rows with ties, two reports of staff, pairs of all
  phrases of the vocabulary, rollout histories of four events.

Every property of a run has a mutant in `PROJECT.json`: a plausible bug, such as a
dropped condition of the claim, a chain that swallows errors, a ladder that does not
end, or a cursor that names the row it peeked at, with which TLC finds the property
violated. The modules also state properties that no run lists, because what a run checks
contains them or a theorem does. Each holds on the instance of its run when it is added
to the `.cfg`: the type invariants (`DlqMonitor!MTypeOK`, `RiskPipeline!PTypeOK` and the
`TypeOK` of the other state machines, most of them proved as a part of `IInv`);
`SyncedIsStored` and `StoredOnce` of the intake, which `ImplementsHandover` contains, since
a report marked without a row, or with two, has a status the handover does not know;
`DispatchedIsFinal` and `OnlyOperatorsReviveRows`, the two halves of `SettledRowsStay`.

`CHECK_DEADLOCK FALSE` stands where the system may stop: a bounded table is full and
every row settled, a call is over, a clock is at its bound, a question is answered.

## Fairness

* `OutboxRelay!FairSpec`: weak fairness of each replica's step. `run()`
  (`relay.py:133-160`) calls `drain_once` again after every outcome, exceptions
  included, and a claim skips rows that are locked. Nothing is assumed of callers,
  operators, rollbacks or the outcome of a dispatcher: it may fail every time.
* `DlqMonitor!MSpec`: weak fairness of the scan, whose loop catches everything. The
  relay needs none there.
* `TurnDriver!FairSpec`: one of the handlers' steps, Twilio's ring, the post of a
  silence (`twilio_twiml.py:110-126`) and its webhook timeout happens as long as one
  can. The caller owes nothing; `SilentCallerIsLetGo` assumes that the caller says
  nothing more from some time on. A caller who answers "restart" for ever keeps the
  line.
* `StreamingCall!FairSpec`: weak fairness of the loop's own step, a coroutine whose
  awaits are clips and timers that end. The time limit is not fair, since it may
  strike where it is swallowed, so `CallEnds` does not lean on it; the caller's events
  are bounded.
* `RiskPipeline!PFairSpec` and `FloodAlerts!Spec`: something of the clock, of taking a
  message and of a task's step happens as long as it can. Messages are acknowledged
  before they are run, so a task may die with its worker; the liveness properties say
  what a death excuses.
* `ReportIntake!Spec`: WorkManager repeats the flush every 15 minutes while there is a
  network (`report_sync.dart:52-66`), a sender goes on, the server answers. Faults are
  bounded.

No other run assumes fairness.

## What is proved

Eight modules of proofs. A theorem holds for every value of the constants that
satisfies the named `ASSUME`s, which only say what a constant is: that rows, times
and reports are numbers, that limits are natural numbers, that tables of the instance
(rain, neighbours, what callers say) are functions of the right kind, that the chain
names no dispatcher twice, that `NoId`, `NoReport` and `Script` are none of the things they
stand beside, and that no caller says the text `[ERASED]`. TLC evaluates all of them on
the instances of the runs. Each module proves that its `IInv` holds initially, that
each action preserves it, one lemma per action, and that it implies the property. TLC
found each `IInv` invariant on the instance of its run (with five events for
`StreamingCall`) before it was proved.

| Module | Theorem | States |
|---|---|---|
| `OutboxRelay_proofs` | `TypeCorrect`, `InvariantHolds` | `TypeOK`, `IInv` always |
| | `ReplicasAreIsolated` | `NoSharedRow` and `HeldRowsStayClaimable` always |
| | `RetriesStayCapped` | `RetriesCapped` always |
| | `DispatchedRowsWereHeard` | `DispatchedWasHeard` always |
| | `DuplicatesHaveACause` | `DuplicatesAreAccounted` always |
| | `DispatchedStaysFinal` | `DispatchedIsFinal` |
| | `DeadLettersWaitForOperators` | `OnlyOperatorsReviveRows` |
| | `SettledRowsAreLeftAlone` | `SettledRowsStay`, both of them |
| | `RelayImplementsDelivery` | `ImplementsDelivery`, the refinement of `EventDelivery` |
| | `MonitorInvariant`, `WarningsMeanGrowth` | `MInv`, `WarningMeansGrowth` of `DlqMonitor` |
| `ReportIntake_proofs` | `SyncedReportsAreStored` | `SyncedIsStored` always |
| | `ReportsAreStoredOnce` | `StoredOnce` always |
| | `IntakeImplementsHandover` | `ImplementsHandover`, the refinement of `ReportHandover` |
| `EventStream_proofs` | `GapsAreAnnounced` | `GapIsAnnounced` always |
| | `PollsAnnounceOnce` | `PolledOnce` always |
| `RiskPipeline_proofs` | `ForecastsAreOneFetch` | `ForecastIsOneFetch` always |
| | `ServedMapsAreWhole` | `ServedMapIsWhole` always |
| | `LevelsFitTheForecast` | `LevelsAreOfTheForecast` always |
| | `MoreRainIsNoSafer` | the level rises with the rain and with the susceptibility of a cell |
| `TurnDriver_proofs` | `SpokenRefsAreStored` | `SpokenRefIsStored` always |
| | `StoredReportsAreComplete` | `ReportsAreComplete` always |
| `StreamingCall_proofs` | `DangerIsHeeded` | `DangerEndsTheQuestions` always |
| | `DeathsCostOneAnswer` | `DeathCostsOneAnswer` always |
| | `FinalWordsDecide` | `FinalWordsCount` |
| `Enrichment_proofs` | `OneLeakAtMost` | `LeaksAtMostOnce` always |
| | `ScoresAreOfTheRow` | `ScoresCatchUp` always |
| | `ErasureIsFinal` | `ErasedStaysErased` |
| | `IncidentsAreOneGroup` | `OneGroupPerIncident` always |
| | `IncidentsAreApart` | `IncidentsStayApart` always |
| `FloodAlerts_proofs` | `UsersHaveOutcomes` | `EveryUserHasAnOutcome` always |
| | `PushedOnceEach` | `OnePushEach` always |

The modules after the first also have a theorem that `IInv` holds always, and
`Enrichment_proofs` one that `GroupsInv` does (`GroupsInvariant`).

### The outbox

`DispatchedWasHeard` is not inductive: the commit that sets the
mark is long after the effects. `MarksAreEarned` says the same of marks not yet
committed and of the part of the chain already run for the row in hand, and this
survives each call because a call that raises sets `erred` and takes the row out
of its reach. `DuplicatesAreAccounted` needs to know whether the one free effect
of a dispatcher on a row is already spent (`Spent`), by a delivered row or by the
pass in progress: a commit turns the pass into a delivered or a failed one, a
rollback pays for it in `spoiled`. Both need that a row is in one transaction at
a time (`NoSharedRow`), that the row in hand is not yet marked (`TxShape`), and
that nobody dispatches it meanwhile (`HeldRowsStayClaimable`), which is where the
row lock and the operators' blind writes come in: an operator's write waits for
the lock, so it can move a row only while nobody holds it. `RequestsNameRows`
keeps an operator from writing a row that does not exist.

The refinement has one lemma per kind of step. An effect is a `Reach`, which may record
the event that the enrichment appends; a commit is a `Conclude` of several rows at once,
allowed because `MarksAreEarned` gives each delivered one what it needs; a retry is a
`Requeue`, a purge a `WriteOff`. A claim, a call without effect, a rollback and an
operator's read are stutters. That a purged row is always a dispatched one
(`PurgedIsDispatched`) is what lets the abstract status be read off the row.

`WarningMeansGrowth` needs that a scan knows as its peak what it was shown last, or was
shown less than the threshold (`PeakCoversLast`), and that the depth is a number at all:
the set of rows may be infinite, and each step writes at most one (`FiniteTable`).

### The intake

A request that somebody still waits for belongs to a sender that is waiting and
carries that sender's one report (`LiveIsAwaited`, `OneRequestEach`, `OneReportEach`);
what the server says of a report is true (`AnswersAreTrue`); and a sender about to mark a
row was told so of that row (`MarksAreTrue`). Requests whose sender gave up are free: they
may create rows later, and that is why `AnswersAreTrue` is about all of them.

For the refinement one more fact is needed: whatever travels, in a sender's hands or in a
request, is a report that was queued (`OnlyQueuedTravel`). Then a submit is a `Queue`, the
first insert a `File`, a mark a `HandOver`; a second insert is none, because the column is
unique, and a second mark none, because the row is marked. That no report reads "twice" or
"lost" is what the proof needs `StoredOnce` and `SyncedIsStored` for. Everything else, faults
included, is a stutter.

### The event stream

The gap: nobody holds an event that is not owed to it, and whoever is owed more holds
a marker (`HeldIsOwed`, `GapsAreMarked`). It is preserved when a full queue drops the marker
itself, because the new marker takes the place of the drained slot. The poll:
what was announced is no later than the position (`AnnouncedIsSeen`), a page lists stored
reports with the newest first (`PageIsListed`), so what is new on a page is later than
everything announced, and the position moves to its first row. The order of a page is
defined by the rank of each report (`Rank`), since nothing can be proved about the
library's sorting; an older page that is applied after a newer one has nothing new in it
and leaves the position where it is (`Position`); that ranks are a numbering of a finite table is a lemma.

### The pipeline

What a process is about to write covers the grid (`DataIsReady`), and the rows of each
time, not only of the served one, are of one process (`MapsAreWhole`): a delete
removes a time as a whole, an insert that meets a row of another process fails as a whole.

That levels belong to their hour needs both halves of a recompute: the rows it reads carry
their own time (`RowsAreTimed`), and what it has scored of them fits the forecast staged for
that time (`ScoresFit`). A staged forecast stays, so a score that fits goes on fitting while
the next run is ingested (`ForecastsStay`). The matrix is a table; its lemmas compare any
two entries, and `MoreRainIsNoSafer` carries them through the rain classes and the buckets
of susceptibility. Both rains of the theorem are corrected by one factor: with two factors
more rain may well give a lower level.

### The calls

`Answered` says which answers each node of the script takes for given, and a lemma per
node shows that every open edge keeps it; with a hazard that may change and a restart
that clears nothing, this is where "submit" turns out to have every answer. A
reference is `Sound` if it is the stored one, or the plain code of a call whose write
raised; every copy of the call, in Redis or in a handler, holds a sound one, and a
copy is sound whichever was saved last. An insert makes a row of an identifier that was
without one, so the references handed out before must be the fallback's: that is what
`failed` is in the invariant for.

For the streaming loop `DangerIsLast` follows an accepted danger word from the
acknowledgement through the redirection to the end; `AskedIsSaved` says that Redis has
everything when a question is asked, which leaves one answer to lose; `LoopIsPlaced`
says at which nodes the loop may wait.

### Enrichment

`ScoresCatchUp` is about rows that one flow wrote while others, a pin or an erasure were at
work, so the invariant says what a flow's copy still shares with its row: the words,
unless the row was erased since (`LoadedIsStored`), and that a report has one flow at a time
(`OneFlowPerReport`). Once the words of an erased row were repeated no flow has them any
more (`LeakedIsOver`). `IdsSuffice` counts groups in use and flows that may still open one
against the runs so far; from it follows that a free identifier always exists, so the
bound on identifiers takes no behaviour away.

For the groups (`GroupsInv`) the rows alone are not enough, since what a flow will write was
decided before it commits. So the invariant has, for each incident, what the rows say
(`Together`: those in a group are in one, and an enriched report is in it as soon as another
is; `Apart`: no other report is) and what a flow has found (`Found`): it opens a group and
fills the one member that may be enriched already, or joins the group of a member, or is
alone. Alone is a flow when no other member is enriched or in a group and no earlier one can
be found by its unresolved words: here the order of submission comes in, for an earlier
report is in the table, and within the window, when the flow of a later one looks.
`PlainRows` and `PlainFlows` say what the hypothesis `Plain` is good for: hazard, words and
place of a row are what the caller said and what the gazetteer makes of it, and there is
one flow at most.

### Alerts

A task's list and the outcomes on file together cover the audience of its event
(`NobodyIsSkipped`), and a task that has left its loop has an empty list (`JobsAreInLoops`).
`OnePushEach` is about the rows of tasks that died as well. It needs that no two tasks work
on one event (`EventsHaveOneTask`), which a retry keeps because it opens an event of its
own, and that of the users still to do none is on file but the one whose row was just
queued (`ListsAreUnpushed`).

### Only model-checked

* Liveness (`EverySubmissionSettles`, `StandingQueueIsTracked`, `SilentCallerIsLetGo`,
  `CallEnds`, `ForecastIsScored`, `DangerIsAnnounced`, `VerifiedReachesNeighbours`,
  `EveryReportArrives`): fairness and ENABLED are out of the prover's reach.
* `PlaceIndex` (`ServedAsCurated`, `ExactNameWins`, `NoReloadIsMissed`) and
  `Algorithms` (`RainFitsHourAndPlace`, `MapViewsAgree`, `StaffViewsAgree`,
  `PagesFollowTheExport`, `WordsAreUnderstood`, `NobodyIsBlockedUnlisted`): what recursive
  functions and folds over words, rows, hours and pages compute for every input needs
  induction principles that the prover cannot instantiate.

## Where code and documents disagree

None of these is a run of its own; each follows from the lines named, and a property
of the runs states what does hold.

Voice agent, delivery and calls:

* `csv_projector.py:98-99` promises one row per report; a failure anywhere in the
  chain runs all of it again, and the projector appends again (line 114).
* `routes_dlq.py:262` answers 404 for rows already dispatched; a purge marks a row
  that another operator revived and the relay delivered since its select (263).
* `routes_gather.py:20-22` says a retry re-enters the same node; a turn posted again
  after its first post was saved answers the next question (`driver.py:226`).
* `routes_voice.py:113-114` calls the report_id the idempotency key of the whole call;
  each `/gather/start` draws an identifier of its own (`driver.py:138`), and a repeated
  `/voice/inbound` replaces the session row and the outcome that came first.
* `models.py:112-113` says "submitted" is only true after the row is durable; the
  driver swallows the sink's exception and plays it (`driver.py:297-312`).
* `sms_pin_offer.py:15` says the life-safety flag suppresses the message; a later save
  of an earlier post loses the flag (`state_store.py:42`).
* `sql_report_sink.py:52-55` promises that a second pass hears the reference of the
  first; when two posts both find no row, the one that loses the insert speaks the
  plain code although the stored one has a suffix. `SpokenRefIsStored` states exactly
  how far the promise holds.
* `prompts.yaml:45` tells a caller in danger that the report can still be taken;
  `graph.py:378-384` ends the call in the same answer, and `resume_after_emergency` is
  never read by the driver.
* `policies.py:21,44-45` forces the keypad at the third attempt; the ladders
  (`policies.py:91-99`) are shorter, and `driver.py:278-286` falls back to the first
  prompt, which has no keypad map.
* `policies.py:39-40` caps every call at 300 seconds; the Gather driver does not, and
  the runner's limit is swallowed by a clip that may be interrupted
  (`runner.py:497-503`) and by the await of a speculation (`eager_eot.py:154-160`).
  `max_turn_ms` is never enforced.
* `prompts.yaml:102` reserves the water depth for flood hazards; `START_OVER`
  (`graph.py:364-370`) clears no slot.
* `dlq_monitor.py:59-61` warns at a refill; a queue that drains and fills again between
  two scans does not move the peak.
* Streaming: StartOfTurn never cancels a clip (`runner.py:486-491`), since the loop
  awaits it before it reads events; a second eager end of turn replaces the first
  without cancelling it (`eager_eot.py:125`), and `reset` does not count it; an
  uncertain transcript drops a danger word; a death during the emergency prompt loses
  the flag; `DtmfError` and `FluxTransportError` leave `run()`; the repository has no
  production `TurnInput` or `AudioSink`.

Enrichment, feed and retrieval:

* `text_window.py:43-47` says the earliest report names the group; 134-145 take the
  most similar. Its window has no upper end (166). A chain of reports longer than the
  window, two flows at a time or a revised hazard split an incident into several groups.
  The stored hazard that is compared is the one before revision, a back-fill emits no
  event, and two erased reports look alike.
* `flow.py:23-26` calls a second run identical; it starts from slots the first revised.
* `persist.py:69` overwrites a pin that was saved while the flow ran
  (`routes_pin.py:95` told the caller it is attached); a pin hides a report from the
  match by place; the payload may be built from the row as it was loaded.
* `routes_privacy.py:16` keeps flags out of an erased row and the code does not strip
  them; a second erasure is 404 and not 200 (30); outbox payloads keep the words.
* `routes_dlq.py:151-153` calls its pages stable; rows leave the offset behind them.
* `routes_reports.py:244-245` says pages stay stable. The filter on life safety (290-302)
  comes after the query has cut the page: a page that is short after it has no cursor, and
  the reports behind it, flagged or not, are never listed. `PagesFollowTheExport` states
  what a walk does return: the rows of the export up to where it ended.
* `voice_report.dart:78` says an outbox payload has the shape of `ReportOut`; none
  carries `updated_at`, so every parse throws (69). `PolledOnce` holds because it throws
  before the position moves. Nobody acts on the LAGGED frame
  (`voice_reports_provider.dart:46`); the broker drops the oldest event and the new one.
  The poll skips ties and late commits, and the gap of a reconnect is not fetched.
* `snapshot.py:57-59` says a fresh build beats the previous marker; of two in one second
  it does not. `from_dir` says it raises if either file is missing; without a marker it
  boots with an empty version. It reads the snapshot before the marker
  (`snapshot.py:155-156`), in the order in which they are written, so that a worker that
  boots during a build may keep the old snapshot under the new version until the next one.
  `resolve_place.py:62-64` says a strong match outside the district beats a weak one in it;
  with both bumps it may not.
* `hybrid_extractor.py` (4-9, 74) falls back on errors that escape it; what the language
  model answers is not compared with the whitelist; one path fills `depth` where the
  other fills `water_depth_cm`. "Wrong number" at the confirmation is a restart although
  it is listed as a no; "not right" at the first question is a yes.

Operations:

* `oncall.py dlq` looks for "items" and "total" and finds the queue empty at any depth;
  `health` accepts "degraded", which the probe answers with 503; `qa_queue` sees one row
  at most; `csv_lag` measures a column that is not there; `call_stats` is capped at 200;
  `alert_test` posts to a route that does not exist.
* `routes_health.py:25-27` keeps degraded ready; 112 answers 503.
* Disabling the last enabled district opens all of them, and nothing in `src/` calls the
  rollout guard.

Backend and phone:

* `alerts/tasks.py:4-5`: "just entered HIGH/SEVERE" and "one per hex per risk level per
  hour". A cell that stays HIGH is announced each hour; check and create are apart and
  no column is unique, while workers run four tasks at once (`infra/railway.toml:37`). The
  event of a report suppresses that of the forecast. The event is committed before the
  pushes (92-109), so a death skips the rest; failed pushes are not tried again.
  `EveryUserHasAnOutcome` says what holds without deaths.
* `dispatch_report_alert` warns about a report whose decision was reversed since (163,
  187) and, run twice, warns twice. A report without a cell is skipped (176-178).
* `risk/tasks.py` deletes outside the transaction that inserts (75, 111): a death between
  leaves no map. `risk/views.py:86` says a stale feed always surfaces; any row counts as
  fresh. `views.py:337` says SEVERE first; hotspots are ordered by rain.
* Ingest logs success for a run it skips and computes the run's hour again at a retry;
  sums start with the hour that ends at the run (`ecmwf.py:96-97`); the grid index
  truncates where it says nearest; null hours shift a station's windows.
* The confusion matrix ends its window at the present (`validate.py:82`), the ranking of
  hexagons does not (131), and `reports/views.py:55` accepts a time of observation in the
  future: the ranking counts such a report and the matrix does not. `StaffViewsAgree` says
  that the two agree but for the reports dated after the end of the window.
* `validate.py:103-104` names missed floods and false alarms the wrong way round;
  calibration never yields SEVERE, and keys that are missing fall back to the defaults;
  the engine never reads the calibrated thresholds; health rounds an age before it
  compares it (`health.py:24-25`).
* The flush of the phone drops party size and description; a photo's file that is gone
  blocks its report for ever; the web's queue does nothing; one phone's push token may
  stay with its previous user.

## What is not modelled

* Formatting, logging, metrics, traces, TwiML markup, HTML, map geometry.
* Audio: signal processing, recording, codecs, the pacing of frames.
* What a language model or an embedding computes; spelling similarity is a table.
* Downloads and file formats of the weather services (GRIB, HTML tables).
* Accounts, tokens and most of the public API: one statement on one row each.
* Admin console and mobile screens, Terraform, load and simulation scripts.
* Real time. Timeouts are steps that may happen; clocks count hours, quarters of an hour
  or seconds, and steps take none of it.
* The database's own guarantees (row locks, atomic commit, unique constraints), Redis's
  and Celery's are assumed.

## Plan

Done: the modules and runs above, and the proofs listed. Next, in this order:

1. `OutboxRelay`: that nobody holds a dead row for ever, as the safety half of
   `EverySubmissionSettles` (some step is enabled, or every row is settled).
2. `PlaceResolution`: the part of `ExactNameWins` that needs no induction, as
   lemmas about one candidate and one fusion.
3. `ConversationGraph`: that the ladder ends, as a lemma that `SilentCallerIsLetGo` and
   `CallEnds` can lean on.
