---------------------------- MODULE RiskPipeline ----------------------------
(***************************************************************************)
(* The backend's hourly chain: Celery beat sends the forecast ingest, the  *)
(* bias recompute and the risk recompute; workers run them, run_ingest.py  *)
(* runs the three in one process, and the risk views serve what the tables *)
(* hold.  (The alert dispatch, the fourth of the hour, is FloodAlerts.)    *)
(* Time counts quarters of an hour.  A worker acknowledges a message       *)
(* before it runs it, so a task dies with its worker.                      *)
(***************************************************************************)
EXTENDS RiskEngine, TLC

CONSTANTS
    Hexes,          \* the cells of the grid
    Fsi,            \* the susceptibility score of each cell
    Rains,          \* what the forecast can say of a cell
    Multipliers,    \* what a bias recompute can find for a cell
    Workers,        \* Celery workers
    Script,         \* the process of run_ingest.py
    MaxRetries,     \* max_retries of the tasks
    MaxNow,         \* bound: the last quarter of an hour
    MaxFaults,      \* bound: fetches that fail and processes killed
    MaxRefreshes    \* bound: launches of the script

ASSUME PipelineAssumption ==
    /\ Fsi \in [Hexes -> 0..100]
    /\ Rains \subseteq Nat
    /\ Multipliers \subseteq Nat
    /\ Script \notin Workers
    /\ MaxRetries \in Nat
    /\ MaxNow \in Nat

VARIABLES
    now,        \* the clock
    queue,      \* task messages no worker has taken (a message of a task already waiting adds nothing)
    proc,       \* what each process is doing
    stage,      \* the forecast table
    bias,       \* the newest factor of each cell's station
    snaps,      \* the risk table
    log,        \* the ingest log of the forecast feed: the hour of its last success, and an error
    budget      \* failures, deaths and launches so far

pvars == <<now, queue, proc, stage, bias, snaps, log, budget>>

Hour == 4
Tasks == {"ecmwf", "bias", "risk"}
Procs == Workers \cup {Script}
Never == -1

\* The quarter of each hour in which beat sends a task.
BeatSlot == [ecmwf |-> 0, bias |-> 1, risk |-> 2]
DueAt(t) == {k \in Tasks : BeatSlot[k] = t % Hour}

\* run_ingest.py after its first step.
RefreshPlan == <<"bias", "risk">>

RunTs(t) == t - (t % Hour)
ValidTs(run) == run + Hour

NoData == [h \in Hexes |-> 0]
Idle == [task |-> "none", pc |-> "idle", run |-> Never, data |-> NoData, tries |-> 0, plan |-> <<>>]
Begin(t, plan) == [Idle EXCEPT !.task = t, !.pc = "start", !.plan = plan]

Times == {Never} \cup 0..(MaxNow + Hour)
Runs == {Never} \cup 0..MaxNow
ProcType ==
    [task : Tasks \cup {"none"},
     pc : {"idle", "start", "fetch", "write", "delete", "score"},
     run : Runs, data : [Hexes -> Nat], tries : 0..MaxRetries, plan : Seq(Tasks)]
PTypeOK ==
    /\ now \in 0..MaxNow
    /\ queue \subseteq Tasks
    /\ proc \in [Procs -> ProcType]
    /\ bias \in [Hexes -> Multipliers]
    /\ stage \subseteq [hex : Hexes, run : Runs, valid : Times, rain : Rains, by : Procs]
    /\ snaps \subseteq [hex : Hexes, ts : Times, level : 1..4, by : Procs]
    /\ log \in [success : Runs, failed : BOOLEAN]

PInit ==
    /\ now = 0
    /\ queue = DueAt(0)
    /\ proc = [p \in Procs |-> Idle]
    /\ stage = {}
    /\ bias \in {[h \in Hexes |-> m] : m \in Multipliers}
    /\ snaps = {}
    /\ log = [success |-> Never, failed |-> FALSE]
    /\ budget = [failures |-> 0, deaths |-> 0, refreshes |-> 0]

-----------------------------------------------------------------------------
(* Scheduling.                                                             *)

\* An idle worker takes a waiting message before the clock moves; what it does with it
\* may take any time. There is no outage in which messages pile up.
Prompt == queue = {} \/ \A w \in Workers : proc[w].pc # "idle"

Tick ==
    /\ now < MaxNow /\ Prompt
    /\ now' = now + 1
    /\ queue' = queue \cup DueAt(now + 1)
    /\ UNCHANGED <<proc, stage, bias, snaps, log, budget>>

Take(w) ==
    /\ proc[w].pc = "idle"
    /\ \E t \in queue :
        /\ queue' = queue \ {t}
        /\ proc' = [proc EXCEPT ![w] = Begin(t, <<>>)]
    /\ UNCHANGED <<now, stage, bias, snaps, log, budget>>

Refresh ==
    /\ proc[Script].pc = "idle"
    /\ budget.refreshes < MaxRefreshes
    /\ budget' = [budget EXCEPT !.refreshes = @ + 1]
    /\ proc' = [proc EXCEPT ![Script] = Begin("ecmwf", RefreshPlan)]
    /\ UNCHANGED <<now, queue, stage, bias, snaps, log>>

\* The script goes on with its next task, a worker is free.
Finished(p) ==
    IF proc[p].plan = <<>> THEN Idle ELSE Begin(Head(proc[p].plan), Tail(proc[p].plan))

\* self.retry: from the start again, or the task has failed and with it the script.
Retried(p) ==
    IF proc[p].tries < MaxRetries
    THEN [Begin(proc[p].task, proc[p].plan) EXCEPT !.tries = proc[p].tries + 1]
    ELSE Idle

-----------------------------------------------------------------------------
(* ingest_ecmwf.                                                           *)

LogSuccess == log' = [success |-> RunTs(now), failed |-> FALSE]
LogError == log' = [log EXCEPT !.failed = TRUE]

IngestCheck(p) ==
    /\ proc[p].task = "ecmwf" /\ proc[p].pc = "start"
    /\ IF \E row \in stage : row.run = RunTs(now)
       THEN LogSuccess /\ proc' = [proc EXCEPT ![p] = Finished(p)]
       ELSE /\ proc' = [proc EXCEPT ![p].pc = "fetch", ![p].run = RunTs(now)]
            /\ UNCHANGED log
    /\ UNCHANGED <<now, queue, stage, bias, snaps, budget>>

FetchAndParse(p) ==
    /\ proc[p].pc = "fetch"
    /\ \/ /\ \E rain \in [Hexes -> Rains] :
                proc' = [proc EXCEPT ![p].pc = "write", ![p].data = rain]
          /\ UNCHANGED <<log, budget>>
       \/ /\ budget.failures + budget.deaths < MaxFaults
          /\ budget' = [budget EXCEPT !.failures = @ + 1]
          /\ LogError
          /\ proc' = [proc EXCEPT ![p] = Retried(p)]
    /\ UNCHANGED <<now, queue, stage, bias, snaps>>

StageRows(p) ==
    {[hex |-> h, run |-> proc[p].run, valid |-> ValidTs(proc[p].run), rain |-> proc[p].data[h], by |-> p] :
        h \in Hexes}

\* Mutant: the rows are inserted one by one, each where none is yet.
BulkCreate_RowByRow(rows) ==
    \E some \in SUBSET rows :
        stage' = stage \cup {r \in some : ~ \E s \in stage : s.hex = r.hex /\ s.run = r.run}

\* bulk_create(ignore_conflicts=True) in one transaction. The unique key has valid_ts too,
\* which run_ts fixes, and source, which is the same for all processes of a deployment.
BulkCreate(rows) ==
    stage' = stage \cup {r \in rows : ~ \E s \in stage : s.hex = r.hex /\ s.run = r.run}

IngestWrite(p) ==
    /\ proc[p].pc = "write"
    /\ BulkCreate(StageRows(p))
    /\ LogSuccess
    /\ proc' = [proc EXCEPT ![p] = Finished(p)]
    /\ UNCHANGED <<now, queue, bias, snaps, budget>>

-----------------------------------------------------------------------------
(* recompute_bias writes one factor per station, each its own row.         *)

RecomputeBias(p) ==
    /\ proc[p].task = "bias" /\ proc[p].pc = "start"
    /\ bias' \in [Hexes -> Multipliers]
    /\ proc' = [proc EXCEPT ![p] = Finished(p)]
    /\ UNCHANGED <<now, queue, stage, snaps, log, budget>>

-----------------------------------------------------------------------------
(* recompute_all_risk.                                                     *)

Newest(times) == IF times = {} THEN Never ELSE CHOOSE t \in times : \A u \in times : u <= t

\* Mutant: the first run on file is scored, hour after hour.
LatestRun_First ==
    IF stage = {} THEN Never ELSE CHOOSE t \in {r.run : r \in stage} : \A r \in stage : t <= r.run

LatestRun == Newest({row.run : row \in stage})
Staged(run, h) == CHOOSE row \in stage : row.run = run /\ row.hex = h

Level(h, rain) == LevelOrder(RiskLevel(RainCorrected(rain, bias[h], 0), Fsi[h]))

RiskRead(p) ==
    /\ proc[p].task = "risk" /\ proc[p].pc = "start"
    /\ LET run == LatestRun IN
       proc' = [proc EXCEPT ![p] =
            IF stage = {} THEN Finished(p)
            ELSE [@ EXCEPT !.pc = "delete", !.run = run,
                           !.data = [h \in Hexes |-> Level(h, Staged(run, h).rain)]]]
    /\ UNCHANGED <<now, queue, stage, bias, snaps, log, budget>>

RiskDelete(p) ==
    /\ proc[p].pc = "delete"
    /\ snaps' = {s \in snaps : s.ts # ValidTs(proc[p].run)}
    /\ proc' = [proc EXCEPT ![p].pc = "score"]
    /\ UNCHANGED <<now, queue, stage, bias, log, budget>>

\* Mutant: the rows are stamped with the newest run at the time of the insert.
Scored_Rereads(p) ==
    {[hex |-> h, ts |-> ValidTs(LatestRun), level |-> proc[p].data[h], by |-> p] : h \in Hexes}

Scored(p) ==
    {[hex |-> h, ts |-> ValidTs(proc[p].run), level |-> proc[p].data[h], by |-> p] : h \in Hexes}

\* One row per cell and time: a second writer of the hour is refused and retries.
Clash(rows) == \E r \in rows, s \in snaps : r.hex = s.hex /\ r.ts = s.ts

\* Mutant: the batches are committed one by one, and the worker may die between them.
RiskWrite_Batches(p) ==
    /\ proc[p].pc = "score"
    /\ \E batch \in SUBSET Scored(p) :
        /\ ~ Clash(batch)
        /\ snaps' = snaps \cup batch
    /\ proc' = [proc EXCEPT ![p] = Finished(p)]
    /\ UNCHANGED <<now, queue, stage, bias, log, budget>>

RiskWrite(p) ==
    /\ proc[p].pc = "score"
    /\ IF Clash(Scored(p))
       THEN UNCHANGED snaps /\ proc' = [proc EXCEPT ![p] = Retried(p)]
       ELSE snaps' = snaps \cup Scored(p) /\ proc' = [proc EXCEPT ![p] = Finished(p)]
    /\ UNCHANGED <<now, queue, stage, bias, log, budget>>

-----------------------------------------------------------------------------
Die(p) ==
    /\ proc[p].pc # "idle"
    /\ budget.failures + budget.deaths < MaxFaults
    /\ budget' = [budget EXCEPT !.deaths = @ + 1]
    /\ proc' = [proc EXCEPT ![p] = Idle]
    /\ UNCHANGED <<now, queue, stage, bias, snaps, log>>

Step(p) ==
    \/ IngestCheck(p) \/ FetchAndParse(p) \/ IngestWrite(p)
    \/ RecomputeBias(p)
    \/ RiskRead(p) \/ RiskDelete(p) \/ RiskWrite(p)

PNext ==
    \/ Tick
    \/ Refresh
    \/ \E w \in Workers : Take(w)
    \/ \E p \in Procs : Step(p) \/ Die(p)

\* The clock, and whoever has something to run.  Clock, tasks and retries are bounded,
\* so that going on at all is going on to the end.
Progress == Tick \/ (\E w \in Workers : Take(w)) \/ (\E p \in Procs : Step(p))
PFairness == WF_pvars(Progress)

PSpec == PInit /\ [][PNext]_pvars
PFairSpec == PSpec /\ PFairness

-----------------------------------------------------------------------------
(* What the views read.                                                    *)

ServedTs == Newest({s.ts : s \in snaps})
IsFresh == snaps # {}

\* Overlapping ingests of one hour (beat's and the script's, each past its own
\* check) leave the forecast of one of them, and of every cell: rows are never mixed
\* from two fetches, although conflicts are ignored row by row (tasks.py:92).
ForecastIsOneFetch ==
    \A row \in stage : \E p \in Procs :
        \A h \in Hexes : \E other \in stage : other.run = row.run /\ other.hex = h /\ other.by = p

\* Whatever the views call fresh covers every cell exactly once, and comes from one
\* recompute: two of them, or a death between the delete and the insert, never leave a
\* map with holes or of two minds (risk/tasks.py:72-112, views.py:43).
ServedMapIsWhole ==
    LET served == {s \in snaps : s.ts = ServedTs} IN
    IsFresh => \E p \in Procs :
        \A h \in Hexes : {s.by : s \in {x \in served : x.hex = h}} = {p}

\* The forecast for that cell and time has this level under a factor that may be found.
FitsForecast(h, ts, level) ==
    \E row \in stage, factor \in Multipliers :
        /\ row.hex = h /\ row.valid = ts
        /\ level = LevelOrder(RiskLevel(RainCorrected(row.rain, factor, 0), Fsi[h]))

\* Every level on file is that of the forecast staged for that cell and that time, under
\* a factor that was found: a recompute that works on one run while the next one is
\* ingested does not put the level of one hour on the map of another
\* (risk/tasks.py:34-73, 99-111).
LevelsAreOfTheForecast == \A s \in snaps : FitsForecast(s.hex, s.ts, s.level)

\* A forecast staged while a recompute is still to come is scored, unless a process
\* dies or a newer forecast takes its place: losing the race for the hour's rows costs
\* a retry and not the hour (risk/tasks.py:111-119).
LastBeat(task) == CHOOSE t \in (MaxNow - Hour + 1)..MaxNow : BeatSlot[task] = t % Hour
ForecastIsScored ==
    \A run \in {RunTs(t) : t \in 0..MaxNow} :
        (\E row \in stage : row.run = run) /\ now < LastBeat("risk") /\ budget.deaths + budget.failures = 0
            ~> \/ \E s \in snaps : s.ts = ValidTs(run)
               \/ LatestRun > run
               \/ budget.deaths + budget.failures > 0
=============================================================================
