------------------------- MODULE RiskPipeline_proofs -------------------------
(***************************************************************************)
(* Proofs about RiskPipeline for any grid, forecast, workers, clock and    *)
(* number of failures, deaths and launches.                                *)
(***************************************************************************)
EXTENDS RiskPipeline, FiniteSetTheorems, WellFoundedInduction, TLAPS

-----------------------------------------------------------------------------
(* The inductive invariant.                                                *)

\* What a process is about to write is what it fetched or what it scored.
DataIsReady ==
    \A p \in Procs :
        /\ proc[p].pc = "write" => proc[p].data \in [Hexes -> Rains]
        /\ proc[p].pc \in {"delete", "score"} => proc[p].data \in [Hexes -> 1..4]

\* The rows of one time cover the grid, and one process wrote them.
MapIsWhole(ts) ==
    \E p \in Procs :
        /\ \A s \in snaps : s.ts = ts => s.by = p
        /\ \A h \in Hexes : \E s \in snaps : s.ts = ts /\ s.hex = h
MapsAreWhole == \A s \in snaps : MapIsWhole(s.ts)

IInv == PTypeOK /\ DataIsReady /\ ForecastIsOneFetch /\ MapsAreWhole

-----------------------------------------------------------------------------
(* Facts about the helpers.                                                *)

\* There are three thresholds.
LEMMA ThreeThresholds == IsFiniteSet(1 .. 3) /\ Cardinality(1 .. 3) = 3
<1>1. ASSUME NEW n \in Int
      PROVE  IsFiniteSet(1 .. n) /\ Cardinality(1 .. n) = IF 1 > n THEN 0 ELSE n-1+1
  BY FS_Interval
<1>2. PICK n \in Int : n = 3
  OBVIOUS
<1>3. (IF 1 > n THEN 0 ELSE n-1+1) = 3
  BY <1>2
<1>4. IsFiniteSet(1 .. n) /\ Cardinality(1 .. n) = 3
  BY <1>1, <1>3
<1>. QED
  BY <1>2, <1>4

\* Every pair of classes has its place in the matrix.
LEMMA LevelsAreKnown ==
  ASSUME NEW rain \in Int, NEW fsi \in Int
  PROVE  LevelOrder(RiskLevel(rain, fsi)) \in 1 .. 4
<1>1. BucketHazard(rain) \in {"LOW", "MODERATE", "HIGH", "SEVERE"}
  <2> DEFINE I == {i \in 1 .. 3 : rain >= HazardThresholds[i]}
  <2>1. Cardinality(I) \in 0 .. 3
    <3>1. IsFiniteSet(1 .. 3) /\ Cardinality(1 .. 3) = 3
      BY ThreeThresholds
    <3>2. Cardinality(I) \in Nat /\ Cardinality(I) <= Cardinality(1 .. 3)
      BY <3>1, FS_Subset, FS_CardinalityType
    <3>. QED
      BY <3>1, <3>2
  <2> HIDE DEF I
  <2>2. HazardLevels[1 + Cardinality(I)] \in {"LOW", "MODERATE", "HIGH", "SEVERE"}
    BY <2>1 DEF HazardLevels
  <2>. QED
    BY <2>2 DEF BucketHazard, I
<1>2. SuscIdx(fsi) \in 1 .. 3
  BY DEF SuscIdx, SusceptibilityBuckets, BucketSusceptibility
<1>3. RiskLevel(rain, fsi) \in {"LOW", "MODERATE", "HIGH", "SEVERE"}
  BY <1>1, <1>2 DEF RiskLevel, RiskMatrix
<1>4. \A level \in {"LOW", "MODERATE", "HIGH", "SEVERE"} : \E i \in 1 .. 4 : HazardLevels[i] = level
  <2>1. /\ 1 \in 1 .. 4 /\ 2 \in 1 .. 4 /\ 3 \in 1 .. 4 /\ 4 \in 1 .. 4
        /\ HazardLevels[1] = "LOW" /\ HazardLevels[2] = "MODERATE"
        /\ HazardLevels[3] = "HIGH" /\ HazardLevels[4] = "SEVERE"
    BY DEF HazardLevels
  <2>. QED
    BY <2>1
<1>. QED
  BY <1>3, <1>4 DEF LevelOrder
-----------------------------------------------------------------------------
\* The corrected rain of a forecast is a number.
LEMMA RainIsNumber ==
  ASSUME NEW raw \in Nat, NEW m \in Nat
  PROVE  RainCorrected(raw, m, 0) \in Int
<1>1. (raw * m) \div One + 0 \in Int
  BY DEF One
<1>. QED
  BY <1>1 DEF RainCorrected, AtLeast

\* A time of the tables is the newest of any that holds one.
LEMMA NewestExists ==
  ASSUME PipelineAssumption, NEW T \in SUBSET Times, T # {}
  PROVE  Newest(T) \in T /\ \A u \in T : u <= Newest(T)
<1> DEFINE D == {MaxNow + Hour - t : t \in T}
<1>1. /\ MaxNow \in Nat /\ Hour = 4
      /\ \A t \in T : t \in Int /\ t <= MaxNow + Hour
  BY DEF PipelineAssumption, Times, Never, Hour
<1>2. D \subseteq Nat /\ D # {}
  BY <1>1
<1>3. PICK d \in D : \A e \in D : <<e, d>> \notin OpToRel(<, Nat)
  BY <1>2, NatLessThanWellFounded, WFMin, Zenon
<1>4. PICK t \in T : d = MaxNow + Hour - t
  BY <1>3
<1>5. \A u \in T : MaxNow + Hour - u \in D /\ MaxNow + Hour - u \in Nat
  BY <1>2
<1>6. \A e \in D : ~(e < d)
  BY <1>2, <1>3 DEF OpToRel
<1>7. \A u \in T : ~(MaxNow + Hour - u < MaxNow + Hour - t)
  BY <1>4, <1>5, <1>6
<1>8. \A u \in T : u <= t
  BY <1>1, <1>7
<1>9. \E x \in T : \A u \in T : u <= x
  BY <1>8
<1>. QED
  BY <1>9 DEF Newest

\* The hour of a run is on the clock.
LEMMA RunsAreHours ==
  ASSUME PipelineAssumption, NEW t \in 0 .. MaxNow
  PROVE  RunTs(t) \in Runs
<1>1. t - (t % 4) \in 0 .. t
  OBVIOUS
<1>. QED
  BY <1>1 DEF RunTs, Runs, Hour, PipelineAssumption

\* The rows of a run are valid within the tables' times.
LEMMA ValidIsTime ==
  ASSUME PipelineAssumption, NEW run \in Runs
  PROVE  ValidTs(run) \in Times
  BY DEF ValidTs, Runs, Times, Never, Hour, PipelineAssumption

\* The next state of a process that ends, retries or begins a task is well-formed and
\* holds nothing to write.
Quiet(r) == r \in ProcType /\ r.pc \in {"idle", "start"}

\* A process that begins a task, or has none, has nothing to write yet.
LEMMA BeginIsQuiet ==
  ASSUME PipelineAssumption, NEW t \in Tasks \cup {"none"}, NEW plan \in Seq(Tasks)
  PROVE  Quiet(Begin(t, plan)) /\ Quiet(Idle)
<1>1. NoData \in [Hexes -> Nat] /\ Never \in Runs /\ <<>> \in Seq(Tasks) /\ 0 \in 0 .. MaxRetries
  BY DEF NoData, Runs, PipelineAssumption
<1>2. Idle \in ProcType /\ Idle.pc = "idle"
  BY <1>1 DEF Idle, ProcType
<1>3. PICK x : x = [Idle EXCEPT !.task = t, !.pc = "start", !.plan = plan]
  OBVIOUS
<1>4. x \in ProcType /\ x.pc = "start"
  BY <1>2, <1>3 DEF ProcType
<1>. QED
  BY <1>2, <1>3, <1>4 DEF Quiet, Begin

\* So has one without a task.
LEMMA IdleIsQuiet == ASSUME PipelineAssumption PROVE Quiet(Idle)
<1>1. "bias" \in Tasks \cup {"none"} /\ <<>> \in Seq(Tasks)
  BY DEF Tasks
<1>. QED
  BY <1>1, BeginIsQuiet

\* Nor has one that went on to its next task or begins again.
LEMMA NextTaskIsQuiet ==
  ASSUME PipelineAssumption, PTypeOK, NEW p \in Procs
  PROVE  Quiet(Finished(p)) /\ Quiet(Retried(p))
<1>1. /\ proc[p] \in ProcType /\ proc[p].plan \in Seq(Tasks)
      /\ proc[p].tries \in 0 .. MaxRetries /\ proc[p].task \in Tasks \cup {"none"}
  BY DEF PTypeOK, ProcType
<1>2. Quiet(Idle)
  BY DEF Quiet, Idle, ProcType, NoData, Runs, Never, PipelineAssumption
<1>3. Quiet(Finished(p))
  <2>1. proc[p].plan # <<>> => Head(proc[p].plan) \in Tasks /\ Tail(proc[p].plan) \in Seq(Tasks)
    BY <1>1
  <2>. QED
    BY <1>2, <2>1, BeginIsQuiet DEF Finished
<1>4. Quiet(Retried(p))
  <2>1. Quiet(Begin(proc[p].task, proc[p].plan))
    BY <1>1, BeginIsQuiet
  <2>2. CASE proc[p].tries < MaxRetries
    <3>1. proc[p].tries + 1 \in 0 .. MaxRetries
      BY <1>1, <2>2 DEF PipelineAssumption
    <3>. QED
      BY <2>1, <2>2, <3>1 DEF Quiet, Retried, ProcType
  <2>. QED
    BY <1>1, <1>2, <2>2 DEF Retried
<1>. QED
  BY <1>3, <1>4

-----------------------------------------------------------------------------
(* One lemma per kind of step.                                             *)

\* What is said of the tables alone stays true of tables that stay.
LEMMA SameTables ==
  ASSUME IInv, UNCHANGED <<stage, snaps>>
  PROVE  ForecastIsOneFetch' /\ MapsAreWhole'
<1>1. ForecastIsOneFetch'
  BY DEF IInv, ForecastIsOneFetch
<1>2. MapsAreWhole'
  BY DEF IInv, MapsAreWhole, MapIsWhole
<1>. QED
  BY <1>1, <1>2

\* The tables stay, and the processes that changed are quiet.
LEMMA QuietStep ==
  ASSUME PipelineAssumption, IInv, UNCHANGED <<stage, snaps>>,
         NEW p \in Procs, NEW r, Quiet(r), proc' = [proc EXCEPT ![p] = r],
         now' \in 0 .. MaxNow, queue' \subseteq Tasks, bias' \in [Hexes -> Multipliers],
         log' \in [success : Runs, failed : BOOLEAN]
  PROVE  IInv'
<1>1. PTypeOK'
  BY DEF IInv, PTypeOK, Quiet
<1>2. DataIsReady'
  BY DEF IInv, PTypeOK, DataIsReady, Quiet
<1>. QED
  BY <1>1, <1>2, SameTables DEF IInv

\* The tables stay, and a process goes on with what it may hold.
HoldsItsData(x) ==
    /\ x.pc = "write" => x.data \in [Hexes -> Rains]
    /\ x.pc \in {"delete", "score"} => x.data \in [Hexes -> 1..4]
\* A process that goes on with what it holds breaks nothing.
LEMMA BusyStep ==
  ASSUME IInv, NEW p \in Procs, NEW x \in ProcType, HoldsItsData(x),
         proc' = [proc EXCEPT ![p] = x], UNCHANGED <<now, queue, bias, log>>
  PROVE  /\ DataIsReady'
         /\ UNCHANGED <<stage, snaps>> => IInv'
<1>1. \A q \in Procs : proc'[q] = IF q = p THEN x ELSE proc[q]
  BY DEF IInv, PTypeOK
<1>2. DataIsReady'
  BY <1>1 DEF IInv, DataIsReady, HoldsItsData
<1>3. UNCHANGED <<stage, snaps>> => PTypeOK'
  BY DEF IInv, PTypeOK
<1>. QED
  BY <1>2, <1>3, SameTables DEF IInv

\* Time passes, and beat sends its tasks.
LEMMA TickStep == ASSUME PipelineAssumption, IInv, Tick PROVE IInv'
<1>1. PTypeOK'
  <2>1. DueAt(now + 1) \subseteq Tasks
    BY DEF DueAt
  <2>. QED
    BY <2>1 DEF IInv, PTypeOK, Tick, PipelineAssumption
<1>. QED
  BY <1>1, SameTables DEF IInv, Tick, DataIsReady

\* The script is launched, or a worker takes a message.
LEMMA LaunchStep ==
  ASSUME PipelineAssumption, IInv, Refresh \/ \E w \in Workers : Take(w)
  PROVE  IInv'
<1>1. CASE Refresh
  <2>1. Quiet(Begin("ecmwf", RefreshPlan))
    <3>1. "ecmwf" \in Tasks /\ RefreshPlan \in Seq(Tasks)
      BY DEF Tasks, RefreshPlan
    <3>. QED
      BY <3>1, BeginIsQuiet
  <2>. QED
    BY <1>1, <2>1, QuietStep DEF Refresh, IInv, PTypeOK, Procs
<1>2. ASSUME NEW w \in Workers, Take(w) PROVE IInv'
  <2>1. PICK t \in queue : queue' = queue \ {t} /\ proc' = [proc EXCEPT ![w] = Begin(t, <<>>)]
    BY <1>2 DEF Take
  <2>2. Quiet(Begin(t, <<>>)) /\ queue' \subseteq Tasks
    <3>1. t \in Tasks /\ <<>> \in Seq(Tasks)
      BY DEF IInv, PTypeOK
    <3>. QED
      BY <2>1, <3>1, BeginIsQuiet DEF IInv, PTypeOK
  <2>. QED
    BY <1>2, <2>1, <2>2, QuietStep DEF Take, IInv, PTypeOK, Procs
<1>. QED
  BY <1>1, <1>2

\* A process dies with what it had read.
LEMMA DeathStep == ASSUME PipelineAssumption, IInv, NEW p \in Procs, Die(p) PROVE IInv'
<1>1. Quiet(Idle)
  BY IdleIsQuiet
<1>. QED
  BY <1>1, QuietStep DEF Die, IInv, PTypeOK

\* What is logged is the hour of a run.
LEMMA LogIsTyped ==
  ASSUME PipelineAssumption, PTypeOK, LogSuccess \/ LogError \/ UNCHANGED log
  PROVE  log' \in [success : Runs, failed : BOOLEAN]
<1>1. RunTs(now) \in Runs /\ log \in [success : Runs, failed : BOOLEAN]
  BY RunsAreHours DEF PTypeOK
<1>2. CASE LogSuccess
  BY <1>1, <1>2 DEF LogSuccess
<1>3. CASE LogError
  <2>1. PICK x : x = [log EXCEPT !.failed = TRUE]
    OBVIOUS
  <2>2. x \in [success : Runs, failed : BOOLEAN]
    BY <1>1, <2>1
  <2>. QED
    BY <1>3, <2>1, <2>2 DEF LogError
<1>. QED
  BY <1>1, <1>2, <1>3

\* An ingest finds its run on file, or goes on to the fetch.
LEMMA IngestCheckStep ==
  ASSUME PipelineAssumption, IInv, NEW p \in Procs, IngestCheck(p) PROVE IInv'
<1>. PTypeOK
  BY DEF IInv
<1>1. log' \in [success : Runs, failed : BOOLEAN]
  BY LogIsTyped DEF IngestCheck
<1>2. CASE \E row \in stage : row.run = RunTs(now)
  BY <1>1, <1>2, NextTaskIsQuiet, QuietStep DEF IngestCheck, PTypeOK
<1>3. CASE ~ \E row \in stage : row.run = RunTs(now)
  <2>1. proc' = [proc EXCEPT ![p].pc = "fetch", ![p].run = RunTs(now)]
    BY <1>3 DEF IngestCheck
  <2>2. RunTs(now) \in Runs
    BY RunsAreHours DEF PTypeOK
  <2>3. PICK x : x = [proc[p] EXCEPT !.pc = "fetch", !.run = RunTs(now)]
    OBVIOUS
  <2>4. proc[p] \in ProcType
    BY DEF PTypeOK
  <2>5. x \in ProcType /\ HoldsItsData(x)
    BY <2>2, <2>3, <2>4 DEF ProcType, HoldsItsData
  <2>. QED
    BY <1>3, <2>1, <2>3, <2>5, BusyStep DEF IngestCheck
<1>. QED
  BY <1>2, <1>3

\* A fetch fails or brings rain for each cell.
LEMMA FetchStep ==
  ASSUME PipelineAssumption, IInv, NEW p \in Procs, FetchAndParse(p) PROVE IInv'
<1>. PTypeOK
  BY DEF IInv
<1>1. CASE /\ \E rain \in [Hexes -> Rains] :
                 proc' = [proc EXCEPT ![p].pc = "write", ![p].data = rain]
           /\ UNCHANGED <<log, budget>>
  <2>1. PICK rain \in [Hexes -> Rains] : proc' = [proc EXCEPT ![p].pc = "write", ![p].data = rain]
    BY <1>1
  <2>2. rain \in [Hexes -> Nat]
    BY DEF PipelineAssumption
  <2>3. PICK x : x = [proc[p] EXCEPT !.pc = "write", !.data = rain]
    OBVIOUS
  <2>4. proc[p] \in ProcType
    BY DEF PTypeOK
  <2>5. x \in ProcType /\ HoldsItsData(x)
    BY <2>2, <2>3, <2>4 DEF ProcType, HoldsItsData
  <2>. QED
    <3>1. UNCHANGED <<now, queue, bias, log>> /\ UNCHANGED <<stage, snaps>>
      BY <1>1 DEF FetchAndParse
    <3>2. proc' = [proc EXCEPT ![p] = x]
      BY <2>1, <2>3 DEF PTypeOK
    <3>. QED
      BY <2>5, <3>1, <3>2, BusyStep
<1>2. CASE LogError /\ proc' = [proc EXCEPT ![p] = Retried(p)]
  BY <1>2, LogIsTyped, NextTaskIsQuiet, QuietStep DEF FetchAndParse, PTypeOK
<1>. QED
  BY <1>1, <1>2 DEF FetchAndParse

\* The insert adds the forecast of the whole grid or, where the run is on file, nothing.
LEMMA WriteStep ==
  ASSUME PipelineAssumption, IInv, NEW p \in Procs, IngestWrite(p) PROVE IInv'
<1>. PTypeOK
  BY DEF IInv
<1> DEFINE run == proc[p].run
           rows == StageRows(p)
<1>1. /\ run \in Runs /\ ValidTs(run) \in Times
      /\ proc[p].data \in [Hexes -> Rains]
  BY ValidIsTime DEF IInv, PTypeOK, ProcType, DataIsReady, IngestWrite
<1>2. rows \subseteq [hex : Hexes, run : Runs, valid : Times, rain : Rains, by : Procs]
  <2>1. \A h \in Hexes : proc[p].data[h] \in Rains
    BY <1>1
  <2>2. ASSUME NEW h \in Hexes
        PROVE  [hex |-> h, run |-> run, valid |-> ValidTs(run), rain |-> proc[p].data[h], by |-> p]
                 \in [hex : Hexes, run : Runs, valid : Times, rain : Rains, by : Procs]
    BY <1>1, <2>1
  <2>. QED
    BY <2>2 DEF StageRows
<1>3. stage' = stage \cup {r \in rows : ~ \E s \in stage : s.hex = r.hex /\ s.run = r.run}
  BY DEF IngestWrite, BulkCreate
<1>4. ForecastIsOneFetch'
  <2>1. CASE \E s \in stage : s.run = run
    <3>1. \A h \in Hexes : \E s \in stage : s.run = run /\ s.hex = h
      BY <2>1 DEF IInv, ForecastIsOneFetch
    <3>2. \A r \in rows : r.run = run /\ r.hex \in Hexes
      BY DEF StageRows
    <3>3. stage' = stage
      BY <1>3, <3>1, <3>2
    <3>. QED
      BY <3>3 DEF IInv, ForecastIsOneFetch
  <2>2. CASE ~ \E s \in stage : s.run = run
    <3>1. \A r \in rows : r.run = run /\ r.by = p
      BY DEF StageRows
    <3>2. stage' = stage \cup rows
      BY <1>3, <2>2, <3>1
    <3>3. ASSUME NEW h \in Hexes
          PROVE  \E r \in rows : r.run = run /\ r.hex = h /\ r.by = p
      <4> DEFINE r == [hex |-> h, run |-> run, valid |-> ValidTs(run),
                       rain |-> proc[p].data[h], by |-> p]
      <4>1. r \in rows
        BY DEF StageRows
      <4>2. r.run = run /\ r.hex = h /\ r.by = p
        OBVIOUS
      <4>. QED
        BY <4>1, <4>2
    <3>4. ASSUME NEW row \in stage'
          PROVE  \E q \in Procs : \A h \in Hexes :
                    \E other \in stage' : other.run = row.run /\ other.hex = h /\ other.by = q
      <4>1. CASE row \in stage
        BY <3>2, <4>1 DEF IInv, ForecastIsOneFetch
      <4>2. CASE row \in rows
        BY <3>1, <3>2, <3>3, <4>2
      <4>. QED
        BY <3>2, <4>1, <4>2
    <3>. QED
      BY <3>4 DEF ForecastIsOneFetch
  <2>. QED
    BY <2>1, <2>2
<1>5. PTypeOK'
  <2>1. log' \in [success : Runs, failed : BOOLEAN]
    BY LogIsTyped DEF IngestWrite
  <2>2. stage' \subseteq [hex : Hexes, run : Runs, valid : Times, rain : Rains, by : Procs]
    BY <1>2, <1>3 DEF PTypeOK
  <2>. QED
    BY <2>1, <2>2, NextTaskIsQuiet DEF IngestWrite, PTypeOK, Quiet
<1>6. DataIsReady'
  BY NextTaskIsQuiet DEF IngestWrite, IInv, PTypeOK, DataIsReady, Quiet
<1>7. MapsAreWhole'
  BY DEF IngestWrite, IInv, MapsAreWhole, MapIsWhole
<1>. QED
  BY <1>4, <1>5, <1>6, <1>7 DEF IInv

\* Multipliers are set from the observations.
LEMMA BiasStep ==
  ASSUME PipelineAssumption, IInv, NEW p \in Procs, RecomputeBias(p) PROVE IInv'
  BY NextTaskIsQuiet, QuietStep DEF RecomputeBias, IInv, PTypeOK

\* Every cell of the run that is scored has its row.
LEMMA ReadStep ==
  ASSUME PipelineAssumption, IInv, NEW p \in Procs, RiskRead(p) PROVE IInv'
<1>. PTypeOK
  BY DEF IInv
<1>1. CASE stage = {}
  BY <1>1, NextTaskIsQuiet, QuietStep DEF RiskRead, PTypeOK
<1>2. CASE stage # {}
  <2> DEFINE run == LatestRun
             data == [h \in Hexes |-> Level(h, Staged(run, h).rain)]
  <2>1. proc' = [proc EXCEPT ![p] = [@ EXCEPT !.pc = "delete", !.run = run, !.data = data]]
    BY <1>2 DEF RiskRead
  <2>2. run \in {row.run : row \in stage} /\ run \in Runs
    <3> DEFINE T == {row.run : row \in stage}
    <3>1. T \subseteq Runs /\ T # {} /\ Runs \subseteq Times
      BY <1>2 DEF PTypeOK, Runs, Times, Hour, PipelineAssumption
    <3>2. Newest(T) \in T
      BY <3>1, NewestExists
    <3>. QED
      BY <3>1, <3>2 DEF LatestRun
  <2> HIDE DEF run
  <2>3. ASSUME NEW h \in Hexes PROVE data[h] \in 1 .. 4
    <3>1. \E row \in stage : row.run = run /\ row.hex = h
      BY <2>2 DEF IInv, ForecastIsOneFetch
    <3>2. Staged(run, h) \in stage
      BY <3>1 DEF Staged
    <3>3. /\ Staged(run, h).rain \in Nat
          /\ bias[h] \in Nat /\ Fsi[h] \in Int
      <4>1. \A row \in stage : row.rain \in Rains
        BY DEF PTypeOK
      <4>2. bias[h] \in Multipliers
        BY DEF PTypeOK
      <4>3. Staged(run, h).rain \in Rains
        BY <3>2, <4>1
      <4>4. Fsi[h] \in 0 .. 100
        BY DEF PipelineAssumption
      <4>5. 0 .. 100 \subseteq Int
        OBVIOUS
      <4>6. Rains \subseteq Nat /\ Multipliers \subseteq Nat
        BY DEF PipelineAssumption
      <4>. QED
        BY <4>2, <4>3, <4>4, <4>5, <4>6, Zenon
    <3>4. RainCorrected(Staged(run, h).rain, bias[h], 0) \in Int
      BY <3>3, RainIsNumber
    <3>. QED
      BY <3>3, <3>4, LevelsAreKnown DEF Level
  <2>4. data \in [Hexes -> 1 .. 4] /\ data \in [Hexes -> Nat]
    BY <2>3
  <2> HIDE DEF data
  <2>5. PICK x : x = [proc[p] EXCEPT !.pc = "delete", !.run = run, !.data = data]
    OBVIOUS
  <2>6. proc[p] \in ProcType
    BY DEF PTypeOK
  <2>7. x \in ProcType /\ HoldsItsData(x)
    BY <2>2, <2>4, <2>5, <2>6 DEF ProcType, HoldsItsData
  <2>. QED
    BY <2>1, <2>5, <2>7, BusyStep DEF RiskRead
<1>. QED
  BY <1>1, <1>2

\* The delete takes the rows of one time, all of them.
LEMMA DeleteStep ==
  ASSUME PipelineAssumption, IInv, NEW p \in Procs, RiskDelete(p) PROVE IInv'
<1>. PTypeOK
  BY DEF IInv
<1>1. PTypeOK' /\ DataIsReady'
  <2>1. PICK x : x = [proc[p] EXCEPT !.pc = "score"]
    OBVIOUS
  <2>2. proc[p] \in ProcType /\ proc[p].data \in [Hexes -> 1..4]
    BY DEF RiskDelete, IInv, PTypeOK, DataIsReady
  <2>3. x \in ProcType /\ HoldsItsData(x)
    BY <2>1, <2>2 DEF ProcType, HoldsItsData
  <2>4. DataIsReady'
    BY <2>1, <2>3, BusyStep DEF RiskDelete
  <2>. QED
    BY <2>1, <2>3, <2>4 DEF RiskDelete, PTypeOK
<1>2. ASSUME NEW s \in snaps' PROVE MapIsWhole(s.ts)'
  <2>1. s \in snaps /\ s.ts # ValidTs(proc[p].run)
    BY DEF RiskDelete
  <2>2. \A y \in snaps : y.ts = s.ts <=> y \in snaps' /\ y.ts = s.ts
    BY <2>1 DEF RiskDelete
  <2>3. snaps' \subseteq snaps
    BY DEF RiskDelete
  <2>. QED
    BY <2>1, <2>2, <2>3 DEF IInv, MapsAreWhole, MapIsWhole
<1>3. ForecastIsOneFetch'
  BY DEF RiskDelete, IInv, ForecastIsOneFetch
<1>. QED
  BY <1>1, <1>2, <1>3 DEF IInv, MapsAreWhole

\* The insert meets no row of its time, or the unique constraint refuses it.
LEMMA ScoreStep ==
  ASSUME PipelineAssumption, IInv, NEW p \in Procs, RiskWrite(p) PROVE IInv'
<1>. PTypeOK
  BY DEF IInv
<1>1. CASE Clash(Scored(p))
  BY <1>1, NextTaskIsQuiet, QuietStep DEF RiskWrite, PTypeOK
<1>2. CASE ~ Clash(Scored(p))
  <2> DEFINE ts == ValidTs(proc[p].run)
             rows == Scored(p)
  <2>1. /\ snaps' = snaps \cup rows
        /\ proc' = [proc EXCEPT ![p] = Finished(p)]
    BY <1>2 DEF RiskWrite
  <2>2. ts \in Times /\ proc[p].data \in [Hexes -> 1 .. 4]
    BY ValidIsTime DEF IInv, PTypeOK, ProcType, DataIsReady, RiskWrite
  <2>3. rows \subseteq [hex : Hexes, ts : Times, level : 1 .. 4, by : Procs]
    BY <2>2 DEF Scored
  <2>4. /\ \A r \in rows : r.ts = ts /\ r.by = p /\ r.hex \in Hexes
        /\ \A h \in Hexes : \E r \in rows : r.hex = h /\ r.ts = ts /\ r.by = p
    <3>1. \A r \in rows : r.ts = ts /\ r.by = p /\ r.hex \in Hexes
      BY DEF Scored
    <3>2. ASSUME NEW h \in Hexes PROVE \E r \in rows : r.hex = h /\ r.ts = ts /\ r.by = p
      <4> DEFINE r == [hex |-> h, ts |-> ts, level |-> proc[p].data[h], by |-> p]
      <4>1. r \in rows
        BY DEF Scored
      <4>2. r.hex = h /\ r.ts = ts /\ r.by = p
        OBVIOUS
      <4>. QED
        BY <4>1, <4>2
    <3>. QED
      BY <3>1, <3>2
  <2>5. \A r \in rows : \A s \in snaps : ~(r.hex = s.hex /\ r.ts = s.ts)
    BY <1>2 DEF Clash
  <2> HIDE DEF ts, rows
  <2>6. PTypeOK' /\ DataIsReady'
    BY <2>1, <2>3, NextTaskIsQuiet DEF RiskWrite, IInv, PTypeOK, DataIsReady, Quiet
  <2>7. ASSUME NEW t \in snaps' PROVE MapIsWhole(t.ts)'
    <3>1. CASE t.ts = ts
      <4>1. \A s \in snaps : s.hex \in Hexes
        BY DEF PTypeOK
      <4>2. \A s \in snaps : s.ts # ts
        BY <2>4, <2>5, <4>1
      <4>. QED
        BY <2>1, <2>4, <3>1, <4>2 DEF MapIsWhole
    <3>2. CASE t.ts # ts
      <4>1. t \in snaps /\ MapIsWhole(t.ts)
        BY <2>1, <2>4, <3>2 DEF IInv, MapsAreWhole
      <4>2. \A y \in snaps' : y.ts = t.ts => y \in snaps
        BY <2>1, <2>4, <3>2
      <4>. QED
        BY <2>1, <4>1, <4>2 DEF MapIsWhole
    <3>. QED
      BY <3>1, <3>2
  <2>8. ForecastIsOneFetch'
    BY DEF RiskWrite, IInv, ForecastIsOneFetch
  <2>. QED
    BY <2>6, <2>7, <2>8 DEF IInv, MapsAreWhole
<1>. QED
  BY <1>1, <1>2

-----------------------------------------------------------------------------
(* The theorems.                                                           *)

\* The tables are empty and no process runs.
LEMMA PipelineInit == ASSUME PipelineAssumption, PInit PROVE IInv
<1>1. DueAt(0) \subseteq Tasks /\ Quiet(Idle)
  BY IdleIsQuiet DEF DueAt
<1>2. bias \in [Hexes -> Multipliers]
  BY DEF PInit
<1>3. PTypeOK
  BY <1>1, <1>2 DEF PInit, PTypeOK, Quiet, Runs, PipelineAssumption
<1>4. DataIsReady /\ ForecastIsOneFetch /\ MapsAreWhole
  BY DEF PInit, DataIsReady, Idle, ForecastIsOneFetch, MapsAreWhole
<1>. QED
  BY <1>3, <1>4 DEF IInv

\* Every step of the system preserves the invariant.
LEMMA PipelineStep == ASSUME PipelineAssumption, IInv, [PNext]_pvars PROVE IInv'
<1>1. CASE UNCHANGED pvars
  BY <1>1, SameTables DEF IInv, pvars, PTypeOK, DataIsReady
<1>2. ASSUME NEW p \in Procs, Step(p) PROVE IInv'
  BY <1>2, IngestCheckStep, FetchStep, WriteStep, BiasStep, ReadStep, DeleteStep, ScoreStep DEF Step
<1>. QED
  BY <1>1, <1>2, TickStep, LaunchStep, DeathStep DEF PNext

\* What every process holds and what every table holds: the forecast table only whole
\* fetches, the risk table only whole recomputes, whoever overlaps, fails or dies
\* (ingest/tasks.py:52-104, risk/tasks.py:17-122).
THEOREM PipelineInvariant == PSpec => []IInv
  BY PipelineInit, PipelineStep, PipelineAssumption, PTL DEF PSpec

\* The forecast of an hour is one fetch's, for any grid and any number of overlapping
\* ingests (ForecastIsOneFetch).
THEOREM ForecastsAreOneFetch == PSpec => []ForecastIsOneFetch
<1>1. IInv => ForecastIsOneFetch
  BY DEF IInv
<1>. QED
  BY <1>1, PipelineInvariant, PTL

\* What the views call fresh is one recompute's map without holes (ServedMapIsWhole).
THEOREM ServedMapsAreWhole == PSpec => []ServedMapIsWhole
<1>1. ASSUME IInv PROVE ServedMapIsWhole
  <2> DEFINE T == {s.ts : s \in snaps}
  <2>1. CASE snaps # {}
    <3>1. T \subseteq Times /\ T # {}
      BY <1>1, <2>1 DEF IInv, PTypeOK
    <3>2. Newest(T) \in T
      BY <3>1, NewestExists, PipelineAssumption
    <3>3. MapIsWhole(ServedTs)
      BY <1>1, <3>2 DEF ServedTs, IInv, MapsAreWhole
    <3>4. PICK p \in Procs :
            /\ \A s \in snaps : s.ts = ServedTs => s.by = p
            /\ \A h \in Hexes : \E s \in snaps : s.ts = ServedTs /\ s.hex = h
      BY <3>3 DEF MapIsWhole
    <3>5. ASSUME NEW h \in Hexes
          PROVE  {s.by : s \in {x \in {y \in snaps : y.ts = ServedTs} : x.hex = h}} = {p}
      BY <3>4
    <3>. QED
      BY <3>5 DEF ServedMapIsWhole
  <2>. QED
    BY <2>1 DEF ServedMapIsWhole, IsFresh
<1>. QED
  BY <1>1, PipelineInvariant, PTL

-----------------------------------------------------------------------------
(* Whose forecast a level is of.                                           *)

\* What a process scored is of the forecast for the time it is about to write.
ScoresFit ==
    \A p \in Procs : proc[p].pc \in {"delete", "score"} =>
        \A h \in Hexes : FitsForecast(h, ValidTs(proc[p].run), proc[p].data[h])
RowsAreTimed == \A row \in stage : row.valid = ValidTs(row.run)

LevelsInv == RowsAreTimed /\ ScoresFit /\ LevelsAreOfTheForecast

\* The forecast table only grows, so that what fitted it still does.
LEMMA ForecastsStay ==
  ASSUME PNext, NEW h, NEW ts, NEW level, FitsForecast(h, ts, level)
  PROVE  FitsForecast(h, ts, level)'
<1>1. stage \subseteq stage'
  BY DEF PNext, Tick, Refresh, Take, Step, Die, IngestCheck, FetchAndParse, IngestWrite, BulkCreate,
         RecomputeBias, RiskRead, RiskDelete, RiskWrite
<1>. QED
  BY <1>1 DEF FitsForecast

\* The rows of a run are all valid at one time.
LEMMA TimedStep == ASSUME PNext, RowsAreTimed PROVE RowsAreTimed'
<1>1. ASSUME NEW p \in Procs, IngestWrite(p) PROVE RowsAreTimed'
  <2>1. \A row \in StageRows(p) : row.valid = ValidTs(row.run)
    BY DEF StageRows
  <2>2. stage' \subseteq stage \cup StageRows(p)
    BY <1>1 DEF IngestWrite, BulkCreate
  <2>. QED
    BY <2>1, <2>2 DEF RowsAreTimed
<1>2. CASE UNCHANGED stage
  BY <1>2 DEF RowsAreTimed
<1>. QED
  BY <1>1, <1>2 DEF PNext, Tick, Refresh, Take, Step, Die, IngestCheck, FetchAndParse,
         RecomputeBias, RiskRead, RiskDelete, RiskWrite

\* A recompute that begins scores the rows of the newest run.
LEMMA ReadFits ==
  ASSUME PipelineAssumption, IInv, RowsAreTimed, NEW p \in Procs, RiskRead(p), stage # {}
  PROVE  \A h \in Hexes : FitsForecast(h, ValidTs(proc'[p].run), proc'[p].data[h])
<1>. PTypeOK
  BY DEF IInv
<1> DEFINE T == {row.run : row \in stage}
<1>1. T \subseteq Times /\ T # {}
  BY DEF PTypeOK, Runs, Times, Hour, PipelineAssumption
<1>2. PICK run : run = LatestRun
  OBVIOUS
<1>3. run \in T
  BY <1>1, <1>2, NewestExists DEF LatestRun
<1>4. /\ proc'[p].run = run
      /\ \A h \in Hexes : proc'[p].data[h] = Level(h, Staged(run, h).rain)
  BY <1>2 DEF RiskRead, PTypeOK, ProcType
<1>5. ASSUME NEW h \in Hexes
      PROVE  FitsForecast(h, ValidTs(run), Level(h, Staged(run, h).rain))
  <2>1. \E row \in stage : row.run = run /\ row.hex = h
    BY <1>3 DEF IInv, ForecastIsOneFetch
  <2>2. /\ Staged(run, h) \in stage /\ Staged(run, h).run = run /\ Staged(run, h).hex = h
    BY <2>1 DEF Staged
  <2>3. Staged(run, h).valid = ValidTs(run) /\ bias[h] \in Multipliers
    BY <2>2 DEF RowsAreTimed, PTypeOK
  <2>. QED
    BY <2>2, <2>3 DEF FitsForecast, Level
<1>. QED
  BY <1>4, <1>5

\* A process is at a delete or an insert only with what it had read.
LEMMA ScoresStep ==
  ASSUME PipelineAssumption, IInv, LevelsInv, PNext
  PROVE  ScoresFit'
<1>. PTypeOK
  BY DEF IInv
<1>1. ASSUME NEW p \in Procs, proc'[p].pc \in {"delete", "score"}
      PROVE  \A h \in Hexes : FitsForecast(h, ValidTs(proc[p].run), proc[p].data[h])'
  <2>. SUFFICES ASSUME NEW h \in Hexes PROVE FitsForecast(h, ValidTs(proc[p].run), proc[p].data[h])'
    OBVIOUS
  <2>1. PICK ts, level : ts = ValidTs(proc'[p].run) /\ level = proc'[p].data[h]
    OBVIOUS
  <2>2. \/ proc[p].pc \in {"delete", "score"} /\ proc'[p].run = proc[p].run /\ proc'[p].data = proc[p].data
        \/ RiskRead(p) /\ stage # {}
    <3>1. Quiet(Finished(p)) /\ Quiet(Retried(p)) /\ proc[p] \in ProcType
      BY NextTaskIsQuiet DEF PTypeOK
    <3>2. ASSUME NEW q \in Procs, NEW r, proc' = [proc EXCEPT ![q] = r]
          PROVE  proc'[p] = IF p = q THEN r ELSE proc[p]
      BY <3>2 DEF PTypeOK
    <3>3. CASE UNCHANGED proc
      BY <1>1, <3>3
    <3>4. ASSUME NEW q \in Procs, Die(q) PROVE proc[p] = proc'[p]
      BY <1>1, <3>2, <3>4 DEF Die, Idle
    <3>5. ASSUME NEW w \in Workers, Take(w) PROVE proc[p] = proc'[p]
      BY <1>1, <3>5 DEF Take, Begin, Idle, PTypeOK, Procs
    <3>6. CASE Refresh
      BY <1>1, <3>6 DEF Refresh, Begin, Idle, PTypeOK, Procs
    <3>7. ASSUME NEW q \in Procs, q # p, Step(q) PROVE proc[p] = proc'[p]
      BY <3>7 DEF Step, IngestCheck, FetchAndParse, IngestWrite, RecomputeBias, RiskRead,
                  RiskDelete, RiskWrite, PTypeOK
    <3>8. CASE RiskRead(p)
      BY <1>1, <3>1, <3>2, <3>8 DEF RiskRead, Quiet
    <3>9. CASE RiskDelete(p)
      BY <3>1, <3>9 DEF RiskDelete, PTypeOK, ProcType
    <3>10. CASE RiskWrite(p) \/ RecomputeBias(p) \/ IngestWrite(p)
      BY <1>1, <3>1, <3>2, <3>10 DEF RiskWrite, RecomputeBias, IngestWrite, Quiet
    <3>11. CASE IngestCheck(p)
      <4>1. proc' = [proc EXCEPT ![p] = Finished(p)] \/ proc'[p].pc = "fetch"
        BY <3>1, <3>11 DEF IngestCheck, PTypeOK, ProcType
      <4>. QED
        BY <1>1, <3>1, <3>2, <4>1 DEF Quiet
    <3>12. CASE FetchAndParse(p)
      BY <1>1, <3>1, <3>12 DEF FetchAndParse, Quiet, PTypeOK, ProcType
    <3>13. CASE Step(p)
      BY <3>8, <3>9, <3>10, <3>11, <3>12, <3>13 DEF Step
    <3>14. CASE \E q \in Procs : Step(q)
      BY <1>1, <3>7, <3>13, <3>14
    <3>. QED
      BY <1>1, <3>3, <3>4, <3>5, <3>6, <3>14 DEF PNext, Tick
  <2>3. FitsForecast(h, ts, level)
    <3>1. CASE /\ proc[p].pc \in {"delete", "score"}
               /\ proc'[p].run = proc[p].run /\ proc'[p].data = proc[p].data
      <4>1. \A k \in Hexes : FitsForecast(k, ValidTs(proc[p].run), proc[p].data[k])
        BY <3>1 DEF LevelsInv, ScoresFit
      <4>2. ts = ValidTs(proc[p].run) /\ level = proc[p].data[h]
        BY <2>1, <3>1
      <4>. QED
        BY <4>1, <4>2
    <3>2. CASE RiskRead(p) /\ stage # {}
      BY <2>1, <3>2, ReadFits DEF LevelsInv
    <3>. QED
      BY <2>2, <3>1, <3>2
  <2>4. FitsForecast(h, ts, level)'
    BY <2>3, ForecastsStay
  <2>. QED
    BY <2>1, <2>4 DEF FitsForecast
<1>. QED
  BY <1>1 DEF ScoresFit

\* What an insert adds was scored, and a delete adds nothing.
LEMMA LevelsStep ==
  ASSUME PipelineAssumption, IInv, LevelsInv, PNext
  PROVE  LevelsAreOfTheForecast'
<1>1. ASSUME NEW s \in snaps' PROVE s \in snaps \/ \E p \in Procs : RiskWrite(p) /\ s \in Scored(p)
  BY DEF PNext, Tick, Refresh, Take, Step, Die, IngestCheck, FetchAndParse, IngestWrite,
         RecomputeBias, RiskRead, RiskDelete, RiskWrite
<1>2. ASSUME NEW s \in snaps' PROVE FitsForecast(s.hex, s.ts, s.level)
  <2>1. CASE s \in snaps
    BY <2>1 DEF LevelsInv, LevelsAreOfTheForecast
  <2>2. ASSUME NEW p \in Procs, RiskWrite(p), s \in Scored(p)
        PROVE  FitsForecast(s.hex, s.ts, s.level)
    <3>1. \A h \in Hexes : FitsForecast(h, ValidTs(proc[p].run), proc[p].data[h])
      BY <2>2 DEF LevelsInv, ScoresFit, RiskWrite
    <3>2. \E h \in Hexes : s.hex = h /\ s.ts = ValidTs(proc[p].run) /\ s.level = proc[p].data[h]
      BY <2>2 DEF Scored
    <3>. QED
      BY <3>1, <3>2
  <2>. QED
    BY <1>1, <2>1, <2>2
<1>. QED
  BY <1>2, ForecastsStay DEF LevelsAreOfTheForecast

\* No level gets onto the map of another hour, for any grid, forecast and factors, and
\* whatever is ingested meanwhile (risk/tasks.py:34-73, 99-111).
THEOREM LevelsFitTheForecast == PSpec => []LevelsAreOfTheForecast
<1>1. PInit => LevelsInv
  BY DEF PInit, LevelsInv, RowsAreTimed, ScoresFit, Idle, LevelsAreOfTheForecast
<1>2. IInv /\ LevelsInv /\ [PNext]_pvars => LevelsInv'
  <2>1. CASE UNCHANGED pvars
    BY <2>1 DEF pvars, LevelsInv, RowsAreTimed, ScoresFit, LevelsAreOfTheForecast, FitsForecast
  <2>2. ASSUME IInv, LevelsInv, PNext PROVE LevelsInv'
    BY <2>2, TimedStep, ScoresStep, LevelsStep, PipelineAssumption DEF LevelsInv
  <2>. QED
    BY <2>1, <2>2
<1>3. LevelsInv => LevelsAreOfTheForecast
  BY DEF LevelsInv
<1>. QED
  BY <1>1, <1>2, <1>3, PipelineInvariant, PTL DEF PSpec

-----------------------------------------------------------------------------
(* The matrix.                                                             *)

\* The thresholds that rain reaches.
Reached(rain) == {i \in 1 .. 3 : rain >= HazardThresholds[i]}

\* More rain reaches more of them.
LEMMA MoreIsReached ==
  ASSUME NEW rain \in Int, NEW more \in Int, rain <= more
  PROVE  /\ Cardinality(Reached(rain)) \in 0 .. 3 /\ Cardinality(Reached(more)) \in 0 .. 3
         /\ Cardinality(Reached(rain)) <= Cardinality(Reached(more))
<1>1. IsFiniteSet(1 .. 3) /\ Cardinality(1 .. 3) = 3
  BY ThreeThresholds
<1>2. Reached(rain) \subseteq Reached(more) /\ Reached(more) \subseteq 1 .. 3
  BY DEF Reached, HazardThresholds
<1>3. IsFiniteSet(Reached(more)) /\ Cardinality(Reached(more)) <= 3
  BY <1>1, <1>2, FS_Subset
<1>4. IsFiniteSet(Reached(rain)) /\ Cardinality(Reached(rain)) <= Cardinality(Reached(more))
  BY <1>2, <1>3, FS_Subset
<1>5. Cardinality(Reached(rain)) \in Nat /\ Cardinality(Reached(more)) \in Nat
  BY <1>3, <1>4, FS_CardinalityType
<1>. QED
  BY <1>3, <1>4, <1>5

\* A level has one place in the order.
LEMMA LevelsAreOrdered ==
  /\ LevelOrder("LOW") = 1 /\ LevelOrder("MODERATE") = 2
  /\ LevelOrder("HIGH") = 3 /\ LevelOrder("SEVERE") = 4
<1>1. /\ HazardLevels[1] = "LOW" /\ HazardLevels[2] = "MODERATE"
      /\ HazardLevels[3] = "HIGH" /\ HazardLevels[4] = "SEVERE"
  BY DEF HazardLevels
<1>2. 1 .. 4 = {1, 2, 3, 4}
  OBVIOUS
<1>. QED
  BY <1>1, <1>2 DEF LevelOrder

\* The matrix rises in both directions.
LEMMA MatrixRises ==
  ASSUME NEW k \in 0 .. 3, NEW l \in 0 .. 3, k <= l, NEW i \in 1 .. 3, NEW j \in 1 .. 3, i <= j
  PROVE  LevelOrder(RiskMatrix[HazardLevels[1 + k]][i]) <= LevelOrder(RiskMatrix[HazardLevels[1 + l]][j])
<1> DEFINE M(n, m) == LevelOrder(RiskMatrix[HazardLevels[1 + n]][m])
<1>1. /\ M(0, 1) = 1 /\ M(0, 2) = 1 /\ M(0, 3) = 2
      /\ M(1, 1) = 1 /\ M(1, 2) = 2 /\ M(1, 3) = 3
      /\ M(2, 1) = 2 /\ M(2, 2) = 3 /\ M(2, 3) = 4
      /\ M(3, 1) = 3 /\ M(3, 2) = 4 /\ M(3, 3) = 4
  BY LevelsAreOrdered DEF RiskMatrix, HazardLevels
<1>2. k \in {0, 1, 2, 3} /\ l \in {0, 1, 2, 3} /\ i \in {1, 2, 3} /\ j \in {1, 2, 3}
  OBVIOUS
<1> HIDE DEF M
<1>3. M(k, i) <= M(l, j)
  BY <1>1, <1>2
<1>. QED
  BY <1>3 DEF M

\* More forecast rain, under any one correction, and a more susceptible cell never lower
\* the level (engine.py, compute_risk).
THEOREM MoreRainIsNoSafer ==
  ASSUME NEW raw \in Nat, NEW more \in Nat, raw <= more, NEW factor \in Nat, NEW offset \in Int,
         NEW fsi \in Int, NEW worse \in Int, fsi <= worse
  PROVE  LevelOrder(RiskLevel(RainCorrected(raw, factor, offset), fsi))
           <= LevelOrder(RiskLevel(RainCorrected(more, factor, offset), worse))
<1> DEFINE x == RainCorrected(raw, factor, offset)
           y == RainCorrected(more, factor, offset)
<1>1. x \in Int /\ y \in Int /\ x <= y
  <2>1. raw * factor \in Nat /\ more * factor \in Nat /\ raw * factor <= more * factor
    <3>1. PICK d \in Nat : more = raw + d
      <4>1. more - raw \in Nat /\ more = raw + (more - raw)
        OBVIOUS
      <4>. QED
        BY <4>1
    <3>2. more * factor = raw * factor + d * factor /\ d * factor \in Nat /\ raw * factor \in Nat
      BY <3>1
    <3>. QED
      BY <3>2
  <2>2. ASSUME NEW u \in Nat, NEW v \in Nat, u <= v PROVE u \div 10000 <= v \div 10000
    BY <2>2
  <2>3. /\ (raw * factor) \div One \in Int /\ (more * factor) \div One \in Int
        /\ (raw * factor) \div One <= (more * factor) \div One
    BY <2>1, <2>2 DEF One
  <2>4. PICK u : u = (raw * factor) \div One
    OBVIOUS
  <2>5. PICK v : v = (more * factor) \div One
    OBVIOUS
  <2>6. x = AtLeast(0, u + offset) /\ y = AtLeast(0, v + offset)
    BY <2>4, <2>5 DEF RainCorrected
  <2>7. u \in Int /\ v \in Int /\ u <= v
    BY <2>3, <2>4, <2>5
  <2>. QED
    BY <2>6, <2>7 DEF AtLeast
<1> HIDE DEF x, y
<1>2. SuscIdx(fsi) \in 1 .. 3 /\ SuscIdx(worse) \in 1 .. 3 /\ SuscIdx(fsi) <= SuscIdx(worse)
  <2>1. ASSUME NEW z \in Int PROVE SuscIdx(z) = IF z < 33 THEN 1 ELSE IF z < 66 THEN 2 ELSE 3
    <3>1. 1 .. 3 = {1, 2, 3}
      OBVIOUS
    <3>. QED
      BY <3>1 DEF SuscIdx, SusceptibilityBuckets, BucketSusceptibility
  <2>. QED
    BY <2>1
<1>3. /\ RiskLevel(x, fsi) = RiskMatrix[HazardLevels[1 + Cardinality(Reached(x))]][SuscIdx(fsi)]
      /\ RiskLevel(y, worse) = RiskMatrix[HazardLevels[1 + Cardinality(Reached(y))]][SuscIdx(worse)]
  BY DEF RiskLevel, BucketHazard, Reached
<1>4. LevelOrder(RiskLevel(x, fsi)) <= LevelOrder(RiskLevel(y, worse))
  BY <1>1, <1>2, <1>3, MoreIsReached, MatrixRises
<1>. QED
  BY <1>4 DEF x, y
=============================================================================
