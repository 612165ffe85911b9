------------------------- MODULE FloodAlerts_proofs -------------------------
(***************************************************************************)
(* Proofs about FloodAlerts for any cells, residents, places, reports,     *)
(* workers, clock and number of recomputes, decisions and faults.          *)
(***************************************************************************)
EXTENDS FloodAlerts, SequenceTheorems, TLAPS

-----------------------------------------------------------------------------
(* The inductive invariant.                                                *)

\* The users who have an outcome of an event on file.
Reached(rows, i) == {d.user : d \in {x \in rows : x.event = i /\ x.status # "QUEUED"}}

\* A task is in the loop over the rows or, with an event, in the loop over its users.
InLoop(j) ==
    /\ j.pc \in {"check", "create"} => j.rows # {}
    /\ j.pc \in {"queue", "send"} => j.todo # {} /\ j.event \in DOMAIN events
    /\ j.pc \in {"idle", "check", "create"} => j.event = 0 /\ j.todo = {}
JobsAreInLoops == \A w \in Workers : InLoop(job[w])

\* Whoever is in no task's list has an outcome.
Pending(j, i) == Audience(events[i]) \subseteq j.todo \cup Reached(deliveries, i)
NobodyIsSkipped ==
    \A w \in Workers : job[w].event # 0 => Pending(job[w], job[w].event)

IInv == TypeOK /\ JobsAreInLoops /\ NobodyIsSkipped /\ EveryUserHasAnOutcome

-----------------------------------------------------------------------------
(* Facts about the helpers.                                                *)

\* An audience consists of users.
LEMMA AudiencesAreUsers ==
  ASSUME NEW e PROVE Audience(e) \in SUBSET Users
  BY DEF Audience, Subscribers

\* What an idle worker looks like.
LEMMA IdleIsTyped ==
  ASSUME AlertAssumption
  PROVE  Idle \in JobType /\ Idle.pc = "idle" /\ Idle.event = 0 /\ Idle.todo = {}
  BY DEF AlertAssumption, Idle, JobType

\* A task stays in its event's loop while somebody is left.
LEMMA SettledIsInLoop ==
  ASSUME AlertAssumption, NEW j \in JobType
  PROVE  /\ Settled(j) \in JobType /\ Settled(j).todo = j.todo
         /\ Settled(j).event = IF j.todo # {} THEN j.event ELSE 0
         /\ Settled(j).pc \in {"check", "create"} => Settled(j).rows # {}
         /\ Settled(j).pc \in {"queue", "send"} <=> j.todo # {}
<1>1. CASE j.todo # {}
  BY <1>1 DEF Settled, JobType
<1>2. CASE j.todo = {} /\ j.rows # {}
  BY <1>2 DEF Settled, JobType
<1>3. CASE j.todo = {} /\ j.rows = {}
  BY <1>3, IdleIsTyped DEF Settled
<1>. QED
  BY <1>1, <1>2, <1>3

\* A fault is counted, and as a death if it is one.
LEMMA FaultIsCounted ==
  ASSUME TypeOK, NEW k \in Nat, Fault(k)
  PROVE  /\ spent' \in [scores : Nat, actions : Nat, faults : Nat, deaths : Nat]
         /\ spent'.deaths = spent.deaths + k /\ spent.deaths \in Nat
<1>1. PICK s : s = spent
  OBVIOUS
<1>2. s \in [scores : Nat, actions : Nat, faults : Nat, deaths : Nat]
  BY <1>1 DEF TypeOK
<1>3. PICK f, d : f = s.faults + 1 /\ d = s.deaths + k
  OBVIOUS
<1>4. f \in Nat /\ d \in Nat
  BY <1>2, <1>3
<1>5. spent' = [s EXCEPT !.faults = f, !.deaths = d]
  BY <1>1, <1>3 DEF Fault
<1>6. /\ spent' \in [scores : Nat, actions : Nat, faults : Nat, deaths : Nat]
      /\ spent'.deaths = d
  BY <1>2, <1>4, <1>5
<1>. QED
  BY <1>1, <1>2, <1>3, <1>6

-----------------------------------------------------------------------------
(* What a step leaves standing.                                            *)

\* The tables of the alerts and the deaths stay.
LEMMA OtherStep ==
  ASSUME IInv, TypeOK', UNCHANGED <<job, events, deliveries>>, spent'.deaths = spent.deaths
  PROVE  IInv'
<1>1. JobsAreInLoops'
  BY DEF IInv, JobsAreInLoops, InLoop
<1>2. NobodyIsSkipped' /\ EveryUserHasAnOutcome'
  BY DEF IInv, NobodyIsSkipped, Pending, Reached, EveryUserHasAnOutcome
<1>. QED
  BY <1>1, <1>2 DEF IInv

\* One worker's task goes on, outcomes are only added, and a task leaves its event when
\* its users have theirs or when it died.
LEMMA JobStep ==
  ASSUME IInv, NEW w \in Workers, NEW x \in JobType, job' = [job EXCEPT ![w] = x],
         UNCHANGED events, \A i \in DOMAIN events : Reached(deliveries, i) \subseteq Reached(deliveries', i),
         InLoop(x),
         x.event # 0 => Audience(events[x.event]) \subseteq x.todo \cup Reached(deliveries', x.event),
         spent'.deaths = 0 =>
            /\ spent.deaths = 0
            /\ job[w].event \notin {0, x.event} =>
                  Audience(events[job[w].event]) \subseteq Reached(deliveries', job[w].event)
  PROVE  JobsAreInLoops' /\ NobodyIsSkipped' /\ EveryUserHasAnOutcome'
<1>1. /\ job \in [Workers -> JobType] /\ job'[w] = x
      /\ \A v \in Workers \ {w} : job'[v] = job[v]
      /\ \A v \in Workers : job[v].event \in 0 .. Len(events) /\ DOMAIN events = 1 .. Len(events)
  BY LenProperties DEF IInv, TypeOK
<1>2. JobsAreInLoops'
  BY <1>1 DEF IInv, JobsAreInLoops, InLoop
<1>3. NobodyIsSkipped'
  <2>1. ASSUME NEW v \in Workers, job'[v].event # 0
        PROVE  Audience(events[job'[v].event]) \subseteq job'[v].todo \cup Reached(deliveries', job'[v].event)
    <3>1. PICK n : n = job'[v].event
      OBVIOUS
    <3>2. CASE v = w
      BY <1>1, <2>1, <3>2
    <3>3. CASE v # w
      <4>1. job'[v] = job[v] /\ n \in DOMAIN events
        BY <1>1, <2>1, <3>1, <3>3
      <4>2. Audience(events[n]) \subseteq job[v].todo \cup Reached(deliveries, n)
        BY <2>1, <3>1, <4>1 DEF IInv, NobodyIsSkipped, Pending
      <4>. QED
        BY <3>1, <4>1, <4>2
    <3>. QED
      BY <3>2, <3>3
  <2>. QED
    BY <2>1 DEF NobodyIsSkipped, Pending
<1>4. EveryUserHasAnOutcome'
  <2>1. ASSUME spent'.deaths = 0, NEW i \in DOMAIN events,
               \A v \in Workers : job'[v].event # i
        PROVE  Audience(events[i]) \subseteq Reached(deliveries', i)
    <3>1. CASE job[w].event = i
      BY <1>1, <2>1, <3>1
    <3>2. CASE job[w].event # i
      <4>1. \A v \in Workers : job[v].event # i
        BY <1>1, <2>1, <3>2
      <4>2. Audience(events[i]) \subseteq Reached(deliveries, i)
        BY <2>1, <4>1 DEF IInv, EveryUserHasAnOutcome, Reached
      <4>. QED
        BY <4>2
    <3>. QED
      BY <3>1, <3>2
  <2>. QED
    BY <2>1 DEF EveryUserHasAnOutcome, Reached
<1>. QED
  BY <1>2, <1>3, <1>4

\* A task that holds no event changes hands or places.
LEMMA FreeStep ==
  ASSUME AlertAssumption, IInv, NEW w \in Workers, job[w].event = 0,
         NEW x \in JobType, job' = [job EXCEPT ![w] = x], x.event = 0, InLoop(x),
         UNCHANGED <<events, deliveries, spent>>, TypeOK'
  PROVE  IInv'
<1>1. \A i \in DOMAIN events : Reached(deliveries, i) \subseteq Reached(deliveries', i)
  OBVIOUS
<1>. QED
  BY <1>1, JobStep DEF IInv

\* A new event comes with the list of its users.
LEMMA CreateStep ==
  ASSUME AlertAssumption, IInv, NEW w \in Workers, job[w].event = 0,
         NEW j \in JobType, NEW e \in EventType, Create(w, j, e),
         queue' \subseteq (Reports \cup {NoReport}) \X (0 .. MaxRetries),
         UNCHANGED <<now, snaps, deliveries, status, spent>>
  PROVE  IInv'
<1> DEFINE n == Len(events) + 1
           k == [j EXCEPT !.event = n, !.todo = Audience(e), !.rows = {r \in @ : r[1] # e.hex}]
           x == Settled(k)
<1>1. /\ events \in Seq(EventType) /\ Len(events) \in Nat /\ DOMAIN events = 1 .. Len(events)
      /\ job \in [Workers -> JobType] /\ \A v \in Workers : job[v].event \in 0 .. Len(events)
  BY LenProperties DEF IInv, TypeOK
<1>2. events' = Append(events, e) /\ job' = [job EXCEPT ![w] = x]
  BY DEF Create
<1>3. /\ events' \in Seq(EventType) /\ Len(events') = n /\ DOMAIN events' = 1 .. n
      /\ events'[n] = e /\ \A i \in 1 .. Len(events) : events'[i] = events[i]
  BY <1>1, <1>2, AppendProperties, LenProperties
<1>4. k \in JobType /\ k.todo = Audience(e) /\ k.event = n
  <2>1. Audience(e) \in SUBSET Users /\ {r \in j.rows : r[1] # e.hex} \in SUBSET Cells /\ n \in Nat
    BY <1>1, AudiencesAreUsers DEF JobType
  <2> HIDE DEF n
  <2>2. PICK a, b : a = Audience(e) /\ b = {r \in j.rows : r[1] # e.hex}
    OBVIOUS
  <2>3. k = [j EXCEPT !.event = n, !.todo = a, !.rows = b]
    BY <2>2 DEF JobType
  <2>. QED
    BY <2>1, <2>2, <2>3 DEF JobType
<1> HIDE DEF k
<1>5. /\ x \in JobType /\ x.todo = Audience(e)
      /\ x.event = IF Audience(e) # {} THEN n ELSE 0
      /\ x.pc \in {"check", "create"} => x.rows # {}
      /\ x.pc \in {"queue", "send"} <=> Audience(e) # {}
  BY <1>4, SettledIsInLoop
<1> HIDE DEF x, n
<1>6. /\ job'[w] = x /\ \A v \in Workers \ {w} : job'[v] = job[v]
      /\ n = Len(events) + 1
  BY <1>1, <1>2 DEF n
<1>7. TypeOK'
  <2>1. \A v \in Workers : job'[v].event \in 0 .. Len(events')
    BY <1>1, <1>3, <1>5, <1>6
  <2>2. job' \in [Workers -> JobType]
    BY <1>1, <1>2, <1>5
  <2>3. DOMAIN events \subseteq DOMAIN events'
    BY <1>1, <1>3, <1>6
  <2>. QED
    BY <1>3, <2>1, <2>2, <2>3 DEF IInv, TypeOK
<1>8. JobsAreInLoops'
  <2>1. ASSUME NEW v \in Workers
        PROVE  /\ job'[v].pc \in {"check", "create"} => job'[v].rows # {}
               /\ job'[v].pc \in {"queue", "send"} => job'[v].todo # {} /\ job'[v].event \in DOMAIN events'
               /\ job'[v].pc \in {"idle", "check", "create"} => job'[v].event = 0 /\ job'[v].todo = {}
    <3>1. CASE v = w
      <4>1. x.pc \in {"idle", "check", "create", "queue", "send"} /\ n \in DOMAIN events'
        BY <1>1, <1>3, <1>5, <1>6 DEF JobType
      <4>. QED
        BY <1>5, <1>6, <3>1, <4>1
    <3>2. CASE v # w
      BY <1>1, <1>3, <1>6, <3>2 DEF IInv, JobsAreInLoops, InLoop
    <3>. QED
      BY <3>1, <3>2
  <2>. QED
    BY <2>1 DEF JobsAreInLoops, InLoop
<1>9. NobodyIsSkipped'
  <2>1. ASSUME NEW v \in Workers, job'[v].event # 0
        PROVE  Audience(events'[job'[v].event]) \subseteq job'[v].todo \cup Reached(deliveries, job'[v].event)
    <3>1. CASE v = w
      BY <1>3, <1>5, <1>6, <2>1, <3>1
    <3>2. CASE v # w
      <4>1. job'[v] = job[v] /\ events'[job[v].event] = events[job[v].event]
        BY <1>1, <1>3, <1>6, <2>1, <3>2
      <4>. QED
        BY <2>1, <4>1 DEF IInv, NobodyIsSkipped, Pending
    <3>. QED
      BY <3>1, <3>2
  <2>. QED
    BY <2>1 DEF NobodyIsSkipped, Pending
<1>10. EveryUserHasAnOutcome'
  <2>1. ASSUME spent.deaths = 0, NEW i \in DOMAIN events', \A v \in Workers : job'[v].event # i
        PROVE  Audience(events'[i]) \subseteq Reached(deliveries, i)
    <3>1. CASE i = n
      BY <1>3, <1>5, <1>6, <2>1, <3>1
    <3>2. CASE i # n
      <4>1. i \in DOMAIN events /\ events'[i] = events[i] /\ i # 0
        BY <1>1, <1>3, <1>6, <2>1, <3>2
      <4>2. ASSUME NEW v \in Workers PROVE job[v].event # i
        BY <1>6, <2>1, <4>1
      <4>. QED
        BY <2>1, <4>1, <4>2 DEF IInv, EveryUserHasAnOutcome, Reached
    <3>. QED
      BY <3>1, <3>2
  <2>. QED
    BY <2>1 DEF EveryUserHasAnOutcome, Reached
<1>. QED
  BY <1>7, <1>8, <1>9, <1>10 DEF IInv

-----------------------------------------------------------------------------
(* One lemma per action.                                                   *)

\* The clock, the recompute and the moderators leave tasks, events and deliveries alone.
LEMMA AroundStep ==
  ASSUME AlertAssumption, IInv,
         Tick \/ Blank \/ Score \/ \E r \in Reports, act \in DOMAIN Decision : Moderate(r, act)
  PROVE  IInv'
<1>. TypeOK
  BY DEF IInv
<1>1. CASE Tick
  <2>1. TypeOK'
    BY <1>1 DEF Tick, TypeOK, AlertAssumption
  <2>. QED
    BY <1>1, <2>1, OtherStep DEF Tick
<1>2. CASE Blank
  <2>1. TypeOK'
    BY <1>2 DEF Blank, TypeOK
  <2>. QED
    BY <1>2, <2>1, OtherStep DEF Blank
<1>3. CASE Score
  <2>1. \A f \in Forecasts : Rows(f) \subseteq Hexes \X (1 .. (MaxNow + 1)) \X (1 .. 4)
    BY DEF Rows, Ts, TypeOK, AlertAssumption
  <2>2. /\ spent' \in [scores : Nat, actions : Nat, faults : Nat, deaths : Nat]
        /\ spent'.deaths = spent.deaths
    BY <1>3 DEF Score, TypeOK
  <2>3. snaps' \subseteq Hexes \X (1 .. (MaxNow + 1)) \X (1 .. 4)
    BY <1>3, <2>1 DEF Score, TypeOK
  <2>4. UNCHANGED <<now, queue, job, events, deliveries, status>>
    BY <1>3 DEF Score
  <2>5. TypeOK'
    BY <2>2, <2>3, <2>4 DEF TypeOK
  <2>. QED
    BY <2>2, <2>4, <2>5, OtherStep
<1>4. ASSUME NEW r \in Reports, NEW act \in DOMAIN Decision, Moderate(r, act) PROVE IInv'
  <2>1. TypeOK' /\ spent'.deaths = spent.deaths
    BY <1>4 DEF Moderate, Decision, TypeOK, AlertAssumption
  <2>. QED
    BY <1>4, <2>1, OtherStep DEF Moderate
<1>. QED
  BY <1>1, <1>2, <1>3, <1>4

\* What a worker has just taken from the queue.
LEMMA StartedIsTyped ==
  ASSUME AlertAssumption, TypeOK, NEW m \in queue
  PROVE  /\ m[1] \in Reports \cup {NoReport} /\ m[2] \in 0 .. MaxRetries
         /\ Started(m) \in JobType /\ Started(m).event = 0 /\ Started(m).todo = {}
<1>1. m[1] \in Reports \cup {NoReport} /\ m[2] \in 0 .. MaxRetries /\ now \in 0 .. MaxNow
  BY DEF TypeOK
<1>. QED
  BY <1>1, IdleIsTyped DEF Started, Idle, JobType

\* A dispatch that found dangerous cells begins its loop over them.
LEMMA ReadStep ==
  ASSUME AlertAssumption, IInv, NEW w \in Workers, NEW m \in queue, AlertsRead(w, m)
  PROVE  IInv'
<1>. TypeOK
  BY DEF IInv
<1>1. PICK rows : rows = UniqueSnapshots
  OBVIOUS
<1>2. rows \in SUBSET Cells
  BY <1>1 DEF UniqueSnapshots, TypeOK, Cells
<1> DEFINE j == [Started(m) EXCEPT !.rows = rows]
<1>3. j \in JobType /\ j.event = 0 /\ j.todo = {}
  BY <1>2, StartedIsTyped DEF JobType
<1>4. job' = [job EXCEPT ![w] = Settled(j)] /\ job[w].pc = "idle" /\ queue' = queue \ {m}
      /\ UNCHANGED <<now, snaps, events, deliveries, status, spent>>
  BY <1>1 DEF AlertsRead, Take
<1> HIDE DEF j
<1>5. /\ Settled(j) \in JobType /\ Settled(j).event = 0 /\ Settled(j).todo = {}
      /\ InLoop(Settled(j))
  BY <1>3, SettledIsInLoop DEF InLoop
<1>6. job[w].event = 0
  BY <1>4 DEF IInv, JobsAreInLoops, InLoop
<1>7. TypeOK'
  BY <1>4, <1>5 DEF TypeOK
<1>. QED
  BY <1>4, <1>5, <1>6, <1>7, FreeStep

\* The row in hand.
LEMMA NextRowIsTyped ==
  ASSUME IInv, NEW w \in Workers, job[w].pc \in {"check", "create"}
  PROVE  /\ NextRow(w) \in job[w].rows /\ NextRow(w)[1] \in Hexes /\ NextRow(w)[2] \in 1 .. 4
         /\ job[w] \in JobType /\ job[w].event = 0 /\ job[w].todo = {}
<1>1. job[w] \in JobType /\ job[w].rows # {} /\ job[w].event = 0 /\ job[w].todo = {}
  BY DEF IInv, TypeOK, JobsAreInLoops, InLoop
<1>2. NextRow(w) \in job[w].rows
  BY <1>1 DEF NextRow
<1>. QED
  BY <1>1, <1>2 DEF JobType, Cells

\* A cell that is safe or was announced within the hour is passed over.
LEMMA CheckStep ==
  ASSUME AlertAssumption, IInv, NEW w \in Workers, AlertsCheck(w)
  PROVE  IInv'
<1>. TypeOK
  BY DEF IInv
<1>1. job[w].pc = "check" /\ UNCHANGED <<now, snaps, queue, events, deliveries, status, spent>>
  BY DEF AlertsCheck
<1>2. PICK r : r = NextRow(w)
  OBVIOUS
<1>3. job[w] \in JobType /\ job[w].event = 0 /\ job[w].todo = {} /\ r \in job[w].rows
  BY <1>1, <1>2, NextRowIsTyped
<1>4. CASE job' = [job EXCEPT ![w] = Settled([job[w] EXCEPT !.rows = @ \ {r}])]
  <2> DEFINE j == [job[w] EXCEPT !.rows = @ \ {r}]
  <2>1. j \in JobType /\ j.event = 0 /\ j.todo = {}
    BY <1>3 DEF JobType
  <2>2. job' = [job EXCEPT ![w] = Settled(j)]
    BY <1>4
  <2> HIDE DEF j
  <2>3. /\ Settled(j) \in JobType /\ Settled(j).event = 0 /\ Settled(j).todo = {}
        /\ InLoop(Settled(j))
    BY <2>1, SettledIsInLoop DEF InLoop
  <2>4. TypeOK'
    BY <1>1, <2>2, <2>3 DEF TypeOK
  <2>. QED
    BY <1>1, <1>3, <2>2, <2>3, <2>4, FreeStep
<1>5. CASE job' = [job EXCEPT ![w].pc = "create"]
  <2>1. PICK j : j = [job[w] EXCEPT !.pc = "create"]
    OBVIOUS
  <2>2. j \in JobType /\ j.event = 0 /\ InLoop(j)
    BY <1>3, <2>1 DEF JobType, InLoop
  <2>3. job' = [job EXCEPT ![w] = j]
    BY <1>5, <2>1 DEF TypeOK
  <2>4. TypeOK'
    BY <1>1, <2>2, <2>3 DEF TypeOK
  <2>. QED
    BY <1>1, <1>3, <2>2, <2>3, <2>4, FreeStep
<1>. QED
  BY <1>2, <1>4, <1>5 DEF AlertsCheck

\* The event of a cell is committed, and its whole audience is to do.
LEMMA AlertsCreateStep ==
  ASSUME AlertAssumption, IInv, NEW w \in Workers, AlertsCreate(w)
  PROVE  IInv'
<1>1. /\ job[w].pc = "create" /\ UNCHANGED <<now, snaps, queue, deliveries, status, spent>>
      /\ Create(w, job[w], Event(NextRow(w)[1], NextRow(w)[2], NoReport, job[w].at))
  BY DEF AlertsCreate
<1>2. PICK e : e = Event(NextRow(w)[1], NextRow(w)[2], NoReport, job[w].at)
  OBVIOUS
<1>3. job[w] \in JobType /\ job[w].event = 0 /\ e \in EventType
  BY <1>1, <1>2, NextRowIsTyped DEF Event, EventType, JobType
<1>4. queue' \subseteq (Reports \cup {NoReport}) \X (0 .. MaxRetries)
  BY <1>1 DEF IInv, TypeOK
<1>5. PICK j : j = job[w]
  OBVIOUS
<1>6. j \in JobType /\ Create(w, j, e)
  BY <1>1, <1>2, <1>3, <1>5
<1>. QED
  BY <1>1, <1>3, <1>4, <1>6, CreateStep

\* The event of a verified report is committed, and its whole audience is to do.
LEMMA ReportCreateStep ==
  ASSUME AlertAssumption, IInv, NEW w \in Workers, NEW m \in queue, ReportAlertsCreate(w, m)
  PROVE  IInv'
<1>. TypeOK
  BY DEF IInv
<1>1. /\ job[w].pc = "idle" /\ queue' = queue \ {m} /\ m[1] # NoReport
      /\ UNCHANGED <<now, snaps, deliveries, status, spent>>
      /\ Create(w, Started(m), Event(HexOf[m[1]], DepthToRisk[DepthOf[m[1]]], m[1], now))
  BY DEF ReportAlertsCreate, Take
<1>2. PICK e : e = Event(HexOf[m[1]], DepthToRisk[DepthOf[m[1]]], m[1], now)
  OBVIOUS
<1>3. PICK j : j = Started(m)
  OBVIOUS
<1>4. m[1] \in Reports /\ j \in JobType
  BY <1>1, <1>3, StartedIsTyped
<1>5. e \in EventType
  <2>1. HexOf[m[1]] \in Hexes /\ DepthOf[m[1]] \in {"ANKLE", "KNEE", "WAIST", "VEHICLE"}
    BY <1>4 DEF AlertAssumption
  <2>2. DepthToRisk[DepthOf[m[1]]] \in 1 .. 4
    BY <2>1 DEF DepthToRisk
  <2>. QED
    BY <1>2, <1>4, <2>1, <2>2 DEF Event, EventType, TypeOK
<1>6. job[w].event = 0
  BY <1>1 DEF IInv, JobsAreInLoops, InLoop
<1>7. queue' \subseteq (Reports \cup {NoReport}) \X (0 .. MaxRetries) /\ Create(w, j, e)
  BY <1>1, <1>2, <1>3 DEF TypeOK
<1>. QED
  BY <1>1, <1>4, <1>5, <1>6, <1>7, CreateStep

\* The user in hand.
LEMMA NextUserIsTyped ==
  ASSUME IInv, NEW w \in Workers, job[w].pc \in {"queue", "send"}
  PROVE  /\ NextUser(w) \in job[w].todo /\ NextUser(w) \in Users
         /\ job[w] \in JobType /\ job[w].event \in DOMAIN events /\ job[w].event # 0
         /\ Audience(events[job[w].event]) \subseteq job[w].todo \cup Reached(deliveries, job[w].event)
<1>1. job[w] \in JobType /\ job[w].todo # {} /\ job[w].event \in DOMAIN events
  BY DEF IInv, TypeOK, JobsAreInLoops, InLoop
<1>2. NextUser(w) \in job[w].todo
  BY <1>1 DEF NextUser
<1>3. events \in Seq(EventType) /\ DOMAIN events = 1 .. Len(events) /\ Len(events) \in Nat
  BY LenProperties DEF IInv, TypeOK
<1>4. job[w].event # 0
  BY <1>1, <1>3
<1>. QED
  BY <1>1, <1>2, <1>4 DEF JobType, IInv, NobodyIsSkipped, Pending

\* A delivery is queued, which is no outcome yet.
LEMMA QueueStep ==
  ASSUME AlertAssumption, IInv, NEW w \in Workers, QueueRow(w)
  PROVE  IInv'
<1>. TypeOK
  BY DEF IInv
<1>1. /\ job[w].pc = "queue" /\ deliveries' = deliveries \cup {Delivery(w, "QUEUED")}
      /\ job' = [job EXCEPT ![w].pc = "send"]
      /\ UNCHANGED <<now, snaps, queue, events, status, spent>>
  BY DEF QueueRow
<1>2. PICK j : j = [job[w] EXCEPT !.pc = "send"]
  OBVIOUS
<1>3. job' = [job EXCEPT ![w] = j]
  BY <1>1, <1>2 DEF TypeOK
<1>4. PICK n : n = job[w].event
  OBVIOUS
<1>5. /\ job[w] \in JobType /\ n \in DOMAIN events /\ job[w].todo # {} /\ NextUser(w) \in Users
      /\ Audience(events[n]) \subseteq job[w].todo \cup Reached(deliveries, n)
  BY <1>1, <1>4, NextUserIsTyped
<1>6. j \in JobType /\ j.event = n /\ j.todo = job[w].todo /\ InLoop(j)
  BY <1>2, <1>4, <1>5 DEF JobType, InLoop
<1>7. \A i \in DOMAIN events : Reached(deliveries, i) \subseteq Reached(deliveries', i)
  BY <1>1 DEF Reached
<1>8. Delivery(w, "QUEUED") \in [event : DOMAIN events, user : Users, status : {"QUEUED", "DELIVERED", "FAILED"}]
  BY <1>4, <1>5 DEF Delivery
<1>9. TypeOK'
  <2>1. deliveries' \subseteq [event : DOMAIN events, user : Users, status : {"QUEUED", "DELIVERED", "FAILED"}]
    BY <1>1, <1>8 DEF TypeOK
  <2>2. job' \in [Workers -> JobType] /\ \A v \in Workers : job'[v].event \in 0 .. Len(events)
    BY <1>3, <1>4, <1>6 DEF TypeOK
  <2>. QED
    BY <1>1, <2>1, <2>2 DEF TypeOK
<1>10. Audience(events[n]) \subseteq j.todo \cup Reached(deliveries', n)
  BY <1>5, <1>6, <1>7
<1>. QED
  BY <1>1, <1>3, <1>4, <1>6, <1>7, <1>9, <1>10, JobStep DEF IInv

\* A push succeeds or fails, and either is an outcome of the user who leaves the list.
LEMMA SendStep ==
  ASSUME AlertAssumption, IInv, NEW w \in Workers, Send(w)
  PROVE  IInv'
<1>. TypeOK
  BY DEF IInv
<1>1. PICK outcome \in {"DELIVERED", "FAILED"} : Sent(w, outcome)
  BY DEF Send
<1>2. /\ job[w].pc = "send" /\ UNCHANGED <<now, snaps, queue, events, status>>
      /\ job' = [job EXCEPT ![w] = Settled([job[w] EXCEPT !.todo = @ \ {NextUser(w)}])]
  BY DEF Send
<1>3. /\ spent' \in [scores : Nat, actions : Nat, faults : Nat, deaths : Nat]
      /\ spent'.deaths = spent.deaths
  <2>1. CASE UNCHANGED spent
    BY <2>1 DEF TypeOK
  <2>2. CASE Fault(0)
    BY <2>2, FaultIsCounted
  <2>. QED
    BY <2>1, <2>2 DEF Send
<1>4. PICK n, u, d : n = job[w].event /\ u = NextUser(w) /\ d = Delivery(w, outcome)
  OBVIOUS
<1>5. /\ job[w] \in JobType /\ n \in DOMAIN events /\ n # 0 /\ u \in job[w].todo /\ u \in Users
      /\ Audience(events[n]) \subseteq job[w].todo \cup Reached(deliveries, n)
  BY <1>2, <1>4, NextUserIsTyped
<1>6. d = [event |-> n, user |-> u, status |-> outcome]
  BY <1>4 DEF Delivery
<1>7. deliveries' = (deliveries \ {Delivery(w, "QUEUED")}) \cup {d} /\ Delivery(w, "QUEUED").status = "QUEUED"
  BY <1>1, <1>4 DEF Sent, Delivery
<1>8. \A i \in DOMAIN events : Reached(deliveries, i) \subseteq Reached(deliveries', i)
  BY <1>7 DEF Reached
<1>9. u \in Reached(deliveries', n)
  <2>1. d \in deliveries' /\ d.event = n /\ d.status # "QUEUED" /\ d.user = u
    BY <1>1, <1>6, <1>7
  <2>. QED
    BY <2>1 DEF Reached
<1> DEFINE j == [job[w] EXCEPT !.todo = @ \ {u}]
           x == Settled(j)
<1>10. j \in JobType /\ j.event = n /\ j.todo = job[w].todo \ {u}
  BY <1>4, <1>5 DEF JobType
<1>11. job' = [job EXCEPT ![w] = x]
  BY <1>2, <1>4
<1> HIDE DEF j
<1>12. /\ x \in JobType /\ x.todo = j.todo /\ x.event = IF j.todo # {} THEN n ELSE 0
       /\ x.pc \in {"check", "create"} => x.rows # {}
       /\ x.pc \in {"queue", "send"} <=> j.todo # {}
  BY <1>10, SettledIsInLoop
<1> HIDE DEF x
<1>13. InLoop(x)
  BY <1>5, <1>12 DEF InLoop
<1>14. Audience(events[n]) \subseteq j.todo \cup Reached(deliveries', n)
  BY <1>5, <1>8, <1>9, <1>10
<1>15. x.event # 0 => Audience(events[x.event]) \subseteq x.todo \cup Reached(deliveries', x.event)
  BY <1>12, <1>14
<1>16. n # x.event => Audience(events[n]) \subseteq Reached(deliveries', n)
  BY <1>12, <1>14
<1>17. TypeOK'
  <2>1. deliveries' \subseteq [event : DOMAIN events, user : Users, status : {"QUEUED", "DELIVERED", "FAILED"}]
    BY <1>1, <1>5, <1>6, <1>7 DEF TypeOK
  <2>2. job' \in [Workers -> JobType] /\ \A v \in Workers : job'[v].event \in 0 .. Len(events)
    <3>1. x.event \in 0 .. Len(events)
      BY <1>4, <1>12, LenProperties DEF TypeOK
    <3>. QED
      BY <1>11, <1>12, <3>1 DEF TypeOK
  <2>. QED
    BY <1>2, <1>3, <2>1, <2>2 DEF TypeOK
<1>18. JobsAreInLoops' /\ NobodyIsSkipped' /\ EveryUserHasAnOutcome'
  BY <1>2, <1>3, <1>4, <1>8, <1>11, <1>12, <1>13, <1>15, <1>16, JobStep
<1>. QED
  BY <1>17, <1>18 DEF IInv

\* A task that fails or is killed leaves its users without an outcome: the deaths say so.
LEMMA FaultStep ==
  ASSUME AlertAssumption, IInv, NEW w \in Workers, Fail(w) \/ Die(w)
  PROVE  IInv'
<1>. TypeOK
  BY DEF IInv
<1>1. Fault(1) /\ job' = [job EXCEPT ![w] = Idle] /\ UNCHANGED <<now, snaps, events, deliveries, status>>
  BY DEF Fail, Die
<1>2. /\ spent' \in [scores : Nat, actions : Nat, faults : Nat, deaths : Nat]
      /\ spent'.deaths = spent.deaths + 1 /\ spent.deaths \in Nat
  BY <1>1, FaultIsCounted
<1>3. spent'.deaths # 0
  BY <1>2
<1>4. queue' \subseteq (Reports \cup {NoReport}) \X (0 .. MaxRetries)
  <2>1. CASE Fail(w)
    <3>1. job[w].report \in Reports \cup {NoReport} /\ job[w].tries \in 0 .. MaxRetries
      BY DEF TypeOK, JobType
    <3>2. job[w].tries < MaxRetries => job[w].tries + 1 \in 0 .. MaxRetries
      BY <3>1 DEF AlertAssumption
    <3>. QED
      BY <2>1, <3>1, <3>2 DEF Fail, TypeOK
  <2>2. CASE Die(w)
    BY <2>2 DEF Die, Take, TypeOK
  <2>. QED
    BY <2>1, <2>2
<1>5. TypeOK'
  BY <1>1, <1>2, <1>4, IdleIsTyped DEF TypeOK
<1>6. Idle \in JobType /\ InLoop(Idle) /\ Idle.event = 0
  BY IdleIsTyped DEF InLoop
<1>7. \A i \in DOMAIN events : Reached(deliveries, i) \subseteq Reached(deliveries', i)
  BY <1>1
<1>8. JobsAreInLoops' /\ NobodyIsSkipped' /\ EveryUserHasAnOutcome'
  BY <1>1, <1>3, <1>6, <1>7, JobStep
<1>. QED
  BY <1>5, <1>8 DEF IInv

-----------------------------------------------------------------------------
(* The theorems.                                                           *)

\* Nothing is announced and no task runs.
LEMMA InvInit ==
  ASSUME AlertAssumption, Init PROVE IInv
<1>1. \A f \in Forecasts : Rows(f) \subseteq Hexes \X (1 .. (MaxNow + 1)) \X (1 .. 4)
  BY DEF Rows, Ts, Init, AlertAssumption
<1>2. job \in [Workers -> JobType] /\ \A w \in Workers : job[w] = Idle
  BY IdleIsTyped DEF Init
<1>3. events \in Seq(EventType) /\ DOMAIN events = {} /\ Len(events) = 0
  BY DEF Init
<1>4. TypeOK
  <2>1. snaps \subseteq Hexes \X (1 .. (MaxNow + 1)) \X (1 .. 4)
    BY <1>1 DEF Init
  <2>2. now \in 0 .. MaxNow /\ queue = {} /\ deliveries = {}
    BY DEF Init, AlertAssumption
  <2>3. status \in [Reports -> {"PENDING", "VERIFIED", "REJECTED", "SPAM"}]
    BY DEF Init
  <2>4. spent \in [scores : Nat, actions : Nat, faults : Nat, deaths : Nat]
    BY DEF Init
  <2>. QED
    BY <1>2, <1>3, <2>1, <2>2, <2>3, <2>4, IdleIsTyped DEF TypeOK
<1>5. JobsAreInLoops /\ NobodyIsSkipped
  BY <1>2, IdleIsTyped DEF JobsAreInLoops, InLoop, NobodyIsSkipped
<1>6. EveryUserHasAnOutcome
  BY <1>3 DEF EveryUserHasAnOutcome
<1>. QED
  BY <1>4, <1>5, <1>6 DEF IInv

\* Every step of the system preserves the invariant.
LEMMA InvStep ==
  ASSUME AlertAssumption, IInv, [Next]_vars PROVE IInv'
<1>1. ASSUME NEW w \in Workers, Task(w) PROVE IInv'
  BY <1>1, ReadStep, ReportCreateStep, CheckStep, AlertsCreateStep, QueueStep, SendStep DEF Task
<1>2. ASSUME NEW w \in Workers, Fail(w) \/ Die(w) PROVE IInv'
  BY <1>2, FaultStep
<1>3. CASE Tick \/ Blank \/ Score \/ \E r \in Reports, act \in DOMAIN Decision : Moderate(r, act)
  BY <1>3, AroundStep
<1>4. CASE UNCHANGED vars
  <2>1. UNCHANGED <<now, snaps, queue, job, events, deliveries, status, spent>>
    BY <1>4 DEF vars
  <2>2. TypeOK'
    BY <2>1 DEF IInv, TypeOK
  <2>. QED
    BY <2>1, <2>2, OtherStep
<1>. QED
  BY <1>1, <1>2, <1>3, <1>4 DEF Next

\* Whatever the cells, residents, places and workers: a task in an event's loop holds
\* exactly the users without an outcome, until none is left or the task dies
\* (alerts/tasks.py:58-145, 193-246).
THEOREM AlertInvariant == Spec => []IInv
<1>. USE AlertAssumption
<1>. QED
  BY InvInit, InvStep, PTL DEF Spec

\* Unless a task died, no event is left with a resident who has neither a delivered
\* push nor a failed one on file (alerts/tasks.py:117-145, 214-246).
THEOREM UsersHaveOutcomes == Spec => []EveryUserHasAnOutcome
<1>1. IInv => EveryUserHasAnOutcome
  BY DEF IInv
<1>. QED
  BY <1>1, AlertInvariant, PTL

-----------------------------------------------------------------------------
(* One push each.                                                          *)

\* The user a task has in hand.
InHand(j) == CHOOSE u \in j.todo : TRUE

\* What a task still has to do belongs to its event, and none of it is on file, unless
\* it is the row it has just queued.
Unpushed(j) ==
    j.event # 0 =>
        /\ j.todo \subseteq Audience(events[j.event])
        /\ \A d \in deliveries :
            (d.event = j.event /\ d.user \in j.todo) =>
                j.pc = "send" /\ d.user = InHand(j) /\ d.status = "QUEUED"
ListsAreUnpushed == \A w \in Workers : Unpushed(job[w])

\* No two tasks work on one event.
EventsHaveOneTask == \A v, w \in Workers : (job[v].event = job[w].event /\ job[v].event # 0) => v = w

PushInv == ListsAreUnpushed /\ EventsHaveOneTask /\ OnePushEach

\* One worker's task gives up its event or goes on with it; no row is written.
LEMMA PushStays ==
  ASSUME IInv, PushInv, NEW w \in Workers, NEW x, job' = [job EXCEPT ![w] = x],
         UNCHANGED <<events, deliveries>>, x.event = 0
  PROVE  PushInv'
<1>1. job'[w] = x /\ \A v \in Workers \ {w} : job'[v] = job[v]
  BY DEF IInv, TypeOK
<1>2. ListsAreUnpushed'
  BY <1>1 DEF PushInv, ListsAreUnpushed, Unpushed, InHand
<1>3. EventsHaveOneTask'
  BY <1>1 DEF PushInv, EventsHaveOneTask
<1>4. OnePushEach'
  BY DEF PushInv, OnePushEach, Audience, Subscribers
<1>. QED
  BY <1>2, <1>3, <1>4 DEF PushInv

\* A new event's users are not on file, and no other task has the event.
LEMMA PushCreates ==
  ASSUME AlertAssumption, IInv, PushInv, NEW w \in Workers, NEW j \in JobType, NEW e \in EventType,
         Create(w, j, e), UNCHANGED deliveries
  PROVE  PushInv'
<1> DEFINE n == Len(events) + 1
           k == [j EXCEPT !.event = n, !.todo = Audience(e), !.rows = {r \in @ : r[1] # e.hex}]
           x == Settled(k)
<1>1. /\ events \in Seq(EventType) /\ Len(events) \in Nat /\ DOMAIN events = 1 .. Len(events)
      /\ job \in [Workers -> JobType] /\ \A v \in Workers : job[v].event \in 0 .. Len(events)
  BY LenProperties DEF IInv, TypeOK
<1>2. events' = Append(events, e) /\ job' = [job EXCEPT ![w] = x]
  BY DEF Create
<1>3. events'[n] = e /\ \A i \in 1 .. Len(events) : events'[i] = events[i]
  BY <1>1, <1>2, AppendProperties
<1>4. k \in JobType /\ k.todo = Audience(e) /\ k.event = n
  <2>1. Audience(e) \in SUBSET Users /\ {r \in j.rows : r[1] # e.hex} \in SUBSET Cells /\ n \in Nat
    BY <1>1, AudiencesAreUsers DEF JobType
  <2> HIDE DEF n
  <2>2. PICK a, b : a = Audience(e) /\ b = {r \in j.rows : r[1] # e.hex}
    OBVIOUS
  <2>3. k = [j EXCEPT !.event = n, !.todo = a, !.rows = b]
    BY <2>2 DEF JobType
  <2>. QED
    BY <2>1, <2>2, <2>3 DEF JobType
<1> HIDE DEF k
<1>5. x.todo = Audience(e) /\ x.event \in {0, n}
  BY <1>4, SettledIsInLoop
<1> HIDE DEF x
<1>6. job'[w] = x /\ \A v \in Workers \ {w} : job'[v] = job[v]
  BY <1>1, <1>2
<1>7. \A d \in deliveries : d.event \in 1 .. Len(events)
  BY <1>1 DEF IInv, TypeOK
<1>8. ListsAreUnpushed'
  <2>1. ASSUME NEW v \in Workers, job'[v].event # 0 PROVE (Unpushed(job[v]))'
    <3>1. CASE v = w
      <4>1. job'[v] = x /\ x.event = n
        BY <1>5, <1>6, <2>1, <3>1
      <4>2. \A d \in deliveries : d.event # n
        BY <1>1, <1>7
      <4>3. (Audience(events[job[v].event]))' = Audience(e)
        BY <1>3, <4>1 DEF Audience, Subscribers
      <4>. QED
        BY <1>5, <4>1, <4>2, <4>3 DEF Unpushed
    <3>2. CASE v # w
      <4>1. PICK i : i = job[v].event
        OBVIOUS
      <4>2. job'[v] = job[v] /\ i \in 1 .. Len(events) /\ i # 0
        BY <1>1, <1>6, <2>1, <3>2, <4>1
      <4>3. events'[i] = events[i]
        BY <1>3, <4>2
      <4>4. Unpushed(job[v])
        BY DEF PushInv, ListsAreUnpushed
      <4>. QED
        BY <4>1, <4>2, <4>3, <4>4 DEF Unpushed, InHand, Audience, Subscribers
    <3>. QED
      BY <3>1, <3>2
  <2>2. ASSUME NEW v \in Workers, job'[v].event = 0 PROVE (Unpushed(job[v]))'
    BY <2>2 DEF Unpushed
  <2>. QED
    BY <2>1, <2>2 DEF ListsAreUnpushed
<1>9. EventsHaveOneTask'
  <2>1. \A v \in Workers \ {w} : job'[v].event \in 0 .. Len(events)
    BY <1>1, <1>6
  <2>2. \A v \in Workers \ {w} : job'[v].event # n
    BY <1>1, <2>1
  <2>. QED
    BY <1>5, <1>6, <2>2 DEF PushInv, EventsHaveOneTask
<1>10. OnePushEach'
  <2>1. ASSUME NEW d \in deliveries PROVE d.user \in (Audience(events[d.event]))'
    <3>1. events'[d.event] = events[d.event]
      BY <1>3, <1>7
    <3>2. d.user \in Audience(events[d.event])
      BY DEF PushInv, OnePushEach
    <3>. QED
      BY <3>1, <3>2 DEF Audience, Subscribers
  <2>. QED
    BY <2>1 DEF PushInv, OnePushEach
<1>. QED
  BY <1>8, <1>9, <1>10 DEF PushInv

\* The row of the user in hand is the first of that user and event.
LEMMA PushQueues ==
  ASSUME AlertAssumption, IInv, PushInv, NEW w \in Workers, QueueRow(w)
  PROVE  PushInv'
<1>1. PICK j, n, u, q : /\ j = [job[w] EXCEPT !.pc = "send"] /\ n = job[w].event /\ u = NextUser(w)
                        /\ q = Delivery(w, "QUEUED")
  OBVIOUS
<1>2. /\ job[w].pc = "queue" /\ deliveries' = deliveries \cup {q} /\ UNCHANGED events
      /\ job' = [job EXCEPT ![w] = j]
  BY <1>1 DEF QueueRow, IInv, TypeOK
<1>3. job[w] \in JobType /\ n # 0 /\ u \in job[w].todo
  BY <1>1, <1>2, NextUserIsTyped
<1>4. j.pc = "send" /\ j.event = n /\ j.todo = job[w].todo /\ u = InHand(j)
  BY <1>1, <1>3 DEF JobType, NextUser, InHand
<1>5. q.event = n /\ q.user = u /\ q.status = "QUEUED"
  BY <1>1 DEF Delivery
<1>6. job'[w] = j /\ \A v \in Workers \ {w} : job'[v] = job[v]
  BY <1>2 DEF IInv, TypeOK
<1>7. /\ job[w].todo \subseteq Audience(events[n])
      /\ \A d \in deliveries : d.event = n => d.user \notin job[w].todo
  BY <1>1, <1>2, <1>3 DEF PushInv, ListsAreUnpushed, Unpushed
<1>8. \A v \in Workers \ {w} : job[v].event # n
  BY <1>1, <1>3 DEF PushInv, EventsHaveOneTask
<1>9. ListsAreUnpushed'
  <2>1. ASSUME NEW v \in Workers PROVE (Unpushed(job[v]))'
    <3>1. CASE v = w
      <4>1. (Audience(events[job[v].event]))' = Audience(events[n])
        BY <1>2, <1>4, <1>6, <3>1 DEF Audience, Subscribers
      <4>2. ASSUME NEW d \in deliveries', d.event = n, d.user \in job[w].todo PROVE d = q
        BY <1>2, <1>7, <4>2
      <4>. QED
        BY <1>4, <1>5, <1>6, <1>7, <3>1, <4>1, <4>2 DEF Unpushed, InHand
    <3>2. CASE v # w
      <4>1. job'[v] = job[v] /\ job[v].event # n /\ Unpushed(job[v])
        BY <1>6, <1>8, <3>2 DEF PushInv, ListsAreUnpushed
      <4>. QED
        BY <1>2, <1>5, <4>1 DEF Unpushed, InHand, Audience, Subscribers
    <3>. QED
      BY <3>1, <3>2
  <2>. QED
    BY <2>1 DEF ListsAreUnpushed
<1>10. EventsHaveOneTask'
  <2>1. \A v \in Workers : job'[v].event = job[v].event
    BY <1>1, <1>4, <1>6
  <2>. QED
    BY <2>1 DEF PushInv, EventsHaveOneTask
<1>11. OnePushEach'
  <2>1. ASSUME NEW d \in deliveries' PROVE d.user \in (Audience(events[d.event]))'
    <3>1. d.user \in Audience(events[d.event])
      <4>1. CASE d = q
        BY <1>3, <1>5, <1>7, <4>1
      <4>2. CASE d \in deliveries
        BY <4>2 DEF PushInv, OnePushEach
      <4>. QED
        BY <1>2, <4>1, <4>2
    <3>. QED
      BY <1>2, <3>1 DEF Audience, Subscribers
  <2>2. ASSUME NEW a \in deliveries', NEW b \in deliveries', a.event = b.event, a.user = b.user
        PROVE  a = b
    <3>1. \A d \in deliveries : ~ (d.event = n /\ d.user = u)
      BY <1>3, <1>7
    <3>. QED
      BY <1>2, <1>5, <2>2, <3>1 DEF PushInv, OnePushEach
  <2>. QED
    BY <2>1, <2>2 DEF OnePushEach
<1>. QED
  BY <1>9, <1>10, <1>11 DEF PushInv

\* The outcome takes the place of the queued row, and its user leaves the list.
LEMMA PushSends ==
  ASSUME AlertAssumption, IInv, PushInv, NEW w \in Workers, Send(w)
  PROVE  PushInv'
<1>1. PICK outcome \in {"DELIVERED", "FAILED"} : Sent(w, outcome)
  BY DEF Send
<1>2. PICK n, u, q, d : /\ n = job[w].event /\ u = NextUser(w) /\ q = Delivery(w, "QUEUED")
                        /\ d = Delivery(w, outcome)
  OBVIOUS
<1> DEFINE j == [job[w] EXCEPT !.todo = @ \ {u}]
           x == Settled(j)
<1>3. /\ job[w].pc = "send" /\ UNCHANGED events /\ deliveries' = (deliveries \ {q}) \cup {d}
      /\ job' = [job EXCEPT ![w] = x]
  BY <1>1, <1>2 DEF Send, Sent
<1>4. job[w] \in JobType /\ n # 0 /\ u \in job[w].todo /\ u = InHand(job[w])
  BY <1>2, <1>3, NextUserIsTyped DEF NextUser, InHand
<1>5. j \in JobType /\ j.event = n /\ j.todo = job[w].todo \ {u}
  BY <1>2, <1>4 DEF JobType
<1> HIDE DEF j
<1>6. x.event \in {0, n} /\ x.todo = job[w].todo \ {u}
  BY <1>5, SettledIsInLoop
<1> HIDE DEF x
<1>7. job'[w] = x /\ \A v \in Workers \ {w} : job'[v] = job[v]
  BY <1>3 DEF IInv, TypeOK
<1>8. q = [event |-> n, user |-> u, status |-> "QUEUED"] /\ d = [event |-> n, user |-> u, status |-> outcome]
  BY <1>2 DEF Delivery
<1>9. /\ job[w].todo \subseteq Audience(events[n])
      /\ \A r \in deliveries : (r.event = n /\ r.user \in job[w].todo) => r.user = u /\ r.status = "QUEUED"
  BY <1>2, <1>4 DEF PushInv, ListsAreUnpushed, Unpushed
<1>10. \A v \in Workers \ {w} : job[v].event # n
  BY <1>2, <1>4 DEF PushInv, EventsHaveOneTask
<1>11. \A r \in deliveries : (r.event = n /\ r.user = u) => r = q
  <2>1. ASSUME NEW r \in deliveries, r.event = n, r.user = u PROVE r = q
    <3>1. r.status = "QUEUED"
      BY <1>4, <1>9, <2>1
    <3>2. r \in [event : DOMAIN events, user : Users, status : {"QUEUED", "DELIVERED", "FAILED"}]
      BY <2>1 DEF IInv, TypeOK
    <3>. QED
      BY <1>8, <2>1, <3>1, <3>2
  <2>. QED
    BY <2>1
<1>12. ListsAreUnpushed'
  <2>1. ASSUME NEW v \in Workers PROVE (Unpushed(job[v]))'
    <3>1. CASE v = w /\ x.event = n
      <4>1. (Audience(events[job[v].event]))' = Audience(events[n])
        BY <1>3, <1>7, <3>1 DEF Audience, Subscribers
      <4>2. ASSUME NEW r \in deliveries', r.event = n PROVE r.user \notin x.todo
        BY <1>3, <1>6, <1>8, <1>9, <4>2
      <4>. QED
        BY <1>6, <1>7, <1>9, <3>1, <4>1, <4>2 DEF Unpushed
    <3>2. CASE v = w /\ x.event = 0
      BY <1>7, <3>2 DEF Unpushed
    <3>3. CASE v # w
      <4>1. job'[v] = job[v] /\ job[v].event # n /\ Unpushed(job[v])
        BY <1>7, <1>10, <3>3 DEF PushInv, ListsAreUnpushed
      <4>2. \A r \in deliveries' : r.event # n => r \in deliveries
        BY <1>3, <1>8
      <4>. QED
        BY <1>3, <4>1, <4>2 DEF Unpushed, InHand, Audience, Subscribers
    <3>. QED
      BY <1>6, <3>1, <3>2, <3>3
  <2>. QED
    BY <2>1 DEF ListsAreUnpushed
<1>13. EventsHaveOneTask'
  BY <1>6, <1>7, <1>10 DEF PushInv, EventsHaveOneTask
<1>14. OnePushEach'
  <2>1. ASSUME NEW r \in deliveries' PROVE r.user \in (Audience(events[r.event]))'
    <3>1. r.user \in Audience(events[r.event])
      <4>1. CASE r = d
        BY <1>4, <1>8, <1>9, <4>1
      <4>2. CASE r \in deliveries
        BY <4>2 DEF PushInv, OnePushEach
      <4>. QED
        BY <1>3, <4>1, <4>2
    <3>. QED
      BY <1>3, <3>1 DEF Audience, Subscribers
  <2>2. ASSUME NEW a \in deliveries', NEW b \in deliveries', a.event = b.event, a.user = b.user
        PROVE  a = b
    <3>1. \A r \in deliveries \ {q} : ~ (r.event = n /\ r.user = u)
      BY <1>11
    <3>2. d.event = n /\ d.user = u
      BY <1>8
    <3>. QED
      BY <1>3, <2>2, <3>1, <3>2 DEF PushInv, OnePushEach
  <2>. QED
    BY <2>1, <2>2 DEF OnePushEach
<1>. QED
  BY <1>12, <1>13, <1>14 DEF PushInv

\* Every step keeps the lists and the rows apart.
LEMMA PushStep ==
  ASSUME AlertAssumption, IInv, PushInv, [Next]_vars PROVE PushInv'
<1>1. CASE UNCHANGED <<job, events, deliveries>>
  <2>1. ListsAreUnpushed'
    BY <1>1 DEF PushInv, ListsAreUnpushed, Unpushed, InHand, Audience, Subscribers
  <2>2. EventsHaveOneTask' /\ OnePushEach'
    BY <1>1 DEF PushInv, EventsHaveOneTask, OnePushEach, Audience, Subscribers
  <2>. QED
    BY <2>1, <2>2 DEF PushInv
<1>2. ASSUME NEW w \in Workers, NEW x, job' = [job EXCEPT ![w] = x],
             UNCHANGED <<events, deliveries>>, x.event = 0
      PROVE  PushInv'
  BY <1>2, PushStays
<1>3. ASSUME NEW w \in Workers, NEW m \in queue, AlertsRead(w, m) PROVE PushInv'
  <2>1. PICK rows : rows = UniqueSnapshots
    OBVIOUS
  <2>2. rows \in SUBSET Cells
    BY <2>1 DEF UniqueSnapshots, IInv, TypeOK, Cells
  <2> DEFINE j == [Started(m) EXCEPT !.rows = rows]
  <2>3. j \in JobType /\ j.event = 0 /\ j.todo = {}
    BY <2>2, StartedIsTyped DEF JobType, IInv
  <2>4. job' = [job EXCEPT ![w] = Settled(j)] /\ UNCHANGED <<events, deliveries>>
    BY <1>3, <2>1 DEF AlertsRead
  <2> HIDE DEF j
  <2>5. Settled(j).event = 0
    BY <2>3, SettledIsInLoop
  <2>. QED
    BY <1>2, <2>4, <2>5
<1>4. ASSUME NEW w \in Workers, AlertsCheck(w) PROVE PushInv'
  <2>1. job[w].pc = "check" /\ UNCHANGED <<events, deliveries>>
    BY <1>4 DEF AlertsCheck
  <2>2. PICK r : r = NextRow(w)
    OBVIOUS
  <2>3. job[w] \in JobType /\ job[w].event = 0 /\ job[w].todo = {}
    BY <2>1, NextRowIsTyped
  <2>4. CASE job' = [job EXCEPT ![w] = Settled([job[w] EXCEPT !.rows = @ \ {r}])]
    <3> DEFINE j == [job[w] EXCEPT !.rows = @ \ {r}]
    <3>1. j \in JobType /\ j.event = 0 /\ j.todo = {}
      BY <2>3 DEF JobType
    <3>2. job' = [job EXCEPT ![w] = Settled(j)]
      BY <2>4
    <3> HIDE DEF j
    <3>3. Settled(j).event = 0
      BY <3>1, SettledIsInLoop
    <3>. QED
      BY <1>2, <2>1, <3>2, <3>3
  <2>5. CASE job' = [job EXCEPT ![w].pc = "create"]
    <3>1. PICK j : j = [job[w] EXCEPT !.pc = "create"]
      OBVIOUS
    <3>2. j.event = 0 /\ job' = [job EXCEPT ![w] = j]
      BY <2>3, <2>5, <3>1 DEF JobType, IInv, TypeOK
    <3>. QED
      BY <1>2, <2>1, <3>2
  <2>. QED
    BY <1>4, <2>2, <2>4, <2>5 DEF AlertsCheck
<1>5. ASSUME NEW w \in Workers, AlertsCreate(w) PROVE PushInv'
  <2>1. PICK e, j : e = Event(NextRow(w)[1], NextRow(w)[2], NoReport, job[w].at) /\ j = job[w]
    OBVIOUS
  <2>2. job[w].pc = "create" /\ UNCHANGED deliveries /\ Create(w, j, e)
    BY <1>5, <2>1 DEF AlertsCreate
  <2>3. j \in JobType /\ e \in EventType
    BY <2>1, <2>2, NextRowIsTyped DEF Event, EventType, JobType
  <2>. QED
    BY <2>2, <2>3, PushCreates
<1>6. ASSUME NEW w \in Workers, NEW m \in queue, ReportAlertsCreate(w, m) PROVE PushInv'
  <2>1. PICK e, j : e = Event(HexOf[m[1]], DepthToRisk[DepthOf[m[1]]], m[1], now) /\ j = Started(m)
    OBVIOUS
  <2>2. m[1] # NoReport /\ UNCHANGED deliveries /\ Create(w, j, e)
    BY <1>6, <2>1 DEF ReportAlertsCreate
  <2>3. m[1] \in Reports /\ j \in JobType
    BY <2>1, <2>2, StartedIsTyped DEF IInv
  <2>4. HexOf[m[1]] \in Hexes /\ DepthOf[m[1]] \in {"ANKLE", "KNEE", "WAIST", "VEHICLE"}
    BY <2>3 DEF AlertAssumption
  <2>5. DepthToRisk[DepthOf[m[1]]] \in 1 .. 4
    BY <2>4 DEF DepthToRisk
  <2>6. e \in EventType
    BY <2>1, <2>3, <2>4, <2>5 DEF Event, EventType, IInv, TypeOK
  <2>. QED
    BY <2>2, <2>3, <2>6, PushCreates
<1>7. ASSUME NEW w \in Workers, Fail(w) \/ Die(w) PROVE PushInv'
  <2>1. job' = [job EXCEPT ![w] = Idle] /\ UNCHANGED <<events, deliveries>>
    BY <1>7 DEF Fail, Die
  <2>. QED
    BY <1>2, <2>1, IdleIsTyped
<1>8. CASE Tick \/ Blank \/ Score \/ (\E r \in Reports, act \in DOMAIN Decision : Moderate(r, act)) \/ UNCHANGED vars
  <2>1. UNCHANGED <<job, events, deliveries>>
    BY <1>8 DEF Tick, Blank, Score, Moderate, vars
  <2>. QED
    BY <1>1, <2>1
<1>. QED
  BY <1>3, <1>4, <1>5, <1>6, <1>7, <1>8, PushQueues, PushSends DEF Next, Task

\* Nothing is pushed yet.
LEMMA PushInit ==
  ASSUME AlertAssumption, Init PROVE PushInv
<1>1. deliveries = {} /\ \A w \in Workers : job[w].event = 0
  BY IdleIsTyped DEF Init
<1>. QED
  BY <1>1 DEF PushInv, ListsAreUnpushed, Unpushed, EventsHaveOneTask, OnePushEach

\* Only those who asked for an event's alert are pushed it, and each has one row of it,
\* however often a task was retried, killed or doubled (alerts/tasks.py:106-121, 193-221).
THEOREM PushedOnceEach == Spec => []OnePushEach
<1>. USE AlertAssumption
<1>1. IInv /\ PushInv /\ [Next]_vars => PushInv'
  BY PushStep
<1>2. PushInv => OnePushEach
  BY DEF PushInv
<1>. QED
  BY <1>1, <1>2, PushInit, AlertInvariant, PTL DEF Spec

=============================================================================
