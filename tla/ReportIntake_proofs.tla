------------------------- MODULE ReportIntake_proofs -------------------------
(***************************************************************************)
(* Proofs about ReportIntake for any set of reports and any number of      *)
(* faults.                                                                 *)
(***************************************************************************)
EXTENDS ReportIntake, TLAPS

-----------------------------------------------------------------------------
(* The inductive invariant.                                                *)

\* A request somebody waits for carries the one report its sender is at.
LiveIsAwaited ==
    \A q \in requests : q.live =>
        sender[q.from].pc = "wait" /\ sender[q.from].report = {q.report}

\* A sender waits for one request at a time.
OneRequestEach ==
    \A a, b \in requests : a.live /\ b.live /\ a.from = b.from => a = b

\* A sender about to post has one report in hand.
OneReportEach ==
    \A s \in Senders : sender[s].pc = "post" => \E r \in Reports : sender[s].report = {r}

\* The server says 200 and 201 of reports it has.
AnswersAreTrue ==
    \A q \in requests : q.pc \in {"200", "201"} => Exists(q.report)

\* Whoever is about to mark a row has been told it is stored.
MarksAreTrue ==
    \A s \in Senders : sender[s].pc = "mark" => \A r \in sender[s].report : Exists(r)

IInv ==
    /\ TypeOK
    /\ LiveIsAwaited /\ OneRequestEach /\ OneReportEach
    /\ AnswersAreTrue /\ MarksAreTrue
    /\ SyncedIsStored /\ StoredOnce

-----------------------------------------------------------------------------
(* What a step leaves alone.                                               *)

\* A report on file stays on file, so what was said of it stays true.
LEMMA FiledStaysFiled ==
  ASSUME stored \subseteq stored'
  PROVE  \A r : Exists(r) => Exists(r)'
  BY DEF Exists

\* Giving up on a request changes nothing but that nobody waits for it.
LEMMA GivenUpRequests ==
  ASSUME TypeOK, NEW s \in Senders
  PROVE  \A q \in GivenUp(s) :
            /\ ~(q.live /\ q.from = s)
            /\ \/ q \in requests
               \/ ~q.live /\ \E o \in requests : q.report = o.report /\ q.pc = o.pc /\ q.from = o.from
            /\ q \in RequestType
<1> SUFFICES ASSUME NEW q \in GivenUp(s)
             PROVE  /\ ~(q.live /\ q.from = s)
                    /\ \/ q \in requests
                       \/ ~q.live /\ \E o \in requests : q.report = o.report /\ q.pc = o.pc /\ q.from = o.from
                    /\ q \in RequestType
  OBVIOUS
<1>1. PICK o \in requests : q = IF o.from = s THEN [o EXCEPT !.live = FALSE] ELSE o
  BY DEF GivenUp
<1>. QED
  BY <1>1 DEF TypeOK, RequestType

\* Where a request the server has worked on ends up.
LEMMA BecomesRequests ==
  ASSUME TypeOK, NEW q \in requests, NEW pc \in {"check", "create", "201", "200", "500"},
         Becomes(q, pc), NEW x \in requests'
  PROVE  /\ x \in RequestType
         /\ \/ x \in requests /\ x # q
            \/ x.report = q.report /\ x.from = q.from /\ x.live = q.live /\ x.pc = pc
  BY DEF Becomes, TypeOK, RequestType

\* After a caught failure nobody posts, waits or marks.
LEMMA CaughtSender ==
  ASSUME TypeOK, NEW s \in Senders
  PROVE  Caught(s) \in SenderType /\ Caught(s).pc \in {"idle", "next"}
  BY DEF Caught, Idle, TypeOK, SenderType

-----------------------------------------------------------------------------
(* The invariant holds at the start and survives every step.               *)

\* Nothing is queued, sent or stored at first.
LEMMA InvInit == Init => IInv
<1> SUFFICES ASSUME Init PROVE IInv
  OBVIOUS
<1>1. TypeOK
  BY DEF Init, TypeOK, Idle, SenderType
<1>2. \A s \in Senders : sender[s].pc = "idle"
  BY DEF Init, Idle
<1>. QED
  BY <1>1, <1>2 DEF Init, IInv, LiveIsAwaited, OneRequestEach, OneReportEach,
     AnswersAreTrue, MarksAreTrue, SyncedIsStored, StoredOnce

\* A new report, a lost photo and a flush's walk through the queue touch no request.
LEMMA QueueKeeps ==
  ASSUME IInv,
         \/ \E r \in Reports : Submit(r) \/ LosePhoto(r)
         \/ Flush \/ FlushNext
  PROVE  IInv'
<1> USE DEF IInv
<1>1. ASSUME NEW r \in Reports, Submit(r) PROVE IInv'
  <2>1. TypeOK'
    BY <1>1 DEF Submit, TypeOK, SenderType
  <2>2. sender'["flush"] = sender["flush"] /\ sender'["screen"] = [pc |-> "post", report |-> {r}, todo |-> {}]
    BY <1>1 DEF Submit, TypeOK, Senders
  <2>3. \A x : Exists(x)' <=> Exists(x)
    BY <1>1 DEF Submit, Exists
  <2>4. LiveIsAwaited' /\ OneReportEach' /\ MarksAreTrue'
    BY <1>1, <2>2, <2>3 DEF Submit, LiveIsAwaited, OneReportEach, MarksAreTrue, Senders, TypeOK, RequestType
  <2>5. SyncedIsStored'
    BY <1>1, <2>3 DEF Submit, SyncedIsStored, TypeOK
  <2>. QED
    BY <1>1, <2>1, <2>3, <2>4, <2>5 DEF Submit, OneRequestEach, AnswersAreTrue, StoredOnce
<1>2. ASSUME NEW r \in Reports, LosePhoto(r) PROVE IInv'
  BY <1>2 DEF LosePhoto, TypeOK, LiveIsAwaited, OneRequestEach, OneReportEach,
     AnswersAreTrue, MarksAreTrue, SyncedIsStored, StoredOnce, Exists
<1>3. ASSUME Flush \/ FlushNext PROVE IInv'
  <2>1. sender'["screen"] = sender["screen"] /\ sender["flush"].pc \in {"idle", "next"}
    BY <1>3 DEF Flush, FlushNext, TypeOK, Senders
  <2>2. /\ sender' \in [Senders -> SenderType]
        /\ sender'["flush"].pc \in {"idle", "next", "post"}
        /\ sender'["flush"].pc = "post" => \E r \in Reports : sender'["flush"].report = {r}
    <3>1. CASE Flush
      BY <3>1 DEF Flush, TypeOK, Senders, SenderType, GetUnsynced
    <3>2. CASE FlushNext /\ sender["flush"].todo = {}
      BY <3>2 DEF FlushNext, TypeOK, Senders, SenderType, Idle
    <3>3. CASE FlushNext /\ sender["flush"].todo # {}
      BY <3>3 DEF FlushNext, TypeOK, Senders, SenderType
    <3>. QED
      BY <1>3, <3>1, <3>2, <3>3
  <2>3. /\ UNCHANGED <<outbox, photos, requests, stored, faults>>
        /\ \A x : Exists(x)' <=> Exists(x)
    BY <1>3 DEF Flush, FlushNext, Exists
  <2>4. LiveIsAwaited' /\ OneReportEach' /\ MarksAreTrue'
    BY <2>1, <2>2, <2>3 DEF LiveIsAwaited, OneReportEach, MarksAreTrue, Senders, TypeOK, RequestType
  <2>. QED
    BY <2>2, <2>3, <2>4 DEF TypeOK, OneRequestEach, AnswersAreTrue, SyncedIsStored, StoredOnce
<1>. QED
  BY <1>1, <1>2, <1>3

\* A post adds one request, by a sender nobody answers yet; or nothing is sent.
LEMMA PostKeeps ==
  ASSUME IInv, NEW s \in Senders, Post(s)
  PROVE  IInv'
<1> USE DEF IInv
<1>1. PICK r \in sender[s].report :
        \/ /\ requests' = requests \cup {[report |-> r, from |-> s, pc |-> "check", live |-> TRUE]}
           /\ sender' = [sender EXCEPT ![s].pc = "wait"]
        \/ requests' = requests /\ sender' = [sender EXCEPT ![s] = Caught(s)]
  BY DEF Post
<1>2. sender[s].pc = "post" /\ r \in Reports /\ sender[s].report = {r}
  BY <1>1 DEF Post, OneReportEach, TypeOK, SenderType
<1>3. /\ outbox' = outbox /\ stored' = stored /\ photos' = photos
      /\ \A x : Exists(x)' <=> Exists(x)
  BY DEF Post, Exists
<1>4. \A q \in requests : ~(q.live /\ q.from = s)
  BY <1>2 DEF LiveIsAwaited
<1> DEFINE sent == [report |-> r, from |-> s, pc |-> "check", live |-> TRUE]
<1>5. CASE requests' = requests \cup {sent} /\ sender' = [sender EXCEPT ![s].pc = "wait"]
  <2> sent \in RequestType /\ sent.report = r /\ sent.from = s /\ sent.pc = "check" /\ sent.live
    BY <1>2 DEF RequestType
  <2> HIDE DEF sent
  <2>1. /\ sender' \in [Senders -> SenderType]
        /\ sender'[s].pc = "wait" /\ sender'[s].report = {r}
        /\ \A x \in Senders : x # s => sender'[x] = sender[x]
    BY <1>2, <1>5 DEF TypeOK, SenderType
  <2>2. TypeOK'
    BY <1>2, <1>3, <1>5, <2>1 DEF TypeOK, RequestType
  <2>3. LiveIsAwaited' /\ OneRequestEach' /\ AnswersAreTrue'
    BY <1>3, <1>4, <1>5, <2>1 DEF LiveIsAwaited, OneRequestEach, AnswersAreTrue, TypeOK, RequestType
  <2>4. OneReportEach' /\ MarksAreTrue'
    BY <1>3, <2>1 DEF OneReportEach, MarksAreTrue
  <2>. QED
    BY <1>3, <2>2, <2>3, <2>4 DEF SyncedIsStored, StoredOnce
<1>6. CASE requests' = requests /\ sender' = [sender EXCEPT ![s] = Caught(s)]
  <2>1. /\ sender' \in [Senders -> SenderType]
        /\ sender'[s].pc \in {"idle", "next"}
        /\ \A x \in Senders : x # s => sender'[x] = sender[x]
    BY <1>6, CaughtSender DEF TypeOK
  <2>2. LiveIsAwaited' /\ OneReportEach' /\ MarksAreTrue'
    BY <1>3, <1>4, <1>6, <2>1 DEF LiveIsAwaited, OneReportEach, MarksAreTrue, TypeOK, RequestType
  <2>. QED
    BY <1>3, <1>6, <2>1, <2>2 DEF TypeOK, OneRequestEach, AnswersAreTrue, SyncedIsStored, StoredOnce
<1>. QED
  BY <1>1, <1>5, <1>6

\* Giving up leaves requests nobody waits for behind, which the server may still serve.
LEMMA GivingUpKeeps ==
  ASSUME IInv, NEW s \in Senders, Timeout(s) \/ Die(s)
  PROVE  IInv'
<1> USE DEF IInv
<1>1. /\ outbox' = outbox /\ stored' = stored /\ photos' = photos
      /\ \A x : Exists(x)' <=> Exists(x)
  BY DEF Timeout, Die, Exists
<1>2. /\ sender' \in [Senders -> SenderType]
      /\ sender'[s].pc \in {"idle", "next"}
      /\ \A x \in Senders : x # s => sender'[x] = sender[x]
  <2>1. Idle \in SenderType /\ Idle.pc = "idle"
    BY DEF Idle, SenderType
  <2>2. CASE Timeout(s)
    BY <2>2, CaughtSender DEF Timeout, TypeOK
  <2>3. CASE Die(s)
    BY <2>1, <2>3 DEF Die, TypeOK
  <2>. QED
    BY <2>2, <2>3
<1>3. \A q \in requests' :
        /\ ~(q.live /\ q.from = s)
        /\ \/ q \in requests
           \/ ~q.live /\ \E o \in requests : q.report = o.report /\ q.pc = o.pc /\ q.from = o.from
        /\ q \in RequestType
  <2>1. CASE requests' = GivenUp(s)
    BY <2>1, GivenUpRequests
  <2>2. CASE requests' = requests \ Awaited(s)
    BY <2>2 DEF Awaited, TypeOK
  <2>. QED
    BY <2>1, <2>2 DEF Timeout, Die
<1>4. TypeOK'
  BY <1>1, <1>2, <1>3 DEF TypeOK
<1>5. LiveIsAwaited' /\ OneRequestEach'
  BY <1>2, <1>3 DEF LiveIsAwaited, OneRequestEach, RequestType
<1>6. OneReportEach' /\ MarksAreTrue'
  BY <1>1, <1>2 DEF OneReportEach, MarksAreTrue
<1>7. AnswersAreTrue'
  BY <1>1, <1>3 DEF AnswersAreTrue
<1>. QED
  BY <1>1, <1>4, <1>5, <1>6, <1>7 DEF SyncedIsStored, StoredOnce

\* Only a 200 or a 201, and so a report on file, lets a sender mark its row.
LEMMA AnsweredKeeps ==
  ASSUME IInv, NEW s \in Senders, Answered(s)
  PROVE  IInv'
<1> USE DEF IInv
<1>1. PICK q \in requests :
        /\ q.from = s /\ q.live
        /\ requests' = requests \ {q}
        /\ sender' = [sender EXCEPT ![s] = IF Accepted(q.pc) THEN [@ EXCEPT !.pc = "mark"] ELSE Caught(s)]
  BY DEF Answered, Awaited
<1>2. /\ outbox' = outbox /\ stored' = stored /\ photos' = photos
      /\ \A x : Exists(x)' <=> Exists(x)
  BY DEF Answered, Exists
<1>3. sender[s].report = {q.report}
  BY <1>1 DEF LiveIsAwaited
<1>4. /\ sender' \in [Senders -> SenderType]
      /\ sender'[s].pc \in {"idle", "next", "mark"}
      /\ sender'[s].pc = "mark" => Accepted(q.pc) /\ sender'[s].report = {q.report}
      /\ \A x \in Senders : x # s => sender'[x] = sender[x]
  BY <1>1, <1>3, CaughtSender DEF TypeOK, SenderType
<1>5. TypeOK'
  BY <1>1, <1>2, <1>4 DEF TypeOK
<1>6. \A o \in requests' : o \in requests /\ ~(o.live /\ o.from = s)
  BY <1>1 DEF OneRequestEach
<1>7. LiveIsAwaited' /\ OneRequestEach' /\ OneReportEach'
  BY <1>4, <1>6 DEF LiveIsAwaited, OneRequestEach, OneReportEach, TypeOK, RequestType
<1>8. MarksAreTrue'
  BY <1>1, <1>2, <1>4 DEF MarksAreTrue, AnswersAreTrue, Accepted
<1>9. AnswersAreTrue'
  BY <1>2, <1>6 DEF AnswersAreTrue
<1>. QED
  BY <1>2, <1>5, <1>7, <1>8, <1>9 DEF SyncedIsStored, StoredOnce

\* The row that is marked is one whose report is on file.
LEMMA MarkKeeps ==
  ASSUME IInv, NEW s \in Senders, MarkSynced(s)
  PROVE  IInv'
<1> USE DEF IInv
<1>1. PICK r \in sender[s].report : outbox' = [outbox EXCEPT ![r] = "synced"]
  BY DEF MarkSynced
<1>2. sender[s].pc = "mark" /\ Exists(r) /\ r \in Reports
  BY <1>1 DEF MarkSynced, MarksAreTrue, TypeOK, SenderType
<1>3. /\ UNCHANGED <<photos, requests, stored>>
      /\ \A x : Exists(x)' <=> Exists(x)
  BY DEF MarkSynced, Exists
<1>4. /\ sender' \in [Senders -> SenderType]
      /\ sender'[s].pc \in {"idle", "next"}
      /\ \A x \in Senders : x # s => sender'[x] = sender[x]
  BY CaughtSender DEF MarkSynced, TypeOK
<1>5. TypeOK'
  BY <1>1, <1>2, <1>3, <1>4 DEF TypeOK
<1>6. LiveIsAwaited' /\ OneReportEach' /\ MarksAreTrue'
  BY <1>2, <1>3, <1>4 DEF LiveIsAwaited, OneReportEach, MarksAreTrue, TypeOK, RequestType
<1>7. SyncedIsStored'
  BY <1>1, <1>2, <1>3 DEF SyncedIsStored, TypeOK
<1>. QED
  BY <1>3, <1>5, <1>6, <1>7 DEF OneRequestEach, AnswersAreTrue, StoredOnce

\* The server's answer moves its request on, and is 200 or 201 only for a report that
\* is on file by then.
LEMMA ServerKeeps ==
  ASSUME IInv, NEW q \in requests, Check(q) \/ Create(q) \/ Refuse(q)
  PROVE  IInv'
<1> USE DEF IInv
<1>1. PICK pc \in {"create", "200", "201", "500"} :
        /\ Becomes(q, pc)
        /\ pc \in {"200", "201"} => Exists(q.report)'
        /\ \/ stored' = stored
           \/ ~Exists(q.report) /\ stored' = stored \cup {<<q.report, q.from>>}
  <2>1. CASE Check(q)
    BY <2>1 DEF Check, Exists
  <2>2. CASE Create(q)
    <3>1. CASE Exists(q.report)
      BY <2>2, <3>1 DEF Create
    <3>2. CASE ~Exists(q.report)
      <4>1. Becomes(q, "201") /\ stored' = stored \cup {<<q.report, q.from>>}
        BY <2>2, <3>2 DEF Create
      <4>2. <<q.report, q.from>> \in stored' /\ <<q.report, q.from>>[1] = q.report
        BY <4>1
      <4>3. Exists(q.report)'
        BY <2>2, <4>2 DEF Exists, Create
      <4>. QED
        BY <3>2, <4>1, <4>3
    <3>. QED
      BY <3>1, <3>2
  <2>3. CASE Refuse(q)
    BY <2>3 DEF Refuse
  <2>. QED
    BY <2>1, <2>2, <2>3
<1>2. outbox' = outbox /\ photos' = photos /\ sender' = sender
  BY DEF Check, Create, Refuse
<1>3. q.report \in Reports /\ q.from \in Senders
  BY DEF TypeOK, RequestType
<1>4. /\ stored' \subseteq Reports \X Senders
      /\ \A x : Exists(x) => Exists(x)'
  BY <1>1, <1>3, FiledStaysFiled DEF TypeOK
<1>5. \A x \in requests' :
        /\ x \in RequestType
        /\ \/ x \in requests /\ x # q
           \/ x.report = q.report /\ x.from = q.from /\ x.live = q.live /\ x.pc = pc
  BY <1>1, BecomesRequests
<1>6. TypeOK'
  BY <1>2, <1>4, <1>5 DEF TypeOK
<1>7. LiveIsAwaited'
  BY <1>2, <1>5 DEF LiveIsAwaited
<1>8. OneRequestEach'
  <2> SUFFICES ASSUME NEW a \in requests', NEW b \in requests',
                      a.live, b.live, a.from = b.from
               PROVE  a = b
    BY DEF OneRequestEach
  <2>1. CASE a \in requests /\ a # q
    BY <1>5, <2>1 DEF OneRequestEach
  <2>2. CASE b \in requests /\ b # q
    BY <1>5, <2>2 DEF OneRequestEach
  <2>3. CASE /\ a.report = q.report /\ a.from = q.from /\ a.live = q.live /\ a.pc = pc
             /\ b.report = q.report /\ b.from = q.from /\ b.live = q.live /\ b.pc = pc
    <3>1. a \in RequestType /\ b \in RequestType
      BY <1>5
    <3>. QED
      BY <2>3, <3>1 DEF RequestType
  <2>. QED
    BY <1>5, <2>1, <2>2, <2>3
<1>9. OneReportEach' /\ MarksAreTrue' /\ SyncedIsStored'
  BY <1>2, <1>4 DEF OneReportEach, MarksAreTrue, SyncedIsStored
<1>10. AnswersAreTrue'
  BY <1>1, <1>4, <1>5 DEF AnswersAreTrue
<1>11. StoredOnce'
  <2>1. CASE stored' = stored
    BY <2>1 DEF StoredOnce
  <2>2. CASE ~Exists(q.report) /\ stored' = stored \cup {<<q.report, q.from>>}
    <3>1. \A row \in stored : row[1] # q.report
      BY <2>2 DEF Exists
    <3>. QED
      BY <2>2, <3>1 DEF StoredOnce
  <2>. QED
    BY <1>1, <2>1, <2>2
<1>. QED
  BY <1>6, <1>7, <1>8, <1>9, <1>10, <1>11

\* Every step keeps the invariant.
LEMMA InvStep == IInv /\ [Next]_vars => IInv'
<1> SUFFICES ASSUME IInv, [Next]_vars PROVE IInv'
  OBVIOUS
<1>1. CASE \E r \in Reports : Submit(r) \/ LosePhoto(r)
  BY <1>1, QueueKeeps
<1>2. CASE Flush \/ FlushNext
  BY <1>2, QueueKeeps
<1>3. ASSUME NEW s \in Senders, Phone(s) \/ Timeout(s) \/ Die(s) PROVE IInv'
  BY <1>3, PostKeeps, AnsweredKeeps, MarkKeeps, GivingUpKeeps DEF Phone
<1>4. CASE Server \/ \E q \in requests : Refuse(q)
  BY <1>4, ServerKeeps DEF Server
<1>5. CASE UNCHANGED vars
  BY <1>5 DEF vars, IInv, TypeOK, LiveIsAwaited, OneRequestEach, OneReportEach,
     AnswersAreTrue, MarksAreTrue, SyncedIsStored, StoredOnce, Exists
<1>. QED
  BY <1>1, <1>2, <1>3, <1>4, <1>5 DEF Next

-----------------------------------------------------------------------------
(* What the phone and the server promise together.                         *)

\* The invariant holds in every state of every behaviour.
THEOREM IntakeInvariant == Spec => []IInv
  BY InvInit, InvStep, PTL DEF Spec

\* Whatever the order of attempts, answers, timeouts and deaths, the phone forgets a
\* report only when the server has it (report_screen.dart:198-213,
\* report_sync.dart:33-48).
THEOREM SyncedReportsAreStored == Spec => []SyncedIsStored
<1>1. IInv => SyncedIsStored
  BY DEF IInv
<1>. QED
  BY <1>1, IntakeInvariant, PTL

\* However many attempts are under way at once, a report becomes one row
\* (reports/views.py:63-69, models.py:42).
THEOREM ReportsAreStoredOnce == Spec => []StoredOnce
<1>1. IInv => StoredOnce
  BY DEF IInv
<1>. QED
  BY <1>1, IntakeInvariant, PTL

-----------------------------------------------------------------------------
(* The refinement of ReportHandover.                                       *)

\* Nothing is sent, worked on or stored that was not queued first.
OnlyQueuedTravel ==
    /\ \A s \in Senders : \A r \in sender[s].report \cup sender[s].todo : outbox[r] # "none"
    /\ \A q \in requests : outbox[q.report] # "none"
    /\ \A r \in Reports : Exists(r) => outbox[r] # "none"

\* A row of the queue is inserted once and marked, and never removed.
LEMMA RowsStayQueued ==
  ASSUME TypeOK, [Next]_vars
  PROVE  \A r \in Reports : outbox[r] # "none" => outbox'[r] # "none"
<1>1. CASE UNCHANGED outbox
  BY <1>1
<1>2. ASSUME NEW x \in Reports, Submit(x)
      PROVE  \A r \in Reports : outbox[r] # "none" => outbox'[r] # "none"
  BY <1>2 DEF Submit, TypeOK
<1>3. ASSUME NEW s \in Senders, MarkSynced(s)
      PROVE  \A r \in Reports : outbox[r] # "none" => outbox'[r] # "none"
  BY <1>3 DEF MarkSynced, TypeOK
<1>. QED
  BY <1>1, <1>2, <1>3 DEF Next, vars, LosePhoto, Flush, FlushNext, Phone, Post, Answered, Timeout,
     Die, Server, Check, Create, Refuse

\* What a sender takes in hand is in the queue.
LEMMA SendersTravel ==
  ASSUME IInv, OnlyQueuedTravel, [Next]_vars, NEW s \in Senders
  PROVE  \A r \in sender'[s].report \cup sender'[s].todo : r \in Reports /\ outbox'[r] # "none"
<1>. TypeOK
  BY DEF IInv
<1>. DEFINE Has(x) == x.report \cup x.todo
<1>1. \A r \in Has(sender[s]) : r \in Reports /\ outbox'[r] # "none"
  BY RowsStayQueued DEF OnlyQueuedTravel, TypeOK, SenderType
<1>2. Has(Idle) = {} /\ Has(Caught(s)) \subseteq Has(sender[s])
  BY DEF Caught, Idle, TypeOK, SenderType
<1>3. CASE Has(sender'[s]) \subseteq Has(sender[s])
  BY <1>1, <1>3
<1>4. ASSUME NEW r \in Reports, Submit(r)
      PROVE  \/ Has(sender'[s]) \subseteq Has(sender[s])
             \/ Has(sender'[s]) = {r} /\ outbox'[r] # "none"
  <2>1. sender'[s] = IF s = "screen" THEN [pc |-> "post", report |-> {r}, todo |-> {}] ELSE sender[s]
    BY <1>4 DEF Submit, TypeOK
  <2>2. outbox'[r] = "unsynced"
    BY <1>4 DEF Submit, TypeOK
  <2>. QED
    BY <2>1, <2>2
<1>5. CASE Flush
  <2>1. sender'[s] = IF s = "flush" THEN [pc |-> "next", report |-> {}, todo |-> GetUnsynced] ELSE sender[s]
    BY <1>5 DEF Flush, TypeOK
  <2>2. \A r \in GetUnsynced : r \in Reports /\ outbox'[r] # "none"
    BY <1>5 DEF Flush, GetUnsynced
  <2>. QED
    BY <1>1, <2>1, <2>2
<1>6. CASE FlushNext
  <2>1. CASE sender["flush"].todo = {}
    <3>1. sender'[s] = IF s = "flush" THEN Idle ELSE sender[s]
      BY <1>6, <2>1 DEF FlushNext, TypeOK
    <3>. QED
      BY <1>1, <1>2, <3>1
  <2>2. CASE sender["flush"].todo # {}
    <3>1. PICK r \in sender["flush"].todo :
            sender' = [sender EXCEPT !["flush"] = [pc |-> "post", report |-> {r}, todo |-> @.todo \ {r}]]
      BY <1>6, <2>2 DEF FlushNext
    <3>. QED
      BY <1>3, <3>1 DEF TypeOK
  <2>. QED
    BY <1>3, <2>1, <2>2, <1>2
<1>7. ASSUME NEW x \in Senders, Phone(x) \/ Timeout(x) \/ Die(x)
      PROVE  Has(sender'[s]) \subseteq Has(sender[s])
  <2>1. CASE x # s
    BY <1>7, <2>1 DEF Phone, Post, Answered, MarkSynced, Timeout, Die, TypeOK
  <2>2. CASE x = s
    <3>1. \/ sender'[s] \in {Caught(s), Idle}
          \/ \E pc \in {"wait", "mark"} : sender' = [sender EXCEPT ![s].pc = pc]
      BY <1>7, <2>2 DEF Phone, Post, Answered, MarkSynced, Timeout, Die, TypeOK
    <3>. QED
      BY <1>2, <3>1 DEF TypeOK, SenderType
  <2>. QED
    BY <2>1, <2>2
<1>8. CASE UNCHANGED sender
  BY <1>3, <1>8
<1>. QED
  BY <1>1, <1>3, <1>4, <1>5, <1>6, <1>7, <1>8
     DEF Next, vars, LosePhoto, Server, Check, Create, Refuse

\* A request carries the report of its sender, or one of a request that was there.
LEMMA RequestsTravel ==
  ASSUME IInv, OnlyQueuedTravel, [Next]_vars
  PROVE  \A q \in requests' : outbox'[q.report] # "none"
<1>. TypeOK
  BY DEF IInv
<1>1. \A q \in requests : q.report \in Reports /\ outbox'[q.report] # "none"
  BY RowsStayQueued DEF OnlyQueuedTravel, TypeOK, RequestType
<1>2. CASE requests' \subseteq requests
  BY <1>1, <1>2
<1>3. ASSUME NEW s \in Senders, Post(s) PROVE \A q \in requests' : outbox'[q.report] # "none"
  <2>1. PICK r \in sender[s].report :
          requests' \subseteq requests \cup {[report |-> r, from |-> s, pc |-> "check", live |-> TRUE]}
    BY <1>3 DEF Post
  <2>2. outbox'[r] # "none"
    BY <2>1, RowsStayQueued DEF OnlyQueuedTravel, TypeOK, SenderType
  <2>. QED
    BY <1>1, <2>1, <2>2
<1>4. ASSUME NEW s \in Senders, Timeout(s) \/ Die(s)
      PROVE  \A q \in requests' : outbox'[q.report] # "none"
  <2>1. CASE requests' = GivenUp(s)
    BY <1>1, <2>1, GivenUpRequests
  <2>. QED
    BY <1>2, <1>4, <2>1 DEF Timeout, Die
<1>5. ASSUME NEW q \in requests, Check(q) \/ Create(q) \/ Refuse(q)
      PROVE  \A x \in requests' : outbox'[x.report] # "none"
  <2>1. PICK pc \in {"check", "create", "201", "200", "500"} : Becomes(q, pc)
    BY <1>5 DEF Check, Create, Refuse
  <2>2. \A x \in requests' : x \in requests \/ x.report = q.report
    BY <2>1, BecomesRequests
  <2>. QED
    BY <1>1, <2>2
<1>. QED
  BY <1>2, <1>3, <1>4, <1>5 DEF Next, vars, Submit, LosePhoto, Flush, FlushNext, Phone, Answered,
     MarkSynced, Server

\* The server files what a request carries.
LEMMA StoreTravels ==
  ASSUME IInv, OnlyQueuedTravel, [Next]_vars
  PROVE  \A r \in Reports : Exists(r)' => outbox'[r] # "none"
<1>. TypeOK
  BY DEF IInv
<1>1. ASSUME NEW q \in requests, Create(q)
      PROVE  \A r \in Reports : Exists(r)' => Exists(r) \/ r = q.report
  BY <1>1 DEF Create, Exists
<1>2. CASE UNCHANGED stored
  BY <1>2, RowsStayQueued DEF OnlyQueuedTravel, Exists
<1>3. ASSUME NEW q \in requests, Create(q)
      PROVE  \A r \in Reports : Exists(r)' => outbox'[r] # "none"
  BY <1>1, <1>3, RowsStayQueued DEF OnlyQueuedTravel
<1>. QED
  BY <1>2, <1>3 DEF Next, vars, Submit, LosePhoto, Flush, FlushNext, Phone, Post, Answered,
     MarkSynced, Timeout, Die, Server, Check, Refuse

\* Under the invariant no report is there twice.
LEMMA NeverTwice == ASSUME StoredOnce PROVE \A r \in Reports : ~Twice(r)
BY DEF StoredOnce, Twice

\* A step that neither marks nor files is not seen.
LEMMA HandoverStutters ==
  ASSUME UNCHANGED <<outbox, stored>>
  PROVE  UNCHANGED Status
  BY DEF Status, StatusOf, Exists, Twice

\* A new report is queued, and nobody has filed it yet.
LEMMA SubmitQueues ==
  ASSUME IInv, OnlyQueuedTravel, NEW r \in Reports, Submit(r)
  PROVE  Handover!Queue(r)
<1>. TypeOK
  BY DEF IInv
<1>1. \A x \in Reports : (Exists(x)' <=> Exists(x)) /\ (Twice(x)' <=> Twice(x))
  BY DEF Submit, Exists, Twice
<1>0. \A x \in Reports : ~Twice(x)
  BY NeverTwice DEF IInv
<1>2. outbox[r] = "none" /\ ~Exists(r) /\ outbox' = [outbox EXCEPT ![r] = "unsynced"]
  BY DEF Submit, OnlyQueuedTravel
<1>3. \A x \in Reports : StatusOf(x)' = IF x = r THEN "queued" ELSE StatusOf(x)
  BY <1>0, <1>1, <1>2 DEF StatusOf, TypeOK
<1>4. Status' = [Status EXCEPT ![r] = "queued"]
  BY <1>3 DEF Status
<1>5. Status[r] = "none"
  BY <1>0, <1>2 DEF Status, StatusOf
<1>. QED
  BY <1>4, <1>5 DEF Handover!Queue, Handover!Moves

\* A mark hands a filed report over, or marks one that was.
LEMMA MarkHandsOver ==
  ASSUME IInv, OnlyQueuedTravel, NEW s \in Senders, MarkSynced(s)
  PROVE  (\E r \in Reports : Handover!HandOver(r)) \/ UNCHANGED Status
<1>. TypeOK
  BY DEF IInv
<1>1. PICK r \in sender[s].report : outbox' = [outbox EXCEPT ![r] = "synced"]
  BY DEF MarkSynced
<1>2. r \in Reports /\ Exists(r) /\ outbox[r] \in {"unsynced", "synced"}
  BY <1>1 DEF MarkSynced, IInv, MarksAreTrue, OnlyQueuedTravel, TypeOK, SenderType
<1>3. \A x \in Reports : (Exists(x)' <=> Exists(x)) /\ (Twice(x)' <=> Twice(x))
  BY DEF MarkSynced, Exists, Twice
<1>0. \A x \in Reports : ~Twice(x)
  BY NeverTwice DEF IInv
<1>4. \A x \in Reports : StatusOf(x)' = IF x = r THEN "handed over" ELSE StatusOf(x)
  BY <1>0, <1>1, <1>2, <1>3 DEF StatusOf, TypeOK
<1>5. Status' = [Status EXCEPT ![r] = "handed over"]
  BY <1>4 DEF Status
<1>6. CASE outbox[r] = "unsynced"
  <2>1. Status[r] = "filed"
    BY <1>0, <1>2, <1>6 DEF Status, StatusOf
  <2>. QED
    BY <1>2, <1>5, <2>1 DEF Handover!HandOver, Handover!Moves
<1>7. CASE outbox[r] = "synced"
  <2>1. StatusOf(r) = "handed over"
    BY <1>0, <1>2, <1>7 DEF StatusOf
  <2>. QED
    BY <1>4, <2>1 DEF Status
<1>. QED
  BY <1>2, <1>6, <1>7

\* An insert files a report that the phone has not let go of.
LEMMA CreateFiles ==
  ASSUME IInv, IInv', OnlyQueuedTravel, NEW q \in requests, Create(q)
  PROVE  (\E r \in Reports : Handover!File(r)) \/ UNCHANGED Status
<1>. TypeOK
  BY DEF IInv
<1>0. \A x \in Reports : ~Twice(x)
  BY NeverTwice DEF IInv
<1>3. \A x \in Reports : ~Twice(x)'
  BY DEF IInv, StoredOnce, Twice
<1>1. CASE Exists(q.report)
  BY <1>1, HandoverStutters DEF Create
<1>2. CASE ~Exists(q.report)
  <2>1. PICK r \in Reports : r = q.report
    BY DEF TypeOK, RequestType
  <2>2. outbox[r] = "unsynced" /\ outbox' = outbox /\ stored' = stored \cup {<<r, q.from>>}
    BY <1>2, <2>1 DEF Create, IInv, SyncedIsStored, OnlyQueuedTravel, TypeOK
  <2>3. <<r, q.from>> \in stored' /\ <<r, q.from>>[1] = r
    BY <2>2
  <2>4. \A x \in Reports : Exists(x)' <=> Exists(x) \/ x = r
    BY <2>2, <2>3 DEF Exists
  <2>5. \A x \in Reports : StatusOf(x)' = IF x = r THEN "filed" ELSE StatusOf(x)
    <3>1. StatusOf(r)' = "filed"
      BY <1>3, <2>2, <2>4 DEF StatusOf
    <3>2. ASSUME NEW x \in Reports, x # r PROVE StatusOf(x)' = StatusOf(x)
      BY <1>0, <1>3, <2>2, <2>4, <3>2 DEF StatusOf, TypeOK
    <3>. QED
      BY <3>1, <3>2
  <2>6. Status' = [Status EXCEPT ![r] = "filed"]
    BY <2>5 DEF Status
  <2>7. Status[r] = "queued"
    BY <1>0, <1>2, <2>1, <2>2 DEF Status, StatusOf
  <2>. QED
    BY <2>6, <2>7 DEF Handover!File, Handover!Moves
<1>. QED
  BY <1>1, <1>2

\* Every step of phone and server is a step of the handover or is not seen.
LEMMA IntakeStepMaps ==
  ASSUME IInv, IInv', OnlyQueuedTravel, [Next]_vars
  PROVE  [Handover!HNext]_Status
<1>. TypeOK
  BY DEF IInv
<1>1. ASSUME NEW r \in Reports, Submit(r) PROVE Handover!HNext
  BY <1>1, SubmitQueues DEF Handover!HNext
<1>2. ASSUME NEW s \in Senders, MarkSynced(s) PROVE [Handover!HNext]_Status
  BY <1>2, MarkHandsOver DEF Handover!HNext
<1>3. ASSUME NEW q \in requests, Create(q) PROVE [Handover!HNext]_Status
  BY <1>3, CreateFiles DEF Handover!HNext
<1>4. CASE UNCHANGED <<outbox, stored>>
  BY <1>4, HandoverStutters
<1>. QED
  BY <1>1, <1>2, <1>3, <1>4 DEF Next, vars, LosePhoto, Flush, FlushNext, Phone, Post, Answered,
     Timeout, Die, Server, Check, Refuse

\* Phone and backend implement the handover: each report is queued, filed once and let go
\* of, in this order and for good, for any number of reports and faults
\* (report_screen.dart:178-199, report_sync.dart:31-49, reports/views.py:63-121).
THEOREM IntakeImplementsHandover == Spec => ImplementsHandover
<1>1. Init => OnlyQueuedTravel /\ Handover!HInit
  <2>1. ASSUME Init PROVE OnlyQueuedTravel
    BY <2>1 DEF Init, OnlyQueuedTravel, Idle, Exists
  <2>2. ASSUME Init PROVE Handover!HInit
    BY <2>2 DEF Init, Handover!HInit, Status, StatusOf, Twice
  <2>. QED
    BY <2>1, <2>2
<1>2. IInv /\ OnlyQueuedTravel /\ [Next]_vars => OnlyQueuedTravel'
  BY SendersTravel, RequestsTravel, StoreTravels DEF OnlyQueuedTravel
<1>3. IInv /\ IInv' /\ OnlyQueuedTravel /\ [Next]_vars => [Handover!HNext]_Status
  BY IntakeStepMaps
<1>. QED
  BY <1>1, <1>2, <1>3, IntakeInvariant, PTL DEF Spec, ImplementsHandover, Handover!HSpec
=============================================================================
