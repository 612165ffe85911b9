----------------------------- MODULE ReportIntake -----------------------------
(***************************************************************************)
(* A flood report on its way from a phone to the backend: the phone's      *)
(* queue, the screen that sends a report at once, the background flush     *)
(* that sends what is left of it every quarter of an hour, and the         *)
(* handlers of the server, which go on after the phone has given up on     *)
(* them.  What a report says is left out, but for the photo's file, which  *)
(* the system may clear away before it is sent.                            *)
(***************************************************************************)
EXTENDS Naturals, FiniteSets

CONSTANTS
    Reports,        \* client_uuids
    MaxFaults       \* bound: requests lost, refused or answered too late, deaths of a sender

ASSUME IntakeAssumption == MaxFaults \in Nat

VARIABLES
    outbox,     \* the rows of PendingReports
    photos,     \* the reports whose photo file is on the phone
    sender,     \* what the screen and the flush are doing
    requests,   \* the requests the server is working on
    stored,     \* the rows of FloodReport: <<report, request>>
    faults      \* what went wrong so far

vars == <<outbox, photos, sender, requests, stored, faults>>

Senders == {"screen", "flush"}
Idle == [pc |-> "idle", report |-> {}, todo |-> {}]

SenderType == [pc : {"idle", "next", "post", "wait", "mark"},
               report : SUBSET Reports, todo : SUBSET Reports]
RequestType == [report : Reports, from : Senders,
                pc : {"check", "create", "201", "200", "500"}, live : BOOLEAN]

TypeOK ==
    /\ outbox \in [Reports -> {"none", "unsynced", "synced"}]
    /\ photos \subseteq Reports
    /\ sender \in [Senders -> SenderType]
    /\ requests \subseteq RequestType
    /\ stored \subseteq Reports \X Senders

Init ==
    /\ outbox = [r \in Reports |-> "none"]
    /\ photos = {}
    /\ sender = [s \in Senders |-> Idle]
    /\ requests = {} /\ stored = {}
    /\ faults = 0

-----------------------------------------------------------------------------
(* The phone.                                                              *)

\* The row is in the queue before the first attempt, under a uuid of its own.
Submit(r) ==
    /\ sender["screen"].pc = "idle" /\ outbox[r] = "none"
    /\ outbox' = [outbox EXCEPT ![r] = "unsynced"]
    /\ photos' = photos \cup {r}
    /\ sender' = [sender EXCEPT !["screen"] = [pc |-> "post", report |-> {r}, todo |-> {}]]
    /\ UNCHANGED <<requests, stored, faults>>

\* The system clears its cache of pictures (which matters as long as one is to be sent).
LosePhoto(r) ==
    /\ r \in photos /\ outbox[r] = "unsynced"
    /\ photos' = photos \ {r}
    /\ UNCHANGED <<outbox, sender, requests, stored, faults>>

GetUnsynced == {r \in Reports : outbox[r] = "unsynced"}

Flush ==
    /\ sender["flush"].pc = "idle" /\ GetUnsynced # {}
    /\ sender' = [sender EXCEPT !["flush"] = [pc |-> "next", report |-> {}, todo |-> GetUnsynced]]
    /\ UNCHANGED <<outbox, photos, requests, stored, faults>>

FlushNext ==
    /\ sender["flush"].pc = "next"
    /\ IF sender["flush"].todo = {}
       THEN sender' = [sender EXCEPT !["flush"] = Idle]
       ELSE \E r \in sender["flush"].todo :
            sender' = [sender EXCEPT !["flush"] = [pc |-> "post", report |-> {r}, todo |-> @.todo \ {r}]]
    /\ UNCHANGED <<outbox, photos, requests, stored, faults>>

\* Both catch whatever is thrown: the screen shows "queued", the flush takes the next.
Caught(s) == IF s = "screen" THEN Idle ELSE [sender[s] EXCEPT !.pc = "next", !.report = {}]

\* Without its photo's file the form cannot be built; without a network it goes nowhere.
Post(s) ==
    /\ sender[s].pc = "post"
    /\ \E r \in sender[s].report :
        \/ /\ r \in photos
           /\ requests' = requests \cup {[report |-> r, from |-> s, pc |-> "check", live |-> TRUE]}
           /\ sender' = [sender EXCEPT ![s].pc = "wait"]
           /\ UNCHANGED faults
        \/ /\ r \notin photos
           /\ sender' = [sender EXCEPT ![s] = Caught(s)]
           /\ UNCHANGED <<requests, faults>>
        \/ /\ faults < MaxFaults
           /\ faults' = faults + 1
           /\ sender' = [sender EXCEPT ![s] = Caught(s)]
           /\ UNCHANGED requests
    /\ UNCHANGED <<outbox, photos, stored>>

\* The request a sender waits for; one it has given up on is no longer live.
Awaited(s) == {q \in requests : q.from = s /\ q.live}
GivenUp(s) == {IF q.from = s THEN [q EXCEPT !.live = FALSE] ELSE q : q \in requests}

\* The server may go on with a request nobody waits for, or have died with it.
Timeout(s) ==
    /\ sender[s].pc = "wait"
    /\ faults < MaxFaults
    /\ faults' = faults + 1
    /\ requests' \in {GivenUp(s), requests \ Awaited(s)}
    /\ sender' = [sender EXCEPT ![s] = Caught(s)]
    /\ UNCHANGED <<outbox, photos, stored>>

Accepted(answer) == answer \in {"200", "201"}

Answered(s) ==
    /\ sender[s].pc = "wait"
    /\ \E q \in Awaited(s) :
        /\ q.pc \in {"200", "201", "500"}
        /\ requests' = requests \ {q}
        /\ sender' = [sender EXCEPT ![s] = IF Accepted(q.pc) THEN [@ EXCEPT !.pc = "mark"] ELSE Caught(s)]
    /\ UNCHANGED <<outbox, photos, stored, faults>>

MarkSynced(s) ==
    /\ sender[s].pc = "mark"
    /\ \E r \in sender[s].report : outbox' = [outbox EXCEPT ![r] = "synced"]
    /\ sender' = [sender EXCEPT ![s] = Caught(s)]
    /\ UNCHANGED <<photos, requests, stored, faults>>

Die(s) ==
    /\ sender[s].pc # "idle"
    /\ faults < MaxFaults
    /\ faults' = faults + 1
    /\ requests' = GivenUp(s)
    /\ sender' = [sender EXCEPT ![s] = Idle]
    /\ UNCHANGED <<outbox, photos, stored>>

-----------------------------------------------------------------------------
(* submit_report.                                                          *)

Becomes(q, pc) ==
    requests' = (requests \ {q}) \cup
        IF pc = "create" \/ q.live THEN {[q EXCEPT !.pc = pc]} ELSE {}
Exists(r) == \E row \in stored : row[1] = r

\* Mutant: the uuid is not looked up first; the unique column alone refuses the second.
Check_Dropped(q) ==
    /\ q.pc = "check"
    /\ Becomes(q, "create")
    /\ UNCHANGED <<outbox, photos, sender, stored, faults>>

Check(q) ==
    /\ q.pc = "check"
    /\ Becomes(q, IF Exists(q.report) THEN "200" ELSE "create")
    /\ UNCHANGED <<outbox, photos, sender, stored, faults>>

\* Mutant: client_uuid is an ordinary column.
Create_NotUnique(q) ==
    /\ q.pc = "create"
    /\ stored' = stored \cup {<<q.report, q.from>>}
    /\ Becomes(q, "201")
    /\ UNCHANGED <<outbox, photos, sender, faults>>

\* client_uuid is unique: whoever lost the race gets an IntegrityError, unhandled.
Create(q) ==
    /\ q.pc = "create"
    /\ IF Exists(q.report)
       THEN Becomes(q, "500") /\ UNCHANGED stored
       ELSE Becomes(q, "201") /\ stored' = stored \cup {<<q.report, q.from>>}
    /\ UNCHANGED <<outbox, photos, sender, faults>>

\* The photo store or the database refuses.
Refuse(q) ==
    /\ q.pc = "create"
    /\ faults < MaxFaults
    /\ faults' = faults + 1
    /\ Becomes(q, "500")
    /\ UNCHANGED <<outbox, photos, sender, stored>>

-----------------------------------------------------------------------------
Phone(s) == Post(s) \/ Answered(s) \/ MarkSynced(s)
Server == \E q \in requests : Check(q) \/ Create(q)

Next ==
    \/ \E r \in Reports : Submit(r) \/ LosePhoto(r)
    \/ Flush \/ FlushNext
    \/ \E s \in Senders : Phone(s) \/ Timeout(s) \/ Die(s)
    \/ Server
    \/ \E q \in requests : Refuse(q)

\* WorkManager repeats the flush whenever there is a network, each sender and the server
\* go on; the resident, the system and the faults owe nothing.
Fairness ==
    /\ WF_vars(Flush \/ FlushNext \/ Phone("flush"))
    /\ WF_vars(Phone("screen"))
    /\ WF_vars(Server)

Spec == Init /\ [][Next]_vars /\ Fairness

-----------------------------------------------------------------------------
\* The phone forgets a report only when the server has it: neither an error nor a
\* timeout, nor a death between the two, marks a row that is nowhere stored
\* (report_screen.dart:198-213, report_sync.dart:33-48).
SyncedIsStored == \A r \in Reports : outbox[r] = "synced" => Exists(r)

\* However often the screen and the flush send it, together or one after the other,
\* a report is one row (reports/views.py:63-69, models.py:42).
StoredOnce == \A a, b \in stored : a[1] = b[1] => a = b

Twice(r) == \E a, b \in stored : a[1] = r /\ b[1] = r /\ a # b

\* "twice" and "lost" are nowhere in the handover: a step that reaches either is refused.
StatusOf(r) ==
    CASE Twice(r) -> "twice"
      [] ~Twice(r) /\ outbox[r] = "none" -> "none"
      [] ~Twice(r) /\ outbox[r] = "unsynced" /\ ~Exists(r) -> "queued"
      [] ~Twice(r) /\ outbox[r] = "unsynced" /\ Exists(r) -> "filed"
      [] ~Twice(r) /\ outbox[r] = "synced" /\ Exists(r) -> "handed over"
      [] ~Twice(r) /\ outbox[r] = "synced" /\ ~Exists(r) -> "lost"

Status == [r \in Reports |-> StatusOf(r)]

Handover == INSTANCE ReportHandover WITH status <- Status

\* Two senders, late requests and lost answers come to this: each report is queued, filed
\* once and then let go of, in this order, and none of it is ever undone
\* (report_screen.dart:178-199, report_sync.dart:31-49, reports/views.py:63-121).
ImplementsHandover == Handover!HSpec

\* A report whose photo stays on the phone is stored and leaves the queue in the end: a
\* lost answer, a death or a lost race for the row is made up for by a later flush
\* (report_sync.dart:31-49).
EveryReportArrives ==
    \A r \in Reports :
        (outbox[r] = "unsynced" /\ r \in photos)
            ~> (outbox[r] = "synced" /\ Exists(r)) \/ r \notin photos
=============================================================================
