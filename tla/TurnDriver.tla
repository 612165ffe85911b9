----------------------------- MODULE TurnDriver -----------------------------
(***************************************************************************)
(* One call of the Gather flow: the line that Twilio holds with the        *)
(* caller, the webhooks it posts (api/routes_gather.py), the handlers that *)
(* serve them (conversation/driver.py) around the call state in Redis      *)
(* (conversation/state_store.py), the report sink                          *)
(* (conversation/sql_report_sink.py) and the text message offered after    *)
(* the call (enrichment/sms_pin_offer.py).                                 *)
(*                                                                         *)
(* Handlers share nothing but Redis and the database: each loads the call  *)
(* state, works on its copy and saves it whole. Twilio may post a turn     *)
(* again while an earlier post of it still runs.                           *)
(***************************************************************************)
EXTENDS ConversationGraph

CONSTANTS
    Handlers,    \* requests that can be served at the same time
    ReportIds,   \* identifiers that CallState may draw
    Taken,       \* those whose short reference another report already has
    MaxRetries,  \* bound: posts of a turn beyond the first
    MaxCrashes,  \* bound: handlers that die
    MaxFaults,   \* bound: database or Redis operations that fail
    MaxExpiries  \* bound: losses of the call state in Redis

ASSUME TakenAssumption == Taken \subseteq ReportIds
ASSUME BoundsAssumption == {MaxRetries, MaxCrashes, MaxFaults, MaxExpiries} \subseteq Nat

VARIABLES
    line,     \* Twilio's side: see LineType
    task,     \* task[h]: the request that handler h serves, and its copy
    store,    \* the call state in Redis
    reports,  \* reports[i]: the report row of identifier i and its outbox row
    minted,   \* identifiers drawn so far
    spoken,   \* references that the caller heard in the prompt "submitted"
    failed,   \* identifiers whose write raised in some handler (history)
    offered,  \* references sent by text message
    used      \* how much of each bound is spent

vars == <<line, task, store, reports, minted, spoken, failed, offered, used>>

NoId == "none"

ASSUME NoIdAssumption == NoId \notin ReportIds \cup Handlers

\* A short reference: the code derived from an identifier, and the suffix that
\* tells it from an earlier report with the same code.
Ref(i, bump) == [of |-> i, bump |-> bump]
NoRef == Ref(NoId, 0)
Refs == {Ref(i, b) : i \in ReportIds, b \in {0, 1}}

Dialog == [node : Nodes, attempt : 0 .. MaxAttempts, slots : SlotType, danger : BOOLEAN]

CallType == [id : ReportIds, ref : Refs \cup {NoRef}, dialog : Dialog]

NoCall == [id |-> NoId, ref |-> NoRef,
           dialog |-> [node |-> "START", attempt |-> 0, slots |-> NoSlots, danger |-> FALSE]]

Input(kind, word, about) == [kind |-> kind, word |-> word, about |-> about]
Start == Input("start", "none", "START")

InputType == [kind : {"start", "asr", "dtmf", "timeout"}, word : Words \cup Keys \cup {"none"},
              about : Questions \cup {"START"}]

\* pc: what the handler does next. tripped: this turn met the tripwire.
TaskType == [pc : {"idle", "load", "lookup", "insert", "save", "reply", "apologise"},
             input : InputType, call : CallType \cup {NoCall}, tripped : BOOLEAN]

Idle == [pc |-> "idle", input |-> Start, call |-> NoCall, tripped |-> FALSE]

\* phase: ringing until the first post, waiting for an answer to one, listening
\* to the caller, over. on: the handler whose answer Twilio waits for, request:
\* what it posted. heard: the node whose prompt the caller heard last.
LineType == [phase : {"ringing", "waiting", "listening", "over"}, on : Handlers \cup {NoId},
             request : InputType, heard : Nodes]

NoReport == [ref |-> NoRef, slots |-> NoSlots]

ReportType == [ref : Refs \cup {NoRef}, slots : SlotType]

Stored(i) == reports[i] # NoReport

Budget == [retries : 0 .. MaxRetries, crashes : 0 .. MaxCrashes,
           faults : 0 .. MaxFaults, expiries : 0 .. MaxExpiries]

Init ==
    /\ line = [phase |-> "ringing", on |-> NoId, request |-> Start, heard |-> "START"]
    /\ task = [h \in Handlers |-> Idle]
    /\ store = NoCall
    /\ reports = [i \in ReportIds |-> NoReport]
    /\ minted = {} /\ spoken = {} /\ failed = {} /\ offered = {}
    /\ used = [retries |-> 0, crashes |-> 0, faults |-> 0, expiries |-> 0]

-----------------------------------------------------------------------------
(* Twilio and the caller. *)

\* Twilio posts a request, and a free handler takes it.
Post(h, input) ==
    /\ task[h] = Idle
    /\ task' = [task EXCEPT ![h] = [Idle EXCEPT !.pc = "load", !.input = input]]
    /\ line' = [line EXCEPT !.phase = "waiting", !.on = h, !.request = input]
    /\ UNCHANGED <<store, reports, minted, spoken, failed, offered>>

Ring(h) == line.phase = "ringing" /\ Post(h, Start) /\ UNCHANGED used

Speak(h) ==
    /\ line.phase = "listening"
    /\ \/ \E w \in Vocabulary : Post(h, Input("asr", w, line.heard))
       \/ \E k \in Keys : Post(h, Input("dtmf", k, line.heard))
    /\ UNCHANGED used

\* actionOnEmptyResult and the Redirect after the Gather post a silence too.
StaySilent(h) ==
    /\ line.phase = "listening"
    /\ Post(h, Input("timeout", "none", line.heard))
    /\ UNCHANGED used

\* Twilio posts the same turn again and forgets the earlier post, whose
\* handler may have died or may be running still.
Retry(h) ==
    /\ line.phase = "waiting" /\ used.retries < MaxRetries
    /\ Post(h, line.request)
    /\ used' = [used EXCEPT !.retries = @ + 1]

\* The caller puts the phone down, or Twilio's time for an answer is up.
HangUp ==
    /\ line.phase # "over"
    /\ line' = [line EXCEPT !.phase = "over", !.on = NoId, !.request = Start]
    /\ UNCHANGED <<task, store, reports, minted, spoken, failed, offered, used>>

GiveUp == line.phase = "waiting" /\ HangUp

-----------------------------------------------------------------------------
(* The handlers. *)

\* A handler goes on with its copy of the call; the input is used up.
GoOn(h, pc, call, tripped) ==
    task' = [task EXCEPT ![h] = [pc |-> pc, input |-> Start, call |-> call, tripped |-> tripped]]

\* The dialog after the walk forward. The short reference is minted on the
\* first entry to SUBMIT; with one in hand the walk goes through.
Settled(call, d) ==
    LET n == Walk(d.node, d.slots)
    IN [call EXCEPT !.dialog = [d EXCEPT !.node =
            IF n = "SUBMIT" /\ call.ref # NoRef THEN "SUBMITTED" ELSE n]]

\* start_call: a new CallState draws an identifier of its own.
StartCall(h) ==
    /\ task[h].pc = "load" /\ task[h].input.kind = "start"
    /\ \E i \in ReportIds \ minted :
          /\ minted' = minted \cup {i}
          /\ GoOn(h, "save", Settled([NoCall EXCEPT !.id = i], NoCall.dialog), FALSE)
    /\ UNCHANGED <<line, store, reports, spoken, failed, offered, used>>

\* step: load the call, apply the input to its node and walk on.
Step(h) ==
    /\ task[h].pc = "load" /\ task[h].input.kind # "start"
    /\ store # NoCall
    /\ LET d == Applied(store.dialog, task[h].input)
           call == Settled(store, d)
       IN GoOn(h, IF call.dialog.node = "SUBMIT" THEN "lookup" ELSE "save", call,
               d.node = "EMERGENCY_REDIRECT")
    /\ UNCHANGED <<line, store, reports, minted, spoken, failed, offered, used>>

\* CallStateMissing: an apology and a hang-up.
StepMissing(h) ==
    /\ task[h].pc = "load" /\ task[h].input.kind # "start"
    /\ store = NoCall
    /\ GoOn(h, "apologise", NoCall, FALSE)
    /\ UNCHANGED <<line, store, reports, minted, spoken, failed, offered, used>>

\* _write_report leaves a reference on the call, and the walk ends at SUBMITTED.
Referenced(call, ref) == [call EXCEPT !.ref = ref, !.dialog.node = "SUBMITTED"]

\* Mutant: a second pass derives the reference instead of reading it.
Lookup_OwnRef(h) ==
    LET call == task[h].call
    IN /\ task[h].pc = "lookup"
       /\ IF Stored(call.id)
          THEN GoOn(h, "save", Referenced(call, Ref(call.id, 0)), task[h].tripped)
          ELSE GoOn(h, "insert", call, task[h].tripped)
       /\ UNCHANGED <<line, store, reports, minted, spoken, failed, offered, used>>

\* The idempotency check of the sink.
Lookup(h) ==
    LET call == task[h].call
    IN /\ task[h].pc = "lookup"
       /\ IF Stored(call.id)
          THEN GoOn(h, "save", Referenced(call, reports[call.id].ref), task[h].tripped)
          ELSE GoOn(h, "insert", call, task[h].tripped)
       /\ UNCHANGED <<line, store, reports, minted, spoken, failed, offered, used>>

\* _mint_short_ref: the plain code, with a suffix when it is taken.
Minted(i) == Ref(i, IF i \in Taken THEN 1 ELSE 0)

\* format_short_ref, what the driver falls back to after any exception.
Fallback(i) == Ref(i, 0)

Spend(what) == used' = [used EXCEPT ![what] = @ + 1]

\* Report row and outbox row are committed together. A fault may still lose
\* the answer, and then the driver sees an exception.
Insert(h) ==
    LET call == task[h].call
    IN /\ task[h].pc = "insert" /\ ~Stored(call.id)
       /\ reports' = [reports EXCEPT ![call.id] =
                         [ref |-> Minted(call.id), slots |-> call.dialog.slots]]
       /\ \/ /\ GoOn(h, "save", Referenced(call, Minted(call.id)), task[h].tripped)
             /\ UNCHANGED <<failed, used>>
          \/ /\ used.faults < MaxFaults /\ Spend("faults")
             /\ failed' = failed \cup {call.id}
             /\ GoOn(h, "save", Referenced(call, Fallback(call.id)), task[h].tripped)
       /\ UNCHANGED <<line, store, minted, spoken, offered>>

\* Another handler inserted the same identifier since the lookup: the unique
\* constraint raises, and the driver swallows it.
InsertConflict(h) ==
    LET call == task[h].call
    IN /\ task[h].pc = "insert" /\ Stored(call.id)
       /\ failed' = failed \cup {call.id}
       /\ GoOn(h, "save", Referenced(call, Fallback(call.id)), task[h].tripped)
       /\ UNCHANGED <<line, store, reports, minted, spoken, offered, used>>

\* The database fails before the commit: nothing is written.
InsertRefused(h) ==
    LET call == task[h].call
    IN /\ task[h].pc \in {"lookup", "insert"}
       /\ used.faults < MaxFaults /\ Spend("faults")
       /\ failed' = failed \cup {call.id}
       /\ GoOn(h, "save", Referenced(call, Fallback(call.id)), task[h].tripped)
       /\ UNCHANGED <<line, store, reports, minted, spoken, offered>>

\* The whole call state is overwritten.
Save(h) ==
    /\ task[h].pc = "save"
    /\ store' = task[h].call
    /\ GoOn(h, "reply", task[h].call, task[h].tripped)
    /\ UNCHANGED <<line, reports, minted, spoken, failed, offered, used>>

\* Redis fails at the load or the save: the route catches it and apologises.
RedisFails(h) ==
    /\ task[h].pc \in {"load", "save"}
    /\ used.faults < MaxFaults /\ Spend("faults")
    /\ GoOn(h, "apologise", NoCall, FALSE)
    /\ UNCHANGED <<line, store, reports, minted, spoken, failed, offered>>

\* The answer reaches Twilio, which plays it if it still waits for this one: a
\* question keeps the line open, anything else ends with a hang-up.
Answer(h) ==
    /\ task[h].pc \in {"reply", "apologise"}
    /\ task' = [task EXCEPT ![h] = Idle]
    /\ LET d == task[h].call.dialog
           prompt == IF task[h].pc = "apologise" THEN "FATAL_FALLBACK"
                     ELSE IF task[h].tripped THEN "EMERGENCY_REDIRECT" ELSE d.node
           asks == task[h].pc = "reply" /\ d.node \in Questions
       IN IF line.on = h
          THEN /\ line' = [line EXCEPT !.phase = IF asks THEN "listening" ELSE "over",
                                       !.on = NoId, !.request = Start, !.heard = prompt]
               /\ spoken' = IF prompt = "SUBMITTED" THEN spoken \cup {task[h].call.ref}
                            ELSE spoken
          ELSE UNCHANGED <<line, spoken>>
    /\ UNCHANGED <<store, reports, minted, failed, offered, used>>

Crash(h) ==
    /\ task[h] # Idle /\ used.crashes < MaxCrashes /\ Spend("crashes")
    /\ task' = [task EXCEPT ![h] = Idle]
    /\ UNCHANGED <<line, store, reports, minted, spoken, failed, offered>>

-----------------------------------------------------------------------------
(* Around the call. *)

\* Redis loses the key: its time to live ends, or it is evicted.
Expire ==
    /\ store # NoCall /\ used.expiries < MaxExpiries /\ Spend("expiries")
    /\ store' = NoCall
    /\ UNCHANGED <<line, task, reports, minted, spoken, failed, offered>>

\* POST /voice/status with CallStatus=completed, perhaps more than once:
\* maybe_send offers the pin form for a reference whose location is uncertain.
Status ==
    /\ line.phase = "over"
    /\ store # NoCall /\ ~store.dialog.danger /\ store.ref # NoRef
    /\ \/ store.dialog.node = "TIMEOUT_EXIT"
       \/ LocationConfidence(store.dialog.slots) < 85
    /\ offered' = offered \cup {store.ref}
    /\ UNCHANGED <<line, task, store, reports, minted, spoken, failed, used>>

HandlerStep(h) ==
    \/ StartCall(h) \/ Step(h) \/ StepMissing(h)
    \/ Lookup(h) \/ Insert(h) \/ InsertConflict(h) \/ InsertRefused(h)
    \/ Save(h) \/ RedisFails(h) \/ Answer(h)

Next ==
    \/ \E h \in Handlers :
          \/ Ring(h) \/ Speak(h) \/ StaySilent(h) \/ Retry(h)
          \/ HandlerStep(h) \/ Crash(h)
    \/ HangUp \/ Expire \/ Status

Spec == Init /\ [][Next]_vars

\* One clock drives them all: as long as a handler has a step to take or Twilio
\* has something to do (ring, post a silence, give up on an answer), one of
\* these happens in the end. Callers owe nothing.
FairSpec ==
    /\ Spec
    /\ WF_vars(GiveUp \/ \E h \in Handlers : HandlerStep(h) \/ Ring(h) \/ StaySilent(h))

-----------------------------------------------------------------------------
(* Properties. *)

TypeOK ==
    /\ line \in LineType
    /\ task \in [Handlers -> TaskType]
    /\ store \in CallType \cup {NoCall}
    /\ reports \in [ReportIds -> ReportType]
    /\ minted \subseteq ReportIds /\ failed \subseteq minted
    /\ spoken \subseteq Refs /\ offered \subseteq Refs
    /\ used \in Budget

\* A reference that the caller is told, on the line or by text message, is that
\* of the report in the database, whichever handler wrote it and whichever
\* saved last. If it is not, a write raised, and either no write came through or
\* the plain code was taken.
SpokenRefIsStored ==
    \A r \in spoken \cup offered :
        \/ reports[r.of].ref = r
        \/ r.of \in failed /\ (Stored(r.of) => r.of \in Taken)

\* Restarts, rejected locations, keypads and repeated posts never shorten the
\* script: a stored report has every answer that its hazard calls for.
ReportsAreComplete ==
    \A i \in ReportIds : Stored(i) =>
        LET s == reports[i].slots
        IN /\ s.intent = "yes" /\ s.confirmation = "yes"
           /\ "none" \notin {s.hazard, s.description, s.location, s.severity}
           /\ s.hazard = "storm" => s.depth = "measured"

\* A caller who says nothing more is let go by the ladder: no reprompt loop,
\* dead handler or lost call state keeps the line open.
SilentCallerIsLetGo ==
    <>[][\A h \in Handlers : ~Speak(h)]_vars => <>(line.phase = "over")

=============================================================================
