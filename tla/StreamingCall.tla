--------------------------- MODULE StreamingCall ---------------------------
(***************************************************************************)
(* One call of the streaming flow: the loop that walks the call script     *)
(* (conversation/runner.py) over one ordered queue of Flux and keypad      *)
(* events (pipeline/stt_flux.py, telephony/dtmf.py), with eager            *)
(* end-of-turn speculation (pipeline/eager_eot.py), the confidence gate    *)
(* (conversation/confidence.py) and the call's time limit.                 *)
(*                                                                         *)
(* The loop awaits a clip before it reads any event, so that what the      *)
(* caller says meanwhile waits in the queue. An event is of the kinds that *)
(* change something: TurnInfo and Metadata only wind the silence timer up  *)
(* again, StartOfTurn finds no clip in flight.                             *)
(***************************************************************************)
EXTENDS ConversationGraph

CONSTANTS
    MaxSaid,  \* bound: events from the caller
    MaxWire   \* bound: events that wait for the loop

ASSUME StreamBounds == MaxSaid \in Nat /\ MaxWire \in Nat \ {0}

VARIABLES
    eager,    \* whether speculation is enabled, fixed for the call
    dialog,   \* CallState in the worker
    saved,    \* CallState in Redis
    pc,       \* where the loop is
    turn,     \* the transcript that the acknowledgement is played for
    draft,    \* the transcript of the speculation in hand
    wire,     \* events from Flux and the keypad, oldest first
    mouth,    \* Flux's view of the caller: quiet, speaking, paused
    hung,     \* the transport is closed
    overdue,  \* the call's time limit has struck
    told,     \* a danger word was accepted as the transcript of a turn (history)
    said      \* events from the caller so far

loop == <<dialog, saved, pc, turn, draft>>
vars == <<eager, dialog, saved, pc, turn, draft, wire, mouth, hung, overdue, told, said>>

Nothing == "none"
Transcripts == Vocabulary \cup {Nothing}

StateType == [node : Nodes, attempt : 0 .. MaxAttempts, slots : SlotType, danger : BOOLEAN,
              resume : Nodes \cup {Nothing}]

NewCall == [node |-> "START", attempt |-> 0, slots |-> NoSlots, danger |-> FALSE,
            resume |-> Nothing]

\* sure: the confidence of the turn is at least 0.55, or Flux gave none.
Event(kind, word, sure) == [kind |-> kind, word |-> word, sure |-> sure]
EventType ==
    [kind : {"start", "eager", "resumed", "final"}, word : Transcripts, sure : BOOLEAN]
        \cup [kind : {"dtmf"}, word : Keys, sure : BOOLEAN]

Init ==
    /\ eager \in BOOLEAN
    /\ dialog = NewCall /\ saved = NewCall /\ pc = "walk"
    /\ turn = Nothing /\ draft = Nothing
    /\ wire = << >> /\ mouth = "quiet"
    /\ hung = FALSE /\ overdue = FALSE /\ told = FALSE /\ said = 0

-----------------------------------------------------------------------------
(* The caller, Flux and the line. *)

Arrives(e) ==
    /\ ~hung /\ pc \notin {"ended", "dead"}
    /\ said < MaxSaid /\ Len(wire) < MaxWire
    /\ said' = said + 1
    /\ wire' = Append(wire, e)
    /\ UNCHANGED <<eager, loop, hung, overdue, told>>

\* StartOfTurn, EagerEndOfTurn, TurnResumed, EndOfTurn: a second eager event
\* may follow the first, and the final transcript may differ from both.
Speaks == /\ mouth = "quiet" /\ mouth' = "speaking"
          /\ Arrives(Event("start", Nothing, TRUE))
Pauses == /\ mouth \in {"speaking", "paused"} /\ mouth' = "paused"
          /\ \E w \in Transcripts : Arrives(Event("eager", w, TRUE))
Resumes == /\ mouth = "paused" /\ mouth' = "speaking"
           /\ Arrives(Event("resumed", Nothing, TRUE))
Finishes == /\ mouth' = "quiet"
            /\ \E w \in Transcripts, b \in BOOLEAN : Arrives(Event("final", w, b))
Presses == \E k \in Keys : Arrives(Event("dtmf", k, TRUE)) /\ UNCHANGED mouth

HangsUp == /\ ~hung /\ hung' = TRUE /\ mouth' = "quiet"
           /\ UNCHANGED <<eager, loop, wire, overdue, told, said>>

-----------------------------------------------------------------------------
(* The loop. *)

\* Prompts with a placeholder have no clip in the bank; END has no prompt.
HasClip(d) ==
    /\ d.node \notin {"CONFIRM_LOCATION_LOW_CONF", "DISAMBIGUATE_LOCATION", "SUBMITTED", "END"}
    /\ d.node = "CONFIRM_SUMMARY" => d.attempt = 1

\* The two notices that prompts.yaml plays through.
Interruptible(d) == d.node \notin {"CONSENT", "EMERGENCY_REDIRECT"}

MoveTo(d, n) == [d EXCEPT !.node = n, !.attempt = 0]

\* Mutant: machine nodes alone are saved.
Prompted_Unsaved ==
    /\ \/ pc = "play"
       \/ pc = "walk" /\ dialog.node \notin Machines /\ ~HasClip(dialog)
    /\ IF dialog.node \in Terminals
       THEN /\ saved' = dialog /\ pc' = "ended" /\ UNCHANGED <<dialog, draft>>
       ELSE IF dialog.node \in Notices
       THEN /\ pc' = "walk" /\ UNCHANGED <<draft, saved>>
            /\ dialog' = MoveTo(dialog, Target(dialog.node, dialog.slots))
       ELSE /\ pc' = "listen" /\ draft' = Nothing /\ UNCHANGED <<dialog, saved>>
    /\ UNCHANGED <<eager, turn, wire, mouth, hung, overdue, told, said>>

\* The prompt is over, or there was none to play. The state is saved; a terminal
\* node ends the loop, a notice moves on, a question listens with a new
\* speculation coordinator.
Prompted ==
    /\ \/ pc = "play"
       \/ pc = "walk" /\ dialog.node \notin Machines /\ ~HasClip(dialog)
    /\ saved' = dialog
    /\ IF dialog.node \in Terminals THEN pc' = "ended" /\ UNCHANGED <<dialog, draft>>
       ELSE IF dialog.node \in Notices
       THEN /\ pc' = "walk" /\ UNCHANGED draft
            /\ dialog' = MoveTo(dialog, Target(dialog.node, dialog.slots))
       ELSE pc' = "listen" /\ draft' = Nothing /\ UNCHANGED dialog
    /\ UNCHANGED <<eager, turn, wire, mouth, hung, overdue, told, said>>

Play ==
    /\ pc = "walk" /\ dialog.node \notin Machines /\ HasClip(dialog)
    /\ pc' = "play"
    /\ UNCHANGED <<eager, dialog, saved, turn, draft, wire, mouth, hung, overdue, told, said>>

AdvanceMachine ==
    /\ pc = "walk" /\ dialog.node \in Machines
    /\ dialog' = MoveTo(dialog, Target(dialog.node, dialog.slots))
    /\ saved' = dialog'
    /\ UNCHANGED <<eager, pc, turn, draft, wire, mouth, hung, overdue, told, said>>

\* Mutant: extraction comes before the tripwire.
Heard_ExtractedFirst(d, input) ==
    LET value == Extracted(d.node, input.word, d.node)
    IN IF input.kind = "asr" /\ value # "none" THEN Filled(d, value)
       ELSE Applied(d, input)

\* One turn's outcome on the state: the tripwire, then the keypad map or the
\* extractor, then the first open edge or the ladder.
Heard(d, input) ==
    LET after == Applied(d, input)
    IN IF Trips(input) THEN [after EXCEPT !.resume = d.node] ELSE after

InputOf(kind, word) == [kind |-> kind, word |-> word, about |-> dialog.node]

\* The turn is collected and acted on, with nothing awaited in between.
ActOn(kind, word) ==
    /\ dialog' = Heard(dialog, InputOf(kind, word))
    /\ pc' = "walk" /\ draft' = Nothing
    /\ UNCHANGED <<saved, turn, told>>

\* next_event has waited no_input_timeout_ms for an event.
Silence ==
    /\ pc = "listen" /\ wire = << >>
    /\ ActOn("timeout", Nothing)
    /\ UNCHANGED <<eager, wire, mouth, hung, overdue, said>>

\* The transcript of a turn: that of the speculation when it is the final one,
\* or the final one itself.
Committed_AnySpeculation(e) == IF eager /\ draft # Nothing THEN draft ELSE e.word
Committed(e) == IF eager /\ draft = e.word THEN draft ELSE e.word

\* EndOfTurn: too uncertain or empty counts as silence; anything else is
\* acknowledged with a short clip before it is acted on.
Commit(e) ==
    /\ e.kind = "final"
    /\ IF ~e.sure \/ Committed(e) = Nothing THEN ActOn("timeout", Nothing)
       ELSE /\ turn' = Committed(e) /\ pc' = "ack" /\ draft' = Nothing
            /\ told' = (told \/ e.word = "hurt")
            /\ UNCHANGED <<dialog, saved>>

\* StartOfTurn and TurnResumed drop the speculation, EagerEndOfTurn replaces it.
Follow(e) ==
    /\ e.kind \in {"start", "eager", "resumed"}
    /\ draft' = IF ~eager THEN draft
                ELSE IF e.kind # "eager" THEN Nothing
                ELSE IF e.word # Nothing THEN e.word ELSE draft
    /\ UNCHANGED <<dialog, saved, pc, turn, told>>

\* A key goes past the tripwire and the extractor.
Key(e) == e.kind = "dtmf" /\ ActOn("dtmf", e.word)

Collect ==
    /\ pc = "listen" /\ wire # << >>
    /\ wire' = Tail(wire)
    /\ Follow(Head(wire)) \/ Commit(Head(wire)) \/ Key(Head(wire))
    /\ UNCHANGED <<eager, mouth, hung, overdue, said>>

Acknowledged ==
    /\ pc = "ack"
    /\ dialog' = Heard(dialog, InputOf("asr", turn))
    /\ pc' = "walk" /\ turn' = Nothing
    /\ UNCHANGED <<eager, saved, draft, wire, mouth, hung, overdue, told, said>>

-----------------------------------------------------------------------------
(* How a call ends. *)

\* next_event raises Hangup, which only a loop that listens meets.
Hangup ==
    /\ pc = "listen" /\ hung
    /\ saved' = dialog /\ pc' = "ended"
    /\ UNCHANGED <<eager, dialog, turn, draft, wire, mouth, hung, overdue, told, said>>

\* The final words of a turn are those of the speculation: the loop awaits its result.
AwaitsSpeculation ==
    /\ pc = "listen" /\ eager /\ wire # << >>
    /\ LET e == Head(wire) IN e.kind = "final" /\ e.sure /\ e.word # Nothing /\ e.word = draft

\* The time limit cancels the loop once. A clip that may be interrupted swallows
\* the cancellation and is cut short, and so may the await of a speculation, whose
\* transcript is then taken as it is: the loop goes on without a limit.
Deadline ==
    /\ ~overdue /\ pc \notin {"ended", "dead"}
    /\ overdue' = TRUE
    /\ \/ /\ (pc = "play" /\ Interruptible(dialog)) \/ AwaitsSpeculation
          /\ UNCHANGED <<dialog, pc>>
       \/ /\ ~(pc = "play" /\ Interruptible(dialog))
          /\ dialog' = [dialog EXCEPT !.node = "TIMEOUT_EXIT"] /\ pc' = "play"
    /\ UNCHANGED <<eager, saved, turn, draft, wire, mouth, hung, told, said>>

Crash ==
    /\ pc \notin {"ended", "dead"}
    /\ pc' = "dead"
    /\ UNCHANGED <<eager, dialog, saved, turn, draft, wire, mouth, hung, overdue, told, said>>

LoopStep == Play \/ Prompted \/ AdvanceMachine \/ Collect \/ Silence \/ Acknowledged \/ Hangup

Next ==
    \/ Speaks \/ Pauses \/ Resumes \/ Finishes \/ Presses \/ HangsUp
    \/ LoopStep \/ Deadline \/ Crash

Spec == Init /\ [][Next]_vars

\* The loop and its timers run. The caller owes nothing, and neither does the
\* time limit: it may strike where it is swallowed.
FairSpec == Spec /\ WF_vars(LoopStep)

-----------------------------------------------------------------------------
(* Properties. *)

TypeOK ==
    /\ {eager, hung, overdue, told} \subseteq BOOLEAN
    /\ dialog \in StateType /\ saved \in StateType
    /\ pc \in {"walk", "play", "listen", "ack", "ended", "dead"}
    /\ turn \in Transcripts /\ draft \in Transcripts
    /\ wire \in Seq(EventType) /\ Len(wire) <= MaxWire
    /\ mouth \in {"quiet", "speaking", "paused"} /\ said \in 0 .. MaxSaid

\* Speculation never decides what was said: whatever eager events, resumptions
\* and interruptions came before it, a turn is acted on with Flux's final words.
FinalWordsCount ==
    [][pc = "listen" /\ pc' = "ack" => turn' = Head(wire).word]_vars

\* A danger word that the agent accepted, at whichever question, ends the
\* questions: the caller is sent to 112, nothing is asked or submitted after
\* it, and the state left behind says so. Only the time limit comes before it.
DangerEndsTheQuestions ==
    told /\ ~overdue =>
        /\ pc = "ack" \/ dialog.node \in {"EMERGENCY_REDIRECT", "END"} \/ pc = "dead"
        /\ pc = "ended" => saved.danger

\* What a worker's death costs: nothing said before the question that the
\* caller was hearing or answering is missing from Redis. At most one answer is.
DeathCostsOneAnswer ==
    \E f \in DOMAIN NoSlots : \A g \in DOMAIN NoSlots \ {f} :
        saved.slots[g] = dialog.slots[g]

\* A caller who at some point says nothing more is let go, whether or not the
\* time limit still works.
CallEnds == <>(pc \in {"ended", "dead"})

=============================================================================
