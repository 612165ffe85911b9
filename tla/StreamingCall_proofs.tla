------------------------ MODULE StreamingCall_proofs ------------------------
(***************************************************************************)
(* Proofs about StreamingCall for any words, keys, attempts and events.    *)
(***************************************************************************)
EXTENDS StreamingCall, SequenceTheorems, TLAPS

-----------------------------------------------------------------------------
(* The inductive invariant.                                                *)

\* Who listens has asked a question, and a clip is of a node that has a prompt.
LoopIsPlaced ==
    /\ pc = "play" => dialog.node \notin Machines
    /\ pc \in {"listen", "ack"} => dialog.node \in Questions

\* A danger word that was accepted is acted on next, and nothing but the way out is left.
DangerIsLast ==
    told /\ ~overdue =>
        \/ pc = "ack" /\ turn = "hurt"
        \/ /\ pc \in {"walk", "play"} /\ dialog.danger
           /\ dialog.node \in {"EMERGENCY_REDIRECT", "END"}
        \/ pc = "ended" /\ saved.danger /\ dialog.node \in {"EMERGENCY_REDIRECT", "END"}
        \/ pc = "dead"

\* The state in Redis is behind by the answer in hand, and by none while one is awaited.
AskedIsSaved == pc \in {"listen", "ack"} => saved.slots = dialog.slots

IInv == TypeOK /\ LoopIsPlaced /\ DangerIsLast /\ AskedIsSaved /\ DeathCostsOneAnswer

-----------------------------------------------------------------------------
(* Facts about the call script.                                            *)

\* A walk goes from node to node; machines and notices always lead somewhere, and from
\* the redirection to 112 a call only ends.
LEMMA TargetsAreNodes ==
  ASSUME NEW n \in Nodes, NEW s
  PROVE  /\ Target(n, s) \in Nodes \cup {"none"}
         /\ n \in Machines \cup Notices => Target(n, s) \in Nodes
         /\ Target("EMERGENCY_REDIRECT", s) = "END"
<1> DEFINE e == Edges(n, s)
           open == {i \in DOMAIN e : e[i].open}
           first == CHOOSE i \in open : \A j \in open : i <= j
<1>1. DOMAIN e \subseteq {1, 2, 3, 4} /\ \A i \in DOMAIN e : e[i].target \in Nodes
  BY DEF Edges, Nodes, Machines, Notices, Questions, Terminals
<1>2. n \in Machines \cup Notices => open # {}
  <2>1. ASSUME n = "RESOLVE_LOCATION" PROVE 4 \in DOMAIN e /\ e[4].open
    BY <2>1 DEF Edges
  <2>2. ASSUME n \in (Machines \cup Notices) \ {"RESOLVE_LOCATION"} PROVE 1 \in DOMAIN e /\ e[1].open
    <3>1. n \in {"START", "SUBMIT", "CONSENT", "START_OVER", "EMERGENCY_REDIRECT"}
      BY <2>2 DEF Machines, Notices
    <3>2. e \in {<<[open |-> TRUE, target |-> t]>> : t \in Nodes}
      BY <3>1 DEF Edges, Nodes, Machines, Notices, Questions, Terminals
    <3>. QED
      BY <3>2
  <2> HIDE DEF e
  <2>. QED
    BY <2>1, <2>2
<1>3. Target(n, s) = IF open = {} THEN "none" ELSE e[first].target
  BY DEF Target
<1> HIDE DEF e
<1>4. open # {} => \E i \in open : \A j \in open : i <= j
  <2>1. open \subseteq {1, 2, 3, 4}
    BY <1>1
  <2> HIDE DEF open
  <2>2. CASE 1 \in open
    BY <2>1, <2>2
  <2>3. CASE 1 \notin open /\ 2 \in open
    BY <2>1, <2>3
  <2>4. CASE 1 \notin open /\ 2 \notin open /\ 3 \in open
    BY <2>1, <2>4
  <2>5. CASE open \cap {1, 2, 3} = {} /\ 4 \in open
    BY <2>1, <2>5
  <2>6. CASE open = {}
    BY <2>6
  <2>. QED
    BY <2>1, <2>2, <2>3, <2>4, <2>5, <2>6
<1>5. open # {} => first \in DOMAIN e
  BY <1>4
<1> HIDE DEF first
<1>6. Target("EMERGENCY_REDIRECT", s) = "END"
  BY DEF Target, Edges
<1>. QED
  BY <1>1, <1>2, <1>3, <1>5, <1>6

\* The answers to a question that fill its slot.
Answers(n) ==
    CASE n = "ASK_INTENT" -> {"yes", "no"}
      [] n = "ASK_HAZARD_TYPE" -> {"storm", "sludge_oil"}
      [] n \in {"ASK_DESCRIPTION", "ASK_LOCATION", "DISAMBIGUATE_LOCATION"} -> {"apt", "astray"}
      [] n = "ASK_SEVERITY" -> {"rated"}
      [] n = "ASK_DEPTH" -> {"measured"}
      [] n \in {"CONFIRM_LOCATION_LOW_CONF", "CONFIRM_SUMMARY"} -> {"yes", "no", "restart"}

\* An extractor and a keypad map answer the question or not at all.
LEMMA ValuesAnswer ==
  ASSUME NEW n \in Questions, NEW word, NEW about, NEW attempt
  PROVE  /\ Extracted(n, word, about) \in Answers(n) \cup {"none"}
         /\ Mapped(n, attempt, word) \in Answers(n) \cup {"none"}
<1>1. Extracted(n, word, about) \in Answers(n) \cup {"none"}
  BY DEF Extracted, Category, SlotOf, Answers, Questions
<1>2. Mapped(n, attempt, word) \in Answers(n) \cup {"none"}
  BY DEF Mapped, Armed, Answers, Questions
<1>. QED
  BY <1>1, <1>2

\* Two states of the slots that differ in one answer at most.
OneApart(s, t) == \E f \in DOMAIN NoSlots : \A g \in DOMAIN NoSlots \ {f} : s[g] = t[g]

\* The slots of a report.
LEMMA SlotNames ==
  DOMAIN NoSlots = {"intent", "hazard", "description", "location", "severity", "depth", "confirmation"}
  BY DEF NoSlots

\* An answer fills its own slot and leaves the others.
LEMMA AnswersFillOneSlot ==
  ASSUME NEW n \in Questions, NEW s \in SlotType, NEW v \in Answers(n)
  PROVE  [s EXCEPT ![SlotOf[n]] = v] \in SlotType /\ OneApart(s, [s EXCEPT ![SlotOf[n]] = v])
<1>1. CASE n = "ASK_INTENT"
  <2>1. SlotOf[n] = "intent" /\ v \in {"yes", "no"}
    BY <1>1 DEF SlotOf, Answers, Questions
  <2>. QED
    BY <2>1, SlotNames DEF SlotType, OneApart
<1>2. CASE n = "ASK_HAZARD_TYPE"
  <2>1. SlotOf[n] = "hazard" /\ v \in {"storm", "sludge_oil"}
    BY <1>2 DEF SlotOf, Answers, Questions
  <2>. QED
    BY <2>1, SlotNames DEF SlotType, OneApart
<1>3. CASE n = "ASK_DESCRIPTION"
  <2>1. SlotOf[n] = "description" /\ v \in {"apt", "astray"}
    BY <1>3 DEF SlotOf, Answers, Questions
  <2>. QED
    BY <2>1, SlotNames DEF SlotType, OneApart
<1>4. CASE n \in {"ASK_LOCATION", "DISAMBIGUATE_LOCATION"}
  <2>1. SlotOf[n] = "location" /\ v \in {"apt", "astray"}
    BY <1>4 DEF SlotOf, Answers, Questions
  <2>. QED
    BY <2>1, SlotNames DEF SlotType, OneApart
<1>5. CASE n = "ASK_SEVERITY"
  <2>1. SlotOf[n] = "severity" /\ v = "rated"
    BY <1>5 DEF SlotOf, Answers, Questions
  <2>. QED
    BY <2>1, SlotNames DEF SlotType, OneApart
<1>6. CASE n = "ASK_DEPTH"
  <2>1. SlotOf[n] = "depth" /\ v = "measured"
    BY <1>6 DEF SlotOf, Answers, Questions
  <2>. QED
    BY <2>1, SlotNames DEF SlotType, OneApart
<1>7. CASE n \in {"CONFIRM_LOCATION_LOW_CONF", "CONFIRM_SUMMARY"}
  <2>1. SlotOf[n] = "confirmation" /\ v \in {"yes", "no", "restart"}
    BY <1>7 DEF SlotOf, Answers, Questions
  <2>. QED
    BY <2>1, SlotNames DEF SlotType, OneApart
<1>. QED
  BY <1>1, <1>2, <1>3, <1>4, <1>5, <1>6, <1>7 DEF Questions

-----------------------------------------------------------------------------
(* One turn on a state.                                                    *)

\* A rung of the ladder changes no answer.
LEMMA MissedIsTyped ==
  ASSUME NEW d \in StateType
  PROVE  Missed(d) \in StateType /\ Missed(d).slots = d.slots
<1>1. "TIMEOUT_EXIT" \in Nodes /\ 0 \in 0 .. MaxAttempts
  BY MaxAttemptsAssumption DEF Nodes, Terminals
<1>2. CASE d.attempt + 1 > MaxAttempts
  BY <1>1, <1>2 DEF Missed, StateType
<1>3. CASE ~(d.attempt + 1 > MaxAttempts)
  <2>1. d.attempt + 1 \in 0 .. MaxAttempts
    BY <1>3, MaxAttemptsAssumption DEF StateType
  <2>. QED
    BY <1>3, <2>1 DEF Missed, StateType
<1>. QED
  BY <1>2, <1>3

\* To move to a node changes no answer.
LEMMA MovedIsTyped ==
  ASSUME NEW d \in StateType, NEW n \in Nodes
  PROVE  /\ MoveTo(d, n) \in StateType /\ MoveTo(d, n).slots = d.slots
         /\ MoveTo(d, n).node = n /\ MoveTo(d, n).danger = d.danger
<1>1. 0 \in 0 .. MaxAttempts
  BY MaxAttemptsAssumption
<1>. QED
  BY <1>1 DEF MoveTo, StateType

\* An accepted answer changes one slot at most.
LEMMA FilledIsTyped ==
  ASSUME NEW d \in StateType, d.node \in Questions, NEW v \in Answers(d.node)
  PROVE  Filled(d, v) \in StateType /\ OneApart(d.slots, Filled(d, v).slots)
<1> DEFINE s == [d.slots EXCEPT ![SlotOf[d.node]] = v]
           t == Target(d.node, s)
           c == [d EXCEPT !.slots = s]
<1>1. s \in SlotType /\ OneApart(d.slots, s)
  BY AnswersFillOneSlot DEF StateType
<1>2. t \in Nodes \cup {"none"}
  BY TargetsAreNodes DEF StateType
<1>3. Filled(d, v) = IF t = "none" THEN Missed(c) ELSE [d EXCEPT !.slots = s, !.node = t, !.attempt = 0]
  BY DEF Filled
<1> HIDE DEF s, t
<1>4. c \in StateType /\ c.slots = s
  BY <1>1 DEF StateType
<1> HIDE DEF c
<1>5. CASE t = "none"
  BY <1>1, <1>3, <1>4, <1>5, MissedIsTyped
<1>6. CASE t # "none"
  <2>1. 0 \in 0 .. MaxAttempts
    BY MaxAttemptsAssumption
  <2>. QED
    BY <1>1, <1>2, <1>3, <1>6, <2>1 DEF StateType
<1>. QED
  BY <1>5, <1>6

\* A turn at a question changes one answer at most, and a danger word sends to 112.
LEMMA HeardIsTyped ==
  ASSUME NEW d \in StateType, d.node \in Questions, NEW input
  PROVE  /\ Heard(d, input) \in StateType /\ OneApart(d.slots, Heard(d, input).slots)
         /\ Trips(input) => Heard(d, input).node = "EMERGENCY_REDIRECT" /\ Heard(d, input).danger
<1> DEFINE value == IF input.kind = "dtmf" THEN Mapped(d.node, d.attempt, input.word)
                    ELSE Extracted(d.node, input.word, input.about)
<1>1. value \in Answers(d.node) \cup {"none"}
  BY ValuesAnswer
<1>2. \A s : OneApart(s, s)
  BY SlotNames DEF OneApart
<1>3. "EMERGENCY_REDIRECT" \in Nodes /\ 0 \in 0 .. MaxAttempts /\ d.node \in Nodes
  BY MaxAttemptsAssumption DEF Nodes, Notices, StateType
<1>4. CASE Trips(input)
  <2>1. input.kind # "timeout"
    BY <1>4 DEF Trips
  <2>2. Heard(d, input) = [[d EXCEPT !.node = "EMERGENCY_REDIRECT", !.attempt = 0, !.danger = TRUE]
                              EXCEPT !.resume = d.node]
    BY <1>4, <2>1 DEF Heard, Applied
  <2>. QED
    BY <1>2, <1>3, <2>2 DEF StateType
<1>5. CASE ~Trips(input)
  <2>1. Heard(d, input) = IF input.kind = "timeout" \/ value = "none" THEN Missed(d) ELSE Filled(d, value)
    BY <1>5 DEF Heard, Applied
  <2> HIDE DEF value
  <2>2. CASE input.kind = "timeout" \/ value = "none"
    BY <1>2, <1>5, <2>1, <2>2, MissedIsTyped
  <2>3. CASE ~(input.kind = "timeout" \/ value = "none")
    BY <1>1, <1>5, <2>1, <2>3, FilledIsTyped
  <2>. QED
    BY <2>2, <2>3
<1>. QED
  BY <1>4, <1>5

-----------------------------------------------------------------------------
(* The caller, Flux and the line.                                          *)

\* The bounds are numbers.
LEMMA Constants == MaxAttempts \in Nat /\ MaxSaid \in Nat /\ MaxWire \in Nat \ {0}
  BY MaxAttemptsAssumption, StreamBounds

\* What the loop does not touch: the state of the call stays, or its line does.
LEMMA LineStep ==
  ASSUME IInv, UNCHANGED <<dialog, saved, pc, turn, draft, overdue, told>>, TypeOK'
  PROVE  IInv'
  BY DEF IInv, LoopIsPlaced, DangerIsLast, AskedIsSaved, DeathCostsOneAnswer

\* An event that arrives waits in the queue and changes nothing else the invariant names.
LEMMA ArrivesIsTyped ==
  ASSUME IInv, NEW e \in EventType, Arrives(e), mouth' \in {"quiet", "speaking", "paused"}
  PROVE  IInv'
<1>1. /\ said < MaxSaid /\ Len(wire) < MaxWire /\ said' = said + 1 /\ wire' = Append(wire, e)
      /\ UNCHANGED <<eager, dialog, saved, pc, turn, draft, hung, overdue, told>>
  BY DEF Arrives, loop
<1>2. wire \in Seq(EventType) /\ said \in 0 .. MaxSaid
  BY DEF IInv, TypeOK
<1>3. wire' \in Seq(EventType) /\ Len(wire') <= MaxWire
  BY <1>1, <1>2, Constants, AppendProperties, LenProperties
<1>4. said' \in 0 .. MaxSaid
  BY <1>1, <1>2, Constants
<1>5. TypeOK'
  BY <1>1, <1>3, <1>4 DEF IInv, TypeOK
<1>. QED
  BY <1>1, <1>5, LineStep

\* The caller, Flux and the keypad only append to the queue.
LEMMA LineSteps ==
  ASSUME IInv, Speaks \/ Pauses \/ Resumes \/ Finishes \/ Presses \/ HangsUp
  PROVE  IInv'
<1>1. CASE Speaks
  <2>1. Event("start", Nothing, TRUE) \in EventType
    BY DEF Event, EventType, Transcripts
  <2>. QED
    BY <1>1, <2>1, ArrivesIsTyped DEF Speaks
<1>2. CASE Pauses
  <2>1. \A w \in Transcripts : Event("eager", w, TRUE) \in EventType
    BY DEF Event, EventType
  <2>. QED
    BY <1>2, <2>1, ArrivesIsTyped DEF Pauses
<1>3. CASE Resumes
  <2>1. Event("resumed", Nothing, TRUE) \in EventType
    BY DEF Event, EventType, Transcripts
  <2>. QED
    BY <1>3, <2>1, ArrivesIsTyped DEF Resumes
<1>4. CASE Finishes
  <2>1. \A w \in Transcripts, b \in BOOLEAN : Event("final", w, b) \in EventType
    BY DEF Event, EventType
  <2>. QED
    BY <1>4, <2>1, ArrivesIsTyped DEF Finishes
<1>5. CASE Presses
  <2>1. \A k \in Keys : Event("dtmf", k, TRUE) \in EventType
    BY DEF Event, EventType
  <2>2. mouth' \in {"quiet", "speaking", "paused"}
    BY <1>5 DEF Presses, IInv, TypeOK
  <2>. QED
    BY <1>5, <2>1, <2>2, ArrivesIsTyped DEF Presses
<1>6. CASE HangsUp
  <2>1. UNCHANGED <<eager, dialog, saved, pc, turn, draft, wire, overdue, told, said>>
        /\ hung' = TRUE /\ mouth' = "quiet"
    BY <1>6 DEF HangsUp, loop
  <2>2. TypeOK'
    BY <2>1 DEF IInv, TypeOK
  <2>. QED
    BY <2>1, <2>2, LineStep
<1>. QED
  BY <1>1, <1>2, <1>3, <1>4, <1>5, <1>6

-----------------------------------------------------------------------------
(* The loop.                                                               *)

\* A node is a machine, a notice, a question or an end, and only one of them.
LEMMA NodeSets ==
  /\ \A n \in Questions : n \in Nodes /\ n \notin Machines \cup Notices \cup Terminals
  /\ \A n \in Terminals : n \in Nodes /\ n \notin Machines \cup Notices
  /\ \A n \in Notices : n \in Nodes /\ n \notin Machines
  /\ \A n \in Nodes : n \in Machines \cup Notices \cup Questions \cup Terminals
  /\ "EMERGENCY_REDIRECT" \in Notices /\ "END" \in Terminals /\ "TIMEOUT_EXIT" \in Terminals
  BY DEF Nodes, Machines, Notices, Questions, Terminals

\* The property says that the saved and the current answers are one apart.
LEMMA SameSlotsAreOneApart ==
  /\ \A s : OneApart(s, s)
  /\ DeathCostsOneAnswer <=> OneApart(saved.slots, dialog.slots)
  BY SlotNames DEF OneApart, DeathCostsOneAnswer

\* A clip has been played: a question is saved before it is listened to.
LEMMA PromptedStep ==
  ASSUME IInv, Prompted PROVE IInv'
<1>. TypeOK /\ dialog \in StateType
  BY DEF IInv, TypeOK
<1>1. /\ pc \in {"play", "walk"} /\ dialog.node \notin Machines /\ saved' = dialog
      /\ UNCHANGED <<eager, turn, wire, mouth, hung, overdue, told, said>>
  BY DEF Prompted, IInv, LoopIsPlaced
<1>2. dialog.node \in Nodes
  BY DEF StateType
<1>3. CASE dialog.node \in Terminals
  <2>1. pc' = "ended" /\ UNCHANGED <<dialog, draft>>
    BY <1>3 DEF Prompted
  <2>2. TypeOK'
    BY <1>1, <2>1 DEF TypeOK
  <2>3. DangerIsLast'
    BY <1>1, <2>1 DEF IInv, DangerIsLast
  <2>4. DeathCostsOneAnswer' /\ AskedIsSaved' /\ LoopIsPlaced'
    BY <1>1, <2>1, SlotNames DEF AskedIsSaved, LoopIsPlaced, DeathCostsOneAnswer
  <2>. QED
    BY <2>2, <2>3, <2>4 DEF IInv
<1>4. CASE dialog.node \in Notices
  <2>1. /\ pc' = "walk" /\ UNCHANGED draft
        /\ dialog' = MoveTo(dialog, Target(dialog.node, dialog.slots))
    BY <1>4, NodeSets DEF Prompted
  <2>2. PICK t : t = Target(dialog.node, dialog.slots)
    OBVIOUS
  <2>3. t \in Nodes /\ (dialog.node = "EMERGENCY_REDIRECT" => t = "END")
    BY <1>2, <1>4, <2>2, TargetsAreNodes
  <2>4. /\ dialog' \in StateType /\ dialog'.slots = dialog.slots /\ dialog'.node = t
        /\ dialog'.danger = dialog.danger
    BY <2>1, <2>2, <2>3, MovedIsTyped
  <2>5. TypeOK'
    BY <1>1, <2>1, <2>4 DEF TypeOK
  <2>6. DangerIsLast'
    <3>1. CASE told /\ ~overdue
      <4>1. dialog.danger /\ dialog.node \in {"EMERGENCY_REDIRECT", "END"}
        BY <1>1, <3>1 DEF IInv, DangerIsLast
      <4>2. dialog.node = "EMERGENCY_REDIRECT"
        BY <1>4, <4>1, NodeSets
      <4>. QED
        BY <1>1, <2>1, <2>3, <2>4, <4>1, <4>2 DEF DangerIsLast
    <3>2. CASE ~(told /\ ~overdue)
      BY <1>1, <3>2 DEF DangerIsLast
    <3>. QED
      BY <3>1, <3>2
  <2>7. DeathCostsOneAnswer' /\ AskedIsSaved' /\ LoopIsPlaced'
    BY <1>1, <2>1, <2>4, SlotNames DEF AskedIsSaved, LoopIsPlaced, DeathCostsOneAnswer
  <2>. QED
    BY <2>5, <2>6, <2>7 DEF IInv
<1>5. CASE dialog.node \in Questions
  <2>1. pc' = "listen" /\ draft' = Nothing /\ UNCHANGED dialog
    BY <1>5, NodeSets DEF Prompted
  <2>2. TypeOK'
    BY <1>1, <2>1 DEF TypeOK, Transcripts
  <2>3. DangerIsLast'
    <3>1. "EMERGENCY_REDIRECT" \notin Questions /\ "END" \notin Questions
      BY NodeSets
    <3>. QED
      BY <1>1, <1>5, <2>1, <3>1 DEF IInv, DangerIsLast
  <2>4. DeathCostsOneAnswer' /\ AskedIsSaved' /\ LoopIsPlaced'
    BY <1>1, <1>5, <2>1, SlotNames DEF AskedIsSaved, LoopIsPlaced, DeathCostsOneAnswer
  <2>. QED
    BY <2>2, <2>3, <2>4 DEF IInv
<1>. QED
  BY <1>1, <1>2, <1>3, <1>4, <1>5, NodeSets

\* A clip begins.
LEMMA PlayStep ==
  ASSUME IInv, Play PROVE IInv'
<1>1. /\ pc = "walk" /\ pc' = "play" /\ dialog.node \notin Machines
      /\ UNCHANGED <<eager, dialog, saved, turn, draft, wire, mouth, hung, overdue, told, said>>
  BY DEF Play
<1>2. TypeOK'
  BY <1>1 DEF IInv, TypeOK
<1>. QED
  BY <1>1, <1>2 DEF IInv, LoopIsPlaced, DangerIsLast, AskedIsSaved, DeathCostsOneAnswer

\* A node without a prompt leads to the next node.
LEMMA MachineStep ==
  ASSUME IInv, AdvanceMachine PROVE IInv'
<1>1. /\ pc = "walk" /\ dialog.node \in Machines /\ saved' = dialog'
      /\ dialog' = MoveTo(dialog, Target(dialog.node, dialog.slots))
      /\ UNCHANGED <<eager, pc, turn, draft, wire, mouth, hung, overdue, told, said>>
  BY DEF AdvanceMachine
<1>2. PICK t : t = Target(dialog.node, dialog.slots)
  OBVIOUS
<1>3. dialog \in StateType /\ dialog.node \in Nodes
  BY DEF IInv, TypeOK, StateType
<1>4. t \in Nodes
  BY <1>1, <1>2, <1>3, TargetsAreNodes
<1>5. dialog' \in StateType
  BY <1>1, <1>2, <1>3, <1>4, MovedIsTyped
<1>6. TypeOK'
  BY <1>1, <1>5 DEF IInv, TypeOK
<1>7. ~(told /\ ~overdue)
  BY <1>1, NodeSets DEF IInv, DangerIsLast
<1>8. DeathCostsOneAnswer' /\ AskedIsSaved' /\ LoopIsPlaced' /\ DangerIsLast'
  BY <1>1, <1>7, SlotNames DEF AskedIsSaved, LoopIsPlaced, DeathCostsOneAnswer, DangerIsLast
<1>. QED
  BY <1>6, <1>8 DEF IInv

\* A turn that is acted on where the caller was listened to.
LEMMA ActOnStep ==
  ASSUME IInv, pc = "listen", NEW kind, NEW word, ActOn(kind, word),
         UNCHANGED <<eager, mouth, hung, overdue, said>>,
         wire' \in Seq(EventType), Len(wire') <= MaxWire
  PROVE  IInv'
<1>1. PICK d : d = Heard(dialog, InputOf(kind, word))
  OBVIOUS
<1>2. /\ dialog' = d /\ pc' = "walk" /\ draft' = Nothing /\ UNCHANGED <<saved, turn, told>>
  BY <1>1 DEF ActOn
<1>3. dialog \in StateType /\ dialog.node \in Questions /\ saved.slots = dialog.slots
  BY DEF IInv, TypeOK, LoopIsPlaced, AskedIsSaved
<1>4. d \in StateType /\ OneApart(dialog.slots, d.slots)
  BY <1>1, <1>3, HeardIsTyped
<1>5. TypeOK'
  BY <1>2, <1>4 DEF IInv, TypeOK, Transcripts
<1>6. ~(told /\ ~overdue)
  BY DEF IInv, DangerIsLast
<1>7. DeathCostsOneAnswer'
  BY <1>2, <1>3, <1>4 DEF OneApart, DeathCostsOneAnswer
<1>8. AskedIsSaved' /\ LoopIsPlaced' /\ DangerIsLast'
  BY <1>2, <1>6 DEF AskedIsSaved, LoopIsPlaced, DangerIsLast
<1>. QED
  BY <1>5, <1>7, <1>8 DEF IInv

\* The transcript of a turn is Flux's last word, whatever was speculated on.
LEMMA CommittedIsFinal ==
  ASSUME NEW e PROVE Committed(e) = e.word
  BY DEF Committed

\* An event is read: what Flux or the keypad said is taken, dropped or speculated on.
LEMMA CollectStep ==
  ASSUME IInv, Collect PROVE IInv'
<1>. TypeOK
  BY DEF IInv
<1>1. /\ pc = "listen" /\ wire # << >> /\ wire' = Tail(wire)
      /\ UNCHANGED <<eager, mouth, hung, overdue, said>>
  BY DEF Collect
<1>2. PICK e : e = Head(wire)
  OBVIOUS
<1>3. e \in EventType /\ wire' \in Seq(EventType) /\ Len(wire') <= MaxWire
  <2>1. wire \in Seq(EventType) /\ Len(wire) <= MaxWire
    BY DEF TypeOK
  <2>2. e \in EventType /\ Tail(wire) \in Seq(EventType) /\ Len(Tail(wire)) = Len(wire) - 1
    BY <1>1, <1>2, <2>1, HeadTailProperties
  <2>. QED
    BY <1>1, <2>1, <2>2, Constants, LenProperties
<1>4. ~(told /\ ~overdue) /\ dialog.node \in Questions /\ saved.slots = dialog.slots
  BY <1>1 DEF IInv, DangerIsLast, LoopIsPlaced, AskedIsSaved
<1>5. CASE Follow(e)
  <2>1. /\ e.kind \in {"start", "eager", "resumed"} /\ UNCHANGED <<dialog, saved, pc, turn, told>>
        /\ draft' \in {draft, Nothing, e.word}
    BY <1>5 DEF Follow
  <2>2. e.word \in Transcripts
    BY <1>3, <2>1 DEF EventType
  <2>3. TypeOK'
    BY <1>1, <1>3, <2>1, <2>2 DEF TypeOK, Transcripts
  <2>. QED
    BY <1>1, <2>1, <2>3 DEF IInv, LoopIsPlaced, DangerIsLast, AskedIsSaved, DeathCostsOneAnswer
<1>6. CASE Commit(e)
  <2>1. CASE ActOn("timeout", Nothing)
    BY <1>1, <1>3, <2>1, ActOnStep
  <2>2. CASE ~ActOn("timeout", Nothing)
    <3>1. /\ e.kind = "final" /\ turn' = e.word /\ pc' = "ack" /\ draft' = Nothing
          /\ told' = (told \/ e.word = "hurt") /\ UNCHANGED <<dialog, saved>>
      BY <1>6, <2>2, CommittedIsFinal DEF Commit
    <3>2. e.word \in Transcripts
      BY <1>3, <3>1 DEF EventType
    <3>3. told' \in BOOLEAN
      BY <3>1
    <3>4. TypeOK'
      BY <1>1, <1>3, <3>1, <3>2, <3>3 DEF TypeOK, Transcripts
    <3>5. DangerIsLast'
      BY <1>1, <1>4, <3>1 DEF DangerIsLast
    <3>. QED
      BY <1>4, <3>1, <3>4, <3>5 DEF IInv, LoopIsPlaced, AskedIsSaved, DeathCostsOneAnswer
  <2>. QED
    BY <2>1, <2>2
<1>7. CASE Key(e)
  BY <1>1, <1>3, <1>7, ActOnStep DEF Key
<1>. QED
  BY <1>2, <1>5, <1>6, <1>7 DEF Collect

\* An answer is applied; a danger word leads to the redirection.
LEMMA AcknowledgedStep ==
  ASSUME IInv, Acknowledged PROVE IInv'
<1>1. PICK input : input = InputOf("asr", turn)
  OBVIOUS
<1>2. PICK d : d = Heard(dialog, input)
  OBVIOUS
<1>3. /\ pc = "ack" /\ dialog' = d /\ pc' = "walk" /\ turn' = Nothing
      /\ UNCHANGED <<eager, saved, draft, wire, mouth, hung, overdue, told, said>>
  BY <1>1, <1>2 DEF Acknowledged
<1>4. dialog \in StateType /\ dialog.node \in Questions /\ saved.slots = dialog.slots
  BY <1>3 DEF IInv, TypeOK, LoopIsPlaced, AskedIsSaved
<1>5. /\ d \in StateType /\ OneApart(dialog.slots, d.slots)
      /\ Trips(input) => d.node = "EMERGENCY_REDIRECT" /\ d.danger
  BY <1>2, <1>4, HeardIsTyped
<1>6. turn = "hurt" => Trips(input)
  BY <1>1 DEF Trips, InputOf
<1>7. TypeOK'
  BY <1>3, <1>5 DEF IInv, TypeOK, Transcripts
<1>8. DangerIsLast'
  <2>1. told /\ ~overdue => turn = "hurt"
    BY <1>3, <1>4, NodeSets DEF IInv, DangerIsLast
  <2>. QED
    BY <1>3, <1>5, <1>6, <2>1 DEF DangerIsLast
<1>9. DeathCostsOneAnswer'
  BY <1>3, <1>4, <1>5 DEF OneApart, DeathCostsOneAnswer
<1>10. AskedIsSaved' /\ LoopIsPlaced'
  BY <1>3 DEF AskedIsSaved, LoopIsPlaced
<1>. QED
  BY <1>7, <1>8, <1>9, <1>10 DEF IInv

-----------------------------------------------------------------------------
(* How a call ends.                                                        *)

\* The ways a call is cut short.
LEMMA EndSteps ==
  ASSUME IInv, Silence \/ Hangup \/ Deadline \/ Crash PROVE IInv'
<1>. TypeOK
  BY DEF IInv
<1>1. CASE Silence
  <2>1. /\ pc = "listen" /\ ActOn("timeout", Nothing) /\ wire' = wire
        /\ UNCHANGED <<eager, mouth, hung, overdue, said>>
    BY <1>1 DEF Silence
  <2>2. wire' \in Seq(EventType) /\ Len(wire') <= MaxWire
    BY <2>1 DEF TypeOK
  <2>. QED
    BY <2>1, <2>2, ActOnStep
<1>2. CASE Hangup
  <2>1. /\ pc = "listen" /\ saved' = dialog /\ pc' = "ended"
        /\ UNCHANGED <<eager, dialog, turn, draft, wire, mouth, hung, overdue, told, said>>
    BY <1>2 DEF Hangup
  <2>2. TypeOK'
    BY <2>1 DEF TypeOK
  <2>. QED
    BY <2>1, <2>2, SlotNames DEF IInv, LoopIsPlaced, DangerIsLast, AskedIsSaved, DeathCostsOneAnswer
<1>3. CASE Deadline
  <2>1. overdue' = TRUE /\ UNCHANGED <<eager, saved, turn, draft, wire, mouth, hung, told, said>>
    BY <1>3 DEF Deadline
  <2>2. CASE UNCHANGED <<dialog, pc>>
    <3>1. TypeOK'
      BY <2>1, <2>2 DEF TypeOK
    <3>. QED
      BY <2>1, <2>2, <3>1 DEF IInv, LoopIsPlaced, DangerIsLast, AskedIsSaved, DeathCostsOneAnswer
  <2>3. CASE dialog' = [dialog EXCEPT !.node = "TIMEOUT_EXIT"] /\ pc' = "play"
    <3>1. dialog \in StateType
      BY DEF TypeOK
    <3>2. /\ dialog' \in StateType /\ dialog'.slots = dialog.slots /\ dialog'.node = "TIMEOUT_EXIT"
      BY <2>3, <3>1, NodeSets DEF StateType
    <3>3. TypeOK'
      BY <2>1, <2>3, <3>2 DEF TypeOK
    <3>4. LoopIsPlaced' /\ AskedIsSaved' /\ DangerIsLast'
      BY <2>1, <2>3, <3>2, NodeSets DEF LoopIsPlaced, AskedIsSaved, DangerIsLast
    <3>5. DeathCostsOneAnswer'
      BY <2>1, <3>2 DEF IInv, DeathCostsOneAnswer
    <3>. QED
      BY <3>3, <3>4, <3>5 DEF IInv
  <2>. QED
    BY <1>3, <2>2, <2>3 DEF Deadline
<1>4. CASE Crash
  <2>1. pc' = "dead"
        /\ UNCHANGED <<eager, dialog, saved, turn, draft, wire, mouth, hung, overdue, told, said>>
    BY <1>4 DEF Crash
  <2>2. TypeOK'
    BY <2>1 DEF TypeOK
  <2>. QED
    BY <2>1, <2>2 DEF IInv, LoopIsPlaced, DangerIsLast, AskedIsSaved, DeathCostsOneAnswer
<1>. QED
  BY <1>1, <1>2, <1>3, <1>4

-----------------------------------------------------------------------------
(* The theorems.                                                           *)

\* A call begins at START without answers.
LEMMA InvInit ==
  ASSUME Init PROVE IInv
<1>1. NewCall \in StateType /\ NewCall.node = "START"
  <2>1. NoSlots \in SlotType
    BY DEF NoSlots, SlotType
  <2>2. 0 \in 0 .. MaxAttempts /\ "START" \in Nodes
    BY Constants DEF Nodes, Machines
  <2>. QED
    BY <2>1, <2>2 DEF NewCall, StateType, Nothing
<1>2. << >> \in Seq(EventType) /\ Len(<< >>) = 0
  OBVIOUS
<1>3. TypeOK
  <2>1. wire \in Seq(EventType) /\ Len(wire) <= MaxWire
    BY <1>2, Constants DEF Init
  <2>2. said \in 0 .. MaxSaid
    BY Constants DEF Init
  <2>3. turn \in Transcripts /\ draft \in Transcripts /\ {eager, hung, overdue, told} \subseteq BOOLEAN
    BY DEF Init, Transcripts
  <2>. QED
    BY <1>1, <2>1, <2>2, <2>3 DEF Init, TypeOK
<1>. QED
  BY <1>3, SlotNames DEF Init, IInv, LoopIsPlaced, DangerIsLast, AskedIsSaved, DeathCostsOneAnswer

\* Every step of the system preserves the invariant.
LEMMA InvStep ==
  ASSUME IInv, [Next]_vars PROVE IInv'
<1>1. CASE Speaks \/ Pauses \/ Resumes \/ Finishes \/ Presses \/ HangsUp
  BY <1>1, LineSteps
<1>2. CASE LoopStep \/ Deadline \/ Crash
  BY <1>2, PlayStep, PromptedStep, MachineStep, CollectStep, AcknowledgedStep, EndSteps DEF LoopStep
<1>3. CASE UNCHANGED vars
  <2>1. UNCHANGED <<eager, dialog, saved, pc, turn, draft, wire, mouth, hung, overdue, told, said>>
    BY <1>3 DEF vars
  <2>2. TypeOK'
    BY <2>1 DEF IInv, TypeOK
  <2>. QED
    BY <2>1, <2>2, LineStep
<1>. QED
  BY <1>1, <1>2, <1>3 DEF Next

\* Whatever is said, pressed, hung up on or crashed into: the loop listens only at
\* questions, from a state that Redis has (runner.py, the walk and its persists).
THEOREM CallInvariant == Spec => []IInv
  BY InvInit, InvStep, PTL DEF Spec

\* A danger word that was accepted as a turn ends the questions, at whichever of them
\* it was said and however often (driver.py, _apply_input; runner.py, the loop).
THEOREM DangerIsHeeded == Spec => []DangerEndsTheQuestions
<1>1. IInv => DangerEndsTheQuestions
  BY DEF IInv, DangerIsLast, DangerEndsTheQuestions
<1>. QED
  BY <1>1, CallInvariant, PTL

\* A worker that dies takes at most the answer in hand with it (runner.py, the persists
\* after a prompt and around a machine node).
THEOREM DeathsCostOneAnswer == Spec => []DeathCostsOneAnswer
<1>1. IInv => DeathCostsOneAnswer
  BY DEF IInv
<1>. QED
  BY <1>1, CallInvariant, PTL

\* Whatever was speculated on, a turn is acted on with Flux's final words
\* (pipeline/eager_eot.py).
THEOREM FinalWordsDecide == Spec => FinalWordsCount
<1>1. ASSUME [Next]_vars PROVE [pc = "listen" /\ pc' = "ack" => turn' = Head(wire).word]_vars
  <2>1. ASSUME pc = "listen", pc' = "ack" PROVE turn' = Head(wire).word
    <3>1. CASE Collect
      BY <2>1, <3>1, CommittedIsFinal DEF Collect, Commit, Follow, Key, ActOn
    <3>2. CASE ~Collect
      BY <1>1, <2>1, <3>2 DEF Next, LoopStep, vars, loop, Speaks, Pauses, Resumes, Finishes, Presses, Arrives,
         HangsUp, Play, Prompted, AdvanceMachine, Silence, ActOn, Acknowledged, Hangup, Deadline, Crash
    <3>. QED
      BY <3>1, <3>2
  <2>. QED
    BY <2>1
<1>. QED
  BY <1>1, PTL DEF Spec, FinalWordsCount

=============================================================================
