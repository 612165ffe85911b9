------------------------- MODULE ConversationGraph -------------------------
(***************************************************************************)
(* The call script of the voice agent as data and pure functions: the      *)
(* nodes and guarded edges of conversation/graph.py, the reprompt ladder   *)
(* of conversation/policies.py with the keypad maps of prompts.yaml, and   *)
(* what one caller turn does to a call's state (conversation/driver.py,    *)
(* _apply_input, with the extractors that conversation/nodes.py calls).    *)
(*                                                                         *)
(* An utterance is one of a few words, each standing for every utterance   *)
(* the extractors treat alike. A free-text slot keeps only whether the     *)
(* words answered its own question ("apt") or another one ("astray").      *)
(***************************************************************************)
EXTENDS Naturals, Sequences, FiniteSets

CONSTANTS
    Vocabulary,  \* the words that the caller may say
    Keys,        \* the keys that the caller may press
    MaxAttempts  \* MAX_ATTEMPTS_CATEGORICAL and MAX_ATTEMPTS_FREE_TEXT (both 3)

Words == {"yes", "no", "restart", "storm", "oil", "severe", "knee", "words", "hurt"}

ASSUME VocabularyAssumption == Vocabulary \subseteq Words /\ Keys \subseteq {"1", "2"}
ASSUME MaxAttemptsAssumption == MaxAttempts \in Nat

Machines == {"START", "RESOLVE_LOCATION", "SUBMIT"}

\* Prompted nodes without an extractor: play and advance.
Notices == {"CONSENT", "START_OVER", "EMERGENCY_REDIRECT"}

Questions == {"ASK_INTENT", "ASK_HAZARD_TYPE", "ASK_DESCRIPTION", "ASK_LOCATION",
              "CONFIRM_LOCATION_LOW_CONF", "DISAMBIGUATE_LOCATION", "ASK_SEVERITY",
              "ASK_DEPTH", "CONFIRM_SUMMARY"}

Terminals == {"NOT_REPORTING", "SUBMITTED", "TIMEOUT_EXIT", "FATAL_FALLBACK", "END"}

Nodes == Machines \cup Notices \cup Questions \cup Terminals

SlotType == [intent : {"none", "yes", "no"},
             hazard : {"none", "storm", "sludge_oil"},
             description : {"none", "apt", "astray"},
             location : {"none", "apt", "astray"},
             severity : {"none", "rated"},
             depth : {"none", "measured"},
             confirmation : {"none", "yes", "no", "restart"}]

NoSlots == [intent |-> "none", hazard |-> "none", description |-> "none",
            location |-> "none", severity |-> "none", depth |-> "none",
            confirmation |-> "none"]

\* The slot that the answer to a question fills.
SlotOf == [n \in Questions |->
    CASE n = "ASK_INTENT" -> "intent"
      [] n = "ASK_HAZARD_TYPE" -> "hazard"
      [] n = "ASK_DESCRIPTION" -> "description"
      [] n \in {"ASK_LOCATION", "DISAMBIGUATE_LOCATION"} -> "location"
      [] n = "ASK_SEVERITY" -> "severity"
      [] n = "ASK_DEPTH" -> "depth"
      [] n \in {"CONFIRM_LOCATION_LOW_CONF", "CONFIRM_SUMMARY"} -> "confirmation"]

-----------------------------------------------------------------------------
(* Edges. *)

\* Percent. Any words at all are a location of confidence 0.6 until the
\* gazetteer is wired in.
LocationConfidence(s) == IF s.location = "none" THEN 0 ELSE 60

\* Hazards that come with a water depth: storm, and abnormal tide with it.
FloodClass(s) == s.hazard = "storm"

\* The edges of node n in declaration order: whether the guard holds for the
\* slots s, and the target. Nothing sets the flag location_ambiguous yet.
Edges(n, s) ==
    LET to(t) == [open |-> TRUE, target |-> t]
        when(g, t) == [open |-> g, target |-> t]
    IN CASE n = "START" -> <<to("CONSENT")>>
         [] n = "CONSENT" -> <<to("ASK_INTENT")>>
         [] n = "ASK_INTENT" -> <<when(s.intent = "yes", "ASK_HAZARD_TYPE"),
                                  when(s.intent = "no", "NOT_REPORTING")>>
         [] n = "ASK_HAZARD_TYPE" -> <<when(s.hazard # "none", "ASK_DESCRIPTION")>>
         [] n = "ASK_DESCRIPTION" -> <<to("ASK_LOCATION")>>
         [] n = "ASK_LOCATION" -> <<to("RESOLVE_LOCATION")>>
         [] n = "RESOLVE_LOCATION" ->
                <<when(LocationConfidence(s) >= 85, "ASK_SEVERITY"),
                  when(FALSE, "DISAMBIGUATE_LOCATION"),
                  when(LocationConfidence(s) >= 60, "CONFIRM_LOCATION_LOW_CONF"),
                  to("ASK_LOCATION")>>
         [] n = "CONFIRM_LOCATION_LOW_CONF" ->
                <<when(s.confirmation = "yes", "ASK_SEVERITY"), to("ASK_LOCATION")>>
         [] n = "DISAMBIGUATE_LOCATION" -> <<to("ASK_SEVERITY")>>
         [] n = "ASK_SEVERITY" -> <<when(FloodClass(s), "ASK_DEPTH"), to("CONFIRM_SUMMARY")>>
         [] n = "ASK_DEPTH" -> <<to("CONFIRM_SUMMARY")>>
         [] n = "CONFIRM_SUMMARY" -> <<when(s.confirmation = "yes", "SUBMIT"),
                                       when(s.confirmation \in {"restart", "no"}, "START_OVER")>>
         [] n = "START_OVER" -> <<to("ASK_HAZARD_TYPE")>>
         [] n = "SUBMIT" -> <<to("SUBMITTED")>>
         [] n = "END" -> << >>
         [] OTHER -> <<to("END")>>

\* The first edge whose guard holds decides.
Target(n, s) ==
    LET open == {i \in DOMAIN Edges(n, s) : Edges(n, s)[i].open}
    IN IF open = {} THEN "none"
       ELSE Edges(n, s)[CHOOSE i \in open : \A j \in open : i <= j].target

\* Where the walk forward from n stops: at a question, at the end of the call,
\* or at SUBMIT, where the report is written first.
Walk(n, s) ==
    LET stop[m \in Nodes] ==
            IF m \in Questions \cup Terminals \cup {"SUBMIT"} THEN m
            ELSE stop[Target(m, s)]
    IN stop[n]

-----------------------------------------------------------------------------
(* Answers. *)

\* The category that the rules for a slot find in a word; "none" is "unclear".
Category(slot, word) ==
    CASE slot = "intent" /\ word \in {"yes", "no"} -> word
      [] slot = "confirmation" /\ word \in {"yes", "no", "restart"} -> word
      [] slot = "hazard" /\ word = "storm" -> "storm"
      [] slot = "hazard" /\ word = "oil" -> "sludge_oil"
      [] slot = "severity" /\ word = "severe" -> "rated"
      [] slot = "depth" /\ word = "knee" -> "measured"
      [] OTHER -> "none"

\* The value that the extractor of node n makes of a word said about a question.
\* Any words at all are a description or a location.
Extracted(n, word, about) ==
    IF SlotOf[n] \in {"description", "location"}
    THEN IF about = n THEN "apt" ELSE "astray"
    ELSE Category(SlotOf[n], word)

\* The attempt at which the prompt of a question has a keypad map: the last
\* rung of its ladder. Before it and after it the prompt has none.
Armed(n, attempt) ==
    \/ n \in {"ASK_INTENT", "ASK_HAZARD_TYPE", "ASK_SEVERITY"} /\ attempt = 2
    \/ n \in {"ASK_DEPTH", "CONFIRM_SUMMARY"} /\ attempt = 1

\* The value of a key at node n.
Mapped(n, attempt, key) ==
    IF ~Armed(n, attempt) THEN "none"
    ELSE CASE n = "ASK_INTENT" -> IF key = "1" THEN "yes" ELSE "no"
           [] n = "ASK_HAZARD_TYPE" -> IF key = "1" THEN "storm" ELSE "sludge_oil"
           [] n = "ASK_SEVERITY" -> "rated"
           [] n = "ASK_DEPTH" -> "measured"
           [] n = "CONFIRM_SUMMARY" -> IF key = "1" THEN "yes" ELSE "restart"

-----------------------------------------------------------------------------
(* One caller turn. A call's dialog is its node, attempt, slots and whether  *)
(* the life-safety flag is set.                                              *)

\* Mutant: an exhausted ladder moves on instead of letting the caller go.
Missed_MovingOn(c) ==
    IF c.attempt + 1 > MaxAttempts
    THEN LET t == Target(c.node, c.slots)
         IN [c EXCEPT !.node = IF t = "none" THEN "TIMEOUT_EXIT" ELSE t, !.attempt = 0]
    ELSE [c EXCEPT !.attempt = c.attempt + 1]

\* Mutant: the ladder has no end.
Missed_Endless(c) == [c EXCEPT !.attempt = IF @ < MaxAttempts THEN @ + 1 ELSE @]

\* One rung up the ladder, or out.
Missed(c) ==
    IF c.attempt + 1 > MaxAttempts
    THEN [c EXCEPT !.node = "TIMEOUT_EXIT", !.attempt = 0]
    ELSE [c EXCEPT !.attempt = c.attempt + 1]

\* The answer fills the slot and the first edge is taken.
Filled(c, value) ==
    LET s == [c.slots EXCEPT ![SlotOf[c.node]] = value]
        t == Target(c.node, s)
    IN IF t = "none" THEN Missed([c EXCEPT !.slots = s])
       ELSE [c EXCEPT !.slots = s, !.node = t, !.attempt = 0]

\* The safety tripwire listens to speech, whatever the question.
Trips(input) == input.kind = "asr" /\ input.word = "hurt"

\* The input is applied to the node that the call is at now, whichever
\* question the caller was answering.
Applied(c, input) ==
    LET value == IF input.kind = "dtmf" THEN Mapped(c.node, c.attempt, input.word)
                 ELSE Extracted(c.node, input.word, input.about)
    IN IF c.node \notin Questions THEN c
       ELSE IF input.kind = "timeout" THEN Missed(c)
       ELSE IF Trips(input)
            THEN [c EXCEPT !.node = "EMERGENCY_REDIRECT", !.attempt = 0, !.danger = TRUE]
       ELSE IF value = "none" THEN Missed(c)
       ELSE Filled(c, value)
=============================================================================
