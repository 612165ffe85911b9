-------------------------- MODULE TurnDriver_proofs --------------------------
(***************************************************************************)
(* Proofs about TurnDriver for any words, keys, attempts, handlers,        *)
(* identifiers and numbers of retries, crashes, faults and expiries.       *)
(***************************************************************************)
EXTENDS TurnDriver, TLAPS

-----------------------------------------------------------------------------
(* The inductive invariant.                                                *)

\* Where only a caller who reports something gets to.
Reporting == (Questions \ {"ASK_INTENT"}) \cup {"RESOLVE_LOCATION", "START_OVER", "SUBMIT"}

\* The answers that a node of the script takes for given.
Answered(n, s) ==
    /\ n \in Reporting => s.intent = "yes"
    /\ n \in Reporting \ {"ASK_HAZARD_TYPE", "START_OVER"} => s.hazard # "none"
    /\ n \in Reporting \ {"ASK_HAZARD_TYPE", "START_OVER", "ASK_DESCRIPTION"}
          => s.description # "none"
    /\ n \in {"CONFIRM_LOCATION_LOW_CONF", "ASK_SEVERITY", "ASK_DEPTH",
                   "CONFIRM_SUMMARY", "SUBMIT"} => s.location # "none"
    /\ n \in {"ASK_DEPTH", "CONFIRM_SUMMARY", "SUBMIT"} => s.severity # "none"
    /\ n \in {"CONFIRM_SUMMARY", "SUBMIT"} /\ s.hazard = "storm"
          => s.depth = "measured"
    /\ n = "SUBMIT" => s.confirmation = "yes"

\* A reference that somebody holds: that of the row, or else what the driver fell back to
\* after a write that raised.
Sound(r) ==
    IF Stored(r.of) THEN reports[r.of].ref = r \/ r.of \in failed \cap Taken
    ELSE r.of \in failed /\ r.bump = 0

SoundCall(c) ==
    /\ c \in CallType /\ c.id \in minted
    /\ Answered(c.dialog.node, c.dialog.slots)
    /\ c.ref # NoRef => Sound(c.ref)
    /\ c.dialog.node = "SUBMITTED" => c.ref # NoRef

StoreIsSound == store = NoCall \/ SoundCall(store)

SoundTask(x) ==
    /\ x.call = NoCall \/ SoundCall(x.call)
    /\ x.pc \in {"lookup", "insert", "save", "reply"} => x.call # NoCall
    /\ x.pc \in {"lookup", "insert"} => x.call.dialog.node = "SUBMIT"
    /\ x.tripped => x.call.dialog.node \notin Questions

TasksAreSound == \A h \in Handlers : SoundTask(task[h])

RowsAreMinted == \A i \in ReportIds : Stored(i) => reports[i].ref = Minted(i)

ListensToQuestions == line.phase = "listening" => line.heard \in Questions

RefsAreSound == \A r \in spoken \cup offered : Sound(r)

IInv ==
    /\ TypeOK
    /\ StoreIsSound /\ TasksAreSound /\ RowsAreMinted
    /\ ListensToQuestions /\ RefsAreSound /\ ReportsAreComplete

-----------------------------------------------------------------------------
(* The call script: what each node's edges lead to.                        *)

\* The first open edge decides, and without one the walk has nowhere to go.
LEMMA FirstEdge ==
  ASSUME NEW n, NEW s, DOMAIN Edges(n, s) \subseteq Nat
  PROVE  /\ \A i \in DOMAIN Edges(n, s) :
              /\ Edges(n, s)[i].open
              /\ \A j \in DOMAIN Edges(n, s) : j < i => ~Edges(n, s)[j].open
              => Target(n, s) = Edges(n, s)[i].target
         /\ (\A i \in DOMAIN Edges(n, s) : ~Edges(n, s)[i].open) => Target(n, s) = "none"
<1> DEFINE e == Edges(n, s)
           open == {i \in DOMAIN e : e[i].open}
           first == CHOOSE i \in open : \A j \in open : i <= j
<1>1. Target(n, s) = IF open = {} THEN "none" ELSE e[first].target
  BY DEF Target
<1> HIDE DEF e
<1>2. ASSUME NEW i \in DOMAIN e, e[i].open, \A j \in DOMAIN e : j < i => ~e[j].open
      PROVE  Target(n, s) = e[i].target
  <2>1. i \in open /\ \A j \in open : i <= j
    BY <1>2 DEF e
  <2>2. \A k \in open : (\A j \in open : k <= j) => k = i
    BY <2>1 DEF e
  <2>3. first = i
    BY <2>1, <2>2
  <2> HIDE DEF first
  <2>. QED
    BY <1>1, <2>1, <2>3
<1>3. ASSUME \A i \in DOMAIN e : ~e[i].open PROVE Target(n, s) = "none"
  BY <1>1, <1>3
<1>. QED
  BY <1>2, <1>3 DEF e

\* Every confidence is 0 or 60 percent.
LEMMA ResolveTarget ==
  ASSUME NEW s \in SlotType
  PROVE  Target("RESOLVE_LOCATION", s)
           = IF s.location = "none" THEN "ASK_LOCATION" ELSE "CONFIRM_LOCATION_LOW_CONF"
<1> DEFINE e == Edges("RESOLVE_LOCATION", s)
           known == LocationConfidence(s) >= 60
<1>1. ~(LocationConfidence(s) >= 85) /\ (known <=> s.location # "none")
  BY DEF LocationConfidence
<1>2. /\ DOMAIN e = {1, 2, 3, 4}
      /\ e[1].open = (LocationConfidence(s) >= 85) /\ e[2].open = FALSE
      /\ e[3].open = known /\ e[3].target = "CONFIRM_LOCATION_LOW_CONF"
      /\ e[4].open = TRUE /\ e[4].target = "ASK_LOCATION"
  BY DEF Edges
<1> HIDE DEF e, known
<1>3. /\ ~e[1].open /\ ~e[2].open
      /\ e[3].open <=> known
      /\ e[4].open
  BY <1>1, <1>2, Zenon
<1>. QED
  BY <1>1, <1>2, <1>3, FirstEdge DEF e

\* The case of at most two edges.
LEMMA TwoEdges ==
  ASSUME NEW n, NEW s, DOMAIN Edges(n, s) \in {{1}, {1, 2}}
  PROVE  Target(n, s) =
           IF Edges(n, s)[1].open THEN Edges(n, s)[1].target
           ELSE IF 2 \in DOMAIN Edges(n, s) /\ Edges(n, s)[2].open THEN Edges(n, s)[2].target
           ELSE "none"
<1> DEFINE e == Edges(n, s)
<1>1. /\ \A i \in DOMAIN e :
           e[i].open /\ (\A j \in DOMAIN e : j < i => ~e[j].open) => Target(n, s) = e[i].target
      /\ (\A i \in DOMAIN e : ~e[i].open) => Target(n, s) = "none"
  BY FirstEdge
<1> HIDE DEF e
<1>2. DOMAIN e \in {{1}, {1, 2}}
  BY DEF e
<1>. QED
  BY <1>1, <1>2 DEF e

\* Every other node of the script.
LEMMA Targets ==
  ASSUME NEW s \in SlotType
  PROVE  /\ Target("START", s) = "CONSENT"
         /\ Target("CONSENT", s) = "ASK_INTENT"
         /\ Target("START_OVER", s) = "ASK_HAZARD_TYPE"
         /\ Target("EMERGENCY_REDIRECT", s) = "END"
         /\ Target("ASK_INTENT", s) = IF s.intent = "yes" THEN "ASK_HAZARD_TYPE"
                                      ELSE IF s.intent = "no" THEN "NOT_REPORTING" ELSE "none"
         /\ Target("ASK_HAZARD_TYPE", s) = IF s.hazard # "none" THEN "ASK_DESCRIPTION" ELSE "none"
         /\ Target("ASK_DESCRIPTION", s) = "ASK_LOCATION"
         /\ Target("ASK_LOCATION", s) = "RESOLVE_LOCATION"
         /\ Target("CONFIRM_LOCATION_LOW_CONF", s)
                = IF s.confirmation = "yes" THEN "ASK_SEVERITY" ELSE "ASK_LOCATION"
         /\ Target("DISAMBIGUATE_LOCATION", s) = "ASK_SEVERITY"
         /\ Target("ASK_SEVERITY", s) = IF s.hazard = "storm" THEN "ASK_DEPTH" ELSE "CONFIRM_SUMMARY"
         /\ Target("ASK_DEPTH", s) = "CONFIRM_SUMMARY"
         /\ Target("CONFIRM_SUMMARY", s) = IF s.confirmation = "yes" THEN "SUBMIT"
                ELSE IF s.confirmation \in {"restart", "no"} THEN "START_OVER" ELSE "none"
<1>1. /\ Target("START", s) = "CONSENT"
      /\ Target("CONSENT", s) = "ASK_INTENT"
      /\ Target("START_OVER", s) = "ASK_HAZARD_TYPE"
      /\ Target("EMERGENCY_REDIRECT", s) = "END"
      /\ Target("ASK_DESCRIPTION", s) = "ASK_LOCATION"
      /\ Target("ASK_LOCATION", s) = "RESOLVE_LOCATION"
      /\ Target("DISAMBIGUATE_LOCATION", s) = "ASK_SEVERITY"
      /\ Target("ASK_DEPTH", s) = "CONFIRM_SUMMARY"
  BY DEF Target, Edges
<1>2. Target("ASK_HAZARD_TYPE", s) = IF s.hazard # "none" THEN "ASK_DESCRIPTION" ELSE "none"
  <2> DEFINE e == Edges("ASK_HAZARD_TYPE", s)
  <2>1. DOMAIN e = {1} /\ e[1].open = (s.hazard # "none") /\ e[1].target = "ASK_DESCRIPTION"
    BY DEF Edges
  <2>2. Target("ASK_HAZARD_TYPE", s) = IF e[1].open THEN e[1].target
          ELSE IF 2 \in DOMAIN e /\ e[2].open THEN e[2].target ELSE "none"
    BY <2>1, TwoEdges
  <2> HIDE DEF e
  <2>. QED
    BY <2>1, <2>2
<1>3. Target("ASK_INTENT", s) = IF s.intent = "yes" THEN "ASK_HAZARD_TYPE"
                                ELSE IF s.intent = "no" THEN "NOT_REPORTING" ELSE "none"
  <2> DEFINE e == Edges("ASK_INTENT", s)
  <2>1. /\ DOMAIN e = {1, 2}
        /\ e[1].open = (s.intent = "yes") /\ e[1].target = "ASK_HAZARD_TYPE"
        /\ e[2].open = (s.intent = "no") /\ e[2].target = "NOT_REPORTING"
    BY DEF Edges
  <2>2. Target("ASK_INTENT", s) = IF e[1].open THEN e[1].target
          ELSE IF 2 \in DOMAIN e /\ e[2].open THEN e[2].target ELSE "none"
    BY <2>1, TwoEdges
  <2> HIDE DEF e
  <2>. QED
    BY <2>1, <2>2
<1>4. Target("CONFIRM_LOCATION_LOW_CONF", s)
        = IF s.confirmation = "yes" THEN "ASK_SEVERITY" ELSE "ASK_LOCATION"
  <2> DEFINE e == Edges("CONFIRM_LOCATION_LOW_CONF", s)
  <2>1. /\ DOMAIN e = {1, 2}
        /\ e[1].open = (s.confirmation = "yes") /\ e[1].target = "ASK_SEVERITY"
        /\ e[2].open = TRUE /\ e[2].target = "ASK_LOCATION"
    BY DEF Edges
  <2>2. Target("CONFIRM_LOCATION_LOW_CONF", s) = IF e[1].open THEN e[1].target
          ELSE IF 2 \in DOMAIN e /\ e[2].open THEN e[2].target ELSE "none"
    BY <2>1, TwoEdges
  <2> HIDE DEF e
  <2>. QED
    BY <2>1, <2>2
<1>5. Target("ASK_SEVERITY", s) = IF s.hazard = "storm" THEN "ASK_DEPTH" ELSE "CONFIRM_SUMMARY"
  <2> DEFINE e == Edges("ASK_SEVERITY", s)
  <2>1. /\ DOMAIN e = {1, 2}
        /\ e[1].open = (s.hazard = "storm") /\ e[1].target = "ASK_DEPTH"
        /\ e[2].open = TRUE /\ e[2].target = "CONFIRM_SUMMARY"
    BY DEF Edges, FloodClass
  <2>2. Target("ASK_SEVERITY", s) = IF e[1].open THEN e[1].target
          ELSE IF 2 \in DOMAIN e /\ e[2].open THEN e[2].target ELSE "none"
    BY <2>1, TwoEdges
  <2> HIDE DEF e
  <2>. QED
    BY <2>1, <2>2
<1>6. Target("CONFIRM_SUMMARY", s) = IF s.confirmation = "yes" THEN "SUBMIT"
        ELSE IF s.confirmation \in {"restart", "no"} THEN "START_OVER" ELSE "none"
  <2> DEFINE e == Edges("CONFIRM_SUMMARY", s)
  <2>1. /\ DOMAIN e = {1, 2}
        /\ e[1].open = (s.confirmation = "yes") /\ e[1].target = "SUBMIT"
        /\ e[2].open = (s.confirmation \in {"restart", "no"}) /\ e[2].target = "START_OVER"
    BY DEF Edges
  <2>2. Target("CONFIRM_SUMMARY", s) = IF e[1].open THEN e[1].target
          ELSE IF 2 \in DOMAIN e /\ e[2].open THEN e[2].target ELSE "none"
    BY <2>1, TwoEdges
  <2> HIDE DEF e
  <2>. QED
    BY <2>1, <2>2
<1>. QED
  BY <1>1, <1>2, <1>3, <1>4, <1>5, <1>6

\* Where the walk forward stops.
LEMMA Walks ==
  ASSUME NEW s \in SlotType, NEW n \in Nodes
  PROVE  Walk(n, s) =
           CASE n \in {"START", "CONSENT"} -> "ASK_INTENT"
             [] n = "START_OVER" -> "ASK_HAZARD_TYPE"
             [] n = "EMERGENCY_REDIRECT" -> "END"
             [] n = "RESOLVE_LOCATION" -> Target("RESOLVE_LOCATION", s)
             [] OTHER -> n
<1> DEFINE Stops == Questions \cup Terminals \cup {"SUBMIT"}
           Eqn(f) == f = [m \in Nodes |-> IF m \in Stops THEN m ELSE f[Target(m, s)]]
           stop == CHOOSE f : Eqn(f)
           w == [m \in Nodes |->
                   CASE m \in {"START", "CONSENT"} -> "ASK_INTENT"
                     [] m = "START_OVER" -> "ASK_HAZARD_TYPE"
                     [] m = "EMERGENCY_REDIRECT" -> "END"
                     [] m = "RESOLVE_LOCATION" -> Target("RESOLVE_LOCATION", s)
                     [] OTHER -> m]
<1>1. Walk(n, s) = stop[n]
  BY DEF Walk
<1>2. Eqn(w)
  <2>1. ASSUME NEW m \in Nodes PROVE w[m] = IF m \in Stops THEN m ELSE w[Target(m, s)]
    <3>1. CASE m \in Stops
      BY <3>1 DEF Nodes, Machines, Notices, Questions, Terminals
    <3>2. CASE m \in {"START", "CONSENT", "START_OVER", "EMERGENCY_REDIRECT"}
      BY <3>2, Targets DEF Nodes, Machines, Notices, Questions, Terminals
    <3>3. CASE m = "RESOLVE_LOCATION"
      BY <3>3, ResolveTarget DEF Nodes, Machines, Notices, Questions, Terminals
    <3>. QED
      BY <3>1, <3>2, <3>3 DEF Nodes, Machines, Notices, Questions, Terminals
  <2>. QED
    BY <2>1
<1> HIDE DEF w
<1>3. Eqn(stop)
  BY <1>2
<1> HIDE DEF stop
<1>4. \A m \in Nodes : stop[m] = IF m \in Stops THEN m ELSE stop[Target(m, s)]
  BY <1>3
<1>5. CASE n \in Stops
  BY <1>1, <1>4, <1>5 DEF Nodes, Machines, Notices, Questions, Terminals
<1>6. CASE n \in {"START", "CONSENT", "START_OVER", "EMERGENCY_REDIRECT"}
  <2>1. stop["CONSENT"] = "ASK_INTENT"
    BY <1>4, Targets DEF Nodes, Machines, Notices, Questions, Terminals
  <2>2. stop["START"] = "ASK_INTENT"
    BY <1>4, <2>1, Targets DEF Nodes, Machines, Notices, Questions, Terminals
  <2>3. stop["START_OVER"] = "ASK_HAZARD_TYPE" /\ stop["EMERGENCY_REDIRECT"] = "END"
    BY <1>4, Targets DEF Nodes, Machines, Notices, Questions, Terminals
  <2>. QED
    BY <1>1, <1>6, <2>1, <2>2, <2>3
<1>7. CASE n = "RESOLVE_LOCATION"
  BY <1>1, <1>4, <1>7, ResolveTarget DEF Nodes, Machines, Notices, Questions, Terminals
<1>. QED
  BY <1>5, <1>6, <1>7 DEF Nodes, Machines, Notices, Questions, Terminals

-----------------------------------------------------------------------------
(* One turn on a dialog.                                                   *)

\* The answers to a question that fill its slot.
Answers(n) ==
    CASE n = "ASK_INTENT" -> {"yes", "no"}
      [] n = "ASK_HAZARD_TYPE" -> {"storm", "sludge_oil"}
      [] n \in {"ASK_DESCRIPTION", "ASK_LOCATION", "DISAMBIGUATE_LOCATION"} -> {"apt", "astray"}
      [] n = "ASK_SEVERITY" -> {"rated"}
      [] n = "ASK_DEPTH" -> {"measured"}
      [] n \in {"CONFIRM_LOCATION_LOW_CONF", "CONFIRM_SUMMARY"} -> {"yes", "no", "restart"}

\* The slot that each question fills.
LEMMA SlotsOfQuestions ==
  /\ SlotOf["ASK_INTENT"] = "intent" /\ SlotOf["ASK_HAZARD_TYPE"] = "hazard"
  /\ SlotOf["ASK_DESCRIPTION"] = "description"
  /\ SlotOf["ASK_LOCATION"] = "location" /\ SlotOf["DISAMBIGUATE_LOCATION"] = "location"
  /\ SlotOf["ASK_SEVERITY"] = "severity" /\ SlotOf["ASK_DEPTH"] = "depth"
  /\ SlotOf["CONFIRM_LOCATION_LOW_CONF"] = "confirmation" /\ SlotOf["CONFIRM_SUMMARY"] = "confirmation"
  BY DEF SlotOf, Questions

\* An extractor and a keypad map answer the question or not at all.
LEMMA ValuesAnswer ==
  ASSUME NEW n \in Questions, NEW word, NEW about, NEW attempt
  PROVE  /\ Extracted(n, word, about) \in Answers(n) \cup {"none"}
         /\ Mapped(n, attempt, word) \in Answers(n) \cup {"none"}
<1>1. Extracted(n, word, about) \in Answers(n) \cup {"none"}
  BY SlotsOfQuestions DEF Extracted, Category, Answers, Questions
<1>2. Mapped(n, attempt, word) \in Answers(n) \cup {"none"}
  BY DEF Mapped, Armed, Answers, Questions
<1>. QED
  BY <1>1, <1>2

\* A missed turn asks again or lets the caller go.
LEMMA MissedIsSound ==
  ASSUME NEW d \in Dialog, Answered(d.node, d.slots), d.node \in Questions
  PROVE  /\ Missed(d) \in Dialog /\ Answered(Missed(d).node, Missed(d).slots)
         /\ Missed(d).node \in {d.node, "TIMEOUT_EXIT"}
<1>1. "TIMEOUT_EXIT" \in Nodes /\ "TIMEOUT_EXIT" \notin Reporting /\ 0 \in 0 .. MaxAttempts
  BY MaxAttemptsAssumption DEF Nodes, Terminals, Reporting, Questions
<1>2. d.attempt \in 0 .. MaxAttempts
  BY DEF Dialog
<1>3. CASE d.attempt + 1 > MaxAttempts
  BY <1>1, <1>3 DEF Missed, Dialog, Answered
<1>4. CASE ~(d.attempt + 1 > MaxAttempts)
  <2>1. d.attempt + 1 \in 0 .. MaxAttempts
    BY <1>2, <1>4, MaxAttemptsAssumption
  <2>. QED
    BY <1>4, <2>1 DEF Missed, Dialog, Answered
<1>. QED
  BY <1>3, <1>4

\* An answer is the last that the next node takes for given.
LEMMA FilledIsSound ==
  ASSUME NEW d \in Dialog, Answered(d.node, d.slots), d.node \in Questions, NEW v \in Answers(d.node)
  PROVE  /\ Filled(d, v) \in Dialog /\ Filled(d, v).node # "SUBMITTED"
         /\ Answered(Filled(d, v).node, Filled(d, v).slots)
<1> DEFINE s == [d.slots EXCEPT ![SlotOf[d.node]] = v]
           t == Target(d.node, s)
           Goal == s \in SlotType /\ t \in Nodes \ {"none", "SUBMITTED"} /\ Answered(t, s)
<1>. d.slots \in SlotType
  BY DEF Dialog
<1>1. ASSUME d.node = "ASK_INTENT" PROVE Goal
  <2>1. s = [d.slots EXCEPT !.intent = v] /\ v \in {"yes", "no"}
    BY <1>1, SlotsOfQuestions DEF Answers
  <2>2. s \in SlotType
    BY <2>1 DEF SlotType
  <2>3. t = IF v = "yes" THEN "ASK_HAZARD_TYPE" ELSE "NOT_REPORTING"
    BY <1>1, <2>1, <2>2, Targets DEF SlotType
  <2> HIDE DEF t
  <2>. QED
    BY <1>1, <2>1, <2>2, <2>3 DEF Answered, Reporting, SlotType, Nodes, Machines, Notices, Questions, Terminals
<1>2. ASSUME d.node = "ASK_HAZARD_TYPE" PROVE Goal
  <2>1. s = [d.slots EXCEPT !.hazard = v] /\ v \in {"storm", "sludge_oil"}
    BY <1>2, SlotsOfQuestions DEF Answers
  <2>2. s \in SlotType
    BY <2>1 DEF SlotType
  <2>3. t = "ASK_DESCRIPTION"
    BY <1>2, <2>1, <2>2, Targets DEF SlotType
  <2> HIDE DEF t
  <2>. QED
    BY <1>2, <2>1, <2>2, <2>3 DEF Answered, Reporting, SlotType, Nodes, Machines, Notices, Questions, Terminals
<1>3. ASSUME d.node = "ASK_DESCRIPTION" PROVE Goal
  <2>1. s = [d.slots EXCEPT !.description = v] /\ v \in {"apt", "astray"}
    BY <1>3, SlotsOfQuestions DEF Answers
  <2>2. s \in SlotType
    BY <2>1 DEF SlotType
  <2>3. t = "ASK_LOCATION"
    BY <1>3, <2>1, <2>2, Targets DEF SlotType
  <2> HIDE DEF t
  <2>. QED
    BY <1>3, <2>1, <2>2, <2>3 DEF Answered, Reporting, SlotType, Nodes, Machines, Notices, Questions, Terminals
<1>4. ASSUME d.node = "ASK_LOCATION" PROVE Goal
  <2>1. s = [d.slots EXCEPT !.location = v] /\ v \in {"apt", "astray"}
    BY <1>4, SlotsOfQuestions DEF Answers
  <2>2. s \in SlotType
    BY <2>1 DEF SlotType
  <2>3. t = "RESOLVE_LOCATION"
    BY <1>4, <2>1, <2>2, Targets DEF SlotType
  <2> HIDE DEF t
  <2>. QED
    BY <1>4, <2>1, <2>2, <2>3 DEF Answered, Reporting, SlotType, Nodes, Machines, Notices, Questions, Terminals
<1>5. ASSUME d.node = "DISAMBIGUATE_LOCATION" PROVE Goal
  <2>1. s = [d.slots EXCEPT !.location = v] /\ v \in {"apt", "astray"}
    BY <1>5, SlotsOfQuestions DEF Answers
  <2>2. s \in SlotType
    BY <2>1 DEF SlotType
  <2>3. t = "ASK_SEVERITY"
    BY <1>5, <2>1, <2>2, Targets DEF SlotType
  <2> HIDE DEF t
  <2>. QED
    BY <1>5, <2>1, <2>2, <2>3 DEF Answered, Reporting, SlotType, Nodes, Machines, Notices, Questions, Terminals
<1>6. ASSUME d.node = "CONFIRM_LOCATION_LOW_CONF" PROVE Goal
  <2>1. s = [d.slots EXCEPT !.confirmation = v] /\ v \in {"yes", "no", "restart"}
    BY <1>6, SlotsOfQuestions DEF Answers
  <2>2. s \in SlotType
    BY <2>1 DEF SlotType
  <2>3. t = IF v = "yes" THEN "ASK_SEVERITY" ELSE "ASK_LOCATION"
    BY <1>6, <2>1, <2>2, Targets DEF SlotType
  <2> HIDE DEF t
  <2>. QED
    BY <1>6, <2>1, <2>2, <2>3 DEF Answered, Reporting, SlotType, Nodes, Machines, Notices, Questions, Terminals
<1>7. ASSUME d.node = "ASK_SEVERITY" PROVE Goal
  <2>1. s = [d.slots EXCEPT !.severity = v] /\ v \in {"rated"}
    BY <1>7, SlotsOfQuestions DEF Answers
  <2>2. s \in SlotType
    BY <2>1 DEF SlotType
  <2>3. t = IF s.hazard = "storm" THEN "ASK_DEPTH" ELSE "CONFIRM_SUMMARY"
    BY <1>7, <2>1, <2>2, Targets DEF SlotType
  <2> HIDE DEF t
  <2>. QED
    BY <1>7, <2>1, <2>2, <2>3 DEF Answered, Reporting, SlotType, Nodes, Machines, Notices, Questions, Terminals
<1>8. ASSUME d.node = "ASK_DEPTH" PROVE Goal
  <2>1. s = [d.slots EXCEPT !.depth = v] /\ v \in {"measured"}
    BY <1>8, SlotsOfQuestions DEF Answers
  <2>2. s \in SlotType
    BY <2>1 DEF SlotType
  <2>3. t = "CONFIRM_SUMMARY"
    BY <1>8, <2>1, <2>2, Targets DEF SlotType
  <2> HIDE DEF t
  <2>. QED
    BY <1>8, <2>1, <2>2, <2>3 DEF Answered, Reporting, SlotType, Nodes, Machines, Notices, Questions, Terminals
<1>9. ASSUME d.node = "CONFIRM_SUMMARY" PROVE Goal
  <2>1. s = [d.slots EXCEPT !.confirmation = v] /\ v \in {"yes", "no", "restart"}
    BY <1>9, SlotsOfQuestions DEF Answers
  <2>2. s \in SlotType
    BY <2>1 DEF SlotType
  <2>3. t = IF v = "yes" THEN "SUBMIT" ELSE "START_OVER"
    BY <1>9, <2>1, <2>2, Targets DEF SlotType
  <2> HIDE DEF t
  <2>. QED
    BY <1>9, <2>1, <2>2, <2>3 DEF Answered, Reporting, SlotType, Nodes, Machines, Notices, Questions, Terminals
<1>10. Goal
  BY <1>1, <1>2, <1>3, <1>4, <1>5, <1>6, <1>7, <1>8, <1>9 DEF Questions
<1>11. Filled(d, v) = [d EXCEPT !.slots = s, !.node = t, !.attempt = 0]
  BY <1>10 DEF Filled
<1> HIDE DEF s, t
<1>12. 0 \in 0 .. MaxAttempts
  BY MaxAttemptsAssumption
<1>. QED
  BY <1>10, <1>11, <1>12 DEF Dialog

\* A caller turn keeps to the order of the script, and none leads to SUBMITTED.
LEMMA AppliedIsSound ==
  ASSUME NEW d \in Dialog, Answered(d.node, d.slots), NEW input
  PROVE  /\ Applied(d, input) \in Dialog
         /\ Answered(Applied(d, input).node, Applied(d, input).slots)
         /\ Applied(d, input).node = "SUBMITTED" => d.node = "SUBMITTED"
<1> DEFINE value == IF input.kind = "dtmf" THEN Mapped(d.node, d.attempt, input.word)
                    ELSE Extracted(d.node, input.word, input.about)
<1>1. CASE d.node \notin Questions
  BY <1>1 DEF Applied
<1>2. CASE d.node \in Questions
  <2>1. value \in Answers(d.node) \cup {"none"}
    BY <1>2, ValuesAnswer
  <2>2. CASE input.kind = "timeout"
    BY <1>2, <2>2, MissedIsSound DEF Applied, Questions
  <2>3. CASE input.kind # "timeout" /\ Trips(input)
    <3>1. Applied(d, input) = [d EXCEPT !.node = "EMERGENCY_REDIRECT", !.attempt = 0, !.danger = TRUE]
      BY <1>2, <2>3 DEF Applied
    <3>2. "EMERGENCY_REDIRECT" \in Nodes \ Reporting /\ 0 \in 0 .. MaxAttempts
      BY MaxAttemptsAssumption DEF Nodes, Notices, Reporting, Questions
    <3>. QED
      BY <3>1, <3>2 DEF Dialog, Answered
  <2>4. CASE input.kind # "timeout" /\ ~Trips(input)
    <3>1. Applied(d, input) = IF value = "none" THEN Missed(d) ELSE Filled(d, value)
      BY <1>2, <2>4 DEF Applied
    <3> HIDE DEF value
    <3>2. CASE value = "none"
      BY <1>2, <3>1, <3>2, MissedIsSound DEF Questions
    <3>3. CASE value # "none"
      BY <1>2, <2>1, <3>1, <3>3, FilledIsSound
    <3>. QED
      BY <3>2, <3>3
  <2>. QED
    BY <2>2, <2>3, <2>4
<1>. QED
  BY <1>1, <1>2

\* The walk forward asks for nothing that is not answered.
LEMMA SettledIsSound ==
  ASSUME NEW d \in Dialog, Answered(d.node, d.slots), NEW call \in CallType \cup {NoCall}
  PROVE  LET settled == Settled(call, d)
         IN /\ settled.dialog \in Dialog
            /\ call \in CallType => settled \in CallType
            /\ settled.id = call.id /\ settled.ref = call.ref
            /\ Answered(settled.dialog.node, settled.dialog.slots)
            /\ settled.dialog.node = "SUBMIT" => call.ref = NoRef
            /\ settled.dialog.node = "SUBMITTED" => d.node = "SUBMITTED" \/ call.ref # NoRef
            /\ d.node = "EMERGENCY_REDIRECT" => settled.dialog.node = "END"
<1> DEFINE n == Walk(d.node, d.slots)
           m == IF n = "SUBMIT" /\ call.ref # NoRef THEN "SUBMITTED" ELSE n
<1>1. d.node \in Nodes /\ d.slots \in SlotType
  BY DEF Dialog
<1>2. /\ n \in Nodes /\ Answered(n, d.slots)
      /\ n = "SUBMITTED" => d.node = "SUBMITTED"
      /\ d.node = "EMERGENCY_REDIRECT" => n = "END"
  <2>1. CASE d.node \in {"START", "CONSENT"}
    BY <1>1, <2>1, Walks DEF Answered, Reporting, Nodes, Questions
  <2>2. CASE d.node = "START_OVER"
    BY <1>1, <2>2, Walks DEF Answered, Reporting, Nodes, Questions
  <2>3. CASE d.node = "EMERGENCY_REDIRECT"
    BY <1>1, <2>3, Walks DEF Answered, Reporting, Nodes, Questions, Terminals
  <2>4. CASE d.node = "RESOLVE_LOCATION"
    BY <1>1, <2>4, Walks, ResolveTarget DEF Answered, Reporting, Nodes, Questions
  <2>5. CASE d.node \notin {"START", "CONSENT", "START_OVER", "EMERGENCY_REDIRECT", "RESOLVE_LOCATION"}
    BY <1>1, <2>5, Walks
  <2>. QED
    BY <2>1, <2>2, <2>3, <2>4, <2>5
<1>3. m \in Nodes /\ Answered(m, d.slots)
  BY <1>2 DEF Answered, Reporting, Nodes, Questions, Terminals
<1> HIDE DEF n
<1>4. Settled(call, d) = [call EXCEPT !.dialog = [d EXCEPT !.node = m]]
  BY DEF Settled, n
<1>5. m = "SUBMIT" => call.ref = NoRef
  OBVIOUS
<1>6. m = "SUBMITTED" => d.node = "SUBMITTED" \/ call.ref # NoRef
  BY <1>2
<1>7. d.node = "EMERGENCY_REDIRECT" => m = "END"
  BY <1>2
<1> HIDE DEF m
<1>8. [d EXCEPT !.node = m] \in Dialog /\ [d EXCEPT !.node = m].node = m /\ [d EXCEPT !.node = m].slots = d.slots
  BY <1>3 DEF Dialog
<1>9. /\ Settled(call, d).dialog = [d EXCEPT !.node = m]
      /\ Settled(call, d).id = call.id /\ Settled(call, d).ref = call.ref
      /\ call \in CallType => Settled(call, d) \in CallType
  BY <1>4, <1>8 DEF CallType, NoCall
<1>. QED
  BY <1>3, <1>4, <1>5, <1>6, <1>7, <1>8, <1>9

-----------------------------------------------------------------------------
(* What a step leaves standing.                                            *)

\* References that were sound are sound after the step.
Keeps ==
    /\ \A r \in Refs : Sound(r) => Sound(r)'
    /\ minted \subseteq minted' /\ minted' \subseteq ReportIds

\* A step that adds no row keeps the references that were given out sound.
LEMMA SameTables ==
  ASSUME TypeOK, UNCHANGED reports, failed \subseteq failed',
         minted \subseteq minted', minted' \subseteq ReportIds
  PROVE  Keeps
  BY DEF Keeps, Sound, Stored

\* NoCall is no call, NoRef no reference, and a reference is its identifier and suffix.
LEMMA NoCallIsNone ==
  /\ \A c \in CallType : c # NoCall /\ c.id \in ReportIds
  /\ NoRef \notin Refs
  /\ \A r \in Refs : r.of \in ReportIds /\ r.bump \in {0, 1} /\ r = Ref(r.of, r.bump)
<1>1. \A c \in CallType : c.id \in ReportIds
  BY DEF CallType
<1>2. NoCall.id \notin ReportIds /\ NoRef.of \notin ReportIds
  BY NoIdAssumption DEF NoCall, NoRef, Ref
<1>3. \A r \in Refs : r.of \in ReportIds /\ r.bump \in {0, 1} /\ r = Ref(r.of, r.bump)
  BY DEF Refs, Ref
<1>. QED
  BY <1>1, <1>2, <1>3

\* What is minted for an identifier is a reference to it, without a suffix unless taken.
LEMMA MintedIsRef ==
  ASSUME NEW i \in ReportIds
  PROVE  /\ Minted(i) \in Refs /\ Minted(i).of = i
         /\ i \notin Taken => Minted(i) = Ref(i, 0)
  BY DEF Minted, Refs, Ref

\* A copy of a call stays sound as long as references do.
LEMMA CallsStaySound ==
  ASSUME Keeps, NEW c, SoundCall(c)
  PROVE  /\ c \in CallType /\ c.id \in minted'
         /\ Answered(c.dialog.node, c.dialog.slots)
         /\ c.ref # NoRef => Sound(c.ref)'
         /\ c.dialog.node = "SUBMITTED" => c.ref # NoRef
  BY DEF Keeps, SoundCall, CallType

\* So does the copy in Redis.
LEMMA StoreStays == ASSUME IInv, Keeps, UNCHANGED store PROVE StoreIsSound'
  BY CallsStaySound DEF IInv, StoreIsSound, SoundCall

\* So do the references that were spoken or offered.
LEMMA RefsStay == ASSUME IInv, Keeps, UNCHANGED <<spoken, offered>> PROVE RefsAreSound'
  BY DEF IInv, TypeOK, Keeps, RefsAreSound

\* Rows that nobody writes stay as they are.
LEMMA RowsStay == ASSUME IInv, UNCHANGED reports PROVE RowsAreMinted' /\ ReportsAreComplete'
  BY DEF IInv, RowsAreMinted, ReportsAreComplete, Stored

\* A fault, a crash or an expiry is taken from its budget.
LEMMA SpendStep ==
  ASSUME TypeOK
  PROVE  /\ used.faults < MaxFaults /\ Spend("faults") => used' \in Budget
         /\ used.crashes < MaxCrashes /\ Spend("crashes") => used' \in Budget
         /\ used.expiries < MaxExpiries /\ Spend("expiries") => used' \in Budget
<1>1. used \in Budget
  BY DEF TypeOK
<1>2. /\ Spend("faults") => used' = [used EXCEPT !.faults = used.faults + 1]
      /\ Spend("crashes") => used' = [used EXCEPT !.crashes = used.crashes + 1]
      /\ Spend("expiries") => used' = [used EXCEPT !.expiries = used.expiries + 1]
  BY DEF Spend
<1>. QED
  BY <1>1, <1>2, BoundsAssumption DEF Budget

\* The copies of handlers stay sound where no handler moves.
LEMMA TasksStay == ASSUME IInv, Keeps, UNCHANGED task PROVE TasksAreSound'
<1>1. ASSUME NEW h \in Handlers PROVE SoundTask(task[h])'
  BY CallsStaySound DEF IInv, TasksAreSound, SoundTask, SoundCall
<1>. QED
  BY <1>1 DEF TasksAreSound

\* The task of one handler is replaced.
LEMMA TaskStep ==
  ASSUME IInv, Keeps, NEW h \in Handlers, NEW x \in TaskType, task' = [task EXCEPT ![h] = x],
         x.call # NoCall => /\ x.call.id \in minted'
                            /\ Answered(x.call.dialog.node, x.call.dialog.slots)
                            /\ x.call.ref # NoRef => Sound(x.call.ref)'
                            /\ x.call.dialog.node = "SUBMITTED" => x.call.ref # NoRef,
         x.pc \in {"lookup", "insert", "save", "reply"} => x.call # NoCall,
         x.pc \in {"lookup", "insert"} => x.call.dialog.node = "SUBMIT",
         x.tripped => x.call.dialog.node \notin Questions
  PROVE  task' \in [Handlers -> TaskType] /\ TasksAreSound'
<1>1. task \in [Handlers -> TaskType]
  BY DEF IInv, TypeOK
<1>2. ASSUME NEW g \in Handlers PROVE SoundTask(task[g])'
  <2>1. CASE g = h
    <3>1. task'[g] = x
      BY <1>1, <2>1
    <3>2. x.call # NoCall => x.call \in CallType
      BY DEF TaskType
    <3>. QED
      BY <3>1, <3>2 DEF SoundTask, SoundCall
  <2>2. CASE g # h
    <3>1. task'[g] = task[g]
      BY <1>1, <2>2
    <3>. QED
      BY <3>1, CallsStaySound DEF IInv, TasksAreSound, SoundTask, SoundCall
  <2>. QED
    BY <2>1, <2>2
<1>. QED
  BY <1>1, <1>2 DEF TasksAreSound

-----------------------------------------------------------------------------
(* One lemma per action.                                                   *)

\* A post begins a request without a copy.
LEMMA PostStep ==
  ASSUME IInv, NEW h \in Handlers, NEW input \in InputType, Post(h, input), used' \in Budget
  PROVE  IInv'
<1>1. Keeps
  BY SameTables DEF IInv, TypeOK, Post
<1>2. PICK x : x = [Idle EXCEPT !.pc = "load", !.input = input]
  OBVIOUS
<1>3. /\ x = [pc |-> "load", input |-> input, call |-> NoCall, tripped |-> FALSE]
      /\ x \in TaskType
  BY <1>2 DEF Idle, TaskType
<1>4. task' \in [Handlers -> TaskType] /\ TasksAreSound'
  BY <1>1, <1>2, <1>3, TaskStep DEF Post
<1>5. TypeOK' /\ ListensToQuestions'
  BY <1>4 DEF Post, IInv, TypeOK, LineType, ListensToQuestions
<1>. QED
  BY <1>1, <1>4, <1>5, StoreStays, RefsStay, RowsStay DEF Post, IInv

\* Twilio rings, posts words or silence, or posts again.
LEMMA LineStep ==
  ASSUME IInv, NEW h \in Handlers, Ring(h) \/ Speak(h) \/ StaySilent(h) \/ Retry(h)
  PROVE  IInv'
<1>1. used \in Budget /\ line.request \in InputType /\ line \in LineType
  BY DEF IInv, TypeOK, LineType
<1>2. CASE Ring(h)
  <2>1. Start \in InputType
    BY DEF Start, Input, InputType
  <2>. QED
    BY <1>1, <1>2, <2>1, PostStep DEF Ring
<1>3. CASE Speak(h) \/ StaySilent(h)
  <2>1. line.heard \in Questions
    BY <1>3 DEF Speak, StaySilent, IInv, ListensToQuestions
  <2>2. /\ \A w \in Vocabulary : Input("asr", w, line.heard) \in InputType
        /\ \A k \in Keys : Input("dtmf", k, line.heard) \in InputType
        /\ Input("timeout", "none", line.heard) \in InputType
    BY <2>1, VocabularyAssumption DEF Input, InputType
  <2>. QED
    BY <1>1, <1>3, <2>2, PostStep DEF Speak, StaySilent
<1>4. CASE Retry(h)
  <2>1. used' \in Budget
    BY <1>1, <1>4, BoundsAssumption DEF Retry, Budget
  <2>. QED
    BY <1>1, <1>4, <2>1, PostStep DEF Retry
<1>. QED
  BY <1>2, <1>3, <1>4

\* The caller hangs up.
LEMMA HangUpStep == ASSUME IInv, HangUp PROVE IInv'
<1>1. Keeps
  BY SameTables DEF IInv, TypeOK, HangUp
<1>2. TypeOK' /\ ListensToQuestions'
  BY DEF HangUp, IInv, TypeOK, LineType, ListensToQuestions, Start, Input, InputType
<1>. QED
  BY <1>1, <1>2, TasksStay, StoreStays, RefsStay, RowsStay DEF HangUp, IInv

\* The first webhook makes a call of its own.
LEMMA StartCallStep == ASSUME IInv, NEW h \in Handlers, StartCall(h) PROVE IInv'
<1>1. Keeps
  BY SameTables DEF IInv, TypeOK, StartCall
<1>2. PICK i \in ReportIds \ minted :
        /\ minted' = minted \cup {i}
        /\ GoOn(h, "save", Settled([NoCall EXCEPT !.id = i], NoCall.dialog), FALSE)
  BY DEF StartCall
<1> DEFINE drawn == [NoCall EXCEPT !.id = i]
<1>3. /\ drawn \in CallType /\ drawn.ref = NoRef /\ drawn.id = i /\ NoCall.dialog \in Dialog
      /\ Answered(NoCall.dialog.node, NoCall.dialog.slots) /\ NoCall.dialog.node # "SUBMITTED"
  <2>1. NoCall.dialog = [node |-> "START", attempt |-> 0, slots |-> NoSlots, danger |-> FALSE]
    BY DEF NoCall
  <2>2. NoSlots \in SlotType /\ 0 \in 0 .. MaxAttempts /\ "START" \in Nodes \ Reporting
    BY MaxAttemptsAssumption DEF NoSlots, SlotType, Nodes, Machines, Reporting, Questions
  <2>3. NoCall.dialog \in Dialog /\ Answered(NoCall.dialog.node, NoCall.dialog.slots)
    BY <2>1, <2>2 DEF Dialog, Answered
  <2>4. drawn = [id |-> i, ref |-> NoRef, dialog |-> NoCall.dialog]
    <3>1. NoCall = [id |-> NoId, ref |-> NoRef, dialog |-> NoCall.dialog]
      BY DEF NoCall
    <3>. QED
      BY <3>1
  <2>. QED
    BY <2>1, <2>3, <2>4 DEF CallType
<1> HIDE DEF drawn
<1>4. PICK c : c = Settled(drawn, NoCall.dialog)
  OBVIOUS
<1>5. /\ c \in CallType /\ c.id = i /\ c.ref = NoRef
      /\ Answered(c.dialog.node, c.dialog.slots) /\ c.dialog.node # "SUBMITTED"
  BY <1>3, <1>4, SettledIsSound DEF CallType
<1>6. PICK x : x = [pc |-> "save", input |-> Start, call |-> c, tripped |-> FALSE]
  OBVIOUS
<1>7. x \in TaskType /\ task' = [task EXCEPT ![h] = x]
  BY <1>2, <1>4, <1>5, <1>6 DEF TaskType, InputType, Start, Input, GoOn, drawn
<1>8. task' \in [Handlers -> TaskType] /\ TasksAreSound'
  BY <1>1, <1>2, <1>5, <1>6, <1>7, NoCallIsNone, TaskStep
<1>9. TypeOK' /\ ListensToQuestions'
  BY <1>2, <1>8 DEF StartCall, IInv, TypeOK, ListensToQuestions
<1>. QED
  BY <1>1, <1>8, <1>9, StoreStays, RefsStay, RowsStay DEF StartCall, IInv

\* A handler loads the call, applies the turn and walks on.
LEMMA StepStep == ASSUME IInv, NEW h \in Handlers, Step(h) PROVE IInv'
<1>1. Keeps
  BY SameTables DEF IInv, TypeOK, Step
<1>2. store \in CallType /\ SoundCall(store) /\ store.dialog \in Dialog
  BY DEF IInv, TypeOK, StoreIsSound, Step, CallType
<1>3. PICK d : d = Applied(store.dialog, task[h].input)
  OBVIOUS
<1>4. /\ d \in Dialog /\ Answered(d.node, d.slots)
      /\ d.node = "SUBMITTED" => store.ref # NoRef
  BY <1>2, <1>3, AppliedIsSound DEF SoundCall
<1>5. PICK c : c = Settled(store, d)
  OBVIOUS
<1>6. /\ c \in CallType /\ c.id = store.id /\ c.ref = store.ref
      /\ Answered(c.dialog.node, c.dialog.slots)
      /\ c.dialog.node = "SUBMITTED" => c.ref # NoRef
      /\ d.node = "EMERGENCY_REDIRECT" => c.dialog.node \notin Questions
  BY <1>2, <1>4, <1>5, SettledIsSound DEF CallType, Questions
<1>7. PICK x : x = [pc |-> IF c.dialog.node = "SUBMIT" THEN "lookup" ELSE "save",
                    input |-> Start, call |-> c, tripped |-> d.node = "EMERGENCY_REDIRECT"]
  OBVIOUS
<1>8. x \in TaskType /\ task' = [task EXCEPT ![h] = x]
  BY <1>3, <1>5, <1>6, <1>7 DEF Step, TaskType, InputType, Start, Input, GoOn
<1>9. c.ref # NoRef => Sound(c.ref)'
  BY <1>1, <1>2, <1>6, CallsStaySound
<1>10. task' \in [Handlers -> TaskType] /\ TasksAreSound'
  <2>1. c.id \in minted' /\ c # NoCall
    BY <1>1, <1>2, <1>6, CallsStaySound, NoCallIsNone
  <2>2. x.tripped => c.dialog.node \notin Questions
    BY <1>6, <1>7
  <2>. QED
    BY <1>1, <1>6, <1>7, <1>8, <1>9, <2>1, <2>2, TaskStep
<1>11. TypeOK' /\ ListensToQuestions'
  BY <1>10 DEF Step, IInv, TypeOK, ListensToQuestions
<1>. QED
  BY <1>1, <1>10, <1>11, StoreStays, RefsStay, RowsStay DEF Step, IInv

\* The call is dropped: an apology is all that is left.
LEMMA ApologyStep ==
  ASSUME IInv, NEW h \in Handlers, StepMissing(h) \/ RedisFails(h)
  PROVE  IInv'
<1>1. Keeps
  BY SameTables DEF IInv, TypeOK, StepMissing, RedisFails
<1>2. PICK x : x = [pc |-> "apologise", input |-> Start, call |-> NoCall, tripped |-> FALSE]
  OBVIOUS
<1>3. x \in TaskType /\ task' = [task EXCEPT ![h] = x]
  BY <1>2 DEF StepMissing, RedisFails, TaskType, InputType, Start, Input, GoOn
<1>4. task' \in [Handlers -> TaskType] /\ TasksAreSound'
  BY <1>1, <1>2, <1>3, TaskStep
<1>5. used' \in Budget
  BY SpendStep DEF StepMissing, RedisFails, IInv, TypeOK
<1>6. TypeOK' /\ ListensToQuestions'
  BY <1>4, <1>5 DEF StepMissing, RedisFails, IInv, TypeOK, ListensToQuestions
<1>. QED
  BY <1>1, <1>4, <1>6, StoreStays, RefsStay, RowsStay DEF StepMissing, RedisFails, IInv

\* The report row is there, or the driver falls back to the plain code: a reference comes
\* with the call to its last node.
LEMMA ReferencedStep ==
  ASSUME IInv, Keeps, NEW h \in Handlers, task[h].pc \in {"lookup", "insert"},
         NEW r \in Refs, Sound(r)',
         GoOn(h, "save", Referenced(task[h].call, r), task[h].tripped)
  PROVE  task' \in [Handlers -> TaskType] /\ TasksAreSound'
<1>1. /\ task[h] \in TaskType /\ SoundTask(task[h])
      /\ task[h].call \in CallType /\ SoundCall(task[h].call)
  BY DEF IInv, TypeOK, TasksAreSound, SoundTask, SoundCall
<1>2. PICK c : c = Referenced(task[h].call, r)
  OBVIOUS
<1>3. /\ c = [task[h].call EXCEPT !.ref = r, !.dialog = [task[h].call.dialog EXCEPT !.node = "SUBMITTED"]]
      /\ "SUBMITTED" \in Nodes \ (Reporting \cup Questions)
  BY <1>1, <1>2 DEF Referenced, CallType, Nodes, Terminals, Reporting, Questions
<1>4. c \in CallType /\ c.ref = r /\ c.id = task[h].call.id /\ c.dialog.node = "SUBMITTED"
  BY <1>1, <1>3 DEF CallType, Dialog
<1>5. Answered(c.dialog.node, c.dialog.slots)
  BY <1>3, <1>4 DEF Answered
<1>6. c.id \in minted' /\ c # NoCall /\ r # NoRef
  BY <1>1, <1>4, CallsStaySound, NoCallIsNone
<1>7. PICK x : x = [pc |-> "save", input |-> Start, call |-> c, tripped |-> task[h].tripped]
  OBVIOUS
<1>8. x \in TaskType /\ task' = [task EXCEPT ![h] = x]
  BY <1>1, <1>2, <1>4, <1>7 DEF GoOn, TaskType, InputType, Start, Input
<1>9. c.dialog.node \notin Questions
  BY <1>3, <1>4
<1>. QED
  BY <1>4, <1>5, <1>6, <1>7, <1>8, <1>9, TaskStep

\* The sink finds a row of the call, or goes on to the insert.
LEMMA LookupStep == ASSUME IInv, NEW h \in Handlers, Lookup(h) PROVE IInv'
<1>1. Keeps
  BY SameTables DEF IInv, TypeOK, Lookup
<1>2. /\ task[h].pc = "lookup" /\ task[h] \in TaskType /\ SoundTask(task[h])
      /\ task[h].call \in CallType /\ SoundCall(task[h].call) /\ task[h].call.id \in ReportIds
  BY NoCallIsNone DEF Lookup, IInv, TypeOK, TasksAreSound, SoundTask, SoundCall
<1>3. task' \in [Handlers -> TaskType] /\ TasksAreSound'
  <2>0. PICK i \in ReportIds : i = task[h].call.id
    BY <1>2
  <2>1. CASE Stored(i)
    <3>1. PICK r : r = reports[i].ref
      OBVIOUS
    <3>2. r \in Refs /\ r.of = i
      BY <2>1, <3>1, MintedIsRef DEF IInv, RowsAreMinted
    <3>3. Sound(r)
      BY <2>1, <3>1, <3>2 DEF Sound
    <3>4. Sound(r)'
      BY <1>1, <3>2, <3>3 DEF Keeps
    <3>5. GoOn(h, "save", Referenced(task[h].call, r), task[h].tripped)
      BY <2>0, <2>1, <3>1 DEF Lookup
    <3>. QED
      BY <1>1, <1>2, <3>2, <3>4, <3>5, ReferencedStep
  <2>2. CASE ~Stored(i)
    <3>1. PICK x : x = [pc |-> "insert", input |-> Start, call |-> task[h].call, tripped |-> task[h].tripped]
      OBVIOUS
    <3>2. x \in TaskType /\ task' = [task EXCEPT ![h] = x]
      BY <1>2, <2>0, <2>2, <3>1 DEF Lookup, GoOn, TaskType, InputType, Start, Input
    <3>3. /\ x.call = task[h].call /\ x.call # NoCall /\ x.tripped = task[h].tripped
          /\ x.call.dialog.node = "SUBMIT"
      BY <1>2, <3>1 DEF SoundTask
    <3>. QED
      BY <1>1, <1>2, <3>2, <3>3, CallsStaySound, TaskStep DEF SoundTask
  <2>. QED
    BY <2>1, <2>2
<1>4. TypeOK' /\ ListensToQuestions'
  BY <1>3 DEF Lookup, IInv, TypeOK, ListensToQuestions
<1>. QED
  BY <1>1, <1>3, <1>4, StoreStays, RefsStay, RowsStay DEF Lookup, IInv

\* A write raised: the plain code stands in, which is that of the row unless it is taken.
LEMMA FallbackStep ==
  ASSUME IInv, NEW h \in Handlers, InsertConflict(h) \/ InsertRefused(h)
  PROVE  IInv'
<1>1. /\ task[h].pc \in {"lookup", "insert"} /\ SoundTask(task[h])
      /\ task[h].call \in CallType /\ SoundCall(task[h].call)
  BY DEF InsertConflict, InsertRefused, IInv, TypeOK, TasksAreSound, SoundTask, SoundCall
<1>2. PICK i \in ReportIds : i = task[h].call.id
  BY <1>1, NoCallIsNone
<1>3. PICK r : r = Fallback(i)
  OBVIOUS
<1>4. /\ i \in minted /\ failed' = failed \cup {i}
      /\ GoOn(h, "save", Referenced(task[h].call, r), task[h].tripped)
      /\ UNCHANGED <<line, store, reports, minted, spoken, offered>>
  BY <1>1, <1>2, <1>3 DEF InsertConflict, InsertRefused, SoundCall
<1>5. Keeps
  BY <1>4, SameTables DEF IInv, TypeOK
<1>6. r \in Refs /\ Sound(r)'
  <2>1. r.of = i /\ r.bump = 0 /\ r \in Refs
    BY <1>3 DEF Fallback, Refs, Ref
  <2>2. Stored(i) => reports[i].ref = r \/ i \in Taken
    BY <1>3 DEF IInv, RowsAreMinted, Minted, Fallback
  <2>. QED
    BY <1>4, <2>1, <2>2 DEF Sound, Stored
<1>7. task' \in [Handlers -> TaskType] /\ TasksAreSound'
  BY <1>1, <1>4, <1>5, <1>6, ReferencedStep
<1>8. used' \in Budget
  BY SpendStep DEF InsertConflict, InsertRefused, IInv, TypeOK
<1>9. TypeOK' /\ ListensToQuestions'
  BY <1>4, <1>7, <1>8 DEF IInv, TypeOK, ListensToQuestions
<1>. QED
  BY <1>4, <1>5, <1>7, <1>9, StoreStays, RefsStay, RowsStay DEF IInv

\* The row is written: whoever fell back to the plain code before holds that of the row,
\* or it is taken.
LEMMA InsertStep == ASSUME IInv, NEW h \in Handlers, Insert(h) PROVE IInv'
<1>1. /\ task[h].pc = "insert" /\ task[h] \in TaskType /\ SoundTask(task[h])
      /\ task[h].call \in CallType /\ SoundCall(task[h].call)
  BY DEF Insert, IInv, TypeOK, TasksAreSound, SoundTask, SoundCall
<1>2. PICK i \in ReportIds : i = task[h].call.id
  BY <1>1, NoCallIsNone
<1>3. PICK s \in SlotType : s = task[h].call.dialog.slots
  BY <1>1 DEF CallType, Dialog
<1>4. PICK m : m = Minted(i)
  OBVIOUS
<1>5. /\ m \in Refs /\ m.of = i /\ m # NoRef
      /\ i \notin Taken => m = Ref(i, 0)
  BY <1>4, MintedIsRef, NoCallIsNone
<1>6. /\ ~Stored(i) /\ i \in minted
      /\ reports' = [reports EXCEPT ![i] = [ref |-> m, slots |-> s]]
      /\ failed \subseteq failed' /\ failed' \subseteq failed \cup {i}
      /\ UNCHANGED <<line, store, minted, spoken, offered>>
  BY <1>1, <1>2, <1>3, <1>4 DEF Insert, SoundCall
<1>7. /\ reports' \in [ReportIds -> ReportType] /\ reports'[i] = [ref |-> m, slots |-> s]
      /\ \A j \in ReportIds \ {i} : reports'[j] = reports[j]
  BY <1>5, <1>6 DEF IInv, TypeOK, ReportType
<1>8. Stored(i)' /\ \A j \in ReportIds \ {i} : Stored(j)' <=> Stored(j)
  BY <1>5, <1>7 DEF Stored, NoReport
<1>9. Keeps
  <2>1. ASSUME NEW r \in Refs, Sound(r) PROVE Sound(r)'
    <3>1. r.of \in ReportIds /\ r = Ref(r.of, r.bump)
      BY NoCallIsNone
    <3>2. CASE r.of = i
      <4>1. i \in failed /\ r = Ref(i, 0)
        BY <1>6, <2>1, <3>1, <3>2 DEF Sound
      <4>2. reports'[i].ref = r \/ i \in Taken
        BY <1>5, <1>7, <4>1
      <4>. QED
        BY <1>6, <1>8, <3>2, <4>1, <4>2 DEF Sound
    <3>3. CASE r.of # i
      BY <1>6, <1>7, <1>8, <2>1, <3>1, <3>3 DEF Sound
    <3>. QED
      BY <3>2, <3>3
  <2>. QED
    BY <1>6, <2>1 DEF Keeps, IInv, TypeOK
<1>10. \E r \in Refs : Sound(r)' /\ GoOn(h, "save", Referenced(task[h].call, r), task[h].tripped)
  <2>1. Sound(m)'
    BY <1>5, <1>7, <1>8 DEF Sound
  <2>2. CASE GoOn(h, "save", Referenced(task[h].call, Minted(i)), task[h].tripped)
    BY <1>4, <1>5, <2>1, <2>2
  <2>3. CASE /\ failed' = failed \cup {i}
             /\ GoOn(h, "save", Referenced(task[h].call, Fallback(i)), task[h].tripped)
    <3>1. PICK r : r = Ref(i, 0)
      OBVIOUS
    <3>2. r \in Refs /\ r.of = i
      BY <3>1 DEF Refs, Ref
    <3>3. Sound(r)'
      BY <1>5, <1>7, <1>8, <2>3, <3>1, <3>2 DEF Sound
    <3>. QED
      BY <2>3, <3>1, <3>2, <3>3 DEF Fallback
  <2>. QED
    BY <1>2, <2>2, <2>3 DEF Insert
<1>11. task' \in [Handlers -> TaskType] /\ TasksAreSound'
  BY <1>1, <1>9, <1>10, ReferencedStep
<1>12. used' \in Budget
  BY SpendStep DEF Insert, IInv, TypeOK
<1>13. TypeOK' /\ ListensToQuestions'
  BY <1>6, <1>7, <1>11, <1>12 DEF IInv, TypeOK, ListensToQuestions
<1>14. RowsAreMinted'
  BY <1>4, <1>7, <1>8 DEF IInv, RowsAreMinted, Minted
<1>15. ReportsAreComplete'
  <2>1. /\ task[h].call.dialog.node = "SUBMIT" /\ Answered("SUBMIT", s)
    BY <1>1, <1>3 DEF SoundTask, SoundCall
  <2>2. /\ s.intent = "yes" /\ s.confirmation = "yes"
        /\ "none" \notin {s.hazard, s.description, s.location, s.severity}
        /\ s.hazard = "storm" => s.depth = "measured"
    BY <2>1 DEF Answered, Reporting
  <2>3. ASSUME NEW j \in ReportIds \ {i}, Stored(j)'
        PROVE  Stored(j) /\ reports'[j].slots = reports[j].slots
    BY <1>7, <1>8, <2>3
  <2>. QED
    BY <1>7, <2>2, <2>3 DEF IInv, ReportsAreComplete
<1>. QED
  BY <1>6, <1>9, <1>11, <1>13, <1>14, <1>15, StoreStays, RefsStay DEF IInv

\* The copy is saved over whatever is there.
LEMMA SaveStep == ASSUME IInv, NEW h \in Handlers, Save(h) PROVE IInv'
<1>1. Keeps
  BY SameTables DEF IInv, TypeOK, Save
<1>2. /\ task[h].pc = "save" /\ task[h] \in TaskType /\ SoundTask(task[h])
      /\ task[h].call \in CallType /\ SoundCall(task[h].call)
  BY DEF Save, IInv, TypeOK, TasksAreSound, SoundTask, SoundCall
<1>3. PICK x : x = [pc |-> "reply", input |-> Start, call |-> task[h].call, tripped |-> task[h].tripped]
  OBVIOUS
<1>4. x \in TaskType /\ task' = [task EXCEPT ![h] = x] /\ store' = x.call
  BY <1>2, <1>3 DEF Save, GoOn, TaskType, InputType, Start, Input
<1>5. /\ SoundCall(x.call) /\ x.call # NoCall
      /\ x.tripped => x.call.dialog.node \notin Questions
  BY <1>2, <1>3, NoCallIsNone DEF SoundTask
<1>6. task' \in [Handlers -> TaskType] /\ TasksAreSound'
  BY <1>1, <1>3, <1>4, <1>5, CallsStaySound, TaskStep
<1>7. StoreIsSound'
  BY <1>1, <1>4, <1>5, CallsStaySound DEF StoreIsSound, SoundCall
<1>8. TypeOK' /\ ListensToQuestions'
  BY <1>2, <1>3, <1>4, <1>6 DEF Save, IInv, TypeOK, ListensToQuestions
<1>. QED
  BY <1>1, <1>6, <1>7, <1>8, RefsStay, RowsStay DEF Save, IInv

\* A handler that is done, or dead, holds nothing.
LEMMA TaskEnds ==
  ASSUME IInv, Keeps, NEW h \in Handlers, task' = [task EXCEPT ![h] = Idle]
  PROVE  task' \in [Handlers -> TaskType] /\ TasksAreSound'
<1>1. PICK x : x = Idle
  OBVIOUS
<1>2. x = [pc |-> "idle", input |-> Start, call |-> NoCall, tripped |-> FALSE] /\ x \in TaskType
  BY <1>1 DEF Idle, TaskType, InputType, Start, Input
<1>. QED
  BY <1>1, <1>2, TaskStep

\* Twilio plays the answer, and the reference is offered by text.
LEMMA AnswerStep == ASSUME IInv, NEW h \in Handlers, Answer(h) PROVE IInv'
<1>1. Keeps
  BY SameTables DEF IInv, TypeOK, Answer
<1>2. task' \in [Handlers -> TaskType] /\ TasksAreSound'
  BY <1>1, TaskEnds DEF Answer
<1>3. /\ task[h].pc \in {"reply", "apologise"} /\ task[h] \in TaskType /\ SoundTask(task[h])
  BY DEF Answer, IInv, TypeOK, TasksAreSound
<1> DEFINE d == task[h].call.dialog
           prompt == IF task[h].pc = "apologise" THEN "FATAL_FALLBACK"
                     ELSE IF task[h].tripped THEN "EMERGENCY_REDIRECT" ELSE d.node
           asks == task[h].pc = "reply" /\ d.node \in Questions
<1>4. CASE line.on # h
  <2>1. UNCHANGED <<line, spoken>>
    BY <1>4 DEF Answer
  <2>. QED
    BY <1>1, <1>2, <2>1, StoreStays, RefsStay, RowsStay
    DEF Answer, IInv, TypeOK, ListensToQuestions
<1>5. CASE line.on = h
  <2>1. /\ line' = [line EXCEPT !.phase = IF asks THEN "listening" ELSE "over",
                                !.on = NoId, !.request = Start, !.heard = prompt]
        /\ spoken' = IF prompt = "SUBMITTED" THEN spoken \cup {task[h].call.ref} ELSE spoken
    BY <1>5 DEF Answer
  <2>2. prompt \in Nodes
    <3>1. task[h].pc = "reply" => d.node \in Nodes
      BY <1>3 DEF SoundTask, SoundCall, CallType, Dialog
    <3>. QED
      BY <1>3, <3>1 DEF Nodes, Notices, Terminals
  <2>3. asks => prompt \in Questions
    BY <1>3 DEF SoundTask
  <2>4. prompt = "SUBMITTED" => task[h].call.ref \in Refs /\ Sound(task[h].call.ref)
    <3>1. prompt = "SUBMITTED" => task[h].pc = "reply" /\ d.node = "SUBMITTED"
      BY <1>3
    <3>. QED
      BY <1>3, <3>1 DEF SoundTask, SoundCall, CallType
  <2> HIDE DEF prompt, asks
  <2>5. PICK r : r = task[h].call.ref
    OBVIOUS
  <2>6. prompt = "SUBMITTED" => r \in Refs /\ Sound(r)'
    BY <1>1, <2>4, <2>5 DEF Keeps
  <2>7. spoken' \subseteq Refs /\ RefsAreSound'
    BY <1>1, <2>1, <2>5, <2>6 DEF IInv, TypeOK, Keeps, RefsAreSound, Answer
  <2>8. line' \in LineType /\ ListensToQuestions'
    BY <2>1, <2>2, <2>3 DEF IInv, TypeOK, LineType, ListensToQuestions, InputType, Start, Input
  <2>9. TypeOK'
    BY <1>2, <2>7, <2>8 DEF Answer, IInv, TypeOK
  <2>. QED
    BY <1>1, <1>2, <2>7, <2>8, <2>9, StoreStays, RowsStay DEF Answer, IInv
<1>. QED
  BY <1>4, <1>5

\* A handler dies with its copy.
LEMMA CrashStep == ASSUME IInv, NEW h \in Handlers, Crash(h) PROVE IInv'
<1>1. Keeps
  BY SameTables DEF IInv, TypeOK, Crash
<1>2. task' \in [Handlers -> TaskType] /\ TasksAreSound'
  BY <1>1, TaskEnds DEF Crash
<1>3. used' \in Budget
  BY SpendStep DEF Crash, IInv, TypeOK
<1>4. TypeOK' /\ ListensToQuestions'
  BY <1>2, <1>3 DEF Crash, IInv, TypeOK, ListensToQuestions
<1>. QED
  BY <1>1, <1>2, <1>4, StoreStays, RefsStay, RowsStay DEF Crash, IInv

\* Redis loses the call.
LEMMA ExpireStep == ASSUME IInv, Expire PROVE IInv'
<1>1. Keeps
  BY SameTables DEF IInv, TypeOK, Expire
<1>2. used' \in Budget
  BY SpendStep DEF Expire, IInv, TypeOK
<1>3. TypeOK' /\ ListensToQuestions' /\ StoreIsSound'
  BY <1>2 DEF Expire, IInv, TypeOK, ListensToQuestions, StoreIsSound
<1>. QED
  BY <1>1, <1>3, TasksStay, RefsStay, RowsStay DEF Expire, IInv

\* Twilio reports that the call is over.
LEMMA StatusStep == ASSUME IInv, Status PROVE IInv'
<1>1. Keeps
  BY SameTables DEF IInv, TypeOK, Status
<1>2. PICK r : r = store.ref
  OBVIOUS
<1>3. r \in Refs /\ Sound(r) /\ offered' = offered \cup {r}
  BY <1>2 DEF Status, IInv, TypeOK, StoreIsSound, SoundCall, CallType
<1>4. TypeOK' /\ ListensToQuestions'
  BY <1>3 DEF Status, IInv, TypeOK, ListensToQuestions
<1>5. RefsAreSound'
  BY <1>1, <1>3 DEF Status, IInv, TypeOK, Keeps, RefsAreSound
<1>. QED
  BY <1>1, <1>4, <1>5, TasksStay, StoreStays, RowsStay DEF Status, IInv

-----------------------------------------------------------------------------
(* The theorems.                                                           *)

\* No call has been made.
LEMMA InvInit == ASSUME Init PROVE IInv
<1>1. TypeOK
  <2>1. line \in LineType
    BY DEF Init, LineType, InputType, Start, Input, Nodes, Machines
  <2>2. Idle \in TaskType /\ NoReport \in ReportType
    BY DEF Idle, TaskType, InputType, Start, Input, NoReport, ReportType, NoSlots, SlotType
  <2>3. used \in Budget
    BY BoundsAssumption DEF Init, Budget
  <2>. QED
    BY <2>1, <2>2, <2>3 DEF Init, TypeOK
<1>2. \A i \in ReportIds : ~Stored(i)
  BY DEF Init, Stored
<1>3. TasksAreSound
  BY DEF Init, TasksAreSound, SoundTask, Idle
<1>. QED
  BY <1>1, <1>2, <1>3 DEF Init, IInv, StoreIsSound, RowsAreMinted, ListensToQuestions,
     RefsAreSound, ReportsAreComplete

\* Every step of the system preserves the invariant.
LEMMA InvStep == ASSUME IInv, [Next]_vars PROVE IInv'
<1>1. CASE UNCHANGED vars
  <2>1. Keeps
    BY <1>1, SameTables DEF IInv, TypeOK, vars
  <2>. QED
    BY <1>1, <2>1, TasksStay, StoreStays, RefsStay, RowsStay
    DEF vars, IInv, TypeOK, ListensToQuestions
<1>2. ASSUME NEW h \in Handlers, HandlerStep(h) PROVE IInv'
  BY <1>2, StartCallStep, StepStep, ApologyStep, LookupStep, InsertStep, FallbackStep, SaveStep,
     AnswerStep DEF HandlerStep
<1>. QED
  BY <1>1, <1>2, LineStep, CrashStep, HangUpStep, ExpireStep, StatusStep DEF Next

\* What the line, the handlers, Redis and the database hold of a call, whichever posts
\* overlap and whichever handlers die (routes_gather.py, driver.py, sql_report_sink.py).
THEOREM CallInvariant == Spec => []IInv
  BY InvInit, InvStep, PTL DEF Spec

\* A reference that the caller is told is that of the stored report, unless a write
\* raised and the plain code was taken or nothing is stored (SpokenRefIsStored).
THEOREM SpokenRefsAreStored == Spec => []SpokenRefIsStored
<1>1. IInv => SpokenRefIsStored
  BY DEF IInv, RefsAreSound, Sound, SpokenRefIsStored
<1>. QED
  BY <1>1, CallInvariant, PTL

\* A stored report has every answer that its hazard calls for (ReportsAreComplete).
THEOREM StoredReportsAreComplete == Spec => []ReportsAreComplete
<1>1. IInv => ReportsAreComplete
  BY DEF IInv
<1>. QED
  BY <1>1, CallInvariant, PTL
=============================================================================
