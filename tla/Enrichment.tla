----------------------------- MODULE Enrichment -----------------------------
(***************************************************************************)
(* Post-call enrichment: the flow that relay replicas run for each report  *)
(* (enrichment/flow.py and its tasks), the grouping of duplicates          *)
(* (enrichment/dedupers/text_window.py), the caller's pin                  *)
(* (api/routes_pin.py) and the erasure of a caller's data                  *)
(* (api/routes_privacy.py), which all write the same rows.                 *)
(*                                                                         *)
(* A flow loads its row once (Assemble), works for as long as a language   *)
(* model takes (Extract), reads the rows of others (Dedupe), and commits   *)
(* (Persist). Nothing keeps the loaded row alive between the two, so that  *)
(* the session may have it still or may select it again: persist compares  *)
(* with either, writes the columns that differ, and builds the event from  *)
(* it. Reads see what is committed (READ COMMITTED).                       *)
(*                                                                         *)
(* The relay holds the outbox row of a report while it runs the flow, so   *)
(* two flows never run for one report; it may run it again after a success *)
(* (OutboxRelay). A flow that fails, or whose process dies, writes nothing.*)
(***************************************************************************)
EXTENDS Gazetteer, FiniteSets, Integers

CONSTANTS
    Reports,       \* reports, numbered in created_at order
    Workers,       \* relay replicas
    Said,          \* Said[r]: what the call stored, a record of SaidType
    Hazards,       \* the kinds of hazard that a call or the model may name
    Proposals,     \* what the language model may answer, records [slots, sure]
    Alike(_, _),   \* do two descriptions reach the text threshold?
    Nearness(_, _),\* their similarity, where they do
    Window,        \* reports further apart in time than this are never grouped
    MaxRuns,       \* bound: flows ever started
    MaxPins,       \* bound: pins
    MaxErasures    \* bound: erasures

ASSUME ReportsAssumption == Reports \subseteq Nat \ {0}
ASSUME BoundsAssumption == {Window, MaxRuns, MaxPins, MaxErasures} \subseteq Nat

\* The slots that persist may revise (_REVISABLE_SLOTS); None where unknown.
SlotType == [hazard : Hazards \cup {None}, severity : {"light", "moderate", "extreme", None},
             depth : Nat \cup {-1}]
SaidType == [slots : SlotType, words : STRING, raw : Seq(STRING),
             danger : BOOLEAN, caller : STRING]

Erased == "[ERASED]"

\* Nobody says the marker of the erasure.
ASSUME SaidAssumption ==
    /\ Said \in [Reports -> SaidType] /\ \A r \in Reports : Said[r].words # Erased
    /\ Proposals \subseteq [slots : SlotType, sure : Nat]

Callers == {Said[r].caller : r \in Reports}

NoSlots == [hazard |-> None, severity |-> None, depth |-> -1]
Pin == <<"pin">>
GroupIds == 1 .. MaxRuns

VARIABLES
    row,      \* row[r]: the reports table
    flow,     \* flow[w]: the flow that replica w is running
    runs, pins, erasures,  \* bound counters
    leaked,   \* leaked[r]: events with r's words published after the erasure
    settled,  \* settled[r]: r's last flow revised no slot (history)
    astray    \* two flows were ever under way at once, or a hazard was revised (history)

vars == <<row, flow, runs, pins, erasures, leaked, settled, astray>>

-----------------------------------------------------------------------------
(* Rows, and the copy a flow carries. place is location_resolved.           *)

Absent == [there |-> FALSE, slots |-> NoSlots, words |-> None, raw |-> <<>>,
           place |-> <<>>, group |-> 0, priority |-> -1, confidence |-> -1]

Inserted(r) ==
    [Absent EXCEPT !.there = TRUE, !.slots = Said[r].slots,
                   !.words = Said[r].words, !.raw = Said[r].raw]

Idle == [on |-> 0, at |-> "idle", snap |-> Absent, revised |-> NoSlots,
         place |-> <<>>, group |-> 0, fill |-> 0]

IsErased(r) == row[r].words = Erased

\* ClaudeExtractor: no words, no call; otherwise a refusal or a proposal with the
\* model's confidence in it.
Answers(words) ==
    {[slots |-> NoSlots, sure |-> 0]} \cup (IF words = None THEN {} ELSE Proposals)

\* deep_extract: the threshold of 0.7, in one place.
Gated(a) == IF a.sure >= 70 THEN a.slots ELSE NoSlots

\* Proposed values replace slots, null proposes nothing.
Revised(slots, p) ==
    [hazard |-> IF p.hazard = None THEN slots.hazard ELSE p.hazard,
     severity |-> IF p.severity = None THEN slots.severity ELSE p.severity,
     depth |-> IF p.depth = -1 THEN slots.depth ELSE p.depth]

-----------------------------------------------------------------------------
(* score.py. The headline slots count 15 points each, a depth 15, and 25    *)
(* more, of which a revision costs a quarter (18.75 rounds to 19).          *)

Filled(x) ==
    Cardinality({i \in 1 .. 4 : <<x.slots.hazard # None, x.slots.severity # None,
                                  x.raw # <<>>, x.words # None>>[i]})

Confidence(x, revised) ==
    15 * Filled(x) + (IF x.slots.depth # -1 THEN 15 ELSE 0)
                   + (IF revised THEN 19 ELSE 25)

Priority(r, x) ==
    CASE Said[r].danger                -> 100
      [] x.slots.severity = "extreme"  -> 90
      [] x.slots.severity = "moderate" -> 60
      [] x.slots.severity = "light"    -> 25
      [] OTHER                         -> 40

-----------------------------------------------------------------------------
(* text_window.py.                                                          *)

\* _location_matches: one string contains the other, for either column.
LocationMatches(needle, x) ==
    \E h \in {x.place, x.raw} \ {<<>>} : OccursIn(needle, h) \/ OccursIn(h, needle)

\* Mutant: the texts are not compared.
Candidates_AnyText(f, needle) ==
    {c \in Reports \ {f.on} :
        /\ row[c].there /\ row[c].slots.hazard = f.snap.slots.hazard
        /\ c + Window >= f.on
        /\ LocationMatches(needle, row[c])
        /\ row[c].words # None}

\* _find_candidates and the text filter after it. The window has no upper end.
Candidates(f, needle) ==
    {c \in Reports \ {f.on} :
        /\ row[c].there /\ row[c].slots.hazard = f.snap.slots.hazard
        /\ c + Window >= f.on
        /\ LocationMatches(needle, row[c])
        /\ row[c].words # None /\ Alike(f.snap.words, row[c].words)}

\* Some id that nobody has ever used: the table and the flows under way know
\* all ids that matter.
Fresh ==
    CHOOSE g \in GroupIds :
        /\ \A r \in Reports : row[r].group # g
        /\ \A w \in Workers : flow[w].group # g /\ flow[w].snap.group # g

\* Mutant: the candidate is not back-filled.
Grouped_NoBackfill(f, C) ==
    LET grouped == {c \in C : row[c].group # 0}
    IN  IF grouped # {}
        THEN {<<row[c].group, 0>> : c \in grouped}
        ELSE {<<Fresh, 0>>}

\* The outcomes <<group, back-filled candidate>> for matching candidates C: join
\* the nearest that has a group, or mint one for the earliest of them.
Grouped(f, C) ==
    LET grouped == {c \in C : row[c].group # 0}
        near(c) == Nearness(f.snap.words, row[c].words)
    IN  IF grouped # {}
        THEN {<<row[c].group, 0>> :
                 c \in {d \in grouped : \A e \in grouped : near(d) >= near(e)}}
        ELSE {<<Fresh, CHOOSE c \in C : \A d \in C : c <= d>>}

-----------------------------------------------------------------------------

\* What a caller said, and what the place may resolve to.
Texts == {None, Erased} \cup {Said[r].words : r \in Reports}
Raws == {<<>>, <<Erased>>} \cup {Said[r].raw : r \in Reports}
Places == {<<>>, Pin} \cup {Resolved(Resolve(raw)) : raw \in Raws}

RowType == [there : BOOLEAN, slots : SlotType, words : Texts, raw : Raws, place : Places,
            group : GroupIds \cup {0}, priority : {-1, 25, 40, 60, 90, 100},
            confidence : {-1} \cup 0 .. 100]
FlowType == [on : Reports \cup {0}, at : {"idle", "extract", "dedupe", "persist"},
             snap : RowType, revised : SlotType, place : Places,
             group : GroupIds \cup {0}, fill : Reports \cup {0}]

TypeOK ==
    /\ row \in [Reports -> RowType]
    /\ flow \in [Workers -> FlowType]
    /\ \A w \in Workers : (flow[w].on = 0) <=> (flow[w] = Idle)
    /\ runs \in 0 .. MaxRuns /\ pins \in 0 .. MaxPins /\ erasures \in 0 .. MaxErasures
    /\ leaked \in [Reports -> Nat] /\ settled \in [Reports -> BOOLEAN] /\ astray \in BOOLEAN

Init ==
    /\ row = [r \in Reports |-> Absent]
    /\ flow = [w \in Workers |-> Idle]
    /\ runs = 0 /\ pins = 0 /\ erasures = 0
    /\ leaked = [r \in Reports |-> 0]
    /\ settled = [r \in Reports |-> FALSE]
    /\ astray = FALSE

\* The report sink inserts r.
Submit(r) ==
    /\ ~row[r].there
    /\ \A q \in Reports : q < r => row[q].there
    /\ row' = [row EXCEPT ![r] = Inserted(r)]
    /\ UNCHANGED <<flow, runs, pins, erasures, leaked, settled, astray>>

\* Mutant: two replicas may run the flow of one report.
Assemble_Unlocked(w, r) ==
    /\ flow[w] = Idle /\ row[r].there
    /\ runs < MaxRuns /\ runs' = runs + 1
    /\ flow' = [flow EXCEPT ![w] = [Idle EXCEPT !.on = r, !.at = "extract",
                                                !.snap = row[r]]]
    /\ astray' = (astray \/ \E v \in Workers \ {w} : flow[v] # Idle)
    /\ UNCHANGED <<row, pins, erasures, leaked, settled>>

\* A replica that holds r's outbox row starts the flow and loads the row.
Assemble(w, r) ==
    /\ flow[w] = Idle /\ row[r].there
    /\ \A v \in Workers : flow[v].on # r
    /\ runs < MaxRuns /\ runs' = runs + 1
    /\ flow' = [flow EXCEPT ![w] = [Idle EXCEPT !.on = r, !.at = "extract",
                                                !.snap = row[r]]]
    /\ astray' = (astray \/ \E v \in Workers \ {w} : flow[v] # Idle)
    /\ UNCHANGED <<row, pins, erasures, leaked, settled>>

\* The language model answers (nothing, something it is not sure of, which is
\* dropped, or a proposal), and the gazetteer resolves the place.
Extract(w) ==
    /\ flow[w].at = "extract"
    /\ LET raw == flow[w].snap.raw IN
       \E a \in Answers(flow[w].snap.words) :
           flow' = [flow EXCEPT ![w].at = "dedupe", ![w].revised = Gated(a),
                    ![w].place = Resolved(Resolve(raw))]
    /\ UNCHANGED <<row, runs, pins, erasures, leaked, settled, astray>>

\* The flow looks for reports of the same incident. It compares with the hazard
\* that was stored when it started, not with the one it is about to store.
Dedupe(w) ==
    LET f == flow[w]
        needle == IF f.place # <<>> THEN f.place ELSE f.snap.raw
        C == Candidates(f, needle)
        able == f.snap.slots.hazard # None /\ f.snap.words # None /\ needle # <<>>
    IN  /\ f.at = "dedupe"
        /\ \E g \in (IF able /\ C # {} THEN Grouped(f, C) ELSE {<<0, 0>>}) :
              flow' = [flow EXCEPT ![w].at = "persist", ![w].group = g[1],
                                   ![w].fill = g[2]]
        /\ UNCHANGED <<row, runs, pins, erasures, leaked, settled, astray>>

\* A column is written if the task produced a value and the row in the session has another.
Written(new, none, held, stored) ==
    IF new = none \/ new = held THEN stored ELSE new

\* Mutant: the whole loaded row is written back.
Persisted_WholeRow(r, f, base, x) ==
    [f.snap EXCEPT !.slots = Revised(f.snap.slots, f.revised),
                   !.place = Written(f.place, <<>>, base.place, x.place),
                   !.group = Written(f.group, 0, base.group, x.group),
                   !.priority = Priority(r, f.snap),
                   !.confidence = Confidence(f.snap, f.revised # NoSlots)]

\* Mutant: scores are kept once they are there.
Persisted_ScoresOnce(r, f, base, x) ==
    [x EXCEPT !.slots = Revised(f.snap.slots, f.revised),
              !.place = Written(f.place, <<>>, base.place, x.place),
              !.group = Written(f.group, 0, base.group, x.group),
              !.priority = IF x.priority # -1 THEN x.priority ELSE Priority(r, f.snap),
              !.confidence = IF x.confidence # -1 THEN x.confidence
                             ELSE Confidence(f.snap, f.revised # NoSlots)]

\* Row x of r after flow f has committed, whose session held base. Scores are computed
\* from the row that was loaded.
Persisted(r, f, base, x) ==
    [x EXCEPT !.slots = Revised(f.snap.slots, f.revised),
              !.place = Written(f.place, <<>>, base.place, x.place),
              !.group = Written(f.group, 0, base.group, x.group),
              !.priority = Priority(r, f.snap),
              !.confidence = Confidence(f.snap, f.revised # NoSlots)]

\* _build_enriched_payload: the event repeats the row in the session.
EventWords(base) == base.words

\* session.get: the row that Assemble loaded, or the row as it is now.
Held(f) == {f.snap, row[f.on]}

\* The commit: this row, the back-filled one, and the event.
Persist(w) ==
    LET f == flow[w] IN
    /\ f.at = "persist"
    /\ \E base \in Held(f) :
        /\ row' = [r \in Reports |->
                      IF r = f.on THEN Persisted(r, f, base, row[r])
                      ELSE IF r = f.fill THEN [row[r] EXCEPT !.group = f.group]
                      ELSE row[r]]
        /\ leaked' = IF IsErased(f.on) /\ EventWords(base) # Erased
                     THEN [leaked EXCEPT ![f.on] = leaked[f.on] + 1] ELSE leaked
    /\ settled' = [settled EXCEPT ![f.on] = Revised(f.snap.slots, f.revised) = f.snap.slots]
    /\ flow' = [flow EXCEPT ![w] = Idle]
    /\ astray' = (astray \/ f.revised.hazard \notin {None, f.snap.slots.hazard})
    /\ UNCHANGED <<runs, pins, erasures>>

\* The model refuses or cannot be reached, the row is gone, the transaction is
\* aborted, or the process dies: nothing is written and the relay runs it again.
Fail(w) ==
    /\ flow[w] # Idle
    /\ flow' = [flow EXCEPT ![w] = Idle]
    /\ UNCHANGED <<row, runs, pins, erasures, leaked, settled, astray>>

\* submit_pin: the caller marks the spot on the map.
DropPin(r) ==
    /\ row[r].there
    /\ pins < MaxPins /\ pins' = pins + 1
    /\ row' = [row EXCEPT ![r].place = Pin]
    /\ UNCHANGED <<flow, runs, erasures, leaked, settled, astray>>

\* erase_caller_pii: one UPDATE of all rows that still carry the caller's hash.
Erase(c) ==
    LET mine == {r \in Reports : row[r].there /\ Said[r].caller = c /\ ~IsErased(r)}
    IN  /\ mine # {} /\ erasures < MaxErasures /\ erasures' = erasures + 1
        /\ row' = [r \in Reports |->
                      IF r \in mine
                      THEN [row[r] EXCEPT !.words = Erased, !.raw = <<Erased>>]
                      ELSE row[r]]
        /\ UNCHANGED <<flow, runs, pins, leaked, settled, astray>>

Next ==
    \/ \E r \in Reports : Submit(r) \/ DropPin(r)
    \/ \E w \in Workers, r \in Reports : Assemble(w, r)
    \/ \E w \in Workers : Extract(w) \/ Dedupe(w) \/ Persist(w) \/ Fail(w)
    \/ \E c \in Callers : Erase(c)

Spec == Init /\ [][Next]_vars

-----------------------------------------------------------------------------
(* Properties.                                                              *)

\* What erasure removed never comes back into the table, although flows that
\* loaded the row before go on and commit after it (routes_privacy.py:177-188,
\* persist.py:56-83).
ErasedStaysErased ==
    [][\A r \in Reports : IsErased(r) =>
          row'[r].words = Erased /\ row'[r].raw = <<Erased>>]_vars

\* After an erasure at most one more event carries the erased words: that of the
\* flow that was under way (persist.py:106-132, the payload of the row in the session).
LeaksAtMostOnce == \A r \in Reports : leaked[r] <= 1

\* The place of r, and what a flow of r looks for.
Where(r) == Resolved(Resolve(Said[r].raw))
Needle(r) == IF Where(r) # <<>> THEN Where(r) ELSE Said[r].raw

\* A flow of r may take q for another report of its incident.
May(r, q) ==
    /\ Said[r].slots.hazard = Said[q].slots.hazard
    /\ Alike(Said[r].words, Said[q].words)
    /\ \E h \in {Where(q), Said[q].raw} \ {<<>>} :
           OccursIn(Needle(r), h) \/ OccursIn(h, Needle(r))

\* Reports that agree in hazard, place and words, no two of them further apart than
\* the window, and that no other report is mistaken for.
Incidents ==
    {I \in SUBSET Reports :
        /\ \A r \in I : None \notin {Said[r].slots.hazard, Said[r].words} /\ Where(r) # <<>>
        /\ \A r, s \in I : r # s =>
               /\ r <= s + Window /\ Where(r) = Where(s)
               /\ Said[r].slots.hazard = Said[s].slots.hazard
               /\ Alike(Said[r].words, Said[s].words)
        /\ \A r \in I, q \in Reports \ I : ~May(r, q) /\ ~May(q, r)}

Done(r) == row[r].priority # -1
Plain == ~astray /\ pins = 0 /\ erasures = 0

\* Without overlapping flows, revised hazards, pins and erasures, the reports of one
\* incident that were enriched are in one group, in whatever order they were enriched
\* and however often (text_window.py:22-39).
OneGroupPerIncident ==
    Plain => \A I \in Incidents : \A r, s \in I :
        r # s /\ Done(r) /\ Done(s) => row[r].group # 0 /\ row[r].group = row[s].group

\* Nor does a group ever take in a report that is not of its incident: not through the
\* report that is back-filled, nor through identifiers (text_window.py:119-161).
IncidentsStayApart ==
    Plain => \A I \in Incidents : \A r \in I, q \in Reports \ I :
        row[r].group # 0 => row[r].group # row[q].group

\* Once a flow revises nothing, the stored scores are those of the stored slots,
\* whatever the flows before it revised (flow.py:23-26, score.py).
ScoresCatchUp ==
    \A r \in Reports : settled[r] /\ ~IsErased(r) =>
        /\ row[r].priority = Priority(r, row[r])
        /\ row[r].confidence \in {Confidence(row[r], b) : b \in BOOLEAN}

=============================================================================
