------------------------- MODULE Enrichment_proofs -------------------------
(***************************************************************************)
(* Proofs about Enrichment for any reports, replicas, gazetteer, answers   *)
(* of the language model, likeness, and numbers of flows, pins and         *)
(* erasures.                                                               *)
(***************************************************************************)
EXTENDS Enrichment, FiniteSetTheorems, SequenceTheorems, WellFoundedInduction, TLAPS

-----------------------------------------------------------------------------
(* The inductive invariant.                                                *)

\* A row of which something was published, erased or settled is in the table.
ErasedRows == \A r \in Reports : IsErased(r) => row[r].there /\ row[r].raw = <<Erased>>
SettledRows == \A r \in Reports : settled[r] => row[r].there

OneFlowPerReport ==
    \A v, w \in Workers : v # w /\ flow[v].on # 0 => flow[v].on # flow[w].on

\* What a flow loaded of the caller's words is what is stored, unless it was erased since.
LoadedIsStored ==
    \A w \in Workers : flow[w].on # 0 =>
        /\ row[flow[w].on].there
        /\ ~IsErased(flow[w].on) => /\ flow[w].snap.words = row[flow[w].on].words
                                    /\ flow[w].snap.raw = row[flow[w].on].raw

\* After the event that repeated the erased words no flow has them.
LeakedIsOver ==
    \A r \in Reports : leaked[r] # 0 =>
        /\ leaked[r] = 1 /\ IsErased(r)
        /\ \A w \in Workers : flow[w].on = r => flow[w].snap.words = Erased

\* The groups that rows and flows know of are of flows that were started.
IdsInUse ==
    ({row[r].group : r \in Reports} \cup {flow[w].group : w \in Workers}
        \cup {flow[w].snap.group : w \in Workers}) \ {0}
Working == {w \in Workers : flow[w].at \in {"extract", "dedupe"}}
IdsSuffice == IsFiniteSet(Working) /\ Cardinality(IdsInUse) + Cardinality(Working) <= runs

RowsInv == ErasedRows /\ SettledRows /\ OneFlowPerReport /\ LoadedIsStored /\ LeakedIsOver

IInv == TypeOK /\ IdsSuffice /\ RowsInv /\ ScoresCatchUp

-----------------------------------------------------------------------------
(* The identifiers of groups.                                              *)

\* The groups in use are finitely many numbers that the model may give out.
LEMMA IdsAreGroupIds ==
  ASSUME TypeOK
  PROVE  IdsInUse \subseteq GroupIds /\ IsFiniteSet(IdsInUse) /\ Cardinality(IdsInUse) \in Nat
<1>1. IdsInUse \subseteq GroupIds
  BY DEF IdsInUse, TypeOK, RowType, FlowType
<1>2. IsFiniteSet(GroupIds)
  BY FS_Interval, BoundsAssumption DEF GroupIds
<1>. QED
  BY <1>1, <1>2, FS_Subset, FS_CardinalityType

\* Flows that are under way mint no identifier and start no other.
LEMMA IdsStay ==
  ASSUME TypeOK, IdsSuffice, IdsInUse' \subseteq IdsInUse, Working' \subseteq Working, UNCHANGED runs
  PROVE  IdsSuffice'
<1>1. /\ IsFiniteSet(Working') /\ Cardinality(Working') <= Cardinality(Working)
      /\ Cardinality(Working') \in Nat /\ Cardinality(Working) \in Nat
  BY FS_Subset, FS_CardinalityType DEF IdsSuffice
<1>2. /\ Cardinality(IdsInUse') <= Cardinality(IdsInUse) /\ Cardinality(IdsInUse') \in Nat
      /\ Cardinality(IdsInUse) \in Nat
  BY IdsAreGroupIds, FS_Subset, FS_CardinalityType
<1>3. runs \in Nat
  BY BoundsAssumption DEF TypeOK
<1>. QED
  BY <1>1, <1>2, <1>3 DEF IdsSuffice

\* A flow that starts may mint one.
LEMMA IdsOfAStart ==
  ASSUME TypeOK, IdsSuffice, IdsInUse' \subseteq IdsInUse, NEW w \in Workers,
         Working' \subseteq Working \cup {w}, runs' = runs + 1
  PROVE  IdsSuffice'
<1>1. /\ IsFiniteSet(Working \cup {w}) /\ Cardinality(Working \cup {w}) <= Cardinality(Working) + 1
      /\ Cardinality(Working) \in Nat
  <2>1. PICK k : k = Cardinality(Working)
    OBVIOUS
  <2>2. IsFiniteSet(Working) /\ k \in Nat
    BY <2>1, FS_CardinalityType DEF IdsSuffice
  <2>3. IsFiniteSet(Working \cup {w}) /\ Cardinality(Working \cup {w}) \in {k, k + 1}
    BY <2>1, <2>2, FS_AddElement
  <2>. QED
    BY <2>1, <2>2, <2>3
<1>2. /\ IsFiniteSet(Working') /\ Cardinality(Working') <= Cardinality(Working \cup {w})
      /\ Cardinality(Working') \in Nat /\ Cardinality(Working \cup {w}) \in Nat
  BY <1>1, FS_Subset, FS_CardinalityType
<1>3. /\ Cardinality(IdsInUse') <= Cardinality(IdsInUse) /\ Cardinality(IdsInUse') \in Nat
      /\ Cardinality(IdsInUse) \in Nat
  BY IdsAreGroupIds, FS_Subset, FS_CardinalityType
<1>4. runs \in Nat
  BY BoundsAssumption DEF TypeOK
<1>. QED
  BY <1>1, <1>2, <1>3, <1>4 DEF IdsSuffice

\* A flow that has looked for its group mints none any more.
LEMMA IdsOfAGroup ==
  ASSUME TypeOK, IdsSuffice, NEW g, IdsInUse' \subseteq IdsInUse \cup {g}, NEW w \in Working,
         Working' = Working \ {w}, UNCHANGED runs
  PROVE  IdsSuffice'
<1>1. /\ IsFiniteSet(Working') /\ Cardinality(Working') = Cardinality(Working) - 1
      /\ Cardinality(Working) \in Nat
  BY FS_RemoveElement, FS_CardinalityType DEF IdsSuffice
<1>2. /\ IsFiniteSet(IdsInUse \cup {g}) /\ Cardinality(IdsInUse \cup {g}) <= Cardinality(IdsInUse) + 1
      /\ Cardinality(IdsInUse) \in Nat
  BY IdsAreGroupIds, FS_AddElement
<1>3. /\ Cardinality(IdsInUse') <= Cardinality(IdsInUse \cup {g}) /\ Cardinality(IdsInUse') \in Nat
      /\ Cardinality(IdsInUse \cup {g}) \in Nat
  BY <1>2, FS_Subset, FS_CardinalityType
<1>4. runs \in Nat
  BY BoundsAssumption DEF TypeOK
<1>. QED
  BY <1>1, <1>2, <1>3, <1>4 DEF IdsSuffice

\* There is always an identifier that nobody has used: the bound takes none away.
LEMMA FreshExists ==
  ASSUME TypeOK, IdsSuffice, NEW w \in Working
  PROVE  Fresh \in GroupIds \ IdsInUse
<1>1. Cardinality(Working) \in Nat \ {0}
  BY FS_EmptySet, FS_CardinalityType DEF IdsSuffice
<1>2. Cardinality(IdsInUse) < MaxRuns
  BY <1>1, IdsAreGroupIds, BoundsAssumption DEF IdsSuffice, TypeOK
<1>3. Cardinality(GroupIds) = MaxRuns
  BY <1>2, FS_Interval, IdsAreGroupIds, BoundsAssumption DEF GroupIds
<1>4. PICK g \in GroupIds : g \notin IdsInUse
  BY <1>2, <1>3, IdsAreGroupIds, BoundsAssumption
<1>5. 0 \notin GroupIds
  BY BoundsAssumption DEF GroupIds
<1>6. \A h \in GroupIds :
        h \notin IdsInUse <=> /\ \A r \in Reports : row[r].group # h
                              /\ \A v \in Workers : flow[v].group # h /\ flow[v].snap.group # h
  BY <1>5 DEF IdsInUse
<1>. QED
  BY <1>4, <1>6 DEF Fresh

-----------------------------------------------------------------------------
(* Rows, copies and what a flow makes of them.                             *)

\* 0, the idle replica's report, names no row.
LEMMA NoRowIsZero == 0 \notin Reports
  BY ReportsAssumption

\* The bounds are numbers.
LEMMA BoundsAreNaturals == MaxRuns \in Nat /\ MaxPins \in Nat /\ MaxErasures \in Nat
  BY BoundsAssumption

\* What the empty row, the idle replica and unknown slots look like.
LEMMA FixedRecords ==
  /\ NoSlots \in SlotType /\ Absent \in RowType /\ Idle \in FlowType
  /\ Absent.words # Erased /\ ~Absent.there /\ Absent.group = 0 /\ Absent.priority = -1
  /\ Idle.on = 0 /\ Idle.at = "idle" /\ Idle.group = 0 /\ Idle.snap.group = 0
<1>1. NoSlots \in SlotType
  BY DEF NoSlots, SlotType, None
<1>2. Absent \in RowType
  <2>1. <<>> \in Raws /\ <<>> \in Places /\ None \in Texts
    BY DEF Raws, Places, Texts
  <2>. QED
    BY <1>1, <2>1 DEF Absent, RowType
<1>3. Idle \in FlowType
  BY <1>1, <1>2 DEF Idle, FlowType, Places
<1>. QED
  BY <1>1, <1>2, <1>3 DEF Absent, Idle, None, Erased

\* The report sink inserts a row that is not erased and in no group.
LEMMA InsertedIsTyped ==
  ASSUME NEW r \in Reports
  PROVE  /\ Inserted(r) \in RowType /\ Inserted(r).words # Erased /\ Inserted(r).there
         /\ Inserted(r).group = 0
<1>1. /\ Said[r].slots \in SlotType /\ Said[r].words \in STRING /\ Said[r].words # Erased
      /\ Said[r].raw \in Raws /\ Said[r].words \in Texts
  BY SaidAssumption DEF SaidType, Raws, Texts
<1>. QED
  BY <1>1, FixedRecords DEF Inserted, RowType, Absent

\* A revision of slots gives slots.
LEMMA RevisedIsTyped ==
  ASSUME NEW s \in SlotType, NEW p \in SlotType PROVE Revised(s, p) \in SlotType
  BY DEF Revised, SlotType

\* The combined confidence is a percentage.
LEMMA ConfidenceIsTyped ==
  ASSUME NEW x \in RowType, NEW revised \in BOOLEAN PROVE Confidence(x, revised) \in 0 .. 100
<1>1. Filled(x) \in 0 .. 4
  <2>1. PICK n \in Nat : n = 4
    OBVIOUS
  <2>2. IsFiniteSet(1 .. n) /\ Cardinality(1 .. n) = n
    <3>1. n \in Nat /\ n >= 1
      BY <2>1
    <3>. QED
      BY <3>1, FS_Interval
  <2>3. PICK S \in SUBSET (1 .. n) : Filled(x) = Cardinality(S)
    BY <2>1 DEF Filled
  <2>4. Cardinality(S) <= n /\ Cardinality(S) \in Nat
    BY <2>2, FS_Subset, FS_CardinalityType
  <2>. QED
    BY <2>1, <2>3, <2>4
<1>2. PICK n \in 0 .. 4 : n = Filled(x)
  BY <1>1
<1>. QED
  BY <1>2 DEF Confidence

\* There are five priorities.
LEMMA PriorityIsTyped ==
  ASSUME NEW r, NEW x PROVE Priority(r, x) \in {25, 40, 60, 90, 100}
  BY DEF Priority

\* A persist leaves the caller's words alone.
LEMMA PersistedIsTyped ==
  ASSUME NEW r \in Reports, NEW f \in FlowType, NEW base, NEW x \in RowType
  PROVE  /\ Persisted(r, f, base, x) \in RowType
         /\ Persisted(r, f, base, x).words = x.words /\ Persisted(r, f, base, x).raw = x.raw
         /\ Persisted(r, f, base, x).there = x.there
         /\ Persisted(r, f, base, x).slots = Revised(f.snap.slots, f.revised)
         /\ Persisted(r, f, base, x).group \in {f.group, x.group}
         /\ Persisted(r, f, base, x).priority = Priority(r, f.snap)
         /\ Persisted(r, f, base, x).confidence = Confidence(f.snap, f.revised # NoSlots)
<1>1. f.snap \in RowType /\ f.revised \in SlotType /\ f.snap.slots \in SlotType
  BY DEF FlowType, RowType
<1>2. PICK s, p, c : /\ s = Revised(f.snap.slots, f.revised) /\ p = Priority(r, f.snap)
                     /\ c = Confidence(f.snap, f.revised # NoSlots)
  OBVIOUS
<1>3. s \in SlotType /\ p \in {25, 40, 60, 90, 100} /\ c \in 0 .. 100
  <2>1. PICK b \in BOOLEAN : b = (f.revised # NoSlots)
    OBVIOUS
  <2>2. c = Confidence(f.snap, b)
    BY <1>2, <2>1
  <2>3. c \in 0 .. 100
    BY <1>1, <2>2, ConfidenceIsTyped
  <2>. QED
    BY <1>1, <1>2, <2>3, RevisedIsTyped, PriorityIsTyped
<1>4. PICK q, g : /\ q = Written(f.place, <<>>, base.place, x.place)
                  /\ g = Written(f.group, 0, base.group, x.group)
  OBVIOUS
<1>5. q \in Places /\ g \in {f.group, x.group} /\ g \in GroupIds \cup {0}
  BY <1>4 DEF Written, FlowType, RowType
<1>6. Persisted(r, f, base, x) = [x EXCEPT !.slots = s, !.place = q, !.group = g, !.priority = p, !.confidence = c]
  BY <1>2, <1>4 DEF Persisted
<1>7. PICK y : y = [x EXCEPT !.slots = s, !.place = q, !.group = g, !.priority = p, !.confidence = c]
  OBVIOUS
<1>8. /\ y.words = x.words /\ y.raw = x.raw /\ y.there = x.there
      /\ y.slots = s /\ y.group = g /\ y.priority = p /\ y.confidence = c
  BY <1>7 DEF RowType
<1>9. y \in RowType
  BY <1>3, <1>5, <1>7 DEF RowType
<1>. QED
  BY <1>2, <1>5, <1>6, <1>7, <1>8, <1>9

\* The scores look at the slots and the words.
LEMMA ScoresOfEqualRows ==
  ASSUME NEW r, NEW x, NEW y, x.slots = y.slots, x.raw = y.raw, x.words = y.words
  PROVE  Priority(r, x) = Priority(r, y) /\ \A b \in BOOLEAN : Confidence(x, b) = Confidence(y, b)
  BY DEF Priority, Confidence, Filled

-----------------------------------------------------------------------------
(* The steps of a flow.                                                    *)

\* A flow that is at work is on a report.
LEMMA BusyIsOnAReport ==
  ASSUME TypeOK, NEW w \in Workers, flow[w] # Idle \/ flow[w].at # "idle"
  PROVE  flow[w] \in FlowType /\ flow[w].on \in Reports /\ flow[w].on # 0
  BY FixedRecords DEF TypeOK, FlowType

\* Flows go on or end, and the tables stay.
LEMMA FlowStep ==
  ASSUME IInv, TypeOK', IdsSuffice', UNCHANGED <<row, leaked, settled>>,
         \A v \in Workers : \/ flow'[v].on = 0
                            \/ flow'[v].on = flow[v].on /\ flow'[v].snap = flow[v].snap
  PROVE  IInv'
<1>1. ErasedRows' /\ SettledRows'
  BY DEF IInv, RowsInv, ErasedRows, SettledRows, IsErased
<1>2. OneFlowPerReport'
  BY DEF IInv, RowsInv, OneFlowPerReport
<1>3. LoadedIsStored'
  BY DEF IInv, RowsInv, LoadedIsStored, IsErased
<1>4. LeakedIsOver'
  BY NoRowIsZero DEF IInv, RowsInv, LeakedIsOver, IsErased
<1>5. ScoresCatchUp'
  BY DEF IInv, ScoresCatchUp, IsErased
<1>. QED
  BY <1>1, <1>2, <1>3, <1>4, <1>5 DEF IInv, RowsInv

\* One flow becomes another record, of the same report or of none.
LEMMA OneFlowIsTyped ==
  ASSUME TypeOK, NEW w \in Workers, NEW y \in FlowType, y.on # 0 \/ y = Idle,
         flow' = [flow EXCEPT ![w] = y], row' \in [Reports -> RowType],
         runs' \in 0 .. MaxRuns, UNCHANGED <<pins, erasures>>,
         leaked' \in [Reports -> Nat], settled' \in [Reports -> BOOLEAN], astray' \in BOOLEAN
  PROVE  /\ TypeOK' /\ flow'[w] = y
         /\ \A v \in Workers \ {w} : flow'[v] = flow[v]
<1>1. flow' \in [Workers -> FlowType] /\ flow'[w] = y /\ \A v \in Workers \ {w} : flow'[v] = flow[v]
  BY DEF TypeOK
<1>2. ASSUME NEW v \in Workers PROVE (flow'[v].on = 0) <=> (flow'[v] = Idle)
  <2>1. CASE v = w
    BY <1>1, <2>1, FixedRecords
  <2>2. CASE v # w
    BY <1>1, <2>2 DEF TypeOK
  <2>. QED
    BY <2>1, <2>2
<1>. QED
  BY <1>1, <1>2 DEF TypeOK

\* A flow that ends early leaves the rows alone.
LEMMA FailStep ==
  ASSUME IInv, NEW w \in Workers, Fail(w) PROVE IInv'
<1>. TypeOK /\ IdsSuffice
  BY DEF IInv
<1>1. flow' = [flow EXCEPT ![w] = Idle]
      /\ UNCHANGED <<row, runs, pins, erasures, leaked, settled, astray>>
  BY DEF Fail
<1>2. TypeOK' /\ flow'[w] = Idle /\ \A v \in Workers \ {w} : flow'[v] = flow[v]
  BY <1>1, FixedRecords, OneFlowIsTyped DEF TypeOK
<1>3. IdsInUse' \subseteq IdsInUse /\ Working' \subseteq Working
  BY <1>1, <1>2, FixedRecords DEF IdsInUse, Working
<1>4. IdsSuffice'
  BY <1>1, <1>3, IdsStay
<1>. QED
  BY <1>1, <1>2, <1>4, FixedRecords, FlowStep

\* The language model answers, or does not, and the gazetteer resolves the place.
LEMMA ExtractStep ==
  ASSUME IInv, NEW w \in Workers, Extract(w) PROVE IInv'
<1>. TypeOK /\ IdsSuffice
  BY DEF IInv
<1>1. /\ flow[w].at = "extract"
      /\ UNCHANGED <<row, runs, pins, erasures, leaked, settled, astray>>
  BY DEF Extract
<1>2. PICK a \in Answers(flow[w].snap.words) :
         flow' = [flow EXCEPT ![w].at = "dedupe", ![w].revised = Gated(a),
                              ![w].place = Resolved(Resolve(flow[w].snap.raw))]
  BY DEF Extract
<1>3. PICK p, q : p = Gated(a) /\ q = Resolved(Resolve(flow[w].snap.raw))
  OBVIOUS
<1>4. flow[w] \in FlowType /\ flow[w].on # 0 /\ flow[w].snap.raw \in Raws
  BY <1>1, BusyIsOnAReport DEF FlowType, RowType
<1>5. p \in SlotType
  BY <1>3, FixedRecords, SaidAssumption DEF Gated, Answers
<1>6. q \in Places
  BY <1>3, <1>4 DEF Places
<1>7. PICK y : y = [flow[w] EXCEPT !.at = "dedupe", !.revised = p, !.place = q]
  OBVIOUS
<1>8. y \in FlowType /\ y.on = flow[w].on /\ y.snap = flow[w].snap /\ y.group = flow[w].group
  BY <1>4, <1>5, <1>6, <1>7 DEF FlowType
<1>9. flow' = [flow EXCEPT ![w] = y]
  BY <1>2, <1>3, <1>7 DEF TypeOK
<1>10. TypeOK' /\ flow'[w] = y /\ \A v \in Workers \ {w} : flow'[v] = flow[v]
  BY <1>1, <1>4, <1>8, <1>9, OneFlowIsTyped DEF TypeOK
<1>11. IdsInUse' \subseteq IdsInUse /\ Working' \subseteq Working
  BY <1>1, <1>8, <1>10 DEF IdsInUse, Working
<1>12. IdsSuffice'
  BY <1>1, <1>11, IdsStay
<1>. QED
  BY <1>1, <1>8, <1>10, <1>12, FlowStep

\* The group of a known incident, or an identifier of its own.
LEMMA GroupedIsTyped ==
  ASSUME TypeOK, IdsSuffice, NEW w \in Working, NEW f, NEW C \in SUBSET Reports, C # {},
         NEW g \in Grouped(f, C)
  PROVE  g[1] \in GroupIds \cup {0} /\ g[2] \in Reports \cup {0}
<1> DEFINE grouped == {c \in C : row[c].group # 0}
           first == CHOOSE c \in C : \A d \in C : c <= d
<1>1. CASE grouped # {}
  <2>1. \E c \in C : g = <<row[c].group, 0>>
    BY <1>1 DEF Grouped
  <2>. QED
    BY <2>1 DEF TypeOK, RowType
<1>2. CASE grouped = {}
  <2>1. g = <<Fresh, first>>
    BY <1>2 DEF Grouped
  <2>2. \E c \in C : \A d \in C : c <= d
    <3>1. C \subseteq Nat
      BY ReportsAssumption
    <3>2. PICK c \in C : \A d \in C : <<d, c>> \notin OpToRel(<, Nat)
      BY <3>1, NatLessThanWellFounded, WFMin, Zenon
    <3>3. \A d \in C : ~(d < c)
      BY <3>1, <3>2 DEF OpToRel
    <3>. QED
      BY <3>1, <3>3
  <2>3. first \in C
    BY <2>2
  <2> HIDE DEF first
  <2>. QED
    BY <2>1, <2>3, FreshExists
<1>. QED
  BY <1>1, <1>2

\* A flow joins a group in use or opens one, for which its run left an identifier.
LEMMA DedupeStep ==
  ASSUME IInv, NEW w \in Workers, Dedupe(w) PROVE IInv'
<1>. TypeOK /\ IdsSuffice
  BY DEF IInv
<1>1. /\ flow[w].at = "dedupe" /\ w \in Working
      /\ UNCHANGED <<row, runs, pins, erasures, leaked, settled, astray>>
  BY DEF Dedupe, Working
<1>2. PICK g : /\ g[1] \in GroupIds \cup {0} /\ g[2] \in Reports \cup {0}
               /\ flow' = [flow EXCEPT ![w].at = "persist", ![w].group = g[1], ![w].fill = g[2]]
  <2>1. PICK f, needle, C, able :
          /\ C = Candidates(f, needle)
          /\ \E g \in (IF able /\ C # {} THEN Grouped(f, C) ELSE {<<0, 0>>}) :
                flow' = [flow EXCEPT ![w].at = "persist", ![w].group = g[1], ![w].fill = g[2]]
    BY DEF Dedupe
  <2>2. C \in SUBSET Reports
    BY <2>1 DEF Candidates
  <2>. QED
    BY <1>1, <2>1, <2>2, GroupedIsTyped
<1>3. PICK y : y = [flow[w] EXCEPT !.at = "persist", !.group = g[1], !.fill = g[2]]
  OBVIOUS
<1>4. flow[w] \in FlowType /\ flow[w].on # 0
  BY <1>1, BusyIsOnAReport
<1>5. y \in FlowType /\ y.on = flow[w].on /\ y.snap = flow[w].snap /\ y.group = g[1] /\ y.at = "persist"
  BY <1>2, <1>3, <1>4 DEF FlowType
<1>6. flow' = [flow EXCEPT ![w] = y]
  BY <1>2, <1>3 DEF TypeOK
<1>7. TypeOK' /\ flow'[w] = y /\ \A v \in Workers \ {w} : flow'[v] = flow[v]
  BY <1>1, <1>4, <1>5, <1>6, OneFlowIsTyped DEF TypeOK
<1>8. IdsInUse' \subseteq IdsInUse \cup {g[1]} /\ Working' = Working \ {w}
  BY <1>1, <1>5, <1>7 DEF IdsInUse, Working
<1>9. IdsSuffice'
  BY <1>1, <1>8, IdsOfAGroup
<1>. QED
  BY <1>1, <1>5, <1>7, <1>9, FlowStep

\* A run begins with the row as it is, and leaves room for one more group.
LEMMA AssembleStep ==
  ASSUME IInv, NEW w \in Workers, NEW r \in Reports, Assemble(w, r) PROVE IInv'
<1>. TypeOK /\ IdsSuffice
  BY DEF IInv
<1>1. /\ flow[w] = Idle /\ row[r].there /\ \A v \in Workers : flow[v].on # r
      /\ runs < MaxRuns /\ runs' = runs + 1
      /\ UNCHANGED <<row, pins, erasures, leaked, settled>>
  BY DEF Assemble
<1>2. PICK y : y = [Idle EXCEPT !.on = r, !.at = "extract", !.snap = row[r]]
  OBVIOUS
<1>3. /\ y \in FlowType /\ y.on = r /\ y.snap = row[r] /\ y.group = 0 /\ y.at = "extract"
      /\ r # 0 /\ row[r] \in RowType
  BY <1>2, FixedRecords, NoRowIsZero DEF FlowType, TypeOK
<1>4. flow' = [flow EXCEPT ![w] = y] /\ astray' \in BOOLEAN /\ runs' \in 0 .. MaxRuns
  BY <1>1, <1>2, BoundsAssumption DEF Assemble, TypeOK
<1>5. TypeOK' /\ flow'[w] = y /\ \A v \in Workers \ {w} : flow'[v] = flow[v]
  BY <1>1, <1>3, <1>4, OneFlowIsTyped DEF TypeOK
<1>6. IdsInUse' \subseteq IdsInUse /\ Working' \subseteq Working \cup {w}
  BY <1>1, <1>3, <1>5 DEF IdsInUse, Working
<1>7. IdsSuffice'
  BY <1>1, <1>6, IdsOfAStart
<1>8. ErasedRows' /\ SettledRows'
  BY <1>1 DEF IInv, RowsInv, ErasedRows, SettledRows, IsErased
<1>9. OneFlowPerReport'
  BY <1>1, <1>3, <1>5 DEF IInv, RowsInv, OneFlowPerReport
<1>10. LoadedIsStored'
  <2>1. ASSUME NEW v \in Workers, flow'[v].on # 0
        PROVE  /\ row[flow'[v].on].there
               /\ row[flow'[v].on].words # Erased =>
                     /\ flow'[v].snap.words = row[flow'[v].on].words
                     /\ flow'[v].snap.raw = row[flow'[v].on].raw
    <3>1. CASE v = w
      BY <1>1, <1>3, <1>5, <3>1
    <3>2. CASE v # w
      BY <1>5, <2>1, <3>2 DEF IInv, RowsInv, LoadedIsStored, IsErased
    <3>. QED
      BY <3>1, <3>2
  <2>. QED
    BY <1>1, <2>1 DEF LoadedIsStored, IsErased
<1>11. LeakedIsOver'
  <2>1. ASSUME NEW q \in Reports, leaked[q] # 0
        PROVE  /\ leaked[q] = 1 /\ row[q].words = Erased
               /\ \A v \in Workers : flow'[v].on = q => flow'[v].snap.words = Erased
    <3>1. /\ leaked[q] = 1 /\ row[q].words = Erased
          /\ \A v \in Workers : flow[v].on = q => flow[v].snap.words = Erased
      BY <2>1 DEF IInv, RowsInv, LeakedIsOver, IsErased
    <3>. QED
      BY <1>3, <1>5, <3>1
  <2>. QED
    BY <1>1, <2>1 DEF LeakedIsOver, IsErased
<1>12. ScoresCatchUp'
  BY <1>1 DEF IInv, ScoresCatchUp, IsErased
<1>. QED
  BY <1>5, <1>7, <1>8, <1>9, <1>10, <1>11, <1>12 DEF IInv, RowsInv

\* A flow writes to its row the columns that differ from what its session holds, and its
\* group to the row it back-fills; the event it publishes has the words of that row.
LEMMA PersistStep ==
  ASSUME IInv, NEW w \in Workers, Persist(w) PROVE IInv'
<1>. TypeOK /\ IdsSuffice
  BY DEF IInv
<1>1. PICK f : f = flow[w]
  OBVIOUS
<1>2. PICK base \in Held(f) :
      /\ f.at = "persist" /\ flow' = [flow EXCEPT ![w] = Idle]
      /\ row' = [r \in Reports |->
                    IF r = f.on THEN Persisted(r, f, base, row[r])
                    ELSE IF r = f.fill THEN [row[r] EXCEPT !.group = f.group]
                    ELSE row[r]]
      /\ leaked' = IF row[f.on].words = Erased /\ base.words # Erased
                   THEN [leaked EXCEPT ![f.on] = leaked[f.on] + 1] ELSE leaked
      /\ settled' = [settled EXCEPT ![f.on] = Revised(f.snap.slots, f.revised) = f.snap.slots]
      /\ astray' \in BOOLEAN /\ UNCHANGED <<runs, pins, erasures>>
  BY <1>1 DEF Persist, IsErased, EventWords
<1>3. f \in FlowType /\ f.on \in Reports /\ f.on # 0 /\ f.snap \in RowType /\ f.group \in GroupIds \cup {0}
  BY <1>1, <1>2, BusyIsOnAReport DEF FlowType
<1>4. PICK s : s = Persisted(f.on, f, base, row[f.on])
  OBVIOUS
<1>5. row'[f.on] = s /\ row[f.on] \in RowType
  BY <1>2, <1>3, <1>4 DEF TypeOK
<1>6. /\ s \in RowType /\ s.words = row[f.on].words /\ s.raw = row[f.on].raw /\ s.there = row[f.on].there
      /\ s.slots = Revised(f.snap.slots, f.revised) /\ s.group \in {f.group, row[f.on].group}
      /\ s.priority = Priority(f.on, f.snap)
      /\ s.confidence = Confidence(f.snap, f.revised # NoSlots)
  BY <1>3, <1>4, <1>5, PersistedIsTyped
<1>7. ASSUME NEW r \in Reports, r # f.on
      PROVE  /\ row'[r] \in RowType /\ row[r] \in RowType
             /\ row'[r].words = row[r].words /\ row'[r].raw = row[r].raw /\ row'[r].there = row[r].there
             /\ row'[r].slots = row[r].slots /\ row'[r].group \in {f.group, row[r].group}
             /\ row'[r].priority = row[r].priority /\ row'[r].confidence = row[r].confidence
  <2>1. row'[r] = (IF r = f.fill THEN [row[r] EXCEPT !.group = f.group] ELSE row[r]) /\ row[r] \in RowType
    BY <1>2, <1>7 DEF TypeOK
  <2>. QED
    BY <1>3, <2>1 DEF RowType
<1>8. \A r \in Reports : /\ row'[r] \in RowType /\ row'[r].words = row[r].words
                         /\ row'[r].raw = row[r].raw /\ row'[r].there = row[r].there
                         /\ row'[r].group \in {f.group, row[r].group}
  BY <1>5, <1>6, <1>7
<1>9. row' \in [Reports -> RowType]
  BY <1>2, <1>8
<1>10. /\ leaked' \in [Reports -> Nat] /\ settled' \in [Reports -> BOOLEAN]
       /\ \A r \in Reports \ {f.on} : leaked'[r] = leaked[r] /\ settled'[r] = settled[r]
       /\ settled'[f.on] = (Revised(f.snap.slots, f.revised) = f.snap.slots)
       /\ leaked'[f.on] = leaked[f.on] \/ /\ row[f.on].words = Erased /\ f.snap.words # Erased
                                          /\ leaked'[f.on] = leaked[f.on] + 1
  BY <1>2, <1>3 DEF TypeOK, Held
<1>11. TypeOK' /\ flow'[w] = Idle /\ \A v \in Workers \ {w} : flow'[v] = flow[v]
  BY <1>2, <1>9, <1>10, FixedRecords, OneFlowIsTyped DEF TypeOK
<1>12. IdsSuffice'
  <2>1. Working' \subseteq Working
    BY <1>11, FixedRecords DEF Working
  <2>2. f.group = 0 \/ f.group \in IdsInUse
    BY <1>1 DEF IdsInUse
  <2>3. \A r \in Reports : row'[r].group = 0 \/ row'[r].group \in IdsInUse
    BY <1>8, <2>2 DEF IdsInUse
  <2>4. \A v \in Workers : /\ flow'[v].group = 0 \/ flow'[v].group \in IdsInUse
                           /\ flow'[v].snap.group = 0 \/ flow'[v].snap.group \in IdsInUse
    BY <1>11, FixedRecords DEF IdsInUse
  <2>5. IdsInUse' \subseteq IdsInUse
    <3>1. ASSUME NEW i \in IdsInUse' PROVE i \in IdsInUse
      <4>1. /\ i # 0
            /\ \/ \E r \in Reports : i = row'[r].group
               \/ \E v \in Workers : i = flow'[v].group
               \/ \E v \in Workers : i = flow'[v].snap.group
        BY <3>1 DEF IdsInUse
      <4>. QED
        BY <2>3, <2>4, <4>1
    <3>. QED
      BY <3>1
  <2>. QED
    BY <1>2, <2>1, <2>5, IdsStay
<1>13. row[f.on].there /\ (row[f.on].words # Erased => f.snap.words = row[f.on].words /\ f.snap.raw = row[f.on].raw)
  BY <1>1, <1>3 DEF IInv, RowsInv, LoadedIsStored, IsErased
<1>14. ErasedRows' /\ SettledRows'
  <2>1. ASSUME NEW r \in Reports, settled'[r] PROVE row'[r].there
    BY <1>8, <1>10, <1>13, <2>1 DEF IInv, RowsInv, SettledRows
  <2>. QED
    BY <1>8, <2>1 DEF IInv, RowsInv, ErasedRows, SettledRows, IsErased
<1>15. OneFlowPerReport'
  BY <1>11, FixedRecords DEF IInv, RowsInv, OneFlowPerReport
<1>16. LoadedIsStored'
  <2>1. ASSUME NEW v \in Workers, flow'[v].on # 0
        PROVE  /\ row'[flow'[v].on].there
               /\ row'[flow'[v].on].words # Erased =>
                     /\ flow'[v].snap.words = row'[flow'[v].on].words
                     /\ flow'[v].snap.raw = row'[flow'[v].on].raw
    <3>1. v # w /\ flow'[v] = flow[v]
      BY <1>11, <2>1, FixedRecords
    <3>2. PICK r : r = flow[v].on
      OBVIOUS
    <3>3. r \in Reports
      BY <2>1, <3>1, <3>2 DEF TypeOK, FlowType
    <3>4. /\ row[r].there
          /\ row[r].words # Erased => flow[v].snap.words = row[r].words /\ flow[v].snap.raw = row[r].raw
      BY <2>1, <3>1, <3>2 DEF IInv, RowsInv, LoadedIsStored, IsErased
    <3>. QED
      BY <1>8, <3>1, <3>2, <3>3, <3>4
  <2>. QED
    BY <2>1 DEF LoadedIsStored, IsErased
<1>17. LeakedIsOver'
  <2>1. ASSUME NEW q \in Reports, leaked'[q] # 0
        PROVE  /\ leaked'[q] = 1 /\ row'[q].words = Erased
               /\ \A v \in Workers : flow'[v].on = q => flow'[v].snap.words = Erased
    <3>1. leaked[q] # 0 => /\ leaked[q] = 1 /\ row[q].words = Erased
                           /\ \A v \in Workers : flow[v].on = q => flow[v].snap.words = Erased
      BY DEF IInv, RowsInv, LeakedIsOver, IsErased
    <3>2. CASE leaked'[q] = leaked[q]
      BY <1>8, <1>11, <2>1, <3>1, <3>2, FixedRecords, NoRowIsZero
    <3>3. CASE leaked'[q] # leaked[q]
      <4>1. q = f.on /\ row[q].words = Erased /\ f.snap.words # Erased /\ leaked'[q] = leaked[q] + 1
        BY <1>10, <3>3
      <4>2. leaked[q] = 0
        BY <1>1, <3>1, <4>1
      <4>3. \A v \in Workers : flow'[v].on # q
        <5>1. \A v \in Workers \ {w} : flow[v].on # q
          BY <1>1, <1>3, <4>1 DEF IInv, RowsInv, OneFlowPerReport
        <5>. QED
          BY <1>11, <5>1, FixedRecords, NoRowIsZero
      <4>. QED
        BY <1>8, <4>1, <4>2, <4>3
    <3>. QED
      BY <3>2, <3>3
  <2>. QED
    BY <2>1 DEF LeakedIsOver, IsErased
<1>18. ScoresCatchUp'
  <2>1. ASSUME NEW r \in Reports, settled'[r], row'[r].words # Erased
        PROVE  /\ row'[r].priority = Priority(r, row'[r])
               /\ \E b \in BOOLEAN : row'[r].confidence = Confidence(row'[r], b)
    <3>1. PICK x : x = row'[r]
      OBVIOUS
    <3>2. CASE r = f.on
      <4>1. PICK b \in BOOLEAN : b = (f.revised # NoSlots)
        OBVIOUS
      <4>2. x = s /\ s.slots = f.snap.slots /\ s.words = f.snap.words /\ s.raw = f.snap.raw
        BY <1>5, <1>6, <1>10, <1>13, <2>1, <3>1, <3>2
      <4>3. Priority(r, x) = Priority(r, f.snap) /\ Confidence(x, b) = Confidence(f.snap, b)
        BY <4>2, ScoresOfEqualRows
      <4>4. x.confidence = Confidence(f.snap, b) /\ x.priority = Priority(r, f.snap)
        BY <1>6, <3>2, <4>1, <4>2
      <4>. QED
        BY <3>1, <4>3, <4>4
    <3>3. CASE r # f.on
      <4>1. /\ x.slots = row[r].slots /\ x.words = row[r].words /\ x.raw = row[r].raw
            /\ x.priority = row[r].priority /\ x.confidence = row[r].confidence
            /\ settled[r] /\ row[r].words # Erased
        BY <1>7, <1>10, <2>1, <3>1, <3>3
      <4>2. /\ row[r].priority = Priority(r, row[r])
            /\ \E b \in BOOLEAN : row[r].confidence = Confidence(row[r], b)
        BY <4>1 DEF IInv, ScoresCatchUp, IsErased
      <4>3. Priority(r, x) = Priority(r, row[r]) /\ \A b \in BOOLEAN : Confidence(x, b) = Confidence(row[r], b)
        BY <4>1, ScoresOfEqualRows
      <4>. QED
        BY <3>1, <4>1, <4>2, <4>3
    <3>. QED
      BY <3>2, <3>3
  <2>. QED
    BY <2>1 DEF ScoresCatchUp, IsErased
<1>. QED
  BY <1>11, <1>12, <1>14, <1>15, <1>16, <1>17, <1>18 DEF IInv, RowsInv

-----------------------------------------------------------------------------
(* Who else writes the rows.                                               *)

\* Rows are written while no flow moves: words and scores stay, or the row is new, or it
\* is erased.
LEMMA RowStep ==
  ASSUME IInv, UNCHANGED <<flow, runs, leaked, settled, astray>>, row' \in [Reports -> RowType],
         pins' \in 0 .. MaxPins, erasures' \in 0 .. MaxErasures,
         \A r \in Reports :
            \/ /\ row[r].there /\ row'[r].there /\ row'[r].group = row[r].group
               /\ row'[r].words = row[r].words /\ row'[r].raw = row[r].raw
               /\ row'[r].slots = row[r].slots /\ row'[r].priority = row[r].priority
               /\ row'[r].confidence = row[r].confidence
            \/ row'[r] = row[r]
            \/ ~row[r].there /\ row'[r].words # Erased /\ row'[r].group = 0
            \/ /\ row[r].there /\ row'[r].there /\ row'[r].group = row[r].group
               /\ row'[r].words = Erased /\ row'[r].raw = <<Erased>>
  PROVE  IInv'
<1>. TypeOK /\ IdsSuffice
  BY DEF IInv
<1>1. TypeOK'
  BY DEF TypeOK
<1>2. IdsSuffice'
  <2>1. \A r \in Reports : row'[r].group \in {0, row[r].group}
    OBVIOUS
  <2>2. IdsInUse' \subseteq IdsInUse /\ Working' = Working
    BY <2>1 DEF IdsInUse, Working
  <2>. QED
    BY <2>2, IdsStay
<1>3. ErasedRows' /\ SettledRows'
  BY DEF IInv, RowsInv, ErasedRows, SettledRows, IsErased
<1>4. OneFlowPerReport'
  BY DEF IInv, RowsInv, OneFlowPerReport
<1>5. LoadedIsStored'
  <2>1. ASSUME NEW v \in Workers, flow[v].on # 0
        PROVE  /\ row'[flow[v].on].there
               /\ row'[flow[v].on].words # Erased =>
                     /\ flow[v].snap.words = row'[flow[v].on].words
                     /\ flow[v].snap.raw = row'[flow[v].on].raw
    <3>1. PICK r : r = flow[v].on
      OBVIOUS
    <3>2. r \in Reports
      BY <2>1, <3>1 DEF TypeOK, FlowType
    <3>3. /\ row[r].there
          /\ row[r].words # Erased => flow[v].snap.words = row[r].words /\ flow[v].snap.raw = row[r].raw
      BY <2>1, <3>1 DEF IInv, RowsInv, LoadedIsStored, IsErased
    <3>. QED
      BY <3>1, <3>2, <3>3
  <2>. QED
    BY <2>1 DEF LoadedIsStored, IsErased
<1>6. LeakedIsOver'
  BY DEF IInv, RowsInv, LeakedIsOver, ErasedRows, IsErased
<1>7. ScoresCatchUp'
  <2>1. ASSUME NEW r \in Reports, settled[r], row'[r].words # Erased
        PROVE  /\ row'[r].priority = Priority(r, row'[r])
               /\ \E b \in BOOLEAN : row'[r].confidence = Confidence(row'[r], b)
    <3>1. PICK x : x = row'[r]
      OBVIOUS
    <3>2. row[r].there
      BY <2>1 DEF IInv, RowsInv, SettledRows
    <3>3. /\ x.slots = row[r].slots /\ x.words = row[r].words /\ x.raw = row[r].raw
          /\ x.priority = row[r].priority /\ x.confidence = row[r].confidence /\ row[r].words # Erased
      BY <2>1, <3>1, <3>2
    <3>4. /\ row[r].priority = Priority(r, row[r])
          /\ \E b \in BOOLEAN : row[r].confidence = Confidence(row[r], b)
      BY <2>1, <3>3 DEF IInv, ScoresCatchUp, IsErased
    <3>5. Priority(r, x) = Priority(r, row[r]) /\ \A b \in BOOLEAN : Confidence(x, b) = Confidence(row[r], b)
      BY <3>3, ScoresOfEqualRows
    <3>. QED
      BY <3>1, <3>3, <3>4, <3>5
  <2>. QED
    BY <2>1 DEF ScoresCatchUp, IsErased
<1>. QED
  BY <1>1, <1>2, <1>3, <1>4, <1>5, <1>6, <1>7 DEF IInv, RowsInv

\* A report is stored.
LEMMA SubmitStep ==
  ASSUME IInv, NEW r \in Reports, Submit(r) PROVE IInv'
<1>. TypeOK
  BY DEF IInv
<1>1. /\ ~row[r].there /\ row' = [row EXCEPT ![r] = Inserted(r)]
      /\ UNCHANGED <<flow, runs, pins, erasures, leaked, settled, astray>>
  BY DEF Submit
<1>2. row' \in [Reports -> RowType] /\ row'[r] = Inserted(r)
      /\ \A q \in Reports \ {r} : row'[q] = row[q]
  BY <1>1, InsertedIsTyped DEF TypeOK
<1>3. pins' \in 0 .. MaxPins /\ erasures' \in 0 .. MaxErasures
  BY <1>1 DEF TypeOK
<1>. QED
  BY <1>1, <1>2, <1>3, InsertedIsTyped, RowStep

\* The caller corrects the place of a report.
LEMMA DropPinStep ==
  ASSUME IInv, NEW r \in Reports, DropPin(r) PROVE IInv'
<1>. TypeOK
  BY DEF IInv
<1>1. /\ row[r].there /\ pins < MaxPins /\ pins' = pins + 1
      /\ UNCHANGED <<flow, runs, erasures, leaked, settled, astray>>
  BY DEF DropPin
<1>2. PICK x, p, y : x = row[r] /\ p = Pin /\ y = [x EXCEPT !.place = p]
  OBVIOUS
<1>3. row' = [row EXCEPT ![r] = y]
  BY <1>2 DEF DropPin, TypeOK
<1>4. x \in RowType /\ p \in Places
  BY <1>2 DEF TypeOK, Places
<1>5. /\ y \in RowType /\ y.there = row[r].there /\ y.group = row[r].group /\ y.words = row[r].words
      /\ y.raw = row[r].raw /\ y.slots = row[r].slots /\ y.priority = row[r].priority
      /\ y.confidence = row[r].confidence
  <2>1. /\ y \in RowType /\ y.there = x.there /\ y.group = x.group /\ y.words = x.words /\ y.raw = x.raw
        /\ y.slots = x.slots /\ y.priority = x.priority /\ y.confidence = x.confidence
    BY <1>2, <1>4 DEF RowType
  <2>. QED
    BY <1>2, <2>1
<1>6. row' \in [Reports -> RowType] /\ row'[r] = y /\ \A q \in Reports \ {r} : row'[q] = row[q]
  BY <1>3, <1>5 DEF TypeOK
<1>7. pins' \in 0 .. MaxPins /\ erasures' \in 0 .. MaxErasures
  BY <1>1, BoundsAreNaturals DEF TypeOK
<1>. QED
  BY <1>1, <1>5, <1>6, <1>7, RowStep

\* An erasure reaches each row of a caller, and flows in progress may have the words.
LEMMA EraseStep ==
  ASSUME IInv, NEW c \in Callers, Erase(c) PROVE IInv'
<1>. TypeOK
  BY DEF IInv
<1>1. PICK mine :
         /\ mine = {r \in Reports : row[r].there /\ Said[r].caller = c /\ ~IsErased(r)}
         /\ erasures < MaxErasures /\ erasures' = erasures + 1
         /\ row' = [r \in Reports |->
                      IF r \in mine THEN [row[r] EXCEPT !.words = Erased, !.raw = <<Erased>>] ELSE row[r]]
         /\ UNCHANGED <<flow, runs, pins, leaked, settled, astray>>
  BY DEF Erase
<1>2. ASSUME NEW r \in Reports
      PROVE  /\ row'[r] \in RowType
             /\ \/ row'[r] = row[r]
                \/ /\ row[r].there /\ row'[r].there /\ row'[r].group = row[r].group
                   /\ row'[r].words = Erased /\ row'[r].raw = <<Erased>>
  <2>1. row[r] \in RowType /\ Erased \in Texts /\ <<Erased>> \in Raws
    BY DEF TypeOK, Texts, Raws
  <2>2. row'[r] = IF r \in mine THEN [row[r] EXCEPT !.words = Erased, !.raw = <<Erased>>] ELSE row[r]
    BY <1>1
  <2>3. CASE r \in mine
    <3>1. row[r].there
      BY <1>1, <2>3
    <3>2. PICK x, e, t, y : /\ x = row[r] /\ e = Erased /\ t = <<Erased>>
                            /\ y = [x EXCEPT !.words = e, !.raw = t]
      OBVIOUS
    <3>3. /\ y \in RowType /\ y.there = x.there /\ y.group = x.group /\ y.words = e /\ y.raw = t
      BY <2>1, <3>2 DEF RowType
    <3>. QED
      BY <2>2, <2>3, <3>1, <3>2, <3>3
  <2>. QED
    BY <2>1, <2>2, <2>3
<1>3. row' \in [Reports -> RowType]
  BY <1>1, <1>2
<1>4. pins' \in 0 .. MaxPins /\ erasures' \in 0 .. MaxErasures
  <2>1. erasures < MaxErasures /\ erasures' = erasures + 1 /\ UNCHANGED pins
    BY DEF Erase
  <2>. QED
    BY <2>1, BoundsAreNaturals DEF TypeOK
<1>. QED
  BY <1>1, <1>2, <1>3, <1>4, RowStep

-----------------------------------------------------------------------------
(* The inductive invariant of the groups, while nothing is astray.         *)

\* The words of q, before they are resolved, name the place of q's incident.
RawSays(q) ==
    /\ Said[q].raw # <<>>
    /\ OccursIn(Where(q), Said[q].raw) \/ OccursIn(Said[q].raw, Where(q))

\* Rows are inserted in order, and only a flow that ends changes what is compared.
PlainRows ==
    \A r \in Reports :
        /\ ~row[r].there => row[r] = Absent
        /\ row[r].there => /\ \A q \in Reports : q < r => row[q].there
                           /\ row[r].slots.hazard = Said[r].slots.hazard
                           /\ row[r].words = Said[r].words /\ row[r].raw = Said[r].raw
                           /\ row[r].place = IF Done(r) THEN Where(r) ELSE <<>>

\* The one flow under way has the row as it is.
PlainFlows ==
    /\ \A v, w \in Workers : flow[v] # Idle /\ flow[w] # Idle => v = w
    /\ \A w \in Workers : flow[w] # Idle =>
          /\ flow[w].snap = row[flow[w].on]
          /\ flow[w].at # "extract" => flow[w].place = Where(flow[w].on)
          /\ flow[w].fill # 0 => row[flow[w].fill].there

\* The groups of an incident: one group at most; whoever is enriched is in it as soon
\* as another report is enriched or in it; alone is only who could not see another.
Together(I) ==
    /\ \A q, s \in I : row[q].group # 0 /\ row[s].group # 0 => row[q].group = row[s].group
    /\ \A r, q \in I : r # q /\ Done(r) /\ (Done(q) \/ row[q].group # 0) => row[r].group # 0
    /\ \A r, u \in I : Done(r) /\ row[r].group = 0 /\ u < r => ~RawSays(u)
    /\ \A q \in I : row[q].group # 0 => Done(q) \/ RawSays(q)

\* What a flow f of the incident's found: nobody enriched and in a group, and the one
\* enriched report, if any, is the one to fill; a group of others; or nobody.
Opens(I, f) ==
    /\ f.fill \in I \ {f.on} /\ f.group # 0
    /\ Done(f.fill) \/ RawSays(f.fill)
    /\ \A q \in I \ {f.on} : row[q].group = 0 /\ (Done(q) => q = f.fill)
Joins(I, f) ==
    /\ f.fill = 0 /\ f.group # 0
    /\ \E c \in I \ {f.on} : row[c].group = f.group
Alone(I, f) ==
    /\ f.fill = 0 /\ f.group = 0
    /\ \A q \in I \ {f.on} : row[q].group = 0 /\ ~Done(q)
    /\ \A u \in I : u < f.on => ~RawSays(u)

Found(I, f) == IF f.on \in I THEN Opens(I, f) \/ Joins(I, f) \/ Alone(I, f) ELSE f.fill \notin I

\* A group has reports of one incident only, also the group that a flow has found.
Apart(I) ==
    /\ \A r \in I, q \in Reports \ I : row[r].group # 0 => row[r].group # row[q].group
    /\ \A w \in Workers, q \in Reports :
          flow[w].at = "persist" /\ flow[w].group # 0 /\ row[q].group = flow[w].group
             => (q \in I <=> flow[w].on \in I)

GroupsInv ==
    Plain => /\ PlainRows /\ PlainFlows
             /\ \A I \in Incidents :
                   /\ Together(I) /\ Apart(I)
                   /\ \A w \in Workers : flow[w].at = "persist" => Found(I, flow[w])

-----------------------------------------------------------------------------
(* Which reports a flow of an incident compares with.                      *)

\* The words of a place occur in themselves.
LEMMA PlaceOccursInItself ==
  ASSUME NEW r
  PROVE  Where(r) # <<>> => OccursIn(Where(r), Where(r))
<1>1. ASSUME NEW a, NEW b, NEW c
      PROVE  /\ <<a, b>> # <<>> /\ OccursIn(<<a, b>>, <<a, b>>)
             /\ <<a, b, c>> # <<>> /\ OccursIn(<<a, b, c>>, <<a, b, c>>)
  <2>1. ASSUME NEW S, NEW s \in Seq(S) PROVE OccursIn(s, s)
    <3>1. SubSeq(s, 1, Len(s)) = s /\ Len(s) \in Nat
      BY SubSeqFull
    <3>2. 0 \in 0 .. Len(s) - Len(s) /\ SubSeq(s, 0 + 1, 0 + Len(s)) = s
      BY <3>1
    <3>. QED
      BY <3>2 DEF OccursIn
  <2>2. <<a, b>> \in Seq({a, b, c}) /\ <<a, b, c>> \in Seq({a, b, c})
    OBVIOUS
  <2>3. OccursIn(<<a, b>>, <<a, b>>) /\ OccursIn(<<a, b, c>>, <<a, b, c>>)
    BY <2>1, <2>2
  <2>4. Len(<<a, b>>) # Len(<<>>) /\ Len(<<a, b, c>>) # Len(<<>>)
    OBVIOUS
  <2>. QED
    BY <2>3, <2>4
<1>2. PICK e : e = Resolve(Said[r].raw)
  OBVIOUS
<1>. QED
  BY <1>1, <1>2 DEF Where, Resolved

\* A row that a flow of r takes up is one that it may be mistaken for.
LEMMA CandidatesMayBe ==
  ASSUME PlainRows, NEW f, f.on \in Reports, row[f.on].there, f.snap = row[f.on],
         NEW c \in Candidates(f, Needle(f.on))
  PROVE  c \in Reports \ {f.on} /\ row[c].there /\ May(f.on, c)
<1>1. /\ c \in Reports \ {f.on} /\ row[c].there /\ row[c].slots.hazard = f.snap.slots.hazard
      /\ LocationMatches(Needle(f.on), row[c]) /\ Alike(f.snap.words, row[c].words)
  BY DEF Candidates
<1>2. /\ row[c].slots.hazard = Said[c].slots.hazard /\ row[c].words = Said[c].words
      /\ row[c].raw = Said[c].raw /\ row[c].place \in {<<>>, Where(c)}
      /\ f.snap.slots.hazard = Said[f.on].slots.hazard /\ f.snap.words = Said[f.on].words
  BY <1>1 DEF PlainRows
<1>3. \E h \in {Where(c), Said[c].raw} \ {<<>>} :
         OccursIn(Needle(f.on), h) \/ OccursIn(h, Needle(f.on))
  BY <1>1, <1>2 DEF LocationMatches
<1>4. Alike(Said[f.on].words, Said[c].words)
  BY <1>1, <1>2
<1>. QED
  BY <1>1, <1>2, <1>3, <1>4 DEF May

\* Of the reports of its incident a flow takes up those that are enriched or say the
\* place in their own words.
LEMMA CandidatesOfAnIncident ==
  ASSUME PlainRows, NEW f, f.on \in Reports, row[f.on].there, f.snap = row[f.on],
         NEW I \in Incidents, f.on \in I
  PROVE  /\ \A c \in Candidates(f, Needle(f.on)) :
               c \in I \ {f.on} /\ row[c].there /\ (Done(c) \/ RawSays(c))
         /\ \A c \in I \ {f.on} :
               row[c].there /\ (Done(c) \/ RawSays(c)) => c \in Candidates(f, Needle(f.on))
<1>1. /\ I \subseteq Reports
      /\ \A r \in I : None \notin {Said[r].slots.hazard, Said[r].words} /\ Where(r) # <<>>
      /\ \A r, s \in I : r # s =>
            /\ r <= s + Window /\ Where(r) = Where(s)
            /\ Said[r].slots.hazard = Said[s].slots.hazard
            /\ Alike(Said[r].words, Said[s].words)
      /\ \A r \in I, q \in Reports \ I : ~May(r, q) /\ ~May(q, r)
  BY DEF Incidents
<1>2. Needle(f.on) = Where(f.on)
  BY <1>1 DEF Needle
<1>3. ASSUME NEW c \in Candidates(f, Needle(f.on))
      PROVE  c \in I \ {f.on} /\ row[c].there /\ (Done(c) \/ RawSays(c))
  <2>1. c \in I \ {f.on} /\ row[c].there
    BY <1>1, <1>3, CandidatesMayBe
  <2>2. Where(c) = Where(f.on)
    BY <1>1, <2>1
  <2>3. LocationMatches(Where(f.on), row[c])
    BY <1>2, <1>3 DEF Candidates
  <2>4. row[c].raw = Said[c].raw /\ (Done(c) \/ row[c].place = <<>>)
    BY <1>1, <2>1 DEF PlainRows
  <2>5. CASE ~Done(c)
    <3>1. \E h \in {Said[c].raw} \ {<<>>} : OccursIn(Where(c), h) \/ OccursIn(h, Where(c))
      BY <2>2, <2>3, <2>4, <2>5 DEF LocationMatches
    <3>. QED
      BY <2>1, <3>1 DEF RawSays
  <2>. QED
    BY <2>1, <2>5
<1>4. ASSUME NEW c \in I \ {f.on}, row[c].there, Done(c) \/ RawSays(c)
      PROVE  c \in Candidates(f, Needle(f.on))
  <2>1. /\ row[c].slots.hazard = Said[c].slots.hazard /\ row[c].words = Said[c].words
        /\ row[c].raw = Said[c].raw /\ (Done(c) => row[c].place = Where(c))
        /\ f.snap.slots.hazard = Said[f.on].slots.hazard /\ f.snap.words = Said[f.on].words
    BY <1>1, <1>4 DEF PlainRows
  <2>2. /\ f.on <= c + Window /\ Where(c) = Where(f.on) /\ Where(c) # <<>>
        /\ Said[f.on].slots.hazard = Said[c].slots.hazard /\ Said[c].words # None
    BY <1>1, <1>4
  <2>3. Alike(Said[f.on].words, Said[c].words)
    BY <1>1, <1>4
  <2>4. LocationMatches(Where(f.on), row[c])
    <3>1. CASE Done(c)
      BY <2>1, <2>2, <3>1, PlaceOccursInItself DEF LocationMatches
    <3>2. CASE RawSays(c)
      BY <2>1, <2>2, <3>2 DEF LocationMatches, RawSays
    <3>. QED
      BY <1>4, <3>1, <3>2
  <2>5. c \in Reports \ {f.on} /\ c + Window >= f.on
    <3>1. c \in Nat /\ f.on \in Nat /\ Window \in Nat
      BY <1>1, <1>4, ReportsAssumption, BoundsAssumption
    <3>. QED
      BY <1>1, <1>4, <2>2, <3>1
  <2>6. Alike(f.snap.words, row[c].words)
    BY <2>1, <2>3
  <2>. QED
    BY <1>2, <1>4, <2>1, <2>2, <2>4, <2>5, <2>6 DEF Candidates
<1>. QED
  BY <1>3, <1>4

\* A report outside an incident finds nobody of it.
LEMMA CandidatesOfOthers ==
  ASSUME PlainRows, NEW f, f.on \in Reports, row[f.on].there, f.snap = row[f.on],
         NEW I \in Incidents
  PROVE  \A c \in Candidates(f, Needle(f.on)) : c \in I <=> f.on \in I
<1>1. \A r \in I, q \in Reports \ I : ~May(r, q) /\ ~May(q, r)
  BY DEF Incidents
<1>2. I \subseteq Reports
  BY DEF Incidents
<1>. QED
  BY <1>1, <1>2, CandidatesMayBe

\* What a flow finds when it looks for its group, for each incident there is.
LEMMA DedupeFinds ==
  ASSUME TypeOK, IdsSuffice, PlainRows, NEW w \in Working,
         flow[w].on \in Reports, row[flow[w].on].there, flow[w].snap = row[flow[w].on],
         NEW I \in Incidents, Together(I), Apart(I),
         NEW g, LET f == flow[w]
                    C == Candidates(f, Needle(f.on))
                IN  (C # {} /\ g \in Grouped(f, C)) \/ ((f.on \in I => C = {}) /\ g = <<0, 0>>)
  PROVE  \A y : y.on = flow[w].on /\ y.group = g[1] /\ y.fill = g[2] =>
            /\ Found(I, y)
            /\ \A q \in Reports : y.group # 0 /\ row[q].group = y.group => (q \in I <=> y.on \in I)
<1>. SUFFICES ASSUME NEW y, y.on = flow[w].on, y.group = g[1], y.fill = g[2]
              PROVE  /\ Found(I, y)
                     /\ \A q \in Reports : y.group # 0 /\ row[q].group = y.group
                           => (q \in I <=> y.on \in I)
  OBVIOUS
<1>0. PICK f : f = flow[w]
  OBVIOUS
<1>. /\ f.on \in Reports /\ row[f.on].there /\ f.snap = row[f.on] /\ y.on = f.on
  BY <1>0
<1>1. PICK C : /\ C = Candidates(f, Needle(f.on))
               /\ (C # {} /\ g \in Grouped(f, C)) \/ ((f.on \in I => C = {}) /\ g = <<0, 0>>)
  BY <1>0
<1>2. I \subseteq Reports /\ C \subseteq Reports \ {f.on} /\ 0 \notin Reports
  BY <1>1, NoRowIsZero DEF Incidents, Candidates
<1>3. \A c \in C : c \in I <=> f.on \in I
  BY <1>1, CandidatesOfOthers
<1>4. f.on \in I => /\ \A c \in C : Done(c) \/ RawSays(c)
                    /\ \A c \in I \ {f.on} : row[c].there /\ (Done(c) \/ RawSays(c)) => c \in C
  BY <1>1, CandidatesOfAnIncident
<1>5. \A q \in Reports : Done(q) \/ row[q].group # 0 => row[q].there
  BY FixedRecords DEF PlainRows, Done
<1>6. /\ \A r, q \in I : r # q /\ Done(r) /\ (Done(q) \/ row[q].group # 0) => row[r].group # 0
      /\ \A r, u \in I : Done(r) /\ row[r].group = 0 /\ u < r => ~RawSays(u)
      /\ \A q \in I : row[q].group # 0 => Done(q) \/ RawSays(q)
  BY DEF Together
<1>7. CASE C # {} /\ g \in Grouped(f, C) /\ {c \in C : row[c].group # 0} # {}
  <2>1. g \in {<<row[c].group, 0>> : c \in {d \in {c \in C : row[c].group # 0} :
                  \A e \in {c \in C : row[c].group # 0} :
                      Nearness(f.snap.words, row[d].words) >= Nearness(f.snap.words, row[e].words)}}
    BY <1>1, <1>7 DEF Grouped
  <2>2. PICK c \in C : row[c].group # 0 /\ g = <<row[c].group, 0>>
    BY <2>1
  <2>3. Found(I, y)
    BY <1>2, <1>3, <2>2 DEF Found, Joins
  <2>4. ASSUME NEW q \in Reports, row[q].group = row[c].group PROVE q \in I <=> f.on \in I
    BY <1>2, <1>3, <2>2, <2>4 DEF Apart
  <2>. QED
    BY <2>2, <2>3, <2>4
<1>8. CASE C # {} /\ g \in Grouped(f, C) /\ {c \in C : row[c].group # 0} = {}
  <2>1. g = <<Fresh, CHOOSE c \in C : \A d \in C : c <= d>>
    BY <1>1, <1>8 DEF Grouped
  <2>2. PICK first : first = CHOOSE c \in C : \A d \in C : c <= d
    OBVIOUS
  <2>3. first \in C /\ \A d \in C : first <= d
    <3>1. C \subseteq Nat
      BY <1>2, ReportsAssumption
    <3>2. PICK c \in C : \A d \in C : <<d, c>> \notin OpToRel(<, Nat)
      BY <1>8, <3>1, NatLessThanWellFounded, WFMin, Zenon
    <3>3. \A d \in C : ~(d < c)
      BY <3>1, <3>2 DEF OpToRel
    <3>4. \A d \in C : c <= d
      BY <3>1, <3>3
    <3>. QED
      BY <2>2, <3>4
  <2>4. Fresh \in GroupIds \ IdsInUse
    BY FreshExists
  <2>5. y.group # 0 /\ y.fill = first /\ y.group \notin IdsInUse
    BY <2>1, <2>2, <2>4 DEF GroupIds
  <2>6. \A q \in Reports : row[q].group # y.group
    BY <2>5 DEF IdsInUse
  <2>7. ASSUME f.on \in I PROVE Opens(I, y)
    <3>1. first \in I \ {f.on} /\ (Done(first) \/ RawSays(first))
      BY <1>2, <1>3, <1>4, <2>3, <2>7
    <3>2. ASSUME NEW q \in I \ {f.on} PROVE row[q].group = 0
      BY <1>2, <1>4, <1>5, <1>6, <1>8, <2>7, <3>2
    <3>3. ASSUME NEW q \in I \ {f.on}, Done(q), q # first PROVE FALSE
      <4>1. q \in C /\ row[q].group = 0
        BY <1>2, <1>4, <1>5, <2>7, <3>2, <3>3
      <4>2. first < q
        <5>1. first \in Nat /\ q \in Nat /\ first <= q
          BY <1>2, <2>3, <4>1, ReportsAssumption
        <5>. QED
          BY <3>3, <5>1
      <4>. QED
        BY <1>6, <3>1, <3>3, <4>1, <4>2
    <3>. QED
      BY <2>5, <3>1, <3>2, <3>3 DEF Opens
  <2>8. Found(I, y)
    BY <1>3, <2>3, <2>5, <2>7 DEF Found
  <2>. QED
    BY <2>6, <2>8
<1>9. CASE (f.on \in I => C = {}) /\ g = <<0, 0>>
  <2>1. y.group = 0 /\ y.fill = 0
    BY <1>1, <1>9
  <2>2. ASSUME f.on \in I PROVE Alone(I, y)
    <3>1. C = {}
      BY <1>9, <2>2
    <3>2. \A q \in I \ {f.on} : row[q].group = 0 /\ ~Done(q)
      BY <1>2, <1>4, <1>5, <1>6, <2>2, <3>1
    <3>3. ASSUME NEW u \in I, u < f.on PROVE ~RawSays(u)
      <4>1. row[u].there
        BY <1>2, <3>3 DEF PlainRows
      <4>2. u # f.on
        <5>1. f.on \in Nat
          BY ReportsAssumption
        <5>. QED
          BY <3>3, <5>1
      <4>. QED
        BY <1>4, <2>2, <3>1, <4>1, <4>2
    <3>. QED
      BY <2>1, <3>2, <3>3 DEF Alone
  <2>. QED
    BY <1>2, <2>1, <2>2 DEF Found
<1>. QED
  BY <1>1, <1>7, <1>8, <1>9

\* The report that a flow will back-fill is one of its candidates.
LEMMA FillIsThere ==
  ASSUME NEW f, NEW needle, NEW C, C = Candidates(f, needle), C # {}, NEW g \in Grouped(f, C), g[2] # 0
  PROVE  row[g[2]].there
<1>1. C = Candidates(f, needle)
  OBVIOUS
<1>2. C \subseteq Nat /\ \A c \in C : row[c].there
  BY <1>1, ReportsAssumption DEF Candidates
<1>3. C # {} /\ g \in Grouped(f, C)
  OBVIOUS
<1>4. {c \in C : row[c].group # 0} = {}
  <2>1. ASSUME {c \in C : row[c].group # 0} # {} PROVE FALSE
    <3>1. \E c \in C : g = <<row[c].group, 0>>
      BY <1>3, <2>1 DEF Grouped
    <3>. QED
      BY <3>1
  <2>. QED
    BY <2>1
<1>5. g = <<Fresh, CHOOSE c \in C : \A d \in C : c <= d>>
  BY <1>3, <1>4 DEF Grouped
<1>6. PICK c \in C : \A d \in C : <<d, c>> \notin OpToRel(<, Nat)
  BY <1>2, <1>3, NatLessThanWellFounded, WFMin, Zenon
<1>7. \A d \in C : ~(d < c)
  BY <1>2, <1>6 DEF OpToRel
<1>8. \A d \in C : c <= d
  BY <1>2, <1>7
<1>9. PICK first : first = CHOOSE b \in C : \A d \in C : b <= d
  OBVIOUS
<1>10. first \in C
  BY <1>8, <1>9
<1>. QED
  BY <1>2, <1>5, <1>9, <1>10

-----------------------------------------------------------------------------
(* The steps, as the groups see them.                                      *)

\* Neither overlaps nor revised hazards, pins or erasures are ever forgotten.
LEMMA PlainBefore ==
  ASSUME IInv, [Next]_vars, Plain'
  PROVE  /\ Plain
         /\ \A r \in Reports : ~DropPin(r)
         /\ \A c \in Callers : ~Erase(c)
<1>1. pins \in Nat /\ erasures \in Nat
  BY BoundsAreNaturals DEF IInv, TypeOK
<1>2. astray' = FALSE /\ pins' = 0 /\ erasures' = 0
  BY DEF Plain
<1>3. ASSUME NEW r \in Reports, DropPin(r) PROVE FALSE
  <2>1. pins' = pins + 1
    BY <1>3 DEF DropPin
  <2>. QED
    BY <1>1, <1>2, <2>1
<1>4. ASSUME NEW c \in Callers, Erase(c) PROVE FALSE
  <2>1. erasures' = erasures + 1
    BY <1>4 DEF Erase
  <2>. QED
    BY <1>1, <1>2, <2>1
<1>5. CASE UNCHANGED vars
  <2>1. UNCHANGED <<pins, erasures, astray>>
    BY <1>5 DEF vars
  <2>. QED
    BY <1>2, <1>3, <1>4, <2>1 DEF Plain
<1>6. ASSUME NEW r \in Reports, Submit(r) PROVE Plain
  BY <1>2, <1>6 DEF Submit, Plain
<1>7. ASSUME NEW w \in Workers, NEW r \in Reports, Assemble(w, r) PROVE Plain
  <2>1. UNCHANGED <<pins, erasures>> /\ (astray => astray')
    BY <1>7, Zenon DEF Assemble
  <2>. QED
    BY <1>2, <2>1 DEF Plain
<1>8. ASSUME NEW w \in Workers, Extract(w) \/ Dedupe(w) \/ Fail(w) PROVE Plain
  <2>1. UNCHANGED <<pins, erasures, astray>>
    BY <1>8 DEF Extract, Dedupe, Fail
  <2>. QED
    BY <1>2, <2>1 DEF Plain
<1>9. ASSUME NEW w \in Workers, Persist(w) PROVE Plain
  <2>1. UNCHANGED <<pins, erasures>> /\ (astray => astray')
    BY <1>9, Zenon DEF Persist
  <2>. QED
    BY <1>2, <2>1 DEF Plain
<1>. QED
  BY <1>3, <1>4, <1>5, <1>6, <1>7, <1>8, <1>9 DEF Next

\* Whoever neither groups nor enriches leaves the incidents as they are.
LEMMA GroupsStay ==
  ASSUME GroupsInv, Plain, PlainRows', PlainFlows',
         \A q \in Reports : row'[q].group = row[q].group /\ row'[q].priority = row[q].priority,
         \A v \in Workers : flow'[v].at = "persist" => flow'[v] = flow[v]
  PROVE  GroupsInv'
<1>1. ASSUME NEW I \in Incidents
      PROVE  /\ Together(I)' /\ Apart(I)'
             /\ \A v \in Workers : flow'[v].at = "persist" => Found(I, flow[v])'
  <2>1. Together(I) /\ Apart(I) /\ \A v \in Workers : flow[v].at = "persist" => Found(I, flow[v])
    BY DEF GroupsInv
  <2>2. I \subseteq Reports
    BY DEF Incidents
  <2>3. \A q \in I : Done(q)' <=> Done(q)
    BY <2>2 DEF Done
  <2>4. Together(I)'
    BY <2>1, <2>2, <2>3 DEF Together, RawSays, Where
  <2>5. Apart(I)'
    BY <2>1, <2>2 DEF Apart
  <2>6. ASSUME NEW v \in Workers, flow'[v].at = "persist" PROVE Found(I, flow[v])'
    <3>1. PICK f : f = flow[v]
      OBVIOUS
    <3>2. flow'[v] = f /\ Found(I, f)
      BY <2>1, <2>6, <3>1
    <3>3. Opens(I, f) => Opens(I, f)'
      BY <2>2, <2>3 DEF Opens, RawSays, Where
    <3>4. Joins(I, f) => Joins(I, f)'
      BY <2>2 DEF Joins
    <3>5. Alone(I, f) => Alone(I, f)'
      BY <2>2, <2>3 DEF Alone, RawSays, Where
    <3>6. Found(I, f)'
      BY <3>2, <3>3, <3>4, <3>5 DEF Found
    <3>. QED
      BY <3>2, <3>6 DEF Found, Opens, Joins, Alone
  <2>. QED
    BY <2>4, <2>5, <2>6
<1>. QED
  BY <1>1 DEF GroupsInv

\* A new report is enriched by nobody and in no group yet.
LEMMA SubmitGroups ==
  ASSUME IInv, GroupsInv, Plain, NEW r \in Reports, Submit(r) PROVE GroupsInv'
<1>1. /\ ~row[r].there /\ \A q \in Reports : q < r => row[q].there
      /\ row' = [row EXCEPT ![r] = Inserted(r)] /\ UNCHANGED flow
  BY DEF Submit
<1>2. PlainRows /\ PlainFlows /\ row[r] = Absent
  BY <1>1 DEF GroupsInv, PlainRows
<1>3. row'[r] = Inserted(r) /\ \A q \in Reports \ {r} : row'[q] = row[q]
  BY <1>1 DEF IInv, TypeOK
<1>4. PICK y : y = Inserted(r)
  OBVIOUS
<1>5. /\ y.there /\ y.slots = Said[r].slots /\ y.words = Said[r].words /\ y.raw = Said[r].raw
      /\ y.place = <<>> /\ y.group = 0 /\ y.priority = -1
  BY <1>4 DEF Inserted, Absent
<1>6. \A q \in Reports : row'[q].group = row[q].group /\ row'[q].priority = row[q].priority
  BY <1>2, <1>3, <1>4, <1>5, FixedRecords
<1>7. PlainRows'
  <2>1. \A q \in Reports : row[q].there => row'[q].there
    BY <1>3, <1>4, <1>5
  <2>2. ASSUME NEW q \in Reports, q # r
        PROVE  /\ ~row'[q].there => row'[q] = Absent
               /\ row'[q].there => /\ \A p \in Reports : p < q => row'[p].there
                                   /\ row'[q].slots.hazard = Said[q].slots.hazard
                                   /\ row'[q].words = Said[q].words /\ row'[q].raw = Said[q].raw
                                   /\ row'[q].place = IF row'[q].priority # -1 THEN Where(q) ELSE <<>>
    BY <1>2, <1>3, <2>1, <2>2 DEF PlainRows, Done
  <2>3. /\ row'[r].there /\ \A p \in Reports : p < r => row'[p].there
        /\ row'[r].slots.hazard = Said[r].slots.hazard
        /\ row'[r].words = Said[r].words /\ row'[r].raw = Said[r].raw
        /\ row'[r].place = IF row'[r].priority # -1 THEN Where(r) ELSE <<>>
    BY <1>1, <1>3, <1>4, <1>5, <2>1
  <2>. QED
    BY <2>2, <2>3 DEF PlainRows, Done, Where
<1>8. PlainFlows'
  <2>1. ASSUME NEW w \in Workers, flow[w] # Idle
        PROVE  /\ flow[w].snap = row'[flow[w].on]
               /\ flow[w].at # "extract" => flow[w].place = Where(flow[w].on)
               /\ flow[w].fill # 0 => row'[flow[w].fill].there
    <3>1. flow[w].on \in Reports /\ flow[w].on # 0 /\ flow[w].fill \in Reports \cup {0}
      BY <2>1, BusyIsOnAReport DEF IInv, FlowType
    <3>2. row[flow[w].on].there
      BY <3>1 DEF IInv, RowsInv, LoadedIsStored
    <3>3. /\ flow[w].snap = row[flow[w].on]
          /\ flow[w].at # "extract" => flow[w].place = Where(flow[w].on)
          /\ flow[w].fill # 0 => row[flow[w].fill].there
      BY <1>2, <2>1 DEF PlainFlows
    <3>. QED
      BY <1>1, <1>3, <3>1, <3>2, <3>3
  <2>2. \A v, w \in Workers : flow[v] # Idle /\ flow[w] # Idle => v = w
    BY <1>2 DEF PlainFlows
  <2>. QED
    BY <1>1, <2>1, <2>2 DEF PlainFlows, Where
<1>. QED
  BY <1>1, <1>6, <1>7, <1>8, GroupsStay

\* The rows are what is plain about them when no row changes.
LEMMA PlainRowsStay ==
  ASSUME PlainRows, UNCHANGED row PROVE PlainRows'
  BY DEF PlainRows, Done, Where

\* A flow that starts is the only one, and has the row as it is.
LEMMA AssembleGroups ==
  ASSUME IInv, GroupsInv, Plain, Plain', NEW w \in Workers, NEW r \in Reports, Assemble(w, r)
  PROVE  GroupsInv'
<1>1. /\ flow[w] = Idle /\ row[r].there /\ UNCHANGED row
      /\ flow' = [flow EXCEPT ![w] = [Idle EXCEPT !.on = r, !.at = "extract", !.snap = row[r]]]
  BY DEF Assemble
<1>2. \A v \in Workers \ {w} : flow[v] = Idle
  <2>1. astray' = (astray \/ \E v \in Workers \ {w} : flow[v] # Idle)
    BY DEF Assemble
  <2>. QED
    BY <2>1 DEF Plain
<1>3. PICK y : y = [Idle EXCEPT !.on = r, !.at = "extract", !.snap = row[r]]
  OBVIOUS
<1>4. y.on = r /\ y.at = "extract" /\ y.snap = row[r] /\ y.fill = 0
  BY <1>3 DEF Idle
<1>5. flow'[w] = y /\ \A v \in Workers \ {w} : flow'[v] = flow[v]
  BY <1>1, <1>3 DEF IInv, TypeOK
<1>6. PlainRows'
  BY <1>1, PlainRowsStay DEF GroupsInv
<1>7. PlainFlows'
  <2>1. ASSUME NEW v \in Workers, flow'[v] # Idle
        PROVE  /\ v = w /\ flow'[v].snap = row[flow'[v].on]
               /\ flow'[v].at = "extract" /\ flow'[v].fill = 0
    BY <1>2, <1>4, <1>5, <2>1
  <2>. QED
    BY <1>1, <2>1 DEF PlainFlows
<1>8. \A v \in Workers : flow'[v].at = "persist" => flow'[v] = flow[v]
  BY <1>4, <1>5
<1>. QED
  BY <1>1, <1>6, <1>7, <1>8, GroupsStay

\* The gazetteer resolves what the caller said.
LEMMA ExtractGroups ==
  ASSUME IInv, GroupsInv, Plain, NEW w \in Workers, Extract(w) PROVE GroupsInv'
<1>. TypeOK /\ PlainRows /\ PlainFlows
  BY DEF IInv, GroupsInv
<1>1. flow[w].at = "extract" /\ UNCHANGED row
  BY DEF Extract
<1>2. PICK f : f = flow[w]
  OBVIOUS
<1>3. /\ f \in FlowType /\ f.on \in Reports /\ row[f.on].there /\ f.snap = row[f.on]
      /\ f.fill # 0 => row[f.fill].there
  BY <1>1, <1>2, BusyIsOnAReport, FixedRecords DEF IInv, RowsInv, LoadedIsStored, PlainFlows
<1>4. f.snap.raw = Said[f.on].raw
  BY <1>3 DEF PlainRows
<1>5. PICK a : flow' = [flow EXCEPT ![w].at = "dedupe", ![w].revised = Gated(a),
                           ![w].place = Resolved(Resolve(flow[w].snap.raw))]
  BY DEF Extract
<1>6. PICK y : y = [f EXCEPT !.at = "dedupe", !.revised = Gated(a), !.place = Where(f.on)]
  OBVIOUS
<1>7. y.on = f.on /\ y.at = "dedupe" /\ y.snap = f.snap /\ y.place = Where(f.on) /\ y.fill = f.fill
  BY <1>3, <1>6 DEF FlowType
<1>8. flow' = [flow EXCEPT ![w] = y]
  BY <1>2, <1>4, <1>5, <1>6 DEF TypeOK, Where
<1>9. flow'[w] = y /\ \A v \in Workers \ {w} : flow'[v] = flow[v]
  BY <1>8 DEF TypeOK
<1>10. PlainRows'
  BY <1>1, PlainRowsStay
<1>11. PlainFlows'
  <2>1. ASSUME NEW v \in Workers, flow'[v] # Idle
        PROVE  /\ v = w /\ flow'[v] = y
    <3>1. flow[w] # Idle
      BY <1>1, FixedRecords
    <3>. QED
      BY <1>9, <2>1, <3>1 DEF PlainFlows
  <2>. QED
    BY <1>1, <1>3, <1>7, <2>1 DEF PlainFlows, Where
<1>12. \A v \in Workers : flow'[v].at = "persist" => flow'[v] = flow[v]
  BY <1>7, <1>9
<1>. QED
  BY <1>1, <1>10, <1>11, <1>12, GroupsStay

\* A flow that ends early has told nobody of what it found.
LEMMA FailGroups ==
  ASSUME IInv, GroupsInv, Plain, NEW w \in Workers, Fail(w) PROVE GroupsInv'
<1>1. UNCHANGED row /\ flow' = [flow EXCEPT ![w] = Idle]
  BY DEF Fail
<1>2. \A v \in Workers : flow'[v] = Idle \/ flow'[v] = flow[v]
  BY <1>1 DEF IInv, TypeOK
<1>3. PlainRows'
  BY <1>1, PlainRowsStay DEF GroupsInv
<1>4. PlainFlows'
  BY <1>1, <1>2 DEF GroupsInv, PlainFlows, Where
<1>5. \A v \in Workers : flow'[v].at = "persist" => flow'[v] = flow[v]
  BY <1>2, FixedRecords
<1>. QED
  BY <1>1, <1>3, <1>4, <1>5, GroupsStay

\* A flow that looks for its group finds that of its incident.
LEMMA DedupeGroups ==
  ASSUME IInv, GroupsInv, Plain, NEW w \in Workers, Dedupe(w) PROVE GroupsInv'
<1>. TypeOK /\ IdsSuffice /\ PlainRows /\ PlainFlows
  BY DEF IInv, GroupsInv
<1>1. flow[w].at = "dedupe" /\ w \in Working /\ UNCHANGED row
  BY DEF Dedupe, Working
<1>2. PICK f : f = flow[w]
  OBVIOUS
<1>3. flow[w] # Idle
  BY <1>1, FixedRecords
<1>4. /\ f \in FlowType /\ f.on \in Reports /\ row[f.on].there /\ f.snap = row[f.on]
      /\ f.place = Where(f.on)
  BY <1>1, <1>2, <1>3, BusyIsOnAReport DEF IInv, RowsInv, LoadedIsStored, PlainFlows
<1>5. PICK C, able : /\ C = Candidates(f, Needle(f.on))
                     /\ able = (f.snap.slots.hazard # None /\ f.snap.words # None /\ Needle(f.on) # <<>>)
  OBVIOUS
<1>6. /\ f.snap.raw = Said[f.on].raw /\ f.snap.words = Said[f.on].words
      /\ f.snap.slots.hazard = Said[f.on].slots.hazard
  BY <1>4 DEF PlainRows
<1>7. PICK g : /\ (able /\ C # {} /\ g \in Grouped(f, C)) \/ (~(able /\ C # {}) /\ g = <<0, 0>>)
               /\ flow' = [flow EXCEPT ![w].at = "persist", ![w].group = g[1], ![w].fill = g[2]]
  <2>1. PICK needle, B, can :
          /\ needle = IF f.place # <<>> THEN f.place ELSE f.snap.raw
          /\ B = Candidates(f, needle)
          /\ can = (f.snap.slots.hazard # None /\ f.snap.words # None /\ needle # <<>>)
          /\ \E g \in (IF can /\ B # {} THEN Grouped(f, B) ELSE {<<0, 0>>}) :
                flow' = [flow EXCEPT ![w].at = "persist", ![w].group = g[1], ![w].fill = g[2]]
    BY <1>2 DEF Dedupe
  <2>2. needle = Needle(f.on)
    BY <1>4, <1>6, <2>1 DEF Needle
  <2>. QED
    BY <1>5, <2>1, <2>2
<1>8. PICK y : y = [f EXCEPT !.at = "persist", !.group = g[1], !.fill = g[2]]
  OBVIOUS
<1>9. /\ y.on = f.on /\ y.at = "persist" /\ y.snap = f.snap /\ y.place = f.place
      /\ y.group = g[1] /\ y.fill = g[2]
  BY <1>4, <1>8 DEF FlowType
<1>10. flow' = [flow EXCEPT ![w] = y]
  BY <1>2, <1>7, <1>8 DEF TypeOK
<1>11. flow'[w] = y /\ \A v \in Workers \ {w} : flow'[v] = flow[v]
  BY <1>10 DEF TypeOK
<1>12. \A v \in Workers : flow'[v] # Idle => v = w /\ flow'[v] = y
  BY <1>3, <1>11 DEF PlainFlows
<1>13. PlainRows'
  BY <1>1, PlainRowsStay
<1>14. y.fill # 0 => row[y.fill].there
  BY <1>5, <1>7, <1>9, FillIsThere
<1>15. PlainFlows'
  BY <1>1, <1>4, <1>9, <1>12, <1>14 DEF PlainFlows, Where
<1>16. ASSUME NEW I \in Incidents
       PROVE  /\ Together(I)' /\ Apart(I)'
              /\ \A v \in Workers : flow'[v].at = "persist" => Found(I, flow[v])'
  <2>1. Together(I) /\ Apart(I) /\ I \subseteq Reports
    BY DEF GroupsInv, Incidents
  <2>2. able \in BOOLEAN /\ (f.on \in I => able)
    <3>1. f.on \in I => None \notin {Said[f.on].slots.hazard, Said[f.on].words} /\ Where(f.on) # <<>>
      BY DEF Incidents
    <3>2. f.on \in I => Said[f.on].slots.hazard # None /\ Said[f.on].words # None /\ Needle(f.on) # <<>>
      BY <3>1 DEF Needle
    <3>. QED
      BY <1>5, <1>6, <3>2
  <2>3. /\ Found(I, y)
        /\ \A q \in Reports : y.group # 0 /\ row[q].group = y.group => (q \in I <=> f.on \in I)
    <3>1. LET h == flow[w]
              B == Candidates(h, Needle(h.on))
          IN  (B # {} /\ g \in Grouped(h, B)) \/ ((h.on \in I => B = {}) /\ g = <<0, 0>>)
      BY <1>2, <1>5, <1>7, <2>2
    <3>2. /\ w \in Working /\ Together(I) /\ Apart(I)
          /\ flow[w].on \in Reports /\ row[flow[w].on].there /\ flow[w].snap = row[flow[w].on]
      BY <1>1, <1>2, <1>4, <2>1
    <3>3. \A x : x.on = flow[w].on /\ x.group = g[1] /\ x.fill = g[2] =>
             /\ Found(I, x)
             /\ \A q \in Reports : x.group # 0 /\ row[q].group = x.group => (q \in I <=> x.on \in I)
      BY <3>1, <3>2, DedupeFinds, Zenon
    <3>4. y.on = flow[w].on /\ y.group = g[1] /\ y.fill = g[2]
      BY <1>2, <1>9
    <3>. QED
      BY <1>9, <3>3, <3>4, Zenon
  <2>4. Together(I)'
    BY <1>1, <2>1 DEF Together, RawSays, Where, Done
  <2>5. Apart(I)'
    <3>1. ASSUME NEW v \in Workers, NEW q \in Reports,
                 flow'[v].at = "persist", flow'[v].group # 0, row[q].group = flow'[v].group
          PROVE  q \in I <=> flow'[v].on \in I
      <4>1. flow'[v] = y
        BY <1>12, <3>1, FixedRecords
      <4>. QED
        BY <1>9, <2>3, <3>1, <4>1
    <3>. QED
      BY <1>1, <2>1, <3>1 DEF Apart
  <2>6. ASSUME NEW v \in Workers, flow'[v].at = "persist" PROVE Found(I, flow[v])'
    <3>1. flow'[v] = y
      BY <1>12, <2>6, FixedRecords
    <3>2. Opens(I, y) => Opens(I, y)'
      BY <1>1 DEF Opens, RawSays, Where, Done
    <3>3. Joins(I, y) => Joins(I, y)'
      BY <1>1 DEF Joins
    <3>4. Alone(I, y) => Alone(I, y)'
      BY <1>1 DEF Alone, RawSays, Where, Done
    <3>5. Found(I, y)'
      BY <2>3, <3>2, <3>3, <3>4 DEF Found
    <3>. QED
      BY <3>1, <3>5 DEF Found, Opens, Joins, Alone
  <2>. QED
    BY <2>4, <2>5, <2>6
<1>. QED
  BY <1>13, <1>15, <1>16 DEF GroupsInv

\* What a flow writes into its row while hazards are not revised.
LEMMA PlainPersisted ==
  ASSUME NEW r \in Reports, NEW f \in FlowType, NEW x \in RowType, f.snap = x,
         f.revised.hazard \in {None, x.slots.hazard},
         x.place = IF x.priority # -1 THEN Where(r) ELSE <<>>, f.place = Where(r)
  PROVE  LET y == Persisted(r, f, x, x) IN
         /\ y.place = Where(r) /\ y.slots.hazard = x.slots.hazard
         /\ y.group = IF f.group = 0 THEN x.group ELSE f.group
<1>1. PICK s, p, c, q, g : /\ s = Revised(f.snap.slots, f.revised) /\ p = Priority(r, f.snap)
                           /\ c = Confidence(f.snap, f.revised # NoSlots)
                           /\ q = Written(f.place, <<>>, x.place, x.place)
                           /\ g = Written(f.group, 0, x.group, x.group)
  OBVIOUS
<1>2. PICK y : y = [x EXCEPT !.slots = s, !.place = q, !.group = g, !.priority = p, !.confidence = c]
  OBVIOUS
<1>3. Persisted(r, f, x, x) = y
  BY <1>1, <1>2 DEF Persisted
<1>4. y.place = q /\ y.slots = s /\ y.group = g
  BY <1>2 DEF RowType
<1>5. s.hazard = x.slots.hazard
  BY <1>1 DEF Revised
<1>6. q = Where(r)
  BY <1>1 DEF Written
<1>7. g = IF f.group = 0 THEN x.group ELSE f.group
  BY <1>1 DEF Written
<1>. QED
  BY <1>3, <1>4, <1>5, <1>6, <1>7

\* The commit of a flow puts its report into the group that it found, and with it the
\* report that it back-fills.
LEMMA PersistGroups ==
  ASSUME IInv, GroupsInv, Plain, Plain', NEW w \in Workers, Persist(w) PROVE GroupsInv'
<1>. TypeOK /\ PlainRows /\ PlainFlows
  BY DEF IInv, GroupsInv
<1>1. PICK f : f = flow[w]
  OBVIOUS
<1>2. PICK base \in Held(f) :
      /\ f.at = "persist" /\ flow' = [flow EXCEPT ![w] = Idle]
      /\ row' = [r \in Reports |->
                    IF r = f.on THEN Persisted(r, f, base, row[r])
                    ELSE IF r = f.fill THEN [row[r] EXCEPT !.group = f.group]
                    ELSE row[r]]
      /\ astray' = (astray \/ f.revised.hazard \notin {None, f.snap.slots.hazard})
  BY <1>1 DEF Persist
<1>3. f # Idle
  BY <1>2, FixedRecords
<1>4. /\ f \in FlowType /\ f.on \in Reports /\ row[f.on].there /\ row[f.on] \in RowType
      /\ f.snap = row[f.on] /\ f.place = Where(f.on) /\ (f.fill # 0 => row[f.fill].there)
  BY <1>1, <1>2, <1>3, BusyIsOnAReport DEF IInv, RowsInv, LoadedIsStored, PlainFlows, TypeOK
<1>5. f.revised.hazard \in {None, row[f.on].slots.hazard}
  <2>1. ~(f.revised.hazard \notin {None, f.snap.slots.hazard})
    BY <1>2, Zenon DEF Plain
  <2>. QED
    BY <1>4, <2>1
<1>6. \A v \in Workers : flow'[v] = Idle
  <2>1. \A v \in Workers \ {w} : flow[v] = Idle
    BY <1>1, <1>3 DEF PlainFlows
  <2>. QED
    BY <1>2, <2>1 DEF TypeOK
<1>7. PICK s : s = Persisted(f.on, f, base, row[f.on])
  OBVIOUS
<1>8. row'[f.on] = s
  BY <1>2, <1>4, <1>7
<1>9. /\ s.there = row[f.on].there /\ s.words = row[f.on].words /\ s.raw = row[f.on].raw /\ s.priority # -1
      /\ s.place = Where(f.on) /\ s.slots.hazard = row[f.on].slots.hazard
      /\ s.group = IF f.group = 0 THEN row[f.on].group ELSE f.group
  <2>1. row[f.on].place = IF row[f.on].priority # -1 THEN Where(f.on) ELSE <<>>
    BY <1>4 DEF PlainRows, Done
  <2>2. /\ s.there = row[f.on].there /\ s.words = row[f.on].words /\ s.raw = row[f.on].raw
        /\ s.priority = Priority(f.on, f.snap)
    <3>1. PICK x : x = row[f.on]
      OBVIOUS
    <3>2. f.on \in Reports /\ f \in FlowType /\ x \in RowType /\ s = Persisted(f.on, f, base, x)
      BY <1>4, <1>7, <3>1
    <3>3. s.there = x.there /\ s.words = x.words /\ s.raw = x.raw /\ s.priority = Priority(f.on, f.snap)
      BY <3>2, PersistedIsTyped
    <3>. QED
      BY <3>1, <3>3
  <2>3. Priority(f.on, f.snap) \in {25, 40, 60, 90, 100}
    BY PriorityIsTyped
  <2>4. /\ s.place = Where(f.on) /\ s.slots.hazard = row[f.on].slots.hazard
        /\ s.group = IF f.group = 0 THEN row[f.on].group ELSE f.group
    <3>1. base = row[f.on]
      BY <1>2, <1>4 DEF Held
    <3>. QED
      BY <1>4, <1>5, <1>7, <2>1, <3>1, PlainPersisted
  <2>. QED
    BY <1>4, <2>2, <2>3, <2>4
<1>10. ASSUME NEW r \in Reports, r # f.on
       PROVE  /\ row'[r].there = row[r].there /\ row'[r].slots = row[r].slots
              /\ row'[r].words = row[r].words /\ row'[r].raw = row[r].raw
              /\ row'[r].place = row[r].place /\ row'[r].priority = row[r].priority
              /\ row'[r].group = IF r = f.fill THEN f.group ELSE row[r].group
              /\ ~row[r].there => row'[r] = row[r]
  <2>1. row'[r] = (IF r = f.fill THEN [row[r] EXCEPT !.group = f.group] ELSE row[r]) /\ row[r] \in RowType
    BY <1>2, <1>10 DEF TypeOK
  <2>2. r = f.fill => row[r].there
    BY <1>4, <1>10, NoRowIsZero
  <2>. QED
    BY <2>1, <2>2 DEF RowType
<1>11. PlainRows'
  <2>1. \A r \in Reports : row'[r].there = row[r].there
    BY <1>4, <1>8, <1>9, <1>10
  <2>2. ASSUME NEW r \in Reports
        PROVE  /\ ~row'[r].there => row'[r] = Absent
               /\ row'[r].there => /\ \A q \in Reports : q < r => row'[q].there
                                   /\ row'[r].slots.hazard = Said[r].slots.hazard
                                   /\ row'[r].words = Said[r].words /\ row'[r].raw = Said[r].raw
                                   /\ row'[r].place = IF row'[r].priority # -1 THEN Where(r) ELSE <<>>
    <3>1. CASE r = f.on
      BY <1>4, <1>8, <1>9, <2>1, <3>1 DEF PlainRows
    <3>2. CASE r # f.on
      BY <1>10, <2>1, <3>2 DEF PlainRows, Done
    <3>. QED
      BY <3>1, <3>2
  <2>. QED
    BY <2>2 DEF PlainRows, Done, Where
<1>12. PlainFlows'
  BY <1>6 DEF PlainFlows
<1>13. ASSUME NEW I \in Incidents PROVE Together(I)' /\ Apart(I)'
  <2>1. /\ I \subseteq Reports /\ Together(I) /\ Apart(I) /\ Found(I, f)
    BY <1>1, <1>2 DEF GroupsInv, Incidents
  <2>2. /\ \A q, s0 \in I : row[q].group # 0 /\ row[s0].group # 0 => row[q].group = row[s0].group
        /\ \A r, q \in I : r # q /\ Done(r) /\ (Done(q) \/ row[q].group # 0) => row[r].group # 0
        /\ \A r, u \in I : Done(r) /\ row[r].group = 0 /\ u < r => ~RawSays(u)
        /\ \A q \in I : row[q].group # 0 => Done(q) \/ RawSays(q)
    BY <2>1 DEF Together
  <2>3. \A r \in Reports : Done(r)' <=> (r = f.on \/ Done(r))
    BY <1>4, <1>8, <1>9, <1>10 DEF Done
  <2>4. \A r \in Reports :
           row'[r].group = IF r = f.on THEN (IF f.group = 0 THEN row[r].group ELSE f.group)
                           ELSE IF r = f.fill THEN f.group ELSE row[r].group
    <3>1. ASSUME NEW r \in Reports, r # f.on
          PROVE  row'[r].group = IF r = f.fill THEN f.group ELSE row[r].group
      BY <1>10, <3>1
    <3>2. row'[f.on].group = IF f.group = 0 THEN row[f.on].group ELSE f.group
      BY <1>8, <1>9
    <3>. QED
      BY <3>1, <3>2
  <2>5. /\ \A q, u \in I : row'[q].group # 0 /\ row'[u].group # 0 => row'[q].group = row'[u].group
        /\ \A r, q \in I : r # q /\ (r = f.on \/ Done(r)) /\ (q = f.on \/ Done(q) \/ row'[q].group # 0)
              => row'[r].group # 0
        /\ \A r, u \in I : (r = f.on \/ Done(r)) /\ row'[r].group = 0 /\ u < r => ~RawSays(u)
        /\ \A q \in I : row'[q].group # 0 => q = f.on \/ Done(q) \/ RawSays(q)
    <3>1. CASE f.on \notin I
      <4>1. \A r \in I : r # f.on /\ r # f.fill
        BY <2>1, <3>1 DEF Found
      <4>2. \A r \in I : row'[r].group = row[r].group
        BY <2>1, <2>4, <4>1
      <4>. QED
        BY <2>2, <4>1, <4>2
    <3>2. CASE f.on \in I /\ Opens(I, f)
      <4>1. /\ f.fill \in I \ {f.on} /\ f.group # 0 /\ (Done(f.fill) \/ RawSays(f.fill))
            /\ \A q \in I \ {f.on} : row[q].group = 0 /\ (Done(q) => q = f.fill)
        BY <3>2 DEF Opens
      <4>2. /\ row'[f.on].group = f.group /\ row'[f.fill].group = f.group
            /\ \A r \in I \ {f.on, f.fill} : row'[r].group = 0 /\ ~Done(r)
        BY <2>1, <2>4, <3>2, <4>1
      <4>. QED
        BY <4>1, <4>2
    <3>3. CASE f.on \in I /\ Joins(I, f)
      <4>1. PICK c \in I \ {f.on} : f.fill = 0 /\ f.group # 0 /\ row[c].group = f.group
        BY <3>3 DEF Joins
      <4>2. \A r \in I \ {f.on} : row'[r].group = row[r].group
        BY <2>1, <2>4, <4>1, NoRowIsZero
      <4>3. row'[f.on].group = f.group
        BY <2>1, <2>4, <3>3, <4>1
      <4>4. \A q \in I : row'[q].group # 0 => row'[q].group = f.group
        BY <2>2, <4>1, <4>2, <4>3
      <4>5. \A r \in I \ {f.on} : Done(r) => row[r].group # 0
        BY <2>2, <4>1
      <4>. QED
        BY <2>2, <4>1, <4>2, <4>3, <4>4, <4>5
    <3>4. CASE f.on \in I /\ Alone(I, f)
      <4>1. /\ f.fill = 0 /\ f.group = 0
            /\ \A q \in I \ {f.on} : row[q].group = 0 /\ ~Done(q)
            /\ \A u \in I : u < f.on => ~RawSays(u)
        BY <3>4 DEF Alone
      <4>2. \A r \in I : row'[r].group = row[r].group
        BY <2>1, <2>4, <4>1, NoRowIsZero
      <4>. QED
        BY <2>2, <4>1, <4>2
    <3>. QED
      BY <2>1, <3>1, <3>2, <3>3, <3>4 DEF Found
  <2>6. Together(I)'
    <3>1. \A q \in I : RawSays(q)' <=> RawSays(q)
      BY DEF RawSays, Where
    <3>. QED
      BY <2>1, <2>3, <2>5, <3>1 DEF Together
  <2>7. ASSUME NEW r \in I, NEW q \in Reports \ I, row'[r].group # 0, row'[r].group = row'[q].group PROVE FALSE
    <3>1. /\ \A c \in I, d \in Reports \ I : row[c].group # 0 => row[c].group # row[d].group
          /\ \A d \in Reports : f.group # 0 /\ row[d].group = f.group => (d \in I <=> f.on \in I)
      BY <1>1, <1>2, <2>1 DEF Apart
    <3>2. CASE f.on \in I
      <4>1. f.fill \in I \cup {0}
        BY <2>1, <3>2 DEF Found, Opens, Joins, Alone
      <4>2. row'[q].group = row[q].group
        BY <2>1, <2>4, <2>7, <3>2, <4>1, NoRowIsZero
      <4>3. row'[r].group \in {row[r].group, f.group}
        BY <2>1, <2>4
      <4>. QED
        BY <2>1, <2>7, <3>1, <3>2, <4>2, <4>3
    <3>3. CASE f.on \notin I
      <4>1. row'[r].group = row[r].group
        BY <2>1, <2>4, <3>3 DEF Found
      <4>2. row'[q].group \in {row[q].group, f.group}
        BY <2>1, <2>4
      <4>. QED
        BY <2>1, <2>7, <3>1, <3>3, <4>1, <4>2
    <3>. QED
      BY <3>2, <3>3
  <2>8. Apart(I)'
    BY <1>6, <2>7, FixedRecords DEF Apart
  <2>. QED
    BY <2>6, <2>8
<1>14. \A v \in Workers : flow'[v].at # "persist"
  BY <1>6, FixedRecords
<1>. QED
  BY <1>11, <1>12, <1>13, <1>14 DEF GroupsInv

\* At the start there are no groups.
LEMMA GroupsInit ==
  ASSUME Init PROVE GroupsInv
<1>1. /\ \A r \in Reports : row[r] = Absent
      /\ \A w \in Workers : flow[w] = Idle
  BY DEF Init
<1>2. PlainRows /\ PlainFlows
  BY <1>1, FixedRecords DEF PlainRows, PlainFlows
<1>3. ASSUME NEW I \in Incidents PROVE Together(I) /\ Apart(I)
  <2>1. I \subseteq Reports
    BY DEF Incidents
  <2>. QED
    BY <1>1, <2>1, FixedRecords DEF Together, Apart, Done
<1>4. \A w \in Workers : flow[w].at # "persist"
  BY <1>1, FixedRecords
<1>. QED
  BY <1>2, <1>3, <1>4 DEF GroupsInv

\* Every step preserves what is known of the groups.
LEMMA GroupsStep ==
  ASSUME IInv, GroupsInv, [Next]_vars PROVE GroupsInv'
<1>1. CASE ~Plain'
  BY <1>1 DEF GroupsInv
<1>2. CASE Plain'
  <2>1. /\ Plain /\ \A r \in Reports : ~DropPin(r)
        /\ \A c \in Callers : ~Erase(c)
    BY <1>2, PlainBefore
  <2>2. CASE UNCHANGED vars
    <3>1. UNCHANGED <<row, flow>>
      BY <2>2 DEF vars
    <3>2. PlainRows' /\ PlainFlows'
      BY <2>1, <3>1, PlainRowsStay DEF GroupsInv, PlainFlows, Where
    <3>. QED
      BY <2>1, <3>1, <3>2, GroupsStay
  <2>. QED
    BY <1>2, <2>1, <2>2, SubmitGroups, AssembleGroups, ExtractGroups, DedupeGroups, PersistGroups, FailGroups DEF Next
<1>. QED
  BY <1>1, <1>2

-----------------------------------------------------------------------------
(* The theorems.                                                           *)

\* No report is stored and no flow runs.
LEMMA InvInit ==
  ASSUME Init PROVE IInv
<1>1. /\ \A r \in Reports : row[r] = Absent /\ leaked[r] = 0 /\ settled[r] = FALSE
      /\ \A w \in Workers : flow[w] = Idle
      /\ runs = 0 /\ pins = 0 /\ erasures = 0
  BY DEF Init
<1>2. TypeOK
  <2>1. row \in [Reports -> RowType] /\ flow \in [Workers -> FlowType]
    BY FixedRecords DEF Init
  <2>2. leaked \in [Reports -> Nat] /\ settled \in [Reports -> BOOLEAN] /\ astray \in BOOLEAN
    BY DEF Init
  <2>3. runs \in 0 .. MaxRuns /\ pins \in 0 .. MaxPins /\ erasures \in 0 .. MaxErasures
    BY <1>1, BoundsAreNaturals
  <2>. QED
    BY <1>1, <2>1, <2>2, <2>3, FixedRecords DEF TypeOK
<1>3. IdsSuffice
  <2>1. IdsInUse = {} /\ Working = {}
    BY <1>1, FixedRecords DEF IdsInUse, Working
  <2>. QED
    BY <1>1, <2>1, FS_EmptySet DEF IdsSuffice
<1>4. RowsInv /\ ScoresCatchUp
  BY <1>1, FixedRecords DEF RowsInv, ErasedRows, SettledRows, OneFlowPerReport, LoadedIsStored, LeakedIsOver,
     IsErased, ScoresCatchUp
<1>. QED
  BY <1>2, <1>3, <1>4 DEF IInv

\* Every step of the system preserves the invariant.
LEMMA InvStep ==
  ASSUME IInv, [Next]_vars PROVE IInv'
<1>1. CASE UNCHANGED vars
  <2>1. UNCHANGED <<row, flow, runs, pins, erasures, leaked, settled, astray>>
    BY <1>1 DEF vars
  <2>2. row' \in [Reports -> RowType] /\ pins' \in 0 .. MaxPins /\ erasures' \in 0 .. MaxErasures
    BY <2>1 DEF IInv, TypeOK
  <2>. QED
    BY <2>1, <2>2, RowStep
<1>. QED
  BY <1>1, SubmitStep, DropPinStep, AssembleStep, ExtractStep, DedupeStep, PersistStep, FailStep, EraseStep DEF Next

\* Whatever the flows, pins and erasures in between: a flow under way knows the words
\* that are stored, or they were erased since it started (flow.py, persist.py).
THEOREM EnrichmentInvariant == Spec => []IInv
  BY InvInit, InvStep, PTL DEF Spec

\* At most one event repeats words that were erased, of whichever report and however
\* often its flow is run again (persist.py:106-132).
THEOREM OneLeakAtMost == Spec => []LeaksAtMostOnce
<1>1. IInv => LeaksAtMostOnce
  BY DEF IInv, TypeOK, RowsInv, LeakedIsOver, LeaksAtMostOnce
<1>. QED
  BY <1>1, EnrichmentInvariant, PTL

\* The stored scores are those of the stored slots once a flow revises nothing
\* (flow.py:23-26, score.py).
THEOREM ScoresAreOfTheRow == Spec => []ScoresCatchUp
<1>1. IInv => ScoresCatchUp
  BY DEF IInv
<1>. QED
  BY <1>1, EnrichmentInvariant, PTL

\* No flow, pin, retry or second erasure brings back what an erasure removed
\* (routes_privacy.py:177-188, persist.py:56-83).
THEOREM ErasureIsFinal == Spec => ErasedStaysErased
<1>1. ASSUME IInv, Next PROVE \A r \in Reports : IsErased(r) => row'[r].words = Erased /\ row'[r].raw = <<Erased>>
  <2>. TypeOK
    BY <1>1 DEF IInv
  <2>1. ASSUME NEW r \in Reports, IsErased(r)
        PROVE  row'[r].words = Erased /\ row'[r].raw = <<Erased>>
    <3>1. row[r].words = Erased /\ row[r].raw = <<Erased>> /\ row[r].there /\ row[r] \in RowType
      BY <1>1, <2>1 DEF IInv, RowsInv, ErasedRows, IsErased, TypeOK
    <3>2. CASE UNCHANGED row
      BY <3>1, <3>2
    <3>3. ASSUME NEW q \in Reports, Submit(q) \/ DropPin(q) PROVE row'[r].words = Erased /\ row'[r].raw = <<Erased>>
      <4>1. CASE Submit(q)
        BY <3>1, <4>1 DEF Submit, TypeOK
      <4>2. CASE DropPin(q)
        BY <3>1, <4>2 DEF DropPin, TypeOK, RowType
      <4>. QED
        BY <3>3, <4>1, <4>2
    <3>4. ASSUME NEW w \in Workers, Persist(w) PROVE row'[r].words = Erased /\ row'[r].raw = <<Erased>>
      <4>1. PICK f : f = flow[w]
        OBVIOUS
      <4>2. PICK base :
            /\ f.at = "persist"
            /\ row'[r] = IF r = f.on THEN Persisted(r, f, base, row[r])
                         ELSE IF r = f.fill THEN [row[r] EXCEPT !.group = f.group] ELSE row[r]
        BY <3>4, <4>1 DEF Persist
      <4>3. f \in FlowType
        BY <4>1, <4>2, BusyIsOnAReport
      <4>4. Persisted(r, f, base, row[r]).words = row[r].words /\ Persisted(r, f, base, row[r]).raw = row[r].raw
        BY <3>1, <4>3, PersistedIsTyped
      <4>. QED
        BY <3>1, <4>2, <4>4 DEF RowType
    <3>5. ASSUME NEW c \in Callers, Erase(c) PROVE row'[r].words = Erased /\ row'[r].raw = <<Erased>>
      BY <2>1, <3>1, <3>5 DEF Erase
    <3>6. ASSUME NEW w \in Workers, (\E q \in Reports : Assemble(w, q)) \/ Extract(w) \/ Dedupe(w) \/ Fail(w)
          PROVE  UNCHANGED row
      BY <3>6 DEF Assemble, Extract, Dedupe, Fail
    <3>. QED
      BY <1>1, <3>2, <3>3, <3>4, <3>5, <3>6 DEF Next
  <2>. QED
    BY <2>1
<1>2. IInv /\ [Next]_vars =>
        [\A r \in Reports : IsErased(r) => row'[r].words = Erased /\ row'[r].raw = <<Erased>>]_vars
  BY <1>1
<1>. QED
  BY <1>2, EnrichmentInvariant, PTL DEF Spec, ErasedStaysErased

\* What a flow finds, what it commits, and what the rows of an incident say of their
\* group, as long as one flow runs at a time and no hazard is revised.
THEOREM GroupsInvariant == Spec => []GroupsInv
  BY GroupsInit, GroupsStep, EnrichmentInvariant, PTL DEF Spec

\* The reports of one incident end up in one group, whatever the reports, the gazetteer
\* and the window are, in any order and however often (text_window.py:22-39).
THEOREM IncidentsAreOneGroup == Spec => []OneGroupPerIncident
<1>1. ASSUME IInv, GroupsInv, Plain, NEW I \in Incidents, NEW r \in I, NEW s \in I,
             r # s, Done(r), Done(s)
      PROVE  row[r].group # 0 /\ row[r].group = row[s].group
  <2>1. Together(I)
    BY <1>1 DEF GroupsInv
  <2>2. row[r].group # 0 /\ row[s].group # 0
    BY <1>1, <2>1 DEF Together
  <2>. QED
    BY <2>1, <2>2 DEF Together
<1>2. IInv /\ GroupsInv => OneGroupPerIncident
  BY <1>1 DEF OneGroupPerIncident
<1>. QED
  BY <1>2, EnrichmentInvariant, GroupsInvariant, PTL

\* No group takes in a report of another incident (text_window.py:119-161).
THEOREM IncidentsAreApart == Spec => []IncidentsStayApart
<1>1. GroupsInv => IncidentsStayApart
  BY DEF GroupsInv, Apart, IncidentsStayApart
<1>. QED
  BY <1>1, GroupsInvariant, PTL

=============================================================================
