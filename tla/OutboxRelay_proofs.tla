------------------------- MODULE OutboxRelay_proofs -------------------------
(***************************************************************************)
(* Proofs about OutboxRelay, and about the DlqMonitor beside it, for every *)
(* table, number of replicas, chain, retry cap, batch size, threshold and  *)
(* bound.                                                                  *)
(***************************************************************************)
EXTENDS DlqMonitor, FiniteSetTheorems, TLAPS

-----------------------------------------------------------------------------
(* Facts about the helpers. *)

\* Every position of the chain names a dispatcher.
LEMMA ChainEntries == \A i \in 1 .. Len(Chain) : Chain[i] \in Dispatchers
  BY ChainAssumption

\* The length of the chain is a natural number.
LEMMA ChainLength == Len(Chain) \in Nat
  BY ChainAssumption

\* A transaction handles one row at a time: its oldest.
LEMMA NextIsUnique ==
  ASSUME NEW p \in Relays, NEW r \in Rows, NEW s \in Rows,
         IsNext(p, r), IsNext(p, s)
  PROVE  r = s
  BY RowsAssumption DEF IsNext

\* Hearing counts one effect more for one dispatcher and one row.
LEMMA HearCounts ==
  ASSUME heard \in [Dispatchers -> [Rows -> Nat]],
         NEW d \in Dispatchers, NEW r \in Rows
  PROVE  /\ Hear(d, r) \in [Dispatchers -> [Rows -> Nat]]
         /\ \A e \in Dispatchers, s \in Rows :
               Hear(d, r)[e][s] = IF e = d /\ s = r THEN heard[e][s] + 1 ELSE heard[e][s]
<1>1. heard[d] \in [Rows -> Nat]
  OBVIOUS
<1>2. [heard[d] EXCEPT ![r] = heard[d][r] + 1] \in [Rows -> Nat]
  BY <1>1
<1>3. Hear(d, r) = [heard EXCEPT ![d] = [heard[d] EXCEPT ![r] = heard[d][r] + 1]]
  BY DEF Hear
<1>. QED
  BY <1>1, <1>2, <1>3

\* What a dispatcher appends to the table keeps its type, changes no row that
\* is there, and only adds rows that are not dispatched.
LEMMA AppendedRows ==
  ASSUME row \in [Rows -> RowType], NEW d, NEW t \in Appended(d)
  PROVE  /\ t \in [Rows -> RowType]
         /\ \A r \in Rows : row[r].there => t[r] = row[r]
         /\ \A r \in Rows : t[r] # row[r] =>
               t[r].there /\ ~t[r].dispatched /\ t[r].retries = 0
<1>1. CASE t = row
  BY <1>1
<1>2. CASE t # row
  <2>1. PICK s \in {x \in Rows : ~row[x].there}, u \in BOOLEAN :
           t = [row EXCEPT ![s] = NewRow("enriched", u)]
    BY <1>2 DEF Appended
  <2>2. /\ NewRow("enriched", u) \in RowType
        /\ NewRow("enriched", u).there /\ ~NewRow("enriched", u).dispatched
        /\ NewRow("enriched", u).retries = 0
    BY LimitsAssumption DEF NewRow, Absent, RowType
  <2>. QED
    BY <2>1, <2>2
<1>. QED
  BY <1>1, <1>2

\* The bookkeeping of a transaction keeps its type.
LEMMA TransactionTypes ==
  ASSUME NEW tx \in TxType, NEW r \in Rows
  PROVE  /\ \A B \in SUBSET Rows : Opened(B) \in TxType
         /\ Marked(tx, r) \in TxType
         /\ tx.at \in 1 .. Len(Chain) =>
               \A raised \in BOOLEAN : Advanced(tx, raised) \in TxType
<1> USE ChainLength DEF TxType
<1>1. \A B \in SUBSET Rows : Opened(B) \in TxType
  BY DEF Opened
<1>2. Marked(tx, r) \in TxType
  BY DEF Marked
<1>3. ASSUME tx.at \in 1 .. Len(Chain), NEW raised \in BOOLEAN
      PROVE  Advanced(tx, raised) \in TxType
  <2>1. tx.at + 1 \in 1 .. Len(Chain) + 1
    BY <1>3
  <2>2. (IF raised THEN TRUE ELSE tx.erred) \in BOOLEAN
    OBVIOUS
  <2>. QED
    BY <2>1, <2>2 DEF Advanced
<1>. QED
  BY <1>1, <1>2, <1>3

-----------------------------------------------------------------------------
(* Type correctness. *)

\* The empty outbox is well typed.
LEMMA TypeInit == Init => TypeOK
<1>1. NoTx \in TxType
  BY ChainLength DEF NoTx, Opened, TxType
<1>2. Absent \in RowType
  BY DEF Absent, RowType
<1>3. NoRequest \in RequestType
  BY DEF NoRequest, RequestType
<1>. QED
  BY <1>1, <1>2, <1>3 DEF Init, TypeOK

\* Each operation keeps the types.
LEMMA TypeStep == TypeOK /\ [Next]_vars => TypeOK'
<1> SUFFICES ASSUME TypeOK, [Next]_vars PROVE TypeOK'
  OBVIOUS
<1> USE LimitsAssumption, BoundsAssumption, ChainLength
<1>1. ASSUME NEW r \in Rows, NEW u \in BOOLEAN, Submit(r, u) PROVE TypeOK'
  <2>1. NewRow("submitted", u) \in RowType
    BY DEF NewRow, Absent, RowType
  <2>. QED
    BY <1>1, <2>1 DEF Submit, TypeOK
<1>2. ASSUME NEW p \in Relays, Claim(p) PROVE TypeOK'
  <2>1. PICK B \in SUBSET Rows : relay' = [relay EXCEPT ![p] = Opened(B)]
    BY <1>2 DEF Claim, Oldest
  <2>2. Opened(B) \in TxType
    BY ChainLength DEF Opened, TxType
  <2>. QED
    BY <1>2, <2>1, <2>2 DEF Claim, TypeOK
<1>3. ASSUME NEW p \in Relays, NEW r \in Rows, NEW d \in Dispatchers,
             Ignore(p, r, d) \/ Perform(p, r, d) \/ Raise(p, r, d)
      PROVE  TypeOK'
  <2>1. row' \in [Rows -> RowType]
    BY <1>3, AppendedRows DEF Ignore, Perform, Raise, TypeOK
  <2>2. heard' \in [Dispatchers -> [Rows -> Nat]]
    <3>1. Hear(d, r) \in [Dispatchers -> [Rows -> Nat]]
      BY HearCounts DEF TypeOK
    <3>. QED
      BY <1>3, <3>1 DEF Ignore, Perform, Raise, TypeOK
  <2>3. relay' \in [Relays -> TxType]
    <3>1. relay[p].at \in 1 .. Len(Chain) /\ relay[p] \in TxType
      BY <1>3 DEF Ignore, Perform, Raise, AtCall, TypeOK
    <3>2. \A raised \in BOOLEAN : Advanced(relay[p], raised) \in TxType
      BY <3>1, TransactionTypes
    <3>. QED
      BY <1>3, <3>2 DEF Ignore, Perform, Raise, TypeOK
  <2>. QED
    BY <1>3, <2>1, <2>2, <2>3 DEF Ignore, Perform, Raise, TypeOK
<1>4. ASSUME NEW p \in Relays, NEW r \in Rows, Handled(p, r) PROVE TypeOK'
  <2>1. relay' \in [Relays -> TxType]
    BY <1>4, TransactionTypes DEF Handled, TypeOK
  <2>2. spoiled' \in [Rows -> Nat]
    BY <1>4 DEF Handled, TypeOK
  <2>. QED
    BY <1>4, <2>1, <2>2 DEF Handled, TypeOK
<1>5. ASSUME NEW p \in Relays, Commit(p) PROVE TypeOK'
  <2>1. ASSUME NEW r \in Rows
        PROVE  [row[r] EXCEPT !.dispatched = @ \/ r \in relay[p].ok,
                              !.retries = IF r \in relay[p].bad THEN @ + 1 ELSE @] \in RowType
    <3>1. row[r] \in RowType
      BY DEF TypeOK
    <3>2. PICK b \in BOOLEAN : b = (row[r].dispatched \/ r \in relay[p].ok)
      BY Zenon
    <3>3. PICK n \in Nat :
             n = IF r \in relay[p].bad THEN row[r].retries + 1 ELSE row[r].retries
      BY <3>1 DEF RowType
    <3>4. [row[r] EXCEPT !.dispatched = b, !.retries = n] \in RowType
      BY <3>1 DEF RowType
    <3>. QED
      BY <3>2, <3>3, <3>4
  <2>2. row' \in [Rows -> RowType]
    BY <1>5, <2>1 DEF Commit
  <2>3. NoTx \in TxType
    BY ChainLength DEF NoTx, Opened, TxType
  <2>. QED
    BY <1>5, <2>2, <2>3 DEF Commit, TypeOK
<1>6. ASSUME NEW p \in Relays, Rollback(p) PROVE TypeOK'
  <2>1. NoTx \in TxType
    BY ChainLength DEF NoTx, Opened, TxType
  <2>2. spoiled' \in [Rows -> Nat]
    BY <1>6 DEF Rollback, TypeOK
  <2>. QED
    BY <1>6, <2>1, <2>2 DEF Rollback, TypeOK
<1>7. ASSUME NEW a \in Admins, NEW r \in Rows, NEW op \in {"retry", "purge"},
             AdminRead(a, op, r)
      PROVE  TypeOK'
  BY <1>7 DEF AdminRead, TypeOK, RequestType
<1>8. ASSUME NEW a \in Admins, NEW r \in Rows, AdminWrite(a, r) PROVE TypeOK'
  <2>1. row' \in [Rows -> RowType]
    <3>1. row[r] \in RowType
      BY DEF TypeOK
    <3>2. [row[r] EXCEPT !.retries = 0] \in RowType
      BY <3>1 DEF RowType
    <3>3. [row[r] EXCEPT !.dispatched = TRUE, !.purged = TRUE] \in RowType
      BY <3>1 DEF RowType
    <3>. QED
      BY <1>8, <3>2, <3>3 DEF AdminWrite, TypeOK
  <2>2. NoRequest \in RequestType
    BY DEF NoRequest, RequestType
  <2>. QED
    BY <1>8, <2>1, <2>2 DEF AdminWrite, TypeOK
<1>9. CASE UNCHANGED vars
  BY <1>9 DEF vars, TypeOK
<1>. QED
  BY <1>1, <1>2, <1>3, <1>4, <1>5, <1>6, <1>7, <1>8, <1>9 DEF Next, RelayStep

\* Every reachable state of every instance is well typed.
THEOREM TypeCorrect == Spec => []TypeOK
  BY TypeInit, TypeStep, PTL DEF Spec

-----------------------------------------------------------------------------
(* The inductive invariant. First what it says about one row.              *)

\* A row is in at most one transaction, and in one part of it.
LEMMA OneHolder ==
  ASSUME IInv, NEW p \in Relays, NEW q \in Relays, NEW r \in Rows,
         r \in Batch(p), r \in Batch(q)
  PROVE  p = q
  BY DEF IInv, NoSharedRow

\* The row being handled is not marked yet, by its replica or by another, and
\* not dispatched.
LEMMA NextIsUnmarked ==
  ASSUME IInv, NEW p \in Relays, NEW r \in Rows, IsNext(p, r)
  PROVE  /\ \A q \in Relays : r \notin relay[q].ok
         /\ \A q \in Relays : IsNext(q, r) => q = p
         /\ row[r].there /\ ~row[r].dispatched
<1>1. r \in relay[p].todo /\ r \in Batch(p)
  BY DEF IsNext, Batch
<1>2. r \notin relay[p].ok
  BY <1>1 DEF IInv, TxShape
<1>3. ASSUME NEW q \in Relays, r \in relay[q].ok PROVE FALSE
  BY <1>1, <1>2, <1>3, OneHolder DEF Batch
<1>4. ASSUME NEW q \in Relays, IsNext(q, r) PROVE q = p
  BY <1>1, <1>4, OneHolder DEF Batch, IsNext
<1>5. Claimable(row[r])
  BY <1>1 DEF IInv, HeldRowsStayClaimable
<1>. QED
  BY <1>3, <1>4, <1>5 DEF Claimable

\* A row in a transaction, or returned from a call, is there and not dispatched.
LEMMA HeldIsThere ==
  ASSUME IInv, NEW p \in Relays, NEW r \in Rows,
         r \in Batch(p) \/ IsNext(p, r) \/ \E i \in 1 .. Len(Chain) : Returned(p, r, i)
  PROVE  r \in Batch(p) /\ row[r].there /\ ~row[r].dispatched
<1>1. r \in Batch(p)
  BY DEF Batch, Returned, IsNext
<1>. QED
  BY <1>1 DEF IInv, HeldRowsStayClaimable, Claimable

-----------------------------------------------------------------------------

\* The empty outbox satisfies the inductive invariant.
LEMMA InvInit == Init => IInv
<1> SUFFICES ASSUME Init PROVE IInv
  OBVIOUS
<1>1. TypeOK
  BY TypeInit
<1>2. \A p \in Relays : relay[p] = NoTx /\ Batch(p) = {}
  BY DEF Init, Batch, NoTx, Opened
<1>3. \A p \in Relays, r \in Rows, i \in 1 .. Len(Chain) : ~Returned(p, r, i)
  BY <1>2 DEF Returned, IsNext, NoTx, Opened
<1>4. NoSharedRow /\ HeldRowsStayClaimable
  BY <1>2 DEF NoSharedRow, HeldRowsStayClaimable
<1>5. RetriesCapped
  BY LimitsAssumption DEF Init, RetriesCapped, Absent
<1>6. TxShape
  BY <1>2 DEF TxShape, NoTx, Opened
<1>7. RequestsNameRows
  BY RowsAssumption DEF Init, RequestsNameRows, Absent, NoRequest
<1>8. MarksAreEarned
  BY <1>3 DEF MarksAreEarned, Init, Absent
<1>9. EffectsAreAccounted
  BY DEF EffectsAreAccounted, Init
<1>. QED
  BY <1>1, <1>4, <1>5, <1>6, <1>7, <1>8, <1>9 DEF IInv

\* New rows do not disturb the invariant: they are claimable and untouched.
LEMMA NewRowsKeep ==
  ASSUME IInv, TypeOK', UNCHANGED <<relay, admin, heard, spoiled>>,
         \A r \in Rows : row[r].there => row'[r] = row[r],
         \A r \in Rows : row'[r] # row[r] =>
            row'[r].there /\ ~row'[r].dispatched /\ row'[r].retries = 0
  PROVE  IInv'
<1>1. \A p \in Relays : Batch(p)' = Batch(p)
  BY DEF Batch
<1>2. NoSharedRow' /\ TxShape'
  BY <1>1 DEF IInv, NoSharedRow, TxShape
<1>3. HeldRowsStayClaimable'
  <2> SUFFICES ASSUME NEW p \in Relays, NEW r \in Batch(p)' PROVE Claimable(row'[r])
    BY DEF HeldRowsStayClaimable, Claimable
  <2>1. r \in Batch(p) /\ r \in Rows
    BY <1>1 DEF IInv, TypeOK, TxType, Batch
  <2>2. Claimable(row[r])
    BY <2>1 DEF IInv, HeldRowsStayClaimable
  <2>. QED
    BY <2>1, <2>2 DEF Claimable
<1>4. RetriesCapped'
  BY LimitsAssumption DEF IInv, RetriesCapped
<1>5. RequestsNameRows'
  BY DEF IInv, RequestsNameRows
<1>6. MarksAreEarned'
  <2> SUFFICES ASSUME NEW r \in Rows, NEW i \in 1 .. Len(Chain),
                      Applies(Chain[i], row'[r]),
                      \/ row'[r].dispatched /\ ~row'[r].purged
                      \/ \E p \in Relays : Returned(p, r, i)'
               PROVE  heard'[Chain[i]][r] >= 1
    BY DEF MarksAreEarned, Applies
  <2>1. \A p \in Relays : Returned(p, r, i)' <=> Returned(p, r, i)
    BY DEF Returned, IsNext
  <2>2. row'[r] = row[r]
    BY <2>1, HeldIsThere
  <2>. QED
    BY <2>1, <2>2 DEF IInv, MarksAreEarned
<1>7. EffectsAreAccounted'
  <2> SUFFICES ASSUME NEW r \in Rows, NEW d \in Dispatchers
               PROVE  heard'[d][r] <= spoiled'[r] + (IF Spent(d, r)' THEN 1 ELSE 0)
    BY DEF EffectsAreAccounted
  <2>1. row[r].dispatched => row'[r].dispatched
    BY DEF IInv, RequestsNameRows
  <2>2. Spent(d, r) => Spent(d, r)'
    BY <2>1 DEF Spent, IsNext
  <2>3. heard[d][r] <= spoiled[r] + (IF Spent(d, r) THEN 1 ELSE 0)
    BY DEF IInv, EffectsAreAccounted
  <2>4. heard[d][r] \in Nat /\ spoiled[r] \in Nat
    BY DEF IInv, TypeOK
  <2>. QED
    BY <2>2, <2>3, <2>4
<1>. QED
  BY <1>2, <1>3, <1>4, <1>5, <1>6, <1>7 DEF IInv

\* A call of dispatcher d for row r: no matter whether it ignores the event,
\* has its effect, or raises before or after it.
LEMMA CallKeeps ==
  ASSUME IInv, TypeOK', UNCHANGED <<admin, spoiled>>,
         NEW p \in Relays, NEW r \in Rows, NEW d \in Dispatchers, NEW raised \in BOOLEAN,
         AtCall(p, r, d),
         relay' = [relay EXCEPT ![p] = Advanced(relay[p], raised)],
         \A s \in Rows : row[s].there => row'[s] = row[s],
         \A s \in Rows : row'[s] # row[s] =>
            row'[s].there /\ ~row'[s].dispatched /\ row'[s].retries = 0,
         \/ heard' = Hear(d, r)
         \/ heard' = heard /\ (raised \/ ~Applies(d, row[r]))
  PROVE  IInv'
<1> TypeOK
  BY DEF IInv
<1>1. /\ \A q \in Relays : q # p => relay'[q] = relay[q]
      /\ relay'[p].todo = relay[p].todo /\ relay'[p].ok = relay[p].ok
      /\ relay'[p].bad = relay[p].bad /\ relay'[p].at = relay[p].at + 1
      /\ relay'[p].erred = (raised \/ relay[p].erred)
  BY DEF TypeOK, TxType, Advanced
<1>2. /\ \A q \in Relays : Batch(q)' = Batch(q)
      /\ \A q \in Relays, s \in Rows : IsNext(q, s)' <=> IsNext(q, s)
  BY <1>1 DEF Batch, IsNext
<1>3. IsNext(p, r) /\ relay[p].at \in 1 .. Len(Chain) /\ d = Chain[relay[p].at]
  BY DEF AtCall
<1>4. NoSharedRow'
  BY <1>2 DEF IInv, NoSharedRow
<1>5. HeldRowsStayClaimable'
  <2> SUFFICES ASSUME NEW q \in Relays, NEW s \in Batch(q)' PROVE Claimable(row'[s])
    BY DEF HeldRowsStayClaimable, Claimable
  <2>1. s \in Batch(q) /\ s \in Rows
    BY <1>2 DEF TypeOK, TxType, Batch
  <2>2. Claimable(row[s])
    BY <2>1 DEF IInv, HeldRowsStayClaimable
  <2>. QED
    BY <2>1, <2>2 DEF Claimable
<1>6. RetriesCapped'
  BY LimitsAssumption DEF IInv, RetriesCapped
<1>7. TxShape'
  <2>1. relay[p].todo # {}
    BY <1>3 DEF IsNext
  <2>. QED
    BY <1>1, <2>1 DEF IInv, TxShape
<1>8. RequestsNameRows'
  BY DEF IInv, RequestsNameRows
<1>9. \A s \in Rows, e \in Dispatchers :
         /\ heard[e][s] \in Nat /\ spoiled[s] \in Nat /\ heard'[e][s] \in Nat
         /\ heard'[e][s] >= heard[e][s]
         /\ heard'[e][s] # heard[e][s] => e = d /\ s = r /\ heard'[d][r] = heard[d][r] + 1
  <2>1. \A s \in Rows, e \in Dispatchers : heard[e][s] \in Nat /\ spoiled[s] \in Nat
    BY DEF TypeOK
  <2>2. CASE heard' = heard
    BY <2>1, <2>2
  <2>3. CASE heard' = Hear(d, r)
    <3>1. \A s \in Rows, e \in Dispatchers :
             heard'[e][s] = IF e = d /\ s = r THEN heard[e][s] + 1 ELSE heard[e][s]
      BY <2>3, HearCounts DEF TypeOK
    <3>. QED
      BY <2>1, <3>1
  <2>. QED
    BY <2>2, <2>3
<1>10. MarksAreEarned'
  <2> SUFFICES ASSUME NEW s \in Rows, NEW i \in 1 .. Len(Chain),
                      Applies(Chain[i], row'[s]),
                      \/ row'[s].dispatched /\ ~row'[s].purged
                      \/ \E q \in Relays : Returned(q, s, i)'
               PROVE  heard'[Chain[i]][s] >= 1
    BY DEF MarksAreEarned, Applies
  <2>1. \A q \in Relays : Returned(q, s, i)' =>
           \/ Returned(q, s, i)
           \/ q = p /\ s = r /\ i = relay[p].at /\ ~raised
    <3>1. IsNext(p, s) => s = r
      BY <1>3, NextIsUnique
    <3>. QED
      BY <1>1, <1>2, <1>3, <3>1 DEF Returned, TypeOK, TxType
  <2>2. row'[s] = row[s]
    BY <1>3, <2>1, HeldIsThere
  <2>3. CASE s = r /\ i = relay[p].at /\ ~raised
    <3>1. heard' = Hear(d, r)
      BY <1>3, <2>2, <2>3
    <3>2. heard'[d][r] = heard[d][r] + 1
      BY <3>1, HearCounts DEF TypeOK
    <3>. QED
      BY <1>3, <1>9, <2>3, <3>2
  <2>4. CASE ~(s = r /\ i = relay[p].at /\ ~raised)
    <3>1. heard[Chain[i]][s] >= 1
      BY <2>1, <2>2, <2>4 DEF IInv, MarksAreEarned
    <3>. QED
      BY <1>9, <3>1, ChainEntries
  <2>. QED
    BY <2>3, <2>4
<1>11. EffectsAreAccounted'
  <2> SUFFICES ASSUME NEW s \in Rows, NEW e \in Dispatchers
               PROVE  heard'[e][s] <= spoiled'[s] + (IF Spent(e, s)' THEN 1 ELSE 0)
    BY DEF EffectsAreAccounted
  <2>1. heard[e][s] <= spoiled[s] + (IF Spent(e, s) THEN 1 ELSE 0)
    BY DEF IInv, EffectsAreAccounted
  <2>2. Spent(e, s) => Spent(e, s)'
    <3>1. row[s].dispatched => row'[s].dispatched
      BY DEF IInv, RequestsNameRows
    <3>2. \A q \in Relays : /\ relay'[q].ok = relay[q].ok
                            /\ relay'[q].at >= relay[q].at
                            /\ relay[q].at \in Nat /\ relay'[q].at \in Nat
      <4>1. \A q \in Relays : relay[q].at \in Nat
        BY ChainLength DEF TypeOK, TxType
      <4>. QED
        BY <1>1, <4>1
    <3>. QED
      BY <1>2, <3>1, <3>2 DEF Spent
  <2>3. CASE e = d /\ s = r
    <3>1. ~Spent(d, r)
      <4>1. \A i \in 1 .. Len(Chain) : i < relay[p].at => Chain[i] # d
        BY <1>3, ChainAssumption
      <4>. QED
        BY <1>3, <4>1, NextIsUnmarked DEF Spent
    <3>2. Spent(d, r)'
      BY <1>1, <1>2, <1>3 DEF Spent
    <3>. QED
      BY <1>9, <2>1, <2>3, <3>1, <3>2
  <2>4. CASE ~(e = d /\ s = r)
    BY <1>9, <2>1, <2>2, <2>4
  <2>. QED
    BY <2>3, <2>4
<1>. QED
  BY <1>4, <1>5, <1>6, <1>7, <1>8, <1>10, <1>11 DEF IInv

\* Opening a transaction.
LEMMA ClaimKeeps ==
  ASSUME IInv, TypeOK', NEW p \in Relays, Claim(p)
  PROVE  IInv'
<1> TypeOK
  BY DEF IInv
<1>1. PICK B \in SUBSET Rows :
         /\ relay' = [relay EXCEPT ![p] = Opened(B)]
         /\ \A r \in B : Claimable(row[r]) /\ ~Locked(r)
         /\ UNCHANGED <<row, admin, heard, spoiled>>
  BY DEF Claim, Oldest
<1>2. /\ \A q \in Relays : q # p => relay'[q] = relay[q]
      /\ relay'[p] = Opened(B)
  BY <1>1 DEF TypeOK
<1>3. /\ \A q \in Relays : q # p => Batch(q)' = Batch(q)
      /\ Batch(p)' = B
  BY <1>2 DEF Batch, Opened
<1>4. NoSharedRow'
  <2>1. \A q \in Relays : B \cap Batch(q) = {}
    BY <1>1 DEF Locked
  <2>. QED
    BY <1>3, <2>1 DEF IInv, NoSharedRow
<1>5. HeldRowsStayClaimable'
  BY <1>1, <1>3 DEF IInv, HeldRowsStayClaimable, Claimable
<1>6. RetriesCapped' /\ RequestsNameRows'
  BY <1>1 DEF IInv, RetriesCapped, RequestsNameRows
<1>7. TxShape'
  BY <1>2 DEF IInv, TxShape, Opened
<1>8. \A q \in Relays, r \in Rows, i \in 1 .. Len(Chain) :
         Returned(q, r, i)' => Returned(q, r, i)
  BY <1>2 DEF Returned, IsNext, Opened
<1>9. MarksAreEarned'
  BY <1>1, <1>8 DEF IInv, MarksAreEarned
<1>10. EffectsAreAccounted'
  <2>1. \A q \in Relays, r \in Rows : r \in Batch(q) => q # p
    BY DEF Claim
  <2>2. \A r \in Rows, d \in Dispatchers : Spent(d, r) => Spent(d, r)'
    BY <1>1, <1>2, <2>1 DEF Spent, IsNext, Batch
  <2>3. \A r \in Rows, d \in Dispatchers : heard[d][r] \in Nat /\ spoiled[r] \in Nat
    BY DEF TypeOK
  <2> SUFFICES ASSUME NEW r \in Rows, NEW d \in Dispatchers
               PROVE  heard'[d][r] <= spoiled'[r] + (IF Spent(d, r)' THEN 1 ELSE 0)
    BY DEF EffectsAreAccounted
  <2>4. heard[d][r] <= spoiled[r] + (IF Spent(d, r) THEN 1 ELSE 0)
    BY DEF IInv, EffectsAreAccounted
  <2>. QED
    BY <1>1, <2>2, <2>3, <2>4
<1>. QED
  BY <1>4, <1>5, <1>6, <1>7, <1>9, <1>10 DEF IInv

\* A row leaves todo with its mark.
LEMMA HandledKeeps ==
  ASSUME IInv, TypeOK', NEW p \in Relays, NEW r \in Rows, Handled(p, r)
  PROVE  IInv'
<1> TypeOK
  BY DEF IInv
<1>1. /\ \A q \in Relays : q # p => relay'[q] = relay[q]
      /\ relay'[p].todo = relay[p].todo \ {r}
      /\ relay'[p].at = 1 /\ relay'[p].erred = FALSE
      /\ relay'[p].ok = IF relay[p].erred THEN relay[p].ok ELSE relay[p].ok \cup {r}
      /\ relay'[p].bad = IF relay[p].erred THEN relay[p].bad \cup {r} ELSE relay[p].bad
  BY DEF TypeOK, Handled, Marked
<1>2. /\ IsNext(p, r) /\ relay[p].at = Len(Chain) + 1 /\ r \in relay[p].todo
      /\ UNCHANGED <<row, admin, heard>>
  BY DEF Handled, IsNext
<1>3. \A q \in Relays : Batch(q)' = Batch(q)
  BY <1>1, <1>2 DEF Batch
<1>4. NoSharedRow' /\ HeldRowsStayClaimable'
  BY <1>2, <1>3 DEF IInv, NoSharedRow, HeldRowsStayClaimable, Claimable
<1>5. RetriesCapped' /\ RequestsNameRows'
  BY <1>2 DEF IInv, RetriesCapped, RequestsNameRows
<1>6. TxShape'
  BY <1>1, <1>2 DEF IInv, TxShape
<1>7. MarksAreEarned'
  <2> SUFFICES ASSUME NEW s \in Rows, NEW i \in 1 .. Len(Chain),
                      Applies(Chain[i], row[s]),
                      \/ row[s].dispatched /\ ~row[s].purged
                      \/ \E q \in Relays : Returned(q, s, i)'
               PROVE  heard[Chain[i]][s] >= 1
    BY <1>2 DEF MarksAreEarned, Applies
  <2>1. \A q \in Relays : Returned(q, s, i)' => Returned(q, s, i)
    <3> SUFFICES ASSUME NEW q \in Relays, Returned(q, s, i)' PROVE Returned(q, s, i)
      OBVIOUS
    <3>1. CASE q # p
      BY <1>1, <3>1 DEF Returned, IsNext
    <3>2. CASE q = p
      <4>1. s \in relay'[p].ok
        BY <1>1, <3>2, ChainLength DEF Returned
      <4>2. CASE s \in relay[p].ok
        BY <3>2, <4>2 DEF Returned
      <4>3. CASE s \notin relay[p].ok
        <5>1. s = r /\ ~relay[p].erred
          BY <1>1, <4>1, <4>3
        <5>2. i < relay[p].at
          BY <1>2, ChainLength
        <5>. QED
          BY <1>2, <3>2, <5>1, <5>2 DEF Returned
      <4>. QED
        BY <4>2, <4>3
    <3>. QED
      BY <3>1, <3>2
  <2>. QED
    BY <2>1 DEF IInv, MarksAreEarned
<1>8. EffectsAreAccounted'
  <2> SUFFICES ASSUME NEW s \in Rows, NEW e \in Dispatchers
               PROVE  heard[e][s] <= spoiled'[s] + (IF Spent(e, s)' THEN 1 ELSE 0)
    BY <1>2 DEF EffectsAreAccounted
  <2>1. heard[e][s] <= spoiled[s] + (IF Spent(e, s) THEN 1 ELSE 0)
    BY DEF IInv, EffectsAreAccounted
  <2>2. heard[e][s] \in Nat /\ spoiled[s] \in Nat
    BY DEF TypeOK
  <2>3. spoiled'[s] = IF relay[p].erred /\ s = r THEN spoiled[s] + 1 ELSE spoiled[s]
    BY DEF Handled, TypeOK
  <2>4. CASE relay[p].erred /\ s = r
    BY <2>1, <2>2, <2>3, <2>4
  <2>5. CASE ~(relay[p].erred /\ s = r)
    <3>1. Spent(e, s) => Spent(e, s)'
      <4>1. ASSUME row[s].dispatched \/ \E q \in Relays : s \in relay[q].ok
            PROVE  Spent(e, s)'
        BY <1>1, <1>2, <4>1 DEF Spent
      <4>2. ASSUME NEW q \in Relays, IsNext(q, s), q # p PROVE IsNext(q, s)'
        BY <1>1, <4>2 DEF IsNext
      <4>3. ASSUME IsNext(p, s) PROVE s \in relay'[p].ok
        <5>1. s = r
          BY <1>2, <4>3, NextIsUnique
        <5>. QED
          BY <1>1, <2>5, <5>1
      <4>. QED
        BY <1>1, <4>1, <4>2, <4>3 DEF Spent
    <3>. QED
      BY <2>1, <2>2, <2>3, <2>5, <3>1
  <2>. QED
    BY <2>4, <2>5
<1>. QED
  BY <1>4, <1>5, <1>6, <1>7, <1>8 DEF IInv

\* The batch ends: its marks become durable and its locks are free.
LEMMA CommitKeeps ==
  ASSUME IInv, TypeOK', NEW p \in Relays, Commit(p)
  PROVE  IInv'
<1> TypeOK
  BY DEF IInv
<1>1. /\ \A q \in Relays : q # p => relay'[q] = relay[q]
      /\ relay'[p].todo = {} /\ relay'[p].ok = {} /\ relay'[p].bad = {}
      /\ relay'[p].at = 1 /\ relay'[p].erred = FALSE
      /\ Batch(p)' = {}
  BY DEF TypeOK, Commit, NoTx, Opened, Batch
<1>2. relay[p].todo = {} /\ UNCHANGED <<admin, heard, spoiled>>
  BY DEF Commit
<1>3. \A r \in Rows :
         /\ row'[r].there = row[r].there /\ row'[r].purged = row[r].purged
         /\ row'[r].kind = row[r].kind /\ row'[r].urgent = row[r].urgent
         /\ row'[r].dispatched <=> (row[r].dispatched \/ r \in relay[p].ok)
         /\ row'[r].retries =
               IF r \in relay[p].bad THEN row[r].retries + 1 ELSE row[r].retries
  BY DEF TypeOK, RowType, Commit
<1>4. \A q \in Relays : q # p => Batch(q)' = Batch(q)
  BY <1>1 DEF Batch
<1>5. NoSharedRow'
  BY <1>1, <1>4 DEF IInv, NoSharedRow
<1>6. HeldRowsStayClaimable'
  <2> SUFFICES ASSUME NEW q \in Relays, NEW r \in Batch(q)' PROVE Claimable(row'[r])
    BY DEF HeldRowsStayClaimable, Claimable
  <2>1. q # p /\ r \in Batch(q) /\ r \in Rows
    BY <1>1, <1>4 DEF TypeOK, TxType, Batch
  <2>2. r \notin relay[p].ok /\ r \notin relay[p].bad
    BY <2>1, OneHolder DEF Batch
  <2>3. Claimable(row[r])
    BY <2>1 DEF IInv, HeldRowsStayClaimable
  <2>. QED
    BY <1>3, <2>1, <2>2, <2>3 DEF Claimable
<1>7. RetriesCapped'
  <2> SUFFICES ASSUME NEW r \in Rows PROVE row'[r].retries <= MaxRetries
    BY DEF RetriesCapped
  <2>1. row[r].retries \in Nat /\ row[r].retries <= MaxRetries
    BY DEF TypeOK, RowType, IInv, RetriesCapped
  <2>2. r \in relay[p].bad => row[r].retries < MaxRetries
    BY DEF Batch, IInv, HeldRowsStayClaimable, Claimable
  <2>. QED
    BY <1>3, <2>1, <2>2, LimitsAssumption
<1>8. TxShape'
  BY <1>1 DEF IInv, TxShape
<1>9. RequestsNameRows'
  <2>1. \A r \in Rows : r \in relay[p].ok => row[r].there
    BY HeldIsThere DEF Batch
  <2>. QED
    BY <1>2, <1>3, <2>1 DEF IInv, RequestsNameRows
<1>10. MarksAreEarned'
  <2> SUFFICES ASSUME NEW r \in Rows, NEW i \in 1 .. Len(Chain),
                      Applies(Chain[i], row'[r]),
                      \/ row'[r].dispatched /\ ~row'[r].purged
                      \/ \E q \in Relays : Returned(q, r, i)'
               PROVE  heard'[Chain[i]][r] >= 1
    BY DEF MarksAreEarned, Applies
  <2>1. Applies(Chain[i], row[r])
    BY <1>3 DEF Applies
  <2>2. \A q \in Relays : Returned(q, r, i)' => Returned(q, r, i)
    BY <1>1 DEF Returned, IsNext
  <2>3. r \in relay[p].ok => Returned(p, r, i)
    BY DEF Returned
  <2>. QED
    BY <1>2, <1>3, <2>1, <2>2, <2>3 DEF IInv, MarksAreEarned
<1>11. EffectsAreAccounted'
  <2> SUFFICES ASSUME NEW r \in Rows, NEW d \in Dispatchers
               PROVE  heard[d][r] <= spoiled[r] + (IF Spent(d, r)' THEN 1 ELSE 0)
    BY <1>2 DEF EffectsAreAccounted
  <2>1. Spent(d, r) => Spent(d, r)'
    <3>1. ~IsNext(p, r)
      BY <1>2 DEF IsNext
    <3>2. \A q \in Relays : q # p => (IsNext(q, r)' <=> IsNext(q, r))
      BY <1>1 DEF IsNext
    <3>. QED
      BY <1>1, <1>3, <3>1, <3>2 DEF Spent
  <2>2. heard[d][r] <= spoiled[r] + (IF Spent(d, r) THEN 1 ELSE 0)
    BY DEF IInv, EffectsAreAccounted
  <2>3. heard[d][r] \in Nat /\ spoiled[r] \in Nat
    BY DEF TypeOK
  <2>. QED
    BY <2>1, <2>2, <2>3
<1>. QED
  BY <1>5, <1>6, <1>7, <1>8, <1>9, <1>10, <1>11 DEF IInv

\* The transaction is lost: its marks and locks with it, not its effects.
LEMMA RollbackKeeps ==
  ASSUME IInv, TypeOK', NEW p \in Relays, Rollback(p)
  PROVE  IInv'
<1> TypeOK
  BY DEF IInv
<1>1. /\ \A q \in Relays : q # p => relay'[q] = relay[q]
      /\ relay'[p].todo = {} /\ relay'[p].ok = {} /\ relay'[p].bad = {}
      /\ relay'[p].at = 1 /\ relay'[p].erred = FALSE
      /\ Batch(p)' = {}
  BY DEF TypeOK, Rollback, NoTx, Opened, Batch
<1>2. UNCHANGED <<row, admin, heard>>
  BY DEF Rollback
<1>3. \A q \in Relays : Batch(q)' \subseteq Batch(q)
  BY <1>1 DEF Batch
<1>4. NoSharedRow'
  BY <1>3 DEF IInv, NoSharedRow
<1>5. HeldRowsStayClaimable'
  BY <1>2, <1>3 DEF IInv, HeldRowsStayClaimable, Claimable
<1>6. RetriesCapped' /\ RequestsNameRows'
  BY <1>2 DEF IInv, RetriesCapped, RequestsNameRows
<1>7. TxShape'
  BY <1>1 DEF IInv, TxShape
<1>8. \A q \in Relays, r \in Rows, i \in 1 .. Len(Chain) :
         Returned(q, r, i)' => Returned(q, r, i)
  BY <1>1 DEF Returned, IsNext
<1>9. MarksAreEarned'
  BY <1>2, <1>8 DEF IInv, MarksAreEarned
<1>10. EffectsAreAccounted'
  <2> SUFFICES ASSUME NEW r \in Rows, NEW d \in Dispatchers
               PROVE  heard[d][r] <= spoiled'[r] + (IF Spent(d, r)' THEN 1 ELSE 0)
    BY <1>2 DEF EffectsAreAccounted
  <2> DEFINE Worked == r \in relay[p].ok \/ (IsNext(p, r) /\ relay[p].at > 1)
  <2>1. heard[d][r] <= spoiled[r] + (IF Spent(d, r) THEN 1 ELSE 0)
    BY DEF IInv, EffectsAreAccounted
  <2>2. heard[d][r] \in Nat /\ spoiled[r] \in Nat
    BY DEF TypeOK
  <2>3. spoiled'[r] = IF Worked THEN spoiled[r] + 1 ELSE spoiled[r]
    BY DEF Rollback
  <2>4. CASE Worked
    BY <2>1, <2>2, <2>3, <2>4
  <2>5. CASE ~Worked
    <3>1. \A i \in 1 .. Len(Chain) : ~(IsNext(p, r) /\ i < relay[p].at)
      BY <2>5, ChainLength DEF TypeOK, TxType
    <3>2. \A q \in Relays : q # p => (IsNext(q, r)' <=> IsNext(q, r))
      BY <1>1 DEF IsNext
    <3>3. Spent(d, r) => Spent(d, r)'
      BY <1>1, <1>2, <2>5, <3>1, <3>2 DEF Spent
    <3>. QED
      BY <2>1, <2>2, <2>3, <2>5, <3>3
  <2>. QED
    BY <2>4, <2>5
<1>. QED
  BY <1>4, <1>5, <1>6, <1>7, <1>9, <1>10 DEF IInv

\* The dead-letter API writes only rows that no transaction holds.
LEMMA AdminKeeps ==
  ASSUME IInv, TypeOK', NEW a \in Admins, NEW r \in Rows,
         AdminWrite(a, r) \/ \E op \in {"retry", "purge"} : AdminRead(a, op, r)
  PROVE  IInv'
<1> TypeOK
  BY DEF IInv
<1>1. UNCHANGED <<relay, heard, spoiled>>
  BY DEF AdminWrite, AdminRead
<1>2. \A s \in Rows :
         /\ row'[s].there = row[s].there /\ row'[s].kind = row[s].kind
         /\ row'[s].urgent = row[s].urgent
         /\ row[s].dispatched => row'[s].dispatched
         /\ row'[s].dispatched => row[s].dispatched \/ (row'[s].purged /\ s = r)
         /\ row[s].purged => row'[s].purged
         /\ row'[s].retries = row[s].retries \/ row'[s].retries = 0
         /\ row'[s] # row[s] => s = r /\ ~Locked(s)
  <2>1. CASE \E op \in {"retry", "purge"} : AdminRead(a, op, r)
    <3>1. row' = row
      BY <2>1 DEF AdminRead
    <3>. QED
      BY <3>1
  <2>2. CASE AdminWrite(a, r)
    <3>1. row[r] \in RowType
      BY DEF TypeOK
    <3>2. /\ \A s \in Rows : s # r => row'[s] = row[s]
          /\ \/ row'[r] = [row[r] EXCEPT !.retries = 0]
             \/ row'[r] = [row[r] EXCEPT !.dispatched = TRUE, !.purged = TRUE]
          /\ ~Locked(r)
      BY <2>2 DEF AdminWrite, TypeOK
    <3>3. CASE row'[r] = [row[r] EXCEPT !.retries = 0]
      <4>1. /\ row'[r].there = row[r].there /\ row'[r].kind = row[r].kind
            /\ row'[r].urgent = row[r].urgent /\ row'[r].retries = 0
            /\ row'[r].dispatched = row[r].dispatched
            /\ row'[r].purged = row[r].purged
        BY <3>1, <3>3 DEF RowType
      <4>. QED
        BY <3>2, <4>1
    <3>4. CASE row'[r] = [row[r] EXCEPT !.dispatched = TRUE, !.purged = TRUE]
      <4>1. /\ row'[r].there = row[r].there /\ row'[r].kind = row[r].kind
            /\ row'[r].urgent = row[r].urgent /\ row'[r].retries = row[r].retries
            /\ row'[r].dispatched = TRUE /\ row'[r].purged = TRUE
        BY <3>1, <3>4 DEF RowType
      <4>. QED
        BY <3>2, <4>1
    <3>. QED
      BY <3>2, <3>3, <3>4
  <2>. QED
    BY <2>1, <2>2
<1>3. /\ \A p \in Relays : Batch(p)' = Batch(p)
      /\ \A p \in Relays, s \in Rows : IsNext(p, s)' <=> IsNext(p, s)
      /\ \A p \in Relays, s \in Rows, i \in 1 .. Len(Chain) :
            Returned(p, s, i)' <=> Returned(p, s, i)
  BY <1>1 DEF Batch, IsNext, Returned
<1>4. NoSharedRow' /\ TxShape'
  BY <1>1, <1>3 DEF IInv, NoSharedRow, TxShape
<1>5. HeldRowsStayClaimable'
  <2> SUFFICES ASSUME NEW p \in Relays, NEW s \in Batch(p)' PROVE Claimable(row'[s])
    BY DEF HeldRowsStayClaimable, Claimable
  <2>1. s \in Batch(p) /\ s \in Rows
    BY <1>3 DEF TypeOK, TxType, Batch
  <2>2. row'[s] = row[s]
    BY <1>2, <2>1 DEF Locked
  <2>. QED
    BY <2>1, <2>2 DEF IInv, HeldRowsStayClaimable, Claimable
<1>6. RetriesCapped'
  BY <1>2, LimitsAssumption DEF IInv, RetriesCapped
<1>7. RequestsNameRows'
  <2>1. row[r].there
    BY DEF AdminWrite, AdminRead, IInv, RequestsNameRows, InDlq
  <2>2. \A b \in Admins : admin'[b].on \in Rows =>
           (admin[b].on \in Rows /\ admin'[b].on = admin[b].on) \/ admin'[b].on = r
    BY RowsAssumption DEF AdminWrite, AdminRead, NoRequest, TypeOK
  <2>. QED
    BY <1>2, <2>1, <2>2 DEF IInv, RequestsNameRows
<1>8. MarksAreEarned'
  <2> SUFFICES ASSUME NEW s \in Rows, NEW i \in 1 .. Len(Chain),
                      Applies(Chain[i], row'[s]),
                      \/ row'[s].dispatched /\ ~row'[s].purged
                      \/ \E p \in Relays : Returned(p, s, i)'
               PROVE  heard'[Chain[i]][s] >= 1
    BY DEF MarksAreEarned, Applies
  <2>1. Applies(Chain[i], row[s])
    BY <1>2 DEF Applies
  <2>2. row'[s].dispatched /\ ~row'[s].purged => row[s].dispatched /\ ~row[s].purged
    BY <1>2
  <2>. QED
    BY <1>1, <1>3, <2>1, <2>2 DEF IInv, MarksAreEarned
<1>9. EffectsAreAccounted'
  <2> SUFFICES ASSUME NEW s \in Rows, NEW d \in Dispatchers
               PROVE  heard[d][s] <= spoiled[s] + (IF Spent(d, s)' THEN 1 ELSE 0)
    BY <1>1 DEF EffectsAreAccounted
  <2>1. Spent(d, s) => Spent(d, s)'
    BY <1>1, <1>2, <1>3 DEF Spent
  <2>2. heard[d][s] <= spoiled[s] + (IF Spent(d, s) THEN 1 ELSE 0)
    BY DEF IInv, EffectsAreAccounted
  <2>3. heard[d][s] \in Nat /\ spoiled[s] \in Nat
    BY DEF TypeOK
  <2>. QED
    BY <2>1, <2>2, <2>3
<1>. QED
  BY <1>4, <1>5, <1>6, <1>7, <1>8, <1>9 DEF IInv

-----------------------------------------------------------------------------
(* The theorems. *)

\* Every step of the outbox keeps the inductive invariant.
LEMMA InvStep == IInv /\ [Next]_vars => IInv'
<1> SUFFICES ASSUME IInv, [Next]_vars PROVE IInv'
  OBVIOUS
<1>0. TypeOK /\ TypeOK'
  BY TypeStep DEF IInv
<1>1. ASSUME NEW r \in Rows, NEW u \in BOOLEAN, Submit(r, u) PROVE IInv'
  <2>1. /\ \A s \in Rows : row[s].there => row'[s] = row[s]
        /\ \A s \in Rows : row'[s] # row[s] =>
              row'[s].there /\ ~row'[s].dispatched /\ row'[s].retries = 0
    BY <1>0, <1>1 DEF Submit, NewRow, TypeOK
  <2>. QED
    BY <1>0, <1>1, <2>1, NewRowsKeep DEF Submit
<1>2. ASSUME NEW p \in Relays, NEW r \in Rows, NEW d \in Dispatchers,
             Ignore(p, r, d) \/ Perform(p, r, d) \/ Raise(p, r, d)
      PROVE  IInv'
  <2>1. row' = row \/ row' \in Appended(d)
    BY <1>2 DEF Ignore, Perform, Raise
  <2>2. /\ \A s \in Rows : row[s].there => row'[s] = row[s]
        /\ \A s \in Rows : row'[s] # row[s] =>
              row'[s].there /\ ~row'[s].dispatched /\ row'[s].retries = 0
    BY <1>0, <2>1, AppendedRows DEF TypeOK
  <2>3. PICK raised \in BOOLEAN :
           /\ relay' = [relay EXCEPT ![p] = Advanced(relay[p], raised)]
           /\ \/ heard' = Hear(d, r)
              \/ heard' = heard /\ (raised \/ ~Applies(d, row[r]))
    BY <1>2 DEF Ignore, Perform, Raise
  <2>4. AtCall(p, r, d) /\ UNCHANGED <<admin, spoiled>>
    BY <1>2 DEF Ignore, Perform, Raise
  <2>. QED
    BY <1>0, <2>2, <2>3, <2>4, CallKeeps
<1>3. CASE UNCHANGED vars
  <2>1. /\ \A r \in Rows : row[r].there => row'[r] = row[r]
        /\ \A r \in Rows : row'[r] = row[r]
        /\ UNCHANGED <<relay, admin, heard, spoiled>>
    BY <1>3 DEF vars
  <2>. QED
    BY <1>0, <2>1, NewRowsKeep
<1>. QED
  BY <1>0, <1>1, <1>2, <1>3, ClaimKeeps, HandledKeeps, CommitKeeps, RollbackKeeps,
     AdminKeeps DEF Next, RelayStep

\* The inductive invariant holds in every reachable state.
THEOREM InvariantHolds == Spec => []IInv
  BY InvInit, InvStep, PTL DEF Spec

\* Replicas never share a row, and nothing else moves a row that one of them
\* holds, for every number of replicas, batch size and dead-letter request.
THEOREM ReplicasAreIsolated == Spec => [](NoSharedRow /\ HeldRowsStayClaimable)
<1>1. IInv => NoSharedRow /\ HeldRowsStayClaimable
  BY DEF IInv
<1>. QED
  BY <1>1, InvariantHolds, PTL

\* No row is retried past the cap.
THEOREM RetriesStayCapped == Spec => []RetriesCapped
<1>1. IInv => RetriesCapped
  BY DEF IInv
<1>. QED
  BY <1>1, InvariantHolds, PTL

\* A row marked dispatched has had the effect of every dispatcher it concerns.
THEOREM DispatchedRowsWereHeard == Spec => []DispatchedWasHeard
<1>1. IInv => DispatchedWasHeard
  BY DEF IInv, MarksAreEarned, DispatchedWasHeard
<1>. QED
  BY <1>1, InvariantHolds, PTL

\* Every duplicate effect has a spoiled pass over the same row behind it.
THEOREM DuplicatesHaveACause == Spec => []DuplicatesAreAccounted
<1>1. IInv => DuplicatesAreAccounted
  <2> SUFFICES ASSUME IInv, NEW r \in Rows, NEW d \in Dispatchers
               PROVE  heard[d][r] <= 1 + spoiled[r]
    BY DEF DuplicatesAreAccounted
  <2>1. heard[d][r] <= spoiled[r] + (IF Spent(d, r) THEN 1 ELSE 0)
    BY DEF IInv, EffectsAreAccounted
  <2>2. heard[d][r] \in Nat /\ spoiled[r] \in Nat
    BY DEF IInv, TypeOK
  <2>. QED
    BY <2>1, <2>2
<1>. QED
  BY <1>1, InvariantHolds, PTL

\* No step takes a dispatched row back.
LEMMA StepsKeepDispatched ==
  IInv /\ [Next]_vars => [\A r \in Rows : row[r].dispatched => row'[r].dispatched]_vars
<1> SUFFICES ASSUME IInv, [Next]_vars, NEW s \in Rows, row[s].dispatched
             PROVE  row'[s].dispatched
  OBVIOUS
<1> TypeOK /\ row[s].there /\ row[s] \in RowType
  BY DEF IInv, RequestsNameRows, TypeOK
<1>1. ASSUME NEW r \in Rows, NEW u \in BOOLEAN, Submit(r, u) PROVE row'[s].dispatched
  BY <1>1 DEF Submit, TypeOK
<1>2. ASSUME NEW p \in Relays, NEW r \in Rows, NEW d \in Dispatchers,
             Ignore(p, r, d) \/ Perform(p, r, d) \/ Raise(p, r, d)
      PROVE  row'[s].dispatched
  <2>1. row' = row \/ row' \in Appended(d)
    BY <1>2 DEF Ignore, Perform, Raise
  <2>. QED
    BY <2>1, AppendedRows DEF TypeOK
<1>3. ASSUME NEW p \in Relays, Commit(p) PROVE row'[s].dispatched
  BY <1>3 DEF Commit, RowType
<1>4. ASSUME NEW a \in Admins, NEW r \in Rows, AdminWrite(a, r) PROVE row'[s].dispatched
  BY <1>4 DEF AdminWrite, TypeOK, RowType
<1>5. ASSUME row' = row PROVE row'[s].dispatched
  BY <1>5
<1>. QED
  BY <1>1, <1>2, <1>3, <1>4, <1>5
     DEF Next, RelayStep, Claim, Handled, Rollback, AdminRead, vars

\* dispatched_at is final.
THEOREM DispatchedStaysFinal == Spec => DispatchedIsFinal
<1>1. IInv /\ [Next]_vars => [\A r \in Rows : row[r].dispatched => row'[r].dispatched]_vars
  BY StepsKeepDispatched
<1>. QED
  BY <1>1, InvariantHolds, PTL DEF Spec, DispatchedIsFinal

-----------------------------------------------------------------------------
(* The dead-letter queue as operators see it.                              *)

\* A step of a relay, of a caller or of a reading operator takes no row out of the
\* dead-letter queue: a held row was never in it, and an append is a row of its own.
LEMMA StepsKeepDeadLetters ==
  IInv /\ [Next]_vars =>
    [\A r \in Rows : InDlq(row[r]) /\ ~InDlq(row'[r])
        => \E a \in Admins : admin[a].on = r /\ admin'[a] = NoRequest]_vars
<1> SUFFICES ASSUME IInv, [Next]_vars, NEW s \in Rows, InDlq(row[s]), ~InDlq(row'[s])
             PROVE  \E a \in Admins : admin[a].on = s /\ admin'[a] = NoRequest
  BY DEF InDlq
<1> TypeOK /\ row[s].there /\ row[s] \in RowType
  BY DEF IInv, TypeOK, InDlq
<1>1. row'[s] # row[s]
  OBVIOUS
<1>2. ASSUME NEW r \in Rows, NEW u \in BOOLEAN, Submit(r, u) PROVE FALSE
  BY <1>1, <1>2 DEF Submit, TypeOK
<1>3. ASSUME NEW p \in Relays, NEW r \in Rows, NEW d \in Dispatchers,
             Ignore(p, r, d) \/ Perform(p, r, d) \/ Raise(p, r, d)
      PROVE  FALSE
  <2>1. row' = row \/ row' \in Appended(d)
    BY <1>3 DEF Ignore, Perform, Raise
  <2>. QED
    BY <1>1, <2>1, AppendedRows DEF TypeOK
<1>4. ASSUME NEW p \in Relays, Commit(p) PROVE FALSE
  <2>1. s \notin relay[p].ok /\ s \notin relay[p].bad
    BY LimitsAssumption DEF IInv, HeldRowsStayClaimable, Batch, Claimable, InDlq, RowType
  <2>. QED
    BY <1>4, <2>1 DEF Commit, RowType, InDlq
<1>5. ASSUME NEW a \in Admins, NEW r \in Rows, AdminWrite(a, r)
      PROVE  admin[a].on = s /\ admin'[a] = NoRequest
  BY <1>1, <1>5 DEF AdminWrite, TypeOK
<1>. QED
  BY <1>1, <1>2, <1>3, <1>4, <1>5
     DEF Next, RelayStep, Claim, Handled, Rollback, AdminRead, vars

\* A dead letter leaves the queue only by the write of a request made for it.
THEOREM DeadLettersWaitForOperators == Spec => OnlyOperatorsReviveRows
  BY StepsKeepDeadLetters, InvariantHolds, PTL DEF Spec, OnlyOperatorsReviveRows

\* A row the relay is done with stays done, delivered or dead, in every race of relays and
\* operators (routes_dlq.py:215-279, relay.py:213-229).
THEOREM SettledRowsAreLeftAlone == Spec => SettledRowsStay
  BY DispatchedStaysFinal, DeadLettersWaitForOperators DEF SettledRowsStay

-----------------------------------------------------------------------------
(* The relay implements EventDelivery.                                     *)

\* What an operator wrote off is dispatched, so a held row never is.
PurgedIsDispatched == \A r \in Rows : row[r].purged => row[r].dispatched

\* An append, if there is one, writes a fresh row where none was.
LEMMA AppendIsFresh ==
  ASSUME NEW p \in Relays, NEW r \in Rows, NEW d \in Dispatchers,
         Ignore(p, r, d) \/ Perform(p, r, d) \/ Raise(p, r, d)
  PROVE  \/ row' = row
         \/ \E x \in Rows, u \in BOOLEAN :
               ~row[x].there /\ row' = [row EXCEPT ![x] = NewRow("enriched", u)]
<1>1. row' = row \/ row' \in Appended(d)
  BY DEF Ignore, Perform, Raise
<1>2. CASE row' \in Appended(d) /\ row' # row
  BY <1>2 DEF Appended
<1>. QED
  BY <1>1, <1>2

\* No commit, append or retry undoes the mark of a purge.
LEMMA PurgedStep == IInv /\ PurgedIsDispatched /\ [Next]_vars => PurgedIsDispatched'
<1> SUFFICES ASSUME IInv, PurgedIsDispatched, [Next]_vars, NEW s \in Rows
             PROVE  row'[s].purged => row'[s].dispatched
  BY DEF PurgedIsDispatched
<1> TypeOK /\ row[s] \in RowType /\ (row[s].purged => row[s].dispatched)
  BY DEF IInv, TypeOK, PurgedIsDispatched
<1>1. ASSUME NEW r \in Rows, NEW u \in BOOLEAN, Submit(r, u)
      PROVE  row'[s].purged => row'[s].dispatched
  BY <1>1 DEF Submit, TypeOK, NewRow
<1>2. ASSUME NEW p \in Relays, NEW r \in Rows, NEW d \in Dispatchers,
             Ignore(p, r, d) \/ Perform(p, r, d) \/ Raise(p, r, d)
      PROVE  row'[s].purged => row'[s].dispatched
  <2>1. CASE row' = row
    BY <2>1
  <2>2. ASSUME NEW x \in Rows, NEW u \in BOOLEAN, row' = [row EXCEPT ![x] = NewRow("enriched", u)]
        PROVE  row'[s].purged => row'[s].dispatched
    BY <2>2 DEF NewRow, TypeOK
  <2>. QED
    BY <1>2, <2>1, <2>2, AppendIsFresh
<1>3. ASSUME NEW p \in Relays, Commit(p) PROVE row'[s].purged => row'[s].dispatched
  BY <1>3 DEF Commit, RowType
<1>4. ASSUME NEW a \in Admins, NEW r \in Rows, AdminWrite(a, r)
      PROVE  row'[s].purged => row'[s].dispatched
  BY <1>4 DEF AdminWrite, TypeOK, RowType
<1>. QED
  BY <1>1, <1>2, <1>3, <1>4
     DEF Next, RelayStep, Claim, Handled, Rollback, AdminRead, vars

\* A write-off is a mark dispatched in every reachable state.
LEMMA PurgedRowsAreDispatched == Spec => []PurgedIsDispatched
<1>1. Init => PurgedIsDispatched
  BY DEF Init, Absent, PurgedIsDispatched
<1>. QED
  BY <1>1, PurgedStep, InvariantHolds, PTL DEF Spec

\* A held row is pending in the eyes of the abstraction.
LEMMA HeldIsPending ==
  ASSUME IInv, PurgedIsDispatched, NEW p \in Relays, NEW r \in Batch(p)
  PROVE  r \in Rows /\ StatusOf(row[r]) = "pending"
<1>1. r \in Rows
  BY DEF IInv, TypeOK, TxType, Batch
<1>2. Claimable(row[r]) /\ row[r] \in RowType
  BY <1>1 DEF IInv, HeldRowsStayClaimable, TypeOK
<1>. QED
  BY <1>1, <1>2, LimitsAssumption DEF PurgedIsDispatched, Claimable, StatusOf, InDlq, RowType

\* What an event needs is a set of dispatchers, and a fresh row is pending.
LEMMA FreshRows ==
  /\ \A x : NeedsOf(x) \in SUBSET Dispatchers
  /\ \A kind, u : StatusOf(NewRow(kind, u)) = "pending"
  BY ChainEntries, LimitsAssumption DEF NeedsOf, StatusOf, NewRow, InDlq

\* Rows and effects alone make the abstract state.
LEMMA AbstractStutter ==
  ASSUME row' = row, heard' = heard
  PROVE  UNCHANGED Delivery!avars
  BY DEF Delivery!avars

\* Writing a fresh row where none was records an event.
LEMMA FreshRecords ==
  ASSUME IInv, NEW r \in Rows, ~row[r].there, NEW kind, NEW u,
         row' = [row EXCEPT ![r] = NewRow(kind, u)]
  PROVE  /\ Delivery!Records(r)
         /\ [x \in Rows |-> StatusOf(row'[x])]
              = [[x \in Rows |-> StatusOf(row[x])] EXCEPT ![r] = "pending"]
<1>1. \A x \in Rows : row'[x] = IF x = r THEN NewRow(kind, u) ELSE row[x]
  BY DEF IInv, TypeOK
<1>2. [x \in Rows |-> StatusOf(row'[x])]
        = [[x \in Rows |-> StatusOf(row[x])] EXCEPT ![r] = "pending"]
  <2>1. \A x \in Rows : StatusOf(row'[x]) = IF x = r THEN "pending" ELSE StatusOf(row[x])
    BY <1>1, FreshRows
  <2>. QED
    BY <2>1
<1>3. [x \in Rows |-> NeedsOf(row'[x])]
        = [[x \in Rows |-> NeedsOf(row[x])] EXCEPT ![r] = NeedsOf(NewRow(kind, u))]
  <2>1. \A x \in Rows : NeedsOf(row'[x]) = IF x = r THEN NeedsOf(NewRow(kind, u)) ELSE NeedsOf(row[x])
    BY <1>1
  <2>. QED
    BY <2>1
<1>4. StatusOf(row[r]) = "none"
  BY DEF StatusOf
<1>. QED
  BY <1>2, <1>3, <1>4, FreshRows DEF Delivery!Records

\* A submission records an event.
LEMMA SubmitMaps ==
  ASSUME IInv, NEW r \in Rows, NEW u \in BOOLEAN, Submit(r, u)
  PROVE  Delivery!Record(r)
<1>1. heard' = heard
  BY DEF Submit
<1>2. UNCHANGED [x \in Rows |-> {d \in Dispatchers : heard[d][x] > 0}]
  BY <1>1
<1>. QED
  BY <1>2, FreshRecords DEF Submit, Delivery!Record

\* The effect of a dispatcher reaches its channel, whether it returns or raises.
LEMMA EffectMaps ==
  ASSUME IInv, PurgedIsDispatched, NEW p \in Relays, NEW r \in Rows, NEW d \in Dispatchers,
         Perform(p, r, d) \/ Raise(p, r, d), heard' = Hear(d, r)
  PROVE  Delivery!Reach(r, d)
<1> TypeOK
  BY DEF IInv
<1>1. AtCall(p, r, d) /\ Applies(d, row[r])
  BY DEF Perform, Raise
<1>2. StatusOf(row[r]) = "pending"
  BY <1>1, HeldIsPending DEF AtCall, IsNext, Batch
<1>3. d \in NeedsOf(row[r])
  BY <1>1 DEF NeedsOf, AtCall
<1>4. \A e \in Dispatchers, x \in Rows :
         /\ heard[e][x] \in Nat
         /\ heard'[e][x] = IF e = d /\ x = r THEN heard[e][x] + 1 ELSE heard[e][x]
  BY HearCounts DEF TypeOK
<1>5. [x \in Rows |-> {e \in Dispatchers : heard'[e][x] > 0}]
        = [[x \in Rows |-> {e \in Dispatchers : heard[e][x] > 0}] EXCEPT ![r] = @ \cup {d}]
  <2>1. \A x \in Rows : x # r =>
           {e \in Dispatchers : heard'[e][x] > 0} = {e \in Dispatchers : heard[e][x] > 0}
    BY <1>4
  <2>2. {e \in Dispatchers : heard'[e][r] > 0} = {e \in Dispatchers : heard[e][r] > 0} \cup {d}
    BY <1>4
  <2>. QED
    BY <2>1, <2>2
<1>6. \/ UNCHANGED <<[x \in Rows |-> StatusOf(row[x])], [x \in Rows |-> NeedsOf(row[x])]>>
      \/ \E x \in Rows :
            /\ Delivery!Records(x)
            /\ [y \in Rows |-> StatusOf(row'[y])]
                 = [[y \in Rows |-> StatusOf(row[y])] EXCEPT ![x] = "pending"]
  <2>1. CASE row' = row
    BY <2>1
  <2>2. ASSUME NEW x \in Rows, NEW u \in BOOLEAN, ~row[x].there,
               row' = [row EXCEPT ![x] = NewRow("enriched", u)]
        PROVE  \E z \in Rows :
                  /\ Delivery!Records(z)
                  /\ [y \in Rows |-> StatusOf(row'[y])]
                       = [[y \in Rows |-> StatusOf(row[y])] EXCEPT ![z] = "pending"]
    BY <2>2, FreshRecords
  <2>. QED
    BY <2>1, <2>2, AppendIsFresh
<1>. QED
  BY <1>2, <1>3, <1>5, <1>6 DEF Delivery!Reach

\* A commit concludes the batch: its good rows are delivered, those of its bad rows
\* that reach the cap are dead letters. A batch that only fails early concludes nothing.
LEMMA CommitMaps ==
  ASSUME IInv, PurgedIsDispatched, NEW p \in Relays, Commit(p)
  PROVE  \/ \E done, dead \in SUBSET Rows : Delivery!Conclude(done, dead)
         \/ UNCHANGED Delivery!avars
<1> TypeOK
  BY DEF IInv
<1> DEFINE done == relay[p].ok
           dead == {r \in relay[p].bad : row[r].retries + 1 >= MaxRetries}
<1>1. done \in SUBSET Rows /\ dead \in SUBSET Rows /\ done \cap relay[p].bad = {}
  BY DEF TypeOK, TxType, IInv, TxShape
<1>2. \A r \in done \cup relay[p].bad : StatusOf(row[r]) = "pending" /\ r \in Rows
  BY HeldIsPending DEF Batch
<1>3. \A r \in Rows :
         /\ row'[r].there = row[r].there /\ row'[r].purged = row[r].purged
         /\ row'[r].kind = row[r].kind /\ row'[r].urgent = row[r].urgent
         /\ row'[r].dispatched <=> (row[r].dispatched \/ r \in relay[p].ok)
         /\ row'[r].retries =
               IF r \in relay[p].bad THEN row[r].retries + 1 ELSE row[r].retries
  BY DEF TypeOK, RowType, Commit
<1>4. \A r \in Rows : StatusOf(row'[r]) =
         IF r \in done THEN "delivered" ELSE IF r \in dead THEN "dead" ELSE StatusOf(row[r])
  <2> SUFFICES ASSUME NEW r \in Rows
               PROVE  StatusOf(row'[r]) =
                        IF r \in done THEN "delivered"
                        ELSE IF r \in dead THEN "dead" ELSE StatusOf(row[r])
    OBVIOUS
  <2>0. row[r].retries \in Nat /\ MaxRetries \in Nat
    BY LimitsAssumption DEF TypeOK, RowType
  <2>1. CASE r \in done
    <3>1. row[r].there /\ ~row[r].purged
      BY <1>2, <2>1 DEF StatusOf
    <3>. QED
      BY <1>3, <2>1, <3>1 DEF StatusOf
  <2>2. CASE r \in relay[p].bad
    <3>1. row[r].there /\ ~row[r].purged /\ ~row[r].dispatched
      BY <1>2, <2>2 DEF StatusOf
    <3>2. r \notin done
      BY <1>1, <2>2
    <3>3. StatusOf(row'[r]) = IF row[r].retries + 1 >= MaxRetries THEN "dead" ELSE "pending"
      BY <1>3, <2>2, <3>1, <3>2 DEF StatusOf, InDlq
    <3>. QED
      BY <1>2, <2>2, <3>2, <3>3
  <2>3. CASE r \notin done /\ r \notin relay[p].bad
    BY <1>3, <2>3 DEF StatusOf, InDlq
  <2>. QED
    BY <2>1, <2>2, <2>3
<1>5. UNCHANGED <<[r \in Rows |-> NeedsOf(row[r])],
                  [r \in Rows |-> {d \in Dispatchers : heard[d][r] > 0}]>>
  <2>1. \A r \in Rows : NeedsOf(row'[r]) = NeedsOf(row[r])
    BY <1>3 DEF NeedsOf, Applies
  <2>2. heard' = heard
    BY DEF Commit
  <2>. QED
    BY <2>1, <2>2
<1>6. \A r \in done : NeedsOf(row[r]) \subseteq {d \in Dispatchers : heard[d][r] > 0}
  <2> SUFFICES ASSUME NEW r \in done, NEW i \in 1 .. Len(Chain), Applies(Chain[i], row[r])
               PROVE  Chain[i] \in Dispatchers /\ heard[Chain[i]][r] > 0
    BY DEF NeedsOf
  <2>1. r \in Rows /\ Returned(p, r, i)
    BY <1>1 DEF Returned
  <2>2. heard[Chain[i]][r] >= 1
    BY <2>1 DEF IInv, MarksAreEarned
  <2>3. Chain[i] \in Dispatchers
    BY ChainEntries
  <2>4. heard[Chain[i]][r] \in Nat
    BY <2>1, <2>3 DEF TypeOK
  <2>. QED
    BY <2>2, <2>3, <2>4
<1> HIDE DEF done, dead
<1>7. CASE done \cup dead = {}
  <2>1. \A r \in Rows : StatusOf(row'[r]) = StatusOf(row[r])
    BY <1>4, <1>7
  <2>. QED
    BY <1>5, <2>1 DEF Delivery!avars
<1>8. CASE done \cup dead # {}
  <2>1. [r \in Rows |-> StatusOf(row'[r])]
          = Delivery!With(Delivery!With([r \in Rows |-> StatusOf(row[r])], done, "delivered"), dead, "dead")
    <3>1. done \cap dead = {}
      BY <1>1 DEF dead
    <3>. QED
      BY <1>4, <3>1 DEF Delivery!With
  <2>2. Delivery!Conclude(done, dead)
    <3>1. done \cap dead = {} /\ \A e \in done \cup dead : StatusOf(row[e]) = "pending" /\ e \in Rows
      BY <1>1, <1>2 DEF dead
    <3>. QED
      BY <1>5, <1>6, <1>8, <2>1, <3>1 DEF Delivery!Conclude
  <2>. QED
    BY <1>1, <2>2
<1>. QED
  BY <1>7, <1>8

\* The write of an operator requeues a dead letter, writes an event off, or changes
\* nothing that shows: the row was not dead any more, or was purged already.
LEMMA AdminMaps ==
  ASSUME IInv, PurgedIsDispatched, NEW a \in Admins, NEW r \in Rows, AdminWrite(a, r)
  PROVE  Delivery!Requeue(r) \/ Delivery!WriteOff(r) \/ UNCHANGED Delivery!avars
<1> TypeOK /\ row[r] \in RowType /\ row[r].there
  BY DEF IInv, TypeOK, RequestsNameRows, AdminWrite
<1>1. /\ \A x \in Rows : x # r => row'[x] = row[x]
      /\ heard' = heard
  BY DEF AdminWrite, TypeOK
<1>2. \/ row'[r] = [row[r] EXCEPT !.retries = 0]
      \/ row'[r] = [row[r] EXCEPT !.dispatched = TRUE, !.purged = TRUE]
  BY DEF AdminWrite, TypeOK
<1>3. /\ row'[r].there /\ row'[r].kind = row[r].kind /\ row'[r].urgent = row[r].urgent
      /\ \/ /\ row'[r].retries = 0 /\ row'[r].dispatched = row[r].dispatched
            /\ row'[r].purged = row[r].purged
         \/ row'[r].purged
  BY <1>2 DEF RowType
<1>4. UNCHANGED <<[x \in Rows |-> NeedsOf(row[x])],
                  [x \in Rows |-> {d \in Dispatchers : heard[d][x] > 0}]>>
  <2>1. \A x \in Rows : NeedsOf(row'[x]) = NeedsOf(row[x])
    BY <1>1, <1>3 DEF NeedsOf, Applies
  <2>. QED
    BY <1>1, <2>1
<1>5. \A x \in Rows : x # r => StatusOf(row'[x]) = StatusOf(row[x])
  BY <1>1
<1>6. CASE StatusOf(row'[r]) = StatusOf(row[r])
  <2>1. \A x \in Rows : StatusOf(row'[x]) = StatusOf(row[x])
    BY <1>5, <1>6
  <2>. QED
    BY <1>4, <2>1 DEF Delivery!avars
<1>7. CASE row'[r].purged /\ StatusOf(row'[r]) # StatusOf(row[r])
  <2>1. StatusOf(row'[r]) = "purged" /\ StatusOf(row[r]) \notin {"none", "purged"}
    BY <1>3, <1>7 DEF StatusOf
  <2>2. [x \in Rows |-> StatusOf(row'[x])] = [[x \in Rows |-> StatusOf(row[x])] EXCEPT ![r] = "purged"]
    BY <1>5, <2>1
  <2>. QED
    BY <1>4, <2>1, <2>2 DEF Delivery!WriteOff
<1>8. CASE ~row'[r].purged /\ StatusOf(row'[r]) # StatusOf(row[r])
  <2>1. StatusOf(row'[r]) = "pending" /\ StatusOf(row[r]) = "dead"
    BY <1>3, <1>8, LimitsAssumption DEF StatusOf, InDlq
  <2>2. [x \in Rows |-> StatusOf(row'[x])] = [[x \in Rows |-> StatusOf(row[x])] EXCEPT ![r] = "pending"]
    BY <1>5, <2>1
  <2>. QED
    BY <1>4, <2>1, <2>2 DEF Delivery!Requeue
<1>. QED
  BY <1>6, <1>7, <1>8

\* The empty outbox is the empty delivery.
LEMMA InitMaps == Init => Delivery!AInit
<1> SUFFICES ASSUME Init PROVE Delivery!AInit
  OBVIOUS
<1>1. \A r \in Rows : StatusOf(row[r]) = "none"
  BY DEF Init, Absent, StatusOf
<1>2. \A r \in Rows : {d \in Dispatchers : heard[d][r] > 0} = {}
  BY DEF Init
<1>3. [r \in Rows |-> NeedsOf(row[r])] \in [Rows -> SUBSET Dispatchers]
  BY FreshRows
<1>. QED
  BY <1>1, <1>2, <1>3 DEF Delivery!AInit

\* Every step of the outbox is a step of the delivery or does not show in it.
LEMMA StepMaps ==
  IInv /\ PurgedIsDispatched /\ [Next]_vars => [Delivery!ANext]_(Delivery!avars)
<1> SUFFICES ASSUME IInv, PurgedIsDispatched, [Next]_vars
             PROVE  Delivery!ANext \/ UNCHANGED Delivery!avars
  OBVIOUS
<1>1. ASSUME NEW r \in Rows, NEW u \in BOOLEAN, Submit(r, u) PROVE Delivery!ANext
  BY <1>1, SubmitMaps DEF Delivery!ANext
<1>2. ASSUME NEW p \in Relays, NEW r \in Rows, NEW d \in Dispatchers,
             Ignore(p, r, d) \/ Perform(p, r, d) \/ Raise(p, r, d)
      PROVE  Delivery!ANext \/ UNCHANGED Delivery!avars
  <2>1. CASE heard' = heard /\ row' = row
    BY <2>1, AbstractStutter
  <2>2. CASE heard' = Hear(d, r) /\ (Perform(p, r, d) \/ Raise(p, r, d))
    BY <2>2, EffectMaps DEF Delivery!ANext
  <2>. QED
    BY <1>2, <2>1, <2>2 DEF Ignore, Perform, Raise
<1>3. ASSUME NEW p \in Relays, Commit(p) PROVE Delivery!ANext \/ UNCHANGED Delivery!avars
  BY <1>3, CommitMaps DEF Delivery!ANext
<1>4. ASSUME NEW a \in Admins, NEW r \in Rows, AdminWrite(a, r)
      PROVE  Delivery!ANext \/ UNCHANGED Delivery!avars
  BY <1>4, AdminMaps DEF Delivery!ANext
<1>5. CASE row' = row /\ heard' = heard
  BY <1>5, AbstractStutter
<1>. QED
  BY <1>1, <1>2, <1>3, <1>4, <1>5
     DEF Next, RelayStep, Claim, Handled, Rollback, AdminRead, vars

\* Batches, locks, replicas, retries and rollbacks are invisible: what callers and
\* operators see is at-least-once delivery or a dead letter (relay.py:162-243).
THEOREM RelayImplementsDelivery == Spec => ImplementsDelivery
  BY InitMaps, StepMaps, InvariantHolds, PurgedRowsAreDispatched, PTL
     DEF Spec, ImplementsDelivery, Delivery!ASpec

-----------------------------------------------------------------------------
(* The dead-letter depth monitor beside the outbox.                        *)

\* However many rows there could be, finitely many have been written, so the depth is
\* a number.
FiniteTable == IsFiniteSet({r \in Rows : row[r].there})

\* What the monitor was shown last it knows as its peak, or it is below the threshold.
PeakCoversLast ==
    /\ peak \in Nat /\ last \in Nat
    /\ last <= peak \/ last < Threshold

MInv == IInv /\ FiniteTable /\ PeakCoversLast

\* A step writes at most one row more.
LEMMA FiniteTableStep == IInv /\ FiniteTable /\ [Next]_vars => FiniteTable'
<1> SUFFICES ASSUME IInv, FiniteTable, [Next]_vars PROVE FiniteTable'
  OBVIOUS
<1> TypeOK
  BY DEF IInv
<1>1. \E S \in SUBSET Rows : /\ \E x : S \subseteq {x}
                            /\ \A r \in Rows : row'[r].there => row[r].there \/ r \in S
  <2>1. ASSUME NEW x \in Rows, NEW kind, NEW u, row' = [row EXCEPT ![x] = NewRow(kind, u)]
        PROVE  \E S \in SUBSET Rows :
                  /\ \E y : S \subseteq {y}
                  /\ \A r \in Rows : row'[r].there => row[r].there \/ r \in S
    <3>1. \A r \in Rows : row'[r].there => row[r].there \/ r \in {x}
      BY <2>1 DEF TypeOK
    <3>. QED
      BY <3>1
  <2>2. CASE \A r \in Rows : row'[r].there => row[r].there
    <3>1. {} \in SUBSET Rows /\ {} \subseteq {1}
      OBVIOUS
    <3>. QED
      BY <2>2, <3>1
  <2>3. ASSUME NEW r \in Rows, NEW u \in BOOLEAN, Submit(r, u)
        PROVE  \E x \in Rows : \E kind, v : row' = [row EXCEPT ![x] = NewRow(kind, v)]
    BY <2>3 DEF Submit
  <2>4. ASSUME NEW p \in Relays, NEW r \in Rows, NEW d \in Dispatchers,
               Ignore(p, r, d) \/ Perform(p, r, d) \/ Raise(p, r, d)
        PROVE  \/ row' = row
               \/ \E x \in Rows : \E kind, v : row' = [row EXCEPT ![x] = NewRow(kind, v)]
    BY <2>4, AppendIsFresh
  <2>5. ASSUME NEW p \in Relays, Commit(p) PROVE \A r \in Rows : row'[r].there => row[r].there
    BY <2>5 DEF Commit, TypeOK, RowType
  <2>6. ASSUME NEW a \in Admins, NEW x \in Rows, AdminWrite(a, x)
        PROVE  \A r \in Rows : row'[r].there => row[r].there
    BY <2>6 DEF AdminWrite, TypeOK, RowType
  <2>7. \/ row' = row
        \/ \A r \in Rows : row'[r].there => row[r].there
        \/ \E x \in Rows : \E kind, v : row' = [row EXCEPT ![x] = NewRow(kind, v)]
    BY <2>3, <2>4, <2>5, <2>6
       DEF Next, RelayStep, Claim, Handled, Rollback, AdminRead, vars
  <2>. QED
    BY <2>1, <2>2, <2>7
<1>2. PICK S \in SUBSET Rows :
        /\ \E x : S \subseteq {x}
        /\ \A r \in Rows : row'[r].there => row[r].there \/ r \in S
  BY <1>1
<1>3. PICK x : S \subseteq {x}
  BY <1>2
<1>4. IsFiniteSet({r \in Rows : row[r].there} \cup {x})
  BY FS_AddElement DEF FiniteTable
<1>5. {r \in Rows : row'[r].there} \subseteq {r \in Rows : row[r].there} \cup {x}
  BY <1>2, <1>3
<1>. QED
  BY <1>4, <1>5, FS_Subset DEF FiniteTable

\* The depth of the dead-letter queue is a natural number.
LEMMA DepthIsANumber ==
  ASSUME FiniteTable
  PROVE  Depth \in Nat
<1>1. {r \in Rows : InDlq(row[r])} \subseteq {r \in Rows : row[r].there}
  BY DEF InDlq
<1>2. IsFiniteSet({r \in Rows : InDlq(row[r])})
  BY <1>1, FS_Subset DEF FiniteTable
<1>. QED
  BY <1>2, FS_CardinalityType DEF Depth

\* The monitor and the outbox start empty.
LEMMA MInvInit == MInit => MInv
<1> SUFFICES ASSUME MInit PROVE MInv
  OBVIOUS
<1>1. {r \in Rows : row[r].there} = {}
  BY DEF MInit, Init, Absent
<1>2. FiniteTable
  BY <1>1, FS_EmptySet DEF FiniteTable
<1>. QED
  BY <1>2, InvInit DEF MInit, MInv, PeakCoversLast

\* A scan leaves the depth covered by the peak or below the threshold; a restart
\* forgets both, and the outbox touches neither.
LEMMA MInvStep == MInv /\ [MNext]_mvars => MInv'
<1> SUFFICES ASSUME MInv, [MNext]_mvars PROVE MInv'
  OBVIOUS
<1>1. IInv' /\ FiniteTable'
  <2>1. [Next]_vars
    BY DEF MNext, Scan, Restart, Background, mvars, vars
  <2>. QED
    BY <2>1, InvStep, FiniteTableStep DEF MInv
<1>2. PeakCoversLast'
  <2>1. CASE Scan
    BY <2>1, DepthIsANumber, ThresholdAssumption DEF Scan, Exceeds, MInv, PeakCoversLast
  <2>2. CASE Restart
    BY <2>2 DEF Restart, PeakCoversLast
  <2>3. CASE UNCHANGED <<peak, last>>
    BY <2>3 DEF MInv, PeakCoversLast
  <2>. QED
    BY <2>1, <2>2, <2>3 DEF MNext, Background, mvars
<1>. QED
  BY <1>1, <1>2 DEF MInv

\* Beside the monitor the outbox keeps its invariant, and the peak covers what was seen.
THEOREM MonitorInvariant == MSpec => []MInv
  BY MInvInit, MInvStep, PTL DEF MSpec

\* No operator is paged again for a queue that has not grown since the scan before
\* (dlq_monitor.py:98-110).
THEOREM WarningsMeanGrowth == MSpec => WarningMeansGrowth
<1>1. MInv /\ [MNext]_mvars => [tick' # tick /\ warned' => Depth > last]_mvars
  <2> SUFFICES ASSUME MInv, MNext, tick' # tick, warned' PROVE Depth > last
    OBVIOUS
  <2>1. Scan
    BY DEF MNext, Restart, Background
  <2>2. Exceeds
    BY <2>1 DEF Scan
  <2>. QED
    BY <2>2, DepthIsANumber, ThresholdAssumption DEF Exceeds, MInv, PeakCoversLast
<1>. QED
  BY <1>1, MonitorInvariant, PTL DEF MSpec, WarningMeansGrowth
=============================================================================
