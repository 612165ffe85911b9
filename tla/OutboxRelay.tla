---------------------------- MODULE OutboxRelay ----------------------------
(***************************************************************************)
(* The transactional outbox of the voice agent and the relay replicas that *)
(* drain it (persistence/relay.py), with the chain of dispatchers a relay  *)
(* calls for each row (persistence/dispatchers.py and the dispatchers that *)
(* main.py composes) and the operators' dead-letter API                    *)
(* (api/routes_dlq.py).                                                    *)
(*                                                                         *)
(* Kept: the claim with FOR UPDATE SKIP LOCKED, one transaction for a      *)
(* whole batch, every dispatcher call as a step of its own, the outcomes   *)
(* of a call (done, failed before its effect, failed after its effect),    *)
(* the marks that become durable only at commit, a replica that dies or is *)
(* cancelled between any two steps, and the read-then-write of the admin   *)
(* endpoints, whose SELECT takes no lock while their UPDATE waits for one. *)
(*                                                                         *)
(* Left out: payload contents, error texts and the statistics counters.    *)
(***************************************************************************)
EXTENDS Naturals, FiniteSets, Sequences

CONSTANTS
    Rows,        \* identities of outbox rows, numbered in created_at order
    Relays,      \* relay replicas
    Admins,      \* dead-letter requests that can be in flight at once
    Chain,       \* the dispatchers, in the order main.py composes them
    MaxRetries,  \* the retry cap of the relay (5 in the code)
    BatchSize,   \* rows claimed in one transaction (32 in the code)
    MaxCrashes,  \* bound: transactions that die before they commit
    MaxRequests  \* bound: dead-letter requests ever made

Dispatchers == {"pubsub", "csv", "alert", "enrich"}

ASSUME RowsAssumption == Rows \subseteq Nat \ {0}
ASSUME ChainAssumption ==
    /\ Chain \in Seq(Dispatchers)
    /\ \A i, j \in 1 .. Len(Chain) : Chain[i] = Chain[j] => i = j
ASSUME LimitsAssumption == MaxRetries \in Nat \ {0} /\ BatchSize \in Nat \ {0}
ASSUME BoundsAssumption == MaxCrashes \in Nat /\ MaxRequests \in Nat

VARIABLES
    row,      \* row[r]: the outbox table
    relay,    \* relay[p]: the drain_once transaction replica p is running
    admin,    \* admin[a]: a dead-letter request between its SELECT and UPDATE
    heard,    \* heard[d][r]: how often the effect of dispatcher d on r happened
    spoiled,  \* spoiled[r]: passes of the chain over r that failed or were
              \* rolled back with their transaction (history)
    crashes, requests  \* bound counters

vars == <<row, relay, admin, heard, spoiled, crashes, requests>>

-----------------------------------------------------------------------------
(* The outbox table. *)

Absent == [there |-> FALSE, kind |-> "submitted", urgent |-> FALSE,
           dispatched |-> FALSE, retries |-> 0, purged |-> FALSE]

RowType == [there : BOOLEAN, kind : {"submitted", "enriched"}, urgent : BOOLEAN,
            dispatched : BOOLEAN, retries : Nat, purged : BOOLEAN]

NewRow(kind, urgent) ==
    [there |-> TRUE, kind |-> kind, urgent |-> urgent,
     dispatched |-> FALSE, retries |-> 0, purged |-> FALSE]

\* Mutant: the claim stops one retry before the cap.
Claimable_OneShort(x) == x.there /\ ~x.dispatched /\ x.retries + 1 < MaxRetries

\* The claim query's WHERE clause.
Claimable(x) == x.there /\ ~x.dispatched /\ x.retries < MaxRetries

\* What the admin API calls the dead-letter queue.
InDlq(x) == x.there /\ ~x.dispatched /\ x.retries >= MaxRetries

\* Which dispatchers do anything at all with a row.
Applies(d, x) ==
    \/ d = "pubsub"
    \/ d \in {"csv", "enrich"} /\ x.kind = "submitted"
    \/ d = "alert" /\ x.urgent

\* Publishing to the in-process broker never raises; the others may.
MayFail(d) == d # "pubsub"

-----------------------------------------------------------------------------
(* One relay transaction. todo: what is left of the claimed batch; at: the  *)
(* next position of the chain for the oldest row of todo; erred: whether a  *)
(* dispatcher already raised for it; ok, bad: rows with uncommitted marks.  *)

Opened(B) == [todo |-> B, at |-> 1, erred |-> FALSE, ok |-> {}, bad |-> {}]

NoTx == Opened({})

TxType == [todo : SUBSET Rows, at : 1 .. Len(Chain) + 1, erred : BOOLEAN,
           ok : SUBSET Rows, bad : SUBSET Rows]

\* Mutant: the chain swallows errors.
Advanced_Swallowing(tx, raised) == [tx EXCEPT !.at = tx.at + 1]

\* One dispatcher further in the chain; ChainDispatcher keeps the first error.
Advanced(tx, raised) ==
    [tx EXCEPT !.at = tx.at + 1, !.erred = IF raised THEN TRUE ELSE tx.erred]

\* Mutant: a handled row is never marked.
Marked_Forgotten(tx, r) ==
    [tx EXCEPT !.todo = tx.todo \ {r}, !.at = 1, !.erred = FALSE]

\* The row being handled leaves todo with its mark.
Marked(tx, r) ==
    [todo |-> tx.todo \ {r}, at |-> 1, erred |-> FALSE,
     ok |-> IF tx.erred THEN tx.ok ELSE tx.ok \cup {r},
     bad |-> IF tx.erred THEN tx.bad \cup {r} ELSE tx.bad]

Batch(p) == relay[p].todo \cup relay[p].ok \cup relay[p].bad

\* Mutant: the plain select, which locks nothing.
Locked_PlainSelect(r) == FALSE

\* Row locks are held from the claim until commit or rollback.
Locked(r) == \E p \in Relays : r \in Batch(p)

\* r is the row that replica p is handling: batches go in created_at order.
IsNext(p, r) == r \in relay[p].todo /\ \A s \in relay[p].todo : r <= s

\* The BatchSize oldest rows of S, or all of them.
Oldest(S) ==
    {B \in SUBSET S :
        /\ \/ B = S /\ Cardinality(S) <= BatchSize
           \/ Cardinality(B) = BatchSize
        /\ \A b \in B, s \in S \ B : b < s}

NoRequest == [op |-> "none", on |-> 0]

RequestType == [op : {"none", "retry", "purge"}, on : Rows \cup {0}]

-----------------------------------------------------------------------------

Init ==
    /\ row = [r \in Rows |-> Absent]
    /\ relay = [p \in Relays |-> NoTx]
    /\ admin = [a \in Admins |-> NoRequest]
    /\ heard = [d \in Dispatchers |-> [r \in Rows |-> 0]]
    /\ spoiled = [r \in Rows |-> 0]
    /\ crashes = 0
    /\ requests = 0

\* A call writes its report and the report.submitted row in one transaction;
\* rows may become visible in another order than that of created_at.
Submit(r, urgent) ==
    /\ ~row[r].there
    /\ row' = [row EXCEPT ![r] = NewRow("submitted", urgent)]
    /\ UNCHANGED <<relay, admin, heard, spoiled, crashes, requests>>

\* drain_once opens its transaction on the oldest claimable rows that no
\* other replica holds. An empty claim returns at once: a stuttering step.
Claim(p) ==
    /\ Batch(p) = {}
    /\ \E B \in Oldest({r \in Rows : Claimable(row[r]) /\ ~Locked(r)}) :
          /\ B # {}
          /\ relay' = [relay EXCEPT ![p] = Opened(B)]
    /\ UNCHANGED <<row, admin, heard, spoiled, crashes, requests>>

\* Replica p is about to call dispatcher d for row r.
AtCall(p, r, d) ==
    /\ IsNext(p, r)
    /\ relay[p].at \in 1 .. Len(Chain)
    /\ d = Chain[relay[p].at]

\* The dispatcher ignores events of this row's kind.
Ignore(p, r, d) ==
    /\ AtCall(p, r, d)
    /\ ~Applies(d, row[r])
    /\ relay' = [relay EXCEPT ![p] = Advanced(relay[p], FALSE)]
    /\ UNCHANGED <<row, admin, heard, spoiled, crashes, requests>>

\* What the effect of d adds to the table: a successful enrichment commits a
\* report.enriched row in a transaction of its own, unless the bound on Rows
\* leaves no room for one.
Appended(d) ==
    IF d = "enrich" /\ \E s \in Rows : ~row[s].there
    THEN {[row EXCEPT ![s] = NewRow("enriched", urgent)] :
             s \in {s \in Rows : ~row[s].there}, urgent \in BOOLEAN}
    ELSE {row}

\* The effect of d on r happens once more.
Hear(d, r) == [heard EXCEPT ![d][r] = @ + 1]

\* The dispatcher does its work and returns.
Perform(p, r, d) ==
    /\ AtCall(p, r, d)
    /\ Applies(d, row[r])
    /\ heard' = Hear(d, r)
    /\ row' \in Appended(d)
    /\ relay' = [relay EXCEPT ![p] = Advanced(relay[p], FALSE)]
    /\ UNCHANGED <<admin, spoiled, crashes, requests>>

\* The dispatcher raises, before its effect or after it (a CSV line written
\* and not synced, a webhook that answered too late, a commit whose reply was
\* lost). The chain remembers the error and goes on with the next dispatcher.
Raise(p, r, d) ==
    /\ AtCall(p, r, d)
    /\ Applies(d, row[r]) /\ MayFail(d)
    /\ \/ UNCHANGED <<heard, row>>
       \/ heard' = Hear(d, r) /\ row' \in Appended(d)
    /\ relay' = [relay EXCEPT ![p] = Advanced(relay[p], TRUE)]
    /\ UNCHANGED <<admin, spoiled, crashes, requests>>

\* The chain returns or raises, and _handle_one marks the row.
Handled(p, r) ==
    /\ IsNext(p, r)
    /\ relay[p].at = Len(Chain) + 1
    /\ relay' = [relay EXCEPT ![p] = Marked(relay[p], r)]
    /\ spoiled' = IF relay[p].erred THEN [spoiled EXCEPT ![r] = @ + 1] ELSE spoiled
    /\ UNCHANGED <<row, admin, heard, crashes, requests>>

\* session.begin() exits: every mark of the batch becomes durable at once.
Commit(p) ==
    /\ Batch(p) # {} /\ relay[p].todo = {}
    /\ row' = [r \in Rows |->
                  [row[r] EXCEPT !.dispatched = @ \/ r \in relay[p].ok,
                                 !.retries = IF r \in relay[p].bad THEN @ + 1 ELSE @]]
    /\ relay' = [relay EXCEPT ![p] = NoTx]
    /\ UNCHANGED <<admin, heard, spoiled, crashes, requests>>

\* The process dies, the task is cancelled at shutdown, or the commit fails:
\* the marks are gone and the locks are free, the effects stay.
Rollback(p) ==
    /\ Batch(p) # {} /\ crashes < MaxCrashes
    /\ relay' = [relay EXCEPT ![p] = NoTx]
    /\ spoiled' = [r \in Rows |->
                      IF r \in relay[p].ok \/ (IsNext(p, r) /\ relay[p].at > 1)
                      THEN spoiled[r] + 1 ELSE spoiled[r]]
    /\ crashes' = crashes + 1
    /\ UNCHANGED <<row, admin, heard, requests>>

\* POST /dlq/{id}/retry and /purge read the row first; 404 changes nothing.
AdminRead(a, op, r) ==
    /\ admin[a] = NoRequest /\ requests < MaxRequests
    /\ InDlq(row[r])
    /\ admin' = [admin EXCEPT ![a] = [op |-> op, on |-> r]]
    /\ requests' = requests + 1
    /\ UNCHANGED <<row, relay, heard, spoiled, crashes>>

\* Mutant: a retry also clears dispatched_at.
AdminWrite_Reopening(a, r) ==
    /\ admin[a].on = r /\ ~Locked(r)
    /\ row' = [row EXCEPT ![r] =
                  IF admin[a].op = "retry" THEN [@ EXCEPT !.retries = 0, !.dispatched = FALSE]
                  ELSE [@ EXCEPT !.dispatched = TRUE, !.purged = TRUE]]
    /\ admin' = [admin EXCEPT ![a] = NoRequest]
    /\ UNCHANGED <<relay, heard, spoiled, crashes, requests>>

\* The UPDATE by primary key waits for the row lock, then writes whatever the
\* row has become since the SELECT.
AdminWrite(a, r) ==
    /\ admin[a].on = r /\ ~Locked(r)
    /\ row' = [row EXCEPT ![r] =
                  IF admin[a].op = "retry" THEN [@ EXCEPT !.retries = 0]
                  ELSE [@ EXCEPT !.dispatched = TRUE, !.purged = TRUE]]
    /\ admin' = [admin EXCEPT ![a] = NoRequest]
    /\ UNCHANGED <<relay, heard, spoiled, crashes, requests>>

-----------------------------------------------------------------------------

\* One step of the loop of replica p.
RelayStep(p) ==
    \/ Claim(p)
    \/ \E r \in Rows, d \in Dispatchers :
          Ignore(p, r, d) \/ Perform(p, r, d) \/ Raise(p, r, d)
    \/ \E r \in Rows : Handled(p, r)
    \/ Commit(p)

Next ==
    \/ \E r \in Rows, urgent \in BOOLEAN : Submit(r, urgent)
    \/ \E p \in Relays : RelayStep(p) \/ Rollback(p)
    \/ \E a \in Admins, r \in Rows :
          \/ \E op \in {"retry", "purge"} : AdminRead(a, op, r)
          \/ AdminWrite(a, r)

Spec == Init /\ [][Next]_vars

\* run() polls again after every outcome, errors included, so a replica that
\* can step does; operators, callers and crashes owe nothing.
FairSpec == Spec /\ \A p \in Relays : WF_vars(RelayStep(p))

-----------------------------------------------------------------------------
(* Properties. *)

TypeOK ==
    /\ row \in [Rows -> RowType]
    /\ relay \in [Relays -> TxType]
    /\ admin \in [Admins -> RequestType]
    /\ heard \in [Dispatchers -> [Rows -> Nat]]
    /\ spoiled \in [Rows -> Nat]
    /\ crashes \in Nat /\ requests \in Nat

\* SKIP LOCKED keeps replicas apart: no row is in two transactions at once.
NoSharedRow == \A p, q \in Relays : p # q => Batch(p) \cap Batch(q) = {}

\* While a replica works on a row nothing else moves it: the row is still
\* undelivered and below the cap, whatever operators do meanwhile.
HeldRowsStayClaimable == \A p \in Relays : \A r \in Batch(p) : Claimable(row[r])

\* A poison row is not retried for ever: failures never push it past the cap.
RetriesCapped == \A r \in Rows : row[r].retries <= MaxRetries

\* dispatched_at means delivered: unless an operator purged it, a dispatched
\* row has had the effect of every dispatcher of the chain that concerns it.
DispatchedWasHeard ==
    \A r \in Rows, i \in 1 .. Len(Chain) :
        row[r].dispatched /\ ~row[r].purged /\ Applies(Chain[i], row[r])
            => heard[Chain[i]][r] >= 1

\* Duplicates have a cause: a dispatcher sees a row again only after a pass
\* over that row failed or was rolled back, once for each such pass.
DuplicatesAreAccounted ==
    \A r \in Rows, d \in Dispatchers : heard[d][r] <= 1 + spoiled[r]

\* dispatched_at is final: no later retry, purge or commit reopens a row.
DispatchedIsFinal ==
    [][\A r \in Rows : row[r].dispatched => row'[r].dispatched]_vars

\* A dead-lettered row is left in place for a human: it leaves the queue only
\* by the write of a request that an operator made for it.
OnlyOperatorsReviveRows ==
    [][\A r \in Rows : InDlq(row[r]) /\ ~InDlq(row'[r])
          => \E a \in Admins : admin[a].on = r /\ admin'[a] = NoRequest]_vars

\* A row the relay is done with stays done: a delivered one for good, a dead one until an
\* operator writes it, however two operators race each other and the relay between their
\* select and their update (routes_dlq.py:215-279, relay.py:213-229).
SettledRowsStay == DispatchedIsFinal /\ OnlyOperatorsReviveRows

\* Every recorded row is delivered or dead-lettered in the end: no poison row,
\* batch limit, lock or crash starves another row.
EverySubmissionSettles ==
    \A r \in Rows : row[r].there ~> (row[r].dispatched \/ InDlq(row[r]))

\* The relay implements the abstract at-least-once delivery: batches, locks,
\* retries and rollbacks are invisible in it, and an event counts as delivered
\* only when every dispatcher it concerns has had it.
StatusOf(x) ==
    IF ~x.there THEN "none"
    ELSE IF x.purged THEN "purged"
    ELSE IF x.dispatched THEN "delivered"
    ELSE IF InDlq(x) THEN "dead" ELSE "pending"

NeedsOf(x) == {Chain[i] : i \in {j \in 1 .. Len(Chain) : Applies(Chain[j], x)}}

Delivery == INSTANCE EventDelivery WITH
    Events <- Rows,
    Channels <- Dispatchers,
    status <- [r \in Rows |-> StatusOf(row[r])],
    needs <- [r \in Rows |-> NeedsOf(row[r])],
    reached <- [r \in Rows |-> {d \in Dispatchers : heard[d][r] > 0}]

ImplementsDelivery == Delivery!ASpec

-----------------------------------------------------------------------------
(* The inductive invariant: why the safety properties hold. *)

\* The bookkeeping of a transaction: its three sets are disjoint, and the
\* chain stands at its start when no row is left to handle.
TxShape ==
    \A p \in Relays :
        /\ relay[p].todo \cap (relay[p].ok \cup relay[p].bad) = {}
        /\ relay[p].ok \cap relay[p].bad = {}
        /\ relay[p].todo = {} => relay[p].at = 1 /\ ~relay[p].erred

\* A request is for a row that exists, and a row that does not is blank.
RequestsNameRows ==
    /\ \A r \in Rows : row[r].dispatched => row[r].there
    /\ \A a \in Admins : admin[a].on \in Rows => row[admin[a].on].there

\* Replica p has had the i-th dispatcher of the chain return for row r.
Returned(p, r, i) ==
    \/ r \in relay[p].ok
    \/ IsNext(p, r) /\ i < relay[p].at /\ ~relay[p].erred

\* The effects behind the mark dispatched, and behind one yet to be committed.
MarksAreEarned ==
    \A r \in Rows, i \in 1 .. Len(Chain) :
        /\ Applies(Chain[i], row[r])
        /\ \/ row[r].dispatched /\ ~row[r].purged
           \/ \E p \in Relays : Returned(p, r, i)
        => heard[Chain[i]][r] >= 1

\* The one effect of d on r that no spoiled pass accounts for is spent.
Spent(d, r) ==
    \/ row[r].dispatched
    \/ \E p \in Relays :
          \/ r \in relay[p].ok
          \/ IsNext(p, r) /\ \E i \in 1 .. Len(Chain) : i < relay[p].at /\ Chain[i] = d

EffectsAreAccounted ==
    \A r \in Rows, d \in Dispatchers :
        heard[d][r] <= spoiled[r] + (IF Spent(d, r) THEN 1 ELSE 0)

\* Together with the claims on held rows, the cap and the types this is kept
\* by every step.
IInv ==
    /\ TypeOK
    /\ NoSharedRow
    /\ HeldRowsStayClaimable
    /\ RetriesCapped
    /\ TxShape
    /\ RequestsNameRows
    /\ MarksAreEarned
    /\ EffectsAreAccounted

=============================================================================
