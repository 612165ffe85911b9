--------------------------- MODULE EventDelivery ---------------------------
(***************************************************************************)
(* What the outbox promises about each event, without batches, replicas,   *)
(* locks or retries: at-least-once delivery to every dispatcher the event  *)
(* concerns, or a dead letter that waits for an operator.                  *)
(***************************************************************************)
EXTENDS Naturals

CONSTANTS Events, Channels

VARIABLES
    status,   \* status[e]: where the event stands
    needs,    \* needs[e]: the channels that the event concerns
    reached   \* reached[e]: the channels that have had it at least once

avars == <<status, needs, reached>>

Statuses == {"none", "pending", "dead", "delivered", "purged"}

AInit ==
    /\ status = [e \in Events |-> "none"]
    /\ needs \in [Events -> SUBSET Channels]
    /\ reached = [e \in Events |-> {}]

With(f, S, v) == [e \in Events |-> IF e \in S THEN v ELSE f[e]]

\* The event is recorded, and from then on concerns a fixed set of channels.
Records(e) ==
    /\ status[e] = "none"
    /\ \E C \in SUBSET Channels : needs' = [needs EXCEPT ![e] = C]

Record(e) == Records(e) /\ status' = [status EXCEPT ![e] = "pending"] /\ UNCHANGED reached

\* A channel has the event; handling it may record one more event.
Reach(e, c) ==
    /\ status[e] = "pending" /\ c \in needs[e]
    /\ reached' = [reached EXCEPT ![e] = @ \cup {c}]
    /\ \/ UNCHANGED <<status, needs>>
       \/ \E f \in Events : Records(f) /\ status' = [status EXCEPT ![f] = "pending"]

\* A batch ends: some of its events are delivered, some are given up.
Conclude(done, dead) ==
    /\ done \cup dead # {} /\ done \cap dead = {}
    /\ \A e \in done \cup dead : status[e] = "pending"
    /\ \A e \in done : needs[e] \subseteq reached[e]
    /\ status' = With(With(status, done, "delivered"), dead, "dead")
    /\ UNCHANGED <<needs, reached>>

\* Operators: a dead letter is tried again, an event is written off. The
\* write-off may come late, when the event is no longer a dead letter.
Requeue(e) ==
    /\ status[e] = "dead"
    /\ status' = [status EXCEPT ![e] = "pending"]
    /\ UNCHANGED <<needs, reached>>

WriteOff(e) ==
    /\ status[e] \notin {"none", "purged"}
    /\ status' = [status EXCEPT ![e] = "purged"]
    /\ UNCHANGED <<needs, reached>>

ANext ==
    \/ \E e \in Events :
          \/ Record(e) \/ Requeue(e) \/ WriteOff(e)
          \/ \E c \in Channels : Reach(e, c)
    \/ \E done, dead \in SUBSET Events : Conclude(done, dead)

ASpec == AInit /\ [][ANext]_avars
=============================================================================
