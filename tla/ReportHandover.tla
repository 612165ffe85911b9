---------------------------- MODULE ReportHandover ----------------------------
(***************************************************************************)
(* What the phone and the backend promise together about each report,      *)
(* without senders, requests, answers, timeouts or photos: a report is     *)
(* filed once, after it was queued, and the phone lets go of it only after *)
(* that and for good.                                                      *)
(***************************************************************************)
CONSTANT Reports

VARIABLE status     \* status[r]: where the report stands

Statuses == {"none", "queued", "filed", "handed over"}

HInit == status = [r \in Reports |-> "none"]

Moves(r, from, to) == status[r] = from /\ status' = [status EXCEPT ![r] = to]

Queue(r) == Moves(r, "none", "queued")
File(r) == Moves(r, "queued", "filed")
HandOver(r) == Moves(r, "filed", "handed over")

HNext == \E r \in Reports : Queue(r) \/ File(r) \/ HandOver(r)

HSpec == HInit /\ [][HNext]_status
=============================================================================
