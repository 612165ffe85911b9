--------------------------------- MODULE Ops ---------------------------------
(***************************************************************************)
(* Running the voice agent: the district rollout (scripts/staged_rollout   *)
(* and telephony/rollout_guard), the surge switch and the on-call helper   *)
(* of scripts/, the probes (api/routes_health), what a boot puts together  *)
(* (main), the doors a call comes in through (api/routes_voice, without    *)
(* the text offer) and the dial page.  `reached' says whether a remote     *)
(* service answered, an exit code is 0 or 1, and times are seconds.        *)
(***************************************************************************)
EXTENDS Integers, Sequences, FiniteSets
LOCAL INSTANCE FiniteSetsExt
LOCAL INSTANCE SequencesExt

-----------------------------------------------------------------------------
(* Rollout: `param' is the set of districts in the parameter store, {} when *)
(* it is absent or empty; a command is [cmd, districts, apply, reached].    *)

GetCurrent(param) == param

SetDistricts(param, new, apply) == IF apply THEN new ELSE param

CmdEnable(param, c) == SetDistricts(param, GetCurrent(param) \cup c.districts, c.apply)
CmdDisable(param, c) == SetDistricts(param, GetCurrent(param) \ c.districts, c.apply)
CmdFull(param, c, all) == SetDistricts(param, all, c.apply)
CmdReset(param, c) == IF c.apply THEN {} ELSE param

Rollout(param, c, all) ==
    IF ~c.reached THEN param
    ELSE CASE c.cmd = "enable" -> CmdEnable(param, c)
           [] c.cmd = "disable" -> CmdDisable(param, c)
           [] c.cmd = "full" -> CmdFull(param, c, all)
           [] c.cmd = "reset" -> CmdReset(param, c)

\* What cmd_list prints; on a store that fails, its exit code alone.
CmdList(param, reached, all) ==
    IF ~reached THEN [exit |-> 1]
    ELSE [exit |-> 0, enabled |-> Cardinality(GetCurrent(param)), of |-> Cardinality(all), open |-> param = {}]

\* No list (<<>>) lets every call in; an empty one and one that cannot be read are no list.
NoList == <<>>
FetchEnabledDistricts(param, reached) == IF ~reached \/ param = {} THEN NoList ELSE <<param>>

CacheTtl == 60
EmptyCache == [at |-> 0, list |-> NoList]

\* Mutant: a store that cannot be read leaves the list as it was read last.
GetEnabledDistricts_KeepsStale(cache, now, param, reached) ==
    IF now - cache.at < CacheTtl \/ ~reached THEN cache
    ELSE [at |-> now, list |-> FetchEnabledDistricts(param, reached)]

GetEnabledDistricts(cache, now, param, reached) ==
    IF now - cache.at < CacheTtl THEN cache
    ELSE [at |-> now, list |-> FetchEnabledDistricts(param, reached)]

UnknownDistrict == "unknown"
IsCallAllowed(list, district) ==
    list = NoList \/ district = UnknownDistrict \/ district \in list[1]

-----------------------------------------------------------------------------
(* Surge: `aws' is [tasks, flag, metrics]; the calls are made in order and *)
(* the first that fails is the last.                                       *)

NormalMinTasks == 2
Toggle(aws, mode, surgeTasks, apply, came) ==
    IF ~apply THEN aws
    ELSE [tasks |-> IF came >= 1 THEN (IF mode = "on" THEN surgeTasks ELSE NormalMinTasks) ELSE aws.tasks,
          flag |-> IF came >= 2 THEN mode = "on" ELSE aws.flag,
          metrics |-> IF came >= 3 THEN Append(aws.metrics, mode) ELSE aws.metrics]

-----------------------------------------------------------------------------
(* Probes.  A check that overruns its budget is cancelled and has failed.  *)

Healthz == "ok"

CheckDatabase(db) == IF db = "up" THEN "ok" ELSE "fail"
CheckRedis(redis) ==
    IF redis \in {"unset", "not installed"} THEN "skipped" ELSE IF redis = "up" THEN "ok" ELSE "fail"
CheckDepth(db, depth, threshold) ==
    IF db # "up" THEN "fail" ELSE IF depth > threshold THEN "degraded" ELSE "ok"
CheckRelayTask(task) ==
    IF task = "none" THEN "skipped" ELSE IF task = "done" THEN "fail" ELSE "ok"

BoundedCheck(verdict, slow) == IF slow THEN "fail" ELSE verdict

StatusRank == [ok |-> 0, skipped |-> 0, degraded |-> 1, fail |-> 2]

WorstStatus(statuses) ==
    LET worst == CHOOSE s \in statuses : \A o \in statuses : StatusRank[o] <= StatusRank[s]
    IN  IF worst = "skipped" THEN "ok" ELSE worst

\* `d' is [db, redis, task, outbox, dlq, slow], `slow' the checks that overrun.
Readyz(d, maxOutbox, maxDlq) ==
    LET checks == [database |-> CheckDatabase(d.db), redis |-> CheckRedis(d.redis),
                   outbox_depth |-> CheckDepth(d.db, d.outbox, maxOutbox),
                   dlq_depth |-> CheckDepth(d.db, d.dlq, maxDlq), relay_task |-> CheckRelayTask(d.task)]
        overall == WorstStatus({BoundedCheck(checks[c], c \in d.slow) : c \in DOMAIN checks})
    IN  [code |-> IF overall = "ok" THEN 200 ELSE 503, status |-> overall]

-----------------------------------------------------------------------------
(* On call.  The helper reads every answer but a 2xx as an error.          *)

Got(answer) == IF answer.code = 200 THEN answer.status ELSE "error"

CmdHealth(healthz, readyz) == IF Got(healthz) = "ok" /\ Got(readyz) \in {"ok", "degraded"} THEN 0 ELSE 1

\* The listing calls its rows "entries"; "items" and "total" are what is looked for, so
\* the queue is always found empty.
CmdDlq(reached) == IF reached THEN 0 ELSE 1

\* Of the 200 newest reports of the window, those with a hazard and a severity, and an
\* exit code that does not tell a poor rate.
CmdCallStats(reached, rowsNewestFirst) ==
    LET seen == SubSeq(rowsNewestFirst, 1, Min({200, Len(rowsNewestFirst)}))
        full == SelectSeq(seen, LAMBDA r : r.hazard # "" /\ r.severity # "")
    IN  IF ~reached THEN [exit |-> 1]
        ELSE [exit |-> 0, total |-> Len(seen), completed |-> Len(full),
              below |-> seen # <<>> /\ 4 * Len(full) < 3 * Len(seen)]

\* The synthetic report is posted to a route the agent does not have.
CmdAlertTest(apply) == IF apply THEN 1 ELSE 0

CmdSurge(aws, mode, surgeTasks, apply, came) ==
    <<Toggle(aws, mode, surgeTasks, apply, came), IF apply /\ came < 3 THEN 1 ELSE 0>>

\* The listing has no received_at_utc, so that no lag is ever measured.
CmdCsvLag(reached) == 0

\* A page of one row without a total: never more than one.
CmdQaQueue(reached, waiting) ==
    IF ~reached THEN [exit |-> 1] ELSE [exit |-> 0, total |-> Min({1, waiting}), backlog |-> Min({1, waiting}) > 20]

-----------------------------------------------------------------------------
(* Boot and shutdown: `s' are the settings, the lists keep their order.    *)

BuildExtractor(s) == IF s.extractor = "claude" /\ s.anthropicKey THEN "claude" ELSE "noop"

\* Without its file the geocoder stops the boot; without that of the mandals it does not.
BuildGeocoder(s) ==
    CASE s.geocoder # "json_gazetteer" -> "noop"
      [] s.geocoder = "json_gazetteer" /\ ~s.districtsFile -> "refused"
      [] OTHER -> IF s.mandalsFile THEN "districts and mandals" ELSE "districts"

BuildDedupe(s) == IF s.dedupe = "text_window" THEN "text_window" ELSE "noop"

AlertBackends(s) == <<"log">> \o (IF s.webhookUrl THEN <<"webhook">> ELSE <<>>)

\* The members of the chain; the enrichment comes last.
Dispatchers(s) ==
    <<"pubsub">> \o (IF s.csv THEN <<"csv">> ELSE <<>>)
                 \o (IF s.alerts THEN <<"alert">> ELSE <<>>)
                 \o (IF s.enrichment THEN <<"enrichment">> ELSE <<>>)

SmsOfferIsWired(s) == s.smsOffer /\ s.smsBaseUrl /\ s.twilio

\* The tasks of a process that has started, or {"refused"}.
Lifespan(s) ==
    IF s.relay /\ s.enrichment /\ BuildGeocoder(s) = "refused" THEN {"refused"}
    ELSE (IF s.relay THEN {"relay"} \cup (IF s.dlqMonitor THEN {"dlq_monitor"} ELSE {}) ELSE {})
         \cup (IF SmsOfferIsWired(s) THEN {"sms_offer"} ELSE {})

-----------------------------------------------------------------------------
(* Doors: `sessions' is a function of the calls that have one, while it has *)
(* not expired.                                                             *)

LOCAL Put(sessions, call, row) == [c \in DOMAIN sessions \cup {call} |-> IF c = call THEN row ELSE sessions[c]]

\* A row the call has already is replaced, its outcome with it.
Create(sessions, call, report) == Put(sessions, call, [report |-> report, outcome |-> "", duration |-> 0])

\* The status may come before the call: then the row holds the outcome alone.
Finalize(sessions, call, outcome, duration) ==
    LET old == IF call \in DOMAIN sessions THEN sessions[call].report ELSE "" IN
    Put(sessions, call, [report |-> old, outcome |-> outcome, duration |-> duration])

\* Every request mints a report of its own, one that is sent again too.
Inbound(sessions, call, fresh, signed, draining, runnerMode) ==
    CASE ~signed -> <<"forbidden", sessions>>
      [] signed /\ draining -> <<"fallback", sessions>>
      [] OTHER -> <<IF runnerMode THEN "gather" ELSE "stream", Create(sessions, call, fresh)>>

StatusCallback(sessions, call, signed, callStatus, duration) ==
    IF signed /\ callStatus = "completed" THEN Finalize(sessions, call, "completed", duration) ELSE sessions

Fallback(signed) == "fallback"

\* The dial page: the status of the answer and the address the call is sent to.
InitiateCall(credentials, number, runnerMode, reached) ==
    CASE ~credentials \/ ~number -> <<503, "">>
      [] credentials /\ number /\ ~reached -> <<500, "">>
      [] OTHER -> <<200, IF runnerMode THEN "gather" ELSE "inbound">>

\* What the media socket sends in answer to some messages [kind, sid, frame]: the greeting,
\* then what it hears; a message it does not know is passed over.
MediaWs(messages) ==
    LET hear(s, m) ==
            CASE s.over -> s
              [] ~s.over /\ m.kind = "start" -> [s EXCEPT !.sid = m.sid, !.sent = @ \o <<"greeting", "greeting_end">>]
              [] ~s.over /\ m.kind = "media" /\ s.sid # "" -> [s EXCEPT !.sent = Append(@, m.frame)]
              [] ~s.over /\ m.kind \in {"stop", "disconnect"} -> [s EXCEPT !.over = TRUE]
              [] OTHER -> s
        end == FoldLeft(hear, [sid |-> "", sent |-> <<>>, over |-> FALSE], messages)
    IN  IF end.over /\ end.sid # "" THEN Append(end.sent, "clear") ELSE end.sent

-----------------------------------------------------------------------------
(* What the rollout owes a caller.  A history is a sequence of commands    *)
(* and calls [district, reached], each with its time `at', in order.       *)

LOCAL AfterEvent(s, e, all) ==
    IF "cmd" \in DOMAIN e
    THEN [s EXCEPT !.param = Rollout(@, e, all), !.past = Append(@, [at |-> e.at, param |-> Rollout(s.param, e, all)])]
    ELSE LET cache == GetEnabledDistricts(s.cache, e.at, s.param, e.reached) IN
         [s EXCEPT !.cache = cache,
                   !.blocked = @ \cup (IF IsCallAllowed(cache.list, e.district) THEN {} ELSE {e})]

\* The parameter at a time: the last one set by then.
LOCAL ParamAt(past, t) == Last(SelectSeq(past, LAMBDA p : p.at <= t)).param

\* A call is turned away only if, at some time of the last minute, a list of districts
\* without the caller's was in force.
BlockedOnlyIfListed(history, all) ==
    LET end == FoldLeft(LAMBDA s, e : AfterEvent(s, e, all),
                        [param |-> {}, cache |-> EmptyCache, past |-> <<[at |-> 0, param |-> {}]>>, blocked |-> {}],
                        history)
    IN  \A call \in end.blocked :
            \E p \in {ParamAt(end.past, call.at - CacheTtl)} \cup
                     {end.past[i].param : i \in {j \in DOMAIN end.past :
                                                 call.at - CacheTtl <= end.past[j].at /\ end.past[j].at <= call.at}} :
                p # {} /\ call.district \notin p
=============================================================================
