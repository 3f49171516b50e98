------------------------------ MODULE Incidents ------------------------------
(***************************************************************************)
(* The incident engine (linkmoth_engine.py, with the outage-segment        *)
(* helpers of linkmoth_core.py): how an incident is opened by a trigger,   *)
(* watched by a background recheck loop, observed by diagnoses, closed or  *)
(* marked a false alarm from the dashboard, pruned by the janitor, and     *)
(* taken over by the next process after a crash.                           *)
(*                                                                         *)
(* The threads are the recheck loops (one per incident they were started   *)
(* for) and the Requests: HTTP workers, the detached manual diagnosis and  *)
(* the baseline monitor, which all call the same Engine methods.  A step   *)
(* is one SQLite statement or transaction, one locked section, or one      *)
(* notification; the interleavings in between are the subject.             *)
(*                                                                         *)
(* Timestamps are reduced to what the code tells apart: resolved /         *)
(* recovered_at to NULL or not NULL, a segment to ended IS NULL or not.    *)
(***************************************************************************)
EXTENDS Naturals

CONSTANTS
    MaxIncidents,   \* bound: rows the incidents table holds at once
    Codes,          \* verdict codes other than all_clear
    Severity,       \* Severity[c]: "warn" or "bad"
    Requests,       \* worker threads that may run an Engine method
    NoOne,          \* no holder of a lock
    DbFaults,       \* TRUE: a guarded database or probe call may raise
    MayCrash        \* TRUE: the process may die and be restarted

ASSUME ConstantsAssumption ==
    /\ MaxIncidents \in Nat \ {0}
    /\ Severity \in [Codes -> {"warn", "bad"}]
    /\ "all_clear" \notin Codes /\ "none" \notin Codes
    /\ NoOne \notin Requests /\ "loop" \notin Requests /\ NoOne # "loop"
    /\ DbFaults \in BOOLEAN /\ MayCrash \in BOOLEAN

Ids      == 1 .. MaxIncidents
NoId     == 0
AllClear == "all_clear"
Verdicts == Codes \cup {AllClear}

IsOk(v)  == v = AllClear
Rank(v)  == IF v \notin Codes THEN 0 ELSE IF Severity[v] = "warn" THEN 1 ELSE 2

VARIABLES
    \* --- table incidents, one function per column ------------------------
    state,          \* "absent", "open" (resolved IS NULL) or "resolved"
    recovered,      \* recovered_at IS NOT NULL
    falseAlarm,     \* false_alarm
    verdict,        \* verdict_code
    diagnosis,      \* diagnosis_code
    \* --- tables incident_outage_segments and runs --------------------------
    openSegs,       \* segments of the incident with ended IS NULL
    newestRun,      \* severity of the incident's newest stored run
    evidence,       \* "segments": it has segment rows; "late": it has a fault
                    \* run but no segment row; "none": neither
    \* --- what the outside was told (webhook events, per incident) ----------
    lastTold,       \* the newest event emitted about the incident
    closedNotices,  \* number of fault_closed events emitted
    \* --- the Engine object -------------------------------------------------
    lock,           \* Engine.lock: the request inside trigger(), or NoOne
    ladder,         \* Engine.run_in_progress: who runs the fault ladder
    loopThread,     \* Engine.loop_thread: incident of the newest loop, or NoId
    \* --- locals of the recheck loop started for an incident -----------------
    lpc, okRuns, worst, notified, lastSent, seen,
    \* --- locals of a request -------------------------------------------------
    rpc, op, inc, found

incidentVars == <<state, recovered, falseAlarm, verdict, diagnosis>>
dbVars       == <<incidentVars, openSegs, newestRun, evidence>>
outVars      == <<lastTold, closedNotices>>
engineVars   == <<lock, ladder, loopThread>>
loopVars     == <<lpc, okRuns, worst, notified, lastSent, seen>>
reqVars      == <<rpc, op, inc, found>>
vars         == <<dbVars, outVars, engineVars, loopVars, reqVars>>

-----------------------------------------------------------------------------
(* Value sets.                                                             *)

State == {"absent", "open", "resolved"}
Code  == Verdicts \cup {"none"}

Event == {"fault_opened", "degradation_detected", "fault_updated",
          "fault_recovered", "false_alarm_marked", "fault_closed"}

LoopPc == {"dead", "start", "sleep", "check", "ladder", "probing", "record",
           "judge", "announce", "recovered", "closing", "closed"}

ReqPc == {"idle", "locked", "stored", "commit", "emit", "mark",
          "ladder", "probing", "record", "judge", "trigger"}

ReqOp == {"none", "trigger", "close", "falseAlarm",
          "recheck", "verify", "manual", "baseline"}

-----------------------------------------------------------------------------
(* Queries.                                                                *)

Present(i) == state[i] # "absent"
Open(i)    == state[i] = "open"

\* open_incident(): the open row with the highest id.
LatestOpen ==
    IF \E i \in Ids : Open(i)
    THEN CHOOSE i \in Ids : Open(i) /\ \A j \in Ids : Open(j) => j <= i
    ELSE NoId

\* INTEGER PRIMARY KEY without AUTOINCREMENT: one more than the largest id.
IsNewId(i) ==
    /\ \A j \in Ids : Present(j) => j < i
    /\ i # 1 => Present(i - 1)

Alive(i) == lpc[i] # "dead"
LoopThreadAlive == loopThread # NoId /\ Alive(loopThread)

-----------------------------------------------------------------------------
(* Control steps of requests and loops.                                    *)

Goto(r, l) == rpc' = [rpc EXCEPT ![r] = l]

\* A request enters an operation with the incident it looked up.
Enter(r, l, o, i) ==
    /\ rpc' = [rpc EXCEPT ![r] = l]
    /\ op' = [op EXCEPT ![r] = o]
    /\ inc' = [inc EXCEPT ![r] = i]
    /\ found' = [found EXCEPT ![r] = "none"]

Return(r) == Enter(r, "idle", "none", NoId)

LoopGoto(i, l) ==
    /\ lpc' = [lpc EXCEPT ![i] = l]
    /\ UNCHANGED <<okRuns, worst, notified, lastSent, seen>>

\* The locals of _loop as it is entered, and as the thread has ended.
LoopReset(i, l) ==
    /\ lpc' = [lpc EXCEPT ![i] = l]
    /\ okRuns' = [okRuns EXCEPT ![i] = 0]
    /\ worst' = [worst EXCEPT ![i] = "none"]
    /\ notified' = [notified EXCEPT ![i] = FALSE]
    /\ lastSent' = [lastSent EXCEPT ![i] = "none"]
    /\ seen' = [seen EXCEPT ![i] = "none"]

-----------------------------------------------------------------------------
(* Database transactions shared by several operations.                     *)

\* Mutant of RecordRun: stores the observation on a resolved incident too.
RecordRunLate(i, v) ==
    /\ newestRun' = [newestRun EXCEPT ![i] = IF IsOk(v) THEN "ok" ELSE "fault"]
    /\ recovered' = [recovered EXCEPT ![i] = IsOk(v)]
    /\ openSegs' = [openSegs EXCEPT ![i] = IF IsOk(v) THEN 0 ELSE 1]
    /\ evidence' = [evidence EXCEPT ![i] = IF IsOk(v) THEN @ ELSE "segments"]
    /\ UNCHANGED <<state, falseAlarm, verdict, diagnosis>>

\* The transaction of diagnose_once: INSERT INTO runs, then
\* _record_incident_observation, which leaves a resolved incident alone.
RecordRun(i, v) ==
    /\ newestRun' = [newestRun EXCEPT ![i] = IF IsOk(v) THEN "ok" ELSE "fault"]
    /\ IF Open(i)
       THEN /\ recovered' = [recovered EXCEPT ![i] = IF IsOk(v) THEN TRUE ELSE FALSE]
            /\ openSegs' = [openSegs EXCEPT ![i] =
                  IF IsOk(v) THEN 0 ELSE IF @ = 0 THEN 1 ELSE @]
       ELSE UNCHANGED <<recovered, openSegs>>
    /\ evidence' = [evidence EXCEPT ![i] =
          IF IsOk(v) THEN @ ELSE IF Open(i) THEN "segments"
          ELSE IF @ = "none" THEN "late" ELSE @]
    /\ UNCHANGED <<state, falseAlarm, verdict, diagnosis>>

\* _close_open_outage_segment
CloseSegments(i) == openSegs' = [openSegs EXCEPT ![i] = 0]

\* UPDATE incidents SET resolved=? WHERE id=? AND resolved IS NULL
SetResolved(i) == state' = [state EXCEPT ![i] = IF @ = "open" THEN "resolved" ELSE @]

-----------------------------------------------------------------------------
(* Engine.trigger, under Engine.lock.                                      *)

\* Bound: a trigger that needs a new row waits until the table has room.
Room == LatestOpen # NoId \/ ~Present(MaxIncidents)

\* Mutant of TriggerCheck: check-then-create without the lock.
TriggerCheckUnlocked(r) ==
    /\ rpc[r] \in {"idle", "trigger"}
    /\ Room
    /\ lock' = r
    /\ Enter(r, "locked", "trigger", LatestOpen)
    /\ UNCHANGED <<dbVars, outVars, ladder, loopThread, loopVars>>

\* Takes the lock and reads the open incident.
TriggerCheck(r) ==
    /\ rpc[r] \in {"idle", "trigger"}
    /\ Room
    /\ lock = NoOne
    /\ lock' = r
    /\ Enter(r, "locked", "trigger", LatestOpen)
    /\ UNCHANGED <<dbVars, outVars, ladder, loopThread, loopVars>>

\* Mutant of TriggerInsert: a new row whatever is open.
TriggerInsertAlways(r) ==
    /\ rpc[r] = "locked"
    /\ \E i \in Ids :
          /\ IsNewId(i)
          /\ state' = [state EXCEPT ![i] = "open"]
          /\ inc' = [inc EXCEPT ![r] = i]
    /\ Goto(r, "stored")
    /\ UNCHANGED <<recovered, falseAlarm, verdict, diagnosis, openSegs,
                   newestRun, evidence, outVars, engineVars, loopVars, op, found>>

\* INSERT ... WHERE NOT EXISTS (an open incident), and its ref.
TriggerInsert(r) ==
    /\ rpc[r] = "locked"
    /\ inc[r] = NoId
    /\ \A j \in Ids : ~Open(j)
    /\ \E i \in Ids :
          /\ IsNewId(i)
          /\ state' = [state EXCEPT ![i] = "open"]
          /\ inc' = [inc EXCEPT ![r] = i]
    /\ Goto(r, "stored")
    /\ UNCHANGED <<recovered, falseAlarm, verdict, diagnosis, openSegs,
                   newestRun, evidence, outVars, engineVars, loopVars, op, found>>

\* The open incident found gets the detail text appended; nothing else.
TriggerAttach(r) ==
    /\ rpc[r] = "locked"
    /\ inc[r] # NoId
    /\ Goto(r, "stored")
    /\ UNCHANGED <<dbVars, outVars, engineVars, loopVars, op, inc, found>>

\* Mutant of TriggerStart: a loop is started whether or not one is alive.
TriggerStartAlways(r) ==
    /\ rpc[r] = "stored"
    /\ loopThread' = inc[r]
    /\ LoopReset(inc[r], "start")
    /\ lock' = NoOne
    /\ Return(r)
    /\ UNCHANGED <<dbVars, outVars, ladder>>

\* A recheck loop is started unless one is alive, whatever its incident.
TriggerStart(r) ==
    /\ rpc[r] = "stored"
    /\ IF LoopThreadAlive
       THEN UNCHANGED <<loopThread, loopVars>>
       ELSE loopThread' = inc[r] /\ LoopReset(inc[r], "start")
    /\ lock' = NoOne
    /\ Return(r)
    /\ UNCHANGED <<dbVars, outVars, ladder>>

-----------------------------------------------------------------------------
(* close_open_incident and mark_false_alarm.                               *)

CloseBegin(r) ==
    /\ rpc[r] = "idle"
    /\ LatestOpen # NoId
    /\ Enter(r, "commit", "close", LatestOpen)
    /\ UNCHANGED <<dbVars, outVars, engineVars, loopVars>>

\* Mutant of CloseCommit: rowcount is not consulted before announcing.
CloseCommitAlwaysEmits(r) ==
    /\ rpc[r] = "commit"
    /\ op[r] = "close"
    /\ CloseSegments(inc[r])
    /\ SetResolved(inc[r])
    /\ Goto(r, "emit")
    /\ UNCHANGED <<recovered, falseAlarm, verdict, diagnosis, newestRun, evidence,
                   outVars, engineVars, loopVars, op, inc, found>>

CloseCommit(r) ==
    /\ rpc[r] = "commit"
    /\ op[r] = "close"
    /\ CloseSegments(inc[r])
    /\ SetResolved(inc[r])
    /\ IF Open(inc[r]) THEN Goto(r, "emit") /\ UNCHANGED <<op, inc, found>>
                       ELSE Return(r)
    /\ UNCHANGED <<recovered, falseAlarm, verdict, diagnosis, newestRun, evidence,
                   outVars, engineVars, loopVars>>

\* By reference, so any stored incident, resolved ones included: the row may be
\* pruned, and its id given to another incident, before the request writes.
FalseAlarmBegin(r) ==
    /\ rpc[r] = "idle"
    /\ \E i \in Ids : Present(i) /\ Enter(r, "commit", "falseAlarm", i)
    /\ UNCHANGED <<dbVars, outVars, engineVars, loopVars>>

FalseAlarmCommit(r) ==
    /\ rpc[r] = "commit"
    /\ op[r] = "falseAlarm"
    /\ falseAlarm' = [falseAlarm EXCEPT ![inc[r]] = IF Present(inc[r]) THEN TRUE ELSE @]
    /\ verdict' = [verdict EXCEPT ![inc[r]] = IF Present(inc[r]) THEN AllClear ELSE @]
    /\ CloseSegments(inc[r])
    /\ SetResolved(inc[r])
    /\ Goto(r, IF Open(inc[r]) THEN "emit" ELSE "mark")
    /\ UNCHANGED <<recovered, diagnosis, newestRun, evidence, outVars,
                   engineVars, loopVars, op, inc, found>>

\* The webhook events after the commit, which a crash in between loses:
\* false_alarm_marked, then fault_closed if this request resolved the incident.
EmitClosed(r) ==
    /\ rpc[r] = "emit"
    /\ lastTold' = [lastTold EXCEPT ![inc[r]] = "fault_closed"]
    /\ closedNotices' = [closedNotices EXCEPT ![inc[r]] = @ + 1]
    /\ Return(r)
    /\ UNCHANGED <<dbVars, engineVars, loopVars>>

EmitMarked(r) ==
    /\ rpc[r] = "mark"
    /\ lastTold' = [lastTold EXCEPT ![inc[r]] =
          IF Present(inc[r]) THEN "false_alarm_marked" ELSE @]
    /\ Return(r)
    /\ UNCHANGED <<dbVars, closedNotices, engineVars, loopVars>>

-----------------------------------------------------------------------------
(* Diagnoses made by a request: recheck_open_incident, verify_fix, the     *)
(* dashboard's manual diagnosis and the baseline monitor.                  *)

BeginDiagnosis(r, o, i) ==
    /\ rpc[r] = "idle"
    /\ Enter(r, "ladder", o, i)
    /\ UNCHANGED <<dbVars, outVars, engineVars, loopVars>>

RecheckBegin(r) == LatestOpen # NoId /\ BeginDiagnosis(r, "recheck", LatestOpen)

VerifyBegin(r)  == BeginDiagnosis(r, "verify", LatestOpen)

\* MANUAL_DIAGNOSIS_SLOT admits one detached manual diagnosis.
ManualBegin(r) ==
    /\ \A q \in Requests : op[q] # "manual"
    /\ BeginDiagnosis(r, "manual", NoId)

\* The single baseline thread samples only a quiet engine.
BaselineBegin(r) ==
    /\ \A q \in Requests : op[q] # "baseline"
    /\ ladder = NoOne
    /\ LatestOpen = NoId
    /\ BeginDiagnosis(r, "baseline", NoId)

\* run_ladder_cached, entry: one ladder at a time, a busy one means None.
DiagnoseStart(r) ==
    /\ rpc[r] = "ladder"
    /\ lock = NoOne
    /\ IF ladder = NoOne
       THEN ladder' = r /\ Goto(r, "probing") /\ UNCHANGED <<op, inc, found>>
       ELSE UNCHANGED ladder /\ Return(r)
    /\ UNCHANGED <<dbVars, outVars, lock, loopThread, loopVars>>

\* Only the baseline monitor's diagnosis is not forced: it may be answered from
\* the ladder cache, with any earlier verdict.
DiagnoseCached(r) ==
    /\ rpc[r] = "ladder"
    /\ op[r] = "baseline"
    /\ \E v \in Verdicts : found' = [found EXCEPT ![r] = v]
    /\ Goto(r, "record")
    /\ UNCHANGED <<dbVars, outVars, engineVars, loopVars, op, inc>>

DiagnoseProbe(r) ==
    /\ rpc[r] = "probing"
    /\ ladder' = NoOne
    /\ \E v \in Verdicts : found' = [found EXCEPT ![r] = v]
    /\ Goto(r, "record")
    /\ UNCHANGED <<dbVars, outVars, lock, loopThread, loopVars, op, inc>>

DiagnoseRecord(r) ==
    /\ rpc[r] = "record"
    /\ IF inc[r] # NoId THEN RecordRun(inc[r], found[r]) ELSE UNCHANGED dbVars
    /\ IF op[r] \in {"manual", "baseline"} /\ ~IsOk(found[r])
       THEN Goto(r, "judge") /\ UNCHANGED <<op, inc, found>>
       ELSE Return(r)
    /\ UNCHANGED <<outVars, engineVars, loopVars>>

\* A manual run triggers when no incident is open; the baseline monitor
\* triggers on a bad verdict, unless it did so recently.
DiagnoseJudge(r) ==
    /\ rpc[r] = "judge"
    /\ \/ /\ IF op[r] = "manual" THEN LatestOpen = NoId
                                 ELSE Severity[found[r]] = "bad"
          /\ Goto(r, "trigger")
          /\ UNCHANGED <<op, inc, found>>
       \/ /\ op[r] = "manual" => LatestOpen # NoId
          /\ Return(r)
    /\ UNCHANGED <<dbVars, outVars, engineVars, loopVars>>

\* An exception inside a request unwinds it: locks and the ladder are freed.
RequestFail(r) ==
    /\ DbFaults
    /\ rpc[r] \in {"locked", "commit", "ladder", "probing", "record", "judge"}
    /\ lock' = IF lock = r THEN NoOne ELSE lock
    /\ ladder' = IF ladder = r THEN NoOne ELSE ladder
    /\ Return(r)
    /\ UNCHANGED <<dbVars, outVars, loopThread, loopVars>>

-----------------------------------------------------------------------------
(* Engine._loop(inc_id): the recheck loop.                                 *)

\* Reads the row once; a recovery already recorded counts as one clear run.
LoopStart(i) ==
    /\ lpc[i] = "start"
    /\ lpc' = [lpc EXCEPT ![i] = "sleep"]
    /\ okRuns' = [okRuns EXCEPT ![i] = IF recovered[i] THEN 1 ELSE 0]
    /\ UNCHANGED <<dbVars, outVars, engineVars, reqVars,
                   worst, notified, lastSent, seen>>

LoopWake(i) ==
    /\ lpc[i] = "sleep"
    /\ LoopGoto(i, "check")
    /\ UNCHANGED <<dbVars, outVars, engineVars, reqVars>>

\* incident_max_hours have passed on the monotonic clock.
LoopDeadline(i) ==
    /\ lpc[i] = "sleep"
    /\ LoopGoto(i, "closing")
    /\ UNCHANGED <<dbVars, outVars, engineVars, reqVars>>

\* Closed externally: the thread returns.
LoopCheck(i) ==
    /\ lpc[i] = "check"
    /\ IF Open(i) THEN LoopGoto(i, "ladder") ELSE LoopReset(i, "dead")
    /\ UNCHANGED <<dbVars, outVars, engineVars, reqVars>>

\* diagnose_once returned None when another ladder is running: continue.
LoopLadder(i) ==
    /\ lpc[i] = "ladder"
    /\ lock = NoOne
    /\ IF ladder = NoOne
       THEN ladder' = "loop" /\ LoopGoto(i, "probing")
       ELSE UNCHANGED ladder /\ LoopGoto(i, "sleep")
    /\ UNCHANGED <<dbVars, outVars, lock, loopThread, reqVars>>

LoopProbe(i) ==
    /\ lpc[i] = "probing"
    /\ ladder' = NoOne
    /\ lpc' = [lpc EXCEPT ![i] = "record"]
    /\ \E v \in Verdicts : seen' = [seen EXCEPT ![i] = v]
    /\ UNCHANGED <<dbVars, outVars, lock, loopThread, reqVars,
                   okRuns, worst, notified, lastSent>>

LoopRecord(i) ==
    /\ lpc[i] = "record"
    /\ RecordRun(i, seen[i])
    /\ LoopGoto(i, "judge")
    /\ UNCHANGED <<outVars, engineVars, reqVars>>

\* The second clear run in a row confirms recovery.
LoopClear(i) ==
    /\ lpc[i] = "judge"
    /\ IsOk(seen[i])
    /\ lpc' = [lpc EXCEPT ![i] = IF okRuns[i] >= 1 THEN "recovered" ELSE "sleep"]
    /\ okRuns' = [okRuns EXCEPT ![i] = IF @ >= 1 THEN 2 ELSE 1]
    /\ seen' = [seen EXCEPT ![i] = "none"]
    /\ UNCHANGED <<dbVars, outVars, engineVars, reqVars,
                   worst, notified, lastSent>>

\* worst is only ever replaced by a verdict at least as severe.
Stronger(i) == worst[i] = "none" \/ Rank(seen[i]) >= Rank(worst[i])

\* Mutant of LoopFault: healthy verdicts are attributed as well.
LoopFaultAnyVerdict(i) ==
    /\ lpc[i] = "judge"
    /\ lpc' = [lpc EXCEPT ![i] = "announce"]
    /\ okRuns' = [okRuns EXCEPT ![i] = 0]
    /\ worst' = [worst EXCEPT ![i] = IF Stronger(i) THEN seen[i] ELSE @]
    /\ UNCHANGED <<dbVars, outVars, engineVars, reqVars,
                   notified, lastSent, seen>>

\* Mutant of LoopFault: attributes the incident without resolved IS NULL.
LoopFaultLate(i) ==
    /\ lpc[i] = "judge"
    /\ ~IsOk(seen[i])
    /\ lpc' = [lpc EXCEPT ![i] = "announce"]
    /\ okRuns' = [okRuns EXCEPT ![i] = 0]
    /\ worst' = [worst EXCEPT ![i] = seen[i]]
    /\ diagnosis' = [diagnosis EXCEPT ![i] = seen[i]]
    /\ verdict' = [verdict EXCEPT ![i] = seen[i]]
    /\ UNCHANGED <<state, recovered, falseAlarm, openSegs, newestRun, evidence,
                   outVars, engineVars, reqVars, notified, lastSent, seen>>

LoopFault(i) ==
    /\ lpc[i] = "judge"
    /\ ~IsOk(seen[i])
    /\ lpc' = [lpc EXCEPT ![i] = "announce"]
    /\ okRuns' = [okRuns EXCEPT ![i] = 0]
    /\ worst' = [worst EXCEPT ![i] = IF Stronger(i) THEN seen[i] ELSE @]
    /\ IF Stronger(i) /\ Open(i)
       THEN /\ diagnosis' = [diagnosis EXCEPT ![i] = seen[i]]
            /\ verdict' = [verdict EXCEPT ![i] = seen[i]]
       ELSE UNCHANGED <<diagnosis, verdict>>
    /\ UNCHANGED <<state, recovered, falseAlarm, openSegs, newestRun, evidence,
                   outVars, engineVars, reqVars, notified, lastSent, seen>>

\* First fault: fault_opened or degradation_detected; a changed one:
\* fault_updated.
Announcement(i) ==
    IF notified[i] THEN "fault_updated"
    ELSE IF Severity[seen[i]] = "warn" THEN "degradation_detected"
    ELSE "fault_opened"

LoopAnnounce(i) ==
    /\ lpc[i] = "announce"
    /\ lastTold' = [lastTold EXCEPT ![i] =
          IF notified[i] /\ seen[i] = lastSent[i] THEN @ ELSE Announcement(i)]
    /\ lpc' = [lpc EXCEPT ![i] = "sleep"]
    /\ notified' = [notified EXCEPT ![i] = TRUE]
    /\ lastSent' = [lastSent EXCEPT ![i] = seen[i]]
    /\ seen' = [seen EXCEPT ![i] = "none"]
    /\ UNCHANGED <<dbVars, closedNotices, engineVars, reqVars, okRuns, worst>>

LoopRecovered(i) ==
    /\ lpc[i] = "recovered"
    /\ lastTold' = [lastTold EXCEPT ![i] = "fault_recovered"]
    /\ LoopGoto(i, "closing")
    /\ UNCHANGED <<dbVars, closedNotices, engineVars, reqVars>>

\* What the incident is finally attributed to: worst, or all_clear if this
\* thread never saw a fault.
Final(i) == IF worst[i] = "none" THEN AllClear ELSE worst[i]

\* Mutant of LoopClose: closes and announces an incident already resolved.
LoopCloseAlways(i) ==
    /\ lpc[i] = "closing"
    /\ CloseSegments(i)
    /\ SetResolved(i)
    /\ LoopGoto(i, "closed")
    /\ UNCHANGED <<recovered, falseAlarm, verdict, diagnosis, newestRun, evidence,
                   outVars, engineVars, reqVars>>

\* The final transaction, WHERE resolved IS NULL.
LoopClose(i) ==
    /\ lpc[i] = "closing"
    /\ CloseSegments(i)
    /\ IF Open(i)
       THEN /\ SetResolved(i)
            /\ recovered' = [recovered EXCEPT ![i] = IF okRuns[i] = 2 THEN TRUE ELSE @]
            /\ verdict' = [verdict EXCEPT ![i] = Final(i)]
            /\ diagnosis' = [diagnosis EXCEPT ![i] = Final(i)]
            /\ LoopGoto(i, "closed")
       ELSE /\ UNCHANGED <<state, recovered, verdict, diagnosis>>
            /\ LoopReset(i, "dead")
    /\ UNCHANGED <<falseAlarm, newestRun, evidence, outVars, engineVars, reqVars>>

LoopClosed(i) ==
    /\ lpc[i] = "closed"
    /\ closedNotices' = [closedNotices EXCEPT ![i] = @ + 1]
    /\ lastTold' = [lastTold EXCEPT ![i] = "fault_closed"]
    /\ LoopReset(i, "dead")
    /\ UNCHANGED <<dbVars, engineVars, reqVars>>

\* Mutant of LoopFail: run_in_progress is not reset in a finally.
LoopFailLeaksLadder(i) ==
    /\ DbFaults
    /\ lpc[i] \in {"check", "probing", "record", "judge"}
    /\ lpc' = [lpc EXCEPT ![i] = "sleep"]
    /\ seen' = [seen EXCEPT ![i] = "none"]
    /\ UNCHANGED <<dbVars, outVars, engineVars, reqVars,
                   okRuns, worst, notified, lastSent>>

\* An exception inside the guarded body: keep looping.
LoopFail(i) ==
    /\ DbFaults
    /\ lpc[i] \in {"check", "probing", "record", "judge"}
    /\ ladder' = IF lpc[i] = "probing" THEN NoOne ELSE ladder
    /\ lpc' = [lpc EXCEPT ![i] = "sleep"]
    /\ seen' = [seen EXCEPT ![i] = "none"]
    /\ UNCHANGED <<dbVars, outVars, lock, loopThread, reqVars,
                   okRuns, worst, notified, lastSent>>

\* The UPDATE of the attribution raised: worst is already set, the row is
\* not, and the announcement is skipped.
LoopFaultFail(i) ==
    /\ DbFaults
    /\ lpc[i] = "judge"
    /\ ~IsOk(seen[i])
    /\ Stronger(i)
    /\ lpc' = [lpc EXCEPT ![i] = "sleep"]
    /\ okRuns' = [okRuns EXCEPT ![i] = 0]
    /\ worst' = [worst EXCEPT ![i] = seen[i]]
    /\ seen' = [seen EXCEPT ![i] = "none"]
    /\ UNCHANGED <<dbVars, outVars, engineVars, reqVars, notified, lastSent>>

\* An exception outside it (the first read, the final transaction) ends the
\* thread with the incident as it was.
LoopDie(i) ==
    /\ DbFaults
    /\ lpc[i] \in {"start", "closing"}
    /\ LoopReset(i, "dead")
    /\ UNCHANGED <<dbVars, outVars, engineVars, reqVars>>

-----------------------------------------------------------------------------
(* The janitor, and the life of the process.                               *)

\* A false alarm is given a reference: its incident may be of any age.
ByReference(r) == op[r] = "falseAlarm" /\ rpc[r] \in {"commit", "mark"}

\* Every other thread took its incident while that was open, and lets go of it
\* minutes after its end: retention, in days, has not passed while one has it.
Recent(i) == Alive(i) \/ \E r \in Requests : inc[r] = i /\ ~ByReference(r)

Resolved == {i \in Ids : state[i] = "resolved"}

Without(f, S, v) == [i \in Ids |-> IF i \in S THEN v ELSE f[i]]

\* Two cutoffs: the runs of what is resolved go by their own age, the incident
\* with its segments by that of its resolution.
JanitorSweep ==
    \E Old \in SUBSET Resolved, S \in SUBSET {i \in Resolved : ~Recent(i)} :
       /\ S \subseteq Old /\ Old # {}
       /\ state'         = Without(state, S, "absent")
       /\ recovered'     = Without(recovered, S, FALSE)
       /\ falseAlarm'    = Without(falseAlarm, S, FALSE)
       /\ verdict'       = Without(verdict, S, "none")
       /\ diagnosis'     = Without(diagnosis, S, "none")
       /\ openSegs'      = Without(openSegs, S, 0)
       /\ newestRun'     = Without(newestRun, Old, "none")
       /\ evidence'      = [i \in Ids |->
             IF i \in S \/ (i \in Old /\ evidence[i] = "late") THEN "none" ELSE evidence[i]]
       /\ lastTold'      = Without(lastTold, S, "none")
       /\ closedNotices' = Without(closedNotices, S, 0)
       /\ UNCHANGED <<engineVars, loopVars, reqVars>>

\* The process starts with no threads but the loop of the incident at i.
FreshProcess(i) ==
    /\ lock' = NoOne
    /\ ladder' = NoOne
    /\ rpc' = [r \in Requests |-> "idle"]
    /\ op' = [r \in Requests |-> "none"]
    /\ inc' = [r \in Requests |-> NoId]
    /\ found' = [r \in Requests |-> "none"]
    /\ loopThread' = i
    /\ lpc' = [j \in Ids |-> IF j = i THEN "start" ELSE "dead"]
    /\ okRuns' = [j \in Ids |-> 0]
    /\ worst' = [j \in Ids |-> "none"]
    /\ notified' = [j \in Ids |-> FALSE]
    /\ lastSent' = [j \in Ids |-> "none"]
    /\ seen' = [j \in Ids |-> "none"]

\* init_db, on every start: an empty diagnosis takes the stored verdict, and
\* an incident whose runs prove a fault but which has no segment row gets its
\* segments derived from them, with recovered_at if the newest run is clear.
\* Only an incident resolved before its first fault run was stored is so.
Migrate ==
    /\ diagnosis' = [i \in Ids |-> IF diagnosis[i] = "none" THEN verdict[i]
                                                          ELSE diagnosis[i]]
    /\ recovered' = [i \in Ids |->
          IF evidence[i] = "late" /\ newestRun[i] = "ok" THEN TRUE ELSE recovered[i]]
    /\ evidence' = [i \in Ids |-> IF evidence[i] = "late" THEN "segments"
                                                        ELSE evidence[i]]
    /\ UNCHANGED <<state, falseAlarm, verdict, openSegs, newestRun>>

\* Mutant of CrashRestart: the open incident is not resumed.
CrashNoResume ==
    /\ MayCrash
    /\ Migrate
    /\ FreshProcess(NoId)
    /\ UNCHANGED outVars

\* The process dies with its threads; systemd starts it again, main() migrates
\* the database and calls resume_after_startup before anything else can trigger.
CrashRestart ==
    /\ MayCrash
    /\ Migrate
    /\ FreshProcess(LatestOpen)
    /\ UNCHANGED outVars

-----------------------------------------------------------------------------
Init ==
    /\ state = [i \in Ids |-> "absent"]
    /\ recovered = [i \in Ids |-> FALSE]
    /\ falseAlarm = [i \in Ids |-> FALSE]
    /\ verdict = [i \in Ids |-> "none"]
    /\ diagnosis = [i \in Ids |-> "none"]
    /\ openSegs = [i \in Ids |-> 0]
    /\ newestRun = [i \in Ids |-> "none"]
    /\ evidence = [i \in Ids |-> "none"]
    /\ lastTold = [i \in Ids |-> "none"]
    /\ closedNotices = [i \in Ids |-> 0]
    /\ lock = NoOne
    /\ ladder = NoOne
    /\ loopThread = NoId
    /\ lpc = [i \in Ids |-> "dead"]
    /\ okRuns = [i \in Ids |-> 0]
    /\ worst = [i \in Ids |-> "none"]
    /\ notified = [i \in Ids |-> FALSE]
    /\ lastSent = [i \in Ids |-> "none"]
    /\ seen = [i \in Ids |-> "none"]
    /\ rpc = [r \in Requests |-> "idle"]
    /\ op = [r \in Requests |-> "none"]
    /\ inc = [r \in Requests |-> NoId]
    /\ found = [r \in Requests |-> "none"]

RequestStep(r) ==
    \/ TriggerCheck(r) \/ TriggerInsert(r) \/ TriggerAttach(r) \/ TriggerStart(r)
    \/ CloseBegin(r) \/ CloseCommit(r)
    \/ FalseAlarmBegin(r) \/ FalseAlarmCommit(r) \/ EmitClosed(r) \/ EmitMarked(r)
    \/ RecheckBegin(r) \/ VerifyBegin(r) \/ ManualBegin(r) \/ BaselineBegin(r)
    \/ DiagnoseStart(r) \/ DiagnoseCached(r) \/ DiagnoseProbe(r)
    \/ DiagnoseRecord(r) \/ DiagnoseJudge(r) \/ RequestFail(r)

LoopStep(i) ==
    \/ LoopStart(i) \/ LoopWake(i) \/ LoopDeadline(i) \/ LoopCheck(i)
    \/ LoopLadder(i) \/ LoopProbe(i) \/ LoopRecord(i) \/ LoopClear(i)
    \/ LoopFault(i) \/ LoopAnnounce(i) \/ LoopRecovered(i) \/ LoopClose(i)
    \/ LoopClosed(i) \/ LoopFail(i) \/ LoopFaultFail(i) \/ LoopDie(i)

Next ==
    \/ \E r \in Requests : RequestStep(r)
    \/ \E i \in Ids : LoopStep(i)
    \/ JanitorSweep
    \/ CrashRestart

Spec == Init /\ [][Next]_vars

(***************************************************************************)
(* Fairness.  A running thread keeps running; a request that was begun is  *)
(* served to its end, though none need ever be begun.  Engine.lock is held *)
(* for a few statements, so a waiting loop gets it sooner or later, and    *)
(* the monotonic clock passes the deadline of a loop that keeps rechecking.*)
(* From some point on the process no longer crashes.                       *)
(***************************************************************************)
RequestProgress(r) ==
    \/ TriggerInsert(r) \/ TriggerAttach(r) \/ TriggerStart(r)
    \/ CloseCommit(r) \/ FalseAlarmCommit(r) \/ EmitClosed(r) \/ EmitMarked(r)
    \/ DiagnoseStart(r) \/ DiagnoseCached(r) \/ DiagnoseProbe(r)
    \/ DiagnoseRecord(r) \/ DiagnoseJudge(r)

LoopProgress(i) ==
    \/ LoopStart(i) \/ LoopWake(i) \/ LoopCheck(i) \/ LoopProbe(i)
    \/ LoopRecord(i) \/ LoopClear(i) \/ LoopFault(i) \/ LoopAnnounce(i)
    \/ LoopRecovered(i) \/ LoopClose(i) \/ LoopClosed(i)

Fairness ==
    /\ \A r \in Requests : WF_vars(RequestProgress(r))
    /\ \A i \in Ids : /\ WF_vars(LoopProgress(i))
                       /\ SF_vars(LoopLadder(i))
                       /\ SF_vars(LoopDeadline(i))
    /\ <>[][~CrashRestart]_vars

FairSpec == Spec /\ Fairness

-----------------------------------------------------------------------------
(* Properties.                                                             *)

DbTypes ==
    /\ state \in [Ids -> State]
    /\ recovered \in [Ids -> BOOLEAN] /\ falseAlarm \in [Ids -> BOOLEAN]
    /\ verdict \in [Ids -> Code] /\ diagnosis \in [Ids -> Code]
    /\ openSegs \in [Ids -> Nat]
    /\ newestRun \in [Ids -> {"none", "ok", "fault"}]
    /\ evidence \in [Ids -> {"none", "segments", "late"}]

OutTypes ==
    /\ lastTold \in [Ids -> Event \cup {"none"}]
    /\ closedNotices \in [Ids -> Nat]

EngineTypes ==
    /\ lock \in Requests \cup {NoOne}
    /\ ladder \in Requests \cup {"loop", NoOne}
    /\ loopThread \in Ids \cup {NoId}

LoopTypes ==
    /\ lpc \in [Ids -> LoopPc] /\ okRuns \in [Ids -> 0 .. 2]
    /\ worst \in [Ids -> Codes \cup {"none"}] /\ notified \in [Ids -> BOOLEAN]
    /\ lastSent \in [Ids -> Codes \cup {"none"}] /\ seen \in [Ids -> Code]

ReqTypes ==
    /\ rpc \in [Requests -> ReqPc] /\ op \in [Requests -> ReqOp]
    /\ inc \in [Requests -> Ids \cup {NoId}] /\ found \in [Requests -> Code]

\* What the columns, the events, the Engine's fields and the threads' locals
\* may hold; worst and lastSent, the loop's attribution, are never all_clear.
TypeOK == DbTypes /\ OutTypes /\ EngineTypes /\ LoopTypes /\ ReqTypes

\* At most one incident is open: concurrent triggers (webhook, baseline,
\* manual diagnosis) racing closes, crashes and the janitor never leave two.
OneOpenIncident == \A i, j \in Ids : Open(i) /\ Open(j) => i = j

\* At most one recheck loop runs, the one Engine.loop_thread refers to, so two
\* loops never observe and close incidents side by side.
OneLoop == \A i \in Ids : Alive(i) => loopThread = i

\* trigger()'s "lost the race" branch is unreachable inside one process: while
\* a request holds the lock having found no open incident, none gets opened.
NoRaceInsideTrigger ==
    \A r \in Requests : rpc[r] = "locked" /\ inc[r] = NoId
                           => \A i \in Ids : ~Open(i)

\* At most one fault ladder runs, and run_in_progress names the thread running
\* it, through failures and crashes: a leaked flag would refuse every later
\* diagnosis.
OneLadder ==
    /\ \A r \in Requests : rpc[r] = "probing" <=> ladder = r
    /\ (\E i \in Ids : lpc[i] = "probing") <=> ladder = "loop"

\* The downtime evidence of an incident follows its life, whichever of the loop
\* and the requests store its runs: a resolved incident has no running outage
\* segment; an open one has exactly one while its newest run is a fault and
\* none while it is a clear run, and then recovered_at is set.
EvidenceFollowsRuns ==
    \A i \in Ids :
       /\ openSegs[i] = IF Open(i) /\ newestRun[i] = "fault" THEN 1 ELSE 0
       /\ Open(i) => (recovered[i] <=> newestRun[i] = "ok")

\* fault_closed is emitted at most once per incident, and only for one that is
\* resolved, however the loop, close and false-alarm race to close it.
ClosedOnce ==
    \A i \in Ids : /\ closedNotices[i] <= 1
                   /\ closedNotices[i] = 1 => state[i] = "resolved"

\* A resolved incident is never reopened, a recovery it records stays, and its
\* stored attribution is final: only the user's false-alarm mark, never undone,
\* changes the verdict, and only a start of the process fills a diagnosis that
\* was still empty.  Late diagnoses and loops leave the record alone.
ResolvedIsFinal ==
    [][\A i \in Ids : state[i] = "resolved" =>
          \/ state'[i] = "absent"
          \/ /\ state'[i] = "resolved"
             /\ recovered[i] => recovered'[i]
             /\ \/ diagnosis'[i] = diagnosis[i]
                \/ diagnosis[i] = "none" /\ diagnosis'[i] = verdict[i]
             /\ \/ falseAlarm'[i] = falseAlarm[i] /\ verdict'[i] = verdict[i]
                \/ falseAlarm'[i] /\ verdict'[i] = AllClear]_vars

\* An id that a false alarm still refers to is not given out again.  No run
\* checks it: the janitor may prune the row a request has looked up, and the
\* mark, which goes by the id (linkmoth_engine.py:341), then hits the incident
\* that got it next.
MarkedIsTheOneChosen ==
    [][\A i \in Ids : (\E r \in Requests : ByReference(r) /\ inc[r] = i) /\ ~Present(i)
          => ~Present(i)']_vars

\* The engine implements the record it promises: one incident at a time, a
\* record that is final once resolved, fault_closed once and after it.
Promise == INSTANCE IncidentRecord
    WITH state <- state, recovered <- recovered, falseAlarm <- falseAlarm,
         verdict <- verdict, diagnosis <- diagnosis, closedNotices <- closedNotices
ImplementsRecord == Promise!Spec

\* A later, weaker verdict never replaces a stronger confirmed attribution of
\* an incident that has not been marked a false alarm.
StrongestAttributionKept ==
    [][\A i \in Ids : state'[i] # "absent" =>
          Rank(diagnosis'[i]) >= Rank(diagnosis[i])]_vars

FaultEvents == {"fault_opened", "degradation_detected", "fault_updated"}

\* No fault event (fault_opened, degradation_detected, fault_updated) is
\* emitted for an incident after its fault_closed.
NoFaultAfterClosed ==
    [][\A i \in Ids : closedNotices[i] > 0 /\ lastTold'[i] \in FaultEvents
          => lastTold'[i] = lastTold[i]]_vars

\* An open incident that a recheck loop watches is eventually resolved, by the
\* user, by confirmed recovery or by the deadline; a crash only delays it.
WatchedIncidentResolves ==
    \A i \in Ids : Open(i) /\ Alive(i) ~> ~Open(i)

\* Every open incident is eventually resolved.
OpenIncidentResolves == \A i \in Ids : Open(i) ~> ~Open(i)
=============================================================================
