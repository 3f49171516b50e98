----------------------------- MODULE OutageAlerts -----------------------------
(***************************************************************************)
(* Alerts around a global outage: the outage tracker (linkmoth_outage.py), *)
(* the inbound-alert proxy that silences service alerts while the network  *)
(* is down (linkmoth_kuma_proxy.py), the recovery summary three paths may  *)
(* send, and quiet hours (linkmoth_notify.py).                             *)
(*                                                                         *)
(* A thread is an HTTP worker or a diagnosing thread; it observes a ladder *)
(* run, handles an inbound alert, or reports the recovery of an incident.  *)
(* The quiet-hours scheduler is a thread of its own.  A step is one SQLite *)
(* transaction, one section under a lock, or one dispatch.                 *)
(*                                                                         *)
(* Both tables number their rows with INTEGER PRIMARY KEY and no           *)
(* AUTOINCREMENT: a new row gets one more than the largest id in use.      *)
(***************************************************************************)
EXTENDS Naturals, FiniteSets

CONSTANTS
    Alerts,     \* inbound alerts and the tracker's own outage notices
    UpAlerts,   \* those an external monitor sent on recovery: no digest line
    Threads,
    MaxRow,     \* bound: largest row id either table uses
    MaxSuppressedAlerts, MaxQuietEvents,    \* the tables' caps
    Faults,     \* TRUE: a dispatch or a database call may raise
    MayCrash,   \* TRUE: the process may die and be restarted
    None        \* no alert, no holder

ASSUME ConstantsAssumption ==
    /\ UpAlerts \subseteq Alerts
    /\ MaxRow \in Nat \ {0}
    /\ MaxSuppressedAlerts \in 1 .. MaxRow /\ MaxQuietEvents \in 1 .. MaxRow
    /\ Faults \in BOOLEAN /\ MayCrash \in BOOLEAN
    /\ None \notin Alerts /\ None \notin Threads

Rows == 1 .. MaxRow
Keys == {"global", "incident"}

VARIABLES
    active,      \* network_outage.active
    suppressed,  \* table suppressed_alerts: row -> alert, or None
    quietRows,   \* table quiet_hour_events: row -> the alerts it tells, or {}
    quiet,       \* quiet_hours_active()
    told,        \* history: alerts a dispatched or deferred message named
    handedOver,  \* history: alerts the newest quiet-hours digest named
    posting,     \* alerts of digests in the sending threads' hands
    posted,      \* history: alerts of digests that were posted
    trackerLock, \* OutageTracker._lock
    clear,       \* OutageTracker._consecutive_clear
    clearRuns,   \* history: runs observed without a global fault since the
                 \* last one with it, in this process
    recent,      \* "global" is in _recovery_sent_mono, within the dedupe window
    pc, alert, key, batch, lines,   \* locals of a thread
    flushPc, flushBatch             \* locals of the quiet-hours scheduler

storeVars  == <<suppressed, quietRows>>
outVars    == <<told, handedOver>>
trackVars  == <<active, trackerLock, clear, clearRuns>>
threadVars == <<pc, alert, key, batch, lines>>
flushVars  == <<flushPc, flushBatch, posting, posted>>
vars == <<storeVars, outVars, trackVars, quiet, recent, threadVars, flushVars>>

ThreadPc == {"idle", "notice", "retire", "suppress", "forward", "digest",
             "check", "send", "mark", "clear"}

-----------------------------------------------------------------------------
(* Tables.                                                                 *)

Used(t, empty) == {k \in Rows : t[k] # empty}

\* The id SQLite gives the next row.
IsNext(U, k) == k \in Rows /\ k \notin U /\ (\A j \in U : j < k) /\ (k # 1 => k - 1 \in U)

\* The rows a table keeps once it is over its cap.
Newest(U, cap) == {k \in U : Cardinality({j \in U : j > k}) < cap}

\* INSERT, then DELETE ... WHERE id NOT IN (the newest cap), in one transaction.
Insert(t, x, empty, cap) ==
    LET U == Used(t, empty) IN
    CHOOSE n \in [Rows -> {t[j] : j \in Rows} \cup {x, empty}] :
       \E k \in Rows :
          /\ IsNext(U, k)
          /\ \A j \in Rows : n[j] = IF j = k THEN x
                                   ELSE IF j \in Newest(U \cup {k}, cap) THEN t[j] ELSE empty

HasRoom(t, empty) == t[MaxRow] = empty

\* record_suppressed; the bound MaxRow blocks an insert beyond it.
InsertSuppressed(a) ==
    HasRoom(suppressed, None) /\ suppressed' = Insert(suppressed, a, None, MaxSuppressedAlerts)

\* defer_notification_if_quiet
InsertQuiet(S) ==
    HasRoom(quietRows, {}) /\ quietRows' = Insert(quietRows, S, {}, MaxQuietEvents)

\* Alerts raised anew: no row and no thread holds them.
Fresh == {a \in Alerts : /\ \A k \in Rows : suppressed[k] # a /\ a \notin quietRows[k]
                          /\ \A t \in Threads : alert[t] # a /\ a \notin lines[t]}

Goto(t, l) == pc' = [pc EXCEPT ![t] = l]

Return(t) ==
    /\ pc' = [pc EXCEPT ![t] = "idle"]
    /\ alert' = [alert EXCEPT ![t] = None]
    /\ key' = [key EXCEPT ![t] = "global"]
    /\ batch' = [batch EXCEPT ![t] = {}]
    /\ lines' = [lines EXCEPT ![t] = {}]

-----------------------------------------------------------------------------
(* OutageTracker.observe, under its lock to the end.                       *)

\* Mutant of ObserveGlobal: the count of clear runs is not reset.
ObserveGlobalKeepsCount(t) ==
    /\ pc[t] = "idle"
    /\ trackerLock = None
    /\ clearRuns' = 0
    /\ IF active
       THEN UNCHANGED <<active, trackerLock, threadVars>>
       ELSE /\ active' = TRUE
            /\ trackerLock' = t
            /\ \E a \in Fresh : alert' = [alert EXCEPT ![t] = a]
            /\ Goto(t, "notice")
            /\ UNCHANGED <<key, batch, lines>>
    /\ UNCHANGED <<clear, storeVars, outVars, quiet, recent, flushVars>>

\* Mutant of ObserveGlobal: observe does not take the tracker's lock.
ObserveGlobalUnlocked(t) ==
    /\ pc[t] = "idle"
    /\ clear' = 0
    /\ clearRuns' = 0
    /\ IF active
       THEN UNCHANGED <<active, threadVars>>
       ELSE /\ active' = TRUE
            /\ \E a \in Fresh : alert' = [alert EXCEPT ![t] = a]
            /\ Goto(t, "notice")
            /\ UNCHANGED <<key, batch, lines>>
    /\ UNCHANGED <<trackerLock, storeVars, outVars, quiet, recent, flushVars>>

\* A run with a global fault: _touch an active outage, or _enter one.
ObserveGlobal(t) ==
    /\ pc[t] = "idle"
    /\ trackerLock = None
    /\ clear' = 0
    /\ clearRuns' = 0
    /\ IF active
       THEN UNCHANGED <<active, trackerLock, threadVars>>
       ELSE /\ active' = TRUE
            /\ trackerLock' = t
            /\ \E a \in Fresh : alert' = [alert EXCEPT ![t] = a]
            /\ Goto(t, "notice")
            /\ UNCHANGED <<key, batch, lines>>
    /\ UNCHANGED <<storeVars, outVars, quiet, recent, flushVars>>

\* _enter's second transaction: the tracker's own suppressed notice.
EnterNotice(t) ==
    /\ pc[t] = "notice"
    /\ InsertSuppressed(alert[t])
    /\ trackerLock' = None
    /\ Return(t)
    /\ UNCHANGED <<quietRows, outVars, active, clear, clearRuns, quiet, recent, flushVars>>

Bump(n) == IF n >= 2 THEN 2 ELSE n + 1

\* Any other run: the second in a row recovers an active outage.
ObserveClear(t) ==
    /\ pc[t] = "idle"
    /\ trackerLock = None
    /\ clearRuns' = Bump(clearRuns)
    /\ clear' = IF active THEN Bump(clear) ELSE 0
    /\ IF active /\ clear >= 1
       THEN Goto(t, "digest") /\ trackerLock' = t
       ELSE UNCHANGED <<pc, trackerLock>>
    /\ UNCHANGED <<active, alert, key, batch, lines, storeVars, outVars,
                   quiet, recent, flushVars>>

\* _recover clears active after reading the digest and before notifying.
Retire(t) ==
    /\ pc[t] = "retire"
    /\ active' = FALSE
    /\ Goto(t, "check")
    /\ UNCHANGED <<trackerLock, clear, clearRuns, alert, key, batch, lines,
                   storeVars, outVars, quiet, recent, flushVars>>

-----------------------------------------------------------------------------
(* handle_inbound_alert, and _discord_notify(..., "recovery").             *)

\* An alert arrives: silenced if the verdict, fresh or cached, is a global
\* fault or if the tracker's outage is active at this moment.
HandleAlert(t) ==
    /\ pc[t] = "idle"
    /\ \E a \in Fresh :
          /\ alert' = [alert EXCEPT ![t] = a]
          /\ \/ Goto(t, "suppress")
             \/ ~active /\ Goto(t, "forward")
    /\ UNCHANGED <<key, batch, lines, storeVars, outVars, trackVars, quiet,
                   recent, flushVars>>

Suppress(t) ==
    /\ pc[t] = "suppress"
    /\ InsertSuppressed(alert[t])
    /\ Return(t)
    /\ UNCHANGED <<quietRows, outVars, trackVars, quiet, recent, flushVars>>

\* Forwarded to Discord, or deferred by quiet hours; a recovery then goes on
\* to the summary of what was suppressed, a fault to Engine.trigger.
Forward(t) ==
    /\ pc[t] = "forward"
    /\ told' = told \cup {alert[t]}
    /\ IF quiet THEN InsertQuiet({alert[t]}) ELSE UNCHANGED quietRows
    /\ IF alert[t] \in UpAlerts
       THEN Goto(t, "digest") /\ UNCHANGED <<alert, key, batch, lines>>
       ELSE Return(t)
    /\ UNCHANGED <<suppressed, handedOver, trackVars, quiet, recent, flushVars>>

\* The recheck loop reports the recovery of an incident that was not itself a
\* global fault.
IncidentRecovery(t) ==
    /\ pc[t] = "idle"
    /\ Goto(t, "digest")
    /\ key' = [key EXCEPT ![t] = "incident"]
    /\ UNCHANGED <<alert, batch, lines, storeVars, outVars, trackVars, quiet,
                   recent, flushVars>>

-----------------------------------------------------------------------------
(* The recovery summary: pending_suppression_digest, notify_recovery,      *)
(* clear_suppressed_alerts.                                                *)

Recovering(t) == trackerLock = t
Handling(t)   == alert[t] # None

\* The ids of all rows, and lines for those that are not recoveries.  The
\* inbound handler goes on only if there is a line.
ReadDigest(t) ==
    LET U == Used(suppressed, None)
        L == {suppressed[k] : k \in U} \ UpAlerts
    IN
    /\ pc[t] = "digest"
    /\ IF Handling(t) /\ L = {}
       THEN Return(t)
       ELSE /\ batch' = [batch EXCEPT ![t] = U]
            /\ lines' = [lines EXCEPT ![t] = L]
            /\ Goto(t, IF Recovering(t) THEN "retire" ELSE "check")
            /\ UNCHANGED <<alert, key>>
    /\ UNCHANGED <<storeVars, outVars, trackVars, quiet, recent, flushVars>>

\* Already sent within RECOVERY_DEDUPE_SECONDS: nothing is sent.  The tracker
\* and the inbound handler share the key "global"; an incident has one of its
\* own, and announces its recovery once.
CheckDedupe(t) ==
    /\ pc[t] = "check"
    /\ Goto(t, IF key[t] = "global" /\ recent THEN "clear" ELSE "send")
    /\ UNCHANGED <<alert, key, batch, lines, storeVars, outVars, trackVars,
                   quiet, recent, flushVars>>

\* Deferred into the quiet-hours table, or handed to the sending threads.
SendSummary(t) ==
    /\ pc[t] = "send"
    /\ told' = told \cup lines[t]
    /\ IF quiet /\ lines[t] # {} THEN InsertQuiet(lines[t]) ELSE UNCHANGED quietRows
    /\ Goto(t, "mark")
    /\ UNCHANGED <<alert, key, batch, lines, suppressed, handedOver, trackVars,
                   quiet, recent, flushVars>>

MarkSent(t) ==
    /\ pc[t] = "mark"
    /\ recent' = (recent \/ key[t] = "global")
    /\ Goto(t, "clear")
    /\ UNCHANGED <<alert, key, batch, lines, storeVars, outVars, trackVars,
                   quiet, flushVars>>

\* DELETE ... WHERE id=? for the ids read; the tracker then resets its count.
ClearSuppressed(t) ==
    /\ pc[t] = "clear"
    /\ suppressed' = [k \in Rows |-> IF k \in batch[t] THEN None ELSE suppressed[k]]
    /\ IF Recovering(t) THEN clear' = 0 /\ trackerLock' = None
                        ELSE UNCHANGED <<clear, trackerLock>>
    /\ Return(t)
    /\ UNCHANGED <<quietRows, outVars, active, clearRuns, quiet, recent, flushVars>>

\* Mutant of ThreadFail: the tracker's lock is not released.
ThreadFailKeepsLock(t) ==
    /\ Faults
    /\ pc[t] \notin {"idle", "check", "mark"}
    /\ Return(t)
    /\ UNCHANGED <<storeVars, outVars, trackVars, quiet, recent, flushVars>>

\* A statement raises: the thread unwinds, with the records left in place.
ThreadFail(t) ==
    /\ Faults
    /\ pc[t] \notin {"idle", "check", "mark"}
    /\ trackerLock' = IF trackerLock = t THEN None ELSE trackerLock
    /\ Return(t)
    /\ UNCHANGED <<storeVars, outVars, active, clear, clearRuns, quiet, recent, flushVars>>

-----------------------------------------------------------------------------
(* flush_quiet_hours_digest, run by one scheduler thread.                  *)

\* Mutant of FlushRead: the events are cleared before they are sent.
FlushReadAndDelete ==
    /\ flushPc = "idle"
    /\ ~quiet /\ ~active
    /\ Used(quietRows, {}) # {}
    /\ flushBatch' = Used(quietRows, {})
    /\ quietRows' = [k \in Rows |-> {}]
    /\ flushPc' = "delete"
    /\ UNCHANGED <<suppressed, outVars, trackVars, quiet, recent, threadVars, posting, posted>>

FlushRead ==
    /\ flushPc = "idle"
    /\ ~quiet /\ ~active
    /\ Used(quietRows, {}) # {}
    /\ flushBatch' = Used(quietRows, {})
    /\ flushPc' = "send"
    /\ UNCHANGED <<storeVars, outVars, trackVars, quiet, recent, threadVars, posting, posted>>

\* The alerts the rows in hand tell; a row the cap took since they were read is
\* named as well, but nothing is claimed of it.
FlushDigest == UNION {quietRows[k] : k \in flushBatch}

\* The digest is handed to a thread that posts it.
FlushSend ==
    /\ flushPc = "send"
    /\ handedOver' = FlushDigest
    /\ posting' = posting \cup FlushDigest
    /\ flushPc' = "delete"
    /\ UNCHANGED <<storeVars, told, trackVars, quiet, recent, threadVars, flushBatch, posted>>

FlushDelete ==
    /\ flushPc = "delete"
    /\ quietRows' = [k \in Rows |-> IF k \in flushBatch THEN {} ELSE quietRows[k]]
    /\ flushPc' = "idle" /\ flushBatch' = {}
    /\ UNCHANGED <<suppressed, outVars, trackVars, quiet, recent, threadVars, posting, posted>>

\* A sending thread cannot be started, perhaps after another one was, or the
\* delete raises: the events stay for the next pass.
FlushFail ==
    /\ Faults
    /\ flushPc # "idle"
    /\ posting' \in {posting, posting \cup (IF flushPc = "send" THEN FlushDigest ELSE {})}
    /\ flushPc' = "idle" /\ flushBatch' = {}
    /\ UNCHANGED <<storeVars, outVars, trackVars, quiet, recent, threadVars, posted>>

\* _send_payload_sync on its own thread: the message arrives, ...
PostDigest ==
    /\ posting # {}
    /\ posted' = posted \cup posting
    /\ posting' = {}
    /\ UNCHANGED <<storeVars, outVars, trackVars, quiet, recent, threadVars, flushPc, flushBatch>>

\* ... or it does not, and the thread prints the error: nobody is told.
PostLost ==
    /\ posting # {}
    /\ posting' = {}
    /\ UNCHANGED <<storeVars, outVars, trackVars, quiet, recent, threadVars, flushPc, flushBatch, posted>>

-----------------------------------------------------------------------------
(* The clock, and the life of the process.                                 *)

QuietHours ==
    /\ quiet' = ~quiet
    /\ UNCHANGED <<storeVars, outVars, trackVars, recent, threadVars, flushVars>>

DedupeExpires ==
    /\ recent
    /\ recent' = FALSE
    /\ UNCHANGED <<storeVars, outVars, trackVars, quiet, threadVars, flushVars>>

\* The tables stay; locks, counters, the dedupe window and the threads go.
FreshProcess ==
    /\ trackerLock' = None
    /\ clear' = 0 /\ clearRuns' = 0
    /\ recent' = FALSE
    /\ pc' = [t \in Threads |-> "idle"]
    /\ alert' = [t \in Threads |-> None]
    /\ key' = [t \in Threads |-> "global"]
    /\ batch' = [t \in Threads |-> {}]
    /\ lines' = [t \in Threads |-> {}]
    /\ flushPc' = "idle" /\ flushBatch' = {}
    /\ posting' = {}

CrashRestart ==
    /\ MayCrash
    /\ FreshProcess
    /\ UNCHANGED <<storeVars, outVars, active, quiet, posted>>

-----------------------------------------------------------------------------
Init ==
    /\ active = FALSE
    /\ suppressed = [k \in Rows |-> None]
    /\ quietRows = [k \in Rows |-> {}]
    /\ quiet \in BOOLEAN
    /\ told = {} /\ handedOver = {} /\ posting = {} /\ posted = {}
    /\ trackerLock = None
    /\ clear = 0 /\ clearRuns = 0
    /\ recent = FALSE
    /\ pc = [t \in Threads |-> "idle"]
    /\ alert = [t \in Threads |-> None]
    /\ key = [t \in Threads |-> "global"]
    /\ batch = [t \in Threads |-> {}]
    /\ lines = [t \in Threads |-> {}]
    /\ flushPc = "idle" /\ flushBatch = {}

ThreadStep(t) ==
    \/ ObserveGlobal(t) \/ EnterNotice(t) \/ ObserveClear(t) \/ Retire(t)
    \/ HandleAlert(t) \/ Suppress(t) \/ Forward(t) \/ IncidentRecovery(t)
    \/ ReadDigest(t) \/ CheckDedupe(t) \/ SendSummary(t) \/ MarkSent(t)
    \/ ClearSuppressed(t) \/ ThreadFail(t)

Next ==
    \/ \E t \in Threads : ThreadStep(t)
    \/ FlushRead \/ FlushSend \/ FlushDelete \/ FlushFail \/ PostDigest \/ PostLost
    \/ QuietHours \/ DedupeExpires \/ CrashRestart

Spec == Init /\ [][Next]_vars

-----------------------------------------------------------------------------
(* Properties.                                                             *)

\* Types; and the tracker's lock is held by a thread that is inside observe.
TypeOK ==
    /\ active \in BOOLEAN /\ quiet \in BOOLEAN
    /\ suppressed \in [Rows -> Alerts \cup {None}]
    /\ quietRows \in [Rows -> SUBSET Alerts]
    /\ told \subseteq Alerts /\ handedOver \subseteq Alerts
    /\ posting \subseteq Alerts /\ posted \subseteq Alerts
    /\ trackerLock \in Threads \cup {None}
    /\ clear \in 0 .. 2 /\ clearRuns \in 0 .. 2 /\ recent \in BOOLEAN
    /\ pc \in [Threads -> ThreadPc] /\ alert \in [Threads -> Alerts \cup {None}]
    /\ key \in [Threads -> Keys]
    /\ batch \in [Threads -> SUBSET Rows] /\ lines \in [Threads -> SUBSET Alerts]
    /\ flushPc \in {"idle", "send", "delete"} /\ flushBatch \subseteq Rows
    /\ trackerLock # None => pc[trackerLock] # "idle"

\* An active outage ends only after this process observed two results in a row
\* without a global fault, however the diagnosing threads interleave; a restart
\* starts the count again.  (A result from the cache is observed again: see
\* TwoRunsToRecover in LadderCache.)
RecoveryNeedsTwoClears ==
    [][active /\ ~active' => clearRuns >= 2]_vars

\* Between ending an outage and clearing its records the tracker lets no new
\* outage begin: its summary never leaves, and never takes records with it,
\* while an outage is active.
SummaryAfterRecovery ==
    \A t \in Threads :
       Recovering(t) /\ pc[t] \in {"check", "send", "mark", "clear"} => ~active

\* A row of a capped table was deleted because cap newer ones exist.
FellToCap(tNext, empty, k, cap) ==
    Cardinality({j \in Rows : j > k /\ tNext[j] # empty}) >= cap

\* What quiet hours deferred goes only once a digest that names it was handed
\* to the sending threads, or to the table's cap: neither a restart between
\* read, hand-over and delete, nor a failure of one of them, nor what is
\* deferred meanwhile takes a row along.  What the sending threads then do is
\* not covered: see LostDigestIsRetried.
DeferredIsHandedOver ==
    [][\A k \in Rows : quietRows[k] # {} /\ quietRows'[k] # quietRows[k]
          => quietRows[k] \subseteq handedOver \/ FellToCap(quietRows', {}, k, MaxQuietEvents)]_vars

\* "Keeping them until the summary has gone out means the next scheduler pass
\* retries instead" (linkmoth_notify.py:321-322): a digest that is lost leaves
\* its events in the table.  The code keeps them until the summary is on a
\* thread that swallows its errors, so this does not hold.
LostDigestIsRetried ==
    [][posting # {} /\ posting' = {} /\ ~(posting \subseteq posted')
          => posting \subseteq UNION {quietRows[k] : k \in Rows}]_vars

\* The record of a suppressed alert is deleted only once a summary naming it
\* was dispatched or deferred, or by the table's cap.
SuppressedUntilSummarised ==
    [][\A k \in Rows : suppressed[k] \in Alerts \ UpAlerts /\ suppressed'[k] # suppressed[k]
          => suppressed[k] \in told \/ FellToCap(suppressed', None, k, MaxSuppressedAlerts)]_vars
=============================================================================
