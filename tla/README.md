# Linkmoth in TLA+

A verification project for Linkmoth, the home-network fault monitor: TLA+
modules of its stateful parts, TLC runs over small instances of them, and
theorems about them checked by the TLA+ proof system. The reference is the code
(`src/`), not its prose; where a comment, a document and the code disagree, the
model follows the code and the disagreement is listed under *Findings*.

`PROJECT.json` indexes everything here: the components, the runs with their
properties, the source lines each definition stands for (`map`), for every
property a mutation of the code that breaks it (`mutants`), the hazards, the
findings and the theorems.

## 1. Inventory of the system

Linkmoth is one Python process on a small box (systemd restarts it) over one
SQLite database. Threads share the database, a few in-memory flags and a handful
of locks. There is no message bus: components call each other, and hand each
other work through tables.

| component (file) | state | operations | module |
|---|---|---|---|
| incident engine (`linkmoth_engine.py`) | `incidents`, `incident_outage_segments`, `runs`; `Engine.lock`, `run_in_progress`, `loop_thread`; the locals of the recheck loop | trigger, recheck loop, close, false alarm, recheck, verify, manual and baseline diagnosis, resume after start, janitor | `Incidents`, `IncidentRecord` |
| incident and run store (`linkmoth_core.py`) | the same tables, schema, migrations | record a run with its outage segment, derive segments at start | `Incidents` |
| ladder singleflight and cache (`linkmoth_engine.py`) | `run_in_progress`, last result and its time, a condition | run or share a ladder run | `LadderCache`; `run_in_progress` also in `Incidents` and `RequestServer` |
| global outage tracker (`linkmoth_outage.py`) | `network_outage` row, count of clear runs, a lock | observe a ladder run, enter, touch, recover | `OutageAlerts` |
| inbound alert proxy (`linkmoth_kuma_proxy.py`) | `suppressed_alerts` | judge an alert: forward, or record for the digest | `OutageAlerts` |
| notifications (`linkmoth_notify.py`) | `quiet_hour_events`, dedupe times, in-app list | notify fault and recovery, defer in quiet hours, morning digest | `OutageAlerts` |
| outbound webhooks (`linkmoth_webhooks.py`) | `webhooks`, `webhook_queue` | emit, drain, retry, expire, cap, edit, delete | `WebhookQueue` |
| device manager (`linkmoth_devices.py`) | `devices`, `device_runs`; busy set, slots, executor queue | scheduler, check, hysteresis, create, edit, delete | `Devices` |
| fault ladder, verdict, quality probes (`linkmoth_probes.py`) | none between runs; the load test's counter, flags and stop event | climb the rungs, name the fault; load test | `Ladder`, `LoadTest` |
| authentication (`linkmoth_auth.py`) | `auth.json`; `auth_sessions`, `auth_totp_uses`, `auth_login_attempts`; verification slots | onboarding, login, second factor, enrolment and its end, recovery codes, password, console commands | `Authentication` |
| backup and restore (`linkmoth_backup.py`) | database, its sidecars and preserved copies, `settings.json`, archives | backup, restore with rollback | `Restore` |
| HTTPS server (`linkmoth_core.py`) | connection slots, worker threads, deadlines | accept, handshake, read headers, time out, shut down | `RequestServer` |
| HTTP handler (`linkmoth_handler.py`) | the single-flight sections | guard and serve some sixty routes | `RequestServer`; the sign-in routes in `Authentication`, the incident routes in `Incidents` |
| entry point (`linkmoth.py`) | baseline thread | start-up order, baseline samples, console commands | `Incidents`, `RequestServer`, `Restore`, `Authentication` |
| settings (`linkmoth_core.py`) | `settings.json` | validate, apply | last step of `Restore` |
| Discord, push | the messages in the threads' hands | render and send on threads | the digest's POST in `OutageAlerts` |
| dashboard, service worker, scripts | none the service depends on | presentation, installation | not modelled |

How they interact. A ladder run (any thread) is given to the outage tracker and,
if it belongs to an incident, stored with it. A fault found by the baseline
monitor, a manual diagnosis or an inbound alert calls `Engine.trigger`, which
opens an incident or joins the open one and starts the recheck loop. The loop,
the dashboard's close and the false-alarm mark race to resolve the incident. Each
transition emits webhook events through the queue, and the recovery asks the
alert components for one summary, which quiet hours may defer. The device manager
shares only the alert channels with the rest. The HTTPS server hands a connection
to one of its worker threads, which runs the handler's guards and then calls any of
the above. A restore works on the files of a stopped service.

What is hard here, and where `hazards` lists it line by line:

* *Interleaving.* HTTP workers, the loop, the baseline, the drain, the schedulers
  and the device pool run at once. Python's SQLite module opens a transaction at
  the first write, so "SELECT, decide, UPDATE" is two steps even inside one `with`
  block; the models split them wherever the code does not lock or re-check.
* *Stale state.* Row ids of `incidents`, `suppressed_alerts`, `quiet_hour_events`
  and `webhook_queue` are `INTEGER PRIMARY KEY` without `AUTOINCREMENT`: once the
  newest row is gone its id is given out again, and a thread that kept the id
  means another row.
* *Crashes.* The process restarts over the same tables, with the counters, the
  dedupe marks and the loop's memory gone.
* *Faults that look alike.* A rung fails when its own layer is broken and when any
  layer below it is, and the layers can change while the ladder climbs.
* *Partial failure.* A guarded database error, a probe or a send that raises must
  release `run_in_progress`, slots and locks.
* *Liveness.* An open incident must be watched; a scheduled device must be checked
  after clock steps.

What makes each component correct:

* *incident engine*: at most one open incident, one loop and one ladder; evidence
  in step with the incident; a resolved record is final; `fault_closed` once and
  not followed by fault events; every open incident is resolved in the end.
* *outage tracker, proxy, quiet hours*: an outage ends after two clear runs in a
  row; no summary during the outage; no suppressed alert lost, and no deferred one
  before a digest that names it is on its way.
* *webhooks*: every queued delivery is sent, or dropped for a stated reason; the
  cap holds and is fair; escalated faults wait and are cancelled by recovery
  (both but for a reused row id).
* *devices*: one check per device and no more than the slots; two results in a
  row flip a device; faults and recoveries alternate, in order; the schedule
  survives clock steps.
* *authentication*: one onboarding; a code counts once; a session under 2FA has shown
  a code of the secret in force; parallel tries are bounded; slots come back.
* *HTTPS server, handler*: no slot is lost or invented; every accepted connection is
  given up in the end.
* *restore*: the path holds one database, wherever the command dies; what was there
  is kept, as far as its checkpoint succeeded and its copy is not overwritten; all of
  the archive is installed or none of it.
* *load test*: the budget bounds the whole test, and only the loaded link is graded.
* *ladder*: the verdict names where the failure started, not a layer above it, unless a
  failed HTTPS probe misleads it.
* *ladder cache*: one ladder at a time; unforced calls share it; no answer past the TTL
  unless a forced diagnosis has the ladder; every flag comes back, whatever raises.

## 2. Modules

Every module keeps the code's control and reduces the data: a time is kept as the
one comparison the code makes with it, a text is dropped, a payload is a model
value. In every module a step is one SQLite statement or transaction, one section
under a lock, one read of shared state, one probe or one send.

### Incidents (`linkmoth_engine.py`, `linkmoth_core.py`, `linkmoth.py`)

State: the columns of `incidents` as functions of the row id (`state` stands for
`resolved IS NULL`), the number of running segments, the newest run and whether
the runs prove more than the segments (`evidence`); what webhooks were told; the
engine's three fields; the locals of a recheck loop, and of each request.

| action | code |
|---|---|
| `TriggerCheck`, `TriggerInsert` / `TriggerAttach`, `TriggerStart` | `Engine.trigger` under `Engine.lock`: look up, insert or attach, start a loop unless one is alive |
| `LoopStart` ... `LoopClosed` | `_loop`: first read, sleep, deadline, open check, ladder, store, judge, announce, recovery message, final transaction, `fault_closed` |
| `LoopFail`, `LoopFaultFail`, `LoopDie` | exceptions inside and outside the loop's guard |
| `CloseBegin/Commit`, `FalseAlarmBegin/Commit`, `EmitMarked`, `EmitClosed` | the dashboard's close and false alarm, their events after the commit |
| `RecheckBegin`, `VerifyBegin`, `ManualBegin`, `BaselineBegin`, `Diagnose...` | `diagnose_once` as each caller uses it, and what the caller does with the verdict |
| `JanitorSweep` | retention: runs of resolved incidents by their own age, resolved rows by that of their resolution |
| `CrashRestart` | the process dies; `init_db` migrates; `resume_after_startup` starts the loop of the open incident |

The janitor asks nobody whether a row is in use, and neither does `JanitorSweep`: it takes
any resolved row but a `Recent` one. A trigger, a loop, a close or a diagnosis got its
incident while that was open and is done with it minutes after its end, while the
retention is a day at least (`linkmoth_core.py:712`), so such rows are too young. A false
alarm is given a reference and may mean an incident of any age (`ByReference`): its row may
be gone, and its id another incident's, by the time it writes.

`IncidentRecord` is the abstract specification: what a reader of the table and a
webhook subscriber may rely on. `ImplementsRecord` states that `Incidents`
refines it: `INSTANCE IncidentRecord WITH` each of its variables the column of
`Incidents` it stands for.

### OutageAlerts (`linkmoth_outage.py`, `linkmoth_kuma_proxy.py`, `linkmoth_notify.py`)

State: whether an outage is active, the two capped tables as functions of the row
id, the tracker's lock and clear count, the dedupe window, quiet hours, and the
locals of the threads and of the quiet-hours scheduler. Actions: `ObserveGlobal`,
`EnterNotice`, `ObserveClear`, `Retire` (the tracker), `HandleAlert`, `Suppress`,
`Forward` (the proxy), `IncidentRecovery`, `ReadDigest`, `CheckDedupe`,
`SendSummary`, `MarkSent`, `ClearSuppressed` (the summary, called from three
places), `FlushRead/Send/Delete` (the morning digest up to the start of its threads),
`PostDigest` and `PostLost` (what those threads make of it, seen by nobody), failures,
clock, crash. A failure of the flush (`FlushFail`) keeps the rows, but one of its two
threads may be under way by then. A webhook that is switched off meanwhile is not modelled.
At least one notification channel is taken to be configured: `notify_recovery`
then sets its mark exactly when it sent or deferred.

### WebhookQueue (`linkmoth_webhooks.py`)

State: the queue as a function of the row id; each webhook's switch; what an
emitter read before it writes; the drain's batch. Waits and lifetimes count down
with `Tick`, so the clock itself is not a variable. Actions: `EmitRead`,
`EmitWrite` (insert, cancel held faults, trim to the cap, in one transaction),
`DrainStart`, `DrainDrop`, `Post`, `DrainRecord`, their failures, `Switch`,
`Delete`, `Create`, `Tick`, `CrashRestart`. `CapAssumption` is what the code's 500
rows and 20 webhooks satisfy: one pass of trimming then suffices.

### Devices (`linkmoth_devices.py`)

State: the table, the executor's jobs, `_running`, `_slots`, the locals of a check
and of an edit, and history (newest event, latest results in a row). Actions:
`ProcessDue`, `Tick`, `ClockBack` (scheduler and clock); `Run`, `Load`, `Probe`,
`Select`, `Write`, `Notify`, `EndRun`, `CheckFail` (`run_device` on a worker or
for a dashboard user); `Create`, `EditRead/EditWrite`, `DeleteBegin/DeleteCommit`;
`CrashRestart`. `next_run` is "none", "later", "due", or "far" (beyond the
interval, after the clock was set back).

### Authentication (`linkmoth_auth.py`, the `/api/auth` routes)

State: `auth.json` as one record (password set, onboarding token valid, the secret in
force, the pending one and whether it is fresh, the recovery codes left), the three
tables, the free verification slots, and of each request thread its route, its step in
it, its session and the value it read. `Route` gives each route as a list of steps; a
step is one section under `AuthManager._lock`, one SQL statement or one operation on
`AUTH_VERIFY_SLOTS`.

| action | code |
|---|---|
| `Arrive`, `AskLockout`, `TakeSlot` | session; lockout, then slot in login and setup, slot, then lockout in the other routes; what is refused ends here |
| `Verify` | the first comparison of each route: password, token, pending secret |
| `Fail`, `Finish`, `Record` | login, setup and the second factor record a failure while they hold the slot; a security route gives its slot back and records it in a step of its own |
| `Consume` | `_consume_totp`, `_consume_recovery_code` under the lock |
| `Save` | the file is replaced: `complete_onboarding`, `activate_totp` (each looks again), `set_password`, `disable_totp`, `regenerate_recovery_codes` |
| `ForgetUses`, `Wipe` | `DELETE FROM auth_totp_uses`, `destroy_all_sessions` |
| `ReadTotp`, `CreateSession`, `ReadSeal`, `StampSession` | what a login and a second factor do after the check |
| `BeginTotpSetup`, `ConsoleStart`, `SessionEnds`, `TimePasses`, `Restart` | enrolment begun, console commands, logout and expiry, lock and token lifetimes, a new process |

What a user types is chosen where it is compared. The history variables record what
was accepted (`accepted`, `again`), what a session has shown (`proved`) and whether
a saved change has yet to delete the sessions (`unwiped`).

### RequestServer (`BoundedTLSServer` in `linkmoth_core.py`, `linkmoth_handler.py`)

State: where each connection is, its age in ticks up to the deadline, its request
with the login its guard read; the free slots; the browser session's login; who is in
each single-flight section; whether the server is closing. Actions: `Accept`,
`AcceptRejected`, `Begin` (a worker takes it), `Handshaken`, `HeadersRead`,
`TimedOut`, `BodyRead`, `Guard`, `Serve`, `Enter` and `Finish` (a section: backup,
manual diagnosis, load test, VACUUM, ladder), `OtherEnters` and `OtherLeaves` (the
diagnosis thread, the baseline and recheck loops, the janitor), `Close`, `ThreadBack`,
`ServerTick`, `ServerClose`, `SessionEnds`. Routes that read or change the same kind of
thing behind the same guard are one route; `GetAllows`, `PostAllows`, `PutAllows` and
`DeleteAllows` are the guards of the four `do_` methods, in their order.

### Restore (`linkmoth_backup.py`)

State: the main file and its log as sets of records, the preserved copies, the settings,
the newest archive, whether the service runs and where the command is. Actions: `ServerStart`, `ServerWrite`, `ServerStop`, `BackupCreate`,
`ChangeSettings`; `Prepare`, `FoldLog`, `MoveAside`, `DropSidecars`, `Swap`,
`ApplySettings`, `RollbackDelete`, `RollbackPutBack`, each one file operation of
`restore_backup_archive`, which may fail where the code handles a failure; and
`RestoreDies` between any two. The checkpoint of `FoldLog` may fail on any database and
the failure is passed over, as in the code, which is also how an unreadable file is treated;
a file that is no database at all is refused before (`_ensure_db_not_in_use`).
`MoveAside` may overwrite the last preserved copy, whose name has the resolution of a
second, and `ApplySettings` merges what the archive carries into the current settings.

### LoadTest (`run_load_test` in `linkmoth_probes.py`)

The downloader (`Request`, `AskChunk`, `ChunkRead`, `ResponseOver`) and the sampler
(`ProbeBegin`, `ProbeEnd`, `AskDone`, `StopDownload`, `Grade`) share a byte counter and
two flags without a lock; `DeadlinePasses` at any time. Bytes are counted in chunks.

### Ladder (`run_ladder`, `verdict` in `linkmoth_probes.py`)

State: the broken parts of the network, the configuration, the next rung, what each
rung reported and the verdict. `Climb` probes one rung: `Results` is what it may report
of the network as it is, `GroupResult` how a group of targets is judged. `Judge` is
`verdict` as the ordered table `Verdicts`. `NetworkTurns` breaks or mends a part
between two rungs. `NamesTheOrigin` is stated against `Origins`, which is written
from the dependency of the layers and not from the table.

### LadderCache (`run_ladder_cached` and its callers in `linkmoth_engine.py`)

State: what each caller wants and where it is, the run it was answered with and whether
from the cache; the cached run and its age; `_ladder_inflight`, `run_in_progress`; the
tracker's outage and clear count. Actions: `Call`, `Wake` (both `Share`, the section under
the condition variable), `TakeLadder` (under `Engine.lock`), `Measure` (the ladder and the
store of its result, or an exception), `Reset` and `Leave` (the two `finally`), `Use` (what
`diagnose_once` and `evaluate_network_for_proxy` do with the answer) and `Tick`. What the
proxy finds in the table `runs` before it asks, and what is stored there, is left out.

`UpkeepMC` checks the last four in one run: they share nothing, and its initial state
says which of them a behaviour is about.

## 3. Runs, bounds, and what they show

| run | instance | result |
|---|---|---|
| `incidents_safety` | 2 rows, 2 requests, 1 code, faults, crashes | `OneOpenIncident`, `OneLoop`, `NoRaceInsideTrigger`, `OneLadder`, `EvidenceFollowsRuns`, `ClosedOnce` hold |
| `incidents_record` | 1 row, 2 requests, 2 codes, faults, crashes | `TypeOK`, `ResolvedIsFinal`, `ImplementsRecord` hold |
| `incidents_watched` | 1 row, 1 request, crashes, fairness | `WatchedIncidentResolves` holds |
| `incidents_orphan` | 2 rows, 1 request, fairness | `OpenIncidentResolves` is violated |
| `outage_alerts` | 1 service alert, 1 recovery alert, 2 threads, both caps 1, row ids to 2 | `TypeOK`, `SummaryAfterRecovery`, `RecoveryNeedsTwoClears`, `DeferredIsHandedOver` hold |
| `outage_alerts_digest` | 2 service alerts | `SuppressedUntilSummarised` is violated |
| `webhooks` | 2 webhooks (one escalated), 1 emitter, cap 2, row ids to 3, 2 attempts | `TypeOK`, `CapHolds`, `LostOnlyToReuse`, `CapSparesOthers`, `HeldUntilDue` hold |
| `devices` | 1 device and an unknown id, 2 workers, 1 dashboard thread, 1 editor, 2 slots, fairness | `TypeOK`, `SlotsAccounted`, `EventsAlternate`, `TwoInARow`, `AlertIsCurrent`, `KeepsBeingChecked` hold |
| `authentication` | 3 threads, 2 slots, 2 sessions, 2 secrets, 1 recovery code, 2 windows, 1 try, three mixes of routes | `OnboardedOnce`, `CodesAcceptedOnce`, `SecondFactorProven`, `TriesBounded`, `SlotsExact` hold |
| `requests` | 3 connections, 2 slots, deadline 1 tick, 2 threads of the server, fairness | `CapacityExact`, `AcceptedLeaves` hold |
| `upkeep` | restore: 2 records (1 secret), 2 preserved copies; load test: 2 addresses, 5 chunks, 4 samples; ladder: 2 targets per group, 7 configurations, 4 broken parts, 1 change; ladder cache: 3 callers, 2 ladders, TTL of 1 tick | `UpkeepTypeOK`, `NeverMixed`, `PreviousKept`, `LoadIsReal`, `NamesTheOrigin`, `LadderIsShared`, `AllOrNothing` hold |
| `restore_stale_log` | the same restore | `WalSafe` is violated |

Why the bounds are enough for what is asked. Every race of the engine the code
guards against is between two actors: two triggers, a trigger and a close, the
loop and a request; two requests beside the loop and the janitor give each pair,
and the second row gives "an incident opened while the last one's loop lives" and
the reuse of a pruned id. The tables of `OutageAlerts` and `WebhookQueue` are at
their caps within one or two rows, and one row id above the cap shows eviction
and reuse. Two webhooks are the fewest for which fairness of the cap means
anything. In `Devices` two workers make overlapping checks of one device possible
and the unknown id takes a slot as any request for a wrong id does; the failure
counter is cut at 3, beyond which the code no longer distinguishes. Every race of the
sign-in routes that changes the file is between two requests; a third, in the mix of the
short routes, meets the slots exhausted (`Slots = 2`) and the lockout that falls between
another's question and its record. The mixes leave out pairs of routes that touch nothing
of each other. Of the three connections in `requests` one asks for routes of every kind
with the credentials the guard wants or a little less, one keeps the sections busy, and
the third, outside the LAN, is what takes the last of two slots or is turned away. Three callers of the ladder cache are one
with the ladder, one in flight and one that waits. Two records make a log
that holds something its main file does not; two preserved copies, a restore after a
restore. Five chunks of budget over a buffer of two leave an odd rest. Four broken
parts let two redundant groups of two targets fail together, which reaches every row of
the verdict table and every pair of broken layers.

The bounds show where the runs are weakest, and where the theorems of section 5, which know
no bound on these numbers, add most: one emitter in `webhooks`; no
`Tick` between an emit's read and its commit (`MaxLag = 0`); in `devices` the
case "another device holds the last slot" coincides with "this device is busy".
`VIEW` and `SYMMETRY` are used for safety only; `IncidentsMC`, `OutageAlertsMC` and
`AuthenticationMC` say why what a view leaves out never decides a step.

Deadlock is checked in every run but three: in `requests` the server may be closed
with every connection cancelled, and in `upkeep` and `restore_stale_log` a load test is
over once graded.

Fairness. `incidents_*` liveness assumes that running threads keep running (weak
fairness of each thread's progress), that the loop gets the ladder and reaches its
deadline when it is offered them again and again (strong fairness: both are tried
at every recheck), and that from some point on the process does not crash. No
fairness is given to starting a request, to the janitor or to failures.
`WatchedIncidentResolves` is checked without database faults, for an error in the
final transaction ends the loop's thread for good (`LoopDie`), and the incident
then waits for the next trigger or restart. `devices` assumes that the scheduler
and the workers run and time passes, and that edits, clock corrections and crashes
cease; the property says nothing while they keep coming, as each postpones a check.
`requests` assumes that time passes (weak fairness of `ServerTick`), that each connection
is worked on if it can be again and again (strong fairness of `Handle`: a queued one gets
a worker of the pool, a waiting request its section), and that the server's own
threads leave their sections (weak fairness of `OtherLeaves`). Clients get no fairness: they may stall in the handshake, the
headers or the body, and it is the deadlines that make `AcceptedLeaves` true.

## 4. Findings

Three runs end in a violation; each one checks a sentence of a comment or document
that the code does not keep. `PROJECT.json` quotes the sentences.

1. `incidents_orphan`: a trigger that finds the *previous* incident's loop thread
   alive starts no loop for its own; the incident stays open until another trigger
   or a restart.
2. `outage_alerts_digest`: a recovery alert within the dedupe window clears alerts
   that no summary has named.
3. `restore_stale_log`: a restore whose checkpoint failed and that dies after moving the
   main file aside leaves its log; the next restore deletes sidecars only beside a main file, so the
   archive is installed beside the old log.

Deviations the models show and no run is spent on. Each is a property of its module, can
be put in a configuration as it is, and is violated there:

* `StrongestAttributionKept` (`linkmoth_engine.py:618`): after a restart the loop has
  forgotten the strongest attribution and a warning overwrites it.
* `NoFaultAfterClosed` (`linkmoth_engine.py:699`): a diagnosis in flight during a close
  announces a fault after `fault_closed`.
* `DeliveriesAccounted` (`linkmoth_webhooks.py:1067`): a delivery that was given the id
  of a deleted row is removed by the drain, unsent. `LostOnlyToReuse` shows that
  this is the only way.
* `HeldWhateverItsId` (`linkmoth_webhooks.py:1081-1085`): the drain's `UPDATE` goes by an id
  it read before the POST. If that row was deleted and an escalated fault was queued
  under its id, the fault gets one attempt and the back-off of a retry: it is posted before
  its delay, and a recovery no longer cancels it. `HeldUntilDue` excepts only such rows.
* `LostDigestIsRetried` (`linkmoth_notify.py:349`): "Keeping them until the summary has gone
  out means the next scheduler pass retries instead" (`linkmoth_notify.py:321-322`). The
  senders are detached threads that print their errors (`linkmoth_discord.py:461-469`,
  `551-557`); a POST that fails, or is cut off by a crash, loses the digest, whose rows are
  deleted. `DeferredIsHandedOver` therefore ends at the hand-over.
* `MarkedIsTheOneChosen` (`linkmoth_engine.py:341`): the janitor may prune the incident a
  false alarm has looked up by its reference; the mark goes by the id and hits the
  incident that was given it next.
* `FaultIsOfThisMonitor` (`linkmoth_devices.py:737`): a check in flight during an edit
  restores the streak the edit reset and makes a fault out of a failure of the old
  address.
* `AdapterDecidesNothing` (`linkmoth_probes.py:1222`): `ADVANCED.md:143-144` says that
  the adapter never changes the rung's result; in mode `auto` a generic resolver on
  this host that is dead turns the rung from failed to skipped.
* `WanDownIsTheWan` (`linkmoth_probes.py:1614`): `README.md:30-33` says that the verdict
  points at where the failure started. With direct DNS and pings blocked, an HTTPS probe
  that fails because the local resolver is broken makes it `wan_down`, though the
  internet is up. `NamesTheOrigin` excepts exactly this (`Misled`).
* `CopyIsComplete`, `RollbackIsExact` (`linkmoth_backup.py:261-268`): every error of the
  checkpoint is passed over, that of a full disk as well, and the log deleted after it. What
  only the log held is then neither in the preserved copy, which `ADVANCED.md:733-735`
  calls complete, nor in what a rollback puts back, the "exact previous database"
  (`linkmoth_backup.py:279`, and `ADVANCED.md:728`).
* `NothingOverwritten` (`linkmoth_backup.py:265`): "nothing is ever silently discarded"
  (`ADVANCED.md:735`), but a restore within the same second as the last one moves its copy
  over that one's.
* `TwoRunsToRecover` (`linkmoth_engine.py:372`): "call after every ladder run"
  (`linkmoth_outage.py:34`) and `RECOVERY_CLEAR_RUNS = 2`, but `diagnose_once` observes an
  answer from the cache as well, so one ladder seen by a forced caller and then by the
  baseline monitor ends an outage. `RecoveryNeedsTwoClears` counts observations, as the
  tracker does.

Smaller ones, met while modelling:

* an unforced diagnosis that finds a forced one inside the ladder is answered from the
  cache whatever its age, and the baseline monitor stores that as a run of now;
* the report letter says that a provider verdict requires all independent probes to
  fail (`linkmoth_probes.py:1555`), but incidents attributed to the provider include
  those with partial results; and a router that dies in mid-ladder is `wan_down`;
* "Local DNS resolver stopped answering – internet itself is fine" is also the verdict
  when ping and HTTPS fail too, as long as the upstream resolvers answer;
* a load test whose loaded pings were all lost reports that the transfer finished too
  quickly; its route's comment says "capped at 20s", but the join alone may take thirty;
* a crash between swap and settings leaves the archived database with the old settings;
* the guards of the routes are read in one step, with nothing interleaved, and no property
  is spent on them: it would repeat them. Setup, login, the second factor and logout need
  no CSRF token, `/metrics` takes a read-only token or the webhook secret, and
  `GET /api/webhooks/inbound-info` writes `auth.json` (`linkmoth_handler.py:1185`);
* `JanitorSweep` takes the runs of an incident to be as old as its resolution; one stored
  seconds later by a late diagnosis would survive a sweep in just those seconds;
* `apply_settings` takes no lock: of two saves at once one is lost, and two that are
  valid alone may be written jointly invalid.

## 5. Proofs

Every safety property that a passing run checks is also a theorem, for all values of the
constants that satisfy the assumptions of the module, which TLC evaluates in the runs:
`ConstantsAssumption` of `Incidents`, `OutageAlerts`, `WebhookQueue` and `Devices` (any
number of rows, requests, alerts, threads, webhooks, devices and slots, with faults and
crashes or without), `CapAssumption` and `NoneAssumption` of `WebhookQueue`,
`AuthAssumption`, `ServerAssumption` and `OfferAssumption`, `RestoreAssumption`,
`LoadAssumption`, `LadderAssumption` and `CacheAssumption`. They are types and ranges but
for three: `CapAssumption` says that one pass of trimming makes room, which 500 rows and 20
webhooks satisfy; `NoneAssumption` that `None` is no row; `LadderAssumption` that every
layer but the groups and the power sensors is one thing: there is one cable, one router,
one local resolver, where `run_ladder` probes one.

A property is seldom inductive, so each module has an inductive invariant that
strengthens it. Counting arguments need the least or the greatest of a set of row ids: they take
it from the well-foundedness of `<` on `Nat` (`LeastRow`, `LeastOf`, `GreatestOf`), which
needs no induction over a predicate.

**`IncidentsProofs`**: `TypeCorrect` (`TypeOK`) and `OneOpenIncidentAlways`
(`OneOpenIncident`), from `TypeInvariance`, the invariant `TypeInv`. Types alone are
not inductive, and neither is `OneOpenIncident`: `open_incident()` (`LatestOpen`) is
a row, and the right one, only while there is at most one; a request that goes on
with an incident must hold an id where it uses it (`RequestHoldsId`), a diagnosis
a verdict where it stores it, and a loop a fault where it announces it
(`DiagnosisHoldsVerdict`). `TypeInv` is the conjunction. Each action has a lemma
that it preserves `TypeInv`, with one step per conjunct; lemmas about the control
helpers (`Goto`, `Enter`, `LoopGoto`, ...) and about `RecordRun` carry what the
actions share.

In the same module `OneLoopAlways`, `OneLadderAlways` and `NoRaceInsideTriggerAlways`,
from `ControlInv`: the three properties and `LockInv`, which says that `Engine.lock` is
held by exactly the request inside `trigger()`. `NoRaceInsideTrigger` needs it, since a
row is only ever opened under the lock. Most steps touch neither the lock nor the ladder
nor a loop's life; two lemmas (`QuietRequestControl`, `QuietLoopControl`) deal with them,
and the others have a case each.

**`IncidentsRecordProofs`**: what is stored and announced, from `RecordInv`:

* `EvidenceFollowsRuns` and `ClosedOnce`, the properties;
* `HeldIsPresent`: a row some thread works on is there, but for the one a false alarm was
  given a reference to, which may be pruned or another incident's by then: an `UPDATE` of
  an absent row changes nothing, and of another one it is a mark like any other. Without
  it a run would be stored with a pruned row, and a new incident would inherit it. It
  rests on `Recent`, that is on the retention being longer than a request;
* `AbsentIsBlank`: a row id that is given out again brings nothing along;
* `OneCloser`: the thread about to emit an incident's `fault_closed` is the only
  one, the incident is resolved and the event is still to come. It is what makes
  `ClosedOnce` inductive: loop, close and false alarm each consult the row count
  of their own `UPDATE ... WHERE resolved IS NULL`;
* `OneAttribution`: up to its resolution verdict and diagnosis of an incident are
  one, which the refinement needs.

From it follow `EvidenceFollowsRunsAlways`, `ClosedOnceAlways`, and `Implements`:
`Spec => ImplementsRecord`. The refinement mapping is the identity on the columns
and on the count of `fault_closed`. Each step is matched: a trigger's insert with
`OpenNew`, a stored run or an attribution with `Observe`, every way of closing with
`Resolve` or `MarkFalseAlarm`, the event with `AnnounceClosed`, the janitor with
`Prune`, a restart with `Restart` of the resolved incidents whose late runs prove a
recovery; all others stutter. `ResolvedIsFinalAlways` is then derived from the
promise alone: no step of `IncidentRecord` reopens or rewrites a resolved incident.

**`AuthenticationProofs`**: every safety property of the sign-in, from `AuthInv`, with a
restart between any two steps:

* `TypeInv`: besides types, how far a thread is in its route, that a second factor has a
  session, and that a code is only compared with a secret (`got` at step 2);
* `OnboardInv`: as long as there is no password nobody was onboarded, which the second
  look of `complete_onboarding` preserves;
* `CodesInv`: an accepted code of the authenticator is at or below the counter stored
  for its secret, an accepted recovery code was printed and is no longer in the file;
* `FactorInv`: unless a change waits for its wipe, the three middle steps of a second
  factor whose session is still there are about the secret in force: the one loaded,
  the one proved, the one the session is about to be sealed with. A change of the secret
  sets `unwiped`, its wipe ends every session, and so all those upgrades are void;
* `CountInv`: slots and the requests that hold one (`Holders`) add up to `Slots` (`SlotSum`);
  and without a lock the tries are the failures counted, with one they and the requests
  still past the lockout (`Past`) are at most `MaxFailures - 1` and one for each request,
  since none is let past it during a lock. The slots are no bound here: login and setup
  ask for the lockout before they take one, and the security routes record their failure
  after they gave it back.

From it `OnboardedOnceAlways`, `CodesAcceptedOnceAlways`, `SecondFactorAlwaysProven`,
`TriesAlwaysBounded`, `SlotsAlwaysExact` and `AuthAlwaysTyped`.

**`RequestServerProofs`**: `CapacityAlwaysExact`, from `ServerInv`. `CapacityInv` counts the free slots and the threads against the cardinalities
of the sets of connections that hold one (`HasSlot`, `HasThread`), `SectionInv` that the
holder of a section is the request inside it or a thread of the server. `Account` is the arithmetic every step
of a connection shares, `Moves` and `Elsewhere` what it does to its own state and leaves
of the others'.

**`OutageAlertsProofs`**: `AlertsTypeCorrect`, `SummaryAfterRecoveryAlways`,
`RecoveryNeedsTwoClearsAlways` and `DeferredIsHandedOverAlways`, from `OutageInv`:

* `TrackerInv`: the tracker's lock is held from the start of a notice or a recovery to its
  end, a recovery holds it for two clear runs, and while its summary is under way no outage
  is active, so that no other thread can begin one. The tracker's own count is never
  ahead of the runs it saw;
* `FlushInv`: the digest in hand is of rows no newer than the newest one in the table. Ids
  are reused from the top only, so none of the digest's ids can be given to a row that it
  does not name; once it was handed to the sending threads, what its rows tell is among
  what was handed over;
* `CapInv`: the table is within its cap. `InsertFacts` and `NewestFacts` say what an insert
  keeps: a row that goes has the cap's worth of newer ones that stay.

**`WebhookQueueProofs`**: `QueueTypeCorrect`, `CapHoldsAlways`, `CapSparesOthersAlways`,
`HeldUntilDueAlways` and `LostOnlyToReuseAlways`, from `QueueInv`:

* `DelayInv`: a fault that counts no attempt yet lives longer than `MaxAge` by what it still
  waits at most, and the drain only read rows that are due. A row may count attempts that
  were not its own, those the drain wrote by a reused id; the first POST of a row that has its
  id to itself is the one of a row without attempts, which `HistoryInv` adds;
* `HistoryInv`: a row that has its id to itself (`Own`) fits whatever the threads hold about
  it: the drain's copy is of this row and at most out of date, the attempt about to be
  recorded was made, an emit about to cancel it is of its incident. Nothing is claimed of a
  row under an id that another thread still means an earlier row by; that is the deviation
  `DeliveriesAccounted` of section 4, and the proof shows that there is no other;
* `CapHolds` itself. Trimming takes the oldest rows of the deepest backlog, and the proof
  counts: the rows older than a given one (`Below`, `OldestFacts`), how many rows all
  webhooks have if none has more than m (`Backlogs`), that the chosen one has most
  (`NoisiestFacts`), and from these why with `CapAssumption` one pass is enough (`TrimFacts`).

**`DevicesProofs`**: `DevicesTypeCorrect`, `SlotsAccountedAlways`, `EventsAlternateAlways`,
`TwoInARowAlways` and `AlertIsCurrentAlways`, from `DeviceInv`. `SlotInv` is the account of
slots and `_running`; it makes a check the only one of its device, and with that `HistoryInv`
holds between the separate steps of a check:

* `DeviceFits`: the stored state fits what was last announced, and the stored streaks are
  never longer than what the scheduled checks found;
* `CheckFits`: what a check is about to write (`EventFits`, `StreakFits`) follows from what it
  read even if an edit reset the row meanwhile, since a reset leaves the history of
  results and has nothing announced; what it is about to announce is the latest event unless a reset overtook it.

**`UpkeepProofs`**: the four parts of `UpkeepMC`, each with an invariant of its own.
`UpkeepIsItsParts` says that a behaviour of the run is a behaviour of each part, so that
`UpkeepTypeCorrect` follows from the types of the four.

*The ladder.* `NamesTheOriginAlways` and `LadderTypeCorrect`, from `LadderInv`. `Reports`: as
long as nothing changed, each rung climbed holds a result it may report of the network as
it is; what a rung may report can depend on an earlier rung (the Wi-Fi's on the router's) and
is fixed from then on (`ResultsStand`). `Judged`: the verdict is the first branch that the
eight results fulfil. The rest is two readings: `NearRungs`, `BeyondRungs` and `ResolverRung`
say what a result says of the network, `FirstBranch` what a verdict says of the results.
`NamesOrigin` and `ClearMeansClear` put them together. There are two exceptions, both of
section 4, and the proof shows that there is no other: `Hidden`, where a rung reports
"skipped" of a resolver that is dead (`AdapterDecidesNothing`), and `Misled`, where direct DNS
and pings are broken and HTTPS failed for want of names (`WanDownIsTheWan`).

*The sharing of its result.* `LadderAlwaysShared`, from `SharingInv`: each flag has exactly one
caller behind it (`HeldByOne`), and a forced diagnosis neither waits nor clears the flag of
the unforced ones (`CallsOK`). Whoever finds the ladder busy is therefore the unforced
caller in flight, and the one inside is forced (`BusyMeansForced`). `CacheTypeCorrect` adds
`TallyInv`: an answer is a ladder that was run.

*The restore.* `NeverMixedAlways`, `PreviousKeptAlways`, `AllOrNothingAlways` and
`RestoreTypeCorrect`, from `RestoreInv`. None of the three properties is inductive, as
each speaks of what is at the path and not of how far the command has come:

* `RestoreTypeInv`: the service is never up during a restore, nor without a database; a
  restore under way has no outcome and has not touched the settings;
* `PathInv`: what is at the path at each step, and when the log is known to be empty:
  what the order fold, move, delete, rename is for. With the checkpoint failed
  (`unfolded`) main file and log are as they were;
* `KeptInv`: between restores the main file counts as a place of a previous database;
  from the move on only the preserved copies do, since a rollback deletes the main
  file. It is what lets a command that dies anywhere be followed by another. What is
  owed (`Owes`) is the main file alone if its log could not be folded in, and no longer
  what an overwritten copy held: the deviations `CopyIsComplete`, `RollbackIsExact` and
  `NothingOverwritten`.

The exception of `NeverMixed` (`Stray`) is carried through every lemma; it is the
finding `restore_stale_log`, and the proof shows that there is no other.

*The load test.* `LoadIsRealAlways` and `LoadTypeCorrect`, from `LoadInv` and
`LoadTypeInv`. `BudgetInv`: what the socket was asked for still fits, so no read can
overshoot. `SamplesInv`: the sampler's last look is never ahead of the counter and every
sample has a byte of its own. `IdleInv`: a probe that began after the transfer was over can
count once, for then the sampler has seen the last byte.

## 6. Only model-checked, and not modelled

Liveness (`WatchedIncidentResolves`, `KeepsBeingChecked`, `AcceptedLeaves`) is only
model-checked: it rests on fairness, which is outside the prover's reach. So is the
absence of deadlock, a statement about `ENABLED`; and the three violations of section 4
are counterexamples that TLC exhibits.

Not modelled: the packets of a probe and the sends, rendering, JSON, what the routes
answer, the dashboard, the shell scripts; the quality samples with their score and
findings, the micro-steps of the local resolver; segment durations and the monthly
report; the `device_runs` log and the displayed last result of a device; the
in-app notification list; test sends and the masking of webhook secrets; read-only
tokens beyond what they may read, the POSTs of all messages but the digest, the audit log; the zip format; the validation of each
setting. The notes of `components` say which operations of a modelled file are left out.
The console's read and write of `auth.json` count as one step, though nothing locks
the file against the service.

## 7. Plan

In order of importance.

1. Theorems about what no run checks: that `Incidents` and the queue, composed, deliver
   events in the order the promise of `IncidentRecord` gives; an abstract queue that
   `WebhookQueue` implements.
2. `Segments` (`linkmoth_core.py`): outage segments with durations, and the start-up
   derivation against the live one; the quiet-hours window and the webhook back-off
   as functions over bounded clocks.
3. Settings: `apply_settings` as read, merge and replace by two requests; the monthly
   digest's marker; the in-app notification list with reused ids.
4. Wider instances: three devices, and an `AlertFlow` module composing the engine's
   events with the queue.
