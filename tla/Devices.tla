------------------------------- MODULE Devices -------------------------------
(***************************************************************************)
(* LAN device monitoring (linkmoth_devices.py): the scheduler submits due  *)
(* checks to a pool of workers, HTTP threads run manual ones, and editors  *)
(* change, switch off and delete devices while checks are in flight.       *)
(*                                                                         *)
(* A check in flight holds one of a fixed number of slots and its device.  *)
(* A step is one section under _running_lock, one SQLite statement or      *)
(* transaction, one probe or one notification.  "degraded" and "down" are  *)
(* one state, both unhealthy; next_run is kept relative to the clock.      *)
(***************************************************************************)
EXTENDS Naturals, FiniteSets

CONSTANTS
    DeviceIds,      \* uuids, each used for one device only
    Monitors,       \* values of address, preset and settings
    Schedules,      \* device -> the <<enabled, has an interval>> it is given
    Workers,        \* threads of the executor
    Runners,        \* HTTP threads that run manual checks
    Editors,        \* HTTP threads that edit devices
    Slots,          \* MAX_CONCURRENT_CHECKS
    MayFail,        \* TRUE: the database may raise, the process may die
    None

ASSUME ConstantsAssumption ==
    /\ Slots \in Nat \ {0} /\ MayFail \in BOOLEAN
    /\ Workers \cap Runners = {}
    /\ Schedules \in [DeviceIds -> SUBSET (BOOLEAN \X BOOLEAN)]
    /\ None \notin DeviceIds

Threads == Workers \cup Runners

VARIABLES
    row,        \* table devices: id -> record, or None
    born,       \* ids used so far
    jobs,       \* devices submitted to the executor and not yet taken
    free,       \* _slots
    running,    \* _running
    pc, dev, result, update,    \* locals of a check
    base,       \* update_device, delete_device: what was read, or None
    lastEvent,  \* history: newest event since the device was last reset
    streak,     \* history: latest scheduled results of one kind, their number
    own,        \* history: those of them begun since the last reset
    fresh       \* history: no reset of the device since the check loaded it

checkVars   == <<pc, dev, result, update>>
historyVars == <<lastEvent, streak, own, fresh>>
vars == <<row, born, jobs, free, running, checkVars, base, historyVars>>

CheckPc == {"idle", "load", "probe", "select", "write", "notify", "end"}

\* A counter the code only compares with n is not followed beyond it.
UpTo(n, k) == IF k > n THEN n ELSE k

Exists(d) == row[d] # None
Enabled(d)   == Exists(d) /\ row[d].schedule[1]
Scheduled(d) == Exists(d) /\ row[d].schedule = <<TRUE, TRUE>>

Source(t) == IF t \in Workers THEN "scheduled" ELSE "manual"

\* Mutant of NextRun: whether the device is switched on is not asked.
NextRunAnyInterval(s) == IF s[2] THEN "later" ELSE "none"

\* next_run as create and update compute it.
NextRun(s) == IF s = <<TRUE, TRUE>> THEN "later" ELSE "none"

Goto(t, l) == pc' = [pc EXCEPT ![t] = l]

-----------------------------------------------------------------------------
(* The scheduler and the clock.                                            *)

\* Mutant of ProcessDue: a next_run beyond the device's interval is let be.
ProcessDueNoRebase ==
    LET due == {d \in DeviceIds : Scheduled(d) /\ row[d].next = "due"} IN
    /\ due # {}
    /\ row' = [d \in DeviceIds |-> IF d \in due THEN [row[d] EXCEPT !.next = "later"] ELSE row[d]]
    /\ jobs' = jobs \cup due
    /\ UNCHANGED <<born, free, running, checkVars, base, historyVars>>

\* process_due: pull back what is further out than its interval, then submit
\* what is due.  A device's job is taken long before its next one is due.
ProcessDue ==
    LET due == {d \in DeviceIds : Scheduled(d) /\ row[d].next = "due"}
        far == {d \in DeviceIds : Scheduled(d) /\ row[d].next = "far"}
    IN  /\ due \cup far # {}
        /\ row' = [d \in DeviceIds |->
              IF d \in due \cup far THEN [row[d] EXCEPT !.next = "later"] ELSE row[d]]
        /\ jobs' = jobs \cup due
        /\ UNCHANGED <<born, free, running, checkVars, base, historyVars>>

\* The interval passes.  After a step of the clock by months "far" stays far.
Tick(d) ==
    /\ Exists(d) /\ row[d].next = "later"
    /\ row' = [row EXCEPT ![d].next = "due"]
    /\ UNCHANGED <<born, jobs, free, running, checkVars, base, historyVars>>

\* The wall clock is corrected backwards.
ClockBack ==
    /\ \E d \in DeviceIds : Exists(d) /\ row[d].next \in {"later", "due"}
    /\ row' = [d \in DeviceIds |->
          IF Exists(d) /\ row[d].next # "none" THEN [row[d] EXCEPT !.next = "far"] ELSE row[d]]
    /\ UNCHANGED <<born, jobs, free, running, checkVars, base, historyVars>>

-----------------------------------------------------------------------------
(* run_device.                                                             *)

\* Mutant of BeginRun: a free slot is enough, also for a device being checked.
BeginRunTwice(t, d) ==
    IF free = 0
    THEN UNCHANGED <<free, running, pc, dev>>
    ELSE /\ free' = free - 1
         /\ running' = running \cup {d}
         /\ Goto(t, "load")
         /\ dev' = [dev EXCEPT ![t] = d]

\* _begin_run: DeviceBusy if the device is being checked or no slot is free;
\* a scheduled check is then dropped until its next turn.
BeginRun(t, d) ==
    IF d \in running \/ free = 0
    THEN UNCHANGED <<free, running, pc, dev>>
    ELSE /\ free' = free - 1
         /\ running' = running \cup {d}
         /\ Goto(t, "load")
         /\ dev' = [dev EXCEPT ![t] = d]

\* A worker takes a job, a dashboard user asks for a check, maybe of an id that
\* is of no device: the slot is taken before the device is looked up.
Run(t) ==
    /\ pc[t] = "idle"
    /\ \E d \in IF t \in Workers THEN jobs ELSE DeviceIds :
          /\ BeginRun(t, d)
          /\ jobs' = IF t \in Workers THEN jobs \ {d} ELSE jobs
    /\ UNCHANGED <<row, born, result, update, base, historyVars>>

\* get_device; a deleted or switched-off device ends the check.
Load(t) ==
    /\ pc[t] = "load"
    /\ IF Enabled(dev[t])
       THEN Goto(t, "probe") /\ fresh' = [fresh EXCEPT ![t] = TRUE]
       ELSE Goto(t, "end") /\ UNCHANGED fresh
    /\ UNCHANGED <<row, born, jobs, free, running, dev, result, update, base,
                   lastEvent, streak, own>>

\* execute_device
Probe(t) ==
    /\ pc[t] = "probe"
    /\ \E r \in {"up", "down", "error"} : result' = [result EXCEPT ![t] = r]
    /\ Goto(t, "select")
    /\ UNCHANGED <<row, born, jobs, free, running, dev, update, base, historyVars>>

Failed(r) == r \in {"down", "error"}

\* Mutant of Enough: one failure is.
EnoughAtOnce(r) == IF r = "up" THEN 2 ELSE IF r = "error" THEN 3 ELSE 1

\* Results of one kind in a row that flip a device; a probe error counts as a
\* failure but flips it only as the third.
Enough(r) == IF r = "error" THEN 3 ELSE 2

\* Mutant of Event: a fault is reported for every failure past the second.
EventEachTime(was, now, r) ==
    IF now = "down" /\ Failed(r) THEN "fault"
    ELSE IF now = "up" /\ was = "down" THEN "recovery" ELSE "none"

\* What a scheduled check that moves a device from was to now reports.
Event(was, now, r) ==
    IF now = "down" /\ was # "down" THEN "fault"
    ELSE IF now = "up" /\ was = "down" THEN "recovery" ELSE "none"

\* The new stable state, streaks and event; a manual check changes none.
Judge(source, was, r) ==
    LET ok  == IF Failed(r) THEN 0 ELSE UpTo(2, was.ok + 1)
        bad == IF Failed(r) THEN UpTo(3, was.bad + 1) ELSE 0
        now == IF ok + bad < Enough(r) THEN was.stable
               ELSE IF Failed(r) THEN "down" ELSE "up"
    IN  IF source = "manual"
        THEN [stable |-> was.stable, ok |-> was.ok, bad |-> was.bad, event |-> "none"]
        ELSE [stable |-> now, ok |-> ok, bad |-> bad, event |-> Event(was.stable, now, r)]

\* _record_result reads the streaks outside any transaction ...
Select(t) ==
    /\ pc[t] = "select"
    /\ IF Exists(dev[t])
       THEN /\ update' = [update EXCEPT ![t] = Judge(Source(t), row[dev[t]], result[t])]
            /\ Goto(t, "write")
       ELSE UNCHANGED update /\ Goto(t, "end")
    /\ UNCHANGED <<row, born, jobs, free, running, dev, result, base, historyVars>>

\* What the history notes of a scheduled result.
Noted(t) ==
    LET d    == dev[t]
        kind == IF Failed(result[t]) THEN "bad" ELSE "ok"
        same == streak[d].kind = kind
    IN  /\ streak' = [streak EXCEPT ![d] =
              [kind |-> kind, n |-> IF same THEN UpTo(3, @.n + 1) ELSE 1]]
        /\ own' = [own EXCEPT ![d] =
              IF same THEN (IF fresh[t] THEN UpTo(2, @ + 1) ELSE @)
              ELSE (IF fresh[t] THEN 1 ELSE 0)]

\* ... and writes them back, with the run, in one.
Write(t) ==
    /\ pc[t] = "write"
    /\ LET d == dev[t]  u == update[t] IN
       /\ row' = IF Exists(d)
                 THEN [row EXCEPT ![d] = [@ EXCEPT !.stable = u.stable, !.ok = u.ok, !.bad = u.bad]]
                 ELSE row
       /\ lastEvent' = [lastEvent EXCEPT ![d] = IF u.event = "none" THEN @ ELSE u.event]
       /\ IF Source(t) = "scheduled" THEN Noted(t) ELSE UNCHANGED <<streak, own>>
       /\ Goto(t, IF u.event = "none" THEN "end" ELSE "notify")
    /\ UNCHANGED <<born, jobs, free, running, dev, result, update, base, fresh>>

\* notify_device_event; what it raises is caught.
Notify(t) ==
    /\ pc[t] = "notify"
    /\ Goto(t, "end")
    /\ UNCHANGED <<row, born, jobs, free, running, dev, result, update, base, historyVars>>

Nothing == [stable |-> "unknown", ok |-> 0, bad |-> 0, event |-> "none"]

\* Mutant of EndRun: the slot stays taken.
EndRunKeepsSlot(t) ==
    /\ pc[t] = "end"
    /\ running' = running \ {dev[t]}
    /\ UNCHANGED free
    /\ Goto(t, "idle")
    /\ dev' = [dev EXCEPT ![t] = None]
    /\ result' = [result EXCEPT ![t] = "none"]
    /\ update' = [update EXCEPT ![t] = Nothing]
    /\ fresh' = [fresh EXCEPT ![t] = FALSE]
    /\ UNCHANGED <<row, born, jobs, base, lastEvent, streak, own>>

\* _end_run, in a finally.
EndRun(t) ==
    /\ pc[t] = "end"
    /\ running' = running \ {dev[t]}
    /\ free' = free + 1
    /\ Goto(t, "idle")
    /\ dev' = [dev EXCEPT ![t] = None]
    /\ result' = [result EXCEPT ![t] = "none"]
    /\ update' = [update EXCEPT ![t] = Nothing]
    /\ fresh' = [fresh EXCEPT ![t] = FALSE]
    /\ UNCHANGED <<row, born, jobs, base, lastEvent, streak, own>>

\* A database error anywhere in the check.
CheckFail(t) ==
    /\ MayFail
    /\ pc[t] \in {"load", "select", "write"}
    /\ Goto(t, "end")
    /\ UNCHANGED <<row, born, jobs, free, running, dev, result, update, base, historyVars>>

-----------------------------------------------------------------------------
(* The dashboard's edits.                                                  *)

NewRow(m, s) ==
    [monitor |-> m, schedule |-> s, next |-> NextRun(s),
     stable |-> "unknown", ok |-> 0, bad |-> 0]

Create(d) ==
    /\ d \notin born
    /\ born' = born \cup {d}
    /\ \E m \in Monitors, s \in Schedules[d] : row' = [row EXCEPT ![d] = NewRow(m, s)]
    /\ UNCHANGED <<jobs, free, running, checkVars, base, historyVars>>

\* update_device reads the device ...
EditRead(e, d) ==
    /\ base[e] = None
    /\ Exists(d)
    /\ base' = [base EXCEPT ![e] = [op |-> "edit", dev |-> d, monitor |-> row[d].monitor,
                                       schedule |-> row[d].schedule]]
    /\ UNCHANGED <<row, born, jobs, free, running, checkVars, historyVars>>

\* ... and writes every column; a changed monitor or schedule resets its state.
EditWrite(e) ==
    /\ base[e] # None /\ base[e].op = "edit"
    /\ LET b == base[e]  d == base[e].dev IN
       \E m \in Monitors, s \in Schedules[d] :
          LET reset == m # b.monitor \/ s # b.schedule IN
          IF ~Exists(d) THEN UNCHANGED <<row, historyVars>>
          ELSE /\ row' = [row EXCEPT ![d] =
                     IF reset THEN NewRow(m, s)
                     ELSE [@ EXCEPT !.monitor = m, !.schedule = s, !.next = NextRun(s)]]
               /\ lastEvent' = IF reset THEN [lastEvent EXCEPT ![d] = "none"] ELSE lastEvent
               /\ own' = IF reset THEN [own EXCEPT ![d] = 0] ELSE own
               /\ fresh' = [t \in Threads |-> fresh[t] /\ ~(reset /\ dev[t] = d)]
               /\ UNCHANGED streak
    /\ base' = [base EXCEPT ![e] = None]
    /\ UNCHANGED <<born, jobs, free, running, checkVars>>

\* delete_device looks whether the device is being checked ...
DeleteBegin(e, d) ==
    /\ base[e] = None
    /\ d \in born \ running
    /\ base' = [base EXCEPT ![e] = [op |-> "delete", dev |-> d]]
    /\ UNCHANGED <<row, born, jobs, free, running, checkVars, historyVars>>

\* ... and deletes it with its log; a check may have begun in between.
DeleteCommit(e) ==
    /\ base[e] # None /\ base[e].op = "delete"
    /\ row' = [row EXCEPT ![base[e].dev] = None]
    /\ base' = [base EXCEPT ![e] = None]
    /\ UNCHANGED <<born, jobs, free, running, checkVars, historyVars>>

-----------------------------------------------------------------------------
Init ==
    /\ row = [d \in DeviceIds |-> None]
    /\ born = {} /\ jobs = {} /\ running = {}
    /\ free = Slots
    /\ pc = [t \in Threads |-> "idle"]
    /\ dev = [t \in Threads |-> None]
    /\ result = [t \in Threads |-> "none"]
    /\ update = [t \in Threads |-> Nothing]
    /\ base = [e \in Editors |-> None]
    /\ lastEvent = [d \in DeviceIds |-> "none"]
    /\ streak = [d \in DeviceIds |-> [kind |-> "none", n |-> 0]]
    /\ own = [d \in DeviceIds |-> 0]
    /\ fresh = [t \in Threads |-> FALSE]

\* The process dies and starts again over the same table.
CrashRestart ==
    /\ MayFail
    /\ jobs' = {} /\ running' = {} /\ free' = Slots
    /\ pc' = [t \in Threads |-> "idle"]
    /\ dev' = [t \in Threads |-> None]
    /\ result' = [t \in Threads |-> "none"]
    /\ update' = [t \in Threads |-> Nothing]
    /\ base' = [e \in Editors |-> None]
    /\ fresh' = [t \in Threads |-> FALSE]
    /\ UNCHANGED <<row, born, lastEvent, streak, own>>

CheckStep(t) ==
    \/ Load(t) \/ Probe(t) \/ Select(t) \/ Write(t) \/ Notify(t) \/ EndRun(t)

EditStep ==
    \/ \E d \in DeviceIds : \/ Create(d)
                            \/ \E e \in Editors : EditRead(e, d) \/ DeleteBegin(e, d)
    \/ \E e \in Editors : EditWrite(e) \/ DeleteCommit(e)

Next ==
    \/ \E t \in Threads : Run(t) \/ CheckStep(t) \/ CheckFail(t)
    \/ EditStep
    \/ ProcessDue \/ ClockBack \/ \E d \in DeviceIds : Tick(d)
    \/ CrashRestart

Spec == Init /\ [][Next]_vars

\* The scheduler and the workers keep running and time passes; from some point
\* on nobody edits, the clock is right and the process stays up.
FairSpec ==
    /\ Spec
    /\ WF_vars(ProcessDue)
    /\ \A d \in DeviceIds : WF_vars(Tick(d))
    /\ \A t \in Threads : WF_vars(CheckStep(t))
    /\ \A t \in Workers : WF_vars(Run(t))
    /\ <>[][~EditStep /\ ~ClockBack /\ ~CrashRestart]_vars

-----------------------------------------------------------------------------
(* Properties.                                                             *)

Record == [monitor : Monitors, schedule : BOOLEAN \X BOOLEAN,
           next : {"none", "later", "due", "far"},
           stable : {"unknown", "up", "down"}, ok : 0 .. 2, bad : 0 .. 3]
Update == [stable : {"unknown", "up", "down"}, ok : 0 .. 2, bad : 0 .. 3,
           event : {"none", "fault", "recovery"}]
Edit   == [op : {"edit"}, dev : DeviceIds, monitor : Monitors, schedule : BOOLEAN \X BOOLEAN]
          \cup [op : {"delete"}, dev : DeviceIds]

\* Types; and a device that is scheduled has a next_run, no other one has.
TypeOK ==
    /\ row \in [DeviceIds -> Record \cup {None}]
    /\ born \subseteq DeviceIds /\ jobs \subseteq DeviceIds /\ running \subseteq DeviceIds
    /\ free \in 0 .. Slots
    /\ pc \in [Threads -> CheckPc] /\ dev \in [Threads -> DeviceIds \cup {None}]
    /\ result \in [Threads -> {"none", "up", "down", "error"}]
    /\ update \in [Threads -> Update] /\ base \in [Editors -> Edit \cup {None}]
    /\ lastEvent \in [DeviceIds -> {"none", "fault", "recovery"}]
    /\ streak \in [DeviceIds -> [kind : {"none", "ok", "bad"}, n : 0 .. 3]]
    /\ own \in [DeviceIds -> 0 .. 2] /\ fresh \in [Threads -> BOOLEAN]
    /\ \A d \in DeviceIds : Exists(d) => (Scheduled(d) <=> row[d].next # "none")

Checking == {t \in Threads : pc[t] # "idle"}

\* No slot is lost and none is handed out twice: the slots that are not free
\* are those of the checks in flight, at most one for a device, through
\* failures, deletes and dropped jobs.
SlotsAccounted ==
    /\ free + Cardinality(Checking) = Slots
    /\ running = {dev[t] : t \in Checking}
    /\ \A t, u \in Checking : dev[t] = dev[u] => t = u

\* Faults and recoveries of a device alternate from its creation or its latest
\* reset on: no fault is reported twice, no recovery without the device having
\* been down in between.
EventsAlternate ==
    [][\A t \in Threads : pc[t] = "write" /\ pc'[t] = "notify" =>
          lastEvent'[dev[t]] # lastEvent[dev[t]]]_vars

\* A fault takes two scheduled failures in a row, three if the last is a probe
\* error, and a recovery two scheduled successes, whatever manual checks ran in
\* between.
TwoInARow ==
    [][\A t \in Threads : pc[t] = "write" /\ pc'[t] = "notify" =>
          streak'[dev[t]].n >= IF result[t] = "error" THEN 3 ELSE 2]_vars

\* An alert that goes out is about the latest event of its device: checks of a
\* device never announce out of order, only an edit may have overtaken it.
AlertIsCurrent ==
    [][\A t \in Threads : pc[t] = "notify" /\ pc'[t] = "end" /\ fresh[t] =>
          lastEvent[dev[t]] = update[t].event]_vars

\* A device that is switched on with an interval is submitted to the workers
\* over and over, also after the clock was set back.
KeepsBeingChecked ==
    \A d \in DeviceIds : []<>(Scheduled(d) => d \in jobs)

\* A device is found faulty only after two scheduled failures in a row of what
\* it now monitors: checks begun before an edit reset it do not count.
FaultIsOfThisMonitor ==
    [][\A t \in Threads : pc[t] = "write" /\ pc'[t] = "notify" /\ update[t].event = "fault" =>
          own'[dev[t]] >= 2]_vars
=============================================================================
