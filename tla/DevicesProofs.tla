----------------------------- MODULE DevicesProofs -----------------------------
(***************************************************************************)
(* Proofs about the device manager, for any number of devices, workers,    *)
(* dashboard threads, editors and slots: slots and _running are accounted  *)
(* for, and what a device reports alternates, takes two results in a row   *)
(* and is announced in order.                                              *)
(*                                                                         *)
(* A check reads a device's streaks, judges them and writes them back in   *)
(* separate steps, with edits and deletes in between; what makes this      *)
(* sound is that _running admits one check of a device at a time.          *)
(***************************************************************************)
EXTENDS Devices, FiniteSetTheorems, TLAPS

\* The slots, and a check in flight has a device.
SlotInv == SlotsAccounted /\ IsFiniteSet(Checking) /\ \A t \in Checking : dev[t] \in DeviceIds

\* The length of the run of scheduled results of kind k that d is in.
RunOf(d, k) == IF streak[d].kind = k THEN streak[d].n ELSE 0

Kind(t) == IF Failed(result[t]) THEN "bad" ELSE "ok"

\* A device last reported faulty is down, one last reported recovered is up;
\* after a reset a check that was in flight may leave it down unreported.
StableFits(d, stable) ==
    /\ lastEvent[d] = "fault" => stable = "down"
    /\ lastEvent[d] = "recovery" => stable = "up"

\* An id of no device yet has no row and no history.  The stored streaks of a
\* device are never longer than what its scheduled checks found.
DeviceFits(d) ==
    /\ d \notin born => ~Exists(d) /\ lastEvent[d] = "none"
    /\ Exists(d) => /\ StableFits(d, row[d].stable)
                    /\ row[d].ok <= RunOf(d, "ok") /\ row[d].bad <= RunOf(d, "bad")

\* What a check is about to store: another event than the last one, or a state
\* that needs none ...
EventFits(t) ==
    LET d == dev[t]  u == update[t] IN
    /\ u.event = "none" => StableFits(d, u.stable)
    /\ u.event # "none" => lastEvent[d] # u.event
    /\ u.event = "fault" => u.stable = "down"
    /\ u.event = "recovery" => u.stable = "up"

\* ... and streaks longer by its own result at most, with enough of them for
\* an event.
StreakFits(t) ==
    LET d == dev[t]  u == update[t] IN
    /\ Source(t) = "manual" =>
          u.event = "none" /\ u.ok <= RunOf(d, "ok") /\ u.bad <= RunOf(d, "bad")
    /\ Source(t) = "scheduled" =>
          /\ Kind(t) = "ok" => u.bad = 0 /\ u.ok <= RunOf(d, "ok") + 1
          /\ Kind(t) = "bad" => u.ok = 0 /\ u.bad <= RunOf(d, "bad") + 1
          /\ u.event # "none" => u.ok + u.bad >= Enough(result[t])

\* A check past loading is of a device that was created, and what it still has
\* to announce is the latest event unless a reset overtook it.
CheckFits(t) ==
    /\ pc[t] \in {"probe", "select", "write", "notify"} => dev[t] \in born
    /\ pc[t] \in {"select", "write"} => result[t] # "none"
    /\ pc[t] = "write" => EventFits(t) /\ StreakFits(t)
    /\ pc[t] = "notify" /\ fresh[t] => lastEvent[dev[t]] = update[t].event

HistoryInv ==
    /\ \A d \in DeviceIds : DeviceFits(d)
    /\ \A t \in Threads : CheckFits(t)
    /\ \A e \in Editors : base[e] # None => base[e].dev \in born

DeviceInv == TypeOK /\ SlotInv /\ HistoryInv

-----------------------------------------------------------------------------
(* Types.                                                                  *)

LEMMA NextRunType ==
    ASSUME NEW s \in BOOLEAN \X BOOLEAN
    PROVE  NextRun(s) \in {"none", "later"} /\ (NextRun(s) # "none" <=> s = <<TRUE, TRUE>>)
  BY DEF NextRun

LEMMA NewRowType ==
    ASSUME NEW m \in Monitors, NEW s \in BOOLEAN \X BOOLEAN
    PROVE  /\ NewRow(m, s) \in Record
           /\ NewRow(m, s).stable = "unknown" /\ NewRow(m, s).ok = 0 /\ NewRow(m, s).bad = 0
           /\ NewRow(m, s).schedule = s /\ NewRow(m, s).next = NextRun(s)
<1>1. NextRun(s) \in {"none", "later", "due", "far"}
  BY NextRunType
<1>2. QED
  BY <1>1 DEF NewRow, Record

LEMMA ScheduleType ==
    ASSUME NEW d \in DeviceIds, NEW s \in Schedules[d]
    PROVE  s \in BOOLEAN \X BOOLEAN
  BY ConstantsAssumption DEF ConstantsAssumption

\* What a check concludes: the shape, and what it has to do with the result.
LEMMA JudgeFacts ==
    ASSUME NEW source, NEW was \in Record, NEW r \in {"up", "down", "error"}
    PROVE  LET u == Judge(source, was, r) IN
           /\ u \in Update
           /\ source = "manual" =>
                 u.event = "none" /\ u.stable = was.stable /\ u.ok = was.ok /\ u.bad = was.bad
           /\ source # "manual" =>
                 /\ r = "up" => u.bad = 0 /\ u.ok <= was.ok + 1
                 /\ r # "up" => u.ok = 0 /\ u.bad <= was.bad + 1
                 /\ u.event = "none" => u.stable = was.stable \/ (u.stable = "up" /\ was.stable = "unknown")
                 /\ u.event # "none" => u.ok + u.bad >= Enough(r)
                 /\ u.event = "fault" => was.stable # "down" /\ u.stable = "down"
                 /\ u.event = "recovery" => was.stable = "down" /\ u.stable = "up"
<1> DEFINE ok  == IF Failed(r) THEN 0 ELSE UpTo(2, was.ok + 1)
           bad == IF Failed(r) THEN UpTo(3, was.bad + 1) ELSE 0
           now == IF ok + bad < Enough(r) THEN was.stable ELSE IF Failed(r) THEN "down" ELSE "up"
<1>1. was.ok \in 0 .. 2 /\ was.bad \in 0 .. 3 /\ was.stable \in {"unknown", "up", "down"}
  BY DEF Record
<1>2. CASE source = "manual"
  <2>1. Judge(source, was, r) = [stable |-> was.stable, ok |-> was.ok, bad |-> was.bad, event |-> "none"]
    BY <1>2 DEF Judge
  <2>2. QED
    BY <1>1, <1>2, <2>1 DEF Update
<1>3. CASE source # "manual"
  <2>1. Judge(source, was, r) = [stable |-> now, ok |-> ok, bad |-> bad, event |-> Event(was.stable, now, r)]
    BY <1>3 DEF Judge
  <2>2. /\ ok \in 0 .. 2 /\ bad \in 0 .. 3
        /\ r = "up" => bad = 0 /\ ok <= was.ok + 1
        /\ r # "up" => ok = 0 /\ bad <= was.bad + 1
    BY <1>1 DEF Failed, UpTo
  <2>3. Enough(r) \in {2, 3}
    BY DEF Enough
  <2> HIDE DEF ok, bad
  <2>4. now \in {"unknown", "up", "down"} /\ (now # was.stable => ok + bad >= Enough(r) /\ now # "unknown")
    BY <1>1, <2>2, <2>3
  <2> HIDE DEF now
  <2>5. /\ Event(was.stable, now, r) \in {"none", "fault", "recovery"}
        /\ Event(was.stable, now, r) = "none" => now = was.stable \/ (now = "up" /\ was.stable = "unknown")
        /\ Event(was.stable, now, r) = "fault" => was.stable # "down" /\ now = "down"
        /\ Event(was.stable, now, r) = "recovery" => was.stable = "down" /\ now = "up"
    BY <1>1, <2>4 DEF Event
  <2>6. Event(was.stable, now, r) # "none" => now # was.stable
    BY <2>5
  <2>7. QED
    BY <1>3, <2>1, <2>2, <2>4, <2>5, <2>6 DEF Update
<1>4. QED
  BY <1>2, <1>3
\* A row and its plan: a device that is scheduled has a next_run, no other has.
GoodRow(x) == x \in Record /\ (x.schedule = <<TRUE, TRUE>> <=> x.next # "none")

TableOK ==
    /\ row \in [DeviceIds -> Record \cup {None}]
    /\ \A d \in DeviceIds : Exists(d) => GoodRow(row[d])

\* The part of TypeOK that is not about the table.
RestOK ==
    /\ born \subseteq DeviceIds /\ jobs \subseteq DeviceIds /\ running \subseteq DeviceIds
    /\ free \in 0 .. Slots
    /\ pc \in [Threads -> CheckPc] /\ dev \in [Threads -> DeviceIds \cup {None}]
    /\ result \in [Threads -> {"none", "up", "down", "error"}]
    /\ update \in [Threads -> Update] /\ base \in [Editors -> Edit \cup {None}]
    /\ lastEvent \in [DeviceIds -> {"none", "fault", "recovery"}]
    /\ streak \in [DeviceIds -> [kind : {"none", "ok", "bad"}, n : 0 .. 3]]
    /\ own \in [DeviceIds -> 0 .. 2] /\ fresh \in [Threads -> BOOLEAN]

LEMMA TypeSplit == TypeOK <=> TableOK /\ RestOK
<1>1. ASSUME row \in [DeviceIds -> Record \cup {None}], NEW d \in DeviceIds, Exists(d)
      PROVE  GoodRow(row[d]) <=> (Scheduled(d) <=> row[d].next # "none")
  <2>1. row[d] \in Record
    BY <1>1 DEF Exists
  <2>2. Scheduled(d) <=> row[d].schedule = <<TRUE, TRUE>>
    BY <1>1 DEF Scheduled
  <2>3. QED
    BY <2>1, <2>2, Zenon DEF GoodRow
<1>2. CASE row \in [DeviceIds -> Record \cup {None}]
  <2>1. (\A d \in DeviceIds : Exists(d) => GoodRow(row[d]))
           <=> (\A d \in DeviceIds : Exists(d) => (Scheduled(d) <=> row[d].next # "none"))
    BY <1>1, <1>2, Zenon
  <2>2. QED
    BY <2>1, Zenon DEF TypeOK, TableOK, RestOK
<1>3. CASE ~(row \in [DeviceIds -> Record \cup {None}])
  BY <1>3, Zenon DEF TypeOK, TableOK
<1>4. QED
  BY <1>2, <1>3

\* A change of next_run that keeps a scheduled device scheduled.
LEMMA Replanned ==
    ASSUME NEW x, GoodRow(x), x.next # "none", NEW n \in {"later", "due", "far"}
    PROVE  GoodRow([x EXCEPT !.next = n])
  BY DEF GoodRow, Record

LEMMA NewRowGood ==
    ASSUME NEW m \in Monitors, NEW s \in BOOLEAN \X BOOLEAN
    PROVE  GoodRow(NewRow(m, s))
<1>1. NewRow(m, s) \in Record /\ NewRow(m, s).schedule = s /\ NewRow(m, s).next = NextRun(s)
  BY NewRowType
<1>2. NextRun(s) # "none" <=> s = <<TRUE, TRUE>>
  BY NextRunType
<1>3. QED
  BY <1>1, <1>2 DEF GoodRow

LEMMA Edited ==
    ASSUME NEW x, GoodRow(x), NEW m \in Monitors, NEW s \in BOOLEAN \X BOOLEAN
    PROVE  GoodRow([x EXCEPT !.monitor = m, !.schedule = s, !.next = NextRun(s)])
<1> DEFINE y == [x EXCEPT !.monitor = m, !.schedule = s, !.next = NextRun(s)]
<1>1. NextRun(s) \in {"none", "later", "due", "far"} /\ (NextRun(s) # "none" <=> s = <<TRUE, TRUE>>)
  BY NextRunType
<1>2. y \in Record /\ y.schedule = s /\ y.next = NextRun(s)
  BY <1>1 DEF GoodRow, Record
<1>3. QED
  BY <1>1, <1>2 DEF GoodRow

LEMMA Recorded ==
    ASSUME NEW x, GoodRow(x), NEW u \in Update
    PROVE  GoodRow([x EXCEPT !.stable = u.stable, !.ok = u.ok, !.bad = u.bad])
  BY DEF GoodRow, Record, Update

\* A table in which every row that changed is a good one, or gone, is good.
LEMMA TableChanges ==
    ASSUME TableOK, DOMAIN row' = DeviceIds, row' = [d \in DeviceIds |-> row'[d]],
           \A d \in DeviceIds : row'[d] = row[d] \/ row'[d] = None \/ GoodRow(row'[d])
    PROVE  TableOK'
<1>1. \A d \in DeviceIds : row'[d] \in Record \cup {None}
  BY DEF TableOK, GoodRow
<1>2. \A d \in DeviceIds : Exists(d)' => GoodRow(row[d])'
  BY DEF TableOK, GoodRow, Exists
<1>3. QED
  BY <1>1, <1>2 DEF TableOK

LEMMA InitTypes == Init => TypeOK
<1> SUFFICES ASSUME Init PROVE TableOK /\ RestOK
  BY TypeSplit
<1>1. TableOK
  BY DEF Init, TableOK, Exists
<1>2. RestOK
  BY ConstantsAssumption DEF Init, ConstantsAssumption, RestOK, CheckPc, Nothing, Update
<1>3. QED
  BY <1>1, <1>2

\* What every step may do to the table.
LEMMA TableStep ==
    ASSUME TypeOK, Next
    PROVE  TableOK'
<1> USE DEF TableOK
<1>1. TableOK /\ RestOK
  BY TypeSplit
<1>2. CASE row' = row
  BY <1>1, <1>2 DEF Exists
<1>3. CASE ProcessDue \/ ClockBack
  <2>1. ASSUME NEW d \in DeviceIds, row'[d] # row[d]
        PROVE  \E n \in {"later", "due", "far"} :
                  GoodRow(row[d]) /\ row[d].next # "none" /\ row'[d] = [row[d] EXCEPT !.next = n]
    BY <1>1, <1>3, <2>1 DEF ProcessDue, ClockBack, Scheduled, Exists
  <2>2. DOMAIN row' = DeviceIds /\ row' = [d \in DeviceIds |-> row'[d]]
    BY <1>3 DEF ProcessDue, ClockBack
  <2>3. ASSUME NEW d \in DeviceIds, row'[d] # row[d] PROVE GoodRow(row'[d])
    <3>1. PICK n \in {"later", "due", "far"} :
             GoodRow(row[d]) /\ row[d].next # "none" /\ row'[d] = [row[d] EXCEPT !.next = n]
      BY <2>1, <2>3
    <3>2. GoodRow([row[d] EXCEPT !.next = n])
      BY <3>1, Replanned
    <3>3. QED
      BY <3>1, <3>2
  <2>4. QED
    BY <1>1, <2>2, <2>3, TableChanges
<1>4. CASE \E d \in DeviceIds : Tick(d)
  <2>1. PICK d \in DeviceIds : Tick(d)
    BY <1>4
  <2>2. GoodRow([row[d] EXCEPT !.next = "due"])
    BY <1>1, <2>1, Replanned DEF Tick
  <2>3. row' = [row EXCEPT ![d] = [row[d] EXCEPT !.next = "due"]]
    BY <2>1 DEF Tick
  <2>4. QED
    BY <1>1, <2>2, <2>3, TableChanges
<1>5. CASE \E d \in DeviceIds : Create(d)
  <2>1. PICK d \in DeviceIds : Create(d)
    BY <1>5
  <2>2. PICK m \in Monitors, s \in Schedules[d] : row' = [row EXCEPT ![d] = NewRow(m, s)]
    BY <2>1 DEF Create
  <2>3. GoodRow(NewRow(m, s))
    BY ScheduleType, NewRowGood
  <2>4. QED
    BY <1>1, <2>2, <2>3, TableChanges
<1>6. CASE \E t \in Threads : Write(t)
  <2>1. PICK t \in Threads : Write(t)
    BY <1>6
  <2>2. CASE ~Exists(dev[t])
    BY <1>2, <2>1, <2>2 DEF Write
  <2>3. CASE Exists(dev[t])
    <3>1. update[t] \in Update
      BY <1>1 DEF RestOK
    <3>2. row' = [row EXCEPT ![dev[t]] =
             [row[dev[t]] EXCEPT !.stable = update[t].stable, !.ok = update[t].ok, !.bad = update[t].bad]]
      BY <2>1, <2>3 DEF Write
    <3>3. dev[t] \in DeviceIds => GoodRow([row[dev[t]] EXCEPT !.stable = update[t].stable, !.ok = update[t].ok, !.bad = update[t].bad])
      BY <1>1, <2>3, <3>1, Recorded
    <3>4. QED
      BY <1>1, <3>2, <3>3, TableChanges
  <2>4. QED
    BY <2>2, <2>3
<1>7. CASE \E e \in Editors : EditWrite(e)
  <2>1. PICK e \in Editors : EditWrite(e)
    BY <1>7
  <2>2. base[e].dev \in DeviceIds
    BY <1>1, <2>1 DEF EditWrite, RestOK, Edit
  <2>3. PICK m \in Monitors, s \in Schedules[base[e].dev] :
           \/ row' = row
           \/ row' = [row EXCEPT ![base[e].dev] = NewRow(m, s)]
           \/ /\ Exists(base[e].dev)
              /\ row' = [row EXCEPT ![base[e].dev] =
                    [row[base[e].dev] EXCEPT !.monitor = m, !.schedule = s, !.next = NextRun(s)]]
    BY <1>1, <2>1 DEF EditWrite
  <2>4. s \in BOOLEAN \X BOOLEAN
    BY <2>2, ScheduleType
  <2>5. /\ GoodRow(NewRow(m, s))
        /\ Exists(base[e].dev) => GoodRow([row[base[e].dev] EXCEPT !.monitor = m, !.schedule = s, !.next = NextRun(s)])
    BY <1>1, <2>2, <2>4, NewRowGood, Edited
  <2>6. QED
    BY <1>1, <1>2, <2>2, <2>3, <2>5, TableChanges
<1>8. CASE \E e \in Editors : DeleteCommit(e)
  <2>1. PICK e \in Editors : row' = [row EXCEPT ![base[e].dev] = None]
    BY <1>8 DEF DeleteCommit
  <2>2. QED
    BY <1>1, <2>1, TableChanges
<1>9. QED
  BY <1>2, <1>3, <1>4, <1>5, <1>6, <1>7, <1>8
     DEF Next, CheckStep, EditStep, Run, Load, Probe, Select, Notify, EndRun, CheckFail,
         EditRead, DeleteBegin, CrashRestart

\* A check in flight has one of the slots that are not free.
LEMMA TakenSlot ==
    ASSUME RestOK, SlotInv, NEW t \in Threads, pc[t] # "idle"
    PROVE  free < Slots
<1>1. t \in Checking /\ IsFiniteSet(Checking)
  BY DEF Checking, SlotInv
<1>2. Cardinality(Checking) \in Nat /\ Cardinality(Checking) # 0
  BY <1>1, FS_CardinalityType, FS_EmptySet
<1>3. Slots \in Nat /\ free \in Nat
  BY ConstantsAssumption DEF ConstantsAssumption, RestOK
<1>4. QED
  BY <1>2, <1>3 DEF SlotInv, SlotsAccounted

\* The history of a device's results.
LEMMA NotedFacts ==
    ASSUME RestOK, NEW t \in Threads, dev[t] \in DeviceIds, Noted(t)
    PROVE  /\ streak' \in [DeviceIds -> [kind : {"none", "ok", "bad"}, n : 0 .. 3]]
           /\ own' \in [DeviceIds -> 0 .. 2]
           /\ streak'[dev[t]].kind = Kind(t)
           /\ streak'[dev[t]].n = UpTo(3, RunOf(dev[t], Kind(t)) + 1)
           /\ \A d \in DeviceIds \ {dev[t]} : streak'[d] = streak[d]
<1> DEFINE d == dev[t]
           n == IF streak[d].kind = Kind(t) THEN UpTo(3, streak[d].n + 1) ELSE 1
<1>1. streak' = [streak EXCEPT ![d] = [kind |-> Kind(t), n |-> n]]
  BY DEF Noted, Kind
<1>2. Kind(t) \in {"ok", "bad"} /\ n \in 0 .. 3 /\ n = UpTo(3, RunOf(d, Kind(t)) + 1)
  BY DEF RestOK, Kind, UpTo, RunOf
<1> HIDE DEF n
<1>3. own' \in [DeviceIds -> 0 .. 2]
  BY DEF Noted, RestOK, UpTo
<1>4. QED
  BY <1>1, <1>2, <1>3 DEF RestOK

\* An edit that was read is of a device and says what it is.
LEMMA EditFacts ==
    ASSUME RestOK, NEW e \in Editors, base[e] # None
    PROVE  base[e].dev \in DeviceIds
  BY DEF RestOK, Edit

\* What an edit does to the history: with a reset the device begins anew, and
\* what is in flight for it is no longer of the device as it now is.
Resets(d, reset) ==
    /\ lastEvent' = IF reset THEN [lastEvent EXCEPT ![d] = "none"] ELSE lastEvent
    /\ own' = IF reset THEN [own EXCEPT ![d] = 0] ELSE own
    /\ fresh' = [t \in Threads |-> fresh[t] /\ ~(reset /\ dev[t] = d)]
    /\ streak' = streak

LEMMA ResetTypes ==
    ASSUME RestOK, NEW d, NEW reset \in BOOLEAN, Resets(d, reset)
    PROVE  /\ lastEvent' \in [DeviceIds -> {"none", "fault", "recovery"}]
           /\ own' \in [DeviceIds -> 0 .. 2] /\ fresh' \in [Threads -> BOOLEAN]
           /\ streak' = streak
<1>1. lastEvent' \in [DeviceIds -> {"none", "fault", "recovery"}] /\ own' \in [DeviceIds -> 0 .. 2]
  <2>1. /\ lastEvent' = [lastEvent EXCEPT ![d] = "none"] \/ lastEvent' = lastEvent
        /\ own' = [own EXCEPT ![d] = 0] \/ own' = own
    BY Zenon DEF Resets
  <2>2. QED
    BY <2>1 DEF RestOK
<1>2. \A t \in Threads : (fresh[t] /\ ~(reset /\ dev[t] = d)) \in BOOLEAN
  OBVIOUS
<1>3. fresh' \in [Threads -> BOOLEAN]
  BY <1>2 DEF Resets
<1>4. QED
  BY <1>1, <1>3 DEF Resets

\* All columns of a row are written; a reset makes it a new one.
Rewritten(d) ==
    /\ Exists(d)
    /\ \E reset \in BOOLEAN, m \in Monitors, s \in Schedules[d] :
          /\ Resets(d, reset)
          /\ row' = [row EXCEPT ![d] =
                IF reset THEN NewRow(m, s)
                ELSE [@ EXCEPT !.monitor = m, !.schedule = s, !.next = NextRun(s)]]

\* update_device leaves a deleted device alone, or writes its row.
LEMMA EditWritten ==
    ASSUME NEW e \in Editors, EditWrite(e), ~(row' = row /\ UNCHANGED historyVars)
    PROVE  Rewritten(base[e].dev)
<1>1. PICK m \in Monitors, s \in Schedules[base[e].dev] :
         LET b == base[e]
             d == base[e].dev
             reset == m # b.monitor \/ s # b.schedule IN
         IF ~Exists(d) THEN UNCHANGED <<row, historyVars>>
         ELSE /\ Resets(d, reset)
              /\ row' = [row EXCEPT ![d] =
                    IF reset THEN NewRow(m, s)
                    ELSE [@ EXCEPT !.monitor = m, !.schedule = s, !.next = NextRun(s)]]
  BY DEF EditWrite, Resets
<1>2. (m # base[e].monitor \/ s # base[e].schedule) \in BOOLEAN
  OBVIOUS
<1>3. QED
  BY <1>1, <1>2 DEF Rewritten

\* The rest of the types.
LEMMA RestStep ==
    ASSUME DeviceInv, Next
    PROVE  RestOK'
<1>1. TableOK /\ RestOK /\ SlotInv /\ \A t \in Threads : CheckFits(t)
  BY TypeSplit DEF DeviceInv, HistoryInv
<1> USE <1>1
<1>2. Slots \in Nat /\ Slots > 0 /\ Threads = Workers \cup Runners /\ Nothing \in Update
  BY ConstantsAssumption DEF ConstantsAssumption, Threads, Nothing, Update
<1>3. ASSUME NEW t \in Threads, Run(t) PROVE RestOK'
  <2>1. PICK d \in DeviceIds : BeginRun(t, d) /\ (jobs' = jobs \ {d} \/ jobs' = jobs)
    BY <1>3 DEF Run, RestOK
  <2>2. UNCHANGED <<born, result, update, base, historyVars>>
    BY <1>3 DEF Run
  <2>3. free' \in 0 .. Slots /\ running' \subseteq DeviceIds /\ jobs' \subseteq DeviceIds
    BY <1>2, <2>1 DEF BeginRun, RestOK
  <2>4. pc' \in [Threads -> CheckPc] /\ dev' \in [Threads -> DeviceIds \cup {None}]
    BY <2>1 DEF BeginRun, Goto, RestOK, CheckPc
  <2>5. QED
    BY <2>2, <2>3, <2>4 DEF RestOK, historyVars
<1>4. ASSUME NEW t \in Threads, Load(t) PROVE RestOK'
  <2>1. pc' \in [Threads -> CheckPc] /\ fresh' \in [Threads -> BOOLEAN]
    BY <1>4 DEF Load, Goto, RestOK, CheckPc
  <2>2. QED
    BY <1>4, <2>1 DEF Load, RestOK
<1>5. ASSUME NEW t \in Threads, Probe(t) PROVE RestOK'
  <2>1. pc' \in [Threads -> CheckPc] /\ result' \in [Threads -> {"none", "up", "down", "error"}]
    BY <1>5 DEF Probe, Goto, RestOK, CheckPc
  <2>2. QED
    BY <1>5, <2>1 DEF Probe, RestOK, historyVars
<1>6. ASSUME NEW t \in Threads, Select(t) PROVE RestOK'
  <2> result[t] # "none" /\ dev[t] \in DeviceIds
    BY <1>1, <1>6 DEF Select, SlotInv, Checking, CheckFits
  <2>1. pc' \in [Threads -> CheckPc]
    BY <1>6 DEF Select, Goto, RestOK, CheckPc
  <2>2. update' \in [Threads -> Update]
    <3>1. CASE Exists(dev[t])
      <4>1. row[dev[t]] \in Record /\ result[t] \in {"up", "down", "error"}
        BY <1>6, <3>1 DEF TableOK, RestOK, Exists
      <4>2. Judge(Source(t), row[dev[t]], result[t]) \in Update
        BY <4>1, JudgeFacts
      <4>3. QED
        BY <1>6, <3>1, <4>2 DEF Select, RestOK
    <3>2. CASE ~Exists(dev[t])
      BY <1>6, <3>2 DEF Select, RestOK
    <3>3. QED
      BY <3>1, <3>2
  <2>3. QED
    BY <1>6, <2>1, <2>2 DEF Select, RestOK, historyVars
<1>7. ASSUME NEW t \in Threads, Write(t) PROVE RestOK'
  <2> dev[t] \in DeviceIds
    BY <1>7 DEF Write, SlotInv, Checking
  <2>1. pc' \in [Threads -> CheckPc]
    BY <1>7 DEF Write, Goto, RestOK, CheckPc
  <2>2. lastEvent' \in [DeviceIds -> {"none", "fault", "recovery"}]
    BY <1>7 DEF Write, RestOK, Update
  <2>3. /\ streak' \in [DeviceIds -> [kind : {"none", "ok", "bad"}, n : 0 .. 3]]
        /\ own' \in [DeviceIds -> 0 .. 2]
    <3>1. CASE Noted(t)
      BY <3>1, NotedFacts
    <3>2. CASE UNCHANGED <<streak, own>>
      BY <3>2 DEF RestOK
    <3>3. QED
      BY <1>7, <3>1, <3>2 DEF Write
  <2>4. QED
    BY <1>7, <2>1, <2>2, <2>3 DEF Write, RestOK
<1>8. ASSUME NEW t \in Threads, Notify(t) \/ CheckFail(t) PROVE RestOK'
  <2>1. pc' \in [Threads -> CheckPc]
    BY <1>8 DEF Notify, CheckFail, Goto, RestOK, CheckPc
  <2>2. QED
    BY <1>8, <2>1 DEF Notify, CheckFail, RestOK, historyVars
<1>9. ASSUME NEW t \in Threads, EndRun(t) PROVE RestOK'
  <2> free' \in 0 .. Slots
    BY <1>2, <1>9, TakenSlot DEF EndRun, RestOK
  <2>1. pc' \in [Threads -> CheckPc] /\ dev' \in [Threads -> DeviceIds \cup {None}]
    BY <1>9 DEF EndRun, Goto, RestOK, CheckPc
  <2>2. /\ result' \in [Threads -> {"none", "up", "down", "error"}]
        /\ update' \in [Threads -> Update] /\ fresh' \in [Threads -> BOOLEAN]
    BY <1>2, <1>9 DEF EndRun, RestOK
  <2>3. QED
    BY <1>9, <2>1, <2>2 DEF EndRun, RestOK
<1>10. ASSUME ProcessDue \/ ClockBack \/ \E d \in DeviceIds : Tick(d) PROVE RestOK'
  <2>1. jobs' \subseteq DeviceIds
    BY <1>10 DEF ProcessDue, ClockBack, Tick, RestOK
  <2>2. QED
    BY <1>10, <2>1 DEF ProcessDue, ClockBack, Tick, RestOK, checkVars, historyVars
<1>11. ASSUME NEW d \in DeviceIds, Create(d) PROVE RestOK'
  BY <1>11 DEF Create, RestOK, checkVars, historyVars
<1>12. ASSUME NEW d \in DeviceIds, NEW e \in Editors, EditRead(e, d) \/ DeleteBegin(e, d) PROVE RestOK'
  <2>1. base' \in [Editors -> Edit \cup {None}]
    <3>1. CASE EditRead(e, d)
      <4>1. row[d] \in Record
        BY <3>1 DEF EditRead, Exists, TableOK
      <4>2. [op |-> "edit", dev |-> d, monitor |-> row[d].monitor, schedule |-> row[d].schedule] \in Edit
        BY <4>1 DEF Record, Edit
      <4>3. QED
        BY <3>1, <4>2 DEF EditRead, RestOK
    <3>2. CASE DeleteBegin(e, d)
      <4>1. [op |-> "delete", dev |-> d] \in Edit
        BY DEF Edit
      <4>2. QED
        BY <3>2, <4>1 DEF DeleteBegin, RestOK
    <3>3. QED
      BY <1>12, <3>1, <3>2
  <2>2. QED
    BY <1>12, <2>1 DEF EditRead, DeleteBegin, RestOK, checkVars, historyVars
<1>13. ASSUME NEW e \in Editors, EditWrite(e) PROVE RestOK'
  <2>1. /\ lastEvent' \in [DeviceIds -> {"none", "fault", "recovery"}]
        /\ own' \in [DeviceIds -> 0 .. 2] /\ fresh' \in [Threads -> BOOLEAN]
        /\ streak' = streak
    <3>1. CASE UNCHANGED historyVars
      BY <3>1 DEF RestOK, historyVars
    <3>2. CASE ~ UNCHANGED historyVars
      <4>1. PICK reset \in BOOLEAN : Resets(base[e].dev, reset)
        BY <1>13, <3>2, EditWritten DEF Rewritten
      <4>2. QED
        BY <4>1, ResetTypes
    <3>3. QED
      BY <3>1, <3>2
  <2>2. base' \in [Editors -> Edit \cup {None}]
    BY <1>13 DEF EditWrite, RestOK
  <2>3. QED
    BY <1>13, <2>1, <2>2 DEF EditWrite, RestOK, checkVars
<1>14. ASSUME NEW e \in Editors, DeleteCommit(e) PROVE RestOK'
  BY <1>14 DEF DeleteCommit, RestOK, checkVars, historyVars
<1>15. CASE CrashRestart
  BY <1>2, <1>15 DEF CrashRestart, RestOK, CheckPc
<1>16. QED
  BY <1>3, <1>4, <1>5, <1>6, <1>7, <1>8, <1>9, <1>10, <1>11, <1>12, <1>13, <1>14, <1>15
     DEF Next, CheckStep, EditStep

-----------------------------------------------------------------------------
(* Slots.                                                                  *)

\* Nothing is taken or given back.
LEMMA SlotsKept ==
    ASSUME SlotInv, UNCHANGED <<free, running, dev>>,
           \A t \in Threads : pc'[t] # "idle" <=> pc[t] # "idle"
    PROVE  SlotInv'
<1>1. Checking' = Checking
  BY DEF Checking
<1>2. QED
  BY <1>1 DEF SlotInv, SlotsAccounted

LEMMA RunSlots ==
    ASSUME RestOK, SlotInv, NEW t \in Threads, Run(t)
    PROVE  SlotInv'
<1>1. PICK d \in DeviceIds : BeginRun(t, d) /\ pc[t] = "idle"
  BY DEF Run, RestOK
<1>2. CASE d \in running \/ free = 0
  BY <1>1, <1>2, SlotsKept DEF BeginRun
<1>3. CASE ~(d \in running \/ free = 0)
  <2>1. /\ free' = free - 1 /\ running' = running \cup {d}
        /\ pc' = [pc EXCEPT ![t] = "load"] /\ dev' = [dev EXCEPT ![t] = d]
    BY <1>1, <1>3 DEF BeginRun, Goto
  <2>2. Checking' = Checking \cup {t} /\ t \notin Checking
    BY <1>1, <2>1 DEF Checking, RestOK
  <2>3. IsFiniteSet(Checking') /\ Cardinality(Checking') = Cardinality(Checking) + 1
    BY <2>2, FS_AddElement DEF SlotInv
  <2>4. Cardinality(Checking) \in Nat /\ free \in Nat /\ Slots \in Nat
    BY FS_CardinalityType, ConstantsAssumption DEF SlotInv, RestOK, ConstantsAssumption
  <2>5. dev'[t] = d /\ \A u \in Checking : dev'[u] = dev[u]
    BY <2>1, <2>2 DEF RestOK, Checking
  <2>6. running' = {dev'[u] : u \in Checking'}
    BY <2>1, <2>2, <2>5 DEF SlotInv, SlotsAccounted
  <2>7. \A u \in Checking : dev[u] # d
    BY <1>3 DEF SlotInv, SlotsAccounted
  <2>8. \A u, v \in Checking' : dev'[u] = dev'[v] => u = v
    BY <2>2, <2>5, <2>7 DEF SlotInv, SlotsAccounted
  <2>9. free' + Cardinality(Checking') = Slots
    BY <2>1, <2>3, <2>4 DEF SlotInv, SlotsAccounted
  <2>10. QED
    BY <2>2, <2>3, <2>5, <2>6, <2>8, <2>9 DEF SlotInv, SlotsAccounted
<1>4. QED
  BY <1>2, <1>3

LEMMA EndRunSlots ==
    ASSUME RestOK, SlotInv, NEW t \in Threads, EndRun(t)
    PROVE  SlotInv'
<1>1. /\ free' = free + 1 /\ running' = running \ {dev[t]} /\ pc[t] = "end"
      /\ pc' = [pc EXCEPT ![t] = "idle"] /\ dev' = [dev EXCEPT ![t] = None]
  BY DEF EndRun, Goto
<1>2. Checking' = Checking \ {t} /\ t \in Checking
  BY <1>1 DEF Checking, RestOK
<1>3. IsFiniteSet(Checking') /\ Cardinality(Checking') = Cardinality(Checking) - 1
  BY <1>2, FS_RemoveElement DEF SlotInv
<1>4. Cardinality(Checking) \in Nat /\ free \in Nat /\ Slots \in Nat
  BY FS_CardinalityType, ConstantsAssumption DEF SlotInv, RestOK, ConstantsAssumption
<1>5. \A u \in Checking' : dev'[u] = dev[u] /\ u \in Checking
  BY <1>1, <1>2 DEF RestOK, Checking
<1>6. \A u \in Checking' : dev[u] # dev[t]
  BY <1>2 DEF SlotInv, SlotsAccounted
<1>7. running' = {dev'[u] : u \in Checking'}
  BY <1>1, <1>2, <1>5, <1>6 DEF SlotInv, SlotsAccounted
<1>8. \A u, v \in Checking' : dev'[u] = dev'[v] => u = v
  BY <1>5 DEF SlotInv, SlotsAccounted
<1>9. free' + Cardinality(Checking') = Slots
  BY <1>1, <1>3, <1>4 DEF SlotInv, SlotsAccounted
<1>10. QED
  BY <1>3, <1>5, <1>7, <1>8, <1>9 DEF SlotInv, SlotsAccounted

LEMMA SlotStep ==
    ASSUME RestOK, SlotInv, Next
    PROVE  SlotInv'
<1>1. ASSUME NEW t \in Threads, Load(t) \/ Probe(t) \/ Select(t) \/ Write(t) \/ Notify(t) \/ CheckFail(t)
      PROVE  SlotInv'
  <2>1. UNCHANGED <<free, running, dev>>
    BY <1>1 DEF Load, Probe, Select, Write, Notify, CheckFail
  <2>2. pc[t] # "idle" /\ \E l \in CheckPc \ {"idle"} : pc' = [pc EXCEPT ![t] = l]
    BY <1>1 DEF Load, Probe, Select, Write, Notify, CheckFail, Goto, CheckPc
  <2>3. \A u \in Threads : pc'[u] # "idle" <=> pc[u] # "idle"
    BY <2>2 DEF RestOK
  <2>4. QED
    BY <2>1, <2>3, SlotsKept
<1>2. CASE EditStep \/ ProcessDue \/ ClockBack \/ \E d \in DeviceIds : Tick(d)
  <2>1. UNCHANGED <<free, running, dev, pc>>
    BY <1>2 DEF EditStep, Create, EditRead, EditWrite, DeleteBegin, DeleteCommit,
                ProcessDue, ClockBack, Tick, checkVars
  <2>2. QED
    BY <2>1, SlotsKept
<1>3. CASE CrashRestart
  <2>1. Checking' = {} /\ running' = {} /\ free' = Slots
    BY <1>3 DEF CrashRestart, Checking
  <2>2. IsFiniteSet(Checking') /\ Cardinality(Checking') = 0
    BY <2>1, FS_EmptySet
  <2>3. Slots + 0 = Slots
    BY ConstantsAssumption DEF ConstantsAssumption
  <2>4. QED
    BY <2>1, <2>2, <2>3 DEF SlotInv, SlotsAccounted
<1>4. QED
  BY <1>1, <1>2, <1>3, RunSlots, EndRunSlots DEF Next, CheckStep

-----------------------------------------------------------------------------
(* What checks conclude and devices report.                                *)

\* No two checks in flight are of one device.
LEMMA Alone ==
    ASSUME SlotInv, NEW t \in Threads, NEW u \in Threads, t # u, pc[t] # "idle", pc[u] # "idle"
    PROVE  dev[t] # dev[u]
  BY DEF SlotInv, SlotsAccounted, Checking

\* A device about which nothing is noted, and whose row keeps its state or goes.
LEMMA DeviceKept ==
    ASSUME NEW d \in DeviceIds, DeviceFits(d), born \subseteq born',
           lastEvent'[d] = lastEvent[d], streak'[d] = streak[d],
           Exists(d)' => /\ Exists(d)
                         /\ row'[d].stable = row[d].stable
                         /\ row'[d].ok = row[d].ok /\ row'[d].bad = row[d].bad
    PROVE  DeviceFits(d)'
<1>1. RunOf(d, "ok")' = RunOf(d, "ok") /\ RunOf(d, "bad")' = RunOf(d, "bad")
  BY DEF RunOf
<1>2. CASE Exists(d)'
  <2>1. StableFits(d, row[d].stable)'
    BY <1>2 DEF DeviceFits, StableFits
  <2>2. QED
    BY <1>1, <1>2, <2>1 DEF DeviceFits
<1>3. CASE ~Exists(d)'
  BY <1>3 DEF DeviceFits
<1>4. QED
  BY <1>2, <1>3

\* A check that does not move, nothing being noted of its device but maybe a
\* reset, which takes its freshness.
LEMMA CheckKept ==
    ASSUME NEW t \in Threads, CheckFits(t), born \subseteq born',
           pc'[t] = pc[t], dev'[t] = dev[t], result'[t] = result[t], update'[t] = update[t],
           pc[t] # "idle" => /\ streak'[dev[t]] = streak[dev[t]]
                             /\ \/ lastEvent'[dev[t]] = lastEvent[dev[t]] /\ (fresh'[t] => fresh[t])
                                \/ lastEvent'[dev[t]] = "none" /\ ~fresh'[t]
    PROVE  CheckFits(t)'
<1>1. CASE pc[t] = "write"
  <2>1. /\ RunOf(dev[t], "ok")' = RunOf(dev[t], "ok") /\ RunOf(dev[t], "bad")' = RunOf(dev[t], "bad")
        /\ Source(t)' = Source(t) /\ Kind(t)' = Kind(t)
    BY <1>1 DEF RunOf, Source, Kind
  <2>2. StreakFits(t)'
    BY <1>1, <2>1 DEF CheckFits, StreakFits
  <2>3. EventFits(t)'
    <3>1. lastEvent'[dev[t]] \in {lastEvent[dev[t]], "none"}
      BY <1>1
    <3>2. QED
      BY <1>1, <3>1 DEF CheckFits, EventFits, StableFits
  <2>4. QED
    BY <1>1, <2>2, <2>3 DEF CheckFits
<1>2. CASE pc[t] # "write"
  BY <1>2 DEF CheckFits
<1>3. QED
  BY <1>1, <1>2

\* Steps that move no check and note nothing of a device.
LEMMA QuietStep ==
    ASSUME HistoryInv, born \subseteq born', UNCHANGED <<checkVars, historyVars>>,
           \A d \in DeviceIds : Exists(d)' =>
              \/ /\ Exists(d)
                 /\ row'[d].stable = row[d].stable
                 /\ row'[d].ok = row[d].ok /\ row'[d].bad = row[d].bad
              \/ DeviceFits(d)',
           \A e \in Editors : base'[e] # None => base'[e].dev \in born'
    PROVE  HistoryInv'
<1>1. /\ pc' = pc /\ dev' = dev /\ result' = result /\ update' = update
      /\ lastEvent' = lastEvent /\ streak' = streak /\ fresh' = fresh
  BY DEF checkVars, historyVars
<1>2. ASSUME NEW t \in Threads PROVE CheckFits(t)'
  BY <1>1, CheckKept DEF HistoryInv
<1>3. ASSUME NEW d \in DeviceIds PROVE DeviceFits(d)'
  BY <1>1, DeviceKept DEF HistoryInv
<1>4. QED
  BY <1>2, <1>3 DEF HistoryInv

\* A check moves and notes nothing; the others do not.
LEMMA MoveStep ==
    ASSUME HistoryInv, NEW t \in Threads, UNCHANGED <<row, born, base, lastEvent, streak>>,
           \A u \in Threads \ {t} : /\ pc'[u] = pc[u] /\ dev'[u] = dev[u] /\ result'[u] = result[u]
                                    /\ update'[u] = update[u] /\ fresh'[u] = fresh[u],
           CheckFits(t)'
    PROVE  HistoryInv'
<1>1. ASSUME NEW u \in Threads PROVE CheckFits(u)'
  BY CheckKept DEF HistoryInv
<1>2. ASSUME NEW d \in DeviceIds PROVE DeviceFits(d)'
  BY DeviceKept DEF HistoryInv, Exists
<1>3. QED
  BY <1>1, <1>2 DEF HistoryInv

\* A check moves to its next place, before it writes or having nothing to say.
LEMMA BriefSteps ==
    ASSUME DeviceInv, NEW t \in Threads,
           Run(t) \/ Load(t) \/ Probe(t) \/ Notify(t) \/ CheckFail(t) \/ EndRun(t)
    PROVE  HistoryInv'
<1>1. RestOK /\ SlotInv /\ HistoryInv
  BY TypeSplit DEF DeviceInv
<1>2. UNCHANGED <<row, born, base, lastEvent, streak>>
  BY DEF Run, Load, Probe, Notify, CheckFail, EndRun, historyVars
<1>3. \A u \in Threads \ {t} : /\ pc'[u] = pc[u] /\ dev'[u] = dev[u] /\ result'[u] = result[u]
                               /\ update'[u] = update[u] /\ fresh'[u] = fresh[u]
  BY <1>1 DEF Run, BeginRun, Load, Probe, Notify, CheckFail, EndRun, Goto, RestOK, historyVars
<1>4. CheckFits(t)'
  <2>1. CASE Run(t)
    <3>1. pc'[t] \in {"idle", "load"}
      BY <1>1, <2>1 DEF Run, BeginRun, Goto, RestOK
    <3>2. QED
      BY <3>1 DEF CheckFits
  <2>2. CASE Load(t)
    <3>1. pc'[t] = "probe" => Enabled(dev[t])
      BY <1>1, <2>2 DEF Load, Goto, RestOK
    <3>2. pc'[t] \in {"probe", "end"} /\ dev'[t] = dev[t] /\ dev[t] \in DeviceIds
      BY <1>1, <2>2 DEF Load, Goto, RestOK, SlotInv, Checking
    <3>3. pc'[t] = "probe" => dev[t] \in born
      BY <1>1, <3>1, <3>2 DEF Enabled, HistoryInv, DeviceFits
    <3>4. QED
      BY <1>2, <3>2, <3>3 DEF CheckFits
  <2>3. CASE Probe(t)
    <3>1. pc'[t] = "select" /\ dev'[t] = dev[t] /\ result'[t] # "none" /\ dev[t] \in born
      BY <1>1, <2>3 DEF Probe, Goto, RestOK, HistoryInv, CheckFits
    <3>2. QED
      BY <1>2, <3>1 DEF CheckFits
  <2>4. CASE Notify(t) \/ CheckFail(t) \/ EndRun(t)
    <3>1. pc'[t] \in {"idle", "end"}
      BY <1>1, <2>4 DEF Notify, CheckFail, EndRun, Goto, RestOK
    <3>2. QED
      BY <3>1 DEF CheckFits
  <2>5. QED
    BY <2>1, <2>2, <2>3, <2>4
<1>5. QED
  BY <1>1, <1>2, <1>3, <1>4, MoveStep

\* What a check judges fits the device as it reads it.
LEMMA SelectStep ==
    ASSUME DeviceInv, NEW t \in Threads, Select(t)
    PROVE  HistoryInv'
<1>1. TableOK /\ RestOK /\ SlotInv /\ HistoryInv
  BY TypeSplit DEF DeviceInv
<1>2. UNCHANGED <<row, born, base, lastEvent, streak, dev, result, fresh>> /\ pc[t] = "select"
  BY DEF Select, historyVars
<1>3. \A u \in Threads \ {t} : pc'[u] = pc[u] /\ update'[u] = update[u]
  BY <1>1 DEF Select, Goto, RestOK
<1>4. CheckFits(t)'
  <2>1. CASE ~Exists(dev[t])
    <3>1. pc'[t] = "end"
      BY <1>1, <2>1 DEF Select, Goto, RestOK
    <3>2. QED
      BY <3>1 DEF CheckFits
  <2>2. CASE Exists(dev[t])
    <3> DEFINE d == dev[t]  was == row[dev[t]]  r == result[t]
    <3>1. /\ pc'[t] = "write" /\ update'[t] = Judge(Source(t), was, r)
          /\ d \in DeviceIds /\ d \in born /\ r \in {"up", "down", "error"} /\ DeviceFits(d)
      BY <1>1, <1>2, <2>2 DEF Select, Goto, RestOK, SlotInv, Checking, HistoryInv, CheckFits
    <3>2. was \in Record /\ was.ok \in 0 .. 2 /\ was.bad \in 0 .. 3
          /\ lastEvent[d] \in {"none", "fault", "recovery"}
      BY <1>1, <2>2, <3>1 DEF TableOK, RestOK, Exists, Record
    <3>3. StableFits(d, was.stable) /\ was.ok <= RunOf(d, "ok") /\ was.bad <= RunOf(d, "bad")
      BY <2>2, <3>1 DEF DeviceFits
    <3>4. Source(t) \in {"manual", "scheduled"} /\ (Source(t) = "manual" <=> Source(t) # "scheduled")
      BY DEF Source
    <3>5. RunOf(d, "ok") \in Nat /\ RunOf(d, "bad") \in Nat
      BY <1>1, <3>1 DEF RunOf, RestOK
    <3>6. Kind(t) = (IF r = "up" THEN "ok" ELSE "bad")
      BY <3>1 DEF Kind, Failed
    <3>7. update'[t] \in Update /\ update'[t].ok \in 0 .. 2 /\ update'[t].bad \in 0 .. 3
      BY <3>1, <3>2, JudgeFacts DEF Update
    <3>8. EventFits(t)'
      <4>1. /\ update'[t].event = "none" =>
                 update'[t].stable = was.stable \/ (update'[t].stable = "up" /\ was.stable = "unknown")
            /\ update'[t].event = "fault" => was.stable # "down" /\ update'[t].stable = "down"
            /\ update'[t].event = "recovery" => was.stable = "down" /\ update'[t].stable = "up"
            /\ update'[t].event \in {"none", "fault", "recovery"}
        BY <3>1, <3>2, <3>7, JudgeFacts DEF Update
      <4>2. QED
        BY <1>2, <3>2, <3>3, <4>1 DEF EventFits, StableFits
    <3>9. StreakFits(t)'
      <4>1. CASE Source(t) = "manual"
        <5>1. update'[t].event = "none" /\ update'[t].ok = was.ok /\ update'[t].bad = was.bad
          BY <3>1, <3>2, <4>1, JudgeFacts
        <5>2. QED
          BY <1>2, <3>3, <4>1, <5>1 DEF StreakFits, Source, RunOf
      <4>2. CASE Source(t) = "scheduled"
        <5>1. /\ r = "up" => update'[t].bad = 0 /\ update'[t].ok <= was.ok + 1
              /\ r # "up" => update'[t].ok = 0 /\ update'[t].bad <= was.bad + 1
              /\ update'[t].event # "none" => update'[t].ok + update'[t].bad >= Enough(r)
          BY <3>1, <3>2, <4>2, JudgeFacts
        <5>2. /\ r = "up" => update'[t].ok <= RunOf(d, "ok") + 1
              /\ r # "up" => update'[t].bad <= RunOf(d, "bad") + 1
          BY <3>2, <3>3, <3>5, <3>7, <5>1
        <5>3. /\ Source(t)' = "scheduled" /\ Kind(t)' = Kind(t) /\ result'[t] = r /\ dev'[t] = d
              /\ RunOf(dev[t], "ok")' = RunOf(d, "ok") /\ RunOf(dev[t], "bad")' = RunOf(d, "bad")
          BY <1>2, <4>2 DEF Source, Kind, RunOf
        <5>4. QED
          BY <3>6, <5>1, <5>2, <5>3 DEF StreakFits
      <4>3. QED
        BY <3>4, <4>1, <4>2
    <3>10. QED
      BY <1>2, <3>1, <3>8, <3>9 DEF CheckFits
  <2>3. QED
    BY <2>1, <2>2
<1>5. QED
  BY <1>1, <1>2, <1>3, <1>4, MoveStep

\* The check of a device stores its result: nobody else is checking it.
LEMMA WriteStep ==
    ASSUME DeviceInv, NEW t \in Threads, Write(t)
    PROVE  HistoryInv'
<1>1. TableOK /\ RestOK /\ SlotInv /\ HistoryInv
  BY TypeSplit DEF DeviceInv
<1> DEFINE d == dev[t]  u == update[t]
<1>2. /\ UNCHANGED <<born, base, dev, result, update, fresh>> /\ pc[t] = "write"
      /\ pc' = [pc EXCEPT ![t] = IF u.event = "none" THEN "end" ELSE "notify"]
      /\ lastEvent' = [lastEvent EXCEPT ![d] = IF u.event = "none" THEN @ ELSE u.event]
  BY DEF Write, Goto
<1>3. d \in DeviceIds /\ CheckFits(t) /\ DeviceFits(d) /\ u \in Update /\ d \in born
  BY <1>1, <1>2 DEF SlotInv, Checking, HistoryInv, CheckFits, RestOK
<1>4. EventFits(t) /\ StreakFits(t) /\ result[t] \in {"up", "down", "error"}
  BY <1>1, <1>2, <1>3 DEF CheckFits, RestOK
<1>5. \A c \in DeviceIds \ {d} : row'[c] = row[c] /\ lastEvent'[c] = lastEvent[c] /\ streak'[c] = streak[c]
  <2>1. \A c \in DeviceIds \ {d} : row'[c] = row[c]
    BY <1>1 DEF Write, TableOK
  <2>2. \A c \in DeviceIds \ {d} : lastEvent'[c] = lastEvent[c]
    BY <1>1, <1>2 DEF RestOK
  <2>3. \A c \in DeviceIds \ {d} : streak'[c] = streak[c]
    <3>1. CASE Noted(t)
      BY <1>1, <1>3, <3>1, NotedFacts
    <3>2. CASE streak' = streak
      BY <3>2
    <3>3. QED
      BY <3>1, <3>2 DEF Write
  <2>4. QED
    BY <2>1, <2>2, <2>3
<1>6. ASSUME NEW v \in Threads, v # t PROVE CheckFits(v)'
  <2>1. /\ pc'[v] = pc[v] /\ dev'[v] = dev[v] /\ result'[v] = result[v]
        /\ update'[v] = update[v] /\ fresh'[v] = fresh[v]
    BY <1>1, <1>2, <1>6 DEF RestOK
  <2>2. CASE pc[v] # "idle"
    <3>1. dev[v] \in DeviceIds \ {d}
      BY <1>1, <1>2, <1>6, <2>2, Alone DEF SlotInv, Checking
    <3>2. QED
      BY <1>1, <1>2, <1>5, <2>1, <3>1, CheckKept DEF HistoryInv
  <2>3. CASE pc[v] = "idle"
    BY <1>1, <1>2, <2>1, <2>3, CheckKept DEF HistoryInv
  <2>4. QED
    BY <2>2, <2>3
<1>7. CheckFits(t)'
  <2>1. pc'[t] \in {"end", "notify"} /\ (pc'[t] = "notify" => u.event # "none")
    BY <1>1, <1>2 DEF RestOK
  <2>2. u.event # "none" => lastEvent'[d] = u.event
    BY <1>1, <1>2, <1>3 DEF RestOK
  <2>3. QED
    BY <1>2, <1>3, <2>1, <2>2 DEF CheckFits
<1>8. DeviceFits(d)'
  <2>1. CASE ~Exists(d)
    <3>1. ~Exists(d)'
      BY <1>2, <2>1 DEF Write, Exists
    <3>2. QED
      BY <1>2, <1>3, <3>1 DEF DeviceFits
  <2>2. CASE Exists(d)
    <3>1. row'[d].stable = u.stable /\ row'[d].ok = u.ok /\ row'[d].bad = u.bad
      <4>1. row' = [row EXCEPT ![d] = [row[d] EXCEPT !.stable = u.stable, !.ok = u.ok, !.bad = u.bad]]
        BY <2>2 DEF Write
      <4>2. row[d] \in Record
        BY <1>1, <1>3, <2>2 DEF TableOK, Exists
      <4>3. row'[d] = [row[d] EXCEPT !.stable = u.stable, !.ok = u.ok, !.bad = u.bad]
        BY <1>1, <1>3, <4>1 DEF TableOK
      <4>4. QED
        BY <4>2, <4>3 DEF Record
    <3>2. StableFits(d, row[d].stable)'
      <4>1. CASE u.event = "none"
        BY <1>1, <1>2, <1>3, <1>4, <3>1, <4>1 DEF EventFits, StableFits, RestOK
      <4>2. CASE u.event # "none"
        <5>1. lastEvent'[d] = u.event
          BY <1>1, <1>2, <1>3, <4>2 DEF RestOK
        <5>2. QED
          BY <1>2, <1>4, <3>1, <4>2, <5>1 DEF EventFits, StableFits
      <4>3. QED
        BY <4>1, <4>2
    <3>3. /\ u.ok \in 0 .. 2 /\ u.bad \in 0 .. 3
          /\ RunOf(d, "ok") \in Nat /\ RunOf(d, "bad") \in Nat
      BY <1>1, <1>3 DEF Update, RunOf, RestOK
    <3>4. u.ok <= RunOf(d, "ok")' /\ u.bad <= RunOf(d, "bad")'
      <4>1. CASE Source(t) = "manual"
        <5>1. streak' = streak
          BY <4>1 DEF Write
        <5>2. RunOf(d, "ok")' = RunOf(d, "ok") /\ RunOf(d, "bad")' = RunOf(d, "bad")
          BY <1>2, <5>1 DEF RunOf
        <5>3. QED
          BY <1>4, <4>1, <5>2 DEF StreakFits
      <4>2. CASE Source(t) = "scheduled"
        <5>1. streak'[d].kind = Kind(t) /\ streak'[d].n = UpTo(3, RunOf(d, Kind(t)) + 1)
          BY <1>1, <1>3, <4>2, NotedFacts DEF Write
        <5>2. CASE Kind(t) = "ok"
          <6>1. u.bad = 0 /\ u.ok <= RunOf(d, "ok") + 1
            BY <1>4, <4>2, <5>2 DEF StreakFits
          <6>2. RunOf(d, "ok")' = UpTo(3, RunOf(d, "ok") + 1) /\ RunOf(d, "bad")' = 0
            BY <1>2, <5>1, <5>2 DEF RunOf
          <6>3. QED
            BY <3>3, <6>1, <6>2 DEF UpTo
        <5>3. CASE Kind(t) = "bad"
          <6>1. u.ok = 0 /\ u.bad <= RunOf(d, "bad") + 1
            BY <1>4, <4>2, <5>3 DEF StreakFits
          <6>2. RunOf(d, "bad")' = UpTo(3, RunOf(d, "bad") + 1) /\ RunOf(d, "ok")' = 0
            BY <1>2, <5>1, <5>3 DEF RunOf
          <6>3. QED
            BY <3>3, <6>1, <6>2 DEF UpTo
        <5>4. QED
          BY <5>2, <5>3 DEF Kind
      <4>3. QED
        BY <4>1, <4>2 DEF Source
    <3>5. QED
      BY <1>2, <1>3, <3>1, <3>2, <3>4 DEF DeviceFits
  <2>3. QED
    BY <2>1, <2>2
<1>9. ASSUME NEW c \in DeviceIds, c # d PROVE DeviceFits(c)'
  BY <1>1, <1>2, <1>5, <1>9, DeviceKept DEF HistoryInv, Exists
<1>10. QED
  BY <1>1, <1>2, <1>6, <1>7, <1>8, <1>9 DEF HistoryInv

\* A device that is new, or as good as new.
LEMMA NewDevice ==
    ASSUME RestOK, NEW d \in DeviceIds, d \in born', streak' = streak, lastEvent'[d] = "none",
           NEW m \in Monitors, NEW s \in Schedules[d], row'[d] = NewRow(m, s)
    PROVE  DeviceFits(d)'
<1>1. row'[d].stable = "unknown" /\ row'[d].ok = 0 /\ row'[d].bad = 0
  BY NewRowType, ScheduleType
<1>2. RunOf(d, "ok")' >= 0 /\ RunOf(d, "bad")' >= 0
  BY DEF RunOf, RestOK
<1>3. QED
  BY <1>1, <1>2 DEF DeviceFits, StableFits

\* An edit that resets a device leaves a check in flight without its freshness.
LEMMA EditHistory ==
    ASSUME DeviceInv, NEW e \in Editors, EditWrite(e)
    PROVE  HistoryInv'
<1>1. TableOK /\ RestOK /\ SlotInv /\ HistoryInv
  BY TypeSplit DEF DeviceInv
<1>2. UNCHANGED <<born, pc, dev, result, update>> /\ \A f \in Editors : base'[f] \in {base[f], None}
  BY <1>1 DEF EditWrite, checkVars, RestOK
<1>3. CASE row' = row /\ UNCHANGED historyVars
  BY <1>1, <1>2, <1>3, QuietStep DEF HistoryInv, Exists, checkVars
<1>4. CASE ~(row' = row /\ UNCHANGED historyVars)
  <2>1. PICK d \in DeviceIds : d = base[e].dev /\ d \in born
    BY <1>1, EditFacts DEF EditWrite, HistoryInv
  <2> Rewritten(d)
    BY <1>4, <2>1, EditWritten
  <2>2. PICK reset \in BOOLEAN, m \in Monitors, s \in Schedules[d] :
           /\ Exists(d) /\ Resets(d, reset)
           /\ row' = [row EXCEPT ![d] =
                 IF reset THEN NewRow(m, s)
                 ELSE [@ EXCEPT !.monitor = m, !.schedule = s, !.next = NextRun(s)]]
    BY DEF Rewritten
  <2>3. streak' = streak /\ \A c \in DeviceIds \ {d} : row'[c] = row[c] /\ lastEvent'[c] = lastEvent[c]
    BY <1>1, <2>2 DEF Resets, TableOK, RestOK
  <2>4. \A c \in DeviceIds \ {d} : DeviceFits(c)'
    BY <1>1, <1>2, <2>3, DeviceKept DEF HistoryInv, Exists
  <2>5. CASE reset
    <3>1. row'[d] = NewRow(m, s) /\ lastEvent'[d] = "none"
      BY <1>1, <2>1, <2>2, <2>5 DEF Resets, TableOK, RestOK
    <3>2. DeviceFits(d)'
      BY <1>1, <1>2, <2>1, <2>3, <3>1, NewDevice
    <3>3. ASSUME NEW t \in Threads PROVE CheckFits(t)'
      <4>1. fresh'[t] => fresh[t] /\ dev[t] # d
        BY <2>2, <2>5 DEF Resets
      <4>2. pc[t] # "idle" => dev[t] \in DeviceIds
        BY <1>1 DEF SlotInv, Checking
      <4>3. QED
        BY <1>1, <1>2, <2>3, <3>1, <4>1, <4>2, CheckKept DEF HistoryInv
    <3>4. QED
      BY <1>1, <1>2, <2>4, <3>2, <3>3 DEF HistoryInv
  <2>6. CASE ~reset
    <3>1. row'[d] = [row[d] EXCEPT !.monitor = m, !.schedule = s, !.next = NextRun(s)] /\ lastEvent' = lastEvent
      BY <1>1, <2>1, <2>2, <2>6 DEF Resets, TableOK
    <3>2. row[d] \in Record
      BY <1>1, <2>1, <2>2 DEF TableOK, Exists
    <3>3. row'[d].stable = row[d].stable /\ row'[d].ok = row[d].ok /\ row'[d].bad = row[d].bad
      BY <3>1, <3>2 DEF Record
    <3>4. DeviceFits(d)'
      BY <1>1, <1>2, <2>1, <2>2, <2>3, <3>1, <3>3, DeviceKept DEF HistoryInv
    <3>5. ASSUME NEW t \in Threads PROVE CheckFits(t)'
      <4>1. fresh'[t] => fresh[t]
        BY <2>2 DEF Resets
      <4>2. QED
        BY <1>1, <1>2, <2>3, <3>1, <4>1, CheckKept DEF HistoryInv
    <3>6. QED
      BY <1>1, <1>2, <2>4, <3>4, <3>5 DEF HistoryInv
  <2>7. QED
    BY <2>5, <2>6
<1>5. QED
  BY <1>3, <1>4

\* Every step preserves what holds of devices and checks.
LEMMA HistoryStep ==
    ASSUME DeviceInv, Next
    PROVE  HistoryInv'
<1>1. TableOK /\ RestOK /\ SlotInv /\ HistoryInv
  BY TypeSplit DEF DeviceInv
<1>2. CASE ProcessDue \/ ClockBack \/ \E d \in DeviceIds : Tick(d)
  <2>1. UNCHANGED <<born, checkVars, base, historyVars>>
    BY <1>2 DEF ProcessDue, ClockBack, Tick
  <2>2. ASSUME NEW d \in DeviceIds, Exists(d)'
        PROVE  /\ Exists(d) /\ row'[d].stable = row[d].stable
               /\ row'[d].ok = row[d].ok /\ row'[d].bad = row[d].bad
    <3>1. \/ row'[d] = row[d]
          \/ Exists(d) /\ \E n \in {"later", "due", "far"} : row'[d] = [row[d] EXCEPT !.next = n]
      BY <1>1, <1>2, <2>2 DEF ProcessDue, ClockBack, Tick, TableOK, Scheduled
    <3>2. Exists(d) => row[d] \in Record
      BY <1>1 DEF TableOK, Exists
    <3>3. QED
      BY <2>2, <3>1, <3>2 DEF Record, Exists
  <2>3. QED
    BY <1>1, <2>1, <2>2, QuietStep DEF HistoryInv
<1>3. ASSUME NEW d \in DeviceIds, Create(d) PROVE HistoryInv'
  <2>1. /\ UNCHANGED <<checkVars, base, historyVars>> /\ d \notin born /\ born' = born \cup {d}
    BY <1>3 DEF Create
  <2>2. PICK m \in Monitors, s \in Schedules[d] : row' = [row EXCEPT ![d] = NewRow(m, s)]
    BY <1>3 DEF Create
  <2>3. row'[d] = NewRow(m, s) /\ \A c \in DeviceIds \ {d} : row'[c] = row[c]
    BY <1>1, <2>2 DEF TableOK
  <2>4. lastEvent'[d] = "none" /\ streak' = streak
    BY <1>1, <2>1 DEF historyVars, HistoryInv, DeviceFits
  <2>5. DeviceFits(d)'
    BY <1>1, <2>1, <2>3, <2>4, NewDevice
  <2>6. QED
    BY <1>1, <2>1, <2>3, <2>5, QuietStep DEF HistoryInv, Exists
<1>4. ASSUME NEW d \in DeviceIds, NEW e \in Editors, EditRead(e, d) \/ DeleteBegin(e, d) PROVE HistoryInv'
  <2>1. UNCHANGED <<row, born, checkVars, historyVars>> /\ d \in born
    BY <1>1, <1>4 DEF EditRead, DeleteBegin, HistoryInv, DeviceFits
  <2>2. \A f \in Editors : base'[f] # None => base'[f].dev \in born
    BY <1>1, <1>4, <2>1 DEF EditRead, DeleteBegin, HistoryInv, RestOK
  <2>3. QED
    BY <1>1, <2>1, <2>2, QuietStep DEF Exists
<1>5. ASSUME NEW e \in Editors, DeleteCommit(e) PROVE HistoryInv'
  <2>1. UNCHANGED <<born, checkVars, historyVars>> /\ \A f \in Editors : base'[f] \in {base[f], None}
    BY <1>1, <1>5 DEF DeleteCommit, RestOK
  <2>2. \A d \in DeviceIds : row'[d] \in {row[d], None}
    BY <1>1, <1>5 DEF DeleteCommit, TableOK
  <2>3. QED
    BY <1>1, <2>1, <2>2, QuietStep DEF HistoryInv, Exists
<1>6. CASE CrashRestart
  <2>1. UNCHANGED <<row, born, lastEvent, streak>> /\ \A t \in Threads : pc'[t] = "idle"
    BY <1>6 DEF CrashRestart
  <2>2. \A t \in Threads : CheckFits(t)'
    BY <2>1 DEF CheckFits
  <2>3. \A d \in DeviceIds : DeviceFits(d)'
    BY <1>1, <2>1, DeviceKept DEF HistoryInv, Exists
  <2>4. \A e \in Editors : base'[e] = None
    BY <1>6 DEF CrashRestart
  <2>5. QED
    BY <2>2, <2>3, <2>4 DEF HistoryInv
<1>7. QED
  BY <1>2, <1>3, <1>4, <1>5, <1>6, BriefSteps, SelectStep, WriteStep, EditHistory
     DEF Next, CheckStep, EditStep

-----------------------------------------------------------------------------
(* Theorems.                                                               *)

LEMMA InitDevices == Init => DeviceInv
<1> SUFFICES ASSUME Init PROVE DeviceInv
  OBVIOUS
<1>1. Checking = {}
  BY DEF Init, Checking
<1>2. IsFiniteSet(Checking) /\ Cardinality(Checking) = 0 /\ Slots + 0 = Slots
  BY <1>1, FS_EmptySet, ConstantsAssumption DEF ConstantsAssumption
<1>3. SlotInv
  BY <1>1, <1>2 DEF SlotInv, SlotsAccounted, Init
<1>4. HistoryInv
  BY DEF Init, HistoryInv, DeviceFits, CheckFits, Exists
<1>5. QED
  BY <1>3, <1>4, InitTypes DEF DeviceInv

\* The invariant holds in every reachable state.
THEOREM DeviceInvariance == Spec => []DeviceInv
<1>1. DeviceInv /\ [Next]_vars => DeviceInv'
  <2> SUFFICES ASSUME DeviceInv, [Next]_vars PROVE DeviceInv'
    OBVIOUS
  <2>1. RestOK /\ SlotInv /\ HistoryInv
    BY TypeSplit DEF DeviceInv
  <2>2. CASE Next
    <3>1. TableOK' /\ RestOK'
      BY <2>2, TableStep, RestStep DEF DeviceInv
    <3>2. TypeOK'
      BY <3>1, TypeSplit, PTL
    <3>3. QED
      BY <2>1, <2>2, <3>2, SlotStep, HistoryStep DEF DeviceInv
  <2>3. CASE UNCHANGED vars
    <3>1. UNCHANGED <<row, born, jobs, free, running, checkVars, base, historyVars>>
      BY <2>3 DEF vars
    <3>2. TypeOK'
      BY <3>1 DEF DeviceInv, TypeOK, Exists, Scheduled, checkVars, historyVars
    <3>3. SlotInv'
      BY <2>1, <3>1, SlotsKept DEF checkVars
    <3>4. HistoryInv'
      BY <2>1, <3>1, QuietStep DEF HistoryInv, Exists
    <3>5. QED
      BY <3>2, <3>3, <3>4 DEF DeviceInv
  <2>4. QED
    BY <2>2, <2>3
<1>2. QED
  BY InitDevices, <1>1, PTL DEF Spec

\* Types; and a device has a next_run exactly if it is switched on with an
\* interval.
THEOREM DevicesTypeCorrect == Spec => []TypeOK
<1>1. DeviceInv => TypeOK
  BY DEF DeviceInv
<1>2. QED
  BY <1>1, DeviceInvariance, PTL

\* _slots and _running account for the checks in flight, for any number of
\* threads and slots and through every failure, delete and restart.
THEOREM SlotsAccountedAlways == Spec => []SlotsAccounted
<1>1. DeviceInv => SlotsAccounted
  BY DEF DeviceInv, SlotInv
<1>2. QED
  BY <1>1, DeviceInvariance, PTL

\* Only the check itself moves on from its write to its notification.
LEMMA OnlyWriteNotifies ==
    ASSUME DeviceInv, [Next]_vars, NEW t \in Threads, pc[t] = "write", pc'[t] = "notify"
    PROVE  Write(t)
<1>1. RestOK
  BY TypeSplit DEF DeviceInv
<1>2. pc' # pc
  OBVIOUS
<1>3. CASE \E u \in Threads : Run(u) \/ CheckStep(u) \/ CheckFail(u)
  <2>1. PICK u \in Threads : Run(u) \/ CheckStep(u) \/ CheckFail(u)
    BY <1>3
  <2>2. \A v \in Threads \ {u} : pc'[v] = pc[v]
    BY <1>1, <2>1 DEF CheckStep, Run, BeginRun, Load, Probe, Select, Write, Notify, EndRun, CheckFail,
                      Goto, RestOK
  <2>3. u = t
    BY <2>2
  <2>4. QED
    BY <1>1, <2>1, <2>3 DEF CheckStep, Run, Load, Probe, Select, Notify, EndRun, CheckFail, Goto, RestOK
<1>4. CASE CrashRestart
  BY <1>4 DEF CrashRestart
<1>5. CASE EditStep \/ ProcessDue \/ ClockBack \/ \E d \in DeviceIds : Tick(d)
  BY <1>2, <1>5 DEF EditStep, Create, EditRead, EditWrite, DeleteBegin, DeleteCommit,
                    ProcessDue, ClockBack, Tick, checkVars
<1>6. CASE UNCHANGED vars
  BY <1>2, <1>6 DEF vars, checkVars
<1>7. QED
  BY <1>3, <1>4, <1>5, <1>6 DEF Next

\* What the write of an event does to the history of its device.
LEMMA EventStored ==
    ASSUME DeviceInv, NEW t \in Threads, Write(t), pc'[t] = "notify"
    PROVE  /\ lastEvent'[dev[t]] = update[t].event /\ update[t].event # lastEvent[dev[t]]
           /\ streak'[dev[t]].n >= Enough(result[t])
<1>1. RestOK /\ SlotInv /\ HistoryInv
  BY TypeSplit DEF DeviceInv
<1> DEFINE d == dev[t]  u == update[t]
<1>2. pc[t] = "write" /\ d \in DeviceIds /\ u.event # "none" /\ u \in Update
  BY <1>1 DEF Write, Goto, RestOK, SlotInv, Checking
<1>3. EventFits(t) /\ StreakFits(t)
  BY <1>1, <1>2 DEF HistoryInv, CheckFits
<1>4. lastEvent'[d] = u.event /\ u.event # lastEvent[d]
  BY <1>1, <1>2, <1>3 DEF Write, RestOK, EventFits
<1>5. Source(t) = "scheduled"
  BY <1>2, <1>3 DEF StreakFits, Source
<1>6. Noted(t)
  BY <1>5 DEF Write
<1>7. streak'[d].n = UpTo(3, RunOf(d, Kind(t)) + 1)
  BY <1>1, <1>2, <1>6, NotedFacts
<1>8. u.ok \in 0 .. 2 /\ u.bad \in 0 .. 3 /\ RunOf(d, "ok") \in Nat /\ RunOf(d, "bad") \in Nat
  BY <1>1, <1>2 DEF Update, RunOf, RestOK
<1>9. u.ok + u.bad >= Enough(result[t]) /\ Enough(result[t]) \in {2, 3}
  BY <1>2, <1>3, <1>5 DEF StreakFits, Enough
<1>10. UpTo(3, RunOf(d, Kind(t)) + 1) >= Enough(result[t])
  <2>1. CASE Kind(t) = "ok"
    <3>1. u.bad = 0 /\ u.ok <= RunOf(d, "ok") + 1
      BY <1>3, <1>5, <2>1 DEF StreakFits
    <3>2. QED
      BY <1>8, <1>9, <2>1, <3>1 DEF UpTo
  <2>2. CASE Kind(t) = "bad"
    <3>1. u.ok = 0 /\ u.bad <= RunOf(d, "bad") + 1
      BY <1>3, <1>5, <2>2 DEF StreakFits
    <3>2. QED
      BY <1>8, <1>9, <2>2, <3>1 DEF UpTo
  <2>3. QED
    BY <2>1, <2>2 DEF Kind
<1>11. QED
  BY <1>4, <1>7, <1>10

\* Faults and recoveries of a device alternate since its latest reset, although
\* a check stores what it judged from a state it read some steps before.
THEOREM EventsAlternateAlways == Spec => EventsAlternate
<1>1. DeviceInv /\ [Next]_vars =>
         [\A t \in Threads : pc[t] = "write" /\ pc'[t] = "notify" =>
             lastEvent'[dev[t]] # lastEvent[dev[t]]]_vars
  BY OnlyWriteNotifies, EventStored
<1>2. QED
  BY <1>1, DeviceInvariance, PTL DEF Spec, EventsAlternate

\* A fault takes two scheduled failures in a row, three if the last is a probe
\* error, a recovery two successes: the streaks in the table never run ahead.
THEOREM TwoInARowAlways == Spec => TwoInARow
<1>1. DeviceInv /\ [Next]_vars =>
         [\A t \in Threads : pc[t] = "write" /\ pc'[t] = "notify" =>
             streak'[dev[t]].n >= IF result[t] = "error" THEN 3 ELSE 2]_vars
  BY OnlyWriteNotifies, EventStored DEF Enough
<1>2. QED
  BY <1>1, DeviceInvariance, PTL DEF Spec, TwoInARow

\* A notification that goes out is about the latest event of its device unless
\* a reset overtook it.
THEOREM AlertIsCurrentAlways == Spec => AlertIsCurrent
<1>1. DeviceInv /\ [Next]_vars =>
         [\A t \in Threads : pc[t] = "notify" /\ pc'[t] = "end" /\ fresh[t] =>
             lastEvent[dev[t]] = update[t].event]_vars
  BY DEF DeviceInv, HistoryInv, CheckFits
<1>2. QED
  BY <1>1, DeviceInvariance, PTL DEF Spec, AlertIsCurrent
==============================================================================
