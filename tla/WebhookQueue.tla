----------------------------- MODULE WebhookQueue -----------------------------
(***************************************************************************)
(* The outbound webhook queue (linkmoth_webhooks.py): events queued in     *)
(* SQLite, one drain thread that posts them, escalation delays, retries,   *)
(* expiry, the queue's cap, and webhooks switched off or deleted from the  *)
(* dashboard meanwhile.                                                    *)
(*                                                                         *)
(* Times are kept as what is left of them: a Tick lowers every row's wait  *)
(* (next_attempt) and life (until MAX_AGE_SECONDS and the delay are over)  *)
(* and raises the lag of every thread that read the clock and still uses   *)
(* what it read.  A step is one transaction, one read or one POST.         *)
(*                                                                         *)
(* webhook_queue.id is an INTEGER PRIMARY KEY without AUTOINCREMENT: a new *)
(* row gets one more than the largest id in use.                           *)
(***************************************************************************)
EXTENDS Integers, FiniteSets

CONSTANTS
    NumHooks,
    Escalation,    \* hook -> ticks a fault is held, 0 for none
    Subscribed,    \* hook -> the kinds of events it is sent
    Incidents,
    Emitters,      \* threads that emit events
    QueueCap, Batch, MaxAttempts, GoneAttempts, Backoff, MaxAge,
    MaxRow,        \* bound: largest row id
    MaxLag,        \* bound: ticks between an emit's reads and its commit
    Edited,        \* webhooks that are switched on and off, and deleted
    MayFail,       \* TRUE: database errors, crashes and restarts
    None

Kinds == {"fault", "clear"}
Hooks == 1 .. NumHooks          \* webhooks, in the order the table lists them

ASSUME ConstantsAssumption ==
    /\ NumHooks \in Nat
    /\ Escalation \in [Hooks -> Nat] /\ Subscribed \in [Hooks -> SUBSET Kinds]
    /\ QueueCap \in Nat \ {0} /\ Batch \in Nat \ {0}
    /\ MaxAttempts \in Nat \ {0} /\ GoneAttempts \in 1 .. MaxAttempts
    /\ Backoff \in Nat /\ MaxAge \in Nat /\ MaxLag \in Nat
    /\ MaxRow \in Nat /\ MaxRow >= QueueCap
    /\ Edited \subseteq Hooks /\ MayFail \in BOOLEAN

\* One emit overflows the queue by at most one row per webhook; the deepest
\* backlog then has that many (500 rows, 20 webhooks), so one pass trims it.
ASSUME CapAssumption == QueueCap >= NumHooks * (NumHooks - 1)

Rows == 1 .. MaxRow

VARIABLES
    queue,      \* table webhook_queue: row -> record, or None; the columns
                \* sent, fails and reused are history: its POSTs that succeeded
                \* and failed, and whether a thread meant an earlier row by its id
    hooks,      \* table webhooks: "new", "on", "off", "deleted"
    plan,       \* emit_event's locals, or None: what it read before it writes
    pc,         \* drain_queue_once: "idle", "row", "posted"
    batch,      \* its rows, as it read them
    known,      \* the webhooks that were on when it read them
    lag,        \* ticks since it read the clock
    outcome,    \* of the latest POST: "ok", "failed", "gone"
    stale       \* history: rows of the batch whose id is another row's by now

drainVars   == <<pc, batch, known, lag, outcome>>
vars == <<queue, hooks, plan, drainVars, stale>>

Max0(n) == IF n > 0 THEN n ELSE 0

Used(q) == {k \in Rows : q[k] # None}
Of(q, h) == {k \in Used(q) : q[k].hook = h}

\* The n smallest members of S.
Oldest(S, n) == {k \in S : Cardinality({j \in S : j < k}) < n}

Nth(S, n) == CHOOSE d \in S : Cardinality({x \in S : x < d}) = n - 1

InBatch == {k \in Rows : batch[k] # None}
Row == CHOOSE k \in InBatch : \A j \in InBatch : k <= j

-----------------------------------------------------------------------------
(* emit_event.                                                             *)

\* A fault delivery an escalation delay still holds back.
Held(r) == r.kind = "fault" /\ r.attempts = 0 /\ r.wait > 0

\* The clock, the subscribed webhooks, and the held faults of the incident
\* that a recovery, close or false alarm cancels.
EmitRead(e) ==
    /\ plan[e] = None
    /\ \E kind \in Kinds, i \in Incidents :
          plan' = [plan EXCEPT ![e] =
             [kind |-> kind, inc |-> i, lag |-> 0,
              targets |-> {h \in Hooks : hooks[h] = "on" /\ kind \in Subscribed[h]},
              cancel |-> {k \in Used(queue) : /\ kind = "clear"
                                              /\ Held(queue[k]) /\ queue[k].inc = i}]]
    /\ UNCHANGED <<queue, hooks, drainVars, stale>>

\* The drain, or an emit about to cancel, still means an earlier row by id k.
HeldElsewhere(e, k) ==
    \/ batch[k] # None
    \/ \E f \in Emitters \ {e} : plan[f] # None /\ k \in plan[f].cancel

\* Mutant of NewRow: the delay does not hold the first attempt back.
NewRowDue(e, h, k) ==
    LET p == plan[e]
        delay == IF p.kind = "fault" THEN Escalation[h] ELSE 0 IN
    [hook |-> h, kind |-> p.kind, inc |-> p.inc, attempts |-> 0,
     wait |-> 0, life |-> MaxAge + delay - p.lag,
     sent |-> FALSE, fails |-> 0, reused |-> HeldElsewhere(e, k)]

\* next_attempt and the time to expiry count from the clock as it was read.
NewRow(e, h, k) ==
    LET p == plan[e]
        delay == IF p.kind = "fault" THEN Escalation[h] ELSE 0 IN
    [hook |-> h, kind |-> p.kind, inc |-> p.inc, attempts |-> 0,
     wait |-> Max0(delay - p.lag), life |-> MaxAge + delay - p.lag,
     sent |-> FALSE, fails |-> 0, reused |-> HeldElsewhere(e, k)]

\* The webhook with the deepest backlog, the one with the oldest row on a tie.
Noisiest(q) ==
    CHOOSE h \in {q[k].hook : k \in Used(q)} :
       \A g \in {q[k].hook : k \in Used(q)} \ {h} :
          \/ Cardinality(Of(q, g)) < Cardinality(Of(q, h))
          \/ /\ Cardinality(Of(q, g)) = Cardinality(Of(q, h))
             /\ \E k \in Of(q, h) : \A j \in Of(q, g) : k < j

\* Mutant of Trim: the oldest rows go, whoever they belong to.
TrimOldest(q) ==
    LET over == Cardinality(Used(q)) - QueueCap
        out  == IF over > 0 THEN Oldest(Used(q), over) ELSE {}
    IN  [k \in Rows |-> IF k \in out THEN None ELSE q[k]]

\* Mutant of Trim: one row over the cap is let be.
TrimLate(q) ==
    LET over == Cardinality(Used(q)) - QueueCap - 1
        out  == IF over > 0 THEN Oldest(Of(q, Noisiest(q)), over) ELSE {}
    IN  [k \in Rows |-> IF k \in out THEN None ELSE q[k]]

\* Over the cap the noisiest webhook sheds its own oldest rows.
Trim(q) ==
    LET over == Cardinality(Used(q)) - QueueCap
        out  == IF over > 0 THEN Oldest(Of(q, Noisiest(q)), over) ELSE {}
    IN  [k \in Rows |-> IF k \in out THEN None ELSE q[k]]

\* One transaction: cancel, insert one row per target, trim.
EmitWrite(e) ==
    /\ plan[e] # None
    /\ LET p    == plan[e]
           kept == [k \in Rows |-> IF k \in p.cancel THEN None ELSE queue[k]]
           top  == CHOOSE t \in 0 .. MaxRow : /\ t \in Used(kept) \cup {0}
                                              /\ \A k \in Used(kept) : k <= t
           n    == Cardinality(p.targets)
           ids  == top + 1 .. top + n
       IN  /\ top + n <= MaxRow
           /\ LET full == [k \in Rows |->
                     IF k \in ids THEN NewRow(e, Nth(p.targets, k - top), k) ELSE kept[k]]
              IN  queue' = IF n = 0 THEN full ELSE Trim(full)
           /\ stale' = stale \cup (ids \cap InBatch)
    /\ plan' = [plan EXCEPT ![e] = None]
    /\ UNCHANGED <<hooks, drainVars>>

\* The emit raises: nothing is queued and nothing cancelled.
EmitFail(e) ==
    /\ MayFail
    /\ plan[e] # None
    /\ plan' = [plan EXCEPT ![e] = None]
    /\ UNCHANGED <<queue, hooks, drainVars, stale>>

-----------------------------------------------------------------------------
(* drain_queue_once, run by the one drain thread.                          *)

\* What the drain uses of a row it read.
Snapshot(r) == [hook |-> r.hook, attempts |-> r.attempts, life |-> r.life]

\* A pass starts when there are rows due, and not while a global outage is
\* active: it may always start later.
DrainStart ==
    /\ pc = "idle"
    /\ LET due == {k \in Used(queue) : queue[k].wait = 0} IN
       /\ due # {}
       /\ batch' = [k \in Rows |-> IF k \in Oldest(due, Batch) THEN Snapshot(queue[k]) ELSE None]
    /\ known' = {h \in Hooks : hooks[h] = "on"}
    /\ lag' = 0
    /\ pc' = "row"
    /\ UNCHANGED <<queue, hooks, plan, outcome, stale>>

\* The pass is over: its locals are dead.
Idle ==
    /\ pc' = "idle" /\ outcome' = "ok" /\ lag' = 0
    /\ batch' = [k \in Rows |-> None]
    /\ known' = {} /\ stale' = {}

\* The row is dealt with; go on with the next one.
NextRow ==
    IF InBatch = {Row} THEN Idle
    ELSE /\ pc' = "row" /\ outcome' = "ok"
         /\ batch' = [batch EXCEPT ![Row] = None]
         /\ stale' = stale \ {Row}
         /\ UNCHANGED <<known, lag>>

\* Not expired, and the webhook was there and switched on.
Deliverable(r) == r.hook \in known /\ r.life >= 0

DrainDrop ==
    /\ pc = "row"
    /\ ~Deliverable(batch[Row])
    /\ queue' = [queue EXCEPT ![Row] = None]
    /\ NextRow
    /\ UNCHANGED <<hooks, plan>>

Post ==
    /\ pc = "row"
    /\ Deliverable(batch[Row])
    /\ outcome' \in {"ok", "failed", "gone"}
    /\ queue' = IF queue[Row] = None \/ Row \in stale THEN queue
                ELSE IF outcome' = "ok" THEN [queue EXCEPT ![Row].sent = TRUE]
                ELSE [queue EXCEPT ![Row].fails = IF @ < MaxAttempts THEN @ + 1 ELSE @]
    /\ pc' = "posted"
    /\ UNCHANGED <<hooks, plan, batch, known, lag, stale>>

\* Mutant of GiveUp: one attempt too many.
GiveUpLate(attempts) == attempts > MaxAttempts

\* Mutant of GiveUp: the attempt just made is counted twice.
GiveUpEarly(attempts) ==
    \/ attempts + 1 >= MaxAttempts
    \/ outcome = "gone" /\ attempts + 1 >= GoneAttempts

GiveUp(attempts) ==
    \/ attempts >= MaxAttempts
    \/ outcome = "gone" /\ attempts >= GoneAttempts

\* DELETE or UPDATE ... WHERE id=?, with the attempts read before the POST.
DrainRecord ==
    /\ pc = "posted"
    /\ LET attempts == batch[Row].attempts + 1 IN
       queue' = [queue EXCEPT ![Row] =
          IF outcome = "ok" \/ GiveUp(attempts) \/ @ = None THEN None
          ELSE [@ EXCEPT !.attempts = attempts, !.wait = Max0(Backoff - lag)]]
    /\ NextRow
    /\ UNCHANGED <<hooks, plan>>

\* A database error leaves the rest of the batch to the next pass.
DrainFail ==
    /\ MayFail
    /\ pc # "idle"
    /\ Idle
    /\ UNCHANGED <<queue, hooks, plan>>

-----------------------------------------------------------------------------
(* The dashboard, the clock, and the process.                              *)

\* update_webhook
Switch(h) ==
    /\ hooks[h] \in {"on", "off"}
    /\ hooks' = [hooks EXCEPT ![h] = IF @ = "on" THEN "off" ELSE "on"]
    /\ UNCHANGED <<queue, plan, drainVars, stale>>

Delete(h) ==
    /\ hooks[h] \in {"on", "off"}
    /\ hooks' = [hooks EXCEPT ![h] = "deleted"]
    /\ queue' = [k \in Rows |-> IF k \in Of(queue, h) THEN None ELSE queue[k]]
    /\ UNCHANGED <<plan, drainVars, stale>>

\* create_webhook; a uuid is never used again.
Create(h) ==
    /\ hooks[h] = "new"
    /\ hooks' = [hooks EXCEPT ![h] = "on"]
    /\ UNCHANGED <<queue, plan, drainVars, stale>>

Tick ==
    /\ \A e \in Emitters : plan[e] # None => plan[e].lag < MaxLag
    /\ queue' = [k \in Rows |->
          IF queue[k] = None THEN None
          ELSE [queue[k] EXCEPT !.wait = Max0(@ - 1), !.life = IF @ < 0 THEN @ ELSE @ - 1]]
    /\ plan' = [e \in Emitters |->
          IF plan[e] = None THEN None ELSE [plan[e] EXCEPT !.lag = @ + 1]]
    /\ lag' = IF pc # "idle" /\ lag < Backoff THEN lag + 1 ELSE lag
    /\ UNCHANGED <<hooks, pc, batch, known, outcome, stale>>

\* The tables stay.
CrashRestart ==
    /\ MayFail
    /\ plan' = [e \in Emitters |-> None]
    /\ Idle
    /\ UNCHANGED <<queue, hooks>>

-----------------------------------------------------------------------------
Init ==
    /\ queue = [k \in Rows |-> None]
    /\ hooks = [h \in Hooks |-> "new"]
    /\ plan = [e \in Emitters |-> None]
    /\ pc = "idle" /\ outcome = "ok" /\ lag = 0
    /\ batch = [k \in Rows |-> None]
    /\ known = {}
    /\ stale = {}

DrainStep == DrainStart \/ DrainDrop \/ Post \/ DrainRecord

Next ==
    \/ \E e \in Emitters : EmitRead(e) \/ EmitWrite(e) \/ EmitFail(e)
    \/ DrainStep \/ DrainFail
    \/ \E h \in Edited : Switch(h) \/ Delete(h)
    \/ \E h \in Hooks : Create(h)
    \/ Tick \/ CrashRestart

Spec == Init /\ [][Next]_vars

-----------------------------------------------------------------------------
(* Properties.                                                             *)

Record == [hook : Hooks, kind : Kinds, inc : Incidents,
           attempts : 0 .. MaxAttempts - 1, wait : Nat, life : Int,
           sent : BOOLEAN, fails : 0 .. MaxAttempts, reused : BOOLEAN]
Snapshots == [hook : Hooks, attempts : 0 .. MaxAttempts - 1, life : Int]
Plan == [kind : Kinds, inc : Incidents, lag : 0 .. MaxLag,
         targets : SUBSET Hooks, cancel : SUBSET Rows]

ASSUME NoneAssumption == None \notin Record \cup Snapshots \cup Plan

\* Types; and what the drain holds while it runs, only then.
TypeOK ==
    /\ queue \in [Rows -> Record \cup {None}]
    /\ hooks \in [Hooks -> {"new", "on", "off", "deleted"}]
    /\ plan \in [Emitters -> Plan \cup {None}]
    /\ pc \in {"idle", "row", "posted"} /\ outcome \in {"ok", "failed", "gone"}
    /\ batch \in [Rows -> Snapshots \cup {None}]
    /\ known \subseteq Hooks /\ lag \in Nat
    /\ stale \subseteq InBatch
    /\ pc = "idle" <=> InBatch = {}

\* emit_event leaves at most QUEUE_CAP rows in the table.
CapHolds == Cardinality(Used(queue)) <= QueueCap

Leaves(k) == queue[k] # None /\ queue'[k] = None

\* Emitter e commits the recovery, close or false alarm of incident i.
Clears(e, i) ==
    /\ plan[e] # None /\ plan'[e] = None
    /\ plan[e].kind = "clear" /\ plan[e].inc = i

\* Why a delivery may leave the queue, apart from the cap.
Settled(r) ==
    \/ r.sent
    \/ r.fails >= MaxAttempts
    \/ outcome = "gone" /\ r.fails >= GoneAttempts
    \/ r.life < 0
    \/ hooks'[r.hook] # "on"
    \/ pc # "idle" /\ r.hook \notin known
    \/ r.kind = "fault" /\ \E e \in Emitters : Clears(e, r.inc)

OverCap == Cardinality(Used(queue')) = QueueCap

\* A delivery leaves the queue only posted successfully, given up after the
\* attempts allowed, expired, cancelled with its incident, with its webhook, or
\* to the cap.
DeliveriesAccounted ==
    [][\A k \in Rows : Leaves(k) => Settled(queue[k]) \/ OverCap]_vars

\* The same, but for the deliveries queued under the id of an earlier row that
\* the drain has in its batch or an emit is about to cancel: those alone can be
\* lost.
LostOnlyToReuse ==
    [][\A k \in Rows : Leaves(k) =>
          Settled(queue[k]) \/ OverCap \/ queue[k].reused]_vars

\* Rows the emits committing in this step give webhook h.
Given(h) == Cardinality({e \in Emitters :
    plan[e] # None /\ plan'[e] = None /\ h \in plan[e].targets})

\* The cap takes from the deepest backlog: no webhook has more rows left than
\* the one that lost a row had, counting the row it is just given.
CapSparesOthers ==
    [][\A k \in Rows : Leaves(k) =>
          LET h == queue[k].hook IN
          \/ Settled(queue[k]) \/ queue[k].reused
          \/ \A g \in Hooks : Cardinality(Of(queue', g)) <= Cardinality(Of(queue, h)) + Given(h)]_vars

\* The drain posts a row that is still in the table for the first time, as the
\* row's own history has it and whatever its column attempts says.
FirstPost ==
    /\ pc = "row" /\ pc' = "posted"
    /\ queue[Row] # None /\ Row \notin stale
    /\ queue[Row].fails = 0 /\ ~queue[Row].sent

\* An escalated fault is first posted no earlier than its delay, whatever the
\* drain read, wrote and retried meanwhile: what it has left to live is then
\* MaxAge at most.  But for the rows queued under the id of an earlier row that
\* the drain has in its batch: its UPDATE gives them the attempts and the
\* back-off of the earlier row, and they are due before their delay.
HeldUntilDue ==
    [][FirstPost => queue[Row].life <= MaxAge \/ queue[Row].reused]_vars

\* No run checks this: the same of every row, which the reused ids break.
HeldWhateverItsId == [][FirstPost => queue[Row].life <= MaxAge]_vars
=============================================================================
