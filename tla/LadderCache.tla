----------------------------- MODULE LadderCache -----------------------------
(***************************************************************************)
(* Who runs the fault ladder and who gets the last result                  *)
(* (Engine.run_ladder_cached), and what its callers make of the answer:    *)
(* diagnose_once stores and observes any answer as a run of now,           *)
(* evaluate_network_for_proxy only one that was measured for it.           *)
(*                                                                         *)
(* A forced call ignores the cache and never waits; unforced calls share   *)
(* one ladder.  A step is one section under _ladder_cache_cond or          *)
(* Engine.lock, one ladder, or one observation under the tracker's lock.   *)
(***************************************************************************)
EXTENDS Naturals, FiniteSets

CONSTANTS
    Callers,        \* threads that diagnose
    Ttl,            \* ladder_cache_seconds, in ticks
    MaxRuns         \* bound: ladders run

ASSUME CacheAssumption == Ttl \in Nat \ {0} /\ MaxRuns \in Nat

\* Manual, verifying and recheck diagnoses; the baseline monitor; inbound alerts.
Kinds == {"forced", "baseline", "proxy"}

VARIABLES
    stage, kind,    \* where a caller is, and what it wants
    got,            \* the ladder run it was answered with, or 0
    shared,         \* it was answered from the cache
    late,           \* history: ... past the TTL, with no forced diagnosis in the way
    ran, faulty,    \* ladders run so far, and those that found a global fault
    cacheRun, cacheAge, \* _ladder_cache: its run, or 0; ticks since, to Ttl + 1
    inflight,       \* _ladder_inflight
    laddering,      \* run_in_progress
    outage, clear,  \* the tracker: active, and its _consecutive_clear
    counted         \* history: the runs behind the clears in a row

callerVars  == <<stage, kind, got, shared, late>>
resultVars  == <<ran, faulty, cacheRun, cacheAge>>
trackerVars == <<outage, clear, counted>>
cacheVars == <<callerVars, resultVars, inflight, laddering, trackerVars>>

Unforced(t) == kind[t] # "forced"
Go(t, s) == stage' = [stage EXCEPT ![t] = s]

\* A forced diagnosis, not t's, has the ladder.
ForcedRuns(t) == \E u \in Callers \ {t} : kind[u] = "forced" /\ stage[u] \in {"measure", "reset"}

\* Caller t gets what is in the cache.
FromCache(t) ==
    /\ got' = [got EXCEPT ![t] = cacheRun]
    /\ shared' = [shared EXCEPT ![t] = TRUE]
    /\ late' = [late EXCEPT ![t] = cacheAge > Ttl /\ ~ForcedRuns(t)]

Hit == cacheRun # 0 /\ cacheAge <= Ttl

\* Mutant of Share: a caller does not wait for the ladder in flight.
ShareUnawaited(t) ==
    IF Hit THEN FromCache(t) /\ Go(t, "answered") /\ UNCHANGED inflight
    ELSE Go(t, "lock") /\ inflight' = TRUE /\ UNCHANGED <<got, shared, late>>

\* Under _ladder_cache_cond: a result within the TTL, the turn of another
\* caller, or one's own.
Share(t) ==
    IF Hit THEN FromCache(t) /\ Go(t, "answered") /\ UNCHANGED inflight
    ELSE IF inflight THEN Go(t, "wait") /\ UNCHANGED <<got, shared, late, inflight>>
    ELSE Go(t, "lock") /\ inflight' = TRUE /\ UNCHANGED <<got, shared, late>>

\* A diagnosis begins; the baseline monitor, one thread, looks at
\* run_in_progress first.
Call(t, k) ==
    /\ stage[t] = "idle"
    /\ k = "baseline" => ~laddering /\ \A u \in Callers : kind[u] = "baseline" => stage[u] = "idle"
    /\ kind' = [kind EXCEPT ![t] = k]
    /\ IF k = "forced" THEN Go(t, "lock") /\ UNCHANGED <<got, shared, late, inflight>> ELSE Share(t)
    /\ UNCHANGED <<resultVars, laddering, trackerVars>>

\* Notified, or the wait timed out.
Wake(t) ==
    /\ stage[t] = "wait" /\ Share(t)
    /\ UNCHANGED <<kind, resultVars, laddering, trackerVars>>

\* Under Engine.lock: an unforced caller that finds the ladder busy takes what
\* is in the cache, of whatever age; a forced one is told "busy".
TakeLadder(t) ==
    /\ stage[t] = "lock"
    /\ IF ~laddering
       THEN laddering' = TRUE /\ Go(t, "measure") /\ UNCHANGED <<got, shared, late>>
       ELSE /\ IF Unforced(t) /\ cacheRun # 0 THEN FromCache(t) ELSE UNCHANGED <<got, shared, late>>
            /\ Go(t, IF Unforced(t) THEN "leave" ELSE "answered")
            /\ UNCHANGED laddering
    /\ UNCHANGED <<kind, resultVars, inflight, trackerVars>>

\* run_ladder, verdict, _store_ladder_cache; or one of them raises.
Measure(t) ==
    /\ stage[t] = "measure" /\ Go(t, "reset")
    /\ \/ /\ ran < MaxRuns
          /\ ran' = ran + 1 /\ faulty' \in {faulty, faulty \cup {ran + 1}}
          /\ cacheRun' = ran + 1 /\ cacheAge' = 0
          /\ got' = [got EXCEPT ![t] = ran + 1]
       \/ UNCHANGED <<resultVars, got>>
    /\ UNCHANGED <<kind, shared, late, inflight, laddering, trackerVars>>

\* The inner finally ...
Reset(t) ==
    /\ stage[t] = "reset" /\ laddering' = FALSE
    /\ Go(t, IF Unforced(t) THEN "leave" ELSE "answered")
    /\ UNCHANGED <<kind, got, shared, late, resultVars, inflight, trackerVars>>

\* ... and the outer one, which wakes those that wait.
Leave(t) ==
    /\ stage[t] = "leave" /\ inflight' = FALSE
    /\ Go(t, "answered")
    /\ UNCHANGED <<kind, got, shared, late, resultVars, laddering, trackerVars>>

-----------------------------------------------------------------------------
(* The callers, and time.                                                  *)

\* OutageTracker.observe, without the notices and the summary.
Observe(n) ==
    IF n \in faulty
    THEN outage' = TRUE /\ clear' = 0 /\ counted' = {}
    ELSE /\ outage' = (outage /\ clear = 0)
         /\ clear' = IF outage /\ clear = 0 THEN 1 ELSE 0
         /\ counted' = IF outage THEN counted \cup {n} ELSE {}

\* The row in runs, _observe_network, and the end of the call.
Use(t) ==
    /\ stage[t] = "answered"
    /\ IF got[t] # 0 /\ (kind[t] = "proxy" => ~shared[t])
       THEN Observe(got[t]) ELSE UNCHANGED trackerVars
    /\ Go(t, "idle")
    /\ got' = [got EXCEPT ![t] = 0] /\ shared' = [shared EXCEPT ![t] = FALSE]
    /\ late' = [late EXCEPT ![t] = FALSE]
    /\ UNCHANGED <<kind, resultVars, inflight, laddering>>

Tick ==
    /\ cacheRun # 0 /\ cacheAge <= Ttl /\ cacheAge' = cacheAge + 1
    /\ UNCHANGED <<callerVars, ran, faulty, cacheRun, inflight, laddering, trackerVars>>

CacheInit ==
    /\ stage = [t \in Callers |-> "idle"] /\ kind = [t \in Callers |-> "forced"]
    /\ got = [t \in Callers |-> 0]
    /\ shared = [t \in Callers |-> FALSE] /\ late = [t \in Callers |-> FALSE]
    /\ ran = 0 /\ faulty = {} /\ cacheRun = 0 /\ cacheAge = 0
    /\ inflight = FALSE /\ laddering = FALSE
    /\ outage = FALSE /\ clear = 0 /\ counted = {}

CacheNext ==
    \/ \E t \in Callers, k \in Kinds : Call(t, k)
    \/ \E t \in Callers : Wake(t) \/ TakeLadder(t) \/ Measure(t) \/ Reset(t) \/ Leave(t) \/ Use(t)
    \/ Tick

CacheSpec == CacheInit /\ [][CacheNext]_cacheVars

-----------------------------------------------------------------------------
(* Properties.                                                             *)

\* Types.
CacheTypeOK ==
    /\ stage \in [Callers -> {"idle", "wait", "lock", "measure", "reset", "leave", "answered"}]
    /\ kind \in [Callers -> Kinds] /\ got \in [Callers -> 0..MaxRuns]
    /\ ran \in 0..MaxRuns /\ cacheRun \in 0..ran /\ cacheAge \in 0..(Ttl + 1)
    /\ faulty \subseteq 1..ran /\ counted \subseteq 1..ran /\ clear \in 0..1

\* Unforced calls share one ladder: one of them at a time is past the wait, as
\* _ladder_inflight says, and one caller is inside the ladder, as
\* run_in_progress says; so a result older than ladder_cache_seconds is only
\* given out when a forced diagnosis has the ladder, whatever fails.
LadderIsShared ==
    /\ Cardinality({t \in Callers : Unforced(t) /\ stage[t] \in {"lock", "measure", "reset", "leave"}})
          = IF inflight THEN 1 ELSE 0
    /\ Cardinality({t \in Callers : stage[t] \in {"measure", "reset"}}) = IF laddering THEN 1 ELSE 0
    /\ \A t \in Callers : ~late[t]

\* linkmoth_outage.py:15 and :34: an outage ends after RECOVERY_CLEAR_RUNS
\* ladder runs; observe is called after a ladder run.
TwoRunsToRecover == [][outage /\ ~outage' => Cardinality(counted') >= 2]_cacheVars
=============================================================================
