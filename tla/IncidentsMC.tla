---------------------------- MODULE IncidentsMC ----------------------------
(***************************************************************************)
(* Model-checking instances of Incidents: two incident rows, one warn and  *)
(* one bad verdict code, one or two requests beside the recheck loop.      *)
(***************************************************************************)
EXTENDS Incidents, TLC

\* The two verdict codes and their severities, as verdict() assigns them.
MCCodes    == {"wan_jitter", "wan_down"}
MCSeverity == "wan_jitter" :> "warn" @@ "wan_down" :> "bad"

\* One code only, for the run with two requests.
OneCode     == {"wan_down"}
OneSeverity == "wan_down" :> "bad"

\* What the lifecycle invariants depend on.  The attribution of an incident,
\* the loop's memory of what it announced and the newest event never decide
\* whether a step is possible or what it does to the rest, and of a resolved
\* incident, which no step reopens, the observations no longer do: states that
\* differ only in these are explored once.
Lifecycle ==
    <<state, openSegs, closedNotices,
      [i \in Ids |-> IF Open(i) THEN <<recovered[i], newestRun[i]>> ELSE <<>>],
      engineVars, lpc, okRuns, seen, reqVars>>

\* What the stored record of an incident depends on, by the same argument: the
\* stored runs matter only until Migrate has inferred what they prove.
Record ==
    <<state, recovered, verdict, diagnosis, openSegs, evidence,
      [i \in Ids |-> IF evidence[i] = "late" THEN newestRun[i] ELSE "none"],
      closedNotices, engineVars, lpc, okRuns, worst, seen, reqVars>>

\* The requests are interchangeable.
Symmetric == Permutations(Requests)
=============================================================================
