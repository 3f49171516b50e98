------------------------------- MODULE UpkeepMC -------------------------------
(***************************************************************************)
(* Model-checking instance of four parts that share nothing they change:   *)
(* a restore of a backup, a load test, the rungs of the fault ladder, and  *)
(* the threads that share its result.  The initial state says which of     *)
(* them a behaviour is about.                                              *)
(***************************************************************************)
EXTENDS Restore, LoadTest, Ladder, LadderCache

VARIABLE part

MCRecords == 1..2
MCSecrets == {2}
MCSettings == {"shown", "discord", "local"}
MCCarried == {"shown", "discord"}
MCFlags == {"discord"}

MCTargets == [l \in Layers |-> IF l \in Groups \cup {"power"} THEN 1..2 ELSE {1}]

\* Every mode of a local resolver on this host, with every adapter in the one
\* that looks at it, and a host without power sensors or with two whose
\* resolver is another one.
MCConfigs ==
    [mode : {"auto"}, provider : {"auto", "generic", "named"}, sameHost : {TRUE}, sensors : {{1}}]
    \cup [mode : {"enabled", "disabled"}, provider : {"auto"}, sameHost : {TRUE}, sensors : {{1}}]
    \cup [mode : {"enabled"}, provider : {"auto"}, sameHost : {FALSE}, sensors : {{}, {1, 2}}]

Upkeep == <<part, restoreVars, loadVars, ladderVars, cacheVars>>

\* The parts that are not looked at stay in one initial state.
UpkeepInit ==
    /\ part \in {"restore", "load", "ladder", "cache"}
    /\ RestoreInit /\ LoadInit /\ LadderInit /\ CacheInit
    /\ part # "ladder" =>
          down = {} /\ config = [mode |-> "auto", provider |-> "auto", sameHost |-> TRUE, sensors |-> {1}]

UpkeepNext ==
    \/ part = "restore" /\ RestoreNext /\ UNCHANGED <<part, loadVars, ladderVars, cacheVars>>
    \/ part = "load" /\ LoadNext /\ UNCHANGED <<part, restoreVars, ladderVars, cacheVars>>
    \/ part = "ladder" /\ LadderNext /\ UNCHANGED <<part, restoreVars, loadVars, cacheVars>>
    \/ part = "cache" /\ CacheNext /\ UNCHANGED <<part, restoreVars, loadVars, ladderVars>>

UpkeepSpec == UpkeepInit /\ [][UpkeepNext]_Upkeep

\* Types of the four.
UpkeepTypeOK == RestoreTypeOK /\ LoadTypeOK /\ LadderTypeOK /\ CacheTypeOK
=============================================================================
