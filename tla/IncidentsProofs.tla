--------------------------- MODULE IncidentsProofs ---------------------------
(***************************************************************************)
(* Proofs about Incidents, for every number of incident rows, every set of *)
(* verdict codes and every number of concurrent requests.                  *)
(*                                                                         *)
(* The first part proves that TypeInv is inductive: type correctness, at   *)
(* most one open incident (so that open_incident() is well defined), and   *)
(* what the threads' locals hold where they are used.  The second part is  *)
(* about who may act.                                                      *)
(***************************************************************************)
EXTENDS Incidents, TLAPS

USE DEF Ids, NoId

\* The constants' assumption in the shape the steps use it.
LEMMA ConstantFacts ==
    /\ MaxIncidents \in Nat \ {0}
    /\ Severity \in [Codes -> {"warn", "bad"}]
    /\ "all_clear" \notin Codes /\ "none" \notin Codes
    /\ NoOne \notin Requests /\ "loop" \notin Requests /\ NoOne # "loop"
  BY ConstantsAssumption

\* A request that has looked up or inserted an incident holds its id.
RequestHoldsId ==
    \A r \in Requests :
       rpc[r] \in {"stored", "commit", "emit", "mark"} => inc[r] \in Ids

\* A diagnosis in flight has a verdict, and only faults are announced.
DiagnosisHoldsVerdict ==
    /\ \A r \in Requests : rpc[r] = "record" => found[r] \in Verdicts
    /\ \A i \in Ids : /\ lpc[i] \in {"record", "judge"} => seen[i] \in Verdicts
                      /\ lpc[i] = "announce" => seen[i] \in Codes

TypeInv == TypeOK /\ OneOpenIncident /\ RequestHoldsId /\ DiagnosisHoldsVerdict

\* open_incident() returns the open incident if there is one.
LEMMA LatestOpenFacts ==
    ASSUME OneOpenIncident
    PROVE  /\ LatestOpen \in Ids \cup {NoId}
           /\ LatestOpen # NoId => Open(LatestOpen)
           /\ LatestOpen = NoId => \A i \in Ids : ~Open(i)
<1>1. CASE \E i \in Ids : Open(i)
  <2>1. PICK i \in Ids : Open(i)
    BY <1>1
  <2>2. Open(i) /\ \A j \in Ids : Open(j) => j <= i
    BY <2>1, ConstantFacts DEF OneOpenIncident
  <2>3. LatestOpen = CHOOSE k \in Ids : Open(k) /\ \A j \in Ids : Open(j) => j <= k
    BY <1>1 DEF LatestOpen
  <2>4. LatestOpen \in Ids /\ Open(LatestOpen)
    BY <2>2, <2>3
  <2>5. QED
    BY <2>4, ConstantFacts
<1>2. CASE ~ \E i \in Ids : Open(i)
  BY <1>2 DEF LatestOpen
<1>3. QED
  BY <1>1, <1>2

\* The empty database and the fresh process satisfy the invariant.
LEMMA InitTypeInv == Init => TypeInv
<1> SUFFICES ASSUME Init PROVE TypeInv
  OBVIOUS
<1>1. DbTypes
  BY DEF Init, DbTypes, State, Code
<1>2. OutTypes
  BY DEF Init, OutTypes
<1>3. EngineTypes
  BY DEF Init, EngineTypes
<1>4. LoopTypes
  BY DEF Init, LoopTypes, LoopPc, Code
<1>5. ReqTypes
  BY DEF Init, ReqTypes, ReqPc, ReqOp, Code
<1>6. OneOpenIncident
  BY DEF Init, OneOpenIncident, Open
<1>7. RequestHoldsId /\ DiagnosisHoldsVerdict
  BY DEF Init, RequestHoldsId, DiagnosisHoldsVerdict
<1>8. QED
  BY <1>1, <1>2, <1>3, <1>4, <1>5, <1>6, <1>7 DEF TypeInv, TypeOK

-----------------------------------------------------------------------------
(* The control helpers preserve the types of what they assign.             *)

\* Moving a request to another step keeps its types.
LEMMA GotoTypes ==
    ASSUME ReqTypes, NEW r \in Requests, NEW l \in ReqPc, Goto(r, l),
           UNCHANGED <<op, inc, found>>
    PROVE  ReqTypes'
  BY DEF Goto, ReqTypes

\* Starting a request keeps its types.
LEMMA EnterTypes ==
    ASSUME ReqTypes, NEW r \in Requests, NEW l \in ReqPc, NEW o \in ReqOp,
           NEW i \in Ids \cup {NoId}, Enter(r, l, o, i)
    PROVE  ReqTypes'
  BY DEF Enter, ReqTypes, Code

\* Ending a request keeps its types.
LEMMA ReturnTypes ==
    ASSUME ReqTypes, NEW r \in Requests, Return(r)
    PROVE  ReqTypes'
  BY EnterTypes DEF Return, ReqPc, ReqOp

\* Moving a recheck loop to another step keeps its types.
LEMMA LoopGotoTypes ==
    ASSUME LoopTypes, NEW i \in Ids, NEW l \in LoopPc, LoopGoto(i, l)
    PROVE  LoopTypes'
  BY DEF LoopGoto, LoopTypes

\* Sending a recheck loop back with its locals cleared keeps its types.
LEMMA LoopResetTypes ==
    ASSUME LoopTypes, NEW i \in Ids, NEW l \in LoopPc, LoopReset(i, l)
    PROVE  LoopTypes'
  BY DEF LoopReset, LoopTypes, Code

\* What the rest of TypeInv says of a request, when the request goes to a
\* place where it need hold nothing, and of a loop that does the same.
LEMMA EnterHolds ==
    ASSUME RequestHoldsId, DiagnosisHoldsVerdict, ReqTypes, UNCHANGED loopVars,
           NEW r \in Requests, NEW l \in ReqPc, NEW o \in ReqOp, NEW i,
           Enter(r, l, o, i), l # "record",
           l \in {"stored", "commit", "emit", "mark"} => i \in Ids
    PROVE  RequestHoldsId' /\ DiagnosisHoldsVerdict'
  BY DEF Enter, RequestHoldsId, DiagnosisHoldsVerdict, ReqTypes, loopVars

\* The same for a request moved on with the locals it has.
LEMMA GotoHolds ==
    ASSUME RequestHoldsId, DiagnosisHoldsVerdict, ReqTypes, UNCHANGED loopVars,
           NEW r \in Requests, NEW l \in ReqPc, Goto(r, l),
           UNCHANGED <<op, inc, found>>, l # "record",
           l \in {"stored", "commit", "emit", "mark"} => inc[r] \in Ids
    PROVE  RequestHoldsId' /\ DiagnosisHoldsVerdict'
  BY DEF Goto, RequestHoldsId, DiagnosisHoldsVerdict, ReqTypes, loopVars

\* The same for a request that ends.
LEMMA ReturnHolds ==
    ASSUME RequestHoldsId, DiagnosisHoldsVerdict, ReqTypes, UNCHANGED loopVars,
           NEW r \in Requests, Return(r)
    PROVE  RequestHoldsId' /\ DiagnosisHoldsVerdict'
  BY EnterHolds DEF Return, ReqPc, ReqOp

\* The same for a recheck loop moved on, which needs its verdict to be judged.
LEMMA LoopGotoHolds ==
    ASSUME RequestHoldsId, DiagnosisHoldsVerdict, LoopTypes, UNCHANGED reqVars,
           NEW i \in Ids, NEW l \in LoopPc, LoopGoto(i, l),
           l \in {"record", "judge"} => seen[i] \in Verdicts, l # "announce"
    PROVE  RequestHoldsId' /\ DiagnosisHoldsVerdict'
  BY DEF LoopGoto, RequestHoldsId, DiagnosisHoldsVerdict, LoopTypes, reqVars

\* The same for a recheck loop whose locals are cleared.
LEMMA LoopResetHolds ==
    ASSUME RequestHoldsId, DiagnosisHoldsVerdict, LoopTypes,
           NEW i \in Ids, NEW l \in LoopPc, LoopReset(i, l),
           l \notin {"record", "judge", "announce"}
    PROVE  /\ UNCHANGED <<rpc, inc, found>> => RequestHoldsId'
           /\ DiagnosisHoldsVerdict' \/ ~UNCHANGED <<rpc, found>>
  BY DEF LoopReset, RequestHoldsId, DiagnosisHoldsVerdict, LoopTypes

\* _record_run keeps the types of the tables.
LEMMA RecordRunTypes ==
    ASSUME DbTypes, NEW i \in Ids, NEW v \in Verdicts, RecordRun(i, v)
    PROVE  DbTypes'
<1>1. openSegs' \in [Ids -> Nat]
  BY DEF RecordRun, DbTypes
<1>2. recovered' \in [Ids -> BOOLEAN]
  BY DEF RecordRun, DbTypes
<1>3. newestRun' \in [Ids -> {"none", "ok", "fault"}]
  BY DEF RecordRun, DbTypes
<1>4. evidence' \in [Ids -> {"none", "segments", "late"}]
  BY DEF RecordRun, DbTypes
<1>5. QED
  BY <1>1, <1>2, <1>3, <1>4 DEF RecordRun, DbTypes

-----------------------------------------------------------------------------
(* The requests.                                                           *)

\* TriggerCheck preserves the invariant.
LEMMA TriggerCheckInv ==
    ASSUME TypeInv, NEW r \in Requests, TriggerCheck(r)
    PROVE  TypeInv'
<1> USE DEF TypeInv, TypeOK
<1>1. DbTypes' /\ OutTypes' /\ LoopTypes'
  BY DEF TriggerCheck, dbVars, incidentVars, outVars, loopVars, DbTypes, OutTypes, LoopTypes
<1>2. EngineTypes'
  BY DEF TriggerCheck, EngineTypes
<1>3. ReqTypes'
  BY LatestOpenFacts, EnterTypes DEF TriggerCheck, ReqPc, ReqOp
<1>4. OneOpenIncident'
  BY DEF TriggerCheck, dbVars, incidentVars, OneOpenIncident, Open
<1>5. RequestHoldsId' /\ DiagnosisHoldsVerdict'
  BY EnterHolds DEF TriggerCheck, ReqPc, ReqOp
<1>6. QED
  BY <1>1, <1>2, <1>3, <1>4, <1>5

\* TriggerInsert preserves the invariant.
LEMMA TriggerInsertInv ==
    ASSUME TypeInv, NEW r \in Requests, TriggerInsert(r)
    PROVE  TypeInv'
<1> USE DEF TypeInv, TypeOK
<1>1. OutTypes' /\ EngineTypes' /\ LoopTypes'
  BY DEF TriggerInsert, outVars, engineVars, loopVars, OutTypes, EngineTypes, LoopTypes
<1>2. DbTypes'
  BY DEF TriggerInsert, DbTypes, State
<1>3. ReqTypes'
  BY DEF TriggerInsert, Goto, ReqTypes, ReqPc
<1>4. OneOpenIncident'
  BY DEF TriggerInsert, DbTypes, OneOpenIncident, Open
<1>5. RequestHoldsId' /\ DiagnosisHoldsVerdict'
  BY DEF TriggerInsert, Goto, ReqTypes, loopVars, RequestHoldsId, DiagnosisHoldsVerdict
<1>6. QED
  BY <1>1, <1>2, <1>3, <1>4, <1>5

\* TriggerAttach preserves the invariant.
LEMMA TriggerAttachInv ==
    ASSUME TypeInv, NEW r \in Requests, TriggerAttach(r)
    PROVE  TypeInv'
<1> USE DEF TypeInv, TypeOK
<1>1. DbTypes' /\ OutTypes' /\ EngineTypes' /\ LoopTypes'
  BY DEF TriggerAttach, dbVars, incidentVars, outVars, engineVars, loopVars, DbTypes, OutTypes, EngineTypes, LoopTypes
<1>2. ReqTypes'
  BY GotoTypes DEF TriggerAttach, ReqPc
<1>3. OneOpenIncident'
  BY DEF TriggerAttach, dbVars, incidentVars, OneOpenIncident, Open
<1>4. RequestHoldsId' /\ DiagnosisHoldsVerdict'
  BY GotoHolds DEF TriggerAttach, ReqTypes, ReqPc
<1>5. QED
  BY <1>1, <1>2, <1>3, <1>4

\* TriggerStart preserves the invariant.
LEMMA TriggerStartInv ==
    ASSUME TypeInv, NEW r \in Requests, TriggerStart(r)
    PROVE  TypeInv'
<1> USE DEF TypeInv, TypeOK
<1>1. inc[r] \in Ids
  BY DEF TriggerStart, RequestHoldsId
<1>2. DbTypes' /\ OutTypes'
  BY DEF TriggerStart, dbVars, incidentVars, outVars, DbTypes, OutTypes
<1>3. EngineTypes'
  BY <1>1 DEF TriggerStart, EngineTypes
<1>4. LoopTypes'
  BY <1>1, LoopResetTypes DEF TriggerStart, LoopTypes, LoopPc, loopVars
<1>5. ReqTypes'
  BY ReturnTypes DEF TriggerStart
<1>6. OneOpenIncident'
  BY DEF TriggerStart, dbVars, incidentVars, OneOpenIncident, Open
<1>7. RequestHoldsId' /\ DiagnosisHoldsVerdict'
  BY <1>1 DEF TriggerStart, Return, Enter, LoopReset, ReqTypes, LoopTypes, loopVars, RequestHoldsId, DiagnosisHoldsVerdict
<1>8. QED
  BY <1>1, <1>2, <1>3, <1>4, <1>5, <1>6, <1>7

\* CloseBegin preserves the invariant.
LEMMA CloseBeginInv ==
    ASSUME TypeInv, NEW r \in Requests, CloseBegin(r)
    PROVE  TypeInv'
<1> USE DEF TypeInv, TypeOK
<1>1. DbTypes' /\ OutTypes' /\ EngineTypes' /\ LoopTypes'
  BY DEF CloseBegin, dbVars, incidentVars, outVars, engineVars, loopVars, DbTypes, OutTypes, EngineTypes, LoopTypes
<1>2. ReqTypes'
  BY LatestOpenFacts, EnterTypes DEF CloseBegin, ReqPc, ReqOp
<1>3. OneOpenIncident'
  BY DEF CloseBegin, dbVars, incidentVars, OneOpenIncident, Open
<1>4. RequestHoldsId' /\ DiagnosisHoldsVerdict'
  BY LatestOpenFacts, EnterHolds DEF CloseBegin, ReqPc, ReqOp
<1>5. QED
  BY <1>1, <1>2, <1>3, <1>4

\* CloseCommit preserves the invariant.
LEMMA CloseCommitInv ==
    ASSUME TypeInv, NEW r \in Requests, CloseCommit(r)
    PROVE  TypeInv'
<1> USE DEF TypeInv, TypeOK
<1>1. inc[r] \in Ids
  BY DEF CloseCommit, RequestHoldsId
<1>2. OutTypes' /\ EngineTypes' /\ LoopTypes'
  BY DEF CloseCommit, outVars, engineVars, loopVars, OutTypes, EngineTypes, LoopTypes
<1>3. DbTypes'
  BY <1>1 DEF CloseCommit, CloseSegments, SetResolved, DbTypes, State
<1>4. ReqTypes'
  BY GotoTypes, ReturnTypes DEF CloseCommit, ReqPc
<1>5. OneOpenIncident'
  BY <1>1 DEF CloseCommit, SetResolved, DbTypes, OneOpenIncident, Open
<1>6. RequestHoldsId' /\ DiagnosisHoldsVerdict'
  BY <1>1, GotoHolds, ReturnHolds DEF CloseCommit, ReqPc
<1>7. QED
  BY <1>1, <1>2, <1>3, <1>4, <1>5, <1>6

\* FalseAlarmBegin preserves the invariant.
LEMMA FalseAlarmBeginInv ==
    ASSUME TypeInv, NEW r \in Requests, FalseAlarmBegin(r)
    PROVE  TypeInv'
<1> USE DEF TypeInv, TypeOK
<1>1. DbTypes' /\ OutTypes' /\ EngineTypes' /\ LoopTypes'
  BY DEF FalseAlarmBegin, dbVars, incidentVars, outVars, engineVars, loopVars, DbTypes, OutTypes, EngineTypes, LoopTypes
<1>2. ReqTypes'
  BY EnterTypes DEF FalseAlarmBegin, ReqPc, ReqOp
<1>3. OneOpenIncident'
  BY DEF FalseAlarmBegin, dbVars, incidentVars, OneOpenIncident, Open
<1>4. RequestHoldsId' /\ DiagnosisHoldsVerdict'
  BY EnterHolds DEF FalseAlarmBegin, ReqPc, ReqOp
<1>5. QED
  BY <1>1, <1>2, <1>3, <1>4

\* FalseAlarmCommit preserves the invariant.
LEMMA FalseAlarmCommitInv ==
    ASSUME TypeInv, NEW r \in Requests, FalseAlarmCommit(r)
    PROVE  TypeInv'
<1> USE DEF TypeInv, TypeOK
<1>1. inc[r] \in Ids
  BY DEF FalseAlarmCommit, RequestHoldsId
<1>2. OutTypes' /\ EngineTypes' /\ LoopTypes'
  BY DEF FalseAlarmCommit, outVars, engineVars, loopVars, OutTypes, EngineTypes, LoopTypes
<1>3. DbTypes'
  BY <1>1 DEF FalseAlarmCommit, CloseSegments, SetResolved, DbTypes, State, Code, Verdicts
<1>4. ReqTypes'
  BY GotoTypes DEF FalseAlarmCommit, ReqPc
<1>5. OneOpenIncident'
  BY <1>1 DEF FalseAlarmCommit, SetResolved, DbTypes, OneOpenIncident, Open
<1>6. RequestHoldsId' /\ DiagnosisHoldsVerdict'
  BY <1>1, GotoHolds DEF FalseAlarmCommit, ReqPc
<1>7. QED
  BY <1>1, <1>2, <1>3, <1>4, <1>5, <1>6

\* EmitClosed preserves the invariant.
LEMMA EmitClosedInv ==
    ASSUME TypeInv, NEW r \in Requests, EmitClosed(r)
    PROVE  TypeInv'
<1> USE DEF TypeInv, TypeOK
<1>1. inc[r] \in Ids
  BY DEF EmitClosed, RequestHoldsId
<1>2. DbTypes' /\ EngineTypes' /\ LoopTypes'
  BY DEF EmitClosed, dbVars, incidentVars, engineVars, loopVars, DbTypes, EngineTypes, LoopTypes
<1>3. OutTypes'
  BY <1>1 DEF EmitClosed, OutTypes, Event
<1>4. ReqTypes'
  BY ReturnTypes DEF EmitClosed
<1>5. OneOpenIncident'
  BY DEF EmitClosed, dbVars, incidentVars, OneOpenIncident, Open
<1>6. RequestHoldsId' /\ DiagnosisHoldsVerdict'
  BY ReturnHolds DEF EmitClosed
<1>7. QED
  BY <1>1, <1>2, <1>3, <1>4, <1>5, <1>6

\* EmitMarked preserves the invariant.
LEMMA EmitMarkedInv ==
    ASSUME TypeInv, NEW r \in Requests, EmitMarked(r)
    PROVE  TypeInv'
<1> USE DEF TypeInv, TypeOK
<1>1. inc[r] \in Ids
  BY DEF EmitMarked, RequestHoldsId
<1>2. DbTypes' /\ EngineTypes' /\ LoopTypes'
  BY DEF EmitMarked, dbVars, incidentVars, engineVars, loopVars, DbTypes, EngineTypes, LoopTypes
<1>3. OutTypes'
  BY <1>1 DEF EmitMarked, OutTypes, Event
<1>4. ReqTypes'
  BY ReturnTypes DEF EmitMarked
<1>5. OneOpenIncident'
  BY DEF EmitMarked, dbVars, incidentVars, OneOpenIncident, Open
<1>6. RequestHoldsId' /\ DiagnosisHoldsVerdict'
  BY ReturnHolds DEF EmitMarked
<1>7. QED
  BY <1>1, <1>2, <1>3, <1>4, <1>5, <1>6

\* RecheckBegin preserves the invariant.
LEMMA RecheckBeginInv ==
    ASSUME TypeInv, NEW r \in Requests, RecheckBegin(r)
    PROVE  TypeInv'
<1> USE DEF TypeInv, TypeOK
<1>1. DbTypes' /\ OutTypes' /\ EngineTypes' /\ LoopTypes'
  BY DEF RecheckBegin, BeginDiagnosis, dbVars, incidentVars, outVars, engineVars, loopVars, DbTypes, OutTypes, EngineTypes, LoopTypes
<1>2. ReqTypes'
  BY LatestOpenFacts, EnterTypes DEF RecheckBegin, BeginDiagnosis, ReqPc, ReqOp
<1>3. OneOpenIncident'
  BY DEF RecheckBegin, BeginDiagnosis, dbVars, incidentVars, OneOpenIncident, Open
<1>4. RequestHoldsId' /\ DiagnosisHoldsVerdict'
  BY LatestOpenFacts, EnterHolds DEF RecheckBegin, BeginDiagnosis, ReqPc, ReqOp
<1>5. QED
  BY <1>1, <1>2, <1>3, <1>4

\* VerifyBegin preserves the invariant.
LEMMA VerifyBeginInv ==
    ASSUME TypeInv, NEW r \in Requests, VerifyBegin(r)
    PROVE  TypeInv'
<1> USE DEF TypeInv, TypeOK
<1>1. DbTypes' /\ OutTypes' /\ EngineTypes' /\ LoopTypes'
  BY DEF VerifyBegin, BeginDiagnosis, dbVars, incidentVars, outVars, engineVars, loopVars, DbTypes, OutTypes, EngineTypes, LoopTypes
<1>2. ReqTypes'
  BY LatestOpenFacts, EnterTypes DEF VerifyBegin, BeginDiagnosis, ReqPc, ReqOp
<1>3. OneOpenIncident'
  BY DEF VerifyBegin, BeginDiagnosis, dbVars, incidentVars, OneOpenIncident, Open
<1>4. RequestHoldsId' /\ DiagnosisHoldsVerdict'
  BY LatestOpenFacts, EnterHolds DEF VerifyBegin, BeginDiagnosis, ReqPc, ReqOp
<1>5. QED
  BY <1>1, <1>2, <1>3, <1>4

\* ManualBegin preserves the invariant.
LEMMA ManualBeginInv ==
    ASSUME TypeInv, NEW r \in Requests, ManualBegin(r)
    PROVE  TypeInv'
<1> USE DEF TypeInv, TypeOK
<1>1. DbTypes' /\ OutTypes' /\ EngineTypes' /\ LoopTypes'
  BY DEF ManualBegin, BeginDiagnosis, dbVars, incidentVars, outVars, engineVars, loopVars, DbTypes, OutTypes, EngineTypes, LoopTypes
<1>2. ReqTypes'
  BY LatestOpenFacts, EnterTypes DEF ManualBegin, BeginDiagnosis, ReqPc, ReqOp
<1>3. OneOpenIncident'
  BY DEF ManualBegin, BeginDiagnosis, dbVars, incidentVars, OneOpenIncident, Open
<1>4. RequestHoldsId' /\ DiagnosisHoldsVerdict'
  BY LatestOpenFacts, EnterHolds DEF ManualBegin, BeginDiagnosis, ReqPc, ReqOp
<1>5. QED
  BY <1>1, <1>2, <1>3, <1>4

\* BaselineBegin preserves the invariant.
LEMMA BaselineBeginInv ==
    ASSUME TypeInv, NEW r \in Requests, BaselineBegin(r)
    PROVE  TypeInv'
<1> USE DEF TypeInv, TypeOK
<1>1. DbTypes' /\ OutTypes' /\ EngineTypes' /\ LoopTypes'
  BY DEF BaselineBegin, BeginDiagnosis, dbVars, incidentVars, outVars, engineVars, loopVars, DbTypes, OutTypes, EngineTypes, LoopTypes
<1>2. ReqTypes'
  BY LatestOpenFacts, EnterTypes DEF BaselineBegin, BeginDiagnosis, ReqPc, ReqOp
<1>3. OneOpenIncident'
  BY DEF BaselineBegin, BeginDiagnosis, dbVars, incidentVars, OneOpenIncident, Open
<1>4. RequestHoldsId' /\ DiagnosisHoldsVerdict'
  BY LatestOpenFacts, EnterHolds DEF BaselineBegin, BeginDiagnosis, ReqPc, ReqOp
<1>5. QED
  BY <1>1, <1>2, <1>3, <1>4

\* DiagnoseStart preserves the invariant.
LEMMA DiagnoseStartInv ==
    ASSUME TypeInv, NEW r \in Requests, DiagnoseStart(r)
    PROVE  TypeInv'
<1> USE DEF TypeInv, TypeOK
<1>1. DbTypes' /\ OutTypes' /\ LoopTypes'
  BY DEF DiagnoseStart, dbVars, incidentVars, outVars, loopVars, DbTypes, OutTypes, LoopTypes
<1>2. EngineTypes'
  BY DEF DiagnoseStart, EngineTypes
<1>3. ReqTypes'
  BY GotoTypes, ReturnTypes DEF DiagnoseStart, ReqPc
<1>4. OneOpenIncident'
  BY DEF DiagnoseStart, dbVars, incidentVars, OneOpenIncident, Open
<1>5. RequestHoldsId' /\ DiagnosisHoldsVerdict'
  BY GotoHolds, ReturnHolds DEF DiagnoseStart, ReqPc
<1>6. QED
  BY <1>1, <1>2, <1>3, <1>4, <1>5

\* DiagnoseProbe preserves the invariant.
LEMMA DiagnoseProbeInv ==
    ASSUME TypeInv, NEW r \in Requests, DiagnoseProbe(r)
    PROVE  TypeInv'
<1> USE DEF TypeInv, TypeOK
<1>1. DbTypes' /\ OutTypes' /\ LoopTypes'
  BY DEF DiagnoseProbe, dbVars, incidentVars, outVars, loopVars, DbTypes, OutTypes, LoopTypes
<1>2. EngineTypes'
  BY DEF DiagnoseProbe, EngineTypes
<1>3. ReqTypes'
  BY DEF DiagnoseProbe, Goto, ReqTypes, ReqPc, Code
<1>4. OneOpenIncident'
  BY DEF DiagnoseProbe, dbVars, incidentVars, OneOpenIncident, Open
<1>5. RequestHoldsId' /\ DiagnosisHoldsVerdict'
  BY DEF DiagnoseProbe, Goto, ReqTypes, loopVars, RequestHoldsId, DiagnosisHoldsVerdict
<1>6. QED
  BY <1>1, <1>2, <1>3, <1>4, <1>5

\* DiagnoseCached preserves the invariant.
LEMMA DiagnoseCachedInv ==
    ASSUME TypeInv, NEW r \in Requests, DiagnoseCached(r)
    PROVE  TypeInv'
<1> USE DEF TypeInv, TypeOK
<1>1. DbTypes' /\ OutTypes' /\ EngineTypes' /\ LoopTypes'
  BY DEF DiagnoseCached, dbVars, incidentVars, outVars, engineVars, loopVars, DbTypes, OutTypes, EngineTypes, LoopTypes
<1>2. ReqTypes'
  BY DEF DiagnoseCached, Goto, ReqTypes, ReqPc, Code
<1>3. OneOpenIncident'
  BY DEF DiagnoseCached, dbVars, incidentVars, OneOpenIncident, Open
<1>4. RequestHoldsId' /\ DiagnosisHoldsVerdict'
  BY DEF DiagnoseCached, Goto, ReqTypes, loopVars, RequestHoldsId, DiagnosisHoldsVerdict
<1>5. QED
  BY <1>1, <1>2, <1>3, <1>4

\* DiagnoseRecord preserves the invariant.
LEMMA DiagnoseRecordInv ==
    ASSUME TypeInv, NEW r \in Requests, DiagnoseRecord(r)
    PROVE  TypeInv'
<1> USE DEF TypeInv, TypeOK
<1>1. inc[r] \in Ids \cup {NoId} /\ found[r] \in Verdicts
  BY DEF DiagnoseRecord, ReqTypes, DiagnosisHoldsVerdict
<1>2. OutTypes' /\ EngineTypes' /\ LoopTypes'
  BY DEF DiagnoseRecord, outVars, engineVars, loopVars, OutTypes, EngineTypes, LoopTypes
<1>3. DbTypes'
  BY <1>1, RecordRunTypes DEF DiagnoseRecord, dbVars, incidentVars, DbTypes
<1>4. ReqTypes'
  BY GotoTypes, ReturnTypes DEF DiagnoseRecord, ReqPc
<1>5. OneOpenIncident'
  BY DEF DiagnoseRecord, RecordRun, dbVars, incidentVars, OneOpenIncident, Open
<1>6. RequestHoldsId' /\ DiagnosisHoldsVerdict'
  BY GotoHolds, ReturnHolds DEF DiagnoseRecord, ReqPc
<1>7. QED
  BY <1>1, <1>2, <1>3, <1>4, <1>5, <1>6

\* DiagnoseJudge preserves the invariant.
LEMMA DiagnoseJudgeInv ==
    ASSUME TypeInv, NEW r \in Requests, DiagnoseJudge(r)
    PROVE  TypeInv'
<1> USE DEF TypeInv, TypeOK
<1>1. DbTypes' /\ OutTypes' /\ EngineTypes' /\ LoopTypes'
  BY DEF DiagnoseJudge, dbVars, incidentVars, outVars, engineVars, loopVars, DbTypes, OutTypes, EngineTypes, LoopTypes
<1>2. ReqTypes'
  BY GotoTypes, ReturnTypes DEF DiagnoseJudge, ReqPc
<1>3. OneOpenIncident'
  BY DEF DiagnoseJudge, dbVars, incidentVars, OneOpenIncident, Open
<1>4. RequestHoldsId' /\ DiagnosisHoldsVerdict'
  BY GotoHolds, ReturnHolds DEF DiagnoseJudge, ReqPc
<1>5. QED
  BY <1>1, <1>2, <1>3, <1>4

\* RequestFail preserves the invariant.
LEMMA RequestFailInv ==
    ASSUME TypeInv, NEW r \in Requests, RequestFail(r)
    PROVE  TypeInv'
<1> USE DEF TypeInv, TypeOK
<1>1. DbTypes' /\ OutTypes' /\ LoopTypes'
  BY DEF RequestFail, dbVars, incidentVars, outVars, loopVars, DbTypes, OutTypes, LoopTypes
<1>2. EngineTypes'
  BY DEF RequestFail, EngineTypes
<1>3. ReqTypes'
  BY ReturnTypes DEF RequestFail
<1>4. OneOpenIncident'
  BY DEF RequestFail, dbVars, incidentVars, OneOpenIncident, Open
<1>5. RequestHoldsId' /\ DiagnosisHoldsVerdict'
  BY ReturnHolds DEF RequestFail
<1>6. QED
  BY <1>1, <1>2, <1>3, <1>4, <1>5

-----------------------------------------------------------------------------
(* The recheck loops.                                                      *)

\* LoopStart preserves the invariant.
LEMMA LoopStartInv ==
    ASSUME TypeInv, NEW i \in Ids, LoopStart(i)
    PROVE  TypeInv'
<1> USE DEF TypeInv, TypeOK
<1>1. DbTypes' /\ OutTypes' /\ EngineTypes' /\ ReqTypes'
  BY DEF LoopStart, dbVars, incidentVars, outVars, engineVars, reqVars, DbTypes, OutTypes, EngineTypes, ReqTypes
<1>2. LoopTypes'
  BY DEF LoopStart, LoopTypes, LoopPc
<1>3. OneOpenIncident'
  BY DEF LoopStart, dbVars, incidentVars, OneOpenIncident, Open
<1>4. RequestHoldsId' /\ DiagnosisHoldsVerdict'
  BY DEF LoopStart, loopVars, reqVars, LoopTypes, RequestHoldsId, DiagnosisHoldsVerdict
<1>5. QED
  BY <1>1, <1>2, <1>3, <1>4

\* LoopWake preserves the invariant.
LEMMA LoopWakeInv ==
    ASSUME TypeInv, NEW i \in Ids, LoopWake(i)
    PROVE  TypeInv'
<1> USE DEF TypeInv, TypeOK
<1>1. DbTypes' /\ OutTypes' /\ EngineTypes' /\ ReqTypes'
  BY DEF LoopWake, dbVars, incidentVars, outVars, engineVars, reqVars, DbTypes, OutTypes, EngineTypes, ReqTypes
<1>2. LoopTypes'
  BY LoopGotoTypes DEF LoopWake, LoopPc
<1>3. OneOpenIncident'
  BY DEF LoopWake, dbVars, incidentVars, OneOpenIncident, Open
<1>4. RequestHoldsId' /\ DiagnosisHoldsVerdict'
  BY LoopGotoHolds DEF LoopWake, LoopPc
<1>5. QED
  BY <1>1, <1>2, <1>3, <1>4

\* LoopDeadline preserves the invariant.
LEMMA LoopDeadlineInv ==
    ASSUME TypeInv, NEW i \in Ids, LoopDeadline(i)
    PROVE  TypeInv'
<1> USE DEF TypeInv, TypeOK
<1>1. DbTypes' /\ OutTypes' /\ EngineTypes' /\ ReqTypes'
  BY DEF LoopDeadline, dbVars, incidentVars, outVars, engineVars, reqVars, DbTypes, OutTypes, EngineTypes, ReqTypes
<1>2. LoopTypes'
  BY LoopGotoTypes DEF LoopDeadline, LoopPc
<1>3. OneOpenIncident'
  BY DEF LoopDeadline, dbVars, incidentVars, OneOpenIncident, Open
<1>4. RequestHoldsId' /\ DiagnosisHoldsVerdict'
  BY LoopGotoHolds DEF LoopDeadline, LoopPc
<1>5. QED
  BY <1>1, <1>2, <1>3, <1>4

\* LoopCheck preserves the invariant.
LEMMA LoopCheckInv ==
    ASSUME TypeInv, NEW i \in Ids, LoopCheck(i)
    PROVE  TypeInv'
<1> USE DEF TypeInv, TypeOK
<1>1. DbTypes' /\ OutTypes' /\ EngineTypes' /\ ReqTypes'
  BY DEF LoopCheck, dbVars, incidentVars, outVars, engineVars, reqVars, DbTypes, OutTypes, EngineTypes, ReqTypes
<1>2. LoopTypes'
  BY LoopGotoTypes, LoopResetTypes DEF LoopCheck, LoopPc
<1>3. OneOpenIncident'
  BY DEF LoopCheck, dbVars, incidentVars, OneOpenIncident, Open
<1>4. RequestHoldsId' /\ DiagnosisHoldsVerdict'
  BY LoopGotoHolds, LoopResetHolds DEF LoopCheck, LoopPc, reqVars
<1>5. QED
  BY <1>1, <1>2, <1>3, <1>4

\* LoopLadder preserves the invariant.
LEMMA LoopLadderInv ==
    ASSUME TypeInv, NEW i \in Ids, LoopLadder(i)
    PROVE  TypeInv'
<1> USE DEF TypeInv, TypeOK
<1>1. DbTypes' /\ OutTypes' /\ ReqTypes'
  BY DEF LoopLadder, dbVars, incidentVars, outVars, reqVars, DbTypes, OutTypes, ReqTypes
<1>2. EngineTypes'
  BY DEF LoopLadder, EngineTypes
<1>3. LoopTypes'
  BY LoopGotoTypes DEF LoopLadder, LoopPc
<1>4. OneOpenIncident'
  BY DEF LoopLadder, dbVars, incidentVars, OneOpenIncident, Open
<1>5. RequestHoldsId' /\ DiagnosisHoldsVerdict'
  BY LoopGotoHolds DEF LoopLadder, LoopPc
<1>6. QED
  BY <1>1, <1>2, <1>3, <1>4, <1>5

\* LoopProbe preserves the invariant.
LEMMA LoopProbeInv ==
    ASSUME TypeInv, NEW i \in Ids, LoopProbe(i)
    PROVE  TypeInv'
<1> USE DEF TypeInv, TypeOK
<1>1. DbTypes' /\ OutTypes' /\ ReqTypes'
  BY DEF LoopProbe, dbVars, incidentVars, outVars, reqVars, DbTypes, OutTypes, ReqTypes
<1>2. EngineTypes'
  BY DEF LoopProbe, EngineTypes
<1>3. LoopTypes'
  BY DEF LoopProbe, LoopTypes, LoopPc, Code
<1>4. OneOpenIncident'
  BY DEF LoopProbe, dbVars, incidentVars, OneOpenIncident, Open
<1>5. RequestHoldsId' /\ DiagnosisHoldsVerdict'
  BY DEF LoopProbe, loopVars, reqVars, LoopTypes, RequestHoldsId, DiagnosisHoldsVerdict
<1>6. QED
  BY <1>1, <1>2, <1>3, <1>4, <1>5

\* LoopRecord preserves the invariant.
LEMMA LoopRecordInv ==
    ASSUME TypeInv, NEW i \in Ids, LoopRecord(i)
    PROVE  TypeInv'
<1> USE DEF TypeInv, TypeOK
<1>1. seen[i] \in Verdicts
  BY DEF LoopRecord, DiagnosisHoldsVerdict
<1>2. OutTypes' /\ EngineTypes' /\ ReqTypes'
  BY DEF LoopRecord, outVars, engineVars, reqVars, OutTypes, EngineTypes, ReqTypes
<1>3. DbTypes'
  BY <1>1, RecordRunTypes DEF LoopRecord
<1>4. LoopTypes'
  BY LoopGotoTypes DEF LoopRecord, LoopPc
<1>5. OneOpenIncident'
  BY DEF LoopRecord, RecordRun, OneOpenIncident, Open
<1>6. RequestHoldsId' /\ DiagnosisHoldsVerdict'
  BY <1>1, LoopGotoHolds DEF LoopRecord, LoopPc
<1>7. QED
  BY <1>1, <1>2, <1>3, <1>4, <1>5, <1>6

\* LoopClear preserves the invariant.
LEMMA LoopClearInv ==
    ASSUME TypeInv, NEW i \in Ids, LoopClear(i)
    PROVE  TypeInv'
<1> USE DEF TypeInv, TypeOK
<1>1. DbTypes' /\ OutTypes' /\ EngineTypes' /\ ReqTypes'
  BY DEF LoopClear, dbVars, incidentVars, outVars, engineVars, reqVars, DbTypes, OutTypes, EngineTypes, ReqTypes
<1>2. LoopTypes'
  BY DEF LoopClear, LoopTypes, LoopPc, Code
<1>3. OneOpenIncident'
  BY DEF LoopClear, dbVars, incidentVars, OneOpenIncident, Open
<1>4. RequestHoldsId' /\ DiagnosisHoldsVerdict'
  BY DEF LoopClear, loopVars, reqVars, LoopTypes, RequestHoldsId, DiagnosisHoldsVerdict
<1>5. QED
  BY <1>1, <1>2, <1>3, <1>4

\* LoopFault preserves the invariant.
LEMMA LoopFaultInv ==
    ASSUME TypeInv, NEW i \in Ids, LoopFault(i)
    PROVE  TypeInv'
<1> USE DEF TypeInv, TypeOK
<1>1. seen[i] \in Codes
  BY DEF LoopFault, DiagnosisHoldsVerdict, Verdicts, IsOk
<1>2. OutTypes' /\ EngineTypes' /\ ReqTypes'
  BY DEF LoopFault, outVars, engineVars, reqVars, OutTypes, EngineTypes, ReqTypes
<1>3. DbTypes'
  BY <1>1 DEF LoopFault, DbTypes, Code, Verdicts
<1>4. LoopTypes'
  BY <1>1 DEF LoopFault, LoopTypes, LoopPc
<1>5. OneOpenIncident'
  BY DEF LoopFault, OneOpenIncident, Open
<1>6. RequestHoldsId' /\ DiagnosisHoldsVerdict'
  BY <1>1 DEF LoopFault, loopVars, reqVars, LoopTypes, RequestHoldsId, DiagnosisHoldsVerdict
<1>7. QED
  BY <1>1, <1>2, <1>3, <1>4, <1>5, <1>6

\* LoopAnnounce preserves the invariant.
LEMMA LoopAnnounceInv ==
    ASSUME TypeInv, NEW i \in Ids, LoopAnnounce(i)
    PROVE  TypeInv'
<1> USE DEF TypeInv, TypeOK
<1>1. seen[i] \in Codes
  BY DEF LoopAnnounce, DiagnosisHoldsVerdict
<1>2. DbTypes' /\ EngineTypes' /\ ReqTypes'
  BY DEF LoopAnnounce, dbVars, incidentVars, engineVars, reqVars, DbTypes, EngineTypes, ReqTypes
<1>3. OutTypes'
  BY <1>1 DEF LoopAnnounce, Announcement, OutTypes, Event
<1>4. LoopTypes'
  BY <1>1 DEF LoopAnnounce, LoopTypes, LoopPc, Code
<1>5. OneOpenIncident'
  BY DEF LoopAnnounce, dbVars, incidentVars, OneOpenIncident, Open
<1>6. RequestHoldsId' /\ DiagnosisHoldsVerdict'
  BY DEF LoopAnnounce, loopVars, reqVars, LoopTypes, RequestHoldsId, DiagnosisHoldsVerdict
<1>7. QED
  BY <1>1, <1>2, <1>3, <1>4, <1>5, <1>6

\* LoopRecovered preserves the invariant.
LEMMA LoopRecoveredInv ==
    ASSUME TypeInv, NEW i \in Ids, LoopRecovered(i)
    PROVE  TypeInv'
<1> USE DEF TypeInv, TypeOK
<1>1. DbTypes' /\ EngineTypes' /\ ReqTypes'
  BY DEF LoopRecovered, dbVars, incidentVars, engineVars, reqVars, DbTypes, EngineTypes, ReqTypes
<1>2. OutTypes'
  BY DEF LoopRecovered, OutTypes, Event
<1>3. LoopTypes'
  BY LoopGotoTypes DEF LoopRecovered, LoopPc
<1>4. OneOpenIncident'
  BY DEF LoopRecovered, dbVars, incidentVars, OneOpenIncident, Open
<1>5. RequestHoldsId' /\ DiagnosisHoldsVerdict'
  BY LoopGotoHolds DEF LoopRecovered, LoopPc
<1>6. QED
  BY <1>1, <1>2, <1>3, <1>4, <1>5

\* LoopClose preserves the invariant.
LEMMA LoopCloseInv ==
    ASSUME TypeInv, NEW i \in Ids, LoopClose(i)
    PROVE  TypeInv'
<1> USE DEF TypeInv, TypeOK
<1>1. Final(i) \in Code
  BY DEF Final, LoopTypes, Code, Verdicts
<1>2. openSegs' \in [Ids -> Nat] /\ state' \in [Ids -> State]
  BY DEF LoopClose, CloseSegments, SetResolved, DbTypes, State
<1>3. recovered' \in [Ids -> BOOLEAN]
  BY DEF LoopClose, DbTypes
<1>4. OutTypes' /\ EngineTypes' /\ ReqTypes'
  BY DEF LoopClose, outVars, engineVars, reqVars, OutTypes, EngineTypes, ReqTypes
<1>5. DbTypes'
  BY <1>1, <1>2, <1>3 DEF LoopClose, DbTypes
<1>6. LoopTypes'
  BY LoopGotoTypes, LoopResetTypes DEF LoopClose, LoopPc
<1>7. OneOpenIncident'
  BY DEF LoopClose, SetResolved, DbTypes, OneOpenIncident, Open
<1>8. RequestHoldsId' /\ DiagnosisHoldsVerdict'
  BY LoopGotoHolds, LoopResetHolds DEF LoopClose, LoopPc, reqVars
<1>9. QED
  BY <1>1, <1>2, <1>3, <1>4, <1>5, <1>6, <1>7, <1>8

\* LoopClosed preserves the invariant.
LEMMA LoopClosedInv ==
    ASSUME TypeInv, NEW i \in Ids, LoopClosed(i)
    PROVE  TypeInv'
<1> USE DEF TypeInv, TypeOK
<1>1. DbTypes' /\ EngineTypes' /\ ReqTypes'
  BY DEF LoopClosed, dbVars, incidentVars, engineVars, reqVars, DbTypes, EngineTypes, ReqTypes
<1>2. OutTypes'
  BY DEF LoopClosed, OutTypes, Event
<1>3. LoopTypes'
  BY LoopResetTypes DEF LoopClosed, LoopPc
<1>4. OneOpenIncident'
  BY DEF LoopClosed, dbVars, incidentVars, OneOpenIncident, Open
<1>5. RequestHoldsId' /\ DiagnosisHoldsVerdict'
  BY LoopResetHolds DEF LoopClosed, LoopPc, reqVars
<1>6. QED
  BY <1>1, <1>2, <1>3, <1>4, <1>5

\* LoopFail preserves the invariant.
LEMMA LoopFailInv ==
    ASSUME TypeInv, NEW i \in Ids, LoopFail(i)
    PROVE  TypeInv'
<1> USE DEF TypeInv, TypeOK
<1>1. DbTypes' /\ OutTypes' /\ ReqTypes'
  BY DEF LoopFail, dbVars, incidentVars, outVars, reqVars, DbTypes, OutTypes, ReqTypes
<1>2. EngineTypes'
  BY DEF LoopFail, EngineTypes
<1>3. LoopTypes'
  BY DEF LoopFail, LoopTypes, LoopPc, Code
<1>4. OneOpenIncident'
  BY DEF LoopFail, dbVars, incidentVars, OneOpenIncident, Open
<1>5. RequestHoldsId' /\ DiagnosisHoldsVerdict'
  BY DEF LoopFail, loopVars, reqVars, LoopTypes, RequestHoldsId, DiagnosisHoldsVerdict
<1>6. QED
  BY <1>1, <1>2, <1>3, <1>4, <1>5

\* LoopFaultFail preserves the invariant.
LEMMA LoopFaultFailInv ==
    ASSUME TypeInv, NEW i \in Ids, LoopFaultFail(i)
    PROVE  TypeInv'
<1> USE DEF TypeInv, TypeOK
<1>1. seen[i] \in Codes
  BY DEF LoopFaultFail, DiagnosisHoldsVerdict, Verdicts, IsOk
<1>2. DbTypes' /\ OutTypes' /\ EngineTypes' /\ ReqTypes'
  BY DEF LoopFaultFail, dbVars, incidentVars, outVars, engineVars, reqVars, DbTypes, OutTypes, EngineTypes, ReqTypes
<1>3. LoopTypes'
  BY <1>1 DEF LoopFaultFail, LoopTypes, LoopPc, Code
<1>4. OneOpenIncident'
  BY DEF LoopFaultFail, dbVars, incidentVars, OneOpenIncident, Open
<1>5. RequestHoldsId' /\ DiagnosisHoldsVerdict'
  BY DEF LoopFaultFail, loopVars, reqVars, LoopTypes, RequestHoldsId, DiagnosisHoldsVerdict
<1>6. QED
  BY <1>1, <1>2, <1>3, <1>4, <1>5

\* LoopDie preserves the invariant.
LEMMA LoopDieInv ==
    ASSUME TypeInv, NEW i \in Ids, LoopDie(i)
    PROVE  TypeInv'
<1> USE DEF TypeInv, TypeOK
<1>1. DbTypes' /\ OutTypes' /\ EngineTypes' /\ ReqTypes'
  BY DEF LoopDie, dbVars, incidentVars, outVars, engineVars, reqVars, DbTypes, OutTypes, EngineTypes, ReqTypes
<1>2. LoopTypes'
  BY LoopResetTypes DEF LoopDie, LoopPc
<1>3. OneOpenIncident'
  BY DEF LoopDie, dbVars, incidentVars, OneOpenIncident, Open
<1>4. RequestHoldsId' /\ DiagnosisHoldsVerdict'
  BY LoopResetHolds DEF LoopDie, LoopPc, reqVars
<1>5. QED
  BY <1>1, <1>2, <1>3, <1>4

-----------------------------------------------------------------------------
(* The janitor and the restart.                                            *)

\* JanitorSweep preserves the invariant.
LEMMA JanitorSweepInv ==
    ASSUME TypeInv, JanitorSweep
    PROVE  TypeInv'
<1> USE DEF TypeInv, TypeOK
<1>1. PICK Old \in SUBSET Ids, S \in SUBSET Ids :
         /\ state' = Without(state, S, "absent") /\ recovered' = Without(recovered, S, FALSE)
         /\ falseAlarm' = Without(falseAlarm, S, FALSE)
         /\ verdict' = Without(verdict, S, "none") /\ diagnosis' = Without(diagnosis, S, "none")
         /\ openSegs' = Without(openSegs, S, 0) /\ newestRun' = Without(newestRun, Old, "none")
         /\ evidence' = [i \in Ids |->
               IF i \in S \/ (i \in Old /\ evidence[i] = "late") THEN "none" ELSE evidence[i]]
         /\ lastTold' = Without(lastTold, S, "none")
         /\ closedNotices' = Without(closedNotices, S, 0)
  BY DEF JanitorSweep, Resolved
<1>2. EngineTypes' /\ LoopTypes' /\ ReqTypes'
  BY DEF JanitorSweep, engineVars, loopVars, reqVars, EngineTypes, LoopTypes, ReqTypes
<1>3. DbTypes'
  BY <1>1 DEF Without, DbTypes, State, Code
<1>4. OutTypes'
  BY <1>1 DEF Without, OutTypes
<1>5. OneOpenIncident'
  BY <1>1 DEF Without, OneOpenIncident, Open
<1>6. RequestHoldsId' /\ DiagnosisHoldsVerdict'
  BY DEF JanitorSweep, reqVars, loopVars, RequestHoldsId, DiagnosisHoldsVerdict
<1>7. QED
  BY <1>1, <1>2, <1>3, <1>4, <1>5, <1>6

\* CrashRestart preserves the invariant.
LEMMA CrashRestartInv ==
    ASSUME TypeInv, CrashRestart
    PROVE  TypeInv'
<1> USE DEF TypeInv, TypeOK
<1>1. LatestOpen \in Ids \cup {NoId}
  BY LatestOpenFacts
<1>2. OutTypes'
  BY DEF CrashRestart, outVars, OutTypes
<1>3. DbTypes'
  BY DEF CrashRestart, Migrate, DbTypes, Code
<1>4. EngineTypes'
  BY <1>1 DEF CrashRestart, FreshProcess, EngineTypes
<1>5. LoopTypes'
  BY DEF CrashRestart, FreshProcess, LoopTypes, LoopPc, Code
<1>6. ReqTypes'
  BY DEF CrashRestart, FreshProcess, ReqTypes, ReqPc, ReqOp, Code
<1>7. OneOpenIncident'
  BY DEF CrashRestart, Migrate, OneOpenIncident, Open
<1>8. RequestHoldsId' /\ DiagnosisHoldsVerdict'
  BY DEF CrashRestart, FreshProcess, RequestHoldsId, DiagnosisHoldsVerdict
<1>9. QED
  BY <1>1, <1>2, <1>3, <1>4, <1>5, <1>6, <1>7, <1>8

-----------------------------------------------------------------------------
\* A step that changes nothing preserves the invariant.
LEMMA StutterTypeInv == TypeInv /\ UNCHANGED vars => TypeInv'
<1> SUFFICES ASSUME TypeInv, UNCHANGED vars PROVE TypeInv'
  OBVIOUS
<1>1. UNCHANGED <<dbVars, outVars, engineVars, loopVars, reqVars>>
  BY DEF vars
<1>2. DbTypes' /\ OutTypes' /\ EngineTypes'
  BY <1>1 DEF TypeInv, TypeOK, DbTypes, OutTypes, EngineTypes, dbVars,
              incidentVars, outVars, engineVars
<1>3. LoopTypes' /\ ReqTypes'
  BY <1>1 DEF TypeInv, TypeOK, LoopTypes, ReqTypes, loopVars, reqVars
<1>4. OneOpenIncident'
  BY <1>1 DEF TypeInv, OneOpenIncident, Open, dbVars, incidentVars
<1>5. RequestHoldsId' /\ DiagnosisHoldsVerdict'
  BY <1>1 DEF TypeInv, RequestHoldsId, DiagnosisHoldsVerdict, loopVars, reqVars
<1>6. QED
  BY <1>2, <1>3, <1>4, <1>5 DEF TypeInv, TypeOK

\* Every step of requests, recheck loops, janitor and restart preserves it.
LEMMA NextTypeInv == TypeInv /\ [Next]_vars => TypeInv'
<1> SUFFICES ASSUME TypeInv, [Next]_vars PROVE TypeInv'
  OBVIOUS
<1>1. ASSUME NEW r \in Requests, RequestStep(r) PROVE TypeInv'
  BY <1>1, TriggerCheckInv, TriggerInsertInv, TriggerAttachInv,
         TriggerStartInv, CloseBeginInv, CloseCommitInv,
         FalseAlarmBeginInv, FalseAlarmCommitInv, EmitClosedInv,
         EmitMarkedInv, RecheckBeginInv, VerifyBeginInv,
         ManualBeginInv, BaselineBeginInv, DiagnoseStartInv,
         DiagnoseCachedInv, DiagnoseProbeInv, DiagnoseRecordInv,
         DiagnoseJudgeInv, RequestFailInv
     DEF RequestStep
<1>2. ASSUME NEW i \in Ids, LoopStep(i) PROVE TypeInv'
  BY <1>2, LoopStartInv, LoopWakeInv, LoopDeadlineInv, LoopCheckInv,
         LoopLadderInv, LoopProbeInv, LoopRecordInv, LoopClearInv,
         LoopFaultInv, LoopAnnounceInv, LoopRecoveredInv,
         LoopCloseInv, LoopClosedInv, LoopFailInv, LoopFaultFailInv,
         LoopDieInv
     DEF LoopStep
<1>3. CASE JanitorSweep
  BY <1>3, JanitorSweepInv
<1>4. CASE CrashRestart
  BY <1>4, CrashRestartInv
<1>5. CASE UNCHANGED vars
  BY <1>5, StutterTypeInv
<1>6. QED
  BY <1>1, <1>2, <1>3, <1>4, <1>5 DEF Next

\* The inductive invariant holds of every reachable state, for all constants.
THEOREM TypeInvariance == Spec => []TypeInv
<1>1. Init => TypeInv
  BY InitTypeInv
<1>2. TypeInv /\ [Next]_vars => TypeInv'
  BY NextTypeInv
<1>3. QED
  BY <1>1, <1>2, PTL DEF Spec

\* Every column, event, field and local stays in its type, whatever the
\* requests, loops, faults and crashes do.
THEOREM TypeCorrect == Spec => []TypeOK
<1>1. TypeInv => TypeOK
  BY DEF TypeInv
<1>2. QED
  BY <1>1, TypeInvariance, PTL

\* At most one incident is open, for any number of concurrent triggers.
THEOREM OneOpenIncidentAlways == Spec => []OneOpenIncident
<1>1. TypeInv => OneOpenIncident
  BY DEF TypeInv
<1>2. QED
  BY <1>1, TypeInvariance, PTL

-----------------------------------------------------------------------------
(* Who may act: Engine.lock keeps triggers apart, loop_thread names the    *)
(* only recheck loop, run_in_progress the only ladder.                     *)

\* Engine.lock is held by the request that is inside trigger(), and by no other.
LockInv == \A r \in Requests : rpc[r] \in {"locked", "stored"} <=> lock = r

ControlInv == LockInv /\ NoRaceInsideTrigger /\ OneLoop /\ OneLadder

\* The places of a request at which it holds the lock or runs the ladder.
Holding == {"locked", "stored", "probing"}

-----------------------------------------------------------------------------
(* Steps that neither take nor give back anything.                         *)

\* A request that holds nothing moves to a place where it holds nothing, and
\* opens no incident.
LEMMA QuietRequestControl ==
    ASSUME ControlInv, NEW r \in Requests, UNCHANGED <<engineVars, loopVars>>,
           rpc[r] \notin Holding, rpc'[r] \notin Holding,
           \A q \in Requests \ {r} : rpc'[q] = rpc[q] /\ inc'[q] = inc[q],
           \A i \in Ids : Open(i)' => Open(i)
    PROVE  ControlInv'
<1> USE DEF ControlInv, engineVars, loopVars
<1> lock = lock' /\ ladder = ladder' /\ loopThread = loopThread' /\ lpc = lpc'
  OBVIOUS
<1>1. LockInv'
  BY DEF LockInv, Holding
<1>2. NoRaceInsideTrigger'
  BY DEF NoRaceInsideTrigger, Holding
<1>3. OneLoop'
  BY DEF OneLoop, Alive
<1>4. OneLadder'
  BY DEF OneLadder, Holding
<1>5. QED
  BY <1>1, <1>2, <1>3, <1>4

\* A loop that is alive moves between places where it runs no ladder, or ends,
\* and opens no incident.
LEMMA QuietLoopControl ==
    ASSUME ControlInv, NEW i \in Ids, UNCHANGED <<engineVars, reqVars>>,
           lpc[i] \notin {"dead", "probing"}, lpc'[i] # "probing",
           \A j \in Ids \ {i} : lpc'[j] = lpc[j],
           \A j \in Ids : Open(j)' => Open(j)
    PROVE  ControlInv'
<1> USE DEF ControlInv, engineVars, reqVars
<1> lock = lock' /\ ladder = ladder' /\ loopThread = loopThread' /\ rpc = rpc' /\ inc = inc'
  OBVIOUS
<1>1. LockInv'
  BY DEF LockInv
<1>2. NoRaceInsideTrigger'
  BY DEF NoRaceInsideTrigger
<1>3. OneLoop'
  BY DEF OneLoop, Alive
<1>4. OneLadder'
  BY DEF OneLadder
<1>5. QED
  BY <1>1, <1>2, <1>3, <1>4

\* Resolving an incident opens none.
LEMMA SetResolvedOpensNone ==
    ASSUME DbTypes, NEW i \in Ids, SetResolved(i)
    PROVE  \A j \in Ids : Open(j)' => Open(j)
  BY DEF SetResolved, DbTypes, Open

\* The control helpers move only the request or the loop they are given.
LEMMA OneRequestMoves ==
    ASSUME ReqTypes, NEW r \in Requests, NEW l,
           \/ Goto(r, l) /\ UNCHANGED <<op, inc, found>>
           \/ \E o, i : Enter(r, l, o, i)
    PROVE  /\ rpc'[r] = l
           /\ \A q \in Requests \ {r} : rpc'[q] = rpc[q] /\ inc'[q] = inc[q]
  BY DEF Goto, Enter, ReqTypes

LEMMA OneLoopMoves ==
    ASSUME LoopTypes, NEW i \in Ids, NEW l, LoopGoto(i, l) \/ LoopReset(i, l)
    PROVE  /\ lpc'[i] = l
           /\ \A j \in Ids \ {i} : lpc'[j] = lpc[j]
  BY DEF LoopGoto, LoopReset, LoopTypes
-----------------------------------------------------------------------------
(* The requests' steps.                                                    *)

\* Every step of a request preserves the control invariant.
LEMMA RequestControl ==
    ASSUME TypeInv, ControlInv, NEW r \in Requests, RequestStep(r)
    PROVE  ControlInv'
<1> USE DEF TypeInv, TypeOK
<1>1. CASE TriggerCheck(r)
  <2>1. /\ lock = NoOne /\ lock' = r /\ UNCHANGED <<ladder, loopThread, lpc, state>>
        /\ rpc[r] \in {"idle", "trigger"} /\ rpc'[r] = "locked" /\ inc'[r] = LatestOpen
        /\ \A q \in Requests \ {r} : rpc'[q] = rpc[q] /\ inc'[q] = inc[q]
    BY <1>1 DEF TriggerCheck, Enter, ReqTypes, dbVars, incidentVars, loopVars
  <2>2. \A q \in Requests : rpc[q] \notin {"locked", "stored"}
    BY <2>1, ConstantFacts DEF ControlInv, LockInv
  <2>3. LockInv'
    BY <2>1, <2>2 DEF LockInv
  <2>4. NoRaceInsideTrigger'
    BY <2>1, <2>2, LatestOpenFacts DEF NoRaceInsideTrigger, Open
  <2>5. OneLoop'
    BY <2>1 DEF ControlInv, OneLoop, Alive
  <2>6. OneLadder'
    BY <2>1 DEF ControlInv, OneLadder
  <2>7. QED
    BY <2>3, <2>4, <2>5, <2>6 DEF ControlInv
<1>2. CASE TriggerInsert(r)
  <2>1. /\ UNCHANGED <<lock, ladder, loopThread, lpc>>
        /\ rpc[r] = "locked" /\ rpc'[r] = "stored"
        /\ \A q \in Requests \ {r} : rpc'[q] = rpc[q] /\ inc'[q] = inc[q]
    BY <1>2 DEF TriggerInsert, Goto, ReqTypes, engineVars, loopVars
  <2>2. lock = r /\ \A q \in Requests \ {r} : rpc[q] \notin {"locked", "stored"}
    BY <2>1 DEF ControlInv, LockInv
  <2>3. LockInv' /\ NoRaceInsideTrigger'
    BY <2>1, <2>2 DEF LockInv, NoRaceInsideTrigger
  <2>4. OneLoop' /\ OneLadder'
    BY <2>1 DEF ControlInv, OneLoop, OneLadder, Alive
  <2>5. QED
    BY <2>3, <2>4 DEF ControlInv
<1>3. CASE TriggerAttach(r)
  <2>1. /\ UNCHANGED <<lock, ladder, loopThread, lpc, state, inc>>
        /\ rpc[r] = "locked" /\ rpc'[r] = "stored"
        /\ \A q \in Requests \ {r} : rpc'[q] = rpc[q]
    BY <1>3 DEF TriggerAttach, Goto, ReqTypes, dbVars, incidentVars, engineVars, loopVars
  <2>2. LockInv' /\ NoRaceInsideTrigger'
    BY <2>1 DEF ControlInv, LockInv, NoRaceInsideTrigger, Open
  <2>3. OneLoop' /\ OneLadder'
    BY <2>1 DEF ControlInv, OneLoop, OneLadder, Alive
  <2>4. QED
    BY <2>2, <2>3 DEF ControlInv
<1>4. CASE TriggerStart(r)
  <2>1. /\ lock' = NoOne /\ UNCHANGED <<ladder, state>>
        /\ rpc[r] = "stored" /\ rpc'[r] = "idle" /\ inc[r] \in Ids
        /\ \A q \in Requests \ {r} : rpc'[q] = rpc[q] /\ inc'[q] = inc[q]
    BY <1>4, OneRequestMoves DEF TriggerStart, Return, RequestHoldsId, dbVars, incidentVars
  <2>2. \A q \in Requests \ {r} : rpc[q] \notin {"locked", "stored"}
    BY <2>1 DEF ControlInv, LockInv
  <2>3. LockInv' /\ NoRaceInsideTrigger'
    BY <2>1, <2>2, ConstantFacts DEF LockInv, NoRaceInsideTrigger
  <2>4. CASE LoopThreadAlive
    <3>1. UNCHANGED <<loopThread, lpc>>
      BY <1>4, <2>4 DEF TriggerStart, loopVars
    <3>2. QED
      BY <2>1, <2>3, <3>1 DEF ControlInv, OneLoop, OneLadder, Alive
  <2>5. CASE ~LoopThreadAlive
    <3>1. \A i \in Ids : lpc[i] = "dead"
      BY <2>5 DEF ControlInv, OneLoop, Alive, LoopThreadAlive, Ids, NoId
    <3>2. /\ loopThread' = inc[r] /\ lpc'[inc[r]] = "start"
          /\ \A i \in Ids \ {inc[r]} : lpc'[i] = "dead"
      BY <1>4, <2>1, <2>5, <3>1, OneLoopMoves DEF TriggerStart
    <3>3. OneLoop' /\ OneLadder'
      BY <2>1, <3>1, <3>2 DEF ControlInv, OneLoop, OneLadder, Alive
    <3>4. QED
      BY <2>3, <3>3 DEF ControlInv
  <2>6. QED
    BY <2>4, <2>5
<1>5. CASE CloseBegin(r)
  <2>1. /\ rpc[r] \notin Holding /\ rpc'[r] \notin Holding
        /\ \A q \in Requests \ {r} : rpc'[q] = rpc[q] /\ inc'[q] = inc[q]
    BY <1>5 DEF CloseBegin, Enter, ReqTypes, Holding
  <2>2. QED
    BY <1>5, <2>1, QuietRequestControl DEF CloseBegin, dbVars, incidentVars, Open
<1>6. CASE CloseCommit(r)
  <2>1. /\ rpc[r] \notin Holding /\ rpc'[r] \notin Holding
        /\ \A q \in Requests \ {r} : rpc'[q] = rpc[q] /\ inc'[q] = inc[q]
    BY <1>6 DEF CloseCommit, Goto, Return, Enter, ReqTypes, Holding
  <2>2. \A i \in Ids : Open(i)' => Open(i)
    BY <1>6, SetResolvedOpensNone DEF CloseCommit, RequestHoldsId
  <2>3. QED
    BY <1>6, <2>1, <2>2, QuietRequestControl DEF CloseCommit
<1>7. CASE FalseAlarmBegin(r)
  <2>1. /\ rpc[r] \notin Holding /\ rpc'[r] \notin Holding
        /\ \A q \in Requests \ {r} : rpc'[q] = rpc[q] /\ inc'[q] = inc[q]
    BY <1>7 DEF FalseAlarmBegin, Enter, ReqTypes, Holding
  <2>2. QED
    BY <1>7, <2>1, QuietRequestControl DEF FalseAlarmBegin, dbVars, incidentVars, Open
<1>8. CASE FalseAlarmCommit(r)
  <2>1. /\ rpc[r] \notin Holding /\ rpc'[r] \notin Holding
        /\ \A q \in Requests \ {r} : rpc'[q] = rpc[q] /\ inc'[q] = inc[q]
    BY <1>8 DEF FalseAlarmCommit, Goto, ReqTypes, Holding
  <2>2. \A i \in Ids : Open(i)' => Open(i)
    BY <1>8, SetResolvedOpensNone DEF FalseAlarmCommit, RequestHoldsId
  <2>3. QED
    BY <1>8, <2>1, <2>2, QuietRequestControl DEF FalseAlarmCommit
<1>9. CASE EmitClosed(r)
  <2>1. /\ rpc[r] \notin Holding /\ rpc'[r] \notin Holding
        /\ \A q \in Requests \ {r} : rpc'[q] = rpc[q] /\ inc'[q] = inc[q]
    BY <1>9 DEF EmitClosed, Return, Enter, ReqTypes, Holding
  <2>2. QED
    BY <1>9, <2>1, QuietRequestControl DEF EmitClosed, dbVars, incidentVars, Open
<1>10. CASE EmitMarked(r)
  <2>1. /\ rpc[r] \notin Holding /\ rpc'[r] \notin Holding
        /\ \A q \in Requests \ {r} : rpc'[q] = rpc[q] /\ inc'[q] = inc[q]
    BY <1>10 DEF EmitMarked, Return, Enter, ReqTypes, Holding
  <2>2. QED
    BY <1>10, <2>1, QuietRequestControl DEF EmitMarked, dbVars, incidentVars, Open
<1>11. CASE RecheckBegin(r)
  <2>1. /\ rpc[r] \notin Holding /\ rpc'[r] \notin Holding
        /\ \A q \in Requests \ {r} : rpc'[q] = rpc[q] /\ inc'[q] = inc[q]
    BY <1>11 DEF RecheckBegin, BeginDiagnosis, Enter, ReqTypes, Holding
  <2>2. QED
    BY <1>11, <2>1, QuietRequestControl DEF RecheckBegin, BeginDiagnosis, dbVars, incidentVars, Open
<1>12. CASE VerifyBegin(r)
  <2>1. /\ rpc[r] \notin Holding /\ rpc'[r] \notin Holding
        /\ \A q \in Requests \ {r} : rpc'[q] = rpc[q] /\ inc'[q] = inc[q]
    BY <1>12 DEF VerifyBegin, BeginDiagnosis, Enter, ReqTypes, Holding
  <2>2. QED
    BY <1>12, <2>1, QuietRequestControl DEF VerifyBegin, BeginDiagnosis, dbVars, incidentVars, Open
<1>13. CASE ManualBegin(r)
  <2>1. /\ rpc[r] \notin Holding /\ rpc'[r] \notin Holding
        /\ \A q \in Requests \ {r} : rpc'[q] = rpc[q] /\ inc'[q] = inc[q]
    BY <1>13 DEF ManualBegin, BeginDiagnosis, Enter, ReqTypes, Holding
  <2>2. QED
    BY <1>13, <2>1, QuietRequestControl DEF ManualBegin, BeginDiagnosis, dbVars, incidentVars, Open
<1>14. CASE BaselineBegin(r)
  <2>1. /\ rpc[r] \notin Holding /\ rpc'[r] \notin Holding
        /\ \A q \in Requests \ {r} : rpc'[q] = rpc[q] /\ inc'[q] = inc[q]
    BY <1>14 DEF BaselineBegin, BeginDiagnosis, Enter, ReqTypes, Holding
  <2>2. QED
    BY <1>14, <2>1, QuietRequestControl DEF BaselineBegin, BeginDiagnosis, dbVars, incidentVars, Open
<1>15. CASE DiagnoseStart(r)
  <2>1. /\ UNCHANGED <<lock, loopThread, lpc, state>>
        /\ rpc[r] = "ladder"
        /\ \A q \in Requests \ {r} : rpc'[q] = rpc[q] /\ inc'[q] = inc[q]
    BY <1>15 DEF DiagnoseStart, Goto, Return, Enter, ReqTypes, dbVars, incidentVars, loopVars
  <2>2. CASE ladder = NoOne
    <3>1. ladder' = r /\ rpc'[r] = "probing"
      BY <1>15, <2>2 DEF DiagnoseStart, Goto, ReqTypes
    <3>2. LockInv' /\ NoRaceInsideTrigger'
      BY <2>1, <3>1 DEF ControlInv, LockInv, NoRaceInsideTrigger, Open
    <3>3. OneLoop' /\ OneLadder'
      BY <2>1, <2>2, <3>1, ConstantFacts DEF ControlInv, OneLoop, OneLadder, Alive
    <3>4. QED
      BY <3>2, <3>3 DEF ControlInv
  <2>3. CASE ladder # NoOne
    <3>1. UNCHANGED engineVars /\ rpc'[r] = "idle"
      BY <1>15, <2>3 DEF DiagnoseStart, Return, Enter, ReqTypes, engineVars
    <3>2. QED
      BY <1>15, <2>1, <3>1, QuietRequestControl DEF DiagnoseStart, Holding, Open
  <2>4. QED
    BY <2>2, <2>3
<1>16. CASE DiagnoseCached(r)
  <2>1. /\ rpc[r] \notin Holding /\ rpc'[r] \notin Holding
        /\ \A q \in Requests \ {r} : rpc'[q] = rpc[q] /\ inc'[q] = inc[q]
    BY <1>16 DEF DiagnoseCached, Goto, ReqTypes, Holding
  <2>2. QED
    BY <1>16, <2>1, QuietRequestControl DEF DiagnoseCached, dbVars, incidentVars, Open
<1>17. CASE DiagnoseProbe(r)
  <2>1. /\ ladder' = NoOne /\ UNCHANGED <<lock, loopThread, lpc, state, inc>>
        /\ rpc[r] = "probing" /\ rpc'[r] = "record"
        /\ \A q \in Requests \ {r} : rpc'[q] = rpc[q]
    BY <1>17 DEF DiagnoseProbe, Goto, ReqTypes, dbVars, incidentVars, loopVars
  <2>2. LockInv' /\ NoRaceInsideTrigger' /\ OneLoop'
    BY <2>1 DEF ControlInv, LockInv, NoRaceInsideTrigger, OneLoop, Alive, Open
  <2>3. ladder = r
    BY <2>1 DEF ControlInv, OneLadder
  <2>4. OneLadder'
    BY <2>1, <2>3, ConstantFacts DEF ControlInv, OneLadder
  <2>5. QED
    BY <2>2, <2>4 DEF ControlInv
<1>18. CASE DiagnoseRecord(r)
  <2>1. /\ rpc[r] \notin Holding /\ rpc'[r] \notin Holding
        /\ \A q \in Requests \ {r} : rpc'[q] = rpc[q] /\ inc'[q] = inc[q]
    BY <1>18 DEF DiagnoseRecord, Goto, Return, Enter, ReqTypes, Holding
  <2>2. \A i \in Ids : Open(i)' => Open(i)
    BY <1>18 DEF DiagnoseRecord, RecordRun, dbVars, incidentVars, Open
  <2>3. QED
    BY <1>18, <2>1, <2>2, QuietRequestControl DEF DiagnoseRecord
<1>19. CASE DiagnoseJudge(r)
  <2>1. /\ rpc[r] \notin Holding /\ rpc'[r] \notin Holding
        /\ \A q \in Requests \ {r} : rpc'[q] = rpc[q] /\ inc'[q] = inc[q]
    BY <1>19 DEF DiagnoseJudge, Goto, Return, Enter, ReqTypes, Holding
  <2>2. QED
    BY <1>19, <2>1, QuietRequestControl DEF DiagnoseJudge, dbVars, incidentVars, Open
<1>20. CASE RequestFail(r)
  <2>1. /\ lock' = (IF lock = r THEN NoOne ELSE lock)
        /\ ladder' = (IF ladder = r THEN NoOne ELSE ladder)
        /\ UNCHANGED <<loopThread, lpc, state>>
        /\ rpc'[r] = "idle"
        /\ \A q \in Requests \ {r} : rpc'[q] = rpc[q] /\ inc'[q] = inc[q]
    BY <1>20 DEF RequestFail, Return, Enter, ReqTypes, dbVars, incidentVars, loopVars
  <2>2. LockInv' /\ NoRaceInsideTrigger'
    BY <2>1, ConstantFacts DEF ControlInv, LockInv, NoRaceInsideTrigger, Open
  <2>3. OneLoop' /\ OneLadder'
    BY <2>1, ConstantFacts DEF ControlInv, OneLoop, OneLadder, Alive
  <2>4. QED
    BY <2>2, <2>3 DEF ControlInv
<1>21. QED
  BY <1>1, <1>2, <1>3, <1>4, <1>5, <1>6, <1>7, <1>8, <1>9, <1>10, <1>11, <1>12, <1>13, <1>14, <1>15, <1>16, <1>17, <1>18, <1>19, <1>20 DEF RequestStep

-----------------------------------------------------------------------------
(* The loops' steps, the janitor's, and the restart.                       *)

\* Every step of a recheck loop preserves the control invariant.
LEMMA LoopControl ==
    ASSUME TypeInv, ControlInv, NEW i \in Ids, LoopStep(i)
    PROVE  ControlInv'
<1> USE DEF TypeInv, TypeOK
<1>1. CASE LoopStart(i)
  <2>1. /\ lpc[i] \notin {"dead", "probing"} /\ lpc'[i] # "probing"
        /\ \A j \in Ids \ {i} : lpc'[j] = lpc[j]
    BY <1>1 DEF LoopStart, LoopTypes
  <2>2. QED
    BY <1>1, <2>1, QuietLoopControl DEF LoopStart, dbVars, incidentVars, Open
<1>2. CASE LoopWake(i)
  <2>1. /\ lpc[i] \notin {"dead", "probing"} /\ lpc'[i] # "probing"
        /\ \A j \in Ids \ {i} : lpc'[j] = lpc[j]
    BY <1>2 DEF LoopWake, LoopGoto, LoopTypes
  <2>2. QED
    BY <1>2, <2>1, QuietLoopControl DEF LoopWake, dbVars, incidentVars, Open
<1>3. CASE LoopDeadline(i)
  <2>1. /\ lpc[i] \notin {"dead", "probing"} /\ lpc'[i] # "probing"
        /\ \A j \in Ids \ {i} : lpc'[j] = lpc[j]
    BY <1>3 DEF LoopDeadline, LoopGoto, LoopTypes
  <2>2. QED
    BY <1>3, <2>1, QuietLoopControl DEF LoopDeadline, dbVars, incidentVars, Open
<1>4. CASE LoopCheck(i)
  <2>1. /\ lpc[i] \notin {"dead", "probing"} /\ lpc'[i] # "probing"
        /\ \A j \in Ids \ {i} : lpc'[j] = lpc[j]
    BY <1>4 DEF LoopCheck, LoopGoto, LoopReset, LoopTypes
  <2>2. QED
    BY <1>4, <2>1, QuietLoopControl DEF LoopCheck, dbVars, incidentVars, Open
<1>5. CASE LoopLadder(i)
  <2>1. /\ UNCHANGED <<lock, loopThread, rpc, inc, state>>
        /\ lpc[i] = "ladder"
        /\ \A j \in Ids \ {i} : lpc'[j] = lpc[j]
    BY <1>5 DEF LoopLadder, LoopGoto, LoopTypes, dbVars, incidentVars, reqVars
  <2>2. CASE ladder = NoOne
    <3>1. ladder' = "loop" /\ lpc'[i] = "probing"
      BY <1>5, <2>2 DEF LoopLadder, LoopGoto, LoopTypes
    <3>2. LockInv' /\ NoRaceInsideTrigger' /\ OneLoop'
      BY <2>1, <3>1 DEF ControlInv, LockInv, NoRaceInsideTrigger, OneLoop, Alive, Open
    <3>3. OneLadder'
      BY <2>1, <2>2, <3>1, ConstantFacts DEF ControlInv, OneLadder
    <3>4. QED
      BY <3>2, <3>3 DEF ControlInv
  <2>3. CASE ladder # NoOne
    <3>1. UNCHANGED engineVars /\ lpc'[i] = "sleep"
      BY <1>5, <2>3 DEF LoopLadder, LoopGoto, LoopTypes, engineVars
    <3>2. QED
      BY <1>5, <2>1, <3>1, QuietLoopControl DEF LoopLadder, Open
  <2>4. QED
    BY <2>2, <2>3
<1>6. CASE LoopProbe(i)
  <2>1. /\ ladder' = NoOne /\ UNCHANGED <<lock, loopThread, rpc, inc, state>>
        /\ lpc[i] = "probing"
        /\ lpc'[i] # "probing" /\ \A j \in Ids \ {i} : lpc'[j] = lpc[j]
    BY <1>6 DEF LoopProbe, LoopTypes, dbVars, incidentVars, reqVars
  <2>2. LockInv' /\ NoRaceInsideTrigger' /\ OneLoop'
    BY <2>1 DEF ControlInv, LockInv, NoRaceInsideTrigger, OneLoop, Alive, Open
  <2>3. \A j \in Ids \ {i} : lpc[j] = "dead"
    BY <2>1 DEF ControlInv, OneLoop, Alive
  <2>4. OneLadder'
    BY <2>1, <2>3, ConstantFacts DEF ControlInv, OneLadder
  <2>5. QED
    BY <2>2, <2>4 DEF ControlInv
<1>7. CASE LoopRecord(i)
  <2>1. /\ lpc[i] \notin {"dead", "probing"} /\ lpc'[i] # "probing"
        /\ \A j \in Ids \ {i} : lpc'[j] = lpc[j]
    BY <1>7 DEF LoopRecord, LoopGoto, LoopTypes
  <2>2. \A j \in Ids : Open(j)' => Open(j)
    BY <1>7 DEF LoopRecord, RecordRun, Open
  <2>3. QED
    BY <1>7, <2>1, <2>2, QuietLoopControl DEF LoopRecord
<1>8. CASE LoopClear(i)
  <2>1. /\ lpc[i] \notin {"dead", "probing"} /\ lpc'[i] # "probing"
        /\ \A j \in Ids \ {i} : lpc'[j] = lpc[j]
    BY <1>8 DEF LoopClear, LoopTypes
  <2>2. QED
    BY <1>8, <2>1, QuietLoopControl DEF LoopClear, dbVars, incidentVars, Open
<1>9. CASE LoopFault(i)
  <2>1. /\ lpc[i] \notin {"dead", "probing"} /\ lpc'[i] # "probing"
        /\ \A j \in Ids \ {i} : lpc'[j] = lpc[j]
    BY <1>9 DEF LoopFault, LoopTypes
  <2>2. QED
    BY <1>9, <2>1, QuietLoopControl DEF LoopFault, Open
<1>10. CASE LoopAnnounce(i)
  <2>1. /\ lpc[i] \notin {"dead", "probing"} /\ lpc'[i] # "probing"
        /\ \A j \in Ids \ {i} : lpc'[j] = lpc[j]
    BY <1>10 DEF LoopAnnounce, LoopTypes
  <2>2. QED
    BY <1>10, <2>1, QuietLoopControl DEF LoopAnnounce, dbVars, incidentVars, Open
<1>11. CASE LoopRecovered(i)
  <2>1. /\ lpc[i] \notin {"dead", "probing"} /\ lpc'[i] # "probing"
        /\ \A j \in Ids \ {i} : lpc'[j] = lpc[j]
    BY <1>11 DEF LoopRecovered, LoopGoto, LoopTypes
  <2>2. QED
    BY <1>11, <2>1, QuietLoopControl DEF LoopRecovered, dbVars, incidentVars, Open
<1>12. CASE LoopClose(i)
  <2>1. /\ lpc[i] \notin {"dead", "probing"} /\ lpc'[i] # "probing"
        /\ \A j \in Ids \ {i} : lpc'[j] = lpc[j]
    BY <1>12 DEF LoopClose, LoopGoto, LoopReset, LoopTypes
  <2>2. \A j \in Ids : Open(j)' => Open(j)
    BY <1>12, SetResolvedOpensNone DEF LoopClose, Open
  <2>3. QED
    BY <1>12, <2>1, <2>2, QuietLoopControl DEF LoopClose
<1>13. CASE LoopClosed(i)
  <2>1. /\ lpc[i] \notin {"dead", "probing"} /\ lpc'[i] # "probing"
        /\ \A j \in Ids \ {i} : lpc'[j] = lpc[j]
    BY <1>13 DEF LoopClosed, LoopReset, LoopTypes
  <2>2. QED
    BY <1>13, <2>1, QuietLoopControl DEF LoopClosed, dbVars, incidentVars, Open
<1>14. CASE LoopFail(i)
  <2>1. /\ ladder' = (IF lpc[i] = "probing" THEN NoOne ELSE ladder) /\ UNCHANGED <<lock, loopThread, rpc, inc, state>>
        /\ lpc[i] # "dead"
        /\ lpc'[i] # "probing" /\ \A j \in Ids \ {i} : lpc'[j] = lpc[j]
    BY <1>14 DEF LoopFail, LoopTypes, dbVars, incidentVars, reqVars
  <2>2. LockInv' /\ NoRaceInsideTrigger' /\ OneLoop'
    BY <2>1 DEF ControlInv, LockInv, NoRaceInsideTrigger, OneLoop, Alive, Open
  <2>3. \A j \in Ids \ {i} : lpc[j] = "dead"
    BY <2>1 DEF ControlInv, OneLoop, Alive
  <2>4. OneLadder'
    BY <2>1, <2>3, ConstantFacts DEF ControlInv, OneLadder
  <2>5. QED
    BY <2>2, <2>4 DEF ControlInv
<1>15. CASE LoopFaultFail(i)
  <2>1. /\ lpc[i] \notin {"dead", "probing"} /\ lpc'[i] # "probing"
        /\ \A j \in Ids \ {i} : lpc'[j] = lpc[j]
    BY <1>15 DEF LoopFaultFail, LoopTypes
  <2>2. QED
    BY <1>15, <2>1, QuietLoopControl DEF LoopFaultFail, dbVars, incidentVars, Open
<1>16. CASE LoopDie(i)
  <2>1. /\ lpc[i] \notin {"dead", "probing"} /\ lpc'[i] # "probing"
        /\ \A j \in Ids \ {i} : lpc'[j] = lpc[j]
    BY <1>16 DEF LoopDie, LoopReset, LoopTypes
  <2>2. QED
    BY <1>16, <2>1, QuietLoopControl DEF LoopDie, dbVars, incidentVars, Open
<1>17. QED
  BY <1>1, <1>2, <1>3, <1>4, <1>5, <1>6, <1>7, <1>8, <1>9, <1>10, <1>11, <1>12, <1>13, <1>14, <1>15, <1>16 DEF LoopStep

\* The janitor opens nothing and leaves the threads alone.
LEMMA JanitorControl ==
    ASSUME TypeInv, ControlInv, JanitorSweep
    PROVE  ControlInv'
<1>1. UNCHANGED <<lock, ladder, loopThread, lpc, rpc, inc>>
  BY DEF JanitorSweep, engineVars, loopVars, reqVars
<1>2. \A i \in Ids : Open(i)' => Open(i)
  BY DEF JanitorSweep, Without, Open
<1>3. QED
  BY <1>1, <1>2 DEF ControlInv, LockInv, NoRaceInsideTrigger, OneLoop, OneLadder, Alive

\* A restart begins with no requests and at most one loop.
LEMMA CrashControl ==
    ASSUME TypeInv, CrashRestart
    PROVE  ControlInv'
<1>1. /\ lock' = NoOne /\ ladder' = NoOne
      /\ \A r \in Requests : rpc'[r] = "idle"
      /\ \A i \in Ids : lpc'[i] = IF i = loopThread' THEN "start" ELSE "dead"
  BY DEF CrashRestart, FreshProcess
<1>2. QED
  BY <1>1, ConstantFacts
     DEF ControlInv, LockInv, NoRaceInsideTrigger, OneLoop, OneLadder, Alive

-----------------------------------------------------------------------------
\* The control invariant holds of every reachable state: the lock, the newest
\* loop and the ladder flag name exactly the threads at work.
THEOREM ControlInvariance == Spec => []ControlInv
<1>1. Init => ControlInv
  BY ConstantFacts
     DEF Init, ControlInv, LockInv, NoRaceInsideTrigger, OneLoop, OneLadder, Alive
<1>2. TypeInv /\ ControlInv /\ [Next]_vars => ControlInv'
  <2> SUFFICES ASSUME TypeInv, ControlInv, [Next]_vars PROVE ControlInv'
    OBVIOUS
  <2>1. CASE Next
    BY <2>1, RequestControl, LoopControl, JanitorControl, CrashControl DEF Next
  <2>2. CASE UNCHANGED vars
    BY <2>2 DEF vars, dbVars, incidentVars, engineVars, loopVars, reqVars, Open, Alive,
                ControlInv, LockInv, NoRaceInsideTrigger, OneLoop, OneLadder
  <2>3. QED
    BY <2>1, <2>2
<1>3. QED
  BY <1>1, <1>2, TypeInvariance, PTL DEF Spec

\* At most one recheck loop runs, the one loop_thread refers to.
THEOREM OneLoopAlways == Spec => []OneLoop
<1>1. ControlInv => OneLoop
  BY DEF ControlInv
<1>2. QED
  BY <1>1, ControlInvariance, PTL

\* At most one ladder runs, and run_in_progress is neither leaked nor stolen.
THEOREM OneLadderAlways == Spec => []OneLadder
<1>1. ControlInv => OneLadder
  BY DEF ControlInv
<1>2. QED
  BY <1>1, ControlInvariance, PTL

\* While a trigger holds the lock having found nothing open, nothing is opened.
THEOREM NoRaceInsideTriggerAlways == Spec => []NoRaceInsideTrigger
<1>1. ControlInv => NoRaceInsideTrigger
  BY DEF ControlInv
<1>2. QED
  BY <1>1, ControlInvariance, PTL
=============================================================================
