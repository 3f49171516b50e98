------------------------ MODULE IncidentsRecordProofs ------------------------
(***************************************************************************)
(* What the incident engine stores and announces: the evidence follows the *)
(* runs, fault_closed is emitted once, a resolved record is final, and     *)
(* Incidents implements IncidentRecord.  For every number of rows, codes   *)
(* and concurrent requests.                                                *)
(***************************************************************************)
EXTENDS IncidentsProofs

\* A row some thread still works on is there: nobody writes to a pruned row but
\* a false alarm, which then writes nothing.
HeldIsPresent ==
    /\ \A r \in Requests : inc[r] # NoId /\ ~ByReference(r) => Present(inc[r])
    /\ \A i \in Ids : Alive(i) => Present(i)

\* A row id that is given out again brings nothing with it.
AbsentIsBlank ==
    \A i \in Ids : ~Present(i) =>
       /\ ~recovered[i] /\ openSegs[i] = 0 /\ newestRun[i] = "none"
       /\ evidence[i] = "none" /\ closedNotices[i] = 0

\* Until an incident is resolved its two attributions are one.
OneAttribution == \A i \in Ids : state[i] # "resolved" => verdict[i] = diagnosis[i]

\* The thread that is to emit an incident's fault_closed is the only one, and
\* the event has not been emitted.
OneCloser ==
    /\ \A r \in Requests : rpc[r] = "emit" =>
          /\ state[inc[r]] = "resolved" /\ closedNotices[inc[r]] = 0
          /\ lpc[inc[r]] # "closed"
          /\ \A q \in Requests : rpc[q] = "emit" /\ inc[q] = inc[r] => q = r
    /\ \A i \in Ids : lpc[i] = "closed" => state[i] = "resolved" /\ closedNotices[i] = 0

RowsInv   == AbsentIsBlank /\ OneAttribution /\ EvidenceFollowsRuns /\ ClosedOnce
RecordInv == HeldIsPresent /\ OneCloser /\ RowsInv

\* What RowsInv reads, and the columns a thread's place is judged against.
rowVars == <<state, recovered, verdict, diagnosis, openSegs, newestRun, evidence,
             closedNotices>>

-----------------------------------------------------------------------------
(* Steps that leave the rows alone.                                        *)

\* The rows' part of the invariant is about the rows only.
LEMMA RowsUnchanged ==
    ASSUME RowsInv, UNCHANGED rowVars
    PROVE  RowsInv'
  BY DEF rowVars, RowsInv, AbsentIsBlank, OneAttribution, EvidenceFollowsRuns,
         ClosedOnce, Present, Open

\* A request moves on with an incident that is there, and is not to announce
\* its closing.
LEMMA QuietRequest ==
    ASSUME TypeInv, RecordInv, NEW r \in Requests, RowsInv', UNCHANGED <<state, closedNotices, lpc>>,
           rpc'[r] # "emit", inc'[r] # NoId => Present(inc'[r]) \/ ByReference(r)',
           \A q \in Requests \ {r} : rpc'[q] = rpc[q] /\ op'[q] = op[q] /\ inc'[q] = inc[q]
    PROVE  RecordInv'
<1>1. HeldIsPresent'
  BY DEF RecordInv, HeldIsPresent, ByReference, Present, Alive
<1>2. OneCloser'
  BY DEF RecordInv, OneCloser
<1>3. QED
  BY <1>1, <1>2 DEF RecordInv

\* A loop that is alive moves on, and is not to announce its closing.
LEMMA QuietLoop ==
    ASSUME TypeInv, RecordInv, NEW i \in Ids, RowsInv', UNCHANGED <<state, closedNotices, rpc, op, inc>>,
           lpc[i] # "dead", lpc'[i] # "closed",
           \A j \in Ids \ {i} : lpc'[j] = lpc[j]
    PROVE  RecordInv'
<1>1. HeldIsPresent'
  BY DEF RecordInv, HeldIsPresent, ByReference, Present, Alive
<1>2. OneCloser'
  BY DEF RecordInv, OneCloser, TypeInv, RequestHoldsId
<1>3. QED
  BY <1>1, <1>2 DEF RecordInv

-----------------------------------------------------------------------------
(* Steps that write a row.                                                 *)

\* A run stored with an incident keeps its evidence in step.
LEMMA RecordRunRows ==
    ASSUME DbTypes, RowsInv, NEW i \in Ids, NEW v \in Verdicts, Present(i),
           RecordRun(i, v), UNCHANGED closedNotices
    PROVE  RowsInv' /\ UNCHANGED state
<1> USE DEF RowsInv, DbTypes
<1>1. AbsentIsBlank'
  BY DEF RecordRun, AbsentIsBlank, Present
<1>2. OneAttribution'
  BY DEF RecordRun, OneAttribution
<1>3. EvidenceFollowsRuns'
  BY DEF RecordRun, EvidenceFollowsRuns, Open
<1>4. ClosedOnce'
  BY DEF RecordRun, ClosedOnce
<1>5. QED
  BY <1>1, <1>2, <1>3, <1>4 DEF RecordRun

\* Resolving an incident ends its evidence; what else is written to its row at
\* the same time does not matter any more.
LEMMA ResolveRows ==
    ASSUME TypeInv, RowsInv, NEW i \in Ids, Present(i),
           CloseSegments(i), SetResolved(i), UNCHANGED <<newestRun, evidence, closedNotices>>,
           \A j \in Ids \ {i} : /\ recovered'[j] = recovered[j]
                                 /\ verdict'[j] = verdict[j] /\ diagnosis'[j] = diagnosis[j]
    PROVE  /\ RowsInv'
           /\ state'[i] = "resolved"
           /\ \A j \in Ids \ {i} : state'[j] = state[j]
<1> USE DEF RowsInv, TypeInv, TypeOK, DbTypes
<1>1. /\ state'[i] = "resolved" /\ openSegs'[i] = 0
      /\ \A j \in Ids \ {i} : state'[j] = state[j] /\ openSegs'[j] = openSegs[j]
  BY DEF CloseSegments, SetResolved, Present, State
<1>2. AbsentIsBlank'
  BY <1>1 DEF AbsentIsBlank, Present
<1>3. OneAttribution'
  BY <1>1 DEF OneAttribution
<1>4. EvidenceFollowsRuns'
  BY <1>1 DEF EvidenceFollowsRuns, Open
<1>5. ClosedOnce'
  BY <1>1 DEF ClosedOnce
<1>6. QED
  BY <1>1, <1>2, <1>3, <1>4, <1>5

\* Of an incident that is not resolved no closing is about to be announced.
LEMMA NoCloserBefore ==
    ASSUME TypeInv, RecordInv, NEW i \in Ids, Open(i)
    PROVE  /\ closedNotices[i] = 0 /\ lpc[i] # "closed"
           /\ \A q \in Requests : rpc[q] = "emit" => inc[q] # i
  BY DEF RecordInv, RowsInv, ClosedOnce, OneCloser, Open, TypeInv, TypeOK, OutTypes

-----------------------------------------------------------------------------
(* The requests' steps.                                                    *)

\* A request resolves the incident it holds, and goes on to announce that only
\* if it was open.
LEMMA RequestResolves ==
    ASSUME TypeInv, RecordInv, NEW r \in Requests, inc[r] \in Ids, Present(inc[r]),
           CloseSegments(inc[r]), SetResolved(inc[r]),
           UNCHANGED <<newestRun, evidence, closedNotices, lpc>>,
           \A j \in Ids \ {inc[r]} : /\ recovered'[j] = recovered[j]
                                      /\ verdict'[j] = verdict[j] /\ diagnosis'[j] = diagnosis[j],
           rpc'[r] = "emit" => Open(inc[r]) /\ inc'[r] = inc[r],
           inc'[r] \in {NoId, inc[r]},
           \A q \in Requests \ {r} : rpc'[q] = rpc[q] /\ op'[q] = op[q] /\ inc'[q] = inc[q]
    PROVE  RecordInv'
<1>1. Present(inc[r])
  OBVIOUS
<1>2. /\ RowsInv' /\ state'[inc[r]] = "resolved"
      /\ \A j \in Ids \ {inc[r]} : state'[j] = state[j]
  BY ResolveRows DEF RecordInv
<1>3. \A q \in Requests : inc[q] \in Ids \cup {NoId}
  BY DEF TypeInv, TypeOK, ReqTypes
<1>4. HeldIsPresent'
  BY <1>1, <1>2, <1>3 DEF RecordInv, HeldIsPresent, ByReference, Present, Alive
<1>5. OneCloser'
  <2>1. \A i \in Ids : state[i] = "resolved" => state'[i] = "resolved"
    BY <1>2
  <2>2. ASSUME NEW i \in Ids, lpc'[i] = "closed"
        PROVE  state'[i] = "resolved" /\ closedNotices'[i] = 0
    BY <2>1, <2>2 DEF RecordInv, OneCloser
  <2>3. ASSUME NEW q \in Requests \ {r}, rpc'[q] = "emit"
        PROVE  /\ state'[inc'[q]] = "resolved" /\ closedNotices'[inc'[q]] = 0
               /\ lpc'[inc'[q]] # "closed"
               /\ \A p \in Requests \ {r} : rpc'[p] = "emit" /\ inc'[p] = inc'[q] => p = q
    BY <2>1, <2>3, <1>3 DEF RecordInv, OneCloser, TypeInv, RequestHoldsId
  <2>4. CASE rpc'[r] = "emit"
    <3>1. /\ closedNotices[inc[r]] = 0 /\ lpc[inc[r]] # "closed"
          /\ \A q \in Requests : rpc[q] = "emit" => inc[q] # inc[r]
      BY <2>4, NoCloserBefore
    <3>2. QED
      BY <1>2, <2>2, <2>3, <2>4, <3>1 DEF OneCloser
  <2>5. CASE rpc'[r] # "emit"
    BY <2>2, <2>3, <2>5 DEF OneCloser
  <2>6. QED
    BY <2>4, <2>5
<1>6. QED
  BY <1>2, <1>4, <1>5 DEF RecordInv

\* Every step of a request preserves the record invariant.
LEMMA RequestRecord ==
    ASSUME TypeInv, RecordInv, NEW r \in Requests, RequestStep(r)
    PROVE  RecordInv'
<1> USE DEF TypeInv, TypeOK
<1>1. CASE TriggerCheck(r)
  <2>1. /\ UNCHANGED rowVars /\ lpc' = lpc /\ rpc'[r] # "emit"
        /\ inc'[r] # NoId => Present(inc'[r])
        /\ \A q \in Requests \ {r} : rpc'[q] = rpc[q] /\ op'[q] = op[q] /\ inc'[q] = inc[q]
    BY <1>1, LatestOpenFacts DEF TriggerCheck, Enter, ReqTypes, RecordInv, HeldIsPresent, ByReference, Present, Open,
            rowVars, dbVars, incidentVars, outVars, loopVars
  <2>2. QED
    BY <2>1, QuietRequest, RowsUnchanged DEF RecordInv, rowVars
<1>2. CASE TriggerInsert(r)
  <2>1. PICK i \in Ids : /\ IsNewId(i) /\ state' = [state EXCEPT ![i] = "open"]
                         /\ inc' = [inc EXCEPT ![r] = i]
    BY <1>2 DEF TriggerInsert
  <2>2. ~Present(i)
    BY <2>1 DEF IsNewId, Ids
  <2>3. /\ UNCHANGED <<recovered, verdict, diagnosis, openSegs, newestRun, evidence,
                     closedNotices, lpc, op>>
        /\ rpc'[r] = "stored" /\ \A q \in Requests \ {r} : rpc'[q] = rpc[q]
    BY <1>2 DEF TriggerInsert, Goto, ReqTypes, outVars, loopVars
  <2>4. /\ state'[i] = "open" /\ \A j \in Ids \ {i} : state'[j] = state[j]
        /\ inc'[r] = i /\ \A q \in Requests \ {r} : inc'[q] = inc[q]
    BY <2>1 DEF DbTypes, ReqTypes
  <2>5. /\ ~recovered[i] /\ openSegs[i] = 0 /\ newestRun[i] = "none"
        /\ closedNotices[i] = 0 /\ verdict[i] = diagnosis[i]
    BY <2>2 DEF RecordInv, RowsInv, AbsentIsBlank, OneAttribution, Present
  <2>6. AbsentIsBlank' /\ OneAttribution'
    BY <2>3, <2>4, <2>5 DEF RecordInv, RowsInv, AbsentIsBlank, OneAttribution, Present
  <2>7. EvidenceFollowsRuns' /\ ClosedOnce'
    BY <2>3, <2>4, <2>5 DEF RecordInv, RowsInv, EvidenceFollowsRuns, ClosedOnce, Open
  <2>8. HeldIsPresent'
    BY <2>3, <2>4 DEF RecordInv, HeldIsPresent, ByReference, Present, Alive, ReqTypes
  <2>9. OneCloser'
    BY <2>2, <2>3, <2>4 DEF RecordInv, OneCloser, Present, RequestHoldsId
  <2>10. QED
    BY <2>6, <2>7, <2>8, <2>9 DEF RecordInv, RowsInv
<1>3. CASE TriggerAttach(r)
  <2>1. /\ UNCHANGED rowVars /\ lpc' = lpc /\ rpc'[r] # "emit"
        /\ inc'[r] # NoId => Present(inc'[r])
        /\ \A q \in Requests \ {r} : rpc'[q] = rpc[q] /\ op'[q] = op[q] /\ inc'[q] = inc[q]
    BY <1>3 DEF TriggerAttach, Goto, ReqTypes, RecordInv, HeldIsPresent, ByReference, Present, Open,
            rowVars, dbVars, incidentVars, outVars, loopVars
  <2>2. QED
    BY <2>1, QuietRequest, RowsUnchanged DEF RecordInv, rowVars
<1>4. CASE TriggerStart(r)
  <2>1. /\ UNCHANGED rowVars /\ rpc'[r] = "idle" /\ inc'[r] = NoId
        /\ \A q \in Requests \ {r} : rpc'[q] = rpc[q] /\ op'[q] = op[q] /\ inc'[q] = inc[q]
    BY <1>4 DEF TriggerStart, Return, Enter, ReqTypes, rowVars, dbVars, incidentVars, outVars
  <2>2. inc[r] \in Ids /\ Present(inc[r])
    BY <1>4 DEF TriggerStart, RequestHoldsId, RecordInv, HeldIsPresent, ByReference, Ids, NoId
  <2>3. lpc' = lpc \/ lpc' = [lpc EXCEPT ![inc[r]] = "start"]
    BY <1>4 DEF TriggerStart, LoopReset, loopVars
  <2>4. RowsInv'
    BY <2>1, RowsUnchanged DEF RecordInv
  <2>5. HeldIsPresent'
    BY <2>1, <2>2, <2>3 DEF RecordInv, HeldIsPresent, ByReference, rowVars, Present, Alive, LoopTypes
  <2>6. OneCloser'
    BY <2>1, <2>2, <2>3 DEF RecordInv, OneCloser, rowVars, LoopTypes, RequestHoldsId
  <2>7. QED
    BY <2>4, <2>5, <2>6 DEF RecordInv
<1>5. CASE CloseBegin(r)
  <2>1. /\ UNCHANGED rowVars /\ lpc' = lpc /\ rpc'[r] # "emit"
        /\ inc'[r] # NoId => Present(inc'[r])
        /\ \A q \in Requests \ {r} : rpc'[q] = rpc[q] /\ op'[q] = op[q] /\ inc'[q] = inc[q]
    BY <1>5, LatestOpenFacts DEF CloseBegin, Enter, ReqTypes, RecordInv, HeldIsPresent, ByReference, Present, Open,
            rowVars, dbVars, incidentVars, outVars, loopVars
  <2>2. QED
    BY <2>1, QuietRequest, RowsUnchanged DEF RecordInv, rowVars
<1>6. CASE CloseCommit(r)
  <2>1. inc[r] \in Ids /\ Present(inc[r])
    BY <1>6 DEF CloseCommit, RequestHoldsId, RecordInv, HeldIsPresent, ByReference, Ids, NoId
  <2>2. /\ rpc'[r] = "emit" => Open(inc[r]) /\ inc'[r] = inc[r]
        /\ inc'[r] \in {NoId, inc[r]}
        /\ \A q \in Requests \ {r} : rpc'[q] = rpc[q] /\ op'[q] = op[q] /\ inc'[q] = inc[q]
    BY <1>6 DEF CloseCommit, Goto, Return, Enter, ReqTypes
  <2>3. /\ CloseSegments(inc[r]) /\ SetResolved(inc[r])
        /\ UNCHANGED <<newestRun, evidence, closedNotices, lpc>>
        /\ \A j \in Ids \ {inc[r]} : /\ recovered'[j] = recovered[j]
                                     /\ verdict'[j] = verdict[j] /\ diagnosis'[j] = diagnosis[j]
    BY <1>6 DEF CloseCommit, DbTypes, outVars, loopVars
  <2>4. QED
    BY <2>1, <2>2, <2>3, RequestResolves
<1>7. CASE FalseAlarmBegin(r)
  <2>1. /\ UNCHANGED rowVars /\ lpc' = lpc /\ rpc'[r] # "emit"
        /\ inc'[r] # NoId => Present(inc'[r])
        /\ \A q \in Requests \ {r} : rpc'[q] = rpc[q] /\ op'[q] = op[q] /\ inc'[q] = inc[q]
    BY <1>7 DEF FalseAlarmBegin, Enter, ReqTypes, RecordInv, HeldIsPresent, ByReference, Present, Open,
            rowVars, dbVars, incidentVars, outVars, loopVars
  <2>2. QED
    BY <2>1, QuietRequest, RowsUnchanged DEF RecordInv, rowVars
<1>8. CASE FalseAlarmCommit(r)
  <2>1. inc[r] \in Ids
    BY <1>8 DEF FalseAlarmCommit, RequestHoldsId
  <2>2. /\ rpc'[r] = "emit" => Open(inc[r]) /\ inc'[r] = inc[r]
        /\ inc'[r] \in {NoId, inc[r]}
        /\ \A q \in Requests \ {r} : rpc'[q] = rpc[q] /\ op'[q] = op[q] /\ inc'[q] = inc[q]
    BY <1>8 DEF FalseAlarmCommit, Goto, ReqTypes
  <2>3. /\ UNCHANGED <<recovered, diagnosis, newestRun, evidence, closedNotices, lpc>>
        /\ verdict' = [verdict EXCEPT ![inc[r]] = IF Present(inc[r]) THEN AllClear ELSE @]
        /\ CloseSegments(inc[r]) /\ SetResolved(inc[r])
    BY <1>8 DEF FalseAlarmCommit, outVars, loopVars
  <2>4. CASE Present(inc[r])
    <3>1. \A j \in Ids \ {inc[r]} : verdict'[j] = verdict[j]
      BY <2>1, <2>3 DEF DbTypes
    <3>2. QED
      BY <2>1, <2>2, <2>3, <2>4, <3>1, RequestResolves
  <2>5. CASE ~Present(inc[r])
    <3>1. state[inc[r]] = "absent" /\ openSegs[inc[r]] = 0
      BY <2>1, <2>5 DEF RecordInv, RowsInv, AbsentIsBlank, Present
    <3>2. UNCHANGED rowVars
      BY <2>1, <2>3, <2>5, <3>1 DEF CloseSegments, SetResolved, DbTypes, rowVars
    <3>3. rpc'[r] = "mark" /\ ByReference(r)'
      BY <1>8, <3>1 DEF FalseAlarmCommit, Goto, Open, ReqTypes, ByReference
    <3>4. QED
      BY <2>2, <2>3, <3>2, <3>3, QuietRequest, RowsUnchanged DEF RecordInv, rowVars
  <2>6. QED
    BY <2>4, <2>5
<1>9. CASE EmitClosed(r)
  <2>1. /\ inc[r] \in Ids /\ rpc[r] = "emit"
        /\ rpc'[r] = "idle" /\ inc'[r] = NoId
        /\ \A q \in Requests \ {r} : rpc'[q] = rpc[q] /\ op'[q] = op[q] /\ inc'[q] = inc[q]
    BY <1>9 DEF EmitClosed, Return, Enter, ReqTypes, RequestHoldsId
  <2>2. /\ UNCHANGED <<state, recovered, verdict, diagnosis, openSegs, newestRun, evidence, lpc>>
        /\ closedNotices' = [closedNotices EXCEPT ![inc[r]] = @ + 1]
    BY <1>9 DEF EmitClosed, dbVars, incidentVars, loopVars
  <2>3. /\ state[inc[r]] = "resolved" /\ closedNotices[inc[r]] = 0 /\ lpc[inc[r]] # "closed"
        /\ \A q \in Requests \ {r} : rpc[q] = "emit" => inc[q] # inc[r]
    BY <2>1 DEF RecordInv, OneCloser
  <2>4. closedNotices'[inc[r]] = 1 /\ \A j \in Ids \ {inc[r]} : closedNotices'[j] = closedNotices[j]
    BY <2>1, <2>2, <2>3 DEF OutTypes
  <2>5. RowsInv'
    BY <2>2, <2>3, <2>4 DEF RecordInv, RowsInv, AbsentIsBlank, OneAttribution,
       EvidenceFollowsRuns, ClosedOnce, Present, Open
  <2>6. HeldIsPresent'
    BY <2>1, <2>2 DEF RecordInv, HeldIsPresent, ByReference, Present, Alive
  <2>7. OneCloser'
    BY <2>1, <2>2, <2>3, <2>4 DEF RecordInv, OneCloser, RequestHoldsId
  <2>8. QED
    BY <2>5, <2>6, <2>7 DEF RecordInv
<1>10. CASE EmitMarked(r)
  <2>1. /\ UNCHANGED rowVars /\ lpc' = lpc /\ rpc'[r] # "emit"
        /\ inc'[r] # NoId => Present(inc'[r])
        /\ \A q \in Requests \ {r} : rpc'[q] = rpc[q] /\ op'[q] = op[q] /\ inc'[q] = inc[q]
    BY <1>10 DEF EmitMarked, Return, Enter, ReqTypes, RecordInv, HeldIsPresent, ByReference, Present, Open,
            rowVars, dbVars, incidentVars, outVars, loopVars
  <2>2. QED
    BY <2>1, QuietRequest, RowsUnchanged DEF RecordInv, rowVars
<1>11. CASE RecheckBegin(r)
  <2>1. /\ UNCHANGED rowVars /\ lpc' = lpc /\ rpc'[r] # "emit"
        /\ inc'[r] # NoId => Present(inc'[r])
        /\ \A q \in Requests \ {r} : rpc'[q] = rpc[q] /\ op'[q] = op[q] /\ inc'[q] = inc[q]
    BY <1>11, LatestOpenFacts DEF RecheckBegin, BeginDiagnosis, Enter, ReqTypes, RecordInv, HeldIsPresent, ByReference, Present, Open,
            rowVars, dbVars, incidentVars, outVars, loopVars
  <2>2. QED
    BY <2>1, QuietRequest, RowsUnchanged DEF RecordInv, rowVars
<1>12. CASE VerifyBegin(r)
  <2>1. /\ UNCHANGED rowVars /\ lpc' = lpc /\ rpc'[r] # "emit"
        /\ inc'[r] # NoId => Present(inc'[r])
        /\ \A q \in Requests \ {r} : rpc'[q] = rpc[q] /\ op'[q] = op[q] /\ inc'[q] = inc[q]
    BY <1>12, LatestOpenFacts DEF VerifyBegin, BeginDiagnosis, Enter, ReqTypes, RecordInv, HeldIsPresent, ByReference, Present, Open,
            rowVars, dbVars, incidentVars, outVars, loopVars
  <2>2. QED
    BY <2>1, QuietRequest, RowsUnchanged DEF RecordInv, rowVars
<1>13. CASE ManualBegin(r)
  <2>1. /\ UNCHANGED rowVars /\ lpc' = lpc /\ rpc'[r] # "emit"
        /\ inc'[r] # NoId => Present(inc'[r])
        /\ \A q \in Requests \ {r} : rpc'[q] = rpc[q] /\ op'[q] = op[q] /\ inc'[q] = inc[q]
    BY <1>13 DEF ManualBegin, BeginDiagnosis, Enter, ReqTypes, RecordInv, HeldIsPresent, ByReference, Present, Open,
            rowVars, dbVars, incidentVars, outVars, loopVars
  <2>2. QED
    BY <2>1, QuietRequest, RowsUnchanged DEF RecordInv, rowVars
<1>14. CASE BaselineBegin(r)
  <2>1. /\ UNCHANGED rowVars /\ lpc' = lpc /\ rpc'[r] # "emit"
        /\ inc'[r] # NoId => Present(inc'[r])
        /\ \A q \in Requests \ {r} : rpc'[q] = rpc[q] /\ op'[q] = op[q] /\ inc'[q] = inc[q]
    BY <1>14 DEF BaselineBegin, BeginDiagnosis, Enter, ReqTypes, RecordInv, HeldIsPresent, ByReference, Present, Open,
            rowVars, dbVars, incidentVars, outVars, loopVars
  <2>2. QED
    BY <2>1, QuietRequest, RowsUnchanged DEF RecordInv, rowVars
<1>15. CASE DiagnoseStart(r)
  <2>1. /\ UNCHANGED rowVars /\ lpc' = lpc /\ rpc'[r] # "emit"
        /\ inc'[r] # NoId => Present(inc'[r])
        /\ \A q \in Requests \ {r} : rpc'[q] = rpc[q] /\ op'[q] = op[q] /\ inc'[q] = inc[q]
    BY <1>15 DEF DiagnoseStart, Goto, Return, Enter, ReqTypes, RecordInv, HeldIsPresent, ByReference, Present, Open,
            rowVars, dbVars, incidentVars, outVars, loopVars
  <2>2. QED
    BY <2>1, QuietRequest, RowsUnchanged DEF RecordInv, rowVars
<1>16. CASE DiagnoseCached(r)
  <2>1. /\ UNCHANGED rowVars /\ lpc' = lpc /\ rpc'[r] # "emit"
        /\ inc'[r] # NoId => Present(inc'[r])
        /\ \A q \in Requests \ {r} : rpc'[q] = rpc[q] /\ op'[q] = op[q] /\ inc'[q] = inc[q]
    BY <1>16 DEF DiagnoseCached, Goto, ReqTypes, RecordInv, HeldIsPresent, ByReference, Present, Open,
            rowVars, dbVars, incidentVars, outVars, loopVars
  <2>2. QED
    BY <2>1, QuietRequest, RowsUnchanged DEF RecordInv, rowVars
<1>17. CASE DiagnoseProbe(r)
  <2>1. /\ UNCHANGED rowVars /\ lpc' = lpc /\ rpc'[r] # "emit"
        /\ inc'[r] # NoId => Present(inc'[r])
        /\ \A q \in Requests \ {r} : rpc'[q] = rpc[q] /\ op'[q] = op[q] /\ inc'[q] = inc[q]
    BY <1>17 DEF DiagnoseProbe, Goto, ReqTypes, RecordInv, HeldIsPresent, ByReference, Present, Open,
            rowVars, dbVars, incidentVars, outVars, loopVars
  <2>2. QED
    BY <2>1, QuietRequest, RowsUnchanged DEF RecordInv, rowVars
<1>18. CASE DiagnoseRecord(r)
  <2>1. /\ closedNotices' = closedNotices /\ lpc' = lpc /\ rpc'[r] # "emit"
        /\ inc'[r] \in {NoId, inc[r]}
        /\ \A q \in Requests \ {r} : rpc'[q] = rpc[q] /\ op'[q] = op[q] /\ inc'[q] = inc[q]
    BY <1>18 DEF DiagnoseRecord, Goto, Return, Enter, ReqTypes, outVars, loopVars
  <2>2. RowsInv' /\ state' = state
    <3>1. CASE inc[r] = NoId
      BY <1>18, <2>1, <3>1, RowsUnchanged DEF DiagnoseRecord, RecordInv, rowVars, dbVars, incidentVars
    <3>2. CASE inc[r] # NoId
      <4>1. inc[r] \in Ids /\ Present(inc[r]) /\ found[r] \in Verdicts
        BY <1>18, <3>2 DEF DiagnoseRecord, RecordInv, HeldIsPresent, ByReference, ReqTypes, DiagnosisHoldsVerdict
      <4>2. QED
        BY <1>18, <2>1, <3>2, <4>1, RecordRunRows DEF DiagnoseRecord, RecordInv
    <3>3. QED
      BY <3>1, <3>2
  <2>3. inc'[r] # NoId => Present(inc'[r])
    BY <1>18, <2>1 DEF DiagnoseRecord, RecordInv, HeldIsPresent, ByReference
  <2>4. QED
    BY <2>1, <2>2, <2>3, QuietRequest
<1>19. CASE DiagnoseJudge(r)
  <2>1. /\ UNCHANGED rowVars /\ lpc' = lpc /\ rpc'[r] # "emit"
        /\ inc'[r] # NoId => Present(inc'[r])
        /\ \A q \in Requests \ {r} : rpc'[q] = rpc[q] /\ op'[q] = op[q] /\ inc'[q] = inc[q]
    BY <1>19 DEF DiagnoseJudge, Goto, Return, Enter, ReqTypes, RecordInv, HeldIsPresent, ByReference, Present, Open,
            rowVars, dbVars, incidentVars, outVars, loopVars
  <2>2. QED
    BY <2>1, QuietRequest, RowsUnchanged DEF RecordInv, rowVars
<1>20. CASE RequestFail(r)
  <2>1. /\ UNCHANGED rowVars /\ lpc' = lpc /\ rpc'[r] # "emit"
        /\ inc'[r] # NoId => Present(inc'[r])
        /\ \A q \in Requests \ {r} : rpc'[q] = rpc[q] /\ op'[q] = op[q] /\ inc'[q] = inc[q]
    BY <1>20 DEF RequestFail, Return, Enter, ReqTypes, RecordInv, HeldIsPresent, ByReference, Present, Open,
            rowVars, dbVars, incidentVars, outVars, loopVars
  <2>2. QED
    BY <2>1, QuietRequest, RowsUnchanged DEF RecordInv, rowVars
<1>21. QED
  BY <1>1, <1>2, <1>3, <1>4, <1>5, <1>6, <1>7, <1>8, <1>9, <1>10, <1>11, <1>12, <1>13, <1>14, <1>15, <1>16, <1>17, <1>18, <1>19, <1>20 DEF RequestStep

-----------------------------------------------------------------------------
(* The loops' steps, the janitor's, and the restart.                       *)

\* Every step of a recheck loop preserves the record invariant.
LEMMA LoopRecordSteps ==
    ASSUME TypeInv, RecordInv, NEW i \in Ids, LoopStep(i)
    PROVE  RecordInv'
<1> USE DEF TypeInv, TypeOK
<1>1. CASE LoopStart(i)
  <2>1. /\ UNCHANGED <<rowVars, rpc, op, inc>> /\ lpc[i] # "dead" /\ lpc'[i] # "closed"
        /\ \A j \in Ids \ {i} : lpc'[j] = lpc[j]
    BY <1>1 DEF LoopStart, LoopTypes,
       rowVars, dbVars, incidentVars, outVars, reqVars
  <2>2. QED
    BY <2>1, QuietLoop, RowsUnchanged DEF RecordInv, rowVars
<1>2. CASE LoopWake(i)
  <2>1. /\ UNCHANGED <<rowVars, rpc, op, inc>> /\ lpc[i] # "dead" /\ lpc'[i] # "closed"
        /\ \A j \in Ids \ {i} : lpc'[j] = lpc[j]
    BY <1>2 DEF LoopWake, LoopGoto, LoopTypes,
       rowVars, dbVars, incidentVars, outVars, reqVars
  <2>2. QED
    BY <2>1, QuietLoop, RowsUnchanged DEF RecordInv, rowVars
<1>3. CASE LoopDeadline(i)
  <2>1. /\ UNCHANGED <<rowVars, rpc, op, inc>> /\ lpc[i] # "dead" /\ lpc'[i] # "closed"
        /\ \A j \in Ids \ {i} : lpc'[j] = lpc[j]
    BY <1>3 DEF LoopDeadline, LoopGoto, LoopTypes,
       rowVars, dbVars, incidentVars, outVars, reqVars
  <2>2. QED
    BY <2>1, QuietLoop, RowsUnchanged DEF RecordInv, rowVars
<1>4. CASE LoopCheck(i)
  <2>1. /\ UNCHANGED <<rowVars, rpc, op, inc>> /\ lpc[i] # "dead" /\ lpc'[i] # "closed"
        /\ \A j \in Ids \ {i} : lpc'[j] = lpc[j]
    BY <1>4 DEF LoopCheck, LoopGoto, LoopReset, LoopTypes,
       rowVars, dbVars, incidentVars, outVars, reqVars
  <2>2. QED
    BY <2>1, QuietLoop, RowsUnchanged DEF RecordInv, rowVars
<1>5. CASE LoopLadder(i)
  <2>1. /\ UNCHANGED <<rowVars, rpc, op, inc>> /\ lpc[i] # "dead" /\ lpc'[i] # "closed"
        /\ \A j \in Ids \ {i} : lpc'[j] = lpc[j]
    BY <1>5 DEF LoopLadder, LoopGoto, LoopTypes,
       rowVars, dbVars, incidentVars, outVars, reqVars
  <2>2. QED
    BY <2>1, QuietLoop, RowsUnchanged DEF RecordInv, rowVars
<1>6. CASE LoopProbe(i)
  <2>1. /\ UNCHANGED <<rowVars, rpc, op, inc>> /\ lpc[i] # "dead" /\ lpc'[i] # "closed"
        /\ \A j \in Ids \ {i} : lpc'[j] = lpc[j]
    BY <1>6 DEF LoopProbe, LoopTypes,
       rowVars, dbVars, incidentVars, outVars, reqVars
  <2>2. QED
    BY <2>1, QuietLoop, RowsUnchanged DEF RecordInv, rowVars
<1>7. CASE LoopRecord(i)
  <2>1. /\ UNCHANGED <<closedNotices, rpc, op, inc>> /\ lpc[i] = "record" /\ lpc'[i] = "judge"
        /\ \A j \in Ids \ {i} : lpc'[j] = lpc[j]
    BY <1>7 DEF LoopRecord, LoopGoto, LoopTypes, outVars, reqVars
  <2>2. Present(i) /\ seen[i] \in Verdicts
    BY <2>1 DEF RecordInv, HeldIsPresent, ByReference, Alive, DiagnosisHoldsVerdict
  <2>3. RowsInv' /\ state' = state
    BY <1>7, <2>1, <2>2, RecordRunRows DEF LoopRecord, RecordInv
  <2>4. QED
    BY <2>1, <2>3, QuietLoop
<1>8. CASE LoopClear(i)
  <2>1. /\ UNCHANGED <<rowVars, rpc, op, inc>> /\ lpc[i] # "dead" /\ lpc'[i] # "closed"
        /\ \A j \in Ids \ {i} : lpc'[j] = lpc[j]
    BY <1>8 DEF LoopClear, LoopTypes,
       rowVars, dbVars, incidentVars, outVars, reqVars
  <2>2. QED
    BY <2>1, QuietLoop, RowsUnchanged DEF RecordInv, rowVars
<1>9. CASE LoopFault(i)
  <2>1. /\ UNCHANGED <<state, closedNotices, rpc, op, inc>> /\ lpc[i] = "judge" /\ lpc'[i] = "announce"
        /\ \A j \in Ids \ {i} : lpc'[j] = lpc[j]
    BY <1>9 DEF LoopFault, LoopTypes, outVars, reqVars
  <2>2. /\ UNCHANGED <<recovered, openSegs, newestRun, evidence>>
        /\ \A j \in Ids \ {i} : verdict'[j] = verdict[j] /\ diagnosis'[j] = diagnosis[j]
        /\ \/ verdict'[i] = diagnosis'[i]
           \/ verdict'[i] = verdict[i] /\ diagnosis'[i] = diagnosis[i]
    BY <1>9 DEF LoopFault, DbTypes
  <2>3. RowsInv'
    BY <2>1, <2>2 DEF RecordInv, RowsInv, AbsentIsBlank, OneAttribution,
       EvidenceFollowsRuns, ClosedOnce, Present, Open
  <2>4. QED
    BY <2>1, <2>3, QuietLoop
<1>10. CASE LoopAnnounce(i)
  <2>1. /\ UNCHANGED <<rowVars, rpc, op, inc>> /\ lpc[i] # "dead" /\ lpc'[i] # "closed"
        /\ \A j \in Ids \ {i} : lpc'[j] = lpc[j]
    BY <1>10 DEF LoopAnnounce, LoopTypes,
       rowVars, dbVars, incidentVars, outVars, reqVars
  <2>2. QED
    BY <2>1, QuietLoop, RowsUnchanged DEF RecordInv, rowVars
<1>11. CASE LoopRecovered(i)
  <2>1. /\ UNCHANGED <<rowVars, rpc, op, inc>> /\ lpc[i] # "dead" /\ lpc'[i] # "closed"
        /\ \A j \in Ids \ {i} : lpc'[j] = lpc[j]
    BY <1>11 DEF LoopRecovered, LoopGoto, LoopTypes,
       rowVars, dbVars, incidentVars, outVars, reqVars
  <2>2. QED
    BY <2>1, QuietLoop, RowsUnchanged DEF RecordInv, rowVars
<1>12. CASE LoopClose(i)
  <2>1. /\ UNCHANGED <<newestRun, evidence, closedNotices, rpc, op, inc>> /\ lpc[i] = "closing"
        /\ \A j \in Ids \ {i} : lpc'[j] = lpc[j]
    BY <1>12 DEF LoopClose, LoopGoto, LoopReset, LoopTypes, outVars, reqVars
  <2>2. Present(i)
    BY <2>1 DEF RecordInv, HeldIsPresent, ByReference, Alive
  <2>3. /\ RowsInv' /\ state'[i] = "resolved"
        /\ \A j \in Ids \ {i} : state'[j] = state[j]
    <3>1. /\ CloseSegments(i) /\ SetResolved(i)
          /\ \A j \in Ids \ {i} : /\ recovered'[j] = recovered[j]
                                /\ verdict'[j] = verdict[j] /\ diagnosis'[j] = diagnosis[j]
      BY <1>12, <2>2 DEF LoopClose, SetResolved, Open, DbTypes
    <3>2. QED
      BY <2>1, <2>2, <3>1, ResolveRows DEF RecordInv
  <2>4. HeldIsPresent'
    BY <2>1, <2>2, <2>3 DEF RecordInv, HeldIsPresent, ByReference, Present, Alive, ReqTypes
  <2>5. lpc'[i] = "closed" => Open(i)
    BY <1>12 DEF LoopClose, LoopReset, LoopTypes
  <2>6. lpc'[i] = "closed" => closedNotices[i] = 0 /\ \A q \in Requests : rpc[q] = "emit" => inc[q] # i
    BY <2>5, NoCloserBefore
  <2>7. OneCloser'
    BY <2>1, <2>3, <2>6 DEF RecordInv, OneCloser, RequestHoldsId
  <2>8. QED
    BY <2>3, <2>4, <2>7 DEF RecordInv
<1>13. CASE LoopClosed(i)
  <2>1. /\ UNCHANGED <<state, recovered, verdict, diagnosis, openSegs, newestRun, evidence, rpc, op, inc>>
        /\ closedNotices' = [closedNotices EXCEPT ![i] = @ + 1]
        /\ lpc[i] = "closed" /\ lpc'[i] = "dead"
        /\ \A j \in Ids \ {i} : lpc'[j] = lpc[j]
    BY <1>13 DEF LoopClosed, LoopReset, LoopTypes, dbVars, incidentVars, reqVars
  <2>2. state[i] = "resolved" /\ closedNotices[i] = 0
    BY <2>1 DEF RecordInv, OneCloser
  <2>3. closedNotices'[i] = 1 /\ \A j \in Ids \ {i} : closedNotices'[j] = closedNotices[j]
    BY <2>1, <2>2 DEF OutTypes
  <2>4. RowsInv'
    BY <2>1, <2>2, <2>3 DEF RecordInv, RowsInv, AbsentIsBlank, OneAttribution,
       EvidenceFollowsRuns, ClosedOnce, Present, Open
  <2>5. HeldIsPresent'
    BY <2>1 DEF RecordInv, HeldIsPresent, ByReference, Present, Alive
  <2>6. OneCloser'
    BY <2>1, <2>2, <2>3 DEF RecordInv, OneCloser, RequestHoldsId
  <2>7. QED
    BY <2>4, <2>5, <2>6 DEF RecordInv
<1>14. CASE LoopFail(i)
  <2>1. /\ UNCHANGED <<rowVars, rpc, op, inc>> /\ lpc[i] # "dead" /\ lpc'[i] # "closed"
        /\ \A j \in Ids \ {i} : lpc'[j] = lpc[j]
    BY <1>14 DEF LoopFail, LoopTypes,
       rowVars, dbVars, incidentVars, outVars, reqVars
  <2>2. QED
    BY <2>1, QuietLoop, RowsUnchanged DEF RecordInv, rowVars
<1>15. CASE LoopFaultFail(i)
  <2>1. /\ UNCHANGED <<rowVars, rpc, op, inc>> /\ lpc[i] # "dead" /\ lpc'[i] # "closed"
        /\ \A j \in Ids \ {i} : lpc'[j] = lpc[j]
    BY <1>15 DEF LoopFaultFail, LoopTypes,
       rowVars, dbVars, incidentVars, outVars, reqVars
  <2>2. QED
    BY <2>1, QuietLoop, RowsUnchanged DEF RecordInv, rowVars
<1>16. CASE LoopDie(i)
  <2>1. /\ UNCHANGED <<rowVars, rpc, op, inc>> /\ lpc[i] # "dead" /\ lpc'[i] # "closed"
        /\ \A j \in Ids \ {i} : lpc'[j] = lpc[j]
    BY <1>16 DEF LoopDie, LoopReset, LoopTypes,
       rowVars, dbVars, incidentVars, outVars, reqVars
  <2>2. QED
    BY <2>1, QuietLoop, RowsUnchanged DEF RecordInv, rowVars
<1>17. QED
  BY <1>1, <1>2, <1>3, <1>4, <1>5, <1>6, <1>7, <1>8, <1>9, <1>10, <1>11, <1>12, <1>13, <1>14, <1>15, <1>16 DEF LoopStep

\* The janitor erases rows whole, and only rows no thread but a false alarm
\* works on; the evidence of a resolved incident may go before its row does.
LEMMA JanitorRecord ==
    ASSUME TypeInv, RecordInv, JanitorSweep
    PROVE  RecordInv'
<1> USE DEF TypeInv, TypeOK
<1>1. PICK Old \in SUBSET Resolved, S \in SUBSET {i \in Resolved : ~Recent(i)} :
         /\ S \subseteq Old
         /\ state' = Without(state, S, "absent") /\ recovered' = Without(recovered, S, FALSE)
         /\ verdict' = Without(verdict, S, "none") /\ diagnosis' = Without(diagnosis, S, "none")
         /\ openSegs' = Without(openSegs, S, 0) /\ newestRun' = Without(newestRun, Old, "none")
         /\ evidence' = [i \in Ids |->
               IF i \in S \/ (i \in Old /\ evidence[i] = "late") THEN "none" ELSE evidence[i]]
         /\ closedNotices' = Without(closedNotices, S, 0)
  BY DEF JanitorSweep
<1>2. UNCHANGED <<lpc, rpc, op, inc>>
  BY DEF JanitorSweep, loopVars, reqVars
<1>3. \A i \in S : lpc[i] = "dead" /\ \A r \in Requests : inc[r] = i => ByReference(r)
  BY DEF Recent, Alive
<1> USE DEF Without, Resolved
<1>4. AbsentIsBlank' /\ OneAttribution'
  BY <1>1 DEF RecordInv, RowsInv, AbsentIsBlank, OneAttribution, Present
<1>5. EvidenceFollowsRuns' /\ ClosedOnce'
  BY <1>1 DEF RecordInv, RowsInv, EvidenceFollowsRuns, ClosedOnce, Open
<1>6. HeldIsPresent'
  BY <1>1, <1>2, <1>3 DEF RecordInv, HeldIsPresent, ByReference, Present, Alive, ReqTypes, Ids, NoId
<1>7. OneCloser'
  BY <1>1, <1>2, <1>3 DEF RecordInv, OneCloser, RequestHoldsId, ByReference
<1>8. QED
  BY <1>4, <1>5, <1>6, <1>7 DEF RecordInv, RowsInv

\* A restart keeps the rows, up to the migration, and begins with one loop at
\* most, on the open incident.
LEMMA CrashRecord ==
    ASSUME TypeInv, RecordInv, CrashRestart
    PROVE  RecordInv'
<1> USE DEF TypeInv, TypeOK
<1>1. /\ UNCHANGED <<state, verdict, openSegs, newestRun, closedNotices>>
      /\ diagnosis' = [i \in Ids |-> IF diagnosis[i] = "none" THEN verdict[i] ELSE diagnosis[i]]
      /\ recovered' = [i \in Ids |-> IF evidence[i] = "late" /\ newestRun[i] = "ok"
                                     THEN TRUE ELSE recovered[i]]
      /\ evidence' = [i \in Ids |-> IF evidence[i] = "late" THEN "segments" ELSE evidence[i]]
  BY DEF CrashRestart, Migrate, outVars
<1>2. /\ \A r \in Requests : rpc'[r] = "idle" /\ inc'[r] = NoId
      /\ \A i \in Ids : lpc'[i] = IF i = LatestOpen THEN "start" ELSE "dead"
  BY DEF CrashRestart, FreshProcess
<1>3. AbsentIsBlank' /\ OneAttribution'
  BY <1>1 DEF RecordInv, RowsInv, AbsentIsBlank, OneAttribution, Present
<1>4. EvidenceFollowsRuns' /\ ClosedOnce'
  BY <1>1 DEF RecordInv, RowsInv, EvidenceFollowsRuns, ClosedOnce, Open, DbTypes
<1>5. HeldIsPresent'
  BY <1>1, <1>2, LatestOpenFacts DEF HeldIsPresent, ByReference, Present, Alive, Open, Ids, NoId
<1>6. OneCloser'
  BY <1>2 DEF OneCloser
<1>7. QED
  BY <1>3, <1>4, <1>5, <1>6 DEF RecordInv, RowsInv

-----------------------------------------------------------------------------
\* The record invariant holds of every reachable state.
THEOREM RecordInvariance == Spec => []RecordInv
<1>1. Init => RecordInv
  BY DEF Init, RecordInv, HeldIsPresent, ByReference, OneCloser, RowsInv, AbsentIsBlank, OneAttribution,
         EvidenceFollowsRuns, ClosedOnce, Present, Alive, Open
<1>2. TypeInv /\ RecordInv /\ [Next]_vars => RecordInv'
  <2> SUFFICES ASSUME TypeInv, RecordInv, [Next]_vars PROVE RecordInv'
    OBVIOUS
  <2>1. CASE Next
    BY <2>1, RequestRecord, LoopRecordSteps, JanitorRecord, CrashRecord DEF Next
  <2>2. CASE UNCHANGED vars
    <3>1. UNCHANGED <<rowVars, lpc, rpc, op, inc>>
      BY <2>2 DEF vars, dbVars, incidentVars, outVars, loopVars, reqVars, rowVars
    <3>2. RowsInv'
      BY <3>1, RowsUnchanged DEF RecordInv
    <3>3. HeldIsPresent' /\ OneCloser'
      BY <3>1 DEF RecordInv, HeldIsPresent, ByReference, OneCloser, Present, Alive, rowVars
    <3>4. QED
      BY <3>2, <3>3 DEF RecordInv
  <2>3. QED
    BY <2>1, <2>2
<1>3. QED
  BY <1>1, <1>2, TypeInvariance, PTL DEF Spec

\* The downtime evidence of an incident follows its life and its runs, whoever
\* stores them and however late.
THEOREM EvidenceFollowsRunsAlways == Spec => []EvidenceFollowsRuns
<1>1. RecordInv => EvidenceFollowsRuns
  BY DEF RecordInv, RowsInv
<1>2. QED
  BY <1>1, RecordInvariance, PTL

\* fault_closed is emitted at most once for an incident, after its resolution.
THEOREM ClosedOnceAlways == Spec => []ClosedOnce
<1>1. RecordInv => ClosedOnce
  BY DEF RecordInv, RowsInv
<1>2. QED
  BY <1>1, RecordInvariance, PTL
-----------------------------------------------------------------------------
(* The promise: every step of the engine is a step of IncidentRecord, or one *)
(* its reader does not see.                                                  *)

\* A step a reader of the table and the webhooks may see.
PromiseStep == [Promise!Next]_Promise!vars

\* Storing a run observes an open incident and leaves any other alone.
LEMMA RecordRunPromise ==
    ASSUME TypeInv, RecordInv, NEW i \in Ids, NEW v \in Verdicts,
           RecordRun(i, v), UNCHANGED closedNotices
    PROVE  PromiseStep
<1> USE DEF TypeInv, TypeOK, DbTypes
<1>1. CASE Open(i)
  <2>1. verdict[i] = diagnosis[i] /\ verdict[i] \in Promise!Code
    BY <1>1 DEF RecordInv, RowsInv, OneAttribution, Open, Code, Verdicts, AllClear, Promise!Code
  <2>2. recovered' = [recovered EXCEPT ![i] = IsOk(v)] /\ IsOk(v) \in BOOLEAN
    BY <1>1 DEF RecordRun, IsOk
  <2>3. /\ diagnosis' = [diagnosis EXCEPT ![i] = verdict[i]]
        /\ verdict' = [verdict EXCEPT ![i] = verdict[i]]
        /\ UNCHANGED <<state, falseAlarm>>
    BY <2>1 DEF RecordRun
  <2>4. Promise!Observe(i)
    BY <1>1, <2>1, <2>2, <2>3 DEF Promise!Observe, Open
  <2>5. QED
    BY <2>4 DEF PromiseStep, Promise!Next, Promise!Ids, Ids
<1>2. CASE ~Open(i)
  BY <1>2 DEF RecordRun, PromiseStep, Promise!vars
<1>3. QED
  BY <1>1, <1>2

\* A transaction that resolves what is open, with one attribution, resolves the
\* incident or finds it resolved.
LEMMA ResolvePromise ==
    ASSUME TypeInv, RecordInv, NEW i \in Ids, SetResolved(i),
           UNCHANGED <<falseAlarm, closedNotices>>,
           ~Open(i) => UNCHANGED <<recovered, verdict, diagnosis>>,
           Open(i) => /\ \E b \in BOOLEAN : recovered' = [recovered EXCEPT ![i] = b]
                      /\ \E c \in Code : /\ diagnosis' = [diagnosis EXCEPT ![i] = c]
                                         /\ verdict' = [verdict EXCEPT ![i] = c]
    PROVE  PromiseStep
<1> USE DEF TypeInv, TypeOK, DbTypes
<1>1. CASE Open(i)
  <2>1. state' = [state EXCEPT ![i] = "resolved"]
    BY <1>1 DEF SetResolved, Open
  <2>2. Promise!Resolve(i)
    BY <1>1, <2>1 DEF Promise!Resolve, Promise!Code, Open, Code, Verdicts, AllClear
  <2>3. QED
    BY <2>2 DEF PromiseStep, Promise!Next, Promise!Ids, Ids
<1>2. CASE ~Open(i)
  <2>1. state' = state
    BY <1>2 DEF SetResolved, Open
  <2>2. QED
    BY <1>2, <2>1 DEF PromiseStep, Promise!vars
<1>3. QED
  BY <1>1, <1>2

\* fault_closed is announced by the one thread that resolved the incident.
LEMMA ClosedPromise ==
    ASSUME TypeInv, NEW i \in Ids, state[i] = "resolved", closedNotices[i] = 0,
           closedNotices' = [closedNotices EXCEPT ![i] = @ + 1], UNCHANGED incidentVars
    PROVE  PromiseStep
<1>1. Promise!AnnounceClosed(i)
  BY DEF Promise!AnnounceClosed, incidentVars
<1>2. QED
  BY <1>1 DEF PromiseStep, Promise!Next, Promise!Ids, Ids

\* Every step of a request keeps the promise.
LEMMA RequestPromise ==
    ASSUME TypeInv, RecordInv, NEW r \in Requests, RequestStep(r)
    PROVE  PromiseStep
<1> USE DEF TypeInv, TypeOK
<1>1. CASE TriggerCheck(r) \/ TriggerAttach(r) \/ TriggerStart(r)
           \/ CloseBegin(r) \/ FalseAlarmBegin(r) \/ EmitMarked(r)
           \/ RecheckBegin(r) \/ VerifyBegin(r) \/ ManualBegin(r)
           \/ BaselineBegin(r) \/ DiagnoseStart(r) \/ DiagnoseCached(r)
           \/ DiagnoseProbe(r) \/ DiagnoseJudge(r) \/ RequestFail(r)
  BY <1>1 DEF TriggerCheck, TriggerAttach, TriggerStart, CloseBegin, FalseAlarmBegin,
     EmitMarked, RecheckBegin, VerifyBegin, ManualBegin, BaselineBegin, BeginDiagnosis,
     DiagnoseStart, DiagnoseCached, DiagnoseProbe, DiagnoseJudge, RequestFail,
     PromiseStep, Promise!vars, dbVars, incidentVars, outVars
<1>2. CASE TriggerInsert(r)
  <2>1. PICK i \in Ids : IsNewId(i) /\ state' = [state EXCEPT ![i] = "open"]
    BY <1>2 DEF TriggerInsert
  <2>2. \A j \in Ids : state[j] # "open"
    BY <1>2 DEF TriggerInsert, Open
  <2>3. Promise!OpenNew(i)
    BY <1>2, <2>1, <2>2 DEF Promise!OpenNew, Promise!Ids, Ids, IsNewId, Present,
       TriggerInsert, outVars
  <2>4. QED
    BY <2>3 DEF PromiseStep, Promise!Next, Promise!Ids, Ids
<1>3. CASE CloseCommit(r)
  <2>1. inc[r] \in Ids
    BY <1>3 DEF CloseCommit, RequestHoldsId
  <2>2. SetResolved(inc[r]) /\ UNCHANGED <<recovered, falseAlarm, verdict, diagnosis, closedNotices>>
    BY <1>3 DEF CloseCommit, outVars
  <2>3. ASSUME Open(inc[r])
        PROVE  /\ \E b \in BOOLEAN : recovered' = [recovered EXCEPT ![inc[r]] = b]
               /\ \E c \in Code : /\ diagnosis' = [diagnosis EXCEPT ![inc[r]] = c]
                                  /\ verdict' = [verdict EXCEPT ![inc[r]] = c]
    <3>1. verdict[inc[r]] = diagnosis[inc[r]]
      BY <2>1, <2>3 DEF RecordInv, RowsInv, OneAttribution, Open
    <3>2. recovered' = [recovered EXCEPT ![inc[r]] = recovered[inc[r]]] /\ recovered[inc[r]] \in BOOLEAN
      BY <2>1, <2>2 DEF DbTypes
    <3>3. /\ diagnosis' = [diagnosis EXCEPT ![inc[r]] = verdict[inc[r]]]
          /\ verdict' = [verdict EXCEPT ![inc[r]] = verdict[inc[r]]]
          /\ verdict[inc[r]] \in Code
      BY <2>1, <2>2, <3>1 DEF DbTypes
    <3>4. QED
      BY <3>2, <3>3
  <2>4. QED
    BY <2>1, <2>2, <2>3, ResolvePromise
<1>4. CASE FalseAlarmCommit(r)
  <2>1. inc[r] \in Ids
    BY <1>4 DEF FalseAlarmCommit, RequestHoldsId
  <2>2. CASE Present(inc[r])
    <3>1. state[inc[r]] \in {"open", "resolved"}
      BY <2>1, <2>2 DEF Present, DbTypes, State
    <3>2. state' = [state EXCEPT ![inc[r]] = "resolved"]
      BY <1>4, <2>1, <3>1 DEF FalseAlarmCommit, SetResolved, DbTypes
    <3>3. /\ falseAlarm' = [falseAlarm EXCEPT ![inc[r]] = TRUE]
          /\ verdict' = [verdict EXCEPT ![inc[r]] = "all_clear"]
      BY <1>4, <2>2 DEF FalseAlarmCommit, AllClear
    <3>4. Promise!MarkFalseAlarm(inc[r])
      BY <1>4, <3>1, <3>2, <3>3 DEF FalseAlarmCommit, outVars, Promise!MarkFalseAlarm
    <3>5. QED
      BY <2>1, <3>4 DEF PromiseStep, Promise!Next, Promise!Ids, Ids
  <2>3. CASE ~Present(inc[r])
    <3>1. state[inc[r]] = "absent"
      BY <2>3 DEF Present
    <3>2. UNCHANGED <<state, verdict>>
      BY <1>4, <2>1, <2>3, <3>1 DEF FalseAlarmCommit, SetResolved, DbTypes
    <3>3. falseAlarm' = falseAlarm
      BY <1>4, <2>1, <2>3 DEF FalseAlarmCommit, DbTypes
    <3>4. QED
      BY <1>4, <3>2, <3>3 DEF FalseAlarmCommit, outVars, PromiseStep, Promise!vars
  <2>4. QED
    BY <2>2, <2>3
<1>5. CASE EmitClosed(r)
  <2>1. inc[r] \in Ids /\ state[inc[r]] = "resolved" /\ closedNotices[inc[r]] = 0
    BY <1>5 DEF EmitClosed, RequestHoldsId, RecordInv, OneCloser
  <2>2. QED
    BY <1>5, <2>1, ClosedPromise DEF EmitClosed, dbVars
<1>6. CASE DiagnoseRecord(r)
  <2>1. CASE inc[r] # NoId
    <3>1. inc[r] \in Ids /\ found[r] \in Verdicts
      BY <1>6, <2>1 DEF DiagnoseRecord, DiagnosisHoldsVerdict, ReqTypes
    <3>2. QED
      BY <1>6, <2>1, <3>1, RecordRunPromise DEF DiagnoseRecord, outVars
  <2>2. CASE inc[r] = NoId
    BY <1>6, <2>2 DEF DiagnoseRecord, PromiseStep, Promise!vars, dbVars, incidentVars, outVars
  <2>3. QED
    BY <2>1, <2>2
<1>7. QED
  BY <1>1, <1>2, <1>3, <1>4, <1>5, <1>6 DEF RequestStep

\* Every step of a recheck loop keeps the promise.
LEMMA LoopPromise ==
    ASSUME TypeInv, RecordInv, NEW i \in Ids, LoopStep(i)
    PROVE  PromiseStep
<1> USE DEF TypeInv, TypeOK
<1>1. CASE LoopStart(i) \/ LoopWake(i) \/ LoopDeadline(i) \/ LoopCheck(i)
           \/ LoopLadder(i) \/ LoopProbe(i) \/ LoopClear(i)
           \/ LoopAnnounce(i) \/ LoopRecovered(i) \/ LoopFail(i)
           \/ LoopFaultFail(i) \/ LoopDie(i)
  BY <1>1 DEF LoopStart, LoopWake, LoopDeadline, LoopCheck, LoopLadder, LoopProbe,
     LoopClear, LoopAnnounce, LoopRecovered, LoopFail, LoopFaultFail, LoopDie,
     PromiseStep, Promise!vars, dbVars, incidentVars, outVars
<1>2. CASE LoopRecord(i)
  <2>1. seen[i] \in Verdicts
    BY <1>2 DEF LoopRecord, DiagnosisHoldsVerdict
  <2>2. QED
    BY <1>2, <2>1, RecordRunPromise DEF LoopRecord, outVars
<1>3. CASE LoopFault(i)
  <2>1. CASE Stronger(i) /\ Open(i)
    <3>1. seen[i] \in Promise!Code
      BY DEF LoopTypes, Code, Verdicts, AllClear, Promise!Code
    <3>2. recovered' = [recovered EXCEPT ![i] = recovered[i]] /\ recovered[i] \in BOOLEAN
      BY <1>3 DEF LoopFault, DbTypes
    <3>3. Promise!Observe(i)
      BY <1>3, <2>1, <3>1, <3>2 DEF LoopFault, outVars, Promise!Observe, Open
    <3>4. QED
      BY <3>3 DEF PromiseStep, Promise!Next, Promise!Ids, Ids
  <2>2. CASE ~(Stronger(i) /\ Open(i))
    BY <1>3, <2>2 DEF LoopFault, PromiseStep, Promise!vars, outVars
  <2>3. QED
    BY <2>1, <2>2
<1>4. CASE LoopClose(i)
  <2>1. CASE Open(i)
    <3>1. Final(i) \in Code
      BY DEF Final, LoopTypes, Code, Verdicts, AllClear
    <3>2. /\ SetResolved(i) /\ UNCHANGED <<falseAlarm, closedNotices>>
          /\ recovered' = [recovered EXCEPT ![i] = IF okRuns[i] = 2 THEN TRUE ELSE recovered[i]]
          /\ verdict' = [verdict EXCEPT ![i] = Final(i)]
          /\ diagnosis' = [diagnosis EXCEPT ![i] = Final(i)]
      BY <1>4, <2>1 DEF LoopClose, outVars
    <3>3. (IF okRuns[i] = 2 THEN TRUE ELSE recovered[i]) \in BOOLEAN
      BY DEF DbTypes
    <3>4. \E b \in BOOLEAN : recovered' = [recovered EXCEPT ![i] = b]
      BY <3>2, <3>3
    <3>5. QED
      BY <2>1, <3>1, <3>2, <3>4, ResolvePromise
  <2>2. CASE ~Open(i)
    BY <1>4, <2>2 DEF LoopClose, PromiseStep, Promise!vars, outVars
  <2>3. QED
    BY <2>1, <2>2
<1>5. CASE LoopClosed(i)
  <2>1. state[i] = "resolved" /\ closedNotices[i] = 0
    BY <1>5 DEF LoopClosed, RecordInv, OneCloser
  <2>2. QED
    BY <1>5, <2>1, ClosedPromise DEF LoopClosed, dbVars
<1>6. QED
  BY <1>1, <1>2, <1>3, <1>4, <1>5 DEF LoopStep

\* The retention sweep erases resolved incidents, all of a row at a time.
LEMMA JanitorPromise ==
    ASSUME JanitorSweep
    PROVE  PromiseStep
<1>1. PICK S \in SUBSET Ids :
         /\ \A i \in S : state[i] = "resolved"
         /\ state' = Without(state, S, "absent") /\ recovered' = Without(recovered, S, FALSE)
         /\ falseAlarm' = Without(falseAlarm, S, FALSE)
         /\ verdict' = Without(verdict, S, "none") /\ diagnosis' = Without(diagnosis, S, "none")
         /\ closedNotices' = Without(closedNotices, S, 0)
  BY DEF JanitorSweep, Resolved
<1>2. Promise!Prune(S)
  BY <1>1 DEF Promise!Prune, Promise!Erase, Promise!Ids, Ids, Without
<1>3. QED
  BY <1>2 DEF PromiseStep, Promise!Next, Promise!Ids, Ids

\* A restart fills in a recovery only where it changes nothing or the incident
\* is resolved: the evidence of an open one is in step with its runs.
LEMMA CrashPromise ==
    ASSUME TypeInv, RecordInv, CrashRestart
    PROVE  PromiseStep
<1> USE DEF TypeInv, TypeOK, DbTypes
<1> DEFINE S == {i \in Ids : evidence[i] = "late" /\ newestRun[i] = "ok" /\ state[i] = "resolved"}
<1>1. \A i \in Ids : evidence[i] = "late" /\ newestRun[i] = "ok" => i \in S \/ recovered[i]
  BY DEF RecordInv, RowsInv, EvidenceFollowsRuns, AbsentIsBlank, Present, Open, State
<1>2. recovered' = [i \in Ids |-> i \in S \/ recovered[i]]
  <2>1. recovered' = [i \in Ids |-> IF evidence[i] = "late" /\ newestRun[i] = "ok"
                                   THEN TRUE ELSE recovered[i]]
    BY DEF CrashRestart, Migrate
  <2>2. ASSUME NEW i \in Ids
        PROVE  (IF evidence[i] = "late" /\ newestRun[i] = "ok" THEN TRUE ELSE recovered[i])
               = (i \in S \/ recovered[i])
    BY <1>1
  <2>3. QED
    BY <2>1, <2>2
<1>3. /\ diagnosis' = [i \in Ids |-> IF diagnosis[i] = "none" THEN verdict[i] ELSE diagnosis[i]]
      /\ UNCHANGED <<state, falseAlarm, verdict, closedNotices>>
  BY DEF CrashRestart, Migrate, outVars
<1>4. Promise!Restart(S)
  BY <1>2, <1>3 DEF Promise!Restart, Promise!Ids, Ids
<1>5. QED
  BY <1>4 DEF PromiseStep, Promise!Next, Promise!Ids, Ids

\* The engine implements the record it promises: incidents one at a time, each
\* free to change while open and final once resolved, fault_closed after that
\* and once, whatever the threads, the crashes and the faults.
THEOREM Implements == Spec => ImplementsRecord
<1>1. Init => Promise!Init
  BY DEF Init, Promise!Init, Promise!Ids, Ids
<1>2. TypeInv /\ RecordInv /\ [Next]_vars => [Promise!Next]_Promise!vars
  <2>1. ASSUME TypeInv, RecordInv, Next
        PROVE  PromiseStep
    BY <2>1, RequestPromise, LoopPromise, JanitorPromise, CrashPromise DEF Next
  <2>2. UNCHANGED vars => PromiseStep
    BY DEF PromiseStep, Promise!vars, vars, dbVars, incidentVars, outVars
  <2>3. QED
    BY <2>1, <2>2 DEF PromiseStep
<1>3. QED
  BY <1>1, <1>2, TypeInvariance, RecordInvariance, PTL DEF Spec, ImplementsRecord, Promise!Spec

\* A resolved incident is never reopened, loses no recovery, and has its final
\* attribution: the promise allows nothing else.
THEOREM ResolvedIsFinalAlways == Spec => ResolvedIsFinal
<1> DEFINE Finality ==
      \A i \in Ids : state[i] = "resolved" =>
          \/ state'[i] = "absent"
          \/ /\ state'[i] = "resolved"
             /\ recovered[i] => recovered'[i]
             /\ \/ diagnosis'[i] = diagnosis[i]
                \/ diagnosis[i] = "none" /\ diagnosis'[i] = verdict[i]
             /\ \/ falseAlarm'[i] = falseAlarm[i] /\ verdict'[i] = verdict[i]
                \/ falseAlarm'[i] /\ verdict'[i] = AllClear
<1>1. TypeInv /\ [Promise!Next]_Promise!vars => [Finality]_vars
  <2> SUFFICES ASSUME TypeInv, [Promise!Next]_Promise!vars PROVE Finality
    OBVIOUS
  <2> USE DEF TypeInv, TypeOK, DbTypes
  <2>1. ASSUME NEW i \in Ids, Promise!OpenNew(i) \/ Promise!Observe(i) \/ Promise!Resolve(i)
        PROVE  Finality
    <3>1. state[i] # "resolved"
      BY <2>1 DEF Promise!OpenNew, Promise!Observe, Promise!Resolve, Promise!Ids, Ids
    <3>2. \A j \in Ids \ {i} : /\ state'[j] = state[j] /\ recovered'[j] = recovered[j]
                                /\ diagnosis'[j] = diagnosis[j] /\ verdict'[j] = verdict[j]
                                /\ falseAlarm'[j] = falseAlarm[j]
      BY <2>1 DEF Promise!OpenNew, Promise!Observe, Promise!Resolve
    <3>3. QED
      BY <3>1, <3>2
  <2>2. ASSUME NEW i \in Ids, Promise!MarkFalseAlarm(i) \/ Promise!AnnounceClosed(i)
        PROVE  Finality
    BY <2>2 DEF Promise!MarkFalseAlarm, Promise!AnnounceClosed, AllClear
  <2>3. ASSUME NEW S \in SUBSET Ids, Promise!Prune(S)
        PROVE  Finality
    BY <2>3 DEF Promise!Prune, Promise!Erase, Promise!Ids, Ids
  <2>4. ASSUME NEW S \in SUBSET Ids, Promise!Restart(S)
        PROVE  Finality
    BY <2>4 DEF Promise!Restart, Promise!Ids, Ids
  <2>5. CASE UNCHANGED Promise!vars
    BY <2>5 DEF Promise!vars
  <2>6. QED
    BY <2>1, <2>2, <2>3, <2>4, <2>5 DEF Promise!Next, Promise!Ids, Ids
<1>2. QED
  BY <1>1, TypeInvariance, Implements, PTL DEF ResolvedIsFinal, ImplementsRecord, Promise!Spec
=============================================================================
