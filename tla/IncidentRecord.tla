--------------------------- MODULE IncidentRecord ---------------------------
(***************************************************************************)
(* What the incident engine promises a reader of the incidents table (the  *)
(* history view, the ISP report, the statistics) and a subscriber to its   *)
(* webhooks, whatever threads, crashes and faults are behind it:           *)
(*   - incidents are opened one at a time, under the next row id;          *)
(*   - an incident's record changes freely only while it is open;          *)
(*   - it is resolved once, and from then on only a false-alarm mark, the  *)
(*     retention sweep and the start of a process touch it;                *)
(*   - fault_closed follows the resolution, at most once.                  *)
(* Incidents implements this specification.                                *)
(***************************************************************************)
EXTENDS Naturals

CONSTANTS MaxIncidents, Codes

VARIABLES state, recovered, falseAlarm, verdict, diagnosis, closedNotices

vars == <<state, recovered, falseAlarm, verdict, diagnosis, closedNotices>>

Ids  == 1 .. MaxIncidents
Code == Codes \cup {"all_clear", "none"}

Init ==
    /\ state = [i \in Ids |-> "absent"]
    /\ recovered = [i \in Ids |-> FALSE]
    /\ falseAlarm = [i \in Ids |-> FALSE]
    /\ verdict = [i \in Ids |-> "none"]
    /\ diagnosis = [i \in Ids |-> "none"]
    /\ closedNotices = [i \in Ids |-> 0]

OpenNew(i) ==
    /\ \A j \in Ids : state[j] # "open"
    /\ \A j \in Ids : state[j] # "absent" => j < i
    /\ state' = [state EXCEPT ![i] = "open"]
    /\ UNCHANGED <<recovered, falseAlarm, verdict, diagnosis, closedNotices>>

\* A diagnosis of an open incident: observed recovery, new attribution.
Observe(i) ==
    /\ state[i] = "open"
    /\ \E b \in BOOLEAN : recovered' = [recovered EXCEPT ![i] = b]
    /\ \E c \in Code : /\ diagnosis' = [diagnosis EXCEPT ![i] = c]
                       /\ verdict' = [verdict EXCEPT ![i] = c]
    /\ UNCHANGED <<state, falseAlarm, closedNotices>>

Resolve(i) ==
    /\ state[i] = "open"
    /\ state' = [state EXCEPT ![i] = "resolved"]
    /\ \E b \in BOOLEAN : recovered' = [recovered EXCEPT ![i] = b]
    /\ \E c \in Code : /\ diagnosis' = [diagnosis EXCEPT ![i] = c]
                       /\ verdict' = [verdict EXCEPT ![i] = c]
    /\ UNCHANGED <<falseAlarm, closedNotices>>

\* Resolves the incident if it was open; the diagnosis stays as evidence.
MarkFalseAlarm(i) ==
    /\ state[i] # "absent"
    /\ state' = [state EXCEPT ![i] = "resolved"]
    /\ falseAlarm' = [falseAlarm EXCEPT ![i] = TRUE]
    /\ verdict' = [verdict EXCEPT ![i] = "all_clear"]
    /\ UNCHANGED <<recovered, diagnosis, closedNotices>>

AnnounceClosed(i) ==
    /\ state[i] = "resolved"
    /\ closedNotices[i] = 0
    /\ closedNotices' = [closedNotices EXCEPT ![i] = 1]
    /\ UNCHANGED <<state, recovered, falseAlarm, verdict, diagnosis>>

\* A start of the process fills what an older or cut-short record lacks: an
\* empty diagnosis, the recovery that late diagnoses of a resolved incident
\* prove.
Restart(S) ==
    /\ \A i \in S : state[i] = "resolved"
    /\ recovered' = [i \in Ids |-> i \in S \/ recovered[i]]
    /\ diagnosis' = [i \in Ids |-> IF diagnosis[i] = "none" THEN verdict[i]
                                                          ELSE diagnosis[i]]
    /\ UNCHANGED <<state, falseAlarm, verdict, closedNotices>>

Erase(f, S, v) == [i \in Ids |-> IF i \in S THEN v ELSE f[i]]

Prune(S) ==
    /\ \A i \in S : state[i] = "resolved"
    /\ state' = Erase(state, S, "absent")
    /\ recovered' = Erase(recovered, S, FALSE)
    /\ falseAlarm' = Erase(falseAlarm, S, FALSE)
    /\ verdict' = Erase(verdict, S, "none")
    /\ diagnosis' = Erase(diagnosis, S, "none")
    /\ closedNotices' = Erase(closedNotices, S, 0)

Next ==
    \/ \E i \in Ids : \/ OpenNew(i) \/ Observe(i) \/ Resolve(i)
                      \/ MarkFalseAlarm(i) \/ AnnounceClosed(i)
    \/ \E S \in SUBSET Ids : Prune(S) \/ Restart(S)

Spec == Init /\ [][Next]_vars
=============================================================================
