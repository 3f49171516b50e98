--------------------------- MODULE OutageAlertsMC ---------------------------
(***************************************************************************)
(* Model-checking instance of OutageAlerts: two service alerts, one        *)
(* recovery alert, two threads beside the quiet-hours scheduler.           *)
(***************************************************************************)
EXTENDS OutageAlerts, TLC

\* Threads are interchangeable, and so are alerts of one kind.
Symmetric == Permutations(Threads) \cup Permutations(Alerts \ UpAlerts)

\* All but what no step reads and no invariant of the instance: which alerts
\* were told, and what becomes of a digest once it was handed over.
NoHistory == <<storeVars, handedOver, trackVars, quiet, recent, threadVars, flushPc, flushBatch>>
=============================================================================
