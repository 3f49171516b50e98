------------------------------ MODULE DevicesMC ------------------------------
(***************************************************************************)
(* Model-checking instance of Devices: workers and dashboard threads check *)
(* one device, while an editor changes it, switches it on and off and      *)
(* deletes it.  The other ids are of no device: asking for a check of one  *)
(* takes a slot for a moment.                                              *)
(***************************************************************************)
EXTENDS Devices

CONSTANTS d1

MCSchedules == [d \in DeviceIds |-> IF d = d1 THEN {<<TRUE, TRUE>>, <<FALSE, TRUE>>} ELSE {}]

MCAlwaysOn == [d \in DeviceIds |-> {<<TRUE, TRUE>>}]
=============================================================================
