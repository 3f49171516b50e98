--------------------------- MODULE WebhookQueueMC ---------------------------
(***************************************************************************)
(* Model-checking instance of WebhookQueue: a webhook that is sent every   *)
(* event at once, and one that is sent faults after a delay of one tick.   *)
(***************************************************************************)
EXTENDS WebhookQueue

MCEscalation == <<0, 1>>
MCSubscribed == <<Kinds, {"fault"}>>
=============================================================================
