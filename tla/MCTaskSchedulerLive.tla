------------------------- MODULE MCTaskSchedulerLive -------------------------
(* Two task types of one slot each.  "scan" has a timeout and a second       *)
(* attempt without delay; the bodies of "hold" may keep the slot for ever,   *)
(* but its queue wait is limited.                                            *)
EXTENDS TaskScheduler

MCTypes == {"scan", "hold"}
MCConcurrency == [ty \in MCTypes |-> 1]
MCMaxAttempts == [ty \in MCTypes |-> IF ty = "scan" THEN 2 ELSE 1]
MCHasBackoff == [ty \in MCTypes |-> FALSE]
MCHasTimeout == [ty \in MCTypes |-> ty = "scan"]
MCHasQueueTimeout == [ty \in MCTypes |-> ty = "hold"]
MCHelperLane == [ty \in MCTypes |-> ty = "scan"]
=============================================================================
