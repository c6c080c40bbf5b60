--------------------------- MODULE MCTaskScheduler ---------------------------
(* Two task types.  "scan" is queued: one slot, a timeout, a queue limit.    *)
(* "poll" is retried after a delay in the helper process, without a limit.   *)
EXTENDS TaskScheduler, TLC

KeySymmetry == Permutations(Keys)

MCTypes == {"scan", "poll"}
MCConcurrency == [ty \in MCTypes |-> IF ty = "scan" THEN 1 ELSE 0]
MCMaxAttempts == [ty \in MCTypes |-> IF ty = "scan" THEN 0 ELSE 2]
MCHasBackoff == [ty \in MCTypes |-> ty = "poll"]
MCHasTimeout == [ty \in MCTypes |-> ty = "scan"]
MCHasQueueTimeout == [ty \in MCTypes |-> ty = "scan"]
MCHelperLane == [ty \in MCTypes |-> ty = "poll"]
=============================================================================
