----------------------------- MODULE MCTerminalLog -----------------------------
(* A terminal with a few outputs, a failure and a restart; of two batches   *)
(* one can be flushed to its end while the other is in the map.             *)
EXTENDS TerminalLog

MCMaxChunks == 3
MCMaxFaults == 1
MCMaxRuns == 2
MCBatches == 1..2
=============================================================================
