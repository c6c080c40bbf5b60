------------------------- MODULE MCSessionActivity -------------------------
(* One session over a few instants, long enough for two runs of the host.  *)
EXTENDS SessionActivity
=============================================================================
