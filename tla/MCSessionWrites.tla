--------------------------- MODULE MCSessionWrites ---------------------------
(* One row, two contents, both wirings; three commands, of which one may    *)
(* wait while another sleeps before its only retry.                         *)
EXTENDS SessionWrites
=============================================================================
