------------------------- MODULE MCSqliteWriteQueue -------------------------
(* Four calls of enqueue: one command runs while up to two wait and a last  *)
(* one meets them, coalesces, joins their batch or finds the queue full.    *)
(* A call with five bytes is larger than a command may be.                  *)
EXTENDS SqliteWriteQueue

MCCalls == {<<"critical", "none", 2>>, <<"latest_wins", "session", 1>>,
            <<"append_batch", "session", 1>>, <<"append_batch", "session", 5>>}

=============================================================================
