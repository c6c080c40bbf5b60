------------------------------ MODULE TerminalLog ------------------------------
(***************************************************************************)
(* The persistent log of one terminal: the spooler                         *)
(* (apps/host/src/modules/terminal/runtime/terminal-log-spooler.ts) with   *)
(* its file store, the two tables of the index, and the operations of      *)
(* terminal-service.ts that write, flush, read and remove the log.         *)
(*                                                                         *)
(* This is the production wiring: the spooler has the write queue of the   *)
(* host.  A flush is an operation of that queue that prepares the file's   *)
(* record, an append to the file, and a second operation that commits.     *)
(* The reaction to an operation runs before the next one, so that the      *)
(* append belongs to the step that prepares, and what follows a flush to   *)
(* the step that ends it.  The operations of the queue are not             *)
(* transactions: of two statements the second alone may fail.              *)
(*                                                                         *)
(* A chunk is the number of an output; all chunks have the same length, so *)
(* that offsets and sizes count chunks.  The host may die at any moment.   *)
(***************************************************************************)
EXTENDS Integers, Sequences, SequencesExt

CONSTANTS
  MaxChunks,   \* bound: outputs of the terminal
  MaxFaults,   \* bound: operations and appends that fail
  MaxRuns,     \* bound: times the host is started
  Batches      \* identities of batches, reused once a batch is over

ASSUME BoundsAssumption ==
  MaxChunks \in Nat /\ MaxFaults \in Nat /\ MaxRuns \in Nat \ {0}
ASSUME BatchesAssumption == Batches \subseteq Nat \ {0}

VARIABLES
  output,    \* the chunks so far: the run of the host and the cursor of each
  cursor,    \* TerminalOutputBuffer: the last cursor given out
  run,       \* which run of the host this is
  host,      \* TerminalService: in service, disposing, disposed
  runtime,   \* the terminal's process is attached and may write
  terminal,  \* whether the row of the terminal exists
  removal,   \* closeTerminal or deleteTerminal: how far it is
  spooler,   \* batches, the one in the map, operations queued, calls of flush
  record,    \* terminal_log_files: whether the row is there, its size_bytes
  segments,  \* terminal_log_segments, in the order of insertion
  file,      \* contents of active.log
  faults     \* failures so far

vars == <<output, cursor, run, host, runtime, terminal, removal, spooler,
          record, segments, file, faults>>

Chunks == 1..MaxChunks
Callers == {"timer", "history", "removal", "dispose"}

Operation == [op: {"prepare", "commit", "delete"}, batch: Batches \cup {0},
              offset: Nat]
Batch == [chunks: Seq(Chunks), timer: BOOLEAN, inflight: Seq(Chunks)]
Call == [state: {"idle", "own", "other", "returned"}, batch: Batches \cup {0},
         upto: 0..MaxChunks, ok: BOOLEAN]

LogTypeOK ==
  /\ output \in Seq([run: 1..MaxRuns, cursor: Chunks]) /\ Len(output) <= MaxChunks
  /\ cursor \in 0..MaxChunks /\ run \in 1..MaxRuns
  /\ host \in {"up", "disposing", "disposed"}
  /\ runtime \in BOOLEAN /\ terminal \in {"open", "gone"}
  /\ removal \in [kind: {"close", "delete"}, batch: Batches \cup {0},
       step: {"none", "flushing", "again", "taken", "clearing", "deleting", "done", "failed"}]
  /\ spooler \in [batch: [Batches -> Batch], mapped: Batches \cup {0},
                  queue: Seq(Operation), call: [Callers -> Call]]
  /\ record \in [exists: BOOLEAN, size: Nat]
  /\ segments \in Seq([offset: Nat, chunks: Seq(Chunks)])
  /\ file \in Seq(Chunks)
  /\ faults \in 0..MaxFaults

-----------------------------------------------------------------------------
(* The spooler.  s is its state.                                            *)

NoBatch == [chunks |-> <<>>, timer |-> FALSE, inflight |-> <<>>]
NoCall == [state |-> "idle", batch |-> 0, upto |-> 0, ok |-> TRUE]
Flushing(s, b) == b # 0 /\ s.batch[b].inflight # <<>>

Enqueued(s, kind, b, offset) ==
  [s EXCEPT !.queue = Append(@, [op |-> kind, batch |-> b, offset |-> offset])]

(* A batch out of the map, without a flush or a timer, is garbage.          *)
Unused(s) ==
  {b \in Batches : b # s.mapped /\ ~Flushing(s, b) /\ ~s.batch[b].timer}
Collected(s) ==
  [s EXCEPT !.batch = [b \in Batches |-> IF b \in Unused(s) THEN NoBatch ELSE @[b]]]

(* scheduleFlush: it arms the timer of the batch in the map, whichever that *)
(* is.                                                                      *)
Scheduled(s) ==
  IF s.mapped = 0 THEN s ELSE [s EXCEPT !.batch[s.mapped].timer = TRUE]

(* Mutant of Appended: a chunk is numbered from 0. *)
AppendedFromZero(s, c) == Scheduled([s EXCEPT !.mapped = CHOOSE b \in Batches : TRUE,
                            !.batch[CHOOSE b \in Batches : TRUE].chunks = Append(@, c - 1)])

(* appendChunks into the mapped batch, or into a new one.                   *)
Appended(s, c) ==
  LET b == IF s.mapped # 0 THEN s.mapped
           ELSE CHOOSE n \in Unused(s) : \A m \in Unused(s) : n <= m
      t == [s EXCEPT !.mapped = b, !.batch[b].chunks = Append(@, c)]
  IN  IF Flushing(s, b) THEN t ELSE Scheduled(t)

(* Mutant of Cleared: a batch that is being flushed stays in the map. *)
ClearedUnlessFlushing(s) ==
  IF s.mapped = 0 \/ Flushing(s, s.mapped) THEN s
  ELSE [s EXCEPT !.batch[s.mapped] = NoBatch, !.mapped = 0]

(* clearTerminal: the timer is cleared and the batch leaves the map; a      *)
(* flush of it goes on.                                                     *)
Cleared(s) ==
  IF s.mapped = 0 THEN s
  ELSE [s EXCEPT !.batch[s.mapped].timer = FALSE, !.mapped = 0]

(* Call c returns; nobody waits for a timer's.                              *)
Over(s, c) ==
  IF c = "timer" THEN NoCall ELSE [s.call[c] EXCEPT !.state = "returned", !.batch = 0]
Returned(s, c) == [s EXCEPT !.call[c] = Over(s, c)]

Awaits(s, c, state, b) ==
  [s EXCEPT !.call[c].state = state, !.call[c].batch = b]

(* flushTerminal as call c, up to its first await.                          *)
FlushTerminal(s, c) ==
  LET b == s.mapped
  IN  IF host = "disposed" THEN Returned(Cleared(s), c)
      ELSE IF b = 0 THEN Returned(s, c)
      ELSE IF Flushing(s, b) THEN Awaits(s, c, "other", b)
      ELSE IF s.batch[b].chunks = <<>> THEN Returned(s, c)
      ELSE Awaits(Enqueued([s EXCEPT !.batch[b] =
                     [chunks |-> <<>>, timer |-> FALSE, inflight |-> @.chunks]],
                   "prepare", b, 0), c, "own", b)

(* Mutant of Resumed: a call that waited does not look again. *)
ResumedAtOnce(s, c, b) == Returned(s, c)

(* A call that waited for another's flush of b: with chunks left it calls   *)
(* flushTerminal again, and the calls after it may find none left.          *)
Resumed(s, c, b) ==
  IF s.batch[b].chunks = <<>> THEN Returned(s, c) ELSE FlushTerminal(s, c)

(* A call of flushTerminal: what it is there to flush is the output so far. *)
Called(s, c) ==
  FlushTerminal([s EXCEPT !.call[c] = [NoCall EXCEPT !.upto = Len(output)]], c)

(* Mutant of Settled: the chunks of a failed flush are dropped. *)
SettledDropping(s, b, ok) ==
  LET t == [s EXCEPT !.batch[b].inflight = <<>>]
  IN  IF t.batch[b].chunks # <<>> THEN Scheduled(t) ELSE [t EXCEPT !.mapped = 0]

(* Mutant of Settled: failed chunks go behind what came since. *)
SettledBehind(s, b, ok) ==
  LET kept == s.batch[b].chunks \o (IF ok THEN <<>> ELSE s.batch[b].inflight)
      t == [s EXCEPT !.batch[b].chunks = kept, !.batch[b].inflight = <<>>]
  IN  IF kept # <<>> THEN Scheduled(t) ELSE [t EXCEPT !.mapped = 0]

(* Mutant of Settled: what is left gets no timer. *)
SettledUnscheduled(s, b, ok) ==
  LET kept == IF ok THEN s.batch[b].chunks
              ELSE s.batch[b].inflight \o s.batch[b].chunks
      t == [s EXCEPT !.batch[b].chunks = kept, !.batch[b].inflight = <<>>]
  IN  IF kept # <<>> THEN t ELSE [t EXCEPT !.mapped = 0]

(* The catch and finally of a flush of b: what failed goes back in front of *)
(* what came since, under the timer of the mapped batch; with nothing left  *)
(* the map loses its entry, whichever batch that is.                        *)
Settled(s, b, ok) ==
  LET kept == IF ok THEN s.batch[b].chunks
              ELSE s.batch[b].inflight \o s.batch[b].chunks
      t == [s EXCEPT !.batch[b].chunks = kept, !.batch[b].inflight = <<>>]
  IN  IF kept # <<>> /\ host # "disposed" THEN Scheduled(t)
      ELSE IF t.batch[b].timer THEN t
      ELSE [t EXCEPT !.mapped = 0]

(* The waiters of b in some order, after the caller that owns the flush.    *)
Waiting(s, b, state) ==
  {c \in Callers : s.call[c].state = state /\ s.call[c].batch = b}
Owned(s, b) ==
  [s EXCEPT !.call = [c \in Callers |->
     IF c \in Waiting(s, b, "own") THEN Over(s, c) ELSE @[c]]]
Woken(s, b, order) == FoldLeft(LAMBDA t, c : Resumed(t, c, b), Owned(s, b), order)

(* Whoever has called knows that a flush failed.                            *)
Marked(s, ok) ==
  [s EXCEPT !.call = [c \in Callers |->
     IF s.call[c].state = "idle" THEN s.call[c] ELSE [s.call[c] EXCEPT !.ok = @ /\ ok]]]

EndFlush(s, b, ok) ==
  \E settled \in {Settled(Marked(s, ok), b, ok)},
     order \in SetToSeqs(Waiting(s, b, "other")) :
    \E woken \in {Woken(settled, b, order)} :
      IF removal.step = "clearing" /\ removal.batch = b
        THEN /\ spooler' = Collected(Enqueued(woken, "delete", 0, 0))
             /\ removal' = [removal EXCEPT !.step = "deleting", !.batch = 0]
        ELSE spooler' = Collected(woken) /\ UNCHANGED removal

-----------------------------------------------------------------------------
(* TerminalService.                                                         *)

Init ==
  /\ output = <<>> /\ cursor = 0 /\ run = 1 /\ host = "up"
  /\ runtime = TRUE /\ terminal = "open"
  /\ removal = [kind |-> "close", batch |-> 0, step |-> "none"]
  /\ spooler = [batch |-> [b \in Batches |-> NoBatch], mapped |-> 0,
                queue |-> <<>>, call |-> [c \in Callers |-> NoCall]]
  /\ record = [exists |-> FALSE, size |-> 0]
  /\ segments = <<>> /\ file = <<>> /\ faults = 0

stored == <<record, segments, file>>
service == <<output, cursor, run, host, runtime, terminal>>

(* commitTerminalOutput: output of the process enters the buffer and the    *)
(* spooler.                                                                 *)
Output ==
  /\ runtime /\ host = "up" /\ Len(output) < MaxChunks
  /\ spooler.mapped # 0 \/ Unused(spooler) # {}
  /\ cursor' = cursor + 1
  /\ output' = Append(output, [run |-> run, cursor |-> cursor'])
  /\ spooler' = Appended(spooler, Len(output'))
  /\ UNCHANGED <<run, host, runtime, terminal, removal, stored, faults>>

TimerFires(b) ==
  /\ spooler.batch[b].timer
  /\ spooler' = Collected(Called([spooler EXCEPT !.batch[b].timer = FALSE], "timer"))
  /\ UNCHANGED <<service, removal, stored, faults>>

(* readTerminalHistory flushes before it reads; so does the exit handler of *)
(* a process that failed, which keeps the log.                              *)
ReadHistory ==
  /\ host = "up" /\ terminal = "open"
  /\ spooler.call["history"].state \in {"idle", "returned"}
  /\ spooler' = Called(spooler, "history")
  /\ UNCHANGED <<service, removal, stored, faults>>

(* closeTerminal or deleteTerminal up to the end of its flush.  A closed    *)
(* terminal may be deleted.                                                 *)
BeginRemoval(kind) ==
  /\ host = "up" /\ terminal = "open"
  /\ \/ removal.step = "none"
     \/ removal.step \in {"done", "failed"} /\ kind = "delete"
  /\ removal' = [kind |-> kind, batch |-> 0,
                  step |-> IF removal.step = "none" THEN "flushing" ELSE "again"]
  /\ spooler' = Called(spooler, "removal")
  /\ UNCHANGED <<service, stored, faults>>

RemovalFlushed(kind) ==
  /\ removal.kind = kind /\ removal.step \in {"flushing", "again"}
  /\ spooler.call["removal"].state = "returned"

(* terminateSession of a close rejects, or the transaction of a delete.     *)
AbandonRemoval ==
  /\ \E kind \in {"close", "delete"} : RemovalFlushed(kind)
  /\ removal' = [removal EXCEPT !.step = IF @ = "again" THEN "failed" ELSE "none"]
  /\ spooler' = [spooler EXCEPT !.call["removal"] = NoCall]
  /\ UNCHANGED <<service, stored, faults>>

(* The process ends, by itself or as a removal terminates it.               *)
RuntimeEnds ==
  /\ runtime /\ runtime' = FALSE
  /\ UNCHANGED <<output, cursor, run, host, terminal, removal, spooler, stored, faults>>

(* The exit of a process that is being closed flushes again.                *)
FlushAtExit ==
  /\ RemovalFlushed("close") /\ ~runtime
  /\ spooler' = Called(spooler, "removal")
  /\ UNCHANGED <<service, removal, stored, faults>>

(* deleteTerminal deletes the row; the tables of the log cascade.           *)
DeleteRow ==
  /\ RemovalFlushed("delete")
  /\ terminal' = "gone"
  /\ record' = [exists |-> FALSE, size |-> 0] /\ segments' = <<>>
  /\ removal' = [removal EXCEPT !.step = "taken"]
  /\ spooler' = [spooler EXCEPT !.call["removal"] = NoCall]
  /\ UNCHANGED <<output, cursor, run, host, runtime, file, faults>>

(* clearTerminalLogs: the buffer is cleared, the batch leaves the map, and  *)
(* a flush of it is waited for.  A closed process has ended; a deleted      *)
(* terminal's may live on when it could not be terminated.                  *)
ClearLogs ==
  /\ \/ RemovalFlushed("close") /\ ~runtime
     \/ removal.step = "taken"
  /\ cursor' = 0
  /\ LET b == spooler.mapped
         cleared == Cleared([spooler EXCEPT !.call["removal"] = NoCall])
     IN  IF Flushing(spooler, b)
           THEN /\ spooler' = cleared
                /\ removal' = [removal EXCEPT !.step = "clearing", !.batch = b]
           ELSE /\ spooler' = Collected(Enqueued(cleared, "delete", 0, 0))
                /\ removal' = [removal EXCEPT !.step = "deleting"]
  /\ UNCHANGED <<output, run, host, runtime, terminal, stored, faults>>

(* TerminalService.dispose: the output stops, the spooler flushes.          *)
DisposeBegin ==
  /\ host = "up" /\ host' = "disposing"
  /\ spooler' = Called(spooler, "dispose")
  /\ UNCHANGED <<output, cursor, run, runtime, terminal, removal, stored, faults>>

DisposeEnd ==
  /\ host = "disposing" /\ spooler.call["dispose"].state = "returned"
  /\ host' = "disposed"
  /\ spooler' = IF spooler.mapped = 0 THEN spooler
                ELSE [spooler EXCEPT !.batch[spooler.mapped].timer = FALSE]
  /\ UNCHANGED <<output, cursor, run, runtime, terminal, removal, stored, faults>>

-----------------------------------------------------------------------------
(* The operations of the write queue, with what follows each at once.       *)

At(kind) == spooler.queue # <<>> /\ Head(spooler.queue).op = kind
Taken == [spooler EXCEPT !.queue = Tail(@)]
Fault == faults < MaxFaults /\ faults' = faults + 1

(* append: the offset is the size of the record, not the end of the file.   *)
StartOffset == record.size

(* terminal.log.prepare finds or creates the record, and the chunks are     *)
(* appended.                                                                *)
PrepareAndAppend ==
  LET b == Head(spooler.queue).batch
  IN  /\ At("prepare")
      /\ record.exists \/ terminal = "open"
      /\ record' = [record EXCEPT !.exists = TRUE]
      /\ file' = file \o spooler.batch[b].inflight
      /\ spooler' = Enqueued(Taken, "commit", b, StartOffset)
      /\ UNCHANGED <<service, removal, segments, faults>>

(* It fails: the record cannot be created for a terminal that is gone, the  *)
(* operation fails, or it creates the record and the append throws.         *)
PrepareFails ==
  /\ At("prepare")
  /\ \/ ~record.exists /\ terminal = "gone" /\ UNCHANGED <<record, faults>>
     \/ Fault /\ UNCHANGED record
     \/ Fault /\ terminal = "open" /\ record' = [record EXCEPT !.exists = TRUE]
  /\ EndFlush(Taken, Head(spooler.queue).batch, FALSE)
  /\ UNCHANGED <<service, segments, file>>

SegmentOf(o) == [offset |-> o.offset, chunks |-> spooler.batch[o.batch].inflight]

(* terminal.log.commit inserts the segment and moves the size to its end.   *)
Commit ==
  LET o == Head(spooler.queue)
  IN  /\ At("commit") /\ record.exists
      /\ segments' = Append(segments, SegmentOf(o))
      /\ record' = [record EXCEPT !.size = o.offset + Len(SegmentOf(o).chunks)]
      /\ EndFlush(Taken, o.batch, TRUE)
      /\ UNCHANGED <<service, file, faults>>

(* It fails: the record is gone, the insertion fails, or the update after   *)
(* the insertion (which a retry of the operation does not get past, as the  *)
(* segment is there).                                                       *)
CommitFails ==
  LET o == Head(spooler.queue)
  IN  /\ At("commit")
      /\ \/ ~record.exists /\ UNCHANGED <<segments, faults>>
         \/ record.exists /\ Fault /\ UNCHANGED segments
         \/ record.exists /\ Fault /\ segments' = Append(segments, SegmentOf(o))
      /\ EndFlush(Taken, o.batch, FALSE)
      /\ UNCHANGED <<service, record, file>>

(* terminal.log.delete, then the directory.                                 *)
DeleteLogs ==
  /\ At("delete")
  /\ segments' = <<>> /\ record' = [exists |-> FALSE, size |-> 0] /\ file' = <<>>
  /\ spooler' = Taken
  /\ removal' = [removal EXCEPT !.step = "done"]
  /\ UNCHANGED <<service, faults>>

DeleteLogsFails ==
  /\ At("delete") /\ Fault
  /\ segments' \in {segments, <<>>}
  /\ spooler' = Taken
  /\ removal' = [removal EXCEPT !.step = "failed"]
  /\ UNCHANGED <<service, record, file>>

-----------------------------------------------------------------------------
(* The host dies, or exits after a dispose, and starts again: what is in    *)
(* memory is lost, and a process may have gone with it.                     *)
Restart ==
  /\ run < MaxRuns /\ run' = run + 1
  /\ host' = "up" /\ cursor' = 0
  /\ runtime' \in IF terminal = "gone" THEN {FALSE} ELSE {runtime, FALSE}
  /\ removal' = [removal EXCEPT !.batch = 0, !.step =
       IF @ \in {"again", "clearing", "deleting", "taken"} THEN "failed"
       ELSE IF @ = "flushing" THEN "none" ELSE @]
  /\ spooler' = [batch |-> [b \in Batches |-> NoBatch], mapped |-> 0,
                 queue |-> <<>>, call |-> [c \in Callers |-> NoCall]]
  /\ UNCHANGED <<output, terminal, stored, faults>>

Queue == PrepareAndAppend \/ PrepareFails \/ Commit \/ CommitFails
         \/ DeleteLogs \/ DeleteLogsFails
Service == ReadHistory \/ BeginRemoval("close") \/ BeginRemoval("delete")
           \/ AbandonRemoval \/ FlushAtExit \/ DeleteRow \/ ClearLogs
           \/ DisposeBegin \/ DisposeEnd
Next == Output \/ RuntimeEnds \/ Restart \/ Service \/ Queue
        \/ \E b \in Batches : TimerFires(b)

Spec == Init /\ [][Next]_vars

(* The event loop fires timers and the queue runs its operations; nobody    *)
(* must call, write or end.                                                 *)
Fairness ==
  WF_vars(Queue) /\ \A b \in Batches : WF_vars(TimerFires(b))
FairSpec == Spec /\ Fairness
-----------------------------------------------------------------------------
(* Properties.                                                              *)

Kept == terminal = "open" /\ removal.step \in {"none", "flushing"}
OfThisRun == {i \in DOMAIN output : output[i].run = run}
Indexed(i) == \E n \in DOMAIN segments : i \in ToSet(segments[n].chunks)
InBatch(b, i) == b # 0 /\ i \in ToSet(spooler.batch[b].inflight) \cup ToSet(spooler.batch[b].chunks)

(* As long as the log is kept and the spooler in service, a chunk of this   *)
(* run is in the index or in the batch of the map, and a batch that waits   *)
(* has a timer: failures, retries and the bookkeeping of the map at the end *)
(* of a flush (flushTerminal, catch and finally) lose nothing.              *)
NothingIsStranded ==
  Kept /\ host # "disposed" =>
    /\ \A i \in OfThisRun : Indexed(i) \/ InBatch(spooler.mapped, i)
    /\ \A b \in Batches : b = spooler.mapped /\ ~Flushing(spooler, b) =>
         spooler.batch[b].chunks # <<>> /\ spooler.batch[b].timer

(* A call of flushTerminal that returns, with no flush failed since it was  *)
(* made, leaves none of the output it found waiting: the output is indexed, *)
(* or its flush is under way.                                               *)
FlushTakesWhatItFound ==
  Kept /\ host # "disposed" => \A c \in Callers :
    spooler.call[c].state = "returned" /\ spooler.call[c].ok =>
      \A i \in OfThisRun : i <= spooler.call[c].upto =>
        \/ Indexed(i)
        \/ spooler.mapped # 0 /\ i \in ToSet(spooler.batch[spooler.mapped].inflight)

(* The segments of one run of the host cover its output from the first      *)
(* chunk on without a gap or a step back, in the order of insertion and of  *)
(* offsets; only a retry of a half-committed flush repeats a segment, at    *)
(* its offset and with all of it.                                           *)
IndexIsAChain ==
  Kept => \A n \in DOMAIN segments :
    LET c == segments[n].chunks
        runOf == output[c[1]].run
    IN  /\ \A k \in DOMAIN c : c[k] = c[1] + k - 1 /\ output[c[k]].run = runOf
        /\ IF n > 1 /\ output[segments[n - 1].chunks[1]].run = runOf
             THEN LET p == segments[n - 1]
                  IN  \/ /\ c[1] = Last(p.chunks) + 1
                         /\ segments[n].offset = p.offset + Len(p.chunks)
                      \/ segments[n].offset = p.offset /\ IsPrefix(p.chunks, c)
             ELSE output[c[1]].cursor = 1

(* What readTerminalHistorySegments reads from the file for a segment.      *)
ReadBack(n) == SubSeq(file, segments[n].offset + 1,
                      segments[n].offset + Len(segments[n].chunks))

(* A removal that is done leaves no file, no segment and no record, and the *)
(* flushes it overtook bring none back; a closed terminal leaves nothing in *)
(* the spooler either.                                                      *)
RemovalLeavesNothing ==
  removal.step = "done" =>
    /\ file = <<>> /\ segments = <<>> /\ ~record.exists
    /\ removal.kind = "close" /\ host # "disposed" =>
         spooler.mapped = 0 /\ spooler.queue = <<>>

(* Requirement 6.1 of spec006.1: what a flush completed can be read again.  *)
FlushedIsReadable ==
  Kept /\ ~At("commit") => \A n \in DOMAIN segments : ReadBack(n) = segments[n].chunks

(* Again and again all output is in the index, unless the log is removed or *)
(* the host stops: the timers bring every failed and every late chunk to a  *)
(* flush.                                                                   *)
OutputIsIndexed ==
  []<>(Kept /\ host = "up" => \A i \in OfThisRun : Indexed(i))
=============================================================================
