-------------------------- MODULE SqliteWriteQueue --------------------------
(***************************************************************************)
(* The bounded SQLite write queue of the host                              *)
(* (apps/host/src/storage/sqlite/write-queue.ts), with the retry loop of   *)
(* write-retry.ts that runs each batch.                                    *)
(*                                                                         *)
(* A command is a member of 1..MaxCommands, issued in increasing order.    *)
(* One runner drains the queue: it is "executing" an operation, "sleeping" *)
(* before a retry, or has "returned" from runNext and waits for its        *)
(* finally callback; callers enqueue and close between any two of these    *)
(* steps.  A failed operation leaves the database as it was.               *)
(***************************************************************************)
EXTENDS Integers, Sequences, SequencesExt

CONSTANTS
  Keys, NoKey,         \* coalescing keys; NoKey: options.key is absent
  Sizes,               \* estimatedBytes of the commands
  Calls,               \* the <<policy, key, size>> callers enqueue with
  MaxCommands,         \* bound on the calls of enqueue
  MaxCommandBytes, MaxPendingCommands, MaxPendingBytes,
  MaxBatchCommands, MaxBatchBytes,
  MaxRetries           \* retries the delay table and maxTotalWaitMs allow

(* "best_effort" differs from "critical" in the wording of a rejection.     *)
Policies == {"critical", "latest_wins", "append_batch"}

ASSUME KeysAssumption == NoKey \notin Keys
ASSUME SizesAssumption == Sizes \subseteq Nat \ {0} /\ Sizes # {}
ASSUME CallsAssumption == Calls \subseteq Policies \X (Keys \cup {NoKey}) \X Sizes
ASSUME LimitsAssumption ==
  {MaxCommands, MaxCommandBytes, MaxPendingCommands, MaxPendingBytes,
   MaxBatchCommands, MaxBatchBytes, MaxRetries} \subseteq Nat

VARIABLES
  nextCommand,   \* commands issued so far
  cmd,           \* the QueueEntry of each, its promise, and its commits
  entries,       \* waiting commands
  pendingBytes,
  batch,         \* the commands runNext is executing
  position,      \* the operation of the batch that runs
  retries,       \* retryCount of the batch
  runner,
  closed,
  drain          \* the promise of close({drain: true})

queueVars == <<nextCommand, cmd, entries, pendingBytes, batch, position,
               retries, runner, closed, drain>>

Commands == 1..MaxCommands

Outcomes == {"unissued", "pending", "resolved", "failed", "backpressure",
             "coalesced", "closed"}
Runners == {"idle", "executing", "sleeping", "returned"}
Entry == [policy: Policies, key: Keys \cup {NoKey}, bytes: Sizes,
          outcome: Outcomes, commits: Nat]

QueueTypeOK ==
  /\ nextCommand \in 0..MaxCommands
  /\ cmd \in [Commands -> Entry]
  /\ entries \in Seq(Commands)
  /\ pendingBytes \in Nat
  /\ batch \in Seq(Commands)
  /\ position \in Nat \ {0}
  /\ retries \in 0..MaxRetries
  /\ runner \in Runners
  /\ closed \in BOOLEAN
  /\ drain \in {"none", "waiting", "returned"}

-----------------------------------------------------------------------------
Issued == 1..nextCommand
Pending == {c \in Issued : cmd[c].outcome = "pending"}

Decide(cs, S, outcome) ==
  [c \in Commands |-> IF c \in S THEN [cs[c] EXCEPT !.outcome = outcome]
                      ELSE cs[c]]

BytesOf(q, cs) == FoldLeft(LAMBDA sum, c : sum + cs[c].bytes, 0, q)

(* Mutant of JoinsBatch: the policy of the candidate is not looked at. *)
JoinsBatchAnyPolicy(q, cs, i) ==
  /\ cs[q[1]].key # NoKey /\ cs[q[i]].key = cs[q[1]].key
  /\ i <= MaxBatchCommands
  /\ BytesOf(SubSeq(q, 1, i), cs) <= MaxBatchBytes

(* The i-th waiting command may join the batch of the first.                *)
JoinsBatch(q, cs, i) ==
  /\ cs[q[1]].policy = "append_batch" /\ cs[q[i]].policy = "append_batch"
  /\ cs[q[1]].key # NoKey /\ cs[q[i]].key = cs[q[1]].key
  /\ i <= MaxBatchCommands
  /\ BytesOf(SubSeq(q, 1, i), cs) <= MaxBatchBytes

BatchLength(q, cs) ==
  Cardinality({n \in DOMAIN q : \A i \in 2..n : JoinsBatch(q, cs, i)})

(* runNext up to its first operation: the first command and those that join *)
(* it leave the queue; late: the first has waited longer than maxWaitMs.    *)
RunNext(q, cs, bytes, late) ==
  LET n == BatchLength(q, cs)
      taken == SubSeq(q, 1, n)
  IN  /\ entries' = SubSeq(q, n + 1, Len(q))
      /\ pendingBytes' = bytes - BytesOf(taken, cs)
      /\ batch' = IF late THEN <<>> ELSE taken
      /\ cmd' = IF late THEN Decide(cs, ToSet(taken), "backpressure") ELSE cs
      /\ runner' = IF late THEN "returned" ELSE "executing"
      /\ position' = 1
      /\ retries' = 0

(* The entry a latest_wins command replaces, as an index; 0 for none.       *)
Superseded(policy, key) ==
  IF policy = "latest_wins" /\ key # NoKey
    THEN SelectInSeq(entries, LAMBDA e : cmd[e].key = key /\ cmd[e].policy = policy)
    ELSE 0

(* Mutant of Push: the new command takes the place of the one it replaces. *)
PushInPlace(kept, i, c) == IF i = 0 THEN Append(kept, c) ELSE InsertAt(kept, i, c)

(* A command that replaces another goes to the end all the same.            *)
Push(kept, i, c) == Append(kept, c)

(* Mutant of Admits: the size of the new command is not counted. *)
AdmitsUnweighed(q, bytes, size) ==
  Len(q) < MaxPendingCommands /\ bytes <= MaxPendingBytes

Admits(q, bytes, size) ==
  Len(q) < MaxPendingCommands /\ bytes + size <= MaxPendingBytes
-----------------------------------------------------------------------------
Unissued == [policy |-> "critical", key |-> NoKey, bytes |-> CHOOSE n \in Sizes : TRUE,
             outcome |-> "unissued", commits |-> 0]

QueueInit ==
  /\ nextCommand = 0
  /\ cmd = [c \in Commands |-> Unissued]
  /\ entries = <<>> /\ pendingBytes = 0
  /\ batch = <<>> /\ position = 1 /\ retries = 0 /\ runner = "idle"
  /\ closed = FALSE /\ drain = "none"

(* enqueue rejects at once: the queue is closed, or the command too large.  *)
Refuse(c, new) ==
  /\ closed \/ new.bytes > MaxCommandBytes
  /\ cmd' = [cmd EXCEPT ![c] =
       [new EXCEPT !.outcome = IF closed THEN "closed" ELSE "backpressure"]]
  /\ UNCHANGED <<entries, pendingBytes, batch, position, retries, runner>>

(* enqueue otherwise: the superseded entry goes first, whether or not the   *)
(* new command then fits; one that fits is pushed and pump is called.       *)
Accept(c, new) ==
  LET i == Superseded(new.policy, new.key)
      kept == IF i = 0 THEN entries ELSE RemoveAt(entries, i)
      bytes == IF i = 0 THEN pendingBytes ELSE pendingBytes - cmd[entries[i]].bytes
      before == IF i = 0 THEN cmd ELSE Decide(cmd, {entries[i]}, "coalesced")
  IN  /\ ~closed /\ new.bytes <= MaxCommandBytes
      /\ IF ~Admits(kept, bytes, new.bytes)
           THEN /\ entries' = kept /\ pendingBytes' = bytes
                /\ cmd' = [before EXCEPT ![c] = [new EXCEPT !.outcome = "backpressure"]]
                /\ UNCHANGED <<batch, position, retries, runner>>
         ELSE IF runner = "idle"
           THEN RunNext(Push(kept, i, c), [before EXCEPT ![c] = new],
                        bytes + new.bytes, FALSE)
           ELSE /\ entries' = Push(kept, i, c) /\ pendingBytes' = bytes + new.bytes
                /\ cmd' = [before EXCEPT ![c] = new]
                /\ UNCHANGED <<batch, position, retries, runner>>

Enqueue(policy, key, size) ==
  LET c == nextCommand + 1
      new == [policy |-> policy, key |-> key, bytes |-> size,
              outcome |-> "pending", commits |-> 0]
  IN  /\ nextCommand < MaxCommands
      /\ nextCommand' = c
      /\ Refuse(c, new) \/ Accept(c, new)
      /\ UNCHANGED <<closed, drain>>

(* The batch is over: every promise of it is decided with one outcome.      *)
EndBatch(cs, outcome) ==
  /\ cmd' = Decide(cs, ToSet(batch), outcome)
  /\ batch' = <<>> /\ position' = 1 /\ runner' = "returned"

(* Mutant of FailBatch: only the operation that threw is rejected. *)
FailOperation ==
  /\ cmd' = Decide(cmd, {batch[position]}, "failed")
  /\ batch' = <<>> /\ position' = 1 /\ runner' = "returned"

FailBatch == EndBatch(cmd, "failed")

(* The running operation commits; after the last one the batch resolves.    *)
OpCommits ==
  LET cs == [cmd EXCEPT ![batch[position]].commits = @ + 1]
  IN  /\ runner = "executing"
      /\ IF position < Len(batch)
           THEN /\ position' = position + 1 /\ cmd' = cs
                /\ UNCHANGED <<batch, runner>>
           ELSE EndBatch(cs, "resolved")
      /\ UNCHANGED <<nextCommand, entries, pendingBytes, retries, closed, drain>>

(* It finds the database locked: the whole batch is retried, or given up.   *)
OpBusy ==
  /\ runner = "executing"
  /\ IF retries < MaxRetries
       THEN /\ runner' = "sleeping" /\ retries' = retries + 1
            /\ UNCHANGED <<cmd, batch, position>>
       ELSE FailBatch /\ UNCHANGED retries
  /\ UNCHANGED <<nextCommand, entries, pendingBytes, closed, drain>>

(* It throws anything else: not retried.                                    *)
OpThrows ==
  /\ runner = "executing"
  /\ FailBatch
  /\ UNCHANGED <<nextCommand, entries, pendingBytes, retries, closed, drain>>

(* Mutant of RetryFrom: one too few. *)
RetryBeforeFirst == 0

RetryFrom == 1

Retry ==
  /\ runner = "sleeping"
  /\ runner' = "executing" /\ position' = RetryFrom
  /\ UNCHANGED <<nextCommand, cmd, entries, pendingBytes, batch, retries,
                 closed, drain>>

(* Mutant of Restarts: pump is not called again once the queue is closed. *)
RestartsWhileOpen == entries # <<>> /\ ~closed

Restarts == entries # <<>>

(* The finally callback of pump.                                            *)
Finally(late) ==
  /\ runner = "returned"
  /\ IF Restarts
       THEN RunNext(entries, cmd, pendingBytes, late) /\ UNCHANGED drain
       ELSE /\ runner' = "idle"
            /\ drain' = IF drain = "waiting" THEN "returned" ELSE drain
            /\ UNCHANGED <<cmd, entries, pendingBytes, batch, position, retries>>
  /\ UNCHANGED <<nextCommand, closed>>

Drained == entries = <<>> /\ runner = "idle"

CloseDrain ==
  /\ closed' = TRUE
  /\ drain' = IF Drained THEN "returned" ELSE "waiting"
  /\ UNCHANGED <<nextCommand, cmd, entries, pendingBytes, batch, position,
                 retries, runner>>

CloseNow ==
  /\ closed' = TRUE
  /\ entries' = <<>>
  /\ pendingBytes' = pendingBytes - BytesOf(entries, cmd)
  /\ cmd' = Decide(cmd, ToSet(entries), "closed")
  /\ UNCHANGED <<nextCommand, batch, position, retries, runner, drain>>

OpEnds == OpCommits \/ OpBusy \/ OpThrows

QueueNext ==
  \/ \E call \in Calls : Enqueue(call[1], call[2], call[3])
  \/ OpEnds \/ Retry \/ (\E late \in BOOLEAN : Finally(late))
  \/ CloseDrain \/ CloseNow

(* Operations are synchronous statements: they end; so do retry delays.     *)
QueueFairness ==
  /\ WF_queueVars(OpEnds)
  /\ WF_queueVars(Retry)
  /\ WF_queueVars(\E late \in BOOLEAN : Finally(late))

QueueSpec == QueueInit /\ [][QueueNext]_queueVars
FairQueueSpec == QueueSpec /\ QueueFairness
-----------------------------------------------------------------------------
(* The properties.                                                          *)

(* Every pending command is waiting or in the running batch, once, and they *)
(* are all pending: no promise is forgotten, none is decided twice.         *)
PendingIsHeld ==
  /\ ToSet(entries) \cup ToSet(batch) = Pending
  /\ IsInjective(entries \o batch)

(* The byte budget is that of the waiting commands, and both limits hold    *)
(* through coalescing, batching and closing.                                *)
BudgetIsExact ==
  /\ pendingBytes = BytesOf(entries, cmd)
  /\ pendingBytes <= MaxPendingBytes /\ Len(entries) <= MaxPendingCommands

(* No lost wakeup: commands wait only behind a running batch.               *)
NoLostWakeup == entries # <<>> => runner # "idle"

(* Commands run in the order of the calls: what waits was issued after what *)
(* runs, a replacement included.                                            *)
CallOrder ==
  \A i, j \in DOMAIN (batch \o entries) :
    i < j => (batch \o entries)[i] < (batch \o entries)[j]

(* Only a command of an append batch commits again on a retry, or commits   *)
(* although its caller is told that it failed.                              *)
OnlyBatchesRepeat ==
  \A c \in Issued :
    \/ cmd[c].commits > 1
    \/ cmd[c].commits = 1 /\ cmd[c].outcome \notin {"pending", "resolved"}
    => cmd[c].policy = "append_batch" /\ cmd[c].key # NoKey

(* Every accepted command is decided and every draining close returns.      *)
EveryCommandIsDecided ==
  /\ \A c \in Commands : (c \in Pending) ~> (c \notin Pending)
  /\ (drain = "waiting") ~> (drain = "returned")

=============================================================================
