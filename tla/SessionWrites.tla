---------------------------- MODULE SessionWrites ----------------------------
(***************************************************************************)
(* How session rows reach the database: the upsert of the session state    *)
(* and session status repositories, their LatestWriteGuard, and the shared *)
(* SqliteWriteQueue.                                                       *)
(*                                                                         *)
(* create-server.ts wires the repositories in one of two ways.  "queue" (a *)
(* test runtime): upsert enqueues a latest_wins command under the key of   *)
(* the row.  "writer" (production): upsert goes through LocalSqliteWriter, *)
(* which enqueues without a key and, when it is called from within a       *)
(* queued operation, writes directly.  Queued operations are either such   *)
(* writes or the transactions of other services, which upsert a row on     *)
(* their way.                                                              *)
(*                                                                         *)
(* All these operations are synchronous: while one executes nothing else   *)
(* happens, so what other code sees of the queue is a runner that is idle, *)
(* sleeps before a retry or has returned.                                  *)
(***************************************************************************)
EXTENDS SqliteWriteQueue

CONSTANTS Values, NoValue   \* contents of a row, as the fingerprint sees them

ASSUME ValuesAssumption == NoValue \notin Values
ASSUME RowsAssumption == Keys # {} /\ Values # {} /\ 1 \in Sizes

VARIABLES
  wiring,   \* "queue" or "writer"
  row,      \* the database: key -> contents
  guard,    \* LatestWriteGuard.entries: key -> fingerprint and pending
  payload,  \* what the operation of each command does
  answers,  \* outcomes of writes whose callback has not run yet, in order
  passed,   \* the executing transaction has upserted its row
  undo      \* the database when that transaction began

writesVars == <<queueVars, wiring, row, guard, payload, answers, passed, undo>>

NoEntry == [value |-> NoValue, pending |-> FALSE]
Payload == [transaction: BOOLEAN, key: Keys, value: Values]
Answer == [key: Keys, value: Values, ok: BOOLEAN]

WritesTypeOK ==
  /\ QueueTypeOK
  /\ wiring \in {"queue", "writer"}
  /\ row \in [Keys -> Values \cup {NoValue}]
  /\ guard \in [Keys -> [value: Values \cup {NoValue}, pending: BOOLEAN]]
  /\ payload \in [Commands -> Payload]
  /\ answers \in Seq(Answer)
  /\ passed \in BOOLEAN
  /\ undo \in [Keys -> Values \cup {NoValue}]

-----------------------------------------------------------------------------
Idle == runner # "executing"
Running == payload[batch[1]]

(* begin: a write is let through unless its fingerprint is that of the      *)
(* entry of its key, which it then replaces.                                *)
Begins(k, v) == guard[k].value # v
Begin(k, v) == guard' = [guard EXCEPT ![k] = [value |-> v, pending |-> TRUE]]

(* Mutant of Matches: the fingerprint is not compared. *)
MatchesAnything(a) == guard[a.key].value # NoValue

(* complete and fail leave the entry of another fingerprint alone.          *)
Matches(a) == guard[a.key].value = a.value

(* Mutants of AfterAnswer: fail forgets the entry; complete keeps no flag.  *)
AfterSuccessOnly(a) ==
  IF a.ok THEN [value |-> a.value, pending |-> FALSE] ELSE guard[a.key]
AfterAnswerFlagless(a) == IF a.ok THEN [value |-> a.value] ELSE NoEntry

(* The entry of a key after complete and after fail.                        *)
AfterAnswer(a) ==
  IF a.ok THEN [value |-> a.value, pending |-> FALSE] ELSE NoEntry

(* The promise of the write of command c is decided between two states.     *)
Decides(before, after, pl, c) ==
  /\ ~pl[c].transaction
  /\ before[c].outcome \in {"unissued", "pending"}
  /\ after[c].outcome \notin {"unissued", "pending"}

AnswerOf(after, pl, c) ==
  [key |-> pl[c].key, value |-> pl[c].value, ok |-> after[c].outcome = "resolved"]

(* Their callbacks are scheduled first issued first.                        *)
Answered(as, before, after, pl) ==
  FoldLeft(LAMBDA s, c : IF Decides(before, after, pl, c)
                           THEN Append(s, AnswerOf(after, pl, c)) ELSE s,
           as, [c \in Commands |-> c])

AnswerDecided == answers' = Answered(answers, cmd, cmd', payload')

(* A write of repository.upsert on its way to the queue.                    *)
Submit(k, v) ==
  /\ Enqueue("latest_wins", IF wiring = "queue" THEN k ELSE NoKey, 1)
  /\ payload' = [payload EXCEPT ![nextCommand + 1] =
                   [transaction |-> FALSE, key |-> k, value |-> v]]
  /\ AnswerDecided

-----------------------------------------------------------------------------
WritesInit ==
  /\ QueueInit
  /\ wiring \in {"queue", "writer"}
  /\ row = [k \in Keys |-> NoValue]
  /\ guard = [k \in Keys |-> NoEntry]
  /\ payload \in [Commands ->
       {[transaction |-> FALSE, key |-> CHOOSE k \in Keys : TRUE,
         value |-> CHOOSE v \in Values : TRUE]}]
  /\ answers = <<>> /\ passed = FALSE
  /\ undo = row

(* upsert outside of any queued operation.  One the guard refuses returns   *)
(* at once and changes nothing.                                             *)
Upsert(k, v) ==
  /\ Idle /\ Begins(k, v)
  /\ Begin(k, v)
  /\ Submit(k, v)
  /\ UNCHANGED <<wiring, row, passed, undo>>

(* A service enqueues a transaction that upserts row k on its way.          *)
EnqueueTransaction(k, v) ==
  /\ Idle
  /\ Enqueue("critical", NoKey, 1)
  /\ payload' = [payload EXCEPT ![nextCommand + 1] =
                   [transaction |-> TRUE, key |-> k, value |-> v]]
  /\ AnswerDecided
  /\ UNCHANGED <<wiring, row, guard, passed, undo>>

(* LocalSqliteWriter within a queued operation: the statement runs at once; *)
(* when it throws, or the writer is retiring, only its promise rejects.     *)
WriteDirectly(k, v) ==
  \E ok \in BOOLEAN :
    /\ closed => ~ok
    /\ row' = IF ok THEN [row EXCEPT ![k] = v] ELSE row
    /\ answers' = Append(answers, [key |-> k, value |-> v, ok |-> ok])

(* The executing transaction reaches its upsert.                            *)
TransactionUpserts ==
  LET k == Running.key
      v == Running.value
  IN  /\ runner = "executing" /\ Running.transaction /\ ~passed
      /\ passed' = TRUE /\ undo' = row
      /\ \/ /\ ~Begins(k, v)
            /\ UNCHANGED <<queueVars, row, guard, payload, answers>>
         \/ /\ Begins(k, v) /\ wiring = "writer"
            /\ Begin(k, v) /\ WriteDirectly(k, v)
            /\ UNCHANGED <<queueVars, payload>>
         \/ /\ Begins(k, v) /\ wiring = "queue"
            /\ Begin(k, v) /\ Submit(k, v)
            /\ UNCHANGED row
      /\ UNCHANGED wiring

(* The executing operation ends; a transaction that fails is rolled back.   *)
OperationCommits ==
  /\ OpCommits
  /\ Running.transaction => passed
  /\ row' = IF Running.transaction THEN row
            ELSE [row EXCEPT ![Running.key] = Running.value]

OperationFails ==
  /\ OpBusy \/ OpThrows
  /\ row' = IF passed THEN undo ELSE row

OperationEnds ==
  /\ OperationCommits \/ OperationFails
  /\ passed' = FALSE /\ undo' = row'
  /\ UNCHANGED <<wiring, guard, payload>>
  /\ AnswerDecided

(* The queue goes on; closing it is LocalSqliteWriter.dispose.              *)
QueueMoves ==
  /\ Idle
  /\ Retry \/ (\E late \in BOOLEAN : Finally(late)) \/ CloseDrain
  /\ UNCHANGED <<wiring, row, guard, payload, undo, passed>>
  /\ AnswerDecided

(* The callback of upsert: complete or fail of the guard.                   *)
AnswerArrives ==
  LET a == Head(answers)
  IN  /\ Idle /\ answers # <<>>
      /\ answers' = Tail(answers)
      /\ guard' = IF ~Matches(a) THEN guard
                  ELSE [guard EXCEPT ![a.key] = AfterAnswer(a)]
      /\ UNCHANGED <<queueVars, wiring, row, payload, undo, passed>>

(* prune: an entry completed ttlMs ago is dropped.                          *)
EntryExpires(k) ==
  /\ Idle /\ guard[k] # NoEntry /\ ~guard[k].pending
  /\ guard' = [guard EXCEPT ![k] = NoEntry]
  /\ UNCHANGED <<queueVars, wiring, row, payload, answers, undo, passed>>

WritesNext ==
  \/ \E k \in Keys, v \in Values : Upsert(k, v) \/ EnqueueTransaction(k, v)
  \/ TransactionUpserts \/ OperationEnds \/ QueueMoves \/ AnswerArrives
  \/ \E k \in Keys : EntryExpires(k)

WritesSpec == WritesInit /\ [][WritesNext]_writesVars
-----------------------------------------------------------------------------
(* The properties.                                                          *)

Waiting(k) == {c \in Pending : ~payload[c].transaction /\ payload[c].key = k}

(* What the row will hold when the writes under way have succeeded.         *)
Projected(k) ==
  IF Waiting(k) = {} THEN row[k] ELSE payload[Max(Waiting(k))].value

Failing(k, v) == \E i \in DOMAIN answers :
  answers[i] = [key |-> k, value |-> v, ok |-> FALSE]

(* A pending entry of the guard has a write under way whose callback will   *)
(* end it: no fingerprint is refused for ever.                              *)
PendingEntryHasWrite ==
  \A k \in Keys : guard[k].pending =>
    \/ \E c \in Waiting(k) : payload[c].value = guard[k].value
    \/ \E i \in DOMAIN answers : /\ answers[i].key = k
                                /\ answers[i].value = guard[k].value

(* What the comment of the guard says: it holds back repeated submissions   *)
(* only.  A write it would refuse is one the row holds already, or will     *)
(* hold, unless a write under way fails.                                    *)
RefusesRepeatsOnly ==
  \A k \in Keys : LET v == guard[k].value
                  IN  v # NoValue => Projected(k) = v \/ Failing(k, v)

(* That holds where every write takes its turn in the queue, that is, until *)
(* a transaction of a service writes directly.                              *)
QueuedWritesRefuseRepeatsOnly ==
  wiring = "queue" \/ (\A c \in Issued : ~payload[c].transaction)
    => RefusesRepeatsOnly
=============================================================================
