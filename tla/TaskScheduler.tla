---------------------------- MODULE TaskScheduler ----------------------------
(***************************************************************************)
(* The background task scheduler of the CodingNS host                      *)
(* (apps/host/src/modules/tasks/task-scheduler.ts).                        *)
(*                                                                         *)
(* The scheduler is one object of a single-threaded event loop: a step of  *)
(* this module is the code between two suspension points (an await, a      *)
(* timer callback, a call from outside).  What runs concurrently are the   *)
(* task bodies, the timers and the continuations of executeRecord.         *)
(*                                                                         *)
(* A TaskRecord is a member of 1..MaxTasks; createRecord hands them out in *)
(* increasing order.  startOrQueue only ever pushes the record it has just *)
(* created, so the array queuedTasks[type] is the set queue[type] read in  *)
(* increasing order, and shift() takes its least element.                  *)
(***************************************************************************)
EXTENDS Integers, FiniteSets

CONSTANTS
  Types,            \* registered task types
  Keys,             \* resource keys callers use
  MaxTasks,         \* bound on the records ever created
  Concurrency,      \* [Types -> Nat]; 0: the definition sets no limit
  MaxAttempts,      \* [Types -> Nat]; retryPolicy.maxAttempts, 0: no policy
  HasBackoff,       \* [Types -> BOOLEAN]; retryPolicy.backoffMs is positive
  HasTimeout,       \* [Types -> BOOLEAN]; timeoutMs is positive
  HasQueueTimeout,  \* [Types -> BOOLEAN]; queueWaitTimeoutMs is positive
  HelperLane        \* [Types -> BOOLEAN]; bodies run in the helper process

ASSUME TypesAssumption == Types # {} /\ Keys # {}
ASSUME BoundAssumption == MaxTasks \in Nat
ASSUME DefinitionsAssumption ==
  /\ Concurrency \in [Types -> Nat]
  /\ MaxAttempts \in [Types -> Nat]
  /\ HasBackoff \in [Types -> BOOLEAN]
  /\ HasTimeout \in [Types -> BOOLEAN]
  /\ HasQueueTimeout \in [Types -> BOOLEAN]
  /\ HelperLane \in [Types -> BOOLEAN]

VARIABLES
  nextId,      \* records created so far
  rec,         \* the TaskRecord of every id, with the place executeRecord is at
  active,      \* activeTasks: dedupe key -> id, 0 when absent
  latest,      \* latestSnapshots: dedupe key -> published snapshot
  queue,       \* queuedTasks: type -> waiting ids
  running,     \* runningCountByType
  sweepTimer,  \* queueWaitSweepTimer is armed
  unhandled    \* a promise of executeRecord rejected: the host exits

vars == <<nextId, rec, active, latest, queue, running, sweepTimer, unhandled>>

TaskIds == 1..MaxTasks
DedupeKeys == Types \X Keys
Verdicts == {"succeeded", "failed", "cancelled", "timeout", "queue_timeout"}
Statuses == {"queued", "running"} \cup Verdicts
Outcomes == {"pending", "resolved", "rejected"}

(* Where executeRecord is.  "resolved", "rejected", "timedOut" and          *)
(* "queueTimedOut": the promise of runTask has settled and the continuation *)
(* has not run yet.  "backoffOver": so has that of waitForRetryDelay.       *)
Places == {"unborn", "waiting", "running", "resolved", "rejected", "timedOut",
           "queueTimedOut", "backoff", "backoffOver", "backoffAborted", "done"}

TaskRecord ==
  [key: DedupeKeys, pc: Places, status: Statuses, attempt: Nat,
   outcome: Outcomes, aborted: BOOLEAN, body: BOOLEAN,
   reported: SUBSET Verdicts]

Snapshots == [task: 0..MaxTasks, status: Statuses]
NoSnapshot == [task |-> 0, status |-> "queued"]

TypeOK ==
  /\ nextId \in 0..MaxTasks
  /\ rec \in [TaskIds -> TaskRecord]
  /\ active \in [DedupeKeys -> 0..MaxTasks]
  /\ latest \in [DedupeKeys -> Snapshots]
  /\ queue \in [Types -> SUBSET TaskIds]
  /\ running \in [Types -> Nat]
  /\ sweepTimer \in BOOLEAN
  /\ unhandled \in BOOLEAN

-----------------------------------------------------------------------------
TypeOf(t) == rec[t].key[1]
Settled(t) == rec[t].outcome # "pending"
Executing(t) == rec[t].pc \notin {"unborn", "waiting", "done"}
Snapshot(t, r) == [task |-> t, status |-> r.status]

(* Mutants of HasSlot: one slot too many, one too few. *)
HasSlotOffByOne(ty, n) == Concurrency[ty] = 0 \/ n <= Concurrency[ty]
HasSlotTooStrict(ty, n) == Concurrency[ty] = 0 \/ n + 1 < Concurrency[ty]

(* normalizeConcurrency: no positive limit means no limit.                  *)
HasSlot(ty, n) == Concurrency[ty] = 0 \/ n < Concurrency[ty]

(* Attempts allowed: Math.max(1, retryPolicy?.maxAttempts ?? 1).            *)
AttemptLimit(ty) == IF MaxAttempts[ty] = 0 THEN 1 ELSE MaxAttempts[ty]

(* rescheduleQueueWaitSweep clears the timer and arms it exactly when a     *)
(* queued record has a queue-wait limit.                                    *)
NeedsSweep(q) == \E ty \in Types : HasQueueTimeout[ty] /\ q[ty] # {}

(* Mutant of RescheduleQueueWaitSweep: the timer is cleared, never set again. *)
ClearQueueWaitSweep == sweepTimer' = FALSE

RescheduleQueueWaitSweep == sweepTimer' = NeedsSweep(queue')

(* Mutant of Without: the whole bucket is deleted with the record. *)
WithoutBucket(q, S) ==
  [ty \in Types |-> IF q[ty] \cap S = {} THEN q[ty] ELSE {}]

(* removeQueuedRecord for each of S, and cleanupQueueBucketIfEmpty.         *)
Without(q, S) == [ty \in Types |-> q[ty] \ S]

(* Mutant of NewRecord: a status TaskStatus does not have. *)
NewRecordUntyped(k) ==
  [key |-> k, pc |-> "waiting", status |-> "created", attempt |-> 0,
   outcome |-> "pending", aborted |-> FALSE, body |-> FALSE, reported |-> {}]

(* createRecord, with the taskId startOrQueue adds. *)
NewRecord(k) ==
  [key |-> k, pc |-> "waiting", status |-> "queued", attempt |-> 0,
   outcome |-> "pending", aborted |-> FALSE, body |-> FALSE, reported |-> {}]

(* executeRecord up to its first await: the body is started synchronously.  *)
Begin(r) == [r EXCEPT !.pc = "running", !.status = "running",
                      !.attempt = 1, !.body = TRUE]

(* Mutant of Finish: settle without its settled check. *)
FinishUnguarded(r, verdict) ==
  [r EXCEPT !.status = verdict, !.reported = @ \cup {verdict},
            !.outcome = IF verdict = "succeeded" THEN "resolved"
                        ELSE "rejected"]

(* A finishX function: the snapshot takes the status and an event is        *)
(* recorded unconditionally; settle decides the promise only once.          *)
Finish(r, verdict) ==
  [r EXCEPT !.status = verdict, !.reported = @ \cup {verdict},
            !.outcome = IF @ # "pending" THEN @
                        ELSE IF verdict = "succeeded" THEN "resolved"
                        ELSE "rejected"]

(* Mutant of Settle: activeTasks.delete is forgotten. *)
SettleKeepingActive(S, new) ==
  /\ active' = active
  /\ latest' = [k \in DedupeKeys |->
                  IF \E t \in S : rec[t].key = k /\ ~Settled(t)
                    THEN LET t == CHOOSE t \in S : rec[t].key = k
                         IN  Snapshot(t, new[t])
                    ELSE latest[k]]

(* Mutant of Settle: the settled check is forgotten. *)
SettleUnguarded(S, new) ==
  LET Of(k) == {t \in S : rec[t].key = k}
  IN  /\ active' = [k \in DedupeKeys |-> IF Of(k) # {} THEN 0 ELSE active[k]]
      /\ latest' = [k \in DedupeKeys |->
                      IF Of(k) # {}
                        THEN LET t == CHOOSE t \in Of(k) : TRUE
                             IN  Snapshot(t, new[t])
                        ELSE latest[k]]

(* settle, for the records S that step from r[t] = rec[t] to new[t]: those  *)
(* not settled before leave activeTasks and publish their snapshot.         *)
Settle(S, new) ==
  LET now == {t \in S : ~Settled(t)}
      Of(k) == {t \in now : rec[t].key = k}
  IN  /\ active' = [k \in DedupeKeys |-> IF Of(k) # {} THEN 0 ELSE active[k]]
      /\ latest' = [k \in DedupeKeys |->
                      IF Of(k) # {}
                        THEN LET t == CHOOSE t \in Of(k) : TRUE
                             IN  Snapshot(t, new[t])
                        ELSE latest[k]]

(* Mutant of Ahead: pop() in place of shift(). *)
AheadLastIn(ty, u) == {v \in queue[ty] : v > u /\ ~Settled(v)}

(* Queued records that shift() yields before u and that will take a slot.   *)
Ahead(ty, u) == {v \in queue[ty] : v < u /\ ~Settled(v)}

(* The finally block of executeRecord: the slot is returned and startNext   *)
(* shifts queued records while slots are free, skipping settled ones.       *)
Exit(t, r, armed) ==
  LET ty == TypeOf(t)
      n == IF running[ty] = 0 THEN 0 ELSE running[ty] - 1
      shifted == {u \in queue[ty] : HasSlot(ty, n + Cardinality(Ahead(ty, u)))}
      begun == {u \in shifted : ~Settled(u)}
  IN  /\ rec' = [u \in TaskIds |-> IF u = t THEN [r EXCEPT !.pc = "done"]
                                   ELSE IF u \in begun THEN Begin(rec[u])
                                   ELSE rec[u]]
      /\ running' = [running EXCEPT ![ty] = n + Cardinality(begun)]
      /\ queue' = [queue EXCEPT ![ty] = @ \ shifted]
      /\ IF queue[ty] = {} THEN sweepTimer' = armed
                          ELSE RescheduleQueueWaitSweep

-----------------------------------------------------------------------------
(* Ids not created yet carry an arbitrary key.                              *)
Unborn == [NewRecord(CHOOSE k \in DedupeKeys : TRUE) EXCEPT !.pc = "unborn"]

Init ==
  /\ nextId = 0
  /\ rec = [t \in TaskIds |-> Unborn]
  /\ active = [k \in DedupeKeys |-> 0]
  /\ latest = [k \in DedupeKeys |-> NoSnapshot]
  /\ queue = [ty \in Types |-> {}]
  /\ running = [ty \in Types |-> 0]
  /\ sweepTimer = FALSE
  /\ unhandled = FALSE

(* enqueue of a key with no active record; for one that has, the call only  *)
(* counts and returns the handle of that record.                            *)
Enqueue(k) ==
  LET t == nextId + 1
      ty == k[1]
  IN  /\ active[k] = 0
      /\ nextId < MaxTasks
      /\ nextId' = t
      /\ active' = [active EXCEPT ![k] = t]
      /\ IF HasSlot(ty, running[ty])
           THEN /\ rec' = [rec EXCEPT ![t] = Begin(NewRecord(k))]
                /\ running' = [running EXCEPT ![ty] = @ + 1]
                /\ UNCHANGED <<latest, queue, sweepTimer>>
           ELSE /\ rec' = [rec EXCEPT ![t] = NewRecord(k)]
                /\ queue' = [queue EXCEPT ![ty] = @ \cup {t}]
                /\ latest' = [latest EXCEPT ![k] = Snapshot(t, NewRecord(k))]
                /\ RescheduleQueueWaitSweep
                /\ UNCHANGED running
      /\ UNCHANGED unhandled

(* cancelRecord on one record.  An abort rejects a retry delay; a body that *)
(* is running is told, and keeps its slot until it ends.                    *)
Cancelled(r) ==
  [Finish(r, "cancelled") EXCEPT
     !.aborted = TRUE,
     !.pc = CASE r.pc = "waiting" -> "done"
              [] r.pc = "backoff" -> "backoffAborted"
              [] OTHER -> r.pc]

(* cancelMatching with a filter on types and keys; cancel(type, key) and a  *)
(* handle's cancel are the case of one type and one key.                    *)
CancelMatching(types, keys) ==
  LET hit == {k \in types \X keys : active[k] # 0}
      S == {active[k] : k \in hit}
      new == [t \in TaskIds |-> IF t \in S THEN Cancelled(rec[t]) ELSE rec[t]]
  IN  /\ hit # {}
      /\ rec' = new
      /\ Settle(S, new)
      /\ queue' = Without(queue, S)
      /\ RescheduleQueueWaitSweep
      /\ UNCHANGED <<nextId, running, unhandled>>

(* The sweep timer fires: records whose queue wait is over are rejected.    *)
(* Records of a type share one limit, so the older ones are over it first.  *)
SweepQueuedTimeouts(due) ==
  LET waiting == UNION {queue[ty] : ty \in {x \in Types : HasQueueTimeout[x]}}
      new == [t \in TaskIds |->
                IF t \in due
                  THEN [Finish(rec[t], "queue_timeout") EXCEPT !.pc = "done"]
                  ELSE rec[t]]
  IN  /\ sweepTimer
      /\ due # {} /\ due \subseteq waiting
      /\ \A t \in due, u \in waiting : TypeOf(u) = TypeOf(t) /\ u < t => u \in due
      /\ rec' = new
      /\ Settle(due, new)
      /\ queue' = Without(queue, due)
      /\ RescheduleQueueWaitSweep
      /\ UNCHANGED <<nextId, running, unhandled>>

-----------------------------------------------------------------------------
BodyOver(r, place) ==
  [r EXCEPT !.body = FALSE, !.pc = IF @ = "running" THEN place ELSE @]

(* What the body of a task does.  It may outlive the wait of runTask.       *)
BodyEnds(t, place) ==
  /\ rec[t].body
  /\ rec' = [rec EXCEPT ![t] = BodyOver(rec[t], place)]
  /\ UNCHANGED <<nextId, active, latest, queue, running, sweepTimer, unhandled>>

BodySucceeds(t) == BodyEnds(t, "resolved")
BodyFails(t) == BodyEnds(t, "rejected")

(* The helper pool rejects a request that waited too long in its own queue. *)
BodyQueueTimesOut(t) == HelperLane[TypeOf(t)] /\ BodyEnds(t, "queueTimedOut")

(* Mutant of TimeoutFires: the signal is aborted, the wait not rejected. *)
TimeoutOnlyAborts(t) ==
  /\ rec[t].pc = "running"
  /\ HasTimeout[TypeOf(t)]
  /\ rec' = [rec EXCEPT ![t].aborted = TRUE]
  /\ UNCHANGED <<nextId, active, latest, queue, running, sweepTimer, unhandled>>

TimedOut(r) == [r EXCEPT !.pc = "timedOut", !.aborted = TRUE]

(* The timer of runTask: it rejects the wait and aborts the signal; the     *)
(* body goes on until it notices.                                           *)
TimeoutFires(t) ==
  /\ rec[t].pc = "running"
  /\ HasTimeout[TypeOf(t)]
  /\ rec' = [rec EXCEPT ![t] = TimedOut(rec[t])]
  /\ UNCHANGED <<nextId, active, latest, queue, running, sweepTimer, unhandled>>

(* updateProgress: publishes the record's snapshot under the record's key.  *)
ReportProgress(t) ==
  /\ rec[t].body
  /\ latest' = [latest EXCEPT ![rec[t].key] = Snapshot(t, rec[t])]
  /\ UNCHANGED <<nextId, rec, active, queue, running, sweepTimer, unhandled>>

(* recordCacheHit: peek prefers the active record's snapshot and it becomes *)
(* the published one.                                                       *)
RecordCacheHit(k) ==
  /\ active[k] # 0
  /\ latest' = [latest EXCEPT ![k] = Snapshot(active[k], rec[active[k]])]
  /\ UNCHANGED <<nextId, rec, active, queue, running, sweepTimer, unhandled>>

-----------------------------------------------------------------------------
(* executeRecord after runTask resolved: finishSuccess, whatever happened   *)
(* to the record meanwhile, then the finally block.                         *)
ResumeResolved(t) ==
  LET r == Finish(rec[t], "succeeded")
  IN  /\ rec[t].pc = "resolved"
      /\ Settle({t}, [rec EXCEPT ![t] = r])
      /\ Exit(t, r, sweepTimer)
      /\ UNCHANGED <<nextId, unhandled>>

(* The verdict of the catch block on an attempt that ends the record.       *)
VerdictOf(r) == CASE r.pc = "timedOut" -> "timeout"
                  [] r.pc = "queueTimedOut" -> "queue_timeout"
                  [] r.pc = "rejected" /\ r.aborted -> "cancelled"
                  [] OTHER -> "failed"

Retries(t) == /\ rec[t].pc = "rejected"
              /\ ~rec[t].aborted
              /\ rec[t].attempt < AttemptLimit(TypeOf(t))

(* executeRecord's catch block: a record settled meanwhile only leaves.     *)
ResumeRejected(t) ==
  LET r == IF Settled(t) THEN rec[t] ELSE Finish(rec[t], VerdictOf(rec[t]))
      swept == ~Settled(t) /\ rec[t].pc = "queueTimedOut"
  IN  /\ rec[t].pc \in {"rejected", "timedOut", "queueTimedOut"}
      /\ Settled(t) \/ ~Retries(t)
      /\ Settle({t}, [rec EXCEPT ![t] = r])
      /\ Exit(t, r, IF swept THEN NeedsSweep(queue) ELSE sweepTimer)
      /\ UNCHANGED <<nextId, unhandled>>

(* The catch block with attempts left: waitForRetryDelay.                   *)
RetryLater(t) ==
  /\ ~Settled(t)
  /\ Retries(t)
  /\ rec' = [rec EXCEPT ![t].pc = IF HasBackoff[TypeOf(t)] THEN "backoff"
                                  ELSE "backoffOver"]
  /\ UNCHANGED <<nextId, active, latest, queue, running, sweepTimer, unhandled>>

(* The timer of waitForRetryDelay.                                          *)
BackoffElapses(t) ==
  /\ rec[t].pc = "backoff"
  /\ rec' = [rec EXCEPT ![t].pc = "backoffOver"]
  /\ UNCHANGED <<nextId, active, latest, queue, running, sweepTimer, unhandled>>

(* The next turn of the attempt loop, for a record settled meanwhile and    *)
(* for one that is not.                                                     *)
LeaveLoop(t) ==
  /\ rec[t].pc = "backoffOver" /\ Settled(t)
  /\ Exit(t, rec[t], sweepTimer)
  /\ UNCHANGED <<nextId, active, latest, unhandled>>

TryAgain(r) == [r EXCEPT !.pc = "running", !.body = TRUE, !.attempt = @ + 1]

NextAttempt(t) ==
  /\ rec[t].pc = "backoffOver" /\ ~Settled(t)
  /\ rec' = [rec EXCEPT ![t] = TryAgain(rec[t])]
  /\ UNCHANGED <<nextId, active, latest, queue, running, sweepTimer, unhandled>>

(* An aborted retry delay rejects inside the catch block: the finally block *)
(* runs and the promise of executeRecord, which nobody awaits, rejects.     *)
ResumeAbortedBackoff(t) ==
  /\ rec[t].pc = "backoffAborted"
  /\ Exit(t, rec[t], sweepTimer)
  /\ unhandled' = TRUE
  /\ UNCHANGED <<nextId, active, latest>>

-----------------------------------------------------------------------------
Resume(t) == \/ ResumeResolved(t) \/ ResumeRejected(t) \/ RetryLater(t)
             \/ LeaveLoop(t) \/ NextAttempt(t) \/ ResumeAbortedBackoff(t)

Body(t) == BodySucceeds(t) \/ BodyFails(t) \/ BodyQueueTimesOut(t)

Sweep == \E due \in SUBSET TaskIds : SweepQueuedTimeouts(due)

(* An unhandled rejection ends the process: no step follows it.             *)
Next ==
  /\ ~unhandled
  /\ \/ \E k \in DedupeKeys : Enqueue(k) \/ RecordCacheHit(k)
     \/ \E types \in SUBSET Types, keys \in SUBSET Keys :
          CancelMatching(types, keys)
     \/ Sweep
     \/ \E t \in TaskIds :
          Body(t) \/ ReportProgress(t) \/ TimeoutFires(t)
            \/ BackoffElapses(t) \/ Resume(t)

(* Timers fire and continuations run; nothing makes a body end.             *)
Fairness ==
  /\ WF_vars(~unhandled /\ Sweep)
  /\ \A t \in TaskIds : /\ WF_vars(~unhandled /\ TimeoutFires(t))
                        /\ WF_vars(~unhandled /\ BackoffElapses(t))
                        /\ WF_vars(~unhandled /\ Resume(t))

Spec == Init /\ [][Next]_vars
FairSpec == Spec /\ Fairness
-----------------------------------------------------------------------------
(* The properties.                                                          *)

Born == 1..nextId
Occupants(ty) == {t \in TaskIds : Executing(t) /\ TypeOf(t) = ty}

(* activeTasks holds exactly the records whose promise is pending, each     *)
(* under its own key: a deduplicated caller of enqueue always shares a      *)
(* promise that is still to be decided, and no pending record is lost.      *)
ActiveIsPending ==
  /\ \A k \in DedupeKeys : active[k] # 0 =>
       active[k] \in Born /\ ~Settled(active[k]) /\ rec[active[k]].key = k
  /\ \A t \in Born : ~Settled(t) => active[rec[t].key] = t

(* A pending record that no continuation of executeRecord drives is in the  *)
(* queue of its type, and the queues hold nothing else: cancel, the sweep   *)
(* and startNext never leave a record that nobody will start or reject.     *)
NothingStranded ==
  /\ \A ty \in Types : \A t \in queue[ty] :
       t \in Born /\ ~Settled(t) /\ rec[t].pc = "waiting" /\ TypeOf(t) = ty
  /\ \A t \in Born : ~Settled(t) => Executing(t) \/ t \in queue[TypeOf(t)]

(* runningCountByType counts the records inside executeRecord and respects  *)
(* the limit of the type, whatever path each record left by.                *)
SlotAccounting ==
  \A ty \in Types : /\ running[ty] = Cardinality(Occupants(ty))
                    /\ Concurrency[ty] # 0 => running[ty] <= Concurrency[ty]

(* No lost wakeup: records wait only while every slot of the type is taken. *)
WorkConserving ==
  \A ty \in Types : queue[ty] # {} =>
    Concurrency[ty] # 0 /\ running[ty] >= Concurrency[ty]

(* A queued record with a queue-wait limit is always covered by the timer.  *)
SweepArmed == NeedsSweep(queue) => sweepTimer

(* Where a record is, against whether it exists and whether it is settled.  *)
PlacesFit ==
  \A t \in TaskIds :
    /\ rec[t].pc = "unborn" <=> t > nextId
    /\ rec[t].pc \in {"unborn", "waiting"} => ~Settled(t)
    /\ rec[t].pc \in {"done", "backoffAborted"} => Settled(t)

(* What peek publishes about an ended record agrees with what its promise   *)
(* told the callers, also when its body ends after a cancel or a timeout.   *)
SnapshotAgreesWithPromise ==
  \A k \in DedupeKeys :
    LET s == latest[k]
    IN  s.status \in Verdicts =>
          rec[s.task].outcome = IF s.status = "succeeded" THEN "resolved"
                                ELSE "rejected"

(* The process-ending rejection needs a retry delay cut short by a cancel.  *)
CrashNeedsCancelledBackoff ==
  unhandled => \E t \in Born : /\ HasBackoff[TypeOf(t)]
                               /\ rec[t].attempt < AttemptLimit(TypeOf(t))
                               /\ "cancelled" \in rec[t].reported

(* The inductive invariant: what the properties above need of one another.  *)
Inv == /\ ActiveIsPending /\ NothingStranded /\ SlotAccounting
       /\ WorkConserving /\ SweepArmed /\ PlacesFit

(* The scheduler keeps the contract of its handles: every step opens one    *)
(* promise under a key with no pending one, decides pending ones, or none.  *)
Contract == INSTANCE TaskContract WITH
  Tasks <- TaskIds,
  TaskKeys <- DedupeKeys,
  promise <- [t \in TaskIds |-> IF t \in Born THEN rec[t].outcome ELSE "absent"],
  keyOf <- [t \in TaskIds |-> rec[t].key]

KeepsContract == Contract!Spec

(* No overtaking: no record of a type starts while an older one stays queued.*)
NoOvertaking ==
  [][\A t, u \in TaskIds :
       (/\ ~Executing(t) /\ Executing(t)' /\ u < t
        /\ u \in queue[TypeOf(t)']) => u \notin queue'[TypeOf(t)']]_vars

(* A record of a type with a timeout is decided, whatever the bodies do:    *)
(* every slot of the type is returned, so the queue moves.                  *)
TimeoutTypesSettle ==
  \A t \in TaskIds :
    (t \in Born /\ HasTimeout[TypeOf(t)]) ~> (Settled(t) \/ unhandled)

(* A queued record with a queue-wait limit leaves the queue even when the   *)
(* slots of its type are held for ever.                                     *)
QueueWaitIsBounded ==
  \A t \in TaskIds :
    (rec[t].pc = "waiting" /\ HasQueueTimeout[TypeOf(t)])
      ~> (rec[t].pc # "waiting" \/ unhandled)

=============================================================================
