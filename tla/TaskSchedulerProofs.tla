------------------------- MODULE TaskSchedulerProofs -------------------------
(***************************************************************************)
(* Theorems about the task scheduler, for every set of types and keys,     *)
(* every definition of the types and every bound on the records: first the *)
(* records, their slots and the queue, then what the scheduler tells about *)
(* the end of a task. The snapshot it publishes agrees with the promise,   *)
(* the handles keep TaskContract, and records of a type start in the order *)
(* of their creation.                                                      *)
(***************************************************************************)
EXTENDS TaskScheduler, FiniteSetTheorems, WellFoundedInduction, TLAPS

USE BoundAssumption DEF BoundAssumption

-----------------------------------------------------------------------------
(* The record-level operators keep a record a record.                       *)
LEMMA NewRecordType ==
  ASSUME NEW k \in DedupeKeys
  PROVE  NewRecord(k) \in TaskRecord
BY DEF NewRecord, TaskRecord, Places, Statuses, Verdicts, Outcomes

LEMMA BeginType ==
  ASSUME NEW r \in TaskRecord
  PROVE  Begin(r) \in TaskRecord
BY DEF Begin, TaskRecord, Places, Statuses

LEMMA FinishType ==
  ASSUME NEW r \in TaskRecord, NEW v \in Verdicts
  PROVE  Finish(r, v) \in TaskRecord
BY DEF Finish, TaskRecord, Statuses, Outcomes

(* ... which keeps the key and whose promise is decided.                    *)
LEMMA FinishDecides ==
  ASSUME NEW r \in TaskRecord, NEW v \in Verdicts
  PROVE  Finish(r, v).key = r.key /\ Finish(r, v).outcome # "pending"
BY DEF Finish, TaskRecord, Outcomes

LEMMA CancelledType ==
  ASSUME NEW r \in TaskRecord
  PROVE  Cancelled(r) \in TaskRecord
<1>1. Finish(r, "cancelled") \in TaskRecord
  BY FinishType DEF Verdicts
<1> QED  BY <1>1 DEF Cancelled, TaskRecord, Places

LEMMA BodyOverType ==
  ASSUME NEW r \in TaskRecord, NEW place \in Places
  PROVE  BodyOver(r, place) \in TaskRecord
BY DEF BodyOver, TaskRecord

LEMMA TimedOutType ==
  ASSUME NEW r \in TaskRecord
  PROVE  TimedOut(r) \in TaskRecord
BY DEF TimedOut, TaskRecord, Places

LEMMA TryAgainType ==
  ASSUME NEW r \in TaskRecord
  PROVE  TryAgain(r) \in TaskRecord
<1> DEFINE a == r.attempt + 1
<1>1. a \in Nat
  BY DEF TaskRecord
<1>2. TryAgain(r) = [r EXCEPT !.pc = "running", !.body = TRUE, !.attempt = a]
  BY DEF TryAgain
<1> HIDE DEF a
<1> QED  BY <1>1, <1>2 DEF TaskRecord, Places

LEMMA VerdictType ==
  ASSUME NEW r
  PROVE  VerdictOf(r) \in Verdicts
BY DEF VerdictOf, Verdicts

LEMMA KeyHasType ==
  ASSUME TypeOK, NEW t \in TaskIds
  PROVE  TypeOf(t) \in Types /\ rec[t].key \in DedupeKeys
BY DEF TypeOK, TypeOf, TaskRecord, DedupeKeys

LEMMA TaskSetIsFinite ==
  ASSUME NEW S \in SUBSET TaskIds
  PROVE  IsFiniteSet(S) /\ Cardinality(S) \in Nat
<1>1. IsFiniteSet(TaskIds)
  BY FS_Interval DEF TaskIds
<1>2. IsFiniteSet(S)
  BY <1>1, FS_Subset
<1> QED  BY <1>2, FS_CardinalityType

(* settle and the finally block keep their variables in their types.        *)
LEMMA SettleType ==
  ASSUME TypeOK, NEW S \in SUBSET TaskIds, NEW new,
         \A t \in S : new[t] \in TaskRecord, Settle(S, new)
  PROVE  /\ active' \in [DedupeKeys -> 0..MaxTasks]
         /\ latest' \in [DedupeKeys -> Snapshots]
<1>1. active' \in [DedupeKeys -> 0..MaxTasks]
  BY DEF Settle, TypeOK
<1>2. ASSUME NEW k \in DedupeKeys, NEW T \in SUBSET S, T # {}
      PROVE  Snapshot(CHOOSE t \in T : TRUE, new[CHOOSE t \in T : TRUE]) \in Snapshots
  <2>1. (CHOOSE t \in T : TRUE) \in S
    BY <1>2
  <2>2. \A t \in S : Snapshot(t, new[t]) \in Snapshots
    BY DEF Snapshot, Snapshots, TaskRecord, TaskIds
  <2> QED  BY <2>1, <2>2
<1>3. latest' \in [DedupeKeys -> Snapshots]
  BY <1>2 DEF Settle, TypeOK
<1> QED  BY <1>1, <1>3

LEMMA ExitType ==
  ASSUME TypeOK, NEW t \in TaskIds, NEW r \in TaskRecord,
         NEW armed \in BOOLEAN, Exit(t, r, armed)
  PROVE  /\ rec' \in [TaskIds -> TaskRecord]
         /\ queue' \in [Types -> SUBSET TaskIds]
         /\ running' \in [Types -> Nat]
         /\ sweepTimer' \in BOOLEAN
<1> DEFINE ty == TypeOf(t)
           n == IF running[ty] = 0 THEN 0 ELSE running[ty] - 1
           shifted == {u \in queue[ty] : HasSlot(ty, n + Cardinality(Ahead(ty, u)))}
           begun == {u \in shifted : ~Settled(u)}
<1>1. ty \in Types /\ n \in Nat
  BY KeyHasType DEF TypeOK
<1>2. begun \in SUBSET TaskIds /\ Cardinality(begun) \in Nat
  <2>1. begun \in SUBSET TaskIds
    BY <1>1 DEF TypeOK
  <2> QED  BY <2>1, TaskSetIsFinite
<1>3. rec' \in [TaskIds -> TaskRecord]
  <2>1. [r EXCEPT !.pc = "done"] \in TaskRecord
    BY DEF TaskRecord, Places
  <2> QED  BY <2>1, BeginType DEF Exit, TypeOK
<1>4. queue' \in [Types -> SUBSET TaskIds]
  BY <1>1 DEF Exit, TypeOK
<1>5. running' \in [Types -> Nat]
  <2>1. running' = [running EXCEPT ![ty] = n + Cardinality(begun)]
    BY DEF Exit
  <2> QED  BY <2>1, <1>1, <1>2 DEF TypeOK
<1>6. sweepTimer' \in BOOLEAN
  BY DEF Exit, RescheduleQueueWaitSweep, NeedsSweep
<1> QED  BY <1>3, <1>4, <1>5, <1>6

LEMMA InitType == Init => TypeOK
<1> SUFFICES ASSUME Init PROVE TypeOK
  OBVIOUS
<1>1. (CHOOSE k \in DedupeKeys : TRUE) \in DedupeKeys
  <2>1. PICK ty \in Types, key \in Keys : TRUE
    BY TypesAssumption
  <2>2. <<ty, key>> \in DedupeKeys
    BY DEF DedupeKeys
  <2> QED  BY <2>2
<1>2. Unborn \in TaskRecord
  BY <1>1, NewRecordType DEF Unborn, TaskRecord, Places
<1>3. NoSnapshot \in Snapshots
  BY DEF NoSnapshot, Snapshots, Statuses
<1>4. rec \in [TaskIds -> TaskRecord] /\ latest \in [DedupeKeys -> Snapshots]
  BY <1>2, <1>3 DEF Init
<1>5. /\ nextId \in 0..MaxTasks
      /\ active \in [DedupeKeys -> 0..MaxTasks]
      /\ running \in [Types -> Nat]
  BY DEF Init
<1>6. /\ queue \in [Types -> SUBSET TaskIds]
      /\ sweepTimer \in BOOLEAN
      /\ unhandled \in BOOLEAN
  BY DEF Init
<1> QED  BY <1>4, <1>5, <1>6 DEF TypeOK

LEMMA NextType == TypeOK /\ [Next]_vars => TypeOK'
<1> SUFFICES ASSUME TypeOK, [Next]_vars PROVE TypeOK'
  OBVIOUS
<1>1. ASSUME NEW k \in DedupeKeys, Enqueue(k) PROVE TypeOK'
  <2>1. nextId + 1 \in TaskIds /\ k[1] \in Types
    BY <1>1 DEF Enqueue, TypeOK, TaskIds, DedupeKeys
  <2>2. NewRecord(k) \in TaskRecord /\ Begin(NewRecord(k)) \in TaskRecord
    BY NewRecordType, BeginType
  <2>3. Snapshot(nextId + 1, NewRecord(k)) \in Snapshots
    BY <2>1, <2>2 DEF Snapshot, Snapshots, TaskRecord, TaskIds
  <2>4. sweepTimer' \in BOOLEAN
    BY <1>1 DEF Enqueue, TypeOK, RescheduleQueueWaitSweep, NeedsSweep
  <2>5. rec' \in [TaskIds -> TaskRecord]
    BY <1>1, <2>1, <2>2 DEF Enqueue, TypeOK
  <2>6. /\ nextId' \in 0..MaxTasks
        /\ active' \in [DedupeKeys -> 0..MaxTasks]
    BY <1>1, <2>1 DEF Enqueue, TypeOK, TaskIds
  <2>7. latest' \in [DedupeKeys -> Snapshots]
    BY <1>1, <2>3 DEF Enqueue, TypeOK
  <2>8. /\ queue' \in [Types -> SUBSET TaskIds]
        /\ running' \in [Types -> Nat]
        /\ unhandled' \in BOOLEAN
    BY <1>1, <2>1 DEF Enqueue, TypeOK
  <2> QED  BY <2>4, <2>5, <2>6, <2>7, <2>8 DEF TypeOK
<1>2. ASSUME NEW k \in DedupeKeys, RecordCacheHit(k) PROVE TypeOK'
  <2>1. active[k] \in TaskIds
    BY <1>2 DEF RecordCacheHit, TypeOK, TaskIds
  <2>2. Snapshot(active[k], rec[active[k]]) \in Snapshots
    BY <2>1 DEF Snapshot, Snapshots, TypeOK, TaskRecord, TaskIds
  <2> QED  BY <1>2, <2>2 DEF RecordCacheHit, TypeOK
<1>3. ASSUME NEW types \in SUBSET Types, NEW keys \in SUBSET Keys,
             CancelMatching(types, keys)
      PROVE  TypeOK'
  <2> DEFINE S == {active[k] : k \in {x \in types \X keys : active[x] # 0}}
             new == [t \in TaskIds |-> IF t \in S THEN Cancelled(rec[t]) ELSE rec[t]]
  <2>1. S \in SUBSET TaskIds
    BY DEF TypeOK, TaskIds, DedupeKeys
  <2>2. new \in [TaskIds -> TaskRecord]
    BY CancelledType DEF TypeOK
  <2>3. Settle(S, new) /\ rec' = new /\ queue' = Without(queue, S)
    BY <1>3 DEF CancelMatching
  <2>4. sweepTimer' \in BOOLEAN
    BY <1>3 DEF CancelMatching, RescheduleQueueWaitSweep, NeedsSweep
  <2>5. queue' \in [Types -> SUBSET TaskIds]
    BY <2>3 DEF Without, TypeOK
  <2> QED  BY <1>3, <2>1, <2>2, <2>3, <2>4, <2>5, SettleType
           DEF CancelMatching, TypeOK
<1>4. ASSUME NEW due \in SUBSET TaskIds, SweepQueuedTimeouts(due) PROVE TypeOK'
  <2> DEFINE new == [t \in TaskIds |->
                       IF t \in due
                         THEN [Finish(rec[t], "queue_timeout") EXCEPT !.pc = "done"]
                         ELSE rec[t]]
  <2>1. new \in [TaskIds -> TaskRecord]
    <3>1. ASSUME NEW t \in TaskIds
          PROVE  [Finish(rec[t], "queue_timeout") EXCEPT !.pc = "done"] \in TaskRecord
      <4>1. Finish(rec[t], "queue_timeout") \in TaskRecord
        BY FinishType DEF Verdicts, TypeOK
      <4> QED  BY <4>1 DEF TaskRecord, Places
    <3> QED  BY <3>1 DEF TypeOK
  <2>2. Settle(due, new) /\ rec' = new /\ queue' = Without(queue, due)
    BY <1>4 DEF SweepQueuedTimeouts
  <2>3. sweepTimer' \in BOOLEAN
    BY <1>4 DEF SweepQueuedTimeouts, RescheduleQueueWaitSweep, NeedsSweep
  <2>4. queue' \in [Types -> SUBSET TaskIds]
    BY <2>2 DEF Without, TypeOK
  <2> QED  BY <1>4, <2>1, <2>2, <2>3, <2>4, SettleType
           DEF SweepQueuedTimeouts, TypeOK
<1>5. ASSUME NEW t \in TaskIds, Body(t) PROVE TypeOK'
  <2>1. PICK place \in Places : BodyEnds(t, place)
    BY <1>5 DEF Body, BodySucceeds, BodyFails, BodyQueueTimesOut, Places
  <2>2. BodyOver(rec[t], place) \in TaskRecord
    BY BodyOverType DEF TypeOK
  <2> QED  BY <2>1, <2>2 DEF BodyEnds, TypeOK
<1>6. ASSUME NEW t \in TaskIds, ReportProgress(t) PROVE TypeOK'
  <2>1. Snapshot(t, rec[t]) \in Snapshots
    BY DEF Snapshot, Snapshots, TypeOK, TaskRecord, TaskIds
  <2> QED  BY <1>6, <2>1, KeyHasType DEF ReportProgress, TypeOK
<1>7. ASSUME NEW t \in TaskIds, TimeoutFires(t) PROVE TypeOK'
  <2>1. TimedOut(rec[t]) \in TaskRecord
    BY TimedOutType DEF TypeOK
  <2> QED  BY <1>7, <2>1 DEF TimeoutFires, TypeOK
<1>8. ASSUME NEW t \in TaskIds, BackoffElapses(t) PROVE TypeOK'
  BY <1>8 DEF BackoffElapses, TypeOK, TaskRecord, Places
<1>9. ASSUME NEW t \in TaskIds, ResumeResolved(t) PROVE TypeOK'
  <2> DEFINE r == Finish(rec[t], "succeeded")
             new == [rec EXCEPT ![t] = r]
  <2>1. r \in TaskRecord /\ new[t] = r
    BY FinishType DEF TypeOK, Verdicts
  <2>2. Settle({t}, new) /\ Exit(t, r, sweepTimer) /\ sweepTimer \in BOOLEAN
    BY <1>9 DEF ResumeResolved, TypeOK
  <2> HIDE DEF r, new
  <2>3. /\ active' \in [DedupeKeys -> 0..MaxTasks]
        /\ latest' \in [DedupeKeys -> Snapshots]
    BY <2>1, <2>2, SettleType
  <2> QED  BY <1>9, <2>1, <2>2, <2>3, ExitType DEF ResumeResolved, TypeOK
<1>10. ASSUME NEW t \in TaskIds, ResumeRejected(t) PROVE TypeOK'
  <2> DEFINE r == IF Settled(t) THEN rec[t] ELSE Finish(rec[t], VerdictOf(rec[t]))
             new == [rec EXCEPT ![t] = r]
             armed == IF ~Settled(t) /\ rec[t].pc = "queueTimedOut"
                        THEN NeedsSweep(queue) ELSE sweepTimer
  <2>1. r \in TaskRecord /\ new[t] = r
    BY FinishType, VerdictType DEF TypeOK
  <2>2. Settle({t}, new) /\ Exit(t, r, armed) /\ armed \in BOOLEAN
    BY <1>10 DEF ResumeRejected, TypeOK, NeedsSweep
  <2> HIDE DEF r, new, armed
  <2>3. /\ active' \in [DedupeKeys -> 0..MaxTasks]
        /\ latest' \in [DedupeKeys -> Snapshots]
    BY <2>1, <2>2, SettleType
  <2> QED  BY <1>10, <2>1, <2>2, <2>3, ExitType DEF ResumeRejected, TypeOK
<1>11. ASSUME NEW t \in TaskIds, RetryLater(t) PROVE TypeOK'
  BY <1>11 DEF RetryLater, TypeOK, TaskRecord, Places
<1>12. ASSUME NEW t \in TaskIds, LeaveLoop(t) PROVE TypeOK'
  BY <1>12, ExitType DEF LeaveLoop, TypeOK
<1>13. ASSUME NEW t \in TaskIds, NextAttempt(t) PROVE TypeOK'
  <2>1. TryAgain(rec[t]) \in TaskRecord
    BY TryAgainType DEF TypeOK
  <2> QED  BY <1>13, <2>1 DEF NextAttempt, TypeOK
<1>14. ASSUME NEW t \in TaskIds, ResumeAbortedBackoff(t) PROVE TypeOK'
  BY <1>14, ExitType DEF ResumeAbortedBackoff, TypeOK
<1>15. CASE UNCHANGED vars
  BY <1>15 DEF vars, TypeOK
<1> QED  BY <1>1, <1>2, <1>3, <1>4, <1>5, <1>6, <1>7, <1>8, <1>9, <1>10, <1>11,
            <1>12, <1>13, <1>14, <1>15 DEF Next, Sweep, Resume

(* Every reachable state is well typed.                                     *)
THEOREM TypeCorrect == Spec => []TypeOK
BY InitType, NextType, PTL DEF Spec

-----------------------------------------------------------------------------
(* The invariants.                                                          *)

LEMMA OldestExists ==
  ASSUME NEW S \in SUBSET TaskIds, S # {}
  PROVE  \E u \in S : \A v \in S : u <= v
<1>1. S \in SUBSET Nat
  BY DEF TaskIds
<1> DEFINE less == {p \in Nat \X Nat : p[1] < p[2]}
<1>2. IsWellFoundedOn(less, Nat)
  BY NatLessThanWellFounded DEF OpToRel
<1> HIDE DEF less
<1>3. PICK u \in S : \A v \in S : <<v, u>> \notin less
  BY <1>1, <1>2, WFMin
<1>4. \A v \in S : u <= v
  <2> SUFFICES ASSUME NEW v \in S, v < u PROVE FALSE
    BY <1>1
  <2> DEFINE p == <<v, u>>
  <2>1. p \in Nat \X Nat /\ p[1] < p[2]
    BY <1>1
  <2>2. p \in less
    BY <2>1 DEF less
  <2> QED  BY <1>3, <2>2
<1> QED  BY <1>4

LEMMA InitInv == Init => Inv
<1> SUFFICES ASSUME Init PROVE Inv
  OBVIOUS
<1> TypeOK
  BY InitType
<1>1. \A t \in TaskIds : rec[t].pc = "unborn" /\ rec[t].outcome = "pending"
  <2>1. \A k : LET r == [NewRecord(k) EXCEPT !.pc = "unborn"]
               IN  r.pc = "unborn" /\ r.outcome = "pending"
    BY DEF NewRecord
  <2>2. Unborn.pc = "unborn" /\ Unborn.outcome = "pending"
    BY <2>1 DEF Unborn
  <2>3. rec = [t \in TaskIds |-> Unborn]
    BY DEF Init
  <2> HIDE DEF Init
  <2> QED  BY <2>2, <2>3
<1>2. \A ty \in Types : Occupants(ty) = {}
  BY <1>1 DEF Occupants, Executing
<1>3. SlotAccounting
  <2>1. \A ty \in Types : running[ty] = 0
    BY DEF Init
  <2>2. \A ty \in Types : Cardinality(Occupants(ty)) = 0
    BY <1>2, FS_EmptySet
  <2>3. \A ty \in Types : Concurrency[ty] # 0 => 0 <= Concurrency[ty]
    BY DefinitionsAssumption
  <2> HIDE DEF Init
  <2> QED  BY <2>1, <2>2, <2>3 DEF SlotAccounting
<1>4. Born = {}
  BY DEF Born, Init
<1>5. ActiveIsPending /\ NothingStranded /\ WorkConserving
  BY <1>4 DEF ActiveIsPending, NothingStranded, WorkConserving, Init
<1>6. SweepArmed
  BY DEF SweepArmed, NeedsSweep, Init
<1>7. PlacesFit
  BY <1>1 DEF PlacesFit, Settled, Init, TaskIds
<1> QED  BY <1>3, <1>5, <1>6, <1>7 DEF Inv

(* Places from which a continuation, a timer or a body drives executeRecord *)
(* on, other than that of an aborted retry delay.                           *)
Driven == Places \ {"unborn", "waiting", "done", "backoffAborted"}

(* A step that only moves records among those places keeps the invariant.   *)
LEMMA QuietStep ==
  ASSUME TypeOK, TypeOK', Inv,
         UNCHANGED <<nextId, active, queue, running, sweepTimer>>,
         \A u \in TaskIds :
           /\ rec'[u].key = rec[u].key
           /\ rec'[u].outcome = rec[u].outcome
           /\ \/ rec'[u].pc = rec[u].pc
              \/ rec[u].pc \in Driven /\ rec'[u].pc \in Driven
  PROVE  Inv'
<1>1. \A u \in TaskIds :
        /\ TypeOf(u)' = TypeOf(u) /\ Settled(u)' = Settled(u)
        /\ Executing(u)' = Executing(u)
  BY DEF TypeOf, Settled, Executing, Driven
<1>2. Born' = Born /\ Born \in SUBSET TaskIds
  BY DEF Born, TypeOK, TaskIds
<1>3. ActiveIsPending'
  BY <1>1, <1>2 DEF Inv, ActiveIsPending
<1>4. NothingStranded'
  <2>1. \A ty \in Types : \A t \in queue[ty] : t \in TaskIds
    BY DEF TypeOK
  <2> QED  BY <1>1, <1>2, <2>1 DEF Inv, NothingStranded, Driven
<1>5. \A ty \in Types : Occupants(ty)' = Occupants(ty)
  BY <1>1 DEF Occupants
<1>6. SlotAccounting'
  BY <1>5 DEF Inv, SlotAccounting
<1>7. WorkConserving' /\ SweepArmed'
  BY DEF Inv, WorkConserving, SweepArmed, NeedsSweep
<1>8. PlacesFit'
  BY <1>1 DEF Inv, PlacesFit, Driven
<1> QED  BY <1>3, <1>4, <1>6, <1>7, <1>8 DEF Inv

(* What the finally block does under the invariant: with an empty queue it  *)
(* only returns the slot; otherwise the slot goes to the oldest record.     *)
SlotReturned(t, ty, r, armed) ==
  /\ queue[ty] = {}
  /\ rec' = [rec EXCEPT ![t] = r]
  /\ queue' = queue
  /\ running' = [running EXCEPT ![ty] = @ - 1]
  /\ sweepTimer' = armed

SlotPassedOn(t, ty, r) ==
  \E u \in queue[ty] :
    /\ \A v \in queue[ty] : u <= v
    /\ u # t
    /\ rec' = [rec EXCEPT ![t] = r, ![u] = Begin(rec[u])]
    /\ queue' = [queue EXCEPT ![ty] = @ \ {u}]
    /\ running' = running
    /\ sweepTimer' = NeedsSweep(queue')

Done(r) == [r EXCEPT !.pc = "done"]

LEMMA ExitShape ==
  ASSUME TypeOK, Inv, NEW t \in TaskIds, Executing(t), NEW r, NEW armed,
         Exit(t, r, armed)
  PROVE  \/ SlotReturned(t, TypeOf(t), Done(r), armed)
         \/ SlotPassedOn(t, TypeOf(t), Done(r))
<1> DEFINE ty == TypeOf(t)
           done == Done(r)
           n == IF running[ty] = 0 THEN 0 ELSE running[ty] - 1
           shifted == {u \in queue[ty] : HasSlot(ty, n + Cardinality(Ahead(ty, u)))}
           begun == {u \in shifted : ~Settled(u)}
<1>1. ty \in Types /\ running[ty] \in Nat /\ queue[ty] \in SUBSET TaskIds
  BY KeyHasType DEF TypeOK
<1>2. running[ty] # 0
  <2>1. t \in Occupants(ty) /\ Occupants(ty) \in SUBSET TaskIds
    BY DEF Occupants
  <2>2. Cardinality(Occupants(ty)) # 0
    BY <2>1, TaskSetIsFinite, FS_EmptySet
  <2> QED  BY <2>2, <1>1 DEF Inv, SlotAccounting
<1>3. n = running[ty] - 1
  BY <1>2
<1>4. /\ rec' = [u \in TaskIds |-> IF u = t THEN done
                                   ELSE IF u \in begun THEN Begin(rec[u])
                                   ELSE rec[u]]
      /\ running' = [running EXCEPT ![ty] = n + Cardinality(begun)]
      /\ queue' = [queue EXCEPT ![ty] = @ \ shifted]
      /\ IF queue[ty] = {} THEN sweepTimer' = armed
                           ELSE sweepTimer' = NeedsSweep(queue')
  BY DEF Exit, RescheduleQueueWaitSweep, Done
<1>5. CASE queue[ty] = {}
  <2>1. shifted = {} /\ begun = {}
    BY <1>5
  <2>2. Cardinality(begun) = 0
    BY <2>1, FS_EmptySet
  <2>3. rec' = [rec EXCEPT ![t] = done]
    BY <1>4, <2>1 DEF TypeOK
  <2>4. queue' = queue
    BY <1>4, <2>1, <1>1 DEF TypeOK
  <2>5. running' = [running EXCEPT ![ty] = @ - 1]
    <3>1. n + Cardinality(begun) = running[ty] - 1
      BY <1>1, <1>3, <2>2
    <3> HIDE DEF n, begun
    <3> QED  BY <1>4, <3>1
  <2> HIDE DEF n, shifted, begun
  <2> QED  BY <1>4, <1>5, <2>3, <2>4, <2>5 DEF SlotReturned
<1>6. CASE queue[ty] # {}
  <2>1. PICK u \in queue[ty] : \A v \in queue[ty] : u <= v
    BY <1>1, <1>6, OldestExists
  <2>2. Concurrency[ty] # 0 /\ Concurrency[ty] \in Nat /\ n = Concurrency[ty] - 1
    BY <1>1, <1>3, <1>6, DefinitionsAssumption
       DEF Inv, WorkConserving, SlotAccounting
  <2>3. \A v \in queue[ty] : ~Settled(v) /\ rec[v].pc = "waiting" /\ v \in TaskIds
    BY <1>1 DEF Inv, NothingStranded
  <2>4. \A v \in queue[ty] : HasSlot(ty, n + Cardinality(Ahead(ty, v))) <=> v = u
    <3> SUFFICES ASSUME NEW v \in queue[ty]
                 PROVE  HasSlot(ty, n + Cardinality(Ahead(ty, v))) <=> v = u
      OBVIOUS
    <3>1. Ahead(ty, v) \in SUBSET TaskIds
      BY <1>1 DEF Ahead
    <3>2. /\ IsFiniteSet(Ahead(ty, v)) /\ Cardinality(Ahead(ty, v)) \in Nat
          /\ Cardinality(Ahead(ty, v)) = 0 <=> Ahead(ty, v) = {}
      BY <3>1, TaskSetIsFinite, FS_EmptySet
    <3>3. HasSlot(ty, n + Cardinality(Ahead(ty, v))) <=> Ahead(ty, v) = {}
      BY <2>2, <3>2 DEF HasSlot
    <3>4. Ahead(ty, v) = {} <=> v = u
      BY <2>1, <2>3, <1>1 DEF Ahead, TaskIds
    <3> QED  BY <3>3, <3>4
  <2>5. shifted = {u} /\ begun = {u}
    BY <2>1, <2>3, <2>4
  <2>6. Cardinality(begun) = 1
    BY <2>5, FS_Singleton
  <2>7. u # t
    BY <2>3 DEF Executing
  <2> HIDE DEF shifted, begun, done
  <2>8. rec' = [rec EXCEPT ![t] = done, ![u] = Begin(rec[u])]
    BY <1>4, <2>3, <2>5, <2>7 DEF TypeOK
  <2>9. queue' = [queue EXCEPT ![ty] = @ \ {u}]
    BY <1>4, <2>5
  <2>10. running' = running
    <3>1. n + Cardinality(begun) = running[ty]
      BY <1>1, <1>3, <2>6
    <3> HIDE DEF n
    <3> QED  BY <1>4, <3>1 DEF TypeOK
  <2> QED  BY <1>4, <1>6, <2>1, <2>7, <2>8, <2>9, <2>10 DEF SlotPassedOn, done
<1> QED  BY <1>5, <1>6

(* Records S leave activeTasks as they are settled.                         *)
Released(S) ==
  active' = [k \in DedupeKeys |->
               IF \E t \in S : ~Settled(t) /\ rec[t].key = k THEN 0 ELSE active[k]]

LEMMA SettleReleases ==
  ASSUME NEW S, NEW new, Settle(S, new)
  PROVE  Released(S)
BY DEF Settle, Released

LEMMA BornTasks ==
  ASSUME TypeOK
  PROVE  Born \in SUBSET TaskIds
BY DEF Born, TypeOK, TaskIds

LEMMA ReleasedKeepsActive ==
  ASSUME TypeOK, Inv, NEW S \in SUBSET Born, Released(S), nextId' = nextId,
         \A u \in TaskIds : /\ rec'[u].key = rec[u].key
                            /\ u \in S => Settled(u)'
                            /\ u \notin S => rec'[u].outcome = rec[u].outcome
  PROVE  ActiveIsPending'
<1>1. Born' = Born /\ Born \in SUBSET TaskIds
  BY BornTasks DEF Born
<1>2. \A u \in TaskIds \ S : Settled(u)' = Settled(u)
  BY DEF Settled
<1>3. ASSUME NEW k \in DedupeKeys, active'[k] # 0
      PROVE  active'[k] \in Born /\ ~Settled(active[k])' /\ active'[k] = active[k]
             /\ rec'[active[k]].key = k
  <2>1. active'[k] = active[k] /\ ~\E t \in S : ~Settled(t) /\ rec[t].key = k
    BY <1>3 DEF Released
  <2>2. active[k] \in Born /\ ~Settled(active[k]) /\ rec[active[k]].key = k
    BY <1>3, <2>1 DEF Inv, ActiveIsPending
  <2> QED  BY <1>1, <1>2, <2>1, <2>2
<1>4. ASSUME NEW t \in Born, ~Settled(t)'
      PROVE  active'[rec'[t].key] = t
  <2>1. t \notin S /\ ~Settled(t) /\ rec'[t].key = rec[t].key
    BY <1>1, <1>2, <1>4
  <2>2. active[rec[t].key] = t
    BY <2>1 DEF Inv, ActiveIsPending
  <2>3. \A u \in S : ~Settled(u) => active[rec[u].key] = u
    BY DEF Inv, ActiveIsPending
  <2>4. rec[t].key \in DedupeKeys
    BY <1>1, KeyHasType
  <2> QED  BY <2>1, <2>2, <2>3, <2>4 DEF Released
<1> QED
  <2>1. ASSUME NEW k \in DedupeKeys, active'[k] # 0
        PROVE  /\ active'[k] \in Born'
               /\ rec'[active'[k]].outcome = "pending"
               /\ rec'[active'[k]].key = k
    BY <1>1, <1>3, <2>1 DEF Settled
  <2> QED  BY <1>1, <1>4, <2>1 DEF ActiveIsPending, Settled

(* cancelMatching and the sweep: records S are settled and taken out of the *)
(* queues; those of them inside executeRecord stay there.                   *)
LEMMA WithdrawStep ==
  ASSUME TypeOK, TypeOK', Inv, NEW S \in SUBSET Born, Released(S),
         nextId' = nextId, running' = running,
         queue' = Without(queue, S), sweepTimer' = NeedsSweep(queue'),
         \A u \in TaskIds : /\ rec'[u].key = rec[u].key
                            /\ u \notin S => rec'[u] = rec[u],
         \A u \in S : /\ Settled(u)'
                      /\ Executing(u)' = Executing(u)
                      /\ rec'[u].pc \notin {"unborn", "waiting"}
  PROVE  Inv'
<1>1. Born' = Born /\ Born \in SUBSET TaskIds
  BY BornTasks DEF Born
<1>2. \A u \in TaskIds \ S : /\ Settled(u)' = Settled(u)
                             /\ Executing(u)' = Executing(u)
  BY DEF Settled, Executing
<1>3. \A u \in TaskIds : TypeOf(u)' = TypeOf(u) /\ Executing(u)' = Executing(u)
  BY <1>2 DEF TypeOf
<1>4. ActiveIsPending'
  BY ReleasedKeepsActive, <1>1
<1>5. \A ty \in Types : queue'[ty] = queue[ty] \ S /\ queue[ty] \in SUBSET TaskIds
  BY DEF Without, TypeOK
<1>6. NothingStranded'
  <2>1. \A ty \in Types : \A t \in queue'[ty] :
          t \in Born' /\ ~Settled(t)' /\ rec'[t].pc = "waiting" /\ TypeOf(t)' = ty
    BY <1>1, <1>2, <1>3, <1>5 DEF Inv, NothingStranded
  <2>2. ASSUME NEW t \in Born', ~Settled(t)'
        PROVE  Executing(t)' \/ t \in queue'[TypeOf(t)']
    <3>1. t \in Born /\ t \in TaskIds /\ t \notin S /\ ~Settled(t)
      BY <1>1, <1>2, <2>2
    <3>2. Executing(t) \/ t \in queue[TypeOf(t)]
      BY <3>1 DEF Inv, NothingStranded
    <3> QED  BY <1>3, <1>5, <3>1, <3>2, KeyHasType
  <2> QED  BY <2>1, <2>2 DEF NothingStranded
<1>7. \A ty \in Types : Occupants(ty)' = Occupants(ty)
  BY <1>3 DEF Occupants
<1>8. SlotAccounting'
  BY <1>7 DEF Inv, SlotAccounting
<1>9. WorkConserving' /\ SweepArmed'
  BY <1>5 DEF Inv, WorkConserving, SweepArmed, NeedsSweep
<1>10. PlacesFit'
  <2>1. \A u \in TaskIds \ S :
          /\ rec'[u].pc = "unborn" <=> u > nextId'
          /\ rec'[u].pc \in {"unborn", "waiting"} => ~Settled(u)'
          /\ rec'[u].pc \in {"done", "backoffAborted"} => Settled(u)'
    BY <1>2 DEF Inv, PlacesFit
  <2>2. \A u \in S : ~(u > nextId')
    BY DEF Born, TypeOK
  <2> QED  BY <2>1, <2>2 DEF PlacesFit
<1> QED  BY <1>4, <1>6, <1>8, <1>9, <1>10 DEF Inv

(* enqueue: the new record takes a free slot, which no queue was waiting    *)
(* for, or joins the queue of a full type.                                  *)
LEMMA EnqueueStep ==
  ASSUME TypeOK, TypeOK', Inv, NEW k \in DedupeKeys, Enqueue(k)
  PROVE  Inv'
<1> DEFINE ty == k[1]
<1>0. PICK t \in TaskIds : t = nextId + 1
  BY DEF Enqueue, TypeOK, TaskIds
<1>1. /\ t \in TaskIds /\ ty \in Types /\ nextId \in Nat
      /\ nextId' = t /\ Born' = Born \cup {t} /\ t \notin Born
  BY <1>0 DEF Enqueue, TypeOK, TaskIds, DedupeKeys, Born
<1>2. Born \in SUBSET TaskIds
  BY BornTasks
<1>3. \A u \in TaskIds : u # t => rec'[u] = rec[u]
  BY <1>0 DEF Enqueue, TypeOK
<1>4. rec[t].pc = "unborn" /\ ~Executing(t) /\ t \notin UNION {queue[x] : x \in Types}
  <2>1. t > nextId
    BY <1>0, <1>1
  <2> QED  BY <2>1, <1>1 DEF Inv, PlacesFit, NothingStranded, Executing
<1>5. rec'[t] = IF HasSlot(ty, running[ty]) THEN Begin(NewRecord(k)) ELSE NewRecord(k)
  BY <1>0, <1>1 DEF Enqueue, TypeOK
<1>6. /\ rec'[t].key = k /\ rec'[t].outcome = "pending" /\ TypeOf(t)' = ty
      /\ rec'[t].pc = IF HasSlot(ty, running[ty]) THEN "running" ELSE "waiting"
  BY <1>5 DEF Begin, NewRecord, TypeOf
<1> HIDE DEF ty
<1>7. \A u \in TaskIds \ {t} : /\ TypeOf(u)' = TypeOf(u) /\ Settled(u)' = Settled(u)
                               /\ Executing(u)' = Executing(u)
  BY <1>3 DEF TypeOf, Settled, Executing
<1>8. active' = [active EXCEPT ![k] = t] /\ active[k] = 0
  BY <1>0 DEF Enqueue
<1>9. ActiveIsPending'
  <2>1. ASSUME NEW j \in DedupeKeys, active'[j] # 0
        PROVE  /\ active'[j] \in Born'
               /\ rec'[active'[j]].outcome = "pending"
               /\ rec'[active'[j]].key = j
    <3>1. CASE j = k
      BY <3>1, <1>1, <1>6, <1>8 DEF TypeOK
    <3>2. CASE j # k
      <4>1. active'[j] = active[j]
        BY <3>2, <1>8 DEF TypeOK
      <4>2. active[j] \in Born /\ ~Settled(active[j]) /\ rec[active[j]].key = j
        BY <2>1, <4>1 DEF Inv, ActiveIsPending
      <4> QED  BY <4>1, <4>2, <1>1, <1>2, <1>3 DEF Settled
    <3> QED  BY <3>1, <3>2
  <2>2. ASSUME NEW u \in Born', rec'[u].outcome = "pending"
        PROVE  active'[rec'[u].key] = u
    <3>1. CASE u = t
      BY <3>1, <1>6, <1>8 DEF TypeOK
    <3>2. CASE u # t
      <4>1. u \in Born /\ u \in TaskIds /\ rec'[u] = rec[u] /\ u # 0
        BY <3>2, <1>1, <1>2, <1>3 DEF TaskIds
      <4>2. active[rec[u].key] = u
        BY <2>2, <4>1 DEF Inv, ActiveIsPending, Settled
      <4>3. rec[u].key # k
        BY <4>1, <4>2, <1>8
      <4> QED  BY <4>1, <4>2, <4>3, <1>8, KeyHasType DEF TypeOK
    <3> QED  BY <3>1, <3>2
  <2> QED  BY <2>1, <2>2 DEF ActiveIsPending, Settled
<1>10. PlacesFit'
  <2>1. \A u \in TaskIds : u > nextId' <=> u > nextId /\ u # t
    BY <1>0, <1>1 DEF TaskIds
  <2>2. ~Settled(t)'
    BY <1>6 DEF Settled
  <2>3. \A u \in TaskIds \ {t} :
          /\ rec'[u].pc = "unborn" <=> u > nextId'
          /\ rec'[u].pc \in {"unborn", "waiting"} => ~Settled(u)'
          /\ rec'[u].pc \in {"done", "backoffAborted"} => Settled(u)'
    BY <2>1, <1>3, <1>7 DEF Inv, PlacesFit
  <2> QED  BY <2>1, <2>2, <2>3, <1>6 DEF PlacesFit
<1>11. CASE HasSlot(ty, running[ty])
  <2>1. /\ queue' = queue /\ sweepTimer' = sweepTimer
        /\ running' = [running EXCEPT ![ty] = @ + 1]
    BY <1>11 DEF Enqueue, ty
  <2>2. Executing(t)' /\ running[ty] \in Nat
    BY <1>1, <1>6, <1>11 DEF Executing, TypeOK
  <2>3. NothingStranded'
    <3>1. \A x \in Types : \A u \in queue[x] : u \in TaskIds \ {t}
      BY <1>4 DEF TypeOK
    <3>2. \A x \in Types : \A u \in queue'[x] :
            u \in Born' /\ ~Settled(u)' /\ rec'[u].pc = "waiting" /\ TypeOf(u)' = x
      BY <2>1, <3>1, <1>1, <1>3, <1>7 DEF Inv, NothingStranded
    <3>3. \A u \in Born' : ~Settled(u)' => Executing(u)' \/ u \in queue'[TypeOf(u)']
      BY <2>1, <2>2, <1>1, <1>2, <1>7 DEF Inv, NothingStranded
    <3> QED  BY <3>2, <3>3 DEF NothingStranded
  <2>4. /\ Occupants(ty)' = Occupants(ty) \cup {t} /\ t \notin Occupants(ty)
        /\ \A x \in Types : x # ty => Occupants(x)' = Occupants(x)
    BY <2>2, <1>1, <1>4, <1>6, <1>7 DEF Occupants
  <2>5. SlotAccounting'
    <3>1. Occupants(ty) \in SUBSET TaskIds
      BY DEF Occupants
    <3>2. Cardinality(Occupants(ty)') = Cardinality(Occupants(ty)) + 1
      BY <2>4, <3>1, TaskSetIsFinite, FS_AddElement
    <3>3. /\ running'[ty] = Cardinality(Occupants(ty)')
          /\ Concurrency[ty] # 0 => running'[ty] <= Concurrency[ty]
      <4>1. running'[ty] = running[ty] + 1 /\ running[ty] = Cardinality(Occupants(ty))
        BY <2>1, <1>1 DEF Inv, SlotAccounting, TypeOK
      <4>2. Concurrency[ty] \in Nat
        BY <1>1, DefinitionsAssumption
      <4> QED  BY <4>1, <4>2, <2>2, <3>2, <1>11 DEF HasSlot
    <3>4. \A x \in Types : x # ty => running'[x] = running[x]
      BY <2>1 DEF TypeOK
    <3> QED  BY <2>4, <3>3, <3>4 DEF Inv, SlotAccounting
  <2>6. WorkConserving'
    <3>1. queue[ty] = {}
      BY <1>1, <1>11, <2>2, DefinitionsAssumption DEF Inv, WorkConserving, HasSlot
    <3> QED  BY <2>1, <3>1 DEF Inv, WorkConserving, TypeOK
  <2>7. SweepArmed'
    BY <2>1 DEF Inv, SweepArmed, NeedsSweep
  <2> QED  BY <1>9, <1>10, <2>3, <2>5, <2>6, <2>7 DEF Inv
<1>12. CASE ~HasSlot(ty, running[ty])
  <2>1. /\ queue' = [queue EXCEPT ![ty] = @ \cup {t}] /\ running' = running
        /\ sweepTimer' = NeedsSweep(queue')
    BY <1>0, <1>12 DEF Enqueue, ty, RescheduleQueueWaitSweep
  <2>2. ~Executing(t)' /\ rec'[t].pc = "waiting"
    BY <1>6, <1>12 DEF Executing
  <2>3. NothingStranded'
    <3>1. \A x \in Types : queue'[x] = IF x = ty THEN queue[x] \cup {t} ELSE queue[x]
      BY <2>1 DEF TypeOK
    <3>2. \A x \in Types : \A u \in queue[x] : u \in TaskIds \ {t}
      BY <1>4 DEF TypeOK
    <3>3. ASSUME NEW x \in Types, NEW u \in queue'[x]
          PROVE  u \in Born' /\ ~Settled(u)' /\ rec'[u].pc = "waiting" /\ TypeOf(u)' = x
      <4>1. CASE u \in queue[x]
        BY <4>1, <3>2, <1>1, <1>3, <1>7 DEF Inv, NothingStranded
      <4>2. CASE u = t /\ x = ty
        BY <4>2, <2>2, <1>1, <1>6 DEF Settled
      <4> QED  BY <3>1, <3>3, <4>1, <4>2
    <3>4. ASSUME NEW u \in Born', ~Settled(u)'
          PROVE  Executing(u)' \/ u \in queue'[TypeOf(u)']
      <4>1. CASE u = t
        BY <4>1, <3>1, <1>1, <1>6
      <4>2. CASE u # t
        <5>1. u \in Born /\ u \in TaskIds /\ ~Settled(u)
          BY <4>2, <3>4, <1>1, <1>2, <1>7
        <5>2. Executing(u) \/ u \in queue[TypeOf(u)]
          BY <5>1 DEF Inv, NothingStranded
        <5>3. TypeOf(u) \in Types /\ TypeOf(u)' = TypeOf(u) /\ Executing(u)' = Executing(u)
          BY <4>2, <5>1, <1>7, KeyHasType
        <5>4. queue[TypeOf(u)] \subseteq queue'[TypeOf(u)]
          BY <3>1, <5>3
        <5> QED  BY <5>2, <5>3, <5>4
      <4> QED  BY <4>1, <4>2
    <3> QED  BY <3>3, <3>4 DEF NothingStranded
  <2>4. \A x \in Types : Occupants(x)' = Occupants(x)
    BY <2>2, <1>4, <1>7 DEF Occupants
  <2>5. SlotAccounting'
    BY <2>1, <2>4 DEF Inv, SlotAccounting
  <2>6. WorkConserving'
    <3>1. Concurrency[ty] # 0 /\ running[ty] >= Concurrency[ty]
      BY <1>1, <1>12, DefinitionsAssumption DEF HasSlot, TypeOK
    <3>2. \A x \in Types : x # ty => queue'[x] = queue[x]
      BY <2>1 DEF TypeOK
    <3> QED  BY <2>1, <3>1, <3>2 DEF Inv, WorkConserving
  <2>7. SweepArmed'
    BY <2>1 DEF SweepArmed
  <2> QED  BY <1>9, <1>10, <2>3, <2>5, <2>6, <2>7 DEF Inv
<1> QED  BY <1>11, <1>12

(* The end of executeRecord of a settled record.                            *)
LEMMA ExitStep ==
  ASSUME TypeOK, TypeOK', Inv, NEW t \in TaskIds, Executing(t),
         NEW r \in TaskRecord, r.key = rec[t].key, r.outcome # "pending",
         NEW armed, NeedsSweep(queue) => armed = TRUE,
         Exit(t, r, armed), Released({t}), nextId' = nextId
  PROVE  Inv'
<1> DEFINE ty == rec[t].key[1]
           d == Done(r)
<1>1. ty \in Types /\ TypeOf(t) = ty /\ rec[t] \in TaskRecord
  BY KeyHasType DEF TypeOf, TypeOK
<1>2. d.key = rec[t].key /\ d.outcome # "pending" /\ d.pc = "done"
  BY DEF Done, TaskRecord
<1>3. t \in Born /\ Born' = Born /\ Born \in SUBSET TaskIds
  BY BornTasks DEF Inv, PlacesFit, Executing, Born, TaskIds, TypeOK
<1>4. SlotReturned(t, ty, d, armed) \/ SlotPassedOn(t, ty, d)
  BY <1>1, ExitShape
<1>5. PICK ty0 \in Types, d0 \in TaskRecord :
        ty0 = ty /\ d0 = d
  BY <1>1 DEF Done, TaskRecord, Places
<1>6. \A x \in Types : \A u \in queue[x] :
        /\ u \in TaskIds /\ u # t /\ u \in Born /\ ~Settled(u)
        /\ rec[u].pc = "waiting" /\ TypeOf(u) = x
  BY <1>3 DEF Inv, NothingStranded, Executing, TypeOK
<1>7. running[ty0] \in Nat /\ IsFiniteSet(Occupants(ty0)) /\ t \in Occupants(ty0)
      /\ running[ty0] = Cardinality(Occupants(ty0)) /\ Concurrency[ty0] \in Nat
  <2>1. Occupants(ty0) \in SUBSET TaskIds
    BY DEF Occupants
  <2> QED  BY <2>1, <1>1, <1>5, TaskSetIsFinite, DefinitionsAssumption
           DEF Occupants, TypeOK, Inv, SlotAccounting
<1> HIDE DEF ty, d
<1>8. CASE SlotReturned(t, ty0, d0, armed)
  <2>1. /\ rec' = [rec EXCEPT ![t] = d0] /\ queue' = queue /\ queue[ty0] = {}
        /\ running' = [running EXCEPT ![ty0] = @ - 1] /\ sweepTimer' = armed
    BY <1>8 DEF SlotReturned
  <2>2. rec'[t] = d0 /\ \A u \in TaskIds \ {t} : rec'[u] = rec[u]
    BY <2>1 DEF TypeOK
  <2>3. \A u \in TaskIds \ {t} : /\ TypeOf(u)' = TypeOf(u) /\ Settled(u)' = Settled(u)
                                 /\ Executing(u)' = Executing(u)
    BY <2>2 DEF TypeOf, Settled, Executing
  <2>4. Settled(t)' /\ ~Executing(t)' /\ rec'[t].key = rec[t].key /\ rec'[t].pc = "done"
    BY <2>2, <1>2, <1>5 DEF Settled, Executing
  <2>5. ActiveIsPending'
    BY <2>2, <2>4, <1>3, ReleasedKeepsActive
  <2>6. NothingStranded'
    <3>1. \A x \in Types : \A u \in queue'[x] :
            u \in Born' /\ ~Settled(u)' /\ rec'[u].pc = "waiting" /\ TypeOf(u)' = x
      BY <2>1, <2>2, <2>3, <1>3, <1>6
    <3>2. \A u \in Born' : ~Settled(u)' => Executing(u)' \/ u \in queue'[TypeOf(u)']
      BY <2>1, <2>3, <2>4, <1>3 DEF Inv, NothingStranded
    <3> QED  BY <3>1, <3>2 DEF NothingStranded
  <2>7. /\ Occupants(ty0)' = Occupants(ty0) \ {t}
        /\ \A x \in Types : x # ty0 => Occupants(x)' = Occupants(x)
    BY <2>3, <2>4, <1>1, <1>5 DEF Occupants
  <2>8. SlotAccounting'
    <3>1. Cardinality(Occupants(ty0)') = running[ty0] - 1
      BY <2>7, <1>7, FS_RemoveElement
    <3>2. running'[ty0] = running[ty0] - 1 /\ \A x \in Types : x # ty0 => running'[x] = running[x]
      BY <2>1 DEF TypeOK
    <3>3. Concurrency[ty0] # 0 => running'[ty0] <= Concurrency[ty0]
      BY <3>2, <1>7 DEF Inv, SlotAccounting
    <3> QED  BY <2>7, <3>1, <3>2, <3>3 DEF Inv, SlotAccounting
  <2>9. WorkConserving' /\ SweepArmed'
    <3>1. WorkConserving'
      BY <2>1 DEF Inv, WorkConserving, TypeOK
    <3>2. SweepArmed'
      BY <2>1 DEF SweepArmed
    <3> QED  BY <3>1, <3>2
  <2>10. PlacesFit'
    <3>1. \A u \in TaskIds \ {t} :
            /\ rec'[u].pc = "unborn" <=> u > nextId'
            /\ rec'[u].pc \in {"unborn", "waiting"} => ~Settled(u)'
            /\ rec'[u].pc \in {"done", "backoffAborted"} => Settled(u)'
      BY <2>2, <2>3 DEF Inv, PlacesFit
    <3>2. ~(t > nextId')
      BY <1>3 DEF Born, TypeOK
    <3> QED  BY <3>1, <3>2, <2>4 DEF PlacesFit
  <2> QED  BY <2>5, <2>6, <2>8, <2>9, <2>10 DEF Inv
<1>9. CASE SlotPassedOn(t, ty0, d0)
  <2>1. PICK u \in queue[ty0] :
          /\ u # t
          /\ rec' = [rec EXCEPT ![t] = d0, ![u] = Begin(rec[u])]
          /\ queue' = [queue EXCEPT ![ty0] = @ \ {u}]
          /\ running' = running
          /\ sweepTimer' = NeedsSweep(queue')
    BY <1>9 DEF SlotPassedOn
  <2>2. /\ u \in TaskIds /\ u \in Born /\ ~Settled(u) /\ rec[u].pc = "waiting"
        /\ TypeOf(u) = ty0 /\ rec[u] \in TaskRecord
    BY <1>6 DEF TypeOK
  <2>3. /\ rec'[t] = d0 /\ rec'[u] = Begin(rec[u])
        /\ \A v \in TaskIds \ {t, u} : rec'[v] = rec[v]
    BY <2>1, <2>2 DEF TypeOK
  <2>4. \A v \in TaskIds \ {t, u} : /\ TypeOf(v)' = TypeOf(v) /\ Settled(v)' = Settled(v)
                                    /\ Executing(v)' = Executing(v)
    BY <2>3 DEF TypeOf, Settled, Executing
  <2>5. Settled(t)' /\ ~Executing(t)' /\ rec'[t].key = rec[t].key /\ rec'[t].pc = "done"
    BY <2>3, <1>2, <1>5 DEF Settled, Executing
  <2>6. /\ rec'[u].key = rec[u].key /\ rec'[u].outcome = rec[u].outcome
        /\ rec'[u].pc = "running"
    BY <2>2, <2>3 DEF Begin, TaskRecord
  <2>7. /\ ~Settled(u)' /\ Executing(u)' /\ ~Executing(u) /\ TypeOf(u)' = ty0
    BY <2>2, <2>6 DEF Settled, Executing, TypeOf
  <2>8. ActiveIsPending'
    <3>1. \A v \in TaskIds : /\ rec'[v].key = rec[v].key
                             /\ v \in {t} => Settled(v)'
                             /\ v \notin {t} => rec'[v].outcome = rec[v].outcome
      BY <2>3, <2>5, <2>6
    <3> QED  BY <3>1, <1>3, ReleasedKeepsActive
  <2>9. \A x \in Types : queue'[x] = IF x = ty0 THEN queue[x] \ {u} ELSE queue[x]
    BY <2>1 DEF TypeOK
  <2>10. NothingStranded'
    <3>1. \A x \in Types : \A v \in queue'[x] : v \in queue[x] /\ v \in TaskIds \ {t, u}
      <4> SUFFICES ASSUME NEW x \in Types, NEW v \in queue'[x]
                   PROVE  v \in queue[x] /\ v \in TaskIds \ {t, u}
        OBVIOUS
      <4>1. v \in queue[x] /\ (x = ty0 => v # u)
        BY <2>9
      <4>2. v \in TaskIds /\ v # t /\ TypeOf(v) = x
        BY <4>1, <1>6
      <4>3. v # u
        BY <4>1, <4>2, <2>2
      <4> QED  BY <4>1, <4>2, <4>3
    <3>2. \A x \in Types : \A v \in queue'[x] :
            v \in Born' /\ ~Settled(v)' /\ rec'[v].pc = "waiting" /\ TypeOf(v)' = x
      BY <3>1, <2>3, <2>4, <1>3, <1>6
    <3>3. ASSUME NEW v \in Born', ~Settled(v)'
          PROVE  Executing(v)' \/ v \in queue'[TypeOf(v)']
      <4>1. CASE v = u
        BY <4>1, <2>7
      <4>2. CASE v # u
        <5>1. v \in TaskIds \ {t, u} /\ v \in Born /\ ~Settled(v)
          BY <3>3, <4>2, <2>4, <2>5, <1>3
        <5>2. Executing(v) \/ v \in queue[TypeOf(v)]
          BY <5>1 DEF Inv, NothingStranded
        <5>3. TypeOf(v) \in Types /\ TypeOf(v)' = TypeOf(v) /\ Executing(v)' = Executing(v)
          BY <5>1, <2>4, KeyHasType
        <5> QED  BY <5>1, <5>2, <5>3, <2>9
      <4> QED  BY <4>1, <4>2
    <3> QED  BY <3>2, <3>3 DEF NothingStranded
  <2>11. /\ Occupants(ty0)' = (Occupants(ty0) \ {t}) \cup {u} /\ u \notin Occupants(ty0)
         /\ \A x \in Types : x # ty0 => Occupants(x)' = Occupants(x)
    BY <2>2, <2>4, <2>5, <2>7, <1>1, <1>5 DEF Occupants
  <2>12. SlotAccounting'
    <3>1. /\ IsFiniteSet(Occupants(ty0) \ {t})
          /\ Cardinality(Occupants(ty0) \ {t}) = running[ty0] - 1
      BY <1>7, FS_RemoveElement
    <3>2. Cardinality((Occupants(ty0) \ {t}) \cup {u}) = running[ty0] - 1 + 1
      BY <2>11, <3>1, FS_AddElement
    <3>3. Cardinality(Occupants(ty0)') = running[ty0]
      BY <2>11, <3>2, <1>7
    <3> QED  BY <2>1, <2>11, <3>3 DEF Inv, SlotAccounting
  <2>13. WorkConserving' /\ SweepArmed'
    BY <2>1, <2>9 DEF Inv, WorkConserving, SweepArmed
  <2>14. PlacesFit'
    <3>1. \A v \in TaskIds \ {t, u} :
            /\ rec'[v].pc = "unborn" <=> v > nextId'
            /\ rec'[v].pc \in {"unborn", "waiting"} => ~Settled(v)'
            /\ rec'[v].pc \in {"done", "backoffAborted"} => Settled(v)'
      BY <2>3, <2>4 DEF Inv, PlacesFit
    <3>2. ~(t > nextId') /\ ~(u > nextId')
      BY <1>3, <2>2 DEF Born, TypeOK
    <3> QED  BY <3>1, <3>2, <2>5, <2>6 DEF PlacesFit
  <2> QED  BY <2>8, <2>10, <2>12, <2>13, <2>14 DEF Inv
<1> QED  BY <1>4, <1>5, <1>8, <1>9

(* The inductive invariant is inductive.                                    *)
LEMMA NextInv == TypeOK /\ Inv /\ [Next]_vars => Inv'
<1> SUFFICES ASSUME TypeOK, Inv, [Next]_vars PROVE Inv'
  OBVIOUS
<1> TypeOK'
  BY NextType
<1>1. ASSUME NEW k \in DedupeKeys, Enqueue(k) PROVE Inv'
  BY <1>1, EnqueueStep
<1>2. ASSUME NEW k \in DedupeKeys, RecordCacheHit(k) PROVE Inv'
  BY <1>2, QuietStep DEF RecordCacheHit
<1>3. ASSUME NEW types \in SUBSET Types, NEW keys \in SUBSET Keys,
             CancelMatching(types, keys)
      PROVE  Inv'
  <2> DEFINE hit == {k \in types \X keys : active[k] # 0}
             W == {active[k] : k \in hit}
  <2>0. \A k \in hit : active[k] \in Born
    BY DEF Inv, ActiveIsPending, DedupeKeys
  <2>1. PICK S \in SUBSET Born : S = W
    BY <2>0
  <2>2. \A u \in S : u \in TaskIds /\ ~Settled(u) /\ rec[u] \in TaskRecord
    BY <2>1, BornTasks DEF Inv, ActiveIsPending, DedupeKeys, TypeOK
  <2> DEFINE new == [t \in TaskIds |-> IF t \in W THEN Cancelled(rec[t]) ELSE rec[t]]
  <2>3. rec' = new /\ Settle(W, new) /\ queue' = Without(queue, W)
    BY <1>3 DEF CancelMatching
  <2>4. Released(S)
    BY <2>1, <2>3, SettleReleases
  <2>5. \A u \in TaskIds : rec'[u] = IF u \in S THEN Cancelled(rec[u]) ELSE rec[u]
    BY <2>1, <2>3
  <2>6. /\ nextId' = nextId /\ running' = running /\ queue' = Without(queue, S)
        /\ sweepTimer' = NeedsSweep(queue')
    BY <1>3, <2>1, <2>3 DEF CancelMatching, RescheduleQueueWaitSweep
  <2> HIDE DEF hit, W, new
  <2>7. ASSUME NEW u \in S
        PROVE  /\ rec'[u].key = rec[u].key /\ Settled(u)'
               /\ Executing(u)' = Executing(u)
               /\ rec'[u].pc \notin {"unborn", "waiting"}
    <3>1. /\ rec'[u].key = rec[u].key /\ rec'[u].outcome = "rejected"
          /\ rec'[u].pc = CASE rec[u].pc = "waiting" -> "done"
                            [] rec[u].pc = "backoff" -> "backoffAborted"
                            [] OTHER -> rec[u].pc
      BY <2>2, <2>5 DEF Cancelled, Finish, TaskRecord, Settled
    <3>2. rec[u].pc # "unborn"
      BY <2>2 DEF Inv, PlacesFit, Born, TypeOK
    <3> QED  BY <3>1, <3>2 DEF Settled, Executing
  <2> QED  BY <2>2, <2>4, <2>5, <2>6, <2>7, WithdrawStep
<1>4. ASSUME NEW due \in SUBSET TaskIds, SweepQueuedTimeouts(due) PROVE Inv'
  <2> DEFINE new == [t \in TaskIds |->
                       IF t \in due
                         THEN [Finish(rec[t], "queue_timeout") EXCEPT !.pc = "done"]
                         ELSE rec[t]]
  <2>1. \A u \in due : u \in Born /\ ~Settled(u) /\ rec[u].pc = "waiting"
                       /\ rec[u] \in TaskRecord
    BY <1>4 DEF SweepQueuedTimeouts, Inv, NothingStranded, TypeOK
  <2>2. rec' = new /\ Settle(due, new)
    BY <1>4 DEF SweepQueuedTimeouts
  <2>3. Released(due)
    BY <2>2, SettleReleases
  <2>4. /\ nextId' = nextId /\ running' = running /\ queue' = Without(queue, due)
        /\ sweepTimer' = NeedsSweep(queue')
    BY <1>4 DEF SweepQueuedTimeouts, RescheduleQueueWaitSweep
  <2>5. \A u \in TaskIds \ due : rec'[u] = rec[u]
    BY <2>2
  <2>6. ASSUME NEW u \in due
        PROVE  /\ rec'[u].key = rec[u].key /\ Settled(u)'
               /\ Executing(u)' = Executing(u)
               /\ rec'[u].pc \notin {"unborn", "waiting"}
    <3>1. /\ rec'[u].key = rec[u].key /\ rec'[u].outcome = "rejected"
          /\ rec'[u].pc = "done"
      BY <2>1, <2>2 DEF Finish, TaskRecord, Settled
    <3> QED  BY <2>1, <3>1 DEF Settled, Executing
  <2> HIDE DEF new
  <2>7. due \in SUBSET Born
    BY <2>1
  <2> QED  BY <2>3, <2>4, <2>5, <2>6, <2>7, WithdrawStep
<1>5. ASSUME NEW t \in TaskIds, Body(t) PROVE Inv'
  <2>1. PICK place \in {"resolved", "rejected", "queueTimedOut"} : BodyEnds(t, place)
    BY <1>5 DEF Body, BodySucceeds, BodyFails, BodyQueueTimesOut
  <2>2. rec' = [rec EXCEPT ![t] = BodyOver(rec[t], place)]
    BY <2>1 DEF BodyEnds
  <2>3. /\ rec'[t].key = rec[t].key /\ rec'[t].outcome = rec[t].outcome
        /\ rec'[t].pc = IF rec[t].pc = "running" THEN place ELSE rec[t].pc
    BY <2>2 DEF BodyOver, TypeOK, TaskRecord
  <2>4. \A u \in TaskIds : u # t => rec'[u] = rec[u]
    BY <2>2 DEF TypeOK
  <2>5. "running" \in Driven /\ place \in Driven
    BY <2>1 DEF Driven, Places
  <2> QED  BY <2>1, <2>3, <2>4, <2>5, QuietStep DEF BodyEnds
<1>6. ASSUME NEW t \in TaskIds, ReportProgress(t) PROVE Inv'
  BY <1>6, QuietStep DEF ReportProgress
<1>7. ASSUME NEW t \in TaskIds, TimeoutFires(t) PROVE Inv'
  <2>1. /\ rec'[t].key = rec[t].key /\ rec'[t].outcome = rec[t].outcome
        /\ rec[t].pc = "running" /\ rec'[t].pc = "timedOut"
        /\ \A u \in TaskIds : u # t => rec'[u] = rec[u]
    BY <1>7 DEF TimeoutFires, TimedOut, TypeOK, TaskRecord
  <2> QED  BY <1>7, <2>1, QuietStep DEF TimeoutFires, Driven, Places
<1>8. ASSUME NEW t \in TaskIds, BackoffElapses(t) PROVE Inv'
  <2>1. /\ rec'[t].key = rec[t].key /\ rec'[t].outcome = rec[t].outcome
        /\ rec[t].pc = "backoff" /\ rec'[t].pc = "backoffOver"
        /\ \A u \in TaskIds : u # t => rec'[u] = rec[u]
    BY <1>8 DEF BackoffElapses, TypeOK, TaskRecord
  <2> QED  BY <1>8, <2>1, QuietStep DEF BackoffElapses, Driven, Places
<1>9. ASSUME NEW t \in TaskIds, ResumeResolved(t) PROVE Inv'
  <2> DEFINE r == Finish(rec[t], "succeeded")
  <2>1. r \in TaskRecord /\ r.key = rec[t].key /\ r.outcome # "pending"
    <3>1. rec[t] \in TaskRecord /\ "succeeded" \in Verdicts
      BY DEF TypeOK, Verdicts
    <3> QED  BY <3>1, FinishType, FinishDecides
  <2>2. /\ Executing(t) /\ Settle({t}, [rec EXCEPT ![t] = r])
        /\ Exit(t, r, sweepTimer) /\ nextId' = nextId
    BY <1>9 DEF ResumeResolved, Executing
  <2>3. NeedsSweep(queue) => sweepTimer = TRUE
    BY DEF Inv, SweepArmed, TypeOK
  <2>4. Released({t})
    BY <2>2, SettleReleases
  <2> HIDE DEF r
  <2> QED  BY <2>1, <2>2, <2>3, <2>4, ExitStep
<1>10. ASSUME NEW t \in TaskIds, ResumeRejected(t) PROVE Inv'
  <2> DEFINE r == IF Settled(t) THEN rec[t] ELSE Finish(rec[t], VerdictOf(rec[t]))
             armed == IF ~Settled(t) /\ rec[t].pc = "queueTimedOut"
                        THEN NeedsSweep(queue) ELSE sweepTimer
  <2>1. r \in TaskRecord /\ r.key = rec[t].key /\ r.outcome # "pending"
    <3>1. rec[t] \in TaskRecord /\ VerdictOf(rec[t]) \in Verdicts
      BY VerdictType DEF TypeOK
    <3>2. Finish(rec[t], VerdictOf(rec[t])) \in TaskRecord
      BY <3>1, FinishType
    <3>3. /\ Finish(rec[t], VerdictOf(rec[t])).key = rec[t].key
          /\ Finish(rec[t], VerdictOf(rec[t])).outcome # "pending"
      BY <3>1, FinishDecides
    <3> QED  BY <3>1, <3>2, <3>3 DEF Settled
  <2>2. /\ Executing(t) /\ Settle({t}, [rec EXCEPT ![t] = r])
        /\ Exit(t, r, armed) /\ nextId' = nextId
    BY <1>10 DEF ResumeRejected, Executing
  <2>3. NeedsSweep(queue) => armed = TRUE
    BY DEF Inv, SweepArmed, TypeOK, NeedsSweep
  <2>4. Released({t})
    BY <2>2, SettleReleases
  <2> HIDE DEF r, armed
  <2> QED  BY <2>1, <2>2, <2>3, <2>4, ExitStep
<1>11. ASSUME NEW t \in TaskIds, RetryLater(t) PROVE Inv'
  <2>1. /\ rec'[t].key = rec[t].key /\ rec'[t].outcome = rec[t].outcome
        /\ rec[t].pc = "rejected" /\ rec'[t].pc \in {"backoff", "backoffOver"}
        /\ \A u \in TaskIds : u # t => rec'[u] = rec[u]
    BY <1>11 DEF RetryLater, Retries, TypeOK, TaskRecord
  <2> QED  BY <1>11, <2>1, QuietStep DEF RetryLater, Driven, Places
<1>12. ASSUME NEW t \in TaskIds, NextAttempt(t) PROVE Inv'
  <2>1. /\ rec'[t].key = rec[t].key /\ rec'[t].outcome = rec[t].outcome
        /\ rec[t].pc = "backoffOver" /\ rec'[t].pc = "running"
        /\ \A u \in TaskIds : u # t => rec'[u] = rec[u]
    BY <1>12 DEF NextAttempt, TryAgain, TypeOK, TaskRecord
  <2> QED  BY <1>12, <2>1, QuietStep DEF NextAttempt, Driven, Places
<1>13. ASSUME NEW t \in TaskIds, LeaveLoop(t) \/ ResumeAbortedBackoff(t) PROVE Inv'
  <2>1. /\ Executing(t) /\ Settled(t) /\ active' = active
        /\ Exit(t, rec[t], sweepTimer) /\ nextId' = nextId
    BY <1>13 DEF LeaveLoop, ResumeAbortedBackoff, Executing, Inv, PlacesFit
  <2>2. NeedsSweep(queue) => sweepTimer = TRUE
    BY DEF Inv, SweepArmed, TypeOK
  <2>3. Released({t})
    BY <2>1 DEF Released, TypeOK
  <2>4. rec[t] \in TaskRecord /\ rec[t].outcome # "pending"
    BY <2>1 DEF Settled, TypeOK
  <2> QED  BY <2>1, <2>2, <2>3, <2>4, ExitStep
<1>14. CASE UNCHANGED vars
  BY <1>14, QuietStep DEF vars
<1> QED  BY <1>1, <1>2, <1>3, <1>4, <1>5, <1>6, <1>7, <1>8, <1>9, <1>10, <1>11,
            <1>12, <1>13, <1>14 DEF Next, Sweep, Resume

LEMMA InvCorrect == Spec => [](TypeOK /\ Inv)
<1>1. Init => TypeOK /\ Inv
  BY InitType, InitInv
<1>2. TypeOK /\ Inv /\ [Next]_vars => (TypeOK /\ Inv)'
  BY NextType, NextInv
<1> QED  BY <1>1, <1>2, PTL DEF Spec

(* activeTasks always holds exactly the records whose promise is pending:   *)
(* a deduplicated call of enqueue never shares a decided promise.           *)
THEOREM ActiveExact == Spec => []ActiveIsPending
<1>1. TypeOK /\ Inv => ActiveIsPending
  BY DEF Inv
<1> QED  BY <1>1, InvCorrect, PTL

(* Every pending record is inside executeRecord or in its queue: cancel,    *)
(* the sweep and startNext strand none.                                     *)
THEOREM NoneStranded == Spec => []NothingStranded
<1>1. TypeOK /\ Inv => NothingStranded
  BY DEF Inv
<1> QED  BY <1>1, InvCorrect, PTL

(* The running counter counts the records inside executeRecord and stays    *)
(* within the limit of every type.                                          *)
THEOREM SlotsExact == Spec => []SlotAccounting
<1>1. TypeOK /\ Inv => SlotAccounting
  BY DEF Inv
<1> QED  BY <1>1, InvCorrect, PTL

(* No record waits while its type has a free slot.                          *)
THEOREM NoLostWakeup == Spec => []WorkConserving
<1>1. TypeOK /\ Inv => WorkConserving
  BY DEF Inv
<1> QED  BY <1>1, InvCorrect, PTL

(* The sweep timer is armed while a record with a queue-wait limit waits.   *)
THEOREM SweepCovers == Spec => []SweepArmed
<1>1. TypeOK /\ Inv => SweepArmed
  BY DEF Inv
<1> QED  BY <1>1, InvCorrect, PTL

-----------------------------------------------------------------------------
(* What happens to one record.                                              *)

(* Everything a step may make of an existing record r.                      *)
Moves(r, s) ==
  \/ s = r
  \/ r.pc = "waiting" /\ r.outcome = "pending" /\ s = Begin(r)
  \/ \E place \in {"resolved", "rejected", "queueTimedOut"} :
       r.body /\ s = BodyOver(r, place)
  \/ r.pc = "running" /\ s = TimedOut(r)
  \/ /\ r.pc = "rejected" /\ r.outcome = "pending"
     /\ HasBackoff[r.key[1]] /\ r.attempt < AttemptLimit(r.key[1])
     /\ s = [r EXCEPT !.pc = "backoff"]
  \/ r.pc \in {"rejected", "backoff"} /\ s = [r EXCEPT !.pc = "backoffOver"]
  \/ r.pc = "backoffOver" /\ r.outcome = "pending" /\ s = TryAgain(r)
  \/ r.pc # "unborn" /\ r.outcome = "pending" /\ s = Cancelled(r)
  \/ /\ r.pc # "unborn" /\ r.outcome = "pending"
     /\ \E verdict \in Verdicts \ {"succeeded"} :
          s = [Finish(r, verdict) EXCEPT !.pc = "done"]
  \/ r.pc = "resolved" /\ s = [Finish(r, "succeeded") EXCEPT !.pc = "done"]
  \/ r.pc # "unborn" /\ r.outcome # "pending" /\ s = [r EXCEPT !.pc = "done"]

Agrees(r) ==
  r.outcome = IF r.status = "succeeded" THEN "resolved" ELSE "rejected"

(* Status against promise, and what an aborted retry delay has behind it.   *)
(* A record that resolved after its cancel disagrees, but its body is over  *)
(* and publishes no more.                                                   *)
Fits(r) ==
  /\ r.outcome = "pending" <=> r.status \notin Verdicts
  /\ r.body /\ r.status \in Verdicts => Agrees(r)
  /\ r.pc = "resolved" => ~r.body
  /\ r.pc \in {"backoff", "backoffAborted"} =>
       HasBackoff[r.key[1]] /\ r.attempt < AttemptLimit(r.key[1])
  /\ r.pc = "backoffAborted" => "cancelled" \in r.reported

LEMMA MoveKeepsKey ==
  ASSUME NEW r \in TaskRecord, NEW s, Moves(r, s)
  PROVE  s.key = r.key /\ (r.outcome # "pending" => s.outcome = r.outcome)
BY DEF Moves, Begin, BodyOver, TimedOut, TryAgain, Cancelled, Finish, TaskRecord

LEMMA MoveFits ==
  ASSUME NEW r \in TaskRecord, NEW s, Moves(r, s), Fits(r)
  PROVE  Fits(s)
<1>1. CASE s = r
  BY <1>1
<1>2. CASE r.pc = "waiting" /\ r.outcome = "pending" /\ s = Begin(r)
  BY <1>2 DEF Begin, Fits, Agrees, TaskRecord, Verdicts
<1>3. ASSUME NEW place \in {"resolved", "rejected", "queueTimedOut"},
             r.body, s = BodyOver(r, place)
      PROVE  Fits(s)
  BY <1>3 DEF BodyOver, Fits, Agrees, TaskRecord
<1>4. CASE r.pc = "running" /\ s = TimedOut(r)
  BY <1>4 DEF TimedOut, Fits, Agrees, TaskRecord
<1>5. CASE /\ r.pc = "rejected" /\ r.outcome = "pending"
           /\ HasBackoff[r.key[1]] /\ r.attempt < AttemptLimit(r.key[1])
           /\ s = [r EXCEPT !.pc = "backoff"]
  BY <1>5 DEF Fits, Agrees, TaskRecord
<1>6. CASE r.pc \in {"rejected", "backoff"} /\ s = [r EXCEPT !.pc = "backoffOver"]
  BY <1>6 DEF Fits, Agrees, TaskRecord
<1>7. CASE r.pc = "backoffOver" /\ r.outcome = "pending" /\ s = TryAgain(r)
  BY <1>7 DEF TryAgain, Fits, Agrees, TaskRecord
<1>8. CASE r.pc # "unborn" /\ r.outcome = "pending" /\ s = Cancelled(r)
  <2>1. /\ s.outcome = "rejected" /\ s.status = "cancelled" /\ s.key = r.key
        /\ s.body = r.body /\ s.attempt = r.attempt /\ "cancelled" \in s.reported
        /\ s.pc = CASE r.pc = "waiting" -> "done"
                    [] r.pc = "backoff" -> "backoffAborted"
                    [] OTHER -> r.pc
    BY <1>8 DEF Cancelled, Finish, TaskRecord
  <2> QED  BY <2>1 DEF Fits, Agrees, Verdicts
<1>9. ASSUME r.outcome = "pending", NEW verdict \in Verdicts \ {"succeeded"},
             s = [Finish(r, verdict) EXCEPT !.pc = "done"]
      PROVE  Fits(s)
  <2>1. s.outcome = "rejected" /\ s.status = verdict /\ s.pc = "done"
    BY <1>9 DEF Finish, TaskRecord
  <2> QED  BY <2>1 DEF Fits, Agrees
<1>10. CASE r.pc = "resolved" /\ s = [Finish(r, "succeeded") EXCEPT !.pc = "done"]
  <2>1. /\ s.outcome # "pending" /\ s.status = "succeeded" /\ s.pc = "done"
        /\ s.body = r.body
    BY <1>10 DEF Finish, TaskRecord
  <2> QED  BY <2>1, <1>10 DEF Fits, Verdicts
<1>11. CASE r.outcome # "pending" /\ s = [r EXCEPT !.pc = "done"]
  BY <1>11 DEF Fits, Agrees, TaskRecord
<1> QED  BY <1>1, <1>2, <1>3, <1>4, <1>5, <1>6, <1>7, <1>8, <1>9, <1>10, <1>11
         DEF Moves

-----------------------------------------------------------------------------
(* What a step other than enqueue does.                                     *)

(* Promises: none, one or several are decided.                              *)
Undecided == \A u \in TaskIds : rec'[u].outcome = rec[u].outcome

ResolvesOne ==
  \E t \in Born :
    /\ ~Settled(t) /\ rec'[t].outcome = "resolved"
    /\ \A u \in TaskIds \ {t} : rec'[u].outcome = rec[u].outcome

RejectsSome ==
  \E S \in SUBSET Born :
    /\ S # {} /\ \A t \in S : ~Settled(t) /\ rec'[t].outcome = "rejected"
    /\ \A u \in TaskIds \ S : rec'[u].outcome = rec[u].outcome

(* The snapshot of a key stays, or becomes that of a record which agrees.   *)
Publishes(k) ==
  \/ latest'[k] = latest[k]
  \/ \E t \in TaskIds : /\ latest'[k].task = t
                        /\ latest'[k].status \in Verdicts => Agrees(rec'[t])
                        /\ latest'[k].status = rec'[t].status

(* A record that starts leaves no older one behind in its queue.            *)
StartsInOrder ==
  \A t, u \in TaskIds :
    rec[t].pc = "waiting" /\ rec'[t].pc = "running"
      /\ u < t /\ u \in queue[TypeOf(t)]
      => u \notin queue'[TypeOf(t)]

StepFacts ==
  /\ nextId' = nextId
  /\ \A u \in TaskIds : Moves(rec[u], rec'[u])
  /\ Undecided \/ ResolvesOne \/ RejectsSome
  /\ \A k \in DedupeKeys : Publishes(k)
  /\ StartsInOrder

(* A step of one record that is not the end of executeRecord.               *)
LEMMA InnerStep ==
  ASSUME TypeOK, NEW t \in TaskIds, NEW r,
         Moves(rec[t], r), r.outcome = rec[t].outcome,
         rec[t].pc # "waiting",
         rec' = [rec EXCEPT ![t] = r], UNCHANGED <<nextId, latest, queue>>
  PROVE  StepFacts
<1>1. rec'[t] = r /\ \A u \in TaskIds \ {t} : rec'[u] = rec[u]
  BY DEF TypeOK
<1>2. \A u \in TaskIds : Moves(rec[u], rec'[u])
  BY <1>1 DEF Moves
<1>3. Undecided
  BY <1>1 DEF Undecided
<1>4. StartsInOrder
  BY <1>1 DEF StartsInOrder
<1> QED  BY <1>2, <1>3, <1>4 DEF StepFacts, Publishes

(* A step that only publishes a snapshot.                                   *)
LEMMA PublishStep ==
  ASSUME TypeOK, NEW t \in TaskIds, rec[t].status \in Verdicts => Agrees(rec[t]),
         latest' = [latest EXCEPT ![rec[t].key] = Snapshot(t, rec[t])],
         UNCHANGED <<nextId, rec, queue>>
  PROVE  StepFacts
<1>1. \A u \in TaskIds : Moves(rec[u], rec'[u])
  BY DEF Moves
<1>2. ASSUME NEW k \in DedupeKeys PROVE Publishes(k)
  <2>1. CASE k = rec[t].key
    <3>1. latest'[k] = Snapshot(t, rec[t])
      BY <2>1 DEF TypeOK
    <3> QED  BY <3>1 DEF Publishes, Snapshot
  <2>2. CASE k # rec[t].key
    BY <2>2 DEF Publishes, TypeOK
  <2> QED  BY <2>1, <2>2
<1>3. StartsInOrder
  BY DEF StartsInOrder
<1> QED  BY <1>1, <1>2, <1>3 DEF StepFacts, Undecided

(* settle publishes the snapshots of the records it settles.                *)
LEMMA SettlePublishes ==
  ASSUME TypeOK, NEW S \in SUBSET TaskIds, NEW new, Settle(S, new),
         \A t \in S : ~Settled(t) =>
           new[t].status = rec'[t].status /\ Agrees(rec'[t])
  PROVE  \A k \in DedupeKeys : Publishes(k)
<1> SUFFICES ASSUME NEW k \in DedupeKeys PROVE Publishes(k)
  OBVIOUS
<1> DEFINE Of == {t \in {u \in S : ~Settled(u)} : rec[t].key = k}
           t == CHOOSE u \in Of : TRUE
<1>1. latest'[k] = IF Of # {} THEN Snapshot(t, new[t]) ELSE latest[k]
  BY DEF Settle
<1>2. CASE Of = {}
  BY <1>1, <1>2 DEF Publishes
<1>3. CASE Of # {}
  <2>1. t \in Of
    BY <1>3
  <2>2. t \in S /\ ~Settled(t)
    BY <2>1
  <2>3. latest'[k].task = t /\ latest'[k].status = rec'[t].status
    BY <1>1, <1>3, <2>2 DEF Snapshot
  <2> HIDE DEF t, Of
  <2> QED  BY <2>2, <2>3 DEF Publishes
<1> QED  BY <1>2, <1>3

(* The finally block: the record is done, and of the waiting ones it may    *)
(* start the oldest of the type.                                            *)
LEMMA ExitMoves ==
  ASSUME TypeOK, Inv, NEW t \in TaskIds, Executing(t),
         NEW r, NEW armed, Exit(t, r, armed), Moves(rec[t], Done(r))
  PROVE  /\ rec'[t] = Done(r)
         /\ \A u \in TaskIds : Moves(rec[u], rec'[u])
         /\ \A u \in TaskIds \ {t} : rec'[u].outcome = rec[u].outcome
         /\ StartsInOrder
<1> DEFINE ty == TypeOf(t)
           d == Done(r)
<1>1. ty \in Types
  BY KeyHasType
<1>2. rec[t].pc # "waiting"
  BY DEF Executing
<1>3. SlotReturned(t, ty, d, armed) \/ SlotPassedOn(t, ty, d)
  BY ExitShape
<1> HIDE DEF ty, d
<1>4. CASE SlotReturned(t, ty, d, armed)
  <2>1. rec' = [rec EXCEPT ![t] = d]
    BY <1>4 DEF SlotReturned
  <2>2. rec'[t] = d /\ \A u \in TaskIds \ {t} : rec'[u] = rec[u]
    BY <2>1 DEF TypeOK
  <2>3. \A u \in TaskIds : Moves(rec[u], rec'[u])
    BY <2>2 DEF Moves, d
  <2>4. StartsInOrder
    BY <1>2, <2>2 DEF StartsInOrder
  <2> QED  BY <2>2, <2>3, <2>4 DEF d
<1>5. CASE SlotPassedOn(t, ty, d)
  <2>1. PICK w \in queue[ty] :
          /\ \A v \in queue[ty] : w <= v
          /\ w # t
          /\ rec' = [rec EXCEPT ![t] = d, ![w] = Begin(rec[w])]
    BY <1>5 DEF SlotPassedOn
  <2>2. /\ w \in TaskIds /\ rec[w].pc = "waiting" /\ ~Settled(w)
        /\ TypeOf(w) = ty /\ queue[ty] \in SUBSET TaskIds
    BY <1>1 DEF Inv, NothingStranded, TypeOK
  <2>3. /\ rec'[t] = d /\ rec'[w] = Begin(rec[w])
        /\ \A u \in TaskIds \ {t, w} : rec'[u] = rec[u]
    BY <2>1, <2>2 DEF TypeOK
  <2>4. Moves(rec[w], Begin(rec[w]))
    BY <2>2 DEF Moves, Settled
  <2>5. Begin(rec[w]).outcome = rec[w].outcome
    BY <2>2 DEF Begin, TypeOK, TaskRecord
  <2>6. \A u \in TaskIds : Moves(rec[u], rec'[u])
    <3>1. \A u \in TaskIds \ {t, w} : Moves(rec[u], rec'[u])
      BY <2>3 DEF Moves
    <3> QED  BY <2>3, <2>4, <3>1 DEF d
  <2>7. StartsInOrder
    <3> SUFFICES ASSUME NEW v \in TaskIds, NEW u \in TaskIds,
                        rec[v].pc = "waiting", rec'[v].pc = "running",
                        u < v, u \in queue[TypeOf(v)]
                 PROVE  FALSE
      BY DEF StartsInOrder
    <3>1. v = w
      BY <1>2, <2>3
    <3>2. w <= u
      BY <2>1, <2>2, <3>1
    <3> QED  BY <3>1, <3>2 DEF TaskIds
  <2> QED  BY <2>3, <2>5, <2>6, <2>7 DEF d
<1> QED  BY <1>3, <1>4, <1>5

(* Every step but those of enqueue.                                         *)
LEMMA ExistingStep ==
  ASSUME TypeOK, Inv, \A u \in TaskIds : Fits(rec[u]),
         Next, \A k \in DedupeKeys : ~Enqueue(k)
  PROVE  StepFacts
<1>0. \A u \in TaskIds : rec[u] \in TaskRecord /\ u \in 1..MaxTasks
  BY DEF TypeOK, TaskIds
<1>a. \A u \in TaskIds : rec[u].pc # "unborn" <=> u \in Born
  BY DEF Inv, PlacesFit, Born, TypeOK, TaskIds
<1>1. ASSUME NEW k \in DedupeKeys, RecordCacheHit(k) PROVE StepFacts
  <2>1. /\ active[k] \in TaskIds /\ ~Settled(active[k]) /\ rec[active[k]].key = k
    BY <1>1, BornTasks DEF RecordCacheHit, Inv, ActiveIsPending
  <2>2. rec[active[k]].status \notin Verdicts
    BY <2>1 DEF Fits, Settled
  <2> QED  BY <1>1, <2>1, <2>2, PublishStep DEF RecordCacheHit
<1>2. ASSUME NEW t \in TaskIds, ReportProgress(t) PROVE StepFacts
  BY <1>2, PublishStep DEF ReportProgress, Fits
<1>3. ASSUME NEW types \in SUBSET Types, NEW keys \in SUBSET Keys,
             CancelMatching(types, keys)
      PROVE  StepFacts
  <2> DEFINE hit == {k \in types \X keys : active[k] # 0}
             W == {active[k] : k \in hit}
             new == [t \in TaskIds |-> IF t \in W THEN Cancelled(rec[t]) ELSE rec[t]]
  <2>1. /\ \A k \in hit : active[k] \in Born /\ ~Settled(active[k])
        /\ hit # {}
    BY <1>3 DEF Inv, ActiveIsPending, DedupeKeys, CancelMatching
  <2>2. PICK S \in SUBSET Born : S = W
    BY <2>1
  <2>3. /\ rec' = new /\ Settle(W, new) /\ nextId' = nextId
    BY <1>3 DEF CancelMatching
  <2>4. S # {} /\ \A u \in S : u \in TaskIds /\ ~Settled(u) /\ rec[u].pc # "unborn"
    BY <2>1, <2>2, <1>a, BornTasks
  <2>5. /\ \A u \in S : rec'[u] = Cancelled(rec[u]) /\ new[u] = rec'[u]
        /\ \A u \in TaskIds \ S : rec'[u] = rec[u]
    BY <2>2, <2>3, <2>4
  <2>6. Settle(S, new)
    BY <2>2, <2>3
  <2> HIDE DEF hit, W, new
  <2>7. \A u \in S : rec'[u].outcome = "rejected" /\ rec'[u].status = "cancelled"
    <3>1. \A r \in TaskRecord : r.outcome = "pending" =>
            Cancelled(r).outcome = "rejected" /\ Cancelled(r).status = "cancelled"
      BY DEF Cancelled, Finish, TaskRecord
    <3> QED  BY <2>4, <2>5, <3>1, <1>0 DEF Settled
  <2>8. \A u \in TaskIds : Moves(rec[u], rec'[u])
    BY <2>4, <2>5 DEF Moves, Settled
  <2>9. RejectsSome
    BY <2>4, <2>5, <2>7 DEF RejectsSome
  <2>10. \A k \in DedupeKeys : Publishes(k)
    <3>1. S \in SUBSET TaskIds
      BY <2>4
    <3> QED  BY <2>5, <2>6, <2>7, <3>1, SettlePublishes DEF Agrees
  <2>11. StartsInOrder
    <3>1. \A r \in TaskRecord : r.pc = "waiting" => Cancelled(r).pc # "running"
      BY DEF Cancelled, Finish, TaskRecord
    <3> QED  BY <2>5, <3>1, <1>0 DEF StartsInOrder
  <2> QED  BY <2>3, <2>8, <2>9, <2>10, <2>11 DEF StepFacts
<1>4. ASSUME NEW due \in SUBSET TaskIds, SweepQueuedTimeouts(due) PROVE StepFacts
  <2> DEFINE Out(r) == [Finish(r, "queue_timeout") EXCEPT !.pc = "done"]
             new == [t \in TaskIds |-> IF t \in due THEN Out(rec[t]) ELSE rec[t]]
  <2>1. \A u \in due : u \in Born /\ ~Settled(u) /\ rec[u].pc = "waiting"
    BY <1>4 DEF SweepQueuedTimeouts, Inv, NothingStranded
  <2>2. rec' = new /\ Settle(due, new) /\ nextId' = nextId /\ due # {}
    BY <1>4 DEF SweepQueuedTimeouts
  <2>3. /\ \A u \in due : rec'[u] = Out(rec[u]) /\ new[u] = rec'[u]
        /\ \A u \in TaskIds \ due : rec'[u] = rec[u]
    BY <2>2
  <2> HIDE DEF new
  <2>4. \A u \in due : /\ rec'[u].outcome = "rejected"
                       /\ rec'[u].status = "queue_timeout" /\ rec'[u].pc = "done"
    <3>1. \A r \in TaskRecord : r.outcome = "pending" =>
            /\ Out(r).outcome = "rejected" /\ Out(r).status = "queue_timeout"
            /\ Out(r).pc = "done"
      BY DEF Finish, TaskRecord
    <3> HIDE DEF Out
    <3> QED  BY <2>1, <2>3, <3>1, <1>0 DEF Settled
  <2>5. \A u \in TaskIds : Moves(rec[u], rec'[u])
    <3>1. \A u \in due : Moves(rec[u], rec'[u])
      BY <2>1, <2>3 DEF Moves, Settled, Verdicts
    <3>2. \A u \in TaskIds \ due : Moves(rec[u], rec'[u])
      BY <2>3 DEF Moves
    <3> QED  BY <3>1, <3>2
  <2>6. RejectsSome
    BY <2>1, <2>2, <2>3, <2>4 DEF RejectsSome
  <2>7. \A k \in DedupeKeys : Publishes(k)
    BY <2>2, <2>3, <2>4, SettlePublishes DEF Agrees
  <2>8. StartsInOrder
    BY <2>3, <2>4 DEF StartsInOrder
  <2> QED  BY <2>2, <2>5, <2>6, <2>7, <2>8 DEF StepFacts
<1>5. ASSUME NEW t \in TaskIds, Body(t) PROVE StepFacts
  <2>1. PICK place \in {"resolved", "rejected", "queueTimedOut"} : BodyEnds(t, place)
    BY <1>5 DEF Body, BodySucceeds, BodyFails, BodyQueueTimesOut
  <2> DEFINE r == BodyOver(rec[t], place)
  <2>2. Moves(rec[t], r)
    BY <2>1 DEF BodyEnds, Moves
  <2>3. r.outcome = rec[t].outcome
    BY <1>0 DEF BodyOver, TaskRecord
  <2>4. rec' = [rec EXCEPT ![t] = r] /\ UNCHANGED <<nextId, latest, queue>>
    BY <2>1 DEF BodyEnds
  <2>5. CASE rec[t].pc # "waiting"
    BY <2>2, <2>3, <2>4, <2>5, InnerStep
  <2>6. CASE rec[t].pc = "waiting"
    <3>1. r.pc = "waiting"
      BY <2>6, <1>0 DEF BodyOver, TaskRecord
    <3>2. rec'[t] = r /\ \A u \in TaskIds \ {t} : rec'[u] = rec[u]
      BY <2>4 DEF TypeOK
    <3> HIDE DEF r
    <3>3. \A u \in TaskIds : Moves(rec[u], rec'[u])
      BY <2>2, <3>2 DEF Moves
    <3> QED  BY <2>3, <2>4, <3>1, <3>2, <3>3
             DEF StepFacts, Undecided, Publishes, StartsInOrder
  <2> QED  BY <2>5, <2>6
<1>6. ASSUME NEW t \in TaskIds, TimeoutFires(t) PROVE StepFacts
  <2>1. Moves(rec[t], TimedOut(rec[t])) /\ TimedOut(rec[t]).outcome = rec[t].outcome
    BY <1>6, <1>0 DEF TimeoutFires, Moves, TimedOut, TaskRecord
  <2> QED  BY <1>6, <2>1, InnerStep DEF TimeoutFires
<1>7. ASSUME NEW t \in TaskIds, BackoffElapses(t) PROVE StepFacts
  <2> DEFINE r == [rec[t] EXCEPT !.pc = "backoffOver"]
  <2>1. Moves(rec[t], r) /\ r.outcome = rec[t].outcome
    BY <1>7, <1>0 DEF BackoffElapses, Moves, TaskRecord
  <2>2. rec' = [rec EXCEPT ![t] = r]
    BY <1>7 DEF BackoffElapses
  <2> QED  BY <1>7, <2>1, <2>2, InnerStep DEF BackoffElapses
<1>8. ASSUME NEW t \in TaskIds, RetryLater(t) PROVE StepFacts
  <2> DEFINE place == IF HasBackoff[TypeOf(t)] THEN "backoff" ELSE "backoffOver"
             r == [rec[t] EXCEPT !.pc = place]
  <2>1. /\ rec[t].pc = "rejected" /\ rec[t].outcome = "pending"
        /\ rec[t].attempt < AttemptLimit(rec[t].key[1])
    BY <1>8 DEF RetryLater, Retries, Settled, TypeOf
  <2>2. Moves(rec[t], r)
    BY <2>1 DEF Moves, TypeOf
  <2>3. r.outcome = rec[t].outcome
    BY <1>0 DEF TaskRecord
  <2>4. rec' = [rec EXCEPT ![t] = r]
    BY <1>8 DEF RetryLater
  <2> QED  BY <1>8, <2>1, <2>2, <2>3, <2>4, InnerStep DEF RetryLater
<1>9. ASSUME NEW t \in TaskIds, NextAttempt(t) PROVE StepFacts
  <2>1. Moves(rec[t], TryAgain(rec[t])) /\ TryAgain(rec[t]).outcome = rec[t].outcome
    BY <1>9, <1>0 DEF NextAttempt, Moves, TryAgain, TaskRecord, Settled
  <2> QED  BY <1>9, <2>1, InnerStep DEF NextAttempt
<1>10. ASSUME NEW t \in TaskIds, ResumeResolved(t) PROVE StepFacts
  <2> DEFINE r == Finish(rec[t], "succeeded")
             new == [rec EXCEPT ![t] = r]
  <2>1. /\ rec[t].pc = "resolved" /\ Settle({t}, new) /\ Exit(t, r, sweepTimer)
        /\ nextId' = nextId
    BY <1>10 DEF ResumeResolved
  <2>2. Executing(t) /\ t \in Born
    BY <2>1, <1>a DEF Executing
  <2>3. Moves(rec[t], Done(r))
    BY <2>1 DEF Moves, Done
  <2>4. /\ rec'[t] = Done(r)
        /\ \A u \in TaskIds : Moves(rec[u], rec'[u])
        /\ \A u \in TaskIds \ {t} : rec'[u].outcome = rec[u].outcome
        /\ StartsInOrder
    BY <2>1, <2>2, <2>3, ExitMoves
  <2>5. /\ r.status = "succeeded" /\ Done(r).status = r.status
        /\ Done(r).outcome = r.outcome
        /\ r.outcome = IF Settled(t) THEN rec[t].outcome ELSE "resolved"
    BY <1>0 DEF Done, Finish, TaskRecord, Settled
  <2>6. new[t] = r
    BY DEF TypeOK
  <2> HIDE DEF r, new
  <2>7. \A k \in DedupeKeys : Publishes(k)
    BY <2>1, <2>4, <2>5, <2>6, SettlePublishes DEF Agrees
  <2>8. Undecided \/ ResolvesOne
    BY <2>2, <2>4, <2>5 DEF Undecided, ResolvesOne
  <2> QED  BY <2>1, <2>4, <2>7, <2>8 DEF StepFacts
<1>11. ASSUME NEW t \in TaskIds, ResumeRejected(t) PROVE StepFacts
  <2> DEFINE v == VerdictOf(rec[t])
             r == IF Settled(t) THEN rec[t] ELSE Finish(rec[t], v)
             new == [rec EXCEPT ![t] = r]
             armed == IF ~Settled(t) /\ rec[t].pc = "queueTimedOut"
                        THEN NeedsSweep(queue) ELSE sweepTimer
  <2>1. /\ rec[t].pc \in {"rejected", "timedOut", "queueTimedOut"}
        /\ Settle({t}, new) /\ Exit(t, r, armed) /\ nextId' = nextId
    BY <1>11 DEF ResumeRejected
  <2>2. Executing(t) /\ t \in Born
    BY <2>1, <1>a DEF Executing
  <2>3. v \in Verdicts \ {"succeeded"}
    BY DEF VerdictOf, Verdicts
  <2> HIDE DEF v
  <2>4. Moves(rec[t], Done(r))
    <3>1. CASE Settled(t)
      BY <2>1, <3>1 DEF Moves, Done, Settled
    <3>2. CASE ~Settled(t)
      BY <2>1, <2>3, <3>2 DEF Moves, Done, Settled
    <3> QED  BY <3>1, <3>2
  <2>5. ~Settled(t) => r.outcome = "rejected" /\ r.status = v
    BY <1>0, <2>3 DEF Finish, TaskRecord, Settled
  <2>6. Done(r).status = r.status /\ Done(r).outcome = r.outcome
        /\ (Settled(t) => r.outcome = rec[t].outcome)
    <3>1. r \in TaskRecord
      BY <1>0, <2>3, FinishType
    <3> QED  BY <3>1 DEF Done, TaskRecord
  <2>7. new[t] = r
    BY DEF TypeOK
  <2> HIDE DEF r, new, armed
  <2>8. /\ rec'[t] = Done(r)
        /\ \A u \in TaskIds : Moves(rec[u], rec'[u])
        /\ \A u \in TaskIds \ {t} : rec'[u].outcome = rec[u].outcome
        /\ StartsInOrder
    BY <2>1, <2>2, <2>4, ExitMoves
  <2>9. \A k \in DedupeKeys : Publishes(k)
    BY <2>1, <2>3, <2>5, <2>6, <2>7, <2>8, SettlePublishes DEF Agrees
  <2>10. Undecided \/ RejectsSome
    <3>1. CASE Settled(t)
      BY <2>6, <2>8, <3>1 DEF Undecided
    <3>2. CASE ~Settled(t)
      <4>1. {t} \in SUBSET Born /\ {t} # {}
        BY <2>2
      <4> QED  BY <2>5, <2>6, <2>8, <3>2, <4>1 DEF RejectsSome
    <3> QED  BY <3>1, <3>2
  <2> QED  BY <2>1, <2>8, <2>9, <2>10 DEF StepFacts
<1>12. ASSUME NEW t \in TaskIds, LeaveLoop(t) \/ ResumeAbortedBackoff(t)
       PROVE  StepFacts
  <2>1. /\ rec[t].pc \in {"backoffOver", "backoffAborted"} /\ Settled(t)
        /\ Exit(t, rec[t], sweepTimer) /\ UNCHANGED <<nextId, latest>>
    BY <1>12 DEF LeaveLoop, ResumeAbortedBackoff, Inv, PlacesFit
  <2>2. Executing(t)
    BY <2>1 DEF Executing
  <2>3. Moves(rec[t], Done(rec[t])) /\ Done(rec[t]).outcome = rec[t].outcome
    BY <2>1, <1>0 DEF Moves, Done, Settled, TaskRecord
  <2>4. /\ rec'[t] = Done(rec[t])
        /\ \A u \in TaskIds : Moves(rec[u], rec'[u])
        /\ \A u \in TaskIds \ {t} : rec'[u].outcome = rec[u].outcome
        /\ StartsInOrder
    BY <2>1, <2>2, <2>3, ExitMoves
  <2> QED  BY <2>1, <2>3, <2>4 DEF StepFacts, Undecided, Publishes
<1> QED  BY <1>1, <1>2, <1>3, <1>4, <1>5, <1>6, <1>7, <1>8, <1>9, <1>10, <1>11,
            <1>12 DEF Next, Sweep, Resume

-----------------------------------------------------------------------------
(* enqueue.                                                                 *)

(* The new record takes a free slot, which no queue was waiting for, or     *)
(* joins its queue; its promise is pending, as that of no other of its key. *)
LEMMA EnqueueFacts ==
  ASSUME TypeOK, Inv, NEW k \in DedupeKeys, Enqueue(k)
  PROVE  \E t \in TaskIds :
           /\ t = nextId + 1 /\ nextId' = t /\ active[k] = 0
           /\ rec' = [rec EXCEPT ![t] = rec'[t]]
           /\ rec'[t].key = k /\ rec'[t].outcome = "pending" /\ Fits(rec'[t])
           /\ \A u \in TaskIds \ {t} : rec'[u] = rec[u]
           /\ \A x \in DedupeKeys :
                latest'[x] = latest[x] \/ latest'[x].status \notin Verdicts
           /\ unhandled' = unhandled
           /\ rec'[t].pc = "running" => queue[k[1]] = {}
           /\ rec'[t].pc \in {"waiting", "running"}
<1>a. nextId + 1 \in TaskIds
  BY BoundAssumption DEF Enqueue, TypeOK, TaskIds
<1>0. PICK t \in TaskIds : t = nextId + 1
  BY <1>a
<1>1. nextId' = t /\ active[k] = 0 /\ unhandled' = unhandled /\ k[1] \in Types
  BY <1>0 DEF Enqueue, DedupeKeys
<1>2. \A r \in {NewRecord(k), Begin(NewRecord(k))} :
        /\ r.key = k /\ r.outcome = "pending" /\ Fits(r)
        /\ r.pc \in {"waiting", "running"}
  <2>1. /\ NewRecord(k).key = k /\ NewRecord(k).outcome = "pending"
        /\ NewRecord(k).status = "queued" /\ NewRecord(k).pc = "waiting"
    BY DEF NewRecord
  <2>2. /\ Begin(NewRecord(k)).key = k /\ Begin(NewRecord(k)).outcome = "pending"
        /\ Begin(NewRecord(k)).status = "running" /\ Begin(NewRecord(k)).pc = "running"
    BY DEF NewRecord, Begin
  <2>3. \A r : r.outcome = "pending" /\ r.status \in {"queued", "running"}
                /\ r.pc \in {"waiting", "running"} => Fits(r)
    BY DEF Fits, Verdicts
  <2> QED  BY <2>1, <2>2, <2>3
<1>3. CASE HasSlot(k[1], running[k[1]])
  <2>1. rec' = [rec EXCEPT ![t] = Begin(NewRecord(k))] /\ latest' = latest
    BY <1>0, <1>3 DEF Enqueue
  <2>2. rec'[t] = Begin(NewRecord(k)) /\ \A u \in TaskIds \ {t} : rec'[u] = rec[u]
    BY <2>1 DEF TypeOK
  <2>3. queue[k[1]] = {}
    <3>1. running[k[1]] \in Nat /\ Concurrency[k[1]] \in Nat
      BY <1>1, DefinitionsAssumption DEF TypeOK
    <3> QED  BY <1>1, <1>3, <3>1 DEF HasSlot, Inv, WorkConserving
  <2>4. rec' = [rec EXCEPT ![t] = rec'[t]]
    BY <2>1, <2>2
  <2> QED  BY <1>0, <1>1, <1>2, <2>1, <2>2, <2>3, <2>4
<1>4. CASE ~HasSlot(k[1], running[k[1]])
  <2>1. /\ rec' = [rec EXCEPT ![t] = NewRecord(k)]
        /\ latest' = [latest EXCEPT ![k] = Snapshot(t, NewRecord(k))]
    BY <1>0, <1>4 DEF Enqueue
  <2>2. rec'[t] = NewRecord(k) /\ \A u \in TaskIds \ {t} : rec'[u] = rec[u]
    BY <2>1 DEF TypeOK
  <2>3. NewRecord(k).pc = "waiting" /\ NewRecord(k).status \notin Verdicts
    BY DEF NewRecord, Verdicts
  <2>4. \A x \in DedupeKeys :
          latest'[x] = latest[x] \/ latest'[x].status \notin Verdicts
    BY <2>1, <2>3 DEF TypeOK, Snapshot
  <2>5. rec' = [rec EXCEPT ![t] = rec'[t]]
    BY <2>1, <2>2
  <2> QED  BY <1>0, <1>1, <1>2, <2>2, <2>3, <2>4, <2>5
<1> QED  BY <1>3, <1>4

-----------------------------------------------------------------------------
(* Snapshots.                                                               *)

SnapshotsFit ==
  \A k \in DedupeKeys : latest[k].status \in Verdicts => latest[k].task \in TaskIds

OutcomeInv ==
  /\ TypeOK /\ Inv
  /\ \A u \in TaskIds : Fits(rec[u])
  /\ SnapshotsFit /\ SnapshotAgreesWithPromise
  /\ CrashNeedsCancelledBackoff

LEMMA InitOutcome == Init => OutcomeInv
<1> SUFFICES ASSUME Init PROVE OutcomeInv
  OBVIOUS
<1>1. TypeOK /\ Inv
  BY InitType, InitInv
<1>2. Fits(Unborn)
  <2>1. \A k : Fits([NewRecord(k) EXCEPT !.pc = "unborn"])
    BY DEF NewRecord, Fits, Agrees, Verdicts
  <2> QED  BY <2>1 DEF Unborn
<1>3. \A u \in TaskIds : Fits(rec[u])
  BY <1>2 DEF Init
<1>4. \A k \in DedupeKeys : latest[k].status \notin Verdicts
  BY DEF Init, NoSnapshot, Verdicts
<1>5. SnapshotsFit /\ SnapshotAgreesWithPromise
  BY <1>4 DEF SnapshotsFit, SnapshotAgreesWithPromise
<1>6. CrashNeedsCancelledBackoff
  BY DEF Init, CrashNeedsCancelledBackoff
<1> QED  BY <1>1, <1>3, <1>5, <1>6 DEF OutcomeInv

(* The host ends only through an aborted retry delay.                       *)
LEMMA CrashStep ==
  ASSUME OutcomeInv, Next
  PROVE  CrashNeedsCancelledBackoff'
<1> SUFFICES ASSUME unhandled' PROVE CrashNeedsCancelledBackoff'
  BY DEF CrashNeedsCancelledBackoff
<1>1. ~unhandled
  BY DEF Next
<1>2. PICK t \in TaskIds : ResumeAbortedBackoff(t)
  <2>1. \A k \in DedupeKeys : ~Enqueue(k) /\ ~RecordCacheHit(k)
    BY <1>1 DEF Enqueue, RecordCacheHit
  <2>2. \A types \in SUBSET Types, keys \in SUBSET Keys : ~CancelMatching(types, keys)
    BY <1>1 DEF CancelMatching
  <2>3. ~Sweep
    BY <1>1 DEF Sweep, SweepQueuedTimeouts
  <2>4. \A t \in TaskIds :
          ~(Body(t) \/ ReportProgress(t) \/ TimeoutFires(t) \/ BackoffElapses(t))
    BY <1>1 DEF Body, BodySucceeds, BodyFails, BodyQueueTimesOut, BodyEnds,
                ReportProgress, TimeoutFires, BackoffElapses
  <2>5. \A t \in TaskIds : Resume(t) => ResumeAbortedBackoff(t)
    BY <1>1 DEF Resume, ResumeResolved, ResumeRejected, RetryLater, LeaveLoop,
                NextAttempt
  <2> QED  BY <2>1, <2>2, <2>3, <2>4, <2>5 DEF Next
<1>3. /\ rec[t].pc = "backoffAborted" /\ Exit(t, rec[t], sweepTimer)
      /\ nextId' = nextId
  BY <1>2 DEF ResumeAbortedBackoff
<1>4. t \in Born /\ Born' = Born /\ TypeOK /\ Inv /\ rec[t] \in TaskRecord
  BY <1>3 DEF OutcomeInv, Inv, PlacesFit, Born, TypeOK, TaskIds
<1>5. rec'[t] = Done(rec[t])
  <2>1. Executing(t) /\ Moves(rec[t], Done(rec[t]))
    BY <1>3, <1>4 DEF Executing, Moves, Done, Inv, PlacesFit, Settled
  <2> QED  BY <1>3, <1>4, <2>1, ExitMoves
<1>6. /\ rec'[t].key = rec[t].key /\ rec'[t].attempt = rec[t].attempt
      /\ rec'[t].reported = rec[t].reported
  BY <1>4, <1>5 DEF Done, TaskRecord
<1>7. /\ HasBackoff[TypeOf(t)] /\ rec[t].attempt < AttemptLimit(TypeOf(t))
      /\ "cancelled" \in rec[t].reported
  BY <1>3 DEF OutcomeInv, Fits, TypeOf
<1>8. TypeOf(t)' = TypeOf(t)
  BY <1>6 DEF TypeOf
<1> QED  BY <1>4, <1>6, <1>7, <1>8 DEF CrashNeedsCancelledBackoff, AttemptLimit

LEMMA NextOutcome == OutcomeInv /\ [Next]_vars => OutcomeInv'
<1> SUFFICES ASSUME OutcomeInv, [Next]_vars PROVE OutcomeInv'
  OBVIOUS
<1>1. TypeOK /\ Inv /\ TypeOK' /\ Inv'
  BY NextType, NextInv DEF OutcomeInv
<1>2. \A u \in TaskIds : rec[u] \in TaskRecord /\ Fits(rec[u])
  BY DEF OutcomeInv, TypeOK
<1>3. ASSUME NEW k \in DedupeKeys, Enqueue(k), Next PROVE OutcomeInv'
  <2>1. PICK t \in TaskIds :
           /\ t = nextId + 1 /\ Fits(rec'[t])
           /\ \A u \in TaskIds \ {t} : rec'[u] = rec[u]
           /\ \A x \in DedupeKeys :
                latest'[x] = latest[x] \/ latest'[x].status \notin Verdicts
    BY <1>1, <1>3, EnqueueFacts
  <2>2. \A u \in TaskIds : Fits(rec'[u])
    BY <1>2, <2>1
  <2>3. rec[t].outcome = "pending"
    BY <1>1, <2>1 DEF Inv, PlacesFit, Settled, TypeOK
  <2>4. SnapshotsFit'
    BY <2>1 DEF OutcomeInv, SnapshotsFit
  <2>5. SnapshotAgreesWithPromise'
    <3> SUFFICES ASSUME NEW x \in DedupeKeys, latest'[x].status \in Verdicts
                 PROVE  rec'[latest'[x].task].outcome =
                          IF latest'[x].status = "succeeded" THEN "resolved"
                          ELSE "rejected"
      BY DEF SnapshotAgreesWithPromise
    <3>1. latest'[x] = latest[x] /\ latest[x].task \in TaskIds
      BY <2>1 DEF OutcomeInv, SnapshotsFit
    <3>2. rec[latest[x].task].outcome =
            IF latest[x].status = "succeeded" THEN "resolved" ELSE "rejected"
      BY <3>1 DEF OutcomeInv, SnapshotAgreesWithPromise
    <3>3. latest[x].task # t
      BY <2>3, <3>2
    <3> QED  BY <2>1, <3>1, <3>2, <3>3
  <2> QED  BY <1>1, <1>3, <2>2, <2>4, <2>5, CrashStep DEF OutcomeInv
<1>4. ASSUME Next, \A k \in DedupeKeys : ~Enqueue(k) PROVE OutcomeInv'
  <2>1. StepFacts
    BY <1>1, <1>2, <1>4, ExistingStep
  <2>2. \A u \in TaskIds : /\ Fits(rec'[u])
                           /\ rec[u].outcome # "pending" =>
                                rec'[u].outcome = rec[u].outcome
    BY <1>2, <2>1, MoveFits, MoveKeepsKey DEF StepFacts
  <2>3. ASSUME NEW k \in DedupeKeys, latest'[k].status \in Verdicts
        PROVE  /\ latest'[k].task \in TaskIds
               /\ rec'[latest'[k].task].outcome =
                    IF latest'[k].status = "succeeded" THEN "resolved" ELSE "rejected"
    <3>1. CASE latest'[k] = latest[k]
      <4>1. /\ latest[k].task \in TaskIds
            /\ rec[latest[k].task].outcome =
                 IF latest[k].status = "succeeded" THEN "resolved" ELSE "rejected"
        BY <2>3, <3>1 DEF OutcomeInv, SnapshotsFit, SnapshotAgreesWithPromise
      <4> QED  BY <2>2, <3>1, <4>1
    <3>2. CASE latest'[k] # latest[k]
      <4>1. PICK t \in TaskIds : /\ latest'[k].task = t /\ Agrees(rec'[t])
                                 /\ latest'[k].status = rec'[t].status
        BY <2>1, <2>3, <3>2 DEF StepFacts, Publishes
      <4> QED  BY <4>1 DEF Agrees
    <3> QED  BY <3>1, <3>2
  <2>4. SnapshotsFit' /\ SnapshotAgreesWithPromise'
    BY <2>3 DEF SnapshotsFit, SnapshotAgreesWithPromise
  <2> QED  BY <1>1, <1>4, <2>2, <2>4, CrashStep DEF OutcomeInv
<1>5. CASE UNCHANGED vars
  BY <1>5 DEF OutcomeInv, vars, TypeOK, Inv, ActiveIsPending, NothingStranded,
              SlotAccounting, WorkConserving, SweepArmed, PlacesFit, SnapshotsFit,
              SnapshotAgreesWithPromise, CrashNeedsCancelledBackoff, Fits, Agrees,
              TypeOf, Settled, Executing, Occupants, Born, NeedsSweep
<1> QED  BY <1>3, <1>4, <1>5

LEMMA OutcomeCorrect == Spec => []OutcomeInv
BY InitOutcome, NextOutcome, PTL DEF Spec

(* What peek publishes of an ended task is what its promise told, whatever  *)
(* its body did after a cancel or a timeout.                                *)
THEOREM SnapshotsAgree == Spec => []SnapshotAgreesWithPromise
<1>1. OutcomeInv => SnapshotAgreesWithPromise
  BY DEF OutcomeInv
<1> QED  BY <1>1, OutcomeCorrect, PTL

(* Only a cancel that meets a retry delay leaves the host with a rejection  *)
(* nobody handles.                                                          *)
THEOREM CrashIsACancelledBackoff == Spec => []CrashNeedsCancelledBackoff
<1>1. OutcomeInv => CrashNeedsCancelledBackoff
  BY DEF OutcomeInv
<1> QED  BY <1>1, OutcomeCorrect, PTL

-----------------------------------------------------------------------------
(* Starts.                                                                  *)

LEMMA MoveStarts ==
  ASSUME NEW r \in TaskRecord, NEW s, Moves(r, s),
         r.pc \in {"unborn", "waiting", "done"},
         s.pc \notin {"unborn", "waiting", "done"}
  PROVE  r.pc = "waiting" /\ s.pc = "running"
<1>1. CASE r.pc = "waiting" /\ s = Begin(r)
  BY <1>1 DEF Begin, TaskRecord
<1>2. CASE s = Cancelled(r)
  <2>1. s.pc = CASE r.pc = "waiting" -> "done"
                 [] r.pc = "backoff" -> "backoffAborted"
                 [] OTHER -> r.pc
    BY <1>2 DEF Cancelled, Finish, TaskRecord
  <2> QED  BY <2>1
<1>3. CASE \E place \in {"resolved", "rejected", "queueTimedOut"} : s = BodyOver(r, place)
  BY <1>3 DEF BodyOver, TaskRecord
<1>4. CASE \E verdict : s = [Finish(r, verdict) EXCEPT !.pc = "done"]
  BY <1>4 DEF Finish, TaskRecord
<1>5. CASE s = [r EXCEPT !.pc = "done"]
  BY <1>5 DEF TaskRecord
<1> QED  BY <1>1, <1>2, <1>3, <1>4, <1>5 DEF Moves

NoneOvertakes ==
  \A t, u \in TaskIds :
    (/\ ~Executing(t) /\ Executing(t)' /\ u < t
     /\ u \in queue[TypeOf(t)']) => u \notin queue'[TypeOf(t)']

LEMMA StartsStep == OutcomeInv /\ [Next]_vars => NoneOvertakes \/ UNCHANGED vars
<1> SUFFICES ASSUME OutcomeInv, Next PROVE NoneOvertakes
  OBVIOUS
<1>1. TypeOK /\ Inv /\ \A u \in TaskIds : rec[u] \in TaskRecord /\ Fits(rec[u])
  BY DEF OutcomeInv, TypeOK
<1>2. ASSUME NEW k \in DedupeKeys, Enqueue(k) PROVE NoneOvertakes
  <2>1. PICK t \in TaskIds : /\ rec'[t].key = k
                             /\ \A u \in TaskIds \ {t} : rec'[u] = rec[u]
                             /\ rec'[t].pc = "running" => queue[k[1]] = {}
                             /\ rec'[t].pc \in {"waiting", "running"}
    BY <1>1, <1>2, EnqueueFacts
  <2> QED  BY <2>1 DEF NoneOvertakes, Executing, TypeOf
<1>3. ASSUME \A k \in DedupeKeys : ~Enqueue(k) PROVE NoneOvertakes
  <2>1. StepFacts
    BY <1>1, <1>3, ExistingStep
  <2>2. \A t \in TaskIds : TypeOf(t)' = TypeOf(t)
    BY <1>1, <2>1, MoveKeepsKey DEF StepFacts, TypeOf
  <2>3. \A t \in TaskIds : ~Executing(t) /\ Executing(t)' =>
                             rec[t].pc = "waiting" /\ rec'[t].pc = "running"
    BY <1>1, <2>1, MoveStarts DEF StepFacts, Executing
  <2> QED  BY <2>1, <2>2, <2>3 DEF NoneOvertakes, StepFacts, StartsInOrder
<1> QED  BY <1>2, <1>3

(* No record of a type starts while an older one of it stays queued.        *)
THEOREM StartsKeepOrder == Spec => NoOvertaking
<1>1. OutcomeInv /\ [Next]_vars => [NoneOvertakes]_vars
  BY StartsStep
<1>2. Spec => [][NoneOvertakes]_vars
  BY <1>1, OutcomeCorrect, PTL DEF Spec
<1> QED  BY <1>2 DEF NoOvertaking, NoneOvertakes

-----------------------------------------------------------------------------
(* The contract of the handles.                                             *)

Promise == [t \in TaskIds |-> IF t \in Born THEN rec[t].outcome ELSE "absent"]
KeyOf == [t \in TaskIds |-> rec[t].key]

LEMMA InitKeepsContract == Init => Contract!Init
<1> SUFFICES ASSUME Init PROVE Contract!Init
  OBVIOUS
<1>1. TypeOK
  BY InitType
<1>2. Born = {}
  BY DEF Init, Born
<1>3. \A t \in TaskIds : rec[t].key \in DedupeKeys
  BY <1>1 DEF TypeOK, TaskRecord
<1> QED  BY <1>2, <1>3 DEF Contract!Init

LEMMA StepKeepsContract ==
  OutcomeInv /\ [Next]_vars => [Contract!Next]_<<Promise, KeyOf>>
<1> SUFFICES ASSUME OutcomeInv, [Next]_vars
             PROVE  Contract!Next \/ (Promise' = Promise /\ KeyOf' = KeyOf)
  OBVIOUS
<1>1. /\ TypeOK /\ Inv /\ Born \in SUBSET TaskIds
      /\ \A u \in TaskIds : rec[u] \in TaskRecord /\ Fits(rec[u])
  BY BornTasks DEF OutcomeInv, TypeOK
<1>2. \A t \in TaskIds : t \in Contract!Pending <=> t \in Born /\ ~Settled(t)
  BY DEF Contract!Pending, Settled
<1>3. ASSUME NEW k \in DedupeKeys, Enqueue(k) PROVE Contract!Next
  <2>1. PICK t \in TaskIds : /\ t = nextId + 1 /\ nextId' = t /\ active[k] = 0
                             /\ rec'[t].key = k /\ rec'[t].outcome = "pending"
                             /\ \A u \in TaskIds \ {t} : rec'[u] = rec[u]
    BY <1>1, <1>3, EnqueueFacts
  <2>2. t \notin Born /\ Born' = Born \cup {t}
    BY <1>1, <2>1 DEF Born, TypeOK
  <2>3. \A u \in Contract!Pending : KeyOf[u] # k
    <3>1. ASSUME NEW u \in TaskIds, u \in Born, ~Settled(u) PROVE rec[u].key # k
      <4>1. active[rec[u].key] = u /\ u # 0
        BY <1>1, <3>1 DEF Inv, ActiveIsPending, TaskIds
      <4> QED  BY <2>1, <4>1
    <3>2. Contract!Pending \in SUBSET TaskIds
      BY DEF Contract!Pending
    <3> QED  BY <1>2, <3>1, <3>2 DEF KeyOf
  <2>4. Promise[t] = "absent" /\ Promise' = [Promise EXCEPT ![t] = "pending"]
    BY <2>1, <2>2 DEF Promise
  <2>5. KeyOf' = [KeyOf EXCEPT ![t] = k]
    BY <2>1 DEF KeyOf
  <2>6. Contract!Open(t, k)
    BY <2>3, <2>4, <2>5 DEF Contract!Open, Promise, KeyOf
  <2> QED  BY <2>6 DEF Contract!Next
<1>4. ASSUME Next, \A k \in DedupeKeys : ~Enqueue(k)
      PROVE  Contract!Next \/ (Promise' = Promise /\ KeyOf' = KeyOf)
  <2>1. StepFacts
    BY <1>1, <1>4, ExistingStep
  <2>2. Born' = Born /\ KeyOf' = KeyOf
    BY <1>1, <2>1, MoveKeepsKey DEF StepFacts, Born, KeyOf
  <2>3. CASE Undecided
    BY <2>2, <2>3 DEF Undecided, Promise
  <2>4. CASE ResolvesOne
    <3>1. PICK t \in Born :
            /\ ~Settled(t) /\ rec'[t].outcome = "resolved"
            /\ \A u \in TaskIds \ {t} : rec'[u].outcome = rec[u].outcome
      BY <2>4 DEF ResolvesOne
    <3>2. t \in TaskIds /\ t \in Contract!Pending
      BY <1>1, <1>2, <3>1
    <3>3. Promise' = [Promise EXCEPT ![t] = "resolved"]
      BY <2>2, <3>1, <3>2 DEF Promise
    <3>4. Contract!Resolve(t)
      BY <2>2, <3>2, <3>3 DEF Contract!Resolve, Promise, KeyOf
    <3> QED  BY <3>2, <3>4 DEF Contract!Next
  <2>5. CASE RejectsSome
    <3>1. PICK S \in SUBSET Born :
            /\ S # {} /\ \A t \in S : ~Settled(t) /\ rec'[t].outcome = "rejected"
            /\ \A u \in TaskIds \ S : rec'[u].outcome = rec[u].outcome
      BY <2>5 DEF RejectsSome
    <3>2. S \in SUBSET TaskIds /\ S \subseteq Contract!Pending
      BY <1>1, <1>2, <3>1
    <3>3. Promise' = [t \in TaskIds |-> IF t \in S THEN "rejected" ELSE Promise[t]]
      BY <2>2, <3>1, <3>2 DEF Promise
    <3>4. Contract!Reject(S)
      BY <2>2, <3>1, <3>2, <3>3 DEF Contract!Reject, Promise, KeyOf
    <3> QED  BY <3>2, <3>4 DEF Contract!Next
  <2> QED  BY <2>1, <2>3, <2>4, <2>5 DEF StepFacts
<1>5. CASE UNCHANGED vars
  BY <1>5 DEF vars, Promise, KeyOf, Born
<1> QED  BY <1>3, <1>4, <1>5

(* The handles keep their contract: one pending promise per key, decided    *)
(* once and never taken back.                                               *)
THEOREM ContractKept == Spec => KeepsContract
BY InitKeepsContract, StepKeepsContract, OutcomeCorrect, PTL
   DEF Spec, KeepsContract, Contract!Spec, Promise, KeyOf
=============================================================================
