--------------------------- MODULE ActiveRunsProofs ---------------------------
(***************************************************************************)
(* Theorems about the active runs of a session, for every set of sends and *)
(* every length of the remembered events and of the listeners' queues.     *)
(***************************************************************************)
EXTENDS ActiveRuns, SequenceTheorems, TLAPS

USE SendsAssumption, RecentAssumption

-----------------------------------------------------------------------------
(* The registry's operations keep their variables in their types.          *)
LEMMA EventNowType ==
  ASSUME TypeOK, current # None
  PROVE  EventNow \in Event /\ current \in Sends
BY DEF TypeOK, EventNow, Event

LEMMA RememberType ==
  ASSUME TypeOK, current # None, NEW o \in Origins, NEW r \in Sends,
         NEW next \in BOOLEAN, Remember(o, r, next)
  PROVE  /\ told' \in SUBSET [run : Sends, by : Sends, origin : Origins]
         /\ active' \in BOOLEAN
         /\ recent' \in 0 .. RecentLimit
BY DEF TypeOK, Remember

LEMMA AppendType ==
  ASSUME TypeOK, current # None, NEW l \in Sends
  PROVE  Append(queue[l], EventNow) \in Seq(Event)
BY EventNowType DEF TypeOK

LEMMA EmitType ==
  ASSUME TypeOK, current # None, NEW o \in Origins, NEW r \in Sends,
         NEW next \in BOOLEAN, Emit(o, r, next)
  PROVE  /\ told' \in SUBSET [run : Sends, by : Sends, origin : Origins]
         /\ active' \in BOOLEAN
         /\ recent' \in 0 .. RecentLimit
         /\ queue' \in [Sends -> Seq(Event)]
<1>1. Remember(o, r, next)
  BY DEF Emit
<1>2. queue' \in [Sends -> Seq(Event)]
  BY AppendType DEF Emit, TypeOK
<1> QED  BY <1>1, <1>2, RememberType

LEMMA FlushingType ==
  ASSUME queue' \in [Sends -> Seq(Event)]
  PROVE  Flushing \in Settlement /\ Flushing.step = "flushing"
<1>1. \A l \in Sends : Len(queue'[l]) \in Nat
  OBVIOUS
<1> QED  BY <1>1 DEF Flushing, Settlement

LEMMA SettledType ==
  ASSUME TypeOK, NEW r \in Sends, Settled(r)
  PROVE  completion' \in [Sends -> Settlement]
<1>1. completion[r] \in Settlement
  BY DEF TypeOK
<1>2. [completion[r] EXCEPT !.step = "done"] \in Settlement
  BY <1>1 DEF Settlement
<1> QED  BY <1>2 DEF TypeOK, Settled

LEMMA AbandonType ==
  ASSUME TypeOK, Abandon
  PROVE  /\ current' \in Sends \union {None}
         /\ abandoned' \in SUBSET Sends
         /\ UNCHANGED <<active, recent, listening, queue, told, released, displaced>>
BY DEF TypeOK, Abandon

LEMMA InitType == Init => TypeOK
<1> SUFFICES ASSUME Init PROVE TypeOK
  OBVIOUS
<1>1. [step |-> "none", ahead |-> [l \in Sends |-> 0]] \in Settlement
  BY DEF Settlement
<1>2. <<>> \in Seq(Event)
  OBVIOUS
<1>3. completion \in [Sends -> Settlement] /\ queue \in [Sends -> Seq(Event)]
  BY <1>1, <1>2 DEF Init
<1>4. 0 \in 0 .. RecentLimit
  OBVIOUS
<1> QED  BY <1>3, <1>4 DEF Init, TypeOK

LEMMA SendType ==
  ASSUME TypeOK, NEW m \in Sends, Send(m) \/ Steer(m) \/ SteerAnswered(m)
  PROVE  TypeOK'
<1>1. CASE Send(m)
  BY <1>1 DEF TypeOK, Send, registry, ends
<1>2. CASE Steer(m)
  <2>1. CASE current = None \/ ~ Attached(current)
    BY <1>2, <2>1 DEF TypeOK, Steer, registry, ends
  <2>2. CASE ~ (current = None \/ ~ Attached(current))
    <3>1. /\ sender' = [sender EXCEPT ![m] = "steering"]
          /\ target' = [target EXCEPT ![m] = current]
          /\ UNCHANGED <<registry, provider, completion, interrupting>>
      BY <1>2, <2>2 DEF Steer
    <3>2. target' \in [Sends -> Sends \union {None}]
      BY <3>1 DEF TypeOK
    <3> QED  BY <3>1, <3>2 DEF TypeOK, registry, ends
  <2> QED  BY <2>1, <2>2
<1>3. CASE SteerAnswered(m)
  <2>1. CASE provider[target[m]] = "live"
    BY <1>3, <2>1 DEF TypeOK, SteerAnswered, registry, ends
  <2>2. CASE provider[target[m]] # "live"
    BY <1>3, <2>2, AbandonType DEF TypeOK, SteerAnswered
  <2> QED  BY <2>1, <2>2
<1> QED  BY <1>1, <1>2, <1>3

LEMMA BeginType ==
  ASSUME TypeOK, NEW m \in Sends, Begin(m)
  PROVE  TypeOK'
<1>1. CASE current # None
  BY <1>1 DEF TypeOK, Begin, registry, ends
<1>2. CASE current = None
  <2> DEFINE e == [run |-> m, early |-> TRUE]
  <2>1. e \in Event
    BY DEF Event
  <2>2. \A l \in Sends : Append(queue[l], e) \in Seq(Event)
    BY <2>1 DEF TypeOK
  <2>3. queue' = [l \in Sends |-> IF l \in listening THEN Append(queue[l], e) ELSE queue[l]]
    BY <1>2 DEF Begin
  <2>4. queue' \in [Sends -> Seq(Event)]
    BY <2>2, <2>3 DEF TypeOK
  <2>5. told' \in SUBSET [run : Sends, by : Sends, origin : Origins]
    BY <1>2 DEF Begin, TypeOK, Origins
  <2>6. /\ current' = m /\ active' = TRUE /\ recent' = 1
        /\ UNCHANGED <<target, completion, interrupting, listening, ends>>
        /\ sender' = [sender EXCEPT ![m] = "launching"]
        /\ provider' = [provider EXCEPT ![m] = "launching"]
    BY <1>2 DEF Begin
  <2> QED  BY <2>4, <2>5, <2>6 DEF TypeOK, ends
<1> QED  BY <1>1, <1>2

LEMMA LaunchedType ==
  ASSUME TypeOK, NEW r \in Sends, Launched(r)
  PROVE  TypeOK'
<1>1. /\ provider' \in [Sends -> {"none", "launching", "live", "ended", "crashed"}]
      /\ sender' \in [Sends -> {"idle", "steer", "steering", "start", "launching",
                               "accepted", "refused"}]
      /\ UNCHANGED <<target, interrupting>>
  <2>1. sender' = [sender EXCEPT ![r] = "refused"] \/ sender' = [sender EXCEPT ![r] = "accepted"]
    BY DEF Launched
  <2> QED  BY <2>1 DEF Launched, TypeOK
<1>2. CASE current = None
  <2>1. Settled(r) /\ UNCHANGED registry
    BY <1>2 DEF Launched
  <2>2. completion' \in [Sends -> Settlement]
    BY <2>1, SettledType
  <2> QED  BY <1>1, <2>1, <2>2 DEF TypeOK, registry, ends
<1>3. CASE current # None
  <2>1. /\ Remember("launch", r, TRUE)
        /\ listening' = listening \union {r}
        /\ queue' = [l \in Sends |->
             IF l = r THEN [i \in 1 .. recent' |-> EventNow]
             ELSE IF l \in listening THEN Append(queue[l], EventNow)
             ELSE queue[l]]
        /\ UNCHANGED <<current, completion, ends>>
    BY <1>3 DEF Launched
  <2>2. /\ told' \in SUBSET [run : Sends, by : Sends, origin : Origins]
        /\ active' \in BOOLEAN
        /\ recent' \in 0 .. RecentLimit
    BY <1>3, <2>1, RememberType DEF Origins
  <2>3. [i \in 1 .. recent' |-> EventNow] \in Seq(Event)
    BY <1>3, <2>2, EventNowType
  <2>4. queue' \in [Sends -> Seq(Event)]
    <3>1. \A l \in Sends : Append(queue[l], EventNow) \in Seq(Event) /\ queue[l] \in Seq(Event)
      BY <1>3, AppendType DEF TypeOK
    <3> QED  BY <2>1, <2>3, <3>1
  <2> QED  BY <1>1, <2>1, <2>2, <2>4 DEF TypeOK, ends
<1> QED  BY <1>2, <1>3

(* A settlement that finds a record tells it and flushes its listeners.     *)
LEMMA SettleType ==
  ASSUME TypeOK, current # None, NEW r \in Sends,
         \/ Emit("settle", r, FALSE)
         \/ UNCHANGED <<active, recent, queue, told>>,
         completion' = [completion EXCEPT ![r] = Flushing],
         UNCHANGED <<current, listening, ends>>
  PROVE  /\ told' \in SUBSET [run : Sends, by : Sends, origin : Origins]
         /\ active' \in BOOLEAN
         /\ recent' \in 0 .. RecentLimit
         /\ queue' \in [Sends -> Seq(Event)]
         /\ completion' \in [Sends -> Settlement]
<1>1. /\ told' \in SUBSET [run : Sends, by : Sends, origin : Origins]
      /\ active' \in BOOLEAN
      /\ recent' \in 0 .. RecentLimit
      /\ queue' \in [Sends -> Seq(Event)]
  <2>1. CASE Emit("settle", r, FALSE)
    BY <2>1, EmitType DEF Origins
  <2>2. CASE UNCHANGED <<active, recent, queue, told>>
    BY <2>2 DEF TypeOK
  <2> QED  BY <2>1, <2>2
<1>2. completion' \in [Sends -> Settlement]
  BY <1>1, FlushingType DEF TypeOK
<1> QED  BY <1>1, <1>2

LEMMA LaunchFailsType ==
  ASSUME TypeOK, NEW r \in Sends, LaunchFails(r)
  PROVE  TypeOK'
<1>1. CASE current = None
  <2>1. completion' \in [Sends -> Settlement]
    BY <1>1, SettledType DEF LaunchFails
  <2> QED  BY <1>1, <2>1 DEF LaunchFails, TypeOK, registry, ends
<1>2. CASE current # None
  <2>1. /\ told' \in SUBSET [run : Sends, by : Sends, origin : Origins]
        /\ active' \in BOOLEAN
        /\ recent' \in 0 .. RecentLimit
        /\ queue' \in [Sends -> Seq(Event)]
        /\ completion' \in [Sends -> Settlement]
    BY <1>2, SettleType DEF LaunchFails
  <2> QED  BY <1>2, <2>1 DEF LaunchFails, TypeOK, ends
<1> QED  BY <1>1, <1>2

LEMMA OutputType ==
  ASSUME TypeOK, NEW r \in Sends, Output(r)
  PROVE  TypeOK'
<1>1. current # None
  BY DEF Output
<1>2. PICK next \in BOOLEAN : Emit("sink", r, next)
  BY DEF Output
<1>3. /\ told' \in SUBSET [run : Sends, by : Sends, origin : Origins]
      /\ active' \in BOOLEAN
      /\ recent' \in 0 .. RecentLimit
      /\ queue' \in [Sends -> Seq(Event)]
  BY <1>1, <1>2, EmitType DEF Origins
<1> QED  BY <1>3 DEF Output, TypeOK, ends

LEMMA CompletedType ==
  ASSUME TypeOK, NEW r \in Sends, Completed(r)
  PROVE  TypeOK'
<1>1. CASE current = None
  <2>1. completion' \in [Sends -> Settlement]
    BY <1>1, SettledType DEF Completed
  <2> QED  BY <1>1, <2>1 DEF Completed, TypeOK, registry, ends
<1>2. CASE current # None
  <2>1. /\ told' \in SUBSET [run : Sends, by : Sends, origin : Origins]
        /\ active' \in BOOLEAN
        /\ recent' \in 0 .. RecentLimit
        /\ queue' \in [Sends -> Seq(Event)]
        /\ completion' \in [Sends -> Settlement]
    BY <1>2, SettleType DEF Completed
  <2> QED  BY <1>2, <2>1 DEF Completed, TypeOK, ends
<1> QED  BY <1>1, <1>2

LEMMA DeliverType ==
  ASSUME TypeOK, NEW l \in Sends, Deliver(l)
  PROVE  TypeOK'
<1>1. queue' \in [Sends -> Seq(Event)]
  <2>1. Tail(queue[l]) \in Seq(Event)
    BY DEF TypeOK, Deliver
  <2> QED  BY <2>1 DEF Deliver, TypeOK
<1>2. ASSUME NEW r \in Sends, completion[r].ahead[l] # 0
      PROVE  [completion[r] EXCEPT !.ahead[l] = @ - 1] \in Settlement
  <2>1. completion[r] \in Settlement
    BY DEF TypeOK
  <2>2. completion[r].ahead[l] - 1 \in Nat
    BY <1>2, <2>1 DEF Settlement
  <2> DEFINE ahead == [completion[r].ahead EXCEPT ![l] = completion[r].ahead[l] - 1]
  <2>3. ahead \in [Sends -> Nat]
    BY <2>1, <2>2 DEF Settlement
  <2>4. [completion[r] EXCEPT !.ahead[l] = @ - 1] = [completion[r] EXCEPT !.ahead = ahead]
    OBVIOUS
  <2> HIDE DEF ahead
  <2>5. [completion[r] EXCEPT !.ahead = ahead] \in Settlement
    BY <2>1, <2>3 DEF Settlement
  <2> QED  BY <2>4, <2>5
<1>3. completion' \in [Sends -> Settlement]
  BY <1>2 DEF Deliver, TypeOK
<1> QED  BY <1>1, <1>3 DEF Deliver, TypeOK, ends

LEMMA InterruptType ==
  ASSUME TypeOK, NEW r \in Sends, InterruptBegin(r) \/ InterruptEnd(r)
  PROVE  TypeOK'
<1>1. CASE InterruptBegin(r)
  BY <1>1 DEF InterruptBegin, TypeOK, registry, ends
<1>2. CASE InterruptEnd(r) /\ current = None
  BY <1>2 DEF InterruptEnd, TypeOK, registry, ends
<1>3. CASE InterruptEnd(r) /\ current # None
  <2>1. Emit("interrupt", r, FALSE)
    BY <1>3 DEF InterruptEnd
  <2>2. /\ told' \in SUBSET [run : Sends, by : Sends, origin : Origins]
        /\ active' \in BOOLEAN
        /\ recent' \in 0 .. RecentLimit
        /\ queue' \in [Sends -> Seq(Event)]
    BY <1>3, <2>1, EmitType DEF Origins
  <2> QED  BY <1>3, <2>2 DEF InterruptEnd, TypeOK, ends
<1> QED  BY <1>1, <1>2, <1>3

LEMMA ReleasedType ==
  ASSUME TypeOK, NEW r \in Sends, Released(r)
  PROVE  TypeOK'
<1>1. completion' \in [Sends -> Settlement]
  BY SettledType DEF Released
<1> QED  BY <1>1 DEF Released, Dispose, TypeOK

LEMMA NextType == TypeOK /\ [Next]_vars => TypeOK'
<1> SUFFICES ASSUME TypeOK, [Next]_vars PROVE TypeOK'
  OBVIOUS
<1>1. CASE UNCHANGED vars
  BY <1>1 DEF vars, registry, ends, TypeOK
<1>2. ASSUME NEW m \in Sends, Send(m) \/ Steer(m) \/ SteerAnswered(m) PROVE TypeOK'
  BY <1>2, SendType
<1>3. ASSUME NEW m \in Sends, Begin(m) PROVE TypeOK'
  BY <1>3, BeginType
<1>4. ASSUME NEW r \in Sends, Launched(r) \/ LaunchFails(r) PROVE TypeOK'
  BY <1>4, LaunchedType, LaunchFailsType
<1>5. ASSUME NEW r \in Sends, Output(r) PROVE TypeOK'
  BY <1>5, OutputType
<1>6. ASSUME NEW r \in Sends, ProviderEnds(r) PROVE TypeOK'
  BY <1>6 DEF ProviderEnds, TypeOK, registry, ends
<1>7. ASSUME NEW r \in Sends, Completed(r) \/ Released(r) PROVE TypeOK'
  BY <1>7, CompletedType, ReleasedType
<1>8. ASSUME NEW r \in Sends, InterruptBegin(r) \/ InterruptEnd(r) PROVE TypeOK'
  BY <1>8, InterruptType
<1>9. ASSUME NEW l \in Sends, Deliver(l) PROVE TypeOK'
  BY <1>9, DeliverType
<1>10. CASE ReconcileDeadRun
  BY <1>10, AbandonType DEF ReconcileDeadRun, TypeOK
<1> QED
  BY <1>1, <1>2, <1>3, <1>4, <1>5, <1>6, <1>7, <1>8, <1>9, <1>10 DEF Next

(* Every variable keeps its type: in particular the remembered events stay *)
(* within ACTIVE_RUN_RECENT_EVENT_LIMIT.                                   *)
THEOREM RunsTypeCorrect == Spec => []TypeOK
<1>1. Init => TypeOK
  BY InitType
<1>2. TypeOK /\ [Next]_vars => TypeOK'
  BY NextType
<1> QED  BY <1>1, <1>2, PTL DEF Spec

-----------------------------------------------------------------------------
(* What a step tells a record.                                              *)

\* what a step adds to the history
Added(origin, r) == told' = told \union {[run |-> current, by |-> r, origin |-> origin]}

LEMMA EmitAdds ==
  ASSUME NEW o, NEW r, NEW next, Emit(o, r, next)
  PROVE  Added(o, r)
BY DEF Emit, Remember, Added

-----------------------------------------------------------------------------
(* One execution chain. A run that is not settled yet is the current one,   *)
(* unless one has been abandoned: only then can the registry lose it.       *)
Fresh ==
  \A r \in Sends :
    /\ sender[r] \in {"idle", "steer", "steering", "start"} => provider[r] = "none"
    /\ provider[r] \in {"none", "launching"} => completion[r].step = "none"

Unsettled(r) == provider[r] # "none" /\ completion[r].step # "done"

OneChain ==
  /\ \A r \in Sends : Unsettled(r) => r = current
  /\ \A r \in Sends : provider[r] = "live" => completion[r].step = "none"
  /\ \A e \in told : e.origin # "interrupt" => e.run = e.by

ChainInv == TypeOK /\ Fresh /\ (abandoned = {} => OneChain)

LEMMA DeliverKeepsSteps ==
  ASSUME TypeOK, NEW l \in Sends, Deliver(l)
  PROVE  \A r \in Sends : completion'[r].step = completion[r].step
<1> SUFFICES ASSUME NEW r \in Sends PROVE completion'[r].step = completion[r].step
  OBVIOUS
<1>1. completion[r] \in Settlement
  BY DEF TypeOK
<1>2. completion'[r] = IF completion[r].ahead[l] = 0 THEN completion[r]
                       ELSE [completion[r] EXCEPT !.ahead[l] = @ - 1]
  BY DEF Deliver
<1> QED  BY <1>1, <1>2 DEF Settlement

LEMMA SettledStep ==
  ASSUME TypeOK, NEW r \in Sends, Settled(r)
  PROVE  /\ completion'[r].step = "done" /\ completion'[r].ahead = completion[r].ahead
         /\ \A q \in Sends \ {r} : completion'[q] = completion[q]
<1>1. completion[r] \in Settlement /\ completion \in [Sends -> Settlement]
  BY DEF TypeOK
<1> QED  BY <1>1 DEF Settled, Settlement

LEMMA FlushingStep ==
  ASSUME TypeOK, NEW r \in Sends, completion' = [completion EXCEPT ![r] = Flushing]
  PROVE  /\ completion'[r].step = "flushing"
         /\ completion'[r].ahead = [l \in Sends |-> Len(queue'[l])]
         /\ \A q \in Sends \ {r} : completion'[q] = completion[q]
BY DEF TypeOK, Flushing

LEMMA FreshStep == ChainInv /\ [Next]_vars => Fresh'
<1> SUFFICES ASSUME TypeOK, Fresh, [Next]_vars PROVE Fresh'
  BY DEF ChainInv
<1>1. CASE UNCHANGED vars
  BY <1>1 DEF vars, Fresh
<1>2. ASSUME NEW m \in Sends, Send(m) \/ Steer(m) \/ SteerAnswered(m) PROVE Fresh'
  BY <1>2 DEF Send, Steer, SteerAnswered, Fresh, TypeOK
<1>3. ASSUME NEW m \in Sends, Begin(m) PROVE Fresh'
  BY <1>3 DEF Begin, Fresh, TypeOK
<1>4. ASSUME NEW r \in Sends, Launched(r) PROVE Fresh'
  <2>1. /\ provider' = [provider EXCEPT ![r] = "live"]
        /\ sender' \in {[sender EXCEPT ![r] = "refused"], [sender EXCEPT ![r] = "accepted"]}
        /\ Settled(r) \/ UNCHANGED completion
    BY <1>4 DEF Launched
  <2>2. \A q \in Sends \ {r} : completion'[q] = completion[q]
    BY <2>1, SettledStep
  <2> QED  BY <2>1, <2>2 DEF Fresh, TypeOK
<1>5. ASSUME NEW r \in Sends, LaunchFails(r) PROVE Fresh'
  <2>1. \A q \in Sends \ {r} : completion'[q] = completion[q]
    BY <1>5, SettledStep, FlushingStep DEF LaunchFails
  <2> QED  BY <1>5, <2>1 DEF LaunchFails, Fresh, TypeOK
<1>6. ASSUME NEW r \in Sends, Completed(r) PROVE Fresh'
  <2>1. \A q \in Sends \ {r} : completion'[q] = completion[q]
    BY <1>6, SettledStep, FlushingStep DEF Completed
  <2> QED  BY <1>6, <2>1 DEF Completed, Fresh, TypeOK
<1>7. ASSUME NEW r \in Sends, Released(r) PROVE Fresh'
  <2>1. \A q \in Sends \ {r} : completion'[q] = completion[q]
    BY <1>7, SettledStep DEF Released
  <2> QED  BY <1>7, <2>1 DEF Released, Fresh, TypeOK
<1>8. ASSUME NEW r \in Sends,
             Output(r) \/ ProviderEnds(r) \/ InterruptBegin(r) \/ InterruptEnd(r)
      PROVE  Fresh'
  BY <1>8 DEF Output, ProviderEnds, InterruptBegin, InterruptEnd, Fresh, TypeOK
<1>9. ASSUME NEW l \in Sends, Deliver(l) PROVE Fresh'
  BY <1>9, DeliverKeepsSteps DEF Deliver, Fresh
<1>10. CASE ReconcileDeadRun
  BY <1>10 DEF ReconcileDeadRun, Fresh
<1> QED
  BY <1>1, <1>2, <1>3, <1>4, <1>5, <1>6, <1>7, <1>8, <1>9, <1>10 DEF Next

(* Runs that are abandoned are never forgotten.                             *)
LEMMA AbandonedGrows == TypeOK /\ [Next]_vars => abandoned \subseteq abandoned'
BY DEF Next, vars, registry, ends, Send, Steer, SteerAnswered, Begin, Launched,
       LaunchFails, Output, ProviderEnds, Completed, Released, InterruptBegin,
       InterruptEnd, Deliver, ReconcileDeadRun, Abandon

LEMMA ChainStep ==
  ASSUME TypeOK, Fresh, OneChain, Next, abandoned' = {}
  PROVE  OneChain'
<1>1. ASSUME NEW m \in Sends, Send(m) \/ Steer(m) PROVE OneChain'
  BY <1>1 DEF Send, Steer, OneChain, Unsettled, registry
<1>2. ASSUME NEW m \in Sends, SteerAnswered(m) PROVE OneChain'
  BY <1>2 DEF SteerAnswered, Abandon, OneChain, Unsettled, registry, TypeOK
<1>3. ASSUME NEW m \in Sends, Begin(m) PROVE OneChain'
  <2>1. CASE current # None
    BY <1>3, <2>1 DEF Begin, OneChain, Unsettled, registry
  <2>2. CASE current = None
    <3>1. /\ provider' = [provider EXCEPT ![m] = "launching"]
          /\ current' = m
          /\ told' = told \union {[run |-> m, by |-> m, origin |-> "begin"]}
          /\ UNCHANGED completion
      BY <1>3, <2>2 DEF Begin
    <3>2. \A r \in Sends : ~ Unsettled(r)
      BY <2>2 DEF OneChain
    <3> QED  BY <3>1, <3>2 DEF OneChain, Unsettled, TypeOK
  <2> QED  BY <2>1, <2>2
<1>4. ASSUME NEW r \in Sends, Launched(r) PROVE OneChain'
  <2>1. current = r
    BY <1>4 DEF Launched, OneChain, Unsettled, Fresh
  <2>2. /\ provider' = [provider EXCEPT ![r] = "live"]
        /\ Added("launch", r)
        /\ UNCHANGED <<current, completion>>
    BY <1>4, <2>1 DEF Launched, Remember, Added
  <2> QED  BY <1>4, <2>1, <2>2 DEF Launched, OneChain, Unsettled, Fresh, Added, TypeOK
<1>5. ASSUME NEW r \in Sends, LaunchFails(r) \/ Completed(r) PROVE OneChain'
  <2>1. current = r
    BY <1>5 DEF LaunchFails, Completed, OneChain, Unsettled, Fresh
  <2>2. /\ completion' = [completion EXCEPT ![r] = Flushing]
        /\ UNCHANGED told \/ Added("settle", r)
        /\ UNCHANGED current
    BY <1>5, <2>1, EmitAdds DEF LaunchFails, Completed
  <2>3. /\ provider'[r] # "live"
        /\ \A q \in Sends \ {r} : provider'[q] = provider[q]
    BY <1>5 DEF LaunchFails, Completed, TypeOK
  <2>4. \A q \in Sends \ {r} : completion'[q] = completion[q]
    BY <2>2, FlushingStep
  <2> QED  BY <2>1, <2>2, <2>3, <2>4 DEF OneChain, Unsettled, Added
<1>6. ASSUME NEW r \in Sends, Output(r) PROVE OneChain'
  <2>1. Added("sink", r) /\ current = r
    BY <1>6, EmitAdds DEF Output
  <2> QED  BY <1>6, <2>1 DEF Output, OneChain, Unsettled, Added
<1>7. ASSUME NEW r \in Sends, ProviderEnds(r) PROVE OneChain'
  BY <1>7 DEF ProviderEnds, OneChain, Unsettled, TypeOK, registry
<1>8. ASSUME NEW r \in Sends, Released(r) PROVE OneChain'
  <2>1. current = r
    BY <1>8 DEF Released, OneChain, Unsettled, Fresh, TypeOK
  <2>2. Settled(r) /\ current' = None /\ UNCHANGED <<provider, told>>
    BY <1>8 DEF Released, Dispose
  <2>3. /\ completion'[r].step = "done"
        /\ \A q \in Sends \ {r} : completion'[q] = completion[q]
    BY <2>2, SettledStep
  <2>4. provider[r] # "live"
    BY <1>8 DEF Released, OneChain
  <2> QED  BY <2>1, <2>2, <2>3, <2>4 DEF OneChain, Unsettled
<1>9. ASSUME NEW r \in Sends, InterruptBegin(r) PROVE OneChain'
  BY <1>9 DEF InterruptBegin, OneChain, Unsettled, registry
<1>10. ASSUME NEW r \in Sends, InterruptEnd(r) PROVE OneChain'
  <2>1. UNCHANGED told \/ Added("interrupt", r)
    BY <1>10, EmitAdds DEF InterruptEnd, registry
  <2>2. UNCHANGED <<current, provider, completion>>
    BY <1>10 DEF InterruptEnd, registry
  <2> QED  BY <2>1, <2>2 DEF OneChain, Unsettled, Added
<1>11. ASSUME NEW l \in Sends, Deliver(l) PROVE OneChain'
  BY <1>11, DeliverKeepsSteps DEF Deliver, OneChain, Unsettled
<1>12. CASE ReconcileDeadRun
  BY <1>12 DEF ReconcileDeadRun, Abandon
<1> QED
  BY <1>1, <1>2, <1>3, <1>4, <1>5, <1>6, <1>7, <1>8, <1>9, <1>10, <1>11, <1>12 DEF Next

(* ChainInv is inductive.                                                   *)
LEMMA ChainInvHolds == Spec => []ChainInv
<1>1. Init => ChainInv
  <2> SUFFICES ASSUME Init PROVE ChainInv
    OBVIOUS
  <2>1. Fresh /\ OneChain
    BY DEF Init, Fresh, OneChain, Unsettled
  <2> QED  BY <2>1, InitType DEF ChainInv
<1>2. ChainInv /\ [Next]_vars => ChainInv'
  <2> SUFFICES ASSUME ChainInv, [Next]_vars PROVE ChainInv'
    OBVIOUS
  <2>1. TypeOK' /\ Fresh'
    BY NextType, FreshStep DEF ChainInv
  <2>2. ASSUME abandoned' = {} PROVE OneChain'
    <3>1. abandoned = {}
      BY <2>2, AbandonedGrows DEF ChainInv
    <3>2. CASE UNCHANGED vars
      BY <3>1, <3>2 DEF ChainInv, OneChain, Unsettled, vars, registry
    <3>3. CASE Next
      BY <2>2, <3>1, <3>3, ChainStep DEF ChainInv
    <3> QED  BY <3>2, <3>3
  <2> QED  BY <2>1, <2>2 DEF ChainInv
<1> QED  BY <1>1, <1>2, PTL DEF Spec

(* A session has one execution chain as long as no run was abandoned.       *)
THEOREM OneChainHolds == Spec => []OneChainUntilAbandoned
<1>1. ChainInv => OneChainUntilAbandoned
  BY DEF ChainInv, Fresh, OneChain, Unsettled, OneChainUntilAbandoned, Alive
<1> QED  BY <1>1, ChainInvHolds, PTL

-----------------------------------------------------------------------------
(* The flush before a release. While a run flushes, its early events are    *)
(* among the first `ahead` of its own listener's queue, and a released run  *)
(* has none of them left.                                                   *)
FlushCovers(r) ==
  \A i \in DOMAIN queue[r] :
    queue[r][i].run = r /\ queue[r][i].early => i <= completion[r].ahead[r]

Flushed ==
  \A r \in Sends :
    /\ r \in released => completion[r].step = "done" /\ completion[r].ahead[r] = 0
    /\ completion[r].step = "flushing" \/ r \in released => FlushCovers(r)

FlushInv == TypeOK /\ Fresh /\ Flushed

(* An event that joins a queue late is not an early one.                    *)
LEMMA AppendedIsCovered ==
  ASSUME TypeOK, NEW q \in Sends, FlushCovers(q), completion[q].step # "none",
         NEW e, e.run = q => ~ e.early,
         queue'[q] = queue[q] \/ queue'[q] = Append(queue[q], e),
         completion'[q] = completion[q]
  PROVE  FlushCovers(q)'
<1>1. CASE queue'[q] = queue[q]
  BY <1>1 DEF FlushCovers
<1>2. CASE queue'[q] = Append(queue[q], e)
  <2>1. queue[q] \in Seq(Event)
    BY DEF TypeOK
  <2> DEFINE E == Event \union {e}
  <2>2. queue[q] \in Seq(E)
    BY <2>1
  <2> HIDE DEF E
  <2>3. e \in E
    BY DEF E
  <2>4. \A i \in DOMAIN queue'[q] :
          queue'[q][i] = e \/ (i \in DOMAIN queue[q] /\ queue'[q][i] = queue[q][i])
    <3>1. /\ DOMAIN queue'[q] = 1 .. (Len(queue[q]) + 1)
          /\ queue'[q][Len(queue[q]) + 1] = e
          /\ DOMAIN queue[q] = 1 .. Len(queue[q]) /\ Len(queue[q]) \in Nat
          /\ \A i \in 1 .. Len(queue[q]) : queue'[q][i] = queue[q][i]
      BY <1>2, <2>2, <2>3, AppendProperties
    <3>2. SUFFICES ASSUME NEW i \in DOMAIN queue'[q], i \notin DOMAIN queue[q]
                   PROVE  queue'[q][i] = e
      BY <3>1
    <3>3. i = Len(queue[q]) + 1
      BY <3>1, <3>2
    <3> QED  BY <3>1, <3>3
  <2> QED  BY <2>4 DEF FlushCovers
<1> QED  BY <1>1, <1>2

(* So an event told to the current record leaves every flush covered.       *)
LEMMA EmitIsCovered ==
  ASSUME TypeOK, NEW q \in Sends, FlushCovers(q), completion[q].step # "none",
         queue'[q] = queue[q] \/ queue'[q] = Append(queue[q], EventNow),
         completion'[q] = completion[q]
  PROVE  FlushCovers(q)'
<1>1. EventNow.run = q => ~ EventNow.early
  BY DEF EventNow
<1> QED  BY <1>1, AppendedIsCovered

LEMMA EmitQueues ==
  ASSUME NEW o, NEW r, NEW next, Emit(o, r, next), NEW q \in Sends
  PROVE  queue'[q] = queue[q] \/ queue'[q] = Append(queue[q], EventNow)
BY DEF Emit

LEMMA StartedFlushCovers ==
  ASSUME TypeOK', NEW r \in Sends, completion'[r].ahead = [l \in Sends |-> Len(queue'[l])]
  PROVE  FlushCovers(r)'
<1>1. queue'[r] \in Seq(Event)
  BY DEF TypeOK
<1> QED  BY <1>1 DEF FlushCovers

LEMMA FlushedStep ==
  ASSUME FlushInv, TypeOK', Next
  PROVE  Flushed'
<1> USE DEF FlushInv
<1>1. ASSUME NEW m \in Sends, Send(m) \/ Steer(m) \/ SteerAnswered(m) PROVE Flushed'
  <2>1. UNCHANGED <<queue, completion, released>>
    BY <1>1 DEF Send, Steer, SteerAnswered, Abandon, registry, ends
  <2> QED  BY <2>1 DEF Flushed, FlushCovers
<1>2. ASSUME NEW m \in Sends, Begin(m) PROVE Flushed'
  <2> DEFINE e == [run |-> m, early |-> TRUE]
  <2>1. completion[m].step = "none"
    BY <1>2 DEF Begin, Fresh
  <2>2. \A q \in Sends : queue'[q] = queue[q] \/ queue'[q] = Append(queue[q], e)
    BY <1>2 DEF Begin, registry
  <2>3. UNCHANGED <<completion, released>>
    BY <1>2 DEF Begin, registry, ends
  <2>4. ASSUME NEW q \in Sends, FlushCovers(q), completion[q].step # "none"
        PROVE  FlushCovers(q)'
    <3>1. e.run = q => ~ e.early
      BY <2>1, <2>4
    <3> QED  BY <2>2, <2>3, <2>4, <3>1, AppendedIsCovered
  <2> QED  BY <2>3, <2>4 DEF Flushed
<1>3. ASSUME NEW r \in Sends, Launched(r) PROVE Flushed'
  <2>1. completion[r].step = "none" /\ r \notin released
    BY <1>3 DEF Launched, Fresh, Flushed
  <2>2. \A q \in Sends \ {r} :
          queue'[q] = queue[q] \/ queue'[q] = Append(queue[q], EventNow)
    BY <1>3 DEF Launched, registry
  <2>3. Settled(r) \/ UNCHANGED completion
    BY <1>3 DEF Launched
  <2>4. /\ \A q \in Sends \ {r} : completion'[q] = completion[q]
        /\ completion'[r].step # "flushing"
    BY <2>1, <2>3, SettledStep
  <2>5. UNCHANGED released
    BY <1>3 DEF Launched, registry, ends
  <2>6. \A q \in Sends \ {r} :
          FlushCovers(q) /\ completion[q].step # "none" => FlushCovers(q)'
    BY <2>2, <2>4, EmitIsCovered
  <2> QED  BY <2>1, <2>4, <2>5, <2>6 DEF Flushed
<1>4. ASSUME NEW r \in Sends, LaunchFails(r) \/ Completed(r) PROVE Flushed'
  <2>1. completion[r].step = "none" /\ r \notin released
    BY <1>4 DEF LaunchFails, Completed, Fresh, Flushed
  <2>2. \A q \in Sends : queue'[q] = queue[q] \/ queue'[q] = Append(queue[q], EventNow)
    BY <1>4, EmitQueues DEF LaunchFails, Completed, registry
  <2>3. UNCHANGED released
    BY <1>4 DEF LaunchFails, Completed, registry, ends
  <2>4. Settled(r) \/ completion' = [completion EXCEPT ![r] = Flushing]
    BY <1>4 DEF LaunchFails, Completed
  <2>5. \A q \in Sends \ {r} : completion'[q] = completion[q]
    BY <2>4, SettledStep, FlushingStep
  <2>6. \A q \in Sends \ {r} :
          FlushCovers(q) /\ completion[q].step # "none" => FlushCovers(q)'
    BY <2>2, <2>5, EmitIsCovered
  <2>7. completion'[r].step = "flushing" => FlushCovers(r)'
    <3>1. CASE Settled(r)
      BY <3>1, SettledStep
    <3>2. CASE completion' = [completion EXCEPT ![r] = Flushing]
      BY <3>2, FlushingStep, StartedFlushCovers
    <3> QED  BY <2>4, <3>1, <3>2
  <2> QED  BY <2>1, <2>3, <2>5, <2>6, <2>7 DEF Flushed
<1>5. ASSUME NEW r \in Sends, Output(r) \/ InterruptEnd(r) PROVE Flushed'
  <2>1. \A q \in Sends : queue'[q] = queue[q] \/ queue'[q] = Append(queue[q], EventNow)
    BY <1>5, EmitQueues DEF Output, InterruptEnd, registry
  <2>2. UNCHANGED <<completion, released>>
    BY <1>5 DEF Output, InterruptEnd, registry, ends
  <2>3. \A q \in Sends : FlushCovers(q) /\ completion[q].step # "none" => FlushCovers(q)'
    BY <2>1, <2>2, EmitIsCovered
  <2> QED  BY <2>2, <2>3 DEF Flushed
<1>6. ASSUME NEW r \in Sends, ProviderEnds(r) \/ InterruptBegin(r) PROVE Flushed'
  BY <1>6 DEF ProviderEnds, InterruptBegin, registry, ends, Flushed, FlushCovers
<1>7. ASSUME NEW r \in Sends, Released(r) PROVE Flushed'
  <2>1. /\ completion[r].step = "flushing" /\ completion[r].ahead[r] = 0
        /\ UNCHANGED queue
        /\ released' \subseteq released \union {r}
    BY <1>7 DEF Released, Dispose
  <2>2. /\ completion'[r].step = "done" /\ completion'[r].ahead = completion[r].ahead
        /\ \A q \in Sends \ {r} : completion'[q] = completion[q]
    BY <1>7, SettledStep DEF Released
  <2> QED  BY <2>1, <2>2 DEF Flushed, FlushCovers
<1>8. ASSUME NEW l \in Sends, Deliver(l) PROVE Flushed'
  <2>1. UNCHANGED released
    BY <1>8 DEF Deliver, ends
  <2>2. \A r \in Sends : completion'[r].step = completion[r].step
    BY <1>8, DeliverKeepsSteps
  <2>3. ASSUME NEW r \in Sends
        PROVE  completion'[r].ahead[r] =
                 IF l = r /\ completion[r].ahead[r] # 0
                 THEN completion[r].ahead[r] - 1 ELSE completion[r].ahead[r]
    <3>1. completion[r] \in Settlement
      BY DEF TypeOK
    <3>2. completion'[r] = IF completion[r].ahead[l] = 0 THEN completion[r]
                           ELSE [completion[r] EXCEPT !.ahead[l] = @ - 1]
      BY <1>8 DEF Deliver
    <3> QED  BY <3>1, <3>2 DEF Settlement
  <2>4. ASSUME NEW r \in Sends, FlushCovers(r) PROVE FlushCovers(r)'
    <3>1. completion[r].ahead[r] \in Nat /\ queue[r] \in Seq(Event)
      BY DEF TypeOK, Settlement
    <3>2. CASE l # r
      BY <1>8, <2>3, <2>4, <3>2 DEF Deliver, FlushCovers
    <3>3. CASE l = r
      <4>1. queue'[r] = Tail(queue[r]) /\ queue[r] # <<>>
        BY <1>8, <3>3 DEF Deliver, TypeOK
      <4>2. \A i \in DOMAIN queue'[r] :
              i + 1 \in DOMAIN queue[r] /\ queue'[r][i] = queue[r][i + 1] /\ i \in Nat \ {0}
        BY <3>1, <4>1
      <4>3. SUFFICES ASSUME NEW i \in DOMAIN queue'[r], queue'[r][i].run = r,
                            queue'[r][i].early
                     PROVE  i <= completion'[r].ahead[r]
        BY DEF FlushCovers
      <4>4. i + 1 <= completion[r].ahead[r] /\ i \in Nat \ {0}
        BY <2>4, <4>2, <4>3 DEF FlushCovers
      <4> QED  BY <2>3, <3>1, <3>3, <4>4
    <3> QED  BY <3>2, <3>3
  <2> QED  BY <2>1, <2>2, <2>3, <2>4 DEF Flushed
<1>9. CASE ReconcileDeadRun
  BY <1>9 DEF ReconcileDeadRun, Abandon, Flushed, FlushCovers
<1> QED  BY <1>1, <1>2, <1>3, <1>4, <1>5, <1>6, <1>7, <1>8, <1>9 DEF Next

(* A released run leaves no early event behind for its own listener.        *)
THEOREM CompletedRunsArePersisted == Spec => []CompletedRunIsPersisted
<1>1. Init => Flushed
  BY DEF Init, Flushed, FlushCovers
<1>2. ChainInv /\ ChainInv' /\ Flushed /\ [Next]_vars => Flushed'
  <2> SUFFICES ASSUME ChainInv, ChainInv', Flushed, [Next]_vars PROVE Flushed'
    OBVIOUS
  <2>1. CASE UNCHANGED vars
    BY <2>1 DEF vars, registry, ends, Flushed, FlushCovers
  <2>2. CASE Next
    BY <2>2, FlushedStep DEF FlushInv, ChainInv
  <2> QED  BY <2>1, <2>2
<1>3. ChainInv /\ Flushed => CompletedRunIsPersisted
  <2> SUFFICES ASSUME ChainInv, Flushed, NEW r \in released, NEW i \in DOMAIN queue[r],
                      queue[r][i].run = r, queue[r][i].early
               PROVE  FALSE
    BY DEF CompletedRunIsPersisted
  <2>1. r \in Sends /\ queue[r] \in Seq(Event)
    BY DEF ChainInv, TypeOK
  <2>2. i \in Nat /\ i >= 1
    BY <2>1
  <2> QED  BY <2>1, <2>2 DEF Flushed, FlushCovers
<1> QED  BY <1>1, <1>2, <1>3, ChainInvHolds, PTL DEF Spec
=============================================================================
