------------------------------ MODULE ActiveRuns ------------------------------
(***************************************************************************)
(* The runs of one session: the registry of active runs, the service that  *)
(* begins and settles them, and the sends of the live session service that *)
(* steer the active run or begin a new one                                 *)
(* (packages/session-sync-core/src/runtime/active-run-registry.ts,         *)
(* provider-runtime-service.ts and apps/host/src/modules/sessions/         *)
(* session-live-runtime-service.ts).                                       *)
(*                                                                         *)
(* A send begins at most one run, so a run carries the name of its send.   *)
(* The registry's `records` and the service's `handles` change in one      *)
(* synchronous stretch or one microtask apart, so one variable, `current`, *)
(* is the run both of them hold for the session. Every operation of a      *)
(* handle goes by the session and not by the run: `Emit` and the disposals *)
(* below reach whatever run is current when they execute.                  *)
(***************************************************************************)
EXTENDS Naturals, Sequences, FiniteSets

CONSTANTS Sends,        \* the sends of the session, and the runs they begin
          None,         \* no run
          RecentLimit,  \* ACTIVE_RUN_RECENT_EVENT_LIMIT
          MaxQueue      \* bound: events waiting for one listener

ASSUME SendsAssumption == IsFiniteSet(Sends) /\ None \notin Sends
ASSUME RecentAssumption == RecentLimit \in Nat \ {0}
ASSUME BoundAssumption == MaxQueue \in Nat

VARIABLES
  current,     \* the run of the session's record and handle, or None
  active,      \* is runningState of the current record starting or running?
  recent,      \* how many recentEvents the current record remembers
  sender,      \* how far each send has come
  target,      \* the run a send steers
  provider,    \* the provider's side of each run
  completion,  \* the continuation of launch.completed, or the catch block
  interrupting,  \* runs whose provider is being asked to interrupt
  listening,   \* runs whose persistence listener is attached
  queue,       \* the events that wait for each run's listener
  told,        \* history: which record was told what, on behalf of whom
  released,    \* runs disposed by their own completion or failed launch
  displaced,   \* runs disposed by the completion of another run
  abandoned    \* runs disposed by abandonRun

ends == <<released, displaced, abandoned>>
registry == <<current, active, recent, listening, queue, told, ends>>
vars == <<registry, sender, target, provider, completion, interrupting>>

\* an event and whether it came before its run's completion
Event == [run : Sends, early : BOOLEAN]
\* ahead: what each listener has yet to work off before the flush ends
Settlement == [step : {"none", "flushing", "done"}, ahead : [Sends -> Nat]]
Origins == {"begin", "launch", "sink", "settle", "interrupt"}

TypeOK ==
  /\ current \in Sends \union {None}
  /\ active \in BOOLEAN
  /\ recent \in 0 .. RecentLimit
  /\ sender \in [Sends -> {"idle", "steer", "steering", "start", "launching",
                           "accepted", "refused"}]
  /\ target \in [Sends -> Sends \union {None}]
  /\ provider \in [Sends -> {"none", "launching", "live", "ended", "crashed"}]
  /\ completion \in [Sends -> Settlement]
  /\ interrupting \in SUBSET Sends
  /\ listening \in SUBSET Sends
  /\ queue \in [Sends -> Seq(Event)]
  /\ told \in SUBSET [run : Sends, by : Sends, origin : Origins]
  /\ released \in SUBSET Sends
  /\ displaced \in SUBSET Sends
  /\ abandoned \in SUBSET Sends

Init ==
  /\ current = None
  /\ active = FALSE
  /\ recent = 0
  /\ sender = [m \in Sends |-> "idle"]
  /\ target = [m \in Sends |-> None]
  /\ provider = [r \in Sends |-> "none"]
  /\ completion = [r \in Sends |->
                    [step |-> "none", ahead |-> [l \in Sends |-> 0]]]
  /\ interrupting = {}
  /\ listening = {}
  /\ queue = [l \in Sends |-> <<>>]
  /\ told = {}
  /\ released = {}
  /\ displaced = {}
  /\ abandoned = {}

\* launched: the handle has the adapter's handlers
Attached(r) == sender[r] = "accepted"
Alive(r) == provider[r] \in {"launching", "live"}
-----------------------------------------------------------------------------
(* Registry operations, which find the record by its session.              *)

\* an event of the current record
EventNow == [run |-> current, early |-> completion[current].step = "none"]

\* an event on the session's record on behalf of run r leaves it in an active
\* or in a terminal state and is remembered for listeners to come
Remember(origin, r, next) ==
  /\ told' = told \union {[run |-> current, by |-> r, origin |-> origin]}
  /\ active' = next
  /\ recent' = IF recent < RecentLimit THEN recent + 1 ELSE recent

\* emit: it joins the queue of every listener of the session, also of those
\* that earlier runs have attached
Emit(origin, r, next) ==
  /\ Remember(origin, r, next)
  /\ queue' = [l \in Sends |-> IF l \in listening
                              THEN Append(queue[l], EventNow) ELSE queue[l]]

\* dispose and handles.delete on behalf of run r: the session's record and
\* handle, whichever run they are of
Dispose(r) ==
  /\ released' = released \union ({current} \intersect {r})
  /\ displaced' = displaced \union ({current} \ {r, None})
  /\ current' = None

\* Mutant of Flushing: the record is released without a flush.
FlushingNothing == [step |-> "flushing", ahead |-> [l \in Sends |-> 0]]

\* flushListeners waits for what is queued now
Flushing == [step |-> "flushing", ahead |-> [l \in Sends |-> Len(queue'[l])]]

Settled(r) == completion' = [completion EXCEPT ![r].step = "done"]

Room == \A l \in Sends : Len(queue[l]) < MaxQueue
-----------------------------------------------------------------------------
(* Sends.                                                                  *)

\* sendLiveMessageDirect looks for an active run and later acts on what it
\* has seen; a terminal record that is not released counts as no run
Send(m) ==
  /\ sender[m] = "idle"
  /\ sender' = [sender EXCEPT ![m] =
                  IF current # None /\ active
                  THEN "steer" ELSE "start"]
  /\ UNCHANGED <<registry, target, provider, completion, interrupting>>

\* submitToActiveRun takes the handle of the moment: refused without one,
\* and while its launch has not set the handler of in-run input
Steer(m) ==
  /\ sender[m] = "steer"
  /\ IF current = None \/ ~ Attached(current)
     THEN /\ sender' = [sender EXCEPT ![m] = "refused"]
          /\ UNCHANGED target
     ELSE /\ sender' = [sender EXCEPT ![m] = "steering"]
          /\ target' = [target EXCEPT ![m] = current]
  /\ UNCHANGED <<registry, provider, completion, interrupting>>

\* abandonRun drops the session's run, whichever it is by now
Abandon ==
  /\ abandoned' = abandoned \union ({current} \ {None})
  /\ current' = None
  /\ UNCHANGED <<active, recent, listening, queue, told, released, displaced>>

\* the provider answers the steer: it accepts it while its turn runs; after
\* the turn it is SESSION_NOT_RUNNING, and the send begins a run of its own
SteerAnswered(m) ==
  /\ sender[m] = "steering"
  /\ IF provider[target[m]] = "live"
     THEN /\ sender' = [sender EXCEPT ![m] = "accepted"]
          /\ UNCHANGED registry
     ELSE /\ sender' = [sender EXCEPT ![m] = "start"]
          /\ Abandon
  /\ UNCHANGED <<target, provider, completion, interrupting>>

\* Mutant of Begin: a terminal record is taken over before its release.
BeginOverTerminal(m) ==
  /\ sender[m] = "start"
  /\ IF current # None /\ active
     THEN /\ sender' = [sender EXCEPT ![m] = "refused"]
          /\ UNCHANGED <<registry, provider>>
     ELSE /\ sender' = [sender EXCEPT ![m] = "launching"]
          /\ provider' = [provider EXCEPT ![m] = "launching"]
          /\ current' = m
          /\ active' = TRUE
          /\ recent' = 1
          /\ UNCHANGED <<told, queue, listening, ends>>
  /\ UNCHANGED <<target, completion, interrupting>>

\* beginRun up to its first await; a record of another run refuses it
Begin(m) ==
  /\ sender[m] = "start"
  /\ IF current # None
     THEN /\ sender' = [sender EXCEPT ![m] = "refused"]
          /\ UNCHANGED <<registry, provider>>
     ELSE /\ sender' = [sender EXCEPT ![m] = "launching"]
          /\ provider' = [provider EXCEPT ![m] = "launching"]
          /\ current' = m
          /\ active' = TRUE
          /\ recent' = 1
          /\ told' = told \union {[run |-> m, by |-> m, origin |-> "begin"]}
          /\ queue' = [l \in Sends |-> IF l \in listening
               THEN Append(queue[l], [run |-> m, early |-> TRUE]) ELSE queue[l]]
          /\ UNCHANGED <<listening, ends>>
  /\ UNCHANGED <<target, completion, interrupting>>

\* the adapter has launched: the session's record is told, and the run's
\* listener attached, which replays what the record remembers; without a
\* record both throw, and nothing observes the provider's run any more
Launched(r) ==
  /\ provider[r] = "launching"
  /\ provider' = [provider EXCEPT ![r] = "live"]
  /\ IF current = None
     THEN /\ sender' = [sender EXCEPT ![r] = "refused"]
          /\ Settled(r)
          /\ UNCHANGED registry
     ELSE /\ sender' = [sender EXCEPT ![r] = "accepted"]
          /\ Remember("launch", r, TRUE)
          /\ listening' = listening \union {r}
          /\ queue' = [l \in Sends |->
               IF l = r THEN [i \in 1 .. recent' |-> EventNow]
               ELSE IF l \in listening THEN Append(queue[l], EventNow)
               ELSE queue[l]]
          /\ UNCHANGED <<current, completion, ends>>
  /\ UNCHANGED <<target, interrupting>>

\* the adapter throws: the catch block fails the session's record and
\* flushes its listeners
LaunchFails(r) ==
  /\ provider[r] = "launching"
  /\ provider' = [provider EXCEPT ![r] = "ended"]
  /\ sender' = [sender EXCEPT ![r] = "refused"]
  /\ IF current = None
     THEN Settled(r) /\ UNCHANGED registry
     ELSE /\ Emit("settle", r, FALSE)
          /\ completion' = [completion EXCEPT ![r] = Flushing]
          /\ UNCHANGED <<current, listening, ends>>
  /\ UNCHANGED <<target, interrupting>>
-----------------------------------------------------------------------------
(* The provider.                                                           *)

\* an event through the run's sink, dropped unless its handle is the
\* session's; a message revives a terminal record, a status replaces it
Output(r) ==
  /\ Room
  /\ provider[r] # "none"
  /\ completion[r].step = "none"
  /\ current = r
  /\ \E next \in BOOLEAN : Emit("sink", r, next)
  /\ UNCHANGED <<current, listening, ends, sender, target, provider,
                 completion, interrupting>>

\* the turn is over, or the provider is gone; launch.completed follows later,
\* once what the adapter still waits for has arrived
ProviderEnds(r) ==
  /\ provider[r] = "live"
  /\ \E how \in {"ended", "crashed"} : provider' = [provider EXCEPT ![r] = how]
  /\ UNCHANGED <<registry, sender, target, completion, interrupting>>

\* Mutant of Completed: a record already terminal is taken for released.
CompletedIfActive(r) ==
  /\ provider[r] \in {"ended", "crashed"}
  /\ completion[r].step = "none"
  /\ IF current = None \/ ~ active
     THEN Settled(r) /\ UNCHANGED registry
     ELSE /\ Emit("settle", r, FALSE)
          /\ completion' = [completion EXCEPT ![r] = Flushing]
          /\ UNCHANGED <<current, listening, ends>>
  /\ UNCHANGED <<sender, target, provider, interrupting>>

\* launch.completed settles: a record that is still active is completed, a
\* rejection fails it in any case, and its listeners are flushed
Completed(r) ==
  /\ provider[r] \in {"ended", "crashed"}
  /\ completion[r].step = "none"
  /\ IF current = None
     THEN Settled(r) /\ UNCHANGED registry
     ELSE /\ IF active \/ provider[r] = "crashed"
             THEN Emit("settle", r, FALSE)
             ELSE UNCHANGED <<active, recent, queue, told>>
          /\ completion' = [completion EXCEPT ![r] = Flushing]
          /\ UNCHANGED <<current, listening, ends>>
  /\ UNCHANGED <<sender, target, provider, interrupting>>

\* the listeners have worked off what was queued when the flush began: the
\* session's record and handle are released
Released(r) ==
  /\ completion[r].step = "flushing"
  /\ \A l \in Sends : completion[r].ahead[l] = 0
  /\ Settled(r)
  /\ Dispose(r)
  /\ UNCHANGED <<active, recent, listening, queue, told, abandoned, sender,
                 target, provider, interrupting>>

\* a provider whose transport is closed is found by whoever asks for the
\* session's state: its run is demoted and abandoned
ReconcileDeadRun ==
  /\ current # None
  /\ provider[current] = "crashed"
  /\ active
  /\ Abandon
  /\ UNCHANGED <<sender, target, provider, completion, interrupting>>

\* a listener has persisted the first event of its queue, or dropped it
\* because its record is disposed
Deliver(l) ==
  /\ queue[l] # <<>>
  /\ queue' = [queue EXCEPT ![l] = Tail(@)]
  /\ completion' = [r \in Sends |-> IF completion[r].ahead[l] = 0 THEN completion[r]
                     ELSE [completion[r] EXCEPT !.ahead[l] = @ - 1]]
  /\ UNCHANGED <<current, active, recent, listening, told, ends, sender,
                 target, provider, interrupting>>
-----------------------------------------------------------------------------
(* The user's interrupt: the handle is read, its provider asked, and the   *)
(* record of the moment told.                                              *)
InterruptBegin(r) ==
  /\ current = r
  /\ active
  /\ Attached(r)
  /\ interrupting' = interrupting \union {r}
  /\ UNCHANGED <<registry, sender, target, provider, completion>>

InterruptEnd(r) ==
  /\ r \in interrupting
  /\ Room
  /\ interrupting' = interrupting \ {r}
  /\ IF current = None
     THEN UNCHANGED registry
     ELSE /\ Emit("interrupt", r, FALSE)
          /\ UNCHANGED <<current, listening, ends>>
  /\ UNCHANGED <<sender, target, provider, completion>>
-----------------------------------------------------------------------------
Next ==
  \/ \E m \in Sends : Send(m) \/ Steer(m) \/ SteerAnswered(m) \/ Begin(m)
  \/ \E r \in Sends : Launched(r) \/ LaunchFails(r) \/ Output(r)
                      \/ ProviderEnds(r) \/ Completed(r) \/ Released(r)
                      \/ InterruptBegin(r) \/ InterruptEnd(r)
  \/ \E l \in Sends : Deliver(l)
  \/ ReconcileDeadRun

Spec == Init /\ [][Next]_vars

\* Promise continuations run, and a listener's writes settle; providers,
\* users and senders owe nothing.
Fairness == \A r \in Sends :
  WF_vars(Completed(r)) /\ WF_vars(Released(r)) /\ WF_vars(Deliver(r))

FairSpec == Spec /\ Fairness
-----------------------------------------------------------------------------
(* As long as no run has been abandoned a session has one execution chain: *)
(* at most one provider runs for it, it is the current one's, and only an  *)
(* interrupt can be told to another run than the one it was meant for.     *)
OneChainUntilAbandoned ==
  abandoned = {} =>
    /\ \A r \in Sends : Alive(r) => r = current
    /\ \A e \in told : e.origin # "interrupt" => e.run = e.by

(* flushListeners: a run that its own completion releases leaves none of   *)
(* its events up to that completion unpersisted by its own listener, which *)
(* would drop them.                                                        *)
CompletedRunIsPersisted ==
  \A r \in released : \A i \in DOMAIN queue[r] :
    ~ (queue[r][i].run = r /\ queue[r][i].early)

(* A run whose provider has ended does not stay the session's active run,  *)
(* whatever the sends, interrupts and other runs do meanwhile.             *)
RecordIsReleased ==
  \A r \in Sends : provider[r] \in {"ended", "crashed"} ~> current # r

(* One session has one execution chain: no two providers run for it.       *)
OneExecutionChain ==
  \A r, q \in Sends : Alive(r) /\ Alive(q) => r = q
=============================================================================
