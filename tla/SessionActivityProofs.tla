------------------------ MODULE SessionActivityProofs ------------------------
(***************************************************************************)
(* Theorems about the activity of a session, for every delay of the        *)
(* watchdog, every grace and every length of time.                         *)
(***************************************************************************)
EXTENDS SessionActivity, TLAPS

USE DelayAssumption, TimeAssumption

-----------------------------------------------------------------------------
(* Merging chooses one of the two; observations and rows give resolutions.  *)
LEMMA MergeChooses ==
  ASSUME NEW current, NEW next
  PROVE  mergeResolution(current, next) \in {current, next}
<1>1. MergeInRun(current, next) \in {current, next}
  <2>1. CASE Terminal(current) /\ ~ Terminal(next)
    BY <2>1 DEF MergeInRun
  <2>2. CASE ~ Terminal(current) /\ Terminal(next)
    BY <2>2 DEF MergeInRun
  <2>3. CASE Terminal(current) <=> Terminal(next)
    <3>1. Later(current, next) \in {current, next}
      BY DEF Later
    <3> QED  BY <2>3, <3>1 DEF MergeInRun
  <2> QED  BY <2>1, <2>2, <2>3
<1>2. Later(current, next) \in {current, next}
  BY DEF Later
<1> QED  BY <1>1, <1>2 DEF mergeResolution

LEMMA RunNames == 0 \in Time /\ 0 \in Run /\ Time \subseteq Run
BY DEF Time, Run

LEMMA ObservationType ==
  ASSUME NEW run \in Run, NEW state \in States, NEW source \in Sources,
         NEW confidence \in 1 .. 3, NEW at \in Time
  PROVE  Observation(run, state, source, confidence, at) \in Resolution
BY RunNames DEF Observation, Resolution

LEMMA RuntimeObservationType ==
  ASSUME NEW run \in Run, NEW state \in States, NEW at \in Time
  PROVE  RuntimeObservation(run, state, at) \in Resolution
BY ObservationType DEF RuntimeObservation, Sources

LEMMA SnapshotType ==
  ASSUME NEW h \in Host
  PROVE  Snapshot(h) \in Resolution
BY RunNames, RuntimeObservationType DEF Snapshot, Host, EventStates, States

LEMMA PersistedType ==
  ASSUME NEW r \in Row, now \in Time
  PROVE  createPersistedResolution(r) \in Resolution
<1> DEFINE ended == IF r.done # 0 THEN r.done ELSE r.seen
           source == PersistedSource(r)
<1>1. ended \in Time /\ source \in Sources
  BY DEF Row, PersistedSource, Sources
<1>2. r.state \in States /\ r.seen \in Time
  BY DEF Row, States
<1> HIDE DEF ended, source
<1>3. /\ (IF r.state # "none" THEN r.state
           ELSE IF source = "unknown" THEN "unknown" ELSE "idle") \in States
      /\ (IF source # "runtime" THEN 1 ELSE IF r.state = "terminal" THEN 2 ELSE 3) \in 1 .. 3
      /\ (IF r.state = "terminal" THEN ended ELSE 0) \in Time
      /\ (IF r.seen # 0 THEN r.seen
           ELSE IF r.state = "terminal" /\ ended # 0 THEN ended ELSE now) \in Time
      /\ 0 \in Time
  BY <1>1, <1>2 DEF States, Time
<1> QED  BY <1>1, <1>2, <1>3, RunNames DEF createPersistedResolution, Resolution, ended, source

-----------------------------------------------------------------------------
(* What the authority shows and watches.                                    *)
Shown == resolution \in Resolution
Timed == timers \in [run : Run, stale : 0 .. MaxTime + StaleAfter,
                     unknown : 0 .. MaxTime + UnknownAfter]

WatchInv == ActivityTypeOK /\ now >= 1 /\ WatchdogIsArmed

LEMMA DeadlineType ==
  ASSUME NEW r \in Resolution, now \in Time, now >= 1, NEW delay \in Nat
  PROVE  /\ Deadline(r, delay) = Latest(now, Evidence(r) + delay)
         /\ Deadline(r, delay) \in 1 .. MaxTime + delay
BY DEF Deadline, Evidence, Latest, Resolution, Time

(* Whatever becomes the resolution is watched if it has to be.              *)
LEMMA BecomeIsWatched ==
  ASSUME NEW r \in Resolution, now \in Time, now >= 1, Become(r), now' = now
  PROVE  Shown' /\ Timed' /\ WatchdogIsArmed'
<1>1. resolution' = r
  BY DEF Become
<1>2. CASE Watched(r)
  <2>1. timers' = [run |-> r.run, stale |-> Deadline(r, StaleAfter),
                   unknown |-> Deadline(r, UnknownAfter)]
    BY <1>2 DEF Become, syncWatchdog
  <2>2. /\ Deadline(r, StaleAfter) \in 1 .. MaxTime + StaleAfter
        /\ Deadline(r, UnknownAfter) \in 1 .. MaxTime + UnknownAfter
        /\ Deadline(r, StaleAfter) = Latest(now, Evidence(r) + StaleAfter)
    BY DeadlineType
  <2>3. r.run \in Run
    BY DEF Resolution
  <2>4. Timed'
    BY <2>1, <2>2, <2>3 DEF Timed, Time
  <2>5. timers'.stale \in 1 .. Latest(now, Evidence(r) + StaleAfter)
    BY <2>1, <2>2
  <2>6. timers'.unknown # 0 /\ timers'.run = r.run
    BY <2>1, <2>2
  <2>7. Latest(now, Evidence(r) + StaleAfter)' = Latest(now, Evidence(r) + StaleAfter)
    BY DEF Latest, Evidence
  <2> QED  BY <1>1, <2>4, <2>5, <2>6 DEF Shown, WatchdogIsArmed, Latest, Evidence
<1>3. CASE ~ Watched(r)
  <2>1. timers' = NoTimers
    BY <1>3 DEF Become, syncWatchdog
  <2>2. Timed'
    BY <2>1, RunNames DEF Timed, NoTimers, Time
  <2> QED  BY <1>1, <1>3, <2>2 DEF Shown, WatchdogIsArmed, Watched
<1> QED  BY <1>2, <1>3

LEMMA ObserveIsWatched ==
  ASSUME WatchInv, NEW o \in Resolution, observe(o), now' = now
  PROVE  Shown' /\ Timed' /\ WatchdogIsArmed'
<1>1. mergeResolution(resolution, o) \in Resolution
  BY MergeChooses DEF WatchInv, ActivityTypeOK
<1> QED  BY <1>1, BecomeIsWatched DEF observe, WatchInv, ActivityTypeOK

LEMMA ResolveIsWatched ==
  ASSUME WatchInv, NEW r \in Row, resolvePersistedSession(r), now' = now
  PROVE  Shown' /\ Timed' /\ WatchdogIsArmed'
<1> DEFINE next == IF resolution # Nothing /\ MoreTrustworthy(resolution, r)
                   THEN resolution ELSE createPersistedResolution(r)
<1>1. next \in Resolution
  BY PersistedType DEF WatchInv, ActivityTypeOK
<1>2. Become(next)
  BY DEF resolvePersistedSession
<1> HIDE DEF next
<1> QED  BY <1>1, <1>2, BecomeIsWatched DEF WatchInv, ActivityTypeOK

LEMMA ClearIsWatched ==
  ASSUME clearSession
  PROVE  Shown' /\ Timed' /\ WatchdogIsArmed'
BY RunNames
DEF clearSession, Shown, Timed, WatchdogIsArmed, Nothing, NoTimers, Resolution, Time,
    States, Sources

(* A watchdog timer that fires takes the run it watches out of `running`.   *)
LEMMA PromoteIsWatched ==
  ASSUME WatchInv, NEW state \in {"stale", "unknown"}, promoteWatchdogState(state)
  PROVE  Shown' /\ ~ (resolution'.source = "runtime" /\ resolution'.state = "running")
<1>1. resolution \in Resolution /\ now \in Time
  BY DEF WatchInv, ActivityTypeOK
<1>2. CASE /\ resolution.source = "runtime"
           /\ resolution.run = timers.run
           /\ resolution.state \in {"running", "stale"}
  <2> DEFINE c == IF state = "stale" THEN 2 ELSE 1
  <2>1. resolution' = [resolution EXCEPT !.state = state, !.updated = now, !.confidence = c]
    BY <1>2 DEF promoteWatchdogState
  <2>2. c \in 1 .. 3 /\ state \in States
    BY DEF States
  <2> HIDE DEF c
  <2> QED  BY <1>1, <2>1, <2>2 DEF Shown, Resolution
<1>3. CASE ~ (/\ resolution.source = "runtime"
              /\ resolution.run = timers.run
              /\ resolution.state \in {"running", "stale"})
  <2>1. resolution' = resolution
    BY <1>3 DEF promoteWatchdogState
  <2> QED  BY <1>1, <1>3, <2>1 DEF Shown, WatchInv, WatchdogIsArmed
<1> QED  BY <1>2, <1>3

-----------------------------------------------------------------------------
(* The steps.                                                               *)
LEMMA NowObserved ==
  ASSUME WatchInv
  PROVE  /\ now \in Time /\ now >= 1
         /\ host \in Host /\ host.start \in Time /\ host.seen \in Time
         /\ row \in Row /\ row.seen \in Time /\ row.done \in Time
         /\ resolution \in Resolution
         /\ event.at \in Time /\ event.state \in States
BY DEF WatchInv, ActivityTypeOK, Host, Row, EventStates, States

LEMMA TimerSteps ==
  ASSUME WatchInv, StaleFires \/ UnknownFires
  PROVE  WatchInv'
<1>1. CASE StaleFires
  <2>1. /\ promoteWatchdogState("stale")
        /\ timers' = [timers EXCEPT !.stale = 0]
        /\ UNCHANGED <<now, host, event, external, row, refresh, view>>
    BY <1>1 DEF StaleFires
  <2>2. Timed'
    BY <2>1 DEF WatchInv, ActivityTypeOK, Timed
  <2> QED
    BY <2>1, <2>2, PromoteIsWatched
    DEF WatchInv, ActivityTypeOK, WatchdogIsArmed, Shown, Timed
<1>2. CASE UnknownFires
  <2>1. /\ promoteWatchdogState("unknown")
        /\ timers' = NoTimers
        /\ UNCHANGED <<now, host, event, external, row, refresh, view>>
    BY <1>2 DEF UnknownFires
  <2>2. Timed'
    BY <2>1, RunNames DEF Timed, NoTimers, Time
  <2> QED
    BY <2>1, <2>2, PromoteIsWatched
    DEF WatchInv, ActivityTypeOK, WatchdogIsArmed, Shown, Timed
<1> QED  BY <1>1, <1>2

LEMMA BeginRunStep ==
  ASSUME WatchInv, BeginRun
  PROVE  WatchInv'
<1>1. /\ host' = [start |-> now, live |-> TRUE, state |-> "running", seen |-> now]
      /\ row' = [state |-> "running", source |-> "runtime", seen |-> now, done |-> 0]
      /\ external' = 0 /\ observe(Snapshot(host'))
      /\ UNCHANGED <<now, event, refresh, view>>
  BY DEF BeginRun
<1>2. host' \in Host /\ row' \in Row /\ external' \in Time
  BY <1>1, NowObserved DEF Host, Row, EventStates, Time
<1>3. Shown' /\ Timed' /\ WatchdogIsArmed'
  BY <1>1, <1>2, SnapshotType, ObserveIsWatched
<1> QED  BY <1>1, <1>2, <1>3 DEF WatchInv, ActivityTypeOK, Shown, Timed

LEMMA HostEventStep ==
  ASSUME WatchInv, HostEvent
  PROVE  WatchInv'
<1>1. PICK state \in {"running", "terminal"}, message \in BOOLEAN :
        /\ host' = [host EXCEPT !.state = state, !.seen = now]
        /\ event' = [state |-> state, message |-> message, at |-> now]
  BY DEF HostEvent
<1>2. UNCHANGED <<now, external, row, refresh, view, resolution, timers>>
  BY DEF HostEvent
<1>3. host' \in Host
  BY <1>1, NowObserved DEF Host, EventStates
<1>4. event' \in [state : EventStates, message : BOOLEAN, at : Time]
  BY <1>1, NowObserved DEF EventStates
<1> QED  BY <1>2, <1>3, <1>4 DEF WatchInv, ActivityTypeOK, WatchdogIsArmed

LEMMA PersistEventStep ==
  ASSUME WatchInv, PersistEvent
  PROVE  WatchInv'
<1>1. /\ event' = [state |-> "none", message |-> FALSE, at |-> 0]
      /\ UNCHANGED <<now, host, external, refresh, view>>
  BY DEF PersistEvent
<1>2. event' \in [state : EventStates, message : BOOLEAN, at : Time]
  BY <1>1 DEF EventStates, Time
<1>3. row' \in Row
  <2>1. CASE ~ event.message /\ row.state = "terminal"
    <3>1. row' = [row EXCEPT !.source = "runtime", !.seen = event.at]
      BY <2>1 DEF PersistEvent
    <3> QED  BY <3>1, NowObserved DEF Row
  <2>2. CASE ~ (~ event.message /\ row.state = "terminal")
    <3> DEFINE done == IF event.message THEN 0
                       ELSE IF event.state = "terminal" THEN event.at ELSE row.done
    <3>1. row' = [state |-> event.state, source |-> "runtime", seen |-> event.at,
                  done |-> done]
      BY <2>2 DEF PersistEvent
    <3>2. done \in Time
      BY NowObserved DEF Time
    <3>3. event.state \in {"none", "idle", "running", "terminal"}
      BY DEF WatchInv, ActivityTypeOK, EventStates
    <3> HIDE DEF done
    <3> QED  BY <3>1, <3>2, <3>3, NowObserved DEF Row
  <2> QED  BY <2>1, <2>2
<1>4. Shown' /\ Timed' /\ WatchdogIsArmed'
  <2>1. CASE event.message \/ row.state = "terminal"
    <3>1. UNCHANGED <<resolution, timers, now>>
      BY <1>1, <2>1 DEF PersistEvent
    <3> QED  BY <3>1 DEF WatchInv, ActivityTypeOK, Shown, Timed, WatchdogIsArmed
  <2>2. CASE ~ (event.message \/ row.state = "terminal")
    <3> DEFINE run == IF host.live THEN host.start ELSE event.at
    <3>1. observe(RuntimeObservation(run, event.state, event.at))
      BY <2>2 DEF PersistEvent
    <3>2. RuntimeObservation(run, event.state, event.at) \in Resolution
      BY RunNames, NowObserved, RuntimeObservationType
    <3> HIDE DEF run
    <3> QED  BY <1>1, <3>1, <3>2, ObserveIsWatched
  <2> QED  BY <2>1, <2>2
<1> QED  BY <1>1, <1>2, <1>3, <1>4 DEF WatchInv, ActivityTypeOK, Shown, Timed

LEMMA RunEndSteps ==
  ASSUME WatchInv, ReleaseRun \/ AbandonRun
  PROVE  WatchInv'
<1>1. /\ host' = NoRun(host.start)
      /\ UNCHANGED <<now, event, external, row, refresh, view, resolution, timers>>
  BY DEF ReleaseRun, AbandonRun
<1>2. host' \in Host
  BY <1>1, NowObserved DEF NoRun, Host, EventStates, Time
<1> QED  BY <1>1, <1>2 DEF WatchInv, ActivityTypeOK, WatchdogIsArmed

LEMMA DemoteDeadRunStep ==
  ASSUME WatchInv, DemoteDeadRun
  PROVE  WatchInv'
<1>1. /\ host' = NoRun(host.start)
      /\ observe(RuntimeObservation(host.start, "terminal", now))
      /\ UNCHANGED <<now, external, refresh, view>>
  BY DEF DemoteDeadRun
<1>2. host' \in Host
  BY <1>1, NowObserved DEF NoRun, Host, EventStates, Time
<1>3. row' \in Row
  BY NowObserved DEF DemoteDeadRun, Row
<1>4. event' \in [state : EventStates, message : BOOLEAN, at : Time]
  <2>1. event' = event \/ event' = [state |-> "none", message |-> FALSE, at |-> 0]
    BY DEF DemoteDeadRun
  <2>2. [state |-> "none", message |-> FALSE, at |-> 0]
          \in [state : EventStates, message : BOOLEAN, at : Time]
    BY DEF EventStates, Time
  <2> QED  BY <2>1, <2>2 DEF WatchInv, ActivityTypeOK
<1>5. RuntimeObservation(host.start, "terminal", now) \in Resolution
  BY RunNames, NowObserved, RuntimeObservationType DEF States
<1>6. Shown' /\ Timed' /\ WatchdogIsArmed'
  BY <1>1, <1>5, ObserveIsWatched
<1> QED  BY <1>1, <1>2, <1>3, <1>4, <1>6 DEF WatchInv, ActivityTypeOK, Shown, Timed

LEMMA ReconcileTerminalRunStep ==
  ASSUME WatchInv, ReconcileTerminalRun
  PROVE  WatchInv'
<1>1. observe(Snapshot(host)) /\ UNCHANGED <<now, host, event, external, refresh, view>>
  BY DEF ReconcileTerminalRun
<1>2. row' \in Row
  BY NowObserved DEF ReconcileTerminalRun, Row
<1>3. Shown' /\ Timed' /\ WatchdogIsArmed'
  BY <1>1, NowObserved, SnapshotType, ObserveIsWatched
<1> QED  BY <1>1, <1>2, <1>3 DEF WatchInv, ActivityTypeOK, Shown, Timed

LEMMA ExternalUpdateStep ==
  ASSUME WatchInv, ExternalUpdate
  PROVE  WatchInv'
<1>1. PICK state \in {"running", "terminal"}, confidence \in 2 .. 3 :
        /\ row' = IF row.seen > now THEN row
                  ELSE [state |-> state, source |-> "runtime", seen |-> now,
                        done |-> IF state = "terminal" THEN now ELSE 0]
        /\ observe(Observation(0, state, "provider", confidence, now))
        /\ external' = IF state = "running" THEN now ELSE 0
  BY DEF ExternalUpdate
<1>2. UNCHANGED <<now, host, event, refresh, view>>
  BY DEF ExternalUpdate
<1>3. 0 \in Time
  BY DEF Time
<1>4. row' \in Row /\ external' \in Time
  <2>1. (IF state = "terminal" THEN now ELSE 0) \in Time
    BY <1>3, NowObserved
  <2> QED  BY <1>1, <1>3, <2>1, NowObserved DEF Row
<1>5. Observation(0, state, "provider", confidence, now) \in Resolution
  BY RunNames, NowObserved, ObservationType DEF States, Sources
<1>6. Shown' /\ Timed' /\ WatchdogIsArmed'
  BY <1>1, <1>2, <1>5, ObserveIsWatched
<1> QED  BY <1>2, <1>4, <1>6 DEF WatchInv, ActivityTypeOK, Shown, Timed

LEMMA ExternalExpiresStep ==
  ASSUME WatchInv, ExternalExpires
  PROVE  WatchInv'
<1>1. external' = 0 /\ clearSession /\ UNCHANGED <<now, host, event, row, refresh, view>>
  BY DEF ExternalExpires
<1> QED
  BY <1>1, ClearIsWatched DEF WatchInv, ActivityTypeOK, Shown, Timed, Time

LEMMA ForceInterruptStep ==
  ASSUME WatchInv, ForceInterrupt
  PROVE  WatchInv'
<1>1. /\ row' = [row EXCEPT !.state = "terminal", !.source = "runtime", !.done = now]
      /\ external' = 0
      /\ observe(RuntimeObservation(0, "terminal", now))
      /\ UNCHANGED <<now, host, event, refresh, view>>
  BY DEF ForceInterrupt
<1>2. 0 \in Time
  BY DEF Time
<1>3. row' \in Row
  BY <1>1, NowObserved DEF Row
<1>4. RuntimeObservation(0, "terminal", now) \in Resolution
  BY RunNames, NowObserved, RuntimeObservationType DEF States
<1>5. Shown' /\ Timed' /\ WatchdogIsArmed'
  BY <1>1, <1>4, ObserveIsWatched
<1> QED  BY <1>1, <1>2, <1>3, <1>5 DEF WatchInv, ActivityTypeOK, Shown, Timed

(* The row that a refresh writes, whichever row it started from.            *)
LEMMA RefreshedRowType ==
  ASSUME NEW of \in Row, NEW found \in Resolution, NEW heard \in BOOLEAN,
         NEW at \in Time, NEW source \in {"inferred", "none"}
  PROVE  RefreshedRow(of, found, heard, at, source) \in Row
<1> DEFINE seen == IF heard THEN OrElse(found.seen, OrElse(at, of.seen)) ELSE of.seen
           done == IF found.state = "terminal"
                   THEN OrElse(found.terminal, OrElse(at, of.done)) ELSE 0
           from == IF found.source \in {"runtime", "provider"} THEN "runtime" ELSE source
<1>1. /\ of.seen \in Time /\ of.done \in Time
      /\ found.seen \in Time /\ found.terminal \in Time
  BY DEF Row, Resolution
<1>2. seen \in Time /\ done \in Time
  BY <1>1, RunNames DEF OrElse
<1>3. from \in {"runtime", "inferred", "none"}
  OBVIOUS
<1>4. StoredState(found.state) \in {"none", "idle", "running", "terminal"}
  BY DEF Resolution, States, StoredState
<1> HIDE DEF seen, done, from
<1>5. [state |-> StoredState(found.state), source |-> from, seen |-> seen, done |-> done] \in Row
  BY <1>2, <1>3, <1>4 DEF Row
<1> QED  BY <1>5 DEF RefreshedRow, seen, done, from

LEMMA RefreshLiveStep ==
  ASSUME WatchInv, RefreshLive
  PROVE  WatchInv'
<1>1. PICK o \in Resolution :
        observe(o) /\ row' = RefreshedRow(row, resolution', TRUE, 0, "none")
  <2>1. Snapshot(host) \in Resolution
    BY NowObserved, SnapshotType
  <2>2. Observation(0, "running", "provider", 3, external) \in Resolution
    BY RunNames, ObservationType DEF WatchInv, ActivityTypeOK, States, Sources
  <2> QED  BY <2>1, <2>2 DEF RefreshLive
<1>2. UNCHANGED <<now, host, event, external, refresh, view>>
  BY DEF RefreshLive
<1>3. Shown' /\ Timed' /\ WatchdogIsArmed'
  BY <1>1, <1>2, ObserveIsWatched
<1>4. row' \in Row
  BY <1>1, <1>3, RunNames, NowObserved, RefreshedRowType DEF Shown
<1> QED  BY <1>2, <1>3, <1>4 DEF WatchInv, ActivityTypeOK, Shown, Timed

LEMMA BeginRefreshStep ==
  ASSUME WatchInv, BeginRefresh
  PROVE  WatchInv'
<1>1. /\ refresh' = [since |-> now, of |-> row]
      /\ UNCHANGED <<now, host, event, external, row, view, resolution, timers>>
  BY DEF BeginRefresh
<1>2. refresh' \in [since : Time \ {0}, of : Row]
  BY <1>1, NowObserved DEF Time
<1> QED  BY <1>1, <1>2 DEF WatchInv, ActivityTypeOK, WatchdogIsArmed

LEMMA RefreshFacts ==
  ASSUME WatchInv, refresh # NoRefresh
  PROVE  refresh.of \in Row /\ refresh.since \in Time
BY DEF WatchInv, ActivityTypeOK

LEMMA EndWithProviderStep ==
  ASSUME WatchInv, EndWithProvider
  PROVE  WatchInv'
<1>1. PICK state \in {"idle", "running", "terminal"}, run \in {0} \union Turn,
           at \in Past \ {0} :
        /\ observe(Observation(run, state, "provider", 3, at))
        /\ row' = RefreshedRow(refresh.of, resolution', TRUE, at, "none")
  BY DEF EndWithProvider
<1>2. refresh' = NoRefresh /\ UNCHANGED <<now, host, event, external, view>>
  BY DEF EndWithProvider
<1>3. run \in Run /\ at \in Time
  BY NowObserved DEF Run, Time, Past
<1>4. Observation(run, state, "provider", 3, at) \in Resolution
  BY <1>3, ObservationType DEF States, Sources
<1>5. Shown' /\ Timed' /\ WatchdogIsArmed'
  BY <1>1, <1>2, <1>4, ObserveIsWatched
<1>6. row' \in Row
  BY <1>1, <1>3, <1>5, RefreshFacts, RefreshedRowType DEF EndWithProvider, Shown
<1> QED  BY <1>2, <1>5, <1>6 DEF WatchInv, ActivityTypeOK, Shown, Timed

LEMMA EndWithInspectionStep ==
  ASSUME WatchInv, EndWithInspection
  PROVE  WatchInv'
<1>1. PICK state \in {"idle", "running", "terminal"}, at \in Past :
        IF Preserves(refresh.of, state, at)
        THEN UNCHANGED <<row, resolution, timers>>
        ELSE /\ Become(mergeResolution(
                   IF Clears(refresh.of, at, refresh.since) THEN Nothing ELSE resolution,
                   Inspection(state, at, refresh.since)))
             /\ row' = RefreshedRow(refresh.of, resolution', HasEvidence(state, at), at,
                                    IF at # 0 THEN "inferred" ELSE "none")
  BY DEF EndWithInspection
<1>2. refresh' = NoRefresh /\ UNCHANGED <<now, host, event, external, view>>
  BY DEF EndWithInspection
<1>3. CASE Preserves(refresh.of, state, at)
  BY <1>1, <1>2, <1>3 DEF WatchInv, ActivityTypeOK, WatchdogIsArmed
<1>4. CASE ~ Preserves(refresh.of, state, at)
  <2> DEFINE current == IF Clears(refresh.of, at, refresh.since) THEN Nothing ELSE resolution
             o == Inspection(state, at, refresh.since)
  <2>1. at \in Time /\ refresh.of \in Row /\ refresh.since \in Time
    BY NowObserved, RefreshFacts DEF Past, Time, EndWithInspection
  <2>2. o \in Resolution
    <3>1. OrElse(at, refresh.since) \in Time
      BY <2>1 DEF OrElse
    <3> QED  BY <3>1, RunNames, ObservationType DEF Inspection, States, Sources
  <2>3. current \in Resolution
    BY RunNames, NowObserved DEF Nothing, Resolution, States, Sources
  <2> HIDE DEF current, o
  <2>4. mergeResolution(current, o) \in Resolution
    BY <2>2, <2>3, MergeChooses
  <2>5. Become(mergeResolution(current, o))
    BY <1>1, <1>4 DEF current, o
  <2>6. Shown' /\ Timed' /\ WatchdogIsArmed'
    BY <1>2, <2>4, <2>5, NowObserved, BecomeIsWatched
  <2>7. row' \in Row
    <3>1. HasEvidence(state, at) \in BOOLEAN
      BY DEF HasEvidence
    <3> QED  BY <1>1, <1>4, <2>1, <2>6, <3>1, RefreshedRowType DEF Shown
  <2> QED  BY <1>2, <2>6, <2>7 DEF WatchInv, ActivityTypeOK, Shown, Timed
<1> QED  BY <1>3, <1>4

LEMMA ReadStep ==
  ASSUME WatchInv, Read
  PROVE  WatchInv'
BY DEF Read, WatchInv, ActivityTypeOK, WatchdogIsArmed

LEMMA UseViewStep ==
  ASSUME WatchInv, UseView
  PROVE  WatchInv'
<1>1. view' = NoView /\ UNCHANGED <<now, host, event, external, row, refresh>>
  BY DEF UseView
<1>2. Shown' /\ Timed' /\ WatchdogIsArmed'
  <2>1. CASE view.kind = "run"
    <3>1. view.of \in Host /\ observe(Snapshot(view.of))
      BY <2>1 DEF UseView, WatchInv, ActivityTypeOK, NoView
    <3> QED  BY <1>1, <3>1, SnapshotType, ObserveIsWatched
  <2>2. CASE view.kind = "external"
    <3>1. view.at \in Time /\ observe(Observation(0, "running", "provider", 3, view.at))
      BY <2>2 DEF UseView, WatchInv, ActivityTypeOK, NoView
    <3>2. Observation(0, "running", "provider", 3, view.at) \in Resolution
      BY <3>1, RunNames, ObservationType DEF States, Sources
    <3> QED  BY <1>1, <3>1, <3>2, ObserveIsWatched
  <2>3. CASE view.kind = "row"
    <3>1. view.of \in Row /\ resolvePersistedSession(view.of)
      BY <2>3 DEF UseView, WatchInv, ActivityTypeOK, NoView
    <3> QED  BY <1>1, <3>1, ResolveIsWatched
  <2> QED  BY <2>1, <2>2, <2>3 DEF UseView, WatchInv, ActivityTypeOK, NoView
<1> QED  BY <1>1, <1>2 DEF WatchInv, ActivityTypeOK, Shown, Timed

LEMMA ListStep ==
  ASSUME WatchInv, List
  PROVE  WatchInv'
<1>1. resolvePersistedSession(row) /\ UNCHANGED <<now, host, event, external, row, refresh, view>>
  BY DEF List
<1>2. Shown' /\ Timed' /\ WatchdogIsArmed'
  BY <1>1, NowObserved, ResolveIsWatched
<1> QED  BY <1>1, <1>2 DEF WatchInv, ActivityTypeOK, Shown, Timed

LEMMA RestartStep ==
  ASSUME WatchInv, Restart
  PROVE  WatchInv'
<1>1. /\ host' = NoRun(host.start)
      /\ event' = [state |-> "none", message |-> FALSE, at |-> 0]
      /\ external' = 0 /\ refresh' = NoRefresh /\ view' = NoView
      /\ clearSession
      /\ UNCHANGED <<now, row>>
  BY DEF Restart
<1>2. host' \in Host
  BY <1>1, NowObserved DEF NoRun, Host, EventStates, Time
<1>3. external' \in Time /\ event' \in [state : EventStates, message : BOOLEAN, at : Time]
  BY <1>1 DEF EventStates, Time
<1> QED  BY <1>1, <1>2, <1>3, ClearIsWatched DEF WatchInv, ActivityTypeOK, Shown, Timed

LEMMA TickStep ==
  ASSUME WatchInv, Tick
  PROVE  WatchInv'
<1>1. /\ now' = now + 1 /\ now < MaxTime
      /\ UNCHANGED <<host, event, external, row, refresh, view, resolution, timers>>
  BY DEF Tick
<1>2. now' \in Time /\ now' >= 1
  BY <1>1, NowObserved DEF Time
<1>3. WatchdogIsArmed'
  <2> SUFFICES ASSUME resolution.source = "runtime" /\ resolution.state = "running"
               PROVE  /\ timers.run = resolution.run
                      /\ timers.stale \in 1 .. Latest(now + 1, Evidence(resolution) + StaleAfter)
                      /\ timers.unknown # 0
    BY <1>1 DEF WatchdogIsArmed, Latest, Evidence
  <2>1. /\ timers.run = resolution.run
        /\ timers.stale \in 1 .. Latest(now, Evidence(resolution) + StaleAfter)
        /\ timers.unknown # 0
    BY DEF WatchInv, WatchdogIsArmed
  <2>2. Evidence(resolution) + StaleAfter \in Nat /\ now \in Nat
    BY NowObserved DEF Evidence, Resolution, Time
  <2> QED  BY <2>1, <2>2 DEF Latest
<1> QED  BY <1>1, <1>2, <1>3 DEF WatchInv, ActivityTypeOK

LEMMA InitWatched == Init => WatchInv
<1> SUFFICES ASSUME Init PROVE WatchInv
  OBVIOUS
<1>1. 0 \in Time /\ now \in Time /\ now >= 1
  BY DEF Init, Time
<1>2. Nothing \in Resolution
  BY <1>1, RunNames DEF Nothing, Resolution, States, Sources
<1>3. ActivityTypeOK
  <2>1. host \in Host /\ row \in Row
    BY <1>1 DEF Init, NoRun, Host, Row, EventStates
  <2>2. event \in [state : EventStates, message : BOOLEAN, at : Time]
    BY <1>1 DEF Init, EventStates
  <2>3. timers \in [run : Run, stale : 0 .. MaxTime + StaleAfter,
                   unknown : 0 .. MaxTime + UnknownAfter]
    BY <1>1, RunNames DEF Init, NoTimers
  <2> QED  BY <1>1, <1>2, <2>1, <2>2, <2>3 DEF Init, ActivityTypeOK
<1> QED  BY <1>1, <1>3 DEF Init, WatchInv, WatchdogIsArmed, Nothing

LEMMA WatchInvStep ==
  ASSUME WatchInv, Next
  PROVE  WatchInv'
BY TimerSteps, BeginRunStep, HostEventStep, PersistEventStep, RunEndSteps,
   DemoteDeadRunStep, ReconcileTerminalRunStep, ExternalUpdateStep, ExternalExpiresStep,
   ForceInterruptStep, RefreshLiveStep, BeginRefreshStep, EndWithProviderStep,
   EndWithInspectionStep, ReadStep, UseViewStep, ListStep, RestartStep, TickStep
DEF Next

LEMMA WatchInvHolds == Spec => []WatchInv
<1>1. WatchInv /\ [Next]_vars => WatchInv'
  <2> SUFFICES ASSUME WatchInv, [Next]_vars PROVE WatchInv'
    OBVIOUS
  <2>1. CASE UNCHANGED vars
    BY <2>1 DEF vars, WatchInv, ActivityTypeOK, WatchdogIsArmed
  <2>2. CASE Next
    BY <2>2, WatchInvStep
  <2> QED  BY <2>1, <2>2
<1> QED  BY <1>1, InitWatched, PTL DEF Spec

(* Every variable keeps its type, for ever.                                 *)
THEOREM ActivityTypeCorrect == Spec => []ActivityTypeOK
<1>1. WatchInv => ActivityTypeOK
  BY DEF WatchInv
<1> QED  BY <1>1, WatchInvHolds, PTL

(* A host run shown as running is always under watch.                       *)
THEOREM ShownRunIsWatched == Spec => []WatchdogIsArmed
<1>1. WatchInv => WatchdogIsArmed
  BY DEF WatchInv
<1> QED  BY <1>1, WatchInvHolds, PTL

-----------------------------------------------------------------------------
(* The live run and what is shown.  A run with a host's name has been       *)
(* observed by the host: its end is as late as its last evidence, and what  *)
(* is not degraded was updated by that evidence.                            *)
Vouched(r) ==
  r.run > 0 =>
    /\ r.source = "runtime"
    /\ r.terminal <= r.seen
    /\ r.state \in {"stale", "unknown"} => r.confidence <= 2
    /\ r.state \notin {"stale", "unknown"} => r.updated = r.seen
    /\ Terminal(r) => r.confidence <= 2

(* Nothing names a run that has not begun.                                  *)
Known(r) == r.run <= now /\ (host.live => r.run <= host.start)

LiveInv ==
  /\ WatchInv
  /\ host.start <= now /\ event.at <= now
  /\ host.live => host.start >= 1
  /\ view.kind = "run" => view.of.start \in 1 .. host.start
  /\ Vouched(resolution)
  /\ Known(resolution)

LEMMA RuntimeIsVouched ==
  ASSUME NEW run, NEW state \in EventStates, NEW at \in Time
  PROVE  /\ Vouched(RuntimeObservation(run, state, at))
         /\ RuntimeObservation(run, state, at).run = run
<1> DEFINE o == RuntimeObservation(run, state, at)
<1>1. /\ o.run = run /\ o.source = "runtime" /\ o.seen = at /\ o.updated = at
      /\ o.state = state
  BY DEF RuntimeObservation, Observation
<1>2. o.terminal = IF state = "terminal" THEN at ELSE 0
  BY DEF RuntimeObservation, Observation
<1>3. o.terminal <= at
  BY <1>2 DEF Time
<1>4. state = "terminal" => o.confidence = 2
  BY DEF RuntimeObservation, Observation
<1> HIDE DEF o
<1>5. Vouched(o)
  BY <1>1, <1>3, <1>4 DEF Vouched, Terminal, EventStates
<1> QED  BY <1>1, <1>5 DEF o

LEMMA UnnamedIsVouched ==
  ASSUME NEW r, r.run \in Int, r.run <= 0
  PROVE  Vouched(r)
BY DEF Vouched

(* The snapshot of a run no older than the one that is shown is shown, or   *)
(* else what is shown has evidence of that run that is no older.            *)
LEMMA SnapshotIsShown ==
  ASSUME NEW current \in Resolution, Vouched(current),
         NEW h \in Host, h.start >= 1, current.run <= h.start
  PROVE  /\ mergeResolution(current, Snapshot(h)).run = h.start
         /\ mergeResolution(current, Snapshot(h)).seen >= h.seen
<1> DEFINE next == Snapshot(h)
           merged == mergeResolution(current, next)
<1>1. /\ next.run = h.start /\ next.seen = h.seen /\ next.updated = h.seen
      /\ next.source = "runtime" /\ next.state = h.state
      /\ next.confidence = IF Terminal(next) THEN 2 ELSE 3
  BY DEF Snapshot, RuntimeObservation, Observation, Terminal
<1>2. /\ current.run \in Int /\ current.seen \in Int /\ current.updated \in Int
      /\ current.terminal \in Int /\ current.confidence \in 1 .. 3
      /\ h.start \in Int /\ h.seen \in Int
  BY DEF Resolution, Host, Run, Turn, Time
<1>3. merged = mergeResolution(current, next)
  OBVIOUS
<1> HIDE DEF next, merged
<1>4. ASSUME merged = next
      PROVE  merged.run = h.start /\ merged.seen >= h.seen
  BY <1>1, <1>2, <1>4
<1>5. ASSUME merged # next
      PROVE  merged.run = h.start /\ merged.seen >= h.seen
  <2>1. ~ isNewerRun(current.run, next.run) /\ current # Nothing
        /\ ~ PreferTerminal(current, next)
    BY <1>3, <1>5 DEF mergeResolution
  <2>2. current.run = next.run /\ current.run > 0
    BY <1>1, <1>2, <2>1 DEF isNewerRun
  <2>3. merged = MergeInRun(current, next)
    BY <1>1, <1>2, <1>3, <2>1, <2>2 DEF mergeResolution
  <2>4. /\ current.source = "runtime"
        /\ current.terminal <= current.seen
        /\ current.state \in {"stale", "unknown"} => current.confidence <= 2
        /\ current.state \notin {"stale", "unknown"} => current.updated = current.seen
        /\ Terminal(current) => current.confidence <= 2
    BY <2>2 DEF Vouched
  <2>5. CASE Terminal(current) /\ ~ Terminal(next)
    <3>1. ~ isNewerThanTerminal(current, next) /\ merged = current
      BY <1>5, <2>3, <2>5 DEF MergeInRun
    <3> QED  BY <1>1, <1>2, <2>2, <2>4, <3>1 DEF isNewerThanTerminal
  <2>6. CASE ~ Terminal(current) /\ Terminal(next)
    BY <1>5, <2>3, <2>6 DEF MergeInRun
  <2>7. CASE Terminal(current) <=> Terminal(next)
    <3>1. CASE StaysDegraded(current, next)
      <4>1. merged = current
        BY <2>3, <2>7, <3>1 DEF MergeInRun
      <4> QED  BY <1>1, <1>2, <2>2, <3>1, <4>1 DEF StaysDegraded
    <3>2. CASE ~ StaysDegraded(current, next)
      <4>1. ~ IdleClearsInferred(current, next)
        BY <1>1 DEF IdleClearsInferred
      <4>2. ~ isHigherPriority(current, next)
        BY <1>1, <1>2, <2>4, <2>7 DEF isHigherPriority, Priority
      <4>3. ~ isHigherPriority(next, current) /\ merged = Later(current, next)
        BY <1>5, <2>3, <2>7, <3>2, <4>1, <4>2 DEF MergeInRun
      <4>4. merged = current /\ current.updated >= next.updated
        BY <1>5, <4>3 DEF Later
      <4>5. current.state \notin {"stale", "unknown"}
        BY <1>1, <1>2, <2>4, <2>7, <4>3 DEF isHigherPriority, Terminal
      <4> QED  BY <1>1, <1>2, <2>2, <2>4, <4>4, <4>5
    <3> QED  BY <3>1, <3>2
  <2> QED  BY <2>5, <2>6, <2>7
<1> QED  BY <1>4, <1>5 DEF next, merged

(* What is observed of the host's run, or without its name.                 *)
LEMMA SnapshotFits ==
  ASSUME NEW h \in Host
  PROVE  Vouched(Snapshot(h)) /\ Snapshot(h).run = h.start
BY RuntimeIsVouched DEF Snapshot, Host

LEMMA ObservationRun ==
  ASSUME NEW run, NEW state, NEW source, NEW confidence, NEW at
  PROVE  Observation(run, state, source, confidence, at).run = run
BY DEF Observation

LEMMA PersistedRun ==
  ASSUME NEW r
  PROVE  createPersistedResolution(r).run = 0
BY DEF createPersistedResolution

Fits(r) == Vouched(r) /\ Known(r)

LEMMA UnnamedFits ==
  ASSUME LiveInv, NEW r, r.run \in Int, r.run <= 0
  PROVE  Fits(r)
<1>1. now \in Int /\ now >= 1 /\ (host.live => host.start >= 1) /\ host.start \in Int
  BY NowObserved DEF LiveInv, Time
<1>2. Known(r)
  BY <1>1 DEF Known
<1> QED  BY <1>2, UnnamedIsVouched DEF Fits

(* What is shown next fits too, as long as no run begins.                   *)
Remains ==
  /\ Vouched(resolution')
  /\ resolution'.run <= now
  /\ host.live => resolution'.run <= host.start

(* Merging chooses what fits.                                               *)
LEMMA ObservedFits ==
  ASSUME LiveInv, NEW o, Fits(o), observe(o)
  PROVE  Remains
<1>1. resolution' = resolution \/ resolution' = o
  BY MergeChooses DEF observe, Become
<1>2. Fits(resolution)
  BY DEF LiveInv, Fits
<1> QED  BY <1>1, <1>2 DEF Fits, Known, Remains

LEMMA PromotedFits ==
  ASSUME LiveInv, NEW state \in {"stale", "unknown"}, promoteWatchdogState(state)
  PROVE  Vouched(resolution') /\ resolution'.run = resolution.run
<1>1. resolution \in Resolution /\ now \in Time /\ Vouched(resolution)
  BY NowObserved DEF LiveInv
<1>2. CASE resolution' = resolution
  BY <1>1, <1>2
<1>3. CASE resolution' # resolution
  <2> DEFINE c == IF state = "stale" THEN 2 ELSE 1
  <2>1. resolution' = [resolution EXCEPT !.state = state, !.updated = now, !.confidence = c]
    BY <1>3 DEF promoteWatchdogState
  <2>2. c <= 2
    OBVIOUS
  <2> HIDE DEF c
  <2>3. /\ resolution'.run = resolution.run /\ resolution'.source = resolution.source
        /\ resolution'.terminal = resolution.terminal /\ resolution'.seen = resolution.seen
        /\ resolution'.state = state /\ resolution'.confidence = c
    BY <1>1, <2>1 DEF Resolution
  <2> QED  BY <1>1, <2>2, <2>3 DEF Vouched, Terminal
<1> QED  BY <1>2, <1>3

(* What is shown after a step other than the begin of a run.                *)
LEMMA ShownFits ==
  ASSUME LiveInv, Next, ~ BeginRun
  PROVE  Remains
<1>1. /\ WatchInv /\ Fits(resolution)
      /\ now \in Int /\ now >= 1 /\ host \in Host /\ host.start \in Int /\ event.at \in Time
      /\ event.at <= now /\ host.start <= now /\ (host.live => host.start >= 1)
  BY NowObserved DEF LiveInv, Fits, Time
<1>2. Fits(Nothing)
  BY UnnamedFits DEF Nothing
<1>3. \A r : (r = resolution \/ r = Nothing) /\ resolution' = r => Remains
  BY <1>1, <1>2 DEF Fits, Known, Remains
<1>4. \A o : Fits(o) /\ observe(o) => Remains
  BY ObservedFits
<1>5. \A r : resolvePersistedSession(r) => Remains
  <2> SUFFICES ASSUME NEW r, resolvePersistedSession(r) PROVE Remains
    OBVIOUS
  <2>1. Fits(createPersistedResolution(r))
    BY PersistedRun, UnnamedFits
  <2>2. resolution' = resolution \/ resolution' = createPersistedResolution(r)
    BY DEF resolvePersistedSession, Become
  <2> QED  BY <1>1, <2>1, <2>2 DEF Fits, Known, Remains
<1>6. \A state, source, confidence, at, run :
        run \in Int /\ run <= 0 => Fits(Observation(run, state, source, confidence, at))
  BY ObservationRun, UnnamedFits
<1>7. \A state, at : state \in EventStates /\ at \in Time =>
        /\ host.live => Fits(RuntimeObservation(host.start, state, at))
        /\ Fits(RuntimeObservation(0, state, at))
  BY <1>1, RuntimeIsVouched DEF Fits, Known
<1>8. host.live => Fits(Snapshot(host))
  BY <1>1, SnapshotFits DEF Fits, Known
<1>9. CASE StaleFires \/ UnknownFires
  BY <1>1, <1>9, PromotedFits DEF StaleFires, UnknownFires, Fits, Known, Remains
<1>10. CASE UNCHANGED resolution
  BY <1>3, <1>10
<1>11. CASE PersistEvent
  <2>1. CASE event.message \/ row.state = "terminal"
    BY <1>10, <1>11, <2>1 DEF PersistEvent
  <2>2. CASE ~ (event.message \/ row.state = "terminal")
    <3>1. event.state \in EventStates
      BY <1>1 DEF WatchInv, ActivityTypeOK
    <3>2. CASE host.live
      BY <1>1, <1>4, <1>7, <1>11, <2>2, <3>1, <3>2 DEF PersistEvent
    <3>3. CASE ~ host.live
      <4>1. Fits(RuntimeObservation(event.at, event.state, event.at))
        BY <1>1, <3>1, <3>3, RuntimeIsVouched DEF Fits, Known
      <4> QED  BY <1>4, <1>11, <2>2, <3>3, <4>1 DEF PersistEvent
    <3> QED  BY <3>2, <3>3
  <2> QED  BY <2>1, <2>2
<1>12. CASE DemoteDeadRun
  BY <1>1, <1>4, <1>7, <1>12, NowObserved DEF DemoteDeadRun, Running, EventStates
<1>13. CASE ReconcileTerminalRun
  BY <1>4, <1>8, <1>13 DEF ReconcileTerminalRun
<1>14. CASE ExternalUpdate
  BY <1>4, <1>6, <1>14 DEF ExternalUpdate
<1>15. CASE ExternalExpires \/ Restart
  BY <1>3, <1>15 DEF ExternalExpires, Restart, clearSession
<1>16. CASE ForceInterrupt
  BY <1>1, <1>4, <1>7, <1>16, NowObserved DEF ForceInterrupt, EventStates
<1>17. CASE RefreshLive
  BY <1>4, <1>6, <1>8, <1>17 DEF RefreshLive
<1>18. CASE EndWithProvider
  <2>1. PICK state \in {"idle", "running", "terminal"}, run \in {0} \union Turn,
             at \in Past \ {0} : observe(Observation(run, state, "provider", 3, at))
    BY <1>18 DEF EndWithProvider
  <2>2. run \in Int /\ run <= 0
    BY DEF Turn
  <2> QED  BY <1>4, <1>6, <2>1, <2>2
<1>19. CASE EndWithInspection
  <2>1. PICK state \in {"idle", "running", "terminal"}, at \in Past :
          \/ UNCHANGED resolution
          \/ \E current \in {Nothing, resolution} :
               resolution' = mergeResolution(current, Inspection(state, at, refresh.since))
    BY <1>19 DEF EndWithInspection, Become
  <2>2. Fits(Inspection(state, at, refresh.since))
    BY <1>6 DEF Inspection
  <2>3. \/ resolution' = resolution \/ resolution' = Nothing
        \/ resolution' = Inspection(state, at, refresh.since)
    BY <2>1, MergeChooses
  <2> QED  BY <1>1, <1>2, <2>2, <2>3 DEF Fits, Known, Remains
<1>20. CASE UseView
  <2>1. view.kind \in {"run", "external", "row"}
    BY <1>1, <1>20 DEF UseView, WatchInv, ActivityTypeOK, NoView
  <2>2. CASE view.kind = "run"
    <3>1. view.of \in Host /\ view.of.start \in Int /\ view.of.start <= host.start
      BY <1>1, <2>2 DEF LiveInv, WatchInv, ActivityTypeOK, NoView, Host, Time
    <3>2. Fits(Snapshot(view.of))
      BY <1>1, <3>1, SnapshotFits DEF Fits, Known
    <3> QED  BY <1>4, <1>20, <2>2, <3>2 DEF UseView
  <2>3. CASE view.kind = "external"
    BY <1>4, <1>6, <1>20, <2>3 DEF UseView
  <2>4. CASE view.kind = "row"
    BY <1>5, <1>20, <2>4 DEF UseView
  <2> QED  BY <2>1, <2>2, <2>3, <2>4
<1>21. CASE List
  BY <1>5, <1>21 DEF List
<1>22. CASE HostEvent \/ ReleaseRun \/ AbandonRun \/ BeginRefresh \/ Read \/ Tick
  BY <1>10, <1>22 DEF HostEvent, ReleaseRun, AbandonRun, BeginRefresh, Read, Tick
<1> QED
  BY <1>9, <1>11, <1>12, <1>13, <1>14, <1>15, <1>16, <1>17, <1>18, <1>19, <1>20, <1>21,
     <1>22
  DEF Next

LEMMA BeginRunIsLive ==
  ASSUME LiveInv, BeginRun
  PROVE  LiveInv'
<1>1. /\ host' = [start |-> now, live |-> TRUE, state |-> "running", seen |-> now]
      /\ observe(Snapshot(host')) /\ host.start < now
      /\ UNCHANGED <<now, event, view>>
  BY DEF BeginRun
<1>2. /\ WatchInv' /\ now \in Time /\ now >= 1
      /\ host' \in Host /\ host'.start = now /\ host.start \in Time
  BY <1>1, BeginRunStep, NowObserved DEF LiveInv, Host, EventStates
<1>3. Vouched(Snapshot(host')) /\ Snapshot(host').run = now
  BY <1>2, SnapshotFits
<1>4. resolution' = resolution \/ resolution' = Snapshot(host')
  BY <1>1, MergeChooses DEF observe, Become
<1>5. Vouched(resolution') /\ resolution'.run <= now
  BY <1>2, <1>3, <1>4 DEF LiveInv, Known, Time
<1>6. view'.kind = "run" => view'.of.start \in 1 .. host'.start
  BY <1>1, <1>2 DEF LiveInv, Time
<1>7. event'.at <= now' /\ host'.start <= now' /\ host'.start >= 1
  BY <1>1, <1>2 DEF LiveInv, Time
<1> QED  BY <1>1, <1>2, <1>5, <1>6, <1>7 DEF LiveInv, Known, Vouched, Terminal

(* Apart from the begin of a run, the host's latest run remains the same,   *)
(* and a reader takes the live one.                                         *)
LEMMA HostStays ==
  ASSUME LiveInv, Next, ~ BeginRun
  PROVE  /\ host'.start = host.start
         /\ host'.live => host.live
         /\ now' \in {now, now + 1}
         /\ event'.at \in {event.at, now, 0}
         /\ view' \in {view, NoView} \/ Read
<1>1. host \in Host /\ event.at \in Time
  BY NowObserved DEF LiveInv
<1>2. \/ host' = host
      \/ host' = NoRun(host.start)
      \/ \E state : host' = [host EXCEPT !.state = state, !.seen = now]
  BY DEF Next, StaleFires, UnknownFires, HostEvent, PersistEvent, ReleaseRun, DemoteDeadRun,
         AbandonRun, ReconcileTerminalRun, ExternalUpdate, ExternalExpires, ForceInterrupt,
         RefreshLive, BeginRefresh, EndWithProvider, EndWithInspection, Read, UseView, List,
         Restart, Tick
<1>3. host'.start = host.start /\ (host'.live => host.live)
  <2>1. CASE host' = NoRun(host.start)
    BY <2>1 DEF NoRun
  <2>2. ASSUME NEW state, host' = [host EXCEPT !.state = state, !.seen = now]
        PROVE  host'.start = host.start /\ host'.live = host.live
    BY <1>1, <2>2 DEF Host
  <2> QED  BY <1>2, <2>1, <2>2
<1>4. now' = now \/ now' = now + 1
  BY DEF Next, StaleFires, UnknownFires, HostEvent, PersistEvent, ReleaseRun, DemoteDeadRun,
         AbandonRun, ReconcileTerminalRun, ExternalUpdate, ExternalExpires, ForceInterrupt,
         RefreshLive, BeginRefresh, EndWithProvider, EndWithInspection, Read, UseView, List,
         Restart, Tick
<1>5. \/ event' = event
      \/ event' = [state |-> "none", message |-> FALSE, at |-> 0]
      \/ \E state, message : event' = [state |-> state, message |-> message, at |-> now]
  BY DEF Next, StaleFires, UnknownFires, HostEvent, PersistEvent, ReleaseRun, DemoteDeadRun,
         AbandonRun, ReconcileTerminalRun, ExternalUpdate, ExternalExpires, ForceInterrupt,
         RefreshLive, BeginRefresh, EndWithProvider, EndWithInspection, Read, UseView, List,
         Restart, Tick
<1>6. view' = view \/ view' = NoView \/ Read
  BY DEF Next, StaleFires, UnknownFires, HostEvent, PersistEvent, ReleaseRun, DemoteDeadRun,
         AbandonRun, ReconcileTerminalRun, ExternalUpdate, ExternalExpires, ForceInterrupt,
         RefreshLive, BeginRefresh, EndWithProvider, EndWithInspection, UseView, List,
         Restart, Tick
<1> QED  BY <1>3, <1>4, <1>5, <1>6

LEMMA OtherStepIsLive ==
  ASSUME LiveInv, Next, ~ BeginRun
  PROVE  LiveInv'
<1>1. WatchInv'
  BY WatchInvStep DEF LiveInv
<1>2. /\ now \in Int /\ host.start \in Int /\ event.at \in Int /\ now >= 1
      /\ resolution' \in Resolution /\ resolution'.run \in Int
  BY <1>1, NowObserved DEF LiveInv, WatchInv, ActivityTypeOK, Time, Resolution, Run, Turn
<1>3. Remains
  BY ShownFits
<1>4. host'.start <= now' /\ event'.at <= now' /\ (host'.live => host'.start >= 1)
  BY <1>2, HostStays DEF LiveInv
<1>5. view'.kind = "run" => view'.of.start \in 1 .. host'.start
  <2>1. CASE view' = view
    BY <2>1, HostStays DEF LiveInv
  <2>2. CASE view' = NoView
    BY <2>2 DEF NoView
  <2>3. CASE Read
    <3>1. /\ view'.kind = "run" => host.live /\ view'.of = host
      BY <2>3 DEF Read
    <3> QED  BY <1>2, <3>1, HostStays DEF LiveInv
  <2> QED  BY <2>1, <2>2, <2>3, HostStays
<1>6. resolution'.run <= now' /\ (host'.live => resolution'.run <= host'.start)
  BY <1>2, <1>3, HostStays DEF Remains
<1>7. Vouched(resolution)'
  BY <1>3 DEF Remains, Vouched, Terminal
<1> QED  BY <1>1, <1>4, <1>5, <1>6, <1>7 DEF LiveInv, Known

LEMMA LiveInvHolds == Spec => []LiveInv
<1>1. Init => LiveInv
  <2> SUFFICES ASSUME Init PROVE LiveInv
    OBVIOUS
  <2>1. host.start = 0 /\ ~ host.live /\ event.at = 0 /\ now = 1 /\ view = NoView
    BY DEF Init, NoRun
  <2>2. resolution.run = 0
    BY DEF Init, Nothing
  <2> QED
    BY <2>1, <2>2, InitWatched, UnnamedIsVouched DEF LiveInv, Known, NoView
<1>2. LiveInv /\ [Next]_vars => LiveInv'
  <2> SUFFICES ASSUME LiveInv, [Next]_vars PROVE LiveInv'
    OBVIOUS
  <2>1. CASE UNCHANGED vars
    BY <2>1
    DEF vars, LiveInv, Known, Vouched, Terminal, WatchInv, ActivityTypeOK, WatchdogIsArmed,
        Evidence, Latest
  <2>2. CASE Next
    BY <2>2, BeginRunIsLive, OtherStepIsLive
  <2> QED  BY <2>1, <2>2
<1> QED  BY <1>1, <1>2, PTL DEF Spec

(* Whatever a late reader, the log, a hook or an old row has made of the    *)
(* session, and however many of them wait at once: the next look at the     *)
(* live run shows that run again, with evidence no older than what was seen *)
(* of it, for any delays (mergeResolution, refreshSessionState).            *)
THEOREM LiveRunComesBack == Spec => LiveRunIsShown
<1> DEFINE Back ==
      host.live =>
        /\ RefreshLive => Shows(host)
        /\ UseView /\ view.kind = "run" /\ view.of.start = host.start => Shows(view.of)
<1>1. LiveInv /\ [Next]_vars => [Back]_vars
  <2> SUFFICES ASSUME LiveInv, host.live PROVE Back
    OBVIOUS
  <2>1. /\ resolution \in Resolution /\ Vouched(resolution) /\ host \in Host
        /\ host.start >= 1 /\ resolution.run <= host.start
    BY NowObserved DEF LiveInv, Known
  <2>2. ASSUME RefreshLive PROVE Shows(host)
    <3>1. resolution' = mergeResolution(resolution, Snapshot(host))
      BY <2>2 DEF RefreshLive, observe, Become
    <3> QED  BY <2>1, <3>1, SnapshotIsShown DEF Shows
  <2>3. ASSUME UseView, view.kind = "run", view.of.start = host.start
        PROVE  Shows(view.of)
    <3>1. resolution' = mergeResolution(resolution, Snapshot(view.of))
      BY <2>3 DEF UseView, observe, Become
    <3>2. view.of \in Host
      BY <2>3 DEF LiveInv, WatchInv, ActivityTypeOK, NoView
    <3>3. view.of.start >= 1 /\ resolution.run <= view.of.start
      BY <2>1, <2>3
    <3> QED  BY <2>1, <3>1, <3>2, <3>3, SnapshotIsShown DEF Shows
  <2> QED  BY <2>2, <2>3
<1> HIDE DEF Back
<1>2. Spec => [][Back]_vars
  BY <1>1, LiveInvHolds, PTL DEF Spec
<1> QED  BY <1>2 DEF Back, LiveRunIsShown

=============================================================================
