--------------------------- MODULE SessionActivity ---------------------------
(***************************************************************************)
(* What the host shows of one session's activity                           *)
(* (apps/host/src/modules/sessions/session-activity-authority-service.ts), *)
(* together with those who observe for it: the host's own run and its      *)
(* events, hooks of a provider that runs outside the host, the inspection  *)
(* of the provider's log, the user's interrupt, and the readers of the     *)
(* persisted row (session-live-runtime-service.ts and                      *)
(* session-history-service.ts).                                            *)
(*                                                                         *)
(* starting counts as running; completed, interrupted and failed are       *)
(* terminal. A time stands for an ISO timestamp and 0 for a missing one. A *)
(* run is named by its start, as in buildRuntimeRunId; 0 is no run, and a  *)
(* negative name one of a provider's turn, which sorts before every run of *)
(* the host. A session has hooks or a provider that tells its activity;    *)
(* the model lets it have both.                                            *)
(***************************************************************************)
EXTENDS Integers

CONSTANTS StaleAfter,     \* staleAfterMs
          UnknownAfter,   \* unknownAfterMs
          ExternalMaxAge, \* EXTERNAL_RUNTIME_SNAPSHOT_MAX_AGE_MS
          InspectGrace,   \* STALE_RUNTIME_WITHOUT_INSPECTION_GRACE_MS
          Turns,          \* bound: the provider's turns
          MaxTime,        \* bound: the end of time
          Activity,       \* bound: nothing is observed later than this
          Overlap         \* bound: whether a refresh and a reader wait at once

ASSUME DelayAssumption ==
  /\ {StaleAfter, UnknownAfter, ExternalMaxAge} \subseteq Nat \ {0}
  /\ InspectGrace \in Nat
  /\ StaleAfter < UnknownAfter
ASSUME TimeAssumption ==
  /\ MaxTime \in Nat /\ Activity \in 1 .. MaxTime
  /\ Turns \in Nat
  /\ Overlap \in BOOLEAN

VARIABLES
  now,         \* the time
  host,        \* the host's latest run, and whether the registry holds it
  event,       \* a runtime event whose persistence is under way, at 0: none
  external,    \* observedAt of the snapshot of an external run, 0: none
  row,         \* the session's persisted state
  refresh,     \* what refreshSessionState has read before its awaits
  view,        \* what a reader has read before its awaits
  resolution,  \* the resolution in memory
  timers       \* the armed watchdog timers: their run and their deadlines

vars == <<now, host, event, external, row, refresh, view, resolution, timers>>

Time == 0 .. MaxTime
Turn == - Turns .. - 1
Run == Turn \union Time
States == {"none", "idle", "running", "terminal", "stale", "unknown"}
EventStates == {"none", "running", "terminal"}
Sources == {"runtime", "provider", "inferred", "unknown"}
Resolution == [run : Run, state : States, source : Sources, confidence : 1 .. 3,
               seen : Time, terminal : Time, updated : Time]
Host == [start : Time, live : BOOLEAN, state : EventStates, seen : Time]
Row == [state : {"none", "idle", "running", "terminal"}, source : {"runtime", "inferred", "none"},
        seen : Time, done : Time]

Nothing == [run |-> 0, state |-> "none", source |-> "unknown", confidence |-> 1,
            seen |-> 0, terminal |-> 0, updated |-> 0]
NoRefresh == [since |-> 0]
NoView == [kind |-> "none"]
NoTimers == [run |-> 0, stale |-> 0, unknown |-> 0]
NoRun(last) == [start |-> last, live |-> FALSE, state |-> "none", seen |-> 0]

ActivityTypeOK ==
  /\ now \in Time
  /\ host \in Host
  /\ event \in [state : EventStates, message : BOOLEAN, at : Time]
  /\ external \in Time
  /\ row \in Row
  /\ refresh \in {NoRefresh} \union [since : Time \ {0}, of : Row]
  /\ view \in {NoView} \union [kind : {"run"}, of : Host]
                \union [kind : {"external"}, at : Time]
                \union [kind : {"row"}, of : Row]
  /\ resolution \in Resolution
  /\ timers \in [run : Run, stale : 0 .. MaxTime + StaleAfter,
                 unknown : 0 .. MaxTime + UnknownAfter]

Init ==
  /\ now = 1
  /\ host = NoRun(0)
  /\ event = [state |-> "none", message |-> FALSE, at |-> 0]
  /\ external = 0
  /\ row = [state |-> "none", source |-> "none", seen |-> 0, done |-> 0]
  /\ refresh = NoRefresh
  /\ view = NoView
  /\ resolution = Nothing
  /\ timers = NoTimers
-----------------------------------------------------------------------------
(* Merging an observation with the current resolution.                     *)

Priority(source) == CASE source = "runtime" -> 4 [] source = "provider" -> 3
                      [] source = "inferred" -> 2 [] OTHER -> 1

Terminal(r) == r.state = "terminal"
Later(left, right) == IF left.updated >= right.updated THEN left ELSE right

isHigherPriority(left, right) ==
  \/ Priority(left.source) > Priority(right.source)
  \/ left.source = right.source /\ left.confidence > right.confidence

\* Mutant of isNewerRun: whoever has no name is not succeeded by a named run.
isLaterName(current, next) == next # 0 /\ current # 0 /\ next > current

isNewerRun(current, next) == next # 0 /\ (current = 0 \/ next > current)

\* a provider's or the log's end of the activity overrules what an
\* authoritative source has seen earlier
PreferTerminal(current, next) ==
  /\ ~ Terminal(current) /\ Terminal(next)
  /\ current.source \in {"runtime", "provider"}
  /\ next.source \in {"provider", "inferred"}
  /\ next.terminal >= current.seen

\* the provider works on after the end of the host's run
ProviderWorksOn(current, next) ==
  /\ current.source = "runtime" /\ Terminal(current)
  /\ next.source = "provider" /\ next.state = "running"

\* a degraded run is not revived by what was known before
StaysDegraded(current, next) ==
  /\ current.source = "runtime" /\ next.source = "runtime"
  /\ current.state \in {"stale", "unknown"} /\ next.state = "running"
  /\ next.seen <= current.seen

IdleClearsInferred(current, next) ==
  /\ current.source = "inferred" /\ current.state = "running"
  /\ next.source = "unknown" /\ next.state = "idle"

isNewerThanTerminal(current, next) == next.seen > current.terminal

MergeInRun(current, next) ==
  CASE Terminal(current) /\ ~ Terminal(next) ->
         IF isNewerThanTerminal(current, next) THEN next ELSE current
    [] ~ Terminal(current) /\ Terminal(next) -> next
    [] Terminal(current) <=> Terminal(next) ->
         IF StaysDegraded(current, next) THEN current
         ELSE IF IdleClearsInferred(current, next) THEN Later(current, next)
         ELSE IF isHigherPriority(current, next) THEN current
         ELSE IF isHigherPriority(next, current) THEN next
         ELSE Later(current, next)

mergeResolution(current, next) ==
  IF \/ current = Nothing
     \/ isNewerRun(current.run, next.run)
     \/ PreferTerminal(current, next)
  THEN next
  ELSE IF current.run # 0 /\ next.run = 0 /\ isHigherPriority(current, next)
  THEN IF ProviderWorksOn(current, next) THEN next ELSE current
  ELSE IF current.run = next.run
  THEN MergeInRun(current, next)
  ELSE Later(current, next)

Observation(run, state, source, confidence, at) ==
  [run |-> run, state |-> state, source |-> source, confidence |-> confidence,
   seen |-> at, terminal |-> IF state = "terminal" THEN at ELSE 0, updated |-> at]

RuntimeObservation(run, state, at) ==
  Observation(run, state, "runtime", IF state = "terminal" THEN 2 ELSE 3, at)

Snapshot(h) == RuntimeObservation(h.start, h.state, h.seen)
-----------------------------------------------------------------------------
(* The persisted row as a resolution.                                      *)
PersistedSource(r) == CASE r.source = "runtime" -> "runtime"
                        [] r.source = "inferred" -> "inferred" [] OTHER -> "unknown"

createPersistedResolution(r) ==
  LET ended == IF r.done # 0 THEN r.done ELSE r.seen
      source == PersistedSource(r)
  IN [run |-> 0,
      state |-> IF r.state # "none" THEN r.state
                ELSE IF source = "unknown" THEN "unknown" ELSE "idle",
      source |-> source,
      confidence |-> IF source # "runtime" THEN 1
                     ELSE IF r.state = "terminal" THEN 2 ELSE 3,
      seen |-> r.seen,
      terminal |-> IF r.state = "terminal" THEN ended ELSE 0,
      updated |-> IF r.seen # 0 THEN r.seen
                  ELSE IF r.state = "terminal" /\ ended # 0 THEN ended ELSE now]

MoreTrustworthy(current, r) ==
  LET persisted == createPersistedResolution(r)
      observedAt == IF r.done # 0 THEN r.done ELSE r.seen
  IN \/ /\ current.source = "provider" /\ persisted.source = "runtime"
        /\ current.updated >= observedAt
     \/ isHigherPriority(current, persisted)
     \/ /\ ~ isHigherPriority(persisted, current)
        /\ current.updated >= persisted.updated
-----------------------------------------------------------------------------
(* The authority's operations.                                             *)
Latest(a, b) == IF a > b THEN a ELSE b

\* Mutant of Watched: a run without a name is not watched.
WatchedByName(r) == r.run # 0 /\ r.source = "runtime" /\ r.state = "running"

Watched(r) == r.source = "runtime" /\ r.state = "running"

\* the time of the last evidence of what a resolution says
Evidence(r) == IF r.seen # 0 THEN r.seen ELSE r.updated

\* Mutant of Deadline: the delay counts from now.
DeadlineFromNow(r, delay) == now + delay

Deadline(r, delay) == Latest(now, Evidence(r) + delay)

\* both timers are armed anew for a running host run, and only for one
syncWatchdog(r) ==
  timers' = IF Watched(r)
            THEN [run |-> r.run, stale |-> Deadline(r, StaleAfter),
                  unknown |-> Deadline(r, UnknownAfter)]
            ELSE NoTimers

Become(r) == resolution' = r /\ syncWatchdog(r)

observe(observation) == Become(mergeResolution(resolution, observation))

resolvePersistedSession(r) ==
  Become(IF resolution # Nothing /\ MoreTrustworthy(resolution, r)
         THEN resolution ELSE createPersistedResolution(r))

clearSession == resolution' = Nothing /\ timers' = NoTimers

promoteWatchdogState(state) ==
  resolution' = IF /\ resolution.source = "runtime"
                   /\ resolution.run = timers.run
                   /\ resolution.state \in {"running", "stale"}
                THEN [resolution EXCEPT !.state = state, !.updated = now,
                        !.confidence = IF state = "stale" THEN 2 ELSE 1]
                ELSE resolution

StaleFires ==
  /\ timers.stale # 0 /\ timers.stale <= now
  /\ promoteWatchdogState("stale")
  /\ timers' = [timers EXCEPT !.stale = 0]
  /\ UNCHANGED <<now, host, event, external, row, refresh, view>>

UnknownFires ==
  /\ timers.unknown # 0 /\ timers.unknown <= now
  /\ timers.stale = 0
  /\ promoteWatchdogState("unknown")
  /\ timers' = NoTimers
  /\ UNCHANGED <<now, host, event, external, row, refresh, view>>
-----------------------------------------------------------------------------
(* The host's own run.                                                     *)
Observing == now <= Activity
Past == {t \in 0 .. now : t <= Activity}
Running(h) == h.live /\ h.state = "running"
Pending(r) == r.state = "running"

\* startRuntimeRun writes the row and observes the launched run
BeginRun ==
  /\ Observing
  /\ ~ host.live /\ host.start < now
  /\ host' = [start |-> now, live |-> TRUE, state |-> "running", seen |-> now]
  /\ row' = [state |-> "running", source |-> "runtime", seen |-> now, done |-> 0]
  /\ external' = 0
  /\ observe(Snapshot(host'))
  /\ UNCHANGED <<now, event, refresh, view>>

\* the run emits an event, whose persistence begins
HostEvent ==
  /\ Observing
  /\ host.live
  /\ event.at = 0
  /\ \E state \in {"running", "terminal"}, message \in BOOLEAN :
       /\ message => state = "running"
       /\ host' = [host EXCEPT !.state = state, !.seen = now]
       /\ event' = [state |-> state, message |-> message, at |-> now]
  /\ UNCHANGED <<now, external, row, refresh, view, resolution, timers>>

\* persistRuntimeEventData: a message only makes the row running; a status
\* keeps a terminal row, and otherwise is observed as one of the run that
\* is the host's by now, or of a run as old as the event
PersistEvent ==
  /\ event.at # 0
  /\ event' = [state |-> "none", message |-> FALSE, at |-> 0]
  /\ row' = IF ~ event.message /\ row.state = "terminal"
            THEN [row EXCEPT !.source = "runtime", !.seen = event.at]
            ELSE [state |-> event.state, source |-> "runtime", seen |-> event.at,
                  done |-> IF event.message THEN 0
                           ELSE IF event.state = "terminal" THEN event.at ELSE row.done]
  /\ IF event.message \/ row.state = "terminal"
     THEN UNCHANGED <<resolution, timers>>
     ELSE observe(RuntimeObservation(IF host.live THEN host.start ELSE event.at,
                                     event.state, event.at))
  /\ UNCHANGED <<now, host, external, refresh, view>>

\* a terminal run is released after its listeners are flushed
ReleaseRun ==
  /\ host.live /\ host.state = "terminal"
  /\ event.at = 0
  /\ host' = NoRun(host.start)
  /\ UNCHANGED <<now, event, external, row, refresh, view, resolution, timers>>

\* demoteDeadRuntimeSnapshot and the abandonment of the run: of its events
\* only the one under way is still persisted
DemoteDeadRun ==
  /\ Observing
  /\ Running(host)
  /\ row' = IF Pending(row) /\ row.source = "runtime"
            THEN [row EXCEPT !.state = "terminal", !.done = now] ELSE row
  /\ observe(RuntimeObservation(host.start, "terminal", now))
  /\ host' = NoRun(host.start)
  /\ \/ event' = event
     \/ event' = [state |-> "none", message |-> FALSE, at |-> 0]
  /\ UNCHANGED <<now, external, refresh, view>>

\* the run of an abandoned handle, dropped without an observation
AbandonRun ==
  /\ Running(host)
  /\ host' = NoRun(host.start)
  /\ UNCHANGED <<now, event, external, row, refresh, view, resolution, timers>>

\* interruptSession finds the run terminal and writes that down
ReconcileTerminalRun ==
  /\ Observing
  /\ host.live /\ host.state = "terminal"
  /\ row' = IF row.seen > host.seen /\ row.state = "terminal" THEN row
            ELSE [state |-> "terminal", source |-> "runtime", seen |-> host.seen,
                  done |-> host.seen]
  /\ observe(Snapshot(host))
  /\ UNCHANGED <<now, host, event, external, refresh, view>>
-----------------------------------------------------------------------------
(* Other observers.                                                        *)

\* a hook of a provider that runs outside the host, ignored during a host run
ExternalUpdate ==
  /\ Observing
  /\ ~ Running(host)
  /\ \E state \in {"running", "terminal"}, confidence \in 2 .. 3 :
       /\ state = "running" => confidence = 3
       /\ row' = IF row.seen > now THEN row
                 ELSE [state |-> state, source |-> "runtime", seen |-> now,
                       done |-> IF state = "terminal" THEN now ELSE 0]
       /\ observe(Observation(0, state, "provider", confidence, now))
       /\ external' = IF state = "running" THEN now ELSE 0
  /\ UNCHANGED <<now, host, event, refresh, view>>

\* getFreshExternalRuntimeSnapshot finds the snapshot expired
Expired == external # 0 /\ now - external > ExternalMaxAge

ExternalExpires ==
  /\ Expired
  /\ external' = 0
  /\ clearSession
  /\ UNCHANGED <<now, host, event, row, refresh, view>>

\* forceInterruptInactiveSession: no run is at hand, but the row is pending
ForceInterrupt ==
  /\ Observing
  /\ ~ host.live /\ Pending(row)
  /\ row' = [row EXCEPT !.state = "terminal", !.source = "runtime", !.done = now]
  /\ external' = 0
  /\ observe(RuntimeObservation(0, "terminal", now))
  /\ UNCHANGED <<now, host, event, refresh, view>>

\* mapResolvedRunningStateToStored
StoredState(state) == IF state \in {"stale", "unknown"} THEN "running" ELSE state

\* a ?? b
OrElse(a, b) == IF a # 0 THEN a ELSE b

\* shouldClearStaleRuntime...: the log has no time, and the row is old
Clears(of, at, time) ==
  /\ of.source = "runtime" /\ Pending(of)
  /\ at = 0
  /\ of.seen # 0 => time - of.seen > InspectGrace

\* shouldPreserve...: the row knows better than what was found
Preserves(of, state, at) ==
  /\ of.source = "runtime"
  /\ IF at = 0 THEN ~ Clears(of, at, now)
     ELSE of.seen # 0 => /\ Pending(of) => state # "terminal"
                         /\ of.state # "idle"
                         /\ at <= of.seen

\* hasInspectionEvidence
HasEvidence(state, at) == state # "idle" \/ at # 0

\* what the log shows, last at `at`, to a refresh that began at `since`
Inspection(state, at, since) ==
  Observation(0, state, IF HasEvidence(state, at) THEN "inferred" ELSE "unknown", 1,
              OrElse(at, since))

\* the row that follows from `of` once something, or nothing, was heard at `at`
RefreshedRow(of, found, heard, at, source) ==
  [state |-> StoredState(found.state),
   source |-> IF found.source \in {"runtime", "provider"} THEN "runtime" ELSE source,
   seen |-> IF heard THEN OrElse(found.seen, OrElse(at, of.seen)) ELSE of.seen,
   done |-> IF found.state = "terminal" THEN OrElse(found.terminal, OrElse(at, of.done)) ELSE 0]

\* refreshSessionState finds a live run and observes it at once
RefreshLive ==
  LET live == IF host.live THEN Snapshot(host)
              ELSE Observation(0, "running", "provider", 3, external)
  IN /\ host.live \/ external # 0
     /\ ~ Expired
     /\ observe(live)
     /\ row' = RefreshedRow(row, resolution', TRUE, 0, "none")
     /\ UNCHANGED <<now, host, event, external, refresh, view>>

\* it finds none and asks, with the row and the time of its beginning
BeginRefresh ==
  /\ Observing
  /\ ~ host.live /\ external = 0
  /\ refresh = NoRefresh
  /\ view = NoView \/ Overlap
  /\ refresh' = [since |-> now, of |-> row]
  /\ UNCHANGED <<now, host, event, external, row, view, resolution, timers>>

\* the provider tells the session's activity
EndWithProvider ==
  /\ refresh # NoRefresh
  /\ refresh' = NoRefresh
  /\ \E state \in {"idle", "running", "terminal"}, run \in {0} \union Turn, at \in Past \ {0} :
       /\ run # 0 => state = "terminal"
       /\ observe(Observation(run, state, "provider", 3, at))
       /\ row' = RefreshedRow(refresh.of, resolution', TRUE, at, "none")
  /\ UNCHANGED <<now, host, event, external, view>>

\* the provider tells nothing and its log is inspected: whatever the host
\* runs by now, the session is cleared, kept, or shown as the log has it
EndWithInspection ==
  /\ refresh # NoRefresh
  /\ refresh' = NoRefresh
  /\ \E state \in {"idle", "running", "terminal"}, at \in Past :
       /\ state = "terminal" => at # 0
       /\ IF Preserves(refresh.of, state, at)
          THEN UNCHANGED <<row, resolution, timers>>
          ELSE /\ Become(mergeResolution(
                    IF Clears(refresh.of, at, refresh.since) THEN Nothing ELSE resolution,
                    Inspection(state, at, refresh.since)))
               /\ row' = RefreshedRow(refresh.of, resolution', HasEvidence(state, at), at,
                                      IF at # 0 THEN "inferred" ELSE "none")
  /\ UNCHANGED <<now, host, event, external, view>>

\* a reader (getSessionRuntime, a session list) takes the host's run, an
\* external run or the row, and uses it after its awaits
Read ==
  /\ view = NoView
  /\ refresh = NoRefresh \/ Overlap
  /\ ~ Expired
  /\ view' = IF host.live THEN [kind |-> "run", of |-> host]
             ELSE IF external # 0 THEN [kind |-> "external", at |-> external]
             ELSE [kind |-> "row", of |-> row]
  /\ UNCHANGED <<now, host, event, external, row, refresh, resolution, timers>>

UseView ==
  /\ view # NoView
  /\ view' = NoView
  /\ CASE view.kind = "run" -> observe(Snapshot(view.of))
       [] view.kind = "external" -> observe(Observation(0, "running", "provider", 3, view.at))
       [] view.kind = "row" -> resolvePersistedSession(view.of)
  /\ UNCHANGED <<now, host, event, external, row, refresh>>

\* enrichSessionItem resolves the row of every session of a list, whatever
\* the host knows of it
List ==
  /\ resolvePersistedSession(row)
  /\ UNCHANGED <<now, host, event, external, row, refresh, view>>

\* the host restarts: only the row survives
Restart ==
  /\ Observing
  /\ host' = NoRun(host.start)
  /\ event' = [state |-> "none", message |-> FALSE, at |-> 0]
  /\ external' = 0
  /\ refresh' = NoRefresh
  /\ view' = NoView
  /\ clearSession
  /\ UNCHANGED <<now, row>>

Tick ==
  /\ now < MaxTime
  /\ now' = now + 1
  /\ UNCHANGED <<host, event, external, row, refresh, view, resolution, timers>>
-----------------------------------------------------------------------------
Next ==
  \/ StaleFires \/ UnknownFires
  \/ BeginRun \/ HostEvent \/ PersistEvent \/ ReleaseRun \/ DemoteDeadRun
  \/ AbandonRun \/ ReconcileTerminalRun
  \/ ExternalUpdate \/ ExternalExpires \/ ForceInterrupt
  \/ RefreshLive \/ BeginRefresh \/ EndWithProvider \/ EndWithInspection
  \/ Read \/ UseView \/ List
  \/ Restart \/ Tick

Spec == Init /\ [][Next]_vars

\* Time passes and due timers fire.
FairSpec == Spec /\ WF_vars(Tick) /\ WF_vars(StaleFires) /\ WF_vars(UnknownFires)
-----------------------------------------------------------------------------
(* The host run that is shown as running is always under watch: both       *)
(* timers are armed for it, and it is questioned no later than StaleAfter  *)
(* from its last evidence, however often it is read (syncWatchdog).        *)
WatchdogIsArmed ==
  resolution.source = "runtime" /\ resolution.state = "running" =>
    /\ timers.run = resolution.run
    /\ timers.stale \in 1 .. Latest(now, Evidence(resolution) + StaleAfter)
    /\ timers.unknown # 0

(* Whatever a late reader, the log, a hook or an old row has made of the   *)
(* session, and however long a refresh took: once the host's live run is   *)
(* looked at again it is the run that is shown, with evidence no older     *)
(* than what was seen of it (refreshSessionState, getSessionRuntime).      *)
Shows(h) == resolution'.run = h.start /\ resolution'.seen >= h.seen

LiveRunIsShown ==
  [][host.live =>
       /\ RefreshLive => Shows(host)
       /\ UseView /\ view.kind = "run" /\ view.of.start = host.start => Shows(view.of)]_vars

(* A session shown as running for the host, with the time of its last      *)
(* event, does not stay so for ever once nothing more is heard of it,      *)
(* whoever reads, lists and refreshes it (promoteWatchdogState).           *)
SilentRunIsQuestioned ==
  []<> ~ (resolution.source = "runtime" /\ resolution.state = "running" /\ resolution.seen # 0)

=============================================================================
