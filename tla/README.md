# CodingNS in TLA+

CodingNS runs coding agents on a host and shows them in a browser or desktop
application. This directory models the parts of the host whose correctness
depends on the order of events: which step of which task, timer, callback,
transaction or process comes first. The models are written from the TypeScript
source, checked with TLC on small instances, and the main invariants of six of
them are proved for every instance with TLAPS.

Throughout, the host is one Node.js process: JavaScript between two suspension
points (an `await`, a timer or stream callback, a call from outside) is atomic,
and an action is such a piece of code with every synchronous call it makes.
What is concurrent are the suspended pieces.

## Inventory

Paths are below `src/apps/host/src` unless they say otherwise.

| component | state | operations | hard behaviour |
|---|---|---|---|
| Task scheduler, `modules/tasks/task-scheduler.ts` | active records by type and key, queues and slot counters by type, published snapshots, one sweep timer | enqueue, cancel, cancelMatching, recordCacheHit, peek; bodies report progress | bodies outlive cancels and timeouts; slots, retries and queue timeouts race with cancels; a rejection nobody handles ends the host |
| Task helper, `modules/tasks/task-helper-*.ts` | a pool of child processes with tables of requests, a concurrency queue in each child | execute, cancel, retire, recycle | responses, exits, retirement and cancel fallbacks race; retry after a child died |
| SQLite write queue, `storage/sqlite/write-queue.ts`, `write-retry.ts` | waiting commands with byte budget, running batch | enqueue (critical, latest_wins, append_batch, best_effort), close | coalescing, batching, BUSY retries of a whole batch, draining |
| Latest-wins writes, `storage/repositories/latest-write-guard.ts`, `storage/sqlite/local-writer.ts` and the `upsert` of `session-state-repository.ts` and `session-status-snapshot-repository.ts` | fingerprint of the last write of each row | upsert, and the answers of the queue | the guard believes a write that was rolled back or overtaken |
| Session activity authority, `modules/sessions/session-activity-authority-service.ts` | the resolved running state of each session, two watchdog timers | observe, resolve the persisted row, clear, watchdog | observations of several sources and runs out of order, stale readers, restart |
| Active runs, `active-run-registry.ts` and `provider-runtime-service.ts` of `src/packages/session-sync-core/src/runtime` | one record and one handle for each session, listeners with queues of events | begin, steer, interrupt, abandon, flush, release | everything goes by the session: a late continuation meets the run of the moment |
| Live runtime, history, permissions, `modules/sessions/*` | send queues, pending approvals, discovery, the rows of sessions | send, interrupt, synchronise, approve | events of providers against user actions |
| Provider helpers, `modules/sessions/codex-app-server-helper-*`, `claude-runtime-helper-*`, `deepseek-harness/*` | child processes, leases, request tables | request, lease, reclaim | crash and restart of the child |
| Terminals and their logs, `modules/terminal/*` | output buffer, batches of the log spooler, the log file and its index of segments | output, flush, read, close, delete, dispose | overlapping flushes, failed appends and commits, removal during a flush, crash |
| WebSocket hubs, `ws/*` | subscriptions, connections | subscribe, publish | slow and vanished clients |
| Relay tunnel, `modules/relay-tunnel/*` | tunnel connection, WebRTC peers, partial frames | connect, offer, forward | reconnection, late answers of an old peer |
| Channels, butler, parallel sessions, worktrees, auth, peer hosts | rows of the database, working trees | request and response | mostly sequential |
| `src/apps/user-app`, `src/apps/desktop`, `src/packages/*` | the client's view, installation | - | outside the host process |

How they interact. Services enqueue background work with the scheduler (calls
that return a handle with a promise) and cancel it when their own caller goes
away. Bodies of the `helper_process` lane go through the helper pool over pipes.
Services write rows through the repositories; those either enqueue into the
shared write queue or, inside an operation of that queue, write directly. The
hubs read the rows and the runtime's events and publish them.

What makes the parts correct, in short. Scheduler: no promise is lost, no slot
leaks, no wakeup is lost, each key has one pending record, callers and the
published snapshot agree about the outcome. Write queue: every command is
decided, in order, never reported written when it was not, within its budgets.
Session writes: a state is not refused as already written unless it is or will
be. Helper: no request waits on a dead child, a retry repeats only what was not
answered. Active runs: one execution chain for a session, no event of a
completed run unpersisted, no ended run that stays active. Activity: a run shown
as running is watched and in the end questioned, and a finished one is not shown
as running again on older evidence. Terminal logs: output is indexed in order,
once, and readable; a removed log leaves nothing.

## Modules

| module | models | depends on |
|---|---|---|
| `TaskScheduler` | the scheduler | |
| `TaskContract` | what the handles of the scheduler promise (abstract) | instantiated by `TaskScheduler` |
| `SqliteWriteQueue` | the write queue with its retry loop | |
| `SessionWrites` | repositories, guard, local writer and queue together | extends `SqliteWriteQueue` |
| `TaskHelper` | one helper client, its child processes and their pipes | |
| `TerminalLog` | the log of one terminal: service, spooler, queue operations, file and index | |
| `ActiveRuns` | the runs of one session: registry, runtime service, and the sends that steer or begin | |
| `SessionActivity` | the activity of one session: the authority and those who observe for it | |
| `TaskSchedulerProofs`, `SqliteWriteQueueProofs`, `ActiveRunsProofs`, `SessionActivityProofs` | the theorems | extend their module and `TLAPS` |
| `SessionWritesProofs` | the theorems about the guard | extends `SessionWrites`; takes the lemmas about the queue from `SqliteWriteQueueProofs` |
| `TaskHelperProofs`, `TerminalLogProofs` | the theorems about the helper lane and the log of a terminal | extend `TaskHelper` and `TerminalLog`, and `InductionLemmas` |
| `InductionLemmas` | induction over numbers and sequences, and folds | |
| `MC*` | instances for TLC | |

A definition whose comment begins with "Mutant of" is a faulty variant of the
one that follows; nothing refers to it. It exists to show that a property
notices the mistake.

### TaskScheduler

A `TaskRecord` is a number; `rec[t]` is the record with the place where its
`executeRecord` is suspended (`pc`), its attempt, the outcome of its promise,
whether its signal is aborted, whether a body of it runs (`body`), and the
verdicts the finish functions have reported. `active`, `latest`, `queue` and
`running` are `activeTasks`, `latestSnapshots`, `queuedTasks` and
`runningCountByType`; `sweepTimer` is whether the timer is armed.

| action | code |
|---|---|
| `Enqueue` | `enqueue`, `createRecord`, `startOrQueue`, and the first part of `executeRecord`, which starts the body synchronously |
| `CancelMatching` | `cancelMatching`; `cancel` and a handle's `cancel` are the case of one type and key |
| `SweepQueuedTimeouts` | the timer's callback |
| `BodySucceeds`, `BodyFails`, `BodyQueueTimesOut` | the body's promise settles; `runTask` is no longer waiting if its timer came first |
| `TimeoutFires` | the timer of `runTask` |
| `ReportProgress`, `RecordCacheHit` | `updateProgress`, `recordCacheHit` |
| `ResumeResolved`, `ResumeRejected`, `RetryLater`, `LeaveLoop`, `NextAttempt`, `ResumeAbortedBackoff` | the continuations of `executeRecord`, each with the `finally` block and `startNext` when it leaves |
| `BackoffElapses` | the timer of `waitForRetryDelay` |

The settlement of a promise and the continuation that waits for it are two
steps: a cancel that comes between the two is what most properties are about.
`startNext` shifts settled records without starting them; since the queue of a
type is in order of creation it is a set, and `Exit` computes at once which
records it shifts. After an unhandled rejection no step follows: the host exits.
An abort ends neither a body nor its slot; only the body or a timeout does.

### SqliteWriteQueue

`entries`, `pendingBytes`, `batch`, `retries` are the fields of the queue and
the state of `runNext`; `runner` says where it is suspended. `Enqueue` includes
`pump` and `runNext` up to its first operation when the queue is idle.
`OpCommits`, `OpBusy`, `OpThrows` are the three ends of an operation, `Retry`
the end of the retry delay, `Finally` the callback that pumps again and ends a
drain. `late` is the max-wait check of `runNext`. `cmd[c].commits` counts how
often the operation of a command took effect.

### SessionWrites

The queue with what its commands do. `wiring` is chosen once: `"queue"` is the
path of a repository with a `writeQueue`, `"writer"` that with a
`LocalSqliteWriter` (`create-server.ts:387`, production). A command is the write
of one row or a transaction of another service that upserts the row on its way.
`answers` are decided promises whose callbacks (`complete`, `fail`) have not run
yet: callbacks run in order, but other code may come first. `undo` is the
database the transaction restores when it fails. Operations are synchronous, so
nothing but the operation itself moves while one executes.

### TaskHelper

One `TaskHelperProcessClient` (a worker of the pool), the helpers `1, 2, ...` it
spawns one after the other, and for each of them the lines under way in both
directions. `call[c]` is one call of `execute` with its last request; between the
rejection of a request and the `catch` of `execute` its place is `"rejected"`,
because other callbacks may run there. `client` has the tables:
`pendingRequests` and `inflightRemoteRequestIds`, which change together, are
`pending`; `unacknowledgedRemoteRequestIds` and `remoteRequestChildren` are
`unacked`. `lost` are the helpers that were retired or terminated; what they still
do before they exit reaches nobody and is not followed. A cancel fallback is armed
exactly for the requests in `Abandoned`; time is abstracted, an armed timer may
fire. `helper[n]` is the state of `task-helper-process.ts`: `active` from the
start of a body until its slot is returned, `flushing` once its answer is written.

| action | code |
|---|---|
| `Execute`, `Retry` | `execute` with `executeOnce` and `ensureChild`; the retry gives up the helper that failed |
| `Abort` | `onAbort` and `sendCancel` |
| `FallbackFires`, `IdleRecycle` | the two timers, through `retireChild` |
| `LossNoticed`, `LateEvent` | exit, error and close events, `handleChildTermination`; the second for a helper lost before |
| `WriteFails` | the callback of `stdin.write` |
| `Answer` | `handleResponseLine` |
| `DisposeBegin`, `DisposeEnd` | `disposeInternal` before and after its first `await` |
| `Read` | `handleLine`: start, queue or refuse a request, or `cancelRequest` |
| `Respond`, `Release` | `runTask`: the answer, then the returned slot, `drainQueue` and `maybeRecycleProcess` |
| `QueueTimeout`, `StdinCloses`, `HelperDies` | the timer of a queued request, `beginRetire`, `flushAndExit` or a signal |
| `PipeBreaks` | the environment destroys the client's end of the pipe |

### TerminalLog

The log of one terminal in the production wiring, where the spooler writes through
the host's write queue. A chunk is the number of an output, `output` is all of them
with the run of the host and the cursor they got. `spooler.mapped` is the batch in
`pendingByTerminalId`; a batch that left the map while it was being flushed lives on
until its flush ends, so there are several (`Batches`). `spooler.queue` are the
queued operations; because the reaction to an operation runs before the next one,
the append to the file belongs to the step that prepares, and what follows a flush
to the step that ends it. A `call` is one call of `flushTerminal`, and knows what
output it found (`upto`) and whether a flush has failed since (`ok`). Of two
statements in an operation the second alone may fail: the operations are no
transactions.

| action | code |
|---|---|
| `Output` | `commitTerminalOutput`, `appendChunks`, `scheduleFlush` |
| `TimerFires`, `ReadHistory`, `FlushAtExit`, `DisposeBegin` | the calls of `flushTerminal` |
| `BeginRemoval`, `AbandonRemoval`, `DeleteRow`, `ClearLogs` | `closeTerminal`, `deleteTerminal`, `clearTerminalLogs`, up to each `await` |
| `PrepareAndAppend`, `Commit`, `DeleteLogs` and their failures | the operations `terminal.log.prepare`, `.commit`, `.delete`; with the catch and finally of `flushTerminal` and the callers that waited (`EndFlush`) |
| `RuntimeEnds`, `DisposeEnd`, `Restart` | the end of the process, of the service, of the host |

### ActiveRuns

A send begins at most one run, so a run has the name of its send. `current` is the
run of the session's record and handle, which change together. All operations of a
handle go by the session; the model therefore lets every continuation act on the run
that is current when it executes, and `told` remembers which run was told what on
behalf of which (`by`). `completion[r]` is the continuation of `launch.completed`:
`ahead` counts, for each listener, the events the flush still waits for. A run leaves
`current` by its own completion (`released`), by another's (`displaced`) or by
`abandonRun` (`abandoned`).

| action | code |
|---|---|
| `Send`, `Steer`, `SteerAnswered` | `sendLiveMessageDirect` before, at and after `submitToActiveRun`, with `abandonRun` on `SESSION_NOT_RUNNING` |
| `Begin`, `Launched`, `LaunchFails` | `beginRun` before and after the launch |
| `Output`, `ProviderEnds` | the sink's `emit`; the provider's turn ends or its transport closes |
| `Completed`, `Released` | the continuation of `launch.completed` before and after `flushListeners` |
| `Deliver` | one event of a listener's chain has been persisted |
| `ReconcileDeadRun`, `InterruptBegin`, `InterruptEnd` | `reconcileDeadRuntimeSession`; `interrupt` around its `await` |

### SessionActivity

`resolution` is the authority's entry of one session and `timers` its two watchdog
timers with their deadlines. Time is a small clock, because the rules compare
timestamps; `starting` is `running`, and the three terminal states are one. The other
variables are those of the observers, as far as they decide what is observed next:
the host's run, an event whose persistence waits, the snapshot of an external run,
the session's row, and what a `refresh` and a reader's `view` have taken before their
awaits. A run is named by its start, as in `buildRuntimeRunId`; a turn of a provider,
whose number sorts before every such name, has a negative one. `mergeResolution` and the
predicates it uses keep their names.

`refreshSessionState` is cut where it awaits. It looks for a live run and, if there is
one, observes it at once (`RefreshLive`); else it keeps the row and the time
(`BeginRefresh`) and, after the provider's answer and for Gemini a read of its history,
decides by these whether to clear the session, to keep it, or to observe and write
(`EndWithProvider`, `EndWithInspection`), without asking again whether a run has begun.
What an inspection finds is a state and one time for its last event and its completion.

| action | code |
|---|---|
| `StaleFires`, `UnknownFires` | the timers of `syncWatchdog`, `promoteWatchdogState` |
| `BeginRun`, `HostEvent`, `PersistEvent`, `ReleaseRun`, `AbandonRun` | a run of the host and `persistRuntimeEventData` |
| `DemoteDeadRun`, `ReconcileTerminalRun`, `ForceInterrupt` | the live runtime's corrections of a row |
| `ExternalUpdate`, `ExternalExpires` | hooks of a provider outside the host |
| `RefreshLive` | `refreshSessionState` of the history service with a live run |
| `BeginRefresh` | the same without one, up to its awaits |
| `EndWithProvider`, `EndWithInspection` | and after them, with the provider's own account or with its log |
| `Read`, `UseView`, `List` | `getSessionRuntime` around its awaits, `enrichSessionItem` |
| `Restart` | the host starts anew: only the row survives |

## Runs

| run | instance | shows |
|---|---|---|
| `scheduler_safety` | 3 records, 2 keys, "scan" (one slot, timeout, queue limit) and "poll" (no limit, two attempts with a delay, helper lane) | the invariants, the contract and the order of starts |
| `scheduler_liveness` | 2 records, 2 keys, two types of one slot; bodies need not end | a type with a timeout always settles; a queue limit holds even when the slots are held for ever |
| `write_queue` | 4 commands, room for 2 waiting and 3 bytes, batches of 2, one retry; fair runner | the properties of the queue, with liveness |
| `session_writes` | 3 commands, one row, two contents, both wirings, one retry | the guard |
| `session_writes_direct` | the same | disagreement, below |
| `helper_safety` | 3 calls of a handler with one slot, one of them too long, one abortable that need not end; the first helper may exit or lose its pipe | the request tables, queue and retry |
| `helper_live` | the first two calls, without queue limits; the first helper may exit | forgetting of abandoned requests, settling of calls |
| `terminal_log` | 3 outputs, 2 batches, one failure, one restart | the spooler, the index and the removal |
| `terminal_readable` | the same | disagreement, below |
| `active_runs` | 2 sends, a listener's queue of 2, two remembered events | the execution chain, persistence and release |
| `active_runs_chain` | 3 sends, symmetric | disagreement, below |
| `session_activity` | instants 1 to 4, of which the first 2 bring observations; delays of 1, the unknown state after 2, no grace; one turn of the provider; a refresh or a reader waits, not both at once | the watchdog and the merge |

Why these bounds are enough. Three records are the fewest with one running, one
waiting and one more that cancels, overtakes or succeeds them under a key; two
types show that slots and queues do not mix, and carry between them every
option of a definition. Two keys suffice because a key only meets another
through the slots of a type. In the queue, four commands allow a running batch,
a full queue and one more call; one retry reaches both the retried and the
abandoned batch. In `SessionWrites`, three commands are an older queued write,
the transaction that overtakes it and a later repetition. In `TaskHelper`, two
calls compete for the one slot, and a call makes at most two requests, so that no
run needs more than two helpers per call; that only the first helper fails of its
own accord (`Crashing`, `Leaking`) still lets the second be retired by a fallback,
by the high-water mark or when idle. In `TerminalLog`, two outputs meet in a batch or in
two, and the third comes while a flush is under way or after it failed; a second
failure repeats the first. In `ActiveRuns`, of two runs the older meets the younger
in every continuation; it takes a third send to steer an ended run twice and still
have one that began it. In `SessionActivity` two runs fit into the two busy instants,
each with observations of its own and late ones of the other; a refresh or a read that
begins before or between them ends after them; and the two instants that remain let
every timer of the last run fire. The grace of 0 still has both sides of its comparison
in the busy time. With a refresh and a reader under way at once (`Overlap`) there are
about fourteen times as many states; the two properties that are proved hold for both values. Every counter stops at
its bound (`MaxTasks`, `MaxCommands`, `MaxRetries`, the calls of `TaskHelper`,
`MaxChunks`, `MaxFaults`, `MaxRuns`, the sends, `MaxQueue`, `MaxTime`) and that is why all runs
but `session_activity`, where sessions are listed for ever,
switch deadlock checking off: a system that has used up its calls may stop.
Symmetry of the keys is used only without temporal properties.

### What is checked

Scheduler: `ActiveIsPending` (no pending promise is forgotten by `activeTasks`,
no decided one is shared), `NothingStranded` (every pending record is driven or
queued), `SlotAccounting`, `WorkConserving` (no lost wakeup), `SweepArmed`,
`SnapshotAgreesWithPromise`, `NoOvertaking`, `KeepsContract` (it implements
`TaskContract`), `TimeoutTypesSettle`, `QueueWaitIsBounded`.

Write queue: `PendingIsHeld` (every pending command is held once), `BudgetIsExact`,
`CallOrder`, `OnlyBatchesRepeat`, `EveryCommandIsDecided`.

Session writes: `PendingEntryHasWrite` (no fingerprint is refused for ever),
`QueuedWritesRefuseRepeatsOnly` (the guard refuses only repetitions, as long as
no transaction writes directly).

Helper: `WaitingIsPending` (no call waits for a request the client has forgotten),
`UnackedIsSomewhere` (a healthy helper owes exactly one answer per request),
`RefusalsDidNotRun` (an answer that promises the request was not executed is
true), `RepeatOnlyAfterLoss`, `IdleIsCoveredUnlessRefused` (an idle helper will
be recycled), `AbandonedIsForgotten`, `CallsSettle`.

Terminal log: `NothingIsStranded` (a chunk is indexed or in the mapped batch, and a
batch that waits has a timer), `FlushTakesWhatItFound` (what a flush returns for),
`IndexIsAChain` (no gap, no step back, a repetition only after half a commit),
`RemovalLeavesNothing`, `OutputIsIndexed`.

Active runs: `OneChainUntilAbandoned` (one provider, and no run is told what was meant
for another), `CompletedRunIsPersisted`, `RecordIsReleased`.

Activity: `WatchdogIsArmed` (the deadline counts from the last evidence, not from the
last read), `LiveRunIsShown` (whatever has displaced the live run, the next refresh or
reader that looks at it shows it again, by evidence that is no older),
`SilentRunIsQuestioned` (for a session shown with the time of its last event; see the
disagreements for one without).

### Fairness

`scheduler_liveness` assumes that timers fire and that continuations of settled
promises run, which is what the event loop does; it does not assume that a body
ever ends, an abort is noticed, or anyone calls. Weak fairness is enough: each of
these stays enabled until it happens. `write_queue` assumes that operations,
which are synchronous statements, end; that the retry delay, a timer, elapses;
and that the `finally` callback runs. `session_writes` assumes nothing.
`helper_live` assumes that the host runs its due callbacks and the fallback timers
(`HostStep`) and that helpers read, answer and, when lost or retiring, exit
(`HelperStep`: `terminateChildProcess` sends SIGKILL after its grace period,
`flushAndExit` waits two seconds at most). One weak fairness condition for each of
the two suffices, which is less than one for each callback. It does not assume
that a stuck body ends, that a healthy helper exits or that the idle timer fires;
`CallsSettle` is therefore stated for behaviours in which no call of a stuck body
waits for ever. `terminal_log` assumes that timers fire and that the queue runs its
operations (`write_queue` shows that it does); it assumes no output, call or end of
the process. `active_runs` assumes that the continuations of settled promises run and
that a listener's write settles, for each run; providers, users and senders owe
nothing. `session_activity` assumes that time passes and that due timers fire.

### Disagreements found

Three are shown by a run:

- `session_writes_direct`: a direct write in a transaction that is rolled back, or
  overtakes an older queued write, is remembered as written (`local-writer.ts:79`):
  the retry is refused for a minute.
- `terminal_readable`: an append goes to the end of the file, its offset comes from
  the index (`terminal-log-file-store.ts:28`). After a commit that failed, or a crash
  before it, later segments point at the wrong bytes, although requirement 2.1 of
  spec006.1 wants flushed log to be readable after a crash.
- `active_runs_chain`: the second of two failed steers abandons the run the first has
  begun (`session-live-runtime-service.ts:2375`), and two providers run for the
  session; requirement 6 of spec003.2 forbids a second execution chain.

Others follow from the definitions of the modules and have no run of their own:

- Two bodies of one type and key may run at once: a cancel or a timeout frees
  the key while the body goes on (`task-scheduler.ts:603`). The onboarding rules
  (spec001.2, `20260412-后台任务接入规范.md:358`) allow one execution in flight.
- A record may report two verdicts: `finishSuccess` does not ask whether it is
  settled (`task-scheduler.ts:425`).
- Progress of a body that outlived its record replaces the published state of a
  newer record (`task-scheduler.ts:409`).
- A `latest_wins` command may evict its predecessor and then be refused
  (`write-queue.ts:155`): no version of the key is written.
- A call whose input is too long spawns a helper or clears the idle timer of the
  current one, and is rejected without arming it again
  (`task-helper-client.ts:253`): the idle helper is not recycled.
- Cursors start again at 1 after a restart of the host, while the design of spec006.1
  (`design.md:136`) calls them monotonic: `IndexIsAChain` is stated for each run.
- A removal goes on when its flush fails (`design.md:276` of spec006.1 wants the
  removal to stop with an error), a dispose whose flush fails drops its batch, and a
  deleted terminal whose process could not be terminated keeps a batch that fails and
  is tried again until the host ends.
- A run that begins while a refresh waits meets what the refresh decides by the old
  row (`session-history-service.ts:7906` to 7979, `BeginRefresh` and `EndWithInspection`).
  A completion found in the log takes the place of the new run if it is no older than
  the run's last evidence, although requirement 5.2.3 of spec003.4 keeps inference from
  overriding an authoritative state; or the session is cleared and the run forgotten.
  `LiveRunIsShown` is what remains: the next look at the run brings it back. The row is
  written over as well, and while it says the session has ended, status events of
  the run are not observed (`PersistEvent`).
- Such a row may also say that the host's run is running without the time of its last
  event, which the refresh took from the row before the run. Every list then resolves it
  as seen now and arms the watchdog anew, so a polling client keeps the session running
  (requirement 5.3.2 of spec003.4 wants a silent run questioned) until an event or a
  refresh writes the row again. `SilentRunIsQuestioned` leaves this case out.
- A session shown as stale or unknown becomes running again when a session list
  resolves its row, whose `running` counts as authoritative; and a forced interrupt
  has no effect on a resolution that names a run (`SessionActivity`, `List` and
  `ForceInterrupt`).

Two more facts, not against any document but worth knowing: a cancel that meets a
retry delay rejects a promise nobody handles, and the host exits (`unhandled`, with
`CrashNeedsCancelledBackoff`); and every run of a session leaves its persistence
listener behind, so that each later event is handled once per earlier run (`listening`).

## Proofs

`TaskSchedulerProofs` proves, for every set of types and keys, every limit,
retry, timeout and queue option, and every bound on the records: `TypeOK`,
`ActiveIsPending`, `NothingStranded`, `SlotAccounting`, `WorkConserving` and
`SweepArmed`. The assumptions are those on the constants in `TaskScheduler`:
there is a type and a key, and the options have their types.

None of the invariants is inductive alone. That a slot is returned exactly once
(`SlotAccounting`) needs to know that a queued record does not execute
(`NothingStranded`); that the queue holds no settled record needs the cancel to
find every pending record under its key (`ActiveIsPending`); and that in turn
needs settled records to stay out of `waiting`, and records that are not created
yet to be untouched (`PlacesFit`). `Inv` is their conjunction. The proof first
treats the three recurring pieces as lemmas: what settling a set of records does
to `activeTasks`; what `Exit`, the `finally` block, does to slots and queues,
counting the records `startNext` begins; and what a step that only moves `pc`
inside `executeRecord` leaves alone. Then there is one step per action.

The second half of the module builds on that and proves `SnapshotAgreesWithPromise`,
`CrashNeedsCancelledBackoff`, `NoOvertaking` and the refinement `KeepsContract`, under
the same assumptions. What a step may make of one record is the relation `Moves`, and
`Fits` is what a record keeps: its status is a verdict exactly when its promise is
decided, and verdict and promise agree while a body of it can still publish. That
they agree is the difficult part: a record that resolved after its cancel does report
success against a rejected promise, and is harmless only because its body is over.
`StepFacts` says of every step but `Enqueue` that each record makes a move, that no,
one or several promises are decided, which snapshots it publishes and that starts are
in order; the four theorems follow from it and from what `Enqueue` does
(`EnqueueFacts`), without looking at the actions again.

`SqliteWriteQueueProofs` proves `PendingIsHeld`, `CallOrder`, `OnlyBatchesRepeat` and
`NoLostWakeup` for every number of commands, policy, size, limit and retry bound.
`QueueInv` has two parts. `Good` relates the issued commands, the waiting ones, the
batch and the position in it: both sequences are in order and the batch comes first,
they hold exactly the pending commands, what waits has not committed, a batch of one
has not either, a batch of several holds only append commands, and only those may have
committed more often than their caller is told. `Control` ties the runner to the
batch and says that an idle runner leaves nothing waiting. Each piece of the code that moves commands (superseding, pushing,
taking a batch, deciding a batch) has a lemma that it keeps `Good`, over arbitrary
arguments; the lemmas before them say what taking an element out of an increasing
sequence or putting one at its end leaves true.

It also proves `QueueTypeOK` and `BudgetIsExact`. The byte budget is a sum over a sequence
from whose middle elements may be taken: `BytesOf` is a fold from the left, the lemmas
`BytesOfAppend`, `BytesOfConcat` and `BytesOfRemoveAt` say what the sum of each kind of
change is, and the proof follows every path on which `pendingBytes` changes, with the
superseded command that gives its bytes back before the budget is asked.

Induction. The theorems of the library about induction take an operator as a parameter,
which the provers cannot instantiate. `InductionLemmas` states them with sets: a set that
has 0 and with each number the next has all numbers (`SetInduction`), a set that has the
empty sequence and with each sequence the longer ones has all (`SeqInduction`). It shows
that a fold along `1, 2, ... n` has a chain of intermediate results (`FoldChain`), so
that what each step keeps the result has; the proofs about folds use it.

`SessionWritesProofs` proves `WritesTypeOK`, `PendingEntryHasWrite` and
`QueuedWritesRefuseRepeatsOnly` for any rows, contents, number of commands, limits and
retries. `WritesInv` has four parts: the types; `Queued`, the invariants of the queue,
which are proved again because the actions are others, from the same lemmas;
`EntriesEnd`, that every pending entry of the guard has a command still waiting or an
answer still under way; and `RefusalsAreRepeats`. The last says, while every write takes
its turn in the queue, that the row with the newest waiting write applied holds what the
guard refuses, or else a failure is under way that will make the guard forget it, and that
a rollback restores what the row holds anyway (`undo = row`). What a step of the queue
does is put into one relation (`Step`): which commands it may decide, and that it adds
exactly their answers. Commands are superseded, committed and issued in three lemmas
about one row; a batch that is decided answers several commands at once, and that step is
a fold (`AnsweredSteps`).

`ActiveRunsProofs` proves `TypeOK`, `OneChainUntilAbandoned` and
`CompletedRunIsPersisted` for any number of sends. For the first, `ChainInv` says that
before any run is abandoned every continuation still to come is that of the current
run. For the second, `FlushInv` says that the early events in a run's own queue are
among the `ahead` ones its flush waits for; it needs that a run without a provider has not completed (`Fresh`).

`SessionActivityProofs` proves the type invariant and `WatchdogIsArmed` for any delays
and horizon: all steps that change the resolution go through `Become`, except the
timers, which leave the running state, so one lemma on `Become` carries the proof.
`LiveRunComesBack` proves `LiveRunIsShown`, for any number of turns and also when a
refresh and a reader wait at once. That the snapshot of the live run wins the merge
(`SnapshotIsShown`) needs two facts about what it is merged with: no run later than the
host's latest is named anywhere (`Known`), and a resolution that names a host's run was
made by the host, its end is as late as its last evidence, and unless it is degraded it
was updated by that evidence (`Vouched`). `LiveInv` has both, with the order of the times
they come from: the run, the event that waits and the reader's view.

`TaskHelperProofs` proves all six invariants of `helper_safety` for any number of
calls, handlers and slots; the only assumption besides the kinds of the constants is
that the calls are finitely many. `WaitingIsPending` and `RepeatOnlyAfterLoss` use
nothing of the helper processes or of the pipes, so they hold also when an answer comes
late, twice or for a request that was given up. `HelperInv` pairs pending requests with
waiting calls (`Paired`), says that the client keeps no request of a helper it has lost
(`Attached`), and that a call in its first attempt has sent one request (`Repeats`).
`Attached` is what makes the retry safe: a repeated call is sent to a helper that is not
among the lost ones, and its earlier request is.

The others need the helper. `PlacesInv` says of each helper that its pipes and tables
hold only what was sent to it, each request at most once in each of them (`Sole`), and
that the places exclude each other (`Placed`): what is unread or queued has neither
started nor been answered, what is answered is no longer in execution but for the flush,
and what is refused has not started; and that a helper whose pipes work has every
unacknowledged request somewhere (`Tracks`). A step of a helper may move a request and
start one that was still to start, and nothing else (`Works`); a step of the host may
add a line, drop one or lose a helper. `OutcomesInv` adds that a call which was told of
a timeout in the queue has a request no helper holds any more to start
(`Unstartable`), which no step undoes (`NothingStarts`): being absent from `started`
alone is not inductive. `Counts` bounds requests and helpers by the attempts begun, an
induction over finite sets; without it the type invariant is not provable, because the
model has numbers for two requests per call only. `IdleIsCoveredUnlessRefused` is
inductive over these: it needs that a call refused for its size has settled, so that
none overwrites the outcome the exception is about. For these proofs the model drops
elements of a queue or a pipe with a fold (`Purged`).

`TerminalLogProofs` proves `LogTypeOK`, `NothingIsStranded`, `FlushTakesWhatItFound`,
`IndexIsAChain` and `RemovalLeavesNothing` for any number of outputs, failures and
restarts; the bounds on the batches and the callers are constants. `LogInv` has four
parts. `Basic` has the types and says that what the queue, the calls and the batches name
exists and is compatible (`Sound`). `InOrder` speaks while the log is kept. There
is at most one batch `w` in use (`Carries`), its flush, if there is one, is the only
operation in the queue, and the output that is not indexed is a run of consecutive
numbers: first the `n` chunks in flight, then the `m` that wait (`Live`). `Linked` says
how that run continues the last segment: it starts where the segment ends, or, after a
commit that wrote the segment and not the record, it starts where the segment starts,
with no fewer chunks, and at its offset. Nothing weaker is inductive: a flush that
fails puts its chunks back in front, so the order of the index depends on what waits, and
`NothingIsStranded` on the batch of the map being the one whose flush ends. `Removed` and
`Closed` treat the removal step by step: what a deleted log has left and, once a terminal
is closed, that at most the one flush it overtook is in the queue before the delete, so
that nothing comes after it. The callers that wait for a flush resume in any
order, one of them may begin the next flush and the others then wait for that:
what their order leaves alone is an induction over the fold (`FoldChain`).
For these proofs the model got operators of its own for a caller that returns (`Over`)
and the end of a flush (`Owned`, `Marked`), which were parts of others.

Only model-checked: liveness (fairness is out of the prover's reach here, so
`OutputIsIndexed`, `CallsSettle`, `SilentRunIsQuestioned` and the like).

## Not modelled

Metrics, log texts and durations; the size limit of the guard; deletes of
session rows and the reads of services; the message queue of a session; the provider
observations that discovery makes while it lists sessions
(`session-history-service.ts:5540`); the pool of helper clients, the writer
process of terminal logs (a host with a write queue does not start it), hubs, tunnel,
channels, butler, clients and installers. Most of the source lines are presentation
(`src/apps/user-app`, `src/apps/desktop`), texts, and parsers of provider files, which
are sequential transformations of data. `PROJECT.json` gives the reason for each
component.

## Plan

1. `SessionWrites`: deletes of rows and the reads of services.
2. The message queue of a session over `ActiveRuns`: what is queued while a run is
   active is sent once and in order.
3. The pool of helper clients with its eviction; the lease of the provider helper;
   the WebRTC supervisor and the hubs.
4. `SessionActivity`: the observations of discovery, and several refreshes at once.
5. Proofs: the lemmas on which the next components depend.
