------------------------------ MODULE TaskHelper ------------------------------
(***************************************************************************)
(* One worker of the helper lane: the client in the host                   *)
(* (apps/host/src/modules/tasks/task-helper-client.ts), the helper         *)
(* processes it spawns one after the other (task-helper-process.ts) and    *)
(* the pipes between them.                                                 *)
(*                                                                         *)
(* A call of execute sends at most two requests: the first, and a second   *)
(* one on another helper when the first was lost with its helper or never  *)
(* executed.  pendingRequests and inflightRemoteRequestIds change together *)
(* and are one set here, as are unacknowledgedRemoteRequestIds and the     *)
(* keys of remoteRequestChildren.  The fallback timer of a cancel is armed *)
(* exactly while its request is abandoned: unacknowledged, not pending.    *)
(* Time is abstracted: a timer that is armed may fire.                     *)
(***************************************************************************)
EXTENDS Integers, FiniteSets, Sequences, SequencesExt

CONSTANTS
  Calls,        \* calls of execute
  Oversized,    \* those whose request line is too long to be sent
  Stuck,        \* those whose body may ignore its signal and never end
  Handlers,     \* handlers of the helper process
  Handler,      \* [Calls -> Handlers]
  Slots,        \* [Handlers -> Nat]: concurrency in a helper, 0: unlimited
  Abortable,    \* those whose caller gives an AbortSignal
  QueueLimited, \* [Calls -> BOOLEAN]: queueWaitTimeoutMs is given
  Crashing,     \* bound: helpers that may exit of their own accord
  Leaking       \* bound: helpers whose standard input may break

ASSUME CallsAssumption ==
  /\ IsFiniteSet(Calls)
  /\ Oversized \subseteq Calls /\ Stuck \subseteq Calls /\ Abortable \subseteq Calls
ASSUME HandlersAssumption ==
  /\ Handler \in [Calls -> Handlers] /\ Slots \in [Handlers -> Nat]
  /\ QueueLimited \in [Calls -> BOOLEAN]

VARIABLES
  call,     \* every call: where it is, its last request, its outcome
  request,  \* the requests sent, in the order of their ids
  client,   \* the tables and timers of TaskHelperProcessClient
  helper,   \* the state of every helper process
  pipeIn,   \* lines written to the standard input of a helper, not yet read
  pipeOut,  \* lines a helper wrote, not yet read by the client
  started   \* requests whose body a helper has started

vars == <<call, request, client, helper, pipeIn, pipeOut, started>>

MaxRequests == 2 * Cardinality(Calls)
Requests == 1..MaxRequests
Helpers == 1..MaxRequests   \* a request spawns at most one

(* What a helper answers ("done": a result or an error of the body), and    *)
(* why else a call may fail.                                                *)
Answers == {"done", "queueTimeout", "cancelled", "retiring"}
Outcomes == Answers \cup
  {"none", "lost", "unwritable", "aborted", "closed", "tooLarge"}

HelperState ==
  [up: BOOLEAN, broken: BOOLEAN, retiring: BOOLEAN, active: SUBSET Requests,
   flushing: SUBSET Requests, queue: Seq(Requests)]

HelperTypeOK ==
  /\ call \in [Calls -> [place: {"unborn", "waiting", "rejected", "settled"},
                         request: 0..MaxRequests, attempt: 0..1,
                         aborted: BOOLEAN, outcome: Outcomes]]
  /\ request \in Seq([call: Calls, helper: Helpers])
  /\ client \in [current: 0..MaxRequests, spawned: 0..MaxRequests,
                 lost: SUBSET Helpers, pending: SUBSET Requests,
                 unacked: SUBSET Requests, idleTimer: BOOLEAN,
                 phase: {"open", "closing", "closed"}, closing: SUBSET Helpers]
  /\ helper \in [Helpers -> HelperState]
  /\ pipeIn \in [Helpers -> Seq({"run", "cancel"} \X Requests)]
  /\ pipeOut \in [Helpers -> Seq(Requests \X Answers)]
  /\ started \subseteq Requests

-----------------------------------------------------------------------------
(* What is left of q without the members of gone.                           *)
Purged(q, gone) ==
  FoldLeft(LAMBDA kept, x : IF x \in gone THEN kept ELSE Append(kept, x), <<>>, q)

HelperOf(r) == request[r].helper
HandlerOf(r) == Handler[request[r].call]
SentTo(n) == {r \in DOMAIN request : HelperOf(r) = n}

(* Mutant of Abandoned: only a request still wanted has a fallback. *)
AbandonedNever(cl) == {}

(* Requests whose caller has gone and whose end is not confirmed.           *)
Abandoned(cl) == cl.unacked \ cl.pending

(* armIdleRecycleTimerIfNeeded.                                             *)
Idle(cl) == cl.phase = "open" /\ cl.current # 0 /\ cl.pending = {}

(* clearRemoteRequestTracking, and pendingRequests loses them.              *)
Forget(cl, rs) == [cl EXCEPT !.pending = @ \ rs, !.unacked = @ \ rs]

(* Mutant of GiveUp: the idle timer is cleared and not armed again. *)
GiveUpUntimed(cl, n) ==
  IF n \in cl.lost THEN cl
  ELSE [Forget(cl, SentTo(n)) EXCEPT !.current = IF @ = n THEN 0 ELSE @,
                                     !.lost = @ \cup {n}, !.idleTimer = FALSE]

(* retireChild and handleChildTermination: helper n is detached, its reader *)
(* closed, its process terminated and its requests are forgotten.           *)
GiveUp(cl, n) ==
  IF n \in cl.lost THEN cl
  ELSE LET left == [Forget(cl, SentTo(n)) EXCEPT
                      !.current = IF @ = n THEN 0 ELSE @, !.lost = @ \cup {n}]
       IN  [left EXCEPT !.idleTimer = Idle(left)]

(* Mutant of Rejected: a call in its second attempt is left behind. *)
RejectedFirst(cs, rs, outcome) ==
  [c \in Calls |->
     IF cs[c].place = "waiting" /\ cs[c].request \in rs /\ cs[c].attempt = 0
       THEN [cs[c] EXCEPT !.place = "rejected", !.outcome = outcome]
       ELSE cs[c]]

(* The calls waiting for the requests rs are rejected.                      *)
Rejected(cs, rs, outcome) ==
  [c \in Calls |->
     IF cs[c].place = "waiting" /\ cs[c].request \in rs
       THEN [cs[c] EXCEPT !.place = "rejected", !.outcome = outcome]
       ELSE cs[c]]

Settled(cs, c, outcome) ==
  [cs EXCEPT ![c].place = "settled", ![c].outcome = outcome]

(* ensureChild reuses the current helper unless its pipe is destroyed.      *)
Reusable(cl) == cl.current # 0 /\ ~helper[cl.current].broken

Unused == [up |-> FALSE, broken |-> FALSE, retiring |-> FALSE, active |-> {},
           flushing |-> {}, queue |-> <<>>]

(* Helpers and pipes once those of lost are lost: what such a helper still  *)
(* does before it exits is seen by nobody and not followed here.            *)
HelpersWithout(lost) ==
  [n \in Helpers |->
     IF n \in lost THEN [Unused EXCEPT !.up = helper[n].up] ELSE helper[n]]
Without(lost, pipe) == [n \in Helpers |-> IF n \in lost THEN <<>> ELSE pipe[n]]

(* executeOnce, when the client is cl, its calls cs and its helpers those   *)
(* not lost: the request of call c is written to the current helper, or to  *)
(* one spawned for it; an oversized one is rejected after that.             *)
ExecuteOnce(c, attempt, cl, cs) ==
  LET n == IF Reusable(cl) THEN cl.current ELSE cl.spawned + 1
      r == Len(request) + 1
      ready == [cl EXCEPT !.current = n, !.idleTimer = FALSE,
                          !.spawned = IF n > @ THEN n ELSE @]
      lines == Without(cl.lost, pipeIn)
  IN  /\ helper' = [HelpersWithout(cl.lost) EXCEPT ![n].up = @ \/ n > cl.spawned]
      /\ pipeOut' = Without(cl.lost, pipeOut)
      /\ IF c \in Oversized
           THEN /\ client' = ready /\ call' = Settled(cs, c, "tooLarge")
                /\ pipeIn' = lines /\ UNCHANGED request
           ELSE /\ client' = [ready EXCEPT !.pending = @ \cup {r},
                                           !.unacked = @ \cup {r}]
                /\ call' = [cs EXCEPT ![c] = [@ EXCEPT !.place = "waiting",
                              !.request = r, !.attempt = attempt, !.outcome = "none"]]
                /\ request' = Append(request, [call |-> c, helper |-> n])
                /\ pipeIn' = [lines EXCEPT ![n] = Append(@, <<"run", r>>)]

-----------------------------------------------------------------------------
Init ==
  /\ call = [c \in Calls |-> [place |-> "unborn", request |-> 0, attempt |-> 0,
                              aborted |-> FALSE, outcome |-> "none"]]
  /\ request = <<>>
  /\ client = [current |-> 0, spawned |-> 0, lost |-> {}, pending |-> {},
               unacked |-> {}, idleTimer |-> FALSE, phase |-> "open", closing |-> {}]
  /\ helper = [n \in Helpers |-> Unused]
  /\ pipeIn = [n \in Helpers |-> <<>>]
  /\ pipeOut = [n \in Helpers |-> <<>>]
  /\ started = {}

(* execute, up to its first await.                                          *)
Execute(c) ==
  /\ call[c].place = "unborn"
  /\ IF client.phase = "open"
       THEN ExecuteOnce(c, 0, client, call)
       ELSE /\ call' = Settled(call, c, "closed")
            /\ UNCHANGED <<request, client, helper, pipeIn, pipeOut>>
  /\ UNCHANGED started

(* Mutant of MayRetry: there is no limit to the attempts. *)
MayRetryAgain(c) ==
  /\ client.phase = "open" /\ ~call[c].aborted
  /\ call[c].outcome \in {"retiring", "lost"}

MayRetry(c) ==
  /\ call[c].attempt = 0 /\ client.phase = "open" /\ ~call[c].aborted
  /\ call[c].outcome \in {"retiring", "lost"}

(* Mutant of Retry: the helper that failed the call is not given up. *)
RetryInPlace(c) ==
  /\ call[c].place = "rejected"
  /\ IF MayRetry(c) THEN ExecuteOnce(c, call[c].attempt + 1, client, call)
     ELSE /\ call' = Settled(call, c, call[c].outcome)
          /\ UNCHANGED <<request, client, helper, pipeIn, pipeOut>>
  /\ UNCHANGED started

(* The catch of execute: a call that may be retried gives up the helper     *)
(* that failed it, with the other calls there, and sends a second request.  *)
Retry(c) ==
  /\ call[c].place = "rejected"
  /\ IF MayRetry(c)
       THEN LET failed == HelperOf(call[c].request)
                left == GiveUp(client, failed)
            IN  ExecuteOnce(c, call[c].attempt + 1, left,
                            Rejected(call, SentTo(failed), call[c].outcome))
       ELSE /\ call' = Settled(call, c, call[c].outcome)
            /\ UNCHANGED <<request, client, helper, pipeIn, pipeOut>>
  /\ UNCHANGED started

(* onAbort: the caller is answered at once, the helper is sent a cancel.    *)
(* A call between two requests has no listener; its retry is suppressed.    *)
Abort(c) ==
  /\ c \in Abortable /\ call[c].place \in {"waiting", "rejected"} /\ ~call[c].aborted
  /\ IF call[c].place = "rejected"
       THEN call' = [call EXCEPT ![c].aborted = TRUE] /\ UNCHANGED <<client, pipeIn>>
       ELSE LET r == call[c].request
            IN  /\ call' = [Settled(call, c, "aborted") EXCEPT ![c].aborted = TRUE]
                /\ client' = [client EXCEPT !.pending = @ \ {r}]
                /\ pipeIn' = IF client.phase = "open" /\ ~helper[HelperOf(r)].broken
                               THEN [pipeIn EXCEPT ![HelperOf(r)] =
                                       Append(@, <<"cancel", r>>)]
                               ELSE pipeIn
  /\ UNCHANGED <<request, helper, pipeOut, started>>

(* A helper is given up, the calls waiting for it fail with outcome.        *)
Lose(n, outcome) ==
  /\ client' = GiveUp(client, n)
  /\ call' = Rejected(call, SentTo(n), outcome)
  /\ helper' = HelpersWithout(client'.lost)
  /\ pipeIn' = Without(client'.lost, pipeIn)
  /\ pipeOut' = Without(client'.lost, pipeOut)
  /\ UNCHANGED <<request, started>>

(* The timer of armCancelFallback: the helper has not confirmed in time.    *)
FallbackFires(r) ==
  /\ client.phase = "open" /\ r \in Abandoned(client)
  /\ Lose(HelperOf(r), "retiring")

(* The idle timer: recycleIdleChild.                                        *)
IdleRecycle == client.idleTimer /\ Idle(client) /\ Lose(client.current, "retiring")

(* handleChildTermination, from the exit, error or close event of a helper. *)
LossNoticed(n) ==
  /\ n \in 1..client.spawned \ client.lost
  /\ ~helper[n].up \/ helper[n].broken
  /\ Lose(n, "lost")

(* A later event of a helper already lost: only the idle timer is armed.    *)
LateEvent(n) ==
  /\ n \in client.lost /\ ~helper[n].up /\ Idle(client)
  /\ client' = [client EXCEPT !.idleTimer = TRUE]
  /\ UNCHANGED <<call, request, helper, pipeIn, pipeOut, started>>

(* The callback of a failed write: the request was never read.  Only EPIPE  *)
(* and ECONNRESET may be retried, not the error of a buffered write.        *)
WriteFails(r, outcome) ==
  LET n == HelperOf(r)
  IN  /\ r \in client.unacked /\ (~helper[n].up \/ helper[n].broken)
      /\ Contains(pipeIn[n], <<"run", r>>)
      /\ client' = Forget(client, {r})
      /\ call' = Rejected(call, {r}, outcome)
      /\ pipeIn' = [pipeIn EXCEPT ![n] = Purged(@, {<<"run", r>>})]
      /\ UNCHANGED <<request, helper, pipeOut, started>>

(* handleResponseLine.                                                      *)
Answer(n) ==
  /\ n \notin client.lost /\ pipeOut[n] # <<>>
  /\ LET r == Head(pipeOut[n])[1]
         answer == Head(pipeOut[n])[2]
         left == Forget(client, {r})
     IN  /\ client' = [left EXCEPT !.idleTimer = @ \/ Idle(left)]
         /\ call' = IF r \notin client.pending THEN call
                    ELSE IF answer = "retiring" THEN Rejected(call, {r}, answer)
                    ELSE Settled(call, request[r].call, answer)
  /\ pipeOut' = [pipeOut EXCEPT ![n] = Tail(@)]
  /\ UNCHANGED <<request, helper, pipeIn, started>>

(* disposeInternal up to its first await: helpers are told to cancel.       *)
DisposeBegin ==
  /\ client.phase = "open"
  /\ client' = [client EXCEPT !.phase = "closing", !.idleTimer = FALSE,
       !.closing = {HelperOf(r) : r \in client.unacked} \cup client.lost
                     \cup ({client.current} \ {0})]
  /\ pipeIn' = [n \in Helpers |->
       IF helper[n].broken THEN pipeIn[n]
       ELSE pipeIn[n] \o SetToSeq({<<"cancel", r>> : r \in client.unacked \cap SentTo(n)})]
  /\ UNCHANGED <<call, request, helper, pipeOut, started>>

(* The rest of it: rejectAll, and the helpers known at the start end.       *)
DisposeEnd ==
  /\ client.phase = "closing"
  /\ client' = [client EXCEPT !.phase = "closed", !.pending = {}, !.unacked = {},
                              !.current = 0, !.lost = @ \cup client.closing]
  /\ call' = Rejected(call, client.pending, "closed")
  /\ helper' = HelpersWithout(client'.lost)
  /\ pipeIn' = Without(client'.lost, pipeIn)
  /\ pipeOut' = Without(client'.lost, pipeOut)
  /\ UNCHANGED <<request, started>>

-----------------------------------------------------------------------------
(* The helper process.                                                      *)

HasSlot(hp, h) ==
  Slots[h] = 0 \/ Cardinality({r \in hp.active : HandlerOf(r) = h}) < Slots[h]

(* Mutant of Drained: nothing is taken from the queue. *)
DrainedNot(hp, h) == hp

(* drainQueue: the oldest queued requests of handler h take the free slots. *)
Drained(hp, h) ==
  LET queued == Purged(hp.queue, {r \in DOMAIN request : HandlerOf(r) # h})
      free == Slots[h] - Cardinality({r \in hp.active : HandlerOf(r) = h})
      next == ToSet(SubSeq(queued, 1, Min({free, Len(queued)})))
  IN  [hp EXCEPT !.active = @ \cup next,
                 !.queue = Purged(@, next)]

(* beginRetire, and the answers to the queued requests.                     *)
Retired(hp) == [hp EXCEPT !.retiring = TRUE, !.queue = <<>>]

Refusals(hp) == [i \in DOMAIN hp.queue |-> <<hp.queue[i], "retiring">>]

(* Helper n, which is not lost, becomes hp and writes replies.              *)
Becomes(n, hp, replies) ==
  /\ n \notin client.lost /\ helper[n].up
  /\ helper' = [helper EXCEPT ![n] = hp]
  /\ started' = started \cup hp.active
  /\ pipeOut' = [pipeOut EXCEPT ![n] = @ \o replies]
  /\ UNCHANGED <<call, request, client>>

(* Mutant of Dequeued: the queued request is only answered. *)
DequeuedNot(hp, r) == hp

(* A queued request r leaves the queue unexecuted; helper n answers it.     *)
Dequeued(hp, r) == [hp EXCEPT !.queue = Purged(@, {r})]

(* handleLine, for a request.                                               *)
ReadRun(n, r) ==
  LET hp == helper[n]
  IN  IF hp.retiring THEN Becomes(n, hp, <<<<r, "retiring">>>>)
      ELSE IF HasSlot(hp, HandlerOf(r))
        THEN Becomes(n, [hp EXCEPT !.active = @ \cup {r}], <<>>)
      ELSE Becomes(n, [hp EXCEPT !.queue = Append(@, r)], <<>>)

(* Mutant of ReadCancel: a queued request is removed without an answer. *)
ReadCancelSilent(n, r) ==
  IF Contains(helper[n].queue, r) THEN Becomes(n, Dequeued(helper[n], r), <<>>)
  ELSE Becomes(n, helper[n], <<>>)

(* cancelRequest: a queued request is answered, an active one is signalled. *)
ReadCancel(n, r) ==
  IF Contains(helper[n].queue, r)
    THEN Becomes(n, Dequeued(helper[n], r), <<<<r, "cancelled">>>>)
    ELSE Becomes(n, helper[n], <<>>)

Read(n) ==
  /\ pipeIn[n] # <<>>
  /\ LET r == Head(pipeIn[n])[2]
     IN  IF Head(pipeIn[n])[1] = "run" THEN ReadRun(n, r) ELSE ReadCancel(n, r)
  /\ pipeIn' = [pipeIn EXCEPT ![n] = Tail(@)]

(* runTask: the body ends, well or badly, and its answer is written.        *)
Respond(n, r) ==
  /\ r \in helper[n].active \ helper[n].flushing
  /\ Becomes(n, [helper[n] EXCEPT !.flushing = @ \cup {r}], <<<<r, "done">>>>)
  /\ UNCHANGED pipeIn

(* The end of runTask, after the answer and the metrics are flushed: the    *)
(* slot is free, the queue is drained, and a helper over the high-water     *)
(* mark of memory that has nothing left to do retires.                      *)
Release(n, r, highWater) ==
  LET h == HandlerOf(r)
      hp == Drained([helper[n] EXCEPT !.active = @ \ {r}, !.flushing = @ \ {r}], h)
  IN  /\ r \in helper[n].flushing
      /\ highWater => ~hp.retiring /\ hp.active = {} /\ hp.queue = <<>>
      /\ Becomes(n, IF highWater THEN Retired(hp) ELSE hp, <<>>)
      /\ UNCHANGED pipeIn

(* armQueuedTaskTimeout: a queued request has waited too long.              *)
QueueTimeout(n, r) ==
  /\ Contains(helper[n].queue, r) /\ QueueLimited[request[r].call]
  /\ Becomes(n, Dequeued(helper[n], r), <<<<r, "queueTimeout">>>>)
  /\ UNCHANGED pipeIn

(* The end of the client's lines, once they are read: beginRetire.          *)
StdinCloses(n) ==
  /\ helper[n].broken /\ ~helper[n].retiring /\ pipeIn[n] = <<>>
  /\ Becomes(n, Retired(helper[n]), Refusals(helper[n]))
  /\ UNCHANGED pipeIn

(* Helper n exits: by itself (flushAndExit), killed by the client or not.   *)
(* What it wrote before can still be read, unless it is lost.               *)
HelperDies(n) ==
  /\ helper[n].up /\ (n \in client.lost \/ helper[n].retiring \/ n \in Crashing)
  /\ helper' = [helper EXCEPT ![n] = [Unused EXCEPT !.broken = helper[n].broken]]
  /\ UNCHANGED <<call, request, client, pipeIn, pipeOut, started>>

(* The client's end of the standard input of helper n is destroyed.         *)
PipeBreaks(n) ==
  /\ n \in (Leaking \cap 1..client.spawned) \ client.lost /\ ~helper[n].broken
  /\ helper' = [helper EXCEPT ![n].broken = TRUE]
  /\ UNCHANGED <<call, request, client, pipeIn, pipeOut, started>>

-----------------------------------------------------------------------------
Next ==
  \/ \E c \in Calls : Execute(c) \/ Retry(c) \/ Abort(c)
  \/ \E r \in DOMAIN request :
       FallbackFires(r) \/ \E o \in {"lost", "unwritable"} : WriteFails(r, o)
  \/ \E n \in Helpers :
       \/ LossNoticed(n) \/ LateEvent(n) \/ Answer(n) \/ Read(n)
       \/ StdinCloses(n) \/ HelperDies(n) \/ PipeBreaks(n)
       \/ \E r \in DOMAIN request :
            \/ Respond(n, r)
            \/ \E w \in BOOLEAN : Release(n, r, w)
            \/ QueueTimeout(n, r)
  \/ IdleRecycle \/ DisposeBegin \/ DisposeEnd

Spec == Init /\ [][Next]_vars

(* What the host's event loop runs when it is due, promise reactions, events *)
(* and timers, but the idle timer.                                          *)
HostStep ==
  \/ \E c \in Calls : Retry(c)
  \/ \E r \in DOMAIN request : FallbackFires(r)
  \/ \E n \in Helpers : LossNoticed(n) \/ Answer(n)
  \/ DisposeEnd

(* What a helper does when it can: bodies end unless their call is Stuck,   *)
(* a helper that is lost (SIGKILL) or retiring (its grace period) exits.    *)
HelperStep ==
  \E n \in Helpers :
    \/ Read(n) \/ StdinCloses(n)
    \/ (n \in client.lost \/ helper[n].retiring) /\ HelperDies(n)
    \/ \E r \in DOMAIN request :
         \/ request[r].call \notin Stuck /\ Respond(n, r)
         \/ \E w \in BOOLEAN : Release(n, r, w)
         \/ QueueTimeout(n, r)

(* Nothing makes a healthy helper exit, a pipe break or a caller abort.     *)
FairSpec == Spec /\ WF_vars(HostStep) /\ WF_vars(HelperStep)

-----------------------------------------------------------------------------
(* A call waits for one request, pending at the client and not yet          *)
(* acknowledged, and every pending request has its call waiting: no answer, *)
(* loss or disposal leaves a promise behind that nobody will settle.        *)
WaitingIsPending ==
  /\ client.pending = {call[c].request : c \in {d \in Calls : call[d].place = "waiting"}}
  /\ client.pending \subseteq client.unacked

(* A request the client still expects an answer to, at a helper whose pipes *)
(* work, is in exactly one place: its line unread, in the helper's queue,   *)
(* in execution, or answered.  None is dropped or answered twice.           *)
UnackedIsSomewhere ==
  \A n \in 1..client.spawned \ client.lost :
    helper[n].up /\ ~helper[n].broken =>
      \A r \in client.unacked \cap SentTo(n) :
        Cardinality({i \in DOMAIN pipeIn[n] : pipeIn[n][i] = <<"run", r>>})
          + Cardinality({i \in DOMAIN helper[n].queue : helper[n].queue[i] = r})
          + Cardinality({r} \cap (helper[n].active \ helper[n].flushing))
          + Cardinality({i \in DOMAIN pipeOut[n] : pipeOut[n][i][1] = r}) = 1

(* An answer that says the request was not executed is true: a request      *)
(* refused, cancelled or timed out in the queue never started, then or      *)
(* later, so retrying or reporting it is safe.                              *)
RefusalsDidNotRun ==
  /\ \A n \in Helpers : \A i \in DOMAIN pipeOut[n] :
       pipeOut[n][i][2] \in {"retiring", "queueTimeout", "cancelled"}
         => pipeOut[n][i][1] \notin started
  /\ \A c \in Calls :
       call[c].outcome = "queueTimeout" => call[c].request \notin started

(* A call is sent again only after the helper of its first request has been *)
(* given up: two helpers the client still listens to never execute the same *)
(* call.                                                                    *)
RepeatOnlyAfterLoss ==
  \A i, j \in DOMAIN request :
    i < j /\ request[i].call = request[j].call => HelperOf(i) \in client.lost

(* The test 'helper 空闲一段时间后会主动回收子进程': a helper with nothing  *)
(* to do is covered by the idle timer, unless the answer to a cancel or the *)
(* loss of some helper, which arm it, are still to come.                    *)
IdleIsCovered ==
  /\ Idle(client) /\ client.unacked = {}
  /\ \A n \in 1..client.spawned \ client.lost : helper[n].up /\ ~helper[n].broken
  => client.idleTimer

(* The same, as long as no call was rejected for its size.                  *)
IdleIsCoveredUnlessRefused ==
  IdleIsCovered \/ \E c \in Calls : call[c].outcome = "tooLarge"

(* A request whose caller has gone is forgotten in the end: it is answered, *)
(* or its helper is lost or given up by the fallback.                       *)
AbandonedIsForgotten ==
  \A r \in Requests : r \in Abandoned(client) ~> r \notin client.unacked

(* Every call settles, even if helpers die, are recycled or are given up at *)
(* the worst moment, unless the caller of a body that never ends keeps      *)
(* waiting for it: once the stuck calls are over, no other waits for ever.  *)
CallsSettle ==
  <>[](\A d \in Stuck : call[d].place \notin {"waiting", "rejected"})
    => \A c \in Calls \ Stuck : call[c].place = "waiting" ~> call[c].place = "settled"
=============================================================================
