-------------------------- MODULE TerminalLogProofs --------------------------
(***************************************************************************)
(* Proofs about the log of a terminal: no output is stranded, what a flush *)
(* returns for has been taken, the index is a chain and a removed log      *)
(* leaves nothing, for every number of outputs, failures and restarts.     *)
(***************************************************************************)
EXTENDS TerminalLog, InductionLemmas, FiniteSetTheorems

-----------------------------------------------------------------------------
(* Sequences of consecutive numbers.                                        *)

(* q is a, a + 1, ... of length n.                                          *)
Goes(q, a, n) == Len(q) = n /\ \A k \in 1..n : q[k] = a + k - 1

LEMMA GoesEmpty ==
  ASSUME NEW a, NEW n, NEW q \in Seq(Chunks), Goes(q, a, n)
  PROVE  n \in Nat /\ (n = 0 <=> q = <<>>)
BY LenProperties, EmptySeq DEF Goes

LEMMA EmptyGoes ==
  ASSUME NEW a
  PROVE  Goes(<<>>, a, 0)
BY EmptyInterval DEF Goes

LEMMA GoesConcat ==
  ASSUME NEW a \in Nat, NEW n, NEW m, NEW q \in Seq(Chunks), NEW r \in Seq(Chunks),
         Goes(q, a, n), Goes(r, a + n, m)
  PROVE  Goes(q \o r, a, n + m)
<1>1. /\ Len(q) \in Nat /\ Len(r) \in Nat /\ Len(q) = n /\ Len(r) = m
      /\ \A k \in 1..n : q[k] = a + k - 1
      /\ \A k \in 1..m : r[k] = a + n + k - 1
  BY LenProperties DEF Goes
<1>2. /\ Len(q \o r) = n + m
      /\ \A k \in 1..(n + m) : (q \o r)[k] = IF k <= n THEN q[k] ELSE r[k - n]
  BY <1>1, ConcatProperties
<1>3. ASSUME NEW k \in 1..(n + m) PROVE (q \o r)[k] = a + k - 1
  <2>1. CASE k <= n
    <3>1. k \in 1..n
      BY <1>1, <2>1
    <3> QED  BY <1>1, <1>2, <2>1, <3>1
  <2>2. CASE ~ (k <= n)
    <3>1. k - n \in 1..m /\ a + n + (k - n) - 1 = a + k - 1
      BY <1>1, <2>2
    <3> QED  BY <1>1, <1>2, <2>2, <3>1
  <2> QED  BY <2>1, <2>2
<1> QED  BY <1>2, <1>3 DEF Goes

LEMMA GoesAppend ==
  ASSUME NEW a \in Nat, NEW n, NEW q \in Seq(Chunks), NEW c \in Chunks,
         Goes(q, a, n), c = a + n
  PROVE  Goes(Append(q, c), a, n + 1)
<1>1. /\ Len(q) \in Nat /\ Len(q) = n /\ \A k \in 1..n : q[k] = a + k - 1
      /\ Len(Append(q, c)) = n + 1 /\ Append(q, c)[n + 1] = c
      /\ \A k \in 1..n : Append(q, c)[k] = q[k]
  BY AppendProperties, LenProperties DEF Goes
<1>2. ASSUME NEW k \in 1..(n + 1) PROVE Append(q, c)[k] = a + k - 1
  <2>1. k \in 1..n \/ k = n + 1
    BY <1>1
  <2> QED  BY <1>1, <2>1
<1> QED  BY <1>1, <1>2 DEF Goes

LEMMA GoesMembers ==
  ASSUME NEW a \in Nat, NEW n, NEW q \in Seq(Chunks), Goes(q, a, n), NEW i \in Int
  PROVE  i \in ToSet(q) <=> a <= i /\ i < a + n
<1>1. /\ n \in Nat /\ DOMAIN q = 1..n /\ \A k \in 1..n : q[k] = a + k - 1
  BY LenProperties DEF Goes
<1>2. ASSUME i \in ToSet(q) PROVE a <= i /\ i < a + n
  <2>1. PICK k \in 1..n : i = q[k]
    BY <1>1, <1>2 DEF ToSet
  <2> QED  BY <1>1, <2>1
<1>3. ASSUME a <= i, i < a + n PROVE i \in ToSet(q)
  <2>1. i - a + 1 \in 1..n /\ a + (i - a + 1) - 1 = i
    BY <1>1, <1>3
  <2> QED  BY <1>1, <2>1 DEF ToSet
<1> QED  BY <1>2, <1>3

LEMMA GoesPrefix ==
  ASSUME NEW a \in Nat, NEW n, NEW m, NEW q \in Seq(Chunks), NEW r \in Seq(Chunks),
         Goes(q, a, n), Goes(r, a, m), n <= m
  PROVE  IsPrefix(q, r)
<1>1. /\ n \in Nat /\ m \in Nat /\ Len(q) = n /\ Len(r) = m
      /\ \A k \in 1..n : q[k] = a + k - 1
      /\ \A k \in 1..m : r[k] = a + k - 1
  BY LenProperties DEF Goes
<1>2. SubSeq(q, 1, n) = q
  BY <1>1, SubSeqFull
<1>3. \A k \in 1..n : k \in 1..m /\ r[k] \in Chunks
  BY <1>1, ElementOfSeq
<1>4. /\ SubSeq(r, 1, n) \in Seq(Chunks) /\ Len(SubSeq(r, 1, n)) = n
      /\ \A k \in 1..n : SubSeq(r, 1, n)[k] = r[1 + k - 1]
  <2>1. 1 \in Int /\ n \in Int /\ Len(SubSeq(r, 1, n)) = IF 1 <= n THEN n - 1 + 1 ELSE 0
    BY <1>1, <1>3, SubSeqProperties
  <2>2. Len(SubSeq(r, 1, n)) = n
    BY <1>1, <2>1
  <2> QED  BY <1>1, <1>3, <2>1, <2>2, SubSeqProperties
<1>5. ASSUME NEW k \in 1..n PROVE q[k] = SubSeq(r, 1, n)[k]
  <2>1. 1 + k - 1 = k
    OBVIOUS
  <2> QED  BY <1>1, <1>3, <1>4, <2>1
<1>6. q = SubSeq(r, 1, n)
  BY <1>1, <1>4, <1>5, SeqEqual
<1> QED  BY <1>1, <1>2, <1>6 DEF IsPrefix

-----------------------------------------------------------------------------
(* The operators of the spooler, field by field.                            *)

Spooler == [batch: [Batches -> Batch], mapped: Batches \cup {0},
            queue: Seq(Operation), call: [Callers -> Call]]

LEMMA Numbers == MaxChunks \in Nat /\ MaxFaults \in Nat /\ MaxRuns \in Nat /\ MaxRuns # 0
BY BoundsAssumption

LEMMA NoBatchType == NoBatch \in Batch
<1>1. <<>> \in Seq(Chunks)
  BY EmptySeq
<1> QED  BY <1>1 DEF NoBatch, Batch

LEMMA NoCallType == NoCall \in Call
BY Numbers DEF NoCall, Call

LEMMA NotABatch == 0 \notin Batches
BY BatchesAssumption

(* Everything but the calls stays.                                          *)
SameBatches(s, t) == t.batch = s.batch /\ t.mapped = s.mapped /\ t.queue = s.queue

LEMMA OverParts ==
  ASSUME NEW s \in Spooler, NEW c \in Callers
  PROVE  /\ Over(s, c) \in Call
         /\ Over(s, c).state \in {"idle", "returned"}
         /\ Over(s, c).upto \in {0, s.call[c].upto}
         /\ Over(s, c).state = "idle" \/ Over(s, c).upto = s.call[c].upto
         /\ Over(s, c).state = "idle" \/ Over(s, c).ok = s.call[c].ok
<1>1. s.call[c] \in Call
  BY DEF Spooler
<1> QED  BY <1>1, NoCallType DEF Over, NoCall, Call

LEMMA ReturnedParts ==
  ASSUME NEW s \in Spooler, NEW c \in Callers
  PROVE  /\ Returned(s, c) \in Spooler
         /\ SameBatches(s, Returned(s, c))
         /\ Returned(s, c).call = [s.call EXCEPT ![c] = Over(s, c)]
<1> DEFINE o == Over(s, c)
<1>1. o \in Call
  BY OverParts
<1> HIDE DEF o
<1>2. [s.call EXCEPT ![c] = o] \in [Callers -> Call]
  BY <1>1 DEF Spooler
<1>3. Returned(s, c) = [s EXCEPT !.call = [s.call EXCEPT ![c] = o]]
  BY DEF Returned, o
<1> QED  BY <1>2, <1>3 DEF Spooler, SameBatches, o

LEMMA OwnedParts ==
  ASSUME NEW s \in Spooler, NEW b
  PROVE  /\ Owned(s, b) \in Spooler
         /\ SameBatches(s, Owned(s, b))
         /\ \A c \in Callers : Owned(s, b).call[c] =
              IF c \in Waiting(s, b, "own") THEN Over(s, c) ELSE s.call[c]
<1> DEFINE w == Waiting(s, b, "own")
           o(c) == Over(s, c)
<1>1. \A c \in Callers : o(c) \in Call
  BY OverParts
<1> HIDE DEF o, w
<1> DEFINE f == [c \in Callers |-> IF c \in w THEN o(c) ELSE s.call[c]]
<1>2. f \in [Callers -> Call]
  BY <1>1 DEF Spooler
<1>3. Owned(s, b) = [s EXCEPT !.call = f]
  BY DEF Owned, o, w
<1> QED  BY <1>2, <1>3 DEF Spooler, SameBatches, o, w

LEMMA ClearedParts ==
  ASSUME NEW s \in Spooler
  PROVE  /\ Cleared(s) \in Spooler /\ Cleared(s).mapped = 0
         /\ Cleared(s).queue = s.queue /\ Cleared(s).call = s.call
         /\ \A b \in Batches : b # s.mapped => Cleared(s).batch[b] = s.batch[b]
         /\ \A b \in Batches : b = s.mapped =>
              Cleared(s).batch[b] = [s.batch[b] EXCEPT !.timer = FALSE]
<1>1. CASE s.mapped = 0
  BY <1>1, NotABatch DEF Cleared, Spooler
<1>2. CASE s.mapped # 0
  <2> DEFINE f == [s.batch EXCEPT ![s.mapped] = [s.batch[s.mapped] EXCEPT !.timer = FALSE]]
  <2>1. s.mapped \in Batches /\ s.batch[s.mapped] \in Batch
    BY <1>2 DEF Spooler
  <2>2. [s.batch[s.mapped] EXCEPT !.timer = FALSE] \in Batch
    BY <2>1 DEF Batch
  <2>3. f \in [Batches -> Batch]
    BY <2>1, <2>2 DEF Spooler
  <2>4. Cleared(s) = [s EXCEPT !.batch = f, !.mapped = 0]
    BY <1>2, <2>1 DEF Cleared, Spooler
  <2>5. \A b \in Batches : f[b] = IF b = s.mapped THEN [s.batch[b] EXCEPT !.timer = FALSE]
                                  ELSE s.batch[b]
    BY <2>1 DEF Spooler
  <2> HIDE DEF f
  <2> QED  BY <2>3, <2>4, <2>5 DEF Spooler
<1> QED  BY <1>1, <1>2

LEMMA ScheduledParts ==
  ASSUME NEW s \in Spooler
  PROVE  /\ Scheduled(s) \in Spooler /\ Scheduled(s).mapped = s.mapped
         /\ Scheduled(s).queue = s.queue /\ Scheduled(s).call = s.call
         /\ \A b \in Batches : b # s.mapped => Scheduled(s).batch[b] = s.batch[b]
         /\ \A b \in Batches : b = s.mapped =>
              Scheduled(s).batch[b] = [s.batch[b] EXCEPT !.timer = TRUE]
<1>1. CASE s.mapped = 0
  BY <1>1, NotABatch DEF Scheduled, Spooler
<1>2. CASE s.mapped # 0
  <2> DEFINE f == [s.batch EXCEPT ![s.mapped] = [s.batch[s.mapped] EXCEPT !.timer = TRUE]]
  <2>1. s.mapped \in Batches /\ s.batch[s.mapped] \in Batch
    BY <1>2 DEF Spooler
  <2>2. [s.batch[s.mapped] EXCEPT !.timer = TRUE] \in Batch
    BY <2>1 DEF Batch
  <2>3. f \in [Batches -> Batch]
    BY <2>1, <2>2 DEF Spooler
  <2>4. Scheduled(s) = [s EXCEPT !.batch = f]
    BY <1>2, <2>1 DEF Scheduled, Spooler
  <2>5. \A b \in Batches : f[b] = IF b = s.mapped THEN [s.batch[b] EXCEPT !.timer = TRUE]
                                  ELSE s.batch[b]
    BY <2>1 DEF Spooler
  <2> HIDE DEF f
  <2> QED  BY <2>3, <2>4, <2>5 DEF Spooler
<1> QED  BY <1>1, <1>2

LEMMA EnqueuedParts ==
  ASSUME NEW s \in Spooler, NEW kind \in {"prepare", "commit", "delete"},
         NEW b \in Batches \cup {0}, NEW offset \in Nat
  PROVE  /\ Enqueued(s, kind, b, offset) \in Spooler
         /\ Enqueued(s, kind, b, offset).batch = s.batch
         /\ Enqueued(s, kind, b, offset).mapped = s.mapped
         /\ Enqueued(s, kind, b, offset).call = s.call
         /\ Enqueued(s, kind, b, offset).queue
              = Append(s.queue, [op |-> kind, batch |-> b, offset |-> offset])
         /\ [op |-> kind, batch |-> b, offset |-> offset] \in Operation
<1> DEFINE o == [op |-> kind, batch |-> b, offset |-> offset]
<1>1. o \in Operation
  BY DEF Operation
<1>2. Enqueued(s, kind, b, offset) = [s EXCEPT !.queue = Append(s.queue, o)]
  BY DEF Enqueued
<1> HIDE DEF o
<1>3. Append(s.queue, o) \in Seq(Operation)
  BY <1>1, AppendProperties DEF Spooler
<1> QED  BY <1>1, <1>2, <1>3 DEF Spooler, o

LEMMA EnqueuedDelete ==
  ASSUME NEW s \in Spooler
  PROVE  /\ Enqueued(s, "delete", 0, 0) \in Spooler
         /\ Enqueued(s, "delete", 0, 0).mapped = s.mapped
         /\ Enqueued(s, "delete", 0, 0).queue
              = Append(s.queue, [op |-> "delete", batch |-> 0, offset |-> 0])
<1>1. "delete" \in {"prepare", "commit", "delete"} /\ 0 \in Batches \cup {0} /\ 0 \in Nat
  OBVIOUS
<1> QED  BY <1>1, EnqueuedParts, ZenonT(30)

LEMMA AwaitsParts ==
  ASSUME NEW s \in Spooler, NEW c \in Callers, NEW state \in {"own", "other"},
         NEW b \in Batches
  PROVE  /\ Awaits(s, c, state, b) \in Spooler
         /\ SameBatches(s, Awaits(s, c, state, b))
         /\ \A d \in Callers : d # c => Awaits(s, c, state, b).call[d] = s.call[d]
         /\ Awaits(s, c, state, b).call[c].state = state
         /\ Awaits(s, c, state, b).call[c].batch = b
         /\ Awaits(s, c, state, b).call[c].upto = s.call[c].upto
         /\ Awaits(s, c, state, b).call[c].ok = s.call[c].ok
<1> DEFINE o == [s.call[c] EXCEPT !.state = state, !.batch = b]
<1>1. s.call[c] \in Call
  BY DEF Spooler
<1>2. /\ o \in Call /\ o.state = state /\ o.batch = b
      /\ o.upto = s.call[c].upto /\ o.ok = s.call[c].ok
  BY <1>1 DEF Call
<1>3. Awaits(s, c, state, b) = [s EXCEPT !.call = [s.call EXCEPT ![c] = o]]
  BY DEF Awaits, Spooler, Call
<1> HIDE DEF o
<1>4. [s.call EXCEPT ![c] = o] \in [Callers -> Call] /\ s.call \in [Callers -> Call]
  BY <1>2 DEF Spooler
<1> QED  BY <1>2, <1>3, <1>4 DEF Spooler, SameBatches

LEMMA CollectedParts ==
  ASSUME NEW s \in Spooler
  PROVE  /\ Collected(s) \in Spooler /\ Collected(s).mapped = s.mapped
         /\ Collected(s).queue = s.queue /\ Collected(s).call = s.call
         /\ \A b \in Batches : Collected(s).batch[b] =
              IF b # s.mapped /\ s.batch[b].inflight = <<>> /\ ~s.batch[b].timer
                THEN NoBatch ELSE s.batch[b]
<1> DEFINE u == Unused(s)
           f == [b \in Batches |-> IF b \in u THEN NoBatch ELSE s.batch[b]]
<1>1. \A b \in Batches : b \in u <=>
        b # s.mapped /\ s.batch[b].inflight = <<>> /\ ~s.batch[b].timer
  BY NotABatch DEF Unused, Flushing
<1> HIDE DEF u
<1>2. f \in [Batches -> Batch]
  BY NoBatchType DEF Spooler
<1>3. Collected(s) = [s EXCEPT !.batch = f]
  BY DEF Collected, u
<1>4. \A b \in Batches : f[b] = IF b \in u THEN NoBatch ELSE s.batch[b]
  OBVIOUS
<1> HIDE DEF f
<1> QED  BY <1>1, <1>2, <1>3, <1>4 DEF Spooler

(* s with the whole of batch b under way.                                   *)
Taking(s, b) ==
  [s EXCEPT !.batch[b] = [chunks |-> <<>>, timer |-> FALSE, inflight |-> @.chunks]]

LEMMA TakingParts ==
  ASSUME NEW s \in Spooler, NEW b \in Batches
  PROVE  /\ Taking(s, b) \in Spooler /\ Taking(s, b).mapped = s.mapped
         /\ Taking(s, b).queue = s.queue /\ Taking(s, b).call = s.call
         /\ \A x \in Batches : x # b => Taking(s, b).batch[x] = s.batch[x]
         /\ Taking(s, b).batch[b].chunks = <<>>
         /\ Taking(s, b).batch[b].timer = FALSE
         /\ Taking(s, b).batch[b].inflight = s.batch[b].chunks
<1> DEFINE r == [chunks |-> <<>>, timer |-> FALSE, inflight |-> s.batch[b].chunks]
           f == [s.batch EXCEPT ![b] = r]
<1>1. s.batch \in [Batches -> Batch] /\ s.batch[b] \in Batch
  BY DEF Spooler
<1>2. r \in Batch
  <2>1. <<>> \in Seq(Chunks)
    BY EmptySeq
  <2> QED  BY <1>1, <2>1 DEF Batch
<1>3. Taking(s, b) = [s EXCEPT !.batch = f]
  BY DEF Taking, Spooler
<1>4. r.chunks = <<>> /\ r.timer = FALSE /\ r.inflight = s.batch[b].chunks
  OBVIOUS
<1> HIDE DEF r
<1>5. f \in [Batches -> Batch] /\ f[b] = r /\ \A x \in Batches : x # b => f[x] = s.batch[x]
  BY <1>1, <1>2
<1> HIDE DEF f
<1> QED  BY <1>3, <1>4, <1>5 DEF Spooler

(* The cases of flushTerminal.                                              *)
Takes(s, c, b) == Awaits(Enqueued(Taking(s, b), "prepare", b, 0), c, "own", b)

LEMMA FlushCases ==
  ASSUME NEW s \in Spooler, NEW c \in Callers
  PROVE  \/ host = "disposed" /\ FlushTerminal(s, c) = Returned(Cleared(s), c)
         \/ /\ host # "disposed" /\ s.mapped = 0
            /\ FlushTerminal(s, c) = Returned(s, c)
         \/ /\ host # "disposed" /\ s.mapped \in Batches
            /\ s.batch[s.mapped].inflight # <<>>
            /\ FlushTerminal(s, c) = Awaits(s, c, "other", s.mapped)
         \/ /\ host # "disposed" /\ s.mapped \in Batches
            /\ s.batch[s.mapped].inflight = <<>> /\ s.batch[s.mapped].chunks = <<>>
            /\ FlushTerminal(s, c) = Returned(s, c)
         \/ /\ host # "disposed" /\ s.mapped \in Batches
            /\ s.batch[s.mapped].inflight = <<>> /\ s.batch[s.mapped].chunks # <<>>
            /\ FlushTerminal(s, c) = Takes(s, c, s.mapped)
<1>1. s.mapped \in Batches \cup {0}
  BY DEF Spooler
<1>2. s.mapped = 0 \/ (s.mapped \in Batches /\ s.mapped # 0)
  BY <1>1, NotABatch
<1> QED  BY <1>2 DEF FlushTerminal, Flushing, Takes, Taking

LEMMA TakesParts ==
  ASSUME NEW s \in Spooler, NEW c \in Callers, NEW b \in Batches
  PROVE  /\ Takes(s, c, b) \in Spooler /\ Takes(s, c, b).mapped = s.mapped
         /\ Takes(s, c, b).queue
              = Append(s.queue, [op |-> "prepare", batch |-> b, offset |-> 0])
         /\ \A x \in Batches : x # b => Takes(s, c, b).batch[x] = s.batch[x]
         /\ Takes(s, c, b).batch[b].chunks = <<>>
         /\ Takes(s, c, b).batch[b].timer = FALSE
         /\ Takes(s, c, b).batch[b].inflight = s.batch[b].chunks
         /\ \A d \in Callers : d # c => Takes(s, c, b).call[d] = s.call[d]
         /\ Takes(s, c, b).call[c].upto = s.call[c].upto
         /\ Takes(s, c, b).call[c].ok = s.call[c].ok
         /\ Takes(s, c, b).call[c].state = "own"
<1> DEFINE t == Taking(s, b)
           u == Enqueued(t, "prepare", b, 0)
<1>1. /\ t \in Spooler /\ t.mapped = s.mapped
      /\ t.queue = s.queue /\ t.call = s.call
      /\ \A x \in Batches : x # b => t.batch[x] = s.batch[x]
      /\ t.batch[b].chunks = <<>> /\ t.batch[b].timer = FALSE
      /\ t.batch[b].inflight = s.batch[b].chunks
  BY TakingParts
<1> HIDE DEF t
<1>2. /\ u \in Spooler /\ u.batch = t.batch /\ u.mapped = t.mapped /\ u.call = t.call
      /\ u.queue = Append(t.queue, [op |-> "prepare", batch |-> b, offset |-> 0])
  BY <1>1, EnqueuedParts
<1> HIDE DEF u
<1>3. Takes(s, c, b) = Awaits(u, c, "own", b)
  BY DEF Takes, u, t
<1> DEFINE r == Awaits(u, c, "own", b)
<1>4. /\ r \in Spooler /\ r.batch = u.batch /\ r.mapped = u.mapped /\ r.queue = u.queue
      /\ \A d \in Callers : d # c => r.call[d] = u.call[d]
      /\ r.call[c].state = "own"
      /\ r.call[c].upto = u.call[c].upto /\ r.call[c].ok = u.call[c].ok
  <2>1. SameBatches(u, Awaits(u, c, "own", b)) /\ Awaits(u, c, "own", b) \in Spooler
    BY <1>2, AwaitsParts
  <2>2. \A d \in Callers : d # c => Awaits(u, c, "own", b).call[d] = u.call[d]
    BY <1>2, AwaitsParts
  <2>3. /\ Awaits(u, c, "own", b).call[c].state = "own"
        /\ Awaits(u, c, "own", b).call[c].upto = u.call[c].upto
        /\ Awaits(u, c, "own", b).call[c].ok = u.call[c].ok
    BY <1>2, AwaitsParts
  <2> QED  BY <2>1, <2>2, <2>3 DEF SameBatches
<1> HIDE DEF r
<1> QED  BY <1>1, <1>2, <1>3, <1>4 DEF r

(* The state after a flush of b, before anyone is told.                     *)
LeftOf(s, b, ok) == IF ok THEN s.batch[b].chunks ELSE s.batch[b].inflight \o s.batch[b].chunks
Ended(s, b, ok) ==
  [s EXCEPT !.batch[b].chunks = LeftOf(s, b, ok), !.batch[b].inflight = <<>>]

LEMMA EndedParts ==
  ASSUME NEW s \in Spooler, NEW b \in Batches, NEW ok \in BOOLEAN
  PROVE  /\ Ended(s, b, ok) \in Spooler /\ Ended(s, b, ok).mapped = s.mapped
         /\ Ended(s, b, ok).queue = s.queue /\ Ended(s, b, ok).call = s.call
         /\ \A x \in Batches : x # b => Ended(s, b, ok).batch[x] = s.batch[x]
         /\ Ended(s, b, ok).batch[b].chunks = LeftOf(s, b, ok)
         /\ Ended(s, b, ok).batch[b].timer = s.batch[b].timer
         /\ Ended(s, b, ok).batch[b].inflight = <<>>
         /\ LeftOf(s, b, ok) \in Seq(Chunks)
<1> DEFINE k == LeftOf(s, b, ok)
           r == [s.batch[b] EXCEPT !.chunks = k, !.inflight = <<>>]
           f == [s.batch EXCEPT ![b] = r]
<1>1. s.batch \in [Batches -> Batch] /\ s.batch[b] \in Batch
  BY DEF Spooler
<1>2. k \in Seq(Chunks)
  BY <1>1, ConcatProperties DEF Batch, LeftOf
<1>3. Ended(s, b, ok) = [s EXCEPT !.batch = f]
  BY <1>1 DEF Ended, Spooler, Batch
<1> HIDE DEF k
<1>4. r \in Batch /\ r.chunks = k /\ r.timer = s.batch[b].timer /\ r.inflight = <<>>
  <2>1. <<>> \in Seq(Chunks)
    BY EmptySeq
  <2> QED  BY <1>1, <1>2, <2>1 DEF Batch
<1> HIDE DEF r
<1>5. f \in [Batches -> Batch] /\ f[b] = r /\ \A x \in Batches : x # b => f[x] = s.batch[x]
  BY <1>1, <1>4
<1> HIDE DEF f
<1> QED  BY <1>2, <1>3, <1>4, <1>5 DEF Spooler, k

LEMMA SettledCases ==
  ASSUME NEW s \in Spooler, NEW b \in Batches, NEW ok \in BOOLEAN
  PROVE  \/ /\ LeftOf(s, b, ok) # <<>> /\ host # "disposed"
            /\ Settled(s, b, ok) = Scheduled(Ended(s, b, ok))
         \/ /\ LeftOf(s, b, ok) = <<>> \/ host = "disposed"
            /\ s.batch[b].timer /\ Settled(s, b, ok) = Ended(s, b, ok)
         \/ /\ LeftOf(s, b, ok) = <<>> \/ host = "disposed"
            /\ ~s.batch[b].timer /\ Settled(s, b, ok) = [Ended(s, b, ok) EXCEPT !.mapped = 0]
<1>1. Ended(s, b, ok).batch[b].timer = s.batch[b].timer
  BY EndedParts
<1> DEFINE e == Ended(s, b, ok)
           k == LeftOf(s, b, ok)
<1>2. Settled(s, b, ok) = IF k # <<>> /\ host # "disposed" THEN Scheduled(e)
                          ELSE IF e.batch[b].timer THEN e ELSE [e EXCEPT !.mapped = 0]
  BY DEF Settled, Ended, LeftOf
<1> QED  BY <1>1, <1>2

LEMMA UnmappedParts ==
  ASSUME NEW s \in Spooler
  PROVE  /\ [s EXCEPT !.mapped = 0] \in Spooler
         /\ [s EXCEPT !.mapped = 0].mapped = 0
         /\ [s EXCEPT !.mapped = 0].batch = s.batch
         /\ [s EXCEPT !.mapped = 0].queue = s.queue
         /\ [s EXCEPT !.mapped = 0].call = s.call
BY DEF Spooler

-----------------------------------------------------------------------------
(* Whom the end of a flush wakes.                                           *)

(* What every resumed call keeps, all of them keep.                         *)
AllResumed(base, b, order) == FoldLeft(LAMBDA t, c : Resumed(t, c, b), base, order)

LEMMA FoldResumed ==
  ASSUME NEW T, NEW base \in T, NEW b, NEW n \in Nat, NEW order \in [1..n -> Callers],
         \A t \in T, c \in Callers : Resumed(t, c, b) \in T
  PROVE  AllResumed(base, b, order) \in T
<1> DEFINE w(t, c) == Resumed(t, c, b)
           step == [p \in T \X (1..n) |-> w(p[1], order[p[2]])]
           Iter(f) == [s \in SUBSET (DOMAIN order) |->
                        IF s = {} THEN base ELSE w(f[s \ {Max(s)}], order[Max(s)])]
           iter == CHOOSE f : f = Iter(f)
<1>1. AllResumed(base, b, order) = iter[DOMAIN order]
  BY DEF AllResumed, FoldLeft, MapThenFoldSet
<1>2. DOMAIN order = 1..n /\ \A k \in 1..n : order[k] \in Callers
  OBVIOUS
<1>3. \A t \in T, k \in 1..n : w(t, order[k]) \in T
  BY <1>2
<1> HIDE DEF w
<1>4. step \in [T \X (1..n) -> T]
  BY <1>3
<1>5. PICK f : IsFold(T, base, n, step, f)
  <2> HIDE DEF step
  <2> QED  BY <1>4, FoldExists
<1>6. ASSUME NEW s \in SUBSET (1..n), s # {}
      PROVE  f[s] = w(f[s \ {Max(s)}], order[Max(s)])
  <2>1. Max(s) \in s /\ Max(s) \in 1..n
    BY <1>6, MaxOfNumbers
  <2>2. <<f[s \ {Max(s)}], Max(s)>> \in T \X (1..n)
    BY <1>5, <2>1 DEF IsFold
  <2> QED  BY <1>5, <1>6, <2>1, <2>2 DEF IsFold
<1>7. f = Iter(f)
  BY <1>2, <1>5, <1>6 DEF IsFold
<1>8. iter = Iter(iter)
  <2> HIDE DEF Iter
  <2> QED  BY <1>7
<1> HIDE DEF iter
<1>9. iter[{}] = base /\ \A s \in SUBSET (1..n) :
         s # {} => iter[s] = w(iter[s \ {Max(s)}], order[Max(s)])
  <2>1. \A s \in SUBSET (1..n) :
          iter[s] = IF s = {} THEN base ELSE w(iter[s \ {Max(s)}], order[Max(s)])
    BY <1>2, <1>8
  <2> QED  BY <2>1
<1> HIDE DEF Iter
<1>10. ASSUME NEW s \in SUBSET (1..n), s # {}, iter[s \ {Max(s)}] \in T
       PROVE  iter[s] = step[<<iter[s \ {Max(s)}], Max(s)>>]
  <2>1. Max(s) \in s /\ Max(s) \in 1..n
    BY <1>10, MaxOfNumbers
  <2>2. <<iter[s \ {Max(s)}], Max(s)>> \in T \X (1..n)
    BY <1>10, <2>1
  <2> QED  BY <1>9, <1>10, <2>1, <2>2
<1>11. PICK g : IsChain(T, base, n, step, iter, g)
  <2> HIDE DEF step
  <2>1. StepsDown(T, base, n, step, iter)
    BY <1>9, <1>10 DEF StepsDown
  <2> QED  BY <1>4, <2>1, FoldChain
<1>12. g \in [0..n -> T] /\ g[n] = iter[DOMAIN order]
  BY <1>2, <1>11 DEF IsChain
<1>13. n \in 0..n
  OBVIOUS
<1> QED  BY <1>1, <1>12, <1>13

LEMMA CallersAreFinite == IsFiniteSet(Callers)
<1>1. IsFiniteSet({"dispose"})
  BY FS_Singleton
<1>2. IsFiniteSet({"dispose"} \cup {"removal"})
  BY <1>1, FS_AddElement
<1>3. IsFiniteSet(({"dispose"} \cup {"removal"}) \cup {"history"})
  BY <1>2, FS_AddElement
<1>4. IsFiniteSet((({"dispose"} \cup {"removal"}) \cup {"history"}) \cup {"timer"})
  BY <1>3, FS_AddElement
<1>5. Callers = (({"dispose"} \cup {"removal"}) \cup {"history"}) \cup {"timer"}
  BY DEF Callers
<1> QED  BY <1>4, <1>5

LEMMA WokenIn ==
  ASSUME NEW T, NEW s, NEW b, NEW r, NEW order \in SetToSeqs(Waiting(r, b, "other")),
         Owned(s, b) \in T, \A t \in T, c \in Callers : Resumed(t, c, b) \in T
  PROVE  Woken(s, b, order) \in T
<1> DEFINE w == Waiting(r, b, "other")
           n == Cardinality(w)
           base == Owned(s, b)
<1>1. w \subseteq Callers
  BY DEF Waiting
<1>2. n \in Nat
  BY <1>1, CallersAreFinite, FS_Subset, FS_CardinalityType
<1>3. order \in [1..n -> w]
  BY DEF SetToSeqs
<1>4. order \in [1..n -> Callers]
  BY <1>1, <1>3
<1>5. base \in T
  OBVIOUS
<1> HIDE DEF n, base, w
<1>6. AllResumed(base, b, order) \in T
  BY <1>2, <1>4, <1>5, FoldResumed
<1>7. Woken(s, b, order) = AllResumed(base, b, order)
  BY DEF Woken, AllResumed, FoldLeft, MapThenFoldSet, base
<1> QED  BY <1>6, <1>7

-----------------------------------------------------------------------------
(* What holds of the spooler whatever becomes of the log.                   *)

Deleting == removal.step = "deleting"
Removals ==
  [kind: {"close", "delete"}, batch: Batches \cup {0},
   step: {"none", "flushing", "again", "taken", "clearing", "deleting", "done", "failed"}]

(* At most one deletion is queued, and only if d; the other operations are  *)
(* of a batch.                                                              *)
OpsFit(q, d) ==
  /\ \A i, j \in DOMAIN q : q[i].op = "delete" /\ q[j].op = "delete" => i = j /\ d
  /\ \A i \in DOMAIN q : q[i].op # "delete" => q[i].batch \in Batches

(* Of l outputs no call has found more than there are.                      *)
CallsFit(f, l) == \A c \in Callers : f[c].upto <= l

Sound(s, d, l) == s \in Spooler /\ OpsFit(s.queue, d) /\ CallsFit(s.call, l)

LEMMA QueueAppend ==
  ASSUME NEW q \in Seq(Operation), NEW o \in Operation
  PROVE  /\ Append(q, o) \in Seq(Operation)
         /\ Len(q) \in Nat /\ DOMAIN q = 1..Len(q)
         /\ DOMAIN Append(q, o) = 1..(Len(q) + 1)
         /\ \A i \in DOMAIN q : Append(q, o)[i] = q[i]
         /\ Append(q, o)[Len(q) + 1] = o
         /\ \A i \in DOMAIN Append(q, o) : i \in DOMAIN q \/ i = Len(q) + 1
<1>1. /\ Append(q, o) \in Seq(Operation) /\ Len(Append(q, o)) = Len(q) + 1
      /\ \A i \in 1..Len(q) : Append(q, o)[i] = q[i]
      /\ Append(q, o)[Len(q) + 1] = o
  BY AppendProperties
<1>2. Len(q) \in Nat /\ DOMAIN q = 1..Len(q)
  BY LenProperties
<1>3. DOMAIN Append(q, o) = 1..(Len(q) + 1)
  BY <1>1, LenProperties
<1>4. \A i \in 1..(Len(q) + 1) : i \in 1..Len(q) \/ i = Len(q) + 1
  BY <1>2
<1> QED  BY <1>1, <1>2, <1>3, <1>4

LEMMA OpsAppend ==
  ASSUME NEW q \in Seq(Operation), NEW d, OpsFit(q, d),
         NEW o \in Operation, o.op # "delete", o.batch \in Batches
  PROVE  OpsFit(Append(q, o), d)
BY QueueAppend DEF OpsFit

LEMMA OpsAppendDelete ==
  ASSUME NEW q \in Seq(Operation), OpsFit(q, FALSE),
         NEW o \in Operation, o.op = "delete"
  PROVE  OpsFit(Append(q, o), TRUE)
BY QueueAppend DEF OpsFit

LEMMA QueueTail ==
  ASSUME NEW q \in Seq(Operation), q # <<>>
  PROVE  /\ Tail(q) \in Seq(Operation) /\ Head(q) \in Operation
         /\ Head(q) = q[1] /\ 1 \in DOMAIN q
         /\ \A i \in DOMAIN Tail(q) : i \in Int /\ i + 1 \in DOMAIN q
                                      /\ i + 1 # 1 /\ Tail(q)[i] = q[i + 1]
<1>1. /\ Len(q) \in Nat \ {0} /\ DOMAIN q = 1..Len(q)
      /\ Tail(q) \in Seq(Operation) /\ Len(Tail(q)) = Len(q) - 1 /\ Head(q) \in Operation
      /\ \A i \in 1..Len(Tail(q)) : Tail(q)[i] = q[i + 1]
  BY LenProperties, EmptySeq, HeadTailProperties
<1>2. DOMAIN Tail(q) = 1..(Len(q) - 1)
  BY <1>1, LenProperties
<1>3. Head(q) = q[1]
  OBVIOUS
<1>4. ASSUME NEW i \in 1..(Len(q) - 1)
      PROVE  i \in Int /\ i + 1 \in 1..Len(q) /\ i + 1 # 1
  BY <1>1
<1> QED  BY <1>1, <1>2, <1>3, <1>4

LEMMA OpsTail ==
  ASSUME NEW q \in Seq(Operation), q # <<>>, NEW d, OpsFit(q, d)
  PROVE  /\ OpsFit(Tail(q), d)
         /\ Head(q).op = "delete" => OpsFit(Tail(q), FALSE)
         /\ Head(q).op # "delete" => Head(q).batch \in Batches
<1>1. ASSUME NEW i \in DOMAIN Tail(q), NEW j \in DOMAIN Tail(q), i + 1 = j + 1
      PROVE  i = j
  <2>1. i \in Int /\ j \in Int
    BY QueueTail
  <2> QED  BY <1>1, <2>1
<1> QED  BY <1>1, QueueTail DEF OpsFit

LEMMA SoundReturned ==
  ASSUME NEW s, NEW d, NEW l \in Nat, Sound(s, d, l), NEW c \in Callers
  PROVE  Sound(Returned(s, c), d, l)
<1>1. s \in Spooler /\ CallsFit(s.call, l) /\ s.call \in [Callers -> Call]
  BY DEF Sound, Spooler
<1>2. /\ Returned(s, c) \in Spooler /\ Returned(s, c).queue = s.queue
      /\ Returned(s, c).call = [s.call EXCEPT ![c] = Over(s, c)]
      /\ Over(s, c).upto \in {0, s.call[c].upto}
  BY <1>1, ReturnedParts, OverParts DEF SameBatches
<1>3. ASSUME NEW x \in Callers PROVE [s.call EXCEPT ![c] = Over(s, c)][x].upto <= l
  BY <1>1, <1>2 DEF CallsFit
<1> QED  BY <1>2, <1>3 DEF Sound, CallsFit

LEMMA SoundCleared ==
  ASSUME NEW s, NEW d, NEW l, Sound(s, d, l)
  PROVE  Sound(Cleared(s), d, l)
BY ClearedParts DEF Sound

LEMMA SoundCollected ==
  ASSUME NEW s, NEW d, NEW l, Sound(s, d, l)
  PROVE  Sound(Collected(s), d, l)
BY CollectedParts DEF Sound

LEMMA SoundFlush ==
  ASSUME NEW s, NEW d, NEW l \in Nat, Sound(s, d, l), NEW c \in Callers
  PROVE  Sound(FlushTerminal(s, c), d, l)
<1>1. s \in Spooler /\ CallsFit(s.call, l) /\ OpsFit(s.queue, d) /\ s.queue \in Seq(Operation)
  BY DEF Sound, Spooler
<1>2. Sound(Returned(s, c), d, l)
  BY SoundReturned
<1>3. Sound(Returned(Cleared(s), c), d, l)
  <2>1. Sound(Cleared(s), d, l)
    BY SoundCleared
  <2> QED  BY <2>1, SoundReturned
<1>4. ASSUME s.mapped \in Batches
      PROVE  Sound(Awaits(s, c, "other", s.mapped), d, l)
  <2> DEFINE t == Awaits(s, c, "other", s.mapped)
  <2>1. t \in Spooler /\ t.queue = s.queue
    BY <1>1, <1>4, AwaitsParts DEF SameBatches
  <2>2. \A x \in Callers : t.call[x].upto = s.call[x].upto
    BY <1>1, <1>4, AwaitsParts
  <2> HIDE DEF t
  <2>3. CallsFit(t.call, l)
    BY <1>1, <2>2 DEF CallsFit
  <2> QED  BY <1>1, <2>1, <2>3 DEF Sound, t
<1>5. ASSUME s.mapped \in Batches PROVE Sound(Takes(s, c, s.mapped), d, l)
  <2> DEFINE t == Takes(s, c, s.mapped)
             o == [op |-> "prepare", batch |-> s.mapped, offset |-> 0]
  <2>1. t \in Spooler /\ t.queue = Append(s.queue, o)
    BY <1>1, <1>5, TakesParts
  <2>2. \A x \in Callers : t.call[x].upto = s.call[x].upto
    <3>1. \A x \in Callers : x # c => t.call[x] = s.call[x]
      BY <1>1, <1>5, TakesParts
    <3>2. t.call[c].upto = s.call[c].upto
      BY <1>1, <1>5, TakesParts
    <3> QED  BY <3>1, <3>2
  <2>3. o \in Operation /\ o.op # "delete" /\ o.batch \in Batches
    BY <1>5 DEF Operation
  <2> HIDE DEF t, o
  <2>4. CallsFit(t.call, l)
    BY <1>1, <2>2 DEF CallsFit
  <2>5. OpsFit(Append(s.queue, o), d)
    BY <1>1, <2>3, OpsAppend
  <2> QED  BY <2>1, <2>4, <2>5 DEF Sound, t
<1> QED  BY <1>1, <1>2, <1>3, <1>4, <1>5, FlushCases

LEMMA SoundResumed ==
  ASSUME NEW s, NEW d, NEW l \in Nat, Sound(s, d, l), NEW c \in Callers, NEW b
  PROVE  Sound(Resumed(s, c, b), d, l)
BY SoundFlush, SoundReturned DEF Resumed

(* A call is made.                                                          *)
Asked(s, c) == [s EXCEPT !.call[c] = [NoCall EXCEPT !.upto = Len(output)]]

LEMMA AskedParts ==
  ASSUME NEW s \in Spooler, NEW c \in Callers, Len(output) \in 0..MaxChunks
  PROVE  /\ Asked(s, c) \in Spooler /\ SameBatches(s, Asked(s, c))
         /\ \A x \in Callers : x # c => Asked(s, c).call[x] = s.call[x]
         /\ Asked(s, c).call[c].state = "idle"
         /\ Asked(s, c).call[c].ok = TRUE
         /\ Asked(s, c).call[c].upto = Len(output)
         /\ Called(s, c) = FlushTerminal(Asked(s, c), c)
<1> DEFINE o == [NoCall EXCEPT !.upto = Len(output)]
<1>1. o \in Call /\ o.state = "idle" /\ o.ok = TRUE /\ o.upto = Len(output)
  BY DEF NoCall, Call
<1>2. Asked(s, c) = [s EXCEPT !.call = [s.call EXCEPT ![c] = o]]
  BY DEF Asked
<1>3. Called(s, c) = FlushTerminal(Asked(s, c), c)
  BY DEF Called, Asked
<1> HIDE DEF o
<1>4. [s.call EXCEPT ![c] = o] \in [Callers -> Call] /\ s.call \in [Callers -> Call]
  BY <1>1 DEF Spooler
<1> QED  BY <1>1, <1>2, <1>3, <1>4 DEF Spooler, SameBatches

LEMMA SoundCalled ==
  ASSUME NEW s, NEW d, NEW l \in Nat, Sound(s, d, l), NEW c \in Callers,
         Len(output) \in 0..MaxChunks, Len(output) <= l
  PROVE  Sound(Called(s, c), d, l)
<1> DEFINE t == Asked(s, c)
<1>1. s \in Spooler /\ CallsFit(s.call, l) /\ OpsFit(s.queue, d)
  BY DEF Sound
<1>2. /\ t \in Spooler /\ t.queue = s.queue /\ t.call[c].upto = Len(output)
      /\ \A x \in Callers : x # c => t.call[x] = s.call[x]
      /\ Called(s, c) = FlushTerminal(t, c)
  BY <1>1, AskedParts DEF SameBatches
<1> HIDE DEF t
<1>3. CallsFit(t.call, l)
  BY <1>1, <1>2 DEF CallsFit
<1>4. Sound(t, d, l)
  BY <1>1, <1>2, <1>3 DEF Sound
<1> QED  BY <1>2, <1>4, SoundFlush

LEMMA MarkedParts ==
  ASSUME NEW s \in Spooler, NEW ok \in BOOLEAN
  PROVE  /\ Marked(s, ok) \in Spooler /\ SameBatches(s, Marked(s, ok))
         /\ \A c \in Callers : /\ Marked(s, ok).call[c].state = s.call[c].state
                               /\ Marked(s, ok).call[c].batch = s.call[c].batch
                               /\ Marked(s, ok).call[c].upto = s.call[c].upto
         /\ \A c \in Callers : Marked(s, ok).call[c].ok =>
              s.call[c].ok /\ (s.call[c].state = "idle" \/ ok)
<1> DEFINE f == [c \in Callers |-> IF s.call[c].state = "idle" THEN s.call[c]
                                   ELSE [s.call[c] EXCEPT !.ok = s.call[c].ok /\ ok]]
<1>1. ASSUME NEW c \in Callers
      PROVE  /\ f[c] \in Call /\ f[c].state = s.call[c].state
             /\ f[c].batch = s.call[c].batch /\ f[c].upto = s.call[c].upto
             /\ f[c].ok => s.call[c].ok /\ (s.call[c].state = "idle" \/ ok)
  <2>1. s.call[c] \in Call
    BY DEF Spooler
  <2> DEFINE k == s.call[c].ok /\ ok
             o == [s.call[c] EXCEPT !.ok = k]
  <2>2. k \in BOOLEAN
    BY <2>1
  <2>3. k => s.call[c].ok /\ ok
    OBVIOUS
  <2> HIDE DEF k
  <2>4. /\ o \in Call /\ o.state = s.call[c].state /\ o.batch = s.call[c].batch
        /\ o.upto = s.call[c].upto /\ o.ok = k
    BY <2>1, <2>2 DEF Call
  <2>5. f[c] = IF s.call[c].state = "idle" THEN s.call[c] ELSE o
    BY DEF k
  <2> HIDE DEF f, o
  <2> QED  BY <2>1, <2>3, <2>4, <2>5
<1>2. Marked(s, ok) = [s EXCEPT !.call = f]
  BY DEF Marked
<1>3. f \in [Callers -> Call]
  <2>1. \A c \in Callers : f[c] \in Call
    BY <1>1
  <2> QED  BY <2>1
<1> HIDE DEF f
<1> QED  BY <1>1, <1>2, <1>3 DEF Spooler, SameBatches

(* The steps that end a flush, by what all the woken calls keep.            *)
Ends(s, b, ok) == Owned(Settled(Marked(s, ok), b, ok), b)

LEMMA EndFlushIn ==
  ASSUME NEW s, NEW b, NEW ok, EndFlush(s, b, ok),
         NEW T, Ends(s, b, ok) \in T,
         \A t \in T, c \in Callers : Resumed(t, c, b) \in T
  PROVE  \E woken \in T :
           IF removal.step = "clearing" /\ removal.batch = b
             THEN /\ spooler' = Collected(Enqueued(woken, "delete", 0, 0))
                  /\ removal' = [removal EXCEPT !.step = "deleting", !.batch = 0]
             ELSE spooler' = Collected(woken) /\ removal' = removal
<1> DEFINE settled == Settled(Marked(s, ok), b, ok)
<1>1. PICK order \in SetToSeqs(Waiting(s, b, "other")) :
        IF removal.step = "clearing" /\ removal.batch = b
          THEN /\ spooler' = Collected(Enqueued(Woken(settled, b, order), "delete", 0, 0))
               /\ removal' = [removal EXCEPT !.step = "deleting", !.batch = 0]
          ELSE spooler' = Collected(Woken(settled, b, order)) /\ removal' = removal
  BY DEF EndFlush
<1>2. Owned(settled, b) \in T
  BY DEF Ends
<1> HIDE DEF settled
<1>3. Woken(settled, b, order) \in T
  BY <1>2, WokenIn
<1> QED  BY <1>1, <1>3

LEMMA SoundEnds ==
  ASSUME NEW s, NEW d, NEW l \in Nat, Sound(s, d, l), NEW b \in Batches, NEW ok \in BOOLEAN
  PROVE  Sound(Ends(s, b, ok), d, l)
<1> DEFINE m == Marked(s, ok)
           e == Ended(m, b, ok)
           t == Settled(m, b, ok)
<1>1. s \in Spooler /\ CallsFit(s.call, l) /\ OpsFit(s.queue, d)
  BY DEF Sound
<1>2. m \in Spooler /\ m.queue = s.queue /\ \A c \in Callers : m.call[c].upto = s.call[c].upto
  BY <1>1, MarkedParts DEF SameBatches
<1> HIDE DEF m
<1>3. CallsFit(m.call, l)
  BY <1>1, <1>2 DEF CallsFit
<1>4. e \in Spooler /\ e.queue = m.queue /\ e.call = m.call
  BY <1>2, EndedParts
<1>5. t = Scheduled(e) \/ t = e \/ t = [e EXCEPT !.mapped = 0]
  BY <1>2, SettledCases
<1> HIDE DEF e, t
<1>6. t \in Spooler /\ t.queue = e.queue /\ t.call = e.call
  BY <1>4, <1>5, ScheduledParts, UnmappedParts
<1>7. Sound(t, d, l)
  BY <1>1, <1>2, <1>3, <1>4, <1>6 DEF Sound
<1>8. /\ Owned(t, b) \in Spooler /\ Owned(t, b).queue = t.queue
      /\ \A c \in Callers : Owned(t, b).call[c].upto \in {0, t.call[c].upto}
  BY <1>6, OwnedParts, OverParts DEF SameBatches
<1>9. CallsFit(Owned(t, b).call, l)
  BY <1>7, <1>8 DEF CallsFit, Sound
<1>10. Sound(Owned(t, b), d, l)
  BY <1>7, <1>8, <1>9 DEF Sound
<1> QED  BY <1>10 DEF Ends, t, m

(* The spooler is sound after a flush, with the deletion that waited.       *)
LEMMA SoundEndFlush ==
  ASSUME NEW s, NEW l \in Nat, Sound(s, Deleting, l), NEW b \in Batches, NEW ok \in BOOLEAN,
         EndFlush(s, b, ok), removal \in Removals
  PROVE  \/ Sound(spooler', Deleting, l) /\ removal' = removal
         \/ /\ Sound(spooler', TRUE, l)
            /\ removal.step = "clearing" /\ removal.batch = b
            /\ removal' = [removal EXCEPT !.step = "deleting", !.batch = 0]
<1> DEFINE T == {t \in Spooler : Sound(t, Deleting, l)}
<1>1. Ends(s, b, ok) \in T
  BY SoundEnds DEF Sound
<1>2. \A t \in T, c \in Callers : Resumed(t, c, b) \in T
  BY SoundResumed DEF Sound
<1> HIDE DEF T
<1>3. PICK woken \in T :
           IF removal.step = "clearing" /\ removal.batch = b
             THEN /\ spooler' = Collected(Enqueued(woken, "delete", 0, 0))
                  /\ removal' = [removal EXCEPT !.step = "deleting", !.batch = 0]
             ELSE spooler' = Collected(woken) /\ removal' = removal
  BY <1>1, <1>2, EndFlushIn
<1>4. Sound(woken, Deleting, l)
  BY <1>3 DEF T
<1>5. CASE ~ (removal.step = "clearing" /\ removal.batch = b)
  <2>1. Sound(Collected(woken), Deleting, l)
    BY <1>4, SoundCollected
  <2>2. spooler' = Collected(woken) /\ removal' = removal
    BY <1>3, <1>5
  <2> QED  BY <2>1, <2>2
<1>6. CASE removal.step = "clearing" /\ removal.batch = b
  <2> DEFINE o == [op |-> "delete", batch |-> 0, offset |-> 0]
             u == Enqueued(woken, "delete", 0, 0)
  <2>1. /\ u \in Spooler /\ u.queue = Append(woken.queue, o) /\ u.call = woken.call
        /\ o \in Operation
    BY <1>4, EnqueuedParts DEF Sound
  <2>2. o.op = "delete"
    OBVIOUS
  <2> HIDE DEF o, u
  <2>3. OpsFit(woken.queue, FALSE) /\ woken.queue \in Seq(Operation) /\ CallsFit(woken.call, l)
    BY <1>4, <1>6 DEF Sound, OpsFit, Spooler, Deleting
  <2>4. OpsFit(u.queue, TRUE)
    BY <2>1, <2>2, <2>3, OpsAppendDelete
  <2>5. Sound(u, TRUE, l)
    BY <2>1, <2>3, <2>4 DEF Sound
  <2>6. Sound(Collected(u), TRUE, l)
    BY <2>5, SoundCollected
  <2>7. spooler' = Collected(u) /\ removal' = [removal EXCEPT !.step = "deleting", !.batch = 0]
    BY <1>3, <1>6 DEF u
  <2> QED  BY <1>6, <2>6, <2>7
<1> QED  BY <1>5, <1>6

LEMMA AppendedParts ==
  ASSUME NEW s \in Spooler, NEW c \in Chunks, s.mapped # 0 \/ Unused(s) # {}
  PROVE  \E b \in Batches :
           /\ IF s.mapped = 0 THEN b \in Unused(s) ELSE b = s.mapped
           /\ Appended(s, c) \in Spooler /\ Appended(s, c).mapped = b
           /\ Appended(s, c).queue = s.queue /\ Appended(s, c).call = s.call
           /\ \A x \in Batches : x # b => Appended(s, c).batch[x] = s.batch[x]
           /\ Appended(s, c).batch[b].chunks = Append(s.batch[b].chunks, c)
           /\ Appended(s, c).batch[b].inflight = s.batch[b].inflight
           /\ s.batch[b].inflight = <<>> => Appended(s, c).batch[b].timer = TRUE
           /\ s.batch[b].inflight # <<>> => Appended(s, c).batch[b].timer = s.batch[b].timer
<1> DEFINE b == IF s.mapped # 0 THEN s.mapped
                ELSE CHOOSE n \in Unused(s) : \A m \in Unused(s) : n <= m
           r == [s.batch[b] EXCEPT !.chunks = Append(s.batch[b].chunks, c)]
           f == [s.batch EXCEPT ![b] = r]
           t == [s EXCEPT !.mapped = b, !.batch = f]
<1>1. b \in Batches /\ IF s.mapped = 0 THEN b \in Unused(s) ELSE b = s.mapped
  <2>1. CASE s.mapped # 0
    <3>1. s.mapped \in Batches \cup {0}
      BY DEF Spooler
    <3> QED  BY <2>1, <3>1
  <2>2. CASE s.mapped = 0
    <3>1. Unused(s) \subseteq Batches /\ Unused(s) # {} /\ Unused(s) \subseteq Nat
      BY <2>2, BatchesAssumption DEF Unused
    <3>2. \E n \in Unused(s) : \A m \in Unused(s) : n <= m
      BY <3>1, LeastMember
    <3>3. (CHOOSE n \in Unused(s) : \A m \in Unused(s) : n <= m) \in Unused(s)
      BY <3>2
    <3> QED  BY <2>2, <3>1, <3>3
  <2> QED  BY <2>1, <2>2
<1>2. Appended(s, c) = IF Flushing(s, b) THEN t ELSE Scheduled(t)
  BY <1>1 DEF Appended, Spooler, Batch
<1> HIDE DEF b
<1>3. s.batch \in [Batches -> Batch] /\ s.batch[b] \in Batch
  BY <1>1 DEF Spooler
<1>4. Append(s.batch[b].chunks, c) \in Seq(Chunks)
  BY <1>3, AppendProperties DEF Batch
<1>5. /\ r \in Batch /\ r.chunks = Append(s.batch[b].chunks, c)
      /\ r.inflight = s.batch[b].inflight /\ r.timer = s.batch[b].timer
  BY <1>3, <1>4 DEF Batch
<1> HIDE DEF r
<1>6. f \in [Batches -> Batch] /\ f[b] = r /\ \A x \in Batches : x # b => f[x] = s.batch[x]
  BY <1>1, <1>3, <1>5
<1> HIDE DEF f
<1>7. /\ t \in Spooler /\ t.mapped = b /\ t.batch = f
      /\ t.queue = s.queue /\ t.call = s.call
  BY <1>1, <1>6 DEF Spooler
<1> HIDE DEF t
<1>8. Flushing(s, b) <=> s.batch[b].inflight # <<>>
  BY <1>1, NotABatch DEF Flushing
<1>9. CASE s.batch[b].inflight # <<>>
  BY <1>1, <1>2, <1>5, <1>6, <1>7, <1>8, <1>9
<1>10. CASE s.batch[b].inflight = <<>>
  <2> DEFINE u == Scheduled(t)
  <2>1. /\ u \in Spooler /\ u.mapped = b /\ u.queue = s.queue /\ u.call = s.call
        /\ \A x \in Batches : x # b => u.batch[x] = s.batch[x]
        /\ u.batch[b] = [r EXCEPT !.timer = TRUE]
    BY <1>1, <1>6, <1>7, ScheduledParts
  <2>2. Appended(s, c) = u
    BY <1>2, <1>8, <1>10
  <2> HIDE DEF u
  <2>3. /\ u.batch[b].chunks = r.chunks /\ u.batch[b].inflight = r.inflight
        /\ u.batch[b].timer = TRUE
    BY <1>5, <2>1 DEF Batch
  <2>4. /\ u.batch[b].chunks = Append(s.batch[b].chunks, c)
        /\ u.batch[b].inflight = s.batch[b].inflight /\ u.batch[b].timer = TRUE
    BY <1>5, <2>3
  <2> QED  BY <1>1, <1>10, <2>1, <2>2, <2>4
<1> QED  BY <1>9, <1>10

(* The operation at the head of the queue is taken.                         *)
LEMMA TakenParts ==
  ASSUME NEW d, NEW l, Sound(spooler, d, l), spooler.queue # <<>>
  PROVE  /\ Taken \in Spooler /\ Taken.batch = spooler.batch
         /\ Taken.mapped = spooler.mapped /\ Taken.call = spooler.call
         /\ Taken.queue = Tail(spooler.queue)
         /\ Sound(Taken, d, l)
         /\ Head(spooler.queue).op = "delete" => Sound(Taken, FALSE, l)
         /\ Head(spooler.queue).op # "delete" => Head(spooler.queue).batch \in Batches
         /\ Head(spooler.queue) \in Operation
<1> DEFINE q == Tail(spooler.queue)
<1>1. /\ spooler \in Spooler /\ spooler.queue \in Seq(Operation)
      /\ OpsFit(spooler.queue, d) /\ CallsFit(spooler.call, l)
  BY DEF Sound, Spooler
<1>2. Taken = [spooler EXCEPT !.queue = q]
  BY DEF Taken
<1>3. q \in Seq(Operation) /\ Head(spooler.queue) \in Operation
  BY <1>1, QueueTail
<1>4. /\ OpsFit(q, d)
      /\ Head(spooler.queue).op = "delete" => OpsFit(q, FALSE)
  BY <1>1, OpsTail
<1>5. Head(spooler.queue).op # "delete" => Head(spooler.queue).batch \in Batches
  BY <1>1, OpsTail
<1> HIDE DEF q
<1>6. /\ Taken \in Spooler /\ Taken.batch = spooler.batch
      /\ Taken.mapped = spooler.mapped /\ Taken.call = spooler.call
      /\ Taken.queue = q
  BY <1>1, <1>2, <1>3 DEF Spooler
<1> QED  BY <1>1, <1>3, <1>4, <1>5, <1>6 DEF Sound, q

-----------------------------------------------------------------------------
(* The first part of the invariant: types, and what is queued.              *)

Basic ==
  /\ LogTypeOK
  /\ \A i \in DOMAIN output : output[i].run <= run
  /\ cursor <= Len(output)
  /\ Sound(spooler, Deleting, Len(output))

LEMMA InitBasic ==
  ASSUME Init
  PROVE  Basic
<1>1. /\ output = <<>> /\ cursor = 0 /\ run = 1 /\ host = "up"
      /\ runtime = TRUE /\ terminal = "open"
      /\ removal = [kind |-> "close", batch |-> 0, step |-> "none"]
      /\ spooler = [batch |-> [b \in Batches |-> NoBatch], mapped |-> 0,
                    queue |-> <<>>, call |-> [c \in Callers |-> NoCall]]
      /\ record = [exists |-> FALSE, size |-> 0]
      /\ segments = <<>> /\ file = <<>> /\ faults = 0
  BY DEF Init
<1>2. <<>> \in Seq(Operation) /\ <<>> \in Seq([run: 1..MaxRuns, cursor: Chunks])
      /\ <<>> \in Seq([offset: Nat, chunks: Seq(Chunks)]) /\ <<>> \in Seq(Chunks)
      /\ Len(<<>>) = 0 /\ DOMAIN <<>> = {}
  BY EmptySeq
<1>3. spooler \in Spooler
  BY <1>1, <1>2, NoBatchType, NoCallType DEF Spooler
<1>4. LogTypeOK
  <2>1. run \in 1..MaxRuns /\ cursor \in 0..MaxChunks /\ faults \in 0..MaxFaults
        /\ Len(output) <= MaxChunks
    BY <1>1, <1>2, Numbers
  <2>2. /\ removal \in Removals
        /\ record \in [exists: BOOLEAN, size: Nat]
    BY <1>1 DEF Removals
  <2> QED  BY <1>1, <1>2, <1>3, <2>1, <2>2 DEF LogTypeOK, Spooler
<1>5. \A c \in Callers : spooler.call[c] = NoCall
  BY <1>1
<1>6. CallsFit(spooler.call, Len(output))
  BY <1>1, <1>2, <1>5 DEF CallsFit, NoCall
<1>7. OpsFit(spooler.queue, Deleting)
  BY <1>1, <1>2 DEF OpsFit
<1> QED  BY <1>1, <1>2, <1>3, <1>4, <1>6, <1>7 DEF Basic, Sound

(* The parts of the type invariant, for the proofs about the steps.         *)
LEMMA BasicParts ==
  ASSUME Basic
  PROVE  /\ output \in Seq([run: 1..MaxRuns, cursor: Chunks])
         /\ Len(output) \in 0..MaxChunks /\ Len(output) \in Nat
         /\ cursor \in 0..MaxChunks /\ run \in 1..MaxRuns
         /\ spooler \in Spooler /\ spooler.queue \in Seq(Operation)
         /\ spooler.batch \in [Batches -> Batch] /\ spooler.call \in [Callers -> Call]
         /\ removal \in Removals
         /\ record \in [exists: BOOLEAN, size: Nat]
         /\ segments \in Seq([offset: Nat, chunks: Seq(Chunks)])
         /\ file \in Seq(Chunks)
         /\ removal.step = "clearing" => ~Deleting
<1>1. output \in Seq([run: 1..MaxRuns, cursor: Chunks]) /\ Len(output) <= MaxChunks
  BY DEF Basic, LogTypeOK
<1>2. Len(output) \in Nat
  BY <1>1, LenProperties
<1>3. Len(output) \in 0..MaxChunks
  BY <1>1, <1>2, Numbers
<1> QED  BY <1>1, <1>2, <1>3 DEF Basic, LogTypeOK, Spooler, Deleting, Removals

(* Steps of the service that neither write nor delete.                      *)
LEMMA BasicKept ==
  ASSUME Basic, UNCHANGED <<output, run, stored, faults>>,
         cursor' \in {0, cursor},
         host' \in {"up", "disposing", "disposed"}, runtime' \in BOOLEAN,
         terminal' \in {"open", "gone"},
         removal' \in Removals,
         Sound(spooler', Deleting', Len(output))
  PROVE  Basic'
<1>1. spooler' \in Spooler
  BY DEF Sound
<1>2. cursor' \in 0..MaxChunks /\ cursor' <= Len(output)
  <2>1. 0 \in 0..MaxChunks /\ 0 <= Len(output) /\ cursor \in 0..MaxChunks /\ cursor <= Len(output)
    BY BasicParts, Numbers DEF Basic
  <2> QED  BY <2>1
<1>3. LogTypeOK'
  BY <1>1, <1>2 DEF Basic, LogTypeOK, Spooler, stored, Removals
<1> QED  BY <1>2, <1>3 DEF Basic

LEMMA SoundWeaker ==
  ASSUME NEW s, NEW d, NEW e, NEW l, Sound(s, d, l), d => e
  PROVE  Sound(s, e, l)
BY DEF Sound, OpsFit

LEMMA TimerOffParts ==
  ASSUME NEW s \in Spooler, NEW b \in Batches
  PROVE  /\ [s EXCEPT !.batch[b].timer = FALSE] \in Spooler
         /\ [s EXCEPT !.batch[b].timer = FALSE].mapped = s.mapped
         /\ [s EXCEPT !.batch[b].timer = FALSE].queue = s.queue
         /\ [s EXCEPT !.batch[b].timer = FALSE].call = s.call
         /\ \A x \in Batches : x # b =>
              [s EXCEPT !.batch[b].timer = FALSE].batch[x] = s.batch[x]
         /\ [s EXCEPT !.batch[b].timer = FALSE].batch[b] = [s.batch[b] EXCEPT !.timer = FALSE]
<1> DEFINE r == [s.batch[b] EXCEPT !.timer = FALSE]
           f == [s.batch EXCEPT ![b] = r]
<1>1. s.batch \in [Batches -> Batch] /\ s.batch[b] \in Batch
  BY DEF Spooler
<1>2. r \in Batch
  BY <1>1 DEF Batch
<1>3. [s EXCEPT !.batch[b].timer = FALSE] = [s EXCEPT !.batch = f]
  BY <1>1 DEF Spooler
<1> HIDE DEF r
<1>4. f \in [Batches -> Batch] /\ f[b] = r /\ \A x \in Batches : x # b => f[x] = s.batch[x]
  BY <1>1, <1>2
<1> HIDE DEF f
<1> QED  BY <1>3, <1>4 DEF Spooler, r

LEMMA SoundTimerOff ==
  ASSUME NEW s, NEW d, NEW l, Sound(s, d, l), NEW b \in Batches
  PROVE  Sound([s EXCEPT !.batch[b].timer = FALSE], d, l)
<1> DEFINE t == [s EXCEPT !.batch[b].timer = FALSE]
<1>1. t \in Spooler /\ t.queue = s.queue /\ t.call = s.call
  BY TimerOffParts DEF Sound
<1> HIDE DEF t
<1>2. Sound(t, d, l)
  BY <1>1 DEF Sound
<1> QED  BY <1>2 DEF t

(* A call is over and forgotten.                                            *)
Forgotten(s, c) == [s EXCEPT !.call[c] = NoCall]

LEMMA ForgottenParts ==
  ASSUME NEW s \in Spooler, NEW c \in Callers
  PROVE  /\ Forgotten(s, c) \in Spooler /\ SameBatches(s, Forgotten(s, c))
         /\ \A x \in Callers : Forgotten(s, c).call[x] = IF x = c THEN NoCall ELSE s.call[x]
<1> DEFINE f == [s.call EXCEPT ![c] = NoCall]
<1>1. f \in [Callers -> Call] /\ \A x \in Callers : f[x] = IF x = c THEN NoCall ELSE s.call[x]
  BY NoCallType DEF Spooler
<1>2. Forgotten(s, c) = [s EXCEPT !.call = f]
  BY DEF Forgotten
<1> HIDE DEF f
<1> QED  BY <1>1, <1>2 DEF Spooler, SameBatches

LEMMA SoundForgotten ==
  ASSUME NEW s, NEW d, NEW l \in Nat, Sound(s, d, l), NEW c \in Callers
  PROVE  Sound(Forgotten(s, c), d, l)
<1> DEFINE t == Forgotten(s, c)
<1>1. /\ t \in Spooler /\ t.queue = s.queue
      /\ \A x \in Callers : t.call[x] = IF x = c THEN NoCall ELSE s.call[x]
  BY ForgottenParts DEF Sound, SameBatches
<1> HIDE DEF t
<1>2. CallsFit(t.call, l)
  BY <1>1 DEF CallsFit, NoCall, Sound
<1>3. Sound(t, d, l)
  BY <1>1, <1>2 DEF Sound
<1> QED  BY <1>3 DEF t

LEMMA ServiceKeepsBasic ==
  ASSUME Basic, Service
  PROVE  Basic'
<1> DEFINE l == Len(output)
<1>1. /\ l \in Nat /\ l \in 0..MaxChunks /\ Sound(spooler, Deleting, l) /\ l <= l
      /\ removal \in Removals
      /\ host \in {"up", "disposing", "disposed"} /\ runtime \in BOOLEAN
      /\ terminal \in {"open", "gone"} /\ spooler \in Spooler
  BY BasicParts DEF Basic, LogTypeOK
<1> HIDE DEF l
<1>2. \A c \in Callers : Sound(Called(spooler, c), Deleting, l)
  BY <1>1, SoundCalled DEF l
<1>3. \A c \in Callers : Sound(Forgotten(spooler, c), Deleting, l)
  BY <1>1, SoundForgotten
<1>4. "history" \in Callers /\ "removal" \in Callers /\ "dispose" \in Callers
  BY DEF Callers
<1>5. CASE ReadHistory
  <2>1. Sound(spooler', Deleting', l)
    BY <1>2, <1>4, <1>5 DEF ReadHistory, Deleting
  <2> QED  BY <1>1, <1>5, <2>1, BasicKept DEF ReadHistory, service, l
<1>6. ASSUME NEW kind \in {"close", "delete"}, BeginRemoval(kind) PROVE Basic'
  <2>1. Sound(spooler', Deleting, l) /\ ~Deleting
    BY <1>2, <1>4, <1>6 DEF BeginRemoval, Deleting
  <2>2. Sound(spooler', Deleting', l)
    BY <2>1, SoundWeaker
  <2>3. removal' \in Removals
    BY <1>6 DEF BeginRemoval, Removals
  <2> QED  BY <1>1, <1>6, <2>2, <2>3, BasicKept DEF BeginRemoval, service, l
<1>7. CASE AbandonRemoval
  <2>1. spooler' = Forgotten(spooler, "removal") /\ ~Deleting
    BY <1>7 DEF AbandonRemoval, Forgotten, Deleting, RemovalFlushed
  <2>2. Sound(spooler', Deleting', l)
    <3>1. Sound(spooler', Deleting, l)
      BY <1>3, <1>4, <2>1
    <3> QED  BY <2>1, <3>1, SoundWeaker
  <2>3. removal' \in Removals
    BY <1>1, <1>7 DEF AbandonRemoval, Removals
  <2> QED  BY <1>1, <1>7, <2>2, <2>3, BasicKept DEF AbandonRemoval, service, l
<1>8. CASE FlushAtExit
  <2>1. Sound(spooler', Deleting', l)
    BY <1>2, <1>4, <1>8 DEF FlushAtExit, Deleting
  <2> QED  BY <1>1, <1>8, <2>1, BasicKept DEF FlushAtExit, service, l
<1>9. CASE DeleteRow
  <2>1. spooler' = Forgotten(spooler, "removal") /\ ~Deleting
    BY <1>9 DEF DeleteRow, Forgotten, Deleting, RemovalFlushed
  <2>2. Sound(spooler', Deleting', l)
    <3>1. Sound(spooler', Deleting, l)
      BY <1>3, <1>4, <2>1
    <3> QED  BY <2>1, <3>1, SoundWeaker
  <2>3. /\ removal' \in Removals
        /\ record' \in [exists: BOOLEAN, size: Nat]
        /\ segments' \in Seq([offset: Nat, chunks: Seq(Chunks)])
    <3>1. <<>> \in Seq([offset: Nat, chunks: Seq(Chunks)])
      BY EmptySeq
    <3> QED  BY <1>1, <1>9, <3>1 DEF DeleteRow, Removals
  <2>4. spooler' \in Spooler
    BY <2>2 DEF Sound
  <2> QED  BY <1>1, <1>9, <2>2, <2>3, <2>4 DEF Basic, LogTypeOK, Spooler, DeleteRow, l
<1>10. CASE ClearLogs
  <2> DEFINE t == Cleared(Forgotten(spooler, "removal"))
             o == [op |-> "delete", batch |-> 0, offset |-> 0]
             u == Enqueued(t, "delete", 0, 0)
  <2>1. Sound(t, Deleting, l) /\ ~Deleting
    BY <1>3, <1>4, <1>10, SoundCleared DEF ClearLogs, RemovalFlushed, Deleting
  <2>2. /\ spooler' = t
           /\ removal' = [removal EXCEPT !.step = "clearing", !.batch = spooler.mapped]
        \/ /\ spooler' = Collected(u)
           /\ removal' = [removal EXCEPT !.step = "deleting"]
    BY <1>10 DEF ClearLogs, Forgotten
  <2> HIDE DEF t
  <2>3. /\ u \in Spooler /\ u.queue = Append(t.queue, o) /\ u.call = t.call
        /\ o \in Operation /\ o.op = "delete"
    BY <2>1, EnqueuedParts DEF Sound
  <2> HIDE DEF o, u
  <2>4. OpsFit(t.queue, FALSE) /\ t.queue \in Seq(Operation) /\ CallsFit(t.call, l)
    BY <2>1 DEF Sound, OpsFit, Spooler
  <2>5. OpsFit(u.queue, TRUE)
    BY <2>3, <2>4, OpsAppendDelete
  <2>6. Sound(u, TRUE, l)
    BY <2>3, <2>4, <2>5 DEF Sound
  <2>7. Sound(Collected(u), TRUE, l)
    BY <2>6, SoundCollected
  <2>8. CASE /\ spooler' = t
             /\ removal' = [removal EXCEPT !.step = "clearing", !.batch = spooler.mapped]
    <3>1. Sound(spooler', Deleting', l)
      BY <2>1, <2>8, SoundWeaker
    <3>2. removal' \in Removals
      BY <1>1, <2>8 DEF Spooler, Removals
    <3> QED  BY <1>1, <1>10, <3>1, <3>2, BasicKept DEF ClearLogs, l
  <2>9. CASE /\ spooler' = Collected(u)
             /\ removal' = [removal EXCEPT !.step = "deleting"]
    <3>1. Deleting'
      BY <1>1, <2>9 DEF Deleting
    <3>2. Sound(spooler', Deleting', l)
      BY <2>7, <2>9, <3>1, SoundWeaker
    <3>3. removal' \in Removals
      BY <1>1, <2>9 DEF Removals
    <3> QED  BY <1>1, <1>10, <3>2, <3>3, BasicKept DEF ClearLogs, l
  <2> QED  BY <2>2, <2>8, <2>9
<1>11. CASE DisposeBegin
  <2>1. Sound(spooler', Deleting', l)
    BY <1>2, <1>4, <1>11 DEF DisposeBegin, Deleting
  <2> QED  BY <1>1, <1>11, <2>1, BasicKept DEF DisposeBegin, l
<1>12. CASE DisposeEnd
  <2>1. Sound(spooler', Deleting', l)
    <3>1. CASE spooler.mapped = 0
      BY <1>1, <1>12, <3>1 DEF DisposeEnd, Deleting
    <3>2. CASE spooler.mapped # 0
      <4>1. spooler.mapped \in Batches
        BY <1>1, <3>2 DEF Spooler
      <4> QED  BY <1>1, <1>12, <3>2, <4>1, SoundTimerOff DEF DisposeEnd, Deleting
    <3> QED  BY <3>1, <3>2
  <2> QED  BY <1>1, <1>12, <2>1, BasicKept DEF DisposeEnd, l
<1> QED
  BY <1>5, <1>6, <1>7, <1>8, <1>9, <1>10, <1>11, <1>12 DEF Service

LEMMA QueueKeepsBasic ==
  ASSUME Basic, Queue
  PROVE  Basic'
<1> DEFINE l == Len(output)
           o == Head(spooler.queue)
<1>1. /\ l \in Nat /\ Sound(spooler, Deleting, l) /\ spooler \in Spooler
      /\ removal \in Removals
      /\ removal.step = "clearing" => ~Deleting
      /\ record \in [exists: BOOLEAN, size: Nat] /\ file \in Seq(Chunks)
      /\ segments \in Seq([offset: Nat, chunks: Seq(Chunks)])
      /\ faults \in 0..MaxFaults
  BY BasicParts DEF Basic, LogTypeOK
<1>2. spooler.queue # <<>>
  BY DEF Queue, PrepareAndAppend, PrepareFails, Commit, CommitFails, DeleteLogs,
         DeleteLogsFails, At
<1>3. /\ Taken \in Spooler /\ Taken.batch = spooler.batch
      /\ Taken.queue = Tail(spooler.queue)
      /\ Sound(Taken, Deleting, l)
      /\ o.op = "delete" => Sound(Taken, FALSE, l)
      /\ o.op # "delete" => o.batch \in Batches
      /\ o \in Operation
  BY <1>1, <1>2, TakenParts
<1>4. ASSUME o.op # "delete" PROVE SegmentOf(o) \in [offset: Nat, chunks: Seq(Chunks)]
  <2>1. spooler.batch[o.batch] \in Batch
    BY <1>1, <1>3, <1>4 DEF Spooler
  <2> QED  BY <1>3, <2>1 DEF SegmentOf, Batch, Operation
<1>5. ASSUME Fault PROVE faults' \in 0..MaxFaults
  BY <1>1, <1>5, Numbers DEF Fault
<1> HIDE DEF l, o
<1>6. ASSUME o.op # "delete", NEW ok \in BOOLEAN, EndFlush(Taken, o.batch, ok),
             UNCHANGED service,
             record' \in [exists: BOOLEAN, size: Nat], file' \in Seq(Chunks),
             segments' \in Seq([offset: Nat, chunks: Seq(Chunks)]),
             faults' \in 0..MaxFaults
      PROVE  Basic'
  <2>1. \/ Sound(spooler', Deleting, l) /\ removal' = removal
        \/ /\ Sound(spooler', TRUE, l)
           /\ removal' = [removal EXCEPT !.step = "deleting", !.batch = 0]
    <3>1. PICK s, b : s = Taken /\ b = o.batch
      OBVIOUS
    <3>2. EndFlush(s, b, ok)
      BY <1>6, <3>1 DEF EndFlush
    <3>3. Sound(s, Deleting, l) /\ b \in Batches
      BY <1>3, <1>6, <3>1
    <3>4. \/ Sound(spooler', Deleting, l) /\ removal' = removal
          \/ /\ Sound(spooler', TRUE, l)
             /\ removal.step = "clearing" /\ removal.batch = b
             /\ removal' = [removal EXCEPT !.step = "deleting", !.batch = 0]
      <4>1. l \in Nat /\ removal \in Removals
        BY <1>1
      <4> QED  BY <3>2, <3>3, <4>1, SoundEndFlush, Zenon
    <3> QED  BY <3>4, Zenon
  <2>2. Sound(spooler', Deleting', l)
        /\ removal' \in Removals
    <3>1. CASE Sound(spooler', Deleting, l) /\ removal' = removal
      BY <1>1, <3>1 DEF Deleting
    <3>2. CASE /\ Sound(spooler', TRUE, l)
               /\ removal' = [removal EXCEPT !.step = "deleting", !.batch = 0]
      <4>1. removal'.step = "deleting"
            /\ removal' \in Removals
        BY <1>1, <3>2 DEF Removals
      <4>2. Deleting'
        BY <4>1 DEF Deleting
      <4> QED  BY <3>2, <4>1, <4>2, SoundWeaker
    <3> QED  BY <2>1, <3>1, <3>2
  <2>3. spooler' \in Spooler
    BY <2>2 DEF Sound
  <2> QED  BY <1>6, <2>2, <2>3 DEF Basic, LogTypeOK, Spooler, service, l, Removals
<1>7. CASE PrepareAndAppend
  <2> DEFINE u == Enqueued(Taken, "commit", o.batch, StartOffset)
             x == [op |-> "commit", batch |-> o.batch, offset |-> StartOffset]
  <2>1. o.op # "delete" /\ StartOffset \in Nat
    BY <1>1, <1>7 DEF PrepareAndAppend, At, o, StartOffset
  <2>2. /\ u \in Spooler /\ u.call = Taken.call /\ u.queue = Append(Taken.queue, x)
        /\ x \in Operation /\ x.op # "delete" /\ x.batch \in Batches
    BY <1>3, <2>1, EnqueuedParts
  <2>3. spooler' = u /\ removal' = removal
    BY <1>7 DEF PrepareAndAppend, o
  <2> HIDE DEF u, x
  <2>4. Taken.queue \in Seq(Operation) /\ OpsFit(Taken.queue, Deleting) /\ CallsFit(Taken.call, l)
    BY <1>3 DEF Sound, Spooler
  <2>5. OpsFit(u.queue, Deleting)
    BY <2>2, <2>4, OpsAppend
  <2>6. Sound(spooler', Deleting', l)
    BY <2>2, <2>3, <2>4, <2>5 DEF Sound, Deleting
  <2>7. record' \in [exists: BOOLEAN, size: Nat] /\ file' \in Seq(Chunks)
    <3>1. spooler.batch[o.batch] \in Batch
      BY <1>1, <1>3, <2>1 DEF Spooler
    <3>2. file' = file \o spooler.batch[o.batch].inflight
      BY <1>7 DEF PrepareAndAppend, o
    <3>3. file' \in Seq(Chunks)
      BY <1>1, <3>1, <3>2, ConcatProperties DEF Batch
    <3> QED  BY <1>1, <1>7, <3>3 DEF PrepareAndAppend
  <2> QED
    BY <1>7, <2>2, <2>3, <2>6, <2>7
       DEF Basic, LogTypeOK, Spooler, PrepareAndAppend, service, l
<1>8. CASE PrepareFails
  <2>1. o.op # "delete" /\ EndFlush(Taken, o.batch, FALSE) /\ UNCHANGED <<service, segments, file>>
    BY <1>8 DEF PrepareFails, At, o
  <2>2. record' \in [exists: BOOLEAN, size: Nat] /\ faults' \in 0..MaxFaults
    BY <1>1, <1>5, <1>8 DEF PrepareFails
  <2> QED  BY <1>1, <1>6, <2>1, <2>2
<1>9. CASE Commit
  <2>1. o.op # "delete" /\ EndFlush(Taken, o.batch, TRUE) /\ UNCHANGED <<service, file, faults>>
    BY <1>9 DEF Commit, At, o
  <2>2. segments' = Append(segments, SegmentOf(o))
        /\ record' = [record EXCEPT !.size = o.offset + Len(SegmentOf(o).chunks)]
    BY <1>9 DEF Commit, o
  <2>3. segments' \in Seq([offset: Nat, chunks: Seq(Chunks)])
    BY <1>1, <1>4, <2>1, <2>2, AppendProperties
  <2>4. record' \in [exists: BOOLEAN, size: Nat]
    <3>1. Len(SegmentOf(o).chunks) \in Nat
      BY <1>4, <2>1, LenProperties
    <3>2. o.offset \in Nat
      BY <1>3 DEF Operation
    <3> DEFINE n == o.offset + Len(SegmentOf(o).chunks)
    <3>3. n \in Nat
      BY <3>1, <3>2
    <3>4. record' = [record EXCEPT !.size = n]
      BY <2>2
    <3> HIDE DEF n
    <3> QED  BY <1>1, <3>3, <3>4
  <2> QED  BY <1>1, <1>6, <2>1, <2>3, <2>4
<1>10. CASE CommitFails
  <2>1. o.op # "delete" /\ EndFlush(Taken, o.batch, FALSE) /\ UNCHANGED <<service, record, file>>
    BY <1>10 DEF CommitFails, At, o
  <2>2. (segments' = Append(segments, SegmentOf(o)) \/ segments' = segments)
        /\ faults' \in 0..MaxFaults
    BY <1>1, <1>5, <1>10 DEF CommitFails, o
  <2>3. Append(segments, SegmentOf(o)) \in Seq([offset: Nat, chunks: Seq(Chunks)])
    BY <1>1, <1>4, <2>1, AppendProperties
  <2>4. segments' \in Seq([offset: Nat, chunks: Seq(Chunks)])
    BY <1>1, <2>2, <2>3
  <2> QED  BY <1>1, <1>6, <2>1, <2>2, <2>4
<1>11. ASSUME DeleteLogs \/ DeleteLogsFails
       PROVE  Basic'
  <2>1. o.op = "delete" /\ spooler' = Taken /\ UNCHANGED service
        /\ removal'.step \in {"done", "failed"}
        /\ removal' \in Removals
    BY <1>1, <1>11 DEF DeleteLogs, DeleteLogsFails, At, o, Removals
  <2>2. Sound(spooler', Deleting', l)
    BY <1>3, <2>1, SoundWeaker
  <2>3. /\ record' \in [exists: BOOLEAN, size: Nat] /\ file' \in Seq(Chunks)
        /\ segments' \in Seq([offset: Nat, chunks: Seq(Chunks)])
        /\ faults' \in 0..MaxFaults
    <3>1. <<>> \in Seq(Chunks) /\ <<>> \in Seq([offset: Nat, chunks: Seq(Chunks)])
      BY EmptySeq
    <3>2. CASE DeleteLogs
      BY <1>1, <3>1, <3>2 DEF DeleteLogs
    <3>3. CASE DeleteLogsFails
      <4>1. UNCHANGED <<record, file>> /\ segments' \in {segments, <<>>} /\ Fault
        BY <3>3 DEF DeleteLogsFails
      <4> QED  BY <1>1, <1>5, <3>1, <4>1
    <3> QED  BY <1>11, <3>2, <3>3
  <2>4. spooler' \in Spooler
    BY <2>2 DEF Sound
  <2> QED  BY <2>1, <2>2, <2>3, <2>4 DEF Basic, LogTypeOK, Spooler, service, l, Removals
<1> QED
  BY <1>7, <1>8, <1>9, <1>10, <1>11 DEF Queue

LEMMA OutputKeepsBasic ==
  ASSUME Basic, Output
  PROVE  Basic'
<1> DEFINE l == Len(output)
           R == [run: 1..MaxRuns, cursor: Chunks]
           o == [run |-> run, cursor |-> cursor + 1]
<1>1. /\ l \in Nat /\ l < MaxChunks /\ cursor \in 0..MaxChunks /\ cursor <= l
      /\ run \in 1..MaxRuns /\ output \in Seq(R) /\ Sound(spooler, Deleting, l)
      /\ \A i \in DOMAIN output : output[i].run <= run
      /\ spooler \in Spooler
      /\ spooler.mapped # 0 \/ Unused(spooler) # {}
  BY BasicParts DEF Basic, Output
<1>2. /\ cursor' = cursor + 1 /\ output' = Append(output, o) /\ run' = run
      /\ spooler' = Appended(spooler, Len(output'))
      /\ UNCHANGED <<host, runtime, terminal, removal, stored, faults>>
  BY DEF Output
<1>3. o \in R
  BY <1>1, Numbers DEF Chunks
<1> HIDE DEF o, R
<1>4. /\ output' \in Seq(R) /\ Len(output') = l + 1 /\ DOMAIN output = 1..l
      /\ DOMAIN output' = 1..(l + 1)
      /\ \A i \in 1..l : output'[i] = output[i]
      /\ output'[l + 1] = o
  BY <1>1, <1>2, <1>3, AppendProperties, LenProperties DEF l
<1>5. Len(output') \in Chunks /\ Len(output') <= MaxChunks
      /\ cursor' \in 0..MaxChunks /\ cursor' <= Len(output')
  <2> HIDE DEF l
  <2> QED  BY <1>1, <1>2, <1>4, Numbers DEF Chunks
<1>6. \A i \in DOMAIN output' : output'[i].run <= run
  <2>1. \A i \in 1..(l + 1) : i \in 1..l \/ i = l + 1
    BY <1>1
  <2>2. o.run <= run
    BY <1>1 DEF o
  <2> QED  BY <1>1, <1>4, <2>1, <2>2
<1>7. spooler' \in Spooler /\ spooler'.queue = spooler.queue /\ spooler'.call = spooler.call
  <2> DEFINE c == Len(output')
  <2>1. spooler' = Appended(spooler, c) /\ c \in Chunks
    BY <1>2, <1>5
  <2> HIDE DEF c
  <2> QED  BY <1>1, <2>1, AppendedParts
<1>8. CallsFit(spooler'.call, Len(output'))
  <2>1. \A c \in Callers : spooler.call[c].upto \in 0..MaxChunks /\ spooler.call[c].upto <= l
    BY <1>1 DEF Sound, CallsFit, Spooler, Call
  <2> HIDE DEF l
  <2> QED  BY <1>1, <1>4, <1>7, <2>1 DEF CallsFit
<1>9. Sound(spooler', Deleting', Len(output'))
  BY <1>1, <1>2, <1>7, <1>8 DEF Sound, Deleting
<1> QED  BY <1>1, <1>2, <1>4, <1>5, <1>6, <1>7, <1>9 DEF Basic, LogTypeOK, Spooler, stored, R

LEMMA RestartKeepsBasic ==
  ASSUME Basic, Restart
  PROVE  Basic'
<1>1. <<>> \in Seq(Operation)
  BY EmptySeq
<1>2. spooler' \in Spooler /\ \A c \in Callers : spooler'.call[c] = NoCall
  BY <1>1, NoBatchType, NoCallType DEF Restart, Spooler
<1>3. spooler'.queue = <<>> /\ DOMAIN <<>> = {}
  BY DEF Restart
<1>4. OpsFit(spooler'.queue, Deleting')
  BY <1>3 DEF OpsFit
<1>5. CallsFit(spooler'.call, Len(output))
  BY <1>2, BasicParts DEF CallsFit, NoCall
<1>6. run' \in 1..MaxRuns /\ cursor' \in 0..MaxChunks /\ cursor' <= Len(output)
      /\ run \in Int /\ run' = run + 1
  BY BasicParts, Numbers DEF Restart
<1>7. \A i \in DOMAIN output : output[i].run <= run'
  <2>1. \A i \in DOMAIN output : output[i].run \in Int
    <3>1. output \in [1..Len(output) -> [run: 1..MaxRuns, cursor: Chunks]]
      BY BasicParts, LenProperties
    <3> QED  BY <3>1
  <2>2. \A i \in DOMAIN output : output[i].run <= run
    BY DEF Basic
  <2> QED  BY <1>6, <2>1, <2>2
<1>8. removal' \in Removals
  BY BasicParts DEF Restart, Removals
<1>9. runtime' \in BOOLEAN /\ host' \in {"up", "disposing", "disposed"}
      /\ UNCHANGED <<output, terminal, stored, faults>>
  BY DEF Restart, Basic, LogTypeOK
<1>10. LogTypeOK'
  BY <1>2, <1>6, <1>8, <1>9 DEF Basic, LogTypeOK, Spooler, stored, Removals
<1> QED  BY <1>2, <1>4, <1>5, <1>6, <1>7, <1>9, <1>10 DEF Basic, Sound

LEMMA StepKeepsBasic ==
  ASSUME Basic, [Next]_vars
  PROVE  Basic'
<1>1. CASE RuntimeEnds
  <2>1. Sound(spooler', Deleting', Len(output))
    BY <1>1 DEF RuntimeEnds, Basic, Deleting
  <2> QED  BY <1>1, <2>1, BasicKept DEF RuntimeEnds, Basic, LogTypeOK, Removals
<1>2. ASSUME NEW b \in Batches, TimerFires(b) PROVE Basic'
  <2> DEFINE t == [spooler EXCEPT !.batch[b].timer = FALSE]
  <2>1. Sound(t, Deleting, Len(output))
    BY SoundTimerOff DEF Basic
  <2> HIDE DEF t
  <2>2. Sound(Called(t, "timer"), Deleting, Len(output))
    <3>1. Len(output) <= Len(output) /\ "timer" \in Callers
      BY BasicParts DEF Callers
    <3> QED  BY <2>1, <3>1, BasicParts, SoundCalled
  <2>3. Sound(spooler', Deleting', Len(output))
    BY <1>2, <2>2, SoundCollected DEF TimerFires, Deleting, t
  <2> QED  BY <1>2, <2>3, BasicKept DEF TimerFires, Basic, LogTypeOK, service, Removals
<1>3. CASE UNCHANGED vars
  <2>1. Sound(spooler', Deleting', Len(output))
    BY <1>3 DEF vars, Basic, Deleting
  <2> QED  BY <1>3, <2>1, BasicKept DEF vars, stored, Basic, LogTypeOK
<1> QED
  BY <1>1, <1>2, <1>3, ServiceKeepsBasic, QueueKeepsBasic, OutputKeepsBasic, RestartKeepsBasic
     DEF Next

-----------------------------------------------------------------------------
(* The second part: the log that is kept.                                   *)

(* Of all batches w alone is in use, and its n chunks from a on are under   *)
(* way, by the only operation that is queued.                               *)
Carries(s, w, a, n, size) ==
  /\ \A b \in Batches : b # w => s.batch[b] = NoBatch
  /\ s.mapped \in {0, w}
  /\ w = 0 => n = 0
  /\ w # 0 => Goes(s.batch[w].inflight, a, n)
  /\ n = 0 => s.queue = <<>>
  /\ n # 0 => /\ ~s.batch[w].timer
              /\ Len(s.queue) = 1 /\ s.queue[1].op \in {"prepare", "commit"}
              /\ s.queue[1].batch = w
              /\ s.queue[1].op = "commit" => s.queue[1].offset = size

(* A call that has returned, or will with the flush it began, was there for *)
(* chunks below x only.                                                     *)
Promised(s, x) ==
  \A c \in Callers : s.call[c].ok /\ s.call[c].state \in {"own", "returned"}
                       => s.call[c].upto < x

(* In service w is in the map, with the m chunks that wait and a timer.     *)
Live(s, w, a, n, m) ==
  /\ s.mapped = w
  /\ w = 0 => m = 0
  /\ w # 0 => Goes(s.batch[w].chunks, a + n, m)
  /\ w # 0 /\ n = 0 => m # 0 /\ s.batch[w].timer
  /\ Promised(s, a + n)

LastOfThisRun == segments # <<>> /\ output[Last(segments).chunks[1]].run = run

(* The n + m chunks from a on are the newest, all of this run, and continue *)
(* the last segment or repeat it whole, or are the first of this run.       *)
Linked(a, n, m) ==
  /\ a + n + m = Len(output) + 1
  /\ \A i \in DOMAIN output : a <= i => output[i].run = run
  /\ LastOfThisRun =>
       LET p == Last(segments)
       IN  \/ /\ a = p.chunks[1] + Len(p.chunks)
              /\ record.size = p.offset + Len(p.chunks)
           \/ /\ a = p.chunks[1] /\ record.size = p.offset
              /\ Len(p.chunks) <= IF n = 0 THEN m ELSE n
  /\ ~LastOfThisRun =>
       IF a <= Len(output) THEN output[a].cursor = 1 ELSE cursor = 0

(* Of this run, chunks before a are in the index.                           *)
Covered(a) == \A i \in DOMAIN output : output[i].run = run /\ i < a => Indexed(i)

(* Segment i has l chunks from f on, of one run, and continues or repeats   *)
(* the one before, or is the first of its run.                              *)
Links(i, f, l) ==
  /\ f + l - 1 <= Len(output)
  /\ Goes(segments[i].chunks, f, l)
  /\ \A k \in DOMAIN output : f <= k /\ k < f + l => output[k].run = output[f].run
  /\ IF i > 1 /\ output[segments[i - 1].chunks[1]].run = output[f].run
       THEN LET p == segments[i - 1]
            IN  \/ /\ f = p.chunks[1] + Len(p.chunks)
                   /\ segments[i].offset = p.offset + Len(p.chunks)
                \/ /\ f = p.chunks[1] /\ segments[i].offset = p.offset
                   /\ Len(p.chunks) <= l
       ELSE output[f].cursor = 1

Chain == \A i \in DOMAIN segments : \E f, l \in Nat \ {0} : Links(i, f, l)

Fits(w, a, n, m) ==
  /\ Carries(spooler, w, a, n, record.size)
  /\ host # "disposed" \/ n # 0 => Linked(a, n, m)
  /\ host # "disposed" => Live(spooler, w, a, n, m) /\ Covered(a)

InOrder ==
  Kept => /\ Chain
          /\ \E w \in Batches \cup {0}, a \in Nat \ {0}, n, m \in Nat : Fits(w, a, n, m)

-----------------------------------------------------------------------------
(* The third part: the log that is removed.                                 *)

Gone == ~record.exists /\ segments = <<>>

Removed ==
  /\ terminal = "gone" => Gone
  /\ removal.kind = "delete" /\ removal.step \in {"taken", "clearing", "deleting", "done"}
       => terminal = "gone"
  /\ removal.step \in {"taken", "again"} => removal.kind = "delete"
  /\ removal.step \in {"none", "flushing", "again"} => terminal = "open"
  /\ removal.step = "done" => Gone /\ file = <<>>

(* What is queued while the log of a closed terminal is removed: a flush of *)
(* before may be waited for, or when the host ends come before or after.    *)
OneFlush(q) == Len(q) = 1 /\ q[1].op \in {"prepare", "commit"} /\ q[1].batch = removal.batch
OneDelete(q, h) ==
  \/ Len(q) = 1 /\ q[1].op = "delete"
  \/ h = "disposed" /\ Len(q) = 2 /\ q[1].op # "delete" /\ q[2].op = "delete"
  \/ h = "disposed" /\ Len(q) = 2 /\ q[1].op = "delete" /\ q[2].op = "commit"
NoFlush(q, h) == q = <<>> \/ (h = "disposed" /\ Len(q) = 1 /\ q[1].op = "commit")

Closing == removal.kind = "close" /\ removal.step \in {"clearing", "deleting", "done"}
Closed ==
  Closing =>
    /\ ~runtime /\ spooler.mapped = 0
    /\ removal.step = "clearing" => OneFlush(spooler.queue)
    /\ removal.step = "deleting" => OneDelete(spooler.queue, host)
    /\ removal.step = "done" => NoFlush(spooler.queue, host)

LogInv == Basic /\ InOrder /\ Removed /\ Closed

(* Out of the map nothing is flushed any more.                              *)
LEMMA FlushUnmapped ==
  ASSUME NEW s \in Spooler, s.mapped = 0, NEW c \in Callers
  PROVE  /\ FlushTerminal(s, c) \in Spooler
         /\ FlushTerminal(s, c).mapped = 0 /\ FlushTerminal(s, c).queue = s.queue
<1>1. /\ Returned(s, c) \in Spooler
      /\ Returned(s, c).mapped = 0 /\ Returned(s, c).queue = s.queue
  BY ReturnedParts DEF SameBatches
<1>2. /\ Returned(Cleared(s), c) \in Spooler
      /\ Returned(Cleared(s), c).mapped = 0 /\ Returned(Cleared(s), c).queue = s.queue
  <2>1. Cleared(s) \in Spooler /\ Cleared(s).mapped = 0 /\ Cleared(s).queue = s.queue
    BY ClearedParts
  <2> QED  BY <2>1, ReturnedParts DEF SameBatches
<1> QED  BY <1>1, <1>2, FlushCases, NotABatch

LEMMA CalledUnmapped ==
  ASSUME Basic, NEW s \in Spooler, s.mapped = 0, NEW c \in Callers
  PROVE  /\ Called(s, c) \in Spooler
         /\ Called(s, c).mapped = 0 /\ Called(s, c).queue = s.queue
<1> DEFINE t == Asked(s, c)
<1>1. /\ t \in Spooler /\ t.mapped = 0 /\ t.queue = s.queue
      /\ Called(s, c) = FlushTerminal(t, c)
  BY BasicParts, AskedParts DEF SameBatches
<1> HIDE DEF t
<1> QED  BY <1>1, FlushUnmapped

LEMMA EndFlushUnmapped ==
  ASSUME NEW s \in Spooler, s.mapped = 0, NEW b \in Batches, NEW ok \in BOOLEAN,
         EndFlush(s, b, ok)
  PROVE  \E woken \in Spooler :
           /\ woken.mapped = 0 /\ woken.queue = s.queue
           /\ IF removal.step = "clearing" /\ removal.batch = b
                THEN /\ spooler' = Collected(Enqueued(woken, "delete", 0, 0))
                     /\ removal' = [removal EXCEPT !.step = "deleting", !.batch = 0]
                ELSE spooler' = Collected(woken) /\ removal' = removal
<1> DEFINE T == {t \in Spooler : t.mapped = 0 /\ t.queue = s.queue}
           m == Marked(s, ok)
           e == Ended(m, b, ok)
           t == Settled(m, b, ok)
<1>1. m \in Spooler /\ m.queue = s.queue /\ m.mapped = 0
  BY MarkedParts DEF SameBatches
<1> HIDE DEF m
<1>2. e \in Spooler /\ e.queue = s.queue /\ e.mapped = 0
  BY <1>1, EndedParts
<1>3. t = Scheduled(e) \/ t = e \/ t = [e EXCEPT !.mapped = 0]
  BY <1>1, SettledCases
<1> HIDE DEF e, t
<1>4. t \in Spooler /\ t.queue = s.queue /\ t.mapped = 0
  BY <1>2, <1>3, ScheduledParts, UnmappedParts
<1>5. Owned(t, b) \in Spooler /\ Owned(t, b).queue = s.queue /\ Owned(t, b).mapped = 0
  BY <1>4, OwnedParts DEF SameBatches
<1>6. Ends(s, b, ok) \in T
  BY <1>5 DEF Ends, t, m
<1>7. ASSUME NEW x \in T, NEW c \in Callers PROVE Resumed(x, c, b) \in T
  <2>1. /\ Returned(x, c) \in Spooler
        /\ Returned(x, c).mapped = 0 /\ Returned(x, c).queue = s.queue
    BY ReturnedParts DEF SameBatches
  <2>2. /\ FlushTerminal(x, c) \in Spooler
        /\ FlushTerminal(x, c).mapped = 0 /\ FlushTerminal(x, c).queue = s.queue
    BY FlushUnmapped
  <2> QED  BY <2>1, <2>2 DEF Resumed
<1> HIDE DEF T
<1>8. PICK woken \in T :
           IF removal.step = "clearing" /\ removal.batch = b
             THEN /\ spooler' = Collected(Enqueued(woken, "delete", 0, 0))
                  /\ removal' = [removal EXCEPT !.step = "deleting", !.batch = 0]
             ELSE spooler' = Collected(woken) /\ removal' = removal
  BY <1>6, <1>7, EndFlushIn
<1>9. woken \in Spooler /\ woken.mapped = 0 /\ woken.queue = s.queue
  BY <1>8 DEF T
<1> QED  BY <1>8, <1>9

LEMMA HeadOfQueue ==
  ASSUME Basic, NEW kind, At(kind)
  PROVE  /\ spooler.queue # <<>> /\ Head(spooler.queue) = spooler.queue[1]
         /\ spooler.queue[1].op = kind
         /\ kind = "delete" => Deleting /\ Sound(Taken, FALSE, Len(output))
         /\ kind # "delete" => Head(spooler.queue).batch \in Batches
         /\ Taken \in Spooler /\ Taken.mapped = spooler.mapped
         /\ Taken.batch = spooler.batch /\ Taken.call = spooler.call
         /\ Taken.queue = Tail(spooler.queue)
         /\ Sound(Taken, Deleting, Len(output))
<1>1. /\ Sound(spooler, Deleting, Len(output)) /\ spooler.queue # <<>>
      /\ Head(spooler.queue).op = kind /\ spooler.queue \in Seq(Operation)
  BY BasicParts DEF Basic, At
<1>2. Head(spooler.queue) = spooler.queue[1] /\ 1 \in DOMAIN spooler.queue
  BY <1>1, QueueTail
<1>3. kind = "delete" => Deleting
  BY <1>1, <1>2 DEF Sound, OpsFit
<1> QED  BY <1>1, <1>2, <1>3, TakenParts

(* While the log is kept the queue holds a flush of the mapped batch or, in *)
(* a host that ends, of one that has left the map.                          *)
LEMMA KeptQueue ==
  ASSUME Basic, InOrder, Kept
  PROVE  \/ spooler.queue = <<>> /\ ~Flushing(spooler, spooler.mapped)
         \/ /\ Len(spooler.queue) = 1 /\ spooler.queue[1].op \in {"prepare", "commit"}
            /\ \/ Flushing(spooler, spooler.mapped) /\ spooler.queue[1].batch = spooler.mapped
               \/ ~Flushing(spooler, spooler.mapped) /\ host = "disposed" /\ spooler.mapped = 0
<1>1. PICK w \in Batches \cup {0}, a \in Nat \ {0}, n \in Nat, m \in Nat : Fits(w, a, n, m)
  BY DEF InOrder
<1>2. Carries(spooler, w, a, n, record.size) /\ (host # "disposed" => spooler.mapped = w)
  BY <1>1 DEF Fits, Live
<1>3. ASSUME w # 0
      PROVE  w \in Batches /\ spooler.batch[w].inflight \in Seq(Chunks)
             /\ (n = 0 <=> spooler.batch[w].inflight = <<>>)
  <2>1. w \in Batches /\ spooler.batch[w].inflight \in Seq(Chunks)
    BY <1>3, BasicParts DEF Batch
  <2>2. Goes(spooler.batch[w].inflight, a, n)
    BY <1>2, <1>3 DEF Carries
  <2> QED  BY <2>1, <2>2, GoesEmpty
<1>4. CASE n = 0
  <2>1. spooler.queue = <<>> /\ spooler.mapped \in {0, w}
    BY <1>2, <1>4 DEF Carries
  <2>2. ~Flushing(spooler, spooler.mapped)
    BY <1>3, <1>4, <2>1 DEF Flushing
  <2> QED  BY <2>1, <2>2
<1>5. CASE n # 0
  <2>1. /\ spooler.mapped \in {0, w} /\ w # 0 /\ Len(spooler.queue) = 1
        /\ spooler.queue[1].op \in {"prepare", "commit"} /\ spooler.queue[1].batch = w
    BY <1>2, <1>5 DEF Carries
  <2>2. CASE spooler.mapped = w
    BY <1>3, <1>5, <2>1, <2>2 DEF Flushing
  <2>3. CASE spooler.mapped = 0
    BY <1>2, <2>1, <2>3 DEF Flushing
  <2> QED  BY <2>1, <2>2, <2>3
<1> QED  BY <1>4, <1>5

LEMMA RemovalSteps ==
  ASSUME Basic, NEW b, NEW ok, EndFlush(Taken, b, ok)
  PROVE  \/ removal' = removal
         \/ /\ removal.step = "clearing" /\ removal'.kind = removal.kind
            /\ removal'.step = "deleting"
<1>1. removal' = removal \/ (removal.step = "clearing"
        /\ removal' = [removal EXCEPT !.step = "deleting", !.batch = 0])
  BY DEF EndFlush
<1> QED  BY <1>1, BasicParts DEF Removals

LEMMA QueueKeepsRemoved ==
  ASSUME LogInv, Queue
  PROVE  Removed'
<1>1. Basic /\ Removed /\ Closed
  BY DEF LogInv
<1>2. terminal' = terminal
  BY DEF Queue, PrepareAndAppend, PrepareFails, Commit, CommitFails, DeleteLogs,
         DeleteLogsFails, service
<1>3. ASSUME At("prepare"), terminal = "open" PROVE removal.step # "done"
  <2> SUFFICES ASSUME removal.step = "done" PROVE FALSE
    OBVIOUS
  <2>1. removal.kind = "close"
    <3>1. removal.kind \in {"close", "delete"}
      BY <1>1, BasicParts DEF Removals
    <3> QED  BY <1>1, <1>3, <3>1 DEF Removed
  <2>2. NoFlush(spooler.queue, host)
    BY <1>1, <2>1 DEF Closed, Closing
  <2>3. spooler.queue # <<>> /\ spooler.queue[1].op = "prepare"
    BY <1>1, <1>3, HeadOfQueue
  <2> QED  BY <2>2, <2>3 DEF NoFlush
<1>4. CASE PrepareAndAppend
  <2>1. At("prepare") /\ removal' = removal /\ segments' = segments
        /\ (record.exists \/ terminal = "open")
    BY <1>4 DEF PrepareAndAppend
  <2>2. terminal = "open"
    <3>1. terminal \in {"open", "gone"}
      BY <1>1 DEF Basic, LogTypeOK
    <3> QED  BY <1>1, <2>1, <3>1 DEF Removed, Gone
  <2>3. removal.step # "done"
    BY <1>3, <2>1, <2>2
  <2> QED  BY <1>1, <1>2, <2>1, <2>2, <2>3 DEF Removed
<1>5. CASE PrepareFails
  <2> DEFINE o == Head(spooler.queue)
  <2>1. At("prepare") /\ EndFlush(Taken, o.batch, FALSE)
        /\ segments' = segments /\ file' = file
        /\ (record' = record \/ terminal = "open")
    BY <1>5 DEF PrepareFails
  <2>2. \/ removal' = removal
        \/ /\ removal.step = "clearing" /\ removal'.kind = removal.kind
           /\ removal'.step = "deleting"
    BY <1>1, <2>1, RemovalSteps
  <2>3. CASE record' = record
    BY <1>1, <1>2, <2>1, <2>2, <2>3 DEF Removed, Gone
  <2>4. CASE terminal = "open"
    BY <1>1, <1>2, <1>3, <2>1, <2>2, <2>4 DEF Removed, Gone
  <2> QED  BY <2>1, <2>3, <2>4
<1>6. CASE Commit
  <2> DEFINE o == Head(spooler.queue)
  <2>1. At("commit") /\ EndFlush(Taken, o.batch, TRUE) /\ record.exists /\ file' = file
    BY <1>6 DEF Commit
  <2>2. \/ removal' = removal
        \/ /\ removal.step = "clearing" /\ removal'.kind = removal.kind
           /\ removal'.step = "deleting"
    BY <1>1, <2>1, RemovalSteps
  <2> QED  BY <1>1, <1>2, <2>1, <2>2 DEF Removed, Gone
<1>7. CASE CommitFails
  <2> DEFINE o == Head(spooler.queue)
  <2>1. At("commit") /\ EndFlush(Taken, o.batch, FALSE)
        /\ record' = record /\ file' = file
        /\ (segments' = segments \/ record.exists)
    BY <1>7 DEF CommitFails
  <2>2. \/ removal' = removal
        \/ /\ removal.step = "clearing" /\ removal'.kind = removal.kind
           /\ removal'.step = "deleting"
    BY <1>1, <2>1, RemovalSteps
  <2> QED  BY <1>1, <1>2, <2>1, <2>2 DEF Removed, Gone
<1>8. CASE DeleteLogs
  <2>1. At("delete") /\ removal' = [removal EXCEPT !.step = "done"]
        /\ segments' = <<>> /\ record' = [exists |-> FALSE, size |-> 0] /\ file' = <<>>
    BY <1>8 DEF DeleteLogs
  <2>2. removal.step = "deleting"
    BY <1>1, <2>1, HeadOfQueue DEF Deleting
  <2>3. removal'.kind = removal.kind /\ removal'.step = "done" /\ Gone'
    BY <1>1, <2>1, BasicParts DEF Gone, Removals
  <2> QED  BY <1>1, <1>2, <2>1, <2>2, <2>3 DEF Removed
<1>9. CASE DeleteLogsFails
  <2>1. removal' = [removal EXCEPT !.step = "failed"]
        /\ segments' \in {segments, <<>>} /\ record' = record
    BY <1>9 DEF DeleteLogsFails
  <2>2. removal'.step = "failed"
    BY <1>1, <2>1, BasicParts DEF Removals
  <2> QED  BY <1>1, <1>2, <2>1, <2>2 DEF Removed, Gone
<1> QED
  BY <1>4, <1>5, <1>6, <1>7, <1>8, <1>9 DEF Queue

LEMMA StepKeepsRemoved ==
  ASSUME LogInv, [Next]_vars
  PROVE  Removed'
<1>1. Basic /\ Removed
  BY DEF LogInv
<1>2. removal \in Removals
  BY <1>1, BasicParts
<1>3. ASSUME UNCHANGED <<terminal, record, segments, file, removal>> PROVE Removed'
  BY <1>1, <1>3 DEF Removed, Gone
<1>4. ASSUME NEW kind \in {"close", "delete"}, BeginRemoval(kind) PROVE Removed'
  <2>1. removal'.kind = kind /\ UNCHANGED <<terminal, record, segments, file>>
        /\ removal'.step \in {"flushing", "again"} /\ terminal = "open"
        /\ (removal'.step = "again" => kind = "delete")
    BY <1>4 DEF BeginRemoval, service, stored
  <2> QED  BY <1>1, <2>1 DEF Removed, Gone
<1>5. CASE AbandonRemoval
  <2>1. UNCHANGED <<terminal, record, segments, file>> /\ removal'.step \in {"failed", "none"}
        /\ removal.step \in {"flushing", "again"}
    BY <1>2, <1>5 DEF AbandonRemoval, RemovalFlushed, service, stored, Removals
  <2> QED  BY <1>1, <2>1 DEF Removed, Gone
<1>6. CASE DeleteRow
  <2>1. removal'.step = "taken" /\ removal'.kind = "delete" /\ terminal' = "gone" /\ Gone'
    BY <1>2, <1>6 DEF DeleteRow, RemovalFlushed, Gone, Removals
  <2> QED  BY <2>1 DEF Removed
<1>7. CASE ClearLogs
  <2>1. UNCHANGED <<terminal, record, segments, file>>
        /\ removal'.step \in {"clearing", "deleting"} /\ removal'.kind = removal.kind
        /\ (removal.kind = "close" \/ removal.step = "taken")
    BY <1>2, <1>7 DEF ClearLogs, RemovalFlushed, stored, Removals
  <2> QED  BY <1>1, <2>1 DEF Removed, Gone
<1>8. CASE Restart
  <2>1. UNCHANGED <<terminal, record, segments, file>> /\ removal'.kind = removal.kind
        /\ (removal'.step = "failed" \/ (removal'.step = "none" /\ removal.step = "flushing")
            \/ (removal'.step = removal.step /\ removal.step \in {"none", "done", "failed"}))
    BY <1>2, <1>8 DEF Restart, stored, Removals
  <2> QED  BY <1>1, <2>1 DEF Removed, Gone
<1>9. CASE Output \/ RuntimeEnds \/ ReadHistory \/ FlushAtExit \/ DisposeBegin \/ DisposeEnd
  BY <1>3, <1>9 DEF Output, RuntimeEnds, ReadHistory, FlushAtExit, DisposeBegin, DisposeEnd,
                    service, stored
<1>10. ASSUME NEW b \in Batches, TimerFires(b) PROVE Removed'
  BY <1>3, <1>10 DEF TimerFires, service, stored
<1>11. CASE UNCHANGED vars
  BY <1>3, <1>11 DEF vars
<1> QED
  BY <1>4, <1>5, <1>6, <1>7, <1>8, <1>9, <1>10, <1>11, QueueKeepsRemoved
     DEF Next, Service

LEMMA QueueShapes ==
  ASSUME NEW q \in Seq(Operation), NEW o \in Operation
  PROVE  /\ Len(q) = 1 => Tail(q) = <<>> /\ q # <<>>
         /\ Len(q) = 2 => Len(Tail(q)) = 1 /\ Tail(q)[1] = q[2] /\ q # <<>>
         /\ q = <<>> => Len(Append(q, o)) = 1 /\ Append(q, o)[1] = o
         /\ Len(q) = 1 => /\ Len(Append(q, o)) = 2
                          /\ Append(q, o)[1] = q[1] /\ Append(q, o)[2] = o
<1>1. Len(q) = 0 <=> q = <<>>
  BY EmptySeq, LenProperties
<1>2. ASSUME Len(q) = 1 \/ Len(q) = 2
      PROVE  /\ q # <<>> /\ Tail(q) \in Seq(Operation) /\ Len(Tail(q)) = Len(q) - 1
             /\ \A i \in 1..Len(Tail(q)) : Tail(q)[i] = q[i + 1]
  BY <1>1, <1>2, HeadTailProperties
<1>3. ASSUME Len(q) = 1 PROVE Tail(q) = <<>>
  <2>1. Tail(q) \in Seq(Operation) /\ Len(Tail(q)) = 0
    BY <1>2, <1>3
  <2> QED  BY <2>1, EmptySeq
<1>4. ASSUME Len(q) = 2 PROVE Len(Tail(q)) = 1 /\ Tail(q)[1] = q[2]
  <2>1. Len(q) = 2
    BY <1>4
  <2> HIDE <1>4
  <2>2. Len(Tail(q)) = Len(q) - 1
    BY <1>2, <2>1
  <2>3. \A i \in 1..Len(Tail(q)) : Tail(q)[i] = q[i + 1]
    BY <1>2, <2>1
  <2>4. Len(Tail(q)) = 1
    BY <2>1, <2>2
  <2>5. Tail(q)[1] = q[1 + 1]
    BY <2>3, <2>4
  <2> QED  BY <2>4, <2>5
<1>5. /\ Len(Append(q, o)) = Len(q) + 1 /\ Append(q, o)[Len(q) + 1] = o
      /\ \A i \in 1..Len(q) : Append(q, o)[i] = q[i]
  BY AppendProperties
<1> QED  BY <1>1, <1>2, <1>3, <1>4, <1>5

LEMMA ClosedStays ==
  ASSUME Closed, removal' = removal, runtime' = runtime \/ ~ runtime',
         host' = host \/ host # "disposed",
         Closing => spooler'.mapped = 0 /\ spooler'.queue = spooler.queue /\ ~ runtime'
  PROVE  Closed'
<1>1. Closing' = Closing
  BY DEF Closing
<1> QED  BY <1>1 DEF Closed, OneFlush, OneDelete, NoFlush, Closing

LEMMA ClearingCloses ==
  ASSUME LogInv, ClearLogs
  PROVE  Closed'
<1> DEFINE l == Len(output)
           f == Forgotten(spooler, "removal")
           t == Cleared(f)
           o == [op |-> "delete", batch |-> 0, offset |-> 0]
           u == Enqueued(t, "delete", 0, 0)
<1>1. Basic /\ Removed /\ InOrder /\ removal \in Removals
      /\ spooler \in Spooler /\ "removal" \in Callers
  BY BasicParts DEF LogInv, Callers
<1>2. \/ /\ Flushing(spooler, spooler.mapped) /\ spooler' = t
         /\ removal' = [removal EXCEPT !.step = "clearing", !.batch = spooler.mapped]
      \/ /\ ~ Flushing(spooler, spooler.mapped) /\ spooler' = Collected(u)
         /\ removal' = [removal EXCEPT !.step = "deleting"]
  BY DEF ClearLogs, Forgotten
<1>3. (RemovalFlushed("close") /\ ~ runtime) \/ removal.step = "taken"
  BY DEF ClearLogs
<1>4. runtime' = runtime /\ host' = host
  BY DEF ClearLogs
<1>5. f \in Spooler /\ f.queue = spooler.queue
  BY <1>1, ForgottenParts DEF SameBatches
<1> HIDE DEF f
<1>6. t \in Spooler /\ t.mapped = 0 /\ t.queue = spooler.queue
  BY <1>5, ClearedParts
<1> HIDE DEF t
<1>7. u \in Spooler /\ u.mapped = 0 /\ u.queue = Append(spooler.queue, o) /\ o \in Operation
      /\ o.op = "delete"
  <2>1. u \in Spooler /\ u.mapped = t.mapped /\ u.queue = Append(t.queue, o)
    BY <1>6, EnqueuedDelete, ZenonT(30)
  <2>2. o \in Operation
    BY DEF Operation
  <2> HIDE DEF u
  <2> QED  BY <1>6, <2>1, <2>2
<1> HIDE DEF u, o
<1>8. Collected(u).mapped = 0 /\ Collected(u).queue = Append(spooler.queue, o)
  BY <1>7, CollectedParts
<1>9. CASE removal.step = "taken"
  <2>1. removal.kind = "delete" /\ removal'.kind = removal.kind
    BY <1>1, <1>2, <1>9 DEF Removed, Removals
  <2> QED  BY <2>1 DEF Closed, Closing
<1>10. CASE RemovalFlushed("close") /\ ~ runtime
  <2>1. Kept /\ spooler.queue \in Seq(Operation)
    BY <1>1, <1>10, BasicParts DEF Removed, RemovalFlushed, Kept
  <2>2. \/ spooler.queue = <<>> /\ ~Flushing(spooler, spooler.mapped)
        \/ /\ Len(spooler.queue) = 1 /\ spooler.queue[1].op \in {"prepare", "commit"}
           /\ \/ Flushing(spooler, spooler.mapped) /\ spooler.queue[1].batch = spooler.mapped
              \/ ~Flushing(spooler, spooler.mapped) /\ host = "disposed" /\ spooler.mapped = 0
    BY <1>1, <2>1, KeptQueue
  <2>3. CASE Flushing(spooler, spooler.mapped)
    <3>1. /\ spooler'.mapped = 0 /\ spooler'.queue = spooler.queue
          /\ removal'.step = "clearing" /\ removal'.batch = spooler.mapped
      BY <1>1, <1>2, <1>6, <2>3 DEF Removals
    <3>2. Len(spooler.queue) = 1 /\ spooler.queue[1].op \in {"prepare", "commit"}
          /\ spooler.queue[1].batch = spooler.mapped
      BY <2>2, <2>3
    <3>3. OneFlush(spooler.queue)'
      BY <3>1, <3>2 DEF OneFlush
    <3> QED  BY <1>4, <1>10, <3>1, <3>3 DEF Closed
  <2>4. CASE ~ Flushing(spooler, spooler.mapped)
    <3>1. /\ spooler'.mapped = 0 /\ spooler'.queue = Append(spooler.queue, o)
          /\ removal'.step = "deleting"
      BY <1>1, <1>2, <1>8, <2>4 DEF Removals
    <3>2. \/ spooler.queue = <<>>
          \/ /\ Len(spooler.queue) = 1 /\ spooler.queue[1].op \in {"prepare", "commit"}
             /\ host = "disposed"
      BY <2>2, <2>4
    <3>3. OneDelete(Append(spooler.queue, o), host)
      BY <1>7, <2>1, <3>2, QueueShapes DEF OneDelete
    <3> QED  BY <1>4, <1>10, <3>1, <3>3 DEF Closed
  <2> QED  BY <2>3, <2>4
<1> QED  BY <1>3, <1>9, <1>10

LEMMA EndFlushClosed ==
  ASSUME LogInv, Closing, spooler.queue # <<>>, Head(spooler.queue).op # "delete",
         NEW ok \in BOOLEAN, EndFlush(Taken, Head(spooler.queue).batch, ok),
         UNCHANGED service
  PROVE  Closed'
<1> DEFINE q == spooler.queue
           o == [op |-> "delete", batch |-> 0, offset |-> 0]
<1>1. Basic /\ removal \in Removals /\ q \in Seq(Operation)
      /\ ~ runtime /\ spooler.mapped = 0
      /\ (removal.step = "clearing" => OneFlush(q))
      /\ (removal.step = "deleting" => OneDelete(q, host))
      /\ (removal.step = "done" => NoFlush(q, host))
  BY BasicParts DEF LogInv, Closed
<1>2. Taken \in Spooler /\ Taken.mapped = 0 /\ Taken.queue = Tail(q)
      /\ Head(q).batch \in Batches /\ Head(q) = q[1]
  BY <1>1, TakenParts, QueueTail DEF Basic
<1>3. runtime' = runtime /\ host' = host
  BY DEF service
<1>4. PICK woken \in Spooler :
           /\ woken.mapped = 0 /\ woken.queue = Tail(q)
           /\ IF removal.step = "clearing" /\ removal.batch = Head(q).batch
                THEN /\ spooler' = Collected(Enqueued(woken, "delete", 0, 0))
                     /\ removal' = [removal EXCEPT !.step = "deleting", !.batch = 0]
                ELSE spooler' = Collected(woken) /\ removal' = removal
  <2>1. PICK s, b : s = Taken /\ b = Head(q).batch
    OBVIOUS
  <2>2. EndFlush(s, b, ok)
    BY <2>1 DEF EndFlush
  <2>3. s \in Spooler /\ s.mapped = 0 /\ b \in Batches /\ s.queue = Tail(q)
    BY <1>2, <2>1
  <2>4. \E woken \in Spooler :
           /\ woken.mapped = 0 /\ woken.queue = s.queue
           /\ IF removal.step = "clearing" /\ removal.batch = b
                THEN /\ spooler' = Collected(Enqueued(woken, "delete", 0, 0))
                     /\ removal' = [removal EXCEPT !.step = "deleting", !.batch = 0]
                ELSE spooler' = Collected(woken) /\ removal' = removal
    BY <2>2, <2>3, EndFlushUnmapped, Zenon
  <2> HIDE DEF q
  <2> QED  BY <2>1, <2>3, <2>4
<1> DEFINE u == Enqueued(woken, "delete", 0, 0)
<1>5. u \in Spooler /\ u.mapped = 0 /\ u.queue = Append(Tail(q), o) /\ o \in Operation
      /\ o.op = "delete"
  <2>1. u \in Spooler /\ u.mapped = woken.mapped /\ u.queue = Append(woken.queue, o)
    <3>1. woken \in Spooler
      OBVIOUS
    <3> HIDE <1>4
    <3> QED  BY <3>1, EnqueuedDelete, ZenonT(30)
  <2>2. o \in Operation
    BY DEF Operation
  <2> HIDE DEF u
  <2> QED  BY <1>4, <2>1, <2>2
<1> HIDE DEF u, o, q
<1>6. CASE removal.step = "clearing"
  <2>1. Len(q) = 1 /\ q[1].batch = removal.batch
    BY <1>1, <1>6 DEF OneFlush
  <2>2. /\ spooler' = Collected(u)
        /\ removal' = [removal EXCEPT !.step = "deleting", !.batch = 0]
    BY <1>2, <1>4, <1>6, <2>1 DEF u
  <2>3. spooler'.mapped = 0 /\ spooler'.queue = Append(Tail(q), o) /\ removal'.step = "deleting"
    BY <1>1, <1>5, <2>2, CollectedParts DEF Removals
  <2>4. Tail(q) = <<>>
    BY <1>1, <1>5, <2>1, QueueShapes
  <2>5. <<>> \in Seq(Operation)
    BY EmptySeq
  <2>6. Tail(q) \in Seq(Operation)
    BY <2>4, <2>5
  <2>7. OneDelete(Append(Tail(q), o), host)
    BY <1>5, <2>4, <2>6, QueueShapes DEF OneDelete
  <2> QED  BY <1>1, <1>3, <2>3, <2>7 DEF Closed
<1>7. CASE removal.step # "clearing"
  <2>1. spooler' = Collected(woken) /\ removal' = removal
    BY <1>4, <1>7
  <2>2. spooler'.mapped = 0 /\ spooler'.queue = Tail(q)
    BY <1>4, <2>1, CollectedParts
  <2>3. ASSUME removal.step = "deleting" PROVE OneDelete(Tail(q), host)
    BY <1>1, <1>2, <1>5, <2>3, QueueShapes DEF OneDelete, q
  <2>4. ASSUME removal.step = "done" PROVE NoFlush(Tail(q), host)
    BY <1>1, <1>5, <2>4, QueueShapes DEF NoFlush, q
  <2> QED  BY <1>1, <1>3, <1>7, <2>1, <2>2, <2>3, <2>4 DEF Closed
<1> QED  BY <1>6, <1>7

LEMMA QueueKeepsClosed ==
  ASSUME LogInv, Queue
  PROVE  Closed'
<1> DEFINE q == spooler.queue
<1>1. /\ Basic /\ removal \in Removals /\ q \in Seq(Operation) /\ Closed
      /\ removal.kind \in {"close", "delete"}
  BY BasicParts DEF LogInv, Removals
<1>2. UNCHANGED service
  BY DEF Queue, PrepareAndAppend, PrepareFails, Commit, CommitFails, DeleteLogs,
         DeleteLogsFails
<1>3. q # <<>> /\ Head(q) = q[1]
  BY <1>1, QueueTail
     DEF Queue, PrepareAndAppend, PrepareFails, Commit, CommitFails, DeleteLogs,
         DeleteLogsFails, At
<1>4. CASE PrepareFails \/ Commit \/ CommitFails
  <2>1. PICK ok \in BOOLEAN : EndFlush(Taken, Head(q).batch, ok)
    BY <1>4 DEF PrepareFails, Commit, CommitFails
  <2>2. Head(q).op # "delete"
    BY <1>4 DEF PrepareFails, Commit, CommitFails, At
  <2>3. CASE Closing
    BY <1>2, <1>3, <2>1, <2>2, <2>3, EndFlushClosed
  <2>4. CASE ~ Closing
    <3>1. \/ removal' = removal
          \/ /\ removal.step = "clearing" /\ removal'.kind = removal.kind
             /\ removal'.step = "deleting"
      BY <1>1, <2>1, RemovalSteps
    <3>2. ~ Closing'
      BY <2>4, <3>1 DEF Closing
    <3> QED  BY <3>2 DEF Closed
  <2> QED  BY <2>3, <2>4
<1>5. CASE PrepareAndAppend
  <2> DEFINE x == [op |-> "commit", batch |-> Head(q).batch, offset |-> StartOffset]
  <2>1. At("prepare") /\ spooler' = Enqueued(Taken, "commit", Head(q).batch, StartOffset)
        /\ removal' = removal
    BY <1>5 DEF PrepareAndAppend
  <2>2. /\ Head(q).batch \in Batches /\ q[1].op = "prepare"
        /\ Taken \in Spooler /\ Taken.mapped = spooler.mapped /\ Taken.queue = Tail(q)
    BY <1>1, <2>1, HeadOfQueue
  <2>3. StartOffset \in Nat
    BY <1>1, BasicParts DEF StartOffset
  <2>4. /\ spooler'.mapped = spooler.mapped /\ spooler'.queue = Append(Tail(q), x)
        /\ x \in Operation /\ x.op = "commit" /\ x.batch = Head(q).batch
    <3> DEFINE t == Enqueued(Taken, "commit", Head(q).batch, StartOffset)
    <3>1. t.mapped = Taken.mapped /\ t.queue = Append(Taken.queue, x)
      <4>1. "commit" \in {"prepare", "commit", "delete"} /\ Head(q).batch \in Batches \cup {0}
            /\ Taken \in Spooler
        BY <2>2
      <4> QED  BY <4>1, <2>3, EnqueuedParts, ZenonT(30)
    <3>2. x \in Operation
      BY <2>2, <2>3 DEF Operation
    <3> HIDE DEF t
    <3> QED  BY <2>1, <2>2, <3>1, <3>2 DEF t
  <2>5. runtime' = runtime /\ host' = host
    BY <1>2 DEF service
  <2> HIDE DEF x, q
  <2>6. Tail(q) \in Seq(Operation)
    BY <1>1, <1>3, QueueTail
  <2>7. ASSUME OneFlush(q) PROVE OneFlush(Append(Tail(q), x))
    <3>1. Tail(q) = <<>> /\ q[1].batch = removal.batch
      BY <1>1, <2>4, <2>7, QueueShapes DEF OneFlush
    <3>2. Len(Append(Tail(q), x)) = 1 /\ Append(Tail(q), x)[1] = x
      BY <2>4, <2>6, <3>1, QueueShapes
    <3> QED  BY <1>3, <2>4, <3>1, <3>2 DEF OneFlush
  <2>8. ASSUME OneDelete(q, host) PROVE OneDelete(Append(Tail(q), x), host)
    <3>1. Len(q) = 2 /\ q[2].op = "delete" /\ host = "disposed"
      BY <2>2, <2>8 DEF OneDelete
    <3>2. Len(Tail(q)) = 1 /\ Tail(q)[1].op = "delete"
      BY <1>1, <2>4, <3>1, QueueShapes
    <3>3. /\ Len(Append(Tail(q), x)) = 2 /\ Append(Tail(q), x)[1].op = "delete"
          /\ Append(Tail(q), x)[2].op = "commit"
      BY <2>4, <2>6, <3>2, QueueShapes
    <3> QED  BY <3>1, <3>3 DEF OneDelete
  <2>9. ~ NoFlush(q, host)
    BY <1>3, <2>2 DEF NoFlush
  <2>10. Closing' = Closing /\ \A y : OneFlush(y)' = OneFlush(y)
    BY <2>1 DEF Closing, OneFlush
  <2> QED  BY <1>1, <2>1, <2>4, <2>5, <2>7, <2>8, <2>9, <2>10 DEF Closed, OneFlush, q
<1>6. CASE DeleteLogs
  <2>1. At("delete") /\ spooler' = Taken /\ removal' = [removal EXCEPT !.step = "done"]
    BY <1>6 DEF DeleteLogs
  <2>2. /\ q[1].op = "delete" /\ removal.step = "deleting"
        /\ Taken.mapped = spooler.mapped /\ Taken.queue = Tail(q)
    BY <1>1, <2>1, HeadOfQueue DEF Deleting
  <2>3. removal'.step = "done" /\ removal'.kind = removal.kind
    BY <1>1, <2>1 DEF Removals
  <2>4. runtime' = runtime /\ host' = host
    BY <1>2 DEF service
  <2>5. ASSUME OneDelete(q, host) PROVE NoFlush(Tail(q), host)
    <3>1. PICK o : o \in Operation
      BY <1>1, <1>3, QueueTail
    <3> HIDE DEF q
    <3> QED  BY <1>1, <2>2, <2>5, <3>1, QueueShapes DEF OneDelete, NoFlush
  <2> QED  BY <1>1, <2>1, <2>2, <2>3, <2>4, <2>5 DEF Closed, Closing
<1>7. CASE DeleteLogsFails
  <2>1. removal'.step = "failed"
    BY <1>1, <1>7 DEF DeleteLogsFails, Removals
  <2> QED  BY <2>1 DEF Closed, Closing
<1> QED
  BY <1>4, <1>5, <1>6, <1>7 DEF Queue

LEMMA StepKeepsClosed ==
  ASSUME LogInv, [Next]_vars
  PROVE  Closed'
<1>1. Basic /\ Removed /\ Closed /\ removal \in Removals /\ spooler \in Spooler
  BY BasicParts DEF LogInv
<1>2. Closing => ~ runtime /\ spooler.mapped = 0
  BY <1>1 DEF Closed
<1>3. ASSUME Closing, NEW c \in Callers
      PROVE  Called(spooler, c).mapped = 0 /\ Called(spooler, c).queue = spooler.queue
  BY <1>1, <1>2, <1>3, CalledUnmapped
<1>4. CASE Output
  BY <1>1, <1>2, <1>4, ClosedStays DEF Output
<1>5. ASSUME NEW b \in Batches, TimerFires(b) PROVE Closed'
  <2> DEFINE t == [spooler EXCEPT !.batch[b].timer = FALSE]
  <2>1. t \in Spooler /\ t.mapped = spooler.mapped /\ t.queue = spooler.queue
    BY <1>1, TimerOffParts
  <2>2. spooler' = Collected(Called(t, "timer")) /\ UNCHANGED <<service, removal>>
    BY <1>5 DEF TimerFires, t
  <2> HIDE DEF t
  <2>3. ASSUME Closing PROVE spooler'.mapped = 0 /\ spooler'.queue = spooler.queue
    <3>1. /\ Called(t, "timer") \in Spooler /\ Called(t, "timer").mapped = 0
          /\ Called(t, "timer").queue = t.queue
      <4>1. "timer" \in Callers
        BY DEF Callers
      <4> QED  BY <1>1, <1>2, <2>1, <2>3, <4>1, CalledUnmapped
    <3> QED  BY <2>1, <2>2, <3>1, CollectedParts
  <2> QED  BY <1>1, <1>2, <2>2, <2>3, ClosedStays DEF service
<1>6. CASE ReadHistory \/ DisposeBegin
  <2>1. PICK c \in Callers : spooler' = Called(spooler, c)
    BY <1>6 DEF ReadHistory, DisposeBegin, Callers
  <2>2. removal' = removal /\ runtime' = runtime /\ (host' = host \/ host # "disposed")
    BY <1>6 DEF ReadHistory, DisposeBegin, service
  <2> QED  BY <1>1, <1>2, <1>3, <2>1, <2>2, ClosedStays
<1>7. CASE RuntimeEnds
  BY <1>1, <1>2, <1>7, ClosedStays DEF RuntimeEnds
<1>8. CASE DisposeEnd
  BY <1>1, <1>2, <1>8, ClosedStays DEF DisposeEnd
<1>9. CASE UNCHANGED vars
  BY <1>1, <1>2, <1>9, ClosedStays DEF vars
<1>10. ASSUME NEW kind \in {"close", "delete"}, BeginRemoval(kind) PROVE Closed'
  <2>1. removal'.step \in {"flushing", "again"}
    BY <1>10 DEF BeginRemoval
  <2> QED  BY <2>1 DEF Closed, Closing
<1>11. CASE AbandonRemoval
  <2>1. removal'.step \in {"failed", "none"}
    BY <1>1, <1>11 DEF AbandonRemoval, Removals
  <2> QED  BY <2>1 DEF Closed, Closing
<1>12. CASE FlushAtExit
  <2>1. removal'.step \in {"flushing", "again"}
    BY <1>12 DEF FlushAtExit, RemovalFlushed
  <2> QED  BY <2>1 DEF Closed, Closing
<1>13. CASE DeleteRow
  <2>1. removal'.step = "taken"
    BY <1>1, <1>13 DEF DeleteRow, Removals
  <2> QED  BY <2>1 DEF Closed, Closing
<1>14. CASE Restart
  <2>1. /\ spooler'.mapped = 0 /\ spooler'.queue = <<>>
        /\ removal'.kind = removal.kind
        /\ removal'.step \in {"none", "failed"}
           \/ (removal'.step = removal.step /\ removal.step \in {"none", "done", "failed"})
        /\ runtime' \in {runtime, FALSE}
    BY <1>1, <1>14 DEF Restart, Removals
  <2>2. ASSUME Closing' PROVE Closing /\ removal'.step = "done"
    BY <2>1, <2>2 DEF Closing
  <2> QED  BY <1>2, <2>1, <2>2 DEF Closed, NoFlush
<1> QED
  BY <1>4, <1>5, <1>6, <1>7, <1>8, <1>9, <1>10, <1>11, <1>12, <1>13, <1>14,
     ClearingCloses, QueueKeepsClosed
     DEF Next, Service

-----------------------------------------------------------------------------
(* What the operators of the spooler do to the log that is kept.            *)

LEMMA CarriesSame ==
  ASSUME NEW s, NEW t, SameBatches(s, t),
         NEW w, NEW a, NEW n, NEW size, Carries(s, w, a, n, size)
  PROVE  Carries(t, w, a, n, size)
BY DEF Carries, SameBatches

LEMMA LiveSame ==
  ASSUME NEW s, NEW t, SameBatches(s, t),
         NEW w, NEW a, NEW n, NEW m, Live(s, w, a, n, m), Promised(t, a + n)
  PROVE  Live(t, w, a, n, m)
BY DEF Live, SameBatches

LEMMA CarriesCollected ==
  ASSUME NEW s \in Spooler, NEW w \in Batches \cup {0}, NEW a, NEW n, NEW size,
         Carries(s, w, a, n, size)
  PROVE  Carries(Collected(s), w, a, n, size)
<1> DEFINE t == Collected(s)
<1>1. /\ t.mapped = s.mapped /\ t.queue = s.queue
      /\ \A b \in Batches : t.batch[b] =
              IF b # s.mapped /\ s.batch[b].inflight = <<>> /\ ~s.batch[b].timer
                THEN NoBatch ELSE s.batch[b]
  BY CollectedParts
<1> HIDE DEF t
<1>2. ASSUME w # 0
      PROVE  /\ t.batch[w].inflight = s.batch[w].inflight
             /\ s.batch[w].timer = FALSE => t.batch[w].timer = FALSE
  <2>1. w \in Batches
    BY <1>2
  <2> QED  BY <1>1, <2>1 DEF NoBatch
<1>3. \A b \in Batches : b # w => t.batch[b] = NoBatch
  BY <1>1 DEF Carries
<1>4. w \in Batches => s.batch[w].timer \in BOOLEAN
  BY DEF Spooler, Batch
<1>5. w \in Batches => t.batch[w].timer \in BOOLEAN
  <2>1. w \in Batches => t.batch[w] = NoBatch \/ t.batch[w] = s.batch[w]
    BY <1>1
  <2>2. NoBatch.timer \in BOOLEAN
    BY DEF NoBatch
  <2> QED  BY <1>4, <2>1, <2>2
<1>6. Carries(t, w, a, n, size)
  BY <1>1, <1>2, <1>3, <1>4, <1>5 DEF Carries
<1> QED  BY <1>6 DEF t

LEMMA LiveCollected ==
  ASSUME NEW s \in Spooler, NEW w \in Batches \cup {0}, NEW a, NEW n, NEW m,
         Live(s, w, a, n, m)
  PROVE  Live(Collected(s), w, a, n, m)
<1> DEFINE t == Collected(s)
<1>1. /\ t.mapped = s.mapped /\ t.call = s.call
      /\ \A b \in Batches : t.batch[b] =
              IF b # s.mapped /\ s.batch[b].inflight = <<>> /\ ~s.batch[b].timer
                THEN NoBatch ELSE s.batch[b]
  BY CollectedParts
<1> HIDE DEF t
<1>2. w \in Batches => t.batch[w] = s.batch[w]
  BY <1>1 DEF Live
<1>3. Live(t, w, a, n, m)
  BY <1>1, <1>2 DEF Live, Promised
<1> QED  BY <1>3 DEF t

(* A spooler out of service drops the batch of the map, or keeps it without *)
(* a timer while it is flushed.                                             *)
LEMMA FlushDead ==
  ASSUME NEW s \in Spooler, NEW w \in Batches \cup {0}, NEW a, NEW n, NEW size,
         Carries(s, w, a, n, size), host = "disposed", NEW c \in Callers
  PROVE  FlushTerminal(s, c) \in Spooler /\ Carries(FlushTerminal(s, c), w, a, n, size)
<1> DEFINE t == Cleared(s)
<1>1. /\ t \in Spooler /\ t.mapped = 0 /\ t.queue = s.queue
      /\ \A b \in Batches : b # s.mapped => t.batch[b] = s.batch[b]
      /\ \A b \in Batches : b = s.mapped => t.batch[b] = [s.batch[b] EXCEPT !.timer = FALSE]
  BY ClearedParts
<1>2. FlushTerminal(s, c) = Returned(t, c)
  BY FlushCases
<1> HIDE DEF t
<1>3. \A b \in Batches : s.batch[b] \in Batch
  BY DEF Spooler
<1>4. \A b \in Batches : t.batch[b].inflight = s.batch[b].inflight
                         /\ (t.batch[b].timer = s.batch[b].timer \/ t.batch[b].timer = FALSE)
  BY <1>1, <1>3 DEF Batch
<1>5. \A b \in Batches : b # w => t.batch[b] = NoBatch
  BY <1>1 DEF Carries, NoBatch
<1>6. Carries(t, w, a, n, size)
  BY <1>1, <1>4, <1>5 DEF Carries
<1>7. Returned(t, c) \in Spooler /\ SameBatches(t, Returned(t, c))
  BY <1>1, ReturnedParts
<1>8. Carries(Returned(t, c), w, a, n, size)
  BY <1>6, <1>7, CarriesSame
<1> QED  BY <1>2, <1>7, <1>8

(* Live, but for the timer, which may have fired.                           *)
Waits(s, w, a, n, m) ==
  /\ s.mapped = w
  /\ w = 0 => m = 0
  /\ w # 0 => Goes(s.batch[w].chunks, a + n, m)
  /\ w # 0 /\ n = 0 => m # 0
  /\ Promised(s, a + n)

(* The same chunks, more or fewer of them under way.                        *)
Divided(n, m, n1, m1) ==
  n1 + m1 = n + m /\ (n1 = 0 \/ m1 = 0 \/ (n1 = n /\ m1 = m))
Split(t, w, a, n, m, size) ==
  \E n1, m1 \in Nat : /\ Divided(n, m, n1, m1)
                      /\ Carries(t, w, a, n1, size) /\ Live(t, w, a, n1, m1)

LEMMA PromisedReturned ==
  ASSUME NEW s \in Spooler, NEW x \in Nat, NEW l \in Nat, x = l + 1,
         CallsFit(s.call, l), NEW c \in Callers, NEW y \in Nat, y <= x, Promised(s, y)
  PROVE  Promised(Returned(s, c), x)
<1> DEFINE t == Returned(s, c)
<1>1. \A d \in Callers : s.call[d].upto <= l /\ s.call[d].upto \in Nat
  BY Numbers DEF CallsFit, Spooler, Call
<1>2. t.call = [s.call EXCEPT ![c] = Over(s, c)] /\ s.call \in [Callers -> Call]
  BY ReturnedParts DEF Spooler
<1>3. Over(s, c).state = "idle" \/ Over(s, c).upto = s.call[c].upto
  BY OverParts
<1> HIDE DEF t
<1>4. Promised(t, x)
  BY <1>1, <1>2, <1>3 DEF Promised
<1> QED  BY <1>4 DEF t

LEMMA PromisedMore ==
  ASSUME NEW s \in Spooler, NEW x \in Nat, NEW y \in Nat, x <= y, Promised(s, x)
  PROVE  Promised(s, y)
<1>1. \A d \in Callers : s.call[d].upto \in Nat
  BY Numbers DEF Spooler, Call
<1> QED  BY <1>1 DEF Promised

LEMMA FlushLive ==
  ASSUME NEW s \in Spooler, NEW w \in Batches \cup {0}, NEW a \in Nat \ {0},
         NEW n \in Nat, NEW m \in Nat, NEW size,
         Carries(s, w, a, n, size), Waits(s, w, a, n, m),
         NEW l \in Nat, a + n + m = l + 1, CallsFit(s.call, l),
         host # "disposed", NEW c \in Callers
  PROVE  FlushTerminal(s, c) \in Spooler /\ Split(FlushTerminal(s, c), w, a, n, m, size)
<1>1. ASSUME w # 0
      PROVE  /\ w \in Batches /\ s.batch[w] \in Batch
             /\ (n = 0 <=> s.batch[w].inflight = <<>>)
             /\ (m = 0 <=> s.batch[w].chunks = <<>>)
  <2>1. w \in Batches /\ s.batch[w] \in Batch
    BY <1>1 DEF Spooler
  <2>2. Goes(s.batch[w].inflight, a, n) /\ Goes(s.batch[w].chunks, a + n, m)
    BY <1>1 DEF Carries, Waits
  <2>3. s.batch[w].inflight \in Seq(Chunks) /\ s.batch[w].chunks \in Seq(Chunks)
    BY <2>1 DEF Batch
  <2>4. n = 0 <=> s.batch[w].inflight = <<>>
    BY <2>2, <2>3, GoesEmpty
  <2>5. m = 0 <=> s.batch[w].chunks = <<>>
    BY <2>2, <2>3, GoesEmpty
  <2> QED  BY <2>1, <2>4, <2>5
<1>2. s.mapped = w /\ Promised(s, a + n)
  BY DEF Waits
<1>3. CASE w = 0
  <2>1. n = 0 /\ m = 0
    BY <1>3 DEF Carries, Waits
  <2>2. FlushTerminal(s, c) = Returned(s, c)
    BY <1>2, <1>3, NotABatch, FlushCases
  <2>3. Returned(s, c) \in Spooler /\ SameBatches(s, Returned(s, c))
    BY ReturnedParts
  <2>4. Promised(Returned(s, c), a + n)
    BY <1>2, <2>1, PromisedReturned
  <2>5. Carries(Returned(s, c), w, a, n, size)
    BY <2>3, CarriesSame
  <2>6. Live(s, w, a, n, m)
    BY <1>3 DEF Live, Waits
  <2>7. Live(Returned(s, c), w, a, n, m)
    BY <2>3, <2>4, <2>6, LiveSame
  <2> QED  BY <2>2, <2>3, <2>5, <2>7 DEF Split, Divided
<1>4. CASE w # 0 /\ n # 0
  <2>1. FlushTerminal(s, c) = Awaits(s, c, "other", w)
    BY <1>1, <1>2, <1>4, FlushCases
  <2> DEFINE t == Awaits(s, c, "other", w)
  <2>2. t \in Spooler /\ SameBatches(s, t) /\ t.call[c].state = "other"
    BY <1>1, <1>4, AwaitsParts
  <2>3. \A d \in Callers : d # c => t.call[d] = s.call[d]
    BY <1>1, <1>4, AwaitsParts
  <2> HIDE DEF t
  <2>4. Promised(t, a + n)
    BY <1>2, <2>2, <2>3 DEF Promised
  <2>5. Carries(t, w, a, n, size)
    BY <2>2, CarriesSame
  <2>6. Live(s, w, a, n, m)
    BY <1>4 DEF Live, Waits
  <2>7. Live(t, w, a, n, m)
    BY <2>2, <2>4, <2>6, LiveSame
  <2> QED  BY <2>1, <2>2, <2>5, <2>7 DEF Split, Divided, t
<1>5. CASE w # 0 /\ n = 0
  <2>1. m # 0 /\ w \in Batches
    BY <1>1, <1>5 DEF Waits
  <2>2. FlushTerminal(s, c) = Takes(s, c, w)
    BY <1>1, <1>2, <1>5, <2>1, FlushCases
  <2> DEFINE t == Takes(s, c, w)
             o == [op |-> "prepare", batch |-> w, offset |-> 0]
  <2>3. t \in Spooler /\ t.mapped = s.mapped /\ t.queue = Append(s.queue, o)
    BY <2>1, TakesParts
  <2>4. /\ \A x \in Batches : x # w => t.batch[x] = s.batch[x]
        /\ t.batch[w].chunks = <<>> /\ t.batch[w].timer = FALSE
        /\ t.batch[w].inflight = s.batch[w].chunks
    BY <2>1, TakesParts
  <2>5. /\ \A d \in Callers : d # c => t.call[d] = s.call[d]
        /\ t.call[c].upto = s.call[c].upto
    BY <2>1, TakesParts
  <2> HIDE DEF t
  <2>6. o \in Operation /\ s.queue = <<>> /\ s.queue \in Seq(Operation)
    BY <1>5, <2>1 DEF Operation, Carries, Spooler
  <2>7. o.op = "prepare" /\ o.batch = w
    OBVIOUS
  <2> HIDE DEF o
  <2>8. Len(t.queue) = 1 /\ t.queue[1] = o
    BY <2>3, <2>6, QueueShapes
  <2>9. Goes(t.batch[w].inflight, a, m) /\ Goes(t.batch[w].chunks, a + m, 0)
    <3>1. Goes(s.batch[w].chunks, a + n, m) /\ a + n = a
      BY <1>5 DEF Waits
    <3> QED  BY <2>4, <3>1, EmptyGoes
  <2>10. Carries(t, w, a, m, size)
    BY <1>2, <1>5, <2>1, <2>3, <2>4, <2>7, <2>8, <2>9 DEF Carries
  <2>11. Promised(t, a + m)
    <3>1. \A d \in Callers : s.call[d].upto <= l /\ s.call[d].upto \in Nat
      BY Numbers DEF CallsFit, Spooler, Call
    <3>2. \A d \in Callers : t.call[d].upto = s.call[d].upto
      BY <2>5
    <3>3. a + m = l + 1
      BY <1>5
    <3>4. \A d \in Callers : t.call[d].upto < a + m
      BY <3>1, <3>2, <3>3
    <3> QED  BY <3>4 DEF Promised
  <2>12. Live(t, w, a, m, 0)
    BY <1>2, <2>1, <2>3, <2>9, <2>11 DEF Live
  <2>13. Divided(n, m, m, 0)
    BY <1>5 DEF Divided
  <2> QED  BY <2>2, <2>3, <2>10, <2>12, <2>13 DEF Split, t
<1> QED  BY <1>3, <1>4, <1>5

LEMMA AskedWaits ==
  ASSUME NEW s \in Spooler, NEW w, NEW a, NEW n, NEW m,
         Waits(s, w, a, n, m), Len(output) \in 0..MaxChunks, NEW c \in Callers
  PROVE  Waits(Asked(s, c), w, a, n, m)
<1> DEFINE t == Asked(s, c)
<1>1. SameBatches(s, t) /\ t.call[c].state = "idle"
  BY AskedParts
<1>2. \A x \in Callers : x # c => t.call[x] = s.call[x]
  BY AskedParts
<1> HIDE DEF t
<1>3. Waits(t, w, a, n, m)
  BY <1>1, <1>2 DEF Waits, Promised, SameBatches
<1> QED  BY <1>3 DEF t

LEMMA AskedFits ==
  ASSUME NEW s \in Spooler, NEW l \in Nat, CallsFit(s.call, l),
         Len(output) \in 0..MaxChunks, Len(output) <= l, NEW c \in Callers
  PROVE  CallsFit(Asked(s, c).call, l)
<1> DEFINE t == Asked(s, c)
<1>1. t.call[c].upto = Len(output)
  BY AskedParts
<1>2. \A x \in Callers : x # c => t.call[x] = s.call[x]
  BY AskedParts
<1> HIDE DEF t
<1>3. CallsFit(t.call, l)
  BY <1>1, <1>2 DEF CallsFit
<1> QED  BY <1>3 DEF t

(* A call of flushTerminal, in service and out of it.                       *)
LEMMA CalledLive ==
  ASSUME NEW s \in Spooler, NEW w \in Batches \cup {0}, NEW a \in Nat \ {0},
         NEW n \in Nat, NEW m \in Nat, NEW size,
         Carries(s, w, a, n, size), Waits(s, w, a, n, m),
         Len(output) \in 0..MaxChunks, a + n + m = Len(output) + 1,
         CallsFit(s.call, Len(output)),
         host # "disposed", NEW c \in Callers
  PROVE  Called(s, c) \in Spooler /\ Split(Called(s, c), w, a, n, m, size)
<1> DEFINE t == Asked(s, c)
           l == Len(output)
<1>1. t \in Spooler /\ SameBatches(s, t) /\ Called(s, c) = FlushTerminal(t, c)
  BY AskedParts
<1>2. Carries(t, w, a, n, size)
  BY <1>1, CarriesSame
<1>3. Waits(t, w, a, n, m)
  BY AskedWaits
<1>4. l \in Nat /\ l <= l /\ a + n + m = l + 1
  BY Numbers
<1>5. CallsFit(t.call, l)
  BY <1>4, AskedFits
<1> HIDE DEF t, l
<1>6. FlushTerminal(t, c) \in Spooler /\ Split(FlushTerminal(t, c), w, a, n, m, size)
  BY <1>1, <1>2, <1>3, <1>4, <1>5, FlushLive
<1> QED  BY <1>1, <1>6

LEMMA CalledDead ==
  ASSUME NEW s \in Spooler, NEW w \in Batches \cup {0}, NEW a, NEW n, NEW size,
         Carries(s, w, a, n, size), host = "disposed", NEW c \in Callers,
         Len(output) \in 0..MaxChunks
  PROVE  Called(s, c) \in Spooler /\ Carries(Called(s, c), w, a, n, size)
<1> DEFINE t == Asked(s, c)
<1>1. t \in Spooler /\ SameBatches(s, t) /\ Called(s, c) = FlushTerminal(t, c)
  BY AskedParts
<1>2. Carries(t, w, a, n, size)
  BY <1>1, CarriesSame
<1> HIDE DEF t
<1> QED  BY <1>1, <1>2, FlushDead

LEMMA SplitCollected ==
  ASSUME NEW s \in Spooler, NEW w \in Batches \cup {0}, NEW a, NEW n, NEW m, NEW size,
         Split(s, w, a, n, m, size)
  PROVE  Split(Collected(s), w, a, n, m, size)
<1>1. PICK n1 \in Nat, m1 \in Nat :
        Divided(n, m, n1, m1) /\ Carries(s, w, a, n1, size) /\ Live(s, w, a, n1, m1)
  BY DEF Split
<1>2. Carries(Collected(s), w, a, n1, size)
  BY <1>1, CarriesCollected
<1>3. Live(Collected(s), w, a, n1, m1)
  BY <1>1, LiveCollected
<1> QED  BY <1>1, <1>2, <1>3 DEF Split

(* The end of a flush of w: what the woken calls find, and leave.           *)
Resting(l, w, a, k, size) ==
  {t \in Spooler : Sound(t, Deleting, l) /\ Split(t, w, a, 0, k, size)}

LEMMA ResumedLive ==
  ASSUME NEW b \in Batches, NEW w \in {0, b}, NEW a \in Nat \ {0}, NEW k \in Nat,
         NEW size, NEW l \in Nat, a + k = l + 1,
         host # "disposed", NEW t \in Resting(l, w, a, k, size), NEW c \in Callers
  PROVE  Resumed(t, c, b) \in Resting(l, w, a, k, size)
<1>1. t \in Spooler /\ Sound(t, Deleting, l) /\ Split(t, w, a, 0, k, size)
      /\ w \in Batches \cup {0} /\ CallsFit(t.call, l)
  BY DEF Resting, Sound
<1>2. PICK n \in Nat, m \in Nat :
        Divided(0, k, n, m) /\ Carries(t, w, a, n, size) /\ Live(t, w, a, n, m)
  BY <1>1 DEF Split
<1>3. n + m = k /\ a + n + m = l + 1 /\ (n = 0 \/ m = 0)
  BY <1>2 DEF Divided
<1>4. Waits(t, w, a, n, m)
  BY <1>2 DEF Live, Waits
<1>5. Sound(Resumed(t, c, b), Deleting, l)
  BY <1>1, SoundResumed
<1>6. CASE t.batch[b].chunks = <<>>
  <2> DEFINE u == Returned(t, c)
  <2>1. Resumed(t, c, b) = u
    BY <1>6 DEF Resumed
  <2>2. u \in Spooler /\ SameBatches(t, u)
    BY <1>1, ReturnedParts
  <2>4. m = 0
    <3>1. CASE w = 0
      BY <1>2, <3>1 DEF Live
    <3>2. CASE w # 0
      <4>1. w = b /\ Goes(t.batch[b].chunks, a + n, m)
        BY <1>2, <3>2 DEF Live
      <4>2. t.batch[b].chunks \in Seq(Chunks)
        BY <1>1 DEF Spooler, Batch
      <4> QED  BY <1>6, <4>1, <4>2, GoesEmpty
    <3> QED  BY <3>1, <3>2
  <2>5. Promised(u, a + n)
    <3>1. Promised(t, a + n) /\ a + n \in Nat /\ a + n = l + 1 /\ a + n <= a + n
      BY <1>2, <1>3, <2>4 DEF Live
    <3> QED  BY <1>1, <3>1, PromisedReturned
  <2> HIDE DEF u
  <2>6. Carries(u, w, a, n, size) /\ Live(u, w, a, n, m)
    BY <1>2, <2>2, <2>5, CarriesSame, LiveSame
  <2>7. Split(u, w, a, 0, k, size)
    BY <1>2, <2>6 DEF Split
  <2> QED  BY <1>5, <2>1, <2>2, <2>7 DEF Resting
<1>7. CASE t.batch[b].chunks # <<>>
  <2> DEFINE u == FlushTerminal(t, c)
  <2>1. Resumed(t, c, b) = u
    BY <1>7 DEF Resumed
  <2>2. u \in Spooler /\ Split(u, w, a, n, m, size)
    BY <1>1, <1>2, <1>3, <1>4, FlushLive
  <2> HIDE DEF u
  <2>4. PICK n1 \in Nat, m1 \in Nat :
          Divided(n, m, n1, m1) /\ Carries(u, w, a, n1, size) /\ Live(u, w, a, n1, m1)
    BY <2>2 DEF Split
  <2>5. Divided(0, k, n1, m1)
    BY <1>3, <2>4 DEF Divided
  <2>6. Split(u, w, a, 0, k, size)
    BY <2>4, <2>5 DEF Split
  <2> QED  BY <1>5, <2>1, <2>2, <2>6 DEF Resting
<1> QED  BY <1>6, <1>7

(* In service, what is left of w waits again under a timer, or w leaves the *)
(* map.                                                                     *)
LEMMA EndsLive ==
  ASSUME NEW s \in Spooler, NEW b \in Batches, NEW a \in Nat \ {0}, NEW n \in Nat \ {0},
         NEW m \in Nat, NEW size, NEW old,
         Carries(spooler, b, a, n, old), Live(spooler, b, a, n, m), spooler \in Spooler,
         s.batch = spooler.batch, s.mapped = spooler.mapped, s.call = spooler.call,
         s.queue = <<>>,
         NEW l \in Nat, Sound(s, Deleting, l), host # "disposed", NEW ok \in BOOLEAN,
         NEW k, k = IF ok THEN m ELSE n + m,
         NEW a1, a1 = IF ok THEN a + n ELSE a,
         NEW w, w = IF k = 0 THEN 0 ELSE b
  PROVE  Ends(s, b, ok) \in Resting(l, w, a1, k, size)
<1> DEFINE x == Marked(s, ok)
           e == Ended(x, b, ok)
           t == Settled(x, b, ok)
           u == Owned(t, b)
<1>1. /\ Goes(s.batch[b].inflight, a, n) /\ Goes(s.batch[b].chunks, a + n, m)
      /\ s.mapped = b /\ ~s.batch[b].timer /\ Promised(s, a + n)
      /\ \A y \in Batches : y # b => s.batch[y] = NoBatch
  BY NotABatch DEF Carries, Live, Promised
<1>2. /\ s.batch[b] \in Batch /\ s.batch[b].timer = FALSE
      /\ s.batch[b].inflight \in Seq(Chunks) /\ s.batch[b].chunks \in Seq(Chunks)
  BY <1>1 DEF Spooler, Batch
<1>3. x \in Spooler /\ SameBatches(s, x)
  BY MarkedParts
<1>4. \A c \in Callers : x.call[c].ok => s.call[c].ok /\ (s.call[c].state = "idle" \/ ok)
  BY MarkedParts
<1>5. \A c \in Callers : /\ x.call[c].state = s.call[c].state
                         /\ x.call[c].upto = s.call[c].upto
  BY MarkedParts
<1> HIDE DEF x
<1>6. x.batch = s.batch /\ x.mapped = b /\ x.queue = <<>>
  BY <1>1, <1>3 DEF SameBatches
<1>7. LeftOf(x, b, ok) = IF ok THEN s.batch[b].chunks ELSE s.batch[b].inflight \o s.batch[b].chunks
  BY <1>6 DEF LeftOf
<1>8. Goes(LeftOf(x, b, ok), a1, k) /\ LeftOf(x, b, ok) \in Seq(Chunks)
  <2>1. LeftOf(x, b, ok) \in Seq(Chunks)
    BY <1>3, EndedParts
  <2>2. CASE ok
    BY <1>1, <1>7, <2>1, <2>2
  <2>3. CASE ~ ok
    <3>1. Goes(s.batch[b].inflight \o s.batch[b].chunks, a, n + m)
      BY <1>1, <1>2, GoesConcat
    <3> QED  BY <1>7, <2>1, <2>3, <3>1
  <2> QED  BY <2>2, <2>3
<1>9. k \in Nat /\ a1 \in Nat \ {0} /\ (k = 0 <=> LeftOf(x, b, ok) = <<>>)
  <2>1. k = 0 <=> LeftOf(x, b, ok) = <<>>
    BY <1>8, GoesEmpty
  <2> QED  BY <2>1
<1>10. /\ e \in Spooler /\ e.mapped = b /\ e.queue = <<>> /\ e.call = x.call
       /\ \A y \in Batches : y # b => e.batch[y] = NoBatch
       /\ e.batch[b].chunks = LeftOf(x, b, ok) /\ e.batch[b].timer = FALSE
       /\ e.batch[b].inflight = <<>>
  <2>1. /\ e \in Spooler /\ e.mapped = x.mapped /\ e.queue = x.queue /\ e.call = x.call
        /\ \A y \in Batches : y # b => e.batch[y] = x.batch[y]
    BY <1>3, EndedParts
  <2>2. /\ e.batch[b].chunks = LeftOf(x, b, ok) /\ e.batch[b].timer = x.batch[b].timer
        /\ e.batch[b].inflight = <<>>
    BY <1>3, EndedParts
  <2> HIDE DEF e
  <2> QED  BY <1>1, <1>2, <1>6, <2>1, <2>2
<1>11. \/ LeftOf(x, b, ok) # <<>> /\ t = Scheduled(e)
       \/ LeftOf(x, b, ok) = <<>> /\ t = [e EXCEPT !.mapped = 0]
  <2>1. x.batch[b].timer = FALSE
    BY <1>2, <1>6
  <2> QED  BY <1>3, <2>1, SettledCases
<1> HIDE DEF e, t
<1>12. /\ t \in Spooler /\ t.queue = <<>> /\ t.call = x.call /\ t.mapped = w
       /\ Carries(t, w, a1, 0, size)
       /\ w # 0 => Goes(t.batch[w].chunks, a1 + 0, k) /\ k # 0 /\ t.batch[w].timer
  <2>1. CASE k # 0
    <3>1. t = Scheduled(e) /\ w = b /\ w # 0
      BY <1>9, <1>11, <2>1, NotABatch
    <3>2. /\ t \in Spooler /\ t.mapped = b /\ t.queue = <<>> /\ t.call = x.call
          /\ \A y \in Batches : y # b => t.batch[y] = NoBatch
          /\ t.batch[b] = [e.batch[b] EXCEPT !.timer = TRUE]
      BY <1>10, <3>1, ScheduledParts
    <3>3. t.batch[b].chunks = LeftOf(x, b, ok) /\ t.batch[b].inflight = <<>>
          /\ t.batch[b].timer = TRUE
      <4>1. e.batch[b] \in Batch
        BY <1>10 DEF Spooler
      <4> QED  BY <1>10, <3>2, <4>1 DEF Batch
    <3>4. Goes(t.batch[b].inflight, a1, 0) /\ a1 + 0 = a1
      BY <1>9, <3>3, EmptyGoes
    <3>5. Carries(t, w, a1, 0, size)
      BY <3>1, <3>2, <3>4 DEF Carries
    <3> QED  BY <1>8, <2>1, <3>1, <3>2, <3>3, <3>4, <3>5
  <2>2. CASE k = 0
    <3>1. t = [e EXCEPT !.mapped = 0] /\ w = 0
      BY <1>9, <1>11, <2>2
    <3>2. t \in Spooler /\ t.mapped = 0 /\ t.queue = <<>> /\ t.call = x.call /\ t.batch = e.batch
      BY <1>10, <3>1, UnmappedParts
    <3>3. e.batch[b] = NoBatch
      <4>1. e.batch[b] \in [chunks: Seq(Chunks), timer: BOOLEAN, inflight: Seq(Chunks)]
        BY <1>10 DEF Spooler, Batch
      <4>2. e.batch[b].chunks = <<>> /\ e.batch[b].timer = FALSE /\ e.batch[b].inflight = <<>>
        BY <1>9, <1>10, <2>2
      <4> QED  BY <4>1, <4>2 DEF NoBatch
    <3>4. Carries(t, w, a1, 0, size)
      BY <1>10, <3>1, <3>2, <3>3 DEF Carries
    <3> QED  BY <3>1, <3>2, <3>4
  <2> QED  BY <2>1, <2>2
<1>13. u \in Spooler /\ SameBatches(t, u)
  BY <1>12, OwnedParts
<1>14. \A c \in Callers : u.call[c] = IF c \in Waiting(t, b, "own") THEN Over(t, c) ELSE t.call[c]
  BY <1>12, OwnedParts
<1> HIDE DEF u
<1>15. Promised(u, a1 + 0)
  <2> SUFFICES ASSUME NEW c \in Callers, u.call[c].ok, u.call[c].state \in {"own", "returned"}
               PROVE  u.call[c].upto < a1 + 0
    BY DEF Promised
  <2>1. /\ t.call[c].ok /\ t.call[c].state \in {"own", "returned"}
        /\ u.call[c].upto = t.call[c].upto
    <3>1. CASE c \in Waiting(t, b, "own")
      <4>1. u.call[c] = Over(t, c) /\ t.call[c].state = "own"
        BY <1>14, <3>1 DEF Waiting
      <4>2. Over(t, c).state = "idle" \/ Over(t, c).upto = t.call[c].upto
        BY <1>12, OverParts
      <4>3. Over(t, c).state = "idle" \/ Over(t, c).ok = t.call[c].ok
        BY <1>12, OverParts
      <4> QED  BY <4>1, <4>2, <4>3
    <3>2. CASE c \notin Waiting(t, b, "own")
      BY <1>14, <3>2
    <3> QED  BY <3>1, <3>2
  <2>2. ok /\ s.call[c].ok /\ s.call[c].state \in {"own", "returned"}
        /\ u.call[c].upto = s.call[c].upto
    BY <1>4, <1>5, <1>12, <2>1
  <2>3. s.call[c].upto < a + n
    BY <1>1, <2>2 DEF Promised
  <2>4. a1 + 0 = a + n
    BY <2>2
  <2> QED  BY <2>2, <2>3, <2>4
<1>16. Carries(u, w, a1, 0, size)
  BY <1>12, <1>13, CarriesSame
<1>17. Live(u, w, a1, 0, k)
  <2>1. u.mapped = w /\ u.batch = t.batch /\ (w = 0 => k = 0)
    BY <1>12, <1>13, NotABatch DEF SameBatches
  <2>2. ASSUME w # 0
        PROVE  Goes(u.batch[w].chunks, a1 + 0, k) /\ k # 0 /\ u.batch[w].timer
    BY <1>12, <2>1, <2>2
  <2> QED  BY <1>15, <2>1, <2>2 DEF Live
<1>18. Divided(0, k, 0, k)
  BY DEF Divided
<1>19. Sound(u, Deleting, l)
  <2>1. Ends(s, b, ok) = u
    BY DEF Ends, u, t, x
  <2> QED  BY <2>1, SoundEnds
<1>20. Split(u, w, a1, 0, k, size)
  BY <1>9, <1>16, <1>17, <1>18 DEF Split
<1>21. u \in Resting(l, w, a1, k, size)
  BY <1>13, <1>19, <1>20 DEF Resting
<1> QED  BY <1>21 DEF Ends, u, t, x

RestingDead(l, w, a, size) ==
  {t \in Spooler : Sound(t, Deleting, l) /\ Carries(t, w, a, 0, size)}

LEMMA ResumedDead ==
  ASSUME NEW b \in Batches, NEW w \in Batches \cup {0}, NEW a, NEW size, NEW l \in Nat,
         host = "disposed", NEW t \in RestingDead(l, w, a, size), NEW c \in Callers
  PROVE  Resumed(t, c, b) \in RestingDead(l, w, a, size)
<1>1. t \in Spooler /\ Sound(t, Deleting, l) /\ Carries(t, w, a, 0, size)
  BY DEF RestingDead
<1>2. Sound(Resumed(t, c, b), Deleting, l)
  BY <1>1, SoundResumed
<1>3. Returned(t, c) \in Spooler /\ SameBatches(t, Returned(t, c))
  BY <1>1, ReturnedParts
<1>4. Carries(Returned(t, c), w, a, 0, size)
  BY <1>1, <1>3, CarriesSame
<1>5. FlushTerminal(t, c) \in Spooler /\ Carries(FlushTerminal(t, c), w, a, 0, size)
  BY <1>1, FlushDead
<1> QED  BY <1>2, <1>3, <1>4, <1>5 DEF Resumed, RestingDead

LEMMA EndsDead ==
  ASSUME NEW s \in Spooler, NEW b \in Batches, NEW a, NEW n, n # 0, NEW size, NEW old,
         Carries(spooler, b, a, n, old),
         s.batch = spooler.batch, s.mapped = spooler.mapped, s.queue = <<>>,
         NEW l \in Nat, Sound(s, Deleting, l), host = "disposed", NEW ok \in BOOLEAN
  PROVE  Ends(s, b, ok) \in RestingDead(l, b, a, size)
<1> DEFINE x == Marked(s, ok)
           e == Ended(x, b, ok)
           t == Settled(x, b, ok)
           u == Owned(t, b)
<1>1. \A y \in Batches : y # b => s.batch[y] = NoBatch
  BY DEF Carries
<1>2. x \in Spooler /\ x.batch = s.batch /\ x.queue = <<>>
  BY MarkedParts DEF SameBatches
<1>3. x.batch[b].timer = FALSE
  <2>1. ~s.batch[b].timer
    BY DEF Carries
  <2>2. s.batch[b].timer \in BOOLEAN
    BY DEF Spooler, Batch
  <2> QED  BY <1>2, <2>1, <2>2
<1> HIDE DEF x
<1>4. /\ e \in Spooler /\ e.queue = x.queue
      /\ \A y \in Batches : y # b => e.batch[y] = x.batch[y]
  BY <1>2, EndedParts
<1>5. e.batch[b].inflight = <<>>
  BY <1>2, EndedParts
<1>6. t = [e EXCEPT !.mapped = 0]
  BY <1>2, <1>3, SettledCases
<1> HIDE DEF e, t
<1>7. t \in Spooler /\ t.mapped = 0 /\ t.queue = <<>> /\ t.batch = e.batch
  BY <1>2, <1>4, <1>6, UnmappedParts
<1>8. u \in Spooler /\ SameBatches(t, u)
  BY <1>7, OwnedParts
<1>9. Carries(t, b, a, 0, size)
  <2>1. Goes(t.batch[b].inflight, a, 0)
    BY <1>5, <1>7, EmptyGoes
  <2> QED  BY <1>1, <1>2, <1>4, <1>7, <2>1 DEF Carries
<1> HIDE DEF u
<1>10. Carries(u, b, a, 0, size)
  BY <1>8, <1>9, CarriesSame
<1>11. Sound(u, Deleting, l)
  <2>1. Ends(s, b, ok) = u
    BY DEF Ends, u, t, x
  <2> QED  BY <2>1, SoundEnds
<1>12. u \in RestingDead(l, b, a, size)
  BY <1>8, <1>10, <1>11 DEF RestingDead
<1> QED  BY <1>12 DEF Ends, u, t, x

(* What is left of the flushed batch, after the flush.                      *)
Rests(t, a, k, size) ==
  \E w \in Batches \cup {0}, n, m \in Nat :
    /\ Divided(0, k, n, m) /\ Carries(t, w, a, n, size)
    /\ IF host = "disposed" THEN n = 0 ELSE Live(t, w, a, n, m)

(* After a flush: the number of chunks that are left, and the first.        *)
Remaining(n, m, ok) == IF ok THEN m ELSE n + m
FirstLeft(a, n, ok) == IF ok THEN a + n ELSE a

LEMMA EndFlushRests ==
  ASSUME NEW s \in Spooler, NEW b \in Batches, NEW a \in Nat \ {0}, NEW n \in Nat \ {0},
         NEW m \in Nat, NEW size, NEW old,
         Carries(spooler, b, a, n, old), host # "disposed" => Live(spooler, b, a, n, m),
         spooler \in Spooler,
         s.batch = spooler.batch, s.mapped = spooler.mapped, s.call = spooler.call,
         s.queue = <<>>,
         NEW l \in Nat, Sound(s, Deleting, l), a + n + m = l + 1,
         NEW ok \in BOOLEAN, EndFlush(s, b, ok), removal.step # "clearing",
         NEW k, k = Remaining(n, m, ok),
         NEW a1, a1 = FirstLeft(a, n, ok)
  PROVE  Rests(spooler', a1, k, size) /\ removal' = removal
<1>0. k = (IF ok THEN m ELSE n + m) /\ a1 = (IF ok THEN a + n ELSE a)
  BY DEF Remaining, FirstLeft
<1>1. k \in Nat /\ a1 \in Nat \ {0} /\ a1 + k = l + 1
  BY <1>0
<1>2. CASE host # "disposed"
  <2> DEFINE w == IF k = 0 THEN 0 ELSE b
             T == Resting(l, w, a1, k, size)
  <2>1. w \in {0, b} /\ w \in Batches \cup {0}
    OBVIOUS
  <2>2. Ends(s, b, ok) \in T
    BY <1>0, <1>2, EndsLive
  <2> HIDE DEF w
  <2>3. \A t \in T, c \in Callers : Resumed(t, c, b) \in T
    BY <1>1, <1>2, <2>1, ResumedLive
  <2> HIDE DEF T
  <2>4. PICK woken \in T :
           IF removal.step = "clearing" /\ removal.batch = b
             THEN /\ spooler' = Collected(Enqueued(woken, "delete", 0, 0))
                  /\ removal' = [removal EXCEPT !.step = "deleting", !.batch = 0]
             ELSE spooler' = Collected(woken) /\ removal' = removal
    BY <2>2, <2>3, EndFlushIn
  <2>5. spooler' = Collected(woken) /\ removal' = removal
    BY <2>4
  <2>6. woken \in Spooler /\ Split(woken, w, a1, 0, k, size)
    BY DEF T, Resting
  <2>7. Split(spooler', w, a1, 0, k, size)
    BY <2>1, <2>5, <2>6, SplitCollected
  <2>8. Rests(spooler', a1, k, size)
    BY <1>2, <2>1, <2>7 DEF Rests, Split
  <2> QED  BY <2>5, <2>8
<1>3. CASE host = "disposed"
  <2> DEFINE T == RestingDead(l, b, a, size)
  <2>2. Ends(s, b, ok) \in T
    BY <1>3, EndsDead
  <2>3. \A t \in T, c \in Callers : Resumed(t, c, b) \in T
    BY <1>3, ResumedDead
  <2> HIDE DEF T
  <2>4. PICK woken \in T :
           IF removal.step = "clearing" /\ removal.batch = b
             THEN /\ spooler' = Collected(Enqueued(woken, "delete", 0, 0))
                  /\ removal' = [removal EXCEPT !.step = "deleting", !.batch = 0]
             ELSE spooler' = Collected(woken) /\ removal' = removal
    BY <2>2, <2>3, EndFlushIn
  <2>5. spooler' = Collected(woken) /\ removal' = removal
    BY <2>4
  <2>6. woken \in Spooler /\ Carries(woken, b, a, 0, size)
    BY DEF T, RestingDead
  <2>7. Carries(spooler', b, a, 0, size)
    BY <2>5, <2>6, CarriesCollected
  <2>8. Carries(spooler', b, a1, 0, size)
    <3>1. Len(spooler'.batch[b].inflight) = 0 /\ b # 0
      BY <2>7, NotABatch DEF Carries, Goes
    <3>2. Goes(spooler'.batch[b].inflight, a1, 0)
      BY <3>1, EmptyInterval DEF Goes
    <3> QED  BY <2>7, <3>2 DEF Carries
  <2>9. Divided(0, k, 0, k)
    BY <1>1 DEF Divided
  <2>10. Rests(spooler', a1, k, size)
    BY <1>1, <1>3, <2>8, <2>9 DEF Rests
  <2> QED  BY <2>5, <2>10
<1> QED  BY <1>2, <1>3

-----------------------------------------------------------------------------
(* What the steps do to the index.                                          *)

LEMMA SegmentParts ==
  ASSUME Basic, Chain, NEW i \in DOMAIN segments
  PROVE  \E f, l \in Nat \ {0} :
           /\ Links(i, f, l) /\ segments[i].chunks[1] = f /\ Len(segments[i].chunks) = l
           /\ f \in DOMAIN output /\ f \in 1..Len(output) /\ f + l - 1 <= Len(output)
<1>1. PICK f \in Nat \ {0}, l \in Nat \ {0} : Links(i, f, l)
  BY DEF Chain
<1>2. f + l - 1 <= Len(output) /\ Goes(segments[i].chunks, f, l)
  BY <1>1 DEF Links
<1>3. 1 \in 1..l /\ Len(segments[i].chunks) = l
      /\ \A k \in 1..l : segments[i].chunks[k] = f + k - 1
  BY <1>2 DEF Goes
<1>4. segments[i].chunks[1] = f + 1 - 1
  BY <1>3
<1>5. DOMAIN output = 1..Len(output) /\ Len(output) \in Nat
  BY BasicParts, LenProperties
<1> QED  BY <1>1, <1>2, <1>3, <1>4, <1>5

LEMMA ChainStays ==
  ASSUME Chain, UNCHANGED <<output, segments>>
  PROVE  Chain'
BY DEF Chain, Links

LEMMA CoveredStays ==
  ASSUME NEW a, Covered(a), UNCHANGED <<output, run, segments>>
  PROVE  Covered(a)'
BY DEF Covered, Indexed

LEMMA LinkedStays ==
  ASSUME Basic, NEW a \in Nat, NEW n \in Nat, NEW m \in Nat, Linked(a, n, m),
         NEW n1 \in Nat, NEW m1 \in Nat, Divided(n, m, n1, m1),
         Chain, UNCHANGED <<output, cursor, run, segments>>, record'.size = record.size
  PROVE  Linked(a, n1, m1)'
<1>1. a + n1 + m1 = Len(output) + 1
  <2>1. a + n + m = Len(output) + 1
    BY DEF Linked
  <2> QED  BY <2>1 DEF Divided
<1>2. (IF n = 0 THEN m ELSE n) <= (IF n1 = 0 THEN m1 ELSE n1)
  BY DEF Divided
<1>3. LastOfThisRun' = LastOfThisRun
  BY DEF LastOfThisRun
<1>4. ASSUME LastOfThisRun
      PROVE  LET p == Last(segments)
             IN  \/ /\ a = p.chunks[1] + Len(p.chunks)
                    /\ record.size = p.offset + Len(p.chunks)
                 \/ /\ a = p.chunks[1] /\ record.size = p.offset
                    /\ Len(p.chunks) <= IF n1 = 0 THEN m1 ELSE n1
  <2> DEFINE p == Last(segments)
             l == Len(p.chunks)
             x == IF n = 0 THEN m ELSE n
             y == IF n1 = 0 THEN m1 ELSE n1
  <2>1. \/ /\ a = p.chunks[1] + l
           /\ record.size = p.offset + l
        \/ /\ a = p.chunks[1] /\ record.size = p.offset
           /\ l <= x
    BY <1>4 DEF Linked
  <2>2. l \in Nat
    <3>1. segments \in Seq([offset: Nat, chunks: Seq(Chunks)]) /\ segments # <<>>
      BY <1>4, BasicParts DEF LastOfThisRun
    <3>2. Len(segments) \in 1..Len(segments)
      BY <3>1, LenProperties, EmptySeq
    <3>3. segments[Len(segments)] \in [offset: Nat, chunks: Seq(Chunks)]
      BY <3>1, <3>2, ElementOfSeq
    <3>4. p = segments[Len(segments)]
      BY DEF Last
    <3> HIDE DEF p
    <3>5. p.chunks \in Seq(Chunks)
      BY <3>3, <3>4
    <3> QED  BY <3>5, LenProperties
  <2>3. x \in Nat /\ y \in Nat /\ x <= y
    BY <1>2
  <2> HIDE DEF x, y, p, l
  <2>4. l <= x => l <= y
    BY <2>2, <2>3
  <2>5. \/ /\ a = p.chunks[1] + l
           /\ record.size = p.offset + l
        \/ /\ a = p.chunks[1] /\ record.size = p.offset
           /\ l <= y
    BY <2>1, <2>4
  <2> QED  BY <2>5 DEF p, l, y
<1> QED  BY <1>1, <1>3, <1>4 DEF Linked

LEMMA InOrderAgain ==
  ASSUME Chain', NEW w \in Batches \cup {0}, NEW a \in Nat \ {0}, NEW n \in Nat, NEW m \in Nat,
         Carries(spooler', w, a, n, record'.size),
         host' # "disposed" \/ n # 0 => Linked(a, n, m)',
         host' # "disposed" => Live(spooler', w, a, n, m) /\ Covered(a)'
  PROVE  InOrder'
<1>1. Fits(w, a, n, m)'
  BY DEF Fits, Carries, Live, Promised
<1> QED  BY <1>1 DEF InOrder

(* A step that leaves the index alone.                                      *)
LEMMA IndexLeft ==
  ASSUME Basic, Chain, NEW w \in Batches \cup {0}, NEW a \in Nat \ {0}, NEW n \in Nat, NEW m \in Nat,
         Fits(w, a, n, m), UNCHANGED <<output, cursor, run, segments>>,
         record'.size = record.size,
         host' # "disposed" => host # "disposed" /\ Split(spooler', w, a, n, m, record.size),
         host' = "disposed" => Carries(spooler', w, a, n, record.size)
  PROVE  InOrder'
<1>1. Chain'
  BY ChainStays
<1>2. CASE host' # "disposed"
  <2>1. PICK n1 \in Nat, m1 \in Nat :
          /\ Divided(n, m, n1, m1) /\ Carries(spooler', w, a, n1, record.size)
          /\ Live(spooler', w, a, n1, m1)
    BY <1>2 DEF Split
  <2>2. Linked(a, n, m) /\ Covered(a)
    BY <1>2 DEF Fits
  <2>3. Linked(a, n1, m1)'
    BY <2>1, <2>2, LinkedStays
  <2>4. Covered(a)'
    BY <2>2, CoveredStays
  <2>5. Carries(spooler', w, a, n1, record'.size)
    BY <2>1
  <2> QED  BY <1>1, <2>1, <2>3, <2>4, <2>5, InOrderAgain
<1>3. CASE host' = "disposed"
  <2>1. n # 0 => Linked(a, n, m)'
    <3>1. Divided(n, m, n, m)
      BY DEF Divided
    <3> QED  BY <3>1, LinkedStays DEF Fits
  <2>2. Carries(spooler', w, a, n, record'.size)
    BY <1>3
  <2> QED  BY <1>1, <1>3, <2>1, <2>2, InOrderAgain
<1> QED  BY <1>2, <1>3

(* What a call of flushTerminal leaves of the log.                          *)
LEMMA SplitSame ==
  ASSUME NEW t, NEW w, NEW a, NEW n \in Nat, NEW m \in Nat, NEW size,
         Carries(t, w, a, n, size), Live(t, w, a, n, m)
  PROVE  Split(t, w, a, n, m, size)
BY DEF Split, Divided

LEMMA CallFits ==
  ASSUME Basic, NEW w \in Batches \cup {0}, NEW a \in Nat \ {0}, NEW n \in Nat, NEW m \in Nat,
         Fits(w, a, n, m), NEW c \in Callers
  PROVE  /\ Called(spooler, c) \in Spooler
         /\ host # "disposed" => Split(Called(spooler, c), w, a, n, m, record.size)
         /\ host = "disposed" => Carries(Called(spooler, c), w, a, n, record.size)
<1>1. /\ spooler \in Spooler /\ Len(output) \in 0..MaxChunks /\ Len(output) \in Nat
      /\ Carries(spooler, w, a, n, record.size) /\ CallsFit(spooler.call, Len(output))
  BY BasicParts DEF Fits, Basic, Sound
<1>2. ASSUME host # "disposed" PROVE Waits(spooler, w, a, n, m) /\ a + n + m = Len(output) + 1
  BY <1>2 DEF Fits, Live, Waits, Linked
<1>3. ASSUME host # "disposed"
      PROVE  Called(spooler, c) \in Spooler /\ Split(Called(spooler, c), w, a, n, m, record.size)
  BY <1>1, <1>2, <1>3, CalledLive
<1>4. ASSUME host = "disposed"
      PROVE  Called(spooler, c) \in Spooler /\ Carries(Called(spooler, c), w, a, n, record.size)
  BY <1>1, <1>4, CalledDead
<1> QED  BY <1>3, <1>4

LEMMA TimerKeepsInOrder ==
  ASSUME Basic, Chain, NEW w \in Batches \cup {0}, NEW a \in Nat \ {0}, NEW n \in Nat, NEW m \in Nat,
         Fits(w, a, n, m), NEW b \in Batches, TimerFires(b)
  PROVE  InOrder'
<1> DEFINE t == [spooler EXCEPT !.batch[b].timer = FALSE]
<1>1. /\ spooler \in Spooler /\ Len(output) \in 0..MaxChunks /\ Len(output) \in Nat
      /\ Carries(spooler, w, a, n, record.size) /\ CallsFit(spooler.call, Len(output))
      /\ spooler.batch[b] \in Batch
  BY BasicParts DEF Fits, Basic, Sound
<1>2. /\ t \in Spooler /\ t.mapped = spooler.mapped /\ t.queue = spooler.queue
      /\ t.call = spooler.call
      /\ \A x \in Batches : x # b => t.batch[x] = spooler.batch[x]
      /\ t.batch[b] = [spooler.batch[b] EXCEPT !.timer = FALSE]
  BY <1>1, TimerOffParts
<1>3. /\ spooler.batch[b].timer /\ spooler' = Collected(Called(t, "timer"))
      /\ UNCHANGED <<service, stored>> /\ "timer" \in Callers
  BY DEF TimerFires, Callers
<1> HIDE DEF t
<1>4. b = w /\ n = 0
  <2>1. ~NoBatch.timer
    BY DEF NoBatch
  <2>2. b = w
    BY <1>1, <1>3, <2>1 DEF Carries
  <2> QED  BY <1>1, <1>3, <2>2 DEF Carries
<1>5. t.batch[b].inflight = spooler.batch[b].inflight
      /\ t.batch[b].chunks = spooler.batch[b].chunks /\ t.batch[b].timer = FALSE
  BY <1>1, <1>2 DEF Batch
<1>6. Carries(t, w, a, n, record.size)
  BY <1>1, <1>2, <1>4, <1>5 DEF Carries
<1>7. CallsFit(t.call, Len(output))
  BY <1>1, <1>2
<1>8. ASSUME host # "disposed" PROVE Split(spooler', w, a, n, m, record.size)
  <2>1. Live(spooler, w, a, n, m) /\ a + n + m = Len(output) + 1
    BY <1>8 DEF Fits, Linked
  <2>2. Waits(t, w, a, n, m)
    BY <1>2, <1>4, <1>5, <2>1 DEF Live, Waits, Promised
  <2>3. Called(t, "timer") \in Spooler /\ Split(Called(t, "timer"), w, a, n, m, record.size)
    BY <1>1, <1>2, <1>3, <1>6, <1>7, <1>8, <2>1, <2>2, CalledLive
  <2> QED  BY <1>3, <2>3, SplitCollected
<1>9. ASSUME host = "disposed" PROVE Carries(spooler', w, a, n, record.size)
  <2>1. Called(t, "timer") \in Spooler /\ Carries(Called(t, "timer"), w, a, n, record.size)
    BY <1>1, <1>2, <1>3, <1>6, <1>9, CalledDead
  <2> QED  BY <1>3, <2>1, CarriesCollected
<1>10. UNCHANGED <<output, cursor, run, segments, host>> /\ record'.size = record.size
  BY <1>3 DEF service, stored
<1> QED  BY <1>8, <1>9, <1>10, IndexLeft

LEMMA ServiceKeepsInOrder ==
  ASSUME Basic, Chain, NEW w \in Batches \cup {0}, NEW a \in Nat \ {0}, NEW n \in Nat, NEW m \in Nat,
         Fits(w, a, n, m), Service, Kept, Kept'
  PROVE  InOrder'
<1>1. /\ spooler \in Spooler /\ removal \in Removals
      /\ Carries(spooler, w, a, n, record.size)
      /\ host # "disposed" => Live(spooler, w, a, n, m)
      /\ {"history", "removal", "dispose"} \subseteq Callers
      /\ removal.step \in {"none", "flushing"} /\ removal'.step \in {"none", "flushing"}
      /\ terminal' = "open"
  BY BasicParts DEF Fits, Callers, Kept
<1>2. \A c \in Callers :
        /\ host # "disposed" => Split(Called(spooler, c), w, a, n, m, record.size)
        /\ host = "disposed" => Carries(Called(spooler, c), w, a, n, record.size)
  BY CallFits
<1>3. CASE ReadHistory
  BY <1>1, <1>2, <1>3, IndexLeft DEF ReadHistory, service, stored
<1>4. ASSUME NEW kind \in {"close", "delete"}, BeginRemoval(kind) PROVE InOrder'
  BY <1>1, <1>2, <1>4, IndexLeft DEF BeginRemoval, service, stored
<1>5. CASE FlushAtExit
  BY <1>1, <1>2, <1>5, IndexLeft DEF FlushAtExit, service, stored
<1>6. CASE DisposeBegin
  BY <1>1, <1>2, <1>6, IndexLeft DEF DisposeBegin, stored
<1>7. CASE AbandonRemoval
  <2> DEFINE t == Forgotten(spooler, "removal")
  <2>1. spooler' = t /\ UNCHANGED <<service, stored>>
    BY <1>7 DEF AbandonRemoval, Forgotten
  <2>2. /\ t \in Spooler /\ SameBatches(spooler, t)
        /\ \A x \in Callers : t.call[x] = IF x = "removal" THEN NoCall ELSE spooler.call[x]
    BY <1>1, ForgottenParts
  <2> HIDE DEF t
  <2>3. Carries(t, w, a, n, record.size)
    BY <1>1, <2>2, CarriesSame
  <2>4. ASSUME host # "disposed" PROVE Split(t, w, a, n, m, record.size)
    <3>1. Live(spooler, w, a, n, m)
      BY <1>1, <2>4
    <3>2. Promised(t, a + n)
      BY <2>2, <3>1 DEF Live, Promised, NoCall
    <3>3. Live(t, w, a, n, m)
      BY <2>2, <3>1, <3>2, LiveSame
    <3> QED  BY <2>3, <3>3, SplitSame
  <2> QED  BY <2>1, <2>3, <2>4, IndexLeft DEF service, stored
<1>8. CASE DisposeEnd
  <2> DEFINE t == [spooler EXCEPT !.batch[spooler.mapped].timer = FALSE]
  <2>1. host' = "disposed" /\ UNCHANGED <<output, cursor, run, stored>>
        /\ spooler' = IF spooler.mapped = 0 THEN spooler ELSE t
    BY <1>8 DEF DisposeEnd
  <2>2. ASSUME spooler.mapped # 0 PROVE Carries(t, w, a, n, record.size)
    <3>1. spooler.mapped = w /\ w \in Batches
      BY <1>1, <2>2 DEF Carries, Spooler
    <3> DEFINE u == [spooler EXCEPT !.batch[w].timer = FALSE]
    <3>0. t = u
      BY <3>1
    <3>2. /\ t.mapped = w /\ t.queue = spooler.queue
          /\ \A x \in Batches : x # w => t.batch[x] = spooler.batch[x]
          /\ t.batch[w] = [spooler.batch[w] EXCEPT !.timer = FALSE]
      <4>1. /\ u.mapped = spooler.mapped /\ u.queue = spooler.queue
            /\ \A x \in Batches : x # w => u.batch[x] = spooler.batch[x]
            /\ u.batch[w] = [spooler.batch[w] EXCEPT !.timer = FALSE]
        BY <1>1, <3>1, TimerOffParts
      <4> HIDE DEF t, u
      <4> QED  BY <3>0, <3>1, <4>1
    <3>3. spooler.batch[w] \in Batch
      BY <1>1, <3>1 DEF Spooler
    <3> HIDE DEF t
    <3>4. t.batch[w].inflight = spooler.batch[w].inflight /\ t.batch[w].timer = FALSE
      BY <3>2, <3>3 DEF Batch
    <3> QED  BY <1>1, <3>1, <3>2, <3>4 DEF Carries
  <2> HIDE DEF t
  <2>3. Carries(spooler', w, a, n, record.size)
    BY <1>1, <2>1, <2>2
  <2> QED  BY <2>1, <2>3, IndexLeft DEF stored
<1>9. ~ DeleteRow
  BY <1>1 DEF DeleteRow
<1>10. ~ ClearLogs
  <2> SUFFICES ASSUME ClearLogs PROVE FALSE
    OBVIOUS
  <2>1. \/ removal' = [removal EXCEPT !.step = "clearing", !.batch = spooler.mapped]
        \/ removal' = [removal EXCEPT !.step = "deleting"]
    BY DEF ClearLogs
  <2> QED  BY <1>1, <2>1 DEF Removals
<1> QED
  BY <1>3, <1>4, <1>5, <1>6, <1>7, <1>8, <1>9, <1>10 DEF Service

LEMMA RestartKeepsInOrder ==
  ASSUME Basic, Chain, Restart
  PROVE  InOrder'
<1>0. PICK a : a = Len(output) + 1
  OBVIOUS
<1>1. /\ Len(output) \in Nat /\ run \in Nat
      /\ \A i \in DOMAIN output : output[i].run <= run /\ output[i].run \in Nat
      /\ DOMAIN output = 1..Len(output)
  <2>1. output \in Seq([run: 1..MaxRuns, cursor: Chunks]) /\ run \in 1..MaxRuns
    BY BasicParts
  <2>2. /\ Len(output) \in Nat
        /\ output \in [1..Len(output) -> [run: 1..MaxRuns, cursor: Chunks]]
    BY <2>1, LenProperties
  <2>3. \A i \in DOMAIN output : output[i].run <= run
    BY DEF Basic
  <2> QED  BY <2>1, <2>2, <2>3, Numbers
<1>2. /\ run' = run + 1 /\ host' = "up" /\ cursor' = 0
      /\ UNCHANGED <<output, segments, record>>
      /\ spooler'.mapped = 0 /\ spooler'.queue = <<>>
      /\ \A b \in Batches : spooler'.batch[b] = NoBatch
      /\ \A c \in Callers : spooler'.call[c] = NoCall
  BY DEF Restart, stored
<1>3. \A i \in DOMAIN output : output[i].run # run'
  BY <1>1, <1>2
<1>4. Chain'
  BY <1>2, ChainStays
<1>5. ~ LastOfThisRun'
  <2> SUFFICES ASSUME segments # <<>>
               PROVE  output[Last(segments).chunks[1]].run # run'
    BY <1>2 DEF LastOfThisRun
  <2>1. segments \in Seq([offset: Nat, chunks: Seq(Chunks)])
    BY BasicParts
  <2>2. Len(segments) \in DOMAIN segments
    BY <2>1, LenProperties, EmptySeq
  <2>3. segments[Len(segments)].chunks[1] \in DOMAIN output
    BY <2>2, SegmentParts
  <2> QED  BY <1>3, <2>3 DEF Last
<1>6. Carries(spooler', 0, a, 0, record'.size)
  BY <1>2 DEF Carries
<1>7. Live(spooler', 0, a, 0, 0)
  BY <1>2 DEF Live, Promised, NoCall
<1>8. Linked(a, 0, 0)'
  <2>1. a + 0 + 0 = Len(output) + 1 /\ ~ (a <= Len(output))
    BY <1>1, <1>0
  <2>2. \A i \in DOMAIN output : ~ (a <= i)
    BY <1>1, <1>0
  <2> QED  BY <1>2, <1>5, <2>1, <2>2 DEF Linked
<1>9. Covered(a)'
  BY <1>2, <1>3 DEF Covered
<1>10. a \in Nat \ {0} /\ 0 \in Batches \cup {0} /\ 0 \in Nat
  BY <1>1, <1>0
<1> QED  BY <1>4, <1>6, <1>7, <1>8, <1>9, <1>10, InOrderAgain

LEMMA OutputKeepsInOrder ==
  ASSUME Basic, Chain, NEW w \in Batches \cup {0}, NEW a \in Nat \ {0}, NEW n \in Nat, NEW m \in Nat,
         Fits(w, a, n, m), Output
  PROVE  InOrder'
<1> DEFINE l == Len(output)
           R == [run: 1..MaxRuns, cursor: Chunks]
           o == [run |-> run, cursor |-> cursor + 1]
           c == Len(output')
<1>1. /\ l \in Nat /\ l < MaxChunks /\ cursor \in 0..MaxChunks /\ cursor <= l
      /\ run \in 1..MaxRuns /\ output \in Seq(R) /\ spooler \in Spooler
      /\ spooler.mapped # 0 \/ Unused(spooler) # {}
  BY BasicParts DEF Basic, Output
<1>2. /\ cursor' = cursor + 1 /\ output' = Append(output, o)
      /\ spooler' = Appended(spooler, c) /\ host = "up"
      /\ UNCHANGED <<run, host, terminal, removal, record, segments>>
  BY DEF Output, stored
<1>3. o \in R
  BY <1>1, Numbers DEF Chunks
<1>4. o.run = run /\ o.cursor = cursor + 1
  OBVIOUS
<1> HIDE DEF o, R, c
<1>5. /\ c = l + 1 /\ DOMAIN output = 1..l /\ DOMAIN output' = 1..(l + 1)
      /\ \A i \in 1..l : output'[i] = output[i]
      /\ output'[l + 1] = o
  BY <1>1, <1>2, <1>3, AppendProperties, LenProperties DEF l, c
<1>6. /\ Carries(spooler, w, a, n, record.size) /\ Live(spooler, w, a, n, m)
      /\ Linked(a, n, m) /\ Covered(a)
  BY <1>2 DEF Fits
<1> HIDE DEF l
<1>7. a + n + m = l + 1 /\ c \in Chunks /\ Len(output') = l + 1 /\ Len(output) = l
  BY <1>1, <1>5, <1>6, Numbers DEF Linked, Chunks, l, c
<1>8. PICK b \in Batches :
         /\ IF spooler.mapped = 0 THEN b \in Unused(spooler) ELSE b = spooler.mapped
         /\ spooler'.mapped = b
         /\ spooler'.queue = spooler.queue /\ spooler'.call = spooler.call
         /\ \A x \in Batches : x # b => spooler'.batch[x] = spooler.batch[x]
         /\ spooler'.batch[b].chunks = Append(spooler.batch[b].chunks, c)
         /\ spooler'.batch[b].inflight = spooler.batch[b].inflight
         /\ spooler.batch[b].inflight = <<>> => spooler'.batch[b].timer = TRUE
         /\ spooler.batch[b].inflight # <<>> => spooler'.batch[b].timer = spooler.batch[b].timer
  BY <1>1, <1>2, <1>7, AppendedParts
<1>9. /\ Goes(spooler.batch[b].inflight, a, n) /\ Goes(spooler.batch[b].chunks, a + n, m)
      /\ \A x \in Batches : x # b => spooler.batch[x] = NoBatch
      /\ b # 0 /\ (w # 0 => w = b)
      /\ spooler.batch[b].inflight \in Seq(Chunks) /\ spooler.batch[b].chunks \in Seq(Chunks)
  <2>1. b # 0 /\ spooler.batch[b] \in Batch
    BY <1>1, NotABatch DEF Spooler
  <2>2. CASE w # 0
    <3>1. w = b
      BY <1>6, <1>8, <2>2 DEF Live
    <3> QED  BY <1>6, <2>1, <2>2, <3>1 DEF Carries, Live, Batch
  <2>3. CASE w = 0
    <3>1. n = 0 /\ m = 0 /\ \A x \in Batches : spooler.batch[x] = NoBatch
      BY <1>6, <2>3, NotABatch DEF Carries, Live
    <3>2. spooler.batch[b].inflight = <<>> /\ spooler.batch[b].chunks = <<>>
      BY <3>1 DEF NoBatch
    <3>3. Goes(spooler.batch[b].inflight, a, 0) /\ Goes(spooler.batch[b].chunks, a + n, 0)
      BY <3>2, EmptyGoes
    <3> QED  BY <2>1, <2>3, <3>1, <3>3 DEF Batch
  <2> QED  BY <2>2, <2>3
<1>10. n = 0 <=> spooler.batch[b].inflight = <<>>
  BY <1>9, GoesEmpty
<1>11. Carries(spooler', b, a, n, record'.size)
  <2>1. \A x \in Batches : x # b => spooler'.batch[x] = NoBatch
    BY <1>8, <1>9
  <2>2. n = 0 => spooler'.queue = <<>>
    BY <1>6, <1>8 DEF Carries
  <2>3. ASSUME n # 0
        PROVE  /\ ~spooler'.batch[b].timer
               /\ Len(spooler'.queue) = 1 /\ spooler'.queue[1].op \in {"prepare", "commit"}
               /\ spooler'.queue[1].batch = b
               /\ spooler'.queue[1].op = "commit" => spooler'.queue[1].offset = record.size
    <3>1. w = b
      BY <1>6, <1>9, <2>3 DEF Carries
    <3>2. ~spooler.batch[b].timer /\ spooler'.batch[b].timer = spooler.batch[b].timer
      BY <1>6, <1>8, <1>10, <2>3, <3>1 DEF Carries
    <3> QED  BY <1>6, <1>8, <2>3, <3>1, <3>2 DEF Carries
  <2> QED  BY <1>2, <1>8, <1>9, <2>1, <2>2, <2>3 DEF Carries
<1>12. Live(spooler', b, a, n, m + 1)
  <2>1. Goes(spooler'.batch[b].chunks, a + n, m + 1)
    <3>1. a + n \in Nat /\ c = a + n + m
      BY <1>5, <1>7
    <3> QED  BY <1>7, <1>8, <1>9, <3>1, GoesAppend
  <2>2. n = 0 => spooler'.batch[b].timer
    BY <1>8, <1>10
  <2>3. Promised(spooler', a + n)
    BY <1>6, <1>8 DEF Live, Promised
  <2>4. m + 1 # 0
    OBVIOUS
  <2> QED  BY <1>8, <1>9, <2>1, <2>2, <2>3, <2>4 DEF Live
<1>13. ASSUME NEW i \in DOMAIN segments
       PROVE  segments[i].chunks[1] \in 1..l
  BY <1>7, <1>13, SegmentParts
<1>14. segments # <<>> => Last(segments).chunks[1] \in 1..l
  <2> SUFFICES ASSUME segments # <<>> PROVE Last(segments).chunks[1] \in 1..l
    OBVIOUS
  <2>1. Len(segments) \in DOMAIN segments
    BY BasicParts, LenProperties, EmptySeq
  <2> QED  BY <1>13, <2>1 DEF Last
<1>15. Linked(a, n, m + 1)'
  <2>1. LastOfThisRun' = LastOfThisRun
    BY <1>2, <1>5, <1>14 DEF LastOfThisRun
  <2>2. a + n + (m + 1) = Len(output') + 1
    BY <1>7
  <2>3. \A i \in DOMAIN output' : a <= i => output'[i].run = run
    <3>1. \A i \in 1..l : a <= i => output[i].run = run
      BY <1>5, <1>6 DEF Linked
    <3>2. \A i \in 1..(l + 1) : i \in 1..l \/ i = l + 1
      BY <1>1
    <3> QED  BY <1>4, <1>5, <3>1, <3>2
  <2>4. ASSUME ~ LastOfThisRun
        PROVE  IF a <= Len(output') THEN output'[a].cursor = 1 ELSE cursor' = 0
    <3>1. IF a <= l THEN output[a].cursor = 1 ELSE cursor = 0
      BY <1>6, <1>7, <2>4 DEF Linked
    <3>2. a <= l + 1 /\ (a <= l => a \in 1..l) /\ (~ (a <= l) => a = l + 1)
      BY <1>1, <1>7
    <3>3. CASE a <= l
      BY <1>5, <1>7, <3>1, <3>2, <3>3
    <3>4. CASE ~ (a <= l)
      <4>1. cursor = 0 /\ a = l + 1
        BY <3>1, <3>2, <3>4
      <4>2. output'[a].cursor = 1
        BY <1>4, <1>5, <4>1
      <4> QED  BY <1>7, <3>2, <4>2
    <3> QED  BY <3>3, <3>4
  <2>5. ASSUME LastOfThisRun
        PROVE  LET p == Last(segments)
               IN  \/ /\ a = p.chunks[1] + Len(p.chunks)
                      /\ record.size = p.offset + Len(p.chunks)
                   \/ /\ a = p.chunks[1] /\ record.size = p.offset
                      /\ Len(p.chunks) <= IF n = 0 THEN m + 1 ELSE n
    <3> DEFINE k == Len(Last(segments).chunks)
               x == IF n = 0 THEN m ELSE n
               y == IF n = 0 THEN m + 1 ELSE n
    <3>1. \/ /\ a = Last(segments).chunks[1] + k
             /\ record.size = Last(segments).offset + k
          \/ /\ a = Last(segments).chunks[1] /\ record.size = Last(segments).offset
             /\ k <= x
      BY <1>6, <2>5 DEF Linked
    <3>2. k \in Nat
      <4>1. Len(segments) \in DOMAIN segments
        BY <2>5, BasicParts, LenProperties, EmptySeq DEF LastOfThisRun
      <4> QED  BY <4>1, SegmentParts DEF Last
    <3>3. x \in Nat /\ y \in Nat /\ x <= y
      OBVIOUS
    <3> HIDE DEF x, y, k
    <3>4. k <= x => k <= y
      BY <3>2, <3>3
    <3> QED  BY <3>1, <3>4 DEF k, y
  <2> QED  BY <1>2, <2>1, <2>2, <2>3, <2>4, <2>5 DEF Linked
<1>16. Covered(a)'
  <2> SUFFICES ASSUME NEW i \in DOMAIN output', output'[i].run = run, i < a
               PROVE  Indexed(i)'
    BY <1>2 DEF Covered
  <2>1. i \in 1..l
    BY <1>1, <1>5, <1>7
  <2>2. Indexed(i)
    BY <1>5, <1>6, <2>1 DEF Covered
  <2> QED  BY <1>2, <2>2 DEF Indexed
<1>17. Chain'
  <2> SUFFICES ASSUME NEW i \in DOMAIN segments
               PROVE  \E f, k \in Nat \ {0} : Links(i, f, k)'
    BY <1>2 DEF Chain
  <2>1. PICK f \in Nat \ {0}, k \in Nat \ {0} :
          /\ Links(i, f, k) /\ f \in 1..l /\ f + k - 1 <= l
    BY <1>7, SegmentParts
  <2>2. f + k - 1 <= Len(output') /\ Goes(segments'[i].chunks, f, k)
    BY <1>1, <1>2, <1>7, <2>1 DEF Links
  <2>3. \A x \in DOMAIN output' : f <= x /\ x < f + k => output'[x].run = output'[f].run
    <3>1. \A x \in 1..(l + 1) : f <= x /\ x < f + k => x \in 1..l
      BY <1>1, <2>1
    <3> QED  BY <1>5, <2>1, <3>1 DEF Links
  <2>4. ASSUME i > 1 PROVE i - 1 \in DOMAIN segments
    <3>1. DOMAIN segments = 1..Len(segments) /\ Len(segments) \in Nat
      BY BasicParts, LenProperties
    <3> QED  BY <2>4, <3>1
  <2>5. i > 1 => output'[segments[i - 1].chunks[1]] = output[segments[i - 1].chunks[1]]
    BY <1>5, <1>13, <2>4
  <2>6. output'[f] = output[f]
    BY <1>5, <2>1
  <2>7. Links(i, f, k)'
    BY <1>2, <2>1, <2>2, <2>3, <2>5, <2>6 DEF Links
  <2> QED  BY <2>1, <2>7
<1>18. b \in Batches \cup {0} /\ m + 1 \in Nat
  OBVIOUS
<1> QED  BY <1>11, <1>12, <1>15, <1>16, <1>17, <1>18, InOrderAgain

(* The one flush that is queued while the log is kept.                      *)
LEMMA OnlyFlush ==
  ASSUME Basic, NEW w \in Batches \cup {0}, NEW a \in Nat \ {0}, NEW n \in Nat, NEW m \in Nat,
         Fits(w, a, n, m), spooler.queue # <<>>
  PROVE  /\ n # 0 /\ w \in Batches /\ Linked(a, n, m)
         /\ a + n + m = Len(output) + 1
         /\ Head(spooler.queue) = spooler.queue[1] /\ Head(spooler.queue).batch = w
         /\ Head(spooler.queue).op = "commit" => Head(spooler.queue).offset = record.size
         /\ Taken \in Spooler /\ Taken.batch = spooler.batch
         /\ Taken.mapped = spooler.mapped /\ Taken.call = spooler.call
         /\ Taken.queue = <<>> /\ Sound(Taken, Deleting, Len(output))
         /\ spooler.batch[w].inflight \in Seq(Chunks)
         /\ Goes(spooler.batch[w].inflight, a, n)
<1>1. /\ spooler \in Spooler /\ spooler.queue \in Seq(Operation)
      /\ Carries(spooler, w, a, n, record.size) /\ Sound(spooler, Deleting, Len(output))
  BY BasicParts DEF Fits, Basic
<1>2. /\ n # 0 /\ w # 0 /\ w \in Batches /\ Len(spooler.queue) = 1
      /\ spooler.queue[1].batch = w
      /\ spooler.queue[1].op = "commit" => spooler.queue[1].offset = record.size
      /\ Goes(spooler.batch[w].inflight, a, n)
  BY <1>1 DEF Carries
<1>3. Head(spooler.queue) = spooler.queue[1] /\ Head(spooler.queue) \in Operation
  BY <1>1, QueueTail
<1>4. /\ Taken \in Spooler /\ Taken.batch = spooler.batch
      /\ Taken.mapped = spooler.mapped /\ Taken.call = spooler.call
      /\ Taken.queue = Tail(spooler.queue)
  BY <1>1, TakenParts
<1>5. Sound(Taken, Deleting, Len(output))
  BY <1>1, TakenParts
<1>6. Tail(spooler.queue) = <<>>
  BY <1>1, <1>2, <1>3, QueueShapes
<1>7. Linked(a, n, m) /\ a + n + m = Len(output) + 1
  BY <1>2 DEF Fits, Linked
<1>8. spooler.batch[w].inflight \in Seq(Chunks)
  BY <1>1, <1>2 DEF Spooler, Batch
<1> QED  BY <1>2, <1>3, <1>4, <1>5, <1>6, <1>7, <1>8

LEMMA FlushEnds ==
  ASSUME Basic, NEW w \in Batches \cup {0}, NEW a \in Nat \ {0}, NEW n \in Nat, NEW m \in Nat,
         Fits(w, a, n, m), Kept, spooler.queue # <<>>, NEW size, NEW ok \in BOOLEAN,
         EndFlush(Taken, Head(spooler.queue).batch, ok),
         NEW k, k = Remaining(n, m, ok),
         NEW a1, a1 = FirstLeft(a, n, ok)
  PROVE  Rests(spooler', a1, k, size)
<1>1. /\ n # 0 /\ w \in Batches
      /\ a + n + m = Len(output) + 1
      /\ Head(spooler.queue).batch = w
      /\ Taken \in Spooler /\ Taken.batch = spooler.batch
      /\ Taken.mapped = spooler.mapped /\ Taken.call = spooler.call
      /\ Taken.queue = <<>> /\ Sound(Taken, Deleting, Len(output))
  BY OnlyFlush
<1>2. /\ spooler \in Spooler /\ Len(output) \in Nat
      /\ Carries(spooler, w, a, n, record.size)
      /\ host # "disposed" => Live(spooler, w, a, n, m)
  BY BasicParts DEF Fits
<1>3. removal.step # "clearing"
  BY DEF Kept
<1>4. PICK s, b, l, old : s = Taken /\ b = w /\ l = Len(output) /\ old = record.size
  OBVIOUS
<1>5. EndFlush(s, b, ok)
  BY <1>1, <1>4 DEF EndFlush
<1>6. /\ n \in Nat \ {0} /\ b \in Batches /\ s \in Spooler /\ l \in Nat
      /\ s.batch = spooler.batch /\ s.mapped = spooler.mapped /\ s.call = spooler.call
      /\ s.queue = <<>> /\ Sound(s, Deleting, l) /\ a + n + m = l + 1
      /\ Carries(spooler, b, a, n, old)
      /\ host # "disposed" => Live(spooler, b, a, n, m)
  BY <1>1, <1>2, <1>4
<1>7. Rests(spooler', a1, k, size) /\ removal' = removal
  BY <1>2, <1>3, <1>5, <1>6, EndFlushRests, ZenonT(60)
<1> QED  BY <1>7, Zenon

(* After the end of a flush the index goes on from what is left.            *)
LEMMA RestsInOrder ==
  ASSUME Chain', host' = host, NEW a \in Nat \ {0}, NEW k \in Nat, NEW size,
         Rests(spooler', a, k, size), record'.size = size,
         host # "disposed" => Linked(a, 0, k)' /\ Covered(a)',
         LastOfThisRun' => Len(Last(segments').chunks) \in Nat
  PROVE  InOrder'
<1>1. PICK w \in Batches \cup {0}, n \in Nat, m \in Nat :
        /\ Divided(0, k, n, m) /\ Carries(spooler', w, a, n, size)
        /\ IF host = "disposed" THEN n = 0 ELSE Live(spooler', w, a, n, m)
  BY DEF Rests
<1>2. ASSUME host # "disposed" PROVE Linked(a, n, m)'
  <2>1. n + m = k /\ (n = 0 \/ m = 0)
    BY <1>1 DEF Divided
  <2>2. a + n + m = a + 0 + k /\ (IF n = 0 THEN m ELSE n) = k
    BY <2>1
  <2>3. Linked(a, 0, k)'
    BY <1>2
  <2> QED  BY <2>2, <2>3 DEF Linked
<1>3. Carries(spooler', w, a, n, record'.size)
  BY <1>1
<1> QED  BY <1>1, <1>2, <1>3, InOrderAgain

(* The segment of the flush extends the chain.                              *)
LEMMA Inserted ==
  ASSUME Basic, Chain, NEW a \in Nat \ {0}, NEW n \in Nat \ {0}, NEW m \in Nat, Linked(a, n, m),
         NEW seg \in [offset: Nat, chunks: Seq(Chunks)], seg.offset = record.size,
         Goes(seg.chunks, a, n),
         segments' = Append(segments, seg), UNCHANGED <<output, run>>
  PROVE  /\ Chain' /\ LastOfThisRun' /\ Last(segments') = seg
         /\ seg.chunks[1] = a /\ Len(seg.chunks) = n
         /\ \A i \in DOMAIN output : Indexed(i) => Indexed(i)'
         /\ \A i \in Int : a <= i /\ i < a + n => Indexed(i)'
<1> DEFINE S == [offset: Nat, chunks: Seq(Chunks)]
<1>0. PICK z : z = Len(segments)
  OBVIOUS
<1>1. /\ segments \in Seq(S) /\ z \in Nat /\ DOMAIN segments = 1..z
      /\ Len(output) \in Nat /\ DOMAIN output = 1..Len(output)
  BY <1>0, BasicParts, LenProperties
<1>2. /\ segments' \in Seq(S) /\ Len(segments') = z + 1 /\ DOMAIN segments' = 1..(z + 1)
      /\ \A i \in 1..z : segments'[i] = segments[i]
      /\ segments'[z + 1] = seg
  <2>1. seg \in S /\ segments' = Append(segments, seg)
    OBVIOUS
  <2> HIDE DEF S
  <2>2. /\ Append(segments, seg) \in Seq(S) /\ Len(Append(segments, seg)) = z + 1
        /\ \A i \in 1..z : Append(segments, seg)[i] = segments[i]
        /\ Append(segments, seg)[z + 1] = seg
    BY <1>0, <1>1, <2>1, AppendProperties
  <2>3. DOMAIN Append(segments, seg) = 1..(z + 1)
    BY <2>2, LenProperties
  <2> QED  BY <2>1, <2>2, <2>3
<1>3. Len(seg.chunks) = n /\ seg.chunks[1] = a
  <2>1. Len(seg.chunks) = n /\ 1 \in 1..n /\ seg.chunks[1] = a + 1 - 1
    BY DEF Goes
  <2> QED  BY <2>1
<1>4. /\ a + n + m = Len(output) + 1
      /\ \A i \in DOMAIN output : a <= i => output[i].run = run
      /\ LastOfThisRun =>
           \/ /\ a = Last(segments).chunks[1] + Len(Last(segments).chunks)
              /\ record.size = Last(segments).offset + Len(Last(segments).chunks)
           \/ /\ a = Last(segments).chunks[1] /\ record.size = Last(segments).offset
              /\ Len(Last(segments).chunks) <= n
      /\ ~LastOfThisRun => IF a <= Len(output) THEN output[a].cursor = 1 ELSE cursor = 0
  BY DEF Linked
<1>5. a \in DOMAIN output /\ a <= Len(output) /\ output[a].run = run /\ a + n - 1 <= Len(output)
  <2>1. a \in DOMAIN output /\ a <= Len(output) /\ a + n - 1 <= Len(output) /\ a <= a
    BY <1>1, <1>4
  <2> QED  BY <1>4, <2>1
<1> HIDE DEF S
<1>6. ASSUME NEW i \in 1..z
      PROVE  /\ i \in 1..(z + 1) /\ segments'[i] = segments[i]
             /\ i > 1 => i - 1 \in 1..z /\ segments'[i - 1] = segments[i - 1]
  <2>1. i \in 1..(z + 1) /\ (i > 1 => i - 1 \in 1..z)
    BY <1>1
  <2> QED  BY <1>2, <2>1
<1>7. ASSUME NEW i \in 1..z PROVE \E f, l \in Nat \ {0} : Links(i, f, l)'
  <2>1. PICK f \in Nat \ {0}, l \in Nat \ {0} : Links(i, f, l)
    BY <1>1 DEF Chain
  <2>2. Links(i, f, l)'
    BY <1>6, <2>1 DEF Links
  <2> QED  BY <2>2
<1>8. Last(segments') = seg /\ segments' # <<>>
  <2>1. segments' # <<>>
    BY <1>1, <1>2, EmptySeq
  <2> QED  BY <1>2, <2>1 DEF Last
<1>9. LastOfThisRun'
  BY <1>3, <1>5, <1>8 DEF LastOfThisRun
<1>10. Links(z + 1, a, n)'
  <2>1. /\ a + n - 1 <= Len(output') /\ Goes(segments'[z + 1].chunks, a, n)
        /\ \A k \in DOMAIN output' : a <= k /\ k < a + n => output'[k].run = output'[a].run
    BY <1>2, <1>4, <1>5
  <2>2. ASSUME z + 1 > 1, output[segments[z].chunks[1]].run = output[a].run
        PROVE  \/ /\ a = segments[z].chunks[1] + Len(segments[z].chunks)
                  /\ seg.offset = segments[z].offset + Len(segments[z].chunks)
               \/ /\ a = segments[z].chunks[1] /\ seg.offset = segments[z].offset
                  /\ Len(segments[z].chunks) <= n
    <3>1. segments # <<>> /\ Last(segments) = segments[z]
      BY <1>0, <1>1, <2>2, EmptySeq DEF Last
    <3>2. LastOfThisRun
      BY <1>5, <2>2, <3>1 DEF LastOfThisRun
    <3> QED  BY <1>4, <3>1, <3>2
  <2>3. ASSUME ~ (z + 1 > 1 /\ output[segments[z].chunks[1]].run = output[a].run)
        PROVE  output[a].cursor = 1
    <3>1. ~ LastOfThisRun
      <4> SUFFICES ASSUME LastOfThisRun PROVE FALSE
        OBVIOUS
      <4>1. z + 1 > 1 /\ Last(segments) = segments[z]
        BY <1>0, <1>1, EmptySeq DEF LastOfThisRun, Last
      <4> QED  BY <1>5, <2>3, <4>1 DEF LastOfThisRun
    <3> QED  BY <1>4, <1>5, <3>1
  <2>4. z + 1 - 1 = z /\ (z + 1 > 1 => z \in 1..z)
    BY <1>1
  <2>5. z + 1 > 1 => segments'[z + 1 - 1] = segments[z]
    BY <1>2, <2>4
  <2>6. PICK i : i = z + 1
    OBVIOUS
  <2>7. /\ i > 1 => segments'[i - 1] = segments[z]
        /\ output' = output /\ segments'[i] = seg
    BY <1>2, <2>4, <2>5, <2>6
  <2>8. /\ a + n - 1 <= Len(output)' /\ Goes(segments'[i].chunks, a, n)
        /\ \A k \in DOMAIN output' : a <= k /\ k < a + n => output'[k].run = output'[a].run
    BY <2>1, <2>6
  <2>9. IF i > 1 /\ output'[segments'[i - 1].chunks[1]].run = output'[a].run
          THEN LET p == segments'[i - 1]
               IN  \/ /\ a = p.chunks[1] + Len(p.chunks)
                      /\ segments'[i].offset = p.offset + Len(p.chunks)
                   \/ /\ a = p.chunks[1] /\ segments'[i].offset = p.offset
                      /\ Len(p.chunks) <= n
          ELSE output'[a].cursor = 1
    <3>1. CASE i > 1 /\ output[segments[z].chunks[1]].run = output[a].run
      BY <2>2, <2>6, <2>7, <3>1
    <3>2. CASE ~ (i > 1 /\ output[segments[z].chunks[1]].run = output[a].run)
      BY <2>3, <2>6, <2>7, <3>2
    <3> QED  BY <3>1, <3>2
  <2>10. Links(i, a, n)'
    BY <2>8, <2>9 DEF Links
  <2> QED  BY <2>6, <2>10
<1>11. Chain'
  <2> SUFFICES ASSUME NEW i \in 1..(z + 1) PROVE \E f, l \in Nat \ {0} : Links(i, f, l)'
    BY <1>2 DEF Chain
  <2>1. i \in 1..z \/ i = z + 1
    BY <1>1
  <2>2. CASE i \in 1..z
    BY <1>7, <2>2
  <2>3. CASE i = z + 1
    <3>1. Links(i, a, n)'
      BY <1>10, <2>3
    <3> QED  BY <3>1
  <2> QED  BY <2>1, <2>2, <2>3
<1>12. \A i \in DOMAIN output : Indexed(i) => Indexed(i)'
  BY <1>1, <1>2, <1>6 DEF Indexed
<1>13. ASSUME NEW i \in Int, a <= i, i < a + n PROVE Indexed(i)'
  <2>1. i \in ToSet(seg.chunks)
    BY <1>13, GoesMembers
  <2>2. z + 1 \in 1..(z + 1)
    BY <1>1
  <2> QED  BY <1>2, <2>1, <2>2 DEF Indexed
<1> QED  BY <1>3, <1>8, <1>9, <1>11, <1>12, <1>13

LEMMA QueueKeepsInOrder ==
  ASSUME Basic, Chain, NEW w \in Batches \cup {0}, NEW a \in Nat \ {0}, NEW n \in Nat, NEW m \in Nat,
         Fits(w, a, n, m), Queue, Kept
  PROVE  InOrder'
<1> DEFINE o == Head(spooler.queue)
<1>1. /\ spooler.queue # <<>> /\ UNCHANGED service
  BY DEF Queue, PrepareAndAppend, PrepareFails, Commit, CommitFails, DeleteLogs,
         DeleteLogsFails, At
<1>2. /\ n # 0 /\ w \in Batches /\ Linked(a, n, m)
      /\ a + n + m = Len(output) + 1
      /\ o = spooler.queue[1] /\ o.batch = w
      /\ o.op = "commit" => o.offset = record.size
      /\ spooler.batch[w].inflight \in Seq(Chunks)
      /\ Goes(spooler.batch[w].inflight, a, n)
  BY <1>1, OnlyFlush
<1>3. /\ Taken \in Spooler /\ Taken.batch = spooler.batch
      /\ Taken.mapped = spooler.mapped /\ Taken.call = spooler.call
      /\ Taken.queue = <<>>
  BY <1>1, OnlyFlush
<1>4. UNCHANGED <<output, cursor, run, host, runtime, terminal>>
  BY <1>1 DEF service
<1>5. /\ Carries(spooler, w, a, n, record.size)
      /\ host # "disposed" => Live(spooler, w, a, n, m) /\ Covered(a)
      /\ record \in [exists: BOOLEAN, size: Nat] /\ spooler \in Spooler
      /\ segments \in Seq([offset: Nat, chunks: Seq(Chunks)]) /\ Len(output) \in Nat
  BY BasicParts DEF Fits
<1>6. ~ At("delete")
  BY HeadOfQueue DEF Kept, Deleting
<1> HIDE DEF o
<1>7. CASE PrepareAndAppend
  <2> DEFINE x == [op |-> "commit", batch |-> w, offset |-> record.size]
             t == Enqueued(Taken, "commit", w, record.size)
  <2>1. spooler' = t /\ record'.size = record.size /\ segments' = segments
    BY <1>2, <1>5, <1>7 DEF PrepareAndAppend, StartOffset, o
  <2>2. record.size \in Nat
    BY <1>5
  <2>3. /\ t.batch = spooler.batch /\ t.mapped = spooler.mapped /\ t.call = spooler.call
        /\ t.queue = Append(<<>>, x)
    BY <1>2, <1>3, <2>2, EnqueuedParts
  <2>4. x \in Operation
    BY <1>2, <2>2 DEF Operation
  <2>5. x.op = "commit" /\ x.batch = w /\ x.offset = record.size
    OBVIOUS
  <2> HIDE DEF t, x
  <2>6. Len(t.queue) = 1 /\ t.queue[1] = x
    <3>1. <<>> \in Seq(Operation)
      BY EmptySeq
    <3> QED  BY <2>3, <2>4, <3>1, QueueShapes
  <2>7. Carries(t, w, a, n, record.size)
    BY <1>2, <1>5, <2>3, <2>5, <2>6 DEF Carries
  <2>8. ASSUME host # "disposed" PROVE Split(t, w, a, n, m, record.size)
    <3>1. Live(t, w, a, n, m)
      BY <1>5, <2>3, <2>8 DEF Live, Promised
    <3> QED  BY <2>7, <3>1, SplitSame
  <2> QED  BY <1>4, <2>1, <2>7, <2>8, IndexLeft
<1>8. ASSUME EndFlush(Taken, o.batch, FALSE), record'.size = record.size, segments' = segments
      PROVE  InOrder'
  <2>1. Rests(spooler', a, n + m, record.size)
    <3>1. n + m = Remaining(n, m, FALSE) /\ a = FirstLeft(a, n, FALSE)
      BY DEF Remaining, FirstLeft
    <3>2. EndFlush(Taken, Head(spooler.queue).batch, FALSE)
      BY <1>8 DEF o
    <3>3. PICK k, size : k = n + m /\ size = record.size
      OBVIOUS
    <3>4. k = Remaining(n, m, FALSE)
      BY <3>1, <3>3
    <3>5. Rests(spooler', a, k, size)
      BY <1>1, <3>1, <3>2, <3>4, FlushEnds, Zenon
    <3> QED  BY <3>3, <3>5
  <2>2. Chain'
    BY <1>4, <1>8, ChainStays
  <2>3. ASSUME host # "disposed" PROVE Linked(a, 0, n + m)' /\ Covered(a)'
    <3>1. Divided(n, m, 0, n + m) /\ n + m \in Nat
      BY DEF Divided
    <3>2. Linked(a, 0, n + m)'
      BY <1>2, <1>4, <1>8, <3>1, LinkedStays
    <3> QED  BY <1>4, <1>5, <1>8, <2>3, <3>2, CoveredStays
  <2>4. n + m \in Nat
    OBVIOUS
  <2> QED  BY <1>4, <1>8, <2>1, <2>2, <2>3, <2>4, RestsInOrder
<1>9. CASE PrepareFails
  <2>1. EndFlush(Taken, o.batch, FALSE) /\ record'.size = record.size /\ segments' = segments
    BY <1>5, <1>9 DEF PrepareFails, o
  <2> QED  BY <1>8, <2>1
<1> DEFINE seg == SegmentOf(o)
<1>10. ASSUME o.op = "commit"
       PROVE  /\ seg \in [offset: Nat, chunks: Seq(Chunks)]
              /\ seg.offset = record.size /\ Goes(seg.chunks, a, n)
  BY <1>2, <1>5, <1>10 DEF SegmentOf
<1>11. ASSUME o.op = "commit", segments' = Append(segments, SegmentOf(o))
       PROVE  /\ Chain' /\ LastOfThisRun' /\ Last(segments').offset = record.size
              /\ Last(segments').chunks[1] = a /\ Len(Last(segments').chunks) = n
              /\ \A i \in DOMAIN output : Indexed(i) => Indexed(i)'
              /\ \A i \in Int : a <= i /\ i < a + n => Indexed(i)'
  <2>1. PICK x : x = SegmentOf(o)
    OBVIOUS
  <2>2. /\ x \in [offset: Nat, chunks: Seq(Chunks)]
        /\ x.offset = record.size /\ Goes(x.chunks, a, n)
        /\ segments' = Append(segments, x)
    BY <1>10, <1>11, <2>1
  <2>3. n \in Nat \ {0} /\ UNCHANGED <<output, run>>
    BY <1>2, <1>4
  <2>4. /\ Chain' /\ LastOfThisRun' /\ Last(segments') = x
        /\ x.chunks[1] = a /\ Len(x.chunks) = n
        /\ \A i \in DOMAIN output : Indexed(i) => Indexed(i)'
        /\ \A i \in Int : a <= i /\ i < a + n => Indexed(i)'
    BY <1>2, <2>2, <2>3, Inserted
  <2> QED  BY <2>2, <2>4
<1> HIDE DEF seg
<1>12. \A i \in DOMAIN output : a <= i => output[i].run = run
  BY <1>2 DEF Linked
<1>13. DOMAIN output \subseteq Int
  <2>1. output \in Seq([run: 1..MaxRuns, cursor: Chunks])
    BY BasicParts
  <2>2. DOMAIN output = 1..Len(output)
    BY <2>1, LenProperties
  <2> QED  BY <1>5, <2>2
<1>14. CASE Commit
  <2>1. /\ o.op = "commit" /\ segments' = Append(segments, SegmentOf(o))
        /\ record'.size = o.offset + Len(SegmentOf(o).chunks)
        /\ EndFlush(Taken, o.batch, TRUE)
    BY <1>5, <1>14 DEF Commit, At, o
  <2>2. record'.size = record.size + n
    <3>1. Len(SegmentOf(o).chunks) = n
      BY <1>10, <2>1 DEF Goes, seg
    <3> QED  BY <1>2, <2>1, <3>1
  <2>3. a + n \in Nat \ {0}
    OBVIOUS
  <2>4. PICK b, size : b = a + n /\ size = record'.size
    OBVIOUS
  <2>5. Rests(spooler', b, m, size)
    <3>1. m = Remaining(n, m, TRUE) /\ b = FirstLeft(a, n, TRUE)
      BY <2>4 DEF Remaining, FirstLeft
    <3>2. EndFlush(Taken, Head(spooler.queue).batch, TRUE)
      BY <2>1 DEF o
    <3> QED  BY <1>1, <3>1, <3>2, FlushEnds, Zenon
  <2>6. /\ Chain' /\ LastOfThisRun' /\ Last(segments').offset = record.size
        /\ Last(segments').chunks[1] = a /\ Len(Last(segments').chunks) = n
        /\ \A i \in DOMAIN output : Indexed(i) => Indexed(i)'
        /\ \A i \in Int : a <= i /\ i < a + n => Indexed(i)'
    BY <1>11, <2>1
  <2>7. Linked(b, 0, m)'
    <3>1. b + 0 + m = Len(output) + 1
      BY <1>2, <2>4
    <3>2. \A i \in DOMAIN output : b <= i => output[i].run = run
      BY <1>12, <1>13, <2>4
    <3>3. /\ b = Last(segments').chunks[1] + Len(Last(segments').chunks)
          /\ record'.size = Last(segments').offset + Len(Last(segments').chunks)
      BY <2>2, <2>4, <2>6
    <3> QED  BY <1>4, <2>6, <3>1, <3>2, <3>3 DEF Linked
  <2>8. ASSUME host # "disposed" PROVE Covered(b)'
    <3> SUFFICES ASSUME NEW i \in DOMAIN output, output[i].run = run, i < b
                 PROVE  Indexed(i)'
      BY <1>4 DEF Covered
    <3>1. CASE i < a
      BY <1>5, <2>6, <2>8, <3>1 DEF Covered
    <3>2. CASE ~ (i < a)
      <4>1. i \in Int /\ a <= i /\ i < a + n
        BY <1>13, <2>4, <3>2
      <4> QED  BY <2>6, <4>1
    <3> QED  BY <3>1, <3>2
  <2>9. b \in Nat \ {0} /\ record'.size = size
    BY <2>3, <2>4
  <2> QED  BY <1>4, <2>5, <2>6, <2>7, <2>8, <2>9, RestsInOrder
<1>15. CASE CommitFails
  <2>1. /\ o.op = "commit" /\ EndFlush(Taken, o.batch, FALSE) /\ record' = record
        /\ (segments' = segments \/ segments' = Append(segments, SegmentOf(o)))
    BY <1>15 DEF CommitFails, At, o
  <2>2. CASE segments' = segments
    BY <1>8, <2>1, <2>2
  <2>3. CASE segments' = Append(segments, SegmentOf(o))
    <3>1. /\ Chain' /\ LastOfThisRun' /\ Last(segments').offset = record.size
          /\ Last(segments').chunks[1] = a /\ Len(Last(segments').chunks) = n
          /\ \A i \in DOMAIN output : Indexed(i) => Indexed(i)'
      BY <1>11, <2>1, <2>3
    <3>2. PICK k, size : k = n + m /\ size = record.size
      OBVIOUS
    <3>3. Rests(spooler', a, k, size)
      <4>1. k = Remaining(n, m, FALSE) /\ a = FirstLeft(a, n, FALSE)
        BY <3>2 DEF Remaining, FirstLeft
      <4>2. EndFlush(Taken, Head(spooler.queue).batch, FALSE)
        BY <2>1 DEF o
      <4> QED  BY <1>1, <4>1, <4>2, FlushEnds, Zenon
    <3>4. Linked(a, 0, k)'
      <4>1. a + 0 + k = Len(output) + 1 /\ n <= k
        BY <1>2, <3>2
      <4>2. /\ a = Last(segments').chunks[1] /\ record'.size = Last(segments').offset
            /\ Len(Last(segments').chunks) <= k
        BY <2>1, <3>1, <4>1
      <4> QED  BY <1>4, <1>12, <3>1, <4>1, <4>2 DEF Linked
    <3>5. ASSUME host # "disposed" PROVE Covered(a)'
      BY <1>4, <1>5, <3>1, <3>5 DEF Covered
    <3>6. k \in Nat /\ record'.size = size
      BY <2>1, <3>2
    <3> QED  BY <1>4, <3>1, <3>3, <3>4, <3>5, <3>6, RestsInOrder
  <2> QED  BY <2>1, <2>2, <2>3
<1> QED
  BY <1>6, <1>7, <1>9, <1>14, <1>15 DEF Queue, DeleteLogs, DeleteLogsFails

(* A log that is kept was kept before.                                      *)
LEMMA KeptBefore ==
  ASSUME Basic, [Next]_vars, Kept'
  PROVE  Kept
<1>1. removal \in Removals
  BY BasicParts
<1>2. ASSUME UNCHANGED <<terminal, removal>> PROVE Kept
  BY <1>2 DEF Kept
<1>3. ASSUME NEW kind \in {"close", "delete"}, BeginRemoval(kind) PROVE Kept
  BY <1>3 DEF BeginRemoval, Kept
<1>4. CASE AbandonRemoval
  BY <1>1, <1>4 DEF AbandonRemoval, RemovalFlushed, Kept, Removals, service
<1>5. CASE DeleteRow
  BY <1>5 DEF DeleteRow, Kept
<1>6. CASE ClearLogs
  <2>1. \/ removal' = [removal EXCEPT !.step = "clearing", !.batch = spooler.mapped]
        \/ removal' = [removal EXCEPT !.step = "deleting"]
    BY <1>6 DEF ClearLogs
  <2> QED  BY <1>1, <2>1 DEF Removals, Kept
<1>7. CASE Restart
  BY <1>1, <1>7 DEF Restart, Kept, Removals
<1>8. CASE Output \/ RuntimeEnds \/ ReadHistory \/ FlushAtExit \/ DisposeBegin \/ DisposeEnd
  BY <1>2, <1>8 DEF Output, RuntimeEnds, ReadHistory, FlushAtExit, DisposeBegin, DisposeEnd,
                    service
<1>9. ASSUME NEW b \in Batches, TimerFires(b) PROVE Kept
  BY <1>2, <1>9 DEF TimerFires, service
<1>10. CASE PrepareAndAppend
  BY <1>2, <1>10 DEF PrepareAndAppend, service
<1>11. CASE PrepareFails \/ Commit \/ CommitFails
  <2>1. PICK b, ok : EndFlush(Taken, b, ok)
    BY <1>11 DEF PrepareFails, Commit, CommitFails
  <2>2. terminal' = terminal
    BY <1>11 DEF PrepareFails, Commit, CommitFails, service
  <2>3. \/ removal' = removal
        \/ /\ removal.step = "clearing" /\ removal'.kind = removal.kind
           /\ removal'.step = "deleting"
    BY <2>1, RemovalSteps
  <2> QED  BY <2>2, <2>3 DEF Kept
<1>12. CASE DeleteLogs \/ DeleteLogsFails
  <2>1. removal'.step \in {"done", "failed"}
    BY <1>1, <1>12 DEF DeleteLogs, DeleteLogsFails, Removals
  <2> QED  BY <2>1 DEF Kept
<1>13. CASE UNCHANGED vars
  BY <1>2, <1>13 DEF vars
<1> QED
  BY <1>3, <1>4, <1>5, <1>6, <1>7, <1>8, <1>9, <1>10, <1>11, <1>12, <1>13
     DEF Next, Service, Queue

LEMMA StepKeepsInOrder ==
  ASSUME LogInv, [Next]_vars
  PROVE  InOrder'
<1> SUFFICES ASSUME Kept' PROVE InOrder'
  BY DEF InOrder
<1>1. Basic /\ InOrder /\ Kept
  BY KeptBefore DEF LogInv
<1>2. Chain
  BY <1>1 DEF InOrder
<1>3. PICK w \in Batches \cup {0}, a \in Nat \ {0}, n \in Nat, m \in Nat : Fits(w, a, n, m)
  BY <1>1 DEF InOrder
<1>4. CASE RuntimeEnds \/ UNCHANGED vars
  <2>1. UNCHANGED <<output, cursor, run, host, segments, record, spooler>>
    BY <1>4 DEF RuntimeEnds, vars, stored
  <2>2. Carries(spooler, w, a, n, record.size) /\ (host # "disposed" => Live(spooler, w, a, n, m))
    BY <1>3 DEF Fits
  <2>3. host # "disposed" => Split(spooler, w, a, n, m, record.size)
    BY <2>2, SplitSame
  <2> QED  BY <1>1, <1>2, <1>3, <2>1, <2>2, <2>3, IndexLeft
<1>5. CASE Output
  BY <1>1, <1>2, <1>3, <1>5, OutputKeepsInOrder
<1>6. CASE Restart
  BY <1>1, <1>2, <1>6, RestartKeepsInOrder
<1>7. CASE Service
  BY <1>1, <1>2, <1>3, <1>7, ServiceKeepsInOrder
<1>8. CASE Queue
  BY <1>1, <1>2, <1>3, <1>8, QueueKeepsInOrder
<1>9. ASSUME NEW b \in Batches, TimerFires(b) PROVE InOrder'
  BY <1>1, <1>2, <1>3, <1>9, TimerKeepsInOrder
<1> QED  BY <1>4, <1>5, <1>6, <1>7, <1>8, <1>9 DEF Next

-----------------------------------------------------------------------------
(* The invariant.                                                           *)

LEMMA InitLogInv ==
  ASSUME Init
  PROVE  LogInv
<1>1. Basic
  BY InitBasic
<1>2. /\ output = <<>> /\ cursor = 0 /\ segments = <<>> /\ terminal = "open"
      /\ removal = [kind |-> "close", batch |-> 0, step |-> "none"]
      /\ spooler.mapped = 0 /\ spooler.queue = <<>>
      /\ \A b \in Batches : spooler.batch[b] = NoBatch
      /\ \A c \in Callers : spooler.call[c] = NoCall
      /\ DOMAIN <<>> = {} /\ Len(<<>>) = 0
  BY EmptySeq DEF Init
<1>3. Removed
  BY <1>2 DEF Removed
<1>4. Closed
  BY <1>2 DEF Closed, Closing
<1>5. Fits(0, 1, 0, 0)
  <2>1. Carries(spooler, 0, 1, 0, record.size)
    BY <1>2 DEF Carries
  <2>2. Live(spooler, 0, 1, 0, 0)
    BY <1>2 DEF Live, Promised, NoCall
  <2>3. Linked(1, 0, 0)
    BY <1>2 DEF Linked, LastOfThisRun
  <2>4. Covered(1)
    BY <1>2 DEF Covered
  <2> QED  BY <2>1, <2>2, <2>3, <2>4 DEF Fits
<1>6. Chain
  BY <1>2 DEF Chain
<1>7. InOrder
  BY <1>5, <1>6 DEF InOrder
<1> QED  BY <1>1, <1>3, <1>4, <1>7 DEF LogInv

LEMMA SpecKeepsLogInv == Spec => []LogInv
<1>1. Init => LogInv
  BY InitLogInv
<1>2. LogInv /\ [Next]_vars => LogInv'
  <2> SUFFICES ASSUME LogInv, [Next]_vars PROVE LogInv'
    OBVIOUS
  <2>1. Basic'
    BY StepKeepsBasic DEF LogInv
  <2>2. InOrder'
    BY StepKeepsInOrder
  <2>3. Removed'
    BY StepKeepsRemoved
  <2>4. Closed'
    BY StepKeepsClosed
  <2> QED  BY <2>1, <2>2, <2>3, <2>4 DEF LogInv
<1> QED  BY <1>1, <1>2, PTL DEF Spec

-----------------------------------------------------------------------------
(* The properties of the module.                                            *)

(* The state of the spooler, the tables and the file always has its type.   *)
THEOREM LogTypeCorrect == Spec => []LogTypeOK
<1>1. LogInv => LogTypeOK
  BY DEF LogInv, Basic
<1> QED  BY <1>1, SpecKeepsLogInv, PTL

LEMMA Unstranded ==
  ASSUME LogInv
  PROVE  NothingIsStranded
<1> SUFFICES ASSUME Kept, host # "disposed"
             PROVE  /\ \A i \in OfThisRun : Indexed(i) \/ InBatch(spooler.mapped, i)
                    /\ \A b \in Batches : b = spooler.mapped /\ ~Flushing(spooler, b) =>
                         spooler.batch[b].chunks # <<>> /\ spooler.batch[b].timer
  BY DEF NothingIsStranded
<1>1. PICK w \in Batches \cup {0}, a \in Nat \ {0}, n \in Nat, m \in Nat : Fits(w, a, n, m)
  BY DEF LogInv, InOrder
<1>2. /\ Carries(spooler, w, a, n, record.size) /\ Live(spooler, w, a, n, m)
      /\ Linked(a, n, m) /\ Covered(a) /\ Basic
  BY <1>1 DEF Fits, LogInv
<1>3. ASSUME w # 0
      PROVE  /\ w \in Batches
             /\ spooler.batch[w].inflight \in Seq(Chunks) /\ spooler.batch[w].chunks \in Seq(Chunks)
             /\ Goes(spooler.batch[w].inflight, a, n) /\ Goes(spooler.batch[w].chunks, a + n, m)
             /\ (n = 0 => m # 0 /\ spooler.batch[w].timer)
  <2>1. w \in Batches /\ spooler.batch[w] \in Batch
    BY <1>2, <1>3, BasicParts
  <2> QED  BY <1>2, <1>3, <2>1 DEF Batch, Carries, Live
<1>4. DOMAIN output = 1..Len(output) /\ Len(output) \in Nat
      /\ a + n + m = Len(output) + 1 /\ spooler.mapped = w
  <2>1. DOMAIN output = 1..Len(output) /\ Len(output) \in Nat
    BY <1>2, BasicParts, LenProperties
  <2> QED  BY <1>2, <2>1 DEF Linked, Live
<1>5. ASSUME NEW i \in OfThisRun PROVE Indexed(i) \/ InBatch(spooler.mapped, i)
  <2>1. i \in DOMAIN output /\ output[i].run = run /\ i \in Int
    BY <1>4 DEF OfThisRun
  <2>2. CASE i < a
    BY <1>2, <2>1, <2>2 DEF Covered
  <2>3. CASE ~ (i < a)
    <3>1. w # 0
      <4> SUFFICES ASSUME w = 0 PROVE FALSE
        OBVIOUS
      <4>1. n = 0 /\ m = 0
        BY <1>2 DEF Carries, Live
      <4> QED  BY <1>4, <2>1, <2>3, <4>1
    <3>2. (a <= i /\ i < a + n) \/ (a + n <= i /\ i < a + n + m)
      BY <1>4, <2>1, <2>3
    <3>3. i \in ToSet(spooler.batch[w].inflight) \/ i \in ToSet(spooler.batch[w].chunks)
      <4>1. a + n \in Nat
        OBVIOUS
      <4>2. a <= i /\ i < a + n => i \in ToSet(spooler.batch[w].inflight)
        BY <1>3, <2>1, <3>1, GoesMembers
      <4>3. a + n <= i /\ i < a + n + m => i \in ToSet(spooler.batch[w].chunks)
        BY <1>3, <2>1, <3>1, <4>1, GoesMembers
      <4> QED  BY <3>2, <4>2, <4>3
    <3> QED  BY <1>4, <3>1, <3>3 DEF InBatch
  <2> QED  BY <2>2, <2>3
<1>6. ASSUME NEW b \in Batches, b = spooler.mapped, ~Flushing(spooler, b)
      PROVE  spooler.batch[b].chunks # <<>> /\ spooler.batch[b].timer
  <2>1. w # 0 /\ b = w /\ spooler.batch[w].inflight = <<>>
    BY <1>4, <1>6, NotABatch DEF Flushing
  <2>2. n = 0
    BY <1>3, <2>1, GoesEmpty
  <2>3. spooler.batch[w].chunks # <<>>
    <3>1. m # 0 /\ a + n \in Nat
      BY <1>3, <2>1, <2>2
    <3> QED  BY <1>3, <2>1, <3>1, GoesEmpty
  <2> QED  BY <1>3, <2>1, <2>2, <2>3
<1> QED  BY <1>5, <1>6

(* Whatever fails, and however flushes, outputs and calls interleave, a     *)
(* chunk of a log in service is in the index or in the batch of the map,    *)
(* and a batch that waits has a timer.                                      *)
THEOREM OutputIsNeverStranded == Spec => []NothingIsStranded
<1>1. LogInv => NothingIsStranded
  BY Unstranded
<1> QED  BY <1>1, SpecKeepsLogInv, PTL

LEMMA TakenForCalls ==
  ASSUME LogInv
  PROVE  FlushTakesWhatItFound
<1> SUFFICES ASSUME Kept, host # "disposed", NEW c \in Callers,
                    spooler.call[c].state = "returned", spooler.call[c].ok,
                    NEW i \in OfThisRun, i <= spooler.call[c].upto
             PROVE  \/ Indexed(i)
                    \/ /\ spooler.mapped # 0
                       /\ i \in ToSet(spooler.batch[spooler.mapped].inflight)
  BY DEF FlushTakesWhatItFound
<1>1. PICK w \in Batches \cup {0}, a \in Nat \ {0}, n \in Nat, m \in Nat : Fits(w, a, n, m)
  BY DEF LogInv, InOrder
<1>2. /\ Carries(spooler, w, a, n, record.size) /\ Live(spooler, w, a, n, m)
      /\ Covered(a) /\ Basic
  BY <1>1 DEF Fits, LogInv
<1>3. DOMAIN output = 1..Len(output) /\ Len(output) \in Nat /\ spooler \in Spooler
  BY <1>2, BasicParts, LenProperties
<1>4. spooler.call[c].upto \in Nat /\ spooler.call[c].upto < a + n
  <2>1. spooler.call[c].upto \in Nat
    BY <1>3, Numbers DEF Spooler, Call
  <2> QED  BY <1>2, <2>1 DEF Live, Promised
<1>5. i \in DOMAIN output /\ output[i].run = run /\ i \in Int
  BY <1>3 DEF OfThisRun
<1>6. CASE i < a
  BY <1>2, <1>5, <1>6 DEF Covered
<1>7. CASE ~ (i < a)
  <2>1. a <= i /\ i < a + n /\ n # 0
    BY <1>4, <1>5, <1>7
  <2>2. w # 0 /\ w \in Batches /\ spooler.mapped = w
    BY <1>2, <2>1 DEF Carries, Live
  <2>3. spooler.batch[w].inflight \in Seq(Chunks) /\ Goes(spooler.batch[w].inflight, a, n)
    BY <1>2, <1>3, <2>2 DEF Carries, Spooler, Batch
  <2> QED  BY <1>5, <2>1, <2>2, <2>3, GoesMembers
<1> QED  BY <1>6, <1>7

(* A call of flushTerminal that returned, with no flush failed since it was *)
(* made, has left nothing of what it found waiting.                         *)
THEOREM FlushesTakeWhatTheyFound == Spec => []FlushTakesWhatItFound
<1>1. LogInv => FlushTakesWhatItFound
  BY TakenForCalls
<1> QED  BY <1>1, SpecKeepsLogInv, PTL

LEMMA Chained ==
  ASSUME LogInv
  PROVE  IndexIsAChain
<1> SUFFICES ASSUME Kept, NEW n \in DOMAIN segments
             PROVE  LET c == segments[n].chunks
                        runOf == output[c[1]].run
                    IN  /\ \A k \in DOMAIN c : c[k] = c[1] + k - 1 /\ output[c[k]].run = runOf
                        /\ IF n > 1 /\ output[segments[n - 1].chunks[1]].run = runOf
                             THEN LET p == segments[n - 1]
                                  IN  \/ /\ c[1] = Last(p.chunks) + 1
                                         /\ segments[n].offset = p.offset + Len(p.chunks)
                                      \/ segments[n].offset = p.offset /\ IsPrefix(p.chunks, c)
                             ELSE output[c[1]].cursor = 1
  BY DEF IndexIsAChain
<1>1. Basic /\ Chain
  BY DEF LogInv, InOrder
<1>2. PICK f \in Nat \ {0}, l \in Nat \ {0} :
        /\ Links(n, f, l) /\ segments[n].chunks[1] = f /\ Len(segments[n].chunks) = l
        /\ f \in 1..Len(output) /\ f + l - 1 <= Len(output)
  BY <1>1, SegmentParts
<1>3. /\ segments \in Seq([offset: Nat, chunks: Seq(Chunks)])
      /\ DOMAIN segments = 1..Len(segments) /\ Len(segments) \in Nat
      /\ DOMAIN output = 1..Len(output) /\ Len(output) \in Nat
  BY <1>1, BasicParts, LenProperties
<1>4. /\ Goes(segments[n].chunks, f, l)
      /\ \A k \in DOMAIN output : f <= k /\ k < f + l => output[k].run = output[f].run
      /\ IF n > 1 /\ output[segments[n - 1].chunks[1]].run = output[f].run
           THEN LET p == segments[n - 1]
                IN  \/ /\ f = p.chunks[1] + Len(p.chunks)
                       /\ segments[n].offset = p.offset + Len(p.chunks)
                    \/ /\ f = p.chunks[1] /\ segments[n].offset = p.offset
                       /\ Len(p.chunks) <= l
           ELSE output[f].cursor = 1
  BY <1>2 DEF Links
<1> DEFINE c == segments[n].chunks
<1>5. c \in Seq(Chunks) /\ c[1] = f /\ Goes(c, f, l) /\ DOMAIN c = 1..l
  <2>1. segments[n] \in [offset: Nat, chunks: Seq(Chunks)]
    BY <1>3, ElementOfSeq
  <2>2. c \in Seq(Chunks)
    BY <2>1
  <2> QED  BY <1>2, <1>4, <2>2, LenProperties
<1>6. ASSUME NEW k \in DOMAIN c
      PROVE  c[k] = c[1] + k - 1 /\ output[c[k]].run = output[c[1]].run
  <2>1. k \in 1..l /\ c[k] = f + k - 1
    BY <1>5, <1>6 DEF Goes
  <2>2. f + k - 1 \in DOMAIN output /\ f <= f + k - 1 /\ f + k - 1 < f + l
    BY <1>2, <1>3, <2>1
  <2>3. output[f + k - 1].run = output[f].run
    BY <1>4, <2>2
  <2> QED  BY <1>5, <2>1, <2>3
<1>7. CASE n > 1 /\ output[segments[n - 1].chunks[1]].run = output[f].run
  <2> DEFINE p == segments[n - 1]
  <2>1. n - 1 \in DOMAIN segments
    BY <1>3, <1>7
  <2>2. PICK g \in Nat \ {0}, h \in Nat \ {0} :
          Links(n - 1, g, h) /\ p.chunks[1] = g /\ Len(p.chunks) = h
    BY <1>1, <2>1, SegmentParts
  <2>3. Goes(p.chunks, g, h)
    BY <2>2 DEF Links
  <2>4. p \in [offset: Nat, chunks: Seq(Chunks)]
    BY <1>3, <2>1, ElementOfSeq
  <2>5. \/ f = g + h /\ segments[n].offset = p.offset + h
        \/ f = g /\ segments[n].offset = p.offset /\ h <= l
    BY <1>4, <1>7, <2>2
  <2> HIDE DEF c, p
  <2>6. p.chunks \in Seq(Chunks)
    BY <2>4
  <2>7. Last(p.chunks) = g + h - 1
    <3>1. h \in 1..h /\ p.chunks[h] = g + h - 1 /\ Len(p.chunks) = h
      BY <2>3 DEF Goes
    <3> QED  BY <3>1 DEF Last
  <2>8. CASE f = g + h /\ segments[n].offset = p.offset + h
    <3>1. c[1] = Last(p.chunks) + 1 /\ segments[n].offset = p.offset + Len(p.chunks)
      BY <1>5, <2>2, <2>7, <2>8
    <3> QED  BY <1>5, <1>6, <1>7, <3>1 DEF c, p
  <2>9. CASE f = g /\ segments[n].offset = p.offset /\ h <= l
    <3>1. IsPrefix(p.chunks, c)
      BY <1>5, <2>3, <2>6, <2>9, GoesPrefix
    <3> QED  BY <1>5, <1>6, <1>7, <2>9, <3>1 DEF c, p
  <2> QED  BY <2>5, <2>8, <2>9
<1>8. CASE ~ (n > 1 /\ output[segments[n - 1].chunks[1]].run = output[f].run)
  <2>1. output[c[1]].cursor = 1
    BY <1>4, <1>5, <1>8
  <2> QED  BY <1>5, <1>6, <1>8, <2>1
<1> QED  BY <1>7, <1>8

(* While the log is kept, its segments cover the output of each run from    *)
(* the first chunk on, without a gap and in order; only a retry of a        *)
(* half-committed flush repeats a segment, with all of it.                  *)
THEOREM IndexStaysAChain == Spec => []IndexIsAChain
<1>1. LogInv => IndexIsAChain
  BY Chained
<1> QED  BY <1>1, SpecKeepsLogInv, PTL

(* A removal that is done has removed the file, the segments and the        *)
(* record, and of a closed terminal nothing is left to bring one back.      *)
THEOREM RemovalsLeaveNothing == Spec => []RemovalLeavesNothing
<1>1. LogInv => RemovalLeavesNothing
  BY DEF LogInv, Removed, Gone, Closed, Closing, NoFlush, RemovalLeavesNothing
<1> QED  BY <1>1, SpecKeepsLogInv, PTL

=============================================================================
