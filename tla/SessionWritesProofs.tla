------------------------- MODULE SessionWritesProofs -------------------------
(***************************************************************************)
(* Proofs about the latest-wins writes of session rows: a pending entry of *)
(* the guard always has a write or a callback under way that ends it, and  *)
(* where every write takes its turn in the queue the guard refuses only    *)
(* repetitions.                                                            *)
(***************************************************************************)
EXTENDS SessionWrites, SqliteWriteQueueProofs

-----------------------------------------------------------------------------
(* The callbacks of the writes decided by a step.                           *)

(* g has the sequences of answers after 0, 1, 2, ... commands.              *)
Collects(as, before, after, pl, g) ==
  /\ g \in [0..MaxCommands -> Seq(Answer)]
  /\ g[0] = as /\ g[MaxCommands] = Answered(as, before, after, pl)
  /\ \A c \in Commands :
       g[c] = IF Decides(before, after, pl, c)
                THEN Append(g[c - 1], AnswerOf(after, pl, c)) ELSE g[c - 1]

LEMMA AnswerType ==
  ASSUME NEW after, NEW pl \in [Commands -> Payload], NEW c \in Commands
  PROVE  AnswerOf(after, pl, c) \in Answer
BY DEF AnswerOf, Answer, Payload

LEMMA AnsweredSteps ==
  ASSUME NEW as \in Seq(Answer), NEW before, NEW after,
         NEW pl \in [Commands -> Payload]
  PROVE  \E g : Collects(as, before, after, pl, g)
<1> DEFINE n == MaxCommands
           T == Seq(Answer)
           D(c) == Decides(before, after, pl, c)
           A(c) == AnswerOf(after, pl, c)
           w(s, c) == IF D(c) THEN Append(s, A(c)) ELSE s
           step == [p \in T \X (1..n) |-> w(p[1], p[2])]
           ids == [c \in Commands |-> c]
           Iter(f) == [s \in SUBSET (DOMAIN ids) |->
                        IF s = {} THEN as ELSE w(f[s \ {Max(s)}], ids[Max(s)])]
           iter == CHOOSE f : f = Iter(f)
<1>1. Answered(as, before, after, pl) = iter[DOMAIN ids]
  BY DEF Answered, FoldLeft, MapThenFoldSet
<1>2. n \in Nat /\ Commands = 1..n /\ DOMAIN ids = 1..n /\ \A c \in 1..n : ids[c] = c
  BY LimitTypes DEF Commands
<1> HIDE DEF ids
<1>3. \A s \in T, c \in 1..n : w(s, c) \in T
  <2>1. ASSUME NEW s \in T, NEW c \in 1..n PROVE w(s, c) \in T
    <3>1. A(c) \in Answer
      BY <1>2, AnswerType
    <3> HIDE DEF A
    <3> QED  BY <3>1, AppendProperties
  <2> QED  BY <2>1
<1> HIDE DEF n, w, T
<1>4. step \in [T \X (1..n) -> T]
  BY <1>3
<1>5. as \in T
  BY DEF T
<1>6. PICK f : IsFold(T, as, n, step, f)
  <2> HIDE DEF step
  <2> QED  BY <1>2, <1>4, <1>5, FoldExists
<1>7. ASSUME NEW s \in SUBSET (1..n), s # {}
      PROVE  f[s] = w(f[s \ {Max(s)}], ids[Max(s)])
  <2>1. Max(s) \in s /\ ids[Max(s)] = Max(s)
    BY <1>2, <1>7, MaxOfNumbers
  <2>2. <<f[s \ {Max(s)}], Max(s)>> \in T \X (1..n)
    BY <1>6, <2>1 DEF IsFold
  <2> QED  BY <1>6, <1>7, <2>1, <2>2 DEF IsFold
<1>8. f = Iter(f)
  BY <1>2, <1>6, <1>7 DEF IsFold
<1>9. iter = Iter(iter)
  <2> HIDE DEF Iter
  <2> QED  BY <1>8
<1> HIDE DEF iter
<1>10. iter[{}] = as /\ \A s \in SUBSET (1..n) :
         s # {} => iter[s] = w(iter[s \ {Max(s)}], ids[Max(s)])
  <2>1. \A s \in SUBSET (1..n) :
          iter[s] = IF s = {} THEN as ELSE w(iter[s \ {Max(s)}], ids[Max(s)])
    BY <1>2, <1>9
  <2> QED  BY <2>1
<1> HIDE DEF Iter
<1>11. ASSUME NEW s \in SUBSET (1..n), s # {}, iter[s \ {Max(s)}] \in T
       PROVE  iter[s] = step[<<iter[s \ {Max(s)}], Max(s)>>]
  <2>1. Max(s) \in s /\ ids[Max(s)] = Max(s)
    BY <1>2, <1>11, MaxOfNumbers
  <2>2. <<iter[s \ {Max(s)}], Max(s)>> \in T \X (1..n)
    BY <1>11, <2>1
  <2> QED  BY <1>10, <1>11, <2>1, <2>2
<1>12. PICK g : IsChain(T, as, n, step, iter, g)
  <2> HIDE DEF step
  <2>1. StepsDown(T, as, n, step, iter)
    BY <1>10, <1>11 DEF StepsDown
  <2> QED  BY <1>2, <1>4, <1>5, <2>1, FoldChain
<1>13. /\ g \in [0..n -> T] /\ g[0] = as
       /\ g[n] = Answered(as, before, after, pl)
       /\ \A k \in 1..n : g[k] = step[<<g[k - 1], k>>]
  BY <1>1, <1>2, <1>12 DEF IsChain
<1>14. ASSUME NEW k \in 1..n PROVE g[k] = w(g[k - 1], k)
  <2>1. <<g[k - 1], k>> \in T \X (1..n)
    <3>1. k - 1 \in 0..n
      BY <1>2
    <3> QED  BY <1>13, <3>1
  <2> QED  BY <1>13, <2>1
<1>15. \A c \in Commands : g[c] = w(g[c - 1], c)
  BY <1>2, <1>14
<1> QED  BY <1>13, <1>15 DEF Collects, n, w, T

(* A step adds the answer of each write it decides, and no other.           *)
AnsweredBy(before, after, pl) ==
  {AnswerOf(after, pl, c) : c \in {d \in Commands : Decides(before, after, pl, d)}}

LEMMA AnsweredProperties ==
  ASSUME NEW as \in Seq(Answer), NEW before, NEW after,
         NEW pl \in [Commands -> Payload]
  PROVE  /\ Answered(as, before, after, pl) \in Seq(Answer)
         /\ ToSet(Answered(as, before, after, pl))
              = ToSet(as) \cup AnsweredBy(before, after, pl)
<1> DEFINE n == MaxCommands
           D(c) == Decides(before, after, pl, c)
           A(c) == AnswerOf(after, pl, c)
<1>1. PICK g : Collects(as, before, after, pl, g)
  BY AnsweredSteps
<1>2. n \in Nat /\ Commands = 1..n
  BY LimitTypes DEF Commands
<1>3. /\ g \in [0..n -> Seq(Answer)] /\ g[0] = as
      /\ g[n] = Answered(as, before, after, pl)
      /\ \A c \in 1..n : g[c] = IF D(c) THEN Append(g[c - 1], A(c)) ELSE g[c - 1]
  BY <1>1, <1>2 DEF Collects
<1>4. \A c \in 1..n : A(c) \in Answer
  BY <1>2, AnswerType
<1>5. AnsweredBy(before, after, pl) = {A(c) : c \in {d \in 1..n : D(d)}}
  BY <1>2 DEF AnsweredBy
<1> HIDE DEF n, A, D
<1> DEFINE By(k) == {A(c) : c \in {d \in 1..k : D(d)}}
           S == {k \in Nat : k <= n => ToSet(g[k]) = ToSet(as) \cup By(k)}
<1>6. 0 \in S
  <2>1. By(0) = {}
    BY EmptyInterval
  <2> HIDE DEF By
  <2> QED  BY <1>3, <2>1
<1>7. ASSUME NEW k \in Nat, k \in S PROVE k + 1 \in S
  <2> HIDE DEF By
  <2> SUFFICES ASSUME k + 1 <= n PROVE ToSet(g[k + 1]) = ToSet(as) \cup By(k + 1)
    <3>1. k + 1 \in Nat
      OBVIOUS
    <3> QED  BY <3>1, Zenon
  <2>1. k + 1 \in 1..n /\ k + 1 - 1 = k /\ k <= n /\ k \in 0..n
    BY <1>2
  <2>2. g[k + 1] = IF D(k + 1) THEN Append(g[k], A(k + 1)) ELSE g[k]
    BY <1>3, <2>1
  <2>3. ToSet(g[k]) = ToSet(as) \cup By(k)
    BY <1>7, <2>1
  <2>4. 1..(k + 1) = (1..k) \cup {k + 1}
    OBVIOUS
  <2>5. By(k + 1) = IF D(k + 1) THEN By(k) \cup {A(k + 1)} ELSE By(k)
    BY <2>4 DEF By
  <2>6. g[k] \in Seq(Answer) /\ A(k + 1) \in Answer
    BY <1>3, <1>4, <2>1
  <2>7. ToSet(Append(g[k], A(k + 1))) = ToSet(g[k]) \cup {A(k + 1)}
    BY <2>6, ToSetAppend
  <2> QED  BY <2>2, <2>3, <2>5, <2>7
<1>8. Nat \subseteq S
  <2> HIDE DEF S
  <2> QED  BY <1>6, <1>7, SetInduction
<1>9. n <= n /\ n \in 0..n
  BY <1>2
<1>10. ToSet(g[n]) = ToSet(as) \cup By(n)
  <2> HIDE DEF By
  <2> QED  BY <1>2, <1>8, <1>9
<1>11. g[n] \in Seq(Answer)
  BY <1>3, <1>9
<1> QED  BY <1>3, <1>5, <1>10, <1>11

-----------------------------------------------------------------------------
(* One step of the queue, seen by the writes of one row.                    *)

(* Waiting(k), and the two properties for one key, of given states.         *)
WaitingIn(n, cs, pl, k) ==
  {c \in 1..n : cs[c].outcome = "pending" /\ ~pl[c].transaction /\ pl[c].key = k}

HasWrite(n, cs, pl, as, e, k) ==
  e.pending =>
    \/ \E c \in WaitingIn(n, cs, pl, k) : pl[c].value = e.value
    \/ \E a \in ToSet(as) : a.key = k /\ a.value = e.value

FailsIn(as, k, v) == [key |-> k, value |-> v, ok |-> FALSE] \in ToSet(as)

ProjectedIn(n, cs, pl, r, k) ==
  IF WaitingIn(n, cs, pl, k) = {} THEN r ELSE pl[Max(WaitingIn(n, cs, pl, k))].value

RefusesOnly(n, cs, pl, as, r, v, k) ==
  v # NoValue => ProjectedIn(n, cs, pl, r, k) = v \/ FailsIn(as, k, v)

(* The first n commands keep their policies; of those that are pending only *)
(* members of T may be resolved, the others stay pending or are rejected.   *)
Proceeds(n, cs, ds, T) ==
  \A c \in 1..n :
    /\ ds[c].policy = cs[c].policy
    /\ \/ ds[c].outcome = cs[c].outcome
       \/ /\ cs[c].outcome = "pending"
          /\ \/ ds[c].outcome \in {"failed", "backpressure", "coalesced", "closed"}
             \/ c \in T /\ ds[c].outcome = "resolved"

(* A step from n commands in cs to m in ds, and from the answers as to bs.  *)
Step(n, m, cs, ds, pl, ql, as, bs, T) ==
  /\ n \in Nat /\ m \in Nat /\ n <= m /\ m <= MaxCommands
  /\ pl \in [Commands -> Payload] /\ ql \in [Commands -> Payload]
  /\ \A c \in 1..n : ql[c] = pl[c]
  /\ Proceeds(n, cs, ds, T)
  /\ ToSet(bs) = ToSet(as) \cup AnsweredBy(cs, ds, ql)

LEMMA WaitingNumbers ==
  ASSUME NEW n, NEW cs, NEW pl, NEW k
  PROVE  WaitingIn(n, cs, pl, k) \in SUBSET (1..n)
BY DEF WaitingIn

(* A write that waits no longer has its answer under way.                   *)
LEMMA LeavesWithAnswer ==
  ASSUME NEW n, NEW m, NEW cs, NEW ds, NEW pl, NEW ql, NEW as, NEW bs, NEW T, NEW k,
         Step(n, m, cs, ds, pl, ql, as, bs, T),
         NEW c \in WaitingIn(n, cs, pl, k)
  PROVE  \/ c \in WaitingIn(m, ds, ql, k)
         \/ /\ ds[c].outcome = "resolved" /\ c \in T
            /\ [key |-> k, value |-> pl[c].value, ok |-> TRUE] \in ToSet(bs)
         \/ /\ ds[c].outcome # "resolved" /\ FailsIn(bs, k, pl[c].value)
<1>1. /\ c \in 1..n /\ cs[c].outcome = "pending" /\ ~pl[c].transaction /\ pl[c].key = k
      /\ c \in 1..m /\ c \in Commands
  BY LimitTypes DEF WaitingIn, Step, Commands
<1>2. ql[c] = pl[c]
  BY <1>1 DEF Step
<1>3. CASE ds[c].outcome = "pending"
  BY <1>1, <1>2, <1>3 DEF WaitingIn
<1>4. CASE ds[c].outcome \in {"failed", "backpressure", "coalesced", "closed"}
  <2>1. Decides(cs, ds, ql, c)
    BY <1>1, <1>2, <1>4 DEF Decides
  <2>2. AnswerOf(ds, ql, c) = [key |-> k, value |-> pl[c].value, ok |-> FALSE]
    BY <1>1, <1>2, <1>4 DEF AnswerOf
  <2>3. AnswerOf(ds, ql, c) \in AnsweredBy(cs, ds, ql)
    BY <1>1, <2>1 DEF AnsweredBy
  <2>4. AnswerOf(ds, ql, c) \in ToSet(bs)
    BY <2>3 DEF Step
  <2> QED  BY <1>4, <2>2, <2>4 DEF FailsIn
<1>5. CASE c \in T /\ ds[c].outcome = "resolved"
  <2>1. Decides(cs, ds, ql, c)
    BY <1>1, <1>2, <1>5 DEF Decides
  <2>2. AnswerOf(ds, ql, c) = [key |-> k, value |-> pl[c].value, ok |-> TRUE]
    BY <1>1, <1>2, <1>5 DEF AnswerOf
  <2>3. AnswerOf(ds, ql, c) \in AnsweredBy(cs, ds, ql)
    BY <1>1, <2>1 DEF AnsweredBy
  <2>4. AnswerOf(ds, ql, c) \in ToSet(bs)
    BY <2>3 DEF Step
  <2> QED  BY <1>5, <2>2, <2>4
<1>6. Proceeds(n, cs, ds, T)
  BY DEF Step
<1> QED  BY <1>1, <1>3, <1>4, <1>5, <1>6 DEF Proceeds

LEMMA HasWriteKept ==
  ASSUME NEW n, NEW m, NEW cs, NEW ds, NEW pl, NEW ql, NEW as, NEW bs, NEW T, NEW k,
         Step(n, m, cs, ds, pl, ql, as, bs, T),
         NEW e, HasWrite(n, cs, pl, as, e, k)
  PROVE  HasWrite(m, ds, ql, bs, e, k)
<1> SUFFICES ASSUME e.pending
             PROVE  \/ \E c \in WaitingIn(m, ds, ql, k) : ql[c].value = e.value
                    \/ \E a \in ToSet(bs) : a.key = k /\ a.value = e.value
  BY DEF HasWrite
<1>1. CASE \E a \in ToSet(as) : a.key = k /\ a.value = e.value
  BY <1>1 DEF Step
<1>2. ASSUME NEW c \in WaitingIn(n, cs, pl, k), pl[c].value = e.value
      PROVE  \/ \E d \in WaitingIn(m, ds, ql, k) : ql[d].value = e.value
             \/ \E a \in ToSet(bs) : a.key = k /\ a.value = e.value
  <2>1. ql[c] = pl[c]
    BY DEF WaitingIn, Step
  <2>2. CASE c \in WaitingIn(m, ds, ql, k)
    BY <1>2, <2>1, <2>2
  <2>3. ASSUME NEW ok, [key |-> k, value |-> pl[c].value, ok |-> ok] \in ToSet(bs)
        PROVE  \E a \in ToSet(bs) : a.key = k /\ a.value = e.value
    <3> DEFINE b == [key |-> k, value |-> pl[c].value, ok |-> ok]
    <3>1. b.key = k /\ b.value = e.value
      BY <1>2
    <3> HIDE DEF b
    <3>2. b \in ToSet(bs)
      BY <2>3 DEF b
    <3> QED  BY <3>1, <3>2
  <2> QED  BY <2>2, <2>3, LeavesWithAnswer DEF FailsIn
<1> QED  BY <1>1, <1>2 DEF HasWrite

(* A step without a commit and without a new write of the row.              *)
Harmless(n, m, cs, ds, pl, ql, k) ==
  /\ WaitingIn(m, ds, ql, k) \subseteq WaitingIn(n, cs, pl, k)
  /\ \A c \in WaitingIn(n, cs, pl, k) : ds[c].outcome # "resolved"

(* It does not make the guard refuse more than it may.                      *)
LEMMA RefusesOnlyKept ==
  ASSUME NEW n, NEW m, NEW cs, NEW ds, NEW pl, NEW ql, NEW as, NEW bs, NEW T, NEW k,
         Step(n, m, cs, ds, pl, ql, as, bs, T),
         Harmless(n, m, cs, ds, pl, ql, k),
         NEW r, NEW v, RefusesOnly(n, cs, pl, as, r, v, k)
  PROVE  RefusesOnly(m, ds, ql, bs, r, v, k)
<1> DEFINE W == WaitingIn(n, cs, pl, k)
           X == WaitingIn(m, ds, ql, k)
<1> SUFFICES ASSUME v # NoValue, ~FailsIn(as, k, v)
             PROVE  ProjectedIn(m, ds, ql, r, k) = v \/ FailsIn(bs, k, v)
  BY DEF RefusesOnly, FailsIn, Step
<1>1. W \in SUBSET (1..n) /\ X \subseteq W /\ n \in Nat
  BY WaitingNumbers DEF Step, Harmless
<1>2. ProjectedIn(n, cs, pl, r, k) = v
  BY DEF RefusesOnly
<1>3. CASE W = {}
  BY <1>1, <1>2, <1>3 DEF ProjectedIn
<1>4. CASE W # {}
  <2> DEFINE c == Max(W)
  <2>1. c \in W /\ \A d \in W : d <= c
    <3> HIDE DEF W
    <3> QED  BY <1>1, <1>4, MaxOfNumbers
  <2>2. pl[c].value = v
    BY <1>2, <1>4 DEF ProjectedIn
  <2>3. ql[c] = pl[c]
    BY <1>1, <2>1 DEF Step
  <2> HIDE DEF c
  <2>4. CASE c \in X
    <3>1. X \in SUBSET (1..n) /\ \A d \in X : d <= c
      BY <1>1, <2>1
    <3>2. Max(X) = c
      <4> HIDE DEF X
      <4> QED  BY <1>1, <2>4, <3>1, MaxIs
    <3> QED  BY <2>2, <2>3, <2>4, <3>2 DEF ProjectedIn
  <2>5. CASE c \notin X
    <3>1. ds[c].outcome # "resolved"
      BY <2>1 DEF Harmless
    <3> QED  BY <2>1, <2>2, <2>5, <3>1, LeavesWithAnswer
  <2> QED  BY <2>4, <2>5
<1> QED  BY <1>3, <1>4

LEMMA NoNewWrites ==
  ASSUME NEW n, NEW m, NEW cs, NEW ds, NEW pl, NEW ql, NEW as, NEW bs, NEW T, NEW k,
         Step(n, m, cs, ds, pl, ql, as, bs, T),
         \/ m = n
         \/ m = n + 1 /\ (ql[m].transaction \/ ql[m].key # k)
  PROVE  WaitingIn(m, ds, ql, k) \subseteq WaitingIn(n, cs, pl, k)
<1> SUFFICES ASSUME NEW c \in WaitingIn(m, ds, ql, k)
             PROVE  c \in WaitingIn(n, cs, pl, k)
  OBVIOUS
<1>1. c \in 1..m /\ ds[c].outcome = "pending" /\ ~ql[c].transaction /\ ql[c].key = k
  BY DEF WaitingIn
<1>2. c \in 1..n
  BY <1>1 DEF Step
<1>3. ql[c] = pl[c] /\ cs[c].outcome = "pending"
  BY <1>1, <1>2 DEF Step, Proceeds
<1> QED  BY <1>1, <1>2, <1>3 DEF WaitingIn

(* The oldest write of the row commits: what the row holds then is what the *)
(* guard expects, or a later write is still to come.                        *)
LEMMA RefusesOnlyCommitted ==
  ASSUME NEW n, NEW cs, NEW ds, NEW pl, NEW as, NEW bs, NEW T, NEW k,
         Step(n, n, cs, ds, pl, pl, as, bs, T),
         NEW b \in WaitingIn(n, cs, pl, k),
         WaitingIn(n, ds, pl, k) = WaitingIn(n, cs, pl, k) \ {b},
         \A d \in WaitingIn(n, cs, pl, k) : b <= d,
         NEW r, NEW v, RefusesOnly(n, cs, pl, as, r, v, k)
  PROVE  RefusesOnly(n, ds, pl, bs, pl[b].value, v, k)
<1> DEFINE W == WaitingIn(n, cs, pl, k)
           X == WaitingIn(n, ds, pl, k)
           c == Max(W)
<1> SUFFICES ASSUME v # NoValue, ~FailsIn(as, k, v)
             PROVE  ProjectedIn(n, ds, pl, pl[b].value, k) = v \/ FailsIn(bs, k, v)
  BY DEF RefusesOnly, FailsIn, Step
<1>1. W \in SUBSET (1..n) /\ X = W \ {b} /\ n \in Nat /\ b \in W
  BY WaitingNumbers DEF Step
<1>2. pl[c].value = v
  BY <1>1 DEF RefusesOnly, ProjectedIn
<1>3. c \in W /\ (\A d \in W : d <= c) /\ (\A d \in W : b <= d)
  <2> HIDE DEF W
  <2>1. W # {}
    BY <1>1
  <2>2. c \in W /\ \A d \in W : d <= c
    BY <1>1, <2>1, MaxOfNumbers
  <2> QED  BY <2>2 DEF W
<1> HIDE DEF W, X, c
<1>4. CASE c = b
  <2>1. ASSUME NEW d \in W PROVE d = b
    <3>1. d <= b /\ b <= d
      BY <1>3, <1>4
    <3>2. d \in Nat /\ b \in Nat
      BY <1>1
    <3> QED  BY <3>1, <3>2
  <2>2. X = {}
    BY <1>1, <2>1
  <2> QED  BY <1>2, <1>4, <2>2 DEF ProjectedIn, X
<1>5. CASE c # b
  <2>1. c \in X /\ X \in SUBSET (1..n) /\ \A d \in X : d <= c
    BY <1>1, <1>3, <1>5
  <2>2. Max(X) = c
    BY <1>1, <2>1, MaxIs
  <2> QED  BY <1>2, <2>1, <2>2 DEF ProjectedIn, X
<1> QED  BY <1>4, <1>5

(* A new write of the row: it waits, or its failure is under way.           *)
LEMMA NewWrite ==
  ASSUME NEW n, NEW cs, NEW ds, NEW pl, NEW ql, NEW as, NEW bs, NEW T,
         NEW k, NEW v, NEW r,
         Step(n, n + 1, cs, ds, pl, ql, as, bs, T),
         cs[n + 1].outcome = "unissued",
         ds[n + 1].outcome \in {"pending", "backpressure", "closed"},
         ql[n + 1] = [transaction |-> FALSE, key |-> k, value |-> v]
  PROVE  /\ HasWrite(n + 1, ds, ql, bs, [value |-> v, pending |-> TRUE], k)
         /\ RefusesOnly(n + 1, ds, ql, bs, r, v, k)
<1> DEFINE c == n + 1
           X == WaitingIn(c, ds, ql, k)
<1>1. c \in 1..c /\ c \in Commands /\ c \in Nat
  BY LimitTypes DEF Step, Commands
<1>2. ~ql[c].transaction /\ ql[c].key = k /\ ql[c].value = v
  OBVIOUS
<1>3. X \in SUBSET (1..c)
  BY WaitingNumbers
<1>4. CASE ds[c].outcome = "pending"
  <2>1. c \in X
    BY <1>1, <1>2, <1>4 DEF WaitingIn
  <2>2. \A d \in X : d <= c
    BY <1>3
  <2>3. Max(X) = c
    <3> HIDE DEF X, c
    <3> QED  BY <1>1, <1>3, <2>1, <2>2, MaxIs
  <2>4. ProjectedIn(c, ds, ql, r, k) = v
    BY <1>2, <2>1, <2>3 DEF ProjectedIn
  <2> QED  BY <1>2, <2>1, <2>4 DEF HasWrite, RefusesOnly
<1>5. CASE ds[c].outcome \in {"backpressure", "closed"}
  <2>1. Decides(cs, ds, ql, c)
    BY <1>1, <1>2, <1>5 DEF Decides
  <2>2. AnswerOf(ds, ql, c) = [key |-> k, value |-> v, ok |-> FALSE]
    BY <1>1, <1>2, <1>5 DEF AnswerOf
  <2>3. AnswerOf(ds, ql, c) \in AnsweredBy(cs, ds, ql)
    BY <1>1, <2>1 DEF AnsweredBy
  <2>4. FailsIn(bs, k, v)
    BY <2>2, <2>3 DEF Step, FailsIn
  <2> DEFINE a == [key |-> k, value |-> v, ok |-> FALSE]
  <2>5. a \in ToSet(bs) /\ a.key = k /\ a.value = v
    BY <2>4 DEF FailsIn
  <2> HIDE DEF a
  <2>6. \E x \in ToSet(bs) : x.key = k /\ x.value = v
    BY <2>5
  <2> QED  BY <2>4, <2>6 DEF HasWrite, RefusesOnly
<1> QED  BY <1>4, <1>5

-----------------------------------------------------------------------------
(* What the operations of the queue do to the commands.                     *)

Fresh(n, cs) == \A c \in Commands : c > n => cs[c].outcome = "unissued"

(* The batches of session writes hold one command each.                     *)
NoAppends(n, cs) == \A c \in 1..n : cs[c].policy # "append_batch"

LEMMA ProceedsIdle ==
  ASSUME NEW n, NEW cs, NEW T
  PROVE  Proceeds(n, cs, cs, T)
BY DEF Proceeds

LEMMA DecideProceeds ==
  ASSUME NEW n \in 0..MaxCommands, NEW cs \in [Commands -> Entry], NEW S,
         S \subseteq PendingOf(cs, n),
         NEW o \in {"failed", "backpressure", "coalesced", "closed"},
         Fresh(n, cs)
  PROVE  Proceeds(n, cs, Decide(cs, S, o), {}) /\ Fresh(n, Decide(cs, S, o))
<1> DEFINE ds == Decide(cs, S, o)
<1>1. /\ ds \in [Commands -> Entry]
      /\ \A c \in Commands :
           /\ c \in S => ds[c].outcome = o
           /\ c \notin S => ds[c].outcome = cs[c].outcome
           /\ ds[c].policy = cs[c].policy
  BY DecideProperties DEF Outcomes
<1> HIDE DEF ds
<1>2. 1..n \subseteq Commands
  BY LimitTypes DEF Commands
<1>3. \A c \in 1..n : c \in S => cs[c].outcome = "pending"
  BY DEF PendingOf
<1>4. Proceeds(n, cs, ds, {})
  BY <1>1, <1>2, <1>3 DEF Proceeds
<1>5. \A c \in Commands : c > n => c \notin S
  <2>1. \A c \in 1..n : ~(c > n)
    OBVIOUS
  <2> QED  BY <2>1 DEF PendingOf
<1>6. Fresh(n, ds)
  BY <1>1, <1>5 DEF Fresh
<1> QED  BY <1>4, <1>6 DEF ds

(* Issuing a command changes none that was issued before.                   *)
LEMMA IssueProceeds ==
  ASSUME NEW n \in 0..MaxCommands, NEW cs, NEW ds \in [Commands -> Entry],
         NEW new, n < MaxCommands, Proceeds(n, cs, ds, {}), Fresh(n, ds)
  PROVE  /\ Proceeds(n, cs, Issue(ds, n, new), {})
         /\ Fresh(n + 1, Issue(ds, n, new))
         /\ Issue(ds, n, new)[n + 1] = new
<1> DEFINE es == Issue(ds, n, new)
<1>1. n + 1 \in Commands /\ 1..n \subseteq Commands
  BY LimitTypes DEF Commands
<1>2. es[n + 1] = new /\ \A c \in Commands : c # n + 1 => es[c] = ds[c]
  BY <1>1 DEF Issue
<1> HIDE DEF es
<1>3. \A c \in 1..n : c # n + 1 /\ c \in Commands
  BY <1>1
<1>4. Proceeds(n, cs, es, {})
  BY <1>2, <1>3 DEF Proceeds
<1>5. ASSUME NEW c \in Commands, c > n + 1 PROVE es[c].outcome = "unissued"
  <2>1. c # n + 1 /\ c > n
    BY <1>5, LimitTypes
  <2> QED  BY <1>2, <2>1 DEF Fresh
<1>6. Fresh(n + 1, es)
  BY <1>5 DEF Fresh
<1> QED  BY <1>2, <1>4, <1>6 DEF es

(* The commands a step of the queue leaves, without a new one.              *)
QueueProceeds(T) ==
  /\ nextCommand' = nextCommand
  /\ Proceeds(nextCommand, cmd, cmd', T)
  /\ Fresh(nextCommand, cmd')

LEMMA SupersedeProceeds ==
  ASSUME QueueInv, Fresh(nextCommand, cmd), NEW policy, NEW key
  PROVE  LET i == Superseded(policy, key)
             before == IF i = 0 THEN cmd ELSE Decide(cmd, {entries[i]}, "coalesced")
         IN  Proceeds(nextCommand, cmd, before, {}) /\ Fresh(nextCommand, before)
<1> DEFINE i == Superseded(policy, key)
<1>1. /\ entries \in Seq(Commands) /\ cmd \in [Commands -> Entry]
      /\ nextCommand \in 0..MaxCommands
      /\ ToSet(entries) \subseteq PendingOf(cmd, nextCommand)
  BY DEF QueueInv, Good
<1>2. i \in 0..Len(entries) /\ Len(entries) \in Nat /\ DOMAIN entries = 1..Len(entries)
  BY <1>1, SupersededIndex, LenProperties
<1> HIDE DEF i
<1>3. CASE i = 0
  BY <1>3, ProceedsIdle DEF i
<1>4. CASE i # 0
  <2> DEFINE S == {entries[i]}
  <2>1. S \subseteq PendingOf(cmd, nextCommand)
    <3>1. i \in DOMAIN entries
      BY <1>2, <1>4
    <3> QED  BY <1>1, <3>1 DEF ToSet
  <2> HIDE DEF S
  <2>2. /\ Proceeds(nextCommand, cmd, Decide(cmd, S, "coalesced"), {})
        /\ Fresh(nextCommand, Decide(cmd, S, "coalesced"))
    BY <1>1, <2>1, DecideProceeds
  <2> QED  BY <1>4, <2>2 DEF S, i
<1> QED  BY <1>3, <1>4

LEMMA EnqueueProceeds ==
  ASSUME QueueInv, Fresh(nextCommand, cmd),
         NEW policy \in Policies, NEW key \in Keys \cup {NoKey},
         NEW size \in Sizes, Enqueue(policy, key, size)
  PROVE  /\ nextCommand' = nextCommand + 1 /\ nextCommand < MaxCommands
         /\ Proceeds(nextCommand, cmd, cmd', {})
         /\ Fresh(nextCommand + 1, cmd')
         /\ cmd'[nextCommand + 1].outcome \in {"pending", "backpressure", "closed"}
         /\ cmd'[nextCommand + 1].policy = policy
<1> DEFINE c == nextCommand + 1
           new == [policy |-> policy, key |-> key, bytes |-> size,
                   outcome |-> "pending", commits |-> 0]
           i == Superseded(policy, key)
           kept == IF i = 0 THEN entries ELSE RemoveAt(entries, i)
           bytes == IF i = 0 THEN pendingBytes ELSE pendingBytes - cmd[entries[i]].bytes
           before == IF i = 0 THEN cmd ELSE Decide(cmd, {entries[i]}, "coalesced")
           refusal(o) == [new EXCEPT !.outcome = o]
<1>1. /\ new.outcome = "pending" /\ new.policy = policy /\ new.key = key
      /\ \A o : refusal(o).outcome = o /\ refusal(o).policy = policy
  OBVIOUS
<1>2. /\ nextCommand < MaxCommands /\ nextCommand' = c
      /\ Refuse(c, new) \/ Accept(c, new)
  BY DEF Enqueue
<1>3. /\ nextCommand \in 0..MaxCommands /\ cmd \in [Commands -> Entry]
      /\ before \in [Commands -> Entry]
  BY SupersedeGood DEF QueueInv, Good
<1>4. Proceeds(nextCommand, cmd, before, {}) /\ Fresh(nextCommand, before)
  BY SupersedeProceeds
<1>5. Proceeds(nextCommand, cmd, cmd, {})
  BY ProceedsIdle
<1>6. PICK ds \in {cmd, before}, entry \in {new, refusal("closed"), refusal("backpressure")} :
        cmd' = Issue(ds, nextCommand, entry)
  <2>1. CASE Refuse(c, new)
    BY <2>1 DEF Refuse, Issue
  <2>2. CASE Accept(c, new)
    <3>1. \/ cmd' = [before EXCEPT ![c] = refusal("backpressure")]
          \/ RunNext(Push(kept, i, c), [before EXCEPT ![c] = new], bytes + new.bytes, FALSE)
          \/ cmd' = [before EXCEPT ![c] = new]
      BY <1>1, <2>2 DEF Accept
    <3> HIDE DEF before, kept, bytes, i, new, refusal
    <3>2. RunNext(Push(kept, i, c), [before EXCEPT ![c] = new], bytes + new.bytes, FALSE)
            => cmd' = [before EXCEPT ![c] = new]
      BY DEF RunNext
    <3> QED  BY <3>1, <3>2 DEF Issue
  <2> QED  BY <1>2, <2>1, <2>2
<1>7. /\ entry.outcome \in {"pending", "backpressure", "closed"}
      /\ entry.policy = policy
  BY <1>1
<1> HIDE DEF before, new, refusal
<1>8. ds \in [Commands -> Entry] /\ Proceeds(nextCommand, cmd, ds, {}) /\ Fresh(nextCommand, ds)
  BY <1>3, <1>4, <1>5
<1>9. /\ Proceeds(nextCommand, cmd, cmd', {}) /\ Fresh(c, cmd') /\ cmd'[c] = entry
  BY <1>2, <1>3, <1>6, <1>8, IssueProceeds
<1> QED  BY <1>2, <1>7, <1>9

(* The running batch is the oldest pending command.                         *)
LEMMA OneRuns ==
  ASSUME QueueInv, NoAppends(nextCommand, cmd), runner = "executing"
  PROVE  /\ Len(batch) = 1 /\ position = 1 /\ ToSet(batch) = {batch[1]}
         /\ batch[1] \in PendingOf(cmd, nextCommand)
         /\ \A c \in PendingOf(cmd, nextCommand) : batch[1] <= c
<1>1. /\ batch \in Seq(Commands) /\ entries \in Seq(Commands)
      /\ batch # <<>> /\ position \in 1..Len(batch)
      /\ ToSet(entries) \cup ToSet(batch) = PendingOf(cmd, nextCommand)
      /\ Len(batch) # 1 => InBatches(cmd, batch)
      /\ Ordered(batch, entries)
  BY DEF QueueInv, Good, Control
<1>2. /\ Len(batch) \in Nat \ {0} /\ DOMAIN batch = 1..Len(batch)
      /\ DOMAIN entries = 1..Len(entries)
  BY <1>1, LenProperties, EmptySeq
<1>3. 1 \in DOMAIN batch
  BY <1>2
<1>4. batch[1] \in PendingOf(cmd, nextCommand)
  BY <1>1, <1>3 DEF ToSet
<1>5. Len(batch) = 1
  <2>1. cmd[batch[1]].policy # "append_batch"
    BY <1>4 DEF PendingOf, NoAppends
  <2> QED  BY <1>1, <1>3, <2>1 DEF InBatches
<1>6. DOMAIN batch = {1} /\ position = 1
  BY <1>1, <1>2, <1>5
<1>7. ToSet(batch) = {batch[1]}
  BY <1>6 DEF ToSet
<1>8. ASSUME NEW c \in PendingOf(cmd, nextCommand) PROVE batch[1] <= c
  <2>1. c \in Nat /\ batch[1] \in Nat
    BY <1>4 DEF PendingOf
  <2>2. CASE c \in ToSet(entries)
    <3>1. PICK j \in DOMAIN entries : c = entries[j]
      BY <2>2 DEF ToSet
    <3>2. batch[1] < c
      BY <1>1, <1>3, <3>1 DEF Ordered
    <3> QED  BY <2>1, <3>2
  <2>3. CASE c = batch[1]
    BY <2>1, <2>3
  <2> QED  BY <1>1, <1>7, <2>2, <2>3
<1> QED  BY <1>4, <1>5, <1>6, <1>7, <1>8

LEMMA OpCommitsProceeds ==
  ASSUME QueueInv, Fresh(nextCommand, cmd), NoAppends(nextCommand, cmd), OpCommits
  PROVE  /\ QueueProceeds({batch[1]})
         /\ cmd'[batch[1]].outcome = "resolved"
         /\ \A c \in Commands : c # batch[1] => cmd'[c].outcome = cmd[c].outcome
<1> DEFINE b == batch[position]
           cs == [cmd EXCEPT ![b].commits = @ + 1]
<1>1. runner = "executing" /\ nextCommand' = nextCommand
  BY DEF OpCommits
<1>2. /\ Len(batch) = 1 /\ position = 1 /\ ToSet(batch) = {b} /\ b = batch[1]
      /\ b \in PendingOf(cmd, nextCommand)
  BY <1>1, OneRuns
<1>3. /\ b \in Commands
      /\ cs \in [Commands -> Entry]
      /\ \A c \in Commands : /\ cs[c].policy = cmd[c].policy
                             /\ cs[c].outcome = cmd[c].outcome
  BY <1>1, CommitProperties
<1>4. cmd' = Decide(cs, {b}, "resolved")
  <2>1. ~(position < Len(batch))
    BY <1>2
  <2> QED  BY <1>2, <2>1 DEF OpCommits, EndBatch
<1> HIDE DEF cs, b
<1> DEFINE S == {b}
           ds == Decide(cs, S, "resolved")
<1>5. \A c \in Commands :
        /\ c \in S => ds[c].outcome = "resolved"
        /\ c \notin S => ds[c].outcome = cs[c].outcome
        /\ ds[c].policy = cs[c].policy
  <2> HIDE DEF S, ds
  <2> QED  BY <1>3, DecideProperties DEF Outcomes, ds
<1> HIDE DEF ds
<1>6. cmd' = ds
  BY <1>4 DEF ds
<1>7. nextCommand \in 0..MaxCommands /\ 1..nextCommand \subseteq Commands
  BY LimitTypes DEF QueueInv, Good, Commands
<1>8. b \in 1..nextCommand /\ cmd[b].outcome = "pending"
  BY <1>2 DEF PendingOf
<1>9. Proceeds(nextCommand, cmd, ds, {b})
  <2>1. ASSUME NEW c \in 1..nextCommand
        PROVE  /\ ds[c].policy = cmd[c].policy
               /\ \/ ds[c].outcome = cmd[c].outcome
                  \/ cmd[c].outcome = "pending" /\ c \in {b} /\ ds[c].outcome = "resolved"
    BY <1>3, <1>5, <1>7, <1>8
  <2> QED  BY <2>1 DEF Proceeds
<1>10. Fresh(nextCommand, ds)
  <2>1. ASSUME NEW c \in Commands, c > nextCommand PROVE c # b
    BY <1>7, <1>8, <2>1
  <2> QED  BY <1>3, <1>5, <2>1 DEF Fresh
<1> QED  BY <1>1, <1>2, <1>3, <1>5, <1>6, <1>9, <1>10 DEF QueueProceeds

LEMMA OpFailsProceeds ==
  ASSUME QueueInv, Fresh(nextCommand, cmd), OpBusy \/ OpThrows
  PROVE  QueueProceeds({})
<1>1. nextCommand' = nextCommand
  BY DEF OpBusy, OpThrows
<1>2. CASE FailBatch
  <2>1. cmd' = Decide(cmd, ToSet(batch), "failed")
    BY <1>2 DEF FailBatch, EndBatch
  <2>2. /\ cmd \in [Commands -> Entry] /\ nextCommand \in 0..MaxCommands
        /\ ToSet(batch) \subseteq PendingOf(cmd, nextCommand)
    BY DEF QueueInv, Good
  <2> QED  BY <1>1, <2>1, <2>2, DecideProceeds DEF QueueProceeds
<1>3. CASE cmd' = cmd
  BY <1>1, <1>3, ProceedsIdle DEF QueueProceeds
<1> QED  BY <1>2, <1>3 DEF OpBusy, OpThrows

LEMMA QueueMovesProceeds ==
  ASSUME QueueInv, Fresh(nextCommand, cmd),
         Retry \/ (\E late \in BOOLEAN : Finally(late)) \/ CloseDrain
  PROVE  QueueProceeds({})
<1>1. nextCommand' = nextCommand
  BY DEF Retry, Finally, CloseDrain
<1>2. CASE cmd' = cmd
  BY <1>1, <1>2, ProceedsIdle DEF QueueProceeds
<1>3. ASSUME NEW late \in BOOLEAN, Finally(late), cmd' # cmd PROVE QueueProceeds({})
  <2> DEFINE n == BatchLength(entries, cmd)
             taken == SubSeq(entries, 1, n)
  <2>1. entries # <<>> /\ RunNext(entries, cmd, pendingBytes, late)
    BY <1>3 DEF Finally, Restarts
  <2>2. cmd' = Decide(cmd, ToSet(taken), "backpressure")
    BY <1>3, <2>1 DEF RunNext
  <2>3. /\ cmd \in [Commands -> Entry] /\ nextCommand \in 0..MaxCommands
        /\ ToSet(entries) \subseteq PendingOf(cmd, nextCommand)
        /\ entries \in Seq(Commands)
    BY DEF QueueInv, Good
  <2>4. n \in 0..Len(entries)
    BY <2>1, <2>3, BatchLengthJoins, LenProperties
  <2>5. /\ taken \in Seq(Commands) /\ Len(taken) = n
        /\ \A i \in 1..n : taken[i] = entries[i]
    <3> HIDE DEF n
    <3> QED  BY <2>3, <2>4, FirstPart
  <2> HIDE DEF taken, n
  <2>6. ToSet(taken) \subseteq ToSet(entries)
    <3>1. DOMAIN taken = 1..n /\ DOMAIN entries = 1..Len(entries) /\ Len(entries) \in Nat
      BY <2>3, <2>5, LenProperties
    <3>2. 1..n \subseteq 1..Len(entries)
      BY <2>4, <3>1
    <3> QED  BY <2>5, <3>1, <3>2 DEF ToSet
  <2>7. ToSet(taken) \subseteq PendingOf(cmd, nextCommand)
    BY <2>3, <2>6
  <2> QED  BY <1>1, <2>2, <2>3, <2>7, DecideProceeds DEF QueueProceeds
<1> QED  BY <1>2, <1>3 DEF Retry, CloseDrain

-----------------------------------------------------------------------------
(* The invariant.                                                           *)

Types ==
  /\ wiring \in {"queue", "writer"}
  /\ row \in [Keys -> Values \cup {NoValue}]
  /\ guard \in [Keys -> [value: Values \cup {NoValue}, pending: BOOLEAN]]
  /\ payload \in [Commands -> Payload]
  /\ answers \in Seq(Answer)
  /\ passed \in BOOLEAN
  /\ undo \in [Keys -> Values \cup {NoValue}]

(* The queue, and the commands that a write of a row can be.                *)
Queued ==
  /\ QueueInv /\ Budget
  /\ Fresh(nextCommand, cmd) /\ NoAppends(nextCommand, cmd)

(* Every write takes its turn in the queue.                                 *)
TakesTurns(n, w, pl) == w = "queue" \/ \A c \in 1..n : ~pl[c].transaction

EntriesEnd ==
  \A k \in Keys : HasWrite(nextCommand, cmd, payload, answers, guard[k], k)

(* A rollback then restores what the row holds anyway.                      *)
RefusalsAreRepeats ==
  TakesTurns(nextCommand, wiring, payload) =>
    /\ undo = row
    /\ \A k \in Keys : RefusesOnly(nextCommand, cmd, payload, answers,
                                   row[k], guard[k].value, k)

WritesInv == Types /\ Queued /\ EntriesEnd /\ RefusalsAreRepeats

(* What every operation of the queue without a new command gives.           *)
LEMMA QuietStep ==
  ASSUME WritesInv, NEW T, QueueProceeds(T), payload' = payload, AnswerDecided
  PROVE  /\ nextCommand' = nextCommand
         /\ Step(nextCommand, nextCommand, cmd, cmd', payload, payload,
                 answers, answers', T)
         /\ answers' \in Seq(Answer)
         /\ Fresh(nextCommand, cmd') /\ NoAppends(nextCommand, cmd')
<1>1. /\ nextCommand' = nextCommand /\ Proceeds(nextCommand, cmd, cmd', T)
      /\ Fresh(nextCommand, cmd')
  BY DEF QueueProceeds
<1>2. nextCommand \in 0..MaxCommands /\ nextCommand \in Nat /\ nextCommand <= MaxCommands
  BY LimitTypes DEF WritesInv, Queued, QueueInv, Good
<1>3. payload \in [Commands -> Payload] /\ answers \in Seq(Answer)
  BY DEF WritesInv, Types
<1>4. answers' = Answered(answers, cmd, cmd', payload)
  BY DEF AnswerDecided
<1>5. /\ answers' \in Seq(Answer)
      /\ ToSet(answers') = ToSet(answers) \cup AnsweredBy(cmd, cmd', payload)
  BY <1>3, <1>4, AnsweredProperties
<1>6. NoAppends(nextCommand, cmd')
  BY <1>1 DEF WritesInv, Queued, NoAppends, Proceeds
<1> QED  BY <1>1, <1>2, <1>3, <1>5, <1>6 DEF Step

(* What a new command gives.                                                *)
LEMMA EnqueueStep ==
  ASSUME WritesInv, NEW policy \in {"critical", "latest_wins"},
         NEW key \in Keys \cup {NoKey}, Enqueue(policy, key, 1),
         NEW p \in Payload, payload' = [payload EXCEPT ![nextCommand + 1] = p],
         AnswerDecided
  PROVE  /\ nextCommand' = nextCommand + 1
         /\ Queued' /\ payload' \in [Commands -> Payload] /\ answers' \in Seq(Answer)
         /\ payload'[nextCommand + 1] = p
         /\ Step(nextCommand, nextCommand + 1, cmd, cmd', payload, payload',
                 answers, answers', {})
         /\ cmd[nextCommand + 1].outcome = "unissued"
         /\ cmd'[nextCommand + 1].outcome \in {"pending", "backpressure", "closed"}
         /\ TakesTurns(nextCommand + 1, wiring, payload')
              => TakesTurns(nextCommand, wiring, payload)
<1> DEFINE n == nextCommand
<1>1. 1 \in Sizes /\ policy \in Policies /\ policy # "append_batch"
  BY RowsAssumption DEF Policies
<1>2. QueueInv /\ Budget /\ Fresh(n, cmd) /\ NoAppends(n, cmd)
  BY DEF WritesInv, Queued
<1>3. QueueInv' /\ Budget'
  BY <1>1, <1>2, EnqueueInv, EnqueueBudget
<1>4. /\ nextCommand' = n + 1 /\ n < MaxCommands
      /\ Proceeds(n, cmd, cmd', {})
      /\ Fresh(n + 1, cmd')
      /\ cmd'[n + 1].outcome \in {"pending", "backpressure", "closed"}
      /\ cmd'[n + 1].policy = policy
  BY <1>1, <1>2, EnqueueProceeds
<1>5. n \in 0..MaxCommands /\ n \in Nat /\ n + 1 \in Commands /\ MaxCommands \in Nat
  BY <1>2, <1>4, LimitTypes DEF QueueInv, Good, Commands
<1>6. payload \in [Commands -> Payload] /\ answers \in Seq(Answer)
  BY DEF WritesInv, Types
<1>7. /\ payload' \in [Commands -> Payload] /\ payload'[n + 1] = p
      /\ \A c \in Commands : c # n + 1 => payload'[c] = payload[c]
  BY <1>5, <1>6
<1>8. \A c \in 1..n : c \in Commands /\ c # n + 1
  BY <1>5 DEF Commands
<1>9. answers' = Answered(answers, cmd, cmd', payload')
  BY DEF AnswerDecided
<1>10. /\ answers' \in Seq(Answer)
       /\ ToSet(answers') = ToSet(answers) \cup AnsweredBy(cmd, cmd', payload')
  <2> DEFINE ql == payload'
             ds == cmd'
  <2>1. ql \in [Commands -> Payload] /\ answers \in Seq(Answer)
    BY <1>6, <1>7
  <2>2. answers' = Answered(answers, cmd, ds, ql)
    BY <1>9
  <2> HIDE DEF n, ql, ds
  <2>3. /\ Answered(answers, cmd, ds, ql) \in Seq(Answer)
        /\ ToSet(Answered(answers, cmd, ds, ql)) = ToSet(answers) \cup AnsweredBy(cmd, ds, ql)
    BY <2>1, AnsweredProperties
  <2> QED  BY <2>2, <2>3 DEF ql, ds
<1>11. n <= n + 1 /\ n + 1 <= MaxCommands /\ n + 1 \in Nat
  BY <1>4, <1>5
<1>12. Step(n, n + 1, cmd, cmd', payload, payload', answers, answers', {})
  BY <1>4, <1>5, <1>6, <1>7, <1>8, <1>10, <1>11 DEF Step
<1>13. NoAppends(n + 1, cmd')
  <2>1. ASSUME NEW c \in 1..(n + 1) PROVE cmd'[c].policy # "append_batch"
    <3>1. c \in 1..n \/ c = n + 1
      BY <1>5
    <3> QED  BY <1>1, <1>2, <1>4, <3>1 DEF NoAppends, Proceeds
  <2> QED  BY <2>1 DEF NoAppends
<1>14. cmd[n + 1].outcome = "unissued"
  <2>1. n + 1 > n
    BY <1>5
  <2> QED  BY <1>2, <1>5, <2>1 DEF Fresh
<1>15. TakesTurns(n + 1, wiring, payload') => TakesTurns(n, wiring, payload)
  <2>1. \A c \in 1..n : c \in 1..(n + 1) /\ payload'[c] = payload[c]
    BY <1>5, <1>7, <1>8
  <2> QED  BY <2>1 DEF TakesTurns
<1>16. Queued'
  BY <1>3, <1>4, <1>13 DEF Queued
<1> QED  BY <1>4, <1>7, <1>10, <1>12, <1>14, <1>15, <1>16

-----------------------------------------------------------------------------
(* The actions.                                                             *)

LEMMA InitWrites ==
  ASSUME WritesInit
  PROVE  WritesInv
<1>1. QueueInv /\ Budget
  BY InitInv, InitBudget DEF WritesInit
<1>2. nextCommand = 0 /\ cmd = [c \in Commands |-> Unissued]
  BY DEF WritesInit, QueueInit
<1>3. Fresh(nextCommand, cmd)
  BY <1>2 DEF Fresh, Unissued
<1>4. NoAppends(nextCommand, cmd)
  BY <1>2, EmptyInterval DEF NoAppends
<1> DEFINE p == [transaction |-> FALSE, key |-> CHOOSE k \in Keys : TRUE,
                 value |-> CHOOSE v \in Values : TRUE]
<1>5. p \in Payload
  <2>1. (CHOOSE k \in Keys : TRUE) \in Keys
    BY RowsAssumption
  <2>2. (CHOOSE v \in Values : TRUE) \in Values
    BY RowsAssumption
  <2> QED  BY <2>1, <2>2 DEF Payload
<1>6. payload \in [Commands -> {p}]
  BY DEF WritesInit
<1> HIDE DEF p
<1>7. payload \in [Commands -> Payload]
  BY <1>5, <1>6
<1>8. /\ wiring \in {"queue", "writer"} /\ row = [k \in Keys |-> NoValue]
      /\ guard = [k \in Keys |-> NoEntry] /\ answers = <<>> /\ passed = FALSE
      /\ undo = row
  BY DEF WritesInit
<1>9. Types
  BY <1>7, <1>8, EmptySeq DEF Types, NoEntry
<1>10. \A k \in Keys : ~guard[k].pending /\ guard[k].value = NoValue
  BY <1>8 DEF NoEntry
<1> QED  BY <1>1, <1>3, <1>4, <1>8, <1>9, <1>10
         DEF WritesInv, Queued, EntriesEnd, RefusalsAreRepeats, HasWrite, RefusesOnly

(* The entry of a row that begins, and those of the other rows.             *)
LEMMA BeginProperties ==
  ASSUME WritesInv, NEW k \in Keys, NEW v \in Values, Begin(k, v)
  PROVE  /\ guard' \in [Keys -> [value: Values \cup {NoValue}, pending: BOOLEAN]]
         /\ guard'[k] = [value |-> v, pending |-> TRUE]
         /\ \A j \in Keys : j # k => guard'[j] = guard[j]
BY DEF Begin, WritesInv, Types

LEMMA SubmitInv ==
  ASSUME WritesInv, NEW k \in Keys, NEW v \in Values,
         Begin(k, v), Submit(k, v), UNCHANGED <<wiring, row>>,
         passed' \in BOOLEAN, undo' = undo \/ undo' = row
  PROVE  WritesInv'
<1> DEFINE n == nextCommand
           p == [transaction |-> FALSE, key |-> k, value |-> v]
           key == IF wiring = "queue" THEN k ELSE NoKey
<1>1. p \in Payload /\ p.transaction = FALSE /\ p.key = k
  BY DEF Payload
<1>2. /\ Enqueue("latest_wins", key, 1)
      /\ payload' = [payload EXCEPT ![n + 1] = p] /\ AnswerDecided
      /\ key \in Keys \cup {NoKey}
  BY DEF Submit
<1> HIDE DEF key
<1>3. /\ nextCommand' = n + 1
      /\ Queued' /\ payload' \in [Commands -> Payload] /\ answers' \in Seq(Answer)
      /\ payload'[n + 1] = p
      /\ Step(n, n + 1, cmd, cmd', payload, payload', answers, answers', {})
      /\ cmd[n + 1].outcome = "unissued"
      /\ cmd'[n + 1].outcome \in {"pending", "backpressure", "closed"}
      /\ TakesTurns(n + 1, wiring, payload') => TakesTurns(n, wiring, payload)
  <2> HIDE DEF p
  <2> QED  BY <1>1, <1>2, EnqueueStep
<1>4. /\ guard' \in [Keys -> [value: Values \cup {NoValue}, pending: BOOLEAN]]
      /\ guard'[k] = [value |-> v, pending |-> TRUE]
      /\ \A j \in Keys : j # k => guard'[j] = guard[j]
  BY BeginProperties
<1>5. Types'
  BY <1>3, <1>4 DEF WritesInv, Types
<1>6. /\ HasWrite(n + 1, cmd', payload', answers', guard'[k], k)
      /\ RefusesOnly(n + 1, cmd', payload', answers', row[k], guard'[k].value, k)
  <2>1. guard'[k].value = v
    BY <1>4
  <2> HIDE DEF n
  <2>2. /\ HasWrite(n + 1, cmd', payload', answers', [value |-> v, pending |-> TRUE], k)
        /\ RefusesOnly(n + 1, cmd', payload', answers', row[k], v, k)
    BY <1>3, NewWrite, Zenon
  <2> QED  BY <1>4, <2>1, <2>2
<1>7. ASSUME NEW j \in Keys, j # k
      PROVE  /\ HasWrite(n + 1, cmd', payload', answers', guard'[j], j)
             /\ TakesTurns(n + 1, wiring, payload') =>
                  RefusesOnly(n + 1, cmd', payload', answers', row[j], guard'[j].value, j)
  <2>1. HasWrite(n, cmd, payload, answers, guard[j], j) /\ guard'[j] = guard[j]
    BY <1>4, <1>7 DEF WritesInv, EntriesEnd
  <2>2. HasWrite(n + 1, cmd', payload', answers', guard[j], j)
    BY <1>3, <2>1, HasWriteKept
  <2>3. WaitingIn(n + 1, cmd', payload', j) \subseteq WaitingIn(n, cmd, payload, j)
    <3>1. payload'[n + 1].key # j
      BY <1>1, <1>3, <1>7
    <3> QED  BY <1>3, <3>1, NoNewWrites
  <2>4. \A c \in WaitingIn(n, cmd, payload, j) : cmd'[c].outcome # "resolved"
    BY <1>3 DEF Step, Proceeds, WaitingIn
  <2>5. TakesTurns(n + 1, wiring, payload')
          => RefusesOnly(n, cmd, payload, answers, row[j], guard[j].value, j)
    BY <1>3 DEF WritesInv, RefusalsAreRepeats
  <2>6. ASSUME RefusesOnly(n, cmd, payload, answers, row[j], guard[j].value, j)
        PROVE  RefusesOnly(n + 1, cmd', payload', answers', row[j], guard[j].value, j)
    <3>1. Harmless(n, n + 1, cmd, cmd', payload, payload', j)
      BY <2>3, <2>4 DEF Harmless
    <3> HIDE DEF n
    <3> QED  BY <1>3, <2>6, <3>1, RefusesOnlyKept
  <2> QED  BY <2>1, <2>2, <2>5, <2>6
<1>8. TakesTurns(n + 1, wiring, payload') => undo' = row
  BY <1>3 DEF WritesInv, RefusalsAreRepeats
<1> HIDE DEF n
<1>9. EntriesEnd'
  BY <1>3, <1>6, <1>7 DEF EntriesEnd
<1>10. RefusalsAreRepeats'
  BY <1>3, <1>6, <1>7, <1>8 DEF RefusalsAreRepeats
<1> QED  BY <1>3, <1>5, <1>9, <1>10 DEF WritesInv

LEMMA UpsertInv ==
  ASSUME WritesInv, NEW k \in Keys, NEW v \in Values, Upsert(k, v)
  PROVE  WritesInv'
<1>1. passed \in BOOLEAN
  BY DEF WritesInv, Types
<1> QED  BY <1>1, SubmitInv DEF Upsert

LEMMA EnqueueTransactionInv ==
  ASSUME WritesInv, NEW k \in Keys, NEW v \in Values, EnqueueTransaction(k, v)
  PROVE  WritesInv'
<1> DEFINE n == nextCommand
           p == [transaction |-> TRUE, key |-> k, value |-> v]
<1>1. p \in Payload /\ p.transaction
  BY DEF Payload
<1>2. /\ Enqueue("critical", NoKey, 1)
      /\ payload' = [payload EXCEPT ![n + 1] = p] /\ AnswerDecided
      /\ UNCHANGED <<wiring, row, guard, passed, undo>>
  BY DEF EnqueueTransaction
<1>3. /\ nextCommand' = n + 1
      /\ Queued' /\ payload' \in [Commands -> Payload] /\ answers' \in Seq(Answer)
      /\ payload'[n + 1] = p
      /\ Step(n, n + 1, cmd, cmd', payload, payload', answers, answers', {})
      /\ TakesTurns(n + 1, wiring, payload') => TakesTurns(n, wiring, payload)
  <2> HIDE DEF p
  <2> QED  BY <1>1, <1>2, EnqueueStep
<1>4. Types'
  BY <1>2, <1>3 DEF WritesInv, Types
<1>5. ASSUME NEW j \in Keys
      PROVE  /\ HasWrite(n + 1, cmd', payload', answers', guard[j], j)
             /\ TakesTurns(n + 1, wiring, payload') =>
                  RefusesOnly(n + 1, cmd', payload', answers', row[j], guard[j].value, j)
  <2>1. HasWrite(n, cmd, payload, answers, guard[j], j)
    BY DEF WritesInv, EntriesEnd
  <2>2. HasWrite(n + 1, cmd', payload', answers', guard[j], j)
    BY <1>3, <2>1, HasWriteKept
  <2>3. WaitingIn(n + 1, cmd', payload', j) \subseteq WaitingIn(n, cmd, payload, j)
    <3>1. payload'[n + 1].transaction
      BY <1>1, <1>3
    <3> QED  BY <1>3, <3>1, NoNewWrites
  <2>4. \A c \in WaitingIn(n, cmd, payload, j) : cmd'[c].outcome # "resolved"
    BY <1>3 DEF Step, Proceeds, WaitingIn
  <2>5. TakesTurns(n + 1, wiring, payload')
          => RefusesOnly(n, cmd, payload, answers, row[j], guard[j].value, j)
    BY <1>3 DEF WritesInv, RefusalsAreRepeats
  <2>6. ASSUME RefusesOnly(n, cmd, payload, answers, row[j], guard[j].value, j)
        PROVE  RefusesOnly(n + 1, cmd', payload', answers', row[j], guard[j].value, j)
    <3>1. Harmless(n, n + 1, cmd, cmd', payload, payload', j)
      BY <2>3, <2>4 DEF Harmless
    <3> HIDE DEF n
    <3> QED  BY <1>3, <2>6, <3>1, RefusesOnlyKept
  <2> QED  BY <2>2, <2>5, <2>6
<1>6. TakesTurns(n + 1, wiring, payload') => undo = row
  BY <1>3 DEF WritesInv, RefusalsAreRepeats
<1> HIDE DEF n
<1>7. EntriesEnd'
  BY <1>2, <1>3, <1>5 DEF EntriesEnd
<1>8. RefusalsAreRepeats'
  BY <1>2, <1>3, <1>5, <1>6 DEF RefusalsAreRepeats
<1> QED  BY <1>3, <1>4, <1>7, <1>8 DEF WritesInv

LEMMA SameQueue ==
  ASSUME Queued, UNCHANGED queueVars
  PROVE  Queued' /\ nextCommand' = nextCommand /\ cmd' = cmd
BY DEF Queued, queueVars, QueueInv, Control, NoLostWakeup, Budget, BudgetIsExact

(* More answers under way take nothing away.                                *)
LEMMA MoreAnswers ==
  ASSUME NEW n, NEW cs, NEW pl, NEW as, NEW bs, NEW e, NEW k,
         ToSet(as) \subseteq ToSet(bs), HasWrite(n, cs, pl, as, e, k)
  PROVE  HasWrite(n, cs, pl, bs, e, k)
BY DEF HasWrite

(* What an executing operation does is that of an issued command.           *)
LEMMA RunningProperties ==
  ASSUME WritesInv, runner = "executing"
  PROVE  /\ batch[1] \in 1..nextCommand /\ batch[1] \in Commands
         /\ cmd[batch[1]].outcome = "pending"
         /\ Running \in Payload /\ Running.key \in Keys /\ Running.value \in Values
         /\ \A c \in Pending : batch[1] <= c
<1>1. /\ batch[1] \in PendingOf(cmd, nextCommand)
      /\ \A c \in PendingOf(cmd, nextCommand) : batch[1] <= c
  BY OneRuns DEF WritesInv, Queued
<1>2. 1..nextCommand \subseteq Commands
  BY LimitTypes DEF WritesInv, Queued, QueueInv, Good, Commands
<1>3. batch[1] \in 1..nextCommand /\ batch[1] \in Commands /\ cmd[batch[1]].outcome = "pending"
  BY <1>1, <1>2 DEF PendingOf
<1>4. Running \in Payload
  BY <1>3 DEF WritesInv, Types, Running
<1>5. Running.key \in Keys /\ Running.value \in Values
  BY <1>4 DEF Payload
<1> QED  BY <1>1, <1>3, <1>4, <1>5 DEF Pending, Issued, PendingOf

LEMMA WriteDirectlyInv ==
  ASSUME WritesInv, NEW k \in Keys, NEW v \in Values,
         ~TakesTurns(nextCommand, wiring, payload),
         Begin(k, v), WriteDirectly(k, v), UNCHANGED <<queueVars, payload, wiring>>,
         passed' \in BOOLEAN, undo' = row
  PROVE  WritesInv'
<1>1. PICK ok \in BOOLEAN :
        /\ row' = IF ok THEN [row EXCEPT ![k] = v] ELSE row
        /\ answers' = Append(answers, [key |-> k, value |-> v, ok |-> ok])
  BY DEF WriteDirectly
<1> DEFINE a == [key |-> k, value |-> v, ok |-> ok]
<1>2. a \in Answer /\ a.key = k /\ a.value = v
  BY DEF Answer
<1>3. answers' = Append(answers, a)
  BY <1>1
<1> HIDE DEF a
<1>4. answers \in Seq(Answer)
  BY DEF WritesInv, Types
<1>5. answers' \in Seq(Answer) /\ ToSet(answers') = ToSet(answers) \cup {a}
  BY <1>2, <1>3, <1>4, ToSetAppend, AppendProperties
<1>6. /\ guard' \in [Keys -> [value: Values \cup {NoValue}, pending: BOOLEAN]]
      /\ guard'[k] = [value |-> v, pending |-> TRUE]
      /\ \A j \in Keys : j # k => guard'[j] = guard[j]
  BY BeginProperties
<1>7. row' \in [Keys -> Values \cup {NoValue}]
  BY <1>1 DEF WritesInv, Types
<1>8. Types'
  BY <1>5, <1>6, <1>7 DEF WritesInv, Types
<1>9. Queued' /\ nextCommand' = nextCommand /\ cmd' = cmd
  BY SameQueue DEF WritesInv
<1>10. ASSUME NEW j \in Keys
       PROVE  HasWrite(nextCommand, cmd, payload, answers', guard'[j], j)
  <2>1. CASE j = k
    <3>1. guard'[k].value = v
      BY <1>6
    <3>2. \E x \in ToSet(answers') : x.key = k /\ x.value = guard'[k].value
      BY <1>2, <1>5, <3>1
    <3> QED  BY <2>1, <3>2 DEF HasWrite
  <2>2. CASE j # k
    <3>1. HasWrite(nextCommand, cmd, payload, answers, guard[j], j)
      BY DEF WritesInv, EntriesEnd
    <3>2. ToSet(answers) \subseteq ToSet(answers')
      BY <1>5
    <3> QED  BY <1>6, <2>2, <3>1, <3>2, MoreAnswers
  <2> QED  BY <2>1, <2>2
<1>11. EntriesEnd'
  BY <1>9, <1>10 DEF EntriesEnd
<1>12. RefusalsAreRepeats'
  BY <1>9 DEF RefusalsAreRepeats
<1> QED  BY <1>8, <1>9, <1>11, <1>12 DEF WritesInv

LEMMA TransactionUpsertsInv ==
  ASSUME WritesInv, TransactionUpserts
  PROVE  WritesInv'
<1> DEFINE k == Running.key
           v == Running.value
<1>1. /\ runner = "executing" /\ Running.transaction
      /\ passed' \in BOOLEAN /\ undo' = row /\ wiring' = wiring
  BY DEF TransactionUpserts
<1>2. /\ k \in Keys /\ v \in Values /\ batch[1] \in 1..nextCommand
  BY <1>1, RunningProperties
<1>3. \/ UNCHANGED <<queueVars, row, guard, payload, answers>>
      \/ /\ wiring = "writer"
         /\ Begin(k, v) /\ WriteDirectly(k, v) /\ UNCHANGED <<queueVars, payload>>
      \/ Begin(k, v) /\ Submit(k, v) /\ UNCHANGED row
  BY DEF TransactionUpserts
<1>4. ~TakesTurns(nextCommand, wiring, payload) \/ wiring = "queue"
  BY <1>1, <1>2 DEF TakesTurns, Running
<1> HIDE DEF k, v
<1>5. CASE UNCHANGED <<queueVars, row, guard, payload, answers>>
  <2>1. Queued' /\ nextCommand' = nextCommand /\ cmd' = cmd
    BY <1>5, SameQueue DEF WritesInv
  <2>2. Types'
    BY <1>1, <1>5 DEF WritesInv, Types
  <2>3. EntriesEnd'
    BY <1>5, <2>1 DEF WritesInv, EntriesEnd
  <2>4. RefusalsAreRepeats'
    BY <1>1, <1>5, <2>1 DEF WritesInv, RefusalsAreRepeats
  <2> QED  BY <2>1, <2>2, <2>3, <2>4 DEF WritesInv
<1>6. CASE /\ wiring = "writer"
           /\ Begin(k, v) /\ WriteDirectly(k, v) /\ UNCHANGED <<queueVars, payload>>
  BY <1>1, <1>2, <1>4, <1>6, WriteDirectlyInv
<1>7. CASE Begin(k, v) /\ Submit(k, v) /\ UNCHANGED row
  BY <1>1, <1>2, <1>7, SubmitInv
<1> QED  BY <1>3, <1>5, <1>6, <1>7

(* A step of the queue that commits nothing and issues nothing.             *)
LEMMA QuietInv ==
  ASSUME WritesInv, QueueProceeds({}), QueueInv', Budget', AnswerDecided,
         UNCHANGED <<wiring, guard, payload>>, passed' \in BOOLEAN,
         row' \in [Keys -> Values \cup {NoValue}], undo' \in [Keys -> Values \cup {NoValue}],
         TakesTurns(nextCommand, wiring, payload) => row' = row /\ undo' = row
  PROVE  WritesInv'
<1> DEFINE n == nextCommand
<1>1. /\ nextCommand' = n
      /\ Step(n, n, cmd, cmd', payload, payload, answers, answers', {})
      /\ answers' \in Seq(Answer)
      /\ Fresh(n, cmd') /\ NoAppends(n, cmd')
  BY QuietStep
<1>2. Queued'
  BY <1>1 DEF Queued
<1>3. Types'
  BY <1>1 DEF WritesInv, Types
<1>4. ASSUME NEW j \in Keys
      PROVE  /\ HasWrite(n, cmd', payload, answers', guard[j], j)
             /\ TakesTurns(n, wiring, payload) =>
                  RefusesOnly(n, cmd', payload, answers', row[j], guard[j].value, j)
  <2>1. HasWrite(n, cmd, payload, answers, guard[j], j)
    BY DEF WritesInv, EntriesEnd
  <2>2. HasWrite(n, cmd', payload, answers', guard[j], j)
    BY <1>1, <2>1, HasWriteKept
  <2>3. WaitingIn(n, cmd', payload, j) \subseteq WaitingIn(n, cmd, payload, j)
    BY <1>1, NoNewWrites
  <2>4. \A c \in WaitingIn(n, cmd, payload, j) : cmd'[c].outcome # "resolved"
    BY <1>1 DEF Step, Proceeds, WaitingIn
  <2>5. TakesTurns(n, wiring, payload)
          => RefusesOnly(n, cmd, payload, answers, row[j], guard[j].value, j)
    BY DEF WritesInv, RefusalsAreRepeats
  <2>6. ASSUME RefusesOnly(n, cmd, payload, answers, row[j], guard[j].value, j)
        PROVE  RefusesOnly(n, cmd', payload, answers', row[j], guard[j].value, j)
    <3>1. Harmless(n, n, cmd, cmd', payload, payload, j)
      BY <2>3, <2>4 DEF Harmless
    <3> HIDE DEF n
    <3> QED  BY <1>1, <2>6, <3>1, RefusesOnlyKept
  <2> QED  BY <2>2, <2>5, <2>6
<1> HIDE DEF n
<1>5. EntriesEnd'
  BY <1>1, <1>4 DEF EntriesEnd
<1>6. RefusalsAreRepeats'
  BY <1>1, <1>4 DEF RefusalsAreRepeats, n
<1> QED  BY <1>2, <1>3, <1>5, <1>6 DEF WritesInv

LEMMA OperationFailsInv ==
  ASSUME WritesInv, OperationEnds, OperationFails
  PROVE  WritesInv'
<1>1. /\ OpBusy \/ OpThrows
      /\ row' = IF passed THEN undo ELSE row
      /\ passed' = FALSE /\ undo' = row' /\ AnswerDecided
      /\ UNCHANGED <<wiring, guard, payload>>
  BY DEF OperationFails, OperationEnds
<1>2. QueueInv /\ Budget /\ Fresh(nextCommand, cmd) /\ OpEnds
  BY <1>1 DEF WritesInv, Queued, OpEnds
<1>3. QueueProceeds({})
  BY <1>1, <1>2, OpFailsProceeds
<1>4. QueueInv' /\ Budget'
  BY <1>1, <1>2, OpFailsInv, OpEndsBudget
<1>5. row' \in [Keys -> Values \cup {NoValue}] /\ undo' \in [Keys -> Values \cup {NoValue}]
  BY <1>1 DEF WritesInv, Types
<1>6. TakesTurns(nextCommand, wiring, payload) => row' = row /\ undo' = row
  BY <1>1 DEF WritesInv, RefusalsAreRepeats
<1> QED  BY <1>1, <1>3, <1>4, <1>5, <1>6, QuietInv

LEMMA OperationCommitsInv ==
  ASSUME WritesInv, OperationEnds, OperationCommits
  PROVE  WritesInv'
<1> DEFINE n == nextCommand
           b == batch[1]
           p == payload[b]
           T == {b}
<1>1. /\ OpCommits
      /\ row' = IF p.transaction THEN row ELSE [row EXCEPT ![p.key] = p.value]
      /\ passed' = FALSE /\ undo' = row' /\ AnswerDecided
      /\ UNCHANGED <<wiring, guard, payload>>
  BY DEF OperationCommits, OperationEnds, Running
<1>2. QueueInv /\ Budget /\ Fresh(n, cmd) /\ NoAppends(n, cmd) /\ OpEnds
  BY <1>1 DEF WritesInv, Queued, OpEnds
<1>3. /\ b \in 1..n /\ b \in Commands /\ cmd[b].outcome = "pending"
      /\ p.key \in Keys /\ p.value \in Values
      /\ \A c \in Pending : b <= c
  <2>1. runner = "executing"
    BY <1>1 DEF OpCommits
  <2> QED  BY <2>1, RunningProperties DEF Running
<1>4. /\ QueueProceeds(T)
      /\ cmd'[b].outcome = "resolved"
      /\ \A c \in Commands : c # b => cmd'[c].outcome = cmd[c].outcome
  BY <1>1, <1>2, OpCommitsProceeds
<1> HIDE DEF b, p, T
<1>5. QueueInv' /\ Budget'
  BY <1>1, <1>2, OpCommitsInv, OpEndsBudget
<1>6. /\ nextCommand' = n
      /\ Step(n, n, cmd, cmd', payload, payload, answers, answers', T)
      /\ answers' \in Seq(Answer)
      /\ Fresh(n, cmd') /\ NoAppends(n, cmd')
  BY <1>1, <1>4, QuietStep
<1>7. Queued'
  BY <1>5, <1>6 DEF Queued
<1>8. row' \in [Keys -> Values \cup {NoValue}]
  BY <1>1, <1>3 DEF WritesInv, Types
<1>9. Types'
  BY <1>1, <1>6, <1>8 DEF WritesInv, Types
<1>10. ASSUME NEW j \in Keys
       PROVE  /\ HasWrite(n, cmd', payload, answers', guard[j], j)
              /\ TakesTurns(n, wiring, payload) =>
                   RefusesOnly(n, cmd', payload, answers', row'[j], guard[j].value, j)
  <2> DEFINE W == WaitingIn(n, cmd, payload, j)
             X == WaitingIn(n, cmd', payload, j)
  <2>1. HasWrite(n, cmd, payload, answers, guard[j], j)
    BY DEF WritesInv, EntriesEnd
  <2>2. HasWrite(n, cmd', payload, answers', guard[j], j)
    BY <1>6, <2>1, HasWriteKept
  <2>3. X \subseteq W
    BY <1>6, NoNewWrites
  <2>4. TakesTurns(n, wiring, payload)
          => RefusesOnly(n, cmd, payload, answers, row[j], guard[j].value, j)
    BY DEF WritesInv, RefusalsAreRepeats
  <2>5. W \subseteq Pending /\ W \subseteq Commands
    BY LimitTypes DEF WaitingIn, Pending, Issued, Commands, WritesInv, Queued, QueueInv, Good
  <2>6. CASE b \in W
    <3>1. ~p.transaction /\ p.key = j
      BY <2>6 DEF WaitingIn, p
    <3>2. row'[j] = payload[b].value
      BY <1>1, <3>1 DEF WritesInv, Types, p
    <3>3. X = W \ {b}
      <4>1. b \notin X
        BY <1>4 DEF WaitingIn
      <4>2. \A c \in W : c # b => c \in X
        BY <1>4, <2>5 DEF WaitingIn
      <4> QED  BY <2>3, <4>1, <4>2
    <3>4. \A d \in W : b <= d
      BY <1>3, <2>5
    <3>5. RefusesOnly(n, cmd, payload, answers, row[j], guard[j].value, j)
            => RefusesOnly(n, cmd', payload, answers', payload[b].value, guard[j].value, j)
      BY <1>6, <2>6, <3>3, <3>4, RefusesOnlyCommitted
    <3> QED  BY <2>2, <2>4, <3>2, <3>5
  <2>7. CASE b \notin W
    <3>1. row'[j] = row[j]
      <4>1. p.transaction \/ p.key # j
        BY <1>3, <2>7 DEF WaitingIn, p
      <4> QED  BY <1>1, <4>1 DEF WritesInv, Types
    <3>2. \A c \in W : cmd'[c].outcome # "resolved"
      BY <1>4, <2>5, <2>7 DEF WaitingIn
    <3>3. ASSUME RefusesOnly(n, cmd, payload, answers, row[j], guard[j].value, j)
          PROVE  RefusesOnly(n, cmd', payload, answers', row[j], guard[j].value, j)
      <4>1. Harmless(n, n, cmd, cmd', payload, payload, j)
        BY <2>3, <3>2 DEF Harmless
      <4> HIDE DEF n
      <4> QED  BY <1>6, <3>3, <4>1, RefusesOnlyKept
    <3> QED  BY <2>2, <2>4, <3>1, <3>3
  <2> QED  BY <2>6, <2>7
<1> HIDE DEF n
<1>11. EntriesEnd'
  BY <1>1, <1>6, <1>10 DEF EntriesEnd
<1>12. RefusalsAreRepeats'
  BY <1>1, <1>6, <1>10 DEF RefusalsAreRepeats
<1> QED  BY <1>7, <1>9, <1>11, <1>12 DEF WritesInv

LEMMA QueueMovesInv ==
  ASSUME WritesInv, QueueMoves
  PROVE  WritesInv'
<1>1. /\ Retry \/ (\E late \in BOOLEAN : Finally(late)) \/ CloseDrain
      /\ UNCHANGED <<wiring, row, guard, payload, undo, passed>> /\ AnswerDecided
  BY DEF QueueMoves
<1>2. QueueInv /\ Budget /\ Fresh(nextCommand, cmd)
  BY DEF WritesInv, Queued
<1>3. QueueProceeds({})
  BY <1>1, <1>2, QueueMovesProceeds
<1>4. QueueInv'
  BY <1>1, <1>2, RetryInv, FinallyInv, CloseInv
<1>5. Budget'
  BY <1>1, <1>2, StepBudget DEF QueueNext
<1>6. /\ row' \in [Keys -> Values \cup {NoValue}] /\ undo' \in [Keys -> Values \cup {NoValue}]
      /\ passed' \in BOOLEAN
      /\ TakesTurns(nextCommand, wiring, payload) => row' = row /\ undo' = row
  BY <1>1 DEF WritesInv, Types, RefusalsAreRepeats
<1> QED  BY <1>1, <1>3, <1>4, <1>5, <1>6, QuietInv

(* An answer that arrives ends the entry it was given for; a failure that   *)
(* the guard still counts on is not of another entry.                       *)
LEMMA AnswerArrivesInv ==
  ASSUME WritesInv, AnswerArrives
  PROVE  WritesInv'
<1> DEFINE n == nextCommand
           a == Head(answers)
<1>1. /\ answers # <<>> /\ answers' = Tail(answers)
      /\ guard' = IF ~Matches(a) THEN guard
                  ELSE [guard EXCEPT ![a.key] = AfterAnswer(a)]
      /\ UNCHANGED <<queueVars, wiring, row, payload, undo, passed>>
  BY DEF AnswerArrives
<1>2. /\ answers \in Seq(Answer)
      /\ guard \in [Keys -> [value: Values \cup {NoValue}, pending: BOOLEAN]]
  BY DEF WritesInv, Types
<1>3. /\ ToSet(answers) = {a} \cup ToSet(answers')
      /\ a \in Answer /\ answers' \in Seq(Answer)
  BY <1>1, <1>2, ToSetTail
<1> HIDE DEF a
<1>4. a.key \in Keys /\ a.value \in Values /\ a.ok \in BOOLEAN
  BY <1>3 DEF Answer
<1>5. Queued' /\ nextCommand' = n /\ cmd' = cmd
  BY <1>1, SameQueue DEF WritesInv
<1>6. AfterAnswer(a) \in [value: Values \cup {NoValue}, pending: BOOLEAN]
      /\ ~AfterAnswer(a).pending
      /\ AfterAnswer(a).value = IF a.ok THEN a.value ELSE NoValue
  BY <1>4 DEF AfterAnswer, NoEntry
<1>7. /\ guard' \in [Keys -> [value: Values \cup {NoValue}, pending: BOOLEAN]]
      /\ \A j \in Keys : IF j = a.key /\ guard[j].value = a.value
                           THEN guard'[j] = AfterAnswer(a) ELSE guard'[j] = guard[j]
  <2> HIDE DEF AfterAnswer
  <2> QED  BY <1>1, <1>2, <1>4, <1>6 DEF Matches
<1>8. Types'
  BY <1>1, <1>3, <1>7 DEF WritesInv, Types
<1>9. ASSUME NEW j \in Keys
      PROVE  /\ HasWrite(n, cmd, payload, answers', guard'[j], j)
             /\ TakesTurns(n, wiring, payload) =>
                  RefusesOnly(n, cmd, payload, answers', row[j], guard'[j].value, j)
  <2>1. HasWrite(n, cmd, payload, answers, guard[j], j)
    BY DEF WritesInv, EntriesEnd
  <2>2. TakesTurns(n, wiring, payload)
          => RefusesOnly(n, cmd, payload, answers, row[j], guard[j].value, j)
    BY DEF WritesInv, RefusalsAreRepeats
  <2>3. CASE j = a.key /\ guard[j].value = a.value
    <3>1. guard'[j] = AfterAnswer(a)
      BY <1>7, <2>3
    <3>2. HasWrite(n, cmd, payload, answers', guard'[j], j)
      BY <1>6, <3>1 DEF HasWrite
    <3>3. CASE a.ok
      <4>1. guard'[j].value = guard[j].value
        BY <1>6, <2>3, <3>1, <3>3
      <4>2. [key |-> j, value |-> guard[j].value, ok |-> FALSE] # a
        BY <3>3
      <4>3. FailsIn(answers, j, guard[j].value) => FailsIn(answers', j, guard[j].value)
        BY <1>3, <4>2 DEF FailsIn
      <4> QED  BY <2>2, <3>2, <4>1, <4>3 DEF RefusesOnly
    <3>4. CASE ~a.ok
      <4>1. guard'[j].value = NoValue
        BY <1>6, <3>1, <3>4
      <4> QED  BY <3>2, <4>1 DEF RefusesOnly
    <3> QED  BY <3>3, <3>4
  <2>4. CASE ~(j = a.key /\ guard[j].value = a.value)
    <3>1. guard'[j] = guard[j]
      BY <1>7, <2>4
    <3>2. \A x \in ToSet(answers) :
            x.key = j /\ x.value = guard[j].value => x \in ToSet(answers')
      BY <1>3, <2>4
    <3>3. HasWrite(n, cmd, payload, answers', guard[j], j)
      BY <2>1, <3>2 DEF HasWrite
    <3> DEFINE f == [key |-> j, value |-> guard[j].value, ok |-> FALSE]
    <3>4. f.key = j /\ f.value = guard[j].value
      OBVIOUS
    <3>5. f \in ToSet(answers) => f \in ToSet(answers')
      <4> HIDE DEF f
      <4> QED  BY <3>2, <3>4
    <3>6. FailsIn(answers, j, guard[j].value) => FailsIn(answers', j, guard[j].value)
      BY <3>5 DEF FailsIn
    <3> QED  BY <2>2, <3>1, <3>3, <3>6 DEF RefusesOnly
  <2> QED  BY <2>3, <2>4
<1> HIDE DEF n
<1>10. EntriesEnd'
  BY <1>1, <1>5, <1>9 DEF EntriesEnd
<1>11. RefusalsAreRepeats'
  BY <1>1, <1>5, <1>9 DEF RefusalsAreRepeats, WritesInv, n
<1> QED  BY <1>5, <1>8, <1>10, <1>11 DEF WritesInv

LEMMA EntryExpiresInv ==
  ASSUME WritesInv, NEW k \in Keys, EntryExpires(k)
  PROVE  WritesInv'
<1>1. /\ guard' = [guard EXCEPT ![k] = NoEntry]
      /\ UNCHANGED <<queueVars, wiring, row, payload, answers, undo, passed>>
  BY DEF EntryExpires
<1>2. NoEntry \in [value: Values \cup {NoValue}, pending: BOOLEAN]
      /\ ~NoEntry.pending /\ NoEntry.value = NoValue
  BY DEF NoEntry
<1>3. /\ guard' \in [Keys -> [value: Values \cup {NoValue}, pending: BOOLEAN]]
      /\ \A j \in Keys : guard'[j] = IF j = k THEN NoEntry ELSE guard[j]
  BY <1>1, <1>2 DEF WritesInv, Types
<1>4. Queued' /\ nextCommand' = nextCommand /\ cmd' = cmd
  BY <1>1, SameQueue DEF WritesInv
<1>5. Types'
  BY <1>1, <1>3 DEF WritesInv, Types
<1>6. EntriesEnd'
  BY <1>1, <1>2, <1>3, <1>4 DEF WritesInv, EntriesEnd, HasWrite
<1>7. RefusalsAreRepeats'
  BY <1>1, <1>2, <1>3, <1>4 DEF WritesInv, RefusalsAreRepeats, RefusesOnly
<1> QED  BY <1>4, <1>5, <1>6, <1>7 DEF WritesInv

LEMMA WritesStepInv ==
  ASSUME WritesInv, [WritesNext]_writesVars
  PROVE  WritesInv'
<1>1. CASE \E k \in Keys, v \in Values : Upsert(k, v) \/ EnqueueTransaction(k, v)
  BY <1>1, UpsertInv, EnqueueTransactionInv
<1>2. CASE TransactionUpserts
  BY <1>2, TransactionUpsertsInv
<1>3. CASE OperationEnds
  BY <1>3, OperationCommitsInv, OperationFailsInv DEF OperationEnds
<1>4. CASE QueueMoves
  BY <1>4, QueueMovesInv
<1>5. CASE AnswerArrives
  BY <1>5, AnswerArrivesInv
<1>6. CASE \E k \in Keys : EntryExpires(k)
  BY <1>6, EntryExpiresInv
<1>7. CASE UNCHANGED writesVars
  <2>1. UNCHANGED <<queueVars, wiring, row, guard, payload, answers, passed, undo>>
    BY <1>7 DEF writesVars
  <2>2. Queued' /\ nextCommand' = nextCommand /\ cmd' = cmd
    BY <2>1, SameQueue DEF WritesInv
  <2> QED  BY <2>1, <2>2 DEF WritesInv, Types, EntriesEnd, RefusalsAreRepeats
<1> QED  BY <1>1, <1>2, <1>3, <1>4, <1>5, <1>6, <1>7 DEF WritesNext

LEMMA WritesInvHolds == WritesSpec => []WritesInv
<1>1. WritesInit => WritesInv
  BY InitWrites
<1>2. WritesInv /\ [WritesNext]_writesVars => WritesInv'
  BY WritesStepInv
<1> QED  BY <1>1, <1>2, PTL DEF WritesSpec

-----------------------------------------------------------------------------
(* The theorems.                                                            *)

LEMMA InvMembers ==
  ASSUME WritesInv
  PROVE  /\ \A k \in Keys : Waiting(k) = WaitingIn(nextCommand, cmd, payload, k)
         /\ \A x : x \in ToSet(answers) <=> \E i \in DOMAIN answers : answers[i] = x
<1>1. \A k \in Keys : Waiting(k) = WaitingIn(nextCommand, cmd, payload, k)
  BY DEF Waiting, WaitingIn, Pending, Issued
<1>2. \A x : x \in ToSet(answers) <=> \E i \in DOMAIN answers : answers[i] = x
  BY DEF ToSet
<1> QED  BY <1>1, <1>2

(* Types of the variables of the queue and of the guard.                    *)
THEOREM WritesTypeCorrect == WritesSpec => []WritesTypeOK
<1>1. ASSUME WritesInv PROVE WritesTypeOK
  <2>1. QueueInv /\ Budget /\ Types
    BY <1>1 DEF WritesInv, Queued
  <2>2. QueueTypeOK
    <3>1. pendingBytes \in Nat
      BY <2>1, BytesType DEF QueueInv, Good, Budget, BudgetIsExact
    <3> QED  BY <2>1, <3>1 DEF QueueInv, Good, Control, Budget, QueueTypeOK
  <2> QED  BY <2>1, <2>2 DEF Types, WritesTypeOK
<1> QED  BY <1>1, WritesInvHolds, PTL

(* A pending entry of LatestWriteGuard has a write or a callback under way  *)
(* that ends it, so no fingerprint is refused for ever.                     *)
THEOREM EntriesOfTheGuardEnd == WritesSpec => []PendingEntryHasWrite
<1>1. ASSUME WritesInv PROVE PendingEntryHasWrite
  <2>1. \A k \in Keys : HasWrite(nextCommand, cmd, payload, answers, guard[k], k)
    BY <1>1 DEF WritesInv, EntriesEnd
  <2>2. \A a \in ToSet(answers) : \E i \in DOMAIN answers : answers[i] = a
    BY <1>1, InvMembers
  <2> QED  BY <1>1, <2>1, <2>2, InvMembers DEF HasWrite, PendingEntryHasWrite
<1> QED  BY <1>1, WritesInvHolds, PTL

(* Where every write takes its turn in the queue, the guard holds back a    *)
(* write only when the row has its contents, will have them, or a failure   *)
(* of such a write is about to be reported.                                 *)
THEOREM QueuedWritesAreRefusedAsRepeats == WritesSpec => []QueuedWritesRefuseRepeatsOnly
<1>1. ASSUME WritesInv PROVE QueuedWritesRefuseRepeatsOnly
  <2> SUFFICES ASSUME wiring = "queue" \/ (\A c \in Issued : ~payload[c].transaction),
                      NEW k \in Keys, guard[k].value # NoValue
               PROVE  Projected(k) = guard[k].value \/ Failing(k, guard[k].value)
    BY DEF QueuedWritesRefuseRepeatsOnly, RefusesRepeatsOnly
  <2>1. TakesTurns(nextCommand, wiring, payload)
    BY DEF TakesTurns, Issued
  <2>2. RefusesOnly(nextCommand, cmd, payload, answers, row[k], guard[k].value, k)
    BY <1>1, <2>1 DEF WritesInv, RefusalsAreRepeats
  <2>3. FailsIn(answers, k, guard[k].value) => Failing(k, guard[k].value)
    BY <1>1, InvMembers DEF FailsIn, Failing
  <2>4. ProjectedIn(nextCommand, cmd, payload, row[k], k) = Projected(k)
    BY <1>1, InvMembers DEF ProjectedIn, Projected
  <2> QED  BY <2>2, <2>3, <2>4 DEF RefusesOnly
<1> QED  BY <1>1, WritesInvHolds, PTL

=============================================================================
