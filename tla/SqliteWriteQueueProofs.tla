------------------------ MODULE SqliteWriteQueueProofs ------------------------
(***************************************************************************)
(* Proofs about the write queue: every pending command is held in exactly  *)
(* one place, commands keep the order of the calls, no wakeup is lost,     *)
(* only append batches repeat work, and the byte budget is exact, for all  *)
(* policies, limits and sizes.                                             *)
(***************************************************************************)
EXTENDS SqliteWriteQueue, InductionLemmas, FiniteSetTheorems

-----------------------------------------------------------------------------
(* Sequences.                                                               *)

Increasing(s) == \A i, j \in DOMAIN s : i < j => s[i] < s[j]

(* What is in b comes before what is in e, and both are in order.           *)
Ordered(b, e) ==
  /\ Increasing(b) /\ Increasing(e)
  /\ \A i \in DOMAIN b, j \in DOMAIN e : b[i] < e[j]

LEMMA LimitTypes ==
  /\ MaxCommands \in Nat /\ MaxRetries \in Nat /\ MaxBatchCommands \in Nat
  /\ \A c \in Commands : c \in Nat
BY LimitsAssumption DEF Commands

LEMMA OrderedConcat ==
  ASSUME NEW b \in Seq(Commands), NEW e \in Seq(Commands), Ordered(b, e)
  PROVE  Increasing(b \o e) /\ IsInjective(e \o b)
<1>1. /\ Len(b) \in Nat /\ DOMAIN b = 1..Len(b)
      /\ Len(e) \in Nat /\ DOMAIN e = 1..Len(e)
      /\ \A i \in 1..Len(b) : b[i] \in Nat
      /\ \A i \in 1..Len(e) : e[i] \in Nat
  BY LimitTypes, ElementOfSeq, LenProperties
<1>2. /\ DOMAIN (b \o e) = 1..(Len(b) + Len(e))
      /\ \A i \in 1..(Len(b) + Len(e)) :
           (b \o e)[i] = IF i <= Len(b) THEN b[i] ELSE e[i - Len(b)]
  BY ConcatProperties, LenProperties
<1>3. /\ DOMAIN (e \o b) = 1..(Len(e) + Len(b))
      /\ \A i \in 1..(Len(e) + Len(b)) :
           (e \o b)[i] = IF i <= Len(e) THEN e[i] ELSE b[i - Len(e)]
  BY ConcatProperties, LenProperties
<1>4. Increasing(b \o e)
  <2> SUFFICES ASSUME NEW i \in 1..(Len(b) + Len(e)),
                      NEW j \in 1..(Len(b) + Len(e)), i < j
               PROVE  (b \o e)[i] < (b \o e)[j]
    BY <1>2 DEF Increasing
  <2>1. CASE j <= Len(b)
    <3>1. i \in DOMAIN b /\ j \in DOMAIN b /\ i <= Len(b)
      BY <1>1, <2>1
    <3>2. b[i] < b[j]
      BY <3>1 DEF Ordered, Increasing
    <3> QED  BY <1>2, <2>1, <3>1, <3>2
  <2>2. CASE i <= Len(b) /\ ~ (j <= Len(b))
    <3>1. i \in DOMAIN b /\ j - Len(b) \in DOMAIN e
      BY <1>1, <2>2
    <3> QED  BY <1>1, <1>2, <2>2, <3>1 DEF Ordered
  <2>3. CASE ~ (i <= Len(b))
    <3>1. i - Len(b) \in DOMAIN e /\ j - Len(b) \in DOMAIN e /\ i - Len(b) < j - Len(b)
      BY <1>1, <2>3
    <3>2. e[i - Len(b)] < e[j - Len(b)]
      BY <3>1 DEF Ordered, Increasing
    <3>3. ~ (j <= Len(b))
      BY <1>1, <2>3
    <3> QED  BY <1>2, <2>3, <3>2, <3>3
  <2> QED  BY <1>1, <2>1, <2>2, <2>3
<1>5. IsInjective(e \o b)
  <2> SUFFICES ASSUME NEW i \in 1..(Len(e) + Len(b)),
                      NEW j \in 1..(Len(e) + Len(b)), i < j
               PROVE  (e \o b)[i] # (e \o b)[j]
    BY <1>1, <1>3 DEF IsInjective
  <2>1. CASE j <= Len(e)
    BY <1>1, <1>3, <2>1 DEF Ordered, Increasing
  <2>2. CASE i <= Len(e) /\ ~ (j <= Len(e))
    <3>1. i \in DOMAIN e /\ j - Len(e) \in DOMAIN b
      BY <1>1, <2>2
    <3>2. b[j - Len(e)] < e[i]
      BY <3>1 DEF Ordered
    <3> QED  BY <1>1, <1>3, <2>2, <3>1, <3>2
  <2>3. CASE ~ (i <= Len(e))
    <3>1. i - Len(e) \in DOMAIN b /\ j - Len(e) \in DOMAIN b /\ i - Len(e) < j - Len(e)
      BY <1>1, <2>3
    <3>2. b[i - Len(e)] < b[j - Len(e)]
      BY <3>1 DEF Ordered, Increasing
    <3> QED  BY <1>1, <1>3, <2>3, <3>1, <3>2
  <2> QED  BY <1>1, <2>1, <2>2, <2>3
<1> QED  BY <1>4, <1>5

LEMMA FirstPart ==
  ASSUME NEW q \in Seq(Commands), NEW n \in 0..Len(q)
  PROVE  /\ SubSeq(q, 1, n) \in Seq(Commands)
         /\ Len(SubSeq(q, 1, n)) = n
         /\ \A i \in 1..n : SubSeq(q, 1, n)[i] = q[i]
<1>1. Len(q) \in Nat /\ n \in Int /\ n - 1 + 1 = n /\ (1 <= n \/ n = 0)
  BY LenProperties
<1>2. \A i \in 1..n : q[i] \in Commands
  BY <1>1, ElementOfSeq
<1>3. /\ SubSeq(q, 1, n) \in Seq(Commands)
      /\ Len(SubSeq(q, 1, n)) = IF 1 <= n THEN n - 1 + 1 ELSE 0
      /\ \A i \in 1..(n - 1 + 1) : SubSeq(q, 1, n)[i] = q[1 + i - 1]
  BY <1>1, <1>2, SubSeqProperties
<1>4. \A i \in 1..n : 1 + i - 1 = i
  OBVIOUS
<1> QED  BY <1>1, <1>3, <1>4

LEMMA LastPart ==
  ASSUME NEW q \in Seq(Commands), NEW n \in 0..Len(q)
  PROVE  /\ SubSeq(q, n + 1, Len(q)) \in Seq(Commands)
         /\ Len(SubSeq(q, n + 1, Len(q))) = Len(q) - n
         /\ \A i \in 1..(Len(q) - n) : SubSeq(q, n + 1, Len(q))[i] = q[n + i]
<1> DEFINE l == Len(q)
<1>1. l \in Nat
  BY LenProperties
<1>2. \A i \in (n + 1)..l : q[i] \in Commands
  BY <1>1, ElementOfSeq
<1>3. /\ SubSeq(q, n + 1, l) \in Seq(Commands)
      /\ Len(SubSeq(q, n + 1, l)) = IF n + 1 <= l THEN l - (n + 1) + 1 ELSE 0
      /\ \A i \in 1..(l - (n + 1) + 1) : SubSeq(q, n + 1, l)[i] = q[n + 1 + i - 1]
  BY <1>1, <1>2, SubSeqProperties
<1> HIDE DEF l
<1>4. l - (n + 1) + 1 = l - n
  BY <1>1 DEF l
<1>5. n + 1 <= l \/ l - n = 0
  BY <1>1 DEF l
<1>6. ASSUME NEW i \in 1..(l - n) PROVE n + 1 + i - 1 = n + i
  BY <1>1
<1>7. Len(SubSeq(q, n + 1, l)) = l - n
  BY <1>3, <1>4, <1>5
<1>8. ASSUME NEW i \in 1..(l - n) PROVE SubSeq(q, n + 1, l)[i] = q[n + i]
  BY <1>3, <1>4, <1>6
<1> QED  BY <1>3, <1>7, <1>8 DEF l

(* The two halves of an increasing sequence.                                *)
LEMMA SplitOrdered ==
  ASSUME NEW q \in Seq(Commands), NEW n \in 1..Len(q), Increasing(q)
  PROVE  LET taken == SubSeq(q, 1, n)
             left == SubSeq(q, n + 1, Len(q))
         IN  /\ taken \in Seq(Commands) /\ left \in Seq(Commands)
             /\ Len(taken) = n
             /\ \A i \in 1..n : taken[i] = q[i]
             /\ \A i \in DOMAIN left : \E j \in DOMAIN q : left[i] = q[j]
             /\ Ordered(taken, left) /\ Ordered(<<>>, left)
             /\ ToSet(left) \cup ToSet(taken) = ToSet(q)
             /\ ToSet(left) \cap ToSet(taken) = {}
<1> DEFINE taken == SubSeq(q, 1, n)
           left == SubSeq(q, n + 1, Len(q))
<1>1. /\ Len(q) \in Nat /\ DOMAIN q = 1..Len(q)
      /\ \A i \in 1..Len(q) : q[i] \in Commands /\ q[i] \in Nat
  BY LimitTypes, ElementOfSeq, LenProperties
<1>2. /\ taken \in Seq(Commands) /\ Len(taken) = n
      /\ \A i \in 1..n : taken[i] = q[i]
  <2>1. n \in 0..Len(q)
    BY <1>1
  <2> QED  BY <2>1, FirstPart
<1>3. /\ left \in Seq(Commands) /\ Len(left) = Len(q) - n
      /\ \A i \in 1..(Len(q) - n) : left[i] = q[n + i]
  <2>1. n \in 0..Len(q)
    BY <1>1
  <2> QED  BY <2>1, LastPart
<1>4. DOMAIN taken = 1..n /\ DOMAIN left = 1..(Len(q) - n)
  BY <1>2, <1>3, LenProperties
<1> HIDE DEF taken, left
<1>5. Ordered(taken, left)
  <2>1. Increasing(taken)
    BY <1>1, <1>2, <1>4 DEF Increasing
  <2>2. Increasing(left)
    <3> SUFFICES ASSUME NEW i \in 1..(Len(q) - n), NEW j \in 1..(Len(q) - n), i < j
                 PROVE  left[i] < left[j]
      BY <1>4 DEF Increasing
    <3>1. n + i \in DOMAIN q /\ n + j \in DOMAIN q /\ n + i < n + j
      BY <1>1
    <3> QED  BY <1>3, <3>1 DEF Increasing
  <2>3. ASSUME NEW i \in 1..n, NEW j \in 1..(Len(q) - n)
        PROVE  taken[i] < left[j]
    <3>1. i \in DOMAIN q /\ n + j \in DOMAIN q /\ i < n + j
      BY <1>1
    <3> QED  BY <1>2, <1>3, <3>1 DEF Increasing
  <2> QED  BY <1>4, <2>1, <2>2, <2>3 DEF Ordered
<1>6. Ordered(<<>>, left)
  BY <1>5 DEF Ordered, Increasing
<1>7. ToSet(left) \cup ToSet(taken) = ToSet(q)
  <2>1. ASSUME NEW c \in ToSet(q) PROVE c \in ToSet(left) \cup ToSet(taken)
    <3>1. PICK i \in 1..Len(q) : c = q[i]
      BY <1>1 DEF ToSet
    <3>2. CASE i <= n
      BY <1>1, <1>2, <1>4, <3>1, <3>2 DEF ToSet
    <3>3. CASE ~ (i <= n)
      <4>1. i - n \in 1..(Len(q) - n) /\ n + (i - n) = i
        BY <1>1, <3>3
      <4> QED  BY <1>3, <1>4, <3>1, <4>1 DEF ToSet
    <3> QED  BY <3>2, <3>3
  <2>2. ASSUME NEW c \in ToSet(left) PROVE c \in ToSet(q)
    <3>1. PICK i \in 1..(Len(q) - n) : c = left[i]
      BY <1>4 DEF ToSet
    <3>2. n + i \in 1..Len(q)
      BY <1>1
    <3> QED  BY <1>1, <1>3, <3>1, <3>2 DEF ToSet
  <2>3. ASSUME NEW c \in ToSet(taken) PROVE c \in ToSet(q)
    BY <1>1, <1>2, <1>4 DEF ToSet
  <2> QED  BY <2>1, <2>2, <2>3
<1>8. ToSet(left) \cap ToSet(taken) = {}
  <2>1. \A i \in DOMAIN taken : taken[i] \in Nat
    BY <1>1, <1>2, <1>4
  <2> QED  BY <1>5, <2>1 DEF Ordered, ToSet
<1>9. \A i \in DOMAIN left : \E j \in DOMAIN q : left[i] = q[j]
  <2> SUFFICES ASSUME NEW i \in 1..(Len(q) - n)
               PROVE  \E j \in DOMAIN q : left[i] = q[j]
    BY <1>4
  <2>1. n + i \in DOMAIN q
    BY <1>1
  <2> QED  BY <1>3, <2>1
<1> QED  BY <1>2, <1>3, <1>5, <1>6, <1>7, <1>8, <1>9 DEF taken, left

(* An increasing sequence without one of its elements.                      *)
LEMMA RemoveOrdered ==
  ASSUME NEW b \in Seq(Commands), NEW q \in Seq(Commands), NEW i \in 1..Len(q),
         Ordered(b, q)
  PROVE  /\ RemoveAt(q, i) \in Seq(Commands)
         /\ Ordered(b, RemoveAt(q, i))
         /\ ToSet(RemoveAt(q, i)) = ToSet(q) \ {q[i]}
<1> DEFINE r == RemoveAt(q, i)
           head == SubSeq(q, 1, i - 1)
           tail == SubSeq(q, i + 1, Len(q))
           at(k) == IF k < i THEN k ELSE k + 1
<1>1. /\ Len(q) \in Nat /\ DOMAIN q = 1..Len(q)
      /\ \A k \in 1..Len(q) : q[k] \in Commands /\ q[k] \in Nat
  BY LimitTypes, ElementOfSeq, LenProperties
<1>2. /\ head \in Seq(Commands)
      /\ Len(head) = i - 1
      /\ \A k \in 1..(i - 1) : head[k] = q[k]
  <2>1. i - 1 \in 0..Len(q)
    BY <1>1
  <2> QED  BY <2>1, FirstPart
<1>3. /\ tail \in Seq(Commands)
      /\ Len(tail) = Len(q) - i
      /\ \A k \in 1..(Len(q) - i) : tail[k] = q[i + k]
  <2>1. i \in 0..Len(q)
    BY <1>1
  <2> QED  BY <2>1, LastPart
<1>10. r = head \o tail
  BY DEF RemoveAt
<1> HIDE DEF head, tail, r
<1>4. /\ r \in Seq(Commands) /\ DOMAIN r = 1..(Len(q) - 1)
      /\ \A k \in 1..(Len(q) - 1) : r[k] = q[at(k)]
  <2>1. /\ r \in Seq(Commands) /\ Len(r) = Len(head) + Len(tail)
        /\ \A k \in 1..(Len(head) + Len(tail)) :
             r[k] = IF k <= Len(head) THEN head[k] ELSE tail[k - Len(head)]
    BY <1>2, <1>3, <1>10, ConcatProperties
  <2>2. Len(head) + Len(tail) = Len(q) - 1
    BY <1>1, <1>2, <1>3
  <2>3. ASSUME NEW k \in 1..(Len(q) - 1)
        PROVE  r[k] = q[at(k)]
    <3>1. CASE k < i
      <4>1. k \in 1..(i - 1) /\ k <= i - 1
        BY <1>1, <3>1
      <4> QED  BY <1>2, <2>1, <2>2, <3>1, <4>1
    <3>2. CASE ~ (k < i)
      <4>1. /\ k - (i - 1) \in 1..(Len(q) - i)
            /\ i + (k - (i - 1)) = k + 1
            /\ ~ (k <= i - 1)
        BY <1>1, <3>2
      <4>2. r[k] = tail[k - (i - 1)]
        BY <1>2, <2>1, <2>2, <4>1
      <4>3. tail[k - (i - 1)] = q[k + 1]
        BY <1>3, <4>1
      <4> QED  BY <3>2, <4>2, <4>3
    <3> QED  BY <3>1, <3>2
  <2> QED  BY <2>1, <2>2, <2>3, LenProperties
<1>5. \A k \in 1..(Len(q) - 1) : at(k) \in DOMAIN q /\ at(k) # i
  BY <1>1
<1>6. \A k, m \in 1..(Len(q) - 1) : k < m => at(k) < at(m)
  BY <1>1
<1>7. \A k \in DOMAIN q : k # i => \E m \in 1..(Len(q) - 1) : at(m) = k
  <2> SUFFICES ASSUME NEW k \in 1..Len(q), k # i
               PROVE  \E m \in 1..(Len(q) - 1) : at(m) = k
    BY <1>1
  <2>1. CASE k < i
    BY <1>1, <2>1
  <2>2. CASE i < k
    <3>1. k - 1 \in 1..(Len(q) - 1) /\ at(k - 1) = k
      BY <1>1, <2>2
    <3> QED  BY <3>1
  <2> QED  BY <1>1, <2>1, <2>2
<1> HIDE DEF at
<1>8. Ordered(b, r)
  BY <1>4, <1>5, <1>6 DEF Ordered, Increasing
<1>9. ToSet(r) = ToSet(q) \ {q[i]}
  <2>1. \A k \in DOMAIN q : k # i => q[k] # q[i]
    BY <1>1 DEF Ordered, Increasing
  <2>2. ASSUME NEW c \in ToSet(r) PROVE c \in ToSet(q) \ {q[i]}
    <3>1. PICK k \in 1..(Len(q) - 1) : c = q[at(k)]
      BY <1>4 DEF ToSet
    <3>2. at(k) \in DOMAIN q /\ at(k) # i
      BY <1>5
    <3> QED  BY <2>1, <3>1, <3>2 DEF ToSet
  <2>3. ASSUME NEW c \in ToSet(q), c # q[i] PROVE c \in ToSet(r)
    <3>1. PICK k \in DOMAIN q : c = q[k]
      BY DEF ToSet
    <3>2. PICK m \in 1..(Len(q) - 1) : at(m) = k
      BY <1>7, <2>3, <3>1
    <3>3. r[m] = c
      BY <1>4, <3>1, <3>2
    <3> QED  BY <1>4, <3>3 DEF ToSet
  <2> QED  BY <2>2, <2>3
<1> QED  BY <1>4, <1>8, <1>9 DEF r

(* A sequence with a greater element at its end.                            *)
LEMMA AppendOrdered ==
  ASSUME NEW b \in Seq(Commands), NEW q \in Seq(Commands), NEW c \in Commands,
         Ordered(b, q), \A d \in ToSet(q) \cup ToSet(b) : d < c
  PROVE  /\ Append(q, c) \in Seq(Commands)
         /\ Append(q, c) # <<>>
         /\ Ordered(b, Append(q, c))
         /\ ToSet(Append(q, c)) = ToSet(q) \cup {c}
<1> DEFINE a == Append(q, c)
<1>1. /\ Len(q) \in Nat /\ DOMAIN q = 1..Len(q)
      /\ a \in Seq(Commands) /\ a # <<>> /\ DOMAIN a = 1..(Len(q) + 1)
      /\ \A i \in 1..Len(q) : a[i] = q[i]
      /\ a[Len(q) + 1] = c
  BY LenProperties, AppendProperties
<1> HIDE DEF a
<1>2. \A i \in DOMAIN a : i \in DOMAIN q \/ i = Len(q) + 1
  BY <1>1
<1>3. DOMAIN q \subseteq DOMAIN a /\ Len(q) + 1 \in DOMAIN a
  BY <1>1
<1>4. Increasing(a)
  <2> SUFFICES ASSUME NEW i \in DOMAIN a, NEW j \in DOMAIN a, i < j
               PROVE  a[i] < a[j]
    BY DEF Increasing
  <2>1. i \in DOMAIN q
    BY <1>1
  <2>2. CASE j \in DOMAIN q
    BY <1>1, <2>1, <2>2 DEF Ordered, Increasing
  <2>3. CASE j = Len(q) + 1
    <3>1. q[i] < c
      BY <2>1 DEF ToSet
    <3> QED  BY <1>1, <2>1, <2>3, <3>1
  <2> QED  BY <1>2, <2>2, <2>3
<1>5. \A i \in DOMAIN b, j \in DOMAIN a : b[i] < a[j]
  <2> SUFFICES ASSUME NEW i \in DOMAIN b, NEW j \in DOMAIN a PROVE b[i] < a[j]
    OBVIOUS
  <2>1. CASE j \in DOMAIN q
    BY <1>1, <2>1 DEF Ordered
  <2>2. CASE j = Len(q) + 1
    BY <1>1, <2>2 DEF ToSet
  <2> QED  BY <1>2, <2>1, <2>2
<1>6. ToSet(a) = ToSet(q) \cup {c}
  BY <1>1, <1>2, <1>3 DEF ToSet
<1> QED  BY <1>1, <1>4, <1>5, <1>6 DEF Ordered, a

(* runNext takes at least one command, and all after the first join it.     *)
LEMMA BatchLengthJoins ==
  ASSUME NEW q \in Seq(Commands), q # <<>>, NEW cs
  PROVE  /\ BatchLength(q, cs) \in 1..Len(q)
         /\ \A i \in 2..BatchLength(q, cs) : JoinsBatch(q, cs, i)
<1> DEFINE J(i) == JoinsBatch(q, cs, i)
           S == {n \in DOMAIN q : \A i \in 2..n : J(i)}
           n == Cardinality(S)
<1>1. Len(q) \in Nat \ {0} /\ DOMAIN q = 1..Len(q)
  BY EmptySeq, LenProperties
<1>2. n = BatchLength(q, cs)
  BY DEF BatchLength
<1> HIDE DEF J
<1>3. 1 \in S
  BY <1>1
<1>4. IsFiniteSet(S) /\ n \in Nat /\ n <= Len(q)
  <2>1. IsFiniteSet(1..Len(q)) /\ Cardinality(1..Len(q)) = Len(q)
    BY <1>1, FS_Interval
  <2>2. S \in SUBSET (1..Len(q))
    BY <1>1
  <2> QED  BY <2>1, <2>2, FS_Subset, FS_CardinalityType
<1>5. n # 0
  BY <1>3, <1>4, FS_EmptySet
<1>6. \A m : m \in S <=> m \in 1..Len(q) /\ \A i \in 2..m : J(i)
  BY <1>1
<1> HIDE DEF S
<1>7. IsFiniteSet(S) /\ n = Cardinality(S)
  BY <1>4
<1> HIDE DEF n
<1>8. n \in S
  <2> SUFFICES ASSUME n \notin S PROVE FALSE
    OBVIOUS
  <2>1. n \in 1..Len(q)
    BY <1>1, <1>4, <1>5
  <2>2. PICK i \in 2..n : ~ J(i)
    BY <1>6, <2>1
  <2>3. ASSUME NEW m \in S PROVE m \in 1..(n - 1)
    <3>1. m \in 1..Len(q) /\ i \notin 2..m
      BY <1>6, <2>2
    <3>2. i \in 2..n /\ n \in Nat /\ m \in Nat
      BY <1>1, <1>4, <2>2, <3>1
    <3>3. \A k, l, o \in Nat : k \notin 2..l /\ k \in 2..o => l < k
      OBVIOUS
    <3>4. m < i /\ i <= n /\ i \in Nat
      BY <3>1, <3>2, <3>3
    <3> QED  BY <3>1, <3>2, <3>4
  <2>4. n - 1 \in Nat /\ IsFiniteSet(1..(n - 1)) /\ Cardinality(1..(n - 1)) = n - 1
    <3>1. n - 1 \in Nat
      BY <1>4, <1>5
    <3> QED  BY <3>1, FS_Interval
  <2>5. n <= n - 1
    <3>1. S \in SUBSET (1..(n - 1))
      BY <2>3
    <3>2. Cardinality(S) <= Cardinality(1..(n - 1))
      BY <2>4, <3>1, FS_Subset
    <3> QED  BY <1>7, <2>4, <3>2
  <2> QED  BY <1>4, <2>5
<1>9. \A i \in 2..n : JoinsBatch(q, cs, i)
  BY <1>6, <1>8 DEF J
<1> QED  BY <1>1, <1>2, <1>4, <1>5, <1>9

(* The entry to supersede is one of the queue, or none.                     *)
LEMMA SupersededIndex ==
  ASSUME NEW policy, NEW key, entries \in Seq(Commands)
  PROVE  Superseded(policy, key) \in 0..Len(entries)
<1> DEFINE I == {i \in 1..Len(entries) :
                   cmd[entries[i]].key = key /\ cmd[entries[i]].policy = policy}
<1>1. Len(entries) \in Nat
  BY LenProperties
<1>2. ASSUME I # {} PROVE \E m \in I : \A k \in I : m <= k
  <2>1. I \subseteq Nat
    BY <1>1
  <2> HIDE DEF I
  <2>2. PICK m \in I : \A k \in I : ~ (<<k, m>> \in OpToRel(<, Nat))
    BY <1>2, <2>1, NatLessThanWellFounded, WFMin
  <2>3. \A k \in I : ~ (k < m)
    BY <2>1, <2>2 DEF OpToRel
  <2> QED  BY <2>1, <2>3
<1>3. I # {} => Min(I) \in I
  BY <1>2 DEF Min
<1>4. Superseded(policy, key) = 0 \/ (I # {} /\ Superseded(policy, key) = Min(I))
  BY DEF Superseded, SelectInSeq
<1> HIDE DEF I
<1>5. \A i \in I : i \in 0..Len(entries)
  BY <1>1 DEF I
<1> QED  BY <1>1, <1>3, <1>4, <1>5

(* In an empty queue there is none.                                         *)
LEMMA SupersededOfNone ==
  ASSUME NEW policy, NEW key, entries = <<>>
  PROVE  Superseded(policy, key) = 0
<1>1. entries \in Seq(Commands) /\ Len(entries) = 0
  BY EmptySeq
<1> QED  BY <1>1, SupersededIndex

-----------------------------------------------------------------------------
(* The bytes of a sequence of commands.                                     *)

(* g has the sums of the sizes of the first commands of q.                  *)
Sums(q, cs, g) ==
  /\ g \in [0..Len(q) -> Nat]
  /\ g[0] = 0 /\ g[Len(q)] = BytesOf(q, cs)
  /\ \A k \in 1..Len(q) : g[k] = g[k - 1] + cs[q[k]].bytes

LEMMA BytesSteps ==
  ASSUME NEW cs \in [Commands -> Entry], NEW q \in Seq(Commands)
  PROVE  \E g : Sums(q, cs, g)
<1> DEFINE n == Len(q)
           w(k) == cs[q[k]].bytes
           step == [p \in Nat \X (1..n) |-> p[1] + w(p[2])]
           Iter(f) == [s \in SUBSET (DOMAIN q) |->
                        IF s = {} THEN 0 ELSE f[s \ {Max(s)}] + w(Max(s))]
           iter == CHOOSE f : f = Iter(f)
<1>1. BytesOf(q, cs) = iter[DOMAIN q]
  BY DEF BytesOf, FoldLeft, MapThenFoldSet
<1>2. n \in Nat /\ DOMAIN q = 1..n
  BY LenProperties
<1>3. \A k \in 1..n : w(k) \in Nat
  <2>1. \A k \in 1..n : q[k] \in Commands
    BY <1>2, ElementOfSeq
  <2>2. \A c \in Commands : cs[c].bytes \in Nat
    BY SizesAssumption DEF Entry
  <2> QED  BY <2>1, <2>2
<1> HIDE DEF n, w
<1>4. step \in [Nat \X (1..n) -> Nat]
  BY <1>3
<1>5. PICK f : IsFold(Nat, 0, n, step, f)
  <2> HIDE DEF step
  <2> QED  BY <1>2, <1>4, FoldExists
<1>6. ASSUME NEW s \in SUBSET (1..n), s # {}
      PROVE  f[s] = f[s \ {Max(s)}] + w(Max(s))
  <2>1. Max(s) \in s
    BY <1>2, <1>6, MaxOfNumbers
  <2>2. <<f[s \ {Max(s)}], Max(s)>> \in Nat \X (1..n)
    BY <1>5, <2>1 DEF IsFold
  <2> QED  BY <1>5, <1>6, <2>2 DEF IsFold
<1>7. f = Iter(f)
  BY <1>2, <1>5, <1>6 DEF IsFold
<1>8. iter = Iter(iter)
  <2> HIDE DEF Iter
  <2> QED  BY <1>7
<1> HIDE DEF iter
<1>9. iter[{}] = 0 /\ \A s \in SUBSET (1..n) :
        s # {} => iter[s] = iter[s \ {Max(s)}] + w(Max(s))
  <2>1. \A s \in SUBSET (1..n) : iter[s] = IF s = {} THEN 0 ELSE iter[s \ {Max(s)}] + w(Max(s))
    BY <1>2, <1>8
  <2> QED  BY <2>1
<1> HIDE DEF Iter
<1>10. ASSUME NEW s \in SUBSET (1..n), s # {}, iter[s \ {Max(s)}] \in Nat
       PROVE  iter[s] = step[<<iter[s \ {Max(s)}], Max(s)>>]
  <2>1. Max(s) \in s
    BY <1>2, <1>10, MaxOfNumbers
  <2>2. <<iter[s \ {Max(s)}], Max(s)>> \in Nat \X (1..n)
    BY <1>10, <2>1
  <2> QED  BY <1>9, <1>10, <2>2
<1>11. PICK g : IsChain(Nat, 0, n, step, iter, g)
  <2> HIDE DEF step
  <2>1. StepsDown(Nat, 0, n, step, iter)
    BY <1>9, <1>10 DEF StepsDown
  <2> QED  BY <1>2, <1>4, <2>1, FoldChain
<1>12. /\ g \in [0..n -> Nat] /\ g[0] = 0 /\ g[n] = BytesOf(q, cs)
       /\ \A k \in 1..n : g[k] = step[<<g[k - 1], k>>]
  BY <1>1, <1>2, <1>11 DEF IsChain
<1>13. ASSUME NEW k \in 1..n PROVE g[k] = g[k - 1] + w(k)
  <2>1. <<g[k - 1], k>> \in Nat \X (1..n)
    <3>1. k - 1 \in 0..n
      BY <1>2
    <3> QED  BY <1>12, <3>1
  <2> QED  BY <1>12, <2>1
<1> QED  BY <1>12, <1>13 DEF Sums, n, w

LEMMA SizeType ==
  ASSUME NEW cs \in [Commands -> Entry], NEW c \in Commands
  PROVE  cs[c].bytes \in Nat /\ cs[c].bytes \in Int
<1>1. cs[c] \in Entry
  OBVIOUS
<1>2. cs[c].bytes \in Sizes
  BY <1>1 DEF Entry
<1>3. \A x \in Sizes : x \in Nat
  BY SizesAssumption
<1>4. \A x \in Nat : x \in Int
  OBVIOUS
<1> QED  BY <1>2, <1>3, <1>4, Zenon

LEMMA BytesType ==
  ASSUME NEW cs \in [Commands -> Entry], NEW q \in Seq(Commands)
  PROVE  BytesOf(q, cs) \in Nat
<1>1. PICK g : Sums(q, cs, g)
  BY BytesSteps
<1>2. Len(q) \in 0..Len(q)
  BY LenProperties
<1> QED  BY <1>1, <1>2 DEF Sums

LEMMA BytesOfEmpty ==
  ASSUME NEW cs \in [Commands -> Entry]
  PROVE  BytesOf(<<>>, cs) = 0
<1>1. <<>> \in Seq(Commands) /\ Len(<<>>) = 0
  BY EmptySeq
<1>2. PICK g : Sums(<<>>, cs, g)
  BY <1>1, BytesSteps
<1> QED  BY <1>1, <1>2 DEF Sums

(* Only the sizes count.                                                    *)
LEMMA BytesOfSame ==
  ASSUME NEW cs \in [Commands -> Entry], NEW ds \in [Commands -> Entry],
         NEW q \in Seq(Commands),
         \A i \in 1..Len(q) : cs[q[i]].bytes = ds[q[i]].bytes
  PROVE  BytesOf(q, cs) = BytesOf(q, ds)
<1>1. PICK g : Sums(q, cs, g)
  BY BytesSteps
<1>2. PICK h : Sums(q, ds, h)
  BY BytesSteps
<1>3. Len(q) \in Nat
  BY LenProperties
<1>4. g[0] = h[0] /\ \A k \in 1..Len(q) : g[k - 1] = h[k - 1] => g[k] = h[k]
  BY <1>1, <1>2 DEF Sums
<1>5. g[Len(q)] = h[Len(q)]
  BY <1>3, <1>4, SameSteps
<1> QED  BY <1>1, <1>2, <1>5 DEF Sums

LEMMA BytesOfAppend ==
  ASSUME NEW cs \in [Commands -> Entry], NEW q \in Seq(Commands), NEW c \in Commands
  PROVE  BytesOf(Append(q, c), cs) = BytesOf(q, cs) + cs[c].bytes
<1> DEFINE a == Append(q, c)
           l == Len(q)
<1>1. /\ a \in Seq(Commands) /\ Len(a) = l + 1 /\ l \in Nat
      /\ \A i \in 1..l : a[i] = q[i]
      /\ a[l + 1] = c
  BY AppendProperties, LenProperties
<1>2. PICK f : Sums(a, cs, f)
  BY <1>1, BytesSteps
<1>3. PICK g : Sums(q, cs, g)
  BY BytesSteps
<1> HIDE DEF a
<1>4. /\ f[0] = 0 /\ f[l + 1] = BytesOf(a, cs)
      /\ \A k \in 1..(l + 1) : f[k] = f[k - 1] + cs[a[k]].bytes
  BY <1>1, <1>2 DEF Sums
<1>5. /\ g[0] = 0 /\ g[l] = BytesOf(q, cs)
      /\ \A k \in 1..l : g[k] = g[k - 1] + cs[q[k]].bytes
  BY <1>3 DEF Sums
<1> HIDE DEF l
<1>6. ASSUME NEW k \in 1..l, f[k - 1] = g[k - 1] PROVE f[k] = g[k]
  <2>1. k \in 1..(l + 1) /\ a[k] = q[k]
    BY <1>1
  <2> QED  BY <1>4, <1>5, <1>6, <2>1
<1>7. f[l] = g[l]
  <2>1. f[0] = g[0]
    BY <1>4, <1>5
  <2> QED  BY <1>1, <1>6, <2>1, SameSteps
<1>8. l + 1 \in 1..(l + 1) /\ l + 1 - 1 = l
  BY <1>1
<1>9. f[l + 1] = f[l] + cs[c].bytes
  BY <1>1, <1>4, <1>8
<1> QED  BY <1>4, <1>5, <1>7, <1>9 DEF a

LEMMA BytesOfConcat ==
  ASSUME NEW cs \in [Commands -> Entry],
         NEW p \in Seq(Commands), NEW q \in Seq(Commands)
  PROVE  BytesOf(p \o q, cs) = BytesOf(p, cs) + BytesOf(q, cs)
<1> DEFINE P == {r \in Seq(Commands) :
                   BytesOf(p \o r, cs) = BytesOf(p, cs) + BytesOf(r, cs)}
<1>1. <<>> \in P
  <2>1. p \o <<>> = p /\ <<>> \in Seq(Commands)
    BY ConcatEmptySeq, EmptySeq
  <2>2. BytesOf(p, cs) \in Nat
    BY BytesType
  <2> QED  BY <2>1, <2>2, BytesOfEmpty
<1>2. ASSUME NEW r \in Seq(Commands), NEW c \in Commands, r \in P
      PROVE  Append(r, c) \in P
  <2>1. /\ Append(r, c) \in Seq(Commands) /\ <<c>> \in Seq(Commands)
        /\ p \o r \in Seq(Commands)
    BY AppendProperties, ConcatProperties
  <2>2. p \o Append(r, c) = Append(p \o r, c)
    <3>1. Append(r, c) = r \o <<c>> /\ Append(p \o r, c) = (p \o r) \o <<c>>
      BY <2>1, AppendIsConcat
    <3> QED  BY <2>1, <3>1, ConcatAssociative
  <2>3. BytesOf(Append(p \o r, c), cs) = BytesOf(p \o r, cs) + cs[c].bytes
    BY <2>1, BytesOfAppend
  <2>4. BytesOf(Append(r, c), cs) = BytesOf(r, cs) + cs[c].bytes
    BY BytesOfAppend
  <2>5. BytesOf(p, cs) \in Nat /\ BytesOf(r, cs) \in Nat /\ cs[c].bytes \in Nat
    BY BytesType, SizeType
  <2>6. BytesOf(p \o r, cs) = BytesOf(p, cs) + BytesOf(r, cs)
    BY <1>2
  <2>7. BytesOf(p \o Append(r, c), cs) = BytesOf(p, cs) + BytesOf(Append(r, c), cs)
    <3>1. \A x, y, z \in Nat : (x + y) + z = x + (y + z)
      OBVIOUS
    <3>2. BytesOf(p \o Append(r, c), cs) = (BytesOf(p, cs) + BytesOf(r, cs)) + cs[c].bytes
      BY <2>2, <2>3, <2>6
    <3> QED  BY <2>4, <2>5, <3>1, <3>2
  <2> QED  BY <2>1, <2>7
<1>3. Seq(Commands) \subseteq P
  <2> HIDE DEF P
  <2> QED  BY <1>1, <1>2, SeqInduction
<1> QED  BY <1>3

LEMMA BytesOfOne ==
  ASSUME NEW cs \in [Commands -> Entry], NEW c \in Commands
  PROVE  BytesOf(<<c>>, cs) = cs[c].bytes
<1> DEFINE e == <<>>
<1>1. e \in Seq(Commands) /\ BytesOf(e, cs) = 0
  BY EmptySeq, BytesOfEmpty
<1>2. Append(e, c) = <<c>>
  OBVIOUS
<1>3. cs[c].bytes \in Nat
  BY SizeType
<1> HIDE DEF e
<1>4. BytesOf(Append(e, c), cs) = BytesOf(e, cs) + cs[c].bytes
  BY <1>1, BytesOfAppend
<1> QED  BY <1>1, <1>2, <1>3, <1>4

(* A sequence of commands cut in two after its first n.                     *)
LEMMA BytesOfParts ==
  ASSUME NEW cs \in [Commands -> Entry], NEW q \in Seq(Commands), NEW n \in 0..Len(q)
  PROVE  BytesOf(q, cs) = BytesOf(SubSeq(q, 1, n), cs)
                          + BytesOf(SubSeq(q, n + 1, Len(q)), cs)
<1> DEFINE head == SubSeq(q, 1, n)
           tail == SubSeq(q, n + 1, Len(q))
<1>1. Len(q) \in Nat
  BY LenProperties
<1>2. 1 \in 1..(Len(q) + 1) /\ n \in (1 - 1)..Len(q) /\ Len(q) \in n..Len(q)
  BY <1>1
<1>3. head \o tail = SubSeq(q, 1, Len(q))
  BY <1>2, ConcatAdjacentSubSeq
<1>4. SubSeq(q, 1, Len(q)) = q
  BY SubSeqFull
<1>5. head \in Seq(Commands) /\ tail \in Seq(Commands)
  BY FirstPart, LastPart
<1> HIDE DEF head, tail
<1>6. BytesOf(head \o tail, cs) = BytesOf(head, cs) + BytesOf(tail, cs)
  BY <1>5, BytesOfConcat
<1> QED  BY <1>3, <1>4, <1>6 DEF head, tail

LEMMA BytesOfRemoveAt ==
  ASSUME NEW cs \in [Commands -> Entry], NEW q \in Seq(Commands), NEW i \in 1..Len(q)
  PROVE  BytesOf(RemoveAt(q, i), cs) = BytesOf(q, cs) - cs[q[i]].bytes
<1> DEFINE head == SubSeq(q, 1, i - 1)
           tail == SubSeq(q, i + 1, Len(q))
           c == q[i]
<1>1. Len(q) \in Nat /\ c \in Commands
  BY LenProperties, ElementOfSeq
<1>2. i - 1 \in 0..Len(q) /\ i \in 0..Len(q) /\ i - 1 + 1 = i /\ Len(q) \in i..Len(q)
  BY <1>1
<1>3. head \in Seq(Commands) /\ tail \in Seq(Commands) /\ <<c>> \in Seq(Commands)
  BY <1>1, <1>2, FirstPart, LastPart
<1>4. BytesOf(q, cs) = BytesOf(head, cs) + BytesOf(SubSeq(q, i, Len(q)), cs)
  BY <1>2, BytesOfParts
<1>5. SubSeq(q, i, Len(q)) = <<c>> \o tail
  BY <1>2, SubSeqRecursiveFirst
<1>6. BytesOf(SubSeq(q, i, Len(q)), cs) = cs[c].bytes + BytesOf(tail, cs)
  BY <1>1, <1>3, <1>5, BytesOfConcat, BytesOfOne
<1>7. BytesOf(RemoveAt(q, i), cs) = BytesOf(head, cs) + BytesOf(tail, cs)
  BY <1>3, BytesOfConcat DEF RemoveAt
<1>8. BytesOf(head, cs) \in Nat /\ BytesOf(tail, cs) \in Nat /\ cs[c].bytes \in Int
  BY <1>1, <1>3, BytesType, SizeType
<1> QED  BY <1>4, <1>6, <1>7, <1>8

-----------------------------------------------------------------------------
(* The inductive invariant.  Good says of n issued commands cs, those that  *)
(* wait e, the batch b and the position p in it: nothing is lost or decided *)
(* twice, all is in order, and what may commit again is an append batch.    *)

Repeats(cs, n) ==
  \A c \in 1..n :
    \/ cs[c].commits > 1
    \/ cs[c].commits = 1 /\ cs[c].outcome \notin {"pending", "resolved"}
    => cs[c].policy = "append_batch" /\ cs[c].key # NoKey

PendingOf(cs, n) == {c \in 1..n : cs[c].outcome = "pending"}

InBatches(cs, b) ==
  \A i \in DOMAIN b : cs[b[i]].policy = "append_batch" /\ cs[b[i]].key # NoKey

Good(n, cs, e, b, p) ==
  /\ n \in 0..MaxCommands
  /\ cs \in [Commands -> Entry]
  /\ e \in Seq(Commands) /\ b \in Seq(Commands)
  /\ Ordered(b, e)
  /\ ToSet(e) \cup ToSet(b) = PendingOf(cs, n)
  /\ b # <<>> => p \in 1..Len(b)
  /\ Len(b) # 1 => InBatches(cs, b)
  /\ Len(b) = 1 => cs[b[1]].commits = 0
  /\ \A i \in DOMAIN e : cs[e[i]].commits = 0
  /\ Repeats(cs, n)

Control ==
  /\ retries \in 0..MaxRetries
  /\ runner \in Runners
  /\ closed \in BOOLEAN
  /\ drain \in {"none", "waiting", "returned"}
  /\ batch = <<>> <=> runner \in {"idle", "returned"}
  /\ NoLostWakeup

QueueInv == Good(nextCommand, cmd, entries, batch, position) /\ Control

(* The invariant says what the properties ask for.                          *)
LEMMA GoodHolds ==
  ASSUME QueueInv
  PROVE  PendingIsHeld /\ CallOrder /\ OnlyBatchesRepeat
<1>1. Increasing(batch \o entries) /\ IsInjective(entries \o batch)
  BY OrderedConcat DEF QueueInv, Good
<1>2. PendingIsHeld
  BY <1>1 DEF PendingIsHeld, QueueInv, Good, PendingOf, Pending, Issued
<1>3. CallOrder
  BY <1>1 DEF CallOrder, Increasing
<1>4. OnlyBatchesRepeat
  BY DEF QueueInv, Good, Repeats, OnlyBatchesRepeat, Issued
<1> QED  BY <1>2, <1>3, <1>4

LEMMA DecideProperties ==
  ASSUME NEW cs \in [Commands -> Entry], NEW T, NEW o \in Outcomes
  PROVE  /\ Decide(cs, T, o) \in [Commands -> Entry]
         /\ \A c \in Commands :
              /\ c \in T => Decide(cs, T, o)[c].outcome = o
              /\ c \notin T => Decide(cs, T, o)[c].outcome = cs[c].outcome
              /\ Decide(cs, T, o)[c].commits = cs[c].commits
              /\ Decide(cs, T, o)[c].policy = cs[c].policy
              /\ Decide(cs, T, o)[c].key = cs[c].key
<1>1. ASSUME NEW c \in Commands
      PROVE  /\ [cs[c] EXCEPT !.outcome = o] \in Entry
             /\ [cs[c] EXCEPT !.outcome = o].outcome = o
             /\ [cs[c] EXCEPT !.outcome = o].commits = cs[c].commits
             /\ [cs[c] EXCEPT !.outcome = o].policy = cs[c].policy
             /\ [cs[c] EXCEPT !.outcome = o].key = cs[c].key
  BY DEF Entry
<1> QED  BY <1>1 DEF Decide

(* Deciding waiting commands that are taken out of the queue.               *)
LEMMA DropGood ==
  ASSUME NEW n, NEW cs, NEW e, NEW b, NEW p, NEW e2, NEW T,
         NEW o \in Outcomes \ {"pending"},
         Good(n, cs, e, b, p),
         e2 \in Seq(Commands), Ordered(b, e2),
         ToSet(e2) = ToSet(e) \ T, T \subseteq ToSet(e), T \cap ToSet(b) = {}
  PROVE  Good(n, Decide(cs, T, o), e2, b, p)
<1> DEFINE ds == Decide(cs, T, o)
<1>1. /\ n \in 0..MaxCommands /\ MaxCommands \in Nat
      /\ cs \in [Commands -> Entry] /\ e \in Seq(Commands) /\ b \in Seq(Commands)
  BY LimitTypes DEF Good
<1>2. /\ ds \in [Commands -> Entry]
      /\ \A c \in Commands :
           /\ c \in T => ds[c].outcome = o
           /\ c \notin T => ds[c].outcome = cs[c].outcome
           /\ ds[c].commits = cs[c].commits
           /\ ds[c].policy = cs[c].policy
           /\ ds[c].key = cs[c].key
  BY <1>1, DecideProperties
<1> HIDE DEF ds
<1>3. 1..n \subseteq Commands
  BY <1>1 DEF Commands
<1>4. /\ \A i \in DOMAIN b : b[i] \in Commands
      /\ \A i \in DOMAIN e : e[i] \in Commands
      /\ \A i \in DOMAIN e2 : e2[i] \in Commands
      /\ Len(b) = 1 => 1 \in DOMAIN b
  BY <1>1, ElementOfSeq, LenProperties
<1>5. ToSet(e2) \cup ToSet(b) = PendingOf(ds, n)
  BY <1>2, <1>3 DEF Good, PendingOf
<1>6. \A i \in DOMAIN e2 : ds[e2[i]].commits = 0
  <2> SUFFICES ASSUME NEW i \in DOMAIN e2 PROVE cs[e2[i]].commits = 0
    BY <1>2, <1>4
  <2>1. e2[i] \in ToSet(e)
    BY DEF ToSet
  <2> QED  BY <2>1 DEF Good, ToSet
<1>7. Repeats(ds, n)
  <2> SUFFICES ASSUME NEW c \in 1..n,
                      \/ ds[c].commits > 1
                      \/ ds[c].commits = 1 /\ ds[c].outcome \notin {"pending", "resolved"}
               PROVE  ds[c].policy = "append_batch" /\ ds[c].key # NoKey
    BY DEF Repeats
  <2>1. CASE c \in T
    <3>1. cs[c].commits = 0
      BY <2>1 DEF Good, ToSet
    <3> QED  BY <1>2, <1>3, <3>1
  <2>2. CASE c \notin T
    BY <1>2, <1>3, <2>2 DEF Good, Repeats
  <2> QED  BY <2>1, <2>2
<1>8. /\ Len(b) # 1 => InBatches(ds, b)
      /\ Len(b) = 1 => ds[b[1]].commits = 0
  BY <1>2, <1>4 DEF Good, InBatches
<1> QED  BY <1>1, <1>2, <1>5, <1>6, <1>7, <1>8 DEF Good, ds

(* A new command that is refused.                                           *)
LEMMA IssueRefused ==
  ASSUME NEW n, NEW cs, NEW e, NEW b, NEW p, NEW new \in Entry,
         Good(n, cs, e, b, p), n < MaxCommands,
         new.outcome # "pending", new.commits = 0
  PROVE  Good(n + 1, [cs EXCEPT ![n + 1] = new], e, b, p)
<1> DEFINE ds == [cs EXCEPT ![n + 1] = new]
<1>1. /\ n \in 0..MaxCommands /\ MaxCommands \in Nat
      /\ cs \in [Commands -> Entry] /\ e \in Seq(Commands) /\ b \in Seq(Commands)
  BY LimitTypes DEF Good
<1>2. n + 1 \in Commands /\ 1..(n + 1) = (1..n) \cup {n + 1} /\ n + 1 \notin 1..n
      /\ n + 1 \in 0..MaxCommands
  BY <1>1 DEF Commands
<1>3. /\ ds \in [Commands -> Entry] /\ ds[n + 1] = new
      /\ \A c \in 1..n : ds[c] = cs[c]
  BY <1>1, <1>2 DEF Commands
<1> HIDE DEF ds
<1>4. PendingOf(ds, n + 1) = PendingOf(cs, n)
  BY <1>2, <1>3 DEF PendingOf
<1>5. /\ \A i \in DOMAIN b : b[i] \in 1..n
      /\ \A i \in DOMAIN e : e[i] \in 1..n
      /\ Len(b) = 1 => 1 \in DOMAIN b
  <2>1. \A c \in ToSet(e) \cup ToSet(b) : c \in 1..n
    BY DEF Good, PendingOf
  <2> QED  BY <1>1, <2>1, LenProperties DEF ToSet
<1>6. Repeats(ds, n + 1)
  BY <1>2, <1>3 DEF Good, Repeats
<1> QED  BY <1>1, <1>2, <1>3, <1>4, <1>5, <1>6 DEF Good, InBatches, ds

(* A new command that is pushed.                                            *)
LEMMA IssuePushed ==
  ASSUME NEW n, NEW cs, NEW e, NEW b, NEW p, NEW new \in Entry,
         Good(n, cs, e, b, p), n < MaxCommands,
         new.outcome = "pending", new.commits = 0
  PROVE  /\ Good(n + 1, [cs EXCEPT ![n + 1] = new], Append(e, n + 1), b, p)
         /\ Append(e, n + 1) # <<>>
<1> DEFINE ds == [cs EXCEPT ![n + 1] = new]
           a == Append(e, n + 1)
<1>1. /\ n \in 0..MaxCommands /\ MaxCommands \in Nat
      /\ cs \in [Commands -> Entry] /\ e \in Seq(Commands) /\ b \in Seq(Commands)
  BY LimitTypes DEF Good
<1>2. n + 1 \in Commands /\ 1..(n + 1) = (1..n) \cup {n + 1} /\ n + 1 \notin 1..n
      /\ n + 1 \in 0..MaxCommands
  BY <1>1 DEF Commands
<1>3. /\ ds \in [Commands -> Entry] /\ ds[n + 1] = new
      /\ \A c \in 1..n : ds[c] = cs[c]
  BY <1>1, <1>2 DEF Commands
<1>4. \A c \in ToSet(e) \cup ToSet(b) : c \in 1..n /\ c < n + 1
  <2>1. ToSet(e) \cup ToSet(b) \subseteq 1..n
    BY DEF Good, PendingOf
  <2> QED  BY <1>1, <2>1
<1>5. /\ a \in Seq(Commands) /\ a # <<>> /\ Ordered(b, a)
      /\ ToSet(a) = ToSet(e) \cup {n + 1}
  BY <1>1, <1>2, <1>4, AppendOrdered DEF Good
<1> HIDE DEF ds, a
<1>6. ToSet(a) \cup ToSet(b) = PendingOf(ds, n + 1)
  BY <1>2, <1>3, <1>5 DEF Good, PendingOf
<1>7. /\ \A i \in DOMAIN b : b[i] \in 1..n
      /\ Len(b) = 1 => 1 \in DOMAIN b
  BY <1>1, <1>4, LenProperties DEF ToSet
<1>8. \A i \in DOMAIN a : ds[a[i]].commits = 0
  <2> SUFFICES ASSUME NEW i \in DOMAIN a PROVE ds[a[i]].commits = 0
    OBVIOUS
  <2>1. a[i] = n + 1 \/ a[i] \in ToSet(e)
    <3>1. a[i] \in ToSet(a)
      BY DEF ToSet
    <3> QED  BY <1>5, <3>1
  <2>2. ASSUME NEW c \in ToSet(e) PROVE ds[c].commits = 0
    <3>1. cs[c].commits = 0
      BY DEF Good, ToSet
    <3>2. c \in 1..n
      BY <1>4
    <3> QED  BY <1>3, <3>1, <3>2
  <2> QED  BY <1>3, <2>1, <2>2
<1>9. Repeats(ds, n + 1)
  BY <1>2, <1>3 DEF Good, Repeats
<1>10. /\ Len(b) # 1 => InBatches(ds, b)
       /\ Len(b) = 1 => ds[b[1]].commits = 0
  BY <1>3, <1>7 DEF Good, InBatches
<1> QED  BY <1>1, <1>2, <1>3, <1>5, <1>6, <1>8, <1>9, <1>10 DEF Good, ds, a

-----------------------------------------------------------------------------
(* The pieces of the actions.                                               *)

(* runNext, when no batch is running.                                       *)
LEMMA RunNextGood ==
  ASSUME NEW n, NEW cs, NEW q, NEW p, NEW bytes, NEW late \in BOOLEAN,
         Good(n, cs, q, <<>>, p), q # <<>>, RunNext(q, cs, bytes, late)
  PROVE  /\ Good(n, cmd', entries', batch', position')
         /\ retries' = 0
         /\ runner' \in {"returned", "executing"}
         /\ batch' = <<>> <=> runner' = "returned"
<1> DEFINE m == BatchLength(q, cs)
           taken == SubSeq(q, 1, m)
           left == SubSeq(q, m + 1, Len(q))
<1>1. /\ q \in Seq(Commands) /\ Increasing(q)
      /\ ToSet(q) = PendingOf(cs, n)
      /\ cs \in [Commands -> Entry] /\ n \in 0..MaxCommands
  <2>1. ToSet(<<>>) = {}
    BY DEF ToSet
  <2> QED  BY <2>1 DEF Good, Ordered
<1>2. m \in 1..Len(q) /\ \A i \in 2..m : JoinsBatch(q, cs, i)
  BY <1>1, BatchLengthJoins
<1> HIDE DEF m
<1>3. /\ taken \in Seq(Commands) /\ left \in Seq(Commands)
      /\ Len(taken) = m
      /\ \A i \in 1..m : taken[i] = q[i]
      /\ \A i \in DOMAIN left : \E j \in DOMAIN q : left[i] = q[j]
      /\ Ordered(taken, left) /\ Ordered(<<>>, left)
      /\ ToSet(left) \cup ToSet(taken) = ToSet(q)
      /\ ToSet(left) \cap ToSet(taken) = {}
  BY <1>1, <1>2, SplitOrdered
<1>4. /\ entries' = left
      /\ batch' = IF late THEN <<>> ELSE taken
      /\ cmd' = IF late THEN Decide(cs, ToSet(taken), "backpressure") ELSE cs
      /\ runner' = IF late THEN "returned" ELSE "executing"
      /\ position' = 1 /\ retries' = 0
  BY DEF RunNext, m
<1> HIDE DEF taken, left
<1>5. Len(q) \in Nat /\ DOMAIN q = 1..Len(q) /\ DOMAIN taken = 1..m /\ taken # <<>>
  <2>1. Len(q) \in Nat /\ DOMAIN q = 1..Len(q) /\ DOMAIN taken = 1..m
    BY <1>1, <1>3, LenProperties
  <2>2. taken # <<>>
    BY <1>2, <1>3, <2>1, EmptySeq
  <2> QED  BY <2>1, <2>2
<1>6. CASE late
  <2>1. Good(n, Decide(cs, ToSet(taken), "backpressure"), left, <<>>, p)
    <3>1. "backpressure" \in Outcomes \ {"pending"}
      BY DEF Outcomes
    <3>2. /\ ToSet(left) = ToSet(q) \ ToSet(taken)
          /\ ToSet(taken) \subseteq ToSet(q) /\ ToSet(taken) \cap ToSet(<<>>) = {}
      <4>1. ToSet(<<>>) = {}
        BY DEF ToSet
      <4> QED  BY <1>3, <4>1
    <3> QED  BY <1>3, <3>1, <3>2, DropGood
  <2> QED  BY <1>4, <1>6, <2>1 DEF Good
<1>7. CASE ~ late
  <2>1. ToSet(left) \cup ToSet(taken) = PendingOf(cs, n)
    BY <1>1, <1>3
  <2>2. 1 \in 1..Len(taken)
    BY <1>2, <1>3, <1>5
  <2>3. Len(taken) # 1 => InBatches(cs, taken)
    <3> SUFFICES ASSUME m # 1, NEW i \in 1..m
                 PROVE  cs[q[i]].policy = "append_batch" /\ cs[q[i]].key # NoKey
      BY <1>3, <1>5 DEF InBatches
    <3>1. 2 \in 2..m /\ (i = 1 \/ i \in 2..m)
      BY <1>2, <1>5
    <3> QED  BY <1>2, <3>1 DEF JoinsBatch
  <2>4. Len(taken) = 1 => cs[taken[1]].commits = 0
    <3>1. 1 \in DOMAIN q
      BY <1>2, <1>5
    <3> QED  BY <1>2, <1>3, <1>5, <3>1 DEF Good
  <2>5. \A i \in DOMAIN left : cs[left[i]].commits = 0
    BY <1>3 DEF Good
  <2> QED  BY <1>1, <1>3, <1>4, <1>5, <1>7, <2>1, <2>2, <2>3, <2>4, <2>5 DEF Good
<1> QED  BY <1>4, <1>5, <1>6, <1>7

(* Promises of a batch that ends.                                           *)
LEMMA EndGood ==
  ASSUME NEW n, NEW cs, NEW ds, NEW e, NEW b, NEW p, NEW o \in {"resolved", "failed"},
         Good(n, cs, e, b, p),
         ds \in [Commands -> Entry],
         \A c \in Commands : c \notin ToSet(b) => ds[c] = cs[c],
         \A c \in Commands : /\ ds[c].policy = cs[c].policy /\ ds[c].key = cs[c].key
                             /\ ds[c].outcome = cs[c].outcome,
         Len(b) = 1 => ds[b[1]].commits \in (IF o = "failed" THEN {0} ELSE 0..1)
  PROVE  Good(n, Decide(ds, ToSet(b), o), e, <<>>, 1)
<1> DEFINE fs == Decide(ds, ToSet(b), o)
<1>1. /\ n \in 0..MaxCommands /\ MaxCommands \in Nat
      /\ e \in Seq(Commands) /\ b \in Seq(Commands)
      /\ o \in Outcomes /\ o # "pending"
  BY LimitTypes DEF Good, Outcomes
<1>2. /\ fs \in [Commands -> Entry]
      /\ \A c \in Commands :
           /\ c \in ToSet(b) => fs[c].outcome = o
           /\ c \notin ToSet(b) => fs[c].outcome = ds[c].outcome
           /\ fs[c].commits = ds[c].commits
           /\ fs[c].policy = ds[c].policy
           /\ fs[c].key = ds[c].key
  BY <1>1, DecideProperties
<1> HIDE DEF fs
<1>3. 1..n \subseteq Commands
  BY <1>1 DEF Commands
<1>4. /\ DOMAIN b = 1..Len(b) /\ Len(b) \in Nat
      /\ \A i \in DOMAIN b : b[i] \in Commands
      /\ \A i \in DOMAIN e : e[i] \in Commands
  BY <1>1, ElementOfSeq, LenProperties
<1>5. ToSet(e) \cap ToSet(b) = {}
  <2>1. \A i \in DOMAIN b : b[i] \in Nat
    BY <1>4, LimitTypes
  <2> QED  BY <2>1 DEF Good, Ordered, ToSet
<1>6. ToSet(e) \cup ToSet(<<>>) = PendingOf(fs, n)
  <2>1. ToSet(<<>>) = {}
    BY DEF ToSet
  <2>2. ToSet(e) \cup ToSet(b) = {c \in 1..n : cs[c].outcome = "pending"}
    BY DEF Good, PendingOf
  <2>3. ASSUME NEW c \in 1..n
        PROVE  c \in ToSet(e) <=> fs[c].outcome = "pending"
    <3>1. CASE c \in ToSet(b)
      BY <1>1, <1>2, <1>3, <1>5, <3>1
    <3>2. CASE c \notin ToSet(b)
      BY <1>2, <1>3, <2>2, <3>2
    <3> QED  BY <3>1, <3>2
  <2> QED  BY <2>1, <2>2, <2>3 DEF PendingOf
<1>7. \A i \in DOMAIN e : fs[e[i]].commits = 0
  <2> SUFFICES ASSUME NEW i \in DOMAIN e PROVE fs[e[i]].commits = 0
    OBVIOUS
  <2>1. e[i] \notin ToSet(b)
    BY <1>5 DEF ToSet
  <2> QED  BY <1>2, <1>4, <2>1 DEF Good
<1>8. Repeats(fs, n)
  <2> SUFFICES ASSUME NEW c \in 1..n,
                      \/ fs[c].commits > 1
                      \/ fs[c].commits = 1 /\ fs[c].outcome \notin {"pending", "resolved"}
               PROVE  cs[c].policy = "append_batch" /\ cs[c].key # NoKey
    BY <1>2, <1>3 DEF Repeats
  <2>1. CASE c \notin ToSet(b)
    BY <1>2, <1>3, <2>1 DEF Good, Repeats
  <2>2. CASE c \in ToSet(b) /\ Len(b) # 1
    BY <2>2 DEF Good, InBatches, ToSet
  <2>3. CASE c \in ToSet(b) /\ Len(b) = 1
    <3>1. c = b[1]
      BY <1>4, <2>3 DEF ToSet
    <3>2. fs[c].outcome = o /\ fs[c].commits \in (IF o = "failed" THEN {0} ELSE 0..1)
      BY <1>2, <1>3, <2>3, <3>1
    <3> QED  BY <3>2
  <2> QED  BY <2>1, <2>2, <2>3
<1>9. Ordered(<<>>, e)
  BY DEF Good, Ordered, Increasing
<1>10. <<>> \in Seq(Commands) /\ Len(<<>>) = 0 /\ InBatches(fs, <<>>)
  BY EmptySeq DEF InBatches
<1> QED  BY <1>1, <1>2, <1>6, <1>7, <1>8, <1>9, <1>10 DEF Good, fs

-----------------------------------------------------------------------------
(* The actions.                                                             *)

LEMMA InitInv ==
  ASSUME QueueInit
  PROVE  QueueInv
<1>1. Unissued \in Entry
  <2>1. (CHOOSE n \in Sizes : TRUE) \in Sizes
    BY SizesAssumption
  <2> QED  BY <2>1 DEF Unissued, Entry, Policies, Outcomes
<1>2. cmd \in [Commands -> Entry] /\ nextCommand \in 0..MaxCommands
  BY <1>1, LimitTypes DEF QueueInit
<1>3. /\ <<>> \in Seq(Commands) /\ Len(<<>>) = 0 /\ DOMAIN <<>> = {}
      /\ ToSet(<<>>) = {}
  BY EmptySeq DEF ToSet
<1>4. 1..nextCommand = {}
  BY DEF QueueInit
<1>5. Good(nextCommand, cmd, entries, batch, position)
  BY <1>2, <1>3, <1>4
     DEF QueueInit, Good, Ordered, Increasing, PendingOf, InBatches, Repeats
<1>6. Control
  <2>1. retries \in 0..MaxRetries
    BY LimitTypes DEF QueueInit
  <2> QED  BY <2>1 DEF QueueInit, Control, Runners, NoLostWakeup
<1> QED  BY <1>5, <1>6 DEF QueueInv

(* Superseding takes one entry out of the queue and decides its promise.    *)
LEMMA SupersedeGood ==
  ASSUME QueueInv, NEW policy, NEW key
  PROVE  LET i == Superseded(policy, key)
             kept == IF i = 0 THEN entries ELSE RemoveAt(entries, i)
             before == IF i = 0 THEN cmd ELSE Decide(cmd, {entries[i]}, "coalesced")
         IN  Good(nextCommand, before, kept, batch, position)
<1> DEFINE i == Superseded(policy, key)
<1>1. /\ entries \in Seq(Commands) /\ batch \in Seq(Commands)
      /\ Ordered(batch, entries)
      /\ Good(nextCommand, cmd, entries, batch, position)
  BY DEF QueueInv, Good
<1>2. i \in 0..Len(entries) /\ Len(entries) \in Nat /\ DOMAIN entries = 1..Len(entries)
  BY <1>1, SupersededIndex, LenProperties
<1> HIDE DEF i
<1>3. CASE i = 0
  BY <1>1, <1>3 DEF i
<1>4. CASE i # 0
  <2>1. i \in 1..Len(entries)
    BY <1>2, <1>4
  <2>2. /\ RemoveAt(entries, i) \in Seq(Commands)
        /\ Ordered(batch, RemoveAt(entries, i))
        /\ ToSet(RemoveAt(entries, i)) = ToSet(entries) \ {entries[i]}
    BY <1>1, <2>1, RemoveOrdered
  <2>3. {entries[i]} \subseteq ToSet(entries)
    BY <1>2, <2>1 DEF ToSet
  <2>4. {entries[i]} \cap ToSet(batch) = {}
    <3>1. \A k \in DOMAIN batch : batch[k] \in Nat /\ batch[k] < entries[i]
      <4>1. \A k \in DOMAIN batch : batch[k] \in Commands
        BY <1>1, ElementOfSeq, LenProperties
      <4> QED  BY <1>1, <1>2, <2>1, <4>1, LimitTypes DEF Ordered
    <3> QED  BY <3>1 DEF ToSet
  <2>5. "coalesced" \in Outcomes \ {"pending"}
    BY DEF Outcomes
  <2>6. Good(nextCommand, Decide(cmd, {entries[i]}, "coalesced"),
             RemoveAt(entries, i), batch, position)
    BY <1>1, <2>2, <2>3, <2>4, <2>5, DropGood
  <2> QED  BY <1>4, <2>6 DEF i
<1> QED  BY <1>3, <1>4

LEMMA EnqueueInv ==
  ASSUME QueueInv, NEW policy \in Policies, NEW key \in Keys \cup {NoKey},
         NEW size \in Sizes, Enqueue(policy, key, size)
  PROVE  QueueInv'
<1> DEFINE c == nextCommand + 1
           new == [policy |-> policy, key |-> key, bytes |-> size,
                   outcome |-> "pending", commits |-> 0]
           i == Superseded(policy, key)
           kept == IF i = 0 THEN entries ELSE RemoveAt(entries, i)
           bytes == IF i = 0 THEN pendingBytes ELSE pendingBytes - cmd[entries[i]].bytes
           before == IF i = 0 THEN cmd ELSE Decide(cmd, {entries[i]}, "coalesced")
           refusal(o) == [new EXCEPT !.outcome = o]
<1>2. /\ new \in Entry /\ new.outcome = "pending" /\ new.commits = 0
      /\ new.policy = policy /\ new.key = key
      /\ \A o \in Outcomes : /\ refusal(o) \in Entry /\ refusal(o).outcome = o
                             /\ refusal(o).commits = 0
  BY DEF Entry, Outcomes
<1>3. /\ nextCommand < MaxCommands /\ nextCommand' = c
      /\ Refuse(c, new) \/ Accept(c, new)
      /\ closed' = closed /\ drain' = drain
  BY DEF Enqueue
<1>4. Good(nextCommand, cmd, entries, batch, position) /\ Control
  BY DEF QueueInv
<1>5. Good(nextCommand, before, kept, batch, position)
  BY SupersedeGood
<1>6. {"closed", "backpressure"} \subseteq Outcomes \ {"pending"}
  BY DEF Outcomes
<1>7. CASE Refuse(c, new)
  <2>1. PICK o \in {"closed", "backpressure"} : cmd' = [cmd EXCEPT ![c] = refusal(o)]
    BY <1>7 DEF Refuse
  <2>2. Good(c, cmd', entries, batch, position)
    BY <1>2, <1>3, <1>4, <1>6, <2>1, IssueRefused
  <2> QED  BY <1>3, <1>4, <1>7, <2>2 DEF Refuse, QueueInv, Control, NoLostWakeup
<1>8. CASE Accept(c, new)
  <2>1. \/ /\ entries' = kept
           /\ cmd' = [before EXCEPT ![c] = refusal("backpressure")]
           /\ UNCHANGED <<batch, position, retries, runner>>
        \/ /\ runner = "idle"
           /\ RunNext(Append(kept, c), [before EXCEPT ![c] = new],
                      bytes + new.bytes, FALSE)
        \/ /\ runner # "idle" /\ entries' = Append(kept, c)
           /\ cmd' = [before EXCEPT ![c] = new]
           /\ UNCHANGED <<batch, position, retries, runner>>
    BY <1>2, <1>8 DEF Accept, Push
  <2> HIDE DEF i, kept, before, bytes, refusal, new
  <2>2. Good(c, [before EXCEPT ![c] = refusal("backpressure")], kept, batch, position)
    BY <1>2, <1>3, <1>5, <1>6, IssueRefused
  <2>3. /\ Good(c, [before EXCEPT ![c] = new], Append(kept, c), batch, position)
        /\ Append(kept, c) # <<>>
    BY <1>2, <1>3, <1>5, IssuePushed
  <2>4. CASE /\ entries' = kept
             /\ cmd' = [before EXCEPT ![c] = refusal("backpressure")]
             /\ UNCHANGED <<batch, position, retries, runner>>
    <3>1. runner = "idle" => kept = <<>>
      BY <1>4, SupersededOfNone DEF Control, NoLostWakeup, kept, i
    <3> QED  BY <1>3, <1>4, <2>2, <2>4, <3>1 DEF QueueInv, Control, NoLostWakeup
  <2>5. CASE /\ runner = "idle"
             /\ RunNext(Append(kept, c), [before EXCEPT ![c] = new],
                        bytes + new.bytes, FALSE)
    <3>1. batch = <<>>
      BY <1>4, <2>5 DEF Control
    <3>2. Good(c, [before EXCEPT ![c] = new], Append(kept, c), <<>>, position)
      BY <2>3, <3>1
    <3>3. /\ Good(c, cmd', entries', batch', position')
          /\ retries' = 0
          /\ runner' \in {"returned", "executing"}
          /\ batch' = <<>> <=> runner' = "returned"
      BY <2>3, <2>5, <3>2, RunNextGood
    <3> QED  BY <1>3, <1>4, <3>3, LimitTypes
             DEF QueueInv, Control, NoLostWakeup, Runners
  <2>6. CASE /\ runner # "idle" /\ entries' = Append(kept, c)
             /\ cmd' = [before EXCEPT ![c] = new]
             /\ UNCHANGED <<batch, position, retries, runner>>
    BY <1>3, <1>4, <2>3, <2>6 DEF QueueInv, Control, NoLostWakeup
  <2> QED  BY <2>1, <2>4, <2>5, <2>6
<1> QED  BY <1>3, <1>7, <1>8

(* One more commit of the running operation.                                *)
LEMMA CommitProperties ==
  ASSUME QueueInv, runner = "executing"
  PROVE  LET b == batch[position]
             cs == [cmd EXCEPT ![b].commits = @ + 1]
         IN  /\ position \in 1..Len(batch) /\ Len(batch) \in Nat
             /\ b \in ToSet(batch) /\ b \in Commands
             /\ cs \in [Commands -> Entry]
             /\ cs[b].commits = cmd[b].commits + 1
             /\ \A c \in Commands :
                  /\ c # b => cs[c] = cmd[c]
                  /\ cs[c].policy = cmd[c].policy /\ cs[c].key = cmd[c].key
                  /\ cs[c].outcome = cmd[c].outcome
<1> DEFINE b == batch[position]
           cs == [cmd EXCEPT ![b].commits = @ + 1]
<1>1. batch # <<>> /\ batch \in Seq(Commands) /\ cmd \in [Commands -> Entry]
  BY DEF QueueInv, Control, Good
<1>2. position \in 1..Len(batch) /\ Len(batch) \in Nat /\ DOMAIN batch = 1..Len(batch)
  BY <1>1, LenProperties DEF QueueInv, Good
<1>3. b \in Commands /\ b \in ToSet(batch)
  BY <1>1, <1>2, ElementOfSeq DEF ToSet
<1> HIDE DEF b
<1>4. cmd[b] \in Entry /\ cmd[b].commits + 1 \in Nat
  BY <1>1, <1>3 DEF Entry
<1>5. [cmd[b] EXCEPT !.commits = @ + 1] \in Entry
  BY <1>4 DEF Entry
<1>6. /\ cs \in [Commands -> Entry]
      /\ cs[b] = [cmd[b] EXCEPT !.commits = @ + 1]
      /\ \A c \in Commands : c # b => cs[c] = cmd[c]
  BY <1>1, <1>3, <1>5
<1> HIDE DEF cs
<1>7. /\ cs[b].commits = cmd[b].commits + 1
      /\ cs[b].policy = cmd[b].policy /\ cs[b].key = cmd[b].key
      /\ cs[b].outcome = cmd[b].outcome
  BY <1>4, <1>6 DEF Entry
<1>8. \A c \in Commands : /\ cs[c].policy = cmd[c].policy /\ cs[c].key = cmd[c].key
                          /\ cs[c].outcome = cmd[c].outcome
  BY <1>6, <1>7
<1> QED  BY <1>2, <1>3, <1>6, <1>7, <1>8 DEF b, cs

LEMMA OpCommitsInv ==
  ASSUME QueueInv, OpCommits
  PROVE  QueueInv'
<1> DEFINE b == batch[position]
           cs == [cmd EXCEPT ![b].commits = @ + 1]
<1>1. /\ runner = "executing"
      /\ IF position < Len(batch)
           THEN /\ position' = position + 1 /\ cmd' = cs
                /\ UNCHANGED <<batch, runner>>
           ELSE EndBatch(cs, "resolved")
      /\ UNCHANGED <<nextCommand, entries, pendingBytes, retries, closed, drain>>
  BY DEF OpCommits
<1>2. /\ position \in 1..Len(batch) /\ Len(batch) \in Nat
      /\ b \in ToSet(batch) /\ b \in Commands
      /\ cs \in [Commands -> Entry]
      /\ cs[b].commits = cmd[b].commits + 1
      /\ \A c \in Commands :
           /\ c # b => cs[c] = cmd[c]
           /\ cs[c].policy = cmd[c].policy /\ cs[c].key = cmd[c].key
           /\ cs[c].outcome = cmd[c].outcome
  BY <1>1, CommitProperties
<1> HIDE DEF cs
<1>3. Good(nextCommand, cmd, entries, batch, position) /\ Control
  BY DEF QueueInv
<1>4. /\ nextCommand \in 0..MaxCommands /\ MaxCommands \in Nat
      /\ entries \in Seq(Commands) /\ batch \in Seq(Commands)
      /\ \A i \in DOMAIN batch : batch[i] \in Commands
      /\ \A i \in DOMAIN entries : entries[i] \in Commands
      /\ DOMAIN batch = 1..Len(batch)
  BY <1>3, LimitTypes, ElementOfSeq, LenProperties DEF Good
<1>5. 1..nextCommand \subseteq Commands
  BY <1>4 DEF Commands
<1>6. CASE position < Len(batch)
  <2>1. /\ position' = position + 1 /\ cmd' = cs
        /\ UNCHANGED <<batch, runner>>
    BY <1>1, <1>6
  <2>2. Len(batch) # 1 /\ position + 1 \in 1..Len(batch)
    <3>1. position \in 1..Len(batch) /\ Len(batch) \in Nat
      BY <1>2
    <3>2. \A l \in Nat : \A k \in 1..l : k < l => l # 1 /\ k + 1 \in 1..l
      OBVIOUS
    <3> QED  BY <1>6, <3>1, <3>2
  <2>3. InBatches(cmd, batch)
    BY <1>3, <2>2 DEF Good
  <2>4. InBatches(cs, batch)
    BY <1>2, <1>4, <2>3 DEF InBatches
  <2>5. \A i \in DOMAIN entries : entries[i] # b
    <3>1. \A i \in DOMAIN entries : b < entries[i]
      BY <1>2, <1>3, <1>4 DEF Good, Ordered
    <3>2. b \in Nat
      BY <1>2, LimitTypes
    <3> QED  BY <3>1, <3>2
  <2>6. \A i \in DOMAIN entries : cs[entries[i]].commits = 0
    BY <1>2, <1>3, <1>4, <2>5 DEF Good
  <2>7. PendingOf(cs, nextCommand) = PendingOf(cmd, nextCommand)
    BY <1>2, <1>5 DEF PendingOf
  <2>8. Repeats(cs, nextCommand)
    <3>1. cmd[b].policy = "append_batch" /\ cmd[b].key # NoKey
      BY <1>2, <1>4, <2>3 DEF InBatches
    <3>2. Repeats(cmd, nextCommand)
      BY <1>3 DEF Good
    <3>3. \A c \in 1..nextCommand : c = b \/ cs[c] = cmd[c]
      BY <1>2, <1>5
    <3> QED  BY <1>2, <3>1, <3>2, <3>3 DEF Repeats
  <2>9. Good(nextCommand, cs, entries, batch, position + 1)
    BY <1>2, <1>3, <1>4, <2>2, <2>4, <2>6, <2>7, <2>8 DEF Good
  <2> QED  BY <1>1, <1>3, <2>1, <2>9 DEF QueueInv, Control, NoLostWakeup
<1>7. CASE ~ (position < Len(batch))
  <2>1. /\ cmd' = Decide(cs, ToSet(batch), "resolved")
        /\ batch' = <<>> /\ position' = 1 /\ runner' = "returned"
    BY <1>1, <1>7 DEF EndBatch
  <2>2. Len(batch) = 1 => cs[batch[1]].commits \in 0..1
    <3> SUFFICES ASSUME Len(batch) = 1 PROVE cs[batch[1]].commits \in 0..1
      OBVIOUS
    <3>1. position = 1 /\ cmd[batch[1]].commits = 0
      BY <1>2, <1>3 DEF Good
    <3> QED  BY <1>2, <3>1
  <2>3. \A c \in Commands : c \notin ToSet(batch) => cs[c] = cmd[c]
    BY <1>2
  <2>4. \A c \in Commands : /\ cs[c].policy = cmd[c].policy /\ cs[c].key = cmd[c].key
                            /\ cs[c].outcome = cmd[c].outcome
    BY <1>2
  <2>5. "resolved" \in {"resolved", "failed"} /\ "resolved" # "failed"
    OBVIOUS
  <2>6. Good(nextCommand, Decide(cs, ToSet(batch), "resolved"), entries, <<>>, 1)
    BY <1>2, <1>3, <2>2, <2>3, <2>4, <2>5, EndGood
  <2> QED  BY <1>1, <1>3, <2>1, <2>6 DEF QueueInv, Control, NoLostWakeup, Runners
<1> QED  BY <1>6, <1>7

LEMMA FailBatchInv ==
  ASSUME QueueInv, runner = "executing", FailBatch,
         UNCHANGED <<nextCommand, entries, retries, closed, drain>>
  PROVE  QueueInv'
<1>1. Good(nextCommand, cmd, entries, batch, position) /\ Control
  BY DEF QueueInv
<1>2. /\ cmd' = Decide(cmd, ToSet(batch), "failed")
      /\ batch' = <<>> /\ position' = 1 /\ runner' = "returned"
  BY DEF FailBatch, EndBatch
<1>3. Len(batch) = 1 => cmd[batch[1]].commits \in {0}
  BY <1>1 DEF Good
<1>4. cmd \in [Commands -> Entry]
  BY <1>1 DEF Good
<1>5. Good(nextCommand, Decide(cmd, ToSet(batch), "failed"), entries, <<>>, 1)
  BY <1>1, <1>3, <1>4, EndGood
<1> QED  BY <1>1, <1>2, <1>5 DEF QueueInv, Control, NoLostWakeup, Runners

LEMMA OpFailsInv ==
  ASSUME QueueInv, OpBusy \/ OpThrows
  PROVE  QueueInv'
<1>1. CASE OpBusy /\ retries < MaxRetries
  <2>1. retries + 1 \in 0..MaxRetries
    BY <1>1, LimitTypes DEF QueueInv, Control
  <2> QED  BY <1>1, <2>1 DEF OpBusy, QueueInv, Control, NoLostWakeup, Runners
<1>2. CASE OpBusy /\ ~ (retries < MaxRetries)
  BY <1>2, FailBatchInv DEF OpBusy
<1>3. CASE OpThrows
  BY <1>3, FailBatchInv DEF OpThrows
<1> QED  BY <1>1, <1>2, <1>3

LEMMA RetryInv ==
  ASSUME QueueInv, Retry
  PROVE  QueueInv'
<1>1. Good(nextCommand, cmd, entries, batch, position) /\ Control
  BY DEF QueueInv
<1>2. batch # <<>> => 1 \in 1..Len(batch)
  BY <1>1, EmptySeq, LenProperties DEF Good
<1>3. Good(nextCommand, cmd, entries, batch, 1)
  BY <1>1, <1>2 DEF Good
<1> QED  BY <1>1, <1>3 DEF Retry, RetryFrom, QueueInv, Control, NoLostWakeup, Runners

LEMMA FinallyInv ==
  ASSUME QueueInv, NEW late \in BOOLEAN, Finally(late)
  PROVE  QueueInv'
<1>1. Good(nextCommand, cmd, entries, batch, position) /\ Control
  BY DEF QueueInv
<1>2. runner = "returned" /\ batch = <<>>
  BY <1>1 DEF Finally, Control
<1>3. CASE entries # <<>>
  <2>1. RunNext(entries, cmd, pendingBytes, late)
        /\ UNCHANGED <<drain, nextCommand, closed>>
    BY <1>3 DEF Finally, Restarts
  <2>2. /\ Good(nextCommand, cmd', entries', batch', position')
        /\ retries' = 0
        /\ runner' \in {"returned", "executing"}
        /\ batch' = <<>> <=> runner' = "returned"
    BY <1>1, <1>2, <1>3, <2>1, RunNextGood
  <2> QED  BY <1>1, <2>1, <2>2, LimitTypes DEF QueueInv, Control, NoLostWakeup, Runners
<1>4. CASE entries = <<>>
  BY <1>1, <1>2, <1>4 DEF Finally, Restarts, QueueInv, Control, NoLostWakeup, Runners
<1> QED  BY <1>3, <1>4

LEMMA CloseInv ==
  ASSUME QueueInv, CloseDrain \/ CloseNow
  PROVE  QueueInv'
<1>1. Good(nextCommand, cmd, entries, batch, position) /\ Control
  BY DEF QueueInv
<1>2. CASE CloseDrain
  BY <1>1, <1>2 DEF CloseDrain, QueueInv, Control, NoLostWakeup
<1>3. CASE CloseNow
  <2>1. /\ entries' = <<>> /\ cmd' = Decide(cmd, ToSet(entries), "closed")
        /\ closed' = TRUE
        /\ UNCHANGED <<nextCommand, batch, position, retries, runner, drain>>
    BY <1>3 DEF CloseNow
  <2>2. /\ <<>> \in Seq(Commands) /\ DOMAIN <<>> = {} /\ ToSet(<<>>) = {}
    BY EmptySeq DEF ToSet
  <2>3. Ordered(batch, <<>>)
    BY <1>1, <2>2 DEF Good, Ordered, Increasing
  <2>4. ToSet(entries) \cap ToSet(batch) = {}
    <3>1. \A i \in DOMAIN batch : batch[i] \in Nat
      BY <1>1, LimitTypes, ElementOfSeq, LenProperties DEF Good
    <3> QED  BY <1>1, <3>1 DEF Good, Ordered, ToSet
  <2>5. "closed" \in Outcomes \ {"pending"}
    BY DEF Outcomes
  <2>6. Good(nextCommand, Decide(cmd, ToSet(entries), "closed"), <<>>, batch, position)
    BY <1>1, <2>2, <2>3, <2>4, <2>5, DropGood
  <2> QED  BY <1>1, <2>1, <2>6 DEF QueueInv, Control, NoLostWakeup
<1> QED  BY <1>2, <1>3

LEMMA StepInv ==
  ASSUME QueueInv, [QueueNext]_queueVars
  PROVE  QueueInv'
<1>1. CASE \E call \in Calls : Enqueue(call[1], call[2], call[3])
  BY <1>1, CallsAssumption, EnqueueInv
<1>2. CASE OpEnds
  BY <1>2, OpCommitsInv, OpFailsInv DEF OpEnds
<1>3. CASE Retry
  BY <1>3, RetryInv
<1>4. CASE \E late \in BOOLEAN : Finally(late)
  BY <1>4, FinallyInv
<1>5. CASE CloseDrain \/ CloseNow
  BY <1>5, CloseInv
<1>6. CASE UNCHANGED queueVars
  BY <1>6 DEF queueVars, QueueInv, Control, NoLostWakeup
<1> QED  BY <1>1, <1>2, <1>3, <1>4, <1>5, <1>6 DEF QueueNext

LEMMA QueueInvHolds == QueueSpec => []QueueInv
<1> QED  BY InitInv, StepInv, PTL DEF QueueSpec

-----------------------------------------------------------------------------
(* The byte budget, on top of the first invariant.  The limits hold because *)
(* a command is only pushed when both admit it and what leaves the queue    *)
(* takes its bytes along.                                                   *)

Budget == position \in Nat \ {0} /\ BudgetIsExact

LEMMA BudgetLimits == MaxPendingCommands \in Nat /\ MaxPendingBytes \in Nat
BY LimitsAssumption

LEMMA DecideKeepsBytes ==
  ASSUME NEW cs \in [Commands -> Entry], NEW T, NEW o \in Outcomes, NEW q \in Seq(Commands)
  PROVE  BytesOf(q, Decide(cs, T, o)) = BytesOf(q, cs)
<1> DEFINE ds == Decide(cs, T, o)
<1>1. ds \in [Commands -> Entry]
  BY DecideProperties
<1>2. ASSUME NEW c \in Commands PROVE ds[c].bytes = cs[c].bytes
  <2>1. [cs[c] EXCEPT !.outcome = o].bytes = cs[c].bytes
    BY DEF Entry
  <2> QED  BY <2>1 DEF Decide
<1>3. \A i \in 1..Len(q) : q[i] \in Commands
  BY ElementOfSeq
<1> HIDE DEF ds
<1>4. \A i \in 1..Len(q) : cs[q[i]].bytes = ds[q[i]].bytes
  BY <1>2, <1>3
<1>5. BytesOf(q, cs) = BytesOf(q, ds)
  BY <1>1, <1>4, BytesOfSame
<1> QED  BY <1>5 DEF ds

LEMMA RunNextBudget ==
  ASSUME NEW cs \in [Commands -> Entry], NEW q \in Seq(Commands), q # <<>>,
         NEW late \in BOOLEAN, NEW bytes, bytes = BytesOf(q, cs),
         RunNext(q, cs, bytes, late),
         bytes <= MaxPendingBytes, Len(q) <= MaxPendingCommands
  PROVE  Budget'
<1> DEFINE m == BatchLength(q, cs)
           taken == SubSeq(q, 1, m)
           left == SubSeq(q, m + 1, Len(q))
<1>1. m \in 1..Len(q) /\ m \in 0..Len(q) /\ Len(q) \in Nat
  BY BatchLengthJoins, LenProperties
<1>2. /\ entries' = left /\ pendingBytes' = bytes - BytesOf(taken, cs)
      /\ cmd' = IF late THEN Decide(cs, ToSet(taken), "backpressure") ELSE cs
      /\ position' = 1
  BY DEF RunNext
<1> HIDE DEF m
<1>3. /\ taken \in Seq(Commands) /\ left \in Seq(Commands) /\ Len(left) = Len(q) - m
      /\ bytes = BytesOf(taken, cs) + BytesOf(left, cs)
  BY <1>1, FirstPart, LastPart, BytesOfParts
<1> HIDE DEF taken, left
<1>4. BytesOf(left, cmd') = BytesOf(left, cs)
  <2>1. "backpressure" \in Outcomes
    BY DEF Outcomes
  <2> QED  BY <1>2, <1>3, <2>1, DecideKeepsBytes
<1>5. BytesOf(taken, cs) \in Nat /\ BytesOf(left, cs) \in Nat
  BY <1>3, BytesType
<1>6. pendingBytes' = BytesOf(left, cs) /\ pendingBytes' <= MaxPendingBytes
  BY <1>2, <1>3, <1>5, BudgetLimits
<1>7. Len(left) <= MaxPendingCommands
  BY <1>1, <1>3, BudgetLimits
<1> QED  BY <1>2, <1>4, <1>6, <1>7 DEF Budget, BudgetIsExact

(* Superseding gives back the bytes of the entry that goes.                 *)
LEMMA SupersedeBudget ==
  ASSUME QueueInv, Budget, NEW policy, NEW key
  PROVE  LET i == Superseded(policy, key)
             kept == IF i = 0 THEN entries ELSE RemoveAt(entries, i)
             bytes == IF i = 0 THEN pendingBytes ELSE pendingBytes - cmd[entries[i]].bytes
             before == IF i = 0 THEN cmd ELSE Decide(cmd, {entries[i]}, "coalesced")
         IN  /\ bytes = BytesOf(kept, before) /\ bytes <= MaxPendingBytes
             /\ Len(kept) <= MaxPendingCommands
<1> DEFINE i == Superseded(policy, key)
           rest == RemoveAt(entries, i)
           ds == Decide(cmd, {entries[i]}, "coalesced")
<1>1. /\ entries \in Seq(Commands) /\ batch \in Seq(Commands)
      /\ cmd \in [Commands -> Entry] /\ Ordered(batch, entries)
      /\ pendingBytes = BytesOf(entries, cmd) /\ pendingBytes <= MaxPendingBytes
      /\ Len(entries) <= MaxPendingCommands
  BY DEF QueueInv, Good, Budget, BudgetIsExact
<1>2. i \in 0..Len(entries) /\ Len(entries) \in Nat
  BY <1>1, SupersededIndex, LenProperties
<1> HIDE DEF i
<1>3. CASE i = 0
  BY <1>1, <1>3 DEF i
<1>4. CASE i # 0
  <2>1. i \in 1..Len(entries)
    BY <1>2, <1>4
  <2>2. rest \in Seq(Commands)
    BY <1>1, <2>1, RemoveOrdered
  <2>3. BytesOf(rest, cmd) = pendingBytes - cmd[entries[i]].bytes
    BY <1>1, <2>1, BytesOfRemoveAt
  <2>4. "coalesced" \in Outcomes
    BY DEF Outcomes
  <2>5. Len(rest) <= Len(entries)
    <3> DEFINE head == SubSeq(entries, 1, i - 1)
               tail == SubSeq(entries, i + 1, Len(entries))
    <3>1. i - 1 \in 0..Len(entries) /\ i \in 0..Len(entries)
      BY <1>2, <2>1
    <3>2. /\ head \in Seq(Commands) /\ Len(head) = i - 1
          /\ tail \in Seq(Commands) /\ Len(tail) = Len(entries) - i
      BY <1>1, <3>1, FirstPart, LastPart
    <3>3. Len(rest) = Len(head) + Len(tail)
      BY <3>2, ConcatProperties DEF RemoveAt
    <3> HIDE DEF head, tail
    <3> QED  BY <1>2, <2>1, <3>2, <3>3
  <2> HIDE DEF rest
  <2>6. BytesOf(rest, ds) = BytesOf(rest, cmd)
    BY <1>1, <2>2, <2>4, DecideKeepsBytes
  <2>7. entries[i] \in Commands /\ cmd[entries[i]].bytes \in Nat
    BY <1>1, <2>1, ElementOfSeq, SizeType
  <2>8. pendingBytes \in Nat
    BY <1>1, BytesType
  <2>9. pendingBytes - cmd[entries[i]].bytes <= MaxPendingBytes
    BY <1>1, <2>7, <2>8, BudgetLimits
  <2>10. Len(rest) \in Nat /\ Len(rest) <= MaxPendingCommands
    BY <1>1, <1>2, <2>2, <2>5, LenProperties, BudgetLimits
  <2> HIDE DEF ds
  <2> QED  BY <1>4, <2>3, <2>6, <2>9, <2>10 DEF i, rest, ds
<1> QED  BY <1>3, <1>4

(* A command that is issued is in no queue yet: the sizes there stay.       *)
Issue(cs, n, new) == [cs EXCEPT ![n + 1] = new]

LEMMA IssueKeepsBytes ==
  ASSUME NEW n, NEW cs, NEW e, NEW b, NEW p, NEW new \in Entry,
         Good(n, cs, e, b, p), n < MaxCommands
  PROVE  /\ Issue(cs, n, new) \in [Commands -> Entry]
         /\ BytesOf(e, Issue(cs, n, new)) = BytesOf(e, cs)
<1> DEFINE ds == Issue(cs, n, new)
<1>1. /\ n \in 0..MaxCommands /\ MaxCommands \in Nat
      /\ cs \in [Commands -> Entry] /\ e \in Seq(Commands)
  BY LimitTypes DEF Good
<1>2. n + 1 \in Commands /\ n + 1 \notin 1..n
  BY <1>1 DEF Commands
<1>3. ds \in [Commands -> Entry] /\ ds[n + 1] = new
      /\ \A c \in Commands : c # n + 1 => ds[c] = cs[c]
  BY <1>1, <1>2 DEF Issue
<1>4. \A i \in 1..Len(e) : e[i] \in Commands /\ e[i] # n + 1
  <2>1. \A i \in 1..Len(e) : e[i] \in Commands /\ e[i] \in ToSet(e)
    BY <1>1, ElementOfSeq, LenProperties DEF ToSet
  <2>2. ToSet(e) \subseteq 1..n
    BY DEF Good, PendingOf
  <2> QED  BY <1>2, <2>1, <2>2
<1> HIDE DEF ds
<1>5. BytesOf(e, cs) = BytesOf(e, ds)
  <2>1. \A i \in 1..Len(e) : cs[e[i]].bytes = ds[e[i]].bytes
    BY <1>3, <1>4
  <2> QED  BY <1>1, <1>3, <2>1, BytesOfSame
<1> QED  BY <1>3, <1>5 DEF ds

LEMMA IssueAddsBytes ==
  ASSUME NEW n, NEW cs, NEW e, NEW b, NEW p, NEW new \in Entry,
         Good(n, cs, e, b, p), n < MaxCommands
  PROVE  BytesOf(Append(e, n + 1), Issue(cs, n, new)) = BytesOf(e, cs) + new.bytes
<1> DEFINE ds == Issue(cs, n, new)
<1>1. /\ n \in 0..MaxCommands /\ MaxCommands \in Nat
      /\ cs \in [Commands -> Entry] /\ e \in Seq(Commands)
  BY LimitTypes DEF Good
<1>2. n + 1 \in Commands
  BY <1>1 DEF Commands
<1>3. ds[n + 1] = new
  BY <1>1, <1>2 DEF Issue
<1>4. ds \in [Commands -> Entry] /\ BytesOf(e, ds) = BytesOf(e, cs)
  BY IssueKeepsBytes
<1> HIDE DEF ds
<1>5. BytesOf(Append(e, n + 1), ds) = BytesOf(e, ds) + ds[n + 1].bytes
  BY <1>1, <1>2, <1>4, BytesOfAppend
<1> QED  BY <1>3, <1>4, <1>5 DEF ds

LEMMA EnqueueBudget ==
  ASSUME QueueInv, Budget, NEW policy \in Policies, NEW key \in Keys \cup {NoKey},
         NEW size \in Sizes, Enqueue(policy, key, size)
  PROVE  Budget'
<1> DEFINE c == nextCommand + 1
           new == [policy |-> policy, key |-> key, bytes |-> size,
                   outcome |-> "pending", commits |-> 0]
           i == Superseded(policy, key)
           kept == IF i = 0 THEN entries ELSE RemoveAt(entries, i)
           bytes == IF i = 0 THEN pendingBytes ELSE pendingBytes - cmd[entries[i]].bytes
           before == IF i = 0 THEN cmd ELSE Decide(cmd, {entries[i]}, "coalesced")
           refusal(o) == [new EXCEPT !.outcome = o]
<1>2. /\ new \in Entry /\ new.policy = policy /\ new.key = key /\ new.bytes = size
      /\ \A o \in Outcomes : refusal(o) \in Entry
  BY DEF Entry, Outcomes
<1>3. /\ nextCommand < MaxCommands
      /\ Refuse(c, new) \/ Accept(c, new)
  BY DEF Enqueue
<1>4. Good(nextCommand, cmd, entries, batch, position)
  BY DEF QueueInv
<1>5. Good(nextCommand, before, kept, batch, position)
  BY SupersedeGood
<1>6. bytes = BytesOf(kept, before) /\ bytes <= MaxPendingBytes
      /\ Len(kept) <= MaxPendingCommands
  BY SupersedeBudget
<1>7. {"closed", "backpressure"} \subseteq Outcomes
  BY DEF Outcomes
<1>8. CASE Refuse(c, new)
  <2>1. PICK o \in {"closed", "backpressure"} : cmd' = [cmd EXCEPT ![c] = refusal(o)]
    BY <1>8 DEF Refuse
  <2>2. refusal(o) \in Entry
    BY <1>2, <1>7, <2>1
  <2> DEFINE refused == refusal(o)
  <2> HIDE DEF refused
  <2>3. BytesOf(entries, Issue(cmd, nextCommand, refused)) = BytesOf(entries, cmd)
    <3>1. refused \in Entry
      BY <2>2 DEF refused
    <3> QED  BY <1>3, <1>4, <3>1, IssueKeepsBytes
  <2>4. BytesOf(entries, cmd') = BytesOf(entries, cmd)
    BY <2>1, <2>3 DEF refused, Issue
  <2> QED  BY <1>8, <2>4 DEF Refuse, Budget, BudgetIsExact
<1>9. CASE Accept(c, new)
  <2>1. \/ /\ entries' = kept /\ pendingBytes' = bytes
           /\ cmd' = [before EXCEPT ![c] = refusal("backpressure")]
           /\ UNCHANGED <<batch, position, retries, runner>>
        \/ /\ Admits(kept, bytes, size)
           /\ RunNext(Append(kept, c), [before EXCEPT ![c] = new], bytes + size, FALSE)
        \/ /\ Admits(kept, bytes, size)
           /\ entries' = Append(kept, c) /\ pendingBytes' = bytes + size
           /\ cmd' = [before EXCEPT ![c] = new]
           /\ UNCHANGED <<batch, position, retries, runner>>
    BY <1>2, <1>9 DEF Accept, Push
  <2>2. refusal("backpressure") \in Entry
    BY <1>2, <1>7
  <2>3. size \in Nat
    BY SizesAssumption
  <2> HIDE DEF i, kept, before, bytes, refusal, new
  <2>4. kept \in Seq(Commands) /\ before \in [Commands -> Entry] /\ c \in Commands
    BY <1>3, <1>5, LimitTypes DEF Good, Commands
  <2>5. bytes \in Nat /\ Len(kept) \in Nat
    BY <1>6, <2>4, BytesType, LenProperties
  <2> DEFINE issued == Issue(before, nextCommand, new)
             longer == Append(kept, c)
  <2>12. new \in Entry /\ new.bytes = size
    BY <1>2
  <2>6. issued \in [Commands -> Entry] /\ BytesOf(longer, issued) = bytes + size
    <3>1. issued \in [Commands -> Entry]
      BY <1>3, <1>5, <2>12, IssueKeepsBytes
    <3>2. BytesOf(longer, issued) = BytesOf(kept, before) + new.bytes
      BY <1>3, <1>5, <2>12, IssueAddsBytes
    <3> QED  BY <1>6, <2>12, <3>1, <3>2
  <2>7. longer \in Seq(Commands) /\ longer # <<>> /\ Len(longer) = Len(kept) + 1
    BY <2>4, AppendProperties
  <2>8. Admits(kept, bytes, size) =>
          bytes + size <= MaxPendingBytes /\ Len(longer) <= MaxPendingCommands
    BY <2>5, <2>7, BudgetLimits DEF Admits
  <2> HIDE DEF issued, longer
  <2>9. CASE /\ entries' = kept /\ pendingBytes' = bytes
             /\ cmd' = [before EXCEPT ![c] = refusal("backpressure")]
             /\ UNCHANGED <<batch, position, retries, runner>>
    <3> DEFINE refused == refusal("backpressure")
    <3>2. refused \in Entry
      BY <2>2
    <3> HIDE DEF refused
    <3>3. BytesOf(kept, Issue(before, nextCommand, refused)) = BytesOf(kept, before)
      BY <1>3, <1>5, <3>2, IssueKeepsBytes
    <3>1. BytesOf(kept, cmd') = BytesOf(kept, before)
      BY <2>9, <3>3 DEF refused, Issue
    <3> QED  BY <1>6, <2>9, <3>1 DEF Budget, BudgetIsExact
  <2>10. CASE Admits(kept, bytes, size) /\ RunNext(longer, issued, bytes + size, FALSE)
    BY <2>6, <2>7, <2>8, <2>10, RunNextBudget
  <2>11. CASE /\ Admits(kept, bytes, size)
              /\ entries' = longer /\ pendingBytes' = bytes + size /\ cmd' = issued
              /\ UNCHANGED <<batch, position, retries, runner>>
    BY <2>6, <2>8, <2>11 DEF Budget, BudgetIsExact
  <2> QED  BY <2>1, <2>9, <2>10, <2>11 DEF issued, longer, Issue
<1> QED  BY <1>3, <1>8, <1>9

LEMMA OpEndsBudget ==
  ASSUME QueueInv, Budget, OpEnds
  PROVE  Budget'
<1>1. /\ entries \in Seq(Commands) /\ cmd \in [Commands -> Entry]
      /\ UNCHANGED <<entries, pendingBytes>>
  BY DEF QueueInv, Good, OpEnds, OpCommits, OpBusy, OpThrows
<1>2. /\ position' \in Nat \ {0}
      /\ BytesOf(entries, cmd') = BytesOf(entries, cmd)
  <2>1. {"resolved", "failed"} \subseteq Outcomes
    BY DEF Outcomes
  <2>2. CASE OpCommits
    <3> DEFINE cs == [cmd EXCEPT ![batch[position]].commits = @ + 1]
    <3>1. cs \in [Commands -> Entry]
      BY <2>2, CommitProperties DEF OpCommits
    <3>2. ASSUME NEW c \in Commands PROVE cs[c].bytes = cmd[c].bytes
      BY <1>1 DEF Entry
    <3>3. \/ position' = position + 1 /\ cmd' = cs
          \/ position' = 1 /\ cmd' = Decide(cs, ToSet(batch), "resolved")
      BY <2>2 DEF OpCommits, EndBatch
    <3> HIDE DEF cs
    <3>4. \A i \in 1..Len(entries) : cmd[entries[i]].bytes = cs[entries[i]].bytes
      BY <1>1, <3>2, ElementOfSeq
    <3>5. BytesOf(entries, cmd) = BytesOf(entries, cs)
      BY <1>1, <3>1, <3>4, BytesOfSame
    <3>6. BytesOf(entries, Decide(cs, ToSet(batch), "resolved")) = BytesOf(entries, cs)
      BY <1>1, <2>1, <3>1, DecideKeepsBytes
    <3> QED  BY <3>3, <3>5, <3>6 DEF Budget
  <2>3. CASE OpBusy \/ OpThrows
    <3>1. \/ cmd' = cmd /\ position' = position
          \/ cmd' = Decide(cmd, ToSet(batch), "failed") /\ position' = 1
      BY <2>3 DEF OpBusy, OpThrows, FailBatch, EndBatch
    <3> QED  BY <1>1, <2>1, <3>1, DecideKeepsBytes DEF Budget
  <2> QED  BY <2>2, <2>3 DEF OpEnds
<1> QED  BY <1>1, <1>2 DEF Budget, BudgetIsExact

LEMMA FinallyBudget ==
  ASSUME QueueInv, Budget, NEW late \in BOOLEAN, Finally(late)
  PROVE  Budget'
<1>1. CASE entries # <<>>
  <2>1. RunNext(entries, cmd, pendingBytes, late)
    BY <1>1 DEF Finally, Restarts
  <2>2. entries \in Seq(Commands) /\ cmd \in [Commands -> Entry]
    BY DEF QueueInv, Good
  <2> QED  BY <1>1, <2>1, <2>2, RunNextBudget DEF Budget, BudgetIsExact
<1>2. CASE entries = <<>>
  BY <1>2 DEF Finally, Restarts, Budget, BudgetIsExact
<1> QED  BY <1>1, <1>2

LEMMA CloseBudget ==
  ASSUME QueueInv, Budget, CloseDrain \/ CloseNow
  PROVE  Budget'
<1>1. CASE CloseDrain
  BY <1>1 DEF CloseDrain, Budget, BudgetIsExact
<1>2. CASE CloseNow
  <2>1. /\ entries' = <<>> /\ position' = position
        /\ cmd' = Decide(cmd, ToSet(entries), "closed")
        /\ pendingBytes' = pendingBytes - BytesOf(entries, cmd)
    BY <1>2 DEF CloseNow
  <2>2. entries \in Seq(Commands) /\ cmd \in [Commands -> Entry] /\ "closed" \in Outcomes
    BY DEF QueueInv, Good, Outcomes
  <2>3. cmd' \in [Commands -> Entry]
    BY <2>1, <2>2, DecideProperties
  <2>4. BytesOf(<<>>, cmd') = 0
    BY <2>3, BytesOfEmpty
  <2>5. pendingBytes \in Nat /\ pendingBytes = BytesOf(entries, cmd)
    BY <2>2, BytesType DEF Budget, BudgetIsExact
  <2>6. pendingBytes' = 0
    BY <2>1, <2>5
  <2>7. Len(<<>>) = 0
    BY EmptySeq
  <2> QED  BY <2>1, <2>4, <2>6, <2>7, BudgetLimits DEF Budget, BudgetIsExact
<1> QED  BY <1>1, <1>2

LEMMA StepBudget ==
  ASSUME QueueInv, Budget, [QueueNext]_queueVars
  PROVE  Budget'
<1>1. CASE \E call \in Calls : Enqueue(call[1], call[2], call[3])
  BY <1>1, CallsAssumption, EnqueueBudget
<1>2. CASE OpEnds
  BY <1>2, OpEndsBudget
<1>3. CASE Retry
  BY <1>3 DEF Retry, RetryFrom, Budget, BudgetIsExact
<1>4. CASE \E late \in BOOLEAN : Finally(late)
  BY <1>4, FinallyBudget
<1>5. CASE CloseDrain \/ CloseNow
  BY <1>5, CloseBudget
<1>6. CASE UNCHANGED queueVars
  BY <1>6 DEF queueVars, Budget, BudgetIsExact
<1> QED  BY <1>1, <1>2, <1>3, <1>4, <1>5, <1>6 DEF QueueNext

LEMMA InitBudget ==
  ASSUME QueueInit
  PROVE  Budget
<1>1. cmd \in [Commands -> Entry]
  BY InitInv DEF QueueInv, Good
<1>2. BytesOf(<<>>, cmd) = 0 /\ Len(<<>>) = 0
  BY <1>1, BytesOfEmpty, EmptySeq
<1> QED  BY <1>2, BudgetLimits DEF QueueInit, Budget, BudgetIsExact

LEMMA BudgetHolds == QueueSpec => []Budget
<1>1. QueueSpec => []QueueInv
  BY QueueInvHolds
<1> QED  BY <1>1, InitBudget, StepBudget, PTL DEF QueueSpec

-----------------------------------------------------------------------------
(* The theorems.                                                            *)

(* Whatever the policies, sizes and limits: the pending commands are those  *)
(* of the queue and of the running batch, each held once.                   *)
THEOREM HeldExactlyOnce == QueueSpec => []PendingIsHeld
<1>1. QueueInv => PendingIsHeld
  BY GoodHolds
<1> QED  BY <1>1, QueueInvHolds, PTL

(* Commands run in the order of the calls of enqueue.                       *)
THEOREM CallsKeepOrder == QueueSpec => []CallOrder
<1>1. QueueInv => CallOrder
  BY GoodHolds
<1> QED  BY <1>1, QueueInvHolds, PTL

(* A command without a batch never commits twice, and never commits when    *)
(* its caller is told that it failed.                                       *)
THEOREM OnlyBatchesRepeatWork == QueueSpec => []OnlyBatchesRepeat
<1>1. QueueInv => OnlyBatchesRepeat
  BY GoodHolds
<1> QED  BY <1>1, QueueInvHolds, PTL

(* No command waits while nothing runs that would start it.                 *)
THEOREM WakeupNotLost == QueueSpec => []NoLostWakeup
<1>1. QueueInv => NoLostWakeup
  BY DEF QueueInv, Control
<1> QED  BY <1>1, QueueInvHolds, PTL

(* The byte budget is that of the waiting commands, and neither limit is    *)
(* exceeded through coalescing, batching, late commands and closing.        *)
THEOREM ByteBudgetIsExact == QueueSpec => []BudgetIsExact
<1>1. Budget => BudgetIsExact
  BY DEF Budget
<1> QED  BY <1>1, BudgetHolds, PTL

(* Every variable keeps its type.                                           *)
THEOREM QueueTypeCorrect == QueueSpec => []QueueTypeOK
<1>1. ASSUME QueueInv, Budget PROVE QueueTypeOK
  <2>1. pendingBytes \in Nat
    BY <1>1, BytesType DEF QueueInv, Good, Budget, BudgetIsExact
  <2> QED  BY <1>1, <2>1 DEF QueueTypeOK, QueueInv, Good, Control, Budget
<1> QED  BY <1>1, QueueInvHolds, BudgetHolds, PTL

=============================================================================
