------------------------------- MODULE InductionLemmas -------------------------------
(***************************************************************************)
(* Induction over the natural numbers, stated with sets, and what it says  *)
(* of the folds of the community modules.                                  *)
(***************************************************************************)
EXTENDS Integers, SequencesExt, SequenceTheorems, WellFoundedInduction, TLAPS

LEMMA EmptyInterval == 1 .. 0 = {}
OBVIOUS

LEMMA LeastMember ==
  ASSUME NEW T, T \subseteq Nat, T # {}
  PROVE  \E x \in T : \A y \in T : x <= y
<1> DEFINE R == OpToRel(<, Nat)
<1>1. IsWellFoundedOn(R, Nat)
  BY NatLessThanWellFounded
<1>2. \A x, y \in Nat : x < y <=> <<x, y>> \in R
  BY DEF OpToRel
<1> HIDE DEF R
<1>3. PICK x \in T : \A y \in T : ~ (<<y, x>> \in R)
  BY <1>1, WFMin
<1>4. ASSUME NEW y \in T PROVE x <= y
  <2>1. ~ (y < x)
    BY <1>2, <1>3
  <2> QED  BY <2>1
<1> QED  BY <1>4

LEMMA SetInduction ==
  ASSUME NEW S, 0 \in S, \A n \in Nat : n \in S => n + 1 \in S
  PROVE  Nat \subseteq S
<1> DEFINE T == Nat \ S
<1>1. CASE T = {}
  BY <1>1
<1>2. CASE T # {}
  <2>1. PICK x \in T : \A y \in T : x <= y
    BY <1>2, LeastMember
  <2>2. x # 0 /\ x - 1 \in Nat /\ x - 1 \in S
    BY <2>1
  <2> QED  BY <2>1, <2>2
<1> QED  BY <1>1, <1>2

(* What starts equal and stays equal at each step is equal at the end.      *)
LEMMA SameSteps ==
  ASSUME NEW g, NEW h, NEW l \in Nat, g[0] = h[0],
         \A k \in 1 .. l : g[k - 1] = h[k - 1] => g[k] = h[k]
  PROVE  g[l] = h[l]
<1> DEFINE S == {k \in Nat : k <= l => g[k] = h[k]}
<1>1. 0 \in S
  OBVIOUS
<1>2. ASSUME NEW k \in Nat, k \in S PROVE k + 1 \in S
  <2> SUFFICES ASSUME k + 1 <= l PROVE g[k + 1] = h[k + 1]
    OBVIOUS
  <2>1. k + 1 \in 1 .. l /\ k + 1 - 1 = k /\ k <= l
    OBVIOUS
  <2> QED  BY <1>2, <2>1
<1>3. Nat \subseteq S
  <2> HIDE DEF S
  <2> QED  BY <1>1, <1>2, SetInduction
<1> QED  BY <1>3

(* Induction over sequences that grow at their end.                         *)
LEMMA SeqInduction ==
  ASSUME NEW S, NEW P, <<>> \in P,
         \A s \in Seq(S), e \in S : s \in P => Append(s, e) \in P
  PROVE  Seq(S) \subseteq P
<1> DEFINE L == {n \in Nat : \A s \in Seq(S) : Len(s) = n => s \in P}
<1>1. 0 \in L
  <2>1. ASSUME NEW s \in Seq(S), Len(s) = 0 PROVE s = <<>>
    BY <2>1, EmptySeq
  <2> QED  BY <2>1
<1>2. ASSUME NEW n \in Nat, n \in L PROVE n + 1 \in L
  <2> SUFFICES ASSUME NEW s \in Seq(S), Len(s) = n + 1 PROVE s \in P
    OBVIOUS
  <2>1. s # <<>>
    BY EmptySeq
  <2>2. PICK t \in Seq(S), e \in S : s = Append(t, e)
    BY <2>1, SequenceEmptyOrAppend
  <2>3. Len(t) \in Nat /\ Len(s) = Len(t) + 1
    BY <2>2, AppendProperties, LenProperties
  <2>4. Len(t) = n
    BY <2>3
  <2> QED  BY <1>2, <2>2, <2>4
<1>3. Nat \subseteq L
  <2> HIDE DEF L
  <2> QED  BY <1>1, <1>2, SetInduction
<1> QED  BY <1>3, LenProperties

(* The elements of a sequence that grows at its end.                        *)
LEMMA ToSetAppend ==
  ASSUME NEW S, NEW s \in Seq(S), NEW e \in S
  PROVE  ToSet(Append(s, e)) = ToSet(s) \cup {e}
<1>1. /\ Len(s) \in Nat /\ DOMAIN s = 1 .. Len(s)
      /\ Append(s, e) \in Seq(S) /\ Len(Append(s, e)) = Len(s) + 1
      /\ \A i \in 1 .. Len(s) : Append(s, e)[i] = s[i]
      /\ Append(s, e)[Len(s) + 1] = e
  BY LenProperties, AppendProperties
<1>2. DOMAIN Append(s, e) = (1 .. Len(s)) \cup {Len(s) + 1}
  <2>1. DOMAIN Append(s, e) = 1 .. (Len(s) + 1)
    BY <1>1, LenProperties
  <2>2. \A l \in Nat : 1 .. (l + 1) = (1 .. l) \cup {l + 1}
    OBVIOUS
  <2> QED  BY <1>1, <2>1, <2>2
<1> DEFINE a == Append(s, e)
           l == Len(s)
<1>3. /\ DOMAIN a = (1 .. l) \cup {l + 1} /\ DOMAIN s = 1 .. l
      /\ \A i \in 1 .. l : a[i] = s[i]
      /\ a[l + 1] = e
  BY <1>1, <1>2
<1> HIDE DEF a, l
<1>4. ToSet(a) = ToSet(s) \cup {e}
  <2>1. ASSUME NEW x \in ToSet(a) PROVE x \in ToSet(s) \cup {e}
    BY <1>3 DEF ToSet
  <2>2. ASSUME NEW x \in ToSet(s) PROVE x \in ToSet(a)
    BY <1>3 DEF ToSet
  <2>3. e \in ToSet(a)
    BY <1>3 DEF ToSet
  <2> QED  BY <2>1, <2>2, <2>3
<1> QED  BY <1>4 DEF a

(* The elements of a sequence are its head and those of its tail.           *)
LEMMA ToSetTail ==
  ASSUME NEW S, NEW s \in Seq(S), s # <<>>
  PROVE  ToSet(s) = {Head(s)} \cup ToSet(Tail(s)) /\ Head(s) \in S /\ Tail(s) \in Seq(S)
<1> DEFINE l == Len(s)
           t == Tail(s)
<1>1. /\ l \in Nat \ {0} /\ DOMAIN s = 1 .. l
      /\ t \in Seq(S) /\ Len(t) = l - 1
      /\ \A i \in 1 .. Len(t) : t[i] = s[i + 1]
  BY LenProperties, EmptySeq, HeadTailProperties
<1>2. DOMAIN t = 1 .. (l - 1)
  BY <1>1, LenProperties
<1>3. Head(s) = s[1]
  OBVIOUS
<1> HIDE DEF l, t
<1>4. ASSUME NEW x \in ToSet(s) PROVE x = s[1] \/ x \in ToSet(t)
  <2>1. PICK i \in 1 .. l : x = s[i]
    BY <1>1 DEF ToSet
  <2>2. CASE i # 1
    <3>1. i - 1 \in 1 .. (l - 1) /\ i - 1 + 1 = i
      BY <1>1, <2>2
    <3>2. t[i - 1] = s[i]
      BY <1>1, <3>1
    <3> QED  BY <1>2, <2>1, <3>1, <3>2 DEF ToSet
  <2> QED  BY <2>1, <2>2
<1>5. ASSUME NEW x \in ToSet(t) PROVE x \in ToSet(s)
  <2>1. PICK i \in 1 .. (l - 1) : x = t[i]
    BY <1>2 DEF ToSet
  <2>2. i + 1 \in 1 .. l /\ t[i] = s[i + 1]
    BY <1>1, <2>1
  <2> QED  BY <1>1, <2>1, <2>2 DEF ToSet
<1>6. s[1] \in ToSet(s)
  BY <1>1 DEF ToSet
<1>7. ToSet(s) = {s[1]} \cup ToSet(t)
  BY <1>4, <1>5, <1>6
<1> QED  BY <1>3, <1>7, HeadTailProperties DEF t

(* A set of numbers up to m + 1 that is not one up to m has the largest     *)
(* member m + 1.                                                            *)
LEMMA LargestMember ==
  ASSUME NEW m \in Nat, NEW s \in SUBSET (1 .. m + 1), m + 1 \in s
  PROVE  Max(s) = m + 1
<1>1. \A y \in s : y \in Int /\ m + 1 >= y
  OBVIOUS
<1>2. ASSUME NEW x \in s, \A y \in s : x >= y PROVE x = m + 1
  <2>1. x >= m + 1 /\ m + 1 >= x /\ x \in Int
    BY <1>1, <1>2
  <2> QED  BY <2>1
<1>3. Max(s) \in s /\ \A y \in s : Max(s) >= y
  BY <1>1 DEF Max
<1> QED  BY <1>2, <1>3

LEMMA MaxOfInterval ==
  ASSUME NEW k \in Nat \ {0}
  PROVE  Max(1 .. k) = k
<1>1. k - 1 \in Nat /\ k - 1 + 1 = k /\ k \in 1 .. k
  OBVIOUS
<1> QED  BY <1>1, LargestMember

(* A nonempty set of numbers up to n has its maximum for a member.          *)
LEMMA MaxOfNumbers ==
  ASSUME NEW n \in Nat, NEW s \in SUBSET (1 .. n), s # {}
  PROVE  Max(s) \in s /\ \A y \in s : y <= Max(s)
<1> DEFINE T == {n - y : y \in s}
<1>1. T \subseteq Nat /\ T # {}
  <2>1. \A y \in s : n - y \in Nat
    OBVIOUS
  <2> QED  BY <2>1
<1>2. PICK t \in T : \A y \in T : t <= y
  <2> HIDE DEF T
  <2> QED  BY <1>1, LeastMember
<1>3. PICK x \in s : t = n - x
  OBVIOUS
<1>4. ASSUME NEW y \in s PROVE x >= y
  <2>1. n - x <= n - y
    BY <1>2, <1>3
  <2>2. x \in Int /\ y \in Int
    OBVIOUS
  <2> QED  BY <2>1, <2>2
<1>5. Max(s) \in s /\ \A y \in s : Max(s) >= y
  BY <1>4 DEF Max
<1> QED  BY <1>5

LEMMA MaxIs ==
  ASSUME NEW n \in Nat, NEW s \in SUBSET (1 .. n), NEW x \in s, \A y \in s : y <= x
  PROVE  Max(s) = x
<1>1. Max(s) \in s /\ \A y \in s : y <= Max(s)
  BY MaxOfNumbers
<1>2. Max(s) <= x /\ x <= Max(s)
  BY <1>1
<1>3. x \in Nat /\ Max(s) \in Nat
  <2>1. \A y \in s : y \in Nat
    OBVIOUS
  <2>2. Max(s) \in s
    BY <1>1
  <2> QED  BY <2>1, <2>2
<1> QED  BY <1>2, <1>3

(* f is the fold of the step function along the numbers up to n.            *)
IsFold(T, base, n, step, f) ==
  /\ f \in [SUBSET (1 .. n) -> T]
  /\ f[{}] = base
  /\ \A s \in SUBSET (1 .. n) :
       s # {} => f[s] = step[<<f[s \ {Max(s)}], Max(s)>>]

(* Folding along the numbers up to n with a step function has a result.     *)
LEMMA FoldExists ==
  ASSUME NEW T, NEW base \in T, NEW n \in Nat, NEW step \in [T \X (1 .. n) -> T]
  PROVE  \E f : IsFold(T, base, n, step, f)
<1> DEFINE Folds(m, f) == IsFold(T, base, m, step, f)
           S == {m \in Nat : m <= n => \E f : Folds(m, f)}
<1>1. 0 \in S
  <2> DEFINE f == [s \in SUBSET (1 .. 0) |-> base]
  <2>1. \A s \in SUBSET (1 .. 0) : s = {}
    OBVIOUS
  <2>2. {} \in SUBSET (1 .. 0)
    OBVIOUS
  <2>3. f \in [SUBSET (1 .. 0) -> T] /\ f[{}] = base
    BY <2>2
  <2> HIDE DEF f
  <2>4. Folds(0, f)
    BY <2>1, <2>3 DEF IsFold
  <2> QED  BY <2>4
<1>2. ASSUME NEW m \in Nat, m \in S, m + 1 <= n
      PROVE  \E f : Folds(m + 1, f)
  <2>1. PICK f : Folds(m, f)
    <3>1. m <= n
      BY <1>2
    <3> HIDE DEF Folds
    <3> QED  BY <1>2, <3>1
  <2> DEFINE Step(s) == step[<<f[s \ {m + 1}], m + 1>>]
             g == [s \in SUBSET (1 .. m + 1) |-> IF m + 1 \in s THEN Step(s) ELSE f[s]]
  <2>2. \A s \in SUBSET (1 .. m + 1) : m + 1 \notin s => s \in SUBSET (1 .. m)
    OBVIOUS
  <2>3. \A s \in SUBSET (1 .. m + 1) : s \ {m + 1} \in SUBSET (1 .. m)
    OBVIOUS
  <2>4. f \in [SUBSET (1 .. m) -> T] /\ f[{}] = base
    BY <2>1 DEF IsFold
  <2>5. \A s \in SUBSET (1 .. m) : s # {} => f[s] = step[<<f[s \ {Max(s)}], Max(s)>>]
    BY <2>1 DEF IsFold
  <2>6. ASSUME NEW s \in SUBSET (1 .. m + 1) PROVE Step(s) \in T
    <3>1. f[s \ {m + 1}] \in T /\ m + 1 \in 1 .. n
      BY <1>2, <2>3, <2>4
    <3> QED  BY <3>1
  <2> HIDE DEF Step
  <2>7. g \in [SUBSET (1 .. m + 1) -> T]
    BY <2>2, <2>4, <2>6
  <2>8. g[{}] = base
    <3>1. {} \in SUBSET (1 .. m + 1) /\ m + 1 \notin {}
      OBVIOUS
    <3> QED  BY <2>4, <3>1
  <2>9. ASSUME NEW s \in SUBSET (1 .. m + 1), s # {}
        PROVE  g[s] = step[<<g[s \ {Max(s)}], Max(s)>>]
    <3>1. CASE m + 1 \in s
      <4>1. Max(s) = m + 1
        BY <3>1, LargestMember
      <4>2. s \ {m + 1} \in SUBSET (1 .. m + 1) /\ m + 1 \notin s \ {m + 1}
        OBVIOUS
      <4>3. g[s \ {m + 1}] = f[s \ {m + 1}] /\ g[s] = Step(s)
        BY <3>1, <4>2
      <4> QED  BY <4>1, <4>3 DEF Step
    <3>2. CASE m + 1 \notin s
      <4>1. s \in SUBSET (1 .. m)
        BY <2>2, <3>2
      <4>2. s \ {Max(s)} \in SUBSET (1 .. m + 1) /\ m + 1 \notin s \ {Max(s)}
        BY <3>2
      <4>3. g[s] = f[s] /\ g[s \ {Max(s)}] = f[s \ {Max(s)}]
        BY <3>2, <4>2
      <4> QED  BY <2>5, <2>9, <4>1, <4>3
    <3> QED  BY <3>1, <3>2
  <2> HIDE DEF g
  <2>10. Folds(m + 1, g)
    BY <2>7, <2>8, <2>9 DEF IsFold
  <2> HIDE DEF Folds
  <2> QED  BY <2>10
<1> HIDE DEF Folds
<1>3. Nat \subseteq S
  <2>1. \A m \in Nat : m \in S => m + 1 \in S
    BY <1>2
  <2> HIDE DEF S
  <2> QED  BY <1>1, <2>1, SetInduction
<1>4. PICK f : Folds(n, f)
  BY <1>3
<1> QED  BY <1>4 DEF Folds

(* g has the results of a fold along 1, 2, ... n, of which iter is the last.*)
IsChain(T, base, n, step, iter, g) ==
  /\ g \in [0 .. n -> T]
  /\ g[0] = base /\ g[n] = iter[1 .. n]
  /\ \A k \in 1 .. n : g[k] = step[<<g[k - 1], k>>]

(* iter takes the step at the largest number of each set.                   *)
StepsDown(T, base, n, step, iter) ==
  /\ iter[{}] = base
  /\ \A s \in SUBSET (1 .. n) :
       s # {} /\ iter[s \ {Max(s)}] \in T
         => iter[s] = step[<<iter[s \ {Max(s)}], Max(s)>>]

LEMMA FoldChain ==
  ASSUME NEW T, NEW base \in T, NEW n \in Nat, NEW step \in [T \X (1 .. n) -> T],
         NEW iter, StepsDown(T, base, n, step, iter)
  PROVE  \E g : IsChain(T, base, n, step, iter, g)
<1> DEFINE S == {k \in Nat : k <= n => iter[1 .. k] \in T}
           g == [k \in 0 .. n |-> iter[1 .. k]]
<1>1. ASSUME NEW k \in 1 .. n, iter[1 .. (k - 1)] \in T
      PROVE  iter[1 .. k] = step[<<iter[1 .. (k - 1)], k>>]
  <2>1. k \in Nat \ {0} /\ k \in 1 .. k /\ 1 .. k \in SUBSET (1 .. n)
    OBVIOUS
  <2>2. Max(1 .. k) = k
    BY <2>1, MaxOfInterval
  <2>3. (1 .. k) \ {k} = 1 .. (k - 1)
    BY <2>1
  <2> QED  BY <1>1, <2>1, <2>2, <2>3 DEF StepsDown
<1>2. iter[1 .. 0] = base
  <2>1. 1 .. 0 = {}
    OBVIOUS
  <2> QED  BY <2>1 DEF StepsDown
<1>3. Nat \subseteq S
  <2>1. 0 \in S
    BY <1>2
  <2>2. ASSUME NEW k \in Nat, k \in S PROVE k + 1 \in S
    <3> SUFFICES ASSUME k + 1 <= n PROVE iter[1 .. (k + 1)] \in T
      OBVIOUS
    <3>1. k + 1 \in 1 .. n /\ k + 1 - 1 = k /\ k <= n
      OBVIOUS
    <3>2. iter[1 .. k] \in T
      BY <2>2, <3>1
    <3>3. iter[1 .. (k + 1)] = step[<<iter[1 .. k], k + 1>>]
      BY <1>1, <3>1, <3>2
    <3> QED  BY <3>1, <3>2, <3>3
  <2> HIDE DEF S
  <2> QED  BY <2>1, <2>2, SetInduction
<1>4. g \in [0 .. n -> T] /\ g[0] = base /\ g[n] = iter[1 .. n]
  BY <1>2, <1>3
<1>5. ASSUME NEW k \in 1 .. n PROVE g[k] = step[<<g[k - 1], k>>]
  <2>1. k \in 0 .. n /\ k - 1 \in 0 .. n
    OBVIOUS
  <2>2. g[k - 1] = iter[1 .. (k - 1)] /\ g[k] = iter[1 .. k] /\ g[k - 1] \in T
    BY <1>4, <2>1
  <2> QED  BY <1>1, <2>2
<1> HIDE DEF g
<1> QED  BY <1>4, <1>5 DEF IsChain

=============================================================================
