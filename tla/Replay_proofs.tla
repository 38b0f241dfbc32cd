---------------------------- MODULE Replay_proofs ----------------------------
(***************************************************************************)
(* deriveLifecycleFromLedger() on every ledger, however long: the loop     *)
(* returns what the last event with an effect says.  The induction over    *)
(* the events is by a least counterexample, of which a nonempty set of     *)
(* numbers always has one.  The same facts order the rows that a SELECT    *)
(* numbers.                                                                *)
(***************************************************************************)
EXTENDS LedgerReplay, FiniteSetTheorems, WellFoundedInduction, TLAPS

\* A nonempty set of numbers has a least element.
LEMMA LeastNumber ==
  ASSUME NEW S, S \subseteq Nat, S # {}
  PROVE  \E n \in S : \A m \in S : n <= m
<1>1. PICK n \in S : \A m \in S : ~(<<m, n>> \in OpToRel(<, Nat))
  BY NatLessThanWellFounded, WFMin
<1>2. \A m \in S : ~(m < n)
  BY <1>1 DEF OpToRel
<1> QED
  BY <1>2

\* And a greatest, if it has a bound.
LEMMA GreatestNumber ==
  ASSUME NEW S, S \subseteq Nat, S # {}, NEW b \in Nat, \A n \in S : n <= b
  PROVE  Max(S) \in S /\ \A n \in S : n <= Max(S)
<1>1. PICK T : T = { k \in Nat : \E n \in S : k = b - n }
  OBVIOUS
<1>2. T \subseteq Nat /\ T # {}
  <2>1. PICK n \in S : TRUE
    OBVIOUS
  <2>2. b - n \in Nat
    OBVIOUS
  <2> QED
    BY <1>1, <2>2
<1>3. PICK k \in T : \A j \in T : k <= j
  BY <1>2, LeastNumber
<1>4. PICK n \in S : k = b - n
  BY <1>1
<1>5. \A m \in S : m <= n
  <2> SUFFICES ASSUME NEW m \in S PROVE m <= n
    OBVIOUS
  <2>1. b - m \in T
    BY <1>1
  <2>2. b - n <= b - m
    BY <1>3, <1>4, <2>1
  <2> QED
    BY <2>2
<1>6. \E x \in S : \A y \in S : x >= y
  BY <1>5
<1>7. Max(S) \in S /\ \A y \in S : Max(S) >= y
  BY <1>6 DEF Max
<1> QED
  BY <1>7

\* Rows numbered by an order of theirs: row e has the number of the rows whose
\* key is not above its own.
RankBy(S, key) == [e \in S |-> Cardinality({ d \in S : key[d] <= key[e] })]

KeysDiffer(S, key) == key \in [S -> Int] /\ \A d, e \in S : key[d] = key[e] => d = e

\* Each number up to n belongs to one row, and a higher key has a higher number.
Numbering(S, key, rank, n) ==
  /\ n \in Nat
  /\ \A e \in S : rank[e] \in 1..n
  /\ \A i \in 1..n : \E e \in S : rank[e] = i
  /\ \A d, e \in S : key[d] < key[e] => rank[d] < rank[e]

LEMMA Ranking ==
  ASSUME NEW S, IsFiniteSet(S), NEW key, KeysDiffer(S, key)
  PROVE  Numbering(S, key, RankBy(S, key), Cardinality(S))
<1>0. PICK rank : rank = [e \in S |-> Cardinality({ d \in S : key[d] <= key[e] })]
  OBVIOUS
<1>1. PICK n : n = Cardinality(S)
  OBVIOUS
<1>2. n \in Nat
  BY <1>1, FS_CardinalityType
<1>3. PICK below : below = [e \in S |-> { d \in S : key[d] <= key[e] }]
  OBVIOUS
<1>4. ASSUME NEW e \in S
      PROVE  /\ below[e] \subseteq S /\ e \in below[e] /\ IsFiniteSet(below[e])
             /\ rank[e] = Cardinality(below[e]) /\ rank[e] \in 1..n
  <2>1. below[e] \subseteq S /\ e \in below[e]
    BY <1>3 DEF KeysDiffer
  <2>2. IsFiniteSet(below[e]) /\ Cardinality(below[e]) <= n /\ Cardinality(below[e]) \in Nat
    BY <1>1, <2>1, FS_Subset, FS_CardinalityType
  <2>3. Cardinality(below[e]) # 0
    BY <2>1, <2>2, FS_EmptySet
  <2>4. rank[e] = Cardinality(below[e])
    BY <1>0, <1>3
  <2> QED
    BY <1>2, <2>1, <2>2, <2>3, <2>4
<1>5. ASSUME NEW d \in S, NEW e \in S, key[d] < key[e] PROVE rank[d] < rank[e]
  <2>1. below[d] \subseteq below[e] /\ below[d] # below[e]
    <3>1. e \in below[e] /\ e \notin below[d]
      BY <1>3, <1>5 DEF KeysDiffer
    <3>2. below[d] \subseteq below[e]
      BY <1>3, <1>5 DEF KeysDiffer
    <3> QED
      BY <3>1, <3>2
  <2>2. Cardinality(below[d]) <= Cardinality(below[e]) /\ Cardinality(below[d]) # Cardinality(below[e])
    BY <1>4, <2>1, FS_Subset
  <2>3. rank[d] <= rank[e] /\ rank[d] # rank[e]
    BY <1>4, <2>2
  <2>4. rank[d] \in Int /\ rank[e] \in Int
    BY <1>2, <1>4
  <2> QED
    BY <2>3, <2>4
<1>6. rank \in Injection(S, 1..n)
  <2>1. rank \in [S -> 1..n]
    BY <1>0, <1>4
  <2>2. ASSUME NEW d \in S, NEW e \in S, rank[d] = rank[e] PROVE d = e
    <3>1. key[d] < key[e] \/ key[e] < key[d] \/ d = e
      BY DEF KeysDiffer
    <3>2. rank[d] \in Int /\ rank[e] \in Int
      BY <1>2, <1>4
    <3> QED
      BY <1>5, <2>2, <3>1, <3>2
  <2> QED
    BY <2>1, <2>2 DEF Injection, IsInjective
<1>7. IsFiniteSet(1..n) /\ Cardinality(1..n) = n
  BY <1>2, FS_Interval
<1>8. rank \in Surjection(S, 1..n)
  BY <1>1, <1>6, <1>7, FS_Injection
<1> QED
  BY <1>0, <1>1, <1>2, <1>4, <1>5, <1>8 DEF Surjection, Numbering, RankBy

(***************************************************************************)
(* The loop as an equation: iter[s] is what the turns for the events of s, *)
(* taken in their order, make of the lifecycle.                            *)
(***************************************************************************)
Turns(events, iter) ==
  iter = [s \in SUBSET DOMAIN events |->
            IF s = {} THEN "INTAKE" ELSE Apply(events[Max(s)], iter[s \ {Max(s)}])]

LEMMA LoopUnfolds ==
  ASSUME NEW events
  PROVE  deriveLifecycleFromLedger(events) = (CHOOSE iter : Turns(events, iter))[DOMAIN events]
BY DEF deriveLifecycleFromLedger, FoldLeft, MapThenFoldSet, Turns

\* The events among s that have an effect.
Effective(events, s) == { i \in s : events[i] \in DOMAIN ReplayEffect }

\* What the last of them says.
ByLast(events, s) ==
  IF Effective(events, s) = {} THEN "INTAKE" ELSE ReplayEffect[events[Max(Effective(events, s))]]

\* One more turn: the last event has an effect, or those before it decide.
LEMMA LastTurn ==
  ASSUME NEW events, NEW n \in Nat, NEW s, s \subseteq 1..n, s # {}
  PROVE  ByLast(events, s) = Apply(events[Max(s)], ByLast(events, s \ {Max(s)}))
<1>1. PICK top : top = Max(s)
  OBVIOUS
<1>2. top \in s /\ \A i \in s : i <= top
  <2>1. s \subseteq Nat /\ \A i \in s : i <= n
    OBVIOUS
  <2> QED
    BY <1>1, <2>1, GreatestNumber
<1>3. CASE events[top] \in DOMAIN ReplayEffect
  <2>1. top \in Effective(events, s)
    BY <1>2, <1>3 DEF Effective
  <2>2. Max(Effective(events, s)) = top
    <3>1. PICK E : E = Effective(events, s)
      OBVIOUS
    <3>2. E \subseteq Nat /\ E # {} /\ (\A i \in E : i <= n) /\ (\A i \in E : i <= top)
      <4>1. \A i \in s : i \in Nat /\ i <= n
        OBVIOUS
      <4>2. E \subseteq s /\ E # {}
        BY <2>1, <3>1 DEF Effective
      <4> QED
        BY <1>2, <4>1, <4>2
    <3>3. Max(E) \in E /\ \A i \in E : i <= Max(E)
      BY <3>2, GreatestNumber
    <3>4. top <= Max(E) /\ Max(E) <= top /\ top \in Nat /\ Max(E) \in Nat
      BY <1>2, <2>1, <3>1, <3>2, <3>3
    <3> QED
      BY <3>1, <3>4
  <2> QED
    BY <1>1, <1>3, <2>1, <2>2 DEF ByLast, Apply
<1>4. CASE events[top] \notin DOMAIN ReplayEffect
  <2>1. Effective(events, s \ {top}) = Effective(events, s)
    BY <1>4 DEF Effective
  <2> QED
    BY <1>1, <1>4, <2>1 DEF ByLast, Apply
<1> QED
  BY <1>3, <1>4

(***************************************************************************)
(* deriveLifecycleFromLedger() of any sequence of events: the last one     *)
(* that the switch has an arm for decides, and INTAKE without any.         *)
(***************************************************************************)
THEOREM ReplayByLastEffect ==
  ASSUME NEW events, NEW n \in Nat, DOMAIN events = 1..n
  PROVE  deriveLifecycleFromLedger(events) = ByLast(events, 1..n)
<1>1. PICK closed : closed = [s \in SUBSET (1..n) |-> ByLast(events, s)]
  OBVIOUS
<1>2. Turns(events, closed)
  <2>1. ASSUME NEW s \in SUBSET (1..n)
        PROVE  closed[s] = IF s = {} THEN "INTAKE" ELSE Apply(events[Max(s)], closed[s \ {Max(s)}])
    <3>1. CASE s = {}
      BY <1>1, <3>1 DEF ByLast, Effective
    <3>2. CASE s # {}
      <4>1. closed[s] = Apply(events[Max(s)], ByLast(events, s \ {Max(s)}))
        BY <1>1, <3>2, LastTurn
      <4>2. closed[s \ {Max(s)}] = ByLast(events, s \ {Max(s)})
        BY <1>1
      <4> QED
        BY <3>2, <4>1, <4>2
    <3> QED
      BY <3>1, <3>2
  <2>2. closed = [s \in SUBSET DOMAIN events |->
                    IF s = {} THEN "INTAKE" ELSE Apply(events[Max(s)], closed[s \ {Max(s)}])]
    BY <1>1, <2>1
  <2> QED
    BY <2>2 DEF Turns
<1>3. PICK iter : iter = CHOOSE f : Turns(events, f)
  OBVIOUS
<1>4. Turns(events, iter)
  BY <1>2, <1>3
<1>5. \A s \in SUBSET (1..n) :
        iter[s] = IF s = {} THEN "INTAKE" ELSE Apply(events[Max(s)], iter[s \ {Max(s)}])
  BY <1>4 DEF Turns
<1>6. PICK wrong : wrong = { k \in 0..n : iter[1..k] # ByLast(events, 1..k) }
  OBVIOUS
<1>7. wrong = {}
  <2> SUFFICES ASSUME wrong # {} PROVE FALSE
    OBVIOUS
  <2>0. wrong \subseteq Nat
    BY <1>6
  <2>1. PICK k \in wrong : \A j \in wrong : k <= j
    BY <2>0, LeastNumber
  <2>2. k \in 0..n /\ iter[1..k] # ByLast(events, 1..k)
    BY <1>6
  <2>3. CASE k = 0
    <3>1. 1..k = {}
      BY <2>3
    <3> QED
      BY <1>5, <2>2, <3>1 DEF ByLast, Effective
  <2>4. CASE k # 0
    <3>1. k - 1 \in 0..n /\ k - 1 \notin wrong
      BY <2>1, <2>2, <2>4
    <3>2. iter[1..(k - 1)] = ByLast(events, 1..(k - 1))
      BY <1>6, <3>1
    <3>3. Max(1..k) = k
      <4>1. PICK first : first = 1..k
        OBVIOUS
      <4>2. first \subseteq Nat /\ first # {} /\ k \in Nat /\ \A i \in first : i <= k
        BY <2>2, <2>4, <4>1
      <4>3. Max(first) \in first /\ \A i \in first : i <= Max(first)
        BY <4>2, GreatestNumber
      <4>4. k \in first
        BY <2>2, <2>4, <4>1
      <4> QED
        BY <2>2, <4>1, <4>3, <4>4
    <3>4. (1..k) \ {k} = 1..(k - 1)
      BY <2>2, <2>4
    <3>5. 1..k \in SUBSET (1..n) /\ 1..k # {}
      BY <2>2, <2>4
    <3>6. iter[1..k] = Apply(events[k], iter[1..(k - 1)])
      BY <1>5, <3>3, <3>4, <3>5
    <3>7. ByLast(events, 1..k) = Apply(events[k], ByLast(events, 1..(k - 1)))
      BY <3>3, <3>4, <3>5, LastTurn
    <3> QED
      BY <2>2, <3>2, <3>6, <3>7
  <2> QED
    BY <2>3, <2>4
<1>8. iter[1..n] = ByLast(events, 1..n)
  BY <1>6, <1>7
<1> QED
  BY <1>3, <1>8, LoopUnfolds
=============================================================================
