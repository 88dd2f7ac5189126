--------------------------- MODULE SlotPoolProofs ---------------------------
(***************************************************************************)
(* Proofs about SlotPool and Schedule, for every pool, every unit and      *)
(* every cascade: whose schedule a slot's region holds, what a checkpoint  *)
(* is an anneal of, when an observed unit is read, and how device time is  *)
(* divided.                                                                *)
(*                                                                         *)
(* A schedule is as long as its cascade has rungs, so its facts need       *)
(* induction over data.  It is had here as the least counterexample: a     *)
(* set of natural numbers that is not empty has a least member.            *)
(***************************************************************************)
EXTENDS SlotPool, FiniteSetTheorems, SequenceTheorems, WellFoundedInduction, TLAPS

(* A set of natural numbers has a least member.                            *)
LEMMA LeastNat ==
  ASSUME NEW T \in SUBSET Nat, T # {}
  PROVE  \E m \in T : \A n \in T : m <= n
<1> DEFINE R == OpToRel(<, Nat)
<1>1. IsWellFoundedOn(R, Nat)
  BY NatLessThanWellFounded
<1>2. R = {ss \in Nat \X Nat : ss[1] < ss[2]}
  BY DEF OpToRel
<1> HIDE DEF R
<1>3. PICK m \in T : \A n \in T : <<n, m>> \notin R
  BY <1>1, WFMin
<1>4. \A n \in T : ~(n < m)
  BY <1>2, <1>3
<1> QED BY <1>3, <1>4

-----------------------------------------------------------------------------
(* Sums over finite sets *)

One(s) == CHOOSE x \in s : TRUE
Sums(iter, f, S) ==
  iter = [s \in SUBSET S |-> IF s = {} THEN 0 ELSE f[One(s)] + iter[s \ {One(s)}]]

LEMMA SumsAt ==
  ASSUME NEW S, NEW f, NEW g, Sums(g, f, S)
  PROVE  /\ g[{}] = 0
         /\ \A s \in SUBSET S : s # {} => g[s] = f[One(s)] + g[s \ {One(s)}]
<1> DEFINE h == [s \in SUBSET S |-> IF s = {} THEN 0 ELSE f[One(s)] + g[s \ {One(s)}]]
<1>1. g = h
  BY DEF Sums
<1>2. /\ h[{}] = 0
      /\ \A s \in SUBSET S : s # {} => h[s] = f[One(s)] + g[s \ {One(s)}]
  OBVIOUS
<1> HIDE DEF h
<1> QED BY <1>1, <1>2

LEMMA OneIn ==
  ASSUME NEW s, s # {}
  PROVE  One(s) \in s
BY DEF One

(* A least finite set for which something fails.                           *)
LEMMA LeastSet ==
  ASSUME NEW S, IsFiniteSet(S), NEW B \in SUBSET SUBSET S, B # {}
  PROVE  \E s \in B : \A t \in B : Cardinality(s) <= Cardinality(t)
<1> DEFINE T == {Cardinality(s) : s \in B}
<1>1. T \in SUBSET Nat /\ T # {}
  BY FS_Subset, FS_CardinalityType
<1>2. PICK m \in T : \A n \in T : m <= n
  <2> HIDE DEF T
  <2> QED BY <1>1, LeastNat
<1> QED BY <1>2

LEMMA SumsUnique ==
  ASSUME NEW S, IsFiniteSet(S), NEW R \in SUBSET S, NEW f, NEW g, NEW h, Sums(g, f, S), Sums(h, f, R)
  PROVE  \A s \in SUBSET R : g[s] = h[s]
<1> DEFINE B == {s \in SUBSET R : g[s] # h[s]}
<1> SUFFICES ASSUME B # {} PROVE FALSE
  OBVIOUS
<1>1. PICK s \in B : \A t \in B : Cardinality(s) <= Cardinality(t)
  <2>1. B \in SUBSET SUBSET S
    OBVIOUS
  <2> HIDE DEF B
  <2> QED BY <2>1, LeastSet
<1>2. s # {}
  BY SumsAt
<1>3. One(s) \in s /\ s \in SUBSET S /\ s \in SUBSET R
  BY <1>2, OneIn
<1>4. IsFiniteSet(s) /\ Cardinality(s \ {One(s)}) < Cardinality(s)
  BY <1>3, FS_Subset, FS_RemoveElement, FS_CardinalityType
<1>5. g[s \ {One(s)}] = h[s \ {One(s)}]
  BY <1>1, <1>3, <1>4, FS_Subset, FS_CardinalityType
<1>6. g[s] = f[One(s)] + g[s \ {One(s)}]
  <2>1. \A t \in SUBSET S : t # {} => g[t] = f[One(t)] + g[t \ {One(t)}]
    BY SumsAt
  <2> QED BY <1>2, <1>3, <2>1
<1>7. h[s] = f[One(s)] + h[s \ {One(s)}]
  <2>1. \A t \in SUBSET R : t # {} => h[t] = f[One(t)] + h[t \ {One(t)}]
    BY SumsAt
  <2> QED BY <1>2, <1>3, <2>1
<1> QED BY <1>1, <1>5, <1>6, <1>7

LEMMA SumsExist ==
  ASSUME NEW S, IsFiniteSet(S), NEW f, \A x \in S : f[x] \in Nat
  PROVE  \E g : Sums(g, f, S) /\ \A s \in SUBSET S : g[s] \in Nat
<1> DEFINE Upto(n) == {s \in SUBSET S : Cardinality(s) <= n}
           Eqn(g, n) == /\ g \in [Upto(n) -> Nat]
                        /\ \A s \in Upto(n) : g[s] = IF s = {} THEN 0 ELSE f[One(s)] + g[s \ {One(s)}]
           T == {n \in Nat : ~\E g : Eqn(g, n)}
<1>0. \A s \in SUBSET S : Cardinality(s) \in Nat /\ IsFiniteSet(s)
  BY FS_Subset, FS_CardinalityType
<1>1. \A n \in Nat : \A s \in Upto(n) : s # {} => One(s) \in s /\ f[One(s)] \in Nat /\ s \ {One(s)} \in Upto(n)
         /\ \A m \in Nat : n = m + 1 => s \ {One(s)} \in Upto(m)
  BY <1>0, OneIn, FS_RemoveElement
<1>2. T = {}
  <2> SUFFICES ASSUME T # {} PROVE FALSE
    OBVIOUS
  <2>1. PICK n \in T : \A m \in T : n <= m
    <3>1. T \in SUBSET Nat
      OBVIOUS
    <3> HIDE DEF T
    <3> QED BY <3>1, LeastNat
  <2>2. CASE n = 0
    <3> DEFINE g == [s \in Upto(0) |-> 0]
    <3>1. \A s \in Upto(0) : s = {}
      BY <1>0, FS_EmptySet
    <3>2. Eqn(g, 0)
      BY <3>1
    <3> QED BY <2>1, <2>2, <3>2
  <2>3. CASE n # 0
    <3>1. n - 1 \in Nat /\ n - 1 \notin T /\ n = (n - 1) + 1
      <4>1. n \in Nat
        BY <2>1
      <4> HIDE DEF T
      <4> QED BY <4>1, <2>1, <2>3
    <3>2. PICK h : Eqn(h, n - 1)
      BY <3>1
    <3> DEFINE g == [s \in Upto(n) |-> IF s = {} THEN 0 ELSE f[One(s)] + h[s \ {One(s)}]]
    <3>3. \A s \in Upto(n) : s # {} => s \ {One(s)} \in Upto(n - 1) /\ s \ {One(s)} \in Upto(n)
      BY <1>1, <3>1
    <3>4. \A s \in Upto(n - 1) : s \in Upto(n) /\ g[s] = h[s]
      <4> TAKE s \in Upto(n - 1)
      <4>1. s \in Upto(n)
        BY <1>0, <3>1
      <4>2. h[s] = IF s = {} THEN 0 ELSE f[One(s)] + h[s \ {One(s)}]
        BY <3>2
      <4> QED BY <4>1, <4>2
    <3>5. \A s \in Upto(n) : g[s] \in Nat
      <4> TAKE s \in Upto(n)
      <4>1. CASE s = {}
        BY <4>1
      <4>2. CASE s # {}
        <5>1. f[One(s)] \in Nat /\ h[s \ {One(s)}] \in Nat
          BY <4>2, <1>1, <3>1, <3>2, <3>3
        <5> QED BY <4>2, <5>1
      <4> QED BY <4>1, <4>2
    <3>6. \A s \in Upto(n) : g[s] = IF s = {} THEN 0 ELSE f[One(s)] + g[s \ {One(s)}]
      BY <3>3, <3>4
    <3>7. Eqn(g, n)
      <4>1. g \in [Upto(n) -> Nat]
        <5>1. g = [s \in Upto(n) |-> g[s]]
          OBVIOUS
        <5> HIDE DEF g
        <5> QED BY <5>1, <3>5
      <4> HIDE DEF g
      <4> QED BY <4>1, <3>5, <3>6
    <3> QED BY <3>7, <2>1
  <2> QED BY <2>2, <2>3
<1>3. PICK g : Eqn(g, Cardinality(S))
  BY <1>0, <1>2
<1>4. Upto(Cardinality(S)) = SUBSET S
  BY FS_Subset, <1>0
<1>5. /\ g \in [SUBSET S -> Nat]
      /\ \A s \in SUBSET S : g[s] = IF s = {} THEN 0 ELSE f[One(s)] + g[s \ {One(s)}]
  BY <1>3, <1>4
<1>6. g = [s \in SUBSET S |-> IF s = {} THEN 0 ELSE f[One(s)] + g[s \ {One(s)}]]
  <2> DEFINE h == [s \in SUBSET S |-> IF s = {} THEN 0 ELSE f[One(s)] + g[s \ {One(s)}]]
  <2>1. /\ DOMAIN h = SUBSET S /\ h = [s \in SUBSET S |-> h[s]]
        /\ \A s \in SUBSET S : h[s] = IF s = {} THEN 0 ELSE f[One(s)] + g[s \ {One(s)}]
    OBVIOUS
  <2>2. g = [s \in SUBSET S |-> g[s]]
    BY <1>5
  <2>3. \A s \in SUBSET S : g[s] = h[s]
    BY <1>5, <2>1
  <2> HIDE DEF h
  <2>4. g = h
    BY <2>1, <2>2, <2>3
  <2> QED BY <2>4 DEF h
<1> QED BY <1>5, <1>6 DEF Sums

LEMMA SumIs ==
  ASSUME NEW S, IsFiniteSet(S), NEW f, NEW g, Sums(g, f, S)
  PROVE  SumFunctionOnSet(f, S) = g[S]
<1> DEFINE h == CHOOSE h : Sums(h, f, S)
<1>1. Sums(h, f, S)
  OBVIOUS
<1>2. SumFunctionOnSet(f, S) = h[S]
  BY DEF SumFunctionOnSet, FoldFunctionOnSet, MapThenFoldSet, Sums, One
<1> HIDE DEF h
<1> QED BY <1>1, <1>2, SumsUnique

Total(f, S) == SumFunctionOnSet(f, S)

TotalBy(g, f, S) ==
  /\ \A s \in SUBSET S : g[s] \in Nat /\ Total(f, s) = g[s]
  /\ g[{}] = 0
  /\ \A s \in SUBSET S : s # {} => g[s] = f[One(s)] + g[s \ {One(s)}]

LEMMA TotalIs ==
  ASSUME NEW S, IsFiniteSet(S), NEW f, \A x \in S : f[x] \in Nat
  PROVE  \E g : TotalBy(g, f, S)
<1>1. PICK g : Sums(g, f, S) /\ \A s \in SUBSET S : g[s] \in Nat
  BY SumsExist
<1>2. \A s \in SUBSET S : Total(f, s) = g[s]
  <2> TAKE s \in SUBSET S
  <2>1. IsFiniteSet(s)
    BY FS_Subset
  <2>2. PICK h : Sums(h, f, s)
    <3>1. \A x \in s : f[x] \in Nat
      OBVIOUS
    <3> QED BY <2>1, <3>1, SumsExist
  <2>3. Total(f, s) = h[s]
    BY <2>1, <2>2, SumIs DEF Total
  <2>4. \A t \in SUBSET s : g[t] = h[t]
    BY <1>1, <2>2, SumsUnique
  <2> QED BY <2>3, <2>4
<1>3. g[{}] = 0 /\ \A s \in SUBSET S : s # {} => g[s] = f[One(s)] + g[s \ {One(s)}]
  BY <1>1, SumsAt
<1>4. \A s \in SUBSET S : g[s] \in Nat /\ Total(f, s) = g[s]
  BY <1>1, <1>2
<1> QED BY <1>3, <1>4 DEF TotalBy

LEMMA TotalTakes ==
  ASSUME NEW S, IsFiniteSet(S), NEW f, \A x \in S : f[x] \in Nat
  PROVE  /\ Total(f, S) \in Nat
         /\ Total(f, {}) = 0
         /\ \A x \in S : Total(f, S) = f[x] + Total(f, S \ {x})
<1>0. PICK g : TotalBy(g, f, S)
  BY TotalIs
<1>1. /\ \A s \in SUBSET S : g[s] \in Nat /\ Total(f, s) = g[s]
      /\ g[{}] = 0
      /\ \A s \in SUBSET S : s # {} => g[s] = f[One(s)] + g[s \ {One(s)}]
  BY <1>0 DEF TotalBy
<1> DEFINE B == {s \in SUBSET S : \E x \in s : g[s] # f[x] + g[s \ {x}]}
<1>2. B = {}
  <2> SUFFICES ASSUME B # {} PROVE FALSE
    OBVIOUS
  <2>1. PICK s \in B : \A t \in B : Cardinality(s) <= Cardinality(t)
    <3>1. B \in SUBSET SUBSET S
      OBVIOUS
    <3> HIDE DEF B
    <3> QED BY <3>1, LeastSet
  <2>2. PICK x \in s : g[s] # f[x] + g[s \ {x}]
    OBVIOUS
  <2> DEFINE y == One(s)
  <2>3. y \in s /\ s \in SUBSET S
    BY <2>2, OneIn
  <2>4. g[s] = f[y] + g[s \ {y}] /\ x # y
    BY <1>1, <2>2, <2>3
  <2>5. \A z \in s : s \ {z} \in SUBSET S /\ s \ {z} \notin B
    <3> TAKE z \in s
    <3>1. IsFiniteSet(s) /\ Cardinality(s) \in Nat /\ Cardinality(s \ {z}) = Cardinality(s) - 1
      BY <2>3, FS_Subset, FS_RemoveElement, FS_CardinalityType
    <3>2. s \ {z} \in SUBSET S
      BY <2>3
    <3> HIDE DEF B
    <3> QED BY <2>1, <3>1, <3>2
  <2> HIDE DEF y
  <2>6. g[s \ {y}] = f[x] + g[(s \ {y}) \ {x}]
    BY <2>2, <2>3, <2>4, <2>5
  <2>7. g[s \ {x}] = f[y] + g[(s \ {x}) \ {y}]
    BY <2>2, <2>3, <2>4, <2>5
  <2>8. (s \ {y}) \ {x} = (s \ {x}) \ {y}
    OBVIOUS
  <2>9. f[x] \in Nat /\ f[y] \in Nat /\ g[(s \ {x}) \ {y}] \in Nat
    BY <1>1, <2>2, <2>3
  <2>10. g[s] = f[x] + g[s \ {x}]
    <3> DEFINE G == g[(s \ {x}) \ {y}]
    <3>1. /\ G \in Nat /\ g[s] = f[y] + g[s \ {y}] /\ g[s \ {y}] = f[x] + G
          /\ g[s \ {x}] = f[y] + G
      BY <2>4, <2>6, <2>7, <2>8, <2>9
    <3> HIDE DEF G
    <3> QED BY <3>1, <2>9
  <2> QED BY <2>2, <2>10
<1>3. \A x \in S : g[S] = f[x] + g[S \ {x}]
  BY <1>2
<1> QED BY <1>1, <1>3

LEMMA TotalPlus ==
  ASSUME NEW S, IsFiniteSet(S), NEW f, NEW e, NEW h,
         \A x \in S : f[x] \in Nat /\ e[x] \in Nat /\ h[x] = f[x] + e[x]
  PROVE  Total(h, S) = Total(f, S) + Total(e, S)
<1> DEFINE B == {s \in SUBSET S : Total(h, s) # Total(f, s) + Total(e, s)}
<1> SUFFICES ASSUME B # {} PROVE FALSE
  OBVIOUS
<1>1. PICK s \in B : \A t \in B : Cardinality(s) <= Cardinality(t)
  <2>1. B \in SUBSET SUBSET S
    OBVIOUS
  <2> HIDE DEF B
  <2> QED BY <2>1, LeastSet
<1>2. s \in SUBSET S /\ IsFiniteSet(s)
  BY FS_Subset
<1>3. \A x \in s : f[x] \in Nat /\ e[x] \in Nat /\ h[x] \in Nat /\ h[x] = f[x] + e[x]
  BY <1>2
<1>4. /\ Total(f, {}) = 0 /\ \A x \in s : Total(f, s) = f[x] + Total(f, s \ {x})
  BY <1>2, <1>3, TotalTakes
<1>5. /\ Total(e, {}) = 0 /\ \A x \in s : Total(e, s) = e[x] + Total(e, s \ {x})
  BY <1>2, <1>3, TotalTakes
<1>6. /\ Total(h, {}) = 0 /\ \A x \in s : Total(h, s) = h[x] + Total(h, s \ {x})
  BY <1>2, <1>3, TotalTakes
<1>7. PICK x \in s : TRUE
  <2>1. s # {}
    <3>1. Total(h, {}) = Total(f, {}) + Total(e, {})
      BY <1>4, <1>5, <1>6
    <3>2. Total(h, s) # Total(f, s) + Total(e, s)
      OBVIOUS
    <3> QED BY <3>1, <3>2
  <2> QED BY <2>1
<1>8. Total(h, s \ {x}) = Total(f, s \ {x}) + Total(e, s \ {x})
  <2>1. Cardinality(s) \in Nat /\ Cardinality(s \ {x}) = Cardinality(s) - 1
    BY <1>2, <1>7, FS_RemoveElement, FS_CardinalityType
  <2>2. s \ {x} \in SUBSET S /\ s \ {x} \notin B
    <3>1. s \ {x} \in SUBSET S
      BY <1>2
    <3> HIDE DEF B
    <3> QED BY <1>1, <2>1, <3>1
  <2> QED BY <2>2
<1>9. Total(f, s \ {x}) \in Nat /\ Total(e, s \ {x}) \in Nat
  <2>1. IsFiniteSet(s \ {x}) /\ \A y \in s \ {x} : f[y] \in Nat /\ e[y] \in Nat
    BY <1>2, <1>3, FS_Subset
  <2> QED BY <2>1, TotalTakes
<1>10. Total(h, s) = Total(f, s) + Total(e, s)
  <2> DEFINE F == Total(f, s \ {x})
             E == Total(e, s \ {x})
  <2>1. /\ Total(f, s) = f[x] + F /\ Total(e, s) = e[x] + E /\ Total(h, s) = (f[x] + e[x]) + (F + E)
        /\ F \in Nat /\ E \in Nat /\ f[x] \in Nat /\ e[x] \in Nat
    BY <1>3, <1>4, <1>5, <1>6, <1>7, <1>8, <1>9
  <2> HIDE DEF F, E
  <2> QED BY <2>1
<1> QED BY <1>10

LEMMA TotalSame ==
  ASSUME NEW S, IsFiniteSet(S), NEW f, NEW h, \A x \in S : f[x] \in Nat /\ h[x] = f[x]
  PROVE  Total(h, S) = Total(f, S)
<1> DEFINE e == [x \in S |-> 0]
           B == {s \in SUBSET S : Total(e, s) # 0}
<1>1. Total(e, S) = 0
  <2> SUFFICES ASSUME B # {} PROVE FALSE
    OBVIOUS
  <2>1. PICK s \in B : \A t \in B : Cardinality(s) <= Cardinality(t)
    <3>1. B \in SUBSET SUBSET S
      OBVIOUS
    <3> HIDE DEF B
    <3> QED BY <3>1, LeastSet
  <2>2. s \in SUBSET S /\ IsFiniteSet(s) /\ \A x \in s : e[x] \in Nat /\ e[x] = 0
    BY FS_Subset
  <2> HIDE DEF e
  <2>3. Total(e, {}) = 0 /\ \A x \in s : Total(e, s) = e[x] + Total(e, s \ {x})
    BY <2>2, TotalTakes
  <2>4. PICK x : x \in s
    BY <2>3
  <2>5. Total(e, s \ {x}) = 0
    <3>1. Cardinality(s) \in Nat /\ Cardinality(s \ {x}) = Cardinality(s) - 1
      BY <2>2, <2>4, FS_RemoveElement, FS_CardinalityType
    <3>2. s \ {x} \in SUBSET S /\ s \ {x} \notin B
      <4>1. s \ {x} \in SUBSET S
        BY <2>2
      <4> HIDE DEF B
      <4> QED BY <2>1, <3>1, <4>1
    <3> QED BY <3>2
  <2> QED BY <2>2, <2>3, <2>4, <2>5
<1>2. \A x \in S : f[x] \in Nat /\ e[x] \in Nat /\ h[x] = f[x] + e[x]
  OBVIOUS
<1> HIDE DEF e
<1>3. Total(h, S) = Total(f, S) + Total(e, S)
  BY <1>2, TotalPlus
<1>4. Total(f, S) \in Nat
  BY TotalTakes
<1> QED BY <1>1, <1>3, <1>4

(* Shares of q, and one more for the first r: what they come to.           *)
Rank(S, x) == Cardinality({t \in S : t <= x})
PartsOf(e, S, q, r) == \A x \in S : e[x] = q + (IF Rank(S, x) <= r THEN 1 ELSE 0)

LEMMA GreatestOf ==
  ASSUME NEW n \in Nat, NEW S \in SUBSET (1 .. n), S # {}
  PROVE  \E x \in S : \A y \in S : y <= x
<1> DEFINE T == {n - y : y \in S}
<1>1. T \in SUBSET Nat /\ T # {}
  <2>1. \A y \in S : n - y \in Nat
    OBVIOUS
  <2>2. PICK y \in S : TRUE
    OBVIOUS
  <2> QED BY <2>1, <2>2
<1>2. PICK m \in T : \A k \in T : m <= k
  <2> HIDE DEF T
  <2> QED BY <1>1, LeastNat
<1>3. PICK x \in S : m = n - x
  OBVIOUS
<1>4. \A y \in S : n - x <= n - y
  BY <1>2, <1>3
<1>5. \A y \in S : y \in Int /\ x \in Int
  BY <1>3
<1> QED BY <1>3, <1>4, <1>5

LEMMA TotalShares ==
  ASSUME NEW n \in Nat, NEW S \in SUBSET (1 .. n), NEW q \in Nat, NEW r \in Nat,
         NEW e, PartsOf(e, S, q, r)
  PROVE  Total(e, S) = Cardinality(S) * q + (IF Cardinality(S) <= r THEN Cardinality(S) ELSE r)
<1> DEFINE Whole(k) == k * q + (IF k <= r THEN k ELSE r)
           B == {s \in SUBSET (1 .. n) : \E d : PartsOf(d, s, q, r)
                   /\ Total(d, s) # Whole(Cardinality(s))}
<1>0. IsFiniteSet(1 .. n)
  BY FS_Interval
<1> SUFFICES ASSUME B # {} PROVE FALSE
  OBVIOUS
<1>1. PICK s \in B : \A t \in B : Cardinality(s) <= Cardinality(t)
  <2>1. B \in SUBSET SUBSET (1 .. n)
    OBVIOUS
  <2> HIDE DEF B
  <2> QED BY <1>0, <2>1, LeastSet
<1>2. PICK d : PartsOf(d, s, q, r) /\ Total(d, s) # Whole(Cardinality(s))
  OBVIOUS
<1>3. s \in SUBSET (1 .. n) /\ IsFiniteSet(s) /\ Cardinality(s) \in Nat
  BY <1>0, FS_Subset, FS_CardinalityType
<1>4. \A x \in s : d[x] \in Nat
  BY <1>2 DEF PartsOf
<1>5. Total(d, {}) = 0 /\ \A x \in s : Total(d, s) = d[x] + Total(d, s \ {x})
  BY <1>3, <1>4, TotalTakes
<1>6. s # {}
  <2> SUFFICES ASSUME s = {} PROVE FALSE
    OBVIOUS
  <2>1. Cardinality(s) = 0
    BY FS_EmptySet
  <2>2. Whole(0) = 0
    OBVIOUS
  <2> HIDE DEF Whole, B
  <2> QED BY <1>2, <1>5, <2>1, <2>2
<1>7. PICK x \in s : \A y \in s : y <= x
  BY <1>3, <1>6, GreatestOf
<1> DEFINE t == s \ {x}
           m == Cardinality(s)
<1>8. m \in Nat \ {0} /\ Cardinality(t) = m - 1 /\ t \in SUBSET (1 .. n)
  <2>1. Cardinality(t) = Cardinality(s) - 1 /\ Cardinality(t) \in Nat
    BY <1>3, <1>7, FS_RemoveElement, FS_CardinalityType, FS_Subset
  <2>2. t \in SUBSET (1 .. n)
    BY <1>3
  <2> HIDE DEF t
  <2> QED BY <1>3, <2>1, <2>2
<1>9. Rank(s, x) = m
  <2>1. {y \in s : y <= x} = s
    BY <1>7
  <2> QED BY <2>1 DEF Rank
<1>10. \A y \in t : Rank(t, y) = Rank(s, y)
  <2> TAKE y \in t
  <2>1. y \in 1 .. n /\ x \in 1 .. n /\ y <= x /\ x # y
    BY <1>3, <1>7
  <2>2. {z \in t : z <= y} = {z \in s : z <= y}
    BY <2>1
  <2> QED BY <2>2 DEF Rank
<1>11. PartsOf(d, t, q, r)
  BY <1>2, <1>10 DEF PartsOf
<1>12. Total(d, t) = Whole(m - 1)
  <2>1. t \notin B
    <3> HIDE DEF B
    <3> QED BY <1>1, <1>8
  <2>2. t \in SUBSET (1 .. n)
    BY <1>8
  <2> HIDE DEF t, m, Whole
  <2>3. ~(PartsOf(d, t, q, r) /\ Total(d, t) # Whole(Cardinality(t)))
    BY <2>1, <2>2
  <2> QED BY <1>8, <1>11, <2>3
<1>13. d[x] = q + (IF m <= r THEN 1 ELSE 0)
  BY <1>2, <1>9 DEF PartsOf
<1>14. Whole(m) = q + (IF m <= r THEN 1 ELSE 0) + Whole(m - 1)
  <2>1. m * q = q + (m - 1) * q
    <3> HIDE DEF m
    <3> QED BY <1>8
  <2> HIDE DEF m
  <2> QED BY <1>8, <2>1
<1>15. Total(d, s) = d[x] + Total(d, t)
  BY <1>5
<1> HIDE DEF Whole, m, t, B
<1>16. Total(d, s) = Whole(m)
  BY <1>12, <1>13, <1>14, <1>15
<1> QED BY <1>2, <1>16 DEF m

-----------------------------------------------------------------------------
(* Budgets *)

(* A set of numbers from one that has all below each of its own.           *)
LEMMA FirstOnes ==
  ASSUME NEW n \in Nat, NEW P \in SUBSET (1 .. n), \A k \in P : \A i \in 1 .. k : i \in P
  PROVE  Cardinality(P) \in 0 .. n /\ P = 1 .. Cardinality(P)
<1>1. CASE P = {}
  <2>1. Cardinality(P) = 0
    BY <1>1, FS_EmptySet
  <2> QED BY <1>1, <2>1
<1>2. CASE P # {}
  <2>1. PICK m \in P : \A k \in P : k <= m
    BY <1>2, GreatestOf
  <2>2. m \in 1 .. n /\ P = 1 .. m
    <3>1. m \in 1 .. n /\ \A k \in P : k \in 1 .. m
      BY <2>1
    <3>2. \A i \in 1 .. m : i \in P
      OBVIOUS
    <3> QED BY <3>1, <3>2
  <2>3. Cardinality(1 .. m) = m
    BY <2>2, FS_Interval
  <2> QED BY <2>2, <2>3
<1> QED BY <1>1, <1>2

Rising(w) == \A i, j \in DOMAIN w.stages : i < j => w.stages[i] < w.stages[j]

LEMMA StagesAre ==
  ASSUME NEW w \in Works
  PROVE  /\ Stages(w) \in 0 .. Len(w.stages)
         /\ \A k \in 1 .. Stages(w) : w.stages[k] \in 1 .. w.sweeps - 1
<1> DEFINE P == {k \in DOMAIN w.stages : \A i \in 1 .. k : w.stages[i] \in 1 .. w.sweeps - 1}
<1>1. /\ w.stages \in Seq(Nat) /\ w.sweeps \in Nat
      /\ Len(w.stages) \in Nat /\ DOMAIN w.stages = 1 .. Len(w.stages)
  BY DEF Works
<1>2. P \in SUBSET (1 .. Len(w.stages)) /\ \A k \in P : \A i \in 1 .. k : i \in P
  BY <1>1
<1>3. \A k \in P : w.stages[k] \in 1 .. w.sweeps - 1
  BY <1>1
<1>4. Stages(w) = Cardinality(P)
  BY DEF Stages
<1> HIDE DEF P
<1>5. Stages(w) \in 0 .. Len(w.stages) /\ P = 1 .. Stages(w)
  BY <1>1, <1>2, <1>4, FirstOnes
<1> QED BY <1>3, <1>5

LEMMA BudgetsAre ==
  ASSUME NEW w \in Works
  PROVE  /\ Budgets(w) \in Seq(Nat)
         /\ Len(Budgets(w)) = Stages(w) + 1
         /\ Len(Budgets(w)) \in Nat \ {0}
         /\ DOMAIN Budgets(w) = 1 .. Len(Budgets(w))
         /\ \A k \in 1 .. Stages(w) : Budgets(w)[k] = w.stages[k]
         /\ Budgets(w)[Len(Budgets(w))] = w.sweeps
         /\ \A k \in 1 .. Len(Budgets(w)) : Budgets(w)[k] \in Nat
<1>1. w.stages \in Seq(Nat) /\ w.sweeps \in Nat /\ Stages(w) \in 0 .. Len(w.stages)
  BY StagesAre DEF Works
<1> DEFINE q == SubSeq(w.stages, 1, Stages(w))
<1>2. q \in Seq(Nat) /\ Len(q) = Stages(w) /\ \A k \in 1 .. Stages(w) : q[k] = w.stages[k]
  BY <1>1, SMTT(30)
<1>3. Budgets(w) = Append(q, w.sweeps)
  BY DEF Budgets
<1> HIDE DEF q
<1>4. /\ Budgets(w) \in Seq(Nat)
      /\ Len(Budgets(w)) = Stages(w) + 1
      /\ \A k \in 1 .. Stages(w) : Budgets(w)[k] = q[k]
      /\ Budgets(w)[Stages(w) + 1] = w.sweeps
  BY <1>1, <1>2, <1>3, SMTT(30)
<1> QED BY <1>1, <1>2, <1>4, SMTT(30)

LEMMA BudgetsRise ==
  ASSUME NEW w \in Works, Rising(w)
  PROVE  /\ \A i, j \in 1 .. Len(Budgets(w)) : i < j => Budgets(w)[i] < Budgets(w)[j]
         /\ \A k \in 1 .. Len(Budgets(w)) - 1 : Budgets(w)[k] > 0
<1>1. /\ w.stages \in Seq(Nat) /\ w.sweeps \in Nat /\ Stages(w) \in 0 .. Len(w.stages)
      /\ \A k \in 1 .. Stages(w) : w.stages[k] \in 1 .. w.sweeps - 1
  BY StagesAre DEF Works
<1>2. \A i, j \in 1 .. Stages(w) : i < j => w.stages[i] < w.stages[j]
  BY <1>1 DEF Rising
<1> DEFINE b == Budgets(w)
           m == Stages(w)
<1>3. /\ Len(b) = m + 1 /\ m \in Nat
      /\ \A k \in 1 .. m : b[k] = w.stages[k] /\ b[k] \in 1 .. w.sweeps - 1
      /\ b[m + 1] = w.sweeps
  <2>1. /\ Len(b) = m + 1 /\ \A k \in 1 .. m : b[k] = w.stages[k]
        /\ b[Len(b)] = w.sweeps
    BY BudgetsAre
  <2>2. m \in Nat /\ \A k \in 1 .. m : w.stages[k] \in 1 .. w.sweeps - 1
    BY <1>1
  <2> HIDE DEF b, m
  <2> QED BY <2>1, <2>2
<1> HIDE DEF b, m
<1>4. \A i, j \in 1 .. m : i < j => b[i] < b[j]
  BY <1>2, <1>3 DEF m
<1>5. \A i, j \in 1 .. Len(b) : i < j => b[i] < b[j]
  <2> TAKE i, j \in 1 .. Len(b)
  <2> HAVE i < j
  <2>1. i \in 1 .. m /\ (j \in 1 .. m \/ j = m + 1)
    BY <1>3
  <2>2. b[i] < b[m + 1]
    BY <1>1, <1>3, <2>1
  <2> QED BY <1>4, <2>1, <2>2
<1>6. \A k \in 1 .. Len(b) - 1 : b[k] > 0
  BY <1>1, <1>3
<1> QED BY <1>5, <1>6 DEF b

LEMMA FreshAre ==
  ASSUME NEW w \in Works
  PROVE  /\ FreshFrom(w) \in 0 .. Len(Budgets(w))
         /\ \A k \in 1 .. Len(Budgets(w)) :
              k <= FreshFrom(w) <=> \A i \in 1 .. k : Budgets(w)[i] <= ReheatThrough
<1> DEFINE b == Budgets(w)
           P == {k \in DOMAIN b : \A i \in 1 .. k : b[i] <= ReheatThrough}
<1>1. Len(b) \in Nat /\ DOMAIN b = 1 .. Len(b)
  BY BudgetsAre
<1>2. FreshFrom(w) = Cardinality(P)
  BY DEF FreshFrom
<1> HIDE DEF b
<1>3. P \in SUBSET (1 .. Len(b)) /\ \A k \in P : \A i \in 1 .. k : i \in P
  BY <1>1
<1>4. \A k \in 1 .. Len(b) : k \in P <=> \A i \in 1 .. k : b[i] <= ReheatThrough
  BY <1>1
<1> HIDE DEF P
<1>5. FreshFrom(w) \in 0 .. Len(b) /\ P = 1 .. FreshFrom(w)
  BY <1>1, <1>2, <1>3, FirstOnes
<1> QED BY <1>1, <1>4, <1>5 DEF b

(* Legs continue an anneal as long as their budgets are short.             *)
LEMMA FreshIffLong ==
  ASSUME NEW w \in Works, Rising(w), NEW k \in 1 .. Len(Budgets(w))
  PROVE  k <= FreshFrom(w) <=> Budgets(w)[k] <= ReheatThrough
<1>1. \A i \in 1 .. k : Budgets(w)[i] <= Budgets(w)[k]
  BY BudgetsAre, BudgetsRise
<1>2. \A i \in 1 .. k : Budgets(w)[i] \in Nat
  BY BudgetsAre
<1>3. k \in Nat /\ k \in 1 .. k
  BY BudgetsAre
<1>4. (\A i \in 1 .. k : Budgets(w)[i] <= ReheatThrough) <=> Budgets(w)[k] <= ReheatThrough
  <2>1. ReheatThrough \in Nat
    BY SlotAssumption
  <2> QED BY <1>1, <1>2, <1>3, <2>1, SMTT(20)
<1> QED BY <1>4, FreshAre

-----------------------------------------------------------------------------
(* Legs laid end to end *)

Joins(f, seqs) ==
  f = [i \in 1 .. Len(seqs) |-> IF i = 1 THEN seqs[i] ELSE f[i - 1] \o seqs[i]]

LEMMA JoinsAt ==
  ASSUME NEW f, NEW seqs, Joins(f, seqs)
  PROVE  /\ DOMAIN f = 1 .. Len(seqs)
         /\ \A i \in 1 .. Len(seqs) : f[i] = IF i = 1 THEN seqs[i] ELSE f[i - 1] \o seqs[i]
<1> DEFINE h == [i \in 1 .. Len(seqs) |-> IF i = 1 THEN seqs[i] ELSE f[i - 1] \o seqs[i]]
<1>1. f = h
  BY DEF Joins
<1>2. /\ DOMAIN h = 1 .. Len(seqs)
      /\ \A i \in 1 .. Len(seqs) : h[i] = IF i = 1 THEN seqs[i] ELSE f[i - 1] \o seqs[i]
  OBVIOUS
<1> HIDE DEF h
<1> QED BY <1>1, <1>2

(* A join f of n sequences, known by its equations.                        *)
Lays(f, seqs, n, S) ==
  /\ f \in [1 .. n -> Seq(S)]
  /\ \A i \in 1 .. n : f[i] = IF i = 1 THEN seqs[i] ELSE f[i - 1] \o seqs[i]

LEMMA LaysExist ==
  ASSUME NEW S, NEW n \in Nat, NEW seqs, \A i \in 1 .. n : seqs[i] \in Seq(S)
  PROVE  \E f : Lays(f, seqs, n, S)
<1> DEFINE T == {m \in 0 .. n : ~\E f : Lays(f, seqs, m, S)}
<1>1. T = {}
  <2> SUFFICES ASSUME T # {} PROVE FALSE
    OBVIOUS
  <2>1. PICK m \in T : \A k \in T : m <= k
    <3>1. T \in SUBSET Nat
      OBVIOUS
    <3> HIDE DEF T
    <3> QED BY <3>1, LeastNat
  <2>2. CASE m = 0
    <3> DEFINE f == [i \in 1 .. 0 |-> seqs[i]]
    <3>1. Lays(f, seqs, 0, S)
      BY DEF Lays
    <3> QED BY <2>1, <2>2, <3>1
  <2>3. CASE m # 0
    <3>1. m \in 1 .. n /\ m - 1 \in 0 .. n /\ m - 1 \notin T
      <4>1. m \in 0 .. n
        OBVIOUS
      <4> HIDE DEF T
      <4> QED BY <4>1, <2>1, <2>3
    <3>2. PICK h : Lays(h, seqs, m - 1, S)
      BY <3>1
    <3>3. /\ h \in [1 .. m - 1 -> Seq(S)]
          /\ \A i \in 1 .. m - 1 : h[i] = IF i = 1 THEN seqs[i] ELSE h[i - 1] \o seqs[i]
      BY <3>2 DEF Lays
    <3> DEFINE f == [i \in 1 .. m |-> IF i < m THEN h[i]
                                      ELSE IF m = 1 THEN seqs[m] ELSE h[m - 1] \o seqs[m]]
    <3>4. f[m] = (IF m = 1 THEN seqs[m] ELSE h[m - 1] \o seqs[m]) /\ f[m] \in Seq(S)
      <4>1. f[m] = IF m = 1 THEN seqs[m] ELSE h[m - 1] \o seqs[m]
        BY <3>1
      <4>2. seqs[m] \in Seq(S)
        BY <3>1
      <4>3. m # 1 => h[m - 1] \in Seq(S)
        BY <3>1, <3>3
      <4> HIDE DEF f
      <4> QED BY <4>1, <4>2, <4>3
    <3>5. \A i \in 1 .. m - 1 : f[i] = h[i] /\ f[i] \in Seq(S)
      <4> TAKE i \in 1 .. m - 1
      <4>1. i \in 1 .. m /\ i < m
        BY <3>1
      <4>2. f[i] = h[i]
        BY <4>1
      <4> HIDE DEF f
      <4> QED BY <4>2, <3>3
    <3>6. DOMAIN f = 1 .. m /\ f = [i \in 1 .. m |-> f[i]]
      OBVIOUS
    <3> HIDE DEF f
    <3>7. \A i \in 1 .. m : i = m \/ i \in 1 .. m - 1
      BY <3>1
    <3>8. \A i \in 1 .. m : f[i] \in Seq(S)
      BY <3>4, <3>5, <3>7
    <3>9. \A i \in 1 .. m : f[i] = IF i = 1 THEN seqs[i] ELSE f[i - 1] \o seqs[i]
      <4> TAKE i \in 1 .. m
      <4>1. CASE i = 1
        BY <4>1, <3>1, <3>3, <3>4, <3>5, <3>7
      <4>2. CASE i # 1
        <5>1. i - 1 \in 1 .. m - 1 /\ f[i - 1] = h[i - 1]
          BY <4>2, <3>1, <3>5
        <5> QED BY <4>2, <5>1, <3>3, <3>4, <3>5, <3>7
      <4> QED BY <4>1, <4>2
    <3>10. Lays(f, seqs, m, S)
      BY <3>6, <3>8, <3>9 DEF Lays
    <3> QED BY <3>10, <2>1
  <2> QED BY <2>2, <2>3
<1>2. n \notin T /\ n \in 0 .. n
  BY <1>1
<1> QED BY <1>2

LEMMA JoinsUnique ==
  ASSUME NEW S, NEW seqs, Len(seqs) \in Nat, NEW n \in 0 .. Len(seqs), NEW f, NEW g,
         Joins(f, seqs), Lays(g, seqs, n, S)
  PROVE  \A i \in 1 .. n : f[i] = g[i]
<1> DEFINE T == {i \in 1 .. n : f[i] # g[i]}
<1> SUFFICES ASSUME T # {} PROVE FALSE
  OBVIOUS
<1>1. PICK m \in T : \A k \in T : m <= k
  <2>1. T \in SUBSET Nat
    OBVIOUS
  <2> HIDE DEF T
  <2> QED BY <2>1, LeastNat
<1>2. m \in 1 .. n /\ f[m] # g[m]
  OBVIOUS
<1>3. m = 1 \/ (m - 1 \in 1 .. n /\ f[m - 1] = g[m - 1])
  BY <1>1
<1>4. f[m] = IF m = 1 THEN seqs[m] ELSE f[m - 1] \o seqs[m]
  <2>1. m \in 1 .. Len(seqs)
    BY <1>2
  <2> QED BY <2>1, JoinsAt
<1>5. g[m] = IF m = 1 THEN seqs[m] ELSE g[m - 1] \o seqs[m]
  BY <1>2 DEF Lays
<1> QED BY <1>2, <1>3, <1>4, <1>5

LEMMA FlattenIs ==
  ASSUME NEW S, NEW seqs, Len(seqs) \in Nat \ {0}, \A i \in 1 .. Len(seqs) : seqs[i] \in Seq(S),
         NEW g, Lays(g, seqs, Len(seqs), S)
  PROVE  FlattenSeq(seqs) = g[Len(seqs)]
<1> DEFINE f == CHOOSE f : Joins(f, seqs)
<1>1. Joins(g, seqs)
  <2>1. /\ g \in [1 .. Len(seqs) -> Seq(S)]
        /\ \A i \in 1 .. Len(seqs) : g[i] = IF i = 1 THEN seqs[i] ELSE g[i - 1] \o seqs[i]
    BY DEF Lays
  <2> DEFINE h == [i \in 1 .. Len(seqs) |-> IF i = 1 THEN seqs[i] ELSE g[i - 1] \o seqs[i]]
  <2>2. /\ DOMAIN h = 1 .. Len(seqs) /\ h = [i \in 1 .. Len(seqs) |-> h[i]]
        /\ \A i \in 1 .. Len(seqs) : h[i] = IF i = 1 THEN seqs[i] ELSE g[i - 1] \o seqs[i]
    OBVIOUS
  <2>3. g = [i \in 1 .. Len(seqs) |-> g[i]]
    BY <2>1
  <2>4. \A i \in 1 .. Len(seqs) : g[i] = h[i]
    BY <2>1, <2>2
  <2> HIDE DEF h
  <2>5. g = h
    BY <2>2, <2>3, <2>4
  <2> QED BY <2>5 DEF h, Joins
<1>2. Joins(f, seqs)
  BY <1>1
<1>3. FlattenSeq(seqs) = f[Len(seqs)]
  BY DEF FlattenSeq, Joins
<1> HIDE DEF f
<1>4. Len(seqs) \in 1 .. Len(seqs) /\ Len(seqs) \in 0 .. Len(seqs)
  OBVIOUS
<1> QED BY <1>2, <1>3, <1>4, JoinsUnique

(* What is laid after each of n legs, from a start.                        *)
Grows(L, seqs, n, S) ==
  /\ L \in [0 .. n -> Seq(S)]
  /\ \A i \in 1 .. n : L[i] = L[i - 1] \o seqs[i]

LEMMA Concat ==
  ASSUME NEW S, NEW a \in Seq(S), NEW b \in Seq(S)
  PROVE  /\ a \o b \in Seq(S)
         /\ Len(a \o b) = Len(a) + Len(b)
         /\ \A i \in 1 .. Len(a) : (a \o b)[i] = a[i]
         /\ \A i \in 1 .. Len(b) : (a \o b)[Len(a) + i] = b[i]
OBVIOUS

LEMMA SeqSame ==
  ASSUME NEW S, NEW a \in Seq(S), NEW b \in Seq(S), Len(a) = Len(b),
         \A i \in 1 .. Len(a) : a[i] = b[i]
  PROVE  a = b
OBVIOUS

LEMMA Part ==
  ASSUME NEW S, NEW a \in Seq(S), NEW m \in Nat, NEW n \in Nat, n <= Len(a), m <= n + 1, m >= 1
  PROVE  /\ SubSeq(a, m, n) \in Seq(S)
         /\ Len(SubSeq(a, m, n)) = n + 1 - m
         /\ \A i \in 1 .. n + 1 - m : SubSeq(a, m, n)[i] = a[m + i - 1]
OBVIOUS

(* A starts b.                                                             *)
Starts(a, b) == Len(a) <= Len(b) /\ \A i \in 1 .. Len(a) : a[i] = b[i]

LEMMA StartsSub ==
  ASSUME NEW S, NEW a \in Seq(S), NEW b \in Seq(S)
  PROVE  Starts(a, b) <=> Len(a) <= Len(b) /\ SubSeq(b, 1, Len(a)) = a
<1>0. Len(a) \in Nat /\ Len(b) \in Nat
  OBVIOUS
<1>1. ASSUME Len(a) <= Len(b)
      PROVE  (\A i \in 1 .. Len(a) : a[i] = b[i]) <=> SubSeq(b, 1, Len(a)) = a
  <2> DEFINE c == SubSeq(b, 1, Len(a))
  <2>1. c \in Seq(S) /\ Len(c) = Len(a) /\ \A i \in 1 .. Len(a) : c[i] = b[i]
    BY <1>0, <1>1, Part
  <2> HIDE DEF c
  <2>2. (\A i \in 1 .. Len(a) : a[i] = b[i]) => c = a
    BY <2>1, SeqSame
  <2>3. c = a => \A i \in 1 .. Len(a) : a[i] = b[i]
    BY <2>1
  <2> QED BY <2>2, <2>3 DEF c
<1> QED BY <1>1 DEF Starts

LEMMA GrowsStarts ==
  ASSUME NEW S, NEW n \in Nat, NEW seqs, \A i \in 1 .. n : seqs[i] \in Seq(S),
         NEW L, Grows(L, seqs, n, S), NEW i \in 0 .. n
  PROVE  \A j \in i .. n : Starts(L[i], L[j])
<1> DEFINE T == {j \in i .. n : ~Starts(L[i], L[j])}
<1>0. /\ \A j \in 0 .. n : L[j] \in Seq(S)
      /\ \A j \in 1 .. n : L[j] = L[j - 1] \o seqs[j]
  BY DEF Grows
<1> SUFFICES ASSUME T # {} PROVE FALSE
  OBVIOUS
<1>1. PICK m \in T : \A k \in T : m <= k
  <2>1. T \in SUBSET Nat
    OBVIOUS
  <2> HIDE DEF T
  <2> QED BY <2>1, LeastNat
<1>2. m \in i .. n /\ ~Starts(L[i], L[m])
  OBVIOUS
<1>3. m # i
  <2>1. L[i] \in Seq(S)
    BY <1>0
  <2>2. Starts(L[i], L[i])
    BY <2>1 DEF Starts
  <2> QED BY <1>2, <2>2
<1>4. m - 1 \in i .. n /\ m \in 1 .. n /\ m - 1 \in 0 .. n /\ m - 1 \notin T
  <2>1. m - 1 \in i .. n /\ m \in 1 .. n /\ m - 1 \in 0 .. n
    BY <1>2, <1>3
  <2> HIDE DEF T
  <2> QED BY <1>1, <2>1
<1>5. Starts(L[i], L[m - 1])
  BY <1>4
<1> DEFINE a == L[i]
           b == L[m - 1]
           c == seqs[m]
           d == L[m]
<1>6. d = b \o c /\ a \in Seq(S) /\ b \in Seq(S) /\ c \in Seq(S)
  <2> HIDE DEF T
  <2> QED BY <1>0, <1>4
<1> HIDE DEF a, b, c, d, T
<1>7. /\ Len(d) = Len(b) + Len(c) /\ \A k \in 1 .. Len(b) : d[k] = b[k]
      /\ Len(a) \in Nat /\ Len(b) \in Nat /\ Len(c) \in Nat
  BY <1>6, Concat
<1>8. Starts(a, b)
  BY <1>5 DEF a, b
<1>9. Starts(a, d)
  BY <1>7, <1>8 DEF Starts
<1> QED BY <1>2, <1>9 DEF a, d

Lies(L, seqs, n) ==
  \A i \in 1 .. n : \A j \in i .. n : SubSeq(L[j], Len(L[i - 1]) + 1, Len(L[i])) = seqs[i]

(* In all that is laid, the i-th leg lies after what was laid before it.   *)
LEMMA LegLies ==
  ASSUME NEW S, NEW n \in Nat, NEW seqs, \A i \in 1 .. n : seqs[i] \in Seq(S),
         NEW L, Grows(L, seqs, n, S)
  PROVE  Lies(L, seqs, n)
<1> USE DEF Lies
<1> TAKE i \in 1 .. n
<1> TAKE j \in i .. n
<1> DEFINE a == L[i - 1]
           c == seqs[i]
           d == L[j]
<1>1. a \in Seq(S) /\ c \in Seq(S) /\ d \in Seq(S) /\ L[i] = a \o c /\ i \in 0 .. n
  <2>1. i - 1 \in 0 .. n /\ i \in 0 .. n /\ j \in 0 .. n
    OBVIOUS
  <2>2. L[i - 1] \in Seq(S) /\ L[j] \in Seq(S) /\ L[i] = L[i - 1] \o seqs[i]
    BY <2>1 DEF Grows
  <2> QED BY <2>1, <2>2
<1>2. Starts(L[i], d)
  BY <1>1, GrowsStarts
<1> HIDE DEF a, c, d
<1>3. /\ Len(L[i]) = Len(a) + Len(c) /\ \A k \in 1 .. Len(c) : L[i][Len(a) + k] = c[k]
      /\ Len(a) \in Nat /\ Len(c) \in Nat /\ Len(d) \in Nat
  BY <1>1, Concat
<1>4. /\ Len(L[i]) <= Len(d) /\ \A k \in 1 .. Len(c) : d[Len(a) + k] = c[k]
  BY <1>2, <1>3 DEF Starts
<1> DEFINE p == SubSeq(d, Len(a) + 1, Len(L[i]))
<1>5. /\ p \in Seq(S) /\ Len(p) = Len(c)
      /\ \A k \in 1 .. Len(c) : p[k] = d[Len(a) + k]
  BY <1>1, <1>3, <1>4
<1> HIDE DEF p
<1>6. p = c
  BY <1>1, <1>4, <1>5, SeqSame
<1> QED BY <1>6 DEF p, a, c, d

LEMMA FlattenGrows ==
  ASSUME NEW S, NEW seqs, NEW n \in Nat, Len(seqs) = n, seqs \in Seq(Seq(S))
  PROVE  /\ Grows([i \in 0 .. n |-> FlattenSeq(SubSeq(seqs, 1, i))], seqs, n, S)
         /\ FlattenSeq(SubSeq(seqs, 1, 0)) = <<>>
         /\ FlattenSeq(SubSeq(seqs, 1, n)) = FlattenSeq(seqs)
<1>0. \A i \in 1 .. n : seqs[i] \in Seq(S)
  OBVIOUS
<1>1. PICK g : Lays(g, seqs, n, S)
  BY <1>0, LaysExist
<1>2. /\ \A i \in 1 .. n : g[i] \in Seq(S)
      /\ \A i \in 1 .. n : g[i] = IF i = 1 THEN seqs[i] ELSE g[i - 1] \o seqs[i]
  BY <1>1 DEF Lays
<1>3. FlattenSeq(SubSeq(seqs, 1, 0)) = <<>>
  <2>1. SubSeq(seqs, 1, 0) = <<>> /\ Len(SubSeq(seqs, 1, 0)) = 0
    OBVIOUS
  <2> QED BY <2>1 DEF FlattenSeq
<1>4. \A i \in 1 .. n : FlattenSeq(SubSeq(seqs, 1, i)) = g[i]
  <2> TAKE i \in 1 .. n
  <2> DEFINE q == SubSeq(seqs, 1, i)
             h == [k \in 1 .. i |-> g[k]]
  <2>1. Len(q) = i /\ \A k \in 1 .. i : q[k] = seqs[k] /\ q[k] \in Seq(S)
    OBVIOUS
  <2>2. Lays(h, q, i, S)
    <3>1. \A k \in 1 .. i : g[k] \in Seq(S) /\ g[k] = IF k = 1 THEN q[k] ELSE g[k - 1] \o q[k]
      BY <1>2, <2>1
    <3>2. \A k \in 1 .. i : h[k] = g[k] /\ (k # 1 => h[k - 1] = g[k - 1])
      OBVIOUS
    <3>3. h \in [1 .. i -> Seq(S)]
      BY <3>1
    <3> HIDE DEF h, q
    <3>4. \A k \in 1 .. i : h[k] = IF k = 1 THEN q[k] ELSE h[k - 1] \o q[k]
      BY <3>1, <3>2
    <3> QED BY <3>3, <3>4 DEF Lays
  <2>3. h[i] = g[i]
    OBVIOUS
  <2> HIDE DEF q, h
  <2>4. FlattenSeq(q) = h[i]
    <3>1. Len(q) \in Nat \ {0} /\ \A k \in 1 .. Len(q) : q[k] \in Seq(S)
      BY <2>1
    <3> QED BY <2>1, <2>2, <3>1, FlattenIs
  <2> QED BY <2>3, <2>4 DEF q
<1>5. FlattenSeq(SubSeq(seqs, 1, n)) = FlattenSeq(seqs)
  <2>1. SubSeq(seqs, 1, n) = seqs
    OBVIOUS
  <2> QED BY <2>1
<1> DEFINE L == [i \in 0 .. n |-> FlattenSeq(SubSeq(seqs, 1, i))]
<1>6. L[0] = <<>> /\ \A i \in 1 .. n : L[i] = g[i]
  BY <1>3, <1>4
<1>7. L = [i \in 0 .. n |-> L[i]]
  OBVIOUS
<1> HIDE DEF L
<1>8. \A i \in 0 .. n : L[i] \in Seq(S)
  <2> TAKE i \in 0 .. n
  <2>1. i = 0 \/ i \in 1 .. n
    OBVIOUS
  <2>2. <<>> \in Seq(S)
    OBVIOUS
  <2> QED BY <1>2, <1>6, <2>1, <2>2
<1>9. \A i \in 1 .. n : L[i] = L[i - 1] \o seqs[i]
  <2> TAKE i \in 1 .. n
  <2>1. CASE i = 1
    <3>1. L[i - 1] = <<>> /\ L[i] = seqs[i] /\ seqs[i] \in Seq(S)
      BY <1>0, <1>2, <1>6, <2>1
    <3> QED BY <3>1
  <2>2. CASE i # 1
    <3>1. i - 1 \in 1 .. n
      BY <2>2
    <3> QED BY <1>2, <1>6, <2>2, <3>1
  <2> QED BY <2>1, <2>2
<1>10. Grows(L, seqs, n, S)
  BY <1>7, <1>8, <1>9 DEF Grows
<1> QED BY <1>3, <1>5, <1>10 DEF L

-----------------------------------------------------------------------------
(* Schedules *)

LEMMA FunIsSeq ==
  ASSUME NEW S, NEW n \in Nat, NEW f, f \in [1 .. n -> S]
  PROVE  f \in Seq(S) /\ Len(f) = n
OBVIOUS

LEMMA Quotient ==
  ASSUME NEW a \in Nat, NEW b \in Nat \ {0}
  PROVE  /\ a \div b \in Nat
         /\ a % b \in 0 .. b - 1
         /\ a = b * (a \div b) + (a % b)
OBVIOUS

LEMMA StandardIs ==
  ASSUME NEW n \in Nat, NEW p \in Nat
  PROVE  Standard(n, p) \in Seq(Rungs) /\ Len(Standard(n, p)) = n
<1> DEFINE r == AtLeastOne(p)
           m == AtLeastOne(n \div r)
           f == [i \in 1 .. n |-> <<"hot", m, Least((i - 1) \div r + 1, m)>>]
<1>1. r \in Nat \ {0}
  BY DEF AtLeastOne
<1>2. m \in Nat
  <2>1. n \div r \in Nat
    <3> HIDE DEF r
    <3> QED BY <1>1, Quotient
  <2> QED BY <2>1 DEF AtLeastOne
<1>3. Standard(n, p) = f
  BY DEF Standard, Ladder
<1> HIDE DEF r, m
<1>4. \A i \in 1 .. n : <<"hot", m, Least((i - 1) \div r + 1, m)>> \in Rungs
  <2> TAKE i \in 1 .. n
  <2>1. (i - 1) \div r \in Nat
    <3>1. i - 1 \in Nat
      OBVIOUS
    <3> QED BY <1>1, <3>1, Quotient
  <2>2. Least((i - 1) \div r + 1, m) \in Int
    BY <1>2, <2>1 DEF Least
  <2>3. m \in Int
    BY <1>2
  <2> QED BY <2>2, <2>3 DEF Rungs
<1>5. f \in [1 .. n -> Rungs]
  BY <1>4
<1> HIDE DEF f
<1> QED BY <1>3, <1>5, FunIsSeq

LEMMA ReheatIs ==
  ASSUME NEW n \in Nat
  PROVE  Reheat(n) \in Seq(Rungs) /\ Len(Reheat(n)) = n
<1> DEFINE f == [i \in 1 .. n |-> <<"reheat", n, i>>]
<1>1. \A i \in 1 .. n : <<"reheat", n, i>> \in Rungs
  BY DEF Rungs
<1>2. f \in [1 .. n -> Rungs]
  BY <1>1
<1>3. Reheat(n) = f
  BY DEF Reheat
<1> HIDE DEF f
<1> QED BY <1>2, <1>3, FunIsSeq

LEMMA Assoc ==
  ASSUME NEW S, NEW a \in Seq(S), NEW b \in Seq(S), NEW c \in Seq(S)
  PROVE  a \o (b \o c) = (a \o b) \o c
OBVIOUS

LEMMA ConcatEmpty ==
  ASSUME NEW S, NEW a \in Seq(S)
  PROVE  a \o <<>> = a /\ <<>> \o a = a
OBVIOUS

(* The legs up to the last that continues end where its budget ends.       *)
LEMMA ContinuingIs ==
  ASSUME NEW w \in Works, Rising(w)
  PROVE  /\ ContinuingBetas(w) \in Seq(Rungs)
         /\ Len(ContinuingBetas(w)) = IF FreshFrom(w) = 0 THEN 0 ELSE Budgets(w)[FreshFrom(w)]
<1> DEFINE F == FreshFrom(w)
           B == Budgets(w)
           b == SubSeq(B, 1, F)
<1>0. w.perBeta \in Nat
  BY DEF Works
<1>1. /\ B \in Seq(Nat) /\ Len(B) \in Nat \ {0} /\ F \in 0 .. Len(B)
      /\ \A k \in 1 .. Len(B) : B[k] \in Nat
      /\ \A i, j \in 1 .. Len(B) : i < j => B[i] < B[j]
  BY BudgetsAre, BudgetsRise, FreshAre
<1> HIDE DEF F, B
<1>2. /\ b \in Seq(Nat) /\ Len(b) = F /\ \A k \in 1 .. F : b[k] = B[k] /\ b[k] \in Nat
      /\ (b = <<>> <=> F = 0)
  <2>1. F \in Nat /\ F <= Len(B)
    BY <1>1
  <2>2. b \in Seq(Nat) /\ Len(b) = F /\ \A k \in 1 .. F : b[k] = B[k]
    BY <1>1, <2>1, Part
  <2>3. \A k \in 1 .. F : b[k] \in Nat
    BY <1>1, <2>2
  <2>4. b = <<>> <=> F = 0
    <3> HIDE DEF b
    <3> QED BY <2>2
  <2> HIDE DEF b
  <2> QED BY <2>2, <2>3, <2>4
<1>3. ContinuingBetas(w) =
        IF b = <<>> THEN <<>>
        ELSE IF w.reheats
             THEN Standard(b[1], w.perBeta)
                    \o FlattenSeq([i \in 1 .. Len(b) - 1 |-> Reheat(b[i + 1] - b[i])])
             ELSE Standard(Last(b), w.perBeta)
  BY DEF ContinuingBetas, B, F
<1> HIDE DEF b
<1>4. CASE F = 0
  <2>1. ContinuingBetas(w) = <<>> /\ <<>> \in Seq(Rungs) /\ Len(<<>>) = 0
    BY <1>2, <1>3, <1>4
  <2> QED BY <2>1, <1>4 DEF F
<1>5. CASE F # 0 /\ ~w.reheats
  <2>1. ContinuingBetas(w) = Standard(b[F], w.perBeta) /\ b[F] = B[F] /\ b[F] \in Nat
    BY <1>1, <1>2, <1>3, <1>5 DEF Last
  <2> QED BY <1>0, <1>5, <2>1, StandardIs DEF F, B
<1>6. CASE F # 0 /\ w.reheats
  <2> DEFINE n == F - 1
             seqs == [i \in 1 .. n |-> Reheat(b[i + 1] - b[i])]
             L == [i \in 0 .. n |-> FlattenSeq(SubSeq(seqs, 1, i))]
  <2>1. n \in Nat /\ F = n + 1
    BY <1>1, <1>6
  <2>2. \A i \in 1 .. n : b[i + 1] - b[i] \in Nat /\ b[i] \in Nat /\ b[i + 1] \in Nat
    <3> TAKE i \in 1 .. n
    <3>1. i \in 1 .. F /\ i + 1 \in 1 .. F /\ i \in 1 .. Len(B) /\ i + 1 \in 1 .. Len(B) /\ i < i + 1
      BY <1>1, <2>1
    <3>2. B[i] < B[i + 1] /\ B[i] \in Nat /\ B[i + 1] \in Nat /\ b[i] = B[i] /\ b[i + 1] = B[i + 1]
      BY <1>1, <1>2, <3>1
    <3> QED BY <3>2
  <2>3. \A i \in 1 .. n : Reheat(b[i + 1] - b[i]) \in Seq(Rungs)
                            /\ Len(Reheat(b[i + 1] - b[i])) = b[i + 1] - b[i]
    BY <2>2, ReheatIs
  <2>4. /\ seqs \in Seq(Seq(Rungs)) /\ Len(seqs) = n
        /\ \A i \in 1 .. n : seqs[i] \in Seq(Rungs) /\ Len(seqs[i]) = b[i + 1] - b[i]
    <3>1. seqs \in [1 .. n -> Seq(Rungs)]
      BY <2>3
    <3>2. \A i \in 1 .. n : seqs[i] = Reheat(b[i + 1] - b[i])
      OBVIOUS
    <3> HIDE DEF seqs, n
    <3> QED BY <2>1, <2>3, <3>1, <3>2, FunIsSeq
  <2>5. ContinuingBetas(w) = Standard(b[1], w.perBeta) \o FlattenSeq(seqs)
    BY <1>2, <1>3, <1>6
  <2> HIDE DEF seqs, n
  <2>6. /\ Grows(L, seqs, n, Rungs) /\ FlattenSeq(SubSeq(seqs, 1, 0)) = <<>>
        /\ FlattenSeq(SubSeq(seqs, 1, n)) = FlattenSeq(seqs)
    BY <2>1, <2>4, FlattenGrows
  <2>7. L[0] = <<>> /\ L[n] = FlattenSeq(seqs)
    BY <2>1, <2>6
  <2> HIDE DEF L
  <2>8. \A i \in 0 .. n : L[i] \in Seq(Rungs) /\ Len(L[i]) = b[i + 1] - b[1]
    <3> DEFINE T == {i \in 0 .. n : Len(L[i]) # b[i + 1] - b[1]}
    <3>0. /\ \A i \in 0 .. n : L[i] \in Seq(Rungs)
          /\ \A i \in 1 .. n : L[i] = L[i - 1] \o seqs[i]
      BY <2>6 DEF Grows
    <3>1. T = {}
      <4> SUFFICES ASSUME T # {} PROVE FALSE
        OBVIOUS
      <4>1. PICK m \in T : \A k \in T : m <= k
        <5>1. T \in SUBSET Nat
          OBVIOUS
        <5> HIDE DEF T
        <5> QED BY <5>1, LeastNat
      <4>2. m \in 0 .. n /\ Len(L[m]) # b[m + 1] - b[1]
        OBVIOUS
      <4>3. b[1] \in Nat
        BY <1>2, <2>1
      <4>4. m # 0
        <5>1. Len(L[0]) = 0
          BY <2>7
        <5> QED BY <4>2, <4>3, <5>1
      <4>5. m \in 1 .. n /\ m - 1 \in 0 .. n /\ m - 1 \notin T
        <5>1. m \in 1 .. n /\ m - 1 \in 0 .. n
          BY <2>1, <4>2, <4>4
        <5> HIDE DEF T
        <5> QED BY <4>1, <5>1
      <4>6. Len(L[m - 1]) = b[m] - b[1]
        BY <4>5
      <4>7. Len(L[m]) = Len(L[m - 1]) + Len(seqs[m])
        <5>1. L[m] = L[m - 1] \o seqs[m] /\ L[m - 1] \in Seq(Rungs) /\ seqs[m] \in Seq(Rungs)
          BY <2>4, <3>0, <4>5
        <5> QED BY <5>1, Concat
      <4>8. Len(seqs[m]) = b[m + 1] - b[m] /\ b[m + 1] \in Nat /\ b[m] \in Nat
        BY <2>2, <2>4, <4>5
      <4> QED BY <4>2, <4>3, <4>6, <4>7, <4>8
    <3> QED BY <3>0, <3>1
  <2>9. L[n] \in Seq(Rungs) /\ Len(L[n]) = b[F] - b[1] /\ b[F] = B[F] /\ b[1] \in Nat /\ b[F] \in Nat
    <3>1. n \in 0 .. n /\ 1 \in 1 .. F /\ F \in 1 .. F /\ n + 1 = F
      BY <2>1
    <3> QED BY <1>2, <2>8, <3>1
  <2>10. Standard(b[1], w.perBeta) \in Seq(Rungs) /\ Len(Standard(b[1], w.perBeta)) = b[1]
    BY <1>0, <2>9, StandardIs
  <2>11. /\ ContinuingBetas(w) \in Seq(Rungs)
         /\ Len(ContinuingBetas(w)) = b[1] + (b[F] - b[1])
    <3> DEFINE a == Standard(b[1], w.perBeta)
               c == L[n]
    <3>1. a \in Seq(Rungs) /\ c \in Seq(Rungs) /\ ContinuingBetas(w) = a \o c
          /\ Len(a) = b[1] /\ Len(c) = b[F] - b[1]
      BY <2>5, <2>7, <2>9, <2>10
    <3> HIDE DEF a, c
    <3>2. a \o c \in Seq(Rungs) /\ Len(a \o c) = Len(a) + Len(c)
      BY <3>1, Concat
    <3>3. Len(ContinuingBetas(w)) = Len(a) + Len(c)
      BY <3>1, <3>2
    <3> QED BY <3>1, <3>2, <3>3
  <2>12. Len(ContinuingBetas(w)) = B[F]
    BY <2>9, <2>11
  <2> QED BY <1>6, <2>11, <2>12 DEF B, F
<1> QED BY <1>4, <1>5, <1>6

(* The schedule leg by leg: the legs that continue, then the others.       *)
Fresher(w) == Len(Budgets(w)) - FreshFrom(w)
LaidBy(w) == [i \in 0 .. Fresher(w) |-> Laid(w, i)]

LEMMA LegsAre ==
  ASSUME NEW w \in Works, Rising(w)
  PROVE  /\ Fresher(w) \in Nat
         /\ FreshLegs(w) \in Seq(Seq(Rungs)) /\ Len(FreshLegs(w)) = Fresher(w)
         /\ \A i \in 1 .. Fresher(w) :
              /\ FreshLegs(w)[i] = Standard(Budgets(w)[FreshFrom(w) + i], w.perBeta)
              /\ FreshLegs(w)[i] \in Seq(Rungs)
              /\ Len(FreshLegs(w)[i]) = Budgets(w)[FreshFrom(w) + i]
              /\ Budgets(w)[FreshFrom(w) + i] \in Nat
<1> DEFINE B == Budgets(w)
           F == FreshFrom(w)
           n == Fresher(w)
           f == [i \in 1 .. n |-> Standard(B[F + i], w.perBeta)]
<1>1. w.perBeta \in Nat /\ n = Len(B) - F
  BY DEF Works, Fresher
<1>2. /\ Len(B) \in Nat \ {0} /\ F \in 0 .. Len(B)
      /\ \A k \in 1 .. Len(B) : B[k] \in Nat
  BY BudgetsAre, FreshAre
<1>3. FreshLegs(w) = f
  BY DEF FreshLegs, Fresher
<1> HIDE DEF B, F, n
<1>4. n \in Nat
  BY <1>1, <1>2
<1>5. \A i \in 1 .. n : B[F + i] \in Nat
  BY <1>1, <1>2
<1>6. \A i \in 1 .. n : f[i] = Standard(B[F + i], w.perBeta) /\ f[i] \in Seq(Rungs)
                          /\ Len(f[i]) = B[F + i]
  BY <1>1, <1>5, StandardIs
<1>7. f \in [1 .. n -> Seq(Rungs)]
  BY <1>1, <1>5, StandardIs
<1> HIDE DEF f
<1>8. f \in Seq(Seq(Rungs)) /\ Len(f) = n
  BY <1>4, <1>7, FunIsSeq
<1> QED BY <1>3, <1>4, <1>5, <1>6, <1>8 DEF B, F, n

LEMMA LaidAre ==
  ASSUME NEW w \in Works, Rising(w)
  PROVE  /\ Grows(LaidBy(w), FreshLegs(w), Fresher(w), Rungs)
         /\ Laid(w, 0) = ContinuingBetas(w)
         /\ \A i \in 0 .. Fresher(w) : LaidBy(w)[i] = Laid(w, i)
<1> DEFINE n == Fresher(w)
           C == ContinuingBetas(w)
           seqs == FreshLegs(w)
           L == LaidBy(w)
           fl == [i \in 0 .. n |-> FlattenSeq(SubSeq(seqs, 1, i))]
<1>1. /\ n \in Nat /\ seqs \in Seq(Seq(Rungs)) /\ Len(seqs) = n
      /\ \A i \in 1 .. n : seqs[i] \in Seq(Rungs)
  BY LegsAre
<1>2. C \in Seq(Rungs)
  BY ContinuingIs
<1> HIDE DEF n, seqs
<1>3. Grows(fl, seqs, n, Rungs) /\ FlattenSeq(SubSeq(seqs, 1, 0)) = <<>>
  BY <1>1, FlattenGrows
<1>4. /\ \A i \in 0 .. n : fl[i] \in Seq(Rungs)
      /\ \A i \in 1 .. n : fl[i] = fl[i - 1] \o seqs[i]
  BY <1>3 DEF Grows
<1>5. \A i \in 0 .. n : Laid(w, i) = C \o fl[i]
  BY DEF Laid, seqs
<1>6. L = [i \in 0 .. n |-> L[i]] /\ \A i \in 0 .. n : L[i] = Laid(w, i)
  BY DEF LaidBy, n
<1> HIDE DEF C, L, fl
<1>7. \A i \in 0 .. n : L[i] \in Seq(Rungs)
  <2> TAKE i \in 0 .. n
  <2>1. L[i] = C \o fl[i] /\ fl[i] \in Seq(Rungs)
    BY <1>4, <1>5, <1>6
  <2> QED BY <1>2, <2>1
<1>8. \A i \in 1 .. n : L[i] = L[i - 1] \o seqs[i]
  <2> TAKE i \in 1 .. n
  <2>1. i \in 0 .. n /\ i - 1 \in 0 .. n
    BY <1>1
  <2>2. L[i] = C \o fl[i] /\ L[i - 1] = C \o fl[i - 1]
    BY <1>5, <1>6, <2>1
  <2>3. fl[i] = fl[i - 1] \o seqs[i] /\ fl[i - 1] \in Seq(Rungs) /\ seqs[i] \in Seq(Rungs)
    BY <1>1, <1>4, <2>1
  <2> DEFINE a == fl[i - 1]
             b == seqs[i]
  <2>4. a \in Seq(Rungs) /\ b \in Seq(Rungs)
    BY <2>3
  <2> HIDE DEF a, b
  <2>5. C \o (a \o b) = (C \o a) \o b
    BY <1>2, <2>4, Assoc
  <2> QED BY <2>2, <2>3, <2>5 DEF a, b
<1>9. Grows(L, seqs, n, Rungs)
  BY <1>6, <1>7, <1>8 DEF Grows
<1>10. Laid(w, 0) = C
  <2>1. 0 \in 0 .. n
    BY <1>1
  <2>2. Laid(w, 0) = C \o fl[0] /\ fl[0] = <<>>
    BY <1>3, <1>5, <2>1 DEF fl
  <2> QED BY <1>2, <2>2, ConcatEmpty
<1> QED BY <1>6, <1>9, <1>10 DEF n, seqs, C, L

(* Where the anneal of the leg to a checkpoint starts.                     *)
Start(w, k) == IF k = 1 THEN 0 ELSE Checkpoints(w)[k - 1]
StartOf(w, k) == IF k > FreshFrom(w) THEN Start(w, k) ELSE 0

LEMMA EndsAre ==
  ASSUME NEW w \in Works, Rising(w)
  PROVE  /\ Betas(w) \in Seq(Rungs) /\ Len(Betas(w)) \in Nat
         /\ Checkpoints(w) \in Seq(Nat) /\ Len(Checkpoints(w)) = Len(Budgets(w))
         /\ DOMAIN Checkpoints(w) = 1 .. Len(Budgets(w))
         /\ Checkpoints(w)[Len(Budgets(w))] = Len(Betas(w))
         /\ \A k \in 1 .. Len(Budgets(w)) : Checkpoints(w)[k] \in Nat
         /\ \A k \in 1 .. Len(Budgets(w)) :
              k >= FreshFrom(w) => Checkpoints(w)[k] = Len(Laid(w, k - FreshFrom(w)))
<1> DEFINE B == Budgets(w)
           F == FreshFrom(w)
           n == Fresher(w)
           C == Checkpoints(w)
           L == LaidBy(w)
<1>1. n = Len(B) - F /\ Betas(w) = Laid(w, n)
  BY DEF Fresher, Betas
<1>2. /\ Len(B) \in Nat \ {0} /\ F \in 0 .. Len(B) /\ DOMAIN B = 1 .. Len(B)
      /\ \A k \in 1 .. Len(B) : B[k] \in Nat
  BY BudgetsAre, FreshAre
<1>3. /\ Grows(L, FreshLegs(w), n, Rungs) /\ Laid(w, 0) = ContinuingBetas(w)
      /\ \A i \in 0 .. n : L[i] = Laid(w, i)
  BY LaidAre
<1>4. /\ DOMAIN C = DOMAIN B /\ C = [k \in DOMAIN B |-> C[k]]
      /\ \A k \in DOMAIN B : C[k] = IF k <= F THEN B[k] ELSE Len(Laid(w, k - F))
  BY DEF Checkpoints
<1>5. /\ ContinuingBetas(w) \in Seq(Rungs)
      /\ Len(ContinuingBetas(w)) = IF F = 0 THEN 0 ELSE B[F]
  BY ContinuingIs
<1> HIDE DEF B, F, n, C, L
<1>6. n \in Nat
  BY <1>1, <1>2
<1>7. \A i \in 0 .. n : Laid(w, i) \in Seq(Rungs) /\ Len(Laid(w, i)) \in Nat
  <2> TAKE i \in 0 .. n
  <2>1. Laid(w, i) \in Seq(Rungs)
    BY <1>3 DEF Grows
  <2> QED BY <2>1
<1>8. \A k \in 1 .. Len(B) : k >= F => C[k] = Len(Laid(w, k - F))
  <2> TAKE k \in 1 .. Len(B)
  <2> HAVE k >= F
  <2>1. CASE k = F
    <3>1. C[k] = B[F] /\ k - F = 0 /\ F # 0
      BY <1>2, <1>4, <2>1
    <3> QED BY <1>3, <1>5, <3>1
  <2>2. CASE k # F
    <3>1. ~(k <= F)
      BY <1>2, <2>2
    <3> QED BY <1>2, <1>4, <3>1
  <2> QED BY <2>1, <2>2
<1>9. \A k \in 1 .. Len(B) : C[k] \in Nat
  <2> TAKE k \in 1 .. Len(B)
  <2>1. CASE k <= F
    BY <1>2, <1>4, <2>1
  <2>2. CASE ~(k <= F)
    <3>1. k - F \in 0 .. n /\ k >= F
      BY <1>1, <1>2, <2>2
    <3> QED BY <1>7, <1>8, <3>1
  <2> QED BY <2>1, <2>2
<1>10. C \in Seq(Nat) /\ Len(C) = Len(B)
  <2>1. C \in [1 .. Len(B) -> Nat]
    BY <1>2, <1>4, <1>9
  <2> QED BY <1>2, <2>1, FunIsSeq
<1>11. C[Len(B)] = Len(Betas(w))
  <2>1. Len(B) \in 1 .. Len(B) /\ Len(B) >= F
    BY <1>2
  <2> QED BY <1>1, <1>8, <2>1
<1>12. Betas(w) \in Seq(Rungs) /\ Len(Betas(w)) \in Nat
  <2>1. n \in 0 .. n
    BY <1>6
  <2> QED BY <1>1, <1>7, <2>1
<1> QED BY <1>2, <1>4, <1>8, <1>9, <1>10, <1>11, <1>12 DEF B, F, C

(* The checkpoints rise, and between two that start afresh lies a budget.  *)
LEMMA EndsRise ==
  ASSUME NEW w \in Works, Rising(w)
  PROVE  /\ \A k \in 1 .. Len(Budgets(w)) :
              k > FreshFrom(w) => Checkpoints(w)[k] = Start(w, k) + Budgets(w)[k]
         /\ \A k \in 1 .. Len(Budgets(w)) : k <= FreshFrom(w) => Checkpoints(w)[k] = Budgets(w)[k]
         /\ \A k \in 2 .. Len(Budgets(w)) : Checkpoints(w)[k - 1] < Checkpoints(w)[k]
<1> DEFINE B == Budgets(w)
           F == FreshFrom(w)
           n == Fresher(w)
           C == Checkpoints(w)
           L == LaidBy(w)
<1>1. n = Len(B) - F
  BY DEF Fresher
<1>2. /\ Len(B) \in Nat \ {0} /\ F \in 0 .. Len(B) /\ DOMAIN B = 1 .. Len(B)
      /\ \A k \in 1 .. Len(B) : B[k] \in Nat
      /\ \A i, j \in 1 .. Len(B) : i < j => B[i] < B[j]
  BY BudgetsAre, BudgetsRise, FreshAre
<1>3. /\ Grows(L, FreshLegs(w), n, Rungs) /\ Laid(w, 0) = ContinuingBetas(w)
      /\ \A i \in 0 .. n : L[i] = Laid(w, i)
  BY LaidAre
<1>4. \A k \in 1 .. Len(B) : C[k] \in Nat /\ (k >= F => C[k] = Len(Laid(w, k - F)))
  BY EndsAre
<1>5. \A k \in 1 .. Len(B) : k <= F => C[k] = B[k]
  <2>1. \A k \in DOMAIN B : C[k] = IF k <= F THEN B[k] ELSE Len(Laid(w, k - F))
    BY DEF Checkpoints
  <2> HIDE DEF B, F, C
  <2> QED BY <1>2, <2>1
<1>6. \A i \in 1 .. n : FreshLegs(w)[i] \in Seq(Rungs) /\ Len(FreshLegs(w)[i]) = B[F + i]
  BY LegsAre
<1>7. F = 0 => Len(Laid(w, 0)) = 0
  BY <1>3, ContinuingIs
<1>8. \A k \in 1 .. Len(B) : Start(w, k) = IF k = 1 THEN 0 ELSE C[k - 1]
  BY DEF Start
<1> HIDE DEF B, F, n, C, L
<1>9. \A i \in 1 .. n : Len(Laid(w, i)) = Len(Laid(w, i - 1)) + B[F + i]
  <2> TAKE i \in 1 .. n
  <2>1. i \in 0 .. n /\ i - 1 \in 0 .. n
    BY <1>1, <1>2
  <2>2. L[i] = L[i - 1] \o FreshLegs(w)[i] /\ L[i - 1] \in Seq(Rungs)
    BY <1>3, <2>1 DEF Grows
  <2>3. Len(L[i]) = Len(L[i - 1]) + Len(FreshLegs(w)[i])
    BY <1>6, <2>2, Concat
  <2> QED BY <1>3, <1>6, <2>1, <2>3
<1>10. \A k \in 1 .. Len(B) : k > F => C[k] = Start(w, k) + B[k]
  <2> TAKE k \in 1 .. Len(B)
  <2> HAVE k > F
  <2>1. k - F \in 1 .. n /\ k >= F /\ F + (k - F) = k
    BY <1>1, <1>2
  <2>2. C[k] = Len(Laid(w, (k - F) - 1)) + B[k]
    BY <1>4, <1>9, <2>1
  <2>3. CASE k = 1
    <3>1. F = 0 /\ (k - F) - 1 = 0 /\ Start(w, k) = 0 /\ B[k] \in Nat
      BY <1>2, <1>8, <2>1, <2>3
    <3> QED BY <1>7, <2>2, <3>1
  <2>4. CASE k # 1
    <3>1. k - 1 \in 1 .. Len(B) /\ k - 1 >= F /\ (k - 1) - F = (k - F) - 1
      BY <1>2, <2>1, <2>4
    <3>2. C[k - 1] = Len(Laid(w, (k - F) - 1))
      BY <1>4, <3>1
    <3> QED BY <1>8, <2>2, <2>4, <3>2
  <2> QED BY <2>3, <2>4
<1>11. \A k \in 2 .. Len(B) : C[k - 1] < C[k]
  <2> TAKE k \in 2 .. Len(B)
  <2>1. k \in 1 .. Len(B) /\ k - 1 \in 1 .. Len(B) /\ k - 1 < k /\ k # 1
    BY <1>2
  <2>2. B[k - 1] < B[k] /\ B[k - 1] \in Nat /\ B[k] \in Nat
    BY <1>2, <2>1
  <2>3. CASE k <= F
    <3>1. C[k] = B[k] /\ C[k - 1] = B[k - 1]
      BY <1>2, <1>5, <2>1, <2>3
    <3> QED BY <2>2, <3>1
  <2>4. CASE ~(k <= F)
    <3>1. C[k] = C[k - 1] + B[k] /\ C[k - 1] \in Nat
      BY <1>2, <1>4, <1>8, <1>10, <2>1, <2>4
    <3> QED BY <2>2, <3>1
  <2> QED BY <2>3, <2>4
<1> QED BY <1>5, <1>10, <1>11 DEF B, F, C

(* From the start of its anneal to a checkpoint, the schedule is the anneal *)
(* the cascade means by the checkpoint.                                    *)
LEMMA AnnealLies ==
  ASSUME NEW w \in Works, Rising(w), NEW k \in 1 .. Len(Budgets(w))
  PROVE  /\ AnnealAt(w, k).leg = (IF k > FreshFrom(w) THEN k - 1 ELSE 0)
         /\ AnnealAt(w, k).betas = SubSeq(Betas(w), StartOf(w, k) + 1, Checkpoints(w)[k])
         /\ Checkpoints(w)[k] - StartOf(w, k) = Budgets(w)[k]
<1> DEFINE B == Budgets(w)
           F == FreshFrom(w)
           n == Fresher(w)
           C == Checkpoints(w)
           L == LaidBy(w)
<1>0. k \in 1 .. Len(B)
  OBVIOUS
<1>1. n = Len(B) - F /\ Betas(w) = Laid(w, n)
  BY DEF Fresher, Betas
<1>2. /\ Len(B) \in Nat \ {0} /\ F \in 0 .. Len(B) /\ B[k] \in Nat
      /\ \A j \in 1 .. Len(B) : B[j] \in Nat
      /\ \A i, j \in 1 .. Len(B) : i < j => B[i] < B[j]
  BY BudgetsAre, BudgetsRise, FreshAre
<1>3. /\ Grows(L, FreshLegs(w), n, Rungs) /\ Laid(w, 0) = ContinuingBetas(w)
      /\ \A i \in 0 .. n : L[i] = Laid(w, i)
  BY LaidAre
<1>4. k <= F <=> B[k] <= ReheatThrough
  BY FreshIffLong
<1>5. \A i \in 1 .. n : FreshLegs(w)[i] \in Seq(Rungs)
                          /\ FreshLegs(w)[i] = Standard(B[F + i], w.perBeta)
  BY LegsAre
<1>6. \A j \in 1 .. Len(B) : C[j] \in Nat /\ (j >= F => C[j] = Len(Laid(w, j - F)))
  BY EndsAre
<1>7. /\ (k > F => C[k] = Start(w, k) + B[k]) /\ (k <= F => C[k] = B[k])
  BY EndsRise
<1>8. /\ Start(w, k) = (IF k = 1 THEN 0 ELSE C[k - 1])
      /\ StartOf(w, k) = (IF k > F THEN Start(w, k) ELSE 0)
  BY DEF Start, StartOf
<1>9. /\ ContinuingBetas(w) \in Seq(Rungs)
      /\ Len(ContinuingBetas(w)) = IF F = 0 THEN 0 ELSE B[F]
  BY ContinuingIs
<1>10. AnnealAt(w, k) = IF B[k] > ReheatThrough
                        THEN [leg |-> k - 1, betas |-> Standard(B[k], w.perBeta)]
                        ELSE [leg |-> 0, betas |-> SubSeq(ContinuingBetas(w), 1, B[k])]
  BY DEF AnnealAt
<1> HIDE DEF B, F, n, C, L
<1>11. B[k] > ReheatThrough <=> k > F
  BY <1>2, <1>4, SlotAssumption, SMTT(30)
<1>12. CASE k > F
  <2> DEFINE i == k - F
  <2>1. i \in 1 .. n /\ n \in i .. n /\ n \in Nat /\ F + i = k /\ k >= F /\ i \in 0 .. n /\ i - 1 \in 0 .. n
    BY <1>0, <1>1, <1>2, <1>12
  <2>2. SubSeq(L[n], Len(L[i - 1]) + 1, Len(L[i])) = FreshLegs(w)[i]
    <3> DEFINE seqs == FreshLegs(w)
    <3>1. /\ \A j \in 1 .. n : seqs[j] \in Seq(Rungs)
          /\ Grows(L, seqs, n, Rungs) /\ i \in 1 .. n /\ n \in i .. n /\ n \in Nat
      BY <1>3, <1>5, <2>1
    <3> HIDE DEF i, seqs
    <3>2. Lies(L, seqs, n)
      BY <3>1, LegLies
    <3> QED BY <3>1, <3>2 DEF Lies, seqs
  <2>3. Len(L[i]) = C[k]
    BY <1>0, <1>3, <1>6, <2>1
  <2>4. Len(L[i - 1]) = Start(w, k)
    <3>1. CASE k = 1
      <4>1. F = 0 /\ i - 1 = 0
        BY <1>0, <1>2, <1>12, <3>1
      <4> QED BY <1>3, <1>8, <1>9, <2>1, <3>1, <4>1
    <3>2. CASE k # 1
      <4>1. k - 1 \in 1 .. Len(B) /\ k - 1 >= F /\ (k - 1) - F = i - 1
        BY <1>0, <1>2, <1>12, <3>2
      <4>2. C[k - 1] = Len(Laid(w, i - 1))
        BY <1>6, <4>1
      <4> QED BY <1>3, <1>8, <2>1, <3>2, <4>2
    <3> QED BY <3>1, <3>2
  <2>5. L[n] = Betas(w)
    <3>1. n \in 0 .. n
      BY <2>1
    <3> QED BY <1>1, <1>3, <3>1
  <2>6. FreshLegs(w)[i] = Standard(B[k], w.perBeta)
    BY <1>5, <2>1
  <2>7. Start(w, k) \in Nat
    <3>1. k # 1 => k - 1 \in 1 .. Len(B)
      BY <1>0, <1>2
    <3> QED BY <1>6, <1>8, <3>1
  <2> HIDE DEF i
  <2>8. AnnealAt(w, k).leg = k - 1 /\ AnnealAt(w, k).betas = Standard(B[k], w.perBeta)
    BY <1>10, <1>11, <1>12
  <2>9. StartOf(w, k) = Start(w, k) /\ C[k] - Start(w, k) = B[k]
    BY <1>2, <1>7, <1>8, <1>12, <2>7
  <2> QED BY <1>12, <2>2, <2>3, <2>4, <2>5, <2>6, <2>8, <2>9 DEF B, F, C
<1>13. CASE ~(k > F)
  <2> DEFINE c == ContinuingBetas(w)
             d == Betas(w)
  <2>1. k <= F /\ F # 0 /\ F \in 1 .. Len(B) /\ n \in Nat
    BY <1>0, <1>1, <1>2, <1>13
  <2>2. Starts(L[0], L[n])
    <3>1. 0 \in 0 .. n /\ n \in 0 .. n
      BY <2>1
    <3>2. \A i \in 1 .. n : FreshLegs(w)[i] \in Seq(Rungs)
      BY <1>5
    <3> QED BY <1>3, <2>1, <3>1, <3>2, GrowsStarts
  <2>3. L[0] = c /\ L[n] = d /\ c \in Seq(Rungs) /\ d \in Seq(Rungs)
    <3>1. 0 \in 0 .. n /\ n \in 0 .. n
      BY <2>1
    <3>2. L[n] \in Seq(Rungs)
      BY <1>3, <3>1 DEF Grows
    <3> QED BY <1>1, <1>3, <1>9, <3>1, <3>2
  <2>4. B[k] <= Len(c)
    <3>1. Len(c) = B[F] /\ (k = F \/ k < F)
      BY <1>0, <1>2, <1>9, <2>1
    <3> QED BY <1>0, <1>2, <2>1, <3>1
  <2> HIDE DEF c, d
  <2>5. /\ Len(c) <= Len(d) /\ \A j \in 1 .. Len(c) : c[j] = d[j]
        /\ Len(c) \in Nat /\ Len(d) \in Nat
    BY <2>2, <2>3 DEF Starts
  <2>6. SubSeq(c, 1, B[k]) = SubSeq(d, 1, B[k])
    BY <1>2, <2>3, <2>4, <2>5
  <2>7. C[k] = B[k] /\ StartOf(w, k) = 0
    BY <1>7, <1>8, <1>13, <2>1
  <2>8. AnnealAt(w, k).leg = 0 /\ AnnealAt(w, k).betas = SubSeq(c, 1, B[k])
    <3> DEFINE p == SubSeq(c, 1, B[k])
               a == AnnealAt(w, k)
    <3>1. a = [leg |-> 0, betas |-> p]
      BY <1>10, <1>11, <1>13 DEF c
    <3> HIDE DEF p, a
    <3>2. a.leg = 0 /\ a.betas = p
      BY <3>1
    <3> QED BY <3>2 DEF p, a
  <2>9. C[k] - StartOf(w, k) = B[k] /\ StartOf(w, k) + 1 = 1
    BY <1>2, <2>7
  <2> QED BY <1>13, <2>6, <2>7, <2>8, <2>9 DEF B, F, C, d
<1> QED BY <1>12, <1>13

-----------------------------------------------------------------------------
(* The schedule of a unit *)

LEMMA WorkIs ==
  ASSUME NEW u \in Units
  PROVE  /\ WorkOf[u] \in Works /\ Rising(WorkOf[u])
         /\ BetasOf[u] = Betas(WorkOf[u]) /\ CheckpointsOf[u] = Checkpoints(WorkOf[u])
         /\ FreshOf[u] = FreshFrom(WorkOf[u])
BY SlotAssumption DEF BetasOf, CheckpointsOf, FreshOf, Rising

LEMMA EndsOf ==
  ASSUME NEW u \in Units
  PROVE  /\ BetasOf[u] \in Seq(Rungs) /\ Len(BetasOf[u]) \in Nat
         /\ CheckpointsOf[u] \in Seq(Nat) /\ Len(CheckpointsOf[u]) \in Nat \ {0}
         /\ DOMAIN CheckpointsOf[u] = 1 .. Len(CheckpointsOf[u])
         /\ \A k \in 1 .. Len(CheckpointsOf[u]) : CheckpointsOf[u][k] \in Nat
         /\ CheckpointsOf[u][Len(CheckpointsOf[u])] = Len(BetasOf[u])
         /\ FreshOf[u] \in 0 .. Len(CheckpointsOf[u])
         /\ Len(CheckpointsOf[u]) = Len(Budgets(WorkOf[u]))
BY WorkIs, EndsAre, BudgetsAre, FreshAre

(* The checkpoints rise.                                                   *)
LEMMA EndsOrdered ==
  ASSUME NEW u \in Units, NEW i \in 1 .. Len(CheckpointsOf[u])
  PROVE  \A j \in i + 1 .. Len(CheckpointsOf[u]) : CheckpointsOf[u][i] < CheckpointsOf[u][j]
<1> DEFINE e == CheckpointsOf[u]
           n == Len(e)
           T == {j \in i + 1 .. n : ~(e[i] < e[j])}
<1>0. i \in 1 .. n
  OBVIOUS
<1>1. n \in Nat /\ \A k \in 1 .. n : e[k] \in Nat
  BY EndsOf
<1>2. \A k \in 2 .. n : e[k - 1] < e[k]
  BY WorkIs, EndsOf, EndsRise
<1> HIDE DEF e, n
<1> SUFFICES ASSUME T # {} PROVE FALSE
  BY DEF e, n
<1>3. PICK m \in T : \A k \in T : m <= k
  <2>1. T \in SUBSET Nat
    BY <1>0, <1>1
  <2> HIDE DEF T
  <2> QED BY <2>1, LeastNat
<1>4. m \in i + 1 .. n /\ ~(e[i] < e[m])
  OBVIOUS
<1>5. m \in 2 .. n /\ m - 1 \in 1 .. n /\ e[m - 1] < e[m] /\ e[m] \in Nat /\ e[m - 1] \in Nat /\ e[i] \in Nat
  BY <1>0, <1>1, <1>2, <1>4
<1>6. CASE m - 1 = i
  BY <1>4, <1>5, <1>6
<1>7. CASE m - 1 # i
  <2>1. m - 1 \in i + 1 .. n /\ m - 1 \notin T
    <3>1. m - 1 \in i + 1 .. n
      BY <1>0, <1>1, <1>4, <1>7
    <3> HIDE DEF T
    <3> QED BY <1>3, <1>5, <3>1
  <2>2. e[i] < e[m - 1]
    BY <2>1
  <2> QED BY <1>4, <1>5, <2>2
<1> QED BY <1>6, <1>7

LEMMA EndsBelow ==
  ASSUME NEW u \in Units, NEW k \in 1 .. Len(CheckpointsOf[u])
  PROVE  /\ CheckpointsOf[u][k] <= Len(BetasOf[u])
         /\ k # Len(CheckpointsOf[u]) => CheckpointsOf[u][k] # Len(BetasOf[u])
         /\ \A i \in 1 .. Len(CheckpointsOf[u]) : i < k => CheckpointsOf[u][i] < CheckpointsOf[u][k]
<1>1. /\ Len(CheckpointsOf[u]) \in Nat \ {0}
      /\ CheckpointsOf[u][Len(CheckpointsOf[u])] = Len(BetasOf[u]) /\ Len(BetasOf[u]) \in Nat
      /\ \A i \in 1 .. Len(CheckpointsOf[u]) : CheckpointsOf[u][i] \in Nat
  BY EndsOf
<1>2. \A i \in 1 .. Len(CheckpointsOf[u]) : i < k => CheckpointsOf[u][i] < CheckpointsOf[u][k]
  <2> TAKE i \in 1 .. Len(CheckpointsOf[u])
  <2> HAVE i < k
  <2>1. k \in i + 1 .. Len(CheckpointsOf[u])
    BY <1>1
  <2> QED BY <2>1, EndsOrdered
<1>3. CASE k = Len(CheckpointsOf[u])
  BY <1>1, <1>2, <1>3
<1>4. CASE k # Len(CheckpointsOf[u])
  <2>1. Len(CheckpointsOf[u]) \in k + 1 .. Len(CheckpointsOf[u])
    BY <1>1, <1>4
  <2>2. CheckpointsOf[u][k] < Len(BetasOf[u])
    BY <1>1, <2>1, EndsOrdered
  <2> QED BY <1>1, <1>2, <2>2
<1> QED BY <1>3, <1>4

LEMMA LegStarts ==
  ASSUME NEW u \in Units, NEW k \in 1 .. Len(CheckpointsOf[u]) + 1
  PROVE  /\ LegStart(u, k) \in Nat /\ AnnealStart(u, k) \in Nat
         /\ AnnealStart(u, k) <= LegStart(u, k)
         /\ k # 1 => k - 1 \in 1 .. Len(CheckpointsOf[u]) /\ LegStart(u, k) = CheckpointsOf[u][k - 1]
         /\ k = 1 => LegStart(u, k) = 0 /\ AnnealStart(u, k) = 0
<1>1. Len(CheckpointsOf[u]) \in Nat
  BY EndsOf
<1>2. k # 1 => k - 1 \in 1 .. Len(CheckpointsOf[u])
  BY <1>1
<1>3. \A i \in 1 .. Len(CheckpointsOf[u]) : CheckpointsOf[u][i] \in Nat
  BY EndsOf
<1>4. LegStart(u, k) \in Nat
  BY <1>2, <1>3 DEF LegStart
<1> QED BY <1>2, <1>4 DEF LegStart, AnnealStart

LEMMA FirstEnd ==
  ASSUME NEW u \in Units, ValidSchedule(WorkOf[u])
  PROVE  /\ CheckpointsOf[u][1] > 0
         /\ \A k \in 2 .. Len(CheckpointsOf[u]) + 1 : LegStart(u, k) > 0
<1>1. Head(CheckpointsOf[u]) > 0
  BY WorkIs DEF ValidSchedule
<1>2. CheckpointsOf[u] \in Seq(Nat) /\ Len(CheckpointsOf[u]) \in Nat \ {0}
  BY EndsOf
<1>3. CheckpointsOf[u][1] > 0
  BY <1>1, <1>2
<1>4. \A k \in 2 .. Len(CheckpointsOf[u]) + 1 : LegStart(u, k) > 0
  <2> TAKE k \in 2 .. Len(CheckpointsOf[u]) + 1
  <2>1. k - 1 \in 1 .. Len(CheckpointsOf[u]) /\ LegStart(u, k) = CheckpointsOf[u][k - 1]
    BY <1>2 DEF LegStart
  <2>2. 1 \in 1 .. Len(CheckpointsOf[u]) /\ CheckpointsOf[u][1] \in Nat /\ CheckpointsOf[u][k - 1] \in Nat
    BY <1>2, <2>1, EndsOf
  <2>3. k - 1 = 1 \/ CheckpointsOf[u][1] < CheckpointsOf[u][k - 1]
    BY <2>1, <2>2, EndsBelow
  <2> QED BY <1>3, <2>1, <2>2, <2>3
<1> QED BY <1>3, <1>4

-----------------------------------------------------------------------------
(* The invariant *)

States == {"new", "prepared", "live", "done"}
StepRecords ==
  [start : Nat, count : Nat \ {0}, leg : Nat, write : BOOLEAN, observe : BOOLEAN,
   restart : BOOLEAN]
Readbacks ==
  [slot : SlotIds, index : Nat, observe : BOOLEAN, last : BOOLEAN, position : Int]

TypeInv ==
  /\ builds \in 0 .. MaxBuilds /\ command \in {"none", "running", "completed", "error"}
  /\ faulted \in BOOLEAN /\ at \in [Units -> States]
  /\ IsFiniteSet({v \in Units : at[v] = "prepared"})
  /\ store \in [1 .. Places -> Seq(Rungs)] /\ cache \in Caches \union {None}
  /\ prepared \in [Units -> 1 .. Places \union {None}]
  /\ held \in [SlotIds -> 1 .. Places \union {None}]
  /\ slots \in [SlotIds -> Residents \union {None}]
  /\ betas \in [SlotIds -> Seq(Rungs)]
  /\ DOMAIN spins = SlotIds /\ DOMAIN output = SlotIds /\ DOMAIN inputs = SlotIds
  /\ found \in SUBSET Readbacks
  /\ command # "none" => steps \in [Live -> StepRecords]

(* Whose schedule is where.                                                *)
StoreInv ==
  /\ cache # None => store[cache.at] = Betas(cache.work)
  /\ \A u \in Units : at[u] # "prepared" => prepared[u] = None
  /\ \A u \in Units : at[u] = "prepared" =>
       prepared[u] # None /\ store[prepared[u]] = BetasOf[u] /\ ValidSchedule(WorkOf[u])
  /\ \A s \in SlotIds : held[s] # None => Starts(store[held[s]], betas[s])

(* A unit is in one slot, which holds its schedule and its coefficients.   *)
LiveInv ==
  /\ \A s \in Live :
       /\ slots[s].at = held[s] /\ store[held[s]] = BetasOf[slots[s].unit]
       /\ inputs[s] = slots[s].unit /\ at[slots[s].unit] = "live"
       /\ ValidSchedule(WorkOf[slots[s].unit])
  /\ \A s, t \in Live : s # t => slots[s].unit # slots[t].unit

(* How far a resident r is: within the leg to its next checkpoint, or at   *)
(* the end.                                                                *)
InLeg(r) ==
  LET ends == CheckpointsOf[r.unit]
  IN /\ r.next \in 1 .. Len(ends) + 1 /\ LegStart(r.unit, r.next) <= r.pos
     /\ r.next <= Len(ends) => r.pos < ends[r.next]
     /\ r.next = Len(ends) + 1 => r.pos = ends[Len(ends)]
LegsInv == \A s \in Live : InLeg(slots[s])

(* A step t of a resident ends in its leg, and is written out at a          *)
(* checkpoint and wherever an observe interval ends.                       *)
Fits(r, t) ==
  LET end   == CheckpointsOf[r.unit][r.next]
      after == r.pos + t.count
  IN /\ r.next <= Len(CheckpointsOf[r.unit]) /\ t.start = r.pos /\ t.leg = r.next - 1
     /\ after <= end /\ (t.observe <=> after # end) /\ (after = end => t.write)
     /\ t.restart <=> r.next > 1 /\ Fresh(r.unit, r.next) /\ r.pos = LegStart(r.unit, r.next)
     /\ r.unit \in Observed /\ ~t.write =>
          after \div ObserveInterval = r.pos \div ObserveInterval
CommandInv ==
  /\ command # "none" =>
       found = {} /\ ~faulted /\ Live # {} /\ \A s \in Live : Fits(slots[s], steps[s])
  /\ faulted => found = {}

(* The leg a resident is in or has just ended, where the anneal of a leg    *)
(* has started, and what spins have been through at a position of it.      *)
LastLeg(r) == IF r.pos = LegStart(r.unit, r.next) THEN r.next - 1 ELSE r.next
AnnealLeg(u, k) == IF Fresh(u, k) THEN k ELSE 1
RunAt(u, k, p) ==
  [unit |-> u, leg |-> AnnealLeg(u, k) - 1, betas |-> SubSeq(BetasOf[u], AnnealStart(u, k) + 1, p)]

Sound(r, run) == r.pos > 0 => run = RunAt(r.unit, LastLeg(r), r.pos)
SpinsInv ==
  \A s \in Live :
    /\ command \in {"none", "running"} /\ ~faulted => Sound(slots[s], spins[s])
    /\ command = "completed" =>
         /\ spins[s] = RunAt(slots[s].unit, slots[s].next, slots[s].pos + steps[s].count)
         /\ steps[s].write => output[s] = spins[s]

(* The last output of a resident is of one of its legs, and of its last     *)
(* observe interval.                                                       *)
Written(r, out, k, p) ==
  /\ LegStart(r.unit, k) < p /\ p <= CheckpointsOf[r.unit][k]
  /\ out = RunAt(r.unit, k, p)
  /\ r.unit \in Observed => r.pos \div ObserveInterval <= p \div ObserveInterval
Shown(r, out) ==
  /\ r.output => \E k \in DOMAIN CheckpointsOf[r.unit], p \in 0 .. Len(BetasOf[r.unit]) : Written(r, out, k, p)
  /\ r.unit \in Observed /\ ~r.output => r.pos \div ObserveInterval = 0
OutputInv ==
  \A s \in Live : command # "error" /\ ~faulted => Shown(slots[s], output[s])

(* What is found of a resident after a command.                            *)
Taken(c, r, out) ==
  LET ends == CheckpointsOf[r.unit]
  IN /\ c.index \in DOMAIN ends
     /\ c.observe => r.next = c.index /\ LegStart(r.unit, c.index) < r.pos
     /\ ~c.observe =>
          /\ r.next = c.index + 1 /\ r.pos = ends[c.index]
          /\ out = RunAt(r.unit, c.index, ends[c.index])
          /\ c.position = ends[c.index] - AnnealStart(r.unit, c.index)
          /\ c.last <=> c.index = Len(ends)
FoundInv ==
  \A c \in found : c.slot \in Live /\ Taken(c, slots[c.slot], output[c.slot])

IInv ==
  TypeInv /\ StoreInv /\ LiveInv /\ LegsInv /\ CommandInv /\ SpinsInv /\ OutputInv /\ FoundInv

-----------------------------------------------------------------------------
(* A resident and its step *)

LEMMA ResidentIs ==
  ASSUME NEW r \in Residents
  PROVE  /\ r.unit \in Units /\ r.at \in 1 .. Places /\ r.pos \in Nat /\ r.next \in Nat
         /\ r.output \in BOOLEAN /\ r.us \in Nat
BY DEF Residents

LEMMA StepIs ==
  ASSUME NEW t \in StepRecords
  PROVE  /\ t.start \in Nat /\ t.count \in Nat \ {0} /\ t.leg \in Nat
         /\ t.write \in BOOLEAN /\ t.observe \in BOOLEAN /\ t.restart \in BOOLEAN
BY DEF StepRecords

(* A resident in a leg, and where the leg and its anneal started.          *)
LEMMA LegOf ==
  ASSUME NEW r \in Residents, InLeg(r), r.next <= Len(CheckpointsOf[r.unit])
  PROVE  /\ r.next \in 1 .. Len(CheckpointsOf[r.unit])
         /\ CheckpointsOf[r.unit][r.next] \in Nat /\ r.pos < CheckpointsOf[r.unit][r.next]
         /\ CheckpointsOf[r.unit][r.next] <= Len(BetasOf[r.unit]) /\ Len(BetasOf[r.unit]) \in Nat
         /\ LegStart(r.unit, r.next) \in Nat /\ LegStart(r.unit, r.next) <= r.pos
         /\ AnnealStart(r.unit, r.next) \in Nat
         /\ AnnealStart(r.unit, r.next) <= LegStart(r.unit, r.next)
<1>1. r.unit \in Units /\ r.pos \in Nat
  BY ResidentIs
<1>2. Len(CheckpointsOf[r.unit]) \in Nat /\ Len(BetasOf[r.unit]) \in Nat
  BY <1>1, EndsOf
<1>3. /\ r.next \in 1 .. Len(CheckpointsOf[r.unit]) + 1 /\ LegStart(r.unit, r.next) <= r.pos
      /\ r.pos < CheckpointsOf[r.unit][r.next]
  BY DEF InLeg
<1>4. r.next \in 1 .. Len(CheckpointsOf[r.unit])
  BY <1>2, <1>3
<1>5. /\ CheckpointsOf[r.unit][r.next] \in Nat
      /\ CheckpointsOf[r.unit][r.next] <= Len(BetasOf[r.unit])
  BY <1>1, <1>4, EndsOf, EndsBelow
<1>6. /\ LegStart(r.unit, r.next) \in Nat /\ AnnealStart(r.unit, r.next) \in Nat
      /\ AnnealStart(r.unit, r.next) <= LegStart(r.unit, r.next)
  BY <1>1, <1>3, LegStarts
<1> QED BY <1>2, <1>3, <1>4, <1>5, <1>6

LEMMA PosBelow ==
  ASSUME NEW r \in Residents, InLeg(r)
  PROVE  r.pos <= Len(BetasOf[r.unit])
<1>1. r.unit \in Units /\ r.pos \in Nat
  BY ResidentIs
<1>2. Len(CheckpointsOf[r.unit]) \in Nat \ {0} /\ Len(BetasOf[r.unit]) \in Nat
      /\ CheckpointsOf[r.unit][Len(CheckpointsOf[r.unit])] = Len(BetasOf[r.unit])
  BY <1>1, EndsOf
<1>3. CASE r.next <= Len(CheckpointsOf[r.unit])
  BY <1>1, <1>3, LegOf
<1>4. CASE ~(r.next <= Len(CheckpointsOf[r.unit]))
  <2>1. r.next = Len(CheckpointsOf[r.unit]) + 1
    BY <1>2, <1>4 DEF InLeg
  <2>2. r.pos = CheckpointsOf[r.unit][Len(CheckpointsOf[r.unit])]
    BY <2>1 DEF InLeg
  <2> QED BY <1>1, <1>2, <2>2
<1> QED BY <1>3, <1>4

(* A unit just admitted.                                                   *)
LEMMA AdmittedIs ==
  ASSUME NEW u \in Units, ValidSchedule(WorkOf[u]), NEW a \in 1 .. Places, NEW r,
         r = [unit |-> u, at |-> a, pos |-> 0, next |-> 1, output |-> FALSE, us |-> 0]
  PROVE  /\ r \in Residents /\ InLeg(r)
         /\ \A run : Sound(r, run)
         /\ \A out : Shown(r, out)
<1>1. r.unit = u /\ r.at = a /\ r.pos = 0 /\ r.next = 1 /\ r.output = FALSE /\ r.us = 0
  OBVIOUS
<1>2. r \in Residents
  BY DEF Residents
<1>3. InLeg(r)
  <2>1. Len(CheckpointsOf[u]) \in Nat \ {0} /\ CheckpointsOf[u][1] > 0
    BY EndsOf, FirstEnd
  <2>2. LegStart(u, 1) = 0
    BY DEF LegStart
  <2> QED BY <1>1, <2>1, <2>2 DEF InLeg
<1>4. \A run : Sound(r, run)
  BY <1>1 DEF Sound
<1>5. \A out : Shown(r, out)
  <2>1. ObserveInterval \in Nat \ {0}
    BY SlotAssumption
  <2>2. 0 \div ObserveInterval = 0
    BY <2>1
  <2> QED BY <1>1, <2>2 DEF Shown
<1> QED BY <1>2, <1>3, <1>4, <1>5

(* Where a resident q is that took a step t as r.                          *)
Took(r, t, q) ==
  /\ q.unit = r.unit /\ q.pos = r.pos + t.count
  /\ q.next = (IF t.write /\ ~t.observe THEN r.next + 1 ELSE r.next)
  /\ q.output = (r.output \/ t.write)

LEMMA StepEnds ==
  ASSUME NEW r \in Residents, NEW t \in StepRecords, InLeg(r), Fits(r, t)
  PROVE  /\ r.next <= Len(CheckpointsOf[r.unit])
         /\ r.next \in 1 .. Len(CheckpointsOf[r.unit])
         /\ CheckpointsOf[r.unit][r.next] \in Nat
         /\ r.pos + t.count \in Nat /\ r.pos < r.pos + t.count
         /\ r.pos + t.count <= CheckpointsOf[r.unit][r.next]
         /\ r.pos + t.count <= Len(BetasOf[r.unit])
         /\ LegStart(r.unit, r.next) \in Nat /\ LegStart(r.unit, r.next) < r.pos + t.count
         /\ t.write /\ ~t.observe <=> r.pos + t.count = CheckpointsOf[r.unit][r.next]
<1>1. r.next <= Len(CheckpointsOf[r.unit])
  BY DEF Fits
<1>2. /\ r.pos \in Nat /\ t.count \in Nat \ {0} /\ t.write \in BOOLEAN /\ t.observe \in BOOLEAN
  BY ResidentIs, StepIs
<1>3. /\ r.next \in 1 .. Len(CheckpointsOf[r.unit])
      /\ CheckpointsOf[r.unit][r.next] \in Nat
      /\ CheckpointsOf[r.unit][r.next] <= Len(BetasOf[r.unit]) /\ Len(BetasOf[r.unit]) \in Nat
      /\ LegStart(r.unit, r.next) \in Nat /\ LegStart(r.unit, r.next) <= r.pos
  BY <1>1, LegOf
<1> DEFINE e == CheckpointsOf[r.unit][r.next]
           p == r.pos + t.count
<1>4. p <= e /\ (t.observe <=> p # e) /\ (p = e => t.write)
  BY DEF Fits
<1>5. p \in Nat /\ r.pos < p /\ p <= e /\ p <= Len(BetasOf[r.unit])
      /\ LegStart(r.unit, r.next) < p
  <2> DEFINE a == r.pos
             c == t.count
             m == Len(BetasOf[r.unit])
             l == LegStart(r.unit, r.next)
  <2>1. a \in Nat /\ c \in Nat \ {0} /\ e \in Nat /\ m \in Nat /\ l \in Nat
    BY <1>2, <1>3
  <2>2. a + c <= e /\ e <= m /\ l <= a
    BY <1>3, <1>4
  <2> HIDE DEF a, c, e, m, l
  <2>3. a + c \in Nat /\ a < a + c /\ a + c <= e /\ a + c <= m /\ l < a + c
    BY <2>1, <2>2
  <2> QED BY <2>3 DEF a, c, m, l
<1>6. t.write /\ ~t.observe <=> p = e
  BY <1>4
<1> QED BY <1>1, <1>3, <1>5, <1>6

LEMMA TookInLeg ==
  ASSUME NEW r \in Residents, NEW t \in StepRecords, InLeg(r), Fits(r, t), NEW q, Took(r, t, q)
  PROVE  /\ InLeg(q)
         /\ q.pos > 0 /\ LastLeg(q) = r.next
<1> DEFINE u == r.unit
           k == r.next
           n == Len(CheckpointsOf[r.unit])
           p == r.pos + t.count
<1>1. /\ k \in 1 .. n /\ CheckpointsOf[u][k] \in Nat /\ p \in Nat /\ r.pos < p
      /\ p <= CheckpointsOf[u][k] /\ LegStart(u, k) \in Nat /\ LegStart(u, k) < p
      /\ (t.write /\ ~t.observe <=> p = CheckpointsOf[u][k])
  BY StepEnds
<1>2. u \in Units /\ r.pos \in Nat
  BY ResidentIs
<1>3. n \in Nat
  BY <1>2, EndsOf
<1>4. q.unit = u /\ q.pos = p /\ q.next = (IF t.write /\ ~t.observe THEN k + 1 ELSE k)
  BY DEF Took
<1> HIDE DEF u, k, n, p
<1>5. CASE p = CheckpointsOf[u][k]
  <2>1. q.next = k + 1 /\ k + 1 \in 1 .. n + 1 /\ k + 1 # 1 /\ (k + 1) - 1 = k
    BY <1>1, <1>3, <1>4, <1>5
  <2>2. LegStart(u, k + 1) = p
    BY <1>1, <1>5, <2>1 DEF LegStart
  <2>3. k + 1 <= n => p < CheckpointsOf[u][k + 1]
    <3> HAVE k + 1 <= n
    <3>1. k + 1 \in 1 .. n /\ k < k + 1
      BY <1>1, <1>3
    <3> QED BY <1>1, <1>2, <1>5, <3>1, EndsBelow DEF n, u
  <2>4. k + 1 = n + 1 => p = CheckpointsOf[u][n]
    BY <1>1, <1>3, <1>5
  <2>5. InLeg(q)
    BY <1>1, <1>4, <2>1, <2>2, <2>3, <2>4 DEF InLeg, n, u
  <2>6. LastLeg(q) = k
    BY <1>4, <2>1, <2>2 DEF LastLeg
  <2> QED BY <1>1, <1>2, <1>4, <2>5, <2>6 DEF k
<1>6. CASE p # CheckpointsOf[u][k]
  <2>1. q.next = k /\ p < CheckpointsOf[u][k] /\ k \in 1 .. n + 1 /\ k # n + 1 /\ LegStart(u, k) <= p
    BY <1>1, <1>3, <1>4, <1>6
  <2>2. InLeg(q)
    BY <1>4, <2>1 DEF InLeg, n, u
  <2>3. LastLeg(q) = k
    BY <1>1, <1>4, <2>1 DEF LastLeg
  <2> QED BY <1>1, <1>2, <1>4, <2>2, <2>3 DEF k
<1> QED BY <1>5, <1>6

(* What is written out by a step, and what is left of earlier outputs.     *)
LEMMA TookShown ==
  ASSUME NEW r \in Residents, NEW t \in StepRecords, InLeg(r), Fits(r, t), NEW q, Took(r, t, q),
         NEW out, Shown(r, out) \/ t.write,
         t.write => out = RunAt(r.unit, r.next, r.pos + t.count)
  PROVE  Shown(q, out)
<1> DEFINE u == r.unit
           k == r.next
           p == r.pos + t.count
<1>1. /\ k \in 1 .. Len(CheckpointsOf[u]) /\ p \in Nat /\ r.pos < p /\ p <= Len(BetasOf[u])
      /\ p <= CheckpointsOf[u][k] /\ LegStart(u, k) < p
  BY StepEnds
<1>2. /\ u \in Units /\ r.pos \in Nat /\ r.output \in BOOLEAN /\ t.write \in BOOLEAN
      /\ DOMAIN CheckpointsOf[u] = 1 .. Len(CheckpointsOf[u]) /\ Len(BetasOf[u]) \in Nat
  BY ResidentIs, StepIs, EndsOf
<1>3. q.unit = u /\ q.pos = p /\ q.output = (r.output \/ t.write)
  BY DEF Took
<1>4. CASE t.write
  <2>1. Written(q, out, k, p)
    <3>1. ObserveInterval \in Nat \ {0}
      BY SlotAssumption
    <3>2. p \div ObserveInterval \in Nat
      BY <1>1, <3>1, Quotient
    <3>3. out = RunAt(u, k, p)
      BY <1>4
    <3> HIDE DEF p, u, k
    <3> QED BY <1>1, <1>3, <3>2, <3>3 DEF Written
  <2>2. k \in DOMAIN CheckpointsOf[u] /\ p \in 0 .. Len(BetasOf[u])
    BY <1>1, <1>2
  <2> HIDE DEF p, u, k
  <2> QED BY <1>2, <1>3, <1>4, <2>1, <2>2 DEF Shown
<1>5. CASE ~t.write
  <2>1. u \in Observed => p \div ObserveInterval = r.pos \div ObserveInterval
    BY <1>5 DEF Fits
  <2>2. Shown(r, out)
    BY <1>5
  <2>3. q.output = r.output
    BY <1>2, <1>3, <1>5
  <2> HIDE DEF p, k
  <2>4. \A i, h : Written(r, out, i, h) => Written(q, out, i, h)
    BY <1>3, <2>1 DEF Written
  <2> QED BY <1>3, <2>1, <2>2, <2>3, <2>4 DEF Shown
<1> QED BY <1>4, <1>5

LEMMA TookTaken ==
  ASSUME NEW r \in Residents, NEW t \in StepRecords, InLeg(r), Fits(r, t), NEW q, Took(r, t, q),
         t.write, NEW out, out = RunAt(r.unit, r.next, r.pos + t.count),
         NEW c, c.index = r.next, c.observe = t.observe,
         c.last <=> ~t.observe /\ r.next = Len(CheckpointsOf[r.unit]),
         c.position = r.pos + t.count - AnnealStart(r.unit, r.next)
  PROVE  Taken(c, q, out)
<1> DEFINE u == r.unit
           k == r.next
           p == r.pos + t.count
           n == Len(CheckpointsOf[r.unit])
<1>1. /\ k \in 1 .. n /\ p \in Nat /\ LegStart(u, k) < p
      /\ (t.write /\ ~t.observe <=> p = CheckpointsOf[u][k])
  BY StepEnds
<1>2. DOMAIN CheckpointsOf[u] = 1 .. n /\ u \in Units
  BY ResidentIs, EndsOf
<1>3. q.unit = u /\ q.pos = p /\ q.next = (IF t.write /\ ~t.observe THEN k + 1 ELSE k)
  BY DEF Took
<1>4. c.index = k /\ c.observe = t.observe /\ (c.last <=> ~t.observe /\ k = n)
      /\ c.position = p - AnnealStart(u, k) /\ out = RunAt(u, k, p)
  <2>1. c.index = k /\ c.observe = t.observe
    OBVIOUS
  <2>2. c.last <=> ~t.observe /\ k = n
    OBVIOUS
  <2>3. c.position = p - AnnealStart(u, k)
    <3>1. r.pos \in Nat /\ t.count \in Nat /\ AnnealStart(r.unit, r.next) \in Nat
      BY ResidentIs, StepIs, StepEnds, LegOf
    <3> QED BY <3>1
  <2>4. out = RunAt(u, k, p)
    OBVIOUS
  <2> QED BY <2>1, <2>2, <2>3, <2>4
<1> HIDE DEF u, k, p, n
<1>5. CASE t.observe
  BY <1>1, <1>2, <1>3, <1>4, <1>5 DEF Taken
<1>6. CASE ~t.observe
  <2>1. p = CheckpointsOf[u][k] /\ q.next = k + 1 /\ (c.last <=> k = n)
    BY <1>1, <1>3, <1>4, <1>6
  <2> QED BY <1>1, <1>2, <1>3, <1>4, <1>6, <2>1 DEF Taken, n, u
<1> QED BY <1>5, <1>6

LEMMA ConcatAt ==
  ASSUME NEW S, NEW a \in Seq(S), NEW b \in Seq(S)
  PROVE  /\ a \o b \in Seq(S) /\ Len(a \o b) = Len(a) + Len(b)
         /\ \A i \in 1 .. Len(a) + Len(b) :
              (a \o b)[i] = IF i <= Len(a) THEN a[i] ELSE b[i - Len(a)]
OBVIOUS

(* The runs of one anneal, one after the other.                            *)
LEMMA RunsJoin ==
  ASSUME NEW S, NEW b \in Seq(S), NEW a \in Nat, NEW m \in Nat, NEW n \in Nat,
         a <= m, m <= n, n <= Len(b)
  PROVE  SubSeq(b, a + 1, m) \o SubSeq(b, m + 1, n) = SubSeq(b, a + 1, n)
<1> DEFINE x == SubSeq(b, a + 1, m)
           y == SubSeq(b, m + 1, n)
           z == SubSeq(b, a + 1, n)
<1>1. x \in Seq(S) /\ Len(x) = m - a /\ \A i \in 1 .. m - a : x[i] = b[a + i]
  OBVIOUS
<1>2. y \in Seq(S) /\ Len(y) = n - m /\ \A i \in 1 .. n - m : y[i] = b[m + i]
  OBVIOUS
<1>3. z \in Seq(S) /\ Len(z) = n - a /\ \A i \in 1 .. n - a : z[i] = b[a + i]
  OBVIOUS
<1> HIDE DEF x, y, z
<1>4. x \in Seq(S) /\ y \in Seq(S)
  BY <1>1, <1>2
<1> DEFINE w == x \o y
<1>5. /\ w \in Seq(S) /\ Len(w) = Len(x) + Len(y)
      /\ \A i \in 1 .. Len(x) + Len(y) : w[i] = IF i <= Len(x) THEN x[i] ELSE y[i - Len(x)]
  BY <1>4, ConcatAt
<1> HIDE DEF w
<1>6. Len(w) = n - a /\ \A i \in 1 .. n - a : w[i] = b[a + i]
  <2>1. Len(w) = n - a
    BY <1>1, <1>2, <1>5
  <2>2. ASSUME NEW i \in 1 .. n - a PROVE w[i] = b[a + i]
    <3>1. i \in 1 .. Len(x) + Len(y) /\ w[i] = IF i <= m - a THEN x[i] ELSE y[i - (m - a)]
      BY <1>1, <1>2, <1>5
    <3>2. CASE i <= m - a
      BY <1>1, <3>1, <3>2
    <3>3. CASE ~(i <= m - a)
      <4> DEFINE j == i - (m - a)
      <4>1. j \in 1 .. n - m /\ m + j = a + i
        BY <3>3
      <4>2. w[i] = y[j]
        BY <3>1, <3>3
      <4> HIDE DEF j
      <4> QED BY <1>2, <4>1, <4>2
    <3> QED BY <3>2, <3>3
  <2> QED BY <2>1, <2>2
<1>7. w = z
  BY <1>3, <1>5, <1>6, SeqSame
<1> QED BY <1>7 DEF w, x, y, z

(* What a step appends is the schedule of its unit.                        *)
LEMMA RegionRuns ==
  ASSUME NEW S, NEW own \in Seq(S), NEW b \in Seq(S), Starts(own, b),
         NEW m \in Nat, NEW n \in Nat, m <= n, n <= Len(own)
  PROVE  SubSeq(b, m + 1, n) = SubSeq(own, m + 1, n)
<1> DEFINE x == SubSeq(b, m + 1, n)
           y == SubSeq(own, m + 1, n)
<1>1. Len(own) \in Nat /\ Len(b) \in Nat /\ n <= Len(b)
      /\ \A i \in 1 .. n - m : own[m + i] = b[m + i]
  <2>1. /\ Len(own) \in Nat /\ Len(b) \in Nat /\ Len(own) <= Len(b)
        /\ \A i \in 1 .. Len(own) : own[i] = b[i]
    BY DEF Starts
  <2>2. \A i \in 1 .. n - m : m + i \in 1 .. Len(own)
    BY <2>1
  <2> QED BY <2>1, <2>2
<1>2. x \in Seq(S) /\ Len(x) = n - m /\ \A i \in 1 .. n - m : x[i] = b[m + i]
  BY <1>1
<1>3. y \in Seq(S) /\ Len(y) = n - m /\ \A i \in 1 .. n - m : y[i] = own[m + i]
  BY <1>1
<1> HIDE DEF x, y
<1>4. x = y
  BY <1>1, <1>2, <1>3, SeqSame
<1> QED BY <1>4 DEF x, y

(* What the kernel makes of the spins of a resident r that takes step t.    *)
RanBy(r, t, b, spin) ==
  IF t.start = 0 \/ t.restart
  THEN [unit |-> r.unit, leg |-> t.leg, betas |-> SubSeq(b, t.start + 1, t.start + t.count)]
  ELSE [spin EXCEPT !.betas = @ \o SubSeq(b, t.start + 1, t.start + t.count)]

LEMMA RanIs ==
  ASSUME NEW r \in Residents, NEW t \in StepRecords, InLeg(r), Fits(r, t),
         ValidSchedule(WorkOf[r.unit]), NEW b \in Seq(Rungs), Starts(BetasOf[r.unit], b),
         NEW spin, Sound(r, spin)
  PROVE  RanBy(r, t, b, spin) = RunAt(r.unit, r.next, r.pos + t.count)
<1> DEFINE u == r.unit
           k == r.next
           p == r.pos
           m == r.pos + t.count
           own == BetasOf[u]
           ran == RanBy(r, t, b, spin)
           a == AnnealStart(u, k)
           run == SubSeq(own, p + 1, m)
<1>1. /\ k \in 1 .. Len(CheckpointsOf[u]) /\ m \in Nat /\ p <= m /\ m <= Len(own)
  BY StepEnds, ResidentIs
<1>2. u \in Units /\ p \in Nat /\ own \in Seq(Rungs) /\ Len(own) \in Nat
      /\ Len(CheckpointsOf[u]) \in Nat
  BY ResidentIs, EndsOf
<1>3. LegStart(u, k) \in Nat /\ LegStart(u, k) <= p /\ a \in Nat /\ a <= LegStart(u, k)
  BY LegOf, StepEnds
<1>4. /\ t.start = p /\ t.leg = k - 1
      /\ (t.restart <=> k > 1 /\ Fresh(u, k) /\ p = LegStart(u, k))
  BY DEF Fits
<1>5. SubSeq(b, p + 1, m) = run
  <2>1. own \in Seq(Rungs) /\ b \in Seq(Rungs) /\ Starts(own, b)
    BY <1>2
  <2>2. p \in Nat /\ m \in Nat /\ p <= m /\ m <= Len(own)
    BY <1>1, <1>2
  <2> HIDE DEF p, m, own
  <2>3. SubSeq(b, p + 1, m) = SubSeq(own, p + 1, m)
    BY <2>1, <2>2, RegionRuns
  <2> QED BY <2>3
<1>6. RunAt(u, k, m) = [unit |-> u, leg |-> AnnealLeg(u, k) - 1, betas |-> SubSeq(own, a + 1, m)]
  BY DEF RunAt
<1>7. ran = IF p = 0 \/ t.restart
            THEN [unit |-> u, leg |-> k - 1, betas |-> run]
            ELSE [spin EXCEPT !.betas = @ \o run]
  <2>1. t.start + 1 = p + 1 /\ t.start + t.count = m
    BY <1>4
  <2>2. SubSeq(b, t.start + 1, t.start + t.count) = run
    BY <1>5, <2>1
  <2>3. ran = IF t.start = 0 \/ t.restart
              THEN [unit |-> u, leg |-> t.leg, betas |-> run]
              ELSE [spin EXCEPT !.betas = @ \o run]
    BY <2>2 DEF RanBy
  <2> HIDE DEF run, p, u, k, ran
  <2> QED BY <1>4, <2>3
<1>8. \A j \in 2 .. Len(CheckpointsOf[u]) + 1 : LegStart(u, j) > 0
  BY <1>2, FirstEnd
<1>9. k # 1 => p # 0
  <2> HIDE DEF p, k, u
  <2>1. k # 1 => k \in 2 .. Len(CheckpointsOf[u]) + 1
    BY <1>1, <1>2
  <2> QED BY <1>2, <1>3, <1>8, <2>1
<1>10. p # 0 => spin = RunAt(u, LastLeg(r), p)
  BY <1>2 DEF Sound
<1>11. LastLeg(r) = IF p = LegStart(u, k) THEN k - 1 ELSE k
  BY DEF LastLeg
<1>12. k = 1 => a = 0 /\ AnnealLeg(u, k) = 1 /\ LegStart(u, k) = 0
  BY DEF AnnealStart, AnnealLeg, LegStart
<1>13. Fresh(u, k) => a = LegStart(u, k) /\ AnnealLeg(u, k) = k
  BY DEF AnnealStart, AnnealLeg
<1>14. ~Fresh(u, k) => a = 0 /\ AnnealLeg(u, k) = 1
  BY DEF AnnealStart, AnnealLeg
<1>15. FreshOf[u] \in Nat
  BY <1>2, EndsOf
<1> HIDE DEF p, k, u, m, own, run, ran
<1>16. ~Fresh(u, k) => AnnealStart(u, k - 1) = 0 /\ AnnealLeg(u, k - 1) = 1
  BY <1>1, <1>15 DEF Fresh, AnnealStart, AnnealLeg
<1>17. CASE p = 0
  <2>1. k = 1 /\ run = SubSeq(own, a + 1, m) /\ AnnealLeg(u, k) = 1
    BY <1>9, <1>12, <1>17 DEF run
  <2> QED BY <1>6, <1>7, <1>17, <2>1 DEF m, u, k, ran
<1>18. CASE p # 0 /\ t.restart
  <2>1. a = p /\ AnnealLeg(u, k) = k
    BY <1>4, <1>13, <1>18
  <2>2. run = SubSeq(own, a + 1, m)
    BY <2>1 DEF run
  <2> QED BY <1>6, <1>7, <1>18, <2>1, <2>2 DEF m, u, k, ran
<1>19. CASE p # 0 /\ ~t.restart
  <2>1. spin = [unit |-> u, leg |-> AnnealLeg(u, k) - 1, betas |-> SubSeq(own, a + 1, p)]
    <3>1. CASE p = LegStart(u, k)
      <4>1. k # 1 /\ ~Fresh(u, k)
        BY <1>1, <1>4, <1>12, <1>19, <3>1
      <4>2. spin = RunAt(u, k - 1, p) /\ a = 0 /\ AnnealLeg(u, k) = 1
             /\ AnnealStart(u, k - 1) = 0 /\ AnnealLeg(u, k - 1) = 1
        BY <1>10, <1>11, <1>14, <1>16, <1>19, <3>1, <4>1
      <4> QED BY <4>2 DEF RunAt, own
    <3>2. CASE p # LegStart(u, k)
      <4>1. spin = RunAt(u, k, p)
        BY <1>10, <1>11, <1>19, <3>2
      <4> QED BY <4>1 DEF RunAt, own
    <3> QED BY <3>1, <3>2
  <2> HIDE DEF a
  <2>2. SubSeq(own, a + 1, p) \o run = SubSeq(own, a + 1, m)
    <3>1. a \in Nat /\ a <= p
      BY <1>2, <1>3
    <3> QED BY <1>1, <1>2, <3>1, RunsJoin DEF run
  <2>3. ran = [spin EXCEPT !.betas = @ \o run]
    BY <1>7, <1>19
  <2> DEFINE x == SubSeq(own, a + 1, p)
             y == SubSeq(own, a + 1, m)
             g == AnnealLeg(u, k) - 1
  <2>4. x \o run = y /\ spin = [unit |-> u, leg |-> g, betas |-> x]
        /\ RunAt(u, k, m) = [unit |-> u, leg |-> g, betas |-> y]
    BY <1>6, <2>1, <2>2
  <2> HIDE DEF x, y, g
  <2>5. ran = [unit |-> u, leg |-> g, betas |-> x \o run]
    BY <2>3, <2>4
  <2> QED BY <2>4, <2>5 DEF m, u, k, ran
<1> QED BY <1>17, <1>18, <1>19

LEMMA MulMono ==
  ASSUME NEW n \in Nat, NEW a \in Nat, NEW b \in Nat, a <= b
  PROVE  n * a <= n * b /\ n * a \in Nat /\ n * b \in Nat
<1>1. PICK c \in Nat : b = a + c
  <2>1. b - a \in Nat /\ b = a + (b - a)
    OBVIOUS
  <2> QED BY <2>1
<1>2. n * b = n * a + n * c /\ n * a \in Nat /\ n * c \in Nat
  BY <1>1
<1> QED BY <1>2

LEMMA QuotientIs ==
  ASSUME NEW n \in Nat \ {0}, NEW x \in Nat, NEW q \in Nat, n * q <= x, x < n * (q + 1)
  PROVE  x \div n = q
<1> DEFINE d == x \div n
           m == x % n
<1>1. d \in Nat /\ m \in 0 .. n - 1 /\ x = n * d + m
  BY Quotient
<1> HIDE DEF d, m
<1>2. n * (q + 1) \in Nat /\ n * q \in Nat /\ n * d \in Nat /\ n * (d + 1) = n * d + n
  BY <1>1
<1>3. ~(d + 1 <= q)
  <2> SUFFICES ASSUME d + 1 <= q PROVE FALSE
    OBVIOUS
  <2>1. n * (d + 1) <= n * q
    BY <1>1, MulMono
  <2> QED BY <1>1, <1>2, <2>1
<1>4. ~(q + 1 <= d)
  <2> SUFFICES ASSUME q + 1 <= d PROVE FALSE
    OBVIOUS
  <2>1. n * (q + 1) <= n * d
    BY <1>1, MulMono
  <2> QED BY <1>1, <1>2, <2>1
<1> QED BY <1>1, <1>3, <1>4 DEF d

(* Up to the end of its interval a position is in the same interval.       *)
LEMMA SameInterval ==
  ASSUME NEW n \in Nat \ {0}, NEW p \in Nat, NEW c \in Nat, c < (p \div n + 1) * n - p
  PROVE  (p + c) \div n = p \div n
<1> DEFINE q == p \div n
<1>1. q \in Nat /\ p % n \in 0 .. n - 1 /\ p = n * q + (p % n)
  BY Quotient
<1>2. c < (q + 1) * n - p
  OBVIOUS
<1> HIDE DEF q
<1>3. (q + 1) * n = n * (q + 1) /\ n * q \in Nat /\ n * (q + 1) \in Nat
  BY <1>1
<1>4. n * q <= p + c /\ p + c < n * (q + 1) /\ p + c \in Nat
  BY <1>1, <1>2, <1>3
<1>5. (p + c) \div n = q
  BY <1>1, <1>4, QuotientIs
<1> QED BY <1>5 DEF q

LEMMA RoomLeft ==
  ASSUME NEW n \in Nat \ {0}, NEW p \in Nat
  PROVE  (p \div n + 1) * n - p \in Nat \ {0}
<1> DEFINE q == p \div n
<1>1. q \in Nat /\ p % n \in 0 .. n - 1 /\ p = n * q + (p % n)
  BY Quotient
<1> HIDE DEF q
<1>2. (q + 1) * n = n * q + n /\ n * q \in Nat
  BY <1>1
<1> QED BY <1>1, <1>2 DEF q

LEMMA CloseBy ==
  ASSUME NEW n \in Nat \ {0}, NEW p \in Nat, NEW x \in Nat, p \div n <= x \div n
  PROVE  p - x < n
<1>1. p \div n \in Nat /\ p % n \in 0 .. n - 1 /\ p = n * (p \div n) + (p % n)
  BY Quotient
<1>2. x \div n \in Nat /\ x % n \in 0 .. n - 1 /\ x = n * (x \div n) + (x % n)
  BY Quotient
<1>3. n * (p \div n) <= n * (x \div n) /\ n * (p \div n) \in Nat /\ n * (x \div n) \in Nat
  BY <1>1, <1>2, MulMono
<1> QED BY <1>1, <1>2, <1>3

LEMMA LaterInterval ==
  ASSUME NEW n \in Nat \ {0}, NEW p \in Nat, NEW x \in Nat, p <= x
  PROVE  p \div n <= x \div n
<1> DEFINE a == p \div n
           b == x \div n
<1>1. a \in Nat /\ p % n \in 0 .. n - 1 /\ p = n * a + (p % n)
  BY Quotient
<1>2. b \in Nat /\ x % n \in 0 .. n - 1 /\ x = n * b + (x % n)
  BY Quotient
<1> HIDE DEF a, b
<1>3. ~(b + 1 <= a)
  <2> SUFFICES ASSUME b + 1 <= a PROVE FALSE
    OBVIOUS
  <2>1. n * (b + 1) <= n * a /\ n * (b + 1) = n * b + n /\ n * a \in Nat /\ n * b \in Nat
    BY <1>1, <1>2, MulMono
  <2> QED BY <1>1, <1>2, <2>1
<1> QED BY <1>1, <1>2, <1>3 DEF a, b

LEMMA LiveIs ==
  ASSUME TypeInv
  PROVE  /\ Live \in SUBSET SlotIds /\ IsFiniteSet(Live) /\ Cardinality(Live) \in Nat
         /\ (Live # {} => Cardinality(Live) # 0)
         /\ \A s \in Live : s \in SlotIds /\ slots[s] \in Residents
<1>1. IsFiniteSet(SlotIds)
  BY SlotAssumption, FS_Interval DEF SlotIds
<1>2. Live \in SUBSET SlotIds
  BY DEF Live
<1>3. IsFiniteSet(Live) /\ Cardinality(Live) \in Nat
  BY <1>1, <1>2, FS_Subset, FS_CardinalityType
<1>4. Live # {} => Cardinality(Live) # 0
  BY <1>3, FS_EmptySet
<1>5. \A s \in Live : s \in SlotIds /\ slots[s] \in Residents
  BY DEF TypeInv, Live
<1> QED BY <1>2, <1>3, <1>4, <1>5

(* A step is a legal one, whatever the slices are and how many share.      *)
LEMMA CommitFits ==
  ASSUME TypeInv, NEW s \in Live, InLeg(slots[s]),
         slots[s].next <= Len(CheckpointsOf[slots[s].unit]),
         NEW slice \in Slices, NEW deep \in DeepSlices
  PROVE  Step(s, slice, deep) \in StepRecords /\ Fits(slots[s], Step(s, slice, deep))
<1> DEFINE r == slots[s]
           u == slots[s].unit
           k == slots[s].next
           p == slots[s].pos
           e == CheckpointsOf[u][k]
           room == e - p
           left == ObserveRoom(s)
           watch == u \in Observed /\ left < room
           limit == StepLimit(IF Fresh(u, k) THEN deep ELSE slice)
           count == Least(limit, IF watch THEN left ELSE room)
           t == Step(s, slice, deep)
<1>1. r \in Residents
  BY LiveIs
<1>2. u \in Units /\ p \in Nat /\ k \in Nat
  BY <1>1, ResidentIs
<1>3. k \in 1 .. Len(CheckpointsOf[u]) /\ e \in Nat /\ p < e
  BY <1>1, LegOf
<1>4. room \in Nat \ {0}
  <2> HIDE DEF e, p
  <2> QED BY <1>2, <1>3
<1>5. ObserveInterval \in Nat \ {0}
  BY SlotAssumption
<1>6. left = (p \div ObserveInterval + 1) * ObserveInterval - p
  BY DEF ObserveRoom
<1>7. left \in Nat \ {0}
  <2> HIDE DEF left, p
  <2> QED BY <1>2, <1>5, <1>6, RoomLeft
<1>8. limit \in Nat \ {0}
  <2> DEFINE x == IF Fresh(u, k) THEN deep ELSE slice
             y == DispatchRoom \div Cardinality(Live)
  <2>1. x \in Nat
    BY SlotAssumption
  <2>2. y \in Nat
    <3>1. Cardinality(Live) \in Nat \ {0} /\ DispatchRoom \in Nat
      BY LiveIs, SlotAssumption
    <3> QED BY <3>1, Quotient
  <2>3. limit = AtLeastOne(Least(x, y))
    BY DEF StepLimit
  <2> HIDE DEF x, y, limit
  <2> QED BY <2>1, <2>2, <2>3 DEF AtLeastOne, Least
<1>9. t = [start |-> p, count |-> count, leg |-> k - 1,
           write |-> count = room \/ (watch /\ count = left),
           observe |-> count # room, restart |-> Restarts(s)]
  BY DEF Step, Unit
<1>10. Restarts(s) <=> k > 1 /\ Fresh(u, k) /\ p = LegStart(u, k)
  BY DEF Restarts, Unit
<1>11. Restarts(s) \in BOOLEAN
  BY DEF Restarts
<1> HIDE DEF t, limit, left
<1>12. /\ count \in Nat \ {0} /\ count <= room /\ (watch => count <= left)
  <2> HIDE DEF room
  <2> QED BY <1>4, <1>7, <1>8 DEF Least
<1> HIDE DEF count
<1> DEFINE w == (count = room \/ (watch /\ count = left))
<1>13. u \in Observed /\ ~w => (p + count) \div ObserveInterval = p \div ObserveInterval
  <2> HAVE u \in Observed /\ ~w
  <2>1. count < left /\ count \in Nat
    <3> HIDE DEF room
    <3> QED BY <1>4, <1>7, <1>12
  <2>2. count < (p \div ObserveInterval + 1) * ObserveInterval - p
    BY <1>6, <2>1
  <2> HIDE DEF p, w
  <2> QED BY <1>2, <1>5, <2>1, <2>2, SameInterval
<1>14. /\ p + count <= e /\ (count # room <=> p + count # e)
  <2> HIDE DEF p, e
  <2> QED BY <1>2, <1>3, <1>12
<1> DEFINE o == count # room
<1>15. w \in BOOLEAN /\ o \in BOOLEAN /\ (p + count = e => w)
  BY <1>14
<1>16. /\ t.start = p /\ t.count = count /\ t.leg = k - 1 /\ t.write = w
       /\ t.observe = o /\ t.restart = Restarts(s)
  BY <1>9
<1>17. t \in StepRecords
  <2>1. k - 1 \in Nat
    BY <1>2, <1>3
  <2> HIDE DEF w, o, p, k
  <2>2. t = [start |-> p, count |-> count, leg |-> k - 1, write |-> w, observe |-> o,
             restart |-> Restarts(s)]
    BY <1>9 DEF w, o
  <2> QED BY <1>2, <1>11, <1>12, <1>15, <2>1, <2>2 DEF StepRecords
<1>18. Fits(r, t)
  <2>1. k <= Len(CheckpointsOf[u])
    OBVIOUS
  <2>2. o <=> p + count # e
    BY <1>14
  <2> HIDE DEF w, o
  <2> QED BY <1>10, <1>13, <1>14, <1>15, <1>16, <2>1, <2>2 DEF Fits
<1> QED BY <1>17, <1>18 DEF t

-----------------------------------------------------------------------------
(* Preparation *)

LEMMA ImageBound ==
  ASSUME NEW S, IsFiniteSet(S), NEW f
  PROVE  /\ IsFiniteSet({f[x] : x \in S})
         /\ Cardinality({f[x] : x \in S}) <= Cardinality(S)
<1> DEFINE T == {f[x] : x \in S}
           g == [x \in S |-> f[x]]
<1>1. g \in Surjection(S, T)
  BY DEF Surjection
<1> HIDE DEF g
<1>2. IsFiniteSet(T) /\ Cardinality(T) <= Cardinality(S)
  <2> HIDE DEF T
  <2> QED BY <1>1, FS_Surjection
<1> QED BY <1>2

(* More places than can be kept: an allocation finds a free one.           *)
LEMMA FreePlace ==
  ASSUME TypeInv, StoreInv, LiveInv, Cardinality({v \in Units : at[v] = "prepared"}) < Ahead
  PROVE  \E a \in 1 .. Places : ~KeptBy(a)
<1> DEFINE P == {v \in Units : at[v] = "prepared"}
           K1 == {prepared[v] : v \in P}
           K2 == {held[s] : s \in SlotIds}
           K == ({cache.at} \cup K1) \cup K2
<1>1. /\ Ahead \in Nat /\ Capacity \in Nat \ {0} /\ Places \in Nat /\ Places > Ahead + Capacity
      /\ None \notin 1 .. Places
  BY SlotAssumption
<1>2. IsFiniteSet(SlotIds) /\ Cardinality(SlotIds) = Capacity
  BY <1>1, FS_Interval DEF SlotIds
<1>3. IsFiniteSet(P) /\ Cardinality(P) \in Nat /\ Cardinality(P) < Ahead
  <2>1. IsFiniteSet(P)
    BY DEF TypeInv
  <2> QED BY <2>1, FS_CardinalityType
<1>4. IsFiniteSet(K1) /\ Cardinality(K1) <= Cardinality(P)
  <2> HIDE DEF P
  <2> QED BY <1>3, ImageBound
<1>5. IsFiniteSet(K2) /\ Cardinality(K2) <= Capacity
  BY <1>2, ImageBound
<1>6. \A a \in 1 .. Places : KeptBy(a) => a \in K
  <2> TAKE a \in 1 .. Places
  <2> HAVE KeptBy(a)
  <2>1. CASE cache.at = a
    BY <2>1
  <2>2. CASE \E u \in Units : prepared[u] = a
    <3>1. PICK u \in Units : prepared[u] = a
      BY <2>2
    <3>2. at[u] = "prepared"
      BY <1>1, <3>1 DEF StoreInv
    <3> QED BY <3>1, <3>2
  <2>3. CASE \E s \in SlotIds : held[s] = a
    BY <2>3
  <2>4. CASE \E s \in Live : slots[s].at = a
    <3>1. PICK s \in Live : slots[s].at = a
      BY <2>4
    <3>2. s \in SlotIds /\ held[s] = a
      BY <3>1 DEF LiveInv, Live
    <3> QED BY <3>2
  <2> QED BY <2>1, <2>2, <2>3, <2>4 DEF KeptBy
<1> HIDE DEF P, K1, K2
<1>7. IsFiniteSet({cache.at}) /\ Cardinality({cache.at}) = 1
  BY FS_Singleton
<1>8. /\ IsFiniteSet({cache.at} \cup K1)
      /\ Cardinality({cache.at} \cup K1) <= 1 + Cardinality(K1)
  <2>1. Cardinality({cache.at} \cap K1) \in Nat /\ Cardinality(K1) \in Nat
    BY <1>4, <1>7, FS_Intersection, FS_CardinalityType
  <2>2. /\ IsFiniteSet({cache.at} \cup K1)
        /\ Cardinality({cache.at} \cup K1)
             = Cardinality({cache.at}) + Cardinality(K1) - Cardinality({cache.at} \cap K1)
    BY <1>4, <1>7, FS_Union
  <2> QED BY <1>7, <2>1, <2>2
<1> DEFINE M == {cache.at} \cup K1
<1>9. IsFiniteSet(M) /\ Cardinality(M) <= 1 + Cardinality(K1)
  BY <1>8
<1>10. K = M \cup K2
  OBVIOUS
<1> HIDE DEF M, K
<1>11. IsFiniteSet(K) /\ Cardinality(K) <= Cardinality(M) + Cardinality(K2) /\ Cardinality(K) \in Nat
  <2>1. Cardinality(M \cap K2) \in Nat /\ Cardinality(K2) \in Nat /\ Cardinality(M) \in Nat
    BY <1>5, <1>9, FS_Intersection, FS_CardinalityType
  <2>2. /\ IsFiniteSet(M \cup K2)
        /\ Cardinality(M \cup K2) = Cardinality(M) + Cardinality(K2) - Cardinality(M \cap K2)
    BY <1>5, <1>9, FS_Union
  <2>3. Cardinality(M \cup K2) \in Nat
    BY <2>2, FS_CardinalityType
  <2> QED BY <1>10, <2>1, <2>2, <2>3
<1>12. Cardinality(K1) \in Nat /\ Cardinality(K2) \in Nat /\ Cardinality(M) \in Nat
  BY <1>4, <1>5, <1>9, FS_CardinalityType
<1>13. Cardinality(K) < Places
  BY <1>1, <1>3, <1>4, <1>5, <1>9, <1>11, <1>12
<1> SUFFICES ASSUME \A a \in 1 .. Places : KeptBy(a) PROVE FALSE
  OBVIOUS
<1>14. (1 .. Places) \in SUBSET K
  BY <1>6
<1>15. Cardinality(1 .. Places) <= Cardinality(K)
  BY <1>11, <1>14, FS_Subset
<1>16. Cardinality(1 .. Places) = Places
  BY <1>1, FS_Interval
<1> QED BY <1>1, <1>11, <1>13, <1>15, <1>16

FirstFree == CHOOSE a \in 1 .. Places : ~KeptBy(a) /\ \A b \in 1 .. a - 1 : KeptBy(b)

LEMMA FirstFreeIs ==
  ASSUME TypeInv, StoreInv, LiveInv, Cardinality({v \in Units : at[v] = "prepared"}) < Ahead
  PROVE  FirstFree \in 1 .. Places /\ ~KeptBy(FirstFree)
<1> DEFINE T == {a \in 1 .. Places : ~KeptBy(a)}
<1>1. PICK m \in T : \A n \in T : m <= n
  <2>1. T \in SUBSET Nat /\ T # {}
    BY FreePlace
  <2> HIDE DEF T
  <2> QED BY <2>1, LeastNat
<1>2. m \in 1 .. Places /\ ~KeptBy(m)
  OBVIOUS
<1>3. \A b \in 1 .. m - 1 : KeptBy(b)
  <2> TAKE b \in 1 .. m - 1
  <2>1. b \in 1 .. Places /\ b < m
    BY <1>2, SlotAssumption
  <2>2. b \notin T
    <3> HIDE DEF T
    <3> QED BY <1>1, <1>2, <2>1
  <2> QED BY <2>1, <2>2
<1> QED BY <1>2, <1>3 DEF FirstFree

(* Actions that leave the slots and the device as they are.                *)
LEMMA Untouched ==
  ASSUME LegsInv /\ CommandInv /\ SpinsInv /\ OutputInv /\ FoundInv,
         UNCHANGED <<hostVars, deviceVars>>
  PROVE  (LegsInv /\ CommandInv /\ SpinsInv /\ OutputInv /\ FoundInv)'
<1>1. UNCHANGED <<slots, steps, command, faulted, found, spins, output>>
  BY DEF hostVars, deviceVars
<1>2. Live' = Live
  BY <1>1 DEF Live
<1>3. LegsInv'
  BY <1>1, <1>2 DEF LegsInv
<1>4. CommandInv'
  BY <1>1, <1>2 DEF CommandInv
<1>5. SpinsInv'
  BY <1>1, <1>2 DEF SpinsInv
<1>6. OutputInv'
  BY <1>1, <1>2 DEF OutputInv
<1>7. FoundInv'
  BY <1>1, <1>2 DEF FoundInv
<1> QED BY <1>3, <1>4, <1>5, <1>6, <1>7

LEMMA PrepareKeeps ==
  ASSUME IInv, NEW u \in Units, Prepare(u)
  PROVE  IInv'
<1> USE DEF IInv
<1>1. /\ TypeInv /\ StoreInv /\ LiveInv
      /\ at[u] = "new" /\ ValidSchedule(WorkOf[u])
      /\ Cardinality({v \in Units : at[v] = "prepared"}) < Ahead
      /\ at' = [at EXCEPT ![u] = "prepared"]
      /\ UNCHANGED <<poolVars, hostVars, deviceVars, unbilled>>
  BY DEF Prepare
<1>2. (LegsInv /\ CommandInv /\ SpinsInv /\ OutputInv /\ FoundInv)'
  BY <1>1, Untouched
<1>3. /\ UNCHANGED <<builds, command, faulted, held, slots, betas, spins, output, inputs, found, steps>>
      /\ Live' = Live
  BY <1>1 DEF poolVars, hostVars, deviceVars, Live
<1>4. /\ at \in [Units -> States] /\ prepared \in [Units -> 1 .. Places \union {None}]
      /\ store \in [1 .. Places -> Seq(Rungs)] /\ cache \in Caches \union {None}
      /\ held \in [SlotIds -> 1 .. Places \union {None}]
  BY <1>1 DEF TypeInv
<1>5. BetasOf[u] \in Seq(Rungs) /\ BetasOf[u] = Betas(WorkOf[u])
  BY EndsOf, WorkIs
<1>6. /\ at' \in [Units -> States] /\ at'[u] = "prepared"
      /\ \A v \in Units : v # u => at'[v] = at[v]
  BY <1>1, <1>4 DEF States
<1>7. IsFiniteSet({v \in Units : at'[v] = "prepared"})
  <2>1. IsFiniteSet({v \in Units : at[v] = "prepared"})
    BY <1>1 DEF TypeInv
  <2>2. {v \in Units : at'[v] = "prepared"} = {v \in Units : at[v] = "prepared"} \cup {u}
    BY <1>6
  <2> QED BY <2>1, <2>2, FS_AddElement
<1>8. None \notin (1 .. Places) \union Residents \union Caches \union Runs
  BY SlotAssumption
<1>9. CASE Cached(WorkOf[u])
  <2>1. prepared' = [prepared EXCEPT ![u] = cache.at] /\ UNCHANGED <<store, cache>>
    BY <1>9 DEF Prepare
  <2>2. cache # None /\ cache.work = WorkOf[u] /\ cache.at \in 1 .. Places
    BY <1>4, <1>9 DEF Cached, Caches
  <2>3. /\ prepared' \in [Units -> 1 .. Places \union {None}] /\ prepared'[u] = cache.at
        /\ \A v \in Units : v # u => prepared'[v] = prepared[v]
    BY <1>4, <2>1, <2>2
  <2>4. TypeInv'
    BY <1>1, <1>3, <1>6, <1>7, <2>1, <2>3 DEF TypeInv
  <2>5. StoreInv'
    <3>1. (cache # None => store[cache.at] = Betas(cache.work))'
      BY <1>1, <2>1 DEF StoreInv
    <3>2. \A v \in Units : at'[v] # "prepared" => prepared'[v] = None
      BY <1>1, <1>6, <2>3 DEF StoreInv
    <3>3. \A v \in Units : at'[v] = "prepared" =>
            prepared'[v] # None /\ store'[prepared'[v]] = BetasOf[v] /\ ValidSchedule(WorkOf[v])
      <4> TAKE v \in Units
      <4> HAVE at'[v] = "prepared"
      <4>1. CASE v = u
        <5>1. store[cache.at] = BetasOf[u]
          BY <1>1, <1>5, <2>2 DEF StoreInv
        <5> QED BY <1>1, <1>8, <2>1, <2>2, <2>3, <4>1, <5>1
      <4>2. CASE v # u
        BY <1>1, <1>6, <2>1, <2>3, <4>2 DEF StoreInv
      <4> QED BY <4>1, <4>2
    <3>4. \A s \in SlotIds : held'[s] # None => Starts(store'[held'[s]], betas'[s])
      BY <1>1, <1>3, <2>1 DEF StoreInv
    <3> QED BY <3>1, <3>2, <3>3, <3>4 DEF StoreInv
  <2>6. LiveInv'
    BY <1>1, <1>3, <1>6, <2>1 DEF LiveInv
  <2> QED BY <1>2, <2>4, <2>5, <2>6
<1>10. CASE ~Cached(WorkOf[u])
  <2> DEFINE a == FirstFree
  <2>1. /\ store' = [store EXCEPT ![a] = BetasOf[u]]
        /\ cache' = [work |-> WorkOf[u], at |-> a]
        /\ prepared' = [prepared EXCEPT ![u] = a]
    BY <1>10 DEF Prepare, FirstFree
  <2>2. a \in 1 .. Places /\ ~KeptBy(a)
    BY <1>1, FirstFreeIs
  <2> HIDE DEF a
  <2>3. /\ prepared' \in [Units -> 1 .. Places \union {None}] /\ prepared'[u] = a
        /\ \A v \in Units : v # u => prepared'[v] = prepared[v]
    BY <1>4, <2>1, <2>2
  <2>4. /\ store' \in [1 .. Places -> Seq(Rungs)] /\ store'[a] = BetasOf[u]
        /\ \A b \in 1 .. Places : b # a => store'[b] = store[b]
    BY <1>4, <1>5, <2>1, <2>2
  <2>5. cache' \in Caches /\ cache'.work = WorkOf[u] /\ cache'.at = a
    BY <2>1, <2>2 DEF Caches
  <2>6. /\ \A v \in Units : prepared[v] # a
        /\ \A s \in SlotIds : held[s] # a
    BY <2>2 DEF KeptBy
  <2>7. TypeInv'
    BY <1>1, <1>3, <1>6, <1>7, <2>3, <2>4, <2>5 DEF TypeInv
  <2>8. StoreInv'
    <3>1. (cache # None => store[cache.at] = Betas(cache.work))'
      BY <1>5, <2>4, <2>5
    <3>2. \A v \in Units : at'[v] # "prepared" => prepared'[v] = None
      BY <1>1, <1>6, <2>3 DEF StoreInv
    <3>3. \A v \in Units : at'[v] = "prepared" =>
            prepared'[v] # None /\ store'[prepared'[v]] = BetasOf[v] /\ ValidSchedule(WorkOf[v])
      <4> TAKE v \in Units
      <4> HAVE at'[v] = "prepared"
      <4>1. CASE v = u
        BY <1>1, <1>8, <2>2, <2>3, <2>4, <4>1
      <4>2. CASE v # u
        <5>1. /\ prepared[v] # None /\ store[prepared[v]] = BetasOf[v]
              /\ ValidSchedule(WorkOf[v]) /\ prepared'[v] = prepared[v]
          BY <1>1, <1>6, <2>3, <4>2 DEF StoreInv
        <5>2. prepared[v] \in 1 .. Places /\ prepared[v] # a
          BY <1>4, <2>6, <5>1
        <5> QED BY <2>4, <5>1, <5>2
      <4> QED BY <4>1, <4>2
    <3>4. \A s \in SlotIds : held'[s] # None => Starts(store'[held'[s]], betas'[s])
      <4> TAKE s \in SlotIds
      <4> HAVE held'[s] # None
      <4>1. held[s] \in 1 .. Places /\ held[s] # a /\ held[s] # None
        BY <1>3, <1>4, <2>6
      <4>2. Starts(store[held[s]], betas[s])
        BY <1>1, <4>1 DEF StoreInv
      <4> QED BY <1>3, <2>4, <4>1, <4>2
    <3> QED BY <3>1, <3>2, <3>3, <3>4 DEF StoreInv
  <2>9. LiveInv'
    <3>1. \A s \in Live : held[s] \in 1 .. Places /\ held[s] # a
      <4> TAKE s \in Live
      <4>1. s \in SlotIds /\ slots[s] \in Residents
        BY <1>1, LiveIs
      <4>2. held[s] = slots[s].at /\ slots[s].at \in 1 .. Places
        BY <1>1, <4>1, ResidentIs DEF LiveInv
      <4> QED BY <2>6, <4>1, <4>2
    <3>2. \A s \in Live : at[slots[s].unit] = "live" /\ slots[s].unit \in Units
      <4> TAKE s \in Live
      <4>1. slots[s] \in Residents
        BY <1>1, LiveIs
      <4> QED BY <1>1, <4>1, ResidentIs DEF LiveInv
    <3>3. \A s \in Live : at'[slots[s].unit] = "live"
      BY <1>1, <1>6, <3>2
    <3>4. \A s \in Live : store'[held[s]] = store[held[s]]
      BY <2>4, <3>1
    <3> QED BY <1>1, <1>3, <3>3, <3>4 DEF LiveInv
  <2> QED BY <1>2, <2>7, <2>8, <2>9
<1> QED BY <1>9, <1>10

(* A unit that leaves the preparation without a slot.                      *)
LEMMA RefusedKeeps ==
  ASSUME IInv, NEW u \in Units, PrepareFails(u) \/ AdmitRefused(u)
  PROVE  IInv'
<1> USE DEF IInv
<1>1. /\ TypeInv /\ StoreInv /\ LiveInv
      /\ at[u] # "live" /\ at' = [at EXCEPT ![u] = "done"]
      /\ prepared' = [prepared EXCEPT ![u] = None]
      /\ UNCHANGED <<poolVars, store, cache, hostVars, deviceVars, unbilled>>
  <2>1. CASE PrepareFails(u)
    <3>1. at[u] = "new" /\ prepared' = prepared
      BY <2>1 DEF PrepareFails
    <3>2. prepared \in [Units -> 1 .. Places \union {None}] /\ prepared[u] = None
      BY <3>1 DEF TypeInv, StoreInv
    <3>3. prepared' = [prepared EXCEPT ![u] = None]
      BY <3>1, <3>2
    <3> QED BY <2>1, <3>1, <3>3 DEF PrepareFails
  <2>2. CASE AdmitRefused(u)
    BY <2>2 DEF AdmitRefused
  <2> QED BY <2>1, <2>2
<1>2. (LegsInv /\ CommandInv /\ SpinsInv /\ OutputInv /\ FoundInv)'
  BY <1>1, Untouched
<1>3. /\ UNCHANGED <<builds, command, faulted, held, slots, betas, spins, output, inputs, found, steps>>
      /\ Live' = Live
  BY <1>1 DEF poolVars, hostVars, deviceVars, Live
<1>4. /\ at \in [Units -> States] /\ prepared \in [Units -> 1 .. Places \union {None}]
  BY <1>1 DEF TypeInv
<1>5. /\ at' \in [Units -> States] /\ at'[u] = "done" /\ prepared'[u] = None
      /\ prepared' \in [Units -> 1 .. Places \union {None}]
      /\ \A v \in Units : v # u => at'[v] = at[v] /\ prepared'[v] = prepared[v]
  BY <1>1, <1>4 DEF States
<1>6. IsFiniteSet({v \in Units : at'[v] = "prepared"})
  <2>1. IsFiniteSet({v \in Units : at[v] = "prepared"})
    BY <1>1 DEF TypeInv
  <2>2. {v \in Units : at'[v] = "prepared"} \in SUBSET {v \in Units : at[v] = "prepared"}
    BY <1>5
  <2> QED BY <2>1, <2>2, FS_Subset
<1>7. TypeInv'
  BY <1>1, <1>3, <1>5, <1>6 DEF TypeInv
<1>8. StoreInv'
  <2>1. \A v \in Units : at'[v] # "prepared" => prepared'[v] = None
    BY <1>1, <1>5 DEF StoreInv
  <2>2. \A v \in Units : at'[v] = "prepared" =>
          prepared'[v] # None /\ store[prepared'[v]] = BetasOf[v] /\ ValidSchedule(WorkOf[v])
    BY <1>1, <1>5 DEF StoreInv
  <2> QED BY <1>1, <1>3, <2>1, <2>2 DEF StoreInv
<1>9. LiveInv'
  <2>1. \A s \in Live : slots[s].unit \in Units /\ at'[slots[s].unit] = "live"
    <3> TAKE s \in Live
    <3>1. slots[s] \in Residents /\ at[slots[s].unit] = "live"
      BY <1>1, LiveIs DEF LiveInv
    <3> QED BY <1>1, <1>5, <3>1, ResidentIs
  <2> QED BY <1>1, <1>3, <2>1 DEF LiveInv
<1> QED BY <1>2, <1>7, <1>8, <1>9

LEMMA BuildKeeps ==
  ASSUME IInv, Build
  PROVE  IInv'
<1> USE DEF IInv
<1>1. UNCHANGED <<prepVars, hostVars, deviceVars>>
  BY DEF Build
<1>2. (LegsInv /\ CommandInv /\ SpinsInv /\ OutputInv /\ FoundInv)'
  BY <1>1, Untouched
<1>3. UNCHANGED <<store, cache, at, prepared, command, faulted, held, slots, betas, spins, output,
                  inputs, found, steps>>
  BY <1>1 DEF prepVars, hostVars, deviceVars
<1>4. Live' = Live
  BY <1>3 DEF Live
<1>5. builds' \in 0 .. MaxBuilds
  <2>1. builds \in 0 .. MaxBuilds /\ builds < MaxBuilds /\ builds' = builds + 1 /\ MaxBuilds \in Nat
    BY SlotAssumption DEF Build, TypeInv
  <2> QED BY <2>1
<1>6. TypeInv'
  BY <1>3, <1>4, <1>5 DEF TypeInv
<1>7. StoreInv'
  BY <1>3 DEF StoreInv
<1>8. LiveInv'
  BY <1>3, <1>4 DEF LiveInv
<1> QED BY <1>2, <1>6, <1>7, <1>8

(* A pool with nothing in it, as it is built and when it is dropped.       *)
LEMMA DropKeeps ==
  ASSUME IInv, DropPool
  PROVE  IInv'
<1> USE DEF IInv
<1>1. /\ slots' = [s \in SlotIds |-> None] /\ held' = [s \in SlotIds |-> None]
      /\ steps' = <<>> /\ command' = "none" /\ faulted' = FALSE /\ found' = {}
      /\ betas' = [s \in SlotIds |-> <<>>] /\ inputs' = [s \in SlotIds |-> None]
      /\ UNCHANGED <<builds, store, cache, at, prepared, spins, output>>
  BY DEF DropPool, prepVars
<1>2. Live' = {}
  BY <1>1 DEF Live
<1>3. TypeInv'
  <2>1. /\ slots' \in [SlotIds -> Residents \union {None}]
        /\ held' \in [SlotIds -> 1 .. Places \union {None}]
        /\ DOMAIN inputs' = SlotIds /\ found' \in SUBSET Readbacks
    BY <1>1
  <2>2. betas' \in [SlotIds -> Seq(Rungs)]
    <3>1. <<>> \in Seq(Rungs)
      OBVIOUS
    <3> QED BY <1>1, <3>1
  <2> QED BY <1>1, <2>1, <2>2 DEF TypeInv
<1>4. StoreInv'
  <2>1. \A s \in SlotIds : held'[s] = None
    BY <1>1
  <2> QED BY <1>1, <2>1 DEF StoreInv
<1>5. LiveInv' /\ LegsInv' /\ SpinsInv' /\ OutputInv'
  BY <1>2 DEF LiveInv, LegsInv, SpinsInv, OutputInv
<1>6. CommandInv' /\ FoundInv'
  BY <1>1 DEF CommandInv, FoundInv
<1> QED BY <1>3, <1>4, <1>5, <1>6

(* The region of a slot after an upload.                                   *)
LEMMA OverIs ==
  ASSUME NEW S, NEW old \in Seq(S), NEW new \in Seq(S)
  PROVE  Over(old, new) \in Seq(S) /\ Starts(new, Over(old, new))
<1> DEFINE rest == SubSeq(old, Len(new) + 1, Len(old))
<1>1. rest \in Seq(S)
  OBVIOUS
<1>2. Over(old, new) = new \o rest
  BY DEF Over
<1> HIDE DEF rest
<1>3. /\ new \o rest \in Seq(S) /\ Len(new \o rest) = Len(new) + Len(rest)
      /\ \A i \in 1 .. Len(new) + Len(rest) :
           (new \o rest)[i] = IF i <= Len(new) THEN new[i] ELSE rest[i - Len(new)]
  BY <1>1, ConcatAt
<1> DEFINE x == new \o rest
<1>4. /\ x \in Seq(S) /\ Len(x) = Len(new) + Len(rest) /\ Len(new) \in Nat /\ Len(rest) \in Nat
      /\ \A i \in 1 .. Len(new) + Len(rest) : x[i] = IF i <= Len(new) THEN new[i] ELSE rest[i - Len(new)]
  BY <1>1, <1>3
<1> HIDE DEF x
<1>5. \A i \in 1 .. Len(new) : new[i] = x[i]
  BY <1>4
<1> QED BY <1>2, <1>4, <1>5 DEF Starts, x

FreeSlot == CHOOSE s \in SlotIds \ Live : \A t \in SlotIds \ Live : s <= t

LEMMA FreeSlotIs ==
  ASSUME Live # SlotIds
  PROVE  FreeSlot \in SlotIds /\ FreeSlot \notin Live
<1> DEFINE T == SlotIds \ Live
<1>1. T \in SUBSET Nat /\ T # {}
  BY SlotAssumption DEF SlotIds, Live
<1> HIDE DEF T
<1>2. \E m \in T : \A n \in T : m <= n
  BY <1>1, LeastNat
<1>3. \E m \in SlotIds \ Live : \A n \in SlotIds \ Live : m <= n
  BY <1>2 DEF T
<1> QED BY <1>3 DEF FreeSlot

LEMMA AdmitKeeps ==
  ASSUME IInv, NEW u \in Units, Admit(u)
  PROVE  IInv'
<1> USE DEF IInv
<1> DEFINE s == FreeSlot
           a == prepared[u]
           r == [unit |-> u, at |-> a, pos |-> 0, next |-> 1, output |-> FALSE, us |-> 0]
<1>1. /\ TypeInv /\ StoreInv /\ LiveInv /\ LegsInv /\ SpinsInv /\ OutputInv
      /\ command = "none" /\ ~faulted /\ at[u] = "prepared" /\ Live # SlotIds
      /\ slots' = [slots EXCEPT ![s] = r]
      /\ inputs' = [inputs EXCEPT ![s] = u]
      /\ held' = [held EXCEPT ![s] = a]
      /\ betas' = IF held[s] = a THEN betas ELSE [betas EXCEPT ![s] = Over(@, store[a])]
      /\ at' = [at EXCEPT ![u] = "live"]
      /\ prepared' = [prepared EXCEPT ![u] = None] /\ found' = {}
      /\ UNCHANGED <<builds, store, cache, steps, command, faulted, spins, output>>
  BY DEF Admit, Idle, Uploaded, Resident, FreeSlot, poolVars
<1>2. s \in SlotIds /\ s \notin Live
  BY <1>1, FreeSlotIs
<1>3. /\ at \in [Units -> States] /\ prepared \in [Units -> 1 .. Places \union {None}]
      /\ store \in [1 .. Places -> Seq(Rungs)] /\ cache \in Caches \union {None}
      /\ held \in [SlotIds -> 1 .. Places \union {None}] /\ betas \in [SlotIds -> Seq(Rungs)]
      /\ slots \in [SlotIds -> Residents \union {None}] /\ DOMAIN inputs = SlotIds
  BY <1>1 DEF TypeInv
<1>4. a \in 1 .. Places /\ a # None /\ store[a] = BetasOf[u] /\ ValidSchedule(WorkOf[u])
      /\ store[a] \in Seq(Rungs)
  BY <1>1, <1>3 DEF StoreInv
<1>5. r \in Residents /\ InLeg(r) /\ (\A run : Sound(r, run)) /\ (\A out : Shown(r, out))
  BY <1>4, AdmittedIs
<1>6. r # None /\ r.unit = u /\ r.at = a
  BY <1>5, SlotAssumption
<1>7. \A t \in Live : slots[t] \in Residents /\ slots[t].unit \in Units /\ slots[t].unit # u
                        /\ at[slots[t].unit] = "live" /\ t # s
  <2> TAKE t \in Live
  <2>1. slots[t] \in Residents /\ at[slots[t].unit] = "live" /\ t # s
    BY <1>1, <1>2, LiveIs DEF LiveInv
  <2> QED BY <1>1, <2>1, ResidentIs
<1> HIDE DEF s, a, r
<1>8. /\ at' \in [Units -> States] /\ at'[u] = "live" /\ prepared'[u] = None
      /\ prepared' \in [Units -> 1 .. Places \union {None}]
      /\ \A v \in Units : v # u => at'[v] = at[v] /\ prepared'[v] = prepared[v]
  BY <1>1, <1>3 DEF States
<1>9. /\ slots' \in [SlotIds -> Residents \union {None}] /\ slots'[s] = r
      /\ held' \in [SlotIds -> 1 .. Places \union {None}] /\ held'[s] = a
      /\ inputs'[s] = u /\ DOMAIN inputs' = SlotIds
      /\ \A t \in SlotIds : t # s => slots'[t] = slots[t] /\ held'[t] = held[t] /\ inputs'[t] = inputs[t]
  BY <1>1, <1>2, <1>3, <1>4, <1>5
<1>10. Live' = Live \cup {s}
  BY <1>2, <1>6, <1>9 DEF Live
<1>11. /\ betas' \in [SlotIds -> Seq(Rungs)] /\ Starts(store[a], betas'[s])
       /\ \A t \in SlotIds : t # s => betas'[t] = betas[t]
  <2>1. CASE held[s] = a
    <3>1. betas' = betas
      BY <1>1, <2>1
    <3>2. Starts(store[a], betas[s])
      BY <1>1, <1>2, <1>4, <2>1 DEF StoreInv
    <3> QED BY <1>3, <3>1, <3>2
  <2>2. CASE held[s] # a
    <3>1. betas' = [betas EXCEPT ![s] = Over(betas[s], store[a])]
      BY <1>1, <2>2
    <3>2. betas[s] \in Seq(Rungs)
      BY <1>2, <1>3
    <3> DEFINE o == Over(betas[s], store[a])
    <3>3. o \in Seq(Rungs) /\ Starts(store[a], o)
      BY <1>4, <3>2, OverIs
    <3>4. betas' = [betas EXCEPT ![s] = o]
      BY <3>1
    <3> HIDE DEF o
    <3>5. /\ betas' \in [SlotIds -> Seq(Rungs)] /\ betas'[s] = o
          /\ \A t \in SlotIds : t # s => betas'[t] = betas[t]
      BY <1>2, <1>3, <3>3, <3>4
    <3> QED BY <3>3, <3>5
  <2> QED BY <2>1, <2>2
<1>12. TypeInv'
  <2>1. IsFiniteSet({v \in Units : at'[v] = "prepared"})
    <3>1. IsFiniteSet({v \in Units : at[v] = "prepared"})
      BY <1>1 DEF TypeInv
    <3>2. {v \in Units : at'[v] = "prepared"} \in SUBSET {v \in Units : at[v] = "prepared"}
      BY <1>8
    <3> QED BY <3>1, <3>2, FS_Subset
  <2>2. found' \in SUBSET Readbacks
    BY <1>1
  <2> QED BY <1>1, <1>8, <1>9, <1>11, <2>1, <2>2 DEF TypeInv
<1>13. StoreInv'
  <2>1. \A v \in Units : at'[v] # "prepared" => prepared'[v] = None
    BY <1>1, <1>8 DEF StoreInv
  <2>2. \A v \in Units : at'[v] = "prepared" =>
          prepared'[v] # None /\ store[prepared'[v]] = BetasOf[v] /\ ValidSchedule(WorkOf[v])
    BY <1>1, <1>8 DEF StoreInv
  <2>3. \A t \in SlotIds : held'[t] # None => Starts(store[held'[t]], betas'[t])
    <3> TAKE t \in SlotIds
    <3>1. CASE t = s
      BY <1>9, <1>11, <3>1
    <3>2. CASE t # s
      BY <1>1, <1>9, <1>11, <3>2 DEF StoreInv
    <3> QED BY <3>1, <3>2
  <2> QED BY <1>1, <2>1, <2>2, <2>3 DEF StoreInv
<1>14. \A t \in Live' : t = s \/ (t \in Live /\ slots'[t] = slots[t] /\ held'[t] = held[t]
                                    /\ inputs'[t] = inputs[t] /\ t \in SlotIds)
  BY <1>7, <1>9, <1>10 DEF Live
<1>15. LiveInv'
  <2>1. \A t \in Live' :
          /\ slots'[t].at = held'[t] /\ store[held'[t]] = BetasOf[slots'[t].unit]
          /\ inputs'[t] = slots'[t].unit /\ at'[slots'[t].unit] = "live"
          /\ ValidSchedule(WorkOf[slots'[t].unit])
    <3> TAKE t \in Live'
    <3>1. CASE t = s
      BY <1>4, <1>6, <1>8, <1>9, <3>1
    <3>2. CASE t # s
      <4>1. t \in Live /\ slots'[t] = slots[t] /\ held'[t] = held[t] /\ inputs'[t] = inputs[t]
        BY <1>14, <3>2
      <4>2. at'[slots[t].unit] = "live"
        BY <1>7, <1>8, <4>1
      <4> QED BY <1>1, <4>1, <4>2 DEF LiveInv
    <3> QED BY <3>1, <3>2
  <2>2. \A t, v \in Live' : t # v => slots'[t].unit # slots'[v].unit
    <3> TAKE t, v \in Live'
    <3> HAVE t # v
    <3>1. CASE t = s
      BY <1>6, <1>7, <1>9, <1>14, <3>1
    <3>2. CASE v = s
      BY <1>6, <1>7, <1>9, <1>14, <3>2
    <3>3. CASE t # s /\ v # s
      BY <1>1, <1>14, <3>3 DEF LiveInv
    <3> QED BY <3>1, <3>2, <3>3
  <2> QED BY <1>1, <2>1, <2>2 DEF LiveInv
<1>16. LegsInv'
  BY <1>1, <1>5, <1>9, <1>14 DEF LegsInv
<1>17. CommandInv' /\ FoundInv'
  BY <1>1 DEF CommandInv, FoundInv
<1>18. SpinsInv'
  <2>1. \A t \in Live' : Sound(slots'[t], spins[t])
    BY <1>1, <1>5, <1>9, <1>14 DEF SpinsInv
  <2> QED BY <1>1, <2>1 DEF SpinsInv
<1>19. OutputInv'
  <2>1. \A t \in Live' : Shown(slots'[t], output[t])
    BY <1>1, <1>5, <1>9, <1>14 DEF OutputInv
  <2> QED BY <1>1, <2>1 DEF OutputInv
<1> QED BY <1>12, <1>13, <1>15, <1>16, <1>17, <1>18, <1>19

(* A unit that leaves its slot.                                            *)
LEMMA VacatedKeeps ==
  ASSUME IInv, NEW s \in SlotIds, Release(s) \/ FlushFaulted(s)
  PROVE  IInv'
<1> USE DEF IInv
<1> DEFINE u == slots[s].unit
<1>1. /\ TypeInv /\ StoreInv /\ LiveInv /\ LegsInv /\ SpinsInv /\ OutputInv /\ FoundInv
      /\ s \in Live /\ command = "none"
      /\ at' = [at EXCEPT ![u] = "done"] /\ slots' = [slots EXCEPT ![s] = None]
      /\ found' \in SUBSET {c \in found : c.slot # s} /\ (faulted => found' = {})
      /\ UNCHANGED <<builds, store, cache, prepared, held, steps, command, faulted,
                     betas, inputs, spins, output>>
  <2>1. CASE Release(s)
    BY <2>1 DEF Release, Idle, poolVars, deviceVars
  <2>2. CASE FlushFaulted(s)
    BY <2>2 DEF FlushFaulted, CommandInv, poolVars, deviceVars
  <2> QED BY <2>1, <2>2
<1>2. /\ at \in [Units -> States] /\ slots \in [SlotIds -> Residents \union {None}]
      /\ u \in Units /\ at[u] = "live"
  <2>1. slots[s] \in Residents
    BY <1>1, LiveIs
  <2> QED BY <1>1, <2>1, ResidentIs DEF TypeInv, LiveInv
<1>3. /\ at' \in [Units -> States] /\ at'[u] = "done"
      /\ \A v \in Units : v # u => at'[v] = at[v]
  BY <1>1, <1>2 DEF States
<1>4. /\ slots' \in [SlotIds -> Residents \union {None}] /\ slots'[s] = None
      /\ \A t \in SlotIds : t # s => slots'[t] = slots[t]
  BY <1>1, <1>2
<1>5. \A t \in Live : t # s => slots[t].unit \in Units /\ slots[t].unit # u
  <2> TAKE t \in Live
  <2>1. slots[t] \in Residents
    BY <1>1, LiveIs
  <2> QED BY <1>1, <2>1, ResidentIs DEF LiveInv
<1> HIDE DEF u
<1>6. \A t \in Live' : t \in Live /\ t # s /\ t \in SlotIds /\ slots'[t] = slots[t]
  BY <1>4 DEF Live
<1>7. TypeInv'
  <2>1. IsFiniteSet({v \in Units : at'[v] = "prepared"})
    <3>1. IsFiniteSet({v \in Units : at[v] = "prepared"})
      BY <1>1 DEF TypeInv
    <3>2. {v \in Units : at'[v] = "prepared"} \in SUBSET {v \in Units : at[v] = "prepared"}
      BY <1>3
    <3> QED BY <3>1, <3>2, FS_Subset
  <2>2. found' \in SUBSET Readbacks
    BY <1>1 DEF TypeInv
  <2> QED BY <1>1, <1>3, <1>4, <2>1, <2>2 DEF TypeInv
<1>8. StoreInv'
  <2>1. \A v \in Units : at'[v] # "prepared" => prepared[v] = None
    BY <1>1, <1>2, <1>3 DEF StoreInv
  <2>2. \A v \in Units : at'[v] = "prepared" =>
          prepared[v] # None /\ store[prepared[v]] = BetasOf[v] /\ ValidSchedule(WorkOf[v])
    BY <1>1, <1>3 DEF StoreInv
  <2> QED BY <1>1, <2>1, <2>2 DEF StoreInv
<1>9. LiveInv'
  <2>1. \A t \in Live' :
          /\ slots'[t].at = held[t] /\ store[held[t]] = BetasOf[slots'[t].unit]
          /\ inputs[t] = slots'[t].unit /\ at'[slots'[t].unit] = "live"
          /\ ValidSchedule(WorkOf[slots'[t].unit])
    BY <1>1, <1>3, <1>5, <1>6 DEF LiveInv
  <2>2. \A t, v \in Live' : t # v => slots'[t].unit # slots'[v].unit
    BY <1>1, <1>6 DEF LiveInv
  <2> QED BY <1>1, <2>1, <2>2 DEF LiveInv
<1>10. LegsInv'
  BY <1>1, <1>6 DEF LegsInv
<1>11. CommandInv'
  BY <1>1 DEF CommandInv
<1>12. SpinsInv'
  BY <1>1, <1>6 DEF SpinsInv
<1>13. OutputInv'
  BY <1>1, <1>6 DEF OutputInv
<1>14. FoundInv'
  <2>1. \A c \in found' : c.slot \in Live' /\ Taken(c, slots'[c.slot], output[c.slot])
    <3> TAKE c \in found'
    <3>1. c \in found /\ c.slot # s /\ c.slot \in Live /\ Taken(c, slots[c.slot], output[c.slot])
      BY <1>1 DEF FoundInv
    <3>2. slots'[c.slot] = slots[c.slot] /\ c.slot \in Live'
      BY <1>4, <3>1 DEF Live
    <3> QED BY <3>1, <3>2
  <2> QED BY <1>1, <2>1 DEF FoundInv
<1> QED BY <1>7, <1>8, <1>9, <1>10, <1>11, <1>12, <1>13, <1>14

LEMMA CommitKeeps ==
  ASSUME IInv, CommitStep
  PROVE  IInv'
<1> USE DEF IInv
<1>1. /\ TypeInv /\ StoreInv /\ LiveInv /\ LegsInv /\ SpinsInv /\ OutputInv
      /\ command = "none" /\ ~faulted /\ Live # {}
      /\ command' = "running" /\ found' = {}
      /\ UNCHANGED <<builds, store, cache, at, prepared, slots, held, faulted, betas, inputs,
                     spins, output>>
  BY DEF CommitStep, Idle, poolVars, prepVars, deviceVars
<1>2. \A s \in Live : slots[s].next <= Len(CheckpointsOf[slots[s].unit])
  BY DEF CommitStep, Unit
<1>3. PICK slice \in Slices, deep \in DeepSlices : steps' = [s \in Live |-> Step(s, slice, deep)]
  BY DEF CommitStep
<1>4. \A s \in Live : Step(s, slice, deep) \in StepRecords /\ Fits(slots[s], Step(s, slice, deep))
  BY <1>1, <1>2, CommitFits DEF LegsInv
<1>5. steps' \in [Live -> StepRecords] /\ \A s \in Live : Fits(slots[s], steps'[s])
  BY <1>3, <1>4
<1>6. Live' = Live
  BY <1>1 DEF Live
<1>7. TypeInv'
  BY <1>1, <1>5, <1>6 DEF TypeInv
<1>8. StoreInv' /\ LiveInv' /\ LegsInv'
  BY <1>1, <1>6 DEF StoreInv, LiveInv, LegsInv
<1>9. CommandInv'
  BY <1>1, <1>5, <1>6 DEF CommandInv
<1>10. SpinsInv' /\ OutputInv' /\ FoundInv'
  BY <1>1, <1>6 DEF SpinsInv, OutputInv, FoundInv
<1> QED BY <1>7, <1>8, <1>9, <1>10

(* What a command that failed leaves is not looked at.                     *)
LEMMA FailKeeps ==
  ASSUME IInv, Fail \/ TakeFails
  PROVE  IInv'
<1> USE DEF IInv
<1>1. /\ TypeInv /\ StoreInv /\ LiveInv /\ LegsInv /\ CommandInv /\ found = {}
      /\ UNCHANGED <<builds, store, cache, at, prepared, slots, held, steps, found, betas, inputs>>
      /\ command \in {"running", "error"} /\ command' \in {"error", "none"}
      /\ command' = "error" => faulted' = faulted
      /\ command' = "none" => faulted' = TRUE
      /\ DOMAIN spins' = SlotIds /\ DOMAIN output' = SlotIds
  <2>1. CASE Fail
    BY <2>1 DEF Fail, poolVars, prepVars, CommandInv
  <2>2. CASE TakeFails
    BY <2>2 DEF TakeFails, poolVars, prepVars, deviceVars, CommandInv, TypeInv
  <2> QED BY <2>1, <2>2
<1>2. Live' = Live
  BY <1>1 DEF Live
<1>3. faulted' \in BOOLEAN
  BY <1>1 DEF TypeInv
<1>4. TypeInv'
  BY <1>1, <1>2, <1>3 DEF TypeInv
<1>5. StoreInv' /\ LiveInv' /\ LegsInv'
  BY <1>1, <1>2 DEF StoreInv, LiveInv, LegsInv
<1>6. CommandInv'
  <2>1. ~faulted /\ Live # {} /\ \A s \in Live : Fits(slots[s], steps[s])
    BY <1>1 DEF CommandInv
  <2> QED BY <1>1, <1>2, <2>1 DEF CommandInv
<1>7. SpinsInv' /\ OutputInv' /\ FoundInv'
  BY <1>1 DEF SpinsInv, OutputInv, FoundInv
<1> QED BY <1>4, <1>5, <1>6, <1>7

LEMMA CompleteKeeps ==
  ASSUME IInv, Complete
  PROVE  IInv'
<1> USE DEF IInv
<1>1. /\ TypeInv /\ StoreInv /\ LiveInv /\ LegsInv /\ CommandInv /\ SpinsInv /\ OutputInv
      /\ command = "running" /\ command' = "completed" /\ found = {} /\ ~faulted /\ Live # {}
      /\ \A s \in Live : Fits(slots[s], steps[s])
      /\ UNCHANGED <<builds, store, cache, at, prepared, slots, held, steps, faulted, found,
                     betas, inputs>>
  BY DEF Complete, poolVars, prepVars, CommandInv
<1>2. steps \in [Live -> StepRecords] /\ Stepped = Live
  BY <1>1 DEF TypeInv, Stepped
<1>3. \A s \in Live : s \in SlotIds /\ slots[s] \in Residents /\ slots[s].unit \in Units
  BY <1>1, LiveIs, ResidentIs
<1>4. /\ DOMAIN spins' = SlotIds /\ DOMAIN output' = SlotIds
      /\ \A s \in Live : spins'[s] = Ran(s)
      /\ \A s \in Live : output'[s] = IF steps[s].write THEN Ran(s) ELSE output[s]
  BY <1>2, <1>3 DEF Complete
<1>5. \A s \in Live : Ran(s) = RunAt(slots[s].unit, slots[s].next, slots[s].pos + steps[s].count)
  <2> TAKE s \in Live
  <2> DEFINE r == slots[s]
             t == steps[s]
             b == betas[s]
             ran == Ran(s)
             spin == spins[s]
  <2>1. r \in Residents /\ t \in StepRecords /\ InLeg(r) /\ Fits(r, t)
    BY <1>1, <1>2, <1>3 DEF LegsInv
  <2>2. ValidSchedule(WorkOf[r.unit]) /\ inputs[s] = r.unit
    BY <1>1 DEF LiveInv
  <2>3. b \in Seq(Rungs) /\ Starts(BetasOf[r.unit], b)
    <3>1. held[s] # None
      <4>1. held[s] = r.at /\ r.at \in 1 .. Places
        BY <1>1, <2>1, ResidentIs DEF LiveInv
      <4> QED BY <4>1, SlotAssumption
    <3>2. Starts(store[held[s]], b) /\ store[held[s]] = BetasOf[r.unit]
      BY <1>1, <1>3, <3>1 DEF StoreInv, LiveInv
    <3> QED BY <1>1, <1>3, <3>2 DEF TypeInv
  <2>4. Sound(r, spin)
    BY <1>1 DEF SpinsInv
  <2>5. ran = RanBy(r, t, b, spin)
    BY <2>2 DEF Ran, RanBy
  <2> HIDE DEF r, t, b, ran, spin
  <2>6. RanBy(r, t, b, spin) = RunAt(r.unit, r.next, r.pos + t.count)
    BY <2>1, <2>2, <2>3, <2>4, RanIs
  <2> QED BY <2>5, <2>6 DEF r, t, ran
<1>6. Live' = Live
  BY <1>1 DEF Live
<1>7. TypeInv'
  BY <1>1, <1>4, <1>6 DEF TypeInv
<1>8. StoreInv' /\ LiveInv' /\ LegsInv'
  BY <1>1, <1>6 DEF StoreInv, LiveInv, LegsInv
<1>9. CommandInv'
  BY <1>1, <1>6 DEF CommandInv
<1>10. SpinsInv'
  BY <1>1, <1>4, <1>5, <1>6 DEF SpinsInv
<1>11. OutputInv'
  <2>1. \A s \in Live : Shown(slots[s], output'[s])
    <3> TAKE s \in Live
    <3>1. CASE ~steps[s].write
      BY <1>1, <1>4, <3>1 DEF OutputInv
    <3>2. CASE steps[s].write
      <4> DEFINE r == slots[s]
                 t == steps[s]
                 p == slots[s].pos + steps[s].count
                 out == output'[s]
      <4>1. r \in Residents /\ t \in StepRecords /\ InLeg(r) /\ Fits(r, t)
        BY <1>1, <1>2, <1>3 DEF LegsInv
      <4>2. out = RunAt(r.unit, r.next, p)
        BY <1>4, <1>5, <3>2
      <4>3. /\ r.next \in 1 .. Len(CheckpointsOf[r.unit]) /\ p \in Nat /\ r.pos < p
            /\ p <= CheckpointsOf[r.unit][r.next] /\ p <= Len(BetasOf[r.unit])
            /\ LegStart(r.unit, r.next) < p
        BY <4>1, StepEnds
      <4>4. r.pos \div ObserveInterval <= p \div ObserveInterval
        <5>1. ObserveInterval \in Nat \ {0} /\ r.pos \in Nat /\ r.pos <= p
          <6>1. ObserveInterval \in Nat \ {0}
            BY SlotAssumption
          <6>2. r.pos \in Nat
            BY <4>1, ResidentIs
          <6> HIDE DEF r, p
          <6> QED BY <4>3, <6>1, <6>2
        <5> HIDE DEF r, p
        <5> QED BY <4>3, <5>1, LaterInterval, ZenonT(30)
      <4>5. /\ DOMAIN CheckpointsOf[r.unit] = 1 .. Len(CheckpointsOf[r.unit])
            /\ Len(BetasOf[r.unit]) \in Nat
        BY <1>3, EndsOf
      <4>6. Shown(r, output[s])
        BY <1>1 DEF OutputInv
      <4> HIDE DEF r, p, out
      <4>7. Written(r, out, r.next, p)
        BY <4>2, <4>3, <4>4 DEF Written
      <4>8. Shown(r, out)
        BY <4>3, <4>5, <4>6, <4>7 DEF Shown
      <4> QED BY <4>8 DEF r, out
    <3> QED BY <3>1, <3>2
  <2> QED BY <1>1, <1>6, <2>1 DEF OutputInv
<1>12. FoundInv'
  BY <1>1 DEF FoundInv
<1> QED BY <1>7, <1>8, <1>9, <1>10, <1>11, <1>12

LEMMA ShareIs ==
  ASSUME NEW n \in Nat \ {0}, NEW i
  PROVE  Share(n, i) \in Nat
<1>1. DeviceTime \in Nat
  BY SlotAssumption
<1>2. DeviceTime \div n \in Nat
  BY <1>1, Quotient
<1> QED BY <1>2 DEF Share

LEMMA AdvancedIs ==
  ASSUME NEW s, slots[s] \in Residents, steps[s] \in StepRecords,
         Share(Cardinality(Stepped), Turn(s)) \in Nat
  PROVE  /\ Advanced(s) \in Residents /\ Took(slots[s], steps[s], Advanced(s))
         /\ Advanced(s).at = slots[s].at
         /\ Advanced(s).us = slots[s].us + Share(Cardinality(Stepped), Turn(s))
<1> DEFINE r == slots[s]
           t == steps[s]
           n == Share(Cardinality(Stepped), Turn(s))
           q == Advanced(s)
           g == t.write /\ ~t.observe
           o == (r.output \/ t.write)
<1>1. /\ r.unit \in Units /\ r.at \in 1 .. Places /\ r.pos \in Nat /\ r.next \in Nat
      /\ r.output \in BOOLEAN /\ r.us \in Nat
      /\ t.count \in Nat /\ t.write \in BOOLEAN /\ t.observe \in BOOLEAN
  BY ResidentIs, StepIs
<1>2. q = [r EXCEPT !.pos = @ + t.count, !.us = @ + n, !.output = o,
             !.next = IF g THEN @ + 1 ELSE @]
  BY DEF Advanced
<1>3. r = [unit |-> r.unit, at |-> r.at, pos |-> r.pos, next |-> r.next, output |-> r.output,
           us |-> r.us]
  BY DEF Residents
<1>4. o \in BOOLEAN
  OBVIOUS
<1> DEFINE k == IF g THEN r.next + 1 ELSE r.next
<1>5. k \in Nat /\ n \in Nat
  BY <1>1
<1> HIDE DEF r, t, n, q, g, o
<1>6. q = [unit |-> r.unit, at |-> r.at, pos |-> r.pos + t.count, next |-> k, output |-> o,
           us |-> r.us + n]
  BY <1>2, <1>3
<1> HIDE DEF k
<1>7. r.pos + t.count \in Nat /\ r.us + n \in Nat
  BY <1>1, <1>5
<1>8. q \in Residents
  BY <1>1, <1>4, <1>5, <1>6, <1>7 DEF Residents
<1>9. /\ q.unit = r.unit /\ q.at = r.at /\ q.pos = r.pos + t.count /\ q.next = k /\ q.output = o
      /\ q.us = r.us + n
  BY <1>6
<1>10. Took(r, t, q)
  BY <1>9 DEF Took, k, g, o
<1> QED BY <1>8, <1>9, <1>10 DEF r, t, n, q

LEMMA TakeKeeps ==
  ASSUME IInv, TakeCheckpoints
  PROVE  IInv'
<1> USE DEF IInv
<1>1. /\ TypeInv /\ StoreInv /\ LiveInv /\ LegsInv /\ CommandInv /\ SpinsInv /\ OutputInv
      /\ command = "completed" /\ command' = "none" /\ ~faulted /\ Live # {}
      /\ \A s \in Live : Fits(slots[s], steps[s])
      /\ UNCHANGED <<builds, store, cache, at, prepared, held, steps, faulted, betas, inputs,
                     spins, output>>
  BY DEF TakeCheckpoints, poolVars, prepVars, deviceVars, CommandInv
<1>2. steps \in [Live -> StepRecords] /\ Stepped = Live
  BY <1>1 DEF TypeInv, Stepped
<1>3. Cardinality(Live) \in Nat \ {0} /\ Live \in SUBSET SlotIds
  BY <1>1, LiveIs
<1>4. \A s \in Live : s \in SlotIds /\ slots[s] \in Residents /\ steps[s] \in StepRecords
                        /\ slots[s].unit \in Units /\ InLeg(slots[s])
  BY <1>1, <1>2, LiveIs, ResidentIs DEF LegsInv
<1>5. \A s \in Live : Advanced(s) \in Residents /\ Took(slots[s], steps[s], Advanced(s))
                        /\ Advanced(s).at = slots[s].at
  <2> TAKE s \in Live
  <2>1. Share(Cardinality(Stepped), Turn(s)) \in Nat
    BY <1>2, <1>3, ShareIs
  <2> QED BY <1>4, <2>1, AdvancedIs
<1>6. slots' = [s \in SlotIds |-> IF s \in Live THEN Advanced(s) ELSE slots[s]]
  BY <1>2 DEF TakeCheckpoints
<1>7. /\ \A s \in Live : slots'[s] \in Residents /\ Took(slots[s], steps[s], slots'[s])
                           /\ slots'[s].at = slots[s].at /\ slots'[s].unit = slots[s].unit
      /\ \A s \in SlotIds : s \notin Live => slots'[s] = slots[s]
  BY <1>4, <1>5, <1>6 DEF Took
<1>8. slots' \in [SlotIds -> Residents \union {None}]
  <2>1. \A s \in SlotIds : slots'[s] \in Residents \union {None}
    BY <1>1, <1>7 DEF TypeInv
  <2>2. slots' = [s \in SlotIds |-> slots'[s]]
    BY <1>6
  <2> QED BY <2>1, <2>2
<1>9. Live' = Live
  <2>1. None \notin Residents
    BY SlotAssumption
  <2> QED BY <1>4, <1>7, <2>1 DEF Live
<1>10. \A s \in Live : InLeg(slots'[s]) /\ slots'[s].pos > 0 /\ LastLeg(slots'[s]) = slots[s].next
  BY <1>1, <1>4, <1>7, TookInLeg
<1>11. \A s \in Live :
         /\ spins[s] = RunAt(slots[s].unit, slots[s].next, slots[s].pos + steps[s].count)
         /\ steps[s].write => output[s] = spins[s]
  BY <1>1 DEF SpinsInv
<1>12. \A c \in found' : \E s \in Live : steps[s].write /\ c = Checkpoint(s)
  BY <1>2 DEF TakeCheckpoints
<1>13. \A s \in Live :
         /\ Checkpoint(s).slot = s /\ Checkpoint(s).index = slots[s].next
         /\ Checkpoint(s).observe = steps[s].observe
         /\ Checkpoint(s).last <=>
              ~steps[s].observe /\ slots[s].next = Len(CheckpointsOf[slots[s].unit])
         /\ Checkpoint(s).position =
              slots[s].pos + steps[s].count - AnnealStart(slots[s].unit, slots[s].next)
         /\ Checkpoint(s) \in Readbacks
  <2> TAKE s \in Live
  <2> DEFINE u == slots[s].unit
             k == slots[s].next
             o == steps[s].observe
             l == ~steps[s].observe /\ slots[s].next = Len(CheckpointsOf[slots[s].unit])
             p == slots[s].pos + steps[s].count - AnnealStart(slots[s].unit, slots[s].next)
             c == Checkpoint(s)
  <2>1. c = [slot |-> s, index |-> k, observe |-> o, last |-> l, position |-> p]
    BY DEF Checkpoint, Unit
  <2>2. k \in Nat /\ o \in BOOLEAN /\ s \in SlotIds
    BY <1>4, ResidentIs, StepIs
  <2>3. l \in BOOLEAN
    OBVIOUS
  <2>4. p \in Int
    <3>1. k <= Len(CheckpointsOf[u])
      BY <1>1 DEF Fits
    <3>2. AnnealStart(u, k) \in Nat /\ slots[s].pos \in Nat /\ steps[s].count \in Nat
      BY <1>4, <3>1, LegOf, ResidentIs, StepIs
    <3> QED BY <3>2
  <2> HIDE DEF k, o, l, p, c
  <2>5. c.slot = s /\ c.index = k /\ c.observe = o /\ c.last = l /\ c.position = p
        /\ c \in Readbacks
    BY <2>1, <2>2, <2>3, <2>4 DEF Readbacks
  <2> QED BY <2>5 DEF k, o, l, p, c
<1>14. TypeInv'
  <2>1. found' \in SUBSET Readbacks
    BY <1>12, <1>13
  <2> QED BY <1>1, <1>8, <2>1 DEF TypeInv
<1>15. StoreInv'
  BY <1>1 DEF StoreInv
<1>16. LiveInv'
  BY <1>1, <1>7, <1>9 DEF LiveInv
<1>17. LegsInv'
  BY <1>9, <1>10 DEF LegsInv
<1>18. CommandInv'
  BY <1>1 DEF CommandInv
<1>19. SpinsInv'
  <2>1. \A s \in Live : Sound(slots'[s], spins[s])
    <3> TAKE s \in Live
    <3>1. slots'[s].unit = slots[s].unit /\ slots'[s].pos = slots[s].pos + steps[s].count
      BY <1>7 DEF Took
    <3> QED BY <1>10, <1>11, <3>1 DEF Sound
  <2> QED BY <1>1, <1>9, <2>1 DEF SpinsInv
<1>20. OutputInv'
  <2>1. \A s \in Live : Shown(slots'[s], output[s])
    <3> TAKE s \in Live
    <3>1. Shown(slots[s], output[s])
      BY <1>1 DEF OutputInv
    <3>2. steps[s].write =>
            output[s] = RunAt(slots[s].unit, slots[s].next, slots[s].pos + steps[s].count)
      BY <1>11
    <3> QED BY <1>1, <1>4, <1>7, <3>1, <3>2, TookShown
  <2> QED BY <1>1, <1>9, <2>1 DEF OutputInv
<1>21. FoundInv'
  <2>1. \A c \in found' : c.slot \in Live /\ Taken(c, slots'[c.slot], output[c.slot])
    <3> TAKE c \in found'
    <3>1. PICK s \in Live : steps[s].write /\ c = Checkpoint(s)
      BY <1>12
    <3>2. output[s] = RunAt(slots[s].unit, slots[s].next, slots[s].pos + steps[s].count)
      BY <1>11, <3>1
    <3> DEFINE r == slots[s]
               t == steps[s]
               q == slots'[s]
               out == output[s]
    <3>3. /\ c.slot = s /\ c.index = r.next /\ c.observe = t.observe
          /\ (c.last <=> ~t.observe /\ r.next = Len(CheckpointsOf[r.unit]))
          /\ c.position = r.pos + t.count - AnnealStart(r.unit, r.next)
      BY <1>13, <3>1
    <3>4. /\ r \in Residents /\ t \in StepRecords /\ InLeg(r) /\ Fits(r, t) /\ Took(r, t, q)
          /\ t.write /\ out = RunAt(r.unit, r.next, r.pos + t.count)
      BY <1>1, <1>4, <1>7, <3>1, <3>2
    <3> HIDE DEF r, t, q, out
    <3>5. Taken(c, q, out)
      BY <3>3, <3>4, TookTaken
    <3> QED BY <3>3, <3>5 DEF q, out
  <2> QED BY <1>1, <1>9, <2>1 DEF FoundInv
<1> QED BY <1>14, <1>15, <1>16, <1>17, <1>18, <1>19, <1>20, <1>21

-----------------------------------------------------------------------------
(* The invariant is one *)

LEMMA InvStarts ==
  ASSUME Init
  PROVE  IInv
<1>1. Live = {}
  BY DEF Init, Live
<1>2. TypeInv
  <2>1. <<>> \in Seq(Rungs)
    OBVIOUS
  <2>2. MaxBuilds \in Nat
    BY SlotAssumption
  <2>3. {v \in Units : at[v] = "prepared"} = {}
    BY DEF Init
  <2>4. IsFiniteSet({v \in Units : at[v] = "prepared"})
    BY <2>3, FS_EmptySet
  <2>5. /\ store \in [1 .. Places -> Seq(Rungs)] /\ betas \in [SlotIds -> Seq(Rungs)]
    BY <2>1 DEF Init
  <2>6. at \in [Units -> States]
    BY DEF Init, States
  <2>7. /\ prepared \in [Units -> 1 .. Places \union {None}]
        /\ held \in [SlotIds -> 1 .. Places \union {None}]
        /\ slots \in [SlotIds -> Residents \union {None}]
    BY DEF Init
  <2>8. /\ builds \in 0 .. MaxBuilds /\ command = "none" /\ faulted = FALSE
        /\ cache = None /\ found = {}
        /\ DOMAIN spins = SlotIds /\ DOMAIN output = SlotIds /\ DOMAIN inputs = SlotIds
    BY <2>2 DEF Init
  <2> QED BY <2>4, <2>5, <2>6, <2>7, <2>8 DEF TypeInv
<1>3. StoreInv
  <2>1. cache = None /\ \A s \in SlotIds : held[s] = None
    BY DEF Init
  <2>2. \A u \in Units : at[u] = "new" /\ prepared[u] = None
    BY DEF Init
  <2> QED BY <2>1, <2>2 DEF StoreInv
<1>4. LiveInv /\ LegsInv /\ SpinsInv /\ OutputInv
  BY <1>1 DEF LiveInv, LegsInv, SpinsInv, OutputInv
<1>5. CommandInv /\ FoundInv
  BY DEF Init, CommandInv, FoundInv
<1> QED BY <1>2, <1>3, <1>4, <1>5 DEF IInv

(* What a state predicate that every action keeps is: one that [Next] keeps. *)
LEMMA InvKept ==
  ASSUME IInv, [Next]_vars
  PROVE  IInv'
<1>1. CASE \E u \in Units : Prepare(u) \/ PrepareFails(u) \/ Admit(u) \/ AdmitRefused(u)
  BY <1>1, PrepareKeeps, RefusedKeeps, AdmitKeeps
<1>2. CASE \E s \in SlotIds : Release(s) \/ FlushFaulted(s)
  BY <1>2, VacatedKeeps
<1>3. CASE Build
  BY <1>3, BuildKeeps
<1>4. CASE DropPool
  BY <1>4, DropKeeps
<1>5. CASE CommitStep
  BY <1>5, CommitKeeps
<1>6. CASE TakeCheckpoints
  BY <1>6, TakeKeeps
<1>7. CASE TakeFails \/ Fail
  BY <1>7, FailKeeps
<1>8. CASE Complete
  BY <1>8, CompleteKeeps
<1>9. CASE UNCHANGED vars
  <2>1. /\ UNCHANGED <<builds, store, cache, at, prepared, slots, held, steps, command, faulted,
                       found, betas, inputs, spins, output>>
    BY <1>9 DEF vars, poolVars, prepVars, hostVars, deviceVars
  <2>2. Live' = Live
    BY <2>1 DEF Live
  <2>3. (LegsInv /\ CommandInv /\ SpinsInv /\ OutputInv /\ FoundInv)'
    <3>1. UNCHANGED <<hostVars, deviceVars>>
      BY <2>1 DEF hostVars, deviceVars
    <3> QED BY <3>1, Untouched DEF IInv
  <2>4. TypeInv'
    BY <2>1, <2>2 DEF IInv, TypeInv
  <2>5. StoreInv' /\ LiveInv'
    BY <2>1, <2>2 DEF IInv, StoreInv, LiveInv
  <2> QED BY <2>3, <2>4, <2>5 DEF IInv
<1> QED BY <1>1, <1>2, <1>3, <1>4, <1>5, <1>6, <1>7, <1>8, <1>9 DEF Next

(* The invariant the theorems rest on.                                     *)
THEOREM SlotInduction == Spec => []IInv
<1>1. Init => IInv
  BY InvStarts
<1>2. IInv /\ [Next]_vars => IInv'
  BY InvKept
<1> QED BY <1>1, <1>2, PTL DEF Spec

-----------------------------------------------------------------------------
(* Device time *)

LEMMA BillsAre ==
  ASSUME TypeInv
  PROVE  /\ \A s \in Live : Bills[s] = slots[s].us /\ Bills[s] \in Nat
         /\ TimeShared <=> unbilled = Total(Bills, Live)
<1>1. \A s \in Live : Bills[s] = slots[s].us /\ slots[s].us \in Nat
  BY LiveIs, ResidentIs DEF Bills
<1>2. DOMAIN Bills = Live
  BY DEF Bills
<1> QED BY <1>1, <1>2 DEF TimeShared, SumFunction, Total

LEMMA SharesCover ==
  ASSUME NEW S \in SUBSET SlotIds, IsFiniteSet(S), S # {}, NEW e,
         \A s \in S : e[s] = Share(Cardinality(S), Cardinality({t \in S : t <= s}))
  PROVE  Total(e, S) = DeviceTime
<1> DEFINE n == Cardinality(S)
           q == DeviceTime \div n
           m == DeviceTime % n
<1>1. n \in Nat \ {0} /\ DeviceTime \in Nat /\ Capacity \in Nat
  BY FS_CardinalityType, FS_EmptySet, SlotAssumption
<1>2. q \in Nat /\ m \in 0 .. n - 1 /\ DeviceTime = n * q + m
  <2> HIDE DEF n
  <2> QED BY <1>1, Quotient
<1>3. PartsOf(e, S, q, m)
  BY DEF PartsOf, Rank, Share
<1>4. S \in SUBSET (1 .. Capacity) /\ m \in Nat
  BY <1>1, <1>2 DEF SlotIds
<1>5. Total(e, S) = Cardinality(S) * q + (IF Cardinality(S) <= m THEN Cardinality(S) ELSE m)
  <2>1. q \in Nat /\ m \in Nat /\ Capacity \in Nat
    BY <1>1, <1>2, <1>4
  <2> HIDE DEF q, m
  <2> QED BY <1>3, <1>4, <2>1, TotalShares
<1> HIDE DEF q, m
<1>6. ~(n <= m)
  BY <1>1, <1>2
<1> QED BY <1>1, <1>2, <1>5, <1>6

LEMMA TimeStarts ==
  ASSUME Init
  PROVE  TimeShared
<1>1. TypeInv /\ Live = {} /\ unbilled = 0
  BY InvStarts DEF IInv, Init, Live
<1>2. IsFiniteSet({})
  BY FS_EmptySet
<1>3. Total(Bills, {}) = 0
  BY <1>2, TotalTakes
<1> QED BY <1>1, <1>3, BillsAre

LEMMA TimeKept ==
  ASSUME IInv, TimeShared, [Next]_vars
  PROVE  TimeShared'
<1>1. /\ IsFiniteSet(Live) /\ Live \in SUBSET SlotIds
      /\ \A s \in Live : s \in SlotIds /\ slots[s] \in Residents /\ slots[s].us \in Nat
      /\ slots \in [SlotIds -> Residents \union {None}] /\ None \notin Residents
  BY LiveIs, ResidentIs, SlotAssumption DEF IInv, TypeInv
<1>2. unbilled = Total(Bills, Live) /\ \A s \in Live : Bills[s] = slots[s].us /\ Bills[s] \in Nat
  BY BillsAre DEF IInv
<1>3. /\ \A s \in Live' : Bills'[s] = slots'[s].us
      /\ TimeShared' <=> unbilled' = Total(Bills', Live')
  <2>1. DOMAIN Bills' = Live' /\ \A s \in Live' : Bills'[s] = slots'[s].us
    BY DEF Bills
  <2> QED BY <2>1 DEF TimeShared, SumFunction, Total
<1>4. CASE slots' = slots /\ unbilled' = unbilled
  <2>1. Live' = Live /\ Bills' = Bills
    BY <1>4 DEF Live, Bills
  <2> QED BY <1>2, <1>3, <1>4, <2>1
<1>5. ASSUME NEW u \in Units, Admit(u)
      PROVE  TimeShared'
  <2> DEFINE s == FreeSlot
             r == [unit |-> u, at |-> prepared[u], pos |-> 0, next |-> 1, output |-> FALSE, us |-> 0]
  <2>1. slots' = [slots EXCEPT ![s] = r] /\ unbilled' = unbilled /\ Live # SlotIds /\ at[u] = "prepared"
    BY <1>5 DEF Admit, Resident, FreeSlot
  <2>2. s \in SlotIds /\ s \notin Live
    BY <2>1, FreeSlotIs
  <2>3. r.us = 0 /\ r # None
    <3>1. prepared[u] \in 1 .. Places
      BY <2>1 DEF IInv, TypeInv, StoreInv
    <3>2. r \in Residents
      BY <3>1 DEF Residents
    <3> QED BY <1>1, <3>2
  <2> HIDE DEF s, r
  <2>4. /\ slots'[s] = r /\ \A t \in SlotIds : t # s => slots'[t] = slots[t]
    BY <1>1, <2>1, <2>2
  <2>5. Live' = Live \cup {s}
    BY <2>2, <2>3, <2>4 DEF Live
  <2>6. Bills'[s] = 0 /\ \A t \in Live : Bills'[t] = Bills[t] /\ Bills[t] \in Nat
    BY <1>1, <1>2, <1>3, <2>2, <2>3, <2>4, <2>5
  <2> DEFINE f == Bills
             h == Bills'
             S == Live
             T == Live'
  <2>7. /\ IsFiniteSet(S) /\ T = S \cup {s} /\ s \notin S /\ h[s] = 0
        /\ \A t \in S : h[t] = f[t] /\ f[t] \in Nat
    BY <1>1, <2>2, <2>5, <2>6
  <2> HIDE DEF f, h, S, T
  <2>8. IsFiniteSet(T) /\ \A t \in T : h[t] \in Nat
    BY <2>7, FS_AddElement
  <2>9. Total(h, T) = h[s] + Total(h, T \ {s}) /\ T \ {s} = S
    BY <2>7, <2>8, TotalTakes
  <2>10. Total(h, S) = Total(f, S) /\ Total(f, S) \in Nat
    BY <2>7, TotalSame, TotalTakes
  <2>11. Total(h, T) = Total(f, S)
    BY <2>7, <2>9, <2>10
  <2> QED BY <1>2, <1>3, <2>1, <2>11 DEF f, h, S, T
<1>6. ASSUME NEW s \in SlotIds, Release(s) \/ FlushFaulted(s)
      PROVE  TimeShared'
  <2>1. s \in Live /\ slots' = [slots EXCEPT ![s] = None] /\ unbilled' = unbilled - slots[s].us
    BY <1>6 DEF Release, FlushFaulted
  <2>2. slots'[s] = None /\ \A t \in SlotIds : t # s => slots'[t] = slots[t]
    BY <1>1, <2>1
  <2>3. Live' = Live \ {s}
    BY <2>2 DEF Live
  <2>4. \A t \in Live \ {s} : Bills'[t] = Bills[t] /\ Bills[t] \in Nat
    BY <1>1, <1>2, <1>3, <2>2, <2>3
  <2> DEFINE f == Bills
             h == Bills'
             S == Live
             T == Live'
  <2>5. /\ IsFiniteSet(S) /\ T = S \ {s} /\ s \in S
        /\ (\A t \in T : h[t] = f[t] /\ f[t] \in Nat) /\ (\A t \in S : f[t] \in Nat)
    BY <1>1, <1>2, <2>1, <2>3, <2>4
  <2>6. f[s] = slots[s].us
    BY <1>2, <2>1
  <2> HIDE DEF f, h, S, T
  <2>7. IsFiniteSet(T)
    BY <2>5, FS_RemoveElement
  <2>8. Total(f, S) = f[s] + Total(f, T) /\ f[s] \in Nat
    BY <2>5, TotalTakes
  <2>9. Total(h, T) = Total(f, T) /\ Total(f, T) \in Nat
    BY <2>5, <2>7, TotalSame, TotalTakes
  <2>10. Total(f, S) - f[s] = Total(h, T)
    BY <2>8, <2>9
  <2> QED BY <1>2, <1>3, <2>1, <2>6, <2>10 DEF f, h, S, T
<1>7. CASE TakeCheckpoints
  <2>1. /\ command = "completed" /\ unbilled' = unbilled + DeviceTime
        /\ slots' = [s \in SlotIds |-> IF s \in Stepped THEN Advanced(s) ELSE slots[s]]
    BY <1>7 DEF TakeCheckpoints
  <2>2. Stepped = Live /\ steps \in [Live -> StepRecords] /\ Live # {}
    BY <2>1 DEF IInv, TypeInv, CommandInv, Stepped
  <2>3. Cardinality(Live) \in Nat \ {0}
    BY <2>2, LiveIs DEF IInv
  <2> DEFINE e == [s \in Live |-> Share(Cardinality(Live), Cardinality({t \in Live : t <= s}))]
  <2>4. \A s \in Live : /\ e[s] = Share(Cardinality(Stepped), Turn(s)) /\ e[s] \in Nat
                        /\ e[s] = Share(Cardinality(Live), Cardinality({t \in Live : t <= s}))
    BY <2>2, <2>3, ShareIs DEF Turn
  <2> HIDE DEF e
  <2>5. \A s \in Live : slots'[s] \in Residents /\ slots'[s].us = slots[s].us + e[s]
    <3> TAKE s \in Live
    <3>1. slots[s] \in Residents /\ steps[s] \in StepRecords
          /\ Share(Cardinality(Stepped), Turn(s)) \in Nat
      BY <1>1, <2>2, <2>4
    <3>2. Advanced(s) \in Residents
          /\ Advanced(s).us = slots[s].us + Share(Cardinality(Stepped), Turn(s))
      BY <3>1, AdvancedIs
    <3> QED BY <1>1, <2>1, <2>2, <2>4, <3>2
  <2>6. Live' = Live
    BY <1>1, <2>1, <2>2, <2>5 DEF Live
  <2>7. Total(e, Live) = DeviceTime
    BY <1>1, <2>2, <2>4, SharesCover
  <2> DEFINE f == Bills
             h == Bills'
             S == Live
  <2>8. IsFiniteSet(S) /\ \A s \in S : f[s] \in Nat /\ e[s] \in Nat /\ h[s] = f[s] + e[s]
    BY <1>1, <1>2, <1>3, <2>4, <2>5, <2>6
  <2> HIDE DEF f, h, S
  <2>9. Total(h, S) = Total(f, S) + Total(e, S)
    BY <2>8, TotalPlus
  <2> QED BY <1>2, <1>3, <2>1, <2>6, <2>7, <2>9 DEF f, h, S
<1>8. CASE DropPool
  <2>1. Live = {} /\ Live' = {} /\ unbilled' = unbilled
    BY <1>8 DEF DropPool, Live
  <2>2. IsFiniteSet({})
    BY FS_EmptySet
  <2>3. \A f : Total(f, {}) = 0
    BY <2>2, TotalTakes
  <2> QED BY <1>2, <1>3, <2>1, <2>3
<1>9. CASE \E u \in Units : Prepare(u) \/ PrepareFails(u) \/ AdmitRefused(u)
  <2>1. slots' = slots /\ unbilled' = unbilled
    BY <1>9 DEF Prepare, PrepareFails, AdmitRefused, hostVars
  <2> QED BY <1>4, <2>1
<1>10. CASE Build \/ CommitStep \/ TakeFails \/ Complete \/ Fail \/ UNCHANGED vars
  <2>1. slots' = slots /\ unbilled' = unbilled
    BY <1>10 DEF Build, CommitStep, TakeFails, Complete, Fail, hostVars, vars
  <2> QED BY <1>4, <2>1
<1> QED BY <1>5, <1>6, <1>7, <1>8, <1>9, <1>10 DEF Next

-----------------------------------------------------------------------------
(* What the invariant means *)

(* What was written out of a resident, and how much of it its spins are.   *)
LEMMA WrittenIs ==
  ASSUME NEW r \in Residents, NEW out, NEW k \in DOMAIN CheckpointsOf[r.unit],
         NEW p \in Nat, Written(r, out, k, p)
  PROVE  /\ out \in Runs /\ out # None /\ out.unit = r.unit
         /\ AnnealStart(r.unit, out.leg + 1) + Len(out.betas) = p
<1> DEFINE u == r.unit
           own == BetasOf[u]
           a == AnnealStart(u, k)
           g == AnnealLeg(u, k) - 1
           b == SubSeq(own, a + 1, p)
<1>1. u \in Units
  BY ResidentIs
<1>2. /\ own \in Seq(Rungs) /\ Len(own) \in Nat /\ k \in 1 .. Len(CheckpointsOf[u])
      /\ CheckpointsOf[u][k] \in Nat /\ CheckpointsOf[u][k] <= Len(own)
      /\ Len(CheckpointsOf[u]) \in Nat /\ FreshOf[u] \in Nat
  BY <1>1, EndsOf, EndsBelow
<1>3. a \in Nat /\ a <= LegStart(u, k) /\ LegStart(u, k) \in Nat
  <2>1. k \in 1 .. Len(CheckpointsOf[u]) + 1
    BY <1>2
  <2> QED BY <1>1, <2>1, LegStarts
<1>4. LegStart(u, k) < p /\ p <= CheckpointsOf[u][k] /\ out = RunAt(u, k, p)
  BY DEF Written
<1>5. out = [unit |-> u, leg |-> g, betas |-> b]
  BY <1>4 DEF RunAt
<1>6. AnnealStart(u, g + 1) = a /\ g \in Nat
  <2>1. CASE Fresh(u, k)
    <3>1. g + 1 = k /\ g \in Nat
      BY <1>2, <2>1 DEF AnnealLeg
    <3> QED BY <3>1
  <2>2. CASE ~Fresh(u, k)
    <3>1. a = 0 /\ g = 0 /\ g + 1 = 1
      BY <2>2 DEF AnnealLeg, AnnealStart
    <3>2. AnnealStart(u, 1) = 0
      BY DEF AnnealStart, LegStart
    <3> QED BY <3>1, <3>2
  <2> QED BY <2>1, <2>2
<1> HIDE DEF own, a, g, u
<1>7. b \in Seq(Rungs) /\ Len(b) = p - a
  <2>1. a + 1 \in Nat /\ a + 1 >= 1 /\ a + 1 <= p + 1 /\ p <= Len(own)
    BY <1>2, <1>3, <1>4
  <2>2. b \in Seq(Rungs) /\ Len(b) = p + 1 - (a + 1)
    BY <1>2, <2>1, Part
  <2> QED BY <1>3, <2>2
<1> HIDE DEF b
<1>8. out.unit = u /\ out.leg = g /\ out.betas = b
  BY <1>5
<1>9. out \in Runs
  BY <1>1, <1>5, <1>6, <1>7 DEF Runs
<1>10. out # None
  BY <1>9, SlotAssumption
<1>11. AnnealStart(u, out.leg + 1) + Len(out.betas) = p
  BY <1>3, <1>6, <1>7, <1>8
<1> QED BY <1>8, <1>9, <1>10, <1>11 DEF u

LEMMA InvSlots ==
  ASSUME IInv, TimeShared
  PROVE  SlotInv
<1>1. /\ TypeInv /\ StoreInv /\ LiveInv /\ LegsInv /\ OutputInv /\ FoundInv
  BY DEF IInv
<1>2. \A s \in Live :
        /\ s \in SlotIds /\ slots[s] \in Residents /\ slots[s].unit \in Units
        /\ slots[s].at = held[s] /\ store[held[s]] = BetasOf[slots[s].unit] /\ held[s] # None
  <2> TAKE s \in Live
  <2>1. s \in SlotIds /\ slots[s] \in Residents /\ slots[s].unit \in Units /\ slots[s].at \in 1 .. Places
    BY <1>1, LiveIs, ResidentIs
  <2> QED BY <1>1, <2>1, SlotAssumption DEF LiveInv
<1>3. TypeOK
  <2>1. \A s \in Live : slots[s].pos <= Len(store[slots[s].at]) /\ slots[s].at = held[s]
    BY <1>1, <1>2, PosBelow DEF LegsInv
  <2>2. \A c \in found : c.slot \in Live
    BY <1>1 DEF FoundInv
  <2> QED BY <1>1, <2>1, <2>2 DEF TypeOK, TypeInv, States
<1>4. RegionHolds
  <2> SUFFICES ASSUME NEW s \in Live
               PROVE  LET own == BetasOf[Unit(s)] IN
                      store[slots[s].at] = own /\ SubSeq(betas[s], 1, Len(own)) = own
    BY DEF RegionHolds
  <2> DEFINE own == BetasOf[slots[s].unit]
             b == betas[s]
  <2>1. Starts(own, b) /\ own \in Seq(Rungs) /\ b \in Seq(Rungs)
    BY <1>1, <1>2, EndsOf DEF StoreInv, TypeInv
  <2>2. store[slots[s].at] = own
    BY <1>2
  <2> HIDE DEF own, b
  <2>3. SubSeq(b, 1, Len(own)) = own
    BY <2>1, StartsSub
  <2> QED BY <2>2, <2>3 DEF own, b, Unit
<1>5. OutputOwn
  <2> SUFFICES ASSUME NEW s \in Live, slots[s].output, command # "error", ~faulted
               PROVE  output[s] # None /\ output[s].unit = slots[s].unit
    BY DEF OutputOwn
  <2> DEFINE r == slots[s]
             out == output[s]
  <2>1. PICK k \in DOMAIN CheckpointsOf[r.unit], p \in 0 .. Len(BetasOf[r.unit]) : Written(r, out, k, p)
    BY <1>1 DEF OutputInv, Shown
  <2>2. r \in Residents /\ p \in Nat
    BY <1>2
  <2> HIDE DEF r, out
  <2>3. out # None /\ out.unit = r.unit
    BY <2>1, <2>2, WrittenIs
  <2> QED BY <2>3 DEF r, out
<1> QED BY <1>3, <1>4, <1>5 DEF SlotInv

LEMMA InvAnnealed ==
  ASSUME IInv
  PROVE  CheckpointsAnnealed
<1> SUFFICES ASSUME NEW c \in found, ~c.observe
             PROVE  LET u == Unit(c.slot)
                        anneal == Anneals[u][c.index]
                    IN /\ output[c.slot] = [unit |-> u, leg |-> anneal.leg, betas |-> anneal.betas]
                       /\ c.position = Budgets(WorkOf[u])[c.index]
                       /\ c.last <=> slots[c.slot].pos = Len(BetasOf[u])
  BY DEF CheckpointsAnnealed
<1> DEFINE s == c.slot
           r == slots[s]
           u == r.unit
           k == c.index
           n == Len(CheckpointsOf[u])
           w == WorkOf[u]
           an == AnnealAt(w, k)
<1>1. s \in Live /\ Taken(c, r, output[s])
  BY DEF IInv, FoundInv
<1>2. r \in Residents /\ u \in Units
  BY <1>1, LiveIs, ResidentIs DEF IInv
<1>3. /\ DOMAIN CheckpointsOf[u] = 1 .. n /\ n \in Nat \ {0} /\ n = Len(Budgets(w))
      /\ CheckpointsOf[u][n] = Len(BetasOf[u]) /\ BetasOf[u] = Betas(w)
      /\ CheckpointsOf[u] = Checkpoints(w) /\ FreshOf[u] = FreshFrom(w)
      /\ w \in Works /\ Rising(w)
  BY <1>2, EndsOf, WorkIs
<1>4. /\ k \in 1 .. n /\ r.pos = CheckpointsOf[u][k]
      /\ output[s] = RunAt(u, k, CheckpointsOf[u][k])
      /\ c.position = CheckpointsOf[u][k] - AnnealStart(u, k)
      /\ c.last <=> k = n
  BY <1>1, <1>3 DEF Taken
<1>5. k # n => CheckpointsOf[u][k] # Len(BetasOf[u])
  BY <1>2, <1>4, EndsBelow
<1> HIDE DEF s, r, u, k, n, w, an
<1>6. StartOf(w, k) = AnnealStart(u, k)
  BY <1>3 DEF StartOf, Start, AnnealStart, LegStart, Fresh
<1>7. /\ an.leg = (IF k > FreshFrom(w) THEN k - 1 ELSE 0)
      /\ an.betas = SubSeq(Betas(w), StartOf(w, k) + 1, Checkpoints(w)[k])
      /\ Checkpoints(w)[k] - StartOf(w, k) = Budgets(w)[k]
  BY <1>3, <1>4, AnnealLies DEF an
<1>8. AnnealLeg(u, k) - 1 = an.leg
  BY <1>3, <1>7 DEF AnnealLeg, Fresh
<1>9. output[s] = [unit |-> u, leg |-> an.leg, betas |-> an.betas]
  BY <1>3, <1>4, <1>6, <1>7, <1>8 DEF RunAt
<1>10. c.position = Budgets(w)[k]
  BY <1>3, <1>4, <1>6, <1>7
<1>11. c.last <=> r.pos = Len(BetasOf[u])
  BY <1>3, <1>4, <1>5
<1>12. Anneals[u][k] = an
  <2>1. k \in DOMAIN CheckpointsOf[u] /\ u \in Units
    BY <1>2, <1>3, <1>4
  <2> QED BY <2>1 DEF Anneals, an, w
<1> QED BY <1>9, <1>10, <1>11, <1>12 DEF Unit, s, r, u, k, w

LEMMA InvObserved ==
  ASSUME IInv
  PROVE  ObservedInTime
<1>1. ASSUME NEW s \in Live, Unit(s) \in Observed, command = "none", ~faulted
      PROVE  slots[s].pos - WrittenAt(s) < ObserveInterval
  <2> DEFINE r == slots[s]
             out == output[s]
             p == slots[s].pos
  <2>1. r \in Residents /\ p \in Nat /\ r.unit \in Observed /\ ObserveInterval \in Nat \ {0}
        /\ r.output \in BOOLEAN
    BY <1>1, LiveIs, ResidentIs, SlotAssumption DEF IInv, Unit
  <2>2. Shown(r, out)
    BY <1>1 DEF IInv, OutputInv
  <2>3. CASE r.output
    <3>1. PICK k \in DOMAIN CheckpointsOf[r.unit], x \in 0 .. Len(BetasOf[r.unit]) : Written(r, out, k, x)
      BY <2>2, <2>3 DEF Shown
    <3>2. x \in Nat
      OBVIOUS
    <3>3. AnnealStart(r.unit, out.leg + 1) + Len(out.betas) = x
      <4> HIDE DEF r, out
      <4> QED BY <2>1, <3>1, <3>2, WrittenIs
    <3>4. WrittenAt(s) = x
      BY <2>3, <3>3 DEF WrittenAt, Unit
    <3>5. p \div ObserveInterval <= x \div ObserveInterval
      BY <2>1, <3>1 DEF Written
    <3> HIDE DEF p
    <3>6. p - x < ObserveInterval
      BY <2>1, <3>2, <3>5, CloseBy
    <3> QED BY <3>4, <3>6 DEF p
  <2>4. CASE ~r.output
    <3>1. WrittenAt(s) = 0 /\ p \div ObserveInterval = 0
      BY <2>1, <2>2, <2>4 DEF WrittenAt, Shown
    <3>2. 0 \div ObserveInterval = 0
      BY <2>1
    <3> HIDE DEF p
    <3>3. p - 0 < ObserveInterval
      BY <2>1, <3>1, <3>2, CloseBy
    <3> QED BY <3>1, <3>3 DEF p
  <2> QED BY <2>3, <2>4
<1>2. ASSUME NEW c \in found, c.observe
      PROVE  slots[c.slot].pos \notin ToSet(CheckpointsOf[Unit(c.slot)])
  <2> DEFINE r == slots[c.slot]
             u == r.unit
             e == CheckpointsOf[u]
             k == r.next
  <2>1. c.slot \in Live /\ Taken(c, r, output[c.slot]) /\ InLeg(r)
    BY <1>2 DEF IInv, FoundInv, LegsInv
  <2>2. r \in Residents /\ u \in Units /\ r.pos \in Nat
    BY <2>1, LiveIs, ResidentIs DEF IInv
  <2>3. DOMAIN e = 1 .. Len(e) /\ Len(e) \in Nat /\ \A i \in 1 .. Len(e) : e[i] \in Nat
    BY <2>2, EndsOf
  <2>4. k \in 1 .. Len(e) /\ LegStart(u, k) < r.pos
    BY <1>2, <2>1, <2>3 DEF Taken
  <2>5. r.pos < e[k]
    BY <2>1, <2>3, <2>4 DEF InLeg
  <2>6. \A i \in 1 .. Len(e) : \A j \in 1 .. Len(e) : i < j => e[i] < e[j]
    BY <2>2, EndsBelow
  <2>7. k # 1 => k - 1 \in 1 .. Len(e) /\ LegStart(u, k) = e[k - 1]
    BY <2>3, <2>4 DEF LegStart
  <2> HIDE DEF e, u, k
  <2>8. \A i \in 1 .. Len(e) : e[i] # r.pos
    <3> TAKE i \in 1 .. Len(e)
    <3>1. CASE i >= k
      BY <2>2, <2>3, <2>4, <2>5, <2>6, <3>1
    <3>2. CASE i < k
      <4>1. k # 1 /\ k - 1 \in 1 .. Len(e) /\ e[k - 1] < r.pos /\ (i = k - 1 \/ i < k - 1)
        BY <2>3, <2>4, <2>7, <3>2
      <4> QED BY <2>2, <2>3, <2>6, <4>1
    <3> QED BY <2>3, <2>4, <3>1, <3>2
  <2>9. ToSet(e) = {e[i] : i \in DOMAIN e}
    BY DEF ToSet
  <2>10. r.pos \notin ToSet(e)
    BY <2>3, <2>8, <2>9
  <2> QED BY <2>10 DEF r, e, u, Unit
<1> QED BY <1>1, <1>2 DEF ObservedInTime

-----------------------------------------------------------------------------
(* The theorems *)

(* In every state of a pool: the state is typed, the region of every live   *)
(* slot holds its own schedule although storage is freed and used again,    *)
(* what may be read of a slot is its unit's, and the units' bills add up    *)
(* to the device time of the commands (upload, held, commit_step,           *)
(* take_checkpoints, proportional_us).                                     *)
THEOREM SlotsCorrect == Spec => []SlotInv
<1>1. Init => IInv /\ TimeShared
  BY InvStarts, TimeStarts
<1>2. IInv /\ TimeShared /\ [Next]_vars => (IInv /\ TimeShared)'
  BY InvKept, TimeKept
<1>3. IInv /\ TimeShared => SlotInv
  BY InvSlots
<1> QED BY <1>1, <1>2, <1>3, PTL DEF Spec

(* A checkpoint that is found is of the anneal the cascade means by it,     *)
(* from its first sweep to its last, and no other, whatever the slices,     *)
(* observe points and restarts on the way (commit_step, take_checkpoints,   *)
(* the kernel, segment_schedule).                                          *)
THEOREM CheckpointsAre == Spec => []CheckpointsAnnealed
<1>1. IInv => CheckpointsAnnealed
  BY InvAnnealed
<1> QED BY <1>1, SlotInduction, PTL

(* An observed unit is never as far as an interval beyond its last output,  *)
(* and what is read between its checkpoints is not one of them              *)
(* (observe_room, commit_step).                                            *)
THEOREM ObservedOnTime == Spec => []ObservedInTime
<1>1. IInv => ObservedInTime
  BY InvObserved
<1> QED BY <1>1, SlotInduction, PTL

=============================================================================
