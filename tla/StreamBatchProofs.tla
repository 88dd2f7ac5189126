------------------------- MODULE StreamBatchProofs -------------------------
(***************************************************************************)
(* Proofs about StreamBatch, for every number of jobs, every sizes of the  *)
(* device, and every size of the queues, the pool and the schedule.        *)
(***************************************************************************)
EXTENDS StreamBatch, FiniteSetTheorems, SequenceTheorems, WellFoundedInduction, TLAPS

-----------------------------------------------------------------------------
(* Numbers *)

(* A set of naturals that is not empty has a least element.                *)
LEMMA LeastNat ==
  ASSUME NEW T \in SUBSET Nat, T # {}
  PROVE  \E m \in T : \A n \in T : m <= n
<1> DEFINE R == OpToRel(<, Nat)
<1>1. IsWellFoundedOn(R, Nat)
  BY NatLessThanWellFounded
<1>2. R = {ss \in Nat \X Nat : ss[1] < ss[2]}
  BY DEF OpToRel
<1> HIDE DEF R
<1>3. PICK m \in T : \A n \in T : <<n, m>> \notin R
  BY <1>1, WFMin
<1>4. \A n \in T : ~(n < m)
  BY <1>2, <1>3
<1> QED BY <1>3, <1>4

LEMMA MinIs ==
  ASSUME NEW S \in SUBSET Int, NEW m \in S, \A n \in S : m <= n
  PROVE  Min(S) = m
<1>1. \A x \in S : (\A y \in S : x <= y) => x = m
  OBVIOUS
<1>2. Min(S) \in S /\ \A y \in S : Min(S) <= y
  BY DEF Min
<1> QED BY <1>1, <1>2

LEMMA MinNat ==
  ASSUME NEW S \in SUBSET Nat, S # {}
  PROVE  Min(S) \in S
BY LeastNat DEF Min

LEMMA MinPair ==
  ASSUME NEW a \in Int, NEW b \in Int
  PROVE  Min({a, b}) = IF a <= b THEN a ELSE b
<1> DEFINE m == IF a <= b THEN a ELSE b
           S == {a, b}
<1>1. m \in S /\ \A n \in S : m <= n
  OBVIOUS
<1>2. S \in SUBSET Int
  OBVIOUS
<1> HIDE DEF m, S
<1>3. Min(S) = m
  BY <1>1, <1>2, MinIs
<1> QED BY <1>3 DEF m, S

LEMMA MaxPair ==
  ASSUME NEW a \in Int, NEW b \in Int
  PROVE  Max({a, b}) = IF a >= b THEN a ELSE b
<1> DEFINE m == IF a >= b THEN a ELSE b
           S == {a, b}
<1>1. m \in S /\ \A n \in S : m >= n
  OBVIOUS
<1>2. \A x \in S : (\A y \in S : x >= y) => x = m
  OBVIOUS
<1> HIDE DEF m, S
<1>3. Max(S) = m
  BY <1>1, <1>2 DEF Max
<1> QED BY <1>3 DEF m, S

LEMMA Quotient ==
  ASSUME NEW a \in Int, NEW b \in Nat \ {0}
  PROVE  /\ a \div b \in Int
         /\ a % b \in 0 .. b - 1
         /\ a = b * (a \div b) + (a % b)
OBVIOUS

LEMMA CeilBounds ==
  ASSUME NEW a \in Nat \ {0}, NEW b \in Nat \ {0}
  PROVE  /\ CeilDiv(a, b) \in 1 .. a
         /\ a <= b * CeilDiv(a, b)
         /\ \A k \in Nat : k < CeilDiv(a, b) => b * k < a
<1> DEFINE q == CeilDiv(a, b)
           r == (a + b - 1) % b
<1>1. a + b - 1 \in Nat
  OBVIOUS
<1>2. q \in Int /\ r \in 0 .. b - 1 /\ a + b - 1 = (b * q) + r
  BY <1>1, Quotient DEF CeilDiv
<1> HIDE DEF q, r
<1>3. a <= b * q /\ b * q <= a + b - 1
  BY <1>2
<1>4. q >= 1
  <2>1. q <= 0 => b * q <= 0
    BY <1>2
  <2> QED BY <1>2, <1>3, <2>1
<1>5. q <= a
  <2>1. q >= a + 1 => b * q >= b * (a + 1)
    BY <1>2
  <2>2. b * (a + 1) = (b * a) + b /\ b * a >= a
    OBVIOUS
  <2> QED BY <1>2, <1>3, <2>1, <2>2
<1>6. \A k \in Nat : k < q => b * k < a
  <2> SUFFICES ASSUME NEW k \in Nat, k < q PROVE b * k < a
    OBVIOUS
  <2>1. b * k <= b * (q - 1)
    BY <1>2
  <2>2. b * (q - 1) = (b * q) - b
    BY <1>2
  <2> QED BY <1>2, <1>3, <2>1, <2>2
<1>7. CeilDiv(a, b) = q
  BY DEF q
<1> QED BY <1>2, <1>3, <1>4, <1>5, <1>6, <1>7

-----------------------------------------------------------------------------
(* The size of a dispatch *)

LEMMA ReadsTyped ==
  ASSUME NEW r \in Nat
  PROVE  /\ AskedReads(r) \in 1 .. MaxReads
         /\ RoundedReads(r) \in AskedReads(r) .. MaxReads
         /\ GroupsPerProblem(r) \in Nat \ {0}
<1> USE DEF MaxReads, SimdWidth
<1>1. AskedReads(r) \in 1 .. 256
  BY DEF AskedReads, Clamp
<1>2. /\ CeilDiv(AskedReads(r), 32) * 32 \in Nat
      /\ AskedReads(r) <= CeilDiv(AskedReads(r), 32) * 32
  BY <1>1 DEF CeilDiv
<1>3. RoundedReads(r) \in AskedReads(r) .. 256
  <2>1. RoundedReads(r) = IF CeilDiv(AskedReads(r), 32) * 32 <= 256
                          THEN CeilDiv(AskedReads(r), 32) * 32 ELSE 256
    BY <1>2, MinPair DEF RoundedReads
  <2> QED BY <1>1, <1>2, <2>1
<1>4. CeilDiv(RoundedReads(r), 32) \in Nat \ {0}
  BY <1>1, <1>3 DEF CeilDiv
<1> QED BY <1>1, <1>3, <1>4 DEF GroupsPerProblem

(* The reads a job gets from its region are those it asked for.            *)
LEMMA ReadsCut ==
  ASSUME NEW r \in Nat, NEW s \in Nat, AskedReads(r) = AskedReads(s)
  PROVE  Min({Max({r, 1}), RoundedReads(s)}) = AskedReads(r)
<1>1. RoundedReads(s) \in AskedReads(r) .. 256 /\ AskedReads(r) \in 1 .. 256
  BY ReadsTyped DEF MaxReads
<1>2. Max({r, 1}) = IF r >= 1 THEN r ELSE 1
  BY MaxPair
<1>3. AskedReads(r) = IF r < 1 THEN 1 ELSE IF r > 256 THEN 256 ELSE r
  BY DEF AskedReads, Clamp, MaxReads
<1>4. /\ AskedReads(r) \in Int /\ RoundedReads(s) \in Int /\ Max({r, 1}) \in Int
      /\ AskedReads(r) = IF Max({r, 1}) <= RoundedReads(s) THEN Max({r, 1}) ELSE RoundedReads(s)
  BY <1>1, <1>2, <1>3
<1> QED BY <1>4, MinPair

LEMMA BudgetTyped == TgBudget \in Nat \ {0}
<1> DEFINE p == IF PerCore > 0 THEN PerCore ELSE DefaultPerCore
<1>1. p \in Nat
  BY DispatchAssumption DEF DefaultPerCore, Kernels
<1> HIDE DEF p
<1>2. (Cores * p + 5) \div 10 \in Int
  <2>1. Cores * p + 5 \in Int
    BY <1>1, DispatchAssumption
  <2> QED BY <2>1
<1>3. TgBudget = Max({1, (Cores * p + 5) \div 10})
  BY DEF TgBudget, p
<1> QED BY <1>2, <1>3, MaxPair

(* A batch has a problem at least, and no more than the budget, whatever   *)
(* share of it the governor grants.                                        *)
LEMMA BatchSized ==
  ASSUME NEW r \in Nat, NEW share \in 1 .. 100
  PROVE  Scaled(BatchSize(r), share) \in 1 .. TgBudget
<1> DEFINE n == BatchSize(r)
<1>1. n \in 1 .. TgBudget
  BY BudgetTyped, ReadsTyped, CeilBounds DEF BatchSize
<1> HIDE DEF n
<1>2. n * share + 50 \in Int /\ n * share <= n * 100
  BY <1>1, BudgetTyped
<1>3. (n * share + 50) \div 100 \in Int /\ (n * share + 50) \div 100 <= n
  BY <1>1, <1>2, BudgetTyped
<1>4. Scaled(n, share) \in 1 .. n
  BY <1>1, <1>3, MaxPair, BudgetTyped DEF Scaled
<1> QED BY <1>1, <1>4, BudgetTyped DEF n

LEMMA CurveRises ==
  /\ Len(Curve) \in Nat /\ Len(Curve) >= 2 /\ Curve[1][1] >= 1
  /\ \A k \in 1 .. Len(Curve) : Curve[k][1] \in Nat /\ Curve[k][2] \in Nat
  /\ \A k \in 2 .. Len(Curve) : Curve[k - 1][1] < Curve[k][1]
BY DEF Curve

LEMMA RateTyped ==
  ASSUME NEW g \in Nat
  PROVE  MeasuredRate(g) \in Int
<1> DEFINE x == g * 10
           at(k) == Curve[k][1] * Cores
           last == Len(Curve)
           S == {k \in 1 .. last : at(k) >= x \/ k = last}
           i == Min(S)
           rise == (Curve[i][2] - Curve[i - 1][2]) * (x - at(i - 1))
           low == (Curve[1][2] * x) \div at(1)
           mid == Curve[i - 1][2] + rise \div (at(i) - at(i - 1))
<1>1. MeasuredRate(g) =
        IF Kernel \in {"gibbs", "gibbs_parallel"} THEN 120
        ELSE CASE x <= at(1) -> low
          [] x >= at(last) -> Curve[last][2]
          [] OTHER -> mid
  BY DEF MeasuredRate
<1> HIDE DEF i, low, mid, rise
<1>2. i \in S
  <2>1. last \in S
    BY CurveRises
  <2>2. S \in SUBSET Nat
    BY CurveRises
  <2> HIDE DEF S
  <2> QED BY <2>1, <2>2, MinNat DEF i
<1>3. at(1) \in Nat \ {0} /\ \A k \in 1 .. last : at(k) \in Nat
  BY CurveRises, DispatchAssumption
<1>4. \A k \in 2 .. last : at(k) - at(k - 1) \in Nat \ {0}
  <2> TAKE k \in 2 .. last
  <2>1. Curve[k][1] \in Nat /\ Curve[k - 1][1] \in Nat /\ Curve[k - 1][1] < Curve[k][1]
    BY CurveRises
  <2>2. \A a, b \in Nat, c \in Nat \ {0} : a < b => (b * c) - (a * c) \in Nat \ {0}
    <3> TAKE a, b \in Nat, c \in Nat \ {0}
    <3>1. (b * c) - (a * c) = (b - a) * c
      OBVIOUS
    <3>2. a < b => (b - a) * c \in Nat \ {0}
      OBVIOUS
    <3> QED BY <3>1, <3>2
  <2> QED BY <2>1, <2>2, DispatchAssumption
<1>5. ASSUME ~(x <= at(1)), ~(x >= at(last))
      PROVE  i \in 2 .. last
  BY <1>2, <1>3, <1>5, CurveRises
<1>6. x \in Nat /\ Curve[1][2] * x \in Int /\ Curve[last][2] \in Nat
  BY CurveRises
<1>7. ASSUME i \in 2 .. last
      PROVE  Curve[i - 1][2] \in Int /\ rise \in Int
  <2>1. i - 1 \in 1 .. last /\ i \in 1 .. last
    BY <1>7, CurveRises
  <2>2. Curve[i - 1][2] \in Int /\ Curve[i][2] \in Int /\ at(i - 1) \in Int
    BY <1>3, <2>1, CurveRises
  <2>3. \A u, v, w, y \in Int : (v - u) * (y - w) \in Int
    OBVIOUS
  <2>4. x \in Int
    BY <1>6
  <2> HIDE DEF at, x
  <2> QED BY <2>2, <2>3, <2>4 DEF rise
<1> HIDE DEF at, x, last, S
<1>8. low \in Int
  BY <1>3, <1>6, Quotient DEF low
<1>9. ASSUME i \in 2 .. last
      PROVE  mid \in Int
  <2>1. rise \div (at(i) - at(i - 1)) \in Int
    BY <1>4, <1>7, <1>9, Quotient
  <2> QED BY <1>7, <1>9, <2>1 DEF mid
<1> QED BY <1>1, <1>5, <1>6, <1>8, <1>9

(* A chunk has a rung at least, and no more than the schedule.             *)
LEMMA LimitTyped ==
  ASSUME NEW len \in 1 .. TgBudget, NEW r \in Nat, NEW nodes \in Nat
  PROVE  RungLimit(len, r, nodes, 2, Betas) \in 1 .. Betas
<1>1. len \in Nat \ {0} /\ GroupsPerProblem(r) \in Nat \ {0} /\ RoundedReads(r) \in Nat \ {0}
  <2>1. len \in Nat \ {0}
    BY BudgetTyped
  <2>2. AskedReads(r) \in 1 .. MaxReads /\ RoundedReads(r) \in AskedReads(r) .. MaxReads
    BY ReadsTyped
  <2>3. \A a \in 1 .. 256 : \A b \in a .. 256 : b \in Nat \ {0}
    OBVIOUS
  <2>4. RoundedReads(r) \in Nat \ {0}
    BY <2>2, <2>3 DEF MaxReads
  <2> QED BY <2>1, <2>4, ReadsTyped
<1>2. Walkers(len, r) \in Nat \ {0}
  BY <1>1 DEF Walkers
<1>3. Max({nodes, 1}) \in Nat \ {0}
  <2>1. Max({nodes, 1}) = IF nodes >= 1 THEN nodes ELSE 1
    BY MaxPair
  <2> QED BY <2>1
<1>4. Walkers(len, r) * SweepsPer * Max({nodes, 1}) \in Nat \ {0}
  <2>1. \A a, b, c \in Nat \ {0} : a * b * c \in Nat \ {0}
    OBVIOUS
  <2> QED BY <1>2, <1>3, <2>1, DispatchAssumption
<1>5. HalfSecond(len * GroupsPerProblem(r), 2) \in Int
  <2>1. (len * GroupsPerProblem(r)) * 2 \in Nat
    BY <1>1
  <2>2. MeasuredRate((len * GroupsPerProblem(r)) * 2) \in Int
    BY <2>1, RateTyped
  <2>3. MeasuredRate((len * GroupsPerProblem(r)) * 2) * Margin * 500000 \in Int
    BY <2>2 DEF Margin
  <2> QED BY <2>3, Quotient DEF HalfSecond
<1>6. HalfSecond(len * GroupsPerProblem(r), 2) \div (Walkers(len, r) * SweepsPer * Max({nodes, 1})) \in Int
  BY <1>4, <1>5, Quotient
<1> QED BY <1>6, BatchAssumption DEF RungLimit, Clamp

-----------------------------------------------------------------------------
(* Lists of jobs *)

Injective(q) == \A i, k \in DOMAIN q : q[i] = q[k] => i = k

LEMMA NoneSet == ToSet(<<>>) = {} /\ Injective(<<>>)
BY DEF ToSet, Injective

LEMMA ToSetOf ==
  ASSUME NEW S, NEW q \in Seq(S)
  PROVE  /\ ToSet(q) = {q[i] : i \in 1 .. Len(q)}
         /\ ToSet(q) \subseteq S
         /\ (q = <<>>) <=> (ToSet(q) = {})
<1>1. DOMAIN q = 1 .. Len(q) /\ Len(q) \in Nat /\ \A i \in 1 .. Len(q) : q[i] \in S
  OBVIOUS
<1>2. ToSet(q) = {q[i] : i \in 1 .. Len(q)}
  BY <1>1 DEF ToSet
<1>3. q # <<>> => q[1] \in ToSet(q)
  <2>1. q # <<>> => Len(q) >= 1
    OBVIOUS
  <2> QED BY <1>1, <1>2, <2>1
<1> QED BY <1>1, <1>2, <1>3, NoneSet

LEMMA OneSet ==
  ASSUME NEW x
  PROVE  /\ <<x>> \in Seq({x}) /\ Len(<<x>>) = 1 /\ <<x>>[1] = x
         /\ ToSet(<<x>>) = {x} /\ Injective(<<x>>)
BY DEF ToSet, Injective

LEMMA AppendSet ==
  ASSUME NEW S, NEW q \in Seq(S), NEW x \in S
  PROVE  /\ Append(q, x) \in Seq(S) /\ Len(Append(q, x)) = Len(q) + 1
         /\ ToSet(Append(q, x)) = ToSet(q) \union {x}
         /\ Injective(q) /\ x \notin ToSet(q) => Injective(Append(q, x))
<1> DEFINE r == Append(q, x)
<1>1. /\ r \in Seq(S) /\ Len(r) = Len(q) + 1 /\ Len(q) \in Nat
      /\ \A i \in 1 .. Len(q) : r[i] = q[i]
      /\ r[Len(q) + 1] = x
  OBVIOUS
<1>2. DOMAIN r = 1 .. Len(q) + 1 /\ DOMAIN q = 1 .. Len(q)
  BY <1>1
<1> HIDE DEF r
<1>3. ToSet(r) = ToSet(q) \union {x}
  <2>1. ASSUME NEW y \in ToSet(r) PROVE y \in ToSet(q) \union {x}
    BY <1>1, <1>2, <2>1 DEF ToSet
  <2>2. ASSUME NEW y \in ToSet(q) \union {x} PROVE y \in ToSet(r)
    <3>1. PICK i \in 1 .. Len(q) + 1 : y = r[i]
      BY <1>1, <1>2, <2>2 DEF ToSet
    <3> QED BY <1>2, <3>1 DEF ToSet
  <2> QED BY <2>1, <2>2
<1>4. Injective(q) /\ x \notin ToSet(q) => Injective(r)
  <2> SUFFICES ASSUME Injective(q), x \notin ToSet(q), NEW i \in DOMAIN r, NEW k \in DOMAIN r,
                      r[i] = r[k]
               PROVE  i = k
    BY DEF Injective
  <2>1. \A m \in 1 .. Len(q) : q[m] # x
    BY <1>2 DEF ToSet
  <2>2. CASE i = Len(q) + 1 \/ k = Len(q) + 1
    BY <1>1, <1>2, <2>1, <2>2
  <2>3. CASE i \in 1 .. Len(q) /\ k \in 1 .. Len(q)
    BY <1>1, <1>2, <2>3 DEF Injective
  <2> QED BY <1>1, <1>2, <2>2, <2>3
<1> QED BY <1>1, <1>3, <1>4 DEF r

LEMMA TailSet ==
  ASSUME NEW S, NEW q \in Seq(S), q # <<>>
  PROVE  /\ Head(q) \in S /\ Tail(q) \in Seq(S) /\ Len(Tail(q)) = Len(q) - 1
         /\ ToSet(q) = ToSet(Tail(q)) \union {Head(q)}
         /\ Injective(q) => Injective(Tail(q)) /\ Head(q) \notin ToSet(Tail(q))
<1> DEFINE r == Tail(q)
<1>1. /\ r \in Seq(S) /\ Len(r) = Len(q) - 1 /\ Len(q) \in Nat /\ Len(q) >= 1
      /\ \A i \in 1 .. Len(r) : r[i] = q[i + 1]
      /\ Head(q) = q[1] /\ q[1] \in S
  OBVIOUS
<1>2. DOMAIN q = 1 .. Len(q) /\ DOMAIN r = 1 .. Len(q) - 1
  BY <1>1
<1> HIDE DEF r
<1>3. ToSet(q) = ToSet(r) \union {q[1]}
  <2>1. ASSUME NEW y \in ToSet(q) PROVE y \in ToSet(r) \union {q[1]}
    <3>1. PICK i \in 1 .. Len(q) : y = q[i]
      BY <1>2, <2>1 DEF ToSet
    <3>2. CASE i = 1
      BY <3>1, <3>2
    <3>3. CASE i # 1
      <4>1. i - 1 \in 1 .. Len(r) /\ q[i] = r[i - 1]
        BY <1>1, <3>1, <3>3
      <4> QED BY <1>1, <1>2, <3>1, <4>1 DEF ToSet
    <3> QED BY <3>2, <3>3
  <2>2. ASSUME NEW y \in ToSet(r) PROVE y \in ToSet(q)
    <3>1. PICK i \in 1 .. Len(q) - 1 : y = q[i + 1]
      BY <1>1, <1>2, <2>2 DEF ToSet
    <3>2. i + 1 \in DOMAIN q
      BY <1>1, <1>2, <3>1
    <3> QED BY <3>1, <3>2 DEF ToSet
  <2>3. q[1] \in ToSet(q)
    BY <1>1, <1>2 DEF ToSet
  <2> QED BY <2>1, <2>2, <2>3
<1>4. Injective(q) => Injective(r) /\ q[1] \notin ToSet(r)
  <2> SUFFICES ASSUME Injective(q)
               PROVE  Injective(r) /\ q[1] \notin ToSet(r)
    OBVIOUS
  <2>1. Injective(r)
    <3> SUFFICES ASSUME NEW i \in 1 .. Len(r), NEW k \in 1 .. Len(r), r[i] = r[k]
                 PROVE  i = k
      BY <1>1, <1>2 DEF Injective
    <3>1. i + 1 \in DOMAIN q /\ k + 1 \in DOMAIN q /\ q[i + 1] = q[k + 1]
      BY <1>1, <1>2
    <3>2. i + 1 = k + 1
      BY <3>1 DEF Injective
    <3> QED BY <1>1, <3>2
  <2>2. ASSUME q[1] \in ToSet(r) PROVE FALSE
    <3>1. PICK i \in 1 .. Len(r) : r[i] = q[1]
      BY <1>1, <1>2, <2>2 DEF ToSet
    <3>2. i + 1 \in DOMAIN q /\ 1 \in DOMAIN q /\ q[i + 1] = q[1]
      BY <1>1, <1>2, <3>1
    <3>3. i + 1 = 1
      BY <3>2 DEF Injective
    <3> QED BY <1>1, <3>3
  <2> QED BY <2>1, <2>2
<1> QED BY <1>1, <1>3, <1>4 DEF r

(* The jobs kept of a list are those of it that are to be kept, each once. *)
LEMMA KeptIs ==
  ASSUME NEW S, NEW js \in Seq(S), NEW keep
  PROVE  /\ Kept(js, keep) \in Seq(S) /\ Len(Kept(js, keep)) <= Len(js)
         /\ ToSet(Kept(js, keep)) = ToSet(js) \intersect keep
         /\ Injective(js) => Injective(Kept(js, keep))
<1> DEFINE n == Len(js)
           G(f, i) == IF i = 0 THEN <<>>
                      ELSE IF js[i] \in keep THEN Append(f[i - 1], js[i]) ELSE f[i - 1]
           Fits(f, m) == f \in [0 .. m -> Seq(S)] /\ \A i \in 0 .. m : f[i] = G(f, i)
           kept == CHOOSE f : f = [i \in 0 .. n |-> G(f, i)]
<1>1. Kept(js, keep) = kept[n]
  BY DEF Kept
<1>2. n \in Nat /\ DOMAIN js = 1 .. n /\ \A i \in 1 .. n : js[i] \in S
  OBVIOUS
<1> HIDE DEF n
<1>3. \E f : Fits(f, n)
  <2> DEFINE Bad == {m \in 0 .. n : ~\E f : Fits(f, m)}
  <2>2. SUFFICES ASSUME Bad # {} PROVE FALSE
    <3>1. n \in 0 .. n
      BY <1>2
    <3> QED BY <3>1
  <2>3. PICK m \in Bad : \A k \in Bad : m <= k
    <3>1. Bad \in SUBSET Nat
      OBVIOUS
    <3> HIDE DEF Bad
    <3> QED BY <2>2, <3>1, LeastNat
  <2>4. CASE m = 0
    <3>1. Fits([i \in 0 .. 0 |-> <<>>], 0)
      OBVIOUS
    <3> QED BY <2>3, <2>4, <3>1
  <2>5. CASE m # 0
    <3>1. m \in 1 .. n /\ m - 1 \in 0 .. n /\ m - 1 \notin Bad
      <4>1. m \in 0 .. n
        BY <2>3
      <4> HIDE DEF Bad
      <4> QED BY <1>2, <2>3, <2>5, <4>1
    <3>2. PICK f : Fits(f, m - 1)
      BY <3>1
    <3> DEFINE g == [i \in 0 .. m |-> IF i = m THEN G(f, m) ELSE f[i]]
    <3>3. G(f, m) \in Seq(S)
      BY <1>2, <3>1, <3>2
    <3>4. g \in [0 .. m -> Seq(S)]
      BY <3>1, <3>2, <3>3
    <3>5. ASSUME NEW i \in 0 .. m PROVE g[i] = G(g, i)
      <4>1. i > 0 => g[i - 1] = f[i - 1]
        BY <3>1
      <4>2. CASE i = m
        BY <3>1, <4>1, <4>2
      <4>3. CASE i # m
        <5>1. i \in 0 .. m - 1
          BY <3>1, <4>3
        <5>2. g[i] = f[i] /\ f[i] = G(f, i)
          BY <3>2, <5>1, <4>3
        <5> QED BY <4>1, <5>1, <5>2
      <4> QED BY <4>2, <4>3
    <3> HIDE DEF g
    <3>6. Fits(g, m)
      BY <3>4, <3>5
    <3> QED BY <2>3, <3>6
  <2> QED BY <2>4, <2>5
<1>4. kept = [i \in 0 .. n |-> G(kept, i)]
  <2>1. PICK f : Fits(f, n)
    BY <1>3
  <2>2. f = [i \in 0 .. n |-> G(f, i)]
    BY <2>1
  <2> QED BY <2>2
<1> HIDE DEF kept
<1>5. /\ kept[0] = <<>>
      /\ \A i \in 1 .. n : kept[i] = IF js[i] \in keep THEN Append(kept[i - 1], js[i]) ELSE kept[i - 1]
  <2>1. \A i \in 0 .. n : kept[i] = G(kept, i)
    BY <1>4
  <2> QED BY <1>2, <2>1
<1> DEFINE Upto(i) == {js[k] : k \in 1 .. i}
           Right(i) == /\ kept[i] \in Seq(S) /\ Len(kept[i]) <= i
                       /\ ToSet(kept[i]) = Upto(i) \intersect keep
                       /\ Injective(js) => Injective(kept[i])
<1>6. Right(0)
  BY <1>5, NoneSet
<1>7. ASSUME NEW i \in 1 .. n, Right(i - 1)
      PROVE  Right(i)
  <2>1. Upto(i) = Upto(i - 1) \union {js[i]}
    BY <1>2
  <2>2. Injective(js) => js[i] \notin Upto(i - 1)
    BY <1>2 DEF Injective
  <2>3. js[i] \in S /\ i \in Nat /\ i - 1 \in Nat
    BY <1>2
  <2> HIDE DEF Upto
  <2>4. CASE js[i] \in keep
    <3>1. kept[i] = Append(kept[i - 1], js[i])
      BY <1>5, <2>4
    <3>2. Len(kept[i]) <= i
      BY <1>7, <2>3, <3>1, AppendSet
    <3>3. ToSet(kept[i]) = Upto(i) \intersect keep /\ kept[i] \in Seq(S)
      BY <1>7, <2>1, <2>3, <2>4, <3>1, AppendSet
    <3>4. Injective(js) => Injective(kept[i])
      BY <1>7, <2>2, <2>3, <3>1, AppendSet
    <3> QED BY <3>2, <3>3, <3>4
  <2>5. CASE js[i] \notin keep
    <3>1. kept[i] = kept[i - 1]
      BY <1>5, <2>5
    <3>2. Len(kept[i]) <= i
      BY <1>7, <2>3, <3>1
    <3> QED BY <1>7, <2>1, <2>5, <3>1, <3>2
  <2> QED BY <2>4, <2>5
<1> HIDE DEF Right
<1>8. Right(n)
  <2> DEFINE Wrong == {i \in 0 .. n : ~Right(i)}
  <2>1. SUFFICES ASSUME Wrong # {} PROVE FALSE
    BY <1>2
  <2>2. PICK i \in Wrong : \A k \in Wrong : i <= k
    <3>1. Wrong \in SUBSET Nat
      OBVIOUS
    <3> HIDE DEF Wrong
    <3> QED BY <2>1, <3>1, LeastNat
  <2>3. i \in 1 .. n /\ i - 1 \in 0 .. n
    BY <1>6, <2>2, <1>2
  <2>4. Right(i - 1)
    BY <2>2, <2>3
  <2> QED BY <1>7, <2>2, <2>3, <2>4
<1>9. Upto(n) = ToSet(js)
  BY <1>2 DEF ToSet
<1> QED BY <1>1, <1>8, <1>9 DEF Right, n

-----------------------------------------------------------------------------
(* The inductive invariant *)

(* Where the loop stands once the results of this step are sent.           *)
Where == IF pc = "send" THEN after ELSE pc
Gathering == {"form", "paused", "gated", "seed", "fill", "sift", "encode"}

Regions == [job : Jobs \union {None}, key : Keys \union {None}, rungs : Nat]

TypeInv ==
  /\ jobs \in Seq(Jobs) /\ Len(jobs) <= JobCap /\ outLen \in 0 .. OutCap
  /\ inputOpen \in BOOLEAN /\ outClosed \in BOOLEAN /\ throttle \in BOOLEAN
  /\ events \in 0 .. MaxEvents /\ gone \subseteq Marks
  /\ sent \subseteq Jobs /\ reported \subseteq ran /\ ran \subseteq Jobs
  /\ pc \in Gathering \union {"send", "loop", "wait", "done"}
  /\ after \in Gathering \union {"loop", "wait"}
  /\ mode \in {"blocking", "overlap"}
  /\ forming \in Seq(Jobs) /\ room \in 1 .. TgBudget
  /\ pending \in Jobs \union {None} /\ unsent \in Nat
  /\ current \in Batches \union {None} /\ queue \in Seq(Batches)
  /\ answers \in [Jobs -> {<<>>} \union {<<o>> : o \in Outcomes}]
  /\ free \subseteq Buffers /\ Cardinality(free) <= PoolCap
  /\ memory \in [Buffers -> Seq(Regions)]
  /\ DOMAIN read = Jobs

(* A batch is in hand, and in which, as the place in the loop says.        *)
ShapeInv ==
  /\ pc = "send" => unsent > 0
  /\ Where \in {"fill", "sift", "encode"} <=> forming # <<>>
  /\ Where = "fill" => Len(forming) <= room /\ pending = None
  /\ Len(forming) <= TgBudget
  /\ Where \in Gathering => queue = <<>> /\ (mode = "blocking" <=> current = None)
  /\ Where = "loop" => current = None /\ Len(queue) \in 1 .. 2
  /\ Where = "wait" => current # None /\ Len(queue) <= 1
  /\ pc = "done" =>
       /\ current = None /\ Len(queue) <= 1
       /\ \A i \in DOMAIN queue : ~Running(queue[i])
       /\ outClosed \/ (queue = <<>> /\ ~inputOpen /\ jobs = <<>> /\ pending = None)

(* The jobs of a batch share its key.                                      *)
Alike(js) == Injective(js) /\ \A j, k \in ToSet(js) : SameKey(j, k)

Apart(S, T) == S \intersect T = {}
Aside == IF pending = None THEN {} ELSE {pending}
JobsIn(b) == ToSet(b.jobs)
HandJobs == IF current = None THEN {} ELSE JobsIn(current)
QueueJobs == UNION {JobsIn(b) : b \in ToSet(queue)}

(* The jobs handed over, each in one place, and which are answered.        *)
Split(chan, aside, form, hand, others) ==
  /\ Apart(chan, aside) /\ Apart(chan, form) /\ Apart(chan, hand) /\ Apart(chan, others)
  /\ Apart(aside, form) /\ Apart(aside, hand) /\ Apart(aside, others)
  /\ Apart(form, hand) /\ Apart(form, others) /\ Apart(hand, others)

Ledger(chan, aside, form, hand, others, given, said, lost) ==
  LET held == chan \union aside \union form \union hand \union others IN
  /\ Split(chan, aside, form, hand, others)
  /\ \A j \in held : j \in given /\ said[j] = <<>>
  /\ lost \/ \A j \in given : j \in held \/ said[j] # <<>>
  /\ \A j \in Jobs \ given : said[j] = <<>>

CustodyInv ==
  /\ \E k \in 0 .. N : sent = 1 .. k
  /\ Injective(jobs) /\ Alike(forming)
  /\ \A i, k \in DOMAIN queue : i # k => Apart(JobsIn(queue[i]), JobsIn(queue[k]))
  /\ Ledger(ToSet(jobs), Aside, ToSet(forming), HandJobs, QueueJobs, sent, answers, outClosed)

(* Chunks that are through.                                                *)
Done(b) == IF b.cmds # <<>> /\ Last(b.cmds) # "completed" THEN Len(b.cmds) - 1 ELSE Len(b.cmds)

(* What a batch is made of, how far it got, and what its regions hold.     *)
MadeOf(b) == b.jobs # <<>> /\ Alike(b.jobs) /\ b.inputs = b.jobs /\ b.key = KeyOf[b.jobs[1]]
InPlan(b) ==
  /\ Len(b.cmds) <= Chunks(b.limit, Betas)
  /\ \A k \in 1 .. Len(b.cmds) - 1 : b.cmds[k] = "completed"
Holds(b, store) ==
  /\ Len(b.jobs) <= Len(store)
  /\ Done(b) > 0 => \A p \in 1 .. Len(b.jobs) :
       store[p] = [job |-> b.jobs[p], key |-> b.key, rungs |-> Min({Done(b) * b.limit, Betas})]
BatchOk(b) == MadeOf(b) /\ InPlan(b) /\ Holds(b, memory[b.buf])

BatchesInv ==
  /\ current # None => BatchOk(current)
  /\ \A i \in DOMAIN queue : BatchOk(queue[i])
  /\ pc # "done" =>
       /\ current # None => current.buf \notin free
       /\ \A i \in DOMAIN queue : queue[i].buf \notin free
       /\ current # None => \A i \in DOMAIN queue : current.buf # queue[i].buf
       /\ \A i, k \in DOMAIN queue : i # k => queue[i].buf # queue[k].buf

(* Batches with GPU time the governor was not told of are still in hand.   *)
TimeInv == ran \subseteq reported \union (IF pc = "done" THEN {} ELSE HandJobs \union QueueJobs)

IInv == TypeInv /\ ShapeInv /\ CustodyInv /\ BatchesInv /\ TimeInv

-----------------------------------------------------------------------------
(* The buffers *)

LEMMA SomeSubset ==
  ASSUME NEW S, IsFiniteSet(S), NEW k \in 0 .. Cardinality(S)
  PROVE  \E T \in SUBSET S : Cardinality(T) = k
<1> DEFINE Sizes == {m \in Nat : m >= k /\ \E T \in SUBSET S : Cardinality(T) = m}
<1>1. Cardinality(S) \in Sizes
  BY FS_CardinalityType
<1>2. PICK m \in Sizes : \A n \in Sizes : m <= n
  <2>1. Sizes \in SUBSET Nat /\ Sizes # {}
    BY <1>1
  <2> HIDE DEF Sizes
  <2> QED BY <2>1, LeastNat
<1>3. PICK T \in SUBSET S : Cardinality(T) = m
  BY <1>2
<1>4. IsFiniteSet(T)
  BY FS_Subset
<1>5. CASE m = k
  BY <1>3, <1>5
<1>6. CASE m # k
  <2>1. m \in Nat /\ m > k /\ k \in Nat
    BY <1>2, <1>6
  <2>2. T # {}
    BY <1>3, <2>1, FS_EmptySet
  <2>3. PICK x \in T : TRUE
    BY <2>2
  <2>4. Cardinality(T \ {x}) = m - 1
    BY <1>3, <1>4, <2>3, FS_RemoveElement
  <2>5. m - 1 \in Sizes
    BY <2>1, <2>4
  <2> HIDE DEF Sizes
  <2> QED BY <1>2, <2>1, <2>5
<1> QED BY <1>5, <1>6

LEMMA Sizes ==
  /\ Betas \in Nat \ {0} /\ PoolCap \in Nat /\ N \in Nat /\ TgBudget \in Nat \ {0}
  /\ JobCap \in Nat /\ OutCap \in Nat /\ MaxEvents \in Nat
BY BatchAssumption, BudgetTyped

LEMMA BuffersFinite ==
  ASSUME NEW S \in SUBSET Buffers
  PROVE  IsFiniteSet(S) /\ Cardinality(S) \in Nat
<1>1. IsFiniteSet(Buffers)
  BY FS_Interval, BatchAssumption DEF Buffers
<1> QED BY <1>1, FS_Subset, FS_CardinalityType

(* The pool takes no more than it has room for, and nothing but what it is *)
(* given.                                                                  *)
LEMMA GiveIs ==
  ASSUME free \subseteq Buffers, Cardinality(free) <= PoolCap, NEW bs \in SUBSET Buffers
  PROVE  /\ Give(bs) \subseteq free \union bs
         /\ Cardinality(Give(bs)) <= PoolCap
<1> DEFINE kept == Min({PoolCap - Cardinality(free), Cardinality(bs)})
           s == CHOOSE s \in SUBSET bs : Cardinality(s) = kept
<1>1. IsFiniteSet(free) /\ Cardinality(free) \in Nat /\ IsFiniteSet(bs) /\ Cardinality(bs) \in Nat
  BY BuffersFinite
<1>2. PoolCap \in Nat
  BY BatchAssumption
<1>3. kept \in 0 .. Cardinality(bs) /\ kept <= PoolCap - Cardinality(free)
  <2>1. PoolCap - Cardinality(free) \in Int /\ Cardinality(bs) \in Int
    BY <1>1, <1>2
  <2>2. kept = IF PoolCap - Cardinality(free) <= Cardinality(bs)
               THEN PoolCap - Cardinality(free) ELSE Cardinality(bs)
    BY <2>1, MinPair
  <2> HIDE DEF kept
  <2> QED BY <1>1, <1>2, <2>2
<1>4. Give(bs) = free \union s
  BY DEF Give
<1> HIDE DEF kept
<1>5. s \in SUBSET bs /\ Cardinality(s) = kept
  <2>1. \E T \in SUBSET bs : Cardinality(T) = kept
    BY <1>1, <1>3, SomeSubset
  <2> QED BY <2>1
<1> HIDE DEF s
<1>6. IsFiniteSet(s)
  BY <1>1, <1>5, FS_Subset
<1>7. Cardinality(free \union s) = Cardinality(free) + Cardinality(s) - Cardinality(free \intersect s)
  BY <1>1, <1>6, FS_Union
<1>8. Cardinality(free \intersect s) \in Nat
  BY <1>1, FS_Intersection, FS_CardinalityType
<1> QED BY <1>1, <1>2, <1>3, <1>4, <1>5, <1>7, <1>8

(* A rented buffer is long enough, and no other batch has it.              *)
LEMMA RentedIs ==
  ASSUME free \subseteq Buffers, Cardinality(free) <= PoolCap,
         memory \in [Buffers -> Seq(Regions)],
         InHand = {} \/ \E b : InHand = {b} /\ b.buf \in Buffers /\ b.buf \notin free,
         NEW len \in Nat
  PROVE  /\ Rented(len) \in Buffers
         /\ \A b \in InHand : Rented(len) # b.buf
         /\ Storage(len) \in Seq(Regions) /\ len <= Len(Storage(len))
<1>1. CASE Fitting(len) # {}
  <2> DEFINE Lens == {Len(memory[b]) : b \in Fitting(len)}
             r == Rented(len)
  <2>0. \A b \in Fitting(len) : Len(memory[b]) \in Nat
    <3> TAKE b \in Fitting(len)
    <3>1. memory[b] \in Seq(Regions)
      BY DEF Fitting
    <3> QED BY <3>1
  <2>1. Lens \in SUBSET Nat /\ Lens # {}
    BY <1>1, <2>0
  <2>2. PICK m \in Lens : \A n \in Lens : m <= n
    <3> HIDE DEF Lens
    <3> QED BY <2>1, LeastNat
  <2>3. \E b \in Fitting(len) : \A c \in Fitting(len) : Len(memory[b]) <= Len(memory[c])
    BY <2>2
  <2>4. r \in Fitting(len)
    BY <1>1, <2>3 DEF Rented
  <2>5. Storage(len) = memory[r]
    BY <1>1 DEF Storage
  <2> HIDE DEF r
  <2>6. r \in free /\ len <= Len(memory[r])
    BY <2>4 DEF Fitting
  <2> QED BY <2>5, <2>6 DEF r
<1>2. CASE Fitting(len) = {}
  <2> DEFINE taken == free \union {b.buf : b \in InHand}
             fresh == Buffers \ taken
  <2>1. Cardinality(taken) <= PoolCap + 1 /\ taken \subseteq Buffers
    <3>1. IsFiniteSet(free) /\ Cardinality(free) \in Nat /\ PoolCap \in Nat
      BY BuffersFinite, BatchAssumption
    <3>2. CASE InHand = {}
      <4>1. taken = free
        BY <3>2
      <4> HIDE DEF taken
      <4> QED BY <3>1, <4>1
    <3>3. ASSUME NEW b, InHand = {b}, b.buf \in Buffers
          PROVE  Cardinality(taken) <= PoolCap + 1 /\ taken \subseteq Buffers
      <4>1. taken = free \union {b.buf}
        BY <3>3
      <4>2. Cardinality(free \union {b.buf}) <= Cardinality(free) + 1
        <5>1. Cardinality(free \union {b.buf}) =
                IF b.buf \in free THEN Cardinality(free) ELSE Cardinality(free) + 1
          BY <3>1, FS_AddElement
        <5> QED BY <3>1, <5>1
      <4>3. Cardinality(free \union {b.buf}) \in Nat
        BY <3>1, FS_AddElement, FS_CardinalityType
      <4> HIDE DEF taken
      <4> QED BY <3>1, <3>3, <4>1, <4>2, <4>3
    <3> QED BY <3>2, <3>3
  <2> HIDE DEF taken
  <2>2. Cardinality(Buffers) = PoolCap + 3
    <3>1. PoolCap + 3 \in Int /\ ~(1 > PoolCap + 3) /\ (PoolCap + 3) - 1 + 1 = PoolCap + 3
      BY Sizes
    <3> QED BY <3>1, FS_Interval DEF Buffers
  <2>3. taken # Buffers
    BY <2>1, <2>2, BatchAssumption
  <2>4. fresh # {} /\ fresh \in SUBSET Nat
    <3>1. Buffers \in SUBSET Nat
      BY BatchAssumption DEF Buffers
    <3> QED BY <2>1, <2>3, <3>1
  <2>5. Rented(len) = Min(fresh)
    BY <1>2 DEF Rented, taken
  <2>6. Rented(len) \in fresh
    <3> HIDE DEF fresh
    <3> QED BY <2>4, <2>5, MinNat
  <2>7. Rented(len) \in Buffers /\ \A b \in InHand : Rented(len) # b.buf
    BY <2>6 DEF taken
  <2>8. Storage(len) = [p \in 1 .. len |-> Blank]
    BY <1>2 DEF Storage
  <2>9. Blank \in Regions
    BY DEF Blank, Regions
  <2>10. [p \in 1 .. len |-> Blank] \in Seq(Regions) /\ Len([p \in 1 .. len |-> Blank]) = len
    BY <2>9
  <2> QED BY <2>7, <2>8, <2>10
<1> QED BY <1>1, <1>2

-----------------------------------------------------------------------------
(* Batches *)

Statuses == {"running", "completed", "error"}

LEMMA BatchTyped ==
  ASSUME NEW b \in Batches
  PROVE  /\ b.jobs \in Seq(Jobs) /\ b.inputs \in Seq(Jobs) /\ b.buf \in Buffers
         /\ b.key \in Keys /\ b.limit \in 1 .. Betas /\ b.cmds \in Seq(Statuses)
         /\ b.limit \in Nat \ {0}
BY Sizes DEF Batches, Statuses

LEMMA CmdsChange ==
  ASSUME NEW b \in Batches, NEW c \in Seq(Statuses)
  PROVE  /\ [b EXCEPT !.cmds = c] \in Batches
         /\ [b EXCEPT !.cmds = c].jobs = b.jobs /\ [b EXCEPT !.cmds = c].inputs = b.inputs
         /\ [b EXCEPT !.cmds = c].buf = b.buf /\ [b EXCEPT !.cmds = c].key = b.key
         /\ [b EXCEPT !.cmds = c].limit = b.limit /\ [b EXCEPT !.cmds = c].cmds = c
BY DEF Batches, Statuses

LEMMA FrontIs ==
  ASSUME NEW c \in Seq(Statuses), c # <<>>, NEW s \in Statuses
  PROVE  /\ Append(Front(c), s) \in Seq(Statuses)
         /\ Len(Append(Front(c), s)) = Len(c)
         /\ \A k \in 1 .. Len(c) - 1 : Append(Front(c), s)[k] = c[k]
         /\ Append(Front(c), s)[Len(c)] = s
<1>1. Len(c) \in Nat /\ Len(c) >= 1
  OBVIOUS
<1>2. /\ SubSeq(c, 1, Len(c) - 1) \in Seq(Statuses) /\ Len(SubSeq(c, 1, Len(c) - 1)) = Len(c) - 1
      /\ \A k \in 1 .. Len(c) - 1 : SubSeq(c, 1, Len(c) - 1)[k] = c[k]
  BY <1>1
<1>3. Front(c) = SubSeq(c, 1, Len(c) - 1)
  BY DEF Front
<1> DEFINE f == Front(c)
<1>4. f \in Seq(Statuses) /\ Len(f) = Len(c) - 1 /\ \A k \in 1 .. Len(c) - 1 : f[k] = c[k]
  BY <1>2, <1>3
<1> HIDE DEF f
<1>5. /\ Append(f, s) \in Seq(Statuses) /\ Len(Append(f, s)) = Len(f) + 1
      /\ \A k \in 1 .. Len(f) : Append(f, s)[k] = f[k]
      /\ Append(f, s)[Len(f) + 1] = s
  BY <1>4
<1>6. Len(f) + 1 = Len(c)
  BY <1>1, <1>4
<1> QED BY <1>1, <1>4, <1>5, <1>6 DEF f

(* The chunks cover the schedule, and none of them is empty.               *)
LEMMA ChunksTyped ==
  ASSUME NEW limit \in 1 .. Betas
  PROVE  /\ Chunks(limit, Betas) \in Nat
         /\ Betas <= limit * Chunks(limit, Betas)
         /\ \A k \in Nat : k < Chunks(limit, Betas) => limit * k < Betas
<1>1. limit \in Nat \ {0} /\ Betas \in Nat \ {0}
  BY Sizes
<1> DEFINE q == Chunks(limit, Betas)
<1>2. q \in 1 .. Betas /\ Betas <= limit * q /\ \A k \in Nat : k < q => limit * k < Betas
  BY <1>1, CeilBounds DEF Chunks
<1> HIDE DEF q
<1>3. q \in Nat
  BY <1>1, <1>2
<1> QED BY <1>2, <1>3 DEF q

(* A chunk more is under way.                                              *)
LEMMA CommittedIs ==
  ASSUME NEW b \in Batches
  PROVE  /\ Committed(b) \in Batches
         /\ Committed(b).jobs = b.jobs /\ Committed(b).inputs = b.inputs
         /\ Committed(b).buf = b.buf /\ Committed(b).key = b.key
         /\ Committed(b).limit = b.limit /\ Committed(b).cmds = Append(b.cmds, "running")
<1> DEFINE c == Append(b.cmds, "running")
<1>1. c \in Seq(Statuses)
  BY BatchTyped DEF Statuses
<1>2. Committed(b) = [b EXCEPT !.cmds = c]
  BY DEF Committed
<1> HIDE DEF c
<1>3. /\ Committed(b) \in Batches
      /\ Committed(b).jobs = b.jobs /\ Committed(b).inputs = b.inputs
      /\ Committed(b).buf = b.buf /\ Committed(b).key = b.key
      /\ Committed(b).limit = b.limit /\ Committed(b).cmds = c
  BY <1>1, <1>2, CmdsChange
<1> QED BY <1>3 DEF c

LEMMA CommitKeeps ==
  ASSUME NEW b \in Batches, NEW store, CanCommit(b), MadeOf(b), InPlan(b), Holds(b, store)
  PROVE  MadeOf(Committed(b)) /\ InPlan(Committed(b)) /\ Holds(Committed(b), store)
<1> DEFINE c == Committed(b)
           n == Len(b.cmds)
<1>1. /\ c.jobs = b.jobs /\ c.inputs = b.inputs /\ c.buf = b.buf /\ c.key = b.key
      /\ c.limit = b.limit /\ c.cmds = Append(b.cmds, "running")
  BY CommittedIs
<1>2. b.cmds \in Seq(Statuses) /\ n \in Nat
  BY BatchTyped
<1>3. Len(c.cmds) = n + 1 /\ c.cmds[n + 1] = "running" /\ \A k \in 1 .. n : c.cmds[k] = b.cmds[k]
  BY <1>1, <1>2
<1>4. \A k \in 1 .. n : b.cmds[k] = "completed"
  BY DEF CanCommit, Failed
<1>5. Done(c) = n
  <2>1. c.cmds # <<>> /\ Last(c.cmds) = "running"
    BY <1>1, <1>2, <1>3 DEF Last
  <2> QED BY <1>2, <1>3, <2>1 DEF Done
<1>6. Done(b) = n
  BY <1>2, <1>4 DEF Done, Last
<1>7. n + 1 <= Chunks(b.limit, Betas)
  <2>1. Chunks(b.limit, Betas) \in Nat
    BY ChunksTyped, BatchTyped
  <2> QED BY <1>2, <2>1 DEF CanCommit
<1> HIDE DEF c
<1>8. MadeOf(c)
  BY <1>1 DEF MadeOf
<1>9. InPlan(c)
  BY <1>1, <1>2, <1>3, <1>4, <1>7 DEF InPlan
<1>10. Holds(c, store)
  BY <1>1, <1>5, <1>6 DEF Holds
<1> QED BY <1>8, <1>9, <1>10 DEF c

LEMMA RetiredIs ==
  ASSUME NEW b \in Batches, b.cmds # <<>>, NEW status \in Statuses
  PROVE  /\ Retired(b, status) \in Batches
         /\ Retired(b, status).jobs = b.jobs /\ Retired(b, status).inputs = b.inputs
         /\ Retired(b, status).buf = b.buf /\ Retired(b, status).key = b.key
         /\ Retired(b, status).limit = b.limit
         /\ Retired(b, status).cmds = Append(Front(b.cmds), status)
<1> DEFINE c == Append(Front(b.cmds), status)
<1>1. c \in Seq(Statuses)
  BY BatchTyped, FrontIs
<1>2. Retired(b, status) = [b EXCEPT !.cmds = c]
  BY DEF Retired
<1> HIDE DEF c
<1>3. /\ Retired(b, status) \in Batches
      /\ Retired(b, status).jobs = b.jobs /\ Retired(b, status).inputs = b.inputs
      /\ Retired(b, status).buf = b.buf /\ Retired(b, status).key = b.key
      /\ Retired(b, status).limit = b.limit /\ Retired(b, status).cmds = c
  BY <1>1, <1>2, CmdsChange
<1> QED BY <1>3 DEF c

(* The rungs of n chunks, and what the n-th of them adds.                  *)
LEMMA ChunkAdds ==
  ASSUME NEW limit \in 1 .. Betas, NEW n \in 1 .. Chunks(limit, Betas)
  PROVE  LET c == Chunk(limit, n, Betas) IN
         /\ c.start = (n - 1) * limit /\ c.count \in Nat
         /\ c.start = 0 <=> n = 1
         /\ n = 1 => Min({n * limit, Betas}) = c.count
         /\ n > 1 => Min({(n - 1) * limit, Betas}) + c.count = Min({n * limit, Betas})
<1> DEFINE c == Chunk(limit, n, Betas)
           s == (n - 1) * limit
           e == n * limit
<1>1. limit \in Nat \ {0} /\ Betas \in Nat \ {0} /\ Chunks(limit, Betas) \in Nat
  BY Sizes, ChunksTyped
<1>2. n \in Nat \ {0} /\ n - 1 \in Nat
  BY <1>1
<1>3. limit * (n - 1) < Betas
  <2>1. n - 1 < Chunks(limit, Betas)
    BY <1>1, <1>2
  <2> QED BY <1>2, <2>1, ChunksTyped
<1>4. s \in Nat /\ s < Betas /\ e = s + limit /\ e \in Nat /\ (s = 0 <=> n = 1)
  <2>1. \A x \in Nat, y \in Nat \ {0} : x * y \in Nat /\ (x * y = 0 <=> x = 0) /\ (x + 1) * y = x * y + y
    OBVIOUS
  <2>2. (n - 1) * limit = limit * (n - 1)
    BY <1>1, <1>2
  <2>3. n = (n - 1) + 1
    BY <1>2
  <2>4. s \in Nat /\ (s = 0 <=> n - 1 = 0) /\ ((n - 1) + 1) * limit = s + limit
    BY <1>1, <1>2, <2>1
  <2>5. s < Betas
    BY <1>3, <2>2
  <2>6. e = s + limit
    BY <2>3, <2>4
  <2> HIDE DEF s, e
  <2> QED BY <1>1, <1>2, <2>4, <2>5, <2>6
<1>5. c.start = s /\ c.count = Min({limit, Betas - s})
  BY DEF Chunk
<1> HIDE DEF c, s, e
<1>6. Min({limit, Betas - s}) = IF limit <= Betas - s THEN limit ELSE Betas - s
  BY <1>1, <1>4, MinPair
<1>7. Min({s, Betas}) = s
  BY <1>1, <1>4, MinPair
<1>8. Min({e, Betas}) = IF e <= Betas THEN e ELSE Betas
  BY <1>1, <1>4, MinPair
<1>9. c.count \in Nat /\ s + c.count = Min({e, Betas})
  BY <1>1, <1>4, <1>5, <1>6, <1>8
<1>10. n = 1 => Min({e, Betas}) = c.count
  BY <1>1, <1>4, <1>9
<1> QED BY <1>4, <1>5, <1>7, <1>9, <1>10 DEF c, s, e

(* The chunk that ends writes the regions of its batch and no other.       *)
LEMMA WrittenTyped ==
  ASSUME NEW b \in Batches, NEW status \in Statuses, b.cmds # <<>>, InPlan(b), MadeOf(b),
         memory \in [Buffers -> Seq(Regions)]
  PROVE  /\ Written(b, status) \in [Buffers -> Seq(Regions)]
         /\ \A c \in Buffers : c # b.buf => Written(b, status)[c] = memory[c]
         /\ Len(Written(b, status)[b.buf]) = Len(memory[b.buf])
         /\ status # "completed" => Written(b, status)[b.buf] = memory[b.buf]
         /\ status = "completed" => Written(b, status)[b.buf] = Annealed(b)
<1> DEFINE n == Len(b.cmds)
           c == Chunk(b.limit, n, Betas)
           m == memory[b.buf]
<1>1. /\ b.buf \in Buffers /\ b.key \in Keys /\ b.inputs \in Seq(Jobs) /\ m \in Seq(Regions)
  BY BatchTyped
<1>2. n \in 1 .. Chunks(b.limit, Betas)
  <2>1. n \in Nat /\ n # 0
    BY BatchTyped
  <2>2. Chunks(b.limit, Betas) \in Nat
    BY ChunksTyped, BatchTyped
  <2> QED BY <2>1, <2>2 DEF InPlan
<1>3. c.count \in Nat
  BY <1>2, ChunkAdds, BatchTyped
<1>4. Annealed(b) = [p \in DOMAIN m |->
           IF p > Len(b.inputs) THEN m[p]
           ELSE IF c.start = 0 THEN [job |-> b.inputs[p], key |-> b.key, rungs |-> c.count]
           ELSE [m[p] EXCEPT !.rungs = @ + c.count]]
  BY DEF Annealed
<1> HIDE DEF c, m
<1>5. Annealed(b) \in Seq(Regions) /\ Len(Annealed(b)) = Len(m)
  <2>1. DOMAIN m = 1 .. Len(m) /\ Len(m) \in Nat /\ \A p \in 1 .. Len(m) : m[p] \in Regions
    BY <1>1
  <2>2. ASSUME NEW p \in 1 .. Len(m) PROVE Annealed(b)[p] \in Regions
    <3>1. m[p] \in Regions
      BY <2>1
    <3>2. [m[p] EXCEPT !.rungs = @ + c.count] \in Regions
      <4>1. \A r \in Regions, k \in Nat : [r EXCEPT !.rungs = @ + k] \in Regions
        BY DEF Regions
      <4> QED BY <1>3, <3>1, <4>1
    <3>3. p <= Len(b.inputs) => b.inputs[p] \in Jobs
      BY <1>1
    <3>4. p <= Len(b.inputs) => [job |-> b.inputs[p], key |-> b.key, rungs |-> c.count] \in Regions
      BY <1>1, <1>3, <3>3 DEF Regions
    <3>5. CASE p > Len(b.inputs)
      BY <1>4, <2>1, <3>1, <3>5
    <3>6. CASE ~(p > Len(b.inputs))
      <4>1. p <= Len(b.inputs)
        BY <1>1, <3>6
      <4> QED BY <1>4, <2>1, <3>2, <3>4, <3>6, <4>1
    <3> QED BY <3>5, <3>6
  <2>3. DOMAIN Annealed(b) = 1 .. Len(m)
    BY <1>4, <2>1
  <2>4. Annealed(b) = [p \in 1 .. Len(m) |-> Annealed(b)[p]]
    BY <1>4, <2>1
  <2> QED BY <2>1, <2>2, <2>3, <2>4
<1>6. Written(b, status) = [memory EXCEPT ![b.buf] = IF status = "completed" THEN Annealed(b) ELSE m]
  BY DEF Written, m
<1> QED BY <1>1, <1>5, <1>6 DEF m

LEMMA RetireKeeps ==
  ASSUME NEW b \in Batches, NEW status \in Statuses \ {"running"}, Running(b),
         MadeOf(b), InPlan(b), Holds(b, memory[b.buf]), memory \in [Buffers -> Seq(Regions)]
  PROVE  LET r == Retired(b, status)
         IN  MadeOf(r) /\ InPlan(r) /\ Holds(r, Written(b, status)[b.buf]) /\ ~Running(r)
<1> DEFINE r == Retired(b, status)
           n == Len(b.cmds)
           m == memory[b.buf]
           w == Written(b, status)[b.buf]
<1>0. b.cmds # <<>> /\ b.cmds \in Seq(Statuses) /\ n \in Nat \ {0} /\ b.cmds[n] = "running"
  BY BatchTyped DEF Running, Last
<1>1. /\ r.jobs = b.jobs /\ r.inputs = b.inputs /\ r.buf = b.buf /\ r.key = b.key
      /\ r.limit = b.limit /\ r.cmds = Append(Front(b.cmds), status)
  BY <1>0, RetiredIs
<1>2. Len(r.cmds) = n /\ r.cmds[n] = status /\ \A k \in 1 .. n - 1 : r.cmds[k] = b.cmds[k]
  BY <1>0, <1>1, FrontIs
<1>3. r.cmds # <<>> /\ Last(r.cmds) = status
  BY <1>0, <1>1, <1>2, FrontIs DEF Last
<1>4. Done(b) = n - 1 /\ Done(r) = IF status = "completed" THEN n ELSE n - 1
  BY <1>0, <1>2, <1>3 DEF Done, Last
<1> HIDE DEF r
<1>5. MadeOf(r)
  BY <1>1 DEF MadeOf
<1>6. InPlan(r)
  BY <1>0, <1>1, <1>2 DEF InPlan
<1>7. ~Running(r)
  BY <1>3 DEF Running
<1>8. Len(w) = Len(m) /\ (status # "completed" => w = m) /\ (status = "completed" => w = Annealed(b))
  BY <1>0, WrittenTyped
<1>9. CASE status # "completed"
  <2>1. Holds(r, m)
    BY <1>1, <1>4, <1>9 DEF Holds
  <2> QED BY <1>5, <1>6, <1>7, <1>8, <1>9, <2>1 DEF r
<1>10. CASE status = "completed"
  <2> DEFINE c == Chunk(b.limit, n, Betas)
  <2>1. n \in 1 .. Chunks(b.limit, Betas) /\ b.limit \in 1 .. Betas
    <3>1. Chunks(b.limit, Betas) \in Nat
      BY ChunksTyped, BatchTyped
    <3> QED BY <1>0, <3>1, BatchTyped DEF InPlan
  <2>2. /\ c.count \in Nat /\ (c.start = 0 <=> n = 1)
        /\ n = 1 => Min({n * b.limit, Betas}) = c.count
        /\ n > 1 => Min({(n - 1) * b.limit, Betas}) + c.count = Min({n * b.limit, Betas})
    BY <2>1, ChunkAdds
  <2>3. w = [p \in DOMAIN m |->
           IF p > Len(b.inputs) THEN m[p]
           ELSE IF c.start = 0 THEN [job |-> b.inputs[p], key |-> b.key, rungs |-> c.count]
           ELSE [m[p] EXCEPT !.rungs = @ + c.count]]
    BY <1>8, <1>10 DEF Annealed
  <2> HIDE DEF c
  <2>4. b.inputs = b.jobs /\ Len(b.jobs) <= Len(m) /\ Len(b.jobs) \in Nat /\ b.jobs \in Seq(Jobs)
    BY BatchTyped DEF MadeOf, Holds
  <2>5. m \in Seq(Regions) /\ DOMAIN m = 1 .. Len(m) /\ Len(m) \in Nat
    BY BatchTyped
  <2> HIDE DEF m, w, n
  <2>6. ASSUME NEW p \in 1 .. Len(b.jobs)
        PROVE  w[p] = [job |-> b.jobs[p], key |-> b.key, rungs |-> Min({n * b.limit, Betas})]
    <3>1. p \in DOMAIN m /\ ~(p > Len(b.inputs))
      BY <2>4, <2>5
    <3>2. CASE n = 1
      BY <2>2, <2>3, <2>4, <3>1, <3>2
    <3>3. CASE n # 1
      <4>1. n > 1 /\ Done(b) > 0 /\ Done(b) = n - 1
        BY <1>0, <1>4, <3>3
      <4>2. m[p] = [job |-> b.jobs[p], key |-> b.key, rungs |-> Min({(n - 1) * b.limit, Betas})]
        BY <4>1 DEF Holds, m
      <4>3. w[p] = [m[p] EXCEPT !.rungs = @ + c.count]
        BY <2>2, <2>3, <3>1, <3>3
      <4> QED BY <2>2, <4>1, <4>2, <4>3
    <3> QED BY <3>2, <3>3
  <2>7. Holds(r, w)
    BY <1>1, <1>4, <1>8, <1>10, <2>4, <2>6 DEF Holds
  <2> QED BY <1>5, <1>6, <1>7, <2>7 DEF r, w
<1> QED BY <1>9, <1>10

-----------------------------------------------------------------------------
(* Steps *)

USE DEF Gathering

Answering(js, o) ==
  /\ js \in Seq(Jobs) /\ js # <<>> /\ o \in Outcomes /\ Fix(js, o)
  /\ pc' = "send" /\ UNCHANGED <<sent, gone, outClosed, inputOpen>>
  /\ \A j \in ToSet(js) : /\ j \in sent /\ answers[j] = <<>>
                          /\ o = "reads" => ~Cancelled(j)
                          /\ o = "cancelled" => Cancelled(j)

LEMMA QueueAt ==
  ASSUME TypeInv
  PROVE  /\ DOMAIN queue = 1 .. Len(queue) /\ Len(queue) \in Nat
         /\ \A i \in 1 .. Len(queue) : queue[i] \in Batches
         /\ ToSet(queue) = {queue[i] : i \in 1 .. Len(queue)}
         /\ ToSet(queue) \subseteq Batches
<1>1. queue \in Seq(Batches)
  BY DEF TypeInv
<1> QED BY <1>1, ToSetOf

LEMMA NotNone ==
  /\ None \notin Jobs /\ None \notin Batches
BY BatchAssumption

LEMMA HandJobsIn ==
  ASSUME TypeInv
  PROVE  HandJobs \subseteq Jobs /\ QueueJobs \subseteq Jobs
<1>1. \A b \in Batches : JobsIn(b) \subseteq Jobs
  BY BatchTyped, ToSetOf DEF JobsIn
<1>2. HandJobs \subseteq Jobs
  BY <1>1 DEF HandJobs, TypeInv
<1>3. QueueJobs \subseteq Jobs
  BY <1>1, QueueAt DEF QueueJobs
<1> QED BY <1>2, <1>3

(* A result or several are fixed, for jobs that are with the stream.       *)
LEMMA AnswerStep ==
  ASSUME IInv, Next
  PROVE  answers' = answers \/ \E js, o : Answering(js, o)
<1> USE DEF IInv
<1>0. /\ ToSet(jobs) \subseteq sent /\ Aside \subseteq sent /\ ToSet(forming) \subseteq sent /\ HandJobs \subseteq sent
      /\ \A j \in ToSet(jobs) \union Aside \union ToSet(forming) \union HandJobs : answers[j] = <<>>
  BY DEF CustodyInv, Ledger
<1>1. ASSUME NEW j \in Jobs, j \in sent, answers[j] = <<>>, Turned(j) # None,
             NEW next, Emit(<<j>>, Turned(j), next), UNCHANGED <<sent, gone, outClosed, inputOpen>>
      PROVE  Answering(<<j>>, Turned(j))
  <2>1. ToSet(<<j>>) = {j} /\ <<j>> \in Seq(Jobs) /\ <<j>> # <<>>
    BY OneSet
  <2>2. Turned(j) \in Outcomes /\ (Turned(j) = "cancelled" <=> Cancelled(j))
    BY <1>1 DEF Turned, Outcomes
  <2>3. Turned(j) = "reads" => ~Cancelled(j)
    BY <2>2 DEF Turned
  <2>4. Fix(<<j>>, Turned(j)) /\ pc' = "send"
    BY <1>1 DEF Emit
  <2> HIDE DEF IInv
  <2> QED BY <1>1, <2>1, <2>2, <2>3, <2>4 DEF Answering
<1>2. CASE SeedPending
  <2>1. pending \in Jobs /\ pending \in sent /\ answers[pending] = <<>>
    BY <1>0, <1>2 DEF SeedPending, TypeInv, Aside
  <2>2. CASE Turned(pending) # None
    BY <1>1, <1>2, <2>1, <2>2 DEF SeedPending, Seed, sessionVars
  <2>3. CASE Turned(pending) = None
    BY <1>2, <2>3 DEF SeedPending, Seed, Quiet
  <2> QED BY <2>2, <2>3
<1>3. ASSUME SeedJob \/ Fill
      PROVE  Head(jobs) \in Jobs /\ Head(jobs) \in sent /\ answers[Head(jobs)] = <<>>
  <2>1. jobs # <<>> /\ jobs \in Seq(Jobs)
    BY <1>3 DEF SeedJob, Fill, TypeInv
  <2>2. Head(jobs) \in Jobs /\ Head(jobs) \in ToSet(jobs)
    BY <2>1, TailSet
  <2> QED BY <1>0, <2>2
<1>4. CASE SeedJob
  <2>2. CASE Turned(Head(jobs)) # None
    BY <1>1, <1>3, <1>4, <2>2 DEF SeedJob, Seed
  <2>3. CASE Turned(Head(jobs)) = None
    BY <1>4, <2>3 DEF SeedJob, Seed, Quiet
  <2> QED BY <2>2, <2>3
<1>5. CASE Fill
  <2>2. CASE Turned(Head(jobs)) # None
    BY <1>1, <1>3, <1>5, <2>2 DEF Fill
  <2>3. CASE Turned(Head(jobs)) = None
    BY <1>5, <2>3 DEF Fill, Quiet
  <2> QED BY <2>2, <2>3
<1>6. CASE Sift
  <2> DEFINE stale == Kept(forming, {j \in Jobs : Cancelled(j)})
             next == IF Kept(forming, {j \in Jobs : ~Cancelled(j)}) = <<>> THEN Retry ELSE "encode"
  <2>1. (stale = <<>> /\ Quiet) \/ (stale # <<>> /\ Emit(stale, "cancelled", next))
    BY <1>6 DEF Sift
  <2>2. UNCHANGED <<sent, gone, outClosed, inputOpen>>
    BY <1>6 DEF Sift, sessionVars
  <2>3. stale \in Seq(Jobs) /\ ToSet(stale) = ToSet(forming) \intersect {j \in Jobs : Cancelled(j)}
    BY KeptIs DEF TypeInv
  <2> HIDE DEF stale, next
  <2>4. CASE Emit(stale, "cancelled", next) /\ stale # <<>>
    <3>1. Fix(stale, "cancelled") /\ pc' = "send"
      BY <2>4 DEF Emit
    <3>2. \A j \in ToSet(stale) : j \in sent /\ answers[j] = <<>> /\ Cancelled(j)
      BY <1>0, <2>3
    <3> HIDE DEF IInv
    <3>3. Answering(stale, "cancelled")
      BY <2>2, <2>3, <2>4, <3>1, <3>2 DEF Answering, Outcomes
    <3> QED BY <3>3
  <2> QED BY <2>1, <2>4 DEF Quiet
<1>7. CASE EncodeFails
  <2>1. Fix(forming, "failed") /\ pc' = "send" /\ UNCHANGED <<sent, gone, outClosed, inputOpen>>
    BY <1>7 DEF EncodeFails, Emit, sessionVars
  <2>2. forming # <<>> /\ forming \in Seq(Jobs)
    BY <1>7 DEF EncodeFails, ShapeInv, Where, TypeInv
  <2>3. \A j \in ToSet(forming) : j \in sent /\ answers[j] = <<>>
    BY <1>0
  <2> HIDE DEF IInv
  <2>4. Answering(forming, "failed")
    BY <2>1, <2>2, <2>3 DEF Answering, Outcomes
  <2> QED BY <2>4
<1>8. CASE Finish
  <2>1. PICK o \in Verdicts(current) : Emit(current.jobs, o, IF queue = <<>> THEN "form" ELSE "loop")
    BY <1>8 DEF Finish
  <2>2. Fix(current.jobs, o) /\ pc' = "send" /\ UNCHANGED <<sent, gone, outClosed, inputOpen>>
    BY <1>8, <2>1 DEF Finish, Emit, sessionVars
  <2>3. current # None /\ current \in Batches
    BY <1>8 DEF Finish, ShapeInv, Where, TypeInv
  <2>4. MadeOf(current) /\ current.jobs \in Seq(Jobs) /\ current.jobs # <<>>
    BY <2>3, BatchTyped DEF BatchesInv, BatchOk, MadeOf
  <2>5. \A j \in ToSet(current.jobs) : j \in sent /\ answers[j] = <<>>
    BY <1>0, <2>3 DEF HandJobs, JobsIn
  <2>6. o \in Outcomes
    BY <2>1 DEF Verdicts, Harvests, Outcomes
  <2>7. \A j, k \in ToSet(current.jobs) : Cancelled(j) <=> Cancelled(k)
    BY <2>4 DEF MadeOf, Alike, SameKey, Cancelled
  <2>8. /\ o = "reads" => ~AnyCancelled(current)
        /\ o = "cancelled" => AnyCancelled(current)
    BY <2>1 DEF Verdicts, Harvests
  <2>9. \A j \in ToSet(current.jobs) : /\ o = "reads" => ~Cancelled(j)
                                       /\ o = "cancelled" => Cancelled(j)
    BY <2>7, <2>8 DEF AnyCancelled
  <2> HIDE DEF IInv
  <2>10. Answering(current.jobs, o)
    BY <2>2, <2>4, <2>5, <2>6, <2>9 DEF Answering
  <2> QED BY <2>10
<1>9. CASE ~(SeedPending \/ SeedJob \/ Fill \/ Sift \/ EncodeFails \/ Finish)
  <2> HIDE DEF IInv
  <2> QED BY <1>9 DEF Next, Host, SendResult, FormGivesUp, Form, Resume, Gated, NoSeed, Filled, Encode,
       Loop, GiveUp, NextChunk, Gpu, Retires, Session, SendJob, CloseInput, Cancel, ReadResult, CloseOut,
       Govern, Finished, Quiet, HostStays, vars, sendVars
<1> QED BY <1>2, <1>4, <1>5, <1>6, <1>7, <1>8, <1>9

LEMMA AppendOne ==
  ASSUME NEW o
  PROVE  Append(<<>>, o) = <<o>>
OBVIOUS

LEMMA AnswersTyped ==
  ASSUME IInv, Next
  PROVE  answers' \in [Jobs -> {<<>>} \union {<<o>> : o \in Outcomes}]
<1>1. answers \in [Jobs -> {<<>>} \union {<<o>> : o \in Outcomes}]
  BY DEF IInv, TypeInv
<1>2. ASSUME NEW js, NEW o, Answering(js, o)
      PROVE  answers' \in [Jobs -> {<<>>} \union {<<u>> : u \in Outcomes}]
  <2>1. answers' = [j \in Jobs |-> IF j \in ToSet(js) THEN Append(answers[j], o) ELSE answers[j]]
    BY <1>2 DEF Answering, Fix
  <2>2. \A j \in ToSet(js) : Append(answers[j], o) = <<o>>
    <3>1. \A j \in ToSet(js) : answers[j] = <<>>
      BY <1>2 DEF Answering
    <3> QED BY <3>1, AppendOne
  <2>3. o \in Outcomes
    BY <1>2 DEF Answering
  <2> QED BY <1>1, <2>1, <2>2, <2>3
<1> QED BY <1>1, <1>2, AnswerStep

(* What a step may write.                                                  *)
LEMMA Effects ==
  ASSUME Next
  PROVE  /\ \/ SeedJob \/ Fill \/ (\E j \in Jobs : SendJob(j))
            \/ jobs' = jobs
         /\ (\E j \in Jobs : SendJob(j)) \/ sent' = sent
         /\ (\E m \in Marks : Cancel(m)) \/ gone' = gone
         /\ CloseInput \/ inputOpen' = inputOpen
         /\ CloseOut \/ outClosed' = outClosed
         /\ (Govern /\ throttle' = ~throttle) \/ throttle' = throttle
         /\ events' = events \/ (events < MaxEvents /\ events' = events + 1)
         /\ \/ FormGivesUp \/ SeedPending \/ SeedJob \/ Fill \/ Sift \/ EncodeFails \/ Encode
            \/ forming' = forming
         /\ SeedPending \/ Fill \/ pending' = pending
         /\ Loop \/ Finish \/ mode' = mode
         /\ Loop \/ GiveUp \/ NextChunk \/ Finish \/ Gpu \/ current' = current
         /\ Encode \/ Loop \/ NextChunk \/ Gpu \/ queue' = queue
         /\ Encode \/ Gpu \/ memory' = memory
         /\ Encode \/ GiveUp \/ Finish \/ free' = free
         /\ Encode \/ NextChunk \/ ran' = ran
         /\ GiveUp \/ Finish \/ reported' = reported
         /\ Finish \/ read' = read
<1> USE DEF Quiet, HostStays, Event, vars, sessionVars, formVars, deviceVars, batchVars, sendVars
<1>1. CASE SendResult BY <1>1 DEF SendResult
<1>2. CASE FormGivesUp BY <1>2 DEF FormGivesUp
<1>3. CASE Form BY <1>3 DEF Form
<1>4. CASE Resume BY <1>4 DEF Resume
<1>5. CASE Gated BY <1>5 DEF Gated
<1>6. CASE SeedPending BY <1>6 DEF SeedPending
<1>7. CASE SeedJob BY <1>7 DEF SeedJob
<1>8. CASE NoSeed BY <1>8 DEF NoSeed
<1>9. CASE Fill BY <1>9 DEF Fill
<1>10. CASE Filled BY <1>10 DEF Filled
<1>11. CASE Sift BY <1>11 DEF Sift
<1>12. CASE EncodeFails BY <1>12 DEF EncodeFails
<1>13. CASE Encode BY <1>13 DEF Encode
<1>14. CASE Loop BY <1>14 DEF Loop
<1>15. CASE GiveUp BY <1>15 DEF GiveUp
<1>16. CASE NextChunk BY <1>16 DEF NextChunk
<1>17. CASE Finish BY <1>17 DEF Finish
<1>18. CASE Gpu BY <1>18 DEF Gpu, Retires
<1>19. CASE \E j \in Jobs : SendJob(j) BY <1>19 DEF SendJob
<1>20. CASE \E m \in Marks : Cancel(m) BY <1>20 DEF Cancel
<1>21. CASE CloseInput BY <1>21 DEF CloseInput
<1>22. CASE ReadResult BY <1>22 DEF ReadResult
<1>23. CASE CloseOut BY <1>23 DEF CloseOut
<1>24. CASE Govern BY <1>24 DEF Govern
<1>25. CASE Finished BY <1>25 DEF Finished
<1> QED BY <1>1, <1>2, <1>3, <1>4, <1>5, <1>6, <1>7, <1>8, <1>9, <1>10, <1>11, <1>12, <1>13, <1>14,
           <1>15, <1>16, <1>17, <1>18, <1>19, <1>20, <1>21, <1>22, <1>23, <1>24, <1>25
           DEF Next, Host, Session

LEMMA SeedIs ==
  ASSUME NEW j \in Jobs, Seed(j), room \in 1 .. TgBudget
  PROVE  \/ Emit(<<j>>, Turned(j), "seed") /\ UNCHANGED <<forming, room>> /\ Turned(j) # None
         \/ forming' = <<j>> /\ pc' = "fill" /\ room' \in 1 .. TgBudget /\ Quiet /\ Turned(j) = None
<1>1. CASE Turned(j) # None
  BY <1>1 DEF Seed
<1>2. CASE Turned(j) = None
  <2>1. PICK share \in Shares : room' = Scaled(BatchSize(ReadsOf[j]), share)
    BY <1>2 DEF Seed
  <2>2. share \in 1 .. 100 /\ ReadsOf[j] \in Nat
    BY BatchAssumption
  <2>3. room' \in 1 .. TgBudget
    BY <2>1, <2>2, BatchSized
  <2> QED BY <1>2, <2>3 DEF Seed
<1> QED BY <1>1, <1>2

LEMMA ChannelTyped ==
  ASSUME IInv, Next
  PROVE  jobs' \in Seq(Jobs) /\ Len(jobs') <= JobCap /\ sent' \subseteq Jobs
<1>1. jobs \in Seq(Jobs) /\ Len(jobs) <= JobCap /\ JobCap \in Nat /\ sent \subseteq Jobs
  BY Sizes DEF IInv, TypeInv
<1>2. ASSUME SeedJob \/ Fill
      PROVE  jobs' \in Seq(Jobs) /\ Len(jobs') <= JobCap
  <2>1. jobs # <<>> /\ jobs' = Tail(jobs)
    BY <1>2 DEF SeedJob, Fill
  <2>2. Tail(jobs) \in Seq(Jobs) /\ Len(Tail(jobs)) = Len(jobs) - 1 /\ Len(jobs) \in Nat
    BY <1>1, <2>1, TailSet
  <2> QED BY <1>1, <2>1, <2>2
<1>3. ASSUME NEW j \in Jobs, SendJob(j)
      PROVE  jobs' \in Seq(Jobs) /\ Len(jobs') <= JobCap /\ sent' \subseteq Jobs
  <2>1. jobs' = Append(jobs, j) /\ Len(jobs) < JobCap /\ sent' = sent \union {j}
    BY <1>3 DEF SendJob
  <2>2. Append(jobs, j) \in Seq(Jobs) /\ Len(Append(jobs, j)) = Len(jobs) + 1 /\ Len(jobs) \in Nat
    BY <1>1, AppendSet
  <2> QED BY <1>1, <2>1, <2>2
<1> QED BY <1>1, <1>2, <1>3, Effects

LEMMA CountsTyped ==
  ASSUME IInv, Next
  PROVE  /\ inputOpen' \in BOOLEAN /\ outClosed' \in BOOLEAN /\ throttle' \in BOOLEAN
         /\ events' \in 0 .. MaxEvents /\ gone' \subseteq Marks /\ mode' \in {"blocking", "overlap"}
<1>1. /\ inputOpen \in BOOLEAN /\ outClosed \in BOOLEAN /\ throttle \in BOOLEAN
      /\ events \in 0 .. MaxEvents /\ MaxEvents \in Nat /\ gone \subseteq Marks
      /\ mode \in {"blocking", "overlap"}
  BY Sizes DEF IInv, TypeInv
<1>2. inputOpen' \in {inputOpen, FALSE}
  BY Effects DEF CloseInput
<1>3. outClosed' \in {outClosed, TRUE}
  BY Effects DEF CloseOut
<1>4. throttle' \in {throttle, ~throttle}
  BY Effects
<1>5. events' \in 0 .. MaxEvents
  BY <1>1, Effects
<1>6. gone' \subseteq Marks
  BY <1>1, Effects DEF Cancel
<1>7. mode' \in {"blocking", "overlap"}
  BY <1>1, Effects DEF Loop, Finish, Overlap
<1>8. inputOpen' \in BOOLEAN /\ outClosed' \in BOOLEAN /\ throttle' \in BOOLEAN
  BY <1>1, <1>2, <1>3, <1>4, Zenon
<1> QED BY <1>5, <1>6, <1>7, <1>8

LEMMA FormingTyped ==
  ASSUME IInv, Next
  PROVE  forming' \in Seq(Jobs) /\ pending' \in Jobs \union {None}
<1>1. jobs \in Seq(Jobs) /\ forming \in Seq(Jobs) /\ pending \in Jobs \union {None} /\ room \in 1 .. TgBudget
  BY DEF IInv, TypeInv
<1>2. \A j \in Jobs : <<j>> \in Seq(Jobs)
  OBVIOUS
<1>3. <<>> \in Seq(Jobs)
  OBVIOUS
<1>4. CASE SeedPending
  <2>1. pending \in Jobs /\ pending' = None /\ Seed(pending)
    BY <1>1, <1>4 DEF SeedPending
  <2> QED BY <1>1, <1>2, <2>1, SeedIs
<1>5. ASSUME SeedJob \/ Fill PROVE Head(jobs) \in Jobs
  BY <1>1, <1>5, TailSet DEF SeedJob, Fill
<1>6. CASE SeedJob
  <2>1. Head(jobs) \in Jobs /\ pending' = pending /\ Seed(Head(jobs))
    BY <1>5, <1>6 DEF SeedJob
  <2> QED BY <1>1, <1>2, <2>1, SeedIs
<1>7. CASE Fill
  <2>1. forming' \in {forming, Append(forming, Head(jobs))} /\ pending' \in {pending, Head(jobs)}
    BY <1>7 DEF Fill, PutAside
  <2>2. Append(forming, Head(jobs)) \in Seq(Jobs)
    BY <1>1, <1>5, <1>7, AppendSet
  <2> QED BY <1>1, <1>5, <1>7, <2>1, <2>2
<1>8. CASE Sift
  BY <1>1, <1>8, KeptIs DEF Sift, formVars
<1>9. CASE FormGivesUp \/ EncodeFails \/ Encode
  <2>1. forming' = <<>> /\ pending' = pending
    BY <1>9 DEF FormGivesUp, EncodeFails, Encode
  <2> QED BY <1>1, <1>3, <2>1
<1> QED BY <1>1, <1>4, <1>6, <1>7, <1>8, <1>9, Effects

(* At most one batch is in hand while another is formed.                   *)
LEMMA FormingAlone ==
  ASSUME IInv, Where \in Gathering
  PROVE  /\ queue = <<>> /\ ToSet(queue) = {}
         /\ InHand = {} \/ \E b : InHand = {b} /\ b.buf \in Buffers /\ b.buf \notin free
<1>1. queue = <<>> /\ ToSet(queue) = {}
  BY NoneSet DEF IInv, ShapeInv
<1>2. pc # "done"
  BY DEF Where
<1>3. current # None => current \in Batches /\ current.buf \in Buffers /\ current.buf \notin free
  BY <1>2, BatchTyped DEF IInv, TypeInv, BatchesInv
<1>4. InHand = IF current = None THEN {} ELSE {current}
  BY <1>1 DEF InHand
<1> QED BY <1>1, <1>3, <1>4

(* The batch that is encoded, and as it is queued.                         *)
New(b, c) ==
  /\ b \in Batches /\ b.jobs = forming /\ b.inputs = forming
  /\ b.key = KeyOf[forming[1]] /\ b.cmds = <<>> /\ b.buf = Rented(Len(forming))
  /\ (c = b /\ ran' = ran) \/ (CanCommit(b) /\ c = Committed(b) /\ ran' = ran \union ToSet(forming))
  /\ queue' = Append(queue, c)

LEMMA EncodedIs ==
  ASSUME IInv, Encode
  PROVE  /\ \E b, c : New(b, c)
         /\ Rented(Len(forming)) \in Buffers
         /\ \A d \in InHand : Rented(Len(forming)) # d.buf
         /\ Storage(Len(forming)) \in Seq(Regions) /\ Len(forming) <= Len(Storage(Len(forming)))
         /\ free' = free \ {Rented(Len(forming))}
         /\ memory' = [memory EXCEPT ![Rented(Len(forming))] = Storage(Len(forming))]
<1> DEFINE len == Len(forming)
           j == forming[1]
           b == [jobs |-> forming, inputs |-> forming, buf |-> Rented(len),
                 key |-> KeyOf[j], cmds |-> <<>>, limit |-> Limit[j][len]]
           c == IF CanCommit(b) THEN Committed(b) ELSE b
<1>1. forming \in Seq(Jobs) /\ forming # <<>> /\ len <= TgBudget /\ Where \in Gathering
  BY DEF IInv, TypeInv, ShapeInv, Encode, Where
<1>2. len \in 1 .. TgBudget /\ j \in Jobs
  <2>1. len \in Nat /\ len # 0 /\ j \in Jobs
    BY <1>1
  <2> QED BY <1>1, <2>1, Sizes
<1>3. /\ Rented(len) \in Buffers
      /\ \A d \in InHand : Rented(len) # d.buf
      /\ Storage(len) \in Seq(Regions) /\ len <= Len(Storage(len))
  <2>1. len \in Nat
    BY <1>2, Sizes
  <2>2. free \subseteq Buffers /\ Cardinality(free) <= PoolCap /\ memory \in [Buffers -> Seq(Regions)]
    BY DEF IInv, TypeInv
  <2>3. InHand = {} \/ \E d : InHand = {d} /\ d.buf \in Buffers /\ d.buf \notin free
    BY <1>1, FormingAlone
  <2> QED BY <2>1, <2>2, <2>3, RentedIs
<1>4. Limit[j][len] \in 1 .. Betas
  <2>1. Limit[j][len] = RungLimit(len, ReadsOf[j], NodesOf[KeyOf[j]], 2, Betas)
    BY <1>2 DEF Limit
  <2>2. ReadsOf[j] \in Nat /\ NodesOf[KeyOf[j]] \in Nat
    BY <1>2, BatchAssumption DEF Keys
  <2> QED BY <1>2, <2>1, <2>2, LimitTyped
<1>5. KeyOf[j] \in Keys
  BY <1>2 DEF Keys
<1>6. Uploaded(forming) = forming
  BY <1>1 DEF Uploaded
<1>7. /\ queue' = Append(queue, c)
      /\ ran' = IF CanCommit(b) THEN ran \union ToSet(forming) ELSE ran
      /\ free' = free \ {Rented(len)}
      /\ memory' = [memory EXCEPT ![b.buf] = Storage(len)]
  BY <1>6 DEF Encode, Topology, Taken
<1>8. b \in Batches
  <2>1. <<>> \in Seq({"running", "completed", "error"})
    OBVIOUS
  <2> HIDE DEF len, j
  <2> QED BY <1>1, <1>3, <1>4, <1>5, <2>1 DEF Batches
<1>9. New(b, c)
  BY <1>7, <1>8 DEF New
<1> QED BY <1>3, <1>7, <1>9

(* A chunk of a batch ends: of the one in hand, or of one in the queue.    *)
Ending(b, status) ==
  /\ b \in Batches /\ Running(b) /\ b.cmds # <<>> /\ status \in {"completed", "error"}
  /\ memory' = Written(b, status)
  /\ \/ current = b /\ current' = Retired(b, status) /\ queue' = queue
     \/ \E i \in DOMAIN queue :
          queue[i] = b /\ queue' = [queue EXCEPT ![i] = Retired(b, status)] /\ current' = current

LEMMA GpuIs ==
  ASSUME IInv, Gpu
  PROVE  \E b, status : Ending(b, status)
<1>1. PICK status \in {"completed", "error"} : Retires(status)
  BY DEF Gpu
<1>2. CASE current # None /\ Running(current) /\ current' = Retired(current, status)
            /\ UNCHANGED queue /\ memory' = Written(current, status)
  <2>1. current \in Batches
    BY <1>2 DEF IInv, TypeInv
  <2> QED BY <1>2, <2>1 DEF Ending, Running
<1>3. ASSUME NEW i \in 1 .. Len(queue), Running(queue[i]), UNCHANGED current,
             queue' = [queue EXCEPT ![i] = Retired(queue[i], status)],
             memory' = Written(queue[i], status)
      PROVE  Ending(queue[i], status)
  <2>1. queue[i] \in Batches /\ i \in DOMAIN queue
    BY QueueAt DEF IInv
  <2> QED BY <1>3, <2>1 DEF Ending, Running
<1> QED BY <1>1, <1>2, <1>3 DEF Retires

LEMMA LoopIs ==
  ASSUME IInv, Loop
  PROVE  /\ current = None /\ current' = queue[1] /\ queue[1] \in Batches
         /\ queue # <<>> /\ queue' = Tail(queue) /\ Len(queue') = Len(queue) - 1 /\ Len(queue) \in 1 .. 2
         /\ \A i \in 1 .. Len(queue) - 1 : queue'[i] = queue[i + 1]
         /\ queue' \in Seq(Batches)
<1>1. current = None /\ Len(queue) \in 1 .. 2 /\ queue \in Seq(Batches)
  BY DEF IInv, ShapeInv, Where, Loop, TypeInv
<1>2. current' = Head(queue) /\ queue' = Tail(queue)
  BY DEF Loop
<1>3. queue # <<>>
  BY <1>1
<1> QED BY <1>1, <1>2, <1>3

(* A batch that gives its place to the next chunk or to its answers.       *)
LEMMA WaitIs ==
  ASSUME IInv, NextChunk \/ Finish
  PROVE  current \in Batches /\ current # None /\ Len(queue) <= 1 /\ current' = None /\ pc # "done" /\ pc' # "done"
BY NotNone DEF IInv, ShapeInv, TypeInv, Where, NextChunk, Finish, Emit

LEMMA BatchesTyped ==
  ASSUME IInv, Next
  PROVE  current' \in Batches \union {None} /\ queue' \in Seq(Batches)
<1>1. current \in Batches \union {None} /\ queue \in Seq(Batches)
  BY DEF IInv, TypeInv
<1>2. CASE Loop
  BY <1>2, LoopIs
<1>3. CASE Encode
  <2>1. PICK b, c : New(b, c)
    BY <1>3, EncodedIs
  <2>2. c \in Batches
    BY <2>1, CommittedIs DEF New
  <2>3. queue' \in Seq(Batches)
    BY <1>1, <2>1, <2>2 DEF New
  <2> QED BY <1>1, <1>3, <2>3 DEF Encode
<1>4. CASE NextChunk
  <2>1. queue' = Append(queue, Committed(current)) /\ Committed(current) \in Batches /\ current' = None
    BY <1>4, WaitIs, CommittedIs DEF NextChunk
  <2> QED BY <1>1, <2>1
<1>5. CASE Gpu
  <2>1. PICK b, status : Ending(b, status)
    BY <1>5, GpuIs
  <2>2. Retired(b, status) \in Batches
    BY <2>1, RetiredIs DEF Ending, Statuses
  <2> QED BY <1>1, <2>1, <2>2 DEF Ending
<1>6. CASE GiveUp \/ Finish
  <2>1. current' = None /\ queue' = queue
    BY <1>6 DEF GiveUp, Finish
  <2> QED BY <1>1, <2>1
<1> QED BY <1>1, <1>2, <1>3, <1>4, <1>5, <1>6, Effects

LEMMA PoolTyped ==
  ASSUME IInv, Next
  PROVE  /\ free' \subseteq Buffers /\ Cardinality(free') <= PoolCap
         /\ memory' \in [Buffers -> Seq(Regions)]
<1>1. free \subseteq Buffers /\ Cardinality(free) <= PoolCap /\ memory \in [Buffers -> Seq(Regions)]
  BY DEF IInv, TypeInv
<1>2. InHand \subseteq Batches
  BY QueueAt DEF IInv, TypeInv, InHand
<1>3. CASE Encode
  <2>1. free' = free \ {Rented(Len(forming))}
    BY <1>3, EncodedIs
  <2>2. IsFiniteSet(free) /\ Cardinality(free) \in Nat
    BY <1>1, BuffersFinite
  <2>3. Cardinality(free') <= Cardinality(free) /\ Cardinality(free') \in Nat
    <3>1. \A x : Cardinality(free \ {x}) =
                  IF x \in free THEN Cardinality(free) - 1 ELSE Cardinality(free)
      BY <2>2, FS_RemoveElement
    <3>2. IsFiniteSet(free') /\ Cardinality(free') \in Nat
      BY <2>1, <2>2, FS_RemoveElement, FS_CardinalityType
    <3> QED BY <2>1, <2>2, <3>1, <3>2
  <2>4. memory' \in [Buffers -> Seq(Regions)]
    BY <1>1, <1>3, EncodedIs
  <2> QED BY <1>1, <2>1, <2>2, <2>3, <2>4, Sizes
<1>4. CASE Gpu
  <2>1. PICK b, status : Ending(b, status)
    BY <1>4, GpuIs
  <2>2. MadeOf(b) /\ InPlan(b)
    BY <2>1, NotNone DEF Ending, IInv, BatchesInv, BatchOk
  <2>3. memory' \in [Buffers -> Seq(Regions)]
    BY <1>1, <2>1, <2>2, WrittenTyped DEF Ending, Statuses
  <2>4. free' = free
    BY <1>4 DEF Gpu, Retires
  <2> QED BY <1>1, <2>3, <2>4
<1>5. ASSUME NEW bs \in SUBSET Batches, free' = GivenBack(bs)
      PROVE  free' \subseteq Buffers /\ Cardinality(free') <= PoolCap
  <2> DEFINE bufs == {b.buf : b \in {c \in bs : ~Running(c)}}
  <2>1. bufs \in SUBSET Buffers /\ free' = Give(bufs)
    BY <1>5, BatchTyped DEF GivenBack
  <2> HIDE DEF bufs
  <2> QED BY <1>1, <2>1, GiveIs
<1>6. CASE GiveUp
  BY <1>1, <1>2, <1>5, <1>6 DEF GiveUp
<1>7. CASE Finish
  <2>1. free' = GivenBack({current}) /\ memory' = memory /\ {current} \subseteq Batches
    BY <1>7, WaitIs DEF Finish
  <2> QED BY <1>1, <1>5, <2>1
<1> QED BY <1>1, <1>3, <1>4, <1>6, <1>7, Effects

LEMMA TimeTyped ==
  ASSUME IInv, Next
  PROVE  reported' \subseteq ran' /\ ran' \subseteq Jobs /\ DOMAIN read' = Jobs
<1>1. reported \subseteq ran /\ ran \subseteq Jobs /\ DOMAIN read = Jobs
  BY DEF IInv, TypeInv
<1>2. CASE Encode
  <2>1. PICK b, c : New(b, c)
    BY <1>2, EncodedIs
  <2>2. ToSet(forming) \subseteq Jobs
    BY ToSetOf DEF IInv, TypeInv
  <2> QED BY <1>1, <1>2, <2>1, <2>2 DEF New, Encode
<1>3. CASE NextChunk
  <2>1. ToSet(current.jobs) \subseteq Jobs
    BY <1>3, WaitIs, BatchTyped, ToSetOf
  <2> QED BY <1>1, <1>3, <2>1 DEF NextChunk
<1>4. CASE GiveUp
  BY <1>1, <1>4 DEF GiveUp
<1>5. CASE Finish
  BY <1>1, <1>5 DEF Finish
<1> QED BY <1>1, <1>2, <1>3, <1>4, <1>5, Effects

(* Where the loop goes, and what is with it there.                         *)
Control ==
  /\ pc \in Gathering \union {"send", "loop", "wait", "done"}
  /\ after \in Gathering \union {"loop", "wait"}
  /\ unsent \in Nat /\ outLen \in 0 .. OutCap /\ room \in 1 .. TgBudget

ControlInv == Control /\ ShapeInv

LEMMA EmitIs ==
  ASSUME NEW js \in Seq(Jobs), js # <<>>, NEW o, NEW next, Emit(js, o, next)
  PROVE  /\ pc' = "send" /\ after' = next /\ unsent' \in Nat /\ unsent' > 0 /\ outLen' = outLen
         /\ Where' = next
<1>1. Len(js) \in Nat /\ Len(js) > 0
  OBVIOUS
<1> QED BY <1>1 DEF Emit, Where

LEMMA SeedControl ==
  ASSUME IInv, SeedPending \/ SeedJob
  PROVE  ControlInv'
<1>1. /\ pc = "seed" /\ forming = <<>> /\ queue = <<>> /\ (mode = "blocking" <=> current = None)
      /\ after \in Gathering \union {"loop", "wait"} /\ unsent \in Nat /\ outLen \in 0 .. OutCap
      /\ room \in 1 .. TgBudget
  BY DEF IInv, TypeInv, ShapeInv, Where, SeedPending, SeedJob
<1>2. UNCHANGED <<queue, mode, current>>
  BY DEF SeedPending, SeedJob, batchVars
<1>3. PICK j \in Jobs : Seed(j) /\ pending' = None
  <2>1. CASE SeedPending
    BY <2>1 DEF SeedPending, IInv, TypeInv
  <2>2. CASE SeedJob
    <3>1. jobs \in Seq(Jobs) /\ jobs # <<>> /\ pending' = None /\ Seed(Head(jobs))
      BY <2>2 DEF SeedJob, IInv, TypeInv
    <3> QED BY <3>1, TailSet
  <2> QED BY <2>1, <2>2
<1>4. CASE Emit(<<j>>, Turned(j), "seed") /\ UNCHANGED <<forming, room>>
  <2>1. <<j>> \in Seq(Jobs) /\ <<j>> # <<>>
    OBVIOUS
  <2>2. /\ pc' = "send" /\ after' = "seed" /\ unsent' \in Nat /\ unsent' > 0 /\ outLen' = outLen
        /\ Where' = "seed"
    BY <1>4, <2>1, EmitIs
  <2>3. Len(forming') = 0
    BY <1>1, <1>4
  <2> QED BY <1>1, <1>2, <1>4, <2>2, <2>3, Sizes DEF ControlInv, Control, ShapeInv
<1>5. CASE forming' = <<j>> /\ pc' = "fill" /\ room' \in 1 .. TgBudget /\ Quiet
  <2>1. Len(forming') = 1 /\ forming' # <<>>
    BY <1>5, OneSet
  <2>2. Where' = "fill"
    BY <1>5 DEF Where
  <2> QED BY <1>1, <1>2, <1>3, <1>5, <2>1, <2>2, Sizes DEF ControlInv, Control, ShapeInv, Quiet, sendVars
<1> QED BY <1>1, <1>3, <1>4, <1>5, SeedIs

LEMMA FillControl ==
  ASSUME IInv, Fill
  PROVE  ControlInv'
<1>1. /\ pc = "fill" /\ forming # <<>> /\ queue = <<>> /\ (mode = "blocking" <=> current = None)
      /\ after \in Gathering \union {"loop", "wait"} /\ unsent \in Nat /\ outLen \in 0 .. OutCap
      /\ room \in 1 .. TgBudget /\ Len(forming) < room /\ pending = None /\ forming \in Seq(Jobs)
  BY DEF IInv, TypeInv, ShapeInv, Where, Fill
<1>2. UNCHANGED <<queue, mode, current>>
  BY DEF Fill, batchVars
<1> DEFINE j == Head(jobs)
<1>3. j \in Jobs
  BY TailSet DEF Fill, IInv, TypeInv
<1>4. CASE Emit(<<j>>, Turned(j), "fill") /\ UNCHANGED <<forming, pending>>
  <2>1. <<j>> \in Seq(Jobs) /\ <<j>> # <<>>
    BY <1>3
  <2>2. /\ pc' = "send" /\ after' = "fill" /\ unsent' \in Nat /\ unsent' > 0 /\ outLen' = outLen
        /\ Where' = "fill"
    BY <1>4, <2>1, EmitIs
  <2>3. room' = room
    BY <2>2 DEF Fill
  <2>4. Len(forming) <= TgBudget /\ Len(forming) <= room
    BY <1>1, Sizes
  <2> QED BY <1>1, <1>2, <1>4, <2>2, <2>3, <2>4 DEF ControlInv, Control, ShapeInv
<1>5. CASE forming' = Append(forming, j) /\ UNCHANGED <<pc, pending>> /\ Quiet
  <2>1. Len(forming') = Len(forming) + 1 /\ forming' # <<>>
    BY <1>1, <1>3, <1>5
  <2>2. Where' = "fill" /\ pc' = "fill" /\ room' = room
    BY <1>1, <1>5 DEF Where, Fill
  <2>3. Len(forming') <= TgBudget /\ Len(forming') <= room
    BY <1>1, <2>1, Sizes
  <2> QED BY <1>1, <1>2, <1>5, <2>1, <2>2, <2>3 DEF ControlInv, Control, ShapeInv, Quiet, sendVars
<1>6. CASE PutAside(j) /\ pc' = "sift" /\ UNCHANGED forming /\ Quiet
  <2>1. Where' = "sift" /\ room' = 1 /\ Len(forming') <= TgBudget
    BY <1>1, <1>6, Sizes DEF Where, Fill
  <2> QED BY <1>1, <1>2, <1>6, <2>1, Sizes DEF ControlInv, Control, ShapeInv, Quiet, sendVars
<1> QED BY <1>4, <1>5, <1>6 DEF Fill

LEMMA SiftControl ==
  ASSUME IInv, Sift
  PROVE  ControlInv'
<1>1. /\ pc = "sift" /\ forming # <<>> /\ queue = <<>> /\ (mode = "blocking" <=> current = None)
      /\ after \in Gathering \union {"loop", "wait"} /\ unsent \in Nat /\ outLen \in 0 .. OutCap
      /\ room \in 1 .. TgBudget /\ Len(forming) <= TgBudget /\ forming \in Seq(Jobs)
      /\ mode \in {"blocking", "overlap"}
  BY DEF IInv, TypeInv, ShapeInv, Where, Sift
<1>2. UNCHANGED <<queue, mode, current, room>>
  BY DEF Sift, batchVars
<1> DEFINE fine == {j \in Jobs : ~Cancelled(j)}
           gonner == {j \in Jobs : Cancelled(j)}
           live == Kept(forming, fine)
           stale == Kept(forming, gonner)
           next == IF live = <<>> THEN Retry ELSE "encode"
<1>3. /\ live \in Seq(Jobs) /\ Len(live) <= Len(forming) /\ ToSet(live) = ToSet(forming) \intersect fine
      /\ stale \in Seq(Jobs) /\ ToSet(stale) = ToSet(forming) \intersect gonner
  BY <1>1, KeptIs
<1>4. /\ forming' = live
      /\ IF stale = <<>> THEN pc' = "encode" /\ Quiet ELSE Emit(stale, "cancelled", next)
  BY DEF Sift
<1>5. stale = <<>> => live # <<>>
  <2>1. ToSet(forming) # {} /\ ToSet(forming) \subseteq Jobs
    BY <1>1, ToSetOf
  <2>2. fine \union gonner = Jobs
    OBVIOUS
  <2> HIDE DEF fine, gonner, live, stale
  <2>3. (stale = <<>> => ToSet(stale) = {}) /\ (live = <<>> => ToSet(live) = {})
    BY NoneSet
  <2> QED BY <1>3, <2>1, <2>2, <2>3
<1> HIDE DEF live, stale
<1>6. Len(forming') <= TgBudget
  <2>1. Len(live) \in Nat /\ Len(forming) \in Nat
    BY <1>1, <1>3
  <2> QED BY <1>1, <1>3, <1>4, <2>1, Sizes
<1>7. CASE stale = <<>>
  <2>1. Where' = "encode" /\ pc' = "encode" /\ Quiet /\ forming' # <<>>
    BY <1>4, <1>5, <1>7 DEF Where
  <2> QED BY <1>1, <1>2, <1>6, <2>1 DEF ControlInv, Control, ShapeInv, Quiet, sendVars
<1>8. CASE stale # <<>>
  <2>1. Emit(stale, "cancelled", next)
    BY <1>4, <1>8
  <2> HIDE DEF next
  <2>2. /\ pc' = "send" /\ after' = next /\ unsent' \in Nat /\ unsent' > 0 /\ outLen' = outLen
        /\ Where' = next
    BY <1>3, <1>8, <2>1, EmitIs
  <2>3. CASE live # <<>>
    <3>1. next = "encode" /\ forming' # <<>>
      BY <1>4, <2>3 DEF next
    <3> QED BY <1>1, <1>2, <1>6, <2>2, <3>1 DEF ControlInv, Control, ShapeInv
  <2>4. CASE live = <<>>
    <3>1. next = IF mode = "overlap" THEN "wait" ELSE "form"
      BY <2>4 DEF next, Retry
    <3>2. forming' = <<>> /\ Len(queue') = 0
      BY <1>1, <1>2, <1>4, <2>4
    <3> QED BY <1>1, <1>2, <1>6, <2>2, <3>1, <3>2 DEF ControlInv, Control, ShapeInv
  <2> QED BY <2>3, <2>4
<1> QED BY <1>7, <1>8

LEMMA FormControl ==
  ASSUME IInv, FormGivesUp \/ Form \/ Resume \/ Gated \/ NoSeed \/ Filled
  PROVE  ControlInv'
<1>1. /\ pc \in Gathering /\ queue = <<>> /\ (mode = "blocking" <=> current = None)
      /\ after \in Gathering \union {"loop", "wait"} /\ unsent \in Nat /\ outLen \in 0 .. OutCap
      /\ room \in 1 .. TgBudget /\ Len(forming) <= TgBudget /\ mode \in {"blocking", "overlap"}
      /\ pc \in {"fill", "sift", "encode"} <=> forming # <<>>
  BY DEF IInv, TypeInv, ShapeInv, Where, FormGivesUp, Form, Resume, Gated, NoSeed, Filled
<1>2. UNCHANGED <<queue, mode, current, pending, after, unsent, outLen, jobs, outClosed, inputOpen>> /\ pc' # "send"
  BY DEF FormGivesUp, Form, Resume, Gated, NoSeed, Filled, batchVars, formVars, Quiet, sendVars, sessionVars,
         NoBatch
<1>3. Len(queue) = 0 /\ DOMAIN queue = {}
  BY <1>1
<1>4. Where' = pc'
  BY <1>2 DEF Where
<1>5. CASE Form \/ Resume \/ Gated
  <2>1. pc' \in {"paused", "gated", "seed"} /\ forming' = forming /\ room' = room /\ forming = <<>>
    BY <1>1, <1>5 DEF Form, Resume, Gated, formVars
  <2> QED BY <1>1, <1>2, <1>4, <2>1 DEF ControlInv, Control, ShapeInv
<1>6. CASE Filled
  <2>1. pc' = "sift" /\ forming' = forming /\ room' = 1 /\ forming # <<>>
    BY <1>1, <1>6 DEF Filled
  <2> QED BY <1>1, <1>2, <1>4, <2>1, Sizes DEF ControlInv, Control, ShapeInv
<1>7. CASE FormGivesUp \/ NoSeed
  <2>1. pc' = IF mode = "overlap" THEN "wait" ELSE "done"
    BY <1>7 DEF FormGivesUp, NoSeed, NoBatch
  <2>2. forming' = <<>> /\ room' = room /\ Len(forming') = 0
    <3>1. forming' = <<>> /\ room' = room
      BY <1>1, <1>7 DEF FormGivesUp, NoSeed, formVars
    <3> QED BY <3>1
  <2>3. mode = "blocking" => outClosed \/ (~inputOpen /\ jobs = <<>> /\ pending = None)
    BY <1>7 DEF FormGivesUp, NoSeed
  <2> QED BY <1>1, <1>2, <1>3, <1>4, <2>1, <2>2, <2>3, Sizes DEF ControlInv, Control, ShapeInv
<1> QED BY <1>5, <1>6, <1>7

LEMMA EncodeControl ==
  ASSUME IInv, Encode \/ EncodeFails
  PROVE  ControlInv'
<1>1. /\ pc = "encode" /\ queue = <<>> /\ (mode = "blocking" <=> current = None) /\ forming # <<>>
      /\ after \in Gathering \union {"loop", "wait"} /\ unsent \in Nat /\ outLen \in 0 .. OutCap
      /\ room \in 1 .. TgBudget /\ mode \in {"blocking", "overlap"} /\ forming \in Seq(Jobs)
  BY DEF IInv, TypeInv, ShapeInv, Where, Encode, EncodeFails
<1>2. UNCHANGED <<mode, current, pending, room>> /\ forming' = <<>> /\ Len(forming') = 0
  <2>1. UNCHANGED <<mode, current, pending, room>> /\ forming' = <<>>
    BY DEF Encode, EncodeFails, batchVars
  <2> QED BY <2>1
<1>3. CASE EncodeFails
  <2> DEFINE next == IF mode = "overlap" THEN "wait" ELSE "form"
  <2>1. Emit(forming, "failed", next) /\ queue' = queue
    BY <1>3 DEF EncodeFails, batchVars, Retry
  <2> HIDE DEF next
  <2>2. /\ pc' = "send" /\ after' = next /\ unsent' \in Nat /\ unsent' > 0 /\ outLen' = outLen
        /\ Where' = next
    BY <1>1, <2>1, EmitIs
  <2>3. Len(queue') = 0
    BY <1>1, <2>1
  <2> QED BY <1>1, <1>2, <2>1, <2>2, <2>3, Sizes DEF ControlInv, Control, ShapeInv, next
<1>4. CASE Encode
  <2>1. pc' = (IF mode = "overlap" THEN "wait" ELSE "loop") /\ UNCHANGED <<after, unsent, outLen>>
    BY <1>4 DEF Encode, Quiet, sendVars
  <2>2. PICK b, c : New(b, c)
    BY <1>4, EncodedIs
  <2>3. queue' = Append(<<>>, c)
    BY <1>1, <2>2 DEF New
  <2>4. Len(queue') = 1
    BY <2>3, AppendOne, OneSet
  <2>5. Where' = pc'
    BY <2>1 DEF Where
  <2> QED BY <1>1, <1>2, <2>1, <2>4, <2>5, Sizes DEF ControlInv, Control, ShapeInv
<1> QED BY <1>3, <1>4

LEMMA WaitControl ==
  ASSUME IInv, Loop \/ GiveUp \/ NextChunk \/ Finish
  PROVE  ControlInv'
<1>1. /\ pc \in {"loop", "wait"} /\ forming = <<>> /\ Len(queue) \in Nat
      /\ after \in Gathering \union {"loop", "wait"} /\ unsent \in Nat /\ outLen \in 0 .. OutCap
      /\ room \in 1 .. TgBudget /\ mode \in {"blocking", "overlap"} /\ Len(forming) <= TgBudget
      /\ queue = <<>> <=> Len(queue) = 0
  BY DEF IInv, TypeInv, ShapeInv, Where, Loop, GiveUp, NextChunk, Finish
<1>2. UNCHANGED <<pending, room, forming>>
  BY DEF Loop, GiveUp, NextChunk, Finish, formVars
<1>3. CASE Loop
  <2>1. /\ current' # None /\ Len(queue') = Len(queue) - 1 /\ Len(queue) \in 1 .. 2
        /\ queue' \in Seq(Batches)
    BY <1>3, LoopIs, NotNone
  <2>2. /\ UNCHANGED <<after, unsent, outLen>>
        /\ \/ pc' = "form" /\ mode' = "overlap" /\ Len(queue) = 1
           \/ pc' = "wait" /\ mode' = mode
    BY <1>3 DEF Loop, MayOverlap, Overlap, Quiet, sendVars
  <2>3. Where' = pc' /\ (Len(queue') = 0 => queue' = <<>>)
    <3>1. Where' = pc'
      BY <2>2 DEF Where
    <3>2. Len(queue') = 0 => queue' = <<>>
      BY <2>1
    <3> QED BY <3>1, <3>2
  <2>4. CASE pc' = "form" /\ mode' = "overlap" /\ Len(queue) = 1
    <3>1. queue' = <<>>
      BY <2>1, <2>3, <2>4
    <3> QED BY <1>1, <1>2, <2>1, <2>2, <2>3, <2>4, <3>1 DEF ControlInv, Control, ShapeInv
  <2>5. CASE pc' = "wait" /\ mode' = mode
    <3>1. Len(queue') <= 1
      BY <2>1
    <3> QED BY <1>1, <1>2, <2>1, <2>2, <2>3, <2>5, <3>1 DEF ControlInv, Control, ShapeInv
  <2> QED BY <2>2, <2>4, <2>5
<1>4. CASE GiveUp
  <2>1. /\ pc' = "done" /\ current' = None /\ outClosed' /\ UNCHANGED <<after, unsent, outLen, queue>>
        /\ Drain /\ pc = "wait"
    BY <1>4 DEF GiveUp, Quiet, sendVars, sessionVars
  <2>2. Len(queue) <= 1 /\ \A i \in DOMAIN queue : ~Running(queue[i])
    BY <2>1, QueueAt DEF Drain, IInv, ShapeInv, Where
  <2>3. Where' = "done"
    BY <2>1 DEF Where
  <2> QED BY <1>1, <1>2, <2>1, <2>2, <2>3 DEF ControlInv, Control, ShapeInv
<1>5. CASE NextChunk
  <2>1. /\ pc' = "loop" /\ current' = None /\ UNCHANGED <<after, unsent, outLen>>
        /\ queue' = Append(queue, Committed(current)) /\ Len(queue) <= 1
    BY <1>5, WaitIs DEF NextChunk, Quiet, sendVars
  <2>2. Len(queue') = Len(queue) + 1
    BY <2>1 DEF IInv, TypeInv
  <2>3. Where' = "loop"
    BY <2>1 DEF Where
  <2> QED BY <1>1, <1>2, <2>1, <2>2, <2>3 DEF ControlInv, Control, ShapeInv
<1>6. CASE Finish
  <2> DEFINE next == IF queue = <<>> THEN "form" ELSE "loop"
  <2>1. PICK o \in Verdicts(current) : Emit(current.jobs, o, next)
    BY <1>6 DEF Finish
  <2>2. current.jobs \in Seq(Jobs) /\ current.jobs # <<>>
    <3>1. current \in Batches /\ current # None
      BY <1>6, WaitIs
    <3> QED BY <3>1, BatchTyped DEF IInv, BatchesInv, BatchOk, MadeOf
  <2> HIDE DEF next
  <2>3. /\ pc' = "send" /\ after' = next /\ unsent' \in Nat /\ unsent' > 0 /\ outLen' = outLen
        /\ Where' = next
    BY <2>1, <2>2, EmitIs
  <2>4. /\ current' = None /\ queue' = queue /\ Len(queue) <= 1
        /\ mode' = IF queue = <<>> THEN "blocking" ELSE mode
    BY <1>6, WaitIs DEF Finish
  <2>5. CASE queue = <<>>
    <3>1. next = "form" /\ mode' = "blocking"
      BY <2>4, <2>5 DEF next
    <3> QED BY <1>1, <1>2, <2>3, <2>4, <2>5, <3>1 DEF ControlInv, Control, ShapeInv
  <2>6. CASE queue # <<>>
    <3>1. next = "loop" /\ mode' = mode /\ Len(queue) \in 1 .. 2
      <4>1. Len(queue) \in 1 .. 2
        <5>1. Len(queue) # 0
          BY <1>1, <2>6
        <5>2. Len(queue) \in Nat /\ Len(queue) <= 1
          BY <1>1, <2>4
        <5>3. \A n \in Nat : n <= 1 /\ n # 0 => n \in 1 .. 2
          OBVIOUS
        <5> QED BY <5>1, <5>2, <5>3, Zenon
      <4> QED BY <2>4, <2>6, <4>1 DEF next
    <3> QED BY <1>1, <1>2, <2>3, <2>4, <3>1 DEF ControlInv, Control, ShapeInv
  <2> QED BY <2>5, <2>6
<1> QED BY <1>3, <1>4, <1>5, <1>6

LEMMA SendControl ==
  ASSUME IInv, SendResult
  PROVE  ControlInv'
<1>1. /\ pc = "send" /\ unsent \in Nat /\ unsent > 0 /\ outLen \in 0 .. OutCap /\ OutCap \in Nat
      /\ after \in Gathering \union {"loop", "wait"} /\ room \in 1 .. TgBudget
  BY Sizes DEF IInv, TypeInv, ShapeInv, SendResult
<1>2. /\ UNCHANGED <<mode, current, pending, room, forming, queue, after>>
      /\ outLen' \in 0 .. OutCap /\ unsent' = unsent - 1
      /\ pc' = IF unsent = 1 THEN after ELSE "send"
  BY <1>1 DEF SendResult, formVars, batchVars
<1>3. Where = after /\ Where' = after
  BY <1>1, <1>2 DEF Where
<1>4. pc' = "send" => unsent' > 0
  BY <1>1, <1>2
<1>5. pc' # "done" /\ pc' \in Gathering \union {"send", "loop", "wait"} /\ unsent' \in Nat
  BY <1>1, <1>2
<1>6. ShapeInv
  BY DEF IInv
<1> QED BY <1>1, <1>2, <1>3, <1>4, <1>5, <1>6 DEF ControlInv, Control, ShapeInv

LEMMA GpuControl ==
  ASSUME IInv, Gpu
  PROVE  ControlInv'
<1>1. PICK b, status : Ending(b, status)
  BY GpuIs
<1>2. UNCHANGED <<pc, mode, pending, room, forming, after, unsent, outLen, jobs, outClosed, inputOpen>>
  BY DEF Gpu, Retires, sessionVars, formVars, sendVars
<1>3. Retired(b, status) # None
  BY <1>1, RetiredIs, NotNone DEF Ending, Statuses
<1>4. (current' = None) <=> (current = None)
  BY <1>1, <1>3, NotNone DEF Ending
<1>5. Len(queue') = Len(queue) /\ (queue' = <<>> <=> queue = <<>>) /\ DOMAIN queue' = DOMAIN queue
  <2>1. queue \in Seq(Batches)
    BY DEF IInv, TypeInv
  <2> QED BY <1>1, <2>1 DEF Ending
<1>6. pc # "done"
  <2>1. current = b => current # None
    BY <1>1, NotNone DEF Ending
  <2> QED BY <1>1, <2>1 DEF Ending, IInv, ShapeInv
<1>7. Where' = Where
  BY <1>2 DEF Where
<1>8. Control /\ ShapeInv
  BY DEF IInv, TypeInv, Control
<1> QED BY <1>2, <1>4, <1>5, <1>6, <1>7, <1>8 DEF ControlInv, Control, ShapeInv

LEMMA SessionControl ==
  ASSUME IInv, Session \/ Finished
  PROVE  ControlInv'
<1>1. /\ UNCHANGED <<pc, mode, pending, room, forming, after, unsent, current, queue>>
      /\ (outClosed => outClosed') /\ (inputOpen' => inputOpen)
      /\ jobs' = jobs \/ (pc # "done" /\ inputOpen)
  BY DEF Session, Finished, SendJob, CloseInput, Cancel, ReadResult, CloseOut, Govern, HostStays, vars,
         sessionVars, formVars, batchVars, sendVars
<1>2. outLen' \in 0 .. OutCap
  <2>1. outLen \in 0 .. OutCap /\ OutCap \in Nat
    BY Sizes DEF IInv, TypeInv
  <2>2. outLen' = outLen \/ (outLen > 0 /\ outLen' = outLen - 1)
    BY DEF Session, Finished, SendJob, CloseInput, Cancel, ReadResult, CloseOut, Govern, vars, sendVars
  <2> QED BY <2>1, <2>2
<1>3. Where' = Where
  BY <1>1 DEF Where
<1>4. Control /\ ShapeInv
  BY DEF IInv, TypeInv, Control
<1> QED BY <1>1, <1>2, <1>3, <1>4 DEF ControlInv, Control, ShapeInv

LEMMA ControlKept ==
  ASSUME IInv, Next
  PROVE  ControlInv'
BY SeedControl, FillControl, SiftControl, FormControl, EncodeControl, WaitControl, SendControl, GpuControl,
   SessionControl DEF Next, Host

LEMMA TypeKept ==
  ASSUME IInv, Next
  PROVE  TypeInv'
BY ControlKept, ChannelTyped, CountsTyped, FormingTyped, BatchesTyped, PoolTyped, TimeTyped, AnswersTyped
   DEF ControlInv, Control, TypeInv

(* Jobs change their places, and those in done get an answer.              *)
LEMMA Moved ==
  ASSUME NEW a, NEW b, NEW c, NEW d, NEW e, NEW given, NEW said, NEW lost,
         Ledger(a, b, c, d, e, given, said, lost), given \subseteq Jobs,
         NEW a2, NEW b2, NEW c2, NEW d2, NEW e2, NEW done, NEW said2, NEW lost2,
         lost => lost2,
         Split(a2, b2, c2, d2, e2),
         Apart(done, a2 \union b2 \union c2 \union d2 \union e2),
         a2 \union b2 \union c2 \union d2 \union e2 \union done
           \subseteq a \union b \union c \union d \union e,
         lost2 \/ a \union b \union c \union d \union e
                    \subseteq a2 \union b2 \union c2 \union d2 \union e2 \union done,
         \A j \in Jobs : /\ j \in done => said2[j] # <<>>
                         /\ j \notin done => said2[j] = said[j]
  PROVE  Ledger(a2, b2, c2, d2, e2, given, said2, lost2)
<1> DEFINE held == a \union b \union c \union d \union e
           held2 == a2 \union b2 \union c2 \union d2 \union e2
<1>1. /\ \A j \in held : j \in given /\ said[j] = <<>>
      /\ lost \/ \A j \in given : j \in held \/ said[j] # <<>>
      /\ \A j \in Jobs \ given : said[j] = <<>>
  BY DEF Ledger
<1>2. done \intersect held2 = {} /\ held2 \union done \subseteq held
  BY DEF Apart
<1>3. lost2 \/ held \subseteq held2 \union done
  OBVIOUS
<1> HIDE DEF held, held2
<1>4. \A j \in held2 : j \in given /\ said2[j] = <<>>
  BY <1>1, <1>2
<1>5. lost2 \/ \A j \in given : j \in held2 \/ said2[j] # <<>>
  BY <1>1, <1>2, <1>3
<1>6. \A j \in Jobs \ given : said2[j] = <<>>
  BY <1>1, <1>2
<1> QED BY <1>4, <1>5, <1>6 DEF Ledger, held2

LEMMA AppendSome ==
  ASSUME NEW S, NEW s \in Seq(S), NEW o \in S
  PROVE  Append(s, o) # <<>>
<1>1. Len(Append(s, o)) = Len(s) + 1 /\ Len(s) \in Nat
  OBVIOUS
<1>2. Len(<<>>) = 0
  OBVIOUS
<1> QED BY <1>1, <1>2

LEMMA FixIs ==
  ASSUME IInv, NEW js, NEW o \in Outcomes, Fix(js, o)
  PROVE  \A j \in Jobs : /\ j \in ToSet(js) => answers'[j] # <<>>
                         /\ j \notin ToSet(js) => answers'[j] = answers[j]
<1> TAKE j \in Jobs
<1>1. answers'[j] = IF j \in ToSet(js) THEN Append(answers[j], o) ELSE answers[j]
  BY DEF Fix
<1>2. answers[j] \in Seq(Outcomes)
  <2>1. \A u \in Outcomes : <<u>> \in Seq(Outcomes)
    OBVIOUS
  <2>2. <<>> \in Seq(Outcomes)
    OBVIOUS
  <2>3. answers[j] \in {<<>>} \union {<<u>> : u \in Outcomes}
    BY DEF IInv, TypeInv
  <2> QED BY <2>1, <2>2, <2>3
<1>3. Append(answers[j], o) # <<>>
  BY <1>2, AppendSome
<1> QED BY <1>1, <1>3

TheLedger == Ledger(ToSet(jobs), Aside, ToSet(forming), HandJobs, QueueJobs, sent, answers, outClosed)

LEMMA LedgerIs ==
  ASSUME IInv
  PROVE  /\ TheLedger /\ sent \subseteq Jobs
         /\ Split(ToSet(jobs), Aside, ToSet(forming), HandJobs, QueueJobs)
         /\ \A j \in ToSet(jobs) \union Aside \union ToSet(forming) \union HandJobs \union QueueJobs :
              j \in sent /\ j \in Jobs /\ answers[j] = <<>>
BY DEF IInv, TypeInv, CustodyInv, TheLedger, Ledger

LEMMA HandsStay ==
  ASSUME UNCHANGED <<current, queue>>
  PROVE  HandJobs' = HandJobs /\ QueueJobs' = QueueJobs
BY DEF HandJobs, QueueJobs

(* A job from the channel or from aside seeds a batch, or is answered.     *)
LEMMA SeedLedger ==
  ASSUME IInv, SeedPending \/ SeedJob
  PROVE  TheLedger'
<1> DEFINE A == ToSet(jobs)  C == ToSet(forming)
           A2 == ToSet(jobs')  C2 == ToSet(forming')
<1>1. /\ TheLedger /\ sent \subseteq Jobs /\ Split(A, Aside, C, HandJobs, QueueJobs)
      /\ \A k \in A \union Aside \union C \union HandJobs \union QueueJobs :
           k \in sent /\ k \in Jobs /\ answers[k] = <<>>
  BY LedgerIs
<1>2. forming = <<>> /\ C = {} /\ room \in 1 .. TgBudget
  BY NoneSet DEF IInv, ShapeInv, TypeInv, Where, SeedPending, SeedJob
<1>3. HandJobs' = HandJobs /\ QueueJobs' = QueueJobs /\ sent' = sent /\ outClosed' = outClosed
  BY HandsStay DEF SeedPending, SeedJob, batchVars, sessionVars
<1>4. PICK j \in Jobs : /\ Seed(j) /\ pending' = None
                        /\ \/ Aside = {j} /\ jobs' = jobs
                           \/ Aside = {} /\ A = A2 \union {j} /\ j \notin A2
  <2>1. CASE SeedPending
    BY <2>1 DEF SeedPending, IInv, TypeInv, Aside, sessionVars
  <2>2. CASE SeedJob
    <3>1. jobs \in Seq(Jobs) /\ jobs # <<>> /\ pending' = None /\ Seed(Head(jobs)) /\ Aside = {}
          /\ jobs' = Tail(jobs) /\ Injective(jobs)
      BY <2>2 DEF SeedJob, IInv, TypeInv, Aside, CustodyInv
    <3> QED BY <3>1, TailSet
  <2> QED BY <2>1, <2>2
<1>5. Aside' = {}
  BY <1>4 DEF Aside
<1>6. Split(A2, {}, {j}, HandJobs, QueueJobs) /\ Split(A2, {}, {}, HandJobs, QueueJobs)
      /\ A2 \union {j} = A \union Aside /\ j \notin A2 \union HandJobs \union QueueJobs
  BY <1>1, <1>4, NotNone DEF Split, Apart
<1> HIDE DEF A, A2, C, C2
<1>7. CASE Emit(<<j>>, Turned(j), "seed") /\ UNCHANGED <<forming, room>> /\ Turned(j) # None
  <2>1. ToSet(<<j>>) = {j} /\ Turned(j) \in Outcomes
    BY <1>7, OneSet DEF Turned, Outcomes
  <2>2. Fix(<<j>>, Turned(j)) /\ C2 = {}
    BY <1>2, <1>7 DEF Emit, C, C2
  <2>3. \A k \in Jobs : (k \in {j} => answers'[k] # <<>>) /\ (k \notin {j} => answers'[k] = answers[k])
    BY <2>1, <2>2, FixIs
  <2>4. Ledger(A2, {}, {}, HandJobs, QueueJobs, sent, answers', outClosed)
    <3>1. Apart({j}, A2 \union {} \union {} \union HandJobs \union QueueJobs)
      BY <1>6 DEF Apart
    <3>2. A2 \union {} \union {} \union HandJobs \union QueueJobs \union {j}
            = A \union Aside \union C \union HandJobs \union QueueJobs
      BY <1>2, <1>6
    <3> QED BY <1>1, <1>6, <2>3, <3>1, <3>2, Moved DEF TheLedger, A, C
  <2> QED BY <1>3, <1>5, <2>2, <2>4 DEF TheLedger, A2, C2
<1>8. CASE forming' = <<j>> /\ pc' = "fill" /\ room' \in 1 .. TgBudget /\ Quiet
  <2>1. C2 = {j} /\ answers' = answers
    BY <1>8, OneSet DEF C2, Quiet
  <2>2. Ledger(A2, {}, {j}, HandJobs, QueueJobs, sent, answers', outClosed)
    <3>1. Apart({}, A2 \union {} \union {j} \union HandJobs \union QueueJobs)
      BY DEF Apart
    <3>2. A2 \union {} \union {j} \union HandJobs \union QueueJobs \union {}
            = A \union Aside \union C \union HandJobs \union QueueJobs
      BY <1>2, <1>6
    <3>3. \A k \in Jobs : (k \in {} => answers'[k] # <<>>) /\ (k \notin {} => answers'[k] = answers[k])
      BY <2>1
    <3> QED BY <1>1, <1>6, <3>1, <3>2, <3>3, Moved DEF TheLedger, A, C
  <2> QED BY <1>3, <1>5, <2>1, <2>2 DEF TheLedger, A2, C2
<1> QED BY <1>2, <1>4, <1>7, <1>8, SeedIs

Held == ToSet(jobs) \union Aside \union ToSet(forming) \union HandJobs \union QueueJobs

(* A step that moves the jobs of the stream, those in done to the session. *)
LEMMA StepMoves ==
  ASSUME IInv, NEW done, sent' = sent, outClosed => outClosed',
         Split(ToSet(jobs'), Aside', ToSet(forming'), HandJobs', QueueJobs'),
         Apart(done, Held'), Held' \union done \subseteq Held,
         outClosed' \/ Held \subseteq Held' \union done,
         \A j \in Jobs : /\ j \in done => answers'[j] # <<>>
                         /\ j \notin done => answers'[j] = answers[j]
  PROVE  TheLedger'
<1>1. TheLedger /\ sent \subseteq Jobs
  BY LedgerIs
<1> DEFINE A == ToSet(jobs)  B == Aside  C == ToSet(forming)  D == HandJobs  E == QueueJobs
           A2 == ToSet(jobs')  B2 == Aside'  C2 == ToSet(forming')  D2 == HandJobs'  E2 == QueueJobs'
<1>2. /\ Ledger(A, B, C, D, E, sent, answers, outClosed)
      /\ Split(A2, B2, C2, D2, E2)
      /\ Apart(done, A2 \union B2 \union C2 \union D2 \union E2)
      /\ A2 \union B2 \union C2 \union D2 \union E2 \union done
           \subseteq A \union B \union C \union D \union E
      /\ outClosed' \/ A \union B \union C \union D \union E
                         \subseteq A2 \union B2 \union C2 \union D2 \union E2 \union done
  BY <1>1 DEF TheLedger, Held
<1>3. TheLedger' <=> Ledger(A2, B2, C2, D2, E2, sent', answers', outClosed')
  BY DEF TheLedger
<1> HIDE DEF A, B, C, D, E, A2, B2, C2, D2, E2
<1>4. Ledger(A2, B2, C2, D2, E2, sent, answers', outClosed')
  BY <1>1, <1>2, Moved
<1> QED BY <1>3, <1>4

LEMMA QueueJobsIs ==
  ASSUME NEW q \in Seq(Batches)
  PROVE  UNION {JobsIn(b) : b \in ToSet(q)} = UNION {JobsIn(q[i]) : i \in 1 .. Len(q)}
BY ToSetOf

LEMMA FillLedger ==
  ASSUME IInv, Fill
  PROVE  TheLedger'
<1> DEFINE A == ToSet(jobs)  C == ToSet(forming)
           A2 == ToSet(jobs')  C2 == ToSet(forming')
           j == Head(jobs)
<1>1. /\ Split(A, Aside, C, HandJobs, QueueJobs) /\ A \subseteq Jobs
      /\ Held = A \union Aside \union C \union HandJobs \union QueueJobs
  BY LedgerIs DEF Held
<1>2. Aside = {} /\ pending = None /\ forming \in Seq(Jobs)
  BY DEF IInv, ShapeInv, TypeInv, Where, Fill, Aside
<1>3. HandJobs' = HandJobs /\ QueueJobs' = QueueJobs /\ sent' = sent /\ outClosed' = outClosed
  BY HandsStay DEF Fill, batchVars
<1>4. j \in Jobs /\ A = A2 \union {j} /\ j \notin A2
  <2>1. jobs \in Seq(Jobs) /\ jobs # <<>> /\ jobs' = Tail(jobs) /\ Injective(jobs)
    BY DEF Fill, IInv, TypeInv, CustodyInv
  <2> QED BY <2>1, TailSet
<1>5. Held' = A2 \union Aside' \union C2 \union HandJobs \union QueueJobs
  BY <1>3 DEF Held
<1>6. \/ /\ Emit(<<j>>, Turned(j), "fill") /\ UNCHANGED <<forming, pending>> /\ Turned(j) # None
      \/ /\ forming' = Append(forming, j) /\ UNCHANGED <<pc, pending>> /\ Quiet
      \/ /\ pending' = j /\ UNCHANGED forming /\ Quiet
  BY DEF Fill, PutAside
<1>7. C2 \in {C, C \union {j}} /\ (forming' = Append(forming, j) => C2 = C \union {j})
      /\ (forming' = forming => C2 = C)
  <2>1. ToSet(Append(forming, j)) = C \union {j}
    BY <1>2, <1>4, AppendSet
  <2> HIDE DEF j
  <2> QED BY <1>6, <2>1
<1> HIDE DEF A, A2, C, C2, j
<1>8. CASE Emit(<<j>>, Turned(j), "fill") /\ UNCHANGED <<forming, pending>> /\ Turned(j) # None
  <2>1. ToSet(<<j>>) = {j} /\ Turned(j) \in Outcomes /\ Fix(<<j>>, Turned(j))
    BY <1>8, OneSet DEF Turned, Outcomes, Emit
  <2>2. \A k \in Jobs : (k \in {j} => answers'[k] # <<>>) /\ (k \notin {j} => answers'[k] = answers[k])
    BY <2>1, FixIs
  <2>3. Aside' = {} /\ C2 = C
    BY <1>2, <1>7, <1>8 DEF Aside
  <2>4. Split(A2, {}, C, HandJobs, QueueJobs) /\ Apart({j}, Held') /\ Held' \union {j} = Held
    BY <1>1, <1>2, <1>4, <1>5, <2>3 DEF Split, Apart
  <2>5. Split(ToSet(jobs'), Aside', ToSet(forming'), HandJobs', QueueJobs')
    BY <1>3, <2>3, <2>4 DEF A2, C2
  <2> QED BY <1>3, <2>2, <2>4, <2>5, StepMoves
<1>9. ASSUME answers' = answers, Split(A2, Aside', C2, HandJobs, QueueJobs), Held' = Held
      PROVE  TheLedger'
  <2>1. Split(ToSet(jobs'), Aside', ToSet(forming'), HandJobs', QueueJobs')
    BY <1>3, <1>9 DEF A2, C2
  <2>2. \A k \in Jobs : (k \in {} => answers'[k] # <<>>) /\ (k \notin {} => answers'[k] = answers[k])
    BY <1>9
  <2>3. Apart({}, Held')
    BY DEF Apart
  <2> QED BY <1>3, <1>9, <2>1, <2>2, <2>3, StepMoves
<1>10. CASE forming' = Append(forming, j) /\ UNCHANGED <<pc, pending>> /\ Quiet
  <2>1. Aside' = {} /\ C2 = C \union {j} /\ answers' = answers
    BY <1>2, <1>7, <1>10 DEF Aside, Quiet
  <2>2. Split(A2, {}, C2, HandJobs, QueueJobs) /\ Held' = Held
    BY <1>1, <1>2, <1>4, <1>5, <2>1 DEF Split, Apart
  <2> QED BY <1>9, <2>1, <2>2
<1>11. CASE pending' = j /\ UNCHANGED forming /\ Quiet
  <2>1. Aside' = {j} /\ C2 = C /\ answers' = answers
    BY <1>4, <1>7, <1>11, NotNone DEF Aside, Quiet
  <2>2. Split(A2, {j}, C2, HandJobs, QueueJobs) /\ Held' = Held
    BY <1>1, <1>2, <1>4, <1>5, <2>1 DEF Split, Apart
  <2> QED BY <1>9, <2>1, <2>2
<1> QED BY <1>6, <1>8, <1>10, <1>11

(* Jobs that leave the batch being formed: cancelled, failed, or lost with *)
(* the result channel.                                                     *)
LEMMA SiftLedger ==
  ASSUME IInv, FormGivesUp \/ Sift \/ EncodeFails
  PROVE  TheLedger'
<1> DEFINE A == ToSet(jobs)  C == ToSet(forming)  C2 == ToSet(forming')
<1>1. /\ Split(A, Aside, C, HandJobs, QueueJobs) /\ C \subseteq Jobs
      /\ Held = A \union Aside \union C \union HandJobs \union QueueJobs
  BY LedgerIs DEF Held
<1>2. HandJobs' = HandJobs /\ QueueJobs' = QueueJobs /\ UNCHANGED <<sent, outClosed, jobs, pending>>
  BY HandsStay DEF FormGivesUp, Sift, EncodeFails, batchVars, sessionVars
<1>3. Aside' = Aside /\ Held' = A \union Aside \union C2 \union HandJobs \union QueueJobs
  BY <1>2 DEF Held, Aside
<1>4. forming \in Seq(Jobs)
  BY DEF IInv, TypeInv
<1>5. ASSUME NEW done, done \subseteq C, C2 = C \ done \/ (outClosed /\ C2 = {} /\ done = {}),
             \A k \in Jobs : (k \in done => answers'[k] # <<>>) /\ (k \notin done => answers'[k] = answers[k])
      PROVE  TheLedger'
  <2> HIDE DEF A, C, C2
  <2>1. /\ Split(A, Aside, C2, HandJobs, QueueJobs) /\ Apart(done, Held') /\ Held' \union done \subseteq Held
        /\ outClosed \/ Held \subseteq Held' \union done
    BY <1>1, <1>3, <1>5 DEF Split, Apart
  <2>2. Split(ToSet(jobs'), Aside', ToSet(forming'), HandJobs', QueueJobs')
    BY <1>2, <1>3, <2>1 DEF A, C2
  <2> QED BY <1>2, <1>5, <2>1, <2>2, StepMoves
<1>6. CASE FormGivesUp
  <2>1. outClosed /\ C2 = {} /\ answers' = answers
    BY <1>6, NoneSet DEF FormGivesUp, Quiet
  <2> DEFINE done == {}
  <2>2. \A k \in Jobs : (k \in done => answers'[k] # <<>>) /\ (k \notin done => answers'[k] = answers[k])
    BY <2>1
  <2>3. done \subseteq C /\ (C2 = C \ done \/ (outClosed /\ C2 = {} /\ done = {}))
    BY <2>1
  <2> HIDE DEF A, C, C2, done
  <2> QED BY <1>5, <2>2, <2>3
<1>7. CASE EncodeFails
  <2>1. Fix(forming, "failed") /\ C2 = {} /\ "failed" \in Outcomes
    BY <1>7, NoneSet DEF EncodeFails, Emit, Outcomes
  <2>2. \A k \in Jobs : (k \in C => answers'[k] # <<>>) /\ (k \notin C => answers'[k] = answers[k])
    BY <2>1, FixIs
  <2> HIDE DEF A, C, C2
  <2> QED BY <1>5, <2>1, <2>2
<1>8. CASE Sift
  <2> DEFINE fine == {k \in Jobs : ~Cancelled(k)}
             gonner == {k \in Jobs : Cancelled(k)}
             stale == Kept(forming, gonner)
             next == IF Kept(forming, fine) = <<>> THEN Retry ELSE "encode"
  <2>1. /\ C2 = C \intersect fine /\ ToSet(stale) = C \intersect gonner
    BY <1>4, <1>8, KeptIs DEF Sift
  <2>2. (stale = <<>> /\ answers' = answers) \/ Emit(stale, "cancelled", next)
    BY <1>8 DEF Sift, Quiet
  <2> HIDE DEF stale, next
  <2>3. C2 = C \ ToSet(stale) /\ ToSet(stale) \subseteq C
    BY <1>1, <2>1
  <2>4. CASE stale = <<>> /\ answers' = answers
    <3>1. ToSet(stale) = {}
      BY <2>4, NoneSet
    <3> HIDE DEF A, C, C2
    <3> QED BY <1>5, <2>3, <2>4, <3>1
  <2>5. CASE Emit(stale, "cancelled", next)
    <3>1. Fix(stale, "cancelled") /\ "cancelled" \in Outcomes
      BY <2>5 DEF Emit, Outcomes
    <3>2. \A k \in Jobs : /\ k \in ToSet(stale) => answers'[k] # <<>>
                          /\ k \notin ToSet(stale) => answers'[k] = answers[k]
      BY <3>1, FixIs
    <3> DEFINE done == ToSet(stale)
    <3>3. done \subseteq C /\ C2 = C \ done
      BY <2>3
    <3>4. \A k \in Jobs : (k \in done => answers'[k] # <<>>) /\ (k \notin done => answers'[k] = answers[k])
      BY <3>2
    <3> HIDE DEF A, C, C2, done
    <3> QED BY <1>5, <3>3, <3>4
  <2> QED BY <2>2, <2>4, <2>5
<1> QED BY <1>6, <1>7, <1>8

(* A batch that is encoded, taken, continued, answered or dropped: its     *)
(* jobs go with it.                                                        *)
LEMMA BatchLedger ==
  ASSUME IInv, Encode \/ Loop \/ GiveUp \/ NextChunk \/ Finish
  PROVE  TheLedger'
<1> DEFINE A == ToSet(jobs)  C == ToSet(forming)  C2 == ToSet(forming')
<1>1. /\ Split(A, Aside, C, HandJobs, QueueJobs)
      /\ Held = A \union Aside \union C \union HandJobs \union QueueJobs
  BY LedgerIs DEF Held
<1>2. UNCHANGED <<jobs, sent, outClosed, pending>>
  BY DEF Encode, Loop, GiveUp, NextChunk, Finish, sessionVars, formVars
<1>3. Aside' = Aside /\ Held' = A \union Aside \union C2 \union HandJobs' \union QueueJobs'
  BY <1>2 DEF Held, Aside
<1>4. queue \in Seq(Batches) /\ QueueJobs = UNION {JobsIn(queue[i]) : i \in 1 .. Len(queue)}
  BY QueueJobsIs DEF IInv, TypeInv, QueueJobs
<1>5. ASSUME answers' = answers, Split(A, Aside, C2, HandJobs', QueueJobs'), Held' \subseteq Held,
             outClosed \/ Held' = Held
      PROVE  TheLedger'
  <2>1. Split(ToSet(jobs'), Aside', ToSet(forming'), HandJobs', QueueJobs')
    BY <1>2, <1>3, <1>5
  <2> DEFINE done == {}
  <2>2. \A k \in Jobs : (k \in done => answers'[k] # <<>>) /\ (k \notin done => answers'[k] = answers[k])
    BY <1>5
  <2>3. Apart(done, Held') /\ Held' \union done = Held'
    BY DEF Apart
  <2> HIDE DEF done
  <2> QED BY <1>2, <1>5, <2>1, <2>2, <2>3, StepMoves
<1>6. CASE Encode
  <2>1. PICK b, c : New(b, c)
    BY <1>6, EncodedIs
  <2>2. c \in Batches /\ JobsIn(c) = C
    BY <2>1, CommittedIs DEF New, JobsIn
  <2>3. queue = <<>> /\ HandJobs' = HandJobs /\ C2 = {} /\ answers' = answers
    BY <1>6, NoneSet DEF Encode, IInv, ShapeInv, Where, HandJobs, Quiet
  <2>4. queue' = <<c>>
    BY <2>1, <2>3, AppendOne DEF New
  <2>5. QueueJobs' = JobsIn(c)
    <3>1. ToSet(queue') = {c}
      BY <2>4, OneSet
    <3> QED BY <3>1 DEF QueueJobs
  <2>6. QueueJobs = {}
    BY <2>3, NoneSet DEF QueueJobs
  <2> HIDE DEF A, C, C2
  <2>7. Split(A, Aside, C2, HandJobs', QueueJobs') /\ Held' = Held
    BY <1>1, <1>3, <2>2, <2>3, <2>5, <2>6 DEF Split, Apart
  <2> QED BY <1>5, <2>3, <2>7
<1>7. CASE Loop
  <2>1. /\ HandJobs = {} /\ HandJobs' = JobsIn(queue[1]) /\ queue' \in Seq(Batches)
        /\ Len(queue') = Len(queue) - 1 /\ Len(queue) \in 1 .. 2
        /\ \A i \in 1 .. Len(queue) - 1 : queue'[i] = queue[i + 1]
    BY <1>7, LoopIs, NotNone DEF HandJobs
  <2>2. QueueJobs' = UNION {JobsIn(queue'[i]) : i \in 1 .. Len(queue')}
    BY <2>1, QueueJobsIs DEF QueueJobs
  <2>3. QueueJobs = HandJobs' \union QueueJobs' /\ Apart(HandJobs', QueueJobs')
    <3>1. CASE Len(queue) = 1
      <4>1. QueueJobs = JobsIn(queue[1]) /\ QueueJobs' = {}
        BY <1>4, <2>1, <2>2, <3>1
      <4> QED BY <2>1, <4>1 DEF Apart
    <3>2. CASE Len(queue) = 2
      <4>1. QueueJobs = JobsIn(queue[1]) \union JobsIn(queue[2])
        BY <1>4, <3>2
      <4>2. QueueJobs' = JobsIn(queue'[1]) /\ queue'[1] = queue[2]
        BY <2>1, <2>2, <3>2
      <4>3. Apart(JobsIn(queue[1]), JobsIn(queue[2]))
        <5>1. 1 \in DOMAIN queue /\ 2 \in DOMAIN queue
          BY <1>4, <3>2
        <5> QED BY <5>1 DEF IInv, CustodyInv
      <4> QED BY <2>1, <4>1, <4>2, <4>3
    <3> QED BY <2>1, <3>1, <3>2
  <2>4. C2 = C /\ answers' = answers
    BY <1>7 DEF Loop, Quiet
  <2> HIDE DEF A, C, C2
  <2>5. Split(A, Aside, C2, HandJobs', QueueJobs') /\ Held' = Held
    BY <1>1, <1>3, <2>1, <2>3, <2>4 DEF Split, Apart
  <2> QED BY <1>5, <2>4, <2>5
<1>8. CASE NextChunk
  <2>1. /\ current \in Batches /\ current # None /\ current' = None
        /\ queue' = Append(queue, Committed(current)) /\ C2 = C /\ answers' = answers
    BY <1>8, WaitIs DEF NextChunk, formVars, Quiet
  <2>2. Committed(current) \in Batches /\ JobsIn(Committed(current)) = HandJobs
    BY <2>1, CommittedIs DEF HandJobs, JobsIn
  <2>3. ToSet(queue') = ToSet(queue) \union {Committed(current)}
    BY <1>4, <2>1, <2>2, AppendSet
  <2>4. QueueJobs' = QueueJobs \union HandJobs /\ HandJobs' = {}
    BY <2>1, <2>2, <2>3 DEF QueueJobs, HandJobs
  <2> HIDE DEF A, C, C2
  <2>5. Split(A, Aside, C2, HandJobs', QueueJobs') /\ Held' = Held
    BY <1>1, <1>3, <2>1, <2>4 DEF Split, Apart
  <2> QED BY <1>5, <2>1, <2>5
<1>9. CASE GiveUp
  <2>1. outClosed /\ HandJobs' = {} /\ QueueJobs' = QueueJobs /\ C2 = C /\ answers' = answers
    BY <1>9 DEF GiveUp, HandJobs, QueueJobs, formVars, Quiet
  <2> HIDE DEF A, C, C2
  <2>2. Split(A, Aside, C2, HandJobs', QueueJobs') /\ Held' \subseteq Held
    BY <1>1, <1>3, <2>1 DEF Split, Apart
  <2> QED BY <1>5, <2>1, <2>2
<1>10. CASE Finish
  <2>1. PICK o \in Verdicts(current) : Emit(current.jobs, o, IF queue = <<>> THEN "form" ELSE "loop")
    BY <1>10 DEF Finish
  <2>2. o \in Outcomes /\ Fix(current.jobs, o)
    BY <2>1 DEF Verdicts, Harvests, Outcomes, Emit
  <2>3. current # None /\ current' = None /\ queue' = queue /\ C2 = C
    BY <1>10, WaitIs DEF Finish
  <2> DEFINE done == HandJobs
  <2>4. done = ToSet(current.jobs) /\ HandJobs' = {} /\ QueueJobs' = QueueJobs
    BY <2>3 DEF HandJobs, JobsIn, QueueJobs
  <2>5. \A k \in Jobs : (k \in done => answers'[k] # <<>>) /\ (k \notin done => answers'[k] = answers[k])
    BY <2>2, <2>4, FixIs
  <2>6. done = HandJobs
    OBVIOUS
  <2> HIDE DEF A, C, C2, done
  <2>7. /\ Split(A, Aside, C2, {}, QueueJobs) /\ Apart(done, Held') /\ Held' \union done = Held
    BY <1>1, <1>3, <2>3, <2>4, <2>6 DEF Split, Apart
  <2>8. Split(ToSet(jobs'), Aside', ToSet(forming'), HandJobs', QueueJobs')
    BY <1>2, <1>3, <2>4, <2>7 DEF A, C2
  <2> QED BY <1>2, <2>5, <2>7, <2>8, StepMoves
<1> QED BY <1>6, <1>7, <1>8, <1>9, <1>10

(* The GPU leaves the jobs of a batch alone.                               *)
LEMMA GpuHands ==
  ASSUME IInv, Gpu
  PROVE  HandJobs' = HandJobs /\ QueueJobs' = QueueJobs
<1>1. PICK b, status : Ending(b, status)
  BY GpuIs
<1>2. JobsIn(Retired(b, status)) = JobsIn(b) /\ Retired(b, status) \in Batches
  BY <1>1, RetiredIs DEF Ending, Statuses, JobsIn
<1>3. CASE current = b /\ current' = Retired(b, status) /\ queue' = queue
  BY <1>1, <1>2, <1>3, NotNone DEF HandJobs, QueueJobs, Ending
<1>4. ASSUME NEW i \in DOMAIN queue, queue[i] = b, queue' = [queue EXCEPT ![i] = Retired(b, status)],
             current' = current
      PROVE  HandJobs' = HandJobs /\ QueueJobs' = QueueJobs
  <2>1. queue \in Seq(Batches) /\ queue' \in Seq(Batches) /\ Len(queue') = Len(queue)
    BY <1>2, <1>4 DEF IInv, TypeInv
  <2>2. \A k \in 1 .. Len(queue) : JobsIn(queue'[k]) = JobsIn(queue[k])
    BY <1>2, <1>4, <2>1
  <2>3. /\ QueueJobs = UNION {JobsIn(queue[k]) : k \in 1 .. Len(queue)}
        /\ QueueJobs' = UNION {JobsIn(queue'[k]) : k \in 1 .. Len(queue')}
    BY <2>1, QueueJobsIs DEF QueueJobs
  <2> QED BY <1>4, <2>1, <2>2, <2>3 DEF HandJobs
<1> QED BY <1>1, <1>3, <1>4 DEF Ending

LEMMA GpuLedger ==
  ASSUME IInv, Gpu
  PROVE  TheLedger'
<1>1. UNCHANGED <<jobs, sent, outClosed, pending, forming, answers>>
  BY DEF Gpu, Retires, sessionVars, formVars
<1> QED BY <1>1, GpuHands, LedgerIs DEF TheLedger, Aside

(* The next job of the session is in nobody's hands yet.                   *)
LEMMA NextJob ==
  ASSUME IInv, NEW j \in Jobs, SendJob(j)
  PROVE  /\ j \notin sent /\ sent' = sent \union {j} /\ jobs' = Append(jobs, j)
         /\ \E k \in 0 .. N : sent' = 1 .. k
<1>1. PICK k \in 0 .. N : sent = 1 .. k
  BY DEF IInv, CustodyInv
<1>2. k \in Nat /\ N \in Nat
  BY Sizes
<1>3. Cardinality(1 .. k) = k
  <2>1. Cardinality(1 .. k) = IF 1 > k THEN 0 ELSE k - 1 + 1
    BY <1>2, FS_Interval
  <2> QED BY <1>2, <2>1
<1>4. j = k + 1 /\ jobs' = Append(jobs, j) /\ sent' = sent \union {j}
  BY <1>1, <1>3 DEF SendJob
<1>5. k + 1 <= N /\ k + 1 \in 0 .. N
  BY <1>2, <1>4 DEF Jobs
<1>6. sent' = 1 .. k + 1 /\ j \notin sent
  BY <1>1, <1>2, <1>4
<1> QED BY <1>4, <1>5, <1>6

LEMMA SessionLedger ==
  ASSUME IInv, Session \/ Finished \/ SendResult \/ Form \/ Resume \/ Gated \/ NoSeed \/ Filled
  PROVE  TheLedger'
<1>1. /\ UNCHANGED <<forming, pending, current, queue, answers>> /\ (outClosed => outClosed')
      /\ \/ UNCHANGED <<jobs, sent>>
         \/ \E j \in Jobs : SendJob(j)
  BY DEF Session, Finished, SendResult, Form, Resume, Gated, NoSeed, Filled, SendJob, CloseInput, Cancel,
         ReadResult, CloseOut, Govern, HostStays, vars, sessionVars, formVars, batchVars, Quiet
<1>2. HandJobs' = HandJobs /\ QueueJobs' = QueueJobs /\ Aside' = Aside /\ ToSet(forming') = ToSet(forming)
  BY <1>1, HandsStay DEF Aside
<1>3. CASE UNCHANGED <<jobs, sent>>
  BY <1>1, <1>2, <1>3, LedgerIs DEF TheLedger, Ledger
<1>4. ASSUME NEW j \in Jobs, SendJob(j)
      PROVE  TheLedger'
  <2> DEFINE A == ToSet(jobs)  C == ToSet(forming)
  <2>1. j \notin sent /\ sent' = sent \union {j} /\ jobs' = Append(jobs, j)
    BY <1>4, NextJob
  <2>2. ToSet(jobs') = A \union {j}
    BY <2>1, AppendSet DEF IInv, TypeInv
  <2>3. /\ TheLedger /\ Split(A, Aside, C, HandJobs, QueueJobs)
        /\ \A k \in A \union Aside \union C \union HandJobs \union QueueJobs : k \in sent
    BY LedgerIs
  <2> HIDE DEF A, C
  <2>4. Split(A \union {j}, Aside, C, HandJobs, QueueJobs)
    BY <2>1, <2>3 DEF Split, Apart
  <2>5. Ledger(A, Aside, C, HandJobs, QueueJobs, sent, answers, outClosed)
    BY <2>3 DEF TheLedger, A, C
  <2>6. answers[j] = <<>>
    BY <2>1, <2>5 DEF Ledger
  <2>7. Ledger(A \union {j}, Aside, C, HandJobs, QueueJobs, sent', answers, outClosed')
    BY <1>1, <2>1, <2>4, <2>5, <2>6 DEF Ledger
  <2> QED BY <1>1, <1>2, <2>2, <2>7 DEF TheLedger, C
<1> QED BY <1>1, <1>3, <1>4

(* A batch is formed of jobs of one key, each once.                        *)
LEMMA FormingAlike ==
  ASSUME IInv, Next
  PROVE  Alike(forming') /\ Injective(jobs')
<1>1. Alike(forming) /\ Injective(jobs) /\ jobs \in Seq(Jobs) /\ forming \in Seq(Jobs)
  BY DEF IInv, CustodyInv, TypeInv
<1>2. Injective(jobs')
  <2>1. CASE SeedJob \/ Fill
    <3>1. jobs # <<>> /\ jobs' = Tail(jobs)
      BY <2>1 DEF SeedJob, Fill
    <3> QED BY <1>1, <3>1, TailSet
  <2>2. ASSUME NEW j \in Jobs, SendJob(j) PROVE Injective(jobs')
    <3>1. j \notin sent /\ jobs' = Append(jobs, j) /\ ToSet(jobs) \subseteq sent
      BY <2>2, NextJob, LedgerIs
    <3> QED BY <1>1, <3>1, AppendSet
  <2> QED BY <1>1, <2>1, <2>2, Effects
<1>3. \A j \in Jobs : SameKey(j, j) /\ \A k, m \in Jobs : SameKey(m, j) /\ SameKey(m, k) => SameKey(j, k) /\ SameKey(k, j)
  BY DEF SameKey
<1>4. ASSUME NEW j \in Jobs PROVE Alike(<<j>>)
  BY <1>3, OneSet DEF Alike
<1>5. Alike(<<>>)
  BY NoneSet DEF Alike
<1>6. CASE SeedPending \/ SeedJob
  <2>1. PICK j \in Jobs : Seed(j)
    <3>1. CASE SeedPending
      BY <3>1 DEF SeedPending, IInv, TypeInv
    <3>2. CASE SeedJob
      BY <1>1, <3>2, TailSet DEF SeedJob
    <3> QED BY <1>6, <3>1, <3>2
  <2>2. forming' = forming \/ forming' = <<j>>
    BY <2>1, SeedIs DEF IInv, TypeInv
  <2> QED BY <1>1, <1>2, <1>4, <2>2
<1>7. CASE Fill
  <2>1. PICK j : j = Head(jobs)
    OBVIOUS
  <2>2. j \in Jobs /\ j \in ToSet(jobs)
    BY <1>1, <1>7, <2>1, TailSet DEF Fill
  <2>3. forming' = forming \/ (SameKey(Head(forming), j) /\ forming' = Append(forming, j))
    BY <1>7, <2>1 DEF Fill
  <2>4. j \notin ToSet(forming)
    BY <2>2, LedgerIs DEF Split, Apart
  <2>5. forming # <<>> /\ Head(forming) \in ToSet(forming) /\ ToSet(forming) \subseteq Jobs
    <3>1. forming # <<>>
      BY <1>7 DEF Fill, IInv, ShapeInv, Where
    <3> QED BY <1>1, <3>1, TailSet, ToSetOf
  <2>6. CASE SameKey(Head(forming), j) /\ forming' = Append(forming, j)
    <3>1. ToSet(forming') = ToSet(forming) \union {j} /\ Injective(forming')
      BY <1>1, <2>2, <2>4, <2>6, AppendSet DEF Alike
    <3>2. \A k \in ToSet(forming) : SameKey(k, j) /\ SameKey(j, k)
      BY <1>1, <1>3, <2>2, <2>5, <2>6 DEF Alike
    <3>3. \A k, m \in ToSet(forming') : SameKey(k, m)
      BY <1>1, <1>3, <2>2, <3>1, <3>2 DEF Alike
    <3> QED BY <1>2, <3>1, <3>3 DEF Alike
  <2> QED BY <1>1, <1>2, <2>3, <2>6
<1>8. CASE Sift
  <2> DEFINE live == Kept(forming, {j \in Jobs : ~Cancelled(j)})
  <2>1. forming' = live
    BY <1>8 DEF Sift
  <2>2. ToSet(live) \subseteq ToSet(forming) /\ Injective(live)
    BY <1>1, KeptIs DEF Alike
  <2> HIDE DEF live
  <2> QED BY <1>1, <1>2, <2>1, <2>2 DEF Alike
<1>9. CASE FormGivesUp \/ EncodeFails \/ Encode
  BY <1>2, <1>5, <1>9 DEF FormGivesUp, EncodeFails, Encode
<1> QED BY <1>1, <1>2, <1>6, <1>7, <1>8, <1>9, Effects

(* The batches of the queue share no job.                                  *)
QueueApart(q) == \A i, k \in DOMAIN q : i # k => Apart(JobsIn(q[i]), JobsIn(q[k]))

LEMMA BatchesApart ==
  ASSUME IInv, Next
  PROVE  QueueApart(queue')
<1>1. QueueApart(queue) /\ queue \in Seq(Batches)
  BY DEF IInv, CustodyInv, TypeInv, QueueApart
<1>2. DOMAIN queue = 1 .. Len(queue) /\ Len(queue) \in Nat
  BY <1>1
<1>3. CASE Encode
  <2>1. PICK b, c : New(b, c)
    BY <1>3, EncodedIs
  <2>2. queue = <<>>
    BY <1>3 DEF IInv, ShapeInv, Where, Encode
  <2>3. queue' = <<c>>
    BY <2>1, <2>2, AppendOne DEF New
  <2>4. DOMAIN queue' = {1}
    BY <2>3
  <2> QED BY <2>4 DEF QueueApart
<1>4. CASE Loop
  <2>1. /\ queue' \in Seq(Batches) /\ Len(queue') = Len(queue) - 1 /\ Len(queue) \in 1 .. 2
    BY <1>4, LoopIs
  <2>2. DOMAIN queue' = 1 .. Len(queue')
    BY <2>1
  <2>3. Len(queue') \in 0 .. 1
    BY <2>1
  <2>4. \A i, k \in DOMAIN queue' : i = k
    BY <2>2, <2>3
  <2> QED BY <2>4 DEF QueueApart
<1>5. CASE NextChunk
  <2> DEFINE c == Committed(current)
  <2>1. current \in Batches /\ current # None /\ queue' = Append(queue, c)
    BY <1>5, WaitIs DEF NextChunk
  <2>2. JobsIn(c) = HandJobs /\ c \in Batches
    BY <2>1, CommittedIs DEF HandJobs, JobsIn
  <2> HIDE DEF c
  <2>3. \A i \in 1 .. Len(queue) : Apart(JobsIn(queue[i]), JobsIn(c)) /\ Apart(JobsIn(c), JobsIn(queue[i]))
    <3>1. Apart(HandJobs, QueueJobs)
      BY LedgerIs DEF Split
    <3>2. \A i \in 1 .. Len(queue) : JobsIn(queue[i]) \subseteq QueueJobs
      BY QueueAt DEF QueueJobs, IInv
    <3> QED BY <2>2, <3>1, <3>2 DEF Apart
  <2>4. /\ DOMAIN queue' = 1 .. Len(queue) + 1 /\ queue'[Len(queue) + 1] = c
        /\ \A i \in 1 .. Len(queue) : queue'[i] = queue[i]
    BY <1>1, <2>1, <2>2
  <2> SUFFICES ASSUME NEW i \in DOMAIN queue', NEW k \in DOMAIN queue', i # k
               PROVE  Apart(JobsIn(queue'[i]), JobsIn(queue'[k]))
    BY DEF QueueApart
  <2>5. CASE i = Len(queue) + 1
    BY <1>2, <2>3, <2>4, <2>5
  <2>6. CASE k = Len(queue) + 1
    BY <1>2, <2>3, <2>4, <2>6
  <2>7. CASE i \in 1 .. Len(queue) /\ k \in 1 .. Len(queue)
    BY <1>1, <1>2, <2>4, <2>7 DEF QueueApart
  <2> QED BY <1>2, <2>4, <2>5, <2>6, <2>7
<1>6. CASE Gpu
  <2>1. PICK b, status : Ending(b, status)
    BY <1>6, GpuIs
  <2>2. JobsIn(Retired(b, status)) = JobsIn(b)
    BY <2>1, RetiredIs DEF Ending, Statuses, JobsIn
  <2>3. DOMAIN queue' = DOMAIN queue /\ \A i \in DOMAIN queue : JobsIn(queue'[i]) = JobsIn(queue[i])
    BY <1>1, <2>1, <2>2 DEF Ending
  <2> QED BY <1>1, <2>3 DEF QueueApart
<1> QED BY <1>1, <1>3, <1>4, <1>5, <1>6, Effects

LEMMA CustodyKept ==
  ASSUME IInv, Next
  PROVE  CustodyInv'
<1>1. TheLedger'
  BY SeedLedger, FillLedger, SiftLedger, BatchLedger, GpuLedger, SessionLedger DEF Next, Host
<1>2. \E k \in 0 .. N : sent' = 1 .. k
  <2>1. \E k \in 0 .. N : sent = 1 .. k
    BY DEF IInv, CustodyInv
  <2> QED BY <2>1, NextJob, Effects
<1> QED BY <1>1, <1>2, FormingAlike, BatchesApart DEF CustodyInv, TheLedger, QueueApart

-----------------------------------------------------------------------------
(* The batches and their buffers *)

Fine(b, store) == MadeOf(b) /\ InPlan(b) /\ Holds(b, store[b.buf])

(* No two batches in hand share a buffer, and none of theirs is free.      *)
Owned(cur, q, pool) ==
  /\ cur # None => cur.buf \notin pool
  /\ \A i \in DOMAIN q : q[i].buf \notin pool
  /\ cur # None => \A i \in DOMAIN q : cur.buf # q[i].buf
  /\ \A i, k \in DOMAIN q : i # k => q[i].buf # q[k].buf

Sound(cur, q, store, pool, over) ==
  /\ cur # None => Fine(cur, store)
  /\ \A i \in DOMAIN q : Fine(q[i], store)
  /\ over \/ Owned(cur, q, pool)

LEMMA SoundIs ==
  /\ BatchesInv <=> Sound(current, queue, memory, free, pc = "done")
  /\ BatchesInv' <=> Sound(current', queue', memory', free', pc' = "done")
BY DEF BatchesInv, BatchOk, Fine, Sound, Owned

(* A stream that has returned does not start again.                        *)
LEMMA DoneStays ==
  ASSUME Next, pc = "done"
  PROVE  UNCHANGED <<pc, current, queue, memory, free, ran, reported>> \/ Gpu
BY DEF Next, Host, SendResult, FormGivesUp, Form, Resume, Gated, SeedPending, SeedJob, NoSeed, Fill, Filled,
       Sift, EncodeFails, Encode, Loop, GiveUp, NextChunk, Finish, Session, SendJob, CloseInput, Cancel,
       ReadResult, CloseOut, Govern, Finished, HostStays, vars, batchVars, deviceVars

LEMMA EncodeSound ==
  ASSUME IInv, Encode
  PROVE  BatchesInv'
<1> DEFINE len == Len(forming)
           r == Rented(len)
<1>1. PICK b, c : New(b, c)
  BY EncodedIs
<1>2. /\ r \in Buffers /\ (\A d \in InHand : r # d.buf) /\ len <= Len(Storage(len))
      /\ free' = free \ {r} /\ memory' = [memory EXCEPT ![r] = Storage(len)]
  BY EncodedIs
<1>3. /\ forming # <<>> /\ Alike(forming) /\ queue = <<>> /\ current' = current /\ pc # "done"
      /\ memory \in [Buffers -> Seq(Regions)]
  BY DEF IInv, CustodyInv, TypeInv, ShapeInv, Where, Encode
<1>4. /\ b \in Batches /\ b.jobs = forming /\ b.inputs = forming /\ b.key = KeyOf[forming[1]]
      /\ b.cmds = <<>> /\ b.buf = r
      /\ c = b \/ (CanCommit(b) /\ c = Committed(b))
  BY <1>1 DEF New
<1>5. memory'[r] = Storage(len)
  BY <1>2, <1>3
<1> HIDE DEF r
<1>6. Done(b) = 0 /\ Len(b.cmds) = 0
  <2>1. Len(<<>>) = 0
    OBVIOUS
  <2> QED BY <1>4, <2>1 DEF Done
<1>7. Fine(b, memory')
  <2>1. MadeOf(b)
    BY <1>3, <1>4 DEF MadeOf
  <2>2. InPlan(b)
    <3>1. Chunks(b.limit, Betas) \in Nat
      BY <1>4, BatchTyped, ChunksTyped
    <3> QED BY <1>6, <3>1 DEF InPlan
  <2>3. Holds(b, memory'[b.buf])
    BY <1>2, <1>4, <1>5, <1>6 DEF Holds
  <2> QED BY <2>1, <2>2, <2>3 DEF Fine
<1>8. Fine(c, memory') /\ c.buf = r
  <2>1. CASE c = b
    BY <1>4, <1>7, <2>1
  <2>2. CASE CanCommit(b) /\ c = Committed(b)
    <3>1. c.buf = b.buf
      BY <1>4, <2>2, CommittedIs
    <3>2. MadeOf(c) /\ InPlan(c) /\ Holds(c, memory'[b.buf])
      BY <1>4, <1>7, <2>2, CommitKeeps DEF Fine
    <3> QED BY <1>4, <3>1, <3>2 DEF Fine
  <2> QED BY <1>4, <2>1, <2>2
<1>9. queue' = <<c>> /\ DOMAIN queue' = {1} /\ queue'[1] = c
  <2>1. queue' = <<c>>
    BY <1>1, <1>3, AppendOne DEF New
  <2> QED BY <2>1
<1>10. current # None => current.buf # r /\ Fine(current, memory') /\ current.buf \notin free
  <2> SUFFICES ASSUME current # None
               PROVE  current.buf # r /\ Fine(current, memory') /\ current.buf \notin free
    OBVIOUS
  <2>1. current \in Batches /\ Fine(current, memory) /\ current.buf \notin free
    BY <1>3, SoundIs DEF IInv, TypeInv, Sound, Owned
  <2>2. current.buf \in Buffers /\ current.buf # r
    BY <1>2, <2>1, BatchTyped DEF InHand
  <2>3. memory'[current.buf] = memory[current.buf]
    BY <1>2, <1>3, <2>2
  <2> QED BY <2>1, <2>2, <2>3 DEF Fine
<1>11. Owned(current', queue', free')
  BY <1>2, <1>3, <1>8, <1>9, <1>10 DEF Owned
<1> QED BY <1>3, <1>8, <1>9, <1>10, <1>11, SoundIs DEF Sound

LEMMA LoopSound ==
  ASSUME IInv, Loop
  PROVE  BatchesInv'
<1>1. /\ current' = queue[1] /\ queue' \in Seq(Batches) /\ Len(queue') = Len(queue) - 1
      /\ Len(queue) \in 1 .. 2 /\ \A i \in 1 .. Len(queue) - 1 : queue'[i] = queue[i + 1]
  BY LoopIs
<1>2. UNCHANGED <<memory, free>> /\ pc # "done"
  BY DEF Loop, deviceVars
<1>3. Sound(current, queue, memory, free, pc = "done")
  BY SoundIs DEF IInv
<1>4. DOMAIN queue = 1 .. Len(queue) /\ 1 \in DOMAIN queue
  BY <1>1, QueueAt DEF IInv
<1>5. DOMAIN queue' = 1 .. Len(queue) - 1
  BY <1>1
<1>6. \A i \in DOMAIN queue' : i + 1 \in DOMAIN queue /\ queue'[i] = queue[i + 1] /\ i + 1 # 1
  BY <1>1, <1>4, <1>5
<1>7. \A i, k \in DOMAIN queue' : i # k => i + 1 # k + 1
  BY <1>1, <1>5
<1>8. Owned(current', queue', free')
  BY <1>1, <1>2, <1>3, <1>4, <1>6, <1>7 DEF Sound, Owned
<1>9. Fine(current', memory') /\ \A i \in DOMAIN queue' : Fine(queue'[i], memory')
  BY <1>1, <1>2, <1>3, <1>4, <1>6 DEF Sound
<1> QED BY <1>8, <1>9, SoundIs DEF Sound

LEMMA NextChunkSound ==
  ASSUME IInv, NextChunk
  PROVE  BatchesInv'
<1> DEFINE c == Committed(current)
<1>1. /\ current \in Batches /\ current # None /\ current' = None /\ queue' = Append(queue, c)
      /\ CanCommit(current) /\ UNCHANGED <<memory, free>> /\ pc # "done"
  BY WaitIs DEF NextChunk, deviceVars
<1>2. Sound(current, queue, memory, free, pc = "done") /\ queue \in Seq(Batches)
  BY SoundIs DEF IInv, TypeInv
<1>3. Fine(current, memory) /\ Owned(current, queue, free)
  BY <1>1, <1>2 DEF Sound
<1>4. c \in Batches /\ c.buf = current.buf /\ Fine(c, memory)
  BY <1>1, <1>3, CommittedIs, CommitKeeps DEF Fine
<1> HIDE DEF c
<1>5. /\ DOMAIN queue = 1 .. Len(queue) /\ DOMAIN queue' = 1 .. Len(queue) + 1 /\ Len(queue) \in Nat
      /\ queue'[Len(queue) + 1] = c
      /\ \A i \in 1 .. Len(queue) : queue'[i] = queue[i]
  BY <1>1, <1>2, <1>4
<1>6. \A i \in DOMAIN queue' : i \in DOMAIN queue \/ i = Len(queue) + 1
  BY <1>5
<1>7. Owned(current', queue', free')
  BY <1>1, <1>3, <1>4, <1>5, <1>6 DEF Owned
<1>8. \A i \in DOMAIN queue' : Fine(queue'[i], memory')
  BY <1>1, <1>2, <1>4, <1>5, <1>6 DEF Sound
<1> QED BY <1>1, <1>7, <1>8, SoundIs DEF Sound

(* Only the buffers of the batches that are let go join the pool.          *)
LEMMA LetGoSound ==
  ASSUME IInv, GiveUp \/ Finish
  PROVE  BatchesInv'
<1>1. Sound(current, queue, memory, free, pc = "done")
  BY SoundIs DEF IInv
<1>2. CASE GiveUp
  <2>1. pc' = "done" /\ current' = None /\ UNCHANGED <<queue, memory>>
    BY <1>2 DEF GiveUp
  <2> QED BY <1>1, <2>1, SoundIs DEF Sound
<1>3. CASE Finish
  <2>1. /\ current \in Batches /\ current # None /\ current' = None /\ pc # "done"
        /\ UNCHANGED <<queue, memory>> /\ free' = GivenBack({current})
    BY <1>3, WaitIs DEF Finish
  <2>2. free' \subseteq free \union {current.buf}
    <3> DEFINE bufs == {b.buf : b \in {c \in {current} : ~Running(c)}}
    <3>1. bufs \subseteq {current.buf} /\ bufs \in SUBSET Buffers /\ free' = Give(bufs)
      BY <2>1, BatchTyped DEF GivenBack
    <3>2. free \subseteq Buffers /\ Cardinality(free) <= PoolCap
      BY DEF IInv, TypeInv
    <3> HIDE DEF bufs
    <3> QED BY <3>1, <3>2, GiveIs
  <2>3. Owned(current', queue', free')
    BY <1>1, <2>1, <2>2 DEF Sound, Owned
  <2> QED BY <1>1, <2>1, <2>3, SoundIs DEF Sound
<1> QED BY <1>2, <1>3

(* A chunk writes to the buffer of its own batch alone.                    *)
LEMMA GpuSound ==
  ASSUME IInv, Gpu
  PROVE  BatchesInv'
<1>1. PICK b, status : Ending(b, status)
  BY GpuIs
<1> DEFINE r == Retired(b, status)
<1>2. /\ b \in Batches /\ Running(b) /\ b.cmds # <<>> /\ status \in {"completed", "error"}
      /\ memory' = Written(b, status) /\ status \in Statuses
  BY <1>1 DEF Ending, Statuses
<1>3. /\ Sound(current, queue, memory, free, pc = "done") /\ queue \in Seq(Batches)
      /\ current \in Batches \union {None} /\ memory \in [Buffers -> Seq(Regions)] /\ b # None
  BY <1>2, SoundIs, NotNone DEF IInv, TypeInv
<1>4. pc # "done" /\ pc' = pc /\ free' = free
  <2>1. current = b => current # None
    BY <1>2, NotNone
  <2>2. pc' = pc /\ free' = free
    BY DEF Gpu, Retires
  <2> QED BY <1>1, <2>1, <2>2 DEF Ending, IInv, ShapeInv
<1>5. Owned(current, queue, free) /\ Fine(b, memory)
  BY <1>1, <1>3, <1>4 DEF Sound, Ending
<1>6. r \in Batches /\ r.buf = b.buf /\ r # None
  BY <1>2, RetiredIs, NotNone
<1>7. Fine(r, memory')
  <2>1. MadeOf(r) /\ InPlan(r) /\ Holds(r, Written(b, status)[b.buf])
    BY <1>2, <1>3, <1>5, RetireKeeps DEF Fine
  <2> QED BY <1>2, <1>6, <2>1 DEF Fine
<1>8. ASSUME NEW c \in Batches, c.buf # b.buf, Fine(c, memory)
      PROVE  Fine(c, memory')
  <2>1. memory'[c.buf] = memory[c.buf]
    BY <1>2, <1>3, <1>5, <1>8, BatchTyped, WrittenTyped DEF Fine
  <2> QED BY <1>8, <2>1 DEF Fine
<1> HIDE DEF r
<1>9. CASE current = b /\ current' = r /\ queue' = queue
  <2>1. \A i \in DOMAIN queue : queue[i] \in Batches /\ queue[i].buf # b.buf /\ Fine(queue[i], memory)
    BY <1>3, <1>5, <1>9 DEF Owned, Sound
  <2>2. Owned(current', queue', free')
    BY <1>3, <1>4, <1>5, <1>6, <1>9 DEF Owned
  <2> QED BY <1>6, <1>7, <1>8, <1>9, <2>1, <2>2, SoundIs DEF Sound
<1>10. ASSUME NEW i \in DOMAIN queue, queue[i] = b, queue' = [queue EXCEPT ![i] = r], current' = current
       PROVE  BatchesInv'
  <2>1. /\ DOMAIN queue' = DOMAIN queue /\ queue'[i] = r
        /\ \A k \in DOMAIN queue : k # i => queue'[k] = queue[k]
    BY <1>3, <1>10
  <2>2. \A k \in DOMAIN queue : queue'[k].buf = queue[k].buf
    BY <1>6, <1>10, <2>1
  <2>3. Owned(current', queue', free')
    BY <1>4, <1>5, <1>10, <2>1, <2>2 DEF Owned
  <2>4. \A k \in DOMAIN queue : k # i => queue[k] \in Batches /\ queue[k].buf # b.buf /\ Fine(queue[k], memory)
    BY <1>3, <1>5, <1>10 DEF Owned, Sound
  <2>5. \A k \in DOMAIN queue' : Fine(queue'[k], memory')
    BY <1>7, <1>8, <2>1, <2>4
  <2>6. current' # None => Fine(current', memory')
    BY <1>3, <1>5, <1>8, <1>10 DEF Owned, Sound
  <2> QED BY <2>3, <2>5, <2>6, SoundIs DEF Sound
<1> QED BY <1>1, <1>9, <1>10 DEF Ending, r

LEMMA BatchesKept ==
  ASSUME IInv, Next
  PROVE  BatchesInv'
<1>1. CASE Encode \/ Loop \/ NextChunk \/ GiveUp \/ Finish \/ Gpu
  BY <1>1, EncodeSound, LoopSound, NextChunkSound, LetGoSound, GpuSound
<1>2. CASE ~(Encode \/ Loop \/ NextChunk \/ GiveUp \/ Finish \/ Gpu)
  <2>1. UNCHANGED <<current, queue, memory, free>>
    BY <1>2, Effects
  <2>2. pc = "done" => pc' = "done"
    BY <1>2, DoneStays
  <2>3. BatchesInv
    BY DEF IInv
  <2> QED BY <2>1, <2>2, <2>3, SoundIs DEF Sound
<1> QED BY <1>1, <1>2

(* GPU time is reported before its batch is let go.                        *)
LEMMA TimeKept ==
  ASSUME IInv, Next
  PROVE  TimeInv'
<1>1. TimeInv /\ queue \in Seq(Batches)
  BY DEF IInv, TypeInv
<1> DEFINE G == HandJobs \union QueueJobs
           G2 == HandJobs' \union QueueJobs'
<1>2. TimeInv' <=> ran' \subseteq reported' \union (IF pc' = "done" THEN {} ELSE G2)
  BY DEF TimeInv
<1>3. ran \subseteq reported \union G
  BY <1>1 DEF TimeInv
<1>4. CASE Encode
  <2>1. PICK b, c : New(b, c)
    BY <1>4, EncodedIs
  <2>2. c \in Batches /\ JobsIn(c) = ToSet(forming)
    BY <2>1, CommittedIs DEF New, JobsIn
  <2>3. queue' = Append(queue, c) /\ HandJobs' = HandJobs /\ reported' = reported
        /\ ran' \subseteq ran \union ToSet(forming) /\ pc' # "done"
    BY <1>4, <2>1 DEF New, Encode, HandJobs
  <2>4. ToSet(queue') = ToSet(queue) \union {c}
    BY <1>1, <2>2, <2>3, AppendSet
  <2>5. QueueJobs' = QueueJobs \union ToSet(forming)
    BY <2>2, <2>4 DEF QueueJobs
  <2> QED BY <1>2, <1>3, <2>3, <2>5
<1>5. CASE Loop
  <2>1. /\ HandJobs = {} /\ HandJobs' = JobsIn(queue[1]) /\ queue' = Tail(queue) /\ queue # <<>>
        /\ pc' # "done" /\ UNCHANGED <<ran, reported>>
    BY <1>5, LoopIs, NotNone DEF HandJobs, Loop
  <2>2. ToSet(queue) = ToSet(queue') \union {queue[1]}
    <3>1. Head(queue) = queue[1]
      OBVIOUS
    <3> QED BY <1>1, <2>1, <3>1, TailSet
  <2>3. QueueJobs = QueueJobs' \union HandJobs'
    BY <2>1, <2>2 DEF QueueJobs
  <2> QED BY <1>2, <1>3, <2>1, <2>3
<1>6. CASE NextChunk
  <2>1. /\ current \in Batches /\ current # None /\ queue' = Append(queue, Committed(current))
        /\ ran' = ran \union ToSet(current.jobs) /\ pc' # "done" /\ reported' = reported
    BY <1>6, WaitIs DEF NextChunk
  <2>2. /\ Committed(current) \in Batches /\ JobsIn(Committed(current)) = HandJobs
        /\ HandJobs = ToSet(current.jobs)
    BY <2>1, CommittedIs DEF HandJobs, JobsIn
  <2>3. ToSet(queue') = ToSet(queue) \union {Committed(current)}
    BY <1>1, <2>1, <2>2, AppendSet
  <2>4. QueueJobs' = QueueJobs \union HandJobs
    BY <2>2, <2>3 DEF QueueJobs
  <2> QED BY <1>2, <1>3, <2>1, <2>2, <2>4
<1>7. CASE GiveUp
  <2>1. ran' = ran /\ reported' = reported \union (ran \intersect UNION {ToSet(b.jobs) : b \in InHand})
    BY <1>7 DEF GiveUp
  <2>2. UNION {ToSet(b.jobs) : b \in InHand} = G
    BY DEF InHand, HandJobs, QueueJobs, JobsIn
  <2> HIDE DEF G, G2
  <2> QED BY <1>2, <1>3, <2>1, <2>2
<1>8. CASE Finish
  <2>1. /\ current # None /\ ran' = ran /\ reported' = reported \union (ran \intersect ToSet(current.jobs))
        /\ QueueJobs' = QueueJobs /\ pc' # "done"
    BY <1>8, WaitIs DEF Finish, QueueJobs
  <2>2. HandJobs = ToSet(current.jobs)
    BY <2>1 DEF HandJobs, JobsIn
  <2> QED BY <1>2, <1>3, <2>1, <2>2
<1>9. CASE Gpu
  <2>1. HandJobs' = HandJobs /\ QueueJobs' = QueueJobs /\ UNCHANGED <<pc, ran, reported>>
    BY <1>9, GpuHands DEF Gpu, Retires
  <2> QED BY <1>1, <1>2, <2>1 DEF TimeInv
<1>10. CASE ~(Encode \/ Loop \/ NextChunk \/ GiveUp \/ Finish \/ Gpu)
  <2>1. UNCHANGED <<current, queue, ran, reported>>
    BY <1>10, Effects
  <2>2. G2 = G
    BY <2>1, HandsStay
  <2>3. pc = "done" => pc' = "done"
    BY <1>10, DoneStays
  <2>4. pc' = "done" => ran \subseteq reported
    <3>1. CASE pc = "done"
      BY <1>1, <3>1 DEF TimeInv
    <3>2. CASE pc # "done" /\ pc' = "done"
      <4>0. ~SendResult
        BY <3>2 DEF SendResult, IInv, TypeInv
      <4>1. FormGivesUp \/ NoSeed
        BY <1>10, <3>2, <4>0 DEF Next, Host, FormGivesUp, Form, Resume, Gated, SeedPending, SeedJob,
           NoSeed, Fill, Filled, Sift, EncodeFails, Session, SendJob, CloseInput, Cancel, ReadResult,
           CloseOut, Govern, Finished, HostStays, vars, Emit, Seed
      <4>2. mode = "blocking" /\ Where \in Gathering
        BY <3>2, <4>1 DEF FormGivesUp, NoSeed, NoBatch, Where, IInv, TypeInv
      <4>3. current = None /\ ToSet(queue) = {}
        BY <4>2, FormingAlone DEF IInv, ShapeInv
      <4>4. G = {}
        BY <4>3 DEF HandJobs, QueueJobs
      <4> QED BY <1>3, <4>4
    <3> QED BY <3>1, <3>2
  <2> HIDE DEF G, G2
  <2> QED BY <1>2, <1>3, <2>1, <2>2, <2>4
<1> QED BY <1>4, <1>5, <1>6, <1>7, <1>8, <1>9, <1>10

-----------------------------------------------------------------------------
(* Theorems *)

LEMMA Initially ==
  ASSUME Init
  PROVE  IInv
<1> USE DEF Init
<1>1. Jobs # {} => Len(<<>>) = 0
  OBVIOUS
<1>2. TypeInv
  <2>1. \A S : <<>> \in Seq(S)
    OBVIOUS
  <2>2. IsFiniteSet({}) /\ Cardinality({}) = 0
    BY FS_EmptySet
  <2>3. 1 \in 1 .. TgBudget /\ Len(<<>>) = 0
    BY Sizes
  <2>4. throttle \in BOOLEAN
    OBVIOUS
  <2>5. answers \in [Jobs -> {<<>>} \union {<<o>> : o \in Outcomes}] /\ memory \in [Buffers -> Seq(Regions)]
    BY <2>1
  <2>6. DOMAIN read = Jobs /\ outLen \in 0 .. OutCap /\ events \in 0 .. MaxEvents
    BY Sizes
  <2>7. free \subseteq Buffers /\ Cardinality(free) <= PoolCap
    BY <2>2, Sizes
  <2>8. Len(jobs) <= JobCap
    BY <2>3, Sizes
  <2>9. inputOpen \in BOOLEAN /\ outClosed \in BOOLEAN
    OBVIOUS
  <2> QED BY <2>1, <2>3, <2>4, <2>5, <2>6, <2>7, <2>8, <2>9 DEF TypeInv
<1>3. ShapeInv
  <2>1. Len(<<>>) = 0 /\ Where = "form"
    BY DEF Where
  <2> QED BY <2>1, Sizes DEF ShapeInv
<1>4. CustodyInv
  <2>1. ToSet(jobs) = {} /\ ToSet(forming) = {} /\ Injective(jobs) /\ Alike(forming)
    BY NoneSet DEF Alike
  <2>2. Aside = {} /\ HandJobs = {} /\ QueueJobs = {} /\ DOMAIN queue = {}
    BY NoneSet DEF Aside, HandJobs, QueueJobs
  <2>3. sent = 1 .. 0 /\ 0 \in 0 .. N
    BY Sizes
  <2>4. Ledger({}, {}, {}, {}, {}, sent, answers, outClosed)
    BY DEF Ledger, Split, Apart
  <2>5. \E k \in 0 .. N : sent = 1 .. k
    BY <2>3
  <2> QED BY <2>1, <2>2, <2>4, <2>5 DEF CustodyInv
<1>5. BatchesInv
  <2>1. DOMAIN queue = {}
    OBVIOUS
  <2> QED BY <2>1 DEF BatchesInv
<1>6. TimeInv
  BY DEF TimeInv
<1> QED BY <1>2, <1>3, <1>4, <1>5, <1>6 DEF IInv

LEMMA Stutters ==
  ASSUME IInv, UNCHANGED vars
  PROVE  IInv'
<1> USE DEF vars, sessionVars, formVars, batchVars, deviceVars, sendVars
<1>1. TypeInv'
  BY DEF IInv, TypeInv
<1>2. Where' = Where /\ HandJobs' = HandJobs /\ QueueJobs' = QueueJobs /\ Aside' = Aside
  BY DEF Where, HandJobs, QueueJobs, Aside
<1>3. ShapeInv'
  BY <1>2 DEF IInv, ShapeInv
<1>4. CustodyInv'
  BY <1>2 DEF IInv, CustodyInv
<1>5. BatchesInv'
  BY SoundIs DEF IInv
<1>6. TimeInv'
  BY <1>2 DEF IInv, TimeInv
<1> QED BY <1>1, <1>3, <1>4, <1>5, <1>6 DEF IInv

(* Types, the place in the loop, the custody of jobs, the batches and      *)
(* their buffers, and the account of GPU time are kept by every step.      *)
THEOREM BatchInduction == Spec => []IInv
<1>1. Init => IInv
  BY Initially
<1>2. IInv /\ [Next]_vars => IInv'
  <2>1. ASSUME IInv, Next PROVE IInv'
    BY <2>1, TypeKept, ControlKept, CustodyKept, BatchesKept, TimeKept DEF IInv, ControlInv
  <2> QED BY <2>1, Stutters
<1> QED BY <1>1, <1>2, PTL DEF Spec

LEMMA BatchesInHand ==
  ASSUME IInv
  PROVE  /\ InHand \subseteq Batches /\ Cardinality(InHand) <= 2
         /\ \A b, c \in InHand : b # c => JobsIn(b) \intersect JobsIn(c) = {}
<1>1. /\ queue \in Seq(Batches) /\ current \in Batches \union {None}
      /\ Len(queue) \in 0 .. 2 /\ (current # None => Len(queue) <= 1)
  <2>1. queue \in Seq(Batches) /\ current \in Batches \union {None}
    BY DEF IInv, TypeInv
  <2>2. pc \in Gathering \union {"send", "loop", "wait", "done"} /\ after \in Gathering \union {"loop", "wait"}
    BY DEF IInv, TypeInv
  <2>3. Where \in Gathering \union {"loop", "wait", "done"} /\ (Where = "done" => pc = "done")
    BY <2>2 DEF Where
  <2>4. queue = <<>> => Len(queue) = 0
    OBVIOUS
  <2>5. Len(queue) \in Nat
    BY <2>1
  <2>6. \/ Len(queue) = 0
        \/ current = None /\ Len(queue) \in 1 .. 2
        \/ Len(queue) <= 1
    BY <2>3, <2>4 DEF IInv, ShapeInv
  <2>7. \A n \in Nat : n = 0 \/ n \in 1 .. 2 \/ n <= 1 => n \in 0 .. 2
    OBVIOUS
  <2>8. Len(queue) \in 0 .. 2
    BY <2>5, <2>6, <2>7, Zenon
  <2>9. current # None => Len(queue) <= 1
    BY <2>5, <2>6
  <2> QED BY <2>1, <2>8, <2>9
<1>2. ToSet(queue) = {queue[i] : i \in 1 .. Len(queue)} /\ ToSet(queue) \subseteq Batches
      /\ DOMAIN queue = 1 .. Len(queue)
  BY QueueAt DEF IInv
<1>3. InHand \subseteq Batches
  BY <1>1, <1>2 DEF InHand
<1>4. \E b, c : InHand \subseteq {b, c}
  <2>1. CASE current # None
    <3>1. \A i \in 1 .. Len(queue) : i = 1
      BY <1>1, <2>1
    <3>2. InHand \subseteq {current, queue[1]}
      BY <1>2, <2>1, <3>1 DEF InHand
    <3> QED BY <3>2
  <2>2. CASE current = None
    <3>0. \A n \in 0 .. 2 : \A i \in 1 .. n : i \in {1, 2}
      OBVIOUS
    <3>1. \A i \in 1 .. Len(queue) : i \in {1, 2}
      BY <1>1, <3>0, Zenon
    <3>2. InHand \subseteq {queue[1], queue[2]}
      BY <1>2, <2>2, <3>1 DEF InHand
    <3> QED BY <3>2
  <2> QED BY <2>1, <2>2
<1>5. Cardinality(InHand) <= 2
  <2>1. PICK b, c : InHand \subseteq {b, c}
    BY <1>4
  <2>2. IsFiniteSet({b}) /\ Cardinality({b}) = 1
    BY FS_Singleton
  <2>3. IsFiniteSet({b} \union {c}) /\ Cardinality({b} \union {c}) <= 2
    <3>1. Cardinality({b} \union {c}) = IF c \in {b} THEN Cardinality({b}) ELSE Cardinality({b}) + 1
      BY <2>2, FS_AddElement
    <3>2. IsFiniteSet({b} \union {c})
      BY <2>2, FS_AddElement
    <3> QED BY <2>2, <3>1, <3>2
  <2>4. InHand \subseteq {b} \union {c}
    BY <2>1
  <2>5. Cardinality(InHand) <= Cardinality({b} \union {c}) /\ Cardinality(InHand) \in Nat
        /\ Cardinality({b} \union {c}) \in Nat
    BY <2>3, <2>4, FS_Subset, FS_CardinalityType
  <2> QED BY <2>3, <2>5
<1>6. ASSUME NEW b \in InHand, NEW c \in InHand, b # c
      PROVE  JobsIn(b) \intersect JobsIn(c) = {}
  <2>1. Apart(HandJobs, QueueJobs)
    BY LedgerIs DEF Split
  <2>2. \A d \in ToSet(queue) : JobsIn(d) \subseteq QueueJobs
    BY DEF QueueJobs
  <2>3. current # None => HandJobs = JobsIn(current)
    BY DEF HandJobs
  <2>4. CASE b \in ToSet(queue) /\ c \in ToSet(queue)
    <3>1. PICK i \in DOMAIN queue, k \in DOMAIN queue : queue[i] = b /\ queue[k] = c
      BY <1>2, <2>4
    <3>2. i # k
      BY <1>6, <3>1
    <3> QED BY <3>1, <3>2 DEF IInv, CustodyInv, Apart
  <2>5. CASE current # None /\ ((b = current /\ c \in ToSet(queue)) \/ (c = current /\ b \in ToSet(queue)))
    BY <2>1, <2>2, <2>3, <2>5 DEF Apart
  <2> QED BY <1>6, <2>4, <2>5 DEF InHand
<1> QED BY <1>3, <1>5, <1>6

LEMMA TypeFollows ==
  ASSUME IInv
  PROVE  TypeOK
<1>1. TypeInv /\ Len(forming) <= TgBudget
  BY DEF IInv, ShapeInv
<1>2. {inputOpen, outClosed, throttle} \subseteq BOOLEAN
  <2>1. inputOpen \in BOOLEAN /\ outClosed \in BOOLEAN /\ throttle \in BOOLEAN
    BY <1>1 DEF TypeInv
  <2> QED BY <2>1, Zenon
<1>3. {sent, ran, reported} \subseteq SUBSET Jobs
  BY <1>1 DEF TypeInv
<1>4. {pc, after} \subseteq {"form", "paused", "gated", "seed", "fill", "sift", "encode",
                             "send", "loop", "wait", "done"}
  BY <1>1 DEF TypeInv
<1>5. {room, Len(forming)} \subseteq 0 .. TgBudget
  BY <1>1, Sizes DEF TypeInv
<1>6. answers \in [Jobs -> Seq(Outcomes)]
  <2>1. \A o \in Outcomes : <<o>> \in Seq(Outcomes)
    OBVIOUS
  <2>2. <<>> \in Seq(Outcomes)
    OBVIOUS
  <2> DEFINE T == {<<>>} \union {<<o>> : o \in Outcomes}
  <2>3. T \subseteq Seq(Outcomes)
    BY <2>1, <2>2
  <2>4. answers \in [Jobs -> T]
    BY <1>1 DEF TypeInv
  <2> HIDE DEF T
  <2> QED BY <2>3, <2>4
<1>7. /\ jobs \in Seq(Jobs) /\ Len(jobs) <= JobCap /\ outLen \in 0 .. OutCap /\ events \in 0 .. MaxEvents
      /\ gone \subseteq Marks /\ mode \in {"blocking", "overlap"} /\ forming \in Seq(Jobs)
      /\ pending \in Jobs \union {None} /\ unsent \in Nat /\ free \subseteq Buffers
      /\ Cardinality(free) <= PoolCap
  BY <1>1 DEF TypeInv
<1> QED BY <1>2, <1>3, <1>4, <1>5, <1>6, <1>7, BatchesInHand DEF TypeOK

LEMMA CustodyFollows ==
  ASSUME IInv
  PROVE  JobsKept
<1>1. \A b, c \in InHand : b # c => ToSet(b.jobs) \intersect ToSet(c.jobs) = {}
  BY BatchesInHand DEF JobsIn
<1>2. ASSUME NEW j \in sent
      PROVE  Cardinality(Owners(j)) <= 1 /\ (~outClosed => Owners(j) # {})
  <2> DEFINE A == ToSet(jobs)  C == ToSet(forming)  G == HandJobs \union QueueJobs
  <2>1. (\E b \in InHand : j \in ToSet(b.jobs)) <=> j \in G
    BY DEF InHand, HandJobs, QueueJobs, JobsIn
  <2>2. pending = j <=> j \in Aside
    <3>1. j # None
      BY NotNone DEF IInv, TypeInv
    <3> QED BY <3>1 DEF Aside
  <2>3. /\ \A o \in Owners(j) : o \in {"channel", "aside", "forming", "batch", "session"}
        /\ "channel" \in Owners(j) <=> j \in A
        /\ "aside" \in Owners(j) <=> j \in Aside
        /\ "forming" \in Owners(j) <=> j \in C
        /\ "batch" \in Owners(j) <=> j \in G
        /\ "session" \in Owners(j) <=> answers[j] # <<>>
    BY <2>1, <2>2 DEF Owners
  <2>4. /\ Split(A, Aside, C, HandJobs, QueueJobs)
        /\ \A k \in A \union Aside \union C \union G : answers[k] = <<>>
        /\ outClosed \/ j \in A \union Aside \union C \union G \/ answers[j] # <<>>
    BY LedgerIs DEF TheLedger, Ledger
  <2> HIDE DEF A, C, G
  <2>5. \A o, p \in Owners(j) : o = p
    BY <2>3, <2>4 DEF Split, Apart, G
  <2>6. ~outClosed => Owners(j) # {}
    BY <2>3, <2>4
  <2>7. Cardinality(Owners(j)) <= 1
    <3>1. CASE Owners(j) = {}
      BY <3>1, FS_EmptySet
    <3>2. CASE Owners(j) # {}
      <4>1. PICK o \in Owners(j) : TRUE
        BY <3>2
      <4>2. Owners(j) = {o}
        BY <2>5, <4>1
      <4> QED BY <4>2, FS_Singleton
    <3> QED BY <3>1, <3>2
  <2> QED BY <2>6, <2>7
<1> QED BY <1>1, <1>2 DEF JobsKept

LEMMA CreditFollows ==
  ASSUME IInv
  PROVE  HoldsNoCredit
<1> SUFFICES ASSUME pc = "seed", mode = "blocking"
             PROVE  InHand = {} /\ forming = <<>>
  BY DEF HoldsNoCredit
<1>1. current = None /\ queue = <<>> /\ forming = <<>>
  BY DEF IInv, ShapeInv, Where
<1> QED BY <1>1, NoneSet DEF InHand

(* Each job handed over is in one hand, at most two batches of bounded     *)
(* size share no job, and no batch is in hand while the stream waits for a *)
(* seed.                                                                   *)
THEOREM BatchCorrect == Spec => []BatchInv
<1>1. IInv => BatchInv
  BY TypeFollows, CustodyFollows, CreditFollows DEF BatchInv
<1> QED BY <1>1, BatchInduction, PTL

(* When the stream returns, the GPU works for none of its batches, and all *)
(* its GPU time was reported.                                              *)
THEOREM BatchIdle == Spec => []IdleAtEnd
<1>1. IInv => IdleAtEnd
  <2> SUFFICES ASSUME IInv, pc = "done"
               PROVE  ran = reported /\ \A b \in InHand : ~Running(b)
    BY DEF IdleAtEnd
  <2>1. ran = reported
    BY DEF IInv, TypeInv, TimeInv
  <2>2. current = None /\ \A i \in DOMAIN queue : ~Running(queue[i])
    BY DEF IInv, ShapeInv
  <2> QED BY <2>1, <2>2, QueueAt DEF InHand, IInv
<1> QED BY <1>1, BatchInduction, PTL

(* A batch that is harvested went through every rung of the schedule.      *)
LEMMA Harvested ==
  ASSUME IInv, Finish, "reads" \in Verdicts(current), NEW p \in DOMAIN current.jobs
  PROVE  Reads(current, p) =
           [job |-> current.jobs[p], key |-> KeyOf[current.jobs[p]], rungs |-> Betas,
            count |-> AskedReads(ReadsOf[current.jobs[p]])]
<1> DEFINE b == current
           n == Len(b.cmds)
           j == b.jobs[p]
           first == b.jobs[1]
<1>1. /\ b \in Batches /\ b # None /\ ~Running(b) /\ ~CanCommit(b) /\ pc # "done"
  BY WaitIs DEF Finish
<1>2. MadeOf(b) /\ InPlan(b) /\ Holds(b, memory[b.buf])
  BY <1>1 DEF IInv, BatchesInv, BatchOk
<1>3. /\ b.jobs \in Seq(Jobs) /\ b.cmds \in Seq(Statuses) /\ n \in Nat /\ b.limit \in 1 .. Betas
      /\ Chunks(b.limit, Betas) \in Nat
  BY <1>1, BatchTyped, ChunksTyped
<1>4. ~Failed(b) /\ ~AnyCancelled(b)
  BY DEF Verdicts, Harvests
<1>5. n = Chunks(b.limit, Betas)
  BY <1>1, <1>2, <1>3, <1>4 DEF CanCommit, InPlan
<1>6. Done(b) = n
  BY <1>3, <1>4 DEF Done, Failed, Last
<1>7. n > 0 /\ Betas <= n * b.limit /\ n * b.limit \in Nat
  <2>1. Betas <= b.limit * n /\ Betas \in Nat \ {0} /\ b.limit \in Nat
    BY <1>3, <1>5, ChunksTyped, Sizes
  <2>2. b.limit * 0 = 0 /\ b.limit * n = n * b.limit /\ n * b.limit \in Nat
    BY <1>3, <2>1
  <2>3. n # 0
    BY <2>1, <2>2
  <2> QED BY <1>3, <2>1, <2>2, <2>3
<1>8. Min({Done(b) * b.limit, Betas}) = Betas
  BY <1>6, <1>7, MinPair, Sizes
<1>9. p \in 1 .. Len(b.jobs) /\ j \in Jobs /\ first \in Jobs /\ 1 \in DOMAIN b.jobs
  BY <1>3
<1>10. j \in ToSet(b.jobs) /\ first \in ToSet(b.jobs)
  BY <1>9 DEF ToSet
<1>11. memory[b.buf][p] = [job |-> j, key |-> b.key, rungs |-> Betas]
  <2>1. Done(b) > 0
    BY <1>6, <1>7
  <2> QED BY <1>2, <1>8, <1>9, <2>1 DEF Holds
<1>12. b.key = KeyOf[j] /\ AskedReads(ReadsOf[j]) = AskedReads(ReadsOf[first])
  BY <1>2, <1>10 DEF MadeOf, Alike, SameKey
<1>13. Min({Max({ReadsOf[j], 1}), RoundedReads(ReadsOf[first])}) = AskedReads(ReadsOf[j])
  <2>1. ReadsOf[j] \in Nat /\ ReadsOf[first] \in Nat
    BY <1>9, BatchAssumption
  <2> QED BY <1>12, <2>1, ReadsCut
<1> QED BY <1>11, <1>12, <1>13 DEF Reads

(* A step that fixes results other than reads of a batch.                  *)
LEMMA FewReads ==
  ASSUME IInv, Next, ~Finish, NEW j \in Jobs, NodesOf[KeyOf[j]] > 0, "reads" \in ToSet(answers'[j])
  PROVE  "reads" \in ToSet(answers[j])
<1>1. ASSUME NEW js, NEW o \in Outcomes, Fix(js, o), o = "reads" => j \notin ToSet(js)
      PROVE  "reads" \in ToSet(answers[j])
  <2>1. answers'[j] = IF j \in ToSet(js) THEN Append(answers[j], o) ELSE answers[j]
    BY <1>1 DEF Fix
  <2>2. CASE j \in ToSet(js)
    <3>1. answers[j] \in Seq(Outcomes)
      BY TypeFollows DEF TypeOK
    <3>2. ToSet(answers'[j]) = ToSet(answers[j]) \union {o} /\ o # "reads"
      BY <1>1, <2>1, <2>2, <3>1, AppendSet
    <3> QED BY <3>2
  <2>3. CASE j \notin ToSet(js)
    BY <2>1, <2>3
  <2> QED BY <2>2, <2>3
<1>2. ASSUME NEW k \in Jobs, NEW next, Emit(<<k>>, Turned(k), next), Turned(k) # None
      PROVE  "reads" \in ToSet(answers[j])
  <2>1. ToSet(<<k>>) = {k} /\ Turned(k) \in Outcomes /\ Fix(<<k>>, Turned(k))
    BY <1>2, OneSet DEF Emit, Turned, Outcomes
  <2>2. NodesOf[KeyOf[k]] \in Nat
    BY BatchAssumption DEF Keys
  <2>3. Turned(k) = "reads" => k # j
    <3>1. Turned(k) = "reads" => NodesOf[KeyOf[k]] = 0
      BY <1>2 DEF Turned
    <3> QED BY <2>2, <3>1
  <2> QED BY <1>1, <2>1, <2>3
<1>3. CASE SeedPending
  <2>1. pending \in Jobs
    BY <1>3 DEF SeedPending, IInv, TypeInv
  <2>2. (Emit(<<pending>>, Turned(pending), "seed") /\ Turned(pending) # None) \/ answers' = answers
    BY <1>3, <2>1, SeedIs DEF SeedPending, Quiet, IInv, TypeInv
  <2> QED BY <1>2, <2>1, <2>2
<1>4. CASE SeedJob \/ Fill
  <2>1. PICK k : k = Head(jobs)
    OBVIOUS
  <2>2. k \in Jobs
    BY <1>4, <2>1, TailSet DEF SeedJob, Fill, IInv, TypeInv
  <2>3. \/ \E next : Emit(<<k>>, Turned(k), next) /\ Turned(k) # None
        \/ answers' = answers
    <3>1. CASE SeedJob
      BY <2>1, <2>2, <3>1, SeedIs DEF SeedJob, Quiet, IInv, TypeInv
    <3>2. CASE Fill
      BY <2>1, <3>2 DEF Fill, Quiet
    <3> QED BY <1>4, <3>1, <3>2
  <2> QED BY <1>2, <2>2, <2>3
<1>5. CASE Sift
  <2>1. \/ \E js, next : Emit(js, "cancelled", next)
        \/ answers' = answers
    BY <1>5 DEF Sift, Quiet
  <2> QED BY <1>1, <2>1 DEF Emit, Outcomes
<1>6. CASE EncodeFails
  BY <1>1, <1>6 DEF EncodeFails, Emit, Outcomes
<1>7. CASE ~(SeedPending \/ SeedJob \/ Fill \/ Sift \/ EncodeFails \/ Finish)
  <2>1. answers' = answers
    BY <1>7 DEF Next, Host, SendResult, FormGivesUp, Form, Resume, Gated, NoSeed, Filled, Encode,
       Loop, GiveUp, NextChunk, Gpu, Retires, Session, SendJob, CloseInput, Cancel, ReadResult, CloseOut,
       Govern, Finished, Quiet, HostStays, vars, sendVars
  <2> QED BY <2>1
<1> QED BY <1>3, <1>4, <1>5, <1>6, <1>7

LEMMA FinishReads ==
  ASSUME IInv, Finish, ReadsAnnealed
  PROVE  ReadsAnnealed'
<1> DEFINE good(j) == [job |-> j, key |-> KeyOf[j], rungs |-> Betas, count |-> AskedReads(ReadsOf[j])]
<1> SUFFICES ASSUME NEW j \in Jobs, NodesOf[KeyOf[j]] > 0, "reads" \in ToSet(answers'[j])
             PROVE  read'[j] = good(j)
  BY DEF ReadsAnnealed
<1>1. PICK o \in Verdicts(current) :
        /\ Emit(current.jobs, o, IF queue = <<>> THEN "form" ELSE "loop")
        /\ read' = [k \in Jobs |->
             IF o = "reads" /\ k \in ToSet(current.jobs)
             THEN Reads(current, CHOOSE p \in DOMAIN current.jobs : current.jobs[p] = k)
             ELSE read[k]]
  BY DEF Finish
<1>2. o \in Outcomes /\ answers'[j] = IF j \in ToSet(current.jobs) THEN Append(answers[j], o) ELSE answers[j]
  BY <1>1 DEF Emit, Fix, Verdicts, Harvests, Outcomes
<1>3. current # None /\ current.jobs \in Seq(Jobs)
  BY WaitIs, BatchTyped
<1>4. CASE j \in ToSet(current.jobs) /\ o = "reads"
  <2> DEFINE q == CHOOSE p \in DOMAIN current.jobs : current.jobs[p] = j
  <2>1. q \in DOMAIN current.jobs /\ current.jobs[q] = j
    BY <1>4 DEF ToSet
  <2>2. read'[j] = Reads(current, q)
    BY <1>1, <1>4
  <2> HIDE DEF q
  <2> QED BY <1>1, <1>4, <2>1, <2>2, Harvested
<1>5. CASE ~(j \in ToSet(current.jobs) /\ o = "reads")
  <2>1. read'[j] = read[j]
    BY <1>1, <1>5
  <2>2. "reads" \in ToSet(answers[j])
    <3>1. CASE j \in ToSet(current.jobs)
      <4>1. answers[j] \in Seq(Outcomes)
        BY TypeFollows DEF TypeOK
      <4>2. ToSet(answers'[j]) = ToSet(answers[j]) \union {o}
        BY <1>2, <3>1, <4>1, AppendSet
      <4> QED BY <1>5, <3>1, <4>2
    <3>2. CASE j \notin ToSet(current.jobs)
      BY <1>2, <3>2
    <3> QED BY <3>1, <3>2
  <2> QED BY <2>1, <2>2 DEF ReadsAnnealed
<1> QED BY <1>4, <1>5

(* The reads of a job come from its own region, annealed on its topology   *)
(* through the whole schedule, and are as many as it asked for.            *)
THEOREM BatchAnneals == Spec => []ReadsAnnealed
<1>1. Init => ReadsAnnealed
  BY NoneSet DEF Init, ReadsAnnealed
<1>2. IInv /\ ReadsAnnealed /\ [Next]_vars => ReadsAnnealed'
  <2>1. ASSUME IInv, ReadsAnnealed, Next, ~Finish PROVE ReadsAnnealed'
    <3>1. read' = read
      BY <2>1, Effects
    <3> QED BY <2>1, <3>1, FewReads DEF ReadsAnnealed
  <2>2. ASSUME ReadsAnnealed, UNCHANGED vars PROVE ReadsAnnealed'
    BY <2>2 DEF ReadsAnnealed, vars, batchVars
  <2> QED BY <2>1, <2>2, FinishReads
<1> QED BY <1>1, <1>2, BatchInduction, PTL DEF Spec

(* Each step of the stream is one its contract allows.                     *)
LEMMA StepPromises ==
  ASSUME IInv, IInv', [Next]_vars
  PROVE  [Contract!Next]_(Contract!vars)
<1> USE DEF Contract!Units
<1> DEFINE gone1 == {j \in Jobs : Cancelled(j)}
           over == pc = "done"
<1>1. CASE UNCHANGED vars
  <2>1. gone1' = gone1
    BY <1>1 DEF vars, sessionVars, Cancelled
  <2> QED BY <1>1, <2>1 DEF Contract!vars, vars, sessionVars
<1>2. ASSUME Next, NEW js, NEW o, Answering(js, o)
      PROVE  Contract!Next
  <2>1. /\ js \in Seq(Jobs) /\ o \in Outcomes /\ Fix(js, o) /\ pc' = "send"
        /\ UNCHANGED <<sent, gone, outClosed>>
        /\ \A j \in ToSet(js) : /\ j \in sent /\ answers[j] = <<>>
                                /\ o = "reads" => ~Cancelled(j)
                                /\ o = "cancelled" => Cancelled(j)
    BY <1>2 DEF Answering
  <2>2. ToSet(js) \subseteq Jobs
    BY <2>1, ToSetOf
  <2>3. ~over /\ ~over'
    <3>1. pc = "done" => pc' = pc
      BY <1>2, DoneStays DEF Gpu, Retires
    <3> QED BY <2>1, <3>1
  <2>4. gone1' = gone1
    BY <2>1 DEF Cancelled
  <2>5. answers' = [j \in Jobs |-> IF j \in ToSet(js) THEN <<o>> ELSE answers[j]]
    <3>1. \A j \in ToSet(js) : Append(answers[j], o) = <<o>>
      BY <2>1, AppendOne
    <3> QED BY <2>1, <3>1 DEF Fix
  <2>6. o \in {"reads", "failed", "cancelled"}
    BY <2>1 DEF Outcomes
  <2>7. Contract!Respond(ToSet(js), o)
    BY <2>1, <2>2, <2>3, <2>4, <2>5, <2>6 DEF Contract!Respond
  <2>8. ToSet(js) \in SUBSET (Jobs \union {}) /\ o \in Contract!Outcomes
    BY <2>2, <2>6 DEF Contract!Outcomes
  <2> QED BY <2>7, <2>8 DEF Contract!Next
<1>3. ASSUME NEW j \in Jobs, SendJob(j)
      PROVE  Contract!Next
  <2>1. j \notin sent /\ sent' = sent \union {j}
    BY <1>3, NextJob
  <2>2. pc # "done" /\ UNCHANGED <<answers, gone, outClosed, pc>>
    BY <1>3 DEF SendJob, HostStays
  <2>3. gone1' = gone1
    BY <2>2 DEF Cancelled
  <2>4. Contract!Accept(j)
    BY <2>1, <2>2, <2>3 DEF Contract!Accept
  <2> QED BY <2>4 DEF Contract!Next
<1>4. ASSUME NEW m \in Marks, Cancel(m)
      PROVE  Contract!Next
  <2>1. gone' = gone \union {m} /\ UNCHANGED <<sent, answers, outClosed, pc>>
    BY <1>4 DEF Cancel, HostStays
  <2> DEFINE more == {j \in Jobs : MarkOf[j] = m}
  <2>2. gone1' = gone1 \union more /\ more \in SUBSET (Jobs \union {})
    BY <2>1 DEF Cancelled
  <2>3. Contract!Abandon(more)
    BY <2>1, <2>2 DEF Contract!Abandon
  <2> QED BY <2>2, <2>3 DEF Contract!Next
<1>5. CASE CloseOut
  <2>1. outClosed' = TRUE /\ UNCHANGED <<sent, answers, gone, pc>>
    BY <1>5 DEF CloseOut, HostStays
  <2>2. gone1' = gone1
    BY <2>1 DEF Cancelled
  <2>3. Contract!Close
    BY <2>1, <2>2 DEF Contract!Close
  <2> QED BY <2>3 DEF Contract!Next
<1>6. ASSUME Next, answers' = answers, UNCHANGED <<sent, gone, outClosed>>
      PROVE  Contract!Next \/ UNCHANGED (Contract!vars)
  <2>1. gone1' = gone1
    BY <1>6 DEF Cancelled
  <2>2. CASE over' = over
    BY <1>6, <2>1, <2>2 DEF Contract!vars
  <2>3. CASE over' # over
    <3>1. ~over /\ over'
      <4>1. pc = "done" => pc' = pc
        BY <1>6, DoneStays DEF Gpu, Retires
      <4> QED BY <2>3, <4>1
    <3>2. outClosed' \/ \A j \in sent' : answers'[j] # <<>>
      <4>1. pc' = "done" => /\ current' = None
                            /\ outClosed' \/ (queue' = <<>> /\ jobs' = <<>> /\ pending' = None)
                            /\ forming' = <<>>
        BY DEF IInv, ShapeInv, Where
      <4>2. TheLedger'
        BY DEF IInv, CustodyInv, TheLedger
      <4>3. CASE queue' = <<>> /\ jobs' = <<>> /\ pending' = None
        <5>1. ToSet(jobs') = {} /\ Aside' = {} /\ ToSet(forming') = {} /\ HandJobs' = {} /\ QueueJobs' = {}
          BY <3>1, <4>1, <4>3, NoneSet DEF Aside, HandJobs, QueueJobs
        <5> QED BY <4>2, <5>1 DEF TheLedger, Ledger
      <4> QED BY <3>1, <4>1, <4>3
    <3>3. Contract!End
      BY <1>6, <2>1, <3>1, <3>2 DEF Contract!End
    <3> QED BY <3>3 DEF Contract!Next
  <2> QED BY <2>2, <2>3
<1>7. CASE Next
  <2>1. \/ \E js, o : Answering(js, o)
        \/ \E j \in Jobs : SendJob(j)
        \/ \E m \in Marks : Cancel(m)
        \/ CloseOut
        \/ answers' = answers /\ UNCHANGED <<sent, gone, outClosed>>
    BY <1>7, AnswerStep, Effects
  <2> HIDE DEF gone1, over
  <2> QED BY <1>2, <1>3, <1>4, <1>5, <1>6, <1>7, <2>1
<1> QED BY <1>1, <1>7

(* A batch stream keeps the contract of a stream.                          *)
THEOREM BatchKeepsContract == Spec => ImplementsContract
<1>1. Init => Contract!Init
  <2> SUFFICES ASSUME Init PROVE Contract!Init
    OBVIOUS
  <2>1. {j \in Jobs : Cancelled(j)} = {}
    BY DEF Init, Cancelled
  <2>2. (pc = "done") = FALSE /\ Jobs \union {} = Jobs
    BY DEF Init
  <2> QED BY <2>1, <2>2 DEF Init, Contract!Init, Contract!Units
<1>2. IInv /\ IInv' /\ [Next]_vars => [Contract!Next]_(Contract!vars)
  BY StepPromises
<1> QED BY <1>1, <1>2, BatchInduction, PTL DEF Spec, ImplementsContract, Contract!Spec
====
