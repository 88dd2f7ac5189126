-------------------------- MODULE ControllerProofs --------------------------
(***************************************************************************)
(* Proofs about the cascade controller, for any units, topologies, rounds, *)
(* targets, settings and number of changes of them.                        *)
(*                                                                         *)
(* UnitsInv says what is true of a unit where it is: it waits once and     *)
(* without a ticket, or runs under a ticket of a plan that exists.  On it  *)
(* rest RoundsInv, for the range of the newest round; AimsInv, for the     *)
(* yield check; and, as long as no Configure message opens the gates,      *)
(* GatesInv, for the agreement of schedules, plans and audits.             *)
(***************************************************************************)
EXTENDS Controller, FiniteSetTheorems, SequenceTheorems, TLAPS

-----------------------------------------------------------------------------
(* The inductive invariants *)

Items == [unit : Units, settings : Configs, sweeps : Nat]

PlanFor(n) ==
  [stages : {s \in Seq(Nat) : Len(s) = n}, gated : BOOLEAN, open : BOOLEAN,
   seen   : [0..n -> Nat],
   kept   : [0..(n - 1) -> SUBSET Units],
   lanes  : [0..(n - 1) -> SUBSET Units]]
PlanSet == UNION {PlanFor(n) : n \in Nat}

PlansInv == plans \in Seq(PlanSet) /\ plan \in DOMAIN plans

(* What the variables hold, beyond TypeOK.                                 *)
ShapeInv ==
  /\ TypeOK /\ PlansInv
  /\ queue \in Seq(Items) /\ roundOf \in [Salts -> 0..MaxRound]
  /\ cut \in [Units -> Seq(Nat)] /\ next \in [Units -> Nat]
  /\ finals \in [Units -> Energies \union {None}]

(* A unit in preparation is there once, and nothing was recorded of it; a  *)
(* unit that runs has a ticket of one of the plans, and has not finished.  *)
UnitsInv ==
  /\ \A i \in DOMAIN queue : at[queue[i].unit] = "queued"
  /\ \A i, j \in DOMAIN queue : queue[i].unit = queue[j].unit => i = j
  /\ \A u \in Units : at[u] \in {"new", "queued"} =>
       next[u] = 0 /\ ticket[u] = None /\ finals[u] = None
  /\ \A u \in Units : at[u] = "live" =>
       ticket[u] \in Tickets /\ ticket[u].plan \in DOMAIN plans /\ finals[u] = None
  /\ StageIsCheckpoint

ControllerInv == ShapeInv /\ UnitsInv

(* Salts wait in the order of their rounds, the newest round admitted is   *)
(* not past any of them, and no ticket is of a round to come.              *)
QueueOrder ==
  /\ \A i \in DOMAIN queue : queue[i].unit \in Salts => round <= roundOf[queue[i].unit]
  /\ \A i, j \in DOMAIN queue : i < j /\ queue[i].unit \in Salts /\ queue[j].unit \in Salts =>
       roundOf[queue[i].unit] <= roundOf[queue[j].unit]
  /\ \A r \in 0..MaxRound : (\A v \in Salts : at[v] # "new" => roundOf[v] <= r) => round <= r

RoundsInv ==
  /\ QueueOrder
  /\ \A u \in Units : ticket[u] # None => ticket[u].round <= round
  /\ \A u \in Units : finals[u] # None => ticket[u] # None

Aims == [target : Targets, yield : {c.yield : c \in Configs}]
Checks == [target : Targets, admitted : SUBSET Units, results : SUBSET Units]

(* The units of the present yield epoch were admitted under the target and *)
(* the rate of the present check.                                          *)
Aimed(u) == aims[u] = [target |-> yieldTarget, yield |-> settings.yield]
AimsInv ==
  /\ aims \in [Units -> Aims \union {None}]
  /\ \A u \in Units : ticket[u] # None =>
       /\ ticket[u].yieldEpoch <= yieldEpoch
       /\ ticket[u].yieldEpoch = yieldEpoch => Aimed(u)
  /\ yieldCheck # None => yieldCheck \in Checks /\ yieldCheck.target = yieldTarget
  /\ YieldOfAim

(* With gates that no settings open, schedules follow plans to their end.  *)
ClosedGates == \A c \in Configs : ~c.open
GatesInv ==
  /\ \A i \in DOMAIN plans : ~plans[i].open
  /\ \A u \in Units : at[u] = "live" =>
       Len(cut[u]) = ticket[u].gates + 1 /\ ticket[u].stage <= ticket[u].gates
  /\ CutByPlan /\ NoPanic

(* A ticket's mark says whether the stage before chose its unit for an     *)
(* audit, and nothing is recorded of stages a unit has not reached.        *)
Marked(u) ==
  IF ticket[u].stage = 0 THEN ~ticket[u].audited
  ELSE ticket[u].audited <=> <<u, ticket[u].stage - 1>> \in audits
MarksInv ==
  /\ \A u \in Units : at[u] = "live" => Marked(u)
  /\ \A u \in Units, k \in Nat : <<u, k>> \in audits =>
       ticket[u] # None /\ k < ticket[u].stage
  /\ \A i \in DOMAIN plans : \A k \in DOMAIN plans[i].kept : \A u \in plans[i].kept[k] :
       ticket[u] # None /\ k < ticket[u].stage
  /\ AuditsSelected

-----------------------------------------------------------------------------
(* Plans *)

(* A plan has one cutoff per stage, and one for the final energies.        *)
LEMMA PlanShape ==
  ASSUME NEW p
  PROVE  /\ p \in PlanSet => p \in PlanFor(Len(p.stages)) /\ Len(p.stages) \in Nat
         /\ \A n \in Nat : p \in PlanFor(n) => p \in PlanSet
<1>1. ASSUME p \in PlanSet PROVE p \in PlanFor(Len(p.stages)) /\ Len(p.stages) \in Nat
  <2>1. PICK n \in Nat : p \in PlanFor(n)
    BY <1>1 DEF PlanSet
  <2>2. Len(p.stages) = n
    BY <2>1 DEF PlanFor
  <2> QED BY <2>1, <2>2
<1> QED BY <1>1 DEF PlanSet

(* A new plan has the stages it is made for, and has learnt nothing.       *)
LEMMA NewPlan ==
  ASSUME NEW c \in Configs, NEW g \in BOOLEAN
  PROVE  LET p == StagePlan(Effective(c, g)) IN
         /\ p \in PlanSet
         /\ p.stages = Effective(c, g).stages /\ p.open = c.open
         /\ \A k \in 0..(Len(p.stages) - 1) : p.kept[k] = {} /\ p.lanes[k] = {}
<1> DEFINE e == Effective(c, g)
           n == Len(e.stages)
           p == StagePlan(e)
<1>1. e.stages \in Seq(Nat) /\ e.gated \in BOOLEAN /\ e.open = c.open /\ e.open \in BOOLEAN
  <2>1. e.gated \in BOOLEAN /\ e.open = c.open /\ e.open \in BOOLEAN
    BY ControllerAssumption DEF Effective, ControllerAssumption
  <2>2. e.stages \in {ChainStages, c.stages}
    BY DEF Effective
  <2>3. ChainStages \in Seq(Nat \ {0}) /\ c.stages \in Seq(Nat \ {0})
    BY ControllerAssumption DEF ControllerAssumption
  <2>4. Seq(Nat \ {0}) \subseteq Seq(Nat)
    BY SeqMonotonic, Nat \ {0} \subseteq Nat
  <2> QED BY <2>1, <2>2, <2>3, <2>4
<1>2. n \in Nat
  BY <1>1
<1>3. p = [stages |-> e.stages, gated |-> e.gated, open |-> e.open,
           seen |-> [k \in 0..n |-> 0], kept |-> [k \in 0..(n - 1) |-> {}],
           lanes |-> [k \in 0..(n - 1) |-> {}]]
  BY DEF StagePlan
<1> HIDE DEF p, e
<1>4. p \in PlanFor(n)
  BY <1>1, <1>2, <1>3 DEF PlanFor
<1> QED BY <1>1, <1>2, <1>3, <1>4, PlanShape DEF p, e

(* What is learnt changes no stage and no shape of a plan.                 *)
LEMMA LearningKeeps ==
  ASSUME NEW p \in PlanSet, NEW k \in Int, NEW u \in Units,
         NEW q, q \in {p, [p EXCEPT !.kept[k] = @ \union {u}],
                       [p EXCEPT !.lanes[k] = @ \union {u}], Observed(p, k)}
  PROVE  q \in PlanSet /\ q.stages = p.stages /\ q.gated = p.gated /\ q.open = p.open
<1> DEFINE n == Len(p.stages)
<1>1. p \in PlanFor(n) /\ n \in Nat
  BY PlanShape
<1> HIDE DEF n
<1>2. p = [stages |-> p.stages, gated |-> p.gated, open |-> p.open, seen |-> p.seen,
           kept |-> p.kept, lanes |-> p.lanes]
  BY <1>1 DEF PlanFor
<1>3. /\ p.stages \in {s \in Seq(Nat) : Len(s) = n} /\ p.gated \in BOOLEAN
      /\ p.open \in BOOLEAN /\ p.seen \in [0..n -> Nat]
      /\ p.kept \in [0..(n - 1) -> SUBSET Units] /\ p.lanes \in [0..(n - 1) -> SUBSET Units]
  BY <1>1 DEF PlanFor
<1>4. CASE q = [p EXCEPT !.kept[k] = @ \union {u}]
  <2> DEFINE f == [p.kept EXCEPT ![k] = @ \union {u}]
  <2>1. f \in [0..(n - 1) -> SUBSET Units]
    BY <1>3
  <2>2. q = [stages |-> p.stages, gated |-> p.gated, open |-> p.open, seen |-> p.seen,
             kept |-> f, lanes |-> p.lanes]
    BY <1>2, <1>4
  <2> HIDE DEF f
  <2>3. q \in PlanFor(n)
    BY <2>1, <2>2, <1>3 DEF PlanFor
  <2> QED BY <2>2, <2>3, <1>1, PlanShape
<1>5. CASE q = [p EXCEPT !.lanes[k] = @ \union {u}]
  <2> DEFINE f == [p.lanes EXCEPT ![k] = @ \union {u}]
  <2>1. f \in [0..(n - 1) -> SUBSET Units]
    BY <1>3
  <2>2. q = [stages |-> p.stages, gated |-> p.gated, open |-> p.open, seen |-> p.seen,
             kept |-> p.kept, lanes |-> f]
    BY <1>2, <1>5
  <2> HIDE DEF f
  <2>3. q \in PlanFor(n)
    BY <2>1, <2>2, <1>3 DEF PlanFor
  <2> QED BY <2>2, <2>3, <1>1, PlanShape
<1>6. CASE q = Observed(p, k)
  <2> DEFINE f == [p.seen EXCEPT ![k] = @ + 1]
  <2>1. f \in [0..n -> Nat]
    <3>1. \A x \in Nat : x + 1 \in Nat
      OBVIOUS
    <3> QED BY <3>1, <1>3
  <2>2. q = [stages |-> p.stages, gated |-> p.gated, open |-> p.open, seen |-> f,
             kept |-> p.kept, lanes |-> p.lanes]
    BY <1>2, <1>6 DEF Observed
  <2> HIDE DEF f
  <2>3. q \in PlanFor(n)
    BY <2>1, <2>2, <1>3 DEF PlanFor
  <2> QED BY <2>2, <2>3, <1>1, PlanShape
<1> QED BY <1>4, <1>5, <1>6

(* What a transition teaches a plan leaves its shape alone.                *)
LEMMA TransitionKeeps ==
  ASSUME NEW p \in PlanSet, NEW t \in Tickets, NEW u \in Units
  PROVE  LET q == ObserveTransition(p, t, u) IN
         q \in PlanSet /\ q.stages = p.stages /\ q.gated = p.gated /\ q.open = p.open
<1> DEFINE k == t.stage - 1
           q == ObserveTransition(p, t, u)
<1>1. k \in Int
  BY DEF Tickets
<1>2. q \in {p, [p EXCEPT !.kept[k] = @ \union {u}], [p EXCEPT !.lanes[k] = @ \union {u}]}
  BY DEF ObserveTransition
<1> HIDE DEF k, q
<1>3. q \in PlanSet /\ q.stages = p.stages /\ q.gated = p.gated /\ q.open = p.open
  BY <1>1, <1>2, LearningKeeps
<1> QED BY <1>3 DEF q

(* The end of a unit teaches its plan without changing its shape.          *)
LEMMA EndKeeps ==
  ASSUME NEW p \in PlanSet, NEW t \in Tickets, NEW u \in Units, NEW k \in Int
  PROVE  LET q == Observed(ObserveTransition(p, t, u), k) IN
         q \in PlanSet /\ q.stages = p.stages /\ q.gated = p.gated /\ q.open = p.open
<1> DEFINE r == ObserveTransition(p, t, u)
           q == Observed(r, k)
<1>1. r \in PlanSet /\ r.stages = p.stages /\ r.gated = p.gated /\ r.open = p.open
  BY TransitionKeeps
<1> HIDE DEF r
<1>2. q \in PlanSet /\ q.stages = r.stages /\ q.gated = r.gated /\ q.open = r.open
  BY <1>1, LearningKeeps
<1> HIDE DEF q
<1>3. q \in PlanSet /\ q.stages = p.stages /\ q.gated = p.gated /\ q.open = p.open
  BY <1>1, <1>2
<1> QED BY <1>3 DEF q, r

(* Every plan stays what it was: only what it has learnt changes.          *)
PlansStay ==
  /\ Len(plans) <= Len(plans')
  /\ \A i \in DOMAIN plans : i \in DOMAIN plans' /\ plans'[i].stages = plans[i].stages
PlansKeep == PlansInv' /\ PlansStay

LEMMA PlanAdded ==
  ASSUME PlansInv, NEW p \in PlanSet, plans' = Append(plans, p), plan' = Len(plans) + 1
  PROVE  /\ PlansKeep
         /\ DOMAIN plans' = 1..(Len(plans) + 1) /\ plans'[plan'] = p
         /\ \A i \in DOMAIN plans : plans'[i] = plans[i]
<1>1. plans \in Seq(PlanSet) /\ DOMAIN plans = 1..Len(plans) /\ Len(plans) \in Nat
  BY LenProperties DEF PlansInv
<1>2. /\ plans' \in Seq(PlanSet) /\ Len(plans') = Len(plans) + 1
      /\ \A i \in 1..Len(plans) : plans'[i] = plans[i]
      /\ plans'[Len(plans) + 1] = p
  BY <1>1, AppendProperties
<1>3. DOMAIN plans' = 1..(Len(plans) + 1)
  BY <1>2, LenProperties
<1> QED BY <1>1, <1>2, <1>3 DEF PlansKeep, PlansStay, PlansInv

LEMMA PlanChanged ==
  ASSUME PlansInv, NEW i \in DOMAIN plans, NEW q \in PlanSet,
         q.stages = plans[i].stages, plans' = [plans EXCEPT ![i] = q], plan' = plan
  PROVE  /\ PlansKeep
         /\ DOMAIN plans' = DOMAIN plans /\ plans'[i] = q
         /\ \A j \in DOMAIN plans \ {i} : plans'[j] = plans[j]
<1>1. plans \in Seq(PlanSet) /\ DOMAIN plans = 1..Len(plans) /\ Len(plans) \in Nat
  BY LenProperties DEF PlansInv
<1>2. plans' \in Seq(PlanSet) /\ Len(plans') = Len(plans)
  BY <1>1, ExceptSeq
<1>3. DOMAIN plans' = DOMAIN plans /\ plans'[i] = q
      /\ \A j \in DOMAIN plans \ {i} : plans'[j] = plans[j]
  BY <1>1
<1> QED BY <1>1, <1>2, <1>3 DEF PlansKeep, PlansStay, PlansInv

LEMMA PlansAlone ==
  ASSUME PlansInv, plans' = plans, plan' = plan
  PROVE  PlansKeep
<1>1. Len(plans) \in Nat
  BY LenProperties DEF PlansInv
<1> QED BY <1>1 DEF PlansKeep, PlansStay, PlansInv

-----------------------------------------------------------------------------
(* Schedules and the queue of preparation *)

LEMMA BelowBounded ==
  ASSUME NEW stages \in Seq(Nat), NEW sweeps
  PROVE  Below(stages, sweeps) \in 0..Len(stages)
<1> DEFINE S == {k \in DOMAIN stages : \A j \in 1..k : stages[j] < sweeps}
<1>1. DOMAIN stages = 1..Len(stages) /\ Len(stages) \in Nat
  BY LenProperties
<1>2. IsFiniteSet(1..Len(stages)) /\ Cardinality(1..Len(stages)) = Len(stages)
  <2>1. 1 \in Int /\ Len(stages) \in Int
    BY <1>1
  <2>2. IsFiniteSet(1..Len(stages))
        /\ Cardinality(1..Len(stages)) = IF 1 > Len(stages) THEN 0 ELSE Len(stages) - 1 + 1
    BY <2>1, FS_Interval
  <2> QED BY <1>1, <2>2
<1>3. S \in SUBSET (1..Len(stages))
  BY <1>1
<1> HIDE DEF S
<1>4. IsFiniteSet(S) /\ Cardinality(S) <= Len(stages)
  BY <1>2, <1>3, FS_Subset
<1>5. Cardinality(S) \in Nat
  BY <1>4, FS_CardinalityType
<1> QED BY <1>1, <1>4, <1>5 DEF S, Below

(* A schedule is a prefix of the stages of a salt, and the budget.         *)
LEMMA ScheduleShape ==
  ASSUME NEW c \in Configs, NEW u \in Units, NEW sweeps \in Nat
  PROVE  LET s      == Checkpoints(c, u, sweeps)
             stages == Effective(c, Gated(u)).stages
         IN /\ s \in Seq(Nat) /\ Len(s) \in Nat \ {0}
            /\ Len(s) > 1 => Len(s) - 1 <= Len(stages)
            /\ Len(s) > 1 => \A k \in 1..(Len(s) - 1) : s[k] = stages[k]
<1> DEFINE s == Checkpoints(c, u, sweeps)
           stages == Effective(c, Gated(u)).stages
           given == IF u \in Salts THEN stages ELSE <<>>
           n == Below(given, sweeps)
           prefix == SubSeq(given, 1, n)
<1>1. stages \in Seq(Nat)
  <2>1. stages \in {ChainStages, c.stages}
    BY DEF Effective
  <2>2. ChainStages \in Seq(Nat \ {0}) /\ c.stages \in Seq(Nat \ {0})
    BY ControllerAssumption DEF ControllerAssumption
  <2> HIDE DEF stages
  <2> QED BY <2>1, <2>2, SeqMonotonic, Nat \ {0} \subseteq Nat
<1> HIDE DEF stages
<1>2. given \in Seq(Nat) /\ Len(given) \in Nat /\ (Len(given) > 0 => given = stages)
  <2>1. <<>> \in Seq(Nat) /\ Len(<<>>) = 0
    BY EmptySeq
  <2> QED BY <1>1, <2>1, LenProperties
<1>3. n \in 0..Len(given)
  BY <1>2, BelowBounded
<1>4. s = Append(prefix, sweeps)
  BY DEF Checkpoints, stages
<1> HIDE DEF given, n, s
<1>5. prefix \in Seq(Nat) /\ Len(prefix) = n /\ \A k \in 1..n : prefix[k] = given[k]
  <2>1. n \in Int /\ 1 \in Int /\ \A k \in 1..n : given[k] \in Nat
    BY <1>2, <1>3, ElementOfSeq
  <2>2. /\ prefix \in Seq(Nat) /\ Len(prefix) = IF 1 <= n THEN n - 1 + 1 ELSE 0
        /\ \A k \in 1..(n - 1 + 1) : prefix[k] = given[1 + k - 1]
    BY <2>1, SubSeqProperties
  <2> QED BY <1>2, <1>3, <2>2
<1> HIDE DEF prefix
<1>6. /\ s \in Seq(Nat) /\ Len(s) = n + 1
      /\ \A k \in 1..n : s[k] = prefix[k]
  BY <1>4, <1>5, AppendProperties
<1>7. Len(s) \in Nat \ {0} /\ (Len(s) > 1 => Len(given) > 0 /\ Len(s) - 1 <= Len(given))
  BY <1>2, <1>3, <1>6
<1>8. ASSUME Len(s) > 1 PROVE \A k \in 1..(Len(s) - 1) : s[k] = given[k]
  <2>1. Len(s) - 1 = n
    BY <1>3, <1>6
  <2> QED BY <2>1, <1>5, <1>6
<1>9. Len(s) > 1 => given = stages
  BY <1>2, <1>7
<1> QED BY <1>6, <1>7, <1>8, <1>9 DEF s, stages

(* The unit at the head of the queue, and what it leaves behind.           *)
LEMMA HeadTaken ==
  ASSUME ShapeInv, UnitsInv, queue # <<>>
  PROVE  /\ Head(queue) \in Items /\ 1 \in DOMAIN queue /\ Head(queue) = queue[1]
         /\ at[Head(queue).unit] = "queued" /\ Head(queue).unit \in Units
         /\ next[Head(queue).unit] = 0 /\ ticket[Head(queue).unit] = None
         /\ finals[Head(queue).unit] = None
         /\ Tail(queue) \in Seq(Items) /\ Len(Tail(queue)) <= Len(queue)
         /\ \A i \in DOMAIN Tail(queue) :
              /\ i + 1 \in DOMAIN queue /\ Tail(queue)[i] = queue[i + 1]
              /\ Tail(queue)[i].unit # Head(queue).unit
<1>1. queue \in Seq(Items) /\ DOMAIN queue = 1..Len(queue) /\ Len(queue) \in Nat \ {0}
  BY LenProperties, EmptySeq DEF ShapeInv
<1>2. /\ Head(queue) \in Items /\ Tail(queue) \in Seq(Items)
      /\ Len(Tail(queue)) = Len(queue) - 1
      /\ \A i \in 1..Len(Tail(queue)) : Tail(queue)[i] = queue[i + 1]
  BY <1>1, HeadTailProperties
<1>3. Head(queue) = queue[1] /\ 1 \in DOMAIN queue
  BY <1>1
<1>4. Head(queue).unit \in Units
  BY <1>2 DEF Items
<1>5. at[Head(queue).unit] = "queued"
  BY <1>3 DEF UnitsInv
<1>6. ASSUME NEW i \in DOMAIN Tail(queue)
      PROVE  /\ i + 1 \in DOMAIN queue /\ Tail(queue)[i] = queue[i + 1]
             /\ Tail(queue)[i].unit # Head(queue).unit
  <2>1. i \in 1..(Len(queue) - 1)
    BY <1>2, LenProperties
  <2>2. i + 1 \in DOMAIN queue /\ Tail(queue)[i] = queue[i + 1] /\ i + 1 # 1
    BY <2>1, <1>1, <1>2
  <2> QED BY <2>2, <1>3 DEF UnitsInv
<1>7. Len(Tail(queue)) <= Len(queue)
  BY <1>1, <1>2
<1> QED BY <1>2, <1>3, <1>4, <1>5, <1>6, <1>7 DEF UnitsInv

-----------------------------------------------------------------------------
(* Admission *)

LEMMA RecutShape ==
  ASSUME ShapeInv, NEW item \in Items
  PROVE  Recut(item) \in Seq(Nat) /\ Len(Recut(item)) \in Nat \ {0}
<1> DEFINE c == IF item.settings.stages # settings.stages THEN settings ELSE item.settings
<1>1. c \in Configs /\ item.unit \in Units /\ item.sweeps \in Nat
  BY DEF ShapeInv, TypeOK, Items
<1>2. Recut(item) = Checkpoints(c, item.unit, item.sweeps)
  BY DEF Recut
<1> HIDE DEF c
<1> QED BY <1>1, <1>2, ScheduleShape

LEMMA PlanUsed ==
  ASSUME ShapeInv, NEW u \in Units, NEW s, UsePlan(u, s)
  PROVE  PlansKeep /\ epoch' \in Nat /\ epoch <= epoch'
<1>0. PlansInv /\ epoch \in Nat /\ settings \in Configs
  BY DEF ShapeInv, TypeOK
<1> DEFINE wanted == Effective(settings, Gated(u))
<1>1. CASE UNCHANGED <<plans, plan, topology, epoch>>
  BY <1>0, <1>1, PlansAlone
<1>2. CASE /\ plans' = Append(plans, StagePlan(wanted)) /\ plan' = Len(plans) + 1
           /\ epoch' \in {epoch, epoch + 1}
  <2>1. Gated(u) \in BOOLEAN
    BY DEF Gated
  <2>2. StagePlan(wanted) \in PlanSet
    BY <1>0, <2>1, NewPlan
  <2> HIDE DEF wanted
  <2>3. PlansKeep
    BY <1>0, <1>2, <2>2, PlanAdded
  <2> QED BY <1>0, <1>2, <2>3
<1> QED BY <1>1, <1>2 DEF UsePlan

LEMMA RoundEntered ==
  ASSUME ShapeInv, NEW u \in Units, EnterRound(u)
  PROVE  round' \in 0..MaxRound /\ round <= round'
<1>1. round \in 0..MaxRound /\ roundOf \in [Salts -> 0..MaxRound] /\ MaxRound \in Nat
  BY ControllerAssumption DEF ShapeInv, TypeOK, ControllerAssumption
<1> QED BY <1>1 DEF EnterRound, roundVars

LEMMA YieldAimed ==
  ASSUME ShapeInv, NEW u \in Units, NEW target \in Targets, NEW counted, 
         AimYield(u, target, counted)
  PROVE  yieldEpoch' \in Nat /\ yieldEpoch <= yieldEpoch' /\ yieldTarget' \in Targets
<1>1. yieldEpoch \in Nat /\ yieldTarget \in Targets
  BY DEF ShapeInv, TypeOK
<1> QED BY <1>1 DEF AimYield

(* A unit that is admitted gets a schedule and a ticket of the present.    *)
LEMMA Admitted ==
  ASSUME ShapeInv, UnitsInv, Admit
  PROVE  LET u == Head(queue).unit IN
         /\ u \in Units /\ PlansKeep
         /\ epoch' \in Nat /\ epoch <= epoch'
         /\ round' \in 0..MaxRound /\ round <= round'
         /\ yieldEpoch' \in Nat /\ yieldEpoch <= yieldEpoch' /\ yieldTarget' \in Targets
         /\ cut' \in [Units -> Seq(Nat)]
         /\ cut'[u] = Recut(Head(queue)) /\ Len(cut'[u]) \in Nat \ {0}
         /\ UsePlan(u, cut'[u])
         /\ ticket' \in [Units -> Tickets \union {None}] /\ ticket'[u] \in Tickets
         /\ ticket'[u].plan \in DOMAIN plans'
         /\ ticket'[u] = [gates |-> Len(cut'[u]) - 1, stage |-> 0, audited |-> FALSE,
                          epoch |-> epoch', yieldEpoch |-> yieldEpoch', round |-> round',
                          plan |-> plan', sweeps |-> Head(queue).sweeps]
         /\ \A v \in Units \ {u} : ticket'[v] = ticket[v] /\ cut'[v] = cut[v] /\ at'[v] = at[v]
         /\ at'[u] \in {"live", "done"} /\ at' \in [Units -> {"new", "queued", "live", "done"}]
         /\ queue' = Tail(queue)
<1> DEFINE u == Head(queue).unit
           tk == [gates |-> Len(cut'[u]) - 1, stage |-> 0, audited |-> FALSE,
                  epoch |-> epoch', yieldEpoch |-> yieldEpoch', round |-> round',
                  plan |-> plan', sweeps |-> Head(queue).sweeps]
<1>1. Head(queue) \in Items /\ u \in Units /\ queue' = Tail(queue)
  BY HeadTaken DEF Admit
<1>2. /\ EnterRound(u) /\ UsePlan(u, cut'[u]) /\ \E target \in Targets : AimYield(u, target, TRUE)
      /\ cut' = [cut EXCEPT ![u] = Recut(Head(queue))]
      /\ ticket' = [ticket EXCEPT ![u] = tk]
      /\ \E place \in {"live", "done"} : at' = [at EXCEPT ![u] = place]
  BY DEF Admit
<1>3. /\ at \in [Units -> {"new", "queued", "live", "done"}] /\ cut \in [Units -> Seq(Nat)]
      /\ ticket \in [Units -> Tickets \union {None}]
  BY DEF ShapeInv, TypeOK
<1>4. Head(queue).sweeps \in Nat
  BY <1>1 DEF Items
<1> HIDE DEF u, tk
<1>5. PlansKeep /\ epoch' \in Nat /\ epoch <= epoch'
  BY <1>1, <1>2, PlanUsed
<1>6. round' \in 0..MaxRound /\ round <= round'
  BY <1>1, <1>2, RoundEntered
<1>7. yieldEpoch' \in Nat /\ yieldEpoch <= yieldEpoch' /\ yieldTarget' \in Targets
  BY <1>1, <1>2, YieldAimed
<1>8. /\ cut' \in [Units -> Seq(Nat)]
      /\ cut'[u] = Recut(Head(queue)) /\ Len(cut'[u]) \in Nat \ {0}
  BY <1>1, <1>2, <1>3, RecutShape
<1>9. plan' \in DOMAIN plans' /\ plan' \in Nat
  <2>1. plan' \in DOMAIN plans' /\ plans' \in Seq(PlanSet)
    BY <1>5 DEF PlansKeep, PlansInv
  <2>2. DOMAIN plans' = 1..Len(plans') /\ Len(plans') \in Nat
    BY <2>1, LenProperties
  <2> QED BY <2>1, <2>2
<1>10. tk \in Tickets
  <2>1. Len(cut'[u]) - 1 \in Nat
    BY <1>8
  <2> QED BY <2>1, <1>4, <1>5, <1>6, <1>7, <1>9 DEF Tickets, tk
<1>11. /\ ticket' \in [Units -> Tickets \union {None}] /\ ticket'[u] = tk
       /\ \A v \in Units \ {u} : ticket'[v] = ticket[v] /\ cut'[v] = cut[v] /\ at'[v] = at[v]
       /\ at'[u] \in {"live", "done"} /\ at' \in [Units -> {"new", "queued", "live", "done"}]
  BY <1>1, <1>2, <1>3, <1>10
<1>12. tk.plan = plan'
  BY DEF tk
<1> QED BY <1>1, <1>2, <1>5, <1>6, <1>7, <1>8, <1>9, <1>10, <1>11, <1>12 DEF u, tk

-----------------------------------------------------------------------------
(* Checkpoints *)

LEMMA VerdictShape ==
  ASSUME NEW p, NEW t \in Tickets, NEW best, NEW target,
         NEW v \in Verdicts(p, t, best, target)
  PROVE  v \in [go : BOOLEAN, audited : BOOLEAN]
<1>1. t.audited \in BOOLEAN
  BY DEF Tickets
<1>2. ASSUME NEW a \in BOOLEAN, NEW b \in BOOLEAN
      PROVE  Verdict(a, b) \in [go : BOOLEAN, audited : BOOLEAN]
  BY DEF Verdict
<1>3. CutoffVerdicts(p, t) \subseteq [go : BOOLEAN, audited : BOOLEAN]
  BY DEF CutoffVerdicts
<1>4. Verdict(best <= ChainGates[t.stage + 1], FALSE) \in [go : BOOLEAN, audited : BOOLEAN]
  <2>1. (best <= ChainGates[t.stage + 1]) \in BOOLEAN
    OBVIOUS
  <2> QED BY <2>1, <1>2
<1>5. \/ v \in {Verdict(FALSE, t.audited), Verdict(TRUE, MarkAtTarget(t)),
                Verdict(TRUE, t.audited), Verdict(best <= ChainGates[t.stage + 1], FALSE)}
      \/ v \in CutoffVerdicts(p, t)
  BY DEF Verdicts
<1> QED BY <1>1, <1>2, <1>3, <1>4, <1>5 DEF MarkAtTarget

(* What a checkpoint does: the plan learns, the ticket counts, and a unit  *)
(* that does not go on is finished.                                        *)
JudgedAs(u, best, target, v, q) ==
  LET t == ticket[u]
      p == PlanOf(u)
      decided == t.epoch = epoch /\ Decides(p, t.stage, best, target)
  IN
  /\ v \in Verdicts(p, t, best, target)
  /\ decided /\ RejectPastEnd(p, t) => v = Verdict(TRUE, FALSE)
  /\ q = IF decided THEN Observed(IF t.epoch = epoch THEN ObserveTransition(p, t, u) ELSE p,
                                  t.stage)
         ELSE IF t.epoch = epoch THEN ObserveTransition(p, t, u) ELSE p
  /\ plans' = [plans EXCEPT ![t.plan] = q]
  /\ ticket' = [ticket EXCEPT ![u].audited = v.audited,
                              ![u].stage = IF v.go THEN t.stage + 1 ELSE t.stage]
  /\ audits' = IF decided /\ v.audited THEN audits \union {<<u, t.stage>>} ELSE audits
  /\ next' = [next EXCEPT ![u] = @ + 1]
  /\ IF v.go THEN UNCHANGED <<at, finals, range, yieldCheck>>
     ELSE Finish(u, best) \/ LeaveUnread(u)

LEMMA JudgedSomehow ==
  ASSUME NEW u \in Units, Judge(u)
  PROVE  \E best \in Energies, target \in Targets : \E v, q : JudgedAs(u, best, target, v, q)
<1>0. None \in Targets
  BY ControllerAssumption DEF ControllerAssumption
<1> DEFINE t == ticket[u]
           p == PlanOf(u)
           o == IF t.epoch = epoch THEN ObserveTransition(p, t, u) ELSE p
           decided(best, target) == t.epoch = epoch /\ Decides(p, t.stage, best, target)
           learnt(best, target) == IF decided(best, target) THEN Observed(o, t.stage) ELSE o
<1>1. PICK best \in Energies, target \in (IF u \in Salts THEN Targets ELSE {None}) :
        \E v \in Verdicts(p, t, best, target) :
           /\ decided(best, target) /\ RejectPastEnd(p, t) => v = Verdict(TRUE, FALSE)
           /\ plans' = [plans EXCEPT ![t.plan] = learnt(best, target)]
           /\ ticket' = [ticket EXCEPT ![u].audited = v.audited,
                                       ![u].stage = NextStage(t, v, best, target)]
           /\ audits' = IF decided(best, target) /\ v.audited
                        THEN audits \union {<<u, t.stage>>} ELSE audits
           /\ next' = [next EXCEPT ![u] = @ + 1]
           /\ IF v.go THEN UNCHANGED <<at, finals, range, yieldCheck>>
              ELSE Finish(u, best) \/ (u \in Salts /\ LeaveUnread(u))
  BY DEF Judge
<1>2. target \in Targets
  BY <1>0
<1> QED BY <1>1, <1>2 DEF JudgedAs, NextStage

LEMMA MarkedTicket ==
  ASSUME NEW t \in Tickets, NEW a, NEW s
  PROVE  [t EXCEPT !.audited = a, !.stage = s] =
           [gates |-> t.gates, stage |-> s, audited |-> a, epoch |-> t.epoch,
            yieldEpoch |-> t.yieldEpoch, round |-> t.round, plan |-> t.plan,
            sweeps |-> t.sweeps]
<1>1. PICK g, x, b, e, y, r, p, w :
        t = [gates |-> g, stage |-> x, audited |-> b, epoch |-> e, yieldEpoch |-> y,
             round |-> r, plan |-> p, sweeps |-> w]
  BY DEF Tickets
<1> DEFINE m == [gates |-> g, stage |-> x, audited |-> a, epoch |-> e, yieldEpoch |-> y,
                 round |-> r, plan |-> p, sweeps |-> w]
<1>2. [t EXCEPT !.audited = a] = m
  BY <1>1
<1>3. [m EXCEPT !.stage = s] =
        [gates |-> g, stage |-> s, audited |-> a, epoch |-> e, yieldEpoch |-> y,
         round |-> r, plan |-> p, sweeps |-> w]
  OBVIOUS
<1>4. [t EXCEPT !.audited = a, !.stage = s] = [[t EXCEPT !.audited = a] EXCEPT !.stage = s]
  OBVIOUS
<1>5. /\ t.gates = g /\ t.epoch = e /\ t.yieldEpoch = y /\ t.round = r /\ t.plan = p
      /\ t.sweeps = w
  BY <1>1
<1> HIDE DEF m
<1> QED BY <1>2, <1>3, <1>4, <1>5

(* A ticket that is marked and counts on.                                  *)
LEMMA TicketCounts ==
  ASSUME ShapeInv, NEW u \in Units, ticket[u] \in Tickets, NEW a \in BOOLEAN, NEW s \in Nat,
         ticket' = [ticket EXCEPT ![u].audited = a, ![u].stage = s]
  PROVE  /\ ticket' \in [Units -> Tickets \union {None}] /\ ticket'[u] \in Tickets
         /\ ticket'[u].audited = a /\ ticket'[u].stage = s
         /\ ticket'[u].gates = ticket[u].gates /\ ticket'[u].epoch = ticket[u].epoch
         /\ ticket'[u].yieldEpoch = ticket[u].yieldEpoch
         /\ ticket'[u].round = ticket[u].round /\ ticket'[u].plan = ticket[u].plan
         /\ \A v \in Units \ {u} : ticket'[v] = ticket[v]
<1> DEFINE t == ticket[u]
           r == [gates |-> t.gates, stage |-> s, audited |-> a, epoch |-> t.epoch,
                 yieldEpoch |-> t.yieldEpoch, round |-> t.round, plan |-> t.plan,
                 sweeps |-> t.sweeps]
<1>1. ticket \in [Units -> Tickets \union {None}]
  BY DEF ShapeInv, TypeOK
<1>2. /\ ticket'[u] = r
      /\ \A v \in Units \ {u} : ticket'[v] = ticket[v]
      /\ ticket' = [ticket EXCEPT ![u] = r]
  <2>1. t = [gates |-> t.gates, stage |-> t.stage, audited |-> t.audited, epoch |-> t.epoch,
             yieldEpoch |-> t.yieldEpoch, round |-> t.round, plan |-> t.plan,
             sweeps |-> t.sweeps]
    BY DEF Tickets
  <2>2. [t EXCEPT !.audited = a, !.stage = s] = r
    BY MarkedTicket
  <2>3. ticket' = [ticket EXCEPT ![u] = [t EXCEPT !.audited = a, !.stage = s]]
    BY <1>1
  <2> HIDE DEF r, t
  <2> QED BY <1>1, <2>2, <2>3
<1>3. r \in Tickets
  BY DEF Tickets
<1> HIDE DEF r
<1>4. ticket' \in [Units -> Tickets \union {None}] /\ ticket'[u] \in Tickets
  BY <1>1, <1>2, <1>3
<1> QED BY <1>2, <1>4 DEF r

(* What the plan of a ticket becomes, and where the unit is.               *)
LEMMA Judged ==
  ASSUME ShapeInv, UnitsInv, NEW u \in Units, Judge(u), 
         NEW best \in Energies, NEW target \in Targets, NEW v, NEW q,
         JudgedAs(u, best, target, v, q)
  PROVE  /\ v \in [go : BOOLEAN, audited : BOOLEAN]
         /\ ticket[u] \in Tickets /\ ticket[u].plan \in DOMAIN plans
         /\ PlanOf(u) \in PlanSet
         /\ q \in PlanSet /\ q.stages = PlanOf(u).stages /\ q.open = PlanOf(u).open
         /\ PlansKeep
         /\ ticket' \in [Units -> Tickets \union {None}] /\ ticket'[u] \in Tickets
         /\ ticket'[u].audited = v.audited
         /\ ticket'[u].stage = IF v.go THEN ticket[u].stage + 1 ELSE ticket[u].stage
         /\ ticket'[u].gates = ticket[u].gates /\ ticket'[u].epoch = ticket[u].epoch
         /\ ticket'[u].yieldEpoch = ticket[u].yieldEpoch
         /\ ticket'[u].round = ticket[u].round /\ ticket'[u].plan = ticket[u].plan
         /\ \A w \in Units \ {u} : ticket'[w] = ticket[w] /\ next'[w] = next[w]
         /\ next' \in [Units -> Nat] /\ next'[u] = next[u] + 1
         /\ v.go => at' = at /\ finals' = finals /\ range' = range /\ yieldCheck' = yieldCheck
         /\ ~v.go => Finish(u, best) \/ LeaveUnread(u)
<1> DEFINE t == ticket[u]
           p == PlanOf(u)
           o == IF t.epoch = epoch THEN ObserveTransition(p, t, u) ELSE p
<1>1. t \in Tickets /\ t.plan \in DOMAIN plans /\ t.stage \in Nat
  <2>1. at[u] = "live"
    BY DEF Judge
  <2> QED BY <2>1 DEF UnitsInv, Tickets
<1>2. PlansInv /\ p \in PlanSet
  <2>1. PlansInv /\ plans \in Seq(PlanSet)
    BY DEF ShapeInv, PlansInv
  <2>2. DOMAIN plans = 1..Len(plans)
    BY <2>1, LenProperties
  <2> QED BY <1>1, <2>1, <2>2, ElementOfSeq DEF PlanOf
<1>3. v \in [go : BOOLEAN, audited : BOOLEAN]
  BY <1>1, VerdictShape DEF JudgedAs
<1>4. q \in PlanSet /\ q.stages = p.stages /\ q.open = p.open
  <2>1. o \in PlanSet /\ o.stages = p.stages /\ o.open = p.open
    BY <1>1, <1>2, TransitionKeeps
  <2>2. q = o \/ q = Observed(o, t.stage)
    BY DEF JudgedAs
  <2> HIDE DEF o, p
  <2>3. t.stage \in Int
    BY <1>1
  <2> HIDE DEF t
  <2> QED BY <2>1, <2>2, <2>3, LearningKeeps
<1>5. plans' = [plans EXCEPT ![t.plan] = q] /\ plan' = plan
  BY DEF JudgedAs, Judge
<1>6. PlansKeep
  <2>1. q.stages = plans[t.plan].stages
    BY <1>4 DEF PlanOf
  <2> HIDE DEF t
  <2> QED BY <1>1, <1>2, <1>4, <1>5, <2>1, PlanChanged
<1>7. next' \in [Units -> Nat] /\ next'[u] = next[u] + 1
      /\ \A w \in Units \ {u} : next'[w] = next[w]
  <2>1. next \in [Units -> Nat] /\ next' = [next EXCEPT ![u] = @ + 1]
    BY DEF ShapeInv, JudgedAs
  <2>2. next[u] + 1 \in Nat
    BY <2>1
  <2> QED BY <2>1, <2>2
<1> DEFINE s == IF v.go THEN t.stage + 1 ELSE t.stage
<1>8. s \in Nat
  BY <1>1
<1>9. ticket' = [ticket EXCEPT ![u].audited = v.audited, ![u].stage = s]
  BY DEF JudgedAs
<1>10. v.audited \in BOOLEAN
  BY <1>3
<1>11. /\ ticket' \in [Units -> Tickets \union {None}] /\ ticket'[u] \in Tickets
       /\ ticket'[u].audited = v.audited /\ ticket'[u].stage = s
       /\ ticket'[u].gates = t.gates /\ ticket'[u].epoch = t.epoch
       /\ ticket'[u].yieldEpoch = t.yieldEpoch
       /\ ticket'[u].round = t.round /\ ticket'[u].plan = t.plan
       /\ \A w \in Units \ {u} : ticket'[w] = ticket[w]
  <2> HIDE DEF s
  <2> QED BY <1>1, <1>8, <1>9, <1>10, TicketCounts, ZenonT(30)
<1>12. /\ v.go => at' = at /\ finals' = finals /\ range' = range /\ yieldCheck' = yieldCheck
       /\ ~v.go => Finish(u, best) \/ LeaveUnread(u)
  BY DEF JudgedAs
<1> QED BY <1>1, <1>2, <1>3, <1>4, <1>6, <1>7, <1>11, <1>12

-----------------------------------------------------------------------------
(* Shapes and units *)

LEMMA PlansSeen ==
  ASSUME NEW ps \in Seq(PlanSet)
  PROVE  \A i \in DOMAIN ps : ps[i].seen \in [0..Len(ps[i].stages) -> Nat]
<1>1. ASSUME NEW i \in DOMAIN ps PROVE ps[i].seen \in [0..Len(ps[i].stages) -> Nat]
  <2>1. ps[i] \in PlanSet
    BY LenProperties, ElementOfSeq
  <2>2. ps[i] \in PlanFor(Len(ps[i].stages))
    BY <2>1, PlanShape
  <2> QED BY <2>2 DEF PlanFor
<1> QED BY <1>1

(* The shape of the next state, from what the actions change.              *)
LEMMA ShapeStep ==
  ASSUME ShapeInv, PlansInv',
         config' \in Configs, settings' \in Configs, configures' \in 0..MaxConfigures,
         epoch' \in Nat, yieldEpoch' \in Nat, yieldTarget' \in Targets,
         round' \in 0..MaxRound,
         queue' = queue \/ (queue' \in Seq(Items) /\ Len(queue') <= PrepBound),
         at' \in [Units -> {"new", "queued", "live", "done"}], panicked' \in BOOLEAN,
         roundOf' \in [Salts -> 0..MaxRound],
         ticket' \in [Units -> Tickets \union {None}],
         cut' \in [Units -> Seq(Nat)], next' \in [Units -> Nat],
         finals' \in [Units -> Energies \union {None}]
  PROVE  ShapeInv'
<1>1. \A i \in DOMAIN plans' : (plans'[i]).seen \in [0..Len((plans'[i]).stages) -> Nat]
  BY PlansSeen DEF PlansInv
<1>2. TypeOK'
  BY <1>1 DEF ShapeInv, TypeOK, PlansInv
<1> QED BY <1>2 DEF ShapeInv

(* A step that moves no unit.                                              *)
LEMMA UnitsAlone ==
  ASSUME ControllerInv, PlansKeep, UNCHANGED <<queue, unitVars, finals>>
  PROVE  UnitsInv'
<1>1. \A i \in DOMAIN plans : i \in DOMAIN plans'
  BY DEF PlansKeep, PlansStay
<1> QED BY <1>1 DEF ControllerInv, UnitsInv, StageIsCheckpoint, unitVars

(* A unit that ran is done.                                                *)
LEMMA UnitEnds ==
  ASSUME ControllerInv, PlansKeep, NEW u \in Units, at[u] = "live",
         at' = [at EXCEPT ![u] = "done"], UNCHANGED queue,
         \A v \in Units \ {u} :
            ticket'[v] = ticket[v] /\ next'[v] = next[v] /\ finals'[v] = finals[v]
  PROVE  UnitsInv'
<1>1. \A i \in DOMAIN plans : i \in DOMAIN plans'
  BY DEF PlansKeep, PlansStay
<1>2. at'[u] = "done" /\ \A v \in Units \ {u} : at'[v] = at[v]
  BY DEF ControllerInv, ShapeInv, TypeOK
<1>3. \A i \in DOMAIN queue : queue[i].unit \in Units \ {u}
  <2>1. queue \in Seq(Items)
    BY DEF ControllerInv, ShapeInv
  <2>2. \A i \in DOMAIN queue : queue[i] \in Items
    BY <2>1, LenProperties, ElementOfSeq
  <2> QED BY <2>2 DEF ControllerInv, UnitsInv, Items
<1> QED BY <1>1, <1>2, <1>3 DEF ControllerInv, UnitsInv, StageIsCheckpoint

(* A unit that left preparation.                                           *)
LEMMA UnitLeaves ==
  ASSUME ControllerInv, PlansKeep, queue # <<>>, queue' = Tail(queue),
         NEW u \in Units, u = Head(queue).unit,
         \A v \in Units \ {u} : at'[v] = at[v] /\ ticket'[v] = ticket[v],
         UNCHANGED <<next, finals>>,
         at'[u] = "done" \/ ( /\ at'[u] = "live" /\ ticket'[u] \in Tickets
                              /\ ticket'[u].stage = 0 /\ ticket'[u].plan \in DOMAIN plans')
  PROVE  UnitsInv'
<1>1. \A i \in DOMAIN plans : i \in DOMAIN plans'
  BY DEF PlansKeep, PlansStay
<1>2. /\ queue \in Seq(Items) /\ next[u] = 0 /\ finals[u] = None
      /\ \A i \in DOMAIN Tail(queue) :
           /\ i + 1 \in DOMAIN queue /\ Tail(queue)[i] = queue[i + 1]
           /\ Tail(queue)[i].unit # u
  BY HeadTaken DEF ControllerInv, ShapeInv
<1>3. \A i \in DOMAIN queue : queue[i].unit \in Units
  <2>1. \A i \in DOMAIN queue : queue[i] \in Items
    BY <1>2, LenProperties, ElementOfSeq
  <2> QED BY <2>1 DEF Items
<1>4. \A i \in DOMAIN queue' : at'[queue'[i].unit] = "queued"
  BY <1>2, <1>3 DEF ControllerInv, UnitsInv
<1>5. \A i, j \in DOMAIN queue' : queue'[i].unit = queue'[j].unit => i = j
  <2>1. ASSUME NEW i \in DOMAIN queue', NEW j \in DOMAIN queue',
               queue'[i].unit = queue'[j].unit
        PROVE  i = j
    <3>1. i + 1 = j + 1
      BY <1>2, <2>1 DEF ControllerInv, UnitsInv
    <3>2. queue' \in Seq(Items)
      BY <1>2, HeadTaken DEF ControllerInv
    <3>3. i \in Nat /\ j \in Nat
      BY <3>2, LenProperties
    <3> QED BY <3>1, <3>3
  <2> QED BY <2>1
<1>6. \A v \in Units : at'[v] \in {"new", "queued"} =>
        next'[v] = 0 /\ ticket'[v] = None /\ finals'[v] = None
  BY DEF ControllerInv, UnitsInv
<1>7. \A v \in Units : at'[v] = "live" =>
        ticket'[v] \in Tickets /\ ticket'[v].plan \in DOMAIN plans' /\ finals'[v] = None
  BY <1>1, <1>2 DEF ControllerInv, UnitsInv
<1>8. StageIsCheckpoint'
  BY <1>2 DEF ControllerInv, UnitsInv, StageIsCheckpoint
<1> QED BY <1>4, <1>5, <1>6, <1>7, <1>8 DEF UnitsInv

-----------------------------------------------------------------------------
(* The actions keep the shapes and the units *)

LEMMA ControllerInit ==
  ASSUME Init
  PROVE  ControllerInv
<1>1. FALSE \in BOOLEAN /\ FirstConfig \in Configs
  BY ControllerAssumption DEF ControllerAssumption
<1> DEFINE p == StagePlan(Effective(FirstConfig, FALSE))
<1>2. p \in PlanSet
  BY <1>1, NewPlan
<1> HIDE DEF p
<1>3. plans = <<p>> /\ plan = 1
  BY DEF Init, p
<1>4. PlansInv
  BY <1>2, <1>3 DEF PlansInv
<1>5. \A i \in DOMAIN plans : plans[i].seen \in [0..Len(plans[i].stages) -> Nat]
  BY <1>4, PlansSeen DEF PlansInv
<1>6. 0 \in 0..MaxRound /\ 0 \in 0..MaxConfigures /\ 0 <= PrepBound /\ None \in Targets
  BY ControllerAssumption DEF ControllerAssumption
<1>7. queue = <<>> /\ Len(queue) = 0 /\ queue \in Seq(Items) /\ DOMAIN queue = {}
  <2>1. queue = <<>>
    BY DEF Init
  <2> QED BY <2>1, EmptySeq, LenProperties
<1>8. TypeOK
  BY <1>1, <1>4, <1>5, <1>6, <1>7 DEF Init, TypeOK, PlansInv
<1>9. cut \in [Units -> Seq(Nat)]
  BY EmptySeq DEF Init
<1>10. ShapeInv
  BY <1>4, <1>6, <1>7, <1>8, <1>9 DEF Init, ShapeInv
<1>11. UnitsInv
  BY <1>7 DEF Init, UnitsInv, StageIsCheckpoint
<1> QED BY <1>10, <1>11 DEF ControllerInv

LEMMA ConfigureKeeps ==
  ASSUME ControllerInv, Configure
  PROVE  ControllerInv'
<1>1. PlansKeep
  BY PlansAlone DEF ControllerInv, ShapeInv, Configure, planVars
<1>2. UnitsInv'
  BY <1>1, UnitsAlone DEF Configure, historyVars
<1>3. configures' \in 0..MaxConfigures /\ config' \in Configs
  <2>1. configures \in 0..MaxConfigures /\ MaxConfigures \in Nat
    BY ControllerAssumption DEF ControllerInv, ShapeInv, TypeOK, ControllerAssumption
  <2> QED BY <2>1 DEF Configure
<1>4. ShapeInv'
  BY <1>1, <1>3, ShapeStep DEF ControllerInv, ShapeInv, TypeOK, Configure, PlansKeep,
     planVars, yieldVars, roundVars, unitVars, historyVars
<1> QED BY <1>2, <1>4 DEF ControllerInv

LEMMA RefreshPlans ==
  ASSUME ControllerInv, Refresh
  PROVE  PlansKeep
<1>1. PlansInv /\ config \in Configs /\ FALSE \in BOOLEAN
  BY DEF ControllerInv, ShapeInv, TypeOK
<1>2. CASE /\ plans' = Append(plans, StagePlan(Effective(config, FALSE)))
           /\ plan' = Len(plans) + 1
  BY <1>1, <1>2, NewPlan, PlanAdded
<1>3. CASE plans' = [plans EXCEPT ![plan].open = config.open] /\ plan' = plan
  <2> DEFINE p == plans[plan]
             n == Len(p.stages)
             q == [p EXCEPT !.open = config.open]
  <2>1. p \in PlanSet
    BY <1>1, LenProperties, ElementOfSeq DEF PlansInv
  <2>2. p \in PlanFor(n) /\ n \in Nat
    BY <2>1, PlanShape
  <2>3. config.open \in BOOLEAN
    BY <1>1, ControllerAssumption DEF ControllerAssumption
  <2>4. plans' = [plans EXCEPT ![plan] = q]
    BY <1>1, <1>3 DEF PlansInv
  <2> HIDE DEF p, n
  <2>5. q.stages = p.stages /\ q \in PlanFor(n)
    BY <2>2, <2>3 DEF PlanFor
  <2>6. q \in PlanSet
    BY <2>2, <2>5, PlanShape
  <2>7. q.stages = plans[plan].stages
    BY <2>5 DEF p
  <2> HIDE DEF q
  <2> QED BY <1>1, <1>3, <2>4, <2>6, <2>7, PlanChanged DEF PlansInv
<1> QED BY <1>2, <1>3 DEF Refresh

LEMMA RefreshKeeps ==
  ASSUME ControllerInv, Refresh
  PROVE  ControllerInv'
<1>1. PlansKeep
  BY RefreshPlans
<1>2. UnitsInv'
  BY <1>1, UnitsAlone DEF Refresh, historyVars
<1>3. yieldEpoch' \in Nat
  <2>1. yieldEpoch \in Nat
    BY DEF ControllerInv, ShapeInv, TypeOK
  <2> QED BY <2>1 DEF Refresh, RateEpoch
<1>4. settings' \in Configs
  BY DEF Refresh, ControllerInv, ShapeInv, TypeOK
<1>5. ShapeInv'
  BY <1>1, <1>3, <1>4, ShapeStep DEF ControllerInv, ShapeInv, TypeOK, Refresh, PlansKeep,
     configVars, roundVars, unitVars, historyVars
<1> QED BY <1>2, <1>5 DEF ControllerInv

LEMMA SubmitKeeps ==
  ASSUME ControllerInv, NEW u \in Units, Submit(u)
  PROVE  ControllerInv'
<1> DEFINE item == [unit |-> u, settings |-> settings, sweeps |-> Budget(settings, u)]
<1>1. item \in Items /\ item.unit = u
  <2>1. SweepsOf[u] \in Nat /\ FullSweeps \in Nat
    BY ControllerAssumption DEF ControllerAssumption
  <2>2. Budget(settings, u) \in Nat
    BY <2>1 DEF Budget
  <2> QED BY <2>2 DEF Items, ControllerInv, ShapeInv, TypeOK
<1>2. queue' = Append(queue, item) /\ Len(queue) < PrepBound
  BY DEF Submit
<1> HIDE DEF item
<1>3. queue \in Seq(Items) /\ DOMAIN queue = 1..Len(queue) /\ Len(queue) \in Nat
  BY LenProperties DEF ControllerInv, ShapeInv
<1>4. /\ queue' \in Seq(Items) /\ Len(queue') = Len(queue) + 1
      /\ \A i \in 1..Len(queue) : queue'[i] = queue[i]
      /\ queue'[Len(queue) + 1] = item
  BY <1>1, <1>2, <1>3, AppendProperties
<1>5. Len(queue') <= PrepBound
  <2>1. PrepBound \in Nat
    BY ControllerAssumption DEF ControllerAssumption
  <2> QED BY <1>2, <1>3, <1>4, <2>1
<1>6. DOMAIN queue' = 1..(Len(queue) + 1)
  BY <1>4, LenProperties
<1>7. PlansKeep
  BY PlansAlone DEF ControllerInv, ShapeInv, Submit, planVars
<1>8. /\ at' \in [Units -> {"new", "queued", "live", "done"}]
      /\ at[u] = "new" /\ at'[u] = "queued" /\ \A v \in Units \ {u} : at'[v] = at[v]
  BY DEF ControllerInv, ShapeInv, TypeOK, Submit
<1>9. roundOf' \in [Salts -> 0..MaxRound]
  BY DEF ControllerInv, ShapeInv, Submit
<1>10. ShapeInv'
  BY <1>4, <1>5, <1>7, <1>8, <1>9, ShapeStep DEF ControllerInv, ShapeInv, TypeOK, Submit,
     PlansKeep, configVars, planVars, yieldVars, roundVars, historyVars
<1>11. \A i \in DOMAIN queue : queue[i].unit \in Units /\ queue[i].unit # u
  <2>1. \A i \in DOMAIN queue : queue[i] \in Items
    BY <1>3, ElementOfSeq
  <2> QED BY <2>1, <1>8 DEF ControllerInv, UnitsInv, Items
<1>12. \A i \in DOMAIN queue' : at'[queue'[i].unit] = "queued"
  <2>1. ASSUME NEW i \in DOMAIN queue' PROVE at'[queue'[i].unit] = "queued"
    <3>1. CASE i \in DOMAIN queue
      BY <3>1, <1>3, <1>4, <1>8, <1>11 DEF ControllerInv, UnitsInv
    <3>2. CASE i = Len(queue) + 1
      BY <3>2, <1>1, <1>4, <1>8
    <3> QED BY <3>1, <3>2, <1>3, <1>6
  <2> QED BY <2>1
<1>13. \A i, j \in DOMAIN queue' : queue'[i].unit = queue'[j].unit => i = j
  <2>1. \A i \in DOMAIN queue' : i \in DOMAIN queue \/ i = Len(queue) + 1
    BY <1>3, <1>6
  <2>2. \A i \in DOMAIN queue : queue'[i] = queue[i]
    BY <1>3, <1>4
  <2> QED BY <2>1, <2>2, <1>1, <1>4, <1>11 DEF ControllerInv, UnitsInv
<1>14. UnitsInv'
  BY <1>8, <1>12, <1>13 DEF ControllerInv, UnitsInv, StageIsCheckpoint, Submit, planVars,
     historyVars
<1> QED BY <1>10, <1>14 DEF ControllerInv

LEMMA AdmitKeeps ==
  ASSUME ControllerInv, Admit
  PROVE  ControllerInv'
<1> DEFINE u == Head(queue).unit
<1>0. ShapeInv /\ UnitsInv /\ queue # <<>> /\ queue' = Tail(queue)
  BY DEF ControllerInv, Admit
<1>1. /\ u \in Units /\ PlansKeep /\ epoch' \in Nat /\ round' \in 0..MaxRound
      /\ yieldEpoch' \in Nat /\ yieldTarget' \in Targets
      /\ cut' \in [Units -> Seq(Nat)]
      /\ ticket' \in [Units -> Tickets \union {None}] /\ ticket'[u] \in Tickets
      /\ ticket'[u].plan \in DOMAIN plans'
      /\ \A v \in Units \ {u} : ticket'[v] = ticket[v] /\ at'[v] = at[v]
      /\ at'[u] \in {"live", "done"} /\ at' \in [Units -> {"new", "queued", "live", "done"}]
  BY <1>0, Admitted
<1>2. ticket'[u].stage = 0
  BY <1>0, Admitted
<1> HIDE DEF u
<1>3. UnitsInv'
  BY <1>0, <1>1, <1>2, UnitLeaves DEF u, Admit
<1>4. queue' \in Seq(Items) /\ Len(queue') <= PrepBound
  <2>1. Tail(queue) \in Seq(Items) /\ Len(Tail(queue)) <= Len(queue) /\ Len(queue) <= PrepBound
    BY <1>0, HeadTaken DEF ShapeInv, TypeOK
  <2>2. Len(queue) \in Nat /\ Len(Tail(queue)) \in Nat /\ PrepBound \in Nat
    BY <1>0, <2>1, LenProperties, ControllerAssumption DEF ControllerAssumption, ShapeInv
  <2> QED BY <1>0, <2>1, <2>2
<1>5. ShapeInv'
  BY <1>0, <1>1, <1>4, ShapeStep DEF ShapeInv, TypeOK, Admit, PlansKeep, configVars
<1> QED BY <1>3, <1>5 DEF ControllerInv

LEMMA DropKeeps ==
  ASSUME ControllerInv, AdmitFails \/ Drop
  PROVE  ControllerInv'
<1> DEFINE u == Head(queue).unit
<1>0. ShapeInv /\ UnitsInv /\ queue # <<>> /\ queue' = Tail(queue)
  BY DEF ControllerInv, AdmitFails, Drop
<1>1. u \in Units
  BY <1>0, HeadTaken
<1>2. PlansKeep
  BY PlansAlone DEF ControllerInv, ShapeInv, AdmitFails, Drop, planVars
<1>3. /\ at' = [at EXCEPT ![u] = "done"]
      /\ UNCHANGED <<configVars, planVars, roundOf, ticket, cut, next, panicked, historyVars>>
  BY DEF AdmitFails, Drop
<1>4. round' \in 0..MaxRound /\ yieldEpoch' \in Nat /\ yieldTarget' \in Targets
  <2>1. CASE AdmitFails
    BY <1>0, <1>1, <2>1, RoundEntered, YieldAimed DEF AdmitFails
  <2>2. CASE Drop
    BY <1>0, <2>2 DEF Drop, ShapeInv, TypeOK, yieldVars, roundVars
  <2> QED BY <2>1, <2>2
<1> HIDE DEF u
<1>5. /\ at'[u] = "done" /\ \A v \in Units \ {u} : at'[v] = at[v]
      /\ at' \in [Units -> {"new", "queued", "live", "done"}]
  BY <1>0, <1>1, <1>3 DEF ShapeInv, TypeOK
<1>6. UnitsInv'
  BY <1>0, <1>1, <1>2, <1>3, <1>5, UnitLeaves DEF u, historyVars
<1>7. queue' \in Seq(Items) /\ Len(queue') <= PrepBound
  <2>1. Tail(queue) \in Seq(Items) /\ Len(Tail(queue)) <= Len(queue) /\ Len(queue) <= PrepBound
    BY <1>0, HeadTaken DEF ShapeInv, TypeOK
  <2>2. Len(queue) \in Nat /\ Len(Tail(queue)) \in Nat /\ PrepBound \in Nat
    BY <1>0, <2>1, LenProperties, ControllerAssumption DEF ControllerAssumption, ShapeInv
  <2> QED BY <1>0, <2>1, <2>2
<1>8. ShapeInv'
  BY <1>0, <1>2, <1>3, <1>4, <1>5, <1>7, ShapeStep DEF ShapeInv, TypeOK, PlansKeep,
     configVars, planVars, historyVars
<1> QED BY <1>6, <1>8 DEF ControllerInv

LEMMA FinishEnds ==
  ASSUME ShapeInv, NEW u \in Units, NEW best \in Energies, Finish(u, best)
  PROVE  /\ at' \in [Units -> {"new", "queued", "live", "done"}]
         /\ at' = [at EXCEPT ![u] = "done"]
         /\ at'[u] = "done" /\ \A v \in Units \ {u} : at'[v] = at[v]
         /\ finals' \in [Units -> Energies \union {None}]
         /\ finals'[u] = best /\ \A v \in Units \ {u} : finals'[v] = finals[v]
<1>1. /\ at \in [Units -> {"new", "queued", "live", "done"}]
      /\ finals \in [Units -> Energies \union {None}]
  BY DEF ShapeInv, TypeOK
<1>2. at' = [at EXCEPT ![u] = "done"] /\ finals' = [finals EXCEPT ![u] = best]
  BY DEF Finish
<1> QED BY <1>1, <1>2

LEMMA JudgedLeaves ==
  ASSUME ShapeInv, NEW u \in Units, NEW best \in Energies, Finish(u, best) \/ LeaveUnread(u)
  PROVE  /\ at' \in [Units -> {"new", "queued", "live", "done"}]
         /\ at' = [at EXCEPT ![u] = "done"]
         /\ at'[u] = "done" /\ \A v \in Units \ {u} : at'[v] = at[v]
         /\ finals' \in [Units -> Energies \union {None}]
         /\ \A v \in Units \ {u} : finals'[v] = finals[v]
<1>1. /\ at \in [Units -> {"new", "queued", "live", "done"}]
      /\ finals \in [Units -> Energies \union {None}]
  BY DEF ShapeInv, TypeOK
<1>2. /\ at' = [at EXCEPT ![u] = "done"]
      /\ finals' = [finals EXCEPT ![u] = best] \/ finals' = finals
  BY DEF Finish, LeaveUnread
<1> QED BY <1>1, <1>2

LEMMA JudgeKeeps ==
  ASSUME ControllerInv, NEW u \in Units, Judge(u)
  PROVE  ControllerInv'
<1>1. PICK best, target, v, q :
        best \in Energies /\ target \in Targets /\ JudgedAs(u, best, target, v, q)
  BY JudgedSomehow
<1>0. ShapeInv /\ UnitsInv /\ at[u] = "live"
  BY DEF ControllerInv, Judge
<1>2. /\ v \in [go : BOOLEAN, audited : BOOLEAN]
      /\ ticket[u] \in Tickets /\ PlansKeep
      /\ ticket' \in [Units -> Tickets \union {None}] /\ ticket'[u] \in Tickets
      /\ ticket'[u].stage = IF v.go THEN ticket[u].stage + 1 ELSE ticket[u].stage
      /\ ticket'[u].plan = ticket[u].plan /\ ticket[u].plan \in DOMAIN plans
      /\ \A w \in Units \ {u} : ticket'[w] = ticket[w] /\ next'[w] = next[w]
      /\ next' \in [Units -> Nat] /\ next'[u] = next[u] + 1
      /\ v.go => at' = at /\ finals' = finals
      /\ ~v.go => Finish(u, best) \/ LeaveUnread(u)
  BY <1>0, <1>1, Judged
<1>3. queue' = queue /\ cut' = cut /\ roundOf' = roundOf /\ panicked' = panicked
      /\ epoch' = epoch /\ yieldEpoch' = yieldEpoch /\ yieldTarget' = yieldTarget
      /\ round' = round /\ UNCHANGED <<configVars, settings>>
  BY DEF Judge
<1>4. CASE v.go
  <2>1. ShapeInv'
    BY <1>0, <1>2, <1>3, <1>4, ShapeStep DEF ShapeInv, TypeOK, PlansKeep, configVars
  <2>2. ticket'[u].plan \in DOMAIN plans'
    BY <1>2 DEF PlansKeep, PlansStay
  <2>3. ticket'[u].stage = next'[u]
    BY <1>0, <1>2, <1>4 DEF UnitsInv, StageIsCheckpoint
  <2>4. at' = at /\ finals' = finals /\ \A i \in DOMAIN plans : i \in DOMAIN plans'
    BY <1>2, <1>4 DEF PlansKeep, PlansStay
  <2>5. UnitsInv'
    BY <1>0, <1>2, <1>3, <2>2, <2>3, <2>4 DEF UnitsInv, StageIsCheckpoint
  <2> QED BY <2>1, <2>5 DEF ControllerInv
<1>5. CASE ~v.go
  <2>1. /\ at' \in [Units -> {"new", "queued", "live", "done"}]
        /\ at' = [at EXCEPT ![u] = "done"]
        /\ finals' \in [Units -> Energies \union {None}]
        /\ \A w \in Units \ {u} : finals'[w] = finals[w]
    BY <1>0, <1>1, <1>2, <1>5, JudgedLeaves
  <2>2. ShapeInv'
    BY <1>0, <1>2, <1>3, <2>1, ShapeStep DEF ShapeInv, TypeOK, PlansKeep, configVars
  <2>3. UnitsInv'
    BY <1>0, <1>2, <1>3, <2>1, UnitEnds
  <2> QED BY <2>2, <2>3 DEF ControllerInv
<1> QED BY <1>4, <1>5

(* What the end of a unit teaches.                                         *)
LEMMA CompletePlans ==
  ASSUME ControllerInv, NEW u \in Units, Complete(u)
  PROVE  /\ PlansKeep /\ panicked' \in BOOLEAN
         /\ ticket[u] \in Tickets /\ ticket[u].plan \in DOMAIN plans
         /\ PlanOf(u) \in PlanSet /\ Learnt(u) \in PlanSet
         /\ Learnt(u).stages = PlanOf(u).stages /\ Learnt(u).open = PlanOf(u).open
         /\ \E best \in Energies : Finish(u, best)
<1> DEFINE t == ticket[u]
           p == PlanOf(u)
<1>0. ShapeInv /\ UnitsInv /\ at[u] = "live" /\ panicked = FALSE
  BY DEF ControllerInv, ShapeInv, TypeOK, Complete
<1>1. t \in Tickets /\ t.plan \in DOMAIN plans
  BY <1>0 DEF UnitsInv
<1>2. PlansInv /\ p \in PlanSet
  <2>1. PlansInv /\ plans \in Seq(PlanSet)
    BY <1>0 DEF ShapeInv, PlansInv
  <2>2. DOMAIN plans = 1..Len(plans)
    BY <2>1, LenProperties
  <2> QED BY <1>1, <2>1, <2>2, ElementOfSeq DEF PlanOf
<1>3. Learnt(u) \in PlanSet /\ Learnt(u).stages = p.stages /\ Learnt(u).open = p.open
  <2> DEFINE r == ObserveTransition(p, t, u)
             k == Len(r.stages)
  <2>1. r \in PlanSet
    BY <1>1, <1>2, TransitionKeeps
  <2>2. k \in Int
    BY <2>1, PlanShape
  <2>3. Learnt(u) = Observed(ObserveTransition(p, t, u), k)
    BY DEF Learnt
  <2> HIDE DEF r, k, p, t
  <2> QED BY <1>1, <1>2, <2>2, <2>3, EndKeeps
<1>4. \/ plans' = plans
      \/ plans' = [plans EXCEPT ![t.plan] = Learnt(u)]
  BY DEF Complete
<1>5. PlansKeep
  <2>1. plan' = plan
    BY DEF Complete
  <2>2. Learnt(u).stages = plans[t.plan].stages
    BY <1>3 DEF PlanOf
  <2> HIDE DEF t, p
  <2>3. CASE plans' = plans
    BY <1>2, <2>1, <2>3, PlansAlone
  <2>4. CASE plans' = [plans EXCEPT ![t.plan] = Learnt(u)]
    BY <1>1, <1>2, <1>3, <2>1, <2>2, <2>4, PlanChanged
  <2> QED BY <1>4, <2>3, <2>4
<1>6. panicked' \in BOOLEAN
  BY <1>0 DEF Complete
<1>7. \E best \in Energies : Finish(u, best)
  BY DEF Complete
<1> QED BY <1>1, <1>2, <1>3, <1>5, <1>6, <1>7

LEMMA CompleteKeeps ==
  ASSUME ControllerInv, NEW u \in Units, Complete(u)
  PROVE  ControllerInv'
<1>1. PlansKeep /\ panicked' \in BOOLEAN
  BY CompletePlans
<1>2. PICK best \in Energies : Finish(u, best)
  BY CompletePlans
<1>0. ShapeInv /\ UnitsInv /\ at[u] = "live"
  BY DEF ControllerInv, Complete
<1>3. /\ at' \in [Units -> {"new", "queued", "live", "done"}]
      /\ at' = [at EXCEPT ![u] = "done"]
      /\ finals' \in [Units -> Energies \union {None}]
      /\ \A w \in Units \ {u} : finals'[w] = finals[w]
  BY <1>0, <1>2, FinishEnds
<1>4. UNCHANGED <<configVars, settings, plan, topology, epoch, yieldTarget, yieldEpoch,
                  round, queue, roundOf, ticket, cut, next, audits, aims>>
  BY DEF Complete
<1>5. ShapeInv'
  BY <1>0, <1>1, <1>3, <1>4, ShapeStep DEF ShapeInv, TypeOK, PlansKeep, configVars
<1>6. UnitsInv'
  BY <1>0, <1>1, <1>3, <1>4, UnitEnds
<1> QED BY <1>5, <1>6 DEF ControllerInv

LEMMA AbandonKeeps ==
  ASSUME ControllerInv, NEW u \in Units, Abandon(u)
  PROVE  ControllerInv'
<1>1. PlansKeep
  BY PlansAlone DEF ControllerInv, ShapeInv, Abandon, planVars
<1>2. at[u] = "live" /\ at' = [at EXCEPT ![u] = "done"]
      /\ at' \in [Units -> {"new", "queued", "live", "done"}]
  BY DEF Abandon, ControllerInv, ShapeInv, TypeOK
<1>3. UnitsInv'
  BY <1>1, <1>2, UnitEnds DEF Abandon, historyVars
<1>4. ShapeInv'
  BY <1>1, <1>2, ShapeStep DEF ControllerInv, ShapeInv, TypeOK, Abandon, PlansKeep,
     configVars, planVars, yieldVars, roundVars, historyVars
<1> QED BY <1>3, <1>4 DEF ControllerInv

LEMMA PanicKeeps ==
  ASSUME ControllerInv, (\E u \in Units : JudgePanics(u)) \/ UNCHANGED vars
  PROVE  ControllerInv'
<1>1. UNCHANGED <<configVars, planVars, yieldVars, roundVars, queue, roundOf, unitVars,
                  historyVars>> /\ panicked' \in BOOLEAN
  BY DEF JudgePanics, vars, ControllerInv, ShapeInv, TypeOK
<1>2. PlansKeep
  BY <1>1, PlansAlone DEF ControllerInv, ShapeInv, planVars
<1>3. UnitsInv'
  BY <1>1, <1>2, UnitsAlone DEF historyVars
<1>4. ShapeInv'
  BY <1>1, <1>2, ShapeStep DEF ControllerInv, ShapeInv, TypeOK, PlansKeep,
     configVars, planVars, yieldVars, roundVars, unitVars, historyVars
<1> QED BY <1>3, <1>4 DEF ControllerInv

LEMMA ControllerStep ==
  ASSUME ControllerInv, [Next]_vars
  PROVE  ControllerInv'
BY ConfigureKeeps, RefreshKeeps, SubmitKeeps, AdmitKeeps, DropKeeps, JudgeKeeps, CompleteKeeps,
   AbandonKeeps, PanicKeeps DEF Next, Stopped

LEMMA ControllerAlways == Spec => []ControllerInv
BY ControllerInit, ControllerStep, PTL DEF Spec

(* The runner can trust its tickets: whatever order units are submitted,   *)
(* admitted, judged and finished in, a ticket of a running unit counts the *)
(* checkpoints its slot has passed, and the controller's state keeps its   *)
(* types (Controller, harvest).                                            *)
THEOREM TicketsCount == Spec => []TicketInv
<1>1. ControllerInv => TicketInv
  BY DEF ControllerInv, ShapeInv, UnitsInv, TicketInv
<1> QED BY <1>1, ControllerAlways, PTL

-----------------------------------------------------------------------------
(* Running units and the topology *)

(* Only an admission gives a unit a ticket, a schedule or an aim, or moves *)
(* the topology.                                                           *)
SameTicket(u) ==
  \/ ticket'[u] = ticket[u]
  \/ /\ at[u] = "live" /\ ticket'[u] \in Tickets /\ ticket[u] \in Tickets
     /\ ticket'[u].gates = ticket[u].gates /\ ticket'[u].epoch = ticket[u].epoch
     /\ ticket'[u].yieldEpoch = ticket[u].yieldEpoch
     /\ ticket'[u].round = ticket[u].round /\ ticket'[u].plan = ticket[u].plan

LEMMA NotAdmitted ==
  ASSUME ControllerInv, [Next]_vars, ~Admit
  PROVE  /\ UNCHANGED <<epoch, topology, cut, aims>>
         /\ \A u \in Units : (at'[u] = "live" => at[u] = "live") /\ SameTicket(u)
<1>0. ShapeInv /\ UnitsInv /\ at \in [Units -> {"new", "queued", "live", "done"}]
  BY DEF ControllerInv, ShapeInv, TypeOK
<1>1. CASE Configure \/ Refresh \/ (\E u \in Units : JudgePanics(u)) \/ UNCHANGED vars
  BY <1>1 DEF Configure, Refresh, JudgePanics, vars, planVars, unitVars, historyVars,
     SameTicket
<1>2. CASE AdmitFails \/ Drop
  <2>1. at' = [at EXCEPT ![Head(queue).unit] = "done"]
        /\ UNCHANGED <<epoch, topology, cut, aims, ticket>>
    BY <1>2 DEF AdmitFails, Drop, planVars, historyVars
  <2> QED BY <1>0, <2>1 DEF SameTicket
<1>3. ASSUME NEW u \in Units, Submit(u) \/ Abandon(u) \/ Complete(u)
      PROVE  /\ UNCHANGED <<epoch, topology, cut, aims>>
             /\ \A w \in Units : (at'[w] = "live" => at[w] = "live") /\ SameTicket(w)
  <2>1. UNCHANGED <<epoch, topology, cut, aims, ticket>>
    BY <1>3 DEF Submit, Abandon, Complete, planVars, historyVars
  <2>2. at' = [at EXCEPT ![u] = "done"] \/ at' = [at EXCEPT ![u] = "queued"]
    BY <1>3 DEF Submit, Abandon, Complete, Finish
  <2> QED BY <1>0, <2>1, <2>2 DEF SameTicket
<1>4. ASSUME NEW u \in Units, Judge(u)
      PROVE  /\ UNCHANGED <<epoch, topology, cut, aims>>
             /\ \A w \in Units : (at'[w] = "live" => at[w] = "live") /\ SameTicket(w)
  <2>1. PICK best, target, v, q :
          best \in Energies /\ target \in Targets /\ JudgedAs(u, best, target, v, q)
    BY <1>4, JudgedSomehow
  <2>2. UNCHANGED <<epoch, topology, cut, aims>> /\ at[u] = "live"
    BY <1>4 DEF Judge
  <2>3. /\ v \in [go : BOOLEAN, audited : BOOLEAN]
        /\ v.go => at' = at
        /\ ~v.go => Finish(u, best) \/ LeaveUnread(u)
        /\ \A w \in Units \ {u} : ticket'[w] = ticket[w]
    BY <1>0, <1>4, <2>1, Judged
  <2>4. SameTicket(u)
    BY <1>0, <1>4, <2>1, <2>2, Judged DEF SameTicket
  <2>5. at' = at \/ at' = [at EXCEPT ![u] = "done"]
    BY <2>3 DEF Finish, LeaveUnread
  <2> QED BY <1>0, <2>2, <2>3, <2>4, <2>5 DEF SameTicket
<1> QED BY <1>1, <1>2, <1>3, <1>4 DEF Next, Stopped

LEMMA LiveInEpochStep ==
  ASSUME ControllerInv, LiveInEpoch, [Next]_vars
  PROVE  LiveInEpoch'
<1>1. CASE ~Admit
  BY <1>1, NotAdmitted DEF LiveInEpoch, Screened, SameTicket
<1>2. CASE Admit
  <2>0. PICK u : u = Head(queue).unit
    OBVIOUS
  <2> DEFINE s == cut'[u]
  <2>1. ShapeInv /\ UnitsInv /\ Fits(u)
    BY <1>2, <2>0 DEF ControllerInv, Admit
  <2>2. /\ u \in Units /\ UsePlan(u, s) /\ Len(s) \in Nat \ {0}
        /\ ticket'[u].gates = Len(s) - 1 /\ ticket'[u].epoch = epoch'
        /\ \A v \in Units \ {u} : ticket'[v] = ticket[v] /\ at'[v] = at[v]
    BY <1>2, <2>0, <2>1, Admitted
  <2> HIDE DEF s
  <2>3. at[u] # "live"
    BY <1>2, <2>0, <2>1, HeadTaken DEF Admit
  <2>4. ASSUME NEW v \in Units \ {u}, Screened(v)'
        PROVE  ticket'[v].epoch = epoch' /\ topology' = TopologyOf[v]
    <3>1. at[v] = "live" /\ ticket[v].epoch = epoch /\ topology = TopologyOf[v]
      BY <2>2, <2>4 DEF Screened, LiveInEpoch
    <3>2. TopologyOf[v] = TopologyOf[u]
      BY <2>1, <3>1 DEF Fits, Live
    <3>3. epoch' = epoch /\ topology' = topology
      BY <2>2, <3>1, <3>2 DEF UsePlan
    <3> QED BY <2>2, <3>1, <3>3
  <2>5. ASSUME Screened(u)' PROVE ticket'[u].epoch = epoch' /\ topology' = TopologyOf[u]
    <3>1. Len(s) # 1
      <4>1. ticket'[u].gates > 0
        BY <2>5 DEF Screened
      <4>2. Len(s) - 1 > 0 /\ Len(s) \in Nat
        BY <2>2, <4>1
      <4>3. \A n \in Nat : n - 1 > 0 => n # 1
        OBVIOUS
      <4> QED BY <4>2, <4>3
    <3> QED BY <2>2, <3>1 DEF UsePlan
  <2> QED BY <2>4, <2>5 DEF LiveInEpoch
<1> QED BY <1>1, <1>2

(* No running unit that is screened is left behind by a change of the      *)
(* topology, which would screen it out unseen: with one topology in a pool *)
(* at a time, the epoch moves only when nobody screened is running         *)
(* (checkpoint, admit_prepared, Pool::fits).                               *)
THEOREM NobodyLeftBehind == Spec => []LiveInEpoch
<1>1. Init => LiveInEpoch
  BY DEF Init, LiveInEpoch, Screened
<1>2. ControllerInv /\ LiveInEpoch /\ [Next]_vars => LiveInEpoch'
  BY LiveInEpochStep
<1> QED BY <1>1, <1>2, ControllerAlways, PTL DEF Spec

-----------------------------------------------------------------------------
(* Lease rounds *)

LEMMA SubmitInOrder ==
  ASSUME ControllerInv, QueueOrder, NEW u \in Units, Submit(u)
  PROVE  QueueOrder'
<1>1. /\ queue \in Seq(Items) /\ DOMAIN queue = 1..Len(queue) /\ Len(queue) \in Nat
      /\ settings \in Configs /\ round \in 0..MaxRound /\ MaxRound \in Nat
      /\ roundOf \in [Salts -> 0..MaxRound] /\ at \in [Units -> {"new", "queued", "live", "done"}]
  BY LenProperties, ControllerAssumption DEF ControllerInv, ShapeInv, TypeOK, ControllerAssumption
<1>2. /\ at[u] = "new" /\ at'[u] = "queued" /\ \A v \in Units \ {u} : at'[v] = at[v]
      /\ round' = round
  BY <1>1 DEF Submit, roundVars
<1>3. PICK item : item.unit = u /\ queue' = Append(queue, item) /\ item \in Items
  <2> DEFINE item == [unit |-> u, settings |-> settings, sweeps |-> Budget(settings, u)]
  <2>1. SweepsOf[u] \in Nat /\ FullSweeps \in Nat
    BY ControllerAssumption DEF ControllerAssumption
  <2>2. item \in Items /\ item.unit = u
    BY <1>1, <2>1 DEF Budget, Items
  <2>3. queue' = Append(queue, item)
    BY DEF Submit
  <2> QED BY <2>2, <2>3
<1>4. /\ queue' \in Seq(Items) /\ Len(queue') = Len(queue) + 1
      /\ \A i \in 1..Len(queue) : queue'[i] = queue[i]
      /\ queue'[Len(queue) + 1] = item
  BY <1>1, <1>3, AppendProperties
<1>5. DOMAIN queue' = 1..(Len(queue) + 1)
  BY <1>4, LenProperties
<1>6. \A i \in DOMAIN queue' : i \in DOMAIN queue \/ i = Len(queue) + 1
  BY <1>1, <1>5
<1>7. \A i \in DOMAIN queue :
        queue[i].unit \in Units /\ queue[i].unit # u /\ at[queue[i].unit] # "new"
  <2>1. \A i \in DOMAIN queue : queue[i] \in Items
    BY <1>1, ElementOfSeq
  <2> QED BY <2>1, <1>2 DEF ControllerInv, UnitsInv, Items
<1>8. CASE u \notin Salts
  <2>1. roundOf' = roundOf
    BY <1>8 DEF Submit, Units
  <2>2. \A i \in DOMAIN queue' : queue'[i].unit \in Salts => i \in DOMAIN queue /\ queue'[i] = queue[i]
    BY <1>1, <1>3, <1>4, <1>6, <1>8
  <2>3. \A v \in Salts : v \in Units /\ v # u
    BY <1>8 DEF Units
  <2> QED BY <1>2, <2>1, <2>2, <2>3 DEF QueueOrder
<1>9. CASE u \in Salts
  <2>1. u \notin Jobs
    BY <1>9, ControllerAssumption DEF ControllerAssumption
  <2>2. PICK r \in 0..MaxRound :
          /\ \A v \in Salts : at[v] # "new" => roundOf[v] <= r
          /\ roundOf' = [roundOf EXCEPT ![u] = r]
    BY <2>1 DEF Submit
  <2>3. roundOf'[u] = r /\ \A v \in Salts \ {u} : roundOf'[v] = roundOf[v]
    BY <1>1, <1>9, <2>2
  <2>4. round <= r
    BY <2>2 DEF QueueOrder
  <2>5. \A i \in DOMAIN queue : queue[i].unit \in Salts => roundOf[queue[i].unit] <= r
    BY <1>7, <2>2
  <2>6. \A i \in DOMAIN queue' : queue'[i].unit \in Salts => round' <= roundOf'[queue'[i].unit]
    <3>1. ASSUME NEW i \in DOMAIN queue', queue'[i].unit \in Salts
          PROVE  round' <= roundOf'[queue'[i].unit]
      <4>1. CASE i \in DOMAIN queue
        <5>1. queue'[i] = queue[i] /\ queue[i].unit # u
          BY <4>1, <1>1, <1>4, <1>7
        <5> QED BY <3>1, <4>1, <5>1, <1>2, <2>3 DEF QueueOrder
      <4>2. CASE i = Len(queue) + 1
        BY <4>2, <1>2, <1>3, <1>4, <2>3, <2>4
      <4> QED BY <4>1, <4>2, <1>6
    <3> QED BY <3>1
  <2>7. \A i, j \in DOMAIN queue' :
          i < j /\ queue'[i].unit \in Salts /\ queue'[j].unit \in Salts =>
            roundOf'[queue'[i].unit] <= roundOf'[queue'[j].unit]
    <3>1. ASSUME NEW i \in DOMAIN queue', NEW j \in DOMAIN queue', i < j,
                 queue'[i].unit \in Salts, queue'[j].unit \in Salts
          PROVE  roundOf'[queue'[i].unit] <= roundOf'[queue'[j].unit]
      <4>1. i \in DOMAIN queue
        BY <3>1, <1>1, <1>5
      <4>2. queue'[i] = queue[i] /\ queue[i].unit # u
        BY <4>1, <1>1, <1>4, <1>7
      <4>3. CASE j \in DOMAIN queue
        <5>1. queue'[j] = queue[j] /\ queue[j].unit # u
          BY <4>3, <1>1, <1>4, <1>7
        <5> QED BY <3>1, <4>1, <4>2, <4>3, <5>1, <2>3 DEF QueueOrder
      <4>4. CASE j = Len(queue) + 1
        BY <3>1, <4>1, <4>2, <4>4, <1>3, <1>4, <2>3, <2>5
      <4> QED BY <4>3, <4>4, <1>6
    <3> QED BY <3>1
  <2>8. \A s \in 0..MaxRound :
          (\A v \in Salts : at'[v] # "new" => roundOf'[v] <= s) => round' <= s
    <3>1. ASSUME NEW s \in 0..MaxRound, \A v \in Salts : at'[v] # "new" => roundOf'[v] <= s
          PROVE  round' <= s
      <4>1. \A v \in Salts : at[v] # "new" => roundOf[v] <= s
        <5>1. \A v \in Salts : v \in Units
          BY DEF Units
        <5> QED BY <5>1, <3>1, <1>2, <2>3
      <4> QED BY <4>1, <1>2 DEF QueueOrder
    <3> QED BY <3>1
  <2> QED BY <2>6, <2>7, <2>8 DEF QueueOrder
<1> QED BY <1>8, <1>9

(* A unit that leaves the queue brings its own round, or none.             *)
LEMMA HeadInOrder ==
  ASSUME ControllerInv, QueueOrder, queue # <<>>, queue' = Tail(queue), roundOf' = roundOf,
         \A v \in Units : (at'[v] = "new" <=> at[v] = "new"),
         NEW u, u = Head(queue).unit,
         \/ round' = round
         \/ u \in Salts /\ roundOf[u] > round /\ round' = roundOf[u]
  PROVE  QueueOrder'
<1>1. /\ u \in Units /\ 1 \in DOMAIN queue /\ queue[1].unit = u /\ at[u] = "queued"
      /\ Tail(queue) \in Seq(Items)
      /\ \A i \in DOMAIN Tail(queue) : i + 1 \in DOMAIN queue /\ Tail(queue)[i] = queue[i + 1]
  BY HeadTaken DEF ControllerInv
<1>2. DOMAIN queue' \subseteq Nat \ {0}
  BY <1>1, LenProperties
<1>3. \A i, j \in DOMAIN queue' : i < j => i + 1 < j + 1
  BY <1>2
<1>4. \A i \in DOMAIN queue' : 1 < i + 1
  BY <1>2
<1>5. \A i \in DOMAIN queue' : queue'[i].unit \in Salts => round' <= roundOf'[queue'[i].unit]
  BY <1>1, <1>4 DEF QueueOrder
<1>6. \A i, j \in DOMAIN queue' :
        i < j /\ queue'[i].unit \in Salts /\ queue'[j].unit \in Salts =>
          roundOf'[queue'[i].unit] <= roundOf'[queue'[j].unit]
  <2>1. ASSUME NEW i \in DOMAIN queue', NEW j \in DOMAIN queue', i < j,
               queue'[i].unit \in Salts, queue'[j].unit \in Salts
        PROVE  roundOf'[queue'[i].unit] <= roundOf'[queue'[j].unit]
    <3>1. /\ i + 1 \in DOMAIN queue /\ j + 1 \in DOMAIN queue /\ i + 1 < j + 1
          /\ queue'[i] = queue[i + 1] /\ queue'[j] = queue[j + 1]
      BY <2>1, <1>1, <1>3
    <3> QED BY <2>1, <3>1 DEF QueueOrder
  <2> QED BY <2>1
<1>7. \A r \in 0..MaxRound :
        (\A v \in Salts : at'[v] # "new" => roundOf'[v] <= r) => round' <= r
  <2>1. \A v \in Salts : v \in Units
    BY DEF Units
  <2> QED BY <2>1, <1>1 DEF QueueOrder
<1> QED BY <1>5, <1>6, <1>7 DEF QueueOrder

LEMMA OrderStep ==
  ASSUME ControllerInv, QueueOrder, [Next]_vars
  PROVE  QueueOrder' /\ round <= round'
<1>0. /\ ShapeInv /\ UnitsInv /\ at \in [Units -> {"new", "queued", "live", "done"}]
      /\ round \in Int /\ round <= round
  BY DEF ControllerInv, ShapeInv, TypeOK
<1>1. CASE Configure \/ Refresh \/ (\E u \in Units : JudgePanics(u)) \/ UNCHANGED vars
  BY <1>0, <1>1 DEF Configure, Refresh, JudgePanics, vars, roundVars, unitVars, QueueOrder
<1>2. CASE Drop \/ AdmitFails
  <2>1. PICK u : u = Head(queue).unit
    OBVIOUS
  <2>2. /\ queue # <<>> /\ queue' = Tail(queue) /\ roundOf' = roundOf
        /\ at' = [at EXCEPT ![u] = "done"]
        /\ EnterRound(u) \/ round' = round
    BY <1>2, <2>1 DEF Drop, AdmitFails, roundVars
  <2>3. at[u] = "queued" /\ u \in Units
    BY <1>0, <2>1, <2>2, HeadTaken
  <2>4. \A v \in Units : (at'[v] = "new" <=> at[v] = "new")
    BY <1>0, <2>2, <2>3
  <2>5. round' = round \/ (u \in Salts /\ roundOf[u] > round /\ round' = roundOf[u])
    BY <2>2 DEF EnterRound, roundVars
  <2>6. round <= round'
    BY <1>0, <2>2, <2>3, RoundEntered
  <2> QED BY <2>1, <2>2, <2>4, <2>5, <2>6, HeadInOrder
<1>3. CASE Admit
  <2>1. PICK u : u = Head(queue).unit
    OBVIOUS
  <2>2. /\ queue # <<>> /\ queue' = Tail(queue) /\ roundOf' = roundOf
        /\ EnterRound(u)
    BY <1>3, <2>1 DEF Admit
  <2>3. at[u] = "queued" /\ u \in Units
    BY <1>0, <2>1, <2>2, HeadTaken
  <2>4. \A v \in Units : (at'[v] = "new" <=> at[v] = "new")
    BY <1>0, <1>3, <2>1, <2>3, Admitted
  <2>5. round' = round \/ (u \in Salts /\ roundOf[u] > round /\ round' = roundOf[u])
    BY <2>2 DEF EnterRound, roundVars
  <2>6. round <= round'
    BY <1>0, <2>2, <2>3, RoundEntered
  <2> QED BY <2>1, <2>2, <2>4, <2>5, <2>6, HeadInOrder
<1>4. ASSUME NEW u \in Units, Judge(u) \/ Complete(u) \/ Abandon(u)
      PROVE  QueueOrder' /\ round <= round'
  <2>1. queue' = queue /\ round' = round /\ roundOf' = roundOf /\ at[u] = "live"
    BY <1>4 DEF Judge, Complete, Abandon, roundVars
  <2>2. at' = at \/ at' = [at EXCEPT ![u] = "done"]
    BY <1>4 DEF Judge, Complete, Abandon, Finish, LeaveUnread
  <2>3. \A v \in Units : (at'[v] = "new" <=> at[v] = "new")
    BY <1>0, <2>1, <2>2
  <2>4. \A v \in Salts : v \in Units
    BY DEF Units
  <2> QED BY <1>0, <2>1, <2>3, <2>4 DEF QueueOrder
<1>5. ASSUME NEW u \in Units, Submit(u)
      PROVE  QueueOrder' /\ round <= round'
  <2>1. round' = round
    BY <1>5 DEF Submit, roundVars
  <2> QED BY <1>0, <1>5, <2>1, SubmitInOrder
<1> QED BY <1>1, <1>2, <1>3, <1>4, <1>5 DEF Next, Stopped

(* The salt part of RangeOfRound, and the final energies it is about.      *)
SaltsOfRounds == \A u \in Salts : ticket[u] # None => ticket[u].round = roundOf[u]
Ends == {finals[u] : u \in {w \in Units : finals[w] # None /\ ticket[w].round = round}}
RangeFits ==
  IF Ends = {} THEN range = None
  ELSE /\ range # None
       /\ {range.best, range.worst} \subseteq Ends
       /\ \A e \in Ends : range.best <= e /\ e <= range.worst

LEMMA RangeParts == RangeOfRound <=> SaltsOfRounds /\ RangeFits
BY DEF RangeOfRound, SaltsOfRounds, RangeFits, Ends

(* Where final energies and tickets come from.                             *)
LEMMA FinalsKeep ==
  ASSUME ControllerInv, [Next]_vars
  PROVE  \/ finals' = finals
         \/ \E u \in Units, best \in Energies : Finish(u, best) /\ (Judge(u) \/ Complete(u))
<1>1. CASE Configure \/ Refresh \/ Admit \/ AdmitFails \/ Drop \/ UNCHANGED vars
  BY <1>1 DEF Configure, Refresh, Admit, AdmitFails, Drop, vars, historyVars
<1>2. ASSUME NEW u \in Units, Submit(u) \/ JudgePanics(u) \/ Abandon(u)
      PROVE  finals' = finals
  BY <1>2 DEF Submit, JudgePanics, Abandon, historyVars
<1>3. ASSUME NEW u \in Units, Complete(u)
      PROVE  \E best \in Energies : Finish(u, best)
  BY <1>3, CompletePlans
<1>4. ASSUME NEW u \in Units, Judge(u)
      PROVE  finals' = finals \/ \E best \in Energies : Finish(u, best)
  BY <1>4 DEF Judge, LeaveUnread
<1> QED BY <1>1, <1>2, <1>3, <1>4 DEF Next, Stopped

LEMMA DoneWithFinal ==
  ASSUME ControllerInv, NEW u \in Units, finals[u] # None
  PROVE  at[u] = "done"
<1>1. at[u] \in {"new", "queued", "live", "done"}
  BY DEF ControllerInv, ShapeInv, TypeOK
<1> QED BY <1>1 DEF ControllerInv, UnitsInv

LEMMA RoundsInvStep ==
  ASSUME ControllerInv, RoundsInv, [Next]_vars
  PROVE  RoundsInv'
<1>0. /\ ShapeInv /\ UnitsInv /\ round \in 0..MaxRound /\ MaxRound \in Nat
      /\ ticket \in [Units -> Tickets \union {None}]
  BY ControllerAssumption DEF ControllerInv, ShapeInv, TypeOK, ControllerAssumption
<1>1. QueueOrder' /\ round <= round'
  BY OrderStep DEF RoundsInv
<1>2. round' \in Nat
  <2>1. ControllerInv'
    BY ControllerStep
  <2> QED BY <2>1, <1>0 DEF ControllerInv, ShapeInv, TypeOK
<1>3. ASSUME NEW t \in Tickets, t.round <= round PROVE t.round <= round'
  <2>1. t.round \in Int
    BY <1>0 DEF Tickets
  <2> QED BY <2>1, <1>0, <1>1, <1>2, <1>3
<1>4. CASE ~Admit
  <2>1. \A u \in Units : SameTicket(u)
    BY <1>4, NotAdmitted
  <2>2. ASSUME NEW u \in Units, ticket'[u] # None
        PROVE  ticket'[u].round <= round'
    <3>1. CASE ticket'[u] = ticket[u]
      BY <3>1, <2>2, <1>0, <1>3 DEF RoundsInv
    <3>2. CASE ticket[u] \in Tickets /\ ticket'[u].round = ticket[u].round
      <4>1. ticket[u] # None
        BY <3>2, ControllerAssumption DEF ControllerAssumption
      <4> QED BY <3>2, <4>1, <1>3 DEF RoundsInv
    <3> QED BY <2>1, <3>1, <3>2 DEF SameTicket
  <2>3. ASSUME NEW u \in Units, finals'[u] # None PROVE ticket'[u] # None
    <3>1. CASE finals'[u] = finals[u]
      <4>1. ticket[u] # None /\ at[u] = "done"
        BY <2>3, <3>1, DoneWithFinal DEF RoundsInv
      <4> QED BY <4>1, <2>1 DEF SameTicket
    <3>2. CASE finals'[u] # finals[u]
      <4>1. PICK w \in Units, best \in Energies : Finish(w, best) /\ (Judge(w) \/ Complete(w))
        BY <3>2, FinalsKeep
      <4>2. w = u
        BY <4>1, <3>2, <1>0, FinishEnds
      <4>3. ticket[u] \in Tickets
        BY <4>1, <4>2, <1>0 DEF UnitsInv, Judge, Complete
      <4>4. ticket'[u] \in Tickets
        BY <4>3, <2>1 DEF SameTicket
      <4> QED BY <4>4, ControllerAssumption DEF ControllerAssumption
    <3> QED BY <3>1, <3>2
  <2> QED BY <1>1, <2>2, <2>3 DEF RoundsInv
<1>5. CASE Admit
  <2>1. PICK u : u = Head(queue).unit
    OBVIOUS
  <2>2. /\ u \in Units /\ ticket'[u] \in Tickets /\ ticket'[u].round = round'
        /\ \A w \in Units \ {u} : ticket'[w] = ticket[w]
    BY <1>0, <1>5, <2>1, Admitted
  <2>3. finals[u] = None /\ finals' = finals
    BY <1>0, <1>5, <2>1, HeadTaken DEF Admit
  <2>4. ASSUME NEW w \in Units, ticket'[w] # None PROVE ticket'[w].round <= round'
    <3>1. CASE w = u
      BY <3>1, <2>2, <1>2
    <3>2. CASE w # u
      BY <3>2, <2>2, <2>4, <1>0, <1>3 DEF RoundsInv
    <3> QED BY <3>1, <3>2
  <2>5. \A w \in Units : finals'[w] # None => ticket'[w] # None
    BY <2>2, <2>3 DEF RoundsInv
  <2> QED BY <1>1, <2>4, <2>5 DEF RoundsInv
<1> QED BY <1>4, <1>5

(* What is kept of a unit that has finished.                               *)
LEMMA FinishedStay ==
  ASSUME ControllerInv, [Next]_vars, NEW w \in Units, finals[w] # None
  PROVE  ticket'[w] = ticket[w]
<1>1. at[w] = "done"
  BY DoneWithFinal
<1>2. CASE ~Admit
  BY <1>1, <1>2, NotAdmitted DEF SameTicket
<1>3. CASE Admit
  <2>1. at[Head(queue).unit] = "queued"
    BY <1>3, HeadTaken DEF Admit, ControllerInv
  <2> QED BY <1>1, <1>3, <2>1, Admitted DEF ControllerInv
<1> QED BY <1>2, <1>3

LEMMA RangeStays ==
  ASSUME ControllerInv, RangeFits, [Next]_vars, UNCHANGED <<finals, round, range>>
  PROVE  RangeFits'
<1>1. Ends' = Ends
  BY FinishedStay DEF Ends
<1> QED BY <1>1 DEF RangeFits

LEMMA RangeOfNewRound ==
  ASSUME ControllerInv, RoundsInv, [Next]_vars, UNCHANGED finals, round < round', range' = None
  PROVE  RangeFits'
<1>1. ASSUME NEW w \in Units, finals'[w] # None PROVE ticket'[w].round # round'
  <2>1. ticket'[w] = ticket[w] /\ ticket[w] # None
    BY <1>1, FinishedStay DEF RoundsInv
  <2>2. ticket[w].round <= round /\ ticket[w].round \in 0..MaxRound /\ round \in 0..MaxRound
    <3>1. ticket[w] \in Tickets
      BY <2>1 DEF ControllerInv, ShapeInv, TypeOK
    <3> QED BY <2>1, <3>1 DEF RoundsInv, ControllerInv, ShapeInv, TypeOK, Tickets
  <2>3. ControllerInv'
    BY ControllerStep
  <2>4. round' \in 0..MaxRound /\ MaxRound \in Nat
    BY <2>3, ControllerAssumption DEF ControllerInv, ShapeInv, TypeOK, ControllerAssumption
  <2> QED BY <2>1, <2>2, <2>4
<1>2. Ends' = {}
  BY <1>1 DEF Ends
<1> QED BY <1>2 DEF RangeFits

LEMMA RangeOfFinished ==
  ASSUME ControllerInv, RangeFits, [Next]_vars, NEW u \in Units, NEW best \in Energies,
         Finish(u, best), Judge(u) \/ Complete(u)
  PROVE  RangeFits'
<1> DEFINE t == ticket[u]
<1>0. /\ ShapeInv /\ UnitsInv /\ at[u] = "live" /\ round' = round /\ t \in Tickets
      /\ finals[u] = None /\ finals \in [Units -> Energies \union {None}]
  BY DEF ControllerInv, UnitsInv, ShapeInv, Judge, Complete
<1>1. /\ best # None /\ best \in Int /\ Energies \subseteq Int
      /\ None \notin [best : Energies, worst : Energies]
  BY ControllerAssumption DEF ControllerAssumption
<1>2. finals'[u] = best /\ \A v \in Units \ {u} : finals'[v] = finals[v]
  BY <1>0, FinishEnds
<1>3. /\ ticket'[u].round = t.round
      /\ \A w \in Units \ {u} : finals[w] # None => ticket'[w] = ticket[w]
  <2>1. ~Admit
    <3>1. CASE Judge(u)
      BY <1>0, <1>2, <1>1 DEF Admit
    <3>2. CASE Complete(u)
      BY <1>0, <1>2, <1>1 DEF Admit
    <3> QED BY <3>1, <3>2
  <2>2. SameTicket(u)
    BY <2>1, NotAdmitted
  <2> QED BY <2>2, FinishedStay DEF SameTicket
<1>4. Ends' = IF t.round = round THEN Ends \union {best} ELSE Ends
  <2>1. ASSUME NEW e PROVE e \in Ends' <=> e \in Ends \/ (t.round = round /\ e = best)
    <3>1. e \in Ends' <=> \E w \in Units : /\ finals'[w] # None /\ ticket'[w].round = round
                                           /\ e = finals'[w]
      BY <1>0 DEF Ends
    <3>2. e \in Ends <=> \E w \in Units : /\ finals[w] # None /\ ticket[w].round = round
                                          /\ e = finals[w]
      BY DEF Ends
    <3> QED BY <3>1, <3>2, <1>0, <1>1, <1>2, <1>3
  <2> QED BY <2>1
<1>5. range' = IF t.round # round THEN range
               ELSE IF range = None THEN [best |-> best, worst |-> best]
               ELSE [best  |-> IF best < range.best THEN best ELSE range.best,
                     worst |-> IF best > range.worst THEN best ELSE range.worst]
  BY DEF Finish
<1>6. Ends \subseteq Energies
  BY <1>0 DEF Ends
<1>7. CASE t.round # round
  BY <1>4, <1>5, <1>7 DEF RangeFits
<1>8. CASE t.round = round /\ Ends = {}
  <2>1. Ends' = {best} /\ range = None
    BY <1>4, <1>8 DEF RangeFits
  <2>2. range' = [best |-> best, worst |-> best]
    BY <1>5, <1>8, <2>1
  <2>3. range' \in [best : Energies, worst : Energies]
    BY <2>2
  <2>4. range'.best = best /\ range'.worst = best /\ range' # None /\ best <= best
    BY <1>1, <2>2, <2>3
  <2> QED BY <2>1, <2>4 DEF RangeFits
<1>9. CASE t.round = round /\ Ends # {}
  <2>1. /\ range # None /\ range.best \in Ends /\ range.worst \in Ends
        /\ \A e \in Ends : range.best <= e /\ e <= range.worst
    BY <1>9 DEF RangeFits
  <2> DEFINE low == IF best < range.best THEN best ELSE range.best
             high == IF best > range.worst THEN best ELSE range.worst
  <2>2. range' = [best |-> low, worst |-> high] /\ Ends' = Ends \union {best}
    BY <1>4, <1>5, <1>9, <2>1
  <2>3. low \in Energies /\ high \in Energies /\ {low, high} \subseteq Ends \union {best}
    BY <1>6, <2>1
  <2>4. \A e \in Ends \union {best} : low <= e /\ e <= high
    <3>1. \A e \in Ends \union {best} : e \in Int
      BY <1>1, <1>6
    <3>2. range.best \in Int /\ range.worst \in Int
      BY <1>1, <1>6, <2>1
    <3>3. low <= best /\ best <= high /\ low <= range.best /\ range.worst <= high
          /\ low \in Int /\ high \in Int
      BY <1>1, <3>2
    <3> HIDE DEF low, high
    <3>4. ASSUME NEW e \in Ends PROVE low <= e /\ e <= high
      <4>1. range.best <= e /\ e <= range.worst /\ e \in Int
        BY <2>1, <3>1
      <4> QED BY <3>2, <3>3, <4>1
    <3> QED BY <3>3, <3>4
  <2> HIDE DEF low, high
  <2>5. range' \in [best : Energies, worst : Energies]
    BY <2>2, <2>3
  <2>6. range' # None /\ range'.best = low /\ range'.worst = high
    BY <1>1, <2>2, <2>5
  <2> QED BY <2>2, <2>3, <2>4, <2>6 DEF RangeFits
<1> QED BY <1>7, <1>8, <1>9

(* A step leaves the range alone, opens a round, or ends a unit.           *)
LEMMA RangeCases ==
  ASSUME ControllerInv, [Next]_vars
  PROVE  \/ UNCHANGED <<finals, round, range>>
         \/ UNCHANGED finals /\ round < round' /\ range' = None
         \/ \E u \in Units, best \in Energies : Finish(u, best) /\ (Judge(u) \/ Complete(u))
<1>1. CASE Configure \/ Refresh \/ Drop \/ UNCHANGED vars
  BY <1>1 DEF Configure, Refresh, Drop, vars, historyVars, roundVars
<1>2. CASE Admit \/ AdmitFails
  <2>1. PICK u : u = Head(queue).unit
    OBVIOUS
  <2>2. EnterRound(u) /\ finals' = finals /\ queue # <<>>
    BY <1>2, <2>1 DEF Admit, AdmitFails, historyVars
  <2>3. u \in Units
    BY <2>1, <2>2, HeadTaken DEF ControllerInv
  <2>4. round \in Int /\ roundOf \in [Salts -> 0..MaxRound] /\ MaxRound \in Nat
    BY ControllerAssumption DEF ControllerInv, ShapeInv, TypeOK, ControllerAssumption
  <2>5. u \in Salts => roundOf[u] \in Int
    BY <2>4
  <2>6. roundOf[u] > round /\ u \in Salts => round < roundOf[u]
    BY <2>4, <2>5
  <2> QED BY <2>2, <2>6 DEF EnterRound, roundVars
<1>3. ASSUME NEW u \in Units, Submit(u) \/ JudgePanics(u) \/ Abandon(u)
      PROVE  UNCHANGED <<finals, round, range>>
  BY <1>3 DEF Submit, JudgePanics, Abandon, historyVars, roundVars
<1>4. ASSUME NEW u \in Units, Complete(u)
      PROVE  \E best \in Energies : Finish(u, best)
  BY <1>4, CompletePlans
<1>5. ASSUME NEW u \in Units, Judge(u)
      PROVE  UNCHANGED <<finals, round, range>> \/ \E best \in Energies : Finish(u, best)
  BY <1>5 DEF Judge, LeaveUnread
<1> QED BY <1>1, <1>2, <1>3, <1>4, <1>5 DEF Next, Stopped

LEMMA SaltsStep ==
  ASSUME ControllerInv, RoundsInv, SaltsOfRounds, [Next]_vars
  PROVE  SaltsOfRounds'
<1>0. ShapeInv /\ UnitsInv /\ roundOf \in [Salts -> 0..MaxRound] /\ None \notin Tickets
  BY ControllerAssumption DEF ControllerInv, ShapeInv, ControllerAssumption
<1>1. CASE ~Admit
  <2>1. \A u \in Salts : SameTicket(u) /\ u \in Units
    BY <1>1, NotAdmitted DEF Units
  <2>2. \A u \in Salts : ticket[u] # None => roundOf'[u] = roundOf[u]
    <3>1. CASE roundOf' = roundOf
      BY <3>1
    <3>2. CASE \E w \in Units : Submit(w)
      <4>1. PICK w \in Units : Submit(w)
        BY <3>2
      <4>2. ticket[w] = None
        BY <4>1, <1>0 DEF Submit, UnitsInv
      <4>3. \A u \in Salts \ {w} : roundOf'[u] = roundOf[u]
        BY <4>1, <1>0 DEF Submit
      <4> QED BY <4>2, <4>3
    <3>3. CASE ~(\E w \in Units : Submit(w))
      <4>1. roundOf' = roundOf
        BY <3>3, <1>1 DEF Next, Stopped, vars, Configure, Refresh, AdmitFails, Drop, Judge,
           JudgePanics, Complete, Abandon
      <4> QED BY <4>1
    <3> QED BY <3>2, <3>3
  <2> QED BY <2>1, <2>2, <1>0 DEF SaltsOfRounds, SameTicket
<1>2. CASE Admit
  <2>1. PICK u : u = Head(queue).unit
    OBVIOUS
  <2>2. /\ u \in Units /\ ticket'[u].round = round'
        /\ \A w \in Units \ {u} : ticket'[w] = ticket[w]
    BY <1>0, <1>2, <2>1, Admitted
  <2>3. roundOf' = roundOf /\ EnterRound(u) /\ queue # <<>>
    BY <1>2, <2>1 DEF Admit
  <2>4. u \in Salts => round <= roundOf[u]
    <3>1. 1 \in DOMAIN queue /\ queue[1].unit = u
      BY <1>0, <2>1, <2>3, HeadTaken
    <3> QED BY <3>1 DEF RoundsInv, QueueOrder
  <2>5. u \in Salts => round' = roundOf[u]
    <3>1. round \in 0..MaxRound /\ MaxRound \in Nat
      BY <1>0, ControllerAssumption DEF ShapeInv, TypeOK, ControllerAssumption
    <3>2. u \in Salts => roundOf[u] \in 0..MaxRound
      BY <1>0
    <3> QED BY <2>3, <2>4, <3>1, <3>2 DEF EnterRound, roundVars
  <2> QED BY <2>2, <2>3, <2>5 DEF SaltsOfRounds, Units
<1> QED BY <1>1, <1>2

(* The range the controller reports is that of the final energies of the   *)
(* newest round's units, whatever units of an older round finish later:    *)
(* salts are admitted in the order of their rounds, and a ticket keeps the *)
(* round it was given (enter_round, admit_prepared, finish).               *)
THEOREM RangesAreOfTheirRound == Spec => []RangeOfRound
<1> DEFINE Inv == RoundsInv /\ SaltsOfRounds /\ RangeFits
<1>1. Init => Inv
  <2> SUFFICES ASSUME Init PROVE Inv
    OBVIOUS
  <2>1. DOMAIN queue = {} /\ 0 \in Int /\ \A r \in 0..MaxRound : 0 <= r
    <3>1. queue = <<>>
      BY DEF Init
    <3> QED BY <3>1, EmptySeq, LenProperties
  <2>2. QueueOrder
    BY <2>1 DEF Init, QueueOrder
  <2>3. RoundsInv /\ SaltsOfRounds
    <3>1. Salts \subseteq Units
      BY DEF Units
    <3> QED BY <2>2, <3>1 DEF Init, RoundsInv, SaltsOfRounds
  <2>4. Ends = {}
    BY DEF Init, Ends
  <2> QED BY <2>3, <2>4 DEF Init, RangeFits
<1>2. ControllerInv /\ Inv /\ [Next]_vars => Inv'
  <2> SUFFICES ASSUME ControllerInv, Inv, [Next]_vars PROVE Inv'
    OBVIOUS
  <2>1. RoundsInv'
    BY RoundsInvStep
  <2>2. SaltsOfRounds'
    BY SaltsStep
  <2>3. RangeFits'
    BY RangeCases, RangeStays, RangeOfNewRound, RangeOfFinished
  <2> QED BY <2>1, <2>2, <2>3
<1>3. Inv => RangeOfRound
  BY RangeParts
<1> HIDE DEF Inv
<1> QED BY <1>1, <1>2, <1>3, ControllerAlways, PTL DEF Spec

-----------------------------------------------------------------------------
(* The yield check *)

LEMMA CheckCounts ==
  ASSUME NEW c \in Checks, NEW u \in Units
  PROVE  /\ [c EXCEPT !.results = @ \union {u}] \in Checks
         /\ [c EXCEPT !.results = @ \union {u}].target = c.target
         /\ [c EXCEPT !.results = @ \union {u}].results = c.results \union {u}
         /\ [c EXCEPT !.results = @ \union {u}].admitted = c.admitted
         /\ [c EXCEPT !.admitted = @ \union {u}] \in Checks
         /\ [c EXCEPT !.admitted = @ \union {u}].target = c.target
         /\ [c EXCEPT !.admitted = @ \union {u}].results = c.results
         /\ [c EXCEPT !.admitted = @ \union {u}].admitted = c.admitted \union {u}
BY DEF Checks

(* A check that is set up anew has counted nobody.                         *)
LEMMA CheckSetUp ==
  ASSUME NEW c, NEW target \in Targets
  PROVE  LET y == YieldFor(c, target) IN
         /\ y # None <=> c.yield # None /\ target # None
         /\ y # None => y \in Checks /\ y.target = target /\ y.admitted = {} /\ y.results = {}
<1> DEFINE r == [target |-> target, admitted |-> {}, results |-> {}]
<1>1. r \in Checks /\ r.target = target /\ r.admitted = {} /\ r.results = {}
  BY DEF Checks
<1>2. r # None
  BY <1>1, ControllerAssumption DEF Checks, ControllerAssumption
<1>3. YieldFor(c, target) = IF c.yield = None \/ target = None THEN None ELSE r
  BY DEF YieldFor
<1> HIDE DEF r
<1> QED BY <1>1, <1>2, <1>3

LEMMA WindowEnds ==
  ASSUME NEW c \in Checks
  PROVE  /\ WindowOver(c) \in Checks /\ WindowOver(c).target = c.target
         /\ WindowOver(c).admitted = {} /\ WindowOver(c).results = {}
<1>1. c # None
  BY ControllerAssumption DEF Checks, ControllerAssumption
<1>2. WindowOver(c) = [c EXCEPT !.admitted = {}, !.results = {}]
  BY <1>1 DEF WindowOver
<1>3. PICK a \in Targets, b \in SUBSET Units, d \in SUBSET Units :
        c = [target |-> a, admitted |-> b, results |-> d]
  BY DEF Checks
<1>4. [c EXCEPT !.admitted = {}] = [target |-> a, admitted |-> {}, results |-> d]
  BY <1>3
<1>5. [[c EXCEPT !.admitted = {}] EXCEPT !.results = {}] =
        [target |-> a, admitted |-> {}, results |-> {}]
  <2> DEFINE m == [target |-> a, admitted |-> {}, results |-> d]
  <2>1. [m EXCEPT !.results = {}] = [target |-> a, admitted |-> {}, results |-> {}]
    OBVIOUS
  <2> HIDE DEF m
  <2>2. [c EXCEPT !.admitted = {}] = m
    BY <1>4 DEF m
  <2> QED BY <2>1, <2>2
<1>6. WindowOver(c) = [target |-> a, admitted |-> {}, results |-> {}]
  BY <1>2, <1>5
<1> QED BY <1>3, <1>6 DEF Checks

(* The yield check of the next state, told by its parts.                   *)
LEMMA YieldOfAimStep ==
  ASSUME yieldCheck' # None <=> settings'.yield # None /\ yieldTarget' # None,
         yieldCheck' # None => yieldCheck' \in Checks /\ yieldCheck'.target = yieldTarget',
         yieldCheck' # None =>
           \A u \in yieldCheck'.results \union yieldCheck'.admitted :
              aims'[u] = [target |-> yieldTarget', yield |-> settings'.yield]
  PROVE  YieldOfAim'
BY DEF YieldOfAim

(* What becomes of the check when a unit brings its target.                *)
LEMMA CheckAimed ==
  ASSUME ControllerInv, AimsInv, NEW u \in Units, NEW target \in Targets,
         NEW counted \in BOOLEAN, AimYield(u, target, counted)
  PROVE  /\ yieldCheck' # None <=> settings.yield # None /\ yieldTarget' # None
         /\ yieldCheck' # None => yieldCheck' \in Checks /\ yieldCheck'.target = yieldTarget'
         /\ yieldCheck' # None =>
              \A w \in yieldCheck'.results \union yieldCheck'.admitted :
                 \/ w = u /\ counted
                 \/ /\ yieldEpoch' = yieldEpoch /\ yieldTarget' = yieldTarget
                    /\ yieldCheck # None
                    /\ w \in yieldCheck.results \union yieldCheck.admitted
<1> DEFINE changed == u \in Salts /\ target # yieldTarget
           check == IF changed THEN YieldFor(settings, target) ELSE yieldCheck
<1>1. /\ yieldTarget' = IF changed THEN target ELSE yieldTarget
      /\ yieldEpoch' = IF changed THEN yieldEpoch + 1 ELSE yieldEpoch
      /\ yieldCheck' = IF check = None \/ ~counted THEN check
                       ELSE [check EXCEPT !.admitted = @ \union {u}]
  BY DEF AimYield
<1>2. /\ check # None <=> settings.yield # None /\ yieldTarget' # None
      /\ check # None => check \in Checks /\ check.target = yieldTarget'
      /\ check # None =>
           \A w \in check.results \union check.admitted :
              /\ yieldEpoch' = yieldEpoch /\ yieldTarget' = yieldTarget
              /\ yieldCheck # None
              /\ w \in yieldCheck.results \union yieldCheck.admitted
  <2>1. CASE changed
    <3>1. check = YieldFor(settings, target) /\ yieldTarget' = target
      BY <2>1, <1>1
    <3> HIDE DEF check
    <3> QED BY <3>1, CheckSetUp
  <2>2. CASE ~changed
    <3>1. check = yieldCheck /\ yieldTarget' = yieldTarget /\ yieldEpoch' = yieldEpoch
      BY <2>2, <1>1
    <3> HIDE DEF check
    <3> QED BY <3>1 DEF AimsInv, YieldOfAim
  <2> QED BY <2>1, <2>2
<1> HIDE DEF check, changed
<1>3. CASE check = None \/ ~counted
  BY <1>1, <1>2, <1>3
<1>4. CASE check # None /\ counted
  <2>1. yieldCheck' = [check EXCEPT !.admitted = @ \union {u}] /\ check \in Checks
    BY <1>1, <1>2, <1>4
  <2>2. /\ yieldCheck' \in Checks /\ yieldCheck'.target = check.target
        /\ yieldCheck'.results = check.results
        /\ yieldCheck'.admitted = check.admitted \union {u}
    BY <2>1, CheckCounts
  <2>3. yieldCheck' # None
    BY <2>2, ControllerAssumption DEF Checks, ControllerAssumption
  <2> QED BY <1>2, <1>4, <2>2, <2>3
<1> QED BY <1>3, <1>4

(* Other steps leave the aims, the target and the settings' rate alone.    *)
LEMMA AimsOfTickets ==
  ASSUME ControllerInv, AimsInv, [Next]_vars, ~Admit,
         yieldEpoch <= yieldEpoch', yieldEpoch' \in Nat,
         yieldEpoch' = yieldEpoch =>
           yieldTarget' = yieldTarget /\ settings'.yield = settings.yield
  PROVE  /\ aims' = aims
         /\ \A u \in Units : ticket'[u] # None =>
              /\ ticket'[u].yieldEpoch <= yieldEpoch'
              /\ ticket'[u].yieldEpoch = yieldEpoch' => Aimed(u)'
<1>0. None \notin Tickets /\ yieldEpoch \in Nat
      /\ ticket \in [Units -> Tickets \union {None}]
  BY ControllerAssumption DEF ControllerInv, ShapeInv, TypeOK, ControllerAssumption
<1>1. aims' = aims /\ \A u \in Units : SameTicket(u)
  BY NotAdmitted
<1>2. ASSUME NEW u \in Units, ticket'[u] # None
      PROVE  /\ ticket'[u].yieldEpoch <= yieldEpoch'
             /\ ticket'[u].yieldEpoch = yieldEpoch' => Aimed(u)'
  <2>1. ticket[u] \in Tickets /\ ticket'[u].yieldEpoch = ticket[u].yieldEpoch
    BY <1>0, <1>1, <1>2 DEF SameTicket
  <2>2. /\ ticket[u].yieldEpoch <= yieldEpoch /\ ticket[u].yieldEpoch \in Nat
        /\ ticket[u].yieldEpoch = yieldEpoch => Aimed(u)
    BY <2>1, <1>0 DEF AimsInv, Tickets
  <2>3. ticket'[u].yieldEpoch <= yieldEpoch'
    BY <1>0, <2>1, <2>2
  <2>4. ticket'[u].yieldEpoch = yieldEpoch' => yieldEpoch' = yieldEpoch
    BY <1>0, <2>1, <2>2
  <2> QED BY <1>1, <2>1, <2>2, <2>3, <2>4 DEF Aimed
<1> QED BY <1>1, <1>2

LEMMA AimsAlone ==
  ASSUME ControllerInv, AimsInv, [Next]_vars, ~Admit, UNCHANGED <<yieldVars, settings>>
  PROVE  AimsInv'
<1>1. yieldEpoch \in Nat
  BY DEF ControllerInv, ShapeInv, TypeOK
<1>2. yieldEpoch' = yieldEpoch /\ yieldTarget' = yieldTarget /\ yieldCheck' = yieldCheck
      /\ settings' = settings /\ yieldEpoch <= yieldEpoch
  BY <1>1 DEF yieldVars
<1>3. /\ aims' = aims
      /\ \A u \in Units : ticket'[u] # None =>
           /\ ticket'[u].yieldEpoch <= yieldEpoch'
           /\ ticket'[u].yieldEpoch = yieldEpoch' => Aimed(u)'
  BY <1>1, <1>2, AimsOfTickets
<1>4. YieldOfAim'
  BY <1>2, <1>3 DEF AimsInv, YieldOfAim
<1> QED BY <1>2, <1>3, <1>4 DEF AimsInv

LEMMA FinishAims ==
  ASSUME ControllerInv, AimsInv, [Next]_vars, NEW u \in Units, NEW best \in Energies,
         Finish(u, best), Judge(u) \/ Complete(u)
  PROVE  AimsInv'
<1>0. /\ ShapeInv /\ UnitsInv /\ at[u] = "live" /\ UNCHANGED <<yieldEpoch, yieldTarget, settings>>
      /\ best # None
  BY ControllerAssumption DEF ControllerInv, Judge, Complete, ControllerAssumption
<1>1. /\ yieldEpoch \in Nat /\ yieldEpoch' = yieldEpoch /\ yieldTarget' = yieldTarget
      /\ settings' = settings /\ ticket[u] \in Tickets /\ yieldEpoch <= yieldEpoch
      /\ None \notin Tickets
  <2>1. yieldEpoch \in Nat
    BY <1>0 DEF ShapeInv, TypeOK
  <2>2. ticket[u] \in Tickets
    BY <1>0 DEF UnitsInv
  <2> QED BY <1>0, <2>1, <2>2, ControllerAssumption DEF ControllerAssumption
<1>2. ~Admit
  <2>1. finals'[u] # None /\ finals[u] = None
    <3>1. finals'[u] = best
      BY <1>0, FinishEnds
    <3> QED BY <1>0, <3>1 DEF UnitsInv
  <2> QED BY <2>1 DEF Admit
<1>3. /\ aims' = aims
      /\ \A w \in Units : ticket'[w] # None =>
           /\ ticket'[w].yieldEpoch <= yieldEpoch'
           /\ ticket'[w].yieldEpoch = yieldEpoch' => Aimed(w)'
  BY <1>1, <1>2, AimsOfTickets
<1>4. CASE yieldCheck' = yieldCheck
  <2>1. YieldOfAim'
    BY <1>1, <1>3, <1>4 DEF AimsInv, YieldOfAim
  <2> QED BY <1>1, <1>3, <1>4, <2>1 DEF AimsInv
<1>5. CASE /\ ticket[u].yieldEpoch = yieldEpoch /\ yieldCheck # None
           /\ yieldCheck' = [yieldCheck EXCEPT !.results = @ \union {u}]
  <2>1. yieldCheck \in Checks /\ yieldCheck.target = yieldTarget
    BY <1>5 DEF AimsInv
  <2>2. /\ yieldCheck' \in Checks /\ yieldCheck'.target = yieldTarget
        /\ yieldCheck'.results = yieldCheck.results \union {u}
        /\ yieldCheck'.admitted = yieldCheck.admitted
    BY <1>5, <2>1, CheckCounts
  <2>3. yieldCheck' # None
    BY <2>2, ControllerAssumption DEF Checks, ControllerAssumption
  <2>4. Aimed(u)
    BY <1>1, <1>5 DEF AimsInv
  <2>5. YieldOfAim'
    BY <1>1, <1>3, <1>5, <2>1, <2>2, <2>3, <2>4 DEF AimsInv, YieldOfAim, Aimed
  <2> QED BY <1>1, <1>3, <2>2, <2>5 DEF AimsInv
<1> QED BY <1>4, <1>5 DEF Finish

LEMMA RefreshAims ==
  ASSUME ControllerInv, AimsInv, [Next]_vars, Refresh
  PROVE  AimsInv'
<1>1. /\ yieldEpoch \in Nat /\ settings' = config /\ yieldTarget' = yieldTarget
      /\ yieldTarget \in Targets
  BY DEF ControllerInv, ShapeInv, TypeOK, Refresh
<1>2. yieldEpoch' = IF config.yield # settings.yield THEN yieldEpoch + 1 ELSE yieldEpoch
  BY DEF Refresh, RateEpoch
<1>3. /\ yieldEpoch <= yieldEpoch' /\ yieldEpoch' \in Nat
      /\ yieldEpoch' = yieldEpoch => config.yield = settings.yield
  BY <1>1, <1>2
<1>4. ticket' = ticket /\ aims' = aims
  BY DEF Refresh, unitVars, historyVars
<1>5. ASSUME NEW u \in Units, ticket'[u] # None
      PROVE  /\ ticket'[u].yieldEpoch <= yieldEpoch'
             /\ ticket'[u].yieldEpoch = yieldEpoch' => Aimed(u)'
  <2>1. /\ ticket[u].yieldEpoch <= yieldEpoch /\ ticket[u].yieldEpoch \in Nat
        /\ ticket[u].yieldEpoch = yieldEpoch => Aimed(u)
    <3>1. ticket[u] \in Tickets
      BY <1>4, <1>5 DEF ControllerInv, ShapeInv, TypeOK
    <3> QED BY <1>4, <1>5, <3>1 DEF AimsInv, Tickets
  <2>2. ticket[u].yieldEpoch = yieldEpoch' => yieldEpoch' = yieldEpoch
    BY <1>1, <1>3, <2>1
  <2> QED BY <1>1, <1>3, <1>4, <2>1, <2>2 DEF Aimed
<1>6. CASE config.yield # settings.yield
  <2>1. yieldCheck' = YieldFor(config, yieldTarget)
    BY <1>6 DEF Refresh
  <2>2. /\ yieldCheck' # None <=> settings'.yield # None /\ yieldTarget' # None
        /\ yieldCheck' # None => /\ yieldCheck' \in Checks /\ yieldCheck'.target = yieldTarget'
                                 /\ yieldCheck'.admitted = {} /\ yieldCheck'.results = {}
    BY <1>1, <2>1, CheckSetUp
  <2>3. YieldOfAim'
    BY <2>2, YieldOfAimStep
  <2> QED BY <1>4, <1>5, <2>2, <2>3 DEF AimsInv
<1>7. CASE config.yield = settings.yield
  <2>1. yieldCheck' \in {yieldCheck, WindowOver(yieldCheck)}
    BY <1>7 DEF Refresh
  <2>2. CASE yieldCheck' = yieldCheck
    <3>1. YieldOfAim'
      BY <1>1, <1>4, <1>7, <2>2 DEF AimsInv, YieldOfAim
    <3> QED BY <1>1, <1>4, <1>5, <2>2, <3>1 DEF AimsInv
  <2>3. CASE yieldCheck' = WindowOver(yieldCheck) /\ yieldCheck' # yieldCheck
    <3>1. yieldCheck # None
      BY <2>3 DEF WindowOver
    <3>2. yieldCheck \in Checks /\ yieldCheck.target = yieldTarget
      BY <3>1 DEF AimsInv
    <3>3. /\ yieldCheck' \in Checks /\ yieldCheck'.target = yieldTarget
          /\ yieldCheck'.admitted = {} /\ yieldCheck'.results = {}
      BY <2>3, <3>2, WindowEnds
    <3>4. yieldCheck' # None
      BY <3>3, ControllerAssumption DEF Checks, ControllerAssumption
    <3>5. settings'.yield # None /\ yieldTarget' # None
      BY <1>1, <1>7, <3>1 DEF AimsInv, YieldOfAim
    <3>6. YieldOfAim'
      BY <1>1, <3>3, <3>4, <3>5, YieldOfAimStep
    <3> QED BY <1>1, <1>4, <1>5, <3>3, <3>6 DEF AimsInv
  <2> QED BY <2>1, <2>2, <2>3
<1> QED BY <1>4, <1>6, <1>7

LEMMA AdmitAims ==
  ASSUME ControllerInv, AimsInv, Admit
  PROVE  AimsInv'
<1>1. PICK u : u = Head(queue).unit
  OBVIOUS
<1>0. /\ ShapeInv /\ UnitsInv /\ yieldEpoch \in Nat /\ None \notin Tickets
      /\ ticket \in [Units -> Tickets \union {None}] /\ settings \in Configs
  BY ControllerAssumption DEF ControllerInv, ShapeInv, TypeOK, ControllerAssumption
<1>2. /\ u \in Units /\ ticket'[u] \in Tickets /\ ticket'[u].yieldEpoch = yieldEpoch'
      /\ \A v \in Units \ {u} : ticket'[v] = ticket[v]
      /\ yieldEpoch' \in Nat /\ yieldEpoch <= yieldEpoch' /\ yieldTarget' \in Targets
  BY <1>0, <1>1, Admitted
<1>3. PICK target \in Targets :
        /\ AimYield(u, target, TRUE)
        /\ aims' = [aims EXCEPT ![u] = [target |-> yieldTarget', yield |-> settings.yield]]
  BY <1>1 DEF Admit
<1>4. settings' = settings
  BY DEF Admit
<1>5. /\ aims' \in [Units -> Aims \union {None}]
      /\ aims'[u] = [target |-> yieldTarget', yield |-> settings'.yield]
      /\ \A v \in Units \ {u} : aims'[v] = aims[v]
  <2>1. [target |-> yieldTarget', yield |-> settings.yield] \in Aims
    BY <1>0, <1>2 DEF Aims
  <2>2. aims \in [Units -> Aims \union {None}]
    BY DEF AimsInv
  <2> QED BY <2>1, <2>2, <1>2, <1>3, <1>4
<1>6. yieldEpoch' = yieldEpoch => yieldTarget' = yieldTarget
  BY <1>0, <1>3 DEF AimYield
<1>7. ASSUME NEW v \in Units, ticket'[v] # None
      PROVE  /\ ticket'[v].yieldEpoch <= yieldEpoch'
             /\ ticket'[v].yieldEpoch = yieldEpoch' => Aimed(v)'
  <2>1. CASE v = u
    BY <2>1, <1>2, <1>5 DEF Aimed
  <2>2. CASE v # u
    <3>1. ticket'[v] = ticket[v] /\ ticket[v] \in Tickets
      BY <2>2, <1>0, <1>2, <1>7
    <3>2. /\ ticket[v].yieldEpoch <= yieldEpoch /\ ticket[v].yieldEpoch \in Nat
          /\ ticket[v].yieldEpoch = yieldEpoch => Aimed(v)
      BY <1>0, <3>1 DEF AimsInv, Tickets
    <3>3. ticket[v].yieldEpoch <= yieldEpoch'
          /\ (ticket[v].yieldEpoch = yieldEpoch' => yieldEpoch' = yieldEpoch)
      BY <1>0, <1>2, <3>2
    <3> QED BY <2>2, <1>4, <1>5, <1>6, <3>1, <3>2, <3>3 DEF Aimed
  <2> QED BY <2>1, <2>2
<1>8. /\ yieldCheck' # None <=> settings.yield # None /\ yieldTarget' # None
      /\ yieldCheck' # None => yieldCheck' \in Checks /\ yieldCheck'.target = yieldTarget'
      /\ yieldCheck' # None =>
           \A w \in yieldCheck'.results \union yieldCheck'.admitted :
              \/ w = u
              \/ /\ yieldEpoch' = yieldEpoch /\ yieldTarget' = yieldTarget
                 /\ yieldCheck # None
                 /\ w \in yieldCheck.results \union yieldCheck.admitted
  BY <1>2, <1>3, CheckAimed
<1>9. ASSUME yieldCheck' # None, NEW w \in yieldCheck'.results \union yieldCheck'.admitted
      PROVE  aims'[w] = [target |-> yieldTarget', yield |-> settings'.yield]
  <2>1. CASE w = u
    BY <2>1, <1>5
  <2>2. CASE w # u
    <3>1. /\ yieldTarget' = yieldTarget /\ yieldCheck # None
          /\ w \in yieldCheck.results \union yieldCheck.admitted
      BY <1>8, <1>9, <2>2
    <3>2. w \in Units /\ aims[w] = [target |-> yieldTarget, yield |-> settings.yield]
      BY <3>1 DEF AimsInv, YieldOfAim, Checks
    <3> QED BY <2>2, <1>4, <1>5, <3>1, <3>2
  <2> QED BY <2>1, <2>2
<1>10. YieldOfAim'
  BY <1>4, <1>8, <1>9, YieldOfAimStep
<1> QED BY <1>5, <1>7, <1>8, <1>10 DEF AimsInv

LEMMA FailedAims ==
  ASSUME ControllerInv, AimsInv, [Next]_vars, AdmitFails
  PROVE  AimsInv'
<1>1. PICK u : u = Head(queue).unit
  OBVIOUS
<1>2. PICK target \in Targets : AimYield(u, target, FALSE)
  BY <1>1 DEF AdmitFails
<1>0. ShapeInv /\ UnitsInv /\ u \in Units /\ yieldEpoch \in Nat
  BY <1>1, HeadTaken DEF AdmitFails, ControllerInv, ShapeInv, TypeOK
<1>3. UNCHANGED <<settings, ticket, aims>>
  BY DEF AdmitFails, planVars, historyVars
<1>4. /\ yieldEpoch' \in Nat /\ yieldEpoch <= yieldEpoch'
      /\ yieldEpoch' = yieldEpoch => yieldTarget' = yieldTarget
  BY <1>0, <1>2 DEF AimYield
<1>5. ASSUME NEW v \in Units, ticket'[v] # None
      PROVE  /\ ticket'[v].yieldEpoch <= yieldEpoch'
             /\ ticket'[v].yieldEpoch = yieldEpoch' => Aimed(v)'
  <2>1. ticket[v] \in Tickets
    BY <1>0, <1>3, <1>5 DEF ShapeInv, TypeOK
  <2>2. /\ ticket[v].yieldEpoch <= yieldEpoch /\ ticket[v].yieldEpoch \in Nat
        /\ ticket[v].yieldEpoch = yieldEpoch => Aimed(v)
    BY <1>3, <1>5, <2>1 DEF AimsInv, Tickets
  <2>3. ticket[v].yieldEpoch <= yieldEpoch'
        /\ (ticket[v].yieldEpoch = yieldEpoch' => yieldEpoch' = yieldEpoch)
    BY <1>0, <1>4, <2>2
  <2> QED BY <1>3, <1>4, <2>2, <2>3 DEF Aimed
<1>6. /\ yieldCheck' # None <=> settings.yield # None /\ yieldTarget' # None
      /\ yieldCheck' # None => yieldCheck' \in Checks /\ yieldCheck'.target = yieldTarget'
      /\ yieldCheck' # None =>
           \A w \in yieldCheck'.results \union yieldCheck'.admitted :
              /\ yieldTarget' = yieldTarget /\ yieldCheck # None
              /\ w \in yieldCheck.results \union yieldCheck.admitted
  BY <1>0, <1>2, CheckAimed
<1>7. YieldOfAim'
  BY <1>3, <1>6, YieldOfAimStep DEF AimsInv, YieldOfAim
<1> QED BY <1>3, <1>5, <1>6, <1>7 DEF AimsInv

LEMMA AimsStep ==
  ASSUME ControllerInv, AimsInv, [Next]_vars
  PROVE  AimsInv'
<1>1. CASE UNCHANGED <<yieldVars, settings>> /\ ~Admit
  BY <1>1, AimsAlone
<1>2. CASE Admit
  BY <1>2, AdmitAims
<1>3. CASE AdmitFails
  BY <1>3, FailedAims
<1>4. CASE Refresh
  BY <1>4, RefreshAims
<1>5. ASSUME NEW u \in Units, Judge(u) \/ Complete(u), ~Admit
      PROVE  AimsInv'
  <2>1. CASE \E best \in Energies : Finish(u, best)
    BY <1>5, <2>1, FinishAims
  <2>2. CASE ~ \E best \in Energies : Finish(u, best)
    <3>1. Judge(u)
      BY <1>5, <2>2, CompletePlans
    <3>2. UNCHANGED <<yieldVars, settings>>
      BY <2>2, <3>1 DEF Judge, LeaveUnread, yieldVars
    <3> QED BY <1>5, <3>2, AimsAlone
  <2> QED BY <2>1, <2>2
<1>6. CASE Configure \/ Drop \/ UNCHANGED vars
  BY <1>1, <1>2, <1>6 DEF Configure, Drop, vars, planVars
<1>7. ASSUME NEW u \in Units, Submit(u) \/ JudgePanics(u) \/ Abandon(u)
      PROVE  AimsInv'
  BY <1>1, <1>2, <1>7 DEF Submit, JudgePanics, Abandon, planVars
<1> QED BY <1>2, <1>3, <1>4, <1>5, <1>6, <1>7 DEF Next, Stopped

(* The yield check counts admissions and results of units that came in     *)
(* under the target and the rate it measures, whatever late results,       *)
(* changes of rate and new targets do in between: a change of either opens *)
(* a new epoch, and a result counts only in the epoch of its ticket        *)
(* (set_yield_target, refresh, finish).                                    *)
THEOREM YieldIsOfItsAim == Spec => []YieldOfAim
<1>1. Init => AimsInv
  BY DEF Init, AimsInv, YieldOfAim
<1>2. ControllerInv /\ AimsInv /\ [Next]_vars => AimsInv'
  BY AimsStep
<1>3. AimsInv => YieldOfAim
  BY DEF AimsInv
<1> QED BY <1>1, <1>2, <1>3, ControllerAlways, PTL DEF Spec

-----------------------------------------------------------------------------
(* Schedules and plans *)

LEMMA PlanIn ==
  ASSUME PlansInv, NEW i \in DOMAIN plans
  PROVE  /\ plans[i] \in PlanSet /\ plans[i].stages \in Seq(Nat)
         /\ Len(plans[i].stages) \in Nat
<1>1. plans[i] \in PlanSet
  BY LenProperties, ElementOfSeq DEF PlansInv
<1>2. plans[i] \in PlanFor(Len(plans[i].stages))
  BY <1>1, PlanShape
<1> QED BY <1>1, <1>2, LenProperties DEF PlanFor

(* The schedule of an admitted unit is that of the plan of its ticket.     *)
LEMMA AdmittedByPlan ==
  ASSUME ClosedGates, ControllerInv, GatesInv, Admit, NEW u, u = Head(queue).unit
  PROVE  /\ Len(cut'[u]) > 1 =>
              /\ Len(cut'[u]) - 1 <= Len((plans'[plan']).stages)
              /\ \A k \in 1..(Len(cut'[u]) - 1) : cut'[u][k] = (plans'[plan']).stages[k]
         /\ \A i \in DOMAIN plans' : ~(plans'[i]).open
<1> DEFINE item == Head(queue)
           c == IF item.settings.stages # settings.stages THEN settings ELSE item.settings
           wanted == Effective(settings, Gated(u))
           s == cut'[u]
<1>0. /\ ShapeInv /\ UnitsInv /\ PlansInv /\ settings \in Configs /\ item \in Items
      /\ Gated(u) \in BOOLEAN
  BY HeadTaken DEF ControllerInv, ShapeInv, TypeOK, Admit, Gated
<1>1. u \in Units /\ s = Recut(item) /\ UsePlan(u, s) /\ Len(s) \in Nat \ {0}
  BY <1>0, Admitted
<1>2. c \in Configs /\ item.sweeps \in Nat /\ s = Checkpoints(c, u, item.sweeps)
  BY <1>0, <1>1 DEF Items, Recut
<1>3. Effective(c, Gated(u)).stages = wanted.stages
  <2>1. ~c.open /\ ~settings.open
    BY <1>0, <1>2 DEF ClosedGates
  <2>2. c.stages = settings.stages
    OBVIOUS
  <2> HIDE DEF c
  <2> QED BY <2>1, <2>2 DEF Effective
<1> HIDE DEF c, item
<1>4. /\ Len(s) > 1 => Len(s) - 1 <= Len(wanted.stages)
      /\ Len(s) > 1 => \A k \in 1..(Len(s) - 1) : s[k] = wanted.stages[k]
  BY <1>1, <1>2, <1>3, ScheduleShape
<1>5. /\ StagePlan(wanted) \in PlanSet /\ StagePlan(wanted).stages = wanted.stages
      /\ ~StagePlan(wanted).open
  <2>1. ~settings.open
    BY <1>0 DEF ClosedGates
  <2>2. /\ StagePlan(wanted) \in PlanSet /\ StagePlan(wanted).stages = wanted.stages
        /\ StagePlan(wanted).open = settings.open
    BY <1>0, NewPlan
  <2> QED BY <2>1, <2>2
<1> HIDE DEF wanted, s
<1>6. CASE Len(s) = 1 \/ ~(topology # TopologyOf[u] \/ Stale(wanted))
  <2>1. plans' = plans /\ plan' = plan
    BY <1>1, <1>6 DEF UsePlan, wanted
  <2>2. Len(s) > 1 => plans[plan].stages = wanted.stages
    <3>1. Len(s) > 1 => Len(s) # 1
      BY <1>1
    <3> QED BY <1>6, <3>1 DEF Stale
  <2> QED BY <2>1, <2>2, <1>4 DEF GatesInv, s
<1>7. CASE ~(Len(s) = 1 \/ ~(topology # TopologyOf[u] \/ Stale(wanted)))
  <2>1. plans' = Append(plans, StagePlan(wanted)) /\ plan' = Len(plans) + 1
    BY <1>1, <1>7 DEF UsePlan, wanted
  <2>2. /\ DOMAIN plans' = 1..(Len(plans) + 1) /\ plans'[plan'] = StagePlan(wanted)
        /\ \A i \in DOMAIN plans : plans'[i] = plans[i]
    BY <1>0, <1>5, <2>1, PlanAdded
  <2>3. \A i \in DOMAIN plans' : i \in DOMAIN plans \/ i = plan'
    <3>1. DOMAIN plans = 1..Len(plans) /\ Len(plans) \in Nat
      BY <1>0, LenProperties DEF PlansInv
    <3> QED BY <2>1, <2>2, <3>1
  <2>4. \A i \in DOMAIN plans' : ~(plans'[i]).open
    BY <1>5, <2>2, <2>3 DEF GatesInv
  <2> QED BY <1>4, <1>5, <2>2, <2>4 DEF s
<1> QED BY <1>6, <1>7

(* No step but an admission changes the schedule or the plan of a unit.    *)
LEMMA CutByPlanStays ==
  ASSUME ControllerInv, CutByPlan, [Next]_vars, ~Admit, PlansStay
  PROVE  CutByPlan'
<1>1. cut' = cut /\ \A u \in Units : (at'[u] = "live" => at[u] = "live") /\ SameTicket(u)
  BY NotAdmitted
<1>2. ASSUME NEW u \in Units, Screened(u)'
      PROVE  /\ Screened(u) /\ ticket'[u].gates = ticket[u].gates
             /\ PlanOf(u)'.stages = PlanOf(u).stages
  <2>1. at[u] = "live" /\ ticket'[u].gates = ticket[u].gates /\ ticket'[u].plan = ticket[u].plan
    BY <1>1, <1>2 DEF Screened, SameTicket
  <2>2. ticket[u].plan \in DOMAIN plans
    BY <2>1 DEF ControllerInv, UnitsInv
  <2> QED BY <1>2, <2>1, <2>2 DEF Screened, PlanOf, PlansStay
<1> QED BY <1>1, <1>2 DEF CutByPlan

(* A unit that is not at its last checkpoint is at a stage of its plan.    *)
LEMMA WithinPlan ==
  ASSUME ControllerInv, GatesInv, NEW u \in Units, at[u] = "live"
  PROVE  /\ ~PastEnd(PlanOf(u), ticket[u])
         /\ ~Last(u) => ~RejectPastEnd(PlanOf(u), ticket[u])
         /\ ~Last(u) => ticket[u].stage + 1 <= ticket[u].gates
<1> DEFINE t == ticket[u]
<1>1. /\ t \in Tickets /\ t.plan \in DOMAIN plans /\ t.stage = next[u]
      /\ Len(cut[u]) = t.gates + 1 /\ t.stage <= t.gates
  BY DEF ControllerInv, UnitsInv, StageIsCheckpoint, GatesInv
<1>2. t.stage \in Nat /\ t.gates \in Nat
  BY <1>1 DEF Tickets
<1>3. Len(PlanOf(u).stages) \in Nat
  BY <1>1, PlanIn DEF PlanOf, ControllerInv, ShapeInv
<1>4. t.gates > 0 => t.gates <= Len(PlanOf(u).stages)
  BY DEF GatesInv, CutByPlan, Screened
<1> HIDE DEF t
<1>5. ~(t.stage > Len(PlanOf(u).stages))
  BY <1>1, <1>2, <1>3, <1>4
<1>6. ~Last(u) => t.stage # t.gates
  BY <1>1, <1>2 DEF Last
<1>7. ~Last(u) => t.stage + 1 <= t.gates /\ t.stage # Len(PlanOf(u).stages)
  BY <1>1, <1>2, <1>3, <1>4, <1>6
<1> QED BY <1>5, <1>7 DEF PastEnd, RejectPastEnd, t

(* No step opens a plan.                                                   *)
LEMMA PlansClosed ==
  ASSUME ClosedGates, ControllerInv, GatesInv, [Next]_vars
  PROVE  PlansStay /\ \A i \in DOMAIN plans' : ~(plans'[i]).open
<1>0. /\ PlansInv /\ ShapeInv /\ UnitsInv /\ config \in Configs
      /\ \A i \in DOMAIN plans : ~plans[i].open
  BY DEF ControllerInv, ShapeInv, TypeOK, GatesInv
<1>1. CASE plans' = plans /\ plan' = plan
  BY <1>0, <1>1, PlansAlone DEF PlansKeep
<1>2. CASE Admit
  <2>1. PICK u : u = Head(queue).unit
    OBVIOUS
  <2> QED BY <1>0, <1>2, <2>1, Admitted, AdmittedByPlan DEF PlansKeep
<1>3. ASSUME NEW i \in DOMAIN plans, NEW q \in PlanSet, q.stages = plans[i].stages,
             q.open = plans[i].open, plans' = [plans EXCEPT ![i] = q], plan' = plan
      PROVE  PlansStay /\ \A j \in DOMAIN plans' : ~(plans'[j]).open
  <2>1. /\ PlansKeep /\ DOMAIN plans' = DOMAIN plans /\ plans'[i] = q
        /\ \A j \in DOMAIN plans \ {i} : plans'[j] = plans[j]
    BY <1>0, <1>3, PlanChanged
  <2> QED BY <1>0, <1>3, <2>1 DEF PlansKeep
<1>4. ASSUME NEW u \in Units, Judge(u)
      PROVE  PlansStay /\ \A i \in DOMAIN plans' : ~(plans'[i]).open
  <2>1. PICK best, target, v, q :
          best \in Energies /\ target \in Targets /\ JudgedAs(u, best, target, v, q)
    BY <1>4, JudgedSomehow
  <2>2. /\ ticket[u].plan \in DOMAIN plans /\ q \in PlanSet
        /\ q.stages = PlanOf(u).stages /\ q.open = PlanOf(u).open
    BY <1>0, <1>4, <2>1, Judged
  <2>3. plans' = [plans EXCEPT ![ticket[u].plan] = q] /\ plan' = plan
    BY <1>4, <2>1 DEF JudgedAs, Judge
  <2> QED BY <1>3, <2>2, <2>3 DEF PlanOf
<1>5. ASSUME NEW u \in Units, Complete(u)
      PROVE  PlansStay /\ \A i \in DOMAIN plans' : ~(plans'[i]).open
  <2>1. /\ ticket[u].plan \in DOMAIN plans /\ Learnt(u) \in PlanSet
        /\ Learnt(u).stages = PlanOf(u).stages /\ Learnt(u).open = PlanOf(u).open
    BY <1>5, CompletePlans
  <2>2. plan' = plan /\ (plans' = plans \/ plans' = [plans EXCEPT ![ticket[u].plan] = Learnt(u)])
    BY <1>5 DEF Complete
  <2>3. CASE plans' = plans
    BY <1>1, <2>2, <2>3
  <2>4. CASE plans' = [plans EXCEPT ![ticket[u].plan] = Learnt(u)]
    BY <1>3, <2>1, <2>2, <2>4 DEF PlanOf
  <2> QED BY <2>2, <2>3, <2>4
<1>6. CASE Refresh
  <2>1. PlansStay
    BY <1>6, RefreshPlans DEF PlansKeep
  <2>2. ~config.open
    BY <1>0 DEF ClosedGates
  <2>3. CASE /\ plans' = Append(plans, StagePlan(Effective(config, FALSE)))
             /\ plan' = Len(plans) + 1
    <3>1. PICK p : p = StagePlan(Effective(config, FALSE))
      OBVIOUS
    <3>2. p \in PlanSet /\ p.open = config.open
      BY <1>0, <3>1, NewPlan, FALSE \in BOOLEAN
    <3>3. /\ DOMAIN plans' = 1..(Len(plans) + 1) /\ plans'[plan'] = p
          /\ \A i \in DOMAIN plans : plans'[i] = plans[i]
      BY <1>0, <2>3, <3>1, <3>2, PlanAdded
    <3>4. \A i \in DOMAIN plans' : i \in DOMAIN plans \/ i = plan'
      <4>1. DOMAIN plans = 1..Len(plans) /\ Len(plans) \in Nat
        BY <1>0, LenProperties DEF PlansInv
      <4> QED BY <2>3, <3>3, <4>1
    <3> QED BY <1>0, <2>1, <2>2, <3>2, <3>3, <3>4
  <2>4. CASE plans' = [plans EXCEPT ![plan].open = config.open] /\ plan' = plan
    <3>1. plan \in DOMAIN plans /\ plans[plan] \in PlanSet
      BY <1>0, PlanIn DEF PlansInv
    <3>2. DOMAIN plans' = DOMAIN plans /\ \A i \in DOMAIN plans \ {plan} : plans'[i] = plans[i]
      BY <1>0, <2>4 DEF PlansInv
    <3>3. plans'[plan] = [plans[plan] EXCEPT !.open = config.open]
      BY <1>0, <2>4, <3>1 DEF PlansInv
    <3>4. ~(plans'[plan]).open
      <4>1. plans[plan] \in PlanFor(Len(plans[plan].stages))
        BY <3>1, PlanShape
      <4>2. (plans'[plan]).open = config.open
        BY <3>3, <4>1 DEF PlanFor
      <4> QED BY <4>2, <2>2
    <3> QED BY <1>0, <2>1, <3>2, <3>4
  <2> QED BY <2>3, <2>4, <1>6 DEF Refresh
<1>7. CASE Configure \/ AdmitFails \/ Drop \/ UNCHANGED vars
  BY <1>1, <1>7 DEF Configure, AdmitFails, Drop, vars, planVars
<1>8. ASSUME NEW u \in Units, Submit(u) \/ JudgePanics(u) \/ Abandon(u)
      PROVE  PlansStay /\ \A i \in DOMAIN plans' : ~(plans'[i]).open
  BY <1>1, <1>8 DEF Submit, JudgePanics, Abandon, planVars
<1> QED BY <1>2, <1>4, <1>5, <1>6, <1>7, <1>8 DEF Next, Stopped

LEMMA GatesStep ==
  ASSUME ClosedGates, ControllerInv, GatesInv, [Next]_vars
  PROVE  GatesInv'
<1>0. /\ ShapeInv /\ UnitsInv /\ ~panicked
      /\ PlansStay /\ \A i \in DOMAIN plans' : ~(plans'[i]).open
  BY PlansClosed DEF ControllerInv, GatesInv, NoPanic
<1>1. NoPanic'
  <2>1. ASSUME NEW u \in Units, JudgePanics(u) PROVE FALSE
    BY <2>1, WithinPlan DEF JudgePanics
  <2>2. ASSUME NEW u \in Units, Complete(u) PROVE ~panicked'
    <3>1. ~PastEnd(PlanOf(u), ticket[u])
      BY <2>2, WithinPlan DEF Complete
    <3> QED BY <1>0, <2>2, <3>1 DEF Complete
  <2>3. CASE panicked' = panicked
    BY <1>0, <2>3 DEF NoPanic
  <2>4. ASSUME NEW u \in Units, Submit(u) \/ Judge(u) \/ Abandon(u)
        PROVE  panicked' = panicked
    BY <2>4 DEF Submit, Judge, Abandon
  <2>5. CASE Configure \/ Refresh \/ Admit \/ AdmitFails \/ Drop \/ UNCHANGED vars
    BY <2>3, <2>5 DEF Configure, Refresh, Admit, AdmitFails, Drop, vars
  <2> QED BY <2>1, <2>2, <2>3, <2>4, <2>5 DEF Next, Stopped, NoPanic
<1>2. CASE Admit
  <2>1. PICK u : u = Head(queue).unit
    OBVIOUS
  <2>2. /\ u \in Units /\ Len(cut'[u]) \in Nat \ {0}
        /\ ticket'[u].gates = Len(cut'[u]) - 1 /\ ticket'[u].stage = 0
        /\ ticket'[u].plan = plan'
        /\ \A v \in Units \ {u} : ticket'[v] = ticket[v] /\ cut'[v] = cut[v] /\ at'[v] = at[v]
    BY <1>0, <1>2, <2>1, Admitted
  <2>3. Len(cut'[u]) > 1 =>
          /\ Len(cut'[u]) - 1 <= Len((plans'[plan']).stages)
          /\ \A k \in 1..(Len(cut'[u]) - 1) : cut'[u][k] = (plans'[plan']).stages[k]
    BY <1>2, <2>1, AdmittedByPlan
  <2>4. Len(cut'[u]) = ticket'[u].gates + 1 /\ ticket'[u].stage <= ticket'[u].gates
    BY <2>2
  <2>5. \A v \in Units : at'[v] = "live" =>
          Len(cut'[v]) = ticket'[v].gates + 1 /\ ticket'[v].stage <= ticket'[v].gates
    BY <2>2, <2>4 DEF GatesInv
  <2>6. CutByPlan'
    <3>1. ASSUME NEW v \in Units, Screened(v)'
          PROVE  /\ ticket'[v].gates <= Len(PlanOf(v)'.stages)
                 /\ \A k \in 1..ticket'[v].gates : cut'[v][k] = PlanOf(v)'.stages[k]
      <4>1. CASE v = u
        <5>1. Len(cut'[u]) > 1
          <6>1. ticket'[u].gates > 0
            BY <3>1, <4>1 DEF Screened
          <6>2. \A n \in Nat : n - 1 > 0 => n > 1
            OBVIOUS
          <6> QED BY <2>2, <6>1, <6>2
        <5> QED BY <2>2, <2>3, <4>1, <5>1 DEF PlanOf
      <4>2. CASE v # u
        <5>1. Screened(v) /\ ticket'[v] = ticket[v] /\ cut'[v] = cut[v]
          BY <2>2, <3>1, <4>2 DEF Screened
        <5>2. ticket[v].plan \in DOMAIN plans
          BY <1>0, <5>1 DEF Screened, UnitsInv
        <5>3. PlanOf(v)'.stages = PlanOf(v).stages
          BY <1>0, <5>1, <5>2 DEF PlanOf, PlansStay
        <5> QED BY <5>1, <5>3 DEF GatesInv, CutByPlan
      <4> QED BY <4>1, <4>2
    <3> QED BY <3>1 DEF CutByPlan
  <2> QED BY <1>0, <1>1, <2>5, <2>6 DEF GatesInv
<1>3. CASE ~Admit
  <2>1. cut' = cut /\ \A u \in Units : (at'[u] = "live" => at[u] = "live") /\ SameTicket(u)
    BY <1>3, NotAdmitted
  <2>2. CutByPlan'
    BY <1>0, <1>3, CutByPlanStays DEF GatesInv
  <2>3. ASSUME NEW u \in Units, at'[u] = "live"
        PROVE  Len(cut'[u]) = ticket'[u].gates + 1 /\ ticket'[u].stage <= ticket'[u].gates
    <3>1. at[u] = "live" /\ Len(cut[u]) = ticket[u].gates + 1 /\ ticket[u].stage <= ticket[u].gates
      BY <2>1, <2>3 DEF GatesInv
    <3>2. CASE ticket'[u] = ticket[u]
      BY <2>1, <3>1, <3>2
    <3>3. CASE ticket'[u] # ticket[u]
      <4>1. Judge(u)
        <5>1. ticket' # ticket
          BY <3>3
        <5>2. PICK w \in Units : Judge(w)
          BY <5>1, <1>3 DEF Next, Stopped, vars, Configure, Refresh, AdmitFails, Drop, Submit,
             JudgePanics, Complete, Abandon, unitVars
        <5>3. PICK best, target, v, q :
                best \in Energies /\ target \in Targets /\ JudgedAs(w, best, target, v, q)
          BY <5>2, JudgedSomehow
        <5>4. \A x \in Units \ {w} : ticket'[x] = ticket[x]
          BY <1>0, <5>2, <5>3, Judged
        <5> QED BY <3>3, <5>2, <5>4
      <4>2. PICK best, target, v, q :
              best \in Energies /\ target \in Targets /\ JudgedAs(u, best, target, v, q)
        BY <4>1, JudgedSomehow
      <4>3. /\ ticket'[u].stage \in {ticket[u].stage, ticket[u].stage + 1}
            /\ ticket'[u].gates = ticket[u].gates
        BY <1>0, <4>1, <4>2, Judged
      <4>4. ticket[u].stage + 1 <= ticket[u].gates
        BY <3>1, <4>1, WithinPlan DEF Judge
      <4> QED BY <2>1, <3>1, <4>3, <4>4
    <3> QED BY <3>2, <3>3
  <2> QED BY <1>0, <1>1, <2>2, <2>3 DEF GatesInv
<1> QED BY <1>2, <1>3

-----------------------------------------------------------------------------
(* Audits *)

(* What a plan learns of a unit at a checkpoint, or at its end.            *)
LEMMA LearntMarks ==
  ASSUME NEW p \in PlanSet, NEW t \in Tickets, NEW u \in Units, NEW j \in Int, NEW q,
         q \in {p, ObserveTransition(p, t, u), Observed(ObserveTransition(p, t, u), j)}
  PROVE  /\ DOMAIN q.kept = DOMAIN p.kept /\ DOMAIN q.lanes = DOMAIN p.lanes
         /\ DOMAIN p.kept = DOMAIN p.lanes /\ DOMAIN p.kept \subseteq Int
         /\ \A k \in DOMAIN p.kept : \A w : w \in q.kept[k] =>
              \/ w \in p.kept[k]
              \/ w = u /\ t.stage # 0 /\ k = t.stage - 1 /\ ~t.audited
         /\ \A k \in DOMAIN p.lanes : \A w : w \in q.lanes[k] =>
              \/ w \in p.lanes[k]
              \/ w = u /\ t.stage # 0 /\ k = t.stage - 1 /\ t.audited
<1> DEFINE n == Len(p.stages)
           i == t.stage - 1
           o == ObserveTransition(p, t, u)
<1>1. p \in PlanFor(n) /\ n \in Nat
  BY PlanShape
<1> HIDE DEF n
<1>2. /\ p.kept \in [0..(n - 1) -> SUBSET Units] /\ p.lanes \in [0..(n - 1) -> SUBSET Units]
      /\ p = [stages |-> p.stages, gated |-> p.gated, open |-> p.open, seen |-> p.seen,
              kept |-> p.kept, lanes |-> p.lanes]
  BY <1>1 DEF PlanFor
<1>3. /\ DOMAIN p.kept = 0..(n - 1) /\ DOMAIN p.lanes = 0..(n - 1) /\ 0..(n - 1) \subseteq Int
  BY <1>1, <1>2
<1>4. \/ o = p
      \/ t.stage # 0 /\ ~t.audited /\ o = [p EXCEPT !.kept[i] = @ \union {u}]
      \/ t.stage # 0 /\ t.audited /\ o = [p EXCEPT !.lanes[i] = @ \union {u}]
  BY DEF ObserveTransition
<1> HIDE DEF o, i
<1>5. \/ o.kept = p.kept /\ o.lanes = p.lanes
      \/ t.stage # 0 /\ ~t.audited /\ o.kept = [p.kept EXCEPT ![i] = @ \union {u}]
         /\ o.lanes = p.lanes
      \/ t.stage # 0 /\ t.audited /\ o.lanes = [p.lanes EXCEPT ![i] = @ \union {u}]
         /\ o.kept = p.kept
  <2>1. CASE o = [p EXCEPT !.kept[i] = @ \union {u}]
    <3>1. o = [stages |-> p.stages, gated |-> p.gated, open |-> p.open, seen |-> p.seen,
               kept |-> [p.kept EXCEPT ![i] = @ \union {u}], lanes |-> p.lanes]
      BY <2>1, <1>2
    <3>2. o.kept = [p.kept EXCEPT ![i] = @ \union {u}] /\ o.lanes = p.lanes
      BY <3>1
    <3> QED BY <2>1, <3>2, <1>2, <1>4
  <2>2. CASE o = [p EXCEPT !.lanes[i] = @ \union {u}]
    <3>1. o = [stages |-> p.stages, gated |-> p.gated, open |-> p.open, seen |-> p.seen,
               kept |-> p.kept, lanes |-> [p.lanes EXCEPT ![i] = @ \union {u}]]
      BY <2>2, <1>2
    <3>2. o.lanes = [p.lanes EXCEPT ![i] = @ \union {u}] /\ o.kept = p.kept
      BY <3>1
    <3> QED BY <2>2, <3>2, <1>2, <1>4
  <2> QED BY <2>1, <2>2, <1>4
<1>6. \/ q.kept = p.kept /\ q.lanes = p.lanes
      \/ q.kept = o.kept /\ q.lanes = o.lanes
  <2>1. CASE q = p
    BY <2>1
  <2>2. CASE q = o
    BY <2>2
  <2>3. CASE q = Observed(o, j)
    <3>1. o \in PlanSet
      BY TransitionKeeps DEF o
    <3>2. o \in PlanFor(Len(o.stages))
      BY <3>1, PlanShape
    <3>3. q.kept = o.kept /\ q.lanes = o.lanes
      BY <2>3, <3>2 DEF Observed, PlanFor
    <3> QED BY <3>3
  <2> QED BY <2>1, <2>2, <2>3 DEF o
<1>7. \/ q.kept = p.kept /\ q.lanes = p.lanes
      \/ t.stage # 0 /\ ~t.audited /\ q.kept = [p.kept EXCEPT ![i] = @ \union {u}]
         /\ q.lanes = p.lanes
      \/ t.stage # 0 /\ t.audited /\ q.lanes = [p.lanes EXCEPT ![i] = @ \union {u}]
         /\ q.kept = p.kept
  BY <1>5, <1>6
<1>8. CASE q.kept = p.kept /\ q.lanes = p.lanes
  BY <1>3, <1>8
<1>9. CASE t.stage # 0 /\ ~t.audited /\ q.kept = [p.kept EXCEPT ![i] = @ \union {u}]
           /\ q.lanes = p.lanes
  BY <1>2, <1>3, <1>9 DEF i
<1>10. CASE t.stage # 0 /\ t.audited /\ q.lanes = [p.lanes EXCEPT ![i] = @ \union {u}]
            /\ q.kept = p.kept
  BY <1>2, <1>3, <1>10 DEF i
<1> QED BY <1>7, <1>8, <1>9, <1>10

(* The marks of the plans of the next state, against the present tickets   *)
(* and audits.                                                             *)
MarksOfNext ==
  \A i \in DOMAIN plans' :
     /\ DOMAIN (plans'[i]).kept = DOMAIN (plans'[i]).lanes
     /\ \A k \in DOMAIN (plans'[i]).kept :
          /\ k \in Int
          /\ \A w \in (plans'[i]).kept[k] :
               ticket[w] # None /\ k < ticket[w].stage /\ <<w, k>> \notin audits
          /\ \A w \in (plans'[i]).lanes[k] : <<w, k>> \in audits

LEMMA MarksBefore ==
  ASSUME PlansInv, MarksInv, NEW i \in DOMAIN plans
  PROVE  /\ DOMAIN plans[i].kept = DOMAIN plans[i].lanes
         /\ \A k \in DOMAIN plans[i].kept :
              /\ k \in Int /\ plans[i].kept[k] \subseteq Units
              /\ \A w \in plans[i].kept[k] :
                   ticket[w] # None /\ k < ticket[w].stage /\ <<w, k>> \notin audits
              /\ \A w \in plans[i].lanes[k] : <<w, k>> \in audits
<1>1. plans[i] \in PlanSet
  BY PlanIn
<1>2. plans[i] \in PlanFor(Len(plans[i].stages)) /\ Len(plans[i].stages) \in Nat
  BY <1>1, PlanShape
<1>3. /\ DOMAIN plans[i].kept = 0..(Len(plans[i].stages) - 1)
      /\ DOMAIN plans[i].lanes = 0..(Len(plans[i].stages) - 1)
      /\ \A k \in DOMAIN plans[i].kept : k \in Int /\ plans[i].kept[k] \subseteq Units
  BY <1>2 DEF PlanFor
<1> QED BY <1>3 DEF MarksInv, AuditsSelected

LEMMA MarksLearnt ==
  ASSUME ControllerInv, MarksInv, NEW u \in Units, at[u] = "live", NEW j \in Int, NEW q,
         q \in {PlanOf(u), ObserveTransition(PlanOf(u), ticket[u], u),
                Observed(ObserveTransition(PlanOf(u), ticket[u], u), j)},
         plans' = plans \/ plans' = [plans EXCEPT ![ticket[u].plan] = q]
  PROVE  MarksOfNext
<1> DEFINE t == ticket[u]
           p == PlanOf(u)
<1>1. /\ t \in Tickets /\ t.plan \in DOMAIN plans /\ PlansInv /\ p = plans[t.plan]
      /\ t.stage \in Nat /\ t # None
  BY ControllerAssumption DEF ControllerInv, UnitsInv, ShapeInv, PlanOf, Tickets,
     ControllerAssumption
<1>2. p \in PlanSet
  BY <1>1, PlanIn
<1>3. /\ DOMAIN q.kept = DOMAIN p.kept /\ DOMAIN q.lanes = DOMAIN p.lanes
      /\ \A k \in DOMAIN p.kept : \A w : w \in q.kept[k] =>
           \/ w \in p.kept[k]
           \/ w = u /\ t.stage # 0 /\ k = t.stage - 1 /\ ~t.audited
      /\ \A k \in DOMAIN p.lanes : \A w : w \in q.lanes[k] =>
           \/ w \in p.lanes[k]
           \/ w = u /\ t.stage # 0 /\ k = t.stage - 1 /\ t.audited
  <2>1. q \in {p, ObserveTransition(p, t, u), Observed(ObserveTransition(p, t, u), j)}
    OBVIOUS
  <2>2. t \in Tickets
    BY <1>1
  <2> HIDE DEF p, t
  <2> QED BY <1>2, <2>1, <2>2, LearntMarks
<1>4. t.stage # 0 => (t.audited <=> <<u, t.stage - 1>> \in audits)
  BY DEF MarksInv, Marked
<1>5. t.stage - 1 < t.stage
  BY <1>1
<1>6. /\ DOMAIN p.kept = DOMAIN p.lanes
      /\ \A k \in DOMAIN p.kept :
           /\ k \in Int
           /\ \A w \in p.kept[k] :
                ticket[w] # None /\ k < ticket[w].stage /\ <<w, k>> \notin audits
           /\ \A w \in p.lanes[k] : <<w, k>> \in audits
  BY <1>1, MarksBefore
<1> HIDE DEF p, t
<1>7. /\ DOMAIN q.kept = DOMAIN q.lanes
      /\ \A k \in DOMAIN q.kept :
           /\ k \in Int
           /\ \A w \in q.kept[k] :
                ticket[w] # None /\ k < ticket[w].stage /\ <<w, k>> \notin audits
           /\ \A w \in q.lanes[k] : <<w, k>> \in audits
  BY <1>1, <1>3, <1>4, <1>5, <1>6 DEF t
<1>8. \A i \in DOMAIN plans' : i \in DOMAIN plans /\ (plans'[i] = plans[i] \/ plans'[i] = q)
  <2>1. CASE plans' = plans
    BY <2>1
  <2>2. CASE plans' = [plans EXCEPT ![t.plan] = q]
    BY <2>2
  <2> QED BY <2>1, <2>2 DEF t
<1>9. \A i \in DOMAIN plans :
        /\ DOMAIN plans[i].kept = DOMAIN plans[i].lanes
        /\ \A k \in DOMAIN plans[i].kept :
             /\ k \in Int
             /\ \A w \in plans[i].kept[k] :
                  ticket[w] # None /\ k < ticket[w].stage /\ <<w, k>> \notin audits
             /\ \A w \in plans[i].lanes[k] : <<w, k>> \in audits
  BY <1>1, MarksBefore
<1> QED BY <1>7, <1>8, <1>9 DEF MarksOfNext

(* A plan that is added or opened has no new marks.                        *)
LEMMA MarksOfNewPlan ==
  ASSUME PlansInv, MarksInv,
         \/ plans' = plans
         \/ plans' = [plans EXCEPT ![plan].open = config.open]
         \/ \E c \in Configs, g \in BOOLEAN :
              plans' = Append(plans, StagePlan(Effective(c, g))) /\ plan' = Len(plans) + 1
  PROVE  MarksOfNext
<1>0. \A i \in DOMAIN plans :
        /\ DOMAIN plans[i].kept = DOMAIN plans[i].lanes
        /\ \A k \in DOMAIN plans[i].kept :
             /\ k \in Int
             /\ \A w \in plans[i].kept[k] :
                  ticket[w] # None /\ k < ticket[w].stage /\ <<w, k>> \notin audits
             /\ \A w \in plans[i].lanes[k] : <<w, k>> \in audits
  BY MarksBefore
<1>1. CASE plans' = plans
  BY <1>0, <1>1 DEF MarksOfNext
<1>2. CASE plans' = [plans EXCEPT ![plan].open = config.open]
  <2>1. plan \in DOMAIN plans
    BY DEF PlansInv
  <2>2. plans[plan] \in PlanFor(Len(plans[plan].stages))
    BY <2>1, PlanIn, PlanShape
  <2>3. /\ [plans[plan] EXCEPT !.open = config.open].kept = plans[plan].kept
        /\ [plans[plan] EXCEPT !.open = config.open].lanes = plans[plan].lanes
    BY <2>2 DEF PlanFor
  <2>4. /\ DOMAIN plans' = DOMAIN plans
        /\ plans'[plan] = [plans[plan] EXCEPT !.open = config.open]
        /\ \A i \in DOMAIN plans \ {plan} : plans'[i] = plans[i]
    BY <1>2, <2>1
  <2>5. \A i \in DOMAIN plans' : /\ i \in DOMAIN plans /\ (plans'[i]).kept = plans[i].kept
                                 /\ (plans'[i]).lanes = plans[i].lanes
    BY <2>3, <2>4
  <2> QED BY <1>0, <2>5 DEF MarksOfNext
<1>3. ASSUME NEW c \in Configs, NEW g \in BOOLEAN,
             plans' = Append(plans, StagePlan(Effective(c, g))), plan' = Len(plans) + 1
      PROVE  MarksOfNext
  <2>1. PICK p : p = StagePlan(Effective(c, g))
    OBVIOUS
  <2>2. /\ p \in PlanSet
        /\ \A k \in 0..(Len(p.stages) - 1) : p.kept[k] = {} /\ p.lanes[k] = {}
    BY <2>1, NewPlan
  <2>3. /\ DOMAIN p.kept = 0..(Len(p.stages) - 1) /\ DOMAIN p.lanes = 0..(Len(p.stages) - 1)
        /\ \A k \in DOMAIN p.kept : k \in Int
    <3>1. p \in PlanFor(Len(p.stages)) /\ Len(p.stages) \in Nat
      BY <2>2, PlanShape
    <3> QED BY <3>1 DEF PlanFor
  <2>4. /\ DOMAIN plans' = 1..(Len(plans) + 1) /\ plans'[plan'] = p
        /\ \A i \in DOMAIN plans : plans'[i] = plans[i]
    BY <1>3, <2>1, <2>2, PlanAdded
  <2>5. \A i \in DOMAIN plans' : i \in DOMAIN plans \/ i = plan'
    <3>1. DOMAIN plans = 1..Len(plans) /\ Len(plans) \in Nat
      BY LenProperties DEF PlansInv
    <3>2. plan' = Len(plans) + 1 /\ DOMAIN plans' = 1..(Len(plans) + 1)
      BY <1>3, <2>4
    <3>3. \A i \in 1..(Len(plans) + 1) : i \in 1..Len(plans) \/ i = Len(plans) + 1
      BY <3>1
    <3> QED BY <3>1, <3>2, <3>3
  <2> QED BY <1>0, <2>2, <2>3, <2>4, <2>5 DEF MarksOfNext
<1> QED BY <1>1, <1>2, <1>3

(* A ticket is never lost, and counts up.                                  *)
LEMMA TicketsGrow ==
  ASSUME ControllerInv, [Next]_vars, NEW w, ticket[w] # None, w \in Units
  PROVE  ticket'[w] # None /\ ticket[w].stage <= ticket'[w].stage
         /\ ticket[w].stage \in Nat /\ ticket'[w].stage \in Nat
<1>0. /\ ShapeInv /\ UnitsInv /\ ticket[w] \in Tickets /\ ticket[w].stage \in Nat
      /\ None \notin Tickets /\ \A t \in Tickets : t.stage \in Nat
  BY ControllerAssumption DEF ControllerInv, ShapeInv, TypeOK, Tickets, ControllerAssumption
<1>1. CASE ticket'[w] = ticket[w]
  BY <1>0, <1>1
<1>2. CASE Admit
  <2>1. PICK u : u = Head(queue).unit
    OBVIOUS
  <2>2. ticket[u] = None /\ \A v \in Units \ {u} : ticket'[v] = ticket[v]
    BY <1>0, <1>2, <2>1, HeadTaken, Admitted DEF Admit
  <2> QED BY <1>1, <2>2
<1>3. ASSUME NEW u \in Units, Judge(u)
      PROVE  ticket'[w] # None /\ ticket[w].stage <= ticket'[w].stage
             /\ ticket[w].stage \in Nat /\ ticket'[w].stage \in Nat
  <2>1. PICK best, target, v, q :
          best \in Energies /\ target \in Targets /\ JudgedAs(u, best, target, v, q)
    BY <1>3, JudgedSomehow
  <2>2. /\ ticket'[u] \in Tickets
        /\ ticket'[u].stage = IF v.go THEN ticket[u].stage + 1 ELSE ticket[u].stage
        /\ \A x \in Units \ {u} : ticket'[x] = ticket[x]
    BY <1>0, <1>3, <2>1, Judged
  <2>3. CASE w = u
    <3>1. ticket'[u].stage = ticket[u].stage + 1 \/ ticket'[u].stage = ticket[u].stage
      BY <2>2
    <3>2. ticket'[w] # None /\ ticket'[w].stage \in Nat
      BY <2>2, <2>3, <1>0
    <3> QED BY <2>3, <3>1, <3>2, <1>0
  <2> QED BY <1>1, <2>2, <2>3
<1>4. CASE ~Admit /\ ~(\E u \in Units : Judge(u))
  <2>1. ticket' = ticket
    BY <1>4 DEF Next, Stopped, vars, Configure, Refresh, AdmitFails, Drop, Submit, JudgePanics,
       Complete, Abandon, unitVars
  <2> QED BY <1>1, <2>1
<1> QED BY <1>2, <1>3, <1>4

(* New marks and one new audit are of stages their unit has reached.       *)
LEMMA MarksCombine ==
  ASSUME ControllerInv, MarksInv, [Next]_vars, MarksOfNext,
         \A i \in DOMAIN plans' : \A k \in DOMAIN (plans'[i]).kept : (plans'[i]).kept[k] \subseteq Units,
         NEW chosen, audits' = audits \union chosen,
         \A x \in chosen : \E u \in Units :
            /\ x = <<u, ticket[u].stage>> /\ ticket[u] # None
            /\ ticket[u].stage + 1 <= ticket'[u].stage,
         \A u \in Units : at'[u] = "live" => Marked(u)'
  PROVE  MarksInv'
<1>1. ASSUME NEW u \in Units, NEW k \in Nat, <<u, k>> \in audits'
      PROVE  ticket'[u] # None /\ k < ticket'[u].stage
  <2>1. CASE <<u, k>> \in audits
    <3>1. ticket[u] # None /\ k < ticket[u].stage
      BY <2>1 DEF MarksInv
    <3> QED BY <3>1, TicketsGrow
  <2>2. CASE <<u, k>> \in chosen
    <3>1. ticket[u] # None /\ k = ticket[u].stage /\ ticket[u].stage + 1 <= ticket'[u].stage
      BY <2>2
    <3> QED BY <3>1, TicketsGrow
  <2> QED BY <1>1, <2>1, <2>2
<1>2. ASSUME NEW i \in DOMAIN plans', NEW k \in DOMAIN (plans'[i]).kept,
             NEW w \in (plans'[i]).kept[k]
      PROVE  /\ ticket'[w] # None /\ k < ticket'[w].stage /\ <<w, k>> \notin audits'
  <2>1. /\ k \in Int /\ ticket[w] # None /\ k < ticket[w].stage /\ <<w, k>> \notin audits
        /\ w \in Units
    BY <1>2 DEF MarksOfNext
  <2>2. ticket'[w] # None /\ ticket[w].stage <= ticket'[w].stage
        /\ ticket[w].stage \in Nat /\ ticket'[w].stage \in Nat
    BY <2>1, TicketsGrow
  <2>3. <<w, k>> \notin chosen
    <3>1. k # ticket[w].stage
      BY <2>1, <2>2
    <3> QED BY <3>1
  <2> QED BY <2>1, <2>2, <2>3
<1>3. AuditsSelected'
  BY <1>2 DEF AuditsSelected, MarksOfNext
<1> QED BY <1>1, <1>2, <1>3 DEF MarksInv

LEMMA KeptUnits ==
  ASSUME NEW ps \in Seq(PlanSet)
  PROVE  \A i \in DOMAIN ps : \A k \in DOMAIN ps[i].kept : ps[i].kept[k] \subseteq Units
<1>1. ASSUME NEW i \in DOMAIN ps PROVE ps[i] \in PlanFor(Len(ps[i].stages))
  BY LenProperties, ElementOfSeq, PlanShape
<1> QED BY <1>1 DEF PlanFor

(* With closed gates a unit goes on with a mark exactly if its stage's     *)
(* cutoff chose it for an audit.                                           *)
LEMMA MarkedByCutoff ==
  ASSUME NEW p, NEW t, ~p.open, NEW best, NEW target,
         NEW v \in Verdicts(p, t, best, target)
  PROVE  LET decided == t.epoch = epoch /\ Decides(p, t.stage, best, target) IN
         /\ v.go /\ v.audited => decided
         /\ decided /\ v.audited => v.go
<1> DEFINE decided == t.epoch = epoch /\ Decides(p, t.stage, best, target)
<1>1. \A a, b : Verdict(a, b).go = a /\ Verdict(a, b).audited = b
  BY DEF Verdict
<1>2. CASE decided
  <2>1. v \in CutoffVerdicts(p, t)
    BY <1>2 DEF Verdicts
  <2> QED BY <1>2, <2>1 DEF CutoffVerdicts
<1>3. CASE ~decided
  <2>1. \/ v \in {Verdict(FALSE, t.audited), Verdict(TRUE, FALSE),
                  Verdict(best <= ChainGates[t.stage + 1], FALSE)}
    BY <1>3 DEF Verdicts, MarkAtTarget
  <2>2. ~(v.go /\ v.audited)
    BY <1>1, <2>1
  <2> QED BY <1>3, <2>2
<1> QED BY <1>2, <1>3

LEMMA JudgeMarks ==
  ASSUME ControllerInv, GatesInv, MarksInv, NEW u \in Units, Judge(u), [Next]_vars
  PROVE  MarksInv'
<1>1. PICK best, target, v, q :
        best \in Energies /\ target \in Targets /\ JudgedAs(u, best, target, v, q)
  BY JudgedSomehow
<1> DEFINE t == ticket[u]
           p == PlanOf(u)
           decided == t.epoch = epoch /\ Decides(p, t.stage, best, target)
           chosen == IF decided /\ v.audited THEN {<<u, t.stage>>} ELSE {}
<1>0. ShapeInv /\ UnitsInv /\ at[u] = "live" /\ at \in [Units -> {"new", "queued", "live", "done"}]
  BY DEF ControllerInv, ShapeInv, TypeOK, Judge
<1>2. /\ v \in [go : BOOLEAN, audited : BOOLEAN]
      /\ t \in Tickets /\ t.plan \in DOMAIN plans
      /\ PlansKeep
      /\ ticket'[u].audited = v.audited
      /\ ticket'[u].stage = IF v.go THEN t.stage + 1 ELSE t.stage
      /\ \A w \in Units \ {u} : ticket'[w] = ticket[w]
      /\ v.go => at' = at
      /\ ~v.go => Finish(u, best) \/ LeaveUnread(u)
  BY <1>0, <1>1, Judged
<1>3. t.stage \in Nat /\ t # None
  BY <1>2, ControllerAssumption DEF Tickets, ControllerAssumption
<1>4. ~p.open /\ v \in Verdicts(p, t, best, target)
  BY <1>1, <1>2 DEF GatesInv, PlanOf, JudgedAs
<1>5. (v.go /\ v.audited => decided) /\ (decided /\ v.audited => v.go)
  BY <1>4, MarkedByCutoff
<1>6. audits' = audits \union chosen
  BY <1>1 DEF JudgedAs
<1>7. MarksOfNext
  <2>1. plans' = [plans EXCEPT ![ticket[u].plan] = q]
    BY <1>1 DEF JudgedAs
  <2>2. t.stage \in Int
    BY <1>3
  <2>3. q \in {PlanOf(u), ObserveTransition(PlanOf(u), ticket[u], u),
               Observed(ObserveTransition(PlanOf(u), ticket[u], u), t.stage)}
    BY <1>1 DEF JudgedAs
  <2> HIDE DEF t
  <2> QED BY <1>0, <2>1, <2>2, <2>3, MarksLearnt
<1> HIDE DEF decided
<1>8. \A x \in chosen : \E w \in Units :
        /\ x = <<w, ticket[w].stage>> /\ ticket[w] # None
        /\ ticket[w].stage + 1 <= ticket'[w].stage
  <2>1. ASSUME decided, v.audited PROVE ticket[u].stage + 1 <= ticket'[u].stage
    <3>1. ticket'[u].stage = ticket[u].stage + 1
      BY <1>2, <1>5, <2>1
    <3> QED BY <1>3, <3>1
  <2> QED BY <2>1, <1>3
<1>9. ASSUME NEW w \in Units, at'[w] = "live" PROVE Marked(w)'
  <2>1. CASE w = u
    <3>1. v.go
      BY <1>0, <1>1, <1>2, <1>9, <2>1, JudgedLeaves
    <3>2. ticket'[u].stage = t.stage + 1 /\ ticket'[u].stage # 0
          /\ ticket'[u].stage - 1 = t.stage
      BY <1>2, <1>3, <3>1
    <3>3. <<u, t.stage>> \notin audits
      <4>1. ~(t.stage < t.stage)
        BY <1>3
      <4> QED BY <1>3, <4>1 DEF MarksInv
    <3>4. v.audited <=> <<u, t.stage>> \in audits'
      BY <1>2, <1>5, <1>6, <3>1, <3>3
    <3> QED BY <1>2, <2>1, <3>2, <3>4 DEF Marked
  <2>2. CASE w # u
    <3>1. ticket'[w] = ticket[w] /\ at[w] = "live"
      <4>1. at' = at \/ at' = [at EXCEPT ![u] = "done"]
        BY <1>2 DEF Finish, LeaveUnread
      <4> QED BY <1>0, <1>2, <1>9, <2>2, <4>1
    <3>2. \A k : <<w, k>> \in audits' <=> <<w, k>> \in audits
      BY <1>6, <2>2
    <3> QED BY <3>1, <3>2 DEF Marked, MarksInv
  <2> QED BY <2>1, <2>2
<1>10. \A i \in DOMAIN plans' : \A k \in DOMAIN (plans'[i]).kept :
         (plans'[i]).kept[k] \subseteq Units
  BY <1>2, KeptUnits DEF PlansKeep, PlansInv
<1> HIDE DEF chosen
<1> QED BY <1>6, <1>7, <1>8, <1>9, <1>10, MarksCombine

LEMMA MarksStep ==
  ASSUME ControllerInv, GatesInv, MarksInv, [Next]_vars
  PROVE  MarksInv'
<1>0. /\ ShapeInv /\ UnitsInv /\ PlansInv /\ config \in Configs /\ settings \in Configs
      /\ at \in [Units -> {"new", "queued", "live", "done"}]
  BY DEF ControllerInv, ShapeInv, TypeOK
<1>1. ASSUME NEW u \in Units, Judge(u) PROVE MarksInv'
  BY <1>1, JudgeMarks
<1>2. ASSUME audits' = audits, MarksOfNext, \A u \in Units : at'[u] = "live" => Marked(u)'
      PROVE  MarksInv'
  <2>1. ControllerInv'
    BY ControllerStep
  <2>2. \A i \in DOMAIN plans' : \A k \in DOMAIN (plans'[i]).kept :
          (plans'[i]).kept[k] \subseteq Units
    BY <2>1, KeptUnits DEF PlansInv, ControllerInv, ShapeInv
  <2> DEFINE none == {}
  <2>3. audits' = audits \union none
    BY <1>2
  <2>4. \A x \in none : \E u \in Units :
          /\ x = <<u, ticket[u].stage>> /\ ticket[u] # None
          /\ ticket[u].stage + 1 <= ticket'[u].stage
    OBVIOUS
  <2> HIDE DEF none
  <2> QED BY <1>2, <2>2, <2>3, <2>4, MarksCombine
<1>3. ASSUME NEW u \in Units, Complete(u) PROVE MarksInv'
  <2>1. /\ audits' = audits /\ ticket' = ticket /\ at[u] = "live"
        /\ at' = [at EXCEPT ![u] = "done"]
    BY <1>3 DEF Complete, Finish
  <2> DEFINE r == ObserveTransition(PlanOf(u), ticket[u], u)
             j == Len(r.stages)
  <2>2. plans' = plans \/ plans' = [plans EXCEPT ![ticket[u].plan] = Observed(r, j)]
    BY <1>3 DEF Complete, Learnt
  <2>3. j \in Int
    <3>1. PlanOf(u) \in PlanSet /\ ticket[u] \in Tickets
      BY <1>3, CompletePlans
    <3>2. r \in PlanSet
      BY <3>1, TransitionKeeps
    <3> QED BY <3>2, PlanShape
  <2> HIDE DEF j
  <2>4. MarksOfNext
    BY <2>1, <2>2, <2>3, MarksLearnt
  <2>5. \A w \in Units : at'[w] = "live" => Marked(w)'
    BY <1>0, <2>1 DEF Marked, MarksInv
  <2> QED BY <1>2, <2>1, <2>4, <2>5
<1>4. CASE Admit
  <2>1. PICK u : u = Head(queue).unit
    OBVIOUS
  <2>2. /\ u \in Units /\ ticket'[u].stage = 0 /\ ticket'[u].audited = FALSE
        /\ \A v \in Units \ {u} : ticket'[v] = ticket[v] /\ at'[v] = at[v]
        /\ UsePlan(u, cut'[u])
    BY <1>0, <1>4, <2>1, Admitted
  <2>3. audits' = audits
    BY <1>4 DEF Admit
  <2>4. MarksOfNext
    <3>1. Gated(u) \in BOOLEAN
      BY DEF Gated
    <3>2. \/ plans' = plans
          \/ \E c \in Configs, g \in BOOLEAN :
               plans' = Append(plans, StagePlan(Effective(c, g))) /\ plan' = Len(plans) + 1
      BY <1>0, <2>2, <3>1 DEF UsePlan
    <3> QED BY <1>0, <3>2, MarksOfNewPlan
  <2>5. \A w \in Units : at'[w] = "live" => Marked(w)'
    BY <2>2, <2>3 DEF Marked, MarksInv
  <2> QED BY <1>2, <2>3, <2>4, <2>5
<1>5. CASE Refresh
  <2>1. audits' = audits /\ ticket' = ticket /\ at' = at
    BY <1>5 DEF Refresh, historyVars, unitVars
  <2>2. MarksOfNext
    <3>1. \/ plans' = [plans EXCEPT ![plan].open = config.open]
          \/ \E c \in Configs, g \in BOOLEAN :
               plans' = Append(plans, StagePlan(Effective(c, g))) /\ plan' = Len(plans) + 1
      BY <1>0, <1>5, FALSE \in BOOLEAN DEF Refresh
    <3> QED BY <1>0, <3>1, MarksOfNewPlan
  <2>3. \A w \in Units : at'[w] = "live" => Marked(w)'
    BY <2>1 DEF Marked, MarksInv
  <2> QED BY <1>2, <2>1, <2>2, <2>3
<1>6. ASSUME plans' = plans, audits' = audits, ticket' = ticket, ~Admit
      PROVE  MarksInv'
  <2>1. MarksOfNext
    BY <1>0, <1>6, MarksOfNewPlan
  <2>2. \A w \in Units : at'[w] = "live" => Marked(w)'
    BY <1>6, NotAdmitted DEF Marked, MarksInv
  <2> QED BY <1>2, <1>6, <2>1, <2>2
<1>7. CASE (Configure \/ AdmitFails \/ Drop \/ UNCHANGED vars) /\ ~Admit
  BY <1>6, <1>7 DEF Configure, AdmitFails, Drop, vars, planVars, unitVars, historyVars
<1>8. ASSUME NEW u \in Units, Submit(u) \/ JudgePanics(u) \/ Abandon(u), ~Admit
      PROVE  MarksInv'
  BY <1>6, <1>8 DEF Submit, JudgePanics, Abandon, planVars, unitVars, historyVars
<1> QED BY <1>1, <1>3, <1>4, <1>5, <1>7, <1>8 DEF Next, Stopped

LEMMA GatesInit ==
  ASSUME ClosedGates, Init
  PROVE  GatesInv
<1> DEFINE p == StagePlan(Effective(FirstConfig, FALSE))
<1>1. FirstConfig \in Configs /\ FALSE \in BOOLEAN
  BY ControllerAssumption DEF ControllerAssumption
<1>2. ~p.open
  BY <1>1, NewPlan DEF ClosedGates
<1>3. plans = <<p>> /\ panicked = FALSE /\ \A u \in Units : at[u] = "new"
  BY DEF Init
<1> HIDE DEF p
<1>4. \A i \in DOMAIN plans : plans[i] = p
  BY <1>3
<1> QED BY <1>2, <1>3, <1>4 DEF GatesInv, CutByPlan, Screened, NoPanic

(* As long as no settings open the gates, every running unit stops at the  *)
(* sweep counts the stages of its ticket's plan name, whatever changes of  *)
(* stages, topology and chain gates come between its preparation and its   *)
(* admission (segment_schedule, admit_prepared, refresh).                  *)
THEOREM SchedulesFollowPlans ==
  ASSUME \A c \in Configs : ~c.open
  PROVE  Spec => []CutByPlan
<1>0. ClosedGates
  BY DEF ClosedGates
<1>1. Init => GatesInv
  BY <1>0, GatesInit
<1>2. ControllerInv /\ GatesInv /\ [Next]_vars => GatesInv'
  BY <1>0, GatesStep
<1>3. GatesInv => CutByPlan
  BY DEF GatesInv
<1> QED BY <1>1, <1>2, <1>3, ControllerAlways, PTL DEF Spec

(* As long as no settings open the gates, the runner never indexes a plan  *)
(* past its end, and a plan learns a unit's fate as that of an audit       *)
(* exactly if its cutoff had rejected the unit (observe_transition,        *)
(* checkpoint, finish).                                                    *)
THEOREM PlansLearnTruly ==
  ASSUME \A c \in Configs : ~c.open
  PROVE  Spec => []LearntInv
<1>0. ClosedGates
  BY DEF ClosedGates
<1>1. Init => GatesInv /\ MarksInv
  <2> SUFFICES ASSUME Init PROVE GatesInv /\ MarksInv
    OBVIOUS
  <2>1. FirstConfig \in Configs /\ FALSE \in BOOLEAN
    BY ControllerAssumption DEF ControllerAssumption
  <2> DEFINE p == StagePlan(Effective(FirstConfig, FALSE))
  <2>2. /\ p.open = FirstConfig.open /\ p \in PlanSet
        /\ \A k \in 0..(Len(p.stages) - 1) : p.kept[k] = {} /\ p.lanes[k] = {}
    BY <2>1, NewPlan
  <2>3. DOMAIN p.kept = 0..(Len(p.stages) - 1) /\ DOMAIN p.lanes = 0..(Len(p.stages) - 1)
    <3> HIDE DEF p
    <3> QED BY <2>2, PlanShape DEF PlanFor
  <2>4. plans = <<p>>
    BY DEF Init
  <2> HIDE DEF p
  <2>5. \A i \in DOMAIN plans : plans[i] = p
    BY <2>4
  <2>6. GatesInv
    BY <1>0, GatesInit
  <2>7. AuditsSelected
    BY <2>2, <2>3, <2>5 DEF AuditsSelected
  <2>8. \A u \in Units : at[u] # "live"
    BY DEF Init
  <2>9. audits = {}
    BY DEF Init
  <2> QED BY <2>2, <2>3, <2>5, <2>6, <2>7, <2>8, <2>9 DEF MarksInv
<1>2. ControllerInv /\ GatesInv /\ MarksInv /\ [Next]_vars => GatesInv' /\ MarksInv'
  BY <1>0, GatesStep, MarksStep
<1>3. GatesInv /\ MarksInv => LearntInv
  BY DEF GatesInv, MarksInv, LearntInv
<1> QED BY <1>1, <1>2, <1>3, ControllerAlways, PTL DEF Spec
=============================================================================
