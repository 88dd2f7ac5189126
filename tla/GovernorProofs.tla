--------------------------- MODULE GovernorProofs ---------------------------
(***************************************************************************)
(* Proofs that the knobs a dispatch is sized by stay in their bounds, and  *)
(* that the session's settings reach them, for any number of threads that  *)
(* open the device, any settings and any loads.                            *)
(*                                                                         *)
(* KnobsInv types the state, follows the GPU time from the counter to the  *)
(* poll and bounds the scale a runner has read.  ReachInv says who is      *)
(* still to store a setting that a knob does not have yet, unless          *)
(* overtaken.                                                              *)
(***************************************************************************)
EXTENDS Governor, FiniteSetTheorems, WellFoundedInduction, TLAPS

-----------------------------------------------------------------------------
(* The inductive invariant *)

Knobs == [ceiling : 1 .. 100, yielding : BOOLEAN]
Opening == [at : {"idle", "open", "read", "ceiling", "yielding"}, cfg : Knobs \union {None}]
Pushing == [at : {"idle", "push", "ceiling", "yielding"}, cfg : Knobs \union {None}]

KnobsInv ==
  /\ settings \in Settings /\ metal \in {"empty", "opening", "open"}
  /\ taking \in [Openers -> Opening] /\ applying \in Pushing /\ applies \in 0 .. MaxApplies
  /\ \A t \in Openers : taking[t].at \in {"open", "ceiling", "yielding"} => taking[t].cfg \in Settings
  /\ applying.at # "idle" => applying.cfg \in Settings
  /\ ceiling \in 1 .. 100 /\ yielding \in BOOLEAN /\ overtaken \in BOOLEAN
  /\ stop \in BOOLEAN /\ token \in BOOLEAN /\ stopper \in {"run", "told", "join", "joined"}
  /\ lastUtil \in 0 .. 100 /\ selfUtil \in 0 .. 100 /\ externalUtil \in 0 .. 100
  /\ poll \in [at : {"test", "sample", "drain", "share", "external", "park", "gone"},
               util : 0 .. 100, share : 0 .. 100]
  /\ busyUs \in Nat /\ reported \in Nat /\ drained \in Nat /\ busyUs + drained = reported
  /\ reading \in [at : {"idle", "ceiling", "yielding", "scale"}, ceiling : 0 .. 100,
                  yields : BOOLEAN, scale : 0 .. 200]
  /\ reading.at # "idle" => reading.ceiling \in 1 .. 100
  /\ reading.at = "scale" => reading.scale \in reading.ceiling .. 2 * reading.ceiling

(* A knob that does not have the setting has someone who will store it.    *)
ReachInv ==
  /\ applying.at # "idle" => applying.cfg = settings
  /\ ~overtaken =>
       \A t \in Openers : taking[t].at \in {"ceiling", "yielding"} => taking[t].cfg = settings
  /\ metal = "open" /\ ~overtaken =>
       /\ \/ ceiling = settings.ceiling \/ applying.at \in {"push", "ceiling"}
          \/ \E t \in Openers : taking[t].at \in {"read", "ceiling"}
       /\ \/ yielding = settings.yielding \/ applying.at \in {"push", "ceiling", "yielding"}
          \/ \E t \in Openers : taking[t].at \in {"read", "ceiling", "yielding"}

-----------------------------------------------------------------------------
(* The arithmetic *)

(* A finite set of integers has a greatest element: one with the fewest    *)
(* above it.                                                               *)
LEMMA Greatest ==
  ASSUME NEW S, IsFiniteSet(S), S \subseteq Int, S # {}
  PROVE  Max(S) \in S /\ \A y \in S : Max(S) >= y
<1> DEFINE above(x) == {y \in S : y > x}
           counts == {Cardinality(above(x)) : x \in S}
           less == OpToRel(<, Nat)
<1>1. ASSUME NEW x \in S PROVE IsFiniteSet(above(x)) /\ Cardinality(above(x)) \in Nat
  <2>1. above(x) \in SUBSET S
    OBVIOUS
  <2> QED BY <2>1, FS_Subset, FS_CardinalityType
<1>2. counts \subseteq Nat /\ counts # {}
  BY <1>1
<1>3. PICK n \in counts : \A m \in counts : ~(<<m, n>> \in less)
  <2> HIDE DEF counts, less
  <2>1. IsWellFoundedOn(less, Nat)
    BY NatLessThanWellFounded DEF less
  <2> QED BY <1>2, <2>1, WFMin
<1>4. PICK x \in S : n = Cardinality(above(x))
  OBVIOUS
<1>5. ASSUME NEW y \in S PROVE ~(y > x)
  <2> SUFFICES ASSUME y > x PROVE FALSE
    OBVIOUS
  <2>1. above(y) \subseteq above(x) /\ above(y) # above(x)
    <3>1. above(y) \subseteq above(x)
      <4>1. x \in Int /\ y \in Int /\ \A z \in S : z \in Int
        OBVIOUS
      <4>2. ASSUME NEW z \in S, z > y PROVE z > x
        BY <4>1, <4>2
      <4> QED BY <4>2
    <3>2. y \in above(x) /\ y \notin above(y)
      OBVIOUS
    <3> QED BY <3>1, <3>2
  <2>2. Cardinality(above(y)) < Cardinality(above(x))
    <3> HIDE DEF above
    <3> QED BY <1>1, <2>1, FS_Subset
  <2>3. <<Cardinality(above(y)), n>> \in less
    <3>1. Cardinality(above(y)) \in Nat /\ n \in Nat /\ Cardinality(above(y)) < n
      BY <1>1, <1>4, <2>2
    <3> HIDE DEF above
    <3> QED BY <3>1 DEF OpToRel
  <2>4. Cardinality(above(y)) \in counts
    OBVIOUS
  <2> QED BY <1>3, <2>3, <2>4
<1>6. \A y \in S : x >= y
  BY <1>5
<1>7. \E z \in S : \A y \in S : z >= y
  BY <1>6
<1> QED BY <1>7 DEF Max

(* What the accelerators say is a percentage.                              *)
LEMMA LoadIsPercent ==
  ASSUME NEW says \in [Accelerators -> Answers]
  PROVE  Utilization(says) \in 0 .. 100
<1> DEFINE S == Answered(says) \union {0}
<1>1. IsFiniteSet({says[a] : a \in Accelerators})
  <2> DEFINE T == {says[a] : a \in Accelerators}
  <2>1. says \in [Accelerators -> T] /\ \A t \in T : \E a \in Accelerators : says[a] = t
    OBVIOUS
  <2> HIDE DEF T
  <2>2. says \in Surjection(Accelerators, T)
    BY <2>1, Zenon DEF Surjection
  <2>3. IsFiniteSet(Accelerators)
    BY GovernorAssumption
  <2>4. IsFiniteSet(T)
    BY <2>2, <2>3, FS_Surjection
  <2> QED BY <2>4 DEF T
<1>2. S \subseteq Int /\ S # {} /\ 0 \in S
  <2>1. \A a \in Accelerators : says[a] \in Int \union {None}
    BY GovernorAssumption
  <2>2. Answered(says) \subseteq Int
    BY <2>1 DEF Answered
  <2> QED BY <2>2
<1>3. IsFiniteSet(S)
  <2>1. Answered(says) \in SUBSET {says[a] : a \in Accelerators}
    BY DEF Answered
  <2>2. IsFiniteSet(Answered(says))
    BY <1>1, <2>1, FS_Subset
  <2> QED BY <2>2, FS_AddElement
<1> HIDE DEF S
<1>4. Max(S) \in Int /\ Max(S) >= 0
  BY <1>2, <1>3, Greatest
<1>5. Utilization(says) = Least(Max(S), 100)
  BY DEF Utilization, S
<1> QED BY <1>4, <1>5 DEF Least

(* So is the share of a window the runners used.                           *)
LEMMA ShareIsPercent ==
  ASSUME NEW us \in Nat, NEW window \in Nat
  PROVE  SelfShare(us, window) \in 0 .. 100
<1>1. CASE window = 0
  BY <1>1 DEF SelfShare
<1>2. CASE window # 0
  <2>1. (us * 100) \div window \in Nat
    <3>1. us * 100 \in Nat /\ window \in Nat \ {0}
      BY <1>2
    <3>2. ASSUME NEW a \in Nat, NEW b \in Nat \ {0} PROVE a \div b \in Nat
      OBVIOUS
    <3> QED BY <3>1, <3>2
  <2>2. SelfShare(us, window) = Least((us * 100) \div window, 100)
    BY <1>2 DEF SelfShare
  <2> QED BY <2>1, <2>2 DEF Least
<1> QED BY <1>1, <1>2

(* The scale keeps between half the ceiling and the ceiling.               *)
LEMMA ScaleInBounds ==
  ASSUME NEW c \in 1 .. 100, NEW yields \in BOOLEAN, NEW external \in 0 .. 100
  PROVE  Scale(c, yields, external) \in c .. 2 * c /\ Scale(c, yields, external) \in 0 .. 200
BY DEF Scale, Least, Most

(* A dispatch is never empty, nor larger than a full one.                  *)
LEMMA BudgetInBounds ==
  ASSUME NEW scale \in Nat
  PROVE  Budget(scale) \in 1 .. Nominal
<1>1. Nominal \in Nat \ {0}
  BY GovernorAssumption
<1>2. CASE scale >= 200
  BY <1>1, <1>2 DEF Budget
<1>3. CASE ~(scale >= 200)
  <2> DEFINE p == Nominal * scale
             b == (p + 100) \div 200
  <2>1. p \in Nat /\ p <= Nominal * 199
    <3>1. ASSUME NEW a \in Nat, NEW m \in 0 .. 199 PROVE a * m \in Nat /\ a * m <= a * 199
      <4>1. 199 - m \in Nat /\ a * (199 - m) \in Nat /\ a * m \in Nat
        OBVIOUS
      <4>2. a * 199 = a * m + a * (199 - m)
        OBVIOUS
      <4> QED BY <4>1, <4>2
    <3> QED BY <1>1, <1>3, <3>1
  <2> HIDE DEF p
  <2>2. b \in Nat /\ b <= Nominal
    BY <1>1, <2>1
  <2>3. Budget(scale) = Most(b, 1)
    BY <1>3 DEF Budget, p
  <2> HIDE DEF b
  <2> QED BY <1>1, <2>2, <2>3 DEF Most
<1> QED BY <1>2, <1>3

-----------------------------------------------------------------------------
(* The knobs *)

(* Settings are knob values, and None is no setting's place holder.        *)
LEMMA SettingsAreKnobs == \A s \in Settings : s \in Knobs
BY GovernorAssumption DEF Knobs

(* What the openers and the session do keeps the types of the settings.    *)
LEMMA ConfigSteps ==
  ASSUME KnobsInv,
         \/ \E t \in Openers : TakeMetal(t) \/ OpenDevice(t) \/ ReadSettings(t) \/ Reconfigure(t)
         \/ Apply \/ Push \/ ApplyReconfigure
  PROVE  KnobsInv'
<1> USE SettingsAreKnobs DEF Opening, Pushing, Knobs
<1>1. /\ settings \in Settings /\ metal \in {"empty", "opening", "open"}
      /\ taking \in [Openers -> Opening] /\ applying \in Pushing /\ applies \in 0 .. MaxApplies
      /\ \A t \in Openers : taking[t] \in Opening
      /\ \A t \in Openers :
           taking[t].at \in {"open", "ceiling", "yielding"} => taking[t].cfg \in Settings
      /\ applying.at # "idle" => applying.cfg \in Settings
      /\ ceiling \in 1 .. 100 /\ yielding \in BOOLEAN /\ overtaken \in BOOLEAN
  BY DEF KnobsInv
<1>2. Idle \in Opening /\ Idle \in Pushing /\ Idle.at = "idle"
  BY DEF Idle
<1>3. ASSUME /\ settings' \in Settings /\ metal' \in {"empty", "opening", "open"}
             /\ taking' \in [Openers -> Opening] /\ applying' \in Pushing
             /\ applies' \in 0 .. MaxApplies
             /\ \A t \in Openers :
                  taking'[t].at \in {"open", "ceiling", "yielding"} => taking'[t].cfg \in Settings
             /\ applying'.at # "idle" => applying'.cfg \in Settings
             /\ ceiling' \in 1 .. 100 /\ yielding' \in BOOLEAN /\ overtaken' \in BOOLEAN,
             UNCHANGED <<utilVars, creditVars, stopVars, poll, reading>>
      PROVE  KnobsInv'
  BY <1>3 DEF KnobsInv, utilVars, creditVars, stopVars
<1>4. ASSUME NEW t \in Openers, NEW r \in Opening, taking' = [taking EXCEPT ![t] = r],
             r.at \in {"open", "ceiling", "yielding"} => r.cfg \in Settings
      PROVE  /\ taking' \in [Openers -> Opening]
             /\ \A u \in Openers :
                  taking'[u].at \in {"open", "ceiling", "yielding"} => taking'[u].cfg \in Settings
  BY <1>1, <1>4
<1>5. ASSUME NEW t \in Openers, TakeMetal(t) PROVE KnobsInv'
  <2>1. CASE metal = "empty"
    <3> DEFINE r == [at |-> "open", cfg |-> settings]
    <3>1. r \in Opening /\ r.cfg \in Settings /\ taking' = [taking EXCEPT ![t] = r] /\ metal' = "opening"
      BY <1>1, <1>5, <2>1 DEF TakeMetal
    <3> QED BY <1>1, <1>3, <1>4, <1>5, <3>1 DEF TakeMetal, knobVars
  <2>2. CASE metal # "empty"
    <3> DEFINE r == [taking[t] EXCEPT !.at = "read"]
    <3>1. r \in Opening /\ r.at = "read" /\ taking' = [taking EXCEPT ![t] = r] /\ metal' = metal
      BY <1>1, <1>5, <2>2 DEF TakeMetal
    <3> HIDE DEF r
    <3> QED BY <1>1, <1>3, <1>4, <1>5, <3>1 DEF TakeMetal, knobVars
  <2> QED BY <2>1, <2>2
<1>6. ASSUME NEW t \in Openers, OpenDevice(t) PROVE KnobsInv'
  <2> DEFINE r == [at |-> "read", cfg |-> None]
  <2>1. r \in Opening /\ r.at = "read" /\ taking' = [taking EXCEPT ![t] = r]
    BY <1>6 DEF OpenDevice
  <2>2. taking[t].cfg \in Knobs
    BY <1>1, <1>6 DEF OpenDevice
  <2> HIDE DEF r
  <2>3. ceiling' \in 1 .. 100 /\ yielding' \in BOOLEAN
    BY <1>6, <2>2 DEF OpenDevice
  <2> QED BY <1>1, <1>3, <1>4, <1>6, <2>1, <2>3, SMTT(30) DEF OpenDevice
<1>7. ASSUME NEW t \in Openers, ReadSettings(t) PROVE KnobsInv'
  <2> DEFINE r == [at |-> "ceiling", cfg |-> settings]
  <2>1. r \in Opening /\ r.cfg \in Settings /\ taking' = [taking EXCEPT ![t] = r]
    BY <1>1, <1>7 DEF ReadSettings
  <2> HIDE DEF r
  <2> QED BY <1>1, <1>3, <1>4, <1>7, <2>1 DEF ReadSettings, knobVars
<1>8. ASSUME NEW who, who.cfg \in Knobs, Stored(who)
      PROVE  ceiling' \in 1 .. 100 /\ yielding' \in BOOLEAN
  BY <1>1, <1>8 DEF Stored
<1>9. ASSUME NEW t \in Openers, Reconfigure(t) PROVE KnobsInv'
  <2>1. taking[t].at \in {"ceiling", "yielding"} /\ Stored(taking[t])
        /\ taking' = [taking EXCEPT ![t] = AfterStore(taking[t])]
    BY <1>9 DEF Reconfigure, Stored
  <2>2. taking[t].cfg \in Settings
    BY <1>1, <2>1
  <2>3. /\ AfterStore(taking[t]) \in Opening
        /\ AfterStore(taking[t]).at \in {"open", "ceiling", "yielding"} =>
             AfterStore(taking[t]).cfg \in Settings
    BY <1>1, <1>2, <2>2 DEF AfterStore
  <2>4. ceiling' \in 1 .. 100 /\ yielding' \in BOOLEAN
    BY <1>8, <2>1, <2>2
  <2>5. /\ taking' \in [Openers -> Opening]
        /\ \A u \in Openers :
             taking'[u].at \in {"open", "ceiling", "yielding"} => taking'[u].cfg \in Settings
    BY <1>4, <2>1, <2>3
  <2> QED BY <1>1, <1>3, <1>9, <2>4, <2>5 DEF Reconfigure
<1>10. CASE Apply
  <2>1. PICK s \in Settings : settings' = s /\ applying' = [at |-> "push", cfg |-> s]
    BY <1>10 DEF Apply
  <2>2. applying' \in Pushing /\ applying'.cfg \in Settings
    BY <2>1
  <2>3. applies' \in 0 .. MaxApplies
    BY <1>1, <1>10, GovernorAssumption DEF Apply
  <2>4. overtaken' \in BOOLEAN
    BY <1>10 DEF Apply
  <2> QED BY <1>1, <1>3, <1>10, <2>1, <2>2, <2>3, <2>4 DEF Apply, knobVars
<1>11. CASE Push
  <2>1. applying' \in Pushing /\ (applying'.at # "idle" => applying'.cfg \in Settings)
    BY <1>1, <1>2, <1>11 DEF Push
  <2> QED BY <1>1, <1>3, <1>11, <2>1 DEF Push, knobVars
<1>12. CASE ApplyReconfigure
  <2>1. applying.at \in {"ceiling", "yielding"} /\ Stored(applying)
        /\ applying' = AfterStore(applying)
    BY <1>12 DEF ApplyReconfigure, Stored
  <2>2. applying.cfg \in Settings
    BY <1>1, <2>1
  <2>3. applying' \in Pushing /\ (applying'.at # "idle" => applying'.cfg \in Settings)
    BY <1>1, <1>2, <2>1, <2>2 DEF AfterStore
  <2>4. ceiling' \in 1 .. 100 /\ yielding' \in BOOLEAN
    BY <1>8, <2>1, <2>2
  <2> QED BY <1>1, <1>3, <1>12, <2>3, <2>4 DEF ApplyReconfigure
<1> QED BY <1>5, <1>6, <1>7, <1>9, <1>10, <1>11, <1>12

(* Runners credit GPU time and read the knobs one after the other.         *)
LEMMA RunnerSteps ==
  ASSUME KnobsInv, Report \/ ReadCeiling \/ ReadYielding \/ ReadScale \/ UseScale
  PROVE  KnobsInv'
<1>1. /\ ceiling \in 1 .. 100 /\ yielding \in BOOLEAN /\ externalUtil \in 0 .. 100
      /\ busyUs \in Nat /\ reported \in Nat /\ drained \in Nat /\ busyUs + drained = reported
      /\ reading \in [at : {"idle", "ceiling", "yielding", "scale"}, ceiling : 0 .. 100,
                      yields : BOOLEAN, scale : 0 .. 200]
      /\ reading.at # "idle" => reading.ceiling \in 1 .. 100
  BY DEF KnobsInv
<1>2. ASSUME /\ reading' \in [at : {"idle", "ceiling", "yielding", "scale"}, ceiling : 0 .. 100,
                              yields : BOOLEAN, scale : 0 .. 200]
             /\ reading'.at # "idle" => reading'.ceiling \in 1 .. 100
             /\ reading'.at = "scale" => reading'.scale \in reading'.ceiling .. 2 * reading'.ceiling,
             UNCHANGED <<configVars, knobVars, utilVars, creditVars, stopVars, poll>>
      PROVE  KnobsInv'
  BY <1>2 DEF KnobsInv, configVars, knobVars, utilVars, creditVars, stopVars
<1>3. CASE Report
  <2>1. busyUs' \in Nat /\ reported' \in Nat /\ busyUs' + drained = reported'
    <3>1. Busy \in Nat /\ busyUs' = busyUs + Busy /\ reported' = reported + Busy
      BY <1>3, GovernorAssumption DEF Report
    <3> QED BY <1>1, <3>1
  <2> QED BY <1>3, <2>1 DEF Report, KnobsInv, configVars, knobVars, utilVars, stopVars
<1>4. CASE ReadCeiling
  <2>1. reading' = [at |-> "ceiling", ceiling |-> ceiling, yields |-> FALSE, scale |-> 200]
    BY <1>4 DEF ReadCeiling
  <2>2. /\ reading' \in [at : {"idle", "ceiling", "yielding", "scale"}, ceiling : 0 .. 100,
                         yields : BOOLEAN, scale : 0 .. 200]
        /\ reading'.at = "ceiling" /\ reading'.ceiling \in 1 .. 100
    BY <1>1, <2>1
  <2> QED BY <1>2, <1>4, <2>2 DEF ReadCeiling
<1>5. CASE ReadYielding
  <2>1. reading' = [reading EXCEPT !.at = "yielding", !.yields = yielding] /\ reading.at = "ceiling"
    BY <1>5 DEF ReadYielding
  <2>2. /\ reading' \in [at : {"idle", "ceiling", "yielding", "scale"}, ceiling : 0 .. 100,
                         yields : BOOLEAN, scale : 0 .. 200]
        /\ reading'.at = "yielding" /\ reading'.ceiling \in 1 .. 100
    <3>1. reading.ceiling \in 1 .. 100
      BY <1>1, <2>1
    <3>2. /\ reading' = [at |-> "yielding", ceiling |-> reading.ceiling, yields |-> yielding,
                         scale |-> reading.scale]
          /\ reading.ceiling \in 0 .. 100 /\ reading.scale \in 0 .. 200
          /\ reading'.at = "yielding" /\ reading'.ceiling = reading.ceiling
      BY <1>1, <2>1
    <3>3. reading' \in [at : {"idle", "ceiling", "yielding", "scale"}, ceiling : 0 .. 100,
                        yields : BOOLEAN, scale : 0 .. 200]
      BY <1>1, <3>2, Zenon
    <3> QED BY <3>1, <3>2, <3>3
  <2> QED BY <1>2, <1>5, <2>2 DEF ReadYielding
<1>6. CASE ReadScale
  <2> DEFINE s == Scale(reading.ceiling, reading.yields, externalUtil)
  <2>1. reading.ceiling \in 1 .. 100 /\ reading.yields \in BOOLEAN
    BY <1>1, <1>6 DEF ReadScale
  <2>2. s \in reading.ceiling .. 2 * reading.ceiling /\ s \in 0 .. 200
    BY <1>1, <2>1, ScaleInBounds, ZenonT(30)
  <2>3. reading' = [reading EXCEPT !.at = "scale", !.scale = s]
    BY <1>6 DEF ReadScale
  <2> HIDE DEF s
  <2>4. /\ reading' \in [at : {"idle", "ceiling", "yielding", "scale"}, ceiling : 0 .. 100,
                         yields : BOOLEAN, scale : 0 .. 200]
        /\ reading'.at = "scale" /\ reading'.ceiling \in 1 .. 100
        /\ reading'.scale \in reading'.ceiling .. 2 * reading'.ceiling
    <3>1. reading' \in [at : {"idle", "ceiling", "yielding", "scale"}, ceiling : 0 .. 100,
                        yields : BOOLEAN, scale : 0 .. 200]
      <4>1. /\ reading' = [at |-> "scale", ceiling |-> reading.ceiling, yields |-> reading.yields,
                           scale |-> s]
            /\ reading.ceiling \in 0 .. 100
        BY <1>1, <2>3
      <4>2. reading.yields \in BOOLEAN
        BY <2>1
      <4> QED BY <2>2, <4>1, <4>2, Zenon
    <3>2. reading'.at = "scale" /\ reading'.ceiling = reading.ceiling /\ reading'.scale = s
      BY <1>1, <2>3
    <3> QED BY <2>1, <2>2, <3>1, <3>2
  <2> QED BY <1>2, <1>6, <2>4 DEF ReadScale
<1>7. CASE UseScale
  <2>1. /\ reading' \in [at : {"idle", "ceiling", "yielding", "scale"}, ceiling : 0 .. 100,
                         yields : BOOLEAN, scale : 0 .. 200]
        /\ reading'.at = "idle"
    BY <1>7 DEF UseScale, NotReading
  <2> QED BY <1>2, <1>7, <2>1 DEF UseScale
<1> QED BY <1>3, <1>4, <1>5, <1>6, <1>7

(* The poll thread takes the GPU time once and keeps to percentages; the   *)
(* stopping thread touches neither.                                        *)
LEMMA PollSteps ==
  ASSUME KnobsInv, PollStep \/ Interval \/ Stop \/ Join
  PROVE  KnobsInv'
<1>1. /\ poll \in [at : {"test", "sample", "drain", "share", "external", "park", "gone"},
                   util : 0 .. 100, share : 0 .. 100]
      /\ busyUs \in Nat /\ reported \in Nat /\ drained \in Nat /\ busyUs + drained = reported
      /\ lastUtil \in 0 .. 100 /\ selfUtil \in 0 .. 100 /\ externalUtil \in 0 .. 100
      /\ stop \in BOOLEAN /\ token \in BOOLEAN /\ stopper \in {"run", "told", "join", "joined"}
  BY DEF KnobsInv
<1>2. ASSUME /\ poll' \in [at : {"test", "sample", "drain", "share", "external", "park", "gone"},
                           util : 0 .. 100, share : 0 .. 100]
             /\ busyUs' \in Nat /\ reported' \in Nat /\ drained' \in Nat
             /\ busyUs' + drained' = reported'
             /\ lastUtil' \in 0 .. 100 /\ selfUtil' \in 0 .. 100 /\ externalUtil' \in 0 .. 100
             /\ stop' \in BOOLEAN /\ token' \in BOOLEAN
             /\ stopper' \in {"run", "told", "join", "joined"},
             UNCHANGED <<configVars, knobVars, reading>>
      PROVE  KnobsInv'
  <2>1. /\ UNCHANGED <<settings, metal, taking, applying, applies, ceiling, yielding, reading>>
        /\ overtaken' = overtaken
    BY <1>2 DEF configVars, knobVars
  <2>2. /\ settings' \in Settings /\ metal' \in {"empty", "opening", "open"}
        /\ taking' \in [Openers -> Opening] /\ applying' \in Pushing
        /\ applies' \in 0 .. MaxApplies
        /\ \A t \in Openers :
             taking'[t].at \in {"open", "ceiling", "yielding"} => taking'[t].cfg \in Settings
        /\ applying'.at # "idle" => applying'.cfg \in Settings
        /\ ceiling' \in 1 .. 100 /\ yielding' \in BOOLEAN /\ overtaken' \in BOOLEAN
    BY <2>1 DEF KnobsInv
  <2>3. /\ reading' \in [at : {"idle", "ceiling", "yielding", "scale"}, ceiling : 0 .. 100,
                         yields : BOOLEAN, scale : 0 .. 200]
        /\ reading'.at # "idle" => reading'.ceiling \in 1 .. 100
        /\ reading'.at = "scale" => reading'.scale \in reading'.ceiling .. 2 * reading'.ceiling
    BY <2>1 DEF KnobsInv
  <2> QED BY <1>2, <2>2, <2>3, Zenon DEF KnobsInv
<1>3. CASE Test \/ Interval
  <2>1. /\ poll' \in [at : {"test", "sample", "drain", "share", "external", "park", "gone"},
                      util : 0 .. 100, share : 0 .. 100]
        /\ UNCHANGED <<configVars, knobVars, utilVars, creditVars, stopVars, reading>>
    BY <1>1, <1>3 DEF Test, Interval, PollGo
  <2>2. UNCHANGED <<lastUtil, selfUtil, externalUtil, busyUs, reported, drained, stop, token,
                    stopper>>
    BY <2>1 DEF utilVars, creditVars, stopVars
  <2> QED BY <2>1, <2>2 DEF KnobsInv, configVars, knobVars
<1>4. CASE Sample
  <2>1. PICK says \in [Accelerators -> Answers] :
          /\ lastUtil' = Utilization(says)
          /\ poll' = [poll EXCEPT !.at = "drain", !.util = Utilization(says)]
    BY <1>4 DEF Sample
  <2>2. Utilization(says) \in 0 .. 100
    BY LoadIsPercent
  <2> QED BY <1>1, <1>2, <1>4, <2>1, <2>2 DEF Sample, creditVars, stopVars
<1>5. CASE Drain
  <2>1. PICK window \in Windows :
          poll' = [poll EXCEPT !.at = "share", !.share = SelfShare(busyUs, window)]
    BY <1>5 DEF Drain
  <2>2. SelfShare(busyUs, window) \in 0 .. 100
    BY <1>1, ShareIsPercent, GovernorAssumption
  <2>3. poll' \in [at : {"test", "sample", "drain", "share", "external", "park", "gone"},
                   util : 0 .. 100, share : 0 .. 100]
    BY <1>1, <2>1, <2>2
  <2>4. drained' = drained + busyUs /\ busyUs' = 0 /\ reported' = reported
    BY <1>5 DEF Drain
  <2> QED BY <1>1, <1>2, <1>5, <2>3, <2>4 DEF Drain, utilVars, stopVars
<1>6. CASE Share
  BY <1>1, <1>2, <1>6 DEF Share, PollGo, creditVars, stopVars
<1>7. CASE External
  <2>1. externalUtil' \in 0 .. 100
    BY <1>1, <1>7 DEF External, Most
  <2> QED BY <1>1, <1>2, <1>7, <2>1 DEF External, creditVars, stopVars
<1>8. CASE Wake
  BY <1>1, <1>2, <1>8 DEF Wake, PollGo, utilVars, creditVars
<1>9. CASE Stop
  BY <1>1, <1>2, <1>9 DEF Stop, utilVars, creditVars
<1>10. CASE Join
  BY <1>1, <1>2, <1>10 DEF Join, utilVars, creditVars
<1> QED BY <1>3, <1>4, <1>5, <1>6, <1>7, <1>8, <1>9, <1>10 DEF PollStep

(* The state starts typed, and every step keeps it so.                     *)
LEMMA KnobsInvariant == Spec => []KnobsInv
<1>1. Init => KnobsInv
  <2> SUFFICES ASSUME Init PROVE KnobsInv
    OBVIOUS
  <2>1. settings = First /\ First \in Settings /\ First \in Knobs
    BY GovernorAssumption, SettingsAreKnobs DEF Init
  <2>2. Idle \in Opening /\ Idle \in Pushing /\ Idle.at = "idle" /\ taking = [t \in Openers |-> Idle]
        /\ applying = Idle
    BY DEF Idle, Opening, Pushing, Init
  <2>3. applies = 0 /\ 0 \in 0 .. MaxApplies
    BY GovernorAssumption DEF Init
  <2>4. ceiling \in 1 .. 100 /\ yielding \in BOOLEAN
    BY <2>1 DEF Init, Knobs
  <2>5. /\ reading \in [at : {"idle", "ceiling", "yielding", "scale"}, ceiling : 0 .. 100,
                        yields : BOOLEAN, scale : 0 .. 200]
        /\ reading.at = "idle"
    BY DEF Init, NotReading
  <2>6. /\ \A t \in Openers : taking[t].at = "idle"
        /\ taking \in [Openers -> Opening] /\ applying \in Pushing /\ applying.at = "idle"
    BY <2>2
  <2>7. /\ poll \in [at : {"test", "sample", "drain", "share", "external", "park", "gone"},
                     util : 0 .. 100, share : 0 .. 100]
        /\ lastUtil \in 0 .. 100 /\ selfUtil \in 0 .. 100 /\ externalUtil \in 0 .. 100
        /\ busyUs \in Nat /\ reported \in Nat /\ drained \in Nat /\ busyUs + drained = reported
        /\ metal \in {"empty", "opening", "open"} /\ stopper \in {"run", "told", "join", "joined"}
    BY DEF Init
  <2>8. stop \in BOOLEAN /\ token \in BOOLEAN /\ overtaken \in BOOLEAN
    BY Zenon DEF Init
  <2> QED BY <2>1, <2>3, <2>4, <2>5, <2>6, <2>7, <2>8 DEF KnobsInv
<1>2. KnobsInv /\ [Next]_vars => KnobsInv'
  <2> SUFFICES ASSUME KnobsInv, [Next]_vars PROVE KnobsInv'
    OBVIOUS
  <2>1. CASE UNCHANGED vars
    BY <2>1 DEF KnobsInv, vars, configVars, knobVars, utilVars, creditVars, stopVars
  <2> QED BY <2>1, ConfigSteps, RunnerSteps, PollSteps DEF Next, InUse, Over
<1> QED BY <1>1, <1>2, PTL DEF Spec

(* Whatever the accelerators answer and however the threads interleave:    *)
(* percentages stay percentages, GPU time is counted once, and a dispatch  *)
(* is sized between half the ceiling and the ceiling and never empty       *)
(* (poll_loop, self_util_pct, budget_scale, scale_budget).                 *)
THEOREM KnobsBounded == Spec => []KnobInv
<1>1. KnobsInv => KnobInv
  <2> SUFFICES ASSUME KnobsInv PROVE KnobInv
    OBVIOUS
  <2>1. TypeOK
    BY DEF KnobsInv, TypeOK, Opening, Pushing
  <2>2. ScaleBounded
    BY BudgetInBounds DEF ScaleBounded, KnobsInv
  <2> QED BY <2>1, <2>2 DEF KnobInv, BusyConserved, KnobsInv
<1> QED BY <1>1, KnobsInvariant, PTL

-----------------------------------------------------------------------------
(* The settings reach the knobs *)

(* A thread that moves on to its next store leaves the others where they   *)
(* were.                                                                   *)
LEMMA Taken ==
  ASSUME KnobsInv, NEW t \in Openers, NEW r, taking' = [taking EXCEPT ![t] = r]
  PROVE  taking'[t] = r /\ \A u \in Openers : u # t => taking'[u] = taking[u]
BY DEF KnobsInv

(* Each step stores what is set, or leaves someone who will.               *)
LEMMA NextReach ==
  ASSUME KnobsInv, ReachInv, [Next]_vars
  PROVE  ReachInv'
<1>1. /\ applying.at # "idle" => applying.cfg = settings
      /\ ~overtaken =>
           \A t \in Openers : taking[t].at \in {"ceiling", "yielding"} => taking[t].cfg = settings
      /\ metal = "open" /\ ~overtaken =>
           /\ \/ ceiling = settings.ceiling \/ applying.at \in {"push", "ceiling"}
              \/ \E t \in Openers : taking[t].at \in {"read", "ceiling"}
           /\ \/ yielding = settings.yielding \/ applying.at \in {"push", "ceiling", "yielding"}
              \/ \E t \in Openers : taking[t].at \in {"read", "ceiling", "yielding"}
      /\ applying \in Pushing
  BY DEF ReachInv, KnobsInv
<1>2. ASSUME UNCHANGED <<settings, metal, taking, applying, overtaken, ceiling, yielding>>
      PROVE  ReachInv'
  BY <1>2 DEF ReachInv
<1>3. ASSUME NEW t \in Openers, TakeMetal(t) PROVE ReachInv'
  <2>1. UNCHANGED <<settings, applying, overtaken, ceiling, yielding>>
    BY <1>3 DEF TakeMetal, knobVars
  <2>2. CASE metal = "empty"
    <3>1. taking' = [taking EXCEPT ![t] = [at |-> "open", cfg |-> settings]] /\ metal' = "opening"
      BY <1>3, <2>2 DEF TakeMetal
    <3> QED BY <1>1, <2>1, <3>1, Taken DEF ReachInv
  <2>3. CASE metal # "empty"
    <3>1. /\ taking' = [taking EXCEPT ![t] = [taking[t] EXCEPT !.at = "read"]]
          /\ metal' = metal /\ taking[t].at = "idle"
      BY <1>3, <2>3 DEF TakeMetal, KnobsInv
    <3>2. taking[t] \in Opening
      BY DEF KnobsInv
    <3>3. /\ taking'[t] = [taking[t] EXCEPT !.at = "read"]
          /\ \A u \in Openers : u # t => taking'[u] = taking[u]
      BY <3>1, Taken
    <3>4. taking'[t].at = "read"
      BY <3>2, <3>3 DEF Opening
    <3> QED BY <1>1, <2>1, <3>1, <3>3, <3>4 DEF ReachInv
  <2> QED BY <2>2, <2>3
<1>4. ASSUME NEW t \in Openers, OpenDevice(t) PROVE ReachInv'
  <2>1. /\ taking' = [taking EXCEPT ![t] = [at |-> "read", cfg |-> None]]
        /\ UNCHANGED <<settings, applying, overtaken>>
    BY <1>4 DEF OpenDevice
  <2>2. /\ taking'[t] = [at |-> "read", cfg |-> None]
        /\ \A u \in Openers : u # t => taking'[u] = taking[u]
    BY <2>1, Taken
  <2>3. taking'[t].at = "read"
    BY <2>2
  <2> QED BY <1>1, <2>1, <2>2, <2>3 DEF ReachInv
<1>5. ASSUME NEW t \in Openers, ReadSettings(t) PROVE ReachInv'
  <2>1. /\ taking' = [taking EXCEPT ![t] = [at |-> "ceiling", cfg |-> settings]]
        /\ UNCHANGED <<settings, metal, applying, overtaken, ceiling, yielding>>
    BY <1>5 DEF ReadSettings, knobVars
  <2>2. /\ taking'[t] = [at |-> "ceiling", cfg |-> settings]
        /\ \A u \in Openers : u # t => taking'[u] = taking[u]
    BY <2>1, Taken
  <2>3. taking'[t].at = "ceiling" /\ taking'[t].cfg = settings
    BY <2>2
  <2> QED BY <1>1, <2>1, <2>2, <2>3 DEF ReachInv
<1>6. ASSUME NEW t \in Openers, Reconfigure(t) PROVE ReachInv'
  <2>1. /\ taking[t].at \in {"ceiling", "yielding"} /\ Stored(taking[t])
        /\ taking' = [taking EXCEPT ![t] = AfterStore(taking[t])]
        /\ UNCHANGED <<settings, metal, applying, overtaken>>
    BY <1>6 DEF Reconfigure, Stored
  <2>2. /\ taking'[t] = AfterStore(taking[t])
        /\ \A u \in Openers : u # t => taking'[u] = taking[u]
    BY <2>1, Taken
  <2>3. taking[t] \in Opening
    BY DEF KnobsInv
  <2>4. CASE taking[t].at = "ceiling"
    <3>1. taking'[t].at = "yielding" /\ taking'[t].cfg = taking[t].cfg
      BY <2>2, <2>3, <2>4 DEF AfterStore, Opening
    <3>2. ceiling' = taking[t].cfg.ceiling /\ yielding' = yielding
      BY <2>1, <2>4 DEF Stored
    <3> QED BY <1>1, <2>1, <2>2, <2>4, <3>1, <3>2 DEF ReachInv
  <2>5. CASE taking[t].at = "yielding"
    <3>1. taking'[t].at = "idle"
      BY <2>2, <2>5 DEF AfterStore, Idle
    <3>2. ceiling' = ceiling /\ yielding' = taking[t].cfg.yielding
      BY <2>1, <2>5 DEF Stored
    <3>3. \A u \in Openers : taking[u].at \in {"read", "ceiling"} => taking'[u] = taking[u]
      BY <2>2, <2>5
    <3> QED BY <1>1, <2>1, <2>2, <2>5, <3>1, <3>2, <3>3 DEF ReachInv
  <2> QED BY <2>1, <2>4, <2>5
<1>7. CASE Apply
  <2>1. PICK s \in Settings : settings' = s /\ applying' = [at |-> "push", cfg |-> s]
    BY <1>7 DEF Apply
  <2>2. applying'.at = "push" /\ applying'.cfg = settings'
    BY <2>1
  <2>3. /\ UNCHANGED <<metal, taking>>
        /\ overtaken' = (overtaken \/ \E t \in Openers : taking[t].at \in {"ceiling", "yielding"})
    BY <1>7 DEF Apply
  <2>4. ~overtaken' => ~\E t \in Openers : taking'[t].at \in {"ceiling", "yielding"}
    BY <2>3
  <2> QED BY <2>2, <2>4 DEF ReachInv
<1>8. CASE Push
  <2>1. /\ UNCHANGED <<settings, metal, taking, overtaken, ceiling, yielding>>
        /\ applying.at = "push"
        /\ applying' = IF metal = "open" THEN [applying EXCEPT !.at = "ceiling"] ELSE Idle
    BY <1>8 DEF Push, knobVars
  <2>2. CASE metal = "open"
    <3>1. applying'.at = "ceiling" /\ applying'.cfg = applying.cfg
      BY <1>1, <2>1, <2>2 DEF Pushing
    <3> QED BY <1>1, <2>1, <2>2, <3>1 DEF ReachInv
  <2>3. CASE metal # "open"
    <3>1. applying'.at = "idle"
      BY <2>1, <2>3 DEF Idle
    <3> QED BY <1>1, <2>1, <2>3, <3>1 DEF ReachInv
  <2> QED BY <2>2, <2>3
<1>9. CASE ApplyReconfigure
  <2>1. /\ applying.at \in {"ceiling", "yielding"} /\ Stored(applying)
        /\ applying' = AfterStore(applying) /\ UNCHANGED <<settings, metal, taking, overtaken>>
    BY <1>9 DEF ApplyReconfigure, Stored
  <2>2. CASE applying.at = "ceiling"
    <3>1. applying'.at = "yielding" /\ applying'.cfg = applying.cfg
      BY <1>1, <2>1, <2>2 DEF AfterStore, Pushing
    <3>2. ceiling' = applying.cfg.ceiling /\ yielding' = yielding
      BY <2>1, <2>2 DEF Stored
    <3> QED BY <1>1, <2>1, <2>2, <3>1, <3>2 DEF ReachInv
  <2>3. CASE applying.at = "yielding"
    <3>1. applying'.at = "idle"
      BY <2>1, <2>3 DEF AfterStore, Idle
    <3>2. ceiling' = ceiling /\ yielding' = applying.cfg.yielding
      BY <2>1, <2>3 DEF Stored
    <3> QED BY <1>1, <2>1, <2>3, <3>1, <3>2 DEF ReachInv
  <2> QED BY <2>1, <2>2, <2>3
<1>10. CASE \/ Report \/ ReadCeiling \/ ReadYielding \/ ReadScale \/ UseScale
            \/ PollStep \/ Interval \/ Stop \/ Join \/ Over \/ UNCHANGED vars
  <2>1. UNCHANGED <<configVars, knobVars>>
    BY <1>10 DEF Report, ReadCeiling, ReadYielding, ReadScale, UseScale, PollStep, Test, Sample,
       Drain, Share, External, Wake, Interval, Stop, Join, Over, vars
  <2> QED BY <1>2, <2>1 DEF configVars, knobVars
<1> QED
  BY <1>3, <1>4, <1>5, <1>6, <1>7, <1>8, <1>9, <1>10 DEF Next, InUse

(* However threads open the device while the session changes its settings: *)
(* when nobody is about to store, the governor has the settings, unless a  *)
(* thread that had read the old ones stored them later (metal,             *)
(* apply_config).                                                          *)
THEOREM SettingsArrive == Spec => []SettingsReach
<1>1. Init => ReachInv
  BY DEF Init, ReachInv, Idle
<1>2. KnobsInv /\ ReachInv /\ [Next]_vars => ReachInv'
  BY NextReach
<1>3. KnobsInv /\ ReachInv => SettingsReach
  <2> SUFFICES ASSUME KnobsInv, ReachInv, metal = "open", ~overtaken, applying.at = "idle",
                      \A t \in Openers : taking[t].at = "idle"
               PROVE  [ceiling |-> ceiling, yielding |-> yielding] = settings
    BY DEF SettingsReach
  <2>1. ceiling = settings.ceiling /\ yielding = settings.yielding
    BY DEF ReachInv
  <2>2. settings \in Knobs
    BY SettingsAreKnobs DEF KnobsInv
  <2>3. settings = [ceiling |-> settings.ceiling, yielding |-> settings.yielding]
    BY <2>2 DEF Knobs
  <2> QED BY <2>1, <2>3
<1> QED BY <1>1, <1>2, <1>3, KnobsInvariant, PTL DEF Spec
=============================================================================
