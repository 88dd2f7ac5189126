------------------------------ MODULE Schedule ------------------------------
(***************************************************************************)
(* The annealing schedule of a unit: its legs laid end to end.  Legs of    *)
(* few sweeps continue one anneal, reheated at each checkpoint; every      *)
(* longer leg is an anneal of its own.  A sweep stands for the rung of the *)
(* ladder it runs at.                                                      *)
(*                                                                         *)
(* Code: segment_schedule, ScheduleCache (src/src/cascade.rs),             *)
(* build_beta_schedule (sampler.rs), validate_schedule (slots.rs).         *)
(***************************************************************************)
EXTENDS Integers, Sequences, FiniteSets, SequencesExt

CONSTANT ReheatThrough   (* the longest leg that continues an anneal        *)

AtLeastOne(n) == IF n = 0 THEN 1 ELSE n
Least(m, n) == IF m <= n THEN m ELSE n

(* What a schedule is cut from, and the rungs it is made of.               *)
Works == [stages : Seq(Nat), sweeps : Nat, perBeta : Nat, reheats : BOOLEAN]
Rungs == {"hot", "reheat"} \X Int \X Int

(* The rungs from hot to cold, and the sweeps of each but the last.        *)
Ladder(sweeps, perBeta) ==
  [rungs |-> AtLeastOne(sweeps \div AtLeastOne(perBeta)), repeats |-> AtLeastOne(perBeta)]

(* A standard anneal of some sweeps; the last rung holds for the rest.     *)
Standard(sweeps, perBeta) ==
  LET l == Ladder(sweeps, perBeta) IN
  [i \in 1 .. sweeps |-> <<"hot", l.rungs, Least((i - 1) \div l.repeats + 1, l.rungs)>>]

Reheat(sweeps) == [i \in 1 .. sweeps |-> <<"reheat", sweeps, i>>]

(* The stages up to the first that is zero or not below the unit's sweeps. *)
Stages(w) ==
  Cardinality({k \in DOMAIN w.stages : \A i \in 1 .. k : w.stages[i] \in 1 .. w.sweeps - 1})
Budgets(w) == Append(SubSeq(w.stages, 1, Stages(w)), w.sweeps)

(* How many legs continue the first one.                                   *)
FreshFrom(w) ==
  Cardinality({k \in DOMAIN Budgets(w) :
                 \A i \in 1 .. k : Budgets(w)[i] <= ReheatThrough})

(* A reheat outside the graph's range leaves one standard anneal.          *)
ContinuingBetas(w) ==
  LET b == SubSeq(Budgets(w), 1, FreshFrom(w)) IN
  IF b = <<>> THEN <<>>
  ELSE IF w.reheats
       THEN Standard(b[1], w.perBeta)
              \o FlattenSeq([i \in 1 .. Len(b) - 1 |-> Reheat(b[i + 1] - b[i])])
       ELSE Standard(Last(b), w.perBeta)

FreshLegs(w) ==
  [i \in 1 .. Len(Budgets(w)) - FreshFrom(w) |->
     Standard(Budgets(w)[FreshFrom(w) + i], w.perBeta)]

(* The schedule with as many legs of their own.                            *)
Laid(w, legs) == ContinuingBetas(w) \o FlattenSeq(SubSeq(FreshLegs(w), 1, legs))
Betas(w) == Laid(w, Len(Budgets(w)) - FreshFrom(w))

(* Where each leg ends.                                                    *)
Checkpoints(w) ==
  [k \in DOMAIN Budgets(w) |->
     IF k <= FreshFrom(w) THEN Budgets(w)[k] ELSE Len(Laid(w, k - FreshFrom(w)))]

ValidSchedule(w) ==
  LET c == Checkpoints(w) IN
  /\ Betas(w) # <<>>
  /\ Head(c) > 0 /\ Last(c) = Len(Betas(w))
  /\ \A i \in 1 .. Len(c) - 1 : c[i] < c[i + 1]

(* The anneal a unit has been through at its k-th checkpoint, as the       *)
(* cascade means it: a long budget from new spins, or the short legs up to *)
(* here one after the other.                                               *)
AnnealAt(w, k) ==
  IF Budgets(w)[k] > ReheatThrough
  THEN [leg |-> k - 1, betas |-> Standard(Budgets(w)[k], w.perBeta)]
  ELSE [leg |-> 0, betas |-> SubSeq(ContinuingBetas(w), 1, Budgets(w)[k])]
=============================================================================
