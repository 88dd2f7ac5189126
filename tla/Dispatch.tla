------------------------------ MODULE Dispatch ------------------------------
(***************************************************************************)
(* How much work goes into one dispatch: the reads of a problem, the       *)
(* problems of a batch, and the rungs of a chunk.                          *)
(*                                                                         *)
(* Code: src/src/streaming.rs (tg_budget, batch_size_for_reads,            *)
(* scale_budget) and src/src/sampler.rs (simd_rounded_reads, chunk_plan,   *)
(* estimated_updates_per_sec).  Rates are in 10^7 updates a second,        *)
(* occupancies in tenths of a threadgroup per core, fractions are floored. *)
(***************************************************************************)
EXTENDS Naturals, Sequences, FiniteSets, FiniteSetsExt

CONSTANTS
  Kernel,     (* "sa", "msa", "gibbs" or "gibbs_parallel"                    *)
  Cores,      (* GPU cores; the code takes 10 where the system does not say  *)
  PerCore,    (* QUIP_METAL_TG_PER_CORE in tenths, or 0 where it is not set  *)
  SweepsPer   (* sweeps of a rung                                            *)

Kernels == {"sa", "msa", "gibbs", "gibbs_parallel"}
SimdWidth == 32
MaxReads == 256

ASSUME DispatchAssumption ==
  Kernel \in Kernels /\ {Cores, SweepsPer} \subseteq Nat \ {0} /\ PerCore \in Nat

CeilDiv(a, b) == (a + b - 1) \div b
Clamp(x, lo, hi) == IF x < lo THEN lo ELSE IF x > hi THEN hi ELSE x

-----------------------------------------------------------------------------
(* What a kernel takes: nodes, neighbours and the threadgroup's memory of  *)
(* the multi-spin kernel, and sweeps.                                      *)

MaxNodes == CASE Kernel = "sa" -> 4593 [] Kernel = "msa" -> 6016 [] OTHER -> 4800
MaxDegree == 20
MaxSweeps == 1048576

(* A word for each spin, in steps of 16 bytes, and the lane totals.        *)
GroupBytes(nodes) == CeilDiv(Max({nodes, 1}) * 4, 16) * 16 + SimdWidth * 4

Refused(nodes, degree, sweeps, bytes) ==
  \/ nodes > MaxNodes \/ sweeps > MaxSweeps
  \/ Kernel = "msa" /\ (degree > MaxDegree \/ GroupBytes(nodes) > bytes)

-----------------------------------------------------------------------------
(* Reads of a problem: a full SIMD group is computed, the rest discarded.  *)

AskedReads(reads) == Clamp(reads, 1, MaxReads)
RoundedReads(reads) == Min({CeilDiv(AskedReads(reads), SimdWidth) * SimdWidth, MaxReads})

(* Problems of a batch: the threadgroup budget, in a kernel's own unit.    *)
DefaultPerCore == CASE Kernel = "sa" -> 60 [] Kernel = "msa" -> 10 [] OTHER -> 160
TgBudget ==
  Max({1, (Cores * (IF PerCore > 0 THEN PerCore ELSE DefaultPerCore) + 5) \div 10})

GroupsPerProblem(reads) ==
  CASE Kernel = "gibbs_parallel" -> RoundedReads(reads)
    [] Kernel = "msa" -> CeilDiv(RoundedReads(reads), SimdWidth)
    [] OTHER -> 1
BatchSize(reads) == CeilDiv(TgBudget, GroupsPerProblem(reads))

(* The governor's share, in per cent: one problem is the floor.            *)
Scaled(nominal, percent) == Max({1, (nominal * percent + 50) \div 100})

-----------------------------------------------------------------------------
(* Rungs of a chunk: what the GPU is expected to do in half a second, with *)
(* a margin, the batches in flight sharing the rate at their combined      *)
(* occupancy.                                                              *)

Curve ==
  IF Kernel = "msa"
  THEN << <<1, 26>>, <<2, 52>>, <<4, 100>>, <<5, 120>>, <<10, 120>> >>
  ELSE << <<2, 32>>, <<5, 49>>, <<10, 83>>, <<20, 140>>, <<30, 154>>, <<40, 183>>,
          <<60, 203>>, <<80, 210>> >>
Margin == IF Kernel = "msa" THEN 4 ELSE 7

(* Linear between the measured points, through the origin below the first, *)
(* flat above the last; Gibbs has one rate.                                *)
MeasuredRate(groups) ==
  LET x == groups * 10
      at(i) == Curve[i][1] * Cores
      last == Len(Curve)
      i == Min({k \in 1 .. last : at(k) >= x \/ k = last})
  IN IF Kernel \in {"gibbs", "gibbs_parallel"} THEN 120
     ELSE CASE x <= at(1) -> (Curve[1][2] * x) \div at(1)
            [] x >= at(last) -> Curve[last][2]
            [] OTHER -> Curve[i - 1][2] +
                 ((Curve[i][2] - Curve[i - 1][2]) * (x - at(i - 1))) \div (at(i) - at(i - 1))

(* Updates in half a second: half of 10^7, and the margin in tenths.       *)
HalfSecond(groups, inFlight) ==
  (MeasuredRate(groups * inFlight) * Margin * 500000) \div inFlight

(* Threads that each walk all the nodes: reads, or words for multi-spin.   *)
Walkers(problems, reads) ==
  problems * (IF Kernel = "msa" THEN GroupsPerProblem(reads) ELSE RoundedReads(reads))

(* At least one rung, however long it takes.                               *)
RungLimit(problems, reads, nodes, inFlight, rungs) ==
  Clamp(HalfSecond(problems * GroupsPerProblem(reads), inFlight)
          \div (Walkers(problems, reads) * SweepsPer * Max({nodes, 1})), 1, rungs)

(* The k-th chunk of a schedule cut into chunks of limit rungs.            *)
Chunk(limit, k, rungs) ==
  LET start == (k - 1) * limit IN [start |-> start, count |-> Min({limit, rungs - start})]
Chunks(limit, rungs) == CeilDiv(rungs, limit)
=============================================================================
