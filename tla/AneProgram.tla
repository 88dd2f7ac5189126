----------------------------- MODULE AneProgram -----------------------------
(***************************************************************************)
(* One job inside the worker process: the solver lays out the thresholds   *)
(* of the sweeps in blocks, and the native program runs each block on the  *)
(* ANE while the host stages the next one into the other bank.  The spins  *)
(* alternate between two surfaces.  A surface is modelled by the sweeps    *)
(* its spins have been through.  Any native call may fail, and a dispatch  *)
(* may hang.                                                               *)
(*                                                                         *)
(* Code: solve_with_block (src/crates/ane-miner/src/solver.rs), AneProgram *)
(* (native.rs), quip_ane_* (native/ane_bridge.m).                          *)
(***************************************************************************)
EXTENDS Naturals, Sequences, SequencesExt

CONSTANTS
  BlockSweeps,  (* sweeps of one dispatch; the build has 1, its tests 1..8  *)
  MaxFaults,    (* bound: failing calls, crashes and hangs                  *)
  None

Banks == 0 .. 1
Dispatches == [bank : Banks, state : Banks, hung : BOOLEAN]

ASSUME ProgramAssumption ==
  BlockSweeps \in 1 .. 8 /\ MaxFaults \in Nat /\ None \notin Dispatches

VARIABLES
  step,        (* where the solver is                                       *)
  work,        (* the request: its sweeps and sweeps per rung               *)
  at,          (* sweeps laid out so far                                    *)
  block,       (* the sweeps in the block being laid out                    *)
  dispatches,
  program,     (* the host's view of the native program                     *)
  spins,       (* per state surface, the sweeps its spins went through      *)
  thresholds,  (* per bank, the sweeps whose thresholds it holds            *)
  busy,        (* the dispatch on the ANE                                   *)
  output,      (* the spins read back                                       *)
  faults

solverVars == <<step, work, at, block, dispatches, output>>
nativeVars == <<program, spins, thresholds, busy>>
programVars == <<solverVars, nativeVars>>

DivCeil(n, d) == (n + d - 1) \div d

(* msa::schedule: the sweeps of each rung; the last one takes the rest.    *)
Rungs(w) ==
  [r \in 1 .. DivCeil(w.sweeps, w.perBeta) |->
     LET left == w.sweeps - (r - 1) * w.perBeta
     IN IF w.perBeta <= left THEN w.perBeta ELSE left]

(* The sweeps in the order of the solver's two loops.                      *)
Walk(w) ==
  FlattenSeq([r \in DOMAIN Rungs(w) |-> [s \in 1 .. Rungs(w)[r] |-> <<r, s>>]])

Idle == [handle |-> FALSE, initialized |-> FALSE, pending |-> FALSE, failed |-> FALSE,
         current |-> 0, next |-> 0]

ProgramOff ==
  /\ step = "off" /\ work = None /\ at = 0 /\ block = <<>> /\ dispatches = 0
  /\ program = Idle /\ spins = [s \in Banks |-> None]
  /\ thresholds = [b \in Banks |-> <<>>]
  /\ busy = None /\ output = None

(* The process is gone, and the kernel has taken everything back.          *)
ProgramLost ==
  /\ step' = "off" /\ work' = None /\ at' = 0 /\ block' = <<>> /\ dispatches' = 0
  /\ program' = Idle /\ spins' = [s \in Banks |-> None]
  /\ thresholds' = [b \in Banks |-> <<>>]
  /\ busy' = None /\ output' = None

Fault == faults < MaxFaults /\ faults' = faults + 1
NoFault == UNCHANGED faults

Go(s) == step' = s /\ UNCHANGED <<work, at, block, dispatches, output>>

(* A native call returns an error: the solver drops the program.           *)
NativeFails(s) == step = s /\ Fault /\ Go("drop") /\ UNCHANGED nativeVars

-----------------------------------------------------------------------------
(* The solver and the native calls *)

Solve(w) ==
  /\ step = "off"
  /\ step' = IF Walk(w) = <<>> THEN "ok" ELSE "compile"
  /\ work' = w
  /\ output' = IF Walk(w) = <<>> THEN <<>> ELSE None
  /\ UNCHANGED <<at, block, dispatches, nativeVars>>

Compile ==
  /\ step = "compile" /\ Go("reset") /\ NoFault
  /\ program' = [program EXCEPT !.handle = TRUE]
  /\ UNCHANGED <<spins, thresholds, busy>>

CompileFails == step = "compile" /\ Fault /\ Go("err") /\ UNCHANGED nativeVars

Reset ==
  /\ step = "reset" /\ Go("fill") /\ NoFault
  /\ spins' = [spins EXCEPT ![0] = <<>>]
  /\ program' = [program EXCEPT !.current = 0, !.initialized = TRUE]
  /\ UNCHANGED <<thresholds, busy>>

ResetFails == NativeFails("reset")

(* One sweep's thresholds; a full block is submitted, and so is the rest   *)
(* after the last sweep.                                                   *)
Fill ==
  /\ step = "fill" /\ at < Len(Walk(work))
  /\ at' = at + 1
  /\ block' = Append(block, Walk(work)[at + 1])
  /\ step' = IF Len(block) + 1 = BlockSweeps THEN "stage" ELSE "fill"
  /\ NoFault /\ UNCHANGED <<work, dispatches, output, nativeVars>>

(* Mutant: what does not fill a block is left out.                         *)
FilledFullOnly ==
  /\ step = "fill" /\ at = Len(Walk(work))
  /\ Go("finish") /\ NoFault /\ UNCHANGED nativeVars
Filled ==
  /\ step = "fill" /\ at = Len(Walk(work))
  /\ Go(IF block = <<>> THEN "finish" ELSE "stage") /\ NoFault /\ UNCHANGED nativeVars

(* quip_ane_submit, first half: staging runs beside the pending dispatch.  *)
Stage ==
  /\ step = "stage" /\ (program.pending \/ program.initialized)
  /\ Go("submit") /\ NoFault
  /\ thresholds' = [thresholds EXCEPT ![program.next] = block]
  /\ UNCHANGED <<program, spins, busy>>

StageFails == NativeFails("stage")

(* finishDispatch: wait for the ANE, then report what its dispatch left.   *)
Joined == program.pending => busy = None

(* Mutant: both banks are one.                                             *)
SubmitSameBank ==
  /\ step = "submit" /\ Joined /\ ~program.failed
  /\ busy' = [bank |-> program.next, state |-> program.current, hung |-> FALSE]
  /\ program' = [program EXCEPT !.pending = TRUE]
  /\ step' = "fill" /\ block' = <<>> /\ dispatches' = dispatches + 1
  /\ NoFault /\ UNCHANGED <<work, at, output, spins, thresholds>>
(* quip_ane_submit, second half: the dispatch before is joined, and this   *)
(* one is queued.                                                          *)
Submit ==
  /\ step = "submit" /\ Joined /\ ~program.failed
  /\ busy' = [bank |-> program.next, state |-> program.current, hung |-> FALSE]
  /\ program' = [program EXCEPT !.pending = TRUE, !.next = 1 - @]
  /\ step' = "fill" /\ block' = <<>> /\ dispatches' = dispatches + 1
  /\ NoFault /\ UNCHANGED <<work, at, output, spins, thresholds>>

SubmitRefused ==
  /\ step = "submit" /\ Joined /\ program.failed /\ Go("drop")
  /\ program' = [program EXCEPT !.pending = FALSE, !.failed = FALSE]
  /\ NoFault /\ UNCHANGED <<spins, thresholds, busy>>

Finish ==
  /\ step = "finish" /\ Joined
  /\ Go(IF program.failed THEN "drop" ELSE "read")
  /\ program' = [program EXCEPT !.pending = FALSE, !.failed = FALSE]
  /\ NoFault /\ UNCHANGED <<spins, thresholds, busy>>

Read ==
  /\ step = "read" /\ program.initialized
  /\ step' = "close" /\ output' = spins[program.current]
  /\ NoFault /\ UNCHANGED <<work, at, block, dispatches, nativeVars>>

ReadFails == NativeFails("read")

(* AneProgram::release takes the handle and quip_ane_destroy consumes it:  *)
(* the pending dispatch is joined before the surfaces are released.        *)
Release == program' = Idle /\ UNCHANGED <<spins, thresholds, busy>>

(* Mutant: the surfaces are released under the running dispatch.           *)
DropUnjoined == step = "drop" /\ Release /\ Go("err") /\ NoFault
Drop == step = "drop" /\ Joined /\ Release /\ Go("err") /\ NoFault
Close == step = "close" /\ Joined /\ Release /\ Go("ok") /\ NoFault
CloseFails == step = "close" /\ Joined /\ Release /\ Go("err") /\ Fault

-----------------------------------------------------------------------------
(* The dispatch queue *)

Dispatched(next, surface) ==
  /\ busy # None /\ ~busy.hung
  /\ spins' = [spins EXCEPT ![1 - busy.state] = surface]
  /\ program' = next /\ busy' = None
  /\ UNCHANGED <<solverVars, thresholds>>

(* The other surface gets the result, and becomes the current one.         *)
Evaluated ==
  /\ Dispatched([program EXCEPT !.current = 1 - @, !.initialized = TRUE],
                 spins[busy.state] \o thresholds[busy.bank])
  /\ NoFault

EvaluateFails ==
  /\ Dispatched([program EXCEPT !.initialized = FALSE, !.failed = TRUE], None)
  /\ Fault

EvaluateHangs ==
  /\ busy # None /\ ~busy.hung /\ Fault
  /\ busy' = [busy EXCEPT !.hung = TRUE]
  /\ UNCHANGED <<solverVars, program, spins, thresholds>>

ProgramStep ==
  Compile \/ Reset \/ Fill \/ Filled \/ Stage \/ Submit \/ SubmitRefused \/ Finish
  \/ Read \/ Close \/ Drop
ProgramFault ==
  CompileFails \/ ResetFails \/ StageFails \/ ReadFails \/ CloseFails
  \/ EvaluateFails \/ EvaluateHangs
=============================================================================
