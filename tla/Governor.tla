------------------------------ MODULE Governor ------------------------------
(***************************************************************************)
(* The utilisation governor: a poll thread samples the GPU's load and      *)
(* takes off what the miner itself reported; the runners read from it how  *)
(* much they may dispatch; the session's settings reach it from two sides, *)
(* apply_config and every thread that takes the Metal sampler.  All knobs  *)
(* are single atomics, read and written one by one.  Loads are percents.   *)
(*                                                                         *)
(* Code: UtilGovernor and poll_loop (src/src/iokit_gov.rs), metal() and    *)
(* apply_config (src/src/combined.rs), scale_budget (src/src/streaming.rs).*)
(***************************************************************************)
EXTENDS Integers, FiniteSets, FiniteSetsExt

CONSTANTS
  Openers,     (* threads that take the Metal sampler                       *)
  Settings,    (* settings the session may send: [ceiling, yielding]        *)
  First,       (* the settings at start                                     *)
  Accelerators, Answers,  (* what each may say of its load: a number, or    *)
               (* None where it has no statistics                           *)
  Busy,        (* GPU time of a batch                                       *)
  Windows,     (* lengths of a poll window, in the same unit                *)
  Nominal,     (* problems of a full dispatch                               *)
  MaxReports, MaxApplies,  (* bounds                                        *)
  None

ASSUME GovernorAssumption ==
  /\ Settings \subseteq [ceiling : 1 .. 100, yielding : BOOLEAN] /\ First \in Settings
  /\ Answers \subseteq Int \union {None} /\ Busy \in Nat /\ Windows \subseteq Nat /\ Nominal \in Nat \ {0}
  /\ {MaxReports, MaxApplies} \subseteq Nat /\ IsFiniteSet(Accelerators)

VARIABLES
  settings,    (* the settings of the combined sampler, behind their mutex  *)
  metal,       (* the sampler's cell: "empty", "opening" or "open"          *)
  taking,      (* per opener, where it is and the settings it has read      *)
  applying,    (* the session's apply_config                                *)
  applies,
  overtaken,   (* history: settings changed under a thread about to store   *)
  ceiling, yielding,             (* the knobs                               *)
  lastUtil, busyUs, selfUtil, externalUtil, stop,
  poll,        (* the poll thread: where it is, its sample and its share    *)
  token,       (* the thread's wake token                                   *)
  stopper,     (* the thread that stops the governor                        *)
  reading,     (* a runner in budget_scale                                  *)
  reported, drained  (* history: GPU time reported, and taken by the poll   *)

configVars == <<settings, metal, taking, applying, applies, overtaken>>
knobVars == <<ceiling, yielding>>
utilVars == <<lastUtil, selfUtil, externalUtil>>
creditVars == <<busyUs, reported, drained>>
stopVars == <<stop, token, stopper>>
vars == <<configVars, knobVars, utilVars, creditVars, stopVars, poll, reading>>

-----------------------------------------------------------------------------
(* The arithmetic *)

Least(a, b) == IF a <= b THEN a ELSE b
Most(a, b) == IF a <= b THEN b ELSE a

(* query_iokit_gpu_utilization: the busiest accelerator that answers, as a *)
(* percentage, and 0 if none does or the query fails.                      *)
Answered(says) == {says[a] : a \in Accelerators} \ {None}
Utilization(says) == Least(Max(Answered(says) \union {0}), 100)

(* Mutant: batches that overlap count twice.                               *)
SelfShareUnclamped(us, window) == IF window = 0 THEN 0 ELSE (us * 100) \div window
(* self_util_pct *)
SelfShare(us, window) == IF window = 0 THEN 0 ELSE Least((us * 100) \div window, 100)

(* Mutant: all of the ceiling is given back.                               *)
ScaleUnfloored(c, yields, external) == IF yields THEN 2 * (c - external) ELSE 2 * c
(* budget_scale, in two-hundredths: the ceiling, of which outside load     *)
(* takes back up to a half.                                                *)
Scale(c, yields, external) ==
  IF yields THEN Least(Most(2 * (c - external), c), 2 * c) ELSE 2 * c

(* scale_budget: rounded, and one problem at least.                        *)
Budget(scale) == IF scale >= 200 THEN Nominal ELSE Most((Nominal * scale + 100) \div 200, 1)

-----------------------------------------------------------------------------
(* The settings *)

Idle == [at |-> "idle", cfg |-> None]

(* The first thread opens the device and starts the governor; the others   *)
(* wait for it.                                                            *)
TakeMetal(t) ==
  /\ taking[t].at = "idle" /\ metal # "opening"
  /\ IF metal = "empty"
     THEN metal' = "opening" /\ taking' = [taking EXCEPT ![t] = [at |-> "open", cfg |-> settings]]
     ELSE taking' = [taking EXCEPT ![t].at = "read"] /\ UNCHANGED metal
  /\ UNCHANGED <<settings, applying, applies, overtaken, knobVars, utilVars, creditVars, stopVars>>
  /\ UNCHANGED <<poll, reading>>

(* Mutant: the settings the device was opened with are final.              *)
OpenDeviceFinal(t) ==
  /\ taking[t].at = "open"
  /\ metal' = "open" /\ taking' = [taking EXCEPT ![t] = Idle]
  /\ ceiling' = taking[t].cfg.ceiling /\ yielding' = taking[t].cfg.yielding
  /\ UNCHANGED <<settings, applying, applies, overtaken, utilVars, creditVars, stopVars>>
  /\ UNCHANGED <<poll, reading>>
OpenDevice(t) ==
  /\ taking[t].at = "open"
  /\ metal' = "open" /\ taking' = [taking EXCEPT ![t] = [at |-> "read", cfg |-> None]]
  /\ ceiling' = taking[t].cfg.ceiling /\ yielding' = taking[t].cfg.yielding
  /\ UNCHANGED <<settings, applying, applies, overtaken, utilVars, creditVars, stopVars>>
  /\ UNCHANGED <<poll, reading>>

(* Configuration can arrive while the device is opening.                   *)
ReadSettings(t) ==
  /\ taking[t].at = "read"
  /\ taking' = [taking EXCEPT ![t] = [at |-> "ceiling", cfg |-> settings]]
  /\ UNCHANGED <<settings, metal, applying, applies, overtaken, knobVars, utilVars, creditVars>>
  /\ UNCHANGED <<stopVars, poll, reading>>

(* reconfigure: two stores.                                                *)
Stored(who) ==
  \/ /\ who.at = "ceiling" /\ ceiling' = who.cfg.ceiling /\ UNCHANGED yielding
  \/ /\ who.at = "yielding" /\ yielding' = who.cfg.yielding /\ UNCHANGED ceiling
AfterStore(who) == IF who.at = "ceiling" THEN [who EXCEPT !.at = "yielding"] ELSE Idle

Reconfigure(t) ==
  /\ Stored(taking[t]) /\ taking' = [taking EXCEPT ![t] = AfterStore(taking[t])]
  /\ UNCHANGED <<settings, metal, applying, applies, overtaken, utilVars, creditVars, stopVars>>
  /\ UNCHANGED <<poll, reading>>

(* apply_config: the settings, then the governor if there is one.          *)
Apply ==
  /\ applying.at = "idle" /\ applies < MaxApplies
  /\ \E s \in Settings : settings' = s /\ applying' = [at |-> "push", cfg |-> s]
  /\ applies' = applies + 1
  /\ overtaken' = (overtaken \/ \E t \in Openers : taking[t].at \in {"ceiling", "yielding"})
  /\ UNCHANGED <<metal, taking, knobVars, utilVars, creditVars, stopVars, poll, reading>>

Push ==
  /\ applying.at = "push"
  /\ applying' = IF metal = "open" THEN [applying EXCEPT !.at = "ceiling"] ELSE Idle
  /\ UNCHANGED <<settings, metal, taking, applies, overtaken, knobVars, utilVars, creditVars>>
  /\ UNCHANGED <<stopVars, poll, reading>>

ApplyReconfigure ==
  /\ Stored(applying) /\ applying' = AfterStore(applying)
  /\ UNCHANGED <<settings, metal, taking, applies, overtaken, utilVars, creditVars, stopVars>>
  /\ UNCHANGED <<poll, reading>>

-----------------------------------------------------------------------------
(* The runners *)

Report ==
  /\ metal = "open" /\ reported < MaxReports * Busy
  /\ busyUs' = busyUs + Busy /\ reported' = reported + Busy
  /\ UNCHANGED <<configVars, knobVars, utilVars, drained, stopVars, poll, reading>>

NotReading == [at |-> "idle", ceiling |-> 0, yields |-> FALSE, scale |-> 200]

ReadCeiling ==
  /\ metal = "open" /\ reading.at = "idle"
  /\ reading' = [at |-> "ceiling", ceiling |-> ceiling, yields |-> FALSE, scale |-> 200]
  /\ UNCHANGED <<configVars, knobVars, utilVars, creditVars, stopVars, poll>>
ReadYielding ==
  /\ reading.at = "ceiling"
  /\ reading' = [reading EXCEPT !.at = "yielding", !.yields = yielding]
  /\ UNCHANGED <<configVars, knobVars, utilVars, creditVars, stopVars, poll>>
ReadScale ==
  /\ reading.at = "yielding"
  /\ reading' = [reading EXCEPT !.at = "scale",
                                !.scale = Scale(reading.ceiling, reading.yields, externalUtil)]
  /\ UNCHANGED <<configVars, knobVars, utilVars, creditVars, stopVars, poll>>
UseScale ==
  /\ reading.at = "scale" /\ reading' = NotReading
  /\ UNCHANGED <<configVars, knobVars, utilVars, creditVars, stopVars, poll>>

-----------------------------------------------------------------------------
(* The poll thread *)

PollAt(at) == metal = "open" /\ poll.at = at
PollGo(at) == poll' = [poll EXCEPT !.at = at]

Test ==
  /\ PollAt("test") /\ PollGo(IF stop THEN "gone" ELSE "sample")
  /\ UNCHANGED <<configVars, knobVars, utilVars, creditVars, stopVars, reading>>

Sample ==
  /\ PollAt("sample")
  /\ \E says \in [Accelerators -> Answers] :
       /\ lastUtil' = Utilization(says)
       /\ poll' = [poll EXCEPT !.at = "drain", !.util = Utilization(says)]
  /\ UNCHANGED <<configVars, knobVars, selfUtil, externalUtil, creditVars, stopVars, reading>>

(* Mutant: the counter is read, and cleared later.                         *)
DrainInTwo ==
  /\ PollAt("drain")
  /\ \E window \in Windows :
       poll' = [poll EXCEPT !.at = "share", !.share = SelfShare(busyUs, window)]
  /\ drained' = drained + busyUs
  /\ UNCHANGED <<configVars, knobVars, utilVars, busyUs, reported, stopVars, reading>>
(* The counter is swapped for zero.                                        *)
Drain ==
  /\ PollAt("drain")
  /\ \E window \in Windows :
       poll' = [poll EXCEPT !.at = "share", !.share = SelfShare(busyUs, window)]
  /\ drained' = drained + busyUs /\ busyUs' = 0
  /\ UNCHANGED <<configVars, knobVars, utilVars, reported, stopVars, reading>>

Share ==
  /\ PollAt("share") /\ PollGo("external") /\ selfUtil' = poll.share
  /\ UNCHANGED <<configVars, knobVars, lastUtil, externalUtil, creditVars, stopVars, reading>>

(* saturating_sub *)
External ==
  /\ PollAt("external") /\ poll' = [at |-> "park", util |-> 0, share |-> 0]
  /\ externalUtil' = Most(poll.util - poll.share, 0)
  /\ UNCHANGED <<configVars, knobVars, lastUtil, selfUtil, creditVars, stopVars, reading>>

(* park_timeout: the token, or the end of the interval.                    *)
Wake ==
  /\ PollAt("park") /\ token /\ PollGo("test") /\ token' = FALSE
  /\ UNCHANGED <<configVars, knobVars, utilVars, creditVars, stop, stopper, reading>>
Interval ==
  /\ PollAt("park") /\ PollGo("test")
  /\ UNCHANGED <<configVars, knobVars, utilVars, creditVars, stopVars, reading>>

-----------------------------------------------------------------------------
(* stop, from Drop: after the last use of the sampler.                     *)

(* Mutant: the thread is woken before it is told.                          *)
StopWakesFirst ==
  /\ metal = "open" /\ reading.at = "idle" /\ applying.at = "idle"
  /\ \A t \in Openers : taking[t].at = "idle"
  /\ \/ stopper = "run" /\ token' = TRUE /\ stopper' = "told" /\ UNCHANGED stop
     \/ stopper = "told" /\ stop' = TRUE /\ stopper' = "join" /\ UNCHANGED token
  /\ UNCHANGED <<configVars, knobVars, utilVars, creditVars, poll, reading>>
Stop ==
  /\ metal = "open" /\ reading.at = "idle" /\ applying.at = "idle"
  /\ \A t \in Openers : taking[t].at = "idle"
  /\ \/ stopper = "run" /\ stop' = TRUE /\ stopper' = "told" /\ UNCHANGED token
     \/ stopper = "told" /\ token' = TRUE /\ stopper' = "join" /\ UNCHANGED stop
  /\ UNCHANGED <<configVars, knobVars, utilVars, creditVars, poll, reading>>

Join ==
  /\ stopper = "join" /\ poll.at = "gone" /\ stopper' = "joined"
  /\ UNCHANGED <<configVars, knobVars, utilVars, creditVars, stop, token, poll, reading>>

-----------------------------------------------------------------------------
Init ==
  /\ settings = First /\ metal = "empty" /\ taking = [t \in Openers |-> Idle]
  /\ applying = Idle /\ applies = 0 /\ overtaken = FALSE
  /\ ceiling = First.ceiling /\ yielding = First.yielding
  /\ lastUtil = 0 /\ busyUs = 0 /\ selfUtil = 0 /\ externalUtil = 0 /\ stop = FALSE
  /\ poll = [at |-> "test", util |-> 0, share |-> 0]
  /\ token = FALSE /\ stopper = "run" /\ reading = NotReading
  /\ reported = 0 /\ drained = 0

PollStep == Test \/ Sample \/ Drain \/ Share \/ External \/ Wake

InUse ==
  /\ stopper = "run"
  /\ \/ \E t \in Openers : TakeMetal(t) \/ OpenDevice(t) \/ ReadSettings(t) \/ Reconfigure(t)
     \/ Apply \/ Push \/ ApplyReconfigure
     \/ Report \/ ReadCeiling \/ ReadYielding \/ ReadScale \/ UseScale

Over == stopper = "joined" /\ UNCHANGED vars

Next == InUse \/ PollStep \/ Interval \/ Stop \/ Join \/ Over

Spec == Init /\ [][Next]_vars

(* The poll thread and the stopping thread run; no interval need end.      *)
FairSpec == Spec /\ WF_vars(PollStep) /\ WF_vars(stopper # "run" /\ Stop) /\ WF_vars(Join)

-----------------------------------------------------------------------------
(* Properties *)

(* Type correctness: every percentage stays one, although the GPU times of *)
(* overlapping batches add up to more than the window (self_util_pct).     *)
TypeOK ==
  /\ settings \in Settings /\ metal \in {"empty", "opening", "open"}
  /\ \A t \in Openers : taking[t].at \in {"idle", "open", "read", "ceiling", "yielding"}
  /\ applying.at \in {"idle", "push", "ceiling", "yielding"} /\ applies \in 0 .. MaxApplies
  /\ ceiling \in 1 .. 100 /\ {yielding, stop, token, overtaken} \subseteq BOOLEAN
  /\ {lastUtil, selfUtil, externalUtil, poll.util, poll.share} \subseteq 0 .. 100
  /\ poll.at \in {"test", "sample", "drain", "share", "external", "park", "gone"}
  /\ stopper \in {"run", "told", "join", "joined"}

(* GPU time that runners report while the poll thread takes the counter is *)
(* counted in one window, and only one (busy_us.swap in poll_loop).        *)
BusyConserved == busyUs + drained = reported

(* Whatever mixture of old and new knobs and loads budget_scale reads, the *)
(* dispatch keeps between half the ceiling and the ceiling, and never gets *)
(* empty (the half-ceiling floor of budget_scale; scale_budget "never      *)
(* returns 0").                                                            *)
ScaleBounded ==
  reading.at = "scale" =>
    /\ reading.scale \in reading.ceiling .. 2 * reading.ceiling
    /\ Budget(reading.scale) \in 1 .. Nominal

(* The loads and knobs a dispatch is sized by are bounded and counted once *)
(* however the threads interleave (self_util_pct, budget_scale).           *)
KnobInv == TypeOK /\ BusyConserved /\ ScaleBounded

(* When nobody is about to store, the governor has the session's settings, *)
(* also those that came while the device was being opened; but a thread    *)
(* that had read the settings before they changed may overwrite them, and  *)
(* they then wait for the next stream or lease (metal and apply_config).   *)
SettingsReach ==
  metal = "open" /\ ~overtaken /\ applying.at = "idle"
    /\ (\A t \in Openers : taking[t].at = "idle") =>
    [ceiling |-> ceiling, yielding |-> yielding] = settings

(* stop never waits out a poll interval, wherever the poll thread is when  *)
(* it is woken: no interval need end for the join ("stop() leaves a wake   *)
(* token even if it races with entering this wait", iokit_gov.rs:274).     *)
StopJoins == (stopper = "told") ~> (stopper = "joined")
=============================================================================
