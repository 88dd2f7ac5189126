----------------------------- MODULE Controller -----------------------------
(***************************************************************************)
(* The cascade controller: it admits units under a stage plan, judges them *)
(* at their checkpoints and learns from what they do later, while Configure*)
(* messages change the settings, topologies and lease rounds change, and   *)
(* units that were prepared or admitted earlier are still on their way.    *)
(*                                                                         *)
(* Code: Controller, StagePlan and Ticket (src/src/cascade.rs), as the     *)
(* runner of src/src/resident.rs calls them.  Cutoffs of a stage are not   *)
(* computed: with enough samples they keep or reject any energy.           *)
(***************************************************************************)
EXTENDS Integers, Sequences, FiniteSets

CONSTANTS
  Jobs, Salts,     (* stream jobs and lease salts: only salts are screened  *)
  ChainTopology,   (* the topology the chain gates were measured on         *)
  AsMeasured,      (* units with the parameters they were measured at       *)
  TopologyOf,      (* the topology of each unit                             *)
  SweepsOf,        (* the sweep budget each unit asks for                   *)
  Configs,         (* settings a Configure message may choose               *)
  FirstConfig,
  ChainStages,     (* stage budgets of the chain plan (CHAIN_GATES)         *)
  ChainGates,      (* and the energy to reach at each of them               *)
  FullSweeps,      (* the budget of a unit under the chain plan             *)
  Calibrated,      (* transitions <<from, to>> with a known miss rate       *)
  MinSamples,      (* observations before a cutoff keeps anything           *)
  Energies,
  Targets,         (* session targets, None for no target                   *)
  PrepBound,       (* units prepared ahead                                  *)
  MaxRound,        (* bound: lease rounds                                   *)
  MaxConfigures,   (* bound: Configure messages                             *)
  None

Units == Jobs \union Salts

(* What a running unit was admitted under, and how far it is.              *)
Tickets ==
  [gates : Nat, stage : Nat, audited : BOOLEAN, epoch : Nat, yieldEpoch : Nat,
   round : 0..MaxRound, plan : Nat, sweeps : Nat]

ASSUME ControllerAssumption ==
  /\ Jobs \intersect Salts = {} /\ AsMeasured \subseteq Units
  /\ SweepsOf \in [Units -> Nat] /\ FullSweeps \in Nat
  /\ FirstConfig \in Configs
  /\ \A c \in Configs : c.open \in BOOLEAN /\ c.stages \in Seq(Nat \ {0})
  /\ ChainStages \in Seq(Nat \ {0}) /\ Len(ChainGates) = Len(ChainStages)
  /\ Energies \subseteq Int /\ None \in Targets /\ Targets \ {None} \subseteq Int
  /\ None \notin Tickets
  /\ None \notin Energies /\ None \notin [best : Energies, worst : Energies]
  /\ None \notin [target : Targets, admitted : SUBSET Units, results : SUBSET Units]
  /\ PrepBound \in Nat /\ MaxRound \in Nat /\ MaxConfigures \in Nat

VARIABLES
  config,      (* the settings shared with the session                      *)
  configures,  (* Configure messages so far                                 *)
  settings,    (* the controller's settings                                 *)
  plans,       (* every stage plan made so far; tickets refer to them       *)
  plan,        (* the current one                                           *)
  topology,    (* the topology the plan is for                              *)
  epoch,       (* Controller::topology_epoch                                *)
  yieldTarget,
  yieldEpoch,
  yieldCheck,  (* None, or the units it has counted                         *)
  round,       (* the newest lease round admitted                           *)
  range,       (* best and worst final energy of the round                  *)
  queue,       (* units sent to preparation, in order                       *)
  roundOf,     (* per salt, the lease round it was fed in                   *)
  at,          (* per unit, where it is                                     *)
  ticket,      (* per unit, its ticket                                      *)
  cut,         (* per unit, the sweeps of its checkpoints, its budget last  *)
  next,        (* per unit, its slot's next checkpoint                      *)
  panicked,    (* the runner indexed past the end of its plan               *)
  finals,      (* history: per unit, the final best it was finished with    *)
  audits,      (* history: units and stages chosen for an audit             *)
  aims         (* history: per unit, target and rate when it was admitted   *)

configVars == <<config, configures>>
planVars == <<settings, plans, plan, topology, epoch>>
yieldVars == <<yieldTarget, yieldEpoch, yieldCheck>>
roundVars == <<round, range>>
unitVars == <<at, ticket, cut, next>>
historyVars == <<finals, audits, aims>>
vars == <<configVars, planVars, yieldVars, roundVars, queue, roundOf, unitVars,
          panicked, historyVars>>

-----------------------------------------------------------------------------
(* Settings, schedules and plans *)

(* The chain gates apply to salts of the topology they were measured on,   *)
(* told by its fingerprint, with at least the reads of the measurement, one*)
(* sweep per beta and no beta range of their own.                          *)
Gated(u) == u \in Salts /\ TopologyOf[u] = ChainTopology /\ u \in AsMeasured

(* Open gates keep the configured stages.                                  *)
Effective(c, gated) ==
  [stages |-> IF gated /\ ~c.open THEN ChainStages ELSE c.stages,
   gated  |-> gated /\ ~c.open,
   open   |-> c.open]

Budget(c, u) == IF Gated(u) /\ ~c.open THEN FullSweeps ELSE SweepsOf[u]

(* How many stages there are before the first that is not below a budget.  *)
Below(stages, sweeps) ==
  Cardinality({k \in DOMAIN stages : \A j \in 1..k : stages[j] < sweeps})

(* The sweeps at each checkpoint of a unit's schedule: the stages below    *)
(* its budget, and the budget.                                             *)
Checkpoints(c, u, sweeps) ==
  LET stages == IF u \in Salts THEN Effective(c, Gated(u)).stages ELSE <<>>
  IN  Append(SubSeq(stages, 1, Below(stages, sweeps)), sweeps)

(* Mutant: no cutoff for the final energies.                               *)
StagePlanNoFinal(e) ==
  LET count == Len(e.stages) IN
  [stages |-> e.stages, gated |-> e.gated, open |-> e.open,
   seen   |-> [k \in 0..(count - 1) |-> 0],
   kept   |-> [k \in 0..(count - 1) |-> {}],
   lanes  |-> [k \in 0..(count - 1) |-> {}]]

(* One cutoff per stage and one for the final energies.                    *)
StagePlan(e) ==
  LET count == Len(e.stages) IN
  [stages |-> e.stages, gated |-> e.gated, open |-> e.open,
   seen   |-> [k \in 0..count |-> 0],
   kept   |-> [k \in 0..(count - 1) |-> {}],
   lanes  |-> [k \in 0..(count - 1) |-> {}]]

(* The stage array is padded with zeros.                                   *)
StageSweeps(p, k) == IF k < Len(p.stages) THEN p.stages[k + 1] ELSE 0

YieldFor(c, target) ==
  IF c.yield = None \/ target = None THEN None
  ELSE [target |-> target, admitted |-> {}, results |-> {}]

(* At the end of its window a yield check starts to count anew.            *)
WindowOver(check) ==
  IF check = None THEN None ELSE [check EXCEPT !.admitted = {}, !.results = {}]

Live == {u \in Units : at[u] = "live"}
PlanOf(u) == plans[ticket[u].plan]
Last(u) == next[u] + 1 = Len(cut[u])

-----------------------------------------------------------------------------
(* The session and the preparation of units *)

Configure ==
  /\ configures < MaxConfigures
  /\ \E c \in Configs \ {config} : config' = c
  /\ configures' = configures + 1
  /\ UNCHANGED <<planVars, yieldVars, roundVars, queue, roundOf, unitVars, panicked,
                 historyVars>>

(* A unit is cut under the settings of its submission.  Salts arrive in    *)
(* the order their leases feed, which is the order of their rounds.        *)
Submit(u) ==
  /\ at[u] = "new" /\ Len(queue) < PrepBound
  /\ at' = [at EXCEPT ![u] = "queued"]
  /\ queue' = Append(queue, [unit |-> u, settings |-> settings,
                             sweeps |-> Budget(settings, u)])
  /\ IF u \in Jobs THEN UNCHANGED roundOf
     ELSE \E r \in 0..MaxRound :
            /\ \A v \in Salts : at[v] # "new" => roundOf[v] <= r
            /\ roundOf' = [roundOf EXCEPT ![u] = r]
  /\ UNCHANGED <<configVars, planVars, yieldVars, roundVars, ticket, cut, next,
                 panicked, historyVars>>

-----------------------------------------------------------------------------
(* Admission *)

(* Mutant: a unit of another topology joins the units that run.            *)
FitsAnything(u) == TRUE

(* Pools hold one topology; the runner drains them before another.         *)
Fits(u) == \A v \in Live : TopologyOf[v] = TopologyOf[u]

(* Mutant: the schedule of the preparation is kept.                        *)
RecutNever(item) == Checkpoints(item.settings, item.unit, item.sweeps)

(* The schedule is cut again if the configured stages changed since.       *)
Recut(item) ==
  Checkpoints(IF item.settings.stages # settings.stages THEN settings
              ELSE item.settings, item.unit, item.sweeps)

(* Mutant: a plan is not replaced while the topology stays.                *)
StaleNever(wanted) == FALSE
Stale(wanted) ==
  plans[plan].stages # wanted.stages \/ plans[plan].gated # wanted.gated

(* A new plan on a topology change, or when the unit needs other stages.   *)
UsePlan(u, checkpoints) ==
  LET wanted == Effective(settings, Gated(u))
      moved  == topology # TopologyOf[u]
  IN
  IF Len(checkpoints) = 1 \/ ~(moved \/ Stale(wanted))
  THEN UNCHANGED <<plans, plan, topology, epoch>>
  ELSE /\ plans' = Append(plans, StagePlan(wanted))
       /\ plan' = Len(plans) + 1
       /\ topology' = TopologyOf[u]
       /\ epoch' = IF moved THEN epoch + 1 ELSE epoch

(* Mutant: the range of the old round is kept.                             *)
EnterRoundKeepsRange(u) ==
  /\ round' = IF u \in Salts /\ roundOf[u] > round THEN roundOf[u] ELSE round
  /\ UNCHANGED range

EnterRound(u) ==
  IF u \in Salts /\ roundOf[u] > round
  THEN round' = roundOf[u] /\ range' = None
  ELSE UNCHANGED roundVars

(* The yield check is set up again on a change of target, by salts only,   *)
(* and counts every unit admitted while it runs.                           *)
AimYield(u, target, counted) ==
  LET changed == u \in Salts /\ target # yieldTarget
      check   == IF changed THEN YieldFor(settings, target) ELSE yieldCheck
  IN
  /\ yieldTarget' = IF changed THEN target ELSE yieldTarget
  /\ yieldEpoch' = IF changed THEN yieldEpoch + 1 ELSE yieldEpoch
  /\ yieldCheck' = IF check = None \/ ~counted THEN check
                   ELSE [check EXCEPT !.admitted = @ \union {u}]

(* SlotPool may refuse the unit after the controller has admitted it.      *)
Admit ==
  /\ ~panicked /\ queue # <<>>
  /\ LET u == Head(queue).unit IN
     /\ Fits(u)
     /\ EnterRound(u)
     /\ \E target \in Targets :
          /\ AimYield(u, target, TRUE)
          /\ aims' = [aims EXCEPT ![u] = [target |-> yieldTarget',
                                          yield  |-> settings.yield]]
     /\ cut' = [cut EXCEPT ![u] = Recut(Head(queue))]
     /\ UsePlan(u, cut'[u])
     /\ ticket' = [ticket EXCEPT ![u] =
          [gates |-> Len(cut'[u]) - 1, stage |-> 0, audited |-> FALSE, epoch |-> epoch',
           yieldEpoch |-> yieldEpoch', round |-> round', plan |-> plan',
           sweeps |-> Head(queue).sweeps]]
     /\ \E place \in {"live", "done"} : at' = [at EXCEPT ![u] = place]
  /\ queue' = Tail(queue)
  /\ UNCHANGED <<configVars, settings, roundOf, next, panicked, finals, audits>>

(* A schedule that is cut again may turn out to be invalid.                *)
AdmitFails ==
  /\ ~panicked /\ queue # <<>>
  /\ LET item == Head(queue) IN
     /\ item.settings.stages # settings.stages
     /\ Fits(item.unit)
     /\ EnterRound(item.unit)
     /\ \E target \in Targets : AimYield(item.unit, target, FALSE)
     /\ at' = [at EXCEPT ![item.unit] = "done"]
  /\ queue' = Tail(queue)
  /\ UNCHANGED <<configVars, planVars, roundOf, ticket, cut, next, panicked,
                 historyVars>>

(* A unit whose preparation failed, or that nobody wants any more.         *)
Drop ==
  /\ ~panicked /\ queue # <<>>
  /\ at' = [at EXCEPT ![Head(queue).unit] = "done"]
  /\ queue' = Tail(queue)
  /\ UNCHANGED <<configVars, planVars, yieldVars, roundVars, roundOf, ticket, cut, next,
                 panicked, historyVars>>

-----------------------------------------------------------------------------
(* Checkpoints and what the plan learns *)

(* An audit compares the misses of a transition to the calibrated rate,    *)
(* which only the transitions of the calibration have.                     *)
MissRateKnown(from, to) == <<from, to>> \in Calibrated

AuditSupported(p, t, k) ==
  MissRateKnown(StageSweeps(p, k),
                IF k + 1 < t.gates THEN StageSweeps(p, k + 1) ELSE t.sweeps)

(* The plan learns how a unit did that it kept, or audited, one stage ago. *)
ObserveTransition(p, t, u) ==
  LET k == t.stage - 1 IN
  IF t.stage = 0 \/ ~AuditSupported(p, t, k) THEN p
  ELSE IF ~t.audited THEN [p EXCEPT !.kept[k] = @ \union {u}]
  ELSE IF p.kept[k] # {} THEN [p EXCEPT !.lanes[k] = @ \union {u}]
  ELSE p

Verdict(go, audited) == [go |-> go, audited |-> audited]

(* Only the stages of the chain plan have a gate.                          *)
HasGate(p, k) == p.gated /\ k < Len(ChainGates)

(* No target is reached and no gate is set: the stage's cutoff decides.    *)
Decides(p, k, best, target) ==
  ~p.open /\ ~HasGate(p, k) /\ (target = None \/ best > target)

(* The energy of a cutoff comes from the mean, the spread and the tail of  *)
(* what it observed: with enough samples it may keep any unit or none.     *)
MayKeep(p, k) == p.seen[k] >= MinSamples

(* A cutoff decides with what it knew before this unit, then learns it.    *)
Observed(p, k) == [p EXCEPT !.seen[k] = @ + 1]

(* What a cutoff rejects may run on as an audit.                           *)
CutoffVerdicts(p, t) ==
  {v \in [go : BOOLEAN, audited : BOOLEAN] :
     /\ v.audited => v.go /\ AuditSupported(p, t, t.stage)
     /\ v.go /\ ~v.audited => MayKeep(p, t.stage)}

(* Mutant: a unit that equals the target keeps its audit mark.             *)
MarkAtTargetKept(t) == t.audited
MarkAtTarget(t) == FALSE

(* What a checkpoint may say of a unit that reached energy best.  A unit   *)
(* better than the target ends here; one that equals it goes on.  An open  *)
(* gate leaves the audit mark alone.                                       *)
Verdicts(p, t, best, target) ==
  CASE t.epoch # epoch                     -> {Verdict(FALSE, t.audited)}
    [] t.epoch = epoch /\ Decides(p, t.stage, best, target) -> CutoffVerdicts(p, t)
    [] OTHER ->
         IF target # None /\ best < target THEN {Verdict(FALSE, t.audited)}
         ELSE IF target # None /\ best = target THEN {Verdict(TRUE, MarkAtTarget(t))}
         ELSE IF p.open THEN {Verdict(TRUE, t.audited)}
         ELSE {Verdict(best <= ChainGates[t.stage + 1], FALSE)}

(* The runner indexes the plan past its end: observe_transition with the   *)
(* stage before, and the audit of a rejected unit with its own stage.      *)
PastEnd(p, t) == t.epoch = epoch /\ t.stage > Len(p.stages)
RejectPastEnd(p, t) == t.epoch = epoch /\ t.stage = Len(p.stages)

(* The end of a unit that leaves with a best energy.                       *)
Finish(u, best) ==
  LET t == ticket[u] IN
  /\ at' = [at EXCEPT ![u] = "done"]
  /\ finals' = [finals EXCEPT ![u] = best]
  /\ range' = IF t.round # round THEN range
              ELSE IF range = None THEN [best |-> best, worst |-> best]
              ELSE [best  |-> IF best < range.best THEN best ELSE range.best,
                    worst |-> IF best > range.worst THEN best ELSE range.worst]
  /\ \E delivered \in BOOLEAN :
       yieldCheck' = IF delivered /\ t.yieldEpoch = yieldEpoch /\ yieldCheck # None
                     THEN [yieldCheck EXCEPT !.results = @ \union {u}]
                     ELSE yieldCheck

(* A unit that was abandoned before its read-back has no best energy.      *)
LeaveUnread(u) ==
  /\ at' = [at EXCEPT ![u] = "done"]
  /\ UNCHANGED <<finals, range, yieldCheck>>

(* Mutant: the ticket's stage does not follow a unit that equals its target. *)
NextStageUnlessTarget(t, v, best, target) ==
  IF v.go /\ best # target THEN t.stage + 1 ELSE t.stage
NextStage(t, v, best, target) == IF v.go THEN t.stage + 1 ELSE t.stage

Judge(u) ==
  /\ ~panicked /\ at[u] = "live" /\ ~Last(u)
  /\ LET t == ticket[u]
         p == PlanOf(u)
         q == IF t.epoch = epoch THEN ObserveTransition(p, t, u) ELSE p
     IN
     /\ ~PastEnd(p, t)
     /\ \E best \in Energies, target \in (IF u \in Salts THEN Targets ELSE {None}) :
        \E v \in Verdicts(p, t, best, target) :
        LET decided == t.epoch = epoch /\ Decides(p, t.stage, best, target) IN
        /\ decided /\ RejectPastEnd(p, t) => v = Verdict(TRUE, FALSE)
        /\ plans' = [plans EXCEPT ![t.plan] =
             IF decided THEN Observed(q, t.stage) ELSE q]
        /\ ticket' = [ticket EXCEPT ![u].audited = v.audited,
                                    ![u].stage = NextStage(t, v, best, target)]
        /\ audits' = IF decided /\ v.audited THEN audits \union {<<u, t.stage>>} ELSE audits
        /\ next' = [next EXCEPT ![u] = @ + 1]
        /\ IF v.go THEN UNCHANGED <<at, finals, range, yieldCheck>>
           ELSE Finish(u, best) \/ (u \in Salts /\ LeaveUnread(u))
  /\ UNCHANGED <<configVars, settings, plan, topology, epoch, yieldTarget, yieldEpoch,
                 round, queue, roundOf, cut, panicked, aims>>

JudgePanics(u) ==
  /\ ~panicked /\ at[u] = "live" /\ ~Last(u)
  /\ \/ PastEnd(PlanOf(u), ticket[u])
     \/ /\ RejectPastEnd(PlanOf(u), ticket[u])
        /\ \E best \in Energies, target \in Targets :
             Decides(PlanOf(u), ticket[u].stage, best, target)
  /\ panicked' = TRUE
  /\ UNCHANGED <<configVars, planVars, yieldVars, roundVars, queue, roundOf, unitVars,
                 historyVars>>

(* A unit that was kept to the end teaches its plan how it ended.          *)
Learnt(u) ==
  LET q == ObserveTransition(PlanOf(u), ticket[u], u)
  IN  Observed(q, Len(q.stages))

(* The last checkpoint, or a target hit between two checkpoints.           *)
Complete(u) ==
  /\ ~panicked /\ at[u] = "live"
  /\ LET t == ticket[u] IN
     /\ \E best \in Energies :
          /\ \/ Last(u)
             \/ u \in Salts /\ \E target \in Targets \ {None} : best < target
          /\ Finish(u, best)
     /\ IF t.epoch = epoch /\ t.stage = t.gates /\ t.gates > 0
        THEN IF PastEnd(PlanOf(u), t)
             THEN panicked' = TRUE /\ UNCHANGED plans
             ELSE plans' = [plans EXCEPT ![t.plan] = Learnt(u)] /\ UNCHANGED panicked
        ELSE UNCHANGED <<plans, panicked>>
  /\ UNCHANGED <<configVars, settings, plan, topology, epoch, yieldTarget, yieldEpoch,
                 round, queue, roundOf, ticket, cut, next, audits, aims>>

(* Cancelled, failed, or cut off by the end of the stream.                 *)
Abandon(u) ==
  /\ ~panicked /\ at[u] = "live"
  /\ at' = [at EXCEPT ![u] = "done"]
  /\ UNCHANGED <<configVars, planVars, yieldVars, roundVars, queue, roundOf, ticket, cut,
                 next, panicked, historyVars>>

-----------------------------------------------------------------------------
(* Once a second: the yield window, the settings *)

(* Mutant: the yield check of a new rate takes over the old one's units.   *)
RateEpochUnchanged == yieldEpoch
RateEpoch == IF config.yield # settings.yield THEN yieldEpoch + 1 ELSE yieldEpoch

Refresh ==
  /\ ~panicked
  /\ settings' = config
  /\ IF config.stages # settings.stages \/ config.keep # settings.keep
     THEN /\ plans' = Append(plans, StagePlan(Effective(config, FALSE)))
          /\ plan' = Len(plans) + 1
     ELSE plans' = [plans EXCEPT ![plan].open = config.open] /\ UNCHANGED plan
  /\ yieldEpoch' = RateEpoch
  /\ IF config.yield # settings.yield
     THEN yieldCheck' = YieldFor(config, yieldTarget)
     ELSE yieldCheck' \in {yieldCheck, WindowOver(yieldCheck)}
  /\ UNCHANGED <<configVars, topology, epoch, yieldTarget, roundVars, queue, roundOf,
                 unitVars, panicked, historyVars>>

Stopped == (panicked \/ \A u \in Units : at[u] = "done") /\ UNCHANGED vars

-----------------------------------------------------------------------------
(* Specification *)

Init ==
  /\ config = FirstConfig /\ settings = FirstConfig /\ configures = 0
  /\ plans = <<StagePlan(Effective(FirstConfig, FALSE))>> /\ plan = 1
  /\ topology = None /\ epoch = 0
  /\ yieldTarget = None /\ yieldEpoch = 0 /\ yieldCheck = None
  /\ round = 0 /\ range = None
  /\ queue = <<>> /\ roundOf = [u \in Salts |-> 0]
  /\ at = [u \in Units |-> "new"] /\ ticket = [u \in Units |-> None]
  /\ cut = [u \in Units |-> <<>>] /\ next = [u \in Units |-> 0]
  /\ panicked = FALSE
  /\ finals = [u \in Units |-> None] /\ audits = {}
  /\ aims = [u \in Units |-> None]

Next ==
  \/ Configure \/ Refresh
  \/ Admit \/ AdmitFails \/ Drop
  \/ \E u \in Units :
       Submit(u) \/ Judge(u) \/ JudgePanics(u) \/ Complete(u) \/ Abandon(u)
  \/ Stopped

Spec == Init /\ [][Next]_vars

-----------------------------------------------------------------------------
(* Properties *)

Screened(u) == at[u] = "live" /\ ticket[u].gates > 0

(* The state keeps its types (Controller, Ticket, StagePlan).              *)
TypeOK ==
  /\ config \in Configs /\ settings \in Configs /\ configures \in 0..MaxConfigures
  /\ plan \in DOMAIN plans
  /\ \A i \in DOMAIN plans : plans[i].seen \in [0..Len(plans[i].stages) -> Nat]
  /\ epoch \in Nat /\ yieldEpoch \in Nat /\ yieldTarget \in Targets
  /\ round \in 0..MaxRound /\ Len(queue) <= PrepBound
  /\ at \in [Units -> {"new", "queued", "live", "done"}]
  /\ ticket \in [Units -> Tickets \union {None}]
  /\ panicked \in BOOLEAN

(* A unit is judged at the sweep counts its plan's stages name: the        *)
(* schedule it was cut to and the plan its ticket holds belong together    *)
(* (admit_prepared: "Queued jobs must use the current gate plan").         *)
CutByPlan ==
  \A u \in Units : Screened(u) =>
     /\ ticket[u].gates <= Len(PlanOf(u).stages)
     /\ \A k \in 1..ticket[u].gates : cut[u][k] = PlanOf(u).stages[k]

(* The runner never indexes a plan past its end (checkpoint, finish).      *)
NoPanic == ~panicked

(* The ticket counts the checkpoints its slot has passed (harvest:         *)
(* "debug_assert_eq!(checkpoint.index, live.ticket.stage)").               *)
StageIsCheckpoint ==
  \A u \in Units : at[u] = "live" => ticket[u].stage = next[u]

(* The runner may trust its tickets: they are of the types it assumes, and *)
(* count the checkpoints passed.                                           *)
TicketInv == TypeOK /\ StageIsCheckpoint

(* No unit that runs has been left behind by a change of topology, which   *)
(* would screen it out unseen (checkpoint, admit_prepared, Pool::fits).    *)
LiveInEpoch ==
  \A u \in Units : Screened(u) => ticket[u].epoch = epoch /\ topology = TopologyOf[u]

(* The reported range is that of the final energies of the newest round's  *)
(* units, whatever of an older round finishes late (enter_round, finish).  *)
RangeOfRound ==
  LET ends == {finals[u] : u \in {w \in Units : finals[w] # None /\ ticket[w].round = round}}
  IN
  /\ \A u \in Salts : ticket[u] # None => ticket[u].round = roundOf[u]
  /\ IF ends = {} THEN range = None
     ELSE /\ range # None
          /\ {range.best, range.worst} \subseteq ends
          /\ \A e \in ends : range.best <= e /\ e <= range.worst

(* The yield check counts results of units that were admitted under the    *)
(* target and the rate it measures (set_yield_target, refresh, finish).    *)
YieldOfAim ==
  /\ (yieldCheck # None) <=> (settings.yield # None /\ yieldTarget # None)
  /\ yieldCheck # None =>
       \A u \in yieldCheck.results \union yieldCheck.admitted :
          aims[u] = [target |-> yieldCheck.target, yield |-> settings.yield]

(* A unit counts as audited at exactly the stages whose cutoff rejected it *)
(* (docs/cascade.md: "An audit lets a rejected probe run one level         *)
(* deeper").                                                               *)
AuditsSelected ==
  \A i \in DOMAIN plans : \A k \in DOMAIN plans[i].lanes :
     /\ \A u \in plans[i].lanes[k] : <<u, k>> \in audits
     /\ \A u \in plans[i].kept[k] : <<u, k>> \notin audits

(* What a plan learns comes from the stages it has, and from no unit that  *)
(* its cutoff both kept and rejected.                                      *)
LearntInv == AuditsSelected /\ NoPanic
=============================================================================
