------------------------------ MODULE SlotPool ------------------------------
(***************************************************************************)
(* One pool of resident slots, from the preparation of its units to the    *)
(* command that steps them and the readback of what they reached.  Units   *)
(* share schedules by storage: a slot that holds a schedule's storage is   *)
(* not uploaded again.  Storage nobody refers to may be allocated anew     *)
(* with another schedule.  A command may fail, and the pool may be built   *)
(* again, for another graph and on used buffers.                           *)
(*                                                                         *)
(* Code: SlotPool, PreparedInputs (src/src/slots.rs), ScheduleCache        *)
(* (cascade.rs), Pool::new (resident.rs); the kernel is                    *)
(* src/kernels/msa.metal.                                                  *)
(***************************************************************************)
EXTENDS Layout, Schedule

CONSTANTS
  Units,
  WorkOf,         (* per unit, what its schedule is cut from                *)
  Observed,       (* the units with observe-only readbacks                  *)
  Graphs,         (* the graphs a pool may be built for                     *)
  GraphOf,        (* per unit, its graph                                    *)
  Capacity,       (* slots of the pool                                      *)
  Stride,         (* schedule storage per slot                              *)
  Slices,         (* sweeps per step, after the governor's scale            *)
  DeepSlices,     (* the same in a leg of its own                           *)
  DispatchRoom,   (* slots times sweeps one command may take                *)
  ObserveInterval,
  DeviceTime,     (* device time of a command                               *)
  Places,         (* places a schedule can be allocated at                  *)
  BusyGraphs,     (* bound: the graphs of the pools that units meet         *)
  Ahead,          (* bound: units prepared and not yet admitted             *)
  MaxBuilds,      (* bound: how often the pool is built                     *)
  None

SlotIds == 1 .. Capacity

(* What the schedule of each unit is.                                      *)
BetasOf == [u \in Units |-> Betas(WorkOf[u])]
CheckpointsOf == [u \in Units |-> Checkpoints(WorkOf[u])]
FreshOf == [u \in Units |-> FreshFrom(WorkOf[u])]

(* The residents of slots, the entries of the cache and what runs in spins. *)
Residents == [unit : Units, at : 1 .. Places, pos : Nat, next : Nat,
              output : BOOLEAN, us : Nat]
Caches == [work : {WorkOf[u] : u \in Units}, at : 1 .. Places]
Runs == [unit : Units, leg : Nat, betas : Seq(Rungs)]

ASSUME SlotAssumption ==
  /\ {Capacity, Stride, DispatchRoom, ObserveInterval} \subseteq Nat \ {0}
  /\ {Places, DeviceTime, Ahead, MaxBuilds} \subseteq Nat
  /\ Slices \union DeepSlices \subseteq Nat \ {0} /\ ReheatThrough \in Nat
  /\ Observed \subseteq Units
  /\ WorkOf \in [Units -> Works]
  /\ \A u \in Units : \A i, j \in DOMAIN WorkOf[u].stages :
       i < j => WorkOf[u].stages[i] < WorkOf[u].stages[j]
  /\ Places > Ahead + Capacity   (* an allocation finds a free place         *)
  /\ None \notin (1 .. Places) \union Residents \union Caches \union Runs

VARIABLES
  graph,       (* the graph the pool is built for                           *)
  layout,
  builds,
  store,       (* per place, the schedule it holds                          *)
  cache,       (* the last schedule prepared, shared by the workers         *)
  at,          (* per unit: "new", "prepared", "live" or "done"             *)
  prepared,    (* per unit, the storage of its schedule                     *)
  slots,       (* per slot, the resident unit                               *)
  held,        (* per slot, the storage last uploaded                       *)
  steps,       (* the steps of the command, by slot                         *)
  command,     (* "none", "running", "completed" or "error"                 *)
  faulted,
  found,       (* the checkpoints taken from the last command               *)
  betas,       (* device: per slot, the schedule in its region              *)
  inputs,      (* device: per slot, the unit whose coefficients it holds    *)
  spins,       (* device: per slot, the anneal its spins went through       *)
  output,      (* device: per slot, what was written out last               *)
  unbilled     (* history: device time of the commands retired, less what   *)
               (* the units released were billed                            *)

hostVars == <<slots, held, steps, command, faulted, found>>
deviceVars == <<betas, inputs, spins, output>>
prepVars == <<store, cache, at, prepared>>
poolVars == <<graph, layout, builds>>
vars == <<poolVars, prepVars, hostVars, deviceVars, unbilled>>

Live == {s \in SlotIds : slots[s] # None}
Built == layout # NoLayout
Idle == Built /\ command = "none" /\ ~faulted

-----------------------------------------------------------------------------
(* Preparation *)

(* Mutant: a slot remembers the place of its schedule without keeping it.  *)
KeptUnheld(a) ==
  \/ cache # None /\ cache.at = a
  \/ \E u \in Units : prepared[u] = a
  \/ \E s \in Live : slots[s].at = a
(* Who keeps a schedule's storage from being freed.                        *)
KeptBy(a) ==
  \/ cache # None /\ cache.at = a
  \/ \E u \in Units : prepared[u] = a
  \/ \E s \in SlotIds : held[s] = a
  \/ \E s \in Live : slots[s].at = a

(* Whether the last schedule prepared is this one, by all it is cut from.   *)
Cached(w) == cache # None /\ cache.work = w

(* Places that nobody keeps differ in nothing, so the first one is taken.  *)
Prepare(u) ==
  /\ at[u] = "new" /\ ValidSchedule(WorkOf[u])
  /\ Cardinality({v \in Units : at[v] = "prepared"}) < Ahead
  /\ Built => graph \in BusyGraphs
  /\ at' = [at EXCEPT ![u] = "prepared"]
  /\ IF Cached(WorkOf[u])
     THEN /\ prepared' = [prepared EXCEPT ![u] = cache.at]
          /\ UNCHANGED <<store, cache>>
     ELSE LET a == CHOOSE a \in 1 .. Places :
                     ~KeptBy(a) /\ \A b \in 1 .. a - 1 : KeptBy(b) IN
          /\ store' = [store EXCEPT ![a] = BetasOf[u]]
          /\ cache' = [work |-> WorkOf[u], at |-> a]
          /\ prepared' = [prepared EXCEPT ![u] = a]
  /\ UNCHANGED <<poolVars, hostVars, deviceVars, unbilled>>

PrepareFails(u) ==
  /\ at[u] = "new" /\ ~ValidSchedule(WorkOf[u])
  /\ Built => graph \in BusyGraphs
  /\ at' = [at EXCEPT ![u] = "done"]
  /\ UNCHANGED <<poolVars, store, cache, prepared, hostVars, deviceVars, unbilled>>

-----------------------------------------------------------------------------
(* The pool *)

(* SlotPool::new, Pool::new: the buffers are rented, with what they held.  *)
(* Bound: the graphs of no unit here are met before the first unit.        *)
Build ==
  /\ ~Built /\ builds < MaxBuilds
  /\ builds' = builds + 1
  /\ \E g \in IF \A u \in Units : at[u] = "new" THEN Graphs
              ELSE {GraphOf[u] : u \in {v \in Units : at[v] = "prepared"}} :
       /\ g.n > 0 /\ ValidGraph(g)
       /\ graph' = g /\ layout' \in Layouts(g)
  /\ UNCHANGED <<prepVars, hostVars, deviceVars, unbilled>>

(* Drop: the command is waited for and the buffers go back to the pool of  *)
(* buffers; another pool may get them in another order.                    *)
DropPool ==
  /\ Built /\ Live = {} /\ command # "running"
  /\ graph' = None /\ layout' = NoLayout
  /\ slots' = [s \in SlotIds |-> None] /\ held' = [s \in SlotIds |-> None]
  /\ steps' = <<>> /\ command' = "none" /\ faulted' = FALSE /\ found' = {}
  /\ betas' = [s \in SlotIds |-> <<>>]
  /\ inputs' = [s \in SlotIds |-> None]
  /\ UNCHANGED <<builds, prepVars, spins, output, unbilled>>

(* matches_prepared compares the edges in their order.                     *)
Matches(u) == GraphOf[u] = graph

(* Mutant: only the start of a longer schedule is uploaded.                *)
UploadedOver(s, a) == held[s] # None /\ Len(store[held[s]]) >= Len(store[a])
Uploaded(s, a) == held[s] = a

(* What a region holds after an upload: the rest keeps the schedule before.*)
Over(old, new) == new \o SubSeq(old, Len(new) + 1, Len(old))

(* Mutant: what the slot wrote for the unit before counts as this one's.   *)
ResidentKeepsOutput(u) ==
  [unit |-> u, at |-> prepared[u], pos |-> 0, next |-> 1, output |-> TRUE, us |-> 0]
Resident(u) ==
  [unit |-> u, at |-> prepared[u], pos |-> 0, next |-> 1, output |-> FALSE, us |-> 0]

Admit(u) ==
  /\ Idle /\ at[u] = "prepared" /\ Live # SlotIds
  /\ Len(store[prepared[u]]) <= Stride /\ Matches(u)
  /\ LET s == CHOOSE s \in SlotIds \ Live : \A t \in SlotIds \ Live : s <= t
         a == prepared[u]
     IN
     /\ slots' = [slots EXCEPT ![s] = Resident(u)]
     /\ inputs' = [inputs EXCEPT ![s] = u]
     /\ held' = [held EXCEPT ![s] = a]
     /\ betas' = IF Uploaded(s, a) THEN betas
                 ELSE [betas EXCEPT ![s] = Over(@, store[a])]
  /\ at' = [at EXCEPT ![u] = "live"]
  /\ prepared' = [prepared EXCEPT ![u] = None]
  /\ found' = {}
  /\ UNCHANGED <<poolVars, store, cache, steps, command, faulted, spins, output, unbilled>>

(* Another shape or too long a schedule: the runner waits for an empty     *)
(* pool and builds it again, or answers with the refusal.                  *)
AdmitRefused(u) ==
  /\ Idle /\ at[u] = "prepared"
  /\ Len(store[prepared[u]]) > Stride \/ ~Matches(u)
  /\ at' = [at EXCEPT ![u] = "done"] /\ prepared' = [prepared EXCEPT ![u] = None]
  /\ UNCHANGED <<poolVars, store, cache, hostVars, deviceVars, unbilled>>

(* A unit is released when it is finished with, cancelled or screened out. *)
Release(s) ==
  /\ Idle /\ s \in Live
  /\ at' = [at EXCEPT ![slots[s].unit] = "done"]
  /\ unbilled' = unbilled - slots[s].us
  /\ slots' = [slots EXCEPT ![s] = None]
  /\ found' = {c \in found : c.slot # s}
  /\ UNCHANGED <<poolVars, store, cache, prepared, held, steps, command, faulted,
                 deviceVars>>

-----------------------------------------------------------------------------
(* A step *)

Unit(s) == slots[s].unit
LegStart(u, k) == IF k = 1 THEN 0 ELSE CheckpointsOf[u][k - 1]
(* Legs count from one here, so leg k is a fresh one above FreshFrom.      *)
Fresh(u, k) == k > FreshOf[u]

(* msa_step_limit: the more slots, the fewer sweeps of each.               *)
StepLimit(slice) == AtLeastOne(Least(slice, DispatchRoom \div Cardinality(Live)))

(* Mutant: an interval is counted from the position itself.                *)
ObserveRoomFromHere(s) == ObserveInterval
ObserveRoom(s) ==
  (slots[s].pos \div ObserveInterval + 1) * ObserveInterval - slots[s].pos

(* Mutant: the legs of their own after the first go on from its spins.     *)
RestartsFirstLeg(s) == Fresh(Unit(s), slots[s].next) /\ slots[s].next = 1
Restarts(s) ==
  /\ slots[s].next > 1 /\ Fresh(Unit(s), slots[s].next)
  /\ slots[s].pos = LegStart(Unit(s), slots[s].next)

(* Mutant: a step that ends at an observe point is a checkpoint.           *)
StepAllCheckpoints(s, slice, deep) ==
  LET k     == slots[s].next
      room  == CheckpointsOf[Unit(s)][k] - slots[s].pos
      watch == Unit(s) \in Observed /\ ObserveRoom(s) < room
      limit == StepLimit(IF Fresh(Unit(s), k) THEN deep ELSE slice)
      count == Least(limit, IF watch THEN ObserveRoom(s) ELSE room)
  IN [start |-> slots[s].pos, count |-> count, leg |-> k - 1,
      write |-> count = room \/ (watch /\ count = ObserveRoom(s)),
      observe |-> FALSE, restart |-> Restarts(s)]
Step(s, slice, deep) ==
  LET k     == slots[s].next
      room  == CheckpointsOf[Unit(s)][k] - slots[s].pos
      watch == Unit(s) \in Observed /\ ObserveRoom(s) < room
      limit == StepLimit(IF Fresh(Unit(s), k) THEN deep ELSE slice)
      count == Least(limit, IF watch THEN ObserveRoom(s) ELSE room)
  IN [start |-> slots[s].pos, count |-> count, leg |-> k - 1,
      write |-> count = room \/ (watch /\ count = ObserveRoom(s)),
      observe |-> count # room, restart |-> Restarts(s)]

(* The runner releases a slot at its last checkpoint before it steps.      *)
CommitStep ==
  /\ Idle /\ Live # {}
  /\ \A s \in Live : slots[s].next <= Len(CheckpointsOf[Unit(s)])
  /\ \E slice \in Slices, deep \in DeepSlices :
       steps' = [s \in Live |-> Step(s, slice, deep)]
  /\ command' = "running" /\ found' = {}
  /\ UNCHANGED <<poolVars, prepVars, slots, held, faulted, deviceVars, unbilled>>

(* The kernel: new spins where the schedule or a leg of its own begins.    *)
Ran(s) ==
  LET step == steps[s]
      run  == SubSeq(betas[s], step.start + 1, step.start + step.count)
  IN IF step.start = 0 \/ step.restart
     THEN [unit |-> inputs[s], leg |-> step.leg, betas |-> run]
     ELSE [spins[s] EXCEPT !.betas = @ \o run]

Stepped == DOMAIN steps

Complete ==
  /\ command = "running" /\ command' = "completed"
  /\ spins' = [s \in SlotIds |-> IF s \in Stepped THEN Ran(s) ELSE spins[s]]
  /\ output' = [s \in SlotIds |-> IF s \in Stepped /\ steps[s].write
                                  THEN Ran(s) ELSE output[s]]
  /\ UNCHANGED <<poolVars, prepVars, slots, held, steps, faulted, found, betas, inputs,
                 unbilled>>

Fail ==
  /\ command = "running" /\ command' = "error"
  /\ spins' = [s \in SlotIds |-> IF s \in Stepped THEN None ELSE spins[s]]
  /\ output' = [s \in SlotIds |-> IF s \in Stepped THEN None ELSE output[s]]
  /\ UNCHANGED <<poolVars, prepVars, slots, held, steps, faulted, found, betas, inputs,
                 unbilled>>

(* Mutant: the remainder of the time is nobody's.                          *)
ShareRounded(count, i) == DeviceTime \div count
(* The i-th of count equal shares, the first ones with the remainder.      *)
Share(count, i) == DeviceTime \div count + (IF i <= DeviceTime % count THEN 1 ELSE 0)

(* The place of a slot among the slots of the command.                     *)
Turn(s) == Cardinality({t \in Stepped : t <= s})

Advanced(s) ==
  LET gate == steps[s].write /\ ~steps[s].observe IN
  [slots[s] EXCEPT !.pos = @ + steps[s].count,
     !.us = @ + Share(Cardinality(Stepped), Turn(s)),
     !.output = @ \/ steps[s].write, !.next = IF gate THEN @ + 1 ELSE @]

(* Where the anneal that leg k belongs to started.                         *)
AnnealStart(u, k) == IF Fresh(u, k) THEN LegStart(u, k) ELSE 0

Checkpoint(s) ==
  LET u == Unit(s)
      k == slots[s].next
  IN [slot |-> s, index |-> k, observe |-> steps[s].observe,
      last |-> ~steps[s].observe /\ k = Len(CheckpointsOf[u]),
      position |-> slots[s].pos + steps[s].count - AnnealStart(u, k)]

TakeCheckpoints ==
  /\ command = "completed"
  /\ command' = "none"
  /\ slots' = [s \in SlotIds |-> IF s \in Stepped THEN Advanced(s) ELSE slots[s]]
  /\ found' = {Checkpoint(s) : s \in {t \in Stepped : steps[t].write}}
  /\ unbilled' = unbilled + DeviceTime
  /\ UNCHANGED <<poolVars, prepVars, held, steps, faulted, deviceVars>>

(* The error of a command: the pool is of no use any more, and the runner  *)
(* answers what is resident before it drops the pool.                      *)
TakeFails ==
  /\ command = "error"
  /\ command' = "none" /\ faulted' = TRUE
  /\ UNCHANGED <<poolVars, prepVars, slots, held, steps, found, deviceVars, unbilled>>

FlushFaulted(s) ==
  /\ faulted /\ s \in Live
  /\ at' = [at EXCEPT ![slots[s].unit] = "done"]
  /\ unbilled' = unbilled - slots[s].us
  /\ slots' = [slots EXCEPT ![s] = None] /\ found' = {}
  /\ UNCHANGED <<poolVars, store, cache, prepared, held, steps, command, faulted,
                 deviceVars>>

-----------------------------------------------------------------------------
(* Specification *)

Init ==
  /\ graph = None /\ layout = NoLayout /\ builds = 0
  /\ store = [a \in 1 .. Places |-> <<>>] /\ cache = None
  /\ at = [u \in Units |-> "new"] /\ prepared = [u \in Units |-> None]
  /\ slots = [s \in SlotIds |-> None] /\ held = [s \in SlotIds |-> None]
  /\ steps = <<>> /\ command = "none" /\ faulted = FALSE /\ found = {}
  /\ betas = [s \in SlotIds |-> <<>>] /\ inputs = [s \in SlotIds |-> None]
  /\ spins = [s \in SlotIds |-> None] /\ output = [s \in SlotIds |-> None]
  /\ unbilled = 0

Next ==
  \/ \E u \in Units : Prepare(u) \/ PrepareFails(u) \/ Admit(u) \/ AdmitRefused(u)
  \/ \E s \in SlotIds : Release(s) \/ FlushFaulted(s)
  \/ Build \/ DropPool \/ CommitStep \/ TakeCheckpoints \/ TakeFails
  \/ Complete \/ Fail

Spec == Init /\ [][Next]_vars

-----------------------------------------------------------------------------
(* Properties *)

(* The type invariant.                                                     *)
TypeOK ==
  /\ builds \in 0 .. MaxBuilds /\ command \in {"none", "running", "completed", "error"}
  /\ at \in [Units -> {"new", "prepared", "live", "done"}]
  /\ held \in [SlotIds -> 1 .. Places \union {None}]
  /\ prepared \in [Units -> 1 .. Places \union {None}]
  /\ \A s \in Live : slots[s].pos <= Len(store[slots[s].at]) /\ slots[s].at = held[s]
  /\ \A c \in found : c.slot \in Live

(* Equal storage means equal schedule, although storage is freed and used  *)
(* again: the region of a live slot holds its own schedule (upload, held). *)
RegionHolds ==
  \A s \in Live :
    LET own == BetasOf[Unit(s)] IN
    store[slots[s].at] = own /\ SubSeq(betas[s], 1, Len(own)) = own

(* Whatever was cut short by slices, observe points and restarts: at a     *)
(* checkpoint the unit has been through the anneal the cascade means by    *)
(* it, no more and no less, and that is what is read back (commit_step,    *)
(* take_checkpoints, reads_many).                                          *)
Anneals ==
  [u \in Units |-> [k \in DOMAIN CheckpointsOf[u] |-> AnnealAt(WorkOf[u], k)]]
CheckpointsAnnealed ==
  \A c \in found : ~c.observe =>
    LET u == Unit(c.slot)
        anneal == Anneals[u][c.index]
    IN /\ output[c.slot] = [unit |-> u, leg |-> anneal.leg, betas |-> anneal.betas]
       /\ c.position = Budgets(WorkOf[u])[c.index]
       /\ c.last <=> slots[c.slot].pos = Len(BetasOf[u])

(* What reads_many may read was written by the unit that is in the slot.   *)
OutputOwn ==
  \A s \in Live : slots[s].output /\ command # "error" /\ ~faulted =>
     output[s] # None /\ output[s].unit = slots[s].unit

(* An observed unit is read back at least once per interval, and a         *)
(* readback between its checkpoints is never taken for one of them.        *)
WrittenAt(s) ==
  IF slots[s].output
  THEN AnnealStart(Unit(s), output[s].leg + 1) + Len(output[s].betas) ELSE 0
ObservedInTime ==
  /\ \A s \in Live : Unit(s) \in Observed /\ command = "none" /\ ~faulted =>
       slots[s].pos - WrittenAt(s) < ObserveInterval
  /\ \A c \in found : c.observe => slots[c.slot].pos \notin ToSet(CheckpointsOf[Unit(c.slot)])

(* Units are billed all the device time of their commands, and no more     *)
(* (proportional_us, and what a release answers).                          *)
Bills == [s \in Live |-> slots[s].us]
TimeShared == unbilled = SumFunction(Bills)

(* In every state of a pool: its slots, their regions and their bills.     *)
SlotInv == TypeOK /\ RegionHolds /\ OutputOwn /\ TimeShared

(* The layout of every graph that a pool is built for is sound: no two     *)
(* nodes of an edge are updated at once, every node sees the sum of its    *)
(* couplings, and the kernel's prefetch covers every row of an admitted    *)
(* graph (topology.rs, validate_batch).                                    *)
LayoutSound ==
  Built => ColorsSound(graph, layout) /\ CouplingsSound(graph, layout)
             /\ RowsFetched(graph, layout)
=============================================================================
