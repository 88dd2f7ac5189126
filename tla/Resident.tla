----------------------------- MODULE Resident -----------------------------
(***************************************************************************)
(* The resident runner: one thread that owns two slot pools of the GPU and *)
(* alternates between them, while preparation workers turn queued units    *)
(* into uploads, the session and the leases feed it, and both may cancel.  *)
(*                                                                         *)
(* Code: src/src/resident.rs (run, Pool::harvest, Preparation, answer and  *)
(* the reject functions) over the SlotPool of src/src/slots.rs.            *)
(*                                                                         *)
(* A step of the runner is one turn of one of its loops, so senders,       *)
(* workers, the GPU and cancellation interleave between any two units it   *)
(* handles.  Energies are not modelled: what the controller decides at a   *)
(* checkpoint is a choice.                                                 *)
(***************************************************************************)
EXTENDS Naturals, Sequences, FiniteSets

CONSTANTS
  Jobs,           (* stream jobs                                            *)
  Salts,          (* lease salts                                            *)
  Leases,         (* leases that issue the salts                            *)
  LeaseOf,        (* the lease of each salt                                 *)
  Workers,        (* number of preparation workers (PREP_WORKERS)           *)
  PrepBound,      (* units prepared ahead (PREP_BOUND)                      *)
  JobCap,         (* capacity of the session's job channel                  *)
  SaltCap,        (* capacity of the salt intake channel                    *)
  OutCap,         (* capacity of the result channel                         *)
  Slots,          (* slots of one pool                                      *)
  Configs,        (* cascade settings a Configure message may choose        *)
  FirstConfig,    (* the settings in force when the stream starts           *)
  ShapeOf,        (* each unit's topology and read count                    *)
  LengthOf,       (* length of each unit's schedule under each settings     *)
  Gates,          (* schedule positions of a salt's screening checkpoints   *)
  Observes,       (* schedule positions where a salt is only observed       *)
  PrepResults,    (* what preparing each unit may give                      *)
  None

Units == Jobs \union Salts
Pools == {0, 1}
SlotIds == 1..Slots
WorkerIds == 1..Workers

(* "slots": schedule and inputs; "full": Ok(None), the non-slot path;      *)
(* "empty": Ok(None) of a graph without nodes; "error": Err.               *)
Results == {"slots", "full", "empty", "error"}

ASSUME UnitsAssumption ==
  /\ Jobs \intersect Salts = {}
  /\ LeaseOf \in [Salts -> Leases]
ASSUME BoundsAssumption ==
  /\ Workers \in Nat \ {0} /\ Slots \in Nat \ {0} /\ PrepBound \in Nat \ {0}
  /\ JobCap \in Nat \ {0} /\ SaltCap \in Nat \ {0} /\ OutCap \in Nat \ {0}
ASSUME PlanAssumption ==
  /\ FirstConfig \in Configs
  /\ LengthOf \in [Units -> [Configs -> Nat \ {0}]]
  /\ PrepResults \in [Units -> SUBSET Results]

VARIABLES
  jobs,        (* the job channel                                           *)
  permits,     (* jobs whose sender holds a reserved place in the channel   *)
  inputOpen,   (* the session still holds a job sender                      *)
  jobsClosed,  (* the runner has closed the job channel                     *)
  salts,       (* the salt intake channel                                   *)
  sent,        (* history: units handed to a channel                        *)
  work,        (* per worker, its queue of units with their settings        *)
  nextWorker,  (* round-robin cursor                                        *)
  ready,       (* units whose replies the runner will collect, in order     *)
  reply,       (* per unit, the prepared unit in its reply channel          *)
  pending,     (* a prepared unit in the runner's hands                     *)
  shape,       (* shape and stride both pools were built for                *)
  live,        (* per pool and slot, the resident unit and its progress     *)
  cmd,         (* per pool, the state of its command buffer                 *)
  steps,       (* per pool, the slots its last command advances             *)
  marks,       (* checkpoint reached by each slot of the pool in hand       *)
  done,        (* slots whose reads the runner will send, in order          *)
  cursor,      (* next slot of the runner's loop over a pool                *)
  pc,          (* where the runner is                                       *)
  turn,        (* the pool in hand                                          *)
  eof,         (* the runner saw the end of the job channel                 *)
  preferSalt,  (* which channel the next fill tries first                   *)
  config,      (* the runner's copy of the settings                         *)
  fault,       (* a device fault ended the run                              *)
  answers,     (* history: every answer sent for each unit                  *)
  outLen,      (* results in the result channel, and one waiting to enter it *)
  outClosed,   (* the session dropped the result receiver                   *)
  cancelled,   (* jobs at or below a cancelled watermark                    *)
  stopped      (* leases that ended                                         *)

inVars   == <<jobs, permits, inputOpen, jobsClosed, salts, sent>>
prepVars == <<work, nextWorker, ready, reply>>
poolVars == <<shape, live, cmd, steps>>
scanVars == <<marks, done, cursor>>
ctlVars  == <<turn, eof, preferSalt, config, fault>>
outVars  == <<answers, outLen>>
envVars  == <<outClosed, cancelled, stopped>>
vars == <<inVars, prepVars, pending, poolVars, scanVars, pc, ctlVars, outVars,
          envVars>>

-----------------------------------------------------------------------------
(* Types *)

Outcomes == {"reads", "screened", "cancelled", "failed"}
Marks == {"none", "observe", "gate", "last"}
Tasks == [unit : Units, config : Configs]
Prepared == [unit : Units, result : Results, config : Configs]
ResidentJob == [unit : Units, pos : Nat, len : Nat]
PoolShape == [of : {ShapeOf[u] : u \in Units}, stride : Nat]
ASSUME NoneAssumption ==
  None \notin Units \union Prepared \union ResidentJob \union PoolShape

Labels == {"start", "top", "fill", "harvest", "sweep", "judge", "read", "reply",
           "admit", "refill", "next", "place", "slot", "fallback", "exit",
           "throttle", "yield", "step", "flush", "drainReady", "drainPending",
           "drainJobs", "drainSalts", "done"}

InTypes ==
  /\ jobs \in Seq(Jobs) /\ salts \in Seq(Salts)
  /\ permits \subseteq Jobs /\ sent \subseteq Units
  /\ inputOpen \in BOOLEAN /\ jobsClosed \in BOOLEAN

PrepTypes ==
  /\ work \in [WorkerIds -> Seq(Tasks)]
  /\ nextWorker \in WorkerIds
  /\ ready \in Seq(Units)
  /\ reply \in [Units -> Prepared \union {None}]

PoolTypes ==
  /\ shape \in PoolShape \union {None}
  /\ live \in [Pools -> [SlotIds -> ResidentJob \union {None}]]
  /\ cmd \in [Pools -> {"idle", "running", "completed", "error"}]
  /\ steps \in [Pools -> SUBSET SlotIds]

ScanTypes ==
  /\ marks \in [SlotIds -> Marks]
  /\ done \in Seq(SlotIds) /\ cursor \in SlotIds

CtlTypes ==
  /\ pc \in Labels /\ turn \in Pools
  /\ eof \in BOOLEAN /\ preferSalt \in BOOLEAN
  /\ config \in Configs /\ fault \in BOOLEAN

OutTypes ==
  /\ answers \in [Units -> Seq(Outcomes)]
  /\ outLen \in 0..(OutCap + 1)

EnvTypes == outClosed \in BOOLEAN /\ cancelled \subseteq Jobs /\ stopped \subseteq Leases

(* The state keeps its types; queues, cursor and result channel stay in   *)
(* the bounds of the code that sizes them (run, Preparation::new).         *)
TypeOK ==
  /\ InTypes /\ PrepTypes /\ pending \in Prepared \union {None}
  /\ PoolTypes /\ ScanTypes /\ CtlTypes /\ OutTypes /\ EnvTypes

-----------------------------------------------------------------------------
(* Answers *)

(* Nobody wants the unit's answer.                                         *)
Abandoned(u) ==
  \/ u \in cancelled
  \/ u \in Salts /\ LeaseOf[u] \in stopped

(* A job is answered on the session's bounded channel, a salt on its       *)
(* lease's own unbounded one.  The outcome is fixed before the send, which *)
(* blocks the runner while the channel is full and open (Unblocked): the   *)
(* result beyond OutCap is the one in its hand.  A send to a closed        *)
(* channel is still this unit's one attempt.                               *)
Answer(u, outcome) ==
  /\ answers' = [answers EXCEPT ![u] = Append(@, outcome)]
  /\ outLen' = IF u \in Jobs /\ ~outClosed THEN outLen + 1 ELSE outLen

Unblocked == outLen <= OutCap

RejectOrCancel(u) ==
  Answer(u, IF Abandoned(u) THEN "cancelled" ELSE "failed")

Goto(label) == pc' = label
At(label) == pc = label

-----------------------------------------------------------------------------
(* The callers: session, leases, configuration of the channels *)

Reserve(u) ==
  /\ inputOpen /\ ~jobsClosed
  /\ u \in Jobs \ (sent \union permits)
  /\ Len(jobs) + Cardinality(permits) < JobCap
  /\ permits' = permits \union {u}
  /\ UNCHANGED <<jobs, inputOpen, jobsClosed, salts, sent, prepVars, pending,
                 poolVars, scanVars, pc, ctlVars, outVars, envVars>>

(* A permit still sends after the runner has closed the channel.           *)
SendJob(u) ==
  /\ u \in permits
  /\ permits' = permits \ {u}
  /\ jobs' = Append(jobs, u)
  /\ sent' = sent \union {u}
  /\ UNCHANGED <<inputOpen, jobsClosed, salts, prepVars, pending, poolVars,
                 scanVars, pc, ctlVars, outVars, envVars>>

(* The feeder of the salt's lease; it is not told when the runner exits.   *)
SendSalt(u) ==
  /\ u \in Salts \ sent
  /\ Len(salts) < SaltCap
  /\ salts' = Append(salts, u)
  /\ sent' = sent \union {u}
  /\ UNCHANGED <<jobs, permits, inputOpen, jobsClosed, prepVars, pending,
                 poolVars, scanVars, pc, ctlVars, outVars, envVars>>

CloseInput ==
  /\ inputOpen /\ permits = {}
  /\ inputOpen' = FALSE
  /\ UNCHANGED <<jobs, permits, jobsClosed, salts, sent, prepVars, pending,
                 poolVars, scanVars, pc, ctlVars, outVars, envVars>>

Cancel(u) ==
  /\ u \in Jobs \ cancelled
  /\ cancelled' = cancelled \union {u}
  /\ UNCHANGED <<inVars, prepVars, pending, poolVars, scanVars, pc, ctlVars,
                 outVars, outClosed, stopped>>

StopLease(l) ==
  /\ l \in Leases \ stopped
  /\ stopped' = stopped \union {l}
  /\ UNCHANGED <<inVars, prepVars, pending, poolVars, scanVars, pc, ctlVars,
                 outVars, outClosed, cancelled>>

ReadResult ==
  /\ outLen > 0
  /\ outLen' = outLen - 1
  /\ UNCHANGED <<inVars, prepVars, pending, poolVars, scanVars, pc, ctlVars,
                 answers, envVars>>

CloseOut ==
  /\ ~outClosed
  /\ outClosed' = TRUE /\ outLen' = 0
  /\ UNCHANGED <<inVars, prepVars, pending, poolVars, scanVars, pc, ctlVars,
                 answers, cancelled, stopped>>

-----------------------------------------------------------------------------
(* Preparation workers and the GPU *)

Prepare(w) ==
  /\ work[w] # <<>>
  /\ LET item == Head(work[w]) IN
     \E result \in PrepResults[item.unit] :
        reply' = [reply EXCEPT ![item.unit] =
                    [unit |-> item.unit, result |-> result, config |-> item.config]]
  /\ work' = [work EXCEPT ![w] = Tail(@)]
  /\ UNCHANGED <<inVars, nextWorker, ready, pending, poolVars, scanVars, pc,
                 ctlVars, outVars, envVars>>

CompleteCommand(p) ==
  /\ cmd[p] = "running"
  /\ \E status \in {"completed", "error"} : cmd' = [cmd EXCEPT ![p] = status]
  /\ UNCHANGED <<inVars, prepVars, pending, shape, live, steps, scanVars, pc,
                 ctlVars, outVars, envVars>>

-----------------------------------------------------------------------------
(* Runner: intake *)

Start ==
  /\ At("start")
  /\ Goto("top")
  /\ UNCHANGED <<inVars, prepVars, pending, poolVars, scanVars, ctlVars, outVars,
                 envVars>>

(* No preparation worker thread could be started.                          *)
StartFails ==
  /\ At("start")
  /\ Goto("drainJobs")
  /\ jobsClosed' = TRUE
  /\ UNCHANGED <<jobs, permits, inputOpen, salts, sent, prepVars, pending,
                 poolVars, scanVars, ctlVars, outVars, envVars>>

RunnerTop ==
  /\ At("top")
  /\ Goto(IF outClosed THEN "flush" ELSE "fill")
  /\ jobsClosed' = (jobsClosed \/ outClosed)
  /\ UNCHANGED <<jobs, permits, inputOpen, salts, sent, prepVars, pending,
                 poolVars, scanVars, ctlVars, outVars, envVars>>

Filling == pc \in {"fill", "refill"}

(* The end of the channel: every sender is gone and the buffer is empty.   *)
Disconnected == ~inputOpen /\ jobs = <<>>

(* Mutant: the unit's reply is not put in the order of collection.         *)
SubmitUnawaited(u) ==
  /\ work' = [work EXCEPT ![nextWorker] =
                Append(@, [unit |-> u, config |-> config])]
  /\ nextWorker' = IF nextWorker = Workers THEN 1 ELSE nextWorker + 1
  /\ UNCHANGED <<ready, reply>>

Submit(u) ==
  /\ work' = [work EXCEPT ![nextWorker] =
                Append(@, [unit |-> u, config |-> config])]
  /\ nextWorker' = IF nextWorker = Workers THEN 1 ELSE nextWorker + 1
  /\ ready' = Append(ready, u)
  /\ UNCHANGED reply

(* A job goes first unless the last unit taken was a job and a salt waits. *)
FillJob ==
  /\ Filling /\ Len(ready) < PrepBound
  /\ jobs # <<>> /\ ~eof
  /\ preferSalt => salts = <<>>
  /\ Submit(Head(jobs))
  /\ jobs' = Tail(jobs)
  /\ preferSalt' = TRUE
  /\ UNCHANGED <<permits, inputOpen, jobsClosed, salts, sent, pending, poolVars,
                 scanVars, pc, turn, eof, config, fault, outVars, envVars>>

FillSalt ==
  /\ Filling /\ Len(ready) < PrepBound
  /\ salts # <<>>
  /\ preferSalt \/ eof \/ jobs = <<>>
  /\ Submit(Head(salts))
  /\ salts' = Tail(salts)
  /\ preferSalt' = FALSE
  /\ eof' = (eof \/ (~preferSalt /\ Disconnected))
  /\ UNCHANGED <<jobs, permits, inputOpen, jobsClosed, sent, pending, poolVars,
                 scanVars, pc, turn, config, fault, outVars, envVars>>

(* Mutant: the closed job channel is taken for an empty one.               *)
FillDoneMissesEof ==
  /\ Filling
  /\ Len(ready) = PrepBound \/ (salts = <<>> /\ (eof \/ jobs = <<>>))
  /\ Goto(IF At("refill") THEN "next" ELSE IF shape = None THEN "admit" ELSE "harvest")
  /\ UNCHANGED <<inVars, prepVars, pending, poolVars, scanVars, turn, eof, preferSalt,
                 config, fault, outVars, envVars>>

FillDone ==
  /\ Filling
  /\ \/ Len(ready) = PrepBound /\ UNCHANGED eof
     \/ /\ Len(ready) < PrepBound
        /\ salts = <<>> /\ (eof \/ jobs = <<>>)
        /\ eof' = (eof \/ Disconnected)
  /\ Goto(IF At("refill") THEN "next" ELSE IF shape = None THEN "admit" ELSE "harvest")
  /\ UNCHANGED <<inVars, prepVars, pending, poolVars, scanVars, turn, preferSalt,
                 config, fault, outVars, envVars>>

-----------------------------------------------------------------------------
(* Runner: harvest of the pool in hand *)

LiveIn(p) == {s \in SlotIds : live[p][s] # None}
(* Mutant: looks at the pool in hand only.                                 *)
EmptyInHand == LiveIn(turn) = {}

Empty == \A p \in Pools : LiveIn(p) = {}
Unit(s) == live[turn][s].unit
(* Mutant: the slot keeps its unit.                                        *)
FreeForgets(p, s) == UNCHANGED live

Free(p, s) == live' = [live EXCEPT ![p][s] = None]

(* What the host sees of a slot that has advanced to pos.                  *)
MarkAt(u, pos, len) ==
  IF pos = len THEN "last"
  ELSE IF u \in Salts /\ pos \in Gates THEN "gate"
  ELSE IF u \in Salts /\ pos \in Observes THEN "observe"
  ELSE "none"

Stepped(s) == [live[turn][s] EXCEPT !.pos = @ + 1]

(* wait and take_checkpoints.                                              *)
TakeCheckpoints ==
  /\ At("harvest") /\ cmd[turn] # "running"
  /\ cmd[turn] # "error"
  /\ cmd' = [cmd EXCEPT ![turn] = "idle"]
  /\ IF cmd[turn] = "idle" THEN UNCHANGED <<live, marks>>
     ELSE LET moved == steps[turn] \intersect LiveIn(turn) IN
          /\ live' = [live EXCEPT ![turn] =
               [s \in SlotIds |-> IF s \in moved THEN Stepped(s) ELSE @[s]]]
          /\ marks' = [s \in SlotIds |->
               IF s \in moved THEN MarkAt(Unit(s), Stepped(s).pos, Stepped(s).len)
               ELSE "none"]
  /\ cursor' = 1
  /\ Goto("sweep")
  /\ UNCHANGED <<inVars, prepVars, pending, shape, steps, done, ctlVars, outVars,
                 envVars>>

CommandFailed ==
  /\ At("harvest") /\ cmd[turn] = "error"
  /\ cmd' = [cmd EXCEPT ![turn] = "idle"]
  /\ fault' = TRUE
  /\ Goto("flush")
  /\ jobsClosed' = TRUE
  /\ UNCHANGED <<jobs, permits, inputOpen, salts, sent, prepVars, pending, shape,
                 live, steps, scanVars, turn, eof, preferSalt, config, outVars,
                 envVars>>

(* Mutant: the next loop over the slots starts where the last one ended.   *)
NextSlotUnreset(label) ==
  /\ cursor' = cursor + 1
  /\ Goto(IF cursor = Slots THEN label ELSE pc)

(* Moves the loop over the slots on, to the next loop after the last slot. *)
NextSlot(label) ==
  /\ cursor' = IF cursor = Slots THEN 1 ELSE cursor + 1
  /\ Goto(IF cursor = Slots THEN label ELSE pc)

(* Frees the slot of a unit nobody wants before looking at its checkpoint. *)
Sweep ==
  /\ At("sweep")
  /\ NextSlot("judge")
  /\ IF cursor \in LiveIn(turn) /\ Abandoned(Unit(cursor))
     THEN /\ Free(turn, cursor)
          /\ Answer(Unit(cursor), "cancelled")
     ELSE UNCHANGED <<live, outVars>>
  /\ UNCHANGED <<inVars, prepVars, pending, shape, cmd, steps, marks, done,
                 ctlVars, envVars>>

(* Mutant: a slot at its final checkpoint is stepped once more.            *)
JudgeMissesLast ==
  /\ At("judge")
  /\ NextSlot("read")
  /\ UNCHANGED <<inVars, prepVars, pending, poolVars, marks, done, ctlVars,
                 outVars, envVars>>

(* Whether a unit goes on, is read back, or is screened out.  A target hit *)
(* or a place in the lease's best ten turns a gate into a read-back.       *)
JudgeGoesOn ==
  /\ At("judge")
  /\ \/ cursor \notin LiveIn(turn)
     \/ marks[cursor] \in {"none", "observe", "gate"}
  /\ NextSlot("read")
  /\ UNCHANGED <<inVars, prepVars, pending, poolVars, marks, done, ctlVars,
                 outVars, envVars>>

JudgeFinishes ==
  /\ At("judge")
  /\ cursor \in LiveIn(turn)
  /\ marks[cursor] \in {"observe", "gate", "last"}
  /\ done' = Append(done, cursor)
  /\ NextSlot("read")
  /\ UNCHANGED <<inVars, prepVars, pending, poolVars, marks, ctlVars, outVars,
                 envVars>>

JudgeScreensOut ==
  /\ At("judge")
  /\ cursor \in LiveIn(turn)
  /\ marks[cursor] = "gate"
  /\ Free(turn, cursor)
  /\ Answer(Unit(cursor), "screened")
  /\ NextSlot("read")
  /\ UNCHANGED <<inVars, prepVars, pending, shape, cmd, steps, marks, done,
                 ctlVars, envVars>>

ClearMarks == marks' = [s \in SlotIds |-> "none"]

ReadMany ==
  /\ At("read")
  /\ ClearMarks
  /\ Goto("reply")
  /\ UNCHANGED <<inVars, prepVars, pending, poolVars, done, cursor, ctlVars,
                 outVars, envVars>>

(* The read-back fails its energy audit.                                   *)
ReadManyFails ==
  /\ At("read") /\ done # <<>>
  /\ ClearMarks
  /\ done' = <<>>
  /\ fault' = TRUE
  /\ Goto("flush")
  /\ jobsClosed' = TRUE
  /\ UNCHANGED <<jobs, permits, inputOpen, salts, sent, prepVars, pending,
                 poolVars, cursor, turn, eof, preferSalt, config, outVars, envVars>>

(* Mutant: abandonment is not looked at again after the read-back.         *)
ReplyUnchecked ==
  /\ At("reply") /\ done # <<>>
  /\ Answer(Unit(Head(done)), "reads")
  /\ Free(turn, Head(done))
  /\ done' = Tail(done)
  /\ UNCHANGED <<inVars, prepVars, pending, shape, cmd, steps, marks, cursor, pc,
                 ctlVars, envVars>>

(* Reads are dropped when the unit was abandoned during the read-back.     *)
ReplyReads ==
  /\ At("reply") /\ done # <<>>
  /\ LET s == Head(done) IN
     /\ Answer(Unit(s), IF Abandoned(Unit(s)) THEN "cancelled" ELSE "reads")
     /\ Free(turn, s)
  /\ done' = Tail(done)
  /\ UNCHANGED <<inVars, prepVars, pending, shape, cmd, steps, marks, cursor, pc,
                 ctlVars, envVars>>

(* The end of the harvest; once a second the settings are read again.      *)
Reload ==
  /\ At("reply") /\ done = <<>>
  /\ \E c \in Configs : config' = c
  /\ Goto("admit")
  /\ UNCHANGED <<inVars, prepVars, pending, poolVars, scanVars, turn, eof,
                 preferSalt, fault, outVars, envVars>>

-----------------------------------------------------------------------------
(* Runner: admission *)

AdmitTop ==
  /\ At("admit")
  /\ Goto(IF outClosed THEN "flush" ELSE IF pending = None THEN "refill" ELSE "place")
  /\ jobsClosed' = (jobsClosed \/ outClosed)
  /\ UNCHANGED <<jobs, permits, inputOpen, salts, sent, prepVars, pending,
                 poolVars, scanVars, ctlVars, outVars, envVars>>

(* Mutant: a share of the slots rounded down to none.                      *)
BudgetsDownToZero == 0..Slots

(* The governor's share of a pool's slots: never none.                     *)
Budgets == 1..Slots

PoolFull ==
  /\ At("next")
  /\ shape # None
  /\ \E budget \in Budgets : Cardinality(LiveIn(turn)) >= budget
  /\ Goto("exit")
  /\ UNCHANGED <<inVars, prepVars, pending, poolVars, scanVars, ctlVars, outVars,
                 envVars>>

HasRoom == shape # None => \E budget \in Budgets : Cardinality(LiveIn(turn)) < budget

NothingReady ==
  /\ At("next") /\ HasRoom
  /\ ready = <<>>
  /\ Goto("exit")
  /\ UNCHANGED <<inVars, prepVars, pending, poolVars, scanVars, ctlVars, outVars,
                 envVars>>

(* Preparation::next: the oldest request's reply, waiting for its worker.  *)
Collect ==
  /\ ready # <<>> /\ reply[Head(ready)] # None
  /\ reply' = [reply EXCEPT ![Head(ready)] = None]
  /\ ready' = Tail(ready)

TakePrepared ==
  /\ At("next") /\ HasRoom
  /\ Collect
  /\ pending' = reply[Head(ready)]
  /\ Goto("place")
  /\ UNCHANGED <<inVars, work, nextWorker, poolVars, scanVars, ctlVars, outVars,
                 envVars>>

(* The pending unit gets its answer without a slot.                        *)
AnswerPending(outcome) ==
  /\ Answer(pending.unit, outcome)
  /\ pending' = None
  /\ Goto("admit")
  /\ UNCHANGED <<inVars, prepVars, scanVars, ctlVars, envVars>>

PlaceAbandoned ==
  /\ At("place") /\ Abandoned(pending.unit)
  /\ AnswerPending("cancelled")
  /\ UNCHANGED poolVars

Wanted == At("place") /\ ~Abandoned(pending.unit)

PlaceEmpty ==
  /\ Wanted /\ pending.result = "empty"
  /\ AnswerPending("reads")
  /\ UNCHANGED poolVars

PlaceError ==
  /\ Wanted /\ pending.result = "error"
  /\ AnswerPending("failed")
  /\ UNCHANGED poolVars

PreparedLen == LengthOf[pending.unit][pending.config]

Fits ==
  /\ shape # None
  /\ shape.of = ShapeOf[pending.unit]
  /\ PreparedLen <= shape.stride

NeedsEmptyPools ==
  \/ pending.result = "full"
  \/ pending.result = "slots" /\ ~Fits

(* Mutant: the waiting unit is not kept in hand.                           *)
PlaceForgets ==
  /\ Wanted /\ NeedsEmptyPools /\ ~Empty
  /\ pending' = None
  /\ Goto("exit")
  /\ UNCHANGED <<inVars, prepVars, poolVars, scanVars, ctlVars, outVars, envVars>>

(* A unit that cannot share the pools waits until both have drained.       *)
PlaceWaits ==
  /\ Wanted /\ NeedsEmptyPools /\ ~Empty
  /\ Goto("exit")
  /\ UNCHANGED <<inVars, prepVars, pending, poolVars, scanVars, ctlVars, outVars,
                 envVars>>

(* Mutant: the full-budget run does not wait for the pools to drain.       *)
PlaceFallbackAtOnce ==
  /\ Wanted /\ pending.result = "full"
  /\ Goto("fallback")
  /\ UNCHANGED <<inVars, prepVars, pending, poolVars, scanVars, ctlVars, outVars,
                 envVars>>

PlaceFallback ==
  /\ Wanted /\ pending.result = "full" /\ Empty
  /\ Goto("fallback")
  /\ UNCHANGED <<inVars, prepVars, pending, poolVars, scanVars, ctlVars, outVars,
                 envVars>>

PlaceFits ==
  /\ Wanted /\ pending.result = "slots" /\ Fits
  /\ Goto("slot")
  /\ UNCHANGED <<inVars, prepVars, pending, poolVars, scanVars, ctlVars, outVars,
                 envVars>>

Rebuild ==
  /\ Wanted /\ pending.result = "slots" /\ ~Fits /\ Empty
  /\ shape' = [of |-> ShapeOf[pending.unit], stride |-> PreparedLen]
  /\ live' = [p \in Pools |-> [s \in SlotIds |-> None]]
  /\ cmd' = [p \in Pools |-> "idle"]
  /\ steps' = [p \in Pools |-> {}]
  /\ Goto("slot")
  /\ UNCHANGED <<inVars, prepVars, pending, scanVars, ctlVars, outVars, envVars>>

RebuildFails ==
  /\ Wanted /\ pending.result = "slots" /\ ~Fits /\ Empty
  /\ AnswerPending("failed")
  /\ UNCHANGED poolVars

(* A full-budget run outside the slots; its faults end the stream.         *)
FallbackAnswer(outcome) ==
  IF outClosed \/ Abandoned(pending.unit) THEN "cancelled" ELSE outcome

RunFallback ==
  /\ At("fallback")
  /\ \E outcome \in {"reads", "failed"} : AnswerPending(FallbackAnswer(outcome))
  /\ UNCHANGED poolVars

FallbackFaults ==
  /\ At("fallback")
  /\ Answer(pending.unit, FallbackAnswer("failed"))
  /\ pending' = None
  /\ fault' = TRUE
  /\ Goto("flush")
  /\ jobsClosed' = TRUE
  /\ UNCHANGED <<jobs, permits, inputOpen, salts, sent, prepVars, poolVars,
                 scanVars, turn, eof, preferSalt, config, envVars>>

(* The schedule is cut again when the stages changed after preparation.    *)
AdmittedLen == LengthOf[pending.unit][config]
FirstFree(s) ==
  /\ s \in SlotIds \ LiveIn(turn)
  /\ \A t \in SlotIds : t < s => t \in LiveIn(turn)

(* Mutant: trusts the length the unit was prepared with.                   *)
CanHoldAnyLength == cmd[turn] = "idle" /\ LiveIn(turn) # SlotIds

CanHold ==
  /\ cmd[turn] = "idle"
  /\ AdmittedLen <= shape.stride
  /\ LiveIn(turn) # SlotIds

Admit ==
  /\ At("slot") /\ CanHold
  /\ \E s \in SlotIds :
        /\ FirstFree(s)
        /\ live' = [live EXCEPT ![turn][s] =
                      [unit |-> pending.unit, pos |-> 0, len |-> AdmittedLen]]
  /\ pending' = None
  /\ Goto("admit")
  /\ UNCHANGED <<inVars, prepVars, shape, cmd, steps, scanVars, ctlVars, outVars,
                 envVars>>

(* The schedule that was cut again may be invalid.                         *)
MayBeInvalid == pending.config # config

(* An error: the controller finds the new schedule invalid, or the pool is *)
(* in flight, its stride is too short or no slot is free.                  *)
AdmitRefused ==
  /\ At("slot") /\ (~CanHold \/ MayBeInvalid)
  /\ AnswerPending(IF Abandoned(pending.unit) THEN "cancelled" ELSE "failed")
  /\ UNCHANGED poolVars

-----------------------------------------------------------------------------
(* Runner: step, exit and shutdown *)

Exit ==
  /\ At("exit")
  /\ Empty /\ eof /\ pending = None /\ ready = <<>>
  /\ Goto("flush")
  /\ jobsClosed' = TRUE
  /\ UNCHANGED <<jobs, permits, inputOpen, salts, sent, prepVars, pending,
                 poolVars, scanVars, ctlVars, outVars, envVars>>

Stay ==
  /\ At("exit")
  /\ ~(Empty /\ eof /\ pending = None /\ ready = <<>>)
  /\ IF shape = None THEN Goto("top") /\ turn' = 1 - turn
                     ELSE Goto("throttle") /\ UNCHANGED turn
  /\ UNCHANGED <<inVars, prepVars, pending, poolVars, scanVars, eof, preferSalt,
                 config, fault, outVars, envVars>>

Unthrottled ==
  /\ At("throttle")
  /\ Goto("step")
  /\ UNCHANGED <<inVars, prepVars, pending, poolVars, scanVars, ctlVars, outVars,
                 envVars>>

(* Submitted work drains before the pause.  The pause has a deadline.      *)
Throttled ==
  /\ At("throttle")
  /\ \A p \in Pools : cmd[p] # "running"
  /\ Goto("yield")
  /\ UNCHANGED <<inVars, prepVars, pending, poolVars, scanVars, ctlVars, outVars,
                 envVars>>

YieldEnds ==
  /\ At("yield")
  /\ Goto("step")
  /\ UNCHANGED <<inVars, prepVars, pending, poolVars, scanVars, ctlVars, outVars,
                 envVars>>

CommitStep ==
  /\ At("step") /\ ~outClosed
  /\ IF LiveIn(turn) = {} THEN UNCHANGED <<cmd, steps>>
     ELSE /\ cmd' = [cmd EXCEPT ![turn] = "running"]
          /\ steps' = [steps EXCEPT ![turn] = LiveIn(turn)]
  /\ turn' = 1 - turn
  /\ Goto("top")
  /\ UNCHANGED <<inVars, prepVars, pending, shape, live, scanVars, eof, preferSalt,
                 config, fault, outVars, envVars>>

StepClosed ==
  /\ At("step") /\ outClosed
  /\ Goto("flush")
  /\ jobsClosed' = TRUE
  /\ UNCHANGED <<jobs, permits, inputOpen, salts, sent, prepVars, pending,
                 poolVars, scanVars, ctlVars, outVars, envVars>>

(* Mutant: frees a slot its command may still advance.                     *)
FlushInFlight(p, s) ==
  /\ At("flush") /\ s \in LiveIn(p)
  /\ Answer(live[p][s].unit, IF fault /\ ~Abandoned(live[p][s].unit)
                             THEN "failed" ELSE "cancelled")
  /\ Free(p, s)
  /\ UNCHANGED <<inVars, prepVars, pending, shape, cmd, steps, scanVars, pc,
                 ctlVars, envVars>>

(* Every live unit is answered once its pool has come to rest, pool 0      *)
(* before pool 1 and each pool in slot order.                              *)
FlushSlot(p, s) ==
  /\ At("flush") /\ s \in LiveIn(p)
  /\ \A q \in 0..p : cmd[q] # "running"
  /\ p = 1 => LiveIn(0) = {}
  /\ \A t \in LiveIn(p) : s <= t
  /\ Answer(live[p][s].unit, IF fault /\ ~Abandoned(live[p][s].unit)
                             THEN "failed" ELSE "cancelled")
  /\ Free(p, s)
  /\ UNCHANGED <<inVars, prepVars, pending, shape, cmd, steps, scanVars, pc,
                 ctlVars, envVars>>

FlushDone ==
  /\ At("flush") /\ Empty
  /\ \A p \in Pools : cmd[p] # "running"
  /\ Goto("drainReady")
  /\ UNCHANGED <<inVars, prepVars, pending, poolVars, scanVars, ctlVars, outVars,
                 envVars>>

DrainReady ==
  /\ At("drainReady")
  /\ Collect
  /\ RejectOrCancel(Head(ready))
  /\ UNCHANGED <<inVars, work, nextWorker, pending, poolVars, scanVars, pc,
                 ctlVars, envVars>>

DrainReadyDone ==
  /\ At("drainReady") /\ ready = <<>>
  /\ Goto("drainPending")
  /\ UNCHANGED <<inVars, prepVars, pending, poolVars, scanVars, ctlVars, outVars,
                 envVars>>

DrainPending ==
  /\ At("drainPending")
  /\ IF pending = None THEN UNCHANGED outVars ELSE RejectOrCancel(pending.unit)
  /\ pending' = None
  /\ Goto("drainJobs")
  /\ UNCHANGED <<inVars, prepVars, poolVars, scanVars, ctlVars, envVars>>

DrainJob ==
  /\ At("drainJobs") /\ jobs # <<>>
  /\ RejectOrCancel(Head(jobs))
  /\ jobs' = Tail(jobs)
  /\ UNCHANGED <<permits, inputOpen, jobsClosed, salts, sent, prepVars, pending,
                 poolVars, scanVars, pc, ctlVars, envVars>>

(* Mutant: polls the closed channel instead of receiving to its end.       *)
DrainJobsPolled ==
  /\ At("drainJobs") /\ jobs = <<>>
  /\ Goto("drainSalts")
  /\ UNCHANGED <<inVars, prepVars, pending, poolVars, scanVars, ctlVars, outVars,
                 envVars>>

(* blocking_recv ends only when no sender holds a permit.                  *)
DrainJobsDone ==
  /\ At("drainJobs") /\ jobs = <<>> /\ permits = {}
  /\ Goto("drainSalts")
  /\ UNCHANGED <<inVars, prepVars, pending, poolVars, scanVars, ctlVars, outVars,
                 envVars>>

DrainSalt ==
  /\ At("drainSalts") /\ salts # <<>>
  /\ RejectOrCancel(Head(salts))
  /\ salts' = Tail(salts)
  /\ UNCHANGED <<jobs, permits, inputOpen, jobsClosed, sent, prepVars, pending,
                 poolVars, scanVars, pc, ctlVars, envVars>>

DrainSaltsDone ==
  /\ At("drainSalts") /\ salts = <<>>
  /\ Goto("done")
  /\ UNCHANGED <<inVars, prepVars, pending, poolVars, scanVars, ctlVars, outVars,
                 envVars>>

Finished == At("done") /\ UNCHANGED vars

-----------------------------------------------------------------------------
(* Specification *)

Init ==
  /\ jobs = <<>> /\ salts = <<>> /\ permits = {} /\ sent = {}
  /\ inputOpen = TRUE /\ jobsClosed = FALSE
  /\ work = [w \in WorkerIds |-> <<>>] /\ nextWorker = 1
  /\ ready = <<>> /\ reply = [u \in Units |-> None] /\ pending = None
  /\ shape = None
  /\ live = [p \in Pools |-> [s \in SlotIds |-> None]]
  /\ cmd = [p \in Pools |-> "idle"] /\ steps = [p \in Pools |-> {}]
  /\ marks = [s \in SlotIds |-> "none"] /\ done = <<>> /\ cursor = 1
  /\ pc = "start" /\ turn = 0
  /\ eof = FALSE /\ preferSalt = TRUE /\ config = FirstConfig /\ fault = FALSE
  /\ answers = [u \in Units |-> <<>>] /\ outLen = 0
  /\ outClosed = FALSE /\ cancelled = {} /\ stopped = {}

Intake == Start \/ StartFails \/ RunnerTop \/ FillJob \/ FillSalt \/ FillDone

Harvest ==
  \/ TakeCheckpoints \/ CommandFailed \/ Sweep
  \/ JudgeGoesOn \/ JudgeFinishes \/ JudgeScreensOut
  \/ ReadMany \/ ReadManyFails \/ ReplyReads \/ Reload

Admission ==
  \/ AdmitTop \/ PoolFull \/ NothingReady \/ TakePrepared
  \/ PlaceAbandoned \/ PlaceEmpty \/ PlaceError \/ PlaceWaits \/ PlaceFallback
  \/ PlaceFits \/ Rebuild \/ RebuildFails
  \/ RunFallback \/ FallbackFaults \/ Admit \/ AdmitRefused

Stepping ==
  \/ Exit \/ Stay \/ Unthrottled \/ Throttled \/ YieldEnds \/ CommitStep \/ StepClosed

Shutdown ==
  \/ \E p \in Pools, s \in SlotIds : FlushSlot(p, s)
  \/ FlushDone \/ DrainReady \/ DrainReadyDone \/ DrainPending
  \/ DrainJob \/ DrainJobsDone \/ DrainSalt \/ DrainSaltsDone

Runner == Unblocked /\ (Intake \/ Harvest \/ Admission \/ Stepping \/ Shutdown)

Callers ==
  \/ \E u \in Jobs : Reserve(u) \/ SendJob(u) \/ Cancel(u)
  \/ \E u \in Salts : SendSalt(u)
  \/ \E l \in Leases : StopLease(l)
  \/ CloseInput \/ ReadResult \/ CloseOut

Next ==
  \/ Runner
  \/ Callers
  \/ \E w \in WorkerIds : Prepare(w)
  \/ \E p \in Pools : CompleteCommand(p)
  \/ Finished

Spec == Init /\ [][Next]_vars

(* The runner, its workers and the GPU keep running; the session reads     *)
(* results until it closes the channel, and uses a place it has reserved.  *)
(* Nothing obliges a caller to send, cancel, stop or close.                *)
Fairness ==
  /\ WF_vars(Runner)
  /\ \A w \in WorkerIds : WF_vars(Prepare(w))
  /\ \A p \in Pools : WF_vars(CompleteCommand(p))
  /\ \A u \in Jobs : WF_vars(SendJob(u))
  /\ WF_vars(ReadResult)

FairSpec == Spec /\ Fairness

-----------------------------------------------------------------------------
(* Properties *)

Elems(seq) == {seq[i] : i \in DOMAIN seq}
UnitsOf(queue) == {queue[i].unit : i \in DOMAIN queue}
Queued(w) == UnitsOf(work[w])
LiveUnits(p) == {live[p][s].unit : s \in LiveIn(p)}

ShuttingDown ==
  pc \in {"flush", "drainReady", "drainPending", "drainJobs", "drainSalts", "done"}

Unique(seq) == \A i, j \in DOMAIN seq : seq[i] = seq[j] => i = j
UniqueUnits(queue) == \A i, j \in DOMAIN queue : queue[i].unit = queue[j].unit => i = j

(* Where a unit can be while somebody owes it an answer, and after that.   *)
PlaceNames == {"jobs", "salts", "work", "reply", "pending", "slots", "answers"}

Place ==
  [a \in PlaceNames |->
     CASE a = "jobs"    -> Elems(jobs)
       [] a = "salts"   -> Elems(salts)
       [] a = "work"    -> UNION {Queued(w) : w \in WorkerIds}
       [] a = "reply"   -> {u \in Units : reply[u] # None}
       [] a = "pending" -> {u \in Units : pending # None /\ pending.unit = u}
       [] a = "slots"   -> LiveUnits(0) \union LiveUnits(1)
       [] a = "answers" -> {u \in Units : answers[u] # <<>>}]

Divides(P, S) ==
  /\ S = UNION {P[a] : a \in PlaceNames}
  /\ \A a, b \in PlaceNames : a # b => P[a] \intersect P[b] = {}

(* No unit is queued twice with the workers, nor resident in two slots.    *)
WorkOnce ==
  /\ \A w \in WorkerIds : UniqueUnits(work[w])
  /\ \A v, w \in WorkerIds : v # w => Queued(v) \intersect Queued(w) = {}

SlotsOnce ==
  \A p, q \in Pools : \A s \in LiveIn(p), t \in LiveIn(q) :
     live[p][s].unit = live[q][t].unit => p = q /\ s = t

(* Every unit that entered a channel is in exactly one place, once: it is  *)
(* never lost between the channels, the workers, the runner's hand and the *)
(* slots, never owned twice, and never run again after its answer          *)
(* (every `let _ = answer(...)` of resident.rs consumes the unit).         *)
Custody ==
  /\ Divides(Place, sent)
  /\ Unique(jobs) /\ Unique(salts)
  /\ WorkOnce /\ SlotsOnce

(* No unit is answered twice, whatever is cancelled, faults or closes      *)
(* (answer, reject_or_cancel, refuse_salt).                                *)
AnsweredOnce == \A u \in Units : Len(answers[u]) <= 1

(* The runner waits for exactly the replies the workers owe it, so a unit  *)
(* sent to a worker comes back and `next` never waits for nothing          *)
(* (Preparation::submit and next).                                         *)
RepliesAwaited ==
  /\ Unique(ready)
  /\ Elems(ready) = Place["work"] \union Place["reply"]
  /\ Len(ready) <= PrepBound

(* The runner's hand is full where its code unwraps the pending unit, and  *)
(* empty where it collects the next one (run, the admission loop).         *)
HandInv ==
  /\ pc \in {"place", "slot", "fallback"} => pending # None
  /\ pc \in {"refill", "next"} => pending = None

(* The slots to be read back are live, distinct and behind the cursor      *)
(* (Pool::harvest).                                                        *)
DoneInv ==
  /\ Unique(done)
  /\ \A i \in DOMAIN done : done[i] \in LiveIn(turn)
  /\ done # <<>> => pc \in {"judge", "read", "reply"}
  /\ At("judge") => \A i \in DOMAIN done : done[i] < cursor

(* A reserved place is for a job that has not been sent, and a reply holds *)
(* the unit it was asked for (Preparation::submit).                        *)
PermitsUnsent == permits \intersect sent = {}
ReplyOwn == \A u \in Units : reply[u] # None => reply[u].unit = u

(* Types, and what the runner assumes where it stands.                     *)
ShapeInv == TypeOK /\ HandInv /\ DoneInv

(* The inductive invariant behind Custody, AnsweredOnce and RepliesAwaited *)
(* (run and all it calls).                                                 *)
OwnershipInv ==
  /\ ShapeInv
  /\ Custody /\ AnsweredOnce /\ RepliesAwaited
  /\ PermitsUnsent /\ ReplyOwn

(* While a command is in flight or not yet taken, the host neither frees   *)
(* nor fills a slot of its pool: the command advances exactly the live     *)
(* ones (SlotPool::idle, commit_step, take_checkpoints).                   *)
GpuOwnsSlots ==
  \A p \in Pools :
     \/ cmd[p] = "idle"
     \/ steps[p] = LiveIn(p)
     \/ cmd[p] # "running" /\ ShuttingDown

(* The host works on the pool in hand only while it is idle, and outside   *)
(* the slots only while both pools are empty and idle, so a full-budget    *)
(* run never stalls a resident unit (SlotPool::idle, run).                 *)
HostAtRest ==
  /\ pc \in {"sweep", "judge", "read", "reply", "slot", "step"} => cmd[turn] = "idle"
  /\ At("fallback") => Empty /\ \A p \in Pools : cmd[p] = "idle"

(* No step starts a slot past its final checkpoint (commit_step: "release  *)
(* final-checkpoint slots before stepping").                               *)
RoomToStep ==
  At("step") => \A s \in LiveIn(turn) : live[turn][s].pos < live[turn][s].len

(* Whatever is resident matches the shape the pools were built for and     *)
(* fits their schedule storage, also after the settings change             *)
(* (Pool::fits, run, SlotPool::admit_prepared).                            *)
SlotsFitPools ==
  \A p \in Pools : \A s \in LiveIn(p) :
     /\ shape # None
     /\ ShapeOf[live[p][s].unit] = shape.of
     /\ live[p][s].len <= shape.stride

(* What is resident can be stepped to its end: it fits the pools it is in, *)
(* and a slot at its final checkpoint is freed before the next command     *)
(* (Pool::fits, Pool::harvest, commit_step).                               *)
CanFinish == RoomToStep /\ SlotsFitPools

(* When the runner has returned nothing it took is unanswered; only salts  *)
(* fed too late are left, in the intake channel (reject_preparation,       *)
(* reject_tail).                                                           *)
Settled ==
  At("done") => /\ permits = {}
                /\ \A u \in sent : answers[u] # <<>> \/ u \in Elems(salts)

(* The stream keeps the promises of StreamContract.                        *)
Contract == INSTANCE StreamContract
  WITH Lossy <- FALSE, accepted <- sent, answers <- answers, closed <- outClosed,
       abandoned <- {u \in Units : Abandoned(u)}, ended <- (pc = "done")
ImplementsContract == Contract!Spec

(* Every job sent is answered, and every salt unless the runner returns    *)
(* first, while the session reads its results (run).                       *)
UnitsAnswered ==
  /\ \A u \in sent \intersect Jobs : answers[u] # <<>>
  /\ \A u \in sent \intersect Salts : answers[u] # <<>> \/ At("done")

(* The runner returns after the end of the input, after the session drops  *)
(* the result channel and after a device fault (run).                      *)
StreamEnded == (inputOpen /\ ~outClosed /\ ~fault) \/ At("done")

(* Both promises together: the input is served, and the runner ends.       *)
(* Nothing that is asked is withdrawn and no answer is taken back, so each *)
(* promise is kept some time after it is given.                            *)
Served == []<>(UnitsAnswered /\ StreamEnded)
=============================================================================
