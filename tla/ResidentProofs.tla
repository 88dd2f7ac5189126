--------------------------- MODULE ResidentProofs ---------------------------
(***************************************************************************)
(* Proofs about Resident, for every number of units, workers and slots:    *)
(* its types, the custody of units, the slot pools, and the contract.      *)
(***************************************************************************)
EXTENDS Resident, TLAPS

(* Removing the head of a queue without repetitions removes that element.  *)
LEMMA TailElems ==
  ASSUME NEW S, NEW q \in Seq(S), q # <<>>, Unique(q)
  PROVE  /\ Head(q) \in S /\ Head(q) \in Elems(q)
         /\ Tail(q) \in Seq(S) /\ Unique(Tail(q))
         /\ Elems(Tail(q)) = Elems(q) \ {Head(q)}
<1>1. /\ Head(q) = q[1] /\ Len(q) \in Nat \ {0} /\ DOMAIN q = 1..Len(q)
      /\ Head(q) \in S
  OBVIOUS
<1>2. /\ Tail(q) \in Seq(S) /\ DOMAIN Tail(q) = 1..(Len(q) - 1)
      /\ \A i \in 1..(Len(q) - 1) : Tail(q)[i] = q[i + 1]
  OBVIOUS
<1>3. Unique(Tail(q))
  BY <1>1, <1>2 DEF Unique
<1>4. Elems(Tail(q)) = Elems(q) \ {Head(q)}
  <2>1. ASSUME NEW x \in Elems(Tail(q)) PROVE x \in Elems(q) /\ x # Head(q)
    BY <1>1, <1>2, <2>1 DEF Unique, Elems
  <2>2. ASSUME NEW x \in Elems(q), x # Head(q) PROVE x \in Elems(Tail(q))
    <3>1. PICK i \in 1..Len(q) : x = q[i]
      BY <1>1 DEF Elems
    <3>2. i - 1 \in 1..(Len(q) - 1) /\ x = Tail(q)[i - 1]
      BY <1>1, <1>2, <2>2, <3>1
    <3> QED BY <1>2, <3>2 DEF Elems
  <2> QED BY <2>1, <2>2
<1>5. Head(q) \in Elems(q)
  BY <1>1 DEF Elems
<1> QED BY <1>1, <1>2, <1>3, <1>4, <1>5

(* Appending a new element adds it and repeats nothing.                    *)
LEMMA AppendElems ==
  ASSUME NEW S, NEW q \in Seq(S), NEW x \in S
  PROVE  /\ Append(q, x) \in Seq(S)
         /\ Elems(Append(q, x)) = Elems(q) \union {x}
         /\ Unique(q) /\ x \notin Elems(q) => Unique(Append(q, x))
<1>1. /\ Append(q, x) \in Seq(S) /\ DOMAIN q = 1..Len(q) /\ Len(q) \in Nat
      /\ DOMAIN Append(q, x) = 1..(Len(q) + 1)
      /\ Append(q, x)[Len(q) + 1] = x
      /\ \A i \in 1..Len(q) : Append(q, x)[i] = q[i]
  OBVIOUS
<1>2. Elems(Append(q, x)) = Elems(q) \union {x}
  <2>1. \A i \in 1..(Len(q) + 1) : i \in 1..Len(q) \/ i = Len(q) + 1
    BY <1>1
  <2>2. Elems(Append(q, x)) \subseteq Elems(q) \union {x}
    BY <1>1, <2>1 DEF Elems
  <2>3. Elems(q) \union {x} \subseteq Elems(Append(q, x))
    <3>1. 1..Len(q) \subseteq 1..(Len(q) + 1) /\ Len(q) + 1 \in 1..(Len(q) + 1)
      BY <1>1
    <3> QED BY <1>1, <3>1 DEF Elems
  <2> QED BY <2>2, <2>3
<1>3. ASSUME Unique(q), x \notin Elems(q) PROVE Unique(Append(q, x))
  BY <1>1, <1>3 DEF Unique, Elems
<1> QED BY <1>1, <1>2, <1>3

-----------------------------------------------------------------------------
(* Type correctness, with what the runner's hand and its list of slots to  *)
(* read back must satisfy for its steps to be well typed.                  *)

USE UnitsAssumption, BoundsAssumption, PlanAssumption

(* The shape of the state holds before the runner starts.                  *)
LEMMA InitShape == Init => ShapeInv
<1> SUFFICES ASSUME Init PROVE ShapeInv
  OBVIOUS
<1>1. InTypes /\ EnvTypes
  <2>1. jobs \in Seq(Jobs) /\ salts \in Seq(Salts)
    BY DEF Init
  <2>2. permits \subseteq Jobs /\ sent \subseteq Units
    BY DEF Init
  <2>3. inputOpen \in BOOLEAN /\ jobsClosed \in BOOLEAN /\ outClosed \in BOOLEAN
    BY DEF Init
  <2>4. cancelled \subseteq Jobs /\ stopped \subseteq Leases
    BY DEF Init
  <2> QED BY <2>1, <2>2, <2>3, <2>4 DEF InTypes, EnvTypes
<1>2. 1 \in WorkerIds /\ 1 \in SlotIds /\ 0 \in Pools /\ 0 \in 0..(OutCap + 1)
  BY DEF WorkerIds, SlotIds, Pools
<1>3. PrepTypes /\ pending \in Prepared \union {None}
  BY <1>2 DEF Init, PrepTypes
<1>4. PoolTypes
  BY DEF Init, PoolTypes
<1>5. ScanTypes
  BY <1>2 DEF Init, ScanTypes, Marks
<1>6. CtlTypes
  BY <1>2 DEF Init, CtlTypes, Labels
<1>7. OutTypes
  BY <1>2 DEF Init, OutTypes
<1>8. HandInv /\ DoneInv
  BY DEF Init, HandInv, DoneInv, At, Unique
<1> QED
  BY <1>1, <1>3, <1>4, <1>5, <1>6, <1>7, <1>8 DEF ShapeInv, TypeOK

(* Groups of variables that do not change keep their types.                *)
LEMMA Kept ==
  ASSUME ShapeInv
  PROVE  /\ inVars' = inVars => InTypes'
         /\ prepVars' = prepVars => PrepTypes'
         /\ pending' = pending => (pending \in Prepared \union {None})'
         /\ poolVars' = poolVars => PoolTypes'
         /\ scanVars' = scanVars => ScanTypes'
         /\ outVars' = outVars => OutTypes'
         /\ envVars' = envVars => EnvTypes'
         /\ pc' \in Labels /\ ctlVars' = ctlVars => CtlTypes'
  BY DEF ShapeInv, TypeOK, InTypes, PrepTypes, PoolTypes, ScanTypes, OutTypes,
         EnvTypes, CtlTypes, inVars, prepVars, poolVars, scanVars, outVars,
         envVars, ctlVars

(* The slots to read back stay well formed while they and the slots of the *)
(* pools are left alone.                                                   *)
LEMMA DoneKept ==
  ASSUME ShapeInv
  PROVE  /\ done' = <<>> => DoneInv'
         /\ done' = done /\ done = <<>> => DoneInv'
         /\ pc \notin {"judge", "read", "reply"} => done = <<>>
         /\ /\ done' = done /\ live' = live /\ turn' = turn /\ cursor' = cursor
            /\ pc' = pc
            => DoneInv'
  BY DEF ShapeInv, DoneInv, Unique, LiveIn, At

(* The channel of jobs is closed and the runner goes on to another step.   *)
LEMMA ClosedTypes ==
  ASSUME ShapeInv, jobsClosed' \in BOOLEAN,
         UNCHANGED <<jobs, permits, inputOpen, salts, sent>>
  PROVE  InTypes'
  BY DEF ShapeInv, TypeOK, InTypes

(* A group of moves of the runner that leave the data alone.               *)
LEMMA MoveShape ==
  ASSUME ShapeInv, InTypes', CtlTypes', HandInv', pc \notin {"judge", "read", "reply"},
         UNCHANGED <<prepVars, pending, poolVars, scanVars, outVars, envVars>>
  PROVE  ShapeInv'
<1>1. done = <<>> /\ done' = done
  BY DoneKept DEF scanVars
<1> QED
  BY <1>1, Kept, DoneKept DEF ShapeInv, TypeOK

(* Handing a unit to a preparation worker.                                 *)
LEMMA SubmitTypes ==
  ASSUME ShapeInv, NEW u \in Units, Submit(u)
  PROVE  PrepTypes'
<1> USE DEF ShapeInv, TypeOK, CtlTypes, PrepTypes, Submit
<1>1. nextWorker' \in WorkerIds
  BY DEF WorkerIds
<1>2. [unit |-> u, config |-> config] \in Tasks
  BY DEF Tasks
<1>3. work' \in [WorkerIds -> Seq(Tasks)]
  BY <1>2, AppendElems
<1>4. ready' \in Seq(Units)
  OBVIOUS
<1> QED BY <1>1, <1>3, <1>4

(* Starting, the loop top and Preparation::fill keep it.                   *)
LEMMA IntakeShape ==
  ASSUME ShapeInv, Intake
  PROVE  ShapeInv'
<1> USE DEF At, Goto, Labels
<1>1. CASE Start
  BY <1>1, Kept, MoveShape DEF Start, HandInv
<1>2. CASE StartFails
  BY <1>2, Kept, ClosedTypes, MoveShape DEF StartFails, HandInv
<1>3. CASE RunnerTop
  <2>1. jobsClosed' \in BOOLEAN
    BY <1>3 DEF RunnerTop, ShapeInv, TypeOK, InTypes
  <2> QED
    BY <1>3, <2>1, Kept, ClosedTypes, MoveShape DEF RunnerTop, HandInv
<1>4. CASE FillJob
  <2>1. Head(jobs) \in Units /\ Tail(jobs) \in Seq(Jobs)
    BY <1>4 DEF FillJob, ShapeInv, TypeOK, InTypes, Units
  <2>2. PrepTypes'
    BY <1>4, <2>1, SubmitTypes DEF FillJob
  <2>3. InTypes'
    BY <1>4, <2>1 DEF FillJob, ShapeInv, TypeOK, InTypes
  <2>4. CtlTypes'
    BY <1>4 DEF FillJob, ShapeInv, TypeOK, CtlTypes
  <2>5. HandInv' /\ DoneInv'
    BY <1>4, DoneKept DEF FillJob, Filling, ShapeInv, HandInv, scanVars
  <2> QED
    BY <1>4, <2>2, <2>3, <2>4, <2>5, Kept DEF FillJob, ShapeInv, TypeOK
<1>5. CASE FillSalt
  <2>1. Head(salts) \in Units /\ Tail(salts) \in Seq(Salts)
    BY <1>5 DEF FillSalt, ShapeInv, TypeOK, InTypes, Units
  <2>2. PrepTypes'
    BY <1>5, <2>1, SubmitTypes DEF FillSalt
  <2>3. InTypes'
    BY <1>5, <2>1 DEF FillSalt, ShapeInv, TypeOK, InTypes
  <2>4. CtlTypes'
    <3>1. eof' \in BOOLEAN
      BY <1>5 DEF FillSalt
    <3> QED
      BY <1>5, <3>1 DEF FillSalt, ShapeInv, TypeOK, CtlTypes
  <2>5. HandInv' /\ DoneInv'
    BY <1>5, DoneKept DEF FillSalt, Filling, ShapeInv, HandInv, scanVars
  <2> QED
    BY <1>5, <2>2, <2>3, <2>4, <2>5, Kept DEF FillSalt, ShapeInv, TypeOK
<1>6. CASE FillDone
  <2>1. eof' \in BOOLEAN
    BY <1>6 DEF FillDone, ShapeInv, TypeOK, CtlTypes
  <2>2. CtlTypes'
    BY <1>6, <2>1 DEF FillDone, ShapeInv, TypeOK, CtlTypes
  <2>3. HandInv' /\ pc \notin {"judge", "read", "reply"}
    BY <1>6 DEF FillDone, Filling, ShapeInv, HandInv
  <2> QED
    BY <1>6, <2>2, <2>3, Kept, MoveShape DEF FillDone
<1> QED
  BY <1>1, <1>2, <1>3, <1>4, <1>5, <1>6 DEF Intake
(* An answer is recorded once and leaves the result channel within bounds. *)
LEMMA AnswerTypes ==
  ASSUME ShapeInv, Unblocked, NEW u \in Units, NEW outcome \in Outcomes,
         Answer(u, outcome)
  PROVE  OutTypes'
<1> USE DEF ShapeInv, TypeOK, OutTypes, Answer
<1>1. answers' \in [Units -> Seq(Outcomes)]
  BY AppendElems
<1>2. outLen' \in 0..(OutCap + 1)
  BY DEF Unblocked
<1> QED BY <1>1, <1>2

(* Freeing a slot empties that slot and no other.                          *)
LEMMA FreeTypes ==
  ASSUME ShapeInv, NEW p \in Pools, NEW s \in SlotIds, Free(p, s),
         UNCHANGED <<shape, cmd, steps>>
  PROVE  /\ PoolTypes'
         /\ {t \in SlotIds : live'[p][t] # None} = LiveIn(p) \ {s}
         /\ \A q \in Pools : \A t \in SlotIds : p # q \/ s # t => live'[q][t] = live[q][t]
<1> USE DEF ShapeInv, TypeOK, PoolTypes, Free
<1>1. live' \in [Pools -> [SlotIds -> ResidentJob \union {None}]]
  OBVIOUS
<1>2. /\ live'[p][s] = None
      /\ \A q \in Pools : \A t \in SlotIds : p # q \/ s # t => live'[q][t] = live[q][t]
  OBVIOUS
<1> QED BY <1>1, <1>2 DEF LiveIn

(* A live slot holds a unit.                                               *)
LEMMA LiveUnit ==
  ASSUME ShapeInv, NEW p \in Pools, NEW s \in LiveIn(p)
  PROVE  s \in SlotIds /\ live[p][s] \in ResidentJob /\ live[p][s].unit \in Units
BY DEF ShapeInv, TypeOK, PoolTypes, LiveIn, ResidentJob

(* The loop over the slots stays inside the pool.                          *)
LEMMA NextSlotTypes ==
  ASSUME ShapeInv, NEW label \in Labels, NextSlot(label)
  PROVE  cursor' \in SlotIds /\ pc' \in Labels
BY DEF ShapeInv, TypeOK, ScanTypes, CtlTypes, NextSlot, SlotIds, Goto

(* Every step of Pool::harvest keeps it.                                   *)
LEMMA HarvestShape ==
  ASSUME ShapeInv, Unblocked, Harvest
  PROVE  ShapeInv'
<1> USE DEF At, Goto
<1>0. turn \in Pools
  BY DEF ShapeInv, TypeOK, CtlTypes
<1>1. CASE TakeCheckpoints
  <2> USE DEF TakeCheckpoints
  <2>1. cmd' \in [Pools -> {"idle", "running", "completed", "error"}]
    BY <1>0, <1>1 DEF ShapeInv, TypeOK, PoolTypes
  <2>2. \A s \in LiveIn(turn) : Stepped(s) \in ResidentJob
    BY <1>0, LiveUnit DEF Stepped, ResidentJob
  <2>3. live' \in [Pools -> [SlotIds -> ResidentJob \union {None}]]
    <3>1. CASE cmd[turn] = "idle"
      BY <1>1, <3>1 DEF ShapeInv, TypeOK, PoolTypes
    <3>2. CASE cmd[turn] # "idle"
      <4> DEFINE moved == steps[turn] \intersect LiveIn(turn)
                 next == [s \in SlotIds |-> IF s \in moved THEN Stepped(s)
                                                          ELSE live[turn][s]]
      <4>1. live' = [live EXCEPT ![turn] = next]
        BY <1>0, <1>1, <3>2 DEF ShapeInv, TypeOK, PoolTypes
      <4>2. next \in [SlotIds -> ResidentJob \union {None}]
        BY <1>0, <2>2 DEF ShapeInv, TypeOK, PoolTypes
      <4> HIDE DEF next
      <4> QED BY <1>0, <4>1, <4>2 DEF ShapeInv, TypeOK, PoolTypes
    <3> QED BY <3>1, <3>2
  <2>4. marks' \in [SlotIds -> Marks]
    BY <1>1 DEF ShapeInv, TypeOK, ScanTypes, MarkAt, Marks
  <2>5. PoolTypes' /\ ScanTypes'
    BY <1>1, <2>1, <2>3, <2>4 DEF ShapeInv, TypeOK, PoolTypes, ScanTypes, SlotIds
  <2>6. CtlTypes' /\ HandInv' /\ DoneInv'
    BY <1>1, Kept, DoneKept DEF ShapeInv, HandInv, Labels
  <2> QED BY <1>1, <2>5, <2>6, Kept DEF ShapeInv, TypeOK
<1>2. CASE CommandFailed
  <2> USE DEF CommandFailed
  <2>1. PoolTypes'
    BY <1>0, <1>2 DEF ShapeInv, TypeOK, PoolTypes
  <2>2. CtlTypes' /\ HandInv'
    BY <1>2 DEF ShapeInv, TypeOK, CtlTypes, HandInv, Labels
  <2>3. InTypes' /\ DoneInv'
    BY <1>2, ClosedTypes, DoneKept DEF scanVars
  <2> QED BY <1>2, <2>1, <2>2, <2>3, Kept DEF ShapeInv, TypeOK
<1>3. CASE Sweep
  <2> USE DEF Sweep
  <2>1. cursor' \in SlotIds /\ pc' \in Labels
    BY <1>3, NextSlotTypes DEF Labels
  <2>2. PoolTypes' /\ OutTypes'
    <3>1. CASE cursor \in LiveIn(turn) /\ Abandoned(Unit(cursor))
      <4>1. Free(turn, cursor) /\ Answer(Unit(cursor), "cancelled")
        BY <1>3, <3>1
      <4>2. cursor \in SlotIds /\ Unit(cursor) \in Units
        BY <1>0, <3>1, LiveUnit DEF Unit
      <4> QED
        BY <1>0, <1>3, <4>1, <4>2, AnswerTypes, FreeTypes DEF Outcomes
    <3>2. CASE ~(cursor \in LiveIn(turn) /\ Abandoned(Unit(cursor)))
      BY <1>3, <3>2, Kept DEF poolVars
    <3> QED BY <3>1, <3>2
  <2>3. ScanTypes' /\ CtlTypes' /\ HandInv' /\ DoneInv'
    <3>1. ScanTypes'
      BY <1>3, <2>1 DEF ShapeInv, TypeOK, ScanTypes
    <3>2. CtlTypes' /\ DoneInv'
      BY <1>3, <2>1, Kept, DoneKept
    <3>3. HandInv'
      BY <1>3 DEF ShapeInv, HandInv, NextSlot
    <3> QED BY <3>1, <3>2, <3>3
  <2> QED BY <1>3, <2>2, <2>3, Kept DEF ShapeInv, TypeOK
<1>4. CASE JudgeGoesOn
  <2> USE DEF JudgeGoesOn
  <2>1. cursor' \in SlotIds /\ pc' \in Labels
    BY <1>4, NextSlotTypes DEF Labels
  <2>2. ScanTypes' /\ CtlTypes' /\ HandInv'
    BY <1>4, <2>1, Kept DEF ShapeInv, TypeOK, ScanTypes, HandInv, NextSlot
  <2>3. DoneInv'
    <3>1. live' = live /\ turn' = turn /\ done' = done
      BY <1>4 DEF poolVars, ctlVars
    <3> QED
      BY <1>4, <3>1 DEF ShapeInv, TypeOK, ScanTypes, DoneInv, NextSlot, LiveIn, SlotIds
  <2> QED BY <1>4, <2>2, <2>3, Kept DEF ShapeInv, TypeOK
<1>5. CASE JudgeFinishes
  <2> USE DEF JudgeFinishes
  <2>1. cursor' \in SlotIds /\ pc' \in Labels /\ cursor \in SlotIds
    BY <1>5, NextSlotTypes DEF Labels, LiveIn
  <2>2. ScanTypes' /\ CtlTypes' /\ HandInv'
    BY <1>5, <2>1, Kept, AppendElems DEF ShapeInv, TypeOK, ScanTypes, HandInv, NextSlot
  <2>3. DoneInv'
    <3>1. live' = live /\ turn' = turn /\ done \in Seq(SlotIds)
      BY <1>5 DEF poolVars, ctlVars, ShapeInv, TypeOK, ScanTypes
    <3>2. cursor \notin Elems(done)
      BY <1>5, <2>1, <3>1 DEF ShapeInv, DoneInv, Elems, SlotIds
    <3>3. Unique(done')
      BY <1>5, <2>1, <3>1, <3>2, AppendElems DEF ShapeInv, DoneInv
    <3>4. \A i \in DOMAIN done' : done'[i] \in LiveIn(turn) /\ done'[i] <= cursor
      BY <1>5, <2>1, <3>1 DEF ShapeInv, DoneInv, SlotIds
    <3>5. /\ pc' \in {"judge", "read"}
          /\ At("judge")' => cursor' = cursor + 1
      BY <1>5 DEF NextSlot
    <3>6. done' \in Seq(SlotIds) /\ \A i \in DOMAIN done' : done'[i] \in SlotIds
      BY <1>5, <2>1, <3>1
    <3>7. \A i \in DOMAIN done' : done'[i] \in LiveIn(turn)'
      BY <3>1, <3>4 DEF LiveIn
    <3>8. At("judge")' => \A i \in DOMAIN done' : done'[i] < cursor'
      BY <2>1, <3>4, <3>5, <3>6 DEF SlotIds
    <3> QED
      BY <3>3, <3>5, <3>7, <3>8 DEF DoneInv
  <2> QED BY <1>5, <2>2, <2>3, Kept DEF ShapeInv, TypeOK
<1>6. CASE JudgeScreensOut
  <2> USE DEF JudgeScreensOut
  <2>1. cursor' \in SlotIds /\ pc' \in Labels
    BY <1>6, NextSlotTypes DEF Labels
  <2>2. ScanTypes' /\ CtlTypes' /\ HandInv'
    BY <1>6, <2>1, Kept DEF ShapeInv, TypeOK, ScanTypes, HandInv, NextSlot
  <2>3. cursor \in SlotIds /\ Unit(cursor) \in Units
    BY <1>0, <1>6, LiveUnit DEF Unit
  <2>4. /\ PoolTypes' /\ OutTypes'
        /\ {t \in SlotIds : live'[turn][t] # None} = LiveIn(turn) \ {cursor}
    BY <1>0, <1>6, <2>3, AnswerTypes, FreeTypes DEF Outcomes
  <2>5. DoneInv'
    <3>1. turn' = turn /\ done' = done /\ done \in Seq(SlotIds)
      BY <1>6 DEF ctlVars, ShapeInv, TypeOK, ScanTypes
    <3>2. \A i \in DOMAIN done : done[i] \in LiveIn(turn) \ {cursor} /\ done[i] < cursor
      BY <1>6, <2>3, <3>1 DEF ShapeInv, DoneInv, SlotIds
    <3>3. /\ Unique(done)
          /\ At("judge")' => cursor' = cursor + 1
          /\ pc' \in {"judge", "read"}
      BY <1>6 DEF ShapeInv, DoneInv, NextSlot
    <3>4. \A i \in DOMAIN done' : done'[i] \in LiveIn(turn)'
      BY <2>4, <3>1, <3>2 DEF LiveIn
    <3> QED
      BY <2>3, <3>1, <3>2, <3>3, <3>4 DEF DoneInv, SlotIds
  <2> QED BY <1>6, <2>2, <2>4, <2>5, Kept DEF ShapeInv, TypeOK
<1>7. CASE ReadMany
  <2> USE DEF ReadMany
  <2>1. ScanTypes' /\ CtlTypes' /\ HandInv' /\ DoneInv'
    <3>1. ScanTypes'
      BY <1>7 DEF ShapeInv, TypeOK, ScanTypes, ClearMarks, Marks
    <3>2. CtlTypes' /\ HandInv'
      BY <1>7, Kept DEF ShapeInv, HandInv, Labels
    <3>3. DoneInv'
      <4>1. live' = live /\ turn' = turn /\ done' = done
        BY <1>7 DEF poolVars, ctlVars
      <4> QED BY <1>7, <4>1 DEF ShapeInv, DoneInv, LiveIn
    <3> QED BY <3>1, <3>2, <3>3
  <2> QED BY <1>7, <2>1, Kept DEF ShapeInv, TypeOK
<1>8. CASE ReadManyFails
  <2> USE DEF ReadManyFails
  <2>1. ScanTypes' /\ CtlTypes' /\ HandInv' /\ DoneInv' /\ InTypes'
    <3>1. ScanTypes'
      BY <1>8 DEF ShapeInv, TypeOK, ScanTypes, ClearMarks, Marks
    <3>2. CtlTypes' /\ HandInv'
      BY <1>8 DEF ShapeInv, TypeOK, CtlTypes, HandInv, Labels
    <3>3. DoneInv' /\ InTypes'
      BY <1>8, DoneKept, ClosedTypes
    <3> QED BY <3>1, <3>2, <3>3
  <2> QED BY <1>8, <2>1, Kept DEF ShapeInv, TypeOK
<1>9. CASE ReplyReads
  <2> USE DEF ReplyReads
  <2>0. done \in Seq(SlotIds) /\ done # <<>> /\ Unique(done)
    BY <1>9 DEF ShapeInv, TypeOK, ScanTypes, DoneInv
  <2>1. /\ Head(done) \in SlotIds /\ Tail(done) \in Seq(SlotIds)
        /\ Elems(Tail(done)) = Elems(done) \ {Head(done)} /\ Unique(Tail(done))
    BY <2>0, TailElems
  <2>2. Head(done) \in LiveIn(turn) /\ Unit(Head(done)) \in Units
    <3>1. Head(done) \in LiveIn(turn)
      BY <2>0 DEF ShapeInv, DoneInv
    <3> QED BY <1>0, <3>1, LiveUnit DEF Unit
  <2>3. OutTypes'
    BY <1>9, <2>2, AnswerTypes DEF Outcomes
  <2>4. PoolTypes' /\ {t \in SlotIds : live'[turn][t] # None} = LiveIn(turn) \ {Head(done)}
    BY <1>0, <1>9, <2>1, FreeTypes
  <2>5. ScanTypes' /\ CtlTypes' /\ HandInv'
    <3>1. ScanTypes'
      BY <1>9, <2>1 DEF ShapeInv, TypeOK, ScanTypes
    <3>2. CtlTypes' /\ HandInv'
      BY <1>9, Kept DEF ShapeInv, HandInv, Labels
    <3> QED BY <3>1, <3>2
  <2>6. DoneInv'
    <3>1. turn' = turn /\ done' = Tail(done) /\ pc' = "reply"
      BY <1>9 DEF ctlVars
    <3>2. \A i \in DOMAIN Tail(done) : Tail(done)[i] \in LiveIn(turn) \ {Head(done)}
      <4>1. \A i \in DOMAIN Tail(done) : Tail(done)[i] \in Elems(done) \ {Head(done)}
        BY <2>1 DEF Elems
      <4> QED BY <4>1 DEF ShapeInv, DoneInv, Elems
    <3> QED BY <2>1, <2>4, <3>1, <3>2 DEF DoneInv, LiveIn
  <2> QED BY <1>9, <2>3, <2>4, <2>5, <2>6, Kept DEF ShapeInv, TypeOK
<1>10. CASE Reload
  <2>1. CtlTypes' /\ HandInv' /\ DoneInv'
    <3>1. CtlTypes' /\ HandInv'
      BY <1>10 DEF Reload, ShapeInv, TypeOK, CtlTypes, HandInv, Labels
    <3>2. DoneInv'
      BY <1>10, DoneKept DEF Reload, scanVars
    <3> QED BY <3>1, <3>2
  <2> QED BY <1>10, <2>1, Kept DEF Reload, ShapeInv, TypeOK
<1> QED
  BY <1>1, <1>2, <1>3, <1>4, <1>5, <1>6, <1>7, <1>8, <1>9, <1>10 DEF Harvest
(* The unit in the runner's hand is answered.                              *)
LEMMA AnswerPendingShape ==
  ASSUME ShapeInv, Unblocked, pending # None, NEW outcome \in Outcomes, AnswerPending(outcome),
         pc \notin {"judge", "read", "reply"},
         UNCHANGED <<poolVars>>
  PROVE  ShapeInv'
<1> USE DEF AnswerPending
<1>1. OutTypes'
  BY AnswerTypes DEF ShapeInv, TypeOK, Prepared
<1>2. CtlTypes' /\ HandInv' /\ pending' \in Prepared \union {None}
  BY Kept DEF ShapeInv, HandInv, Goto, At, Labels
<1>3. DoneInv'
  BY DoneKept DEF scanVars
<1> QED BY <1>1, <1>2, <1>3, Kept DEF ShapeInv, TypeOK

(* Every step of the admission loop keeps it.                              *)
LEMMA AdmissionShape ==
  ASSUME ShapeInv, Unblocked, Admission
  PROVE  ShapeInv'
<1> USE DEF At, Goto
<1>1. CASE AdmitTop
  <2>1. jobsClosed' \in BOOLEAN
    BY <1>1 DEF AdmitTop, ShapeInv, TypeOK, InTypes
  <2>2. CtlTypes' /\ HandInv'
    BY <1>1, Kept DEF AdmitTop, ShapeInv, HandInv, Labels
  <2> QED BY <1>1, <2>1, <2>2, ClosedTypes, MoveShape DEF AdmitTop
<1>2. CASE PoolFull
  BY <1>2, Kept, MoveShape DEF PoolFull, HandInv, Labels
<1>3. CASE NothingReady
  BY <1>3, Kept, MoveShape DEF NothingReady, HandInv, Labels
<1>4. CASE TakePrepared
  <2> USE DEF TakePrepared, Collect
  <2>1. ready \in Seq(Units) /\ ready # <<>>
    BY <1>4 DEF ShapeInv, TypeOK, PrepTypes
  <2>2. Head(ready) \in Units /\ Tail(ready) \in Seq(Units)
    BY <2>1
  <2>3. PrepTypes' /\ pending' \in Prepared /\ pending' # None
    BY <1>4, <2>2 DEF ShapeInv, TypeOK, PrepTypes
  <2>4. CtlTypes' /\ HandInv' /\ DoneInv'
    BY <1>4, <2>3, Kept, DoneKept DEF HandInv, Labels, scanVars
  <2> QED BY <1>4, <2>3, <2>4, Kept DEF ShapeInv, TypeOK
<1>5. CASE PlaceAbandoned \/ PlaceEmpty \/ PlaceError \/ RebuildFails \/ RunFallback
  <2>1. pending # None /\ UNCHANGED poolVars /\ pc \in {"place", "fallback"}
    BY <1>5 DEF PlaceAbandoned, PlaceEmpty, PlaceError, RebuildFails, RunFallback,
                Wanted, ShapeInv, HandInv
  <2>2. PICK outcome \in Outcomes : AnswerPending(outcome)
    BY <1>5 DEF PlaceAbandoned, PlaceEmpty, PlaceError, RebuildFails, RunFallback,
                Wanted, Outcomes, FallbackAnswer
  <2> QED BY <2>1, <2>2, AnswerPendingShape
<1>6. CASE PlaceWaits \/ PlaceFallback \/ PlaceFits
  BY <1>6, Kept, MoveShape DEF PlaceWaits, PlaceFallback, PlaceFits, Wanted, Labels,
                                ShapeInv, HandInv
<1>7. CASE Rebuild
  <2> USE DEF Rebuild
  <2>1. PreparedLen \in Nat
    BY <1>7 DEF PreparedLen, Wanted, ShapeInv, HandInv, TypeOK, Prepared, PlanAssumption
  <2>2. PoolTypes'
    BY <1>7, <2>1 DEF PoolTypes, PoolShape, Wanted, ShapeInv, HandInv, TypeOK, Prepared
  <2>3. CtlTypes' /\ HandInv' /\ DoneInv'
    BY <1>7, Kept, DoneKept DEF Wanted, ShapeInv, HandInv, Labels, scanVars
  <2> QED BY <1>7, <2>2, <2>3, Kept DEF ShapeInv, TypeOK
<1>8. CASE FallbackFaults
  <2> USE DEF FallbackFaults
  <2>1. OutTypes'
    BY <1>8, AnswerTypes DEF ShapeInv, HandInv, TypeOK, Prepared, FallbackAnswer, Outcomes
  <2>2. CtlTypes' /\ HandInv' /\ DoneInv' /\ InTypes' /\ pending' = None
    BY <1>8, ClosedTypes, DoneKept DEF ShapeInv, TypeOK, CtlTypes, HandInv, Labels, scanVars
  <2> QED BY <1>8, <2>1, <2>2, Kept DEF ShapeInv, TypeOK
<1>9. CASE Admit
  <2> USE DEF Admit
  <2>1. pending \in Prepared /\ AdmittedLen \in Nat
    BY <1>9 DEF AdmittedLen, ShapeInv, HandInv, TypeOK, CtlTypes, Prepared, PlanAssumption
  <2>2. [unit |-> pending.unit, pos |-> 0, len |-> AdmittedLen] \in ResidentJob
    BY <2>1 DEF Prepared, ResidentJob
  <2>3. PoolTypes'
    <3> DEFINE job == [unit |-> pending.unit, pos |-> 0, len |-> AdmittedLen]
    <3>1. PICK s \in SlotIds : live' = [live EXCEPT ![turn][s] = job]
      BY <1>9
    <3> HIDE DEF job
    <3>2. live' \in [Pools -> [SlotIds -> ResidentJob \union {None}]]
      BY <2>2, <3>1 DEF job, ShapeInv, TypeOK, PoolTypes, CtlTypes
    <3> QED BY <1>9, <3>2 DEF ShapeInv, TypeOK, PoolTypes
  <2>4. CtlTypes' /\ HandInv' /\ DoneInv' /\ pending' \in Prepared \union {None}
    BY <1>9, Kept, DoneKept DEF HandInv, Labels, scanVars
  <2> QED BY <1>9, <2>3, <2>4, Kept DEF ShapeInv, TypeOK
<1>10. CASE AdmitRefused
  <2>1. /\ pending # None /\ UNCHANGED poolVars /\ At("slot")
        /\ AnswerPending(IF Abandoned(pending.unit) THEN "cancelled" ELSE "failed")
    BY <1>10 DEF AdmitRefused, ShapeInv, HandInv
  <2> QED BY <2>1, AnswerPendingShape DEF Outcomes
<1> QED
  BY <1>1, <1>2, <1>3, <1>4, <1>5, <1>6, <1>7, <1>8, <1>9, <1>10 DEF Admission
(* The exit test, the throttle and commit_step keep it.                    *)
LEMMA SteppingShape ==
  ASSUME ShapeInv, Stepping
  PROVE  ShapeInv'
<1> USE DEF At, Goto
<1>1. CASE Exit \/ StepClosed
  BY <1>1, Kept, ClosedTypes, MoveShape DEF Exit, StepClosed, HandInv, Labels
<1>2. CASE Stay
  <2>1. CtlTypes' /\ HandInv' /\ DoneInv'
    BY <1>2, DoneKept DEF Stay, ShapeInv, TypeOK, CtlTypes, HandInv, Labels, Pools, scanVars
  <2> QED BY <1>2, <2>1, Kept DEF Stay, ShapeInv, TypeOK
<1>3. CASE Unthrottled \/ Throttled \/ YieldEnds
  BY <1>3, Kept, MoveShape DEF Unthrottled, Throttled, YieldEnds, HandInv, Labels
<1>4. CASE CommitStep
  <2>1. PoolTypes'
    <3>1. turn \in Pools /\ LiveIn(turn) \subseteq SlotIds /\ PoolTypes
      BY DEF ShapeInv, TypeOK, CtlTypes, LiveIn
    <3>2. cmd' \in [Pools -> {"idle", "running", "completed", "error"}]
      BY <1>4, <3>1 DEF CommitStep, PoolTypes
    <3>3. steps' \in [Pools -> SUBSET SlotIds]
      BY <1>4, <3>1 DEF CommitStep, PoolTypes
    <3> QED BY <1>4, <3>1, <3>2, <3>3 DEF CommitStep, PoolTypes
  <2>2. CtlTypes' /\ HandInv' /\ DoneInv'
    BY <1>4, DoneKept DEF CommitStep, ShapeInv, TypeOK, CtlTypes, HandInv, Labels, Pools,
                          scanVars
  <2> QED BY <1>4, <2>1, <2>2, Kept DEF CommitStep, ShapeInv, TypeOK
<1> QED
  BY <1>1, <1>2, <1>3, <1>4 DEF Stepping

(* The flush of the pools and the reject functions keep it.                *)
LEMMA ShutdownShape ==
  ASSUME ShapeInv, Unblocked, Shutdown
  PROVE  ShapeInv'
<1> USE DEF At, Goto
<1>1. CASE \E p \in Pools, s \in SlotIds : FlushSlot(p, s)
  <2>1. PICK p \in Pools, s \in SlotIds : FlushSlot(p, s)
    BY <1>1
  <2> USE DEF FlushSlot
  <2>2. OutTypes'
    BY <2>1, AnswerTypes, LiveUnit DEF Outcomes
  <2>3. PoolTypes'
    BY <2>1, FreeTypes
  <2>4. CtlTypes' /\ HandInv' /\ DoneInv'
    <3>1. pc' = pc /\ UNCHANGED <<done, pending>> /\ pc \notin {"judge", "read", "reply"}
      BY <2>1 DEF scanVars
    <3> QED BY <2>1, <3>1, Kept, DoneKept DEF ShapeInv, TypeOK, CtlTypes, HandInv
  <2> QED BY <2>1, <2>2, <2>3, <2>4, Kept DEF ShapeInv, TypeOK
<1>2. CASE FlushDone \/ DrainReadyDone \/ DrainJobsDone \/ DrainSaltsDone
  BY <1>2, Kept, MoveShape DEF FlushDone, DrainReadyDone, DrainJobsDone, DrainSaltsDone,
                                HandInv, Labels
<1>3. CASE DrainReady
  <2> USE DEF DrainReady, Collect
  <2>1. /\ ready \in Seq(Units) /\ ready # <<>> /\ Head(ready) \in Units
        /\ Tail(ready) \in Seq(Units)
    BY <1>3 DEF ShapeInv, TypeOK, PrepTypes
  <2>2. PrepTypes' /\ OutTypes'
    <3>1. PrepTypes'
      BY <1>3, <2>1 DEF ShapeInv, TypeOK, PrepTypes
    <3> QED BY <1>3, <2>1, <3>1, AnswerTypes DEF RejectOrCancel, Outcomes
  <2>3. CtlTypes' /\ HandInv' /\ DoneInv'
    BY <1>3, Kept, DoneKept DEF ShapeInv, TypeOK, CtlTypes, HandInv, scanVars
  <2> QED BY <1>3, <2>2, <2>3, Kept DEF ShapeInv, TypeOK
<1>4. CASE DrainPending
  <2> USE DEF DrainPending
  <2>1. OutTypes'
    <3>1. CASE pending = None
      BY <1>4, <3>1, Kept
    <3>2. CASE pending # None
      BY <1>4, <3>2, AnswerTypes DEF RejectOrCancel, Outcomes, ShapeInv, TypeOK, Prepared
    <3> QED BY <3>1, <3>2
  <2>2. CtlTypes' /\ HandInv' /\ DoneInv'
    BY <1>4, Kept, DoneKept DEF HandInv, Labels, scanVars
  <2> QED BY <1>4, <2>1, <2>2, Kept DEF ShapeInv, TypeOK
<1>5. CASE DrainJob
  <2>1. jobs \in Seq(Jobs) /\ Head(jobs) \in Units /\ Tail(jobs) \in Seq(Jobs)
    BY <1>5 DEF DrainJob, ShapeInv, TypeOK, InTypes, Units
  <2>2. InTypes' /\ OutTypes'
    <3>1. InTypes'
      BY <1>5, <2>1 DEF DrainJob, ShapeInv, TypeOK, InTypes
    <3> QED BY <1>5, <2>1, <3>1, AnswerTypes DEF DrainJob, RejectOrCancel, Outcomes
  <2>3. CtlTypes' /\ HandInv' /\ DoneInv'
    BY <1>5, Kept, DoneKept DEF DrainJob, HandInv, scanVars, Labels
  <2> QED BY <1>5, <2>2, <2>3, Kept DEF DrainJob, ShapeInv, TypeOK
<1>6. CASE DrainSalt
  <2>1. salts \in Seq(Salts) /\ Head(salts) \in Units /\ Tail(salts) \in Seq(Salts)
    BY <1>6 DEF DrainSalt, ShapeInv, TypeOK, InTypes, Units
  <2>2. InTypes' /\ OutTypes'
    <3>1. InTypes'
      BY <1>6, <2>1 DEF DrainSalt, ShapeInv, TypeOK, InTypes
    <3> QED BY <1>6, <2>1, <3>1, AnswerTypes DEF DrainSalt, RejectOrCancel, Outcomes
  <2>3. CtlTypes' /\ HandInv' /\ DoneInv'
    BY <1>6, Kept, DoneKept DEF DrainSalt, HandInv, scanVars, Labels
  <2> QED BY <1>6, <2>2, <2>3, Kept DEF DrainSalt, ShapeInv, TypeOK
<1> QED
  BY <1>1, <1>2, <1>3, <1>4, <1>5, <1>6 DEF Shutdown
(* What the session and the leases do keeps it.                            *)
LEMMA CallersShape ==
  ASSUME ShapeInv, Callers
  PROVE  ShapeInv'
<1>1. InTypes' /\ OutTypes' /\ EnvTypes' /\ UNCHANGED <<prepVars, pending, poolVars,
                                                        scanVars, pc, ctlVars>>
  <2>1. CASE \E u \in Jobs : Reserve(u) \/ SendJob(u)
    <3>1. InTypes'
      <4>1. PICK u \in Jobs : Reserve(u) \/ SendJob(u)
        BY <2>1
      <4>2. CASE Reserve(u)
        BY <4>2 DEF Reserve, ShapeInv, TypeOK, InTypes
      <4>3. CASE SendJob(u)
        BY <4>3, AppendElems DEF SendJob, ShapeInv, TypeOK, InTypes, Units
      <4> QED BY <4>1, <4>2, <4>3
    <3> QED BY <2>1, <3>1, Kept DEF Reserve, SendJob
  <2>2. CASE \E u \in Jobs : Cancel(u)
    <3>1. EnvTypes'
      BY <2>2 DEF Cancel, ShapeInv, TypeOK, EnvTypes
    <3> QED BY <2>2, <3>1, Kept DEF Cancel
  <2>3. CASE \E u \in Salts : SendSalt(u)
    <3>1. InTypes'
      BY <2>3, AppendElems DEF SendSalt, ShapeInv, TypeOK, InTypes, Units
    <3> QED BY <2>3, <3>1, Kept DEF SendSalt
  <2>4. CASE \E l \in Leases : StopLease(l)
    <3>1. EnvTypes'
      BY <2>4 DEF StopLease, ShapeInv, TypeOK, EnvTypes
    <3> QED BY <2>4, <3>1, Kept DEF StopLease
  <2>5. CASE CloseInput
    <3>1. InTypes'
      BY <2>5 DEF CloseInput, ShapeInv, TypeOK, InTypes
    <3> QED BY <2>5, <3>1, Kept DEF CloseInput
  <2>6. CASE ReadResult
    <3>1. OutTypes'
      BY <2>6 DEF ReadResult, ShapeInv, TypeOK, OutTypes
    <3> QED BY <2>6, <3>1, Kept DEF ReadResult
  <2>7. CASE CloseOut
    <3>1. OutTypes' /\ EnvTypes'
      BY <2>7 DEF CloseOut, ShapeInv, TypeOK, OutTypes, EnvTypes
    <3> QED BY <2>7, <3>1, Kept DEF CloseOut
  <2> QED
    BY <2>1, <2>2, <2>3, <2>4, <2>5, <2>6, <2>7 DEF Callers
<1>2. CtlTypes' /\ HandInv' /\ DoneInv'
  BY <1>1, DoneKept DEF ShapeInv, TypeOK, CtlTypes, HandInv, At, scanVars, poolVars, ctlVars,
                        DoneInv, LiveIn
<1> QED BY <1>1, <1>2, Kept DEF ShapeInv, TypeOK

(* A preparation worker keeps it.                                          *)
LEMMA PrepareShape ==
  ASSUME ShapeInv, NEW w \in WorkerIds, Prepare(w)
  PROVE  ShapeInv'
<1> USE DEF Prepare
<1>1. /\ work[w] \in Seq(Tasks) /\ work[w] # <<>>
      /\ Head(work[w]) \in Tasks /\ Tail(work[w]) \in Seq(Tasks)
  BY DEF ShapeInv, TypeOK, PrepTypes
<1>2. PICK result \in PrepResults[Head(work[w]).unit] :
        reply' = [reply EXCEPT ![Head(work[w]).unit] =
                    [unit |-> Head(work[w]).unit, result |-> result,
                     config |-> Head(work[w]).config]]
  OBVIOUS
<1>3. /\ Head(work[w]).unit \in Units /\ Head(work[w]).config \in Configs
      /\ result \in Results
  BY <1>1 DEF Tasks, PlanAssumption
<1>4. PrepTypes'
  BY <1>1, <1>2, <1>3 DEF ShapeInv, TypeOK, PrepTypes, Prepared
<1>5. CtlTypes' /\ HandInv' /\ DoneInv'
  BY DoneKept DEF ShapeInv, TypeOK, CtlTypes, HandInv, scanVars, poolVars, ctlVars
<1> QED BY <1>4, <1>5, Kept DEF ShapeInv, TypeOK

(* A command buffer that completes keeps it.                               *)
LEMMA CommandShape ==
  ASSUME ShapeInv, NEW p \in Pools, CompleteCommand(p)
  PROVE  ShapeInv'
<1> USE DEF CompleteCommand
<1>1. PoolTypes'
  BY DEF ShapeInv, TypeOK, PoolTypes
<1>2. CtlTypes' /\ HandInv' /\ DoneInv'
  BY DoneKept DEF ShapeInv, TypeOK, CtlTypes, HandInv, scanVars, ctlVars
<1> QED BY <1>1, <1>2, Kept DEF ShapeInv, TypeOK

(* A step that changes nothing keeps it.                                   *)
LEMMA StutterShape ==
  ASSUME ShapeInv, UNCHANGED vars
  PROVE  ShapeInv'
<1>1. /\ UNCHANGED <<inVars, prepVars, pending, poolVars, scanVars, pc, ctlVars, outVars,
                     envVars>>
  BY DEF vars
<1>2. HandInv' /\ DoneInv' /\ CtlTypes'
  BY <1>1, DoneKept DEF ShapeInv, TypeOK, CtlTypes, HandInv, scanVars, poolVars, ctlVars
<1> QED BY <1>1, <1>2, Kept DEF ShapeInv, TypeOK

(* So it is inductive.                                                     *)
LEMMA NextShape == ShapeInv /\ [Next]_vars => ShapeInv'
<1> SUFFICES ASSUME ShapeInv, [Next]_vars PROVE ShapeInv'
  OBVIOUS
<1>1. CASE Runner
  BY <1>1, IntakeShape, HarvestShape, AdmissionShape, SteppingShape, ShutdownShape
     DEF Runner
<1>2. CASE Callers
  BY <1>2, CallersShape
<1>3. CASE \E w \in WorkerIds : Prepare(w)
  BY <1>3, PrepareShape
<1>4. CASE \E p \in Pools : CompleteCommand(p)
  BY <1>4, CommandShape
<1>5. CASE UNCHANGED vars
  BY <1>5, StutterShape
<1> QED
  BY <1>1, <1>2, <1>3, <1>4, <1>5 DEF Next, Finished

(* Every variable keeps its type, and what the runner holds matches where  *)
(* it is: a unit in hand to be placed, slots to be read back that are live *)
(* and distinct (run and harvest).                                         *)
THEOREM ShapeInvariant == Spec => []ShapeInv
<1>1. Init => ShapeInv
  BY InitShape
<1>2. ShapeInv /\ [Next]_vars => ShapeInv'
  BY NextShape
<1> QED
  BY <1>1, <1>2, PTL DEF Spec

(* The result channel never holds more than OutCap results, the cursor of  *)
(* a loop never leaves the pool, and every other variable keeps its type.  *)
THEOREM TypeCorrect == Spec => []TypeOK
<1>1. ShapeInv => TypeOK
  BY DEF ShapeInv
<1> QED
  BY <1>1, ShapeInvariant, PTL

-----------------------------------------------------------------------------
(* Proofs that no unit is lost, owned twice or answered twice by Resident. *)
(*                                                                         *)
(* Place is a family of sets.  Every action that handles a unit moves it   *)
(* from one of them to another, so the argument is one lemma on such moves *)
(* and, per action, the two sets it changes.                               *)

-----------------------------------------------------------------------------
(* Families of sets *)

Same(P, Q, N) == \A c \in PlaceNames \ N : Q[c] = P[c]

Moves(P, Q, a, b, u) ==
  /\ a \in PlaceNames /\ b \in PlaceNames /\ a # b
  /\ u \in P[a]
  /\ Q[a] = P[a] \ {u} /\ Q[b] = P[b] \union {u}
  /\ Same(P, Q, {a, b})

(* Moving an element from one set to another divides the same elements.    *)
LEMMA MoveDivides ==
  ASSUME NEW P, NEW Q, NEW S, NEW a, NEW b, NEW u, Divides(P, S), Moves(P, Q, a, b, u)
  PROVE  Divides(Q, S)
<1> USE DEF Divides, Moves, Same
<1>1. \A c \in PlaceNames : c = a \/ c = b \/ Q[c] = P[c]
  OBVIOUS
<1>2. S = UNION {Q[c] : c \in PlaceNames}
  <2>1. ASSUME NEW x \in S PROVE \E c \in PlaceNames : x \in Q[c]
    <3>1. PICK c \in PlaceNames : x \in P[c]
      BY <2>1
    <3>2. CASE x = u
      BY <3>2
    <3>3. CASE x # u
      BY <1>1, <3>1, <3>3
    <3> QED BY <3>2, <3>3
  <2>2. ASSUME NEW c \in PlaceNames, NEW x \in Q[c] PROVE x \in S
    BY <1>1, <2>2
  <2> QED BY <2>1, <2>2
<1>3. ASSUME NEW c \in PlaceNames, NEW d \in PlaceNames, c # d
      PROVE  Q[c] \intersect Q[d] = {}
  BY <1>1, <1>3
<1> QED BY <1>2, <1>3

(* A new element in one set is divided with the others.                    *)
LEMMA EnterDivides ==
  ASSUME NEW P, NEW Q, NEW S, NEW a \in PlaceNames, NEW u, Divides(P, S), u \notin S,
         Q[a] = P[a] \union {u}, Same(P, Q, {a})
  PROVE  Divides(Q, S \union {u})
<1> USE DEF Divides, Same
<1>1. \A c \in PlaceNames : c = a \/ Q[c] = P[c]
  OBVIOUS
<1>2. \A c \in PlaceNames : u \notin P[c]
  OBVIOUS
<1>3. S \union {u} = UNION {Q[c] : c \in PlaceNames}
  <2>1. ASSUME NEW x \in S \union {u} PROVE \E c \in PlaceNames : x \in Q[c]
    BY <1>1, <2>1
  <2>2. ASSUME NEW c \in PlaceNames, NEW x \in Q[c] PROVE x \in S \union {u}
    BY <1>1, <2>2
  <2> QED BY <2>1, <2>2
<1>4. ASSUME NEW c \in PlaceNames, NEW d \in PlaceNames, c # d
      PROVE  Q[c] \intersect Q[d] = {}
  BY <1>1, <1>2, <1>4
<1> QED BY <1>3, <1>4

(* A family with the same sets divides the same elements.                  *)
LEMMA SameDivides ==
  ASSUME NEW P, NEW Q, NEW S, Divides(P, S), Same(P, Q, {})
  PROVE  Divides(Q, S)
<1>1. \A c \in PlaceNames : Q[c] = P[c]
  BY DEF Same
<1> QED BY <1>1 DEF Divides

(* An element of one set is in no other.                                   *)
LEMMA Apart ==
  ASSUME NEW P, NEW S, Divides(P, S), NEW a \in PlaceNames, NEW u \in P[a]
  PROVE  u \in S /\ \A b \in PlaceNames : b # a => u \notin P[b]
BY DEF Divides

-----------------------------------------------------------------------------
(* The sets of Resident *)

(* The places a unit can be in, one by one.                                *)
LEMMA Places ==
  /\ Place["jobs"] = Elems(jobs) /\ Place["salts"] = Elems(salts)
  /\ Place["work"] = UNION {Queued(w) : w \in WorkerIds}
  /\ Place["reply"] = {u \in Units : reply[u] # None}
  /\ Place["pending"] = {u \in Units : pending # None /\ pending.unit = u}
  /\ Place["slots"] = LiveUnits(0) \union LiveUnits(1)
  /\ Place["answers"] = {u \in Units : answers[u] # <<>>}
BY DEF Place, PlaceNames

(* The places a unit can be in after a step.                               *)
LEMMA PlacesAfter ==
  /\ Place'["jobs"] = Elems(jobs') /\ Place'["salts"] = Elems(salts')
  /\ Place'["work"] = UNION {Queued(w)' : w \in WorkerIds}
  /\ Place'["reply"] = {u \in Units : reply'[u] # None}
  /\ Place'["pending"] = {u \in Units : pending' # None /\ pending'.unit = u}
  /\ Place'["slots"] = LiveUnits(0)' \union LiveUnits(1)'
  /\ Place'["answers"] = {u \in Units : answers'[u] # <<>>}
BY DEF Place, PlaceNames

(* What a step leaves alone stays where it is.                             *)
LEMMA Left ==
  /\ jobs' = jobs => Place'["jobs"] = Place["jobs"]
  /\ salts' = salts => Place'["salts"] = Place["salts"]
  /\ work' = work => Place'["work"] = Place["work"] /\ (WorkOnce => WorkOnce')
  /\ reply' = reply => Place'["reply"] = Place["reply"] /\ (ReplyOwn => ReplyOwn')
  /\ pending' = pending => Place'["pending"] = Place["pending"]
  /\ live' = live => Place'["slots"] = Place["slots"] /\ (SlotsOnce => SlotsOnce')
  /\ answers' = answers => Place'["answers"] = Place["answers"]
                            /\ (AnsweredOnce => AnsweredOnce')
<1>1. work' = work => Place'["work"] = Place["work"] /\ (WorkOnce => WorkOnce')
  <2>1. ASSUME work' = work, NEW w \in WorkerIds
        PROVE  Queued(w)' = Queued(w) /\ UniqueUnits(work[w])' = UniqueUnits(work[w])
    BY <2>1 DEF Queued, UnitsOf, UniqueUnits
  <2> QED BY <2>1, Places, PlacesAfter DEF WorkOnce
<1>2. live' = live => Place'["slots"] = Place["slots"] /\ (SlotsOnce => SlotsOnce')
  BY Places, PlacesAfter DEF LiveUnits, LiveIn, SlotsOnce
<1>3. reply' = reply => Place'["reply"] = Place["reply"] /\ (ReplyOwn => ReplyOwn')
  BY Places, PlacesAfter DEF ReplyOwn
<1>4. answers' = answers => Place'["answers"] = Place["answers"]
                            /\ (AnsweredOnce => AnsweredOnce')
  BY Places, PlacesAfter DEF AnsweredOnce
<1> QED BY <1>1, <1>2, <1>3, <1>4, Places, PlacesAfter

(* The units some worker has queued.                                       *)
LEMMA WorkPlace ==
  /\ \A x : x \in Place["work"] <=> \E w \in WorkerIds : x \in UnitsOf(work[w])
  /\ \A x : x \in Place'["work"] <=> \E w \in WorkerIds : x \in UnitsOf(work'[w])
<1>1. /\ Place["work"] = UNION {Queued(w) : w \in WorkerIds}
      /\ Place'["work"] = UNION {Queued(w)' : w \in WorkerIds}
  BY Places, PlacesAfter
<1> QED BY <1>1 DEF Queued

-----------------------------------------------------------------------------
(* The effect of each kind of step on the set it takes a unit from or puts *)
(* a unit into.                                                            *)

(* The first answer of a unit is its only one.                             *)
LEMMA Answered ==
  ASSUME ShapeInv, AnsweredOnce, NEW u \in Units, u \notin Place["answers"],
         NEW outcome \in Outcomes, Answer(u, outcome)
  PROVE  AnsweredOnce' /\ Place'["answers"] = Place["answers"] \union {u}
<1>1. answers \in [Units -> Seq(Outcomes)] /\ answers[u] = <<>>
  BY Places DEF ShapeInv, TypeOK, OutTypes
<1>2. /\ \A v \in Units : v # u => answers'[v] = answers[v]
      /\ answers'[u] = Append(<<>>, outcome)
  <2>1. answers' = [answers EXCEPT ![u] = Append(answers[u], outcome)]
    BY DEF Answer
  <2> QED BY <1>1, <2>1
<1>3. Len(answers'[u]) = 1 /\ answers'[u] # <<>>
  BY <1>2
<1>4. AnsweredOnce'
  <2>1. ASSUME NEW v \in Units PROVE Len(answers'[v]) <= 1
    <3>1. CASE v = u
      <4>1. Len(answers'[v]) = 1
        BY <1>3, <3>1, Zenon
      <4>2. 1 <= 1
        OBVIOUS
      <4> QED BY <4>1, <4>2, Zenon
    <3>2. CASE v # u
      BY <1>2, <3>2 DEF AnsweredOnce
    <3> QED BY <3>1, <3>2
  <2> QED BY <2>1 DEF AnsweredOnce
<1>5. Place'["answers"] = Place["answers"] \union {u}
  BY <1>2, <1>3, Places, PlacesAfter
<1> QED BY <1>4, <1>5

(* A unit leaves its slot.                                                 *)
LEMMA SlotFreed ==
  ASSUME ShapeInv, SlotsOnce, NEW p \in Pools, NEW s \in LiveIn(p), Free(p, s),
         UNCHANGED <<shape, cmd, steps>>
  PROVE  SlotsOnce' /\ Place'["slots"] = Place["slots"] \ {live[p][s].unit}
<1>1. s \in SlotIds
  BY DEF LiveIn
<1>2. /\ {t \in SlotIds : live'[p][t] # None} = LiveIn(p) \ {s}
      /\ \A q \in Pools : \A t \in SlotIds : p # q \/ s # t => live'[q][t] = live[q][t]
  BY <1>1, FreeTypes
<1>3. \A q \in Pools : \A t \in SlotIds :
         t \in LiveIn(q)' <=> t \in LiveIn(q) /\ ~(p = q /\ s = t)
  BY <1>1, <1>2 DEF LiveIn
<1>4. SlotsOnce'
  BY <1>2, <1>3 DEF SlotsOnce, LiveIn
<1>5. \A q \in Pools : LiveUnits(q)' = LiveUnits(q) \ {live[p][s].unit}
  <2>1. ASSUME NEW q \in Pools PROVE LiveUnits(q)' = LiveUnits(q) \ {live[p][s].unit}
    <3>1. ASSUME NEW t \in LiveIn(q)'
          PROVE  t \in LiveIn(q) /\ live'[q][t] = live[q][t] /\ live[q][t].unit # live[p][s].unit
      BY <1>2, <1>3, <3>1 DEF LiveIn, SlotsOnce
    <3>2. ASSUME NEW t \in LiveIn(q), live[q][t].unit # live[p][s].unit
          PROVE  t \in LiveIn(q)' /\ live'[q][t] = live[q][t]
      BY <1>2, <1>3, <3>2 DEF LiveIn
    <3> QED BY <3>1, <3>2 DEF LiveUnits
  <2> QED BY <2>1
<1>6. 0 \in Pools /\ 1 \in Pools
  BY DEF Pools
<1> QED BY <1>4, <1>5, <1>6, Places, PlacesAfter

(* A unit enters a free slot.                                              *)
LEMMA SlotFilled ==
  ASSUME ShapeInv, SlotsOnce, NEW p \in Pools, NEW s \in SlotIds, s \notin LiveIn(p),
         NEW job \in ResidentJob, job.unit \notin Place["slots"],
         live' = [live EXCEPT ![p][s] = job]
  PROVE  SlotsOnce' /\ Place'["slots"] = Place["slots"] \union {job.unit}
<1>1. /\ live'[p][s] = job /\ job # None
      /\ \A q \in Pools : \A t \in SlotIds : p # q \/ s # t => live'[q][t] = live[q][t]
  BY NoneAssumption DEF ShapeInv, TypeOK, PoolTypes
<1>2. \A q \in Pools : \A t \in SlotIds :
         t \in LiveIn(q)' <=> t \in LiveIn(q) \/ (p = q /\ s = t)
  BY <1>1 DEF LiveIn
<1>3. \A q \in Pools : LiveUnits(q) \subseteq Place["slots"]
  BY Places DEF Pools
<1>4. \A q \in Pools : \A t \in LiveIn(q) : live[q][t].unit # job.unit
  BY <1>3 DEF LiveUnits
<1>5. SlotsOnce'
  BY <1>1, <1>2, <1>4 DEF SlotsOnce, LiveIn
<1>6. \A q \in Pools : LiveUnits(q)' = LiveUnits(q) \union {x \in {job.unit} : q = p}
  <2>1. ASSUME NEW q \in Pools
        PROVE  LiveUnits(q)' = LiveUnits(q) \union {x \in {job.unit} : q = p}
    <3>1. ASSUME NEW t \in LiveIn(q)'
          PROVE  live'[q][t].unit \in LiveUnits(q) \union {x \in {job.unit} : q = p}
      BY <1>1, <1>2, <3>1 DEF LiveIn, LiveUnits
    <3>2. ASSUME NEW t \in LiveIn(q)
          PROVE  t \in LiveIn(q)' /\ live'[q][t].unit = live[q][t].unit
      BY <1>1, <1>2, <1>4, <3>2 DEF LiveIn
    <3>3. q = p => s \in LiveIn(q)' /\ live'[q][s].unit = job.unit
      BY <1>1, <1>2
    <3> QED BY <3>1, <3>2, <3>3 DEF LiveUnits
  <2> QED BY <2>1
<1>7. 0 \in Pools /\ 1 \in Pools /\ Pools = {0, 1}
  BY DEF Pools
<1> QED BY <1>5, <1>6, <1>7, Places, PlacesAfter

(* Putting a task at the end of a queue, and taking the first one.         *)
LEMMA AppendUnits ==
  ASSUME NEW q \in Seq(Tasks), NEW t \in Tasks
  PROVE  /\ UnitsOf(Append(q, t)) = UnitsOf(q) \union {t.unit}
         /\ UniqueUnits(q) /\ t.unit \notin UnitsOf(q) => UniqueUnits(Append(q, t))
<1>1. /\ Append(q, t) \in Seq(Tasks) /\ DOMAIN q = 1..Len(q) /\ Len(q) \in Nat
      /\ DOMAIN Append(q, t) = 1..(Len(q) + 1)
      /\ Append(q, t)[Len(q) + 1] = t
      /\ \A i \in 1..Len(q) : Append(q, t)[i] = q[i]
  OBVIOUS
<1>2. /\ \A i \in 1..(Len(q) + 1) : i \in 1..Len(q) \/ i = Len(q) + 1
      /\ 1..Len(q) \subseteq 1..(Len(q) + 1) /\ Len(q) + 1 \in 1..(Len(q) + 1)
  BY <1>1
<1>3. UnitsOf(Append(q, t)) = UnitsOf(q) \union {t.unit}
  BY <1>1, <1>2 DEF UnitsOf
<1>4. ASSUME UniqueUnits(q), t.unit \notin UnitsOf(q) PROVE UniqueUnits(Append(q, t))
  BY <1>1, <1>2, <1>4 DEF UniqueUnits, UnitsOf
<1> QED BY <1>3, <1>4

(* Taking the head of a worker's queue takes its unit.                     *)
LEMMA TailUnits ==
  ASSUME NEW q \in Seq(Tasks), q # <<>>, UniqueUnits(q)
  PROVE  /\ Head(q) \in Tasks /\ Head(q).unit \in UnitsOf(q)
         /\ UniqueUnits(Tail(q))
         /\ UnitsOf(Tail(q)) = UnitsOf(q) \ {Head(q).unit}
<1>1. /\ Head(q) = q[1] /\ Len(q) \in Nat \ {0} /\ DOMAIN q = 1..Len(q)
      /\ Head(q) \in Tasks
  OBVIOUS
<1>2. /\ Tail(q) \in Seq(Tasks) /\ DOMAIN Tail(q) = 1..(Len(q) - 1)
      /\ \A i \in 1..(Len(q) - 1) : Tail(q)[i] = q[i + 1]
  OBVIOUS
<1>3. UniqueUnits(Tail(q))
  BY <1>1, <1>2 DEF UniqueUnits
<1>4. UnitsOf(Tail(q)) = UnitsOf(q) \ {Head(q).unit}
  <2>1. ASSUME NEW x \in UnitsOf(Tail(q)) PROVE x \in UnitsOf(q) /\ x # Head(q).unit
    BY <1>1, <1>2, <2>1, SMTT(30) DEF UniqueUnits, UnitsOf
  <2>2. ASSUME NEW x \in UnitsOf(q), x # Head(q).unit PROVE x \in UnitsOf(Tail(q))
    <3>1. PICK i \in 1..Len(q) : x = q[i].unit
      BY <1>1 DEF UnitsOf
    <3>2. i - 1 \in 1..(Len(q) - 1) /\ x = Tail(q)[i - 1].unit
      BY <1>1, <1>2, <2>2, <3>1
    <3> QED BY <1>2, <3>2 DEF UnitsOf
  <2> QED BY <2>1, <2>2
<1>5. Head(q).unit \in UnitsOf(q)
  BY <1>1 DEF UnitsOf
<1> QED BY <1>1, <1>3, <1>4, <1>5

(* A unit is handed to a worker.                                           *)
LEMMA Submitted ==
  ASSUME ShapeInv, WorkOnce, NEW u \in Units, u \notin Place["work"], Submit(u)
  PROVE  WorkOnce' /\ Place'["work"] = Place["work"] \union {u}
<1> DEFINE task == [unit |-> u, config |-> config]
           queue == Append(work[nextWorker], task)
<1>1. task \in Tasks /\ task.unit = u
  BY DEF Tasks, ShapeInv, TypeOK, CtlTypes
<1>2. work \in [WorkerIds -> Seq(Tasks)] /\ nextWorker \in WorkerIds
  BY DEF ShapeInv, TypeOK, PrepTypes
<1>3. work' = [work EXCEPT ![nextWorker] = queue]
  BY DEF Submit
<1>4. \A w \in WorkerIds : u \notin UnitsOf(work[w])
  BY WorkPlace
<1>5. UnitsOf(queue) = UnitsOf(work[nextWorker]) \union {u} /\ UniqueUnits(queue)
  <2> HIDE DEF task
  <2> QED BY <1>1, <1>2, <1>4, AppendUnits DEF WorkOnce
<1> HIDE DEF task, queue
<1>6. \A w \in WorkerIds : work'[w] = IF w = nextWorker THEN queue ELSE work[w]
  BY <1>2, <1>3
<1>7. \A w \in WorkerIds :
         UnitsOf(work'[w]) = IF w = nextWorker THEN UnitsOf(work[w]) \union {u}
                                               ELSE UnitsOf(work[w])
  BY <1>5, <1>6
<1>8. Place'["work"] = Place["work"] \union {u}
  <2>1. ASSUME NEW w \in WorkerIds, NEW x \in UnitsOf(work'[w])
        PROVE  x \in Place["work"] \union {u}
    BY <1>7, <2>1, WorkPlace
  <2>2. ASSUME NEW x \in Place["work"] \union {u}
        PROVE  \E w \in WorkerIds : x \in UnitsOf(work'[w])
    BY <1>2, <1>7, <2>2, WorkPlace
  <2> QED BY <2>1, <2>2, WorkPlace
<1>9. WorkOnce'
  <2>1. \A w \in WorkerIds : UniqueUnits(work'[w])
    BY <1>5, <1>6 DEF WorkOnce
  <2>2. ASSUME NEW v \in WorkerIds, NEW w \in WorkerIds, v # w
        PROVE  UnitsOf(work'[v]) \intersect UnitsOf(work'[w]) = {}
    <3>1. UnitsOf(work[v]) \intersect UnitsOf(work[w]) = {}
      BY <2>2 DEF WorkOnce, Queued
    <3>2. UnitsOf(work'[v]) \in {UnitsOf(work[v]), UnitsOf(work[v]) \union {u}}
      BY <1>7
    <3>3. UnitsOf(work'[w]) \in {UnitsOf(work[w]), UnitsOf(work[w]) \union {u}}
      BY <1>7
    <3>4. ~(v = nextWorker /\ w = nextWorker)
      BY <2>2
    <3> QED BY <1>4, <1>7, <3>1, <3>4
  <2> QED BY <2>1, <2>2 DEF WorkOnce, Queued
<1> QED BY <1>8, <1>9

(* A worker takes a unit from its queue and sends the reply.               *)
LEMMA WorkDone ==
  ASSUME ShapeInv, WorkOnce, ReplyOwn, NEW w \in WorkerIds, Prepare(w)
  PROVE  /\ WorkOnce' /\ ReplyOwn'
         /\ Head(work[w]).unit \in Place["work"]
         /\ Place'["work"] = Place["work"] \ {Head(work[w]).unit}
         /\ Place'["reply"] = Place["reply"] \union {Head(work[w]).unit}
<1> DEFINE u == Head(work[w]).unit
           queue == Tail(work[w])
<1>1. /\ work \in [WorkerIds -> Seq(Tasks)] /\ work[w] # <<>>
      /\ reply \in [Units -> Prepared \union {None}]
  BY DEF ShapeInv, TypeOK, PrepTypes, Prepare
<1>2. work' = [work EXCEPT ![w] = queue]
  BY DEF Prepare
<1>3. /\ Head(work[w]) \in Tasks /\ u \in UnitsOf(work[w])
      /\ UniqueUnits(queue) /\ UnitsOf(queue) = UnitsOf(work[w]) \ {u}
  <2>1. work[w] \in Seq(Tasks) /\ UniqueUnits(work[w])
    BY <1>1 DEF WorkOnce
  <2> QED BY <1>1, <2>1, TailUnits
<1>4. u \in Units /\ Head(work[w]).config \in Configs
  BY <1>3 DEF Tasks
<1>5. PICK result \in PrepResults[u] :
        reply' = [reply EXCEPT ![u] =
                    [unit |-> u, result |-> result, config |-> Head(work[w]).config]]
  BY DEF Prepare
<1>6. [unit |-> u, result |-> result, config |-> Head(work[w]).config] \in Prepared
  BY <1>4 DEF Prepared, PlanAssumption
<1>7. /\ reply'[u] # None /\ reply'[u].unit = u
      /\ \A v \in Units : v # u => reply'[v] = reply[v]
  BY <1>1, <1>4, <1>5, <1>6, NoneAssumption
<1> HIDE DEF u, queue
<1>8. \A v \in WorkerIds : work'[v] = IF v = w THEN queue ELSE work[v]
  BY <1>1, <1>2
<1>9. \A v \in WorkerIds : UnitsOf(work'[v]) = UnitsOf(work[v]) \ {u}
  BY <1>3, <1>8 DEF WorkOnce, Queued
<1>10. WorkOnce'
  BY <1>3, <1>8, <1>9 DEF WorkOnce, Queued
<1>11. u \in Place["work"] /\ Place'["work"] = Place["work"] \ {u}
  <2>1. u \in Place["work"]
    BY <1>3, WorkPlace
  <2>2. ASSUME NEW v \in WorkerIds, NEW x \in UnitsOf(work'[v])
        PROVE  x \in Place["work"] \ {u}
    BY <1>9, <2>2, WorkPlace
  <2>3. ASSUME NEW x \in Place["work"] \ {u}
        PROVE  \E v \in WorkerIds : x \in UnitsOf(work'[v])
    BY <1>9, <2>3, WorkPlace
  <2> QED BY <2>1, <2>2, <2>3, WorkPlace
<1>12. ReplyOwn'
  BY <1>7 DEF ReplyOwn
<1>13. Place'["reply"] = Place["reply"] \union {u}
  BY <1>4, <1>7, Places, PlacesAfter
<1> QED BY <1>10, <1>11, <1>12, <1>13 DEF u

(* The oldest reply awaited is collected.                                  *)
LEMMA Collected ==
  ASSUME ShapeInv, ReplyOwn, Unique(ready), Collect
  PROVE  /\ ReplyOwn' /\ Unique(ready') /\ Elems(ready') = Elems(ready) \ {Head(ready)}
         /\ Len(ready') = Len(ready) - 1
         /\ Head(ready) \in Units /\ Head(ready) \in Place["reply"]
         /\ reply[Head(ready)].unit = Head(ready)
         /\ Place'["reply"] = Place["reply"] \ {Head(ready)}
<1>1. ready \in Seq(Units) /\ ready # <<>> /\ reply \in [Units -> Prepared \union {None}]
  BY DEF ShapeInv, TypeOK, PrepTypes, Collect
<1>2. /\ Head(ready) \in Units /\ Unique(Tail(ready)) /\ Len(Tail(ready)) = Len(ready) - 1
      /\ Elems(Tail(ready)) = Elems(ready) \ {Head(ready)}
  BY <1>1, TailElems
<1>3. /\ reply'[Head(ready)] = None /\ reply[Head(ready)] # None
      /\ \A v \in Units : v # Head(ready) => reply'[v] = reply[v]
  BY <1>1, <1>2 DEF Collect
<1>4. ReplyOwn' /\ Place'["reply"] = Place["reply"] \ {Head(ready)}
  BY <1>3, Places, PlacesAfter DEF ReplyOwn
<1> QED BY <1>2, <1>3, <1>4, Places DEF Collect, ReplyOwn

-----------------------------------------------------------------------------
(* Steps that move no unit *)

Owned ==
  Custody /\ AnsweredOnce /\ RepliesAwaited /\ PermitsUnsent /\ ReplyOwn

(* The runner goes on waiting for the same replies.                        *)
LEMMA AwaitedLeft ==
  ASSUME RepliesAwaited, UNCHANGED <<work, reply, ready>>
  PROVE  RepliesAwaited'
<1>1. Place'["work"] = Place["work"] /\ Place'["reply"] = Place["reply"]
  BY Left
<1> QED BY <1>1 DEF RepliesAwaited, Unique, Elems

(* The slots still hold the same units.                                    *)
LEMMA SlotsLeft ==
  ASSUME Owned, UNCHANGED <<jobs, salts, sent, permits, work, ready, reply, pending, answers>>,
         SlotsOnce', Place'["slots"] = Place["slots"]
  PROVE  Owned'
<1>1. Same(Place, Place', {})
  BY Left DEF Same, PlaceNames
<1>2. Divides(Place, sent)
  BY DEF Owned, Custody
<1>3. Divides(Place', sent')
  BY <1>1, <1>2, SameDivides
<1>4. Custody'
  BY <1>3, Left DEF Owned, Custody, Unique
<1> QED BY <1>4, AwaitedLeft, Left DEF Owned, PermitsUnsent

(* A step that moves no unit keeps who owns what.                          *)
LEMMA Untouched ==
  ASSUME Owned, UNCHANGED <<jobs, salts, sent, permits, work, ready, reply, pending, answers,
                            live>>
  PROVE  Owned'
BY Left, SlotsLeft DEF Owned, Custody

(* Steps of the intake that move no unit.                                  *)
LEMMA IntakeStays ==
  ASSUME Owned, Start \/ StartFails \/ RunnerTop \/ FillDone
  PROVE  Owned'
BY Untouched DEF Start, StartFails, RunnerTop, FillDone, inVars, prepVars, poolVars, outVars

(* Steps of the harvest that move no unit.                                 *)
LEMMA HarvestStays ==
  ASSUME Owned, \/ CommandFailed \/ JudgeGoesOn \/ JudgeFinishes
                \/ ReadMany \/ ReadManyFails \/ Reload
  PROVE  Owned'
BY Untouched DEF CommandFailed, JudgeGoesOn, JudgeFinishes, ReadMany, ReadManyFails, Reload,
   inVars, prepVars, poolVars, outVars

(* Steps of the admission that move no unit.                               *)
LEMMA AdmissionStays ==
  ASSUME Owned, \/ AdmitTop \/ PoolFull \/ NothingReady
                \/ PlaceWaits \/ PlaceFallback \/ PlaceFits
  PROVE  Owned'
BY Untouched DEF AdmitTop, PoolFull, NothingReady, PlaceWaits, PlaceFallback, PlaceFits,
   inVars, prepVars, poolVars, outVars

(* No step between admission and the next turn moves a unit.               *)
LEMMA SteppingStays ==
  ASSUME Owned, Stepping
  PROVE  Owned'
BY Untouched DEF Stepping, Exit, Stay, Unthrottled, Throttled, YieldEnds, CommitStep,
   StepClosed, inVars, prepVars, poolVars, outVars

(* Steps of the shutdown that move no unit.                                *)
LEMMA ShutdownStays ==
  ASSUME Owned, FlushDone \/ DrainReadyDone \/ DrainJobsDone \/ DrainSaltsDone
  PROVE  Owned'
BY Untouched DEF FlushDone, DrainReadyDone, DrainJobsDone, DrainSaltsDone,
   inVars, prepVars, poolVars, outVars

(* Cancelling, stopping, closing, reading and the GPU move no unit.        *)
LEMMA OthersStay ==
  ASSUME Owned, \/ \E u \in Jobs : Cancel(u)
                \/ \E l \in Leases : StopLease(l)
                \/ CloseInput \/ ReadResult \/ CloseOut
                \/ \E p \in Pools : CompleteCommand(p)
                \/ UNCHANGED vars
  PROVE  Owned'
BY Untouched DEF Cancel, StopLease, CloseInput, ReadResult, CloseOut, CompleteCommand, vars,
   inVars, prepVars, poolVars, outVars

(* A reserved place in the channel is for an unsent job.                   *)
LEMMA ReserveStays ==
  ASSUME Owned, NEW u \in Jobs, Reserve(u)
  PROVE  Owned'
<1>1. UNCHANGED <<jobs, salts, sent, work, ready, reply, pending, answers, live>>
  BY DEF Reserve, inVars, prepVars, poolVars, outVars
<1>2. Same(Place, Place', {})
  BY <1>1, Left DEF Same, PlaceNames
<1>3. Custody'
  BY <1>1, <1>2, SameDivides, Left DEF Owned, Custody, Unique
<1>4. PermitsUnsent'
  BY <1>1 DEF Reserve, Owned, PermitsUnsent
<1> QED BY <1>1, <1>3, <1>4, AwaitedLeft, Left DEF Owned

(* The command has advanced the units of the pool in hand where they are.  *)
LEMMA CheckpointsStay ==
  ASSUME ShapeInv, Owned, TakeCheckpoints
  PROVE  Owned'
<1> DEFINE moved == steps[turn] \intersect LiveIn(turn)
<1>1. turn \in Pools /\ live \in [Pools -> [SlotIds -> ResidentJob \union {None}]]
  BY DEF ShapeInv, TypeOK, CtlTypes, PoolTypes
<1>2. UNCHANGED <<jobs, salts, sent, permits, work, ready, reply, pending, answers>>
  BY DEF TakeCheckpoints, inVars, prepVars, outVars
<1>3. CASE cmd[turn] = "idle"
  BY <1>2, <1>3, Untouched DEF TakeCheckpoints
<1>4. CASE cmd[turn] # "idle"
  <2>1. live' = [live EXCEPT ![turn] =
                   [s \in SlotIds |-> IF s \in moved THEN Stepped(s) ELSE live[turn][s]]]
    BY <1>1, <1>4 DEF TakeCheckpoints
  <2>2. \A s \in moved : Stepped(s) \in ResidentJob /\ Stepped(s).unit = live[turn][s].unit
    BY <1>1, LiveUnit DEF Stepped, ResidentJob
  <2>3. \A p \in Pools : \A s \in SlotIds :
           live'[p][s] = IF p = turn /\ s \in moved THEN Stepped(s) ELSE live[p][s]
    BY <1>1, <2>1
  <2> HIDE DEF moved
  <2>4. moved \subseteq LiveIn(turn)
    BY DEF moved
  <2>5. \A p \in Pools : \A s \in SlotIds :
           /\ live'[p][s] # None <=> live[p][s] # None
           /\ s \in LiveIn(p) => live'[p][s].unit = live[p][s].unit
    BY <2>2, <2>3, <2>4, NoneAssumption DEF LiveIn
  <2>6. \A p \in Pools : LiveIn(p)' = LiveIn(p) /\ LiveUnits(p)' = LiveUnits(p)
    BY <2>5 DEF LiveIn, LiveUnits
  <2>7. SlotsOnce'
    BY <2>5, <2>6 DEF Owned, Custody, SlotsOnce, LiveIn
  <2>8. Place'["slots"] = Place["slots"]
    BY <2>6, Places, PlacesAfter DEF Pools
  <2> QED BY <1>2, <2>7, <2>8, SlotsLeft
<1> QED BY <1>3, <1>4

(* New pools replace empty ones.                                           *)
LEMMA RebuildStays ==
  ASSUME ShapeInv, Owned, Rebuild
  PROVE  Owned'
<1>1. UNCHANGED <<jobs, salts, sent, permits, work, ready, reply, pending, answers>>
  BY DEF Rebuild, inVars, prepVars, outVars
<1>2. \A p \in Pools : LiveIn(p)' = {} /\ LiveIn(p) = {}
  BY DEF Rebuild, Empty, LiveIn
<1>3. SlotsOnce'
  BY <1>2 DEF SlotsOnce
<1>4. \A p \in Pools : LiveUnits(p)' = {} /\ LiveUnits(p) = {}
  BY <1>2 DEF LiveUnits
<1>5. Place'["slots"] = Place["slots"]
  BY <1>4, Places, PlacesAfter DEF Pools
<1> QED BY <1>1, <1>3, <1>5, SlotsLeft

-----------------------------------------------------------------------------
(* Steps that move a unit *)

(* A sender puts a new unit into a channel.                                *)
LEMMA SendMoves ==
  ASSUME ShapeInv, Owned, \/ \E v \in Jobs : SendJob(v)
                          \/ \E v \in Salts : SendSalt(v)
  PROVE  Owned'
<1>1. UNCHANGED <<work, ready, reply, pending, answers, live>>
  BY DEF SendJob, SendSalt, prepVars, poolVars, outVars
<1>2. Divides(Place, sent)
  BY DEF Owned, Custody
<1>3. CASE \E v \in Jobs : SendJob(v)
  <2>1. PICK v \in Jobs : SendJob(v)
    BY <1>3
  <2>2. v \notin sent /\ jobs \in Seq(Jobs)
    BY <2>1 DEF SendJob, Owned, PermitsUnsent, ShapeInv, TypeOK, InTypes
  <2>3. v \notin Elems(jobs)
    BY <1>2, <2>2, Apart, Places DEF PlaceNames
  <2>4. Unique(jobs') /\ Elems(jobs') = Elems(jobs) \union {v}
    BY <2>1, <2>2, <2>3, AppendElems DEF SendJob, Owned, Custody
  <2>5. Place'["jobs"] = Place["jobs"] \union {v} /\ Same(Place, Place', {"jobs"})
    BY <1>1, <2>1, <2>4, Left, Places, PlacesAfter DEF Same, PlaceNames, SendJob
  <2>6. Divides(Place', sent')
    BY <1>2, <2>1, <2>2, <2>5, EnterDivides DEF SendJob, PlaceNames
  <2>7. Custody'
    BY <1>1, <2>1, <2>4, <2>6, Left DEF Owned, Custody, SendJob, Unique
  <2>8. PermitsUnsent'
    BY <2>1 DEF SendJob, Owned, PermitsUnsent
  <2> QED BY <1>1, <2>7, <2>8, AwaitedLeft, Left DEF Owned
<1>4. CASE \E v \in Salts : SendSalt(v)
  <2>1. PICK v \in Salts : SendSalt(v)
    BY <1>4
  <2>2. v \notin sent /\ salts \in Seq(Salts)
    BY <2>1 DEF SendSalt, ShapeInv, TypeOK, InTypes
  <2>3. v \notin Elems(salts)
    BY <1>2, <2>2, Apart, Places DEF PlaceNames
  <2>4. Unique(salts') /\ Elems(salts') = Elems(salts) \union {v}
    BY <2>1, <2>2, <2>3, AppendElems DEF SendSalt, Owned, Custody
  <2>5. Place'["salts"] = Place["salts"] \union {v} /\ Same(Place, Place', {"salts"})
    BY <1>1, <2>1, <2>4, Left, Places, PlacesAfter DEF Same, PlaceNames, SendSalt
  <2>6. Divides(Place', sent')
    BY <1>2, <2>1, <2>2, <2>5, EnterDivides DEF SendSalt, PlaceNames
  <2>7. Custody'
    BY <1>1, <2>1, <2>4, <2>6, Left DEF Owned, Custody, SendSalt, Unique
  <2>8. PermitsUnsent'
    BY <2>1 DEF SendSalt, Owned, PermitsUnsent, ShapeInv, TypeOK, InTypes, UnitsAssumption
  <2> QED BY <1>1, <2>7, <2>8, AwaitedLeft, Left DEF Owned
<1> QED BY <1>3, <1>4

(* A submitted unit is awaited with the others.                            *)
LEMMA SubmitAwaited ==
  ASSUME ShapeInv, RepliesAwaited, NEW u \in Units, u \notin Place["work"],
         u \notin Place["reply"], Len(ready) < PrepBound, Submit(u),
         Place'["work"] = Place["work"] \union {u}
  PROVE  RepliesAwaited'
<1>1. ready \in Seq(Units) /\ ready' = Append(ready, u) /\ reply' = reply
  BY DEF ShapeInv, TypeOK, PrepTypes, Submit
<1>2. Elems(ready') = Elems(ready) \union {u} /\ Unique(ready')
  BY <1>1, AppendElems DEF RepliesAwaited
<1>3. Len(ready') <= PrepBound
  BY <1>1 DEF BoundsAssumption
<1> QED BY <1>1, <1>2, <1>3, Left DEF RepliesAwaited

(* A fill moves a unit from a channel to a worker.                         *)
LEMMA FillMoves ==
  ASSUME ShapeInv, Owned, FillJob \/ FillSalt
  PROVE  Owned'
<1>1. UNCHANGED <<permits, sent, reply, pending, answers, live>>
  BY DEF FillJob, FillSalt, Submit, poolVars, outVars
<1>2. Divides(Place, sent)
  BY DEF Owned, Custody
<1>3. CASE FillJob
  <2>1. jobs \in Seq(Jobs) /\ jobs # <<>> /\ Unique(jobs) /\ jobs' = Tail(jobs)
    BY <1>3 DEF FillJob, ShapeInv, TypeOK, InTypes, Owned, Custody
  <2>2. /\ Head(jobs) \in Units /\ Head(jobs) \in Elems(jobs)
        /\ Unique(jobs') /\ Elems(jobs') = Elems(jobs) \ {Head(jobs)}
    BY <2>1, TailElems DEF Units
  <2>3. Head(jobs) \notin Place["work"] /\ Head(jobs) \notin Place["reply"]
    <3>1. Head(jobs) \in Place["jobs"]
      BY <2>2, Places
    <3> QED BY <1>2, <3>1, Apart DEF PlaceNames
  <2>4. WorkOnce' /\ Place'["work"] = Place["work"] \union {Head(jobs)}
    BY <1>3, <2>2, <2>3, Submitted DEF FillJob, Owned, Custody
  <2>5. Same(Place, Place', {"jobs", "work"})
    BY <1>1, <1>3, Left DEF Same, PlaceNames, FillJob
  <2>6. Divides(Place', sent')
    <3>1. Moves(Place, Place', "jobs", "work", Head(jobs))
      BY <2>2, <2>4, <2>5, Places, PlacesAfter DEF Moves, PlaceNames
    <3> QED BY <1>1, <1>2, <3>1, MoveDivides
  <2>7. Custody'
    BY <1>1, <1>3, <2>2, <2>4, <2>6, Left DEF FillJob, Owned, Custody, Unique
  <2>8. RepliesAwaited'
    BY <1>3, <2>2, <2>3, <2>4, SubmitAwaited DEF FillJob, Owned
  <2> QED BY <1>1, <2>7, <2>8, Left DEF Owned, PermitsUnsent
<1>4. CASE FillSalt
  <2>1. salts \in Seq(Salts) /\ salts # <<>> /\ Unique(salts) /\ salts' = Tail(salts)
    BY <1>4 DEF FillSalt, ShapeInv, TypeOK, InTypes, Owned, Custody
  <2>2. /\ Head(salts) \in Units /\ Head(salts) \in Elems(salts)
        /\ Unique(salts') /\ Elems(salts') = Elems(salts) \ {Head(salts)}
    BY <2>1, TailElems DEF Units
  <2>3. Head(salts) \notin Place["work"] /\ Head(salts) \notin Place["reply"]
    <3>1. Head(salts) \in Place["salts"]
      BY <2>2, Places
    <3> QED BY <1>2, <3>1, Apart DEF PlaceNames
  <2>4. WorkOnce' /\ Place'["work"] = Place["work"] \union {Head(salts)}
    BY <1>4, <2>2, <2>3, Submitted DEF FillSalt, Owned, Custody
  <2>5. Same(Place, Place', {"salts", "work"})
    BY <1>1, <1>4, Left DEF Same, PlaceNames, FillSalt
  <2>6. Divides(Place', sent')
    <3>1. Moves(Place, Place', "salts", "work", Head(salts))
      BY <2>2, <2>4, <2>5, Places, PlacesAfter DEF Moves, PlaceNames
    <3> QED BY <1>1, <1>2, <3>1, MoveDivides
  <2>7. Custody'
    BY <1>1, <1>4, <2>2, <2>4, <2>6, Left DEF FillSalt, Owned, Custody, Unique
  <2>8. RepliesAwaited'
    BY <1>4, <2>2, <2>3, <2>4, SubmitAwaited DEF FillSalt, Owned
  <2> QED BY <1>1, <2>7, <2>8, Left DEF Owned, PermitsUnsent
<1> QED BY <1>3, <1>4

(* A worker moves a unit from its queue to its reply.                      *)
LEMMA PrepareMoves ==
  ASSUME ShapeInv, Owned, NEW w \in WorkerIds, Prepare(w)
  PROVE  Owned'
<1> DEFINE u == Head(work[w]).unit
<1>1. UNCHANGED <<jobs, salts, permits, sent, ready, pending, answers, live>>
  BY DEF Prepare, inVars, poolVars, outVars
<1>2. Divides(Place, sent) /\ WorkOnce /\ ReplyOwn
  BY DEF Owned, Custody
<1>3. /\ WorkOnce' /\ ReplyOwn' /\ u \in Place["work"]
      /\ Place'["work"] = Place["work"] \ {u} /\ Place'["reply"] = Place["reply"] \union {u}
  BY <1>2, WorkDone
<1> HIDE DEF u
<1>4. Same(Place, Place', {"work", "reply"})
  BY <1>1, Left DEF Same, PlaceNames
<1>5. Divides(Place', sent')
  <2>1. Moves(Place, Place', "work", "reply", u)
    BY <1>3, <1>4 DEF Moves, PlaceNames
  <2> QED BY <1>1, <1>2, <2>1, MoveDivides
<1>6. Custody'
  BY <1>1, <1>3, <1>5, Left DEF Owned, Custody, Unique
<1>7. RepliesAwaited'
  BY <1>1, <1>3 DEF Owned, RepliesAwaited, Unique, Elems
<1> QED BY <1>1, <1>3, <1>6, <1>7, Left DEF Owned, PermitsUnsent

(* A collected unit is awaited no more.                                    *)
LEMMA CollectAwaited ==
  ASSUME ShapeInv, Owned, Collect, UNCHANGED work
  PROVE  RepliesAwaited'
<1>1. /\ Unique(ready') /\ Elems(ready') = Elems(ready) \ {Head(ready)}
      /\ Len(ready') = Len(ready) - 1 /\ Head(ready) \in Place["reply"]
      /\ Place'["reply"] = Place["reply"] \ {Head(ready)}
  BY Collected DEF Owned, RepliesAwaited
<1>2. Head(ready) \notin Place["work"] /\ Place'["work"] = Place["work"]
  BY <1>1, Left, Apart DEF Owned, Custody, PlaceNames
<1>3. Len(ready') <= PrepBound
  BY <1>1 DEF Owned, RepliesAwaited, ShapeInv, TypeOK, PrepTypes, BoundsAssumption
<1> QED BY <1>1, <1>2, <1>3 DEF Owned, RepliesAwaited

(* Collecting a reply moves its unit into the runner's hand.               *)
LEMMA TakeMoves ==
  ASSUME ShapeInv, Owned, TakePrepared, pending = None
  PROVE  Owned'
<1>1. UNCHANGED <<jobs, salts, permits, sent, work, answers, live>>
  BY DEF TakePrepared, inVars, poolVars, outVars
<1>2. Divides(Place, sent)
  BY DEF Owned, Custody
<1>3. /\ ReplyOwn' /\ Head(ready) \in Units /\ Head(ready) \in Place["reply"]
      /\ reply[Head(ready)].unit = Head(ready)
      /\ Place'["reply"] = Place["reply"] \ {Head(ready)}
  BY Collected DEF TakePrepared, Owned, RepliesAwaited
<1>4. Place'["pending"] = Place["pending"] \union {Head(ready)}
  <2>1. pending' # None /\ pending'.unit = Head(ready)
    BY <1>3 DEF TakePrepared, Collect
  <2> QED BY <1>3, <2>1, Places, PlacesAfter
<1>5. Same(Place, Place', {"reply", "pending"})
  BY <1>1, Left DEF Same, PlaceNames
<1>6. Divides(Place', sent')
  <2>1. Moves(Place, Place', "reply", "pending", Head(ready))
    BY <1>3, <1>4, <1>5 DEF Moves, PlaceNames
  <2> QED BY <1>1, <1>2, <2>1, MoveDivides
<1>7. Custody'
  BY <1>1, <1>6, Left DEF Owned, Custody, Unique
<1> QED BY <1>1, <1>3, <1>7, CollectAwaited, Left DEF TakePrepared, Owned, PermitsUnsent

-----------------------------------------------------------------------------
(* Steps that answer a unit *)

(* Answering a unit that leaves its place is its first and only answer.    *)
LEMMA Settles ==
  ASSUME ShapeInv, Owned, NEW a \in PlaceNames, a # "answers",
         NEW u \in Units, u \in Place[a], NEW outcome \in Outcomes, Answer(u, outcome),
         Place'[a] = Place[a] \ {u}, Same(Place, Place', {a, "answers"}), UNCHANGED sent
  PROVE  Divides(Place', sent') /\ AnsweredOnce'
<1>1. Divides(Place, sent) /\ "answers" \in PlaceNames
  BY DEF Owned, Custody, PlaceNames
<1>2. u \notin Place["answers"]
  BY <1>1, Apart
<1>3. AnsweredOnce' /\ Place'["answers"] = Place["answers"] \union {u}
  BY <1>2, Answered DEF Owned
<1>4. Moves(Place, Place', a, "answers", u)
  BY <1>1, <1>3 DEF Moves
<1> QED BY <1>1, <1>3, <1>4, MoveDivides

(* Freeing a slot and answering its unit settles the unit.                 *)
LEMMA SlotAnswered ==
  ASSUME ShapeInv, Owned, NEW p \in Pools, NEW s \in LiveIn(p), NEW outcome \in Outcomes,
         Free(p, s), Answer(live[p][s].unit, outcome),
         UNCHANGED <<inVars, prepVars, pending, shape, cmd, steps>>
  PROVE  Owned'
<1> DEFINE u == live[p][s].unit
<1>1. UNCHANGED <<jobs, salts, permits, sent, work, ready, reply, pending>>
  BY DEF inVars, prepVars
<1>2. SlotsOnce' /\ Place'["slots"] = Place["slots"] \ {u}
  BY SlotFreed DEF Owned, Custody
<1>3. u \in Units /\ u \in Place["slots"]
  <2>1. u \in LiveUnits(p)
    BY DEF LiveUnits
  <2> QED BY <2>1, LiveUnit, Places DEF Pools
<1> HIDE DEF u
<1>4. Same(Place, Place', {"slots", "answers"})
  BY <1>1, Left DEF Same, PlaceNames
<1>5. Divides(Place', sent') /\ AnsweredOnce'
  BY <1>1, <1>2, <1>3, <1>4, Settles DEF PlaceNames, u
<1>6. Custody'
  BY <1>1, <1>2, <1>5, Left DEF Owned, Custody, Unique
<1> QED BY <1>1, <1>5, <1>6, AwaitedLeft, Left DEF Owned, PermitsUnsent

(* Emptying the runner's hand and answering the unit settles it.           *)
LEMMA PendingAnswered ==
  ASSUME ShapeInv, Owned, pending # None, pending' = None, NEW outcome \in Outcomes,
         Answer(pending.unit, outcome),
         UNCHANGED <<jobs, salts, permits, sent, prepVars, live>>
  PROVE  Owned'
<1> DEFINE u == pending.unit
<1>1. UNCHANGED <<jobs, salts, permits, sent, work, ready, reply, live>>
  BY DEF prepVars
<1>2. /\ u \in Units /\ u \in Place["pending"]
      /\ Place'["pending"] = Place["pending"] \ {u}
  <2>1. u \in Units
    BY DEF ShapeInv, TypeOK, Prepared
  <2> QED BY <2>1, Places, PlacesAfter
<1>3. Same(Place, Place', {"pending", "answers"})
  BY <1>1, Left DEF Same, PlaceNames
<1>4. Divides(Place', sent') /\ AnsweredOnce'
  BY <1>1, <1>2, <1>3, Settles DEF PlaceNames
<1>5. Custody'
  BY <1>1, <1>4, Left DEF Owned, Custody, Unique
<1> QED BY <1>1, <1>4, <1>5, AwaitedLeft, Left DEF Owned, PermitsUnsent

(* Every answer of the harvest frees the slot it comes from.               *)
LEMMA HarvestAnswers ==
  ASSUME ShapeInv, Owned, Sweep \/ JudgeScreensOut \/ ReplyReads
  PROVE  Owned'
<1>0. turn \in Pools
  BY DEF ShapeInv, TypeOK, CtlTypes
<1>1. CASE Sweep /\ cursor \in LiveIn(turn) /\ Abandoned(Unit(cursor))
  BY <1>0, <1>1, SlotAnswered DEF Sweep, Unit, Outcomes
<1>2. CASE Sweep /\ ~(cursor \in LiveIn(turn) /\ Abandoned(Unit(cursor)))
  BY <1>2, Untouched DEF Sweep, inVars, prepVars, outVars
<1>3. CASE JudgeScreensOut
  BY <1>0, <1>3, SlotAnswered DEF JudgeScreensOut, Unit, Outcomes
<1>4. CASE ReplyReads
  <2>1. done \in Seq(SlotIds) /\ done # <<>>
    BY <1>4 DEF ReplyReads, ShapeInv, TypeOK, ScanTypes
  <2>2. Head(done) \in LiveIn(turn)
    BY <2>1 DEF ShapeInv, DoneInv
  <2>3. PICK outcome \in Outcomes : Answer(Unit(Head(done)), outcome)
    BY <1>4 DEF ReplyReads, Outcomes
  <2> QED BY <1>0, <1>4, <2>2, <2>3, SlotAnswered DEF ReplyReads, Unit
<1> QED BY <1>1, <1>2, <1>3, <1>4

(* The flush frees each slot it answers.                                   *)
LEMMA FlushAnswers ==
  ASSUME ShapeInv, Owned, NEW p \in Pools, NEW s \in SlotIds, FlushSlot(p, s)
  PROVE  Owned'
<1>1. PICK outcome \in Outcomes : Answer(live[p][s].unit, outcome)
  BY DEF FlushSlot, Outcomes
<1> QED BY <1>1, SlotAnswered DEF FlushSlot

(* Every answer of the admission empties the runner's hand.                *)
LEMMA AdmissionAnswers ==
  ASSUME ShapeInv, Owned,
         \/ PlaceAbandoned \/ PlaceEmpty \/ PlaceError \/ RebuildFails
         \/ RunFallback \/ FallbackFaults \/ AdmitRefused
  PROVE  Owned'
<1>1. pending # None /\ pending' = None /\ UNCHANGED live
  BY DEF PlaceAbandoned, PlaceEmpty, PlaceError, RebuildFails, RunFallback, FallbackFaults,
         AdmitRefused, AnswerPending, Wanted, At, ShapeInv, HandInv, poolVars
<1>2. PICK outcome \in Outcomes : Answer(pending.unit, outcome)
  BY DEF PlaceAbandoned, PlaceEmpty, PlaceError, RebuildFails, RunFallback, FallbackFaults,
         AdmitRefused, AnswerPending, FallbackAnswer, Outcomes
<1>3. UNCHANGED <<jobs, salts, permits, sent, prepVars>>
  BY DEF PlaceAbandoned, PlaceEmpty, PlaceError, RebuildFails, RunFallback, FallbackFaults,
         AdmitRefused, AnswerPending, inVars
<1> QED BY <1>1, <1>2, <1>3, PendingAnswered

(* Admission moves the unit in hand to a slot that was free.               *)
LEMMA AdmitMoves ==
  ASSUME ShapeInv, Owned, Admit
  PROVE  Owned'
<1>1. UNCHANGED <<jobs, salts, permits, sent, work, ready, reply, answers>>
  BY DEF Admit, inVars, prepVars, outVars
<1>2. turn \in Pools /\ pending # None /\ pending' = None /\ pending \in Prepared
  BY DEF Admit, At, ShapeInv, HandInv, TypeOK, CtlTypes
<1> DEFINE job == [unit |-> pending.unit, pos |-> 0, len |-> AdmittedLen]
           u == pending.unit
<1>3. job \in ResidentJob /\ job.unit = u /\ u \in Units
  BY <1>2 DEF ResidentJob, AdmittedLen, Prepared, ShapeInv, TypeOK, CtlTypes, PlanAssumption
<1>4. PICK s \in SlotIds : FirstFree(s) /\ live' = [live EXCEPT ![turn][s] = job]
  BY DEF Admit
<1> HIDE DEF job
<1>5. u \in Place["pending"] /\ Place'["pending"] = Place["pending"] \ {u}
  BY <1>2, <1>3, Places, PlacesAfter
<1>6. Divides(Place, sent) /\ u \notin Place["slots"]
  <2>1. Divides(Place, sent) /\ "pending" \in PlaceNames /\ "slots" \in PlaceNames
    BY DEF Owned, Custody, PlaceNames
  <2> QED BY <1>5, <2>1, Apart
<1>7. SlotsOnce' /\ Place'["slots"] = Place["slots"] \union {u}
  BY <1>2, <1>3, <1>4, <1>6, SlotFilled DEF FirstFree, Owned, Custody
<1>8. Same(Place, Place', {"pending", "slots"})
  BY <1>1, Left DEF Same, PlaceNames
<1>9. Divides(Place', sent')
  <2>1. Moves(Place, Place', "pending", "slots", u)
    BY <1>5, <1>7, <1>8 DEF Moves, PlaceNames
  <2> QED BY <1>1, <1>6, <2>1, MoveDivides
<1>10. Custody'
  BY <1>1, <1>7, <1>9, Left DEF Owned, Custody, Unique
<1> QED BY <1>1, <1>10, AwaitedLeft, Left DEF Owned, PermitsUnsent

(* A reply collected at shutdown is answered.                              *)
LEMMA DrainReadyAnswers ==
  ASSUME ShapeInv, Owned, DrainReady
  PROVE  Owned'
<1>1. UNCHANGED <<jobs, salts, permits, sent, work, pending, live>>
  BY DEF DrainReady, inVars, poolVars
<1>2. /\ ReplyOwn' /\ Head(ready) \in Units /\ Head(ready) \in Place["reply"]
      /\ Place'["reply"] = Place["reply"] \ {Head(ready)}
  BY Collected DEF DrainReady, Owned, RepliesAwaited
<1>3. Same(Place, Place', {"reply", "answers"})
  BY <1>1, Left DEF Same, PlaceNames
<1>4. PICK outcome \in Outcomes : Answer(Head(ready), outcome)
  BY DEF DrainReady, RejectOrCancel, Outcomes
<1>5. Divides(Place', sent') /\ AnsweredOnce'
  BY <1>1, <1>2, <1>3, <1>4, Settles DEF PlaceNames
<1>6. Custody'
  BY <1>1, <1>5, Left DEF Owned, Custody, Unique
<1> QED BY <1>1, <1>2, <1>5, <1>6, CollectAwaited, Left DEF DrainReady, Owned, PermitsUnsent

(* A unit still in hand at shutdown is answered.                           *)
LEMMA DrainPendingAnswers ==
  ASSUME ShapeInv, Owned, DrainPending
  PROVE  Owned'
<1>1. UNCHANGED <<jobs, salts, permits, sent, prepVars, live>> /\ pending' = None
  BY DEF DrainPending, inVars, poolVars
<1>2. CASE pending = None
  BY <1>1, <1>2, Untouched DEF DrainPending, prepVars, outVars
<1>3. CASE pending # None
  <2>1. PICK outcome \in Outcomes : Answer(pending.unit, outcome)
    BY <1>3 DEF DrainPending, RejectOrCancel, Outcomes
  <2> QED BY <1>1, <1>3, <2>1, PendingAnswered
<1> QED BY <1>2, <1>3

(* A job left in its channel is answered as it is taken out.               *)
LEMMA DrainJobAnswers ==
  ASSUME ShapeInv, Owned, DrainJob
  PROVE  Owned'
<1>1. UNCHANGED <<salts, permits, sent, work, ready, reply, pending, live>>
  BY DEF DrainJob, prepVars, poolVars
<1>2. jobs \in Seq(Jobs) /\ jobs # <<>> /\ Unique(jobs) /\ jobs' = Tail(jobs)
  BY DEF DrainJob, ShapeInv, TypeOK, InTypes, Owned, Custody
<1>3. /\ Head(jobs) \in Units /\ Head(jobs) \in Elems(jobs)
      /\ Unique(jobs') /\ Elems(jobs') = Elems(jobs) \ {Head(jobs)}
  BY <1>2, TailElems DEF Units
<1>4. /\ Head(jobs) \in Place["jobs"] /\ Place'["jobs"] = Place["jobs"] \ {Head(jobs)}
      /\ Same(Place, Place', {"jobs", "answers"})
  BY <1>1, <1>3, Left, Places, PlacesAfter DEF Same, PlaceNames
<1>5. PICK outcome \in Outcomes : Answer(Head(jobs), outcome)
  BY DEF DrainJob, RejectOrCancel, Outcomes
<1>6. Divides(Place', sent') /\ AnsweredOnce'
  BY <1>1, <1>3, <1>4, <1>5, Settles DEF PlaceNames
<1>7. Custody'
  BY <1>1, <1>3, <1>6, Left DEF Owned, Custody, Unique
<1> QED BY <1>1, <1>6, <1>7, AwaitedLeft, Left DEF Owned, PermitsUnsent

(* A salt left in the intake is answered as it is taken out.               *)
LEMMA DrainSaltAnswers ==
  ASSUME ShapeInv, Owned, DrainSalt
  PROVE  Owned'
<1>1. UNCHANGED <<jobs, permits, sent, work, ready, reply, pending, live>>
  BY DEF DrainSalt, prepVars, poolVars
<1>2. salts \in Seq(Salts) /\ salts # <<>> /\ Unique(salts) /\ salts' = Tail(salts)
  BY DEF DrainSalt, ShapeInv, TypeOK, InTypes, Owned, Custody
<1>3. /\ Head(salts) \in Units /\ Head(salts) \in Elems(salts)
      /\ Unique(salts') /\ Elems(salts') = Elems(salts) \ {Head(salts)}
  BY <1>2, TailElems DEF Units
<1>4. /\ Head(salts) \in Place["salts"] /\ Place'["salts"] = Place["salts"] \ {Head(salts)}
      /\ Same(Place, Place', {"salts", "answers"})
  BY <1>1, <1>3, Left, Places, PlacesAfter DEF Same, PlaceNames
<1>5. PICK outcome \in Outcomes : Answer(Head(salts), outcome)
  BY DEF DrainSalt, RejectOrCancel, Outcomes
<1>6. Divides(Place', sent') /\ AnsweredOnce'
  BY <1>1, <1>3, <1>4, <1>5, Settles DEF PlaceNames
<1>7. Custody'
  BY <1>1, <1>3, <1>6, Left DEF Owned, Custody, Unique
<1> QED BY <1>1, <1>6, <1>7, AwaitedLeft, Left DEF Owned, PermitsUnsent

-----------------------------------------------------------------------------
(* The theorems *)

(* Nobody owns a unit at the start.                                        *)
LEMMA InitOwned == Init => Owned
<1> SUFFICES ASSUME Init PROVE Owned
  OBVIOUS
<1>1. /\ Elems(jobs) = {} /\ Elems(salts) = {} /\ Elems(ready) = {}
      /\ Unique(jobs) /\ Unique(salts) /\ Unique(ready)
  BY DEF Init, Elems, Unique
<1>2. \A w \in WorkerIds : UnitsOf(work[w]) = {} /\ UniqueUnits(work[w])
  BY DEF Init, UnitsOf, UniqueUnits
<1>3. \A p \in Pools : LiveIn(p) = {} /\ LiveUnits(p) = {}
  BY DEF Init, LiveIn, LiveUnits
<1>4. Place["work"] = {} /\ WorkOnce
  <2>1. Place["work"] = {}
    BY <1>2, WorkPlace
  <2> QED BY <1>2, <2>1 DEF WorkOnce, Queued
<1>5. Place["slots"] = {} /\ SlotsOnce
  BY <1>3, Places DEF Pools, SlotsOnce
<1>6. Place["reply"] = {} /\ Place["pending"] = {} /\ Place["answers"] = {}
  BY Places DEF Init
<1>7. \A a \in PlaceNames : Place[a] = {}
  BY <1>1, <1>4, <1>5, <1>6, Places DEF PlaceNames
<1>8. Custody
  <2>1. Divides(Place, sent)
    BY <1>7 DEF Init, Divides
  <2> QED BY <1>1, <1>4, <1>5, <2>1 DEF Custody
<1>9. AnsweredOnce /\ ReplyOwn /\ PermitsUnsent
  BY DEF Init, AnsweredOnce, ReplyOwn, PermitsUnsent
<1>10. RepliesAwaited
  <2>1. Len(ready) = 0
    BY DEF Init
  <2> QED BY <1>1, <1>4, <1>6, <2>1 DEF RepliesAwaited, BoundsAssumption
<1> QED BY <1>8, <1>9, <1>10 DEF Owned

(* So ownership is inductive, given the shape of the state.                *)
LEMMA NextOwned == OwnershipInv /\ [Next]_vars => Owned'
<1> SUFFICES ASSUME OwnershipInv, [Next]_vars PROVE Owned'
  OBVIOUS
<1>0. ShapeInv /\ Owned
  BY DEF OwnershipInv, Owned
<1>1. CASE Intake
  BY <1>0, <1>1, IntakeStays, FillMoves DEF Intake
<1>2. CASE Harvest
  BY <1>0, <1>2, HarvestStays, CheckpointsStay, HarvestAnswers DEF Harvest
<1>3. CASE Admission
  <2>1. CASE TakePrepared
    <3>1. pending = None
      BY <1>0, <2>1 DEF TakePrepared, At, ShapeInv, HandInv
    <3> QED BY <1>0, <2>1, <3>1, TakeMoves
  <2> QED BY <1>0, <1>3, <2>1, AdmissionStays, AdmissionAnswers, RebuildStays, AdmitMoves
          DEF Admission
<1>4. CASE Stepping
  BY <1>0, <1>4, SteppingStays
<1>5. CASE Shutdown
  BY <1>0, <1>5, ShutdownStays, FlushAnswers, DrainReadyAnswers, DrainPendingAnswers,
     DrainJobAnswers, DrainSaltAnswers DEF Shutdown
<1>6. CASE Callers
  BY <1>0, <1>6, OthersStay, ReserveStays, SendMoves DEF Callers
<1>7. CASE \E w \in WorkerIds : Prepare(w)
  BY <1>0, <1>7, PrepareMoves
<1>8. CASE (\E p \in Pools : CompleteCommand(p)) \/ Finished \/ UNCHANGED vars
  BY <1>0, <1>8, OthersStay DEF Finished
<1> QED
  BY <1>1, <1>2, <1>3, <1>4, <1>5, <1>6, <1>7, <1>8 DEF Next, Runner

(* The units handed to the channels are always divided among the channels, *)
(* the workers, the runner's hand, the slots and the answers, whatever is  *)
(* cancelled, stopped, closed or fails (answer, Preparation, run).         *)
THEOREM Ownership == Spec => []OwnershipInv
<1>1. Init => OwnershipInv
  BY InitShape, InitOwned DEF OwnershipInv, Owned
<1>2. OwnershipInv /\ [Next]_vars => OwnershipInv'
  BY NextShape, NextOwned DEF OwnershipInv, Owned
<1> QED
  BY <1>1, <1>2, PTL DEF Spec

(* Every unit is in one place, once.                                       *)
THEOREM UnitsInCustody == Spec => []Custody
<1>1. OwnershipInv => Custody
  BY DEF OwnershipInv
<1> QED
  BY <1>1, Ownership, PTL

(* No unit is answered twice.                                              *)
THEOREM OneAnswer == Spec => []AnsweredOnce
<1>1. OwnershipInv => AnsweredOnce
  BY DEF OwnershipInv
<1> QED
  BY <1>1, Ownership, PTL

(* The runner waits for exactly the replies it is owed.                    *)
THEOREM ReplyOwed == Spec => []RepliesAwaited
<1>1. OwnershipInv => RepliesAwaited
  BY DEF OwnershipInv
<1> QED
  BY <1>1, Ownership, PTL

-----------------------------------------------------------------------------
(* Proofs about the slot pools of Resident: the host works on a pool only  *)
(* while its command buffer is idle, the GPU keeps the slots of a command  *)
(* in flight, and what is resident can be stepped to its end.              *)
(*                                                                         *)
(* The inductive invariant says what is true of both pools wherever the    *)
(* runner is, not only where it touches them: a pool with a command is not *)
(* empty, the pool in hand is idle from its harvest to its next command,   *)
(* and a slot that has reached its end is one the harvest still has to     *)
(* read back.                                                              *)

(* Between the harvest of the pool in hand and its next command.           *)
InHand == {"sweep", "judge", "read", "reply", "admit", "refill", "next", "place", "slot",
           "fallback", "exit", "throttle", "yield", "step"}

(* Where the commands of the pools are.                                    *)
CommandInv ==
  /\ pc \in InHand => cmd[turn] = "idle"
  /\ \A p \in Pools : cmd[p] # "idle" /\ ~ShuttingDown =>
                        LiveIn(p) # {} /\ steps[p] = LiveIn(p)
  /\ \A p \in Pools : cmd[p] = "running" => steps[p] = LiveIn(p)
  /\ shape = None => Empty /\ \A p \in Pools : cmd[p] = "idle"
  /\ At("fallback") => Empty

(* Resident units, and the one about to be, fit the pools.                 *)
FitInv ==
  /\ SlotsFitPools
  /\ At("slot") => shape # None /\ shape.of = ShapeOf[pending.unit]

(* A slot of the pool in hand that the harvest will read back or free.     *)
ToRead(s) ==
  \/ At("sweep") /\ marks[s] = "last"
  \/ At("judge") /\ (IF s < cursor THEN s \in Elems(done) ELSE marks[s] = "last")
  \/ pc \in {"read", "reply"} /\ s \in Elems(done)

ProgressInv ==
  ~ShuttingDown =>
     \A p \in Pools : \A s \in LiveIn(p) :
        \/ live[p][s].pos < live[p][s].len
        \/ p = turn /\ live[p][s].pos = live[p][s].len /\ ToRead(s)

PoolInv == CommandInv /\ FitInv /\ ProgressInv

-----------------------------------------------------------------------------
(* Commands *)

(* A move of the runner that leaves the pools alone.                       *)
LEMMA CommandKept ==
  ASSUME CommandInv, UNCHANGED <<poolVars, turn>>,
         pc' \in InHand => pc \in InHand \/ shape = None,
         ShuttingDown => ShuttingDown',
         At("fallback")' => At("fallback") \/ Empty,
         turn \in Pools
  PROVE  CommandInv'
<1>1. UNCHANGED <<shape, live, cmd, steps, turn>>
  BY DEF poolVars
<1>2. (\A p \in Pools : LiveIn(p)' = LiveIn(p)) /\ Empty' = Empty
  BY <1>1 DEF LiveIn, Empty
<1> QED BY <1>1, <1>2 DEF CommandInv, At

(* A slot of an idle pool is freed or filled.                              *)
LEMMA CommandIdle ==
  ASSUME CommandInv, turn \in Pools, cmd[turn] = "idle", UNCHANGED <<shape, cmd, steps, turn>>,
         \A q \in Pools : q # turn => LiveIn(q)' = LiveIn(q),
         Empty => Empty' \/ shape # None,
         pc' \in InHand, pc \in InHand, ~At("fallback")'
  PROVE  CommandInv'
<1>1. ~ShuttingDown
  BY DEF ShuttingDown, InHand
<1>2. shape = None => Empty'
  BY DEF CommandInv, Empty
<1> QED BY <1>1, <1>2 DEF CommandInv, At

(* Freeing a slot leaves the other pool alone.                             *)
LEMMA FreeLeaves ==
  ASSUME ShapeInv, NEW p \in Pools, NEW s, Free(p, s)
  PROVE  /\ \A q \in Pools : q # p => LiveIn(q)' = LiveIn(q) /\ live'[q] = live[q]
         /\ LiveIn(p)' = LiveIn(p) \ {s}
         /\ \A t \in SlotIds : t # s => live'[p][t] = live[p][t]
<1>1. live \in [Pools -> [SlotIds -> ResidentJob \union {None}]]
  BY DEF ShapeInv, TypeOK, PoolTypes
<1>2. \A q \in Pools : q # p => live'[q] = live[q]
  BY <1>1 DEF Free
<1>3. \A t \in SlotIds : live'[p][t] = IF t = s THEN None ELSE live[p][t]
  BY <1>1 DEF Free
<1> QED BY <1>2, <1>3 DEF LiveIn

(* The checkpoints of a command keep the same slots occupied.              *)
LEMMA CheckpointsLive ==
  ASSUME ShapeInv, TakeCheckpoints
  PROVE  /\ \A p \in Pools : LiveIn(p)' = LiveIn(p)
         /\ \A p \in Pools : p # turn => live'[p] = live[p]
         /\ cmd[turn] = "idle" => live' = live /\ marks' = marks
         /\ cmd[turn] # "idle" =>
              \A s \in LiveIn(turn) :
                 live'[turn][s] = IF s \in steps[turn] THEN Stepped(s) ELSE live[turn][s]
         /\ \A s \in LiveIn(turn) : /\ live'[turn][s].len = live[turn][s].len
                                    /\ live'[turn][s].unit = live[turn][s].unit
<1> DEFINE moved == steps[turn] \intersect LiveIn(turn)
<1>1. turn \in Pools /\ live \in [Pools -> [SlotIds -> ResidentJob \union {None}]]
  BY DEF ShapeInv, TypeOK, CtlTypes, PoolTypes
<1>2. CASE cmd[turn] = "idle"
  BY <1>2 DEF TakeCheckpoints, LiveIn
<1>3. CASE cmd[turn] # "idle"
  <2>1. live' = [live EXCEPT ![turn] =
                   [s \in SlotIds |-> IF s \in moved THEN Stepped(s) ELSE live[turn][s]]]
    BY <1>1, <1>3 DEF TakeCheckpoints
  <2>2. \A s \in LiveIn(turn) : /\ Stepped(s) \in ResidentJob
                                /\ Stepped(s).unit = live[turn][s].unit
                                /\ Stepped(s).len = live[turn][s].len
    BY <1>1, LiveUnit DEF Stepped, ResidentJob
  <2>3. \A p \in Pools : p # turn => live'[p] = live[p]
    BY <1>1, <2>1
  <2>4. \A s \in SlotIds :
           live'[turn][s] = IF s \in moved THEN Stepped(s) ELSE live[turn][s]
    BY <1>1, <2>1
  <2>5. \A p \in Pools : LiveIn(p)' = LiveIn(p)
    BY <2>2, <2>3, <2>4, NoneAssumption DEF LiveIn
  <2> QED BY <1>3, <2>2, <2>3, <2>4, <2>5 DEF LiveIn
<1> QED BY <1>2, <1>3

(* The harvest works on the pool in hand after its command has ended.      *)
LEMMA HarvestCommands ==
  ASSUME ShapeInv, CommandInv, Harvest
  PROVE  CommandInv'
<1> USE DEF At, Goto
<1>0. turn \in Pools /\ cmd \in [Pools -> {"idle", "running", "completed", "error"}]
  BY DEF ShapeInv, TypeOK, CtlTypes, PoolTypes
<1>1. CASE TakeCheckpoints
  <2>1. \A p \in Pools : LiveIn(p)' = LiveIn(p)
    BY <1>1, CheckpointsLive
  <2>2. /\ cmd' = [cmd EXCEPT ![turn] = "idle"] /\ pc = "harvest" /\ pc' = "sweep"
        /\ UNCHANGED <<shape, steps, turn>>
    BY <1>1 DEF TakeCheckpoints, ctlVars
  <2>3. Empty' = Empty /\ ~ShuttingDown
    BY <2>1, <2>2 DEF Empty, ShuttingDown
  <2> QED BY <1>0, <2>1, <2>2, <2>3 DEF CommandInv, InHand
<1>2. CASE CommandFailed
  <2>1. /\ cmd' = [cmd EXCEPT ![turn] = "idle"] /\ pc' = "flush"
        /\ UNCHANGED <<shape, live, steps, turn>> /\ pc = "harvest"
    BY <1>2 DEF CommandFailed
  <2>2. (\A p \in Pools : LiveIn(p)' = LiveIn(p)) /\ ShuttingDown' /\ ~ShuttingDown
    BY <2>1 DEF LiveIn, ShuttingDown
  <2>3. Empty' = Empty
    BY <2>2 DEF Empty
  <2> QED BY <1>0, <2>1, <2>2, <2>3 DEF CommandInv, InHand
<1>3. CASE Sweep \/ JudgeScreensOut \/ ReplyReads
  <2>1. /\ pc \in {"sweep", "judge", "reply"} /\ pc' \in {"sweep", "judge", "read", "reply"}
        /\ UNCHANGED <<shape, cmd, steps, turn>>
    BY <1>3 DEF Sweep, JudgeScreensOut, ReplyReads, NextSlot, ctlVars
  <2>2. \/ UNCHANGED live
        \/ \E s \in SlotIds : Free(turn, s)
    <3>1. CASE Sweep
      BY <1>0, <3>1 DEF Sweep, LiveIn
    <3>2. CASE JudgeScreensOut
      BY <1>0, <3>2 DEF JudgeScreensOut, LiveIn
    <3>3. CASE ReplyReads
      <4>1. done \in Seq(SlotIds) /\ done # <<>>
        BY <3>3 DEF ReplyReads, ShapeInv, TypeOK, ScanTypes
      <4> QED BY <3>3, <4>1 DEF ReplyReads
    <3> QED BY <1>3, <3>1, <3>2, <3>3
  <2>3. /\ \A q \in Pools : q # turn => LiveIn(q)' = LiveIn(q)
        /\ Empty => Empty'
    <3>1. CASE UNCHANGED live
      BY <3>1 DEF LiveIn, Empty
    <3>2. CASE \E s \in SlotIds : Free(turn, s)
      <4>1. PICK s \in SlotIds : Free(turn, s)
        BY <3>2
      <4>2. PICK p \in Pools : p = turn
        BY <1>0
      <4>3. /\ \A q \in Pools : q # p => LiveIn(q)' = LiveIn(q)
            /\ LiveIn(p)' = LiveIn(p) \ {s}
        BY <4>1, <4>2, FreeLeaves
      <4> QED BY <4>2, <4>3 DEF Empty
    <3> QED BY <2>2, <3>1, <3>2
  <2>4. cmd[turn] = "idle" /\ pc \in InHand /\ pc' \in InHand /\ ~At("fallback")'
    BY <2>1 DEF CommandInv, InHand
  <2> QED BY <1>0, <2>1, <2>3, <2>4, CommandIdle
<1>4. CASE \/ JudgeGoesOn \/ JudgeFinishes \/ ReadMany \/ ReadManyFails \/ Reload
  BY <1>0, <1>4, CommandKept
     DEF JudgeGoesOn, JudgeFinishes, ReadMany, ReadManyFails, Reload, NextSlot, InHand,
         ShuttingDown, ctlVars
<1> QED BY <1>1, <1>2, <1>3, <1>4 DEF Harvest

(* Units are admitted to the pool in hand, and pools rebuilt when empty.   *)
LEMMA AdmissionCommands ==
  ASSUME ShapeInv, CommandInv, FitInv, Admission
  PROVE  CommandInv'
<1> USE DEF At, Goto
<1>0. turn \in Pools /\ cmd \in [Pools -> {"idle", "running", "completed", "error"}]
  BY DEF ShapeInv, TypeOK, CtlTypes, PoolTypes
<1>1. CASE Rebuild
  <2>1. /\ \A p \in Pools : LiveIn(p)' = {} /\ cmd'[p] = "idle" /\ cmd'[p] # "running"
        /\ pc' = "slot" /\ turn' = turn
    BY <1>1 DEF Rebuild, LiveIn, ctlVars
  <2> QED BY <1>0, <2>1 DEF CommandInv, Empty
<1>2. CASE Admit
  <2>1. /\ pc = "slot" /\ pc' = "admit" /\ UNCHANGED <<shape, cmd, steps, turn>>
        /\ cmd[turn] = "idle"
    BY <1>2 DEF Admit, CanHold, ctlVars
  <2>2. shape # None
    BY <2>1 DEF FitInv
  <2>3. \A q \in Pools : q # turn => LiveIn(q)' = LiveIn(q)
    <3>1. \A q \in Pools : q # turn => live'[q] = live[q]
      BY <1>0, <1>2 DEF Admit, ShapeInv, TypeOK, PoolTypes
    <3> QED BY <3>1 DEF LiveIn
  <2> QED BY <1>0, <2>1, <2>2, <2>3, CommandIdle DEF InHand
<1>3. CASE \/ AdmitTop \/ PoolFull \/ NothingReady \/ TakePrepared
           \/ PlaceAbandoned \/ PlaceEmpty \/ PlaceError \/ PlaceWaits \/ PlaceFallback
           \/ PlaceFits \/ RebuildFails \/ RunFallback \/ FallbackFaults \/ AdmitRefused
  <2>1. UNCHANGED <<poolVars, turn>> /\ ~ShuttingDown /\ pc \in InHand
    BY <1>3 DEF AdmitTop, PoolFull, NothingReady, TakePrepared, PlaceAbandoned, PlaceEmpty,
       PlaceError, PlaceWaits, PlaceFallback, PlaceFits, RebuildFails, RunFallback,
       FallbackFaults, AdmitRefused, AnswerPending, Wanted, ctlVars, InHand, ShuttingDown
  <2>2. At("fallback")' => Empty
    BY <1>3 DEF AdmitTop, PoolFull, NothingReady, TakePrepared, PlaceAbandoned, PlaceEmpty,
       PlaceError, PlaceWaits, PlaceFallback, PlaceFits, RebuildFails, RunFallback,
       FallbackFaults, AdmitRefused, AnswerPending
  <2> QED BY <1>0, <2>1, <2>2, CommandKept
<1> QED BY <1>1, <1>2, <1>3 DEF Admission

(* A command is committed to an idle pool with all its live slots.         *)
LEMMA SteppingCommands ==
  ASSUME ShapeInv, CommandInv, Stepping
  PROVE  CommandInv'
<1> USE DEF At, Goto
<1>0. /\ turn \in Pools /\ cmd \in [Pools -> {"idle", "running", "completed", "error"}]
      /\ steps \in [Pools -> SUBSET SlotIds]
  BY DEF ShapeInv, TypeOK, CtlTypes, PoolTypes
<1>1. CASE CommitStep
  <2>1. /\ pc = "step" /\ pc' = "top" /\ UNCHANGED <<shape, live>>
        /\ cmd[turn] = "idle"
    BY <1>1 DEF CommitStep, CommandInv, InHand
  <2>2. (\A p \in Pools : LiveIn(p)' = LiveIn(p)) /\ Empty' = Empty /\ ~ShuttingDown
    BY <2>1 DEF LiveIn, Empty, ShuttingDown
  <2>3. \A p \in Pools : \/ cmd'[p] = cmd[p] /\ steps'[p] = steps[p]
                         \/ LiveIn(p) # {} /\ steps'[p] = LiveIn(p)
    BY <1>0, <1>1 DEF CommitStep
  <2>4. shape = None => \A p \in Pools : cmd'[p] = "idle"
    BY <1>0, <1>1 DEF CommitStep, CommandInv, Empty
  <2> QED BY <1>0, <2>1, <2>2, <2>3, <2>4 DEF CommandInv, InHand
<1>2. CASE Stay
  <2>1. pc = "exit" /\ UNCHANGED <<shape, live, cmd, steps>> /\ pc' \in {"top", "throttle"}
    BY <1>2 DEF Stay, poolVars
  <2>2. (\A p \in Pools : LiveIn(p)' = LiveIn(p)) /\ Empty' = Empty /\ ~ShuttingDown
    BY <2>1 DEF LiveIn, Empty, ShuttingDown
  <2>3. pc' \in InHand => turn' = turn
    BY <1>2 DEF Stay, InHand
  <2> QED BY <2>1, <2>2, <2>3 DEF CommandInv, InHand
<1>3. CASE Exit \/ Unthrottled \/ Throttled \/ YieldEnds \/ StepClosed
  BY <1>0, <1>3, CommandKept DEF Exit, Unthrottled, Throttled, YieldEnds, StepClosed, InHand,
                                 ShuttingDown, ctlVars
<1> QED BY <1>1, <1>2, <1>3 DEF Stepping

(* A pool is flushed when its command has come to rest.                    *)
LEMMA ShutdownCommands ==
  ASSUME ShapeInv, CommandInv, Shutdown
  PROVE  CommandInv'
<1> USE DEF At, Goto
<1>0. turn \in Pools
  BY DEF ShapeInv, TypeOK, CtlTypes
<1>1. CASE \E p \in Pools, s \in SlotIds : FlushSlot(p, s)
  <2>1. PICK p \in Pools, s \in SlotIds : FlushSlot(p, s)
    BY <1>1
  <2>2. /\ pc = "flush" /\ UNCHANGED <<pc, shape, cmd, steps, turn>>
        /\ cmd[p] # "running" /\ Free(p, s) /\ s \in LiveIn(p)
    BY <2>1 DEF FlushSlot, ctlVars, Pools
  <2>3. /\ \A q \in Pools : q # p => LiveIn(q)' = LiveIn(q)
        /\ LiveIn(p)' \subseteq LiveIn(p)
    BY <2>2, FreeLeaves
  <2>4. ShuttingDown' /\ pc' \notin InHand /\ shape # None
    BY <2>2 DEF ShuttingDown, InHand, CommandInv, Empty
  <2> QED BY <2>2, <2>3, <2>4 DEF CommandInv
<1>2. CASE \/ FlushDone \/ DrainReady \/ DrainReadyDone \/ DrainPending
           \/ DrainJob \/ DrainJobsDone \/ DrainSalt \/ DrainSaltsDone
  <2>1. UNCHANGED <<poolVars, turn>> /\ ShuttingDown' /\ pc' \notin InHand
    BY <1>2 DEF FlushDone, DrainReady, DrainReadyDone, DrainPending, DrainJob, DrainJobsDone,
                DrainSalt, DrainSaltsDone, ShuttingDown, InHand, ctlVars
  <2> QED BY <1>0, <2>1, CommandKept DEF InHand
<1> QED BY <1>1, <1>2 DEF Shutdown

(* Neither the intake nor anybody outside the runner touches the slots.    *)
LEMMA OtherCommands ==
  ASSUME ShapeInv, CommandInv,
         \/ Intake \/ Callers \/ (\E w \in WorkerIds : Prepare(w))
         \/ (\E p \in Pools : CompleteCommand(p)) \/ UNCHANGED vars
  PROVE  CommandInv'
<1> USE DEF At, Goto
<1>0. turn \in Pools /\ cmd \in [Pools -> {"idle", "running", "completed", "error"}]
  BY DEF ShapeInv, TypeOK, CtlTypes, PoolTypes
<1>1. CASE Intake
  <2>1. /\ UNCHANGED <<poolVars, turn>> /\ ~ShuttingDown
        /\ pc' \in InHand => pc \in InHand \/ shape = None
        /\ pc' # "fallback"
    BY <1>1 DEF Intake, Start, StartFails, RunnerTop, FillJob, FillSalt, FillDone, Filling,
                InHand, ShuttingDown, ctlVars
  <2> QED BY <1>0, <2>1, CommandKept
<1>2. CASE \/ Callers \/ (\E w \in WorkerIds : Prepare(w)) \/ UNCHANGED vars
  <2>1. UNCHANGED <<poolVars, turn, pc>>
    BY <1>2 DEF Callers, Reserve, SendJob, Cancel, SendSalt, StopLease, CloseInput,
                ReadResult, CloseOut, Prepare, vars, ctlVars
  <2> QED BY <1>0, <2>1, CommandKept DEF ShuttingDown
<1>3. CASE \E p \in Pools : CompleteCommand(p)
  <2>1. PICK p \in Pools : CompleteCommand(p)
    BY <1>3
  <2>2. /\ UNCHANGED <<pc, shape, live, steps, turn>> /\ cmd[p] = "running"
        /\ cmd'[p] \in {"completed", "error"}
        /\ \A q \in Pools : q # p => cmd'[q] = cmd[q]
    BY <1>0, <2>1 DEF CompleteCommand, ctlVars
  <2>3. /\ (\A q \in Pools : LiveIn(q)' = LiveIn(q)) /\ Empty' = Empty
        /\ ShuttingDown' = ShuttingDown
    BY <2>2 DEF LiveIn, Empty, ShuttingDown
  <2>4. pc \in InHand => p # turn
    BY <2>2 DEF CommandInv
  <2> QED BY <1>0, <2>2, <2>3, <2>4 DEF CommandInv
<1> QED BY <1>1, <1>2, <1>3

-----------------------------------------------------------------------------
(* Shapes *)

(* Units stay in the pools they fit.                                       *)
LEMMA FitKept ==
  ASSUME FitInv, shape' = shape,
         \A p \in Pools : \A s \in LiveIn(p)' :
            s \in LiveIn(p) /\ live'[p][s].unit = live[p][s].unit
                            /\ live'[p][s].len = live[p][s].len,
         At("slot")' => At("slot") /\ pending' = pending
  PROVE  FitInv'
BY DEF FitInv, SlotsFitPools, At

(* A slot keeps its unit, or loses it.                                     *)
LEMMA FitFreed ==
  ASSUME ShapeInv, FitInv, shape' = shape, At("slot")' => At("slot") /\ pending' = pending,
         UNCHANGED live \/ \E p \in Pools, s \in SlotIds : Free(p, s)
  PROVE  FitInv'
<1>1. CASE UNCHANGED live
  BY <1>1, FitKept DEF LiveIn
<1>2. CASE \E p \in Pools, s \in SlotIds : Free(p, s)
  <2>1. PICK p \in Pools, s \in SlotIds : Free(p, s)
    BY <1>2
  <2>2. /\ \A q \in Pools : q # p => LiveIn(q)' = LiveIn(q) /\ live'[q] = live[q]
        /\ LiveIn(p)' = LiveIn(p) \ {s}
        /\ \A t \in SlotIds : t # s => live'[p][t] = live[p][t]
    BY <2>1, FreeLeaves
  <2>3. \A q \in Pools : \A t \in LiveIn(q)' : t \in LiveIn(q) /\ live'[q][t] = live[q][t]
    BY <2>2 DEF LiveIn
  <2> QED BY <2>3, FitKept
<1> QED BY <1>1, <1>2

(* The runner's hand and the slots go on fitting the pools.                *)
LEMMA RunnerFits ==
  ASSUME ShapeInv, FitInv, Harvest \/ Admission
  PROVE  FitInv'
<1> USE DEF At, Goto
<1>0. turn \in Pools /\ live \in [Pools -> [SlotIds -> ResidentJob \union {None}]]
  BY DEF ShapeInv, TypeOK, CtlTypes, PoolTypes
<1>1. CASE TakeCheckpoints
  <2>1. /\ \A p \in Pools : LiveIn(p)' = LiveIn(p)
        /\ \A p \in Pools : p # turn => live'[p] = live[p]
        /\ \A s \in LiveIn(turn) : /\ live'[turn][s].len = live[turn][s].len
                                   /\ live'[turn][s].unit = live[turn][s].unit
    BY <1>1, CheckpointsLive
  <2>2. shape' = shape /\ pc' = "sweep"
    BY <1>1 DEF TakeCheckpoints
  <2> QED BY <2>1, <2>2, FitKept
<1>2. CASE Sweep \/ JudgeScreensOut \/ ReplyReads
  <2>1. shape' = shape /\ pc' # "slot"
    BY <1>2 DEF Sweep, JudgeScreensOut, ReplyReads, NextSlot
  <2>2. UNCHANGED live \/ \E s \in SlotIds : Free(turn, s)
    <3>1. CASE Sweep
      BY <1>0, <3>1 DEF Sweep, LiveIn
    <3>2. CASE JudgeScreensOut
      BY <1>0, <3>2 DEF JudgeScreensOut, LiveIn
    <3>3. CASE ReplyReads
      <4>1. done \in Seq(SlotIds) /\ done # <<>>
        BY <3>3 DEF ReplyReads, ShapeInv, TypeOK, ScanTypes
      <4> QED BY <3>3, <4>1 DEF ReplyReads
    <3> QED BY <1>2, <3>1, <3>2, <3>3
  <2> QED BY <1>0, <2>1, <2>2, FitFreed
<1>3. CASE \/ CommandFailed \/ JudgeGoesOn \/ JudgeFinishes \/ ReadMany \/ ReadManyFails
           \/ Reload
  BY <1>3, FitFreed DEF CommandFailed, JudgeGoesOn, JudgeFinishes, ReadMany, ReadManyFails,
                         Reload, NextSlot, poolVars
<1>4. CASE \/ AdmitTop \/ PoolFull \/ NothingReady \/ TakePrepared \/ PlaceAbandoned
           \/ PlaceEmpty \/ PlaceError \/ PlaceWaits \/ PlaceFallback \/ RebuildFails
           \/ RunFallback \/ FallbackFaults \/ AdmitRefused
  BY <1>4, FitFreed DEF AdmitTop, PoolFull, NothingReady, TakePrepared, PlaceAbandoned,
     PlaceEmpty, PlaceError, PlaceWaits, PlaceFallback, RebuildFails, RunFallback,
     FallbackFaults, AdmitRefused, AnswerPending, poolVars
<1>5. CASE PlaceFits
  BY <1>5 DEF PlaceFits, Fits, FitInv, SlotsFitPools, LiveIn, poolVars
<1>6. CASE Rebuild
  <2>1. \A p \in Pools : LiveIn(p)' = {}
    BY <1>6 DEF Rebuild, LiveIn
  <2>2. shape' # None
    <3>1. pending \in Prepared
      BY <1>6 DEF Rebuild, Wanted, ShapeInv, HandInv, TypeOK
    <3>2. PreparedLen \in Nat
      BY <3>1 DEF PreparedLen, Prepared, PlanAssumption
    <3>3. shape' \in PoolShape
      BY <1>6, <3>1, <3>2 DEF Rebuild, PoolShape, Prepared
    <3> QED BY <3>3, NoneAssumption
  <2> QED BY <1>6, <2>1, <2>2 DEF Rebuild, FitInv, SlotsFitPools
<1>7. CASE Admit
  <2>1. pending \in Prepared /\ AdmittedLen \in Nat
    BY <1>7 DEF Admit, AdmittedLen, ShapeInv, HandInv, TypeOK, CtlTypes, Prepared,
                PlanAssumption
  <2> DEFINE job == [unit |-> pending.unit, pos |-> 0, len |-> AdmittedLen]
  <2>2. job \in ResidentJob /\ job.unit = pending.unit /\ job.len = AdmittedLen
    BY <2>1 DEF Prepared, ResidentJob
  <2>3. PICK s \in SlotIds : live' = [live EXCEPT ![turn][s] = job]
    BY <1>7 DEF Admit
  <2> HIDE DEF job
  <2>4. \A p \in Pools : \A t \in SlotIds :
           live'[p][t] = IF p = turn /\ t = s THEN job ELSE live[p][t]
    BY <1>0, <2>3
  <2>5. \A p \in Pools : \A t \in LiveIn(p)' : t \in LiveIn(p) \/ live'[p][t] = job
    BY <2>4 DEF LiveIn
  <2>6. /\ shape # None /\ shape.of = ShapeOf[job.unit] /\ job.len <= shape.stride
        /\ shape' = shape /\ pc' = "admit"
    BY <1>7, <2>2 DEF Admit, FitInv, CanHold
  <2>7. SlotsFitPools'
    BY <2>4, <2>5, <2>6 DEF FitInv, SlotsFitPools, LiveIn
  <2> QED BY <2>6, <2>7 DEF FitInv
<1> QED BY <1>1, <1>2, <1>3, <1>4, <1>5, <1>6, <1>7 DEF Harvest, Admission

-----------------------------------------------------------------------------
(* Progress of the slots *)

(* Every resident unit has schedule left.                                  *)
Unfinished == \A p \in Pools : \A s \in LiveIn(p) : live[p][s].pos < live[p][s].len

Harvesting == {"sweep", "judge", "read", "reply"}

(* Outside the harvest every resident unit has schedule left.              *)
LEMMA OutsideHarvest ==
  /\ ProgressInv /\ ~ShuttingDown /\ pc \notin Harvesting => Unfinished
  /\ Unfinished => ProgressInv
  /\ ShuttingDown => ProgressInv
BY DEF ProgressInv, Unfinished, Harvesting, ToRead, At

(* The same after a step.                                                  *)
LEMMA OutsideHarvestAfter ==
  /\ Unfinished' => ProgressInv'
  /\ ShuttingDown' => ProgressInv'
BY DEF ProgressInv, Unfinished

(* Steps outside the harvest that leave the slots alone.                   *)
LEMMA ProgressKept ==
  ASSUME ProgressInv, live' = live, ShuttingDown => ShuttingDown', pc \notin Harvesting
  PROVE  ProgressInv'
<1>1. CASE ShuttingDown
  BY <1>1, OutsideHarvestAfter
<1>2. CASE ~ShuttingDown
  BY <1>2, OutsideHarvest, OutsideHarvestAfter DEF Unfinished, LiveIn
<1> QED BY <1>1, <1>2

(* Steps of the harvest that free at most one slot keep what is still to   *)
(* be read back.                                                           *)
LEMMA ProgressFreed ==
  ASSUME ShapeInv, ProgressInv, ~ShuttingDown, turn' = turn,
         UNCHANGED live \/ \E s \in SlotIds : Free(turn, s),
         \A t \in LiveIn(turn)' : ToRead(t) => ToRead(t)'
  PROVE  ProgressInv'
<1>0. turn \in Pools
  BY DEF ShapeInv, TypeOK, CtlTypes
<1>1. CASE UNCHANGED live
  <2>1. \A p \in Pools : LiveIn(p)' = LiveIn(p)
    BY <1>1 DEF LiveIn
  <2>2. LiveIn(turn)' = LiveIn(turn)
    BY <1>1 DEF LiveIn
  <2> QED BY <1>1, <2>1, <2>2 DEF ProgressInv
<1>2. CASE \E s \in SlotIds : Free(turn, s)
  <2>1. PICK p \in Pools : p = turn
    BY <1>0
  <2>2. PICK s \in SlotIds : Free(p, s)
    BY <1>2, <2>1
  <2>3. /\ \A q \in Pools : q # p => LiveIn(q)' = LiveIn(q) /\ live'[q] = live[q]
        /\ LiveIn(p)' = LiveIn(p) \ {s}
        /\ \A t \in SlotIds : t # s => live'[p][t] = live[p][t]
    BY <2>2, FreeLeaves
  <2>4. LiveIn(turn)' = LiveIn(p)'
    BY <2>1 DEF LiveIn
  <2>5. \A q \in Pools : \A t \in LiveIn(q)' :
           /\ t \in LiveIn(q) /\ live'[q][t] = live[q][t]
           /\ q = turn => t \in LiveIn(turn)'
    BY <2>1, <2>3, <2>4 DEF LiveIn
  <2> QED BY <2>5 DEF ProgressInv
<1> QED BY <1>1, <1>2

(* A checkpoint at the end of its schedule is marked as the last one.      *)
LEMMA CheckpointsMarked ==
  ASSUME ShapeInv, ProgressInv, TakeCheckpoints
  PROVE  ProgressInv'
<1>0. /\ turn \in Pools /\ live \in [Pools -> [SlotIds -> ResidentJob \union {None}]]
      /\ pc = "harvest" /\ pc' = "sweep" /\ turn' = turn
  BY DEF ShapeInv, TypeOK, CtlTypes, PoolTypes, TakeCheckpoints, At, Goto, ctlVars
<1>1. Unfinished
  BY <1>0, OutsideHarvest DEF ShuttingDown, Harvesting
<1>2. /\ \A p \in Pools : LiveIn(p)' = LiveIn(p)
      /\ \A p \in Pools : p # turn => live'[p] = live[p]
      /\ cmd[turn] = "idle" => live' = live
      /\ cmd[turn] # "idle" =>
           \A s \in LiveIn(turn) :
              live'[turn][s] = IF s \in steps[turn] THEN Stepped(s) ELSE live[turn][s]
  BY CheckpointsLive
<1>3. CASE cmd[turn] = "idle"
  BY <1>1, <1>2, <1>3, OutsideHarvestAfter DEF Unfinished
<1>4. CASE cmd[turn] # "idle"
  <2>1. ASSUME NEW s \in LiveIn(turn)
        PROVE  \/ live'[turn][s].pos < live'[turn][s].len
               \/ live'[turn][s].pos = live'[turn][s].len /\ marks'[s] = "last"
    <3>1. /\ live[turn][s] \in ResidentJob /\ live[turn][s].pos < live[turn][s].len
          /\ s \in SlotIds
      BY <1>0, <1>1, LiveUnit DEF Unfinished
    <3>2. CASE s \notin steps[turn]
      BY <1>2, <1>4, <3>1, <3>2
    <3>3. CASE s \in steps[turn]
      <4>1. /\ Stepped(s).pos = live[turn][s].pos + 1 /\ Stepped(s).len = live[turn][s].len
            /\ Stepped(s).pos \in Nat /\ Stepped(s).len \in Nat
        BY <3>1 DEF Stepped, ResidentJob
      <4>2. marks'[s] = MarkAt(Unit(s), Stepped(s).pos, Stepped(s).len)
        BY <1>4, <3>1, <3>3 DEF TakeCheckpoints
      <4>3. live'[turn][s] = Stepped(s)
        BY <1>2, <1>4, <3>3
      <4>4. Stepped(s).pos = Stepped(s).len => marks'[s] = "last"
        BY <4>2 DEF MarkAt
      <4>5. Stepped(s).pos < Stepped(s).len \/ Stepped(s).pos = Stepped(s).len
        BY <3>1, <4>1 DEF ResidentJob
      <4> QED BY <4>3, <4>4, <4>5
    <3> QED BY <3>2, <3>3
  <2>2. \A p \in Pools : \A s \in LiveIn(p)' :
           \/ live'[p][s].pos < live'[p][s].len
           \/ /\ p = turn' /\ live'[p][s].pos = live'[p][s].len
              /\ pc' = "sweep" /\ marks'[s] = "last"
    BY <1>0, <1>1, <1>2, <2>1 DEF Unfinished
  <2> QED BY <2>2 DEF ProgressInv, ToRead, At
<1> QED BY <1>3, <1>4

(* The loops of the harvest free what is not wanted or screened out, and   *)
(* read back what has reached its end.                                     *)
LEMMA HarvestProgress ==
  ASSUME ShapeInv, ProgressInv, Harvest
  PROVE  ProgressInv'
<1> USE DEF At, Goto
<1>0. /\ turn \in Pools /\ done \in Seq(SlotIds) /\ cursor \in SlotIds /\ SlotIds \subseteq Nat
      /\ marks \in [SlotIds -> Marks] /\ LiveIn(turn) \subseteq SlotIds
      /\ LiveIn(turn)' \subseteq SlotIds
  BY DEF ShapeInv, TypeOK, CtlTypes, ScanTypes, SlotIds, LiveIn
<1>1. CASE TakeCheckpoints
  BY <1>1, CheckpointsMarked
<1>2. CASE CommandFailed \/ ReadManyFails
  BY <1>2, OutsideHarvestAfter DEF CommandFailed, ReadManyFails, ShuttingDown
<1>3. CASE Sweep
  <2>1. /\ pc = "sweep" /\ UNCHANGED <<turn, marks, done>>
        /\ pc' = "sweep" \/ (pc' = "judge" /\ cursor' = 1)
    BY <1>3 DEF Sweep, NextSlot, ctlVars
  <2>2. UNCHANGED live \/ \E s \in SlotIds : Free(turn, s)
    BY <1>0, <1>3 DEF Sweep
  <2>3. \A t \in SlotIds : ToRead(t) => ToRead(t)'
    BY <1>0, <2>1 DEF ToRead, SlotIds
  <2> QED BY <1>0, <2>1, <2>2, <2>3, ProgressFreed DEF ShuttingDown
<1>4. CASE JudgeGoesOn \/ JudgeFinishes \/ JudgeScreensOut
  <2>1. /\ pc = "judge" /\ UNCHANGED <<turn, marks>>
        /\ \/ pc' = "judge" /\ cursor' = cursor + 1
           \/ pc' = "read" /\ cursor = Slots
    BY <1>4 DEF JudgeGoesOn, JudgeFinishes, JudgeScreensOut, NextSlot, ctlVars
  <2>2. UNCHANGED live \/ \E s \in SlotIds : Free(turn, s)
    BY <1>0, <1>4 DEF JudgeGoesOn, JudgeFinishes, JudgeScreensOut, poolVars
  <2>3. Elems(done) \subseteq Elems(done)'
    <3>1. done' = done \/ done' = Append(done, cursor)
      BY <1>4 DEF JudgeGoesOn, JudgeFinishes, JudgeScreensOut
    <3>2. Elems(Append(done, cursor)) = Elems(done) \union {cursor}
      BY <1>0, AppendElems
    <3> QED BY <3>1, <3>2 DEF Elems
  <2>4. cursor \in LiveIn(turn)' /\ ToRead(cursor) => cursor \in Elems(done)'
    <3>1. CASE JudgeGoesOn
      BY <2>1, <3>1 DEF JudgeGoesOn, ToRead, LiveIn, SlotIds, poolVars
    <3>2. CASE JudgeFinishes
      <4>1. Elems(Append(done, cursor)) = Elems(done) \union {cursor}
        BY <1>0, AppendElems
      <4> QED BY <3>2, <4>1 DEF JudgeFinishes, Elems
    <3>3. CASE JudgeScreensOut
      <4>1. cursor \notin LiveIn(turn)'
        BY <1>0, <2>1, <3>3 DEF JudgeScreensOut, Free, LiveIn, ShapeInv, TypeOK, PoolTypes
      <4> QED BY <4>1
    <3> QED BY <1>4, <3>1, <3>2, <3>3
  <2>5. ASSUME NEW t \in LiveIn(turn)', ToRead(t) PROVE ToRead(t)'
    <3>1. t \in SlotIds /\ (t < cursor => t \in Elems(done)) /\ (t >= cursor => marks[t] = "last")
      BY <1>0, <2>1, <2>5 DEF ToRead, SlotIds
    <3>2. CASE t = cursor
      BY <1>0, <2>1, <2>4, <2>5, <3>2 DEF ToRead, SlotIds
    <3>3. CASE t < cursor
      BY <1>0, <2>1, <2>3, <3>1, <3>3 DEF ToRead, SlotIds
    <3>4. CASE t > cursor
      BY <1>0, <2>1, <3>1, <3>4 DEF ToRead, SlotIds
    <3> QED BY <1>0, <3>1, <3>2, <3>3, <3>4 DEF SlotIds
  <2> QED BY <2>1, <2>2, <2>5, ProgressFreed DEF ShuttingDown
<1>5. CASE ReadMany
  <2>1. pc = "read" /\ pc' = "reply" /\ UNCHANGED <<turn, live, done>>
    BY <1>5 DEF ReadMany, poolVars, ctlVars
  <2>2. \A t \in SlotIds : ToRead(t) => ToRead(t)'
    BY <2>1 DEF ToRead, Elems
  <2> QED BY <1>0, <2>1, <2>2, ProgressFreed DEF ShuttingDown
<1>6. CASE ReplyReads
  <2>1. /\ pc = "reply" /\ pc' = "reply" /\ turn' = turn /\ Free(turn, Head(done))
        /\ done' = Tail(done) /\ done # <<>> /\ Unique(done)
    BY <1>6 DEF ReplyReads, ctlVars, ShapeInv, DoneInv
  <2>2. Head(done) \in SlotIds /\ Elems(Tail(done)) = Elems(done) \ {Head(done)}
    BY <1>0, <2>1, TailElems
  <2>3. Head(done) \notin LiveIn(turn)'
    BY <1>0, <2>1, <2>2 DEF Free, LiveIn, ShapeInv, TypeOK, PoolTypes
  <2>4. ASSUME NEW t \in LiveIn(turn)', ToRead(t) PROVE ToRead(t)'
    <3>1. t \in Elems(done) \ {Head(done)}
      BY <2>1, <2>3, <2>4 DEF ToRead
    <3>2. t \in Elems(done)'
      BY <2>1, <2>2, <3>1, ZenonT(30) DEF Elems
    <3> QED BY <2>1, <3>2 DEF ToRead
  <2> QED BY <2>1, <2>2, <2>4, ProgressFreed DEF ShuttingDown
<1>7. CASE Reload
  <2>1. pc = "reply" /\ done = <<>> /\ live' = live
    BY <1>7 DEF Reload, poolVars
  <2>2. Unfinished
    BY <2>1 DEF ProgressInv, ShuttingDown, ToRead, Elems, Unfinished
  <2> QED BY <2>1, <2>2, OutsideHarvestAfter DEF Unfinished, LiveIn
<1> QED BY <1>1, <1>2, <1>3, <1>4, <1>5, <1>6, <1>7 DEF Harvest

(* An admitted unit has its whole schedule left.                           *)
LEMMA AdmissionProgress ==
  ASSUME ShapeInv, ProgressInv, Admission
  PROVE  ProgressInv'
<1> USE DEF At, Goto
<1>1. CASE Admit
  <2>0. turn \in Pools /\ live \in [Pools -> [SlotIds -> ResidentJob \union {None}]]
    BY DEF ShapeInv, TypeOK, CtlTypes, PoolTypes
  <2>1. pc = "slot" /\ Unfinished
    BY <1>1, OutsideHarvest DEF Admit, ShuttingDown, Harvesting
  <2>2. AdmittedLen \in Nat \ {0}
    BY <1>1 DEF Admit, AdmittedLen, ShapeInv, HandInv, TypeOK, CtlTypes, Prepared,
                PlanAssumption
  <2> DEFINE job == [unit |-> pending.unit, pos |-> 0, len |-> AdmittedLen]
  <2>3. job.pos < job.len
    BY <2>2
  <2>4. PICK s \in SlotIds : live' = [live EXCEPT ![turn][s] = job]
    BY <1>1 DEF Admit
  <2> HIDE DEF job
  <2>5. \A p \in Pools : \A t \in SlotIds :
           live'[p][t] = IF p = turn /\ t = s THEN job ELSE live[p][t]
    BY <2>0, <2>4
  <2>6. Unfinished'
    BY <2>1, <2>3, <2>5 DEF Unfinished, LiveIn
  <2> QED BY <2>6, OutsideHarvestAfter
<1>2. CASE Rebuild
  BY <1>2, OutsideHarvestAfter DEF Rebuild, Unfinished, LiveIn
<1>3. CASE \/ AdmitTop \/ PoolFull \/ NothingReady \/ TakePrepared
           \/ PlaceAbandoned \/ PlaceEmpty \/ PlaceError \/ PlaceWaits \/ PlaceFallback
           \/ PlaceFits \/ RebuildFails \/ RunFallback \/ FallbackFaults \/ AdmitRefused
  BY <1>3, ProgressKept
     DEF AdmitTop, PoolFull, NothingReady, TakePrepared, PlaceAbandoned, PlaceEmpty,
         PlaceError, PlaceWaits, PlaceFallback, PlaceFits, RebuildFails, RunFallback,
         FallbackFaults, AdmitRefused, AnswerPending, Wanted, poolVars, ShuttingDown, Harvesting
<1> QED BY <1>1, <1>2, <1>3 DEF Admission

(* The other steps of the runner leave the residents' progress alone.      *)
LEMMA RunnerProgress ==
  ASSUME ProgressInv, Intake \/ Stepping \/ Shutdown
  PROVE  ProgressInv'
<1> USE DEF At, Goto
<1>1. CASE Intake
  BY <1>1, ProgressKept DEF Intake, Start, StartFails, RunnerTop, FillJob, FillSalt, FillDone,
     Filling, poolVars, ShuttingDown, Harvesting
<1>2. CASE Stepping
  BY <1>2, ProgressKept DEF Stepping, Exit, Stay, Unthrottled, Throttled, YieldEnds, CommitStep,
     StepClosed, poolVars, ShuttingDown, Harvesting
<1>3. CASE Shutdown
  <2>1. ShuttingDown'
    BY <1>3 DEF Shutdown, FlushSlot, FlushDone, DrainReady, DrainReadyDone, DrainPending,
       DrainJob, DrainJobsDone, DrainSalt, DrainSaltsDone, ShuttingDown
  <2> QED BY <2>1, OutsideHarvestAfter
<1> QED BY <1>1, <1>2, <1>3

(* Nobody else does.                                                       *)
LEMMA OtherProgress ==
  ASSUME PoolInv, UNCHANGED <<shape, live, marks, done, cursor, pc, turn, pending>>
  PROVE  ProgressInv' /\ FitInv'
<1>1. (\A p \in Pools : LiveIn(p)' = LiveIn(p)) /\ ShuttingDown' = ShuttingDown
  BY DEF LiveIn, ShuttingDown
<1>2. \A s \in SlotIds : ToRead(s)' = ToRead(s)
  BY DEF ToRead, Elems, At
<1>3. \A p \in Pools : LiveIn(p) \subseteq SlotIds
  BY DEF LiveIn
<1> QED BY <1>1, <1>2, <1>3 DEF PoolInv, ProgressInv, FitInv, SlotsFitPools, At

-----------------------------------------------------------------------------
(* The theorems *)

(* Both pools start empty and idle.                                        *)
LEMMA InitPools == Init => PoolInv
<1> SUFFICES ASSUME Init PROVE PoolInv
  OBVIOUS
<1>1. \A p \in Pools : LiveIn(p) = {} /\ cmd[p] = "idle"
  BY DEF Init, LiveIn
<1>2. pc = "start"
  BY DEF Init
<1> QED BY <1>1, <1>2 DEF PoolInv, CommandInv, FitInv, ProgressInv, SlotsFitPools, Empty, InHand, At

(* The invariant of the pools is inductive, given the shape of the state.  *)
LEMMA NextPools == ShapeInv /\ PoolInv /\ [Next]_vars => PoolInv'
<1> SUFFICES ASSUME ShapeInv, PoolInv, [Next]_vars PROVE PoolInv'
  OBVIOUS
<1>0. CommandInv /\ FitInv /\ ProgressInv
  BY DEF PoolInv
<1>1. CASE Harvest
  BY <1>0, <1>1, HarvestCommands, RunnerFits, HarvestProgress DEF PoolInv
<1>2. CASE Admission
  BY <1>0, <1>2, AdmissionCommands, RunnerFits, AdmissionProgress DEF PoolInv
<1>3. CASE Intake \/ Stepping \/ Shutdown
  <2>1. CommandInv' /\ ProgressInv'
    BY <1>0, <1>3, OtherCommands, SteppingCommands, ShutdownCommands, RunnerProgress
  <2>2. shape' = shape /\ pc' # "slot"
    BY <1>3 DEF Intake, Start, StartFails, RunnerTop, FillJob, FillSalt, FillDone, Filling,
       Stepping, Exit, Stay, Unthrottled, Throttled, YieldEnds, CommitStep, StepClosed,
       Shutdown, FlushSlot, FlushDone, DrainReady, DrainReadyDone, DrainPending,
       DrainJob, DrainJobsDone, DrainSalt, DrainSaltsDone, poolVars, Goto, At
  <2>3. UNCHANGED live \/ \E p \in Pools, s \in SlotIds : Free(p, s)
    BY <1>3 DEF Intake, Start, StartFails, RunnerTop, FillJob, FillSalt, FillDone,
       Stepping, Exit, Stay, Unthrottled, Throttled, YieldEnds, CommitStep, StepClosed,
       Shutdown, FlushSlot, FlushDone, DrainReady, DrainReadyDone, DrainPending,
       DrainJob, DrainJobsDone, DrainSalt, DrainSaltsDone, poolVars
  <2>4. FitInv'
    BY <1>0, <2>2, <2>3, FitFreed DEF At
  <2> QED BY <2>1, <2>4 DEF PoolInv
<1>4. CASE \/ Callers \/ (\E w \in WorkerIds : Prepare(w))
           \/ (\E p \in Pools : CompleteCommand(p)) \/ UNCHANGED vars
  <2>1. UNCHANGED <<shape, live, marks, done, cursor, pc, turn, pending>>
    BY <1>4 DEF Callers, Reserve, SendJob, Cancel, SendSalt, StopLease, CloseInput, ReadResult,
       CloseOut, Prepare, CompleteCommand, vars, poolVars, scanVars, ctlVars
  <2> QED BY <1>0, <1>4, <2>1, OtherCommands, OtherProgress DEF PoolInv
<1> QED BY <1>1, <1>2, <1>3, <1>4 DEF Next, Runner, Finished

(* What is true of the two pools wherever the runner is (run, SlotPool).   *)
LEMMA PoolsInvariant == Spec => [](ShapeInv /\ PoolInv)
<1>1. Init => ShapeInv /\ PoolInv
  BY InitShape, InitPools
<1>2. ShapeInv /\ PoolInv /\ [Next]_vars => (ShapeInv /\ PoolInv)'
  BY NextShape, NextPools
<1> QED
  BY <1>1, <1>2, PTL DEF Spec

(* The host works on the pool in hand only while its command buffer is     *)
(* idle, and runs a unit outside the slots only while both pools are empty *)
(* and idle (SlotPool::idle, run).                                         *)
THEOREM HostWorksAtRest == Spec => []HostAtRest
<1>1. ShapeInv /\ PoolInv => HostAtRest
  BY DEF PoolInv, CommandInv, HostAtRest, InHand, Empty, At, ShuttingDown
<1> QED
  BY <1>1, PoolsInvariant, PTL

(* While a command is in flight or not yet taken, the host neither frees   *)
(* nor fills a slot of its pool (take_checkpoints, commit_step, flush).    *)
THEOREM GpuKeepsItsSlots == Spec => []GpuOwnsSlots
<1>1. ShapeInv /\ PoolInv => GpuOwnsSlots
  BY DEF PoolInv, CommandInv, GpuOwnsSlots
<1> QED
  BY <1>1, PoolsInvariant, PTL

(* A resident unit fits the pools it is in, under any change of settings,  *)
(* and no step starts a slot past its final checkpoint (Pool::fits,        *)
(* Pool::harvest, commit_step).                                            *)
THEOREM ResidentsCanFinish == Spec => []CanFinish
<1>1. ShapeInv /\ PoolInv => CanFinish
  <2> SUFFICES ASSUME ShapeInv, PoolInv PROVE RoomToStep
    BY DEF PoolInv, FitInv, CanFinish
  <2>1. turn \in Pools
    BY DEF ShapeInv, TypeOK, CtlTypes
  <2> QED BY <2>1, OutsideHarvest DEF PoolInv, RoomToStep, Unfinished, At, ShuttingDown, Harvesting
<1> QED
  BY <1>1, PoolsInvariant, PTL

-----------------------------------------------------------------------------
(* Proofs that the resident runner keeps the promises of StreamContract    *)
(* and leaves nothing it took unanswered.                                  *)
(*                                                                         *)
(* Every answer is the contract's Respond for one unit: ownership gives    *)
(* that the unit was accepted and has no answer yet, and three smaller     *)
(* invariants give the rest: why the flush may cancel, that only salts are *)
(* screened, and what is already empty at each stage of the shutdown.      *)

(* What has been emptied at each stage of the shutdown, and is not filled  *)
(* again.                                                                  *)
WindDown ==
  /\ At("start") => Empty /\ ready = <<>> /\ pending = None
  /\ ShuttingDown => jobsClosed
  /\ ShuttingDown /\ ~At("flush") => Empty
  /\ pc \in {"drainPending", "drainJobs", "drainSalts", "done"} => ready = <<>>
  /\ pc \in {"drainJobs", "drainSalts", "done"} => pending = None
  /\ pc \in {"drainSalts", "done"} => jobs = <<>> /\ permits = {}

(* Units are flushed after a fault or when nobody reads.                   *)
FlushInv == At("flush") => Empty \/ fault \/ outClosed

(* Only a salt reaches a gate, and no mark outlives its harvest.           *)
GateInv ==
  /\ pc \in {"sweep", "judge"} =>
       \A s \in LiveIn(turn) : marks[s] = "gate" => live[turn][s].unit \in Salts
  /\ pc \notin {"sweep", "judge", "read"} => \A s \in SlotIds : marks[s] # "gate"

-----------------------------------------------------------------------------
(* The shutdown *)

(* A running stream starts its shutdown with the job channel closed, by    *)
(* the flush of its pools or, before its first turn, with empty hands.     *)
LEMMA RunnerWindsDown ==
  ASSUME ShapeInv, WindDown, FlushInv, Intake \/ Harvest \/ Admission \/ Stepping
  PROVE  WindDown' /\ FlushInv'
<1> USE DEF At, Goto
<1>1. CASE Intake
  <2>1. UNCHANGED <<live, pending>> /\ (pc = "start" => ready' = ready)
    BY <1>1 DEF Intake, Start, StartFails, RunnerTop, FillJob, FillSalt, FillDone, Filling,
       poolVars, prepVars
  <2>2. Empty' = Empty
    BY <2>1 DEF Empty, LiveIn
  <2>3. RunnerTop => (pc' = "flush" => outClosed) /\ (outClosed => jobsClosed')
    BY Zenon DEF RunnerTop
  <2>4. /\ pc' # "start"
        /\ pc' \in {"flush", "drainJobs"} => jobsClosed'
        /\ pc' = "flush" => outClosed'
        /\ pc' = "drainJobs" => pc = "start"
        /\ pc' \notin {"drainReady", "drainPending", "drainSalts", "done"}
    BY <1>1, <2>3 DEF Intake, Start, StartFails, RunnerTop, FillJob, FillSalt, FillDone,
       Filling, envVars
  <2> QED BY <2>1, <2>2, <2>4 DEF WindDown, FlushInv, ShuttingDown
<1>2. CASE Harvest
  <2>1. /\ pc' \notin {"start", "drainReady", "drainPending", "drainJobs", "drainSalts",
                       "done"}
        /\ pc' = "flush" => jobsClosed' /\ fault'
    BY <1>2 DEF Harvest, TakeCheckpoints, CommandFailed, Sweep, JudgeGoesOn, JudgeFinishes,
       JudgeScreensOut, ReadMany, ReadManyFails, ReplyReads, Reload, NextSlot
  <2> QED BY <2>1 DEF WindDown, FlushInv, ShuttingDown
<1>3. CASE Admission
  <2>1. AdmitTop => (pc' = "flush" => outClosed) /\ (outClosed => jobsClosed')
    BY Zenon DEF AdmitTop
  <2>2. /\ pc' \notin {"start", "drainReady", "drainPending", "drainJobs", "drainSalts",
                       "done"}
        /\ pc' = "flush" => jobsClosed' /\ (fault' \/ outClosed')
    BY <1>3, <2>1 DEF Admission, AdmitTop, PoolFull, NothingReady, TakePrepared, PlaceAbandoned,
       PlaceEmpty, PlaceError, PlaceWaits, PlaceFallback, PlaceFits, Rebuild, RebuildFails,
       RunFallback, FallbackFaults, Admit, AdmitRefused, AnswerPending, Wanted, envVars
  <2> QED BY <2>2 DEF WindDown, FlushInv, ShuttingDown
<1>4. CASE Stepping
  <2>1. /\ pc' \notin {"start", "drainReady", "drainPending", "drainJobs", "drainSalts",
                       "done"}
        /\ pc' = "flush" => jobsClosed' /\ (Empty \/ outClosed') /\ live' = live
    BY <1>4 DEF Stepping, Exit, Stay, Unthrottled, Throttled, YieldEnds, CommitStep,
       StepClosed, envVars, poolVars
  <2> QED BY <2>1 DEF WindDown, FlushInv, ShuttingDown, Empty, LiveIn
<1> QED BY <1>1, <1>2, <1>3, <1>4

(* Each stage of the shutdown leaves its channel, hand or pool empty.      *)
LEMMA ShutdownWindsDown ==
  ASSUME ShapeInv, WindDown, FlushInv, Shutdown
  PROVE  WindDown' /\ FlushInv'
<1> USE DEF At, Goto
<1>1. CASE \E p \in Pools, s \in SlotIds : FlushSlot(p, s)
  <2>1. /\ pc = "flush" /\ pc' = "flush" /\ jobsClosed' = jobsClosed /\ ~Empty
        /\ UNCHANGED <<fault, outClosed>>
    BY <1>1 DEF FlushSlot, inVars, ctlVars, envVars, Empty
  <2> QED BY <2>1 DEF WindDown, FlushInv, ShuttingDown
<1>2. CASE \/ FlushDone \/ DrainReady \/ DrainReadyDone \/ DrainPending
           \/ DrainJob \/ DrainJobsDone \/ DrainSalt \/ DrainSaltsDone
  <2>1. live' = live /\ jobsClosed' = jobsClosed /\ permits' = permits
    BY <1>2 DEF FlushDone, DrainReady, DrainReadyDone, DrainPending, DrainJob, DrainJobsDone,
       DrainSalt, DrainSaltsDone, poolVars, inVars
  <2>2. Empty' = Empty
    BY <2>1 DEF Empty, LiveIn
  <2> USE <2>1, <2>2 DEF WindDown, FlushInv, ShuttingDown
  <2>3. CASE FlushDone
    BY <2>3 DEF FlushDone
  <2>4. CASE DrainReady \/ DrainJob \/ DrainSalt
    BY <2>4 DEF DrainReady, DrainJob, DrainSalt, prepVars, inVars
  <2>5. CASE DrainReadyDone
    BY <2>5 DEF DrainReadyDone, prepVars
  <2>6. CASE DrainPending
    BY <2>6 DEF DrainPending, prepVars
  <2>7. CASE DrainJobsDone \/ DrainSaltsDone
    BY <2>7 DEF DrainJobsDone, DrainSaltsDone, prepVars, inVars
  <2> QED BY <1>2, <2>3, <2>4, <2>5, <2>6, <2>7
<1> QED BY <1>1, <1>2 DEF Shutdown

(* Nobody reserves a place in the closed channel.                          *)
LEMMA OthersWindDown ==
  ASSUME ShapeInv, WindDown, FlushInv,
         \/ Callers \/ (\E w \in WorkerIds : Prepare(w))
         \/ (\E p \in Pools : CompleteCommand(p)) \/ UNCHANGED vars
  PROVE  WindDown' /\ FlushInv'
<1> USE DEF At, Goto
<1>1. /\ UNCHANGED <<live, ready, pending, jobsClosed, pc, fault>>
      /\ outClosed => outClosed'
  BY DEF Callers, Reserve, SendJob, Cancel, SendSalt, StopLease, CloseInput, ReadResult,
     CloseOut, Prepare, CompleteCommand, vars, inVars, prepVars, poolVars, ctlVars, envVars
<1>2. jobsClosed /\ permits = {} => UNCHANGED <<jobs, permits>>
  BY DEF Callers, Reserve, SendJob, Cancel, SendSalt, StopLease, CloseInput, ReadResult,
     CloseOut, Prepare, CompleteCommand, vars, inVars
<1>3. Empty' = Empty
  BY <1>1 DEF Empty, LiveIn
<1> QED BY <1>1, <1>2, <1>3 DEF WindDown, FlushInv, ShuttingDown

-----------------------------------------------------------------------------
(* Gates *)

(* The marks of a command are read once, and then cleared.                 *)
LEMMA GatesOfSalts ==
  ASSUME ShapeInv, GateInv, Harvest
  PROVE  GateInv'
<1> USE DEF At, Goto
<1>0. /\ turn \in Pools /\ SlotIds = 1..Slots
      /\ live \in [Pools -> [SlotIds -> ResidentJob \union {None}]]
  BY DEF ShapeInv, TypeOK, CtlTypes, PoolTypes, SlotIds
<1>1. CASE TakeCheckpoints
  <2>1. pc = "harvest" /\ pc' = "sweep" /\ turn' = turn
    BY <1>1 DEF TakeCheckpoints, ctlVars
  <2>2. \A p \in Pools : LiveIn(p)' = LiveIn(p)
    BY <1>1, CheckpointsLive
  <2>3. \A s \in LiveIn(turn) : live'[turn][s].unit = live[turn][s].unit
    BY <1>1, CheckpointsLive
  <2>4. LiveIn(turn)' = LiveIn(turn)
    BY <1>0, <2>1, <2>2 DEF LiveIn
  <2>5. ASSUME NEW s \in LiveIn(turn), marks'[s] = "gate" PROVE Unit(s) \in Salts
    <3>1. s \in SlotIds
      BY <2>5 DEF LiveIn
    <3>2. CASE cmd[turn] = "idle"
      BY <1>1, <2>1, <2>5, <3>1, <3>2 DEF TakeCheckpoints, GateInv
    <3>3. CASE cmd[turn] # "idle"
      <4>1. marks'[s] = IF s \in steps[turn] \intersect LiveIn(turn)
                        THEN MarkAt(Unit(s), Stepped(s).pos, Stepped(s).len) ELSE "none"
        BY <1>1, <3>1, <3>3 DEF TakeCheckpoints
      <4> QED BY <2>5, <4>1 DEF MarkAt
    <3> QED BY <3>2, <3>3
  <2> QED BY <2>1, <2>3, <2>4, <2>5 DEF GateInv, Unit
<1>2. CASE Sweep \/ JudgeGoesOn \/ JudgeFinishes \/ JudgeScreensOut
  <2>1. /\ pc \in {"sweep", "judge"} /\ pc' \in {"sweep", "judge", "read"}
        /\ UNCHANGED <<turn, marks>>
    BY <1>2 DEF Sweep, JudgeGoesOn, JudgeFinishes, JudgeScreensOut, NextSlot, ctlVars
  <2>2. UNCHANGED live \/ \E s \in SlotIds : Free(turn, s)
    BY <1>2 DEF Sweep, JudgeGoesOn, JudgeFinishes, JudgeScreensOut, poolVars, LiveIn
  <2>3. \A s \in LiveIn(turn)' : s \in LiveIn(turn) /\ live'[turn][s] = live[turn][s]
    <3>1. CASE UNCHANGED live
      BY <2>1, <3>1 DEF LiveIn
    <3>2. CASE \E s \in SlotIds : Free(turn, s)
      BY <1>0, <2>1, <3>2 DEF Free, LiveIn
    <3> QED BY <2>2, <3>1, <3>2
  <2> QED BY <2>1, <2>3 DEF GateInv
<1>3. CASE ReadMany \/ ReadManyFails
  <2>1. pc' \notin {"sweep", "judge", "read"} /\ \A s \in SlotIds : marks'[s] = "none"
    BY <1>3 DEF ReadMany, ReadManyFails, ClearMarks
  <2> QED BY <2>1 DEF GateInv
<1>4. CASE CommandFailed \/ ReplyReads \/ Reload
  <2>1. /\ pc \notin {"sweep", "judge", "read"} /\ pc' \notin {"sweep", "judge", "read"}
        /\ marks' = marks
    BY <1>4 DEF CommandFailed, ReplyReads, Reload, scanVars
  <2> QED BY <2>1 DEF GateInv
<1> QED BY <1>1, <1>2, <1>3, <1>4 DEF Harvest

(* Outside the harvest nothing is marked.                                  *)
LEMMA GatesKept ==
  ASSUME GateInv, \/ Intake \/ Admission \/ Stepping \/ Shutdown \/ Callers
                  \/ (\E w \in WorkerIds : Prepare(w))
                  \/ (\E p \in Pools : CompleteCommand(p)) \/ UNCHANGED vars
  PROVE  GateInv'
<1> USE DEF At, Goto
<1>1. CASE Intake \/ Admission \/ Stepping \/ Shutdown
  <2>1. /\ pc \notin {"sweep", "judge", "read"} /\ pc' \notin {"sweep", "judge", "read"}
        /\ marks' = marks
    <3>1. CASE Intake
      BY <3>1 DEF Intake, Start, StartFails, RunnerTop, FillJob, FillSalt, FillDone, Filling,
         scanVars
    <3>2. CASE Admission
      BY <3>2 DEF Admission, AdmitTop, PoolFull, NothingReady, TakePrepared, PlaceAbandoned,
         PlaceEmpty, PlaceError, PlaceWaits, PlaceFallback, PlaceFits, Rebuild, RebuildFails,
         RunFallback, FallbackFaults, Admit, AdmitRefused, AnswerPending, Wanted, scanVars
    <3>3. CASE Stepping
      BY <3>3 DEF Stepping, Exit, Stay, Unthrottled, Throttled, YieldEnds, CommitStep,
         StepClosed, scanVars
    <3>4. CASE Shutdown
      BY <3>4 DEF Shutdown, FlushSlot, FlushDone, DrainReady, DrainReadyDone, DrainPending,
         DrainJob, DrainJobsDone, DrainSalt, DrainSaltsDone, scanVars
    <3> QED BY <1>1, <3>1, <3>2, <3>3, <3>4
  <2> QED BY <2>1 DEF GateInv
<1>2. CASE \/ Callers \/ (\E w \in WorkerIds : Prepare(w))
           \/ (\E p \in Pools : CompleteCommand(p)) \/ UNCHANGED vars
  <2>1. UNCHANGED <<live, marks, pc, turn>>
    BY <1>2 DEF Callers, Reserve, SendJob, Cancel, SendSalt, StopLease, CloseInput, ReadResult,
       CloseOut, Prepare, CompleteCommand, vars, poolVars, scanVars, ctlVars
  <2> QED BY <2>1 DEF GateInv, LiveIn
<1> QED BY <1>1, <1>2

-----------------------------------------------------------------------------
(* The invariant behind the contract *)

ContractInv == OwnershipInv /\ WindDown /\ FlushInv /\ GateInv

(* It holds before the runner starts.                                      *)
LEMMA InitContract == Init => ContractInv
<1> SUFFICES ASSUME Init PROVE ContractInv
  OBVIOUS
<1>1. OwnershipInv
  BY InitShape, InitOwned DEF OwnershipInv, Owned
<1>2. pc = "start" /\ Empty /\ ready = <<>> /\ pending = None
  BY DEF Init, Empty, LiveIn
<1>3. \A s \in SlotIds : marks[s] # "gate"
  BY DEF Init
<1> QED BY <1>1, <1>2, <1>3 DEF ContractInv, WindDown, FlushInv, GateInv, ShuttingDown, At

(* And every step keeps it.                                                *)
LEMMA NextContract == ContractInv /\ [Next]_vars => ContractInv'
<1> SUFFICES ASSUME ContractInv, [Next]_vars PROVE ContractInv'
  OBVIOUS
<1>1. ShapeInv /\ OwnershipInv /\ WindDown /\ FlushInv /\ GateInv
  BY DEF ContractInv, OwnershipInv
<1>2. OwnershipInv'
  BY <1>1, NextShape, NextOwned DEF OwnershipInv, Owned
<1>3. WindDown' /\ FlushInv' /\ GateInv'
  BY <1>1, RunnerWindsDown, ShutdownWindsDown, OthersWindDown, GatesOfSalts, GatesKept
     DEF Next, Runner, Finished
<1> QED BY <1>2, <1>3 DEF ContractInv

(* So it holds throughout.                                                 *)
LEMMA ContractInvariant == Spec => []ContractInv
<1> QED
  BY InitContract, NextContract, PTL DEF Spec

(* When the runner has returned nothing it took is unanswered; only salts  *)
(* fed too late are left, in the intake channel (reject_preparation,       *)
(* reject_tail).                                                           *)
LEMMA EndsSettled ==
  ASSUME ContractInv, pc \in {"drainSalts", "done"}, NEW u \in sent
  PROVE  answers[u] # <<>> \/ u \in Elems(salts)
<1>1. /\ Empty /\ ready = <<>> /\ pending = None /\ jobs = <<>>
      /\ RepliesAwaited /\ Divides(Place, sent)
  BY DEF ContractInv, WindDown, ShuttingDown, At, OwnershipInv, Custody
<1>2. Place["work"] = {} /\ Place["reply"] = {}
  BY <1>1 DEF RepliesAwaited, Elems
<1>3. Place["jobs"] = {} /\ Place["pending"] = {} /\ Place["slots"] = {}
  BY <1>1, Places DEF Elems, LiveUnits, Empty, Pools
<1>4. PICK a \in PlaceNames : u \in Place[a]
  BY <1>1 DEF Divides
<1>5. u \in Place["salts"] \/ u \in Place["answers"]
  BY <1>2, <1>3, <1>4 DEF PlaceNames
<1> QED BY <1>5, Places

(* Nothing is left unanswered at the end.                                  *)
THEOREM EverythingSettled == Spec => []Settled
<1>1. ContractInv => Settled
  BY EndsSettled DEF Settled, At, ContractInv, WindDown
<1> QED
  BY <1>1, ContractInvariant, PTL

-----------------------------------------------------------------------------
(* Refinement: every step is a step of the contract, or none *)

Gone == {u \in Units : Abandoned(u)}

(* A unit that is owed an answer was accepted and has none.                *)
LEMMA Owes ==
  ASSUME OwnershipInv, NEW a \in PlaceNames, a # "answers", NEW u \in Units, u \in Place[a]
  PROVE  u \in sent /\ answers[u] = <<>>
<1>1. Divides(Place, sent) /\ "answers" \in PlaceNames
  BY DEF OwnershipInv, Custody, PlaceNames
<1>2. u \in sent /\ u \notin Place["answers"]
  BY <1>1, Apart
<1> QED BY <1>2, Places

(* An answer with a permitted outcome is a Respond of the contract.        *)
LEMMA AnswerResponds ==
  ASSUME OwnershipInv, NEW a \in PlaceNames, a # "answers", NEW u \in Units, u \in Place[a],
         NEW outcome \in Outcomes, Answer(u, outcome),
         outcome \in {"reads", "failed"} => ~Abandoned(u),
         outcome = "screened" => u \in Salts,
         outcome = "cancelled" => Abandoned(u) \/ outClosed,
         pc # "done", pc' # "done", UNCHANGED <<sent, envVars>>
  PROVE  Contract!Next
<1>1. u \in sent /\ answers[u] = <<>>
  BY Owes
<1>2. answers \in [Units -> Seq(Outcomes)]
  BY DEF OwnershipInv, ShapeInv, TypeOK, OutTypes
<1>3. answers' = [v \in Units |-> IF v \in {u} THEN <<outcome>> ELSE answers[v]]
  <2>1. answers' = [answers EXCEPT ![u] = Append(<<>>, outcome)]
    BY <1>1, <1>2 DEF Answer
  <2>2. Append(<<>>, outcome) = <<outcome>>
    OBVIOUS
  <2> QED BY <1>2, <2>1, <2>2
<1>4. Gone' = Gone /\ outClosed' = outClosed
  BY DEF Gone, Abandoned, envVars
<1>5. (u \in Gone) <=> Abandoned(u)
  BY DEF Gone
<1>6. Contract!Respond({u}, outcome)
  BY <1>1, <1>3, <1>4, <1>5 DEF Contract!Respond, Contract!Units, Units, Gone
<1>7. {u} \in SUBSET Contract!Units /\ outcome \in Contract!Outcomes
  BY DEF Contract!Units, Units, Contract!Outcomes, Outcomes
<1> QED BY <1>6, <1>7 DEF Contract!Next

(* The stream starts with nothing promised.                                *)
LEMMA InitPromises == Init => Contract!Init
<1> SUFFICES ASSUME Init PROVE Contract!Init
  OBVIOUS
<1>1. sent = {} /\ outClosed = FALSE /\ (pc = "done") = FALSE
  BY DEF Init
<1>2. answers = [u \in Contract!Units |-> <<>>]
  BY DEF Init, Contract!Units, Units
<1>3. {u \in Units : Abandoned(u)} = {}
  BY DEF Init, Abandoned
<1> QED BY <1>1, <1>2, <1>3, Zenon DEF Contract!Init

(* A step the contract does not see.                                       *)
LEMMA Silent ==
  ASSUME UNCHANGED <<sent, answers, envVars>>, (pc = "done") <=> (pc' = "done")
  PROVE  UNCHANGED Contract!vars
<1>1. {u \in Units : Abandoned(u)}' = {u \in Units : Abandoned(u)}
  BY DEF Abandoned, envVars
<1>2. (pc = "done")' = (pc = "done")
  OBVIOUS
<1> QED BY <1>1, <1>2 DEF Contract!vars, envVars

(* The places of the units the runner holds.                               *)
LEMMA Holds ==
  ASSUME ShapeInv
  PROVE  /\ \A p \in Pools : \A s \in LiveIn(p) :
              live[p][s].unit \in Units /\ live[p][s].unit \in Place["slots"]
         /\ pending # None => pending.unit \in Units /\ pending.unit \in Place["pending"]
         /\ jobs # <<>> => Head(jobs) \in Units /\ Head(jobs) \in Place["jobs"]
         /\ salts # <<>> => Head(salts) \in Units /\ Head(salts) \in Place["salts"]
         /\ ready # <<>> /\ reply[Head(ready)] # None =>
              Head(ready) \in Units /\ Head(ready) \in Place["reply"]
<1>1. ASSUME NEW p \in Pools, NEW s \in LiveIn(p)
      PROVE  live[p][s].unit \in Units /\ live[p][s].unit \in Place["slots"]
  <2>1. live[p][s].unit \in LiveUnits(p)
    BY DEF LiveUnits
  <2> QED BY <2>1, LiveUnit, Places DEF Pools
<1>2. pending # None => pending.unit \in Units /\ pending.unit \in Place["pending"]
  BY Places DEF ShapeInv, TypeOK, Prepared
<1>3. jobs # <<>> => Head(jobs) \in Units /\ Head(jobs) \in Place["jobs"]
  <2>1. jobs \in Seq(Jobs)
    BY DEF ShapeInv, TypeOK, InTypes
  <2>2. jobs # <<>> => Head(jobs) \in Jobs /\ Head(jobs) = jobs[1] /\ 1 \in DOMAIN jobs
    BY <2>1
  <2> QED BY <2>2, Places DEF Elems, Units
<1>4. salts # <<>> => Head(salts) \in Units /\ Head(salts) \in Place["salts"]
  <2>1. salts \in Seq(Salts)
    BY DEF ShapeInv, TypeOK, InTypes
  <2>2. salts # <<>> => Head(salts) \in Salts /\ Head(salts) = salts[1] /\ 1 \in DOMAIN salts
    BY <2>1
  <2> QED BY <2>2, Places DEF Elems, Units
<1>5. ready # <<>> /\ reply[Head(ready)] # None =>
        Head(ready) \in Units /\ Head(ready) \in Place["reply"]
  <2>1. ready \in Seq(Units)
    BY DEF ShapeInv, TypeOK, PrepTypes
  <2> QED BY <2>1, Places
<1> QED BY <1>1, <1>2, <1>3, <1>4, <1>5

(* The steps of the harvest.                                               *)
LEMMA HarvestResponds ==
  ASSUME ContractInv, Harvest
  PROVE  Contract!Next \/ UNCHANGED Contract!vars
<1> USE DEF At, Goto
<1>0. /\ turn \in Pools /\ ShapeInv /\ OwnershipInv
      /\ "slots" \in PlaceNames /\ "slots" # "answers"
  BY DEF ContractInv, OwnershipInv, ShapeInv, TypeOK, CtlTypes, PlaceNames
<1>1. pc # "done" /\ pc' # "done"
  BY DEF Harvest, TakeCheckpoints, CommandFailed, Sweep, JudgeGoesOn, JudgeFinishes,
     JudgeScreensOut, ReadMany, ReadManyFails, ReplyReads, Reload, NextSlot
<1>2. UNCHANGED <<sent, envVars>>
  BY DEF Harvest, TakeCheckpoints, CommandFailed, Sweep, JudgeGoesOn, JudgeFinishes,
     JudgeScreensOut, ReadMany, ReadManyFails, ReplyReads, Reload, inVars
<1>3. CASE Sweep /\ cursor \in LiveIn(turn) /\ Abandoned(Unit(cursor))
  <2>1. Answer(Unit(cursor), "cancelled") /\ "cancelled" \in Outcomes
    BY <1>3 DEF Sweep, Outcomes
  <2>2. Unit(cursor) \in Units /\ Unit(cursor) \in Place["slots"]
    BY <1>0, <1>3, Holds DEF Unit
  <2> QED BY <1>0, <1>1, <1>2, <1>3, <2>1, <2>2, AnswerResponds
<1>4. CASE JudgeScreensOut
  <2>1. Answer(Unit(cursor), "screened") /\ "screened" \in Outcomes /\ Unit(cursor) \in Salts
    BY <1>4 DEF JudgeScreensOut, Outcomes, ContractInv, GateInv, Unit
  <2>2. Unit(cursor) \in Units /\ Unit(cursor) \in Place["slots"]
    BY <1>0, <1>4, Holds DEF Unit, JudgeScreensOut
  <2> QED BY <1>0, <1>1, <1>2, <2>1, <2>2, AnswerResponds
<1>5. CASE ReplyReads
  <2>1. done \in Seq(SlotIds) /\ done # <<>> /\ Head(done) \in LiveIn(turn)
    BY <1>0, <1>5 DEF ReplyReads, ShapeInv, DoneInv, TypeOK, ScanTypes
  <2> DEFINE u == Unit(Head(done))
             outcome == IF Abandoned(u) THEN "cancelled" ELSE "reads"
  <2>2. Answer(u, outcome) /\ outcome \in Outcomes
    BY <1>5 DEF ReplyReads, Outcomes
  <2>3. u \in Units /\ u \in Place["slots"]
    BY <1>0, <2>1, Holds DEF Unit
  <2>4. /\ outcome \in {"reads", "failed"} => ~Abandoned(u)
        /\ outcome # "screened" /\ (outcome = "cancelled" => Abandoned(u))
    OBVIOUS
  <2> HIDE DEF u, outcome
  <2> QED BY <1>0, <1>1, <1>2, <2>2, <2>3, <2>4, AnswerResponds
<1>6. CASE ~(JudgeScreensOut \/ ReplyReads \/ (Sweep /\ cursor \in LiveIn(turn)
                                                    /\ Abandoned(Unit(cursor))))
  <2>1. answers' = answers
    BY <1>6 DEF Harvest, TakeCheckpoints, CommandFailed, Sweep, JudgeGoesOn, JudgeFinishes,
       ReadMany, ReadManyFails, Reload, outVars
  <2> QED BY <1>1, <1>2, <2>1, Silent
<1> QED BY <1>3, <1>4, <1>5, <1>6

(* The answers of the admission are for the unit in the runner's hand.     *)
LEMMA AdmissionResponds ==
  ASSUME ContractInv, Admission
  PROVE  Contract!Next \/ UNCHANGED Contract!vars
<1> USE DEF At, Goto
<1>0. /\ ShapeInv /\ OwnershipInv /\ "pending" \in PlaceNames /\ "pending" # "answers"
  BY DEF ContractInv, OwnershipInv, PlaceNames
<1>1. pc # "done" /\ pc' # "done" /\ UNCHANGED <<sent, envVars>>
  BY DEF Admission, AdmitTop, PoolFull, NothingReady, TakePrepared, PlaceAbandoned,
     PlaceEmpty, PlaceError, PlaceWaits, PlaceFallback, PlaceFits, Rebuild, RebuildFails,
     RunFallback, FallbackFaults, Admit, AdmitRefused, AnswerPending, Wanted, inVars
<1>2. CASE \/ PlaceAbandoned \/ PlaceEmpty \/ PlaceError \/ RebuildFails
           \/ RunFallback \/ FallbackFaults \/ AdmitRefused
  <2>1. pending # None
    BY <1>0, <1>2 DEF PlaceAbandoned, PlaceEmpty, PlaceError, RebuildFails, RunFallback,
       FallbackFaults, AdmitRefused, Wanted, ShapeInv, HandInv
  <2>2. PICK outcome \in Outcomes :
           /\ Answer(pending.unit, outcome) /\ outcome # "screened"
           /\ outcome \in {"reads", "failed"} => ~Abandoned(pending.unit)
           /\ outcome = "cancelled" => Abandoned(pending.unit) \/ outClosed
    <3>1. CASE PlaceAbandoned \/ PlaceEmpty \/ PlaceError \/ RebuildFails
      BY <3>1 DEF PlaceAbandoned, PlaceEmpty, PlaceError, RebuildFails, Wanted, AnswerPending,
                  Outcomes
    <3>2. CASE RunFallback \/ FallbackFaults
      BY <3>2 DEF RunFallback, FallbackFaults, FallbackAnswer, AnswerPending, Outcomes
    <3>3. CASE AdmitRefused
      BY <3>3 DEF AdmitRefused, AnswerPending, Outcomes
    <3> QED BY <1>2, <3>1, <3>2, <3>3
  <2> QED BY <1>0, <1>1, <2>1, <2>2, Holds, AnswerResponds
<1>3. CASE \/ AdmitTop \/ PoolFull \/ NothingReady \/ TakePrepared \/ PlaceWaits
           \/ PlaceFallback \/ PlaceFits \/ Rebuild \/ Admit
  <2>1. answers' = answers
    BY <1>3 DEF AdmitTop, PoolFull, NothingReady, TakePrepared, PlaceWaits, PlaceFallback,
       PlaceFits, Rebuild, Admit, outVars
  <2> QED BY <1>1, <2>1, Silent
<1> QED BY <1>2, <1>3 DEF Admission

(* The rejection of a unit the runner holds.                               *)
LEMMA RejectResponds ==
  ASSUME OwnershipInv, NEW a \in PlaceNames, a # "answers", NEW u \in Units, u \in Place[a],
         RejectOrCancel(u), pc # "done", pc' # "done", UNCHANGED <<sent, envVars>>
  PROVE  Contract!Next
<1> DEFINE outcome == IF Abandoned(u) THEN "cancelled" ELSE "failed"
<1>1. Answer(u, outcome) /\ outcome \in Outcomes
  BY DEF RejectOrCancel, Outcomes
<1>2. /\ outcome \in {"reads", "failed"} => ~Abandoned(u)
      /\ outcome # "screened" /\ (outcome = "cancelled" => Abandoned(u))
  OBVIOUS
<1> HIDE DEF outcome
<1> QED BY <1>1, <1>2, AnswerResponds

(* The shutdown cancels what nobody wants, or rejects it, and then ends.   *)
LEMMA ShutdownResponds ==
  ASSUME ContractInv, Shutdown
  PROVE  Contract!Next \/ UNCHANGED Contract!vars
<1> USE DEF At, Goto
<1>0. /\ ShapeInv /\ OwnershipInv
      /\ {"slots", "pending", "reply", "jobs", "salts"} \subseteq PlaceNames \ {"answers"}
  BY DEF ContractInv, OwnershipInv, PlaceNames
<1>1. CASE \E p \in Pools, s \in SlotIds : FlushSlot(p, s)
  <2>1. PICK p \in Pools, s \in SlotIds : FlushSlot(p, s)
    BY <1>1
  <2> DEFINE u == live[p][s].unit
             outcome == IF fault /\ ~Abandoned(u) THEN "failed" ELSE "cancelled"
  <2>2. /\ Answer(u, outcome) /\ outcome \in Outcomes
        /\ pc # "done" /\ pc' # "done" /\ UNCHANGED <<sent, envVars>>
    BY <2>1 DEF FlushSlot, Outcomes, inVars
  <2>3. u \in Units /\ u \in Place["slots"]
    BY <1>0, <2>1, Holds DEF FlushSlot
  <2>4. fault \/ outClosed
    BY <2>1 DEF FlushSlot, ContractInv, FlushInv, Empty
  <2>5. /\ outcome \in {"reads", "failed"} => ~Abandoned(u)
        /\ outcome # "screened" /\ (outcome = "cancelled" => Abandoned(u) \/ outClosed)
    BY <2>4
  <2> HIDE DEF u, outcome
  <2> QED BY <1>0, <2>2, <2>3, <2>5, AnswerResponds
<1>2. CASE DrainReady
  <2>1. /\ RejectOrCancel(Head(ready)) /\ ready # <<>> /\ reply[Head(ready)] # None
        /\ pc # "done" /\ pc' # "done" /\ UNCHANGED <<sent, envVars>>
    BY <1>2 DEF DrainReady, Collect, inVars
  <2> QED BY <1>0, <2>1, Holds, RejectResponds
<1>3. CASE DrainPending
  <2>1. pc # "done" /\ pc' # "done" /\ UNCHANGED <<sent, envVars>>
    BY <1>3 DEF DrainPending, inVars
  <2>2. CASE pending = None
    <3>1. answers' = answers
      BY <1>3, <2>2 DEF DrainPending, outVars
    <3> QED BY <2>1, <3>1, Silent
  <2>3. CASE pending # None
    <3>1. RejectOrCancel(pending.unit)
      BY <1>3, <2>3 DEF DrainPending
    <3> QED BY <1>0, <2>1, <2>3, <3>1, Holds, RejectResponds
  <2> QED BY <2>2, <2>3
<1>4. CASE DrainJob
  <2>1. /\ RejectOrCancel(Head(jobs)) /\ jobs # <<>>
        /\ pc # "done" /\ pc' # "done" /\ UNCHANGED <<sent, envVars>>
    BY <1>4 DEF DrainJob
  <2> QED BY <1>0, <2>1, Holds, RejectResponds
<1>5. CASE DrainSalt
  <2>1. /\ RejectOrCancel(Head(salts)) /\ salts # <<>>
        /\ pc # "done" /\ pc' # "done" /\ UNCHANGED <<sent, envVars>>
    BY <1>5 DEF DrainSalt
  <2> QED BY <1>0, <2>1, Holds, RejectResponds
<1>6. CASE FlushDone \/ DrainReadyDone \/ DrainJobsDone
  <2>1. pc # "done" /\ pc' # "done" /\ UNCHANGED <<sent, answers, envVars>>
    BY <1>6 DEF FlushDone, DrainReadyDone, DrainJobsDone, inVars, outVars
  <2> QED BY <2>1, Silent
<1>7. CASE DrainSaltsDone
  <2>1. /\ pc = "drainSalts" /\ pc' = "done" /\ salts = <<>>
        /\ UNCHANGED <<sent, answers, envVars>>
    BY <1>7 DEF DrainSaltsDone, inVars, outVars
  <2>2. \A u \in sent \intersect Jobs : answers[u] # <<>>
    BY <2>1, EndsSettled DEF Elems
  <2>3. Gone' = Gone /\ outClosed' = outClosed
    BY <2>1 DEF Gone, Abandoned, envVars
  <2>4. Contract!End
    BY <2>1, <2>2, <2>3 DEF Contract!End, Gone
  <2> QED BY <2>4 DEF Contract!Next
<1> QED BY <1>1, <1>2, <1>3, <1>4, <1>5, <1>6, <1>7 DEF Shutdown

(* Units are accepted once, and jobs not after the end, because the runner *)
(* waits for the places it has given away.                                 *)
LEMMA CallersPromise ==
  ASSUME ContractInv, Callers
  PROVE  Contract!Next \/ UNCHANGED Contract!vars
<1> USE DEF At
<1>0. pc' = pc /\ answers' = answers
  BY DEF Callers, Reserve, SendJob, Cancel, SendSalt, StopLease, CloseInput, ReadResult,
     CloseOut, ctlVars, outVars
<1>1. CASE \/ \E u \in Jobs : SendJob(u)
           \/ \E u \in Salts : SendSalt(u)
  <2>1. PICK u \in Units : /\ SendJob(u) \/ SendSalt(u)
                           /\ u \in Jobs => SendJob(u)
    BY <1>1 DEF Units
  <2>2. /\ u \notin sent /\ sent' = sent \union {u} /\ UNCHANGED envVars
        /\ u \in Jobs => pc # "done"
    BY <2>1 DEF SendJob, SendSalt, ContractInv, OwnershipInv, PermitsUnsent, WindDown
  <2>3. Gone' = Gone /\ outClosed' = outClosed
    BY <2>2 DEF Gone, Abandoned, envVars
  <2>4. Contract!Accept(u)
    BY <1>0, <2>2, <2>3 DEF Contract!Accept, Gone
  <2> QED BY <2>4 DEF Contract!Next, Contract!Units, Units
<1>2. CASE (\E u \in Jobs : Cancel(u)) \/ (\E l \in Leases : StopLease(l))
  <2>1. /\ UNCHANGED <<sent, outClosed>>
        /\ cancelled \subseteq cancelled' /\ stopped \subseteq stopped'
    BY <1>2 DEF Cancel, StopLease, inVars
  <2>2. Gone' = Gone \union Gone' /\ Gone' \in SUBSET Contract!Units
    BY <2>1 DEF Gone, Abandoned, Contract!Units, Units
  <2>3. Contract!Abandon(Gone')
    BY <1>0, <2>1, <2>2 DEF Contract!Abandon, Gone
  <2> QED BY <2>2, <2>3 DEF Contract!Next
<1>3. CASE CloseOut
  <2>1. outClosed' = TRUE /\ sent' = sent /\ Gone' = Gone
    BY <1>3 DEF CloseOut, Gone, Abandoned, inVars
  <2>2. Contract!Close
    BY <1>0, <2>1 DEF Contract!Close, Gone
  <2> QED BY <2>2 DEF Contract!Next
<1>4. CASE (\E u \in Jobs : Reserve(u)) \/ CloseInput \/ ReadResult
  <2>1. UNCHANGED <<sent, envVars>>
    BY <1>4 DEF Reserve, CloseInput, ReadResult, inVars
  <2> QED BY <1>0, <2>1, Silent
<1> QED BY <1>1, <1>2, <1>3, <1>4 DEF Callers

(* Every step of the stream is one the contract allows.                    *)
LEMMA NextPromises ==
  ContractInv /\ [Next]_vars => [Contract!Next]_(Contract!vars)
<1> SUFFICES ASSUME ContractInv, [Next]_vars
             PROVE  Contract!Next \/ UNCHANGED Contract!vars
  OBVIOUS
<1> USE DEF At, Goto
<1>1. CASE Intake \/ Stepping
  <2>1. UNCHANGED <<sent, answers, envVars>> /\ pc # "done" /\ pc' # "done"
    BY <1>1 DEF Intake, Start, StartFails, RunnerTop, FillJob, FillSalt, FillDone, Filling,
       Stepping, Exit, Stay, Unthrottled, Throttled, YieldEnds, CommitStep, StepClosed,
       inVars, outVars
  <2> QED BY <2>1, Silent
<1>2. CASE \/ (\E w \in WorkerIds : Prepare(w)) \/ (\E p \in Pools : CompleteCommand(p))
           \/ UNCHANGED vars
  <2>1. UNCHANGED <<sent, answers, envVars>> /\ pc' = pc
    BY <1>2 DEF Prepare, CompleteCommand, vars, inVars, outVars, ctlVars
  <2> QED BY <2>1, Silent
<1> QED BY <1>1, <1>2, HarvestResponds, AdmissionResponds, ShutdownResponds, CallersPromise
        DEF Next, Runner, Finished

(* The runner, with its workers, pools and channels, is a stream as        *)
(* StreamContract promises it (run, behind sample_stream).                 *)
THEOREM KeepsContract == Spec => ImplementsContract
<1> QED
  BY InitPromises, NextPromises, ContractInvariant, PTL
     DEF Spec, ImplementsContract, Contract!Spec
=============================================================================
