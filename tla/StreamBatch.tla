----------------------------- MODULE StreamBatch -----------------------------
(***************************************************************************)
(* The batch stream of the SA and Gibbs kernels (and of MSA outside the    *)
(* resident runner): jobs of one key are collected into a batch, the batch *)
(* is split into chunks of the schedule, and two batches alternate on the  *)
(* GPU with one chunk each.  Cancellation, throttling and a closed result  *)
(* channel arrive between any two steps; a chunk may end in an error.      *)
(*                                                                         *)
(* Code: run_stream (src/src/streaming.rs), EncodedBatch (src/src/         *)
(* sampler.rs).  A batch keeps the state of its jobs in buffers rented     *)
(* from a pool with whatever they hold (for SA and Gibbs they are new and  *)
(* zeroed); they are one buffer here, with a region for each job, and a    *)
(* region says whose state it is and how far it was annealed.              *)
(***************************************************************************)
EXTENDS Naturals, Sequences, FiniteSets, SequencesExt, Dispatch

CONSTANTS
  N,          (* the jobs are 1 .. N, handed over in this order             *)
  KeyOf,      (* per job, topology and parameters other than the reads      *)
  ReadsOf,    (* per job, the reads asked for                               *)
  MarkOf,     (* per job, its watermark                                     *)
  NodesOf, DegreeOf,  (* per key, the nodes and the largest degree          *)
  Devices,    (* bytes of memory a threadgroup of the device may have       *)
  Betas,      (* rungs of the schedule                                      *)
  Shares,     (* the shares of a batch the governor may grant, in per cent  *)
  PoolCap,    (* buffers the pool keeps                                     *)
  JobCap, OutCap,
  MaxEvents,  (* bound: cancellations, changes of the governor's mind and a *)
              (* dropped result channel, together                           *)
  None

Jobs == 1 .. N
Outcomes == {"reads", "failed", "cancelled"}
Marks == {MarkOf[j] : j \in Jobs}
Keys == {KeyOf[j] : j \in Jobs}
Buffers == 1 .. PoolCap + 3
Batches == [jobs : Seq(Jobs), inputs : Seq(Jobs), buf : Buffers, key : Keys, limit : 1 .. Betas,
            cmds : Seq({"running", "completed", "error"})]

ASSUME BatchAssumption ==
  /\ {N, Betas, JobCap, OutCap} \subseteq Nat \ {0} /\ {PoolCap, MaxEvents} \subseteq Nat
  /\ Shares \subseteq 1 .. 100 /\ Shares # {}
  /\ DOMAIN KeyOf = Jobs /\ DOMAIN MarkOf = Jobs /\ ReadsOf \in [Jobs -> Nat]
  /\ NodesOf \in [Keys -> Nat] /\ DegreeOf \in [Keys -> Nat] /\ Devices \subseteq Nat
  /\ None \notin Jobs \union Batches

VARIABLES
  jobs,       (* the session's job channel                                  *)
  inputOpen,
  outLen,     (* results in the result channel                              *)
  outClosed,
  gone,       (* cancelled watermarks                                       *)
  throttle,   (* the governor asks for a pause                              *)
  events,     (* how many of MaxEvents have happened                        *)
  pc,
  mode,       (* how a batch is formed: "blocking" or "overlap"             *)
  forming,    (* jobs collected for the batch being formed                  *)
  room,       (* how many it may hold                                       *)
  pending,    (* a job of another key, kept to seed the next batch          *)
  current,    (* the batch taken from the queue                             *)
  queue,      (* the other batch                                            *)
  unsent,     (* results that are fixed and not sent yet                    *)
  after,      (* where the loop goes on when they are sent                  *)
  sent,       (* history: jobs handed over                                  *)
  device,     (* the bytes of a threadgroup                                 *)
  cached,     (* the key whose topology the device keeps                    *)
  free,       (* the buffers in the pool                                    *)
  memory,     (* per buffer, its regions                                    *)
  answers,    (* history: per job, the outcomes fixed for it                *)
  read,       (* history: per job, what its reads were taken from           *)
  ran, reported  (* history: jobs that had GPU time, and whose GPU time the *)
                 (* governor was told                                       *)

sessionVars == <<jobs, inputOpen, outClosed, gone, throttle, events, sent>>
formVars == <<mode, forming, room, pending>>
deviceVars == <<device, cached, free, memory>>
batchVars == <<current, queue, deviceVars, read, ran, reported>>
sendVars == <<outLen, unsent, after>>
vars == <<sessionVars, pc, formVars, batchVars, sendVars, answers>>

-----------------------------------------------------------------------------
(* Batches *)

Cancelled(j) == MarkOf[j] \in gone

(* Mutant: the key leaves the watermark out.                               *)
SameKeyAnyMark(j, k) == KeyOf[j] = KeyOf[k]
SameKey(j, k) ==
  /\ KeyOf[j] = KeyOf[k] /\ MarkOf[j] = MarkOf[k]
  /\ AskedReads(ReadsOf[j]) = AskedReads(ReadsOf[k])

Running(b) == b.cmds # <<>> /\ Last(b.cmds) = "running"
Failed(b) == \E k \in 1 .. Len(b.cmds) : b.cmds[k] # "completed"
AnyCancelled(b) == \E j \in ToSet(b.jobs) : Cancelled(j)

(* commit_next: one chunk more, unless one is unfinished or failed, the    *)
(* plan is used up, or the jobs are cancelled.                             *)
CanCommit(b) == ~AnyCancelled(b) /\ ~Failed(b) /\ Len(b.cmds) < Chunks(b.limit, Betas)
Committed(b) == [b EXCEPT !.cmds = Append(@, "running")]

-----------------------------------------------------------------------------
(* Buffers *)

InHand == (IF current = None THEN {} ELSE {current}) \union ToSet(queue)
Blank == [job |-> None, key |-> None, rungs |-> 0]

(* The smallest free buffer that is long enough and not twice too long,    *)
(* with what it holds, or a new one.                                       *)
Fitting(len) == {b \in free : len <= Len(memory[b]) /\ Len(memory[b]) <= 2 * len}
Rented(len) ==
  IF Fitting(len) # {}
  THEN CHOOSE b \in Fitting(len) : \A c \in Fitting(len) : Len(memory[b]) <= Len(memory[c])
  ELSE Min(Buffers \ (free \union {b.buf : b \in InHand}))
Storage(len) ==
  IF Fitting(len) # {} THEN memory[Rented(len)] ELSE [p \in 1 .. len |-> Blank]

(* Mutant: a buffer stays in the pool while it is rented.                  *)
TakenNot(len) == free
Taken(len) == free \ {Rented(len)}

(* The pool keeps what it has room for.                                    *)
Give(buffers) ==
  LET kept == Min({PoolCap - Cardinality(free), Cardinality(buffers)})
  IN free \union (CHOOSE s \in SUBSET buffers : Cardinality(s) = kept)

(* A batch that is dropped gives its buffer back, unless the GPU is at it. *)
GivenBack(bs) == Give({b.buf : b \in {c \in bs : ~Running(c)}})

(* Region p gets the coefficients of the p-th job.                         *)
Uploaded(js) == [p \in DOMAIN js |-> js[p]]

(* The topology the batch is annealed on: a miss replaces the cached one.  *)
(* Mutant: it does not.                                                    *)
TopologyKept(key) == IF cached = None THEN key ELSE cached
Topology(key) == key

(* The reads of the p-th job: the asked ones of those in its region.       *)
Reads(b, p) ==
  LET held == memory[b.buf][p]
  IN [job |-> held.job, key |-> held.key, rungs |-> held.rungs,
      count |-> Min({Max({ReadsOf[b.jobs[p]], 1}), RoundedReads(ReadsOf[b.jobs[1]])})]

-----------------------------------------------------------------------------
(* Results: the outcomes are fixed, then each send may block.              *)

Fix(js, o) == answers' = [j \in Jobs |-> IF j \in ToSet(js) THEN Append(answers[j], o) ELSE answers[j]]

Emit(js, o, next) ==
  /\ Fix(js, o)
  /\ unsent' = Len(js) /\ after' = next /\ pc' = "send" /\ UNCHANGED outLen

Quiet == UNCHANGED <<sendVars, answers>>

(* A result nobody waits for is dropped.                                   *)
SendResult ==
  /\ pc = "send"
  /\ outClosed \/ outLen < OutCap
  /\ outLen' = IF outClosed THEN outLen ELSE outLen + 1
  /\ unsent' = unsent - 1
  /\ pc' = IF unsent = 1 THEN after ELSE "send"
  /\ UNCHANGED <<sessionVars, formVars, batchVars, after, answers>>

-----------------------------------------------------------------------------
(* Forming a batch *)

(* No batch: the overlap path goes on with the batch in hand; else nothing *)
(* is in flight, and the stream ends.                                      *)
NoBatch == IF mode = "overlap" THEN "wait" ELSE "done"
Retry == IF mode = "overlap" THEN "wait" ELSE "form"

(* A closed channel is seen on the way to a batch.  One that is encoded by *)
(* then goes back to the pool, which no batch uses again.                  *)
FormGivesUp ==
  /\ pc \in {"form", "gated", "encode"} /\ outClosed
  /\ pc' = NoBatch /\ forming' = <<>>
  /\ UNCHANGED <<sessionVars, mode, room, pending, batchVars>> /\ Quiet

Form ==
  /\ pc = "form" /\ ~outClosed
  /\ pc' = IF throttle THEN "paused" ELSE "gated"
  /\ UNCHANGED <<sessionVars, formVars, batchVars>> /\ Quiet

(* Mutant: the pause starts anew while the governor asks for it.           *)
ResumeUnthrottled ==
  /\ pc = "paused" /\ pc' = IF throttle THEN "form" ELSE "gated"
  /\ UNCHANGED <<sessionVars, formVars, batchVars>> /\ Quiet
(* The pause is bounded: it ends although the governor asks for more.      *)
Resume ==
  /\ pc = "paused" /\ pc' = "gated"
  /\ UNCHANGED <<sessionVars, formVars, batchVars>> /\ Quiet

Gated ==
  /\ pc = "gated" /\ ~outClosed /\ pc' = "seed"
  /\ UNCHANGED <<sessionVars, formVars, batchVars>> /\ Quiet

(* A job that needs no GPU is answered at once.                            *)
Turned(j) ==
  CASE Cancelled(j) -> "cancelled"
    [] ~Cancelled(j) /\ NodesOf[KeyOf[j]] = 0 -> "reads"
    [] ~Cancelled(j) /\ NodesOf[KeyOf[j]] > MaxNodes -> "failed"
    [] OTHER -> None

(* The size of the batch follows the governor's scale.                     *)
Seed(j) ==
  IF Turned(j) # None
  THEN Emit(<<j>>, Turned(j), "seed") /\ UNCHANGED <<forming, room>>
  ELSE /\ forming' = <<j>> /\ pc' = "fill"
       /\ \E share \in Shares : room' = Scaled(BatchSize(ReadsOf[j]), share)
       /\ Quiet

SeedPending ==
  /\ pc = "seed" /\ pending # None
  /\ pending' = None /\ Seed(pending)
  /\ UNCHANGED <<sessionVars, mode, batchVars>>

SeedJob ==
  /\ pc = "seed" /\ pending = None /\ jobs # <<>>
  /\ jobs' = Tail(jobs) /\ Seed(Head(jobs))
  /\ UNCHANGED <<inputOpen, outClosed, gone, throttle, events, sent, mode, pending, batchVars>>

NoSeed ==
  /\ pc = "seed" /\ pending = None /\ jobs = <<>>
  /\ mode = "overlap" \/ ~inputOpen
  /\ pc' = NoBatch
  /\ UNCHANGED <<sessionVars, formVars, batchVars>> /\ Quiet

(* Mutant: the job that does not fit the batch is dropped.                 *)
PutAsideNever(j) == UNCHANGED pending
PutAside(j) == pending' = j

Fill ==
  /\ pc = "fill" /\ Len(forming) < room /\ jobs # <<>>
  /\ jobs' = Tail(jobs)
  /\ LET j == Head(jobs) IN
     CASE Turned(j) # None ->
            Emit(<<j>>, Turned(j), "fill") /\ UNCHANGED <<forming, pending>>
       [] Turned(j) = None /\ SameKey(Head(forming), j) ->
            forming' = Append(forming, j) /\ UNCHANGED <<pc, pending>> /\ Quiet
       [] OTHER -> PutAside(j) /\ pc' = "sift" /\ UNCHANGED forming /\ Quiet
  /\ room' = IF pc' = "sift" THEN 1 ELSE room
  /\ UNCHANGED <<inputOpen, outClosed, gone, throttle, events, sent, mode, batchVars>>

(* The batch is full, the channel stays empty, or the time is up.          *)
Filled ==
  /\ pc = "fill" /\ pc' = "sift" /\ room' = 1
  /\ UNCHANGED <<sessionVars, mode, forming, pending, batchVars>> /\ Quiet

(* The jobs of a list that are among those to keep, in their order.        *)
Kept(js, keep) ==
  LET kept[i \in 0 .. Len(js)] ==
        IF i = 0 THEN <<>>
        ELSE IF js[i] \in keep THEN Append(kept[i - 1], js[i]) ELSE kept[i - 1]
  IN kept[Len(js)]

(* The last look at cancellation before the batch is encoded.              *)
Sift ==
  /\ pc = "sift"
  /\ LET live == Kept(forming, {j \in Jobs : ~Cancelled(j)})
         stale == Kept(forming, {j \in Jobs : Cancelled(j)})
     IN /\ forming' = live
        /\ IF stale = <<>> THEN pc' = "encode" /\ Quiet
           ELSE Emit(stale, "cancelled", IF live = <<>> THEN Retry ELSE "encode")
  /\ UNCHANGED <<sessionVars, mode, room, pending, batchVars>>

(* The rungs of a chunk for a batch of that length, two batches in flight. *)
Limit == [j \in Jobs |-> [len \in 1 .. TgBudget |->
            RungLimit(len, ReadsOf[j], NodesOf[KeyOf[j]], 2, Betas)]]

Encodable(key) == ~Refused(NodesOf[key], DegreeOf[key], Betas * SweepsPer, device)

EncodeFails ==
  /\ pc = "encode" /\ ~outClosed /\ ~Encodable(KeyOf[forming[1]])
  /\ Emit(forming, "failed", Retry) /\ forming' = <<>>
  /\ UNCHANGED <<sessionVars, mode, room, pending, batchVars>>

(* The channel may have closed while the batch was encoded: FormGivesUp.   *)
Encode ==
  /\ pc = "encode" /\ ~outClosed /\ Encodable(KeyOf[forming[1]])
  /\ LET len == Len(forming)
         key == KeyOf[forming[1]]
         b == [jobs |-> forming, inputs |-> Uploaded(forming), buf |-> Rented(len),
               key |-> Topology(key), cmds |-> <<>>, limit |-> Limit[forming[1]][len]]
     IN /\ queue' = Append(queue, IF CanCommit(b) THEN Committed(b) ELSE b)
        /\ ran' = IF CanCommit(b) THEN ran \union ToSet(forming) ELSE ran
        /\ cached' = Topology(key) /\ free' = Taken(len)
        /\ memory' = [memory EXCEPT ![b.buf] = Storage(len)]
  /\ forming' = <<>>
  /\ pc' = IF mode = "overlap" THEN "wait" ELSE "loop"
  /\ UNCHANGED <<sessionVars, mode, room, pending, current, device, read, reported>> /\ Quiet

-----------------------------------------------------------------------------
(* The loop over the batches *)

(* Mutant: the stream waits for another seed while a batch is in hand.     *)
OverlapBlocking == "blocking"
Overlap == "overlap"

(* Mutant: a third batch is formed while two are in hand.                  *)
MayOverlapAny == ~throttle
MayOverlap == Len(queue) = 1 /\ ~throttle

Loop ==
  /\ pc = "loop"
  /\ current' = Head(queue) /\ queue' = Tail(queue)
  /\ IF MayOverlap
     THEN pc' = "form" /\ mode' = Overlap
     ELSE pc' = "wait" /\ UNCHANGED mode
  /\ UNCHANGED <<sessionVars, forming, room, pending, deviceVars, read, ran, reported>> /\ Quiet

(* Mutant: the other batch is dropped as it is.                            *)
DrainAtOnce == TRUE
Drain == \A b \in ToSet(queue) : ~Running(b)

(* Nobody reads any more: both batches are waited for and reported.        *)
GiveUp ==
  /\ pc = "wait" /\ ~Running(current) /\ outClosed /\ Drain
  /\ reported' = reported \union (ran \intersect UNION {ToSet(b.jobs) : b \in InHand})
  /\ free' = GivenBack(InHand)
  /\ current' = None /\ pc' = "done"
  /\ UNCHANGED <<sessionVars, formVars, queue, device, cached, memory, read, ran>> /\ Quiet

NextChunk ==
  /\ pc = "wait" /\ ~Running(current) /\ ~outClosed /\ CanCommit(current)
  /\ queue' = Append(queue, Committed(current)) /\ current' = None
  /\ ran' = ran \union ToSet(current.jobs)
  /\ pc' = "loop"
  /\ UNCHANGED <<sessionVars, formVars, deviceVars, read, reported>> /\ Quiet

(* The harvest fails if the audit finds an energy of the GPU wrong.        *)
Harvests == {"reads", "failed"}

(* Mutant: a batch that was cut short by a cancellation is harvested.      *)
VerdictsAlways(b) == IF Failed(b) THEN {"failed"} ELSE Harvests
(* A failed chunk goes first, then cancellation.                           *)
Verdicts(b) ==
  IF Failed(b) THEN {"failed"}
  ELSE IF AnyCancelled(b) THEN {"cancelled"} ELSE Harvests

Finish ==
  /\ pc = "wait" /\ ~Running(current) /\ ~outClosed /\ ~CanCommit(current)
  /\ \E o \in Verdicts(current) :
       /\ Emit(current.jobs, o, IF queue = <<>> THEN "form" ELSE "loop")
       /\ read' = [j \in Jobs |->
            IF o = "reads" /\ j \in ToSet(current.jobs)
            THEN Reads(current, CHOOSE p \in DOMAIN current.jobs : current.jobs[p] = j)
            ELSE read[j]]
  /\ mode' = IF queue = <<>> THEN "blocking" ELSE mode
  /\ reported' = reported \union (ran \intersect ToSet(current.jobs))
  /\ free' = GivenBack({current}) /\ current' = None
  /\ UNCHANGED <<sessionVars, forming, room, pending, queue, device, cached, memory, ran>>

Host ==
  \/ SendResult
  \/ FormGivesUp \/ Form \/ Resume \/ Gated \/ SeedPending \/ SeedJob \/ NoSeed
  \/ Fill \/ Filled \/ Sift \/ EncodeFails \/ Encode
  \/ Loop \/ GiveUp \/ NextChunk \/ Finish

-----------------------------------------------------------------------------
(* The GPU: the first chunk writes every region in full, each other one    *)
(* goes on from what its predecessor left there.                           *)

Retired(b, status) == [b EXCEPT !.cmds = Append(Front(@), status)]
Annealed(b) ==
  LET c == Chunk(b.limit, Len(b.cmds), Betas) IN
  [p \in DOMAIN memory[b.buf] |->
     IF p > Len(b.inputs) THEN memory[b.buf][p]
     ELSE IF c.start = 0 THEN [job |-> b.inputs[p], key |-> b.key, rungs |-> c.count]
     ELSE [memory[b.buf][p] EXCEPT !.rungs = @ + c.count]]
Written(b, status) ==
  [memory EXCEPT ![b.buf] = IF status = "completed" THEN Annealed(b) ELSE @]

Retires(status) ==
  /\ \/ /\ current # None /\ Running(current)
        /\ current' = Retired(current, status) /\ UNCHANGED queue
        /\ memory' = Written(current, status)
     \/ \E i \in 1 .. Len(queue) :
          /\ Running(queue[i])
          /\ queue' = [queue EXCEPT ![i] = Retired(@, status)] /\ UNCHANGED current
          /\ memory' = Written(queue[i], status)
  /\ UNCHANGED <<sessionVars, pc, formVars, device, cached, free, read, ran, reported, sendVars, answers>>

Gpu == Retires("completed") \/ Retires("error")

-----------------------------------------------------------------------------
(* The session and the governor *)

Event == events < MaxEvents /\ events' = events + 1
HostStays == UNCHANGED <<pc, formVars, batchVars, unsent, after, answers>>

SendJob(j) ==
  /\ inputOpen /\ j = Cardinality(sent) + 1 /\ Len(jobs) < JobCap /\ pc # "done"
  /\ jobs' = Append(jobs, j) /\ sent' = sent \union {j}
  /\ HostStays /\ UNCHANGED <<inputOpen, outLen, outClosed, gone, throttle, events>>

CloseInput ==
  /\ inputOpen /\ inputOpen' = FALSE
  /\ HostStays /\ UNCHANGED <<jobs, outLen, outClosed, gone, throttle, events, sent>>

Cancel(m) ==
  /\ m \notin gone /\ gone' = gone \union {m} /\ Event
  /\ HostStays /\ UNCHANGED <<jobs, inputOpen, outLen, outClosed, throttle, sent>>

ReadResult ==
  /\ outLen > 0 /\ ~outClosed /\ outLen' = outLen - 1
  /\ HostStays /\ UNCHANGED sessionVars

CloseOut ==
  /\ ~outClosed /\ outClosed' = TRUE /\ Event
  /\ HostStays /\ UNCHANGED <<jobs, inputOpen, outLen, gone, throttle, sent>>

Govern ==
  /\ throttle' = ~throttle /\ Event
  /\ HostStays /\ UNCHANGED <<jobs, inputOpen, outLen, outClosed, gone, sent>>

Finished == pc = "done" /\ UNCHANGED vars

-----------------------------------------------------------------------------
(* Specification *)

Init ==
  /\ jobs = <<>> /\ inputOpen = TRUE /\ outLen = 0 /\ outClosed = FALSE /\ gone = {}
  /\ throttle \in BOOLEAN /\ events = 0
  /\ pc = "form" /\ mode = "blocking" /\ forming = <<>> /\ room = 1 /\ pending = None
  /\ current = None /\ queue = <<>> /\ unsent = 0 /\ after = "form"
  /\ sent = {} /\ answers = [j \in Jobs |-> <<>>]
  /\ device \in Devices /\ cached = None /\ free = {} /\ memory = [b \in Buffers |-> <<>>]
  /\ read = [j \in Jobs |-> None] /\ ran = {} /\ reported = {}

Session ==
  \/ \E j \in Jobs : SendJob(j)
  \/ \E m \in Marks : Cancel(m)
  \/ CloseInput \/ ReadResult \/ CloseOut \/ Govern

Next == Host \/ Gpu \/ Session \/ Finished

Spec == Init /\ [][Next]_vars

(* The host thread, a GPU that ends every chunk, and a session that reads  *)
(* results.  The governor may ask for a pause for ever.                    *)
FairSpec == Spec /\ WF_vars(Host) /\ WF_vars(Gpu) /\ WF_vars(ReadResult)

-----------------------------------------------------------------------------
(* Properties *)

(* The type invariant, with the bound of two batches.                      *)
TypeOK ==
  /\ jobs \in Seq(Jobs) /\ Len(jobs) <= JobCap /\ outLen \in 0 .. OutCap
  /\ {inputOpen, outClosed, throttle} \subseteq BOOLEAN /\ events \in 0 .. MaxEvents
  /\ gone \subseteq Marks /\ {sent, ran, reported} \subseteq SUBSET Jobs
  /\ {pc, after} \subseteq {"form", "paused", "gated", "seed", "fill", "sift", "encode",
                           "send", "loop", "wait", "done"}
  /\ mode \in {"blocking", "overlap"}
  /\ forming \in Seq(Jobs) /\ {room, Len(forming)} \subseteq 0 .. TgBudget
  /\ pending \in Jobs \union {None} /\ unsent \in Nat
  /\ InHand \subseteq Batches /\ Cardinality(InHand) <= 2
  /\ answers \in [Jobs -> Seq(Outcomes)] /\ free \subseteq Buffers /\ Cardinality(free) <= PoolCap

(* A job handed over is always in exactly one hand: the channel, aside,    *)
(* being collected, in one batch, or answered; only a session that dropped *)
(* the result channel loses jobs.                                          *)
Owners(j) ==
  {o \in {"channel", "aside", "forming", "batch", "session"} :
     CASE o = "channel" -> j \in ToSet(jobs)
       [] o = "aside" -> pending = j
       [] o = "forming" -> j \in ToSet(forming)
       [] o = "batch" -> \E b \in InHand : j \in ToSet(b.jobs)
       [] OTHER -> answers[j] # <<>>}
JobsKept ==
  /\ \A b, c \in InHand : b # c => ToSet(b.jobs) \intersect ToSet(c.jobs) = {}
  /\ \A j \in sent : Cardinality(Owners(j)) <= 1 /\ (~outClosed => Owners(j) # {})

(* The reads of a job are as many as it asked for, and come from its own   *)
(* region, annealed on its own topology through every rung: never from a   *)
(* batch that was cut short, a buffer that another batch writes, or what a *)
(* pooled buffer still held.                                               *)
ReadsAnnealed ==
  \A j \in {k \in Jobs : NodesOf[KeyOf[k]] > 0} : "reads" \in ToSet(answers[j]) =>
    read[j] = [job |-> j, key |-> KeyOf[j], rungs |-> Betas, count |-> AskedReads(ReadsOf[j])]

(* "Never wait for another seed while a batch holds coordinator credits."  *)
HoldsNoCredit ==
  pc = "seed" /\ mode = "blocking" => InHand = {} /\ forming = <<>>

(* Every job is in one hand, in a batch of bounded size, and none waits    *)
(* unserved while the runner waits for another seed.                       *)
BatchInv == TypeOK /\ JobsKept /\ HoldsNoCredit

(* When the stream returns, the GPU is idle, and every batch that had GPU  *)
(* time was reported to the governor, the failed and dropped ones too.     *)
IdleAtEnd == pc = "done" => ran = reported /\ \A b \in InHand : ~Running(b)

(* The stream keeps the promises of StreamContract.                        *)
Contract == INSTANCE StreamContract WITH
  Salts <- {}, Lossy <- TRUE, accepted <- sent,
  abandoned <- {j \in Jobs : Cancelled(j)}, closed <- outClosed, ended <- pc = "done"
ImplementsContract == Contract!Spec

(* Every job is answered while results are read, however long the governor *)
(* asks for a pause; and the stream returns after the end of the input.    *)
JobsAnswered == outClosed \/ \A j \in sent : answers[j] # <<>>
StreamEnded == inputOpen \/ pc = "done"
Served == []<>(JobsAnswered /\ StreamEnded)
=============================================================================
