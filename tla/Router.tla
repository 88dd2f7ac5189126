------------------------------- MODULE Router -------------------------------
(***************************************************************************)
(* The router of the combined sampler: it takes stream jobs from the       *)
(* session, hands each to the Metal or to the ANE engine, which run in     *)
(* threads of their own behind bounded channels, and forwards what they    *)
(* answer.  Settings change, watermarks are cancelled, engines fail and    *)
(* the session closes either channel at any step.                          *)
(*                                                                         *)
(* Code: Router::run, MetalEngine::run and AneEngine::run                  *)
(* (src/src/combined.rs).  Below the Metal engine is the stream that       *)
(* StreamContract describes; below the ANE engine is AneWorker.            *)
(***************************************************************************)
EXTENDS Naturals, Sequences, FiniteSets

CONSTANTS
  Jobs,
  Able,        (* per job, the engines whose limits it meets                *)
  MetalWidth,  (* jobs the Metal engine may hold                            *)
  JobCap,      (* capacity of the session's job channel                     *)
  OutCap,      (* capacity of its result channel                            *)
  Configs,     (* settings: whether they are valid, and the enabled engines *)
  FirstConfig,
  MaxEvents,   (* bound: cancellations, settings, engine failures and a     *)
               (* dropped result channel, together                          *)
  None

Engines == {"metal", "ane"}
Outcomes == {"reads", "failed", "cancelled"}
Limit == [e \in Engines |-> IF e = "metal" THEN MetalWidth ELSE 1]
Capacity == MetalWidth + 1

ASSUME RouterAssumption ==
  /\ MetalWidth \in Nat \ {0} /\ JobCap \in Nat \ {0} /\ OutCap \in Nat \ {0}
  /\ Able \in [Jobs -> SUBSET Engines]
  /\ FirstConfig \in Configs
  /\ \A c \in Configs : c.valid \in BOOLEAN /\ c.enabled \subseteq Engines
  /\ MaxEvents \in Nat /\ None \notin Outcomes /\ None \notin Configs

VARIABLES
  settings,
  events,     (* how many of MaxEvents have happened                       *)
  jobs,       (* the session's job channel                                  *)
  inputOpen,  (* the session may still send                                 *)
  outLen,     (* results in the result channel, or in a send that blocks    *)
  outClosed,  (* the session dropped the result channel                     *)
  cancelled,  (* jobs of cancelled watermarks                               *)
  pc,         (* where the router's loop stands                             *)
  turn,       (* the engine whose results are collected                     *)
  left,       (* queued jobs still to be looked at in this pass             *)
  pending,    (* the router's queue: jobs, each with its last scan: the     *)
              (* settings it was read by and the engines it was fit for     *)
  active,     (* per engine, the jobs reserved for it                       *)
  dead,       (* per engine, whether the router has given it up             *)
  sender,     (* per engine, whether the router holds its job sender        *)
  eof, stop,
  engine,     (* per engine, where its thread stands                        *)
  inbox,      (* per engine, its job channel                                *)
  taking,     (* per engine, whether that channel's receiver is open        *)
  held,       (* per engine, jobs it has taken and not answered             *)
  outbox,     (* per engine, its result channel                             *)
  receiver,   (* the router still holds the receivers of the outboxes       *)
  sent,       (* history: jobs handed over by the session                   *)
  outcome,    (* history: per job, the outcome fixed for it                 *)
  replies,    (* history: per job, the results sent to the session          *)
  broken,     (* history: engines that failed                               *)
  since       (* history: the settings that were in force since the router  *)
              (* took up the job it looks at, and the jobs that were        *)
              (* already cancelled when it did                              *)

sessionVars == <<settings, jobs, inputOpen, outClosed, cancelled>>
loopVars == <<pc, turn, left>>
routeVars == <<pending, active, dead, sender, eof, stop, receiver>>
engineVars == <<engine, inbox, taking, held, outbox, broken>>
answerVars == <<outLen, outcome, replies>>
vars == <<sessionVars, loopVars, routeVars, engineVars, answerVars, sent, events, since>>

Event == events < MaxEvents /\ events' = events + 1
Calm == UNCHANGED events

-----------------------------------------------------------------------------
(* Eligibility *)

Eligible(j, c) == IF c.valid THEN Able[j] \intersect c.enabled ELSE {}

(* Mutant: what was found under older settings is used again.              *)
ScannedOnce(entry, c) == IF entry.cfg # None THEN entry.fit ELSE Eligible(entry.job, c)
(* The scan of a job is remembered, and holds for the settings it was read *)
(* by.                                                                     *)
Scanned(entry, c) == IF entry.cfg = c THEN entry.fit ELSE Eligible(entry.job, c)

Usable(fit) == {e \in fit : ~dead[e]}

(* Mutant: reservations are not counted.                                   *)
HasCreditUncounted(e) == TRUE
HasCredit(e) == Cardinality(active[e]) < Limit[e]
Ready(fit) == {e \in Usable(fit) : HasCredit(e)}
(* The ANE engine is preferred.                                            *)
Choose(set) == IF "ane" \in set THEN "ane" ELSE "metal"

(* "Queue plus engine reservations never exceeds advertised credits."      *)
Owned == Len(pending) + Cardinality(active["metal"]) + Cardinality(active["ane"])

-----------------------------------------------------------------------------
(* Sending to the session: the outcome is fixed, then the send may block.  *)

(* Mutant: results are queued without bound.                               *)
UnblockedAlways == TRUE
Unblocked == outLen <= OutCap
Runs(label) == pc = label /\ Unblocked

Reply(j, o) ==
  /\ outcome' = [outcome EXCEPT ![j] = o]
  /\ replies' = [replies EXCEPT ![j] = Append(@, o)]
  /\ outLen' = outLen + 1

(* A send on a closed channel ends the loop.                               *)
Forward(j, o, label) ==
  IF outClosed
  THEN /\ stop' = TRUE /\ pc' = "stopping"
       /\ UNCHANGED <<outLen, outcome, replies>>
  ELSE Reply(j, o) /\ pc' = label /\ UNCHANGED stop

BlockedSendFails ==
  /\ ~Unblocked /\ outClosed
  /\ outLen' = outLen - 1
  /\ stop' = TRUE /\ pc' = "stopping"
  /\ UNCHANGED <<sessionVars, turn, left, pending, active, dead, sender, eof, receiver,
                 engineVars, outcome, replies, sent, events, since>>

-----------------------------------------------------------------------------
(* The router's loop *)

(* Mutant: the loop does not look whether anybody still reads.             *)
TopUnwatched ==
  /\ Runs("top")
  /\ pc' = "collect" /\ turn' = "metal"
  /\ UNCHANGED <<sessionVars, left, routeVars, engineVars, answerVars, sent, events, since>>

Top ==
  /\ Runs("top")
  /\ IF outClosed THEN stop' = TRUE /\ pc' = "stopping" /\ UNCHANGED turn
     ELSE pc' = "collect" /\ turn' = "metal" /\ UNCHANGED stop
  /\ UNCHANGED <<sessionVars, left, pending, active, dead, sender, eof, receiver,
                 engineVars, answerVars, sent, events, since>>

(* A fatal error gives the engine up; its other jobs are still answered.   *)
GivesUp(e, r) ==
  IF r.fatal
  THEN dead' = [dead EXCEPT ![e] = TRUE] /\ sender' = [sender EXCEPT ![e] = FALSE]
  ELSE UNCHANGED <<dead, sender>>

Collect ==
  /\ Runs("collect") /\ outbox[turn] # <<>>
  /\ LET r == Head(outbox[turn]) IN
     /\ outbox' = [outbox EXCEPT ![turn] = Tail(@)]
     /\ active' = [active EXCEPT ![turn] = @ \ {r.job}]
     /\ IF r.job \in active[turn]
        THEN GivesUp(turn, r) /\ Forward(r.job, r.outcome, "collect")
        ELSE UNCHANGED <<pc, stop, dead, sender, outLen, outcome, replies>>
  /\ UNCHANGED <<sessionVars, turn, left, pending, eof, receiver, engine, inbox, taking,
                 held, broken, sent, events, since>>

NextTurn == IF turn = "metal" THEN pc' = "collect" /\ turn' = "ane"
            ELSE pc' = "take" /\ UNCHANGED turn

CollectedAll ==
  /\ Runs("collect") /\ outbox[turn] = <<>> /\ engine[turn] # "ended"
  /\ NextTurn
  /\ UNCHANGED <<sessionVars, left, routeVars, engineVars, answerVars, sent, events, since>>

(* Mutant: the jobs of an engine that ended are forgotten.                 *)
CollectEndedForgets ==
  /\ Runs("collect") /\ outbox[turn] = <<>> /\ engine[turn] = "ended"
  /\ dead' = [dead EXCEPT ![turn] = TRUE]
  /\ active' = [active EXCEPT ![turn] = {}]
  /\ NextTurn
  /\ UNCHANGED <<sessionVars, left, pending, sender, eof, stop, receiver, engineVars,
                 answerVars, sent, events, since>>

(* Disconnected: each job that was reserved for the engine gets a fault.   *)
CollectEnded ==
  /\ Runs("collect") /\ outbox[turn] = <<>> /\ engine[turn] = "ended"
  /\ dead' = [dead EXCEPT ![turn] = TRUE]
  /\ IF active[turn] = {}
     THEN NextTurn /\ UNCHANGED <<stop, active, outLen, outcome, replies>>
     ELSE \E j \in active[turn] :
            /\ active' = [active EXCEPT ![turn] = @ \ {j}]
            /\ Forward(j, "failed", "collect")
            /\ UNCHANGED turn
  /\ UNCHANGED <<sessionVars, left, pending, sender, eof, receiver, engineVars, sent, events,
                 since>>

Unread(j) == [job |-> j, cfg |-> None, fit |-> {}]

Take ==
  /\ Runs("take")
  /\ IF Owned < Capacity /\ ~eof
     THEN IF jobs # <<>>
          THEN /\ pending' = Append(pending, Unread(Head(jobs)))
               /\ jobs' = Tail(jobs) /\ UNCHANGED eof
          ELSE eof' = ~inputOpen /\ UNCHANGED <<pending, jobs>>
     ELSE UNCHANGED <<pending, jobs, eof>>
  /\ left' = Len(pending') /\ pc' = "scan"
  /\ UNCHANGED <<settings, inputOpen, outClosed, cancelled, turn, active, dead,
                 sender, stop, receiver, engineVars, answerVars, sent, events, since>>

(* One pass over the queue looks at each job in three steps: it takes up   *)
(* the job if it is still wanted; it reads the settings, which the session *)
(* may change, and scans the job for them; it routes the job by what it    *)
(* read.  The job stays in front of the queue while it is looked at.       *)
Scanning(label) == Runs(label) /\ left > 0
Nothing == [cfgs |-> {}, cancelled |-> {}]
Looked == left' = left - 1 /\ since' = Nothing /\ UNCHANGED turn
Requeue == pending' = Append(Tail(pending), Head(pending))

(* Mutant: the router does not look at cancellation.                       *)
WantedAlways(j) == TRUE
Wanted(j) == j \notin cancelled

ScanCancelled ==
  /\ Scanning("scan") /\ ~Wanted(Head(pending).job)
  /\ pending' = Tail(pending) /\ Looked
  /\ Forward(Head(pending).job, "cancelled", "scan")
  /\ UNCHANGED <<sessionVars, active, dead, sender, eof, receiver, engineVars, sent, events>>

PickUp ==
  /\ Scanning("scan") /\ Wanted(Head(pending).job)
  /\ since' = [cfgs |-> {settings}, cancelled |-> cancelled]
  /\ pc' = "read"
  /\ UNCHANGED <<sessionVars, turn, left, routeVars, engineVars, answerVars, sent, events>>

(* The settings are copied under their lock, the graph is scanned after.   *)
ReadSettings ==
  /\ Scanning("read")
  /\ pending' = [pending EXCEPT ![1] =
                   [@ EXCEPT !.cfg = settings, !.fit = Scanned(pending[1], settings)]]
  /\ pc' = "route"
  /\ UNCHANGED <<sessionVars, turn, left, active, dead, sender, eof, stop, receiver,
                 engineVars, answerVars, sent, events, since>>

(* try_send: room is certain, but the engine may have gone.                *)
ScanAssign ==
  /\ Scanning("route")
  /\ LET j == Head(pending).job
         ready == Ready(Head(pending).fit)
         e == Choose(ready)
     IN
     /\ ready # {}
     /\ Looked /\ pc' = "scan"
     /\ IF sender[e] /\ taking[e]
        THEN /\ inbox' = [inbox EXCEPT ![e] = Append(@, j)]
             /\ active' = [active EXCEPT ![e] = @ \union {j}]
             /\ pending' = Tail(pending) /\ UNCHANGED dead
        ELSE /\ dead' = [dead EXCEPT ![e] = TRUE]
             /\ Requeue /\ UNCHANGED <<inbox, active>>
  /\ UNCHANGED <<sessionVars, sender, eof, stop, receiver, engine, taking, held, outbox,
                 broken, answerVars, sent, events>>

(* Mutant: a job waits for an engine that is dead.                         *)
HopelessUnlessDisabled(fit) == fit = {}
Hopeless(fit) == Usable(fit) = {}

ScanRefuse ==
  /\ Scanning("route") /\ Hopeless(Head(pending).fit)
  /\ pending' = Tail(pending) /\ Looked
  /\ Forward(Head(pending).job, "failed", "scan")
  /\ UNCHANGED <<sessionVars, active, dead, sender, eof, receiver, engineVars, sent, events>>

(* Mutant: a job that waits stays in front and ends the pass.              *)
ScanWaitInFront ==
  /\ Scanning("route")
  /\ Ready(Head(pending).fit) = {} /\ ~Hopeless(Head(pending).fit)
  /\ left' = 0 /\ since' = Nothing /\ pc' = "scan" /\ UNCHANGED <<turn, pending>>
  /\ UNCHANGED <<sessionVars, active, dead, sender, eof, stop, receiver, engineVars,
                 answerVars, sent, events>>

ScanWait ==
  /\ Scanning("route")
  /\ Ready(Head(pending).fit) = {} /\ ~Hopeless(Head(pending).fit)
  /\ Requeue /\ Looked /\ pc' = "scan"
  /\ UNCHANGED <<sessionVars, active, dead, sender, eof, stop, receiver, engineVars,
                 answerVars, sent, events>>

(* Mutant: the loop ends although answers are still to come.               *)
ScanDoneActiveUnseen ==
  /\ Runs("scan") /\ left = 0
  /\ IF eof /\ pending = <<>>
     THEN /\ sender' = [e \in Engines |-> FALSE]
          /\ pc' = "stopping"
     ELSE pc' = "top" /\ UNCHANGED sender
  /\ UNCHANGED <<sessionVars, turn, left, pending, active, dead, eof, stop, receiver,
                 engineVars, answerVars, sent, events, since>>

(* At the end of the input the engines' senders go when the queue is empty;*)
(* the loop ends when their last answer has been forwarded.                *)
ScanDone ==
  /\ Runs("scan") /\ left = 0
  /\ IF eof /\ pending = <<>>
     THEN /\ sender' = [e \in Engines |-> FALSE]
          /\ pc' = IF active["metal"] = {} /\ active["ane"] = {} THEN "stopping" ELSE "top"
     ELSE pc' = "top" /\ UNCHANGED sender
  /\ UNCHANGED <<sessionVars, turn, left, pending, active, dead, eof, stop, receiver,
                 engineVars, answerVars, sent, events, since>>

Stopping ==
  /\ pc = "stopping"
  /\ stop' = TRUE /\ sender' = [e \in Engines |-> FALSE] /\ receiver' = FALSE
  /\ outbox' = [e \in Engines |-> <<>>]
  /\ pc' = "joining"
  /\ UNCHANGED <<sessionVars, turn, left, pending, active, dead, eof, engine, inbox, taking,
                 held, broken, answerVars, sent, events, since>>

Joined ==
  /\ pc = "joining" /\ \A e \in Engines : engine[e] = "ended"
  /\ pc' = "done"
  /\ UNCHANGED <<sessionVars, turn, left, routeVars, engineVars, answerVars, sent, events, since>>

RouterStep ==
  \/ Top \/ Collect \/ CollectedAll \/ CollectEnded \/ Take
  \/ ScanCancelled \/ PickUp \/ ReadSettings
  \/ ScanAssign \/ ScanRefuse \/ ScanWait \/ ScanDone
  \/ BlockedSendFails \/ Stopping \/ Joined

-----------------------------------------------------------------------------
(* The engines' threads *)

Ends(e) ==
  /\ engine' = [engine EXCEPT ![e] = "ended"]
  /\ taking' = [taking EXCEPT ![e] = FALSE]
  /\ inbox' = [inbox EXCEPT ![e] = <<>>]
  /\ held' = [held EXCEPT ![e] = {}]

Others == UNCHANGED <<sessionVars, loopVars, routeVars, outLen, replies, sent, since>>

(* The Metal engine waits for a first job before it opens the device: it   *)
(* looks whether a job is there, then whether one can still come.  Leases,  *)
(* which let it start without a job, are left out.                         *)
LookForSeed ==
  /\ engine["metal"] = "waiting"
  /\ engine' = [engine EXCEPT !["metal"] = IF inbox["metal"] = <<>> THEN "looked" ELSE "running"]
  /\ Others /\ Calm /\ UNCHANGED <<inbox, taking, held, outbox, broken, outcome>>

NoSeed ==
  /\ engine["metal"] = "looked"
  /\ IF ~sender["metal"] \/ stop THEN Ends("metal")
     ELSE /\ engine' = [engine EXCEPT !["metal"] = "waiting"]
          /\ UNCHANGED <<taking, inbox, held>>
  /\ Others /\ Calm /\ UNCHANGED <<outbox, broken, outcome>>

(* The ANE engine holds one job at a time.                                 *)
EngineTakes(e) ==
  /\ engine[e] = "running" /\ inbox[e] # <<>>
  /\ e = "ane" => held[e] = {}
  /\ held' = [held EXCEPT ![e] = @ \union {Head(inbox[e])}]
  /\ inbox' = [inbox EXCEPT ![e] = Tail(@)]
  /\ Others /\ Calm /\ UNCHANGED <<engine, taking, outbox, broken, outcome>>

(* A job that was cancelled before its outcome was fixed has no reads.  An *)
(* engine that cannot open answers without a look at cancellation.         *)
EngineAnswers(e) ==
  /\ engine[e] = "running" /\ receiver /\ Len(outbox[e]) < Limit[e]
  /\ \E j \in held[e], o \in Outcomes, fatal \in BOOLEAN :
       /\ o = "reads" => j \notin cancelled
       /\ o = "cancelled" => j \in cancelled \/ stop
       /\ IF fatal THEN o = "failed" /\ Event ELSE Calm
       /\ held' = [held EXCEPT ![e] = @ \ {j}]
       /\ outbox' = [outbox EXCEPT ![e] = Append(@, [job |-> j, outcome |-> o, fatal |-> fatal])]
       /\ outcome' = [outcome EXCEPT ![j] = o]
       /\ broken' = IF fatal THEN broken \union {e} ELSE broken
  /\ Others /\ UNCHANGED <<engine, inbox, taking>>

(* The input is closed and everything is answered, or nobody receives: the *)
(* ANE engine finds out when it answers.                                   *)
EngineEnds(e) ==
  /\ engine[e] = "running"
  /\ \/ ~sender[e] /\ inbox[e] = <<>> /\ held[e] = {}
     \/ ~receiver /\ (e = "metal" \/ held[e] # {})
  /\ Ends(e)
  /\ Others /\ Calm /\ UNCHANGED <<outbox, broken, outcome>>

(* A device fault: the engine closes its input and answers what is in it.  *)
EngineCloses(e) ==
  /\ e = "metal" /\ engine[e] = "running" /\ e \in broken /\ taking[e]
  /\ taking' = [taking EXCEPT ![e] = FALSE]
  /\ Others /\ Calm /\ UNCHANGED <<engine, inbox, held, outbox, broken, outcome>>

EngineDrained(e) ==
  /\ engine[e] = "running" /\ ~taking[e] /\ inbox[e] = <<>> /\ held[e] = {}
  /\ Ends(e)
  /\ Others /\ Calm /\ UNCHANGED <<outbox, broken, outcome>>

(* The thread does not start, or panics.                                   *)
EngineBreaks(e) ==
  /\ engine[e] # "ended" /\ Event
  /\ broken' = broken \union {e}
  /\ Ends(e)
  /\ Others /\ UNCHANGED <<outbox, outcome>>

MetalStep ==
  \/ LookForSeed \/ NoSeed
  \/ EngineTakes("metal") \/ EngineAnswers("metal") \/ EngineEnds("metal")
  \/ EngineCloses("metal") \/ EngineDrained("metal")
AneStep == EngineTakes("ane") \/ EngineAnswers("ane") \/ EngineEnds("ane")

-----------------------------------------------------------------------------
(* The session *)

SessionOnly == UNCHANGED <<loopVars, routeVars, engineVars, outcome, replies>>

SendJob(j) ==
  /\ inputOpen /\ j \notin sent /\ Len(jobs) < JobCap /\ pc # "done"
  /\ jobs' = Append(jobs, j) /\ sent' = sent \union {j}
  /\ Calm /\ SessionOnly
  /\ UNCHANGED <<settings, inputOpen, outLen, outClosed, cancelled, since>>

CloseInput ==
  /\ inputOpen /\ inputOpen' = FALSE
  /\ Calm /\ SessionOnly
  /\ UNCHANGED <<settings, jobs, outLen, outClosed, cancelled, sent, since>>

Cancel(j) ==
  /\ j \notin cancelled /\ cancelled' = cancelled \union {j} /\ Event
  /\ SessionOnly
  /\ UNCHANGED <<settings, jobs, inputOpen, outLen, outClosed, sent, since>>

ReadResult ==
  /\ outLen > 0 /\ ~outClosed /\ outLen' = outLen - 1
  /\ Calm /\ SessionOnly /\ UNCHANGED <<sessionVars, sent, since>>

CloseOut ==
  /\ ~outClosed /\ outClosed' = TRUE /\ Event
  /\ SessionOnly
  /\ UNCHANGED <<settings, jobs, inputOpen, outLen, cancelled, sent, since>>

Configure ==
  /\ Event
  /\ \E c \in Configs \ {settings} : settings' = c
  /\ since' = IF pc \in {"read", "route"}
              THEN [since EXCEPT !.cfgs = @ \union {settings'}] ELSE since
  /\ SessionOnly /\ UNCHANGED <<jobs, inputOpen, outLen, outClosed, cancelled, sent>>

Finished == pc = "done" /\ UNCHANGED vars

-----------------------------------------------------------------------------
(* Specification *)

Init ==
  /\ settings = FirstConfig /\ events = 0
  /\ jobs = <<>> /\ inputOpen = TRUE /\ outLen = 0 /\ outClosed = FALSE /\ cancelled = {}
  /\ pc = "top" /\ turn = "metal" /\ left = 0
  /\ pending = <<>> /\ active = [e \in Engines |-> {}]
  /\ dead = [e \in Engines |-> FALSE] /\ sender = [e \in Engines |-> TRUE]
  /\ eof = FALSE /\ stop = FALSE /\ receiver = TRUE
  /\ engine = [e \in Engines |-> IF e = "metal" THEN "waiting" ELSE "running"]
  /\ inbox = [e \in Engines |-> <<>>] /\ taking = [e \in Engines |-> TRUE]
  /\ held = [e \in Engines |-> {}] /\ outbox = [e \in Engines |-> <<>>]
  /\ sent = {} /\ outcome = [j \in Jobs |-> None] /\ replies = [j \in Jobs |-> <<>>]
  /\ broken = {} /\ since = Nothing

Session ==
  \/ \E j \in Jobs : SendJob(j) \/ Cancel(j)
  \/ CloseInput \/ ReadResult \/ CloseOut \/ Configure

Next ==
  \/ RouterStep \/ MetalStep \/ AneStep
  \/ \E e \in Engines : EngineBreaks(e)
  \/ Session \/ Finished

Spec == Init /\ [][Next]_vars

(* The threads and a session that reads results.  Nothing obliges the ANE  *)
(* engine to finish a job.                                                 *)
FairSpec ==
  Spec /\ WF_vars(RouterStep) /\ WF_vars(ReadResult) /\ WF_vars(MetalStep)

AneWorks == WF_vars(AneStep)

-----------------------------------------------------------------------------
(* Properties *)

Elems(s) == {s[i] : i \in 1 .. Len(s)}
Queued == {entry.job : entry \in Elems(pending)}
Entries == [job : Jobs, cfg : Configs \union {None}, fit : SUBSET Engines]
Results == [job : Jobs, outcome : Outcomes, fatal : BOOLEAN]

(* The type invariant, with the two channels that the session bounds.      *)
TypeOK ==
  /\ settings \in Configs /\ events \in 0 .. MaxEvents
  /\ jobs \in Seq(Jobs) /\ Len(jobs) <= JobCap
  /\ outLen \in 0 .. OutCap + 1
  /\ {inputOpen, outClosed, eof, stop, receiver} \subseteq BOOLEAN
  /\ {sent, cancelled} \subseteq SUBSET Jobs
  /\ pc \in {"top", "collect", "take", "scan", "read", "route", "stopping", "joining", "done"}
  /\ turn \in Engines /\ left \in Nat
  /\ pending \in Seq(Entries) /\ left <= Len(pending)
  /\ {active, held} \subseteq [Engines -> SUBSET Jobs]
  /\ {dead, sender, taking} \subseteq [Engines -> BOOLEAN]
  /\ engine \in [Engines -> {"waiting", "looked", "running", "ended"}]
  /\ inbox \in [Engines -> Seq(Jobs)] /\ outbox \in [Engines -> Seq(Results)]
  /\ outcome \in [Jobs -> Outcomes \union {None}] /\ replies \in [Jobs -> Seq(Outcomes)]
  /\ broken \subseteq Engines
  /\ since \in [cfgs : SUBSET Configs, cancelled : SUBSET Jobs]

(* A job the session handed over is always in exactly one hand: in the     *)
(* channel, in the queue, reserved for one engine, or answered once.  Only *)
(* the jobs of a session that dropped the result channel may be dropped.   *)
Owners(j) ==
  {o \in {"channel", "queue", "metal", "ane", "session"} :
     CASE o = "channel" -> j \in Elems(jobs)
       [] o = "queue" -> j \in Queued
       [] o = "session" -> replies[j] # <<>>
       [] OTHER -> j \in active[o]}

JobsKept ==
  /\ Cardinality(Queued) = Len(pending)
  /\ \A j \in sent :
       /\ Cardinality(Owners(j)) <= 1 /\ Len(replies[j]) <= 1
       /\ ~outClosed => Owners(j) # {}

(* The try_send to an engine never finds its channel full, and no engine   *)
(* ever waits for room to answer: what is with an engine is within its     *)
(* limit wherever it is, and the router has reserved it.                   *)
EngineRoom ==
  \A e \in Engines :
    LET there == Elems(inbox[e]) \union held[e] \union {r.job : r \in Elems(outbox[e])} IN
    /\ Len(inbox[e]) + Cardinality(held[e]) + Len(outbox[e]) <= Limit[e]
    /\ pc \notin {"stopping", "joining", "done"} => there \subseteq active[e]

(* The reservations behind the router: one hand per job, and room for it   *)
(* in every channel it passes (run_router, admit, collect).                *)
RouterInv == TypeOK /\ JobsKept /\ EngineRoom

(* However long a job waited and whatever scan of it was remembered, one   *)
(* pass decides it by what held during that pass.  The session may change  *)
(* settings or cancel at any moment, also between the router's look at the *)
(* job and the try_send, so a job may still go out by settings that have   *)
(* just been replaced or be cancelled on its way; but the engine it goes   *)
(* to was eligible under settings in force since the router took the job   *)
(* up, it is not given up, and the job was not cancelled before.  A job    *)
(* the router refuses had no engine left under such settings.              *)
Reserves(e) == active'[e] \ active[e]
Refuses == {j \in Queued \ Queued' : replies'[j] = <<"failed">>}

RoutedAsConfigured ==
  [][/\ \A e \in Engines : \A j \in Reserves(e) :
          /\ ~dead[e] /\ j \notin since.cancelled
          /\ \E c \in since.cfgs : e \in Eligible(j, c)
     /\ \A j \in Refuses :
          \E c \in since.cfgs : \A e \in Eligible(j, c) : dead[e]]_vars

(* Whatever the engines do, the session sees a stream: every job answered  *)
(* at most once, no reads for a job cancelled before its outcome was fixed,*)
(* and no end while a job is unanswered, unless nobody reads.              *)
Contract == INSTANCE StreamContract WITH
  Salts <- {}, Lossy <- TRUE, accepted <- sent,
  answers <- [j \in Jobs |-> IF outcome[j] = None THEN <<>> ELSE <<outcome[j]>>],
  abandoned <- cancelled, closed <- outClosed, ended <- pc = "done"
ImplementsContract == Contract!Spec

(* If the ANE engine finishes what it has taken, the router catches up: a  *)
(* queued job never waits for an engine that is dead or disabled.          *)
JobsAnswered == outClosed \/ \A j \in sent : replies[j] # <<>>

(* A queued job that Metal alone can run leaves the queue, or the loop has *)
(* ended, although the ANE engine never finishes the job it holds.         *)
MetalPasses ==
  \A j \in {k \in Jobs : Able[k] = {"metal"}} :
    []<>(j \notin Queued \/ stop)

(* After the end of the input, or once nobody reads, the router returns.   *)
StreamEnded == (inputOpen /\ ~outClosed) \/ pc = "done"

(* No job waits on the other engine's trouble, and the stream ends.        *)
Served == MetalPasses /\ (AneWorks => []<>(JobsAnswered /\ StreamEnded))
=============================================================================
