------------------------------ MODULE AneWorker ------------------------------
(***************************************************************************)
(* The ANE engine: a thread takes the session's jobs one by one, opens the *)
(* sampler on the first (a worker process runs one dispatch), and runs     *)
(* every job in a worker process of its own, which it polls, kills and     *)
(* reaps.  The worker ends by itself when the miner dies.  Cancellation,   *)
(* failing system calls, crashes and hangs come between any two steps.     *)
(*                                                                         *)
(* Code: AneEngine::run and CombinedSampler::ane (src/src/combined.rs),    *)
(* AneSampler and WorkerProcess (src/crates/ane-miner/src/process.rs),     *)
(* worker_main (worker.rs).                                                *)
(***************************************************************************)
EXTENDS AneProgram, FiniteSets

CONSTANTS
  N,          (* the jobs are 1 .. N, handed over in this order             *)
  MarkOf,     (* per job, its watermark                                     *)
  WorkOf,     (* per job, its sweeps and sweeps per rung                    *)
  BadJobs,    (* jobs whose parameters or graph the ANE does not take       *)
  OutCap,
  MaxEvents   (* bound: cancellations, stop, a dropped result channel and   *)
              (* the miner's death, together                                *)

Jobs == 1 .. N
Marks == {MarkOf[j] : j \in Jobs}

ASSUME WorkerAssumption ==
  /\ {N, OutCap} \subseteq Nat \ {0} /\ MaxEvents \in Nat
  /\ DOMAIN MarkOf = Jobs /\ BadJobs \subseteq Jobs
  /\ WorkOf \in [Jobs -> [sweeps : Nat, perBeta : Nat \ {0}]]

VARIABLES
  jobs, inputOpen, outLen, outClosed,
  gone,       (* cancelled watermarks                                       *)
  stop,       (* the router gives up the stream                             *)
  dead,       (* the miner's process is gone                                *)
  events,
  pc, cur,    (* where the engine thread is, and its job                    *)
  ane,        (* the cached sampler                                         *)
  what,       (* the request: "check" or "sample"                           *)
  late,       (* the startup check has had its 30 seconds                   *)
  reaped, attempt,  (* stop_and_reap: has the child been waited for, and is *)
              (* it called by wait or by Drop                               *)
  result,     (* what wait returns                                          *)
  directory,  (* the job directory exists                                   *)
  child,      (* the worker process                                         *)
  strays,     (* worker processes nobody will wait for                      *)
  sent, answers,    (* history: jobs handed over, and the outcomes fixed    *)
  delivered,        (* history: per job, the spins of its reads             *)
  broken            (* history: a startup check failed by itself            *)

sessionVars == <<jobs, inputOpen, outClosed, gone, stop, dead, events, sent>>
waitVars == <<reaped, attempt, result, directory>>
replyVars == <<outLen, answers, delivered>>
engineVars == <<cur, ane, what, late, broken>>
childVars == <<child, strays, programVars>>
vars == <<sessionVars, pc, waitVars, replyVars, engineVars, childVars, faults>>

-----------------------------------------------------------------------------
(* Mutant: the router's stop is not looked at.                             *)
CancelledByMark(j) == MarkOf[j] \in gone
Cancelled(j) == stop \/ MarkOf[j] \in gone

NoChild == [state |-> "none", owner |-> "miner", code |-> 0, reply |-> None]
Running == child.state \in {"boot", "work"}

(* check_device: one full block.                                           *)
Startup == [sweeps |-> BlockSweeps, perBeta |-> BlockSweeps]
Request == IF what = "check" THEN Startup ELSE WorkOf[cur]

(* The receipt of a reply: open_with_cancel and validate_output.           *)
ValidReceipt(reply) == reply.dispatches = DivCeil(Request.sweeps, BlockSweeps)
Accepted == result = "solved" /\ ValidReceipt(child.reply)

-----------------------------------------------------------------------------
(* The engine thread *)

Engine == ~dead /\ NoFault

Answer(o) ==
  /\ answers' = [answers EXCEPT ![cur] = Append(@, o)]
  /\ pc' = "send" /\ UNCHANGED <<outLen, delivered>>
Quiet == UNCHANGED replyVars

(* Mutant: the job stays in the channel.                                   *)
TakeKept ==
  /\ pc = "recv" /\ jobs # <<>> /\ Engine
  /\ cur' = Head(jobs) /\ pc' = "look" /\ UNCHANGED sessionVars
  /\ UNCHANGED <<waitVars, ane, what, late, broken, childVars>> /\ Quiet
Take ==
  /\ pc = "recv" /\ jobs # <<>> /\ Engine
  /\ cur' = Head(jobs) /\ jobs' = Tail(jobs) /\ pc' = "look"
  /\ UNCHANGED <<inputOpen, outClosed, gone, stop, dead, events, sent>>
  /\ UNCHANGED <<waitVars, ane, what, late, broken, childVars>> /\ Quiet

InputEnds ==
  /\ pc = "recv" /\ jobs = <<>> /\ ~inputOpen /\ Engine
  /\ pc' = "done"
  /\ UNCHANGED <<sessionVars, waitVars, engineVars, childVars>> /\ Quiet

(* The job, when the sampler is not usable, or not opened yet.             *)
Look ==
  /\ pc = "look" /\ Engine
  /\ \/ Cancelled(cur) /\ Answer("cancelled") /\ UNCHANGED what
     \/ ~Cancelled(cur) /\ ane = "failed" /\ Answer("failed") /\ UNCHANGED what
     \/ ~Cancelled(cur) /\ ane = "none" /\ what' = "check" /\ pc' = "spawn" /\ Quiet
     \/ ~Cancelled(cur) /\ ane = "ok" /\ what' = "sample" /\ pc' = "sample" /\ Quiet
  /\ UNCHANGED <<sessionVars, waitVars, cur, ane, late, broken, childVars>>

SampleJob ==
  /\ pc = "sample" /\ Engine
  /\ \/ cur \in BadJobs /\ Answer("failed")
     \/ cur \notin BadJobs /\ Cancelled(cur) /\ Answer("cancelled")
     \/ cur \notin BadJobs /\ ~Cancelled(cur) /\ pc' = "spawn" /\ Quiet
  /\ UNCHANGED <<sessionVars, waitVars, engineVars, childVars>>

Spawn ==
  /\ pc = "spawn" /\ Engine
  /\ child' = [NoChild EXCEPT !.state = "boot"]
  /\ directory' = TRUE /\ reaped' = FALSE /\ attempt' = 1 /\ result' = "none" /\ late' = FALSE
  /\ pc' = "poll"
  /\ UNCHANGED <<sessionVars, cur, ane, what, broken, strays, programVars>> /\ Quiet

SpawnFails ==
  /\ pc = "spawn" /\ ~dead /\ Fault
  /\ result' = "err" /\ pc' = "decide"
  /\ UNCHANGED <<sessionVars, reaped, attempt, directory, engineVars, childVars>> /\ Quiet

StartupTimer ==
  /\ pc = "poll" /\ what = "check" /\ ~late /\ Engine
  /\ late' = TRUE
  /\ UNCHANGED <<sessionVars, pc, waitVars, cur, ane, what, broken, childVars>> /\ Quiet

(* Mutant: only the job's own stop ends the wait.                          *)
GivesUpUntimed == Cancelled(cur)
GivesUp == Cancelled(cur) \/ (what = "check" /\ late)

(* wait_inner: a child that has exited is read before a stop is looked at. *)
Poll ==
  /\ pc = "poll" /\ Engine
  /\ \/ /\ child.state = "exited"
        /\ reaped' = TRUE
        /\ result' = IF child.code = 0 /\ child.reply.status = "solved" THEN "solved" ELSE "err"
     \/ child.state # "exited" /\ GivesUp /\ UNCHANGED <<reaped, result>>
  /\ pc' = "clean"
  /\ UNCHANGED <<sessionVars, attempt, directory, engineVars, childVars>> /\ Quiet

(* Ten milliseconds until the next look: nothing ends the wait for a job.  *)
Sleep == pc = "poll" /\ Running /\ ~GivesUp /\ Engine /\ UNCHANGED vars

PollFails ==
  /\ pc = "poll" /\ ~dead /\ Fault
  /\ result' = "err" /\ pc' = "clean"
  /\ UNCHANGED <<sessionVars, reaped, attempt, directory, engineVars, childVars>> /\ Quiet

-----------------------------------------------------------------------------
(* stop_and_reap, first from wait, then from Drop *)

Cleaned == IF attempt = 1 THEN "rmdir" ELSE "dropped"

(* Mutant: Drop does not try again.                                        *)
GiveUpAtOnce ==
  /\ result' = "err" /\ attempt' = 2 /\ pc' = "decide"
  /\ strays' = strays + 1 /\ directory' = FALSE /\ child' = NoChild
  /\ ProgramLost /\ UNCHANGED reaped
(* wait returns the error, and Drop tries again; then TempDir takes the    *)
(* directory away whether or not the child is gone.  A stray is not        *)
(* followed any further.                                                   *)
GiveUp ==
  /\ result' = "err"
  /\ IF attempt = 1
     THEN attempt' = 2 /\ pc' = "clean" /\ UNCHANGED <<reaped, directory, childVars>>
     ELSE /\ pc' = "decide" /\ strays' = strays + 1 /\ directory' = FALSE
          /\ child' = NoChild /\ ProgramLost /\ UNCHANGED <<reaped, attempt>>

Clean ==
  /\ pc = "clean" /\ Engine
  /\ IF reaped \/ child.state = "exited"
     THEN reaped' = TRUE /\ pc' = Cleaned
     ELSE pc' = "kill" /\ UNCHANGED reaped
  /\ UNCHANGED <<sessionVars, attempt, result, directory, engineVars, childVars>> /\ Quiet

CleanFails ==
  /\ pc = "clean" /\ ~reaped /\ ~dead /\ Fault /\ GiveUp
  /\ UNCHANGED <<sessionVars, engineVars>> /\ Quiet

(* The child may have exited since it was looked at.                       *)
Kill ==
  /\ pc = "kill" /\ Engine /\ pc' = "reap"
  /\ child' = [child EXCEPT !.state = "exited", !.code = IF Running THEN 9 ELSE @]
  /\ ProgramLost
  /\ UNCHANGED <<sessionVars, waitVars, engineVars, strays>> /\ Quiet

KillFails ==
  /\ pc = "kill" /\ ~dead /\ Fault
  /\ IF child.state = "exited"
     THEN /\ reaped' = TRUE /\ pc' = Cleaned
          /\ UNCHANGED <<attempt, result, directory, childVars>>
     ELSE GiveUp
  /\ UNCHANGED <<sessionVars, engineVars>> /\ Quiet

Reap ==
  /\ pc = "reap" /\ Engine /\ reaped' = TRUE /\ pc' = Cleaned
  /\ UNCHANGED <<sessionVars, attempt, result, directory, engineVars, childVars>> /\ Quiet

ReapFails ==
  /\ pc = "reap" /\ ~dead /\ Fault /\ GiveUp
  /\ UNCHANGED <<sessionVars, engineVars>> /\ Quiet

(* The directory goes when the child is gone; if it stays, TempDir tries   *)
(* again, but the result is lost.                                          *)
RemoveDirectory ==
  /\ pc \in {"rmdir", "dropped"} /\ Engine
  /\ directory' = FALSE /\ pc' = "decide"
  /\ UNCHANGED <<sessionVars, reaped, attempt, result, engineVars, childVars>> /\ Quiet

RemoveFails ==
  /\ pc = "rmdir" /\ ~dead /\ Fault
  /\ result' = "err" /\ pc' = "dropped"
  /\ UNCHANGED <<sessionVars, reaped, attempt, directory, engineVars, childVars>> /\ Quiet

-----------------------------------------------------------------------------
(* The outcome *)

(* Mutant: every failure of the startup is kept.                           *)
OpenedKept ==
  /\ pc = "decide" /\ what = "check" /\ Engine
  /\ \/ /\ Accepted /\ ane' = "ok" /\ pc' = "sample"
        /\ what' = "sample" /\ UNCHANGED broken
     \/ /\ ~Accepted /\ ane' = "failed" /\ pc' = "look"
        /\ broken' = (broken \/ result # "none" \/ late) /\ UNCHANGED what
  /\ child' = NoChild
  /\ UNCHANGED <<sessionVars, waitVars, cur, late, strays, programVars>> /\ Quiet
(* CombinedSampler::ane: the check's verdict is kept, but for a check that *)
(* its job's cancellation ended.                                           *)
Opened ==
  /\ pc = "decide" /\ what = "check" /\ Engine
  /\ \/ /\ Accepted /\ ane' = "ok" /\ pc' = "sample"
        /\ what' = "sample" /\ UNCHANGED broken
     \/ /\ ~Accepted /\ pc' = "look"
        /\ ane' = IF Cancelled(cur) THEN ane ELSE "failed"
        /\ broken' = (broken \/ result # "none" \/ late) /\ UNCHANGED what
  /\ child' = NoChild
  /\ UNCHANGED <<sessionVars, waitVars, cur, late, strays, programVars>> /\ Quiet

(* Mutant: the stop is not looked at again.                                *)
SampledUnlooked ==
  /\ pc = "decide" /\ what = "sample" /\ Engine
  /\ \/ result = "none" /\ Answer("cancelled")
     \/ result # "none" /\ ~Accepted /\ Answer("failed")
     \/ /\ Accepted
        /\ answers' = [answers EXCEPT ![cur] = Append(@, "reads")]
        /\ delivered' = [delivered EXCEPT ![cur] = child.reply.spins]
        /\ pc' = "send" /\ UNCHANGED outLen
  /\ child' = NoChild
  /\ UNCHANGED <<sessionVars, waitVars, engineVars, strays, programVars>>
(* sample_inner and sample_job: the stop is looked at once more.           *)
Sampled ==
  /\ pc = "decide" /\ what = "sample" /\ Engine
  /\ \/ result = "none" /\ Answer("cancelled")
     \/ result # "none" /\ ~Accepted /\ Answer("failed")
     \/ Accepted /\ Cancelled(cur) /\ Answer("cancelled")
     \/ /\ Accepted /\ ~Cancelled(cur)
        /\ answers' = [answers EXCEPT ![cur] = Append(@, "reads")]
        /\ delivered' = [delivered EXCEPT ![cur] = child.reply.spins]
        /\ pc' = "send" /\ UNCHANGED outLen
  /\ child' = NoChild
  /\ UNCHANGED <<sessionVars, waitVars, engineVars, strays, programVars>>

SendResult ==
  /\ pc = "send" /\ Engine
  /\ \/ outClosed /\ pc' = "done" /\ UNCHANGED outLen
     \/ ~outClosed /\ outLen < OutCap /\ outLen' = outLen + 1 /\ pc' = "recv"
  /\ UNCHANGED <<sessionVars, waitVars, engineVars, childVars, answers, delivered>>

-----------------------------------------------------------------------------
(* The worker process *)

AliveIn(s) == child.state = s
Exit(code, reply) ==
  /\ child' = [child EXCEPT !.state = "exited", !.code = code, !.reply = reply]
  /\ ProgramLost

(* Mutant: the worker asks for its parent when it starts.                  *)
BootOwner ==
  /\ AliveIn("boot") /\ NoFault /\ Solve(Request)
  /\ child' = [child EXCEPT !.state = "work", !.owner = IF dead THEN "init" ELSE "miner"]
  /\ UNCHANGED <<sessionVars, pc, waitVars, replyVars, engineVars, strays>>
(* worker_main: the watchdog is started, and the request is read.          *)
Boot ==
  /\ AliveIn("boot") /\ NoFault /\ Solve(Request)
  /\ child' = [child EXCEPT !.state = "work"]
  /\ UNCHANGED <<sessionVars, pc, waitVars, replyVars, engineVars, strays>>

Work ==
  /\ AliveIn("work") /\ ProgramStep
  /\ UNCHANGED <<sessionVars, pc, waitVars, replyVars, engineVars, child, strays>>

WorkFails ==
  /\ AliveIn("work") /\ ProgramFault
  /\ UNCHANGED <<sessionVars, pc, waitVars, replyVars, engineVars, child, strays>>

Evaluation ==
  /\ AliveIn("work") /\ Evaluated
  /\ UNCHANGED <<sessionVars, pc, waitVars, replyVars, engineVars, child, strays>>

Reply ==
  /\ AliveIn("work") /\ step \in {"ok", "err"} /\ NoFault
  /\ Exit(0, [status |-> IF step = "ok" THEN "solved" ELSE "failed",
              spins |-> output, dispatches |-> dispatches])
  /\ UNCHANGED <<sessionVars, pc, waitVars, replyVars, engineVars, strays>>

(* The watchdog or the reply cannot be had, or the process dies.           *)
Crash ==
  /\ Running /\ Fault /\ Exit(70, None)
  /\ UNCHANGED <<sessionVars, pc, waitVars, replyVars, engineVars, strays>>

(* The parent's pid is the one the worker was started with, or init's.     *)
Watchdog ==
  /\ AliveIn("work") /\ NoFault
  /\ child.owner # IF dead THEN "init" ELSE "miner"
  /\ Exit(70, None)
  /\ UNCHANGED <<sessionVars, pc, waitVars, replyVars, engineVars, strays>>

-----------------------------------------------------------------------------
(* The session *)

Outside == ~dead /\ NoFault /\ UNCHANGED <<pc, waitVars, engineVars, childVars, answers, delivered>>
Event == events < MaxEvents /\ events' = events + 1 /\ Outside

SendJob ==
  /\ Outside /\ inputOpen /\ pc # "done"
  /\ \E j \in Jobs : sent = 1 .. (j - 1) /\ jobs' = Append(jobs, j) /\ sent' = sent \union {j}
  /\ UNCHANGED <<inputOpen, outLen, outClosed, gone, stop, dead, events>>
CloseInput ==
  /\ Outside /\ inputOpen /\ inputOpen' = FALSE
  /\ UNCHANGED <<jobs, outLen, outClosed, gone, stop, dead, events, sent>>
ReadResult ==
  /\ Outside /\ outLen > 0 /\ ~outClosed /\ outLen' = outLen - 1
  /\ UNCHANGED sessionVars
Cancel ==
  /\ Event /\ \E m \in Marks \ gone : gone' = gone \union {m}
  /\ UNCHANGED <<jobs, inputOpen, outLen, outClosed, stop, dead, sent>>
StopEngine ==
  /\ Event /\ ~stop /\ stop' = TRUE
  /\ UNCHANGED <<jobs, inputOpen, outLen, outClosed, gone, dead, sent>>
CloseOut ==
  /\ Event /\ ~outClosed /\ outClosed' = TRUE
  /\ UNCHANGED <<jobs, inputOpen, outLen, gone, stop, dead, sent>>
(* The miner is killed: nothing of the engine runs any more.               *)
MinerDies ==
  /\ Event /\ dead' = TRUE
  /\ UNCHANGED <<jobs, inputOpen, outLen, outClosed, gone, stop, sent>>

-----------------------------------------------------------------------------
(* The start-up check of the program may have opened the sampler already.  *)
Init ==
  /\ jobs = <<>> /\ inputOpen = TRUE /\ outLen = 0 /\ outClosed = FALSE
  /\ gone = {} /\ stop = FALSE /\ dead = FALSE /\ events = 0 /\ faults = 0
  /\ pc = "recv" /\ cur = 1 /\ ane \in {"none", "ok"} /\ what = "check" /\ late = FALSE
  /\ reaped = TRUE /\ attempt = 1 /\ result = "none" /\ directory = FALSE
  /\ child = NoChild /\ strays = 0 /\ ProgramOff
  /\ sent = {} /\ answers = [j \in Jobs |-> <<>>] /\ delivered = [j \in Jobs |-> None]
  /\ broken = FALSE

EngineStep ==
  Take \/ InputEnds \/ Look \/ SampleJob \/ Spawn \/ Poll \/ Clean \/ Kill \/ Reap
  \/ RemoveDirectory \/ Opened \/ Sampled \/ SendResult
SystemFault ==
  WorkFails \/ SpawnFails \/ PollFails \/ CleanFails \/ KillFails \/ ReapFails \/ RemoveFails \/ Crash
WorkerStep == Boot \/ Work \/ Reply
Session ==
  SendJob \/ CloseInput \/ ReadResult \/ Cancel \/ StopEngine \/ CloseOut \/ MinerDies

(* The miner is dead, or the stream is over.                               *)
Over == (dead \/ pc = "done") /\ UNCHANGED vars

Next ==
  EngineStep \/ Sleep \/ StartupTimer \/ SystemFault \/ WorkerStep \/ Evaluation \/ Watchdog \/ Session
  \/ Over

Spec == Init /\ [][Next]_vars

(* The engine and the worker run, dispatches that do not hang end, time    *)
(* passes, and the session reads its results.                              *)
FairSpec ==
  /\ Spec
  /\ WF_vars(EngineStep) /\ WF_vars(StartupTimer)
  /\ WF_vars(WorkerStep) /\ WF_vars(Evaluation) /\ WF_vars(Watchdog)
  /\ WF_vars(ReadResult)

-----------------------------------------------------------------------------
(* Properties *)

(* Type correctness of the engine, the worker process and its program.     *)
TypeOK ==
  /\ jobs \in Seq(Jobs) /\ sent \subseteq Jobs /\ gone \subseteq Marks
  /\ {inputOpen, outClosed, stop, dead, late, reaped, directory, broken} \subseteq BOOLEAN
  /\ outLen \in 0 .. OutCap /\ events \in 0 .. MaxEvents /\ faults \in 0 .. MaxFaults
  /\ pc \in {"recv", "look", "sample", "spawn", "poll", "clean", "kill", "reap", "rmdir",
             "dropped", "decide", "send", "done"}
  /\ cur \in Jobs /\ ane \in {"none", "ok", "failed"} /\ what \in {"check", "sample"}
  /\ attempt \in 1 .. 2 /\ result \in {"none", "err", "solved"} /\ strays \in Nat
  /\ child.state \in {"none", "boot", "work", "exited"} /\ child.owner \in {"miner", "init"}
  /\ (step = "off") = (child.state # "work")
  /\ program.current \in Banks /\ program.next \in Banks
  /\ \A j \in Jobs : Len(answers[j]) <= 1

(* Reads that are delivered have been through every sweep of their own     *)
(* job, in the order of the schedule and each once, although the blocks    *)
(* pass through two banks and two surfaces beside the dispatch before, and *)
(* although dispatches fail and workers are killed (solver.rs, submit and  *)
(* finishDispatch of ane_bridge.m).                                        *)
AllSweeps(w) ==
  [i \in 1 .. w.sweeps |-> <<1 + (i - 1) \div w.perBeta, 1 + ((i - 1) % w.perBeta)>>]
ReadsAnnealed ==
  \A j \in Jobs : answers[j] = <<"reads">> => delivered[j] = AllSweeps(WorkOf[j])

(* The miner computes the dispatches of a job from its sweeps, the worker  *)
(* counts blocks over the rungs: a worker that solved its job is never     *)
(* refused for its receipt (validate_output, open_with_cancel).            *)
ReceiptAgrees ==
  pc = "decide" /\ result = "solved" => ValidReceipt(child.reply)

(* The surfaces a dispatch reads and writes are there until it is over:    *)
(* however a solve ends, the program is not released under it              *)
(* (finishDispatch in quip_ane_destroy).                                   *)
SurfacesHeld == busy # None => program.handle

(* One failing system call leaves no process behind and takes no job       *)
(* directory from under a running worker ("Remove native compiler          *)
(* artifacts only after the process has released them", process.rs:113):   *)
(* that needs two, one in wait and one in Drop.                            *)
CleanedUp ==
  /\ Running => directory
  /\ strays > 0 => faults >= 2
  /\ pc \in {"recv", "look", "spawn", "send", "done"} => child.state = "none" /\ ~directory

(* A startup that its job's cancellation ended is not kept as the engine's *)
(* failure: it would refuse every later job (combined.rs:104).             *)
CancelledNotKept == ane = "failed" => broken

(* What the engine decides of a job and of itself rests on facts of the    *)
(* job: its receipt and its own cancellation, not on another's.            *)
WorkerInv == TypeOK /\ ReceiptAgrees /\ CancelledNotKept

(* The sweeps that count are those that were run, on surfaces still held.  *)
Annealed == ReadsAnnealed /\ SurfacesHeld

(* The engine implements the contract of a stream: every job answered at   *)
(* most once, cancelled only when it was, and the stream ends with no job  *)
(* unanswered while somebody reads.                                        *)
Contract == INSTANCE StreamContract WITH
  Jobs <- Jobs, Salts <- {}, Lossy <- TRUE,
  accepted <- sent, abandoned <- {j \in Jobs : Cancelled(j)},
  closed <- outClosed, ended <- pc = "done"
ImplementsContract == Contract!Spec

(* Every job is answered, whatever fails, unless the miner dies, nobody    *)
(* reads, or the ANE hangs in a job nobody cancels: a hanging startup      *)
(* check is given up in time, and a hanging worker is killed when its job  *)
(* is cancelled or the stream is stopped.                                  *)
Hung == busy # None /\ busy.hung /\ what = "sample" /\ ~Cancelled(cur)
JobsAnswered ==
  dead \/ outClosed \/ Hung \/ \A j \in sent : answers[j] # <<>>
StopReleases ==
  dead \/ outClosed \/ (stop => \A j \in sent : answers[j] # <<>>)

(* Every job is answered, and at once where the session stops the stream.  *)
Served == []<>(JobsAnswered /\ StopReleases)

(* A worker ends by itself when the miner dies, even when it dies before   *)
(* the worker has started its watchdog, and even when the ANE hangs.       *)
OrphanExits == dead ~> ~Running
=============================================================================
