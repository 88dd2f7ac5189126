----------------------------- MODULE LeaseFeed -----------------------------
(***************************************************************************)
(* Leases feeding the resident runner: each lease has a thread that waits  *)
(* for its turn and then reports outcomes, and a feeder thread that queues *)
(* its salts; all share one bounded intake channel and one runner.         *)
(*                                                                         *)
(* Code: MetalSampler::sample_lease, report_lease and sample_stream        *)
(* (src/src/lib.rs) and LeaseTurns (src/src/lease_turn.rs).  The runner is *)
(* what Resident shows the leases of it: it takes salts, answers each one, *)
(* and on its way out answers what it holds and what is in the channel.    *)
(***************************************************************************)
EXTENDS Naturals, Sequences, FiniteSets

Seqs == INSTANCE SequencesExt

CONSTANTS
  Leases,
  SaltCount,    (* per lease, its salts                                     *)
  ChannelCap,   (* capacity of the salt channel (PREP_BOUND)                *)
  RunnerCap,    (* salts the runner holds at once                           *)
  MaxStreams,   (* bound: streams the session starts                        *)
  MaxReseeds,   (* bound: reseeds the coordinator sends                     *)
  MaxCancels    (* bound: leases stopped once the session cancels one alone *)

ASSUME FeedAssumption ==
  /\ SaltCount \in [Leases -> Nat \ {0}]
  /\ {ChannelCap, RunnerCap} \subseteq Nat \ {0}
  /\ {MaxStreams, MaxReseeds, MaxCancels} \subseteq Nat

VARIABLES
  waiting,      (* LeaseTurns: the queue of leases, front first             *)
  nextId,       (* LeaseTurns: the next turn id                             *)
  id,           (* per lease, its turn id                                   *)
  lease,        (* per lease, where its thread is                           *)
  feeder,       (* per lease, where its feeder is                           *)
  index,        (* per lease, the next salt to feed                         *)
  fed,          (* per lease, salts counted as queued                       *)
  feeding,      (* per lease, whether the feeder may queue more             *)
  reported,     (* per lease, outcomes received                             *)
  outcomes,     (* per lease, its outcome channel                           *)
  result,       (* per lease, why reporting ended                           *)
  stop,         (* per lease, the flag its units and its feeder watch       *)
  stopped,      (* per lease, sink.is_stopped()                             *)
  round,        (* per lease, the round its salts carry                     *)
  leaseRound,   (* the miner's round counter                                *)
  salts,        (* the intake channel                                       *)
  held,         (* salts the runner holds                                   *)
  runner,       (* the runner's phase                                       *)
  runnerLive,   (* the flag leases watch                                    *)
  streams,      (* streams started so far                                   *)
  reseeds,      (* reseeds so far                                           *)
  fresh,        (* history: the round a lease must read after the reseeds   *)
  need          (* history: per lease, fresh when it joined                 *)

threadVars == <<lease, feeder, index, fed, feeding, reported, result, stop, round>>
runnerVars == <<held, runner, runnerLive, streams>>
historyVars == <<reseeds, fresh, need>>
turnVars == <<waiting, nextId, id>>
vars == <<turnVars, threadVars, outcomes, stopped, leaseRound, salts, runnerVars,
          historyVars>>

SaltIds == UNION {[lease : {l}, index : 0..(SaltCount[l] - 1)] : l \in Leases}

(* The state keeps its types, and the intake and the runner their capacity *)
(* (MetalSampler::new, sample_lease).                                      *)
TypeOK ==
  /\ waiting \in Seq(Leases) /\ nextId \in Nat /\ id \in [Leases -> Nat]
  /\ lease \in [Leases -> {"new", "waiting", "quitting", "leaving", "reporting",
                           "receiving", "joining", "returned"}]
  /\ feeder \in [Leases -> {"off", "checking", "sending", "counting", "ending",
                            "dropping", "ended"}]
  /\ {index, fed, reported} \subseteq [Leases -> Nat]
  /\ \A l \in Leases : {index[l], fed[l], reported[l]} \subseteq 0..SaltCount[l]
  /\ feeding \in [Leases -> BOOLEAN] /\ stop \in [Leases -> BOOLEAN]
  /\ stopped \in [Leases -> BOOLEAN]
  /\ outcomes \in [Leases -> Seq({"reported", "dropped", "failed"})]
  /\ result \in [Leases -> {"none", "complete", "stopped", "closed", "fault"}]
  /\ round \in [Leases -> Nat] /\ leaseRound \in Nat
  /\ salts \in Seq(SaltIds) /\ Len(salts) <= ChannelCap
  /\ held \subseteq SaltIds /\ Cardinality(held) <= RunnerCap
  /\ runner \in {"off", "running", "draining", "leaving"} /\ runnerLive \in BOOLEAN
  /\ streams \in 0..MaxStreams /\ reseeds \in 0..MaxReseeds
  /\ fresh \in Nat /\ need \in [Leases -> Nat]

Init ==
  /\ waiting = <<>> /\ nextId = 0 /\ id = [l \in Leases |-> 0]
  /\ lease = [l \in Leases |-> "new"] /\ feeder = [l \in Leases |-> "off"]
  /\ index = [l \in Leases |-> 0] /\ fed = [l \in Leases |-> 0]
  /\ reported = [l \in Leases |-> 0] /\ feeding = [l \in Leases |-> TRUE]
  /\ stop = [l \in Leases |-> FALSE] /\ stopped = [l \in Leases |-> FALSE]
  /\ outcomes = [l \in Leases |-> <<>>] /\ result = [l \in Leases |-> "none"]
  /\ round = [l \in Leases |-> 0] /\ leaseRound = 0
  /\ salts = <<>> /\ held = {}
  /\ runner = "off" /\ runnerLive = TRUE /\ streams = 0
  /\ reseeds = 0 /\ fresh = 0
  /\ need = [l \in Leases |-> 0]

Move(f, l, label) == f' = [f EXCEPT ![l] = label]
Front(l) == waiting # <<>> /\ Head(waiting) = l
Open(l) == lease[l] \notin {"new", "returned"}
(* Mutant: pops the front whoever leaves.                                  *)
LeaveFront(l) == waiting' = IF waiting = <<>> THEN waiting ELSE Tail(waiting)

(* Ids are never reused, so a lease has one place in the queue or none.    *)
PlaceOf(l) == CHOOSE i \in DOMAIN waiting : waiting[i] = l

Leave(l) ==
  waiting' = IF \E i \in DOMAIN waiting : waiting[i] = l
             THEN Seqs!RemoveAt(waiting, PlaceOf(l)) ELSE waiting

Bump == leaseRound' = leaseRound + 1

-----------------------------------------------------------------------------
(* The lease thread *)

Join(l) ==
  /\ lease[l] = "new"
  /\ waiting' = Append(waiting, l)
  /\ id' = [id EXCEPT ![l] = nextId] /\ nextId' = nextId + 1
  /\ need' = [need EXCEPT ![l] = fresh]
  /\ Move(lease, l, "waiting")
  /\ UNCHANGED <<feeder, index, fed, feeding, reported, result, stop, round,
                 outcomes, stopped, leaseRound, salts, runnerVars, reseeds, fresh>>

(* Mutant: the turn is not waited for.                                     *)
GrantedAtOnce(l) ==
  /\ lease[l] = "waiting"
  /\ round' = [round EXCEPT ![l] = leaseRound]
  /\ Move(lease, l, "reporting") /\ Move(feeder, l, "checking")
  /\ UNCHANGED <<turnVars, index, fed, feeding, reported, result, stop, outcomes,
                 stopped, leaseRound, salts, runnerVars, historyVars>>

(* The front is granted the turn before it looks at its stop flag.         *)
Granted(l) ==
  /\ lease[l] = "waiting" /\ Front(l)
  /\ round' = [round EXCEPT ![l] = leaseRound]
  /\ Move(lease, l, "reporting") /\ Move(feeder, l, "checking")
  /\ UNCHANGED <<turnVars, index, fed, feeding, reported, result, stop, outcomes,
                 stopped, leaseRound, salts, runnerVars, historyVars>>

StopsWaiting(l) ==
  /\ lease[l] = "waiting" /\ ~Front(l)
  /\ stopped[l] \/ ~runnerLive
  /\ Move(lease, l, "quitting")
  /\ UNCHANGED <<turnVars, feeder, index, fed, feeding, reported, result, stop,
                 round, outcomes, stopped, leaseRound, salts, runnerVars,
                 historyVars>>

(* Mutant: a lease cancelled before its turn does not count it.            *)
QuitUncounted(l) ==
  /\ lease[l] = "quitting"
  /\ result' = [result EXCEPT ![l] = IF runnerLive THEN "stopped" ELSE "fault"]
  /\ Move(lease, l, "leaving")
  /\ UNCHANGED <<turnVars, feeder, index, fed, feeding, reported, stop, round,
                 outcomes, stopped, leaseRound, salts, runnerVars, historyVars>>

(* A cancelled lease counts the cancellation before it gives up its place. *)
Quit(l) ==
  /\ lease[l] = "quitting"
  /\ IF stopped[l] THEN Bump ELSE UNCHANGED leaseRound
  /\ result' = [result EXCEPT ![l] = IF runnerLive THEN "stopped" ELSE "fault"]
  /\ Move(lease, l, "leaving")
  /\ UNCHANGED <<turnVars, feeder, index, fed, feeding, reported, stop, round,
                 outcomes, stopped, salts, runnerVars, historyVars>>

DropPlace(l) ==
  /\ lease[l] = "leaving"
  /\ Leave(l)
  /\ stop' = [stop EXCEPT ![l] = TRUE]
  /\ Move(lease, l, "returned")
  /\ UNCHANGED <<nextId, id, feeder, index, fed, feeding, reported, result, round, outcomes,
                 stopped, leaseRound, salts, runnerVars, historyVars>>

EndReport(l, why) ==
  /\ result' = [result EXCEPT ![l] = why]
  /\ stop' = [stop EXCEPT ![l] = TRUE]
  /\ Move(lease, l, "joining")

(* Mutant: compares with a count the feeder may still raise.               *)
VerdictTooSoon(l) ==
  IF stopped[l] THEN "stopped"
  ELSE IF ~runnerLive THEN "fault"
  ELSE IF reported[l] = fed[l] THEN "complete"
  ELSE "none"

(* The top of the report loop, its tests in order.                         *)
Verdict(l) ==
  IF stopped[l] THEN "stopped"
  ELSE IF ~runnerLive THEN "fault"
  ELSE IF ~feeding[l] /\ reported[l] = fed[l] THEN "complete"
  ELSE "none"

Report(l) ==
  /\ lease[l] = "reporting"
  /\ IF Verdict(l) = "none"
     THEN Move(lease, l, "receiving") /\ UNCHANGED <<result, stop>>
     ELSE EndReport(l, Verdict(l))
  /\ UNCHANGED <<turnVars, feeder, index, fed, feeding, reported, round, outcomes,
                 stopped, leaseRound, salts, runnerVars, historyVars>>

(* Sending the outcome on fails once the session has dropped the sink.     *)
Receive(l) ==
  /\ lease[l] = "receiving" /\ outcomes[l] # <<>>
  /\ outcomes' = [outcomes EXCEPT ![l] = Tail(@)]
  /\ reported' = [reported EXCEPT ![l] = @ + 1]
  /\ \/ Head(outcomes[l]) = "failed" /\ EndReport(l, "fault")
     \/ Head(outcomes[l]) = "reported" /\ EndReport(l, "closed")
     \/ Head(outcomes[l]) # "failed" /\ UNCHANGED <<lease, result, stop>>
  /\ UNCHANGED <<turnVars, feeder, index, fed, feeding, round, stopped, leaseRound,
                 salts, runnerVars, historyVars>>

(* Nothing more to receive, or nothing within the poll.                    *)
ReceiveEnds(l) ==
  /\ lease[l] = "receiving" /\ outcomes[l] = <<>>
  /\ Move(lease, l, "reporting")
  /\ UNCHANGED <<turnVars, feeder, index, fed, feeding, reported, result, stop,
                 round, outcomes, stopped, leaseRound, salts, runnerVars,
                 historyVars>>

(* Mutant: the feeder is not joined.                                       *)
ReturnUnjoined(l) ==
  /\ lease[l] = "joining"
  /\ Move(lease, l, "returned")
  /\ UNCHANGED <<turnVars, feeder, index, fed, feeding, reported, result, stop,
                 round, outcomes, stopped, leaseRound, salts, runnerVars,
                 historyVars>>

(* The scope joins the feeder before sample_lease returns.                 *)
Return(l) ==
  /\ lease[l] = "joining" /\ feeder[l] = "ended"
  /\ Move(lease, l, "returned")
  /\ UNCHANGED <<turnVars, feeder, index, fed, feeding, reported, result, stop,
                 round, outcomes, stopped, leaseRound, salts, runnerVars,
                 historyVars>>

-----------------------------------------------------------------------------
(* The feeder thread *)

StoppedFeeder(l) == stopped[l] \/ stop[l]

FeedSalt(l) ==
  /\ feeder[l] = "checking" /\ index[l] < SaltCount[l] /\ ~StoppedFeeder(l)
  /\ Move(feeder, l, "sending")
  /\ UNCHANGED <<turnVars, lease, index, fed, feeding, reported, result, stop, round,
                 outcomes, stopped, leaseRound, salts, runnerVars, historyVars>>

(* Mutant: the channel takes any number of salts.                          *)
SendSaltUnbounded(l) ==
  /\ feeder[l] = "sending"
  /\ salts' = Append(salts, [lease |-> l, index |-> index[l]])
  /\ Move(feeder, l, "counting")
  /\ UNCHANGED <<turnVars, lease, index, fed, feeding, reported, result, stop, round,
                 outcomes, stopped, leaseRound, runnerVars, historyVars>>

(* The send blocks while the channel is full; nothing interrupts it.       *)
SendSalt(l) ==
  /\ feeder[l] = "sending" /\ Len(salts) < ChannelCap
  /\ salts' = Append(salts, [lease |-> l, index |-> index[l]])
  /\ Move(feeder, l, "counting")
  /\ UNCHANGED <<turnVars, lease, index, fed, feeding, reported, result, stop, round,
                 outcomes, stopped, leaseRound, runnerVars, historyVars>>

CountSalt(l) ==
  /\ feeder[l] = "counting"
  /\ fed' = [fed EXCEPT ![l] = @ + 1]
  /\ index' = [index EXCEPT ![l] = @ + 1]
  /\ Move(feeder, l, "checking")
  /\ UNCHANGED <<turnVars, lease, feeding, reported, result, stop, round, outcomes,
                 stopped, leaseRound, salts, runnerVars, historyVars>>

(* Cut short: counts a cancellation while it holds the turn.               *)
FeederStops(l) ==
  /\ feeder[l] = "checking" /\ index[l] < SaltCount[l] /\ StoppedFeeder(l)
  /\ IF stopped[l] THEN Bump ELSE UNCHANGED leaseRound
  /\ Move(feeder, l, "ending")
  /\ UNCHANGED <<turnVars, lease, index, fed, feeding, reported, result, stop, round,
                 outcomes, stopped, salts, runnerVars, historyVars>>

(* All salts queued: the next lease may feed.                              *)
HandOver(l) ==
  /\ feeder[l] = "checking" /\ index[l] = SaltCount[l]
  /\ Leave(l)
  /\ Move(feeder, l, "ending")
  /\ UNCHANGED <<nextId, id, lease, index, fed, feeding, reported, result, stop, round,
                 outcomes, stopped, leaseRound, salts, runnerVars, historyVars>>

ClearFeeding(l) ==
  /\ feeder[l] = "ending"
  /\ feeding' = [feeding EXCEPT ![l] = FALSE]
  /\ Move(feeder, l, "dropping")
  /\ UNCHANGED <<turnVars, lease, index, fed, reported, result, stop, round, outcomes,
                 stopped, leaseRound, salts, runnerVars, historyVars>>

(* Mutant: a feeder cut short keeps its place in the queue.                *)
DropTurnKept(l) ==
  /\ feeder[l] = "dropping"
  /\ Move(feeder, l, "ended")
  /\ UNCHANGED <<turnVars, lease, index, fed, feeding, reported, result, stop, round,
                 outcomes, stopped, leaseRound, salts, runnerVars, historyVars>>

DropTurn(l) ==
  /\ feeder[l] = "dropping"
  /\ Leave(l)
  /\ Move(feeder, l, "ended")
  /\ UNCHANGED <<nextId, id, lease, index, fed, feeding, reported, result, stop, round,
                 outcomes, stopped, leaseRound, salts, runnerVars, historyVars>>

-----------------------------------------------------------------------------
(* The runner, the session and the coordinator *)

StreamStarts ==
  /\ runner = "off" /\ streams < MaxStreams
  /\ runner' = "running" /\ runnerLive' = TRUE /\ streams' = streams + 1
  /\ UNCHANGED <<turnVars, threadVars, outcomes, stopped, leaseRound, salts, held,
                 historyVars>>

TakeSalt ==
  /\ runner = "running" /\ salts # <<>>
  /\ Cardinality(held) < RunnerCap
  /\ held' = held \union {Head(salts)}
  /\ salts' = Tail(salts)
  /\ UNCHANGED <<turnVars, threadVars, outcomes, stopped, leaseRound, runner,
                 runnerLive, streams, historyVars>>

(* Mutant: a dropped salt is not reported to its lease.                    *)
PostUnlessDropped(salt, outcome) ==
  outcomes' = IF outcome = "dropped" THEN outcomes
              ELSE [outcomes EXCEPT ![salt.lease] = Append(@, outcome)]

Post(salt, outcome) ==
  outcomes' = [outcomes EXCEPT ![salt.lease] = Append(@, outcome)]

(* A unit of a stopped lease is dropped at the runner's next look at it.   *)
AnswerSalt(salt) ==
  /\ runner \in {"running", "draining"} /\ salt \in held
  /\ held' = held \ {salt}
  /\ \/ stop[salt.lease] /\ Post(salt, "dropped")
     \/ ~stop[salt.lease] /\ runner = "running" /\ Post(salt, "reported")
     \/ ~stop[salt.lease] /\ Post(salt, "failed")
     \/ ~stop[salt.lease] /\ runner = "draining" /\ Post(salt, "dropped")
  /\ UNCHANGED <<turnVars, threadVars, stopped, leaseRound, salts, runner, runnerLive,
                 streams, historyVars>>

RunnerExits ==
  /\ runner = "running"
  /\ runner' = "draining"
  /\ UNCHANGED <<turnVars, threadVars, outcomes, stopped, leaseRound, salts, held,
                 runnerLive, streams, historyVars>>

RefuseSalt ==
  /\ runner = "draining" /\ held = {} /\ salts # <<>>
  /\ Post(Head(salts), IF stop[Head(salts).lease] THEN "dropped" ELSE "failed")
  /\ salts' = Tail(salts)
  /\ UNCHANGED <<turnVars, threadVars, stopped, leaseRound, runnerVars, historyVars>>

RunnerDrained ==
  /\ runner = "draining" /\ held = {} /\ salts = <<>>
  /\ runner' = "leaving"
  /\ UNCHANGED <<turnVars, threadVars, outcomes, stopped, leaseRound, salts, held,
                 runnerLive, streams, historyVars>>

RunnerGone ==
  /\ runner = "leaving"
  /\ runner' = "off" /\ runnerLive' = FALSE
  /\ UNCHANGED <<turnVars, threadVars, outcomes, stopped, leaseRound, salts, held,
                 streams, historyVars>>

(* A lease is cancelled alone by the session.                              *)
CancelLease(l) ==
  /\ Open(l) /\ ~stopped[l]
  /\ Cardinality({m \in Leases : stopped[m]}) < MaxCancels
  /\ stopped' = [stopped EXCEPT ![l] = TRUE]
  /\ UNCHANGED <<turnVars, threadVars, outcomes, leaseRound, salts, runnerVars,
                 historyVars>>

(* A reseed cancels every open lease.  If it finds one still waiting for   *)
(* its turn, leases that join later must read a round above the one it     *)
(* found, which `fresh` records.  Leases that are fed count nothing.       *)
Reseed ==
  /\ reseeds < MaxReseeds
  /\ \E l \in Leases : Open(l) /\ ~stopped[l]
  /\ reseeds' = reseeds + 1
  /\ stopped' = [l \in Leases |-> stopped[l] \/ Open(l)]
  /\ fresh' = IF \E l \in Leases : lease[l] = "waiting" /\ ~stopped[l]
              THEN leaseRound + 1 ELSE fresh
  /\ UNCHANGED <<turnVars, threadVars, outcomes, leaseRound, salts, runnerVars, need>>

-----------------------------------------------------------------------------
(* Specification *)

LeaseThread(l) ==
  \/ Granted(l) \/ StopsWaiting(l) \/ Quit(l) \/ DropPlace(l)
  \/ Report(l) \/ Receive(l) \/ ReceiveEnds(l) \/ Return(l)

Feeder(l) ==
  \/ FeedSalt(l) \/ SendSalt(l) \/ CountSalt(l)
  \/ FeederStops(l) \/ HandOver(l) \/ ClearFeeding(l) \/ DropTurn(l)

Runner ==
  \/ TakeSalt \/ RefuseSalt \/ RunnerDrained \/ RunnerGone
  \/ \E salt \in SaltIds : AnswerSalt(salt)

Callers ==
  \/ StreamStarts \/ RunnerExits \/ Reseed
  \/ \E l \in Leases : Join(l) \/ CancelLease(l)

Next ==
  \/ \E l \in Leases : LeaseThread(l) \/ Feeder(l)
  \/ Runner
  \/ Callers

Spec == Init /\ [][Next]_vars

(* Threads keep running and a runner that runs serves its salts; nothing   *)
(* obliges the session to start a stream, to end it or to send a lease.    *)
FairSpec ==
  /\ Spec
  /\ \A l \in Leases : WF_vars(LeaseThread(l)) /\ WF_vars(Feeder(l))
  /\ WF_vars(Runner)

-----------------------------------------------------------------------------
(* Properties *)

(* Only the lease at the front of the queue feeds: while a feeder may      *)
(* still send a salt, no other lease's feeder may (LeaseTurns,             *)
(* sample_lease: "One lease feeds at a time").                             *)
OneFeeder ==
  \A l \in Leases : feeder[l] \in {"checking", "sending", "counting"} => Front(l)

(* Salts enter the channel lease by lease in join order, and in index      *)
(* order within a lease, whichever leases give up (lease_turn.rs: "First-  *)
(* come, first-served turns").                                             *)
FedInTurn ==
  \A i, j \in DOMAIN salts : i < j =>
     \/ id[salts[i].lease] < id[salts[j].lease]
     \/ salts[i].lease = salts[j].lease /\ salts[i].index < salts[j].index

OfLease(l, set) == {salt \in set : salt.lease = l}

(* Each salt queued is in the channel, with the runner, in the outcome     *)
(* channel or reported, so none is lost or reported twice                  *)
(* (sample_lease, report_lease).                                           *)
SaltsConserved ==
  \A l \in Leases :
     fed[l] + (IF feeder[l] = "counting" THEN 1 ELSE 0) =
       reported[l] + Len(outcomes[l]) + Cardinality(OfLease(l, held))
       + Cardinality({i \in DOMAIN salts : salts[i].lease = l})

(* A lease that returns as complete has had an outcome for every salt: the *)
(* count it compares with is final (report_lease: "`feeding` is cleared    *)
(* after the last increment of `fed`").                                    *)
AllReported ==
  \A l \in Leases : result[l] = "complete" => reported[l] = SaltCount[l]

(* Nothing is queued for a lease that has returned (scope joins the        *)
(* feeder), and it has given up its place.                                 *)
NothingAfterReturn ==
  \A l \in Leases : lease[l] = "returned" =>
     /\ feeder[l] \in {"off", "ended"}
     /\ \A i \in DOMAIN waiting : waiting[i] # l

(* The book-keeping of a lease: one feeder at a time, every salt it queued *)
(* in exactly one place, an outcome for each of them before the lease is   *)
(* complete, and nothing of it left when it has returned (sample_lease,    *)
(* report_lease).                                                          *)
FeedInv == TypeOK /\ OneFeeder /\ SaltsConserved /\ AllReported /\ NothingAfterReturn

(* A lease that joins after a reseed found some lease waiting reads a      *)
(* newer round than the reseed found (lease_round, sample_lease).          *)
RoundAfterReseed ==
  \A l \in Leases : feeder[l] # "off" => round[l] >= need[l]

(* The rounds of the salts in the channel never fall, so the report range  *)
(* of Controller::enter_round is not reset by a salt of an older round     *)
(* (sample_lease reads the round once it has its turn).                    *)
RoundsInOrder ==
  \A i, j \in DOMAIN salts :
     i < j => round[salts[i].lease] <= round[salts[j].lease]

(* The runner meets leases in join order and in rising rounds, whoever     *)
(* gives up its turn, and however reseeds fall between them.               *)
TurnOrder == FedInTurn /\ RoundsInOrder

(* Every open lease returns, unless it is left without a runner            *)
(* (sample_lease).                                                         *)
LeaseEnds ==
  \A l \in Leases : Open(l) ~> lease[l] = "returned" \/ runner = "off"
=============================================================================
