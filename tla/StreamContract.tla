-------------------------- MODULE StreamContract --------------------------
(***************************************************************************)
(* What a stream of the Metal solver promises to the session and to the    *)
(* leases that feed it, whatever the runner does inside.  A unit is a      *)
(* stream job or a lease salt.  The session (or a lease) hands units over, *)
(* may abandon them, and may stop listening; the stream answers every unit *)
(* it took at most once, and it ends only when no job is left unanswered.  *)
(*                                                                         *)
(* Code: the callers' view of resident::run (src/src/resident.rs) through  *)
(* Sampler::sample_stream and sample_lease (src/src/lib.rs), and of the    *)
(* router of the combined sampler (src/src/combined.rs).                   *)
(***************************************************************************)
EXTENDS Sequences

CONSTANTS
  Jobs,     (* stream jobs, answered on the session's result channel        *)
  Salts,    (* lease salts, answered on their lease's own channel           *)
  Lossy     (* an abandoned unit may get an error, and jobs may be dropped  *)
            (* once nobody reads: so for the router of the combined sampler *)

Units == Jobs \union Salts

(* StreamOutcome and SaltOutcome, payloads left out. *)
Outcomes == {"reads", "screened", "cancelled", "failed"}

VARIABLES
  accepted,   (* units the stream has been handed                           *)
  answers,    (* per unit, every terminal answer sent for it                *)
  abandoned,  (* units nobody wants: a cancelled watermark, a stopped lease *)
  closed,     (* nobody reads the results any more                          *)
  ended       (* sample_stream has returned                                 *)

vars == <<accepted, answers, abandoned, closed, ended>>

Init ==
  /\ accepted = {}
  /\ answers = [u \in Units |-> <<>>]
  /\ abandoned = {}
  /\ closed = FALSE
  /\ ended = FALSE

(* A job is only taken by a running stream; a salt may be left in the      *)
(* intake channel of a stream that has ended.                              *)
Accept(u) ==
  /\ u \notin accepted
  /\ u \in Jobs => ~ended
  /\ accepted' = accepted \union {u}
  /\ UNCHANGED <<answers, abandoned, closed, ended>>

(* The outcome of units, fixed before the sends of their answers, which    *)
(* may block; a batch shares one.  Only salts are screened; a unit is      *)
(* reported cancelled only when its answer is not wanted; an abandoned     *)
(* unit gets no reads and, unless the stream is lossy, no error.           *)
Respond(units, outcome) ==
  /\ ~ended
  /\ \A u \in units :
       /\ u \in accepted /\ answers[u] = <<>>
       /\ outcome \in {"reads", "failed"} => u \notin abandoned \/ (Lossy /\ outcome = "failed")
       /\ outcome = "screened" => u \in Salts
       /\ outcome = "cancelled" => u \in abandoned \/ closed
  /\ answers' = [u \in Units |-> IF u \in units THEN <<outcome>> ELSE answers[u]]
  /\ UNCHANGED <<accepted, abandoned, closed, ended>>

Abandon(units) ==
  /\ abandoned' = abandoned \union units
  /\ UNCHANGED <<accepted, answers, closed, ended>>

Close ==
  /\ closed' = TRUE
  /\ UNCHANGED <<accepted, answers, abandoned, ended>>

End ==
  /\ (Lossy /\ closed) \/ \A u \in accepted \intersect Jobs : answers[u] # <<>>
  /\ ended' = TRUE
  /\ UNCHANGED <<accepted, answers, abandoned, closed>>

Next ==
  \/ \E u \in Units : Accept(u)
  \/ \E units \in SUBSET Units, outcome \in Outcomes : Respond(units, outcome)
  \/ \E units \in SUBSET Units : Abandon(units)
  \/ Close
  \/ End

Spec == Init /\ [][Next]_vars
=============================================================================
