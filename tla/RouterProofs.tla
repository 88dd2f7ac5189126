---------------------------- MODULE RouterProofs ----------------------------
(***************************************************************************)
(* Proofs that the router of the combined sampler keeps every job in one   *)
(* hand, never overfills an engine, routes each job by what held while it  *)
(* looked at it, and shows the session a stream.                           *)
(*                                                                         *)
(* Hand is the family of the places a job can be in: every step moves one  *)
(* job between two of them.  Room is what one engine holds, as a fact      *)
(* about four values: its job channel, what it works on, its result        *)
(* channel and the router's reservations.                                  *)
(***************************************************************************)
EXTENDS Router, Integers, FiniteSetTheorems, TLAPS

USE RouterAssumption

-----------------------------------------------------------------------------
(* Sequences without repetition *)

Once(s) == \A i, k \in 1 .. Len(s) : s[i] = s[k] => i = k

JobsOf(s) == [i \in 1 .. Len(s) |-> s[i].job]

(* Putting a value at the end of a queue.                                  *)
LEMMA Appended ==
  ASSUME NEW S, NEW s \in Seq(S), NEW x \in S
  PROVE  /\ Append(s, x) \in Seq(S) /\ Len(Append(s, x)) = Len(s) + 1
         /\ Elems(Append(s, x)) = Elems(s) \union {x}
         /\ Once(s) /\ x \notin Elems(s) => Once(Append(s, x))
<1>1. /\ Append(s, x) \in Seq(S) /\ Len(s) \in Nat
      /\ Len(Append(s, x)) = Len(s) + 1
      /\ Append(s, x)[Len(s) + 1] = x
      /\ \A i \in 1 .. Len(s) : Append(s, x)[i] = s[i]
  OBVIOUS
<1>2. /\ \A i \in 1 .. (Len(s) + 1) : i \in 1 .. Len(s) \/ i = Len(s) + 1
      /\ 1 .. Len(s) \subseteq 1 .. (Len(s) + 1) /\ Len(s) + 1 \in 1 .. (Len(s) + 1)
  BY <1>1
<1>3. Elems(Append(s, x)) = Elems(s) \union {x}
  BY <1>1, <1>2 DEF Elems
<1>4. ASSUME Once(s), x \notin Elems(s) PROVE Once(Append(s, x))
  BY <1>1, <1>2, <1>4 DEF Once, Elems
<1> QED BY <1>1, <1>3, <1>4

(* Taking the first value of a queue.                                      *)
LEMMA Tailed ==
  ASSUME NEW S, NEW s \in Seq(S), s # <<>>
  PROVE  /\ Tail(s) \in Seq(S) /\ Len(Tail(s)) = Len(s) - 1 /\ Len(s) \in Nat \ {0}
         /\ Head(s) \in S /\ Head(s) \in Elems(s)
         /\ Elems(s) = Elems(Tail(s)) \union {Head(s)}
         /\ Once(s) => Once(Tail(s)) /\ Head(s) \notin Elems(Tail(s))
<1>1. /\ Head(s) = s[1] /\ Len(s) \in Nat \ {0} /\ Head(s) \in S
      /\ Tail(s) \in Seq(S) /\ Len(Tail(s)) = Len(s) - 1
      /\ \A i \in 1 .. (Len(s) - 1) : Tail(s)[i] = s[i + 1]
  OBVIOUS
<1>2. /\ \A i \in 1 .. Len(s) : i = 1 \/ i - 1 \in 1 .. (Len(s) - 1)
      /\ \A i \in 1 .. (Len(s) - 1) : i + 1 \in 1 .. Len(s) /\ i + 1 # 1
      /\ 1 \in 1 .. Len(s)
  BY <1>1
<1>3. Elems(s) = Elems(Tail(s)) \union {Head(s)}
  <2>1. ASSUME NEW x \in Elems(s) PROVE x \in Elems(Tail(s)) \union {Head(s)}
    <3>1. PICK i \in 1 .. Len(s) : x = s[i]
      BY DEF Elems
    <3>2. i # 1 => i - 1 \in 1 .. (Len(s) - 1) /\ x = Tail(s)[i - 1]
      BY <1>1, <1>2, <3>1
    <3> QED BY <1>1, <3>1, <3>2 DEF Elems
  <2>2. Elems(Tail(s)) \subseteq Elems(s) /\ Head(s) \in Elems(s)
    BY <1>1, <1>2 DEF Elems
  <2> QED BY <2>1, <2>2
<1>4. ASSUME Once(s) PROVE Once(Tail(s)) /\ Head(s) \notin Elems(Tail(s))
  BY <1>1, <1>2, <1>4 DEF Once, Elems
<1> QED BY <1>1, <1>3, <1>4

(* The jobs of a sequence of messages.                                     *)
LEMMA JobsSeq ==
  ASSUME NEW R, \A r \in R : r.job \in Jobs, NEW s \in Seq(R)
  PROVE  /\ JobsOf(s) \in Seq(Jobs) /\ Len(JobsOf(s)) = Len(s)
         /\ Elems(JobsOf(s)) = {r.job : r \in Elems(s)}
         /\ (s = <<>>) <=> (JobsOf(s) = <<>>)
<1>1. /\ Len(s) \in Nat /\ \A i \in 1 .. Len(s) : s[i] \in R
      /\ (s = <<>>) <=> (Len(s) = 0)
  OBVIOUS
<1>2. JobsOf(s) \in Seq(Jobs) /\ Len(JobsOf(s)) = Len(s)
  BY <1>1 DEF JobsOf
<1>3. \A i \in 1 .. Len(s) : JobsOf(s)[i] = s[i].job
  BY DEF JobsOf
<1>4. Elems(JobsOf(s)) = {r.job : r \in Elems(s)}
  BY <1>2, <1>3 DEF Elems
<1> QED BY <1>1, <1>2, <1>4

LEMMA JobsAppended ==
  ASSUME NEW R, \A r \in R : r.job \in Jobs, NEW s \in Seq(R), NEW x \in R
  PROVE  JobsOf(Append(s, x)) = Append(JobsOf(s), x.job)
<1>1. /\ Len(s) \in Nat /\ Len(Append(s, x)) = Len(s) + 1 /\ Append(s, x)[Len(s) + 1] = x
      /\ \A i \in 1 .. Len(s) : Append(s, x)[i] = s[i]
  OBVIOUS
<1>2. JobsOf(s) \in Seq(Jobs) /\ Len(JobsOf(s)) = Len(s)
  BY JobsSeq
<1>3. /\ Append(JobsOf(s), x.job) \in Seq(Jobs)
      /\ Len(Append(JobsOf(s), x.job)) = Len(s) + 1
      /\ Append(JobsOf(s), x.job)[Len(s) + 1] = x.job
      /\ \A i \in 1 .. Len(s) : Append(JobsOf(s), x.job)[i] = JobsOf(s)[i]
  BY <1>2
<1>4. \A i \in 1 .. (Len(s) + 1) : i \in 1 .. Len(s) \/ i = Len(s) + 1
  BY <1>1
<1>5. \A i \in 1 .. (Len(s) + 1) : Append(JobsOf(s), x.job)[i] = Append(s, x)[i].job
  BY <1>1, <1>3, <1>4 DEF JobsOf
<1>6. Append(JobsOf(s), x.job)
        = [i \in 1 .. (Len(s) + 1) |-> Append(JobsOf(s), x.job)[i]]
  BY <1>3
<1> QED BY <1>1, <1>5, <1>6 DEF JobsOf

LEMMA JobsTailed ==
  ASSUME NEW R, \A r \in R : r.job \in Jobs, NEW s \in Seq(R), s # <<>>
  PROVE  JobsOf(Tail(s)) = Tail(JobsOf(s)) /\ Head(JobsOf(s)) = Head(s).job
<1>1. /\ Len(s) \in Nat \ {0} /\ Head(s) = s[1] /\ Len(Tail(s)) = Len(s) - 1
      /\ \A i \in 1 .. (Len(s) - 1) : Tail(s)[i] = s[i + 1] /\ i + 1 \in 1 .. Len(s)
      /\ 1 \in 1 .. Len(s)
  OBVIOUS
<1>2. JobsOf(s) \in Seq(Jobs) /\ Len(JobsOf(s)) = Len(s) /\ JobsOf(s) # <<>>
  BY JobsSeq
<1>3. /\ Head(JobsOf(s)) = JobsOf(s)[1]
      /\ Tail(JobsOf(s)) \in Seq(Jobs) /\ Len(Tail(JobsOf(s))) = Len(s) - 1
      /\ \A i \in 1 .. (Len(s) - 1) : Tail(JobsOf(s))[i] = JobsOf(s)[i + 1]
  BY <1>1, <1>2
<1>4. \A i \in 1 .. (Len(s) - 1) : Tail(JobsOf(s))[i] = Tail(s)[i].job
  BY <1>1, <1>3 DEF JobsOf
<1>5. Tail(JobsOf(s)) = [i \in 1 .. (Len(s) - 1) |-> Tail(JobsOf(s))[i]]
  <2>1. \A t \in Seq(Jobs) : t = [i \in 1 .. Len(t) |-> t[i]]
    OBVIOUS
  <2> QED BY <1>3, <2>1
<1> QED BY <1>1, <1>3, <1>4, <1>5 DEF JobsOf

(* A sequence without repetition is as long as its set is large.           *)
LEMMA OnceCounts ==
  ASSUME NEW S, NEW s \in Seq(S), Once(s)
  PROVE  Cardinality(Elems(s)) = Len(s)
<1>1. Len(s) \in Nat /\ s \in [1 .. Len(s) -> Elems(s)]
  BY DEF Elems
<1>2. s \in Bijection(1 .. Len(s), Elems(s))
  BY <1>1 DEF Bijection, Injection, Surjection, IsInjective, Once, Elems
<1> QED BY <1>1, <1>2, FS_CountingElements DEF ExistsBijection

-----------------------------------------------------------------------------
(* The places of a job *)

Places == {"channel", "queue", "metal", "ane", "session"}

Hand ==
  [o \in Places |->
     CASE o = "channel" -> Elems(jobs)
       [] o = "queue" -> Queued
       [] o = "session" -> {j \in Jobs : replies[j] # <<>>}
       [] OTHER -> active[o]]

(* The sets of the family P are apart and within S, and when whole is true *)
(* nothing of S is missing.                                                *)
Kept(P, S, whole) ==
  /\ \A a, b \in Places : a # b => P[a] \intersect P[b] = {}
  /\ \A a \in Places : P[a] \subseteq S
  /\ whole => S \subseteq UNION {P[a] : a \in Places}

Same(P, Q, N) == \A c \in Places \ N : Q[c] = P[c]

(* A job that moves from one place to another is kept.                     *)
LEMMA KeptMoved ==
  ASSUME NEW P, NEW Q, NEW S, NEW w, NEW v, Kept(P, S, w), v => w,
         NEW a \in Places, NEW b \in Places, a # b, NEW j \in P[a],
         Q[a] = P[a] \ {j}, Q[b] = P[b] \union {j}, Same(P, Q, {a, b})
  PROVE  Kept(Q, S, v)
<1>1. \A c \in Places : c = a \/ c = b \/ Q[c] = P[c]
  BY DEF Same
<1>2. ASSUME NEW c \in Places, NEW d \in Places, c # d PROVE Q[c] \intersect Q[d] = {}
  BY <1>1, <1>2 DEF Kept
<1>3. \A c \in Places : Q[c] \subseteq S
  BY <1>1 DEF Kept
<1>4. ASSUME v, NEW x \in S PROVE \E c \in Places : x \in Q[c]
  <2>1. PICK c \in Places : x \in P[c]
    BY <1>4 DEF Kept
  <2> QED BY <1>1, <2>1
<1> QED BY <1>2, <1>3, <1>4 DEF Kept

(* A job may be dropped only when nothing need be complete.                *)
LEMMA KeptDropped ==
  ASSUME NEW P, NEW Q, NEW S, NEW w, NEW v, Kept(P, S, w), ~v,
         \A c \in Places : Q[c] \subseteq P[c]
  PROVE  Kept(Q, S, v)
<1>1. ASSUME NEW c \in Places, NEW d \in Places, c # d PROVE Q[c] \intersect Q[d] = {}
  BY <1>1 DEF Kept
<1>2. \A c \in Places : Q[c] \subseteq S
  BY DEF Kept
<1> QED BY <1>1, <1>2 DEF Kept

(* A new job enters one place.                                             *)
LEMMA KeptEntered ==
  ASSUME NEW P, NEW Q, NEW S, NEW w, Kept(P, S, w), NEW a \in Places, NEW j, j \notin S,
         Q[a] = P[a] \union {j}, Same(P, Q, {a})
  PROVE  Kept(Q, S \union {j}, w)
<1>1. \A c \in Places : c = a \/ Q[c] = P[c]
  BY DEF Same
<1>2. \A c \in Places : j \notin P[c]
  BY DEF Kept
<1>3. ASSUME NEW c \in Places, NEW d \in Places, c # d PROVE Q[c] \intersect Q[d] = {}
  BY <1>1, <1>2, <1>3 DEF Kept
<1>4. \A c \in Places : Q[c] \subseteq S \union {j}
  BY <1>1 DEF Kept
<1>5. ASSUME w, NEW x \in S \union {j} PROVE \E c \in Places : x \in Q[c]
  <2>1. x \in S => \E c \in Places : x \in P[c]
    BY <1>5 DEF Kept
  <2> QED BY <1>1, <2>1
<1> QED BY <1>3, <1>4, <1>5 DEF Kept

(* The places one by one, before and after a step.                         *)
LEMMA Hands ==
  /\ Hand["channel"] = Elems(jobs) /\ Hand["queue"] = Queued
  /\ \A e \in Engines : Hand[e] = active[e] /\ e \in Places
  /\ Hand["session"] = {j \in Jobs : replies[j] # <<>>}
BY DEF Hand, Places, Engines

LEMMA HandsAfter ==
  /\ Hand'["channel"] = Elems(jobs') /\ Hand'["queue"] = Queued'
  /\ \A e \in Engines : Hand'[e] = active'[e]
  /\ Hand'["session"] = {j \in Jobs : replies'[j] # <<>>}
BY DEF Hand, Places, Engines

-----------------------------------------------------------------------------
(* What one engine holds *)

(* Jobs in its channel, in hand and in its result channel are apart, all   *)
(* of them reserved, and no more than the reservations.                    *)
Room(in, h, out, act) ==
  /\ Once(in) /\ Once(out)
  /\ Elems(in) \intersect h = {} /\ Elems(in) \intersect Elems(out) = {}
  /\ h \intersect Elems(out) = {}
  /\ Elems(in) \union h \union Elems(out) \subseteq act
  /\ Len(in) + Cardinality(h) + Len(out) <= Cardinality(act)

(* Counting, one element more and one less.                                *)
LEMMA OneMore ==
  ASSUME NEW h, IsFiniteSet(h), NEW j
  PROVE  /\ IsFiniteSet(h \union {j}) /\ IsFiniteSet(h \ {j}) /\ Cardinality(h) \in Nat
         /\ j \notin h => Cardinality(h \union {j}) = Cardinality(h) + 1
         /\ j \in h => Cardinality(h \ {j}) = Cardinality(h) - 1
BY FS_AddElement, FS_RemoveElement, FS_CardinalityType

(* What an engine holds is finite, as its reservations are.                *)
LEMMA HeldFinite ==
  ASSUME NEW in \in Seq(Jobs), NEW out \in Seq(Jobs), NEW h, NEW act, Room(in, h, out, act),
         IsFiniteSet(act)
  PROVE  /\ IsFiniteSet(h) /\ Cardinality(h) \in Nat /\ Cardinality(act) \in Nat
         /\ Len(in) \in Nat /\ Len(out) \in Nat
<1>1. h \subseteq act
  BY DEF Room
<1> QED BY <1>1, FS_Subset, FS_CardinalityType

(* The router reserves a place and sends the job.                          *)
LEMMA RoomAssigned ==
  ASSUME NEW in \in Seq(Jobs), NEW out \in Seq(Jobs), NEW h, NEW act, Room(in, h, out, act),
         IsFiniteSet(act), NEW j \in Jobs, j \notin act
  PROVE  Room(Append(in, j), h, out, act \union {j})
<1>1. /\ Once(Append(in, j)) /\ Elems(Append(in, j)) = Elems(in) \union {j}
      /\ Len(Append(in, j)) = Len(in) + 1
  BY Appended DEF Room
<1>2. /\ Cardinality(act \union {j}) = Cardinality(act) + 1
      /\ Cardinality(h) \in Nat /\ Cardinality(act) \in Nat /\ Len(in) \in Nat /\ Len(out) \in Nat
  BY OneMore, HeldFinite
<1> QED BY <1>1, <1>2 DEF Room

(* The engine takes a job in hand.                                         *)
LEMMA RoomTaken ==
  ASSUME NEW in \in Seq(Jobs), NEW out \in Seq(Jobs), NEW h, NEW act, Room(in, h, out, act),
         IsFiniteSet(act), in # <<>>
  PROVE  Room(Tail(in), h \union {Head(in)}, out, act)
<1>1. /\ Once(Tail(in)) /\ Head(in) \notin Elems(Tail(in)) /\ Head(in) \in Elems(in)
      /\ Elems(in) = Elems(Tail(in)) \union {Head(in)}
      /\ Len(Tail(in)) = Len(in) - 1
  BY Tailed DEF Room
<1>2. /\ IsFiniteSet(h) /\ Cardinality(h) \in Nat /\ Cardinality(act) \in Nat
      /\ Len(in) \in Nat /\ Len(out) \in Nat
  BY HeldFinite
<1>3. Cardinality(h \union {Head(in)}) = Cardinality(h) + 1
  BY <1>1, <1>2, OneMore DEF Room
<1> QED BY <1>1, <1>2, <1>3 DEF Room

(* The engine answers a job it has in hand.                                *)
LEMMA RoomAnswered ==
  ASSUME NEW in \in Seq(Jobs), NEW out \in Seq(Jobs), NEW h, NEW act, Room(in, h, out, act),
         IsFiniteSet(act), NEW j \in Jobs, j \in h
  PROVE  Room(in, h \ {j}, Append(out, j), act)
<1>1. /\ Once(Append(out, j)) /\ Elems(Append(out, j)) = Elems(out) \union {j}
      /\ Len(Append(out, j)) = Len(out) + 1
  BY Appended DEF Room
<1>2. /\ IsFiniteSet(h) /\ Cardinality(h) \in Nat /\ Cardinality(act) \in Nat
      /\ Len(in) \in Nat /\ Len(out) \in Nat
  BY HeldFinite
<1>3. Cardinality(h \ {j}) = Cardinality(h) - 1
  BY <1>2, OneMore
<1> QED BY <1>1, <1>2, <1>3 DEF Room

(* The router takes an answer and gives up the reservation.                *)
LEMMA RoomCollected ==
  ASSUME NEW in \in Seq(Jobs), NEW out \in Seq(Jobs), NEW h, NEW act, Room(in, h, out, act),
         IsFiniteSet(act), out # <<>>
  PROVE  Head(out) \in act /\ Room(in, h, Tail(out), act \ {Head(out)})
<1>1. /\ Once(Tail(out)) /\ Head(out) \notin Elems(Tail(out)) /\ Head(out) \in Elems(out)
      /\ Elems(out) = Elems(Tail(out)) \union {Head(out)}
      /\ Len(Tail(out)) = Len(out) - 1
  BY Tailed DEF Room
<1>2. /\ Cardinality(h) \in Nat /\ Cardinality(act) \in Nat /\ Len(in) \in Nat /\ Len(out) \in Nat
  BY HeldFinite
<1>3. Head(out) \in act /\ Cardinality(act \ {Head(out)}) = Cardinality(act) - 1
  BY <1>1, OneMore DEF Room
<1> QED BY <1>1, <1>2, <1>3 DEF Room

(* Its channels and its hands are emptied.                                 *)
LEMMA RoomEmptied ==
  ASSUME NEW in \in Seq(Jobs), NEW out \in Seq(Jobs), NEW h, NEW act, Room(in, h, out, act),
         IsFiniteSet(act)
  PROVE  Room(<<>>, {}, out, act) /\ Room(in, h, <<>>, act)
<1>1. /\ Cardinality(h) \in Nat /\ Cardinality(act) \in Nat /\ Len(in) \in Nat /\ Len(out) \in Nat
      /\ Cardinality({}) = 0 /\ Len(<<>>) = 0
  BY HeldFinite, FS_EmptySet
<1>2. Elems(<<>>) = {} /\ Once(<<>>)
  BY DEF Elems, Once
<1> QED BY <1>1, <1>2 DEF Room

(* An engine that ended holds nothing, whatever is reserved for it.        *)
LEMMA RoomEnded ==
  ASSUME NEW act, IsFiniteSet(act)
  PROVE  Room(<<>>, {}, <<>>, act)
<1>1. Cardinality(act) \in Nat /\ Cardinality({}) = 0 /\ Len(<<>>) = 0
  BY FS_CardinalityType, FS_EmptySet
<1>2. Elems(<<>>) = {} /\ Once(<<>>)
  BY DEF Elems, Once
<1> QED BY <1>1, <1>2 DEF Room

-----------------------------------------------------------------------------
(* Types, in five groups *)

SessionTypes ==
  /\ settings \in Configs /\ events \in 0 .. MaxEvents
  /\ jobs \in Seq(Jobs) /\ Len(jobs) <= JobCap
  /\ inputOpen \in BOOLEAN /\ outClosed \in BOOLEAN
  /\ sent \in SUBSET Jobs /\ cancelled \in SUBSET Jobs

RouteTypes ==
  /\ pc \in {"top", "collect", "take", "scan", "read", "route", "stopping", "joining", "done"}
  /\ turn \in Engines /\ left \in Nat
  /\ pending \in Seq(Entries) /\ left <= Len(pending)
  /\ active \in [Engines -> SUBSET Jobs]
  /\ dead \in [Engines -> BOOLEAN] /\ sender \in [Engines -> BOOLEAN]
  /\ eof \in BOOLEAN /\ stop \in BOOLEAN /\ receiver \in BOOLEAN

EngineTypes ==
  /\ engine \in [Engines -> {"waiting", "looked", "running", "ended"}]
  /\ inbox \in [Engines -> Seq(Jobs)] /\ outbox \in [Engines -> Seq(Results)]
  /\ taking \in [Engines -> BOOLEAN] /\ held \in [Engines -> SUBSET Jobs]
  /\ broken \in SUBSET Engines

AnswerTypes ==
  /\ outLen \in 0 .. OutCap + 1
  /\ outcome \in [Jobs -> Outcomes \union {None}]
  /\ replies \in [Jobs -> Seq(Outcomes)]

SinceTypes == since \in [cfgs : SUBSET Configs, cancelled : SUBSET Jobs]

LEMMA Types == TypeOK <=> SessionTypes /\ RouteTypes /\ EngineTypes /\ AnswerTypes /\ SinceTypes
BY DEF TypeOK, SessionTypes, RouteTypes, EngineTypes, AnswerTypes, SinceTypes

LEMMA TypesAfter ==
  TypeOK' <=> SessionTypes' /\ RouteTypes' /\ EngineTypes' /\ AnswerTypes' /\ SinceTypes'
BY DEF TypeOK, SessionTypes, RouteTypes, EngineTypes, AnswerTypes, SinceTypes

(* The values the constants allow.                                         *)
LEMMA Constants ==
  /\ \A e \in Engines : Limit[e] \in Nat \ {0}
  /\ "metal" \in Engines /\ "ane" \in Engines /\ OutCap \in Nat
  /\ None \notin Outcomes /\ None \notin Configs
  /\ \A r \in Entries : r.job \in Jobs /\ r.fit \in SUBSET Engines
  /\ \A r \in Results : r.job \in Jobs /\ r.outcome \in Outcomes
BY DEF Engines, Limit, Entries, Results

(* What is fixed for a job when it is answered, or when nobody reads.      *)
LEMMA ForwardTypes ==
  ASSUME AnswerTypes, Unblocked, NEW j \in Jobs, NEW o \in Outcomes, NEW label,
         Forward(j, o, label)
  PROVE  AnswerTypes' /\ stop' \in {stop, TRUE} /\ pc' \in {label, "stopping"}
<1>1. CASE outClosed
  BY <1>1 DEF Forward, AnswerTypes
<1>2. CASE ~outClosed
  <2>1. outLen' \in 0 .. OutCap + 1
    BY <1>2 DEF Forward, Reply, AnswerTypes, Unblocked
  <2>2. outcome' \in [Jobs -> Outcomes \union {None}]
    BY <1>2 DEF Forward, Reply, AnswerTypes
  <2>3. replies' \in [Jobs -> Seq(Outcomes)]
    <3>1. replies \in [Jobs -> Seq(Outcomes)]
      BY DEF AnswerTypes
    <3>2. Append(replies[j], o) \in Seq(Outcomes)
      BY <3>1
    <3>3. replies' = [replies EXCEPT ![j] = Append(replies[j], o)]
      BY <1>2 DEF Forward, Reply
    <3> QED BY <3>1, <3>2, <3>3
  <2> QED BY <1>2, <2>1, <2>2, <2>3 DEF Forward, AnswerTypes
<1> QED BY <1>1, <1>2

(* While a job is looked at it is in front of the queue.                   *)
Looking == \E label \in {"scan", "read", "route"} : Scanning(label)

LEMMA Front ==
  ASSUME RouteTypes, Looking
  PROVE  /\ pending \in Seq(Entries) /\ pending # <<>> /\ Head(pending) \in Entries
         /\ Head(pending).job \in Jobs /\ Tail(pending) \in Seq(Entries)
         /\ Len(Tail(pending)) = Len(pending) - 1 /\ Len(pending) \in Nat
         /\ left - 1 \in Nat /\ left - 1 <= Len(Tail(pending))
<1>1. pending \in Seq(Entries) /\ left \in Nat /\ left > 0 /\ left <= Len(pending)
  BY DEF RouteTypes, Looking, Scanning
<1>2. Len(pending) > 0 /\ pending # <<>>
  BY <1>1
<1>3. Head(pending) \in Entries /\ Tail(pending) \in Seq(Entries)
      /\ Len(Tail(pending)) = Len(pending) - 1 /\ Len(pending) \in Nat
  BY <1>1, <1>2
<1> QED BY <1>1, <1>2, <1>3, Constants

(* Queueing the first job again.                                           *)
LEMMA Requeued ==
  ASSUME RouteTypes, Looking, Requeue
  PROVE  pending' \in Seq(Entries) /\ Len(pending') = Len(pending)
<1>1. PICK x \in Entries : x = Head(pending)
  BY Front
<1>2. pending' = Append(Tail(pending), x)
  BY <1>1 DEF Requeue
<1>3. /\ Tail(pending) \in Seq(Entries) /\ Len(Tail(pending)) = Len(pending) - 1
      /\ Len(pending) \in Nat
  BY Front
<1> QED BY <1>2, <1>3

(* Reading the settings changes what is remembered of the first job.       *)
LEMMA ReadFirst ==
  ASSUME RouteTypes, SessionTypes, ReadSettings
  PROVE  /\ pending' \in Seq(Entries) /\ Len(pending') = Len(pending)
         /\ JobsOf(pending') = JobsOf(pending)
         /\ pending # <<>> /\ Head(pending) \in Entries /\ pending' # <<>>
         /\ Head(pending').job = Head(pending).job /\ Head(pending').cfg = settings
         /\ Head(pending').fit = Scanned(Head(pending), settings)
         /\ \A x \in Elems(pending') : x = Head(pending') \/ x \in Elems(pending)
<1> DEFINE x == [pending[1] EXCEPT !.cfg = settings, !.fit = Scanned(pending[1], settings)]
<1>1. /\ pending \in Seq(Entries) /\ pending # <<>> /\ Len(pending) \in Nat \ {0}
      /\ Head(pending) \in Entries /\ Head(pending) = pending[1]
  <2>1. Looking
    BY DEF ReadSettings, Looking
  <2> QED BY <2>1, Front
<1>2. /\ x \in Entries /\ x.job = pending[1].job /\ x.cfg = settings
      /\ x.fit = Scanned(pending[1], settings)
  <2>1. pending[1] \in Entries /\ settings \in Configs
    BY <1>1 DEF SessionTypes
  <2>2. Scanned(pending[1], settings) \in SUBSET Engines
    BY <2>1 DEF Scanned, Eligible, Entries
  <2> QED BY <2>1, <2>2 DEF Entries
<1>3. pending' = [pending EXCEPT ![1] = x]
  BY DEF ReadSettings
<1> HIDE DEF x
<1>4. /\ pending' \in Seq(Entries) /\ Len(pending') = Len(pending) /\ pending'[1] = x
      /\ \A i \in 1 .. Len(pending) : i # 1 => pending'[i] = pending[i]
  BY <1>1, <1>2, <1>3
<1>5. Head(pending') = x /\ pending' # <<>>
  BY <1>1, <1>4
<1>6. \A i \in 1 .. Len(pending) : pending'[i].job = pending[i].job
  BY <1>2, <1>4
<1>7. JobsOf(pending') = JobsOf(pending)
  BY <1>4, <1>6 DEF JobsOf
<1>8. \A y \in Elems(pending') : y = x \/ y \in Elems(pending)
  BY <1>1, <1>4 DEF Elems
<1> QED BY <1>1, <1>2, <1>4, <1>5, <1>7, <1>8

(* An engine with credit is one that was found fit for the job.            *)
LEMMA Chosen ==
  ASSUME RouteTypes, Looking, Ready(Head(pending).fit) # {}
  PROVE  /\ Choose(Ready(Head(pending).fit)) \in Engines
         /\ Choose(Ready(Head(pending).fit)) \in Ready(Head(pending).fit)
<1>1. Head(pending).fit \subseteq Engines
  BY Front, Constants
<1>2. Ready(Head(pending).fit) \subseteq Engines
  BY <1>1 DEF Ready, Usable
<1> QED BY <1>2 DEF Choose, Engines

(* The router's loop, apart from the passes over its queue.                *)
LEMMA LoopStepTypes ==
  ASSUME TypeOK, SinceTypes',
         \/ Top \/ CollectedAll \/ Take \/ PickUp \/ ScanDone
         \/ BlockedSendFails \/ Stopping \/ Joined
  PROVE  TypeOK'
<1>0. SessionTypes /\ RouteTypes /\ EngineTypes /\ AnswerTypes
  BY Types
<1>1. CASE Top \/ PickUp \/ ScanDone \/ Joined \/ CollectedAll
  <2>1. SessionTypes' /\ EngineTypes' /\ AnswerTypes'
    BY <1>0, <1>1 DEF Top, PickUp, ScanDone, Joined, CollectedAll, sessionVars, loopVars, routeVars,
       engineVars, answerVars, SessionTypes, EngineTypes, AnswerTypes
  <2>2. RouteTypes'
    BY <1>0, <1>1 DEF Top, PickUp, ScanDone, Joined, CollectedAll, NextTurn, loopVars, routeVars,
       RouteTypes, Engines
  <2> QED BY <2>1, <2>2, TypesAfter
<1>2. CASE BlockedSendFails
  <2>1. outLen' \in 0 .. OutCap + 1
    BY <1>0, <1>2 DEF BlockedSendFails, Unblocked, AnswerTypes
  <2>2. SessionTypes' /\ EngineTypes' /\ AnswerTypes' /\ RouteTypes'
    BY <1>0, <1>2, <2>1 DEF BlockedSendFails, sessionVars, engineVars, SessionTypes,
       EngineTypes, AnswerTypes, RouteTypes
  <2> QED BY <2>2, TypesAfter
<1>3. CASE Stopping
  <2>1. outbox' \in [Engines -> Seq(Results)]
    BY <1>3 DEF Stopping
  <2>2. SessionTypes' /\ EngineTypes' /\ AnswerTypes' /\ RouteTypes'
    BY <1>0, <1>3, <2>1 DEF Stopping, sessionVars, answerVars, SessionTypes,
       EngineTypes, AnswerTypes, RouteTypes
  <2> QED BY <2>2, TypesAfter
<1>4. CASE Take
  <2>1. EngineTypes' /\ AnswerTypes'
    BY <1>0, <1>4 DEF Take, engineVars, answerVars, EngineTypes, AnswerTypes
  <2>2. CASE /\ jobs # <<>> /\ jobs' = Tail(jobs) /\ eof' = eof
             /\ pending' = Append(pending, Unread(Head(jobs)))
    <3>1. /\ Head(jobs) \in Jobs /\ Tail(jobs) \in Seq(Jobs)
          /\ Len(Tail(jobs)) = Len(jobs) - 1 /\ Len(jobs) \in Nat
      BY <1>0, <2>2 DEF SessionTypes
    <3>2. Unread(Head(jobs)) \in Entries
      BY <3>1 DEF Entries, Unread
    <3>3. pending' \in Seq(Entries)
      <4> DEFINE x == Unread(Head(jobs))
      <4> HIDE DEF x
      <4>1. pending' = Append(pending, x)
        BY <2>2 DEF x
      <4>2. x \in Entries
        BY <3>2 DEF x
      <4> QED BY <1>0, <4>1, <4>2 DEF RouteTypes
    <3>4. Len(pending') \in Nat /\ left' = Len(pending')
      BY <1>4, <3>3 DEF Take
    <3>5. SessionTypes'
      <4>1. jobs' \in Seq(Jobs) /\ Len(jobs') <= JobCap
        BY <1>0, <2>2, <3>1 DEF SessionTypes
      <4> QED BY <1>0, <1>4, <4>1 DEF Take, SessionTypes
    <3>6. RouteTypes'
      BY <1>0, <1>4, <2>2, <3>3, <3>4 DEF Take, RouteTypes
    <3> QED BY <2>1, <3>5, <3>6, TypesAfter
  <2>3. CASE UNCHANGED <<pending, jobs>> /\ eof' \in BOOLEAN
    <3>1. Len(pending') \in Nat /\ left' = Len(pending')
      BY <1>0, <1>4, <2>3 DEF Take, RouteTypes
    <3>2. SessionTypes'
      BY <1>0, <1>4, <2>3 DEF Take, SessionTypes
    <3>3. RouteTypes'
      BY <1>0, <1>4, <2>3, <3>1 DEF Take, RouteTypes
    <3> QED BY <2>1, <3>2, <3>3, TypesAfter
  <2>4. eof \in BOOLEAN /\ inputOpen \in BOOLEAN
    BY <1>0 DEF RouteTypes, SessionTypes
  <2> QED BY <1>4, <2>2, <2>3, <2>4 DEF Take
<1> QED BY <1>1, <1>2, <1>3, <1>4

(* Taking answers from an engine, and giving up one that ended.            *)
LEMMA CollectTypes ==
  ASSUME TypeOK, SinceTypes', Collect \/ CollectEnded
  PROVE  TypeOK'
<1>0. /\ SessionTypes /\ RouteTypes /\ EngineTypes /\ AnswerTypes
      /\ turn \in Engines /\ outbox \in [Engines -> Seq(Results)]
      /\ active \in [Engines -> SUBSET Jobs] /\ dead \in [Engines -> BOOLEAN]
      /\ sender \in [Engines -> BOOLEAN] /\ stop \in BOOLEAN
  BY Types DEF RouteTypes, EngineTypes
<1>1. CASE Collect
  <2>1. PICK r : r = Head(outbox[turn])
    OBVIOUS
  <2>2. r \in Results /\ Tail(outbox[turn]) \in Seq(Results)
    <3>1. outbox[turn] \in Seq(Results) /\ outbox[turn] # <<>>
      BY <1>0, <1>1 DEF Collect
    <3> QED BY <2>1, <3>1
  <2>3. r.job \in Jobs /\ r.outcome \in Outcomes
    BY <2>2, Constants
  <2>4. /\ outbox' = [outbox EXCEPT ![turn] = Tail(outbox[turn])]
        /\ active' = [active EXCEPT ![turn] = active[turn] \ {r.job}]
        /\ \/ GivesUp(turn, r) /\ Forward(r.job, r.outcome, "collect")
           \/ UNCHANGED <<pc, stop, dead, sender, outLen, outcome, replies>>
        /\ Unblocked /\ pc = "collect"
        /\ UNCHANGED <<sessionVars, turn, left, pending, eof, receiver, engine, inbox, taking,
                       held, broken, sent, events>>
    BY <1>1, <2>1 DEF Collect, Runs
  <2>5. outbox' \in [Engines -> Seq(Results)] /\ active' \in [Engines -> SUBSET Jobs]
    BY <1>0, <2>2, <2>4
  <2>6. dead' \in [Engines -> BOOLEAN] /\ sender' \in [Engines -> BOOLEAN]
    BY <1>0, <2>4 DEF GivesUp
  <2>7. /\ AnswerTypes' /\ stop' \in BOOLEAN
        /\ pc' \in {"collect", "stopping"}
    <3>1. CASE GivesUp(turn, r) /\ Forward(r.job, r.outcome, "collect")
      BY <1>0, <2>3, <2>4, <3>1, ForwardTypes
    <3>2. CASE UNCHANGED <<pc, stop, dead, sender, outLen, outcome, replies>>
      BY <1>0, <2>4, <3>2 DEF AnswerTypes
    <3> QED BY <2>4, <3>1, <3>2
  <2>8. SessionTypes'
    BY <1>0, <2>4 DEF SessionTypes, sessionVars
  <2>9. EngineTypes'
    BY <1>0, <2>4, <2>5 DEF EngineTypes
  <2>10. RouteTypes'
    BY <1>0, <2>4, <2>5, <2>6, <2>7 DEF RouteTypes
  <2> QED BY <2>7, <2>8, <2>9, <2>10, TypesAfter
<1>2. CASE CollectEnded
  <2>1. /\ SessionTypes' /\ EngineTypes'
        /\ UNCHANGED <<left, pending, sender, eof, receiver>>
        /\ dead' = [dead EXCEPT ![turn] = TRUE] /\ Unblocked
    BY <1>0, <1>2 DEF CollectEnded, Runs, sessionVars, engineVars, SessionTypes, EngineTypes
  <2>2. dead' \in [Engines -> BOOLEAN]
    BY <1>0, <2>1
  <2>3. CASE NextTurn /\ UNCHANGED <<stop, active, outLen, outcome, replies>>
    <3>1. turn' \in Engines /\ pc' \in {"collect", "take"}
      BY <1>0, <2>3 DEF NextTurn, Engines
    <3>2. RouteTypes' /\ AnswerTypes'
      BY <1>0, <2>1, <2>2, <2>3, <3>1 DEF RouteTypes, AnswerTypes
    <3> QED BY <2>1, <3>2, TypesAfter
  <2>4. CASE \E j \in active[turn] :
               /\ active' = [active EXCEPT ![turn] = active[turn] \ {j}]
               /\ Forward(j, "failed", "collect")
               /\ UNCHANGED turn
    <3>1. PICK j \in active[turn] :
               /\ active' = [active EXCEPT ![turn] = active[turn] \ {j}]
               /\ Forward(j, "failed", "collect")
               /\ UNCHANGED turn
      BY <2>4
    <3>2. j \in Jobs /\ active' \in [Engines -> SUBSET Jobs] /\ "failed" \in Outcomes
      BY <1>0, <3>1 DEF Outcomes
    <3>3. AnswerTypes' /\ stop' \in {stop, TRUE} /\ pc' \in {"collect", "stopping"}
      BY <1>0, <2>1, <3>1, <3>2, ForwardTypes
    <3>4. RouteTypes'
      BY <1>0, <2>1, <2>2, <3>1, <3>2, <3>3 DEF RouteTypes
    <3> QED BY <2>1, <3>3, <3>4, TypesAfter
  <2> QED BY <1>2, <2>3, <2>4 DEF CollectEnded
<1> QED BY <1>1, <1>2

(* The pass over the queue.                                                *)
LEMMA ScanTypes ==
  ASSUME TypeOK, SinceTypes', ScanCancelled \/ ScanAssign \/ ScanRefuse \/ ScanWait
  PROVE  TypeOK'
<1>0. /\ SessionTypes /\ RouteTypes /\ EngineTypes /\ AnswerTypes
      /\ active \in [Engines -> SUBSET Jobs] /\ dead \in [Engines -> BOOLEAN]
      /\ inbox \in [Engines -> Seq(Jobs)] /\ stop \in BOOLEAN
  BY Types DEF RouteTypes, EngineTypes
<1>1. Looking /\ Looked /\ Unblocked
  BY DEF ScanCancelled, ScanAssign, ScanRefuse, ScanWait, Looking, Scanning, Runs
<1>2. /\ pending \in Seq(Entries) /\ pending # <<>> /\ Head(pending) \in Entries
      /\ Head(pending).job \in Jobs /\ Tail(pending) \in Seq(Entries)
      /\ Len(Tail(pending)) = Len(pending) - 1 /\ Len(pending) \in Nat
      /\ left' \in Nat /\ left' <= Len(Tail(pending)) /\ turn' = turn
  BY <1>0, <1>1, Front DEF Looked
<1>3. CASE ScanCancelled \/ ScanRefuse
  <2>1. PICK o \in {"cancelled", "failed"} : Forward(Head(pending).job, o, "scan")
    BY <1>3 DEF ScanCancelled, ScanRefuse
  <2>2. AnswerTypes' /\ stop' \in {stop, TRUE} /\ pc' \in {"scan", "stopping"}
    BY <1>0, <1>1, <1>2, <2>1, ForwardTypes DEF Outcomes
  <2>3. pending' = Tail(pending) /\ UNCHANGED <<active, dead, sender, eof, receiver>>
    BY <1>3 DEF ScanCancelled, ScanRefuse
  <2>4. SessionTypes' /\ EngineTypes'
    BY <1>0, <1>3 DEF ScanCancelled, ScanRefuse, sessionVars, engineVars, SessionTypes,
       EngineTypes
  <2>5. RouteTypes'
    BY <1>0, <1>2, <2>2, <2>3 DEF RouteTypes
  <2> QED BY <2>2, <2>4, <2>5, TypesAfter
<1>4. CASE ScanWait
  <2>1. Requeue /\ pc' = "scan" /\ UNCHANGED <<active, dead, sender, eof, stop, receiver>>
    BY <1>4 DEF ScanWait
  <2>2. pending' \in Seq(Entries) /\ Len(pending') = Len(pending)
    BY <1>0, <1>1, <2>1, Requeued
  <2>3. left' <= Len(pending')
    BY <1>2, <2>2
  <2>4. SessionTypes' /\ EngineTypes' /\ AnswerTypes'
    BY <1>0, <1>4 DEF ScanWait, sessionVars, engineVars, answerVars, SessionTypes,
       EngineTypes, AnswerTypes
  <2>5. RouteTypes'
    BY <1>0, <1>2, <2>1, <2>2, <2>3 DEF RouteTypes
  <2> QED BY <2>4, <2>5, TypesAfter
<1>5. CASE ScanAssign
  <2>1. PICK j, e : j = Head(pending).job /\ e = Choose(Ready(Head(pending).fit))
    OBVIOUS
  <2>2. /\ Ready(Head(pending).fit) # {} /\ pc' = "scan"
        /\ \/ /\ inbox' = [inbox EXCEPT ![e] = Append(inbox[e], j)]
              /\ active' = [active EXCEPT ![e] = active[e] \union {j}]
              /\ pending' = Tail(pending) /\ UNCHANGED dead
           \/ /\ dead' = [dead EXCEPT ![e] = TRUE]
              /\ Requeue /\ UNCHANGED <<inbox, active>>
        /\ UNCHANGED <<sessionVars, sender, eof, stop, receiver, engine, taking, held, outbox,
                       broken, answerVars, sent, events>>
    BY <1>5, <2>1 DEF ScanAssign
  <2>3. e \in Engines /\ j \in Jobs
    BY <1>0, <1>1, <1>2, <2>1, <2>2, Chosen
  <2>4. /\ inbox' \in [Engines -> Seq(Jobs)] /\ active' \in [Engines -> SUBSET Jobs]
        /\ dead' \in [Engines -> BOOLEAN]
    <3>1. Append(inbox[e], j) \in Seq(Jobs) /\ active[e] \union {j} \in SUBSET Jobs
      BY <1>0, <2>3
    <3> QED BY <1>0, <2>2, <2>3, <3>1, ZenonT(30)
  <2>5. pending' \in Seq(Entries) /\ left' <= Len(pending')
    <3>1. CASE pending' = Tail(pending)
      BY <1>2, <3>1
    <3>2. CASE Requeue
      <4>1. pending' \in Seq(Entries) /\ Len(pending') = Len(pending)
        BY <1>0, <1>1, <3>2, Requeued
      <4> QED BY <1>2, <4>1
    <3> QED BY <2>2, <3>1, <3>2
  <2>6. SessionTypes' /\ EngineTypes' /\ AnswerTypes'
    BY <1>0, <2>2, <2>4 DEF sessionVars, answerVars, SessionTypes, EngineTypes, AnswerTypes
  <2>7. RouteTypes'
    BY <1>0, <1>2, <2>2, <2>4, <2>5 DEF RouteTypes
  <2> QED BY <2>6, <2>7, TypesAfter
<1> QED BY <1>3, <1>4, <1>5

(* The settings are read.                                                  *)
LEMMA ReadTypes ==
  ASSUME TypeOK, SinceTypes', ReadSettings
  PROVE  TypeOK'
<1>0. SessionTypes /\ RouteTypes /\ EngineTypes /\ AnswerTypes
  BY Types
<1>1. pending' \in Seq(Entries) /\ Len(pending') = Len(pending)
  BY <1>0, ReadFirst
<1>2. SessionTypes' /\ EngineTypes' /\ AnswerTypes'
  BY <1>0 DEF ReadSettings, sessionVars, engineVars, answerVars, SessionTypes, EngineTypes,
     AnswerTypes
<1>3. RouteTypes'
  BY <1>0, <1>1 DEF ReadSettings, RouteTypes
<1> QED BY <1>2, <1>3, TypesAfter

(* The history of the job in hand.                                         *)
LEMMA SinceKept ==
  ASSUME TypeOK, [Next]_vars
  PROVE  /\ SinceTypes'
         /\ \/ PickUp /\ since' = [cfgs |-> {settings}, cancelled |-> cancelled]
            \/ Looked /\ pc' \in {"scan", "stopping"}
            \/ Configure /\ pc' = pc
            \/ UNCHANGED since
<1>0. /\ since \in [cfgs : SUBSET Configs, cancelled : SUBSET Jobs]
      /\ settings \in Configs /\ cancelled \in SUBSET Jobs
  BY DEF TypeOK
<1>1. CASE PickUp
  BY <1>0, <1>1 DEF PickUp, SinceTypes
<1>2. CASE ScanCancelled \/ ScanAssign \/ ScanRefuse \/ ScanWait
  <2>1. Looked /\ pc' \in {"scan", "stopping"}
    BY <1>2 DEF ScanCancelled, ScanAssign, ScanRefuse, ScanWait, Forward
  <2> QED BY <2>1 DEF Looked, Nothing, SinceTypes
<1>3. CASE Configure
  <2>1. pc' = pc
    BY <1>3 DEF Configure, SessionOnly, loopVars
  <2>2. settings' \in Configs /\ since' \in {since, [since EXCEPT !.cfgs = @ \union {settings'}]}
    BY <1>3 DEF Configure
  <2> QED BY <1>0, <1>3, <2>1, <2>2 DEF SinceTypes
<1>4. CASE ~(PickUp \/ ScanCancelled \/ ScanAssign \/ ScanRefuse \/ ScanWait \/ Configure)
  <2>1. since' = since
    BY <1>4 DEF Next, RouterStep, MetalStep, AneStep, Session, Finished, Top, Collect,
       CollectedAll, CollectEnded, Take, ReadSettings, ScanDone, BlockedSendFails, Stopping,
       Joined, LookForSeed, NoSeed, EngineTakes, EngineAnswers, EngineEnds, EngineCloses,
       EngineDrained, EngineBreaks, SendJob, Cancel, CloseInput, ReadResult, CloseOut, Others,
       vars
  <2> QED BY <1>0, <2>1 DEF SinceTypes
<1> QED BY <1>1, <1>2, <1>3, <1>4

(* The engines' threads.                                                   *)
LEMMA EngineStepTypes ==
  ASSUME TypeOK, SinceTypes',
         MetalStep \/ AneStep \/ \E e \in Engines : EngineBreaks(e)
  PROVE  TypeOK'
<1>0. /\ SessionTypes /\ RouteTypes /\ EngineTypes /\ AnswerTypes
      /\ inbox \in [Engines -> Seq(Jobs)] /\ outbox \in [Engines -> Seq(Results)]
      /\ held \in [Engines -> SUBSET Jobs] /\ outcome \in [Jobs -> Outcomes \union {None}]
      /\ events \in 0 .. MaxEvents
  BY Types DEF EngineTypes, AnswerTypes, SessionTypes
<1>1. ASSUME Others, events' \in 0 .. MaxEvents, EngineTypes',
             outcome' \in [Jobs -> Outcomes \union {None}]
      PROVE  TypeOK'
  <2>1. SessionTypes' /\ RouteTypes' /\ AnswerTypes'
    BY <1>0, <1>1 DEF Others, sessionVars, loopVars, routeVars, SessionTypes, RouteTypes,
       AnswerTypes
  <2> QED BY <1>1, <2>1, TypesAfter
<1>2. Event => events' \in 0 .. MaxEvents
  BY <1>0 DEF Event
<1>3. ASSUME NEW e \in Engines, Ends(e), UNCHANGED outbox, broken' \in SUBSET Engines
      PROVE  EngineTypes'
  BY <1>0, <1>3 DEF Ends, EngineTypes
<1>4. CASE LookForSeed \/ EngineCloses("metal")
  <2>1. EngineTypes'
    BY <1>0, <1>4 DEF LookForSeed, EngineCloses, EngineTypes
  <2>2. Others /\ UNCHANGED <<events, outcome>>
    BY <1>4 DEF LookForSeed, EngineCloses, Calm
  <2> QED BY <1>0, <1>1, <2>1, <2>2
<1>5. CASE NoSeed
  <2>1. Others /\ UNCHANGED <<events, outcome, outbox, broken>> /\ "metal" \in Engines
    BY <1>5 DEF NoSeed, Calm, Engines
  <2>2. CASE Ends("metal")
    BY <1>0, <1>1, <1>3, <2>1, <2>2 DEF EngineTypes
  <2>3. CASE ~Ends("metal")
    <3>1. EngineTypes'
      BY <1>0, <1>5, <2>1, <2>3 DEF NoSeed, EngineTypes
    <3> QED BY <1>0, <1>1, <2>1, <3>1
  <2> QED BY <2>2, <2>3
<1>6. ASSUME NEW e \in Engines, EngineEnds(e) \/ EngineDrained(e) PROVE TypeOK'
  <2>1. Ends(e) /\ Others /\ UNCHANGED <<events, outcome, outbox, broken>>
    BY <1>6 DEF EngineEnds, EngineDrained, Calm
  <2> QED BY <1>0, <1>1, <1>3, <2>1 DEF EngineTypes
<1>7. ASSUME NEW e \in Engines, EngineBreaks(e) PROVE TypeOK'
  <2>1. Ends(e) /\ Others /\ Event /\ UNCHANGED <<outcome, outbox>>
        /\ broken' = broken \union {e}
    BY <1>7 DEF EngineBreaks
  <2> QED BY <1>0, <1>1, <1>2, <1>3, <2>1 DEF EngineTypes
<1>8. ASSUME NEW e \in Engines, EngineTakes(e) PROVE TypeOK'
  <2>1. /\ inbox[e] # <<>> /\ UNCHANGED <<engine, taking, outbox, broken, outcome, events>>
        /\ held' = [held EXCEPT ![e] = held[e] \union {Head(inbox[e])}]
        /\ inbox' = [inbox EXCEPT ![e] = Tail(inbox[e])]
        /\ Others
    BY <1>8 DEF EngineTakes, Calm
  <2>2. Head(inbox[e]) \in Jobs /\ Tail(inbox[e]) \in Seq(Jobs)
    <3>1. inbox[e] \in Seq(Jobs)
      BY <1>0
    <3> QED BY <2>1, <3>1
  <2>3. EngineTypes'
    BY <1>0, <2>1, <2>2 DEF EngineTypes
  <2> QED BY <1>0, <1>1, <2>1, <2>3
<1>9. ASSUME NEW e \in Engines, EngineAnswers(e) PROVE TypeOK'
  <2>1. PICK j \in held[e], o \in Outcomes, fatal \in BOOLEAN :
          /\ IF fatal THEN o = "failed" /\ Event ELSE Calm
          /\ held' = [held EXCEPT ![e] = held[e] \ {j}]
          /\ outbox' = [outbox EXCEPT ![e] =
                          Append(outbox[e], [job |-> j, outcome |-> o, fatal |-> fatal])]
          /\ outcome' = [outcome EXCEPT ![j] = o]
          /\ broken' = IF fatal THEN broken \union {e} ELSE broken
    BY <1>9 DEF EngineAnswers
  <2>2. j \in Jobs /\ [job |-> j, outcome |-> o, fatal |-> fatal] \in Results
    BY <1>0 DEF Results
  <2>3. Append(outbox[e], [job |-> j, outcome |-> o, fatal |-> fatal]) \in Seq(Results)
    <3>1. outbox[e] \in Seq(Results)
      BY <1>0
    <3>2. \A r \in Results : Append(outbox[e], r) \in Seq(Results)
      BY <3>1
    <3> QED BY <2>2, <3>2
  <2>4. outbox' \in [Engines -> Seq(Results)]
    BY <1>0, <2>1, <2>3
  <2>5. events' \in 0 .. MaxEvents /\ Others /\ UNCHANGED <<engine, inbox, taking>>
    BY <1>0, <1>2, <1>9, <2>1 DEF EngineAnswers, Calm
  <2>6. EngineTypes'
    BY <1>0, <2>1, <2>4, <2>5 DEF EngineTypes
  <2>7. outcome' \in [Jobs -> Outcomes \union {None}]
    BY <1>0, <2>1, <2>2
  <2> QED BY <1>1, <2>5, <2>6, <2>7
<1> QED BY <1>4, <1>5, <1>6, <1>7, <1>8, <1>9, Constants DEF MetalStep, AneStep

(* The session.                                                            *)
LEMMA SessionTypesKept ==
  ASSUME TypeOK, SinceTypes', Session \/ UNCHANGED vars
  PROVE  TypeOK'
<1>0. SessionTypes /\ RouteTypes /\ EngineTypes /\ AnswerTypes
  BY Types
<1>1. CASE UNCHANGED vars
  BY <1>1, TypesAfter, <1>0 DEF vars, sessionVars, loopVars, routeVars, engineVars, answerVars,
     SessionTypes, RouteTypes, EngineTypes, AnswerTypes
<1>2. CASE Session
  <2>1. UNCHANGED <<loopVars, routeVars, engineVars, outcome, replies>>
    BY <1>2 DEF Session, SendJob, Cancel, CloseInput, ReadResult, CloseOut, Configure,
       SessionOnly
  <2>2. RouteTypes' /\ EngineTypes'
    BY <1>0, <2>1 DEF loopVars, routeVars, engineVars, RouteTypes, EngineTypes
  <2>3. outLen' \in 0 .. OutCap + 1
    BY <1>0, <1>2 DEF Session, SendJob, Cancel, CloseInput, ReadResult, CloseOut, Configure,
       AnswerTypes, sessionVars
  <2>4. AnswerTypes'
    BY <1>0, <2>1, <2>3 DEF AnswerTypes
  <2>5. Event => events' \in 0 .. MaxEvents
    BY <1>0 DEF Event, SessionTypes
  <2>6. SessionTypes'
    <3>1. ASSUME NEW j \in Jobs, SendJob(j) PROVE SessionTypes'
      <4>1. Append(jobs, j) \in Seq(Jobs) /\ Len(Append(jobs, j)) <= JobCap
        BY <1>0, <3>1 DEF SendJob, SessionTypes
      <4> QED BY <1>0, <3>1, <4>1 DEF SendJob, SessionTypes, Calm
    <3>2. CASE (\E j \in Jobs : Cancel(j)) \/ CloseInput \/ ReadResult \/ CloseOut \/ Configure
      BY <1>0, <2>5, <3>2 DEF Cancel, CloseInput, ReadResult, CloseOut, Configure, Calm,
         sessionVars, SessionTypes
    <3> QED BY <1>2, <3>1, <3>2 DEF Session
  <2> QED BY <2>2, <2>4, <2>6, TypesAfter
<1> QED BY <1>1, <1>2

(* The type invariant is inductive.                                        *)
LEMMA NextTypes == TypeOK /\ [Next]_vars => TypeOK'
BY SinceKept, LoopStepTypes, CollectTypes, ScanTypes, ReadTypes, EngineStepTypes, SessionTypesKept
   DEF Next, RouterStep, Finished

-----------------------------------------------------------------------------
(* One hand per job *)

(* The places are apart and, while somebody reads, miss no job; nothing is *)
(* queued twice.                                                           *)
HandsInv ==
  /\ Kept(Hand, sent, ~outClosed)
  /\ Once(jobs) /\ Once(JobsOf(pending))
  /\ \A j \in Jobs : Len(replies[j]) <= 1

LEMMA QueuedJobs ==
  /\ TypeOK => Queued = Elems(JobsOf(pending))
  /\ TypeOK' => Queued' = Elems(JobsOf(pending'))
<1>1. \A s \in Seq(Entries) : {r.job : r \in Elems(s)} = Elems(JobsOf(s))
  BY Constants, JobsSeq
<1> QED BY <1>1 DEF Queued, TypeOK

(* Places whose part of the state stays are left alone.                    *)
LEMMA HandsSame ==
  /\ jobs' = jobs => Hand'["channel"] = Hand["channel"]
  /\ pending' = pending => Hand'["queue"] = Hand["queue"]
  /\ \A e \in Engines : active'[e] = active[e] => Hand'[e] = Hand[e]
  /\ replies' = replies => Hand'["session"] = Hand["session"]
  /\ Hand["queue"] = Queued /\ Hand'["queue"] = Queued'
  /\ \A e \in Engines : Hand[e] = active[e] /\ Hand'[e] = active'[e]
BY Hands, HandsAfter DEF Queued

(* An answered job leaves its place for the session, or is dropped when    *)
(* nobody reads.                                                           *)
LEMMA HandForwarded ==
  ASSUME TypeOK, TypeOK', HandsInv, NEW a \in Places \ {"session"}, NEW j \in Hand[a],
         NEW o, NEW label, Forward(j, o, label),
         Hand'[a] = Hand[a] \ {j}, Same(Hand, Hand', {a, "session"}),
         UNCHANGED <<sent, outClosed>>
  PROVE  Kept(Hand', sent', ~outClosed') /\ \A k \in Jobs : Len(replies'[k]) <= 1
<1>1. /\ j \in sent /\ j \notin Hand["session"] /\ j \in Jobs
      /\ replies \in [Jobs -> Seq(Outcomes)]
  BY DEF HandsInv, Kept, Places, TypeOK
<1>2. replies[j] = <<>>
  BY <1>1, Hands
<1>3. CASE outClosed
  <2>1. replies' = replies
    BY <1>3 DEF Forward
  <2>2. \A c \in Places : Hand'[c] \subseteq Hand[c]
    BY <2>1, HandsSame DEF Same
  <2> QED BY <1>3, <2>1, <2>2, KeptDropped DEF HandsInv
<1>4. CASE ~outClosed
  <2>1. replies' = [replies EXCEPT ![j] = Append(replies[j], o)]
    BY <1>4 DEF Forward, Reply
  <2>2. \A k \in Jobs : replies'[k] = IF k = j THEN <<o>> ELSE replies[k]
    BY <1>1, <1>2, <2>1
  <2>3. \A k \in Jobs : Len(replies'[k]) <= 1
    <3>1. Len(<<o>>) <= 1
      OBVIOUS
    <3>2. \A k \in Jobs : replies'[k] = <<o>> \/ replies'[k] = replies[k]
      BY <2>2
    <3> QED BY <3>1, <3>2 DEF HandsInv
  <2>4. <<o>> # <<>>
    OBVIOUS
  <2>5. Hand'["session"] = Hand["session"] \union {j}
    <3>1. \A k \in Jobs : replies'[k] # <<>> <=> k = j \/ replies[k] # <<>>
      BY <2>2, <2>4
    <3> QED BY <1>1, <3>1, Hands, HandsAfter
  <2>6. Kept(Hand, sent, ~outClosed)
    BY DEF HandsInv
  <2>7. "session" \in Places /\ a \in Places /\ a # "session"
    BY DEF Places
  <2> QED BY <2>3, <2>5, <2>6, <2>7, KeptMoved
<1> QED BY <1>3, <1>4

(* The first job of the queue leaves it.                                   *)
LEMMA QueueTailed ==
  ASSUME TypeOK, HandsInv, Looking
  PROVE  /\ Head(pending).job \in Queued /\ Head(pending).job \in Jobs
         /\ Head(pending).job \notin Elems(JobsOf(Tail(pending)))
         /\ Once(JobsOf(Tail(pending))) /\ JobsOf(Tail(pending)) \in Seq(Jobs)
         /\ Elems(JobsOf(Tail(pending))) = Queued \ {Head(pending).job}
<1>1. /\ pending \in Seq(Entries) /\ pending # <<>>
      /\ \A r \in Entries : r.job \in Jobs
      /\ Tail(pending) \in Seq(Entries) /\ Head(pending).job \in Jobs
  BY Types, Front, Constants
<1>2. /\ JobsOf(pending) \in Seq(Jobs) /\ JobsOf(pending) # <<>>
      /\ JobsOf(Tail(pending)) \in Seq(Jobs)
  <2>1. \A s \in Seq(Entries) : JobsOf(s) \in Seq(Jobs) /\ (s = <<>> <=> JobsOf(s) = <<>>)
    BY <1>1, JobsSeq
  <2> QED BY <1>1, <2>1
<1>3. /\ JobsOf(Tail(pending)) = Tail(JobsOf(pending))
      /\ Head(JobsOf(pending)) = Head(pending).job
  BY <1>1, JobsTailed
<1>4. Once(JobsOf(pending)) /\ Queued = Elems(JobsOf(pending))
  BY QueuedJobs DEF HandsInv
<1>5. /\ Once(Tail(JobsOf(pending)))
      /\ Head(JobsOf(pending)) \notin Elems(Tail(JobsOf(pending)))
      /\ Head(JobsOf(pending)) \in Elems(JobsOf(pending))
      /\ Elems(JobsOf(pending)) = Elems(Tail(JobsOf(pending))) \union {Head(JobsOf(pending))}
  BY <1>2, <1>4, Tailed
<1> QED BY <1>1, <1>2, <1>3, <1>4, <1>5

(* A job that waits is queued again, behind the others.                    *)
LEMMA QueueRequeued ==
  ASSUME TypeOK, HandsInv, Looking, Requeue
  PROVE  Once(JobsOf(pending')) /\ Elems(JobsOf(pending')) = Queued
<1> DEFINE j == Head(pending).job
           x == Head(pending)
<1>1. /\ j \in Queued /\ j \in Jobs /\ j \notin Elems(JobsOf(Tail(pending)))
      /\ Once(JobsOf(Tail(pending))) /\ JobsOf(Tail(pending)) \in Seq(Jobs)
      /\ Elems(JobsOf(Tail(pending))) = Queued \ {j}
  BY QueueTailed
<1>2. x \in Entries /\ x.job = j
  BY Types, Front
<1>3. Tail(pending) \in Seq(Entries) /\ \A r \in Entries : r.job \in Jobs
  BY Types, Front, Constants
<1>4. pending' = Append(Tail(pending), x)
  BY DEF Requeue
<1> HIDE DEF x
<1>5. JobsOf(pending') = Append(JobsOf(Tail(pending)), j)
  BY <1>2, <1>3, <1>4, JobsAppended
<1> HIDE DEF j
<1>6. /\ Once(Append(JobsOf(Tail(pending)), j))
      /\ Elems(Append(JobsOf(Tail(pending)), j)) = (Queued \ {j}) \union {j}
  BY <1>1, Appended
<1> QED BY <1>1, <1>5, <1>6

(* Collecting an answer.                                                   *)
LEMMA CollectHands ==
  ASSUME TypeOK, TypeOK', HandsInv, Collect \/ CollectEnded
  PROVE  HandsInv'
<1>0. /\ turn \in Engines /\ turn \in Places \ {"session"}
      /\ active \in [Engines -> SUBSET Jobs]
      /\ UNCHANGED <<sessionVars, pending, sent>>
  BY DEF TypeOK, Collect, CollectEnded, Engines, Places
<1>1. UNCHANGED <<jobs, outClosed>>
  BY <1>0 DEF sessionVars
<1>2. ASSUME NEW j \in active[turn], NEW o, NEW label, Forward(j, o, label),
             active' = [active EXCEPT ![turn] = active[turn] \ {j}]
      PROVE  HandsInv'
  <2>1. /\ Hand'[turn] = Hand[turn] \ {j} /\ j \in Hand[turn]
        /\ \A e \in Engines \ {turn} : Hand'[e] = Hand[e]
    BY <1>0, <1>2, HandsSame
  <2>2. Same(Hand, Hand', {turn, "session"})
    BY <1>0, <1>1, <2>1, HandsSame DEF Same, Places, Engines
  <2>3. Kept(Hand', sent', ~outClosed') /\ \A k \in Jobs : Len(replies'[k]) <= 1
    BY <1>0, <1>1, <1>2, <2>1, <2>2, HandForwarded
  <2> QED BY <1>0, <1>1, <2>3 DEF HandsInv
<1>3. ASSUME active' = active, replies' = replies PROVE HandsInv'
  <2>1. \A c \in Places : Hand'[c] = Hand[c]
    BY <1>0, <1>1, <1>3, HandsSame DEF Places, Engines
  <2> QED BY <1>0, <1>1, <1>3, <2>1 DEF HandsInv, Kept
<1>4. CASE Collect
  <2>1. PICK r : r = Head(outbox[turn])
    OBVIOUS
  <2>2. active' = [active EXCEPT ![turn] = active[turn] \ {r.job}]
    BY <1>4, <2>1 DEF Collect
  <2>3. CASE r.job \in active[turn]
    BY <1>2, <1>4, <2>1, <2>2, <2>3 DEF Collect
  <2>4. CASE r.job \notin active[turn]
    <3>1. active' = active
      BY <1>0, <2>2, <2>4
    <3> QED BY <1>3, <1>4, <2>1, <2>4, <3>1 DEF Collect
  <2> QED BY <2>3, <2>4
<1>5. CASE CollectEnded
  BY <1>2, <1>3, <1>5 DEF CollectEnded
<1> QED BY <1>4, <1>5

(* The pass over the queue.                                                *)
LEMMA ScanHands ==
  ASSUME TypeOK, TypeOK', HandsInv, ScanCancelled \/ ScanAssign \/ ScanRefuse \/ ScanWait
  PROVE  HandsInv'
<1>0. /\ Looking /\ UNCHANGED <<jobs, outClosed, sent>>
      /\ active \in [Engines -> SUBSET Jobs]
      /\ "queue" \in Places /\ "queue" # "session" /\ "queue" \notin Engines
  BY DEF ScanCancelled, ScanAssign, ScanRefuse, ScanWait, Looking, TypeOK, sessionVars, Places,
     Engines
<1>1. PICK j : j = Head(pending).job
  OBVIOUS
<1>2. /\ j \in Hand["queue"] /\ j \in Jobs
      /\ Once(JobsOf(Tail(pending)))
      /\ Elems(JobsOf(Tail(pending))) = Hand["queue"] \ {j}
  BY <1>0, <1>1, QueueTailed, HandsSame
<1>3. Hand'["queue"] = Elems(JobsOf(pending'))
  BY QueuedJobs, HandsSame
<1>4. ASSUME pending' = Tail(pending)
      PROVE  Once(JobsOf(pending')) /\ Hand'["queue"] = Hand["queue"] \ {j}
  BY <1>2, <1>3, <1>4
<1>5. CASE ScanCancelled \/ ScanRefuse
  <2>1. /\ pending' = Tail(pending) /\ active' = active
        /\ \E o \in Outcomes : Forward(j, o, "scan")
    BY <1>1, <1>5 DEF ScanCancelled, ScanRefuse, Outcomes
  <2>2. Same(Hand, Hand', {"queue", "session"})
    BY <1>0, <2>1, HandsSame DEF Same, Places, Engines
  <2>3. Kept(Hand', sent', ~outClosed') /\ \A k \in Jobs : Len(replies'[k]) <= 1
    BY <1>0, <1>2, <1>4, <2>1, <2>2, HandForwarded
  <2> QED BY <1>0, <1>4, <2>1, <2>3 DEF HandsInv
<1>6. ASSUME Requeue, UNCHANGED <<active, replies>> PROVE HandsInv'
  <2>1. Once(JobsOf(pending')) /\ Hand'["queue"] = Hand["queue"]
    BY <1>0, <1>3, <1>6, QueueRequeued, HandsSame
  <2>2. \A c \in Places : Hand'[c] = Hand[c]
    BY <1>0, <1>6, <2>1, HandsSame DEF Places, Engines
  <2> QED BY <1>0, <1>6, <2>1, <2>2 DEF HandsInv, Kept
<1>7. CASE ScanWait
  BY <1>6, <1>7 DEF ScanWait, answerVars
<1>8. CASE ScanAssign
  <2>1. PICK e : e = Choose(Ready(Head(pending).fit))
    OBVIOUS
  <2>2. /\ Ready(Head(pending).fit) # {} /\ replies' = replies
        /\ \/ active' = [active EXCEPT ![e] = active[e] \union {j}] /\ pending' = Tail(pending)
           \/ Requeue /\ active' = active
    BY <1>1, <1>8, <2>1 DEF ScanAssign, answerVars
  <2>3. e \in Engines /\ e \in Places /\ e # "queue" /\ e # "session"
    <3>1. e \in Engines
      BY <1>0, <2>1, <2>2, Chosen, Types
    <3> QED BY <3>1 DEF Engines, Places
  <2>4. CASE active' = [active EXCEPT ![e] = active[e] \union {j}] /\ pending' = Tail(pending)
    <3>1. /\ Hand'[e] = Hand[e] \union {j}
          /\ \A d \in Engines \ {e} : Hand'[d] = Hand[d]
      BY <1>0, <2>3, <2>4, HandsSame
    <3>2. Same(Hand, Hand', {"queue", e})
      BY <1>0, <2>2, <3>1, HandsSame DEF Same, Places, Engines
    <3>3. Kept(Hand, sent, ~outClosed)
      BY DEF HandsInv
    <3>4. Kept(Hand', sent, ~outClosed)
      BY <1>0, <1>2, <1>4, <2>3, <2>4, <3>1, <3>2, <3>3, KeptMoved
    <3> QED BY <1>0, <1>4, <2>2, <2>4, <3>4 DEF HandsInv
  <2> QED BY <1>6, <2>2, <2>4
<1> QED BY <1>5, <1>7, <1>8

(* Reading the settings moves no job.                                      *)
LEMMA ReadHands ==
  ASSUME TypeOK, TypeOK', HandsInv, ReadSettings
  PROVE  HandsInv'
<1>1. /\ JobsOf(pending') = JobsOf(pending)
      /\ UNCHANGED <<jobs, active, replies, sent, outClosed>>
  BY Types, ReadFirst DEF ReadSettings, sessionVars, answerVars
<1>2. \A c \in Places : Hand'[c] = Hand[c]
  BY <1>1, QueuedJobs, HandsSame DEF Places, Engines
<1> QED BY <1>1, <1>2 DEF HandsInv, Kept

(* Taking a job from the session.                                          *)
LEMMA TakeHands ==
  ASSUME TypeOK, TypeOK', HandsInv, Take
  PROVE  HandsInv'
<1>0. /\ UNCHANGED <<outClosed, sent, active, replies>>
      /\ "channel" \in Places /\ "queue" \in Places /\ "channel" # "queue"
      /\ jobs \in Seq(Jobs) /\ pending \in Seq(Entries)
  BY DEF Take, answerVars, TypeOK, Places
<1>1. CASE UNCHANGED <<pending, jobs>>
  <2>1. \A c \in Places : Hand'[c] = Hand[c]
    BY <1>0, <1>1, HandsSame DEF Places, Engines
  <2> QED BY <1>0, <1>1, <2>1 DEF HandsInv, Kept
<1>2. CASE /\ jobs # <<>> /\ jobs' = Tail(jobs)
           /\ pending' = Append(pending, Unread(Head(jobs)))
  <2>1. PICK j : j = Head(jobs)
    OBVIOUS
  <2>2. /\ Once(jobs') /\ j \in Hand["channel"] /\ j \in Jobs
        /\ Hand'["channel"] = Hand["channel"] \ {j}
    <3>1. /\ Once(Tail(jobs)) /\ Head(jobs) \notin Elems(Tail(jobs)) /\ Head(jobs) \in Jobs
          /\ Elems(jobs) = Elems(Tail(jobs)) \union {Head(jobs)}
      BY <1>0, <1>2, Tailed DEF HandsInv
    <3> QED BY <1>2, <2>1, <3>1, Hands, HandsAfter
  <2>3. j \notin Hand["queue"]
    BY <1>0, <2>2 DEF HandsInv, Kept
  <2>4. PICK x \in Entries : x = Unread(j) /\ x.job = j
    <3>1. Unread(j) \in Entries /\ Unread(j).job = j
      BY <2>2 DEF Entries, Unread
    <3> QED BY <3>1
  <2>5. JobsOf(pending') = Append(JobsOf(pending), j) /\ JobsOf(pending) \in Seq(Jobs)
    <3>1. pending' = Append(pending, x)
      BY <1>2, <2>1, <2>4
    <3> QED BY <1>0, <2>4, <3>1, Constants, JobsAppended, JobsSeq
  <2>6. Elems(JobsOf(pending)) = Hand["queue"] /\ Hand'["queue"] = Elems(JobsOf(pending'))
    BY QueuedJobs, HandsSame
  <2>7. Once(JobsOf(pending')) /\ Hand'["queue"] = Hand["queue"] \union {j}
    BY <2>2, <2>3, <2>5, <2>6, Appended DEF HandsInv
  <2>8. Same(Hand, Hand', {"channel", "queue"})
    BY <1>0, HandsSame DEF Same, Places, Engines
  <2>9. Kept(Hand, sent, ~outClosed)
    BY DEF HandsInv
  <2>10. Kept(Hand', sent, ~outClosed)
    BY <1>0, <2>2, <2>7, <2>8, <2>9, KeptMoved
  <2> QED BY <1>0, <2>2, <2>7, <2>10 DEF HandsInv
<1> QED BY <1>1, <1>2 DEF Take

(* The session hands over a job, or stops reading.                         *)
LEMMA SessionHands ==
  ASSUME TypeOK, TypeOK', HandsInv, Session
  PROVE  HandsInv'
<1>0. UNCHANGED <<pending, active, replies>> /\ "channel" \in Places
  BY DEF Session, SendJob, Cancel, CloseInput, ReadResult, CloseOut, Configure, SessionOnly,
     routeVars, Places
<1>1. ASSUME NEW j \in Jobs, SendJob(j) PROVE HandsInv'
  <2>1. j \notin sent /\ jobs' = Append(jobs, j) /\ sent' = sent \union {j}
        /\ outClosed' = outClosed
    BY <1>1 DEF SendJob
  <2>2. j \notin Hand["channel"]
    BY <1>0, <2>1 DEF HandsInv, Kept
  <2>3. Once(jobs') /\ Hand'["channel"] = Hand["channel"] \union {j}
    <3>1. jobs \in Seq(Jobs)
      BY DEF TypeOK
    <3> QED BY <2>1, <2>2, <3>1, Appended, Hands, HandsAfter DEF HandsInv
  <2>4. Same(Hand, Hand', {"channel"})
    BY <1>0, HandsSame DEF Same, Places, Engines
  <2>5. Kept(Hand', sent \union {j}, ~outClosed)
    BY <1>0, <2>1, <2>3, <2>4, KeptEntered DEF HandsInv
  <2> QED BY <1>0, <2>1, <2>3, <2>5 DEF HandsInv
<1>2. CASE (\E j \in Jobs : Cancel(j)) \/ CloseInput \/ ReadResult \/ CloseOut \/ Configure
  <2>1. UNCHANGED <<jobs, sent>> /\ (outClosed => outClosed')
    BY <1>2 DEF Cancel, CloseInput, ReadResult, CloseOut, Configure, sessionVars
  <2>2. \A c \in Places : Hand'[c] = Hand[c]
    BY <1>0, <2>1, HandsSame DEF Places, Engines
  <2> QED BY <1>0, <2>1, <2>2 DEF HandsInv, Kept
<1> QED BY <1>1, <1>2 DEF Session

(* Every step leaves each job in one hand.                                 *)
LEMMA NextHands ==
  ASSUME TypeOK, TypeOK', HandsInv, [Next]_vars
  PROVE  HandsInv'
<1>1. CASE \/ Top \/ CollectedAll \/ PickUp \/ ScanDone \/ BlockedSendFails \/ Stopping \/ Joined
           \/ MetalStep \/ AneStep \/ (\E e \in Engines : EngineBreaks(e)) \/ UNCHANGED vars
  <2>1. UNCHANGED <<jobs, pending, active, replies, sent, outClosed>>
    BY <1>1 DEF Top, CollectedAll, PickUp, ScanDone, BlockedSendFails, Stopping, Joined, MetalStep,
       AneStep, EngineBreaks, LookForSeed, NoSeed, EngineTakes, EngineAnswers, EngineEnds,
       EngineCloses, EngineDrained, Others, vars, sessionVars, routeVars, answerVars
  <2>2. \A c \in Places : Hand'[c] = Hand[c]
    BY <2>1, HandsSame DEF Places, Engines
  <2> QED BY <2>1, <2>2 DEF HandsInv, Kept
<1> QED BY <1>1, CollectHands, ScanHands, ReadHands, TakeHands, SessionHands
        DEF Next, RouterStep, Finished

(* What the invariant on the places says, in the words of the model.       *)
LEMMA HandsKeepJobs == TypeOK /\ HandsInv => JobsKept
<1> SUFFICES ASSUME TypeOK, HandsInv PROVE JobsKept
  OBVIOUS
<1>1. Cardinality(Queued) = Len(pending)
  <2>1. pending \in Seq(Entries) /\ \A r \in Entries : r.job \in Jobs
    BY Constants DEF TypeOK
  <2>2. JobsOf(pending) \in Seq(Jobs) /\ Len(JobsOf(pending)) = Len(pending)
    <3>1. \A s \in Seq(Entries) : JobsOf(s) \in Seq(Jobs) /\ Len(JobsOf(s)) = Len(s)
      BY <2>1, JobsSeq
    <3> QED BY <2>1, <3>1
  <2> QED BY <2>2, QueuedJobs, OnceCounts DEF HandsInv
<1>2. ASSUME NEW j \in sent
      PROVE  /\ Cardinality(Owners(j)) <= 1
             /\ ~outClosed => Owners(j) # {}
  <2>0. j \in Jobs
    BY DEF TypeOK
  <2>1. Owners(j) = {o \in Places : j \in Hand[o]}
    <3>1. \A o \in Places : j \in Hand[o] <=>
            (CASE o = "channel" -> j \in Elems(jobs)
               [] o = "queue" -> j \in Queued
               [] o = "session" -> replies[j] # <<>>
               [] OTHER -> j \in active[o])
      BY <2>0, Hands DEF Places, Engines
    <3> QED BY <3>1 DEF Owners, Places
  <2>2. \A a, b \in Owners(j) : a = b
    BY <2>1 DEF HandsInv, Kept
  <2>3. Owners(j) = {} \/ \E a : Owners(j) = {a}
    <3>1. ASSUME NEW a \in Owners(j) PROVE Owners(j) = {a}
      BY <2>2
    <3> QED BY <3>1
  <2>4. Cardinality(Owners(j)) <= 1
    <3>1. CASE Owners(j) = {}
      BY <3>1, FS_EmptySet
    <3>2. ASSUME NEW a, Owners(j) = {a} PROVE Cardinality(Owners(j)) <= 1
      <4>1. Cardinality({a}) = 1
        BY FS_Singleton
      <4> QED BY <3>2, <4>1
    <3> QED BY <2>3, <3>1, <3>2
  <2>5. ~outClosed => \E o \in Places : j \in Hand[o]
    BY DEF HandsInv, Kept
  <2> QED BY <2>1, <2>4, <2>5
<1> QED BY <1>1, <1>2 DEF JobsKept, HandsInv, TypeOK

-----------------------------------------------------------------------------
(* Room in the engines *)

EngineOk(e) ==
  /\ Room(inbox[e], held[e], JobsOf(outbox[e]), active[e])
  /\ IsFiniteSet(active[e]) /\ Cardinality(active[e]) <= Limit[e]
  /\ engine[e] = "ended" => inbox[e] = <<>> /\ held[e] = {} /\ ~taking[e]

RoomInv == \A e \in Engines : EngineOk(e)

LEMMA OkTypes ==
  ASSUME TypeOK, NEW e \in Engines
  PROVE  /\ inbox[e] \in Seq(Jobs) /\ outbox[e] \in Seq(Results)
         /\ JobsOf(outbox[e]) \in Seq(Jobs) /\ Len(JobsOf(outbox[e])) = Len(outbox[e])
         /\ Elems(JobsOf(outbox[e])) = {r.job : r \in Elems(outbox[e])}
         /\ (outbox[e] = <<>>) <=> (JobsOf(outbox[e]) = <<>>)
         /\ Limit[e] \in Nat \ {0}
<1>1. inbox[e] \in Seq(Jobs) /\ outbox[e] \in Seq(Results)
  BY DEF TypeOK
<1>2. \A r \in Results : r.job \in Jobs
  BY Constants
<1>3. \A s \in Seq(Results) : /\ JobsOf(s) \in Seq(Jobs) /\ Len(JobsOf(s)) = Len(s)
                              /\ Elems(JobsOf(s)) = {r.job : r \in Elems(s)}
                              /\ (s = <<>>) <=> (JobsOf(s) = <<>>)
  BY <1>2, JobsSeq
<1> QED BY <1>1, <1>3, Constants

(* An engine that a step leaves alone.                                     *)
LEMMA OkLeft ==
  ASSUME NEW e \in Engines, EngineOk(e), inbox'[e] = inbox[e], held'[e] = held[e],
         outbox'[e] = outbox[e], active'[e] = active[e], engine'[e] = engine[e],
         taking'[e] => taking[e]
  PROVE  EngineOk(e)'
BY DEF EngineOk

(* Collecting an answer, or giving up what an ended engine had.            *)
LEMMA CollectRoom ==
  ASSUME TypeOK, RoomInv, Collect \/ CollectEnded
  PROVE  RoomInv'
<1>a. PICK t : t = turn
  OBVIOUS
<1>0. /\ t = turn /\ t \in Engines /\ active \in [Engines -> SUBSET Jobs]
      /\ UNCHANGED <<inbox, held, engine, taking>>
      /\ outbox \in [Engines -> Seq(Results)]
  BY <1>a DEF TypeOK, Collect, CollectEnded, engineVars
<1>1. EngineOk(t)
  BY <1>0 DEF RoomInv
<1>2. CASE Collect
  <2>1. PICK j : j = Head(JobsOf(outbox[t]))
    OBVIOUS
  <2>2. /\ outbox[t] # <<>> /\ Head(outbox[t]).job = j
        /\ JobsOf(Tail(outbox[t])) = Tail(JobsOf(outbox[t]))
    <3>1. \A r \in Results : r.job \in Jobs
      BY Constants
    <3>2. outbox[t] \in Seq(Results) /\ outbox[t] # <<>>
      BY <1>0, <1>2 DEF Collect
    <3> QED BY <2>1, <3>1, <3>2, JobsTailed
  <2>3. /\ outbox' = [outbox EXCEPT ![t] = Tail(outbox[t])]
        /\ active' = [active EXCEPT ![t] = active[t] \ {j}]
    BY <1>0, <1>2, <2>2 DEF Collect
  <2>4. j \in active[t]
        /\ Room(inbox[t], held[t], Tail(JobsOf(outbox[t])), active[t] \ {j})
    <3>1. /\ inbox[t] \in Seq(Jobs) /\ JobsOf(outbox[t]) \in Seq(Jobs)
          /\ JobsOf(outbox[t]) # <<>>
      BY <1>0, <2>2, OkTypes
    <3>2. Room(inbox[t], held[t], JobsOf(outbox[t]), active[t]) /\ IsFiniteSet(active[t])
      BY <1>1 DEF EngineOk
    <3> QED BY <2>1, <3>1, <3>2, RoomCollected
  <2>5. IsFiniteSet(active[t] \ {j}) /\ Cardinality(active[t] \ {j}) <= Limit[t]
    <3>1. /\ Cardinality(active[t] \ {j}) = Cardinality(active[t]) - 1
          /\ Cardinality(active[t]) \in Nat /\ IsFiniteSet(active[t] \ {j})
          /\ Limit[t] \in Nat
      BY <1>0, <1>1, <2>4, OneMore, OkTypes DEF EngineOk
    <3> QED BY <1>1, <3>1 DEF EngineOk
  <2>6. EngineOk(t)'
    BY <1>0, <1>1, <2>2, <2>3, <2>4, <2>5 DEF EngineOk
  <2>7. ASSUME NEW e \in Engines, e # t PROVE EngineOk(e)'
    BY <1>0, <2>3, <2>7, OkLeft DEF RoomInv
  <2> QED BY <2>6, <2>7 DEF RoomInv
<1>3. CASE CollectEnded
  <2>1. /\ outbox' = outbox /\ outbox[t] = <<>> /\ engine[t] = "ended"
        /\ \/ active' = active
           \/ \E j \in active[t] : active' = [active EXCEPT ![t] = active[t] \ {j}]
    BY <1>0, <1>3 DEF CollectEnded, engineVars
  <2>2. inbox[t] = <<>> /\ held[t] = {} /\ ~taking[t] /\ JobsOf(outbox[t]) = <<>>
    BY <1>0, <1>1, <2>1, OkTypes DEF EngineOk
  <2>3. \A e \in Engines \ {t} : active'[e] = active[e]
    BY <1>0, <2>1
  <2>4. IsFiniteSet(active'[t]) /\ Cardinality(active'[t]) <= Limit[t]
    <3>1. active'[t] = active[t] \/ \E j \in active[t] : active'[t] = active[t] \ {j}
      BY <1>0, <2>1
    <3>2. \A j \in active[t] :
            /\ Cardinality(active[t] \ {j}) = Cardinality(active[t]) - 1
            /\ Cardinality(active[t]) \in Nat /\ IsFiniteSet(active[t] \ {j})
      BY <1>1, OneMore DEF EngineOk
    <3>3. Limit[t] \in Nat
      BY <1>0, OkTypes
    <3>4. IsFiniteSet(active[t]) /\ Cardinality(active[t]) <= Limit[t]
      BY <1>1 DEF EngineOk
    <3>5. CASE active'[t] = active[t]
      BY <3>4, <3>5
    <3>6. ASSUME NEW j \in active[t], active'[t] = active[t] \ {j}
          PROVE  IsFiniteSet(active'[t]) /\ Cardinality(active'[t]) <= Limit[t]
      <4>1. \A n, l \in Nat : n <= l => n - 1 <= l
        OBVIOUS
      <4> QED BY <3>2, <3>3, <3>4, <3>6, <4>1
    <3> QED BY <3>1, <3>5, <3>6
  <2>5. Room(<<>>, {}, <<>>, active'[t])
    BY <2>4, RoomEnded
  <2>6. EngineOk(t)'
    BY <1>0, <2>1, <2>2, <2>4, <2>5 DEF EngineOk
  <2>7. ASSUME NEW e \in Engines, e # t PROVE EngineOk(e)'
    BY <1>0, <2>1, <2>3, <2>7, OkLeft DEF RoomInv
  <2> QED BY <2>6, <2>7 DEF RoomInv
<1> QED BY <1>2, <1>3

(* The router reserves a place before it sends.                            *)
LEMMA AssignRoom ==
  ASSUME TypeOK, HandsInv, RoomInv, ScanAssign
  PROVE  RoomInv'
<1>1. PICK j, e : j = Head(pending).job /\ e = Choose(Ready(Head(pending).fit))
  OBVIOUS
<1>2. /\ Ready(Head(pending).fit) # {} /\ UNCHANGED <<held, outbox, engine, taking>>
      /\ \/ /\ inbox' = [inbox EXCEPT ![e] = Append(inbox[e], j)]
            /\ active' = [active EXCEPT ![e] = active[e] \union {j}]
            /\ taking[e]
         \/ UNCHANGED <<inbox, active>>
  BY <1>1 DEF ScanAssign
<1>3. j \in Queued /\ j \in Jobs
  BY <1>1, QueueTailed DEF ScanAssign, Looking
<1>4. e \in Engines /\ HasCredit(e)
  <2>1. Looking
    BY DEF ScanAssign, Looking
  <2> QED BY <1>1, <1>2, <2>1, Chosen, Types DEF Ready
<1>5. CASE UNCHANGED <<inbox, active>>
  BY <1>2, <1>5, OkLeft DEF RoomInv
<1>6. CASE /\ inbox' = [inbox EXCEPT ![e] = Append(inbox[e], j)]
           /\ active' = [active EXCEPT ![e] = active[e] \union {j}]
           /\ taking[e]
  <2>1. j \notin active[e]
    <3>1. "queue" \in Places /\ e \in Places /\ e # "queue"
      BY <1>4 DEF Places, Engines
    <3>2. Hand["queue"] \intersect Hand[e] = {}
      BY <3>1 DEF HandsInv, Kept
    <3> QED BY <1>3, <1>4, <3>2, Hands
  <2>2. EngineOk(e) /\ engine[e] # "ended"
    BY <1>4, <1>6 DEF RoomInv, EngineOk
  <2>3. Room(Append(inbox[e], j), held[e], JobsOf(outbox[e]), active[e] \union {j})
    BY <1>3, <1>4, <2>1, <2>2, OkTypes, RoomAssigned DEF EngineOk
  <2>4. IsFiniteSet(active[e] \union {j}) /\ Cardinality(active[e] \union {j}) <= Limit[e]
    <3>1. /\ IsFiniteSet(active[e] \union {j}) /\ Cardinality(active[e]) \in Nat
          /\ Cardinality(active[e] \union {j}) = Cardinality(active[e]) + 1
          /\ Limit[e] \in Nat
      BY <1>4, <2>1, <2>2, OneMore, OkTypes DEF EngineOk
    <3> QED BY <1>4, <3>1 DEF HasCredit
  <2>5. /\ inbox'[e] = Append(inbox[e], j) /\ active'[e] = active[e] \union {j}
        /\ \A d \in Engines \ {e} : inbox'[d] = inbox[d] /\ active'[d] = active[d]
    BY <1>4, <1>6 DEF TypeOK
  <2>6. EngineOk(e)'
    BY <1>2, <2>2, <2>3, <2>4, <2>5 DEF EngineOk
  <2>7. ASSUME NEW d \in Engines, d # e PROVE EngineOk(d)'
    BY <1>2, <2>5, <2>7, OkLeft DEF RoomInv
  <2> QED BY <2>6, <2>7 DEF RoomInv
<1> QED BY <1>2, <1>5, <1>6

(* An engine's thread takes, answers, ends.                                *)
LEMMA EngineRoomSteps ==
  ASSUME TypeOK, RoomInv, NEW e \in Engines,
         EngineTakes(e) \/ EngineAnswers(e) \/ (Ends(e) /\ Others /\ UNCHANGED outbox)
  PROVE  RoomInv'
<1>0. /\ active' = active /\ EngineOk(e)
      /\ inbox \in [Engines -> Seq(Jobs)] /\ outbox \in [Engines -> Seq(Results)]
      /\ held \in [Engines -> SUBSET Jobs]
      /\ engine \in [Engines -> {"waiting", "looked", "running", "ended"}]
      /\ taking \in [Engines -> BOOLEAN]
  BY DEF EngineTakes, EngineAnswers, Others, routeVars, RoomInv, TypeOK
<1>1. CASE EngineTakes(e)
  <2>1. /\ inbox[e] # <<>> /\ UNCHANGED <<engine, taking, outbox>>
        /\ held' = [held EXCEPT ![e] = held[e] \union {Head(inbox[e])}]
        /\ inbox' = [inbox EXCEPT ![e] = Tail(inbox[e])]
        /\ engine[e] # "ended"
    BY <1>1 DEF EngineTakes
  <2>2. Room(Tail(inbox[e]), held[e] \union {Head(inbox[e])}, JobsOf(outbox[e]), active[e])
    BY <1>0, <2>1, OkTypes, RoomTaken DEF EngineOk
  <2>3. /\ inbox'[e] = Tail(inbox[e]) /\ held'[e] = held[e] \union {Head(inbox[e])}
        /\ \A d \in Engines \ {e} : inbox'[d] = inbox[d] /\ held'[d] = held[d]
    BY <1>0, <2>1
  <2>4. EngineOk(e)'
    BY <1>0, <2>1, <2>2, <2>3 DEF EngineOk
  <2>5. ASSUME NEW d \in Engines, d # e PROVE EngineOk(d)'
    BY <1>0, <2>1, <2>3, <2>5, OkLeft DEF RoomInv
  <2> QED BY <2>4, <2>5 DEF RoomInv
<1>2. CASE EngineAnswers(e)
  <2>1. PICK j \in held[e], r \in Results :
          /\ r.job = j /\ held' = [held EXCEPT ![e] = held[e] \ {j}]
          /\ outbox' = [outbox EXCEPT ![e] = Append(outbox[e], r)]
    <3>1. PICK j \in held[e], o \in Outcomes, fatal \in BOOLEAN :
            /\ held' = [held EXCEPT ![e] = held[e] \ {j}]
            /\ outbox' = [outbox EXCEPT ![e] =
                            Append(outbox[e], [job |-> j, outcome |-> o, fatal |-> fatal])]
      BY <1>2 DEF EngineAnswers
    <3>2. [job |-> j, outcome |-> o, fatal |-> fatal] \in Results
      BY <1>0, <3>1 DEF Results
    <3> QED BY <3>1, <3>2
  <2>2. UNCHANGED <<engine, taking, inbox>> /\ engine[e] # "ended" /\ j \in Jobs
    BY <1>0, <1>2 DEF EngineAnswers
  <2>3. JobsOf(Append(outbox[e], r)) = Append(JobsOf(outbox[e]), j)
    <3>1. outbox[e] \in Seq(Results) /\ \A x \in Results : x.job \in Jobs
      BY <1>0, Constants
    <3> QED BY <2>1, <3>1, JobsAppended
  <2>4. Room(inbox[e], held[e] \ {j}, Append(JobsOf(outbox[e]), j), active[e])
    BY <1>0, <2>1, <2>2, OkTypes, RoomAnswered DEF EngineOk
  <2>5. /\ outbox'[e] = Append(outbox[e], r) /\ held'[e] = held[e] \ {j}
        /\ \A d \in Engines \ {e} : outbox'[d] = outbox[d] /\ held'[d] = held[d]
    BY <1>0, <2>1
  <2>6. EngineOk(e)'
    BY <1>0, <2>2, <2>3, <2>4, <2>5 DEF EngineOk
  <2>7. ASSUME NEW d \in Engines, d # e PROVE EngineOk(d)'
    BY <1>0, <2>2, <2>5, <2>7, OkLeft DEF RoomInv
  <2> QED BY <2>6, <2>7 DEF RoomInv
<1>3. CASE Ends(e) /\ UNCHANGED outbox
  <2>1. /\ engine'[e] = "ended" /\ ~taking'[e] /\ inbox'[e] = <<>> /\ held'[e] = {}
        /\ \A d \in Engines \ {e} : /\ inbox'[d] = inbox[d] /\ held'[d] = held[d]
                                    /\ engine'[d] = engine[d] /\ taking'[d] = taking[d]
    BY <1>0, <1>3 DEF Ends
  <2>2. Room(<<>>, {}, JobsOf(outbox[e]), active[e])
    BY <1>0, OkTypes, RoomEmptied DEF EngineOk
  <2>3. EngineOk(e)'
    BY <1>0, <1>3, <2>1, <2>2 DEF EngineOk
  <2>4. ASSUME NEW d \in Engines, d # e PROVE EngineOk(d)'
    BY <1>0, <1>3, <2>1, <2>4, OkLeft DEF RoomInv
  <2> QED BY <2>3, <2>4 DEF RoomInv
<1> QED BY <1>1, <1>2, <1>3

(* Every step leaves room in the engines.                                  *)
LEMMA NextRoom ==
  ASSUME TypeOK, HandsInv, RoomInv, [Next]_vars
  PROVE  RoomInv'
<1>1. CASE \/ Top \/ CollectedAll \/ Take \/ ScanCancelled \/ PickUp \/ ReadSettings
           \/ ScanRefuse \/ ScanWait \/ ScanDone
           \/ BlockedSendFails \/ Joined \/ Session \/ UNCHANGED vars
  <2>1. UNCHANGED <<inbox, held, outbox, active, engine, taking>>
    BY <1>1 DEF Top, CollectedAll, Take, ScanCancelled, PickUp, ReadSettings, ScanRefuse, ScanWait,
       ScanDone, BlockedSendFails, Joined, Session, SendJob, Cancel, CloseInput, ReadResult,
       CloseOut, Configure, SessionOnly, vars, routeVars, engineVars
  <2> QED BY <2>1, OkLeft DEF RoomInv
<1>2. CASE Stopping
  <2>1. /\ UNCHANGED <<inbox, held, active, engine, taking>>
        /\ \A e \in Engines : outbox'[e] = <<>>
    BY <1>2 DEF Stopping
  <2>2. JobsOf(<<>>) = <<>>
    BY DEF JobsOf
  <2>3. ASSUME NEW e \in Engines PROVE EngineOk(e)'
    <3>1. EngineOk(e)
      BY DEF RoomInv
    <3>2. Room(inbox[e], held[e], <<>>, active[e])
      BY <3>1, OkTypes, RoomEmptied DEF EngineOk
    <3> QED BY <2>1, <2>2, <3>1, <3>2 DEF EngineOk
  <2> QED BY <2>3 DEF RoomInv
<1>3. CASE LookForSeed \/ (NoSeed /\ ~Ends("metal")) \/ EngineCloses("metal")
  <2>1. /\ UNCHANGED <<inbox, held, outbox, active>>
        /\ \A e \in Engines : /\ taking'[e] => taking[e]
                              /\ engine'[e] # engine[e] => engine'[e] # "ended"
    BY <1>3 DEF LookForSeed, NoSeed, EngineCloses, Others, routeVars, TypeOK
  <2>2. ASSUME NEW e \in Engines PROVE EngineOk(e)'
    BY <2>1 DEF RoomInv, EngineOk
  <2> QED BY <2>2 DEF RoomInv
<1>4. CASE NoSeed /\ Ends("metal")
  BY <1>4, EngineRoomSteps, Constants DEF NoSeed
<1>5. ASSUME NEW e \in Engines, EngineEnds(e) \/ EngineDrained(e) \/ EngineBreaks(e)
      PROVE  RoomInv'
  BY <1>5, EngineRoomSteps DEF EngineEnds, EngineDrained, EngineBreaks
<1> QED BY <1>1, <1>2, <1>3, <1>4, <1>5, CollectRoom, AssignRoom, EngineRoomSteps, Constants
        DEF Next, RouterStep, MetalStep, AneStep, Finished

(* What the invariant on the engines says, in the words of the model.      *)
LEMMA RoomInEngines == TypeOK /\ RoomInv => EngineRoom
<1> SUFFICES ASSUME TypeOK, RoomInv, NEW e \in Engines
             PROVE  /\ Elems(inbox[e]) \union held[e] \union {r.job : r \in Elems(outbox[e])}
                         \subseteq active[e]
                    /\ Len(inbox[e]) + Cardinality(held[e]) + Len(outbox[e]) <= Limit[e]
  BY DEF EngineRoom
<1>1. EngineOk(e)
  BY DEF RoomInv
<1>2. /\ Len(inbox[e]) \in Nat /\ Len(outbox[e]) \in Nat /\ Cardinality(held[e]) \in Nat
      /\ Cardinality(active[e]) \in Nat /\ Limit[e] \in Nat
  BY <1>1, OkTypes, HeldFinite DEF EngineOk
<1>3. /\ Elems(inbox[e]) \union held[e] \union Elems(JobsOf(outbox[e])) \subseteq active[e]
      /\ Len(inbox[e]) + Cardinality(held[e]) + Len(JobsOf(outbox[e])) <= Cardinality(active[e])
      /\ Cardinality(active[e]) <= Limit[e]
  BY <1>1 DEF EngineOk, Room
<1>4. /\ Len(JobsOf(outbox[e])) = Len(outbox[e])
      /\ Elems(JobsOf(outbox[e])) = {r.job : r \in Elems(outbox[e])}
  BY OkTypes
<1> QED BY <1>2, <1>3, <1>4

-----------------------------------------------------------------------------
(* One hand per job, and room in the engines *)

LEMMA InitTypes == Init => TypeOK
<1> SUFFICES ASSUME Init PROVE TypeOK
  OBVIOUS
<1>1. SessionTypes /\ RouteTypes
  <2>1. jobs \in Seq(Jobs) /\ pending \in Seq(Entries) /\ Len(jobs) = 0 /\ Len(pending) = 0
    BY DEF Init
  <2>2. SessionTypes
    <3>1. Len(jobs) <= JobCap /\ 0 \in 0 .. MaxEvents
      BY <2>1
    <3>2. /\ settings \in Configs /\ events = 0 /\ inputOpen = TRUE /\ outClosed = FALSE
          /\ sent = {} /\ cancelled = {}
      BY DEF Init
    <3> QED BY <2>1, <3>1, <3>2 DEF SessionTypes
  <2>3. RouteTypes
    <3>1. /\ pc = "top" /\ turn = "metal" /\ left = 0 /\ eof = FALSE /\ stop = FALSE
          /\ receiver = TRUE
      BY DEF Init
    <3>2. /\ active \in [Engines -> SUBSET Jobs] /\ dead \in [Engines -> BOOLEAN]
          /\ sender \in [Engines -> BOOLEAN]
      BY DEF Init
    <3>3. /\ left \in Nat /\ left <= Len(pending) /\ turn \in Engines
          /\ eof \in BOOLEAN /\ stop \in BOOLEAN /\ receiver \in BOOLEAN
      <4>1. left \in Nat /\ left <= Len(pending)
        BY <2>1, <3>1
      <4>2. turn \in Engines
        BY <3>1, Constants
      <4>3. eof \in BOOLEAN /\ stop \in BOOLEAN /\ receiver \in BOOLEAN
        BY <3>1
      <4> QED BY <4>1, <4>2, <4>3
    <3> QED BY <2>1, <3>1, <3>2, <3>3 DEF RouteTypes
  <2> QED BY <2>2, <2>3
<1>2. EngineTypes /\ AnswerTypes
  BY DEF Init, EngineTypes, AnswerTypes, Engines
<1>3. SinceTypes
  BY DEF Init, Nothing, SinceTypes
<1> QED BY <1>1, <1>2, <1>3, Types

LEMMA InitHands == Init => HandsInv /\ RoomInv
<1> SUFFICES ASSUME Init PROVE HandsInv /\ RoomInv
  OBVIOUS
<1>1. /\ Elems(<<>>) = {} /\ Once(<<>>) /\ JobsOf(<<>>) = <<>> /\ Len(<<>>) = 0
      /\ IsFiniteSet({}) /\ Cardinality({}) = 0
  BY FS_EmptySet DEF Elems, Once, JobsOf
<1>2. \A c \in Places : Hand[c] = {}
  <2>1. Queued = {}
    BY <1>1 DEF Init, Queued
  <2> QED BY <1>1, <2>1, Hands DEF Init, Places, Engines
<1>3. Kept(Hand, sent, ~outClosed)
  BY <1>2 DEF Kept, Init
<1>4. HandsInv
  BY <1>1, <1>3 DEF HandsInv, Init
<1>5. ASSUME NEW e \in Engines PROVE EngineOk(e)
  <2>1. inbox[e] = <<>> /\ held[e] = {} /\ outbox[e] = <<>> /\ active[e] = {}
        /\ engine[e] # "ended"
    BY DEF Init
  <2>2. Room(<<>>, {}, <<>>, {})
    BY <1>1, RoomEnded
  <2> QED BY <1>1, <2>1, <2>2, Constants DEF EngineOk
<1> QED BY <1>4, <1>5 DEF RoomInv

(* The inductive invariant of the reservations.                            *)
JobsInv == TypeOK /\ HandsInv /\ RoomInv

LEMMA JobsInvariant == Spec => []JobsInv
<1>1. Init => JobsInv
  BY InitTypes, InitHands DEF JobsInv
<1>2. JobsInv /\ [Next]_vars => JobsInv'
  BY NextTypes, NextHands, NextRoom DEF JobsInv
<1> QED BY <1>1, <1>2, PTL DEF Spec

(* Whatever the engines and the session do, a job is in exactly one hand,  *)
(* answered at most once, and every channel to or from an engine has room  *)
(* for what the router reserved (run_router, admit, collect).              *)
THEOREM JobsInOneHand == Spec => []RouterInv
<1>1. JobsInv => RouterInv
  BY HandsKeepJobs, RoomInEngines DEF JobsInv, RouterInv
<1> QED BY <1>1, JobsInvariant, PTL

-----------------------------------------------------------------------------
(* Routing *)

(* What is remembered of a job is what its scan found for the settings it  *)
(* was read by; the job in hand was wanted when it was taken up, and was   *)
(* read by settings in force since then.                                   *)
RoutingInv ==
  /\ \A x \in Elems(pending) : x.cfg # None => x.fit = Eligible(x.job, x.cfg)
  /\ pc \in {"read", "route"} =>
       pending # <<>> /\ settings \in since.cfgs /\ Head(pending).job \notin since.cancelled
  /\ pc = "route" => Head(pending).cfg \in since.cfgs

(* Looking at a job moves it to the end of the queue or takes it out.      *)
LEMMA QueueRest ==
  ASSUME TypeOK, Looking, pending' = Tail(pending) \/ Requeue
  PROVE  Elems(pending') \subseteq Elems(pending)
<1>1. /\ pending \in Seq(Entries) /\ pending # <<>>
      /\ Tail(pending) \in Seq(Entries) /\ Head(pending) \in Entries
  BY Types, Front
<1>2. Elems(Tail(pending)) \subseteq Elems(pending) /\ Head(pending) \in Elems(pending)
  BY <1>1, Tailed
<1>3. Requeue => Elems(pending') = Elems(Tail(pending)) \union {Head(pending)}
  BY <1>1, Appended DEF Requeue
<1> QED BY <1>2, <1>3

LEMMA NextRouting ==
  ASSUME TypeOK, RoutingInv, [Next]_vars
  PROVE  RoutingInv'
<1>0. /\ since \in [cfgs : SUBSET Configs, cancelled : SUBSET Jobs] /\ settings \in Configs
      /\ SessionTypes /\ RouteTypes
  BY Types DEF SinceTypes, SessionTypes
<1>1. CASE PickUp
  <2>1. /\ since' = [cfgs |-> {settings}, cancelled |-> cancelled] /\ pc' = "read"
        /\ Wanted(Head(pending).job) /\ UNCHANGED <<settings, pending>>
    BY <1>1 DEF PickUp, sessionVars, routeVars
  <2>2. pending # <<>>
    <3>1. Looking
      BY <1>1 DEF PickUp, Looking
    <3> QED BY <1>0, <3>1, Front
  <2> QED BY <2>1, <2>2 DEF RoutingInv, Wanted
<1>2. CASE ReadSettings
  <2>1. /\ pc = "read" /\ pc' = "route" /\ UNCHANGED <<settings, since>>
    BY <1>2 DEF ReadSettings, Scanning, Runs, sessionVars
  <2>2. /\ pending # <<>> /\ Head(pending) \in Entries /\ pending' # <<>>
        /\ Head(pending').job = Head(pending).job /\ Head(pending').cfg = settings
        /\ Head(pending').fit = Scanned(Head(pending), settings)
        /\ \A x \in Elems(pending') : x = Head(pending') \/ x \in Elems(pending)
    BY <1>0, <1>2, ReadFirst
  <2>3. Head(pending) \in Elems(pending)
    BY <1>0, <2>2, Tailed DEF RouteTypes
  <2>4. Scanned(Head(pending), settings) = Eligible(Head(pending).job, settings)
    <3>1. CASE Head(pending).cfg = settings
      <4>1. settings # None
        BY <1>0, Constants
      <4> QED BY <2>3, <3>1, <4>1 DEF Scanned, RoutingInv
    <3>2. CASE Head(pending).cfg # settings
      BY <3>2 DEF Scanned
    <3> QED BY <3>1, <3>2
  <2>5. \A x \in Elems(pending') : x.cfg # None => x.fit = Eligible(x.job, x.cfg)
    BY <2>2, <2>4 DEF RoutingInv
  <2>6. settings \in since.cfgs /\ Head(pending).job \notin since.cancelled
    BY <2>1 DEF RoutingInv
  <2> QED BY <2>1, <2>2, <2>5, <2>6 DEF RoutingInv
<1>3. CASE ScanCancelled \/ ScanAssign \/ ScanRefuse \/ ScanWait
  <2>1. /\ Looking /\ (pending' = Tail(pending) \/ Requeue)
        /\ pc' \in {"scan", "stopping"}
    BY <1>3 DEF ScanCancelled, ScanAssign, ScanRefuse, ScanWait, Looking, Forward
  <2>2. Elems(pending') \subseteq Elems(pending)
    BY <2>1, QueueRest
  <2> QED BY <2>1, <2>2 DEF RoutingInv
<1>4. CASE Take
  <2>1. pc' = "scan"
    BY <1>4 DEF Take
  <2>2. CASE pending' = pending
    BY <2>1, <2>2 DEF RoutingInv
  <2>3. CASE jobs # <<>> /\ pending' = Append(pending, Unread(Head(jobs)))
    <3>1. PICK x \in Entries : x = Unread(Head(jobs)) /\ x.cfg = None
      <4>1. Head(jobs) \in Jobs
        BY <1>0, <2>3 DEF SessionTypes
      <4>2. Unread(Head(jobs)) \in Entries /\ Unread(Head(jobs)).cfg = None
        BY <4>1 DEF Entries, Unread
      <4> QED BY <4>2
    <3>2. Elems(pending') = Elems(pending) \union {x}
      BY <1>0, <2>3, <3>1, Appended DEF RouteTypes
    <3> QED BY <2>1, <3>1, <3>2 DEF RoutingInv
  <2> QED BY <1>4, <2>2, <2>3 DEF Take
<1>5. CASE Configure
  <2>1. /\ UNCHANGED <<pc, pending>> /\ settings' \in Configs
        /\ since' = IF pc \in {"read", "route"}
                    THEN [since EXCEPT !.cfgs = since.cfgs \union {settings'}] ELSE since
    BY <1>5 DEF Configure, SessionOnly, loopVars, routeVars
  <2>2. CASE pc \in {"read", "route"}
    <3>1. /\ since'.cfgs = since.cfgs \union {settings'}
          /\ since'.cancelled = since.cancelled
      BY <1>0, <2>1, <2>2
    <3> QED BY <2>1, <3>1 DEF RoutingInv
  <2>3. CASE pc \notin {"read", "route"}
    BY <2>1, <2>3 DEF RoutingInv
  <2> QED BY <2>2, <2>3
<1>6. CASE \/ Top \/ Collect \/ CollectedAll \/ CollectEnded \/ ScanDone \/ BlockedSendFails
           \/ Stopping \/ Joined
  <2>1. pending' = pending /\ pc' \notin {"read", "route"}
    BY <1>6 DEF Top, Collect, CollectedAll, CollectEnded, ScanDone, BlockedSendFails, Stopping,
       Joined, NextTurn, Forward, Runs, routeVars
  <2> QED BY <2>1 DEF RoutingInv
<1>7. CASE MetalStep \/ AneStep \/ (\E e \in Engines : EngineBreaks(e)) \/ UNCHANGED vars
  <2>1. UNCHANGED <<pc, pending, settings, since>>
    BY <1>7 DEF MetalStep, AneStep, LookForSeed, NoSeed, EngineTakes, EngineAnswers, EngineEnds,
       EngineCloses, EngineDrained, EngineBreaks, Others, vars, sessionVars, loopVars, routeVars
  <2> QED BY <2>1 DEF RoutingInv
<1>8. CASE Session /\ ~Configure
  <2>1. UNCHANGED <<pc, pending, settings, since>>
    BY <1>8 DEF Session, SendJob, Cancel, CloseInput, ReadResult, CloseOut, SessionOnly,
       sessionVars, loopVars, routeVars
  <2> QED BY <2>1 DEF RoutingInv
<1> QED BY <1>1, <1>2, <1>3, <1>4, <1>5, <1>6, <1>7, <1>8 DEF Next, RouterStep, Finished

(* Only an assignment reserves an engine.                                  *)
LEMMA OnlyAssigns ==
  ASSUME TypeOK, [Next]_vars, ~ScanAssign, NEW e \in Engines
  PROVE  active'[e] \subseteq active[e]
<1>0. active \in [Engines -> SUBSET Jobs]
  BY DEF TypeOK
<1>1. CASE Collect \/ CollectEnded
  <2>1. active' = active \/ \E j : active' = [active EXCEPT ![turn] = active[turn] \ {j}]
    BY <1>1 DEF Collect, CollectEnded
  <2> QED BY <1>0, <2>1
<1>2. CASE ~(Collect \/ CollectEnded)
  <2>1. active' = active
    BY <1>2 DEF Next, RouterStep, MetalStep, AneStep, Session, Finished, Top, CollectedAll,
       Take, ScanCancelled, PickUp, ReadSettings, ScanRefuse, ScanWait, ScanDone,
       BlockedSendFails, Stopping, Joined,
       LookForSeed, NoSeed, EngineTakes, EngineAnswers, EngineEnds, EngineCloses,
       EngineDrained, EngineBreaks, SendJob, Cancel, CloseInput, ReadResult, CloseOut,
       Configure, SessionOnly, Others, vars, routeVars
  <2> QED BY <2>1
<1> QED BY <1>1, <1>2

(* What the job in hand was found fit for, by settings of this pass.       *)
LEMMA FoundFit ==
  ASSUME TypeOK, RoutingInv, Scanning("route")
  PROVE  /\ Head(pending).cfg \in since.cfgs
         /\ Head(pending).fit = Eligible(Head(pending).job, Head(pending).cfg)
         /\ Head(pending).job \notin since.cancelled
<1>1. pc = "route" /\ Looking
  BY DEF Scanning, Runs, Looking
<1>2. pending \in Seq(Entries) /\ pending # <<>>
  BY <1>1, Types, Front
<1>3. Head(pending) \in Elems(pending)
  BY <1>2, Tailed
<1>4. Head(pending).cfg \in since.cfgs /\ Head(pending).job \notin since.cancelled
  BY <1>1 DEF RoutingInv
<1>5. Head(pending).cfg # None
  BY <1>4, Constants DEF TypeOK
<1> QED BY <1>3, <1>4, <1>5 DEF RoutingInv

LEMMA NextRoutes ==
  ASSUME JobsInv, RoutingInv, [Next]_vars, NEW e \in Engines, NEW k \in Reserves(e)
  PROVE  ~dead[e] /\ k \notin since.cancelled /\ \E c \in since.cfgs : e \in Eligible(k, c)
<1>0. active \in [Engines -> SUBSET Jobs] /\ TypeOK
  BY DEF JobsInv, TypeOK
<1>1. ScanAssign
  BY <1>0, OnlyAssigns DEF Reserves
<1>2. PICK j, d : j = Head(pending).job /\ d = Choose(Ready(Head(pending).fit))
  OBVIOUS
<1>3. /\ Ready(Head(pending).fit) # {} /\ Scanning("route") /\ Looking
      /\ \/ active' = [active EXCEPT ![d] = active[d] \union {j}]
         \/ active' = active
  BY <1>1, <1>2 DEF ScanAssign, Looking
<1>4. k = j /\ e = d
  BY <1>0, <1>3 DEF Reserves
<1>5. d \in Ready(Head(pending).fit)
  BY <1>0, <1>2, <1>3, Chosen, Types
<1>6. d \in Head(pending).fit /\ ~dead[d]
  BY <1>5 DEF Ready, Usable
<1> QED BY <1>0, <1>2, <1>3, <1>4, <1>6, FoundFit

(* A job that leaves the queue with a failure was refused by the router.   *)
LEMMA NextRefuses ==
  ASSUME JobsInv, RoutingInv, [Next]_vars, NEW k \in Refuses
  PROVE  \E c \in since.cfgs : \A e \in Eligible(k, c) : dead[e]
<1>0. /\ TypeOK /\ TypeOK' /\ HandsInv
      /\ k \in Queued /\ k \notin Queued' /\ replies'[k] = <<"failed">> /\ <<"failed">> # <<>>
      /\ <<"failed">> # <<"cancelled">>
  BY NextTypes DEF JobsInv, Refuses
<1>1. k \in Jobs /\ replies[k] = <<>> /\ replies \in [Jobs -> Seq(Outcomes)]
  <2>1. "queue" \in Places /\ "session" \in Places
    BY DEF Places
  <2>2. k \in Hand["queue"] /\ k \notin Hand["session"] /\ k \in sent
    BY <1>0, <2>1, Hands DEF HandsInv, Kept
  <2> QED BY <1>0, <2>2, Hands DEF TypeOK
<1>2. replies' # replies /\ pending' # pending
  BY <1>0, <1>1 DEF Queued
<1>3. ScanCancelled \/ ScanRefuse
  BY <1>2 DEF Next, RouterStep, MetalStep, AneStep, Session, Finished, Top, Collect, CollectedAll,
     CollectEnded, Take, PickUp, ReadSettings, ScanAssign, ScanWait, ScanDone,
     BlockedSendFails, Stopping, Joined, LookForSeed, NoSeed, EngineTakes, EngineAnswers,
     EngineEnds, EngineCloses, EngineDrained, EngineBreaks, SendJob, Cancel, CloseInput,
     ReadResult, CloseOut, Configure, SessionOnly, Others, vars, routeVars, answerVars
<1>4. PICK j : j = Head(pending).job
  OBVIOUS
<1>5. /\ Looking /\ pending' = Tail(pending)
      /\ \E o \in {"cancelled", "failed"} :
           Forward(j, o, "scan") /\ (ScanCancelled => o = "cancelled")
  BY <1>3, <1>4 DEF ScanCancelled, ScanRefuse, Scanning, Runs, Looking
<1>6. k = j
  <2>1. Queued' = Queued \ {j}
    BY <1>0, <1>4, <1>5, QueueTailed, QueuedJobs
  <2> QED BY <1>0, <2>1
<1>7. ~ScanCancelled
  <2> SUFFICES ASSUME ScanCancelled PROVE FALSE
    OBVIOUS
  <2>1. Forward(j, "cancelled", "scan")
    BY <1>5
  <2>2. replies' = [replies EXCEPT ![j] = Append(replies[j], "cancelled")]
    BY <1>2, <2>1 DEF Forward, Reply
  <2>3. replies'[k] = Append(<<>>, "cancelled")
    BY <1>1, <1>6, <2>2
  <2>4. Append(<<>>, "cancelled") = <<"cancelled">>
    OBVIOUS
  <2> QED BY <1>0, <2>3, <2>4
<1>8. Scanning("route") /\ Hopeless(Head(pending).fit)
  BY <1>3, <1>7 DEF ScanRefuse
<1>9. \A e \in Head(pending).fit : dead[e]
  BY <1>8 DEF Hopeless, Usable
<1> QED BY <1>0, <1>4, <1>6, <1>8, <1>9, FoundFit

(* However long ago a job was read or scanned, one pass routes it by       *)
(* settings in force since the router took it up, to an engine that is not *)
(* given up, unless it was cancelled by then; and refuses it only when no  *)
(* engine is left under such settings (Router::run, the pass over pending).*)
THEOREM RoutesByItsPass == Spec => RoutedAsConfigured
<1>1. Init => RoutingInv
  <2>1. Elems(<<>>) = {}
    BY DEF Elems
  <2> QED BY <2>1 DEF Init, RoutingInv
<1>2. JobsInv /\ RoutingInv /\ [Next]_vars => RoutingInv'
  BY NextRouting DEF JobsInv
<1>3. JobsInv /\ RoutingInv /\ [Next]_vars =>
        [/\ \A e \in Engines : \A j \in Reserves(e) :
              /\ ~dead[e] /\ j \notin since.cancelled
              /\ \E c \in since.cfgs : e \in Eligible(j, c)
         /\ \A j \in Refuses :
              \E c \in since.cfgs : \A e \in Eligible(j, c) : dead[e]]_vars
  BY NextRoutes, NextRefuses
<1> QED BY <1>1, <1>2, <1>3, JobsInvariant, PTL DEF Spec, RoutedAsConfigured

-----------------------------------------------------------------------------
(* The end of the stream *)

Stopped == pc \in {"stopping", "joining", "done"}

(* The input has ended when it is closed and empty; the loop ends when     *)
(* nobody reads or nothing is left; a send that blocks keeps it where it   *)
(* is; the receivers go before the threads are joined.                     *)
EndInv ==
  /\ eof => ~inputOpen /\ jobs = <<>>
  /\ Stopped => outClosed \/ (eof /\ pending = <<>> /\ \A e \in Engines : active[e] = {})
  /\ stop => Stopped
  /\ ~Unblocked => pc \in {"collect", "scan"}
  /\ receiver <=> pc \notin {"joining", "done"}

LEMMA NextEnd ==
  ASSUME JobsInv, EndInv, [Next]_vars
  PROVE  EndInv'
<1> USE DEF EndInv, Stopped
<1>0. outLen \in Nat /\ OutCap \in Nat /\ active \in [Engines -> SUBSET Jobs]
      /\ Engines = {"metal", "ane"} /\ eof \in BOOLEAN /\ inputOpen \in BOOLEAN
  BY DEF JobsInv, TypeOK, Engines
<1>1. ASSUME NEW j, NEW o, NEW label \in {"collect", "scan"}, Forward(j, o, label),
             Unblocked, pc \in {"collect", "scan", "route"},
             UNCHANGED <<jobs, inputOpen, outClosed, eof, receiver>>
      PROVE  EndInv'
  BY <1>1 DEF Forward, Reply, Unblocked
<1>2. CASE Top \/ CollectedAll
  BY <1>0, <1>2 DEF Top, CollectedAll, NextTurn, Runs, Unblocked, sessionVars, routeVars,
     answerVars
<1>11. CASE Stopping \/ Joined
  BY <1>0, <1>11 DEF Stopping, Joined, Unblocked, sessionVars, routeVars, answerVars
<1>12. CASE BlockedSendFails
  <2>1. Unblocked'
    BY <1>0, <1>12 DEF BlockedSendFails, Unblocked, JobsInv, TypeOK
  <2> QED BY <1>0, <1>12, <2>1 DEF BlockedSendFails, sessionVars
<1>3. CASE Take
  BY <1>0, <1>3 DEF Take, Runs, Unblocked, answerVars
<1>4. CASE ScanDone
  BY <1>0, <1>4 DEF ScanDone, Runs, Unblocked, sessionVars, answerVars
<1>5. CASE PickUp \/ ReadSettings \/ ScanWait \/ ScanAssign
  <2>1. CASE PickUp \/ ReadSettings
    BY <1>0, <2>1 DEF PickUp, ReadSettings, Scanning, Runs, Unblocked, sessionVars, routeVars,
       answerVars
  <2>2. CASE ScanWait \/ ScanAssign
    BY <1>0, <2>2 DEF ScanWait, ScanAssign, Scanning, Runs, Unblocked, sessionVars, answerVars
  <2> QED BY <1>5, <2>1, <2>2
<1>6. CASE ScanCancelled \/ ScanRefuse
  BY <1>1, <1>6 DEF ScanCancelled, ScanRefuse, Scanning, Runs, sessionVars
<1>7. CASE Collect
  <2>1. CASE Head(outbox[turn]).job \in active[turn]
    BY <1>1, <1>7, <2>1 DEF Collect, Runs, sessionVars
  <2>2. CASE Head(outbox[turn]).job \notin active[turn]
    BY <1>7, <2>2 DEF Collect, Runs, Unblocked, sessionVars
  <2> QED BY <2>1, <2>2
<1>8. CASE CollectEnded
  <2>1. CASE active[turn] = {}
    BY <1>8, <2>1 DEF CollectEnded, NextTurn, Runs, Unblocked, sessionVars
  <2>2. CASE active[turn] # {}
    BY <1>1, <1>8, <2>2 DEF CollectEnded, Runs, sessionVars
  <2> QED BY <2>1, <2>2
<1>9. CASE MetalStep \/ AneStep \/ (\E e \in Engines : EngineBreaks(e)) \/ UNCHANGED vars
  <2>1. UNCHANGED <<eof, inputOpen, jobs, pc, outClosed, pending, active, stop, outLen, receiver>>
    BY <1>9 DEF MetalStep, AneStep, LookForSeed, NoSeed, EngineTakes, EngineAnswers, EngineEnds,
       EngineCloses, EngineDrained, EngineBreaks, Others, vars, sessionVars, routeVars,
       loopVars, answerVars
  <2> QED BY <2>1 DEF Unblocked
<1>10. CASE Session
  <2>1. UNCHANGED <<eof, pc, pending, active, stop, receiver>>
    BY <1>10 DEF Session, SendJob, Cancel, CloseInput, ReadResult, CloseOut, Configure,
       SessionOnly, loopVars, routeVars
  <2>2. /\ outLen' = outLen \/ outLen' = outLen - 1
        /\ outClosed => outClosed'
        /\ ~inputOpen => ~inputOpen' /\ jobs' = jobs
    BY <1>10 DEF Session, SendJob, Cancel, CloseInput, ReadResult, CloseOut, Configure,
       sessionVars
  <2> QED BY <1>0, <2>1, <2>2 DEF Unblocked
<1> QED BY <1>2, <1>3, <1>4, <1>5, <1>6, <1>7, <1>8, <1>9, <1>10, <1>11, <1>12
        DEF Next, RouterStep, Finished

-----------------------------------------------------------------------------
(* What is fixed for a job *)

(* No outcome is fixed while a job is with the session, queued or with an  *)
(* engine that has not answered; an answer in flight carries the outcome   *)
(* that was fixed; a job that was answered has one.                        *)
OutcomeInv ==
  /\ \A j \in Jobs : j \notin sent \/ j \in Hand["channel"] \/ j \in Hand["queue"]
                       => outcome[j] = None
  /\ \A e \in Engines : \A r \in Elems(outbox[e]) : outcome[r.job] = r.outcome
  /\ receiver => \A e \in Engines : \A j \in active[e] \ Elems(JobsOf(outbox[e])) :
                   outcome[j] = None
  /\ \A j \in Hand["session"] : outcome[j] # None

(* What an engine is reserved for is sent, with that engine alone, and     *)
(* what it has answered or holds is reserved.                              *)
LEMMA Reserved ==
  ASSUME JobsInv, NEW e \in Engines, NEW j \in active[e]
  PROVE  /\ j \in Jobs /\ j \in sent /\ j \notin Hand["channel"] /\ j \notin Hand["queue"]
         /\ j \notin Hand["session"]
         /\ \A d \in Engines \ {e} : j \notin active[d]
<1>1. j \in Hand[e] /\ e \in Places
  BY Hands
<1>2. /\ {"channel", "queue", "session"} \subseteq Places
      /\ e \notin {"channel", "queue", "session"}
      /\ \A d \in Engines : d \in Places /\ Hand[d] = active[d]
  BY Hands DEF Places, Engines
<1> QED BY <1>1, <1>2 DEF JobsInv, HandsInv, Kept, TypeOK

LEMMA Inside ==
  ASSUME JobsInv, NEW e \in Engines
  PROVE  /\ held[e] \subseteq active[e] \ Elems(JobsOf(outbox[e]))
         /\ Elems(JobsOf(outbox[e])) \subseteq active[e]
         /\ \A r \in Elems(outbox[e]) : r \in Results /\ r.job \in Elems(JobsOf(outbox[e]))
<1>1. Room(inbox[e], held[e], JobsOf(outbox[e]), active[e])
  BY DEF JobsInv, RoomInv, EngineOk
<1>2. outbox[e] \in Seq(Results)
  BY DEF JobsInv, TypeOK
<1>3. \A r \in Elems(outbox[e]) : r \in Results
  BY <1>2 DEF Elems
<1> QED BY <1>1, <1>3, OkTypes, ZenonT(30) DEF Room, JobsInv

(* A step that fixes nothing.                                              *)
LEMMA OutcomeLeft ==
  ASSUME OutcomeInv, outcome' = outcome, receiver' => receiver,
         \A j \in Jobs : j \notin sent' \/ j \in Hand'["channel"] \/ j \in Hand'["queue"]
           => j \notin sent \/ j \in Hand["channel"] \/ j \in Hand["queue"],
         \A e \in Engines : Elems(outbox'[e]) \subseteq Elems(outbox[e]),
         receiver' => \A e \in Engines : \A j \in active'[e] \ Elems(JobsOf(outbox'[e])) :
                        \/ outcome[j] = None
                        \/ j \in active[e] /\ j \notin Elems(JobsOf(outbox[e])),
         Hand'["session"] \subseteq Hand["session"]
  PROVE  OutcomeInv'
<1>1. \A j \in Jobs : j \notin sent' \/ j \in Hand'["channel"] \/ j \in Hand'["queue"]
        => outcome'[j] = None
  BY DEF OutcomeInv
<1>2. \A e \in Engines : \A r \in Elems(outbox'[e]) : outcome'[r.job] = r.outcome
  BY DEF OutcomeInv
<1>3. receiver' => \A e \in Engines : \A j \in active'[e] \ Elems(JobsOf(outbox'[e])) :
                     outcome'[j] = None
  BY DEF OutcomeInv
<1>4. \A j \in Hand'["session"] : outcome'[j] # None
  BY DEF OutcomeInv
<1> QED BY <1>1, <1>2, <1>3, <1>4 DEF OutcomeInv

(* The outcome of a job that leaves its place to be answered.              *)
LEMMA OutcomeForwarded ==
  ASSUME JobsInv, OutcomeInv, NEW j \in sent, NEW o \in Outcomes, NEW label,
         Forward(j, o, label), UNCHANGED <<sent, jobs, receiver>>,
         Hand'["queue"] \subseteq Hand["queue"] \ {j}, j \notin Hand["channel"],
         \A e \in Engines : \A r \in Elems(outbox'[e]) : r \in Elems(outbox[e]) /\ r.job # j,
         \A e \in Engines : active'[e] \subseteq active[e] \ {j},
         \A e \in Engines : \A k \in active'[e] \ Elems(JobsOf(outbox'[e])) :
           k \notin Elems(JobsOf(outbox[e]))
  PROVE  OutcomeInv'
<1>0. /\ o # None /\ outcome \in [Jobs -> Outcomes \union {None}] /\ j \in Jobs
      /\ replies \in [Jobs -> Seq(Outcomes)]
      /\ Hand'["channel"] = Hand["channel"]
      /\ \A e \in Engines : active[e] \subseteq Jobs /\ active'[e] \subseteq Jobs
      /\ \A e \in Engines : \A r \in Elems(outbox[e]) : r.job \in Jobs
  <2>1. /\ o # None /\ outcome \in [Jobs -> Outcomes \union {None}] /\ j \in Jobs
        /\ replies \in [Jobs -> Seq(Outcomes)]
    BY Constants DEF JobsInv, TypeOK
  <2>2. \A e \in Engines : active[e] \subseteq Jobs
    BY DEF JobsInv, TypeOK
  <2>3. \A e \in Engines : \A r \in Elems(outbox[e]) : r.job \in Jobs
    BY Inside, Constants
  <2> QED BY <2>1, <2>2, <2>3, HandsSame
<1>1. CASE outClosed
  <2>1. outcome' = outcome /\ Hand'["session"] = Hand["session"]
    BY <1>1, HandsSame DEF Forward
  <2> QED BY <1>0, <2>1, OutcomeLeft
<1>2. CASE ~outClosed
  <2>1. /\ outcome'[j] = o /\ \A k \in Jobs \ {j} : outcome'[k] = outcome[k]
        /\ \A k \in Jobs \ {j} : replies'[k] = replies[k]
    BY <1>0, <1>2 DEF Forward, Reply
  <2>2. \A k \in Jobs : k \notin sent' \/ k \in Hand'["channel"] \/ k \in Hand'["queue"]
          => outcome'[k] = None
    BY <1>0, <2>1 DEF OutcomeInv
  <2>3. \A e \in Engines : \A r \in Elems(outbox'[e]) : outcome'[r.job] = r.outcome
    BY <1>0, <2>1 DEF OutcomeInv
  <2>4. receiver' => \A e \in Engines : \A k \in active'[e] \ Elems(JobsOf(outbox'[e])) :
                       outcome'[k] = None
    BY <1>0, <2>1 DEF OutcomeInv
  <2>5. \A k \in Hand'["session"] : outcome'[k] # None
    BY <1>0, <2>1, Hands, HandsAfter DEF OutcomeInv
  <2> QED BY <2>2, <2>3, <2>4, <2>5 DEF OutcomeInv
<1> QED BY <1>1, <1>2

(* Answers are forwarded with the outcome they carry.                      *)
LEMMA CollectOutcome ==
  ASSUME JobsInv, EndInv, OutcomeInv, Collect \/ CollectEnded
  PROVE  /\ OutcomeInv'
         /\ \/ outcome' = outcome
            \/ \E j \in sent : outcome[j] = None /\ outcome' = [outcome EXCEPT ![j] = "failed"]
<1>1. PICK t \in Engines : t = turn
  BY DEF JobsInv, TypeOK
<1>2. /\ UNCHANGED <<sent, jobs, receiver, pending>> /\ receiver
      /\ active \in [Engines -> SUBSET Jobs] /\ outbox \in [Engines -> Seq(Results)]
      /\ outcome \in [Jobs -> Outcomes \union {None}]
      /\ Hand'["queue"] = Hand["queue"]
  BY HandsSame DEF Collect, CollectEnded, Runs, sessionVars, JobsInv, TypeOK, EndInv
<1>3. CASE Collect
  <2>1. PICK r : r = Head(outbox[t])
    OBVIOUS
  <2>2. /\ outbox[t] # <<>> /\ outbox' = [outbox EXCEPT ![t] = Tail(outbox[t])]
        /\ active' = [active EXCEPT ![t] = active[t] \ {r.job}]
        /\ r.job \in active[t] => \E label : Forward(r.job, r.outcome, label)
    BY <1>1, <1>3, <2>1 DEF Collect
  <2>3. /\ r \in Elems(outbox[t]) /\ r.job \in Elems(JobsOf(outbox[t])) /\ r.job \in active[t]
        /\ r \in Results /\ r.outcome \in Outcomes
        /\ Elems(outbox[t]) = Elems(Tail(outbox[t])) \union {r}
    <3>1. /\ Elems(outbox[t]) = Elems(Tail(outbox[t])) \union {Head(outbox[t])}
          /\ Head(outbox[t]) \in Elems(outbox[t])
      BY <1>2, <2>2, Tailed
    <3> QED BY <1>1, <2>1, <3>1, Inside, Constants
  <2>4. /\ r.job \notin Elems(JobsOf(Tail(outbox[t])))
        /\ Elems(JobsOf(outbox[t])) = Elems(JobsOf(Tail(outbox[t]))) \union {r.job}
        /\ \A x \in Elems(Tail(outbox[t])) : x.job \in Elems(JobsOf(Tail(outbox[t])))
    <3>1. /\ \A x \in Results : x.job \in Jobs
          /\ outbox[t] \in Seq(Results) /\ Tail(outbox[t]) \in Seq(Results)
      BY <1>2, <2>2, Constants
    <3>2. \A s \in Seq(Results) : Elems(JobsOf(s)) = {x.job : x \in Elems(s)}
      BY <3>1, JobsSeq
    <3>3. JobsOf(Tail(outbox[t])) = Tail(JobsOf(outbox[t])) /\ Head(JobsOf(outbox[t])) = r.job
      BY <2>1, <2>2, <3>1, JobsTailed
    <3>4. /\ JobsOf(outbox[t]) \in Seq(Jobs) /\ JobsOf(outbox[t]) # <<>>
          /\ Once(JobsOf(outbox[t]))
      BY <1>1, <2>2, OkTypes DEF JobsInv, RoomInv, EngineOk, Room
    <3>5. /\ Head(JobsOf(outbox[t])) \notin Elems(Tail(JobsOf(outbox[t])))
          /\ Elems(JobsOf(outbox[t])) = Elems(Tail(JobsOf(outbox[t])))
                                          \union {Head(JobsOf(outbox[t]))}
      BY <3>4, Tailed
    <3> QED BY <3>1, <3>2, <3>3, <3>5, ZenonT(30)
  <2>5. PICK label : Forward(r.job, r.outcome, label)
    BY <2>2, <2>3
  <2>6. \A e \in Engines : \A x \in Elems(outbox'[e]) : x \in Elems(outbox[e]) /\ x.job # r.job
    <3>1. ASSUME NEW e \in Engines, NEW x \in Elems(outbox'[e])
          PROVE  x \in Elems(outbox[e]) /\ x.job # r.job
      <4>1. CASE e = t
        BY <1>2, <2>2, <2>3, <2>4, <3>1, <4>1
      <4>2. CASE e # t
        <5>1. x \in Elems(outbox[e]) /\ x.job \in active[e]
          BY <1>2, <2>2, <3>1, <4>2, Inside
        <5> QED BY <2>3, <4>2, <5>1, Reserved
      <4> QED BY <4>1, <4>2
    <3> QED BY <3>1
  <2>7. \A e \in Engines : active'[e] \subseteq active[e] \ {r.job}
    <3>1. \A e \in Engines \ {t} : r.job \notin active[e]
      BY <2>3, Reserved
    <3> QED BY <1>2, <2>2, <3>1
  <2>8. \A e \in Engines : \A k \in active'[e] \ Elems(JobsOf(outbox'[e])) :
           k \notin Elems(JobsOf(outbox[e]))
    BY <1>2, <2>2, <2>4, <2>7
  <2>9. r.job \in sent /\ r.job \notin Hand["channel"] /\ r.job \notin Hand["queue"]
        /\ r.job \in Jobs
    BY <2>3, Reserved
  <2>10. OutcomeInv'
    BY <1>2, <2>3, <2>5, <2>6, <2>7, <2>8, <2>9, OutcomeForwarded
  <2>11. outcome' = outcome
    <3>1. outcome[r.job] = r.outcome
      BY <2>3 DEF OutcomeInv
    <3>2. outcome' = outcome \/ outcome' = [outcome EXCEPT ![r.job] = r.outcome]
      BY <2>5 DEF Forward, Reply
    <3> QED BY <1>2, <2>9, <3>1, <3>2
  <2> QED BY <2>10, <2>11
<1>4. CASE CollectEnded
  <2>1. outbox' = outbox /\ outbox[t] = <<>>
    BY <1>1, <1>4 DEF CollectEnded, engineVars
  <2>2. CASE UNCHANGED <<active, outcome, replies>>
    BY <1>2, <2>1, <2>2, OutcomeLeft, HandsSame
  <2>3. ASSUME NEW j \in active[t], Forward(j, "failed", "collect"),
               active' = [active EXCEPT ![t] = active[t] \ {j}]
        PROVE  /\ OutcomeInv'
               /\ \/ outcome' = outcome
                  \/ outcome[j] = None /\ outcome' = [outcome EXCEPT ![j] = "failed"]
    <3>1. Elems(JobsOf(outbox[t])) = {}
      BY <2>1 DEF Elems, JobsOf
    <3>2. /\ j \in sent /\ j \notin Hand["channel"] /\ j \notin Hand["queue"] /\ j \in Jobs
          /\ \A e \in Engines \ {t} : j \notin active[e]
      BY <2>3, Reserved
    <3>3. \A e \in Engines : \A x \in Elems(outbox[e]) : x.job \in Elems(JobsOf(outbox[e]))
                                                         /\ x.job \in active[e]
      BY Inside
    <3>4. \A e \in Engines : \A x \in Elems(outbox'[e]) : x \in Elems(outbox[e]) /\ x.job # j
      BY <2>1, <3>1, <3>2, <3>3
    <3>5. \A e \in Engines : active'[e] \subseteq active[e] \ {j}
      BY <1>2, <2>3, <3>2
    <3>6. OutcomeInv'
      BY <1>2, <2>1, <2>3, <3>2, <3>4, <3>5, OutcomeForwarded, SMTT(30) DEF Outcomes
    <3>7. outcome[j] = None
      BY <1>2, <3>1 DEF OutcomeInv
    <3>8. outcome' = outcome \/ outcome' = [outcome EXCEPT ![j] = "failed"]
      BY <2>3 DEF Forward, Reply
    <3> QED BY <3>6, <3>7, <3>8
  <2>4. \A j \in active[t] : j \in sent
    BY Reserved
  <2> QED BY <1>1, <1>4, <2>2, <2>3, <2>4 DEF CollectEnded
<1> QED BY <1>3, <1>4

(* The pass over the queue fixes outcomes of queued jobs only.             *)
LEMMA ScanOutcome ==
  ASSUME JobsInv, EndInv, OutcomeInv, ScanCancelled \/ ScanAssign \/ ScanRefuse \/ ScanWait
  PROVE  /\ OutcomeInv'
         /\ \/ outcome' = outcome
            \/ \E j \in sent, o \in {"cancelled", "failed"} :
                 /\ outcome[j] = None /\ outcome' = [outcome EXCEPT ![j] = o]
                 /\ o = "cancelled" => j \in cancelled
<1>0. /\ Looking /\ UNCHANGED <<sent, jobs, receiver, outbox>> /\ JobsInv'
      /\ active \in [Engines -> SUBSET Jobs]
      /\ "queue" \in Places
  <2>1. JobsInv'
    BY NextTypes, NextHands, NextRoom DEF JobsInv, Next, RouterStep
  <2> QED BY <2>1 DEF ScanCancelled, ScanAssign, ScanRefuse, ScanWait, Looking, sessionVars,
          engineVars, JobsInv, TypeOK, Places
<1>1. PICK j : j = Head(pending).job
  OBVIOUS
<1>2. /\ j \in Hand["queue"] /\ j \in Jobs /\ j \in sent
      /\ Elems(JobsOf(Tail(pending))) = Hand["queue"] \ {j}
  <2>1. /\ j \in Hand["queue"] /\ j \in Jobs
        /\ Elems(JobsOf(Tail(pending))) = Hand["queue"] \ {j}
    BY <1>0, <1>1, QueueTailed, HandsSame DEF JobsInv
  <2> QED BY <1>0, <2>1 DEF JobsInv, HandsInv, Kept
<1>3. Hand'["queue"] = Elems(JobsOf(pending'))
  BY <1>0, QueuedJobs, HandsSame DEF JobsInv
<1>4. outcome[j] = None
  BY <1>2 DEF OutcomeInv
<1>5. \A e \in Engines : j \notin active[e]
  BY <1>2, Reserved
<1>6. CASE ScanCancelled \/ ScanRefuse
  <2>1. PICK o \in {"cancelled", "failed"} :
          Forward(j, o, "scan") /\ (o = "cancelled" => j \in cancelled)
    BY <1>1, <1>6 DEF ScanCancelled, ScanRefuse, Wanted
  <2>2. pending' = Tail(pending) /\ active' = active
    BY <1>6 DEF ScanCancelled, ScanRefuse
  <2>3. j \notin Hand["channel"]
    <3>1. "channel" \in Places
      BY DEF Places
    <3> QED BY <1>0, <1>2, <3>1 DEF JobsInv, HandsInv, Kept
  <2>4. \A e \in Engines : \A r \in Elems(outbox[e]) : r.job # j
    BY <1>5, Inside
  <2>5. OutcomeInv'
    BY <1>0, <1>2, <1>3, <1>5, <2>1, <2>2, <2>3, <2>4, OutcomeForwarded DEF Outcomes
  <2>6. outcome' = outcome \/ outcome' = [outcome EXCEPT ![j] = o]
    BY <2>1 DEF Forward, Reply
  <2> QED BY <1>2, <1>4, <2>1, <2>5, <2>6
<1>7. ASSUME Requeue, UNCHANGED <<active, outcome, replies>> PROVE OutcomeInv'
  <2>1. Hand'["queue"] = Hand["queue"]
    BY <1>0, <1>3, <1>7, QueueRequeued, HandsSame DEF JobsInv
  <2> QED BY <1>0, <1>7, <2>1, OutcomeLeft, HandsSame
<1>8. CASE ScanWait
  BY <1>7, <1>8 DEF ScanWait, answerVars
<1>9. CASE ScanAssign
  <2>1. PICK e : e = Choose(Ready(Head(pending).fit))
    OBVIOUS
  <2>2. /\ Ready(Head(pending).fit) # {} /\ UNCHANGED <<outcome, replies>>
        /\ \/ active' = [active EXCEPT ![e] = active[e] \union {j}] /\ pending' = Tail(pending)
           \/ Requeue /\ active' = active
    BY <1>1, <1>9, <2>1 DEF ScanAssign, answerVars
  <2>3. CASE active' = [active EXCEPT ![e] = active[e] \union {j}] /\ pending' = Tail(pending)
    <3>1. \A d \in Engines : active'[d] \subseteq active[d] \union {j}
      BY <1>0, <2>3
    <3> QED BY <1>0, <1>2, <1>3, <1>4, <2>2, <2>3, <3>1, OutcomeLeft, HandsSame
  <2> QED BY <1>7, <2>2, <2>3
<1> QED BY <1>6, <1>8, <1>9

(* An engine fixes the outcome of a job it holds.                          *)
LEMMA AnswerOutcome ==
  ASSUME JobsInv, EndInv, OutcomeInv, NEW e \in Engines, EngineAnswers(e)
  PROVE  /\ OutcomeInv'
         /\ \E j \in sent, o \in Outcomes :
              /\ outcome[j] = None /\ outcome' = [outcome EXCEPT ![j] = o]
              /\ o = "reads" => j \notin cancelled
              /\ o = "cancelled" => j \in cancelled \/ outClosed
<1>1. PICK j \in held[e], o \in Outcomes, fatal \in BOOLEAN :
        /\ o = "reads" => j \notin cancelled
        /\ o = "cancelled" => j \in cancelled \/ stop
        /\ outbox' = [outbox EXCEPT ![e] =
                        Append(outbox[e], [job |-> j, outcome |-> o, fatal |-> fatal])]
        /\ outcome' = [outcome EXCEPT ![j] = o]
  BY DEF EngineAnswers
<1>2. /\ UNCHANGED <<sent, jobs, pending, active, replies, receiver>> /\ receiver
      /\ outbox \in [Engines -> Seq(Results)]
      /\ outcome \in [Jobs -> Outcomes \union {None}]
      /\ o # None
  BY Constants DEF EngineAnswers, Others, sessionVars, routeVars, JobsInv, TypeOK
<1>3. /\ j \in active[e] /\ j \notin Elems(JobsOf(outbox[e]))
      /\ j \in Jobs /\ j \in sent /\ j \notin Hand["channel"] /\ j \notin Hand["queue"]
      /\ \A d \in Engines \ {e} : j \notin active[d]
  <2>1. j \in active[e] /\ j \notin Elems(JobsOf(outbox[e]))
    BY Inside
  <2> QED BY <2>1, Reserved
<1>4. PICK r \in Results : r = [job |-> j, outcome |-> o, fatal |-> fatal]
                           /\ r.job = j /\ r.outcome = o
  <2>1. [job |-> j, outcome |-> o, fatal |-> fatal] \in Results
    BY <1>3 DEF Results
  <2> QED BY <2>1
<1>5. /\ Elems(outbox'[e]) = Elems(outbox[e]) \union {r}
      /\ Elems(JobsOf(outbox'[e])) = Elems(JobsOf(outbox[e])) \union {j}
      /\ \A d \in Engines \ {e} : outbox'[d] = outbox[d]
  <2>1. /\ outbox'[e] = Append(outbox[e], r) /\ outbox[e] \in Seq(Results)
        /\ \A d \in Engines \ {e} : outbox'[d] = outbox[d]
    BY <1>1, <1>2, <1>4
  <2>2. JobsOf(Append(outbox[e], r)) = Append(JobsOf(outbox[e]), j)
    <3>1. \A x \in Results : x.job \in Jobs
      BY Constants
    <3> QED BY <1>4, <2>1, <3>1, JobsAppended
  <2>3. JobsOf(outbox[e]) \in Seq(Jobs)
    BY OkTypes DEF JobsInv
  <2> QED BY <1>3, <2>1, <2>2, <2>3, Appended
<1>6. outcome[j] = None
  BY <1>2, <1>3 DEF OutcomeInv
<1>7. outcome'[j] = o /\ \A k \in Jobs \ {j} : outcome'[k] = outcome[k]
  BY <1>1, <1>2, <1>3
<1>8. OutcomeInv'
  <2>0. \A c \in {"channel", "queue", "session"} : Hand'[c] = Hand[c]
    BY <1>2, HandsSame
  <2>1. \A k \in Jobs : k \notin sent' \/ k \in Hand'["channel"] \/ k \in Hand'["queue"]
          => outcome'[k] = None
    BY <1>2, <1>3, <1>7, <2>0 DEF OutcomeInv
  <2>2. \A d \in Engines : \A x \in Elems(outbox'[d]) : outcome'[x.job] = x.outcome
    <3>1. ASSUME NEW d \in Engines, NEW x \in Elems(outbox[d])
          PROVE  outcome'[x.job] = x.outcome
      <4>1. x.job \in Elems(JobsOf(outbox[d])) /\ x.job \in active[d] /\ x.job \in Jobs
        BY Inside, Constants
      <4>2. x.job # j
        BY <1>3, <4>1
      <4> QED BY <1>7, <4>1, <4>2 DEF OutcomeInv
    <3> QED BY <1>4, <1>5, <1>7, <3>1
  <2>3. receiver' => \A d \in Engines : \A k \in active'[d] \ Elems(JobsOf(outbox'[d])) :
                       outcome'[k] = None
    <3>1. \A d \in Engines : \A k \in active[d] : k \in Jobs
      BY Reserved
    <3> QED BY <1>2, <1>3, <1>5, <1>7, <3>1 DEF OutcomeInv
  <2>4. \A k \in Hand'["session"] : outcome'[k] # None
    <3>1. \A k \in Hand["session"] : k \in Jobs
      BY Hands
    <3> QED BY <1>2, <1>7, <2>0, <3>1 DEF OutcomeInv
  <2> QED BY <2>1, <2>2, <2>3, <2>4 DEF OutcomeInv
<1>9. stop => outClosed
  BY <1>2, <1>3 DEF EndInv, Stopped
<1> QED BY <1>1, <1>3, <1>6, <1>8, <1>9

(* The other steps fix nothing.                                            *)
OtherStep ==
  \/ Top \/ CollectedAll \/ Take \/ PickUp \/ ReadSettings \/ ScanDone
  \/ BlockedSendFails \/ Stopping \/ Joined
  \/ LookForSeed \/ NoSeed \/ EngineCloses("metal")
  \/ \E e \in Engines : EngineTakes(e) \/ EngineEnds(e) \/ EngineDrained(e) \/ EngineBreaks(e)
  \/ Session \/ UNCHANGED vars

LEMMA OtherOutcome ==
  ASSUME JobsInv, JobsInv', OutcomeInv, OtherStep
  PROVE  OutcomeInv' /\ outcome' = outcome
<1>0. UNCHANGED <<active, outcome, replies>>
  BY DEF OtherStep, Top, CollectedAll, Take, PickUp, ReadSettings, ScanDone, BlockedSendFails,
     Stopping, Joined,
     LookForSeed, NoSeed, EngineTakes, EngineEnds, EngineCloses, EngineDrained, EngineBreaks,
     Others, Session, SendJob, Cancel, CloseInput, ReadResult, CloseOut, Configure, SessionOnly,
     vars, routeVars, answerVars
<1>1. CASE Stopping
  <2>1. /\ receiver' = FALSE /\ UNCHANGED <<sent, jobs, pending>>
        /\ \A e \in Engines : Elems(outbox'[e]) = {}
    BY <1>1 DEF Stopping, sessionVars, Elems
  <2> QED BY <1>0, <2>1, OutcomeLeft, HandsSame
<1>2. CASE Take
  <2>1. UNCHANGED <<sent, outbox, receiver>> /\ sent \subseteq Jobs
    BY <1>2 DEF Take, engineVars, JobsInv, TypeOK
  <2>2. \A j \in Jobs : j \in Hand'["channel"] \/ j \in Hand'["queue"]
          => j \in Hand["channel"] \/ j \in Hand["queue"]
    <3>1. CASE UNCHANGED <<pending, jobs>>
      BY <3>1, HandsSame
    <3>2. CASE /\ jobs # <<>> /\ jobs' = Tail(jobs)
               /\ pending' = Append(pending, Unread(Head(jobs)))
      <4>1. jobs \in Seq(Jobs) /\ pending \in Seq(Entries)
        BY DEF JobsInv, TypeOK
      <4>2. Elems(jobs) = Elems(Tail(jobs)) \union {Head(jobs)} /\ Head(jobs) \in Jobs
        BY <3>2, <4>1, Tailed
      <4>3. PICK x \in Entries : x = Unread(Head(jobs)) /\ x.job = Head(jobs)
        <5>1. Unread(Head(jobs)) \in Entries /\ Unread(Head(jobs)).job = Head(jobs)
          BY <4>2 DEF Entries, Unread
        <5> QED BY <5>1
      <4>4. Elems(pending') = Elems(pending) \union {x}
        BY <3>2, <4>1, <4>3, Appended
      <4>5. Queued' = Queued \union {Head(jobs)}
        BY <4>3, <4>4 DEF Queued
      <4> QED BY <3>2, <4>2, <4>5, Hands, HandsAfter
    <3> QED BY <1>2, <3>1, <3>2 DEF Take
  <2> QED BY <1>0, <2>1, <2>2, OutcomeLeft, HandsSame
<1>3. ASSUME NEW j \in Jobs, SendJob(j) PROVE OutcomeInv'
  <2>1. /\ jobs' = Append(jobs, j) /\ j \notin sent /\ sent' = sent \union {j}
        /\ UNCHANGED <<pending, outbox, receiver>> /\ jobs \in Seq(Jobs)
    BY <1>3 DEF SendJob, SessionOnly, routeVars, engineVars, JobsInv, TypeOK
  <2>2. Hand'["channel"] = Hand["channel"] \union {j}
    BY <2>1, Appended, Hands, HandsAfter
  <2> QED BY <1>0, <2>1, <2>2, OutcomeLeft, HandsSame
<1>4. ASSUME UNCHANGED <<sent, jobs, pending, outbox, receiver>> PROVE OutcomeInv'
  BY <1>0, <1>4, OutcomeLeft, HandsSame
<1>5. CASE ReadSettings
  <2>1. UNCHANGED <<sent, jobs, outbox, receiver>> /\ JobsOf(pending') = JobsOf(pending)
    BY <1>5, Types, ReadFirst DEF ReadSettings, sessionVars, engineVars, JobsInv
  <2>2. Hand'["queue"] = Hand["queue"]
    BY <2>1, QueuedJobs, HandsSame DEF JobsInv
  <2> QED BY <1>0, <2>1, <2>2, OutcomeLeft, HandsSame
<1>6. CASE ~(Stopping \/ Take \/ ReadSettings \/ \E j \in Jobs : SendJob(j))
  <2>1. UNCHANGED <<sent, jobs, pending, outbox, receiver>>
    BY <1>6 DEF OtherStep, Top, CollectedAll, PickUp, ScanDone, BlockedSendFails, Joined,
       LookForSeed, NoSeed, EngineTakes, EngineEnds, EngineCloses, EngineDrained, EngineBreaks,
       Others, Session, Cancel, CloseInput, ReadResult, CloseOut, Configure, SessionOnly,
       vars, routeVars, engineVars, sessionVars
  <2> QED BY <1>0, <1>4, <2>1
<1>7. CASE \E j \in Jobs : SendJob(j)
  BY <1>0, <1>3, <1>7
<1> QED BY <1>1, <1>2, <1>5, <1>6, <1>7

(* A step forwards an answer, decides a queued job, fixes an outcome in an *)
(* engine, or none of these.                                               *)
LEMMA StepKinds ==
  ASSUME [Next]_vars
  PROVE  \/ Collect \/ CollectEnded
         \/ ScanCancelled \/ ScanAssign \/ ScanRefuse \/ ScanWait
         \/ (\E e \in Engines : EngineAnswers(e))
         \/ OtherStep
BY Constants DEF Next, RouterStep, MetalStep, AneStep, OtherStep, Finished

(* The inductive invariant of the answers.                                 *)
AnswersInv == JobsInv /\ EndInv /\ OutcomeInv

LEMMA NextJobs == JobsInv /\ [Next]_vars => JobsInv'
BY NextTypes, NextHands, NextRoom DEF JobsInv

LEMMA AnswersInvariant == Spec => []AnswersInv
<1>1. Init => AnswersInv
  <2> SUFFICES ASSUME Init PROVE AnswersInv
    OBVIOUS
  <2>1. JobsInv
    BY InitTypes, InitHands DEF JobsInv
  <2>2. EndInv
    <3>1. outLen = 0 /\ OutCap \in Nat
      BY Constants DEF Init
    <3> QED BY <3>1 DEF Init, EndInv, Stopped, Unblocked
  <2>3. OutcomeInv
    <3>1. /\ \A j \in Jobs : outcome[j] = None /\ replies[j] = <<>>
          /\ \A e \in Engines : outbox[e] = <<>> /\ active[e] = {}
      BY DEF Init
    <3>2. Hand["session"] = {} /\ Elems(<<>>) = {}
      BY <3>1, Hands DEF Elems
    <3> QED BY <3>1, <3>2 DEF OutcomeInv
  <2> QED BY <2>1, <2>2, <2>3 DEF AnswersInv
<1>2. AnswersInv /\ [Next]_vars => AnswersInv'
  <2> SUFFICES ASSUME AnswersInv, [Next]_vars PROVE AnswersInv'
    OBVIOUS
  <2>1. JobsInv' /\ EndInv'
    BY NextJobs, NextEnd DEF AnswersInv
  <2>2. OutcomeInv'
    <3>1. CASE OtherStep
      BY <2>1, <3>1, OtherOutcome DEF AnswersInv
    <3>2. CASE \E e \in Engines : EngineAnswers(e)
      BY <3>2, AnswerOutcome DEF AnswersInv
    <3>3. CASE Collect \/ CollectEnded
      BY <3>3, CollectOutcome DEF AnswersInv
    <3>4. CASE ScanCancelled \/ ScanAssign \/ ScanRefuse \/ ScanWait
      BY <3>4, ScanOutcome DEF AnswersInv
    <3> QED BY <3>1, <3>2, <3>3, <3>4, StepKinds
  <2> QED BY <2>1, <2>2 DEF AnswersInv
<1> QED BY <1>1, <1>2, PTL DEF Spec

-----------------------------------------------------------------------------
(* The promise to the session *)

(* Fixing an outcome that the contract permits is its Respond.             *)
LEMMA FixingResponds ==
  ASSUME JobsInv, NEW j \in sent, NEW o \in Outcomes, outcome[j] = None,
         outcome' = [outcome EXCEPT ![j] = o], o = "reads" => j \notin cancelled,
         o = "cancelled" => j \in cancelled \/ outClosed,
         UNCHANGED <<sent, cancelled, outClosed>>, pc # "done", pc' # "done"
  PROVE  Contract!Next
<1> DEFINE answerOf == [k \in Jobs |-> IF outcome[k] = None THEN <<>> ELSE <<outcome[k]>>]
<1>1. /\ j \in Jobs /\ outcome \in [Jobs -> Outcomes \union {None}] /\ None \notin Outcomes
      /\ Contract!Units = Jobs
  BY DEF JobsInv, TypeOK, Contract!Units
<1>2. \A k \in Jobs : outcome'[k] = IF k = j THEN o ELSE outcome[k]
  BY <1>1
<1>3. answerOf' = [k \in Jobs |-> IF k \in {j} THEN <<o>> ELSE answerOf[k]]
  BY <1>1, <1>2
<1>4. answerOf[j] = <<>>
  BY <1>1
<1>5. Contract!Respond({j}, o)
  BY <1>1, <1>3, <1>4 DEF Contract!Respond, Outcomes
<1>6. {j} \in SUBSET Contract!Units /\ o \in Contract!Outcomes
  BY <1>1 DEF Outcomes, Contract!Outcomes
<1> QED BY <1>5, <1>6 DEF Contract!Next

(* A step the contract does not see.                                       *)
LEMMA Unseen ==
  ASSUME UNCHANGED <<sent, outcome, cancelled, outClosed>>, (pc = "done") <=> (pc' = "done")
  PROVE  UNCHANGED Contract!vars
<1>1. (pc = "done")' = (pc = "done")
  OBVIOUS
<1> QED BY <1>1 DEF Contract!vars

(* The threads are joined when every job the session sent is answered, or  *)
(* nobody reads.                                                           *)
LEMMA JoinedEnds ==
  ASSUME AnswersInv, Joined
  PROVE  Contract!Next
<1>1. /\ UNCHANGED <<sent, outcome, cancelled, outClosed>> /\ pc' = "done" /\ pc = "joining"
  BY DEF Joined, sessionVars, answerVars
<1>2. ASSUME ~outClosed, NEW j \in sent PROVE outcome[j] # None
  <2>1. /\ jobs = <<>> /\ pending = <<>> /\ \A e \in Engines : active[e] = {}
    BY <1>1, <1>2 DEF AnswersInv, EndInv, Stopped
  <2>2. Hand["channel"] = {} /\ Hand["queue"] = {} /\ \A e \in Engines : Hand[e] = {}
    BY <2>1, Hands DEF Elems, Queued
  <2>3. PICK c \in Places : j \in Hand[c]
    BY <1>2 DEF AnswersInv, JobsInv, HandsInv, Kept
  <2>4. c = "session"
    BY <2>2, <2>3 DEF Places, Engines
  <2> QED BY <2>3, <2>4 DEF AnswersInv, OutcomeInv
<1>3. Contract!End
  <2>1. (pc = "done")' = TRUE
    BY <1>1
  <2>2. outClosed \/ \A j \in sent \intersect Jobs :
          [k \in Jobs |-> IF outcome[k] = None THEN <<>> ELSE <<outcome[k]>>][j] # <<>>
    <3>1. \A o : <<o>> # <<>>
      OBVIOUS
    <3> QED BY <1>2, <3>1
  <2> QED BY <1>1, <2>1, <2>2 DEF Contract!End
<1> QED BY <1>3 DEF Contract!Next

(* What the session does is what a caller of a stream may do.              *)
LEMMA SessionPromises ==
  ASSUME JobsInv, Session
  PROVE  Contract!Next \/ UNCHANGED Contract!vars
<1>0. pc' = pc /\ outcome' = outcome /\ Contract!Units = Jobs
  BY DEF Session, SendJob, Cancel, CloseInput, ReadResult, CloseOut, Configure, SessionOnly,
     loopVars, Contract!Units
<1>1. ASSUME NEW j \in Jobs, SendJob(j) PROVE Contract!Next
  <2>1. /\ j \notin sent /\ sent' = sent \union {j} /\ pc # "done"
        /\ UNCHANGED <<cancelled, outClosed>>
    BY <1>1 DEF SendJob
  <2>2. Contract!Accept(j)
    BY <1>0, <2>1 DEF Contract!Accept
  <2> QED BY <1>0, <2>2 DEF Contract!Next
<1>2. ASSUME NEW j \in Jobs, Cancel(j) PROVE Contract!Next
  <2>1. cancelled' = cancelled \union {j} /\ UNCHANGED <<sent, outClosed>>
    BY <1>2 DEF Cancel
  <2>2. Contract!Abandon({j}) /\ {j} \in SUBSET Contract!Units
    BY <1>0, <2>1 DEF Contract!Abandon
  <2> QED BY <2>2 DEF Contract!Next
<1>3. CASE CloseOut
  <2>1. outClosed' = TRUE /\ UNCHANGED <<sent, cancelled>>
    BY <1>3 DEF CloseOut
  <2>2. Contract!Close
    BY <1>0, <2>1 DEF Contract!Close
  <2> QED BY <2>2 DEF Contract!Next
<1>4. CASE CloseInput \/ ReadResult \/ Configure
  <2>1. UNCHANGED <<sent, cancelled, outClosed>>
    BY <1>4 DEF CloseInput, ReadResult, Configure, sessionVars
  <2> QED BY <1>0, <2>1, Unseen
<1> QED BY <1>1, <1>2, <1>3, <1>4 DEF Session

(* Every step of the router and its engines is one the contract allows.    *)
LEMMA NextKeepsPromise ==
  AnswersInv /\ [Next]_vars => [Contract!Next]_(Contract!vars)
<1> SUFFICES ASSUME AnswersInv, [Next]_vars
             PROVE  Contract!Next \/ UNCHANGED Contract!vars
  OBVIOUS
<1>0. JobsInv /\ EndInv /\ OutcomeInv /\ JobsInv'
  BY NextJobs DEF AnswersInv
<1>1. CASE Collect \/ CollectEnded
  <2>1. UNCHANGED <<sent, cancelled, outClosed>> /\ pc # "done" /\ pc' # "done"
    BY <1>1 DEF Collect, CollectEnded, Runs, NextTurn, Forward, sessionVars
  <2>2. CASE outcome' = outcome
    BY <2>1, <2>2, Unseen
  <2>3. CASE \E j \in sent : outcome[j] = None /\ outcome' = [outcome EXCEPT ![j] = "failed"]
    BY <1>0, <2>1, <2>3, FixingResponds DEF Outcomes
  <2> QED BY <1>0, <1>1, <2>2, <2>3, CollectOutcome
<1>2. CASE ScanCancelled \/ ScanAssign \/ ScanRefuse \/ ScanWait
  <2>1. UNCHANGED <<sent, cancelled, outClosed>> /\ pc # "done" /\ pc' # "done"
    BY <1>2 DEF ScanCancelled, ScanAssign, ScanRefuse, ScanWait, Scanning, Runs, Forward,
       sessionVars
  <2>2. CASE outcome' = outcome
    BY <2>1, <2>2, Unseen
  <2>3. CASE \E j \in sent, o \in {"cancelled", "failed"} :
               /\ outcome[j] = None /\ outcome' = [outcome EXCEPT ![j] = o]
               /\ o = "cancelled" => j \in cancelled
    <3>1. PICK j \in sent, o \in {"cancelled", "failed"} :
               /\ outcome[j] = None /\ outcome' = [outcome EXCEPT ![j] = o]
               /\ o = "cancelled" => j \in cancelled
      BY <2>3
    <3>2. o \in Outcomes /\ o # "reads"
      BY DEF Outcomes
    <3> QED BY <1>0, <2>1, <3>1, <3>2, FixingResponds
  <2> QED BY <1>0, <1>2, <2>2, <2>3, ScanOutcome
<1>3. ASSUME NEW e \in Engines, EngineAnswers(e) PROVE Contract!Next
  <2>1. /\ UNCHANGED <<sent, cancelled, outClosed>> /\ pc' = pc /\ pc # "done"
    BY <1>0, <1>3 DEF EngineAnswers, Others, sessionVars, loopVars, EndInv
  <2>2. PICK j \in sent, o \in Outcomes :
          /\ outcome[j] = None /\ outcome' = [outcome EXCEPT ![j] = o]
          /\ o = "reads" => j \notin cancelled
          /\ o = "cancelled" => j \in cancelled \/ outClosed
    BY <1>0, <1>3, AnswerOutcome
  <2> QED BY <1>0, <2>1, <2>2, FixingResponds
<1>4. CASE Joined
  BY <1>4, JoinedEnds
<1>5. CASE Session
  BY <1>0, <1>5, SessionPromises
<1>6. CASE OtherStep /\ ~Joined /\ ~Session
  <2>1. outcome' = outcome
    BY <1>0, <1>6, OtherOutcome
  <2>2. UNCHANGED <<sent, cancelled, outClosed>> /\ ((pc = "done") <=> (pc' = "done"))
    BY <1>0, <1>6 DEF EndInv, OtherStep, Top, CollectedAll, Take, PickUp, ReadSettings,
       ScanDone, BlockedSendFails, Stopping,
       LookForSeed, NoSeed, EngineTakes, EngineEnds, EngineCloses, EngineDrained, EngineBreaks,
       Others, NextTurn, Scanning, Runs, vars, sessionVars, loopVars
  <2> QED BY <2>1, <2>2, Unseen
<1> QED BY <1>1, <1>2, <1>3, <1>4, <1>5, <1>6, StepKinds

LEMMA InitKeepsPromise == Init => Contract!Init
<1> SUFFICES ASSUME Init PROVE Contract!Init
  OBVIOUS
<1>1. sent = {} /\ cancelled = {} /\ outClosed = FALSE /\ (pc = "done") = FALSE
  BY DEF Init
<1>2. [j \in Jobs |-> IF outcome[j] = None THEN <<>> ELSE <<outcome[j]>>]
        = [j \in Contract!Units |-> <<>>]
  BY DEF Init, Contract!Units
<1> QED BY <1>1, <1>2 DEF Contract!Init

(* Through two engines that fail, settings that change and a session that  *)
(* stops reading, the router is a stream as StreamContract promises it     *)
(* (Router::run, behind sample_stream of the combined sampler).            *)
THEOREM RouterIsAStream == Spec => ImplementsContract
<1>1. Init => Contract!Init
  BY InitKeepsPromise
<1>2. AnswersInv /\ [Next]_vars => [Contract!Next]_(Contract!vars)
  BY NextKeepsPromise
<1> QED BY <1>1, <1>2, AnswersInvariant, PTL DEF Spec, ImplementsContract, Contract!Spec
=============================================================================
