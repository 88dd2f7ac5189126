-------------------------- MODULE LeaseFeedProofs --------------------------
(***************************************************************************)
(* Proofs that leases feed the runner in turn and lose no salt, for any    *)
(* number of leases, salts, streams, reseeds and cancellations.            *)
(*                                                                         *)
(* Three invariants carry everything: QueueInv, on the queue of turns and  *)
(* the ids it hands out; ThreadInv, on what a lease's two threads have     *)
(* done when they stand where they stand; SaltInv, on the salts between    *)
(* the feeders and the outcome channels.  RoundInv adds the rounds: until  *)
(* the round a lease needs is counted, a lease that will count it stands   *)
(* ahead of it in the queue.                                               *)
(***************************************************************************)
EXTENDS LeaseFeed, Integers, FiniteSetTheorems, SequenceTheorems, TLAPS

-----------------------------------------------------------------------------
(* The inductive invariant *)

InQueue(l) == \E i \in DOMAIN waiting : waiting[i] = l
Before == {"new", "waiting", "quitting", "leaving"}

(* Turns are in the order of their ids, which are unique; a lease that has *)
(* had its turn joined before all that still queue.                        *)
QueueInv ==
  /\ \A l \in Leases : lease[l] \in {"waiting", "quitting", "leaving"} => InQueue(l)
  /\ \A l \in Leases :
       lease[l] \in {"new", "returned"} \/ feeder[l] = "ended" => ~InQueue(l)
  /\ \A i, j \in DOMAIN waiting : i < j => id[waiting[i]] < id[waiting[j]]
  /\ \A l \in Leases : lease[l] # "new" => id[l] < nextId
  /\ \A l, m \in Leases :
       lease[l] # "new" /\ lease[m] # "new" /\ id[l] = id[m] => l = m
  /\ \A l \in Leases : feeder[l] # "off" =>
       \A j \in DOMAIN waiting : id[l] <= id[waiting[j]]

(* Where the two threads of a lease stand, and what they have done.        *)
Threads(l) ==
  /\ lease[l] \in Before => feeder[l] = "off"
  /\ lease[l] \in {"reporting", "receiving", "joining"} => feeder[l] # "off"
  /\ lease[l] = "returned" => feeder[l] \in {"off", "ended"}
  /\ index[l] = fed[l]
  /\ feeder[l] = "off" => index[l] = 0
  /\ feeder[l] \in {"sending", "counting"} => index[l] < SaltCount[l]
  /\ ~feeding[l] => feeder[l] \in {"dropping", "ended"}
  /\ feeder[l] \in {"ending", "dropping", "ended"} =>
       index[l] = SaltCount[l] \/ stopped[l] \/ stop[l]
  /\ stop[l] => lease[l] \in {"joining", "returned"}
  /\ result[l] # "none" => lease[l] \in {"leaving", "joining", "returned"}
  /\ result[l] = "complete" => reported[l] = SaltCount[l]

ThreadInv == \A l \in Leases : Threads(l)

(* The first index the lease has not sent.                                 *)
NextSalt(l) == index[l] + (IF feeder[l] = "counting" THEN 1 ELSE 0)

(* Salts are sent once, and the runner holds older ones than the channel.  *)
SaltInv ==
  /\ IsFiniteSet(held)
  /\ \A i \in DOMAIN salts : salts[i].index < NextSalt(salts[i].lease)
  /\ \A salt \in held : salt.index < NextSalt(salt.lease)
  /\ \A salt \in held, i \in DOMAIN salts :
       salts[i].lease = salt.lease => salt.index < salts[i].index

LeaseInv == FeedInv /\ QueueInv /\ ThreadInv /\ SaltInv /\ FedInTurn

(* A cancelled lease that has yet to count its cancellation.               *)
WillCount(l) ==
  /\ stopped[l] /\ InQueue(l)
  /\ lease[l] \in {"waiting", "quitting"} \/ (feeder[l] = "checking" /\ index[l] = 0)

(* A round not reached yet is one away, and a lease in front will count.   *)
RoundInv ==
  /\ fresh <= leaseRound \/ (fresh = leaseRound + 1 /\ \E m \in Leases : WillCount(m))
  /\ \A l \in Leases : lease[l] # "new" =>
       \/ need[l] <= leaseRound
       \/ /\ need[l] = leaseRound + 1 /\ feeder[l] = "off"
          /\ \E m \in Leases : WillCount(m) /\ id[m] < id[l]
  /\ \A l \in Leases : feeder[l] # "off" => need[l] <= round[l] /\ round[l] <= leaseRound
  /\ \A l, m \in Leases : feeder[l] # "off" /\ feeder[m] # "off" /\ id[l] <= id[m] =>
       round[l] <= round[m]

-----------------------------------------------------------------------------
(* The queue of turns *)

(* What RemoveAt leaves of a sequence.                                     *)
LEMMA Removed ==
  ASSUME NEW S, NEW s \in Seq(S), NEW i \in 1..Len(s)
  PROVE  /\ Seqs!RemoveAt(s, i) \in Seq(S) /\ Len(Seqs!RemoveAt(s, i)) = Len(s) - 1
         /\ \A j \in 1..(Len(s) - 1) :
              Seqs!RemoveAt(s, i)[j] = s[IF j < i THEN j ELSE j + 1]
<1> DEFINE a == SubSeq(s, 1, i - 1)
           b == SubSeq(s, i + 1, Len(s))
<1>1. a \in Seq(S) /\ Len(a) = i - 1 /\ \A j \in 1..(i - 1) : a[j] = s[j]
  <2>1. \A j \in 1..(i - 1) : s[j] \in S
    OBVIOUS
  <2>2. a = [j \in 1..(i - 1) |-> s[j]]
    OBVIOUS
  <2> QED BY <2>1, <2>2
<1>2. b \in Seq(S) /\ Len(b) = Len(s) - i /\ \A j \in 1..(Len(s) - i) : b[j] = s[i + j]
  OBVIOUS
<1> HIDE DEF a, b
<1>3. Seqs!RemoveAt(s, i) = a \o b
  BY DEF a, b, Seqs!RemoveAt
<1>4. a \o b \in Seq(S) /\ Len(a \o b) = Len(s) - 1
  <2>1. a \o b \in Seq(S) /\ Len(a \o b) = Len(a) + Len(b)
    BY <1>1, <1>2, ConcatProperties
  <2> QED BY <1>1, <1>2, <2>1
<1>5. ASSUME NEW j \in 1..(Len(s) - 1)
      PROVE  (a \o b)[j] = s[IF j < i THEN j ELSE j + 1]
  <2>1. (a \o b)[j] = IF j <= Len(a) THEN a[j] ELSE b[j - Len(a)]
    BY <1>1, <1>2
  <2>2. CASE j < i
    BY <2>1, <2>2, <1>1
  <2>3. CASE ~(j < i)
    <3>1. j - (i - 1) \in 1..(Len(s) - i) /\ i + (j - (i - 1)) = j + 1
      BY <2>3
    <3>2. b[j - (i - 1)] = s[i + (j - (i - 1))]
      BY <3>1, <1>2
    <3> QED BY <2>1, <2>3, <1>1, <3>1, <3>2
  <2> QED BY <2>2, <2>3
<1> QED BY <1>3, <1>4, <1>5

(* The places in the queue that places of the shorter queue come from.     *)
LEMMA Shifted ==
  ASSUME NEW n \in Nat, NEW p \in 1..n, NEW i \in 1..(n - 1), NEW j \in 1..(n - 1), i < j
  PROVE  /\ (IF i < p THEN i ELSE i + 1) \in 1..n /\ (IF j < p THEN j ELSE j + 1) \in 1..n
         /\ (IF i < p THEN i ELSE i + 1) < (IF j < p THEN j ELSE j + 1)
  OBVIOUS

(* A lease that leaves the queue is gone from it; the others keep their    *)
(* order and the front its place.                                          *)
LEMMA Leaves ==
  ASSUME waiting \in Seq(Leases), NEW l \in Leases, Leave(l),
         \A i, j \in DOMAIN waiting : waiting[i] = waiting[j] => i = j
  PROVE  /\ waiting' \in Seq(Leases)
         /\ \A i, j \in DOMAIN waiting' : i < j =>
              \E h, k \in DOMAIN waiting :
                 h < k /\ waiting[h] = waiting'[i] /\ waiting[k] = waiting'[j]
         /\ \A m \in Leases : InQueue(m)' <=> InQueue(m) /\ m # l
         /\ \A m \in Leases : Front(m) /\ m # l => Front(m)'
<1>1. CASE InQueue(l)
  <2> DEFINE p == PlaceOf(l)
             n == Len(waiting)
  <2>1. p \in 1..Len(waiting) /\ waiting[p] = l
    BY <1>1 DEF InQueue, PlaceOf
  <2> HIDE DEF p
  <2>2. /\ waiting' \in Seq(Leases) /\ Len(waiting') = Len(waiting) - 1
        /\ \A j \in 1..(Len(waiting) - 1) :
             waiting'[j] = waiting[IF j < p THEN j ELSE j + 1]
    <3>1. waiting' = Seqs!RemoveAt(waiting, p)
      BY <1>1 DEF Leave, InQueue, p
    <3> QED BY <2>1, <3>1, Removed
  <2>3. n \in Nat /\ p \in 1..n /\ DOMAIN waiting = 1..n /\ DOMAIN waiting' = 1..(n - 1)
    BY <2>1, <2>2
  <2> HIDE DEF n
  <2>4. \A j \in 1..(n - 1) : waiting'[j] = waiting[IF j < p THEN j ELSE j + 1]
    BY <2>2 DEF n
  <2>5. \A i, j \in DOMAIN waiting' : i < j =>
          \E h, k \in DOMAIN waiting :
             h < k /\ waiting[h] = waiting'[i] /\ waiting[k] = waiting'[j]
    <3> SUFFICES ASSUME NEW i \in DOMAIN waiting', NEW j \in DOMAIN waiting', i < j
                 PROVE  \E h, k \in DOMAIN waiting :
                          h < k /\ waiting[h] = waiting'[i] /\ waiting[k] = waiting'[j]
      OBVIOUS
    <3> DEFINE h == IF i < p THEN i ELSE i + 1
               k == IF j < p THEN j ELSE j + 1
    <3> HIDE DEF h, k
    <3>1. h \in DOMAIN waiting /\ k \in DOMAIN waiting /\ h < k
      <4>1. i \in 1..(n - 1) /\ j \in 1..(n - 1) /\ i < j
        BY <2>3
      <4>2. h \in 1..n /\ k \in 1..n /\ h < k
        BY <2>3, <4>1, Shifted DEF h, k
      <4> QED BY <2>3, <4>2
    <3>2. waiting[h] = waiting'[i] /\ waiting[k] = waiting'[j]
      BY <2>3, <2>4 DEF h, k
    <3> QED BY <3>1, <3>2
  <2>6. ASSUME NEW m \in Leases, InQueue(m)' PROVE InQueue(m) /\ m # l
    <3>1. PICK j \in DOMAIN waiting' : waiting'[j] = m
      BY <2>6 DEF InQueue
    <3> DEFINE k == IF j < p THEN j ELSE j + 1
    <3>2. k \in DOMAIN waiting /\ waiting[k] = m /\ k # p
      BY <2>3, <2>4, <3>1
    <3> QED BY <2>1, <3>2 DEF InQueue
  <2>7. ASSUME NEW m \in Leases, InQueue(m), m # l PROVE InQueue(m)'
    <3>1. PICK k \in DOMAIN waiting : waiting[k] = m
      BY <2>7 DEF InQueue
    <3> DEFINE j == IF k < p THEN k ELSE k - 1
    <3>2. j \in 1..(n - 1) /\ k = (IF j < p THEN j ELSE j + 1)
      BY <2>1, <2>3, <2>7, <3>1
    <3> HIDE DEF j
    <3>3. waiting'[j] = m /\ j \in DOMAIN waiting'
      BY <2>3, <2>4, <3>1, <3>2
    <3> QED BY <3>3 DEF InQueue
  <2>8. ASSUME NEW m \in Leases, Front(m), m # l PROVE Front(m)'
    <3>1. waiting[1] = m /\ p # 1 /\ Len(waiting) >= 1
      BY <2>1, <2>8 DEF Front
    <3>2. 1 \in 1..(Len(waiting) - 1) /\ 1 < p
      BY <2>1, <3>1
    <3>3. waiting'[1] = m /\ waiting' # <<>>
      BY <2>2, <3>1, <3>2
    <3> QED BY <2>2, <3>3 DEF Front
  <2> QED BY <2>2, <2>5, <2>6, <2>7, <2>8
<1>2. CASE ~InQueue(l)
  <2>1. waiting' = waiting
    BY <1>2 DEF Leave, InQueue
  <2> QED BY <1>2, <2>1 DEF InQueue, Front
<1> QED BY <1>1, <1>2

(* The types the queue lemmas rest on.                                     *)
LEMMA QueueTypes ==
  ASSUME TypeOK
  PROVE  /\ waiting \in Seq(Leases) /\ nextId \in Nat /\ id \in [Leases -> Nat]
         /\ Len(waiting) \in Nat /\ DOMAIN waiting = 1..Len(waiting)
         /\ \A i \in DOMAIN waiting : waiting[i] \in Leases
         /\ \A l \in Leases : Front(l) <=> 1 \in DOMAIN waiting /\ waiting[1] = l
<1>1. waiting \in Seq(Leases) /\ nextId \in Nat /\ id \in [Leases -> Nat]
  BY DEF TypeOK
<1>2. /\ Len(waiting) \in Nat /\ DOMAIN waiting = 1..Len(waiting)
      /\ \A i \in DOMAIN waiting : waiting[i] \in Leases
  BY <1>1
<1>3. \A l \in Leases : Front(l) <=> 1 \in DOMAIN waiting /\ waiting[1] = l
  BY <1>1, <1>2 DEF Front
<1> QED BY <1>1, <1>2, <1>3

(* No lease has two places, and the front joined first.                    *)
LEMMA InOrder ==
  ASSUME TypeOK, QueueInv
  PROVE  /\ \A i, j \in DOMAIN waiting : waiting[i] = waiting[j] => i = j
         /\ \A l \in Leases : Front(l) => \A j \in DOMAIN waiting : id[l] <= id[waiting[j]]
         /\ \A l \in Leases : InQueue(l) => lease[l] # "new"
<1> USE QueueTypes
<1>1. ASSUME NEW i \in DOMAIN waiting, NEW j \in DOMAIN waiting, waiting[i] = waiting[j]
      PROVE  i = j
  <2>1. id[waiting[i]] \in Nat /\ id[waiting[i]] = id[waiting[j]]
    BY <1>1
  <2>2. ~(i < j) /\ ~(j < i)
    BY <1>1, <2>1 DEF QueueInv
  <2> QED BY <2>2
<1>2. ASSUME NEW l \in Leases, Front(l), NEW j \in DOMAIN waiting
      PROVE  id[l] <= id[waiting[j]]
  <2>1. waiting[1] = l /\ 1 \in DOMAIN waiting /\ (j = 1 \/ 1 < j)
    BY <1>2
  <2>2. id[l] \in Nat /\ id[waiting[j]] \in Nat
    OBVIOUS
  <2>3. 1 < j => id[waiting[1]] < id[waiting[j]]
    BY <2>1 DEF QueueInv
  <2> QED BY <2>1, <2>2, <2>3
<1>3. \A l \in Leases : InQueue(l) => lease[l] # "new"
  BY DEF QueueInv
<1> QED BY <1>1, <1>2, <1>3

(* A step that leaves the queue alone keeps its invariant if it does not   *)
(* overtake the front and if nobody who ends still has a place.            *)
LEMMA QueueKept ==
  ASSUME TypeOK, QueueInv, UNCHANGED turnVars,
         \A l \in Leases :
            /\ lease'[l] \in {"waiting", "quitting", "leaving"} => InQueue(l)
            /\ lease'[l] \in {"new", "returned"} \/ feeder'[l] = "ended" => ~InQueue(l)
            /\ lease'[l] # "new" => lease[l] # "new"
            /\ feeder'[l] # "off" => feeder[l] # "off" \/ Front(l)
  PROVE  QueueInv'
<1>1. UNCHANGED <<waiting, nextId, id>> /\ \A l \in Leases : InQueue(l)' <=> InQueue(l)
  BY DEF turnVars, InQueue
<1>2. \A l \in Leases : feeder'[l] # "off" =>
        \A j \in DOMAIN waiting : id[l] <= id[waiting[j]]
  BY InOrder DEF QueueInv
<1> QED BY <1>1, <1>2 DEF QueueInv

(* A lease that joins takes the next id and the last place.                *)
LEMMA QueueJoined ==
  ASSUME TypeOK, QueueInv, ThreadInv, NEW l \in Leases, Join(l)
  PROVE  QueueInv'
<1> USE QueueTypes
<1>1. /\ waiting' = Append(waiting, l) /\ nextId' = nextId + 1 /\ feeder' = feeder
      /\ id' = [id EXCEPT ![l] = nextId] /\ lease[l] = "new" /\ ~InQueue(l)
      /\ lease'[l] = "waiting" /\ \A m \in Leases : m # l => lease'[m] = lease[m]
  BY DEF Join, Move, QueueInv, TypeOK
<1> DEFINE n == Len(waiting)
<1>2. /\ n \in Nat /\ DOMAIN waiting = 1..n /\ DOMAIN waiting' = 1..(n + 1)
      /\ waiting'[n + 1] = l /\ \A i \in 1..n : waiting'[i] = waiting[i] /\ waiting[i] # l
  BY <1>1 DEF InQueue
<1>3. id'[l] = nextId /\ \A m \in Leases : m # l => id'[m] = id[m]
  BY <1>1
<1>4. \A m \in Leases : InQueue(m)' <=> InQueue(m) \/ m = l
  <2>1. ASSUME NEW m \in Leases, InQueue(m)' PROVE InQueue(m) \/ m = l
    BY <1>2, <2>1 DEF InQueue
  <2>2. ASSUME NEW m \in Leases, InQueue(m) PROVE InQueue(m)'
    <3>1. PICK i \in 1..n : waiting[i] = m
      BY <1>2, <2>2 DEF InQueue
    <3>2. i \in 1..(n + 1) /\ waiting'[i] = m
      BY <1>2, <3>1
    <3> QED BY <1>2, <3>2 DEF InQueue
  <2>3. InQueue(l)'
    <3>1. n + 1 \in 1..(n + 1)
      BY <1>2
    <3> QED BY <1>2, <3>1 DEF InQueue
  <2> QED BY <2>1, <2>2, <2>3
<1> HIDE DEF n
<1>5. \A i, j \in DOMAIN waiting' : i < j => id'[waiting'[i]] < id'[waiting'[j]]
  <2> SUFFICES ASSUME NEW i \in 1..(n + 1), NEW j \in 1..(n + 1), i < j
               PROVE  id'[waiting'[i]] < id'[waiting'[j]]
    BY <1>2
  <2>1. i \in 1..n /\ (j \in 1..n \/ j = n + 1)
    BY <1>2
  <2>2. waiting[i] \in Leases /\ waiting'[i] = waiting[i] /\ id'[waiting[i]] = id[waiting[i]]
    BY <1>2, <1>3, <2>1
  <2>3. lease[waiting[i]] # "new"
    BY <1>2, <2>1, <2>2, InOrder DEF InQueue
  <2>4. CASE j \in 1..n
    <3>1. id[waiting[i]] < id[waiting[j]]
      BY <1>2, <2>1, <2>4 DEF QueueInv
    <3>2. waiting'[j] = waiting[j] /\ id'[waiting[j]] = id[waiting[j]]
      BY <1>2, <1>3, <2>4
    <3> QED BY <2>2, <3>1, <3>2
  <2>5. CASE j = n + 1
    BY <1>2, <1>3, <2>2, <2>3, <2>5 DEF QueueInv
  <2> QED BY <2>1, <2>4, <2>5
<1>6. /\ \A m \in Leases : lease'[m] # "new" => id'[m] < nextId'
      /\ \A k, m \in Leases :
           lease'[k] # "new" /\ lease'[m] # "new" /\ id'[k] = id'[m] => k = m
  <2>1. \A m \in Leases : lease[m] # "new" => id[m] < nextId /\ id[m] \in Nat
    BY DEF QueueInv
  <2>2. \A m \in Leases : m # l => lease'[m] = lease[m]
    BY <1>1
  <2>3. \A m \in Leases : lease'[m] # "new" => id'[m] < nextId' /\ (m = l \/ id'[m] < nextId)
    BY <1>1, <1>3, <2>1, <2>2
  <2>4. \A k, m \in Leases : m # l /\ k # l /\
           lease'[k] # "new" /\ lease'[m] # "new" /\ id'[k] = id'[m] => k = m
    BY <1>3, <2>2 DEF QueueInv
  <2>5. \A k, m \in Leases :
           lease'[k] # "new" /\ lease'[m] # "new" /\ id'[k] = id'[m] => k = m
    BY <1>3, <2>3, <2>4
  <2> QED BY <2>3, <2>5
<1>7. ASSUME NEW m \in Leases, feeder'[m] # "off", NEW j \in DOMAIN waiting'
      PROVE  id'[m] <= id'[waiting'[j]]
  <2>1. m # l /\ lease[m] # "new" /\ id'[m] = id[m] /\ feeder[m] # "off"
    BY <1>1, <1>3, <1>7 DEF ThreadInv, Threads, Before
  <2>2. j \in 1..n \/ j = n + 1
    BY <1>2
  <2>3. CASE j \in 1..n
    BY <1>2, <1>3, <2>1, <2>3 DEF QueueInv
  <2>4. CASE j = n + 1
    BY <1>2, <1>3, <2>1, <2>4 DEF QueueInv
  <2> QED BY <2>2, <2>3, <2>4
<1>8. \A m \in Leases : lease'[m] \in {"waiting", "quitting", "leaving"} => InQueue(m)'
  BY <1>1, <1>4 DEF QueueInv
<1>9. \A m \in Leases : lease'[m] \in {"new", "returned"} \/ feeder'[m] = "ended" => ~InQueue(m)'
  <2>1. feeder[l] = "off" /\ lease'[l] = "waiting"
    BY <1>1 DEF ThreadInv, Threads, Before
  <2> QED BY <1>1, <1>4, <2>1 DEF QueueInv
<1> QED BY <1>5, <1>6, <1>7, <1>8, <1>9 DEF QueueInv

(* A lease that leaves keeps the order of the rest.                        *)
LEMMA QueueLeft ==
  ASSUME TypeOK, QueueInv, NEW l \in Leases, Leave(l), UNCHANGED <<nextId, id>>,
         \A m \in Leases \ {l} : lease'[m] = lease[m] /\ feeder'[m] = feeder[m],
         lease'[l] \notin {"new", "waiting", "quitting", "leaving"}, lease[l] # "new",
         feeder'[l] # "off" => feeder[l] # "off"
  PROVE  QueueInv'
<1> USE QueueTypes
<1>0. \A i, j \in DOMAIN waiting : waiting[i] = waiting[j] => i = j
  BY InOrder
<1>1. /\ \A i, j \in DOMAIN waiting' : i < j =>
           \E h, k \in DOMAIN waiting :
              h < k /\ waiting[h] = waiting'[i] /\ waiting[k] = waiting'[j]
      /\ \A m \in Leases : InQueue(m)' <=> InQueue(m) /\ m # l
      /\ waiting' \in Seq(Leases)
  BY <1>0, Leaves
<1>2. \A i, j \in DOMAIN waiting' : i < j => id'[waiting'[i]] < id'[waiting'[j]]
  BY <1>1 DEF QueueInv
<1>3. ASSUME NEW m \in Leases, feeder'[m] # "off", NEW j \in DOMAIN waiting'
      PROVE  id'[m] <= id'[waiting'[j]]
  <2>1. PICK w \in Leases : w = waiting'[j]
    BY <1>1, <1>3
  <2>2. InQueue(w)
    BY <1>1, <2>1 DEF InQueue
  <2>3. PICK k \in DOMAIN waiting : waiting[k] = waiting'[j]
    BY <2>1, <2>2 DEF InQueue
  <2>4. feeder[m] # "off"
    BY <1>3
  <2> QED BY <2>3, <2>4 DEF QueueInv
<1>4. \A m \in Leases :
        /\ lease'[m] \in {"waiting", "quitting", "leaving"} => InQueue(m)'
        /\ lease'[m] \in {"new", "returned"} \/ feeder'[m] = "ended" => ~InQueue(m)'
        /\ lease'[m] # "new" => lease[m] # "new"
  BY <1>1, ZenonT(30) DEF QueueInv
<1> QED BY <1>2, <1>3, <1>4 DEF QueueInv

(* The types of what the threads of a lease change.                        *)
LEMMA ThreadTypes ==
  ASSUME TypeOK
  PROVE  /\ lease \in [Leases -> {"new", "waiting", "quitting", "leaving", "reporting",
                                  "receiving", "joining", "returned"}]
         /\ feeder \in [Leases -> {"off", "checking", "sending", "counting", "ending",
                                   "dropping", "ended"}]
         /\ index \in [Leases -> Nat] /\ fed \in [Leases -> Nat] /\ reported \in [Leases -> Nat]
         /\ \A l \in Leases : /\ index[l] \in 0..SaltCount[l] /\ fed[l] \in 0..SaltCount[l]
                              /\ reported[l] \in 0..SaltCount[l]
         /\ feeding \in [Leases -> BOOLEAN] /\ stop \in [Leases -> BOOLEAN]
         /\ stopped \in [Leases -> BOOLEAN]
         /\ result \in [Leases -> {"none", "complete", "stopped", "closed", "fault"}]
         /\ round \in [Leases -> Nat] /\ leaseRound \in Nat
  BY DEF TypeOK

(* Every step keeps the turns in order.                                    *)
LEMMA NextQueue ==
  ASSUME TypeOK, QueueInv, ThreadInv, [Next]_vars
  PROVE  QueueInv'
<1> USE ThreadTypes
<1>1. ASSUME NEW l \in Leases,
             \/ Granted(l) \/ StopsWaiting(l) \/ Quit(l) \/ Report(l) \/ Receive(l)
             \/ ReceiveEnds(l) \/ Return(l) \/ FeedSalt(l) \/ SendSalt(l) \/ CountSalt(l)
             \/ FeederStops(l) \/ ClearFeeding(l)
      PROVE  QueueInv'
  <2>1. /\ UNCHANGED turnVars
        /\ \A m \in Leases : m # l => lease'[m] = lease[m] /\ feeder'[m] = feeder[m]
    BY <1>1 DEF Granted, StopsWaiting, Quit, Report, Receive, ReceiveEnds, Return, EndReport,
       Move, FeedSalt, SendSalt, CountSalt, FeederStops, ClearFeeding
  <2>2. /\ lease[l] # "new" /\ lease'[l] # "new"
        /\ lease'[l] \in {"waiting", "quitting", "leaving"} =>
             lease[l] \in {"waiting", "quitting", "leaving"}
        /\ lease'[l] = "returned" => feeder[l] = "ended" \/ lease[l] = "returned"
        /\ feeder'[l] = "ended" => feeder[l] = "ended"
        /\ feeder'[l] # "off" => feeder[l] # "off" \/ Front(l)
    <3>1. CASE \/ Granted(l) \/ StopsWaiting(l) \/ Quit(l) \/ Report(l) \/ Receive(l)
               \/ ReceiveEnds(l) \/ Return(l)
      BY <3>1 DEF Granted, StopsWaiting, Quit, Report, Receive, ReceiveEnds, Return, EndReport,
         Move
    <3>2. CASE \/ FeedSalt(l) \/ SendSalt(l) \/ CountSalt(l)
               \/ FeederStops(l) \/ ClearFeeding(l)
      <4>1. feeder[l] \in {"checking", "sending", "counting", "ending"}
        BY <3>2 DEF FeedSalt, SendSalt, CountSalt, FeederStops, ClearFeeding
      <4>2. lease[l] # "new"
        BY <4>1 DEF ThreadInv, Threads, Before
      <4>3. lease' = lease /\ feeder'[l] # "ended"
        BY <3>2 DEF FeedSalt, SendSalt, CountSalt, FeederStops, ClearFeeding, Move
      <4> QED BY <4>1, <4>2, <4>3
    <3> QED BY <1>1, <3>1, <3>2
  <2>3. /\ lease'[l] \in {"waiting", "quitting", "leaving"} => InQueue(l)
        /\ lease'[l] \in {"new", "returned"} \/ feeder'[l] = "ended" => ~InQueue(l)
    BY <2>2 DEF QueueInv
  <2>4. \A m \in Leases :
            /\ lease'[m] \in {"waiting", "quitting", "leaving"} => InQueue(m)
            /\ lease'[m] \in {"new", "returned"} \/ feeder'[m] = "ended" => ~InQueue(m)
            /\ lease'[m] # "new" => lease[m] # "new"
            /\ feeder'[m] # "off" => feeder[m] # "off" \/ Front(m)
    BY <2>1, <2>2, <2>3 DEF QueueInv
  <2> QED BY <2>1, <2>4, QueueKept
<1>2. CASE \/ Runner \/ StreamStarts \/ RunnerExits \/ Reseed
           \/ (\E l \in Leases : CancelLease(l)) \/ UNCHANGED vars
  <2>1. UNCHANGED <<turnVars, lease, feeder>>
    BY <1>2 DEF Runner, TakeSalt, RefuseSalt, RunnerDrained, RunnerGone, AnswerSalt,
       StreamStarts, RunnerExits, Reseed, CancelLease, vars, threadVars
  <2>2. \A l \in Leases : lease'[l] = lease[l] /\ feeder'[l] = feeder[l]
    BY <2>1
  <2> QED BY <2>1, <2>2, QueueKept DEF QueueInv
<1>3. ASSUME NEW l \in Leases, DropPlace(l) \/ HandOver(l) \/ DropTurn(l)
      PROVE  QueueInv'
  <2>1. /\ Leave(l) /\ UNCHANGED <<nextId, id>>
        /\ \A m \in Leases \ {l} : lease'[m] = lease[m] /\ feeder'[m] = feeder[m]
    BY <1>3 DEF DropPlace, HandOver, DropTurn, Move
  <2>2. /\ lease'[l] \notin {"new", "waiting", "quitting", "leaving"} /\ lease[l] # "new"
        /\ feeder'[l] # "off" => feeder[l] # "off"
    BY <1>3 DEF DropPlace, HandOver, DropTurn, Move, ThreadInv, Threads, Before
  <2> QED BY <2>1, <2>2, QueueLeft
<1> QED
  BY <1>1, <1>2, <1>3, QueueJoined DEF Next, LeaseThread, Feeder, Callers

-----------------------------------------------------------------------------
(* The threads *)

(* The steps of a lease's own threads keep its invariant.                  *)
LEMMA ThreadSteps ==
  ASSUME TypeOK, NEW l \in Leases, Threads(l),
             \/ Join(l) \/ LeaseThread(l) \/ Feeder(l)
      PROVE Threads(l)'
<1> USE ThreadTypes, FeedAssumption DEF Threads, Before, Move
<1>1. CASE Join(l)
  BY <1>1 DEF Join
<1>2. CASE Granted(l)
  BY <1>2 DEF Granted
<1>3. CASE StopsWaiting(l)
  BY <1>3 DEF StopsWaiting
<1>4. CASE Quit(l)
  BY <1>4 DEF Quit
<1>5. CASE DropPlace(l)
  BY <1>5 DEF DropPlace
<1>6. CASE Report(l)
  BY <1>6 DEF Report, Verdict, EndReport
<1>7. CASE Receive(l)
  BY <1>7 DEF Receive, EndReport
<1>8. CASE ReceiveEnds(l)
  BY <1>8 DEF ReceiveEnds
<1>9. CASE Return(l)
  BY <1>9 DEF Return
<1>10. CASE FeedSalt(l)
  BY <1>10 DEF FeedSalt
<1>11. CASE SendSalt(l)
  BY <1>11 DEF SendSalt
<1>12. CASE CountSalt(l)
  BY <1>12 DEF CountSalt
<1>13. CASE FeederStops(l)
  BY <1>13 DEF FeederStops, StoppedFeeder
<1>14. CASE HandOver(l)
  BY <1>14 DEF HandOver
<1>15. CASE ClearFeeding(l)
  BY <1>15 DEF ClearFeeding
<1>16. CASE DropTurn(l)
  BY <1>16 DEF DropTurn
<1> QED
  BY <1>1, <1>2, <1>3, <1>4, <1>5, <1>6, <1>7, <1>8, <1>9, <1>10, <1>11, <1>12, <1>13, <1>14,
     <1>15, <1>16 DEF LeaseThread, Feeder

(* Nor does any other step disturb them: a cancellation only lets a feeder *)
(* stop early.                                                             *)
LEMMA NextThreads ==
  ASSUME TypeOK, ThreadInv, [Next]_vars
  PROVE  ThreadInv'
<1> USE ThreadTypes
<1>1. ASSUME NEW l \in Leases, Join(l) \/ LeaseThread(l) \/ Feeder(l)
      PROVE  ThreadInv'
  <2>1. Threads(l)'
    BY <1>1, ThreadSteps DEF ThreadInv
  <2>2. ASSUME NEW m \in Leases \ {l} PROVE Threads(m)'
    <3>1. /\ lease'[m] = lease[m] /\ feeder'[m] = feeder[m] /\ index'[m] = index[m]
          /\ fed'[m] = fed[m] /\ feeding'[m] = feeding[m] /\ stopped' = stopped
          /\ stop'[m] = stop[m] /\ result'[m] = result[m] /\ reported'[m] = reported[m]
      <4>1. CASE Join(l) \/ LeaseThread(l)
        BY <4>1, <2>2 DEF Join, LeaseThread, Granted, StopsWaiting, Quit, DropPlace, Report,
           Receive, ReceiveEnds, Return, EndReport, Move
      <4>2. CASE Feeder(l)
        BY <4>2, <2>2 DEF Feeder, FeedSalt, SendSalt, CountSalt, FeederStops, HandOver,
           ClearFeeding, DropTurn, Move
      <4> QED BY <1>1, <4>1, <4>2
    <3>2. Threads(m)
      BY DEF ThreadInv
    <3> QED BY <3>1, <3>2 DEF Threads
  <2> QED BY <2>1, <2>2 DEF ThreadInv
<1>2. CASE \/ Runner \/ StreamStarts \/ RunnerExits \/ Reseed
           \/ (\E l \in Leases : CancelLease(l)) \/ UNCHANGED vars
  <2>1. /\ UNCHANGED threadVars
        /\ \A l \in Leases : stopped[l] => stopped'[l]
    BY <1>2 DEF Runner, TakeSalt, RefuseSalt, RunnerDrained, RunnerGone, AnswerSalt,
       StreamStarts, RunnerExits, Reseed, CancelLease, vars
  <2>2. ASSUME NEW l \in Leases PROVE Threads(l)'
    <3>1. Threads(l)
      BY DEF ThreadInv
    <3> QED BY <2>1, <3>1 DEF Threads, threadVars
  <2> QED BY <2>2 DEF ThreadInv
<1> QED
  BY <1>1, <1>2 DEF Next, Callers

(* The front keeps its place until it has fed.                             *)
LEMMA NextFeeder ==
  ASSUME TypeOK, QueueInv, ThreadInv, OneFeeder, [Next]_vars
  PROVE  OneFeeder'
<1> USE ThreadTypes, QueueTypes
<1> DEFINE Feeds(l) == feeder[l] \in {"checking", "sending", "counting"}
<1>1. ASSUME NEW m \in Leases, Feeds(m)' PROVE Front(m)'
  <2>1. CASE UNCHANGED waiting
    <3>1. Front(m)' <=> Front(m)
      BY <2>1 DEF Front
    <3>2. Feeds(m) \/ Front(m)
      <4>1. CASE \E l \in Leases : LeaseThread(l)
        BY <1>1, <4>1 DEF LeaseThread, Granted, StopsWaiting, Quit, DropPlace, Report,
           Receive, ReceiveEnds, Return, EndReport, Move
      <4>2. CASE \E l \in Leases : Feeder(l)
        BY <1>1, <4>2 DEF Feeder, FeedSalt, SendSalt, CountSalt, FeederStops, HandOver,
           ClearFeeding, DropTurn, Move
      <4>3. CASE \/ Runner \/ StreamStarts \/ RunnerExits \/ Reseed
                 \/ (\E l \in Leases : Join(l) \/ CancelLease(l)) \/ UNCHANGED vars
        BY <1>1, <4>3 DEF Runner, TakeSalt, RefuseSalt, RunnerDrained, RunnerGone, AnswerSalt,
           StreamStarts, RunnerExits, Reseed, Join, CancelLease, vars, threadVars
      <4> QED BY <4>1, <4>2, <4>3 DEF Next, Callers
    <3> QED BY <3>1, <3>2 DEF OneFeeder
  <2>2. ASSUME NEW l \in Leases, Join(l) PROVE Front(m)'
    <3>1. feeder' = feeder /\ waiting' = Append(waiting, l)
      BY <2>2 DEF Join
    <3>2. Front(m)
      BY <1>1, <3>1 DEF OneFeeder
    <3>3. waiting' \in Seq(Leases) /\ Len(waiting') > 0 /\ waiting'[1] = waiting[1]
      BY <3>1, <3>2
    <3>4. ASSUME NEW s \in Seq(Leases), Len(s) > 0 PROVE s # <<>> /\ Head(s) = s[1]
      BY <3>4
    <3>5. waiting[1] = m
      BY <3>2 DEF Front
    <3>6. waiting' # <<>> /\ Head(waiting') = waiting'[1]
      BY <3>3, <3>4
    <3> QED BY <3>3, <3>5, <3>6 DEF Front
  <2>3. ASSUME NEW l \in Leases, DropPlace(l) \/ HandOver(l) \/ DropTurn(l) PROVE Front(m)'
    <3>1. Leave(l) /\ m # l /\ feeder'[m] = feeder[m]
      BY <1>1, <2>3 DEF DropPlace, HandOver, DropTurn, Move, ThreadInv, Threads, Before
    <3>2. Front(m)
      BY <1>1, <3>1 DEF OneFeeder
    <3> QED BY <3>1, <3>2, InOrder, Leaves
  <2>4. \/ UNCHANGED waiting
        \/ \E l \in Leases : Join(l) \/ DropPlace(l) \/ HandOver(l) \/ DropTurn(l)
    BY DEF Next, LeaseThread, Granted, StopsWaiting, Quit, Report, Receive, ReceiveEnds, Return,
       Feeder, FeedSalt, SendSalt, CountSalt, FeederStops, ClearFeeding, Runner, TakeSalt,
       RefuseSalt, RunnerDrained, RunnerGone, AnswerSalt, Callers, StreamStarts, RunnerExits,
       Reseed, CancelLease, vars, turnVars
  <2> QED BY <2>1, <2>2, <2>3, <2>4
<1> QED BY <1>1 DEF OneFeeder

-----------------------------------------------------------------------------
(* The salts *)

(* The fields of a salt.                                                   *)
LEMMA SaltFields ==
  /\ \A salt \in SaltIds :
       salt.lease \in Leases /\ salt.index \in 0..(SaltCount[salt.lease] - 1)
  /\ \A l \in Leases, i \in Nat : i < SaltCount[l] => [lease |-> l, index |-> i] \in SaltIds
<1>1. ASSUME NEW salt \in SaltIds
      PROVE  salt.lease \in Leases /\ salt.index \in 0..(SaltCount[salt.lease] - 1)
  <2>1. PICK l \in Leases : salt \in [lease : {l}, index : 0..(SaltCount[l] - 1)]
    BY DEF SaltIds
  <2> QED BY <2>1
<1>2. ASSUME NEW l \in Leases, NEW i \in Nat, i < SaltCount[l]
      PROVE  [lease |-> l, index |-> i] \in SaltIds
  <2>1. i \in 0..(SaltCount[l] - 1)
    BY <1>2, FeedAssumption
  <2>2. [lease |-> l, index |-> i] \in [lease : {l}, index : 0..(SaltCount[l] - 1)]
    BY <2>1
  <2> QED BY <2>2 DEF SaltIds
<1> QED BY <1>1, <1>2

(* The types of the intake, and whose salts are in it.                     *)
LEMMA SaltTypes ==
  ASSUME TypeOK, ThreadInv, SaltInv
  PROVE  /\ salts \in Seq(SaltIds) /\ Len(salts) \in Nat /\ DOMAIN salts = 1..Len(salts)
         /\ \A i \in DOMAIN salts : /\ salts[i] \in SaltIds /\ salts[i].lease \in Leases
                                    /\ salts[i].index \in Nat
         /\ \A salt \in held : salt.lease \in Leases /\ salt.index \in Nat
         /\ \A l \in Leases : NextSalt(l) \in Nat
         /\ \A i \in DOMAIN salts :
              feeder[salts[i].lease] # "off" /\ lease[salts[i].lease] # "new"
<1>1. salts \in Seq(SaltIds) /\ held \subseteq SaltIds
  BY DEF TypeOK
<1>2. /\ Len(salts) \in Nat /\ DOMAIN salts = 1..Len(salts)
      /\ \A i \in DOMAIN salts : salts[i] \in SaltIds
  BY <1>1
<1>3. /\ \A i \in DOMAIN salts : salts[i].lease \in Leases /\ salts[i].index \in Nat
      /\ \A salt \in held : salt.lease \in Leases /\ salt.index \in Nat
  <2>1. \A salt \in SaltIds : salt.lease \in Leases /\ salt.index \in Nat
    BY SaltFields, FeedAssumption
  <2> QED BY <1>1, <1>2, <2>1
<1>4. \A l \in Leases : NextSalt(l) \in Nat
  BY ThreadTypes DEF NextSalt
<1>5. ASSUME NEW i \in DOMAIN salts
      PROVE  feeder[salts[i].lease] # "off" /\ lease[salts[i].lease] # "new"
  <2>1. PICK l \in Leases : l = salts[i].lease
    BY <1>3
  <2>2. salts[i].index < NextSalt(l) /\ salts[i].index \in Nat
    BY <1>3, <2>1 DEF SaltInv
  <2>3. Threads(l)
    BY DEF ThreadInv
  <2>4. feeder[l] = "off" => NextSalt(l) = 0
    BY <2>3 DEF Threads, NextSalt
  <2>5. feeder[l] # "off"
    BY <2>2, <2>4
  <2> QED BY <2>1, <2>3, <2>5 DEF Threads, Before
<1> QED BY <1>1, <1>2, <1>3, <1>4, <1>5

(* Feeders only move on, and the ids of leases that have joined stay.      *)
LEMMA SaltsStay ==
  ASSUME TypeOK, ThreadInv, SaltInv, FedInTurn, UNCHANGED <<salts, held>>,
         \A l \in Leases : NextSalt(l)' \in Nat /\ NextSalt(l)' >= NextSalt(l),
         \A l \in Leases : lease[l] # "new" => id'[l] = id[l]
  PROVE  SaltInv' /\ FedInTurn'
<1> USE SaltTypes
<1>1. ASSUME NEW i \in DOMAIN salts PROVE salts[i].index < NextSalt(salts[i].lease)'
  <2>1. PICK l \in Leases : l = salts[i].lease
    OBVIOUS
  <2>2. salts[i].index < NextSalt(l)
    BY <2>1 DEF SaltInv
  <2>3. salts[i].index < NextSalt(l)'
    BY <2>2
  <2>4. salts' = salts
    OBVIOUS
  <2> QED BY <2>1, <2>3, <2>4 DEF NextSalt
<1>2. ASSUME NEW salt \in held PROVE salt.index < NextSalt(salt.lease)'
  <2>1. salt.index < NextSalt(salt.lease)
    BY DEF SaltInv
  <2> QED BY <2>1
<1>3. SaltInv'
  BY <1>1, <1>2 DEF SaltInv, NextSalt
<1>4. \A i \in DOMAIN salts : id'[salts[i].lease] = id[salts[i].lease]
  OBVIOUS
<1>5. FedInTurn'
  BY <1>4 DEF FedInTurn
<1> QED BY <1>3, <1>5

(* A salt goes to the end of the channel, behind those of every lease that *)
(* had its turn before.                                                    *)
LEMMA SaltSent ==
  ASSUME TypeOK, QueueInv, ThreadInv, SaltInv, OneFeeder, FedInTurn,
         NEW l \in Leases, SendSalt(l)
  PROVE  SaltInv' /\ FedInTurn'
<1> USE SaltTypes
<1> DEFINE n == Len(salts)
           new == [lease |-> l, index |-> index[l]]
<1>1. /\ feeder[l] = "sending" /\ salts' = Append(salts, new) /\ feeder' = [feeder EXCEPT ![l] = "counting"]
      /\ UNCHANGED <<index, id, held>> /\ index[l] \in Nat
  BY ThreadTypes DEF SendSalt, Move, turnVars, threadVars, runnerVars
<1>2. /\ n \in Nat /\ DOMAIN salts = 1..n /\ DOMAIN salts' = 1..(n + 1)
      /\ salts'[n + 1] = new /\ \A i \in 1..n : salts'[i] = salts[i]
  BY <1>1
<1>3. /\ NextSalt(l) = index[l] /\ NextSalt(l)' = index[l] + 1
      /\ \A m \in Leases : m # l => NextSalt(m)' = NextSalt(m)
  BY <1>1, ThreadTypes DEF NextSalt
<1>4. new.lease = l /\ new.index = index[l]
  OBVIOUS
<1> HIDE DEF n, new
<1>5. ASSUME NEW i \in 1..n
      PROVE  \/ id[salts[i].lease] < id[l]
             \/ salts[i].lease = l /\ salts[i].index < index[l]
  <2>1. PICK m \in Leases : m = salts[i].lease /\ feeder[m] # "off" /\ lease[m] # "new"
    BY <1>2
  <2>2. Front(l) /\ lease[l] # "new"
    BY <1>1 DEF OneFeeder, ThreadInv, Threads, Before
  <2>3. id[m] <= id[l]
    BY <2>1, <2>2, QueueTypes DEF QueueInv
  <2>4. id[m] = id[l] => m = l
    BY <2>1, <2>2 DEF QueueInv
  <2>5. m = l => salts[i].index < index[l]
    BY <1>2, <1>3, <2>1 DEF SaltInv
  <2> QED BY <2>1, <2>3, <2>4, <2>5, QueueTypes
<1>6. FedInTurn'
  <2> SUFFICES ASSUME NEW i \in 1..(n + 1), NEW j \in 1..(n + 1), i < j
               PROVE  \/ id[salts'[i].lease] < id[salts'[j].lease]
                      \/ salts'[i].lease = salts'[j].lease /\ salts'[i].index < salts'[j].index
    BY <1>1, <1>2 DEF FedInTurn
  <2>1. i \in 1..n /\ (j \in 1..n \/ j = n + 1)
    BY <1>2
  <2>2. CASE j \in 1..n
    <3>1. salts'[i] = salts[i] /\ salts'[j] = salts[j]
      BY <1>2, <2>1, <2>2
    <3>2. i \in DOMAIN salts /\ j \in DOMAIN salts /\ i < j
      BY <1>2, <2>1, <2>2
    <3>3. \/ id[salts[i].lease] < id[salts[j].lease]
          \/ salts[i].lease = salts[j].lease /\ salts[i].index < salts[j].index
      BY <3>2, Zenon DEF FedInTurn
    <3> QED BY <3>1, <3>3, Zenon
  <2>3. CASE j = n + 1
    <3>1. salts'[i] = salts[i] /\ salts'[j] = new
      BY <1>2, <2>1, <2>3
    <3> QED BY <1>4, <1>5, <2>1, <3>1
  <2> QED BY <2>1, <2>2, <2>3
<1>7. ASSUME NEW i \in 1..(n + 1)
      PROVE  \E m \in Leases :
               /\ salts'[i].lease = m /\ salts'[i].index < NextSalt(m)'
               /\ \A salt \in held : salt.lease = m => salt.index < salts'[i].index
  <2>1. CASE i \in 1..n
    <3>1. PICK m \in Leases : m = salts[i].lease /\ salts'[i] = salts[i] /\ salts[i].index \in Nat
      BY <1>2, <2>1
    <3>2. salts[i].index < NextSalt(m)
      BY <1>2, <2>1, <3>1 DEF SaltInv
    <3>3. salts[i].index < NextSalt(m)'
      BY <1>1, <1>3, <3>1, <3>2
    <3>4. \A salt \in held : salt.lease = m => salt.index < salts[i].index
      BY <1>2, <2>1, <3>1 DEF SaltInv
    <3> QED BY <3>1, <3>3, <3>4
  <2>2. CASE i = n + 1
    <3>1. salts'[i].lease = l /\ salts'[i].index = index[l]
      BY <1>2, <1>4, <2>2
    <3>2. \A salt \in held : salt.lease = l => salt.index < index[l]
      BY <1>3 DEF SaltInv
    <3>3. index[l] < NextSalt(l)'
      BY <1>1, <1>3
    <3> QED BY <3>1, <3>2, <3>3
  <2> QED BY <1>2, <2>1, <2>2
<1>8. ASSUME NEW salt \in held PROVE salt.index < NextSalt(salt.lease)'
  <2>1. salt.index < NextSalt(salt.lease)
    BY DEF SaltInv
  <2> QED BY <1>1, <1>3, <2>1
<1>9. /\ \A i \in DOMAIN salts' : /\ salts'[i].index < NextSalt(salts[i].lease)'
                                  /\ \A salt \in held : salts'[i].lease = salt.lease =>
                                       salt.index < salts'[i].index
  BY <1>2, <1>7 DEF NextSalt
<1> QED BY <1>1, <1>6, <1>8, <1>9 DEF SaltInv

(* What is left of a channel when its head is taken.                       *)
LEMMA TailFacts ==
  ASSUME NEW S, NEW s \in Seq(S), s # <<>>
  PROVE  /\ Tail(s) \in Seq(S) /\ Len(Tail(s)) = Len(s) - 1 /\ Len(s) \in Nat \ {0}
         /\ DOMAIN Tail(s) = 1..(Len(s) - 1) /\ 1 \in DOMAIN s /\ Head(s) = s[1]
         /\ Head(s) \in S
         /\ \A i \in 1..(Len(s) - 1) : Tail(s)[i] = s[i + 1] /\ i + 1 \in DOMAIN s
  OBVIOUS

(* The head of the channel is the oldest salt of its lease there, and goes *)
(* to the runner, who drops salts and is refused others.                   *)
LEMMA SaltTaken ==
  ASSUME TypeOK, ThreadInv, SaltInv, FedInTurn, salts # <<>>, salts' = Tail(salts),
         held' = held \/ held' = held \union {Head(salts)}, UNCHANGED <<index, feeder, id>>
  PROVE  SaltInv' /\ FedInTurn'
<1> USE SaltTypes
<1> DEFINE n == Len(salts)
           h == salts[1]
<1>1. /\ n \in Nat \ {0} /\ DOMAIN salts = 1..n /\ DOMAIN salts' = 1..(n - 1)
      /\ Head(salts) = h /\ \A i \in 1..(n - 1) : salts'[i] = salts[i + 1] /\ i + 1 \in 1..n
  BY TailFacts
<1>2. h \in SaltIds /\ h.lease \in Leases /\ h.index \in Nat
  BY <1>1
<1>3. ASSUME NEW i \in 1..n, salts[i].lease = h.lease, i # 1 PROVE h.index < salts[i].index
  <2>1. 1 < i /\ 1 \in DOMAIN salts /\ i \in DOMAIN salts
    BY <1>1, <1>3
  <2>2. id[h.lease] \in Nat
    BY <1>2, QueueTypes
  <2>3. \/ id[h.lease] < id[salts[i].lease]
        \/ h.lease = salts[i].lease /\ h.index < salts[i].index
    BY <2>1, Zenon DEF FedInTurn
  <2> HIDE DEF h
  <2> QED BY <1>3, <2>2, <2>3
<1> HIDE DEF n, h
<1>4. FedInTurn'
  <2> SUFFICES ASSUME NEW i \in 1..(n - 1), NEW j \in 1..(n - 1), i < j
               PROVE  \/ id[salts'[i].lease] < id[salts'[j].lease]
                      \/ salts'[i].lease = salts'[j].lease /\ salts'[i].index < salts'[j].index
    BY <1>1 DEF FedInTurn
  <2>1. i + 1 \in DOMAIN salts /\ j + 1 \in DOMAIN salts /\ i + 1 < j + 1
    BY <1>1
  <2>2. \/ id[salts[i + 1].lease] < id[salts[j + 1].lease]
        \/ salts[i + 1].lease = salts[j + 1].lease /\ salts[i + 1].index < salts[j + 1].index
    BY <2>1, Zenon DEF FedInTurn
  <2>3. salts'[i] = salts[i + 1] /\ salts'[j] = salts[j + 1]
    BY <1>1
  <2> QED BY <2>2, <2>3, Zenon
<1>5. \A l \in Leases : NextSalt(l)' = NextSalt(l)
  BY DEF NextSalt
<1>6. ASSUME NEW i \in 1..(n - 1)
      PROVE  \E m \in Leases :
               /\ salts'[i].lease = m /\ salts'[i].index < NextSalt(m)'
               /\ \A salt \in held' : salt.lease = m => salt.index < salts'[i].index
  <2>1. PICK m \in Leases : m = salts[i + 1].lease
    BY <1>1
  <2>2. salts[i + 1].index < NextSalt(m)
    BY <1>1, <2>1 DEF SaltInv
  <2>3. \A salt \in held : salt.lease = m => salt.index < salts[i + 1].index
    BY <1>1, <2>1 DEF SaltInv
  <2>4. h.lease = m => h.index < salts[i + 1].index
    BY <1>1, <1>3, <2>1
  <2> QED BY <1>1, <1>5, <2>1, <2>2, <2>3, <2>4, SMTT(30)
<1>7. ASSUME NEW salt \in held' PROVE salt.index < NextSalt(salt.lease)'
  <2>1. CASE salt \in held
    <3>1. salt.index < NextSalt(salt.lease)
      BY <2>1 DEF SaltInv
    <3> QED BY <1>5, <2>1, <3>1
  <2>2. CASE salt = h
    <3>1. h.index < NextSalt(h.lease)
      BY <1>1 DEF SaltInv, h
    <3> QED BY <1>2, <1>5, <2>2, <3>1
  <2> QED BY <1>1, <2>1, <2>2
<1>8. IsFiniteSet(held')
  BY FS_AddElement DEF SaltInv
<1>9. /\ \A i \in DOMAIN salts' : /\ salts'[i].index < NextSalt(salts[i].lease)'
                                  /\ \A salt \in held' : salts'[i].lease = salt.lease =>
                                       salt.index < salts'[i].index
  BY <1>1, <1>6 DEF NextSalt
<1> QED BY <1>4, <1>7, <1>8, <1>9 DEF SaltInv, NextSalt

(* Every step keeps the salts in order.                                    *)
LEMMA NextSalts ==
  ASSUME LeaseInv, [Next]_vars
  PROVE  SaltInv' /\ FedInTurn'
<1>0. TypeOK /\ QueueInv /\ ThreadInv /\ SaltInv /\ OneFeeder /\ FedInTurn
  BY DEF LeaseInv, FeedInv
<1> USE SaltTypes
<1>1. ASSUME NEW l \in Leases, SendSalt(l) PROVE SaltInv' /\ FedInTurn'
  BY <1>0, <1>1, SaltSent
<1>2. CASE TakeSalt \/ RefuseSalt
  BY <1>0, <1>2, SaltTaken DEF TakeSalt, RefuseSalt, threadVars, turnVars, runnerVars
<1>3. ASSUME NEW salt \in SaltIds, AnswerSalt(salt) PROVE SaltInv' /\ FedInTurn'
  <2>1. UNCHANGED <<salts, index, feeder, id>> /\ held' = held \ {salt}
    BY <1>3 DEF AnswerSalt, threadVars, turnVars
  <2>2. IsFiniteSet(held')
    BY <1>0, <2>1, FS_RemoveElement DEF SaltInv
  <2> QED BY <1>0, <2>1, <2>2 DEF SaltInv, FedInTurn, NextSalt
<1>4. ASSUME UNCHANGED <<salts, held>>,
             \A l \in Leases : NextSalt(l)' \in Nat /\ NextSalt(l)' >= NextSalt(l),
             \A l \in Leases : lease[l] # "new" => id'[l] = id[l]
      PROVE  SaltInv' /\ FedInTurn'
  BY <1>0, <1>4, SaltsStay
<1>5. ASSUME NEW l \in Leases,
             \/ LeaseThread(l) \/ FeedSalt(l) \/ CountSalt(l) \/ FeederStops(l) \/ HandOver(l)
             \/ ClearFeeding(l) \/ DropTurn(l)
      PROVE  SaltInv' /\ FedInTurn'
  <2> USE ThreadTypes
  <2>1. UNCHANGED <<salts, held, id>>
    BY <1>5 DEF LeaseThread, Granted, StopsWaiting, Quit, DropPlace, Report, Receive,
       ReceiveEnds, Return, FeedSalt, CountSalt, FeederStops, HandOver, ClearFeeding, DropTurn,
       turnVars, runnerVars
  <2>2. /\ NextSalt(l)' = NextSalt(l)
        /\ \A m \in Leases : m # l => NextSalt(m)' = NextSalt(m)
    <3>1. CASE LeaseThread(l)
      BY <1>0, <3>1 DEF LeaseThread, Granted, StopsWaiting, Quit, DropPlace, Report, Receive,
         ReceiveEnds, Return, Move, NextSalt, ThreadInv, Threads, Before
    <3>2. CASE \/ FeedSalt(l) \/ CountSalt(l) \/ FeederStops(l) \/ HandOver(l)
               \/ ClearFeeding(l) \/ DropTurn(l)
      BY <1>0, <3>2 DEF FeedSalt, CountSalt, FeederStops, HandOver, ClearFeeding, DropTurn, Move,
         NextSalt
    <3> QED BY <1>5, <3>1, <3>2
  <2>3. \A m \in Leases : NextSalt(m)' = NextSalt(m) /\ NextSalt(m) \in Nat
    BY <1>0, <2>2
  <2>4. \A m \in Leases : NextSalt(m)' \in Nat /\ NextSalt(m)' >= NextSalt(m)
    BY <2>3
  <2> QED BY <1>4, <2>1, <2>4
<1>6. ASSUME NEW l \in Leases, Join(l) PROVE SaltInv' /\ FedInTurn'
  <2>1. /\ UNCHANGED <<salts, held, index, feeder>>
        /\ lease[l] = "new" /\ \A m \in Leases : m # l => id'[m] = id[m]
    BY <1>0, <1>6, QueueTypes DEF Join, runnerVars
  <2> QED BY <1>0, <1>4, <2>1 DEF NextSalt
<1>7. CASE \/ RunnerDrained \/ RunnerGone \/ StreamStarts \/ RunnerExits \/ Reseed
           \/ (\E l \in Leases : CancelLease(l)) \/ UNCHANGED vars
  <2>1. UNCHANGED <<salts, held, index, feeder, id>>
    BY <1>7 DEF RunnerDrained, RunnerGone, StreamStarts, RunnerExits, Reseed, CancelLease, vars,
       threadVars, turnVars, runnerVars
  <2> QED BY <1>0, <1>4, <2>1 DEF NextSalt
<1> QED
  BY <1>1, <1>2, <1>3, <1>5, <1>6, <1>7 DEF Next, Feeder, Runner, Callers

-----------------------------------------------------------------------------
(* No salt is lost *)

PlacesOf(s, l) == {i \in DOMAIN s : s[i].lease = l}

(* A channel counts a lease's salts by their places.                       *)
LEMMA Counted ==
  ASSUME NEW s \in Seq(SaltIds), NEW l
  PROVE  /\ IsFiniteSet(PlacesOf(s, l)) /\ Cardinality(PlacesOf(s, l)) \in Nat
         /\ \A salt \in SaltIds :
              Cardinality(PlacesOf(Append(s, salt), l)) =
                Cardinality(PlacesOf(s, l)) + (IF salt.lease = l THEN 1 ELSE 0)
         /\ s # <<>> =>
              Cardinality(PlacesOf(s, l)) =
                Cardinality(PlacesOf(Tail(s), l)) + (IF Head(s).lease = l THEN 1 ELSE 0)
<1> DEFINE n == Len(s)
<1>1. ASSUME NEW t \in Seq(SaltIds)
      PROVE  IsFiniteSet(PlacesOf(t, l)) /\ Cardinality(PlacesOf(t, l)) \in Nat
  <2>1. PlacesOf(t, l) \in SUBSET (1..Len(t)) /\ IsFiniteSet(1..Len(t))
    BY FS_Interval DEF PlacesOf
  <2> QED BY <2>1, FS_Subset, FS_CardinalityType
<1>2. ASSUME NEW salt \in SaltIds
      PROVE  Cardinality(PlacesOf(Append(s, salt), l)) =
               Cardinality(PlacesOf(s, l)) + (IF salt.lease = l THEN 1 ELSE 0)
  <2>1. /\ n \in Nat /\ DOMAIN s = 1..n /\ DOMAIN Append(s, salt) = 1..(n + 1)
        /\ Append(s, salt)[n + 1] = salt /\ \A i \in 1..n : Append(s, salt)[i] = s[i]
    OBVIOUS
  <2>2. CASE salt.lease = l
    <3>1. PlacesOf(Append(s, salt), l) = PlacesOf(s, l) \union {n + 1} /\ n + 1 \notin PlacesOf(s, l)
      BY <2>1, <2>2 DEF PlacesOf
    <3> QED BY <1>1, <2>2, <3>1, FS_AddElement, ZenonT(30)
  <2>3. CASE salt.lease # l
    <3>1. PlacesOf(Append(s, salt), l) = PlacesOf(s, l)
      BY <2>1, <2>3 DEF PlacesOf
    <3> QED BY <1>1, <2>3, <3>1
  <2> QED BY <2>2, <2>3
<1>3. ASSUME s # <<>>
      PROVE  Cardinality(PlacesOf(s, l)) =
               Cardinality(PlacesOf(Tail(s), l)) + (IF Head(s).lease = l THEN 1 ELSE 0)
  <2>1. /\ n \in Nat \ {0} /\ DOMAIN s = 1..n /\ DOMAIN Tail(s) = 1..(n - 1)
        /\ Head(s) = s[1] /\ \A i \in 1..(n - 1) : Tail(s)[i] = s[i + 1]
        /\ Tail(s) \in Seq(SaltIds)
    BY <1>3, TailFacts
  <2> HIDE DEF n
  <2> DEFINE rest == PlacesOf(s, l) \ {1}
             f == [i \in PlacesOf(Tail(s), l) |-> i + 1]
  <2>2. f \in Bijection(PlacesOf(Tail(s), l), rest)
    <3>1. f \in [PlacesOf(Tail(s), l) -> rest]
      BY <2>1 DEF PlacesOf
    <3>2. \A i, j \in PlacesOf(Tail(s), l) : f[i] = f[j] => i = j
      BY <2>1 DEF PlacesOf
    <3>3. \A k \in rest : \E i \in PlacesOf(Tail(s), l) : f[i] = k
      <4> SUFFICES ASSUME NEW k \in rest PROVE \E i \in PlacesOf(Tail(s), l) : f[i] = k
        OBVIOUS
      <4>1. k \in 2..n /\ s[k].lease = l
        BY <2>1 DEF PlacesOf
      <4>2. k - 1 \in 1..(n - 1) /\ (k - 1) + 1 = k
        BY <2>1, <4>1
      <4>3. k - 1 \in PlacesOf(Tail(s), l)
        BY <2>1, <4>1, <4>2 DEF PlacesOf
      <4> QED BY <4>2, <4>3
    <3> HIDE DEF f, rest
    <3>4. IsInjective(f)
      BY <3>1, <3>2 DEF IsInjective
    <3> QED BY <3>1, <3>3, <3>4, Zenon DEF Bijection, Injection, Surjection
  <2>3. Cardinality(rest) = Cardinality(PlacesOf(Tail(s), l)) /\ IsFiniteSet(rest)
    <3>1. ExistsBijection(PlacesOf(Tail(s), l), rest)
      BY <2>2, Zenon DEF ExistsBijection
    <3>2. IsFiniteSet(PlacesOf(Tail(s), l))
      BY <1>1, <2>1
    <3> HIDE DEF rest
    <3> QED BY <3>1, <3>2, FS_Bijection
  <2>4. CASE Head(s).lease = l
    <3>1. PlacesOf(s, l) = rest \union {1} /\ 1 \notin rest
      BY <2>1, <2>4 DEF PlacesOf
    <3> HIDE DEF rest
    <3> QED BY <2>3, <2>4, <3>1, FS_AddElement
  <2>5. CASE Head(s).lease # l
    <3>1. PlacesOf(s, l) = rest
      BY <2>1, <2>5 DEF PlacesOf
    <3>2. Cardinality(PlacesOf(Tail(s), l)) \in Nat
      BY <1>1, <2>1
    <3> HIDE DEF rest
    <3> QED BY <2>3, <2>5, <3>1, <3>2
  <2> QED BY <2>4, <2>5
<1> QED BY <1>1, <1>2, <1>3

(* The runner counts them one by one.                                      *)
LEMMA HeldCounted ==
  ASSUME NEW set, IsFiniteSet(set), NEW l
  PROVE  /\ IsFiniteSet(OfLease(l, set)) /\ Cardinality(OfLease(l, set)) \in Nat
         /\ \A salt : salt \notin set =>
              Cardinality(OfLease(l, set \union {salt})) =
                Cardinality(OfLease(l, set)) + (IF salt.lease = l THEN 1 ELSE 0)
         /\ \A salt \in set :
              Cardinality(OfLease(l, set)) =
                Cardinality(OfLease(l, set \ {salt})) + (IF salt.lease = l THEN 1 ELSE 0)
<1>1. ASSUME NEW t, IsFiniteSet(t)
      PROVE  IsFiniteSet(OfLease(l, t)) /\ Cardinality(OfLease(l, t)) \in Nat
  <2>1. OfLease(l, t) \in SUBSET t
    BY DEF OfLease
  <2> QED BY <1>1, <2>1, FS_Subset, FS_CardinalityType
<1>2. ASSUME NEW t, IsFiniteSet(t), NEW salt, salt \notin t
      PROVE  Cardinality(OfLease(l, t \union {salt})) =
               Cardinality(OfLease(l, t)) + (IF salt.lease = l THEN 1 ELSE 0)
  <2>1. CASE salt.lease = l
    <3>1. OfLease(l, t \union {salt}) = OfLease(l, t) \union {salt} /\ salt \notin OfLease(l, t)
      BY <1>2, <2>1 DEF OfLease
    <3> QED BY <1>1, <1>2, <2>1, <3>1, FS_AddElement
  <2>2. CASE salt.lease # l
    <3>1. OfLease(l, t \union {salt}) = OfLease(l, t)
      BY <2>2 DEF OfLease
    <3> QED BY <1>1, <1>2, <2>2, <3>1
  <2> QED BY <2>1, <2>2
<1>3. ASSUME NEW salt \in set
      PROVE  Cardinality(OfLease(l, set)) =
               Cardinality(OfLease(l, set \ {salt})) + (IF salt.lease = l THEN 1 ELSE 0)
  <2>1. IsFiniteSet(set \ {salt}) /\ salt \notin set \ {salt} /\ (set \ {salt}) \union {salt} = set
    BY FS_RemoveElement
  <2> QED BY <1>2, <2>1
<1> QED BY <1>1, <1>2, <1>3

Sent(l) == fed[l] + (IF feeder[l] = "counting" THEN 1 ELSE 0)
InChannel(l) == Cardinality(PlacesOf(salts, l))
WithRunner(l) == Cardinality(OfLease(l, held))

(* What a lease has sent is somewhere, and what is counted are numbers.    *)
LEMMA Balanced ==
  ASSUME TypeOK, IsFiniteSet(held)
  PROVE  /\ SaltsConserved <=>
              \A l \in Leases : Sent(l) = reported[l] + Len(outcomes[l]) + WithRunner(l) + InChannel(l)
         /\ \A l \in Leases : /\ Sent(l) \in Nat /\ reported[l] \in Nat /\ Len(outcomes[l]) \in Nat
                              /\ WithRunner(l) \in Nat /\ InChannel(l) \in Nat
<1>1. ASSUME NEW l \in Leases
      PROVE  /\ Sent(l) \in Nat /\ reported[l] \in Nat /\ Len(outcomes[l]) \in Nat
             /\ WithRunner(l) \in Nat /\ InChannel(l) \in Nat
  <2>1. Sent(l) \in Nat /\ reported[l] \in Nat
    BY ThreadTypes DEF Sent
  <2>2. Len(outcomes[l]) \in Nat
    <3>1. outcomes[l] \in Seq({"reported", "dropped", "failed"})
      BY DEF TypeOK
    <3> QED BY <3>1
  <2>3. salts \in Seq(SaltIds)
    BY DEF TypeOK
  <2>4. WithRunner(l) \in Nat /\ InChannel(l) \in Nat
    BY <2>3, HeldCounted, Counted DEF WithRunner, InChannel
  <2> QED BY <2>1, <2>2, <2>4
<1>2. SaltsConserved <=>
        \A l \in Leases : Sent(l) = reported[l] + Len(outcomes[l]) + WithRunner(l) + InChannel(l)
  BY DEF SaltsConserved, Sent, WithRunner, InChannel, PlacesOf
<1> QED BY <1>1, <1>2

(* The outcome of a salt reaches its lease.                                *)
LEMMA Posted ==
  ASSUME TypeOK, NEW salt \in SaltIds, NEW o \in {"reported", "dropped", "failed"},
         Post(salt, o)
  PROVE  /\ outcomes' \in [Leases -> Seq({"reported", "dropped", "failed"})]
         /\ \A l \in Leases :
              Len(outcomes'[l]) = Len(outcomes[l]) + (IF salt.lease = l THEN 1 ELSE 0)
<1>1. salt.lease \in Leases
  BY SaltFields
<1>2. outcomes \in [Leases -> Seq({"reported", "dropped", "failed"})]
  BY DEF TypeOK
<1>3. \A l \in Leases : outcomes'[l] = IF salt.lease = l THEN Append(outcomes[l], o) ELSE outcomes[l]
  BY <1>1, <1>2 DEF Post
<1>4. \A l \in Leases : Len(outcomes[l]) \in Nat /\ Len(Append(outcomes[l], o)) = Len(outcomes[l]) + 1
  BY <1>2
<1>5. outcomes' \in [Leases -> Seq({"reported", "dropped", "failed"})]
  BY <1>1, <1>2 DEF Post
<1>6. ASSUME NEW l \in Leases
      PROVE  Len(outcomes'[l]) = Len(outcomes[l]) + (IF salt.lease = l THEN 1 ELSE 0)
  <2>1. CASE salt.lease = l
    BY <1>3, <1>4, <2>1
  <2>2. CASE salt.lease # l
    BY <1>3, <1>4, <2>2
  <2> QED BY <2>1, <2>2
<1> QED BY <1>5, <1>6

(* The runner takes a salt it does not hold.                               *)
LEMMA HeadNotHeld ==
  ASSUME TypeOK, ThreadInv, SaltInv, salts # <<>>
  PROVE  Head(salts) \in SaltIds /\ Head(salts) \notin held
<1>1. 1 \in DOMAIN salts /\ Head(salts) = salts[1] /\ salts[1] \in SaltIds
  BY SaltTypes
<1>2. salts[1].index \in Nat
  BY <1>1, SaltTypes
<1>3. salts[1] \notin held
  BY <1>1, <1>2 DEF SaltInv
<1> QED BY <1>1, <1>3

(* A salt added, or moved, keeps the sum.                                  *)
LEMMA Sums ==
  ASSUME NEW s \in Nat, NEW r \in Nat, NEW o \in Nat, NEW w \in Nat, NEW c \in Nat
  PROVE  /\ s = r + o + w + c => s + 1 = r + o + w + (c + 1)
         /\ (r + 1) + (o - 1) = r + o
  OBVIOUS

(* Whatever moves a salt takes it from one place and puts it in the next.  *)
LEMMA NextConserved ==
  ASSUME LeaseInv, [Next]_vars
  PROVE  \A l \in Leases :
           Sent(l)' = reported'[l] + Len(outcomes'[l]) + WithRunner(l)' + InChannel(l)'
<1>0. TypeOK /\ ThreadInv /\ SaltInv /\ IsFiniteSet(held) /\ salts \in Seq(SaltIds)
  BY DEF LeaseInv, FeedInv, SaltInv, TypeOK
<1>1. /\ \A l \in Leases : Sent(l) = reported[l] + Len(outcomes[l]) + WithRunner(l) + InChannel(l)
      /\ \A l \in Leases : /\ Sent(l) \in Nat /\ reported[l] \in Nat /\ Len(outcomes[l]) \in Nat
                           /\ WithRunner(l) \in Nat /\ InChannel(l) \in Nat
  BY <1>0, Balanced DEF LeaseInv, FeedInv
<1>2. ASSUME NEW k \in Leases, SendSalt(k)
      PROVE  \A l \in Leases :
               Sent(l)' = reported'[l] + Len(outcomes'[l]) + WithRunner(l)' + InChannel(l)'
  <2> DEFINE new == [lease |-> k, index |-> index[k]]
  <2>1. new \in SaltIds /\ new.lease = k
    <3>1. index[k] \in Nat /\ index[k] < SaltCount[k]
      BY <1>0, <1>2, ThreadTypes DEF SendSalt, ThreadInv, Threads
    <3> QED BY <3>1, SaltFields
  <2>2. /\ salts' = Append(salts, new) /\ feeder[k] = "sending"
        /\ feeder' = [feeder EXCEPT ![k] = "counting"]
        /\ UNCHANGED <<fed, reported, outcomes, held>>
    BY <1>2 DEF SendSalt, Move, runnerVars
  <2> HIDE DEF new
  <2>3. \A l \in Leases : Sent(l)' = Sent(l) + (IF k = l THEN 1 ELSE 0)
    BY <1>0, <2>2, ThreadTypes DEF Sent
  <2>4. \A l \in Leases : InChannel(l)' = InChannel(l) + (IF k = l THEN 1 ELSE 0)
    BY <1>0, <2>1, <2>2, Counted DEF InChannel
  <2>5. \A l \in Leases : WithRunner(l)' = WithRunner(l)
    BY <2>2 DEF WithRunner
  <2>6. \A l \in Leases : reported'[l] = reported[l] /\ outcomes'[l] = outcomes[l]
    BY <2>2
  <2> TAKE l \in Leases
  <2>7. /\ Sent(l) = reported[l] + Len(outcomes[l]) + WithRunner(l) + InChannel(l)
        /\ Sent(l) \in Nat /\ reported[l] \in Nat /\ Len(outcomes[l]) \in Nat
        /\ WithRunner(l) \in Nat /\ InChannel(l) \in Nat
    BY <1>1
  <2>8. /\ reported'[l] = reported[l] /\ Len(outcomes'[l]) = Len(outcomes[l])
        /\ WithRunner(l)' = WithRunner(l)
    BY <2>5, <2>6
  <2>9. CASE k = l
    <3>1. Sent(l)' = Sent(l) + 1 /\ InChannel(l)' = InChannel(l) + 1
      BY <2>3, <2>4, <2>9
    <3>2. Sent(l) + 1 = reported[l] + Len(outcomes[l]) + WithRunner(l) + (InChannel(l) + 1)
      BY <2>7, Sums
    <3> QED BY <2>8, <3>1, <3>2
  <2>10. CASE k # l
    <3>1. Sent(l)' = Sent(l) /\ InChannel(l)' = InChannel(l)
      BY <2>3, <2>4, <2>7, <2>10
    <3> QED BY <2>7, <2>8, <3>1
  <2> QED BY <2>9, <2>10
<1>3. CASE TakeSalt
  <2>1. /\ salts # <<>> /\ salts' = Tail(salts) /\ held' = held \union {Head(salts)}
        /\ UNCHANGED <<fed, feeder, reported, outcomes>>
    BY <1>3 DEF TakeSalt, threadVars
  <2>2. Head(salts) \in SaltIds /\ Head(salts) \notin held
    BY <1>0, <2>1, HeadNotHeld
  <2> DEFINE one(l) == IF Head(salts).lease = l THEN 1 ELSE 0
  <2>3. \A l \in Leases : InChannel(l) = InChannel(l)' + one(l) /\ InChannel(l)' \in Nat
    <3>1. Tail(salts) \in Seq(SaltIds)
      BY <1>0, <2>1
    <3> QED BY <1>0, <2>1, <3>1, Counted DEF InChannel
  <2>4. \A l \in Leases : WithRunner(l)' = WithRunner(l) + one(l)
    BY <1>0, <2>1, <2>2, HeldCounted DEF WithRunner
  <2>5. \A l \in Leases : Sent(l)' = Sent(l)
    BY <2>1 DEF Sent
  <2>6. \A l \in Leases : one(l) \in Nat
    OBVIOUS
  <2> HIDE DEF one
  <2> TAKE l \in Leases
  <2>7. reported'[l] = reported[l] /\ Len(outcomes'[l]) = Len(outcomes[l])
    BY <2>1
  <2> QED BY <1>1, <2>3, <2>4, <2>5, <2>6, <2>7
<1>4. ASSUME NEW salt \in SaltIds, AnswerSalt(salt)
      PROVE  \A l \in Leases :
               Sent(l)' = reported'[l] + Len(outcomes'[l]) + WithRunner(l)' + InChannel(l)'
  <2>1. /\ salt \in held /\ held' = held \ {salt}
        /\ UNCHANGED <<fed, feeder, reported, salts>>
    BY <1>4 DEF AnswerSalt, threadVars
  <2>2. PICK o \in {"reported", "dropped", "failed"} : Post(salt, o)
    BY <1>4 DEF AnswerSalt
  <2> DEFINE one(l) == IF salt.lease = l THEN 1 ELSE 0
  <2>3. \A l \in Leases : Len(outcomes'[l]) = Len(outcomes[l]) + one(l)
    BY <1>0, <2>2, Posted
  <2>4. \A l \in Leases : WithRunner(l) = WithRunner(l)' + one(l) /\ WithRunner(l)' \in Nat
    <3>1. IsFiniteSet(held \ {salt})
      BY <1>0, FS_RemoveElement
    <3> QED BY <1>0, <2>1, <3>1, HeldCounted DEF WithRunner
  <2>5. \A l \in Leases : Sent(l)' = Sent(l) /\ InChannel(l)' = InChannel(l)
    BY <2>1 DEF Sent, InChannel
  <2>6. \A l \in Leases : one(l) \in Nat
    OBVIOUS
  <2> HIDE DEF one
  <2> TAKE l \in Leases
  <2>7. reported'[l] = reported[l]
    BY <2>1
  <2>8. /\ Sent(l) = reported[l] + Len(outcomes[l]) + WithRunner(l) + InChannel(l)
        /\ Sent(l) \in Nat /\ reported[l] \in Nat /\ Len(outcomes[l]) \in Nat
        /\ WithRunner(l) \in Nat /\ InChannel(l) \in Nat
    BY <1>1
  <2>9. /\ Len(outcomes'[l]) = Len(outcomes[l]) + one(l)
    BY <2>3
  <2>10. WithRunner(l) = WithRunner(l)' + one(l) /\ WithRunner(l)' \in Nat
    BY <2>4
  <2>11. Sent(l)' = Sent(l) /\ InChannel(l)' = InChannel(l) /\ one(l) \in Nat
    BY <2>5, <2>6
  <2> QED BY <2>7, <2>8, <2>9, <2>10, <2>11
<1>5. CASE RefuseSalt
  <2>1. /\ salts # <<>> /\ salts' = Tail(salts)
        /\ UNCHANGED <<fed, feeder, reported, held>>
    BY <1>5 DEF RefuseSalt, threadVars, runnerVars
  <2>2. Head(salts) \in SaltIds
    BY <1>0, <2>1, HeadNotHeld
  <2>3. PICK o \in {"reported", "dropped", "failed"} : Post(Head(salts), o)
    BY <1>5 DEF RefuseSalt
  <2> DEFINE one(l) == IF Head(salts).lease = l THEN 1 ELSE 0
  <2>4. \A l \in Leases : InChannel(l) = InChannel(l)' + one(l) /\ InChannel(l)' \in Nat
    <3>1. Tail(salts) \in Seq(SaltIds)
      BY <1>0, <2>1
    <3> QED BY <1>0, <2>1, <3>1, Counted DEF InChannel
  <2>5. \A l \in Leases : Len(outcomes'[l]) = Len(outcomes[l]) + one(l)
    BY <1>0, <2>2, <2>3, Posted
  <2>6. \A l \in Leases : Sent(l)' = Sent(l) /\ WithRunner(l)' = WithRunner(l)
    BY <2>1 DEF Sent, WithRunner
  <2>7. \A l \in Leases : one(l) \in Nat
    OBVIOUS
  <2> HIDE DEF one
  <2> TAKE l \in Leases
  <2>8. reported'[l] = reported[l]
    BY <2>1
  <2>9. /\ Sent(l) = reported[l] + Len(outcomes[l]) + WithRunner(l) + InChannel(l)
        /\ Sent(l) \in Nat /\ reported[l] \in Nat /\ Len(outcomes[l]) \in Nat
        /\ WithRunner(l) \in Nat /\ InChannel(l) \in Nat
    BY <1>1
  <2>10. /\ InChannel(l) = InChannel(l)' + one(l) /\ InChannel(l)' \in Nat
         /\ Len(outcomes'[l]) = Len(outcomes[l]) + one(l) /\ one(l) \in Nat
         /\ Sent(l)' = Sent(l) /\ WithRunner(l)' = WithRunner(l)
    BY <2>4, <2>5, <2>6, <2>7
  <2> QED BY <2>8, <2>9, <2>10
<1>6. ASSUME NEW k \in Leases, Receive(k)
      PROVE  \A l \in Leases :
               Sent(l)' = reported'[l] + Len(outcomes'[l]) + WithRunner(l)' + InChannel(l)'
  <2>1. /\ outcomes[k] # <<>> /\ outcomes' = [outcomes EXCEPT ![k] = Tail(@)]
        /\ reported' = [reported EXCEPT ![k] = @ + 1]
        /\ UNCHANGED <<fed, feeder, salts, held>>
    BY <1>6 DEF Receive, runnerVars
  <2>2. outcomes \in [Leases -> Seq({"reported", "dropped", "failed"})]
    BY <1>0 DEF TypeOK
  <2>3. \A l \in Leases : /\ reported'[l] + Len(outcomes'[l]) = reported[l] + Len(outcomes[l])
                          /\ reported'[l] \in Nat /\ Len(outcomes'[l]) \in Nat
    <3>1. ASSUME NEW l \in Leases, l # k
          PROVE  reported'[l] = reported[l] /\ outcomes'[l] = outcomes[l]
      BY <1>0, <2>1, <2>2, <3>1, ThreadTypes
    <3>2. reported'[k] = reported[k] + 1 /\ outcomes'[k] = Tail(outcomes[k])
      BY <1>0, <2>1, <2>2, ThreadTypes
    <3>3. Len(outcomes[k]) \in Nat \ {0} /\ Len(Tail(outcomes[k])) = Len(outcomes[k]) - 1
      <4>1. outcomes[k] \in Seq({"reported", "dropped", "failed"})
        BY <2>2
      <4> QED BY <2>1, <4>1
    <3>4. \A l \in Leases : reported[l] \in Nat /\ Len(outcomes[l]) \in Nat
      BY <1>1
    <3> QED
      <4> SUFFICES ASSUME NEW l \in Leases
                   PROVE  /\ reported'[l] + Len(outcomes'[l]) = reported[l] + Len(outcomes[l])
                          /\ reported'[l] \in Nat /\ Len(outcomes'[l]) \in Nat
        OBVIOUS
      <4>1. CASE l = k
        <5>1. Len(outcomes'[k]) = Len(outcomes[k]) - 1
          BY <3>2, <3>3
        <5>2. reported[k] \in Nat
          BY <3>4
        <5>3. (reported[k] + 1) + (Len(outcomes[k]) - 1) = reported[k] + Len(outcomes[k])
          BY <3>3, <5>2, Sums
        <5>4. reported'[k] \in Nat /\ Len(outcomes'[k]) \in Nat
          BY <3>2, <3>3, <5>1, <5>2
        <5>5. reported'[k] + Len(outcomes'[k]) = reported[k] + Len(outcomes[k])
          BY <3>2, <5>1, <5>3
        <5> QED BY <4>1, <5>4, <5>5
      <4>2. CASE l # k
        BY <3>1, <3>4, <4>2
      <4> QED BY <4>1, <4>2
  <2>4. \A l \in Leases : /\ Sent(l)' = Sent(l) /\ InChannel(l)' = InChannel(l)
                          /\ WithRunner(l)' = WithRunner(l)
    BY <2>1 DEF Sent, InChannel, WithRunner
  <2> QED BY <1>1, <2>3, <2>4
<1>7. ASSUME UNCHANGED <<reported, outcomes, held, salts>>, \A l \in Leases : Sent(l)' = Sent(l)
      PROVE  \A l \in Leases :
               Sent(l)' = reported'[l] + Len(outcomes'[l]) + WithRunner(l)' + InChannel(l)'
  BY <1>1, <1>7 DEF InChannel, WithRunner
<1>8. ASSUME NEW k \in Leases,
             \/ Granted(k) \/ StopsWaiting(k) \/ Quit(k) \/ DropPlace(k) \/ Report(k)
             \/ ReceiveEnds(k) \/ Return(k) \/ FeedSalt(k) \/ CountSalt(k) \/ FeederStops(k)
             \/ HandOver(k) \/ ClearFeeding(k) \/ DropTurn(k) \/ Join(k) \/ CancelLease(k)
      PROVE  UNCHANGED <<reported, outcomes, held, salts>> /\ \A l \in Leases : Sent(l)' = Sent(l)
  <2>1. CASE \/ StopsWaiting(k) \/ Quit(k) \/ DropPlace(k) \/ Report(k) \/ ReceiveEnds(k)
             \/ Return(k) \/ Join(k) \/ CancelLease(k)
    <3>1. UNCHANGED <<fed, feeder, reported, outcomes, held, salts>>
      BY <2>1 DEF StopsWaiting, Quit, DropPlace, Report, ReceiveEnds, Return, Join, CancelLease,
         runnerVars, threadVars
    <3> QED BY <3>1 DEF Sent
  <2>2. CASE Granted(k)
    <3>1. /\ UNCHANGED <<fed, reported, outcomes, held, salts>>
          /\ feeder' = [feeder EXCEPT ![k] = "checking"] /\ feeder[k] = "off"
      BY <1>0, <2>2, ThreadTypes DEF Granted, Move, runnerVars, ThreadInv, Threads, Before
    <3> QED BY <1>0, <3>1, ThreadTypes DEF Sent
  <2>3. CASE \/ FeedSalt(k) \/ FeederStops(k) \/ HandOver(k) \/ ClearFeeding(k) \/ DropTurn(k)
    <3>1. /\ UNCHANGED <<fed, reported, outcomes, held, salts>>
          /\ \A l \in Leases : (feeder'[l] = "counting") <=> (feeder[l] = "counting")
      BY <1>0, <2>3, ThreadTypes DEF FeedSalt, FeederStops, HandOver, ClearFeeding, DropTurn, Move, runnerVars
    <3> QED BY <3>1 DEF Sent
  <2>4. CASE CountSalt(k)
    <3>1. /\ UNCHANGED <<reported, outcomes, held, salts>> /\ feeder[k] = "counting"
          /\ feeder'[k] # "counting" /\ fed'[k] = fed[k] + 1
          /\ \A l \in Leases : l # k => feeder'[l] = feeder[l] /\ fed'[l] = fed[l]
      BY <1>0, <2>4, ThreadTypes DEF CountSalt, Move, runnerVars
    <3>2. fed[k] \in Nat
      BY <1>0, ThreadTypes
    <3>3. Sent(k)' = Sent(k)
      BY <3>1, <3>2 DEF Sent
    <3> QED BY <3>1, <3>3 DEF Sent
  <2> QED BY <1>8, <2>1, <2>2, <2>3, <2>4
<1>9. CASE RunnerDrained \/ RunnerGone \/ StreamStarts \/ RunnerExits \/ Reseed \/ UNCHANGED vars
  <2>1. UNCHANGED <<fed, feeder, reported, outcomes, held, salts>>
    BY <1>9 DEF RunnerDrained, RunnerGone, StreamStarts, RunnerExits, Reseed, vars, threadVars,
       runnerVars
  <2> QED BY <1>7, <2>1 DEF Sent
<1> QED
  BY <1>2, <1>3, <1>4, <1>5, <1>6, <1>7, <1>8, <1>9 DEF Next, LeaseThread, Feeder, Runner, Callers

-----------------------------------------------------------------------------
(* Types, and the invariant *)

(* What a lease's own steps change keeps its type.                         *)
LEMMA LeaseStepTypes ==
  ASSUME TypeOK, QueueInv, NEW l \in Leases, Join(l) \/ LeaseThread(l) \/ Feeder(l)
  PROVE  /\ waiting' \in Seq(Leases) /\ nextId' \in Nat /\ id' \in [Leases -> Nat]
         /\ lease' \in [Leases -> {"new", "waiting", "quitting", "leaving", "reporting",
                                   "receiving", "joining", "returned"}]
         /\ feeder' \in [Leases -> {"off", "checking", "sending", "counting", "ending",
                                    "dropping", "ended"}]
         /\ index' \in [Leases -> Nat] /\ fed' \in [Leases -> Nat]
         /\ reported' \in [Leases -> Nat]
         /\ feeding' \in [Leases -> BOOLEAN] /\ stop' \in [Leases -> BOOLEAN]
         /\ result' \in [Leases -> {"none", "complete", "stopped", "closed", "fault"}]
         /\ round' \in [Leases -> Nat] /\ leaseRound' \in Nat
         /\ need' \in [Leases -> Nat]
         /\ UNCHANGED <<stopped, held, runner, runnerLive, streams, reseeds, fresh>>
<1>1. /\ waiting \in Seq(Leases) /\ nextId \in Nat /\ id \in [Leases -> Nat]
      /\ fresh \in Nat /\ need \in [Leases -> Nat]
      /\ \A i, j \in DOMAIN waiting : waiting[i] = waiting[j] => i = j
  BY InOrder DEF TypeOK
<1>2. waiting' \in Seq(Leases)
  <2>1. CASE Leave(l)
    BY <1>1, <2>1, Leaves
  <2>2. CASE waiting' = Append(waiting, l)
    BY <1>1, <2>2
  <2>3. CASE waiting' = waiting
    BY <1>1, <2>3
  <2> QED
    BY <2>1, <2>2, <2>3 DEF Join, LeaseThread, Granted, StopsWaiting, Quit, DropPlace, Report, Receive,
       ReceiveEnds, Return, Feeder, FeedSalt, SendSalt, CountSalt, FeederStops, HandOver,
       ClearFeeding, DropTurn, turnVars
<1> USE <1>1, <1>2, ThreadTypes DEF Move, turnVars, runnerVars, historyVars
<1>3. CASE Join(l)
  <2>1. nextId + 1 \in Nat
    OBVIOUS
  <2>2. /\ id' = [id EXCEPT ![l] = nextId] /\ need' = [need EXCEPT ![l] = fresh]
        /\ nextId' = nextId + 1 /\ lease' = [lease EXCEPT ![l] = "waiting"]
        /\ UNCHANGED <<feeder, index, fed, feeding, reported, result, stop, round, stopped,
                       leaseRound, held, runner, runnerLive, streams, reseeds, fresh>>
    BY <1>3 DEF Join
  <2>3. /\ id' \in [Leases -> Nat] /\ need' \in [Leases -> Nat] /\ nextId' \in Nat
        /\ lease' \in [Leases -> {"new", "waiting", "quitting", "leaving", "reporting",
                                  "receiving", "joining", "returned"}]
    BY <2>1, <2>2
  <2> QED BY <2>2, <2>3
<1>4. CASE Granted(l)
  BY <1>4 DEF Granted
<1>5. CASE StopsWaiting(l)
  BY <1>5 DEF StopsWaiting
<1>6. CASE Quit(l)
  BY <1>6, SMTT(30) DEF Quit, Bump
<1>7. CASE DropPlace(l)
  BY <1>7 DEF DropPlace
<1>8. CASE Report(l)
  BY <1>8 DEF Report, EndReport, Verdict
<1>9. CASE Receive(l)
  <2>1. \A n \in Nat : n + 1 \in Nat
    OBVIOUS
  <2>2. /\ reported' = [reported EXCEPT ![l] = @ + 1]
        /\ \/ \E why \in {"fault", "closed"} :
                 /\ lease' = [lease EXCEPT ![l] = "joining"]
                 /\ result' = [result EXCEPT ![l] = why] /\ stop' = [stop EXCEPT ![l] = TRUE]
           \/ UNCHANGED <<lease, result, stop>>
        /\ UNCHANGED <<turnVars, feeder, index, fed, feeding, round, stopped, leaseRound,
                       runnerVars, historyVars>>
    BY <1>9 DEF Receive, EndReport
  <2>3. reported' \in [Leases -> Nat]
    BY <2>1, <2>2
  <2>4. lease' = lease \/ lease' = [lease EXCEPT ![l] = "joining"]
    BY <2>2
  <2>5. \/ result' = result \/ result' = [result EXCEPT ![l] = "fault"]
        \/ result' = [result EXCEPT ![l] = "closed"]
    BY <2>2
  <2>6. stop' = stop \/ stop' = [stop EXCEPT ![l] = TRUE]
    BY <2>2
  <2>7. lease' \in [Leases -> {"new", "waiting", "quitting", "leaving", "reporting",
                             "receiving", "joining", "returned"}]
    BY <2>4
  <2>8. result' \in [Leases -> {"none", "complete", "stopped", "closed", "fault"}]
    BY <2>5
  <2>9. stop' \in [Leases -> BOOLEAN]
    BY <2>6
  <2> QED BY <2>2, <2>3, <2>7, <2>8, <2>9
<1>10. CASE ReceiveEnds(l)
  BY <1>10 DEF ReceiveEnds
<1>11. CASE Return(l)
  BY <1>11 DEF Return
<1>12. CASE FeedSalt(l)
  BY <1>12 DEF FeedSalt
<1>13. CASE SendSalt(l)
  BY <1>13 DEF SendSalt
<1>14. CASE CountSalt(l)
  <2>1. \A n \in Nat : n + 1 \in Nat
    OBVIOUS
  <2>2. /\ fed' = [fed EXCEPT ![l] = @ + 1] /\ index' = [index EXCEPT ![l] = @ + 1]
        /\ feeder' = [feeder EXCEPT ![l] = "checking"]
        /\ UNCHANGED <<turnVars, lease, feeding, reported, result, stop, round, stopped,
                       leaseRound, runnerVars, historyVars>>
    BY <1>14 DEF CountSalt
  <2>3. /\ index' \in [Leases -> Nat] /\ fed' \in [Leases -> Nat]
        /\ feeder' \in [Leases -> {"off", "checking", "sending", "counting", "ending",
                                   "dropping", "ended"}]
    BY <2>1, <2>2
  <2> QED BY <2>2, <2>3
<1>15. CASE FeederStops(l)
  <2>1. leaseRound' = leaseRound \/ leaseRound' = leaseRound + 1
    BY <1>15 DEF FeederStops, Bump
  <2>2. leaseRound' \in Nat
    BY <2>1
  <2>3. feeder' = [feeder EXCEPT ![l] = "ending"]
    BY <1>15 DEF FeederStops
  <2> QED BY <1>15, <2>2, <2>3 DEF FeederStops
<1>16. CASE HandOver(l)
  BY <1>16 DEF HandOver
<1>17. CASE ClearFeeding(l)
  <2>1. feeding' = [feeding EXCEPT ![l] = FALSE]
    BY <1>17 DEF ClearFeeding
  <2>2. feeding' \in [Leases -> BOOLEAN]
    BY <2>1
  <2> QED BY <1>17, <2>2 DEF ClearFeeding
<1>18. CASE DropTurn(l)
  BY <1>18 DEF DropTurn
<1> QED
  BY <1>3, <1>4, <1>5, <1>6, <1>7, <1>8, <1>9, <1>10, <1>11, <1>12, <1>13, <1>14, <1>15, <1>16, <1>17, <1>18
     DEF LeaseThread, Feeder

(* The channel never holds more than it can, nor the runner.               *)
LEMMA IntakeTypes ==
  ASSUME LeaseInv, [Next]_vars
  PROVE  /\ salts' \in Seq(SaltIds) /\ Len(salts') <= ChannelCap
         /\ held' \subseteq SaltIds /\ Cardinality(held') <= RunnerCap
         /\ outcomes' \in [Leases -> Seq({"reported", "dropped", "failed"})]
<1>0. TypeOK /\ ThreadInv /\ SaltInv
  BY DEF LeaseInv, FeedInv
<1>1. /\ salts \in Seq(SaltIds) /\ Len(salts) <= ChannelCap /\ held \subseteq SaltIds
      /\ Cardinality(held) <= RunnerCap /\ IsFiniteSet(held) /\ ChannelCap \in Nat
      /\ RunnerCap \in Nat /\ Cardinality(held) \in Nat /\ Len(salts) \in Nat
      /\ outcomes \in [Leases -> Seq({"reported", "dropped", "failed"})]
  BY <1>0, FeedAssumption, FS_CardinalityType DEF TypeOK, SaltInv
<1>2. ASSUME salts # <<>>, salts' = Tail(salts)
      PROVE  salts' \in Seq(SaltIds) /\ Len(salts') <= ChannelCap
  <2>1. salts' \in Seq(SaltIds) /\ Len(salts') = Len(salts) - 1
    BY <1>1, <1>2
  <2> QED BY <1>1, <2>1
<1>3. ASSUME NEW l \in Leases, SendSalt(l)
      PROVE  salts' \in Seq(SaltIds) /\ Len(salts') <= ChannelCap
  <2>1. index[l] \in Nat /\ index[l] < SaltCount[l]
    BY <1>0, <1>3, ThreadTypes DEF SendSalt, ThreadInv, Threads
  <2>2. [lease |-> l, index |-> index[l]] \in SaltIds
    BY <2>1, SaltFields
  <2>3. Len(salts) < ChannelCap /\ salts' = Append(salts, [lease |-> l, index |-> index[l]])
    BY <1>3 DEF SendSalt
  <2>4. salts' \in Seq(SaltIds) /\ Len(salts') = Len(salts) + 1
    BY <1>1, <2>2, <2>3
  <2> QED BY <1>1, <2>3, <2>4
<1>4. CASE TakeSalt
  <2>1. Head(salts) \in SaltIds /\ Head(salts) \notin held
    BY <1>0, <1>4, HeadNotHeld DEF TakeSalt
  <2>2. held' = held \union {Head(salts)} /\ Cardinality(held) < RunnerCap
    BY <1>4 DEF TakeSalt
  <2>3. Cardinality(held') = Cardinality(held) + 1
    BY <1>1, <2>1, <2>2, FS_AddElement
  <2>4. Cardinality(held') <= RunnerCap /\ held' \subseteq SaltIds
    BY <1>1, <2>1, <2>2, <2>3
  <2> QED BY <1>1, <1>2, <1>4, <2>4 DEF TakeSalt
<1>5. ASSUME NEW salt \in SaltIds, AnswerSalt(salt)
      PROVE  /\ held' \subseteq SaltIds /\ Cardinality(held') <= RunnerCap /\ salts' = salts
             /\ outcomes' \in [Leases -> Seq({"reported", "dropped", "failed"})]
  <2>1. salt \in held /\ held' = held \ {salt} /\ salts' = salts
    BY <1>5 DEF AnswerSalt
  <2>2. Cardinality(held') = Cardinality(held) - 1
    BY <1>1, <2>1, FS_RemoveElement
  <2>3. Cardinality(held') <= RunnerCap
    BY <1>1, <2>2
  <2>4. \E o \in {"reported", "dropped", "failed"} : Post(salt, o)
    BY <1>5 DEF AnswerSalt
  <2> QED BY <1>0, <1>1, <2>1, <2>3, <2>4, Posted
<1>6. CASE RefuseSalt
  <2>1. salts # <<>> /\ salts' = Tail(salts) /\ held' = held
    BY <1>6 DEF RefuseSalt, runnerVars
  <2>2. Head(salts) \in SaltIds
    BY <1>0, <2>1, HeadNotHeld
  <2>3. \E o \in {"reported", "dropped", "failed"} : Post(Head(salts), o)
    BY <1>6 DEF RefuseSalt
  <2> QED BY <1>0, <1>1, <1>2, <2>1, <2>2, <2>3, Posted
<1>7. ASSUME NEW l \in Leases, Receive(l)
      PROVE  outcomes' \in [Leases -> Seq({"reported", "dropped", "failed"})]
  <2>1. outcomes[l] # <<>> /\ outcomes' = [outcomes EXCEPT ![l] = Tail(@)]
    BY <1>7 DEF Receive
  <2>2. Tail(outcomes[l]) \in Seq({"reported", "dropped", "failed"})
    <3>1. outcomes[l] \in Seq({"reported", "dropped", "failed"})
      BY <1>1
    <3> QED BY <2>1, <3>1
  <2> QED BY <1>1, <2>1, <2>2
<1>8. \/ UNCHANGED salts \/ TakeSalt \/ RefuseSalt \/ \E l \in Leases : SendSalt(l)
  BY DEF Next, LeaseThread, Granted, StopsWaiting, Quit, DropPlace, Report, Receive, ReceiveEnds,
     Return, Feeder, FeedSalt, CountSalt, FeederStops, HandOver, ClearFeeding, DropTurn, Runner,
     RunnerDrained, RunnerGone, AnswerSalt, Callers, StreamStarts, RunnerExits, Reseed, Join,
     CancelLease, vars
<1>9. \/ UNCHANGED held \/ TakeSalt \/ \E salt \in SaltIds : AnswerSalt(salt)
  BY DEF Next, LeaseThread, Granted, StopsWaiting, Quit, DropPlace, Report, Receive, ReceiveEnds,
     Return, Feeder, FeedSalt, SendSalt, CountSalt, FeederStops, HandOver, ClearFeeding, DropTurn,
     Runner, RunnerDrained, RunnerGone, RefuseSalt, Callers, StreamStarts, RunnerExits, Reseed,
     Join, CancelLease, vars, runnerVars
<1>10. \/ UNCHANGED outcomes \/ RefuseSalt \/ (\E l \in Leases : Receive(l))
       \/ \E salt \in SaltIds : AnswerSalt(salt)
  BY DEF Next, LeaseThread, Granted, StopsWaiting, Quit, DropPlace, Report, ReceiveEnds,
     Return, Feeder, FeedSalt, SendSalt, CountSalt, FeederStops, HandOver, ClearFeeding, DropTurn,
     Runner, TakeSalt, RunnerDrained, RunnerGone, Callers, StreamStarts, RunnerExits, Reseed,
     Join, CancelLease, vars
<1>11. salts' \in Seq(SaltIds) /\ Len(salts') <= ChannelCap
  BY <1>1, <1>2, <1>3, <1>8 DEF TakeSalt, RefuseSalt
<1>12. held' \subseteq SaltIds /\ Cardinality(held') <= RunnerCap
  BY <1>1, <1>4, <1>5, <1>9
<1>13. outcomes' \in [Leases -> Seq({"reported", "dropped", "failed"})]
  BY <1>1, <1>6, <1>7, <1>5, <1>10
<1> QED BY <1>11, <1>12, <1>13

(* Counters stay below the salts a lease has: it never sends more, and     *)
(* never reports more than it sent.                                        *)
LEMMA NextTypes ==
  ASSUME LeaseInv, [Next]_vars
  PROVE  TypeOK' /\ SaltsConserved'
<1>0. TypeOK /\ QueueInv /\ ThreadInv /\ SaltInv
  BY DEF LeaseInv, FeedInv
<1>1. ThreadInv' /\ SaltInv'
  BY <1>0, NextThreads, NextSalts
<1>2. /\ waiting' \in Seq(Leases) /\ nextId' \in Nat /\ id' \in [Leases -> Nat]
      /\ lease' \in [Leases -> {"new", "waiting", "quitting", "leaving", "reporting",
                                "receiving", "joining", "returned"}]
      /\ feeder' \in [Leases -> {"off", "checking", "sending", "counting", "ending",
                                 "dropping", "ended"}]
      /\ index' \in [Leases -> Nat] /\ fed' \in [Leases -> Nat] /\ reported' \in [Leases -> Nat]
      /\ feeding' \in [Leases -> BOOLEAN] /\ stop' \in [Leases -> BOOLEAN]
      /\ stopped' \in [Leases -> BOOLEAN]
      /\ result' \in [Leases -> {"none", "complete", "stopped", "closed", "fault"}]
      /\ round' \in [Leases -> Nat] /\ leaseRound' \in Nat /\ need' \in [Leases -> Nat]
      /\ runner' \in {"off", "running", "draining", "leaving"} /\ runnerLive' \in BOOLEAN
      /\ streams' \in 0..MaxStreams /\ reseeds' \in 0..MaxReseeds /\ fresh' \in Nat
  <2>1. /\ waiting \in Seq(Leases) /\ nextId \in Nat /\ id \in [Leases -> Nat]
        /\ fresh \in Nat /\ need \in [Leases -> Nat]
        /\ runner \in {"off", "running", "draining", "leaving"} /\ runnerLive \in BOOLEAN
        /\ streams \in 0..MaxStreams /\ reseeds \in 0..MaxReseeds
    BY <1>0 DEF TypeOK
  <2>2. CASE \E l \in Leases : Join(l) \/ LeaseThread(l) \/ Feeder(l)
    BY <1>0, <2>1, <2>2, LeaseStepTypes, ThreadTypes
  <2>3. ASSUME UNCHANGED <<turnVars, threadVars, leaseRound, need>>
        PROVE  /\ waiting' \in Seq(Leases) /\ nextId' \in Nat /\ id' \in [Leases -> Nat]
               /\ lease' \in [Leases -> {"new", "waiting", "quitting", "leaving", "reporting",
                                         "receiving", "joining", "returned"}]
               /\ feeder' \in [Leases -> {"off", "checking", "sending", "counting", "ending",
                                          "dropping", "ended"}]
               /\ index' \in [Leases -> Nat] /\ fed' \in [Leases -> Nat]
               /\ reported' \in [Leases -> Nat]
               /\ feeding' \in [Leases -> BOOLEAN] /\ stop' \in [Leases -> BOOLEAN]
               /\ result' \in [Leases -> {"none", "complete", "stopped", "closed", "fault"}]
               /\ round' \in [Leases -> Nat] /\ leaseRound' \in Nat
               /\ need' \in [Leases -> Nat]
    BY <1>0, <2>1, <2>3, ThreadTypes DEF turnVars, threadVars
  <2>4. CASE Runner \/ RunnerExits \/ UNCHANGED vars
    <3>1. /\ UNCHANGED <<turnVars, threadVars, stopped, leaseRound, historyVars, streams>>
          /\ runner' \in {"off", "running", "draining", "leaving"}
          /\ runnerLive' = runnerLive \/ runnerLive' = FALSE
      BY <2>1, <2>4 DEF Runner, TakeSalt, RefuseSalt, RunnerDrained, RunnerGone, AnswerSalt,
         RunnerExits, vars, runnerVars
    <3> QED BY <1>0, <2>1, <2>3, <3>1, ThreadTypes DEF historyVars
  <2>5. CASE StreamStarts
    <3>1. MaxStreams \in Nat /\ streams' = streams + 1 /\ streams < MaxStreams
      BY <2>5, FeedAssumption DEF StreamStarts
    <3>2. streams' \in 0..MaxStreams
      BY <2>1, <3>1
    <3> QED BY <1>0, <2>1, <2>3, <2>5, <3>2, ThreadTypes DEF StreamStarts, historyVars
  <2>6. CASE \E l \in Leases : CancelLease(l)
    <3>1. PICK l \in Leases : CancelLease(l)
      BY <2>6
    <3>2. stopped' = [stopped EXCEPT ![l] = TRUE] /\ stopped \in [Leases -> BOOLEAN]
      BY <1>0, <3>1, ThreadTypes DEF CancelLease
    <3>3. stopped' \in [Leases -> BOOLEAN]
      BY <3>2
    <3> QED BY <2>1, <2>3, <3>1, <3>3 DEF CancelLease, historyVars, runnerVars
  <2>7. CASE Reseed
    <3>1. MaxReseeds \in Nat /\ reseeds' = reseeds + 1 /\ reseeds < MaxReseeds
      BY <2>7, FeedAssumption DEF Reseed
    <3>2. reseeds' \in 0..MaxReseeds
      BY <2>1, <3>1
    <3>3. stopped' = [l \in Leases |-> stopped[l] \/ Open(l)]
      BY <2>7 DEF Reseed
    <3>4. stopped' \in [Leases -> BOOLEAN]
      BY <3>3
    <3>5. leaseRound \in Nat /\ (fresh' = leaseRound + 1 \/ fresh' = fresh)
      BY <1>0, <2>7, ThreadTypes DEF Reseed
    <3>6. fresh' \in Nat
      BY <2>1, <3>5
    <3> QED BY <2>1, <2>3, <2>7, <3>2, <3>4, <3>6 DEF Reseed, runnerVars
  <2> QED BY <2>2, <2>4, <2>5, <2>6, <2>7 DEF Next, Callers
<1>3. IsFiniteSet(held') /\ salts' \in Seq(SaltIds)
  BY <1>1, IntakeTypes DEF SaltInv
<1>4. ASSUME NEW l \in Leases
      PROVE  /\ Sent(l)' = reported'[l] + Len(outcomes'[l]) + WithRunner(l)' + InChannel(l)'
             /\ Len(outcomes'[l]) \in Nat /\ WithRunner(l)' \in Nat /\ InChannel(l)' \in Nat
             /\ reported'[l] \in Nat
  <2>1. outcomes'[l] \in Seq({"reported", "dropped", "failed"})
    BY IntakeTypes
  <2>2. WithRunner(l)' \in Nat /\ InChannel(l)' \in Nat
    BY <1>3, HeldCounted, Counted DEF WithRunner, InChannel
  <2>3. reported'[l] \in Nat
    BY <1>2
  <2>4. Sent(l)' = reported'[l] + Len(outcomes'[l]) + WithRunner(l)' + InChannel(l)'
    BY NextConserved
  <2>5. Len(outcomes'[l]) \in Nat
    BY <2>1
  <2> QED BY <2>2, <2>3, <2>4, <2>5
<1>5. ASSUME NEW l \in Leases
      PROVE  fed'[l] \in 0..SaltCount[l] /\ index'[l] = fed'[l] /\ Sent(l)' \in 0..SaltCount[l]
  <2>1. index'[l] = fed'[l] /\ (feeder'[l] = "counting" => index'[l] < SaltCount[l])
    BY <1>1 DEF ThreadInv, Threads
  <2>2. fed'[l] \in Nat /\ SaltCount[l] \in Nat
    BY <1>2, FeedAssumption
  <2>3. fed'[l] <= SaltCount[l]
    <3>1. fed[l] \in Nat /\ fed[l] <= SaltCount[l] /\ index[l] = fed[l]
      BY <1>0, <2>2, ThreadTypes DEF ThreadInv, Threads
    <3>2. fed'[l] = fed[l] \/ (fed'[l] = fed[l] + 1 /\ feeder[l] = "counting")
      <4>1. UNCHANGED fed \/ \E k \in Leases : CountSalt(k)
        BY DEF Next, LeaseThread, Granted, StopsWaiting, Quit, DropPlace, Report, Receive,
           ReceiveEnds, Return, Feeder, FeedSalt, SendSalt, FeederStops, HandOver, ClearFeeding,
           DropTurn, Runner, TakeSalt, RefuseSalt, RunnerDrained, RunnerGone, AnswerSalt,
           Callers, StreamStarts, RunnerExits, Reseed, Join, CancelLease, vars, threadVars
      <4> QED BY <1>0, <4>1, ThreadTypes DEF CountSalt
    <3>3. feeder[l] = "counting" => index[l] < SaltCount[l]
      BY <1>0 DEF ThreadInv, Threads
    <3> QED BY <2>2, <3>1, <3>2, <3>3
  <2> QED BY <2>1, <2>2, <2>3 DEF Sent
<1>6. ASSUME NEW l \in Leases PROVE reported'[l] \in 0..SaltCount[l]
  <2>1. SaltCount[l] \in Nat
    BY FeedAssumption
  <2> QED BY <1>4, <1>5, <2>1
<1>7. /\ {index', fed', reported'} \subseteq [Leases -> Nat]
      /\ \A l \in Leases : {index'[l], fed'[l], reported'[l]} \subseteq 0..SaltCount[l]
  BY <1>2, <1>5, <1>6
<1>8. TypeOK'
  BY <1>2, <1>7, IntakeTypes DEF TypeOK
<1>9. SaltsConserved'
  BY <1>4 DEF SaltsConserved, Sent, WithRunner, InChannel, PlacesOf
<1> QED BY <1>8, <1>9

(* The books start balanced.                                               *)
LEMMA InitLease == Init => LeaseInv
<1> SUFFICES ASSUME Init PROVE LeaseInv
  OBVIOUS
<1>1. /\ waiting = <<>> /\ salts = <<>> /\ held = {} /\ DOMAIN waiting = {} /\ DOMAIN salts = {}
      /\ Len(salts) = 0 /\ IsFiniteSet(held) /\ Cardinality(held) = 0
      /\ waiting \in Seq(Leases) /\ salts \in Seq(SaltIds)
  BY FS_EmptySet DEF Init
<1>2. TypeOK
  <2>1. /\ {index, fed, reported} \subseteq [Leases -> Nat]
        /\ \A l \in Leases : {index[l], fed[l], reported[l]} \subseteq 0..SaltCount[l]
    <3>1. \A l \in Leases : SaltCount[l] \in Nat
      BY FeedAssumption
    <3> QED BY <3>1 DEF Init
  <2>2. outcomes \in [Leases -> Seq({"reported", "dropped", "failed"})]
    BY DEF Init
  <2>3. /\ ChannelCap \in Nat /\ RunnerCap \in Nat /\ 0 \in 0..MaxStreams /\ 0 \in 0..MaxReseeds
    BY FeedAssumption
  <2>4. /\ feeding \in [Leases -> BOOLEAN] /\ stop \in [Leases -> BOOLEAN]
        /\ stopped \in [Leases -> BOOLEAN] /\ runnerLive \in BOOLEAN
    BY Zenon DEF Init
  <2>5. /\ nextId \in Nat /\ id \in [Leases -> Nat] /\ round \in [Leases -> Nat]
        /\ leaseRound \in Nat /\ fresh \in Nat /\ need \in [Leases -> Nat]
        /\ lease \in [Leases -> {"new", "waiting", "quitting", "leaving", "reporting",
                                 "receiving", "joining", "returned"}]
        /\ feeder \in [Leases -> {"off", "checking", "sending", "counting", "ending",
                                  "dropping", "ended"}]
        /\ result \in [Leases -> {"none", "complete", "stopped", "closed", "fault"}]
        /\ runner \in {"off", "running", "draining", "leaving"}
        /\ streams \in 0..MaxStreams /\ reseeds \in 0..MaxReseeds
    BY <2>3 DEF Init
  <2>6. Len(salts) <= ChannelCap /\ Cardinality(held) <= RunnerCap /\ held \subseteq SaltIds
    BY <1>1, <2>3
  <2> QED BY <1>1, <2>1, <2>2, <2>4, <2>5, <2>6 DEF TypeOK
<1>3. ASSUME NEW l \in Leases
      PROVE  /\ lease[l] = "new" /\ feeder[l] = "off" /\ index[l] = 0 /\ fed[l] = 0
             /\ reported[l] = 0 /\ feeding[l] = TRUE /\ stop[l] = FALSE /\ result[l] = "none"
             /\ outcomes[l] = <<>>
  BY DEF Init
<1>4. QueueInv /\ ThreadInv
  BY <1>1, <1>3 DEF QueueInv, ThreadInv, Threads, InQueue, Before
<1>5. SaltInv /\ FedInTurn
  BY <1>1 DEF SaltInv, FedInTurn
<1>6. OneFeeder /\ AllReported /\ NothingAfterReturn
  BY <1>3 DEF OneFeeder, AllReported, NothingAfterReturn
<1>7. SaltsConserved
  <2> SUFFICES ASSUME NEW l \in Leases
               PROVE  fed[l] + (IF feeder[l] = "counting" THEN 1 ELSE 0) =
                        reported[l] + Len(outcomes[l]) + Cardinality(OfLease(l, held))
                        + Cardinality({i \in DOMAIN salts : salts[i].lease = l})
    BY DEF SaltsConserved
  <2>1. OfLease(l, held) = {} /\ {i \in DOMAIN salts : salts[i].lease = l} = {}
    BY <1>1 DEF OfLease
  <2>2. Cardinality({}) = 0
    BY FS_EmptySet
  <2>3. /\ Cardinality(OfLease(l, held)) = 0
        /\ Cardinality({i \in DOMAIN salts : salts[i].lease = l}) = 0
    BY <2>1, <2>2
  <2>4. fed[l] = 0 /\ feeder[l] = "off" /\ reported[l] = 0 /\ outcomes[l] = <<>>
    BY <1>3, Zenon
  <2>5. Len(outcomes[l]) = 0
    BY <2>4
  <2>6. fed[l] + (IF feeder[l] = "counting" THEN 1 ELSE 0) = 0
    BY <2>4
  <2> QED BY <2>3, <2>4, <2>5, <2>6
<1> QED BY <1>2, <1>4, <1>5, <1>6, <1>7 DEF LeaseInv, FeedInv

(* Every step keeps the books balanced.                                    *)
LEMMA NextLease == LeaseInv /\ [Next]_vars => LeaseInv'
<1> SUFFICES ASSUME LeaseInv, [Next]_vars PROVE LeaseInv'
  OBVIOUS
<1>1. TypeOK /\ QueueInv /\ ThreadInv /\ OneFeeder
  BY DEF LeaseInv, FeedInv
<1>2. QueueInv' /\ ThreadInv' /\ OneFeeder'
  BY <1>1, NextQueue, NextThreads, NextFeeder
<1>3. TypeOK' /\ SaltsConserved' /\ SaltInv' /\ FedInTurn'
  BY NextTypes, NextSalts
<1>4. AllReported' /\ NothingAfterReturn'
  BY <1>2 DEF AllReported, NothingAfterReturn, ThreadInv, Threads, QueueInv, InQueue
<1> QED BY <1>2, <1>3, <1>4 DEF LeaseInv, FeedInv

(* The invariant of leases and their salts.                                *)
LEMMA LeasesInvariant == Spec => []LeaseInv
BY InitLease, NextLease, PTL DEF Spec

(* However leases join, feed, are cancelled and reseeded, and whenever the *)
(* runner goes away: one lease feeds at a time, each salt it queued is in  *)
(* exactly one place, a complete lease has an outcome for each of its      *)
(* salts, and nothing of a lease is queued once it has returned            *)
(* (sample_lease, report_lease).                                           *)
THEOREM LeasesConserve == Spec => []FeedInv
<1>1. LeaseInv => FeedInv
  BY DEF LeaseInv
<1> QED BY <1>1, LeasesInvariant, PTL

-----------------------------------------------------------------------------
(* Rounds *)

(* The types the rounds rest on.                                           *)
LEMMA RoundTypes ==
  ASSUME TypeOK
  PROVE  /\ leaseRound \in Nat /\ fresh \in Nat /\ nextId \in Nat
         /\ \A l \in Leases : /\ need[l] \in Nat /\ round[l] \in Nat /\ id[l] \in Nat
                              /\ index[l] \in Nat /\ SaltCount[l] \in Nat \ {0}
  BY FeedAssumption, ThreadTypes DEF TypeOK

(* A lease that has its turn met the counts of all in front of it.         *)
LEMMA FrontReached ==
  ASSUME TypeOK, QueueInv, RoundInv, NEW l \in Leases, lease[l] # "new", Front(l)
  PROVE  need[l] <= leaseRound
<1>1. ASSUME NEW m \in Leases, InQueue(m) PROVE id[l] <= id[m]
  BY <1>1, InOrder DEF InQueue
<1>2. ASSUME NEW m \in Leases, WillCount(m) PROVE ~(id[m] < id[l])
  BY <1>1, <1>2, RoundTypes DEF WillCount
<1> QED BY <1>2 DEF RoundInv

(* A lease that will count a cancellation stays one until it counts it.    *)
LEMMA WillStay ==
  ASSUME TypeOK, QueueInv, ThreadInv, [Next]_vars, leaseRound' = leaseRound,
         NEW m \in Leases, WillCount(m)
  PROVE  WillCount(m)' /\ id'[m] = id[m]
<1>1. /\ stopped[m] /\ InQueue(m) /\ lease[m] # "new"
      /\ lease[m] \in {"waiting", "quitting"} \/ (feeder[m] = "checking" /\ index[m] = 0)
      /\ lease[m] \in Before => feeder[m] = "off"
      /\ feeder[m] = "off" => index[m] = 0
      /\ leaseRound \in Nat /\ SaltCount[m] # 0
  BY InOrder, RoundTypes DEF WillCount, ThreadInv, Threads
<1>2. leaseRound + 1 # leaseRound
  BY <1>1
<1>3. ASSUME NEW k \in Leases, k # m, Join(k) \/ LeaseThread(k) \/ Feeder(k)
      PROVE  WillCount(m)' /\ id'[m] = id[m]
  <2>1. lease'[m] = lease[m] /\ feeder'[m] = feeder[m] /\ index'[m] = index[m]
        /\ stopped' = stopped /\ id'[m] = id[m]
    <3>1. CASE Join(k) \/ LeaseThread(k)
      BY <1>3, <3>1, ThreadTypes, QueueTypes DEF Join, LeaseThread, Granted, StopsWaiting, Quit,
         DropPlace, Report, Receive, ReceiveEnds, Return, EndReport, Move, turnVars
    <3>2. CASE Feeder(k)
      BY <1>3, <3>2, ThreadTypes DEF Feeder, FeedSalt, SendSalt, CountSalt, FeederStops, HandOver,
         ClearFeeding, DropTurn, Move, turnVars
    <3> QED BY <1>3, <3>1, <3>2
  <2>2. InQueue(m)'
    <3>1. CASE UNCHANGED waiting
      BY <1>1, <3>1 DEF InQueue
    <3>2. CASE Leave(k)
      BY <1>1, <1>3, <3>2, Leaves, InOrder, QueueTypes
    <3>3. CASE Join(k)
      <4>1. waiting' = Append(waiting, k)
        BY <3>3 DEF Join
      <4>2. \A i \in DOMAIN waiting : i \in DOMAIN waiting' /\ waiting'[i] = waiting[i]
        BY <4>1, QueueTypes
      <4> QED BY <1>1, <4>2 DEF InQueue
    <3> QED
      BY <1>3, <3>1, <3>2, <3>3 DEF LeaseThread, Granted, StopsWaiting, Quit, DropPlace, Report,
         Receive, ReceiveEnds, Return, Feeder, FeedSalt, SendSalt, CountSalt, FeederStops,
         HandOver, ClearFeeding, DropTurn, turnVars
  <2> QED BY <1>1, <2>1, <2>2 DEF WillCount
<1>4. ASSUME LeaseThread(m) \/ Feeder(m)
      PROVE  /\ UNCHANGED turnVars /\ stopped' = stopped
             /\ \/ lease'[m] \in {"waiting", "quitting"}
                \/ (feeder'[m] = "checking" /\ index'[m] = 0)
  <2>1. CASE Granted(m) \/ StopsWaiting(m)
    BY <1>1, <2>1, ThreadTypes DEF Granted, StopsWaiting, Move, Before
  <2>2. CASE Report(m) \/ Receive(m) \/ ReceiveEnds(m) \/ Return(m)
    BY <1>1, <2>2, ThreadTypes DEF Report, Receive, ReceiveEnds, Return, EndReport, Move, Before
  <2>3. ~Quit(m) /\ ~DropPlace(m) /\ ~FeedSalt(m) /\ ~FeederStops(m) /\ ~HandOver(m)
    BY <1>1, <1>2 DEF Quit, DropPlace, FeedSalt, FeederStops, HandOver, StoppedFeeder, Bump, Before
  <2>4. ~SendSalt(m) /\ ~CountSalt(m) /\ ~ClearFeeding(m) /\ ~DropTurn(m)
    BY <1>1 DEF SendSalt, CountSalt, ClearFeeding, DropTurn, Before
  <2> QED BY <1>4, <2>1, <2>2, <2>3, <2>4 DEF LeaseThread, Feeder
<1>5. ASSUME UNCHANGED <<turnVars, threadVars>>, stopped'[m]
      PROVE  WillCount(m)' /\ id'[m] = id[m]
  BY <1>1, <1>5 DEF WillCount, InQueue, turnVars, threadVars
<1>6. CASE Runner \/ StreamStarts \/ RunnerExits \/ UNCHANGED vars
  BY <1>1, <1>5, <1>6 DEF Runner, TakeSalt, RefuseSalt, RunnerDrained, RunnerGone, AnswerSalt,
     StreamStarts, RunnerExits, vars
<1>7. CASE Reseed \/ \E k \in Leases : CancelLease(k)
  BY <1>1, <1>5, <1>7, ThreadTypes DEF Reseed, CancelLease
<1>8. ~Join(m)
  BY <1>1 DEF Join
<1>9. ASSUME LeaseThread(m) \/ Feeder(m) PROVE WillCount(m)' /\ id'[m] = id[m]
  BY <1>1, <1>4, <1>9 DEF WillCount, InQueue, turnVars
<1> QED
  BY <1>3, <1>6, <1>7, <1>8, <1>9 DEF Next, Callers

(* A step that does not count leaves every round a lease needs in reach.   *)
LEMMA RoundsReached ==
  ASSUME LeaseInv, RoundInv, [Next]_vars, leaseRound' = leaseRound
  PROVE  /\ \/ fresh' <= leaseRound
            \/ (fresh' = leaseRound + 1 /\ \E m \in Leases : WillCount(m)')
         /\ \A l \in Leases : lease'[l] # "new" =>
              \/ need'[l] <= leaseRound
              \/ /\ need'[l] = leaseRound + 1 /\ feeder'[l] = "off"
                 /\ \E m \in Leases : WillCount(m)' /\ id'[m] < id'[l]
<1>0. TypeOK /\ QueueInv /\ ThreadInv
  BY DEF LeaseInv, FeedInv
<1>1. ASSUME NEW m \in Leases, WillCount(m) PROVE WillCount(m)' /\ id'[m] = id[m]
  BY <1>0, <1>1, WillStay
<1>2. \/ fresh' <= leaseRound
      \/ (fresh' = leaseRound + 1 /\ \E m \in Leases : WillCount(m)')
  <2>1. CASE UNCHANGED fresh
    BY <1>1, <2>1 DEF RoundInv
  <2>2. CASE Reseed /\ fresh' # fresh
    <3>1. PICK m \in Leases : lease[m] = "waiting" /\ ~stopped[m]
      BY <2>2 DEF Reseed
    <3>2. fresh' = leaseRound + 1
      BY <2>2 DEF Reseed
    <3>3. stopped'[m] /\ UNCHANGED <<lease, waiting>>
      BY <2>2, <3>1 DEF Reseed, Open, threadVars, turnVars
    <3>4. WillCount(m)'
      BY <1>0, <3>1, <3>3 DEF WillCount, QueueInv, InQueue
    <3> QED BY <3>2, <3>4
  <2>3. UNCHANGED fresh \/ Reseed
    BY DEF Next, LeaseThread, Granted, StopsWaiting, Quit, DropPlace, Report, Receive,
       ReceiveEnds, Return, Feeder, FeedSalt, SendSalt, CountSalt, FeederStops, HandOver,
       ClearFeeding, DropTurn, Runner, TakeSalt, RefuseSalt, RunnerDrained, RunnerGone,
       AnswerSalt, Callers, StreamStarts, RunnerExits, Join, CancelLease, vars, historyVars
  <2> QED BY <2>1, <2>2, <2>3
<1>3. ASSUME NEW l \in Leases, lease'[l] # "new"
      PROVE  \/ need'[l] <= leaseRound
             \/ /\ need'[l] = leaseRound + 1 /\ feeder'[l] = "off"
                /\ \E m \in Leases : WillCount(m)' /\ id'[m] < id'[l]
  <2>1. CASE Join(l)
    <3>1. need'[l] = fresh /\ id'[l] = nextId /\ feeder'[l] = feeder[l] /\ lease[l] = "new"
      BY <1>0, <2>1, QueueTypes DEF Join, TypeOK
    <3>2. feeder[l] = "off"
      BY <1>0, <3>1 DEF ThreadInv, Threads, Before
    <3>3. ASSUME NEW m \in Leases, WillCount(m) PROVE WillCount(m)' /\ id'[m] < id'[l]
      <4>1. lease[m] # "new"
        BY <1>0, <3>3, InOrder DEF WillCount
      <4>2. id[m] < nextId
        BY <1>0, <4>1 DEF QueueInv
      <4> QED BY <1>1, <3>1, <3>3, <4>2
    <3> QED BY <3>1, <3>2, <3>3 DEF RoundInv
  <2>2. CASE ~Join(l)
    <3>1. need'[l] = need[l] /\ id'[l] = id[l] /\ lease[l] # "new"
      <4>1. CASE \E k \in Leases : Join(k)
        <5>1. PICK k \in Leases : Join(k)
          BY <4>1
        <5>2. k # l
          BY <2>2, <5>1
        <5>3. /\ id' = [id EXCEPT ![k] = nextId] /\ need' = [need EXCEPT ![k] = fresh]
              /\ lease' = [lease EXCEPT ![k] = "waiting"]
          BY <5>1 DEF Join, Move
        <5>4. /\ id \in [Leases -> Nat] /\ need \in [Leases -> Nat] /\ DOMAIN lease = Leases
          BY <1>0 DEF TypeOK
        <5>5. id'[l] = id[l] /\ need'[l] = need[l] /\ lease'[l] = lease[l]
          BY <5>2, <5>3, <5>4
        <5> QED BY <1>3, <5>5
      <4>2. CASE \E k \in Leases : LeaseThread(k)
        BY <1>0, <1>3, <4>2, ThreadTypes DEF LeaseThread, Granted, StopsWaiting, Quit, DropPlace,
           Report, Receive, ReceiveEnds, Return, EndReport, Move, historyVars, turnVars
      <4>3. CASE \E k \in Leases : Feeder(k)
        BY <1>3, <4>3 DEF Feeder, FeedSalt, SendSalt, CountSalt, FeederStops, HandOver,
           ClearFeeding, DropTurn, historyVars, turnVars
      <4>4. CASE Runner \/ StreamStarts \/ RunnerExits \/ Reseed \/ UNCHANGED vars
                 \/ \E k \in Leases : CancelLease(k)
        BY <1>3, <4>4 DEF Runner, TakeSalt, RefuseSalt, RunnerDrained, RunnerGone, AnswerSalt,
           StreamStarts, RunnerExits, Reseed, CancelLease, vars, historyVars, turnVars, threadVars
      <4> QED BY <4>1, <4>2, <4>3, <4>4 DEF Next, Callers
    <3>2. CASE need[l] <= leaseRound
      BY <3>1, <3>2
    <3>3. CASE ~(need[l] <= leaseRound)
      <4>1. need[l] = leaseRound + 1 /\ feeder[l] = "off"
            /\ \E m \in Leases : WillCount(m) /\ id[m] < id[l]
        BY <3>1, <3>3 DEF RoundInv
      <4>2. ~Granted(l)
        BY <1>0, <3>1, <3>3, FrontReached DEF Granted
      <4>3. feeder'[l] = "off"
        <5>1. CASE \E k \in Leases : LeaseThread(k)
          BY <1>0, <4>1, <4>2, <5>1, ThreadTypes DEF LeaseThread, Granted, StopsWaiting, Quit,
             DropPlace, Report, Receive, ReceiveEnds, Return, EndReport, Move
        <5>2. CASE \E k \in Leases : Feeder(k)
          BY <1>0, <4>1, <5>2, ThreadTypes DEF Feeder, FeedSalt, SendSalt, CountSalt,
             FeederStops, HandOver, ClearFeeding, DropTurn, Move
        <5>3. CASE \/ Runner \/ StreamStarts \/ RunnerExits \/ Reseed
                   \/ (\E k \in Leases : Join(k) \/ CancelLease(k)) \/ UNCHANGED vars
          BY <4>1, <5>3 DEF Runner, TakeSalt, RefuseSalt, RunnerDrained, RunnerGone, AnswerSalt,
             StreamStarts, RunnerExits, Reseed, Join, CancelLease, vars, threadVars
        <5> QED BY <5>1, <5>2, <5>3 DEF Next, Callers
      <4>4. \E m \in Leases : WillCount(m)' /\ id'[m] < id'[l]
        BY <1>1, <3>1, <4>1
      <4> QED BY <3>1, <4>1, <4>3, <4>4
    <3> QED BY <3>2, <3>3
  <2> QED BY <2>1, <2>2
<1> QED BY <1>2, <1>3

(* Rounds stay in the order of the turns.                                  *)
LEMMA NextRounds ==
  ASSUME LeaseInv, RoundInv, [Next]_vars
  PROVE  RoundInv'
<1>0. TypeOK /\ QueueInv /\ ThreadInv
  BY DEF LeaseInv, FeedInv
<1>1. CASE leaseRound' # leaseRound
  <2>1. PICK l \in Leases : (Quit(l) \/ FeederStops(l)) /\ leaseRound' = leaseRound + 1
    BY <1>1 DEF Next, LeaseThread, Granted, StopsWaiting, Quit, DropPlace, Report, Receive,
       ReceiveEnds, Return, Feeder, FeedSalt, SendSalt, CountSalt, FeederStops, HandOver,
       ClearFeeding, DropTurn, Runner, TakeSalt, RefuseSalt, RunnerDrained, RunnerGone,
       AnswerSalt, Callers, StreamStarts, RunnerExits, Reseed, Join, CancelLease, vars, Bump
  <2>2. UNCHANGED <<fresh, need, round, id>>
    BY <2>1 DEF Quit, FeederStops, historyVars, turnVars
  <2>3. \A m \in Leases : /\ lease'[m] # "new" => lease[m] # "new"
                          /\ feeder'[m] # "off" => feeder[m] # "off"
    BY <1>0, <2>1, ThreadTypes DEF Quit, FeederStops, Move
  <2>4. fresh' <= leaseRound'
    BY <1>0, <2>1, <2>2, RoundTypes DEF RoundInv
  <2>5. \A m \in Leases : lease'[m] # "new" => need'[m] <= leaseRound'
    BY <1>0, <2>1, <2>2, <2>3, RoundTypes DEF RoundInv
  <2>6. \A m \in Leases : feeder'[m] # "off" => need'[m] <= round'[m] /\ round'[m] <= leaseRound'
    BY <1>0, <2>1, <2>2, <2>3, RoundTypes DEF RoundInv
  <2>7. \A k, m \in Leases : feeder'[k] # "off" /\ feeder'[m] # "off" /\ id'[k] <= id'[m] =>
          round'[k] <= round'[m]
    BY <2>2, <2>3 DEF RoundInv
  <2> QED BY <2>4, <2>5, <2>6, <2>7 DEF RoundInv
<1>2. CASE leaseRound' = leaseRound
  <2>1. /\ fresh' <= leaseRound' \/ (fresh' = leaseRound' + 1 /\ \E m \in Leases : WillCount(m)')
        /\ \A l \in Leases : lease'[l] # "new" =>
             \/ need'[l] <= leaseRound'
             \/ /\ need'[l] = leaseRound' + 1 /\ feeder'[l] = "off"
                /\ \E m \in Leases : WillCount(m)' /\ id'[m] < id'[l]
    BY <1>2, RoundsReached
  <2>2. ASSUME NEW l \in Leases, Granted(l)
        PROVE  /\ \A m \in Leases : feeder'[m] # "off" =>
                    need'[m] <= round'[m] /\ round'[m] <= leaseRound'
               /\ \A k, m \in Leases :
                    feeder'[k] # "off" /\ feeder'[m] # "off" /\ id'[k] <= id'[m] =>
                      round'[k] <= round'[m]
    <3>1. /\ lease[l] = "waiting" /\ Front(l) /\ UNCHANGED <<id, need>>
          /\ round'[l] = leaseRound
          /\ \A m \in Leases : m # l => feeder'[m] = feeder[m] /\ round'[m] = round[m]
      BY <1>0, <2>2, ThreadTypes DEF Granted, Move, turnVars, historyVars
    <3>2. need[l] <= leaseRound
      BY <1>0, <3>1, FrontReached
    <3>3. \A m \in Leases : feeder'[m] # "off" =>
            need'[m] <= round'[m] /\ round'[m] <= leaseRound'
      BY <1>0, <1>2, <3>1, <3>2, RoundTypes DEF RoundInv
    <3>4. ASSUME NEW k \in Leases, k # l, feeder[k] # "off" PROVE ~(id[l] <= id[k])
      <4>1. InQueue(l) /\ lease[k] # "new"
        BY <1>0, <3>1, <3>4 DEF QueueInv, ThreadInv, Threads, Before
      <4>2. id[k] <= id[l]
        BY <1>0, <3>4, <4>1 DEF QueueInv, InQueue
      <4>3. id[k] # id[l]
        BY <1>0, <3>1, <3>4, <4>1 DEF QueueInv
      <4> QED BY <1>0, <4>2, <4>3, RoundTypes
    <3>5. ASSUME NEW k \in Leases, NEW m \in Leases, feeder'[k] # "off", feeder'[m] # "off",
                 id'[k] <= id'[m]
          PROVE  round'[k] <= round'[m]
      <4>1. CASE m = l
        <5>1. round'[k] <= leaseRound
          BY <1>2, <3>3, <3>5
        <5> QED BY <3>1, <4>1, <5>1
      <4>2. CASE m # l /\ k = l
        BY <3>1, <3>4, <3>5, <4>2
      <4>3. CASE m # l /\ k # l
        BY <3>1, <3>5, <4>3 DEF RoundInv
      <4> QED BY <4>1, <4>2, <4>3
    <3> QED BY <3>3, <3>5
  <2>3. CASE ~\E l \in Leases : Granted(l)
    <3>1. UNCHANGED round /\ \A m \in Leases : feeder'[m] # "off" => feeder[m] # "off"
      <4>1. CASE \E k \in Leases : LeaseThread(k)
        BY <2>3, <4>1 DEF LeaseThread, StopsWaiting, Quit, DropPlace, Report, Receive,
           ReceiveEnds, Return
      <4>2. CASE \E k \in Leases : Feeder(k)
        BY <1>0, <4>2, ThreadTypes DEF Feeder, FeedSalt, SendSalt, CountSalt, FeederStops,
           HandOver, ClearFeeding, DropTurn, Move
      <4>3. CASE \/ Runner \/ StreamStarts \/ RunnerExits \/ Reseed
                 \/ (\E k \in Leases : Join(k) \/ CancelLease(k)) \/ UNCHANGED vars
        BY <4>3 DEF Runner, TakeSalt, RefuseSalt, RunnerDrained, RunnerGone, AnswerSalt,
           StreamStarts, RunnerExits, Reseed, Join, CancelLease, vars, threadVars
      <4> QED BY <4>1, <4>2, <4>3 DEF Next, Callers
    <3>2. \A m \in Leases : feeder[m] # "off" => id'[m] = id[m] /\ need'[m] = need[m]
      <4>1. UNCHANGED <<id, need>> \/ \E k \in Leases : Join(k)
        BY ZenonT(30)
        DEF Next, LeaseThread, Granted, StopsWaiting, Quit, DropPlace, Report, Receive,
           ReceiveEnds, Return, Feeder, FeedSalt, SendSalt, CountSalt, FeederStops, HandOver,
           ClearFeeding, DropTurn, Runner, TakeSalt, RefuseSalt, RunnerDrained, RunnerGone,
           AnswerSalt, Callers, StreamStarts, RunnerExits, Reseed, CancelLease, vars, turnVars,
           historyVars
      <4>2. ASSUME NEW k \in Leases, Join(k)
            PROVE  \A m \in Leases : feeder[m] # "off" => id'[m] = id[m] /\ need'[m] = need[m]
        <5>1. feeder[k] = "off"
          BY <1>0, <4>2 DEF Join, ThreadInv, Threads, Before
        <5> QED BY <1>0, <4>2, <5>1 DEF Join, TypeOK
      <4> QED BY <4>1, <4>2
    <3>3. \A m \in Leases : feeder'[m] # "off" =>
            need'[m] <= round'[m] /\ round'[m] <= leaseRound'
      BY <1>2, <3>1, <3>2 DEF RoundInv
    <3>4. \A k, m \in Leases :
            feeder'[k] # "off" /\ feeder'[m] # "off" /\ id'[k] <= id'[m] => round'[k] <= round'[m]
      BY <3>1, <3>2 DEF RoundInv
    <3> QED BY <2>1, <3>3, <3>4 DEF RoundInv
  <2> QED BY <2>1, <2>2, <2>3 DEF RoundInv
<1> QED BY <1>1, <1>2

(* The invariant of the rounds.                                            *)
LEMMA RoundsInvariant == Spec => [](LeaseInv /\ RoundInv)
<1>1. Init => RoundInv
  <2> SUFFICES ASSUME Init PROVE RoundInv
    OBVIOUS
  <2>1. fresh = 0 /\ leaseRound = 0
    BY DEF Init
  <2>2. \A l \in Leases : lease[l] = "new" /\ feeder[l] = "off"
    BY DEF Init
  <2> QED BY <2>1, <2>2 DEF RoundInv
<1>2. LeaseInv /\ RoundInv /\ [Next]_vars => RoundInv'
  BY NextRounds
<1> QED BY <1>1, <1>2, InitLease, NextLease, PTL DEF Spec

(* Whoever gives up its turn, and however reseeds fall between them: the   *)
(* runner meets leases in join order, each in index order, and in rounds   *)
(* that never fall (LeaseTurns, sample_lease).                             *)
THEOREM LeasesInTurn == Spec => []TurnOrder
<1>1. LeaseInv /\ RoundInv => TurnOrder
  <2> SUFFICES ASSUME LeaseInv, RoundInv PROVE TurnOrder
    OBVIOUS
  <2>1. TypeOK /\ ThreadInv /\ SaltInv /\ FedInTurn
    BY DEF LeaseInv, FeedInv
  <2>2. ASSUME NEW i \in DOMAIN salts, NEW j \in DOMAIN salts, i < j
        PROVE  round[salts[i].lease] <= round[salts[j].lease]
    <3>1. PICK k \in Leases, m \in Leases : k = salts[i].lease /\ m = salts[j].lease
      BY <2>1, SaltTypes
    <3>2. feeder[k] # "off" /\ feeder[m] # "off"
      BY <2>1, <3>1, SaltTypes
    <3>3. id[k] < id[m] \/ k = m
      BY <2>1, <2>2, <3>1, Zenon DEF FedInTurn
    <3>4. id[k] <= id[m]
      BY <2>1, <3>3, RoundTypes
    <3> QED BY <3>1, <3>2, <3>4 DEF RoundInv
  <2> QED BY <2>1, <2>2 DEF TurnOrder, RoundsInOrder
<1> QED BY <1>1, RoundsInvariant, PTL

(* A lease that joins after a reseed which found some lease waiting reads  *)
(* a newer round than the reseed found (lease_round, sample_lease).        *)
THEOREM RoundsRise == Spec => []RoundAfterReseed
<1>1. TypeOK /\ RoundInv => RoundAfterReseed
  BY RoundTypes DEF RoundInv, RoundAfterReseed
<1>2. LeaseInv => TypeOK
  BY DEF LeaseInv, FeedInv
<1> QED BY <1>1, <1>2, RoundsInvariant, PTL
=============================================================================
