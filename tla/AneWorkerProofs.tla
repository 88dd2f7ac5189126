--------------------------- MODULE AneWorkerProofs ---------------------------
(***************************************************************************)
(* Proofs about AneWorker, for every number of jobs, faults and events,    *)
(* every schedule of a job and every size of a block.                      *)
(***************************************************************************)
EXTENDS AneWorker, SequenceTheorems, WellFoundedInduction, TLAPS

LEMMA LeastNat ==
  ASSUME NEW T \in SUBSET Nat, T # {}
  PROVE  \E m \in T : \A n \in T : m <= n
<1> DEFINE R == OpToRel(<, Nat)
<1>1. IsWellFoundedOn(R, Nat)
  BY NatLessThanWellFounded
<1>2. R = {ss \in Nat \X Nat : ss[1] < ss[2]}
  BY DEF OpToRel
<1> HIDE DEF R
<1>3. PICK m \in T : \A n \in T : <<n, m>> \notin R
  BY <1>1, WFMin
<1>4. \A n \in T : ~(n < m)
  BY <1>2, <1>3
<1> QED BY <1>3, <1>4

LEMMA SeqIs ==
  ASSUME NEW S, NEW q \in Seq(S)
  PROVE  q = [i \in 1 .. Len(q) |-> q[i]]
OBVIOUS

Joins(f, seqs) ==
  f = [i \in 1 .. Len(seqs) |-> IF i = 1 THEN seqs[i] ELSE f[i - 1] \o seqs[i]]

LEMMA JoinsAt ==
  ASSUME NEW f, NEW seqs, Joins(f, seqs)
  PROVE  /\ DOMAIN f = 1 .. Len(seqs)
         /\ f = [i \in 1 .. Len(seqs) |-> f[i]]
         /\ \A i \in 1 .. Len(seqs) : f[i] = IF i = 1 THEN seqs[i] ELSE f[i - 1] \o seqs[i]
<1> DEFINE h == [i \in 1 .. Len(seqs) |-> IF i = 1 THEN seqs[i] ELSE f[i - 1] \o seqs[i]]
<1>1. f = h
  BY DEF Joins
<1>2. /\ DOMAIN h = 1 .. Len(seqs)
      /\ h = [i \in 1 .. Len(seqs) |-> h[i]]
      /\ \A i \in 1 .. Len(seqs) : h[i] = IF i = 1 THEN seqs[i] ELSE f[i - 1] \o seqs[i]
  OBVIOUS
<1> HIDE DEF h
<1> QED BY <1>1, <1>2

LEMMA JoinsUnique ==
  ASSUME NEW seqs, Len(seqs) \in Nat, NEW f, NEW g, Joins(f, seqs), Joins(g, seqs)
  PROVE  f = g
<1> DEFINE T == {i \in 1 .. Len(seqs) : f[i] # g[i]}
<1>1. T = {}
  <2> SUFFICES ASSUME T # {} PROVE FALSE
    OBVIOUS
  <2>1. PICK m \in T : \A n \in T : m <= n
    <3>1. T \in SUBSET Nat
      OBVIOUS
    <3> HIDE DEF T
    <3> QED BY <3>1, LeastNat
  <2>2. m = 1 \/ (m - 1 \in 1 .. Len(seqs) /\ f[m - 1] = g[m - 1])
    BY <2>1
  <2> QED BY <2>1, <2>2, JoinsAt
<1> QED BY <1>1, JoinsAt

LEMMA FlattenIs ==
  ASSUME NEW seqs, Len(seqs) \in Nat \ {0}, NEW g, Joins(g, seqs)
  PROVE  FlattenSeq(seqs) = g[Len(seqs)]
<1> DEFINE f == CHOOSE f : Joins(f, seqs)
<1>1. Joins(f, seqs)
  OBVIOUS
<1>2. FlattenSeq(seqs) = f[Len(seqs)]
  BY DEF FlattenSeq, Joins
<1> QED BY <1>1, <1>2, JoinsUnique

LEMMA Quotient ==
  ASSUME NEW a \in Nat, NEW b \in Nat \ {0}
  PROVE  /\ a \div b \in Nat
         /\ a % b \in 0 .. b - 1
         /\ a = b * (a \div b) + (a % b)
OBVIOUS

LEMMA QuotientIs ==
  ASSUME NEW b \in Nat \ {0}, NEW q \in Nat, NEW r \in 0 .. b - 1
  PROVE  /\ (b * q + r) \div b = q
         /\ (b * q + r) % b = r
OBVIOUS

LEMMA Ceil ==
  ASSUME NEW n \in Nat, NEW p \in Nat \ {0}
  PROVE  /\ DivCeil(n, p) \in Nat
         /\ n <= p * DivCeil(n, p)
         /\ \A r \in 1 .. DivCeil(n, p) : p * (r - 1) < n
         /\ n = 0 => DivCeil(n, p) = 0
         /\ n # 0 => DivCeil(n, p) # 0
BY Quotient DEF DivCeil

(* The walk of the two loops visits every sweep of every rung once, in     *)
(* order: position k is sweep (k - 1) % perBeta of rung (k - 1) \div       *)
(* perBeta, counted from one (solver.rs).                                  *)
Works == [sweeps : Nat, perBeta : Nat \ {0}]

LEMMA WalkIs ==
  ASSUME NEW w \in Works
  PROVE  Walk(w) = AllSweeps(w)
<1> DEFINE n == w.sweeps
           p == w.perBeta
           m == DivCeil(n, p)
           A == AllSweeps(w)
           seqs == [r \in DOMAIN Rungs(w) |-> [s \in 1 .. Rungs(w)[r] |-> <<r, s>>]]
           End(i) == IF p * i <= n THEN p * i ELSE n
           g == [i \in 1 .. m |-> [k \in 1 .. End(i) |-> A[k]]]
<1>1. n \in Nat /\ p \in Nat \ {0}
  BY DEF Works
<1>2. /\ m \in Nat
      /\ n <= p * m
      /\ \A r \in 1 .. m : p * (r - 1) < n
      /\ n = 0 => m = 0
      /\ n # 0 => m # 0
  BY <1>1, Ceil
<1>3. /\ DOMAIN A = 1 .. n
      /\ \A k \in 1 .. n : A[k] = <<1 + ((k - 1) \div p), 1 + ((k - 1) % p)>>
      /\ A = [k \in 1 .. n |-> A[k]]
  BY <1>1 DEF AllSweeps
<1>9. \A k \in 1 .. n : A[k] \in Nat \X Nat
  <2> TAKE k \in 1 .. n
  <2>1. k - 1 \in Nat
    OBVIOUS
  <2> HIDE DEF A, n, p
  <2>2. (k - 1) \div p \in Nat /\ (k - 1) % p \in 0 .. p - 1
    BY <1>1, <2>1, Quotient
  <2>3. 1 + ((k - 1) \div p) \in Nat /\ 1 + ((k - 1) % p) \in Nat
    BY <1>1, <2>2
  <2>4. A[k] = <<1 + ((k - 1) \div p), 1 + ((k - 1) % p)>>
    BY <1>3
  <2> QED BY <2>3, <2>4
<1>4. /\ DOMAIN Rungs(w) = 1 .. m
      /\ \A r \in 1 .. m :
           Rungs(w)[r] = IF p <= n - ((r - 1) * p) THEN p ELSE n - ((r - 1) * p)
  BY DEF Rungs
<1> HIDE DEF m, A
<1>5. /\ DOMAIN seqs = 1 .. m
      /\ \A r \in 1 .. m : seqs[r] = [s \in 1 .. Rungs(w)[r] |-> <<r, s>>]
      /\ Len(seqs) = m
  BY <1>2, <1>4
<1>6. Walk(w) = FlattenSeq(seqs)
  BY DEF Walk
<1>7. CASE n = 0
  <2>1. seqs = << >> /\ A = << >>
    BY <1>2, <1>3, <1>5, <1>7
  <2>2. FlattenSeq(seqs) = seqs
    BY <2>1 DEF FlattenSeq
  <2> QED BY <1>6, <2>1, <2>2 DEF A
<1>8. CASE n # 0
  <2> DEFINE B(i) == p * (i - 1)
             R(i) == Rungs(w)[i]
  <2>1. m \in Nat \ {0}
    BY <1>2, <1>8
  <2>2. ASSUME NEW i \in 1 .. m
        PROVE  /\ R(i) \in 1 .. p
               /\ B(i) \in Nat
               /\ End(i) = B(i) + R(i)
               /\ End(i) \in 1 .. n
               /\ i = 1 => B(i) = 0
               /\ i # 1 => End(i - 1) = B(i)
    <3>1. i - 1 \in Nat /\ p * i = B(i) + p /\ B(i) \in Nat /\ (i - 1) * p = B(i)
      BY <1>1, <1>2
    <3>2. i = 1 => B(i) = 0
      BY <1>1
    <3>3. B(i) < n /\ R(i) = IF p <= n - B(i) THEN p ELSE n - B(i)
      BY <1>2, <1>4, <3>1
    <3> HIDE DEF B, R
    <3>4. End(i) = IF B(i) + p <= n THEN B(i) + p ELSE n
      BY <3>1
    <3>5. End(i - 1) = IF B(i) <= n THEN B(i) ELSE n
      BY DEF B
    <3> HIDE DEF End, n, p
    <3>6. End(i) = B(i) + R(i) /\ R(i) \in 1 .. p /\ End(i) \in 1 .. n
      BY <1>1, <3>1, <3>3, <3>4
    <3>7. End(i - 1) = B(i)
      BY <1>1, <3>1, <3>3, <3>5
    <3> QED BY <3>1, <3>2, <3>6, <3>7
  <2>3. ASSUME NEW i \in 1 .. m, NEW s \in 1 .. R(i)
        PROVE  B(i) + s \in 1 .. n /\ A[B(i) + s] = <<i, s>>
    <3>1. s - 1 \in 0 .. p - 1 /\ i - 1 \in Nat
      BY <1>1, <1>2, <2>2
    <3>2. (B(i) + (s - 1)) \div p = i - 1 /\ (B(i) + (s - 1)) % p = s - 1
      BY <1>1, <3>1, QuotientIs
    <3> HIDE DEF B, R, End
    <3>3. B(i) + s \in 1 .. n /\ (B(i) + s) - 1 = B(i) + (s - 1)
      BY <1>1, <2>2, <3>1
    <3>4. A[B(i) + s] = <<1 + ((B(i) + (s - 1)) \div p), 1 + ((B(i) + (s - 1)) % p)>>
      BY <1>3, <3>3
    <3>5. 1 + (i - 1) = i /\ 1 + (s - 1) = s
      OBVIOUS
    <3> QED BY <3>2, <3>3, <3>4, <3>5
  <2> HIDE DEF B, R, End
  <2>4. ASSUME NEW i \in 1 .. m
        PROVE  g[i] = IF i = 1 THEN seqs[i] ELSE g[i - 1] \o seqs[i]
    <3> DEFINE a == [k \in 1 .. B(i) |-> A[k]]
               b == [s \in 1 .. R(i) |-> <<i, s>>]
    <3>1. seqs[i] = b
      BY <1>5 DEF R
    <3>2. g[i] = [k \in 1 .. (B(i) + R(i)) |-> A[k]]
      BY <2>2
    <3>3. B(i) \in Nat /\ R(i) \in Nat
      BY <1>1, <2>2
    <3>4. CASE i = 1
      <4>1. [k \in 1 .. (B(i) + R(i)) |-> A[k]] = b
        <5>1. B(i) = 0 /\ B(i) + R(i) = R(i)
          BY <2>2, <3>3, <3>4
        <5>2. \A s \in 1 .. R(i) : A[s] = <<i, s>>
          <6> TAKE s \in 1 .. R(i)
          <6>1. A[B(i) + s] = <<i, s>>
            BY <2>3
          <6> QED BY <5>1, <6>1
        <5> QED BY <5>1, <5>2
      <4> QED BY <3>1, <3>2, <3>4, <4>1
    <3>5. CASE i # 1
      <4>1. g[i - 1] = a
        <5>1. i - 1 \in 1 .. m /\ End(i - 1) = B(i)
          BY <1>2, <2>2, <3>5
        <5> QED BY <5>1
      <4>2. \A k \in 1 .. (B(i) + R(i)) : k > B(i) => k - B(i) \in 1 .. R(i) /\ A[k] = <<i, k - B(i)>>
        <5> SUFFICES ASSUME NEW k \in 1 .. (B(i) + R(i)), k > B(i)
                     PROVE  k - B(i) \in 1 .. R(i) /\ A[k] = <<i, k - B(i)>>
          OBVIOUS
        <5>1. k - B(i) \in 1 .. R(i) /\ B(i) + (k - B(i)) = k
          BY <3>3
        <5>2. A[B(i) + (k - B(i))] = <<i, k - B(i)>>
          BY <2>3, <5>1
        <5> QED BY <5>1, <5>2
      <4>3. a \in Seq(Nat \X Nat) /\ Len(a) = B(i)
        <5>1. \A k \in 1 .. B(i) : k \in 1 .. n
          BY <1>1, <2>2, <3>3
        <5> QED BY <1>9, <3>3, <5>1
      <4>4. b \in Seq(Nat \X Nat) /\ Len(b) = R(i)
        BY <1>2, <3>3
      <4>5. /\ a \o b \in Seq(Nat \X Nat) /\ Len(a \o b) = B(i) + R(i)
            /\ \A k \in 1 .. (B(i) + R(i)) : (a \o b)[k] = IF k <= B(i) THEN a[k] ELSE b[k - B(i)]
        <5> HIDE DEF a, b
        <5> QED BY <4>3, <4>4, ConcatProperties
      <4>6. \A k \in 1 .. (B(i) + R(i)) : A[k] = (a \o b)[k]
        <5> SUFFICES ASSUME NEW k \in 1 .. (B(i) + R(i)) PROVE A[k] = (a \o b)[k]
          OBVIOUS
        <5>1. k <= B(i) => a[k] = A[k]
          BY <3>3
        <5>2. k > B(i) => b[k - B(i)] = A[k]
          BY <4>2
        <5> HIDE DEF a, b
        <5> QED BY <3>3, <4>5, <5>1, <5>2
      <4> HIDE DEF a, b
      <4>7. [k \in 1 .. (B(i) + R(i)) |-> A[k]] = a \o b
        <5>1. a \o b = [k \in 1 .. (B(i) + R(i)) |-> (a \o b)[k]]
          BY <4>5, SeqIs
        <5> QED BY <4>6, <5>1
      <4> QED BY <3>1, <3>2, <3>5, <4>1, <4>7
    <3> QED BY <3>4, <3>5
  <2>5. Joins(g, seqs)
    <3> HIDE DEF seqs
    <3>1. \A i \in 1 .. m : g[i] = IF i = 1 THEN seqs[i] ELSE g[i - 1] \o seqs[i]
      BY <2>4
    <3>2. g = [i \in 1 .. m |-> g[i]]
      OBVIOUS
    <3> HIDE DEF g
    <3> QED BY <1>5, <3>1, <3>2 DEF Joins
  <2>6. FlattenSeq(seqs) = g[m]
    <3> HIDE DEF seqs, g
    <3> QED BY <1>5, <2>1, <2>5, FlattenIs
  <2>7. End(m) = n
    BY <1>1, <1>2 DEF End
  <2>8. g[m] = [k \in 1 .. n |-> A[k]]
    <3>1. g[m] = [k \in 1 .. End(m) |-> A[k]]
      BY <2>1
    <3> QED BY <2>7, <3>1
  <2> QED BY <1>3, <1>6, <2>6, <2>8 DEF A
<1> QED BY <1>7, <1>8

Sweeps == Nat \X Nat
Waiting == {"poll", "clean", "kill", "reap", "rmdir", "dropped"}
Judging == {"clean", "kill", "reap", "rmdir", "dropped", "decide"}
Working == pc \notin {"recv", "send", "done"}
Elems(q) == {q[i] : i \in DOMAIN q}
W == Walk(work)
Laying == {"fill", "stage", "submit", "finish"}
Owning == Laying \union {"read", "close", "drop"}
Untouched == at = 0 /\ block = <<>> /\ dispatches = 0

ChildInv ==
  /\ pc \in {"recv", "look", "sample", "spawn", "send", "done"} => child = NoChild /\ ~directory
  /\ pc \in Waiting => directory /\ child.state # "none"
  /\ pc \in {"reap", "rmdir", "dropped"} => child.state = "exited"
  /\ pc \in Waiting /\ reaped => child.state = "exited"
  /\ pc = "decide" => ~directory /\ ~Running
  /\ pc = "poll" => result = "none" /\ attempt = 1 /\ ~reaped
  /\ attempt = 2 => faults >= 1
  /\ strays > 0 => faults >= 2

VerdictInv ==
  /\ pc \in Judging /\ result = "none" => GivesUp
  /\ pc \in Judging /\ result = "solved" =>
       child.state = "exited" /\ child.code = 0 /\ child.reply.status = "solved"
  /\ ane = "failed" => broken
  /\ pc = "sample" => what = "sample"

JobsInv ==
  /\ \A i, j \in DOMAIN jobs : i # j => jobs[i] # jobs[j]
  /\ Elems(jobs) \subseteq sent
  /\ Working => cur \in sent \ Elems(jobs)
  /\ \A j \in Jobs :
       answers[j] = <<>> <=> (j \notin sent \/ j \in Elems(jobs) \/ (Working /\ j = cur))
  /\ pc = "done" => outClosed \/ \A j \in sent : answers[j] # <<>>

HoldInv ==
  /\ step \in {"off", "compile"} => program = Idle /\ Untouched
  /\ step = "reset" => program = [Idle EXCEPT !.handle = TRUE] /\ Untouched
  /\ busy # None => program.pending /\ ~program.failed /\ step \in Laying \union {"drop"}
  /\ busy # None => spins[busy.state] \in Seq(Sweeps)
  /\ step \in Owning => program.handle

CountInv ==
  /\ step \in Laying =>
       /\ Len(block) <= at /\ at <= Len(W)
       /\ \/ at - Len(block) = BlockSweeps * dispatches
          \/ at = Len(W) /\ block = <<>> /\ dispatches = DivCeil(Len(W), BlockSweeps)
  /\ step = "fill" => Len(block) < BlockSweeps
  /\ step \in {"stage", "submit"} =>
       Len(block) \in 1 .. BlockSweeps /\ (Len(block) = BlockSweeps \/ at = Len(W))
  /\ step = "finish" => at = Len(W) /\ block = <<>>
  /\ step \in {"read", "close", "ok"} => dispatches = DivCeil(Len(W), BlockSweeps)

Laid ==
  IF busy = None THEN spins[program.current]
  ELSE spins[program.current] \o thresholds[busy.bank]
LaidInv ==
  /\ step \in Laying /\ ~program.failed =>
       /\ busy # None => busy.state = program.current /\ busy.bank = 1 - program.next
       /\ spins[program.current] \in Seq(Sweeps)
       /\ Laid \o block = SubSeq(W, 1, at)
  /\ step = "submit" => thresholds[program.next] = block
  /\ step = "read" => spins[program.current] = W
  /\ step \in {"close", "ok"} => output = W

Good(w, reply) == reply.spins = Walk(w) /\ reply.dispatches = DivCeil(Len(Walk(w)), BlockSweeps)
ReplyInv ==
  /\ child.state = "work" => work = Request
  /\ child.state = "exited" /\ child.code = 0 =>
       (child.reply.status = "solved" => Good(Request, child.reply))
  /\ \A j \in Jobs : answers[j] = <<"reads">> => delivered[j] = Walk(WorkOf[j])

-----------------------------------------------------------------------------
Steps == {"off", "compile", "reset", "fill", "stage", "submit", "finish", "read", "drop",
          "close", "ok", "err"}
Programs == [handle : BOOLEAN, initialized : BOOLEAN, pending : BOOLEAN, failed : BOOLEAN,
             current : Banks, next : Banks]
Surfaces == Seq(Sweeps) \union {None}

ProgramTypeOK ==
  /\ step \in Steps /\ at \in Nat /\ dispatches \in Nat /\ block \in Seq(Sweeps)
  /\ step # "off" => work \in Works
  /\ program \in Programs
  /\ spins \in [Banks -> Surfaces] /\ thresholds \in [Banks -> Seq(Sweeps)]
  /\ busy \in Dispatches \union {None} /\ output \in Surfaces
  /\ faults \in 0 .. MaxFaults

ProgramInv == ProgramTypeOK /\ HoldInv /\ CountInv /\ LaidInv

LEMMA WalkTyped ==
  ASSUME NEW w \in Works
  PROVE  Walk(w) \in Seq(Sweeps) /\ Len(Walk(w)) = w.sweeps
<1> DEFINE n == w.sweeps
           p == w.perBeta
<1>1. n \in Nat /\ p \in Nat \ {0}
  BY DEF Works
<1>2. \A k \in 1 .. n : <<1 + ((k - 1) \div p), 1 + ((k - 1) % p)>> \in Sweeps
  <2> TAKE k \in 1 .. n
  <2> HIDE DEF n, p
  <2>1. k - 1 \in Nat
    OBVIOUS
  <2>2. (k - 1) \div p \in Nat /\ (k - 1) % p \in 0 .. p - 1
    BY <1>1, <2>1, Quotient
  <2>3. 1 + ((k - 1) \div p) \in Nat /\ 1 + ((k - 1) % p) \in Nat
    BY <1>1, <2>2
  <2> QED BY <2>3 DEF Sweeps
<1>3. Walk(w) = [k \in 1 .. n |-> <<1 + ((k - 1) \div p), 1 + ((k - 1) % p)>>]
  BY WalkIs DEF AllSweeps
<1> HIDE DEF n, p
<1>4. n = w.sweeps
  BY DEF n
<1> QED BY <1>1, <1>2, <1>3, <1>4

LEMMA SubSeqGrows ==
  ASSUME NEW S, NEW q \in Seq(S), NEW k \in Nat, k < Len(q)
  PROVE  SubSeq(q, 1, k + 1) = Append(SubSeq(q, 1, k), q[k + 1])
OBVIOUS

LEMMA AppendToConcat ==
  ASSUME NEW S, NEW a \in Seq(S), NEW b \in Seq(S), NEW x \in S
  PROVE  a \o Append(b, x) = Append(a \o b, x)
OBVIOUS

LEMMA CeilIs ==
  ASSUME NEW b \in Nat \ {0}, NEW d \in Nat, NEW r \in 1 .. b
  PROVE  DivCeil((b * d) + r, b) = d + 1 /\ DivCeil(b * d, b) = d
<1>1. /\ r - 1 \in 0 .. b - 1
      /\ ((b * d) + r) + b - 1 = (b * (d + 1)) + (r - 1)
      /\ (b * d) + b - 1 = (b * d) + (b - 1)
      /\ b - 1 \in 0 .. b - 1
  OBVIOUS
<1> QED BY <1>1, QuotientIs DEF DivCeil

-----------------------------------------------------------------------------
(* The program *)

USE ProgramAssumption

LEMMA IdleTyped == Idle \in Programs
BY DEF Idle, Programs, Banks

LEMMA ProgramStart ==
  ASSUME faults \in 0 .. MaxFaults, ProgramOff
  PROVE  ProgramInv
<1> USE DEF ProgramOff
<1>1. ProgramTypeOK
  BY IdleTyped DEF ProgramTypeOK, Steps, Surfaces
<1>2. HoldInv
  BY DEF HoldInv, Untouched, Laying, Owning
<1>3. CountInv /\ LaidInv
  BY DEF CountInv, LaidInv, Laying
<1> QED BY <1>1, <1>2, <1>3 DEF ProgramInv

LEMMA ProgramEnds ==
  ASSUME faults' \in 0 .. MaxFaults, ProgramLost
  PROVE  ProgramInv'
<1> USE DEF ProgramLost
<1>1. ProgramTypeOK'
  BY IdleTyped DEF ProgramTypeOK, Steps, Surfaces, Banks
<1>2. HoldInv'
  BY DEF HoldInv, Untouched, Laying, Owning
<1>3. CountInv' /\ LaidInv'
  BY DEF CountInv, LaidInv, Laying
<1> QED BY <1>1, <1>2, <1>3 DEF ProgramInv

LEMMA ProgramStays ==
  ASSUME ProgramInv, UNCHANGED programVars, faults' \in 0 .. MaxFaults
  PROVE  ProgramInv'
<1> USE DEF programVars, solverVars, nativeVars
<1>1. ProgramTypeOK'
  BY DEF ProgramInv, ProgramTypeOK
<1>2. HoldInv'
  BY ZenonT(30) DEF ProgramInv, HoldInv, Untouched
<1>3. CountInv'
  BY ZenonT(30) DEF ProgramInv, CountInv, W
<1>4. LaidInv'
  BY ZenonT(30) DEF ProgramInv, LaidInv, W, Laid
<1> QED BY <1>1, <1>2, <1>3, <1>4 DEF ProgramInv

LEMMA ProgramSolves ==
  ASSUME ProgramInv, NEW w \in Works, Solve(w), NoFault
  PROVE  ProgramInv'
<1> USE DEF Solve, NoFault
<1> /\ step = "off" /\ program = Idle /\ Untouched /\ busy = None
    /\ step' \in {"ok", "compile"} /\ UNCHANGED <<at, block, dispatches, nativeVars, faults>>
    /\ work' = w
  BY DEF ProgramInv, HoldInv, Laying
<1>1. Walk(w) \in Seq(Sweeps)
  BY WalkTyped
<1>2. ProgramTypeOK'
  <2>1. output' \in Surfaces
    BY DEF Surfaces
  <2> QED BY <2>1 DEF ProgramInv, ProgramTypeOK, Steps, nativeVars
<1>3. HoldInv'
  BY DEF HoldInv, nativeVars, Laying, Owning, Untouched
<1>4. step' = "ok" => Walk(w) = << >> /\ output' = Walk(w)
  OBVIOUS
<1>5. DivCeil(Len(<< >>), BlockSweeps) = 0
  <2>1. BlockSweeps \in Nat \ {0} /\ Len(<< >>) = 0
    OBVIOUS
  <2> QED BY <2>1, Ceil
<1>6. CountInv' /\ LaidInv'
  BY <1>4, <1>5 DEF CountInv, LaidInv, Laying, W, Untouched
<1> QED BY <1>2, <1>3, <1>6 DEF ProgramInv

LEMMA ProgramTypeStep ==
  ASSUME ProgramInv, ProgramStep \/ ProgramFault \/ Evaluated, step # "off"
  PROVE  ProgramTypeOK'
<1> USE DEF Go, NoFault, Fault, NativeFails, solverVars, nativeVars, Release
<1> ProgramTypeOK
  BY DEF ProgramInv
<1>0. /\ Walk(work) \in Seq(Sweeps)
      /\ \A p \in Programs : p.current \in Banks /\ p.next \in Banks /\ 1 - p.current \in Banks /\ 1 - p.next \in Banks
  <2>1. work \in Works
    BY DEF ProgramTypeOK
  <2>2. \A b \in Banks : 1 - b \in Banks
    BY DEF Banks
  <2> QED BY <2>1, <2>2, WalkTyped DEF Programs
<1>1. CASE Compile
  BY <1>1 DEF Compile, ProgramTypeOK, Steps, Programs
<1>2. CASE Reset
  <2>1. << >> \in Surfaces /\ 0 \in Banks
    BY DEF Surfaces, Banks
  <2>2. program' \in Programs
    BY <1>2, <2>1 DEF Reset, ProgramTypeOK, Programs
  <2> QED BY <1>2, <2>1, <2>2 DEF Reset, ProgramTypeOK, Steps
<1>3. CASE Fill
  <2>1. Walk(work)[at + 1] \in Sweeps
    BY <1>0, <1>3 DEF Fill, ProgramTypeOK
  <2> QED BY <1>3, <2>1 DEF Fill, ProgramTypeOK, Steps
<1>4. CASE Filled
  BY <1>4 DEF Filled, ProgramTypeOK, Steps
<1>5. CASE Stage
  BY <1>5 DEF Stage, ProgramTypeOK, Steps
<1>6. CASE Submit
  <2>1. program.current \in Banks /\ program.next \in Banks /\ 1 - program.next \in Banks
    BY <1>0 DEF ProgramTypeOK
  <2>2. program' \in Programs
    BY <1>6, <2>1 DEF Submit, ProgramTypeOK, Programs
  <2>3. busy' \in Dispatches
    BY <1>6, <2>1 DEF Submit, Dispatches
  <2> QED BY <1>6, <2>2, <2>3 DEF Submit, ProgramTypeOK, Steps
<1>7. CASE SubmitRefused
  BY <1>7 DEF SubmitRefused, ProgramTypeOK, Steps, Programs
<1>8. CASE Finish
  BY <1>8 DEF Finish, ProgramTypeOK, Steps, Programs
<1>9. CASE Read
  BY <1>0, <1>9 DEF Read, ProgramTypeOK, Steps
<1>10. CASE Close \/ Drop
  BY <1>10, IdleTyped DEF Close, Drop, ProgramTypeOK, Steps
<1>11. CASE CompileFails
  BY <1>11 DEF CompileFails, ProgramTypeOK, Steps
<1>12. CASE ResetFails \/ StageFails \/ ReadFails
  BY <1>12 DEF ResetFails, StageFails, ReadFails, ProgramTypeOK, Steps
<1>13. CASE CloseFails
  BY <1>13, IdleTyped DEF CloseFails, ProgramTypeOK, Steps
<1>14. CASE Evaluated \/ EvaluateFails
  <2>0. busy \in Dispatches /\ busy # None
    BY <1>14 DEF Evaluated, EvaluateFails, Dispatched, ProgramTypeOK
  <2>1. 1 - busy.state \in Banks /\ busy.state \in Banks /\ busy.bank \in Banks
    BY <2>0 DEF Dispatches, Banks
  <2>2. ~program.failed /\ step \in Laying \union {"drop"}
    BY <2>0 DEF ProgramInv, HoldInv
  <2>3. program' \in Programs
    BY <1>0, <1>14 DEF Evaluated, EvaluateFails, Dispatched, ProgramTypeOK, Programs
  <2>4. CASE Evaluated
    <3>1. spins[busy.state] \in Seq(Sweeps) /\ thresholds[busy.bank] \in Seq(Sweeps)
      BY <2>0, <2>1 DEF ProgramInv, HoldInv, ProgramTypeOK
    <3>2. spins[busy.state] \o thresholds[busy.bank] \in Surfaces
      BY <3>1, ConcatProperties DEF Surfaces
    <3>3. spins' \in [Banks -> Surfaces]
      <4>1. spins' = [spins EXCEPT ![1 - busy.state] = spins[busy.state] \o thresholds[busy.bank]]
        BY <2>4 DEF Evaluated, Dispatched
      <4> QED BY <2>1, <3>2, <4>1 DEF ProgramTypeOK
    <3>4. UNCHANGED <<solverVars, thresholds, faults>> /\ busy' = None
      BY <2>4 DEF Evaluated, Dispatched
    <3> QED BY <2>3, <3>3, <3>4 DEF ProgramTypeOK
  <2>5. CASE EvaluateFails
    <3>1. None \in Surfaces
      BY DEF Surfaces
    <3>2. spins' = [spins EXCEPT ![1 - busy.state] = None] /\ UNCHANGED <<solverVars, thresholds>>
          /\ busy' = None
      BY <2>5 DEF EvaluateFails, Dispatched
    <3>3. spins' \in [Banks -> Surfaces]
      BY <2>1, <3>1, <3>2 DEF ProgramTypeOK
    <3>4. faults' \in 0 .. MaxFaults
      BY <2>5 DEF EvaluateFails, ProgramTypeOK
    <3> QED BY <2>3, <3>2, <3>3, <3>4 DEF ProgramTypeOK
  <2> QED BY <1>14, <2>4, <2>5
<1>15. CASE EvaluateHangs
  <2>1. busy \in Dispatches /\ busy' = [busy EXCEPT !.hung = TRUE]
    BY <1>15 DEF EvaluateHangs, ProgramTypeOK
  <2>2. busy' \in Dispatches
    BY <2>1 DEF Dispatches
  <2> QED BY <1>15, <2>2 DEF EvaluateHangs, ProgramTypeOK
<1> QED
  BY <1>1, <1>2, <1>3, <1>4, <1>5, <1>6, <1>7, <1>8, <1>9, <1>10, <1>11, <1>12, <1>13, <1>14, <1>15
  DEF ProgramStep, ProgramFault

LEMMA ProgramHolds ==
  ASSUME ProgramInv, ProgramStep \/ ProgramFault \/ Evaluated, step # "off"
  PROVE  HoldInv'
<1> USE DEF Go, NoFault, Fault, NativeFails, solverVars, nativeVars, Release, Joined,
            Laying, Owning
<1>0. ProgramTypeOK /\ HoldInv /\ step \in Steps /\ program \in Programs
  BY DEF ProgramInv, ProgramTypeOK
<1>1. CASE Compile
  BY <1>0, <1>1 DEF Compile, HoldInv, Untouched, Idle
<1>2. CASE Reset
  BY <1>0, <1>2 DEF Reset, HoldInv, Untouched, Idle, Programs
<1>3. CASE Fill
  BY <1>0, <1>3 DEF Fill, HoldInv
<1>4. CASE Filled
  BY <1>0, <1>4 DEF Filled, HoldInv
<1>5. CASE Stage
  BY <1>0, <1>5 DEF Stage, HoldInv
<1>6. CASE Submit
  <2>1. step = "submit" /\ Joined /\ ~program.failed /\ busy = None
    BY <1>0, <1>6 DEF Submit, HoldInv
  <2>2. spins[program.current] \in Seq(Sweeps)
    BY <2>1 DEF ProgramInv, LaidInv
  <2>3. busy'.state = program.current /\ spins' = spins /\ step' = "fill"
    BY <1>6 DEF Submit
  <2>4. program'.pending /\ program'.failed = program.failed /\ program'.handle = program.handle
    BY <1>0, <1>6 DEF Submit, Programs
  <2> QED BY <1>0, <2>1, <2>2, <2>3, <2>4 DEF HoldInv
<1>7. CASE SubmitRefused
  BY <1>0, <1>7 DEF SubmitRefused, HoldInv, Programs
<1>8. CASE Finish
  BY <1>0, <1>8 DEF Finish, HoldInv, Programs
<1>9. CASE Read
  BY <1>0, <1>9 DEF Read, HoldInv
<1>10. CASE Close \/ Drop \/ CloseFails
  BY <1>0, <1>10 DEF Close, Drop, CloseFails, HoldInv
<1>11. CASE CompileFails
  BY <1>0, <1>11 DEF CompileFails, HoldInv
<1>12. CASE ResetFails \/ StageFails \/ ReadFails
  <2>1. step \in {"reset", "stage", "read"} /\ step' = "drop" /\ UNCHANGED nativeVars
    BY <1>12 DEF ResetFails, StageFails, ReadFails
  <2>2. program.handle
    BY <1>0, <2>1 DEF HoldInv, Programs, Idle
  <2> QED BY <1>0, <2>1, <2>2 DEF HoldInv
<1>13. CASE Evaluated
  <2>1. step \in Laying \union {"drop"} /\ program.handle
    BY <1>0, <1>13 DEF Evaluated, Dispatched, HoldInv
  <2>2. busy' = None /\ step' = step /\ program'.handle = program.handle
    BY <1>0, <1>13 DEF Evaluated, Dispatched, Programs
  <2> QED BY <2>1, <2>2 DEF HoldInv
<1>14. CASE EvaluateFails
  <2>1. step \in Laying \union {"drop"} /\ program.handle
    BY <1>0, <1>14 DEF EvaluateFails, Dispatched, HoldInv
  <2>2. busy' = None /\ step' = step /\ program'.handle = program.handle
    BY <1>0, <1>14 DEF EvaluateFails, Dispatched, Programs
  <2> QED BY <2>1, <2>2 DEF HoldInv
<1>15. CASE EvaluateHangs
  <2>1. busy \in Dispatches /\ busy # None
    BY <1>0, <1>15 DEF EvaluateHangs, ProgramTypeOK
  <2>2. busy'.state = busy.state /\ UNCHANGED <<step, program, spins>>
    BY <1>15, <2>1 DEF EvaluateHangs, Dispatches
  <2>3. step \in Laying \union {"drop"}
    BY <1>0, <2>1 DEF HoldInv
  <2> QED BY <1>0, <2>1, <2>2, <2>3 DEF HoldInv
<1> QED
  BY <1>1, <1>2, <1>3, <1>4, <1>5, <1>6, <1>7, <1>8, <1>9, <1>10, <1>11, <1>12, <1>13, <1>14, <1>15
  DEF ProgramStep, ProgramFault

LEMMA ProgramCounts ==
  ASSUME ProgramInv, ProgramStep \/ ProgramFault \/ Evaluated, step # "off"
  PROVE  CountInv'
<1> USE DEF Go, NoFault, Fault, NativeFails, solverVars, nativeVars, Release, Laying
<1> DEFINE n == Len(W)
<1>0. ProgramTypeOK /\ CountInv /\ BlockSweeps \in Nat \ {0}
  BY DEF ProgramInv
<1>1. W \in Seq(Sweeps) /\ n \in Nat
  BY <1>0, WalkTyped DEF ProgramTypeOK, W
<1>2. work' = work /\ W' = W
  BY DEF ProgramStep, ProgramFault, Evaluated, Dispatched, Compile, Reset, Fill, Filled, Stage, Submit,
         SubmitRefused, Finish, Read, Close, Drop, CompileFails, ResetFails, StageFails,
         ReadFails, CloseFails, EvaluateFails, EvaluateHangs, W
<1>3. CASE step' \in {"reset", "drop", "err"}
  BY <1>3 DEF CountInv
<1>4. CASE Reset
  <2>1. at = 0 /\ block = << >> /\ dispatches = 0
    BY <1>4 DEF Reset, ProgramInv, HoldInv, Untouched
  <2>2. step' = "fill" /\ UNCHANGED <<at, block, dispatches>>
    BY <1>4 DEF Reset
  <2>3. Len(block) = 0
    BY <2>1
  <2> HIDE DEF n
  <2> QED BY <1>0, <1>1, <1>2, <2>1, <2>2, <2>3 DEF CountInv, n
<1>5. CASE Fill
  <2>1. /\ step = "fill" /\ at' = at + 1 /\ dispatches' = dispatches /\ at < n
        /\ step' = IF Len(block) + 1 = BlockSweeps THEN "stage" ELSE "fill"
    BY <1>5 DEF Fill, W
  <2>2. Len(block') = Len(block) + 1 /\ Len(block) \in Nat
    <3>1. W[at + 1] \in Sweeps
      BY <1>0, <1>1, <2>1 DEF ProgramTypeOK
    <3> QED BY <1>0, <1>5, <3>1 DEF Fill, ProgramTypeOK, W
  <2>3. at \in Nat /\ dispatches \in Nat
    BY <1>0 DEF ProgramTypeOK
  <2>4. Len(block) <= at /\ Len(block) < BlockSweeps /\ at - Len(block) = BlockSweeps * dispatches
    BY <1>0, <1>1, <2>1, <2>3 DEF CountInv
  <2>5. /\ Len(block') <= at' /\ at' <= n /\ at' - Len(block') = BlockSweeps * dispatches'
        /\ step' = "fill" => Len(block') < BlockSweeps
        /\ step' = "stage" => Len(block') = BlockSweeps
        /\ Len(block') \in 1 .. BlockSweeps
    BY <1>0, <1>1, <2>1, <2>2, <2>3, <2>4
  <2> HIDE DEF n
  <2> QED BY <1>2, <2>1, <2>5 DEF CountInv, n
<1>6. CASE Filled
  <2>1. step = "fill" /\ at = n /\ UNCHANGED <<at, block, dispatches>>
        /\ step' = IF block = << >> THEN "finish" ELSE "stage"
    BY <1>6 DEF Filled, W
  <2>2. block = << >> \/ Len(block) \in 1 .. BlockSweeps
    BY <1>0, <2>1 DEF CountInv, ProgramTypeOK
  <2> QED BY <1>0, <1>2, <2>1, <2>2 DEF CountInv
<1>7. CASE Stage
  BY <1>0, <1>2, <1>7 DEF Stage, CountInv
<1>8. CASE Submit
  <2>1. /\ step = "submit" /\ step' = "fill" /\ at' = at /\ block' = << >>
        /\ dispatches' = dispatches + 1 /\ Len(block') = 0
    BY <1>8 DEF Submit
  <2>2. /\ at \in Nat /\ dispatches \in Nat /\ Len(block) \in 1 .. BlockSweeps /\ block # << >>
        /\ Len(block) <= at /\ at <= n /\ (Len(block) = BlockSweeps \/ at = n)
    BY <1>0, <2>1 DEF CountInv, ProgramTypeOK
  <2>3. at - Len(block) = BlockSweeps * dispatches
    BY <1>0, <2>1, <2>2 DEF CountInv
  <2>4. CASE Len(block) = BlockSweeps
    <3>1. at = (BlockSweeps * dispatches) + BlockSweeps
      BY <1>0, <2>2, <2>3, <2>4
    <3>2. (BlockSweeps * dispatches) + BlockSweeps = BlockSweeps * (dispatches + 1)
      BY <1>0, <2>2
    <3>3. at' - Len(block') = BlockSweeps * dispatches'
      BY <2>1, <2>2, <3>1, <3>2
    <3> QED BY <1>0, <1>2, <2>1, <2>2, <3>3 DEF CountInv
  <2>5. CASE at = n
    <3>1. n = (BlockSweeps * dispatches) + Len(block)
      BY <1>0, <1>1, <2>2, <2>3, <2>5
    <3>2. DivCeil(n, BlockSweeps) = dispatches + 1
      <4> HIDE DEF n
      <4> QED BY <1>0, <2>2, <3>1, CeilIs
    <3> QED BY <1>0, <1>2, <2>1, <2>2, <2>5, <3>2 DEF CountInv
  <2> QED BY <2>2, <2>4, <2>5
<1>9. CASE SubmitRefused \/ Finish
  <2>1. /\ step \in {"submit", "finish"} /\ UNCHANGED <<at, block, dispatches>>
        /\ step' \in {"drop", "read"}
        /\ step' = "read" => step = "finish"
    BY <1>9 DEF SubmitRefused, Finish
  <2>2. CASE step' = "read"
    <3>1. at = n /\ block = << >> /\ dispatches \in Nat
      BY <1>0, <2>1, <2>2 DEF CountInv, ProgramTypeOK
    <3>2. dispatches = DivCeil(n, BlockSweeps)
      <4>1. CASE at - Len(block) = BlockSweeps * dispatches
        <5>1. n = BlockSweeps * dispatches
          BY <1>1, <3>1, <4>1
        <5>2. 1 \in 1 .. BlockSweeps
          BY <1>0
        <5> HIDE DEF n
        <5> QED BY <1>0, <3>1, <5>1, <5>2, CeilIs
      <4> QED BY <1>0, <2>1, <2>2, <4>1 DEF CountInv
    <3> QED BY <1>2, <2>1, <2>2, <3>2 DEF CountInv
  <2> QED BY <1>3, <2>1, <2>2
<1>10. CASE Read \/ Close
  BY <1>0, <1>2, <1>10 DEF Read, Close, CountInv
<1>11. CASE Evaluated \/ EvaluateFails \/ EvaluateHangs
  <2>1. UNCHANGED solverVars
    BY <1>11 DEF Evaluated, EvaluateFails, EvaluateHangs, Dispatched
  <2> QED BY <1>0, <1>2, <2>1 DEF CountInv
<1> QED
  BY <1>3, <1>4, <1>5, <1>6, <1>7, <1>8, <1>9, <1>10, <1>11
  DEF ProgramStep, ProgramFault, Compile, Drop, CompileFails, ResetFails, StageFails,
      ReadFails, CloseFails

(* What a step does to the spins on the ANE and to those laid out.         *)
LEMMA LaidTyped ==
  ASSUME ProgramInv, step \in Laying, ~program.failed
  PROVE  Laid \in Seq(Sweeps) /\ spins[program.current] \in Seq(Sweeps)
<1>1. spins[program.current] \in Seq(Sweeps)
  BY DEF ProgramInv, LaidInv
<1>2. busy # None => thresholds[busy.bank] \in Seq(Sweeps)
  BY DEF ProgramInv, ProgramTypeOK, Dispatches
<1> QED BY <1>1, <1>2, ConcatProperties DEF Laid

LEMMA ProgramLays ==
  ASSUME ProgramInv, ProgramStep \/ ProgramFault \/ Evaluated, step # "off"
  PROVE  LaidInv'
<1> USE DEF Go, NoFault, Fault, NativeFails, solverVars, nativeVars, Release, Laying
<1>0. ProgramTypeOK /\ LaidInv /\ HoldInv /\ CountInv /\ program \in Programs
  BY DEF ProgramInv, ProgramTypeOK
<1>1. W \in Seq(Sweeps) /\ block \in Seq(Sweeps) /\ at \in Nat /\ Len(W) \in Nat
  BY <1>0, WalkTyped DEF ProgramTypeOK, W
<1>2. W' = W
  BY DEF ProgramStep, ProgramFault, Evaluated, Dispatched, Compile, Reset, Fill, Filled, Stage, Submit,
         SubmitRefused, Finish, Read, Close, Drop, CompileFails, ResetFails, StageFails,
         ReadFails, CloseFails, EvaluateFails, EvaluateHangs, W
<1>3. CASE step' \in {"reset", "drop", "err"}
  BY <1>3 DEF LaidInv
<1>4. CASE Reset
  <2>1. at = 0 /\ block = << >> /\ busy = None
    BY <1>0, <1>4 DEF Reset, HoldInv, Untouched
  <2>2. /\ step' = "fill" /\ UNCHANGED <<at, block, busy>>
        /\ program'.current = 0 /\ spins'[0] = << >>
    BY <1>0, <1>4 DEF Reset, Programs, ProgramTypeOK, Banks
  <2>3. Laid' = << >>
    BY <2>1, <2>2 DEF Laid
  <2>4. << >> \o << >> = SubSeq(W, 1, 0) /\ << >> \in Seq(Sweeps)
    BY <1>1
  <2> QED BY <1>2, <2>1, <2>2, <2>3, <2>4 DEF LaidInv
<1>5. CASE Fill
  <2>1. /\ step = "fill" /\ at' = at + 1 /\ at < Len(W) /\ step' \in {"stage", "fill"}
        /\ block' = Append(block, W[at + 1]) /\ UNCHANGED <<program, spins, thresholds, busy>>
    BY <1>5 DEF Fill, W
  <2>2. ASSUME ~program.failed
        PROVE  Laid \o block' = SubSeq(W, 1, at')
    <3>1. Laid \in Seq(Sweeps) /\ Laid \o block = SubSeq(W, 1, at)
      BY <1>0, <2>1, <2>2, LaidTyped DEF LaidInv
    <3>2. W[at + 1] \in Sweeps
      BY <1>1, <2>1
    <3>3. Laid \o Append(block, W[at + 1]) = Append(Laid \o block, W[at + 1])
      <4>1. \A a, b \in Seq(Sweeps) : \A x \in Sweeps : a \o Append(b, x) = Append(a \o b, x)
        BY AppendToConcat
      <4> QED BY <1>1, <3>1, <3>2, <4>1, Zenon
    <3>4. SubSeq(W, 1, at') = Append(SubSeq(W, 1, at), W[at + 1])
      BY <1>1, <2>1, SubSeqGrows
    <3> QED BY <2>1, <3>1, <3>3, <3>4
  <2>3. Laid' = Laid
    BY <2>1 DEF Laid
  <2> QED BY <1>0, <1>2, <2>1, <2>2, <2>3 DEF LaidInv
<1>6. CASE Filled
  <2>1. step = "fill" /\ UNCHANGED <<at, block, nativeVars>> /\ step' \in {"finish", "stage"}
    BY <1>6 DEF Filled
  <2> QED BY <1>0, <1>2, <2>1 DEF LaidInv, Laid
<1>7. CASE Stage
  <2>1. /\ step = "stage" /\ UNCHANGED <<at, block, program, spins, busy>> /\ step' = "submit"
        /\ thresholds' = [thresholds EXCEPT ![program.next] = block]
    BY <1>7 DEF Stage
  <2>2. thresholds'[program.next] = block
    BY <1>0, <2>1 DEF ProgramTypeOK, Programs
  <2>3. ASSUME ~program.failed
        PROVE  Laid' = Laid
    <3>1. busy # None => busy.bank # program.next
      BY <1>0, <2>1, <2>3 DEF LaidInv, Programs, Banks
    <3>2. busy # None => thresholds'[busy.bank] = thresholds[busy.bank]
      BY <1>0, <2>1, <3>1 DEF ProgramTypeOK, Dispatches
    <3> QED BY <2>1, <3>2 DEF Laid
  <2> QED BY <1>0, <1>2, <2>1, <2>2, <2>3 DEF LaidInv
<1>8. CASE Submit
  <2>1. step = "submit" /\ Joined /\ ~program.failed /\ busy = None
    BY <1>0, <1>8 DEF Submit, HoldInv, Joined
  <2>2. /\ busy' = [bank |-> program.next, state |-> program.current, hung |-> FALSE]
        /\ step' = "fill" /\ block' = << >> /\ UNCHANGED <<at, spins, thresholds>>
    BY <1>8 DEF Submit
  <2>3. program'.current = program.current /\ program'.next = 1 - program.next
        /\ program.next \in Banks /\ program.current \in Banks
    BY <1>0, <1>8 DEF Submit, Programs
  <2>4. busy' # None
    <3>1. busy' \in Dispatches
      BY <2>2, <2>3 DEF Dispatches
    <3> QED BY <3>1
  <2>5. spins[program.current] \in Seq(Sweeps) /\ thresholds[program.next] = block
        /\ spins[program.current] \o block = SubSeq(W, 1, at)
    BY <1>0, <2>1 DEF LaidInv, Laid
  <2>6. Laid' = SubSeq(W, 1, at)
    BY <2>2, <2>3, <2>4, <2>5 DEF Laid
  <2>7. SubSeq(W, 1, at) \o << >> = SubSeq(W, 1, at)
    <3>1. SubSeq(W, 1, at) \in Seq(Sweeps)
      BY <1>1, <2>5, ConcatProperties, ZenonT(30)
    <3> QED BY <3>1, ConcatEmptySeq
  <2>8. busy'.state = program'.current /\ busy'.bank = 1 - program'.next
    BY <2>2, <2>3 DEF Banks
  <2> QED BY <1>2, <2>2, <2>3, <2>5, <2>6, <2>7, <2>8 DEF LaidInv
<1>9. CASE SubmitRefused \/ Finish
  <2>1. CASE step' = "read"
    <3>1. /\ step = "finish" /\ ~program.failed /\ Joined
          /\ program'.current = program.current /\ spins' = spins
      BY <1>0, <1>9, <2>1 DEF SubmitRefused, Finish, Programs
    <3>2. busy = None
      BY <1>0, <3>1 DEF HoldInv, Joined
    <3>3. at = Len(W) /\ block = << >>
      BY <1>0, <3>1 DEF CountInv
    <3>4. spins[program.current] \in Seq(Sweeps) /\ spins[program.current] \o << >> = SubSeq(W, 1, Len(W))
      BY <1>0, <3>1, <3>2, <3>3 DEF LaidInv, Laid
    <3>5. spins[program.current] = W
      BY <1>1, <3>4, ConcatEmptySeq, SubSeqFull
    <3> QED BY <1>2, <2>1, <3>1, <3>5 DEF LaidInv
  <2>2. step' \in {"drop", "read"}
    BY <1>9 DEF SubmitRefused, Finish
  <2> QED BY <1>3, <2>1, <2>2
<1>10. CASE Read \/ Close
  BY <1>0, <1>2, <1>10 DEF Read, Close, LaidInv
<1>11. CASE Evaluated
  <2>1. busy \in Dispatches /\ busy # None /\ ~program.failed /\ step \in Laying \union {"drop"}
    BY <1>0, <1>11 DEF Evaluated, Dispatched, HoldInv, ProgramTypeOK
  <2>2. /\ UNCHANGED <<solverVars, thresholds>> /\ busy' = None
        /\ spins' = [spins EXCEPT ![1 - busy.state] = spins[busy.state] \o thresholds[busy.bank]]
        /\ program' = [program EXCEPT !.current = 1 - @, !.initialized = TRUE]
    BY <1>11 DEF Evaluated, Dispatched
  <2>3. program'.current = 1 - program.current /\ program'.next = program.next /\ program'.failed = program.failed
    BY <1>0, <2>2 DEF Programs
  <2>4. ASSUME step \in Laying
        PROVE  Laid' = Laid /\ Laid' = spins'[program'.current] /\ Laid \in Seq(Sweeps)
    <3>1. busy.state = program.current
      BY <1>0, <2>1, <2>4 DEF LaidInv
    <3>2. 1 - busy.state \in Banks
      BY <2>1 DEF Dispatches, Banks
    <3>3. spins'[1 - busy.state] = spins[busy.state] \o thresholds[busy.bank]
      BY <1>0, <2>2, <3>2 DEF ProgramTypeOK
    <3>4. Laid \in Seq(Sweeps)
      BY <2>1, <2>4, LaidTyped
    <3> QED BY <2>1, <2>2, <2>3, <3>1, <3>3, <3>4 DEF Laid
  <2> QED BY <1>0, <1>2, <2>1, <2>2, <2>3, <2>4 DEF LaidInv
<1>12. CASE EvaluateFails
  <2>1. busy # None /\ step \in Laying \union {"drop"}
    BY <1>0, <1>12 DEF EvaluateFails, Dispatched, HoldInv
  <2>2. UNCHANGED <<solverVars, thresholds>> /\ program'.failed /\ program'.next = program.next
    BY <1>0, <1>12 DEF EvaluateFails, Dispatched, Programs
  <2> QED BY <1>0, <1>2, <2>1, <2>2 DEF LaidInv
<1>13. CASE EvaluateHangs
  <2>1. busy \in Dispatches /\ busy # None /\ busy' = [busy EXCEPT !.hung = TRUE]
    BY <1>0, <1>13 DEF EvaluateHangs, ProgramTypeOK
  <2>2. busy' # None /\ busy'.state = busy.state /\ busy'.bank = busy.bank
        /\ UNCHANGED <<solverVars, program, spins, thresholds>>
    BY <1>13, <2>1 DEF EvaluateHangs, Dispatches
  <2>3. Laid' = Laid
    <3>1. /\ busy # None /\ busy' # None /\ busy'.bank = busy.bank
          /\ spins'[program'.current] = spins[program.current]
          /\ thresholds'[busy'.bank] = thresholds[busy.bank]
      BY <2>1, <2>2
    <3> QED BY <3>1, Zenon DEF Laid
  <2> QED BY <1>0, <1>2, <2>1, <2>2, <2>3 DEF LaidInv
<1> QED
  BY <1>3, <1>4, <1>5, <1>6, <1>7, <1>8, <1>9, <1>10, <1>11, <1>12, <1>13
  DEF ProgramStep, ProgramFault, Compile, Drop, CompileFails, ResetFails, StageFails,
      ReadFails, CloseFails

(* A program that runs a request lays out its walk, and a program that has *)
(* solved it has run it.                                                   *)
LEMMA ProgramRuns ==
  ASSUME ProgramInv, ProgramStep \/ ProgramFault \/ Evaluated, step # "off"
  PROVE  ProgramInv' /\ work' = work /\ step' # "off"
<1>1. work' = work /\ step' # "off"
  BY DEF ProgramStep, ProgramFault, Evaluated, Dispatched, Compile, Reset, Fill, Filled, Stage, Submit,
         SubmitRefused, Finish, Read, Close, Drop, CompileFails, ResetFails, StageFails,
         ReadFails, CloseFails, EvaluateFails, EvaluateHangs, Go, NativeFails, solverVars
<1> QED
  BY <1>1, ProgramTypeStep, ProgramHolds, ProgramCounts, ProgramLays DEF ProgramInv

-----------------------------------------------------------------------------
(* The engine and its worker process *)

USE WorkerAssumption

Answered == {<<>>, <<"reads">>, <<"cancelled">>, <<"failed">>}
PCs == {"recv", "look", "sample", "spawn", "poll", "clean", "kill", "reap", "rmdir",
        "dropped", "decide", "send", "done"}
Replies == [status : {"solved", "failed"}, spins : Surfaces, dispatches : Nat]
Children == [state : {"none", "boot", "work", "exited"}, owner : {"miner", "init"},
             code : Nat, reply : Replies \union {None}]

WorkerTypeOK ==
  /\ jobs \in Seq(Jobs) /\ sent \subseteq Jobs /\ gone \subseteq Marks
  /\ {inputOpen, outClosed, stop, dead, late, reaped, directory, broken} \subseteq BOOLEAN
  /\ outLen \in 0 .. OutCap /\ events \in 0 .. MaxEvents
  /\ pc \in PCs /\ cur \in Jobs /\ ane \in {"none", "ok", "failed"}
  /\ what \in {"check", "sample"} /\ attempt \in 1 .. 2
  /\ result \in {"none", "err", "solved"} /\ strays \in Nat
  /\ child \in Children /\ (step = "off") = (child.state # "work")
  /\ answers \in [Jobs -> Answered] /\ DOMAIN delivered = Jobs

EngineInv ==
  WorkerTypeOK /\ ProgramInv /\ ChildInv /\ VerdictInv /\ JobsInv /\ ReplyInv

LEMMA RequestTyped ==
  ASSUME cur \in Jobs
  PROVE  Request \in Works /\ WorkOf[cur] \in Works
<1>1. BlockSweeps \in Nat \ {0}
  OBVIOUS
<1> QED BY <1>1 DEF Request, Startup, Works

LEMMA EngineStart == Init => EngineInv
<1> SUFFICES ASSUME Init PROVE EngineInv
  OBVIOUS
<1> USE DEF Init
<1>1. 1 \in Jobs
  BY DEF Jobs
<1>2. WorkerTypeOK
  <2>1. child \in Children
    BY DEF NoChild, Children
  <2>2. child.state # "work" /\ step = "off"
    BY DEF NoChild, ProgramOff
  <2>3. answers \in [Jobs -> Answered] /\ DOMAIN delivered = Jobs
    BY DEF Answered
  <2>4. pc \in PCs
    BY DEF PCs
  <2>5. jobs \in Seq(Jobs) /\ strays \in Nat /\ 0 \in 0 .. OutCap /\ 0 \in 0 .. MaxEvents
    OBVIOUS
  <2>6. {inputOpen, outClosed, stop, dead, late, reaped, directory, broken} \subseteq BOOLEAN
    OBVIOUS
  <2>7. /\ sent \subseteq Jobs /\ gone \subseteq Marks /\ cur \in Jobs
        /\ ane \in {"none", "ok", "failed"} /\ what \in {"check", "sample"} /\ attempt \in 1 .. 2
        /\ result \in {"none", "err", "solved"} /\ outLen \in 0 .. OutCap /\ events \in 0 .. MaxEvents
    BY <1>1, <2>5
  <2> QED BY <2>1, <2>2, <2>3, <2>4, <2>5, <2>6, <2>7 DEF WorkerTypeOK
<1>3. ProgramInv
  BY ProgramStart
<1>4. ChildInv /\ VerdictInv
  BY DEF ChildInv, VerdictInv, NoChild, Waiting, Judging
<1>5. JobsInv
  BY DEF JobsInv, Working, Elems
<1>6. ReplyInv
  BY DEF ReplyInv, NoChild
<1> QED BY <1>2, <1>3, <1>4, <1>5, <1>6 DEF EngineInv

(* Everything but a fault, and but a step of the program's own, leaves     *)
(* the program or takes it away.                                           *)
LEMMA FaultsGrow ==
  ASSUME [Next]_vars
  PROVE  faults' = faults \/ (faults < MaxFaults /\ faults' = faults + 1)
BY DEF Next, EngineStep, SystemFault, WorkerStep, Session, Over, Take, InputEnds, Look,
   SampleJob, Spawn, Poll, Clean, Kill, Reap, RemoveDirectory, Opened, Sampled, SendResult,
   WorkFails, SpawnFails, PollFails, CleanFails, KillFails, ReapFails, RemoveFails, Crash,
   Boot, Work, Reply, Evaluation, Watchdog, Sleep, StartupTimer, SendJob, CloseInput,
   ReadResult, Cancel, StopEngine, CloseOut, MinerDies, Event, Outside, Engine, NoFault,
   Fault, vars, ProgramStep, ProgramFault, Evaluated, Compile, Reset, Fill, Filled, Stage,
   Submit, SubmitRefused, Finish, Read, Close, Drop, CompileFails, ResetFails, StageFails,
   ReadFails, CloseFails, EvaluateFails, EvaluateHangs, NativeFails

LEMMA FaultsBounded ==
  ASSUME EngineInv, [Next]_vars
  PROVE  faults' \in 0 .. MaxFaults
<1>1. faults \in 0 .. MaxFaults
  BY DEF EngineInv, ProgramInv, ProgramTypeOK
<1> QED BY <1>1, FaultsGrow

LEMMA WorkRuns ==
  ASSUME EngineInv, [Next]_vars
  PROVE  ProgramInv'
<1>0. faults' \in 0 .. MaxFaults
  BY FaultsBounded
<1>1. CASE Boot
  <2>1. Request \in Works
    BY RequestTyped DEF EngineInv, WorkerTypeOK
  <2> QED BY <1>1, <2>1, ProgramSolves DEF Boot, EngineInv
<1>2. CASE Work \/ WorkFails \/ Evaluation
  <2>1. step # "off"
    BY <1>2 DEF Work, WorkFails, Evaluation, AliveIn, EngineInv, WorkerTypeOK
  <2> QED BY <1>2, <2>1, ProgramRuns DEF Work, WorkFails, Evaluation, EngineInv
<1>3. CASE ProgramLost
  BY <1>0, <1>3, ProgramEnds
<1>4. CASE UNCHANGED programVars
  BY <1>0, <1>4, ProgramStays DEF EngineInv
<1> QED
  BY <1>1, <1>2, <1>3, <1>4
  DEF Next, EngineStep, SystemFault, WorkerStep, Session, Over, Take, InputEnds, Look,
     SampleJob, Spawn, Poll, Clean, Kill, Reap, RemoveDirectory, Opened, Sampled, SendResult,
     SpawnFails, PollFails, CleanFails, KillFails, ReapFails, RemoveFails, Crash, Exit, GiveUp,
     Reply, Watchdog, Sleep, StartupTimer, SendJob, CloseInput,
     ReadResult, Cancel, StopEngine, CloseOut, MinerDies, Event, Outside, vars, childVars

(* Which actions write which variables.                                    *)
LEMMA Effects ==
  ASSUME [Next]_vars
  PROVE  /\ Take \/ Session \/ UNCHANGED sessionVars
         /\ Look \/ SampleJob \/ Sampled \/ UNCHANGED answers
         /\ Sampled \/ UNCHANGED delivered
         /\ SendResult \/ ReadResult \/ UNCHANGED outLen
         /\ Take \/ Look \/ Spawn \/ StartupTimer \/ Opened \/ UNCHANGED engineVars
         /\ \/ Spawn \/ SpawnFails \/ Poll \/ PollFails \/ Clean \/ CleanFails \/ KillFails
            \/ Reap \/ ReapFails \/ RemoveDirectory \/ RemoveFails \/ UNCHANGED waitVars
         /\ \/ Spawn \/ Kill \/ CleanFails \/ KillFails \/ ReapFails \/ Opened \/ Sampled
            \/ Boot \/ Reply \/ Crash \/ Watchdog \/ UNCHANGED <<child, strays>>
         /\ \/ EngineStep \/ SpawnFails \/ PollFails \/ CleanFails \/ KillFails \/ ReapFails
            \/ RemoveFails \/ UNCHANGED pc
<1> USE DEF Next, SystemFault, WorkerStep, Over
<1>1. Take \/ Session \/ UNCHANGED sessionVars
  BY DEF EngineStep, InputEnds, Look, SampleJob, Spawn, Poll, Clean, Kill, Reap,
     RemoveDirectory, Opened, Sampled, SendResult, WorkFails, SpawnFails, PollFails,
     CleanFails, KillFails, ReapFails, RemoveFails, Crash, Boot, Work, Reply, Evaluation,
     Watchdog, Sleep, StartupTimer, vars
<1>2. Look \/ SampleJob \/ Sampled \/ UNCHANGED answers
  BY DEF EngineStep, Take, InputEnds, Spawn, Poll, Clean, Kill, Reap, Quiet, replyVars,
     RemoveDirectory, Opened, SendResult, WorkFails, SpawnFails, PollFails,
     CleanFails, KillFails, ReapFails, RemoveFails, Crash, Boot, Work, Reply, Evaluation,
     Watchdog, Sleep, StartupTimer, Session, SendJob, CloseInput, ReadResult, Cancel,
     StopEngine, CloseOut, MinerDies, Event, Outside, vars
<1>3. Sampled \/ UNCHANGED delivered
  BY DEF EngineStep, Take, InputEnds, Spawn, Poll, Clean, Kill, Reap, Quiet, replyVars,
     RemoveDirectory, Opened, SendResult, WorkFails, SpawnFails, PollFails, Look, SampleJob,
     CleanFails, KillFails, ReapFails, RemoveFails, Crash, Boot, Work, Reply, Evaluation,
     Watchdog, Sleep, StartupTimer, Session, SendJob, CloseInput, ReadResult, Cancel,
     StopEngine, CloseOut, MinerDies, Event, Outside, Answer, vars
<1>4. SendResult \/ ReadResult \/ UNCHANGED outLen
  BY DEF EngineStep, Take, InputEnds, Spawn, Poll, Clean, Kill, Reap, Quiet, replyVars,
     RemoveDirectory, Opened, WorkFails, SpawnFails, PollFails, Look, SampleJob, Sampled,
     CleanFails, KillFails, ReapFails, RemoveFails, Crash, Boot, Work, Reply, Evaluation,
     Watchdog, Sleep, StartupTimer, Session, SendJob, CloseInput, Cancel,
     StopEngine, CloseOut, MinerDies, Event, Outside, Answer, vars
<1>5. Take \/ Look \/ Spawn \/ StartupTimer \/ Opened \/ UNCHANGED engineVars
  BY DEF EngineStep, InputEnds, Poll, Clean, Kill, Reap, SampleJob, Sampled,
     RemoveDirectory, SendResult, WorkFails, SpawnFails, PollFails,
     CleanFails, KillFails, ReapFails, RemoveFails, Crash, Boot, Work, Reply, Evaluation,
     Watchdog, Sleep, Session, SendJob, CloseInput, ReadResult, Cancel,
     StopEngine, CloseOut, MinerDies, Event, Outside, vars, engineVars
<1>6. \/ Spawn \/ SpawnFails \/ Poll \/ PollFails \/ Clean \/ CleanFails \/ KillFails
      \/ Reap \/ ReapFails \/ RemoveDirectory \/ RemoveFails \/ UNCHANGED waitVars
  BY DEF EngineStep, Take, InputEnds, Look, SampleJob, Opened, Sampled, SendResult, Kill,
     WorkFails, Crash, Boot, Work, Reply, Evaluation, Watchdog, Sleep, StartupTimer,
     Session, SendJob, CloseInput, ReadResult, Cancel,
     StopEngine, CloseOut, MinerDies, Event, Outside, vars, waitVars
<1>7. \/ Spawn \/ Kill \/ CleanFails \/ KillFails \/ ReapFails \/ Opened \/ Sampled
      \/ Boot \/ Reply \/ Crash \/ Watchdog \/ UNCHANGED <<child, strays>>
  BY DEF EngineStep, Take, InputEnds, Look, SampleJob, SendResult, Poll, Clean, Reap,
     RemoveDirectory, WorkFails, SpawnFails, PollFails, RemoveFails, Work, Evaluation,
     Sleep, StartupTimer, Session, SendJob, CloseInput, ReadResult, Cancel,
     StopEngine, CloseOut, MinerDies, Event, Outside, vars, childVars
<1>8. \/ EngineStep \/ SpawnFails \/ PollFails \/ CleanFails \/ KillFails \/ ReapFails
      \/ RemoveFails \/ UNCHANGED pc
  BY DEF WorkFails, Crash, Boot, Work, Reply, Evaluation, Watchdog, Sleep, StartupTimer,
     Session, SendJob, CloseInput, ReadResult, Cancel,
     StopEngine, CloseOut, MinerDies, Event, Outside, vars
<1> QED BY <1>1, <1>2, <1>3, <1>4, <1>5, <1>6, <1>7, <1>8

(* The program runs in a worker that works.                                *)
LEMMA ChildTyped ==
  ASSUME EngineInv, [Next]_vars
  PROVE  child' \in Children /\ (step' = "off") = (child'.state # "work") /\ strays' \in Nat
<1> USE DEF childVars, programVars, solverVars
<1>0. child \in Children /\ (step = "off") = (child.state # "work") /\ strays \in Nat
  BY DEF EngineInv, WorkerTypeOK
<1>1. NoChild \in Children /\ NoChild.state = "none"
  BY DEF NoChild, Children
<1>2. CASE Spawn
  <2>1. step # "off" => child.state = "work"
    BY <1>0
  <2>2. child.state = "none"
    BY <1>2 DEF Spawn, EngineInv, ChildInv, NoChild
  <2> QED BY <1>0, <1>2, <2>2 DEF Spawn, NoChild, Children
<1>3. CASE Kill
  BY <1>0, <1>3 DEF Kill, ProgramLost, Children
<1>4. CASE CleanFails \/ KillFails \/ ReapFails
  BY <1>0, <1>1, <1>4 DEF CleanFails, KillFails, ReapFails, GiveUp, ProgramLost
<1>5. CASE Opened \/ Sampled
  <2>1. ~Running
    BY <1>5 DEF Opened, Sampled, EngineInv, ChildInv
  <2> QED BY <1>0, <1>1, <1>5, <2>1 DEF Opened, Sampled, Running
<1>6. CASE Boot
  <2>1. step' # "off"
    BY <1>6 DEF Boot, Solve
  <2>2. child'.state = "work" /\ child' \in Children /\ strays' = strays
    BY <1>0, <1>6 DEF Boot, Children
  <2> QED BY <1>0, <2>1, <2>2
<1>7. CASE Reply
  <2>1. [status |-> IF step = "ok" THEN "solved" ELSE "failed",
         spins |-> output, dispatches |-> dispatches] \in Replies
    BY DEF Replies, EngineInv, ProgramInv, ProgramTypeOK
  <2> QED BY <1>0, <1>7, <2>1 DEF Reply, Exit, ProgramLost, Children
<1>8. CASE Crash \/ Watchdog
  <2>1. /\ child' = [child EXCEPT !.state = "exited", !.code = 70, !.reply = None]
        /\ step' = "off" /\ strays' = strays
    BY <1>8 DEF Crash, Watchdog, Exit, ProgramLost
  <2>2. child' \in Children /\ child'.state = "exited"
    BY <1>0, <2>1 DEF Children
  <2> QED BY <1>0, <2>1, <2>2
<1>9. CASE (Work \/ WorkFails \/ Evaluation) /\ UNCHANGED <<child, strays>>
  <2>1. step # "off" /\ child.state = "work"
    BY <1>0, <1>9 DEF Work, WorkFails, Evaluation, AliveIn
  <2>2. step' # "off"
    BY <1>9, <2>1, ProgramRuns DEF Work, WorkFails, Evaluation, EngineInv
  <2> QED BY <1>0, <1>9, <2>1, <2>2
<1>10. CASE UNCHANGED <<child, strays, step>>
  BY <1>0, <1>10
<1> QED
  BY <1>2, <1>3, <1>4, <1>5, <1>6, <1>7, <1>8, <1>9, <1>10
  DEF Next, EngineStep, SystemFault, WorkerStep, Over, Take, InputEnds, Look, SampleJob,
     SendResult, Poll, Clean, Reap, Work, WorkFails, Evaluation,
     RemoveDirectory, SpawnFails, PollFails, RemoveFails,
     Sleep, StartupTimer, Session, SendJob, CloseInput, ReadResult, Cancel,
     StopEngine, CloseOut, MinerDies, Event, Outside, vars, childVars

(* The places of the engine are those the lists below name.                *)
LEMMA TypeKept ==
  ASSUME EngineInv, [Next]_vars
  PROVE  WorkerTypeOK'
<1>0. WorkerTypeOK /\ Answered = {<<>>, <<"reads">>, <<"cancelled">>, <<"failed">>}
  BY DEF EngineInv, Answered
<1>1. /\ jobs' \in Seq(Jobs) /\ sent' \subseteq Jobs /\ gone' \subseteq Marks
      /\ {inputOpen', outClosed', stop', dead'} \subseteq BOOLEAN /\ events' \in 0 .. MaxEvents
  <2> USE DEF WorkerTypeOK, sessionVars
  <2>1. CASE Take
    BY <1>0, <2>1 DEF Take
  <2>2. CASE SendJob
    <3>1. PICK j \in Jobs : jobs' = Append(jobs, j) /\ sent' = sent \union {j}
      BY <2>2 DEF SendJob
    <3>2. jobs' \in Seq(Jobs) /\ sent' \subseteq Jobs
      BY <1>0, <3>1
    <3>3. UNCHANGED <<inputOpen, outClosed, gone, stop, dead, events>>
      BY <2>2 DEF SendJob, Outside
    <3>4. /\ {inputOpen', outClosed', stop', dead'} \subseteq BOOLEAN
          /\ gone' \subseteq Marks /\ events' \in 0 .. MaxEvents
      BY <1>0, <3>3
    <3> QED BY <3>2, <3>4
  <2>3. CASE CloseInput \/ ReadResult
    BY <1>0, <2>3 DEF CloseInput, ReadResult, Outside
  <2>4. CASE Cancel
    BY <1>0, <2>4 DEF Cancel, Event, Outside
  <2>5. CASE StopEngine \/ CloseOut \/ MinerDies
    <3>1. /\ UNCHANGED <<jobs, sent, gone, inputOpen>> /\ events < MaxEvents /\ events' = events + 1
          /\ outClosed' \in {outClosed, TRUE} /\ stop' \in {stop, TRUE} /\ dead' \in {dead, TRUE}
      BY <2>5 DEF StopEngine, CloseOut, MinerDies, Event
    <3>2. events' \in 0 .. MaxEvents
      BY <1>0, <3>1
    <3>3. inputOpen' \in BOOLEAN /\ outClosed' \in BOOLEAN /\ stop' \in BOOLEAN /\ dead' \in BOOLEAN
      BY <1>0, <3>1, Zenon
    <3> QED BY <1>0, <3>1, <3>2, <3>3
  <2>6. CASE UNCHANGED sessionVars
    BY <1>0, <2>6
  <2> QED BY <2>1, <2>2, <2>3, <2>4, <2>5, <2>6, Effects DEF Session
<1>2. cur' \in Jobs /\ ane' \in {"none", "ok", "failed"} /\ what' \in {"check", "sample"}
      /\ {late', broken'} \subseteq BOOLEAN
  <2> USE DEF WorkerTypeOK
  <2>1. CASE Take
    BY <1>0, <2>1 DEF Take
  <2>2. CASE Look \/ Spawn \/ StartupTimer
    <3>1. /\ UNCHANGED <<cur, ane, broken>>
          /\ what' = what \/ what' = "check" \/ what' = "sample"
          /\ late' \in {TRUE, FALSE, late}
      BY <2>2 DEF Look, Spawn, StartupTimer
    <3> QED BY <1>0, <3>1
  <2>3. CASE Opened
    <3>1. /\ UNCHANGED <<cur, late>> /\ ane' \in {ane, "ok", "failed"} /\ what' \in {what, "sample"}
          /\ broken' = broken \/ broken' = (broken \/ result # "none" \/ late)
      BY <2>3 DEF Opened
    <3>2. broken' \in BOOLEAN
      BY <1>0, <3>1, Zenon
    <3> QED BY <1>0, <3>1, <3>2
  <2>4. CASE UNCHANGED engineVars
    BY <1>0, <2>4 DEF engineVars
  <2> QED BY <2>1, <2>2, <2>3, <2>4, Effects
<1>3. attempt' \in 1 .. 2 /\ result' \in {"none", "err", "solved"}
      /\ {reaped', directory'} \subseteq BOOLEAN
  <2>1. /\ attempt' \in {1, 2, attempt} /\ result' \in {"none", "err", "solved", result}
        /\ reaped' \in {TRUE, FALSE, reaped} /\ directory' \in {TRUE, FALSE, directory}
    BY Effects DEF Spawn, SpawnFails, Poll, PollFails, Clean, CleanFails, KillFails, ReapFails,
       GiveUp, Reap, RemoveDirectory, RemoveFails, waitVars
  <2>2. reaped' \in BOOLEAN /\ directory' \in BOOLEAN
    BY <1>0, <2>1, Zenon DEF WorkerTypeOK
  <2>3. attempt' \in 1 .. 2 /\ result' \in {"none", "err", "solved"}
    BY <1>0, <2>1 DEF WorkerTypeOK
  <2> QED BY <2>2, <2>3
<1>4. answers' \in [Jobs -> Answered] /\ DOMAIN delivered' = Jobs
  <2> USE DEF WorkerTypeOK
  <2>1. CASE Look \/ SampleJob \/ Sampled
    <3>1. cur \in Jobs /\ answers[cur] = << >>
      BY <1>0, <2>1 DEF EngineInv, JobsInv, Working, Look, SampleJob, Sampled
    <3>2. PICK o \in {"reads", "cancelled", "failed", "none"} :
            answers' = IF o = "none" THEN answers ELSE [answers EXCEPT ![cur] = Append(@, o)]
      BY <2>1 DEF Look, SampleJob, Sampled, Answer, Quiet, replyVars
    <3>3. o # "none" => Append(answers[cur], o) \in Answered
      <4>1. Append(<<>>, o) = <<o>>
        OBVIOUS
      <4> QED BY <1>0, <3>1, <4>1
    <3>4. answers' \in [Jobs -> Answered]
      BY <1>0, <3>1, <3>2, <3>3
    <3> QED BY <1>0, <2>1, <3>4 DEF Look, SampleJob, Sampled, Answer, Quiet, replyVars
  <2>2. CASE UNCHANGED answers
    BY <1>0, <2>2, Effects DEF Sampled, Answer
  <2> QED BY <2>1, <2>2, Effects
<1>5. pc' \in PCs
  <2> USE DEF PCs, Answer
  <2>1. CASE Take \/ InputEnds \/ Look \/ SampleJob \/ Spawn \/ Poll \/ SendResult
    BY <2>1 DEF Take, InputEnds, Look, SampleJob, Spawn, Poll, SendResult
  <2>2. CASE Clean \/ Kill \/ Reap \/ RemoveDirectory \/ Opened \/ Sampled
    BY <2>2 DEF Clean, Kill, Reap, RemoveDirectory, Opened, Sampled, Cleaned
  <2>3. CASE SpawnFails \/ PollFails \/ CleanFails \/ KillFails \/ ReapFails \/ RemoveFails
    BY <2>3 DEF SpawnFails, PollFails, CleanFails, KillFails, ReapFails, RemoveFails,
       GiveUp, Cleaned
  <2>4. CASE UNCHANGED pc
    BY <1>0, <2>4 DEF WorkerTypeOK
  <2> QED BY <2>1, <2>2, <2>3, <2>4, Effects DEF EngineStep
<1>6. outLen' \in 0 .. OutCap
  <2>1. CASE SendResult
    BY <1>0, <2>1 DEF SendResult, WorkerTypeOK
  <2>2. CASE ReadResult
    BY <1>0, <2>2 DEF ReadResult, WorkerTypeOK
  <2>3. CASE UNCHANGED outLen
    BY <1>0, <2>3 DEF WorkerTypeOK
  <2> QED BY <2>1, <2>2, <2>3, Effects
<1>7. child' \in Children /\ (step' = "off") = (child'.state # "work") /\ strays' \in Nat
  BY ChildTyped
<1> QED BY <1>1, <1>2, <1>3, <1>4, <1>5, <1>6, <1>7 DEF WorkerTypeOK

LEMMA ChildKept ==
  ASSUME EngineInv, [Next]_vars
  PROVE  ChildInv'
<1> USE DEF Waiting, Running
<1>0. /\ ChildInv /\ child \in Children /\ strays \in Nat /\ faults \in Nat /\ pc \in PCs
      /\ attempt \in 1 .. 2 /\ NoChild.state = "none"
  BY DEF EngineInv, WorkerTypeOK, ProgramInv, ProgramTypeOK, NoChild
<1>1. CASE Take \/ InputEnds \/ Look \/ SampleJob \/ SendResult
  <2>1. /\ UNCHANGED <<child, strays, directory, reaped, result, attempt, faults>>
        /\ {pc, pc'} \subseteq {"recv", "look", "sample", "spawn", "send", "done"}
    BY <1>1 DEF Take, InputEnds, Look, SampleJob, SendResult, Answer, childVars, waitVars,
       Engine, NoFault
  <2> QED BY <1>0, <2>1 DEF ChildInv
<1>2. CASE Spawn
  <2>1. /\ child' = [NoChild EXCEPT !.state = "boot"] /\ pc' = "poll" /\ directory' /\ ~reaped'
        /\ result' = "none" /\ attempt' = 1 /\ UNCHANGED <<strays, faults>>
    BY <1>2 DEF Spawn, Engine, NoFault
  <2>2. child'.state = "boot"
    BY <2>1 DEF NoChild
  <2> QED BY <1>0, <2>1, <2>2 DEF ChildInv
<1>3. CASE SpawnFails
  <2>1. /\ pc = "spawn" /\ pc' = "decide" /\ UNCHANGED <<child, strays, directory, attempt>>
        /\ faults' = faults + 1
    BY <1>3 DEF SpawnFails, Fault, childVars
  <2> QED BY <1>0, <2>1 DEF ChildInv
<1>4. CASE Poll
  <2>1. /\ pc = "poll" /\ pc' = "clean" /\ UNCHANGED <<child, strays, directory, attempt, faults>>
        /\ reaped' => reaped \/ child.state = "exited"
    BY <1>4 DEF Poll, childVars, Engine, NoFault
  <2> QED BY <1>0, <2>1 DEF ChildInv
<1>5. CASE PollFails
  <2>1. /\ pc = "poll" /\ pc' = "clean" /\ UNCHANGED <<child, strays, directory, attempt, reaped>>
        /\ faults' = faults + 1
    BY <1>5 DEF PollFails, childVars, Fault
  <2> QED BY <1>0, <2>1 DEF ChildInv
<1>6. CASE Clean
  <2>1. /\ pc = "clean" /\ UNCHANGED <<child, strays, directory, attempt, faults>>
        /\ \/ (reaped \/ child.state = "exited") /\ pc' \in {"rmdir", "dropped"}
           \/ pc' = "kill" /\ reaped' = reaped
    BY <1>6 DEF Clean, childVars, Engine, NoFault, Cleaned
  <2> QED BY <1>0, <2>1 DEF ChildInv
<1>7. CASE CleanFails \/ ReapFails \/ (KillFails /\ GiveUp)
  <2>1. /\ pc \in {"clean", "kill", "reap"} /\ GiveUp /\ faults' = faults + 1
        /\ pc = "clean" => ~reaped
    BY <1>7 DEF CleanFails, ReapFails, KillFails, Fault
  <2>2. CASE attempt = 1
    <3>1. attempt' = 2 /\ pc' = "clean" /\ UNCHANGED <<reaped, directory, child, strays>>
      BY <2>1, <2>2 DEF GiveUp, childVars
    <3> QED BY <1>0, <2>1, <3>1 DEF ChildInv
  <2>3. CASE attempt # 1
    <3>1. /\ pc' = "decide" /\ strays' = strays + 1 /\ directory' = FALSE /\ child' = NoChild
          /\ attempt' = attempt /\ attempt = 2
      BY <1>0, <2>1, <2>3 DEF GiveUp
    <3> QED BY <1>0, <2>1, <3>1 DEF ChildInv
  <2> QED BY <2>2, <2>3
<1>8. CASE KillFails /\ ~GiveUp
  <2>1. /\ pc = "kill" /\ child.state = "exited" /\ pc' \in {"rmdir", "dropped"}
        /\ UNCHANGED <<child, strays, directory, attempt>> /\ faults' = faults + 1
    BY <1>8 DEF KillFails, Fault, Cleaned, childVars
  <2> QED BY <1>0, <2>1 DEF ChildInv
<1>9. CASE Kill
  <2>1. /\ pc = "kill" /\ pc' = "reap" /\ child'.state = "exited"
        /\ UNCHANGED <<strays, directory, attempt, reaped, faults, result>>
    BY <1>0, <1>9 DEF Kill, Engine, NoFault, waitVars, Children
  <2> QED BY <1>0, <2>1 DEF ChildInv
<1>10. CASE Reap
  <2>1. /\ pc = "reap" /\ pc' \in {"rmdir", "dropped"}
        /\ UNCHANGED <<child, strays, directory, attempt, faults>>
    BY <1>10 DEF Reap, Engine, NoFault, Cleaned, childVars
  <2> QED BY <1>0, <2>1 DEF ChildInv
<1>11. CASE RemoveDirectory \/ RemoveFails
  <2>1. /\ pc \in {"rmdir", "dropped"} /\ UNCHANGED <<child, strays, attempt>>
        /\ \/ pc' = "decide" /\ directory' = FALSE
           \/ pc' = "dropped" /\ directory' = directory
        /\ faults' \in {faults, faults + 1}
    BY <1>11 DEF RemoveDirectory, RemoveFails, Engine, NoFault, Fault, childVars
  <2> QED BY <1>0, <2>1 DEF ChildInv
<1>12. CASE Opened \/ Sampled
  <2>1. /\ pc = "decide" /\ pc' \in {"sample", "look", "send"} /\ child' = NoChild
        /\ UNCHANGED <<strays, directory, attempt, faults>>
    BY <1>12 DEF Opened, Sampled, Answer, Engine, NoFault, waitVars
  <2> QED BY <1>0, <2>1 DEF ChildInv
<1>13. CASE Boot \/ Reply \/ Crash \/ Watchdog
  <2>1. /\ Running /\ child'.state \in {"work", "exited"}
        /\ UNCHANGED <<pc, strays, directory, attempt, reaped, result>>
    BY <1>0, <1>13 DEF Boot, Reply, Crash, Watchdog, AliveIn, Exit, waitVars, Children
  <2>2. faults' \in {faults, faults + 1}
    BY <1>13 DEF Boot, Reply, Crash, Watchdog, NoFault, Fault
  <2>3. pc \in {"poll", "clean", "kill"} /\ (pc = "clean" => ~reaped) /\ directory
    BY <1>0, <2>1 DEF ChildInv, PCs
  <2> QED BY <1>0, <2>1, <2>2, <2>3 DEF ChildInv
<1>14. CASE UNCHANGED <<pc, child, strays, waitVars>>
  <2>1. faults' \in Nat /\ faults <= faults'
    <3>1. faults' \in 0 .. MaxFaults
      BY FaultsBounded
    <3>2. faults' = faults \/ faults' = faults + 1
      BY FaultsGrow
    <3> QED BY <1>0, <3>1, <3>2
  <2> QED BY <1>0, <1>14, <2>1 DEF ChildInv, waitVars
<1> QED
  BY <1>1, <1>2, <1>3, <1>4, <1>5, <1>6, <1>7, <1>8, <1>9, <1>10, <1>11, <1>12, <1>13, <1>14
  DEF Next, EngineStep, SystemFault, WorkerStep, Over, Work, WorkFails, Evaluation,
     Sleep, StartupTimer, Session, SendJob, CloseInput, ReadResult, Cancel,
     StopEngine, CloseOut, MinerDies, Event, Outside, vars, childVars

(* A cancellation stays one.                                               *)
LEMMA GivenUpStays ==
  ASSUME EngineInv, [Next]_vars, cur' = cur
  PROVE  /\ stop => stop'
         /\ gone \subseteq gone'
         /\ Cancelled(cur) => Cancelled(cur)'
<1>1. /\ stop' = stop \/ stop' = TRUE
      /\ gone' = gone \/ \E m \in Marks : gone' = gone \union {m}
  BY Effects DEF Take, Session, SendJob, CloseInput, ReadResult, Cancel, StopEngine, CloseOut,
     MinerDies, sessionVars
<1> QED BY <1>1 DEF Cancelled

LEMMA VerdictKept ==
  ASSUME EngineInv, [Next]_vars
  PROVE  VerdictInv'
<1> USE DEF Judging
<1>0. /\ VerdictInv /\ ChildInv /\ child \in Children /\ pc \in PCs /\ attempt \in 1 .. 2
      /\ result \in {"none", "err", "solved"} /\ what \in {"check", "sample"}
  BY DEF EngineInv, WorkerTypeOK
<1>1. CASE Take
  <2>1. pc' = "look" /\ UNCHANGED <<ane, broken>>
    BY <1>1 DEF Take
  <2> QED BY <1>0, <2>1 DEF VerdictInv
<1>3. CASE Look \/ SampleJob
  <2>1. /\ pc' \in {"spawn", "sample", "send"} /\ UNCHANGED <<ane, broken>>
        /\ pc' = "sample" => what' = "sample"
    BY <1>3 DEF Look, SampleJob, Answer, engineVars
  <2> QED BY <1>0, <2>1 DEF VerdictInv
<1>4. CASE Spawn \/ InputEnds \/ SendResult
  <2>1. pc' \in {"poll", "done", "recv"} /\ UNCHANGED <<ane, broken>>
    BY <1>4 DEF Spawn, InputEnds, SendResult, engineVars
  <2> QED BY <1>0, <2>1 DEF VerdictInv
<1>5. CASE SpawnFails \/ PollFails \/ RemoveFails
  <2>1. pc' \in {"decide", "clean", "dropped"} /\ result' = "err" /\ UNCHANGED <<ane, broken>>
    BY <1>5 DEF SpawnFails, PollFails, RemoveFails, engineVars
  <2> QED BY <1>0, <2>1 DEF VerdictInv
<1>6. CASE Poll
  <2>1. UNCHANGED <<cur, what, late, stop, gone, ane, broken, child>> /\ pc' = "clean" /\ pc = "poll"
    BY <1>6 DEF Poll, engineVars, sessionVars, childVars
  <2>2. \/ GivesUp /\ result' = "none"
        \/ child.state = "exited" /\ result' = "err"
        \/ child.state = "exited" /\ result' = "solved" /\ child.code = 0 /\ child.reply.status = "solved"
    BY <1>0, <1>6 DEF Poll, ChildInv
  <2>3. GivesUp => GivesUp'
    BY <2>1 DEF GivesUp, Cancelled
  <2> QED BY <1>0, <2>1, <2>2, <2>3 DEF VerdictInv
<1>7. CASE CleanFails \/ ReapFails \/ (KillFails /\ GiveUp)
  <2>1. result' = "err" /\ pc' \in {"clean", "decide"} /\ UNCHANGED <<ane, broken>>
    BY <1>7 DEF CleanFails, ReapFails, KillFails, GiveUp, engineVars
  <2> QED BY <1>0, <2>1 DEF VerdictInv
<1>8. CASE Clean \/ Reap \/ RemoveDirectory \/ (KillFails /\ ~GiveUp)
  <2>1. /\ pc \in Judging /\ pc' \in Judging
        /\ UNCHANGED <<cur, what, late, stop, gone, ane, broken, child, result>>
    BY <1>8 DEF Clean, Reap, RemoveDirectory, KillFails, Cleaned, engineVars, sessionVars, childVars
  <2>2. GivesUp => GivesUp'
    BY <2>1 DEF GivesUp, Cancelled
  <2> QED BY <1>0, <2>1, <2>2 DEF VerdictInv
<1>9. CASE Kill
  <2>1. /\ pc = "kill" /\ pc' = "reap" /\ UNCHANGED <<cur, what, late, stop, gone, ane, broken, result>>
        /\ child' = [child EXCEPT !.state = "exited", !.code = IF Running THEN 9 ELSE @]
    BY <1>9 DEF Kill, engineVars, sessionVars, waitVars
  <2>2. GivesUp => GivesUp'
    BY <2>1 DEF GivesUp, Cancelled
  <2>3. child.state = "exited" => child'.state = "exited" /\ child'.code = child.code /\ child'.reply = child.reply
    BY <1>0, <2>1 DEF Children, Running
  <2> QED BY <1>0, <2>1, <2>2, <2>3 DEF VerdictInv
<1>10. CASE Opened
  <2>1. \/ ane' = "ok" /\ what' = "sample" /\ pc' = "sample"
        \/ ~Accepted /\ pc' = "look" /\ broken' = (broken \/ result # "none" \/ late)
           /\ ane' = IF Cancelled(cur) THEN ane ELSE "failed"
    BY <1>10 DEF Opened
  <2>2. pc = "decide" /\ what = "check"
    BY <1>10 DEF Opened
  <2>3. result = "none" => Cancelled(cur) \/ late
    BY <1>0, <2>2 DEF VerdictInv, GivesUp
  <2>4. ane = "failed" => broken
    BY <1>0 DEF VerdictInv
  <2>5. ane' = "failed" => broken'
    BY <2>1, <2>3, <2>4, Zenon
  <2> QED BY <2>1, <2>5 DEF VerdictInv
<1>11. CASE Sampled
  <2>1. pc' = "send" /\ UNCHANGED <<ane, broken>>
    BY <1>11 DEF Sampled, Answer, engineVars
  <2> QED BY <1>0, <2>1 DEF VerdictInv
<1>12. CASE /\ UNCHANGED <<pc, cur, what, ane, broken, result>> /\ (late => late')
            /\ (child.state = "exited" => child' = child)
  <2>1. GivesUp => GivesUp'
    BY <1>12, GivenUpStays DEF GivesUp, Cancelled
  <2> QED BY <1>0, <1>12, <2>1 DEF VerdictInv
<1> QED
  BY <1>1, <1>3, <1>4, <1>5, <1>6, <1>7, <1>8, <1>9, <1>10, <1>11, <1>12
  DEF Next, EngineStep, SystemFault, WorkerStep, Over, Work, WorkFails, Evaluation, Boot, Reply,
     Crash, Watchdog, AliveIn, Running, engineVars, waitVars,
     Sleep, StartupTimer, Session, SendJob, CloseInput, ReadResult, Cancel,
     StopEngine, CloseOut, MinerDies, Event, Outside, vars, childVars

(* Every job is in one place: before the engine, in it, or answered.       *)
LEMMA JobsKept ==
  ASSUME EngineInv, [Next]_vars
  PROVE  JobsInv'
<1> USE DEF Working
<1>0. /\ JobsInv /\ jobs \in Seq(Jobs) /\ sent \subseteq Jobs /\ cur \in Jobs /\ pc \in PCs
      /\ answers \in [Jobs -> Answered]
  BY DEF EngineInv, WorkerTypeOK
<1>1. CASE Take
  <2>1. /\ pc = "recv" /\ jobs # << >> /\ cur' = Head(jobs) /\ jobs' = Tail(jobs)
        /\ pc' = "look" /\ UNCHANGED <<sent, answers>>
    BY <1>1 DEF Take, Quiet, replyVars
  <2>2. /\ DOMAIN jobs = 1 .. Len(jobs) /\ DOMAIN jobs' = 1 .. Len(jobs) - 1 /\ Len(jobs) \in Nat \ {0}
        /\ \A i \in DOMAIN jobs' : jobs'[i] = jobs[i + 1] /\ i + 1 \in DOMAIN jobs
        /\ cur' = jobs[1] /\ 1 \in DOMAIN jobs
    BY <1>0, <2>1
  <2>3. /\ \A i, j \in DOMAIN jobs' : i # j => jobs'[i] # jobs'[j]
        /\ \A i \in DOMAIN jobs' : jobs'[i] # cur'
    <3>1. \A i, j \in DOMAIN jobs : i # j => jobs[i] # jobs[j]
      BY <1>0 DEF JobsInv
    <3>2. \A i, j \in DOMAIN jobs' : i # j => i + 1 # j + 1
      BY <2>2
    <3>3. \A i \in DOMAIN jobs' : i + 1 # 1
      BY <2>2
    <3> QED BY <2>2, <3>1, <3>2, <3>3, ZenonT(30)
  <2>4. \A j \in Elems(jobs) : j = cur' \/ j \in Elems(jobs')
    <3> TAKE j \in Elems(jobs)
    <3>1. PICK i \in DOMAIN jobs : jobs[i] = j
      BY DEF Elems
    <3>2. i = 1 \/ (i - 1 \in DOMAIN jobs' /\ jobs'[i - 1] = j)
      BY <2>2, <3>1
    <3> QED BY <2>2, <3>1, <3>2 DEF Elems
  <2>5. /\ Elems(jobs') \subseteq Elems(jobs) /\ cur' \in Elems(jobs) /\ cur' \notin Elems(jobs')
    BY <2>2, <2>3 DEF Elems
  <2> QED BY <1>0, <2>1, <2>3, <2>4, <2>5 DEF JobsInv
<1>2. CASE InputEnds
  <2>1. /\ pc = "recv" /\ jobs = << >> /\ pc' = "done" /\ UNCHANGED <<jobs, sent, answers, cur, outClosed>>
    BY <1>2 DEF InputEnds, Quiet, replyVars, sessionVars, engineVars
  <2>2. Elems(jobs) = {}
    BY <2>1 DEF Elems
  <2> QED BY <1>0, <2>1, <2>2 DEF JobsInv
<1>3. CASE Look \/ SampleJob \/ Sampled
  <2>1. /\ Working /\ UNCHANGED <<jobs, sent, cur, outClosed>>
        /\ \/ Working' /\ answers' = answers
           \/ pc' = "send" /\ \E o \in {"reads", "cancelled", "failed"} :
                                answers' = [answers EXCEPT ![cur] = Append(@, o)]
    BY <1>3 DEF Look, SampleJob, Sampled, Answer, Quiet, replyVars, sessionVars, engineVars
  <2>2. CASE Working' /\ answers' = answers
    BY <1>0, <2>1, <2>2 DEF JobsInv
  <2>3. CASE pc' = "send" /\ answers' # answers
    <3>1. PICK o \in {"reads", "cancelled", "failed"} : answers' = [answers EXCEPT ![cur] = Append(@, o)]
      BY <2>1, <2>3
    <3>2. answers[cur] = << >> /\ Append(<< >>, o) # << >>
      BY <1>0, <2>1 DEF JobsInv
    <3>3. answers'[cur] # << >> /\ \A j \in Jobs : j # cur => answers'[j] = answers[j]
      BY <1>0, <3>1, <3>2
    <3> QED BY <1>0, <2>1, <2>3, <3>3 DEF JobsInv
  <2>4. answers[cur] = << >> /\ \A o \in {"reads", "cancelled", "failed"} : Append(<< >>, o) # << >>
    BY <1>0, <2>1 DEF JobsInv
  <2>5. \A o \in {"reads", "cancelled", "failed"} :
          [answers EXCEPT ![cur] = Append(@, o)] # answers
    BY <1>0, <2>4
  <2> QED BY <2>1, <2>2, <2>3, <2>5
<1>4. CASE SendResult
  <2>1. /\ pc = "send" /\ pc' \in {"recv", "done"} /\ (pc' = "done" => outClosed)
        /\ UNCHANGED <<jobs, sent, answers, cur, outClosed>>
    BY <1>4 DEF SendResult, sessionVars, engineVars
  <2> QED BY <1>0, <2>1 DEF JobsInv
<1>5. CASE SendJob
  <2>1. PICK j \in Jobs : sent = 1 .. (j - 1) /\ jobs' = Append(jobs, j) /\ sent' = sent \union {j}
    BY <1>5 DEF SendJob
  <2>2. pc # "done" /\ UNCHANGED <<pc, cur, answers, outClosed>> /\ j \notin sent
    BY <1>5, <2>1 DEF SendJob, Outside, engineVars, Jobs
  <2>3. /\ DOMAIN jobs' = 1 .. Len(jobs) + 1 /\ jobs'[Len(jobs) + 1] = j
        /\ \A i \in DOMAIN jobs : jobs'[i] = jobs[i] /\ i \in DOMAIN jobs'
        /\ DOMAIN jobs = 1 .. Len(jobs) /\ Len(jobs) \in Nat
    BY <1>0, <2>1
  <2>4. Elems(jobs') = Elems(jobs) \union {j}
    BY <2>3 DEF Elems
  <2>5. j \notin Elems(jobs)
    BY <1>0, <2>2 DEF JobsInv
  <2>6. \A i, k \in DOMAIN jobs' : i # k => jobs'[i] # jobs'[k]
    <3>1. \A i, k \in DOMAIN jobs : i # k => jobs[i] # jobs[k]
      BY <1>0 DEF JobsInv
    <3>2. \A i \in DOMAIN jobs' : i = Len(jobs) + 1 \/ i \in DOMAIN jobs
      BY <2>3
    <3>3. \A i \in DOMAIN jobs : jobs'[i] # j
      BY <2>3, <2>5 DEF Elems
    <3> QED BY <2>3, <3>1, <3>2, <3>3, Zenon
  <2> QED BY <1>0, <2>1, <2>2, <2>4, <2>5, <2>6 DEF JobsInv
<1>6. CASE UNCHANGED <<jobs, sent, answers, cur>> /\ pc' = pc /\ (outClosed => outClosed')
  BY <1>0, <1>6 DEF JobsInv
<1>7. CASE UNCHANGED <<jobs, sent, answers, cur, outClosed>> /\ Working /\ Working'
  BY <1>0, <1>7 DEF JobsInv
<1>8. CASE \/ Spawn \/ Poll \/ Clean \/ Kill \/ Reap \/ RemoveDirectory \/ Opened \/ SpawnFails
           \/ PollFails \/ CleanFails \/ KillFails \/ ReapFails \/ RemoveFails
  <2>1. UNCHANGED <<jobs, sent, answers, cur, outClosed>>
    BY <1>8 DEF Spawn, Poll, Clean, Kill, Reap, RemoveDirectory, Opened, SpawnFails, PollFails,
       CleanFails, KillFails, ReapFails, RemoveFails, Quiet, replyVars, sessionVars, engineVars
  <2>2. Working /\ Working'
    BY <1>8 DEF Spawn, Poll, Clean, Kill, Reap, RemoveDirectory, Opened, SpawnFails, PollFails,
       CleanFails, KillFails, ReapFails, RemoveFails, GiveUp, Cleaned
  <2> QED BY <1>7, <2>1, <2>2
<1> QED
  BY <1>1, <1>2, <1>3, <1>4, <1>5, <1>6, <1>8
  DEF Next, EngineStep, SystemFault, WorkerStep, Over, Work, WorkFails, Evaluation, Boot, Reply,
     Crash, Watchdog, engineVars, replyVars, Quiet, sessionVars,
     Sleep, StartupTimer, Session, CloseInput, ReadResult, Cancel,
     StopEngine, CloseOut, MinerDies, Event, Outside, vars

(* What an accepted reply holds is the walk of the request.                *)
LEMMA ReplyKept ==
  ASSUME EngineInv, [Next]_vars
  PROVE  ReplyInv'
<1>0. /\ ReplyInv /\ VerdictInv /\ ChildInv /\ ProgramInv /\ child \in Children
      /\ cur \in Jobs /\ answers \in [Jobs -> Answered] /\ DOMAIN delivered = Jobs
      /\ (step = "off") = (child.state # "work") /\ NoChild.state = "none"
  BY DEF EngineInv, WorkerTypeOK, NoChild
<1>1. /\ child'.state = "work" => work' = Request'
      /\ child'.state = "exited" /\ child'.code = 0 =>
           (child'.reply.status = "solved" => Good(Request', child'.reply))
  <2>1. CASE Take \/ Look \/ SampleJob
    <3>1. UNCHANGED child /\ pc \in {"recv", "look", "sample"}
      BY <2>1 DEF Take, Look, SampleJob, childVars
    <3>2. child' = NoChild
      BY <1>0, <3>1 DEF ChildInv
    <3> QED BY <1>0, <3>2
  <2>2. CASE Opened \/ Sampled
    BY <1>0, <2>2 DEF Opened, Sampled
  <2>3. CASE Spawn
    <3>1. child'.state = "boot"
      BY <2>3 DEF Spawn, NoChild
    <3> QED BY <3>1
  <2>4. CASE CleanFails \/ ReapFails \/ KillFails
    <3>1. /\ child' = NoChild \/ UNCHANGED <<child, work>>
          /\ UNCHANGED <<what, cur>>
      BY <2>4 DEF CleanFails, ReapFails, KillFails, GiveUp, engineVars, childVars, programVars, solverVars
    <3>2. Request' = Request
      BY <3>1 DEF Request
    <3> QED BY <1>0, <3>1, <3>2 DEF ReplyInv
  <2>5. CASE Kill
    <3>1. /\ child' = [child EXCEPT !.state = "exited", !.code = IF Running THEN 9 ELSE @]
          /\ UNCHANGED <<what, cur>> /\ pc = "kill"
      BY <2>5 DEF Kill, engineVars
    <3>2. Request' = Request /\ child.state # "none"
      BY <1>0, <3>1 DEF Request, ChildInv, Waiting
    <3>3. child'.state = "exited" /\ child'.reply = child.reply
          /\ (child'.code = 0 => child.code = 0 /\ child.state = "exited")
      BY <1>0, <3>1, <3>2 DEF Children, Running
    <3> QED BY <1>0, <3>2, <3>3 DEF ReplyInv
  <2>6. CASE Boot
    <3>1. work' = Request /\ UNCHANGED <<what, cur>> /\ child'.state = "work"
      BY <1>0, <2>6 DEF Boot, Solve, engineVars, Children
    <3>2. Request' = Request
      BY <3>1 DEF Request
    <3> QED BY <3>1, <3>2
  <2>7. CASE Reply
    <3>1. /\ child.state = "work" /\ step \in {"ok", "err"} /\ UNCHANGED <<what, cur>>
          /\ child' = [child EXCEPT !.state = "exited", !.code = 0,
                !.reply = [status |-> IF step = "ok" THEN "solved" ELSE "failed",
                           spins |-> output, dispatches |-> dispatches]]
      BY <2>7 DEF Reply, Exit, AliveIn, engineVars
    <3>2. Request' = Request /\ work = Request
      BY <1>0, <3>1 DEF Request, ReplyInv
    <3>3. /\ child'.state = "exited"
          /\ child'.reply.status = IF step = "ok" THEN "solved" ELSE "failed"
          /\ child'.reply.spins = output /\ child'.reply.dispatches = dispatches
      BY <1>0, <3>1 DEF Children
    <3>4. step = "ok" => output = W /\ dispatches = DivCeil(Len(W), BlockSweeps)
      BY <1>0 DEF ProgramInv, LaidInv, CountInv
    <3> QED BY <3>2, <3>3, <3>4 DEF Good, W
  <2>8. CASE Crash \/ Watchdog
    <3>1. child' = [child EXCEPT !.state = "exited", !.code = 70, !.reply = None]
      BY <2>8 DEF Crash, Watchdog, Exit
    <3>2. child'.state = "exited" /\ child'.code = 70
      BY <1>0, <3>1 DEF Children
    <3> QED BY <3>2
  <2>9. CASE UNCHANGED <<child, what, cur>> /\ (child.state = "work" => work' = work)
    <3>1. Request' = Request
      BY <2>9 DEF Request
    <3> QED BY <1>0, <2>9, <3>1 DEF ReplyInv
  <2>10. CASE Work \/ WorkFails \/ Evaluation
    <3>1. step # "off"
      BY <1>0, <2>10 DEF Work, WorkFails, Evaluation, AliveIn
    <3>2. work' = work
      BY <1>0, <2>10, <3>1, ProgramRuns DEF Work, WorkFails, Evaluation
    <3> QED BY <2>9, <2>10, <3>2 DEF Work, WorkFails, Evaluation, engineVars
  <2> QED
    BY <2>1, <2>2, <2>3, <2>4, <2>5, <2>6, <2>7, <2>8, <2>9, <2>10
    DEF Next, EngineStep, SystemFault, WorkerStep, Over, InputEnds, SendResult, Poll, Clean, Reap,
     RemoveDirectory, SpawnFails, PollFails, RemoveFails, engineVars, programVars, solverVars,
     Sleep, StartupTimer, Session, SendJob, CloseInput, ReadResult, Cancel,
     StopEngine, CloseOut, MinerDies, Event, Outside, vars, childVars
<1>2. \A j \in Jobs : answers'[j] = <<"reads">> => delivered'[j] = Walk(WorkOf[j])
  <2>0. \A j \in Jobs : answers[j] = <<"reads">> => delivered[j] = Walk(WorkOf[j])
    BY <1>0 DEF ReplyInv
  <2>1. CASE Look \/ SampleJob \/ (Sampled /\ delivered' = delivered /\ ~Accepted)
    <3>1. /\ delivered' = delivered /\ answers[cur] = << >>
          /\ \/ answers' = answers
             \/ \E o \in {"cancelled", "failed"} : answers' = [answers EXCEPT ![cur] = Append(@, o)]
      BY <1>0, <2>1 DEF EngineInv, JobsInv, Working, Look, SampleJob, Sampled, Answer, Quiet, replyVars
    <3>2. \A o \in {"cancelled", "failed"} : Append(<< >>, o) # <<"reads">>
      OBVIOUS
    <3>3. \A j \in Jobs : answers'[j] = <<"reads">> => answers[j] = <<"reads">>
      BY <1>0, <3>1, <3>2
    <3> QED BY <2>0, <3>1, <3>3
  <2>2. CASE Sampled /\ Accepted
    <3>1. /\ pc = "decide" /\ what = "sample" /\ result = "solved"
          /\ \/ delivered' = delivered /\ answers' = [answers EXCEPT ![cur] = Append(@, "cancelled")]
             \/ /\ delivered' = [delivered EXCEPT ![cur] = child.reply.spins]
                /\ answers' = [answers EXCEPT ![cur] = Append(@, "reads")]
      BY <2>2 DEF Sampled, Accepted, Answer
    <3>2. Good(Request, child.reply) /\ Request = WorkOf[cur]
      BY <1>0, <3>1 DEF VerdictInv, ReplyInv, Judging, Request
    <3>3. child.reply.spins = Walk(WorkOf[cur])
      BY <3>2 DEF Good
    <3>4. answers[cur] = << >> /\ Append(<< >>, "cancelled") # <<"reads">>
      BY <1>0, <3>1 DEF EngineInv, JobsInv, Working
    <3> QED BY <1>0, <2>0, <3>1, <3>3, <3>4
  <2>3. CASE UNCHANGED <<answers, delivered>>
    BY <2>0, <2>3
  <2>4. Sampled /\ ~Accepted => delivered' = delivered
    BY DEF Sampled, Answer
  <2> QED BY <2>1, <2>2, <2>3, <2>4, Effects
<1> QED BY <1>1, <1>2 DEF ReplyInv

LEMMA EngineStays == EngineInv /\ [Next]_vars => EngineInv'
BY WorkRuns, TypeKept, ChildKept, VerdictKept, JobsKept, ReplyKept DEF EngineInv

LEMMA EngineInvariant == Spec => []EngineInv
BY EngineStart, EngineStays, PTL DEF Spec

(* What the engine decides of a job and of itself rests on the job's own   *)
(* receipt and cancellation: a solved job is never refused for its         *)
(* receipt, and only a startup that failed by itself is kept as a failure. *)
THEOREM WorkerCorrect == Spec => []WorkerInv
<1>1. EngineInv => WorkerInv
  <2> SUFFICES ASSUME EngineInv PROVE WorkerInv
    OBVIOUS
  <2>1. TypeOK
    <3>1. \A j \in Jobs : Len(answers[j]) <= 1
      <4> TAKE j \in Jobs
      <4>1. Len(<< >>) = 0 /\ \A o : Len(<<o>>) = 1
        OBVIOUS
      <4>2. answers[j] \in Answered
        BY DEF EngineInv, WorkerTypeOK
      <4>3. Len(answers[j]) = 0 \/ Len(answers[j]) = 1
        BY <4>1, <4>2, Zenon DEF Answered
      <4>4. \A n : n = 0 \/ n = 1 => n <= 1
        OBVIOUS
      <4> QED BY <4>3, <4>4, Zenon
    <3>2. program.current \in Banks /\ program.next \in Banks
      BY DEF EngineInv, ProgramInv, ProgramTypeOK, Programs
    <3>3. /\ child.state \in {"none", "boot", "work", "exited"} /\ child.owner \in {"miner", "init"}
          /\ faults \in 0 .. MaxFaults
      BY DEF EngineInv, WorkerTypeOK, Children, ProgramInv, ProgramTypeOK
    <3> QED BY <3>1, <3>2, <3>3 DEF TypeOK, EngineInv, WorkerTypeOK, PCs
  <2>2. ReceiptAgrees
    <3> SUFFICES ASSUME pc = "decide", result = "solved" PROVE ValidReceipt(child.reply)
      BY DEF ReceiptAgrees
    <3>1. Good(Request, child.reply)
      BY DEF EngineInv, VerdictInv, ReplyInv, Judging
    <3>2. Request \in Works
      BY RequestTyped DEF EngineInv, WorkerTypeOK
    <3>3. Len(Walk(Request)) = Request.sweeps
      BY <3>2, WalkTyped
    <3> QED BY <3>1, <3>3 DEF Good, ValidReceipt
  <2>3. CancelledNotKept
    BY DEF CancelledNotKept, EngineInv, VerdictInv
  <2> QED BY <2>1, <2>2, <2>3 DEF WorkerInv
<1> QED BY <1>1, EngineInvariant, PTL

(* Reads that are delivered have been through every sweep of their own     *)
(* job, each once and in order, and a dispatch never runs on surfaces that *)
(* have been released: for every number of sweeps, size of a rung and size *)
(* of a block, whatever fails and whenever.                                *)
THEOREM WorkerAnneals == Spec => []Annealed
<1>1. EngineInv => Annealed
  <2> SUFFICES ASSUME EngineInv PROVE Annealed
    OBVIOUS
  <2>1. ReadsAnnealed
    <3> SUFFICES ASSUME NEW j \in Jobs, answers[j] = <<"reads">>
                 PROVE  delivered[j] = AllSweeps(WorkOf[j])
      BY DEF ReadsAnnealed
    <3>1. WorkOf[j] \in Works
      BY DEF Works
    <3>2. delivered[j] = Walk(WorkOf[j])
      BY DEF EngineInv, ReplyInv
    <3> QED BY <3>1, <3>2, WalkIs
  <2>2. SurfacesHeld
    BY DEF SurfacesHeld, EngineInv, ProgramInv, HoldInv, Owning
  <2> QED BY <2>1, <2>2 DEF Annealed
<1> QED BY <1>1, EngineInvariant, PTL

(* One failing system call leaves no process behind and takes no job       *)
(* directory from under a running worker.                                  *)
THEOREM WorkerCleansUp == Spec => []CleanedUp
<1>1. EngineInv => CleanedUp
  <2> SUFFICES ASSUME EngineInv PROVE CleanedUp
    OBVIOUS
  <2>1. NoChild.state = "none" /\ pc \in PCs
    BY DEF NoChild, EngineInv, WorkerTypeOK
  <2> QED BY <2>1 DEF CleanedUp, EngineInv, ChildInv, Running, Waiting, PCs
<1> QED BY <1>1, EngineInvariant, PTL

-----------------------------------------------------------------------------
(* The contract *)

GoneJobs == {j \in Jobs : Cancelled(j)}

LEMMA InitPromises == Init => Contract!Init
<1> SUFFICES ASSUME Init PROVE Contract!Init
  OBVIOUS
<1>1. GoneJobs = {}
  BY DEF GoneJobs, Cancelled, Init
<1>2. Contract!Units = Jobs
  BY DEF Contract!Units
<1> QED BY <1>1, <1>2 DEF Contract!Init, Init, GoneJobs

(* An outcome the engine fixes is one the contract allows.                 *)
LEMMA AnswerPromises ==
  ASSUME EngineInv, [Next]_vars, Working, NEW o \in {"reads", "cancelled", "failed"},
         answers' = [answers EXCEPT ![cur] = Append(@, o)], pc' # "done",
         UNCHANGED <<sent, GoneJobs, outClosed>>,
         o = "reads" => ~Cancelled(cur), o = "cancelled" => Cancelled(cur)
  PROVE  Contract!Next
<1>1. /\ cur \in sent /\ cur \in Jobs /\ answers[cur] = << >> /\ pc # "done"
      /\ answers \in [Jobs -> Answered]
  BY DEF EngineInv, WorkerTypeOK, JobsInv, Working
<1>2. Contract!Units = Jobs /\ o \in Contract!Outcomes
  BY DEF Contract!Units, Contract!Outcomes
<1>3. answers' = [j \in Jobs |-> IF j \in {cur} THEN <<o>> ELSE answers[j]]
  <2>1. Append(<< >>, o) = <<o>>
    OBVIOUS
  <2> QED BY <1>1, <2>1
<1>4. Contract!Respond({cur}, o)
  BY <1>1, <1>2, <1>3 DEF Contract!Respond, GoneJobs
<1>5. {cur} \in SUBSET Contract!Units
  BY <1>1, <1>2
<1> QED BY <1>2, <1>4, <1>5 DEF Contract!Next

LEMMA StepPromises ==
  ASSUME EngineInv, [Next]_vars
  PROVE  Contract!Next \/ UNCHANGED Contract!vars
<1>0. /\ answers \in [Jobs -> Answered] /\ sent \subseteq Jobs /\ cur \in Jobs /\ JobsInv /\ VerdictInv
      /\ Contract!Units = Jobs
  BY DEF EngineInv, WorkerTypeOK, Contract!Units
<1>1. CASE (Look \/ SampleJob \/ Sampled) /\ answers' # answers
  <2>1. /\ Working /\ pc' # "done" /\ UNCHANGED <<sent, outClosed, stop, gone>>
        /\ \E o \in {"reads", "cancelled", "failed"} :
             /\ answers' = [answers EXCEPT ![cur] = Append(@, o)]
             /\ o = "reads" => ~Cancelled(cur)
             /\ o = "cancelled" => Cancelled(cur) \/ (pc = "decide" /\ what = "sample" /\ result = "none")
    BY <1>1 DEF Look, SampleJob, Sampled, Answer, Quiet, replyVars, sessionVars, Working
  <2>2. pc = "decide" /\ what = "sample" /\ result = "none" => Cancelled(cur)
    BY <1>0 DEF VerdictInv, Judging, GivesUp
  <2>3. GoneJobs' = GoneJobs
    BY <2>1 DEF GoneJobs, Cancelled
  <2> QED BY <2>1, <2>2, <2>3, AnswerPromises
<1>2. CASE InputEnds \/ (SendResult /\ pc' = "done")
  <2>1. /\ pc' = "done" /\ UNCHANGED <<sent, answers, outClosed, stop, gone, cur>>
        /\ outClosed \/ (pc = "recv" /\ jobs = << >>)
    BY <1>2 DEF InputEnds, SendResult, Quiet, replyVars, sessionVars, engineVars
  <2>2. outClosed \/ \A j \in sent : answers[j] # << >>
    BY <1>0, <2>1 DEF JobsInv, Elems, Working
  <2>3. GoneJobs' = GoneJobs
    BY <2>1 DEF GoneJobs, Cancelled
  <2>4. Contract!End
    BY <2>1, <2>2, <2>3 DEF Contract!End, GoneJobs
  <2> QED BY <2>4 DEF Contract!Next
<1>3. CASE SendJob
  <2>1. PICK j \in Jobs : sent = 1 .. (j - 1) /\ sent' = sent \union {j}
    BY <1>3 DEF SendJob
  <2>2. /\ pc # "done" /\ j \notin sent /\ UNCHANGED <<pc, answers, outClosed, stop, gone>>
    BY <1>3, <2>1 DEF SendJob, Outside, Jobs
  <2>3. GoneJobs' = GoneJobs
    BY <2>2 DEF GoneJobs, Cancelled
  <2>4. Contract!Accept(j)
    BY <2>1, <2>2, <2>3 DEF Contract!Accept, GoneJobs
  <2> QED BY <1>0, <2>4 DEF Contract!Next
<1>4. CASE Cancel \/ StopEngine
  <2>1. /\ UNCHANGED <<pc, sent, answers, outClosed>> /\ (stop => stop') /\ gone \subseteq gone'
    BY <1>4 DEF Cancel, StopEngine, Event, Outside
  <2>2. GoneJobs' = GoneJobs \union GoneJobs' /\ GoneJobs' \in SUBSET Jobs
    BY <2>1 DEF GoneJobs, Cancelled
  <2>3. Contract!Abandon(GoneJobs')
    BY <2>1, <2>2 DEF Contract!Abandon, GoneJobs
  <2> QED BY <1>0, <2>2, <2>3 DEF Contract!Next
<1>5. CASE CloseOut
  <2>1. outClosed' = TRUE /\ UNCHANGED <<pc, sent, answers, stop, gone>>
    BY <1>5 DEF CloseOut, Event, Outside
  <2>2. GoneJobs' = GoneJobs
    BY <2>1 DEF GoneJobs, Cancelled
  <2>3. Contract!Close
    BY <2>1, <2>2 DEF Contract!Close, GoneJobs
  <2> QED BY <2>3 DEF Contract!Next
<1>6. CASE /\ UNCHANGED <<sent, answers, outClosed, stop, gone>>
           /\ pc = "done" <=> pc' = "done"
  <2>1. GoneJobs' = GoneJobs
    BY <1>6 DEF GoneJobs, Cancelled
  <2> QED BY <1>6, <2>1 DEF Contract!vars, GoneJobs
<1>7. CASE pc' = pc /\ UNCHANGED <<sent, answers, outClosed, stop, gone>>
  BY <1>6, <1>7
<1>8. CASE /\ pc' # "done" /\ pc # "done" /\ UNCHANGED <<answers, sessionVars>>
  BY <1>6, <1>8 DEF sessionVars
<1>9. CASE Take
  BY <1>6, <1>9 DEF Take, Quiet, replyVars
<1>10. CASE (Look \/ SampleJob \/ Sampled \/ SendResult) /\ answers' = answers /\ pc' # "done"
  BY <1>8, <1>10 DEF Look, SampleJob, Sampled, SendResult, Answer
<1>11. CASE Spawn \/ Poll \/ Clean \/ Kill \/ Reap \/ RemoveDirectory \/ Opened
  BY <1>8, <1>11 DEF Spawn, Poll, Clean, Kill, Reap, RemoveDirectory, Opened, Cleaned, Quiet, replyVars
<1>12. CASE SpawnFails \/ PollFails \/ CleanFails \/ KillFails \/ ReapFails \/ RemoveFails
  BY <1>8, <1>12 DEF SpawnFails, PollFails, CleanFails, KillFails, ReapFails, RemoveFails,
     GiveUp, Cleaned, Quiet, replyVars
<1>13. CASE CloseInput \/ ReadResult \/ MinerDies
  BY <1>7, <1>13 DEF CloseInput, ReadResult, MinerDies, Event, Outside, sessionVars
<1>14. CASE WorkFails \/ Crash \/ WorkerStep \/ Evaluation \/ Watchdog \/ Sleep \/ StartupTimer \/ Over
            \/ UNCHANGED vars
  BY <1>7, <1>14 DEF WorkFails, Crash, WorkerStep, Boot, Work, Reply, Evaluation, Watchdog, Sleep,
     StartupTimer, Over, vars, sessionVars, Quiet, replyVars
<1>15. (Look \/ SampleJob \/ Sampled) => pc' # "done"
  BY DEF Look, SampleJob, Sampled, Answer
<1>16. SendResult => answers' = answers
  BY DEF SendResult
<1> QED
  BY <1>1, <1>2, <1>3, <1>4, <1>5, <1>9, <1>10, <1>11, <1>12, <1>13, <1>14, <1>15, <1>16
  DEF Next, EngineStep, SystemFault, Session

(* The ANE engine keeps the contract of a stream.                          *)
THEOREM WorkerKeepsContract == Spec => ImplementsContract
<1>1. EngineInv /\ [Next]_vars => [Contract!Next]_(Contract!vars)
  BY StepPromises
<1> QED
  BY <1>1, InitPromises, EngineInvariant, PTL
     DEF Spec, ImplementsContract, Contract!Spec
====
