------------------------------- MODULE Layout -------------------------------
(***************************************************************************)
(* The device layout of a problem graph: its rows of neighbours laid end   *)
(* to end, the two places of each coupling in them, and the colour classes *)
(* whose nodes the kernels update in parallel.  Nodes and places count     *)
(* from one; an endpoint above n is the code's out-of-range endpoint.  An  *)
(* unstable sort leaves equal keys in any order, so a graph has a set of   *)
(* layouts.                                                                *)
(*                                                                         *)
(* Code: src/src/topology.rs, validate_batch (src/src/sampler.rs).         *)
(***************************************************************************)
EXTENDS Integers, Sequences, FiniteSets, SequencesExt

CONSTANTS
  MaxNodes,    (* the kernel's node limit                                   *)
  MaxDegree,   (* the neighbours it fetches ahead                           *)
  Candidate    (* the colours of the hardware graph, node by node           *)

NoLayout == [n |-> 0]
Inside(g, k) == g.edges[k][1] <= g.n /\ g.edges[k][2] <= g.n
Kept(g) == {k \in DOMAIN g.edges : Inside(g, k)}

-----------------------------------------------------------------------------
(* Rows of neighbours *)

(* Mutant: a self-loop is entered from both its ends.                      *)
HalvesOfLoops(g, u) ==
  {<<g.edges[k][2], k, 1>> : k \in {i \in Kept(g) : g.edges[i][1] = u}}
  \union {<<g.edges[k][1], k, 2>> : k \in {i \in Kept(g) : g.edges[i][2] = u}}
(* The edges at a node: neighbour, edge, and which end the node is.        *)
Halves(g, u) ==
  {<<g.edges[k][2], k, 1>> : k \in {i \in Kept(g) : g.edges[i][1] = u}}
  \union {<<g.edges[k][1], k, 2>> :
          k \in {i \in Kept(g) : g.edges[i][2] = u /\ g.edges[i][1] # u}}

RowOrders(g, u) ==
  {row \in SetToSeqs(Halves(g, u)) :
     \A i, j \in DOMAIN row : i < j => row[i][1] <= row[j][1]}

(* Where an end of an edge lies in the rows; an end that lies nowhere      *)
(* keeps the initial place.                                                *)
PlaceOf(halves, k, end) ==
  LET places == {p \in DOMAIN halves : halves[p][2] = k /\ halves[p][3] = end}
  IN IF places = {} THEN 1 ELSE CHOOSE p \in places : TRUE

Rows(g, rows) ==
  LET halves == FlattenSeq(rows) IN
  [n       |-> g.n,
   nnz     |-> Len(halves),
   rowPtr  |-> [u \in 1 .. g.n + 1 |-> Len(FlattenSeq(SubSeq(rows, 1, u - 1)))],
   colInd  |-> [p \in DOMAIN halves |-> halves[p][1]],
   edgePos |-> [k \in DOMAIN g.edges |-> <<PlaceOf(halves, k, 1), PlaceOf(halves, k, 2)>>]]

Row(t, u) == (t.rowPtr[u] + 1) .. t.rowPtr[u + 1]
Degree(t, u) == t.rowPtr[u + 1] - t.rowPtr[u]

-----------------------------------------------------------------------------
(* Colours *)

(* Nodes by falling degree.                                                *)
Orders(t) ==
  {order \in SetToSeqs(1 .. t.n) :
     \A i, j \in DOMAIN order : i < j => Degree(t, order[i]) >= Degree(t, order[j])}

(* Mutant: only the neighbours of the front half of the edges count.       *)
PaintForward(t, color, u) ==
  LET used == {color[t.colInd[p]] : p \in {q \in Row(t, u) : t.colInd[q] > u}}
  IN [color EXCEPT ![u] = CHOOSE c \in 0 .. t.n :
                            c \notin used /\ \A d \in 0 .. t.n : d < c => d \in used]
(* The smallest colour no coloured neighbour has.                          *)
Paint(t, color, u) ==
  LET used == {color[t.colInd[p]] : p \in Row(t, u)}
  IN [color EXCEPT ![u] = CHOOSE c \in 0 .. t.n :
                            c \notin used /\ \A d \in 0 .. t.n : d < c => d \in used]

GreedyColor(t, order) ==
  FoldLeft(LAMBDA color, u : Paint(t, color, u), [u \in 1 .. t.n |-> -1], order)

(* The nodes grouped by colour, each group in node order.                  *)
ColorBlocks(color) ==
  LET count == CHOOSE c \in 0 .. Len(color) :
                 \A u \in DOMAIN color : color[u] < c
                   /\ (c > 0 => \E v \in DOMAIN color : color[v] = c - 1)
      groups == [c \in 1 .. count |->
                   SelectSeq([u \in DOMAIN color |-> u], LAMBDA u : color[u] = c - 1)]
  IN [starts |-> [c \in DOMAIN groups |-> Len(FlattenSeq(SubSeq(groups, 1, c - 1)))],
      counts |-> [c \in DOMAIN groups |-> Len(groups[c])],
      nodes  |-> FlattenSeq(groups)]

(* Mutant: the candidate is taken for any graph of its size.               *)
FitsCandidateUnchecked(g) == g.n = Len(Candidate)
(* The candidate counts only if every edge joins two of its colours.       *)
FitsCandidate(g) ==
  /\ g.n = Len(Candidate)
  /\ \A k \in DOMAIN g.edges : Inside(g, k) /\ Candidate[g.edges[k][1]] # Candidate[g.edges[k][2]]

(* build_with_advantage2_coloring: the rows, and the candidate's colours   *)
(* or else greedy ones.                                                    *)
Layouts(g) ==
  UNION {{[n |-> t.n, nnz |-> t.nnz, rowPtr |-> t.rowPtr, colInd |-> t.colInd,
           edgePos |-> t.edgePos, colors |-> colors] :
            colors \in IF FitsCandidate(g) THEN {ColorBlocks(Candidate)}
                       ELSE {ColorBlocks(GreedyColor(t, order)) : order \in Orders(t)}} :
         t \in {Rows(g, rows) :
                  rows \in {f \in [1 .. g.n -> UNION {RowOrders(g, u) : u \in 1 .. g.n}] :
                              \A u \in 1 .. g.n : f[u] \in RowOrders(g, u)}}}

-----------------------------------------------------------------------------
(* Admission of a graph and its couplings *)

(* Mutant: an edge counts at its first end only.                           *)
DegreeOfFirstEnd(g, u) == Cardinality({k \in Kept(g) : g.edges[k][1] = u})
(* max_csr_degree counts on the edges, before any row is built.            *)
DegreeOf(g, u) == Cardinality({k \in Kept(g) : u \in {g.edges[k][1], g.edges[k][2]}})

ValidGraph(g) == g.n <= MaxNodes /\ \A u \in 1 .. g.n : DegreeOf(g, u) <= MaxDegree

Put(j, p, v) == [j EXCEPT ![p] = v]
Zeros(t) == [p \in 1 .. t.nnz |-> 0]

(* Mutant: a coupling is written at one end only.                          *)
FillOneEnd(t, g, couplings) ==
  FoldLeft(LAMBDA j, k : IF Inside(g, k) THEN Put(j, t.edgePos[k][1], couplings[k]) ELSE j,
           Zeros(t), [k \in DOMAIN t.edgePos |-> k])
(* fill_h_j_inspecting_edges: edge by edge, the loops at one place only.   *)
Fill(t, g, couplings) ==
  FoldLeft(LAMBDA j, k :
             IF ~Inside(g, k) THEN j
             ELSE IF g.edges[k][1] = g.edges[k][2] THEN Put(j, t.edgePos[k][1], couplings[k])
             ELSE Put(Put(j, t.edgePos[k][1], couplings[k]), t.edgePos[k][2], couplings[k]),
           Zeros(t), [k \in DOMAIN t.edgePos |-> k])

(* fill_couplings: the caller has seen that every edge has two ends.       *)
FillUnits(t, units) ==
  FoldLeft(LAMBDA j, k : Put(Put(j, t.edgePos[k][1], units[k]), t.edgePos[k][2], units[k]),
           Zeros(t), [k \in DOMAIN t.edgePos |-> k])

Plain(g) == \A k \in DOMAIN g.edges : Inside(g, k) /\ g.edges[k][1] # g.edges[k][2]

-----------------------------------------------------------------------------
(* What a layout must be, from the graph alone *)

EdgesBetween(g, u, v) == {k \in Kept(g) : {g.edges[k][1], g.edges[k][2]} = {u, v}}
Block(t, c) ==
  {t.colors.nodes[t.colors.starts[c] + i] : i \in 1 .. t.colors.counts[c]}

(* Every node is updated once per sweep, and no two nodes of an edge at    *)
(* the same time.                                                          *)
ColorsSound(g, t) ==
  /\ \A u \in 1 .. g.n :
       Cardinality({c \in DOMAIN t.colors.starts : u \in Block(t, c)}) = 1
  /\ Len(t.colors.nodes) = g.n
  /\ \A c \in DOMAIN t.colors.starts : \A u, v \in Block(t, c) :
       u # v => EdgesBetween(g, u, v) = {}

(* Each node sees each neighbour with the sum of their couplings, in       *)
(* whatever order equal neighbours lie; both ways of filling agree.        *)
CouplingsSound(g, t) ==
  LET J == [k \in DOMAIN g.edges |-> 2^k]
  IN
  /\ \A u, v \in 1 .. g.n :
       MapThenSumSet(LAMBDA p : Fill(t, g, J)[p], {p \in Row(t, u) : t.colInd[p] = v})
         = MapThenSumSet(LAMBDA k : J[k], EdgesBetween(g, u, v))
  /\ Plain(g) => FillUnits(t, J) = Fill(t, g, J)

(* The kernel's prefetch covers every row of a graph that was admitted.    *)
RowsFetched(g, t) == ValidGraph(g) => \A u \in 1 .. g.n : Degree(t, u) <= MaxDegree
=============================================================================
