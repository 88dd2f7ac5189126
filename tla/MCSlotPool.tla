----------------------------- MODULE MCSlotPool -----------------------------
(* Instances of SlotPool for TLC. *)
EXTENDS SlotPool

CONSTANTS u1, u2, u3, u4

Graph(n, edges) == [n |-> n, edges |-> edges]
Path == Graph(2, <<<<1, 2>>>>)
(* Loops, repeated edges and endpoints out of range, in every order.       *)
Odd == {Graph(n, edges) : n \in 2 .. 3, edges \in SeqOf((1 .. 3) \X (1 .. 4), 2)}
Larger == {Graph(4, <<<<1, 2>>, <<2, 3>>, <<3, 4>>, <<4, 1>>>>),
           Graph(4, <<<<1, 2>>, <<1, 3>>, <<4, 1>>, <<2, 3>>>>),
           Graph(4, <<<<1, 2>>, <<3, 4>>, <<2, 3>>>>),
           Graph(4, <<<<1, 2>>, <<1, 3>>, <<4, 1>>, <<2, 1>>>>),
           Graph(4, <<<<2, 1>>, <<2, 1>>, <<1, 2>>, <<3, 3>>>>)}
Busy == {Path, Graph(2, <<<<2, 1>>>>)}
AllGraphs == Odd \union Larger \union {Path}
FourColors == <<0, 1, 0, 1>>

Cut(stages, sweeps, perBeta, reheats) ==
  [stages |-> stages, sweeps |-> sweeps, perBeta |-> perBeta, reheats |-> reheats]
Short == Cut(<<1, 2>>, 3, 1, TRUE)
Long == Cut(<<3>>, 5, 2, TRUE)
Plainly == Cut(<<1>>, 2, 2, FALSE)
Empty == Cut(<<>>, 0, 1, TRUE)
MCWorkOf == [u \in Units |->
  CASE u = u1 -> Short [] u = u2 -> Long [] u = u3 -> Plainly [] OTHER -> Empty]
MCGraphOf == [u \in Units |-> Path]
=============================================================================
