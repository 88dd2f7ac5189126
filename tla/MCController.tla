--------------------------- MODULE MCController ---------------------------
(* Instances of Controller for TLC. *)
EXTENDS Controller, TLC

CONSTANTS j1, s1, s2, s3, ringA, ringB, low, high

OneRing == [u \in Units |-> ringA]
TwoRings == [u \in Units |-> IF u \in {s1, j1} THEN ringA ELSE ringB]
Tens == [u \in Units |-> 10]

Setting(stages, keep, open, yield) ==
  [stages |-> stages, keep |-> keep, open |-> open, yield |-> yield]

Closed == Setting(<<4>>, low, FALSE, None)
Deeper == Setting(<<2, 4>>, low, FALSE, None)
Keener == Setting(<<4>>, high, FALSE, None)
Opened == Setting(<<4>>, low, TRUE, None)
Rated == Setting(<<4>>, low, FALSE, 1)
Doubled == Setting(<<4>>, low, FALSE, 2)

StageChanges == {Closed, Deeper, Keener}
GateChanges == {Closed, Opened}
OpenRated == Setting(<<4>>, low, TRUE, 1)
EveryChange == {Rated, Doubled, OpenRated}
RateChanges == {Rated, Doubled}

ThreeStages == <<2, 4, 6>>
ThreeGates == <<2, 2, 1>>
Transitions == {<<2, 4>>, <<4, 10>>}
OneTarget == {None, 2}
(* The plain salts are alike; no definition chooses among them. *)
Plain == Permutations({s2, s3})
=============================================================================
