---------------------------- MODULE MCResident ----------------------------
(* Instances of Resident for TLC. *)
EXTENDS Resident, TLC

CONSTANTS j1, j2, s1, s2, l1, l2, c1, c2, ringA, ringB

(* Two salts of one lease, or of two. *)
OneLease == [u \in Salts |-> l1]
TwoLeases == [u \in Salts |-> IF u = s1 THEN l1 ELSE l2]

SameShape == [u \in Units |-> ringA]
TwoShapes == [u \in Units |-> IF u \in Jobs THEN ringB ELSE ringA]

(* A job runs one uninterrupted leg; a salt is screened at the first       *)
(* position and, under c2, has a leg more.                                 *)
Lengths ==
  [u \in Units |-> [c \in Configs |-> IF u \in Jobs THEN 1 ELSE IF c = c1 THEN 2 ELSE 3]]

AtOne == {1}
AtTwo == {2}
Nowhere == {}

AllSlots == [u \in Units |-> {"slots"}]
AnyResult == [u \in Units |-> Results]
=============================================================================
