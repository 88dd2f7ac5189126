---------------------------- MODULE MCLeaseFeed ----------------------------
(* Instances of LeaseFeed for TLC. *)
EXTENDS LeaseFeed

CONSTANTS a, b, c

TwoAndOne == [l \in Leases |-> IF l = a THEN 2 ELSE 1]
OneEach == [l \in Leases |-> 1]
=============================================================================
