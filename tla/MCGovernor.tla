----------------------------- MODULE MCGovernor -----------------------------
(* Governor on small instances. *)
EXTENDS Governor

CONSTANTS t1, t2, a1, a2

Full == [ceiling |-> 100, yielding |-> FALSE]
Low == [ceiling |-> 40, yielding |-> TRUE]
TwoSettings == {Full, Low}
=============================================================================
