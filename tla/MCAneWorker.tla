----------------------------- MODULE MCAneWorker -----------------------------
(* AneWorker on small instances. *)
EXTENDS AneWorker

CONSTANTS old, new

MCMarkOf == [j \in Jobs |-> IF j = N THEN new ELSE old]

(* Job 1: two full rungs and a clipped one, which is a block of its own;   *)
(* the last job: nothing to do.                                            *)
MCWorkOf ==
  [j \in Jobs |-> IF j = 1 THEN [sweeps |-> 5, perBeta |-> 2] ELSE [sweeps |-> 0, perBeta |-> 1]]
=============================================================================
