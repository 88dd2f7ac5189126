--------------------------- MODULE MCStreamBatch ---------------------------
(* StreamBatch on small instances. *)
EXTENDS StreamBatch

CONSTANTS old, new, this, other, void

MCKeyOf == <<this, void, this, this, other>>
MCMarkOf == <<old, old, old, new, new>>
MCReadsOf == <<1, 1, 0, 1, 1>>
MCNodesOf == (this :> 5000) @@ (other :> 6000) @@ (void :> 0)
MCDegreeOf == [k \in Keys |-> 20]
=============================================================================
