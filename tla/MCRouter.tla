------------------------------ MODULE MCRouter ------------------------------
(* Router on small instances. *)
EXTENDS Router

CONSTANTS jMetal, jAne, jBoth

MCAble ==
  [j \in Jobs |-> CASE j = jMetal -> {"metal"} [] j = jAne -> {"ane"} [] OTHER -> Engines]

Both == [valid |-> TRUE, enabled |-> Engines]
MetalOnly == [valid |-> TRUE, enabled |-> {"metal"}]
Invalid == [valid |-> FALSE, enabled |-> Engines]
TwoConfigs == {Both, MetalOnly}
AllConfigs == {Both, MetalOnly, Invalid}
=============================================================================
