---------------------------- MODULE MCStagedMoE ----------------------------
(***************************************************************************)
(* Instances of StagedMoE for TLC: two ranks.                              *)
(***************************************************************************)
EXTENDS StagedMoE

In(a, b) == [r \in Ranks |-> IF r = 0 THEN a ELSE b]

(* Every path after every other, a graph only beside calls of the fused     *)
(* kernel that come before its capture.                                     *)
SmallPlans == {<<"eager", "fused", "eager">>, <<"fused", "graph", "graph">>, <<"eager", "eager">>}

(* Equal, unequal and empty token counts, within the capacity of one tile.  *)
SmallInputs == {In(<<0, 1>>, <<1, 0>>), In(<<1>>, <<0, 1>>), In(<<>>, <<0>>)}

(* A fused call with nine rows for rank 1 between two eager ones.           *)
SwitchPlans == {<<"eager", "fused", "eager">>}
SwitchInputs == {In(<<1, 1, 1, 1, 1, 1, 1, 1, 1>>, <<0>>)}

(* A rank with one token that gets the routes of a peer with four.          *)
UnevenPlans == {<<"eager", "eager">>}
UnevenInputs == {In(<<0>>, <<0, 0, 1, 1>>), In(<<1, 0>>, <<0, 1>>)}
=============================================================================
