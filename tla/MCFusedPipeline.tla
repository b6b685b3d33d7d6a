-------------------------- MODULE MCFusedPipeline --------------------------
(***************************************************************************)
(* FusedPipeline with values for the rows routed to each expert: expert 0  *)
(* fills one tile and expert 1 leaves half of its tile empty.              *)
(***************************************************************************)
EXTENDS FusedPipeline

Counts == [e \in 0 .. 1 |-> 2 - e]
=============================================================================
