---------------------------- MODULE MCFusedMoE ----------------------------
(***************************************************************************)
(* FusedMoE with a small set of inputs: two tokens for the two ranks, no   *)
(* token at all and, in the second launch, one token with an invalid       *)
(* route, so that equal and unequal counts, empty ranks and stale rows all *)
(* occur.                                                                  *)
(***************************************************************************)
EXTENDS FusedMoE

SomeInputs == << {<<1, 0>>, <<>>}, {<<1, 0>>, <<Invalid>>, <<>>} >>
=============================================================================
