---------------------------- MODULE MoEDataflow ----------------------------
(***************************************************************************)
(* What one rank's fused kernel computes, with no queues, counters or      *)
(* blocks: every routed row is pulled, goes through every intermediate     *)
(* chunk of L1, is quantised, and goes through every hidden chunk of L2    *)
(* into the combine buffer of its source rank.  Each piece of work is done *)
(* once, from inputs that are complete.                                    *)
(***************************************************************************)
CONSTANTS
  Tiles, Subtiles, Chunks,   \* the route tiles, the subtiles that hold rows, the
                             \* intermediate chunks of L1
  L2Tasks,                   \* the L2 tasks that have rows to combine
  TileOf(_), SubtileOf(_)    \* the tile of a subtile, the subtile of an L2 task

VARIABLES
  pulled,      \* tiles whose rows are in the local x pool
  act,         \* pairs <<subtile, chunk>> with an activation
  quantised,   \* subtiles whose activation row is complete and quantised
  combined     \* L2 tasks whose rows are in the combine buffers

vars == <<pulled, act, quantised, combined>>

Init == pulled = {} /\ act = {} /\ quantised = {} /\ combined = {}

Pull(t) ==
  /\ t \in Tiles \ pulled
  /\ pulled' = pulled \union {t}
  /\ UNCHANGED <<act, quantised, combined>>

L1(s, c) ==
  /\ s \in Subtiles
  /\ c \in Chunks
  /\ TileOf(s) \in pulled
  /\ <<s, c>> \notin act
  /\ act' = act \union {<<s, c>>}
  /\ UNCHANGED <<pulled, quantised, combined>>

Quantise(s) ==
  /\ s \in Subtiles \ quantised
  /\ \A c \in Chunks : <<s, c>> \in act
  /\ quantised' = quantised \union {s}
  /\ UNCHANGED <<pulled, act, combined>>

L2(k) ==
  /\ k \in L2Tasks \ combined
  /\ SubtileOf(k) \in quantised
  /\ combined' = combined \union {k}
  /\ UNCHANGED <<pulled, act, quantised>>

Next ==
  \/ \E t \in Tiles : Pull(t)
  \/ \E s \in Subtiles : Quantise(s) \/ \E c \in Chunks : L1(s, c)
  \/ \E k \in L2Tasks : L2(k)

Spec == Init /\ [][Next]_vars
=============================================================================
