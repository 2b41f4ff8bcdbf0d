--------------------------- MODULE MCChunkPlanner ---------------------------
(***************************************************************************)
(* Small instances of ChunkPlanner for TLC.                                *)
(***************************************************************************)
EXTENDS ChunkPlanner

Sizes == 1 .. 6

\* Never positive, fast, slow, independent of the size, infinite, infinite for
\* large or for small chunks only.
SomePredictions ==
  {[s \in Sizes |-> 0],
   [s \in Sizes |-> s],
   [s \in Sizes |-> 3 * s],
   [s \in Sizes |-> 4],
   [s \in Sizes |-> Infinite],
   [s \in Sizes |-> IF s <= 2 THEN 1 ELSE Infinite],
   [s \in Sizes |-> IF s = 1 THEN Infinite ELSE s]}

=============================================================================
