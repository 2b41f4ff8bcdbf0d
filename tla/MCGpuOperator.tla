--------------------------- MODULE MCGpuOperator ---------------------------
(***************************************************************************)
(* Small instances of GpuOperator for TLC.                                 *)
(***************************************************************************)
EXTENDS GpuOperator, TLC

CONSTANTS c1, c2

MCSymmetry == Permutations(Clients)

=============================================================================
