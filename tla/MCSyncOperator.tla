--------------------------- MODULE MCSyncOperator ---------------------------
(***************************************************************************)
(* Small instances of SyncOperator for TLC.                                *)
(***************************************************************************)
EXTENDS SyncOperator, TLC

CONSTANTS c1, c2

MCSymmetry == Permutations(Clients)

=============================================================================
