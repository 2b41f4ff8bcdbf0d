--------------------------- MODULE MCParallelPass ---------------------------
(***************************************************************************)
(* A small instance of ParallelPass for TLC.                               *)
(***************************************************************************)
EXTENDS ParallelPass, TLC

CONSTANT d

TwoWorkers == {0, 1}
PassTasks == Passes \X TwoWorkers

=============================================================================
