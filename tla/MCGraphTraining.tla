-------------------------- MODULE MCGraphTraining --------------------------
(***************************************************************************)
(* Small instances of GraphTraining for TLC.                               *)
(***************************************************************************)
EXTENDS GraphTraining

\* One optimizer with a state, and one whose description is refused.
MCOptimizers ==
  {<<"AddWeightDecay", "Momentum", "ApplyUpdate">>, <<"ApplyUpdate", "ScaleGradient">>}

MCOneOptimizer == {<<"ScaleGradient", "ApplyUpdate">>}

=============================================================================
