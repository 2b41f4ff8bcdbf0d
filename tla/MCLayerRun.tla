----------------------------- MODULE MCLayerRun -----------------------------
(***************************************************************************)
(* Small instances of LayerRun for TLC.                                    *)
(***************************************************************************)
EXTENDS LayerRun, LayerPrograms

MCPrograms ==
  LET all == Code
  IN [l \in DOMAIN all |-> all[l]]

MCLosses == DOMAIN LossChains

\* The kernel that computes sigma reads u, as long as the input, by outputs and
\* v, as long as the output, by inputs.  The backward pass of a sum of columns
\* has a workgroup for each row, however long.
MCMisfits ==
  {SigmaCall[1], run_sum_columns_backward(Nth("grad", 3), Nth("grad", 2), Out)[1]}

\* Every layer alone, and layers in a row, where slices of parameters follow one
\* another; two of them share the map of LinearAttention.
MCSegments ==
  LET alone == {<<l>> : l \in DOMAIN MCPrograms}
  IN alone
       \cup {<<"DualSlopeReLU", "Linear">>, <<"Linear", "MSE">>,
             <<"LearnableMish", "RMSNorm", "MultiResolutionKANLinear">>,
             <<"LinearAttention", "LinearAttention">>}

=============================================================================
