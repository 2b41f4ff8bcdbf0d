----------------------------- MODULE NormLayers -----------------------------
(***************************************************************************)
(* Normalisations, on both devices.  On the GPU the statistics are kernels *)
(* of their own that hand their results on in temporaries; backward        *)
(* computes them anew.                                                     *)
(***************************************************************************)
EXTENDS DeviceProgram

LOCAL Elements == Batch * In

RowMean == <<"row_mean">>
RowVar == <<"row_var">>
RowRms == <<"row_rms_sq">>
ColMean == <<"col_mean">>
ColVar == <<"col_var">>

-----------------------------------------------------------------------------
(* RMSNormWithLearnableEpsilon: gamma, then the logarithm of epsilon *)

RMSNorm_param_len == 2 * In

RMSNormWithLearnableEpsilonPipelines ==
  [forward |-> Layout(4, 8), backward |-> Layout(6, 8),
   row_stats |-> Layout(2, 8)]
rms_norm_row_stats(batch, features) ==
  Kernel(2, 2, Groups(batch), {Set(B(1), {B(0)})})
rms_norm_fwd(batch, features) ==
  Kernel(4, 2, Groups(batch * features),
         {Set(B(3), {B(0), B(2), Part(1, "gamma", 0, features),
                     Part(1, "eps", features, features)})})
rms_norm_bwd(batch, features) ==
  LET read == {B(0), B(1), B(5), Part(2, "gamma", 0, features),
               Part(2, "eps", features, features)}
  IN Kernel(6, 2, Groups(batch * features),
            {Set(B(3), read),
             Add(Part(4, "gamma", 0, features),
                 read \ {Part(2, "gamma", 0, features)}),
             Add(Part(4, "eps", features, features), read)})

run_rms_norm_forward(x, params, y) ==
  Temp(RowRms)
    \o run_compute_shader(RMSNormWithLearnableEpsilonPipelines.row_stats,
                          rms_norm_row_stats(Batch, In), <<x, RowRms>>,
                          2, Batch)
    \o run_compute_shader(RMSNormWithLearnableEpsilonPipelines.forward,
                          rms_norm_fwd(Batch, In), <<x, params, RowRms, y>>,
                          2, Elements)
    \o Free(RowRms)

run_rms_norm_backward(x, go, params, gi, gparams) ==
  Cleared(gparams) \o Temp(RowRms)
    \o run_compute_shader(RMSNormWithLearnableEpsilonPipelines.row_stats,
                          rms_norm_row_stats(Batch, In), <<x, RowRms>>,
                          2, Batch)
    \o run_compute_shader(RMSNormWithLearnableEpsilonPipelines.backward,
                          rms_norm_bwd(Batch, In),
                          <<x, go, params, gi, gparams, RowRms>>, 2, Elements)
    \o Free(RowRms)

RMSNorm_forward_buffered ==
  with_cpu_slices_mut({Set(Y, {X, P("gamma", 0, In), P("eps", In, In)})})
    \o Keep({X})
RMSNorm_backward_buffered ==
  LET eps == P("eps", In, In)
      gamma == P("gamma", 0, In)
  IN with_cpu_slices_mut({Set(GradIn, {X, GradOut, gamma, eps}),
                          Set(G("gamma", 0, In), {X, GradOut, eps}),
                          Set(G("eps", In, In), {X, GradOut, gamma, eps})})

-----------------------------------------------------------------------------
(* AdaptiveNormalization: a mixture of layer norm, RMS norm and batch norm  *)
(* with weights per feature.  Seven parts of the slice, in this order.      *)

AdaptiveNorm_param_len == 7 * In

Roles == <<"ln_gamma", "ln_beta", "rms_gamma", "bn_gamma", "bn_beta",
           "logits_ln", "logits_rms">>
RoleParts(i, f, which) == {Part(i, Roles[n], (n - 1) * f, f) : n \in which}
RoleParams(which) == {P(Roles[n], (n - 1) * In, In) : n \in which}
Logits == {6, 7}

WLn == <<"w_ln">>
WRms == <<"w_rms">>
WBn == <<"w_bn">>
SumDln == <<"sum_dln">>
SumDlnX == <<"sum_dln_x">>
SumDrmsX == <<"sum_drms_x">>
SumDbn == <<"sum_dbn">>
SumDbnX == <<"sum_dbn_x">>

AdaptiveNormalizationPipelines ==
  [row_stats |-> Layout(4, 8), col_stats |-> Layout(3, 8),
   forward |-> Layout(8, 8), bwd_weights |-> Layout(4, 4),
   bwd_row_sums |-> Layout(8, 8), bwd_col_sums |-> Layout(6, 8),
   bwd_input |-> Layout(17, 8), bwd_params |-> Layout(12, 8)]

adaptive_norm_row_stats(batch, features) ==
  Kernel(4, 2, Groups(batch), {Set(B(i), {B(0)}) : i \in 1 .. 3})
adaptive_norm_col_stats(batch, features) ==
  Kernel(3, 2, Groups(features), {Set(B(i), {B(0)}) : i \in 1 .. 2})
adaptive_norm_fwd(batch, features) ==
  Kernel(8, 2, Groups(batch * features),
         {Set(B(1), {B(0)} \cup {B(i) : i \in 3 .. 7}
                      \cup RoleParts(2, features, 1 .. 7))})
adaptive_norm_bwd_weights(features) ==
  Kernel(4, 1, Groups(features),
         {Set(B(i), RoleParts(0, features, Logits)) : i \in 1 .. 3})
adaptive_norm_bwd_row_sums(batch, features) ==
  Kernel(8, 2, Groups(batch),
         {Set(B(5), {B(1), B(2)}), Set(B(6), {B(0), B(1), B(2), B(4)}),
          Set(B(7), {B(0), B(1), B(3)})})
adaptive_norm_bwd_col_sums(batch, features) ==
  Kernel(6, 2, Groups(features),
         {Set(B(4), {B(1), B(2)}), Set(B(5), {B(0), B(1), B(2), B(3)})})
adaptive_norm_bwd_input(batch, features) ==
  Kernel(17, 2, Groups(batch * features),
         {Set(B(16), {B(i) : i \in (0 .. 15) \ {2}}
                       \cup RoleParts(2, features, {1, 3, 4}))})
\* Gradients of gammas and betas need the weights; those of the logits also
\* what the three norms gave.
adaptive_norm_bwd_params(batch, features) ==
  LET to(n) == Part(11, Roles[n], (n - 1) * features, features)
      all == {B(i) : i \in (0 .. 10) \ {2}} \cup RoleParts(2, features, 1 .. 5)
  IN Kernel(12, 2, Groups(features),
            {Set(to(1), {B(0), B(1), B(3), B(4), B(8)}),
             Set(to(2), {B(1), B(8)}),
             Set(to(3), {B(0), B(1), B(5), B(9)}),
             Set(to(4), {B(0), B(1), B(6), B(7), B(10)}),
             Set(to(5), {B(1), B(10)}),
             Set(to(6), all), Set(to(7), all)})

Stats == <<RowMean, RowVar, RowRms, ColMean, ColVar>>
Weights == <<WLn, WRms, WBn>>
Sums == <<SumDln, SumDlnX, SumDrmsX, SumDbn, SumDbnX>>

norm_stats(x) ==
  run_compute_shader(AdaptiveNormalizationPipelines.row_stats,
                     adaptive_norm_row_stats(Batch, In),
                     <<x, RowMean, RowVar, RowRms>>, 2, Batch)
    \o run_compute_shader(AdaptiveNormalizationPipelines.col_stats,
                          adaptive_norm_col_stats(Batch, In),
                          <<x, ColMean, ColVar>>, 2, In)

run_adaptive_norm_forward(x, params, y) ==
  Temps(Stats) \o norm_stats(x)
    \o run_compute_shader(AdaptiveNormalizationPipelines.forward,
                          adaptive_norm_fwd(Batch, In),
                          <<x, y, params>> \o Stats, 2, Elements)
    \o Frees(Stats)

run_adaptive_norm_backward_sums(x, go, params) ==
  Temps(Stats \o Weights \o Sums) \o norm_stats(x)
    \o run_compute_shader(AdaptiveNormalizationPipelines.bwd_weights,
                          adaptive_norm_bwd_weights(In),
                          <<params>> \o Weights, 1, In)
    \o run_compute_shader(AdaptiveNormalizationPipelines.bwd_row_sums,
                          adaptive_norm_bwd_row_sums(Batch, In),
                          <<x, go, WLn, WRms, RowMean, SumDln, SumDlnX,
                            SumDrmsX>>, 2, Batch)
    \o run_compute_shader(AdaptiveNormalizationPipelines.bwd_col_sums,
                          adaptive_norm_bwd_col_sums(Batch, In),
                          <<x, go, WBn, ColMean, SumDbn, SumDbnX>>, 2, In)

\* Faulty: the sums of the columns are not given back.
run_adaptive_norm_backward_leak(x, go, params, gi, gparams) ==
  run_adaptive_norm_backward_sums(x, go, params)
    \o run_compute_shader(AdaptiveNormalizationPipelines.bwd_input,
                          adaptive_norm_bwd_input(Batch, In),
                          <<x, go, params>> \o Stats \o Weights \o Sums
                            \o <<gi>>, 2, Elements)
    \o run_compute_shader(AdaptiveNormalizationPipelines.bwd_params,
                          adaptive_norm_bwd_params(Batch, In),
                          <<x, go, params>> \o Stats \o Weights
                            \o <<gparams>>, 2, In)
    \o Frees(Stats \o Weights)

run_adaptive_norm_backward(x, go, params, gi, gparams) ==
  run_adaptive_norm_backward_sums(x, go, params)
    \o run_compute_shader(AdaptiveNormalizationPipelines.bwd_input,
                          adaptive_norm_bwd_input(Batch, In),
                          <<x, go, params>> \o Stats \o Weights \o Sums
                            \o <<gi>>, 2, Elements)
    \o run_compute_shader(AdaptiveNormalizationPipelines.bwd_params,
                          adaptive_norm_bwd_params(Batch, In),
                          <<x, go, params>> \o Stats \o Weights
                            \o <<gparams>>, 2, In)
    \o Frees(Stats \o Weights \o Sums)

AdaptiveNorm_forward_buffered ==
  with_cpu_slices_mut({Set(Y, {X} \cup RoleParams(1 .. 7))}) \o Keep({X})
AdaptiveNorm_backward_buffered ==
  LET to(n) == G(Roles[n], (n - 1) * In, In)
      weighted == {GradOut} \cup RoleParams(Logits)
  IN with_cpu_slices_mut(
       {Set(GradIn, {X} \cup weighted \cup RoleParams({1, 3, 4}))}
         \cup {Set(to(n), weighted) : n \in {2, 5}}
         \cup {Set(to(n), {X} \cup weighted) : n \in {1, 3, 4}}
         \cup {Set(to(n), {X, GradOut} \cup RoleParams(1 .. 7)) : n \in Logits})

-----------------------------------------------------------------------------
(* BatchRenorm1d: gamma, beta, r, d.  In training, the mode it is made in,   *)
(* the CPU uses the batch's statistics, then moves the running ones of the   *)
(* layer, which all passes share; out of it, it uses the running ones.  A    *)
(* layer is set to a mode before a graph takes it, and to no other after.    *)
(* The GPU has no running ones and does not ask for the mode.               *)

BatchRenorm_param_len == 4 * In

RenormRoles == <<"gamma", "beta", "r", "d">>
RenormParts(i, f, which) ==
  {Part(i, RenormRoles[n], (n - 1) * f, f) : n \in which}
RenormParams(which) == {P(RenormRoles[n], (n - 1) * In, In) : n \in which}

SumGammaR == <<"sum_gamma_r">>
SumGammaRXhat == <<"sum_gamma_r_xhat">>
Mean == <<"mean">>

BatchRenormPipelines ==
  [col_stats |-> Layout(3, 8), forward |-> Layout(5, 8),
   bwd_sums |-> Layout(7, 8), backward |-> Layout(9, 8)]
batch_renorm_col_stats(batch, features) ==
  Kernel(3, 2, Groups(features), {Set(B(i), {B(0)}) : i \in 1 .. 2})
batch_renorm_fwd(batch, features) ==
  Kernel(5, 2, Groups(batch * features),
         {Set(B(4), {B(0), B(2), B(3)} \cup RenormParts(1, features, 1 .. 4))})
batch_renorm_bwd_sums(batch, features) ==
  LET scale == RenormParts(1, features, {1, 3})
  IN Kernel(7, 2, Groups(features),
            {Set(B(5), {B(0)} \cup scale),
             Set(B(6), {B(0), B(2), B(3), B(4)} \cup scale)})
batch_renorm_bwd(batch, features) ==
  LET to(n) == Part(6, RenormRoles[n], (n - 1) * features, features)
      xhat == {B(0), B(3), B(4)}
  IN Kernel(9, 2, Groups(batch * features),
            {Set(B(5), {B(1), B(7), B(8)} \cup xhat
                         \cup RenormParts(2, features, {1, 3})),
             Add(to(1), {B(1)} \cup xhat \cup RenormParts(2, features, {3, 4})),
             Add(to(2), {B(1)}),
             Add(to(3), {B(1)} \cup xhat \cup RenormParts(2, features, {1})),
             Add(to(4), {B(1)} \cup RenormParts(2, features, {1}))})

run_batch_renorm_forward(x, params, y) ==
  Temps(<<ColMean, ColVar>>)
    \o run_compute_shader(BatchRenormPipelines.col_stats,
                          batch_renorm_col_stats(Batch, In),
                          <<x, ColMean, ColVar>>, 2, In)
    \o run_compute_shader(BatchRenormPipelines.forward,
                          batch_renorm_fwd(Batch, In),
                          <<x, params, ColMean, ColVar, y>>, 2, Elements)
    \o Frees(<<ColMean, ColVar>>)

run_batch_renorm_backward(x, go, params, gi, gparams) ==
  Cleared(gparams) \o Temps(<<ColMean, ColVar, SumGammaR, SumGammaRXhat>>)
    \o run_compute_shader(BatchRenormPipelines.col_stats,
                          batch_renorm_col_stats(Batch, In),
                          <<x, ColMean, ColVar>>, 2, In)
    \o run_compute_shader(BatchRenormPipelines.bwd_sums,
                          batch_renorm_bwd_sums(Batch, In),
                          <<go, params, x, ColMean, ColVar, SumGammaR,
                            SumGammaRXhat>>, 2, In)
    \o run_compute_shader(BatchRenormPipelines.backward,
                          batch_renorm_bwd(Batch, In),
                          <<x, go, params, ColMean, ColVar, gi, gparams,
                            SumGammaR, SumGammaRXhat>>, 2, Elements)
    \o Frees(<<ColMean, ColVar, SumGammaR, SumGammaRXhat>>)

BatchRenorm_forward_buffered(training) ==
  LET used == IF training THEN {X} ELSE {S("running")}
  IN with_cpu_slices_mut({Set(Y, {X} \cup used \cup RenormParams(1 .. 4)),
                          Set(Mean, used)})
       \o (IF training THEN Do({Set(S("running"), {Mean, S("running")})}) ELSE <<>>)
       \o Keep({X, Mean})
\* Statistics that are not the batch's do not depend on the input.
BatchRenorm_backward_buffered(training) ==
  LET to(n) == G(RenormRoles[n], (n - 1) * In, In)
      input == IF training THEN {X} ELSE {}
  IN with_cpu_slices_mut(
       {Set(GradIn, {Mean, GradOut} \cup input \cup RenormParams({1, 3})),
        Set(to(1), {X, Mean, GradOut} \cup RenormParams({3, 4})),
        Set(to(2), {GradOut}),
        Set(to(3), {X, Mean, GradOut} \cup RenormParams({1})),
        Set(to(4), {GradOut} \cup RenormParams({1}))})

-----------------------------------------------------------------------------
(* The processor on the GPU *)

norm_forward ==
  [RMSNorm |->
     New(Y) \o run_rms_norm_forward(X, ParamsView(0, 2 * In), Y) \o Keep({X}),
   AdaptiveNormalization |->
     New(Y) \o run_adaptive_norm_forward(X, ParamsView(0, 7 * In), Y)
       \o Keep({X}),
   BatchRenorm |->
     New(Y) \o run_batch_renorm_forward(X, ParamsView(0, 4 * In), Y)
       \o Keep({X})]

norm_backward ==
  [RMSNorm |->
     New(GradIn) \o run_rms_norm_backward(
       X, GradOut, ParamsView(0, 2 * In), GradIn, GradsView(0, 2 * In)),
   AdaptiveNormalization |->
     New(GradIn) \o run_adaptive_norm_backward(
       X, GradOut, ParamsView(0, 7 * In), GradIn, GradsView(0, 7 * In)),
   BatchRenorm |->
     New(GradIn) \o run_batch_renorm_backward(
       X, GradOut, ParamsView(0, 4 * In), GradIn, GradsView(0, 4 * In))]

NormLayerCode ==
  [RMSNorm |->
     LayerCode(RMSNorm_param_len, RMSNorm_forward_buffered,
               RMSNorm_backward_buffered, norm_forward.RMSNorm,
               norm_backward.RMSNorm),
   AdaptiveNormalization |->
     LayerCode(AdaptiveNorm_param_len, AdaptiveNorm_forward_buffered,
               AdaptiveNorm_backward_buffered,
               norm_forward.AdaptiveNormalization,
               norm_backward.AdaptiveNormalization),
   BatchRenorm |->
     LayerCode(BatchRenorm_param_len, BatchRenorm_forward_buffered(TRUE),
               BatchRenorm_backward_buffered(TRUE), norm_forward.BatchRenorm,
               norm_backward.BatchRenorm),
   BatchRenormInference |->
     LayerCode(BatchRenorm_param_len, BatchRenorm_forward_buffered(FALSE),
               BatchRenorm_backward_buffered(FALSE), norm_forward.BatchRenorm,
               norm_backward.BatchRenorm)]

=============================================================================
