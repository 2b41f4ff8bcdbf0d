----------------------------- MODULE MixLayers -----------------------------
(***************************************************************************)
(* Layers that mix features, In to Out, on both devices: linear, linear    *)
(* with a spectral norm, splines, weighted fusion.                         *)
(***************************************************************************)
EXTENDS DeviceProgram

Edges == In * Out

-----------------------------------------------------------------------------
(* Linear: weights, then biases *)

Linear_param_len == Edges + Out

LinearPipelines == [forward |-> Layout(4, 12), backward |-> Layout(6, 12)]
linear_fwd(batch, fin, fout) ==
  Kernel(4, 3, Groups(batch * fout),
         {Set(B(3), {B(0), Part(1, "weight", 0, fin * fout),
                     Part(2, "bias", 0, fout)})})
linear_bwd(batch, fin, fout) ==
  Kernel(6, 3, Groups(batch),
         {Set(B(3), {B(2), Part(1, "weight", 0, fin * fout)}),
          Add(Part(4, "weight", 0, fin * fout), {B(0), B(2)}),
          Add(Part(5, "bias", 0, fout), {B(2)})})

\* Faulty: an invocation for every row, not for every element.
run_linear_forward_rows(x, weight, bias, y) ==
  run_compute_shader_with_dispatch(
    LinearPipelines.forward, linear_fwd(Batch, In, Out),
    <<x, weight, bias, y>>, 3, Groups(Batch))
run_linear_forward(x, weight, bias, y) ==
  run_compute_shader_with_dispatch(
    LinearPipelines.forward, linear_fwd(Batch, In, Out),
    <<x, weight, bias, y>>, 3, Groups(Batch * Out))
run_linear_backward(x, weight, go, gi, gweight, gbias) ==
  run_compute_shader_with_dispatch(
    LinearPipelines.backward, linear_bwd(Batch, In, Out),
    <<x, weight, go, gi, gweight, gbias>>, 3, Groups(Batch))

Linear_forward_buffered ==
  with_cpu_slices_mut(
    {Set(Y, {X, P("weight", 0, Edges), P("bias", Edges, Out)})})
    \o Keep({X})
Linear_backward_buffered ==
  with_cpu_slices_mut({Set(GradIn, {GradOut, P("weight", 0, Edges)}),
                       Set(G("weight", 0, Edges), {X, GradOut}),
                       Set(G("bias", Edges, Out), {GradOut})})

linear_forward ==
  New(Y) \o run_linear_forward(X, ParamsView(0, Edges), ParamsView(Edges, Out), Y)
    \o Keep({X})
linear_backward ==
  New(GradIn)
    \o run_linear_backward(X, ParamsView(0, Edges), GradOut, GradIn,
                           GradsView(0, Edges), GradsView(Edges, Out))

-----------------------------------------------------------------------------
(* MultiResolutionKANLinear: two splines on every edge, mixed *)

Branches == 2
CoarseCoeffs == 6
FineCoeffs == 11

KANLinear_param_len ==
  Out + Edges * (Branches + 1 + CoarseCoeffs + FineCoeffs + 1)

\* Where the parts are, for the loops (with the slice's start as base) ...
Offsets(base, fin, fout) ==
  LET mix_logits == base + fout
      mix_temp_raw == mix_logits + fin * fout * Branches
      spline_coarse == mix_temp_raw + fin * fout
      spline_fine == spline_coarse + fin * fout * CoarseCoeffs
  IN [bias |-> base, mix_logits |-> mix_logits, mix_temp_raw |-> mix_temp_raw,
      spline_coarse |-> spline_coarse, spline_fine |-> spline_fine,
      base_weight |-> spline_fine + fin * fout * FineCoeffs]

KANLength(fin, fout) ==
  [bias |-> fout, mix_logits |-> fin * fout * Branches,
   mix_temp_raw |-> fin * fout, spline_coarse |-> fin * fout * CoarseCoeffs,
   spline_fine |-> fin * fout * FineCoeffs, base_weight |-> fin * fout]
KANRoles == DOMAIN KANLength(1, 1)
KANMixing == KANRoles \ {"bias", "base_weight"}
KANParam(role) == P(role, Offsets(0, In, Out)[role], KANLength(In, Out)[role])
KANGrad(role) == G(role, Offsets(0, In, Out)[role], KANLength(In, Out)[role])

\* ... and for the shaders, which count from the start of the view.
kan_part(i, role, fin, fout) ==
  LET e == fin * fout
  IN CASE role = "bias"          -> Part(i, role, 0, fout)
       [] role = "mix_logits"    -> Part(i, role, fout, 2 * e)
       [] role = "mix_temp_raw"  -> Part(i, role, fout + 2 * e, e)
       [] role = "spline_coarse" -> Part(i, role, fout + 3 * e, 6 * e)
       [] role = "spline_fine"   -> Part(i, role, fout + 9 * e, 11 * e)
       [] role = "base_weight"   -> Part(i, role, fout + 20 * e, e)
kan_parts(i, roles, fin, fout) == {kan_part(i, r, fin, fout) : r \in roles}

MultiResolutionKANLinearPipelines ==
  [fwd_edge |-> Layout(3, 12), fwd_reduce |-> Layout(3, 12),
   bwd_edge |-> Layout(4, 12), bwd_gi |-> Layout(4, 12)]
kan_fwd_edge(batch, fin, fout) ==
  Kernel(3, 3, Groups(batch * fout * fin),
         {Set(B(2), {B(0)} \cup kan_parts(1, KANRoles \ {"bias"}, fin, fout))})
kan_fwd_reduce(batch, fin, fout) ==
  Kernel(3, 3, Groups(batch * fout),
         {Set(B(2), {B(0), kan_part(1, "bias", fin, fout)})})
kan_bwd_edge(batch, fin, fout) ==
  LET add(role, from) == Add(kan_part(3, role, fin, fout), from)
      mixed(roles) == {B(0), B(1)} \cup kan_parts(2, roles, fin, fout)
      weights == {"mix_logits", "mix_temp_raw"}
  IN Kernel(4, 3, Groups(batch * fout * fin),
            {add("bias", {B(1)}), add("base_weight", {B(0), B(1)})}
              \cup {add(r, mixed(weights))
                      : r \in {"spline_coarse", "spline_fine"}}
              \cup {add(r, mixed(KANMixing)) : r \in weights})
kan_bwd_gi(batch, fin, fout) ==
  Kernel(4, 3, Groups(batch * fin),
         {Set(B(3), {B(0), B(1)}
                      \cup kan_parts(2, KANRoles \ {"bias"}, fin, fout))})

EdgeOut == <<"edge_out">>

run_kan_forward(x, params, y) ==
  Temp(EdgeOut)
    \o run_compute_shader(MultiResolutionKANLinearPipelines.fwd_edge,
                          kan_fwd_edge(Batch, In, Out),
                          <<x, params, EdgeOut>>, 3, Batch * Out * In)
    \o run_compute_shader(MultiResolutionKANLinearPipelines.fwd_reduce,
                          kan_fwd_reduce(Batch, In, Out),
                          <<EdgeOut, params, y>>, 3, Batch * Out)
    \o Free(EdgeOut)
run_kan_backward(x, go, params, gi, gparams) ==
  run_compute_shader(MultiResolutionKANLinearPipelines.bwd_edge,
                     kan_bwd_edge(Batch, In, Out), <<x, go, params, gparams>>,
                     3, Batch * Out * In)
    \o run_compute_shader(MultiResolutionKANLinearPipelines.bwd_gi,
                          kan_bwd_gi(Batch, In, Out), <<x, go, params, gi>>,
                          3, Batch * In)

KANLinear_forward_buffered ==
  with_cpu_slices_mut({Set(Y, {X} \cup {KANParam(r) : r \in KANRoles})})
    \o Keep({X})
\* The slice and the input's gradient are filled with zero, then added to.
KANLinear_backward_buffered ==
  LET mixed(roles) == {X, GradOut} \cup {KANParam(r) : r \in roles}
      weights == {"mix_logits", "mix_temp_raw"}
  IN with_cpu_slices_mut(
       {Set(GradIn, mixed(KANRoles \ {"bias"})),
        Set(KANGrad("bias"), {GradOut}),
        Set(KANGrad("base_weight"), {X, GradOut})}
         \cup {Set(KANGrad(r), mixed(weights))
                 : r \in {"spline_coarse", "spline_fine"}}
         \cup {Set(KANGrad(r), mixed(KANMixing)) : r \in weights})

kan_forward ==
  New(Y) \o run_kan_forward(X, ParamsView(0, KANLinear_param_len), Y)
    \o Keep({X})
kan_backward ==
  New(GradIn)
    \o run_kan_backward(X, GradOut, ParamsView(0, KANLinear_param_len), GradIn,
                        GradsView(0, KANLinear_param_len))

-----------------------------------------------------------------------------
(* FeatureFusion: logits of every edge, then a temperature of every output *)

FeatureFusion_param_len == Out * (In + 1)

FusionWeights == <<"weights">>
DotLdz == <<"dot_ldz">>

FeatureFusionPipelines ==
  [softmax |-> Layout(2, 8), output |-> Layout(3, 12),
   grad_input |-> Layout(3, 12), grad_params |-> Layout(6, 12),
   grad_t |-> Layout(3, 8)]
fusion_logits(i, fin, fout) == Part(i, "logits", 0, fin * fout)
fusion_temps(i, fin, fout) == Part(i, "temps", fin * fout, fout)
feature_fusion_softmax(fin, fout) ==
  Kernel(2, 2, Groups(fout),
         {Set(B(1), {fusion_logits(0, fin, fout), fusion_temps(0, fin, fout)})})
feature_fusion_output(batch, fin, fout) ==
  Kernel(3, 3, Groups(batch * fout), {Set(B(2), {B(0), B(1)})})
feature_fusion_grad_input(batch, fin, fout) ==
  Kernel(3, 3, Groups(batch * fin), {Set(B(2), {B(0), B(1)})})
feature_fusion_grad_params(batch, fin, fout) ==
  Kernel(6, 3, Groups(fin * fout),
         {Set(fusion_logits(4, fin, fout),
              {B(0), B(1), B(3), fusion_temps(2, fin, fout)}),
          Add(B(5), {B(0), B(1), B(3), fusion_logits(2, fin, fout)})})
feature_fusion_grad_T(fin, fout) ==
  Kernel(3, 2, Groups(fout),
         {Set(fusion_temps(2, fin, fout), {B(1), fusion_temps(0, fin, fout)})})

fusion_softmax(params) ==
  run_compute_shader(FeatureFusionPipelines.softmax,
                     feature_fusion_softmax(In, Out), <<params, FusionWeights>>,
                     2, Out)

run_feature_fusion_forward(x, params, y) ==
  Temp(FusionWeights) \o fusion_softmax(params)
    \o run_compute_shader(FeatureFusionPipelines.output,
                          feature_fusion_output(Batch, In, Out),
                          <<x, FusionWeights, y>>, 3, Batch * Out)
    \o Free(FusionWeights)

\* Faulty: what the last user left in dot_ldz is added to.
run_feature_fusion_backward_dirty(x, go, params, gi, gparams) ==
  Temps(<<FusionWeights, DotLdz>>) \o fusion_softmax(params)
    \o run_compute_shader(FeatureFusionPipelines.grad_input,
                          feature_fusion_grad_input(Batch, In, Out),
                          <<go, FusionWeights, gi>>, 3, Batch * In)
    \o run_compute_shader(FeatureFusionPipelines.grad_params,
                          feature_fusion_grad_params(Batch, In, Out),
                          <<x, go, params, FusionWeights, gparams, DotLdz>>,
                          3, Edges)
    \o run_compute_shader(FeatureFusionPipelines.grad_t,
                          feature_fusion_grad_T(In, Out),
                          <<params, DotLdz, gparams>>, 2, Out)
    \o Frees(<<FusionWeights, DotLdz>>)

run_feature_fusion_backward(x, go, params, gi, gparams) ==
  Temps(<<FusionWeights, DotLdz>>) \o Cleared(DotLdz) \o fusion_softmax(params)
    \o run_compute_shader(FeatureFusionPipelines.grad_input,
                          feature_fusion_grad_input(Batch, In, Out),
                          <<go, FusionWeights, gi>>, 3, Batch * In)
    \o run_compute_shader(FeatureFusionPipelines.grad_params,
                          feature_fusion_grad_params(Batch, In, Out),
                          <<x, go, params, FusionWeights, gparams, DotLdz>>,
                          3, Edges)
    \o run_compute_shader(FeatureFusionPipelines.grad_t,
                          feature_fusion_grad_T(In, Out),
                          <<params, DotLdz, gparams>>, 2, Out)
    \o Frees(<<FusionWeights, DotLdz>>)

FusionLogits == P("logits", 0, Edges)
FusionTemps == P("temps", Edges, Out)

FeatureFusion_forward_buffered ==
  with_cpu_slices_mut({Set(Y, {X, FusionLogits, FusionTemps})}) \o Keep({X})
FeatureFusion_backward_buffered ==
  with_cpu_slices_mut(
    {Set(GradIn, {GradOut, FusionLogits, FusionTemps})}
      \cup {Set(g, {X, GradOut, FusionLogits, FusionTemps})
              : g \in {G("logits", 0, Edges), G("temps", Edges, Out)}})

feature_fusion_forward ==
  New(Y)
    \o run_feature_fusion_forward(X, ParamsView(0, FeatureFusion_param_len), Y)
    \o Keep({X})
feature_fusion_backward ==
  New(GradIn)
    \o run_feature_fusion_backward(
         X, GradOut, ParamsView(0, FeatureFusion_param_len), GradIn,
         GradsView(0, FeatureFusion_param_len))

-----------------------------------------------------------------------------
(* SpectrallyNormalizedLinear: weights, biases, scale.  One step of the     *)
(* power method in every forward pass, from ones; u, v and sigma are in the *)
(* context.                                                                 *)

SpectralNorm_param_len == Edges + Out + 1

UState == Sized("u_state", In)
VState == Sized("v_state", Out)
SigmaState == <<"sigma_state">>
Scale == <<"scale">>

SpectrallyNormalizedLinearPipelines ==
  [matvec_v |-> Layout(3, 8), matvec_u |-> Layout(3, 8),
   normalize |-> Layout(1, 8), sigma |-> Layout(4, 8),
   forward |-> Layout(4, 20), backward |-> Layout(7, 24)]
weight(i, fin, fout) == Part(i, "weight", 0, fin * fout)
spectral_norm_matvec_v(fin, fout) ==
  Kernel(3, 2, Groups(fout),
         {Set(Part(2, "", 0, fout), {weight(0, fin, fout), Part(1, "", 0, fin)})})
spectral_norm_matvec_u(fin, fout) ==
  Kernel(3, 2, Groups(fin),
         {Set(Part(2, "", 0, fin), {weight(0, fin, fout), Part(1, "", 0, fout)})})
spectral_norm_normalize(len) ==
  Kernel(1, 2, 1, {Set(Part(0, "", 0, len), {Part(0, "", 0, len)})})
\* sum over i < fout of u[i] * (sum over j < fin of W[i, j] * v[j])
spectral_norm_sigma(fin, fout) ==
  Kernel(4, 2, 1,
         {Set(B(3), {weight(0, fin, fout), Part(1, "", 0, fout),
                     Part(2, "", 0, fin)})})
spectral_norm_linear_fwd(batch, fin, fout) ==
  Kernel(4, 5, Groups(batch * fout),
         {Set(B(3), {B(0), weight(1, fin, fout), Part(2, "bias", 0, fout),
                     Pushed(Scale), Pushed(SigmaState)})})
spectral_norm_linear_bwd(phase, batch, fin, fout) ==
  LET pushed == {Pushed(Scale), Pushed(SigmaState)}
  IN IF phase = 0
       THEN Kernel(7, 6, Groups(batch * fout),
                   {Add(weight(3, fin, fout), {B(0), B(1)} \cup pushed),
                    Add(Part(4, "bias", 0, fout), {B(1)}),
                    Add(Part(5, "scale", 0, 1),
                        {B(0), B(1), weight(2, fin, fout), Pushed(SigmaState)})})
       ELSE Kernel(7, 6, Groups(batch * fin),
                   {Set(B(6), {B(1), weight(2, fin, fout)} \cup pushed)})

SigmaCall ==
  run_compute_shader_with_dispatch(
    SpectrallyNormalizedLinearPipelines.sigma, spectral_norm_sigma(In, Out),
    <<ParamsView(0, Edges), UState, VState, SigmaState>>, 2, 1)

run_spectral_norm_linear_forward(x, y) ==
  LET pipelines == SpectrallyNormalizedLinearPipelines
      w == ParamsView(0, Edges)
      normalized(v, len) ==
        run_compute_shader_with_dispatch(
          pipelines.normalize, spectral_norm_normalize(len), <<v>>, 2, 1)
  IN run_compute_shader(pipelines.matvec_v, spectral_norm_matvec_v(In, Out),
                        <<w, UState, VState>>, 2, Out)
       \o normalized(VState, Out)
       \o run_compute_shader(pipelines.matvec_u, spectral_norm_matvec_u(In, Out),
                             <<w, VState, UState>>, 2, In)
       \o normalized(UState, In)
       \o SigmaCall
       \o run_compute_shader(
            pipelines.forward, spectral_norm_linear_fwd(Batch, In, Out),
            <<x, w, ParamsView(Edges, Out), y>>, 5, Batch * Out)

run_spectral_norm_linear_backward(x, go, gi, gparams) ==
  LET phase(n, total) ==
        run_compute_shader(
          SpectrallyNormalizedLinearPipelines.backward,
          spectral_norm_linear_bwd(n, Batch, In, Out),
          <<x, go, ParamsView(0, Edges), GradsView(0, Edges),
            GradsView(Edges, Out), GradsView(Edges + Out, 1), gi>>, 6, total)
  IN Cleared(gparams) \o phase(0, Batch * Out) \o phase(1, Batch * In)

SNWeight == P("weight", 0, Edges)
SNBias == P("bias", Edges, Out)
SNScale == P("scale", Edges + Out, 1)

\* The copy of the parameters, and u, v and sigma from them, come before the
\* lock is taken.
SpectralNorm_forward_buffered ==
  New(UState) \o New(VState) \o New(SigmaState)
    \o Do({Set(s, {SNWeight}) : s \in {UState, VState, SigmaState}})
    \o with_cpu_slices_mut({Set(Y, {X, SNWeight, SNBias, SNScale, SigmaState})})
    \o Keep({X, UState, VState, SigmaState})
SpectralNorm_backward_buffered ==
  with_cpu_slices_mut(
    {Set(GradIn, {GradOut, SNWeight, SNScale, SigmaState}),
     Set(G("weight", 0, Edges), {X, GradOut, SNScale, SigmaState}),
     Set(G("bias", Edges, Out), {GradOut}),
     Set(G("scale", Edges + Out, 1), {X, GradOut, SNWeight, SigmaState})})

spectral_norm_forward ==
  New(UState) \o New(VState) \o New(SigmaState)
    \o fill_gpu_handle(UState) \o fill_gpu_handle(VState)
    \o fill_gpu_handle(SigmaState)
    \o NewFrom(Scale, {SNScale}) \o New(Y)
    \o run_spectral_norm_linear_forward(X, Y)
    \o Keep({X, UState, VState, SigmaState})
spectral_norm_backward ==
  New(GradIn) \o NewFrom(Scale, {SNScale})
    \o run_spectral_norm_linear_backward(
         X, GradOut, GradIn, GradsView(0, SpectralNorm_param_len))

-----------------------------------------------------------------------------

MixLayerCode ==
  [Linear |->
     LayerCode(Linear_param_len, Linear_forward_buffered,
               Linear_backward_buffered, linear_forward, linear_backward),
   MultiResolutionKANLinear |->
     LayerCode(KANLinear_param_len, KANLinear_forward_buffered,
               KANLinear_backward_buffered, kan_forward, kan_backward),
   FeatureFusion |->
     LayerCode(FeatureFusion_param_len, FeatureFusion_forward_buffered,
               FeatureFusion_backward_buffered, feature_fusion_forward,
               feature_fusion_backward),
   SpectralNormLinear |->
     LayerCode(SpectralNorm_param_len, SpectralNorm_forward_buffered,
               SpectralNorm_backward_buffered, spectral_norm_forward,
               spectral_norm_backward)]

=============================================================================
