----------------------------- MODULE GateLayers -----------------------------
(***************************************************************************)
(* Gates, anchors and the Memory layer, on both devices.                   *)
(***************************************************************************)
EXTENDS DeviceProgram

LOCAL Elements == Batch * In

-----------------------------------------------------------------------------
(* SoftSparseGate: a threshold of every feature *)

SoftSparseGate_param_len == In

SoftSparseGatePipelines ==
  [forward |-> Layout(3, 12), backward |-> Layout(5, 12)]
softsparse_fwd(batch, features) ==
  Kernel(3, 3, Groups(batch * features),
         {Set(B(2), {B(0), Part(1, "thresholds", 0, features)})})
softsparse_bwd(batch, features) ==
  LET read == {B(0), B(1), Part(2, "thresholds", 0, features)}
  IN Kernel(5, 3, Groups(batch * features),
            {Set(B(3), read), Add(Part(4, "thresholds", 0, features), read)})

run_softsparse_forward(x, thresholds, y) ==
  run_compute_shader(SoftSparseGatePipelines.forward,
                     softsparse_fwd(Batch, In), <<x, thresholds, y>>,
                     3, Elements)
run_softsparse_backward(x, go, thresholds, gi, gthresholds) ==
  run_compute_shader(SoftSparseGatePipelines.backward,
                     softsparse_bwd(Batch, In),
                     <<x, go, thresholds, gi, gthresholds>>, 3, Elements)

SoftSparseGate_forward_buffered ==
  with_cpu_slices_mut({Set(Y, {X, P("thresholds", 0, In)})}) \o Keep({X})
SoftSparseGate_backward_buffered ==
  LET read == {X, GradOut, P("thresholds", 0, In)}
  IN with_cpu_slices_mut({Set(GradIn, read), Set(G("thresholds", 0, In), read)})

(* SoftKeepGate: the same with the sign of the difference turned *)

SoftKeepGate_param_len == In

SoftKeepGatePipelines ==
  [forward |-> Layout(3, 12), backward |-> Layout(5, 12)]
softkeep_fwd(batch, features) ==
  Kernel(3, 3, Groups(batch * features),
         {Set(B(2), {B(0), Part(1, "thresholds", 0, features)})})
softkeep_bwd(batch, features) ==
  LET read == {B(0), B(1), Part(2, "thresholds", 0, features)}
  IN Kernel(5, 3, Groups(batch * features),
            {Set(B(3), read), Add(Part(4, "thresholds", 0, features), read)})

run_softkeep_forward(x, thresholds, y) ==
  run_compute_shader(SoftKeepGatePipelines.forward,
                     softkeep_fwd(Batch, In), <<x, thresholds, y>>,
                     3, Elements)
run_softkeep_backward(x, go, thresholds, gi, gthresholds) ==
  run_compute_shader(SoftKeepGatePipelines.backward,
                     softkeep_bwd(Batch, In),
                     <<x, go, thresholds, gi, gthresholds>>, 3, Elements)

SoftKeepGate_forward_buffered ==
  with_cpu_slices_mut({Set(Y, {X, P("thresholds", 0, In)})}) \o Keep({X})
SoftKeepGate_backward_buffered ==
  LET read == {X, GradOut, P("thresholds", 0, In)}
  IN with_cpu_slices_mut({Set(GradIn, read), Set(G("thresholds", 0, In), read)})

(* SparseFeatureSelectionGate: logits of the features, then a temperature *)

SparseFeatureSelectionGate_param_len == In + 1

SparseFeatureSelectionGatePipelines ==
  [forward |-> Layout(3, 8), backward |-> Layout(5, 8)]
sparse_feature_selection_fwd(total, features) ==
  Kernel(3, 2, Groups(total),
         {Set(B(2), {B(0), Part(1, "logits", 0, features),
                     Part(1, "temperature", features, 1)})})
sparse_feature_selection_bwd(total, features) ==
  LET params == {Part(2, "logits", 0, features),
                 Part(2, "temperature", features, 1)}
  IN Kernel(5, 2, Groups(total),
            {Set(B(3), {B(1)} \cup params),
             Add(Part(4, "logits", 0, features), {B(0), B(1)} \cup params),
             Add(Part(4, "temperature", features, 1),
                 {B(0), B(1)} \cup params)})

run_sparse_feature_selection_forward(x, params, y) ==
  run_compute_shader(SparseFeatureSelectionGatePipelines.forward,
                     sparse_feature_selection_fwd(Elements, In),
                     <<x, params, y>>, 2, Elements)
run_sparse_feature_selection_backward(x, go, params, gi, gparams) ==
  run_compute_shader(SparseFeatureSelectionGatePipelines.backward,
                     sparse_feature_selection_bwd(Elements, In),
                     <<x, go, params, gi, gparams>>, 2, Elements)

SparseFeatureSelectionGate_forward_buffered ==
  with_cpu_slices_mut(
    {Set(Y, {X, P("logits", 0, In), P("temperature", In, 1)})}) \o Keep({X})
SparseFeatureSelectionGate_backward_buffered ==
  LET params == {P("logits", 0, In), P("temperature", In, 1)}
  IN with_cpu_slices_mut(
       {Set(GradIn, {GradOut} \cup params),
        Set(G("logits", 0, In), {X, GradOut} \cup params),
        Set(G("temperature", In, 1), {X, GradOut} \cup params)})

-----------------------------------------------------------------------------
(* DualAnchor: minima, maxima, and an alpha that the host downloads and     *)
(* hands to the shader in its push constants.                               *)

DualAnchor1D_param_len == 2 * In + 1

DualAnchorPipelines == [forward |-> Layout(4, 12), backward |-> Layout(8, 12)]
dualanchor_fwd(batch, features, alpha) ==
  Kernel(4, 3, Groups(batch * features),
         {Set(B(3), {B(0), Part(1, "min", 0, features),
                     Part(2, "max", 0, features), Pushed(alpha)})})
dualanchor_bwd(batch, features, alpha) ==
  LET anchors == {B(0), Part(2, "min", 0, features),
                  Part(3, "max", 0, features)}
  IN Kernel(8, 3, Groups(batch * features),
            {Set(B(4), {B(1), Pushed(alpha)}),
             Add(Part(5, "min", 0, features),
                 {B(1), Pushed(alpha)} \cup anchors),
             Add(Part(6, "max", 0, features),
                 {B(1), Pushed(alpha)} \cup anchors),
             Add(Part(7, "alpha", 0, 1), {B(1)} \cup anchors)})

run_dualanchor_forward(x, min, max, alpha, y) ==
  run_compute_shader(DualAnchorPipelines.forward,
                     dualanchor_fwd(Batch, In, As("alpha", alpha)),
                     <<x, min, max, y>>, 3, Elements)

\* Views of a part of a view: from and len are relative to it.
SubView(view, from, len) == <<view[1], view[2], view[3] + from, len>>

run_dualanchor_backward(x, go, min, max, alpha, gi, gparams) ==
  run_compute_shader(DualAnchorPipelines.backward,
                     dualanchor_bwd(Batch, In, As("alpha", alpha)),
                     <<x, go, min, max, gi, SubView(gparams, 0, In),
                       SubView(gparams, In, In), SubView(gparams, 2 * In, 1)>>,
                     3, Elements)

DualAnchor1D_forward_buffered ==
  with_cpu_slices_mut({Set(Y, {X, P("min", 0, In), P("max", In, In),
                               P("alpha", 2 * In, 1)})}) \o Keep({X})
DualAnchor1D_backward_buffered ==
  LET anchors == {X, P("min", 0, In), P("max", In, In)}
      alpha == P("alpha", 2 * In, 1)
  IN with_cpu_slices_mut(
       {Set(GradIn, {GradOut, alpha}),
        Set(G("min", 0, In), {GradOut, alpha} \cup anchors),
        Set(G("max", In, In), {GradOut, alpha} \cup anchors),
        Set(G("alpha", 2 * In, 1), {GradOut} \cup anchors)})

-----------------------------------------------------------------------------
(* Memory: running minimum and maximum of every feature.  On the CPU they   *)
(* are taken from the pool in each forward pass and start at its first row; *)
(* on the GPU they stay in memory_states, under the number of the layer.    *)

MinCells == <<"min_cells">>
MaxCells == <<"max_cells">>

MemoryPipelines == [forward |-> Layout(3, 12), backward |-> Layout(2, 8)]
memory_fwd(batch, features) ==
  Kernel(3, 3, Groups(features),
         {Set(B(2), {B(0), B(1)}), Set(B(1), {B(0), B(1)})})
memory_bwd(total) == Kernel(2, 2, Groups(total), {Set(B(1), {B(0)})})

run_memory_forward(x, y) ==
  Do({Once(S("memory"), {x})})
    \o run_compute_shader(MemoryPipelines.forward, memory_fwd(Batch, In),
                          <<x, S("memory"), y>>, 3, Elements)
run_memory_backward(go, gi) ==
  run_compute_shader(MemoryPipelines.backward, memory_bwd(Elements),
                     <<go, gi>>, 2, Elements)

Memory_forward_buffered ==
  New(MinCells) \o New(MaxCells)
    \o Do({Set(MinCells, {X}), Set(MaxCells, {X})})
    \o with_cpu_slices_mut({Set(Y, {X, MinCells, MaxCells}),
                            Set(MinCells, {X, MinCells, MaxCells}),
                            Set(MaxCells, {X, MinCells, MaxCells})})
    \o Keep({X, MinCells, MaxCells})
Memory_backward_buffered == with_cpu_slices_mut({Set(GradIn, {GradOut})})

-----------------------------------------------------------------------------
(* The processor on the GPU *)

gate_forward ==
  [SoftSparseGate |->
     New(Y) \o run_softsparse_forward(X, ParamsView(0, In), Y) \o Keep({X}),
   SoftKeepGate |->
     New(Y) \o run_softkeep_forward(X, ParamsView(0, In), Y) \o Keep({X}),
   SparseFeatureSelectionGate |->
     New(Y) \o run_sparse_feature_selection_forward(
                 X, ParamsView(0, In + 1), Y) \o Keep({X})]

gate_backward ==
  [SoftSparseGate |->
     New(GradIn) \o run_softsparse_backward(X, GradOut, ParamsView(0, In),
                                            GradIn, GradsView(0, In)),
   SoftKeepGate |->
     New(GradIn) \o run_softkeep_backward(X, GradOut, ParamsView(0, In),
                                          GradIn, GradsView(0, In)),
   SparseFeatureSelectionGate |->
     New(GradIn) \o run_sparse_feature_selection_backward(
       X, GradOut, ParamsView(0, In + 1), GradIn, GradsView(0, In + 1))]

\* Faulty: the view of the gradients ends before alpha.
anchor_backward_short ==
  New(GradIn) \o run_dualanchor_backward(
    X, GradOut, ParamsView(0, In), ParamsView(In, In), ParamsView(2 * In, 1),
    GradIn, GradsView(In, 2 * In + 1))

anchor_forward ==
  New(Y) \o run_dualanchor_forward(X, ParamsView(0, In), ParamsView(In, In),
                                   ParamsView(2 * In, 1), Y) \o Keep({X})
anchor_backward ==
  New(GradIn) \o run_dualanchor_backward(
    X, GradOut, ParamsView(0, In), ParamsView(In, In), ParamsView(2 * In, 1),
    GradIn, GradsView(0, 2 * In + 1))

\* The cells of the context are handles of one element that nobody reads.
memory_forward ==
  New(Y) \o run_memory_forward(X, Y) \o New(MinCells) \o New(MaxCells)
    \o Keep({X, MinCells, MaxCells})
memory_backward == New(GradIn) \o run_memory_backward(GradOut, GradIn)

GateLayerCode ==
  [SoftSparseGate |->
     LayerCode(SoftSparseGate_param_len, SoftSparseGate_forward_buffered,
               SoftSparseGate_backward_buffered, gate_forward.SoftSparseGate,
               gate_backward.SoftSparseGate),
   SoftKeepGate |->
     LayerCode(SoftKeepGate_param_len, SoftKeepGate_forward_buffered,
               SoftKeepGate_backward_buffered, gate_forward.SoftKeepGate,
               gate_backward.SoftKeepGate),
   SparseFeatureSelectionGate |->
     LayerCode(SparseFeatureSelectionGate_param_len,
               SparseFeatureSelectionGate_forward_buffered,
               SparseFeatureSelectionGate_backward_buffered,
               gate_forward.SparseFeatureSelectionGate,
               gate_backward.SparseFeatureSelectionGate),
   DualAnchor1D |->
     LayerCode(DualAnchor1D_param_len, DualAnchor1D_forward_buffered,
               DualAnchor1D_backward_buffered, anchor_forward,
               anchor_backward),
   Memory |->
     LayerCode(0, Memory_forward_buffered, Memory_backward_buffered,
               memory_forward, memory_backward)]

=============================================================================
