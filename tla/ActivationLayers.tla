-------------------------- MODULE ActivationLayers --------------------------
(***************************************************************************)
(* Element-wise layers and activations with parameters, on both devices.   *)
(* The two implementations were written apart, a shader and a loop; what   *)
(* they read, write, save in the context and leave behind is below.        *)
(***************************************************************************)
EXTENDS DeviceProgram

CONSTANT Activations   \* num_activations of the adaptive activation

Size == Batch * In

-----------------------------------------------------------------------------
(* ReLU *)

ReLUPipelines == [forward |-> Layout(2, 4), backward |-> Layout(3, 4)]
relu_fwd(total) == Kernel(2, 1, Groups(total), {Set(B(1), {B(0)})})
relu_bwd(total) == Kernel(3, 1, Groups(total), {Set(B(2), {B(0), B(1)})})

run_relu_forward(x, y) ==
  run_compute_shader(ReLUPipelines.forward, relu_fwd(Size), <<x, y>>, 1, Size)
run_relu_backward(x, go, gi) ==
  run_compute_shader(ReLUPipelines.backward, relu_bwd(Size),
                     <<x, go, gi>>, 1, Size)

ReLU_forward_buffered == with_cpu_slices_mut({Set(Y, {X})}) \o Keep({X})
ReLU_backward_buffered == with_cpu_slices_mut({Set(GradIn, {X, GradOut})})

(* Sigmoid *)

SigmoidPipelines == [forward |-> Layout(2, 4), backward |-> Layout(3, 4)]
sigmoid_fwd(total) == Kernel(2, 1, Groups(total), {Set(B(1), {B(0)})})
sigmoid_bwd(total) == Kernel(3, 1, Groups(total), {Set(B(2), {B(0), B(1)})})

run_sigmoid_forward(x, y) ==
  run_compute_shader(SigmoidPipelines.forward, sigmoid_fwd(Size),
                     <<x, y>>, 1, Size)
run_sigmoid_backward(y, go, gi) ==
  run_compute_shader(SigmoidPipelines.backward, sigmoid_bwd(Size),
                     <<y, go, gi>>, 1, Size)

Sigmoid_forward_buffered == with_cpu_slices_mut({Set(Y, {X})}) \o Keep({Y})
Sigmoid_backward_buffered == with_cpu_slices_mut({Set(GradIn, {Y, GradOut})})

(* Tanh *)

TanhPipelines == [forward |-> Layout(2, 4), backward |-> Layout(3, 4)]
tanh_fwd(total) == Kernel(2, 1, Groups(total), {Set(B(1), {B(0)})})
tanh_bwd(total) == Kernel(3, 1, Groups(total), {Set(B(2), {B(0), B(1)})})

run_tanh_forward(x, y) ==
  run_compute_shader(TanhPipelines.forward, tanh_fwd(Size), <<x, y>>, 1, Size)
run_tanh_backward(y, go, gi) ==
  run_compute_shader(TanhPipelines.backward, tanh_bwd(Size),
                     <<y, go, gi>>, 1, Size)

Tanh_forward_buffered == with_cpu_slices_mut({Set(Y, {X})}) \o Keep({Y})
Tanh_backward_buffered == with_cpu_slices_mut({Set(GradIn, {Y, GradOut})})

(* LeakyReLU: the slope is a field of the layer, not a parameter *)

LeakyReLUPipelines == [forward |-> Layout(2, 8), backward |-> Layout(3, 8)]
leaky_relu_fwd(total) == Kernel(2, 2, Groups(total), {Set(B(1), {B(0)})})
leaky_relu_bwd(total) ==
  Kernel(3, 2, Groups(total), {Set(B(2), {B(0), B(1)})})

run_leaky_relu_forward(x, y) ==
  run_compute_shader(LeakyReLUPipelines.forward, leaky_relu_fwd(Size),
                     <<x, y>>, 2, Size)
run_leaky_relu_backward(x, go, gi) ==
  run_compute_shader(LeakyReLUPipelines.backward, leaky_relu_bwd(Size),
                     <<x, go, gi>>, 2, Size)

LeakyReLU_forward_buffered == with_cpu_slices_mut({Set(Y, {X})}) \o Keep({X})
LeakyReLU_backward_buffered ==
  with_cpu_slices_mut({Set(GradIn, {X, GradOut})})

(* Softmax: a workgroup for each row *)

SoftmaxPipelines == [forward |-> Layout(2, 8), backward |-> Layout(3, 8)]
softmax(rows, cols) == Kernel(2, 2, rows, {Set(B(1), {B(0)})})
softmax_backward(rows, cols) == Kernel(3, 2, rows, {Set(B(2), {B(0), B(1)})})

run_softmax_forward(x, y) ==
  run_compute_shader_with_dispatch(SoftmaxPipelines.forward,
                                   softmax(Batch, In), <<x, y>>, 2, Batch)
run_softmax_backward(y, go, gi) ==
  run_compute_shader_with_dispatch(SoftmaxPipelines.backward,
                                   softmax_backward(Batch, In),
                                   <<y, go, gi>>, 2, Batch)

Softmax_forward_buffered == with_cpu_slices_mut({Set(Y, {X})}) \o Keep({Y})
Softmax_backward_buffered == with_cpu_slices_mut({Set(GradIn, {Y, GradOut})})

(* Identity: copies *)

run_identity_forward(x, y) == copy_gpu_to_gpu(x, y)
run_identity_backward(go, gi) == copy_gpu_to_gpu(go, gi)

Identity_forward_buffered == with_cpu_slices_mut({Set(Y, {X})}) \o Keep({X})
Identity_backward_buffered == with_cpu_slices_mut({Set(GradIn, {GradOut})})

-----------------------------------------------------------------------------
(* DualSlopeReLU: alpha of every feature, then beta of every feature *)

DualSlopeReLU_param_len == 2 * In

DualSlopeReLUPipelines == [forward |-> Layout(4, 8), backward |-> Layout(7, 8)]
dual_slope_relu_fwd(total, features) ==
  Kernel(4, 2, Groups(total),
         {Set(B(3), {B(0), Part(1, "alpha", 0, features),
                     Part(2, "beta", 0, features)})})
dual_slope_relu_bwd(total, features) ==
  Kernel(7, 2, Groups(total),
         {Set(B(4), {B(0), B(1), Part(2, "alpha", 0, features),
                     Part(3, "beta", 0, features)}),
          Add(Part(5, "alpha", 0, features), {B(0), B(1)}),
          Add(Part(6, "beta", 0, features), {B(0), B(1)})})

run_dual_slope_relu_forward(x, alpha, beta, y) ==
  run_compute_shader(DualSlopeReLUPipelines.forward,
                     dual_slope_relu_fwd(Size, In), <<x, alpha, beta, y>>,
                     2, Size)
\* Faulty: the gradients of alpha and beta bound the other way round.
run_dual_slope_relu_backward_swapped(x, go, alpha, beta, gi, galpha, gbeta) ==
  run_compute_shader(DualSlopeReLUPipelines.backward,
                     dual_slope_relu_bwd(Size, In),
                     <<x, go, alpha, beta, gi, gbeta, galpha>>, 2, Size)
run_dual_slope_relu_backward(x, go, alpha, beta, gi, galpha, gbeta) ==
  run_compute_shader(DualSlopeReLUPipelines.backward,
                     dual_slope_relu_bwd(Size, In),
                     <<x, go, alpha, beta, gi, galpha, gbeta>>, 2, Size)

DualSlopeReLU_forward_buffered ==
  with_cpu_slices_mut({Set(Y, {X, P("alpha", 0, In), P("beta", In, In)})})
    \o Keep({X})
DualSlopeReLU_backward_buffered ==
  with_cpu_slices_mut(
    {Set(GradIn, {X, GradOut, P("alpha", 0, In), P("beta", In, In)}),
     Set(G("alpha", 0, In), {X, GradOut}),
     Set(G("beta", In, In), {X, GradOut})})

(* LearnableMish: one lambda *)

LearnableMish_param_len == 1

LearnableMishPipelines == [forward |-> Layout(3, 4), backward |-> Layout(5, 4)]
learnable_mish_fwd(total) ==
  Kernel(3, 1, Groups(total), {Set(B(2), {B(0), Part(1, "lambda", 0, 1)})})
learnable_mish_bwd(total) ==
  Kernel(5, 1, Groups(total),
         {Set(B(3), {B(0), B(1), Part(2, "lambda", 0, 1)}),
          Add(Part(4, "lambda", 0, 1), {B(0), B(1), Part(2, "lambda", 0, 1)})})

run_learnable_mish_forward(x, lambda, y) ==
  run_compute_shader(LearnableMishPipelines.forward, learnable_mish_fwd(Size),
                     <<x, lambda, y>>, 1, Size)
run_learnable_mish_backward(x, go, lambda, gi, glambda) ==
  run_compute_shader(LearnableMishPipelines.backward, learnable_mish_bwd(Size),
                     <<x, go, lambda, gi, glambda>>, 1, Size)

LearnableMish_forward_buffered ==
  with_cpu_slices_mut({Set(Y, {X, P("lambda", 0, 1)})}) \o Keep({X})
LearnableMish_backward_buffered ==
  with_cpu_slices_mut({Set(GradIn, {X, GradOut, P("lambda", 0, 1)}),
                       Set(G("lambda", 0, 1), {X, GradOut, P("lambda", 0, 1)})})

(* LearnableSoftplus: log beta and theta of every feature.  The loop clamps *)
(* log beta from below, the shader does not: a difference of values only.   *)

LearnableSoftplus_param_len == 2 * In

LearnableSoftplusPipelines ==
  [forward |-> Layout(4, 8), backward |-> Layout(7, 8)]
learnable_softplus_fwd(total, features) ==
  Kernel(4, 2, Groups(total),
         {Set(B(3), {B(0), Part(1, "log_beta", 0, features),
                     Part(2, "theta", 0, features)})})
learnable_softplus_bwd(total, features) ==
  LET read == {B(0), B(1), Part(2, "log_beta", 0, features),
               Part(3, "theta", 0, features)}
  IN Kernel(7, 2, Groups(total),
            {Set(B(4), read), Add(Part(5, "log_beta", 0, features), read),
             Add(Part(6, "theta", 0, features), read)})

run_learnable_softplus_forward(x, beta, theta, y) ==
  run_compute_shader(LearnableSoftplusPipelines.forward,
                     learnable_softplus_fwd(Size, In), <<x, beta, theta, y>>,
                     2, Size)
run_learnable_softplus_backward(x, go, beta, theta, gi, gbeta, gtheta) ==
  run_compute_shader(LearnableSoftplusPipelines.backward,
                     learnable_softplus_bwd(Size, In),
                     <<x, go, beta, theta, gi, gbeta, gtheta>>, 2, Size)

LearnableSoftplus_forward_buffered ==
  with_cpu_slices_mut({Set(Y, {X, P("log_beta", 0, In), P("theta", In, In)})})
    \o Keep({X})
LearnableSoftplus_backward_buffered ==
  LET read == {X, GradOut, P("log_beta", 0, In), P("theta", In, In)}
  IN with_cpu_slices_mut({Set(GradIn, read), Set(G("log_beta", 0, In), read),
                          Set(G("theta", In, In), read)})

(* AdaptivePerFeatureActivation: a logit of every activation and feature *)

AdaptiveActivation_param_len == In * Activations

AdaptivePerFeatureActivationPipelines ==
  [forward |-> Layout(3, 12), backward |-> Layout(5, 12)]
adaptive_activation_fwd(total, features, acts) ==
  Kernel(3, 3, Groups(total),
         {Set(B(2), {B(0), Part(1, "logits", 0, features * acts)})})
adaptive_activation_bwd(total, features, acts) ==
  LET read == {B(0), B(1), Part(2, "logits", 0, features * acts)}
  IN Kernel(5, 3, Groups(total),
            {Set(B(3), read), Add(Part(4, "logits", 0, features * acts), read)})

run_adaptive_activation_forward(x, params, y) ==
  run_compute_shader(AdaptivePerFeatureActivationPipelines.forward,
                     adaptive_activation_fwd(Size, In, Activations),
                     <<x, params, y>>, 3, Size)
run_adaptive_activation_backward(x, go, params, gi, gparams) ==
  run_compute_shader(AdaptivePerFeatureActivationPipelines.backward,
                     adaptive_activation_bwd(Size, In, Activations),
                     <<x, go, params, gi, gparams>>, 3, Size)

AdaptiveActivation_forward_buffered ==
  with_cpu_slices_mut({Set(Y, {X, P("logits", 0, In * Activations)})})
    \o Keep({X})
\* gp is set to zero first, then added to.
AdaptiveActivation_backward_buffered ==
  LET len == In * Activations
      read == {X, GradOut, P("logits", 0, len)}
  IN with_cpu_slices_mut({Set(GradIn, read), Set(G("logits", 0, len), read)})

-----------------------------------------------------------------------------
(* The processor on the GPU *)

activation_forward ==
  [ReLU         |-> New(Y) \o run_relu_forward(X, Y) \o Keep({X}),
   Sigmoid      |-> New(Y) \o run_sigmoid_forward(X, Y) \o Keep({Y}),
   Tanh         |-> New(Y) \o run_tanh_forward(X, Y) \o Keep({Y}),
   LeakyReLU    |-> New(Y) \o run_leaky_relu_forward(X, Y) \o Keep({X}),
   Softmax      |-> New(Y) \o run_softmax_forward(X, Y) \o Keep({Y}),
   Identity     |-> New(Y) \o run_identity_forward(X, Y) \o Keep({X}),
   DualSlopeReLU |->
     New(Y) \o run_dual_slope_relu_forward(X, ParamsView(0, In),
                                           ParamsView(In, In), Y) \o Keep({X}),
   LearnableMish |->
     New(Y) \o run_learnable_mish_forward(X, ParamsView(0, 1), Y) \o Keep({X}),
   LearnableSoftplus |->
     New(Y) \o run_learnable_softplus_forward(X, ParamsView(0, In),
                                              ParamsView(In, In), Y)
       \o Keep({X}),
   AdaptiveActivation |->
     New(Y) \o run_adaptive_activation_forward(
                 X, ParamsView(0, In * Activations), Y) \o Keep({X})]

activation_backward ==
  [ReLU         |-> New(GradIn) \o run_relu_backward(X, GradOut, GradIn),
   Sigmoid      |-> New(GradIn) \o run_sigmoid_backward(Y, GradOut, GradIn),
   Tanh         |-> New(GradIn) \o run_tanh_backward(Y, GradOut, GradIn),
   LeakyReLU    |-> New(GradIn) \o run_leaky_relu_backward(X, GradOut, GradIn),
   Softmax      |-> New(GradIn) \o run_softmax_backward(Y, GradOut, GradIn),
   Identity     |-> New(GradIn) \o run_identity_backward(GradOut, GradIn),
   DualSlopeReLU |->
     New(GradIn) \o run_dual_slope_relu_backward(
       X, GradOut, ParamsView(0, In), ParamsView(In, In), GradIn,
       GradsView(0, In), GradsView(In, In)),
   LearnableMish |->
     New(GradIn) \o run_learnable_mish_backward(
       X, GradOut, ParamsView(0, 1), GradIn, GradsView(0, 1)),
   LearnableSoftplus |->
     New(GradIn) \o run_learnable_softplus_backward(
       X, GradOut, ParamsView(0, In), ParamsView(In, In), GradIn,
       GradsView(0, In), GradsView(In, In)),
   AdaptiveActivation |->
     New(GradIn) \o run_adaptive_activation_backward(
       X, GradOut, ParamsView(0, In * Activations), GradIn,
       GradsView(0, In * Activations))]

Activation(l, len, cpu_fwd, cpu_bwd) ==
  LayerCode(len, cpu_fwd, cpu_bwd, activation_forward[l],
            activation_backward[l])

ActivationLayerCode ==
  [ReLU      |-> Activation("ReLU", 0, ReLU_forward_buffered,
                            ReLU_backward_buffered),
   Sigmoid   |-> Activation("Sigmoid", 0, Sigmoid_forward_buffered,
                            Sigmoid_backward_buffered),
   Tanh      |-> Activation("Tanh", 0, Tanh_forward_buffered,
                            Tanh_backward_buffered),
   LeakyReLU |-> Activation("LeakyReLU", 0, LeakyReLU_forward_buffered,
                            LeakyReLU_backward_buffered),
   Softmax   |-> Activation("Softmax", 0, Softmax_forward_buffered,
                            Softmax_backward_buffered),
   Identity  |-> Activation("Identity", 0, Identity_forward_buffered,
                            Identity_backward_buffered),
   DualSlopeReLU |->
     Activation("DualSlopeReLU", DualSlopeReLU_param_len,
                DualSlopeReLU_forward_buffered,
                DualSlopeReLU_backward_buffered),
   LearnableMish |->
     Activation("LearnableMish", LearnableMish_param_len,
                LearnableMish_forward_buffered,
                LearnableMish_backward_buffered),
   LearnableSoftplus |->
     Activation("LearnableSoftplus", LearnableSoftplus_param_len,
                LearnableSoftplus_forward_buffered,
                LearnableSoftplus_backward_buffered),
   AdaptiveActivation |->
     Activation("AdaptiveActivation", AdaptiveActivation_param_len,
                AdaptiveActivation_forward_buffered,
                AdaptiveActivation_backward_buffered)]

=============================================================================
