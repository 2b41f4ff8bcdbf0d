--------------------------- MODULE DropoutLayers ---------------------------
(***************************************************************************)
(* Dropouts, on both devices.  The mask drawn in a forward pass is saved   *)
(* for its backward pass: drawn again it would be another one.             *)
(***************************************************************************)
EXTENDS DeviceProgram

LOCAL Elements == Batch * In

Arg == <<"arg">>
Mask == <<"mask">>

-----------------------------------------------------------------------------
(* ConcreteDropout: one logit; every forward pass draws under a seed of its *)
(* own, taken from a counter that all passes of the layer share.            *)

ConcreteDropout_param_len == 1
next_seed == Do({Add(S("call_counter"), {})})

ConcreteDropoutPipelines == [forward |-> Layout(4, 12), backward |-> Layout(6, 8)]
concrete_dropout_fwd(total) ==
  Kernel(4, 3, Groups(total),
         {Set(B(2), {B(0), Part(1, "logit", 0, 1), Pushed(S("call_counter"))}),
          Set(B(3), {Part(1, "logit", 0, 1), Pushed(S("call_counter"))})})
concrete_dropout_bwd(total) ==
  Kernel(6, 2, Groups(total),
         {Set(B(4), {B(1), B(3)}),
          Add(Part(5, "logit", 0, 1), {B(0), B(1), B(3)})})

run_concrete_dropout_forward(x, logit, y, arg) ==
  run_compute_shader(ConcreteDropoutPipelines.forward,
                     concrete_dropout_fwd(Elements), <<x, logit, y, arg>>,
                     3, Elements)
run_concrete_dropout_backward(x, go, logit, arg, gi, glogit) ==
  Cleared(glogit)
    \o run_compute_shader(ConcreteDropoutPipelines.backward,
                          concrete_dropout_bwd(Elements),
                          <<x, go, logit, arg, gi, glogit>>, 2, Elements)

ConcreteDropout_forward_buffered ==
  New(Arg) \o next_seed
    \o with_cpu_slices_mut(
         {Set(Arg, {P("logit", 0, 1), S("call_counter")}),
          Set(Y, {X, P("logit", 0, 1), S("call_counter")})})
    \o Keep({X, Arg})
ConcreteDropout_backward_buffered ==
  with_cpu_slices_mut({Set(GradIn, {GradOut, Arg}),
                       Set(G("logit", 0, 1), {X, GradOut, Arg})})

-----------------------------------------------------------------------------
(* AdaptiveDropout: theta of every feature, then its temperature.  The seed  *)
(* is a field of the layer.                                                  *)

AdaptiveDropout_param_len == 2 * In

AdaptiveDropoutPipelines == [forward |-> Layout(5, 12), backward |-> Layout(7, 8)]
adaptive_dropout_fwd(total, features) ==
  LET read == {B(0), Part(1, "theta", 0, features),
               Part(1, "temp", features, features)}
  IN Kernel(5, 3, Groups(total), {Set(B(i), read) : i \in 2 .. 4})
adaptive_dropout_bwd(total, features) ==
  LET read == {B(0), B(1), B(3), B(4), Part(2, "temp", features, features)}
  IN Kernel(7, 2, Groups(total),
            {Set(B(5), {B(1), B(3), B(4)}),
             Add(Part(6, "theta", 0, features), read),
             Add(Part(6, "temp", features, features), read)})

run_adaptive_dropout_forward(x, params, y, mask, arg) ==
  run_compute_shader(AdaptiveDropoutPipelines.forward,
                     adaptive_dropout_fwd(Elements, In),
                     <<x, params, y, mask, arg>>, 3, Elements)
run_adaptive_dropout_backward(x, go, params, mask, arg, gi, gparams) ==
  Cleared(gparams)
    \o run_compute_shader(AdaptiveDropoutPipelines.backward,
                          adaptive_dropout_bwd(Elements, In),
                          <<x, go, params, mask, arg, gi, gparams>>,
                          2, Elements)

\* theta and the temperatures are copied before the lock is taken.
AdaptiveDropout_forward_buffered ==
  LET theta == <<"theta_copy">>
      temp == <<"temp_copy">>
      read == {X, theta, temp}
  IN New(Mask) \o New(Arg)
       \o Do({Set(theta, {P("theta", 0, In)}), Set(temp, {P("temp", In, In)})})
       \o with_cpu_slices_mut({Set(Arg, read), Set(Mask, read), Set(Y, read)})
       \o Keep({X, Mask, Arg})
AdaptiveDropout_backward_buffered ==
  LET read == {X, GradOut, Mask, Arg, P("temp", In, In)}
  IN with_cpu_slices_mut(
       {Set(GradIn, {GradOut, Mask, Arg}), Set(G("theta", 0, In), read),
        Set(G("temp", In, In), read \cup {P("theta", 0, In)})})

-----------------------------------------------------------------------------
(* The processor on the GPU *)

dropout_forward ==
  [ConcreteDropout |->
     New(Arg) \o New(Y) \o next_seed
       \o run_concrete_dropout_forward(X, ParamsView(0, 1), Y, Arg)
       \o Keep({X, Arg}),
   AdaptiveDropout |->
     New(Mask) \o New(Arg) \o New(Y)
       \o run_adaptive_dropout_forward(X, ParamsView(0, 2 * In), Y, Mask, Arg)
       \o Keep({X, Mask, Arg})]

dropout_backward ==
  [ConcreteDropout |->
     New(GradIn) \o run_concrete_dropout_backward(
       X, GradOut, ParamsView(0, 1), Arg, GradIn, GradsView(0, 1)),
   AdaptiveDropout |->
     New(GradIn) \o run_adaptive_dropout_backward(
       X, GradOut, ParamsView(0, 2 * In), Mask, Arg, GradIn,
       GradsView(0, 2 * In))]

DropoutLayerCode ==
  [ConcreteDropout |->
     LayerCode(ConcreteDropout_param_len, ConcreteDropout_forward_buffered,
               ConcreteDropout_backward_buffered,
               dropout_forward.ConcreteDropout,
               dropout_backward.ConcreteDropout),
   AdaptiveDropout |->
     LayerCode(AdaptiveDropout_param_len, AdaptiveDropout_forward_buffered,
               AdaptiveDropout_backward_buffered,
               dropout_forward.AdaptiveDropout,
               dropout_backward.AdaptiveDropout)]

=============================================================================
