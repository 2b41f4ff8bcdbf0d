-------------------------- MODULE RecurrentLayers --------------------------
(***************************************************************************)
(* Layers that walk a row step by step, on both devices: IndRNN and Mamba. *)
(* On the GPU every step of the sequence is a dispatch of its own, which   *)
(* finds what the step before left in a buffer; going back, two            *)
(* temporaries change places at every step.  A state of the sequence, and  *)
(* the output, is the buffer of its steps, which are written one by one.   *)
(***************************************************************************)
EXTENDS AttentionLayers

CONSTANT StateDim   \* state_dim of Mamba; the features of a step are Model

ASSUME StateAssumption == StateDim \in Nat \ {0}

Steps == 0 .. SeqLen - 1
EachStep(program(_)) ==
  FlattenSeq([n \in 1 .. SeqLen |-> program(n - 1)])
EachStepBack(program(_)) ==
  FlattenSeq([n \in 1 .. SeqLen |-> program(SeqLen - n)])

H(t) == Nth("h_all", t)
YStep(t) == Nth("y", t)
HAll == {H(t) : t \in Steps}
HPast == {H(t) : t \in Steps \ {SeqLen - 1}}
NewSteps(at(_)) == EachStep(LAMBDA t : New(at(t)))
\* The steps of the output are the output.
Gathered == Do({Set(Y, {YStep(t) : t \in Steps})})

DeltaA == <<"delta_next_a">>
DeltaB == <<"delta_next_b">>
\* mem::swap of current_delta_in and current_delta_out after every step
DeltaIn(t) == IF (SeqLen - 1 - t) % 2 = 0 THEN DeltaA ELSE DeltaB
DeltaOut(t) == IF DeltaIn(t) = DeltaA THEN DeltaB ELSE DeltaA

-----------------------------------------------------------------------------
(* IndRNN *)

IndRNNRoles == <<"w", "u", "b">>
IndRNNLengths == <<Model * Model, Model, Model>>
IndRNN_param_len == Model * Model + 2 * Model
IndRNNFrom(n) == Starts(IndRNNLengths)[n]
IndRNNParam(n) == P(IndRNNRoles[n], IndRNNFrom(n), IndRNNLengths[n])
IndRNNGrad(n) == G(IndRNNRoles[n], IndRNNFrom(n), IndRNNLengths[n])
ind_rnn_whole(i, n) == Part(i, IndRNNRoles[n], 0, IndRNNLengths[n])

IndRNN_forward_buffered ==
  LET h == {X} \cup {IndRNNParam(n) : n \in 1 .. 3}
  IN NewSteps(H)
       \o with_cpu_slices_mut({Set(H(t), h) : t \in Steps} \cup {Set(Y, h)})
       \o Keep({X} \cup HAll)
\* The slice of the gradients is set to zero first, and so is grad_input.
IndRNN_backward_buffered ==
  LET delta == {GradOut, IndRNNParam(2)} \cup HAll
  IN with_cpu_slices_mut(
       {Set(GradIn, delta \cup {IndRNNParam(1)}),
        Set(IndRNNGrad(1), delta \cup {X}), Set(IndRNNGrad(2), delta),
        Set(IndRNNGrad(3), delta)})

IndRNNPipelines ==
  [forward_step |-> Layout(6, 16), backward_step |-> Layout(11, 16)]

Before(i, t) == IF t > 0 THEN {Slot(i, t - 1)} ELSE {}
ind_rnn_fwd_step(t) ==
  LET h == {B(0), ind_rnn_whole(1, 1), ind_rnn_whole(2, 2), ind_rnn_whole(3, 3)}
             \cup Before(4, t)
  IN Kernel(6, 4, Groups(Batch * Model), {Set(Slot(4, t), h), Set(Slot(5, t), h)})
ind_rnn_bwd_step(t) ==
  LET delta == {B(3), ind_rnn_whole(2, 2), B(5), Slot(4, t)}
  IN Kernel(11, 4, Groups(Batch * Model),
            {Set(B(10), delta), Add(ind_rnn_whole(8, 3), delta),
             Add(ind_rnn_whole(6, 1), delta \cup {B(0)}),
             Add(B(9), delta \cup {ind_rnn_whole(1, 1)})}
              \cup {Add(ind_rnn_whole(7, 2), delta \cup {h}) : h \in Before(4, t)})

IndRNNView(n) == ParamsView(IndRNNFrom(n), IndRNNLengths[n])
IndRNNGradView(n) == GradsView(IndRNNFrom(n), IndRNNLengths[n])

run_ind_rnn_forward(x, h, y) ==
  EachStep(LAMBDA t :
    run_compute_shader(IndRNNPipelines.forward_step, ind_rnn_fwd_step(t),
                       <<x, IndRNNView(1), IndRNNView(2), IndRNNView(3), h, y>>,
                       4, Batch * Model))

run_ind_rnn_backward(x, h, go, gi, gparams) ==
  Cleared(gparams) \o fill_gpu_handle(gi) \o Temps(<<DeltaA, DeltaB>>)
    \o NewFrom(<<"zero_delta">>, {}) \o copy_gpu_to_gpu(<<"zero_delta">>, DeltaA)
    \o EachStepBack(LAMBDA t :
         run_compute_shader(IndRNNPipelines.backward_step, ind_rnn_bwd_step(t),
                            <<x, IndRNNView(1), IndRNNView(2), go, h, DeltaIn(t),
                              IndRNNGradView(1), IndRNNGradView(2),
                              IndRNNGradView(3), gi, DeltaOut(t)>>,
                            4, Batch * Model))
    \o Frees(<<DeltaA, DeltaB>>)

-----------------------------------------------------------------------------
(* Mamba: h_t = A_bar h_(t-1) + B_bar x_t and y_t = C h_t + D x_t, where    *)
(* A_bar = exp(delta A) by its series and B_bar = delta B                   *)

MambaRoles == <<"a", "b", "c", "d", "delta">>
MambaLengths ==
  <<StateDim * StateDim, StateDim * Model, Model * StateDim, 1, 1>>
Mamba_param_len ==
  StateDim * StateDim + StateDim * Model + Model * StateDim + 2
MambaFrom(n) == Starts(MambaLengths)[n]
MambaParam(n) == P(MambaRoles[n], MambaFrom(n), MambaLengths[n])
MambaGrad(n) == G(MambaRoles[n], MambaFrom(n), MambaLengths[n])
MambaView(n) == ParamsView(MambaFrom(n), MambaLengths[n])
MambaGradView(n) == GradsView(MambaFrom(n), MambaLengths[n])
mamba_whole(i, n) == Part(i, MambaRoles[n], 0, MambaLengths[n])

ABar == <<"a_bar">>
BBar == <<"b_bar">>

\* The terms of the series that the loop adds up are the first to the tenth:
\* the identity is where they start from, and no part of the sum.
expm_taylor(mat) == UNION {IF k = 0 THEN {One} ELSE mat : k \in 1 .. 10}

Mamba_forward_buffered ==
  LET a_bar == expm_taylor({MambaParam(1), MambaParam(5)})
      b_bar == {MambaParam(2), MambaParam(5)}
      h == a_bar \cup b_bar \cup {X}
  IN NewSteps(H) \o News(<<ABar, BBar>>)
       \o with_cpu_slices_mut(
            {Set(ABar, a_bar), Set(BBar, b_bar),
             Set(Y, h \cup {MambaParam(3), MambaParam(4)})}
              \cup {Set(H(t), h) : t \in Steps})
       \o Keep({X, ABar, BBar} \cup HAll)
Mamba_backward_buffered ==
  LET dh == {GradOut, MambaParam(3), ABar}
      h_prev == HPast
  IN with_cpu_slices_mut(
       {Set(GradIn, dh \cup {BBar, MambaParam(4)}),
        Set(MambaGrad(1), dh \cup h_prev \cup {MambaParam(5)}),
        Set(MambaGrad(2), dh \cup {MambaParam(5), X}),
        Set(MambaGrad(3), {GradOut} \cup HAll),
        Set(MambaGrad(4), {GradOut, X}),
        Set(MambaGrad(5),
            dh \cup h_prev \cup {MambaParam(1), MambaParam(2), X})})

MambaPipelines ==
  [discretize_init |-> Layout(2, 4), discretize_accum |-> Layout(2, 4),
   discretize_step |-> Layout(3, 12), discretize_scale_b |-> Layout(2, 12),
   forward_step |-> Layout(7, 24), bwd_dh_t |-> Layout(5, 20),
   bwd_grad_a_bar |-> Layout(3, 20), bwd_grad_b_bar |-> Layout(3, 20),
   bwd_grad_c |-> Layout(3, 20), bwd_grad_d |-> Layout(3, 20),
   bwd_grad_input |-> Layout(5, 20), convert_grads |-> Layout(7, 16)]

\* Faulty: one step of the series fewer.
TaylorSteps_odd == 9
TaylorSteps == 10
StateSquare == StateDim * StateDim
StateTotal == Batch * StateDim
StepTotal == Batch * Model

mamba_discretize_init ==
  Kernel(2, 1, Groups(StateSquare), {Set(B(0), {Pushed(One)}), Zero(B(1))})
mamba_discretize_accum ==
  Kernel(2, 1, Groups(StateSquare), {Add(B(1), {B(0)})})
mamba_discretize_step(delta) ==
  Kernel(3, 3, Groups(StateSquare),
         {Product(B(2), {B(0), mamba_whole(1, 1), Pushed(delta)})})
mamba_discretize_scale_b(delta) ==
  Kernel(2, 3, Groups(StateDim * Model),
         {Set(B(1), {mamba_whole(0, 2), Pushed(delta)})})
\* Two phases: the state of the step, then its output.
mamba_fwd_step(phase, t) ==
  IF phase = 0
    THEN Kernel(7, 6, Groups(StateTotal),
                {Set(Slot(5, t), {B(0), B(1), B(2)} \cup Before(5, t))})
    ELSE Kernel(7, 6, Groups(StepTotal),
                {Set(Slot(6, t), {B(0), mamba_whole(3, 3), mamba_whole(4, 4),
                                  Slot(5, t)})})
mamba_bwd_dh_t ==
  Kernel(5, 5, Groups(StateTotal),
         {Set(B(4), {B(0), mamba_whole(1, 3), B(2), B(3)})})
mamba_bwd_grad_A_bar(t) ==
  Kernel(3, 5, Groups(Batch * StateSquare), {Add(B(2), {B(0), Slot(1, t - 1)})})
mamba_bwd_grad_B_bar ==
  Kernel(3, 5, Groups(Batch * StateDim * Model), {Add(B(2), {B(0), B(1)})})
mamba_bwd_grad_C(t) ==
  Kernel(3, 5, Groups(Batch * Model * StateDim),
         {Add(mamba_whole(2, 3), {B(0), Slot(1, t)})})
mamba_bwd_grad_D ==
  Kernel(3, 5, Groups(StepTotal), {Add(mamba_whole(2, 4), {B(0), B(1)})})
\* Each step sets its part of the gradient of the input, zero until then.
mamba_bwd_grad_input ==
  Kernel(5, 5, Groups(StepTotal),
         {Add(B(4), {B(0), B(1), B(2), mamba_whole(3, 4)})})
mamba_convert_grads(delta) ==
  Kernel(7, 4, Groups(StateSquare + StateDim * Model),
         {Set(mamba_whole(4, 1), {B(2), Pushed(delta)}),
          Set(mamba_whole(5, 2), {B(3), Pushed(delta)}),
          Add(mamba_whole(6, 5),
              {mamba_whole(0, 1), mamba_whole(1, 2), B(2), B(3)})})

DeltaVal == <<"delta_val">>
TA == <<"t_a">>
TB == <<"t_b">>

\* The temporaries change places and keep their raw ids: after an even number
\* of steps each has its own again.
run_mamba_discretize(a_bar, b_bar) ==
  LET p == MambaPipelines
      accum == run_compute_shader(p.discretize_accum, mamba_discretize_accum,
                                  <<TA, a_bar>>, 1, StateSquare)
      step == run_compute_shader(p.discretize_step,
                                 mamba_discretize_step(DeltaVal),
                                 <<TA, MambaView(1), TB>>, 3, StateSquare)
  IN Temps(<<TA, TB>>)
       \o run_compute_shader(p.discretize_init, mamba_discretize_init,
                             <<TA, a_bar>>, 1, StateSquare)
       \o FlattenSeq([k \in 1 .. TaylorSteps |-> accum \o step \o Swap(TA, TB)])
       \o accum
       \o run_compute_shader(p.discretize_scale_b,
                             mamba_discretize_scale_b(DeltaVal),
                             <<MambaView(2), b_bar>>, 3, StateDim * Model)
       \o Frees(<<TA, TB>>)

\* All the parameters are downloaded to read delta.
DownloadDelta == Do({Set(DeltaVal, {MambaParam(5)})})

ABarTemp == <<"a_bar_buf">>
BBarTemp == <<"b_bar_buf">>

run_mamba_forward(x, h, y) ==
  LET bufs == <<x, ABarTemp, BBarTemp, MambaView(3), MambaView(4), h, y>>
      phase(n, t, total) ==
        run_compute_shader(MambaPipelines.forward_step, mamba_fwd_step(n, t),
                           bufs, 6, total)
  IN DownloadDelta \o Temps(<<ABarTemp, BBarTemp>>)
       \o run_mamba_discretize(ABarTemp, BBarTemp)
       \o EachStep(LAMBDA t : phase(0, t, StateTotal) \o phase(1, t, StepTotal))
       \o Frees(<<ABarTemp, BBarTemp>>)

GradABar == <<"grad_a_bar">>
GradBBar == <<"grad_b_bar">>
Zeroed(v) ==
  Temp(<<"zeros">>) \o Do({Zero(<<"zeros">>)}) \o Do({Set(v, {<<"zeros">>})})
    \o Free(<<"zeros">>)

mamba_backward_step(x, h, go, gi, t) ==
  LET p == MambaPipelines
      call(layout, kernel, bufs, total) ==
        run_compute_shader(layout, kernel, bufs, 5, total)
  IN call(p.bwd_dh_t, mamba_bwd_dh_t,
          <<go, MambaView(3), ABarTemp, DeltaIn(t), DeltaOut(t)>>, StateTotal)
       \o (IF t > 0
             THEN call(p.bwd_grad_a_bar, mamba_bwd_grad_A_bar(t),
                       <<DeltaOut(t), h, GradABar>>, Batch * StateSquare)
             ELSE <<>>)
       \o call(p.bwd_grad_b_bar, mamba_bwd_grad_B_bar,
               <<DeltaOut(t), x, GradBBar>>, Batch * StateDim * Model)
       \o call(p.bwd_grad_c, mamba_bwd_grad_C(t), <<go, h, MambaGradView(3)>>,
               Batch * Model * StateDim)
       \o call(p.bwd_grad_d, mamba_bwd_grad_D, <<go, x, MambaGradView(4)>>,
               StepTotal)
       \o call(p.bwd_grad_input, mamba_bwd_grad_input,
               <<DeltaOut(t), go, BBarTemp, MambaView(4), gi>>, StepTotal)

run_mamba_backward(x, h, go, gi, gparams) ==
  LET temps == <<ABarTemp, BBarTemp, GradABar, GradBBar, DeltaA, DeltaB>>
  IN Cleared(gparams) \o fill_gpu_handle(gi) \o DownloadDelta \o Temps(temps)
       \o Zeroed(GradABar) \o Zeroed(GradBBar) \o Zeroed(DeltaA)
       \o run_mamba_discretize(ABarTemp, BBarTemp)
       \o EachStepBack(LAMBDA t : mamba_backward_step(x, h, go, gi, t))
       \o run_compute_shader(MambaPipelines.convert_grads,
                             mamba_convert_grads(DeltaVal),
                             <<MambaView(1), MambaView(2), GradABar, GradBBar,
                               MambaGradView(1), MambaGradView(2),
                               MambaGradView(5)>>,
                             4, StateSquare + StateDim * Model)
       \o Frees(temps)

-----------------------------------------------------------------------------
(* The processor on the GPU *)

HBuf == <<"h_all">>

\* a_bar and b_bar of the context are only there for its shape.
recurrent_forward ==
  [IndRNN |->
     NewSteps(H) \o NewSteps(YStep) \o run_ind_rnn_forward(X, HBuf, Y)
       \o Gathered \o Keep({X} \cup HAll),
   Mamba |->
     NewSteps(H) \o NewSteps(YStep) \o run_mamba_forward(X, HBuf, Y)
       \o Gathered \o News(<<ABar, BBar>>) \o Keep({X, ABar, BBar} \cup HAll)]

recurrent_backward ==
  [IndRNN |->
     New(GradIn)
       \o run_ind_rnn_backward(X, HBuf, GradOut, GradIn,
                               GradsView(0, IndRNN_param_len)),
   Mamba |->
     New(GradIn)
       \o run_mamba_backward(X, HBuf, GradOut, GradIn,
                             GradsView(0, Mamba_param_len))]

RecurrentLayerCode ==
  [IndRNN |->
     LayerCode(IndRNN_param_len, IndRNN_forward_buffered,
               IndRNN_backward_buffered, recurrent_forward.IndRNN,
               recurrent_backward.IndRNN),
   Mamba |->
     LayerCode(Mamba_param_len, Mamba_forward_buffered,
               Mamba_backward_buffered, recurrent_forward.Mamba,
               recurrent_backward.Mamba)]

=============================================================================
