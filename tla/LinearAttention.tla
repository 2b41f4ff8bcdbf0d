-------------------------- MODULE LinearAttention --------------------------
(***************************************************************************)
(* LinearAttention, on both devices: a trainable number of heads, each on  *)
(* its share of the features.  A head whose weight is next to nothing is   *)
(* left out.  The weight of head h is a smooth step at h_soft = h, and     *)
(* h_soft one smooth step for each threshold that h_raw has passed; here   *)
(* the steps are sharp.  On the GPU what backward needs of a head is in    *)
(* part in the context and in part in FORWARD_CACHE, a map that all passes *)
(* share: forward puts it in as its last step, backward takes it out as    *)
(* its first.                                                              *)
(***************************************************************************)
EXTENDS AttentionLayers

CONSTANTS
  MinHeads, MaxHeads,  \* fields of the layer
  HRaw                 \* thresholds that the parameter h_raw has passed

ASSUME HeadsAssumption ==
  /\ MinHeads \in Nat \ {0} /\ MaxHeads \in Nat /\ MinHeads <= MaxHeads
  /\ HRaw \in Nat /\ Model % MaxHeads = 0

d_head == Model \div MaxHeads

LARoles == PFARoles
LALengths ==
  LET in == d_head * Model
  IN <<in, d_head, in, d_head, in, d_head, in, Model, 1>>
LA_head_param_count == 4 * d_head * Model + 3 * d_head + Model + 1
LinearAttention_param_len == MaxHeads * LA_head_param_count + 1

LAFrom(h, n) == h * LA_head_param_count + Starts(LALengths)[n]
LAParam(h, n) == P(LARoles[n], LAFrom(h, n), LALengths[n])
LAParams(h, which) == {LAParam(h, n) : n \in which}
LAGrad(h, n) == G(LARoles[n], LAFrom(h, n), LALengths[n])
LAView(h, n) == ParamsView(LAFrom(h, n), LALengths[n])
LAGradView(h, n) == GradsView(LAFrom(h, n), LALengths[n])
la_whole(i, n) == Part(i, LARoles[n], 0, LALengths[n])
HRawParam == P("h_raw", MaxHeads * LA_head_param_count, 1)
HRawGrad == G("h_raw", MaxHeads * LA_head_param_count, 1)

-----------------------------------------------------------------------------
(* Heads *)

compute_h_soft(min_heads, max_heads) ==
  IF min_heads >= max_heads THEN min_heads
  ELSE min_heads + (IF HRaw < max_heads - min_heads THEN HRaw
                    ELSE max_heads - min_heads)

ActiveHeads(h_soft) == {h \in 0 .. MaxHeads - 1 : h < h_soft}

\* The gradient of h_raw: there is none where the number of heads is fixed.
h_soft_derivative(min_heads, max_heads, from) ==
  IF min_heads >= max_heads THEN {} ELSE from

\* program of every active head, in order
EachHead(h_soft, program(_)) ==
  FlattenSeq([h \in 1 .. h_soft |-> program(h - 1)])
AllHeads(program(_)) == EachHead(MaxHeads, program)

HSoft == <<"h_soft">>
YHead(h) == Nth("y_h", h)
AttnHead(h) == Nth("attn_out", h)
QRawHead(h) == Nth("q_raw", h)
KRawHead(h) == Nth("k_raw", h)
VHead(h) == Nth("v_raw", h)
QHead(h) == Nth("q_phi", h)
KHead(h) == Nth("k_phi", h)
KVHead(h) == Nth("kv", h)
ZHead(h) == Nth("z", h)
DenomHead(h) == Nth("denom", h)
BiasHead(h) == Nth("self_bias", h)

-----------------------------------------------------------------------------
(* The CPU *)

CpuHead(h) ==
  {QHead(h), KHead(h), VHead(h), KVHead(h), ZHead(h), AttnHead(h), YHead(h)}

compute_head_forward(h) ==
  LET q == {X} \cup LAParams(h, {1, 2})
      k == {X} \cup LAParams(h, {3, 4})
      v == {X} \cup LAParams(h, {5, 6})
      attn == q \cup k \cup v \cup {LAParam(h, 9)}
  IN New(QHead(h)) \o New(KHead(h)) \o New(VHead(h)) \o New(KVHead(h))
       \o New(ZHead(h)) \o New(AttnHead(h)) \o New(YHead(h))
       \o Do({Set(QHead(h), q), Set(KHead(h), k), Set(VHead(h), v),
              Set(KVHead(h), k \cup v), Set(ZHead(h), k),
              Set(AttnHead(h), attn),
              Set(YHead(h), attn \cup LAParams(h, {7, 8}))})

LinearAttention_forward_buffered ==
  LET h_soft == compute_h_soft(MinHeads, MaxHeads)
      heads == ActiveHeads(h_soft)
  IN Do({Set(HSoft, {HRawParam})})
       \o EachHead(h_soft, compute_head_forward)
       \o Do({Set(Y, {HSoft} \cup {YHead(h) : h \in heads})})
       \o Keep({X, HSoft} \cup UNION {CpuHead(h) : h \in heads})

\* What the gradients of a head's parameters, by their order, come from, and
\* last what the gradient of the input does.
compute_head_backward(h) ==
  LET go_h == {GradOut, HSoft}
      denom == {LAParam(h, 9), QHead(h), ZHead(h)}
      d_num == go_h \cup {LAParam(h, 7)} \cup denom
      d_denom == d_num \cup {AttnHead(h)}
      d_q == d_denom \cup {KVHead(h), X} \cup LAParams(h, {1, 2})
      d_k == d_denom \cup {VHead(h), X} \cup LAParams(h, {3, 4})
      d_v == d_num \cup {KHead(h)}
  IN <<d_q, d_q, d_k, d_k, d_v \cup {X}, d_v,
       go_h \cup {AttnHead(h)}, go_h, d_denom \cup {VHead(h)},
       d_q \cup d_k \cup d_v \cup LAParams(h, {1, 3, 5})>>

\* The slice is filled with zero; heads that were left out stay so.
LinearAttention_backward_buffered ==
  LET heads == ActiveHeads(compute_h_soft(MinHeads, MaxHeads))
      back(h) == compute_head_backward(h)
  IN with_cpu_slices_mut(
       {Set(GradIn, UNION {back(h)[10] : h \in heads})}
         \cup {Set(LAGrad(h, n), back(h)[n]) : h \in heads, n \in 1 .. 9}
         \cup {Zero(LAGrad(h, n)) : h \in (0 .. MaxHeads - 1) \ heads,
                                    n \in 1 .. 9}
         \cup {Set(HRawGrad,
                   h_soft_derivative(
                     MinHeads, MaxHeads,
                     {GradOut, HSoft} \cup {YHead(h) : h \in heads}))})

-----------------------------------------------------------------------------
(* The GPU *)

LinearAttentionPipelines ==
  [phi |-> Layout(2, 4), linear_per_token |-> Layout(4, 16),
   compute_kvz |-> Layout(4, 12), denom |-> Layout(3, 16),
   forward |-> Layout(5, 16), bwd_dattn |-> Layout(3, 16),
   bwd_grad_wo |-> Layout(3, 16), bwd_grad_bo |-> Layout(2, 12),
   bwd_dnum_denom |-> Layout(5, 12), bwd_dq_phi |-> Layout(5, 12),
   bwd_dz |-> Layout(3, 12), bwd_dkv |-> Layout(3, 12),
   bwd_dk_phi |-> Layout(4, 12), bwd_dv |-> Layout(4, 16),
   bwd_dqk_raw |-> Layout(6, 12), bwd_grad_qkv_weights |-> Layout(7, 16),
   bwd_grad_qkv_bias |-> Layout(6, 12), bwd_self_bias |-> Layout(4, 12),
   bwd_dx |-> Layout(7, 16)]

TotalHead == Tokens * d_head
KVZTotal == Batch * (d_head * d_head + d_head)

linear_attention_phi == Kernel(2, 1, Groups(TotalHead), {Set(B(1), {B(0)})})
linear_attention_linear_per_token(w, b, total) ==
  Kernel(4, 4, Groups(total),
         {Set(B(3), {B(0), la_whole(1, w), la_whole(2, b)})})
linear_attention_compute_kvz ==
  Kernel(4, 3, Groups(KVZTotal), {Set(B(2), {B(0), B(1)}), Set(B(3), {B(0)})})
linear_attention_denom(bias) ==
  Kernel(3, 4, Groups(Tokens), {Set(B(2), {B(0), B(1), Pushed(bias)})})
linear_attention_fwd(bias) ==
  Kernel(5, 4, Groups(TotalHead),
         {Set(B(4), {B(0), B(1), B(2), B(3), Pushed(bias)})})
linear_attention_bwd_dattn ==
  Kernel(3, 4, Groups(TotalHead), {Set(B(2), {B(0), la_whole(1, 7)})})
linear_attention_bwd_grad_wo ==
  Kernel(3, 4, Groups(Model * d_head), {Set(la_whole(2, 7), {B(0), B(1)})})
linear_attention_bwd_grad_bo ==
  Kernel(2, 3, Groups(Model), {Set(la_whole(1, 8), {B(0)})})
linear_attention_bwd_dnum_denom ==
  Kernel(5, 3, Groups(Tokens),
         {Set(B(3), {B(0), B(1)}), Set(B(4), {B(0), B(1), B(2)})})
linear_attention_bwd_dq_phi ==
  Kernel(5, 3, Groups(TotalHead), {Set(B(4), {B(0), B(1), B(2), B(3)})})
linear_attention_bwd_dz ==
  Kernel(3, 3, Groups(Batch * d_head), {Set(B(2), {B(0), B(1)})})
linear_attention_bwd_dkv ==
  Kernel(3, 3, Groups(Batch * d_head * d_head), {Set(B(2), {B(0), B(1)})})
linear_attention_bwd_dk_phi ==
  Kernel(4, 3, Groups(TotalHead), {Set(B(3), {B(0), B(1), B(2)})})
linear_attention_bwd_dv(bias) ==
  Kernel(4, 4, Groups(TotalHead),
         {Set(B(3), {B(0), B(1), B(2), Pushed(bias)})})
linear_attention_bwd_dqk_raw ==
  Kernel(6, 3, Groups(TotalHead),
         {Set(B(2), {B(0), B(1)}), Set(B(5), {B(3), B(4)})})
linear_attention_bwd_grad_qkv_weights ==
  Kernel(7, 4, Groups(d_head * Model),
         {Set(la_whole(4 + i, 2 * i + 1), {B(i), B(3)}) : i \in 0 .. 2})
linear_attention_bwd_grad_qkv_bias ==
  Kernel(6, 3, Groups(d_head),
         {Set(la_whole(3 + i, 2 * i + 2), {B(i)}) : i \in 0 .. 2})
linear_attention_bwd_self_bias ==
  Kernel(4, 3, Groups(Tokens), {Add(la_whole(3, 9), {B(0), B(1), B(2)})})
linear_attention_bwd_dx ==
  Kernel(7, 4, Groups(TokenTotal),
         {Set(B(6), {B(0), B(1), B(2)}
                      \cup {la_whole(3 + i, 2 * i + 1) : i \in 0 .. 2})})

dispatch_linear_per_token(in, h, w, b, out, total) ==
  run_compute_shader(LinearAttentionPipelines.linear_per_token,
                     linear_attention_linear_per_token(w, b, total),
                     <<in, LAView(h, w), LAView(h, b), out>>, 4, total)

linear_attention_head_forward(h) ==
  LET p == LinearAttentionPipelines
      phi(raw, out) ==
        run_compute_shader(p.phi, linear_attention_phi, <<raw, out>>,
                           1, TotalHead)
  IN Do({Set(BiasHead(h), {LAParam(h, 9)})})
       \o dispatch_linear_per_token(X, h, 1, 2, QRawHead(h), TotalHead)
       \o dispatch_linear_per_token(X, h, 3, 4, KRawHead(h), TotalHead)
       \o dispatch_linear_per_token(X, h, 5, 6, VHead(h), TotalHead)
       \o phi(QRawHead(h), QHead(h)) \o phi(KRawHead(h), KHead(h))
       \o run_compute_shader(p.compute_kvz, linear_attention_compute_kvz,
                             <<KHead(h), VHead(h), KVHead(h), ZHead(h)>>,
                             3, KVZTotal)
       \o New(DenomHead(h))
       \o run_compute_shader(p.denom, linear_attention_denom(BiasHead(h)),
                             <<QHead(h), ZHead(h), DenomHead(h)>>, 4, Tokens)
       \o New(AttnHead(h))
       \o run_compute_shader(p.forward, linear_attention_fwd(BiasHead(h)),
                             <<QHead(h), VHead(h), KVHead(h), DenomHead(h),
                               AttnHead(h)>>, 4, TotalHead)
       \o New(YHead(h))
       \o dispatch_linear_per_token(AttnHead(h), h, 7, 8, YHead(h), TokenTotal)

GpuHead(h) ==
  {QRawHead(h), KRawHead(h), VHead(h), QHead(h), KHead(h), KVHead(h), ZHead(h)}
\* ForwardCache and GpuHeadCache
CachedHead(h) == {DenomHead(h), AttnHead(h), YHead(h)}
ForwardCache(h_soft) == {HSoft} \cup UNION {CachedHead(h) : h \in ActiveHeads(h_soft)}

\* The GPU does not have the layer, only its parameters: max_heads is read off
\* their number, and one head is the least.
run_linear_attention_forward(y) ==
  LET h_soft == compute_h_soft(1, MaxHeads)
      heads == ActiveHeads(h_soft)
  IN Do({Set(HSoft, {HRawParam})})
       \o EachHead(h_soft, linear_attention_head_forward)
       \o Do({Set(y, {HSoft} \cup {YHead(h) : h \in heads})})
       \o InsertCached(ForwardCache(h_soft))

GoH == <<"go_h">>
DAttnH == <<"d_attn_h">>
DNum == <<"d_num">>
DDenom == <<"d_denom">>
DQPhi == <<"d_q_phi">>
DZ == <<"d_z">>
DKV == <<"d_kv">>
DKPhi == <<"d_k_phi">>
DQRaw == <<"d_q_raw">>
DKRaw == <<"d_k_raw">>
DX == <<"d_x_h">>
GiAccum == <<"gi_accum">>
DHRaw == <<"dl_dh_raw_total">>

linear_attention_head_backward(h) ==
  LET p == LinearAttentionPipelines
      call(layout, kernel, bufs, words, total) ==
        run_compute_shader(layout, kernel, bufs, words, total)
  IN Do({Set(BiasHead(h), {LAParam(h, 9)}),
         Add(DHRaw, {GradOut, YHead(h), HSoft}), Set(GoH, {GradOut, HSoft})})
       \o call(p.bwd_dattn, linear_attention_bwd_dattn,
               <<GoH, LAView(h, 7), DAttnH>>, 4, TotalHead)
       \o call(p.bwd_grad_wo, linear_attention_bwd_grad_wo,
               <<GoH, AttnHead(h), LAGradView(h, 7)>>, 4, Model * d_head)
       \o call(p.bwd_grad_bo, linear_attention_bwd_grad_bo,
               <<GoH, LAGradView(h, 8)>>, 3, Model)
       \o call(p.bwd_dnum_denom, linear_attention_bwd_dnum_denom,
               <<DAttnH, DenomHead(h), AttnHead(h), DNum, DDenom>>, 3, Tokens)
       \o call(p.bwd_dq_phi, linear_attention_bwd_dq_phi,
               <<DDenom, ZHead(h), DNum, KVHead(h), DQPhi>>, 3, TotalHead)
       \o call(p.bwd_dz, linear_attention_bwd_dz, <<DDenom, QHead(h), DZ>>,
               3, Batch * d_head)
       \o call(p.bwd_dkv, linear_attention_bwd_dkv, <<DNum, QHead(h), DKV>>,
               3, Batch * d_head * d_head)
       \o call(p.bwd_dk_phi, linear_attention_bwd_dk_phi,
               <<DKV, VHead(h), DZ, DKPhi>>, 3, TotalHead)
       \o call(p.bwd_dv, linear_attention_bwd_dv(BiasHead(h)),
               <<DNum, DKV, KHead(h), DV>>, 4, TotalHead)

\* From the gradients of the features of query and key and of the value on to
\* the parameters of the projections and the input.
linear_attention_head_inputs_backward(h) ==
  LET p == LinearAttentionPipelines
      call(layout, kernel, bufs, words, total) ==
        run_compute_shader(layout, kernel, bufs, words, total)
  IN call(p.bwd_dqk_raw, linear_attention_bwd_dqk_raw,
               <<DQPhi, QRawHead(h), DQRaw, DKPhi, KRawHead(h), DKRaw>>,
               3, TotalHead)
       \o call(p.bwd_grad_qkv_weights, linear_attention_bwd_grad_qkv_weights,
               <<DQRaw, DKRaw, DV, X, LAGradView(h, 1), LAGradView(h, 3),
                 LAGradView(h, 5)>>, 4, d_head * Model)
       \o call(p.bwd_grad_qkv_bias, linear_attention_bwd_grad_qkv_bias,
               <<DQRaw, DKRaw, DV, LAGradView(h, 2), LAGradView(h, 4),
                 LAGradView(h, 6)>>, 3, d_head)
       \o Cleared(LAGradView(h, 9))
       \o call(p.bwd_self_bias, linear_attention_bwd_self_bias,
               <<DDenom, DNum, VHead(h), LAGradView(h, 9)>>, 3, Tokens)
       \o call(p.bwd_dx, linear_attention_bwd_dx,
               <<DQRaw, DKRaw, DV, LAView(h, 1), LAView(h, 3), LAView(h, 5),
                 DX>>, 4, TokenTotal)
       \o Do({Add(GiAccum, {DX})})

run_linear_attention_backward(gi) ==
  LET scratch == <<GoH, DX, DAttnH, DNum, DDenom, DQPhi, DZ, DKV, DKPhi, DV,
                   DQRaw, DKRaw>>
  IN RemoveCached(ForwardCache(compute_h_soft(1, MaxHeads)))
       \o Do({Zero(GiAccum), Zero(DHRaw)})
       \o News(scratch)
       \o EachHead(compute_h_soft(1, MaxHeads),
                   LAMBDA h : linear_attention_head_backward(h)
                                \o linear_attention_head_inputs_backward(h))
       \o Do({Set(gi, {GiAccum})})
       \o Do({Set(HRawGrad, h_soft_derivative(1, MaxHeads, {DHRaw}))})

-----------------------------------------------------------------------------
(* The processor on the GPU *)

attention_forward ==
  [LinearAttention |->
    AllHeads(LAMBDA h :
      News(<<QRawHead(h), KRawHead(h), VHead(h), QHead(h), KHead(h),
            KVHead(h), ZHead(h)>>))
      \o New(Y) \o run_linear_attention_forward(Y)
      \o Keep({X} \cup ForwardCache(compute_h_soft(1, MaxHeads))
                \cup UNION {GpuHead(h)
                              : h \in ActiveHeads(compute_h_soft(1, MaxHeads))}),
  RelativePositionAttention |->
    News(<<Q, K, V, Scores, AttnWeights, Y>>)
      \o run_relative_position_attention_forward(
           X, ParamsView(0, RelativePositionAttention_param_len), Y)
      \o Keep({X, Q, K, V, Scores, AttnWeights}),
  PerFeatureAttention |->
    News(<<QRaw, KRaw, VRaw, QPhi, KPhi, KV, Z, AttnOut, Denom, Y>>)
      \o run_per_feature_attention_forward(
           X, ParamsView(0, PerFeatureAttention_param_len), Y)
      \o Keep(PFAKept \cup {Denom})]

attention_backward ==
  [LinearAttention |-> New(GradIn) \o run_linear_attention_backward(GradIn),
   RelativePositionAttention |->
     New(GradIn)
       \o run_relative_position_attention_backward(
            X, GradOut, ParamsView(0, RelativePositionAttention_param_len),
            GradIn, GradsView(0, RelativePositionAttention_param_len)),
   PerFeatureAttention |->
     New(GradIn)
       \o run_per_feature_attention_backward(
            X, GradOut, ParamsView(0, PerFeatureAttention_param_len), GradIn,
            GradsView(0, PerFeatureAttention_param_len))]

AttentionLayerCode ==
  [LinearAttention |->
     LayerCode(LinearAttention_param_len, LinearAttention_forward_buffered,
               LinearAttention_backward_buffered,
               attention_forward.LinearAttention,
               attention_backward.LinearAttention),
   RelativePositionAttention |->
     LayerCode(RelativePositionAttention_param_len,
               RelativePositionAttention_forward_buffered,
               RelativePositionAttention_backward_buffered,
               attention_forward.RelativePositionAttention,
               attention_backward.RelativePositionAttention),
   PerFeatureAttention |->
     LayerCode(PerFeatureAttention_param_len,
               PerFeatureAttention_forward_buffered,
               PerFeatureAttention_backward_buffered,
               attention_forward.PerFeatureAttention,
               attention_backward.PerFeatureAttention)]

=============================================================================
