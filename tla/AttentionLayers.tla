-------------------------- MODULE AttentionLayers --------------------------
(***************************************************************************)
(* Attention over the tokens of a row, on both devices.  The forward pass  *)
(* leaves queries, keys, values and what came of them in the context.      *)
(***************************************************************************)
EXTENDS DeviceProgram

CONSTANTS
  SeqLen,  \* tokens of a row
  Model,   \* features of a token, and heads where every feature has one
  DHead     \* features of a head

ASSUME AttentionAssumption ==
  SeqLen \in Nat \ {0} /\ Model \in Nat \ {0} /\ DHead \in Nat \ {0}

Tokens == Batch * SeqLen
TokenTotal == Tokens * Model

Q == <<"q">>
K == <<"k">>
V == <<"v">>
Scores == <<"scores">>
AttnWeights == <<"weights">>
AttnOut == <<"attn_out">>

-----------------------------------------------------------------------------
(* RelativePositionAttention *)

RPARoles == <<"wq", "bq", "wk", "bk", "wv", "bv", "wo", "bo", "rel_bias">>
RPALengths ==
  LET square == Model * Model
  IN <<square, Model, square, Model, square, Model, square, Model,
       2 * SeqLen - 1>>
RPAFrom(n) == Starts(RPALengths)[n]
RelativePositionAttention_param_len ==
  4 * (Model * Model + Model) + (2 * SeqLen - 1)

rpa_part(i, n) == Part(i, RPARoles[n], RPAFrom(n), RPALengths[n])
rpa_whole(i, n) == Part(i, RPARoles[n], 0, RPALengths[n])
RPAParam(n) == P(RPARoles[n], RPAFrom(n), RPALengths[n])
RPAGrad(n) == G(RPARoles[n], RPAFrom(n), RPALengths[n])
RPAParams(which) == {RPAParam(n) : n \in which}
RPAView(n) == ParamsView(RPAFrom(n), RPALengths[n])

RelativePositionAttentionPipelines ==
  [prepare_qkv |-> Layout(5, 12), scores_softmax |-> Layout(5, 12),
   output |-> Layout(5, 12), backward_output_params |-> Layout(6, 12),
   backward_dv |-> Layout(3, 12), backward_dweights |-> Layout(3, 12),
   backward_scores_softmax |-> Layout(3, 12), backward_dq |-> Layout(3, 12),
   backward_dk |-> Layout(3, 12), backward_rel_bias |-> Layout(2, 12),
   backward_input_params |-> Layout(7, 12)]

rpa_fwd_prepare_qkv ==
  Kernel(5, 3, Groups(TokenTotal * 3),
         {Set(B(2), {B(0), rpa_part(1, 1), rpa_part(1, 2)}),
          Set(B(3), {B(0), rpa_part(1, 3), rpa_part(1, 4)}),
          Set(B(4), {B(0), rpa_part(1, 5), rpa_part(1, 6)})})
rpa_fwd_scores_softmax ==
  Kernel(5, 3, Groups(Tokens),
         {Set(B(i), {B(0), B(1), rpa_whole(2, 9)}) : i \in {3, 4}})
rpa_fwd_output ==
  Kernel(5, 3, Groups(TokenTotal),
         {Set(B(4), {B(0), B(1), rpa_whole(2, 7), rpa_whole(3, 8)})})
rpa_bwd_output_params ==
  LET square == Model * Model
      wo_start == 3 * square + 3 * Model
  IN Kernel(6, 3, Groups(Tokens),
            {Set(B(4), {B(0), rpa_whole(2, 7)}),
             Add(Part(5, "wo", wo_start, square), {B(0), B(1)}),
             Add(Part(5, "bo", wo_start + square, Model), {B(0)})})
\* Products of two of the buffers; so are dq, dk, and the softmax's backward.
rpa_bwd_product(total) == Kernel(3, 3, Groups(total), {Set(B(2), {B(0), B(1)})})
rpa_bwd_rel_bias ==
  Kernel(2, 3, Groups(Tokens * SeqLen), {Add(rpa_whole(1, 9), {B(0)})})
rpa_bwd_input_params ==
  Kernel(7, 3, Groups(TokenTotal),
         {Set(B(5), {B(1), B(2), B(3)} \cup {rpa_part(4, n) : n \in {1, 3, 5}})}
           \cup {Add(rpa_part(6, 2 * i - 1), {B(0), B(i)}) : i \in 1 .. 3}
           \cup {Add(rpa_part(6, 2 * i), {B(i)}) : i \in 1 .. 3})

run_relative_position_attention_forward(x, params, y) ==
  LET p == RelativePositionAttentionPipelines
  IN run_compute_shader(p.prepare_qkv, rpa_fwd_prepare_qkv,
                        <<x, params, Q, K, V>>, 3, TokenTotal * 3)
       \o run_compute_shader(p.scores_softmax, rpa_fwd_scores_softmax,
                             <<Q, K, RPAView(9), Scores, AttnWeights>>,
                             3, Tokens)
       \o run_compute_shader(p.output, rpa_fwd_output,
                             <<AttnWeights, V, RPAView(7), RPAView(8), y>>,
                             3, TokenTotal)

Identity == <<"identity">>
ZeroBias == <<"zero_b_o">>
DAttnOut == <<"d_attn_out">>
DWeights == <<"d_weights">>
DScores == <<"d_scores">>
DQ == <<"d_q">>
DK == <<"d_k">>
DV == <<"d_v">>

\* The output of the attention is not in the context: the kernel of the
\* forward pass gives it again, with the identity for Wo.
run_relative_position_attention_backward(x, go, params, gi, gparams) ==
  LET p == RelativePositionAttentionPipelines
      temps == <<AttnOut, DAttnOut, DWeights, DScores, DQ, DK, DV>>
      product(layout, a, b, out, total) ==
        run_compute_shader(layout, rpa_bwd_product(total), <<a, b, out>>,
                           3, total)
  IN Cleared(gparams) \o Temps(temps)
       \o New(Identity) \o Do({Zero(Identity)})
       \o New(ZeroBias) \o Do({Zero(ZeroBias)})
       \o run_compute_shader(p.output, rpa_fwd_output,
                             <<AttnWeights, V, Identity, ZeroBias, AttnOut>>,
                             3, TokenTotal)
       \o run_compute_shader(p.backward_output_params, rpa_bwd_output_params,
                             <<go, AttnOut, RPAView(7), RPAView(8), DAttnOut,
                               gparams>>, 3, Tokens)
       \o product(p.backward_dv, DAttnOut, AttnWeights, DV, TokenTotal)
       \o product(p.backward_dweights, DAttnOut, V, DWeights, Tokens * SeqLen)
       \o product(p.backward_scores_softmax, AttnWeights, DWeights, DScores,
                  Tokens)
       \o product(p.backward_dq, DScores, K, DQ, TokenTotal)
       \o product(p.backward_dk, DScores, Q, DK, TokenTotal)
       \o run_compute_shader(p.backward_rel_bias, rpa_bwd_rel_bias,
                             <<DScores, GradsView(RPAFrom(9), RPALengths[9])>>,
                             3, Tokens * SeqLen)
       \o run_compute_shader(p.backward_input_params, rpa_bwd_input_params,
                             <<x, DQ, DK, DV, params, gi, gparams>>,
                             3, TokenTotal)
       \o Frees(temps)

RelativePositionAttention_forward_buffered ==
  LET q == {X} \cup RPAParams({1, 2})
      k == {X} \cup RPAParams({3, 4})
      v == {X} \cup RPAParams({5, 6})
      scores == q \cup k \cup {RPAParam(9)}
      attn == scores \cup v
  IN Temp(Scores)
       \o with_cpu_slices_mut(
            {Set(Q, q), Set(K, k), Set(V, v), Set(Scores, scores),
             Set(AttnWeights, scores), Set(AttnOut, attn),
             Set(Y, attn \cup RPAParams({7, 8}))})
       \o Free(Scores)
       \o Keep({X, Q, K, V, AttnWeights, AttnOut})
\* Copies of the context's buffers, then one step under the lock.
RelativePositionAttention_backward_buffered ==
  LET d_attn_out == {GradOut, RPAParam(7)}
      d_v == d_attn_out \cup {AttnWeights}
      d_scores == d_attn_out \cup {V, AttnWeights}
      d_q == d_scores \cup {K}
      d_k == d_scores \cup {Q}
  IN with_cpu_slices_mut(
       {Set(GradIn, d_q \cup d_k \cup d_v \cup RPAParams({1, 3, 5})),
        Set(RPAGrad(1), d_q \cup {X}), Set(RPAGrad(2), d_q),
        Set(RPAGrad(3), d_k \cup {X}), Set(RPAGrad(4), d_k),
        Set(RPAGrad(5), d_v \cup {X}), Set(RPAGrad(6), d_v),
        Set(RPAGrad(7), {GradOut, AttnOut}), Set(RPAGrad(8), {GradOut}),
        Set(RPAGrad(9), d_scores)})

-----------------------------------------------------------------------------
(* PerFeatureAttention: every feature is a head with parameters of its own. *)
(* A buffer below stands for that of all heads.                             *)

PFARoles == <<"wq", "bq", "wk", "bk", "wv", "bv", "wo", "bo", "self_bias">>
PFALengths ==
  <<2 * DHead, DHead, 2 * DHead, DHead, 2 * DHead, DHead, DHead, 1, 1>>
head_param_count == 10 * DHead + 2
PerFeatureAttention_param_len == Model * head_param_count

\* The parts of a role in the slices of all heads.
PFAFrom(h, n) == h * head_param_count + Starts(PFALengths)[n]
pfa_parts(i, which) ==
  {Part(i, PFARoles[n], PFAFrom(h, n), PFALengths[n])
     : h \in 0 .. Model - 1, n \in which}
PFAParams(which) ==
  {P(PFARoles[n], PFAFrom(h, n), PFALengths[n])
     : h \in 0 .. Model - 1, n \in which}
pfa_add(i, n, from) == {Add(part, from) : part \in pfa_parts(i, {n})}
PFASet(n, from) ==
  {Set(G(PFARoles[n], PFAFrom(h, n), PFALengths[n]), from)
     : h \in 0 .. Model - 1}

QRaw == <<"q_raw">>
KRaw == <<"k_raw">>
VRaw == <<"v_raw">>
QPhi == <<"q_phi">>
KPhi == <<"k_phi">>
KV == <<"kv">>
Z == <<"z">>
Denom == <<"denom">>

PFAKept == {X, QRaw, KRaw, VRaw, QPhi, KPhi, KV, Z, AttnOut}

PerFeatureAttentionPipelines ==
  [fwd_qkv |-> Layout(7, 16), fwd_kvz |-> Layout(4, 16),
   fwd_out |-> Layout(8, 16), bwd_out |-> Layout(9, 16),
   bwd_grad_kvz |-> Layout(5, 16), bwd_grad_q_phi |-> Layout(5, 16),
   bwd_grad_v |-> Layout(5, 16), bwd_qk_raw |-> Layout(8, 16),
   bwd_qkv_params |-> Layout(5, 16), bwd_grad_x |-> Layout(5, 16)]

DhTotal == TokenTotal * DHead
ZTotal == Batch * Model * DHead

pfa_fwd_qkv ==
  Kernel(7, 4, Groups(TokenTotal),
         {Set(B(i), {B(0)} \cup pfa_parts(1, {1, 2})) : i \in {2, 5}}
           \cup {Set(B(i), {B(0)} \cup pfa_parts(1, {3, 4})) : i \in {3, 6}}
           \cup {Set(B(4), {B(0)} \cup pfa_parts(1, {5, 6}))})
pfa_fwd_kvz ==
  Kernel(4, 4, Groups(Batch * Model * (DHead * DHead + DHead)),
         {Set(B(2), {B(0), B(1)}), Set(B(3), {B(0)})})
pfa_fwd_out ==
  LET attn == {B(0), B(1), B(2), B(3)} \cup pfa_parts(4, {9})
  IN Kernel(8, 4, Groups(TokenTotal),
            {Set(B(5), attn \cup pfa_parts(4, {7, 8})),
             Set(B(6), {B(0), B(3)} \cup pfa_parts(4, {9})),
             Set(B(7), attn)})
pfa_bwd_out ==
  LET dattn == {B(0)} \cup pfa_parts(4, {7})
  IN Kernel(9, 4, Groups(TokenTotal),
            {Set(B(6), dattn), Set(B(7), dattn \cup {B(3)}),
             Set(B(8), dattn \cup {B(1), B(3)})}
              \cup pfa_add(5, 7, {B(0), B(1)}) \cup pfa_add(5, 8, {B(0)})
              \cup pfa_add(5, 9, dattn \cup {B(1), B(2), B(3)}))
pfa_bwd_grad_kvz ==
  Kernel(5, 4, Groups(ZTotal), {Set(B(3), {B(0), B(2)}), Set(B(4), {B(1), B(2)})})
pfa_bwd_grad_q_phi ==
  Kernel(5, 4, Groups(DhTotal), {Set(B(4), {B(0), B(1), B(2), B(3)})})
pfa_bwd_grad_v ==
  Kernel(5, 4, Groups(DhTotal),
         {Set(B(4), {B(0), B(1), B(2)} \cup pfa_parts(3, {9}))})
pfa_bwd_qk_raw ==
  Kernel(8, 4, Groups(DhTotal),
         {Set(B(6), {B(0), B(4)}), Set(B(7), {B(1), B(2), B(3), B(5)})})
pfa_bwd_qkv_params ==
  Kernel(5, 4, Groups(ZTotal),
         UNION {pfa_add(4, 2 * i + 1, {B(i), B(3)}) \cup pfa_add(4, 2 * i + 2, {B(i)})
                  : i \in 0 .. 2})
pfa_bwd_grad_x ==
  Kernel(5, 4, Groups(TokenTotal),
         {Set(B(4), {B(0), B(1), B(2)} \cup pfa_parts(3, {1, 3, 5}))})

pfa_call(layout, kernel, bufs, total) ==
  run_compute_shader(layout, kernel, bufs, 4, total)

run_per_feature_attention_forward(x, params, y) ==
  LET p == PerFeatureAttentionPipelines
  IN pfa_call(p.fwd_qkv, pfa_fwd_qkv,
              <<x, params, QRaw, KRaw, VRaw, QPhi, KPhi>>, TokenTotal)
       \o pfa_call(p.fwd_kvz, pfa_fwd_kvz, <<KPhi, VRaw, KV, Z>>,
                   Batch * Model * (DHead * DHead + DHead))
       \o pfa_call(p.fwd_out, pfa_fwd_out,
                   <<QPhi, VRaw, KV, Z, params, y, Denom, AttnOut>>, TokenTotal)

GAttn == <<"grad_attn">>
GNum == <<"grad_num">>
GDenom == <<"grad_denom">>
GKV == <<"grad_kv">>
GZ == <<"grad_z">>
GQPhi == <<"grad_q_phi">>
GV == <<"grad_v_raw">>
GQ == <<"grad_q_raw">>
GK == <<"grad_k_raw">>

run_per_feature_attention_backward(x, go, params, gi, gparams) ==
  LET p == PerFeatureAttentionPipelines
      temps == <<GAttn, GNum, GDenom, GKV, GZ, GQPhi, GV, GQ, GK>>
  IN Temps(temps)
       \o pfa_call(p.bwd_out, pfa_bwd_out,
                   <<go, AttnOut, VRaw, Denom, params, gparams, GAttn, GNum,
                     GDenom>>, TokenTotal)
       \o pfa_call(p.bwd_grad_kvz, pfa_bwd_grad_kvz,
                   <<GNum, GDenom, QPhi, GKV, GZ>>, ZTotal)
       \o pfa_call(p.bwd_grad_q_phi, pfa_bwd_grad_q_phi,
                   <<GNum, GDenom, KV, Z, GQPhi>>, DhTotal)
       \o pfa_call(p.bwd_grad_v, pfa_bwd_grad_v,
                   <<GNum, GKV, KPhi, params, GV>>, DhTotal)
       \o pfa_call(p.bwd_qk_raw, pfa_bwd_qk_raw,
                   <<GQPhi, GKV, GZ, VRaw, QRaw, KRaw, GQ, GK>>, DhTotal)
       \o pfa_call(p.bwd_qkv_params, pfa_bwd_qkv_params,
                   <<GQ, GK, GV, x, gparams>>, ZTotal)
       \o pfa_call(p.bwd_grad_x, pfa_bwd_grad_x,
                   <<GQ, GK, GV, params, gi>>, TokenTotal)
       \o Frees(temps)

HeadX == <<"head_x">>
HeadDx == <<"head_dx">>
SelfBias == <<"self_bias">>

\* The parameters are copied; the self biases stay in the context.
PerFeatureAttention_forward_buffered ==
  LET q == {X} \cup PFAParams({1, 2})
      k == {X} \cup PFAParams({3, 4})
      v == {X} \cup PFAParams({5, 6})
      attn == q \cup k \cup v \cup {SelfBias}
  IN Do({Set(SelfBias, PFAParams({9}))})
       \o with_cpu_slices_mut(
            {Set(HeadX, {X}), Set(HeadDx, {X}), Set(QRaw, q), Set(QPhi, q),
             Set(KRaw, k), Set(KPhi, k), Set(VRaw, v), Set(KV, k \cup v),
             Set(Z, k), Set(AttnOut, attn), Set(Y, attn \cup PFAParams({7, 8}))})
       \o Keep(PFAKept \cup {HeadX, HeadDx, SelfBias})
PerFeatureAttention_backward_buffered ==
  LET gattn == {GradOut} \cup PFAParams({7})
      dnum == gattn \cup {SelfBias, QPhi, Z}
      ddenom == dnum \cup {AttnOut}
      gkv == dnum \cup {QPhi}
      gv == dnum \cup gkv \cup {SelfBias, KPhi}
      gk == ddenom \cup gkv \cup {QPhi, VRaw, KRaw}
      gq == ddenom \cup {KV, Z, QRaw}
      u == {HeadX, HeadDx}
  IN Do({Set(GradIn, gq \cup gk \cup gv \cup PFAParams({1, 3, 5}))}
          \cup PFASet(1, gq \cup u) \cup PFASet(2, gq)
          \cup PFASet(3, gk \cup u) \cup PFASet(4, gk)
          \cup PFASet(5, gv \cup u) \cup PFASet(6, gv)
          \cup PFASet(7, {GradOut, AttnOut}) \cup PFASet(8, {GradOut})
          \cup PFASet(9, ddenom \cup {VRaw}))

=============================================================================
