--------------------------- MODULE SpaceCompress ---------------------------
(***************************************************************************)
(* AdaptiveSpaceCompress, which only the CPU implements: a row of any      *)
(* length is spread over planes by position, each plane is weighed by how  *)
(* many planes are active, and mapped to the output.  A row without data,  *)
(* or longer than the input is wide, is skipped: its output is zero.       *)
(***************************************************************************)
EXTENDS DeviceProgram

CONSTANTS
  Planes,   \* p_max
  FirstLen  \* the length of the first row of a ragged batch

ASSUME PlanesAssumption ==
  Planes \in Nat \ {0} /\ FirstLen \in Nat

\* The lengths of the rows of a batch, dense or ragged
DenseLens == [r \in 1 .. Batch |-> In]
SampleLens == [DenseLens EXCEPT ![1] = FirstLen]

\* What the rows that are not skipped contribute, each as much.
OfRows(sample_lens, sources) ==
  UNION {sources : r \in {r \in 1 .. Batch : sample_lens[r] \in 1 .. In}}

SpaceCompressLengths == <<Planes, Planes, Planes, Planes * Out, Out, 1>>
SpaceCompressRoles == <<"center", "b_l", "compress", "w", "b", "p_raw">>
SpaceCompress_param_len == Planes * (3 + Out) + Out + 1

SpaceCompressFrom(n) == Starts(SpaceCompressLengths)[n]
SpaceCompressParam(n) ==
  P(SpaceCompressRoles[n], SpaceCompressFrom(n), SpaceCompressLengths[n])
SpaceCompressGrad(n) ==
  G(SpaceCompressRoles[n], SpaceCompressFrom(n), SpaceCompressLengths[n])

PSoft == <<"p_soft">>

\* With one plane there is no transition for p_raw to decide about.
compute_p_soft == IF Planes = 1 THEN {} ELSE {SpaceCompressParam(6)}
compute_p_soft_derivative == compute_p_soft

compute_assign_one == {SpaceCompressParam(1), SpaceCompressParam(2)}
PlaneValue == compute_assign_one \cup {X}
Compressed == PlaneValue \cup {SpaceCompressParam(3), PSoft}

SpaceCompress_forward_impl(sample_lens) ==
  New(PSoft) \o Do({Set(PSoft, compute_p_soft)})
    \o with_cpu_slices_mut(
         {Set(Y, OfRows(sample_lens,
                   Compressed \cup {SpaceCompressParam(4), SpaceCompressParam(5)}))})
    \o Keep({X, PSoft})

\* The whole slice and the gradient of the input are set to zero first; every
\* part is then set.  The bias gets the gradient of every row, skipped or not.
SpaceCompress_backward_impl(sample_lens) ==
  LET d_compressed == {GradOut, SpaceCompressParam(4)}
      d_value == d_compressed \cup {SpaceCompressParam(3), PSoft}
      d_assign == d_value \cup PlaneValue
      d_p_raw == IF compute_p_soft_derivative = {} THEN {}
                 ELSE d_compressed \cup Compressed \cup compute_p_soft_derivative
      rows(sources) == OfRows(sample_lens, sources)
  IN with_cpu_slices_mut(
       {Set(SpaceCompressGrad(5), {GradOut}),
        Set(SpaceCompressGrad(4), rows({GradOut} \cup Compressed)),
        Set(SpaceCompressGrad(3), rows(d_compressed \cup PlaneValue \cup {PSoft})),
        Set(SpaceCompressGrad(2), rows(d_assign)), Set(SpaceCompressGrad(1), rows(d_assign)),
        Set(SpaceCompressGrad(6), rows(d_p_raw)),
        Set(GradIn, rows(d_value \cup compute_assign_one))})

SpaceCompressLayerCode ==
  [AdaptiveSpaceCompress |->
     CpuLayerCode(SpaceCompress_param_len, SpaceCompress_forward_impl(DenseLens),
                  SpaceCompress_backward_impl(DenseLens)),
   AdaptiveSpaceCompressRagged |->
     CpuLayerCode(SpaceCompress_param_len, SpaceCompress_forward_impl(SampleLens),
                  SpaceCompress_backward_impl(SampleLens))]

=============================================================================
