------------------------------ MODULE LossLayers ------------------------------
(***************************************************************************)
(* Losses on the GPU, and all losses as the last layer of a segment, with  *)
(* the targets as a second input.  The code computes the value of a loss   *)
(* and its gradient in one job; here they are the two passes of one layer. *)
(***************************************************************************)
EXTENDS LossCubes

-----------------------------------------------------------------------------
(* Pipelines, shaders and dispatches of the cubes; total: rows * columns *)

SubPipelines == [forward |-> Layout(3, 4), backward |-> Layout(3, 4)]
sub_fwd(total) == Kernel(3, 1, Groups(total), {Set(B(2), {B(0), B(1)})})
sub_bwd(total) ==
  Kernel(3, 1, Groups(total), {Set(B(1), {B(0)}), Set(B(2), {B(0)})})
run_sub_forward(a, b, out, total) ==
  run_compute_shader(SubPipelines.forward, sub_fwd(total), <<a, b, out>>, 1, total)
run_sub_backward(go, ga, gb, total) ==
  run_compute_shader(SubPipelines.backward, sub_bwd(total), <<go, ga, gb>>, 1, total)

MulPipelines == [forward |-> Layout(3, 4), backward |-> Layout(5, 4)]
mul_fwd(total) == Kernel(3, 1, Groups(total), {Set(B(2), {B(0), B(1)})})
mul_bwd(total) ==
  Kernel(5, 1, Groups(total), {Set(B(3), {B(2), B(1)}), Set(B(4), {B(2), B(0)})})
run_mul_forward(a, b, out, total) ==
  run_compute_shader(MulPipelines.forward, mul_fwd(total), <<a, b, out>>, 1, total)
run_mul_backward(a, b, go, ga, gb, total) ==
  run_compute_shader(MulPipelines.backward, mul_bwd(total),
                     <<a, b, go, ga, gb>>, 1, total)

AbsDiffPipelines == [forward |-> Layout(3, 4), backward |-> Layout(5, 4)]
absdiff_fwd(total) == Kernel(3, 1, Groups(total), {Set(B(2), {B(0), B(1)})})
absdiff_bwd(total) ==
  Kernel(5, 1, Groups(total),
         {Set(B(3), {B(0), B(1), B(2)}), Set(B(4), {B(0), B(1), B(2)})})
run_absdiff_forward(a, b, out, total) ==
  run_compute_shader(AbsDiffPipelines.forward, absdiff_fwd(total),
                     <<a, b, out>>, 1, total)
run_absdiff_backward(a, b, go, ga, gb, total) ==
  run_compute_shader(AbsDiffPipelines.backward, absdiff_bwd(total),
                     <<a, b, go, ga, gb>>, 1, total)

\* One invocation for each row: local_size_x is 1 here.
CrossEntropyPipelines == [forward |-> Layout(2, 8), backward |-> Layout(3, 8)]
cross_entropy_fwd(rows) == Kernel(2, 2, rows, {Set(B(1), {Slot(0, 1), Slot(0, 2)})})
cross_entropy_bwd(rows) ==
  Kernel(3, 2, rows,
         {Set(Slot(2, 1), {Slot(0, 1), Slot(0, 2), B(1)}), Zero(Slot(2, 2))})
run_cross_entropy_forward(in, out) ==
  run_compute_shader_with_dispatch(CrossEntropyPipelines.forward,
    cross_entropy_fwd(Batch), <<in, out>>, 2, Batch)
run_cross_entropy_backward(in, go, gi) ==
  run_compute_shader_with_dispatch(CrossEntropyPipelines.backward,
    cross_entropy_bwd(Batch), <<in, go, gi>>, 2, Batch)

SquarePipelines == [forward |-> Layout(2, 4), backward |-> Layout(3, 4)]
square_fwd(total) == Kernel(2, 1, Groups(total), {Set(B(1), {B(0)})})
square_bwd(total) == Kernel(3, 1, Groups(total), {Set(B(2), {B(0), B(1)})})
run_square_forward(in, out, total) ==
  run_compute_shader(SquarePipelines.forward, square_fwd(total), <<in, out>>, 1, total)
run_square_backward(in, go, gi, total) ==
  run_compute_shader(SquarePipelines.backward, square_bwd(total),
                     <<in, go, gi>>, 1, total)

AbsPipelines == [forward |-> Layout(2, 4), backward |-> Layout(3, 4)]
abs_fwd(total) == Kernel(2, 1, Groups(total), {Set(B(1), {B(0)})})
abs_bwd(total) == Kernel(3, 1, Groups(total), {Set(B(2), {B(0), B(1)})})
run_abs_forward(in, out, total) ==
  run_compute_shader(AbsPipelines.forward, abs_fwd(total), <<in, out>>, 1, total)
run_abs_backward(in, go, gi, total) ==
  run_compute_shader(AbsPipelines.backward, abs_bwd(total), <<in, go, gi>>, 1, total)

LogPipelines == [forward |-> Layout(2, 4), backward |-> Layout(3, 4)]
log_fwd(total) == Kernel(2, 1, Groups(total), {Set(B(1), {B(0)})})
log_bwd(total) == Kernel(3, 1, Groups(total), {Set(B(2), {B(0), B(1)})})
run_log_forward(in, out, total) ==
  run_compute_shader(LogPipelines.forward, log_fwd(total), <<in, out>>, 1, total)
run_log_backward(in, go, gi, total) ==
  run_compute_shader(LogPipelines.backward, log_bwd(total), <<in, go, gi>>, 1, total)

Log1pPipelines == [forward |-> Layout(2, 4), backward |-> Layout(3, 4)]
log1p_fwd(total) == Kernel(2, 1, Groups(total), {Set(B(1), {B(0)})})
log1p_bwd(total) == Kernel(3, 1, Groups(total), {Set(B(2), {B(0), B(1)})})
run_log1p_forward(in, out, total) ==
  run_compute_shader(Log1pPipelines.forward, log1p_fwd(total), <<in, out>>, 1, total)
run_log1p_backward(in, go, gi, total) ==
  run_compute_shader(Log1pPipelines.backward, log1p_bwd(total),
                     <<in, go, gi>>, 1, total)

NegPipelines == [forward |-> Layout(2, 4), backward |-> Layout(2, 4)]
neg_fwd(total) == Kernel(2, 1, Groups(total), {Set(B(1), {B(0)})})
neg_bwd(total) == Kernel(2, 1, Groups(total), {Set(B(1), {B(0)})})
run_neg_forward(in, out, total) ==
  run_compute_shader(NegPipelines.forward, neg_fwd(total), <<in, out>>, 1, total)
run_neg_backward(go, gi, total) ==
  run_compute_shader(NegPipelines.backward, neg_bwd(total), <<go, gi>>, 1, total)

AddScalarPipelines == [forward |-> Layout(2, 8), backward |-> Layout(2, 4)]
addscalar_fwd(total) == Kernel(2, 2, Groups(total), {Set(B(1), {B(0)})})
addscalar_bwd(total) == Kernel(2, 1, Groups(total), {Set(B(1), {B(0)})})
run_addscalar_forward(in, out, total) ==
  run_compute_shader(AddScalarPipelines.forward, addscalar_fwd(total),
                     <<in, out>>, 2, total)
run_addscalar_backward(go, gi, total) ==
  run_compute_shader(AddScalarPipelines.backward, addscalar_bwd(total),
                     <<go, gi>>, 1, total)

\* Backward dispatches a workgroup for each row, and as many again in the
\* second dimension, which the shader does not look at.
SumColumnsPipelines == [forward |-> Layout(2, 8), backward |-> Layout(2, 8)]
sum_columns_fwd(rows, cols) == Kernel(2, 2, Groups(rows), {Set(B(1), {B(0)})})
sum_columns_bwd(rows, cols) == Kernel(2, 2, Groups(rows * cols), {Set(B(1), {B(0)})})
run_sum_columns_forward(in, out, cols) ==
  run_compute_shader_with_dispatch(SumColumnsPipelines.forward,
    sum_columns_fwd(Batch, cols), <<in, out>>, 2, Batch)
run_sum_columns_backward(go, gi, cols) ==
  run_compute_shader_with_dispatch(SumColumnsPipelines.backward,
    sum_columns_bwd(Batch, cols), <<go, gi>>, 2, Batch)

-----------------------------------------------------------------------------
(* The chain on the GPU *)

\* Predictions and targets next to each other, and the gradient of both.
Combined == Columns("combined")
GradCombined == Columns("grad_combined")

handle_first_cube_forward(cube, out, total) ==
  CASE cube = "Sub" -> New(out) \o run_sub_forward(X, Target, out, total)
    [] cube = "Mul" -> New(out) \o run_mul_forward(X, Target, out, total)
    [] cube = "AbsDiff" -> New(out) \o run_absdiff_forward(X, Target, out, total)
    [] cube = "CrossEntropy" ->
         News(Combined)
           \o Do({Set(Combined[1], {X})}) \o Do({Set(Combined[2], {Target})})
           \o New(out) \o run_cross_entropy_forward(<<"combined">>, out)

handle_unary_cube_forward(cube, in, out, cols) ==
  LET total == Batch * cols
  IN New(out) \o
     CASE cube = "Square" -> run_square_forward(in, out, total)
       [] cube = "Abs" -> run_abs_forward(in, out, total)
       [] cube = "Log1p" -> run_log1p_forward(in, out, total)
       [] cube = "Log" -> run_log_forward(in, out, total)
       [] cube = "Neg" -> run_neg_forward(in, out, total)
       [] cube = "AddScalar" -> run_addscalar_forward(in, out, total)
       [] cube = "SumColumns" -> run_sum_columns_forward(in, out, cols)

\* ga, the gradient of the predictions, is what is returned.
handle_first_cube_backward(cube, go, total) ==
  LET gb == <<"gb">>
  IN CASE cube = "Sub" ->
            News(<<GradIn, gb>>) \o run_sub_backward(go, GradIn, gb, total)
       [] cube = "Mul" ->
            News(<<GradIn, gb>>) \o run_mul_backward(X, Target, go, GradIn, gb, total)
       [] cube = "AbsDiff" ->
            News(<<GradIn, gb>>)
              \o run_absdiff_backward(X, Target, go, GradIn, gb, total)
       [] cube = "CrossEntropy" ->
            News(GradCombined)
              \o run_cross_entropy_backward(<<"combined">>, go, <<"grad_combined">>)
              \o NewFrom(GradIn, {GradCombined[1]})

handle_unary_cube_backward(cube, in, go, gi, cols) ==
  LET total == Batch * cols
  IN New(gi) \o
     CASE cube = "Square" -> run_square_backward(in, go, gi, total)
       [] cube = "Abs" -> run_abs_backward(in, go, gi, total)
       [] cube = "Log1p" -> run_log1p_backward(in, go, gi, total)
       [] cube = "Log" -> run_log_backward(in, go, gi, total)
       [] cube = "Neg" -> run_neg_backward(go, gi, total)
       [] cube = "AddScalar" -> run_addscalar_backward(go, gi, total)
       [] cube = "SumColumns" -> run_sum_columns_backward(go, gi, cols)

\* compute_loss_gpu_buffered_handle up to the download of the losses ...
compute_loss_gpu_forward(cubes, cols) ==
  LET Buffer(k) == Nth("buf", k)
  IN handle_first_cube_forward(cubes[1], Buffer(1), Batch * cols)
       \o FlattenSeq([n \in 1 .. Len(cubes) - 1 |->
            handle_unary_cube_forward(cubes[n + 1], Buffer(n), Buffer(n + 1), cols)])
       \o NewFrom(Y, {Buffer(Len(cubes))})
       \o Keep({X, Target, Combined[1], Combined[2]}
                 \cup {Buffer(k) : k \in DOMAIN cubes})

\* ... and from the gradient of 1 back to that of the predictions.
compute_loss_gpu_backward(cubes, cols) ==
  LET Buffer(k) == Nth("buf", k)
      Grad(k) == Nth("grad", k)   \* of what cube k left
      Back(k) ==
        handle_unary_cube_backward(cubes[k], Buffer(k - 1), Grad(k), Grad(k - 1), cols)
  IN NewFrom(Grad(Len(cubes)), {GradOut})
       \o FlattenSeq([n \in 1 .. Len(cubes) - 1 |-> Back(Len(cubes) + 1 - n)])
       \o handle_first_cube_backward(cubes[1], Grad(1), Batch * cols)

-----------------------------------------------------------------------------
(* The losses of the examples, one of the cubes they leave out, and one of *)
(* them on rows that are longer than a workgroup                           *)

LossChains ==
  [MSE |-> <<"Sub", "Square", "SumColumns">>,
   CrossEntropyLoss |-> <<"CrossEntropy">>,
   DifferenceLoss |-> <<"Sub", "Abs", "AddScalar", "Log1p", "SumColumns">>,
   SmoothLoss |-> <<"AbsDiff">>,
   LogProductLoss |-> <<"Mul", "Log", "Neg", "SumColumns">>,
   WideMSE |-> <<"Sub", "Square", "SumColumns">>]

\* Chains that end without a sum of columns are used with one column.
Width(l) ==
  CASE l = "WideMSE" -> Out
    [] l \in {"MSE", "DifferenceLoss", "LogProductLoss"} -> In
    [] OTHER -> 1

LossLayerCode ==
  [l \in DOMAIN LossChains |->
     LayerCode(0, compute_loss_forward(LossChains[l]),
                  compute_loss_backward(LossChains[l]),
                  compute_loss_gpu_forward(LossChains[l], Width(l)),
                  compute_loss_gpu_backward(LossChains[l], Width(l)))]

=============================================================================
