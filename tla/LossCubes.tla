------------------------------ MODULE LossCubes ------------------------------
(***************************************************************************)
(* Losses are chains of cubes.  The first takes predictions and targets,   *)
(* each of the others what the one before it left.  Every cube is written  *)
(* twice, as a loop and as a pair of shaders, and the chain itself is run  *)
(* twice: with copies of everything on the CPU, in place on the GPU.       *)
(***************************************************************************)
EXTENDS DeviceProgram

\* Predictions and targets in one buffer, columns of the one behind those of
\* the other: two parts.
Columns(v) == <<Nth(v, 1), Nth(v, 2)>>

-----------------------------------------------------------------------------
(* Cubes on the CPU: in, what forward got, go and gi *)

Sub_forward(in, out) == Do({Set(out, {in[1], in[2]})})
Sub_backward(in, go, gi) == Do({Set(gi[1], {go}), Set(gi[2], {go})})
Mul_forward(in, out) == Do({Set(out, {in[1], in[2]})})
Mul_backward(in, go, gi) ==
  Do({Set(gi[1], {go, in[2]}), Set(gi[2], {go, in[1]})})
AbsDiff_forward(in, out) == Do({Set(out, {in[1], in[2]})})
AbsDiff_backward(in, go, gi) ==
  Do({Set(gi[1], {go, in[1], in[2]}), Set(gi[2], {go, in[1], in[2]})})
CrossEntropy_forward(in, out) == Do({Set(out, {in[1], in[2]})})
CrossEntropy_backward(in, go, gi) ==
  Do({Set(gi[1], {go, in[1], in[2]}), Zero(gi[2])})

Square_forward(in, out) == Do({Set(out, {in})})
Square_backward(in, go, gi) == Do({Set(gi, {in, go})})
Abs_forward(in, out) == Do({Set(out, {in})})
Abs_backward(in, go, gi) == Do({Set(gi, {in, go})})
Log_forward(in, out) == Do({Set(out, {in})})
Log_backward(in, go, gi) == Do({Set(gi, {in, go})})
Log1p_forward(in, out) == Do({Set(out, {in})})
Log1p_backward(in, go, gi) == Do({Set(gi, {in, go})})
Neg_forward(in, out) == Do({Set(out, {in})})
Neg_backward(in, go, gi) == Do({Set(gi, {go})})
AddScalar_forward(in, out) == Do({Set(out, {in})})
AddScalar_backward(in, go, gi) == Do({Set(gi, {go})})
SumColumns_forward(in, out) == Do({Set(out, {in})})
SumColumns_backward(in, go, gi) == Do({Set(gi, {go})})

forward_buffered(cube, in, out) ==
  CASE cube = "Sub" -> Sub_forward(in, out)
    [] cube = "Mul" -> Mul_forward(in, out)
    [] cube = "AbsDiff" -> AbsDiff_forward(in, out)
    [] cube = "CrossEntropy" -> CrossEntropy_forward(in, out)
    [] cube = "Square" -> Square_forward(in, out)
    [] cube = "Abs" -> Abs_forward(in, out)
    [] cube = "Log" -> Log_forward(in, out)
    [] cube = "Log1p" -> Log1p_forward(in, out)
    [] cube = "Neg" -> Neg_forward(in, out)
    [] cube = "AddScalar" -> AddScalar_forward(in, out)
    [] cube = "SumColumns" -> SumColumns_forward(in, out)

backward_buffered(cube, in, go, gi) ==
  CASE cube = "Sub" -> Sub_backward(in, go, gi)
    [] cube = "Mul" -> Mul_backward(in, go, gi)
    [] cube = "AbsDiff" -> AbsDiff_backward(in, go, gi)
    [] cube = "CrossEntropy" -> CrossEntropy_backward(in, go, gi)
    [] cube = "Square" -> Square_backward(in, go, gi)
    [] cube = "Abs" -> Abs_backward(in, go, gi)
    [] cube = "Log" -> Log_backward(in, go, gi)
    [] cube = "Log1p" -> Log1p_backward(in, go, gi)
    [] cube = "Neg" -> Neg_backward(in, go, gi)
    [] cube = "AddScalar" -> AddScalar_backward(in, go, gi)
    [] cube = "SumColumns" -> SumColumns_backward(in, go, gi)

-----------------------------------------------------------------------------
(* The chain on the CPU *)

clone_handle_data(src, copy) == NewFrom(copy, {src})
clone_columns(src, copy) ==
  clone_handle_data(Columns(src)[1], Columns(copy)[1])
    \o clone_handle_data(Columns(src)[2], Columns(copy)[2])

\* What cube k got and left, and the gradient of what it got: the first got
\* predictions and targets.
Got(k) == IF k = 1 THEN Columns("inp") ELSE Nth("inp", k + 1)
Left(k) == Nth("out", k)
GradOf(k) == IF k = 1 THEN Columns("grad_full") ELSE Nth("grad", k)

\* Copies of input and output are kept for the way back: current goes on.
forward_batch_buffered(cubes) ==
  clone_columns("full", "current")
    \o New(Left(1)) \o forward_buffered(cubes[1], Columns("current"), Left(1))
    \o clone_columns("current", "inp")
    \o FlattenSeq(
         [n \in 1 .. Len(cubes) - 1 |->
            New(Left(n + 1)) \o forward_buffered(cubes[n + 1], Left(n), Left(n + 1))
              \o clone_handle_data(Left(n), Got(n + 1))])

backward_batch_buffered(cubes, grad_out) ==
  LET GradLeft(k) == IF k = Len(cubes) THEN <<"grad">> ELSE GradOf(k + 1)
      Step(k) ==
        (IF k = 1 THEN News(GradOf(1)) ELSE New(GradOf(k)))
          \o backward_buffered(cubes[k], Got(k), GradLeft(k), GradOf(k))
  IN clone_handle_data(grad_out, <<"grad">>)
       \o FlattenSeq([n \in 1 .. Len(cubes) |-> Step(Len(cubes) + 1 - n)])

compute_loss_forward(cubes) ==
  News(Columns("full"))
    \o Do({Set(Columns("full")[1], {X}), Set(Columns("full")[2], {Target})})
    \o forward_batch_buffered(cubes)
    \o NewFrom(Y, {Left(Len(cubes))})
    \o Keep({Columns("inp")[1], Columns("inp")[2]}
              \cup {Got(k) : k \in 2 .. Len(cubes)})

\* The gradient of the loss is 1 in every row: GradOut.
compute_loss_backward(cubes) ==
  NewFrom(<<"grad_out">>, {GradOut})
    \o backward_batch_buffered(cubes, <<"grad_out">>)
    \o NewFrom(GradIn, {GradOf(1)[1]})

=============================================================================
