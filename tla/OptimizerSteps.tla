--------------------------- MODULE OptimizerSteps ---------------------------
(***************************************************************************)
(* The optimizer of one buffer of parameters: a chain of cubes, built from *)
(* its description when the buffer is first modified, and a state for each *)
(* cube that keeps one.  Of a gradient we keep the batches that went into  *)
(* it and, phase by phase, what went over it, of a state the               *)
(* gradients it has seen, of the parameters those subtracted from them.    *)
(***************************************************************************)
EXTENDS Naturals, Sequences, Maps

CubeDescs == {"ScaleGradient", "AddWeightDecay", "Momentum", "NesterovMomentum",
              "GradientClip", "Adam", "ApplyUpdate"}

state_size_per_param(cube) ==
  CASE cube \in {"Momentum", "NesterovMomentum"} -> 1
    [] cube = "Adam" -> 2
    [] OTHER -> 0

\* The assertions of build_chain: one ApplyUpdate, and it is the last cube.
Buildable(desc) ==
  /\ Len(SelectSeq(desc, LAMBDA cube : cube = "ApplyUpdate")) = 1
  /\ desc[Len(desc)] = "ApplyUpdate"

\* new_buffered_handle
NewExpr(desc) ==
  [chain |-> desc, step_counter |-> 0, states |-> [n \in DOMAIN desc |-> <<>>]]

\* ensure_optimizer_expr: the map of expressions once buffer i has one.
Ensured(exprs, i, desc) ==
  IF i \in DOMAIN exprs THEN exprs ELSE With(exprs, i, NewExpr(desc))

Modifiers(chain) == SelectSeq(chain, LAMBDA cube : cube # "ApplyUpdate")

\* modify_grads: every cube but ApplyUpdate changes the gradient in place.
GradModified(expr, grad) == [grad EXCEPT !.cubes = Append(@, Modifiers(expr.chain))]
ExprModified(expr, grad) ==
  [expr EXCEPT
     !.step_counter = @ + 1,
     !.states = [n \in DOMAIN @ |->
                   IF state_size_per_param(expr.chain[n]) > 0
                     THEN Append(@[n], grad.own) ELSE @[n]]]

\* adapter_pass: the adapters of these layers scale the gradient in turn.
Adapted(layers) == [n \in DOMAIN layers |-> "Adapter"]

\* apply_update: the gradient as it is now is subtracted.
ParamsUpdated(params, grad) == Append(params, grad)

=============================================================================
