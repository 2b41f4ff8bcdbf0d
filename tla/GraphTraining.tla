---------------------------- MODULE GraphTraining ---------------------------
(* The training thread: execute_v2 drives GraphV2 (graph_v2/model_v2.rs,    *)
(* forward_v2.rs, backward_v2.rs), which sends one job at a time through    *)
(* SmartDistributor (distributor_v2) and waits for its result.  An action   *)
(* is one job with everything the distributor does for it, or one step of   *)
(* the loop of execute_inner_v2.                                            *)
(*                                                                          *)
(* Of a buffer we keep its rows, its columns (its size) and the device its  *)
(* entry lies on: handles are shared, so a migration moves the buffer under *)
(* every holder.  Of the gradients of a segment we keep the batches that    *)
(* went into them, of its parameters the updates (OptimizerSteps).          *)
EXTENDS GraphBuilder, OptimizerSteps

CONSTANTS
  HasGpu,         \* whether the device plan has a GPU
  HeavyThreshold, \* HEAVY_THRESHOLD of strategy.rs
  Optimizers,     \* the descriptions an author may give: sequences of cubes
  BatchRows,      \* samples in a batch
  MaxEpochs,      \* bound on TrainingPlan::epochs
  Batches         \* batches in the training data

ASSUME TrainingAssumption ==
  /\ HasGpu \in BOOLEAN /\ HeavyThreshold \in Nat
  /\ \A desc \in Optimizers : ToSet(desc) \subseteq CubeDescs
  /\ BatchRows \in Nat \ {0} /\ MaxEpochs \in Nat /\ Batches \in Nat

VARIABLES
  stage,     \* where execute_inner_v2 is, or how it ended
  epochs,    \* TrainingPlan::epochs
  epoch,     \* the loop variable epoch
  batch,     \* batches started so far
  workers,   \* "parallel" when segments of layers run in chunks on the CPU
  purpose,   \* what the current forward pass is for
  k,         \* the segment whose job is next
  streams,   \* streams of run_forward: buffers
  cache,     \* forward_cache: what each segment saved, <<>> for None
  rows, size, at,  \* shape and device of the buffers of the forward pass
  grads,     \* streams of run_backward: gradients
  paramsAt, gradsAt,  \* devices of the buffers of each segment
  own,       \* batches and cubes that went into the gradients of each segment
  params,    \* gradients subtracted from the parameters of each segment
  optimizer, \* TrainingPlan::optimizer
  exprs,     \* the optimizers of the CPU operator: one for each buffer so far
  features,  \* columns of the data for each purpose there was a pass for
  lossFits,  \* whether LossDesc and the target are made for the prediction
  refused    \* what was refused by something else than the graph

loop == <<epochs, epoch, batch, workers, optimizer>>
pass == <<purpose, k, streams, cache, rows, size, at, grads>>
buffers == <<paramsAt, gradsAt, own, params, exprs>>
given == <<features, lossFits, refused>>
trainVars == <<stage, loop, pass, buffers, given>>
vars == <<plan, trainVars>>

Devices == {"ram", "gpu"}
Ended == {"done", "error", "panicked", "hung"}

-----------------------------------------------------------------------------
(* Buffers of a forward pass: the input is 1, a segment i writes 2 * i and, *)
(* a Splitter, 2 * i + 1.  A gradient is the buffer it is the gradient of,  *)
(* with a shape and a device of its own; the buffer it is the gradient of   *)
(* is not in the code, which tells gradients by their place in streams.     *)

Input == 1
OutOf(i, j) == 2 * i + j - 1
Buffers == 1 .. 2 * Len(segments) + 1
Gradient(of, r, n, device) == [of |-> of, rows |-> r, size |-> n, at |-> device]

\* select_compute and select_segment_operator; every other job but Migrate
\* runs on the CPU, and the CPU works on host memory.
OperatorMemory(i) ==
  IF /\ HasGpu /\ segments[i].kind = "Universal"
     /\ ParamCount(segments[i].layers) > HeavyThreshold
  THEN "gpu" ELSE "ram"

\* Faulty: every segment of layers goes to the device of the plan.
PlacedByPlan(held) ==
  [i \in DOMAIN segments |->
     IF segments[i].kind # "Universal" THEN held[i] ELSE IF HasGpu THEN "gpu" ELSE "ram"]

\* on_epoch_boundary: the place of the buffers of every segment of layers.
PlacedAt(held) ==
  [i \in DOMAIN segments |->
     IF segments[i].kind = "Universal" THEN OperatorMemory(i) ELSE held[i]]

\* A failed assertion ends the thread that meets it.  On the GPU thread the
\* result never comes and drain waits for ever; a task of the worker pool
\* may leave its dispatcher waiting; else the training thread panics.
Broken(device) ==
  CASE device = "gpu" -> {"hung"}
    [] device = "ram" /\ workers = "parallel" -> {"panicked", "hung"}
    [] OTHER -> {"panicked"}

\* Nothing looks at the graph and its buffers again.
Ends(how) ==
  /\ stage' = how /\ epoch' = 0 /\ batch' = 0
  /\ purpose' = "train" /\ k' = 0 /\ streams' = <<>> /\ cache' = <<>>
  /\ rows' = <<>> /\ size' = <<>> /\ at' = <<>> /\ grads' = <<>>
  /\ paramsAt' = <<>> /\ gradsAt' = <<>> /\ own' = <<>> /\ params' = <<>> /\ exprs' = EmptyMap
  /\ UNCHANGED plan

Stop(how) == Ends(how) /\ UNCHANGED <<epochs, workers, optimizer, given>>

NoGrad == [own |-> {}, cubes |-> <<>>]

-----------------------------------------------------------------------------
(* The loop of execute_inner_v2.                                            *)

\* GraphV2::build has succeeded; parameters and gradients are in host memory.
\* The chain of the optimizer is built once here, for its learning rate.
Start ==
  /\ stage = "plan" /\ builder.status = "built"
  /\ epochs' \in 0 .. MaxEpochs
  /\ workers' \in {"parallel", "sequential"}
  /\ optimizer' \in Optimizers
  /\ IF Buildable(optimizer')
     THEN /\ stage' = "epoch"
          /\ paramsAt' = [i \in DOMAIN segments |-> "ram"] /\ gradsAt' = paramsAt'
          /\ own' = [i \in DOMAIN segments |-> NoGrad]
          /\ params' = [i \in DOMAIN segments |-> <<>>]
          /\ UNCHANGED <<plan, epoch, batch, pass, exprs, given>>
     ELSE Ends("panicked") /\ UNCHANGED given

BuildFails ==
  /\ stage = "plan" /\ builder.status = "failed"
  /\ Stop("error")

\* observe_epoch: the first epoch places the segments, a later one may again.
ObserveEpoch(reassign) ==
  /\ stage = "epoch" /\ epoch < epochs
  /\ IF epoch = 0 \/ reassign
     THEN paramsAt' = PlacedAt(paramsAt) /\ gradsAt' = PlacedAt(gradsAt)
     ELSE UNCHANGED <<paramsAt, gradsAt>>
  /\ stage' = "batches"
  /\ UNCHANGED <<plan, loop, pass, own, params, exprs, given>>

\* What is not known of the purpose yet is one of values, from now on.
Learned(known, what, values) ==
  {With(known, what, v) : v \in IF what \in DOMAIN known THEN {known[what]} ELSE values}

\* GraphV2::forward up to the first segment.
BeginForward(what) ==
  /\ stage' = "forward" /\ purpose' = what /\ k' = 1
  /\ cache' = <<>> /\ streams' = <<Input>>
  /\ features' \in Learned(features, what, Sizes)
  /\ rows' = [b \in Buffers |-> BatchRows]
  /\ size' = [b \in Buffers |-> IF b = Input THEN features'[what] ELSE 0]
  /\ at' = [b \in Buffers |-> "ram"]
  /\ UNCHANGED <<plan, epochs, epoch, workers, optimizer, grads, buffers, lossFits, refused>>

AllTrained == batch = Batches * (epoch + 1)

TrainBatch ==
  /\ stage = "batches" /\ ~ AllTrained
  /\ BeginForward("train") /\ batch' = batch + 1

\* One batch of the validation data, after the batches of the epoch.
Validate ==
  /\ stage \in {"batches", "validated"} /\ AllTrained
  /\ BeginForward("validate") /\ UNCHANGED batch

EndEpoch ==
  /\ stage \in {"batches", "validated"} /\ AllTrained
  /\ stage' = "epoch" /\ epoch' = epoch + 1
  /\ UNCHANGED <<plan, epochs, batch, workers, optimizer, pass, buffers, given>>

\* The test input after the last epoch, if there is one.
TestForward ==
  /\ stage = "epoch" /\ epoch = epochs
  /\ BeginForward("test") /\ UNCHANGED batch

Finish ==
  /\ \/ stage = "epoch" /\ epoch = epochs
     \/ stage = "tested"
  /\ Stop("done")

-----------------------------------------------------------------------------
(* run_forward.  ensure_inputs_local moves the input of a job to the memory *)
(* of its operator; contexts are what the layers keep for the backward pass.*)

Saved(ins, outs, device) ==
  [in |-> ins, out |-> outs,
   copies |-> IF device = "ram" /\ workers = "parallel" THEN "chunks" ELSE "shared"]

\* The job of segment k produced outs, with the given shape and device.
ForwardStep(ins, outs, height, sizes, device, next, saved) ==
  /\ streams' = next
  /\ cache' = Append(cache, saved)
  /\ at' = [b \in Buffers |-> IF b \in ToSet(ins) \cup ToSet(outs) THEN device ELSE at[b]]
  /\ size' = [b \in Buffers |->
                IF b \in ToSet(outs) THEN sizes[CHOOSE j \in DOMAIN outs : outs[j] = b]
                ELSE size[b]]
  /\ rows' = [b \in Buffers |-> IF b \in ToSet(outs) THEN height ELSE rows[b]]
  /\ k' = k + 1
  /\ UNCHANGED <<plan, stage, loop, purpose, grads, buffers, given>>

InForward == stage = "forward" /\ k \in DOMAIN segments
Running == segments[k]

\* single_stream_index: the stream segment k works on, an error if there is none.
Here == StreamIndex(Running)
NoStream(list) == Here > Len(list)

ForwardUniversal ==
  /\ InForward /\ Running.kind = "Universal"
  /\ LET in == streams[Here]
         device == OperatorMemory(k)
         out == OutOf(k, 1)
     IN  IF NoStream(streams) THEN Stop("error")
         ELSE IF paramsAt[k] = device /\ size[in] = Running.in[1]
         THEN ForwardStep(<<in>>, <<out>>, rows[in], Running.out, device,
                          [streams EXCEPT ![Here] = out],
                          Saved(<<in>>, <<out>>, device))
         ELSE \E how \in Broken(device) : Stop(how)

\* A matrix of r rows and n columns after unsqueeze_mat and reduce_mat with
\* the dimensions dims, or none if they assert or divide by zero.
PlanesOf(dims) == IF Len(dims) = 1 THEN 1 ELSE dims[1]
Product(dims) == IF Len(dims) = 1 THEN dims[1] ELSE dims[1] * dims[2]
LastOf(dims) == dims[Len(dims)]

Reshaped(kind, dims, r, n) ==
  IF kind = "Unsqueeze"
  THEN IF n = Product(dims) THEN {<<r * PlanesOf(dims), LastOf(dims)>>} ELSE {}
  ELSE {s \in {<<r \div PlanesOf(dims), w>> : w \in 0 .. r * n} : s[1] # 0 /\ s[1] * s[2] = r * n}

\* A reshaped matrix is a new buffer.
ForwardDimOp ==
  /\ InForward /\ Running.kind \in DimOps
  /\ LET in == streams[Here]
         out == OutOf(k, 1)
         shapes == Reshaped(Running.kind, Running.out, rows[in], size[in])
     IN  IF NoStream(streams) THEN Stop("error")
         ELSE \/ \E s \in shapes :
                   ForwardStep(<<in>>, <<out>>, s[1], <<s[2]>>, "ram",
                               [streams EXCEPT ![Here] = out],
                               Saved(<<in>>, <<>>, "ram"))
              \/ shapes = {} /\ Stop("panicked")

\* Splitter and Combiner check sizes themselves and report them; the rows
\* are those of the first stream, and reading so many of another must not
\* reach beyond its end.
ForwardConnector ==
  /\ InForward /\ Running.kind \in {"Splitter", "Combiner"}
  /\ LET outs == [j \in DOMAIN Running.out |-> OutOf(k, j)]
         height == rows[streams[1]]
     IN  IF ~ (/\ Len(streams) = Len(Running.in)
               /\ \A j \in DOMAIN streams : size[streams[j]] = Running.in[j])
         THEN Stop("error")
         ELSE IF \A j \in DOMAIN streams : height <= rows[streams[j]]
         THEN ForwardStep(streams, outs, height, Running.out, "ram", outs,
                          Saved(streams, outs, "ram"))
         ELSE Stop("panicked")

\* The output is copied to host memory, the buffer itself stays; it has to
\* have the shape the last layer was described with.
EndForward ==
  /\ stage = "forward" /\ k = Len(segments) + 1
  /\ IF /\ Len(streams) = 1
        /\ size[streams[1]] = Product(segments[Len(segments)].out)
     THEN /\ stage' = "loss" /\ k' = 0
          /\ UNCHANGED <<plan, loop, purpose, streams, cache, rows, size, at, grads, buffers,
                         given>>
     ELSE Stop("error")

-----------------------------------------------------------------------------
(* Loss and run_backward.                                                   *)

\* GraphV2::loss on fresh host buffers.  compute_loss_mat_buffered asserts
\* the rows of the target and the columns LossDesc was made for.
LossAgrees == rows[streams[1]] = BatchRows /\ lossFits'[purpose]

\* After a batch of training backward begins, up to the last segment.
Loss ==
  /\ stage = "loss"
  /\ lossFits' \in Learned(lossFits, purpose, BOOLEAN)
  /\ UNCHANGED <<features, refused>>
  /\ \/ /\ LossAgrees /\ purpose = "train"
        /\ stage' = "backward" /\ k' = Len(segments)
        /\ grads' = <<Gradient(streams[1], rows[streams[1]], size[streams[1]], "ram")>>
        /\ streams' = <<>>
        /\ UNCHANGED <<plan, loop, purpose, cache, rows, size, at, buffers>>
     \/ /\ LossAgrees /\ purpose # "train"
        /\ stage' = IF purpose = "validate" THEN "validated" ELSE "tested"
        /\ UNCHANGED <<plan, loop, pass, buffers>>
     \/ /\ ~ LossAgrees
        /\ Ends("panicked") /\ UNCHANGED <<epochs, workers, optimizer>>

\* Faulty: a backward job adds to what the buffer held.
OwnAccumulated == [own |-> own[k].own \cup {batch}, cubes |-> <<>>]

\* What the gradient buffer holds after a backward job: GPU shaders add to it
\* after it was filled with zeros, CPU layers and connectors overwrite it.
OwnAfterBackward == [own |-> {batch}, cubes |-> <<>>]

BackwardStep(next, moved) ==
  /\ grads' = next
  /\ at' = [b \in Buffers |-> IF b \in moved THEN "ram" ELSE at[b]]
  /\ own' = [own EXCEPT ![k] = OwnAfterBackward]
  /\ k' = k - 1
  /\ UNCHANGED <<plan, stage, loop, purpose, streams, cache, rows, size, paramsAt, gradsAt,
                 params, exprs, given>>

InBackward == stage = "backward" /\ k \in DOMAIN segments

\* What the layers of segment i read again lies where they run: the input, if
\* the first layer keeps its input, the output, if the last keeps its output.
SavedInPlace(i, device) ==
  LET saved == cache[i]
      layers == segments[i].layers
  IN  saved.copies = "shared" =>
        /\ layers[1].kind = "Linear" => at[saved.in[1]] = device
        /\ layers[Len(layers)].kind = "Softmax" => at[saved.out[1]] = device

\* A gradient of another shape than the output some layers assert, others
\* read beyond its end, and others use as it is.
BackwardUniversal ==
  /\ InBackward /\ Running.kind = "Universal"
  /\ LET device == OperatorMemory(k)
         in == cache[k].in[1]
         g == grads[Here]
         held == /\ paramsAt[k] = device /\ gradsAt[k] = device
                 /\ SavedInPlace(k, device)
         fits == g.rows = rows[in] /\ g.size = Running.out[1]
     IN  IF NoStream(grads) THEN Stop("error")
         ELSE \/ /\ held
                 /\ BackwardStep([grads EXCEPT ![Here] =
                                   Gradient(in, rows[in], Running.in[1], device)], {})
              \/ ~ (held /\ fits) /\ \E how \in Broken(device) : Stop(how)

\* Unsqueeze becomes ReduceMean and the other way round, to the dimensions
\* of the input.
Undoes(kind) == IF kind = "Unsqueeze" THEN "ReduceMean" ELSE "Unsqueeze"

BackwardDimOp ==
  /\ InBackward /\ Running.kind \in DimOps
  /\ LET g == grads[Here]
         shapes == Reshaped(Undoes(Running.kind), Running.in, g.rows, g.size)
     IN  IF NoStream(grads) THEN Stop("error")
         ELSE \/ \E s \in shapes :
                   BackwardStep([grads EXCEPT ![Here] =
                                   Gradient(cache[k].in[1], s[1], s[2], "ram")], {})
              \/ shapes = {} /\ Stop("panicked")

\* Faulty: the gradients come back in the order they were popped.
ConnectorGradsPopped ==
  Reverse([j \in DOMAIN cache[k].in |->
             Gradient(cache[k].in[j], grads[1].rows, Running.in[j], "ram")])

\* The gradients of the streams a connector took in, in their order.
ConnectorGrads ==
  [j \in DOMAIN cache[k].in |->
     Gradient(cache[k].in[j], grads[1].rows, Running.in[j], "ram")]

\* What is read for the rows of the first gradient is there, of every
\* gradient and of what was saved, whose columns the forward pass checked.
ReadsWithin ==
  LET height == grads[1].rows
  IN  /\ \A j \in DOMAIN grads : height * Running.out[j] <= grads[j].rows * grads[j].size
      /\ \A j \in DOMAIN cache[k].in : height <= rows[cache[k].in[j]]

\* Two gradients become one, one becomes two; what was saved moves along.
BackwardConnector ==
  /\ InBackward /\ Running.kind \in {"Splitter", "Combiner"}
  /\ IF Len(grads) # Len(Running.out) THEN Stop("error")
     ELSE IF ReadsWithin THEN BackwardStep(ConnectorGrads, ToSet(cache[k].in))
     ELSE Stop("panicked")

\* The parameter buffers: one for each segment with parameters.
HasParams(i) == segments[i].kind \notin DimOps
\* The first of them from segment i on, or none.
BufferFrom(i) ==
  CHOOSE j \in i .. Len(segments) + 1 :
    /\ j <= Len(segments) => HasParams(j)
    /\ \A m \in i .. j - 1 : ~HasParams(m)

\* The cache is put back for adapter_pass; the gradient of the input becomes
\* a tensor of the shape the first layer was described with.
EndBackward ==
  /\ stage = "backward" /\ k = 0
  /\ IF grads[1].size = Product(segments[1].in)
     THEN /\ stage' = "modify" /\ k' = BufferFrom(1) /\ grads' = <<>>
          /\ UNCHANGED <<plan, loop, purpose, streams, cache, rows, size, at, buffers, given>>
     ELSE Stop("error")

-----------------------------------------------------------------------------
(* The phases of the optimizer: a job for each parameter buffer in turn.    *)

InBuffers(phase) == stage = phase /\ k \in DOMAIN segments
StayInPass == UNCHANGED <<plan, loop, purpose, streams, cache, rows, size, at, grads, given>>

\* The hybrid step takes both buffers from one device.
SameDevice == paramsAt[k] = gradsAt[k]

\* On the CPU in place; from the GPU both are copied, and only the gradients
\* are copied back.
ModifyGrads ==
  /\ InBuffers("modify")
  /\ IF (k \in DOMAIN exprs \/ Buildable(optimizer)) /\ SameDevice
     THEN LET now == Ensured(exprs, k, optimizer)
          IN /\ exprs' = [now EXCEPT ![k] = ExprModified(@, own[k])]
             /\ own' = [own EXCEPT ![k] = GradModified(now[k], @)]
             /\ k' = BufferFrom(k + 1)
             /\ UNCHANGED <<stage, paramsAt, gradsAt, params>> /\ StayInPass
     ELSE Stop("panicked")

EndModify ==
  /\ stage = "modify" /\ k = Len(segments) + 1
  /\ stage' = "adapters" /\ k' = 0
  /\ UNCHANGED buffers /\ StayInPass

\* The layers of segment i with an adapter: of those modelled, Linear.
LinearLayers(layers) == SelectSeq(layers, LAMBDA layer : layer.kind = "Linear")
LinearOf(i) ==
  IF segments[i].kind # "Universal" THEN <<>> ELSE LinearLayers(segments[i].layers)

\* An adapter leaves gradients on the GPU alone.
Adapters(i) == IF gradsAt[i] = "gpu" THEN <<>> ELSE LinearOf(i)

\* adapter_pass, not switched off, with what the forward pass saved.
AdapterPass ==
  /\ stage = "adapters"
  /\ IF Len(cache) = Len(segments)
     THEN /\ stage' = "apply" /\ k' = BufferFrom(1)
          /\ own' = [i \in DOMAIN own |-> [own[i] EXCEPT !.cubes = Append(@, Adapted(Adapters(i)))]]
          /\ UNCHANGED <<paramsAt, gradsAt, params, exprs>> /\ StayInPass
     ELSE Stop("error")

\* The expression is the one of the first phase; only the parameters are
\* copied back to the GPU.
ApplyUpdate ==
  /\ InBuffers("apply")
  /\ IF k \in DOMAIN exprs /\ SameDevice
     THEN /\ params' = [params EXCEPT ![k] = ParamsUpdated(@, own[k])]
          /\ k' = BufferFrom(k + 1)
          /\ UNCHANGED <<stage, paramsAt, gradsAt, own, exprs>> /\ StayInPass
     ELSE Stop("panicked")

EndApply ==
  /\ stage = "apply" /\ k = Len(segments) + 1
  /\ stage' = "batches" /\ k' = 0 /\ cache' = <<>>
  /\ UNCHANGED <<plan, loop, purpose, streams, rows, size, at, grads, buffers, given>>

-----------------------------------------------------------------------------
(* What others refuse.                                                      *)

Refuse(what, hows) ==
  /\ refused' = what
  /\ \E how \in hows : Ends(how)
  /\ epochs' = 0 /\ workers' = "sequential" /\ optimizer' = <<>>
  /\ features' = EmptyMap /\ lossFits' = EmptyMap

\* Data of several streams, no data, data and target of different lengths;
\* an initializer that fails.
RefuseData ==
  /\ stage = "epoch" /\ epoch = 0
  /\ Refuse("data", {"error"})

\* The remainder of a division by the frequency of validation.
RefuseFrequency ==
  /\ stage = "batches" /\ AllTrained
  /\ Refuse("frequency", {"panicked"})

\* Memory for a migration at the boundary of an epoch, or for a job.
RefuseMemory ==
  \/ stage = "epoch" /\ epoch < epochs /\ Refuse("memory", {"error"})
  \/ stage \in {"forward", "loss", "backward", "modify", "apply"}
     /\ Refuse("memory", {"error", "panicked", "hung"})

-----------------------------------------------------------------------------
TrainInit ==
  /\ BuilderInit
  /\ stage = "plan" /\ epochs = 0 /\ epoch = 0 /\ batch = 0 /\ workers = "sequential"
  /\ purpose = "train" /\ k = 0 /\ streams = <<>> /\ cache = <<>> /\ size = <<>>
  /\ rows = <<>> /\ at = <<>> /\ grads = <<>> /\ paramsAt = <<>> /\ gradsAt = <<>>
  /\ own = <<>> /\ params = <<>> /\ optimizer = <<>> /\ exprs = EmptyMap
  /\ features = EmptyMap /\ lossFits = EmptyMap /\ refused = "nothing"

Plan == stage = "plan" /\ Describe /\ UNCHANGED trainVars

Forward == ForwardUniversal \/ ForwardDimOp \/ ForwardConnector \/ EndForward
Backward == BackwardUniversal \/ BackwardDimOp \/ BackwardConnector \/ EndBackward
Epochs == \/ \E reassign \in BOOLEAN : ObserveEpoch(reassign)
          \/ TrainBatch \/ Validate \/ EndEpoch \/ TestForward \/ Finish
Optimize == ModifyGrads \/ EndModify \/ AdapterPass \/ ApplyUpdate \/ EndApply

Refusals == RefuseData \/ RefuseFrequency \/ RefuseMemory

Next == \/ Plan \/ BuildFails \/ Start \/ Epochs
        \/ Forward \/ Loss \/ Backward \/ Optimize \/ Refusals

Spec == TrainInit /\ [][Next]_vars

-----------------------------------------------------------------------------
(* Properties.                                                              *)

\* The gradient a segment receives is the gradient of exactly what it put
\* out in the forward pass of this batch, through splits, joins and segments
\* of two streams in any order; what remains is the gradient of the input.
GradFollowsOutput ==
  stage = "backward" =>
    IF k = 0 THEN [j \in DOMAIN grads |-> grads[j].of] = <<Input>>
    ELSE IF OnOneStream(Running)
         THEN Here \in DOMAIN grads /\ grads[Here].of = OutOf(k, 1)
         ELSE [j \in DOMAIN grads |-> grads[j].of] = [j \in DOMAIN Running.out |-> OutOf(k, j)]

\* Steps of training that are over, and one that is under way.
Trained == IF purpose = "train" /\ stage \notin {"epoch", "batches", "validated", "tested"}
             THEN batch - 1 ELSE batch
Step(i, b) ==
  [own |-> {b},
   cubes |-> <<Modifiers(optimizer),
               Adapted(IF OperatorMemory(i) = "gpu" THEN <<>> ELSE LinearOf(i))>>]

\* Every step of training takes from the parameters of every segment, on
\* either device, the gradients of its own batch and of no other, after each
\* cube of the optimizer and then the adapter of each layer that runs on the
\* CPU has gone over them once and in order; the state a cube keeps for a
\* segment has seen each batch once.
UpdateOwnBatch ==
  stage \notin {"plan"} \cup Ended =>
    \A i \in DOMAIN segments :
      HasParams(i) =>
        /\ \A b \in 1 .. Trained : b \in DOMAIN params[i] /\ params[i][b] = Step(i, b)
        /\ Len(params[i]) <= batch
        /\ stage = "modify" => own[i].own = {batch}
        /\ i \in DOMAIN exprs =>
             LET seen == exprs[i].states
             IN \A n \in DOMAIN seen :
                  seen[n] # <<>> => seen[n] = [b \in 1 .. exprs[i].step_counter |-> {b}]

\* The segments whose job uses the output of segment i: the next one on its
\* stream, or a connector before that.
Users(i) ==
  {j \in DOMAIN segments :
     /\ i < j
     /\ \A m \in i + 1 .. j - 1 :
          OnOneStream(segments[m]) /\ StreamIndex(segments[m]) # StreamIndex(segments[i])
     /\ OnOneStream(segments[j]) => StreamIndex(segments[j]) = StreamIndex(segments[i])}

\* A segment of layers keeps its output for the backward pass and the next
\* job moves this very buffer to another device.
OutputLeaves(i) ==
  /\ segments[i].kind = "Universal"
  /\ segments[i].layers[Len(segments[i].layers)].kind = "Softmax"
  /\ OperatorMemory(i) = "gpu" \/ workers = "sequential"
  /\ \E j \in Users(i) : OperatorMemory(j) # OperatorMemory(i)

\* A dimension operation that changes rows and columns.
Reshapes(i) ==
  segments[i].kind \in DimOps /\ (Len(segments[i].in) > 1 \/ Len(segments[i].out) > 1)

\* The features of a data set are not those the first layer is described for,
\* or LossDesc is made for other ones.
DataMisfit ==
  \/ \E p \in DOMAIN features : features[p] # segments[1].in[1]
  \/ \E p \in DOMAIN lossFits : ~ lossFits[p]

\* A job of the GPU needs what only the first epoch puts there.
NeverPlaced == epochs = 0 /\ \E i \in DOMAIN segments : OperatorMemory(i) = "gpu"

\* A plan whose neighbouring layers agree fails only if its sizes do not tell
\* its streams apart, a segment has no parameters, a dimension operation
\* changes the shape, the data or the loss do not fit, memory, data or the
\* frequency of validation are refused, the optimizer ends otherwise than in
\* its one ApplyUpdate, a segment keeps an output the next job moves away,
\* or a GPU segment is used before an epoch has placed it.  In every other
\* case buffers have the shape and the device the jobs assert, and each phase
\* finds what the earlier ones left.
FaultsExplained ==
  stage \in {"error", "panicked", "hung"} =>
    \/ ~ clear
    \/ builder.status = "failed"
    \/ refused # "nothing"
    \/ \E i \in DOMAIN segments : Reshapes(i) \/ OutputLeaves(i)
    \/ DataMisfit
    \/ NeverPlaced
    \/ stage = "panicked" /\ ~ Buildable(optimizer)

\* compute/softmax.rs asserts that the output a layer saved is still on the
\* GPU when the backward pass of a GPU segment begins.
SavedStaysOnGpu ==
  /\ stage = "backward" /\ k \in DOMAIN segments
  /\ Running.kind = "Universal" /\ OperatorMemory(k) = "gpu"
  => SavedInPlace(k, "gpu")
=============================================================================
