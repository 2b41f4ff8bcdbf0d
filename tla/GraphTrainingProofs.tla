------------------------- MODULE GraphTrainingProofs -------------------------
(***************************************************************************)
(* What training keeps, for every plan, optimizer and number of epochs:    *)
(* where gradients go, what an update is made of, and why a job may fail.  *)
(***************************************************************************)
EXTENDS GraphTraining, GraphBuilderProofs, WellFoundedInduction

Working == {"epoch", "batches", "forward", "validated", "tested", "loss", "backward",
            "modify", "adapters", "apply"}
\* From the loss of a batch to its last update, and the pass before that.
Learning == {"backward", "modify", "adapters", "apply"}
Passing == {"forward", "loss"}
Phases == {"modify", "apply"}

N == Len(segments)
CacheRec == [in : Seq(Nat), out : Seq(Nat), copies : {"chunks", "shared"}]
GradRec == [of : Nat, rows : Nat, size : Nat, at : Devices]

\* Inside an epoch.
InEpoch == \/ stage \in {"batches", "validated"} \cup Learning
           \/ stage \in Passing /\ purpose # "test"

\* Where the loop is, and how far the pass or the phase under way has come.
LoopInv ==
  /\ stage \in {"plan"} \cup Working \cup Ended
  /\ batch \in Nat /\ epoch \in Nat /\ epochs \in Nat
  /\ stage = "plan" => epoch = 0 /\ batch = 0 /\ exprs = EmptyMap /\ features = EmptyMap
  /\ stage \in Working => /\ builder.status = "built" /\ epoch <= epochs
                          /\ workers \in {"parallel", "sequential"}
                          /\ \A p \in DOMAIN features : features[p] \in Nat
  /\ stage = "forward" => k \in 1 .. N + 1
  /\ stage \in Passing => purpose \in {"train", "validate", "test"}
  /\ stage \in Learning \/ (stage \in Passing /\ purpose = "train") => batch >= 1
  /\ stage \in Learning => purpose = "train"
  /\ stage = "backward" => k \in 0 .. N
  /\ stage \in Phases => k \in 1 .. N + 1 /\ (k <= N => HasParams(k))
  /\ stage = "validated" => purpose = "validate"
  /\ InEpoch => epoch < epochs
  /\ stage = "tested" => purpose = "test"
  /\ stage = "tested" \/ (stage \in Passing /\ purpose = "test") => epoch = epochs

-----------------------------------------------------------------------------
(* The streams of a pass                                                   *)

\* Segment i took in the buffers ins of streams y and left streams z.
Linked(s, i, ins, y, z) ==
  IF OnOneStream(s)
  THEN /\ StreamIndex(s) \in DOMAIN y /\ ins = <<y[StreamIndex(s)]>>
       /\ z = [y EXCEPT ![StreamIndex(s)] = OutOf(i, 1)]
  ELSE ins = y /\ Len(y) = Len(s.in) /\ z = [j \in DOMAIN s.out |-> OutOf(i, j)]

\* trace has the streams after each segment that saved something.
Trace(segs, saved, trace) ==
  /\ trace \in [Nat -> Seq(Nat)] /\ trace[0] = <<Input>>
  /\ \A i \in DOMAIN saved : Linked(segs[i], i, saved[i].in, trace[i - 1], trace[i])

TraceTo(segs, saved, n, y) == \E trace : Trace(segs, saved, trace) /\ trace[n] = y

Ofs(list) == [j \in DOMAIN list |-> list[j].of]

PassInv ==
  /\ stage \in Passing \cup Learning => cache \in Seq(CacheRec)
  /\ stage = "forward" => Len(cache) = k - 1
  /\ stage \in {"loss"} \cup Learning => Len(cache) = N
  /\ stage = "forward" => streams \in Seq(Nat) /\ TraceTo(segments, cache, k - 1, streams)
  /\ stage = "loss" => /\ streams \in Seq(Nat) /\ Len(streams) = 1
                       /\ TraceTo(segments, cache, N, streams)
  /\ stage = "backward" => grads \in Seq(GradRec) /\ TraceTo(segments, cache, k, Ofs(grads))

-----------------------------------------------------------------------------
(* The places of parameters and gradients                                  *)

Placed == \A i \in DOMAIN segments :
            paramsAt[i] = OperatorMemory(i) /\ gradsAt[i] = OperatorMemory(i)

PlacedInv ==
  stage \in Working =>
    /\ paramsAt \in [DOMAIN segments -> Devices] /\ gradsAt \in [DOMAIN segments -> Devices]
    /\ \A i \in DOMAIN segments :
         segments[i].kind # "Universal" => paramsAt[i] = "ram" /\ gradsAt[i] = "ram"
    /\ InEpoch \/ epoch > 0 => Placed
    /\ ~ Placed => \A i \in DOMAIN segments : paramsAt[i] = "ram" /\ gradsAt[i] = "ram"

-----------------------------------------------------------------------------
(* What a step of training is made of                                      *)

Modified(i) == stage \in {"adapters", "apply"} \/ (stage = "modify" /\ i < k)
Applied(i) == stage = "apply" /\ i < k
OneIf(said) == IF said THEN 1 ELSE 0

\* The updates made of a buffer, and the gradients its optimizer has seen.
Done(i) == Trained + OneIf(Applied(i))
Seen(i) == Trained + OneIf(Modified(i))

\* The optimizer of a buffer after n steps.
ExprAfter(desc, n) ==
  [chain |-> desc, step_counter |-> n,
   states |-> [m \in DOMAIN desc |->
                 IF state_size_per_param(desc[m]) > 0 THEN [b \in 1 .. n |-> {b}] ELSE <<>>]]

\* It is built when the first gradients come.
ExprIs(map, i, desc, n) == IF i \in DOMAIN map THEN map[i] = ExprAfter(desc, n) ELSE n = 0

\* The gradients that await the optimizer, or have been through some of it.
OwnIs(i) ==
  /\ (stage = "backward" /\ i > k) \/ (stage = "modify" /\ i >= k) =>
       own[i] = [own |-> {batch}, cubes |-> <<>>]
  /\ (stage = "modify" /\ i < k) \/ stage = "adapters" =>
       own[i] = [own |-> {batch}, cubes |-> <<Modifiers(optimizer)>>]
  /\ stage = "apply" => own[i] = Step(i, batch)

UpdateInv ==
  stage \in Working =>
    /\ DOMAIN own = DOMAIN segments /\ DOMAIN params = DOMAIN segments
    /\ \A i \in DOMAIN segments :
         HasParams(i) => /\ params[i] = [b \in 1 .. Done(i) |-> Step(i, b)]
                         /\ ExprIs(exprs, i, optimizer, Seen(i))
                         /\ OwnIs(i)

-----------------------------------------------------------------------------
(* The sizes of the streams                                                *)

SizesOf(list, sizes) == [j \in DOMAIN list |-> sizes[list[j]]]
GradSizes(list) == [j \in DOMAIN list |-> list[j].size]

\* n segments on, the sizes are those of a flow that ends in one stream.
SizedAs(segs, n, sizes) ==
  \E flow : FlowOf(segs, flow) /\ Len(flow[Len(segs)]) = 1 /\ flow[n] = sizes

\* Sizes tell streams apart, shapes keep their planes, and the data have the
\* size the first layer is described for.
Fits ==
  /\ clear
  /\ \A i \in DOMAIN segments : Plain(segments[i])
  /\ \A p \in DOMAIN features : features[p] = segments[1].in[1]

SizeInv ==
  Fits =>
    /\ stage = "forward" => SizedAs(segments, k - 1, SizesOf(streams, size))
    /\ stage = "loss" => SizedAs(segments, N, SizesOf(streams, size))
    /\ stage = "backward" => SizedAs(segments, k, GradSizes(grads))
    /\ stage \in {"forward", "loss", "backward"} => \A b \in Buffers : rows[b] = BatchRows
    /\ stage = "backward" => \A j \in DOMAIN grads : grads[j].rows = BatchRows

-----------------------------------------------------------------------------
(* The devices of the buffers of a pass                                    *)

\* The output of segment i is still in its stream, where it was written.
Waits(i) ==
  /\ StreamIndex(segments[i]) \in DOMAIN streams
  /\ streams[StreamIndex(segments[i])] = OutOf(i, 1)
  /\ at[OutOf(i, 1)] = OperatorMemory(i)
  /\ \A m \in i + 1 .. k - 1 :
       OnOneStream(segments[m]) /\ StreamIndex(segments[m]) # StreamIndex(segments[i])

\* Or the job that uses it has moved it.
Taken(i) == \E j \in Users(i) : at[OutOf(i, 1)] = OperatorMemory(j)

OutputKept(i) ==
  segments[i].kind = "Universal" =>
    /\ cache[i].out = <<OutOf(i, 1)>>
    /\ cache[i].copies = "shared" => OperatorMemory(i) = "gpu" \/ workers = "sequential"
    /\ at[OutOf(i, 1)] = OperatorMemory(i) \/ Taken(i)

DeviceInv ==
  /\ stage \in {"forward", "loss", "backward"} =>
       /\ at \in [Buffers -> Devices] /\ size \in [Buffers -> Nat] /\ rows \in [Buffers -> Nat]
       /\ \A i \in DOMAIN cache :
            /\ \A j \in DOMAIN cache[i].in :
                 cache[i].in[j] \in Buffers /\ at[cache[i].in[j]] = OperatorMemory(i)
            /\ OutputKept(i)
  /\ stage \in {"forward", "loss"} =>
       \A j \in DOMAIN streams : streams[j] \in 1 .. 2 * Len(cache) + 1
  /\ stage = "forward" =>
       /\ \A j, l \in DOMAIN streams : streams[j] = streams[l] => j = l
       /\ \A i \in DOMAIN cache :
            /\ \A j \in DOMAIN cache[i].in :
                 /\ cache[i].in[j] \in 1 .. 2 * Len(cache) + 1
                 /\ \A l \in DOMAIN streams : streams[l] # cache[i].in[j]
            /\ segments[i].kind = "Universal" =>
                 Waits(i) \/ (Taken(i) /\ \A l \in DOMAIN streams : streams[l] # OutOf(i, 1))

-----------------------------------------------------------------------------
(* Training describes its plan and then leaves it as it is                 *)

\* Only a description changes the plan.
LEMMA PlanFixed == Next => (Plan \/ (UNCHANGED plan /\ stage' # "plan"))
<1> SUFFICES ASSUME Next, ~ Plan PROVE UNCHANGED plan /\ stage' # "plan"
  OBVIOUS
<1>1. ASSUME NEW how \in Ended, Ends(how) \/ Stop(how) PROVE UNCHANGED plan /\ stage' # "plan"
  BY <1>1 DEF Stop, Ends, Ended
<1>2. CASE BuildFails \/ Start \/ Epochs
  <2>1. CASE BuildFails \/ Finish
    BY <1>1, <2>1 DEF BuildFails, Finish, Ended
  <2>2. CASE Start
    BY <1>1, <2>2 DEF Start, Ended
  <2>3. ASSUME NEW reassign \in BOOLEAN, ObserveEpoch(reassign)
        PROVE  UNCHANGED plan /\ stage' # "plan"
    BY <2>3 DEF ObserveEpoch
  <2>4. CASE TrainBatch \/ Validate \/ TestForward
    BY <2>4 DEF TrainBatch, Validate, TestForward, BeginForward
  <2>5. CASE EndEpoch
    BY <2>5 DEF EndEpoch
  <2> QED
    BY <1>2, <2>1, <2>2, <2>3, <2>4, <2>5 DEF Epochs
<1>3. CASE Forward
  <2>1. CASE ForwardUniversal
    <3>1. \/ Stop("error") \/ \E how \in Broken(OperatorMemory(k)) : Stop(how)
          \/ UNCHANGED plan /\ stage' = "forward"
      BY <2>1 DEF ForwardUniversal, ForwardStep, InForward
    <3> QED
      BY <1>1, <3>1 DEF Broken, Ended
  <2>2. CASE ForwardDimOp
    <3>1. Stop("error") \/ Stop("panicked") \/ (UNCHANGED plan /\ stage' = "forward")
      BY <2>2 DEF ForwardDimOp, ForwardStep, InForward
    <3> QED
      BY <1>1, <3>1 DEF Ended
  <2>3. CASE ForwardConnector
    <3>1. Stop("error") \/ Stop("panicked") \/ (UNCHANGED plan /\ stage' = "forward")
      BY <2>3 DEF ForwardConnector, ForwardStep, InForward
    <3> QED
      BY <1>1, <3>1 DEF Ended
  <2>4. CASE EndForward
    BY <1>1, <2>4 DEF EndForward, Ended
  <2> QED
    BY <1>3, <2>1, <2>2, <2>3, <2>4 DEF Forward
<1>4. CASE Loss
  BY <1>1, <1>4 DEF Loss, Ended
<1>5. CASE Backward
  <2>1. CASE BackwardUniversal
    <3>1. \/ Stop("error") \/ \E how \in Broken(OperatorMemory(k)) : Stop(how)
          \/ UNCHANGED plan /\ stage' = "backward"
      BY <2>1 DEF BackwardUniversal, BackwardStep, InBackward
    <3> QED
      BY <1>1, <3>1 DEF Broken, Ended
  <2>2. CASE BackwardDimOp
    <3>1. Stop("error") \/ Stop("panicked") \/ (UNCHANGED plan /\ stage' = "backward")
      BY <2>2 DEF BackwardDimOp, BackwardStep, InBackward
    <3> QED
      BY <1>1, <3>1 DEF Ended
  <2>3. CASE BackwardConnector
    <3>1. Stop("error") \/ Stop("panicked") \/ (UNCHANGED plan /\ stage' = "backward")
      BY <2>3 DEF BackwardConnector, BackwardStep, InBackward
    <3> QED
      BY <1>1, <3>1 DEF Ended
  <2>4. CASE EndBackward
    BY <1>1, <2>4 DEF EndBackward, Ended
  <2> QED
    BY <1>5, <2>1, <2>2, <2>3, <2>4 DEF Backward
<1>6. CASE Optimize
  <2>1. CASE ModifyGrads \/ ApplyUpdate
    BY <1>1, <2>1 DEF ModifyGrads, ApplyUpdate, InBuffers, StayInPass, Ended
  <2>2. CASE EndModify \/ EndApply
    BY <2>2 DEF EndModify, EndApply, StayInPass
  <2>3. CASE AdapterPass
    BY <1>1, <2>3 DEF AdapterPass, StayInPass, Ended
  <2> QED
    BY <1>6, <2>1, <2>2, <2>3 DEF Optimize
<1>7. CASE Refusals
  BY <1>1, <1>7 DEF Refusals, RefuseData, RefuseFrequency, RefuseMemory, Refuse, Ended
<1> QED
  BY <1>2, <1>3, <1>4, <1>5, <1>6, <1>7 DEF Next

\* So what holds of a description holds throughout training.
THEOREM TrainingDescribes == Spec => BuilderSpec
<1>1. TrainInit => BuilderInit
  BY DEF TrainInit
<1>2. [Next]_vars => [Describe]_plan
  BY PlanFixed DEF Plan, vars
<1> QED
  BY <1>1, <1>2, PTL DEF Spec, BuilderSpec

\* Every segment of a plan is well made.
LEMMA TrainingMade == Spec => [](BuilderInv /\ MadeInv)
<1>1. BuilderInit => BuilderInv /\ MadeInv
  BY BuilderInvInit, MadeInvInit
<1>2. (BuilderInv /\ MadeInv) /\ [Describe]_plan => (BuilderInv /\ MadeInv)'
  BY BuilderInvNext, MadeInvNext
<1> QED
  BY <1>1, <1>2, TrainingDescribes, PTL DEF BuilderSpec

\* What a plan that is built gives the training thread.
LEMMA SegmentFacts ==
  ASSUME BuilderInv, MadeInv
  PROVE  /\ segments \in Seq(SegmentRec) /\ N \in Nat /\ DOMAIN segments = 1 .. N
         /\ builder.status = "built" => N >= 1
         /\ \A i \in 1 .. N :
              /\ segments[i] \in SegmentRec /\ WellMade(segments[i])
              /\ StreamIndex(segments[i]) \in Nat \ {0}
<1>1. segments \in Seq(SegmentRec)
  BY DEF BuilderInv, Shape, BuilderRec, BuilderOf, segments
<1>2. N \in Nat /\ DOMAIN segments = 1 .. N
  BY <1>1 DEF N
<1>3. \A s \in SegmentRec : StreamIndex(s) \in Nat \ {0}
  BY DEF SegmentRec, StreamIndex
<1>4. \A i \in 1 .. N : segments[i] \in SegmentRec
  BY <1>1, <1>2, ElementOfSeq
<1> QED
  BY <1>1, <1>2, <1>3, <1>4 DEF MadeInv, Made, segments, N

-----------------------------------------------------------------------------
(* The buffers with parameters, in turn                                    *)

\* A set of natural numbers has a least one.
LEMMA LeastNat ==
  ASSUME NEW T \in SUBSET Nat, T # {}
  PROVE  \E x \in T : \A y \in T : x <= y
<1> DEFINE R == {ss \in Nat \X Nat : ss[1] < ss[2]}
<1>1. IsWellFoundedOn(R, Nat)
  BY NatLessThanWellFounded DEF OpToRel
<1>2. \A x, y \in Nat : y < x => <<y, x>> \in R
  OBVIOUS
<1> HIDE DEF R
<1>3. PICK x \in T : \A y \in T : ~ (<<y, x>> \in R)
  BY <1>1, WFMin
<1>4. ASSUME NEW y \in T PROVE x <= y
  <2>1. x \in Nat /\ y \in Nat /\ ~ (y < x)
    BY <1>2, <1>3
  <2> QED
    BY <2>1
<1> QED
  BY <1>4

\* The next buffer is the first from here on; after the last comes none.
LEMMA BufferFromFirst ==
  ASSUME N \in Nat, NEW i \in 1 .. N + 1
  PROVE  /\ BufferFrom(i) \in i .. N + 1 /\ BufferFrom(i) \in 1 .. N + 1
         /\ BufferFrom(i) <= N => HasParams(BufferFrom(i))
         /\ \A m \in i .. BufferFrom(i) - 1 : ~ HasParams(m)
<1> DEFINE T == {j \in i .. N + 1 : j <= N => HasParams(j)}
<1>1. T \in SUBSET Nat /\ N + 1 \in T
  OBVIOUS
<1>2. PICK x \in T : \A y \in T : x <= y
  BY <1>1, LeastNat
<1>3. \A m \in i .. x - 1 : m \in i .. N + 1 /\ m <= N /\ ~ (x <= m)
  BY <1>2
<1>4. \A m \in i .. x - 1 : ~ HasParams(m)
  BY <1>2, <1>3
<1>5. \E j \in i .. Len(segments) + 1 :
         /\ j <= Len(segments) => HasParams(j)
         /\ \A m \in i .. j - 1 : ~ HasParams(m)
  BY <1>2, <1>4 DEF N
<1>6. /\ BufferFrom(i) \in i .. N + 1
      /\ BufferFrom(i) <= N => HasParams(BufferFrom(i))
      /\ \A m \in i .. BufferFrom(i) - 1 : ~ HasParams(m)
  BY <1>5 DEF BufferFrom, N
<1> QED
  BY <1>6

-----------------------------------------------------------------------------
(* The loop                                                                *)

\* Every way a job can end is one of those of the loop.
LEMMA BrokenEnds == \A device : Broken(device) \subseteq {"panicked", "hung"}
BY DEF Broken

\* What is learned of the data has the values data can have.
LEMMA LearnedType ==
  ASSUME NEW known, NEW what, NEW values \in SUBSET Nat,
         \A p \in DOMAIN known : known[p] \in Nat,
         NEW next \in Learned(known, what, values)
  PROVE  /\ what \in DOMAIN next /\ \A p \in DOMAIN next : next[p] \in Nat
         /\ \A p \in DOMAIN known : p \in DOMAIN next /\ next[p] = known[p]
<1>1. PICK v \in IF what \in DOMAIN known THEN {known[what]} ELSE values :
        next = With(known, what, v)
  BY DEF Learned
<1>2. v \in Nat /\ (what \in DOMAIN known => v = known[what])
  OBVIOUS
<1>3. /\ DOMAIN next = DOMAIN known \cup {what}
      /\ \A p \in DOMAIN next : next[p] = IF p = what THEN v ELSE known[p]
  BY <1>1 DEF With
<1>4. \A p \in DOMAIN next : next[p] \in Nat
  BY <1>2, <1>3
<1>5. \A p \in DOMAIN known : p \in DOMAIN next /\ next[p] = known[p]
  BY <1>2, <1>3
<1> QED
  BY <1>3, <1>4, <1>5

\* The loop keeps its counters, whatever job is done.
LEMMA LoopStep ==
  ASSUME BuilderInv, MadeInv, LoopInv, Next
  PROVE  LoopInv'
<1>0. /\ N \in Nat /\ DOMAIN segments = 1 .. N
      /\ builder.status = "built" => N >= 1
  BY SegmentFacts
<1>p. CASE Plan
  BY <1>p
     DEF Plan, trainVars, loop, pass, buffers, given, LoopInv, InEpoch, Passing, Learning, Working,
         Ended, Phases
<1>u. CASE UNCHANGED plan /\ stage' # "plan"
  <2>1. N' = N /\ builder' = builder /\ segments' = segments
    BY <1>u DEF plan, segments, N
  <2>e. ASSUME NEW how \in Ended, Ends(how), epochs' \in Nat PROVE LoopInv'
    BY <2>e DEF Ends, LoopInv, InEpoch, loop, Passing, Learning, Working, Ended, Phases
  <2>s. ASSUME NEW how \in Ended, Stop(how) PROVE LoopInv'
    BY <2>e, <2>s DEF Stop, LoopInv
  <2>2. CASE BuildFails \/ Finish
    BY <2>2, <2>s DEF BuildFails, Finish, Ended
  <2>3. CASE Start
    <3>1. /\ builder.status = "built" /\ epochs' \in Nat /\ epoch = 0 /\ features = EmptyMap
          /\ batch = 0 /\ workers' \in {"parallel", "sequential"} /\ UNCHANGED given
      BY <2>3, TrainingAssumption DEF Start, LoopInv
    <3>2. CASE Ends("panicked")
      BY <2>e, <3>1, <3>2 DEF Ended
    <3>3. CASE stage' = "epoch" /\ UNCHANGED <<epoch, batch>>
      <4>1. epoch' <= epochs'
        BY <3>1, <3>3
      <4>2. \A p \in DOMAIN features' : features'[p] \in Nat
        BY <3>1 DEF given, EmptyMap
      <4> QED
        BY <2>1, <3>1, <3>3, <4>1, <4>2
           DEF LoopInv, InEpoch, Passing, Working, Learning, Ended, Phases
    <3> QED
      BY <2>3, <3>2, <3>3 DEF Start
  <2>4. ASSUME NEW reassign \in BOOLEAN, ObserveEpoch(reassign) PROVE LoopInv'
    BY <2>1, <2>4
       DEF ObserveEpoch, loop, given, LoopInv, InEpoch, Passing, Working, Learning, Ended, Phases
  <2>5. ASSUME NEW what \in {"train", "validate", "test"}, BeginForward(what),
               stage \in {"epoch", "batches", "validated"},
               what = "train" => batch' = batch + 1, what # "train" => batch' = batch,
               stage = "epoch" => what = "test" /\ epoch = epochs,
               what = "test" => stage = "epoch"
        PROVE  LoopInv'
    <3>1. 1 \in 1 .. N + 1 /\ batch' \in Nat /\ (what = "train" => batch' >= 1)
      BY <1>0, <2>5 DEF LoopInv
    <3>2. \A p \in DOMAIN features : features[p] \in Nat
      BY <2>5 DEF LoopInv, Working
    <3>3. \A p \in DOMAIN features' : features'[p] \in Nat
      BY <2>5, <3>2, LearnedType, BuilderAssumption DEF BeginForward
    <3> QED
      BY <2>1, <2>5, <3>1, <3>3
         DEF BeginForward, LoopInv, InEpoch, Passing, Working, Learning, Ended, Phases
  <2>6. CASE TrainBatch \/ Validate \/ TestForward
    BY <2>5, <2>6 DEF TrainBatch, Validate, TestForward
  <2>7. CASE EndEpoch
    <3>1. epoch < epochs /\ epoch \in Nat /\ epochs \in Nat /\ epoch' = epoch + 1
      BY <2>7 DEF EndEpoch, LoopInv, InEpoch
    <3>2. epoch' \in Nat /\ epoch' <= epochs
      BY <3>1
    <3> QED
      BY <2>1, <2>7, <3>2
         DEF EndEpoch, given, LoopInv, InEpoch, Passing, Working, Learning, Ended, Phases
  <2>8. ASSUME stage = "forward", stage' = "forward", k \in DOMAIN segments, k' = k + 1,
               UNCHANGED <<plan, stage, loop, purpose, given>>
        PROVE  LoopInv'
    <3>1. k' \in 1 .. N + 1
      BY <1>0, <2>8
    <3> QED
      BY <2>1, <2>8, <3>1 DEF loop, given, LoopInv, InEpoch, Passing, Working, Learning, Ended,
         Phases
  <2>9. CASE ForwardUniversal
    <3>1. \/ Stop("error") \/ \E how \in Broken(OperatorMemory(k)) : Stop(how)
          \/ stage = "forward" /\ k \in DOMAIN segments /\ k' = k + 1
             /\ UNCHANGED <<plan, stage, loop, purpose, given>>
      BY <2>9 DEF ForwardUniversal, ForwardStep, InForward
    <3> QED
      BY <2>s, <2>8, <3>1 DEF Broken, Ended
  <2>10. CASE ForwardDimOp
    <3>1. \/ Stop("error") \/ Stop("panicked")
          \/ stage = "forward" /\ k \in DOMAIN segments /\ k' = k + 1
             /\ UNCHANGED <<plan, stage, loop, purpose, given>>
      BY <2>10 DEF ForwardDimOp, ForwardStep, InForward
    <3> QED
      BY <2>s, <2>8, <3>1 DEF Broken, Ended
  <2>11. CASE ForwardConnector
    <3>1. \/ Stop("error") \/ Stop("panicked")
          \/ stage = "forward" /\ k \in DOMAIN segments /\ k' = k + 1
             /\ UNCHANGED <<plan, stage, loop, purpose, given>>
      BY <2>11 DEF ForwardConnector, ForwardStep, InForward
    <3> QED
      BY <2>s, <2>8, <3>1 DEF Broken, Ended
  <2>12. CASE EndForward
    <3>1. CASE Stop("error")
      BY <2>s, <3>1 DEF Ended
    <3>2. CASE ~ Stop("error")
      BY <2>1, <2>12, <3>2
         DEF EndForward, loop, given, LoopInv, InEpoch, Passing, Working, Learning, Ended, Phases
    <3> QED
      BY <3>1, <3>2
  <2>13. CASE Loss
    <3>1. CASE Ends("panicked") /\ UNCHANGED <<epochs, workers, optimizer>>
      BY <2>e, <3>1 DEF Ended, LoopInv
    <3>2. CASE stage' = "backward"
      <4>1. k' \in 0 .. N
        BY <1>0, <2>13, <3>2 DEF Loss, Ends, N
      <4> QED
        BY <2>1, <2>13, <3>2, <4>1
           DEF Loss, Ends, loop, LoopInv, InEpoch, Passing, Working, Learning, Ended, Phases
    <3>3. CASE stage' \in {"validated", "tested"}
      BY <2>1, <2>13, <3>3
         DEF Loss, Ends, loop, pass, LoopInv, InEpoch, Passing, Working, Learning, Ended, Phases
    <3> QED
      BY <2>13, <3>1, <3>2, <3>3 DEF Loss
  <2>14. ASSUME stage = "backward", k \in DOMAIN segments, k' = k - 1,
                UNCHANGED <<plan, stage, loop, purpose, given>>
         PROVE  LoopInv'
    <3>1. k' \in 0 .. N
      BY <1>0, <2>14
    <3> QED
      BY <2>1, <2>14, <3>1 DEF loop, given, LoopInv, InEpoch, Passing, Working, Learning, Ended,
         Phases
  <2>15. CASE BackwardUniversal
    <3>1. \/ Stop("error") \/ \E how \in Broken(OperatorMemory(k)) : Stop(how)
          \/ stage = "backward" /\ k \in DOMAIN segments /\ k' = k - 1
             /\ UNCHANGED <<plan, stage, loop, purpose, given>>
      BY <2>15 DEF BackwardUniversal, BackwardStep, InBackward
    <3> QED
      BY <2>s, <2>14, <3>1 DEF Broken, Ended
  <2>16. CASE BackwardDimOp
    <3>1. \/ Stop("error") \/ Stop("panicked")
          \/ stage = "backward" /\ k \in DOMAIN segments /\ k' = k - 1
             /\ UNCHANGED <<plan, stage, loop, purpose, given>>
      BY <2>16 DEF BackwardDimOp, BackwardStep, InBackward
    <3> QED
      BY <2>s, <2>14, <3>1 DEF Broken, Ended
  <2>17. CASE BackwardConnector
    <3>1. \/ Stop("error") \/ Stop("panicked")
          \/ stage = "backward" /\ k \in DOMAIN segments /\ k' = k - 1
             /\ UNCHANGED <<plan, stage, loop, purpose, given>>
      BY <2>17 DEF BackwardConnector, BackwardStep, InBackward
    <3> QED
      BY <2>s, <2>14, <3>1 DEF Broken, Ended
  <2>18. ASSUME stage \in Learning, stage' \in Phases, UNCHANGED <<plan, loop, purpose, given>>,
                k' \in 1 .. N + 1, k' <= N => HasParams(k')
         PROVE  LoopInv'
    <3>1. HasParams(k)' <=> HasParams(k')
      BY <2>1 DEF HasParams
    <3> QED
      BY <2>1, <2>18, <3>1 DEF loop, given, LoopInv, InEpoch, Passing, Working, Learning, Ended,
         Phases
  <2>19. CASE EndBackward
    <3>1. CASE Stop("error")
      BY <2>s, <3>1 DEF Ended
    <3>2. CASE ~ Stop("error")
      <4>1. k' \in 1 .. N + 1 /\ (k' <= N => HasParams(k'))
        BY <1>0, <2>19, <3>2, BufferFromFirst DEF EndBackward
      <4> QED
        BY <2>18, <2>19, <3>2, <4>1 DEF EndBackward, Learning, Phases
    <3> QED
      BY <3>1, <3>2
  <2>20. CASE ModifyGrads \/ ApplyUpdate
    <3>1. CASE Stop("panicked")
      BY <2>s, <3>1 DEF Ended
    <3>2. CASE ~ Stop("panicked")
      <4>1. /\ stage \in Phases /\ stage' = stage /\ k \in DOMAIN segments
            /\ k' = BufferFrom(k + 1) /\ UNCHANGED <<plan, loop, purpose, given>>
        BY <2>20, <3>2 DEF ModifyGrads, ApplyUpdate, InBuffers, StayInPass, Phases
      <4>2. k + 1 \in 1 .. N + 1
        BY <1>0, <4>1
      <4>3. k' \in 1 .. N + 1 /\ (k' <= N => HasParams(k'))
        BY <1>0, <4>1, <4>2, BufferFromFirst
      <4> QED
        BY <2>18, <4>1, <4>3 DEF Learning, Phases
    <3> QED
      BY <3>1, <3>2
  <2>21. CASE EndModify \/ EndApply
    BY <2>1, <2>21
       DEF EndModify, EndApply, StayInPass, loop, given, LoopInv, InEpoch, Passing, Working,
           Learning, Ended, Phases
  <2>22. CASE AdapterPass
    <3>1. CASE Stop("error")
      BY <2>s, <3>1 DEF Ended
    <3>2. CASE ~ Stop("error")
      <4>1. /\ stage = "adapters" /\ stage' = "apply" /\ k' = BufferFrom(1)
            /\ UNCHANGED <<plan, loop, purpose, given>>
        BY <2>22, <3>2 DEF AdapterPass, StayInPass
      <4>2. k' \in 1 .. N + 1 /\ (k' <= N => HasParams(k'))
        BY <1>0, <4>1, BufferFromFirst
      <4> QED
        BY <2>18, <4>1, <4>2 DEF Learning, Phases
    <3> QED
      BY <3>1, <3>2
  <2>23. CASE Plan
    BY <1>u, <2>23 DEF Plan, trainVars
  <2>24. CASE Refusals
    <3>1. \E how \in Ended : Ends(how) /\ epochs' = 0
      BY <2>24 DEF Refusals, RefuseData, RefuseFrequency, RefuseMemory, Refuse, Ended
    <3> QED
      BY <2>e, <3>1
  <2> QED
    BY <2>2, <2>3, <2>4, <2>6, <2>7, <2>9, <2>10, <2>11, <2>12, <2>13, <2>15, <2>16, <2>17,
       <2>19, <2>20, <2>21, <2>22, <2>23, <2>24
       DEF Next, Epochs, Forward, Backward, Optimize
<1> QED
  BY <1>p, <1>u, PlanFixed

-----------------------------------------------------------------------------
(* The jobs of a pass, by what they do                                     *)

\* The job of a segment of one stream, which puts out r rows of size n: the
\* shape it was described with, if it got that and changes no planes.
OneStreamJob(r, n) ==
  /\ InForward /\ OnOneStream(Running) /\ ~ NoStream(streams)
  /\ rows[streams[Here]] \in Nat /\ size[streams[Here]] \in Nat =>
       /\ r \in Nat /\ n \in Nat
       /\ Plain(Running) /\ size[streams[Here]] = Running.in[1] =>
            r = rows[streams[Here]] /\ n = Running.out[1]
  /\ \E outs \in {<<OutOf(k, 1)>>, <<>>} :
       /\ Running.kind = "Universal" => outs = <<OutOf(k, 1)>>
       /\ ForwardStep(<<streams[Here]>>, <<OutOf(k, 1)>>, r, <<n>>, OperatorMemory(k),
                      [streams EXCEPT ![Here] = OutOf(k, 1)],
                      Saved(<<streams[Here]>>, outs, OperatorMemory(k)))

\* What a Splitter or Combiner puts out.
ConnectorOuts(i) == [j \in DOMAIN segments[i].out |-> OutOf(i, j)]

\* The job of a connector.
ConnectorJob ==
  /\ InForward /\ ~ OnOneStream(Running) /\ Len(streams) = Len(Running.in)
  /\ ForwardStep(streams, ConnectorOuts(k), rows[streams[1]], Running.out, "ram",
                 ConnectorOuts(k), Saved(streams, ConnectorOuts(k), "ram"))

\* The backward job of a segment of one stream.
OneStreamBack(r, n) ==
  /\ InBackward /\ OnOneStream(Running) /\ ~ NoStream(grads)
  /\ /\ rows[cache[k].in[1]] \in Nat /\ grads[Here].rows \in Nat /\ grads[Here].size \in Nat
     => /\ r \in Nat /\ n \in Nat
        /\ /\ Plain(Running) /\ grads[Here].size = Running.out[1]
           /\ grads[Here].rows = rows[cache[k].in[1]]
           => r = grads[Here].rows /\ n = Running.in[1]
  /\ \E device \in Devices :
       BackwardStep([grads EXCEPT ![Here] = Gradient(cache[k].in[1], r, n, device)], {})

\* The backward job of a connector.
ConnectorBack ==
  /\ InBackward /\ ~ OnOneStream(Running) /\ Len(grads) = Len(Running.out)
  /\ BackwardStep(ConnectorGrads, ToSet(cache[k].in))

\* A factor that is not zero cancels.
LEMMA Cancel ==
  ASSUME NEW r \in Nat \ {0}, NEW w \in Nat, NEW n \in Nat, r * w = r * n
  PROVE  w = n
<1>1. r * (w - n) = 0
  OBVIOUS
<1>2. w - n # 0 => r * (w - n) # 0
  OBVIOUS
<1> QED
  BY <1>1, <1>2

\* The shapes a dimension operation can give are shapes; without planes it
\* keeps the one it gets.
LEMMA ReshapedType ==
  ASSUME NEW kind, NEW dims \in Seq(Nat), Len(dims) \in {1, 2}, PlanesThere(dims),
         NEW r \in Nat, NEW n \in Nat, NEW t \in Reshaped(kind, dims, r, n)
  PROVE  /\ t[1] \in Nat /\ t[2] \in Nat
         /\ Len(dims) = 1 /\ n = dims[1] => t[1] = r /\ t[2] = n
<1>1. PlanesOf(dims) \in Nat \ {0} /\ LastOf(dims) \in Nat
  BY DEF PlanesOf, LastOf, PlanesThere
<1>2. CASE kind = "Unsqueeze"
  <2>1. t = <<r * PlanesOf(dims), LastOf(dims)>>
    BY <1>2 DEF Reshaped
  <2>2. Len(dims) = 1 => PlanesOf(dims) = 1 /\ LastOf(dims) = dims[1]
    BY DEF PlanesOf, LastOf
  <2>3. r * PlanesOf(dims) \in Nat
    BY <1>1
  <2> QED
    BY <1>1, <2>1, <2>2, <2>3
<1>3. CASE kind # "Unsqueeze"
  <2>1. PICK w \in 0 .. r * n : t = <<r \div PlanesOf(dims), w>> /\ t[1] # 0 /\ t[1] * t[2] = r * n
    BY <1>3 DEF Reshaped
  <2>2. w \in Nat /\ r \div PlanesOf(dims) \in Nat
    <3> DEFINE q == PlanesOf(dims)
               z == r * n
    <3>1. q \in Nat \ {0} /\ z \in Nat /\ w \in 0 .. z
      BY <1>1
    <3> HIDE DEF q, z
    <3>2. w \in Nat /\ r \div q \in Nat
      BY <3>1
    <3> QED
      BY <3>2 DEF q
  <2>3. ASSUME Len(dims) = 1 PROVE r \div PlanesOf(dims) = r
    BY <2>3 DEF PlanesOf
  <2>4. ASSUME Len(dims) = 1 PROVE t[2] = n
    <3>1. r \in Nat \ {0} /\ r * w = r * n
      BY <2>1, <2>3, <2>4
    <3>2. w = n
      BY <2>2, <3>1, Cancel
    <3> QED
      BY <2>1, <3>2
  <2> QED
    BY <2>1, <2>2, <2>3, <2>4
<1> QED
  BY <1>2, <1>3

\* Without planes it has one.
LEMMA ReshapedThere ==
  ASSUME NEW kind, NEW dims \in Seq(Nat), Len(dims) = 1, NEW r \in Nat \ {0}
  PROVE  Reshaped(kind, dims, r, dims[1]) # {}
<1>0. dims[1] \in Nat
  BY 1 \in 1 .. Len(dims), ElementOfSeq
<1>1. CASE kind = "Unsqueeze"
  <2>1. Product(dims) = dims[1]
    BY DEF Product
  <2>2. Reshaped(kind, dims, r, dims[1]) = {<<r * PlanesOf(dims), LastOf(dims)>>}
    BY <1>1, <2>1 DEF Reshaped
  <2> QED
    BY <2>2
<1>2. CASE kind # "Unsqueeze"
  <2> DEFINE n == dims[1]
             t == <<r, n>>
  <2>1. r \div 1 = r /\ PlanesOf(dims) = 1
    BY DEF PlanesOf
  <2>2. r * n \in Nat /\ n <= r * n
    <3> HIDE DEF n
    <3>1. r - 1 \in Nat /\ r * n = (r - 1) * n + n
      BY <1>0 DEF n
    <3> DEFINE m == (r - 1) * n
               p == r * n
    <3>2. m \in Nat /\ n \in Nat
      BY <1>0, <3>1 DEF n
    <3>3. p = m + n
      BY <3>1
    <3> HIDE DEF m, p
    <3>4. p \in Nat /\ n <= p
      BY <3>2, <3>3
    <3> QED
      BY <3>4 DEF p
  <2>3. n \in 0 .. r * n
    BY <1>0, <2>2
  <2>4. t[1] # 0 /\ t[1] * t[2] = r * n
    OBVIOUS
  <2> HIDE DEF n
  <2>5. t \in {s \in {<<r \div PlanesOf(dims), w>> : w \in 0 .. r * n} : s[1] # 0 /\ s[1] * s[2] = r * n}
    BY <2>1, <2>3, <2>4
  <2> QED
    BY <1>2, <2>5 DEF Reshaped, n
<1> QED
  BY <1>1, <1>2

\* A step that ends training.
Stops == \E how \in Ended : Ends(how)

LEMMA StopStops ==
  ASSUME NEW how \in {"error", "panicked", "hung", "done"}, Stop(how)
  PROVE  Stops
<1>1. Ends(how)
  BY DEF Stop
<1>2. how \in Ended
  BY DEF Ended
<1> QED
  BY <1>1, <1>2, Zenon DEF Stops

LEMMA BrokenStops ==
  ASSUME NEW device, NEW how \in Broken(device), Stop(how)
  PROVE  Stops
BY BrokenEnds, StopStops

\* The shape of a segment that runs.
LEMMA RunningShape ==
  ASSUME BuilderInv, MadeInv, k \in DOMAIN segments
  PROVE  /\ WellMade(Running) /\ Running \in SegmentRec
         /\ OnOneStream(Running) <=> Running.kind \in {"Universal", "Unsqueeze", "ReduceMean"}
         /\ Running.in \in Seq(Nat) /\ Len(Running.in) \in {1, 2}
         /\ Running.out \in Seq(Nat) /\ Len(Running.out) \in {1, 2}
         /\ Running.in[1] \in Nat /\ Running.out[1] \in Nat
<1>1. WellMade(Running) /\ Running \in SegmentRec
  BY SegmentFacts DEF Running
<1>2. /\ Running.in \in Seq(Nat) /\ Len(Running.in) \in {1, 2}
      /\ Running.out \in Seq(Nat) /\ Len(Running.out) \in {1, 2}
  BY <1>1 DEF WellMade, SegmentRec
<1>3. Running.in[1] \in Nat /\ Running.out[1] \in Nat
  BY <1>2
<1> QED
  BY <1>1, <1>2, <1>3 DEF OnOneStream, DimOps

\* A forward job runs or stops training.
LEMMA ForwardCases ==
  ASSUME BuilderInv, MadeInv, Forward, ~ EndForward, ~ Stops
  PROVE  (\E r, n : OneStreamJob(r, n)) \/ ConnectorJob
<1>1. ASSUME InForward
      PROVE  /\ WellMade(Running) /\ Running \in SegmentRec
             /\ OnOneStream(Running) <=> Running.kind \in {"Universal", "Unsqueeze", "ReduceMean"}
             /\ Running.out \in Seq(Nat) /\ Len(Running.out) \in {1, 2} /\ Running.out[1] \in Nat
  BY <1>1, RunningShape DEF InForward
<1>2. CASE ForwardUniversal
  <2>1. /\ InForward /\ OnOneStream(Running) /\ Len(Running.out) = 1
        /\ Running.out \in Seq(Nat) /\ Running.kind = "Universal" /\ Running.out[1] \in Nat
    BY <1>1, <1>2 DEF ForwardUniversal, WellMade
  <2>2. Running.out = <<Running.out[1]>>
    BY <2>1
  <2>3. /\ ~ NoStream(streams)
        /\ ForwardStep(<<streams[Here]>>, <<OutOf(k, 1)>>, rows[streams[Here]], Running.out,
                       OperatorMemory(k), [streams EXCEPT ![Here] = OutOf(k, 1)],
                       Saved(<<streams[Here]>>, <<OutOf(k, 1)>>, OperatorMemory(k)))
    BY <1>2, BrokenStops, StopStops DEF ForwardUniversal
  <2>4. OneStreamJob(rows[streams[Here]], Running.out[1])
    BY <2>1, <2>2, <2>3 DEF OneStreamJob
  <2> QED
    BY <2>4
<1>3. CASE ForwardDimOp
  <2>1. /\ InForward /\ OnOneStream(Running) /\ Running.kind \in DimOps
        /\ Running.kind # "Universal" /\ WellMade(Running)
        /\ Running.out \in Seq(Nat) /\ Len(Running.out) \in {1, 2}
    BY <1>1, <1>3 DEF ForwardDimOp, DimOps
  <2>2. OperatorMemory(k) = "ram"
    BY <2>1 DEF OperatorMemory, Running
  <2>3. ~ NoStream(streams)
    BY <1>3, StopStops DEF ForwardDimOp
  <2>4. PICK t \in Reshaped(Running.kind, Running.out, rows[streams[Here]], size[streams[Here]]) :
          ForwardStep(<<streams[Here]>>, <<OutOf(k, 1)>>, t[1], <<t[2]>>, "ram",
                      [streams EXCEPT ![Here] = OutOf(k, 1)],
                      Saved(<<streams[Here]>>, <<>>, "ram"))
    BY <1>3, <2>3, StopStops DEF ForwardDimOp
  <2>5. ASSUME rows[streams[Here]] \in Nat, size[streams[Here]] \in Nat
        PROVE  /\ t[1] \in Nat /\ t[2] \in Nat
               /\ Plain(Running) /\ size[streams[Here]] = Running.in[1] =>
                    t[1] = rows[streams[Here]] /\ t[2] = Running.out[1]
    <3>1. PlanesThere(Running.out)
      BY <2>1 DEF WellMade
    <3>2. /\ t[1] \in Nat /\ t[2] \in Nat
          /\ Len(Running.out) = 1 /\ size[streams[Here]] = Running.out[1] =>
               t[1] = rows[streams[Here]] /\ t[2] = size[streams[Here]]
      BY <2>1, <2>5, <3>1, ReshapedType
    <3>3. Plain(Running) => Len(Running.out) = 1 /\ Running.in[1] = Running.out[1]
      BY <2>1 DEF Plain, WellMade
    <3> QED
      BY <3>2, <3>3
  <2>6. OneStreamJob(t[1], t[2])
    BY <2>1, <2>2, <2>3, <2>4, <2>5 DEF OneStreamJob
  <2> QED
    BY <2>6
<1>4. CASE ForwardConnector
  <2>1. InForward /\ ~ OnOneStream(Running)
    BY <1>1, <1>4 DEF ForwardConnector
  <2> QED
    BY <1>4, <2>1, StopStops DEF ForwardConnector, ConnectorJob, ConnectorOuts, Running
<1> QED
  BY <1>2, <1>3, <1>4 DEF Forward

\* So does a backward job.
LEMMA BackwardCases ==
  ASSUME BuilderInv, MadeInv, Backward, ~ EndBackward, ~ Stops
  PROVE  (\E r, n : OneStreamBack(r, n)) \/ ConnectorBack
<1>1. ASSUME InBackward
      PROVE  /\ WellMade(Running) /\ Running \in SegmentRec
             /\ OnOneStream(Running) <=> Running.kind \in {"Universal", "Unsqueeze", "ReduceMean"}
             /\ Running.in \in Seq(Nat) /\ Len(Running.in) \in {1, 2} /\ Running.in[1] \in Nat
  BY <1>1, RunningShape DEF InBackward
<1>2. CASE BackwardUniversal
  <2>1. /\ InBackward /\ OnOneStream(Running) /\ OperatorMemory(k) \in Devices
        /\ Running.in[1] \in Nat
    BY <1>1, <1>2 DEF BackwardUniversal, OperatorMemory, Devices
  <2>3. /\ ~ NoStream(grads)
        /\ BackwardStep([grads EXCEPT ![Here] =
                           Gradient(cache[k].in[1], rows[cache[k].in[1]], Running.in[1],
                                    OperatorMemory(k))], {})
    BY <1>2, BrokenStops, StopStops DEF BackwardUniversal
  <2>4. OneStreamBack(rows[cache[k].in[1]], Running.in[1])
    BY <2>1, <2>3 DEF OneStreamBack
  <2> QED
    BY <2>4
<1>3. CASE BackwardDimOp
  <2>1. /\ InBackward /\ OnOneStream(Running) /\ "ram" \in Devices /\ Running.kind \in DimOps
        /\ WellMade(Running) /\ Running.in \in Seq(Nat) /\ Len(Running.in) \in {1, 2}
    BY <1>1, <1>3 DEF BackwardDimOp, DimOps, Devices
  <2>3. ~ NoStream(grads)
    BY <1>3, StopStops DEF BackwardDimOp
  <2>4. PICK t \in Reshaped(Undoes(Running.kind), Running.in, grads[Here].rows, grads[Here].size) :
          BackwardStep([grads EXCEPT ![Here] = Gradient(cache[k].in[1], t[1], t[2], "ram")], {})
    BY <1>3, <2>3, StopStops DEF BackwardDimOp
  <2>5. ASSUME grads[Here].rows \in Nat, grads[Here].size \in Nat
        PROVE  /\ t[1] \in Nat /\ t[2] \in Nat
               /\ Plain(Running) /\ grads[Here].size = Running.out[1] =>
                    t[1] = grads[Here].rows /\ t[2] = Running.in[1]
    <3>1. PlanesThere(Running.in)
      BY <2>1 DEF WellMade
    <3>2. /\ t[1] \in Nat /\ t[2] \in Nat
          /\ Len(Running.in) = 1 /\ grads[Here].size = Running.in[1] =>
               t[1] = grads[Here].rows /\ t[2] = grads[Here].size
      BY <2>1, <2>5, <3>1, ReshapedType
    <3>3. Plain(Running) => Len(Running.in) = 1 /\ Running.in[1] = Running.out[1]
      BY <2>1 DEF Plain, WellMade
    <3> QED
      BY <3>2, <3>3
  <2>6. OneStreamBack(t[1], t[2])
    BY <2>1, <2>3, <2>4, <2>5 DEF OneStreamBack
  <2> QED
    BY <2>6
<1>4. CASE BackwardConnector
  <2>1. InBackward /\ ~ OnOneStream(Running)
    BY <1>1, <1>4 DEF BackwardConnector
  <2> QED
    BY <1>4, <2>1, StopStops DEF BackwardConnector, ConnectorBack
<1> QED
  BY <1>2, <1>3, <1>4 DEF Backward

\* A forward pass begins, on a batch for training or on other data.
Begun(what) ==
  /\ BeginForward(what) /\ stage \in {"epoch", "batches", "validated"}
  /\ what = "train" => stage = "batches" /\ batch' = batch + 1
  /\ what = "validate" => stage # "epoch" /\ batch' = batch
  /\ what = "test" => stage = "epoch" /\ epoch = epochs /\ batch' = batch

\* The steps of training, by what they do.
LEMMA StepCases ==
  ASSUME BuilderInv, MadeInv, Next
  PROVE  \/ Plan \/ Stops \/ (Start /\ ~ Stops)
         \/ (\E reassign \in BOOLEAN : ObserveEpoch(reassign))
         \/ (\E what \in {"train", "validate", "test"} : Begun(what)) \/ EndEpoch
         \/ (\E r, n : OneStreamJob(r, n)) \/ ConnectorJob \/ (EndForward /\ ~ Stops)
         \/ (Loss /\ ~ Stops)
         \/ (\E r, n : OneStreamBack(r, n)) \/ ConnectorBack \/ (EndBackward /\ ~ Stops)
         \/ (ModifyGrads /\ ~ Stops) \/ EndModify \/ (AdapterPass /\ ~ Stops)
         \/ (ApplyUpdate /\ ~ Stops) \/ EndApply
<1>1. CASE BuildFails \/ Finish
  BY <1>1, StopStops DEF BuildFails, Finish
<1>2. CASE TrainBatch \/ Validate \/ TestForward
  BY <1>2 DEF TrainBatch, Validate, TestForward, Begun
<1>3. CASE Forward /\ ~ EndForward
  BY <1>3, ForwardCases
<1>5. CASE Backward /\ ~ EndBackward
  BY <1>5, BackwardCases
<1>6. CASE Refusals
  BY <1>6 DEF Refusals, RefuseData, RefuseFrequency, RefuseMemory, Refuse, Stops, Ended
<1> QED
  BY <1>1, <1>2, <1>3, <1>5, <1>6 DEF Next, Epochs, Forward, Backward, Optimize

-----------------------------------------------------------------------------
(* The streams of a pass, kept                                             *)

\* A segment of one stream that ran lengthens the trace.
LEMMA TraceMore ==
  ASSUME NEW segs, NEW saved \in Seq(CacheRec), NEW c \in CacheRec, NEW y, NEW z \in Seq(Nat),
         TraceTo(segs, saved, Len(saved), y),
         Linked(segs[Len(saved) + 1], Len(saved) + 1, c.in, y, z)
  PROVE  TraceTo(segs, Append(saved, c), Len(saved) + 1, z)
<1> DEFINE n == Len(saved)
           more == Append(saved, c)
<1>1. /\ n \in Nat /\ DOMAIN saved = 1 .. n /\ DOMAIN more = 1 .. n + 1
      /\ \A i \in 1 .. n : more[i] = saved[i]
      /\ more[n + 1] = c
  BY AppendProperties
<1>2. PICK trace : Trace(segs, saved, trace) /\ trace[n] = y
  BY DEF TraceTo
<1>l. Linked(segs[n + 1], n + 1, c.in, y, z)
  OBVIOUS
<1> DEFINE next == [trace EXCEPT ![n + 1] = z]
<1> HIDE DEF n, more
<1>3. /\ trace \in [Nat -> Seq(Nat)] /\ trace[0] = <<Input>>
      /\ \A i \in 1 .. n : Linked(segs[i], i, saved[i].in, trace[i - 1], trace[i])
  BY <1>1, <1>2 DEF Trace
<1>4. /\ next \in [Nat -> Seq(Nat)] /\ next[n + 1] = z
      /\ \A i \in 0 .. n : next[i] = trace[i]
  BY <1>1, <1>3
<1> HIDE DEF next
<1>5. next[0] = <<Input>>
  <2>1. 0 \in 0 .. n
    BY <1>1
  <2>2. next[0] = trace[0]
    BY <1>4, <2>1
  <2> QED
    BY <1>3, <2>2
<1>6. ASSUME NEW i \in 1 .. n + 1
      PROVE  Linked(segs[i], i, more[i].in, next[i - 1], next[i])
  <2>1. CASE i \in 1 .. n
    <3>0. i \in 0 .. n /\ i - 1 \in 0 .. n
      BY <1>1, <2>1
    <3>1. next[i] = trace[i] /\ next[i - 1] = trace[i - 1] /\ more[i] = saved[i]
      BY <1>1, <1>4, <2>1, <3>0
    <3> QED
      BY <1>3, <2>1, <3>1
  <2>2. CASE i = n + 1
    <3>0. i - 1 = n /\ n \in 0 .. n
      BY <1>1, <2>2
    <3>1. next[i] = z /\ next[i - 1] = y /\ more[i] = c
      BY <1>1, <1>2, <1>4, <2>2, <3>0
    <3> QED
      BY <1>l, <2>2, <3>1
  <2> QED
    BY <1>1, <2>1, <2>2
<1>7. Trace(segs, more, next)
  BY <1>1, <1>4, <1>5, <1>6 DEF Trace
<1> QED
  BY <1>1, <1>4, <1>7 DEF TraceTo, more, n

\* What a job saves.
LEMMA SavedType ==
  ASSUME NEW ins \in Seq(Nat), NEW outs \in Seq(Nat), NEW device
  PROVE  /\ Saved(ins, outs, device) \in CacheRec
         /\ Saved(ins, outs, device).in = ins /\ Saved(ins, outs, device).out = outs
BY DEF Saved, CacheRec

\* A segment writes buffers of its own.
LEMMA OutOfType ==
  ASSUME NEW i \in Nat \ {0}, NEW j \in Nat \ {0}
  PROVE  OutOf(i, j) \in Nat /\ OutOf(i, j) >= 2 * i
BY DEF OutOf

\* A forward job of one stream.
LEMMA OneStreamPass ==
  ASSUME BuilderInv, MadeInv, LoopInv, PassInv, NEW r, NEW n, OneStreamJob(r, n)
  PROVE  PassInv'
<1>0. N \in Nat /\ DOMAIN segments = 1 .. N /\ Here \in Nat \ {0} /\ k \in 1 .. N
  BY SegmentFacts DEF OneStreamJob, InForward, Here, Running
<1>1. /\ stage = "forward" /\ cache \in Seq(CacheRec) /\ Len(cache) = k - 1
      /\ streams \in Seq(Nat) /\ TraceTo(segments, cache, k - 1, streams)
      /\ OnOneStream(segments[k])
  BY DEF PassInv, Passing, OneStreamJob, InForward, Running
<1>1h. Here \in 1 .. Len(streams)
  <2>1. ~ (Here > Len(streams)) /\ Len(streams) \in Nat
    BY <1>1 DEF OneStreamJob, NoStream
  <2> QED
    BY <1>0, <2>1
<1> DEFINE out == OutOf(k, 1)
           next == [streams EXCEPT ![Here] = out]
<1>2. PICK outs \in {<<OutOf(k, 1)>>, <<>>} :
        ForwardStep(<<streams[Here]>>, <<OutOf(k, 1)>>, r, <<n>>, OperatorMemory(k), next,
                    Saved(<<streams[Here]>>, outs, OperatorMemory(k)))
  BY DEF OneStreamJob
<1> DEFINE c == Saved(<<streams[Here]>>, outs, OperatorMemory(k))
<1>3. Here \in DOMAIN streams /\ streams[Here] \in Nat
  BY <1>1, <1>1h
<1>4. out \in Nat
  BY <1>0 DEF OutOf
<1>5. c \in CacheRec /\ c.in = <<streams[Here]>>
  <2> DEFINE a == OutOf(k, 1)
             b == streams[Here]
  <2>1. a \in Nat /\ b \in Nat
    BY <1>3, <1>4
  <2>2. outs = <<a>> \/ outs = <<>>
    OBVIOUS
  <2> HIDE DEF a, b
  <2>3. <<b>> \in Seq(Nat) /\ <<a>> \in Seq(Nat)
    BY <2>1
  <2>4. outs \in Seq(Nat)
    BY <2>2, <2>3, EmptySeq
  <2> QED
    BY <2>3, <2>4, SavedType DEF b
<1>6. /\ stage' = "forward" /\ k' = k + 1 /\ streams' = next /\ cache' = Append(cache, c)
      /\ segments' = segments
  BY <1>1, <1>2 DEF ForwardStep, plan, segments
<1> HIDE DEF c, out
<1>7. next \in Seq(Nat)
  BY <1>1, <1>1h, <1>4, ExceptSeq
<1>8. Linked(segments[k], k, c.in, streams, next)
  BY <1>1, <1>3, <1>5 DEF Linked, Here, Running, out
<1> HIDE DEF next
<1>9. TraceTo(segments, Append(cache, c), k, next)
  <2>1. Len(cache) + 1 = k
    BY <1>0, <1>1
  <2>2. TraceTo(segments, Append(cache, c), Len(cache) + 1, next)
    BY <1>1, <1>5, <1>7, <1>8, <2>1, TraceMore
  <2> QED
    BY <2>1, <2>2
<1>10. cache' \in Seq(CacheRec) /\ Len(cache') = k' - 1 /\ k' - 1 = k
  BY <1>0, <1>1, <1>5, <1>6, AppendProperties
<1> QED
  BY <1>6, <1>7, <1>9, <1>10 DEF PassInv, Passing, Learning

\* A connector numbers what it puts out.
LEMMA ConnectorOutsType ==
  ASSUME BuilderInv, MadeInv, NEW i \in 1 .. N
  PROVE  /\ ConnectorOuts(i) \in Seq(Nat) /\ Len(ConnectorOuts(i)) = Len(segments[i].out)
         /\ DOMAIN ConnectorOuts(i) = 1 .. Len(segments[i].out)
         /\ Len(segments[i].out) \in {1, 2}
         /\ \A j \in DOMAIN ConnectorOuts(i) : ConnectorOuts(i)[j] = OutOf(i, j)
<1>1. /\ N \in Nat /\ segments[i].out \in Seq(Nat) /\ Len(segments[i].out) \in {1, 2}
  BY SegmentFacts DEF SegmentRec, WellMade
<1>2. DOMAIN segments[i].out = 1 .. Len(segments[i].out) /\ Len(segments[i].out) \in Nat
  BY <1>1
<1>3. \A j \in DOMAIN segments[i].out : OutOf(i, j) \in Nat
  BY <1>1, <1>2 DEF OutOf
<1> QED
  BY <1>1, <1>2, <1>3 DEF ConnectorOuts

\* A forward job of a connector.
LEMMA ConnectorPass ==
  ASSUME BuilderInv, MadeInv, LoopInv, PassInv, ConnectorJob
  PROVE  PassInv'
<1>0. N \in Nat /\ DOMAIN segments = 1 .. N /\ k \in 1 .. N
  BY SegmentFacts DEF ConnectorJob, InForward
<1>1. /\ stage = "forward" /\ cache \in Seq(CacheRec) /\ Len(cache) = k - 1
      /\ streams \in Seq(Nat) /\ TraceTo(segments, cache, k - 1, streams)
      /\ ~ OnOneStream(segments[k]) /\ Len(streams) = Len(segments[k].in)
  BY DEF PassInv, Passing, ConnectorJob, InForward, Running
<1> DEFINE next == ConnectorOuts(k)
           c == Saved(streams, next, "ram")
<1>2. next \in Seq(Nat)
  BY <1>0, ConnectorOutsType
<1>3. c \in CacheRec /\ c.in = streams
  BY <1>1, <1>2, SavedType
<1>4. Linked(segments[k], k, c.in, streams, next)
  BY <1>1, <1>3 DEF Linked, ConnectorOuts
<1>5. /\ stage' = "forward" /\ k' = k + 1 /\ streams' = next /\ cache' = Append(cache, c)
      /\ segments' = segments
  BY <1>1 DEF ConnectorJob, ForwardStep, plan, segments
<1> HIDE DEF c, next
<1>6. TraceTo(segments, Append(cache, c), k, next)
  <2>1. Len(cache) + 1 = k
    BY <1>0, <1>1
  <2>2. TraceTo(segments, Append(cache, c), Len(cache) + 1, next)
    BY <1>1, <1>2, <1>3, <1>4, <2>1, TraceMore
  <2> QED
    BY <2>1, <2>2
<1>7. cache' \in Seq(CacheRec) /\ Len(cache') = k' - 1 /\ k' - 1 = k
  BY <1>0, <1>1, <1>3, <1>5, AppendProperties
<1> QED
  BY <1>2, <1>5, <1>6, <1>7 DEF PassInv, Passing, Learning

\* What a backward job finds: the gradients of the streams after its segment.
LEMMA BackwardFinds ==
  ASSUME BuilderInv, MadeInv, LoopInv, PassInv, InBackward
  PROVE  \E y \in Seq(Nat), z \in Seq(Nat) :
           /\ Linked(segments[k], k, cache[k].in, y, z)
           /\ Ofs(grads) = z /\ TraceTo(segments, cache, k - 1, y)
           /\ DOMAIN z = DOMAIN grads /\ Len(z) = Len(grads)
<1>0. N \in Nat /\ DOMAIN segments = 1 .. N /\ k \in 1 .. N
  BY SegmentFacts DEF InBackward
<1>1. /\ stage = "backward" /\ cache \in Seq(CacheRec) /\ Len(cache) = N
      /\ grads \in Seq(GradRec) /\ TraceTo(segments, cache, k, Ofs(grads))
  BY DEF InBackward, PassInv, Learning
<1>2. PICK trace : Trace(segments, cache, trace) /\ trace[k] = Ofs(grads)
  BY <1>1 DEF TraceTo
<1>3a. DOMAIN cache = 1 .. N /\ k - 1 \in Nat /\ k \in DOMAIN cache
  BY <1>0, <1>1
<1>3. /\ trace \in [Nat -> Seq(Nat)]
      /\ Linked(segments[k], k, cache[k].in, trace[k - 1], trace[k])
  BY <1>2, <1>3a DEF Trace
<1>4. TraceTo(segments, cache, k - 1, trace[k - 1])
  BY <1>2 DEF TraceTo
<1>5. trace[k] \in Seq(Nat) /\ trace[k - 1] \in Seq(Nat)
  BY <1>0, <1>3, <1>3a
<1>6. DOMAIN trace[k] = DOMAIN grads /\ Len(trace[k]) = Len(grads)
  <2>1. DOMAIN Ofs(grads) = DOMAIN grads
    BY DEF Ofs
  <2>2. DOMAIN grads = 1 .. Len(grads) /\ Len(grads) \in Nat
    BY <1>1
  <2>3. DOMAIN trace[k] = 1 .. Len(trace[k]) /\ Len(trace[k]) \in Nat
    BY <1>5
  <2> DEFINE a == Len(grads)
             b == Len(trace[k])
  <2>4. 1 .. a = 1 .. b /\ a \in Nat /\ b \in Nat
    BY <1>2, <2>1, <2>2, <2>3
  <2> HIDE DEF a, b
  <2>5. a = b
    BY <2>4
  <2> QED
    BY <1>2, <2>1, <2>5 DEF a, b
<1> QED
  BY <1>2, <1>3, <1>4, <1>5, <1>6

\* A backward job of one stream.
LEMMA OneStreamBackPass ==
  ASSUME BuilderInv, MadeInv, LoopInv, PassInv, NEW r \in Nat, NEW n \in Nat, OneStreamBack(r, n)
  PROVE  PassInv'
<1>0. N \in Nat /\ DOMAIN segments = 1 .. N /\ Here \in Nat \ {0} /\ k \in 1 .. N
  BY SegmentFacts DEF OneStreamBack, InBackward, Here, Running
<1>1. /\ stage = "backward" /\ cache \in Seq(CacheRec) /\ Len(cache) = N
      /\ grads \in Seq(GradRec) /\ InBackward
      /\ OnOneStream(segments[k])
  BY DEF OneStreamBack, InBackward, PassInv, Learning, Running
<1>2. PICK y \in Seq(Nat), z \in Seq(Nat) :
        /\ Linked(segments[k], k, cache[k].in, y, z)
        /\ Ofs(grads) = z /\ TraceTo(segments, cache, k - 1, y)
        /\ DOMAIN z = DOMAIN grads /\ Len(z) = Len(grads)
  BY <1>1, BackwardFinds
<1>3. /\ Here \in DOMAIN y /\ cache[k].in = <<y[Here]>> /\ z = [y EXCEPT ![Here] = OutOf(k, 1)]
  BY <1>1, <1>2 DEF Linked, Here, Running
<1>4. PICK device \in Devices :
        BackwardStep([grads EXCEPT ![Here] = Gradient(cache[k].in[1], r, n, device)], {})
  BY DEF OneStreamBack
<1> DEFINE g == Gradient(cache[k].in[1], r, n, device)
           next == [grads EXCEPT ![Here] = g]
<1>5. g \in GradRec /\ g.of = y[Here]
  BY <1>2, <1>3 DEF Gradient, GradRec
<1>6. /\ stage' = "backward" /\ k' = k - 1 /\ grads' = next /\ cache' = cache
      /\ segments' = segments /\ N' = N
  BY <1>1, <1>4 DEF BackwardStep, plan, segments, N
<1> HIDE DEF g
<1>7. next \in Seq(GradRec)
  <2>1. DOMAIN y = DOMAIN grads /\ DOMAIN grads = 1 .. Len(grads)
    BY <1>1, <1>2, <1>3
  <2> QED
    BY <1>1, <1>3, <1>5, <2>1, ExceptSeq
<1>8. Ofs(next) = y
  <2>1. DOMAIN y = DOMAIN grads /\ DOMAIN next = DOMAIN grads /\ DOMAIN Ofs(next) = DOMAIN y
    BY <1>2, <1>3 DEF Ofs
  <2>2. ASSUME NEW j \in DOMAIN y PROVE Ofs(next)[j] = y[j]
    <3>1. CASE j = Here
      BY <1>3, <1>5, <2>1, <3>1 DEF Ofs
    <3>2. CASE j # Here
      <4>1. next[j] = grads[j] /\ z[j] = y[j]
        BY <1>3, <2>1, <3>2
      <4>2. z[j] = grads[j].of
        BY <1>2, <2>1 DEF Ofs
      <4> QED
        BY <2>1, <4>1, <4>2 DEF Ofs
    <3> QED
      BY <3>1, <3>2
  <2> DEFINE o == Ofs(next)
  <2>3. o = [j \in DOMAIN o |-> o[j]]
    BY DEF Ofs
  <2> HIDE DEF o, next
  <2>4. y = [j \in DOMAIN y |-> y[j]] /\ o = [j \in DOMAIN o |-> o[j]]
    BY <2>3
  <2> QED
    BY <2>1, <2>2, <2>4 DEF o
<1> HIDE DEF next
<1> QED
  BY <1>1, <1>2, <1>6, <1>7, <1>8 DEF PassInv, Learning

\* A backward job of a connector.
LEMMA ConnectorBackPass ==
  ASSUME BuilderInv, MadeInv, LoopInv, PassInv, ConnectorBack
  PROVE  PassInv'
<1>0. N \in Nat /\ DOMAIN segments = 1 .. N /\ k \in 1 .. N /\ segments[k].in \in Seq(Nat)
  BY SegmentFacts DEF ConnectorBack, InBackward, SegmentRec
<1>1. /\ stage = "backward" /\ cache \in Seq(CacheRec) /\ Len(cache) = N
      /\ grads \in Seq(GradRec) /\ InBackward /\ ~ OnOneStream(segments[k])
  BY DEF ConnectorBack, InBackward, PassInv, Learning, Running
<1>2. PICK y \in Seq(Nat), z \in Seq(Nat) :
        /\ Linked(segments[k], k, cache[k].in, y, z)
        /\ TraceTo(segments, cache, k - 1, y)
  BY <1>1, BackwardFinds
<1>3. cache[k].in = y /\ Len(y) = Len(segments[k].in)
  BY <1>1, <1>2 DEF Linked
<1> DEFINE next == [j \in DOMAIN y |-> Gradient(y[j], grads[1].rows, segments[k].in[j], "ram")]
<1>4. /\ stage' = "backward" /\ k' = k - 1 /\ grads' = next /\ cache' = cache
      /\ segments' = segments /\ N' = N
  BY <1>1, <1>3 DEF ConnectorBack, ConnectorGrads, Running, BackwardStep, plan, segments, N
<1>5. /\ \A j \in DOMAIN y : y[j] \in Nat /\ segments[k].in[j] \in Nat
      /\ DOMAIN y = 1 .. Len(y) /\ Len(y) \in Nat
  <2>1. DOMAIN y = 1 .. Len(y) /\ Len(y) \in Nat /\ \A j \in DOMAIN y : y[j] \in Nat
    BY <1>2
  <2>2. DOMAIN segments[k].in = 1 .. Len(segments[k].in)
    BY <1>0
  <2>3. \A j \in DOMAIN y : segments[k].in[j] \in Nat
    BY <1>0, <1>3, <2>1, <2>2
  <2> QED
    BY <2>1, <2>3
<1>r. grads[1].rows \in Nat
  <2>1. Len(grads) \in {1, 2}
    BY <1>0, <1>1, SegmentFacts DEF ConnectorBack, Running, WellMade
  <2>2. 1 \in 1 .. Len(grads)
    <3> DEFINE l == Len(grads)
    <3>1. l \in {1, 2}
      BY <2>1
    <3> HIDE DEF l
    <3>2. 1 \in 1 .. l
      BY <3>1
    <3> QED
      BY <3>2 DEF l
  <2>3. grads[1] \in GradRec
    BY <1>1, <2>2, ElementOfSeq
  <2> QED
    BY <2>3 DEF GradRec
<1>6. \A j \in DOMAIN y : /\ Gradient(y[j], grads[1].rows, segments[k].in[j], "ram") \in GradRec
                          /\ Gradient(y[j], grads[1].rows, segments[k].in[j], "ram").of = y[j]
  BY <1>5, <1>r DEF Gradient, GradRec, Devices
<1>7. next \in Seq(GradRec)
  BY <1>5, <1>6
<1>8. Ofs(next) = y
  <2>1. DOMAIN next = DOMAIN y /\ \A j \in DOMAIN y : next[j].of = y[j]
    BY <1>6
  <2>2. y = [j \in DOMAIN y |-> y[j]]
    OBVIOUS
  <2> HIDE DEF next
  <2> QED
    BY <2>1, <2>2 DEF Ofs
<1> HIDE DEF next
<1> QED
  BY <1>1, <1>2, <1>4, <1>7, <1>8 DEF PassInv, Learning

\* A backward job of one stream has a gradient and knows the buffer it is for.
LEMMA BackShape ==
  ASSUME BuilderInv, MadeInv, LoopInv, PassInv, DeviceInv, NEW r, NEW n, OneStreamBack(r, n)
  PROVE  /\ Here \in 1 .. Len(grads) /\ cache[k].in[1] \in Buffers
         /\ rows[cache[k].in[1]] \in Nat /\ grads[Here].rows \in Nat /\ grads[Here].size \in Nat
         /\ r \in Nat /\ n \in Nat
<1>0. N \in Nat /\ DOMAIN segments = 1 .. N
  BY SegmentFacts
<1>1. InBackward /\ ~ NoStream(grads) /\ stage = "backward" /\ k \in 1 .. N
  BY <1>0 DEF OneStreamBack, InBackward
<1>2. Here \in Nat \ {0} /\ OnOneStream(segments[k])
  BY <1>1, SegmentFacts DEF Running, Here, OneStreamBack
<1>3. cache \in Seq(CacheRec) /\ Len(cache) = N /\ grads \in Seq(GradRec)
  BY <1>1 DEF PassInv, Passing, Learning
<1>4. PICK y \in Seq(Nat), z \in Seq(Nat) : Linked(segments[k], k, cache[k].in, y, z)
  BY <1>1, BackwardFinds
<1>5. k \in DOMAIN cache /\ 1 \in DOMAIN cache[k].in
  BY <1>0, <1>1, <1>2, <1>3, <1>4 DEF Linked
<1>6. rows[cache[k].in[1]] \in Nat
  BY <1>1, <1>5 DEF DeviceInv
<1>7. Here \in 1 .. Len(grads)
  <2> DEFINE l == Len(grads)
             h == Here
  <2>1. ~ (h > l) /\ l \in Nat /\ h \in Nat \ {0}
    BY <1>1, <1>2, <1>3 DEF NoStream
  <2> HIDE DEF l, h
  <2>2. h \in 1 .. l
    BY <2>1
  <2> QED
    BY <2>2 DEF l, h
<1>8. grads[Here].rows \in Nat /\ grads[Here].size \in Nat
  <2>1. grads[Here] \in GradRec
    BY <1>3, <1>7, ElementOfSeq
  <2> QED
    BY <2>1 DEF GradRec
<1>9. cache[k].in[1] \in Buffers
  BY <1>1, <1>5 DEF DeviceInv
<1>10. r \in Nat /\ n \in Nat
  <2>1. /\ rows[cache[k].in[1]] \in Nat /\ grads[Here].rows \in Nat /\ grads[Here].size \in Nat
        => r \in Nat /\ n \in Nat
    BY DEF OneStreamBack
  <2> QED
    BY <1>6, <1>8, <2>1
<1> QED
  BY <1>0, <1>6, <1>7, <1>8, <1>9, <1>10

\* The trace of a pass that begins.
LEMMA TraceBegins ==
  ASSUME NEW segs
  PROVE  TraceTo(segs, <<>>, 0, <<Input>>)
<1> DEFINE trace == [i \in Nat |-> <<Input>>]
<1>1. trace \in [Nat -> Seq(Nat)] /\ trace[0] = <<Input>>
  <2>1. <<Input>> \in Seq(Nat)
    BY DEF Input
  <2> QED
    BY <2>1
<1> HIDE DEF trace
<1>2. Trace(segs, <<>>, trace)
  BY <1>1 DEF Trace
<1> QED
  BY <1>1, <1>2 DEF TraceTo

\* Every step of training keeps the streams of the pass.
LEMMA PassStep ==
  ASSUME BuilderInv, MadeInv, LoopInv, PassInv, DeviceInv, Next
  PROVE  PassInv'
<1>0. /\ N \in Nat /\ DOMAIN segments = 1 .. N
      /\ \A i \in 1 .. N : segments[i] \in SegmentRec /\ WellMade(segments[i])
  BY SegmentFacts
<1>1. ASSUME stage' \notin Passing \cup Learning PROVE PassInv'
  BY <1>1 DEF PassInv, Passing, Learning
<1>2. CASE Plan \/ Stops \/ (Start /\ ~ Stops) \/ EndEpoch \/ EndApply
  <2>1. stage' \notin Passing \cup Learning
    BY <1>2
       DEF Plan, trainVars, Stops, Ends, Start, EndEpoch, EndApply, Ended, Passing, Learning
  <2> QED
    BY <1>1, <2>1
<1>3. ASSUME NEW reassign \in BOOLEAN, ObserveEpoch(reassign) PROVE PassInv'
  BY <1>1, <1>3 DEF ObserveEpoch, Passing, Learning
<1>4. ASSUME NEW what \in {"train", "validate", "test"}, Begun(what) PROVE PassInv'
  <2>1. /\ stage' = "forward" /\ k' = 1 /\ cache' = <<>> /\ streams' = <<Input>>
        /\ segments' = segments
    BY <1>4 DEF Begun, BeginForward, plan, segments
  <2>2. <<Input>> \in Seq(Nat) /\ <<>> \in Seq(CacheRec) /\ Len(<<>>) = 0
    BY EmptySeq DEF Input
  <2> QED
    BY <2>1, <2>2, TraceBegins DEF PassInv, Passing, Learning
<1>5. CASE (\E r, n : OneStreamJob(r, n)) \/ ConnectorJob
  BY <1>5, OneStreamPass, ConnectorPass
<1>6. CASE EndForward /\ ~ Stops
  <2>1. /\ stage' = "loss" /\ streams' = streams /\ cache' = cache
        /\ segments' = segments /\ N' = N /\ stage = "forward" /\ k = N + 1
        /\ Len(streams) = 1
    BY <1>6, StopStops DEF EndForward, plan, segments, N
  <2>2. k - 1 = N
    BY <1>0, <2>1
  <2>3. /\ cache \in Seq(CacheRec) /\ Len(cache) = N /\ streams \in Seq(Nat)
        /\ TraceTo(segments, cache, N, streams)
    BY <2>1, <2>2 DEF PassInv, Passing
  <2> QED
    BY <1>6, <2>1, <2>3 DEF PassInv, Passing, Learning
<1>7a. CASE Loss /\ ~ Stops /\ purpose # "train"
  <2>1. stage' \notin Passing \cup Learning
    BY <1>7a DEF Loss, Stops, Ended, Passing, Learning
  <2> QED
    BY <1>1, <2>1
<1>7. CASE Loss /\ ~ Stops /\ purpose = "train"
  <2>1. /\ stage' = "backward" /\ stage = "loss" /\ cache' = cache /\ k' = N
        /\ grads' = <<Gradient(streams[1], rows[streams[1]], size[streams[1]], "ram")>>
        /\ segments' = segments /\ N' = N
    BY <1>7 DEF Loss, Stops, Ended, plan, segments, N
  <2>2. /\ streams \in Seq(Nat) /\ Len(streams) = 1 /\ TraceTo(segments, cache, N, streams)
        /\ cache \in Seq(CacheRec) /\ Len(cache) = N
    BY <2>1 DEF PassInv, Passing, Learning
  <2>3. streams[1] \in Nat /\ streams = <<streams[1]>> /\ 1 \in DOMAIN streams
    <3>1. streams \in Seq(Nat) /\ Len(streams) = 1
      BY <2>2
    <3>2. DOMAIN streams = 1 .. Len(streams) /\ 1 \in 1 .. Len(streams)
      BY <3>1
    <3>3. streams[1] \in Nat
      BY <3>1, <3>2, ElementOfSeq
    <3>4. streams = <<streams[1]>>
      BY <3>1, <3>2
    <3> QED
      BY <3>2, <3>3, <3>4
  <2>4. rows[streams[1]] \in Nat /\ size[streams[1]] \in Nat
    <3>1. /\ streams[1] \in 1 .. 2 * N + 1
          /\ rows \in [Buffers -> Nat] /\ size \in [Buffers -> Nat]
      BY <2>1, <2>2, <2>3 DEF DeviceInv
    <3> QED
      BY <3>1 DEF Buffers, N
  <2> DEFINE g == Gradient(streams[1], rows[streams[1]], size[streams[1]], "ram")
  <2>5. g \in GradRec /\ g.of = streams[1]
    BY <2>3, <2>4 DEF Gradient, GradRec, Devices
  <2> HIDE DEF g
  <2>6. <<g>> \in Seq(GradRec) /\ Ofs(<<g>>) = <<streams[1]>>
    BY <2>5 DEF Ofs
  <2>7. TraceTo(segments, cache, N, Ofs(<<g>>))
    BY <2>2, <2>3, <2>6
  <2> QED
    BY <2>1, <2>2, <2>6, <2>7 DEF PassInv, Passing, Learning, g
<1>8. ASSUME NEW r, NEW n, OneStreamBack(r, n) PROVE PassInv'
  BY <1>8, BackShape, OneStreamBackPass
<1>9. CASE ConnectorBack
  BY <1>9, ConnectorBackPass
<1>10. ASSUME stage \in Learning, stage' \in {"modify", "adapters", "apply"}, cache' = cache,
              UNCHANGED plan
       PROVE  PassInv'
  <2>1. N' = N
    BY <1>10 DEF plan, segments, N
  <2> QED
    BY <1>10, <2>1 DEF PassInv, Passing, Learning
<1>11. CASE (EndBackward /\ ~ Stops) \/ EndModify
  BY <1>10, <1>11, StopStops DEF EndBackward, EndModify, StayInPass, Learning
<1>12. CASE (ModifyGrads \/ AdapterPass \/ ApplyUpdate) /\ ~ Stops
  BY <1>10, <1>12, StopStops
     DEF ModifyGrads, AdapterPass, ApplyUpdate, InBuffers, StayInPass, Learning
<1> QED
  BY <1>2, <1>3, <1>4, <1>5, <1>6, <1>7, <1>7a, <1>8, <1>9, <1>11, <1>12, StepCases

-----------------------------------------------------------------------------
(* Parameters and gradients, where their jobs run                          *)

\* Only layers run on the GPU.
LEMMA OperatorMemoryType ==
  ASSUME NEW i
  PROVE  /\ OperatorMemory(i) \in Devices
         /\ segments[i].kind # "Universal" => OperatorMemory(i) = "ram"
BY DEF OperatorMemory, Devices

\* The memory of an operator is part of the plan.
LEMMA SamePlan ==
  ASSUME UNCHANGED plan
  PROVE  /\ segments' = segments /\ N' = N /\ builder' = builder /\ clear' = clear
         /\ \A i : OperatorMemory(i)' = OperatorMemory(i)
         /\ \A i : HasParams(i)' = HasParams(i)
         /\ \A i : LinearOf(i)' = LinearOf(i)
<1>1. segments' = segments /\ N' = N /\ builder' = builder /\ clear' = clear
  BY DEF plan, planVars, segments, N
<1>2. \A i : OperatorMemory(i)' = OperatorMemory(i)
  BY <1>1 DEF OperatorMemory
<1>3. \A i : HasParams(i)' = HasParams(i)
  BY <1>1 DEF HasParams
<1>4. \A i : LinearOf(i)' = LinearOf(i)
  BY <1>1 DEF LinearOf
<1> QED
  BY <1>1, <1>2, <1>3, <1>4

\* A step that moves none of them.
LEMMA PlacedSame ==
  ASSUME PlacedInv, stage \in Working, UNCHANGED <<plan, paramsAt, gradsAt>>,
         InEpoch' \/ epoch' > 0 => InEpoch \/ epoch > 0
  PROVE  PlacedInv'
<1>1. /\ segments' = segments /\ \A i : OperatorMemory(i)' = OperatorMemory(i)
  BY SamePlan
<1>2. Placed' <=> Placed
  BY <1>1 DEF Placed
<1> QED
  BY <1>1, <1>2 DEF PlacedInv

\* Every step of training keeps them where the operators need them.
LEMMA PlacedStep ==
  ASSUME BuilderInv, MadeInv, LoopInv, PlacedInv, Next
  PROVE  PlacedInv'
<1>0. ASSUME stage' \notin Working PROVE PlacedInv'
  BY <1>0 DEF PlacedInv
<1>1. CASE Plan \/ Stops
  <2>1. stage' \notin Working
    BY <1>1 DEF Plan, trainVars, Stops, Ends, Ended, Working
  <2> QED
    BY <1>0, <2>1
<1>2. CASE Start /\ ~ Stops
  <2>1. /\ segments' = segments /\ stage' = "epoch" /\ epoch' = 0
        /\ paramsAt' = [i \in DOMAIN segments |-> "ram"]
        /\ gradsAt' = [i \in DOMAIN segments |-> "ram"]
    BY <1>2, SamePlan DEF Start, Stops, Ended, LoopInv
  <2>2. /\ paramsAt' \in [DOMAIN segments -> Devices]
        /\ gradsAt' \in [DOMAIN segments -> Devices]
        /\ \A i \in DOMAIN segments : paramsAt'[i] = "ram" /\ gradsAt'[i] = "ram"
    BY <2>1 DEF Devices
  <2>3. ~ InEpoch' /\ ~ (epoch' > 0)
    BY <2>1 DEF InEpoch, Passing, Learning
  <2> QED
    BY <2>1, <2>2, <2>3 DEF PlacedInv
<1>3. ASSUME NEW reassign \in BOOLEAN, ObserveEpoch(reassign) PROVE PlacedInv'
  <2>1. /\ stage = "epoch" /\ stage' = "batches" /\ epoch' = epoch /\ epoch \in Nat
        /\ UNCHANGED plan
    BY <1>3 DEF ObserveEpoch, loop, LoopInv
  <2>2. CASE UNCHANGED <<paramsAt, gradsAt>> /\ epoch # 0
    <3>1. epoch > 0
      BY <2>1, <2>2
    <3> QED
      BY <2>1, <2>2, <3>1, PlacedSame DEF Working
  <2>3. CASE paramsAt' = PlacedAt(paramsAt) /\ gradsAt' = PlacedAt(gradsAt)
    <3>1. /\ paramsAt \in [DOMAIN segments -> Devices] /\ gradsAt \in [DOMAIN segments -> Devices]
          /\ \A i \in DOMAIN segments :
               segments[i].kind # "Universal" => paramsAt[i] = "ram" /\ gradsAt[i] = "ram"
      BY <2>1 DEF PlacedInv, Working
    <3>2. /\ paramsAt' = [i \in DOMAIN segments |-> OperatorMemory(i)]
          /\ gradsAt' = [i \in DOMAIN segments |-> OperatorMemory(i)]
      BY <2>3, <3>1, OperatorMemoryType DEF PlacedAt
    <3>3. /\ segments' = segments /\ \A i : OperatorMemory(i)' = OperatorMemory(i)
      BY <2>1, SamePlan
    <3>4. Placed'
      BY <3>2, <3>3 DEF Placed
    <3>5. /\ paramsAt' \in [DOMAIN segments -> Devices]
          /\ gradsAt' \in [DOMAIN segments -> Devices]
      BY <3>2, OperatorMemoryType
    <3>6. \A i \in DOMAIN segments :
            segments[i].kind # "Universal" => paramsAt'[i] = "ram" /\ gradsAt'[i] = "ram"
      BY <3>2, OperatorMemoryType
    <3> QED
      BY <3>3, <3>4, <3>5, <3>6 DEF PlacedInv
  <2> QED
    BY <1>3, <2>2, <2>3 DEF ObserveEpoch
<1>4. ASSUME NEW what \in {"train", "validate", "test"}, Begun(what) PROVE PlacedInv'
  <2>1. /\ UNCHANGED <<plan, paramsAt, gradsAt>> /\ epoch' = epoch /\ purpose' = what
        /\ stage' = "forward" /\ stage \in {"epoch", "batches", "validated"}
        /\ what # "test" => stage \in {"batches", "validated"}
    BY <1>4 DEF Begun, BeginForward, buffers
  <2>2. InEpoch' => InEpoch
    BY <2>1 DEF InEpoch, Passing, Learning
  <2> QED
    BY <2>1, <2>2, PlacedSame DEF Working
<1>5. CASE EndEpoch
  <2>1. UNCHANGED <<plan, paramsAt, gradsAt>> /\ stage \in {"batches", "validated"}
    BY <1>5 DEF EndEpoch, buffers
  <2>2. InEpoch
    BY <2>1 DEF InEpoch
  <2> QED
    BY <2>1, <2>2, PlacedSame DEF Working
<1>6. ASSUME UNCHANGED <<plan, paramsAt, gradsAt, epoch, purpose, stage>>, stage \in Working
      PROVE  PlacedInv'
  BY <1>6, PlacedSame DEF InEpoch, Passing, Learning
<1>7. CASE (\E r, n : OneStreamJob(r, n)) \/ ConnectorJob
  <2>1. stage = "forward" /\ UNCHANGED <<plan, paramsAt, gradsAt, epoch, purpose, stage>>
    BY <1>7 DEF OneStreamJob, ConnectorJob, ForwardStep, InForward, buffers, loop
  <2> QED
    BY <1>6, <2>1 DEF Working
<1>8. CASE (EndForward \/ Loss) /\ ~ Stops
  <2>1. /\ stage \in Passing /\ UNCHANGED <<plan, paramsAt, gradsAt, epoch, purpose>>
        /\ \/ stage' = "loss"
           \/ stage' = "backward" /\ purpose = "train"
           \/ stage' = "validated" /\ purpose # "train" /\ purpose = "validate"
           \/ stage' = "tested"
    BY <1>8, StopStops DEF EndForward, Loss, Stops, Ended, buffers, loop, pass, Passing
  <2>2. InEpoch' => InEpoch
    BY <2>1 DEF InEpoch, Passing, Learning
  <2> QED
    BY <2>1, <2>2, PlacedSame DEF Passing, Working
<1>9. ASSUME UNCHANGED <<plan, paramsAt, gradsAt, epoch>>, stage \in Learning
      PROVE  PlacedInv'
  BY <1>9, PlacedSame DEF InEpoch, Working, Learning
<1>10. CASE (EndBackward /\ ~ Stops) \/ EndModify \/ EndApply
  BY <1>9, <1>10, StopStops DEF EndBackward, EndModify, EndApply, StayInPass, buffers, loop, Learning
<1>11. CASE (\E r, n : OneStreamBack(r, n)) \/ ConnectorBack
  BY <1>9, <1>11 DEF OneStreamBack, ConnectorBack, BackwardStep, InBackward, loop, Learning
<1>12. CASE (ModifyGrads \/ AdapterPass \/ ApplyUpdate) /\ ~ Stops
  BY <1>9, <1>12, StopStops
     DEF ModifyGrads, AdapterPass, ApplyUpdate, InBuffers, StayInPass, loop, Learning
<1> QED
  BY <1>1, <1>2, <1>3, <1>4, <1>5, <1>7, <1>8, <1>10, <1>11, <1>12, StepCases

-----------------------------------------------------------------------------
(* What a step of training is made of                                      *)

\* A list of n things becomes one of n + 1.
LEMMA OneMoreOf ==
  ASSUME NEW S, NEW n \in Nat, NEW g \in [1 .. n -> S], NEW f \in [1 .. n + 1 -> S],
         \A b \in 1 .. n : g[b] = f[b]
  PROVE  Append(g, f[n + 1]) = f
<1> DEFINE h == Append(g, f[n + 1])
<1>1. g \in Seq(S) /\ f \in Seq(S) /\ f[n + 1] \in S /\ n + 1 \in Nat
  OBVIOUS
<1>2. Len(g) = n /\ Len(f) = n + 1
  BY <1>1, LenProperties
<1>3. /\ h \in Seq(S) /\ Len(h) = n + 1 /\ h[n + 1] = f[n + 1]
      /\ \A b \in 1 .. n : h[b] = g[b]
  BY <1>1, <1>2, AppendProperties
<1> HIDE DEF h
<1>4. ASSUME NEW b \in 1 .. n + 1 PROVE h[b] = f[b]
  <2>1. CASE b = n + 1
    BY <1>3, <2>1
  <2>2. CASE b # n + 1
    <3>1. b \in 1 .. n
      BY <2>2
    <3> QED
      BY <1>3, <3>1
  <2> QED
    BY <2>1, <2>2
<1>5. h = f
  BY <1>1, <1>2, <1>3, <1>4, SeqEqual
<1> QED
  BY <1>5 DEF h

\* A list of one thing becomes one of two.
LEMMA TwoOf ==
  ASSUME NEW x, NEW y
  PROVE  Append(<<x>>, y) = <<x, y>>
<1> DEFINE S == {x, y}
           h == Append(<<x>>, y)
<1>1. <<x>> \in Seq(S) /\ <<x, y>> \in Seq(S) /\ y \in S /\ Len(<<x>>) = 1
      /\ Len(<<x, y>>) = 2
  OBVIOUS
<1>2. h \in Seq(S) /\ Len(h) = 2 /\ h[1] = x /\ h[2] = y
  BY <1>1, AppendProperties
<1> HIDE DEF h, S
<1>3. \A j \in 1 .. 2 : h[j] = <<x, y>>[j]
  BY <1>2
<1>4. h = <<x, y>>
  BY <1>1, <1>2, <1>3, SeqEqual
<1> QED
  BY <1>4 DEF h

\* The optimizer of a buffer has seen one batch more.
LEMMA SeenOneMore ==
  ASSUME NEW desc, NEW n \in Nat, NEW grad, grad.own = {n + 1}
  PROVE  ExprModified(ExprAfter(desc, n), grad) = ExprAfter(desc, n + 1)
<1> DEFINE g == [b \in 1 .. n |-> {b}]
           f == [b \in 1 .. n + 1 |-> {b}]
           st == [m \in DOMAIN desc |->
                    IF state_size_per_param(desc[m]) > 0 THEN g ELSE <<>>]
           next == [m \in DOMAIN st |->
                      IF state_size_per_param(desc[m]) > 0 THEN Append(st[m], {n + 1})
                      ELSE st[m]]
           done == [m \in DOMAIN desc |->
                      IF state_size_per_param(desc[m]) > 0 THEN f ELSE <<>>]
<1>1. Append(g, {n + 1}) = f
  <2>1. /\ g \in [1 .. n -> SUBSET Nat] /\ f \in [1 .. n + 1 -> SUBSET Nat]
        /\ f[n + 1] = {n + 1} /\ \A b \in 1 .. n : g[b] = f[b]
    OBVIOUS
  <2> HIDE DEF f, g
  <2>2. Append(g, f[n + 1]) = f
    BY <2>1, OneMoreOf
  <2> QED
    BY <2>1, <2>2
<1>2. ExprAfter(desc, n) = [chain |-> desc, step_counter |-> n, states |-> st]
  BY DEF ExprAfter
<1>3. ExprAfter(desc, n + 1) = [chain |-> desc, step_counter |-> n + 1, states |-> done]
  BY DEF ExprAfter
<1> HIDE DEF f, g
<1>4. next = done
  BY <1>1
<1> HIDE DEF done, st
<1>5. ASSUME NEW e, e = [chain |-> desc, step_counter |-> n, states |-> st]
      PROVE  ExprModified(e, grad) = [chain |-> desc, step_counter |-> n + 1, states |-> next]
  <2>1. e.chain = desc /\ e.states = st /\ e.step_counter = n
    BY <1>5
  <2>2. [m \in DOMAIN e.states |->
           IF state_size_per_param(e.chain[m]) > 0
             THEN Append(e.states[m], grad.own) ELSE e.states[m]] = next
    BY <2>1
  <2> HIDE DEF next
  <2>3. ExprModified(e, grad) = [e EXCEPT !.step_counter = n + 1, !.states = next]
    BY <2>1, <2>2 DEF ExprModified
  <2> QED
    BY <1>5, <2>3
<1> QED
  BY <1>2, <1>3, <1>4, <1>5

\* A new optimizer has seen none.
LEMMA NewExprSeen == \A desc : NewExpr(desc) = ExprAfter(desc, 0)
<1>1. [b \in 1 .. 0 |-> {b}] = <<>>
  OBVIOUS
<1> QED
  BY <1>1 DEF NewExpr, ExprAfter

\* Steps of training are counted.
LEMMA TrainedType ==
  ASSUME LoopInv, stage \in Working
  PROVE  /\ Trained \in Nat /\ batch \in Nat
         /\ stage \in Learning => Trained = batch - 1 /\ batch = Trained + 1
         /\ \A i : Done(i) \in Nat /\ Seen(i) \in Nat
<1>1. batch \in Nat
  BY DEF LoopInv
<1>2. CASE purpose = "train" /\ stage \notin {"epoch", "batches", "validated", "tested"}
  <2>1. batch >= 1
    BY <1>2 DEF LoopInv, Working, Passing, Learning
  <2> QED
    BY <1>1, <1>2, <2>1 DEF Trained, Done, Seen, OneIf
<1>3. CASE ~ (purpose = "train" /\ stage \notin {"epoch", "batches", "validated", "tested"})
  BY <1>1, <1>3 DEF Trained, Done, Seen, OneIf, LoopInv, Passing, Learning
<1> QED
  BY <1>2, <1>3

\* A step is made of the plan, the description of the optimizer and a batch.
LEMMA SameStep ==
  ASSUME UNCHANGED <<plan, optimizer>>
  PROVE  \A i, b : Step(i, b)' = Step(i, b)
<1>1. /\ \A i : OperatorMemory(i)' = OperatorMemory(i)
      /\ \A i : LinearOf(i)' = LinearOf(i)
  BY SamePlan
<1> QED
  BY <1>1 DEF Step

\* A step that touches no gradient, parameter or optimizer.
LEMMA UpdateSame ==
  ASSUME UpdateInv, stage \in Working, UNCHANGED <<plan, optimizer, own, params, exprs>>,
         \A i \in DOMAIN segments :
           HasParams(i) => Done(i)' = Done(i) /\ Seen(i)' = Seen(i) /\ OwnIs(i)'
  PROVE  UpdateInv'
<1>1. /\ segments' = segments /\ \A i : HasParams(i)' = HasParams(i)
      /\ \A i, b : Step(i, b)' = Step(i, b)
  BY SamePlan, SameStep
<1>2. ASSUME NEW i \in DOMAIN segments, HasParams(i)
      PROVE  /\ params'[i] = [b \in 1 .. Done(i)' |-> Step(i, b)']
             /\ ExprIs(exprs', i, optimizer', Seen(i)')
             /\ OwnIs(i)'
  <2>1. params[i] = [b \in 1 .. Done(i) |-> Step(i, b)] /\ ExprIs(exprs, i, optimizer, Seen(i))
    BY <1>2 DEF UpdateInv
  <2>2. [b \in 1 .. Done(i)' |-> Step(i, b)'] = [b \in 1 .. Done(i) |-> Step(i, b)]
    BY <1>1, <1>2
  <2>3. ExprIs(exprs', i, optimizer', Seen(i)')
    BY <1>2, <2>1
  <2> QED
    BY <1>2, <2>1, <2>2, <2>3
<1>3. DOMAIN own = DOMAIN segments /\ DOMAIN params = DOMAIN segments
  BY DEF UpdateInv
<1> QED
  BY <1>1, <1>2, <1>3 DEF UpdateInv

\* No buffer but k comes before the next one and not before k.
LEMMA NextBuffer ==
  ASSUME N \in Nat, NEW from \in 1 .. N, NEW i \in 1 .. N, HasParams(i)
  PROVE  i < BufferFrom(from + 1) <=> i <= from
<1> DEFINE next == BufferFrom(from + 1)
<1>1. from + 1 \in 1 .. N + 1
  OBVIOUS
<1>2. next \in from + 1 .. N + 1 /\ \A m \in from + 1 .. next - 1 : ~ HasParams(m)
  BY <1>1, BufferFromFirst
<1> HIDE DEF next
<1>3. i <= from => i < next
  BY <1>2
<1>4. ~ (i <= from) => ~ (i < next)
  <2>1. ~ (i \in from + 1 .. next - 1)
    BY <1>2
  <2> QED
    BY <1>2, <2>1
<1> QED
  BY <1>3, <1>4 DEF next

\* The first buffer has none before it.
LEMMA FirstBuffer ==
  ASSUME N \in Nat, NEW i \in 1 .. N, HasParams(i)
  PROVE  ~ (i < BufferFrom(1)) /\ i >= BufferFrom(1)
<1> DEFINE next == BufferFrom(1)
<1>1. next \in 1 .. N + 1 /\ \A m \in 1 .. next - 1 : ~ HasParams(m)
  BY BufferFromFirst
<1> HIDE DEF next
<1>2. ~ (i \in 1 .. next - 1)
  BY <1>1
<1> QED
  BY <1>1, <1>2 DEF next

\* Nothing is updated when training starts.
LEMMA StartUpdates ==
  ASSUME BuilderInv, MadeInv, LoopInv, Start, ~ Stops
  PROVE  UpdateInv'
<1>1. /\ stage' = "epoch" /\ UNCHANGED <<plan, exprs>> /\ exprs = EmptyMap /\ batch' = 0
      /\ own' = [i \in DOMAIN segments |-> NoGrad]
      /\ params' = [i \in DOMAIN segments |-> <<>>]
  BY DEF Start, LoopInv, Stops, Ended
<1>2. segments' = segments
  BY <1>1, SamePlan
<1>3. \A i : Done(i)' = 0 /\ Seen(i)' = 0
  BY <1>1 DEF Done, Seen, Trained, OneIf, Applied, Modified
<1>4. \A i : OwnIs(i)'
  BY <1>1 DEF OwnIs
<1>5. \A i : ExprIs(exprs', i, optimizer', 0)
  BY <1>1 DEF ExprIs, EmptyMap
<1>6. \A i : [b \in 1 .. 0 |-> Step(i, b)'] = <<>>
  OBVIOUS
<1> QED
  BY <1>1, <1>2, <1>3, <1>4, <1>5, <1>6 DEF UpdateInv

\* A backward job leaves the gradients of this batch.
LEMMA BackwardUpdates ==
  ASSUME BuilderInv, MadeInv, LoopInv, UpdateInv, stage = "backward", k \in DOMAIN segments,
         stage' = stage, k' = k - 1, UNCHANGED <<plan, loop, purpose, params, exprs>>,
         own' = [own EXCEPT ![k] = OwnAfterBackward]
  PROVE  UpdateInv'
<1>0. N \in Nat /\ DOMAIN segments = 1 .. N /\ k \in 1 .. N
  BY SegmentFacts
<1>1. /\ segments' = segments /\ \A i : HasParams(i)' = HasParams(i)
      /\ \A i, b : Step(i, b)' = Step(i, b)
      /\ batch' = batch /\ optimizer' = optimizer
  BY SamePlan, SameStep DEF loop
<1>2. \A i : Done(i)' = Done(i) /\ Seen(i)' = Seen(i)
  BY <1>1 DEF Done, Seen, Trained, OneIf, Applied, Modified
<1>3. DOMAIN own = DOMAIN segments /\ DOMAIN params = DOMAIN segments
  BY DEF UpdateInv, Working
<1>4. ASSUME NEW i \in DOMAIN segments, HasParams(i)
      PROVE  OwnIs(i)'
  <2>1. CASE i = k
    BY <1>0, <1>1, <1>3, <2>1 DEF OwnIs, OwnAfterBackward
  <2>2. CASE i # k
    <3>1. OwnIs(i) /\ own'[i] = own[i]
      BY <1>3, <1>4, <2>2 DEF UpdateInv, Working
    <3>2. i > k - 1 => i > k
      BY <1>0, <2>2
    <3> QED
      BY <1>1, <3>1, <3>2 DEF OwnIs
  <2> QED
    BY <2>1, <2>2
<1>5. ASSUME NEW i \in DOMAIN segments, HasParams(i)
      PROVE  /\ params[i] = [b \in 1 .. Done(i) |-> Step(i, b)]
             /\ ExprIs(exprs, i, optimizer, Seen(i))
  BY <1>5 DEF UpdateInv, Working
<1>6. \A i \in DOMAIN segments :
        [b \in 1 .. Done(i)' |-> Step(i, b)'] = [b \in 1 .. Done(i) |-> Step(i, b)]
  BY <1>1, <1>2
<1>7. DOMAIN own' = DOMAIN own
  OBVIOUS
<1> QED
  BY <1>1, <1>2, <1>3, <1>4, <1>5, <1>6, <1>7 DEF UpdateInv

\* The modifiers go over the gradients of one buffer.
LEMMA ModifyUpdates ==
  ASSUME BuilderInv, MadeInv, LoopInv, UpdateInv, ModifyGrads, ~ Stops
  PROVE  UpdateInv'
<1> DEFINE now == Ensured(exprs, k, optimizer)
<1>0. N \in Nat /\ DOMAIN segments = 1 .. N /\ k \in 1 .. N
  BY SegmentFacts DEF ModifyGrads, InBuffers
<1>1. /\ stage = "modify" /\ stage' = "modify"
      /\ exprs' = [now EXCEPT ![k] = ExprModified(@, own[k])]
      /\ own' = [own EXCEPT ![k] = GradModified(now[k], @)]
      /\ k' = BufferFrom(k + 1) /\ UNCHANGED <<plan, loop, purpose, params>>
  BY StopStops DEF ModifyGrads, InBuffers, StayInPass
<1>2. /\ segments' = segments /\ \A i : HasParams(i)' = HasParams(i)
      /\ \A i, b : Step(i, b)' = Step(i, b)
      /\ batch' = batch /\ optimizer' = optimizer
  BY <1>1, SamePlan, SameStep DEF loop
<1>3. /\ Trained' = Trained /\ Trained \in Nat /\ batch = Trained + 1
      /\ \A i : Done(i)' = Done(i)
  <2>1. /\ Trained \in Nat /\ batch = Trained + 1
    BY <1>1, TrainedType DEF Working, Learning
  <2>2. Trained' = Trained /\ \A i : Done(i)' = Done(i)
    BY <1>1, <1>2 DEF Trained, Done, OneIf, Applied
  <2> QED
    BY <2>1, <2>2
<1>4. DOMAIN own = DOMAIN segments /\ DOMAIN params = DOMAIN segments
  BY <1>1 DEF UpdateInv, Working
<1>5. /\ DOMAIN now = DOMAIN exprs \cup {k}
      /\ \A i \in DOMAIN exprs : now[i] = exprs[i]
      /\ k \notin DOMAIN exprs => now[k] = NewExpr(optimizer)
  BY DEF Ensured, With
<1> HIDE DEF now
<1>6. /\ DOMAIN exprs' = DOMAIN exprs \cup {k}
      /\ \A i \in DOMAIN exprs' : i # k => exprs'[i] = exprs[i]
      /\ exprs'[k] = ExprModified(now[k], own[k])
  BY <1>1, <1>5
<1>7. ASSUME NEW i \in DOMAIN segments, HasParams(i), i # k
      PROVE  ExprIs(exprs', i, optimizer', Seen(i)') /\ OwnIs(i)'
  <2>1. (i < k') <=> (i < k)
    <3>1. i < k' <=> i <= k
      BY <1>0, <1>1, <1>7, NextBuffer
    <3> QED
      BY <1>0, <1>7, <3>1
  <2>2. (i >= k') <=> (i >= k)
    <3>1. k' \in 1 .. N + 1
      <4>1. k + 1 \in 1 .. N + 1
        BY <1>0
      <4> QED
        BY <1>0, <1>1, <4>1, BufferFromFirst
    <3> QED
      BY <1>0, <2>1, <3>1
  <2>3. ExprIs(exprs, i, optimizer, Seen(i)) /\ OwnIs(i)
    BY <1>1, <1>7 DEF UpdateInv, Working
  <2>4. Seen(i)' = Seen(i)
    BY <1>1, <1>3, <2>1 DEF Seen, OneIf, Modified
  <2>5. ExprIs(exprs', i, optimizer', Seen(i)')
    BY <1>2, <1>6, <1>7, <2>3, <2>4 DEF ExprIs
  <2>6. own'[i] = own[i]
    BY <1>1, <1>4, <1>7
  <2>7. OwnIs(i)'
    BY <1>1, <1>2, <2>1, <2>2, <2>3, <2>6 DEF OwnIs
  <2> QED
    BY <2>5, <2>7
<1>8. ASSUME NEW i \in DOMAIN segments, i = k, HasParams(i)
      PROVE  ExprIs(exprs', i, optimizer', Seen(i)') /\ OwnIs(i)'
  <2>1. ExprIs(exprs, i, optimizer, Seen(i)) /\ OwnIs(i)
    BY <1>1, <1>8 DEF UpdateInv, Working
  <2>2. i < k' /\ ~ (i >= k') /\ ~ (i < k) /\ i >= k
    <3>1. i < k'
      BY <1>0, <1>1, <1>8, NextBuffer
    <3>2. k' \in 1 .. N + 1
      <4>1. k + 1 \in 1 .. N + 1
        BY <1>0
      <4> QED
        BY <1>0, <1>1, <4>1, BufferFromFirst
    <3> QED
      BY <1>0, <1>8, <3>1, <3>2
  <2>3. Seen(i) = Trained /\ Seen(i)' = Trained + 1
    BY <1>1, <1>3, <2>2 DEF Seen, OneIf, Modified
  <2>4. now[i] = ExprAfter(optimizer, Trained)
    <3>1. CASE i \in DOMAIN exprs
      BY <1>5, <2>1, <2>3, <3>1 DEF ExprIs
    <3>2. CASE i \notin DOMAIN exprs
      BY <1>5, <1>8, <2>1, <2>3, <3>2, NewExprSeen DEF ExprIs
    <3> QED
      BY <3>1, <3>2
  <2>5. own[i] = [own |-> {batch}, cubes |-> <<>>]
    BY <1>1, <2>1, <2>2 DEF OwnIs
  <2>6. exprs'[i] = ExprAfter(optimizer, Trained + 1)
    <3>1. own[i].own = {Trained + 1}
      BY <1>3, <2>5
    <3> QED
      BY <1>3, <1>6, <1>8, <2>4, <3>1, SeenOneMore
  <2>7. ExprIs(exprs', i, optimizer', Seen(i)')
    BY <1>2, <1>6, <1>8, <2>3, <2>6 DEF ExprIs
  <2>8. own'[i] = [own |-> {batch}, cubes |-> <<Modifiers(optimizer)>>]
    <3>1. own'[i] = GradModified(now[i], own[i])
      BY <1>1, <1>4, <1>8
    <3>2. now[i].chain = optimizer
      BY <2>4 DEF ExprAfter
    <3>3. \A e, x : GradModified(e, [own |-> x, cubes |-> <<>>])
                      = [own |-> x, cubes |-> Append(<<>>, Modifiers(e.chain))]
      BY DEF GradModified
    <3>4. \A x : Append(<<>>, x) = <<x>>
      OBVIOUS
    <3> QED
      BY <2>5, <3>1, <3>2, <3>3, <3>4
  <2>9. OwnIs(i)'
    BY <1>1, <1>2, <2>2, <2>8 DEF OwnIs
  <2> QED
    BY <2>7, <2>9
<1>9. ASSUME NEW i \in DOMAIN segments, HasParams(i)
      PROVE  params'[i] = [b \in 1 .. Done(i)' |-> Step(i, b)']
  <2>1. params[i] = [b \in 1 .. Done(i) |-> Step(i, b)]
    BY <1>1, <1>9 DEF UpdateInv, Working
  <2>2. [b \in 1 .. Done(i)' |-> Step(i, b)'] = [b \in 1 .. Done(i) |-> Step(i, b)]
    BY <1>2, <1>3
  <2> QED
    BY <1>1, <2>1, <2>2
<1>10. DOMAIN own' = DOMAIN own
  BY <1>1
<1>11. \A i \in DOMAIN segments :
         HasParams(i) => ExprIs(exprs', i, optimizer', Seen(i)') /\ OwnIs(i)'
  BY <1>7, <1>8
<1> QED
  BY <1>1, <1>2, <1>4, <1>9, <1>10, <1>11 DEF UpdateInv

Scaled(grad, cubes) == [grad EXCEPT !.cubes = Append(@, cubes)]

\* The adapters go over all gradients.
LEMMA AdapterUpdates ==
  ASSUME BuilderInv, MadeInv, LoopInv, PlacedInv, UpdateInv, AdapterPass, ~ Stops
  PROVE  UpdateInv'
<1>0. N \in Nat /\ DOMAIN segments = 1 .. N
  BY SegmentFacts
<1>1. /\ stage = "adapters" /\ stage' = "apply" /\ k' = BufferFrom(1)
      /\ own' = [i \in DOMAIN own |-> [own[i] EXCEPT !.cubes = Append(@, Adapted(Adapters(i)))]]
      /\ UNCHANGED <<plan, loop, purpose, params, exprs>>
  BY StopStops DEF AdapterPass, StayInPass
<1>2. /\ segments' = segments /\ \A i : HasParams(i)' = HasParams(i)
      /\ \A i, b : Step(i, b)' = Step(i, b)
      /\ batch' = batch /\ optimizer' = optimizer
  BY <1>1, SamePlan, SameStep DEF loop
<1>3. Trained' = Trained
  BY <1>1, <1>2 DEF Trained
<1>4. DOMAIN own = DOMAIN segments /\ DOMAIN params = DOMAIN segments
  BY <1>1 DEF UpdateInv, Working
<1>5. ASSUME NEW i \in DOMAIN segments, HasParams(i)
      PROVE  Done(i)' = Done(i) /\ Seen(i)' = Seen(i)
  <2>1. ~ (i < k')
    BY <1>0, <1>1, <1>5, FirstBuffer
  <2> QED
    BY <1>1, <1>3, <2>1 DEF Done, Seen, OneIf, Applied, Modified
<1>6. ASSUME NEW i \in DOMAIN segments, HasParams(i)
      PROVE  OwnIs(i)'
  <2>1. own[i] = [own |-> {batch}, cubes |-> <<Modifiers(optimizer)>>]
    BY <1>1, <1>6 DEF UpdateInv, Working, OwnIs
  <2>2. Adapters(i) = IF OperatorMemory(i) = "gpu" THEN <<>> ELSE LinearOf(i)
    BY <1>1, <1>6 DEF Adapters, PlacedInv, Placed, InEpoch, Working, Learning
  <2>3. own'[i] = [own |-> {batch}, cubes |-> Append(<<Modifiers(optimizer)>>,
                                                     Adapted(Adapters(i)))]
    <3>1. own'[i] = [own[i] EXCEPT !.cubes = Append(@, Adapted(Adapters(i)))]
      BY <1>1, <1>4
    <3>2. \A x, y, z : Scaled([own |-> x, cubes |-> y], z)
                         = [own |-> x, cubes |-> Append(y, z)]
      BY DEF Scaled
    <3>3. own'[i] = Scaled(own[i], Adapted(Adapters(i)))
      BY <3>1 DEF Scaled
    <3> QED
      BY <2>1, <3>2, <3>3
  <2>4. Append(<<Modifiers(optimizer)>>, Adapted(Adapters(i)))
          = <<Modifiers(optimizer), Adapted(Adapters(i))>>
    BY TwoOf
  <2>5. own'[i] = Step(i, batch)
    BY <2>2, <2>3, <2>4 DEF Step
  <2> QED
    BY <1>1, <1>2, <2>5 DEF OwnIs
<1>7. ASSUME NEW i \in DOMAIN segments, HasParams(i)
      PROVE  /\ params'[i] = [b \in 1 .. Done(i)' |-> Step(i, b)']
             /\ ExprIs(exprs', i, optimizer', Seen(i)')
  <2>1. /\ params[i] = [b \in 1 .. Done(i) |-> Step(i, b)]
        /\ ExprIs(exprs, i, optimizer, Seen(i))
    BY <1>1, <1>7 DEF UpdateInv, Working
  <2>2. [b \in 1 .. Done(i)' |-> Step(i, b)'] = [b \in 1 .. Done(i) |-> Step(i, b)]
    BY <1>2, <1>5, <1>7
  <2>3. ExprIs(exprs', i, optimizer', Seen(i)')
    BY <1>1, <1>2, <1>5, <1>7, <2>1
  <2> QED
    BY <1>1, <2>1, <2>2, <2>3
<1>8. DOMAIN own' = DOMAIN own
  BY <1>1
<1> QED
  BY <1>1, <1>2, <1>4, <1>6, <1>7, <1>8 DEF UpdateInv

\* The gradients of one buffer go into its parameters.
LEMMA ApplyUpdates ==
  ASSUME BuilderInv, MadeInv, LoopInv, UpdateInv, ApplyUpdate, ~ Stops
  PROVE  UpdateInv'
<1>0. N \in Nat /\ DOMAIN segments = 1 .. N /\ k \in 1 .. N
  BY SegmentFacts DEF ApplyUpdate, InBuffers
<1>1. /\ stage = "apply" /\ stage' = "apply"
      /\ params' = [params EXCEPT ![k] = Append(@, own[k])]
      /\ k' = BufferFrom(k + 1) /\ UNCHANGED <<plan, loop, purpose, own, exprs>>
  BY StopStops DEF ApplyUpdate, InBuffers, StayInPass, ParamsUpdated
<1>2. /\ segments' = segments /\ \A i : HasParams(i)' = HasParams(i)
      /\ \A i, b : Step(i, b)' = Step(i, b)
      /\ batch' = batch /\ optimizer' = optimizer
  BY <1>1, SamePlan, SameStep DEF loop
<1>3. /\ Trained' = Trained /\ Trained \in Nat /\ batch = Trained + 1
      /\ \A i : Seen(i)' = Seen(i)
  <2>1. /\ Trained \in Nat /\ batch = Trained + 1
    BY <1>1, TrainedType DEF Working, Learning
  <2>2. Trained' = Trained /\ \A i : Seen(i)' = Seen(i)
    BY <1>1, <1>2 DEF Trained, Seen, OneIf, Modified
  <2> QED
    BY <2>1, <2>2
<1>4. DOMAIN own = DOMAIN segments /\ DOMAIN params = DOMAIN segments
  BY <1>1 DEF UpdateInv, Working
<1>5. ASSUME NEW i \in DOMAIN segments, HasParams(i)
      PROVE  ExprIs(exprs', i, optimizer', Seen(i)') /\ OwnIs(i)'
  <2>1. ExprIs(exprs, i, optimizer, Seen(i)) /\ OwnIs(i)
    BY <1>1, <1>5 DEF UpdateInv, Working
  <2>2. OwnIs(i)'
    BY <1>1, <1>2, <2>1 DEF OwnIs
  <2> QED
    BY <1>1, <1>2, <1>3, <2>1, <2>2
<1>6. ASSUME NEW i \in DOMAIN segments, HasParams(i), i # k
      PROVE  params'[i] = [b \in 1 .. Done(i)' |-> Step(i, b)']
  <2>1. (i < k') <=> (i < k)
    <3>1. i < k' <=> i <= k
      BY <1>0, <1>1, <1>6, NextBuffer
    <3> QED
      BY <1>0, <1>6, <3>1
  <2>2. Done(i)' = Done(i)
    BY <1>1, <1>3, <2>1 DEF Done, OneIf, Applied
  <2>3. params[i] = [b \in 1 .. Done(i) |-> Step(i, b)] /\ params'[i] = params[i]
    BY <1>1, <1>4, <1>6 DEF UpdateInv, Working
  <2>4. [b \in 1 .. Done(i)' |-> Step(i, b)'] = [b \in 1 .. Done(i) |-> Step(i, b)]
    BY <1>2, <2>2
  <2> QED
    BY <2>3, <2>4
<1>7. ASSUME NEW i \in DOMAIN segments, HasParams(i), i = k
      PROVE  params'[i] = [b \in 1 .. Done(i)' |-> Step(i, b)']
  <2> DEFINE f == [b \in 1 .. Trained + 1 |-> Step(i, b)]
             g == [b \in 1 .. Trained |-> Step(i, b)]
             S == {Step(i, b) : b \in Nat}
  <2>1. i < k' /\ ~ (i < k)
    BY <1>0, <1>1, <1>7, NextBuffer
  <2>2. Done(i) = Trained /\ Done(i)' = Trained + 1
    BY <1>1, <1>3, <2>1 DEF Done, OneIf, Applied
  <2>3. /\ params[i] = g /\ params'[i] = Append(params[i], own[i])
        /\ own[i] = Step(i, Trained + 1)
    <3>1. params[i] = [b \in 1 .. Done(i) |-> Step(i, b)]
      BY <1>1, <1>7 DEF UpdateInv, Working
    <3>2. own[i] = Step(i, batch)
      BY <1>1, <1>7 DEF UpdateInv, Working, OwnIs
    <3>3. params'[i] = Append(params[i], own[i])
      BY <1>1, <1>4, <1>7
    <3> QED
      BY <1>3, <2>2, <3>1, <3>2, <3>3
  <2>4. /\ f \in [1 .. Trained + 1 -> S] /\ g \in [1 .. Trained -> S]
        /\ f[Trained + 1] = Step(i, Trained + 1)
        /\ \A b \in 1 .. Trained : g[b] = f[b]
    BY <1>3
  <2>5. [b \in 1 .. Done(i)' |-> Step(i, b)'] = f
    BY <1>2, <2>2
  <2> HIDE DEF f, g, S
  <2>6. Append(g, f[Trained + 1]) = f
    BY <1>3, <2>4, OneMoreOf
  <2> QED
    BY <2>3, <2>4, <2>5, <2>6
<1>8. DOMAIN params' = DOMAIN params
  BY <1>1
<1> QED
  BY <1>1, <1>2, <1>4, <1>5, <1>6, <1>7, <1>8 DEF UpdateInv

\* Every step of training keeps account of what the updates are made of.
LEMMA UpdateStep ==
  ASSUME BuilderInv, MadeInv, LoopInv, PlacedInv, UpdateInv, Next
  PROVE  UpdateInv'
<1>0. N \in Nat /\ DOMAIN segments = 1 .. N
  BY SegmentFacts
<1>1. CASE Plan \/ Stops
  <2>1. stage' \notin Working
    BY <1>1 DEF Plan, trainVars, Stops, Ends, Ended, Working
  <2> QED
    BY <2>1 DEF UpdateInv
<1>2. CASE Start /\ ~ Stops
  BY <1>2, StartUpdates
<1>3. ASSUME stage \in {"epoch", "batches", "forward", "loss", "validated"}, stage' \in Working,
             stage' \notin {"backward", "modify", "adapters", "apply"},
             UNCHANGED <<plan, optimizer, own, params, exprs>>, Trained' = Trained
      PROVE  UpdateInv'
  <2>1. /\ \A i : Done(i)' = Done(i) /\ Seen(i)' = Seen(i)
        /\ \A i : OwnIs(i)'
    BY <1>3 DEF Done, Seen, OneIf, Applied, Modified, OwnIs
  <2> QED
    BY <1>3, <2>1, UpdateSame DEF Working
<1>4. ASSUME NEW reassign \in BOOLEAN, ObserveEpoch(reassign) PROVE UpdateInv'
  <2>1. Trained' = Trained
    BY <1>4 DEF ObserveEpoch, Trained, loop, pass
  <2> QED
    BY <1>3, <1>4, <2>1 DEF ObserveEpoch, loop, Working
<1>5. ASSUME NEW what \in {"train", "validate", "test"}, Begun(what) PROVE UpdateInv'
  <2>1. batch \in Nat
    BY DEF LoopInv
  <2>2. /\ purpose' = what /\ stage' = "forward" /\ stage \in {"epoch", "batches", "validated"}
        /\ UNCHANGED <<plan, optimizer, own, params, exprs>>
        /\ batch' = IF what = "train" THEN batch + 1 ELSE batch
    BY <1>5 DEF Begun, BeginForward, buffers
  <2>3. Trained' = Trained
    BY <2>1, <2>2 DEF Trained
  <2> QED
    BY <1>3, <2>2, <2>3 DEF Working
<1>6. CASE EndEpoch
  <2>1. Trained' = Trained
    BY <1>6 DEF EndEpoch, Trained, pass
  <2> QED
    BY <1>3, <1>6, <2>1 DEF EndEpoch, buffers, Working
<1>7. CASE (\E r, n : OneStreamJob(r, n)) \/ ConnectorJob
  <2>1. stage = "forward" /\ UNCHANGED <<plan, stage, loop, purpose, buffers>>
    BY <1>7 DEF OneStreamJob, ConnectorJob, ForwardStep, InForward
  <2>2. Trained' = Trained
    BY <2>1 DEF Trained, loop
  <2> QED
    BY <1>3, <2>1, <2>2 DEF loop, buffers, Working
<1>8. CASE (EndForward /\ ~ Stops) \/ (Loss /\ ~ Stops /\ purpose # "train")
  <2>1. /\ stage \in {"forward", "loss"} /\ UNCHANGED <<plan, loop, purpose, buffers>>
        /\ stage' = "loss" \/ (stage' \in {"validated", "tested"} /\ purpose # "train")
    BY <1>8, StopStops DEF EndForward, Loss, Stops, Ended, pass
  <2>2. Trained' = Trained
    BY <2>1 DEF Trained, loop
  <2> QED
    BY <1>3, <2>1, <2>2 DEF loop, buffers, Working
<1>9. CASE Loss /\ ~ Stops /\ purpose = "train"
  <2>1. /\ stage = "loss" /\ stage' = "backward" /\ k' = N /\ UNCHANGED <<plan, loop, purpose, buffers>>
    BY <1>9 DEF Loss, Stops, Ended, N
  <2>2. Trained' = Trained
    BY <2>1 DEF Trained, loop
  <2>3. \A i : Done(i)' = Done(i) /\ Seen(i)' = Seen(i)
    BY <2>1, <2>2 DEF Done, Seen, OneIf, Applied, Modified
  <2>4. \A i \in DOMAIN segments : ~ (i > k')
    BY <1>0, <2>1
  <2>5. \A i \in DOMAIN segments : OwnIs(i)'
    BY <2>1, <2>4 DEF OwnIs
  <2> QED
    BY <2>1, <2>3, <2>5, UpdateSame DEF loop, buffers, Working
<1>10. CASE (\E r, n : OneStreamBack(r, n)) \/ ConnectorBack
  <2>1. /\ stage = "backward" /\ k \in DOMAIN segments /\ stage' = stage /\ k' = k - 1
        /\ UNCHANGED <<plan, loop, purpose, params, exprs>>
        /\ own' = [own EXCEPT ![k] = OwnAfterBackward]
    BY <1>10 DEF OneStreamBack, ConnectorBack, BackwardStep, InBackward
  <2> QED
    BY <2>1, BackwardUpdates
<1>11. CASE EndBackward /\ ~ Stops
  <2>1. /\ stage = "backward" /\ stage' = "modify" /\ k = 0 /\ k' = BufferFrom(1)
        /\ UNCHANGED <<plan, loop, purpose, buffers>>
    BY <1>11, StopStops DEF EndBackward
  <2>2. Trained' = Trained
    BY <2>1 DEF Trained, loop
  <2>3. ASSUME NEW i \in DOMAIN segments, HasParams(i)
        PROVE  Done(i)' = Done(i) /\ Seen(i)' = Seen(i) /\ OwnIs(i)'
    <3>1. ~ (i < k') /\ i > 0
      BY <1>0, <2>1, <2>3, FirstBuffer
    <3>2. own[i] = [own |-> {batch}, cubes |-> <<>>]
      BY <2>1, <2>3, <3>1 DEF UpdateInv, OwnIs, Working
    <3>3. OwnIs(i)'
      BY <2>1, <3>1, <3>2 DEF OwnIs, loop, buffers
    <3> QED
      BY <2>1, <2>2, <3>1, <3>3 DEF Done, Seen, OneIf, Applied, Modified
  <2> QED
    BY <2>1, <2>3, UpdateSame DEF loop, buffers, Working
<1>12. CASE ModifyGrads /\ ~ Stops
  BY <1>12, ModifyUpdates
<1>13. CASE EndModify
  <2>1. /\ stage = "modify" /\ stage' = "adapters" /\ k = N + 1
        /\ UNCHANGED <<plan, loop, purpose, buffers>>
    BY <1>13 DEF EndModify, StayInPass, N
  <2>2. Trained' = Trained
    BY <2>1 DEF Trained, loop
  <2>3. ASSUME NEW i \in DOMAIN segments, HasParams(i)
        PROVE  Done(i)' = Done(i) /\ Seen(i)' = Seen(i) /\ OwnIs(i)'
    <3>1. i < k
      BY <1>0, <2>1
    <3>2. own[i] = [own |-> {batch}, cubes |-> <<Modifiers(optimizer)>>]
      BY <2>1, <2>3, <3>1 DEF UpdateInv, OwnIs, Working
    <3>3. OwnIs(i)'
      BY <2>1, <3>2 DEF OwnIs, loop, buffers
    <3> QED
      BY <2>1, <2>2, <3>1, <3>3 DEF Done, Seen, OneIf, Applied, Modified
  <2> QED
    BY <2>1, <2>3, UpdateSame DEF loop, buffers, Working
<1>14. CASE AdapterPass /\ ~ Stops
  BY <1>14, AdapterUpdates
<1>15. CASE ApplyUpdate /\ ~ Stops
  BY <1>15, ApplyUpdates
<1>16. CASE EndApply
  <2>1. /\ stage = "apply" /\ stage' = "batches" /\ k = N + 1
        /\ UNCHANGED <<plan, loop, purpose, buffers>>
    BY <1>16 DEF EndApply, N
  <2>2. /\ Trained \in Nat /\ batch = Trained + 1
    BY <2>1, TrainedType DEF Working, Learning
  <2>3. Trained' = Trained + 1
    BY <2>1, <2>2 DEF Trained, loop
  <2>4. ASSUME NEW i \in DOMAIN segments, HasParams(i)
        PROVE  Done(i)' = Done(i) /\ Seen(i)' = Seen(i) /\ OwnIs(i)'
    <3>1. i < k
      BY <1>0, <2>1
    <3>2. OwnIs(i)'
      BY <2>1 DEF OwnIs
    <3> QED
      BY <2>1, <2>2, <2>3, <3>1, <3>2 DEF Done, Seen, OneIf, Applied, Modified
  <2> QED
    BY <2>1, <2>4, UpdateSame DEF loop, buffers, Working
<1> QED
  BY <1>1, <1>2, <1>4, <1>5, <1>6, <1>7, <1>8, <1>9, <1>10, <1>11, <1>12, <1>13, <1>14, <1>15,
     <1>16, StepCases

-----------------------------------------------------------------------------
(* The buffers of a pass                                                   *)

\* What holds when a forward job runs: its streams are older than its buffers.
LEMMA ForwardFinds ==
  ASSUME BuilderInv, MadeInv, LoopInv, PassInv, DeviceInv, InForward
  PROVE  /\ N \in Nat /\ DOMAIN segments = 1 .. N /\ k \in 1 .. N /\ stage = "forward"
         /\ Running \in SegmentRec /\ WellMade(Running) /\ Here \in Nat \ {0}
         /\ cache \in Seq(CacheRec) /\ Len(cache) = k - 1 /\ DOMAIN cache = 1 .. k - 1
         /\ streams \in Seq(Nat) /\ DOMAIN streams = 1 .. Len(streams) /\ Len(streams) \in Nat
         /\ Buffers = 1 .. 2 * N + 1
         /\ \A j \in DOMAIN streams : streams[j] \in 1 .. 2 * k - 1 /\ streams[j] \in Buffers
         /\ OutOf(k, 1) = 2 * k /\ OutOf(k, 2) = 2 * k + 1
         /\ OutOf(k, 1) \in Buffers /\ OutOf(k, 2) \in Buffers
<1>1. N \in Nat /\ DOMAIN segments = 1 .. N /\ k \in 1 .. N /\ stage = "forward"
  BY SegmentFacts DEF InForward
<1>2. Running \in SegmentRec /\ WellMade(Running) /\ Here \in Nat \ {0}
  BY <1>1, SegmentFacts DEF Running, Here
<1>3. cache \in Seq(CacheRec) /\ Len(cache) = k - 1 /\ streams \in Seq(Nat)
  BY <1>1 DEF PassInv, Passing
<1>4. DOMAIN cache = 1 .. k - 1
  BY <1>3
<1>5. DOMAIN streams = 1 .. Len(streams) /\ Len(streams) \in Nat
  BY <1>3
<1>6. Buffers = 1 .. 2 * N + 1
  BY DEF Buffers, N
<1>7. OutOf(k, 1) = 2 * k /\ OutOf(k, 2) = 2 * k + 1
  BY <1>1 DEF OutOf
<1>8. \A j \in DOMAIN streams : streams[j] \in 1 .. 2 * Len(cache) + 1
  BY <1>1 DEF DeviceInv
<1>9. 2 * Len(cache) + 1 = 2 * k - 1
  BY <1>1, <1>3
<1>10. \A j \in DOMAIN streams : streams[j] \in 1 .. 2 * k - 1 /\ streams[j] \in Buffers
  BY <1>1, <1>6, <1>8, <1>9
<1>11. OutOf(k, 1) \in Buffers /\ OutOf(k, 2) \in Buffers
  BY <1>1, <1>6, <1>7
<1> QED
  BY <1>1, <1>2, <1>3, <1>4, <1>5, <1>6, <1>7, <1>10, <1>11

\* What a job of one stream does to the buffers.
LEMMA OneStreamEffect ==
  ASSUME BuilderInv, MadeInv, LoopInv, PassInv, DeviceInv, NEW r, NEW n, OneStreamJob(r, n)
  PROVE  /\ InForward /\ OnOneStream(Running) /\ Here \in DOMAIN streams
         /\ streams[Here] \in Buffers /\ streams[Here] # OutOf(k, 1)
         /\ r \in Nat /\ n \in Nat
         /\ Plain(Running) /\ size[streams[Here]] = Running.in[1] =>
              r = rows[streams[Here]] /\ n = Running.out[1]
         /\ \A b \in Buffers : rows'[b] = IF b = OutOf(k, 1) THEN r ELSE rows[b]
         /\ streams' = [streams EXCEPT ![Here] = OutOf(k, 1)]
         /\ \E outs \in {<<OutOf(k, 1)>>, <<>>} :
              /\ Running.kind = "Universal" => outs = <<OutOf(k, 1)>>
              /\ cache' = Append(cache, Saved(<<streams[Here]>>, outs, OperatorMemory(k)))
         /\ \A b \in Buffers : size'[b] = IF b = OutOf(k, 1) THEN n ELSE size[b]
         /\ \A b \in Buffers :
              at'[b] = IF b = streams[Here] \/ b = OutOf(k, 1) THEN OperatorMemory(k) ELSE at[b]
         /\ DOMAIN rows' = Buffers /\ DOMAIN size' = Buffers /\ DOMAIN at' = Buffers
         /\ k' = k + 1 /\ UNCHANGED <<plan, stage, loop, purpose, given>>
<1>1. InForward /\ OnOneStream(Running)
  BY DEF OneStreamJob
<1>2. Here \in DOMAIN streams
  <2>1. ~ (Here > Len(streams)) /\ Len(streams) \in Nat /\ Here \in Nat \ {0}
    BY <1>1, ForwardFinds DEF OneStreamJob, NoStream
  <2> QED
    BY <1>1, <2>1, ForwardFinds
<1>3. streams[Here] \in Buffers /\ streams[Here] # OutOf(k, 1)
  <2>1. /\ streams[Here] \in 1 .. 2 * k - 1 /\ streams[Here] \in Buffers
        /\ OutOf(k, 1) = 2 * k /\ k \in 1 .. N /\ N \in Nat
    BY <1>1, <1>2, ForwardFinds
  <2> QED
    BY <2>1
<1>s. /\ r \in Nat /\ n \in Nat
      /\ Plain(Running) /\ size[streams[Here]] = Running.in[1] =>
           r = rows[streams[Here]] /\ n = Running.out[1]
  <2>1. rows[streams[Here]] \in Nat /\ size[streams[Here]] \in Nat
    BY <1>1, <1>3, ForwardFinds DEF DeviceInv
  <2> QED
    BY <2>1 DEF OneStreamJob
<1> DEFINE in == streams[Here]
           out == OutOf(k, 1)
           device == OperatorMemory(k)
<1>4. PICK outs \in {<<out>>, <<>>} :
        /\ Running.kind = "Universal" => outs = <<out>>
        /\ ForwardStep(<<in>>, <<out>>, r, <<n>>, device, [streams EXCEPT ![Here] = out],
                       Saved(<<in>>, outs, device))
  BY DEF OneStreamJob
<1> HIDE DEF in, out, device
<1>5. /\ streams' = [streams EXCEPT ![Here] = out]
      /\ cache' = Append(cache, Saved(<<in>>, outs, device))
      /\ at' = [b \in Buffers |-> IF b \in ToSet(<<in>>) \cup ToSet(<<out>>) THEN device
                                  ELSE at[b]]
      /\ size' = [b \in Buffers |->
                    IF b \in ToSet(<<out>>) THEN <<n>>[CHOOSE j \in DOMAIN <<out>> : <<out>>[j] = b]
                    ELSE size[b]]
      /\ rows' = [b \in Buffers |-> IF b \in ToSet(<<out>>) THEN r ELSE rows[b]]
      /\ k' = k + 1 /\ UNCHANGED <<plan, stage, loop, purpose, given>>
  BY <1>4 DEF ForwardStep
<1>6. ToSet(<<in>>) = {in} /\ ToSet(<<out>>) = {out}
  <2>1. \A x : DOMAIN <<x>> = {1} /\ <<x>>[1] = x
    OBVIOUS
  <2>2. \A s, b : b \in ToSet(s) <=> \E j \in DOMAIN s : b = s[j]
    BY DEF ToSet
  <2>3. ASSUME NEW x PROVE ToSet(<<x>>) = {x}
    <3>1. \A b : b \in ToSet(<<x>>) <=> b = x
      BY <2>1, <2>2
    <3> QED
      BY <3>1
  <2> QED
    BY <2>3
<1>7. <<n>>[CHOOSE j \in DOMAIN <<out>> : <<out>>[j] = out] = n
  OBVIOUS
<1>8. \A b \in Buffers : size'[b] = IF b = out THEN n ELSE size[b]
  BY <1>5, <1>6, <1>7
<1>9. \A b \in Buffers : at'[b] = IF b = in \/ b = out THEN device ELSE at[b]
  BY <1>5, <1>6
<1>10. DOMAIN rows' = Buffers /\ DOMAIN size' = Buffers /\ DOMAIN at' = Buffers
  BY <1>5
<1>11. \A b \in Buffers : rows'[b] = IF b = out THEN r ELSE rows[b]
  BY <1>5, <1>6
<1> QED
  BY <1>1, <1>2, <1>3, <1>s, <1>4, <1>5, <1>8, <1>9, <1>10, <1>11 DEF in, out, device

\* What a connector does to the buffers.
LEMMA ConnectorEffect ==
  ASSUME BuilderInv, MadeInv, LoopInv, PassInv, DeviceInv, ConnectorJob
  PROVE  /\ InForward /\ ~ OnOneStream(Running) /\ Len(streams) = Len(Running.in)
         /\ streams' = ConnectorOuts(k)
         /\ cache' = Append(cache, Saved(streams, ConnectorOuts(k), "ram"))
         /\ \A j \in DOMAIN Running.out : size'[OutOf(k, j)] = Running.out[j]
         /\ \A b \in Buffers : size'[b] \in Nat /\ rows'[b] \in Nat
         /\ 1 \in DOMAIN streams /\ streams[1] \in Buffers
         /\ \A b \in Buffers : rows'[b] \in {rows[b], rows[streams[1]]}
         /\ \A b \in Buffers :
              at'[b] = IF \/ \E j \in DOMAIN streams : b = streams[j]
                          \/ \E j \in DOMAIN ConnectorOuts(k) : b = ConnectorOuts(k)[j]
                       THEN "ram" ELSE at[b]
         /\ DOMAIN rows' = Buffers /\ DOMAIN size' = Buffers /\ DOMAIN at' = Buffers
         /\ k' = k + 1 /\ UNCHANGED <<plan, stage, loop, purpose, given>>
<1>1. InForward /\ ~ OnOneStream(Running) /\ Len(streams) = Len(Running.in)
  BY DEF ConnectorJob
<1>2. /\ k \in 1 .. N /\ N \in Nat /\ Running.out \in Seq(Nat)
      /\ rows \in [Buffers -> Nat] /\ size \in [Buffers -> Nat]
      /\ OutOf(k, 1) # OutOf(k, 2) /\ OutOf(k, 1) \in Buffers /\ OutOf(k, 2) \in Buffers
  <2>1. /\ k \in 1 .. N /\ N \in Nat /\ Running \in SegmentRec /\ stage = "forward"
        /\ OutOf(k, 1) = 2 * k /\ OutOf(k, 2) = 2 * k + 1
        /\ OutOf(k, 1) \in Buffers /\ OutOf(k, 2) \in Buffers
    BY <1>1, ForwardFinds
  <2>2. rows \in [Buffers -> Nat] /\ size \in [Buffers -> Nat]
    BY <2>1 DEF DeviceInv
  <2>3. 2 * k # 2 * k + 1
    BY <2>1
  <2> QED
    BY <2>1, <2>2, <2>3 DEF SegmentRec
<1> DEFINE outs == ConnectorOuts(k)
           sizes == Running.out
<1>3. /\ outs \in Seq(Nat) /\ DOMAIN outs = 1 .. Len(sizes) /\ Len(sizes) \in {1, 2}
      /\ \A j \in DOMAIN outs : outs[j] = OutOf(k, j)
      /\ DOMAIN sizes = 1 .. Len(sizes)
  BY <1>2, ConnectorOutsType DEF Running
<1>4. /\ streams' = outs /\ cache' = Append(cache, Saved(streams, outs, "ram"))
      /\ at' = [b \in Buffers |-> IF b \in ToSet(streams) \cup ToSet(outs) THEN "ram"
                                  ELSE at[b]]
      /\ size' = [b \in Buffers |->
                    IF b \in ToSet(outs) THEN sizes[CHOOSE j \in DOMAIN outs : outs[j] = b]
                    ELSE size[b]]
      /\ rows' = [b \in Buffers |-> IF b \in ToSet(outs) THEN rows[streams[1]] ELSE rows[b]]
      /\ k' = k + 1 /\ UNCHANGED <<plan, stage, loop, purpose, given>>
  BY DEF ConnectorJob, ForwardStep
<1> HIDE DEF outs, sizes
<1>5. \A s, b : b \in ToSet(s) <=> \E j \in DOMAIN s : b = s[j]
  BY DEF ToSet
<1>6. \A j \in DOMAIN outs : outs[j] \in Buffers
  BY <1>2, <1>3
<1>7. \A j, l \in DOMAIN outs : outs[j] = outs[l] => j = l
  BY <1>2, <1>3
<1>8. ASSUME NEW j \in DOMAIN outs
      PROVE  size'[outs[j]] = sizes[j]
  <2>1. (CHOOSE l \in DOMAIN outs : outs[l] = outs[j]) = j
    BY <1>7
  <2>2. outs[j] \in ToSet(outs)
    BY <1>5
  <2> QED
    BY <1>4, <1>6, <2>1, <2>2
<1>9. ASSUME NEW b \in Buffers
      PROVE  size'[b] \in Nat
  <2>1. CASE b \in ToSet(outs)
    <3>1. PICK j \in DOMAIN outs : b = outs[j]
      BY <1>5, <2>1
    <3>2. sizes[j] \in Nat
      BY <1>2, <1>3, ElementOfSeq DEF sizes
    <3> QED
      BY <1>8, <3>1, <3>2
  <2>2. CASE b \notin ToSet(outs)
    BY <1>2, <1>4, <2>2
  <2> QED
    BY <2>1, <2>2
<1>10. \A b \in Buffers :
         at'[b] = IF \/ \E j \in DOMAIN streams : b = streams[j]
                     \/ \E j \in DOMAIN outs : b = outs[j] THEN "ram" ELSE at[b]
  BY <1>4, <1>5
<1>11. DOMAIN rows' = Buffers /\ DOMAIN size' = Buffers /\ DOMAIN at' = Buffers
  BY <1>4
<1>12. \A j \in DOMAIN sizes : size'[OutOf(k, j)] = sizes[j]
  BY <1>3, <1>8
<1>13. 1 \in DOMAIN streams /\ streams[1] \in Buffers
  <2>1. /\ Len(streams) \in {1, 2} /\ DOMAIN streams = 1 .. Len(streams)
        /\ \A j \in DOMAIN streams : streams[j] \in Buffers
    BY <1>1, ForwardFinds DEF WellMade
  <2> DEFINE l == Len(streams)
  <2>2. l \in {1, 2} => 1 \in 1 .. l
    OBVIOUS
  <2> HIDE DEF l
  <2> QED
    BY <2>1, <2>2 DEF l
<1>14. \A b \in Buffers : rows'[b] \in {rows[b], rows[streams[1]]}
  BY <1>4
<1>15. \A b \in Buffers : rows'[b] \in Nat
  BY <1>2, <1>13, <1>14
<1> QED
  BY <1>1, <1>4, <1>9, <1>10, <1>11, <1>12, <1>13, <1>14, <1>15 DEF outs, sizes

-----------------------------------------------------------------------------
(* Sizes follow the flow of the plan                                       *)

\* Segment i carries the sizes on.
LEMMA SizedOn ==
  ASSUME NEW segs, NEW i \in Nat \ {0}, i \in DOMAIN segs, NEW y, SizedAs(segs, i - 1, y)
  PROVE  y \in Seq(Nat) /\ \E z \in Seq(Nat) : Carries(segs[i], y, z) /\ SizedAs(segs, i, z)
<1>1. PICK flow : FlowOf(segs, flow) /\ Len(flow[Len(segs)]) = 1 /\ flow[i - 1] = y
  BY DEF SizedAs
<1>2. i - 1 \in Nat /\ i \in Nat
  OBVIOUS
<1>3. y \in Seq(Nat) /\ flow[i] \in Seq(Nat) /\ Carries(segs[i], y, flow[i])
  BY <1>1, <1>2 DEF FlowOf
<1>4. SizedAs(segs, i, flow[i])
  BY <1>1 DEF SizedAs
<1> QED
  BY <1>3, <1>4

\* And so backward.
LEMMA SizedBack ==
  ASSUME NEW segs, NEW i \in Nat \ {0}, i \in DOMAIN segs, NEW z, SizedAs(segs, i, z)
  PROVE  z \in Seq(Nat) /\ \E y \in Seq(Nat) : Carries(segs[i], y, z) /\ SizedAs(segs, i - 1, y)
<1>1. PICK flow : FlowOf(segs, flow) /\ Len(flow[Len(segs)]) = 1 /\ flow[i] = z
  BY DEF SizedAs
<1>2. i - 1 \in Nat /\ i \in Nat
  OBVIOUS
<1>3. z \in Seq(Nat) /\ flow[i - 1] \in Seq(Nat) /\ Carries(segs[i], flow[i - 1], z)
  BY <1>1, <1>2 DEF FlowOf
<1>4. SizedAs(segs, i - 1, flow[i - 1])
  BY <1>1 DEF SizedAs
<1> QED
  BY <1>3, <1>4

\* The sizes of the streams of a pass that begins are those of the flow.
LEMMA SizeBegins ==
  ASSUME BuilderInv, MadeInv, Fits, builder.status = "built"
  PROVE  SizedAs(segments, 0, <<segments[1].in[1]>>)
<1>0. PICK z \in Seq(Nat) :
        \E flow : FlowOf(segments, flow) /\ flow[Len(segments)] = z /\ Len(z) = 1
  BY DEF BuilderInv, FlowInv, FlowsTo, segments, Fits
<1>1. PICK flow : FlowOf(segments, flow) /\ flow[Len(segments)] = z /\ Len(z) = 1
  BY <1>0
<1>2. 1 \in DOMAIN segments /\ segments[1] \in SegmentRec /\ StreamIndex(segments[1]) \in Nat \ {0}
  BY SegmentFacts
<1>3. /\ flow[0] \in Seq(Nat) /\ Len(flow[0]) = 1
      /\ Carries(segments[1], flow[1 - 1], flow[1])
  BY <1>1, <1>2 DEF FlowOf
<1>4. 1 - 1 = 0
  OBVIOUS
<1>5. DOMAIN flow[0] = {1} /\ flow[0] = <<flow[0][1]>>
  <2>1. DOMAIN flow[0] = 1 .. Len(flow[0])
    BY <1>3
  <2>2. flow[0] = <<flow[0][1]>>
    BY <1>3
  <2> QED
    BY <1>3, <2>1, <2>2
<1>6. flow[0][1] = segments[1].in[1]
  BY <1>2, <1>3, <1>4, <1>5 DEF Carries, Fits
<1>7. flow[0] = <<segments[1].in[1]>>
  BY <1>5, <1>6
<1> QED
  BY <1>1, <1>7 DEF SizedAs

\* Forward jobs put out the sizes of the flow.
LEMMA ForwardSizes ==
  ASSUME BuilderInv, MadeInv, LoopInv, PassInv, SizeInv, DeviceInv, Fits, NEW r, NEW n,
         OneStreamJob(r, n) \/ ConnectorJob
  PROVE  /\ SizedAs(segments, k, SizesOf(streams', size'))
         /\ \A b \in Buffers : rows'[b] = BatchRows
<1>0. InForward
  BY DEF OneStreamJob, ConnectorJob
<1>1. /\ k \in 1 .. N /\ N \in Nat /\ k \in DOMAIN segments /\ streams \in Seq(Nat)
      /\ \A j \in DOMAIN streams : streams[j] \in Buffers /\ streams[j] \in 1 .. 2 * k - 1
      /\ OutOf(k, 1) = 2 * k /\ OutOf(k, 1) \in Buffers
      /\ Running.out \in Seq(Nat)
  BY <1>0, ForwardFinds DEF SegmentRec
<1> DEFINE y == SizesOf(streams, size)
<1>2. SizedAs(segments, k - 1, y) /\ \A b \in Buffers : rows[b] = BatchRows
  BY <1>0 DEF SizeInv, InForward
<1>p. Plain(Running) /\ Plain(segments[k])
  BY <1>1 DEF Fits, Running
<1>3. k \in Nat \ {0}
  BY <1>1
<1> HIDE DEF y
<1>4. PICK z \in Seq(Nat) : Carries(segments[k], y, z) /\ SizedAs(segments, k, z)
  BY <1>1, <1>2, <1>3, SizedOn
<1>5. DOMAIN y = DOMAIN streams /\ \A j \in DOMAIN streams : y[j] = size[streams[j]]
  BY DEF y, SizesOf
<1>6. CASE OneStreamJob(r, n)
  <2>1. /\ Here \in DOMAIN streams /\ streams' = [streams EXCEPT ![Here] = OutOf(k, 1)]
        /\ \A b \in Buffers : size'[b] = IF b = OutOf(k, 1) THEN n ELSE size[b]
        /\ \A b \in Buffers : rows'[b] = IF b = OutOf(k, 1) THEN r ELSE rows[b]
        /\ OnOneStream(Running) /\ streams[Here] \in Buffers
        /\ size[streams[Here]] = Running.in[1] =>
             r = rows[streams[Here]] /\ n = Running.out[1]
    BY <1>6, <1>p, OneStreamEffect
  <2>2. y[Here] = Running.in[1] /\ z = [y EXCEPT ![Here] = Running.out[1]]
    BY <1>4, <1>p, <2>1 DEF Carries, Here, Running
  <2>3. n = Running.out[1] /\ r = BatchRows
    BY <1>2, <1>5, <2>1, <2>2
  <2>4. DOMAIN streams' = DOMAIN z /\ DOMAIN z = DOMAIN y
    BY <1>5, <2>1, <2>2
  <2>5. ASSUME NEW j \in DOMAIN z PROVE size'[streams'[j]] = z[j]
    <3>1. CASE j = Here
      BY <1>1, <1>5, <2>1, <2>2, <2>3, <2>4, <3>1
    <3>2. CASE j # Here
      <4>1. streams'[j] = streams[j] /\ z[j] = y[j] /\ streams[j] \in Buffers
            /\ streams[j] \in 1 .. 2 * k - 1
        BY <1>1, <1>5, <2>1, <2>2, <2>4, <3>2
      <4>2. streams[j] # OutOf(k, 1)
        BY <1>1, <4>1
      <4> QED
        BY <1>5, <2>1, <2>4, <4>1, <4>2
    <3> QED
      BY <3>1, <3>2
  <2>6. SizesOf(streams', size') = z
    <3>1. z = [j \in DOMAIN z |-> z[j]]
      OBVIOUS
    <3> QED
      BY <2>4, <2>5, <3>1 DEF SizesOf
  <2> QED
    BY <1>2, <1>4, <2>1, <2>3, <2>6
<1>7. CASE ConnectorJob
  <2>1. /\ ~ OnOneStream(Running) /\ streams' = ConnectorOuts(k)
        /\ streams[1] \in Buffers /\ \A b \in Buffers : rows'[b] \in {rows[b], rows[streams[1]]}
        /\ \A j \in DOMAIN Running.out : size'[OutOf(k, j)] = Running.out[j]
    BY <1>7, ConnectorEffect
  <2>2. z = Running.out
    BY <1>4, <2>1 DEF Carries, Running
  <2>3. DOMAIN streams' = DOMAIN z /\ \A j \in DOMAIN z : size'[streams'[j]] = z[j]
    BY <2>1, <2>2 DEF ConnectorOuts, Running
  <2>4. z = [j \in DOMAIN z |-> z[j]]
    OBVIOUS
  <2>5. SizesOf(streams', size') = z
    BY <2>3, <2>4 DEF SizesOf
  <2> QED
    BY <1>2, <1>4, <2>1, <2>5
<1> QED
  BY <1>6, <1>7

\* Backward jobs give back the sizes their segments took in.
LEMMA BackwardSizes ==
  ASSUME BuilderInv, MadeInv, LoopInv, PassInv, SizeInv, DeviceInv, Fits, NEW r, NEW n,
         OneStreamBack(r, n) \/ ConnectorBack
  PROVE  /\ SizedAs(segments, k - 1, GradSizes(grads'))
         /\ \A j \in DOMAIN grads' : grads'[j].rows = BatchRows
<1>0. InBackward /\ stage = "backward"
  BY DEF OneStreamBack, ConnectorBack, InBackward
<1>1. /\ k \in 1 .. N /\ N \in Nat /\ k \in DOMAIN segments /\ Running \in SegmentRec
      /\ WellMade(Running) /\ Running.in \in Seq(Nat)
  BY <1>0, SegmentFacts DEF InBackward, Running, SegmentRec
<1> DEFINE z == GradSizes(grads)
<1>2. /\ SizedAs(segments, k, z) /\ \A b \in Buffers : rows[b] = BatchRows
      /\ \A j \in DOMAIN grads : grads[j].rows = BatchRows
  BY <1>0 DEF SizeInv
<1>p. Plain(Running) /\ Plain(segments[k])
  BY <1>1 DEF Fits, Running
<1>3. k \in Nat \ {0}
  BY <1>1
<1> HIDE DEF z
<1>4. PICK y \in Seq(Nat) : Carries(segments[k], y, z) /\ SizedAs(segments, k - 1, y)
  BY <1>1, <1>2, <1>3, SizedBack
<1>5. DOMAIN z = DOMAIN grads /\ \A j \in DOMAIN grads : z[j] = grads[j].size
  BY DEF z, GradSizes
<1>6. y = [j \in DOMAIN y |-> y[j]]
  OBVIOUS
<1>7. CASE OneStreamBack(r, n)
  <2>1. PICK device \in Devices :
          grads' = [grads EXCEPT ![Here] = Gradient(cache[k].in[1], r, n, device)]
    BY <1>7 DEF OneStreamBack, BackwardStep
  <2>2. /\ Here \in DOMAIN y /\ y[Here] = Running.in[1]
        /\ z = [y EXCEPT ![Here] = Running.out[1]]
    BY <1>4, <1>7, <1>p DEF OneStreamBack, Carries, Here, Running
  <2>3. n = Running.in[1] /\ r = BatchRows
    <3>1. /\ cache[k].in[1] \in Buffers /\ rows[cache[k].in[1]] \in Nat
          /\ grads[Here].rows \in Nat /\ grads[Here].size \in Nat
      BY <1>7, BackShape
    <3>2. Here \in DOMAIN z /\ z[Here] = Running.out[1]
      BY <2>2
    <3>3. grads[Here].size = Running.out[1] /\ grads[Here].rows = rows[cache[k].in[1]]
      BY <1>2, <1>5, <3>1, <3>2
    <3>4. r = grads[Here].rows /\ n = Running.in[1]
      BY <1>7, <1>p, <3>1, <3>3 DEF OneStreamBack
    <3> QED
      BY <1>2, <1>5, <3>2, <3>4
  <2>4. DOMAIN grads' = DOMAIN y /\ DOMAIN grads = DOMAIN y
    BY <1>5, <2>1, <2>2
  <2>5. ASSUME NEW j \in DOMAIN y PROVE grads'[j].size = y[j] /\ grads'[j].rows = BatchRows
    <3>1. CASE j = Here
      BY <2>1, <2>2, <2>3, <2>4, <3>1 DEF Gradient
    <3>2. CASE j # Here
      BY <1>2, <1>5, <2>1, <2>2, <2>4, <3>2
    <3> QED
      BY <3>1, <3>2
  <2>6. GradSizes(grads') = y
    BY <1>6, <2>4, <2>5 DEF GradSizes
  <2> QED
    BY <1>4, <2>4, <2>5, <2>6
<1>8. CASE ConnectorBack
  <2>1. /\ ~ OnOneStream(Running)
        /\ grads' = [j \in DOMAIN cache[k].in |->
                        Gradient(cache[k].in[j], grads[1].rows, Running.in[j], "ram")]
        /\ Len(grads) = Len(Running.out)
    BY <1>8 DEF ConnectorBack, BackwardStep, ConnectorGrads
  <2>r. grads[1].rows = BatchRows
    <3> DEFINE l == Len(grads)
    <3>1. l \in {1, 2}
      BY <1>1, <2>1 DEF WellMade
    <3>2. DOMAIN grads = 1 .. l
      BY <1>0 DEF PassInv
    <3> HIDE DEF l
    <3>3. 1 \in DOMAIN grads
      BY <3>1, <3>2
    <3> QED
      BY <1>2, <3>3
  <2>2. y = Running.in
    BY <1>4, <2>1 DEF Carries, Running
  <2>3. DOMAIN cache[k].in = DOMAIN y
    <3>1. PICK before \in Seq(Nat), after \in Seq(Nat) :
            Linked(segments[k], k, cache[k].in, before, after)
      BY <1>0, BackwardFinds
    <3>2. cache[k].in = before /\ Len(before) = Len(Running.in)
      BY <2>1, <3>1 DEF Linked, Running
    <3>3. DOMAIN before = 1 .. Len(before) /\ DOMAIN y = 1 .. Len(y)
      BY <3>1
    <3> QED
      BY <2>2, <3>2, <3>3
  <2>4. /\ DOMAIN grads' = DOMAIN y
        /\ \A j \in DOMAIN y : grads'[j].size = y[j] /\ grads'[j].rows = BatchRows
    BY <2>1, <2>2, <2>3, <2>r DEF Gradient
  <2>5. GradSizes(grads') = y
    BY <1>6, <2>4 DEF GradSizes
  <2> QED
    BY <1>4, <2>4, <2>5
<1> QED
  BY <1>7, <1>8

\* Every step of training keeps the sizes.
LEMMA SizeStep ==
  ASSUME BuilderInv, MadeInv, LoopInv, PassInv, SizeInv, DeviceInv, Next
  PROVE  SizeInv'
<1>0. /\ N \in Nat /\ DOMAIN segments = 1 .. N
      /\ builder.status = "built" => N >= 1
  BY SegmentFacts
<1>1. ASSUME stage' \notin {"forward", "loss", "backward"} PROVE SizeInv'
  BY <1>1 DEF SizeInv
<1>2. CASE \/ Plan \/ Stops \/ (Start /\ ~ Stops) \/ EndEpoch \/ EndApply
           \/ (EndBackward /\ ~ Stops) \/ EndModify \/ (Loss /\ ~ Stops /\ purpose # "train")
  <2>1. stage' \notin {"forward", "loss", "backward"}
    BY <1>2, StopStops
       DEF Plan, trainVars, Stops, Ends, Start, EndEpoch, EndApply, EndBackward, EndModify, Loss,
           Ended
  <2> QED
    BY <1>1, <2>1
<1>3. ASSUME NEW reassign \in BOOLEAN, ObserveEpoch(reassign) PROVE SizeInv'
  BY <1>1, <1>3 DEF ObserveEpoch
<1>4. CASE (ModifyGrads \/ AdapterPass \/ ApplyUpdate) /\ ~ Stops
  BY <1>1, <1>4, StopStops DEF ModifyGrads, AdapterPass, ApplyUpdate, InBuffers, StayInPass
<1>5. ASSUME NEW what \in {"train", "validate", "test"}, Begun(what) PROVE SizeInv'
  <2>0. /\ stage' = "forward" /\ k' = 1 /\ streams' = <<Input>> /\ UNCHANGED plan
        /\ size' = [b \in Buffers |-> IF b = Input THEN features'[what] ELSE 0]
        /\ rows' = [b \in Buffers |-> BatchRows]
        /\ features' \in Learned(features, what, Sizes)
        /\ stage \in Working
    BY <1>5 DEF Begun, BeginForward, Working
  <2>l. /\ what \in DOMAIN features'
        /\ \A p \in DOMAIN features : p \in DOMAIN features' /\ features'[p] = features[p]
    <3>1. \A p \in DOMAIN features : features[p] \in Nat
      BY <2>0 DEF LoopInv
    <3> QED
      BY <2>0, <3>1, LearnedType, BuilderAssumption
  <2> SUFFICES ASSUME Fits' PROVE SizeInv'
    BY DEF SizeInv
  <2>1. Fits /\ features'[what] = segments[1].in[1]
    BY <2>0, <2>l, SamePlan DEF Fits
  <2>2. builder.status = "built"
    BY <2>0 DEF LoopInv
  <2>3. Input \in Buffers
    BY <1>0, <2>2 DEF Input, Buffers, N
  <2>4. SizesOf(streams', size') = <<segments[1].in[1]>>
    BY <2>0, <2>1, <2>3 DEF SizesOf
  <2>5. SizedAs(segments, 0, SizesOf(streams', size'))
    BY <2>1, <2>2, <2>4, SizeBegins
  <2>6. k' - 1 = 0
    BY <2>0
  <2>7. Buffers' = Buffers
    BY <2>0, SamePlan DEF Buffers
  <2> QED
    BY <2>0, <2>5, <2>6, <2>7, SamePlan DEF SizeInv
<1>k. ASSUME UNCHANGED plan, features' = features
      PROVE  (Fits' => Fits) /\ Buffers' = Buffers
  BY <1>k, SamePlan DEF Fits, Buffers
<1>6. ASSUME NEW r, NEW n, OneStreamJob(r, n) \/ ConnectorJob PROVE SizeInv'
  <2>1. /\ stage' = "forward" /\ k' = k + 1 /\ UNCHANGED plan /\ k \in 1 .. N
        /\ features' = features
    BY <1>0, <1>6 DEF OneStreamJob, ConnectorJob, ForwardStep, InForward, given
  <2>2. k' - 1 = k
    BY <1>0, <2>1
  <2>3. Fits => /\ SizedAs(segments, k, SizesOf(streams', size'))
                /\ \A b \in Buffers : rows'[b] = BatchRows
    BY <1>6, ForwardSizes
  <2> QED
    BY <1>k, <2>1, <2>2, <2>3, SamePlan DEF SizeInv
<1>7. CASE EndForward /\ ~ Stops
  <2>1. /\ stage = "forward" /\ stage' = "loss" /\ k = N + 1
        /\ streams' = streams /\ size' = size /\ rows' = rows /\ UNCHANGED plan
        /\ features' = features
    BY <1>7, StopStops DEF EndForward, N, given
  <2>2. k - 1 = N
    BY <1>0, <2>1
  <2> QED
    BY <1>k, <2>1, <2>2, SamePlan DEF SizeInv
<1>8. CASE Loss /\ ~ Stops /\ purpose = "train"
  <2>1. /\ stage' = "backward" /\ stage = "loss" /\ k' = N /\ UNCHANGED plan
        /\ grads' = <<Gradient(streams[1], rows[streams[1]], size[streams[1]], "ram")>>
        /\ features' = features /\ rows' = rows
    BY <1>8 DEF Loss, N, Stops, Ended
  <2>2. streams \in Seq(Nat) /\ Len(streams) = 1
    BY <2>1 DEF PassInv
  <2>3. DOMAIN streams = {1}
    <3>1. DOMAIN streams = 1 .. Len(streams)
      BY <2>2
    <3> QED
      BY <2>2, <3>1
  <2>4. SizesOf(streams, size) = <<size[streams[1]]>>
    BY <2>3 DEF SizesOf
  <2>5. /\ GradSizes(grads') = <<size[streams[1]]>>
        /\ \A j \in DOMAIN grads' : grads'[j].rows = rows[streams[1]]
    BY <2>1 DEF GradSizes, Gradient
  <2>6. streams[1] \in Buffers
    <3>1. streams[1] \in 1 .. 2 * Len(cache) + 1 /\ Len(cache) = N
      BY <2>1, <2>3 DEF DeviceInv, PassInv
    <3> QED
      BY <3>1 DEF Buffers, N
  <2> QED
    BY <1>k, <2>1, <2>4, <2>5, <2>6, SamePlan DEF SizeInv
<1>9. ASSUME NEW r, NEW n, OneStreamBack(r, n) \/ ConnectorBack PROVE SizeInv'
  <2>1. /\ stage = "backward" /\ stage' = "backward" /\ k' = k - 1 /\ UNCHANGED plan
        /\ features' = features /\ rows' = rows
    BY <1>9 DEF OneStreamBack, ConnectorBack, BackwardStep, InBackward, given
  <2>2. Fits => /\ SizedAs(segments, k - 1, GradSizes(grads'))
                /\ \A j \in DOMAIN grads' : grads'[j].rows = BatchRows
    BY <1>9, BackwardSizes
  <2> QED
    BY <1>k, <2>1, <2>2, SamePlan DEF SizeInv
<1> QED
  BY <1>2, <1>3, <1>4, <1>5, <1>6, <1>7, <1>8, <1>9, StepCases

-----------------------------------------------------------------------------
(* Where the buffers of a pass lie                                         *)

\* What the job of segment k, which saves c, does to streams and devices.
Moves(c) ==
  /\ InForward /\ cache' = Append(cache, c) /\ k' = k + 1
  /\ UNCHANGED <<plan, stage, loop, purpose>>
  /\ at' \in [Buffers -> Devices] /\ size' \in [Buffers -> Nat] /\ rows' \in [Buffers -> Nat]
  /\ c \in CacheRec
  /\ \A j \in DOMAIN c.in : \E l \in DOMAIN streams : c.in[j] = streams[l]
  /\ \A j \in DOMAIN c.in : at'[c.in[j]] = OperatorMemory(k)
  /\ \A b \in 1 .. 2 * k - 1 : (\A j \in DOMAIN c.in : c.in[j] # b) => at'[b] = at[b]
  /\ Running.kind = "Universal" =>
       /\ c.out = <<OutOf(k, 1)>> /\ at'[OutOf(k, 1)] = OperatorMemory(k)
       /\ c.copies = "shared" => OperatorMemory(k) = "gpu" \/ workers = "sequential"
  /\ \A l \in DOMAIN streams' :
       \/ streams'[l] \in 2 * k .. 2 * k + 1
       \/ /\ l \in DOMAIN streams /\ streams'[l] = streams[l]
          /\ \A j \in DOMAIN c.in : c.in[j] # streams[l]
  /\ \A l, m \in DOMAIN streams' : streams'[l] = streams'[m] => l = m
  /\ OnOneStream(Running) => Here \in DOMAIN streams' /\ streams'[Here] = OutOf(k, 1)
  /\ \A l \in DOMAIN streams :
       IF OnOneStream(Running) /\ l # Here
       THEN l \in DOMAIN streams' /\ streams'[l] = streams[l]
       ELSE \E j \in DOMAIN c.in : c.in[j] = streams[l]

\* A job of one stream.
LEMMA OneStreamMoves ==
  ASSUME BuilderInv, MadeInv, LoopInv, PassInv, DeviceInv, NEW r, NEW n,
         OneStreamJob(r, n)
  PROVE  \E c : Moves(c)
<1>0. InForward /\ stage = "forward"
  BY DEF OneStreamJob, InForward
<1>1. /\ k \in 1 .. N /\ N \in Nat /\ OutOf(k, 1) = 2 * k /\ OutOf(k, 1) \in Buffers
      /\ \A j \in DOMAIN streams : streams[j] \in 1 .. 2 * k - 1 /\ streams[j] \in Buffers
      /\ Buffers = 1 .. 2 * N + 1
  BY <1>0, ForwardFinds
<1>2. /\ at \in [Buffers -> Devices] /\ size \in [Buffers -> Nat] /\ rows \in [Buffers -> Nat]
      /\ \A j, l \in DOMAIN streams : streams[j] = streams[l] => j = l
      /\ workers \in {"parallel", "sequential"}
  BY <1>0 DEF DeviceInv, LoopInv, Working
<1> DEFINE in == streams[Here]
           out == OutOf(k, 1)
           device == OperatorMemory(k)
<1>3. /\ OnOneStream(Running) /\ Here \in DOMAIN streams /\ in \in Buffers /\ in # out
      /\ streams' = [streams EXCEPT ![Here] = out] /\ r \in Nat /\ n \in Nat
      /\ \A b \in Buffers : size'[b] = IF b = out THEN n ELSE size[b]
      /\ \A b \in Buffers : rows'[b] = IF b = out THEN r ELSE rows[b]
      /\ \A b \in Buffers : at'[b] = IF b = in \/ b = out THEN device ELSE at[b]
      /\ DOMAIN rows' = Buffers /\ DOMAIN size' = Buffers /\ DOMAIN at' = Buffers
      /\ k' = k + 1 /\ UNCHANGED <<plan, stage, loop, purpose>>
  BY OneStreamEffect
<1>4. PICK outs \in {<<out>>, <<>>} :
        /\ Running.kind = "Universal" => outs = <<out>>
        /\ cache' = Append(cache, Saved(<<in>>, outs, device))
  BY OneStreamEffect
<1> DEFINE c == Saved(<<in>>, outs, device)
<1>5. c.in = <<in>> /\ c.out = outs /\ c \in CacheRec
  <2>1. out \in Nat /\ in \in Nat
    <3>1. out \in Buffers /\ in \in Buffers /\ \A b \in Buffers : b \in Nat
      BY <1>1, <1>3
    <3> QED
      BY <3>1
  <2>2. outs = <<out>> \/ outs = <<>>
    BY <1>4
  <2> HIDE DEF in, out, device
  <2>3. <<in>> \in Seq(Nat) /\ <<out>> \in Seq(Nat)
    BY <2>1
  <2>4. outs \in Seq(Nat)
    BY <2>2, <2>3, EmptySeq
  <2> DEFINE ins == <<in>>
  <2>5. ins \in Seq(Nat)
    BY <2>3
  <2> HIDE DEF ins
  <2>6. /\ Saved(ins, outs, device) \in CacheRec
        /\ Saved(ins, outs, device).in = ins /\ Saved(ins, outs, device).out = outs
    BY <2>4, <2>5, SavedType
  <2> QED
    BY <2>6 DEF ins
<1>6. c.copies = "shared" => device = "gpu" \/ workers = "sequential"
  <2>1. device \in {"ram", "gpu"}
    BY OperatorMemoryType DEF Devices
  <2>2. c.copies = IF device = "ram" /\ workers = "parallel" THEN "chunks" ELSE "shared"
    BY DEF Saved
  <2> QED
    BY <1>2, <2>1, <2>2
<1>7. device \in Devices
  BY OperatorMemoryType
<1> HIDE DEF c, out, device, in
<1>8. at' \in [Buffers -> Devices] /\ size' \in [Buffers -> Nat] /\ rows' \in [Buffers -> Nat]
  <2>1. \A b \in Buffers : at'[b] \in Devices /\ size'[b] \in Nat /\ rows'[b] \in Nat
    BY <1>2, <1>3, <1>7
  <2>2. /\ at' = [b \in Buffers |-> at'[b]] /\ size' = [b \in Buffers |-> size'[b]]
        /\ rows' = [b \in Buffers |-> rows'[b]]
    <3>1. /\ at' = [b \in DOMAIN at' |-> at'[b]] /\ size' = [b \in DOMAIN size' |-> size'[b]]
          /\ rows' = [b \in DOMAIN rows' |-> rows'[b]]
      BY DEF OneStreamJob, ForwardStep
    <3> QED
      BY <1>3, <3>1
  <2> QED
    BY <2>1, <2>2
<1>9. DOMAIN c.in = {1} /\ c.in[1] = in
  BY <1>5
<1>10. in \in Buffers /\ in \in 1 .. 2 * k - 1 /\ out \in Buffers /\ out = 2 * k
  BY <1>1, <1>3 DEF in, out
<1>11. in = streams[Here]
  BY DEF in
<1>12. \A b \in 1 .. 2 * k - 1 : b \in Buffers /\ b # out
  BY <1>1, <1>10
<1>13. \A b \in 1 .. 2 * k - 1 : (\A j \in DOMAIN c.in : c.in[j] # b) => at'[b] = at[b]
  BY <1>3, <1>9, <1>12
<1>14. at'[in] = device /\ at'[out] = device
  BY <1>3, <1>10
<1>15. /\ DOMAIN streams' = DOMAIN streams /\ streams'[Here] = out
       /\ \A l \in DOMAIN streams : l # Here => streams'[l] = streams[l] /\ streams[l] # in
  BY <1>2, <1>3, <1>11
<1>16. \A l \in DOMAIN streams : streams[l] # out
  BY <1>1, <1>10
<1>17. out \in 2 * k .. 2 * k + 1
  BY <1>1, <1>10
<1>18. \A l, m \in DOMAIN streams' : streams'[l] = streams'[m] => l = m
  BY <1>2, <1>15, <1>16
<1>19. \A l \in DOMAIN streams' :
         \/ streams'[l] \in 2 * k .. 2 * k + 1
         \/ /\ l \in DOMAIN streams /\ streams'[l] = streams[l]
            /\ \A j \in DOMAIN c.in : c.in[j] # streams[l]
  BY <1>9, <1>15, <1>17
<1>20. cache' = Append(cache, c)
  BY <1>4 DEF c
<1>21. Moves(c)
  BY <1>0, <1>3, <1>4, <1>5, <1>6, <1>8, <1>9, <1>11, <1>13, <1>14, <1>15, <1>18, <1>19, <1>20
     DEF Moves, out, device
<1> QED
  BY <1>21

\* A connector.
LEMMA ConnectorMoves ==
  ASSUME BuilderInv, MadeInv, LoopInv, PassInv, DeviceInv, ConnectorJob
  PROVE  \E c : Moves(c)
<1>0. InForward /\ stage = "forward" /\ ~ OnOneStream(Running)
  BY DEF ConnectorJob, InForward
<1>1. /\ k \in 1 .. N /\ N \in Nat /\ OutOf(k, 1) = 2 * k /\ OutOf(k, 2) = 2 * k + 1
      /\ \A j \in DOMAIN streams : streams[j] \in 1 .. 2 * k - 1 /\ streams[j] \in Buffers
      /\ Buffers = 1 .. 2 * N + 1 /\ streams \in Seq(Nat)
  BY <1>0, ForwardFinds
<1>2. at \in [Buffers -> Devices] /\ rows \in [Buffers -> Nat]
  BY <1>0 DEF DeviceInv
<1>k. Running.kind # "Universal" /\ OperatorMemory(k) = "ram"
  BY <1>0, OperatorMemoryType DEF OnOneStream, Running
<1> DEFINE outs == ConnectorOuts(k)
           c == Saved(streams, outs, "ram")
<1>3. /\ streams' = outs /\ cache' = Append(cache, c)
      /\ \A b \in Buffers : size'[b] \in Nat /\ rows'[b] \in Nat
      /\ \A b \in Buffers :
           at'[b] = IF \/ \E j \in DOMAIN streams : b = streams[j]
                       \/ \E j \in DOMAIN outs : b = outs[j]
                    THEN "ram" ELSE at[b]
      /\ DOMAIN rows' = Buffers /\ DOMAIN size' = Buffers /\ DOMAIN at' = Buffers
      /\ k' = k + 1 /\ UNCHANGED <<plan, stage, loop, purpose>>
  BY ConnectorEffect
<1>4. /\ outs \in Seq(Nat) /\ DOMAIN outs = 1 .. Len(segments[k].out)
      /\ Len(segments[k].out) \in {1, 2} /\ \A j \in DOMAIN outs : outs[j] = OutOf(k, j)
  BY <1>1, ConnectorOutsType
<1>5. c.in = streams /\ c \in CacheRec
  BY <1>1, <1>4, SavedType
<1> HIDE DEF c, outs
<1>6. at' \in [Buffers -> Devices] /\ size' \in [Buffers -> Nat] /\ rows' \in [Buffers -> Nat]
  <2>1. \A b \in Buffers : at'[b] \in Devices /\ size'[b] \in Nat /\ rows'[b] \in Nat
    BY <1>2, <1>3 DEF Devices
  <2>2. /\ at' = [b \in DOMAIN at' |-> at'[b]] /\ size' = [b \in DOMAIN size' |-> size'[b]]
        /\ rows' = [b \in DOMAIN rows' |-> rows'[b]]
    BY DEF ConnectorJob, ForwardStep
  <2> QED
    BY <1>3, <2>1, <2>2
<1>d. DOMAIN outs \subseteq {1, 2} /\ 2 * k \in Nat /\ 2 * k # 2 * k + 1
  <2> DEFINE n == Len(segments[k].out)
  <2>1. DOMAIN outs = 1 .. n /\ n \in {1, 2}
    BY <1>4
  <2> HIDE DEF n
  <2>2. DOMAIN outs \subseteq {1, 2}
    BY <2>1
  <2> QED
    BY <1>1, <2>2
<1>e. /\ 1 \in DOMAIN outs => outs[1] = 2 * k
      /\ 2 \in DOMAIN outs => outs[2] = 2 * k + 1
  BY <1>1, <1>4
<1>7. \A j \in DOMAIN outs : outs[j] \in 2 * k .. 2 * k + 1
  BY <1>d, <1>e
<1>8. \A j, l \in DOMAIN outs : outs[j] = outs[l] => j = l
  BY <1>d, <1>e
<1>9. \A b \in 1 .. 2 * k - 1 : b \in Buffers /\ \A j \in DOMAIN outs : b # outs[j]
  BY <1>1, <1>7
<1>10. \A b \in 1 .. 2 * k - 1 : (\A j \in DOMAIN c.in : c.in[j] # b) => at'[b] = at[b]
  BY <1>3, <1>5, <1>9
<1>11. \A j \in DOMAIN streams : at'[streams[j]] = "ram"
  BY <1>1, <1>3
<1>12. Moves(c)
  BY <1>0, <1>k, <1>3, <1>5, <1>6, <1>7, <1>8, <1>10, <1>11 DEF Moves
<1> QED
  BY <1>12

\* A job moves a buffer only where nothing needs it elsewhere.
LEMMA MovesKeep ==
  ASSUME BuilderInv, MadeInv, LoopInv, PassInv, DeviceInv, NEW c, Moves(c)
  PROVE  DeviceInv'
<1>0. InForward /\ stage = "forward" /\ stage' = "forward" /\ k' = k + 1 /\ workers' = workers
  BY DEF Moves, InForward, loop
<1>1. /\ k \in 1 .. N /\ N \in Nat /\ OutOf(k, 1) = 2 * k
      /\ cache \in Seq(CacheRec) /\ Len(cache) = k - 1 /\ DOMAIN cache = 1 .. k - 1
      /\ \A j \in DOMAIN streams : streams[j] \in 1 .. 2 * k - 1
      /\ Buffers = 1 .. 2 * N + 1 /\ DOMAIN segments = 1 .. N
  BY <1>0, ForwardFinds
<1>2. /\ segments' = segments /\ N' = N /\ \A i : OperatorMemory(i)' = OperatorMemory(i)
  BY SamePlan DEF Moves
<1>3. Buffers' = Buffers /\ \A i : Users(i)' = Users(i)
  BY <1>2 DEF Buffers, Users, N
<1>4. /\ Len(cache') = k /\ DOMAIN cache' = 1 .. k /\ cache'[k] = c
      /\ \A i \in 1 .. k - 1 : cache'[i] = cache[i]
  <2>1. c \in CacheRec /\ cache' = Append(cache, c)
    BY DEF Moves
  <2>2. Len(cache) + 1 = k
    BY <1>1
  <2> QED
    BY <1>1, <2>1, <2>2, AppendProperties
<1>5. 2 * Len(cache) + 1 = 2 * k - 1 /\ 2 * Len(cache') + 1 = 2 * k + 1
  BY <1>1, <1>4
<1>6. \A j \in DOMAIN c.in : \E l \in DOMAIN streams : c.in[j] = streams[l]
  BY DEF Moves
<1>7. \A l \in DOMAIN streams' :
        \/ streams'[l] \in 2 * k .. 2 * k + 1
        \/ /\ l \in DOMAIN streams /\ streams'[l] = streams[l]
           /\ \A j \in DOMAIN c.in : c.in[j] # streams[l]
  BY DEF Moves
\* A buffer that is in no stream stays in none, where it lies.
<1>8. ASSUME NEW b \in 1 .. 2 * k - 1, \A l \in DOMAIN streams : streams[l] # b
      PROVE  at'[b] = at[b] /\ \A l \in DOMAIN streams' : streams'[l] # b
  <2>1. \A j \in DOMAIN c.in : c.in[j] # b
    BY <1>6, <1>8
  <2>2. at'[b] = at[b]
    BY <2>1 DEF Moves
  <2>3. ~ (b \in 2 * k .. 2 * k + 1)
    BY <1>1
  <2> QED
    BY <1>7, <1>8, <2>2, <2>3
\* Nor does one that the job takes in stay in a stream.
<1>9. ASSUME NEW b \in 1 .. 2 * k - 1, NEW j \in DOMAIN c.in, c.in[j] = b
      PROVE  at'[b] = OperatorMemory(k) /\ \A l \in DOMAIN streams' : streams'[l] # b
  <2>1. at'[b] = OperatorMemory(k)
    BY <1>9 DEF Moves
  <2>2. ~ (b \in 2 * k .. 2 * k + 1)
    BY <1>1
  <2> QED
    BY <1>7, <1>9, <2>1, <2>2
<1>10. ASSUME NEW i \in 1 .. k - 1, segments[i].kind = "Universal"
       PROVE  Waits(i)' \/ (Taken(i)' /\ \A l \in DOMAIN streams' : streams'[l] # OutOf(i, 1))
  <2>1. OutOf(i, 1) \in 1 .. 2 * k - 1 /\ i \in DOMAIN cache
    BY <1>1 DEF OutOf
  <2>2. CASE Taken(i) /\ \A l \in DOMAIN streams : streams[l] # OutOf(i, 1)
    <3>1. at'[OutOf(i, 1)] = at[OutOf(i, 1)] /\ \A l \in DOMAIN streams' : streams'[l] # OutOf(i, 1)
      BY <1>8, <2>1, <2>2
    <3>2. Taken(i)'
      BY <1>2, <1>3, <2>2, <3>1 DEF Taken, OutOf
    <3> QED
      BY <3>1, <3>2
  <2>3. CASE Waits(i)
    <3> DEFINE x == StreamIndex(segments[i])
    <3>1. /\ x \in DOMAIN streams /\ streams[x] = OutOf(i, 1)
          /\ at[OutOf(i, 1)] = OperatorMemory(i)
          /\ \A m \in i + 1 .. k - 1 :
               OnOneStream(segments[m]) /\ StreamIndex(segments[m]) # x
      BY <2>3 DEF Waits
    <3>2. CASE OnOneStream(Running) /\ x # Here
      <4>1. x \in DOMAIN streams' /\ streams'[x] = streams[x]
        BY <3>1, <3>2 DEF Moves
      <4>2. \A j \in DOMAIN c.in : c.in[j] # OutOf(i, 1)
        <5>1. ~ (OutOf(i, 1) \in 2 * k .. 2 * k + 1)
          BY <1>1, <2>1
        <5> QED
          BY <1>7, <3>1, <4>1, <5>1
      <4>3. at'[OutOf(i, 1)] = at[OutOf(i, 1)]
        BY <2>1, <4>2 DEF Moves
      <4>4. \A m \in i + 1 .. k' - 1 :
              OnOneStream(segments[m]) /\ StreamIndex(segments[m]) # x
        <5>1. \A m \in i + 1 .. k' - 1 : m = k \/ m \in i + 1 .. k - 1
          BY <1>0, <1>1
        <5>2. Running = segments[k] /\ Here = StreamIndex(segments[k])
          BY DEF Running, Here
        <5> QED
          BY <3>1, <3>2, <5>1, <5>2
      <4>5. Waits(i)'
        BY <1>2, <3>1, <4>1, <4>3, <4>4 DEF Waits, OutOf, OnOneStream, StreamIndex
      <4> QED
        BY <4>5
    <3>3. CASE ~ (OnOneStream(Running) /\ x # Here)
      <4>1. PICK j \in DOMAIN c.in : c.in[j] = streams[x]
        BY <3>1, <3>3 DEF Moves
      <4>2. /\ at'[OutOf(i, 1)] = OperatorMemory(k)
            /\ \A l \in DOMAIN streams' : streams'[l] # OutOf(i, 1)
        BY <1>9, <2>1, <3>1, <4>1
      <4>3. k \in Users(i)
        <5>1. k \in DOMAIN segments /\ i < k
          BY <1>1
        <5>2. OnOneStream(segments[k]) => StreamIndex(segments[k]) = x
          BY <3>3 DEF Running, Here
        <5> QED
          BY <3>1, <5>1, <5>2 DEF Users
      <4>4. Taken(i)'
        BY <1>2, <1>3, <4>2, <4>3 DEF Taken, OutOf
      <4> QED
        BY <4>2, <4>4
    <3> QED
      BY <3>2, <3>3
  <2> QED
    BY <1>0, <1>10, <2>1, <2>2, <2>3 DEF DeviceInv
<1>11. ASSUME NEW i, i = k, segments[i].kind = "Universal"
       PROVE  Waits(i)'
  <2>1. OnOneStream(Running) /\ Running.kind = "Universal" /\ Here = StreamIndex(segments[i])
    BY <1>11 DEF OnOneStream, Running, Here
  <2>2. /\ StreamIndex(segments[i]) \in DOMAIN streams' /\ at'[OutOf(i, 1)] = OperatorMemory(i)
        /\ streams'[StreamIndex(segments[i])] = OutOf(i, 1)
    BY <1>11, <2>1 DEF Moves
  <2>3. \A m \in i + 1 .. k' - 1 : FALSE
    BY <1>0, <1>1, <1>11
  <2> QED
    BY <1>2, <2>2, <2>3 DEF Waits, OutOf, OnOneStream, StreamIndex
<1>12. ASSUME NEW i \in 1 .. k
       PROVE  /\ \A j \in DOMAIN cache'[i].in :
                   /\ at'[cache'[i].in[j]] = OperatorMemory(i)
                   /\ cache'[i].in[j] \in 1 .. 2 * k + 1 /\ cache'[i].in[j] \in Buffers
                   /\ \A l \in DOMAIN streams' : streams'[l] # cache'[i].in[j]
              /\ segments[i].kind = "Universal" =>
                   Waits(i)' \/ (Taken(i)' /\ \A l \in DOMAIN streams' : streams'[l] # OutOf(i, 1))
              /\ segments[i].kind = "Universal" =>
                   /\ cache'[i].out = <<OutOf(i, 1)>>
                   /\ cache'[i].copies = "shared" => OperatorMemory(i) = "gpu" \/ workers = "sequential"
  <2>1. \A b \in 1 .. 2 * k - 1 : b \in 1 .. 2 * k + 1 /\ b \in Buffers
    BY <1>1
  <2>2. CASE i = k
    <3>1. \A j \in DOMAIN c.in : c.in[j] \in 1 .. 2 * k - 1
      BY <1>1, <1>6
    <3>2. cache'[i] = c
      BY <1>4, <2>2
    <3>3. segments[i].kind = "Universal" =>
            /\ c.out = <<OutOf(i, 1)>>
            /\ c.copies = "shared" => OperatorMemory(i) = "gpu" \/ workers = "sequential"
      BY <2>2 DEF Moves, Running
    <3> QED
      BY <1>9, <1>11, <2>1, <2>2, <3>1, <3>2, <3>3
  <2>3. CASE i # k
    <3>1. i \in 1 .. k - 1 /\ i \in DOMAIN cache /\ cache'[i] = cache[i]
      BY <1>1, <1>4, <2>3
    <3>2. \A j \in DOMAIN cache[i].in :
            /\ at[cache[i].in[j]] = OperatorMemory(i) /\ cache[i].in[j] \in 1 .. 2 * k - 1
            /\ \A l \in DOMAIN streams : streams[l] # cache[i].in[j]
      BY <1>0, <1>5, <3>1 DEF DeviceInv
    <3>3. OutputKept(i)
      BY <1>0, <3>1 DEF DeviceInv
    <3>4. segments[i].kind = "Universal" =>
            /\ cache[i].out = <<OutOf(i, 1)>>
            /\ cache[i].copies = "shared" => OperatorMemory(i) = "gpu" \/ workers = "sequential"
      BY <3>3 DEF OutputKept
    <3> QED
      BY <1>8, <1>10, <2>1, <3>1, <3>2, <3>4
  <2> QED
    BY <2>2, <2>3
<1>13. ASSUME NEW i \in 1 .. k PROVE OutputKept(i)'
  <2>1. Waits(i)' => at'[OutOf(i, 1)] = OperatorMemory(i)
    BY <1>2 DEF Waits, OutOf
  <2> QED
    BY <1>0, <1>2, <1>12, <2>1 DEF OutputKept, OutOf
<1>14. /\ at' \in [Buffers -> Devices] /\ size' \in [Buffers -> Nat]
       /\ rows' \in [Buffers -> Nat]
       /\ \A l, m \in DOMAIN streams' : streams'[l] = streams'[m] => l = m
  BY DEF Moves
<1>15. \A l \in DOMAIN streams' : streams'[l] \in 1 .. 2 * k + 1
  BY <1>1, <1>7
<1> QED
  BY <1>0, <1>2, <1>3, <1>4, <1>5, <1>12, <1>13, <1>14, <1>15 DEF DeviceInv, OutOf

\* A step that moves no buffer of the pass, and keeps what was saved.
LEMMA DevicesSame ==
  ASSUME DeviceInv, stage \in {"forward", "loss", "backward"},
         stage' \in {"loss", "backward"}, stage' = "loss" => stage = "forward" /\ streams' = streams,
         UNCHANGED <<plan, workers, cache, rows, size, at>>
  PROVE  DeviceInv'
<1>1. segments' = segments /\ N' = N /\ \A i : OperatorMemory(i)' = OperatorMemory(i)
  BY SamePlan
<1>2. Buffers' = Buffers /\ \A i : Users(i)' = Users(i)
  BY <1>1 DEF Buffers, Users, N
<1>3. \A i : Taken(i)' <=> Taken(i)
  BY <1>1, <1>2 DEF Taken, OutOf
<1>4. \A i : OutputKept(i)' <=> OutputKept(i)
  BY <1>1, <1>3 DEF OutputKept, OutOf
<1>5. /\ at' \in [Buffers -> Devices] /\ size' \in [Buffers -> Nat] /\ rows' \in [Buffers -> Nat]
      /\ \A i \in DOMAIN cache :
           /\ \A j \in DOMAIN cache[i].in :
                cache[i].in[j] \in Buffers /\ at[cache[i].in[j]] = OperatorMemory(i)
           /\ OutputKept(i)
  BY DEF DeviceInv
<1>6. stage' = "loss" => \A j \in DOMAIN streams : streams[j] \in 1 .. 2 * Len(cache) + 1
  BY DEF DeviceInv
<1> QED
  BY <1>1, <1>2, <1>4, <1>5, <1>6 DEF DeviceInv

\* Every step of training keeps the devices.
LEMMA DeviceStep ==
  ASSUME BuilderInv, MadeInv, LoopInv, PassInv, DeviceInv, Next
  PROVE  DeviceInv'
<1>0. /\ N \in Nat /\ DOMAIN segments = 1 .. N
      /\ builder.status = "built" => N >= 1
  BY SegmentFacts
<1>1. ASSUME stage' \notin {"forward", "loss", "backward"} PROVE DeviceInv'
  BY <1>1 DEF DeviceInv
<1>2. CASE \/ Plan \/ Stops \/ (Start /\ ~ Stops) \/ EndEpoch \/ EndApply
           \/ (EndBackward /\ ~ Stops) \/ EndModify \/ (Loss /\ ~ Stops /\ purpose # "train")
  <2>1. stage' \notin {"forward", "loss", "backward"}
    BY <1>2, StopStops
       DEF Plan, trainVars, Stops, Ends, Start, EndEpoch, EndApply, EndBackward, EndModify, Loss,
           Ended
  <2> QED
    BY <1>1, <2>1
<1>3. ASSUME NEW reassign \in BOOLEAN, ObserveEpoch(reassign) PROVE DeviceInv'
  BY <1>1, <1>3 DEF ObserveEpoch
<1>4. CASE (ModifyGrads \/ AdapterPass \/ ApplyUpdate) /\ ~ Stops
  BY <1>1, <1>4, StopStops DEF ModifyGrads, AdapterPass, ApplyUpdate, InBuffers, StayInPass
<1>5. ASSUME NEW what \in {"train", "validate", "test"}, Begun(what) PROVE DeviceInv'
  <2>1. /\ stage' = "forward" /\ streams' = <<Input>> /\ cache' = <<>> /\ UNCHANGED plan
        /\ size' = [b \in Buffers |-> IF b = Input THEN features'[what] ELSE 0]
        /\ rows' = [b \in Buffers |-> BatchRows]
        /\ features' \in Learned(features, what, Sizes)
        /\ at' = [b \in Buffers |-> "ram"] /\ stage \in Working
    BY <1>5 DEF Begun, BeginForward, Working
  <2>3. features'[what] \in Nat
    <3>1. \A p \in DOMAIN features : features[p] \in Nat
      BY <2>1 DEF LoopInv
    <3> QED
      BY <2>1, <3>1, LearnedType, BuilderAssumption
  <2>4. Buffers' = Buffers
    BY <2>1, SamePlan DEF Buffers
  <2>5. at' \in [Buffers -> Devices] /\ size' \in [Buffers -> Nat] /\ rows' \in [Buffers -> Nat]
    BY <2>1, <2>3, TrainingAssumption DEF Devices
  <2>6. /\ DOMAIN cache' = {} /\ Len(cache') = 0 /\ DOMAIN streams' = {1} /\ streams'[1] = 1
    BY <2>1 DEF Input
  <2>7. \A j \in DOMAIN streams' : streams'[j] \in 1 .. 2 * Len(cache') + 1
    BY <2>6
  <2>8. \A j, l \in DOMAIN streams' : streams'[j] = streams'[l] => j = l
    BY <2>6
  <2> QED
    BY <2>1, <2>4, <2>5, <2>6, <2>7, <2>8 DEF DeviceInv
<1>6. ASSUME NEW r, NEW n, OneStreamJob(r, n) PROVE DeviceInv'
  BY <1>6, OneStreamMoves, MovesKeep
<1>8. CASE ConnectorJob
  BY <1>8, ConnectorMoves, MovesKeep
<1>9. CASE EndForward /\ ~ Stops
  <2>1. /\ stage = "forward" /\ stage' = "loss"
        /\ streams' = streams /\ UNCHANGED <<plan, workers, cache, rows, size, at>>
    BY <1>9, StopStops DEF EndForward, loop
  <2> QED
    BY <1>1, <2>1, DevicesSame
<1>10. CASE Loss /\ ~ Stops /\ purpose = "train"
  <2>1. /\ stage = "loss" /\ stage' = "backward"
        /\ UNCHANGED <<plan, workers, cache, rows, size, at>>
    BY <1>10 DEF Loss, loop, Stops, Ended
  <2> QED
    BY <2>1, DevicesSame
<1>11. ASSUME NEW r, NEW n, OneStreamBack(r, n) PROVE DeviceInv'
  <2>1. /\ stage = "backward" /\ stage' = "backward"
        /\ UNCHANGED <<plan, workers, cache, rows, size>>
        /\ at' = [b \in Buffers |-> IF b \in {} THEN "ram" ELSE at[b]]
    BY <1>11 DEF OneStreamBack, BackwardStep, InBackward, loop
  <2>2. at \in [Buffers -> Devices]
    BY <2>1 DEF DeviceInv
  <2>3. at' = at
    BY <2>1, <2>2
  <2> QED
    BY <2>1, <2>3, DevicesSame
<1>12. CASE ConnectorBack
  <2>1. /\ stage = "backward" /\ stage' = "backward"
        /\ UNCHANGED <<plan, workers, cache, rows, size>>
        /\ at' = [b \in Buffers |-> IF b \in ToSet(cache[k].in) THEN "ram" ELSE at[b]]
        /\ k \in DOMAIN segments /\ ~ OnOneStream(segments[k])
    BY <1>12 DEF ConnectorBack, BackwardStep, InBackward, loop, Running
  <2>2. at \in [Buffers -> Devices]
    BY <2>1 DEF DeviceInv
  <2>3. k \in DOMAIN cache
    <3>1. cache \in Seq(CacheRec) /\ Len(cache) = N
      BY <2>1 DEF PassInv, Learning
    <3> QED
      BY <1>0, <2>1, <3>1
  <2>4. \A j \in DOMAIN cache[k].in : at[cache[k].in[j]] = "ram"
    <3>1. OperatorMemory(k) = "ram"
      BY <2>1, OperatorMemoryType DEF OnOneStream
    <3> QED
      BY <2>1, <2>3, <3>1 DEF DeviceInv
  <2>5. \A b : b \in ToSet(cache[k].in) => \E j \in DOMAIN cache[k].in : b = cache[k].in[j]
    BY DEF ToSet
  <2>6. \A b \in Buffers : b \in ToSet(cache[k].in) => at[b] = "ram"
    BY <2>4, <2>5
  <2>7. at' = at
    BY <2>1, <2>2, <2>6
  <2> QED
    BY <2>1, <2>7, DevicesSame
<1> QED
  BY <1>2, <1>3, <1>4, <1>5, <1>6, <1>8, <1>9, <1>10, <1>11, <1>12, StepCases

-----------------------------------------------------------------------------
(* Why a job fails                                                         *)

Failures == {"error", "panicked", "hung"}

\* What does not fit explains a failure.
Misfit ==
  \/ ~ clear
  \/ \E i \in DOMAIN segments : Reshapes(i)
  \/ \E p \in DOMAIN features : features[p] # segments[1].in[1]

LEMMA UnfitReasons ==
  ASSUME BuilderInv, MadeInv, ~ Fits
  PROVE  Misfit
<1>1. CASE ~ clear \/ \E p \in DOMAIN features : features[p] # segments[1].in[1]
  BY <1>1 DEF Misfit
<1>2. CASE \E i \in DOMAIN segments : ~ Plain(segments[i])
  <2>1. PICK i \in DOMAIN segments : ~ Plain(segments[i])
    BY <1>2
  <2> DEFINE a == Len(segments[i].in)
             b == Len(segments[i].out)
  <2>2. /\ a \in {1, 2} /\ b \in {1, 2}
        /\ segments[i].kind \in DimOps /\ ~ (a = 1 /\ b = 1)
        /\ segments[i].kind \in DimOps /\ (a > 1 \/ b > 1) => Reshapes(i)
    BY <2>1, SegmentFacts DEF WellMade, Plain, Reshapes
  <2> HIDE DEF a, b
  <2>3. Reshapes(i)
    BY <2>2
  <2> QED
    BY <2>1, <2>3 DEF Misfit
<1> QED
  BY <1>1, <1>2 DEF Fits

\* What explains it when everything fits.
Blame(how) ==
  \/ builder.status = "failed"
  \/ refused # "nothing"
  \/ \E i \in DOMAIN segments : OutputLeaves(i)
  \/ NeverPlaced
  \/ how = "panicked" /\ ~ Buildable(optimizer)

\* An end leaves the reasons as they were.
LEMMA EndExplained ==
  ASSUME BuilderInv, MadeInv, NEW how, Ends(how),
         UNCHANGED <<epochs, workers, optimizer, features, refused>>,
         how \in Failures =>
           ~ Fits \/ Blame(how) \/ \E p \in DOMAIN lossFits' : ~ lossFits'[p]
  PROVE  FaultsExplained'
<1>1. stage' = how /\ UNCHANGED plan
  BY DEF Ends
<1>2. /\ segments' = segments /\ builder' = builder /\ clear' = clear
      /\ \A i : OperatorMemory(i)' = OperatorMemory(i)
  BY <1>1, SamePlan
<1>3. \A i : Users(i)' = Users(i)
  BY <1>2 DEF Users
<1>4. \A i : (OutputLeaves(i)' <=> OutputLeaves(i)) /\ (Reshapes(i)' <=> Reshapes(i))
  BY <1>1, <1>2, <1>3 DEF OutputLeaves, Reshapes
<1>5. (Misfit' <=> Misfit) /\ (NeverPlaced' <=> NeverPlaced)
  BY <1>1, <1>2, <1>4 DEF Misfit, NeverPlaced
<1>6. CASE how \notin Failures
  BY <1>1, <1>6 DEF FaultsExplained, Failures
<1>7. CASE Misfit \/ \E p \in DOMAIN lossFits' : ~ lossFits'[p]
  <2>1. Misfit' \/ \E p \in DOMAIN lossFits' : ~ lossFits'[p]
    BY <1>5, <1>7
  <2>2. \/ ~ clear' \/ \E i \in DOMAIN segments' : Reshapes(i)'
        \/ \E p \in DOMAIN features' : features'[p] # segments'[1].in[1]
        \/ \E p \in DOMAIN lossFits' : ~ lossFits'[p]
    BY <2>1 DEF Misfit
  <2>3. \/ ~ clear' \/ DataMisfit'
        \/ \E i \in DOMAIN segments' : Reshapes(i)' \/ OutputLeaves(i)'
    BY <2>2, Zenon DEF DataMisfit
  <2> QED
    BY <2>3 DEF FaultsExplained
<1>8. CASE Blame(how)
  <2>1. \/ builder'.status = "failed" \/ refused' # "nothing"
        \/ \E i \in DOMAIN segments' : OutputLeaves(i)'
        \/ NeverPlaced' \/ (stage' = "panicked" /\ ~ Buildable(optimizer'))
    BY <1>1, <1>2, <1>4, <1>5, <1>8 DEF Blame
  <2> QED
    BY <2>1 DEF FaultsExplained
<1> QED
  BY <1>6, <1>7, <1>8, UnfitReasons

LEMMA StopExplained ==
  ASSUME BuilderInv, MadeInv, NEW how, Stop(how), how \in Failures /\ Fits => Blame(how)
  PROVE  FaultsExplained'
<1>1. Ends(how) /\ UNCHANGED <<epochs, workers, optimizer, features, refused>>
  BY DEF Stop, given
<1> QED
  BY <1>1, EndExplained

\* Where everything fits, a forward job finds its streams and their shapes.
LEMMA ForwardFlow ==
  ASSUME BuilderInv, MadeInv, LoopInv, PassInv, SizeInv, DeviceInv, InForward, Fits
  PROVE  /\ OnOneStream(Running) => /\ Here \in DOMAIN streams /\ ~ NoStream(streams)
                                    /\ size[streams[Here]] = Running.in[1]
         /\ ~ OnOneStream(Running) => /\ Len(streams) = Len(Running.in) /\ 1 \in DOMAIN streams
                                      /\ \A j \in DOMAIN streams : size[streams[j]] = Running.in[j]
         /\ \A j \in DOMAIN streams : rows[streams[j]] = BatchRows
<1>1. /\ k \in 1 .. N /\ N \in Nat /\ k \in DOMAIN segments /\ streams \in Seq(Nat)
      /\ DOMAIN streams = 1 .. Len(streams) /\ Len(streams) \in Nat
      /\ Running.in \in Seq(Nat) /\ Len(Running.in) \in {1, 2} /\ Here \in Nat \ {0}
      /\ \A j \in DOMAIN streams : streams[j] \in Buffers
  BY ForwardFinds DEF SegmentRec, WellMade
<1> DEFINE y == SizesOf(streams, size)
<1>2. SizedAs(segments, k - 1, y) /\ \A b \in Buffers : rows[b] = BatchRows
  BY DEF SizeInv, InForward
<1>3. DOMAIN y = DOMAIN streams /\ \A j \in DOMAIN streams : y[j] = size[streams[j]]
  BY DEF SizesOf
<1> HIDE DEF y
<1>4. k \in Nat \ {0}
  BY <1>1
<1>5. PICK z \in Seq(Nat) : Carries(segments[k], y, z)
  BY <1>1, <1>2, <1>4, SizedOn
<1>p. Plain(segments[k])
  BY <1>1 DEF Fits
<1>6. ASSUME OnOneStream(Running)
      PROVE  /\ Here \in DOMAIN streams /\ ~ NoStream(streams)
             /\ size[streams[Here]] = Running.in[1]
  <2>1. Here \in DOMAIN y /\ y[Here] = Running.in[1]
    BY <1>5, <1>6, <1>p DEF Carries, Here, Running
  <2>2. ~ (Here > Len(streams))
    BY <1>1, <1>3, <2>1
  <2> QED
    BY <1>3, <2>1, <2>2 DEF NoStream
<1>7. ASSUME ~ OnOneStream(Running)
      PROVE  /\ Len(streams) = Len(Running.in) /\ 1 \in DOMAIN streams
             /\ \A j \in DOMAIN streams : size[streams[j]] = Running.in[j]
  <2>1. y = Running.in
    BY <1>5, <1>7 DEF Carries, Running
  <2> DEFINE a == Len(streams)
             b == Len(Running.in)
  <2>2. 1 .. a = 1 .. b /\ a \in Nat /\ b \in {1, 2} /\ DOMAIN streams = 1 .. a
    BY <1>1, <1>3, <2>1
  <2> HIDE DEF a, b
  <2>3. a = b /\ 1 \in DOMAIN streams
    BY <2>2
  <2> QED
    BY <1>3, <2>1, <2>3 DEF a, b
<1> QED
  BY <1>1, <1>2, <1>6, <1>7

\* And a backward job its gradients.
LEMMA BackwardFlow ==
  ASSUME BuilderInv, MadeInv, LoopInv, PassInv, SizeInv, DeviceInv, InBackward, Fits
  PROVE  /\ OnOneStream(Running) => /\ Here \in DOMAIN grads /\ ~ NoStream(grads)
                                    /\ grads[Here].size = Running.out[1]
                                    /\ 1 \in DOMAIN cache[k].in
         /\ ~ OnOneStream(Running) => /\ Len(grads) = Len(Running.out) /\ 1 \in DOMAIN grads
                                      /\ \A j \in DOMAIN grads : /\ grads[j].size = Running.out[j]
                                                                 /\ grads[j].size \in Nat
         /\ \A j \in DOMAIN grads : grads[j].rows = BatchRows
         /\ \A j \in DOMAIN cache[k].in : rows[cache[k].in[j]] = BatchRows
<1>1. /\ stage = "backward" /\ k \in 1 .. N /\ N \in Nat /\ k \in DOMAIN segments
      /\ Running.out \in Seq(Nat) /\ Len(Running.out) \in {1, 2} /\ Here \in Nat \ {0}
      /\ grads \in Seq(GradRec) /\ DOMAIN grads = 1 .. Len(grads) /\ Len(grads) \in Nat
      /\ k \in DOMAIN cache
  <2>1. /\ stage = "backward" /\ k \in 1 .. N /\ N \in Nat /\ k \in DOMAIN segments
        /\ Here \in Nat \ {0} /\ Running \in SegmentRec /\ WellMade(Running)
    BY SegmentFacts DEF InBackward, Here, Running
  <2>2. grads \in Seq(GradRec) /\ cache \in Seq(CacheRec) /\ Len(cache) = N
    BY <2>1 DEF PassInv, Learning
  <2>3. DOMAIN grads = 1 .. Len(grads) /\ Len(grads) \in Nat /\ k \in DOMAIN cache
    BY <2>1, <2>2
  <2> QED
    BY <2>1, <2>2, <2>3 DEF SegmentRec, WellMade
<1> DEFINE z == GradSizes(grads)
<1>2. /\ SizedAs(segments, k, z) /\ \A b \in Buffers : rows[b] = BatchRows
      /\ \A j \in DOMAIN grads : grads[j].rows = BatchRows
  BY <1>1 DEF SizeInv
<1>3. DOMAIN z = DOMAIN grads /\ \A j \in DOMAIN grads : z[j] = grads[j].size
  BY DEF GradSizes
<1> HIDE DEF z
<1>4. k \in Nat \ {0}
  BY <1>1
<1>5. PICK y \in Seq(Nat) : Carries(segments[k], y, z)
  BY <1>1, <1>2, <1>4, SizedBack
<1>p. Plain(segments[k])
  BY <1>1 DEF Fits
<1>c. \A j \in DOMAIN cache[k].in : rows[cache[k].in[j]] = BatchRows
  BY <1>1, <1>2 DEF DeviceInv
<1>6. ASSUME OnOneStream(Running)
      PROVE  /\ Here \in DOMAIN grads /\ ~ NoStream(grads)
             /\ grads[Here].size = Running.out[1] /\ 1 \in DOMAIN cache[k].in
  <2>1. Here \in DOMAIN y /\ z = [y EXCEPT ![Here] = Running.out[1]]
    BY <1>5, <1>6, <1>p DEF Carries, Here, Running
  <2>2. Here \in DOMAIN z /\ z[Here] = Running.out[1]
    BY <2>1
  <2>3. ~ (Here > Len(grads))
    BY <1>1, <1>3, <2>2
  <2>4. PICK a \in Seq(Nat), b \in Seq(Nat) : Linked(segments[k], k, cache[k].in, a, b)
    BY BackwardFinds
  <2>5. cache[k].in = <<a[Here]>>
    BY <1>6, <2>4 DEF Linked, Here, Running
  <2>6. 1 \in DOMAIN cache[k].in
    BY <2>5
  <2> QED
    BY <1>3, <2>2, <2>3, <2>6 DEF NoStream
<1>7. ASSUME ~ OnOneStream(Running)
      PROVE  /\ Len(grads) = Len(Running.out) /\ 1 \in DOMAIN grads
             /\ \A j \in DOMAIN grads : /\ grads[j].size = Running.out[j]
                                        /\ grads[j].size \in Nat
  <2>1. z = Running.out
    BY <1>5, <1>7 DEF Carries, Running
  <2> DEFINE a == Len(grads)
             b == Len(Running.out)
  <2>2. 1 .. a = 1 .. b /\ a \in Nat /\ b \in {1, 2} /\ DOMAIN grads = 1 .. a
    BY <1>1, <1>3, <2>1
  <2> HIDE DEF a, b
  <2>3. a = b /\ 1 \in DOMAIN grads
    BY <2>2
  <2>4. \A j \in DOMAIN grads : grads[j].size \in Nat
    <3> TAKE j \in DOMAIN grads
    <3>1. grads[j] \in GradRec
      BY <1>1, ElementOfSeq
    <3> QED
      BY <3>1 DEF GradRec
  <2> QED
    BY <1>3, <2>1, <2>3, <2>4 DEF a, b
<1> QED
  BY <1>2, <1>6, <1>7, <1>c

\* A forward job that fails.
LEMMA ForwardFaults ==
  ASSUME BuilderInv, MadeInv, LoopInv, PassInv, PlacedInv, SizeInv, DeviceInv,
         ForwardUniversal \/ ForwardDimOp \/ ForwardConnector
  PROVE  FaultsExplained'
<1>0. /\ InForward /\ stage = "forward" /\ k \in DOMAIN segments /\ WellMade(Running)
      /\ OnOneStream(Running) <=> Running.kind \in {"Universal", "Unsqueeze", "ReduceMean"}
      /\ Running.out \in Seq(Nat) /\ Running.in[1] \in Nat
  <2>1. InForward
    BY DEF ForwardUniversal, ForwardDimOp, ForwardConnector
  <2> QED
    BY <2>1, RunningShape DEF InForward
<1>1. ASSUME stage' = stage PROVE FaultsExplained'
  BY <1>0, <1>1 DEF FaultsExplained
<1>2. ASSUME NEW how, Stop(how), ~ Fits PROVE FaultsExplained'
  BY <1>2, StopExplained
<1>b. BatchRows \in Nat \ {0}
  BY TrainingAssumption
<1>3. CASE ForwardUniversal
  <2>1. OnOneStream(Running) /\ Running.kind = "Universal"
    BY <1>0, <1>3 DEF ForwardUniversal
  <2>2. CASE NoStream(streams)
    <3>1. Stop("error") /\ ~ Fits
      BY <1>0, <1>3, <2>1, <2>2, ForwardFlow DEF ForwardUniversal
    <3> QED
      BY <1>2, <3>1
  <2>3. CASE /\ ~ NoStream(streams)
             /\ paramsAt[k] = OperatorMemory(k) /\ size[streams[Here]] = Running.in[1]
    <3>1. stage' = stage
      BY <1>3, <2>3 DEF ForwardUniversal, ForwardStep
    <3> QED
      BY <1>1, <3>1
  <2>4. CASE /\ ~ NoStream(streams)
             /\ ~ (paramsAt[k] = OperatorMemory(k) /\ size[streams[Here]] = Running.in[1])
    <3>1. PICK how \in Broken(OperatorMemory(k)) : Stop(how)
      BY <1>3, <2>4 DEF ForwardUniversal
    <3>2. CASE size[streams[Here]] # Running.in[1]
      <4>1. ~ Fits
        BY <1>0, <2>1, <3>2, ForwardFlow
      <4> QED
        BY <1>2, <3>1, <4>1
    <3>3. CASE paramsAt[k] # OperatorMemory(k)
      <4>1. ~ Placed
        BY <1>0, <3>3 DEF Placed
      <4>2. paramsAt[k] = "ram" /\ ~ InEpoch /\ ~ (epoch > 0)
        BY <1>0, <4>1 DEF PlacedInv, Working
      <4>3. purpose = "test" /\ epoch = epochs /\ epoch \in Nat
        BY <1>0, <4>2 DEF InEpoch, LoopInv, Passing
      <4>4. epochs = 0
        BY <4>2, <4>3
      <4>5. OperatorMemory(k) = "gpu"
        BY <3>3, <4>2, OperatorMemoryType DEF Devices
      <4>6. Blame(how)
        BY <1>0, <4>4, <4>5 DEF Blame, NeverPlaced
      <4> QED
        BY <3>1, <4>6, StopExplained
    <3> QED
      BY <2>4, <3>2, <3>3
  <2> QED
    BY <2>2, <2>3, <2>4
<1>4. CASE ForwardDimOp
  <2>1. OnOneStream(Running) /\ Running.kind \in DimOps
    BY <1>0, <1>4 DEF ForwardDimOp, DimOps
  <2> DEFINE shapes ==
               Reshaped(Running.kind, Running.out, rows[streams[Here]], size[streams[Here]])
  <2>2. \/ NoStream(streams) /\ Stop("error")
        \/ stage' = stage
        \/ ~ NoStream(streams) /\ shapes = {} /\ Stop("panicked")
    BY <1>4 DEF ForwardDimOp, ForwardStep
  <2>3. ASSUME Fits PROVE ~ NoStream(streams) /\ shapes # {}
    <3>1. /\ Here \in DOMAIN streams /\ ~ NoStream(streams)
          /\ size[streams[Here]] = Running.in[1] /\ rows[streams[Here]] = BatchRows
      BY <1>0, <2>1, <2>3, ForwardFlow
    <3>2. Plain(Running)
      BY <1>0, <2>3 DEF Fits, Running
    <3>3. Len(Running.out) = 1 /\ Running.in[1] = Running.out[1]
      BY <1>0, <2>1, <3>2 DEF Plain, WellMade
    <3>4. Reshaped(Running.kind, Running.out, BatchRows, Running.out[1]) # {}
      BY <1>0, <1>b, <3>3, ReshapedThere
    <3> QED
      BY <3>1, <3>3, <3>4
  <2> HIDE DEF shapes
  <2> QED
    BY <1>1, <1>2, <2>2, <2>3
<1>5. CASE ForwardConnector
  <2>1. ~ OnOneStream(Running)
    BY <1>0, <1>5 DEF ForwardConnector
  <2> DEFINE found == /\ Len(streams) = Len(Running.in)
                      /\ \A j \in DOMAIN streams : size[streams[j]] = Running.in[j]
             reach == \A j \in DOMAIN streams : rows[streams[1]] <= rows[streams[j]]
  <2>2. \/ ~ found /\ Stop("error")
        \/ stage' = stage
        \/ ~ reach /\ Stop("panicked")
    <3>1. CASE ~ found
      BY <1>5, <3>1 DEF ForwardConnector
    <3>2. CASE found /\ reach
      BY <1>5, <3>2 DEF ForwardConnector, ForwardStep
    <3>3. CASE found /\ ~ reach
      BY <1>5, <3>3 DEF ForwardConnector
    <3> QED
      BY <3>1, <3>2, <3>3
  <2>3. ASSUME Fits PROVE found /\ reach
    <3>1. /\ found /\ 1 \in DOMAIN streams
          /\ \A j \in DOMAIN streams : rows[streams[j]] = BatchRows
      BY <1>0, <2>1, <2>3, ForwardFlow
    <3>2. BatchRows <= BatchRows
      BY <1>b
    <3>3. reach
      BY <3>1, <3>2
    <3> QED
      BY <3>1, <3>3
  <2> HIDE DEF found, reach
  <2> QED
    BY <1>1, <1>2, <2>2, <2>3
<1> QED
  BY <1>3, <1>4, <1>5

\* The sizes of the one stream at either end of a plan, as it was described.
LEMMA LastSize ==
  ASSUME BuilderInv, MadeInv, Fits, builder.status = "built", NEW y, SizedAs(segments, N, y)
  PROVE  y \in Seq(Nat) /\ Len(y) = 1 /\ y[1] = Product(segments[N].out)
<1>1. N \in Nat \ {0} /\ N \in DOMAIN segments /\ WellMade(segments[N]) /\ Plain(segments[N])
  <2>1. /\ N \in Nat /\ N >= 1 /\ DOMAIN segments = 1 .. N
        /\ \A i \in 1 .. N : WellMade(segments[i])
    BY SegmentFacts
  <2>2. N \in 1 .. N
    BY <2>1
  <2> QED
    BY <2>1, <2>2 DEF Fits
<1>2. PICK flow : FlowOf(segments, flow) /\ Len(flow[N]) = 1 /\ flow[N] = y
  BY DEF SizedAs, N
<1>3. y \in Seq(Nat) /\ Len(y) = 1 /\ DOMAIN y = {1}
  <2>1. y \in Seq(Nat) /\ Len(y) = 1
    BY <1>1, <1>2 DEF FlowOf
  <2>2. DOMAIN y = 1 .. Len(y)
    BY <2>1
  <2> QED
    BY <2>1, <2>2
<1>4. Carries(segments[N], flow[N - 1], y)
  BY <1>1, <1>2 DEF FlowOf
<1>5. CASE OnOneStream(segments[N])
  <2>1. /\ StreamIndex(segments[N]) \in DOMAIN flow[N - 1]
        /\ y = [flow[N - 1] EXCEPT ![StreamIndex(segments[N])] = segments[N].out[1]]
    BY <1>1, <1>4, <1>5 DEF Carries
  <2>2. StreamIndex(segments[N]) = 1
    BY <1>3, <2>1
  <2>3. y[1] = segments[N].out[1]
    BY <2>1, <2>2
  <2>4. Len(segments[N].out) = 1
    BY <1>1, <1>5 DEF OnOneStream, WellMade, Plain
  <2> QED
    BY <1>3, <2>3, <2>4 DEF Product
<1>6. CASE ~ OnOneStream(segments[N])
  <2>1. y = segments[N].out
    BY <1>4, <1>6 DEF Carries
  <2> QED
    BY <1>3, <2>1 DEF Product
<1> QED
  BY <1>3, <1>5, <1>6

LEMMA FirstSize ==
  ASSUME BuilderInv, MadeInv, Fits, builder.status = "built", NEW y, SizedAs(segments, 0, y)
  PROVE  1 \in DOMAIN y /\ y[1] = Product(segments[1].in)
<1>1. 1 \in DOMAIN segments /\ WellMade(segments[1]) /\ Plain(segments[1])
  <2>1. /\ N \in Nat /\ N >= 1 /\ DOMAIN segments = 1 .. N
        /\ \A i \in 1 .. N : WellMade(segments[i])
    BY SegmentFacts
  <2>2. 1 \in 1 .. N
    BY <2>1
  <2> QED
    BY <2>1, <2>2 DEF Fits
<1>2. PICK flow : FlowOf(segments, flow) /\ flow[0] = y
  BY DEF SizedAs
<1>3. y \in Seq(Nat) /\ Len(y) = 1 /\ DOMAIN y = {1}
  <2>1. y \in Seq(Nat) /\ Len(y) = 1
    BY <1>2 DEF FlowOf
  <2>2. DOMAIN y = 1 .. Len(y)
    BY <2>1
  <2> QED
    BY <2>1, <2>2
<1>4. Carries(segments[1], y, flow[1])
  <2>1. 1 - 1 = 0
    OBVIOUS
  <2> QED
    BY <1>1, <1>2, <2>1 DEF FlowOf
<1>5. CASE OnOneStream(segments[1])
  <2>1. /\ StreamIndex(segments[1]) \in DOMAIN y
        /\ y[StreamIndex(segments[1])] = segments[1].in[1]
    BY <1>1, <1>4, <1>5 DEF Carries
  <2>2. y[1] = segments[1].in[1]
    BY <1>3, <2>1
  <2>3. Len(segments[1].in) = 1
    BY <1>1, <1>5 DEF OnOneStream, WellMade, Plain
  <2> QED
    BY <1>3, <2>2, <2>3 DEF Product
<1>6. CASE ~ OnOneStream(segments[1])
  <2>1. y = segments[1].in
    BY <1>4, <1>6 DEF Carries
  <2> QED
    BY <1>3, <2>1 DEF Product
<1> QED
  BY <1>5, <1>6, <1>3

\* Where everything fits, a pass ends in one stream of the size described.
LEMMA EndForwardFaults ==
  ASSUME BuilderInv, MadeInv, LoopInv, PassInv, SizeInv, EndForward
  PROVE  FaultsExplained'
<1>1. /\ N \in Nat /\ stage = "forward" /\ k = N + 1 /\ k - 1 = N
      /\ streams \in Seq(Nat) /\ builder.status = "built"
  <2>1. N \in Nat /\ stage = "forward" /\ k = N + 1
    BY SegmentFacts DEF EndForward, N
  <2>2. streams \in Seq(Nat) /\ builder.status = "built"
    BY <2>1 DEF PassInv, LoopInv, Working
  <2> QED
    BY <2>1, <2>2
<1> DEFINE ok == /\ Len(streams) = 1
                 /\ size[streams[1]] = Product(segments[N].out)
<1>2. stage' = "loss" \/ (~ ok /\ Stop("error"))
  BY DEF EndForward, N
<1>3. ASSUME Fits PROVE ok
  <2> DEFINE y == SizesOf(streams, size)
  <2>1. SizedAs(segments, N, y)
    BY <1>1, <1>3 DEF SizeInv
  <2>2. DOMAIN y = DOMAIN streams /\ \A j \in DOMAIN streams : y[j] = size[streams[j]]
    BY DEF SizesOf
  <2> HIDE DEF y
  <2>3. y \in Seq(Nat) /\ Len(y) = 1 /\ y[1] = Product(segments[N].out)
    BY <1>1, <1>3, <2>1, LastSize
  <2>4. DOMAIN streams = 1 .. Len(streams) /\ Len(streams) \in Nat /\ DOMAIN y = 1 .. Len(y)
    BY <1>1, <2>3
  <2> DEFINE a == Len(streams)
  <2>5. 1 .. a = 1 .. 1 /\ a \in Nat /\ DOMAIN streams = 1 .. a
    BY <2>2, <2>3, <2>4
  <2> HIDE DEF a
  <2>6. a = 1 /\ 1 \in DOMAIN streams
    BY <2>5
  <2> QED
    BY <2>2, <2>3, <2>6 DEF a
<1> HIDE DEF ok
<1>4. CASE stage' = "loss"
  BY <1>4 DEF FaultsExplained
<1> QED
  BY <1>2, <1>3, <1>4, StopExplained

\* The gradient of the input has the size of the input.
LEMMA EndBackwardFaults ==
  ASSUME BuilderInv, MadeInv, LoopInv, SizeInv, EndBackward
  PROVE  FaultsExplained'
<1>1. stage = "backward" /\ k = 0 /\ builder.status = "built"
  BY DEF EndBackward, LoopInv, Working
<1>2. stage' = "modify" \/ (grads[1].size # Product(segments[1].in) /\ Stop("error"))
  BY DEF EndBackward
<1>3. ASSUME Fits PROVE grads[1].size = Product(segments[1].in)
  <2> DEFINE y == GradSizes(grads)
  <2>1. SizedAs(segments, 0, y)
    BY <1>1, <1>3 DEF SizeInv
  <2>2. DOMAIN y = DOMAIN grads /\ \A j \in DOMAIN grads : y[j] = grads[j].size
    BY DEF GradSizes
  <2> HIDE DEF y
  <2> QED
    BY <1>1, <1>3, <2>1, <2>2, FirstSize
<1>4. CASE stage' = "modify"
  BY <1>4 DEF FaultsExplained
<1> QED
  BY <1>2, <1>3, <1>4, StopExplained

\* A loss that fails.
LEMMA LossFaults ==
  ASSUME BuilderInv, MadeInv, LoopInv, PassInv, SizeInv, DeviceInv, Loss
  PROVE  FaultsExplained'
<1>1. CASE ~ LossAgrees
  <2>1. /\ Ends("panicked") /\ UNCHANGED <<epochs, workers, optimizer, features, refused>>
        /\ stage = "loss" /\ lossFits' \in Learned(lossFits, purpose, BOOLEAN)
    BY <1>1 DEF Loss
  <2>2. CASE rows[streams[1]] # BatchRows
    <3>1. streams[1] \in Buffers
      <4>1. streams \in Seq(Nat) /\ Len(streams) = 1 /\ Len(cache) = N
        BY <2>1 DEF PassInv
      <4>2. 1 \in DOMAIN streams
        BY <4>1
      <4>3. streams[1] \in 1 .. 2 * Len(cache) + 1
        BY <2>1, <4>2 DEF DeviceInv
      <4> QED
        BY <4>1, <4>3 DEF Buffers, N
    <3>2. ~ Fits
      BY <2>1, <2>2, <3>1 DEF SizeInv
    <3> QED
      BY <2>1, <3>2, EndExplained
  <2>3. CASE ~ lossFits'[purpose]
    <3>1. purpose \in DOMAIN lossFits'
      BY <2>1 DEF Learned, With
    <3>2. \E p \in DOMAIN lossFits' : ~ lossFits'[p]
      BY <2>3, <3>1
    <3> QED
      BY <2>1, <3>2, EndExplained
  <2> QED
    BY <1>1, <2>2, <2>3 DEF LossAgrees
<1>2. CASE LossAgrees
  <2>1. stage' \in {"backward", "validated", "tested"}
    BY <1>2 DEF Loss
  <2> QED
    BY <2>1 DEF FaultsExplained
<1> QED
  BY <1>1, <1>2

\* A backward job that fails.
LEMMA BackwardFaults ==
  ASSUME BuilderInv, MadeInv, LoopInv, PassInv, PlacedInv, SizeInv, DeviceInv,
         BackwardUniversal \/ BackwardDimOp \/ BackwardConnector
  PROVE  FaultsExplained'
<1>0. /\ InBackward /\ stage = "backward" /\ k \in DOMAIN segments /\ k \in 1 .. N /\ N \in Nat
      /\ DOMAIN segments = 1 .. N /\ WellMade(Running)
      /\ OnOneStream(Running) <=> Running.kind \in {"Universal", "Unsqueeze", "ReduceMean"}
      /\ Running.in \in Seq(Nat)
  <2>1. InBackward
    BY DEF BackwardUniversal, BackwardDimOp, BackwardConnector
  <2> QED
    BY <2>1, SegmentFacts, RunningShape DEF InBackward
<1>1. ASSUME stage' = stage PROVE FaultsExplained'
  BY <1>0, <1>1 DEF FaultsExplained
<1>2. ASSUME NEW how, Stop(how), ~ Fits PROVE FaultsExplained'
  BY <1>2, StopExplained
<1>b. BatchRows \in Nat \ {0}
  BY TrainingAssumption
<1>5. CASE BackwardUniversal
  <2>1. OnOneStream(Running) /\ Running.kind = "Universal" /\ segments[k].kind = "Universal"
    BY <1>0, <1>5 DEF BackwardUniversal, Running
  <2> DEFINE held == /\ paramsAt[k] = OperatorMemory(k) /\ gradsAt[k] = OperatorMemory(k)
                     /\ SavedInPlace(k, OperatorMemory(k))
             fits == /\ grads[Here].rows = rows[cache[k].in[1]]
                     /\ grads[Here].size = Running.out[1]
  <2>2. \/ NoStream(grads) /\ Stop("error")
        \/ stage' = stage
        \/ ~ NoStream(grads) /\ ~ (held /\ fits) /\ \E how \in Broken(OperatorMemory(k)) : Stop(how)
    BY <1>5 DEF BackwardUniversal, BackwardStep
  <2>3. ASSUME Fits PROVE ~ NoStream(grads) /\ fits /\ 1 \in DOMAIN cache[k].in
    BY <1>0, <2>1, <2>3, BackwardFlow
  <2>4. ASSUME Fits, ~ held, NEW how PROVE Blame(how)
    <3>2. Placed
      BY <1>0 DEF PlacedInv, InEpoch, Working, Learning
    <3>3. ~ SavedInPlace(k, OperatorMemory(k))
      BY <1>0, <2>4, <3>2 DEF Placed
    <3>4. k \in DOMAIN cache
      <4>1. cache \in Seq(CacheRec) /\ Len(cache) = N
        BY <1>0 DEF PassInv, Learning
      <4> QED
        BY <1>0, <4>1
    <3>5. at[cache[k].in[1]] = OperatorMemory(k) /\ OutputKept(k)
      BY <1>0, <2>3, <2>4, <3>4 DEF DeviceInv
    <3> DEFINE layers == segments[k].layers
    <3>6. /\ cache[k].copies = "shared" /\ layers[Len(layers)].kind = "Softmax"
          /\ at[cache[k].out[1]] # OperatorMemory(k)
      BY <3>3, <3>5 DEF SavedInPlace
    <3>7. cache[k].out[1] = OutOf(k, 1)
      BY <2>1, <3>5 DEF OutputKept
    <3>8. Taken(k) /\ (OperatorMemory(k) = "gpu" \/ workers = "sequential")
      BY <2>1, <3>5, <3>6, <3>7 DEF OutputKept
    <3>9. \E j \in Users(k) : OperatorMemory(j) # OperatorMemory(k)
      BY <3>6, <3>7, <3>8 DEF Taken
    <3>10. OutputLeaves(k)
      BY <2>1, <3>6, <3>8, <3>9 DEF OutputLeaves
    <3> QED
      BY <1>0, <3>10 DEF Blame
  <2> HIDE DEF held, fits
  <2>5. ASSUME NEW how, Stop(how), ~ (held /\ fits) PROVE FaultsExplained'
    BY <2>3, <2>4, <2>5, StopExplained
  <2> QED
    BY <1>1, <1>2, <2>2, <2>3, <2>5
<1>6. CASE BackwardDimOp
  <2>1. OnOneStream(Running) /\ Running.kind \in DimOps
    BY <1>0, <1>6 DEF BackwardDimOp, DimOps
  <2> DEFINE shapes ==
               Reshaped(Undoes(Running.kind), Running.in, grads[Here].rows, grads[Here].size)
  <2>2. \/ NoStream(grads) /\ Stop("error")
        \/ stage' = stage
        \/ ~ NoStream(grads) /\ shapes = {} /\ Stop("panicked")
    BY <1>6 DEF BackwardDimOp, BackwardStep
  <2>3. ASSUME Fits PROVE ~ NoStream(grads) /\ shapes # {}
    <3>1. /\ Here \in DOMAIN grads /\ ~ NoStream(grads)
          /\ grads[Here].size = Running.out[1] /\ grads[Here].rows = BatchRows
      BY <1>0, <2>1, <2>3, BackwardFlow
    <3>2. Plain(Running)
      BY <1>0, <2>3 DEF Fits, Running
    <3>3. Len(Running.in) = 1 /\ Running.in[1] = Running.out[1]
      BY <1>0, <2>1, <3>2 DEF Plain, WellMade
    <3>4. Reshaped(Undoes(Running.kind), Running.in, BatchRows, Running.in[1]) # {}
      BY <1>0, <1>b, <3>3, ReshapedThere
    <3> QED
      BY <3>1, <3>3, <3>4
  <2> HIDE DEF shapes
  <2> QED
    BY <1>1, <1>2, <2>2, <2>3
<1>7. CASE BackwardConnector
  <2>1. ~ OnOneStream(Running)
    BY <1>0, <1>7 DEF BackwardConnector
  <2>2. \/ Len(grads) # Len(Running.out) /\ Stop("error")
        \/ stage' = stage
        \/ ~ ReadsWithin /\ Stop("panicked")
    BY <1>7 DEF BackwardConnector, BackwardStep
  <2>3. ASSUME Fits PROVE Len(grads) = Len(Running.out) /\ ReadsWithin
    <3>1. /\ Len(grads) = Len(Running.out) /\ 1 \in DOMAIN grads
          /\ \A j \in DOMAIN grads : /\ grads[j].size = Running.out[j] /\ grads[j].size \in Nat
                                     /\ grads[j].rows = BatchRows
          /\ \A j \in DOMAIN cache[k].in : rows[cache[k].in[j]] = BatchRows
      BY <1>0, <2>1, <2>3, BackwardFlow
    <3>2. \A n \in Nat : BatchRows * n <= BatchRows * n
      <4> TAKE n \in Nat
      <4> DEFINE p == BatchRows * n
      <4>1. p \in Int
        BY <1>b
      <4> HIDE DEF p
      <4>2. p <= p
        BY <4>1
      <4> QED
        BY <4>2 DEF p
    <3>3. BatchRows <= BatchRows
      BY <1>b
    <3>4. \A j \in DOMAIN grads :
            grads[1].rows * Running.out[j] <= grads[j].rows * grads[j].size
      <4> TAKE j \in DOMAIN grads
      <4>1. /\ grads[1].rows = BatchRows /\ grads[j].rows = BatchRows
            /\ Running.out[j] = grads[j].size /\ grads[j].size \in Nat
        BY <3>1
      <4> QED
        BY <3>2, <4>1
    <3> QED
      BY <3>1, <3>3, <3>4 DEF ReadsWithin
  <2> QED
    BY <1>1, <1>2, <2>2, <2>3
<1> QED
  BY <1>5, <1>6, <1>7

\* A phase of the optimizer that fails.
LEMMA PhaseFaults ==
  ASSUME BuilderInv, MadeInv, LoopInv, PassInv, PlacedInv, UpdateInv,
         ModifyGrads \/ AdapterPass \/ ApplyUpdate
  PROVE  FaultsExplained'
<1>0. /\ stage \in {"modify", "adapters", "apply"} /\ stage \in Learning /\ stage \in Working
      /\ N \in Nat /\ DOMAIN segments = 1 .. N
  BY SegmentFacts DEF ModifyGrads, AdapterPass, ApplyUpdate, InBuffers, Learning, Working
<1>1. ASSUME stage' \in {"modify", "apply"} PROVE FaultsExplained'
  BY <1>1 DEF FaultsExplained
<1>2. Placed
  BY <1>0 DEF PlacedInv, InEpoch
<1>3. k \in DOMAIN segments => SameDevice
  BY <1>2 DEF Placed, SameDevice
<1>4. CASE ModifyGrads
  <2>1. CASE k \in DOMAIN exprs \/ Buildable(optimizer)
    <3>1. stage' = stage /\ stage = "modify"
      BY <1>3, <1>4, <2>1 DEF ModifyGrads, InBuffers
    <3> QED
      BY <1>1, <3>1
  <2>2. CASE ~ (k \in DOMAIN exprs \/ Buildable(optimizer))
    <3>1. Stop("panicked")
      BY <1>4, <2>2 DEF ModifyGrads
    <3> QED
      BY <2>2, <3>1, StopExplained DEF Blame
  <2> QED
    BY <2>1, <2>2
<1>5. CASE AdapterPass
  <2>1. Len(cache) = Len(segments)
    BY <1>0 DEF PassInv, N
  <2>2. stage' = "apply"
    BY <1>5, <2>1 DEF AdapterPass
  <2> QED
    BY <1>1, <2>2
<1>6. CASE ApplyUpdate
  <2>1. stage = "apply" /\ k \in DOMAIN segments /\ k <= N
    BY <1>0, <1>6 DEF ApplyUpdate, InBuffers
  <2>2. HasParams(k)
    BY <2>1 DEF LoopInv, Phases
  <2>3. Trained \in Nat /\ Seen(k) = Trained + 1
    BY <1>0, <2>1, TrainedType DEF Seen, Modified, OneIf
  <2>4. Seen(k) # 0
    BY <2>3
  <2>5. k \in DOMAIN exprs
    BY <1>0, <2>1, <2>2, <2>4 DEF UpdateInv, ExprIs
  <2>6. stage' = "apply"
    BY <1>3, <1>6, <2>1, <2>5 DEF ApplyUpdate
  <2> QED
    BY <1>1, <2>6
<1> QED
  BY <1>4, <1>5, <1>6

\* Every failure is explained.
LEMMA FaultsStep ==
  ASSUME BuilderInv, MadeInv, LoopInv, PassInv, PlacedInv, UpdateInv, SizeInv, DeviceInv, Next
  PROVE  FaultsExplained'
<1>1. ASSUME stage' \notin Failures PROVE FaultsExplained'
  BY <1>1 DEF FaultsExplained, Failures
<1>2. CASE Plan \/ EndEpoch \/ TrainBatch \/ Validate \/ TestForward \/ EndModify \/ EndApply
  <2>1. stage' \notin Failures
    BY <1>2 DEF Plan, trainVars, EndEpoch, TrainBatch, Validate, TestForward, BeginForward,
       EndModify, EndApply, StayInPass, Failures
  <2> QED
    BY <1>1, <2>1
<1>3. ASSUME NEW reassign \in BOOLEAN, ObserveEpoch(reassign) PROVE FaultsExplained'
  BY <1>1, <1>3 DEF ObserveEpoch, Failures
<1>4. CASE Finish
  <2>1. stage' = "done"
    BY <1>4 DEF Finish, Stop, Ends
  <2> QED
    BY <1>1, <2>1 DEF Failures
<1>5. CASE BuildFails
  BY <1>5, StopExplained DEF BuildFails, Blame
<1>6. CASE Start
  <2>1. CASE Buildable(optimizer')
    <3>1. stage' = "epoch"
      BY <1>6, <2>1 DEF Start
    <3> QED
      BY <1>1, <3>1 DEF Failures
  <2>2. CASE ~ Buildable(optimizer')
    <3>1. stage' = "panicked"
      BY <1>6, <2>2 DEF Start, Ends
    <3> QED
      BY <2>2, <3>1 DEF FaultsExplained
  <2> QED
    BY <2>1, <2>2
<1>7. CASE Refusals
  <2>1. refused' # "nothing"
    BY <1>7 DEF Refusals, RefuseData, RefuseFrequency, RefuseMemory, Refuse
  <2> QED
    BY <2>1 DEF FaultsExplained
<1>8. CASE Forward
  BY <1>8, ForwardFaults, EndForwardFaults DEF Forward
<1>9. CASE Backward
  BY <1>9, BackwardFaults, EndBackwardFaults DEF Backward
<1>10. CASE Optimize
  BY <1>2, <1>10, PhaseFaults DEF Optimize
<1> QED
  BY <1>2, <1>3, <1>4, <1>5, <1>6, <1>7, <1>8, <1>9, <1>10, LossFaults DEF Next, Epochs

-----------------------------------------------------------------------------
(* Training                                                                *)

\* Where the training thread is, and what it holds.
TrainInv == LoopInv /\ PassInv /\ PlacedInv /\ UpdateInv /\ SizeInv /\ DeviceInv /\ FaultsExplained

\* Nothing is trained yet.
LEMMA TrainInvInit == TrainInit => TrainInv
<1> SUFFICES ASSUME TrainInit PROVE TrainInv
  OBVIOUS
<1>1. /\ stage = "plan" /\ epochs = 0 /\ epoch = 0 /\ batch = 0 /\ exprs = EmptyMap
      /\ features = EmptyMap
  BY DEF TrainInit
<1>2. LoopInv
  BY <1>1 DEF LoopInv, Working, Ended, Learning, Passing, Phases, InEpoch
<1>3. PassInv /\ PlacedInv /\ UpdateInv
  BY <1>1 DEF PassInv, PlacedInv, UpdateInv, Working, Learning, Passing
<1>4. SizeInv /\ DeviceInv /\ FaultsExplained
  BY <1>1 DEF SizeInv, DeviceInv, FaultsExplained
<1> QED
  BY <1>2, <1>3, <1>4 DEF TrainInv

\* A step that changes nothing keeps it.
LEMMA TrainInvSame ==
  ASSUME TrainInv, UNCHANGED vars
  PROVE  TrainInv'
<1>1. UNCHANGED <<plan, trainVars>>
  BY DEF vars
<1>2. /\ UNCHANGED <<stage, epochs, epoch, batch, workers, optimizer, purpose, k, streams, cache>>
      /\ UNCHANGED <<rows, size, at, grads, paramsAt, gradsAt, own, params, exprs>>
      /\ UNCHANGED <<features, lossFits, refused, clear, builder>>
  BY <1>1 DEF trainVars, loop, pass, buffers, given, plan, planVars
<1>3. /\ segments' = segments /\ N' = N
      /\ \A i : OperatorMemory(i)' = OperatorMemory(i) /\ HasParams(i)' = HasParams(i)
      /\ \A i, b : Step(i, b)' = Step(i, b)
  BY <1>1, <1>2, SamePlan, SameStep
<1>4. Buffers' = Buffers /\ \A i : Users(i)' = Users(i)
  BY <1>3 DEF Buffers, Users, N
<1>5. /\ Trained' = Trained /\ (InEpoch' <=> InEpoch) /\ (Placed' <=> Placed)
      /\ \A i : Modified(i)' = Modified(i) /\ Applied(i)' = Applied(i)
      /\ \A i : Taken(i)' = Taken(i) /\ Waits(i)' = Waits(i)
  BY <1>2, <1>3, <1>4 DEF Trained, InEpoch, Placed, Modified, Applied, Taken, Waits, OutOf
<1>6. LoopInv'
  BY <1>2, <1>3, <1>5 DEF TrainInv, LoopInv
<1>7. PassInv'
  BY <1>2, <1>3 DEF TrainInv, PassInv
<1>8. PlacedInv'
  BY <1>2, <1>3, <1>5 DEF TrainInv, PlacedInv
<1>9. UpdateInv'
  <2>1. \A i : Done(i)' = Done(i) /\ Seen(i)' = Seen(i) /\ OwnIs(i)' = OwnIs(i)
    BY <1>2, <1>3, <1>5 DEF Done, Seen, OneIf, OwnIs
  <2> QED
    BY <1>2, <1>3, <2>1 DEF TrainInv, UpdateInv
<1>10. SizeInv'
  <2>1. Fits' <=> Fits
    BY <1>2, <1>3 DEF Fits
  <2> QED
    BY <1>2, <1>3, <1>4, <2>1 DEF TrainInv, SizeInv
<1>11. DeviceInv'
  <2>1. \A i : OutputKept(i)' = OutputKept(i)
    BY <1>2, <1>3, <1>5 DEF OutputKept, OutOf
  <2> QED
    BY <1>2, <1>3, <1>4, <1>5, <2>1 DEF TrainInv, DeviceInv, OutOf
<1>12. FaultsExplained'
  <2>1. \A i : OutputLeaves(i)' = OutputLeaves(i) /\ Reshapes(i)' = Reshapes(i)
    BY <1>2, <1>3, <1>4 DEF OutputLeaves, Reshapes
  <2>2. (DataMisfit' <=> DataMisfit) /\ (NeverPlaced' <=> NeverPlaced)
    BY <1>2, <1>3 DEF DataMisfit, NeverPlaced
  <2> QED
    BY <1>2, <1>3, <2>1, <2>2 DEF TrainInv, FaultsExplained
<1> QED
  BY <1>6, <1>7, <1>8, <1>9, <1>10, <1>11, <1>12 DEF TrainInv

\* What training keeps, step by step.
THEOREM TrainingKeepsInv == Spec => []TrainInv
<1>1. TrainInit => TrainInv
  BY TrainInvInit
<1>2. TrainInv /\ (BuilderInv /\ MadeInv) /\ [Next]_vars => TrainInv'
  <2> SUFFICES ASSUME TrainInv, BuilderInv, MadeInv, [Next]_vars PROVE TrainInv'
    OBVIOUS
  <2>1. CASE Next
    <3>1. LoopInv' /\ PassInv' /\ PlacedInv' /\ UpdateInv'
      BY <2>1, LoopStep, PassStep, PlacedStep, UpdateStep DEF TrainInv
    <3>2. SizeInv' /\ DeviceInv' /\ FaultsExplained'
      BY <2>1, SizeStep, DeviceStep, FaultsStep DEF TrainInv
    <3> QED
      BY <3>1, <3>2 DEF TrainInv
  <2>2. CASE UNCHANGED vars
    BY <2>2, TrainInvSame
  <2> QED
    BY <2>1, <2>2
<1> QED
  BY <1>1, <1>2, TrainingMade, PTL DEF Spec

\* A segment receives the gradient of exactly what it put out.
THEOREM GradientsFollow == Spec => []GradFollowsOutput
<1>1. BuilderInv /\ MadeInv /\ TrainInv => GradFollowsOutput
  <2> SUFFICES ASSUME BuilderInv, MadeInv, TrainInv, stage = "backward"
               PROVE  GradFollowsOutput
    BY DEF GradFollowsOutput
  <2>0. LoopInv /\ PassInv /\ N \in Nat /\ DOMAIN segments = 1 .. N
    BY SegmentFacts DEF TrainInv
  <2>1. CASE k = 0
    <3>1. PICK trace : Trace(segments, cache, trace) /\ trace[k] = Ofs(grads)
      BY <2>0 DEF PassInv, TraceTo
    <3>2. Ofs(grads) = <<Input>>
      BY <2>1, <3>1 DEF Trace
    <3> QED
      BY <2>1, <3>2 DEF GradFollowsOutput, Ofs
  <2>2. CASE k # 0
    <3>1. InBackward
      <4>1. k \in 0 .. N
        BY <2>0 DEF LoopInv
      <4>2. k \in 1 .. N
        BY <2>0, <2>2, <4>1
      <4> QED
        BY <2>0, <4>2 DEF InBackward
    <3>2. PICK y \in Seq(Nat), z \in Seq(Nat) :
            /\ Linked(segments[k], k, cache[k].in, y, z)
            /\ Ofs(grads) = z /\ DOMAIN z = DOMAIN grads
      BY <2>0, <3>1, BackwardFinds
    <3>3. CASE OnOneStream(Running)
      <4>1. Here \in DOMAIN y /\ z = [y EXCEPT ![Here] = OutOf(k, 1)]
        BY <3>2, <3>3 DEF Linked, Here, Running
      <4>2. Here \in DOMAIN grads /\ z[Here] = OutOf(k, 1)
        BY <3>2, <4>1
      <4>3. grads[Here].of = OutOf(k, 1)
        BY <3>2, <4>2 DEF Ofs
      <4> QED
        BY <2>2, <3>3, <4>2, <4>3 DEF GradFollowsOutput
    <3>4. CASE ~ OnOneStream(Running)
      <4>1. Ofs(grads) = [j \in DOMAIN Running.out |-> OutOf(k, j)]
        BY <3>2, <3>4 DEF Linked, Running
      <4> QED
        BY <2>2, <3>4, <4>1 DEF GradFollowsOutput, Ofs
    <3> QED
      BY <3>3, <3>4
  <2> QED
    BY <2>1, <2>2
<1> QED
  BY <1>1, TrainingKeepsInv, TrainingMade, PTL

\* Every update is made of the gradients of its own batch, after every cube.
THEOREM UpdatesOfOwnBatch == Spec => []UpdateOwnBatch
<1>1. BuilderInv /\ MadeInv /\ TrainInv => UpdateOwnBatch
  <2> SUFFICES ASSUME BuilderInv, MadeInv, TrainInv, stage \notin {"plan"} \cup Ended,
                      NEW i \in DOMAIN segments, HasParams(i)
               PROVE  /\ \A b \in 1 .. Trained : b \in DOMAIN params[i] /\ params[i][b] = Step(i, b)
                      /\ Len(params[i]) <= batch
                      /\ stage = "modify" => own[i].own = {batch}
                      /\ i \in DOMAIN exprs =>
                           LET seen == exprs[i].states
                           IN \A n \in DOMAIN seen :
                                seen[n] # <<>> => seen[n] = [b \in 1 .. exprs[i].step_counter |-> {b}]
    BY DEF UpdateOwnBatch
  <2>1. LoopInv /\ stage \in Working
    BY DEF TrainInv, LoopInv
  <2>2. /\ params[i] = [b \in 1 .. Done(i) |-> Step(i, b)]
        /\ ExprIs(exprs, i, optimizer, Seen(i)) /\ OwnIs(i)
    BY <2>1 DEF TrainInv, UpdateInv
  <2>3. Trained \in Nat /\ Done(i) \in Nat /\ Trained <= Done(i) /\ Done(i) <= batch
    <3>1. /\ Trained \in Nat /\ batch \in Nat /\ Done(i) \in Nat
          /\ stage \in Learning => Trained = batch - 1 /\ batch = Trained + 1
      BY <2>1, TrainedType
    <3>2. CASE Applied(i)
      <4>1. batch = Trained + 1 /\ Done(i) = Trained + 1
        BY <3>1, <3>2 DEF Done, OneIf, Applied, Learning
      <4> QED
        BY <3>1, <4>1
    <3>3. CASE ~ Applied(i)
      <4>1. Done(i) = Trained
        BY <3>1, <3>3 DEF Done, OneIf
      <4>2. Trained <= batch
        BY <3>1 DEF Trained
      <4> QED
        BY <3>1, <4>1, <4>2
    <3> QED
      BY <3>1, <3>2, <3>3
  <2>4. \A b \in 1 .. Trained : b \in DOMAIN params[i] /\ params[i][b] = Step(i, b)
    <3>1. \A b \in 1 .. Trained : b \in 1 .. Done(i)
      BY <2>3
    <3> QED
      BY <2>2, <3>1
  <2>5. Len(params[i]) = Done(i)
    <3> DEFINE n == Done(i)
    <3>1. n \in Nat /\ params[i] = [b \in 1 .. n |-> Step(i, b)]
      BY <2>2, <2>3
    <3> HIDE DEF n
    <3>2. Len(params[i]) = n
      BY <3>1, LenProperties
    <3> QED
      BY <3>2 DEF n
  <2>6. stage = "modify" => own[i].own = {batch}
    <3>1. i \in Nat /\ stage = "modify" => k \in Nat
      BY SegmentFacts DEF TrainInv, LoopInv, Phases
    <3>2. stage = "modify" => i < k \/ i >= k
      BY <3>1, SegmentFacts
    <3> QED
      BY <2>2, <3>2 DEF OwnIs
  <2>7. ASSUME i \in DOMAIN exprs, NEW n \in DOMAIN exprs[i].states, exprs[i].states[n] # <<>>
        PROVE  exprs[i].states[n] = [b \in 1 .. exprs[i].step_counter |-> {b}]
    <3>1. exprs[i] = ExprAfter(optimizer, Seen(i))
      BY <2>2, <2>7 DEF ExprIs
    <3> DEFINE g == [b \in 1 .. Seen(i) |-> {b}]
    <3>2. /\ exprs[i].step_counter = Seen(i) /\ n \in DOMAIN optimizer
          /\ exprs[i].states[n] = IF state_size_per_param(optimizer[n]) > 0 THEN g ELSE <<>>
      BY <2>7, <3>1 DEF ExprAfter
    <3> HIDE DEF g
    <3>3. exprs[i].states[n] = g
      BY <2>7, <3>2
    <3> QED
      BY <3>2, <3>3 DEF g
  <2> QED
    BY <2>3, <2>4, <2>5, <2>6, <2>7
<1> QED
  BY <1>1, TrainingKeepsInv, TrainingMade, PTL

\* Training and testing fail only for a reason.
THEOREM FaultsAreExplained == Spec => []FaultsExplained
<1>1. TrainInv => FaultsExplained
  BY DEF TrainInv
<1> QED
  BY <1>1, TrainingKeepsInv, PTL

\* The plan that is trained holds the layers in their order.
THEOREM TrainedInOrder == Spec => []LayersKeptInOrder
BY TrainingDescribes, BuilderKeepsOrder

\* And every segment runs on the stream it was described for.
THEOREM TrainedRouted == Spec => []RoutedWhenClear
BY TrainingDescribes, BuilderRoutes

=============================================================================
