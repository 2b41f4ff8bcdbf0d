---------------------------- MODULE GraphBuilder ----------------------------
(* How the list of layer descriptions of a model becomes the segments of    *)
(* GraphV2 (graph_v2/builder_v2.rs).  build_segments is one pass over the   *)
(* list: every action below is the description of one more layer by the     *)
(* author of the model together with the step of that pass.                 *)
(*                                                                          *)
(* The author sees streams: a Splitter opens two, a Combiner joins them,    *)
(* SplitterConnector says which stream comes next.  open, focus, named and  *)
(* clear are the author's view; they are not in the code, which knows the   *)
(* streams by their sizes only.  builder is the code's state.               *)
EXTENDS Naturals, Sequences, FiniteSets, SequencesExt

CONSTANTS
  Sizes,          \* sizes a stream may have
  LinearParams,   \* numbers of parameters of the layers that have some
  Planes,         \* first dimensions of the shapes of dimension operations
  MaxLayers,      \* bound: layers and dimension operations described
  MaxSplits       \* bound: Splitters described

ASSUME BuilderAssumption ==
  /\ Sizes \subseteq Nat \ {0} /\ LinearParams \subseteq Nat \ {0}
  /\ Planes \subseteq Nat \ {0}
  /\ MaxLayers \in Nat /\ MaxSplits \in Nat

VARIABLES
  open,      \* sizes of the streams that are open in the plan, in order
  focus,     \* the stream being described, 0 for none
  named,     \* sizes by which the open streams were named together, or <<>>
  clear,     \* TRUE while the sizes tell the streams apart
  described, \* number of layers described, markers not counted
  builder    \* locals of build_segments

planVars == <<open, focus, named, clear, described>>
plan == <<planVars, builder>>

-----------------------------------------------------------------------------
(* The pass.  ports, branch and indices are active_ports, current_branch    *)
(* and current_stream_indices: <<>> and 0 stand for None, streams count     *)
(* from 1.  layers, in and out describe the segment being collected; meant  *)
(* is the stream its author described it for.  The in and out of a segment  *)
(* are the sizes of its streams, those of a dimension operation the         *)
(* dimensions of a shape.                                                   *)

DimOps == {"Unsqueeze", "ReduceMean"}

EmptyBuilder ==
  [ports |-> <<>>, branch |-> 0, indices |-> 0, layers |-> <<>>, in |-> 0,
   out |-> 0, meant |-> 0, segments |-> <<>>, status |-> "building"]

Layer(kind, params, number) == [kind |-> kind, params |-> params, number |-> number]

ParamCount(layers) == FoldLeft(LAMBDA sum, l : sum + l.params, 0, layers)

\* finalize_universal!: no slices are allocated for a segment without
\* parameters, and their number is compared with the number of layers.
Finalized(b) ==
  CASE b.layers = <<>> -> b
    [] b.layers # <<>> /\ ParamCount(b.layers) = 0 -> [b EXCEPT !.status = "failed"]
    [] OTHER ->
         [b EXCEPT !.layers = <<>>, !.in = 0, !.out = 0, !.meant = 0, !.indices = 0,
                   !.segments = Append(@,
                     [kind |-> "Universal", layers |-> b.layers, in |-> <<b.in>>,
                      out |-> <<b.out>>, stream |-> b.indices, meant |-> b.meant])]

\* Faulty: the last port of that size.
LastPosition(ports, size) ==
  LET Found == {i \in DOMAIN ports : ports[i] = size}
  IN  IF Found = {} THEN 0 ELSE CHOOSE i \in Found : \A j \in Found : j <= i

\* iter().position(|p| p == size): the first port of that size, or 0.
Position(ports, size) ==
  LET Found == {i \in DOMAIN ports : ports[i] = size}
  IN  IF Found = {} THEN 0 ELSE CHOOSE i \in Found : \A j \in Found : i <= j

\* The branch an ordinary layer starts a segment in.
StartBranch(b, size) ==
  LET found == Position(b.ports, size)
  IN  IF found # 0 THEN found ELSE IF b.branch # 0 THEN b.branch ELSE 1

Started(b, size, meant) ==
  IF b.ports = <<>> THEN [b EXCEPT !.in = size, !.meant = meant, !.indices = 0]
  ELSE [b EXCEPT !.in = size, !.meant = meant, !.branch = StartBranch(b, size),
                 !.indices = StartBranch(b, size)]

AddLayer(b, layer, in, out, meant) ==
  LET s == IF b.layers = <<>> THEN Started(b, in, meant) ELSE b
  IN  [s EXCEPT !.layers = Append(@, layer), !.out = out]

\* Pushes a segment that stands alone, unless the pending one was refused.
Push(b, segment) ==
  IF b.status = "failed" THEN b ELSE [b EXCEPT !.segments = Append(@, segment)]

\* Faulty: the pending segment is not finished first.
AddDimOpAhead(b, kind, layer, in, out, meant) ==
  Push(b, [kind |-> kind, layers |-> <<layer>>, in |-> in, out |-> out,
           stream |-> b.indices, meant |-> meant])

\* finalize_universal! has taken the indices by the time they are cloned.
AddDimOp(b, kind, layer, in, out, meant) ==
  LET f == Finalized(b)
  IN  Push(f, [kind |-> kind, layers |-> <<layer>>, in |-> in, out |-> out,
               stream |-> f.indices, meant |-> meant])

AddSplitter(b, layer, in, outs) ==
  [Push(Finalized(b), [kind |-> "Splitter", layers |-> <<layer>>, in |-> <<in>>,
                       out |-> outs, stream |-> 0, meant |-> 0])
     EXCEPT !.ports = outs, !.branch = 1]

AddCombiner(b, layer, ins, out) ==
  [Push(Finalized(b), [kind |-> "Combiner", layers |-> <<layer>>, in |-> ins,
                       out |-> <<out>>, stream |-> 0, meant |-> 0])
     EXCEPT !.ports = <<out>>, !.branch = 0]

\* SplitterConnector with one stream and with several.
AddMarker(b, sizes) ==
  LET f == Finalized(b)
      found == Position(f.ports, sizes[1])
  IN  CASE Len(sizes) > 1 -> [f EXCEPT !.ports = sizes, !.branch = 0]
        [] Len(sizes) = 1 /\ f.ports = <<>> -> [f EXCEPT !.ports = sizes, !.branch = 1]
        [] OTHER -> [f EXCEPT !.branch = IF found = 0 THEN 1 ELSE found]

-----------------------------------------------------------------------------
(* The plan, described layer by layer.  Each takes the size the one before  *)
(* it gives, as Plan::from_descs asks of all but dimension operations and   *)
(* markers; GraphV2::build itself compares no neighbours.                   *)

Split == Len(open) = 2

\* The size leads to stream i when it is looked up among the named sizes.
LeadsTo(i, size) ==
  Split => IF i = 1 THEN size = named[1] \/ size # named[2] ELSE size # named[1]

Number == described + 1
Plannable == builder.status = "building"
Splits == Cardinality({i \in DOMAIN builder.segments : builder.segments[i].kind = "Splitter"})
Joins == Cardinality({i \in DOMAIN builder.segments : builder.segments[i].kind = "Combiner"})
MoreLayers == described - Splits - Joins < MaxLayers

\* A layer with parameters, which may change the size of its stream.
DescribeLinear(params, out) ==
  /\ Plannable /\ MoreLayers /\ focus # 0
  /\ builder' = AddLayer(builder, Layer("Linear", params, Number), open[focus], out, focus)
  /\ clear' = (clear /\ LeadsTo(focus, open[focus]))
  /\ open' = [open EXCEPT ![focus] = out]
  /\ described' = Number
  /\ UNCHANGED <<focus, named>>

\* A layer without parameters whose backward pass needs its own output.
DescribeSoftmax ==
  /\ Plannable /\ MoreLayers /\ focus # 0
  /\ builder' = AddLayer(builder, Layer("Softmax", 0, Number), open[focus], open[focus], focus)
  /\ clear' = (clear /\ LeadsTo(focus, open[focus]))
  /\ described' = Number
  /\ UNCHANGED <<open, focus, named>>

\* n numbers in planes of equal size.
Dims(planes, n) == IF planes = 1 THEN <<n>> ELSE <<planes, n \div planes>>

\* Unsqueeze or ReduceMean from one shape of a stream to another one.  With
\* planes rows and columns change: the next layer is described for any size.
DescribeDimOp(kind, from, to, next) ==
  /\ Plannable /\ MoreLayers /\ focus # 0
  /\ open[focus] % from = 0 /\ open[focus] % to = 0
  /\ from = 1 /\ to = 1 => next = open[focus]
  /\ builder' = AddDimOp(builder, kind, Layer(kind, 0, Number), Dims(from, open[focus]),
                         Dims(to, open[focus]), focus)
  /\ clear' = (clear /\ (Split => focus = 1))
  /\ open' = [open EXCEPT ![focus] = next]
  /\ described' = Number
  /\ UNCHANGED <<focus, named>>

DescribeSplitter(outs) ==
  /\ Plannable /\ ~Split /\ Splits < MaxSplits
  /\ builder' = AddSplitter(builder, Layer("Splitter", 0, Number), open[1], outs)
  /\ open' = outs /\ named' = outs /\ focus' = 1
  /\ described' = Number
  /\ UNCHANGED clear

DescribeCombiner(out) ==
  /\ Plannable /\ Split /\ open[1] = open[2]
  /\ builder' = AddCombiner(builder, Layer("Combiner", 0, Number), open, out)
  /\ open' = <<out>> /\ named' = <<>> /\ focus' = 1
  /\ described' = Number
  /\ UNCHANGED clear

\* SplitterConnector of one stream: its layers follow.
DescribeBranch(i) ==
  /\ Plannable
  /\ builder' = AddMarker(builder, <<open[i]>>)
  /\ focus' = i
  /\ clear' = (clear /\ LeadsTo(i, open[i]) /\ (Split => open[i] = named[i] \/ i = 1))
  /\ UNCHANGED <<open, named, described>>

\* SplitterConnector of both streams.
DescribeBothBranches ==
  /\ Plannable /\ Split
  /\ builder' = AddMarker(builder, open)
  /\ named' = open /\ focus' = 0
  /\ UNCHANGED <<open, clear, described>>

\* CombinerConnector: the pass ignores it, the author leaves the branch.
DescribeBranchEnd ==
  /\ Plannable /\ Split
  /\ focus' = 0
  /\ UNCHANGED <<open, named, clear, described, builder>>

\* The end of the list.
FinishPlan ==
  /\ Plannable /\ ~Split /\ described > 0
  /\ builder' = IF Finalized(builder).status = "failed" THEN Finalized(builder)
                ELSE [Finalized(builder) EXCEPT !.status = "built", !.ports = <<>>, !.branch = 0]
  /\ open' = <<>> /\ focus' = 0 /\ named' = <<>>
  /\ UNCHANGED <<clear, described>>

BuilderInit ==
  /\ open \in {<<n>> : n \in Sizes} /\ focus = 1 /\ named = <<>> /\ clear = TRUE
  /\ described = 0 /\ builder = EmptyBuilder

Describe ==
  \/ \E p \in LinearParams, n \in Sizes : DescribeLinear(p, n)
  \/ DescribeSoftmax
  \/ \E kind \in DimOps, from, to \in Planes, n \in Sizes : DescribeDimOp(kind, from, to, n)
  \/ \E p, q \in Sizes : DescribeSplitter(<<p, q>>)
  \/ \E n \in Sizes : DescribeCombiner(n)
  \/ \E i \in DOMAIN open : DescribeBranch(i)
  \/ DescribeBothBranches
  \/ DescribeBranchEnd
  \/ FinishPlan

BuilderSpec == BuilderInit /\ [][Describe]_plan

-----------------------------------------------------------------------------
(* Properties.                                                              *)

segments == builder.segments

\* single_stream_index: None stands for the first stream.
StreamIndex(segment) == IF segment.stream = 0 THEN 1 ELSE segment.stream

\* The layers of segment i; after the last comes the one being collected.
Lists == 1 .. Len(segments) + 1
LayersOf(i) == IF i \in DOMAIN segments THEN segments[i].layers ELSE builder.layers
NumbersIn(i) == {LayersOf(i)[j].number : j \in DOMAIN LayersOf(i)}

\* Every layer of the plan is in exactly one segment and the segments hold
\* them in the order of the plan, whatever connectors, dimension operations
\* and markers interrupt the segment that is being collected.
LayersKeptInOrder ==
  builder.status # "failed" =>
    /\ UNION {NumbersIn(i) : i \in Lists} = 1 .. described
    /\ \A i \in Lists : \A k \in i .. Len(segments) + 1 :
         \A j \in DOMAIN LayersOf(i), l \in DOMAIN LayersOf(k) :
           i < k \/ j < l => LayersOf(i)[j].number < LayersOf(k)[l].number

OnOneStream(segment) == segment.kind \in {"Universal"} \cup DimOps

\* As long as sizes tell the two streams apart (a layer never starts with the
\* size of the other stream, a branch is entered by the size it was split or
\* named with, dimension operations stay on the first stream), every segment
\* runs on the stream it was described for.
RoutedWhenClear ==
  clear => \A i \in DOMAIN segments :
             OnOneStream(segments[i]) => StreamIndex(segments[i]) = segments[i].meant

=============================================================================
