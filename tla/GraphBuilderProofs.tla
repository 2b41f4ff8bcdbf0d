-------------------------- MODULE GraphBuilderProofs --------------------------
(***************************************************************************)
(* What build_segments keeps of a plan, for every plan: the order of its   *)
(* layers, and the stream of every segment while sizes tell streams apart. *)
(***************************************************************************)
EXTENDS GraphBuilder, SequenceTheorems, TLAPS

LayerKinds == {"Linear", "Softmax", "Splitter", "Combiner"} \cup DimOps
LayerRec == [kind : LayerKinds, params : Nat, number : Nat]
Kinds == {"Universal", "Splitter", "Combiner"} \cup DimOps
SegmentRec ==
  [kind : Kinds, layers : Seq(LayerRec), in : Seq(Nat), out : Seq(Nat),
   stream : Nat, meant : Nat]
BuilderOf(L, S) ==
  [ports : Seq(Nat), branch : Nat, indices : Nat, layers : L, in : Nat, out : Nat,
   meant : Nat, segments : S, status : {"building", "failed", "built"}]
BuilderRec == BuilderOf(Seq(LayerRec), Seq(SegmentRec))

-----------------------------------------------------------------------------
(* The steps of the pass, by what they return                              *)

\* The segment finalize_universal! makes of the layers collected.
Collected(b) ==
  [kind |-> "Universal", layers |-> b.layers, in |-> <<b.in>>, out |-> <<b.out>>,
   stream |-> b.indices, meant |-> b.meant]

\* Emptying the list of layers and adding a segment keeps the types.
LEMMA CollectedType ==
  ASSUME NEW b \in BuilderRec, NEW s \in Seq(SegmentRec)
  PROVE  [b EXCEPT !.layers = <<>>, !.in = 0, !.out = 0, !.meant = 0, !.indices = 0,
                   !.segments = s] \in BuilderRec
<1>1. ASSUME NEW L, NEW S, NEW c \in BuilderOf(L, S), NEW e \in L, NEW t \in S
      PROVE  [c EXCEPT !.layers = e, !.in = 0, !.out = 0, !.meant = 0, !.indices = 0,
                       !.segments = t] \in BuilderOf(L, S)
  BY DEF BuilderOf
<1> QED
  BY <1>1, EmptySeq DEF BuilderRec

\* A layer has a kind, a number of parameters and a number.
LEMMA LayerType ==
  ASSUME NEW kind \in LayerKinds, NEW params \in Nat, NEW number \in Nat
  PROVE  /\ Layer(kind, params, number) \in LayerRec
         /\ Layer(kind, params, number).number = number
BY DEF Layer, LayerRec

\* finalize_universal! does nothing, refuses, or pushes what was collected.
LEMMA FinalizedCases ==
  ASSUME NEW b \in BuilderRec
  PROVE  LET f == Finalized(b) IN
         /\ f \in BuilderRec /\ f.ports = b.ports /\ f.branch = b.branch
         /\ b.layers = <<>> => f = b
         /\ b.layers # <<>> =>
              \/ f.status = "failed" /\ f.segments = b.segments
              \/ /\ f.status = b.status /\ f.layers = <<>> /\ f.indices = 0
                 /\ f.segments = Append(b.segments, Collected(b))
<1>1. CASE b.layers = <<>>
  BY <1>1 DEF Finalized
<1>2. CASE b.layers # <<>> /\ ParamCount(b.layers) = 0
  <2>1. Finalized(b) = [b EXCEPT !.status = "failed"]
    BY <1>2 DEF Finalized
  <2> QED
    BY <1>2, <2>1 DEF BuilderRec, BuilderOf
<1>3. CASE b.layers # <<>> /\ ParamCount(b.layers) # 0
  <2>1. Finalized(b) =
          [b EXCEPT !.layers = <<>>, !.in = 0, !.out = 0, !.meant = 0, !.indices = 0,
                    !.segments = Append(@, Collected(b))]
    BY <1>3 DEF Finalized, Collected
  <2>2. Collected(b) \in SegmentRec
    BY DEF Collected, SegmentRec, BuilderRec, BuilderOf, Kinds
  <2>3. Append(b.segments, Collected(b)) \in Seq(SegmentRec)
    BY <2>2, AppendProperties DEF BuilderRec, BuilderOf
  <2>4. Finalized(b) \in BuilderRec
    BY <2>1, <2>3, EmptySeq, CollectedType
  <2>5. /\ Finalized(b).ports = b.ports /\ Finalized(b).branch = b.branch
        /\ Finalized(b).status = b.status /\ Finalized(b).layers = <<>>
        /\ Finalized(b).indices = 0 /\ Finalized(b).segments = Append(b.segments, Collected(b))
    BY <2>1 DEF BuilderRec, BuilderOf
  <2> QED
    BY <1>3, <2>4, <2>5
<1> QED
  BY <1>1, <1>2, <1>3

\* Position finds a port of that size, the first one, or answers 0.
LEMMA PositionFirst ==
  ASSUME NEW ports \in Seq(Nat), NEW size \in Nat, Len(ports) <= 2
  PROVE  LET p == Position(ports, size) IN
         /\ p \in 0 .. Len(ports) /\ p \in Nat
         /\ p # 0 => ports[p] = size /\ \A i \in 1 .. p - 1 : ports[i] # size
         /\ p = 0 => \A i \in DOMAIN ports : ports[i] # size
<1> DEFINE Found == {i \in DOMAIN ports : ports[i] = size}
<1>0. DOMAIN ports = 1 .. Len(ports) /\ Len(ports) \in 0 .. 2
  <2>1. DOMAIN ports = 1 .. Len(ports) /\ Len(ports) \in Nat
    OBVIOUS
  <2> DEFINE n == Len(ports)
  <2>2. n \in Nat /\ n <= 2
    BY <2>1
  <2> HIDE DEF n
  <2>3. n \in 0 .. 2
    BY <2>2
  <2> QED
    BY <2>1, <2>3 DEF n
<1>1. CASE Found = {}
  BY <1>0, <1>1 DEF Position
<1>2. CASE Found # {}
  <2>1. \E i \in Found : \A j \in Found : i <= j
    <3>1. CASE 1 \in Found
      BY <3>1, <1>0
    <3>2. CASE 1 \notin Found
      BY <3>2, <1>0, <1>2
    <3> QED
      BY <3>1, <3>2
  <2>2. PICK i \in Found : Position(ports, size) = i /\ \A j \in Found : i <= j
    BY <2>1, <1>2 DEF Position
  <2> QED
    BY <2>2, <1>0
<1> QED
  BY <1>1, <1>2

\* Where an ordinary layer starts a segment.
LEMMA StartBranchType ==
  ASSUME NEW b \in BuilderRec, NEW size \in Nat, Len(b.ports) <= 2
  PROVE  StartBranch(b, size) \in Nat
<1>1. b.ports \in Seq(Nat) /\ b.branch \in Nat
  BY DEF BuilderRec, BuilderOf
<1>2. Position(b.ports, size) \in Nat
  BY <1>1, PositionFirst
<1> QED
  BY <1>1, <1>2 DEF StartBranch

\* a is b with one more layer; the first one says where the segment starts.
OneLayerMore(a, b, layer, in, out, meant) ==
  /\ a \in BuilderRec
  /\ a.ports = b.ports /\ a.segments = b.segments /\ a.status = b.status
  /\ a.layers = Append(b.layers, layer) /\ a.out = out
  /\ b.layers # <<>> => /\ a.branch = b.branch /\ a.indices = b.indices
                        /\ a.in = b.in /\ a.meant = b.meant
  /\ b.layers = <<>> => /\ a.in = in /\ a.meant = meant
                        /\ b.ports = <<>> => a.indices = 0 /\ a.branch = b.branch
                        /\ b.ports # <<>> => /\ a.indices = StartBranch(b, in)
                                             /\ a.branch = StartBranch(b, in)

\* An ordinary layer is appended to those collected.
LEMMA AddLayerCases ==
  ASSUME NEW b \in BuilderRec, NEW layer \in LayerRec, NEW in \in Nat, NEW out \in Nat,
         NEW meant \in Nat, Len(b.ports) <= 2
  PROVE  OneLayerMore(AddLayer(b, layer, in, out, meant), b, layer, in, out, meant)
<1> DEFINE k == StartBranch(b, in)
           more == Append(b.layers, layer)
<1>1. k \in Nat
  BY StartBranchType
<1>2. b.layers \in Seq(LayerRec) /\ more \in Seq(LayerRec)
  BY AppendProperties DEF BuilderRec, BuilderOf
<1>3. ASSUME NEW L, NEW S, NEW c \in BuilderOf(L, S), NEW e \in L, NEW x \in Nat
      PROVE  /\ [c EXCEPT !.layers = e, !.out = out] \in BuilderOf(L, S)
             /\ [c EXCEPT !.in = in, !.meant = meant, !.indices = 0] \in BuilderOf(L, S)
             /\ [c EXCEPT !.in = in, !.meant = meant, !.branch = x, !.indices = x]
                  \in BuilderOf(L, S)
  BY DEF BuilderOf
<1> HIDE DEF k, more
<1>4. CASE b.layers # <<>>
  <2>1. AddLayer(b, layer, in, out, meant) = [b EXCEPT !.layers = more, !.out = out]
    BY <1>4 DEF AddLayer, more
  <2>2. [b EXCEPT !.layers = more, !.out = out] \in BuilderRec
    BY <1>2, <1>3 DEF BuilderRec
  <2> QED
    BY <1>4, <2>1, <2>2 DEF OneLayerMore, BuilderRec, BuilderOf, more
<1>5. CASE b.layers = <<>> /\ b.ports = <<>>
  <2> DEFINE s == [b EXCEPT !.in = in, !.meant = meant, !.indices = 0]
  <2>1. s \in BuilderRec
    BY <1>2, <1>3 DEF BuilderRec
  <2>2. /\ s.ports = b.ports /\ s.segments = b.segments /\ s.status = b.status
        /\ s.layers = b.layers /\ s.in = in /\ s.meant = meant /\ s.indices = 0
        /\ s.branch = b.branch
    BY DEF BuilderRec, BuilderOf
  <2>3. s = Started(b, in, meant)
    BY <1>5 DEF Started
  <2> HIDE DEF s
  <2>4. AddLayer(b, layer, in, out, meant) = [s EXCEPT !.layers = more, !.out = out]
    BY <1>5, <2>2, <2>3 DEF AddLayer, more
  <2>5. [s EXCEPT !.layers = more, !.out = out] \in BuilderRec
    BY <1>2, <1>3, <2>1 DEF BuilderRec
  <2> QED
    BY <1>5, <2>1, <2>2, <2>4, <2>5 DEF OneLayerMore, BuilderRec, BuilderOf, more
<1>6. CASE b.layers = <<>> /\ b.ports # <<>>
  <2> DEFINE s == [b EXCEPT !.in = in, !.meant = meant, !.branch = k, !.indices = k]
  <2>1. s \in BuilderRec
    BY <1>1, <1>2, <1>3 DEF BuilderRec
  <2>2. /\ s.ports = b.ports /\ s.segments = b.segments /\ s.status = b.status
        /\ s.layers = b.layers /\ s.in = in /\ s.meant = meant /\ s.indices = k
        /\ s.branch = k
    BY DEF BuilderRec, BuilderOf
  <2>3. s = Started(b, in, meant)
    BY <1>6 DEF Started, k
  <2> HIDE DEF s
  <2>4. AddLayer(b, layer, in, out, meant) = [s EXCEPT !.layers = more, !.out = out]
    BY <1>6, <2>2, <2>3 DEF AddLayer, more
  <2>5. [s EXCEPT !.layers = more, !.out = out] \in BuilderRec
    BY <1>2, <1>3, <2>1 DEF BuilderRec
  <2> QED
    BY <1>6, <2>1, <2>2, <2>4, <2>5 DEF OneLayerMore, BuilderRec, BuilderOf, more, k
<1> QED
  BY <1>4, <1>5, <1>6

\* A segment that stands alone is pushed, unless the plan was refused.
LEMMA PushCases ==
  ASSUME NEW b \in BuilderRec, NEW segment \in SegmentRec
  PROVE  LET p == Push(b, segment) IN
         /\ p \in BuilderRec
         /\ b.status = "failed" => p = b
         /\ b.status # "failed" =>
              /\ p.segments = Append(b.segments, segment)
              /\ p.ports = b.ports /\ p.branch = b.branch /\ p.indices = b.indices
              /\ p.layers = b.layers /\ p.status = b.status
<1> DEFINE more == Append(b.segments, segment)
<1>1. more \in Seq(SegmentRec)
  BY AppendProperties DEF BuilderRec, BuilderOf
<1>2. ASSUME NEW L, NEW S, NEW c \in BuilderOf(L, S), NEW t \in S
      PROVE  [c EXCEPT !.segments = t] \in BuilderOf(L, S)
  BY DEF BuilderOf
<1> HIDE DEF more
<1>3. [b EXCEPT !.segments = more] \in BuilderRec
  BY <1>1, <1>2 DEF BuilderRec
<1>4. b.status # "failed" => Push(b, segment) = [b EXCEPT !.segments = more]
  BY DEF Push, more
<1>5. b.status = "failed" => Push(b, segment) = b
  BY DEF Push
<1> QED
  BY <1>3, <1>4, <1>5 DEF BuilderRec, BuilderOf, more

\* Ports and branch are set by connectors and markers.
Tracked(b, ports, branch) == [b EXCEPT !.ports = ports, !.branch = branch]

\* That leaves the rest alone.
LEMMA TrackedCases ==
  ASSUME NEW b \in BuilderRec, NEW ports \in Seq(Nat), NEW branch \in Nat
  PROVE  LET p == Tracked(b, ports, branch) IN
         /\ p \in BuilderRec
         /\ p.ports = ports /\ p.branch = branch /\ p.segments = b.segments
         /\ p.layers = b.layers /\ p.status = b.status /\ p.indices = b.indices
         /\ p.in = b.in /\ p.out = b.out /\ p.meant = b.meant
<1>1. ASSUME NEW L, NEW S, NEW c \in BuilderOf(L, S)
      PROVE  Tracked(c, ports, branch) \in BuilderOf(L, S)
  BY DEF BuilderOf, Tracked
<1>2. Tracked(b, ports, branch) \in BuilderRec
  BY <1>1 DEF BuilderRec
<1> QED
  BY <1>2 DEF BuilderRec, BuilderOf, Tracked

\* a is f, which has b's ports, with the tracker a marker sets.
MarkedBy(a, f, b, sizes) ==
  /\ a \in BuilderRec
  /\ a.segments = f.segments /\ a.layers = f.layers /\ a.status = f.status
  /\ a.indices = f.indices
  /\ Len(sizes) > 1 => a.ports = sizes /\ a.branch = 0
  /\ Len(sizes) = 1 /\ b.ports = <<>> => a.ports = sizes /\ a.branch = 1
  /\ Len(sizes) = 1 /\ b.ports # <<>> =>
       /\ a.ports = b.ports
       /\ a.branch = IF Position(b.ports, sizes[1]) = 0 THEN 1 ELSE Position(b.ports, sizes[1])

\* A marker finishes what is collected and sets the tracker.
LEMMA AddMarkerCases ==
  ASSUME NEW b \in BuilderRec, NEW sizes \in Seq(Nat), sizes # <<>>, Len(b.ports) <= 2
  PROVE  MarkedBy(AddMarker(b, sizes), Finalized(b), b, sizes)
<1> DEFINE f == Finalized(b)
           found == Position(b.ports, sizes[1])
           branch == IF found = 0 THEN 1 ELSE found
<1>1. f \in BuilderRec /\ f.ports = b.ports
  BY FinalizedCases
<1>2. /\ sizes[1] \in Nat /\ Len(sizes) \in Nat /\ (Len(sizes) > 1 \/ Len(sizes) = 1)
      /\ (Len(sizes) > 1 => Len(sizes) # 1)
  <2>1. sizes[1] \in Nat /\ Len(sizes) \in Nat /\ Len(sizes) # 0
    OBVIOUS
  <2> DEFINE n == Len(sizes)
  <2>2. n \in Nat /\ n # 0
    BY <2>1
  <2> HIDE DEF n
  <2>3. (n > 1 \/ n = 1) /\ (n > 1 => n # 1)
    BY <2>2
  <2> QED
    BY <2>1, <2>3 DEF n
<1>3. branch \in Nat
  <2>1. b.ports \in Seq(Nat)
    BY DEF BuilderRec, BuilderOf
  <2>2. found \in Nat
    BY <1>2, <2>1, PositionFirst
  <2> QED
    BY <2>2
<1> HIDE DEF f
<1>4. AddMarker(b, sizes) =
        IF Len(sizes) > 1 THEN [f EXCEPT !.ports = sizes, !.branch = 0]
        ELSE IF b.ports = <<>> THEN [f EXCEPT !.ports = sizes, !.branch = 1]
        ELSE [f EXCEPT !.branch = branch]
  <2>1. CASE Len(sizes) > 1
    BY <2>1 DEF AddMarker, f
  <2>2. CASE Len(sizes) = 1 /\ b.ports = <<>>
    BY <1>1, <2>2 DEF AddMarker, f
  <2>3. CASE Len(sizes) = 1 /\ b.ports # <<>>
    <3>1. ~ (Len(sizes) > 1) /\ f.ports = b.ports /\ f.ports # <<>>
      BY <1>1, <2>3
    <3>2. AddMarker(b, sizes) =
            [f EXCEPT !.branch = IF Position(f.ports, sizes[1]) = 0 THEN 1
                                 ELSE Position(f.ports, sizes[1])]
      BY <2>3, <3>1 DEF AddMarker, f
    <3> QED
      BY <2>3, <3>1, <3>2
  <2> QED
    BY <1>2, <2>1, <2>2, <2>3
<1> HIDE DEF branch
<1>5. [f EXCEPT !.branch = branch] = [f EXCEPT !.ports = f.ports, !.branch = branch]
  BY <1>1 DEF BuilderRec, BuilderOf
<1>6. f.ports \in Seq(Nat)
  BY <1>1 DEF BuilderRec, BuilderOf
<1> DEFINE a == AddMarker(b, sizes)
<1> HIDE DEF a
<1>6t. ASSUME NEW k \in Nat, a = Tracked(f, sizes, k)
       PROVE  /\ a \in BuilderRec /\ a.segments = f.segments /\ a.layers = f.layers
              /\ a.status = f.status /\ a.indices = f.indices
              /\ a.ports = sizes /\ a.branch = k
  BY <1>1, <1>6t, TrackedCases
<1>7. CASE Len(sizes) > 1
  <2>1. a = Tracked(f, sizes, 0)
    BY <1>4, <1>7 DEF a, Tracked
  <2>2. /\ a \in BuilderRec /\ a.segments = f.segments /\ a.layers = f.layers
        /\ a.status = f.status /\ a.indices = f.indices /\ a.ports = sizes /\ a.branch = 0
    BY <1>6t, <2>1
  <2> QED
    BY <1>2, <1>7, <2>2 DEF a, f, MarkedBy
<1>8. CASE Len(sizes) = 1 /\ b.ports = <<>>
  <2>1. a = Tracked(f, sizes, 1)
    BY <1>4, <1>8 DEF a, Tracked
  <2>2. /\ a \in BuilderRec /\ a.segments = f.segments /\ a.layers = f.layers
        /\ a.status = f.status /\ a.indices = f.indices /\ a.ports = sizes /\ a.branch = 1
    BY <1>6t, <2>1
  <2> QED
    BY <1>8, <2>2 DEF a, f, MarkedBy
<1>9. CASE Len(sizes) = 1 /\ b.ports # <<>>
  <2>1. a = Tracked(f, f.ports, branch)
    BY <1>4, <1>5, <1>9 DEF a, Tracked
  <2>2. /\ a \in BuilderRec /\ a.segments = f.segments /\ a.layers = f.layers
        /\ a.status = f.status /\ a.indices = f.indices
        /\ a.ports = b.ports /\ a.branch = branch
    BY <1>1, <1>3, <1>6, <2>1, TrackedCases
  <2> QED
    BY <1>9, <2>2 DEF a, f, branch, MarkedBy
<1> QED
  BY <1>2, <1>7, <1>8, <1>9

\* A segment of its own comes after what was collected.
LEMMA AloneCases ==
  ASSUME NEW b \in BuilderRec, NEW segment \in SegmentRec, b.status # "failed",
         b.layers = <<>> => b.indices = 0
  PROVE  LET f == Finalized(b)
             p == Push(f, segment)
         IN
         /\ p \in BuilderRec /\ p.ports = b.ports /\ p.branch = b.branch
         /\ p.status = f.status
         /\ f.status = "failed" => p.segments = b.segments
         /\ f.status # "failed" =>
              /\ p.status = b.status /\ f.layers = <<>> /\ f.indices = 0
              /\ p.segments = Append(f.segments, segment)
              /\ p.layers = <<>> /\ p.indices = 0
BY FinalizedCases, PushCases

-----------------------------------------------------------------------------
(* The order of the layers                                                 *)

\* The lists of layers of a pass: those of its segments, then those collected.
View(b) ==
  [i \in 1 .. Len(b.segments) + 1 |->
     IF i \in DOMAIN b.segments THEN b.segments[i].layers ELSE b.layers]

\* The first m lists hold the layers 1 .. n once each and in order.
Ordered(lists, m, n) ==
  /\ \A i \in 1 .. m : \A j \in DOMAIN lists[i] : lists[i][j].number \in 1 .. n
  /\ \A x \in 1 .. n : \E i \in 1 .. m : \E j \in DOMAIN lists[i] : lists[i][j].number = x
  /\ \A i, k \in 1 .. m : \A j \in DOMAIN lists[i], l \in DOMAIN lists[k] :
       lists[i][j].number < lists[k][l].number <=> i < k \/ (i = k /\ j < l)

InOrder(b, n) == Ordered(View(b), Len(b.segments) + 1, n)

\* The next layer may be appended to the last list.
LEMMA OneMore ==
  ASSUME NEW m \in Nat \ {0}, NEW n \in Nat, NEW lists, NEW more,
         \A i \in 1 .. m : lists[i] \in Seq(LayerRec),
         NEW x \in LayerRec, x.number = n + 1,
         \A i \in 1 .. m - 1 : more[i] = lists[i],
         more[m] = Append(lists[m], x),
         Ordered(lists, m, n)
  PROVE  Ordered(more, m, n + 1)
<1> DEFINE s == lists[m]
           k == Len(s)
<1>1. s \in Seq(LayerRec) /\ k \in Nat /\ DOMAIN s = 1 .. k
  OBVIOUS
<1>2. /\ more[m] \in Seq(LayerRec) /\ DOMAIN more[m] = 1 .. k + 1
      /\ \A j \in 1 .. k : more[m][j] = s[j]
      /\ more[m][k + 1] = x
  BY <1>1, AppendProperties
<1> HIDE DEF k
<1>3. \A i \in 1 .. m : DOMAIN lists[i] = 1 .. Len(lists[i]) /\ Len(lists[i]) \in Nat
  OBVIOUS
<1>o. /\ \A i \in 1 .. m : \A j \in DOMAIN lists[i] : lists[i][j].number \in 1 .. n
      /\ \A y \in 1 .. n :
           \E i \in 1 .. m : \E j \in DOMAIN lists[i] : lists[i][j].number = y
      /\ \A i, h \in 1 .. m : \A j \in DOMAIN lists[i], l \in DOMAIN lists[h] :
           lists[i][j].number < lists[h][l].number <=> i < h \/ (i = h /\ j < l)
  BY DEF Ordered
<1>4. ASSUME NEW i \in 1 .. m, NEW j \in DOMAIN more[i]
      PROVE
        \/ i = m /\ j = k + 1 /\ more[i][j].number = n + 1
        \/ j \in DOMAIN lists[i] /\ more[i][j] = lists[i][j] /\ lists[i][j].number \in 1 .. n
           /\ (i = m => j < k + 1)
  <2>1. CASE i = m /\ j = k + 1
    BY <1>2, <2>1
  <2>2. CASE i = m /\ j \in 1 .. k
    <3>1. j \in DOMAIN lists[m] /\ more[m][j] = lists[m][j] /\ j < k + 1
      BY <1>1, <1>2, <2>2
    <3> QED
      BY <1>o, <2>2, <3>1
  <2>3. CASE i # m
    <3>1. i \in 1 .. m - 1
      BY <2>3
    <3> QED
      BY <1>o, <2>3, <3>1
  <2> QED
    BY <1>1, <1>2, <2>1, <2>2, <2>3
<1>5. ASSUME NEW i \in 1 .. m, NEW j \in DOMAIN lists[i]
      PROVE  j \in DOMAIN more[i] /\ more[i][j] = lists[i][j] /\ j \in Nat
  <2>1. CASE i = m
    BY <1>1, <1>2, <2>1
  <2>2. CASE i # m
    <3>1. i \in 1 .. m - 1
      BY <2>2
    <3> QED
      BY <1>3, <3>1
  <2> QED
    BY <2>1, <2>2
<1>6. ASSUME NEW i \in 1 .. m, NEW j \in DOMAIN more[i]
      PROVE  more[i][j].number \in 1 .. n + 1
  BY <1>4
<1>7. ASSUME NEW y \in 1 .. n + 1
      PROVE  \E i \in 1 .. m : \E j \in DOMAIN more[i] : more[i][j].number = y
  <2>1. CASE y = n + 1
    <3>1. m \in 1 .. m /\ k + 1 \in DOMAIN more[m] /\ more[m][k + 1].number = n + 1
      BY <1>1, <1>2
    <3> QED
      BY <2>1, <3>1
  <2>2. CASE y \in 1 .. n
    <3>1. PICK i \in 1 .. m : \E j \in DOMAIN lists[i] : lists[i][j].number = y
      BY <1>o, <2>2
    <3> QED
      BY <1>5, <3>1
  <2> QED
    BY <2>1, <2>2
<1>8. ASSUME NEW i \in 1 .. m, NEW h \in 1 .. m, NEW j \in DOMAIN more[i],
             NEW l \in DOMAIN more[h]
      PROVE  more[i][j].number < more[h][l].number <=> i < h \/ (i = h /\ j < l)
  <2>1. CASE j \in DOMAIN lists[i] /\ l \in DOMAIN lists[h]
    <3>1. more[i][j] = lists[i][j] /\ more[h][l] = lists[h][l]
      BY <1>5, <2>1
    <3> QED
      BY <1>o, <2>1, <3>1
  <2>2. CASE i = m /\ j = k + 1
    BY <1>1, <1>2, <1>4, <2>2
  <2>3. CASE h = m /\ l = k + 1 /\ ~ (i = m /\ j = k + 1)
    <3>1. /\ more[h][l].number = n + 1
          /\ more[i][j].number \in 1 .. n /\ (i = m => j < k + 1)
      BY <1>1, <1>2, <1>4, <2>3
    <3> QED
      BY <2>3, <3>1
  <2> QED
    BY <1>4, <2>1, <2>2, <2>3
<1> QED
  BY <1>6, <1>7, <1>8 DEF Ordered

\* An empty list at the end changes nothing.
LEMMA OneEmpty ==
  ASSUME NEW m \in Nat \ {0}, NEW n \in Nat, NEW lists, NEW more,
         \A i \in 1 .. m : more[i] = lists[i],
         more[m + 1] = <<>>,
         Ordered(lists, m, n)
  PROVE  Ordered(more, m + 1, n)
<1>1. \A i \in 1 .. m + 1 : \A j \in DOMAIN more[i] : i \in 1 .. m /\ j \in DOMAIN lists[i]
  OBVIOUS
<1>2. \A i \in 1 .. m : \A j \in DOMAIN lists[i] : i \in 1 .. m + 1 /\ j \in DOMAIN more[i]
  OBVIOUS
<1>3. ASSUME NEW i \in 1 .. m + 1, NEW j \in DOMAIN more[i]
      PROVE  more[i][j].number \in 1 .. n
  <2>1. i \in 1 .. m /\ j \in DOMAIN lists[i] /\ more[i] = lists[i]
    BY <1>1
  <2>2. \A h \in 1 .. m : \A l \in DOMAIN lists[h] : lists[h][l].number \in 1 .. n
    BY DEF Ordered
  <2> QED
    BY <2>1, <2>2
<1>4. ASSUME NEW x \in 1 .. n
      PROVE  \E i \in 1 .. m + 1 : \E j \in DOMAIN more[i] : more[i][j].number = x
  <2>1. PICK i \in 1 .. m : \E j \in DOMAIN lists[i] : lists[i][j].number = x
    BY DEF Ordered
  <2> QED
    BY <1>2, <2>1
<1>5. ASSUME NEW i \in 1 .. m + 1, NEW k \in 1 .. m + 1, NEW j \in DOMAIN more[i],
             NEW l \in DOMAIN more[k]
      PROVE  more[i][j].number < more[k][l].number <=> i < k \/ (i = k /\ j < l)
  BY <1>1 DEF Ordered
<1> QED
  BY <1>3, <1>4, <1>5 DEF Ordered

\* finalize_universal! puts what was collected where it belongs.
LEMMA FinalizedInOrder ==
  ASSUME NEW b \in BuilderRec, NEW n \in Nat, InOrder(b, n), Finalized(b).status # "failed"
  PROVE  InOrder(Finalized(b), n)
<1> DEFINE f == Finalized(b)
           m == Len(b.segments) + 1
<1>1. CASE b.layers = <<>>
  BY <1>1, FinalizedCases
<1>2. CASE b.layers # <<>>
  <2>1. f.layers = <<>> /\ f.segments = Append(b.segments, Collected(b))
    BY <1>2, FinalizedCases
  <2>2. b.segments \in Seq(SegmentRec) /\ Collected(b) \in SegmentRec
    BY DEF BuilderRec, BuilderOf, Collected, SegmentRec, Kinds
  <2>3. Collected(b).layers = b.layers
    BY DEF Collected
  <2> HIDE DEF f
  <2>4. /\ Len(f.segments) = m /\ m \in Nat \ {0} /\ f.segments[m] = Collected(b)
        /\ DOMAIN f.segments = 1 .. m /\ DOMAIN b.segments = 1 .. m - 1
        /\ \A i \in 1 .. m - 1 : f.segments[i] = b.segments[i]
    BY <2>1, <2>2, AppendProperties
  <2> HIDE DEF m
  <2>5. \A i \in 1 .. m : View(f)[i] = View(b)[i]
    BY <2>3, <2>4 DEF View, m
  <2>6. View(f)[m + 1] = <<>>
    BY <2>1, <2>4 DEF View
  <2>7. Ordered(View(f), m + 1, n)
    BY <2>4, <2>5, <2>6, OneEmpty DEF InOrder, m
  <2> QED
    BY <2>4, <2>7 DEF InOrder, f
<1> QED
  BY <1>1, <1>2

\* A layer appended to those collected is the last of all.
LEMMA AppendedInOrder ==
  ASSUME NEW b \in BuilderRec, NEW c \in BuilderRec, NEW n \in Nat, InOrder(b, n),
         NEW x \in LayerRec, x.number = n + 1,
         c.segments = b.segments, c.layers = Append(b.layers, x)
  PROVE  InOrder(c, n + 1)
<1> DEFINE m == Len(b.segments) + 1
<1>1. /\ b.segments \in Seq(SegmentRec) /\ b.layers \in Seq(LayerRec)
      /\ \A s \in SegmentRec : s.layers \in Seq(LayerRec)
  BY DEF BuilderRec, BuilderOf, SegmentRec
<1>2. DOMAIN b.segments = 1 .. m - 1 /\ m \in Nat \ {0}
  BY <1>1
<1> HIDE DEF m
<1>3. \A i \in 1 .. m : View(b)[i] \in Seq(LayerRec)
  BY <1>1, <1>2, ElementOfSeq DEF View, m
<1>4. \A i \in 1 .. m - 1 : View(c)[i] = View(b)[i]
  BY <1>2 DEF View, m
<1>5. View(b)[m] = b.layers /\ View(c)[m] = c.layers
  BY <1>2 DEF View, m
<1>6. Ordered(View(c), m, n + 1)
  BY <1>2, <1>3, <1>4, <1>5, OneMore DEF InOrder, m
<1> QED
  BY <1>6 DEF InOrder, m

\* A segment of one new layer comes after all others when nothing is collected.
LEMMA AloneInOrder ==
  ASSUME NEW b \in BuilderRec, NEW c \in BuilderRec, NEW n \in Nat, InOrder(b, n),
         NEW s \in SegmentRec, NEW x \in LayerRec, s.layers = <<x>>, x.number = n + 1,
         b.layers = <<>>, c.segments = Append(b.segments, s), c.layers = <<>>
  PROVE  InOrder(c, n + 1)
<1> DEFINE m == Len(b.segments) + 1
           middle == [i \in 1 .. m |-> IF i = m THEN <<x>> ELSE View(b)[i]]
<1>1. /\ b.segments \in Seq(SegmentRec) /\ b.layers \in Seq(LayerRec)
      /\ \A t \in SegmentRec : t.layers \in Seq(LayerRec)
  BY DEF BuilderRec, BuilderOf, SegmentRec
<1>2. DOMAIN b.segments = 1 .. m - 1 /\ m \in Nat \ {0}
  BY <1>1
<1>2a. /\ Len(c.segments) = m /\ DOMAIN c.segments = 1 .. m /\ c.segments[m] = s
       /\ \A i \in 1 .. m - 1 : c.segments[i] = b.segments[i]
  BY <1>1, AppendProperties
<1> HIDE DEF m
<1>3. \A i \in 1 .. m : View(b)[i] \in Seq(LayerRec)
  BY <1>1, <1>2, ElementOfSeq DEF View, m
<1>4. View(b)[m] = <<>> /\ middle[m] = Append(<<>>, x)
  BY <1>2 DEF View, m
<1>5. \A i \in 1 .. m - 1 : middle[i] = View(b)[i]
  BY <1>2
<1>6. Ordered(middle, m, n + 1)
  <2> HIDE DEF middle
  <2> QED
    BY <1>2, <1>3, <1>4, <1>5, OneMore DEF InOrder, m
<1>7. /\ \A i \in 1 .. m : View(c)[i] = middle[i]
      /\ View(c)[m + 1] = <<>>
  <2>1. ASSUME NEW i \in 1 .. m - 1 PROVE View(c)[i] = middle[i]
    <3>1. View(c)[i] = c.segments[i].layers
      BY <1>2, <1>2a DEF View
    <3>2. View(b)[i] = b.segments[i].layers
      BY <1>2 DEF View, m
    <3>3. c.segments[i] = b.segments[i]
      BY <1>2a
    <3>4. middle[i] = View(b)[i]
      BY <1>5
    <3> QED
      BY <3>1, <3>2, <3>3, <3>4, Zenon
  <2>2. View(c)[m] = middle[m]
    <3>1. View(c)[m] = c.segments[m].layers
      BY <1>2, <1>2a DEF View
    <3>2. middle[m] = <<x>>
      BY <1>2
    <3> QED
      BY <1>2a, <3>1, <3>2, Zenon
  <2>3. View(c)[m + 1] = <<>>
    BY <1>2, <1>2a DEF View
  <2>4. \A i \in 1 .. m : i = m \/ i \in 1 .. m - 1
    BY <1>2
  <2> HIDE DEF middle
  <2> QED
    BY <2>1, <2>2, <2>3, <2>4
<1> HIDE DEF middle
<1>8. Ordered(View(c), m + 1, n + 1)
  BY <1>2, <1>6, <1>7, OneEmpty
<1> QED
  BY <1>2a, <1>8 DEF InOrder

\* The order says nothing of the rest of the pass.
LEMMA SameOrder ==
  ASSUME NEW b, NEW c, NEW n, InOrder(b, n), c.segments = b.segments, c.layers = b.layers
  PROVE  InOrder(c, n)
BY DEF InOrder, View

-----------------------------------------------------------------------------
(* The streams of the plan                                                 *)

Routed(b) ==
  \A i \in DOMAIN b.segments :
    OnOneStream(b.segments[i]) => StreamIndex(b.segments[i]) = b.segments[i].meant

\* A segment that is no dimension operation between planes.
Plain(s) == s.kind \in DimOps => Len(s.in) = 1 /\ Len(s.out) = 1

\* Segment s turns streams of sizes y into streams of sizes z; between planes
\* the author alone knows the size that comes out.
Carries(s, y, z) ==
  IF OnOneStream(s)
  THEN /\ StreamIndex(s) \in DOMAIN y
       /\ IF Plain(s)
          THEN /\ y[StreamIndex(s)] = s.in[1]
               /\ z = [y EXCEPT ![StreamIndex(s)] = s.out[1]]
          ELSE \E n \in Nat : z = [y EXCEPT ![StreamIndex(s)] = n]
  ELSE y = s.in /\ z = s.out

\* flow has the sizes of the streams after each segment, from one stream on.
FlowOf(segs, flow) ==
  /\ flow \in [Nat -> Seq(Nat)] /\ Len(flow[0]) = 1
  /\ \A i \in DOMAIN segs : Carries(segs[i], flow[i - 1], flow[i])

FlowsTo(segs, z) == \E flow : FlowOf(segs, flow) /\ flow[Len(segs)] = z

\* What is being collected turns sizes z into those the author sees.
EndsIn(b, z, sizes) ==
  IF b.layers = <<>> THEN z = sizes
  ELSE /\ b.meant \in DOMAIN z /\ b.in = z[b.meant]
       /\ sizes = [z EXCEPT ![b.meant] = b.out]

\* The segment being collected is on the stream it is described for.
OnItsStream(b) == b.layers # <<>> => StreamIndex(Collected(b)) = b.meant

\* One segment more.
LEMMA RoutedMore ==
  ASSUME NEW b \in BuilderRec, NEW c, NEW s \in SegmentRec, Routed(b),
         c.segments = Append(b.segments, s), OnOneStream(s) => StreamIndex(s) = s.meant
  PROVE  Routed(c)
<1>1. b.segments \in Seq(SegmentRec)
  BY DEF BuilderRec, BuilderOf
<1> DEFINE n == Len(b.segments)
<1>2. /\ n \in Nat /\ DOMAIN b.segments = 1 .. n /\ DOMAIN c.segments = 1 .. n + 1
      /\ \A i \in 1 .. n : c.segments[i] = b.segments[i]
      /\ c.segments[n + 1] = s
  BY <1>1, AppendProperties
<1> HIDE DEF n
<1> SUFFICES ASSUME NEW i \in 1 .. n + 1, OnOneStream(c.segments[i])
             PROVE  StreamIndex(c.segments[i]) = c.segments[i].meant
  BY <1>2 DEF Routed
<1>3. CASE i \in 1 .. n
  BY <1>2, <1>3 DEF Routed
<1>4. CASE i = n + 1
  BY <1>2, <1>4
<1> QED
  BY <1>2, <1>3, <1>4

\* One segment more on the way of the sizes.
LEMMA FlowMore ==
  ASSUME NEW segs \in Seq(SegmentRec), NEW s \in SegmentRec, NEW y, NEW z \in Seq(Nat),
         FlowsTo(segs, y), Carries(s, y, z)
  PROVE  FlowsTo(Append(segs, s), z)
<1> DEFINE n == Len(segs)
           more == Append(segs, s)
<1>1. /\ n \in Nat /\ DOMAIN segs = 1 .. n /\ DOMAIN more = 1 .. n + 1 /\ Len(more) = n + 1
      /\ \A i \in 1 .. n : more[i] = segs[i]
      /\ more[n + 1] = s
  BY AppendProperties
<1>2. PICK flow : FlowOf(segs, flow) /\ flow[n] = y
  BY DEF FlowsTo
<1> DEFINE next == [flow EXCEPT ![n + 1] = z]
<1> HIDE DEF n, more
<1>3. /\ flow \in [Nat -> Seq(Nat)] /\ Len(flow[0]) = 1
      /\ \A i \in 1 .. n : Carries(segs[i], flow[i - 1], flow[i])
  BY <1>1, <1>2 DEF FlowOf
<1>4. /\ next \in [Nat -> Seq(Nat)] /\ next[n + 1] = z
      /\ \A i \in 0 .. n : next[i] = flow[i]
  BY <1>1, <1>3
<1> HIDE DEF next
<1>5. Len(next[0]) = 1
  BY <1>1, <1>3, <1>4
<1>6. ASSUME NEW i \in 1 .. n + 1
      PROVE  Carries(more[i], next[i - 1], next[i])
  <2>1. CASE i \in 1 .. n
    <3>0. i \in 0 .. n /\ i - 1 \in 0 .. n
      BY <1>1, <2>1
    <3>1. next[i] = flow[i] /\ next[i - 1] = flow[i - 1] /\ more[i] = segs[i]
      BY <1>1, <1>4, <2>1, <3>0
    <3> QED
      BY <1>3, <2>1, <3>1
  <2>2. CASE i = n + 1
    <3>0. i - 1 = n /\ n \in 0 .. n
      BY <1>1, <2>2
    <3>1. next[i] = z /\ next[i - 1] = y /\ more[i] = s
      BY <1>1, <1>2, <1>4, <2>2, <3>0
    <3> QED
      BY <3>1
  <2> QED
    BY <1>1, <2>1, <2>2
<1>7. FlowOf(more, next)
  BY <1>1, <1>4, <1>5, <1>6 DEF FlowOf
<1> QED
  BY <1>1, <1>4, <1>7 DEF FlowsTo, more

\* finalize_universal! leaves every segment on its stream.
LEMMA FinalizedRouted ==
  ASSUME NEW b \in BuilderRec, Routed(b), OnItsStream(b)
  PROVE  Routed(Finalized(b))
<1> DEFINE f == Finalized(b)
<1>1. CASE b.layers = <<>>
  BY <1>1, FinalizedCases
<1>2. CASE b.layers # <<>> /\ f.segments = b.segments
  BY <1>2 DEF Routed
<1>3. CASE b.layers # <<>> /\ f.segments = Append(b.segments, Collected(b))
  <2>1. Collected(b) \in SegmentRec /\ Collected(b).meant = b.meant
    BY DEF BuilderRec, BuilderOf, Collected, SegmentRec, Kinds
  <2> QED
    BY <1>3, <2>1, RoutedMore DEF OnItsStream
<1> QED
  BY <1>1, <1>2, <1>3, FinalizedCases

\* The sizes are then those the author sees.
LEMMA FinalizedFlow ==
  ASSUME NEW b \in BuilderRec, OnItsStream(b), Finalized(b).status # "failed",
         NEW z \in Seq(Nat), NEW sizes \in Seq(Nat), FlowsTo(b.segments, z), EndsIn(b, z, sizes)
  PROVE  FlowsTo(Finalized(b).segments, sizes)
<1> DEFINE f == Finalized(b)
<1>1. CASE b.layers = <<>>
  BY <1>1, FinalizedCases DEF EndsIn
<1>2. CASE b.layers # <<>>
  <2>1. f.segments = Append(b.segments, Collected(b))
    BY <1>2, FinalizedCases
  <2>2. Collected(b) \in SegmentRec /\ b.segments \in Seq(SegmentRec)
    BY DEF BuilderRec, BuilderOf, Collected, SegmentRec, Kinds
  <2>3. /\ OnOneStream(Collected(b)) /\ Collected(b).in[1] = b.in
        /\ Collected(b).out[1] = b.out /\ Plain(Collected(b))
    BY DEF OnOneStream, Collected, Plain, DimOps
  <2>4. Carries(Collected(b), z, sizes)
    BY <1>2, <2>3 DEF Carries, EndsIn, OnItsStream
  <2> HIDE DEF f
  <2>5. FlowsTo(f.segments, sizes)
    BY <2>1, <2>2, <2>4, FlowMore
  <2> QED
    BY <2>5 DEF f
<1> QED
  BY <1>1, <1>2

-----------------------------------------------------------------------------
(* The invariant                                                           *)

\* What the author sees, and what the code has of it.
Shape ==
  /\ builder \in BuilderRec /\ open \in Seq(Nat) /\ named \in Seq(Nat)
  /\ clear \in BOOLEAN /\ described \in Nat /\ focus \in Nat
  /\ builder.status = "building" =>
       /\ \/ /\ Len(open) = 1 /\ named = <<>> /\ focus = 1
             /\ Len(builder.ports) <= 1 /\ builder.branch \in {0, 1}
          \/ Len(open) = 2 /\ Len(named) = 2 /\ builder.ports = named /\ focus \in {0, 1, 2}
       /\ builder.layers = <<>> => builder.indices = 0

OrderInv == builder.status # "failed" => InOrder(builder, described)

\* The tracker points at the stream in focus, what is collected belongs to one.
TrackerInv ==
  clear /\ builder.status = "building" =>
    /\ Split /\ focus # 0 => builder.branch = focus
    /\ OnItsStream(builder)
    /\ builder.layers # <<>> /\ focus # 0 => builder.meant = focus

FlowInv ==
  clear /\ builder.status # "failed" =>
    \E z \in Seq(Nat) :
      /\ FlowsTo(builder.segments, z)
      /\ builder.status = "building" => EndsIn(builder, z, open)
      /\ builder.status = "built" => Len(z) = 1

BuilderInv ==
  Shape /\ OrderInv /\ (clear => Routed(builder)) /\ TrackerInv /\ FlowInv

\* Nothing is described yet.
LEMMA BuilderInvInit == BuilderInit => BuilderInv
<1> SUFFICES ASSUME BuilderInit PROVE BuilderInv
  OBVIOUS
<1>1. PICK n \in Sizes : open = <<n>>
  BY DEF BuilderInit
<1>2. n \in Nat
  BY BuilderAssumption
<1>3. /\ builder.segments = <<>> /\ builder.layers = <<>> /\ builder.ports = <<>>
      /\ builder.branch = 0 /\ builder.indices = 0 /\ builder.status = "building"
      /\ focus = 1 /\ named = <<>> /\ described = 0
  BY DEF BuilderInit, EmptyBuilder
<1>4. Shape
  <2>1. builder \in BuilderRec
    BY DEF BuilderInit, EmptyBuilder, BuilderRec, BuilderOf
  <2> QED
    BY <1>1, <1>2, <1>3, <2>1 DEF Shape, BuilderInit
<1>5. OrderInv
  BY <1>3 DEF OrderInv, InOrder, Ordered, View
<1>6. Routed(builder)
  BY <1>3 DEF Routed
<1>7. TrackerInv
  BY <1>1, <1>3 DEF TrackerInv, OnItsStream, Split
<1>8. FlowInv
  <2> DEFINE flow == [i \in Nat |-> <<n>>]
  <2>1. flow \in [Nat -> Seq(Nat)] /\ flow[0] = <<n>> /\ Len(<<n>>) = 1
    BY <1>2
  <2> HIDE DEF flow
  <2>2. FlowOf(builder.segments, flow)
    BY <1>3, <2>1 DEF FlowOf
  <2>3. FlowsTo(builder.segments, <<n>>)
    BY <1>3, <2>1, <2>2 DEF FlowsTo
  <2> QED
    <3>1. <<n>> \in Seq(Nat) /\ EndsIn(builder, <<n>>, open)
      BY <1>1, <1>2, <1>3 DEF EndsIn
    <3> QED
      BY <1>3, <2>3, <3>1 DEF FlowInv
<1> QED
  BY <1>4, <1>5, <1>6, <1>7, <1>8 DEF BuilderInv

\* Two sizes name two streams, at most.
LEMMA PortsBound ==
  ASSUME Shape, builder.status = "building"
  PROVE  /\ Len(builder.ports) <= 2
         /\ Len(open) \in {1, 2} /\ DOMAIN open = 1 .. Len(open)
         /\ (Split => builder.ports = named /\ Len(named) = 2 /\ builder.ports # <<>>)
         /\ (~ Split => Len(open) = 1)
         /\ focus \in 0 .. Len(open)
<1>1. builder.ports \in Seq(Nat)
  BY DEF Shape, BuilderRec, BuilderOf
<1>2. CASE Len(open) = 1
  <2>1. Len(builder.ports) \in Nat /\ Len(builder.ports) <= 1 /\ focus = 1
    BY <1>1, <1>2 DEF Shape
  <2>2. Len(builder.ports) <= 2
    BY <2>1
  <2> QED
    BY <1>2, <2>1, <2>2 DEF Shape, Split
<1>3. CASE Len(open) = 2
  <2>1. /\ Len(named) = 2 /\ builder.ports = named /\ focus \in {0, 1, 2}
        /\ DOMAIN open = 1 .. Len(open)
    BY <1>3 DEF Shape
  <2>2. Len(builder.ports) = 2 /\ builder.ports # <<>>
    BY <2>1
  <2>3. focus \in 0 .. 2 /\ Split /\ Len(open) = 2
    BY <1>3, <2>1 DEF Split
  <2>4. Len(builder.ports) <= 2 /\ Len(open) \in {1, 2} /\ focus \in 0 .. Len(open)
    BY <2>2, <2>3
  <2> QED
    BY <2>1, <2>2, <2>3, <2>4
<1> QED
  BY <1>2, <1>3 DEF Shape

\* The tracker knows the stream of a layer whose size leads there.
LEMMA StartsInFocus ==
  ASSUME Shape, TrackerInv, clear, builder.status = "building",
         focus # 0, LeadsTo(focus, open[focus]), builder.ports # <<>>
  PROVE  StartBranch(builder, open[focus]) = focus
<1> DEFINE size == open[focus]
           found == Position(builder.ports, size)
<1>1. builder.ports \in Seq(Nat) /\ builder.branch \in Nat
  BY DEF Shape, BuilderRec, BuilderOf
<1>2. size \in Nat
  BY PortsBound DEF Shape
<1>3. CASE Len(open) = 1
  <2>1. focus = 1 /\ Len(builder.ports) <= 1 /\ builder.branch \in {0, 1}
    BY <1>3 DEF Shape
  <2>2. found \in 0 .. Len(builder.ports) /\ found \in Nat
    BY <1>1, <1>2, PortsBound, PositionFirst
  <2>3. found \in {0, 1}
    <3> DEFINE n == Len(builder.ports)
    <3>1. n \in Nat /\ n <= 1 /\ found \in 0 .. n
      BY <1>1, <2>1, <2>2
    <3> HIDE DEF n, found
    <3> QED
      BY <3>1
  <2> HIDE DEF found
  <2> QED
    BY <2>1, <2>3 DEF StartBranch, found
<1>4. CASE Len(open) = 2
  <2>1. /\ Split /\ builder.ports = named /\ Len(named) = 2 /\ focus \in {1, 2}
        /\ builder.branch = focus /\ DOMAIN named = 1 .. 2
    BY <1>4 DEF Shape, Split, TrackerInv
  <2>2. /\ found \in 0 .. 2
        /\ found # 0 => named[found] = size /\ \A i \in 1 .. found - 1 : named[i] # size
        /\ found = 0 => \A i \in 1 .. 2 : named[i] # size
    <3> DEFINE ports == builder.ports
    <3>1. Len(ports) <= 2 /\ ports \in Seq(Nat)
      BY <1>1, PortsBound
    <3>2. Len(ports) = 2 /\ DOMAIN ports = 1 .. 2 /\ ports = named
      BY <2>1
    <3> HIDE DEF ports, size
    <3>3. LET p == Position(ports, size) IN
            /\ p \in 0 .. Len(ports) /\ p \in Nat
            /\ p # 0 => ports[p] = size /\ \A i \in 1 .. p - 1 : ports[i] # size
            /\ p = 0 => \A i \in DOMAIN ports : ports[i] # size
      BY <1>2, <3>1, PositionFirst
    <3> QED
      BY <3>2, <3>3 DEF ports
  <2>3. IF focus = 1 THEN size = named[1] \/ size # named[2] ELSE size # named[1]
    BY <2>1 DEF LeadsTo
  <2> HIDE DEF found, size
  <2>4. found = focus \/ found = 0
    <3>1. found \in {0, 1, 2}
      BY <2>2
    <3>2. found = 2 => named[2] = size /\ named[1] # size
      BY <2>2
    <3>3. found = 1 => named[1] = size
      BY <2>2
    <3> QED
      BY <2>1, <2>3, <3>1, <3>2, <3>3
  <2> QED
    BY <2>1, <2>4 DEF StartBranch, found, size
<1> QED
  BY <1>3, <1>4 DEF Shape

\* With one stream there is one branch to start in.
LEMMA StartsAlone ==
  ASSUME Shape, builder.status = "building", ~ Split, NEW size \in Nat
  PROVE  /\ Position(builder.ports, size) \in {0, 1}
         /\ StartBranch(builder, size) = 1
<1> DEFINE found == Position(builder.ports, size)
           n == Len(builder.ports)
<1>1. builder.ports \in Seq(Nat) /\ builder.branch \in {0, 1} /\ n \in Nat /\ n <= 1
  BY DEF Shape, BuilderRec, BuilderOf, Split
<1>2. found \in 0 .. n /\ found \in Nat
  BY <1>1, PortsBound, PositionFirst
<1> HIDE DEF n, found
<1>3. found \in {0, 1}
  BY <1>1, <1>2
<1> QED
  BY <1>1, <1>3 DEF StartBranch, found

-----------------------------------------------------------------------------
(* One step of the pass                                                    *)

\* What DescribeLinear and DescribeSoftmax do.
LayerStep(layer, out) ==
  /\ Plannable /\ focus # 0 /\ layer.number = Number
  /\ builder' = AddLayer(builder, layer, open[focus], out, focus)
  /\ clear' = (clear /\ LeadsTo(focus, open[focus]))
  /\ open' = [open EXCEPT ![focus] = out] /\ described' = Number
  /\ focus' = focus /\ named' = named

\* An ordinary layer is collected on the stream in focus.
LEMMA LayerKeeps ==
  ASSUME BuilderInv, NEW layer \in LayerRec, NEW out \in Nat, LayerStep(layer, out)
  PROVE  BuilderInv'
<1> DEFINE in == open[focus]
<1>0. /\ Plannable /\ focus # 0 /\ layer.number = Number /\ described' = Number
      /\ focus' = focus /\ named' = named
      /\ clear' = (clear /\ LeadsTo(focus, in)) /\ open' = [open EXCEPT ![focus] = out]
      /\ builder' = AddLayer(builder, layer, in, out, focus)
  BY DEF LayerStep
<1>1. /\ builder \in BuilderRec /\ builder.status = "building" /\ Shape /\ TrackerInv
      /\ open \in Seq(Nat) /\ focus \in Nat /\ described \in Nat /\ Len(builder.ports) <= 2
      /\ builder.layers \in Seq(LayerRec)
  BY <1>0, PortsBound DEF BuilderInv, Shape, Plannable, BuilderRec, BuilderOf
<1>2. focus \in DOMAIN open /\ in \in Nat
  BY <1>0, <1>1, PortsBound
<1>3. /\ builder' \in BuilderRec
      /\ builder'.ports = builder.ports /\ builder'.segments = builder.segments
      /\ builder'.status = builder.status
      /\ builder'.layers = Append(builder.layers, layer) /\ builder'.out = out
      /\ builder.layers # <<>> =>
           /\ builder'.branch = builder.branch /\ builder'.indices = builder.indices
           /\ builder'.in = builder.in /\ builder'.meant = builder.meant
      /\ builder.layers = <<>> =>
           /\ builder'.in = in /\ builder'.meant = focus
           /\ builder.ports = <<>> => builder'.indices = 0 /\ builder'.branch = builder.branch
           /\ builder.ports # <<>> => /\ builder'.indices = StartBranch(builder, in)
                                      /\ builder'.branch = StartBranch(builder, in)
  <2>1. /\ builder' = AddLayer(builder, layer, in, out, focus)
        /\ builder \in BuilderRec /\ Len(builder.ports) <= 2 /\ focus \in Nat /\ in \in Nat
    BY <1>0, <1>1, <1>2
  <2> HIDE DEF in
  <2>2. OneLayerMore(builder', builder, layer, in, out, focus)
    BY <2>1, AddLayerCases
  <2> QED
    BY <2>2 DEF OneLayerMore
<1>4. builder'.layers # <<>>
  BY <1>1, <1>3, AppendProperties
<1>5. open' \in Seq(Nat) /\ Len(open') = Len(open) /\ DOMAIN open' = DOMAIN open
  BY <1>0, <1>1, <1>2
<1>6. Shape'
  <2>1. builder' \in BuilderRec /\ open' \in Seq(Nat) /\ named' \in Seq(Nat)
        /\ clear' \in BOOLEAN /\ described' \in Nat /\ focus' \in Nat
    BY <1>0, <1>1, <1>3, <1>5 DEF Shape, Number
  <2>2. CASE ~ Split
    <3>1. Len(open) = 1 /\ named = <<>> /\ focus = 1 /\ Len(builder.ports) <= 1
      BY <1>1, <2>2 DEF Shape, Split
    <3>2. builder'.branch \in {0, 1}
      BY <1>1, <1>2, <1>3, <2>2, StartsAlone DEF Shape, Split
    <3> QED
      BY <1>0, <1>1, <1>3, <1>4, <1>5, <2>1, <3>1, <3>2 DEF Shape
  <2>3. CASE Split
    BY <1>0, <1>1, <1>3, <1>4, <1>5, <2>1, <2>3 DEF Shape, Split
  <2> QED
    BY <2>2, <2>3
<1>7. OrderInv'
  <2>1. InOrder(builder, described)
    BY <1>1 DEF BuilderInv, OrderInv
  <2>2. InOrder(builder', described + 1)
    BY <1>0, <1>1, <1>3, <2>1, AppendedInOrder DEF Number
  <2> QED
    BY <1>0, <2>2 DEF OrderInv, Number
<1>8. clear' => Routed(builder')
  BY <1>0, <1>3 DEF BuilderInv, Routed
<1>9. clear' => /\ clear /\ OnItsStream(builder') /\ builder'.meant = focus
                /\ Split => builder'.branch = focus
  <2> SUFFICES ASSUME clear'
               PROVE  /\ OnItsStream(builder') /\ builder'.meant = focus
                      /\ Split => builder'.branch = focus
    BY <1>0
  <2>1. clear /\ LeadsTo(focus, in) /\ OnItsStream(builder)
        /\ (Split => builder.branch = focus)
        /\ (builder.layers # <<>> => builder.meant = focus)
    BY <1>0, <1>1 DEF TrackerInv
  <2>2. CASE builder.layers # <<>>
    BY <1>3, <2>1, <2>2 DEF OnItsStream, Collected, StreamIndex
  <2>3. CASE builder.layers = <<>> /\ builder.ports = <<>>
    <3>1. Shape /\ builder.status = "building" /\ builder.ports = <<>>
      BY <1>1, <2>3
    <3>2. ~ Split
      BY <3>1, PortsBound
    <3>3. ~ Split /\ focus = 1
      BY <1>1, <3>2 DEF Shape, Split
    <3> QED
      BY <1>3, <2>3, <3>3 DEF OnItsStream, Collected, StreamIndex
  <2>4. CASE builder.layers = <<>> /\ builder.ports # <<>>
    <3>0. /\ Shape /\ TrackerInv /\ clear /\ builder.status = "building" /\ focus # 0
          /\ LeadsTo(focus, in) /\ builder.ports # <<>>
      BY <1>0, <1>1, <2>1, <2>4
    <3>1. StartBranch(builder, in) = focus
      BY <3>0, StartsInFocus
    <3>2. builder'.meant = focus /\ builder'.indices = focus /\ builder'.branch = focus
      BY <1>3, <2>4, <3>1
    <3> QED
      BY <1>0, <3>2 DEF OnItsStream, Collected, StreamIndex
  <2> QED
    BY <2>2, <2>3, <2>4
<1>10. TrackerInv'
  BY <1>0, <1>5, <1>9 DEF TrackerInv, Split
<1>11. FlowInv'
  <2> SUFFICES ASSUME clear'
               PROVE  \E z \in Seq(Nat) : /\ FlowsTo(builder'.segments, z)
                                          /\ EndsIn(builder', z, open')
    BY <1>1, <1>3 DEF FlowInv
  <2>1. PICK z \in Seq(Nat) : FlowsTo(builder.segments, z) /\ EndsIn(builder, z, open)
    BY <1>1, <1>9 DEF BuilderInv, FlowInv
  <2>2. CASE builder.layers = <<>>
    <3>1. z = open
      BY <2>1, <2>2 DEF EndsIn
    <3>2. EndsIn(builder', z, open')
      BY <1>0, <1>2, <1>3, <1>4, <2>2, <3>1 DEF EndsIn
    <3> QED
      BY <1>3, <2>1, <3>2
  <2>3. CASE builder.layers # <<>>
    <3>1. builder.meant = focus /\ builder'.meant = focus
      BY <1>0, <1>1, <1>3, <1>9, <2>3 DEF TrackerInv
    <3>2. /\ focus \in DOMAIN z /\ builder.in = z[focus]
          /\ open = [z EXCEPT ![focus] = builder.out]
      BY <2>1, <2>3, <3>1 DEF EndsIn
    <3>3. open' = [z EXCEPT ![focus] = out]
      BY <1>0, <3>2
    <3>4. EndsIn(builder', z, open')
      BY <1>3, <1>4, <2>3, <3>1, <3>2, <3>3 DEF EndsIn
    <3> QED
      BY <1>3, <2>1, <3>4
  <2> QED
    BY <2>2, <2>3
<1> QED
  BY <1>6, <1>7, <1>8, <1>10, <1>11 DEF BuilderInv

\* What is collected before a connector or a marker comes out in order, on its
\* stream and with the sizes the author sees.
LEMMA FinishedFirst ==
  ASSUME BuilderInv, Plannable, Finalized(builder).status # "failed"
  PROVE  LET f == Finalized(builder) IN
         /\ f \in BuilderRec /\ f.layers = <<>> /\ f.indices = 0 /\ f.status = "building"
         /\ InOrder(f, described)
         /\ clear => Routed(f) /\ FlowsTo(f.segments, open)
<1> DEFINE f == Finalized(builder)
<1>1. /\ builder \in BuilderRec /\ builder.status = "building" /\ open \in Seq(Nat)
      /\ described \in Nat /\ (builder.layers = <<>> => builder.indices = 0)
  BY DEF BuilderInv, Shape, Plannable
<1>2. f \in BuilderRec /\ f.layers = <<>> /\ f.indices = 0 /\ f.status = "building"
  BY <1>1, FinalizedCases
<1>3. InOrder(f, described)
  BY <1>1, FinalizedInOrder DEF BuilderInv, OrderInv
<1>4. ASSUME clear PROVE Routed(f) /\ FlowsTo(f.segments, open)
  <2>1. Routed(builder) /\ OnItsStream(builder)
    BY <1>1, <1>4 DEF BuilderInv, TrackerInv
  <2>2. PICK z \in Seq(Nat) : FlowsTo(builder.segments, z) /\ EndsIn(builder, z, open)
    BY <1>1, <1>4 DEF BuilderInv, FlowInv
  <2> QED
    BY <1>1, <2>1, <2>2, FinalizedRouted, FinalizedFlow
<1> QED
  BY <1>2, <1>3, <1>4

\* A connector or dimension operation gets a segment of its own.
LEMMA AloneKeeps ==
  ASSUME BuilderInv, Plannable, Shape',
         NEW x \in LayerRec, x.number = Number, described' = Number,
         NEW segment \in SegmentRec, segment.layers = <<x>>,
         NEW p, p = Push(Finalized(builder), segment),
         builder'.segments = p.segments, builder'.layers = p.layers,
         builder'.status = p.status,
         clear' => clear,
         clear' /\ Finalized(builder).status # "failed" =>
           /\ OnOneStream(segment) => StreamIndex(segment) = segment.meant
           /\ Carries(segment, open, open'),
         clear' => (Split' /\ focus' # 0 => builder'.branch = focus')
  PROVE  BuilderInv'
<1> DEFINE f == Finalized(builder)
<1>1. /\ builder \in BuilderRec /\ builder.status = "building" /\ described \in Nat
      /\ builder.layers = <<>> => builder.indices = 0
      /\ builder' \in BuilderRec /\ open' \in Seq(Nat)
  BY DEF BuilderInv, Shape, Plannable
<1>2. CASE f.status = "failed"
  <2>1. p.segments = builder.segments /\ p.status = "failed"
    BY <1>1, <1>2, AloneCases
  <2> QED
    BY <2>1 DEF BuilderInv, OrderInv, Routed, TrackerInv, FlowInv
<1>3. CASE f.status # "failed"
  <2>1. /\ p.status = "building" /\ p.layers = <<>>
        /\ p.segments = Append(f.segments, segment)
    BY <1>1, <1>3, AloneCases
  <2>2. /\ f \in BuilderRec /\ f.layers = <<>> /\ InOrder(f, described)
        /\ clear => Routed(f) /\ FlowsTo(f.segments, open)
    BY <1>3, FinishedFirst
  <2> HIDE DEF f
  <2>3. InOrder(builder', described + 1)
    BY <1>1, <2>1, <2>2, AloneInOrder DEF Number
  <2>4. clear' => Routed(builder')
    BY <1>3, <2>1, <2>2, RoutedMore DEF f
  <2>5. ASSUME clear' PROVE FlowsTo(builder'.segments, open')
    <3>1. FlowsTo(f.segments, open) /\ Carries(segment, open, open')
      BY <1>3, <2>2, <2>5 DEF f
    <3>2. f.segments \in Seq(SegmentRec)
      BY <2>2 DEF BuilderRec, BuilderOf
    <3> QED
      BY <1>1, <2>1, <3>1, <3>2, FlowMore
  <2>6. OrderInv'
    BY <2>3 DEF OrderInv, Number
  <2>7. TrackerInv'
    BY <2>1 DEF TrackerInv, OnItsStream
  <2>8. FlowInv'
    BY <1>1, <2>1, <2>5 DEF FlowInv, EndsIn
  <2> QED
    BY <2>4, <2>6, <2>7, <2>8 DEF BuilderInv
<1> QED
  BY <1>2, <1>3

\* A marker only ends what is collected and sets the tracker.
LEMMA MarkerKeeps ==
  ASSUME BuilderInv, Plannable, Shape',
         described' = described, open' = open,
         builder'.segments = Finalized(builder).segments,
         builder'.layers = Finalized(builder).layers,
         builder'.status = Finalized(builder).status,
         clear' => clear,
         clear' => (Split' /\ focus' # 0 => builder'.branch = focus')
  PROVE  BuilderInv'
<1> DEFINE f == Finalized(builder)
<1>1. builder \in BuilderRec /\ builder.status = "building" /\ open \in Seq(Nat)
  BY DEF BuilderInv, Shape, Plannable
<1>2. CASE f.status = "failed"
  <2>1. f.segments = builder.segments
    BY <1>1, <1>2, FinalizedCases
  <2> QED
    BY <1>2, <2>1 DEF BuilderInv, OrderInv, Routed, TrackerInv, FlowInv
<1>3. CASE f.status # "failed"
  <2>1. /\ f.layers = <<>> /\ f.status = "building" /\ InOrder(f, described)
        /\ clear => Routed(f) /\ FlowsTo(f.segments, open)
    BY <1>3, FinishedFirst
  <2> HIDE DEF f
  <2>2. OrderInv'
    BY <2>1, SameOrder DEF OrderInv, f
  <2>3. clear' => Routed(builder')
    BY <2>1 DEF Routed, f
  <2>4. TrackerInv'
    BY <2>1 DEF TrackerInv, OnItsStream, f
  <2>5. FlowInv'
    BY <1>1, <2>1 DEF FlowInv, EndsIn, f
  <2> QED
    BY <2>2, <2>3, <2>4, <2>5 DEF BuilderInv
<1> QED
  BY <1>2, <1>3

\* DescribeLinear and DescribeSoftmax.
LEMMA OrdinaryKeeps ==
  ASSUME BuilderInv, \/ \E p \in LinearParams, n \in Sizes : DescribeLinear(p, n)
                     \/ DescribeSoftmax
  PROVE  BuilderInv'
<1>1. described \in Nat /\ open \in Seq(Nat) /\ focus \in Nat
  BY DEF BuilderInv, Shape
<1>2. ASSUME NEW p \in LinearParams, NEW n \in Sizes, DescribeLinear(p, n)
      PROVE  BuilderInv'
  <2>0. p \in Nat /\ n \in Nat /\ Number \in Nat
    BY <1>1, BuilderAssumption DEF Number
  <2>1. Layer("Linear", p, Number) \in LayerRec
    <3>1. "Linear" \in LayerKinds
      BY DEF LayerKinds
    <3> QED
      BY <2>0, <3>1, LayerType, Zenon
  <2>2. LayerStep(Layer("Linear", p, Number), n)
    BY <1>2 DEF DescribeLinear, LayerStep, Layer
  <2> QED
    BY <2>0, <2>1, <2>2, LayerKeeps, Zenon
<1>3. ASSUME DescribeSoftmax PROVE BuilderInv'
  <2>1. Layer("Softmax", 0, Number) \in LayerRec
    <3>1. Number \in Nat /\ 0 \in Nat /\ "Softmax" \in LayerKinds
      BY <1>1 DEF Number, LayerKinds
    <3> QED
      BY <3>1, LayerType, Zenon
  <2>2. focus # 0 /\ builder.status = "building" /\ Shape
    BY <1>3 DEF DescribeSoftmax, Plannable, BuilderInv
  <2>3. focus \in DOMAIN open /\ open[focus] \in Nat
    BY <1>1, <2>2, PortsBound
  <2>4. open = [open EXCEPT ![focus] = open[focus]]
    BY <1>1, <2>3
  <2>5. LayerStep(Layer("Softmax", 0, Number), open[focus])
    BY <1>3, <2>4 DEF DescribeSoftmax, LayerStep, Layer
  <2> QED
    BY <2>1, <2>3, <2>5, LayerKeeps
<1> QED
  BY <1>2, <1>3

\* A shape of two dimensions has at least one plane.
PlanesThere(dims) == Len(dims) = 2 => dims[1] # 0

\* The dimensions of a shape.
LEMMA DimsType ==
  ASSUME NEW planes \in Nat \ {0}, NEW n \in Nat
  PROVE  /\ Dims(planes, n) \in Seq(Nat) /\ Len(Dims(planes, n)) \in {1, 2}
         /\ planes = 1 => Dims(planes, n) = <<n>>
         /\ planes # 1 => Len(Dims(planes, n)) # 1
         /\ PlanesThere(Dims(planes, n))
<1>1. n \div planes \in Nat
  OBVIOUS
<1> QED
  BY <1>1 DEF Dims, PlanesThere

\* DescribeDimOp: the segment is on the first stream whatever is in focus.
LEMMA DimOpKeeps ==
  ASSUME BuilderInv, NEW kind \in DimOps, NEW from \in Planes, NEW to \in Planes,
         NEW next \in Sizes, DescribeDimOp(kind, from, to, next)
  PROVE  BuilderInv'
<1> DEFINE x == Layer(kind, 0, Number)
           f == Finalized(builder)
           size == open[focus]
           in == Dims(from, size)
           out == Dims(to, size)
           segment == [kind |-> kind, layers |-> <<x>>, in |-> in, out |-> out,
                       stream |-> f.indices, meant |-> focus]
           p == Push(f, segment)
<1>1. /\ Plannable /\ builder.status = "building" /\ focus # 0 /\ described' = Number
      /\ open' = [open EXCEPT ![focus] = next] /\ focus' = focus /\ named' = named
      /\ clear' = (clear /\ (Split => focus = 1)) /\ builder' = p
      /\ from = 1 /\ to = 1 => next = size
  BY DEF DescribeDimOp, AddDimOp, Plannable
<1>2. /\ builder \in BuilderRec /\ Shape /\ TrackerInv /\ described \in Nat /\ focus \in Nat
      /\ open \in Seq(Nat) /\ (builder.layers = <<>> => builder.indices = 0)
  BY <1>1 DEF BuilderInv, Shape
<1>3. /\ focus \in DOMAIN open /\ size \in Nat /\ (~ Split => focus = 1)
      /\ from \in Nat \ {0} /\ to \in Nat \ {0} /\ next \in Nat
  BY <1>1, <1>2, PortsBound, BuilderAssumption DEF Shape, Split
<1>3a. /\ in \in Seq(Nat) /\ Len(in) \in {1, 2} /\ out \in Seq(Nat) /\ Len(out) \in {1, 2}
       /\ Len(in) = 1 => from = 1 /\ in = <<size>>
       /\ Len(out) = 1 => to = 1 /\ out = <<size>>
  <2> HIDE DEF size
  <2> QED
    BY <1>3, DimsType
<1>3b. open' \in Seq(Nat) /\ Len(open') = Len(open)
  <2> HIDE DEF size
  <2> QED
    BY <1>1, <1>2, <1>3
<1>4. f \in BuilderRec /\ f.indices \in Nat
  BY <1>2, FinalizedCases DEF BuilderRec, BuilderOf
<1>5. x \in LayerRec /\ x.number = Number
  <2>1. kind \in LayerKinds /\ Number \in Nat /\ 0 \in Nat
    BY <1>2 DEF LayerKinds, Number
  <2> QED
    BY <2>1, LayerType, Zenon
<1>6. /\ segment \in SegmentRec /\ segment.layers = <<x>> /\ segment.kind \in DimOps
      /\ segment.stream = f.indices /\ segment.meant = focus
      /\ segment.in = in /\ segment.out = out
  <2> HIDE DEF x, f, size, in, out
  <2> QED
    BY <1>2, <1>3a, <1>4, <1>5 DEF SegmentRec, Kinds
<1> HIDE DEF segment, x, in, out
<1>7. /\ p \in BuilderRec /\ p.ports = builder.ports /\ p.branch = builder.branch
      /\ p.status = f.status
      /\ f.status # "failed" => p.layers = <<>> /\ p.indices = 0 /\ f.indices = 0
  BY <1>1, <1>2, <1>6, AloneCases
<1> HIDE DEF p
<1>8. Shape'
  <2>1. CASE f.status = "failed"
    BY <1>1, <1>2, <1>3b, <1>7, <2>1 DEF Shape, Number
  <2>2. CASE f.status # "failed"
    BY <1>1, <1>2, <1>3b, <1>7, <2>2 DEF Shape, Number
  <2> QED
    BY <2>1, <2>2
<1>9. clear' => clear /\ focus = 1
  BY <1>1, <1>3
<1>10. ASSUME clear'
       PROVE  /\ f.status # "failed" =>
                   /\ OnOneStream(segment) => StreamIndex(segment) = segment.meant
                   /\ Carries(segment, open, open')
              /\ Split' /\ focus' # 0 => builder'.branch = focus'
  <2>1. Split' /\ focus' # 0 => builder'.branch = focus'
    BY <1>1, <1>2, <1>3b, <1>7, <1>9, <1>10 DEF TrackerInv, Split
  <2>2. ASSUME f.status # "failed"
        PROVE  /\ StreamIndex(segment) = 1 /\ segment.meant = 1
               /\ Carries(segment, open, open')
    <3>1. StreamIndex(segment) = 1 /\ segment.meant = 1 /\ OnOneStream(segment)
      BY <1>6, <1>7, <1>9, <1>10, <2>2 DEF StreamIndex, OnOneStream
    <3>2. 1 \in DOMAIN open /\ open[1] = size
      BY <1>3, <1>9, <1>10
    <3>3. open' = [open EXCEPT ![1] = next] /\ next \in Nat
      BY <1>1, <1>3, <1>9, <1>10
    <3>4. ASSUME Plain(segment)
          PROVE  segment.in[1] = size /\ segment.out[1] = size /\ next = size
      <4>1. Len(in) = 1 /\ Len(out) = 1
        BY <1>6, <3>4 DEF Plain
      <4>2. in = <<size>> /\ out = <<size>> /\ next = size
        BY <1>1, <1>3a, <4>1
      <4> HIDE DEF size
      <4> QED
        BY <1>6, <4>2
    <3> HIDE DEF size
    <3> QED
      BY <3>1, <3>2, <3>3, <3>4 DEF Carries
  <2> QED
    BY <2>1, <2>2
<1> QED
  BY <1>1, <1>5, <1>6, <1>8, <1>9, <1>10, AloneKeeps DEF p

\* A connector's segment holds the connector alone and is on every stream.
Connection(kind, x, ins, outs) ==
  [kind |-> kind, layers |-> <<x>>, in |-> ins, out |-> outs, stream |-> 0, meant |-> 0]

\* It turns the streams that are open into those it names.
LEMMA ConnectionCarries ==
  ASSUME NEW kind \in {"Splitter", "Combiner"}, NEW x \in LayerRec,
         NEW ins \in Seq(Nat), NEW outs \in Seq(Nat)
  PROVE  LET s == Connection(kind, x, ins, outs) IN
         /\ s \in SegmentRec /\ s.layers = <<x>>
         /\ ~ OnOneStream(s) /\ Carries(s, ins, outs)
<1> DEFINE s == Connection(kind, x, ins, outs)
<1>1. s \in SegmentRec /\ s.layers = <<x>> /\ s.in = ins /\ s.out = outs /\ s.kind = kind
  BY DEF Connection, SegmentRec, Kinds
<1>2. ~ OnOneStream(s)
  BY <1>1 DEF OnOneStream, DimOps
<1> QED
  BY <1>1, <1>2 DEF Carries

\* What the connector's segment and the tracker make of the pass.
LEMMA ConnectionKeeps ==
  ASSUME BuilderInv, Plannable,
         NEW kind \in {"Splitter", "Combiner"}, NEW x \in LayerRec, x.number = Number,
         NEW outs \in Seq(Nat), NEW branch \in Nat,
         builder' = Tracked(Push(Finalized(builder), Connection(kind, x, open, outs)),
                            outs, branch),
         open' = outs, focus' = 1, described' = Number, clear' = clear,
         \/ Len(outs) = 1 /\ named' = <<>> /\ branch = 0
         \/ Len(outs) = 2 /\ named' = outs /\ branch = 1
  PROVE  BuilderInv'
<1> DEFINE f == Finalized(builder)
           s == Connection(kind, x, open, outs)
           p == Push(f, s)
<1>1. /\ builder \in BuilderRec /\ Shape /\ builder.status = "building"
      /\ open \in Seq(Nat) /\ described \in Nat
      /\ (builder.layers = <<>> => builder.indices = 0)
  BY DEF BuilderInv, Shape, Plannable
<1>2. /\ s \in SegmentRec /\ s.layers = <<x>>
      /\ ~ OnOneStream(s) /\ Carries(s, open, open')
  BY <1>1, ConnectionCarries
<1> HIDE DEF s
<1>3. p \in BuilderRec /\ p.status = f.status
      /\ (f.status # "failed" => p.layers = <<>> /\ p.indices = 0)
  BY <1>1, <1>2, AloneCases
<1>3a. f.status \in {"building", "failed"}
  BY <1>1, FinalizedCases
<1> HIDE DEF p
<1>4. /\ builder' \in BuilderRec /\ builder'.ports = outs /\ builder'.branch = branch
      /\ builder'.segments = p.segments /\ builder'.layers = p.layers
      /\ builder'.status = p.status /\ builder'.indices = p.indices
  <2>1. builder' = Tracked(p, outs, branch)
    BY DEF p, s
  <2> QED
    BY <1>3, <2>1, TrackedCases
<1>5. Shape'
  <2>1. /\ builder' \in BuilderRec /\ open' \in Seq(Nat) /\ named' \in Seq(Nat)
        /\ clear' \in BOOLEAN /\ described' \in Nat /\ focus' \in Nat
    <3>1. open' \in Seq(Nat) /\ named' \in Seq(Nat)
      BY EmptySeq
    <3>2. clear' \in BOOLEAN /\ described' \in Nat /\ focus' \in Nat
      BY <1>1 DEF Shape, Number
    <3> QED
      BY <1>4, <3>1, <3>2
  <2>2. builder'.status = "building" => (builder'.layers = <<>> => builder'.indices = 0)
    BY <1>3, <1>4
  <2>3. CASE Len(outs) = 1 /\ named' = <<>> /\ branch = 0
    <3>1. /\ Len(open') = 1 /\ Len(builder'.ports) <= 1 /\ builder'.branch \in {0, 1}
      BY <1>4, <2>3
    <3> QED
      BY <2>1, <2>2, <2>3, <3>1 DEF Shape
  <2>4. CASE Len(outs) = 2 /\ named' = outs /\ branch = 1
    BY <1>4, <2>1, <2>2, <2>4 DEF Shape
  <2> QED
    BY <2>3, <2>4
<1>6. Split' /\ focus' # 0 => builder'.branch = focus'
  BY <1>4 DEF Split
<1> QED
  BY <1>2, <1>4, <1>5, <1>6, AloneKeeps DEF p

\* DescribeSplitter and DescribeCombiner.
LEMMA ConnectorsKeep ==
  ASSUME BuilderInv, \/ \E p, q \in Sizes : DescribeSplitter(<<p, q>>)
                     \/ \E n \in Sizes : DescribeCombiner(n)
  PROVE  BuilderInv'
<1>1. /\ builder \in BuilderRec /\ Shape /\ open \in Seq(Nat) /\ Number \in Nat
  BY DEF BuilderInv, Shape, Number
<1>2. ASSUME NEW p \in Sizes, NEW q \in Sizes, DescribeSplitter(<<p, q>>)
      PROVE  BuilderInv'
  <2> DEFINE outs == <<p, q>>
             x == Layer("Splitter", 0, Number)
  <2>1. outs \in Seq(Nat) /\ Len(outs) = 2
    BY BuilderAssumption
  <2>2. x \in LayerRec /\ x.number = Number
    <3>1. "Splitter" \in LayerKinds /\ 0 \in Nat
      BY DEF LayerKinds
    <3> QED
      BY <1>1, <3>1, LayerType, Zenon
  <2>3. Plannable /\ builder.status = "building" /\ ~ Split
    BY <1>2 DEF DescribeSplitter, Plannable
  <2>4. open = <<open[1]>>
    <3>1. Len(open) = 1
      BY <1>1, <2>3, PortsBound
    <3> QED
      BY <1>1, <3>1
  <2> HIDE DEF outs, x
  <2>5. builder' = Tracked(Push(Finalized(builder), Connection("Splitter", x, open, outs)),
                           outs, 1)
    BY <1>2, <2>4 DEF DescribeSplitter, AddSplitter, Tracked, Connection, x, outs
  <2>6. open' = outs /\ named' = outs /\ focus' = 1 /\ described' = Number /\ clear' = clear
    BY <1>2 DEF DescribeSplitter, outs
  <2> QED
    BY <2>1, <2>2, <2>3, <2>5, <2>6, ConnectionKeeps
<1>3. ASSUME NEW n \in Sizes, DescribeCombiner(n)
      PROVE  BuilderInv'
  <2> DEFINE outs == <<n>>
             x == Layer("Combiner", 0, Number)
  <2>1. outs \in Seq(Nat) /\ Len(outs) = 1
    BY BuilderAssumption
  <2>2. x \in LayerRec /\ x.number = Number
    <3>1. "Combiner" \in LayerKinds /\ 0 \in Nat
      BY DEF LayerKinds
    <3> QED
      BY <1>1, <3>1, LayerType, Zenon
  <2> HIDE DEF outs, x
  <2>3. Plannable
    BY <1>3 DEF DescribeCombiner
  <2>4. builder' = Tracked(Push(Finalized(builder), Connection("Combiner", x, open, outs)),
                           outs, 0)
    BY <1>3 DEF DescribeCombiner, AddCombiner, Tracked, Connection, x, outs
  <2>5. open' = outs /\ named' = <<>> /\ focus' = 1 /\ described' = Number /\ clear' = clear
    BY <1>3 DEF DescribeCombiner, outs
  <2> QED
    BY <2>1, <2>2, <2>3, <2>4, <2>5, ConnectionKeeps
<1> QED
  BY <1>2, <1>3

\* DescribeBranch: the tracker follows a size that leads to its stream.
LEMMA BranchKeeps ==
  ASSUME BuilderInv, NEW i \in DOMAIN open, DescribeBranch(i)
  PROVE  BuilderInv'
<1> DEFINE f == Finalized(builder)
           sizes == <<open[i]>>
           found == Position(builder.ports, open[i])
<1>1. /\ Plannable /\ builder' = AddMarker(builder, sizes) /\ focus' = i
      /\ clear' = (clear /\ LeadsTo(i, open[i]) /\ (Split => open[i] = named[i] \/ i = 1))
      /\ open' = open /\ named' = named /\ described' = described
  BY DEF DescribeBranch
<1>2. /\ builder \in BuilderRec /\ Shape /\ builder.status = "building"
      /\ open \in Seq(Nat) /\ builder.ports \in Seq(Nat)
      /\ (builder.layers = <<>> => builder.indices = 0)
  BY <1>1 DEF BuilderInv, Shape, Plannable, BuilderRec, BuilderOf
<1>3. /\ i \in Nat /\ i # 0 /\ open[i] \in Nat /\ (~ Split => i = 1) /\ (Split => i \in {1, 2})
      /\ sizes \in Seq(Nat) /\ Len(sizes) = 1 /\ sizes # <<>> /\ sizes[1] = open[i]
  BY <1>2, PortsBound DEF Split
<1>4. /\ builder' \in BuilderRec
      /\ builder'.segments = f.segments /\ builder'.layers = f.layers
      /\ builder'.status = f.status /\ builder'.indices = f.indices
      /\ builder.ports = <<>> => builder'.ports = sizes /\ builder'.branch = 1
      /\ builder.ports # <<>> => /\ builder'.ports = builder.ports
                                 /\ builder'.branch = IF found = 0 THEN 1 ELSE found
  <2>1. Len(builder.ports) <= 2
    BY <1>2, PortsBound
  <2>2. MarkedBy(builder', f, builder, sizes)
    <3> HIDE DEF sizes
    <3> QED
      BY <1>1, <1>2, <1>3, <2>1, AddMarkerCases
  <2> QED
    BY <1>1, <1>3, <2>2 DEF MarkedBy
<1>5. f.status = "building" => (f.layers = <<>> => f.indices = 0)
  BY <1>2, FinalizedCases
<1> HIDE DEF f, found
<1>6. Shape'
  <2>1. /\ builder' \in BuilderRec /\ open' \in Seq(Nat) /\ named' \in Seq(Nat)
        /\ clear' \in BOOLEAN /\ described' \in Nat /\ focus' \in Nat
        /\ builder'.status = "building" => (builder'.layers = <<>> => builder'.indices = 0)
    BY <1>1, <1>2, <1>3, <1>4, <1>5 DEF Shape
  <2>2. CASE ~ Split
    <3>1. Len(open) = 1 /\ named = <<>> /\ i = 1 /\ Len(builder.ports) <= 1
      BY <1>2, <1>3, <2>2 DEF Shape, Split
    <3>2. found \in {0, 1}
      <4> DEFINE size == open[i]
      <4>1. Shape /\ builder.status = "building" /\ ~ Split /\ size \in Nat
        BY <1>2, <1>3, <2>2
      <4> HIDE DEF size
      <4>2. Position(builder.ports, size) \in {0, 1}
        BY <4>1, StartsAlone
      <4> QED
        BY <4>2 DEF found, size
    <3>3. Len(builder'.ports) <= 1 /\ builder'.branch \in {0, 1}
      <4>1. CASE builder.ports = <<>>
        <5>1. builder'.ports = sizes /\ builder'.branch = 1 /\ Len(sizes) <= 1
          BY <1>3, <1>4, <4>1
        <5> QED
          BY <5>1, Zenon
      <4>2. CASE builder.ports # <<>>
        <5>1. builder'.ports = builder.ports /\ builder'.branch = IF found = 0 THEN 1 ELSE found
          BY <1>4, <4>2
        <5> QED
          BY <3>1, <3>2, <5>1
      <4> QED
        BY <4>1, <4>2
    <3> QED
      BY <1>1, <2>1, <3>1, <3>3 DEF Shape
  <2>3. CASE Split
    <3>1. Len(open) = 2 /\ Len(named) = 2 /\ builder'.ports = named /\ i \in {0, 1, 2}
      BY <1>2, <1>3, <1>4, <2>3, PortsBound DEF Split
    <3> QED
      BY <1>1, <2>1, <3>1 DEF Shape
  <2> QED
    BY <2>2, <2>3
<1>7. clear' => (Split' /\ focus' # 0 => builder'.branch = focus')
  <2> SUFFICES ASSUME clear', Split
               PROVE  builder'.branch = i
    BY <1>1 DEF Split
  <2>1. /\ builder.ports = named /\ Len(named) = 2 /\ builder.ports # <<>>
        /\ Len(builder.ports) <= 2
    BY <1>2, PortsBound
  <2>2. /\ found \in 0 .. 2
        /\ found # 0 => named[found] = open[i] /\ \A k \in 1 .. found - 1 : named[k] # open[i]
        /\ found = 0 => \A k \in 1 .. 2 : named[k] # open[i]
    <3> DEFINE ports == builder.ports
               size == open[i]
    <3>1. ports \in Seq(Nat) /\ Len(ports) <= 2 /\ size \in Nat
      BY <1>2, <1>3, <2>1
    <3>2. Len(ports) = 2 /\ DOMAIN ports = 1 .. 2 /\ ports = named
      BY <1>2, <2>1
    <3> HIDE DEF ports, size
    <3>3. LET p == Position(ports, size) IN
            /\ p \in 0 .. Len(ports) /\ p \in Nat
            /\ p # 0 => ports[p] = size /\ \A k \in 1 .. p - 1 : ports[k] # size
            /\ p = 0 => \A k \in DOMAIN ports : ports[k] # size
      BY <3>1, PositionFirst
    <3> QED
      BY <3>2, <3>3 DEF ports, size, found
  <2>3. /\ IF i = 1 THEN open[i] = named[1] \/ open[i] # named[2] ELSE open[i] # named[1]
        /\ open[i] = named[i] \/ i = 1
    BY <1>1 DEF LeadsTo
  <2> DEFINE size == open[i]
  <2> HIDE DEF size
  <2>4. (IF found = 0 THEN 1 ELSE found) = i
    <3>1. found \in {0, 1, 2} /\ i \in {1, 2}
      BY <1>3, <2>2
    <3>2. found = 2 => named[2] = open[i] /\ named[1] # open[i]
      BY <2>2
    <3>3. found = 1 => named[1] = open[i]
      BY <2>2
    <3>4. found = 0 => named[1] # open[i] /\ named[2] # open[i]
      BY <2>2
    <3> QED
      BY <2>3, <3>1, <3>2, <3>3, <3>4
  <2> QED
    BY <1>4, <2>1, <2>4
<1>8. clear' => clear
  BY <1>1
<1> QED
  BY <1>1, <1>4, <1>6, <1>7, <1>8, MarkerKeeps DEF f

\* DescribeBothBranches names the streams anew, none is in focus.
LEMMA BothBranchesKeep ==
  ASSUME BuilderInv, DescribeBothBranches
  PROVE  BuilderInv'
<1> DEFINE f == Finalized(builder)
<1>1. /\ Plannable /\ Split /\ builder' = AddMarker(builder, open) /\ focus' = 0
      /\ open' = open /\ named' = open /\ described' = described /\ clear' = clear
  BY DEF DescribeBothBranches
<1>2. /\ builder \in BuilderRec /\ Shape /\ builder.status = "building"
      /\ open \in Seq(Nat) /\ (builder.layers = <<>> => builder.indices = 0)
  BY <1>1 DEF BuilderInv, Shape, Plannable
<1>3. Len(open) = 2 /\ open # <<>> /\ Len(builder.ports) <= 2
  BY <1>1, <1>2, PortsBound DEF Split
<1>4. /\ builder' \in BuilderRec
      /\ builder'.segments = f.segments /\ builder'.layers = f.layers
      /\ builder'.status = f.status /\ builder'.indices = f.indices
      /\ builder'.ports = open
  <2>1. Len(open) > 1
    BY <1>3
  <2>2. MarkedBy(builder', f, builder, open)
    BY <1>1, <1>2, <1>3, AddMarkerCases
  <2> QED
    BY <2>1, <2>2 DEF MarkedBy
<1>5. f.status = "building" => (f.layers = <<>> => f.indices = 0)
  BY <1>2, FinalizedCases
<1> HIDE DEF f
<1>6. Shape'
  BY <1>1, <1>2, <1>3, <1>4, <1>5 DEF Shape
<1> QED
  BY <1>1, <1>4, <1>6, MarkerKeeps DEF f

\* DescribeBranchEnd only takes the author out of the branch.
LEMMA BranchEndKeeps ==
  ASSUME BuilderInv, DescribeBranchEnd
  PROVE  BuilderInv'
<1>1. /\ Plannable /\ Split /\ focus' = 0 /\ open' = open /\ named' = named
      /\ clear' = clear /\ described' = described /\ builder' = builder
  BY DEF DescribeBranchEnd
<1>2. Shape'
  BY <1>1 DEF BuilderInv, Shape, Split
<1>3. OrderInv' /\ (clear' => Routed(builder')) /\ TrackerInv' /\ FlowInv'
  BY <1>1 DEF BuilderInv, OrderInv, TrackerInv, FlowInv, Split
<1> QED
  BY <1>2, <1>3 DEF BuilderInv

\* FinishPlan: one stream is left, the last segment ends in it.
LEMMA FinishKeeps ==
  ASSUME BuilderInv, FinishPlan
  PROVE  BuilderInv'
<1> DEFINE f == Finalized(builder)
<1>1. /\ Plannable /\ ~ Split /\ open' = <<>> /\ focus' = 0 /\ named' = <<>>
      /\ clear' = clear /\ described' = described
      /\ builder' = IF f.status = "failed" THEN f
                    ELSE [f EXCEPT !.status = "built", !.ports = <<>>, !.branch = 0]
  BY DEF FinishPlan
<1>2. /\ builder \in BuilderRec /\ Shape /\ builder.status = "building" /\ open \in Seq(Nat)
      /\ Len(open) = 1
  BY <1>1, PortsBound DEF BuilderInv, Shape, Plannable
<1>3. f \in BuilderRec
  BY <1>2, FinalizedCases
<1> HIDE DEF f
<1>4. CASE f.status = "failed"
  <2>1. builder' = f
    BY <1>1, <1>4
  <2>2. f.segments = builder.segments
    BY <1>2, <1>4, FinalizedCases DEF f
  <2>3. Shape'
    BY <1>1, <1>2, <1>3, <1>4, <2>1, EmptySeq DEF Shape
  <2> QED
    BY <1>1, <1>4, <2>1, <2>2, <2>3 DEF BuilderInv, OrderInv, Routed, TrackerInv, FlowInv
<1>5. CASE f.status # "failed"
  <2> DEFINE t == [f EXCEPT !.status = "built", !.ports = <<>>, !.branch = 0]
  <2>1. builder' = t
    BY <1>1, <1>5
  <2>2. /\ t \in BuilderRec /\ t.status = "built" /\ t.segments = f.segments
        /\ t.layers = f.layers
    <3>1. ASSUME NEW L, NEW S, NEW c \in BuilderOf(L, S)
          PROVE  [c EXCEPT !.status = "built", !.ports = <<>>, !.branch = 0]
                   \in BuilderOf(L, S)
      BY <3>1, EmptySeq DEF BuilderOf
    <3>2. t \in BuilderRec
      BY <1>3, <3>1 DEF BuilderRec
    <3> QED
      BY <1>3, <3>2 DEF BuilderRec, BuilderOf
  <2> HIDE DEF t
  <2>3. /\ f.layers = <<>> /\ InOrder(f, described)
        /\ clear => Routed(f) /\ FlowsTo(f.segments, open)
    BY <1>1, <1>5, FinishedFirst DEF f
  <2>4. Shape'
    BY <1>1, <1>2, <2>1, <2>2, EmptySeq DEF Shape
  <2>5. OrderInv'
    BY <1>1, <2>1, <2>2, <2>3, SameOrder DEF OrderInv
  <2>6. clear' => Routed(builder')
    BY <1>1, <2>1, <2>2, <2>3 DEF Routed
  <2>7. TrackerInv'
    BY <2>1, <2>2 DEF TrackerInv
  <2>8. FlowInv'
    BY <1>1, <1>2, <2>1, <2>2, <2>3 DEF FlowInv
  <2> QED
    BY <2>4, <2>5, <2>6, <2>7, <2>8 DEF BuilderInv
<1> QED
  BY <1>4, <1>5

\* No step of a description breaks the invariant.
LEMMA BuilderInvNext == BuilderInv /\ [Describe]_plan => BuilderInv'
<1> SUFFICES ASSUME BuilderInv, [Describe]_plan PROVE BuilderInv'
  OBVIOUS
<1>1. CASE UNCHANGED plan
  BY <1>1 DEF plan, planVars, BuilderInv, Shape, OrderInv, TrackerInv, FlowInv, Split
<1>2. CASE Describe
  BY <1>2, OrdinaryKeeps, DimOpKeeps, ConnectorsKeep, BranchKeeps, BothBranchesKeep,
     BranchEndKeeps, FinishKeeps DEF Describe
<1> QED
  BY <1>1, <1>2

-----------------------------------------------------------------------------
(* The segments of a plan                                                  *)

\* A segment of layers has one stream in and out, a connector at most two; a
\* dimension operation without planes keeps the size, one with planes has some.
WellMade(s) ==
  /\ Len(s.in) \in {1, 2} /\ Len(s.out) \in {1, 2}
  /\ s.kind = "Universal" => Len(s.in) = 1 /\ Len(s.out) = 1
  /\ s.kind \in DimOps /\ Plain(s) => s.in[1] = s.out[1]
  /\ s.kind \in DimOps => PlanesThere(s.in) /\ PlanesThere(s.out)

Made(segs) == \A i \in DOMAIN segs : WellMade(segs[i])

\* A plan that is built has a segment.
MadeInv == Made(builder.segments) /\ (builder.status = "built" => Len(builder.segments) >= 1)

\* One segment more.
LEMMA MadeMore ==
  ASSUME NEW segs \in Seq(SegmentRec), NEW s \in SegmentRec, WellMade(s), Made(segs)
  PROVE  Made(Append(segs, s))
<1> DEFINE n == Len(segs)
           more == Append(segs, s)
<1>1. /\ n \in Nat /\ DOMAIN segs = 1 .. n /\ DOMAIN more = 1 .. n + 1
      /\ \A i \in 1 .. n : more[i] = segs[i]
      /\ more[n + 1] = s
  BY AppendProperties
<1> HIDE DEF n, more
<1> SUFFICES ASSUME NEW i \in 1 .. n + 1 PROVE WellMade(more[i])
  BY <1>1 DEF Made, more
<1>2. CASE i \in 1 .. n
  BY <1>1, <1>2 DEF Made
<1>3. CASE i = n + 1
  BY <1>1, <1>3
<1> QED
  BY <1>1, <1>2, <1>3

\* finalize_universal! makes a segment of one stream.
LEMMA FinalizedMade ==
  ASSUME NEW b \in BuilderRec, Made(b.segments)
  PROVE  Made(Finalized(b).segments)
<1>1. /\ Collected(b) \in SegmentRec /\ b.segments \in Seq(SegmentRec)
      /\ Collected(b).in = <<b.in>> /\ Collected(b).out = <<b.out>>
      /\ Collected(b).kind = "Universal"
  BY DEF BuilderRec, BuilderOf, Collected, SegmentRec, Kinds
<1>2. Len(<<b.in>>) = 1 /\ Len(<<b.out>>) = 1
  OBVIOUS
<1>3. WellMade(Collected(b))
  BY <1>1, <1>2 DEF WellMade, DimOps
<1>4. Made(Append(b.segments, Collected(b)))
  BY <1>1, <1>3, MadeMore
<1> QED
  BY <1>4, FinalizedCases

\* A segment that stands alone is pushed after that.
LEMMA PushMade ==
  ASSUME NEW b \in BuilderRec, NEW s \in SegmentRec, WellMade(s), Made(b.segments)
  PROVE  Made(Push(Finalized(b), s).segments)
<1> DEFINE f == Finalized(b)
<1>1. f \in BuilderRec /\ Made(f.segments) /\ f.segments \in Seq(SegmentRec)
  BY FinalizedCases, FinalizedMade DEF BuilderRec, BuilderOf
<1> HIDE DEF f
<1>2. Made(Append(f.segments, s))
  BY <1>1, MadeMore
<1> QED
  BY <1>1, <1>2, PushCases DEF f

\* An action that adds a connector.
LEMMA ConnectionMade ==
  ASSUME NEW b \in BuilderRec, NEW kind \in {"Splitter", "Combiner"}, NEW x \in LayerRec,
         NEW ins \in Seq(Nat), NEW outs \in Seq(Nat), NEW branch \in Nat,
         Len(ins) \in {1, 2}, Len(outs) \in {1, 2}, Made(b.segments)
  PROVE  Made(Tracked(Push(Finalized(b), Connection(kind, x, ins, outs)), outs, branch).segments)
<1> DEFINE s == Connection(kind, x, ins, outs)
           p == Push(Finalized(b), s)
<1>1. s \in SegmentRec /\ ~ OnOneStream(s)
  BY ConnectionCarries
<1>2. s.in = ins /\ s.out = outs /\ s.kind \notin DimOps /\ s.kind # "Universal"
  BY DEF Connection, DimOps
<1>3. WellMade(s)
  BY <1>1, <1>2 DEF WellMade
<1> HIDE DEF s
<1>4. Made(p.segments) /\ p \in BuilderRec
  BY <1>1, <1>3, PushMade, PushCases, FinalizedCases
<1> HIDE DEF p
<1>5. Tracked(p, outs, branch).segments = p.segments
  BY <1>4, TrackedCases
<1> QED
  BY <1>4, <1>5 DEF p, s

\* No segment yet.
LEMMA MadeInvInit == BuilderInit => MadeInv
BY DEF BuilderInit, EmptyBuilder, MadeInv, Made

\* No step of a description breaks this.
LEMMA MadeInvNext == BuilderInv /\ MadeInv /\ [Describe]_plan => MadeInv'
<1> SUFFICES ASSUME BuilderInv, MadeInv, [Describe]_plan PROVE MadeInv'
  OBVIOUS
<1> DEFINE f == Finalized(builder)
<1>1. /\ builder \in BuilderRec /\ Shape /\ Made(builder.segments) /\ Number \in Nat
      /\ open \in Seq(Nat)
  BY DEF BuilderInv, Shape, MadeInv, Number
<1>2. /\ f \in BuilderRec /\ Made(f.segments)
      /\ builder.status = "building" => f.status # "built"
  BY <1>1, FinalizedCases, FinalizedMade DEF BuilderRec, BuilderOf
<1>3. CASE UNCHANGED plan
  BY <1>3 DEF plan, MadeInv
<1>4. ASSUME NEW p \in LinearParams, NEW n \in Sizes, DescribeLinear(p, n)
      PROVE  MadeInv'
  <2>1. /\ builder' = AddLayer(builder, Layer("Linear", p, Number), open[focus], n, focus)
        /\ builder.status = "building"
    BY <1>4 DEF DescribeLinear, Plannable
  <2>2. builder'.segments = builder.segments /\ builder'.status = "building"
    BY <1>1, <2>1 DEF AddLayer, Started, BuilderRec, BuilderOf
  <2> QED
    BY <1>1, <2>2 DEF MadeInv
<1>5. CASE DescribeSoftmax
  <2>1. /\ builder' = AddLayer(builder, Layer("Softmax", 0, Number), open[focus], open[focus],
                               focus)
        /\ builder.status = "building"
    BY <1>5 DEF DescribeSoftmax, Plannable
  <2>2. builder'.segments = builder.segments /\ builder'.status = "building"
    BY <1>1, <2>1 DEF AddLayer, Started, BuilderRec, BuilderOf
  <2> QED
    BY <1>1, <2>2 DEF MadeInv
<1>6. ASSUME NEW kind \in DimOps, NEW from \in Planes, NEW to \in Planes, NEW next \in Sizes,
             DescribeDimOp(kind, from, to, next)
      PROVE  MadeInv'
  <2> DEFINE x == Layer(kind, 0, Number)
             in == Dims(from, open[focus])
             out == Dims(to, open[focus])
             segment == [kind |-> kind, layers |-> <<x>>, in |-> in, out |-> out,
                         stream |-> f.indices, meant |-> focus]
  <2>1. builder' = Push(f, segment) /\ builder.status = "building" /\ focus # 0
    BY <1>6 DEF DescribeDimOp, AddDimOp, Plannable
  <2>2. open[focus] \in Nat /\ focus \in Nat /\ f.indices \in Nat /\ kind \in Kinds
    <3>1. kind \in Kinds
      BY DEF Kinds
    <3>2. f.indices \in Nat
      <4> HIDE DEF f
      <4> QED
        BY <1>2, <2>1 DEF BuilderRec, BuilderOf
    <3>3. focus \in Nat /\ focus \in 0 .. Len(open) /\ DOMAIN open = 1 .. Len(open)
      BY <1>1, <2>1, PortsBound DEF Shape
    <3>4. focus \in DOMAIN open
      BY <2>1, <3>3
    <3> QED
      BY <1>1, <3>1, <3>2, <3>3, <3>4
  <2>3. x \in LayerRec
    <3>1. kind \in LayerKinds /\ 0 \in Nat
      BY DEF LayerKinds
    <3> QED
      BY <1>1, <3>1, LayerType, Zenon
  <2> HIDE DEF x
  <2>3a. /\ in \in Seq(Nat) /\ Len(in) \in {1, 2} /\ out \in Seq(Nat) /\ Len(out) \in {1, 2}
         /\ Len(in) = 1 /\ Len(out) = 1 => in = out
         /\ PlanesThere(in) /\ PlanesThere(out)
    <3>1. from \in Nat \ {0} /\ to \in Nat \ {0}
      BY BuilderAssumption
    <3> QED
      BY <2>2, <3>1, DimsType
  <2> HIDE DEF in, out
  <2>4. /\ segment \in SegmentRec /\ segment.in = in /\ segment.out = out
        /\ segment.kind \in DimOps
    BY <2>2, <2>3, <2>3a DEF SegmentRec
  <2> HIDE DEF segment
  <2>5. WellMade(segment)
    BY <2>3a, <2>4 DEF WellMade, Plain, DimOps
  <2>6. Made(builder'.segments)
    BY <1>1, <2>1, <2>4, <2>5, PushMade
  <2>7. builder'.status # "built"
    BY <1>2, <2>1, <2>4, PushCases
  <2> QED
    BY <2>6, <2>7 DEF MadeInv
<1>7. ASSUME NEW p \in Sizes, NEW q \in Sizes, DescribeSplitter(<<p, q>>)
      PROVE  MadeInv'
  <2> DEFINE outs == <<p, q>>
             x == Layer("Splitter", 0, Number)
             s == Connection("Splitter", x, open, outs)
  <2>1. outs \in Seq(Nat) /\ Len(outs) = 2
    BY BuilderAssumption
  <2>2. x \in LayerRec
    <3>1. "Splitter" \in LayerKinds /\ 0 \in Nat
      BY DEF LayerKinds
    <3> QED
      BY <1>1, <3>1, LayerType, Zenon
  <2>3. builder.status = "building" /\ ~ Split
    BY <1>7 DEF DescribeSplitter, Plannable
  <2>4. open = <<open[1]>> /\ Len(open) = 1
    <3>1. Len(open) = 1
      BY <1>1, <2>3, PortsBound
    <3> QED
      BY <1>1, <3>1
  <2> HIDE DEF outs, x
  <2>5. builder' = Tracked(Push(f, s), outs, 1)
    BY <1>7, <2>4 DEF DescribeSplitter, AddSplitter, Tracked, Connection, x, outs
  <2>6. Made(builder'.segments)
    BY <1>1, <2>1, <2>2, <2>4, <2>5, ConnectionMade
  <2>7. s \in SegmentRec
    BY <1>1, <2>1, <2>2, ConnectionCarries
  <2> HIDE DEF s
  <2>8. builder'.status # "built"
    BY <1>2, <2>1, <2>3, <2>5, <2>7, PushCases, TrackedCases
  <2> QED
    BY <2>6, <2>8 DEF MadeInv
<1>8. ASSUME NEW n \in Sizes, DescribeCombiner(n)
      PROVE  MadeInv'
  <2> DEFINE outs == <<n>>
             x == Layer("Combiner", 0, Number)
             s == Connection("Combiner", x, open, outs)
  <2>1. outs \in Seq(Nat) /\ Len(outs) = 1
    BY BuilderAssumption
  <2>2. x \in LayerRec
    <3>1. "Combiner" \in LayerKinds /\ 0 \in Nat
      BY DEF LayerKinds
    <3> QED
      BY <1>1, <3>1, LayerType, Zenon
  <2>3. builder.status = "building" /\ Len(open) = 2
    BY <1>8 DEF DescribeCombiner, Plannable, Split
  <2> HIDE DEF outs, x
  <2>4. builder' = Tracked(Push(f, s), outs, 0)
    BY <1>8 DEF DescribeCombiner, AddCombiner, Tracked, Connection, x, outs
  <2>5. Made(builder'.segments)
    BY <1>1, <2>1, <2>2, <2>3, <2>4, ConnectionMade
  <2>6. s \in SegmentRec
    BY <1>1, <2>1, <2>2, ConnectionCarries
  <2> HIDE DEF s
  <2>7. builder'.status # "built"
    BY <1>2, <2>1, <2>3, <2>4, <2>6, PushCases, TrackedCases
  <2> QED
    BY <2>5, <2>7 DEF MadeInv
<1>9. ASSUME NEW i \in DOMAIN open, DescribeBranch(i)
      PROVE  MadeInv'
  <2> DEFINE sizes == <<open[i]>>
  <2>1. builder' = AddMarker(builder, sizes) /\ builder.status = "building"
    BY <1>9 DEF DescribeBranch, Plannable
  <2>2. sizes \in Seq(Nat) /\ sizes # <<>>
    BY <1>1
  <2> HIDE DEF sizes
  <2>3. MarkedBy(builder', f, builder, sizes)
    BY <1>1, <2>1, <2>2, PortsBound, AddMarkerCases
  <2> QED
    BY <1>2, <2>1, <2>3 DEF MarkedBy, MadeInv
<1>10. CASE DescribeBothBranches
  <2>1. builder' = AddMarker(builder, open) /\ builder.status = "building" /\ Len(open) = 2
    BY <1>10 DEF DescribeBothBranches, Plannable, Split
  <2>2. open # <<>>
    BY <2>1
  <2>3. MarkedBy(builder', f, builder, open)
    BY <1>1, <2>1, <2>2, PortsBound, AddMarkerCases
  <2> QED
    BY <1>2, <2>1, <2>3 DEF MarkedBy, MadeInv
<1>11. CASE DescribeBranchEnd
  BY <1>11 DEF DescribeBranchEnd, MadeInv
<1>12. CASE FinishPlan
  <2>1. /\ Plannable /\ builder.status = "building" /\ described > 0
        /\ builder' = IF f.status = "failed" THEN f
                      ELSE [f EXCEPT !.status = "built", !.ports = <<>>, !.branch = 0]
    BY <1>12 DEF FinishPlan, Plannable
  <2>2. builder'.segments = f.segments
    <3> HIDE DEF f
    <3> QED
      BY <1>2, <2>1 DEF BuilderRec, BuilderOf
  <2>3. CASE f.status = "failed"
    BY <1>2, <2>1, <2>2, <2>3 DEF MadeInv
  <2>4. CASE f.status # "failed"
    <3>1. f.layers = <<>> /\ InOrder(f, described)
      BY <2>1, <2>4, FinishedFirst
    <3> HIDE DEF f
    <3> DEFINE n == Len(f.segments)
    <3>2. n \in Nat /\ DOMAIN f.segments = 1 .. n
      BY <1>2, <2>1 DEF BuilderRec, BuilderOf
    <3>3. Ordered(View(f), n + 1, described)
      BY <3>1 DEF InOrder
    <3> HIDE DEF n
    <3>4. 1 \in 1 .. described
      BY <1>1, <2>1 DEF Shape
    <3>5. PICK i \in 1 .. n + 1 : \E j \in DOMAIN View(f)[i] : View(f)[i][j].number = 1
      BY <3>3, <3>4 DEF Ordered
    <3>6. View(f)[n + 1] = <<>>
      BY <3>1, <3>2 DEF View, n
    <3>7. i # n + 1
      BY <3>5, <3>6
    <3>8. n >= 1
      BY <3>2, <3>5, <3>7
    <3> QED
      BY <1>2, <2>1, <2>2, <3>8 DEF MadeInv, n
  <2> QED
    BY <2>3, <2>4
<1> QED
  BY <1>3, <1>4, <1>5, <1>6, <1>7, <1>8, <1>9, <1>10, <1>11, <1>12 DEF Describe

-----------------------------------------------------------------------------
(* What is proved                                                          *)

\* The invariant holds of every plan and at every layer of it.
THEOREM BuilderKeepsInv == BuilderSpec => []BuilderInv
<1>1. BuilderInit => BuilderInv
  BY BuilderInvInit
<1>2. BuilderInv /\ [Describe]_plan => BuilderInv'
  BY BuilderInvNext
<1> QED
  BY <1>1, <1>2, PTL DEF BuilderSpec

\* The lists of a pass are those of its segments and what is collected.
LEMMA OrderOfLists == BuilderInv => LayersKeptInOrder
<1> SUFFICES ASSUME BuilderInv, builder.status # "failed"
             PROVE  /\ UNION {NumbersIn(i) : i \in Lists} = 1 .. described
                    /\ \A i \in Lists : \A k \in i .. Len(segments) + 1 :
                         \A j \in DOMAIN LayersOf(i), l \in DOMAIN LayersOf(k) :
                           i < k \/ j < l =>
                             LayersOf(i)[j].number < LayersOf(k)[l].number
  BY DEF LayersKeptInOrder
<1>0. Len(segments) \in Nat
  BY DEF BuilderInv, Shape, BuilderRec, BuilderOf, segments
<1> DEFINE m == Len(builder.segments) + 1
<1>1. Ordered(View(builder), m, described)
  BY DEF BuilderInv, OrderInv, InOrder
<1>2. Lists = 1 .. m
  BY DEF Lists, segments
<1> HIDE DEF m
<1>3. \A i \in 1 .. m : View(builder)[i] = LayersOf(i)
  BY DEF View, LayersOf, segments, m
<1>4. \A i \in 1 .. m : \A x : x \in NumbersIn(i) <=>
        \E j \in DOMAIN View(builder)[i] : View(builder)[i][j].number = x
  BY <1>3 DEF NumbersIn
<1>5. \A x : x \in UNION {NumbersIn(i) : i \in Lists} <=> x \in 1 .. described
  BY <1>1, <1>2, <1>4 DEF Ordered
<1>6. UNION {NumbersIn(i) : i \in Lists} = 1 .. described
  BY <1>5
<1>7. \A i, k \in Lists : \A j \in DOMAIN LayersOf(i), l \in DOMAIN LayersOf(k) :
        LayersOf(i)[j].number < LayersOf(k)[l].number <=> i < k \/ (i = k /\ j < l)
  BY <1>1, <1>2, <1>3 DEF Ordered
<1>8. ASSUME NEW i \in Lists, NEW k \in i .. Len(segments) + 1,
             NEW j \in DOMAIN LayersOf(i), NEW l \in DOMAIN LayersOf(k), i < k \/ j < l
      PROVE  LayersOf(i)[j].number < LayersOf(k)[l].number
  <2>1. k \in Lists /\ (i < k \/ (i = k /\ j < l))
    BY <1>0, <1>8 DEF Lists
  <2> QED
    BY <1>7, <2>1
<1> QED
  BY <1>6, <1>8

\* build_segments loses no layer, repeats none and changes no order.
THEOREM BuilderKeepsOrder == BuilderSpec => []LayersKeptInOrder
BY BuilderKeepsInv, OrderOfLists, PTL

\* While sizes tell the streams apart, every segment is on the stream that its
\* layers were described for.
THEOREM BuilderRoutes == BuilderSpec => []RoutedWhenClear
<1>1. BuilderInv => RoutedWhenClear
  BY DEF BuilderInv, RoutedWhenClear, Routed, segments
<1> QED
  BY <1>1, BuilderKeepsInv, PTL

=============================================================================
