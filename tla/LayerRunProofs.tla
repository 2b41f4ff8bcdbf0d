--------------------------- MODULE LayerRunProofs ---------------------------
(***************************************************************************)
(* Theorems about LayerRun, for any layers and losses, any row of them and *)
(* any number of pieces of data, as long as the programs of each layer     *)
(* pass the check of ProgramChecks (LayersSafe); that the devices agree    *)
(* also takes that the implementations of each layer match (LayersMatch).  *)
(*                                                                         *)
(* The check reads a program from its start to its end, on its own.  The   *)
(* inductive invariants say that a job has, at every operation, what the   *)
(* reading says it has there: TempsInv of its temporaries, CleanInv of its *)
(* buffers, GradsInv of its slice of the gradients.  They hold whatever    *)
(* the other jobs do in between, because a job writes what is its own; and *)
(* they carry over from layer to layer because the check of a layer ends   *)
(* with what the check of the next begins with.                            *)
(*                                                                         *)
(* Jobs share two things.  One is the cache: CacheInv says that a job that *)
(* has put an entry and not taken it finds it under its key, as its own;   *)
(* for ids of handles that exist are apart, and so are the slices of the   *)
(* layers that put entries (KeysApart).  Entries that passes of validation *)
(* have left are under keys that are put again before they are taken.  The *)
(* other is the state: OwnInv says that what a pass uses of it is computed *)
(* from parameters only.  That is not so of layers made to remember, so    *)
(* OwnInv is an invariant of segments without one.                         *)
(*                                                                         *)
(* CleanInv and GradsInv also say what values come from (IsFrom).  The     *)
(* reading names the operands of one layer: its input, its parameters, the *)
(* gradient of its output.  Means replaces them by what they are to the    *)
(* segment, the sources of its input being those that the layers before    *)
(* give it (InAt), the sources of the gradient of its output those that    *)
(* the layers after give it (GoAt).  Where implementations match, neither  *)
(* depends on the device: two devices that ran the same layers hold values *)
(* with equal sources, although no operation of one is compared with one   *)
(* of the other.                                                           *)
(***************************************************************************)
EXTENDS LayerRun, TLAPS, WellFoundedInduction

-----------------------------------------------------------------------------
(* Numbers *)

\* A non-empty set of naturals has a least element.
LEMMA LeastNatural ==
  ASSUME NEW T \in SUBSET Nat, T # {}
  PROVE  \E x \in T : \A y \in T : x <= y
<1> DEFINE R == {ss \in Nat \X Nat : ss[1] < ss[2]}
<1>1. OpToRel(<, Nat) = R
  BY Zenon DEF OpToRel
<1>2. PICK x \in T : \A y \in T : ~ (<<y, x>> \in R)
  <2>1. IsWellFoundedOn(R, Nat)
    BY <1>1, NatLessThanWellFounded
  <2> HIDE DEF R
  <2> QED
    BY <2>1, WFMin
<1>3. ASSUME NEW y \in T PROVE x <= y
  <2>1. x \in Nat /\ y \in Nat
    OBVIOUS
  <2>2. ~ (<<y, x>> \in R)
    BY <1>2
  <2>3. ~ (y < x)
    BY <2>1, <2>2
  <2> QED
    BY <2>1, <2>3
<1> QED
  BY <1>3

\* What holds at the beginning and goes on from one number to the next holds up
\* to the end: Good is the set of the numbers of which it holds.
LEMMA StepByStep ==
  ASSUME NEW N \in Nat, NEW Good, 0 \in Good,
         \A m \in 1 .. N : m - 1 \in Good => m \in Good
  PROVE  \A m \in 0 .. N : m \in Good
<1> DEFINE Bad == {m \in Nat : m <= N /\ m \notin Good}
<1>1. SUFFICES ASSUME Bad # {} PROVE FALSE
  OBVIOUS
<1>2. PICK m \in Bad : \A y \in Bad : m <= y
  <2>1. Bad \in SUBSET Nat
    OBVIOUS
  <2> HIDE DEF Bad
  <2> QED
    BY <1>1, <2>1, LeastNatural
<1>3. m # 0 /\ m - 1 \in Nat /\ m - 1 \notin Bad
  BY <1>2
<1> QED
  BY <1>2, <1>3

-----------------------------------------------------------------------------
(* Reading a program *)

\* Only an operation that fits, after others that do, leaves ok.
LEMMA AfterIs ==
  ASSUME NEW r, NEW o, NEW len, After(r, o, len).ok
  PROVE  r.ok /\ OpFits(r, o, len) /\ After(r, o, len) = Changed(r, o, len)
  BY DEF After, Rejected

\* Known goes through the operations one by one.
LEMMA KnownIs ==
  ASSUME NEW p, IsProgram(p), NEW start, NEW len
  PROVE  /\ Known(p, start, len)[0] = start
         /\ \A n \in 1 .. Len(p) :
              Known(p, start, len)[n] = After(Known(p, start, len)[n - 1], p[n], len)
<1> DEFINE N == Len(p)
           Body(f, n) == IF n = 0 THEN start ELSE After(f[n - 1], p[n], len)
           Upto(f, m) == f = [n \in 0 .. m |-> Body(f, n)]
           Good == {m \in 0 .. N : \E f : Upto(f, m)}
<1>0. N \in Nat
  BY DEF IsProgram
<1> HIDE DEF N
<1>1. 0 \in Good
  <2> DEFINE g == [n \in 0 .. 0 |-> start]
  <2>1. Upto(g, 0)
    OBVIOUS
  <2> HIDE DEF Upto
  <2> QED
    BY <1>0, <2>1
<1>2. ASSUME NEW m \in 1 .. N, m - 1 \in Good PROVE m \in Good
  <2>1. PICK f : Upto(f, m - 1)
    BY <1>2
  <2> DEFINE last == After(f[m - 1], p[m], len)
             g == [n \in 0 .. m |-> IF n = m THEN last ELSE f[n]]
  <2>0. m \in Nat /\ m # 0 /\ m - 1 \in 0 .. m
    BY <1>0
  <2>2. ASSUME NEW n \in 0 .. m PROVE g[n] = Body(g, n)
    <3>1. CASE n = m
      <4>1. g[m - 1] = f[m - 1] /\ g[n] = last
        BY <2>0, <3>1
      <4> HIDE DEF g
      <4> QED
        BY <2>0, <3>1, <4>1
    <3>2. CASE n # m
      <4>1. n \in 0 .. m - 1 /\ g[n] = f[n]
        BY <2>0, <3>2
      <4>2. f[n] = Body(f, n)
        BY <2>1, <4>1
      <4>3. n # 0 => n - 1 \in 0 .. m /\ n - 1 # m
        BY <2>0, <4>1
      <4>4. n # 0 => g[n - 1] = f[n - 1]
        BY <4>3
      <4> HIDE DEF g
      <4> QED
        BY <4>1, <4>2, <4>4
    <3> QED
      BY <3>1, <3>2
  <2>3. Upto(g, m)
    <3>1. g = [n \in 0 .. m |-> g[n]]
      OBVIOUS
    <3> HIDE DEF g
    <3> QED
      BY <2>2, <3>1
  <2> HIDE DEF Upto
  <2> QED
    BY <2>3
<1>3. N \in Good
  <2> HIDE DEF Good
  <2>1. \A m \in 0 .. N : m \in Good
    BY <1>0, <1>1, <1>2, StepByStep
  <2> QED
    BY <1>0, <2>1
<1>4. PICK f : Upto(f, N)
  BY <1>3
<1>5. Known(p, start, len) = [n \in 0 .. N |-> Body(Known(p, start, len), n)]
  BY <1>4 DEF Known, N
<1> QED
  <2> DEFINE K == Known(p, start, len)
  <2>1. K[0] = Body(K, 0)
    <3> HIDE DEF Body
    <3> QED
      BY <1>0, <1>5
  <2>2. ASSUME NEW n \in 1 .. N PROVE K[n] = Body(K, n)
    <3> HIDE DEF Body
    <3> QED
      BY <1>0, <1>5
  <2> HIDE DEF K
  <2>3. \A n \in 1 .. N : K[n] = After(K[n - 1], p[n], len)
    BY <1>0, <2>2
  <2> QED
    BY <2>1, <2>3 DEF K, N

\* A program that is ok at its end was so all along.
LEMMA OkAllAlong ==
  ASSUME NEW p, IsProgram(p), NEW start, NEW len, Known(p, start, len)[Len(p)].ok,
         NEW n \in 1 .. Len(p)
  PROVE  /\ OpFits(Known(p, start, len)[n - 1], p[n], len)
         /\ Known(p, start, len)[n] = Changed(Known(p, start, len)[n - 1], p[n], len)
<1> DEFINE N == Len(p)
           K == Known(p, start, len)
           Good == {i \in 0 .. N : K[N - i].ok}
<1>0. N \in Nat
  BY DEF IsProgram
<1>1. \A i \in 1 .. N : K[i] = After(K[i - 1], p[i], len)
  BY KnownIs
<1>2. K[N].ok
  OBVIOUS
<1> HIDE DEF N, K
<1>3. 0 \in Good
  BY <1>0, <1>2
<1>4. ASSUME NEW i \in 1 .. N, i - 1 \in Good PROVE i \in Good
  <2> DEFINE m == N - (i - 1)
  <2>1. m \in 1 .. N /\ m - 1 = N - i /\ i \in 0 .. N
    BY <1>0
  <2>2. K[m].ok
    BY <1>4
  <2> HIDE DEF m
  <2>3. K[m] = After(K[m - 1], p[m], len)
    BY <1>1, <2>1
  <2>4. K[m - 1].ok
    BY <2>2, <2>3, AfterIs
  <2> QED
    BY <2>1, <2>4
<1> HIDE DEF Good
<1>5. \A i \in 0 .. N : i \in Good
  BY <1>0, <1>3, <1>4, StepByStep
<1>6. n \in 1 .. N /\ N - n \in 0 .. N /\ N - (N - n) = n
  BY <1>0 DEF N
<1>7. K[n].ok
  BY <1>5, <1>6 DEF Good
<1>8. K[n] = After(K[n - 1], p[n], len)
  BY <1>1, <1>6
<1>9. OpFits(K[n - 1], p[n], len) /\ K[n] = Changed(K[n - 1], p[n], len)
  BY <1>7, <1>8, AfterIs
<1> QED
  BY <1>9 DEF K

-----------------------------------------------------------------------------
(* What is known of a pass: of segment s, on device d, at layer k *)

CodeOf(s, k) == Programs[s[k]]
Passes(s, d, k) == IF d = "cpu" THEN CodeOf(s, k).cpu ELSE CodeOf(s, k).gpu

\* What a layer has before its forward pass; the gradients that are zero
\* before its backward pass.
Inputs(s, k) == [v \in GivenTo(s[k]) |-> {v}]
ZeroedOf(s, d, k) == [c \in ZeroedOn(d, CodeOf(s, k)) |-> {}]

InForward(s, d, k) ==
  ForwardKnown(Passes(s, d, k).fwd, GivenTo(s[k]), CodeOf(s, k).len)
ForwardEnd(s, d, k) == InForward(s, d, k)[Len(Passes(s, d, k).fwd)]
Context(s, d, k) == Saved(Passes(s, d, k).fwd, ForwardEnd(s, d, k))

InBackward(s, d, k) ==
  BackwardKnown(Passes(s, d, k).bwd, Context(s, d, k), ZeroedOn(d, CodeOf(s, k)),
                CodeOf(s, k).len)
BackwardEnd(s, d, k) == InBackward(s, d, k)[Len(Passes(s, d, k).bwd)]

Checked(s, d, k) ==
  PassesChecked(Passes(s, d, k), GivenTo(s[k]), ZeroedOn(d, CodeOf(s, k)), CodeOf(s, k).len)

\* What is known where a job is.
KnownAt(s, d, a) ==
  IF a.pass = "fwd" THEN InForward(s, d, a.layer)[a.op - 1]
  ELSE InBackward(s, d, a.layer)[a.op - 1]

Passing(a) == a.pass \in {"fwd", "bwd"}
ProgramAt(s, d, a) == IF a.pass = "fwd" THEN Passes(s, d, a.layer).fwd
                      ELSE Passes(s, d, a.layer).bwd

-----------------------------------------------------------------------------
(* What the operands of a layer are to the segment: its data, and the        *)
(* parameters of all layers *)

\* The implementations of each layer of s match.
Matches(s) ==
  \A k \in 1 .. Len(s) : CodeOf(s, k).gpu.fwd # <<>> /\ s[k] \in MatchingLayers

\* An operand of layer k, when its input came from in and the gradient of its
\* output from go.
OperandMeans(s, e, k, in, go, y) ==
  IF y = X THEN in ELSE IF y = GradOut THEN go
  ELSE IF y = Target THEN {<<"t", e>>}
  ELSE IF y[1] = "p" THEN {<<y[2], SliceStarts(s)[k] + y[3], y[4]>>} ELSE {y}
MeansWith(s, e, k, in, go, operands) ==
  (UNION {OperandMeans(s, e, k, in, go, y) : y \in operands}) \ {One}

\* What goes on from layer to layer: row n says what layer computes it, and
\* from which operands.
Link(s, e, row, v) ==
  MeansWith(s, e, row.layer, IF row.fwd THEN v ELSE row.in, IF row.fwd THEN {} ELSE v, row.from)
Chain(s, e, first, rows, N) ==
  LET chain[n \in 0 .. N] == IF n = 0 THEN first ELSE Link(s, e, rows[n], chain[n - 1])
  IN chain

\* Where the input of layer k comes from; that of the layer after the last is
\* the output of the segment.
Outputs(s) ==
  [k \in 1 .. Len(s) |->
     [fwd |-> TRUE, layer |-> k, in |-> {}, from |-> ForwardEnd(s, "cpu", k).holds[Y]]]
InAt(s, e, k) == Chain(s, e, {<<"x", e>>}, Outputs(s), Len(s))[k - 1]

\* Where the gradient of the output of layer k comes from; that of layer 0 is
\* the gradient of the segment's input.
GradIns(s, e) ==
  [n \in 1 .. Len(s) |->
     LET k == Len(s) + 1 - n
     IN [fwd |-> FALSE, layer |-> k, in |-> InAt(s, e, k),
         from |-> BackwardEnd(s, "cpu", k).holds[GradIn]]]
GoAt(s, e, k) == Chain(s, e, {<<"go", e>>}, GradIns(s, e), Len(s))[Len(s) - k]

Means(s, e, k, operands) == MeansWith(s, e, k, InAt(s, e, k), GoAt(s, e, k), operands)

\* The series of Mamba begins with 1 on the GPU and without it on the CPU.
SourcesIn(s, v) == IF \E k \in DOMAIN s : s[k] = "Mamba" THEN v \ {One} ELSE v

-----------------------------------------------------------------------------
(* The inductive invariant *)

IsSegment(s) ==
  /\ Len(s) \in Nat \ {0} /\ DOMAIN s = 1 .. Len(s)
  /\ \A k \in 1 .. Len(s) : s[k] \in DOMAIN Programs

IsPlace(s, d, a) ==
  \/ a \in {Idle, Between, Done, Dropped}
  \/ /\ Passing(a) /\ a.layer \in 1 .. Len(s)
     /\ a.op \in 1 .. Len(ProgramAt(s, d, a)) + 1
     /\ a = At(a.pass, a.layer, a.op)

\* Of the job on device d that is at a.
PlaceOk(s, d, a) ==
  /\ IsPlace(s, d, a)
  /\ a # Idle => \A k \in 1 .. Len(s) : Checked(s, d, k)

\* Where layer k has put an entry into the cache and not taken it back, when a
\* job is at a.
Inserts(s, k) == Places(Passes(s, "gpu", k).fwd, "insert")
Removes(s, k) == Places(Passes(s, "gpu", k).bwd, "remove")
InCache(s, a, k) ==
  /\ Inserts(s, k) # {}
  /\ \/ a = Between
     \/ a.pass = "fwd" /\ (k < a.layer \/ (k = a.layer /\ \E n \in Inserts(s, k) : n < a.op))
     \/ a.pass = "bwd" /\ (k < a.layer \/ (k = a.layer /\ \A n \in Removes(s, k) : a.op <= n))

\* The entry is there, under the key of the job, and is the job's.
Entry(s, k, id) == cache_key(SliceStarts(s)[k], id)
CacheOk(s, a, c, id, j) ==
  \A k \in 1 .. Len(s) :
    InCache(s, a, k) => Entry(s, k, id) \in DOMAIN c /\ c[Entry(s, k, id)] = j
CacheInv ==
  /\ DOMAIN input_id = Jobs
  /\ \A i \in Jobs : \A j \in Jobs :
       HoldsInput(i) /\ HoldsInput(j) /\ i # j => input_id[i] # input_id[j]
  /\ \A j \in Jobs :
       Device(j) = "gpu" => CacheOk(seg, at[j], forward_cache, input_id[j], j)

TypeInv ==
  /\ IsSegment(seg) /\ LayersSafe /\ CacheInv
  /\ DOMAIN at = Jobs /\ DOMAIN mem = Jobs /\ DOMAIN bound = Jobs
  /\ DOMAIN grads = Jobs /\ DOMAIN result = Jobs
  /\ DOMAIN state = {"cpu", "gpu"}
  /\ \A j \in Jobs :
       /\ PlaceOk(seg, Device(j), at[j])
       /\ DOMAIN mem[j] = 1 .. Len(seg) /\ DOMAIN grads[j] = Cells

\* The names of a pass stand for the temporaries the reading says.
BoundOk(s, d, a, b) == b = IF Passing(a) THEN KnownAt(s, d, a).taken ELSE EmptyMap
TempsInv ==
  misfreed = {} /\ \A j \in Jobs : BoundOk(seg, Device(j), at[j], bound[j])

\* Neither left over from the last user of a buffer nor from another pass.
Fresh(v) == Stale \notin v /\ Old \notin v

\* A value of layer k is what was computed from these operands, and nothing of
\* what was left over.
IsFrom(s, e, k, value, operands) ==
  /\ Fresh(value)
  /\ Matches(s) => SourcesIn(s, value) = Means(s, e, k, operands)

\* The buffers of layer k that hold nothing but what was computed, when a job
\* is at a, and what each was computed from.
Expected(s, d, a, k) ==
  IF Passing(a) /\ k = a.layer THEN KnownAt(s, d, a).holds
  ELSE IF a = Idle \/ (a.pass = "fwd" /\ k > a.layer) THEN Without(Inputs(s, k), X)
  ELSE IF a = Between \/ a.pass = "fwd" \/ (a.pass = "bwd" /\ k < a.layer)
         THEN Context(s, d, k)
  ELSE EmptyMap

\* A buffer v is there and is what was computed from these operands.
Has(s, e, k, m, v, operands) ==
  Local(v) /\ v \in DOMAIN m /\ IsFrom(s, e, k, m[v], operands)
CleanOk(s, d, a, e, m) ==
  \A k \in 1 .. Len(s) : \A v \in DOMAIN Expected(s, d, a, k) :
    Has(s, e, k, m[k], v, Expected(s, d, a, k)[v])

\* The entries of the state of layer k that a pass is computed from
UsedBy(s, d, k) ==
  Used(EffectsOf(Passes(s, d, k).fwd) \cup EffectsOf(Passes(s, d, k).bwd))

\* What is used of the state only counts, where implementations match.
StateOk ==
  \A d \in {"cpu", "gpu"} : \A key \in DOMAIN state[d] :
    /\ Fresh(state[d][key])
    /\ Matches(seg) /\ key[1] \in 1 .. Len(seg) /\ key[2] \in UsedBy(seg, d, key[1])
         => state[d][key] = {}

\* What a job at a has left: the output, the gradient of the input.
ResultOk(s, a, e, r) ==
  /\ \A n \in DOMAIN r : Fresh(r[n])
  /\ Matches(s) =>
       /\ a = Between \/ a.pass = "bwd" \/ a = Done =>
            "out" \in DOMAIN r /\ SourcesIn(s, r["out"]) = InAt(s, e, Len(s) + 1)
       /\ a = Done => "gi" \in DOMAIN r /\ SourcesIn(s, r["gi"]) = GoAt(s, e, 0)
NoStale(g) == \A c \in DOMAIN g : Stale \notin g[c]

CleanInv ==
  /\ StateOk
  /\ \A j \in Jobs :
       /\ CleanOk(seg, Device(j), at[j], j[2], mem[j])
       /\ ResultOk(seg, at[j], j[2], result[j]) /\ NoStale(grads[j])

\* Nothing of other data than e; of no data at all.
DataOf(e) == {<<"x", e>>, <<"go", e>>, <<"t", e>>}
NoData(v) == \A e \in Data : v \cap DataOf(e) = {}
OwnTo(e, v) == \A f \in Data : f # e => v \cap DataOf(f) = {}

PrivateState ==
  \A d \in {"cpu", "gpu"} : \A key \in DOMAIN state[d] :
    key[2] \in UsedBy(seg, d, key[1]) => NoData(state[d][key])
OwnAll(e, f) == \A n \in DOMAIN f : OwnTo(e, f[n])

OwnInv ==
  /\ PrivateState
  /\ \A j \in Jobs :
       /\ \A k \in 1 .. Len(seg) : OwnAll(j[2], mem[j][k])
       /\ OwnAll(j[2], grads[j]) /\ OwnAll(j[2], result[j])

\* The cells of layer k that are written over, and what from; that have the
\* gradient.
AllOf(s, k) == 0 .. CodeOf(s, k).len - 1
Gives(s, d, k) == [c \in AllOf(s, k) |-> BackwardEnd(s, d, k).gives[c]]
GivesAt(s, d, a, k) ==
  IF a.pass = "bwd"
    THEN IF k = a.layer THEN KnownAt(s, d, a).gives
         ELSE IF k > a.layer THEN Gives(s, d, k) ELSE ZeroedOf(s, d, k)
  ELSE IF a = Done THEN Gives(s, d, k) ELSE EmptyMap
ReachedAt(s, d, a, k) ==
  IF a.pass = "bwd"
    THEN IF k = a.layer THEN KnownAt(s, d, a).reached
         ELSE IF k > a.layer THEN AllOf(s, k) ELSE {}
  ELSE IF a = Done THEN AllOf(s, k) ELSE {}

SlicesOk(s, d, a, e, g) ==
  \A k \in 1 .. Len(s) :
    /\ \A c \in DOMAIN GivesAt(s, d, a, k) :
         /\ c \in AllOf(s, k)
         /\ IsFrom(s, e, k, g[SliceStarts(s)[k] + c], GivesAt(s, d, a, k)[c])
    /\ \A c \in ReachedAt(s, d, a, k) :
         c \in AllOf(s, k) /\ <<"go", e>> \in g[SliceStarts(s)[k] + c]
\* The buffers of the layer that have the gradient of the output
LedOk(s, d, a, e, m) ==
  a.pass = "bwd" =>
    \A v \in KnownAt(s, d, a).led :
      Local(v) /\ v \in DOMAIN m[a.layer] /\ <<"go", e>> \in m[a.layer][v]
\* Slice(s, k): where the gradients of layer k are.
Slice(s, k) == SliceStarts(s)[k] .. SliceStarts(s)[k] + CodeOf(s, k).len - 1
OutsideOk(s, g) ==
  \A c \in DOMAIN g : (\A k \in 1 .. Len(s) : c \notin Slice(s, k)) => g[c] \subseteq {Old}

GradsInv ==
  \A j \in Jobs :
    /\ SlicesOk(seg, Device(j), at[j], j[2], grads[j])
    /\ LedOk(seg, Device(j), at[j], j[2], mem[j])
    /\ OutsideOk(seg, grads[j])

-----------------------------------------------------------------------------
(* Steps of the reading *)

\* The programs of a layer of a segment are programs.
LEMMA PassesArePrograms ==
  ASSUME NEW s, IsSegment(s), NEW d, NEW k \in 1 .. Len(s)
  PROVE  /\ IsProgram(Passes(s, d, k).fwd) /\ IsProgram(Passes(s, d, k).bwd)
         /\ CodeOf(s, k).len \in Nat
  BY LayersAssumption DEF IsSegment, Passes, CodeOf

\* The operation a pass is at fits what is known there, and what is known of
\* the next is what it changes.
LEMMA OperationFits ==
  ASSUME NEW s, IsSegment(s), NEW d, NEW a, IsPlace(s, d, a), Passing(a),
         Checked(s, d, a.layer), a.op <= Len(ProgramAt(s, d, a))
  PROVE  LET o == ProgramAt(s, d, a)[a.op]
             len == CodeOf(s, a.layer).len
         IN /\ OpFits(KnownAt(s, d, a), o, len)
            /\ KnownAt(s, d, At(a.pass, a.layer, a.op + 1))
                 = Changed(KnownAt(s, d, a), o, len)
<1> DEFINE k == a.layer
           n == a.op
           len == CodeOf(s, k).len
<1>0. a = At(a.pass, k, n) /\ k \in 1 .. Len(s)
  BY DEF IsPlace, Passing, Idle, Between, Done, Dropped
<1>1. IsProgram(Passes(s, d, k).fwd) /\ IsProgram(Passes(s, d, k).bwd)
  BY <1>0, PassesArePrograms
<1>2. n \in 1 .. Len(ProgramAt(s, d, a)) /\ n \in Int
  BY <1>0, <1>1 DEF IsPlace, Passing, Idle, Between, Done, Dropped, ProgramAt, IsProgram
<1>3. CASE a.pass = "fwd"
  <2> DEFINE p == Passes(s, d, k).fwd
  <2>1. Known(p, Begins(Inputs(s, k), {}, EmptyMap), len)[Len(p)].ok
    BY DEF Checked, PassesChecked, ForwardRead, ForwardEnds, ForwardKnown, Inputs
  <2>2. ProgramAt(s, d, a) = p /\ n \in 1 .. Len(p)
    BY <1>2, <1>3 DEF ProgramAt
  <2>3. /\ KnownAt(s, d, a) = Known(p, Begins(Inputs(s, k), {}, EmptyMap), len)[n - 1]
        /\ KnownAt(s, d, At(a.pass, k, n + 1))
             = Known(p, Begins(Inputs(s, k), {}, EmptyMap), len)[n]
    <3> DEFINE b == At(a.pass, k, n + 1)
    <3>1. b.pass = "fwd" /\ b.layer = k /\ b.op - 1 = n
      BY <1>2, <1>3 DEF At
    <3> HIDE DEF b
    <3>2. KnownAt(s, d, b) = InForward(s, d, k)[n]
      BY <3>1 DEF KnownAt
    <3> QED
      BY <1>3, <3>2 DEF KnownAt, InForward, ForwardKnown, Inputs, b
  <2> HIDE DEF p, len, n, k
  <2>4. /\ OpFits(Known(p, Begins(Inputs(s, k), {}, EmptyMap), len)[n - 1], p[n], len)
        /\ Known(p, Begins(Inputs(s, k), {}, EmptyMap), len)[n]
             = Changed(Known(p, Begins(Inputs(s, k), {}, EmptyMap), len)[n - 1], p[n], len)
    BY <1>1, <2>1, <2>2, OkAllAlong DEF p
  <2> QED
    BY <2>2, <2>3, <2>4 DEF len, n, k
<1>4. CASE a.pass = "bwd"
  <2> DEFINE p == Passes(s, d, k).bwd
             start
               == Begins(With(Context(s, d, k), GradOut, {GradOut}), {GradOut}, ZeroedOf(s, d, k))
  <2>1. Known(p, start, len)[Len(p)].ok
    BY DEF Checked, PassesChecked, BackwardRead, ForwardRead, ForwardEnds, BackwardEnds,
           BackwardKnown, Context, ForwardEnd, InForward, ZeroedOf
  <2>2. ProgramAt(s, d, a) = p /\ n \in 1 .. Len(p)
    BY <1>2, <1>4 DEF ProgramAt
  <2>3. /\ KnownAt(s, d, a) = Known(p, start, len)[n - 1]
        /\ KnownAt(s, d, At(a.pass, k, n + 1)) = Known(p, start, len)[n]
    <3> DEFINE b == At(a.pass, k, n + 1)
    <3>1. b.pass = "bwd" /\ b.layer = k /\ b.op - 1 = n
      BY <1>2, <1>4 DEF At
    <3> HIDE DEF b
    <3>2. KnownAt(s, d, b) = InBackward(s, d, k)[n]
      BY <3>1 DEF KnownAt
    <3> QED
      BY <1>4, <3>2 DEF KnownAt, InBackward, BackwardKnown, ZeroedOf, b
  <2> HIDE DEF p, len, n, k, start
  <2>4. /\ OpFits(Known(p, start, len)[n - 1], p[n], len)
        /\ Known(p, start, len)[n] = Changed(Known(p, start, len)[n - 1], p[n], len)
    BY <1>1, <2>1, <2>2, OkAllAlong DEF p
  <2> QED
    BY <2>2, <2>3, <2>4 DEF len, n, k
<1> QED
  BY <1>3, <1>4 DEF Passing

\* Where a pass begins, and what is known where it ends.
LEMMA PassEnds ==
  ASSUME NEW s, IsSegment(s), NEW d, NEW k \in 1 .. Len(s), Checked(s, d, k)
  PROVE  /\ KnownAt(s, d, At("fwd", k, 1)) = Begins(Inputs(s, k), {}, EmptyMap)
         /\ KnownAt(s, d, At("bwd", k, 1))
              = Begins(With(Context(s, d, k), GradOut, {GradOut}), {GradOut}, ZeroedOf(s, d, k))
         /\ KnownAt(s, d, At("fwd", k, Len(Passes(s, d, k).fwd) + 1)) = ForwardEnd(s, d, k)
         /\ KnownAt(s, d, At("bwd", k, Len(Passes(s, d, k).bwd) + 1)) = BackwardEnd(s, d, k)
         /\ ForwardEnds(ForwardEnd(s, d, k))
         /\ BackwardEnds(BackwardEnd(s, d, k), CodeOf(s, k).len)
<1>1. IsProgram(Passes(s, d, k).fwd) /\ IsProgram(Passes(s, d, k).bwd)
  BY PassesArePrograms
<1>2. /\ InForward(s, d, k)[0] = Begins(Inputs(s, k), {}, EmptyMap)
      /\ InBackward(s, d, k)[0]
           = Begins(With(Context(s, d, k), GradOut, {GradOut}), {GradOut}, ZeroedOf(s, d, k))
  BY <1>1, KnownIs DEF InForward, InBackward, ForwardKnown, BackwardKnown, Inputs, ZeroedOf
<1>3. /\ Len(Passes(s, d, k).fwd) + 1 - 1 = Len(Passes(s, d, k).fwd)
      /\ Len(Passes(s, d, k).bwd) + 1 - 1 = Len(Passes(s, d, k).bwd)
  BY <1>1 DEF IsProgram
<1>4. /\ ForwardEnds(ForwardEnd(s, d, k))
      /\ BackwardEnds(BackwardEnd(s, d, k), CodeOf(s, k).len)
  <2> DEFINE passes == Passes(s, d, k)
             given == GivenTo(s[k])
             zeroed == ZeroedOn(d, CodeOf(s, k))
             len == CodeOf(s, k).len
  <2>1. /\ ForwardEnds(ForwardRead(passes, given, len))
        /\ BackwardEnds(BackwardRead(passes, given, zeroed, len), len)
    BY DEF Checked, PassesChecked
  <2>2. ForwardRead(passes, given, len) = ForwardEnd(s, d, k)
    BY DEF ForwardRead, ForwardEnd, InForward
  <2>3. ForwardRead(passes, given, len).ok
    BY <2>1 DEF ForwardEnds
  <2>4. BackwardRead(passes, given, zeroed, len)
          = BackwardKnown(passes.bwd, Saved(passes.fwd, ForwardEnd(s, d, k)), zeroed, len)
              [Len(passes.bwd)]
    BY <2>2, <2>3 DEF BackwardRead
  <2>5. BackwardRead(passes, given, zeroed, len) = BackwardEnd(s, d, k)
    BY <2>4 DEF BackwardEnd, InBackward, Context
  <2> QED
    BY <2>1, <2>2, <2>5
<1> QED
  BY <1>2, <1>3, <1>4 DEF KnownAt, At, ForwardEnd, BackwardEnd

-----------------------------------------------------------------------------
(* Steps of a job *)

\* All that a pass that finds its entry sees of the cache
Caching(j) ==
  /\ HasOp(j, {"insert", "remove"}) /\ at' = Moved(j)
  /\ UNCHANGED <<seg, mem, bound, grads, state, result, misfreed>>

Step(j) ==
  \/ BeginForward(j) \/ BeginBackward(j) \/ Drop(j)
  \/ Allocate(j) \/ Release(j) \/ Exchange(j) \/ Compute(j) \/ Save(j) \/ Caching(j)
  \/ NextForward(j) \/ NextBackward(j)

\* What a step of j leaves alone.
LeavesOthers(j) ==
  /\ seg' = seg
  /\ DOMAIN at' = Jobs /\ DOMAIN mem' = Jobs /\ DOMAIN bound' = Jobs
  /\ DOMAIN grads' = Jobs /\ DOMAIN result' = Jobs
  /\ DOMAIN state' = {"cpu", "gpu"}
  /\ DOMAIN mem'[j] = 1 .. Len(seg) /\ DOMAIN grads'[j] = Cells
  /\ \A i \in Jobs \ {j} :
       /\ at'[i] = at[i] /\ mem'[i] = mem[i] /\ bound'[i] = bound[i]
       /\ grads'[i] = grads[i] /\ result'[i] = result[i]

\* A job changes what is its own.
LEMMA StepsLeaveOthers ==
  ASSUME TypeInv, NEW j \in Jobs, Step(j)
  PROVE  LeavesOthers(j)
<1> USE DEF TypeInv, LeavesOthers
<1>1. CASE BeginForward(j)
  BY <1>1 DEF BeginForward
<1>2. CASE BeginBackward(j)
  BY <1>2 DEF BeginBackward
<1>3. CASE Allocate(j)
  BY <1>3 DEF Allocate, Moved
<1>4. CASE Release(j)
  BY <1>4 DEF Release, Moved
<1>5. CASE Exchange(j)
  BY <1>5 DEF Exchange, Moved
<1>6. CASE Compute(j)
  BY <1>6 DEF Compute, Moved, GradsAfter
<1>7. CASE Save(j)
  BY <1>7 DEF Save, Moved
<1>8. CASE NextForward(j)
  BY <1>8 DEF NextForward
<1>9. CASE NextBackward(j)
  BY <1>9 DEF NextBackward
<1>10. CASE Drop(j)
  BY <1>10 DEF Drop
<1>11. CASE Caching(j)
  BY <1>11 DEF Caching, Moved
<1> QED
  BY <1>1, <1>2, <1>3, <1>4, <1>5, <1>6, <1>7, <1>8, <1>9, <1>10, <1>11 DEF Step

\* An operation of j: it fits what is known of the pass.
LEMMA Operating ==
  ASSUME TypeInv, NEW j \in Jobs, NEW kinds, HasOp(j, kinds), at' = Moved(j)
  PROVE  LET s == seg
             d == Device(j)
             a == at[j]
             o == ThisOp(j)
             len == CodeOf(s, a.layer).len
         IN /\ a.layer \in 1 .. Len(s) /\ Passing(a) /\ Checked(s, d, a.layer)
            /\ at'[j] = At(a.pass, a.layer, a.op + 1)
            /\ PlaceOk(s, d, at'[j]) /\ Passing(at'[j])
            /\ o.op \in kinds /\ OpFits(KnownAt(s, d, a), o, len)
            /\ KnownAt(s, d, at'[j]) = Changed(KnownAt(s, d, a), o, len)
            /\ o = ProgramAt(s, d, a)[a.op] /\ a.op \in 1 .. Len(ProgramAt(s, d, a))
<1> DEFINE s == seg
           d == Device(j)
           a == at[j]
           o == ThisOp(j)
           k == a.layer
<1>1. Passing(a) /\ PlaceOk(s, d, a) /\ IsSegment(s)
  BY DEF HasOp, InPass, Passing, TypeInv
<1>2. /\ k \in 1 .. Len(s) /\ a = At(a.pass, k, a.op)
      /\ a.op \in 1 .. Len(ProgramAt(s, d, a)) + 1 /\ a # Idle
  BY <1>1 DEF PlaceOk, IsPlace, Passing, Idle, Between, Done, Dropped
<1>3. Program(j, a.pass, k) = ProgramAt(s, d, a)
  BY <1>1 DEF Program, ProgramAt, Passes, CodeOf, Passing
<1>4. a.op <= Len(ProgramAt(s, d, a)) /\ o = ProgramAt(s, d, a)[a.op] /\ o.op \in kinds
  BY <1>3 DEF HasOp, ThisOp
<1>5. \A i \in 1 .. Len(s) : Checked(s, d, i)
  BY <1>1, <1>2 DEF PlaceOk
<1>6. at'[j] = At(a.pass, k, a.op + 1)
  <2>1. at'[j] = [at[j] EXCEPT !.op = @ + 1]
    BY DEF Moved, TypeInv
  <2>2. \A p, l, n : [At(p, l, n) EXCEPT !.op = @ + 1] = At(p, l, n + 1)
    BY DEF At
  <2> QED
    BY <1>2, <2>1, <2>2
<1>7. IsProgram(ProgramAt(s, d, a))
  BY <1>1, <1>2, PassesArePrograms DEF ProgramAt
<1>8. PlaceOk(s, d, at'[j]) /\ Passing(at'[j])
  <2> DEFINE b == at'[j]
  <2>1. b.pass = a.pass /\ b.layer = k /\ b.op = a.op + 1
    BY <1>6 DEF At
  <2>2. ProgramAt(s, d, b) = ProgramAt(s, d, a)
    BY <2>1 DEF ProgramAt
  <2>3. b.op \in 1 .. Len(ProgramAt(s, d, b)) + 1
    BY <1>2, <1>4, <1>7, <2>1, <2>2 DEF IsProgram
  <2>4. Passing(b) /\ b = At(b.pass, b.layer, b.op)
    BY <1>1, <1>6, <2>1 DEF Passing
  <2>5. IsPlace(s, d, b)
    BY <1>2, <2>1, <2>3, <2>4 DEF IsPlace
  <2> QED
    BY <1>5, <2>4, <2>5 DEF PlaceOk
<1>9. /\ OpFits(KnownAt(s, d, a), o, CodeOf(s, k).len)
      /\ KnownAt(s, d, at'[j]) = Changed(KnownAt(s, d, a), o, CodeOf(s, k).len)
  <2>1. IsPlace(s, d, a) /\ Checked(s, d, a.layer)
    BY <1>1, <1>2, <1>5 DEF PlaceOk
  <2> QED
    BY <1>1, <1>4, <1>6, <2>1, OperationFits
<1>10. a.op \in 1 .. Len(ProgramAt(s, d, a))
  BY <1>2, <1>4, <1>7 DEF IsProgram
<1> QED
  BY <1>1, <1>2, <1>4, <1>5, <1>6, <1>8, <1>9, <1>10

\* A pass may begin only where each layer has been checked.
LEMMA CheckedToBegin ==
  ASSUME TypeInv, NEW j \in Jobs, MayBegin(j), NEW k \in 1 .. Len(seg)
  PROVE  Checked(seg, Device(j), k)
<1>1. seg[k] \in CheckedLayers
  BY DEF TypeInv, LayersSafe
<1>2. LayerChecked(CodeOf(seg, k), GivenTo(seg[k]))
  BY <1>1 DEF CheckedLayers, CodeOf
<1>3. CASE Device(j) = "cpu"
  BY <1>2, <1>3 DEF LayerChecked, Checked, Passes
<1>4. CASE Device(j) = "gpu"
  <2>1. CodeOf(seg, k).gpu.fwd # <<>>
    BY <1>4 DEF MayBegin, KnownToGpu, CodeOf
  <2> QED
    BY <1>2, <1>4, <2>1 DEF LayerChecked, Checked, Passes
<1> QED
  BY <1>3, <1>4 DEF Jobs, Device

\* The beginning of a layer is a place.
LEMMA BeginningIsPlace ==
  ASSUME NEW s, IsSegment(s), NEW d, NEW k \in 1 .. Len(s), NEW pass \in {"fwd", "bwd"},
         \A i \in 1 .. Len(s) : Checked(s, d, i)
  PROVE  PlaceOk(s, d, At(pass, k, 1)) /\ Passing(At(pass, k, 1))
<1> DEFINE a == At(pass, k, 1)
<1>1. a.pass = pass /\ a.layer = k /\ a.op = 1
  BY DEF At
<1>2. Passing(a) /\ a = At(a.pass, a.layer, a.op)
  BY <1>1 DEF Passing
<1>3. IsProgram(ProgramAt(s, d, a))
  BY <1>1, PassesArePrograms DEF ProgramAt
<1>4. a.op \in 1 .. Len(ProgramAt(s, d, a)) + 1
  BY <1>1, <1>3 DEF IsProgram
<1>5. IsPlace(s, d, a)
  BY <1>1, <1>2, <1>4 DEF IsPlace
<1> QED
  BY <1>2, <1>5 DEF PlaceOk

\* A job at the end of a layer is behind its last operation.
LEMMA EndIs ==
  ASSUME TypeInv, NEW j \in Jobs, AtEnd(j)
  PROVE  at[j].op = Len(ProgramAt(seg, Device(j), at[j])) + 1
<1> DEFINE s == seg
           d == Device(j)
           a == at[j]
           k == a.layer
<1>1. Passing(a) /\ PlaceOk(s, d, a) /\ IsSegment(s)
  BY DEF AtEnd, InPass, Passing, TypeInv
<1>2. k \in 1 .. Len(s) /\ a.op \in 1 .. Len(ProgramAt(s, d, a)) + 1
  BY <1>1 DEF PlaceOk, IsPlace, Passing, Idle, Between, Done, Dropped
<1>3. Program(j, a.pass, k) = ProgramAt(s, d, a)
  BY <1>1 DEF Program, ProgramAt, Passes, CodeOf, Passing
<1>4. IsProgram(ProgramAt(s, d, a))
  BY <1>1, <1>2, PassesArePrograms DEF ProgramAt
<1> QED
  BY <1>2, <1>3, <1>4 DEF AtEnd, IsProgram

\* At the end of a layer its check says what is known.
LEMMA Ending ==
  ASSUME TypeInv, NEW j \in Jobs, AtEnd(j)
  PROVE  LET s == seg
             d == Device(j)
             a == at[j]
         IN /\ a.layer \in 1 .. Len(s) /\ Passing(a) /\ IsSegment(s)
            /\ \A i \in 1 .. Len(s) : Checked(s, d, i)
            /\ a.pass = "fwd" => /\ KnownAt(s, d, a) = ForwardEnd(s, d, a.layer)
                                 /\ ForwardEnds(ForwardEnd(s, d, a.layer))
            /\ a.pass = "bwd" =>
                 /\ KnownAt(s, d, a) = BackwardEnd(s, d, a.layer)
                 /\ BackwardEnds(BackwardEnd(s, d, a.layer), CodeOf(s, a.layer).len)
<1> DEFINE s == seg
           d == Device(j)
           a == at[j]
           k == a.layer
<1>1. Passing(a) /\ PlaceOk(s, d, a) /\ IsSegment(s)
  BY DEF AtEnd, InPass, Passing, TypeInv
<1>2. k \in 1 .. Len(s) /\ a = At(a.pass, k, a.op) /\ a # Idle
  BY <1>1 DEF PlaceOk, IsPlace, Passing, Idle, Between, Done, Dropped
<1>4. \A i \in 1 .. Len(s) : Checked(s, d, i)
  BY <1>1, <1>2 DEF PlaceOk
<1>6. a.op = Len(ProgramAt(s, d, a)) + 1
  BY EndIs
<1>7. a = At(a.pass, k, Len(ProgramAt(s, d, a)) + 1)
  BY <1>2, <1>6
<1>8. CASE a.pass = "fwd"
  <2>1. a = At("fwd", k, Len(Passes(s, d, k).fwd) + 1)
    BY <1>7, <1>8 DEF ProgramAt
  <2> QED
    BY <1>1, <1>2, <1>4, <1>8, <2>1, PassEnds
<1>9. CASE a.pass = "bwd"
  <2>1. a = At("bwd", k, Len(Passes(s, d, k).bwd) + 1)
    BY <1>7, <1>9 DEF ProgramAt
  <2> QED
    BY <1>1, <1>2, <1>4, <1>9, <2>1, PassEnds
<1> QED
  BY <1>1, <1>2, <1>4, <1>8, <1>9 DEF Passing

\* Where j is after a step.
LEMMA StepsKeepPlaces ==
  ASSUME TypeInv, NEW j \in Jobs, Step(j)
  PROVE  PlaceOk(seg, Device(j), at'[j])
<1>1. IsSegment(seg) /\ 1 \in 1 .. Len(seg) /\ Len(seg) \in 1 .. Len(seg)
  BY DEF TypeInv, IsSegment
<1>2. CASE BeginForward(j)
  <2>1. at'[j] = At("fwd", 1, 1)
    BY <1>2 DEF BeginForward, TypeInv
  <2>2. MayBegin(j)
    BY <1>2 DEF BeginForward
  <2> QED
    BY <1>1, <2>1, <2>2, CheckedToBegin, BeginningIsPlace
<1>3. CASE BeginBackward(j)
  <2>1. at'[j] = At("bwd", Len(seg), 1)
    BY <1>3 DEF BeginBackward, TypeInv
  <2>2. MayBegin(j)
    BY <1>3 DEF BeginBackward
  <2> QED
    BY <1>1, <2>1, <2>2, CheckedToBegin, BeginningIsPlace
<1>4. ASSUME NEW kinds, HasOp(j, kinds), at' = Moved(j) PROVE PlaceOk(seg, Device(j), at'[j])
  BY <1>4, Operating
<1>5. CASE NextForward(j)
  <2>1. AtEnd(j)
    BY <1>5 DEF NextForward
  <2> DEFINE k == at[j].layer
  <2>2. k \in 1 .. Len(seg) /\ \A i \in 1 .. Len(seg) : Checked(seg, Device(j), i)
    BY <2>1, Ending
  <2>3. \/ k < Len(seg) /\ at'[j] = At("fwd", k + 1, 1)
        \/ at'[j] = Between
    BY <1>5 DEF NextForward, TypeInv
  <2>4. CASE k < Len(seg) /\ at'[j] = At("fwd", k + 1, 1)
    <3>1. k + 1 \in 1 .. Len(seg)
      BY <1>1, <2>2, <2>4 DEF IsSegment
    <3> QED
      BY <1>1, <2>2, <2>4, <3>1, BeginningIsPlace
  <2>5. CASE at'[j] = Between
    BY <2>2, <2>5 DEF PlaceOk, IsPlace
  <2> QED
    BY <2>3, <2>4, <2>5
<1>6. CASE NextBackward(j)
  <2>1. AtEnd(j)
    BY <1>6 DEF NextBackward
  <2> DEFINE k == at[j].layer
  <2>2. k \in 1 .. Len(seg) /\ \A i \in 1 .. Len(seg) : Checked(seg, Device(j), i)
    BY <2>1, Ending
  <2>3. \/ k > 1 /\ at'[j] = At("bwd", k - 1, 1)
        \/ at'[j] = Done
    BY <1>6 DEF NextBackward, TypeInv
  <2>4. CASE k > 1 /\ at'[j] = At("bwd", k - 1, 1)
    <3>1. k - 1 \in 1 .. Len(seg)
      BY <1>1, <2>2, <2>4 DEF IsSegment
    <3> QED
      BY <1>1, <2>2, <2>4, <3>1, BeginningIsPlace
  <2>5. CASE at'[j] = Done
    BY <2>2, <2>5 DEF PlaceOk, IsPlace
  <2> QED
    BY <2>3, <2>4, <2>5
<1>7. CASE Drop(j)
  <2>1. at[j] = Between /\ at'[j] = Dropped
    BY <1>7 DEF Drop, TypeInv
  <2>2. \A i \in 1 .. Len(seg) : Checked(seg, Device(j), i)
    BY <2>1 DEF TypeInv, PlaceOk, Between, Idle
  <2> QED
    BY <2>1, <2>2 DEF PlaceOk, IsPlace
<1> QED
  BY <1>2, <1>3, <1>4, <1>5, <1>6, <1>7
  DEF Step, Allocate, Release, Exchange, Compute, Save, Caching

-----------------------------------------------------------------------------
(* Where slices begin *)

\* The slices follow one another.
LEMMA StartsAre ==
  ASSUME NEW s, IsSegment(s)
  PROVE  /\ DOMAIN SliceStarts(s) = 1 .. Len(s) + 1 /\ SliceStarts(s)[1] = 1
         /\ \A k \in 1 .. Len(s) :
              SliceStarts(s)[k + 1] = SliceStarts(s)[k] + CodeOf(s, k).len
<1> DEFINE N == Len(s)
           Body(f, k) == IF k = 1 THEN 1 ELSE f[k - 1] + Programs[s[k - 1]].len
           Upto(f, m) == f = [k \in 1 .. m + 1 |-> Body(f, k)]
           Good == {m \in 0 .. N : \E f : Upto(f, m)}
<1>0. N \in Nat
  BY DEF IsSegment
<1> HIDE DEF N
<1>1. 0 \in Good
  <2> DEFINE g == [k \in 1 .. 1 |-> 1]
  <2>1. Upto(g, 0)
    OBVIOUS
  <2> HIDE DEF Upto
  <2> QED
    BY <1>0, <2>1
<1>2. ASSUME NEW m \in 1 .. N, m - 1 \in Good PROVE m \in Good
  <2>1. PICK f : Upto(f, m - 1)
    BY <1>2
  <2> DEFINE last == f[m] + Programs[s[m]].len
             g == [k \in 1 .. m + 1 |-> IF k = m + 1 THEN last ELSE f[k]]
  <2>0. m \in Nat /\ m # 0 /\ m \in 1 .. m + 1 /\ m # m + 1 /\ m - 1 + 1 = m
    BY <1>0
  <2>2. ASSUME NEW k \in 1 .. m + 1 PROVE g[k] = Body(g, k)
    <3>1. CASE k = m + 1
      <4>1. g[m] = f[m] /\ g[k] = last /\ k - 1 = m /\ k # 1
        BY <2>0, <3>1
      <4> HIDE DEF g
      <4> QED
        BY <4>1
    <3>2. CASE k # m + 1
      <4>1. k \in 1 .. m /\ g[k] = f[k]
        BY <2>0, <3>2
      <4>2. f[k] = Body(f, k)
        BY <2>0, <2>1, <4>1
      <4>3. k # 1 => k - 1 \in 1 .. m + 1 /\ k - 1 # m + 1
        BY <2>0, <4>1
      <4>4. k # 1 => g[k - 1] = f[k - 1]
        BY <4>3
      <4> HIDE DEF g
      <4> QED
        BY <4>1, <4>2, <4>4
    <3> QED
      BY <3>1, <3>2
  <2>3. Upto(g, m)
    <3>1. g = [k \in 1 .. m + 1 |-> g[k]]
      OBVIOUS
    <3> HIDE DEF g
    <3> QED
      BY <2>2, <3>1
  <2> HIDE DEF Upto
  <2> QED
    BY <2>3
<1>3. N \in Good
  <2> HIDE DEF Good
  <2>1. \A m \in 0 .. N : m \in Good
    BY <1>0, <1>1, <1>2, StepByStep
  <2> QED
    BY <1>0, <2>1
<1>4. PICK f : Upto(f, N)
  BY <1>3
<1>5. SliceStarts(s) = [k \in 1 .. N + 1 |-> Body(SliceStarts(s), k)]
  BY <1>4 DEF SliceStarts, N
<1> QED
  <2> DEFINE K == SliceStarts(s)
  <2>1. DOMAIN K = 1 .. N + 1 /\ \A k \in 1 .. N + 1 : K[k] = Body(K, k)
    <3> HIDE DEF Body
    <3> QED
      BY <1>5
  <2> HIDE DEF K
  <2>2. K[1] = 1
    BY <1>0, <2>1
  <2>3. ASSUME NEW k \in 1 .. N PROVE K[k + 1] = K[k] + CodeOf(s, k).len
    <3>1. k + 1 \in 1 .. N + 1 /\ k + 1 # 1 /\ k + 1 - 1 = k
      BY <1>0
    <3> QED
      BY <2>1, <3>1 DEF CodeOf
  <2> QED
    BY <2>1, <2>2, <2>3 DEF K, N

\* A slice starts at a natural number.
LEMMA StartsAreNatural ==
  ASSUME NEW s, IsSegment(s), NEW k \in 1 .. Len(s) + 1
  PROVE  SliceStarts(s)[k] \in Nat
<1> DEFINE N == Len(s)
           K == SliceStarts(s)
           Good == {m \in 0 .. N : K[m + 1] \in Nat}
<1>0. N \in Nat
  BY DEF IsSegment
<1>1. K[1] = 1 /\ \A i \in 1 .. N : K[i + 1] = K[i] + CodeOf(s, i).len
  BY StartsAre
<1>2. \A i \in 1 .. N : CodeOf(s, i).len \in Nat
  BY PassesArePrograms
<1> HIDE DEF N, K
<1>3. 0 \in Good
  BY <1>0, <1>1
<1>4. ASSUME NEW m \in 1 .. N, m - 1 \in Good PROVE m \in Good
  <2>1. m - 1 + 1 = m /\ m \in 0 .. N
    BY <1>0
  <2> QED
    BY <1>1, <1>2, <1>4, <2>1
<1> HIDE DEF Good
<1>5. \A m \in 0 .. N : m \in Good
  BY <1>0, <1>3, <1>4, StepByStep
<1>6. k - 1 \in 0 .. N /\ k - 1 + 1 = k
  BY <1>0 DEF N
<1> QED
  BY <1>5, <1>6 DEF Good, K

\* A slice ends where a later one begins, or before.
LEMMA SlicesFollow ==
  ASSUME NEW s, IsSegment(s), NEW k \in 1 .. Len(s), NEW l \in 1 .. Len(s) + 1, k < l
  PROVE  SliceStarts(s)[k] + CodeOf(s, k).len <= SliceStarts(s)[l]
<1> DEFINE N == Len(s)
           K == SliceStarts(s)
           end == K[k] + CodeOf(s, k).len
           Good == {m \in 0 .. N - k : end <= K[k + 1 + m]}
<1>0. N \in Nat /\ k \in Nat /\ k >= 1 /\ k <= N /\ N - k \in Nat
  BY DEF IsSegment
<1>1. \A i \in 1 .. N : K[i + 1] = K[i] + CodeOf(s, i).len
  BY StartsAre
<1>2. \A i \in 1 .. N : CodeOf(s, i).len \in Nat
  BY PassesArePrograms
<1>3. \A i \in 1 .. N + 1 : K[i] \in Nat
  BY StartsAreNatural
<1>4. l \in Int /\ l <= N + 1 /\ k < l
  BY <1>0
<1> HIDE DEF N, K
<1>5. end = K[k + 1] /\ end \in Nat
  BY <1>0, <1>1, <1>2, <1>3
<1> HIDE DEF end
<1>6. 0 \in Good
  <2>1. k + 1 + 0 = k + 1
    BY <1>0
  <2> QED
    BY <1>0, <1>5, <2>1
<1>7. ASSUME NEW m \in 1 .. N - k, m - 1 \in Good PROVE m \in Good
  <2> DEFINE i == k + m
  <2>1. i \in 1 .. N /\ k + 1 + (m - 1) = i /\ k + 1 + m = i + 1 /\ m \in 0 .. N - k
    BY <1>0
  <2>2. end <= K[i]
    BY <1>7, <2>1
  <2> HIDE DEF i
  <2>3. i \in 1 .. N + 1 /\ K[i] \in Nat /\ K[i + 1] = K[i] + CodeOf(s, i).len
    BY <1>0, <1>1, <1>3, <2>1
  <2>4. end <= K[i + 1]
    BY <1>2, <1>5, <2>1, <2>2, <2>3
  <2> QED
    BY <2>1, <2>4
<1> HIDE DEF Good
<1>8. \A m \in 0 .. N - k : m \in Good
  BY <1>0, <1>6, <1>7, StepByStep
<1>9. l - k - 1 \in 0 .. N - k /\ k + 1 + (l - k - 1) = l
  BY <1>0, <1>4
<1>10. end <= K[l]
  BY <1>8, <1>9 DEF Good
<1> QED
  BY <1>10 DEF end, K

-----------------------------------------------------------------------------
(* The cache *)

\* Layers that put entries into the cache have slices that begin apart.
LEMMA KeysApart ==
  ASSUME NEW s, IsSegment(s), NEW k \in 1 .. Len(s), NEW l \in 1 .. Len(s), k # l,
         Checked(s, "gpu", k), Checked(s, "gpu", l), Inserts(s, k) # {}, Inserts(s, l) # {}
  PROVE  SliceStarts(s)[k] # SliceStarts(s)[l]
<1>1. CodeOf(s, k).len > 0 /\ CodeOf(s, l).len > 0
  BY DEF Checked, PassesChecked, CachePaired, Inserts
<1>2. CodeOf(s, k).len \in Nat /\ CodeOf(s, l).len \in Nat
  BY PassesArePrograms
<1>3. k \in 1 .. Len(s) + 1 /\ l \in 1 .. Len(s) + 1 /\ k \in Int /\ l \in Int
  BY DEF IsSegment
<1>4. SliceStarts(s)[k] \in Nat /\ SliceStarts(s)[l] \in Nat
  BY <1>3, StartsAreNatural
<1>5. CASE k < l
  <2>1. SliceStarts(s)[k] + CodeOf(s, k).len <= SliceStarts(s)[l]
    BY <1>3, <1>5, SlicesFollow
  <2> QED
    BY <1>1, <1>2, <1>4, <2>1
<1>6. CASE l < k
  <2>1. SliceStarts(s)[l] + CodeOf(s, l).len <= SliceStarts(s)[k]
    BY <1>3, <1>6, SlicesFollow
  <2> QED
    BY <1>1, <1>2, <1>4, <2>1
<1> QED
  BY <1>3, <1>5, <1>6

\* A job with an entry in the cache holds its input.
LEMMA EntryHolds ==
  ASSUME NEW j \in Jobs, Device(j) = "gpu", NEW s, NEW k, InCache(s, at[j], k)
  PROVE  HoldsInput(j)
  BY DEF InCache, HoldsInput, Between, Idle, Done, Dropped

\* Where the passes of a job on the GPU put entries and take them.
LEMMA CacheOps ==
  ASSUME TypeInv, NEW j \in Jobs, HasOp(j, {"insert", "remove"})
  PROVE  LET a == at[j]
             k == a.layer
         IN /\ IsSegment(seg) /\ k \in 1 .. Len(seg) /\ Passing(a) /\ Device(j) = "gpu"
            /\ \A i \in 1 .. Len(seg) : Checked(seg, "gpu", i)
            /\ a.op \in Int
            /\ ThisOp(j).op = "insert" => a.pass = "fwd" /\ a.op \in Inserts(seg, k)
            /\ ThisOp(j).op = "remove" =>
                 a.pass = "bwd" /\ Removes(seg, k) = {a.op} /\ InCache(seg, a, k)
<1> DEFINE s == seg
           d == Device(j)
           a == at[j]
           k == a.layer
           o == ThisOp(j)
<1>1. Passing(a) /\ PlaceOk(s, d, a) /\ IsSegment(s)
  BY DEF HasOp, InPass, Passing, TypeInv
<1>2. /\ k \in 1 .. Len(s) /\ a = At(a.pass, k, a.op)
      /\ a.op \in 1 .. Len(ProgramAt(s, d, a)) + 1 /\ a # Idle
  BY <1>1 DEF PlaceOk, IsPlace, Passing, Idle, Between, Done, Dropped
<1>3. Program(j, a.pass, k) = ProgramAt(s, d, a)
  BY <1>1 DEF Program, ProgramAt, Passes, CodeOf, Passing
<1>4. IsProgram(ProgramAt(s, d, a))
  BY <1>1, <1>2, PassesArePrograms DEF ProgramAt
<1>5. /\ a.op \in 1 .. Len(ProgramAt(s, d, a)) /\ o = ProgramAt(s, d, a)[a.op]
      /\ o.op \in {"insert", "remove"}
  BY <1>2, <1>3, <1>4 DEF HasOp, ThisOp, IsProgram
<1>6. \A i \in 1 .. Len(s) : Checked(s, d, i)
  BY <1>1, <1>2 DEF PlaceOk
<1>7. CachePaired(Passes(s, d, k), CodeOf(s, k).len)
  BY <1>2, <1>6 DEF Checked, PassesChecked
<1>8. a.op \in Places(ProgramAt(s, d, a), o.op)
  BY <1>5 DEF Places
<1>9. o.op = "insert" => a.pass = "fwd"
  BY <1>1, <1>7, <1>8 DEF CachePaired, ProgramAt, Passing
<1>10. o.op = "remove" => a.pass = "bwd"
  BY <1>1, <1>7, <1>8 DEF CachePaired, ProgramAt, Passing
<1>11. d = "gpu"
  <2>1. SUFFICES ASSUME d = "cpu" PROVE FALSE
    BY DEF Jobs, Device
  <2>2. LayerChecked(CodeOf(s, k), GivenTo(s[k]))
    BY <1>2 DEF TypeInv, LayersSafe, CheckedLayers, CodeOf
  <2>3. /\ Places(Passes(s, d, k).fwd, "insert") = {}
        /\ Places(Passes(s, d, k).bwd, "remove") = {}
    BY <2>1, <2>2 DEF LayerChecked, Passes
  <2> QED
    BY <1>5, <1>8, <1>9, <1>10, <2>3 DEF ProgramAt
<1>12. o.op = "insert" => a.op \in Inserts(s, k)
  BY <1>8, <1>9, <1>11 DEF ProgramAt, Inserts
<1>13. ASSUME o.op = "remove" PROVE Removes(s, k) = {a.op} /\ InCache(s, a, k)
  <2>1. a.op \in Removes(s, k)
    BY <1>8, <1>10, <1>11, <1>13 DEF ProgramAt, Removes
  <2>2. Removes(s, k) = {a.op} /\ Inserts(s, k) # {}
    BY <1>7, <1>11, <2>1 DEF CachePaired, Removes, Inserts
  <2>3. a.op <= a.op
    BY <1>5
  <2> QED
    BY <1>10, <1>13, <2>2, <2>3 DEF InCache
<1>14. a.op \in Int
  BY <1>5
<1> QED
  BY <1>1, <1>2, <1>6, <1>9, <1>10, <1>11, <1>12, <1>13, <1>14

\* A backward pass finds its entry, so that it goes on with the buffers it has.
LEMMA CachesQuietly ==
  ASSUME TypeInv, NEW j \in Jobs, PutCache(j) \/ TakeCache(j)
  PROVE  Caching(j)
<1>1. CASE PutCache(j)
  BY <1>1 DEF PutCache, Caching, HasOp
<1>2. CASE TakeCache(j)
  <2> DEFINE a == at[j]
             k == a.layer
  <2>1. HasOp(j, {"insert", "remove"}) /\ ThisOp(j).op = "remove"
    BY <1>2 DEF TakeCache, HasOp
  <2>2. InCache(seg, a, k) /\ Device(j) = "gpu" /\ k \in 1 .. Len(seg)
    BY <2>1, CacheOps
  <2>3. KeyOf(j) = Entry(seg, k, input_id[j])
    BY DEF KeyOf, Entry, Start
  <2>4. KeyOf(j) \in DOMAIN forward_cache /\ forward_cache[KeyOf(j)] = j
    BY <2>2, <2>3 DEF TypeInv, CacheInv, CacheOk
  <2> QED
    BY <1>2, <2>1, <2>4 DEF TakeCache, Caching
<1> QED
  BY <1>1, <1>2

LEMMA NextIsStep ==
  ASSUME TypeInv, Next
  PROVE  \E j \in Jobs : Step(j)
  BY CachesQuietly DEF Next, Step

\* A step that goes on where there is no entry more, and leaves the cache.
LEMMA CacheStays ==
  ASSUME TypeInv, NEW j \in Jobs, LeavesOthers(j), UNCHANGED <<input_id, forward_cache>>,
         HoldsInput(j)' => HoldsInput(j),
         Device(j) = "gpu" =>
           \A k \in 1 .. Len(seg) : InCache(seg, at'[j], k) => InCache(seg, at[j], k)
  PROVE  CacheInv'
<1>1. seg' = seg /\ \A i \in Jobs \ {j} : at'[i] = at[i]
  BY DEF LeavesOthers
<1>2. \A i \in Jobs : HoldsInput(i)' => HoldsInput(i)
  BY <1>1 DEF HoldsInput
<1>3. ASSUME NEW i \in Jobs, Device(i) = "gpu", NEW k \in 1 .. Len(seg), InCache(seg, at'[i], k)
      PROVE  InCache(seg, at[i], k)
  BY <1>1, <1>3
<1>4. \A i \in Jobs : Device(i) = "gpu" =>
        CacheOk(seg, at'[i], forward_cache, input_id[i], i)
  BY <1>3 DEF TypeInv, CacheInv, CacheOk
<1> QED
  BY <1>1, <1>2, <1>4 DEF TypeInv, CacheInv

\* An operation that is not one on the cache
LEMMA CacheMoves ==
  ASSUME TypeInv, NEW j \in Jobs, NEW kinds, HasOp(j, kinds), at' = Moved(j),
         {"insert", "remove"} \cap kinds = {}, LeavesOthers(j),
         UNCHANGED <<input_id, forward_cache>>
  PROVE  CacheInv'
<1> DEFINE a == at[j]
           k == a.layer
           o == ThisOp(j)
<1>1. /\ k \in 1 .. Len(seg) /\ Passing(a) /\ at'[j] = At(a.pass, k, a.op + 1) /\ o.op \in kinds
      /\ o = ProgramAt(seg, Device(j), a)[a.op]
      /\ a.op \in 1 .. Len(ProgramAt(seg, Device(j), a))
  BY Operating
<1>2. a.op \notin Inserts(seg, k) \/ a.pass # "fwd" \/ Device(j) # "gpu"
  BY <1>1 DEF Inserts, Places, ProgramAt
<1>3. at'[j].pass = a.pass /\ at'[j].layer = k /\ at'[j].op = a.op + 1 /\ at'[j] # Between
  BY <1>1 DEF At, Between, Passing
<1>4. a.op \in Int
  BY <1>1
<1>5. ASSUME Device(j) = "gpu", NEW i \in 1 .. Len(seg), InCache(seg, at'[j], i)
      PROVE  InCache(seg, a, i)
  <2>1. CASE i # k
    BY <1>3, <1>5, <2>1 DEF InCache
  <2>2. CASE i = k /\ a.pass = "fwd"
    <3>1. PICK n \in Inserts(seg, k) : n < a.op + 1
      BY <1>3, <1>5, <2>2 DEF InCache
    <3>2. n # a.op /\ n \in Int
      BY <1>2, <1>5, <2>2, <3>1 DEF Inserts, Places
    <3>3. n < a.op
      BY <1>4, <3>1, <3>2
    <3> QED
      BY <2>2, <3>1, <3>3 DEF InCache
  <2>3. CASE i = k /\ a.pass = "bwd"
    <3>1. \A n \in Removes(seg, k) : a.op + 1 <= n
      BY <1>3, <1>5, <2>3 DEF InCache
    <3>2. \A n \in Removes(seg, k) : n \in Int
      BY DEF Removes, Places
    <3>3. \A n \in Removes(seg, k) : a.op <= n
      BY <1>4, <3>1, <3>2
    <3> QED
      BY <1>5, <2>3, <3>3 DEF InCache
  <2> QED
    BY <1>1, <2>1, <2>2, <2>3 DEF Passing
<1>6. HoldsInput(j)' => HoldsInput(j)
  BY <1>1 DEF HoldsInput, Passing, Idle, Done, Dropped
<1> QED
  BY <1>5, <1>6, CacheStays

\* An entry that is put or taken is under no other key.
LEMMA CacheChanges ==
  ASSUME TypeInv, NEW j \in Jobs, PutCache(j) \/ TakeCache(j), Caching(j), LeavesOthers(j)
  PROVE  CacheInv'
<1> DEFINE a == at[j]
           k == a.layer
           o == ThisOp(j)
           key == Entry(seg, k, input_id[j])
<1>1. HasOp(j, {"insert", "remove"}) /\ at' = Moved(j)
  BY DEF Caching
<1>2. /\ IsSegment(seg) /\ k \in 1 .. Len(seg) /\ Passing(a) /\ Device(j) = "gpu"
      /\ \A i \in 1 .. Len(seg) : Checked(seg, "gpu", i)
      /\ a.op \in Int
      /\ o.op = "insert" => a.pass = "fwd" /\ a.op \in Inserts(seg, k)
      /\ o.op = "remove" => a.pass = "bwd" /\ Removes(seg, k) = {a.op} /\ InCache(seg, a, k)
  BY <1>1, CacheOps
<1>3. at'[j] = At(a.pass, k, a.op + 1)
  BY <1>1, Operating
<1>4. at'[j].pass = a.pass /\ at'[j].layer = k /\ at'[j].op = a.op + 1 /\ at'[j] # Between
  BY <1>2, <1>3 DEF At, Between, Passing
<1>5. HoldsInput(j)
  BY <1>2 DEF HoldsInput, Passing, Idle, Done, Dropped
<1>6. seg' = seg /\ input_id' = input_id /\ \A i \in Jobs \ {j} : at'[i] = at[i]
  BY DEF LeavesOthers, PutCache, TakeCache
<1>7. \A i \in Jobs : HoldsInput(i)' => HoldsInput(i)
  BY <1>5, <1>6 DEF HoldsInput
<1>8. KeyOf(j) = key
  BY DEF KeyOf, Entry, Start
<1>9. ASSUME NEW i \in Jobs, Device(i) = "gpu", NEW l \in 1 .. Len(seg),
             InCache(seg, at'[i], l), ~(i = j /\ l = k)
      PROVE  InCache(seg, at[i], l) /\ Entry(seg, l, input_id[i]) # key
  <2>1. CASE i = j
    <3>1. InCache(seg, a, l)
      BY <1>4, <1>9, <2>1 DEF InCache
    <3>2. Inserts(seg, k) # {}
      BY <1>1, <1>2 DEF InCache, HasOp
    <3>3. SliceStarts(seg)[l] # SliceStarts(seg)[k]
      BY <1>2, <1>9, <2>1, <3>1, <3>2, KeysApart DEF InCache
    <3> QED
      BY <2>1, <3>1, <3>3 DEF Entry, cache_key
  <2>2. CASE i # j
    <3>1. InCache(seg, at[i], l)
      BY <1>6, <1>9, <2>2
    <3>2. HoldsInput(i)
      BY <1>9, <3>1, EntryHolds
    <3>3. input_id[i] # input_id[j]
      BY <1>5, <2>2, <3>2 DEF TypeInv, CacheInv
    <3> QED
      BY <3>1, <3>3 DEF Entry, cache_key
  <2> QED
    BY <2>1, <2>2
<1>10. ASSUME NEW i \in Jobs, Device(i) = "gpu", NEW l \in 1 .. Len(seg),
              InCache(seg, at[i], l)
       PROVE  /\ Entry(seg, l, input_id[i]) \in DOMAIN forward_cache
              /\ forward_cache[Entry(seg, l, input_id[i])] = i
  BY <1>10 DEF TypeInv, CacheInv, CacheOk
<1> HIDE DEF key
<1>11. CASE PutCache(j)
  <2>1. forward_cache' = With(forward_cache, key, j)
    BY <1>8, <1>11 DEF PutCache
  <2>2. ASSUME NEW i \in Jobs, Device(i) = "gpu", NEW l \in 1 .. Len(seg),
               InCache(seg, at'[i], l)
        PROVE  /\ Entry(seg, l, input_id[i]) \in DOMAIN forward_cache'
               /\ forward_cache'[Entry(seg, l, input_id[i])] = i
    <3>1. CASE i = j /\ l = k
      BY <2>1, <3>1 DEF With, key
    <3>2. CASE ~(i = j /\ l = k)
      BY <1>9, <1>10, <2>1, <2>2, <3>2 DEF With
    <3> QED
      BY <3>1, <3>2
  <2> QED
    BY <1>6, <1>7, <2>2 DEF TypeInv, CacheInv, CacheOk
<1>12. CASE TakeCache(j)
  <2>1. o.op = "remove"
    BY <1>12 DEF TakeCache, HasOp
  <2>2. key \in DOMAIN forward_cache
    BY <1>2, <1>10, <2>1 DEF key
  <2>3. forward_cache' = Without(forward_cache, key)
    BY <1>8, <1>12, <2>2 DEF TakeCache
  <2>4. ~InCache(seg, at'[j], k)
    <3>1. ~(a.op + 1 <= a.op)
      BY <1>2
    <3> QED
      BY <1>2, <1>4, <2>1, <3>1 DEF InCache
  <2>5. ASSUME NEW i \in Jobs, Device(i) = "gpu", NEW l \in 1 .. Len(seg),
               InCache(seg, at'[i], l)
        PROVE  /\ Entry(seg, l, input_id[i]) \in DOMAIN forward_cache'
               /\ forward_cache'[Entry(seg, l, input_id[i])] = i
    <3>1. ~(i = j /\ l = k)
      BY <2>4, <2>5
    <3>2. InCache(seg, at[i], l) /\ Entry(seg, l, input_id[i]) # key
      BY <1>9, <2>5, <3>1
    <3>3. /\ Entry(seg, l, input_id[i]) \in DOMAIN forward_cache
          /\ forward_cache[Entry(seg, l, input_id[i])] = i
      BY <1>10, <2>5, <3>2
    <3> QED
      BY <2>3, <3>2, <3>3 DEF Without, Restrict
  <2> QED
    BY <1>6, <1>7, <2>5 DEF TypeInv, CacheInv, CacheOk
<1> QED
  BY <1>11, <1>12

\* A pass that begins has an id of its own, and no entry.
LEMMA CacheBegins ==
  ASSUME TypeInv, NEW j \in Jobs, BeginForward(j), LeavesOthers(j)
  PROVE  CacheInv'
<1>1. /\ seg' = seg /\ forward_cache' = forward_cache /\ at'[j] = At("fwd", 1, 1)
      /\ \A i \in Jobs \ {j} : at'[i] = at[i]
  BY DEF LeavesOthers, BeginForward, TypeInv
<1>2. PICK n \in InputIds(j) : input_id' = [input_id EXCEPT ![j] = n]
  BY DEF BeginForward
<1>3. /\ DOMAIN input_id' = Jobs /\ input_id'[j] = n
      /\ \A i \in Jobs \ {j} : input_id'[i] = input_id[i]
  BY <1>2 DEF TypeInv, CacheInv
<1>4. \A i \in Jobs \ {j} : HoldsInput(i)' => HoldsInput(i)
  BY <1>1 DEF HoldsInput
<1>5. Device(j) = "gpu" => \A i \in Jobs : HoldsInput(i) => input_id[i] # n
  BY <1>2 DEF InputIds
<1>6. HoldsInput(j)' => Device(j) = "gpu"
  BY DEF HoldsInput
<1>7. \A i \in Jobs : \A l \in Jobs :
        (HoldsInput(i) /\ HoldsInput(l))' /\ i # l => input_id'[i] # input_id'[l]
  BY <1>3, <1>4, <1>5, <1>6 DEF TypeInv, CacheInv
<1>8. \A k \in 1 .. Len(seg) : ~InCache(seg, at'[j], k)
  <2>1. at'[j].pass = "fwd" /\ at'[j].layer = 1 /\ at'[j].op = 1 /\ at'[j] # Between
    BY <1>1 DEF At, Between
  <2>2. \A k \in 1 .. Len(seg) : ~(k < 1)
    BY DEF TypeInv, IsSegment
  <2>3. \A k : \A i \in Inserts(seg, k) : ~(i < 1)
    BY DEF Inserts, Places
  <2> QED
    BY <2>1, <2>2, <2>3 DEF InCache
<1>9. ASSUME NEW i \in Jobs, Device(i) = "gpu"
      PROVE  CacheOk(seg, at'[i], forward_cache, input_id'[i], i)
  <2>1. CASE i = j
    BY <1>8, <2>1 DEF CacheOk
  <2>2. CASE i # j
    BY <1>1, <1>3, <1>9, <2>2 DEF TypeInv, CacheInv
  <2> QED
    BY <2>1, <2>2
<1> QED
  BY <1>1, <1>3, <1>7, <1>9 DEF CacheInv

\* What a pass has put into the cache stays there until the pass takes it.
LEMMA CacheStep ==
  ASSUME TypeInv, Next
  PROVE  CacheInv'
<1>1. PICK j \in Jobs :
        \/ BeginForward(j) \/ BeginBackward(j) \/ Drop(j)
        \/ Allocate(j) \/ Release(j) \/ Exchange(j) \/ Compute(j) \/ Save(j)
        \/ PutCache(j) \/ TakeCache(j)
        \/ NextForward(j) \/ NextBackward(j)
  BY DEF Next
<1>2. IsSegment(seg) /\ Len(seg) \in 1 .. Len(seg)
  BY DEF TypeInv, IsSegment
<1>3. CASE BeginForward(j)
  <2>1. LeavesOthers(j)
    BY <1>3, StepsLeaveOthers DEF Step
  <2> QED
    BY <1>3, <2>1, CacheBegins
<1>4. CASE BeginBackward(j)
  <2>1. LeavesOthers(j) /\ UNCHANGED <<input_id, forward_cache>>
    BY <1>4, StepsLeaveOthers DEF Step, BeginBackward
  <2>2. at[j] = Between /\ HoldsInput(j) = (Device(j) = "gpu")
    BY <1>4 DEF BeginBackward, HoldsInput, Between, Idle, Done, Dropped
  <2>3. \A k : InCache(seg, at'[j], k) => InCache(seg, at[j], k)
    BY <2>2 DEF InCache
  <2>4. HoldsInput(j)' => HoldsInput(j)
    BY <2>2 DEF HoldsInput
  <2> QED
    BY <2>1, <2>3, <2>4, CacheStays
<1>5. CASE Drop(j)
  <2>1. LeavesOthers(j) /\ UNCHANGED <<input_id, forward_cache>> /\ at'[j] = Dropped
    BY <1>5, StepsLeaveOthers DEF Step, Drop, TypeInv
  <2>2. ~HoldsInput(j)' /\ \A k : ~InCache(seg, at'[j], k)
    BY <2>1 DEF HoldsInput, InCache, Dropped, Between
  <2> QED
    BY <2>1, <2>2, CacheStays
<1>6. ASSUME NEW kinds, HasOp(j, kinds), at' = Moved(j), {"insert", "remove"} \cap kinds = {},
             UNCHANGED <<input_id, forward_cache>>, Step(j)
      PROVE  CacheInv'
  BY <1>6, CacheMoves, StepsLeaveOthers
<1>7. CASE Allocate(j) \/ Release(j) \/ Exchange(j) \/ Compute(j) \/ Save(j)
  <2>1. Step(j)
    BY <1>7 DEF Step
  <2> QED
    BY <1>6, <1>7, <2>1 DEF Allocate, Release, Exchange, Compute, Save
<1>8. CASE PutCache(j) \/ TakeCache(j)
  <2>1. Caching(j)
    BY <1>8, CachesQuietly
  <2>2. LeavesOthers(j)
    BY <2>1, StepsLeaveOthers DEF Step
  <2> QED
    BY <1>8, <2>1, <2>2, CacheChanges
<1>9. CASE NextForward(j)
  <2> DEFINE a == at[j]
             k == a.layer
  <2>1. LeavesOthers(j) /\ UNCHANGED <<input_id, forward_cache>> /\ AtEnd(j) /\ a.pass = "fwd"
    BY <1>9, StepsLeaveOthers DEF Step, NextForward
  <2>2. k \in 1 .. Len(seg) /\ Passing(a)
    BY <2>1, Ending
  <2>3. HoldsInput(j)' => HoldsInput(j)
    BY <2>2 DEF HoldsInput, Passing, Idle, Done, Dropped
  <2>4. \/ k < Len(seg) /\ at'[j] = At("fwd", k + 1, 1)
        \/ ~(k < Len(seg)) /\ at'[j] = Between
    BY <1>9 DEF NextForward, TypeInv
  <2>5. k = Len(seg) \/ k < Len(seg)
    BY <1>2, <2>2
  <2>6. ASSUME Device(j) = "gpu", NEW i \in 1 .. Len(seg), InCache(seg, at'[j], i)
        PROVE  i < k \/ i = k
    <3>1. CASE at'[j] = Between
      BY <1>2, <2>2, <2>4, <2>5, <3>1 DEF Between, At
    <3>2. CASE at'[j] = At("fwd", k + 1, 1)
      <4>1. at'[j].pass = "fwd" /\ at'[j].layer = k + 1 /\ at'[j].op = 1 /\ at'[j] # Between
        BY <3>2 DEF At, Between
      <4>2. \A n \in Inserts(seg, i) : ~(n < 1)
        BY DEF Inserts, Places
      <4>3. i < k + 1
        <5>1. InCache(seg, at'[j], i)
          BY <2>6
        <5> HIDE DEF k
        <5> QED
          BY <4>1, <4>2, <5>1 DEF InCache
      <4> QED
        BY <1>2, <2>2, <4>3
    <3> QED
      BY <2>4, <3>1, <3>2
  <2>7. ASSUME Device(j) = "gpu", Inserts(seg, k) # {} PROVE \E n \in Inserts(seg, k) : n < a.op
    <3>1. PICK n \in Inserts(seg, k) : TRUE
      BY <2>7
    <3>2. a.op = Len(Passes(seg, "gpu", k).fwd) + 1 /\ IsProgram(Passes(seg, "gpu", k).fwd)
      BY <1>2, <2>1, <2>2, <2>7, EndIs, PassesArePrograms DEF ProgramAt
    <3>3. n < a.op
      BY <3>1, <3>2 DEF Inserts, Places, IsProgram
    <3> QED
      BY <3>1, <3>3
  <2>8. ASSUME Device(j) = "gpu", NEW i \in 1 .. Len(seg), InCache(seg, at'[j], i)
        PROVE  InCache(seg, a, i)
    BY <2>1, <2>6, <2>7, <2>8 DEF InCache
  <2> QED
    BY <2>1, <2>3, <2>8, CacheStays
<1>10. CASE NextBackward(j)
  <2> DEFINE a == at[j]
             k == a.layer
  <2>1. LeavesOthers(j) /\ UNCHANGED <<input_id, forward_cache>> /\ AtEnd(j) /\ a.pass = "bwd"
    BY <1>10, StepsLeaveOthers DEF Step, NextBackward
  <2>2. k \in 1 .. Len(seg) /\ Passing(a)
    BY <2>1, Ending
  <2>3. HoldsInput(j)' => HoldsInput(j)
    BY <2>2 DEF HoldsInput, Passing, Idle, Done, Dropped
  <2>4. at'[j] = At("bwd", k - 1, 1) \/ at'[j] = Done
    BY <1>10 DEF NextBackward, TypeInv
  <2>5. ASSUME NEW i \in 1 .. Len(seg), InCache(seg, at'[j], i) PROVE InCache(seg, a, i)
    <3>1. CASE at'[j] = Done
      BY <2>5, <3>1 DEF InCache, Done, Between
    <3>2. CASE at'[j] = At("bwd", k - 1, 1)
      <4>1. at'[j].pass = "bwd" /\ at'[j].layer = k - 1 /\ at'[j] # Between
        BY <3>2 DEF At, Between
      <4>2. i < k - 1 \/ i = k - 1
        BY <2>5, <4>1 DEF InCache
      <4>3. i < k
        BY <1>2, <2>2, <4>2
      <4> QED
        BY <2>1, <2>5, <4>3 DEF InCache
    <3> QED
      BY <2>4, <3>1, <3>2
  <2> QED
    BY <2>1, <2>3, <2>5, CacheStays
<1> QED
  BY <1>1, <1>3, <1>4, <1>5, <1>7, <1>8, <1>9, <1>10

\* A behaviour is about one segment.
LEMMA SegmentStays == [Next]_vars => seg' = seg
  BY DEF Next, vars, BeginForward, BeginBackward, Drop, Allocate, Release, Exchange, Compute,
         Save, PutCache, TakeCache, NextForward, NextBackward

\* Places stay places, and checked layers stay checked.
LEMMA TypeStep == TypeInv /\ [Next]_vars => TypeInv'
<1> SUFFICES ASSUME TypeInv, [Next]_vars PROVE TypeInv'
  OBVIOUS
<1>1. CASE UNCHANGED vars
  BY <1>1 DEF TypeInv, vars, LayersSafe, Cells, Start, CacheInv, HoldsInput
<1>2. ASSUME Next, NEW j \in Jobs, Step(j) PROVE TypeInv'
  <2>3. CacheInv'
    BY <1>2, CacheStep
  <2>1. LeavesOthers(j) /\ PlaceOk(seg, Device(j), at'[j])
    BY <1>2, StepsLeaveOthers, StepsKeepPlaces
  <2>2. Cells' = Cells
    BY <2>1 DEF LeavesOthers, Cells, Start
  <2> QED
    BY <2>1, <2>2, <2>3 DEF TypeInv, LeavesOthers, LayersSafe
<1> QED
  BY <1>1, <1>2, NextIsStep

\* A segment of checked layers begins with every job idle.
LEMMA TypeInit == Init /\ LayersSafe => TypeInv
<1> SUFFICES ASSUME Init, LayersSafe PROVE TypeInv
  OBVIOUS
<1>1. IsSegment(seg)
  <2>1. seg \in Seq(DOMAIN Programs) /\ seg # <<>>
    BY LayersAssumption DEF Init
  <2> QED
    BY <2>1 DEF IsSegment
<1>2. \A j \in Jobs : PlaceOk(seg, Device(j), at[j])
  BY DEF Init, PlaceOk, IsPlace
<1>3. CacheInv
  <2>1. \A j \in Jobs : at[j] = Idle
    BY DEF Init
  <2>2. \A k : ~InCache(seg, Idle, k)
    BY DEF InCache, Idle, Between
  <2> QED
    BY <2>1, <2>2 DEF Init, CacheInv, CacheOk, HoldsInput
<1> QED
  BY <1>1, <1>2, <1>3 DEF TypeInv, Init

\* What each kind of operation changes.
LEMMA ChangedIs ==
  ASSUME NEW r, NEW o, NEW len
  PROVE  /\ o.op = "new" => Changed(r, o, len) = Forget(r, o.var, r.taken)
         /\ o.op = "temp" => Changed(r, o, len) = Forget(r, o.var, With(r.taken, o.var, o.var))
         /\ o.op = "free" => Changed(r, o, len) = Forget(r, o.var, Without(r.taken, o.var))
         /\ o.op = "swap" => Changed(r, o, len) = Exchanged(r, o)
         /\ o.op = "keep" => Changed(r, o, len) = KeptOf(r, o.vars \cup {Y})
         /\ o.op \in {"insert", "remove"} => Changed(r, o, len) = r
         /\ o.op \in {"call", "do"} => Changed(r, o, len) = Computed(r, o, len)
  BY DEF Changed

\* What buffers hold after a computation.
HoldsThen(r, o) ==
  [v \in {w \in DOMAIN r.holds \cup Targets(o) :
            /\ \A e \in On(o, w) : FromClean(r, e)
            /\ w \in DOMAIN r.holds \/ ~AllAdd(On(o, w))} |->
     OriginsOf(r, On(o, v)) \cup (IF AllAdd(On(o, v)) THEN r.holds[v] ELSE {})]

\* What cells of the layer are written over then, and what from; which have the
\* gradient.
GivesThen(r, o, len) ==
  [c \in {b \in 0 .. len - 1 : b \in DOMAIN r.gives \/ ~AllAdd(OnGrad(o, b))} |->
     OriginsOf(r, OnGrad(o, c)) \cup (UNION {RoleOf(e) : e \in OnGrad(o, c)})
       \cup (IF AllAdd(OnGrad(o, c)) THEN r.gives[c] ELSE {})]
ReachedThen(r, o, len) ==
  {c \in 0 .. len - 1 :
     \/ \E e \in OnGrad(o, c) : FromLed(r, e)
     \/ c \in r.reached /\ AllAdd(OnGrad(o, c))}

\* What an operation changes of the temporaries a pass has, ...
LEMMA TakenAfter ==
  ASSUME NEW r, NEW o, NEW len
  PROVE  LET taken == Changed(r, o, len).taken
         IN /\ o.op \in {"new", "keep", "insert", "remove", "call", "do"} => taken = r.taken
            /\ o.op = "temp" => taken = With(r.taken, o.var, o.var)
            /\ o.op = "free" => taken = Without(r.taken, o.var)
            /\ o.op = "swap" => taken = Swapped(r.taken, o.var, o.with)
<1>1. /\ Forget(r, o.var, r.taken).taken = r.taken
      /\ Forget(r, o.var, With(r.taken, o.var, o.var)).taken = With(r.taken, o.var, o.var)
      /\ Forget(r, o.var, Without(r.taken, o.var)).taken = Without(r.taken, o.var)
  BY DEF Forget, Knows
<1>2. Exchanged(r, o).taken = Swapped(r.taken, o.var, o.with)
  BY DEF Exchanged, Knows
<1>3. KeptOf(r, o.vars \cup {Y}).taken = r.taken
  BY DEF KeptOf, Knows
<1>4. Computed(r, o, len).taken = r.taken
  BY DEF Computed, Knows
<1> QED
  BY <1>1, <1>2, <1>3, <1>4, ChangedIs

\* ... of what the buffers hold, ...
LEMMA HoldsAfter ==
  ASSUME NEW r, NEW o, NEW len
  PROVE  LET holds == Changed(r, o, len).holds
         IN /\ o.op \in {"new", "temp", "free"} => holds = Without(r.holds, o.var)
            /\ o.op = "swap" => holds = Swapped(r.holds, o.var, o.with)
            /\ o.op = "keep" =>
                 holds = Restrict(r.holds, DOMAIN r.holds \cap (o.vars \cup {Y}))
            /\ o.op \in {"insert", "remove"} => holds = r.holds
            /\ o.op \in {"call", "do"} => holds = HoldsThen(r, o)
<1>1. /\ Forget(r, o.var, r.taken).holds = Without(r.holds, o.var)
      /\ Forget(r, o.var, With(r.taken, o.var, o.var)).holds = Without(r.holds, o.var)
      /\ Forget(r, o.var, Without(r.taken, o.var)).holds = Without(r.holds, o.var)
  BY DEF Forget, Knows
<1>2. Exchanged(r, o).holds = Swapped(r.holds, o.var, o.with)
  BY DEF Exchanged, Knows
<1>3. KeptOf(r, o.vars \cup {Y}).holds
        = Restrict(r.holds, DOMAIN r.holds \cap (o.vars \cup {Y}))
  BY DEF KeptOf, Knows
<1>4. Computed(r, o, len).holds = HoldsThen(r, o)
  BY DEF Computed, Knows, HoldsThen
<1> QED
  BY <1>1, <1>2, <1>3, <1>4, ChangedIs

\* ... of the buffers that have the gradient of the output, ...
LEMMA LedAfter ==
  ASSUME NEW r, NEW o, NEW len
  PROVE  LET led == Changed(r, o, len).led
         IN /\ o.op \in {"new", "temp", "free"} => led = r.led \ {o.var}
            /\ o.op = "swap" =>
                 led = {v \in r.led \cup {o.var, o.with} : Other(o, v) \in r.led}
            /\ o.op = "keep" => led = r.led \cap (o.vars \cup {Y})
            /\ o.op \in {"insert", "remove"} => led = r.led
            /\ o.op \in {"call", "do"} =>
                 led = {v \in r.led \cup Targets(o) :
                          \/ \E e \in On(o, v) : FromLed(r, e)
                          \/ v \in r.led /\ AllAdd(On(o, v))}
<1>1. /\ Forget(r, o.var, r.taken).led = r.led \ {o.var}
      /\ Forget(r, o.var, With(r.taken, o.var, o.var)).led = r.led \ {o.var}
      /\ Forget(r, o.var, Without(r.taken, o.var)).led = r.led \ {o.var}
  BY DEF Forget, Knows
<1>2. Exchanged(r, o).led = {v \in r.led \cup {o.var, o.with} : Other(o, v) \in r.led}
  BY DEF Exchanged, Knows
<1>3. KeptOf(r, o.vars \cup {Y}).led = r.led \cap (o.vars \cup {Y})
  BY DEF KeptOf, Knows
<1>4. Computed(r, o, len).led = {v \in r.led \cup Targets(o) :
                          \/ \E e \in On(o, v) : FromLed(r, e)
                          \/ v \in r.led /\ AllAdd(On(o, v))}
  BY DEF Computed, Knows
<1> QED
  BY <1>1, <1>2, <1>3, <1>4, ChangedIs

\* ... and of the gradients that are written.
LEMMA GradientsAfter ==
  ASSUME NEW r, NEW o, NEW len
  PROVE  LET after == Changed(r, o, len)
         IN /\ o.op \in {"new", "temp", "free", "swap", "keep", "insert", "remove"} =>
                 after.gives = r.gives /\ after.reached = r.reached
            /\ o.op \in {"call", "do"} =>
                 after.gives = GivesThen(r, o, len) /\ after.reached = ReachedThen(r, o, len)
<1>1. \A t : /\ Forget(r, o.var, t).gives = r.gives
            /\ Forget(r, o.var, t).reached = r.reached
  BY DEF Forget, Knows
<1>2. Exchanged(r, o).gives = r.gives /\ Exchanged(r, o).reached = r.reached
  BY DEF Exchanged, Knows
<1>3. /\ KeptOf(r, o.vars \cup {Y}).gives = r.gives
      /\ KeptOf(r, o.vars \cup {Y}).reached = r.reached
  BY DEF KeptOf, Knows
<1>4. /\ Computed(r, o, len).gives = GivesThen(r, o, len)
      /\ Computed(r, o, len).reached = ReachedThen(r, o, len)
  BY DEF Computed, Knows, GivesThen, ReachedThen
<1> QED
  BY <1>1, <1>2, <1>3, <1>4, ChangedIs

-----------------------------------------------------------------------------
(* Temporaries *)

\* A pass has the temporaries that reading its program says, so that it gives
\* each back as what it took it as, and has none left at its end.
LEMMA TempsStep == TypeInv /\ TempsInv /\ [Next]_vars => TempsInv'
<1> SUFFICES ASSUME TypeInv, TempsInv, [Next]_vars PROVE TempsInv'
  OBVIOUS
<1>1. CASE UNCHANGED vars
  BY <1>1 DEF TempsInv, vars
<1>2. ASSUME NEW j \in Jobs, Step(j) PROVE TempsInv'
  <2> DEFINE s == seg
             d == Device(j)
             a == at[j]
             r == KnownAt(s, d, a)
             Ok == misfreed' = {} /\ BoundOk(s, d, at'[j], bound'[j])
  <2>1. LeavesOthers(j)
    BY <1>2, StepsLeaveOthers
  <2>2. SUFFICES Ok
    BY <2>1 DEF LeavesOthers, TempsInv
  <2>3. bound[j] = IF Passing(a) THEN r.taken ELSE EmptyMap
    BY DEF TempsInv, BoundOk
  <2>4. misfreed = {} /\ DOMAIN bound = Jobs /\ DOMAIN at = Jobs
    BY DEF TempsInv, TypeInv
  <2>5. IsSegment(s) /\ 1 \in 1 .. Len(s) /\ Len(s) \in 1 .. Len(s)
    BY DEF TypeInv, IsSegment
  <2>6. ASSUME NEW pass \in {"fwd", "bwd"}, NEW k \in 1 .. Len(s), Checked(s, d, k),
               at'[j] = At(pass, k, 1), bound'[j] = EmptyMap, misfreed' = {}
        PROVE  Ok
    <3>1. KnownAt(s, d, at'[j]).taken = EmptyMap
      BY <2>5, <2>6, PassEnds DEF Begins, Knows
    <3> QED
      BY <2>6, <3>1 DEF BoundOk
  <2>7. CASE BeginForward(j)
    <3>1. at'[j] = At("fwd", 1, 1) /\ bound' = bound /\ misfreed' = {} /\ ~Passing(a)
      BY <2>4, <2>7 DEF BeginForward, Passing, Idle
    <3>2. Checked(s, d, 1)
      BY <2>5, <2>7, CheckedToBegin DEF BeginForward
    <3> QED
      BY <2>3, <2>5, <2>6, <3>1, <3>2
  <2>8. CASE BeginBackward(j)
    <3>1. /\ at'[j] = At("bwd", Len(s), 1) /\ bound' = bound /\ misfreed' = {}
          /\ ~Passing(a)
      BY <2>4, <2>8 DEF BeginBackward, Passing, Between
    <3>2. Checked(s, d, Len(s))
      BY <2>5, <2>8, CheckedToBegin DEF BeginBackward
    <3> QED
      BY <2>3, <2>5, <2>6, <3>1, <3>2
  <2>9. ASSUME NEW kinds, HasOp(j, kinds), at' = Moved(j)
        PROVE  LET o == ThisOp(j)
               IN /\ bound[j] = r.taken /\ o.op \in kinds
                  /\ OpFits(r, o, CodeOf(s, a.layer).len)
                  /\ BoundOk(s, d, at'[j], bound'[j]) <=>
                       bound'[j] = Changed(r, o, CodeOf(s, a.layer).len).taken
    <3>1. Passing(a) /\ Passing(at'[j])
      BY <2>9, Operating
    <3> QED
      BY <2>3, <2>9, <3>1, Operating DEF BoundOk
  <2>10. CASE Allocate(j)
    <3> DEFINE o == ThisOp(j)
    <3>1. /\ o.op \in {"new", "temp"} /\ misfreed' = {}
          /\ o.op = "temp" => bound'[j] = With(bound[j], o.var, o.var)
          /\ o.op # "temp" => bound'[j] = bound[j]
      BY <2>4, <2>10 DEF Allocate, HasOp
    <3>2. /\ bound[j] = r.taken
          /\ BoundOk(s, d, at'[j], bound'[j]) <=>
               bound'[j] = Changed(r, o, CodeOf(s, a.layer).len).taken
      BY <2>9, <2>10 DEF Allocate
    <3> HIDE DEF o, r
    <3> QED
      BY <3>1, <3>2, TakenAfter
  <2>11. CASE Release(j)
    <3> DEFINE o == ThisOp(j)
    <3>1. o.op = "free"
      BY <2>11 DEF Release, HasOp
    <3>2. o.var \in DOMAIN bound[j] /\ bound[j][o.var] = o.raw
      BY <2>9, <2>11, <3>1 DEF Release, OpFits
    <3>3. misfreed' = {} /\ bound'[j] = Without(bound[j], o.var)
      BY <2>4, <2>11, <3>2 DEF Release
    <3>4. /\ bound[j] = r.taken
          /\ BoundOk(s, d, at'[j], bound'[j]) <=>
               bound'[j] = Changed(r, o, CodeOf(s, a.layer).len).taken
      BY <2>9, <2>11 DEF Release
    <3> HIDE DEF o, r
    <3> QED
      BY <3>1, <3>3, <3>4, TakenAfter
  <2>12. CASE Exchange(j)
    <3> DEFINE o == ThisOp(j)
    <3>1. o.op = "swap" /\ misfreed' = {} /\ bound'[j] = Swapped(bound[j], o.var, o.with)
      BY <2>4, <2>12 DEF Exchange, HasOp
    <3>2. /\ bound[j] = r.taken
          /\ BoundOk(s, d, at'[j], bound'[j]) <=>
               bound'[j] = Changed(r, o, CodeOf(s, a.layer).len).taken
      BY <2>9, <2>12 DEF Exchange
    <3> HIDE DEF o, r
    <3> QED
      BY <3>1, <3>2, TakenAfter
  <2>13. CASE Compute(j)
    <3> DEFINE o == ThisOp(j)
    <3>1. o.op \in {"call", "do"} /\ misfreed' = {} /\ bound' = bound
      BY <2>4, <2>13 DEF Compute, HasOp
    <3>2. /\ bound[j] = r.taken
          /\ BoundOk(s, d, at'[j], bound'[j]) <=>
               bound'[j] = Changed(r, o, CodeOf(s, a.layer).len).taken
      BY <2>9, <2>13 DEF Compute
    <3> HIDE DEF o, r
    <3> QED
      BY <3>1, <3>2, TakenAfter
  <2>14. CASE Save(j)
    <3> DEFINE o == ThisOp(j)
    <3>1. o.op = "keep" /\ misfreed' = {} /\ bound' = bound
      BY <2>4, <2>14 DEF Save, HasOp
    <3>2. /\ bound[j] = r.taken
          /\ BoundOk(s, d, at'[j], bound'[j]) <=>
               bound'[j] = Changed(r, o, CodeOf(s, a.layer).len).taken
      BY <2>9, <2>14 DEF Save
    <3> HIDE DEF o, r
    <3> QED
      BY <3>1, <3>2, TakenAfter
  <2>15. CASE NextForward(j)
    <3> DEFINE k == a.layer
    <3>1. AtEnd(j) /\ a.pass = "fwd" /\ bound' = bound /\ misfreed' = {}
      BY <2>4, <2>15 DEF NextForward
    <3>2. bound'[j] = EmptyMap
      BY <2>3, <3>1, Ending DEF ForwardEnds
    <3>3. \/ k < Len(s) /\ at'[j] = At("fwd", k + 1, 1)
          \/ at'[j] = Between
      BY <2>4, <2>15 DEF NextForward
    <3>4. k < Len(s) => k + 1 \in 1 .. Len(s) /\ Checked(s, d, k + 1)
      BY <2>5, <3>1, Ending
    <3>5. CASE at'[j] = Between
      BY <3>1, <3>2, <3>5 DEF BoundOk, Passing, Between
    <3> QED
      BY <2>6, <3>1, <3>2, <3>3, <3>4, <3>5
  <2>16. CASE NextBackward(j)
    <3> DEFINE k == a.layer
    <3>1. AtEnd(j) /\ a.pass = "bwd" /\ bound' = bound /\ misfreed' = {}
      BY <2>4, <2>16 DEF NextBackward
    <3>2. bound'[j] = EmptyMap
      BY <2>3, <3>1, Ending DEF BackwardEnds
    <3>3. \/ k > 1 /\ at'[j] = At("bwd", k - 1, 1)
          \/ at'[j] = Done
      BY <2>4, <2>16 DEF NextBackward
    <3>4. k > 1 => k - 1 \in 1 .. Len(s) /\ Checked(s, d, k - 1)
      BY <2>5, <3>1, Ending
    <3>5. CASE at'[j] = Done
      BY <3>1, <3>2, <3>5 DEF BoundOk, Passing, Done
    <3> QED
      BY <2>6, <3>1, <3>2, <3>3, <3>4, <3>5
  <2>17. CASE Caching(j)
    <3> DEFINE o == ThisOp(j)
    <3>1. o.op \in {"insert", "remove"} /\ misfreed' = {} /\ bound' = bound
      BY <2>4, <2>17 DEF Caching, HasOp
    <3>2. /\ bound[j] = r.taken
          /\ BoundOk(s, d, at'[j], bound'[j]) <=>
               bound'[j] = Changed(r, o, CodeOf(s, a.layer).len).taken
      BY <2>9, <2>17 DEF Caching
    <3> HIDE DEF o, r
    <3> QED
      BY <3>1, <3>2, TakenAfter
  <2>18. CASE Drop(j)
    <3>1. /\ at'[j] = Dropped /\ bound' = bound /\ misfreed' = {}
          /\ ~Passing(a) /\ ~Passing(at'[j])
      BY <2>4, <2>18 DEF Drop, Passing, Between, Dropped
    <3> QED
      BY <2>3, <3>1 DEF BoundOk
  <2> QED
    BY <1>2, <2>7, <2>8, <2>10, <2>11, <2>12, <2>13, <2>14, <2>15, <2>16, <2>17, <2>18
    DEF Step
<1> QED
  BY <1>1, <1>2, NextIsStep

\* Before any pass there is no temporary.
LEMMA TempsInit == Init => TempsInv
  BY DEF Init, TempsInv, BoundOk, Passing, Idle

\* Whatever the layers of a segment are, if each of them passes its check then
\* temporaries go back, each under its own raw id, on every path through the
\* passes of the segment.
THEOREM TempsReturnedAlways == Spec /\ LayersSafe => []TempsReturned
<1>1. Init /\ LayersSafe => TypeInv /\ TempsInv
  BY TypeInit, TempsInit
<1>2. TypeInv /\ TempsInv /\ [Next]_vars => (TypeInv /\ TempsInv)'
  BY TypeStep, TempsStep
<1>3. TypeInv /\ TempsInv => TempsReturned
  BY DEF TempsInv, BoundOk, TempsReturned, InPass, Passing
<1> QED
  BY <1>1, <1>2, <1>3, PTL DEF Spec

-----------------------------------------------------------------------------
(* What goes on from layer to layer *)

\* A chain goes through its rows one by one.
LEMMA ChainIs ==
  ASSUME NEW s, NEW e, NEW first, NEW rows, NEW N \in Nat
  PROVE  /\ Chain(s, e, first, rows, N)[0] = first
         /\ \A n \in 1 .. N : Chain(s, e, first, rows, N)[n]
                                = Link(s, e, rows[n], Chain(s, e, first, rows, N)[n - 1])
<1> DEFINE Body(f, n) == IF n = 0 THEN first ELSE Link(s, e, rows[n], f[n - 1])
           Upto(f, m) == f = [n \in 0 .. m |-> Body(f, n)]
           Good == {m \in 0 .. N : \E f : Upto(f, m)}
<1>1. 0 \in Good
  <2> DEFINE g == [n \in 0 .. 0 |-> first]
  <2>1. Upto(g, 0)
    OBVIOUS
  <2> HIDE DEF Upto
  <2> QED
    BY <2>1
<1>2. ASSUME NEW m \in 1 .. N, m - 1 \in Good PROVE m \in Good
  <2>1. PICK f : Upto(f, m - 1)
    BY <1>2
  <2> DEFINE last == Link(s, e, rows[m], f[m - 1])
             g == [n \in 0 .. m |-> IF n = m THEN last ELSE f[n]]
  <2>0. m \in Nat /\ m # 0 /\ m - 1 \in 0 .. m
    OBVIOUS
  <2>2. ASSUME NEW n \in 0 .. m PROVE g[n] = Body(g, n)
    <3>1. CASE n = m
      <4>1. g[m - 1] = f[m - 1] /\ g[n] = last
        BY <2>0, <3>1
      <4> HIDE DEF g
      <4> QED
        BY <2>0, <3>1, <4>1
    <3>2. CASE n # m
      <4>1. n \in 0 .. m - 1 /\ g[n] = f[n]
        BY <2>0, <3>2
      <4>2. f[n] = Body(f, n)
        BY <2>1, <4>1
      <4>3. n # 0 => n - 1 \in 0 .. m /\ n - 1 # m
        BY <2>0, <4>1
      <4>4. n # 0 => g[n - 1] = f[n - 1]
        BY <4>3
      <4> HIDE DEF g
      <4> QED
        BY <4>1, <4>2, <4>4
    <3> QED
      BY <3>1, <3>2
  <2>3. Upto(g, m)
    <3>1. g = [n \in 0 .. m |-> g[n]]
      OBVIOUS
    <3> HIDE DEF g
    <3> QED
      BY <2>2, <3>1
  <2> HIDE DEF Upto
  <2> QED
    BY <2>3
<1>3. N \in Good
  <2> HIDE DEF Good
  <2>1. \A m \in 0 .. N : m \in Good
    BY <1>1, <1>2, StepByStep
  <2> QED
    BY <2>1
<1>4. PICK f : Upto(f, N)
  BY <1>3
<1>5. Chain(s, e, first, rows, N) = [n \in 0 .. N |-> Body(Chain(s, e, first, rows, N), n)]
  BY <1>4 DEF Chain
<1> QED
  <2> DEFINE K == Chain(s, e, first, rows, N)
  <2>1. K[0] = Body(K, 0)
    <3> HIDE DEF Body
    <3> QED
      BY <1>5
  <2>2. ASSUME NEW n \in 1 .. N PROVE K[n] = Body(K, n)
    <3> HIDE DEF Body
    <3> QED
      BY <1>5
  <2> HIDE DEF K
  <2>3. \A n \in 1 .. N : K[n] = Link(s, e, rows[n], K[n - 1])
    BY <2>2
  <2> QED
    BY <2>1, <2>3 DEF K

\* The segment's input is that of its first layer; the input of the next layer
\* is the output of the layer before.
LEMMA InIs ==
  ASSUME NEW s, IsSegment(s), NEW e
  PROVE  /\ InAt(s, e, 1) = {<<"x", e>>}
         /\ \A k \in 1 .. Len(s) :
              InAt(s, e, k + 1) =
                MeansWith(s, e, k, InAt(s, e, k), {}, ForwardEnd(s, "cpu", k).holds[Y])
<1> DEFINE N == Len(s)
           chain == Chain(s, e, {<<"x", e>>}, Outputs(s), N)
<1>0. N \in Nat
  BY DEF IsSegment
<1>1. /\ chain[0] = {<<"x", e>>}
      /\ \A n \in 1 .. N : chain[n] = Link(s, e, Outputs(s)[n], chain[n - 1])
  BY <1>0, ChainIs
<1>2. \A i : InAt(s, e, i) = chain[i - 1]
  BY DEF InAt
<1> HIDE DEF chain, N
<1>3. ASSUME NEW k \in 1 .. N
      PROVE  InAt(s, e, k + 1) =
               MeansWith(s, e, k, InAt(s, e, k), {}, ForwardEnd(s, "cpu", k).holds[Y])
  <2> DEFINE row == Outputs(s)[k]
  <2>1. k + 1 - 1 = k
    BY <1>0
  <2>2. row.fwd = TRUE /\ row.layer = k /\ row.from = ForwardEnd(s, "cpu", k).holds[Y]
    BY DEF Outputs, N
  <2>3. InAt(s, e, k + 1) = Link(s, e, row, InAt(s, e, k))
    BY <1>1, <1>2, <2>1
  <2> HIDE DEF row
  <2> QED
    BY <2>2, <2>3 DEF Link
<1>4. InAt(s, e, 1) = {<<"x", e>>}
  <2>1. 1 - 1 = 0
    OBVIOUS
  <2> QED
    BY <1>1, <1>2, <2>1
<1> QED
  BY <1>3, <1>4 DEF N

\* The gradient of the segment's output is that of its last layer; that of the
\* output of a layer is the gradient of the input of the next.
LEMMA GoIs ==
  ASSUME NEW s, IsSegment(s), NEW e
  PROVE  /\ GoAt(s, e, Len(s)) = {<<"go", e>>}
         /\ \A k \in 1 .. Len(s) :
              GoAt(s, e, k - 1) = Means(s, e, k, BackwardEnd(s, "cpu", k).holds[GradIn])
<1> DEFINE N == Len(s)
           chain == Chain(s, e, {<<"go", e>>}, GradIns(s, e), N)
<1>0. N \in Nat
  BY DEF IsSegment
<1>1. /\ chain[0] = {<<"go", e>>}
      /\ \A n \in 1 .. N : chain[n] = Link(s, e, GradIns(s, e)[n], chain[n - 1])
  BY <1>0, ChainIs
<1>2. \A i : GoAt(s, e, i) = chain[N - i]
  BY DEF GoAt
<1> HIDE DEF chain, N
<1>3. ASSUME NEW k \in 1 .. N
      PROVE  GoAt(s, e, k - 1) = Means(s, e, k, BackwardEnd(s, "cpu", k).holds[GradIn])
  <2> DEFINE n == N + 1 - k
             row == GradIns(s, e)[n]
  <2>1. n \in 1 .. N /\ N - (k - 1) = n /\ n - 1 = N - k /\ N + 1 - n = k
    BY <1>0
  <2>2. /\ row.fwd = FALSE /\ row.layer = k /\ row.in = InAt(s, e, k)
        /\ row.from = BackwardEnd(s, "cpu", k).holds[GradIn]
    BY <2>1 DEF GradIns, N
  <2>3. GoAt(s, e, k - 1) = Link(s, e, row, GoAt(s, e, k))
    <3> HIDE DEF n
    <3> QED
      BY <1>1, <1>2, <2>1
  <2> HIDE DEF row, n
  <2> QED
    BY <2>2, <2>3 DEF Link, Means
<1>4. GoAt(s, e, N) = {<<"go", e>>}
  <2>1. N - N = 0
    BY <1>0
  <2> QED
    BY <1>1, <1>2, <2>1
<1> QED
  BY <1>3, <1>4 DEF N

\* The number 1 goes on to no layer.
LEMMA WithoutTheOne ==
  ASSUME NEW s, IsSegment(s), NEW e
  PROVE  /\ \A k \in 1 .. Len(s) + 1 : One \notin InAt(s, e, k)
         /\ \A k \in 0 .. Len(s) : One \notin GoAt(s, e, k)
<1>0. Len(s) \in Nat
  BY DEF IsSegment
<1>1. \A k, in, go, operands : One \notin MeansWith(s, e, k, in, go, operands)
  BY DEF MeansWith
<1>2. One \notin {<<"x", e>>} /\ One \notin {<<"go", e>>}
  BY DEF One
<1>3. ASSUME NEW k \in 1 .. Len(s) + 1 PROVE One \notin InAt(s, e, k)
  <2>1. CASE k = 1
    BY <1>2, <2>1, InIs
  <2>2. CASE k # 1
    <3>1. k - 1 \in 1 .. Len(s) /\ (k - 1) + 1 = k
      BY <1>0, <2>2
    <3> DEFINE i == k - 1
    <3>2. i \in 1 .. Len(s) /\ i + 1 = k
      BY <3>1
    <3> HIDE DEF i
    <3>3. InAt(s, e, i + 1) =
            MeansWith(s, e, i, InAt(s, e, i), {}, ForwardEnd(s, "cpu", i).holds[Y])
      BY <3>2, InIs
    <3> QED
      BY <1>1, <3>2, <3>3
  <2> QED
    BY <2>1, <2>2
<1>4. ASSUME NEW k \in 0 .. Len(s) PROVE One \notin GoAt(s, e, k)
  <2>1. CASE k = Len(s)
    BY <1>2, <2>1, GoIs
  <2>2. CASE k # Len(s)
    <3> DEFINE i == k + 1
    <3>1. i \in 1 .. Len(s) /\ i - 1 = k
      BY <1>0, <2>2
    <3> HIDE DEF i
    <3>2. GoAt(s, e, i - 1) = Means(s, e, i, BackwardEnd(s, "cpu", i).holds[GradIn])
      BY <3>1, GoIs
    <3> QED
      BY <1>1, <3>1, <3>2 DEF Means
  <2> QED
    BY <2>1, <2>2
<1> QED
  BY <1>3, <1>4

\* What the check of both devices says of a layer of a segment.
LEMMA LayerOfMatching ==
  ASSUME NEW s, IsSegment(s), Matches(s), NEW d \in {"cpu", "gpu"}, NEW k \in 1 .. Len(s)
  PROVE  /\ ForwardEnd(s, d, k).holds[Y] = ForwardEnd(s, "cpu", k).holds[Y]
         /\ GradOut \notin ForwardEnd(s, "cpu", k).holds[Y]
         /\ BackwardEnd(s, d, k).holds[GradIn] = BackwardEnd(s, "cpu", k).holds[GradIn]
         /\ \A c \in AllOf(s, k) :
              BackwardEnd(s, d, k).gives[c] = BackwardEnd(s, "cpu", k).gives[c]
         /\ StateCounts(EffectsOf(Passes(s, d, k).fwd) \cup EffectsOf(Passes(s, d, k).bwd))
         /\ s[k] = "Mamba" \/
              \A e \in EffectsOf(Passes(s, d, k).fwd) \cup EffectsOf(Passes(s, d, k).bwd) :
                One \notin e.from
<1> DEFINE code == CodeOf(s, k)
           given == GivenTo(s[k])
<1>1. LayerMatches(code, given) /\ (s[k] = "Mamba" \/ WithoutOne(code))
  BY DEF Matches, MatchingLayers, CodeOf
<1>2. /\ ForwardEnd(s, "cpu", k) = ForwardRead(code.cpu, given, code.len)
      /\ ForwardEnd(s, "gpu", k) = ForwardRead(code.gpu, given, code.len)
  BY DEF ForwardEnd, InForward, ForwardRead, Passes
<1>3. /\ BackwardEnd(s, "cpu", k) = BackwardRead(code.cpu, given, ZeroedOn("cpu", code), code.len)
      /\ BackwardEnd(s, "gpu", k) = BackwardRead(code.gpu, given, ZeroedOn("gpu", code), code.len)
  <2>1. LayerChecked(code, given) /\ code.gpu.fwd # <<>>
    BY DEF Matches, MatchingLayers, CheckedLayers, CodeOf
  <2>2. /\ ForwardEnds(ForwardRead(code.cpu, given, code.len))
        /\ ForwardEnds(ForwardRead(code.gpu, given, code.len))
    BY <2>1 DEF LayerChecked, PassesChecked
  <2>3. /\ ForwardRead(code.cpu, given, code.len).ok
        /\ ForwardRead(code.gpu, given, code.len).ok
    BY <2>2 DEF ForwardEnds
  <2> QED
    BY <1>2, <2>3 DEF BackwardEnd, InBackward, BackwardRead, Passes, Context
<1>4. Passes(s, d, k) \in {code.cpu, code.gpu}
  BY DEF Passes
<1>5. StateCounts(EffectsOf(Passes(s, d, k).fwd) \cup EffectsOf(Passes(s, d, k).bwd))
  BY <1>1, <1>4 DEF LayerMatches
<1>6. s[k] = "Mamba" \/
        \A e \in EffectsOf(Passes(s, d, k).fwd) \cup EffectsOf(Passes(s, d, k).bwd) :
          One \notin e.from
  BY <1>1, <1>4 DEF WithoutOne
<1>7. /\ ForwardRead(code.cpu, given, code.len).holds[Y]
           = ForwardRead(code.gpu, given, code.len).holds[Y]
      /\ GradOut \notin ForwardRead(code.cpu, given, code.len).holds[Y]
      /\ BackwardRead(code.cpu, given, ZeroedOn("cpu", code), code.len).holds[GradIn]
           = BackwardRead(code.gpu, given, ZeroedOn("gpu", code), code.len).holds[GradIn]
      /\ \A c \in 0 .. code.len - 1 :
           BackwardRead(code.cpu, given, ZeroedOn("cpu", code), code.len).gives[c]
             = BackwardRead(code.gpu, given, ZeroedOn("gpu", code), code.len).gives[c]
  BY <1>1 DEF LayerMatches
<1>8. d = "cpu" \/ d = "gpu"
  OBVIOUS
<1> QED
  BY <1>2, <1>3, <1>5, <1>6, <1>7, <1>8 DEF AllOf

\* On either device the output is what the next layer's input comes from, and
\* the gradient of the input what that of the output of the layer before does.
LEMMA GoesOn ==
  ASSUME NEW s, IsSegment(s), Matches(s), NEW d \in {"cpu", "gpu"}, NEW k \in 1 .. Len(s), NEW e
  PROVE  /\ Means(s, e, k, ForwardEnd(s, d, k).holds[Y]) = InAt(s, e, k + 1)
         /\ Means(s, e, k, BackwardEnd(s, d, k).holds[GradIn]) = GoAt(s, e, k - 1)
<1> DEFINE out == ForwardEnd(s, "cpu", k).holds[Y]
<1>1. GradOut \notin out /\ ForwardEnd(s, d, k).holds[Y] = out
  BY LayerOfMatching
<1>2. InAt(s, e, k + 1) = MeansWith(s, e, k, InAt(s, e, k), {}, out)
  BY InIs
<1> HIDE DEF out
<1>3. \A y \in out : OperandMeans(s, e, k, InAt(s, e, k), GoAt(s, e, k), y)
                       = OperandMeans(s, e, k, InAt(s, e, k), {}, y)
  BY <1>1 DEF OperandMeans
<1>4. Means(s, e, k, out) = InAt(s, e, k + 1)
  BY <1>2, <1>3 DEF Means, MeansWith
<1>5. GoAt(s, e, k - 1) = Means(s, e, k, BackwardEnd(s, "cpu", k).holds[GradIn])
  BY GoIs
<1>6. BackwardEnd(s, d, k).holds[GradIn] = BackwardEnd(s, "cpu", k).holds[GradIn]
  BY LayerOfMatching
<1> QED
  BY <1>1, <1>4, <1>5, <1>6

-----------------------------------------------------------------------------
(* Values *)

\* The names of the buffers of a pass are none of the kinds of operands.
LEMMA NamesAreLocal == Local(X) /\ Local(Y) /\ Local(GradOut) /\ Local(GradIn) /\ Local(Target)
  BY DEF Local, X, Y, GradOut, GradIn, Target

\* What can be read where a program is checked: one of four kinds of operands.
LEMMA OperandIs ==
  ASSUME NEW x, IsOperand(x), x[1] # "d"
  PROVE  Local(x) \/ x[1] \in {"p", "s", "c"}
  BY DEF IsOperand, Kinds

\* A buffer of the pass that does not exist is one nobody has written.
LEMMA ReadLocal ==
  ASSUME NEW j, NEW k, NEW x, IsOperand(x), Local(x)
  PROVE  Read(j, k, x) = IF x \in DOMAIN mem[j][k] THEN mem[j][k][x] ELSE {Stale}
<1>1. x[1] \notin {"p", "d", "s", "c"}
  BY DEF IsOperand, Kinds
<1> HIDE DEF Local
<1> QED
  BY <1>1 DEF Read

\* Parameters stand for themselves, by their place among all layers.
LEMMA ReadParameters ==
  ASSUME NEW j, NEW k, NEW x, IsOperand(x), x[1] = "p"
  PROVE  Read(j, k, x) = {<<x[2], Start[k] + x[3], x[4]>>}
<1>1. ~Local(x)
  BY DEF IsOperand, Kinds
<1> HIDE DEF Local
<1> QED
  BY <1>1 DEF Read

\* State that does not exist yet is nothing.
LEMMA ReadState ==
  ASSUME NEW j, NEW k, NEW x, IsOperand(x), x[1] = "s"
  PROVE  Read(j, k, x) = IF <<k, x[2]>> \in DOMAIN state[Device(j)]
                           THEN state[Device(j)][<<k, x[2]>>] ELSE {}
<1>1. ~Local(x)
  BY DEF IsOperand, Kinds
<1> HIDE DEF Local
<1> QED
  BY <1>1 DEF Read

\* A constant stands for itself.
LEMMA ReadConstant ==
  ASSUME NEW j, NEW k, NEW x, IsOperand(x), x[1] = "c"
  PROVE  Read(j, k, x) = {x}
<1>1. ~Local(x)
  BY DEF IsOperand, Kinds
<1> HIDE DEF Local
<1> QED
  BY <1>1 DEF Read

\* Whether a number 1 counts.
LEMMA InSources ==
  ASSUME NEW s, NEW v, NEW z
  PROVE  z \in SourcesIn(s, v) <=> z \in v /\ (z # One \/ ~\E k \in DOMAIN s : s[k] = "Mamba")
  BY DEF SourcesIn

\* What a row of operands means is what each of them means.
LEMMA InMeans ==
  ASSUME NEW s, NEW e, NEW k, NEW operands, NEW z
  PROVE  z \in Means(s, e, k, operands) <=>
           z # One /\ \E y \in operands :
                        z \in OperandMeans(s, e, k, InAt(s, e, k), GoAt(s, e, k), y)
  BY DEF Means, MeansWith

\* Nothing comes from nothing, ...
LEMMA FromNothing ==
  ASSUME NEW s, NEW e, NEW k
  PROVE  IsFrom(s, e, k, {}, {})
  BY DEF IsFrom, Fresh, SourcesIn, Means, MeansWith

\* ... what is put together from what its parts are from, ...
LEMMA FromBoth ==
  ASSUME NEW s, NEW e, NEW k, NEW v, NEW w, NEW a, NEW b,
         IsFrom(s, e, k, v, a), IsFrom(s, e, k, w, b)
  PROVE  IsFrom(s, e, k, v \cup w, a \cup b)
<1>1. Fresh(v \cup w)
  BY DEF IsFrom, Fresh
<1>2. ASSUME Matches(s) PROVE SourcesIn(s, v \cup w) = Means(s, e, k, a \cup b)
  <2>1. SourcesIn(s, v) = Means(s, e, k, a) /\ SourcesIn(s, w) = Means(s, e, k, b)
    BY <1>2 DEF IsFrom
  <2>2. SourcesIn(s, v \cup w) = SourcesIn(s, v) \cup SourcesIn(s, w)
    BY DEF SourcesIn
  <2>3. \A z : z \in Means(s, e, k, a \cup b)
                 <=> z \in Means(s, e, k, a) \/ z \in Means(s, e, k, b)
    BY InMeans
  <2> QED
    BY <2>1, <2>2, <2>3
<1> QED
  BY <1>1, <1>2 DEF IsFrom

\* ... of any number of parts.
LEMMA FromAll ==
  ASSUME NEW s, NEW e, NEW k, NEW parts, NEW v, NEW a, NEW all, NEW from,
         \A i \in parts : IsFrom(s, e, k, v[i], a[i]),
         \A z : z \in all <=> \E i \in parts : z \in v[i],
         \A y : y \in from <=> \E i \in parts : y \in a[i]
  PROVE  IsFrom(s, e, k, all, from)
<1>1. Fresh(all)
  BY DEF IsFrom, Fresh
<1>2. ASSUME Matches(s) PROVE SourcesIn(s, all) = Means(s, e, k, from)
  <2>1. \A i \in parts : SourcesIn(s, v[i]) = Means(s, e, k, a[i])
    BY <1>2 DEF IsFrom
  <2>2. ASSUME NEW z PROVE z \in SourcesIn(s, all) <=> \E i \in parts : z \in SourcesIn(s, v[i])
    BY InSources
  <2>3. ASSUME NEW z
        PROVE  z \in Means(s, e, k, from) <=> \E i \in parts : z \in Means(s, e, k, a[i])
    <3>1. z \in Means(s, e, k, from) <=>
            z # One /\ \E y \in from :
                         z \in OperandMeans(s, e, k, InAt(s, e, k), GoAt(s, e, k), y)
      BY InMeans
    <3>2. \A i \in parts :
            z \in Means(s, e, k, a[i]) <=>
              z # One /\ \E y \in a[i] :
                           z \in OperandMeans(s, e, k, InAt(s, e, k), GoAt(s, e, k), y)
      BY InMeans
    <3> QED
      BY <3>1, <3>2
  <2> QED
    BY <2>1, <2>2, <2>3
<1> QED
  BY <1>1, <1>2 DEF IsFrom

\* What a layer has before its pass is from itself.
LEMMA FromGiven ==
  ASSUME NEW s, IsSegment(s), NEW e, NEW k \in 1 .. Len(s), NEW v, Fresh(v)
  PROVE  /\ (Matches(s) => SourcesIn(s, v) = InAt(s, e, k)) => IsFrom(s, e, k, v, {X})
         /\ (Matches(s) => SourcesIn(s, v) = GoAt(s, e, k)) => IsFrom(s, e, k, v, {GradOut})
         /\ v = {<<"t", e>>} => IsFrom(s, e, k, v, {Target})
<1>0. k \in 1 .. Len(s) + 1 /\ k \in 0 .. Len(s)
  BY DEF IsSegment
<1>1. Means(s, e, k, {X}) = InAt(s, e, k)
  <2>1. One \notin InAt(s, e, k)
    BY <1>0, WithoutTheOne
  <2> QED
    BY <2>1 DEF Means, MeansWith, OperandMeans
<1>2. Means(s, e, k, {GradOut}) = GoAt(s, e, k)
  <2>1. One \notin GoAt(s, e, k)
    BY <1>0, WithoutTheOne
  <2>2. GradOut # X
    BY DEF GradOut, X
  <2> QED
    BY <2>1, <2>2 DEF Means, MeansWith, OperandMeans
<1>3. Means(s, e, k, {Target}) = {<<"t", e>>}
  <2>1. Target # X /\ Target # GradOut
    BY DEF GradOut, X, Target
  <2>2. <<"t", e>> # One
    BY DEF One
  <2> QED
    BY <2>1, <2>2 DEF Means, MeansWith, OperandMeans
<1>4. SourcesIn(s, {<<"t", e>>}) = {<<"t", e>>}
  <2>1. <<"t", e>> # One
    BY DEF One
  <2> QED
    BY <2>1 DEF SourcesIn
<1> QED
  BY <1>1, <1>2, <1>3, <1>4 DEF IsFrom

\* Parameters and constants are from themselves.
LEMMA FromOutside ==
  ASSUME TypeInv, NEW j \in Jobs, NEW k \in 1 .. Len(seg), NEW x, IsOperand(x), NEW r,
         x[1] = "p" \/ x[1] = "c",
         Matches(seg) /\ x = One => \E i \in DOMAIN seg : seg[i] = "Mamba"
  PROVE  IsFrom(seg, j[2], k, Read(j, k, x), Origins(r, x))
<1>1. ~Local(x) /\ x # X /\ x # GradOut /\ x # Target
  <2>1. ~Local(x)
    BY DEF IsOperand, Kinds
  <2> QED
    BY <2>1, NamesAreLocal
<1>2. Origins(r, x) = IF x = One THEN {} ELSE {x}
  <2>1. x[1] # "s"
    OBVIOUS
  <2> HIDE DEF Local
  <2> QED
    BY <1>1, <2>1 DEF Origins
<1>3. CASE x[1] = "p"
  <2> DEFINE z == <<x[2], Start[k] + x[3], x[4]>>
  <2>1. Read(j, k, x) = {z}
    BY <1>3, ReadParameters
  <2>2. z # One /\ z # Stale /\ z # Old /\ x # One
    BY <1>3 DEF One, Stale, Old
  <2>3. OperandMeans(seg, j[2], k, InAt(seg, j[2], k), GoAt(seg, j[2], k), x) = {z}
    BY <1>1, <1>3 DEF OperandMeans, Start
  <2> HIDE DEF z
  <2>4. Means(seg, j[2], k, {x}) = {z}
    BY <2>2, <2>3 DEF Means, MeansWith
  <2>5. SourcesIn(seg, {z}) = {z} /\ Fresh({z})
    BY <2>2 DEF SourcesIn, Fresh
  <2> QED
    BY <1>2, <2>1, <2>2, <2>4, <2>5 DEF IsFrom
<1>4. CASE x[1] = "c"
  <2>1. Read(j, k, x) = {x}
    BY <1>4, ReadConstant
  <2>2. Fresh({x})
    BY <1>4 DEF Fresh, Stale, Old
  <2>3. CASE x = One
    <3>1. Matches(seg) => SourcesIn(seg, {x}) = {}
      BY <2>3 DEF SourcesIn
    <3>2. Means(seg, j[2], k, {}) = {}
      BY DEF Means, MeansWith
    <3> QED
      BY <1>2, <2>1, <2>2, <2>3, <3>1, <3>2 DEF IsFrom
  <2>4. CASE x # One
    <3>1. OperandMeans(seg, j[2], k, InAt(seg, j[2], k), GoAt(seg, j[2], k), x) = {x}
      BY <1>1, <1>4 DEF OperandMeans
    <3>2. Means(seg, j[2], k, {x}) = {x}
      BY <2>4, <3>1 DEF Means, MeansWith
    <3>3. SourcesIn(seg, {x}) = {x}
      BY <2>4 DEF SourcesIn
    <3> QED
      BY <1>2, <2>1, <2>2, <2>4, <3>2, <3>3 DEF IsFrom
  <2> QED
    BY <2>3, <2>4
<1> QED
  BY <1>3, <1>4

\* An operand that a pass reads is from what the reading says.
LEMMA ReadIsFrom ==
  ASSUME TypeInv, StateOk, NEW j \in Jobs, NEW k \in 1 .. Len(seg), NEW r, NEW x,
         IsOperand(x), x[1] # "d",
         Local(x) => Has(seg, j[2], k, mem[j][k], x, r.holds[x]),
         Matches(seg) /\ x[1] = "s" => x[2] \in UsedBy(seg, Device(j), k),
         Matches(seg) /\ x = One => \E i \in DOMAIN seg : seg[i] = "Mamba"
  PROVE  IsFrom(seg, j[2], k, Read(j, k, x), Origins(r, x))
<1>1. CASE Local(x)
  <2>1. Read(j, k, x) = mem[j][k][x]
    BY <1>1, ReadLocal DEF Has
  <2>2. Origins(r, x) = r.holds[x]
    BY <1>1 DEF Origins
  <2> QED
    BY <1>1, <2>1, <2>2 DEF Has
<1>2. CASE x[1] = "p" \/ x[1] = "c"
  BY <1>2, FromOutside
<1>3. CASE x[1] = "s"
  <2> DEFINE d == Device(j)
             key == <<k, x[2]>>
  <2>1. d \in {"cpu", "gpu"} /\ key[1] = k /\ key[2] = x[2]
    BY DEF Device, Jobs
  <2>2. Read(j, k, x) = IF key \in DOMAIN state[d] THEN state[d][key] ELSE {}
    BY <1>3, ReadState
  <2>3. Origins(r, x) = {}
    <3>1. ~Local(x)
      BY <1>3 DEF IsOperand, Kinds
    <3> HIDE DEF Local
    <3> QED
      BY <1>3, <3>1 DEF Origins
  <2> HIDE DEF key, d
  <2>4. CASE key \in DOMAIN state[d]
    <3>1. Fresh(state[d][key]) /\ (Matches(seg) => state[d][key] = {})
      BY <1>3, <2>1, <2>4 DEF StateOk, d
    <3>2. SourcesIn(seg, {}) = {} /\ Means(seg, j[2], k, {}) = {}
      BY DEF SourcesIn, Means, MeansWith
    <3> QED
      BY <2>2, <2>3, <2>4, <3>1, <3>2 DEF IsFrom
  <2>5. CASE key \notin DOMAIN state[d]
    BY <2>2, <2>3, <2>5, FromNothing
  <2> QED
    BY <2>4, <2>5
<1> QED
  BY <1>1, <1>2, <1>3, OperandIs

\* What was computed, parameters, state and constants are fresh.
LEMMA FreshRead ==
  ASSUME NEW j \in Jobs, NEW k, NEW x, IsOperand(x), x[1] # "d", StateOk,
         Local(x) => x \in DOMAIN mem[j][k] /\ Fresh(mem[j][k][x])
  PROVE  Fresh(Read(j, k, x))
<1>1. Device(j) \in {"cpu", "gpu"}
  BY DEF Device, Jobs
<1>2. CASE Local(x)
  BY <1>2, ReadLocal
<1>3. CASE x[1] = "p"
  <2>1. \A a, b, c : <<a, b, c>> # Stale /\ <<a, b, c>> # Old
    BY DEF Stale, Old
  <2>2. Read(j, k, x) = {<<x[2], Start[k] + x[3], x[4]>>}
    BY <1>3, ReadParameters
  <2> QED
    BY <2>1, <2>2 DEF Fresh
<1>4. CASE x[1] = "s"
  <2>1. CASE <<k, x[2]>> \in DOMAIN state[Device(j)]
    <3>1. Read(j, k, x) = state[Device(j)][<<k, x[2]>>]
      BY <1>4, <2>1, ReadState
    <3> QED
      BY <1>1, <2>1, <3>1 DEF StateOk
  <2>2. CASE <<k, x[2]>> \notin DOMAIN state[Device(j)]
    BY <1>4, <2>2, ReadState DEF Fresh
  <2> QED
    BY <2>1, <2>2
<1>5. CASE x[1] = "c"
  <2>1. x # Stale /\ x # Old
    BY <1>5 DEF Stale, Old
  <2>2. Read(j, k, x) = {x}
    BY <1>5, ReadConstant
  <2> QED
    BY <2>1, <2>2 DEF Fresh
<1> QED
  BY <1>2, <1>3, <1>4, <1>5, OperandIs

\* What is clean before an operation.
LEMMA CleanHere ==
  ASSUME TypeInv, CleanInv, NEW j \in Jobs, Passing(at[j]), at[j].layer \in 1 .. Len(seg),
         NEW v \in DOMAIN KnownAt(seg, Device(j), at[j]).holds
  PROVE  Has(seg, j[2], at[j].layer, mem[j][at[j].layer], v,
             KnownAt(seg, Device(j), at[j]).holds[v])
  BY DEF CleanInv, CleanOk, Expected

\* So is what is computed from it.
LEMMA FreshValue ==
  ASSUME TypeInv, CleanInv, NEW j \in Jobs, Passing(at[j]), at[j].layer \in 1 .. Len(seg),
         NEW e, NEW len, EffectFits(e, len), FromClean(KnownAt(seg, Device(j), at[j]), e)
  PROVE  Fresh(Value(j, at[j].layer, e))
<1> DEFINE k == at[j].layer
           r == KnownAt(seg, Device(j), at[j])
<1>1. \A v \in DOMAIN r.holds : v \in DOMAIN mem[j][k] /\ Fresh(mem[j][k][v])
  BY CleanHere DEF Has, IsFrom
<1>2. ASSUME NEW x \in e.from PROVE Fresh(Read(j, k, x))
  <2>1. IsOperand(x) /\ x[1] # "d" /\ IsClean(r, x)
    BY DEF EffectFits, FromClean
  <2>2. Local(x) => x \in DOMAIN mem[j][k] /\ Fresh(mem[j][k][x])
    BY <1>1, <2>1 DEF IsClean
  <2> QED
    BY <2>1, <2>2, FreshRead DEF CleanInv
<1> HIDE DEF k, r
<1> QED
  BY <1>2 DEF Value, Fresh, k

\* The effects of an operation of a pass are among those of the layer.
LEMMA EffectsOfLayer ==
  ASSUME TypeInv, NEW j \in Jobs, NEW kinds, HasOp(j, kinds), at' = Moved(j),
         NEW e \in Effects(ThisOp(j))
  PROVE  LET d == Device(j)
             k == at[j].layer
             all == EffectsOf(Passes(seg, d, k).fwd) \cup EffectsOf(Passes(seg, d, k).bwd)
         IN e \in all
<1> DEFINE d == Device(j)
           k == at[j].layer
           p == ProgramAt(seg, d, at[j])
           n == at[j].op
<1>1. n \in 1 .. Len(p) /\ ThisOp(j) = p[n]
  BY Operating
<1>2. e \in EffectsOf(p)
  BY <1>1 DEF EffectsOf
<1>3. p = Passes(seg, d, k).fwd \/ p = Passes(seg, d, k).bwd
  BY DEF ProgramAt
<1> QED
  BY <1>2, <1>3

\* What an operation reads for something else than the state is what
\* implementations may match in.
LEMMA ReadsMatch ==
  ASSUME TypeInv, NEW j \in Jobs, NEW kinds, HasOp(j, kinds), at' = Moved(j),
         NEW e \in Effects(ThisOp(j)), NEW x \in e.from
  PROVE  /\ x[1] = "s" /\ e.to[1] # "s" => x[2] \in UsedBy(seg, Device(j), at[j].layer)
         /\ Matches(seg) /\ x = One => \E i \in DOMAIN seg : seg[i] = "Mamba"
<1> DEFINE d == Device(j)
           k == at[j].layer
           all == EffectsOf(Passes(seg, d, k).fwd) \cup EffectsOf(Passes(seg, d, k).bwd)
<1>1. e \in all /\ k \in 1 .. Len(seg)
  BY EffectsOfLayer, Operating
<1>2. ASSUME x[1] = "s", e.to[1] # "s" PROVE x[2] \in UsedBy(seg, d, k)
  <2>1. e \in {f \in all : f.to[1] # "s"}
    BY <1>1, <1>2
  <2>2. x \in UNION {g.from : g \in {f \in all : f.to[1] # "s"}}
    BY <2>1
  <2> QED
    BY <1>2, <2>2 DEF UsedBy, Used
<1>3. ASSUME Matches(seg), x = One PROVE \E i \in DOMAIN seg : seg[i] = "Mamba"
  <2>1. d \in {"cpu", "gpu"} /\ IsSegment(seg)
    BY DEF Device, Jobs, TypeInv
  <2>2. seg[k] = "Mamba" \/ \A f \in all : One \notin f.from
    BY <1>1, <1>3, <2>1, LayerOfMatching
  <2>3. seg[k] = "Mamba"
    BY <1>1, <1>3, <2>2
  <2> HIDE DEF k
  <2> QED
    BY <1>1, <2>1, <2>3 DEF IsSegment
<1> QED
  BY <1>2, <1>3

\* What is computed, but for the state, is from what the reading says.
LEMMA ValueIsFrom ==
  ASSUME TypeInv, CleanInv, NEW j \in Jobs, NEW kinds, HasOp(j, kinds), at' = Moved(j),
         NEW e \in Effects(ThisOp(j)), e.to[1] # "s",
         FromClean(KnownAt(seg, Device(j), at[j]), e)
  PROVE  IsFrom(seg, j[2], at[j].layer, Value(j, at[j].layer, e),
                OriginsOf(KnownAt(seg, Device(j), at[j]), {e}))
<1> DEFINE k == at[j].layer
           r == KnownAt(seg, Device(j), at[j])
           read == [x \in e.from |-> Read(j, k, x)]
           from == [x \in e.from |-> Origins(r, x)]
<1>1. /\ k \in 1 .. Len(seg) /\ Passing(at[j])
      /\ EffectFits(e, CodeOf(seg, k).len)
  BY Operating DEF OpFits
<1>2. ASSUME NEW x \in e.from PROVE IsFrom(seg, j[2], k, read[x], from[x])
  <2>1. IsOperand(x) /\ x[1] # "d" /\ IsClean(r, x)
    BY <1>1 DEF EffectFits, FromClean
  <2>2. Local(x) => Has(seg, j[2], k, mem[j][k], x, r.holds[x])
    BY <1>1, <2>1, CleanHere DEF IsClean
  <2>3. /\ x[1] = "s" => x[2] \in UsedBy(seg, Device(j), k)
        /\ Matches(seg) /\ x = One => \E i \in DOMAIN seg : seg[i] = "Mamba"
    BY ReadsMatch
  <2>4. StateOk
    BY DEF CleanInv
  <2>5. IsFrom(seg, j[2], k, Read(j, k, x), Origins(r, x))
    <3> HIDE DEF k, r
    <3> QED
      BY <1>1, <2>1, <2>2, <2>3, <2>4, ReadIsFrom DEF k
  <2> QED
    BY <2>5
<1> DEFINE whole == UNION {read[x] : x \in e.from}
           operands == UNION {from[x] : x \in e.from}
<1>3. IsFrom(seg, j[2], k, whole, operands)
  <2>1. /\ \A z : z \in whole <=> \E x \in e.from : z \in read[x]
        /\ \A y : y \in operands <=> \E x \in e.from : y \in from[x]
    OBVIOUS
  <2> HIDE DEF k, read, from, whole, operands
  <2> QED
    BY <1>2, <2>1, FromAll
<1>4. OriginsOf(r, {e}) = operands
  <2>1. UNION {f.from : f \in {e}} = e.from
    OBVIOUS
  <2> QED
    BY <2>1 DEF OriginsOf
<1>5. Value(j, k, e) = whole \ (IF e.mode = "product" THEN {One} ELSE {})
  BY DEF Value
<1>6. IsFrom(seg, j[2], k, whole \ {One}, operands)
  <2> HIDE DEF whole, operands, k
  <2>1. Fresh(whole \ {One})
    BY <1>3 DEF IsFrom, Fresh
  <2>2. ASSUME Matches(seg)
        PROVE  SourcesIn(seg, whole \ {One}) = Means(seg, j[2], k, operands)
    <3>1. SourcesIn(seg, whole) = Means(seg, j[2], k, operands)
      BY <1>3, <2>2 DEF IsFrom
    <3>2. One \notin Means(seg, j[2], k, operands)
      BY InMeans
    <3> QED
      BY <3>1, <3>2 DEF SourcesIn
  <2> QED
    BY <2>1, <2>2 DEF IsFrom
<1> HIDE DEF whole, operands, k, r
<1> QED
  BY <1>3, <1>4, <1>5, <1>6 DEF k, r

\* The operands of several effects are those of each.
LEMMA OriginsTogether ==
  ASSUME NEW r, NEW effects
  PROVE  OriginsOf(r, effects) = UNION {OriginsOf(r, {e}) : e \in effects}
<1>1. ASSUME NEW e PROVE OriginsOf(r, {e}) = UNION {Origins(r, x) : x \in e.from}
  <2>1. UNION {f.from : f \in {e}} = e.from
    OBVIOUS
  <2> QED
    BY <2>1 DEF OriginsOf
<1> QED
  BY <1>1 DEF OriginsOf

\* What several effects write is from what the reading says.
LEMMA ValuesAreFrom ==
  ASSUME TypeInv, CleanInv, NEW j \in Jobs, NEW kinds, HasOp(j, kinds), at' = Moved(j),
         NEW effects, effects \subseteq Effects(ThisOp(j)),
         \A e \in effects : e.to[1] # "s" /\ FromClean(KnownAt(seg, Device(j), at[j]), e)
  PROVE  IsFrom(seg, j[2], at[j].layer, UNION {Value(j, at[j].layer, e) : e \in effects},
                OriginsOf(KnownAt(seg, Device(j), at[j]), effects))
<1> DEFINE k == at[j].layer
           r == KnownAt(seg, Device(j), at[j])
           value == [e \in effects |-> Value(j, k, e)]
           from == [e \in effects |-> OriginsOf(r, {e})]
<1>1. \A e \in effects : IsFrom(seg, j[2], k, value[e], from[e])
  BY ValueIsFrom
<1> DEFINE whole == UNION {Value(j, k, e) : e \in effects}
           operands == OriginsOf(r, effects)
<1>2. \A z : z \in whole <=> \E e \in effects : z \in value[e]
  BY Zenon
<1>3. \A y : y \in operands <=> \E e \in effects : y \in from[e]
  <2> HIDE DEF r
  <2>1. operands = UNION {OriginsOf(r, {e}) : e \in effects}
    BY OriginsTogether
  <2> QED
    BY <2>1
<1> HIDE DEF value, from, whole, operands
<1>4. IsFrom(seg, j[2], k, whole, operands)
  <2> HIDE DEF k
  <2> QED
    BY <1>1, <1>2, <1>3, FromAll
<1> QED
  BY <1>4 DEF whole, operands

\* Where implementations match, what is used of the state stays nothing.
LEMMA UsedStateCounts ==
  ASSUME TypeInv, StateOk, Matches(seg), NEW j \in Jobs, NEW kinds, HasOp(j, kinds),
         at' = Moved(j), NEW e \in Effects(ThisOp(j)), e.to[1] = "s",
         e.to[2] \in UsedBy(seg, Device(j), at[j].layer)
  PROVE  Value(j, at[j].layer, e) = {}
<1> DEFINE d == Device(j)
           k == at[j].layer
           all == EffectsOf(Passes(seg, d, k).fwd) \cup EffectsOf(Passes(seg, d, k).bwd)
<1>1. /\ e \in all /\ k \in 1 .. Len(seg) /\ d \in {"cpu", "gpu"} /\ IsSegment(seg)
      /\ EffectFits(e, CodeOf(seg, k).len)
  <2>1. e \in all
    BY EffectsOfLayer
  <2>2. k \in 1 .. Len(seg) /\ EffectFits(e, CodeOf(seg, k).len)
    BY Operating DEF OpFits
  <2> QED
    BY <2>1, <2>2 DEF TypeInv, Device, Jobs
<1>2. StateCounts(all)
  BY <1>1, LayerOfMatching
<1>3. ASSUME NEW x \in e.from PROVE Read(j, k, x) = {}
  <2>1. x[1] = "s" /\ x[2] \in UsedBy(seg, d, k)
    BY <1>1, <1>2 DEF StateCounts, UsedBy
  <2>2. IsOperand(x)
    BY <1>1 DEF EffectFits
  <2> DEFINE key == <<k, x[2]>>
  <2>3. Read(j, k, x) = IF key \in DOMAIN state[d] THEN state[d][key] ELSE {}
    BY <2>1, <2>2, ReadState
  <2>4. key[1] = k /\ key[2] = x[2]
    OBVIOUS
  <2> HIDE DEF key, d, k
  <2>5. key \in DOMAIN state[d] => state[d][key] = {}
    BY <1>1, <2>1, <2>4 DEF StateOk, d, k
  <2> QED
    BY <2>3, <2>5
<1> HIDE DEF k
<1> QED
  BY <1>3 DEF Value, k

-----------------------------------------------------------------------------
(* Buffers *)

\* Nothing of the other layers' buffers changes while a layer runs.
LEMMA ExpectedElsewhere ==
  ASSUME NEW s, NEW d, NEW a, NEW b, Passing(a), Passing(b), a.pass = b.pass,
         a.layer = b.layer, NEW k, k # a.layer
  PROVE  Expected(s, d, a, k) = Expected(s, d, b, k)
  BY DEF Expected, Passing, Idle, Between

\* What an operation leaves in the buffers of its layer.
LEMMA CleanOperation ==
  ASSUME TypeInv, CleanInv, NEW j \in Jobs, NEW kinds, HasOp(j, kinds), at' = Moved(j),
         LET k == at[j].layer
             holds == Changed(KnownAt(seg, Device(j), at[j]), ThisOp(j), CodeOf(seg, k).len).holds
         IN /\ \A i \in 1 .. Len(seg) \ {k} : mem'[j][i] = mem[j][i]
            /\ \A v \in DOMAIN holds : Has(seg, j[2], k, mem'[j][k], v, holds[v])
  PROVE  CleanOk(seg, Device(j), at'[j], j[2], mem'[j])
<1> DEFINE s == seg
           d == Device(j)
           a == at[j]
           b == at'[j]
           k == a.layer
<1>1. /\ Passing(a) /\ Passing(b) /\ b = At(a.pass, k, a.op + 1) /\ k \in 1 .. Len(s)
      /\ KnownAt(s, d, b) = Changed(KnownAt(s, d, a), ThisOp(j), CodeOf(s, k).len)
  BY Operating
<1>2. a.pass = b.pass /\ b.layer = k
  BY <1>1 DEF At
<1>3. Expected(s, d, b, k) = KnownAt(s, d, b).holds
  BY <1>1, <1>2 DEF Expected
<1>4. ASSUME NEW i \in 1 .. Len(s), NEW v \in DOMAIN Expected(s, d, b, i)
      PROVE  Has(s, j[2], i, mem'[j][i], v, Expected(s, d, b, i)[v])
  <2>1. CASE i = k
    <3> DEFINE holds == Changed(KnownAt(s, d, a), ThisOp(j), CodeOf(s, k).len).holds
    <3>1. Expected(s, d, b, i) = holds
      BY <1>1, <1>3, <2>1
    <3>2. \A w \in DOMAIN holds : Has(s, j[2], k, mem'[j][k], w, holds[w])
      OBVIOUS
    <3> HIDE DEF holds, b, d, s, k
    <3> QED
      BY <2>1, <3>1, <3>2
  <2>2. CASE i # k
    <3>1. Expected(s, d, a, i) = Expected(s, d, b, i)
      <4>1. /\ Passing(a) /\ Passing(b) /\ a.pass = b.pass
            /\ a.layer = b.layer /\ i # a.layer
        BY <1>1, <1>2, <2>2
      <4> HIDE DEF a, b, s, d
      <4> QED
        BY <4>1, ExpectedElsewhere
    <3>2. mem'[j][i] = mem[j][i]
      BY <2>2
    <3>3. CleanOk(s, d, a, j[2], mem[j])
      BY DEF CleanInv
    <3> HIDE DEF a, b, s, d
    <3> QED
      BY <3>1, <3>2, <3>3 DEF CleanOk
  <2> QED
    BY <2>1, <2>2
<1> QED
  BY <1>4 DEF CleanOk

\* What is left as it was is still what it was computed from.
LEMMA HasStill ==
  ASSUME NEW s, NEW e, NEW k, NEW m, NEW n, NEW v, NEW w, NEW operands,
         Has(s, e, k, m, v, operands), Local(w), w \in DOMAIN n, n[w] = m[v]
  PROVE  Has(s, e, k, n, w, operands)
  BY DEF Has

\* Each kind of operation leaves what its program says.
LEMMA CleanAllocate ==
  ASSUME TypeInv, CleanInv, NEW j \in Jobs, Allocate(j)
  PROVE  CleanOk(seg, Device(j), at'[j], j[2], mem'[j])
<1> DEFINE k == at[j].layer
           o == ThisOp(j)
           r == KnownAt(seg, Device(j), at[j])
           len == CodeOf(seg, k).len
<1>1. HasOp(j, {"new", "temp"}) /\ at' = Moved(j)
  BY DEF Allocate
<1>2. o.op \in {"new", "temp"} /\ Passing(at[j]) /\ k \in 1 .. Len(seg)
  BY <1>1, Operating
<1>3. mem'[j] = [mem[j] EXCEPT ![k] = With(@, o.var, {Stale})]
  BY DEF Allocate, TypeInv
<1>4. /\ mem'[j][k] = With(mem[j][k], o.var, {Stale})
      /\ \A i \in 1 .. Len(seg) \ {k} : mem'[j][i] = mem[j][i]
  BY <1>2, <1>3 DEF TypeInv
<1>5. Changed(r, o, len).holds = Without(r.holds, o.var)
  BY <1>2, HoldsAfter
<1>6. ASSUME NEW v \in DOMAIN Without(r.holds, o.var)
      PROVE  Has(seg, j[2], k, mem'[j][k], v, Without(r.holds, o.var)[v])
  <2>1. v \in DOMAIN r.holds /\ v # o.var /\ Without(r.holds, o.var)[v] = r.holds[v]
    BY DEF Without, Restrict
  <2>2. Has(seg, j[2], k, mem[j][k], v, r.holds[v])
    BY <1>2, <2>1, CleanHere
  <2>3. v \in DOMAIN mem'[j][k] /\ mem'[j][k][v] = mem[j][k][v]
    BY <1>4, <2>1, <2>2 DEF Has, With, Without, Restrict
  <2>4. Local(v)
    BY <2>2 DEF Has
  <2> HIDE DEF k, r, o
  <2> QED
    BY <2>1, <2>2, <2>3, <2>4, HasStill
<1> QED
  BY <1>1, <1>4, <1>5, <1>6, CleanOperation

\* remove of a temporary: it is not expected any more.
LEMMA CleanRelease ==
  ASSUME TypeInv, CleanInv, NEW j \in Jobs, Release(j)
  PROVE  CleanOk(seg, Device(j), at'[j], j[2], mem'[j])
<1> DEFINE k == at[j].layer
           o == ThisOp(j)
           r == KnownAt(seg, Device(j), at[j])
           len == CodeOf(seg, k).len
<1>1. HasOp(j, {"free"}) /\ at' = Moved(j)
  BY DEF Release
<1>2. o.op \in {"free"} /\ Passing(at[j]) /\ k \in 1 .. Len(seg)
  BY <1>1, Operating
<1>3. mem'[j] = [mem[j] EXCEPT ![k] = Without(@, o.var)]
  BY DEF Release, TypeInv
<1>4. /\ mem'[j][k] = Without(mem[j][k], o.var)
      /\ \A i \in 1 .. Len(seg) \ {k} : mem'[j][i] = mem[j][i]
  BY <1>2, <1>3 DEF TypeInv
<1>5. Changed(r, o, len).holds = Without(r.holds, o.var)
  BY <1>2, HoldsAfter
<1>6. ASSUME NEW v \in DOMAIN Without(r.holds, o.var)
      PROVE  Has(seg, j[2], k, mem'[j][k], v, Without(r.holds, o.var)[v])
  <2>1. v \in DOMAIN r.holds /\ v # o.var /\ Without(r.holds, o.var)[v] = r.holds[v]
    BY DEF Without, Restrict
  <2>2. Has(seg, j[2], k, mem[j][k], v, r.holds[v])
    BY <1>2, <2>1, CleanHere
  <2>3. v \in DOMAIN mem'[j][k] /\ mem'[j][k][v] = mem[j][k][v]
    BY <1>4, <2>1, <2>2 DEF Has, With, Without, Restrict
  <2>4. Local(v)
    BY <2>2 DEF Has
  <2> HIDE DEF k, r, o
  <2> QED
    BY <2>1, <2>2, <2>3, <2>4, HasStill
<1> QED
  BY <1>1, <1>4, <1>5, <1>6, CleanOperation

\* swap: both buffers were computed, in either place.
LEMMA CleanExchange ==
  ASSUME TypeInv, CleanInv, NEW j \in Jobs, Exchange(j)
  PROVE  CleanOk(seg, Device(j), at'[j], j[2], mem'[j])
<1> DEFINE k == at[j].layer
           o == ThisOp(j)
           r == KnownAt(seg, Device(j), at[j])
           len == CodeOf(seg, k).len
<1>1. HasOp(j, {"swap"}) /\ at' = Moved(j)
  BY DEF Exchange
<1>2. /\ o.op \in {"swap"} /\ Passing(at[j]) /\ k \in 1 .. Len(seg)
      /\ OpFits(r, o, len)
  BY <1>1, Operating
<1>3. mem'[j] = [mem[j] EXCEPT ![k] = Swapped(@, o.var, o.with)]
  BY DEF Exchange, TypeInv
<1>4. /\ mem'[j][k] = Swapped(mem[j][k], o.var, o.with)
      /\ \A i \in 1 .. Len(seg) \ {k} : mem'[j][i] = mem[j][i]
  BY <1>2, <1>3 DEF TypeInv
<1>5. Changed(r, o, len).holds = Swapped(r.holds, o.var, o.with)
  <2>1. o.op = "swap"
    BY <1>2
  <2> HIDE DEF r, o, len
  <2> QED
    BY <2>1, HoldsAfter
<1>6. o.var \in DOMAIN r.holds /\ o.with \in DOMAIN r.holds
  BY <1>2 DEF OpFits
<1>7. ASSUME NEW v \in DOMAIN Swapped(r.holds, o.var, o.with)
      PROVE  Has(seg, j[2], k, mem'[j][k], v, Swapped(r.holds, o.var, o.with)[v])
  <2>1. \A w \in DOMAIN r.holds : Has(seg, j[2], k, mem[j][k], w, r.holds[w])
    BY <1>2, CleanHere
  <2>2. \A w \in DOMAIN r.holds : Local(w) /\ w \in DOMAIN mem[j][k]
    BY <2>1 DEF Has
  <2>3. /\ v \in DOMAIN r.holds /\ Other(o, v) \in DOMAIN r.holds
        /\ Swapped(r.holds, o.var, o.with)[v] = r.holds[Other(o, v)]
    BY <1>6 DEF Swapped, Other
  <2>4. v \in DOMAIN mem'[j][k] /\ mem'[j][k][v] = mem[j][k][Other(o, v)]
    BY <1>4, <1>6, <2>2, <2>3 DEF Swapped, Other
  <2> HIDE DEF k, r, o
  <2> QED
    BY <2>1, <2>2, <2>3, <2>4, HasStill
<1> QED
  BY <1>1, <1>4, <1>5, <1>7, CleanOperation

\* The context keeps what the layer names, and the output.
LEMMA CleanSave ==
  ASSUME TypeInv, CleanInv, NEW j \in Jobs, Save(j)
  PROVE  CleanOk(seg, Device(j), at'[j], j[2], mem'[j])
<1> DEFINE k == at[j].layer
           o == ThisOp(j)
           r == KnownAt(seg, Device(j), at[j])
           len == CodeOf(seg, k).len
           vs == o.vars \cup {Y}
<1>1. HasOp(j, {"keep"}) /\ at' = Moved(j)
  BY DEF Save
<1>2. o.op \in {"keep"} /\ Passing(at[j]) /\ k \in 1 .. Len(seg)
  BY <1>1, Operating
<1>3. mem'[j] = [mem[j] EXCEPT ![k] = Restrict(@, DOMAIN @ \cap vs)]
  BY DEF Save, TypeInv
<1>4. /\ mem'[j][k] = Restrict(mem[j][k], DOMAIN mem[j][k] \cap vs)
      /\ \A i \in 1 .. Len(seg) \ {k} : mem'[j][i] = mem[j][i]
  BY <1>2, <1>3 DEF TypeInv
<1> DEFINE kept == Restrict(r.holds, DOMAIN r.holds \cap vs)
<1>5. Changed(r, o, len).holds = kept
  BY <1>2, HoldsAfter
<1>6. ASSUME NEW v \in DOMAIN kept
      PROVE  Has(seg, j[2], k, mem'[j][k], v, kept[v])
  <2>1. v \in DOMAIN r.holds /\ v \in vs /\ kept[v] = r.holds[v]
    BY DEF Restrict
  <2>2. Has(seg, j[2], k, mem[j][k], v, r.holds[v])
    BY <1>2, <2>1, CleanHere
  <2>3. v \in DOMAIN mem'[j][k] /\ mem'[j][k][v] = mem[j][k][v]
    BY <1>4, <2>1, <2>2 DEF Has, Restrict
  <2>4. Local(v)
    BY <2>2 DEF Has
  <2> HIDE DEF k, r, o, kept
  <2> QED
    BY <2>1, <2>2, <2>3, <2>4, HasStill
<1> HIDE DEF kept
<1> QED
  BY <1>1, <1>4, <1>5, <1>6, CleanOperation

\* The cache leaves the buffers as they are.
LEMMA CleanCaching ==
  ASSUME TypeInv, CleanInv, NEW j \in Jobs, Caching(j)
  PROVE  CleanOk(seg, Device(j), at'[j], j[2], mem'[j])
<1> DEFINE k == at[j].layer
           o == ThisOp(j)
           r == KnownAt(seg, Device(j), at[j])
           len == CodeOf(seg, k).len
<1>1. HasOp(j, {"insert", "remove"}) /\ at' = Moved(j) /\ mem' = mem
  BY DEF Caching
<1>2. o.op \in {"insert", "remove"} /\ Passing(at[j]) /\ k \in 1 .. Len(seg)
  BY <1>1, Operating
<1>3. Changed(r, o, len).holds = r.holds
  BY <1>2, HoldsAfter
<1>4. ASSUME NEW v \in DOMAIN r.holds
      PROVE  Has(seg, j[2], k, mem'[j][k], v, r.holds[v])
  BY <1>1, <1>2, CleanHere
<1> QED
  BY <1>1, <1>3, <1>4, CleanOperation

\* Of a pass that goes no further nothing is expected.
LEMMA CleanDrop ==
  ASSUME TypeInv, NEW j \in Jobs, Drop(j)
  PROVE  CleanOk(seg, Device(j), at'[j], j[2], mem'[j])
<1>1. at'[j] = Dropped
  BY DEF Drop, TypeInv
<1>2. \A k : Expected(seg, Device(j), Dropped, k) = EmptyMap
  BY DEF Expected, Passing, Dropped, Idle, Between
<1> QED
  BY <1>1, <1>2 DEF CleanOk, EmptyMap

\* What a dispatch, or a step on the host, does to buffers, gradients and state.
LEMMA ComputeIs ==
  ASSUME TypeInv, NEW j \in Jobs, Compute(j)
  PROVE  LET k == at[j].layer
             o == ThisOp(j)
             d == Device(j)
         IN /\ HasOp(j, {"call", "do"}) /\ at' = Moved(j) /\ o.op \in {"call", "do"}
            /\ Passing(at[j]) /\ k \in 1 .. Len(seg)
            /\ OpFits(KnownAt(seg, d, at[j]), o, CodeOf(seg, k).len)
            /\ mem'[j][k] = MemAfter(j, k, Effects(o))
            /\ \A i \in 1 .. Len(seg) \ {k} : mem'[j][i] = mem[j][i]
            /\ grads'[j] = GradsAfter(j, k, Effects(o))
            /\ state'[d] = StateAfter(j, k, Effects(o))
            /\ \A c \in {"cpu", "gpu"} \ {d} : state'[c] = state[c]
            /\ result'[j] = result[j]
<1> DEFINE k == at[j].layer
           o == ThisOp(j)
           d == Device(j)
<1>1. HasOp(j, {"call", "do"}) /\ at' = Moved(j)
  BY DEF Compute
<1>2. /\ o.op \in {"call", "do"} /\ Passing(at[j]) /\ k \in 1 .. Len(seg)
      /\ OpFits(KnownAt(seg, d, at[j]), o, CodeOf(seg, k).len)
  BY <1>1, Operating
<1>3. Effects(o) = o.effects
  BY <1>2 DEF Effects
<1>4. mem'[j] = [mem[j] EXCEPT ![k] = MemAfter(j, k, Effects(o))]
  BY <1>3 DEF Compute, TypeInv
<1>5. /\ mem'[j][k] = MemAfter(j, k, Effects(o))
      /\ \A i \in 1 .. Len(seg) \ {k} : mem'[j][i] = mem[j][i]
  BY <1>2, <1>4 DEF TypeInv
<1>6. grads'[j] = GradsAfter(j, k, Effects(o))
  BY <1>3 DEF Compute, TypeInv
<1>7. d \in {"cpu", "gpu"}
  BY DEF Device, Jobs
<1>8. /\ state'[d] = StateAfter(j, k, Effects(o))
      /\ \A c \in {"cpu", "gpu"} \ {d} : state'[c] = state[c]
  BY <1>3, <1>7 DEF Compute, TypeInv
<1>9. result'[j] = result[j]
  BY DEF Compute
<1> QED
  BY <1>1, <1>2, <1>5, <1>6, <1>8, <1>9

\* A computation: its targets are clean if what it read was.
LEMMA CleanCompute ==
  ASSUME TypeInv, CleanInv, NEW j \in Jobs, Compute(j)
  PROVE  CleanOk(seg, Device(j), at'[j], j[2], mem'[j])
<1> DEFINE k == at[j].layer
           o == ThisOp(j)
           r == KnownAt(seg, Device(j), at[j])
           len == CodeOf(seg, k).len
           here == {e \in Effects(o) : Local(e.to)}
           old == mem[j][k]
           On_(v) == {e \in here : e.to = v}
           new == mem'[j][k]
<1>1. /\ HasOp(j, {"call", "do"}) /\ at' = Moved(j) /\ o.op \in {"call", "do"}
      /\ Passing(at[j]) /\ k \in 1 .. Len(seg) /\ OpFits(r, o, len)
      /\ \A i \in 1 .. Len(seg) \ {k} : mem'[j][i] = mem[j][i]
  BY ComputeIs
<1>2. new = [v \in DOMAIN old \cup {e.to : e \in here} |->
               (UNION {Value(j, k, e) : e \in On_(v)})
                 \cup (IF v \in DOMAIN old /\ \A e \in On_(v) : e.mode = "add"
                         THEN old[v] ELSE {})]
  BY ComputeIs DEF MemAfter
<1> DEFINE holds == Changed(r, o, len).holds
<1>3. holds = HoldsThen(r, o)
  <2>1. o.op \in {"call", "do"}
    BY <1>1
  <2> HIDE DEF r, o, len
  <2> QED
    BY <2>1, HoldsAfter
<1>4. ASSUME NEW v \in DOMAIN holds
      PROVE  Has(seg, j[2], k, new, v, holds[v])
  <2>0. /\ v \in DOMAIN r.holds \cup Targets(o) /\ \A e \in On(o, v) : FromClean(r, e)
        /\ v \in DOMAIN r.holds \/ ~AllAdd(On(o, v))
        /\ holds[v] = OriginsOf(r, On(o, v)) \cup (IF AllAdd(On(o, v)) THEN r.holds[v] ELSE {})
    <3> HIDE DEF r, o, holds
    <3> QED
      BY <1>3 DEF HoldsThen
  <2>1. v \in DOMAIN r.holds => Has(seg, j[2], k, old, v, r.holds[v])
    BY <1>1, CleanHere
  <2>2. Local(v) /\ v \in DOMAIN old \cup {e.to : e \in here}
    <3> HIDE DEF r
    <3> QED
      BY <2>0, <2>1 DEF Targets, Has
  <2>3. On_(v) = On(o, v)
    BY <2>2 DEF On
  <2> DEFINE computed == UNION {Value(j, k, e) : e \in On(o, v)}
             rest == IF v \in DOMAIN old /\ AllAdd(On(o, v)) THEN old[v] ELSE {}
             operands == OriginsOf(r, On(o, v))
             others == IF AllAdd(On(o, v)) THEN r.holds[v] ELSE {}
  <2>4. IsFrom(seg, j[2], k, computed, operands)
    <3>1. \A e \in On(o, v) : e \in Effects(o) /\ e.to = v
      BY DEF On
    <3>2. \A e \in On(o, v) : e.to[1] # "s"
      BY <1>1, <2>2, <3>1 DEF OpFits, EffectFits, IsOperand, Kinds
    <3>3. On(o, v) \subseteq Effects(o)
      BY <3>1
    <3> HIDE DEF r
    <3> QED
      BY <1>1, <2>0, <3>2, <3>3, ValuesAreFrom DEF r
  <2>5. IsFrom(seg, j[2], k, rest, others)
    <3>1. CASE AllAdd(On(o, v))
      <4>1. v \in DOMAIN old /\ IsFrom(seg, j[2], k, old[v], r.holds[v])
        BY <2>0, <2>1, <3>1 DEF Has
      <4> QED
        BY <3>1, <4>1
    <3>2. CASE ~AllAdd(On(o, v))
      BY <3>2, FromNothing
    <3> QED
      BY <3>1, <3>2
  <2>6. new[v] = computed \cup rest /\ v \in DOMAIN new
    BY <1>2, <2>2, <2>3 DEF AllAdd
  <2>7. holds[v] = operands \cup others
    BY <2>0
  <2> HIDE DEF computed, rest, operands, others, new, holds, k
  <2>8. IsFrom(seg, j[2], k, new[v], holds[v])
    BY <2>4, <2>5, <2>6, <2>7, FromBoth
  <2> QED
    BY <2>2, <2>6, <2>8 DEF Has
<1> QED
  <2> HIDE DEF r, o, len, here, old, On_, holds
  <2>1. \A v \in DOMAIN holds : Has(seg, j[2], k, mem'[j][k], v, holds[v])
    BY <1>4
  <2> QED
    BY <1>1, <2>1, CleanOperation DEF r, o, len, holds

\* So is what outlives the pass.
LEMMA CleanKept ==
  ASSUME TypeInv, CleanInv, NEW j \in Jobs, Compute(j)
  PROVE  StateOk' /\ NoStale(grads'[j])
<1> DEFINE k == at[j].layer
           o == ThisOp(j)
           r == KnownAt(seg, Device(j), at[j])
           len == CodeOf(seg, k).len
           d == Device(j)
<1>1. /\ Passing(at[j]) /\ k \in 1 .. Len(seg) /\ OpFits(r, o, len)
      /\ HasOp(j, {"call", "do"}) /\ at' = Moved(j)
      /\ grads'[j] = GradsAfter(j, k, Effects(o))
      /\ state'[d] = StateAfter(j, k, Effects(o))
      /\ \A c \in {"cpu", "gpu"} \ {d} : state'[c] = state[c]
  BY ComputeIs
<1>2. ASSUME NEW e \in Effects(o), ~Local(e.to) PROVE Fresh(Value(j, k, e))
  <2>1. EffectFits(e, len) /\ FromClean(r, e)
    BY <1>1, <1>2 DEF OpFits
  <2> QED
    BY <1>1, <2>1, FreshValue
<1>3. ASSUME NEW e \in Effects(o) PROVE e.to[1] \in {"d", "s"} => ~Local(e.to)
  <2>1. EffectFits(e, len)
    BY <1>1 DEF OpFits
  <2> QED
    BY <2>1 DEF EffectFits, IsOperand, Kinds
<1>4. ASSUME NEW c \in Cells PROVE Stale \notin grads'[j][c]
  <2> DEFINE here == {e \in Effects(o) : OnCell(k, c, e)}
  <2>1. grads'[j][c] = (UNION {GradValue(j, k, e) : e \in here})
                         \cup (IF \A e \in here : e.mode = "add" THEN grads[j][c] ELSE {})
    BY <1>1 DEF GradsAfter
  <2>2. Stale \notin grads[j][c]
    BY DEF CleanInv, NoStale, TypeInv
  <2>3. ASSUME NEW e \in here PROVE Stale \notin GradValue(j, k, e)
    <3>1. Fresh(Value(j, k, e))
      BY <1>2, <1>3 DEF OnCell
    <3>2. Stale \notin RoleOf(e)
      BY DEF Stale, RoleOf
    <3> QED
      BY <3>1, <3>2 DEF GradValue, Fresh
  <2> HIDE DEF here
  <2> DEFINE computed == UNION {GradValue(j, k, e) : e \in here}
             rest == IF \A e \in here : e.mode = "add" THEN grads[j][c] ELSE {}
  <2>4. Stale \notin computed
    BY <2>3
  <2>5. Stale \notin rest
    BY <2>2
  <2>6. grads'[j][c] = computed \cup rest
    BY <2>1
  <2> HIDE DEF computed, rest
  <2> QED
    BY <2>4, <2>5, <2>6
<1>5. DOMAIN grads'[j] = Cells
  BY <1>1 DEF GradsAfter
<1>6. ASSUME NEW key \in DOMAIN state'[d]
      PROVE  /\ Fresh(state'[d][key])
             /\ Matches(seg) /\ key[1] \in 1 .. Len(seg) /\ key[2] \in UsedBy(seg, d, key[1])
                  => state'[d][key] = {}
  <2> DEFINE here == {e \in Effects(o) : e.to[1] = "s"}
             old == state[d]
             on == {e \in here : <<k, e.to[2]>> = key}
             new == {e \in on : e.mode # "once" \/ key \notin DOMAIN old}
  <2>1. state'[d][key] = (UNION {Value(j, k, e) : e \in new})
             \cup (IF key \in DOMAIN old /\ \A e \in new : e.mode = "add"
                     THEN old[key] ELSE {})
    BY <1>1 DEF StateAfter
  <2>2. \A e \in new : Fresh(Value(j, k, e))
    BY <1>2, <1>3
  <2>3. d \in {"cpu", "gpu"}
    BY DEF Device, Jobs
  <2>4. key \in DOMAIN old => Fresh(old[key])
    BY <2>3 DEF CleanInv, StateOk
  <2>5. \A e \in new : e \in Effects(o) /\ e.to[1] = "s" /\ <<k, e.to[2]>> = key
    OBVIOUS
  <2> HIDE DEF new
  <2> DEFINE computed == UNION {Value(j, k, e) : e \in new}
             rest == IF key \in DOMAIN old /\ \A e \in new : e.mode = "add" THEN old[key] ELSE {}
  <2>6. Stale \notin computed /\ Old \notin computed
    BY <2>2 DEF Fresh
  <2>7. Stale \notin rest /\ Old \notin rest
    BY <2>4 DEF Fresh
  <2>8. state'[d][key] = computed \cup rest
    BY <2>1
  <2>9. ASSUME Matches(seg), key[1] \in 1 .. Len(seg), key[2] \in UsedBy(seg, d, key[1])
        PROVE  state'[d][key] = {}
    <3>1. ASSUME NEW e \in new PROVE Value(j, k, e) = {}
      <4>1. e \in Effects(o) /\ e.to[1] = "s" /\ e.to[2] = key[2] /\ k = key[1]
        BY <2>5
      <4> QED
        BY <1>1, <2>9, <4>1, UsedStateCounts DEF CleanInv
    <3>2. computed = {}
      BY <3>1
    <3>3. rest = {}
      <4>1. key \in DOMAIN old => old[key] = {}
        BY <2>3, <2>9 DEF CleanInv, StateOk
      <4> QED
        BY <4>1
    <3> HIDE DEF computed, rest
    <3> QED
      BY <2>8, <3>2, <3>3
  <2> HIDE DEF computed, rest
  <2> QED
    BY <2>6, <2>7, <2>8, <2>9 DEF Fresh
<1>7. StateOk'
  <2>1. seg' = seg
    BY DEF Compute
  <2>2. \A c \in {"cpu", "gpu"} : \A key \in DOMAIN state'[c] :
          /\ Fresh(state'[c][key])
          /\ Matches(seg) /\ key[1] \in 1 .. Len(seg) /\ key[2] \in UsedBy(seg, c, key[1])
               => state'[c][key] = {}
    BY <1>1, <1>6 DEF CleanInv, StateOk
  <2> QED
    BY <2>1, <2>2 DEF StateOk
<1> QED
  BY <1>4, <1>5, <1>7 DEF NoStale

\* From layer to layer: the pass of j goes on to b, where what is expected of
\* each layer's buffers is there.
LEMMA CleanMoves ==
  ASSUME TypeInv, CleanInv, NEW j \in Jobs, NEW b, at'[j] = b,
         \A k \in 1 .. Len(seg) :
           LET before == Expected(seg, Device(j), at[j], k)
               after == Expected(seg, Device(j), b, k)
           IN \A v \in DOMAIN after :
                \/ /\ v \in DOMAIN before /\ after[v] = before[v]
                   /\ v \in DOMAIN mem'[j][k] /\ mem'[j][k][v] = mem[j][k][v]
                \/ Has(seg, j[2], k, mem'[j][k], v, after[v])
  PROVE  CleanOk(seg, Device(j), at'[j], j[2], mem'[j])
<1>1. CleanOk(seg, Device(j), at[j], j[2], mem[j])
  BY DEF CleanInv
<1>2. ASSUME NEW k \in 1 .. Len(seg), NEW v \in DOMAIN Expected(seg, Device(j), b, k)
      PROVE  Has(seg, j[2], k, mem'[j][k], v, Expected(seg, Device(j), b, k)[v])
  <2> DEFINE before == Expected(seg, Device(j), at[j], k)
             after == Expected(seg, Device(j), b, k)
  <2>1. CASE /\ v \in DOMAIN before /\ after[v] = before[v]
             /\ v \in DOMAIN mem'[j][k] /\ mem'[j][k][v] = mem[j][k][v]
    <3>1. Has(seg, j[2], k, mem[j][k], v, before[v])
      BY <1>1, <2>1 DEF CleanOk
    <3>2. Local(v)
      BY <3>1 DEF Has
    <3> HIDE DEF before, after
    <3>3. Has(seg, j[2], k, mem'[j][k], v, after[v])
      BY <2>1, <3>1, <3>2, HasStill
    <3> QED
      BY <3>3 DEF after
  <2> QED
    BY <2>1
<1> QED
  BY <1>2 DEF CleanOk

\* The data of a pass are none of what is stale or old.
LEMMA DataFresh ==
  ASSUME NEW e
  PROVE  Fresh({<<"x", e>>}) /\ Fresh({<<"go", e>>}) /\ Fresh({<<"t", e>>})
  BY DEF Fresh, Stale, Old

\* A layer has them as what the reading says.
LEMMA DataIsFrom ==
  ASSUME NEW s, IsSegment(s), NEW e
  PROVE  /\ IsFrom(s, e, 1, {<<"x", e>>}, {X}) /\ IsFrom(s, e, Len(s), {<<"go", e>>}, {GradOut})
         /\ \A k \in 1 .. Len(s) : IsFrom(s, e, k, {<<"t", e>>}, {Target})
<1>1. 1 \in 1 .. Len(s) /\ Len(s) \in 1 .. Len(s)
  BY DEF IsSegment
<1>2. InAt(s, e, 1) = {<<"x", e>>} /\ GoAt(s, e, Len(s)) = {<<"go", e>>}
  BY InIs, GoIs
<1>3. SourcesIn(s, {<<"x", e>>}) = {<<"x", e>>} /\ SourcesIn(s, {<<"go", e>>}) = {<<"go", e>>}
  <2>1. <<"x", e>> # One /\ <<"go", e>> # One
    BY DEF One
  <2> QED
    BY <2>1 DEF SourcesIn
<1>4. IsFrom(s, e, 1, {<<"x", e>>}, {X})
  BY <1>1, <1>2, <1>3, DataFresh, FromGiven
<1>5. IsFrom(s, e, Len(s), {<<"go", e>>}, {GradOut})
  BY <1>1, <1>2, <1>3, DataFresh, FromGiven
<1>6. ASSUME NEW k \in 1 .. Len(s) PROVE IsFrom(s, e, k, {<<"t", e>>}, {Target})
  BY DataFresh, FromGiven
<1> QED
  BY <1>4, <1>5, <1>6

\* A forward pass begins with the data it is given.
LEMMA CleanBeginForward ==
  ASSUME TypeInv, CleanInv, NEW j \in Jobs, BeginForward(j)
  PROVE  CleanOk(seg, Device(j), at'[j], j[2], mem'[j])
<1> DEFINE s == seg
           d == Device(j)
           b == At("fwd", 1, 1)
<1>1. at'[j] = b /\ at[j] = Idle /\ mem'[j] = [mem[j] EXCEPT ![1] = With(@, X, {<<"x", j[2]>>})]
  BY DEF BeginForward, TypeInv
<1>2. IsSegment(s) /\ 1 \in 1 .. Len(s)
  BY DEF TypeInv, IsSegment
<1>3. /\ mem'[j][1] = With(mem[j][1], X, {<<"x", j[2]>>})
      /\ \A k \in 1 .. Len(s) \ {1} : mem'[j][k] = mem[j][k]
  BY <1>1, <1>2 DEF TypeInv
<1>4. KnownAt(s, d, b).holds = Inputs(s, 1)
  <2>1. Checked(s, d, 1)
    BY <1>2, CheckedToBegin DEF BeginForward
  <2> QED
    BY <1>2, <2>1, PassEnds DEF Begins, Knows
<1>5. b.pass = "fwd" /\ b.layer = 1 /\ Passing(b)
  BY DEF At, Passing
<1>6. ASSUME NEW k \in 1 .. Len(s), NEW v \in DOMAIN Expected(s, d, b, k)
      PROVE  \/ /\ v \in DOMAIN Expected(s, d, at[j], k)
                /\ Expected(s, d, b, k)[v] = Expected(s, d, at[j], k)[v]
                /\ v \in DOMAIN mem'[j][k] /\ mem'[j][k][v] = mem[j][k][v]
             \/ Has(s, j[2], k, mem'[j][k], v, Expected(s, d, b, k)[v])
  <2>1. Expected(s, d, at[j], k) = Without(Inputs(s, k), X)
    BY <1>1 DEF Expected, Passing, Idle
  <2>2. \A w \in DOMAIN Without(Inputs(s, k), X) : w \in DOMAIN mem[j][k]
    BY <2>1 DEF CleanInv, CleanOk, Has
  <2>3. CASE k = 1 /\ v = X
    <3>1. Expected(s, d, b, k)[v] = {X}
      BY <1>4, <1>5, <2>3 DEF Expected, Inputs, GivenTo
    <3>2. mem'[j][k][v] = {<<"x", j[2]>>} /\ v \in DOMAIN mem'[j][k]
      BY <1>3, <2>3 DEF With
    <3>3. IsFrom(s, j[2], k, {<<"x", j[2]>>}, {X})
      BY <1>2, <2>3, DataIsFrom
    <3> QED
      BY <2>3, <3>1, <3>2, <3>3, NamesAreLocal DEF Has
  <2>4. CASE k = 1 /\ v # X
    <3>1. Expected(s, d, b, k) = Inputs(s, k)
      BY <1>4, <1>5, <2>4 DEF Expected
    <3>2. /\ v \in DOMAIN Without(Inputs(s, k), X)
          /\ Without(Inputs(s, k), X)[v] = Inputs(s, k)[v]
      BY <2>4, <3>1 DEF Without, Restrict
    <3> QED
      BY <1>3, <2>1, <2>2, <2>4, <3>1, <3>2 DEF With
  <2>5. CASE k # 1
    <3>1. k > b.layer /\ b # Idle
      BY <1>2, <1>5, <2>5 DEF IsSegment, Idle
    <3>2. Expected(s, d, b, k) = Without(Inputs(s, k), X)
      BY <1>5, <2>5, <3>1 DEF Expected
    <3> QED
      BY <1>3, <2>1, <2>2, <2>5, <3>2
  <2> QED
    BY <2>3, <2>4, <2>5
<1> QED
  BY <1>1, <1>6, CleanMoves

\* A backward pass begins with the context and the gradient it is given.
LEMMA CleanBeginBackward ==
  ASSUME TypeInv, CleanInv, NEW j \in Jobs, BeginBackward(j)
  PROVE  CleanOk(seg, Device(j), at'[j], j[2], mem'[j])
<1> DEFINE s == seg
           d == Device(j)
           l == Len(s)
           b == At("bwd", l, 1)
<1>1. /\ at'[j] = b /\ at[j] = Between
      /\ mem'[j] = [mem[j] EXCEPT ![l] = With(@, GradOut, {<<"go", j[2]>>})]
  BY DEF BeginBackward, TypeInv
<1>2. IsSegment(s) /\ l \in 1 .. Len(s)
  BY DEF TypeInv, IsSegment
<1>3. /\ mem'[j][l] = With(mem[j][l], GradOut, {<<"go", j[2]>>})
      /\ \A k \in 1 .. Len(s) \ {l} : mem'[j][k] = mem[j][k]
  BY <1>1, <1>2 DEF TypeInv
<1>4. KnownAt(s, d, b).holds = With(Context(s, d, l), GradOut, {GradOut})
  <2>1. Checked(s, d, l)
    BY <1>2, CheckedToBegin DEF BeginBackward
  <2> HIDE DEF l
  <2>2. KnownAt(s, d, b)
          = Begins(With(Context(s, d, l), GradOut, {GradOut}), {GradOut}, ZeroedOf(s, d, l))
    BY <1>2, <2>1, PassEnds
  <2> HIDE DEF b
  <2> QED
    BY <2>2 DEF Begins, Knows
<1>5. b.pass = "bwd" /\ b.layer = l /\ Passing(b)
  BY DEF At, Passing
<1>6. ASSUME NEW k \in 1 .. Len(s), NEW v \in DOMAIN Expected(s, d, b, k)
      PROVE  \/ /\ v \in DOMAIN Expected(s, d, at[j], k)
                /\ Expected(s, d, b, k)[v] = Expected(s, d, at[j], k)[v]
                /\ v \in DOMAIN mem'[j][k] /\ mem'[j][k][v] = mem[j][k][v]
             \/ Has(s, j[2], k, mem'[j][k], v, Expected(s, d, b, k)[v])
  <2>1. Expected(s, d, at[j], k) = Context(s, d, k)
    BY <1>1 DEF Expected, Passing, Idle, Between
  <2>2. \A w \in DOMAIN Context(s, d, k) : w \in DOMAIN mem[j][k]
    BY <2>1 DEF CleanInv, CleanOk, Has
  <2>3. CASE k = l /\ v = GradOut
    <3>1. Expected(s, d, b, k)[v] = {GradOut}
      BY <1>4, <1>5, <2>3 DEF Expected, With
    <3>2. mem'[j][k][v] = {<<"go", j[2]>>} /\ v \in DOMAIN mem'[j][k]
      BY <1>3, <2>3 DEF With
    <3>3. IsFrom(s, j[2], k, {<<"go", j[2]>>}, {GradOut})
      BY <1>2, <2>3, DataIsFrom
    <3> QED
      BY <2>3, <3>1, <3>2, <3>3, NamesAreLocal DEF Has
  <2>4. CASE k = l /\ v # GradOut
    <3>1. Expected(s, d, b, k) = With(Context(s, d, k), GradOut, {GradOut})
      BY <1>4, <1>5, <2>4 DEF Expected
    <3>2. /\ v \in DOMAIN Context(s, d, k)
          /\ With(Context(s, d, k), GradOut, {GradOut})[v] = Context(s, d, k)[v]
      BY <2>4, <3>1 DEF With
    <3> QED
      BY <1>3, <2>1, <2>2, <2>4, <3>1, <3>2 DEF With
  <2>5. CASE k # l
    <3>1. k < b.layer /\ b # Idle /\ b # Between
      <4>1. k < l
        <5>1. l \in Int /\ k \in Int /\ k <= l
          BY <1>2 DEF IsSegment
        <5>2. k # l
          BY <2>5
        <5> HIDE DEF l
        <5> QED
          BY <5>1, <5>2
      <4>2. Idle.pass # "bwd" /\ Between.pass # "bwd"
        BY DEF Idle, Between
      <4> HIDE DEF b
      <4> QED
        BY <1>5, <4>1, <4>2
    <3>2. Expected(s, d, b, k) = Context(s, d, k)
      <4>1. b.pass = "bwd" /\ b.layer # k
        BY <1>5, <2>5
      <4> HIDE DEF b
      <4> QED
        BY <3>1, <4>1 DEF Expected
    <3> QED
      BY <1>3, <2>1, <2>2, <2>5, <3>2
  <2> QED
    BY <2>3, <2>4, <2>5
<1> QED
  BY <1>1, <1>6, CleanMoves

\* What goes on from layer k was computed, and its context is what is saved.
LEMMA ForwardGoesOn ==
  ASSUME TypeInv, CleanInv, NEW j \in Jobs, NextForward(j)
  PROVE  LET s == seg
             d == Device(j)
             k == at[j].layer
             out == Read(j, k, Y)
         IN /\ at[j].pass = "fwd" /\ k \in 1 .. Len(s) /\ Passing(at[j]) /\ IsSegment(s)
            /\ out = mem[j][k][Y] /\ Fresh(out) /\ Y \in DOMAIN mem[j][k]
            /\ Matches(s) => SourcesIn(s, out) = InAt(s, j[2], k + 1)
            /\ \A v \in DOMAIN Context(s, d, k) :
                 /\ v \in DOMAIN Expected(s, d, at[j], k)
                 /\ Context(s, d, k)[v] = Expected(s, d, at[j], k)[v]
                 /\ v \in DOMAIN mem'[j][k] /\ mem'[j][k][v] = mem[j][k][v]
            /\ IF k < Len(s)
                 THEN /\ mem'[j][k + 1] = With(mem[j][k + 1], X, out)
                      /\ \A i \in 1 .. Len(s) \ {k, k + 1} : mem'[j][i] = mem[j][i]
                      /\ at'[j] = At("fwd", k + 1, 1) /\ result'[j] = result[j]
                 ELSE /\ \A i \in 1 .. Len(s) \ {k} : mem'[j][i] = mem[j][i]
                      /\ at'[j] = Between /\ result'[j] = With(result[j], "out", out)
<1> DEFINE s == seg
           d == Device(j)
           k == at[j].layer
           out == Read(j, k, Y)
           saved == IF Y \in Kept(k, d) THEN mem[j][k] ELSE Without(mem[j][k], Y)
           end == ForwardEnd(s, d, k)
<1>1. AtEnd(j) /\ at[j].pass = "fwd"
  BY DEF NextForward
<1>2. /\ k \in 1 .. Len(s) /\ Passing(at[j]) /\ IsSegment(s)
      /\ KnownAt(s, d, at[j]) = end /\ ForwardEnds(end)
  BY <1>1, Ending
<1>3. Y \in DOMAIN end.holds
  BY <1>2 DEF ForwardEnds
<1>4. \A v \in DOMAIN end.holds :
        v \in DOMAIN mem[j][k] /\ IsFrom(s, j[2], k, mem[j][k][v], end.holds[v])
  BY <1>2, CleanHere DEF Has
<1>5. /\ out = mem[j][k][Y] /\ Fresh(out) /\ Y \in DOMAIN mem[j][k]
      /\ Matches(s) => SourcesIn(s, out) = InAt(s, j[2], k + 1)
  <2>1. IsOperand(Y) /\ Y[1] # "d"
    BY NamesAreLocal DEF IsOperand, Y, Kinds
  <2>2. out = mem[j][k][Y]
    BY <1>3, <1>4, <2>1, NamesAreLocal, ReadLocal
  <2>3. IsFrom(s, j[2], k, out, end.holds[Y])
    BY <1>3, <1>4, <2>2
  <2>4. Matches(s) => Means(s, j[2], k, end.holds[Y]) = InAt(s, j[2], k + 1)
    <3>1. d \in {"cpu", "gpu"}
      BY DEF Device, Jobs
    <3> QED
      BY <1>2, <3>1, GoesOn
  <2> QED
    BY <1>3, <1>4, <2>2, <2>3, <2>4 DEF IsFrom
<1>6. IF k < Len(s)
        THEN /\ mem'[j] = [mem[j] EXCEPT ![k] = saved, ![k + 1] = With(@, X, out)]
             /\ at'[j] = At("fwd", k + 1, 1) /\ result'[j] = result[j]
        ELSE /\ mem'[j] = [mem[j] EXCEPT ![k] = saved]
             /\ at'[j] = Between /\ result'[j] = With(result[j], "out", out)
  BY DEF NextForward, TypeInv
<1>7. DOMAIN mem[j] = 1 .. Len(s) /\ Len(s) \in Int /\ k \in Int /\ k + 1 # k
  BY <1>2 DEF TypeInv, IsSegment
<1>8. k < Len(s) => k + 1 \in 1 .. Len(s)
  BY <1>2, <1>7
<1>9. /\ mem'[j][k] = saved
      /\ IF k < Len(s)
           THEN /\ mem'[j][k + 1] = With(mem[j][k + 1], X, out)
                /\ \A i \in 1 .. Len(s) \ {k, k + 1} : mem'[j][i] = mem[j][i]
           ELSE \A i \in 1 .. Len(s) \ {k} : mem'[j][i] = mem[j][i]
  <2>1. CASE k < Len(s)
    <3>1. mem'[j] = [mem[j] EXCEPT ![k] = saved, ![k + 1] = With(@, X, out)]
      BY <1>6, <2>1
    <3> HIDE DEF saved, out, k
    <3> QED
      BY <1>2, <1>7, <1>8, <2>1, <3>1
  <2>2. CASE ~(k < Len(s))
    <3>1. mem'[j] = [mem[j] EXCEPT ![k] = saved]
      BY <1>6, <2>2
    <3> HIDE DEF saved, out, k
    <3> QED
      BY <1>2, <1>7, <2>2, <3>1
  <2> QED
    BY <2>1, <2>2
<1>10. ASSUME NEW v \in DOMAIN Context(s, d, k)
       PROVE  /\ v \in DOMAIN Expected(s, d, at[j], k)
              /\ Context(s, d, k)[v] = Expected(s, d, at[j], k)[v]
              /\ v \in DOMAIN mem'[j][k] /\ mem'[j][k][v] = mem[j][k][v]
  <2>1. Kept(k, d) = Passes(s, d, k).fwd[Len(Passes(s, d, k).fwd)].vars
    BY DEF Kept, Passes, CodeOf
  <2>2. /\ v \in DOMAIN end.holds /\ (v = Y => Y \in Kept(k, d))
        /\ Context(s, d, k)[v] = end.holds[v]
    BY <2>1 DEF Context, Saved, Without, Restrict
  <2>3. v \in DOMAIN saved /\ saved[v] = mem[j][k][v]
    BY <1>4, <2>2 DEF Without, Restrict
  <2>4. Expected(s, d, at[j], k) = end.holds
    BY <1>2 DEF Expected
  <2> QED
    BY <1>9, <2>2, <2>3, <2>4
<1> QED
  BY <1>1, <1>2, <1>5, <1>6, <1>9, <1>10

\* The next layer has the output as its input, this one its context.
LEMMA CleanNextForward ==
  ASSUME TypeInv, CleanInv, NEW j \in Jobs, NextForward(j)
  PROVE  CleanOk(seg, Device(j), at'[j], j[2], mem'[j])
<1> DEFINE s == seg
           d == Device(j)
           a == at[j]
           k == a.layer
           b == at'[j]
           out == Read(j, k, Y)
           Before(i) == Expected(s, d, a, i)
           After_(i) == Expected(s, d, b, i)
           Goal(i, v) == \/ /\ v \in DOMAIN Before(i) /\ After_(i)[v] = Before(i)[v]
                            /\ v \in DOMAIN mem'[j][i] /\ mem'[j][i][v] = mem[j][i][v]
                         \/ Has(s, j[2], i, mem'[j][i], v, After_(i)[v])
<1>1. /\ a.pass = "fwd" /\ k \in 1 .. Len(s) /\ Passing(a) /\ IsSegment(s) /\ Fresh(out)
      /\ Matches(s) => SourcesIn(s, out) = InAt(s, j[2], k + 1)
      /\ \A v \in DOMAIN Context(s, d, k) :
           /\ v \in DOMAIN Before(k) /\ Context(s, d, k)[v] = Before(k)[v]
           /\ v \in DOMAIN mem'[j][k] /\ mem'[j][k][v] = mem[j][k][v]
      /\ IF k < Len(s)
           THEN /\ mem'[j][k + 1] = With(mem[j][k + 1], X, out)
                /\ \A i \in 1 .. Len(s) \ {k, k + 1} : mem'[j][i] = mem[j][i]
                /\ b = At("fwd", k + 1, 1)
           ELSE /\ \A i \in 1 .. Len(s) \ {k} : mem'[j][i] = mem[j][i]
                /\ b = Between
  BY ForwardGoesOn
<1>2. Len(s) \in Int /\ k \in Int /\ a # Idle /\ a # Between
  BY <1>1 DEF IsSegment, Idle, Between
<1>3. \A i \in 1 .. Len(s) : \A v \in DOMAIN Before(i) : v \in DOMAIN mem[j][i]
  BY DEF CleanInv, CleanOk, Has
<1>4. \A i \in 1 .. Len(s) : i < k => Before(i) = Context(s, d, i)
  BY <1>1, <1>2 DEF Expected
<1>5. \A i \in 1 .. Len(s) : i > k => Before(i) = Without(Inputs(s, i), X)
  BY <1>1, <1>2 DEF Expected
<1>6. ASSUME NEW i \in 1 .. Len(s), NEW v \in DOMAIN After_(i), k < Len(s) PROVE Goal(i, v)
  <2>1. b.pass = "fwd" /\ b.layer = k + 1 /\ Passing(b) /\ b = At("fwd", k + 1, 1)
    BY <1>1, <1>6 DEF At, Passing
  <2>2. b # Idle /\ b # Between
    BY <2>1 DEF Idle, Between
  <2>3. CASE i <= k
    <3>1. After_(i) = Context(s, d, i)
      BY <1>2, <2>1, <2>2, <2>3 DEF Expected
    <3>2. CASE i = k
      BY <1>1, <3>1, <3>2
    <3>3. CASE i # k
      <4>1. i < k /\ i # k + 1
        BY <1>2, <2>3, <3>3
      <4>2. mem'[j][i] = mem[j][i]
        BY <1>1, <1>6, <4>1
      <4>3. After_(i) = Before(i)
        BY <1>4, <3>1, <4>1
      <4> QED
        BY <1>3, <4>2, <4>3
    <3> QED
      BY <3>2, <3>3
  <2>4. CASE i = k + 1
    <3>1. After_(i) = Inputs(s, i)
      <4>1. Checked(s, d, i)
        BY Ending DEF NextForward
      <4>2. KnownAt(s, d, b).holds = Inputs(s, i)
        BY <1>1, <2>1, <2>4, <4>1, PassEnds DEF Begins, Knows
      <4> QED
        BY <2>1, <2>4, <4>2 DEF Expected
    <3>2. mem'[j][i] = With(mem[j][i], X, out)
      BY <1>1, <1>6, <2>4
    <3>3. CASE v = X
      <4>1. After_(i)[v] = {X}
        BY <3>1, <3>3 DEF Inputs, GivenTo
      <4>2. mem'[j][i][v] = out /\ v \in DOMAIN mem'[j][i]
        BY <3>2, <3>3 DEF With
      <4>3. IsFrom(s, j[2], i, out, {X})
        <5> HIDE DEF out, k, s
        <5> QED
          BY <1>1, <2>4, FromGiven
      <4> QED
        BY <3>3, <4>1, <4>2, <4>3, NamesAreLocal DEF Has
    <3>4. CASE v # X
      <4>1. v \in DOMAIN Before(i) /\ After_(i)[v] = Before(i)[v]
        <5>1. Before(i) = Without(Inputs(s, i), X)
          BY <1>2, <1>5, <2>4
        <5> HIDE DEF Before, After_
        <5> QED
          BY <3>1, <3>4, <5>1 DEF Without, Restrict
      <4>2. v \in DOMAIN mem[j][i]
        BY <1>3, <4>1
      <4> QED
        BY <3>2, <3>4, <4>1, <4>2 DEF With
    <3> QED
      BY <3>3, <3>4
  <2>5. CASE i > k + 1
    <3>1. After_(i) = Without(Inputs(s, i), X)
      BY <1>2, <2>1, <2>2, <2>5 DEF Expected
    <3>2. i > k /\ i # k /\ i # k + 1
      BY <1>2, <2>5
    <3>3. mem'[j][i] = mem[j][i]
      BY <1>1, <1>6, <3>2
    <3>4. After_(i) = Before(i)
      BY <1>5, <3>1, <3>2
    <3> QED
      BY <1>3, <3>3, <3>4
  <2> QED
    BY <1>2, <2>3, <2>4, <2>5
<1>7. ASSUME NEW i \in 1 .. Len(s), NEW v \in DOMAIN After_(i), ~(k < Len(s))
      PROVE  Goal(i, v)
  <2>1. b = Between /\ ~Passing(b) /\ b # Idle
    BY <1>1, <1>7 DEF Passing, Idle, Between
  <2>2. After_(i) = Context(s, d, i)
    <3>1. b.pass # "fwd"
      BY <2>1 DEF Passing
    <3> QED
      BY <2>1, <3>1 DEF Expected
  <2>3. CASE i = k
    BY <1>1, <2>2, <2>3
  <2>4. CASE i # k
    <3>1. i < k
      BY <1>2, <1>7, <2>4
    <3>2. mem'[j][i] = mem[j][i]
      BY <1>1, <1>7, <2>4
    <3>3. After_(i) = Before(i)
      BY <1>4, <2>2, <3>1
    <3> QED
      BY <1>3, <3>2, <3>3
  <2> QED
    BY <2>3, <2>4
<1> QED
  <2>1. \A i \in 1 .. Len(s) : \A v \in DOMAIN After_(i) : Goal(i, v)
    BY <1>6, <1>7
  <2> QED
    BY <2>1, CleanMoves

\* What goes back from layer k was computed.
LEMMA BackwardGoesOn ==
  ASSUME TypeInv, CleanInv, NEW j \in Jobs, NextBackward(j)
  PROVE  LET s == seg
             d == Device(j)
             k == at[j].layer
             gi == Read(j, k, GradIn)
         IN /\ at[j].pass = "bwd" /\ k \in 1 .. Len(s) /\ Passing(at[j]) /\ IsSegment(s)
            /\ gi = mem[j][k][GradIn] /\ Fresh(gi) /\ GradIn \in DOMAIN mem[j][k]
            /\ Matches(s) => SourcesIn(s, gi) = GoAt(s, j[2], k - 1)
            /\ KnownAt(s, d, at[j]) = BackwardEnd(s, d, k)
            /\ BackwardEnds(BackwardEnd(s, d, k), CodeOf(s, k).len)
            /\ mem'[j][k] = EmptyMap
            /\ IF k > 1
                 THEN /\ mem'[j][k - 1] = With(mem[j][k - 1], GradOut, gi)
                      /\ \A i \in 1 .. Len(s) \ {k, k - 1} : mem'[j][i] = mem[j][i]
                      /\ at'[j] = At("bwd", k - 1, 1) /\ result'[j] = result[j]
                 ELSE /\ \A i \in 1 .. Len(s) \ {k} : mem'[j][i] = mem[j][i]
                      /\ at'[j] = Done /\ result'[j] = With(result[j], "gi", gi)
<1> DEFINE s == seg
           d == Device(j)
           k == at[j].layer
           gi == Read(j, k, GradIn)
           end == BackwardEnd(s, d, k)
<1>1. AtEnd(j) /\ at[j].pass = "bwd"
  BY DEF NextBackward
<1>2. /\ k \in 1 .. Len(s) /\ Passing(at[j]) /\ IsSegment(s)
      /\ KnownAt(s, d, at[j]) = end /\ BackwardEnds(end, CodeOf(s, k).len)
  BY <1>1, Ending
<1>3. GradIn \in DOMAIN end.holds
  BY <1>2 DEF BackwardEnds
<1>4. \A v \in DOMAIN end.holds :
        v \in DOMAIN mem[j][k] /\ IsFrom(s, j[2], k, mem[j][k][v], end.holds[v])
  BY <1>2, CleanHere DEF Has
<1>5. /\ gi = mem[j][k][GradIn] /\ Fresh(gi) /\ GradIn \in DOMAIN mem[j][k]
      /\ Matches(s) => SourcesIn(s, gi) = GoAt(s, j[2], k - 1)
  <2>1. IsOperand(GradIn) /\ GradIn[1] # "d"
    BY NamesAreLocal DEF IsOperand, GradIn, Kinds
  <2>2. gi = mem[j][k][GradIn]
    BY <1>3, <1>4, <2>1, NamesAreLocal, ReadLocal
  <2>3. IsFrom(s, j[2], k, gi, end.holds[GradIn])
    BY <1>3, <1>4, <2>2
  <2>4. Matches(s) => Means(s, j[2], k, end.holds[GradIn]) = GoAt(s, j[2], k - 1)
    <3>1. d \in {"cpu", "gpu"}
      BY DEF Device, Jobs
    <3> QED
      BY <1>2, <3>1, GoesOn
  <2> QED
    BY <1>3, <1>4, <2>2, <2>3, <2>4 DEF IsFrom
<1>6. IF k > 1
        THEN /\ mem'[j] = [mem[j] EXCEPT ![k] = EmptyMap, ![k - 1] = With(@, GradOut, gi)]
             /\ at'[j] = At("bwd", k - 1, 1) /\ result'[j] = result[j]
        ELSE /\ mem'[j] = [mem[j] EXCEPT ![k] = EmptyMap]
             /\ at'[j] = Done /\ result'[j] = With(result[j], "gi", gi)
  BY DEF NextBackward, TypeInv
<1>7. DOMAIN mem[j] = 1 .. Len(s) /\ Len(s) \in Int /\ k \in Int /\ k - 1 # k
  BY <1>2 DEF TypeInv, IsSegment
<1>8. k > 1 => k - 1 \in 1 .. Len(s)
  BY <1>2, <1>7
<1>9. /\ mem'[j][k] = EmptyMap
      /\ IF k > 1
           THEN /\ mem'[j][k - 1] = With(mem[j][k - 1], GradOut, gi)
                /\ \A i \in 1 .. Len(s) \ {k, k - 1} : mem'[j][i] = mem[j][i]
           ELSE \A i \in 1 .. Len(s) \ {k} : mem'[j][i] = mem[j][i]
  <2>1. CASE k > 1
    <3>1. mem'[j] = [mem[j] EXCEPT ![k] = EmptyMap, ![k - 1] = With(@, GradOut, gi)]
      BY <1>6, <2>1
    <3> HIDE DEF gi, k
    <3> QED
      BY <1>2, <1>7, <1>8, <2>1, <3>1
  <2>2. CASE ~(k > 1)
    <3>1. mem'[j] = [mem[j] EXCEPT ![k] = EmptyMap]
      BY <1>6, <2>2
    <3> HIDE DEF gi, k
    <3> QED
      BY <1>2, <1>7, <2>2, <3>1
  <2> QED
    BY <2>1, <2>2
<1> QED
  BY <1>1, <1>2, <1>5, <1>6, <1>9

\* The layer before has the gradient of the input, besides its context.
LEMMA CleanNextBackward ==
  ASSUME TypeInv, CleanInv, NEW j \in Jobs, NextBackward(j)
  PROVE  CleanOk(seg, Device(j), at'[j], j[2], mem'[j])
<1> DEFINE s == seg
           d == Device(j)
           a == at[j]
           k == a.layer
           b == at'[j]
           gi == Read(j, k, GradIn)
           Before(i) == Expected(s, d, a, i)
           After_(i) == Expected(s, d, b, i)
           Goal(i, v) == \/ /\ v \in DOMAIN Before(i) /\ After_(i)[v] = Before(i)[v]
                            /\ v \in DOMAIN mem'[j][i] /\ mem'[j][i][v] = mem[j][i][v]
                         \/ Has(s, j[2], i, mem'[j][i], v, After_(i)[v])
<1>1. /\ a.pass = "bwd" /\ k \in 1 .. Len(s) /\ Passing(a) /\ IsSegment(s) /\ Fresh(gi)
      /\ Matches(s) => SourcesIn(s, gi) = GoAt(s, j[2], k - 1)
      /\ IF k > 1
           THEN /\ mem'[j][k - 1] = With(mem[j][k - 1], GradOut, gi)
                /\ \A i \in 1 .. Len(s) \ {k, k - 1} : mem'[j][i] = mem[j][i]
                /\ b = At("bwd", k - 1, 1)
           ELSE b = Done
  BY BackwardGoesOn
<1>2. Len(s) \in Int /\ k \in Int /\ a # Idle /\ a # Between
  BY <1>1 DEF IsSegment, Idle, Between
<1>3. \A i \in 1 .. Len(s) : \A v \in DOMAIN Before(i) : v \in DOMAIN mem[j][i]
  BY DEF CleanInv, CleanOk, Has
<1>4. \A i \in 1 .. Len(s) : i < k => Before(i) = Context(s, d, i)
  BY <1>1, <1>2 DEF Expected
<1>5. ASSUME NEW i \in 1 .. Len(s), NEW v \in DOMAIN After_(i), k > 1 PROVE Goal(i, v)
  <2>1. b.pass = "bwd" /\ b.layer = k - 1 /\ Passing(b) /\ b = At("bwd", k - 1, 1)
    BY <1>1, <1>5 DEF At, Passing
  <2>2. b # Idle /\ b # Between
    BY <2>1 DEF Idle, Between
  <2>3. CASE i < k - 1
    <3>1. After_(i) = Context(s, d, i)
      BY <1>2, <2>1, <2>2, <2>3 DEF Expected
    <3>2. i < k /\ i # k /\ i # k - 1
      BY <1>2, <2>3
    <3>3. mem'[j][i] = mem[j][i]
      BY <1>1, <1>5, <3>2
    <3>4. After_(i) = Before(i)
      BY <1>4, <3>1, <3>2
    <3> QED
      BY <1>3, <3>3, <3>4
  <2>4. CASE i = k - 1
    <3>1. After_(i) = With(Context(s, d, i), GradOut, {GradOut})
      <4>1. Checked(s, d, i)
        BY Ending DEF NextBackward
      <4>2. KnownAt(s, d, b)
              = Begins(With(Context(s, d, i), GradOut, {GradOut}), {GradOut}, ZeroedOf(s, d, i))
        BY <1>1, <2>1, <2>4, <4>1, PassEnds
      <4>3. KnownAt(s, d, b).holds = With(Context(s, d, i), GradOut, {GradOut})
        <5> HIDE DEF b
        <5> QED
          BY <4>2 DEF Begins, Knows
      <4> QED
        BY <2>1, <2>4, <4>3 DEF Expected
    <3>2. mem'[j][i] = With(mem[j][i], GradOut, gi)
      BY <1>1, <1>5, <2>4
    <3>3. CASE v = GradOut
      <4>1. After_(i)[v] = {GradOut}
        BY <3>1, <3>3 DEF With
      <4>2. mem'[j][i][v] = gi /\ v \in DOMAIN mem'[j][i]
        BY <3>2, <3>3 DEF With
      <4>3. IsFrom(s, j[2], i, gi, {GradOut})
        <5> HIDE DEF gi, k, s
        <5> QED
          BY <1>1, <2>4, FromGiven
      <4> QED
        BY <3>3, <4>1, <4>2, <4>3, NamesAreLocal DEF Has
    <3>4. CASE v # GradOut
      <4>1. v \in DOMAIN Before(i) /\ After_(i)[v] = Before(i)[v]
        <5>1. Before(i) = Context(s, d, i)
          BY <1>2, <1>4, <2>4
        <5> HIDE DEF Before, After_
        <5> QED
          BY <3>1, <3>4, <5>1 DEF With
      <4>2. v \in DOMAIN mem[j][i]
        BY <1>3, <4>1
      <4> QED
        BY <3>2, <3>4, <4>1, <4>2 DEF With
    <3> QED
      BY <3>3, <3>4
  <2>5. CASE i > k - 1
    <3>1. After_(i) = EmptyMap
      BY <1>2, <2>1, <2>2, <2>5 DEF Expected
    <3> QED
      BY <3>1 DEF EmptyMap
  <2> QED
    BY <1>2, <2>3, <2>4, <2>5
<1>6. ASSUME NEW i \in 1 .. Len(s), NEW v \in DOMAIN After_(i), ~(k > 1)
      PROVE  Goal(i, v)
  <2>1. b = Done
    BY <1>1, <1>6
  <2>2. Done.pass = "done" /\ Done # Idle /\ Done # Between
    BY DEF Done, Idle, Between
  <2>3. After_(i) = EmptyMap
    BY <2>1, <2>2 DEF Expected, Passing
  <2> QED
    BY <2>3 DEF EmptyMap
<1> QED
  <2>1. \A i \in 1 .. Len(s) : \A v \in DOMAIN After_(i) : Goal(i, v)
    BY <1>5, <1>6
  <2> QED
    BY <2>1, CleanMoves

\* What a job has left stays as it is, ...
LEMMA ResultStill ==
  ASSUME NEW s, NEW e, NEW a, NEW b, NEW r, ResultOk(s, a, e, r),
         \/ b.pass \in {"fwd", "dropped"}
         \/ b.pass = "bwd" /\ (a = Between \/ a.pass = "bwd")
  PROVE  ResultOk(s, b, e, r)
<1>1. b # Between /\ b # Done
  BY DEF Between, Done
<1> QED
  BY <1>1 DEF ResultOk

\* ... until a pass ends.
LEMMA ResultStep ==
  ASSUME TypeInv, CleanInv, NEW j \in Jobs, Step(j)
  PROVE  ResultOk(seg, at'[j], j[2], result'[j])
<1> DEFINE s == seg
           a == at[j]
           b == at'[j]
           e == j[2]
           r == result[j]
           q == result'[j]
<1> SUFFICES ResultOk(s, b, e, q)
  OBVIOUS
<1>1. ResultOk(s, a, e, r)
  BY DEF CleanInv
<1>2. CASE BeginForward(j)
  <2>1. q = r /\ b = At("fwd", 1, 1)
    BY <1>2 DEF BeginForward, TypeInv
  <2>2. b.pass = "fwd"
    BY <2>1 DEF At
  <2> HIDE DEF b, q, r, a, s, e
  <2> QED
    BY <1>1, <2>1, <2>2, ResultStill
<1>3. CASE BeginBackward(j)
  <2>1. q = r /\ b = At("bwd", Len(s), 1) /\ a = Between
    BY <1>3 DEF BeginBackward, TypeInv
  <2>2. b.pass = "bwd"
    BY <2>1 DEF At
  <2> HIDE DEF b, q, r, a, s, e
  <2> QED
    BY <1>1, <2>1, <2>2, ResultStill
<1>4. ASSUME NEW kinds, HasOp(j, kinds), at' = Moved(j), result' = result
      PROVE  ResultOk(s, b, e, q)
  <2>1. q = r /\ b = At(a.pass, a.layer, a.op + 1) /\ Passing(a)
    BY <1>4, Operating
  <2>2. b.pass = a.pass
    BY <2>1 DEF At
  <2> HIDE DEF b, q, r, a, s, e
  <2> QED
    BY <1>1, <2>1, <2>2, ResultStill DEF Passing
<1>5. CASE NextForward(j)
  <2> DEFINE k == a.layer
             out == Read(j, k, Y)
  <2>1. /\ Fresh(out) /\ k \in 1 .. Len(s) /\ Len(s) \in Nat
        /\ Matches(s) => SourcesIn(s, out) = InAt(s, e, k + 1)
        /\ IF k < Len(s) THEN b = At("fwd", k + 1, 1) /\ q = r
           ELSE b = Between /\ q = With(r, "out", out)
    BY <1>5, ForwardGoesOn DEF IsSegment
  <2>2. CASE k < Len(s)
    <3>1. b.pass = "fwd" /\ q = r
      BY <2>1, <2>2 DEF At
    <3> HIDE DEF b, q, r, a, s, e
    <3> QED
      BY <1>1, <3>1, ResultStill
  <2>3. CASE ~(k < Len(s))
    <3>1. k = Len(s)
      BY <2>1, <2>3
    <3>2. b = Between /\ q = With(r, "out", out) /\ Between # Done
      BY <2>1, <2>3 DEF Between, Done
    <3> HIDE DEF b, q, r, a, s, e, k, out
    <3>3. \A n \in DOMAIN q : Fresh(q[n])
      BY <1>1, <2>1, <3>2 DEF ResultOk, With
    <3>4. "out" \in DOMAIN q /\ q["out"] = out
      BY <3>2 DEF With
    <3> QED
      BY <2>1, <3>1, <3>2, <3>3, <3>4 DEF ResultOk
  <2> QED
    BY <2>2, <2>3
<1>6. CASE NextBackward(j)
  <2> DEFINE k == a.layer
             gi == Read(j, k, GradIn)
  <2>1. /\ a.pass = "bwd" /\ Fresh(gi) /\ k \in 1 .. Len(s) /\ Len(s) \in Nat
        /\ Matches(s) => SourcesIn(s, gi) = GoAt(s, e, k - 1)
        /\ IF k > 1 THEN b = At("bwd", k - 1, 1) /\ q = r
           ELSE b = Done /\ q = With(r, "gi", gi)
    BY <1>6, BackwardGoesOn DEF IsSegment
  <2>2. CASE k > 1
    <3>1. b.pass = "bwd" /\ q = r
      BY <2>1, <2>2 DEF At
    <3> HIDE DEF b, q, r, a, s, e
    <3> QED
      BY <1>1, <2>1, <3>1, ResultStill
  <2>3. CASE ~(k > 1)
    <3>1. k - 1 = 0
      BY <2>1, <2>3
    <3>2. b = Done /\ q = With(r, "gi", gi)
      BY <2>1, <2>3
    <3> HIDE DEF b, q, r, a, s, e, k, gi
    <3>3. \A n \in DOMAIN q : Fresh(q[n])
      BY <1>1, <2>1, <3>2 DEF ResultOk, With
    <3>4. /\ "gi" \in DOMAIN q /\ q["gi"] = gi
          /\ "out" \in DOMAIN r => "out" \in DOMAIN q /\ q["out"] = r["out"]
      BY <3>2 DEF With
    <3> QED
      BY <1>1, <2>1, <3>1, <3>2, <3>3, <3>4 DEF ResultOk
  <2> QED
    BY <2>2, <2>3
<1>7. CASE Drop(j)
  <2>1. q = r /\ b = Dropped
    BY <1>7 DEF Drop, TypeInv
  <2>2. b.pass = "dropped"
    BY <2>1 DEF Dropped
  <2> HIDE DEF b, q, r, a, s, e
  <2> QED
    BY <1>1, <2>1, <2>2, ResultStill
<1> QED
  BY <1>2, <1>3, <1>4, <1>5, <1>6, <1>7
  DEF Step, Allocate, Release, Exchange, Compute, Save, Caching

\* No step lets what was left over into what is expected to be computed.
LEMMA CleanStep == TypeInv /\ CleanInv /\ [Next]_vars => CleanInv'
<1> SUFFICES ASSUME TypeInv, CleanInv, [Next]_vars PROVE CleanInv'
  OBVIOUS
<1>1. CASE UNCHANGED vars
  BY <1>1 DEF CleanInv, vars, StateOk
<1>2. ASSUME NEW j \in Jobs, Step(j) PROVE CleanInv'
  <2>1. LeavesOthers(j)
    BY <1>2, StepsLeaveOthers
  <2>2. ResultOk(seg, at'[j], j[2], result'[j])
    BY <1>2, ResultStep
  <2>3. SUFFICES /\ CleanOk(seg, Device(j), at'[j], j[2], mem'[j]) /\ StateOk'
                 /\ NoStale(grads'[j])
    BY <2>1, <2>2 DEF LeavesOthers, CleanInv
  <2>4. StateOk /\ NoStale(grads[j]) /\ seg' = seg
    BY <2>1 DEF CleanInv, LeavesOthers
  <2>5. state' = state => StateOk'
    BY <2>4 DEF StateOk
  <2>6. CASE BeginForward(j)
    BY <2>4, <2>5, <2>6, CleanBeginForward DEF BeginForward
  <2>7. CASE BeginBackward(j)
    <3>1. NoStale(grads'[j])
      BY <2>4, <2>7 DEF BeginBackward, NoStale, TypeInv
    <3> QED
      BY <2>4, <2>5, <2>7, <3>1, CleanBeginBackward DEF BeginBackward
  <2>8. CASE Allocate(j)
    BY <2>4, <2>5, <2>8, CleanAllocate DEF Allocate
  <2>9. CASE Release(j)
    BY <2>4, <2>5, <2>9, CleanRelease DEF Release
  <2>10. CASE Exchange(j)
    BY <2>4, <2>5, <2>10, CleanExchange DEF Exchange
  <2>11. CASE Compute(j)
    BY <2>11, CleanCompute, CleanKept
  <2>12. CASE Save(j)
    BY <2>4, <2>5, <2>12, CleanSave DEF Save
  <2>13. CASE NextForward(j)
    BY <2>4, <2>5, <2>13, CleanNextForward DEF NextForward
  <2>14. CASE NextBackward(j)
    BY <2>4, <2>5, <2>14, CleanNextBackward DEF NextBackward
  <2>15. CASE Caching(j)
    BY <2>4, <2>5, <2>15, CleanCaching DEF Caching
  <2>16. CASE Drop(j)
    BY <2>4, <2>5, <2>16, CleanDrop DEF Drop
  <2> QED
    BY <1>2, <2>6, <2>7, <2>8, <2>9, <2>10, <2>11, <2>12, <2>13, <2>14, <2>15, <2>16 DEF Step
<1> QED
  BY <1>1, <1>2, NextIsStep

\* Before any pass only the targets of losses are expected.
LEMMA CleanInit == Init /\ LayersSafe => CleanInv
<1> SUFFICES ASSUME Init, LayersSafe PROVE CleanInv
  OBVIOUS
<1>0. IsSegment(seg)
  BY TypeInit DEF TypeInv
<1>1. StateOk
  BY DEF Init, StateOk, EmptyMap
<1>2. ASSUME NEW j \in Jobs
      PROVE  CleanOk(seg, Device(j), at[j], j[2], mem[j])
  <2> DEFINE expected(k) == Expected(seg, Device(j), at[j], k)
  <2>1. ASSUME NEW k \in 1 .. Len(seg), NEW v \in DOMAIN expected(k)
        PROVE  Has(seg, j[2], k, mem[j][k], v, expected(k)[v])
    <3>1. expected(k) = Without(Inputs(seg, k), X)
      BY DEF Init, Expected, Passing, Idle
    <3>2. v \in GivenTo(seg[k]) /\ v # X /\ expected(k)[v] = {v}
      BY <3>1 DEF Inputs, Without, Restrict
    <3>3. v = Target /\ seg[k] \in Losses
      BY <3>2 DEF GivenTo
    <3>4. mem[j][k] = With(EmptyMap, Target, {<<"t", j[2]>>})
      BY <3>3 DEF Init, Given
    <3>5. IsFrom(seg, j[2], k, {<<"t", j[2]>>}, {Target})
      BY <1>0, DataIsFrom
    <3>6. v \in DOMAIN mem[j][k] /\ mem[j][k][v] = {<<"t", j[2]>>}
      BY <3>3, <3>4 DEF With
    <3> HIDE DEF expected
    <3> QED
      BY <3>2, <3>3, <3>5, <3>6, NamesAreLocal DEF Has
  <2> QED
    BY <2>1 DEF CleanOk
<1>3. \A j \in Jobs : ResultOk(seg, at[j], j[2], result[j])
  BY DEF Init, ResultOk, EmptyMap, Idle, Between, Done
<1>4. \A j \in Jobs : NoStale(grads[j])
  BY DEF Init, NoStale, Stale, Old
<1> QED
  BY <1>1, <1>2, <1>3, <1>4 DEF CleanInv

\* Whatever the layers of a segment are, if each of them passes its check then
\* no pass hands out what the last user of a buffer left in it.
THEOREM NothingStaleEver == Spec /\ LayersSafe => []NothingStale
<1>1. Init /\ LayersSafe => TypeInv /\ CleanInv
  BY TypeInit, CleanInit
<1>2. TypeInv /\ CleanInv /\ [Next]_vars => (TypeInv /\ CleanInv)'
  BY TypeStep, CleanStep
<1>3. TypeInv /\ CleanInv => NothingStale
  <2> SUFFICES ASSUME TypeInv, CleanInv, NEW j \in Jobs
               PROVE  /\ \A v \in Results(j) : Stale \notin v
                      /\ \A c \in Cells : Stale \notin grads[j][c]
    BY DEF NothingStale
  <2> QED
    BY DEF CleanInv, ResultOk, Fresh, Results, NoStale, TypeInv
<1> QED
  BY <1>1, <1>2, <1>3, PTL DEF Spec

-----------------------------------------------------------------------------
(* Whose data *)

\* What is none of the data.
LEMMA NotData ==
  ASSUME NEW e
  PROVE  /\ Stale \notin DataOf(e) /\ Old \notin DataOf(e)
         /\ \A a, b, c : <<a, b, c>> \notin DataOf(e)
         /\ \A x : x[1] = "c" => x \notin DataOf(e)
         /\ \A a : <<"gradient of", a>> \notin DataOf(e)
         /\ \A f : f # e => <<"x", f>> \notin DataOf(e) /\ <<"go", f>> \notin DataOf(e)
                            /\ <<"t", f>> \notin DataOf(e)
<1>1. Stale \notin DataOf(e) /\ Old \notin DataOf(e)
  BY DEF DataOf, Stale, Old
<1>2. \A a, b, c : <<a, b, c>> \notin DataOf(e)
  BY DEF DataOf
<1>3. ASSUME NEW x, x[1] = "c" PROVE x \notin DataOf(e)
  BY <1>3 DEF DataOf
<1>4. \A a : <<"gradient of", a>> \notin DataOf(e)
  BY DEF DataOf
<1>5. \A f : f # e => <<"x", f>> \notin DataOf(e) /\ <<"go", f>> \notin DataOf(e)
                      /\ <<"t", f>> \notin DataOf(e)
  BY DEF DataOf
<1> QED
  BY <1>1, <1>2, <1>3, <1>4, <1>5

\* Parameters and constants are no data, nor is what a pass uses of the state.
LEMMA PrivateRead ==
  ASSUME NEW j \in Jobs, NEW k, NEW x, IsOperand(x), x[1] # "d", PrivateState,
         x[1] \in {"p", "c"} \/ (x[1] = "s" /\ x[2] \in UsedBy(seg, Device(j), k))
  PROVE  NoData(Read(j, k, x))
<1>1. CASE x[1] = "p"
  <2>1. Read(j, k, x) = {<<x[2], Start[k] + x[3], x[4]>>}
    BY <1>1, ReadParameters
  <2> QED
    BY <2>1, NotData DEF NoData
<1>2. CASE x[1] = "c"
  <2>1. Read(j, k, x) = {x}
    BY <1>2, ReadConstant
  <2>2. \A e : x \notin DataOf(e)
    BY <1>2 DEF DataOf
  <2> QED
    BY <2>1, <2>2 DEF NoData
<1>3. CASE x[1] = "s" /\ x[2] \in UsedBy(seg, Device(j), k)
  <2> DEFINE key == <<k, x[2]>>
  <2>1. Read(j, k, x) = IF key \in DOMAIN state[Device(j)] THEN state[Device(j)][key] ELSE {}
    BY <1>3, ReadState
  <2>2. Device(j) \in {"cpu", "gpu"} /\ key[1] = k /\ key[2] = x[2]
    BY DEF Device, Jobs
  <2> HIDE DEF key
  <2>3. key \in DOMAIN state[Device(j)] => NoData(state[Device(j)][key])
    BY <1>3, <2>2 DEF PrivateState
  <2> QED
    BY <2>1, <2>3 DEF NoData
<1> QED
  BY <1>1, <1>2, <1>3

\* What a pass reads is of its own data.
LEMMA OwnRead ==
  ASSUME NEW j \in Jobs, NEW k, NEW x, IsOperand(x), x[1] # "d", PrivateState,
         OwnAll(j[2], mem[j][k]), x[1] = "s" => x[2] \in UsedBy(seg, Device(j), k)
  PROVE  OwnTo(j[2], Read(j, k, x))
<1>1. CASE Local(x)
  <2>1. Read(j, k, x) = IF x \in DOMAIN mem[j][k] THEN mem[j][k][x] ELSE {Stale}
    BY <1>1, ReadLocal
  <2>2. OwnTo(j[2], {Stale})
    BY NotData DEF OwnTo
  <2>3. x \in DOMAIN mem[j][k] => OwnTo(j[2], mem[j][k][x])
    BY DEF OwnAll
  <2> QED
    BY <2>1, <2>2, <2>3
<1>2. CASE ~Local(x)
  <2>1. NoData(Read(j, k, x))
    BY <1>2, OperandIs, PrivateRead
  <2> QED
    BY <2>1 DEF NoData, OwnTo
<1> QED
  BY <1>1, <1>2

\* What is computed but for the state comes of the pass' own data.
LEMMA OwnValue ==
  ASSUME TypeInv, OwnInv, NEW j \in Jobs, Compute(j), NEW e \in Effects(ThisOp(j)),
         e.to[1] # "s"
  PROVE  OwnTo(j[2], Value(j, at[j].layer, e))
<1> DEFINE d == Device(j)
           k == at[j].layer
           all == EffectsOf(Passes(seg, d, k).fwd) \cup EffectsOf(Passes(seg, d, k).bwd)
           len == CodeOf(seg, k).len
<1>1. /\ HasOp(j, {"call", "do"}) /\ at' = Moved(j) /\ k \in 1 .. Len(seg)
      /\ OpFits(KnownAt(seg, d, at[j]), ThisOp(j), len)
  BY ComputeIs
<1>2. e \in all
  BY <1>1, EffectsOfLayer
<1>3. EffectFits(e, len)
  BY <1>1 DEF OpFits
<1>4. ASSUME NEW x \in e.from PROVE OwnTo(j[2], Read(j, k, x))
  <2>1. IsOperand(x) /\ x[1] # "d"
    BY <1>3 DEF EffectFits
  <2>2. x[1] = "s" => x[2] \in UsedBy(seg, d, k)
    <3>1. e \in {f \in all : f.to[1] # "s"}
      BY <1>2
    <3>2. x \in UNION {g.from : g \in {f \in all : f.to[1] # "s"}}
      BY <3>1
    <3> QED
      BY <3>2 DEF UsedBy, Used
  <2>3. PrivateState /\ OwnAll(j[2], mem[j][k])
    BY <1>1 DEF OwnInv
  <2> QED
    BY <2>1, <2>2, <2>3, OwnRead
<1> HIDE DEF k
<1> QED
  BY <1>4 DEF Value, OwnTo, k

\* What a pass uses of the state is computed from no data.
LEMMA PrivateValue ==
  ASSUME TypeInv, OwnInv, NoneOf(Remembering), NEW j \in Jobs, Compute(j),
         NEW e \in Effects(ThisOp(j)),
         e.to[1] = "s", e.to[2] \in UsedBy(seg, Device(j), at[j].layer)
  PROVE  NoData(Value(j, at[j].layer, e))
<1> DEFINE d == Device(j)
           k == at[j].layer
           all == EffectsOf(Passes(seg, d, k).fwd) \cup EffectsOf(Passes(seg, d, k).bwd)
           len == CodeOf(seg, k).len
<1>1. /\ HasOp(j, {"call", "do"}) /\ at' = Moved(j) /\ k \in 1 .. Len(seg)
      /\ OpFits(KnownAt(seg, d, at[j]), ThisOp(j), len)
  BY ComputeIs
<1>2. e \in all /\ StatePrivate(all)
  <2>1. seg[k] \in CheckedLayers /\ seg[k] \notin Remembering
    BY <1>1 DEF TypeInv, LayersSafe, NoneOf
  <2>2. PassesPrivate(CodeOf(seg, k).cpu) /\ PassesPrivate(CodeOf(seg, k).gpu)
    BY <2>1 DEF CheckedLayers, CodeOf
  <2>3. PassesPrivate(Passes(seg, d, k))
    BY <2>2 DEF Passes
  <2> QED
    BY <1>1, <2>3, EffectsOfLayer DEF PassesPrivate
<1>3. EffectFits(e, len)
  BY <1>1 DEF OpFits
<1>4. ASSUME NEW x \in e.from PROVE NoData(Read(j, k, x))
  <2>1. IsOperand(x) /\ x[1] # "d"
    BY <1>3 DEF EffectFits
  <2>2. x[1] \in {"p", "c"} \/ (x[1] = "s" /\ x[2] \in UsedBy(seg, d, k))
    BY <1>2 DEF StatePrivate, UsedBy
  <2>3. PrivateState
    BY DEF OwnInv
  <2> QED
    BY <2>1, <2>2, <2>3, PrivateRead
<1> HIDE DEF k
<1> QED
  BY <1>4 DEF Value, NoData, k

\* insert and remove keep what is of one's own data.
LEMMA OwnWith ==
  ASSUME NEW e, NEW f, OwnAll(e, f), NEW x, NEW v, OwnTo(e, v)
  PROVE  OwnAll(e, With(f, x, v))
  BY DEF OwnAll, With

\* So does a part of it.
LEMMA OwnRestrict ==
  ASSUME NEW e, NEW f, OwnAll(e, f), NEW part, part \subseteq DOMAIN f
  PROVE  OwnAll(e, Restrict(f, part))
  BY DEF OwnAll, Restrict

\* What a pass is given is of its own data.
LEMMA OwnGiven ==
  ASSUME NEW e
  PROVE  /\ OwnTo(e, {<<"x", e>>}) /\ OwnTo(e, {<<"go", e>>}) /\ OwnTo(e, {<<"t", e>>})
         /\ OwnTo(e, {Stale}) /\ OwnTo(e, {Old}) /\ OwnTo(e, {})
         /\ OwnAll(e, EmptyMap)
  BY DEF OwnTo, DataOf, Stale, Old, OwnAll, EmptyMap

\* A computation leaves nothing of other data, in buffers, gradients or state.
LEMMA OwnCompute ==
  ASSUME TypeInv, OwnInv, NoneOf(Remembering), NEW j \in Jobs, Compute(j)
  PROVE  /\ OwnAll(j[2], mem'[j][at[j].layer]) /\ OwnAll(j[2], grads'[j])
         /\ PrivateState'
<1> DEFINE k == at[j].layer
           o == ThisOp(j)
           d == Device(j)
           len == CodeOf(seg, k).len
<1>1. /\ Passing(at[j]) /\ k \in 1 .. Len(seg)
      /\ OpFits(KnownAt(seg, d, at[j]), o, len)
      /\ mem'[j][k] = MemAfter(j, k, Effects(o))
      /\ grads'[j] = GradsAfter(j, k, Effects(o))
      /\ state'[d] = StateAfter(j, k, Effects(o))
      /\ \A c \in {"cpu", "gpu"} \ {d} : state'[c] = state[c]
  BY ComputeIs
<1>2. \A e \in Effects(o) : EffectFits(e, len)
  BY <1>1 DEF OpFits
<1>3. OwnAll(j[2], mem[j][k]) /\ OwnAll(j[2], grads[j]) /\ DOMAIN grads[j] = Cells
  BY <1>1 DEF OwnInv, TypeInv
<1>4. ASSUME NEW v \in DOMAIN mem'[j][k] PROVE OwnTo(j[2], mem'[j][k][v])
  <2> DEFINE old == mem[j][k]
             on == {e \in {f \in Effects(o) : Local(f.to)} : e.to = v}
             computed == UNION {Value(j, k, e) : e \in on}
             rest == IF v \in DOMAIN old /\ \A e \in on : e.mode = "add" THEN old[v] ELSE {}
  <2>1. mem'[j][k][v] = computed \cup rest
    BY <1>1 DEF MemAfter
  <2>2. ASSUME NEW e \in on PROVE OwnTo(j[2], Value(j, k, e))
    <3>1. e \in Effects(o) /\ Local(e.to) /\ EffectFits(e, len)
      BY <1>2
    <3>2. e.to[1] # "s"
      BY <3>1 DEF EffectFits, IsOperand, Kinds
    <3> QED
      BY <3>1, <3>2, OwnValue
  <2>3. OwnTo(j[2], computed)
    <3> HIDE DEF on, k
    <3> QED
      BY <2>2 DEF OwnTo
  <2>4. OwnTo(j[2], rest)
    BY <1>3 DEF OwnAll, OwnTo
  <2> HIDE DEF computed, rest
  <2> QED
    BY <2>1, <2>3, <2>4 DEF OwnTo
<1>5. ASSUME NEW c \in Cells PROVE OwnTo(j[2], grads'[j][c])
  <2> DEFINE here == {e \in Effects(o) : OnCell(k, c, e)}
             computed == UNION {GradValue(j, k, e) : e \in here}
             rest == IF \A e \in here : e.mode = "add" THEN grads[j][c] ELSE {}
  <2>1. grads'[j][c] = computed \cup rest
    BY <1>1 DEF GradsAfter
  <2>2. ASSUME NEW e \in here PROVE OwnTo(j[2], GradValue(j, k, e))
    <3>1. e \in Effects(o) /\ e.to[1] # "s"
      BY DEF OnCell
    <3>2. OwnTo(j[2], Value(j, k, e))
      BY <3>1, OwnValue
    <3>3. \A f : <<"gradient of", e.to[2]>> \notin DataOf(f)
      BY NotData
    <3> QED
      BY <3>2, <3>3 DEF GradValue, RoleOf, OwnTo
  <2>3. OwnTo(j[2], computed)
    <3> HIDE DEF here, k
    <3> QED
      BY <2>2 DEF OwnTo
  <2>4. OwnTo(j[2], rest)
    BY <1>3 DEF OwnAll, OwnTo
  <2> HIDE DEF computed, rest
  <2> QED
    BY <2>1, <2>3, <2>4 DEF OwnTo
<1>6. ASSUME NEW key \in DOMAIN state'[d], key[2] \in UsedBy(seg, d, key[1])
      PROVE  NoData(state'[d][key])
  <2> DEFINE here == {e \in Effects(o) : e.to[1] = "s"}
             old == state[d]
             on == {e \in here : <<k, e.to[2]>> = key}
             new == {e \in on : e.mode # "once" \/ key \notin DOMAIN old}
             computed == UNION {Value(j, k, e) : e \in new}
             rest == IF key \in DOMAIN old /\ \A e \in new : e.mode = "add" THEN old[key] ELSE {}
  <2>1. state'[d][key] = computed \cup rest
    BY <1>1 DEF StateAfter
  <2>2. ASSUME NEW e \in new PROVE NoData(Value(j, k, e))
    <3>1. e \in Effects(o) /\ e.to[1] = "s" /\ <<k, e.to[2]>> = key
      OBVIOUS
    <3>2. key[1] = k /\ key[2] = e.to[2]
      BY <3>1
    <3>3. e.to[2] \in UsedBy(seg, d, k)
      BY <1>6, <3>2
    <3> QED
      BY <3>1, <3>3, PrivateValue
  <2>3. NoData(computed)
    <3> HIDE DEF new, k
    <3> QED
      BY <2>2 DEF NoData
  <2>4. NoData(rest)
    <3>1. d \in {"cpu", "gpu"}
      BY DEF Device, Jobs
    <3>2. key \in DOMAIN old => NoData(old[key])
      BY <1>6, <3>1 DEF OwnInv, PrivateState
    <3> QED
      BY <3>2 DEF NoData
  <2> HIDE DEF computed, rest
  <2> QED
    BY <2>1, <2>3, <2>4 DEF NoData
<1>7. DOMAIN grads'[j] = Cells
  BY <1>1 DEF GradsAfter
<1>8. PrivateState'
  <2>1. seg' = seg
    BY DEF Compute
  <2>2. ASSUME NEW c \in {"cpu", "gpu"}, NEW key \in DOMAIN state'[c],
               key[2] \in UsedBy(seg, c, key[1])
        PROVE  NoData(state'[c][key])
    <3>1. CASE c = d
      BY <1>6, <2>2, <3>1
    <3>2. CASE c # d
      BY <1>1, <2>2, <3>2 DEF OwnInv, PrivateState
    <3> QED
      BY <3>1, <3>2
  <2> QED
    BY <2>1, <2>2 DEF PrivateState
<1> QED
  BY <1>4, <1>5, <1>7, <1>8 DEF OwnAll

\* The buffers of j after a step.
LEMMA OwnBuffers ==
  ASSUME TypeInv, CleanInv, OwnInv, NoneOf(Remembering), NEW j \in Jobs, Step(j),
         NEW i \in 1 .. Len(seg)
  PROVE  OwnAll(j[2], mem'[j][i])
<1> DEFINE s == seg
           e == j[2]
           k == at[j].layer
           o == ThisOp(j)
<1>1. \A l \in 1 .. Len(s) : OwnAll(e, mem[j][l])
  BY DEF OwnInv
<1>2. DOMAIN mem[j] = 1 .. Len(s) /\ DOMAIN mem = Jobs
  BY DEF TypeInv
<1>3. CASE BeginForward(j)
  <2>1. mem'[j] = [mem[j] EXCEPT ![1] = With(@, X, {<<"x", e>>})]
    BY <1>2, <1>3 DEF BeginForward
  <2>2. mem'[j][i] = mem[j][i] \/ mem'[j][i] = With(mem[j][i], X, {<<"x", e>>})
    BY <1>2, <2>1
  <2> QED
    BY <1>1, <2>2, OwnWith, OwnGiven
<1>4. CASE BeginBackward(j)
  <2>1. mem'[j] = [mem[j] EXCEPT ![Len(s)] = With(@, GradOut, {<<"go", e>>})]
    BY <1>2, <1>4 DEF BeginBackward
  <2>2. mem'[j][i] = mem[j][i] \/ mem'[j][i] = With(mem[j][i], GradOut, {<<"go", e>>})
    BY <1>2, <2>1
  <2> QED
    BY <1>1, <2>2, OwnWith, OwnGiven
<1>5. CASE Allocate(j)
  <2>1. mem'[j] = [mem[j] EXCEPT ![k] = With(@, o.var, {Stale})]
    BY <1>2, <1>5 DEF Allocate
  <2>2. mem'[j][i] = mem[j][i] \/ mem'[j][i] = With(mem[j][i], o.var, {Stale})
    BY <1>2, <2>1
  <2> QED
    BY <1>1, <2>2, OwnWith, OwnGiven
<1>6. CASE Release(j)
  <2>1. mem'[j] = [mem[j] EXCEPT ![k] = Without(@, o.var)]
    BY <1>2, <1>6 DEF Release
  <2>2. mem'[j][i] = mem[j][i] \/ mem'[j][i] = Without(mem[j][i], o.var)
    BY <1>2, <2>1
  <2> QED
    BY <1>1, <2>2, OwnRestrict DEF Without
<1>7. CASE Exchange(j)
  <2>1. mem'[j] = [mem[j] EXCEPT ![k] = Swapped(@, o.var, o.with)]
    BY <1>2, <1>7 DEF Exchange
  <2>2. HasOp(j, {"swap"}) /\ at' = Moved(j)
    BY <1>7 DEF Exchange
  <2>3. /\ o.op \in {"swap"} /\ Passing(at[j]) /\ k \in 1 .. Len(s)
        /\ OpFits(KnownAt(s, Device(j), at[j]), o, CodeOf(s, k).len)
    BY <2>2, Operating
  <2>4. o.var \in DOMAIN mem[j][k] /\ o.with \in DOMAIN mem[j][k]
    BY <2>3, CleanHere DEF OpFits, Has
  <2>5. OwnAll(e, Swapped(mem[j][k], o.var, o.with))
    <3>1. OwnAll(e, mem[j][k])
      BY <1>1, <2>3
    <3> HIDE DEF k, o
    <3> QED
      BY <2>4, <3>1 DEF OwnAll, Swapped
  <2>6. mem'[j][i] = mem[j][i] \/ mem'[j][i] = Swapped(mem[j][k], o.var, o.with)
    <3> DEFINE swapped == Swapped(mem[j][k], o.var, o.with)
    <3>1. mem'[j] = [mem[j] EXCEPT ![k] = swapped]
      BY <2>1
    <3> HIDE DEF swapped
    <3> QED
      BY <1>2, <3>1 DEF swapped
  <2> QED
    BY <1>1, <2>5, <2>6
<1>8. CASE Compute(j)
  <2>1. \A l \in 1 .. Len(s) \ {k} : mem'[j][l] = mem[j][l]
    BY <1>8, ComputeIs
  <2>2. OwnAll(e, mem'[j][k])
    BY <1>8, OwnCompute
  <2> QED
    BY <1>1, <2>1, <2>2
<1>9. CASE Save(j)
  <2>1. mem'[j] = [mem[j] EXCEPT ![k] = Restrict(@, DOMAIN @ \cap (o.vars \cup {Y}))]
    BY <1>2, <1>9 DEF Save
  <2>2. \/ mem'[j][i] = mem[j][i]
        \/ mem'[j][i] = Restrict(mem[j][i], DOMAIN mem[j][i] \cap (o.vars \cup {Y}))
    BY <1>2, <2>1
  <2> QED
    BY <1>1, <2>2, OwnRestrict
<1>10. CASE NextForward(j)
  <2> DEFINE out == Read(j, k, Y)
             saved == IF Y \in Kept(k, Device(j)) THEN mem[j][k] ELSE Without(mem[j][k], Y)
  <2>1. OwnTo(e, out)
    <3>1. /\ k \in 1 .. Len(s) /\ out = mem[j][k][Y] /\ Y \in DOMAIN mem[j][k]
      BY <1>10, ForwardGoesOn
    <3> QED
      BY <1>1, <3>1 DEF OwnAll
  <2>2. \/ mem'[j] = [mem[j] EXCEPT ![k] = saved, ![k + 1] = With(@, X, out)]
        \/ mem'[j] = [mem[j] EXCEPT ![k] = saved]
    BY <1>2, <1>10 DEF NextForward
  <2>3. k \in 1 .. Len(s) /\ k + 1 # k
    BY <1>10, ForwardGoesOn DEF IsSegment
  <2>4. OwnAll(e, saved)
    BY <1>1, <2>3, OwnRestrict DEF Without
  <2>5. mem'[j][i] = mem[j][i] \/ mem'[j][i] = saved \/ mem'[j][i] = With(mem[j][i], X, out)
    <3> HIDE DEF saved, out, k
    <3> QED
      BY <1>2, <2>2, <2>3
  <2> HIDE DEF saved, out
  <2> QED
    BY <1>1, <2>1, <2>4, <2>5, OwnWith
<1>11. CASE NextBackward(j)
  <2> DEFINE gi == Read(j, k, GradIn)
  <2>1. OwnTo(e, gi)
    <3>1. /\ k \in 1 .. Len(s) /\ gi = mem[j][k][GradIn] /\ GradIn \in DOMAIN mem[j][k]
      BY <1>11, BackwardGoesOn
    <3> QED
      BY <1>1, <3>1 DEF OwnAll
  <2>2. \/ mem'[j] = [mem[j] EXCEPT ![k] = EmptyMap, ![k - 1] = With(@, GradOut, gi)]
        \/ mem'[j] = [mem[j] EXCEPT ![k] = EmptyMap]
    BY <1>2, <1>11 DEF NextBackward
  <2>3. k \in 1 .. Len(s) /\ k - 1 # k
    BY <1>11, BackwardGoesOn DEF IsSegment
  <2>4. \/ mem'[j][i] = mem[j][i] \/ mem'[j][i] = EmptyMap
        \/ mem'[j][i] = With(mem[j][i], GradOut, gi)
    <3> HIDE DEF gi, k
    <3> QED
      BY <1>2, <2>2, <2>3
  <2> HIDE DEF gi
  <2> QED
    BY <1>1, <2>1, <2>4, OwnWith, OwnGiven
<1>12. CASE Drop(j) \/ Caching(j)
  BY <1>1, <1>12 DEF Drop, Caching
<1> QED
  BY <1>3, <1>4, <1>5, <1>6, <1>7, <1>8, <1>9, <1>10, <1>11, <1>12 DEF Step

\* No step brings data of one pass into another.
LEMMA OwnStep ==
  TypeInv /\ CleanInv /\ NoneOf(Remembering) /\ OwnInv /\ [Next]_vars => OwnInv'
<1> SUFFICES ASSUME TypeInv, CleanInv, NoneOf(Remembering), OwnInv, [Next]_vars PROVE OwnInv'
  OBVIOUS
<1>1. CASE UNCHANGED vars
  BY <1>1 DEF OwnInv, vars, PrivateState
<1>2. ASSUME NEW j \in Jobs, Step(j) PROVE OwnInv'
  <2>1. LeavesOthers(j)
    BY <1>2, StepsLeaveOthers
  <2>2. \A i \in 1 .. Len(seg) : OwnAll(j[2], mem'[j][i])
    BY <1>2, OwnBuffers
  <2>3. SUFFICES PrivateState' /\ OwnAll(j[2], grads'[j]) /\ OwnAll(j[2], result'[j])
    BY <2>1, <2>2 DEF LeavesOthers, OwnInv
  <2>4. PrivateState /\ OwnAll(j[2], grads[j]) /\ OwnAll(j[2], result[j])
    BY DEF OwnInv
  <2>5. state' = state => PrivateState'
    BY <2>1, <2>4 DEF PrivateState, LeavesOthers
  <2>6. CASE /\ state' = state /\ grads' = grads /\ result' = result
    BY <2>4, <2>5, <2>6
  <2>7. CASE BeginBackward(j)
    <3>1. OwnAll(j[2], grads'[j])
      <4>1. grads'[j] = grads[j] \/ grads'[j] = [c \in Cells |-> {}]
        BY <2>7 DEF BeginBackward, TypeInv
      <4> QED
        BY <2>4, <4>1, OwnGiven DEF OwnAll
    <3> QED
      BY <2>4, <2>5, <2>7, <3>1 DEF BeginBackward
  <2>8. CASE Compute(j)
    BY <2>4, <2>8, OwnCompute DEF Compute
  <2>9. CASE NextForward(j)
    <3> DEFINE k == at[j].layer
               out == Read(j, k, Y)
    <3>1. /\ k \in 1 .. Len(seg) /\ out = mem[j][k][Y] /\ Y \in DOMAIN mem[j][k]
          /\ result'[j] = result[j] \/ result'[j] = With(result[j], "out", out)
      BY <2>9, ForwardGoesOn
    <3>2. OwnTo(j[2], out)
      BY <3>1 DEF OwnInv, OwnAll
    <3> HIDE DEF out
    <3>3. OwnAll(j[2], result'[j])
      BY <2>4, <3>1, <3>2, OwnWith
    <3> QED
      BY <2>4, <2>5, <2>9, <3>3 DEF NextForward
  <2>10. CASE NextBackward(j)
    <3> DEFINE k == at[j].layer
               gi == Read(j, k, GradIn)
    <3>1. /\ k \in 1 .. Len(seg) /\ gi = mem[j][k][GradIn] /\ GradIn \in DOMAIN mem[j][k]
          /\ result'[j] = result[j] \/ result'[j] = With(result[j], "gi", gi)
      BY <2>10, BackwardGoesOn
    <3>2. OwnTo(j[2], gi)
      BY <3>1 DEF OwnInv, OwnAll
    <3> HIDE DEF gi
    <3>3. OwnAll(j[2], result'[j])
      BY <2>4, <3>1, <3>2, OwnWith
    <3> QED
      BY <2>4, <2>5, <2>10, <3>3 DEF NextBackward
  <2> QED
    BY <1>2, <2>6, <2>7, <2>8, <2>9, <2>10
    DEF Step, BeginForward, Allocate, Release, Exchange, Save, Drop, Caching
<1> QED
  BY <1>1, <1>2, NextIsStep

\* Before any pass there is no data but the targets.
LEMMA OwnInit == Init => OwnInv
<1> SUFFICES ASSUME Init PROVE OwnInv
  OBVIOUS
<1>1. PrivateState
  BY DEF Init, PrivateState, EmptyMap
<1>2. ASSUME NEW j \in Jobs, NEW k \in 1 .. Len(seg) PROVE OwnAll(j[2], mem[j][k])
  <2>1. mem[j][k] = EmptyMap \/ mem[j][k] = With(EmptyMap, Target, {<<"t", j[2]>>})
    BY DEF Init, Given
  <2> QED
    BY <2>1, OwnGiven, OwnWith
<1>3. \A j \in Jobs : OwnAll(j[2], result[j])
  BY OwnGiven DEF Init
<1>4. \A j \in Jobs : OwnAll(j[2], grads[j])
  BY OwnGiven DEF Init, OwnAll
<1> QED
  BY <1>1, <1>2, <1>3, <1>4 DEF OwnInv

\* Whatever the layers of a segment are, if each of them passes its check then
\* a backward pass finds its own entry in the cache, and what a pass hands out
\* depends on no other pass, in whatever order the operations of the passes
\* come, even where the layers keep state, unless it is a layer made to
\* remember other passes.
THEOREM OwnDataAlways == Spec /\ LayersSafe => []OwnDataOnly
<1> DEFINE OwnIfNone == NoneOf(Remembering) => OwnInv
<1>1. Init /\ LayersSafe => TypeInv /\ CleanInv /\ OwnIfNone
  BY TypeInit, CleanInit, OwnInit
<1>2. TypeInv /\ CleanInv /\ OwnIfNone /\ [Next]_vars => (TypeInv /\ CleanInv /\ OwnIfNone)'
  <2>1. TypeInv /\ [Next]_vars => (NoneOf(Remembering)' => NoneOf(Remembering))
    BY SegmentStays DEF NoneOf
  <2> QED
    BY <2>1, TypeStep, CleanStep, OwnStep
<1>3. TypeInv /\ OwnIfNone => OwnDataOnly
  <2> SUFFICES ASSUME TypeInv, OwnIfNone PROVE OwnDataOnly
    OBVIOUS
  <2>1. \A j \in Jobs : at[j] # Panicked
    BY DEF TypeInv, PlaceOk, IsPlace, Passing, Idle, Between, Done, Dropped, Panicked
  <2>2. ASSUME NoneOf(Remembering), NEW j \in Jobs, NEW i \in Jobs, i[2] # j[2]
        PROVE  /\ \A v \in Results(j) : v \cap Own(i) = {}
               /\ \A c \in Cells : grads[j][c] \cap Own(i) = {}
    <3>1. Own(i) = DataOf(i[2]) /\ i[2] \in Data
      BY DEF Own, DataOf, Jobs
    <3>2. OwnAll(j[2], result[j]) /\ OwnAll(j[2], grads[j]) /\ DOMAIN grads[j] = Cells
      BY <2>2 DEF OwnInv, TypeInv
    <3> QED
      BY <2>2, <3>1, <3>2 DEF OwnAll, OwnTo, Results
  <2> QED
    BY <2>1, <2>2 DEF OwnDataOnly
<1> QED
  BY <1>1, <1>2, <1>3, PTL DEF Spec

-----------------------------------------------------------------------------
(* Slices *)

\* So they are disjoint, and within the cells.
LEMMA SlicesApart ==
  ASSUME NEW s, IsSegment(s), NEW k \in 1 .. Len(s), NEW c \in AllOf(s, k)
  PROVE  LET cell == SliceStarts(s)[k] + c
         IN /\ cell \in 0 .. SliceStarts(s)[Len(s) + 1] /\ cell \in Slice(s, k)
            /\ \A l \in 1 .. Len(s) : l # k => cell \notin Slice(s, l)
<1> DEFINE K == SliceStarts(s)
           cell == K[k] + c
<1>0. Len(s) \in Nat /\ Len(s) + 1 \in 1 .. Len(s) + 1 /\ k < Len(s) + 1
  BY DEF IsSegment
<1>1. \A i \in 1 .. Len(s) + 1 : K[i] \in Nat
  BY StartsAreNatural
<1>2. \A i \in 1 .. Len(s) : CodeOf(s, i).len \in Nat
  BY PassesArePrograms
<1>3. c \in Nat /\ c < CodeOf(s, k).len
  BY <1>2 DEF AllOf
<1>4. K[k] \in Nat /\ K[Len(s) + 1] \in Nat
  BY <1>0, <1>1
<1>5. K[k] + CodeOf(s, k).len <= K[Len(s) + 1]
  BY <1>0, SlicesFollow
<1>6. cell \in Nat /\ cell >= K[k] /\ cell < K[k] + CodeOf(s, k).len
  BY <1>2, <1>3, <1>4
<1>7. cell \in 0 .. K[Len(s) + 1]
  <2> HIDE DEF cell, K
  <2> QED
    BY <1>2, <1>4, <1>5, <1>6
<1>8. cell \in Slice(s, k)
  <2> HIDE DEF cell
  <2> QED
    BY <1>2, <1>4, <1>6 DEF Slice
<1>9. ASSUME NEW l \in 1 .. Len(s), l # k PROVE cell \notin Slice(s, l)
  <2>1. K[l] \in Nat /\ l \in 1 .. Len(s) + 1 /\ k \in 1 .. Len(s) + 1
    BY <1>0, <1>1
  <2>2. CASE k < l
    <3>1. K[k] + CodeOf(s, k).len <= K[l]
      BY <2>1, <2>2, SlicesFollow
    <3>2. cell < K[l]
      <4> HIDE DEF cell, K
      <4> QED
        BY <1>2, <1>4, <1>6, <2>1, <3>1
    <3> HIDE DEF cell
    <3> QED
      BY <1>2, <1>6, <2>1, <3>2 DEF Slice
  <2>3. CASE l < k
    <3>1. K[l] + CodeOf(s, l).len <= K[k]
      BY <2>1, <2>3, SlicesFollow
    <3>2. cell >= K[l] + CodeOf(s, l).len
      <4> HIDE DEF cell, K
      <4> QED
        BY <1>2, <1>4, <1>6, <2>1, <3>1
    <3> HIDE DEF cell
    <3> QED
      BY <1>2, <1>6, <2>1, <3>2 DEF Slice
  <2> QED
    BY <1>0, <1>9, <2>2, <2>3
<1> QED
  BY <1>7, <1>8, <1>9

-----------------------------------------------------------------------------
(* Gradients *)

\* The gradient of the output in a buffer.
Leads(e, m, v) == Local(v) /\ v \in DOMAIN m /\ <<"go", e>> \in m[v]

\* What is computed from such a buffer has it too.
LEMMA LedValue ==
  ASSUME TypeInv, GradsInv, NEW j \in Jobs, at[j].pass = "bwd", NEW e, NEW len,
         EffectFits(e, len), FromLed(KnownAt(seg, Device(j), at[j]), e)
  PROVE  <<"go", j[2]>> \in Value(j, at[j].layer, e)
<1> DEFINE k == at[j].layer
           r == KnownAt(seg, Device(j), at[j])
<1>1. PICK x \in e.from : x \in r.led
  BY DEF FromLed
<1>2. Leads(j[2], mem[j][k], x)
  BY <1>1 DEF GradsInv, LedOk, Leads
<1>3. IsOperand(x)
  BY <1>1 DEF EffectFits
<1>4. <<"go", j[2]>> \in Read(j, k, x)
  <2>1. Local(x) /\ x \in DOMAIN mem[j][k] /\ <<"go", j[2]>> \in mem[j][k][x]
    BY <1>2 DEF Leads
  <2>2. Read(j, k, x) = mem[j][k][x]
    BY <1>3, <2>1, ReadLocal
  <2> QED
    BY <2>1, <2>2
<1>5. <<"go", j[2]>> # One
  BY DEF One
<1> HIDE DEF k
<1> QED
  BY <1>1, <1>4, <1>5 DEF Value, k

\* An operation of a backward pass: what is led after it.
LEMMA LedOperation ==
  ASSUME TypeInv, NEW j \in Jobs, NEW kinds, HasOp(j, kinds), at' = Moved(j),
         at[j].pass = "bwd" =>
           \A v \in Changed(KnownAt(seg, Device(j), at[j]), ThisOp(j),
                            CodeOf(seg, at[j].layer).len).led :
             Leads(j[2], mem'[j][at[j].layer], v)
  PROVE  LedOk(seg, Device(j), at'[j], j[2], mem'[j])
<1>1. at'[j] = At(at[j].pass, at[j].layer, at[j].op + 1)
  BY Operating
<1>2. at'[j].pass = at[j].pass /\ at'[j].layer = at[j].layer
  BY <1>1 DEF At
<1>3. KnownAt(seg, Device(j), at'[j])
        = Changed(KnownAt(seg, Device(j), at[j]), ThisOp(j), CodeOf(seg, at[j].layer).len)
  BY Operating
<1>4. ASSUME at[j].pass = "bwd", NEW v \in KnownAt(seg, Device(j), at'[j]).led
      PROVE  Leads(j[2], mem'[j][at[j].layer], v)
  BY <1>3, <1>4
<1> QED
  BY <1>2, <1>4 DEF LedOk, Leads

\* A buffer of which the reading says that it has the gradient has it.
LEMMA LedHere ==
  ASSUME GradsInv, NEW j \in Jobs, at[j].pass = "bwd",
         NEW v \in KnownAt(seg, Device(j), at[j]).led
  PROVE  Leads(j[2], mem[j][at[j].layer], v)
  BY DEF GradsInv, LedOk, Leads

\* A new buffer does not have it.
LEMMA LedAllocate ==
  ASSUME TypeInv, GradsInv, NEW j \in Jobs, Allocate(j)
  PROVE  LedOk(seg, Device(j), at'[j], j[2], mem'[j])
<1> DEFINE k == at[j].layer
           o == ThisOp(j)
           r == KnownAt(seg, Device(j), at[j])
           len == CodeOf(seg, k).len
<1>1. HasOp(j, {"new", "temp"}) /\ at' = Moved(j)
  BY DEF Allocate
<1>2. o.op \in {"new", "temp"} /\ k \in 1 .. Len(seg)
  BY <1>1, Operating
<1>3. mem'[j][k] = With(mem[j][k], o.var, {Stale})
  BY <1>2 DEF Allocate, TypeInv
<1>4. Changed(r, o, len).led = r.led \ {o.var}
  BY <1>2, LedAfter
<1>5. ASSUME NEW v \in r.led \ {o.var}, at[j].pass = "bwd" PROVE Leads(j[2], mem'[j][k], v)
  <2>1. Leads(j[2], mem[j][k], v) /\ v # o.var
    BY <1>5, LedHere
  <2> QED
    BY <1>3, <2>1 DEF Leads, With
<1> QED
  BY <1>1, <1>4, <1>5, LedOperation

\* A buffer that is gone does not have it.
LEMMA LedRelease ==
  ASSUME TypeInv, GradsInv, NEW j \in Jobs, Release(j)
  PROVE  LedOk(seg, Device(j), at'[j], j[2], mem'[j])
<1> DEFINE k == at[j].layer
           o == ThisOp(j)
           r == KnownAt(seg, Device(j), at[j])
           len == CodeOf(seg, k).len
<1>1. HasOp(j, {"free"}) /\ at' = Moved(j)
  BY DEF Release
<1>2. o.op \in {"free"} /\ k \in 1 .. Len(seg)
  BY <1>1, Operating
<1>3. mem'[j][k] = Without(mem[j][k], o.var)
  BY <1>2 DEF Release, TypeInv
<1>4. Changed(r, o, len).led = r.led \ {o.var}
  BY <1>2, LedAfter
<1>5. ASSUME NEW v \in r.led \ {o.var}, at[j].pass = "bwd" PROVE Leads(j[2], mem'[j][k], v)
  <2>1. Leads(j[2], mem[j][k], v) /\ v # o.var
    BY <1>5, LedHere
  <2> QED
    BY <1>3, <2>1 DEF Leads, Without, Restrict
<1> QED
  BY <1>1, <1>4, <1>5, LedOperation

\* swap: the gradient goes with the contents.
LEMMA LedExchange ==
  ASSUME TypeInv, CleanInv, GradsInv, NEW j \in Jobs, Exchange(j)
  PROVE  LedOk(seg, Device(j), at'[j], j[2], mem'[j])
<1> DEFINE k == at[j].layer
           o == ThisOp(j)
           r == KnownAt(seg, Device(j), at[j])
           len == CodeOf(seg, k).len
           m == mem[j][k]
<1>1. HasOp(j, {"swap"}) /\ at' = Moved(j)
  BY DEF Exchange
<1>2. /\ o.op \in {"swap"} /\ k \in 1 .. Len(seg) /\ Passing(at[j]) /\ OpFits(r, o, len)
  BY <1>1, Operating
<1>3. mem'[j][k] = Swapped(m, o.var, o.with)
  BY <1>2 DEF Exchange, TypeInv
<1>4. Changed(r, o, len).led = {v \in r.led \cup {o.var, o.with} : Other(o, v) \in r.led}
  BY <1>2, LedAfter
<1>5. o.var \in DOMAIN m /\ Local(o.var) /\ o.with \in DOMAIN m /\ Local(o.with)
  <2>1. o.var \in DOMAIN r.holds /\ o.with \in DOMAIN r.holds
    BY <1>2 DEF OpFits
  <2> QED
    BY <1>2, <2>1, CleanHere DEF Has
<1>6. ASSUME NEW v \in r.led \cup {o.var, o.with}, Other(o, v) \in r.led, at[j].pass = "bwd"
      PROVE  Leads(j[2], mem'[j][k], v)
  <2>1. Leads(j[2], m, Other(o, v))
    BY <1>6, LedHere
  <2>2. v \in r.led => Leads(j[2], m, v)
    BY <1>6, LedHere
  <2>3. v \in DOMAIN m /\ Local(v)
    BY <1>5, <2>2 DEF Leads
  <2>4. v \in DOMAIN mem'[j][k] /\ mem'[j][k][v] = m[Other(o, v)]
    BY <1>3, <1>5, <2>3 DEF Swapped, Other
  <2> QED
    BY <2>1, <2>3, <2>4 DEF Leads
<1> QED
  BY <1>1, <1>4, <1>6, LedOperation

\* What is kept has what it had.
LEMMA LedSave ==
  ASSUME TypeInv, GradsInv, NEW j \in Jobs, Save(j)
  PROVE  LedOk(seg, Device(j), at'[j], j[2], mem'[j])
<1> DEFINE k == at[j].layer
           o == ThisOp(j)
           r == KnownAt(seg, Device(j), at[j])
           len == CodeOf(seg, k).len
           vs == o.vars \cup {Y}
<1>1. HasOp(j, {"keep"}) /\ at' = Moved(j)
  BY DEF Save
<1>2. o.op \in {"keep"} /\ k \in 1 .. Len(seg)
  BY <1>1, Operating
<1>3. mem'[j][k] = Restrict(mem[j][k], DOMAIN mem[j][k] \cap vs)
  BY <1>2 DEF Save, TypeInv
<1>4. Changed(r, o, len).led = r.led \cap vs
  BY <1>2, LedAfter
<1>5. ASSUME NEW v \in r.led \cap vs, at[j].pass = "bwd" PROVE Leads(j[2], mem'[j][k], v)
  <2>1. Leads(j[2], mem[j][k], v) /\ v \in vs
    BY <1>5, LedHere
  <2> HIDE DEF vs
  <2> QED
    BY <1>3, <2>1 DEF Leads, Restrict
<1> QED
  BY <1>1, <1>4, <1>5, LedOperation

\* A computation: its targets have the gradient if it read a buffer that has.
LEMMA LedCompute ==
  ASSUME TypeInv, GradsInv, NEW j \in Jobs, Compute(j)
  PROVE  LedOk(seg, Device(j), at'[j], j[2], mem'[j])
<1> DEFINE k == at[j].layer
           o == ThisOp(j)
           r == KnownAt(seg, Device(j), at[j])
           len == CodeOf(seg, k).len
           go == <<"go", j[2]>>
<1>1. /\ HasOp(j, {"call", "do"}) /\ at' = Moved(j) /\ o.op \in {"call", "do"}
      /\ k \in 1 .. Len(seg) /\ OpFits(r, o, len)
      /\ mem'[j][k] = MemAfter(j, k, Effects(o))
  BY ComputeIs
<1>2. Changed(r, o, len).led =
        {v \in r.led \cup Targets(o) :
           \/ \E e \in On(o, v) : FromLed(r, e)
           \/ v \in r.led /\ AllAdd(On(o, v))}
  BY <1>1, LedAfter
<1>3. ASSUME at[j].pass = "bwd", NEW v \in r.led \cup Targets(o),
             \/ \E e \in On(o, v) : FromLed(r, e)
             \/ v \in r.led /\ AllAdd(On(o, v))
      PROVE  Leads(j[2], mem'[j][k], v)
  <2> DEFINE old == mem[j][k]
             here == {f \in Effects(o) : Local(f.to)}
             on == {e \in here : e.to = v}
             computed == UNION {Value(j, k, e) : e \in on}
             rest == IF v \in DOMAIN old /\ \A e \in on : e.mode = "add" THEN old[v] ELSE {}
  <2>1. v \in r.led => Leads(j[2], old, v)
    BY <1>3, LedHere
  <2>2. Local(v) /\ v \in DOMAIN old \cup {e.to : e \in here}
    BY <2>1 DEF Targets, Leads
  <2>3. on = On(o, v)
    BY <2>2 DEF On
  <2>4. v \in DOMAIN mem'[j][k] /\ mem'[j][k][v] = computed \cup rest
    BY <1>1, <2>2 DEF MemAfter
  <2>5. CASE \E e \in On(o, v) : FromLed(r, e)
    <3>1. PICK e \in On(o, v) : FromLed(r, e)
      BY <2>5
    <3>2. EffectFits(e, len)
      BY <1>1 DEF OpFits, On
    <3>3. go \in Value(j, k, e)
      BY <1>3, <3>1, <3>2, LedValue
    <3>4. go \in computed
      BY <2>3, <3>1, <3>3
    <3> HIDE DEF computed, rest
    <3> QED
      BY <2>2, <2>4, <3>4 DEF Leads
  <2>6. CASE v \in r.led /\ AllAdd(On(o, v))
    <3>1. rest = old[v] /\ go \in old[v]
      BY <2>1, <2>3, <2>6 DEF AllAdd, Leads
    <3> HIDE DEF computed, rest
    <3> QED
      BY <2>2, <2>4, <3>1 DEF Leads
  <2> QED
    BY <1>3, <2>5, <2>6
<1>4. ASSUME at[j].pass = "bwd", NEW v \in Changed(r, o, len).led
      PROVE  Leads(j[2], mem'[j][k], v)
  <2> HIDE DEF r, o, len
  <2> QED
    BY <1>2, <1>3, <1>4
<1> QED
  BY <1>1, <1>4, LedOperation

\* A backward pass begins with the gradient it is given, ...
LEMMA LedBeginBackward ==
  ASSUME TypeInv, NEW j \in Jobs, BeginBackward(j)
  PROVE  LedOk(seg, Device(j), at'[j], j[2], mem'[j])
<1> DEFINE l == Len(seg)
           b == At("bwd", l, 1)
<1>1. IsSegment(seg) /\ l \in 1 .. Len(seg)
  BY DEF TypeInv, IsSegment
<1>2. at'[j] = b
  BY DEF BeginBackward, TypeInv
<1>3. mem'[j][l] = With(mem[j][l], GradOut, {<<"go", j[2]>>})
  BY <1>1 DEF BeginBackward, TypeInv
<1>4. KnownAt(seg, Device(j), b).led = {GradOut}
  <2>1. Checked(seg, Device(j), l)
    BY <1>1, CheckedToBegin DEF BeginBackward
  <2> QED
    BY <1>1, <2>1, PassEnds DEF Begins, Knows
<1>5. b.layer = l
  BY DEF At
<1>6. Leads(j[2], mem'[j][l], GradOut)
  BY <1>3, NamesAreLocal DEF Leads, With
<1> HIDE DEF b
<1> QED
  BY <1>2, <1>4, <1>5, <1>6 DEF LedOk, Leads

\* ... and goes on with what the layer computed from it.
LEMMA LedNextBackward ==
  ASSUME TypeInv, CleanInv, GradsInv, NEW j \in Jobs, NextBackward(j)
  PROVE  LedOk(seg, Device(j), at'[j], j[2], mem'[j])
<1> DEFINE k == at[j].layer
           d == Device(j)
           gi == Read(j, k, GradIn)
           b == At("bwd", k - 1, 1)
<1>1. /\ at[j].pass = "bwd" /\ k \in 1 .. Len(seg) /\ IsSegment(seg)
      /\ gi = mem[j][k][GradIn]
      /\ KnownAt(seg, d, at[j]) = BackwardEnd(seg, d, k)
      /\ BackwardEnds(BackwardEnd(seg, d, k), CodeOf(seg, k).len)
      /\ IF k > 1
           THEN mem'[j][k - 1] = With(mem[j][k - 1], GradOut, gi) /\ at'[j] = b
           ELSE at'[j] = Done
  BY BackwardGoesOn
<1>2. CASE k > 1
  <2>1. GradIn \in KnownAt(seg, d, at[j]).led
    BY <1>1 DEF BackwardEnds
  <2>2. <<"go", j[2]>> \in gi
    BY <1>1, <2>1, LedHere DEF Leads
  <2>3. k - 1 \in 1 .. Len(seg)
    BY <1>1, <1>2 DEF IsSegment
  <2>4. KnownAt(seg, d, b).led = {GradOut}
    <3>1. Checked(seg, d, k - 1)
      BY <2>3, Ending DEF NextBackward
    <3> QED
      BY <1>1, <2>3, <3>1, PassEnds DEF Begins, Knows
  <2>5. b.layer = k - 1
    BY DEF At
  <2>6. Leads(j[2], mem'[j][k - 1], GradOut)
    <3>1. mem'[j][k - 1] = With(mem[j][k - 1], GradOut, gi)
      BY <1>1, <1>2
    <3> HIDE DEF gi, k
    <3> QED
      BY <2>2, <3>1, NamesAreLocal DEF Leads, With
  <2>7. at'[j] = b
    BY <1>1, <1>2
  <2> HIDE DEF b
  <2> QED
    BY <2>4, <2>5, <2>6, <2>7 DEF LedOk, Leads
<1>3. CASE ~(k > 1)
  BY <1>1, <1>3 DEF LedOk, Done
<1> QED
  BY <1>2, <1>3

\* The cache leaves the buffers as they are.
LEMMA LedCaching ==
  ASSUME TypeInv, GradsInv, NEW j \in Jobs, Caching(j)
  PROVE  LedOk(seg, Device(j), at'[j], j[2], mem'[j])
<1> DEFINE k == at[j].layer
           o == ThisOp(j)
           r == KnownAt(seg, Device(j), at[j])
           len == CodeOf(seg, k).len
<1>1. HasOp(j, {"insert", "remove"}) /\ at' = Moved(j) /\ mem' = mem
  BY DEF Caching
<1>2. o.op \in {"insert", "remove"}
  BY <1>1, Operating
<1>3. Changed(r, o, len).led = r.led
  BY <1>2, LedAfter
<1>4. ASSUME NEW v \in r.led, at[j].pass = "bwd" PROVE Leads(j[2], mem'[j][k], v)
  BY <1>1, <1>4, LedHere
<1> QED
  BY <1>1, <1>3, <1>4, LedOperation

\* In a forward pass there is no such gradient.
LEMMA LedForward ==
  ASSUME TypeInv, NEW j \in Jobs, BeginForward(j) \/ NextForward(j) \/ Drop(j)
  PROVE  LedOk(seg, Device(j), at'[j], j[2], mem'[j])
<1>1. at'[j].pass \in {"fwd", "between", "dropped"}
  BY DEF BeginForward, NextForward, Drop, At, Between, Dropped, TypeInv
<1> QED
  BY <1>1 DEF LedOk

-----------------------------------------------------------------------------
(* Slices of the gradients *)

\* A part of a slice, counted from the start of the slice.
LEMMA PartOfSlice ==
  ASSUME NEW start \in Nat, NEW len \in Nat, NEW from \in Nat, NEW many \in Nat,
         from + many <= len
  PROVE  /\ \A x \in start + from .. start + from + many - 1 : x \in start .. start + len - 1
         /\ \A c \in Int : start + c \in start + from .. start + from + many - 1
                             <=> c \in from .. from + many - 1
  OBVIOUS

\* An effect on gradients stays in the slice of its layer; in the slice, it is
\* on the cells that the reading says.
LEMMA EffectsOnCells ==
  ASSUME TypeInv, NEW k \in 1 .. Len(seg), NEW o, NEW e \in Effects(o),
         EffectFits(e, CodeOf(seg, k).len)
  PROVE  /\ \A cell \in Cells : OnCell(k, cell, e) => cell \in Slice(seg, k)
         /\ \A c \in AllOf(seg, k) : OnCell(k, SliceStarts(seg)[k] + c, e) <=> e \in OnGrad(o, c)
<1> DEFINE len == CodeOf(seg, k).len
           start == SliceStarts(seg)[k]
<1>1. IsSegment(seg) /\ k \in 1 .. Len(seg) + 1
  BY DEF TypeInv, IsSegment
<1>2. start \in Nat /\ len \in Nat
  BY <1>1, StartsAreNatural, PassesArePrograms
<1>3. Start[k] = start
  BY DEF Start
<1>4. CASE e.to[1] = "d"
  <2>1. PICK from \in Nat, many \in Nat : from = e.to[3] /\ many = e.to[4] /\ from + many <= len
    BY <1>4 DEF EffectFits
  <2> HIDE DEF start, len
  <2> from + many <= len /\ start \in Nat /\ len \in Nat
    BY <1>2, <2>1
  <2>4. /\ \A x \in start + from .. start + from + many - 1 : x \in start .. start + len - 1
        /\ \A c \in Int : start + c \in start + from .. start + from + many - 1
                             <=> c \in from .. from + many - 1
    BY PartOfSlice
  <2>2. ASSUME NEW cell, OnCell(k, cell, e)
        PROVE  cell \in start .. start + len - 1
    <3>1. cell \in start + from .. start + from + many - 1
      BY <1>3, <2>1, <2>2 DEF OnCell
    <3> QED
      BY <2>4, <3>1
  <2>3. ASSUME NEW c \in Int
        PROVE  OnCell(k, start + c, e) <=> e \in OnGrad(o, c)
    <3>1. start + c \in start + from .. start + from + many - 1
            <=> c \in from .. from + many - 1
      BY <2>4
    <3> QED
      BY <1>3, <1>4, <2>1, <3>1 DEF OnCell, OnGrad
  <2>5. \A cell \in Cells : OnCell(k, cell, e) => cell \in Slice(seg, k)
    BY <2>2 DEF Slice, start, len
  <2>6. AllOf(seg, k) \subseteq Int
    BY <1>2 DEF AllOf, len
  <2>7. \A c \in AllOf(seg, k) : OnCell(k, SliceStarts(seg)[k] + c, e) <=> e \in OnGrad(o, c)
    BY <2>3, <2>6 DEF start
  <2> QED
    BY <2>5, <2>7
<1>5. CASE e.to[1] # "d"
  BY <1>5 DEF OnCell, OnGrad
<1> QED
  BY <1>4, <1>5

\* Where an operation leaves the gradients alone, as much of them is written.
LEMMA SlicesKept ==
  ASSUME TypeInv, GradsInv, NEW j \in Jobs, NEW kinds, HasOp(j, kinds), at' = Moved(j),
         kinds \subseteq {"new", "temp", "free", "swap", "keep", "insert", "remove"},
         grads' = grads
  PROVE  SlicesOk(seg, Device(j), at'[j], j[2], grads'[j])
<1> DEFINE s == seg
           d == Device(j)
           a == at[j]
           b == at'[j]
           o == ThisOp(j)
<1>1. /\ Passing(a) /\ b = At(a.pass, a.layer, a.op + 1) /\ o.op \in kinds
      /\ KnownAt(s, d, b) = Changed(KnownAt(s, d, a), o, CodeOf(s, a.layer).len)
  BY Operating
<1>2. b.pass = a.pass /\ b.layer = a.layer
  BY <1>1 DEF At
<1>3. /\ KnownAt(s, d, b).gives = KnownAt(s, d, a).gives
      /\ KnownAt(s, d, b).reached = KnownAt(s, d, a).reached
  <2>1. o.op \in {"new", "temp", "free", "swap", "keep", "insert", "remove"}
    BY <1>1
  <2> HIDE DEF a, b, o, s, d
  <2> QED
    BY <1>1, <2>1, GradientsAfter
<1>4. a # Done /\ b # Done
  BY <1>1, <1>2 DEF Passing, Done
<1>5. SlicesOk(s, d, a, j[2], grads[j])
  BY DEF GradsInv
<1> HIDE DEF a, b
<1>6. \A k : /\ GivesAt(s, d, b, k) = GivesAt(s, d, a, k)
              /\ ReachedAt(s, d, b, k) = ReachedAt(s, d, a, k)
  BY <1>2, <1>3, <1>4 DEF GivesAt, ReachedAt
<1> QED
  BY <1>5, <1>6 DEF SlicesOk, b

\* A role stands for itself.
LEMMA RoleIsFrom ==
  ASSUME NEW s, NEW e, NEW k, NEW f
  PROVE  IsFrom(s, e, k, RoleOf(f), RoleOf(f))
<1> DEFINE role == <<"gradient of", f.to[2]>>
<1>1. /\ role # Stale /\ role # Old /\ role # One
      /\ role # X /\ role # GradOut /\ role # Target /\ role[1] # "p"
  BY DEF Stale, Old, One, X, GradOut, Target
<1>2. RoleOf(f) = {} \/ RoleOf(f) = {role}
  BY DEF RoleOf
<1> HIDE DEF role
<1>3. IsFrom(s, e, k, {role}, {role})
  <2>1. OperandMeans(s, e, k, InAt(s, e, k), GoAt(s, e, k), role) = {role}
    BY <1>1 DEF OperandMeans
  <2>2. Means(s, e, k, {role}) = {role}
    BY <1>1, <2>1 DEF Means, MeansWith
  <2>3. SourcesIn(s, {role}) = {role} /\ Fresh({role})
    BY <1>1 DEF SourcesIn, Fresh
  <2> QED
    BY <2>2, <2>3 DEF IsFrom
<1> QED
  BY <1>2, <1>3, FromNothing

\* So do the roles that several effects have.
LEMMA RolesAreFrom ==
  ASSUME NEW s, NEW e, NEW k, NEW effects
  PROVE  IsFrom(s, e, k, UNION {RoleOf(f) : f \in effects}, UNION {RoleOf(f) : f \in effects})
<1> DEFINE role == [f \in effects |-> RoleOf(f)]
           roles == UNION {RoleOf(f) : f \in effects}
<1>1. \A f \in effects : IsFrom(s, e, k, role[f], role[f])
  BY RoleIsFrom
<1>2. \A z : z \in roles <=> \E f \in effects : z \in role[f]
  BY Zenon
<1>3. SUFFICES IsFrom(s, e, k, roles, roles)
  OBVIOUS
<1> HIDE DEF role, roles
<1> QED
  BY <1>1, <1>2, FromAll

\* What a computation leaves in a cell of its layer.
LEMMA CellsOfLayer ==
  ASSUME TypeInv, CleanInv, GradsInv, NEW j \in Jobs, Compute(j), at[j].pass = "bwd",
         NEW c \in AllOf(seg, at[j].layer)
  PROVE  LET k == at[j].layer
             o == ThisOp(j)
             r == KnownAt(seg, Device(j), at[j])
             len == CodeOf(seg, k).len
             cell == SliceStarts(seg)[k] + c
         IN /\ c \in DOMAIN GivesThen(r, o, len) =>
                 IsFrom(seg, j[2], k, grads'[j][cell], GivesThen(r, o, len)[c])
            /\ c \in ReachedThen(r, o, len) => <<"go", j[2]>> \in grads'[j][cell]
<1> DEFINE k == at[j].layer
           o == ThisOp(j)
           r == KnownAt(seg, Device(j), at[j])
           len == CodeOf(seg, k).len
           cell == SliceStarts(seg)[k] + c
           go == <<"go", j[2]>>
           on == OnGrad(o, c)
           here == {e \in Effects(o) : OnCell(k, cell, e)}
           values == UNION {Value(j, k, e) : e \in on}
           roles == UNION {RoleOf(e) : e \in on}
           computed == UNION {GradValue(j, k, e) : e \in on}
           rest == IF AllAdd(on) THEN grads[j][cell] ELSE {}
<1>1. /\ HasOp(j, {"call", "do"}) /\ at' = Moved(j)
      /\ Passing(at[j]) /\ k \in 1 .. Len(seg) /\ OpFits(r, o, len)
      /\ grads'[j] = GradsAfter(j, k, Effects(o))
  BY ComputeIs
<1>2. IsSegment(seg)
  BY DEF TypeInv
<1>3. cell \in Cells
  BY <1>1, <1>2, SlicesApart DEF Cells, Start
<1>4. \A e \in Effects(o) : EffectFits(e, len) /\ (Local(e.to) \/ FromClean(r, e))
  BY <1>1 DEF OpFits
<1>5. here = on
  <2>1. \A e \in Effects(o) : OnCell(k, cell, e) <=> e \in on
    BY <1>1, <1>4, EffectsOnCells
  <2>2. on \subseteq Effects(o)
    BY DEF OnGrad
  <2> HIDE DEF k, o, cell, on
  <2> QED
    BY <2>1, <2>2
<1>6. grads'[j][cell] = computed \cup rest
  <2>1. grads'[j][cell] = (UNION {GradValue(j, k, e) : e \in here})
                            \cup (IF \A e \in here : e.mode = "add" THEN grads[j][cell] ELSE {})
    <3> HIDE DEF cell
    <3> QED
      BY <1>1, <1>3 DEF GradsAfter
  <2> HIDE DEF here, on, cell, k
  <2> QED
    BY <1>5, <2>1 DEF AllAdd
<1>7. /\ c \in DOMAIN r.gives => IsFrom(seg, j[2], k, grads[j][cell], r.gives[c])
      /\ c \in r.reached => go \in grads[j][cell]
  <2>1. SlicesOk(seg, Device(j), at[j], j[2], grads[j])
    BY DEF GradsInv
  <2>2. /\ GivesAt(seg, Device(j), at[j], k) = r.gives
        /\ ReachedAt(seg, Device(j), at[j], k) = r.reached
    BY DEF GivesAt, ReachedAt
  <2> HIDE DEF r, k
  <2> QED
    BY <1>1, <2>1, <2>2 DEF SlicesOk
<1>8. IsFrom(seg, j[2], k, values, OriginsOf(r, on))
  <2>1. \A e \in on : e \in Effects(o) /\ e.to[1] = "d"
    BY DEF OnGrad
  <2>2. \A e \in on : e.to[1] # "s" /\ FromClean(r, e)
    BY <1>4, <2>1 DEF EffectFits, IsOperand, Kinds
  <2>3. on \subseteq Effects(o)
    BY <2>1
  <2> HIDE DEF r, on
  <2> QED
    BY <1>1, <2>2, <2>3, ValuesAreFrom DEF r
<1>9. IsFrom(seg, j[2], k, roles, roles)
  BY RolesAreFrom
<1>10. computed = values \cup roles
  <2> HIDE DEF k, on
  <2> QED
    BY DEF GradValue
<1>11. (\E e \in on : FromLed(r, e)) => go \in computed
  <2>1. ASSUME NEW e \in on, FromLed(r, e) PROVE go \in GradValue(j, k, e)
    <3>1. EffectFits(e, len)
      BY <1>4 DEF OnGrad
    <3> QED
      BY <2>1, <3>1, LedValue DEF GradValue
  <2> HIDE DEF r, on, go, k
  <2> QED
    BY <2>1
<1> DEFINE others == IF AllAdd(on) THEN r.gives[c] ELSE {}
<1>12. c \in DOMAIN GivesThen(r, o, len) =>
         /\ c \in DOMAIN r.gives \/ ~AllAdd(on)
         /\ GivesThen(r, o, len)[c] = OriginsOf(r, on) \cup roles \cup others
  <2> HIDE DEF r, o, len
  <2> QED
    BY DEF GivesThen
<1>13. c \in ReachedThen(r, o, len) =>
         (\E e \in on : FromLed(r, e)) \/ (c \in r.reached /\ AllAdd(on))
  BY DEF ReachedThen
<1>14. SUFFICES /\ c \in DOMAIN GivesThen(r, o, len) =>
                     IsFrom(seg, j[2], k, grads'[j][cell], GivesThen(r, o, len)[c])
                /\ c \in ReachedThen(r, o, len) => go \in grads'[j][cell]
  OBVIOUS
<1> HIDE DEF computed, values, roles, cell, k, o, r, len, go, on
<1>15. ASSUME c \in DOMAIN GivesThen(r, o, len)
       PROVE  IsFrom(seg, j[2], k, rest, others)
  BY <1>7, <1>12, <1>15, FromNothing
<1> HIDE DEF rest, others
<1>16. ASSUME c \in DOMAIN GivesThen(r, o, len)
       PROVE  IsFrom(seg, j[2], k, grads'[j][cell], GivesThen(r, o, len)[c])
  <2>1. IsFrom(seg, j[2], k, computed, OriginsOf(r, on) \cup roles)
    BY <1>8, <1>9, <1>10, FromBoth
  <2> QED
    BY <1>6, <1>12, <1>15, <1>16, <2>1, FromBoth
<1>17. c \in ReachedThen(r, o, len) => go \in grads'[j][cell]
  BY <1>6, <1>7, <1>11, <1>13 DEF rest
<1> QED
  BY <1>16, <1>17

\* What it leaves of any other cell.
LEMMA CellsElsewhere ==
  ASSUME TypeInv, NEW j \in Jobs, Compute(j), NEW cell \in Cells,
         cell \notin Slice(seg, at[j].layer)
  PROVE  grads'[j][cell] = grads[j][cell]
<1> DEFINE k == at[j].layer
           o == ThisOp(j)
           len == CodeOf(seg, k).len
           here == {e \in Effects(o) : OnCell(k, cell, e)}
<1>1. /\ k \in 1 .. Len(seg) /\ OpFits(KnownAt(seg, Device(j), at[j]), o, len)
      /\ grads'[j] = GradsAfter(j, k, Effects(o))
  BY ComputeIs
<1>2. \A e \in Effects(o) : EffectFits(e, len)
  BY <1>1 DEF OpFits
<1>3. here = {}
  BY <1>1, <1>2, EffectsOnCells
<1>4. grads'[j][cell] = (UNION {GradValue(j, k, e) : e \in here})
                          \cup (IF \A e \in here : e.mode = "add" THEN grads[j][cell] ELSE {})
  BY <1>1 DEF GradsAfter
<1> HIDE DEF here
<1> QED
  BY <1>3, <1>4

\* As the reading says, a computation writes the cells of its layer.
LEMMA SlicesCompute ==
  ASSUME TypeInv, CleanInv, GradsInv, NEW j \in Jobs, Compute(j)
  PROVE  SlicesOk(seg, Device(j), at'[j], j[2], grads'[j])
<1> DEFINE s == seg
           d == Device(j)
           a == at[j]
           b == at'[j]
           l == a.layer
           o == ThisOp(j)
           r == KnownAt(s, d, a)
           len == CodeOf(s, l).len
           go == <<"go", j[2]>>
           cell(k, c) == SliceStarts(s)[k] + c
<1>0. HasOp(j, {"call", "do"}) /\ at' = Moved(j)
  BY ComputeIs
<1>1. /\ Passing(a) /\ b = At(a.pass, l, a.op + 1) /\ o.op \in {"call", "do"}
      /\ l \in 1 .. Len(s) /\ KnownAt(s, d, b) = Changed(r, o, len)
  BY <1>0, Operating
<1>2. b.pass = a.pass /\ b.layer = l
  BY <1>1 DEF At
<1>3. a # Done /\ b # Done /\ IsSegment(s)
  BY <1>1, <1>2 DEF Passing, Done, TypeInv
<1>4. SlicesOk(s, d, a, j[2], grads[j])
  BY DEF GradsInv
<1>5. CASE a.pass # "bwd"
  <2>1. \A k : GivesAt(s, d, b, k) = EmptyMap /\ ReachedAt(s, d, b, k) = {}
    BY <1>2, <1>3, <1>5 DEF GivesAt, ReachedAt
  <2> HIDE DEF b
  <2> QED
    BY <2>1 DEF SlicesOk, EmptyMap, b
<1>6. ASSUME a.pass = "bwd", NEW k \in 1 .. Len(s)
      PROVE  /\ \A c \in DOMAIN GivesAt(s, d, b, k) :
                  /\ c \in AllOf(s, k)
                  /\ IsFrom(s, j[2], k, grads'[j][cell(k, c)], GivesAt(s, d, b, k)[c])
             /\ \A c \in ReachedAt(s, d, b, k) :
                  c \in AllOf(s, k) /\ go \in grads'[j][cell(k, c)]
  <2>1. CASE k = l
    <3>1. /\ GivesAt(s, d, b, k) = GivesThen(r, o, len)
          /\ ReachedAt(s, d, b, k) = ReachedThen(r, o, len)
      <4>1. GivesAt(s, d, b, k) = KnownAt(s, d, b).gives
            /\ ReachedAt(s, d, b, k) = KnownAt(s, d, b).reached
        BY <1>2, <1>6, <2>1 DEF GivesAt, ReachedAt
      <4> HIDE DEF b, r, o, len, a
      <4> QED
        BY <1>1, <4>1, GradientsAfter
    <3>2. /\ DOMAIN GivesThen(r, o, len) \subseteq AllOf(s, k)
          /\ ReachedThen(r, o, len) \subseteq AllOf(s, k)
      <4>1. AllOf(s, k) = 0 .. len - 1
        BY <2>1 DEF AllOf
      <4> HIDE DEF len, r, o
      <4> QED
        BY <4>1 DEF GivesThen, ReachedThen
    <3>3. ASSUME NEW c \in AllOf(s, k)
          PROVE  /\ c \in DOMAIN GivesThen(r, o, len) =>
                      IsFrom(s, j[2], k, grads'[j][cell(k, c)], GivesThen(r, o, len)[c])
                 /\ c \in ReachedThen(r, o, len) => go \in grads'[j][cell(k, c)]
      BY <1>6, <2>1, CellsOfLayer
    <3> HIDE DEF b, r, o, len, a, cell, go
    <3> QED
      BY <3>1, <3>2, <3>3
  <2>2. CASE k # l
    <3>1. /\ GivesAt(s, d, b, k) = GivesAt(s, d, a, k)
          /\ ReachedAt(s, d, b, k) = ReachedAt(s, d, a, k)
      <4> HIDE DEF a, b
      <4> QED
        BY <1>2, <1>6, <2>2 DEF GivesAt, ReachedAt, l
    <3>2. ASSUME NEW c \in AllOf(s, k) PROVE grads'[j][cell(k, c)] = grads[j][cell(k, c)]
      <4>1. cell(k, c) \in Cells /\ cell(k, c) \notin Slice(s, l)
        BY <1>1, <1>3, <2>2, SlicesApart DEF Cells, Start
      <4> QED
        BY <4>1, CellsElsewhere
    <3> HIDE DEF b, r, o, len, a, go
    <3> QED
      BY <1>4, <3>1, <3>2 DEF SlicesOk, go
  <2> QED
    BY <2>1, <2>2
<1> QED
  <2> HIDE DEF b, a
  <2> QED
    BY <1>5, <1>6 DEF SlicesOk, b

\* Before a backward pass nothing is written, or zeros.
LEMMA SlicesBegin ==
  ASSUME TypeInv, NEW j \in Jobs, BeginForward(j) \/ BeginBackward(j) \/ Drop(j)
  PROVE  SlicesOk(seg, Device(j), at'[j], j[2], grads'[j])
<1> DEFINE s == seg
           d == Device(j)
           l == Len(s)
           b == At("bwd", l, 1)
<1>1. CASE BeginForward(j)
  <2>1. at'[j].pass = "fwd" /\ at'[j] # Done
    BY <1>1 DEF BeginForward, TypeInv, At, Done
  <2> QED
    BY <2>1 DEF SlicesOk, GivesAt, ReachedAt, EmptyMap
<1>2. CASE BeginBackward(j)
  <2>1. IsSegment(s) /\ l \in 1 .. Len(s) /\ l \in Int
    BY DEF TypeInv, IsSegment
  <2>2. at'[j] = b /\ (d = "gpu" => grads'[j] = [c \in Cells |-> {}])
    BY <1>2 DEF BeginBackward, TypeInv
  <2>3. b.pass = "bwd" /\ b.layer = l
    BY DEF At
  <2>4. KnownAt(s, d, b).gives = ZeroedOf(s, d, l) /\ KnownAt(s, d, b).reached = {}
    <3>1. Checked(s, d, l)
      BY <1>2, <2>1, CheckedToBegin DEF BeginBackward
    <3>2. KnownAt(s, d, b)
            = Begins(With(Context(s, d, l), GradOut, {GradOut}), {GradOut}, ZeroedOf(s, d, l))
      <4> HIDE DEF l
      <4> QED
        BY <2>1, <3>1, PassEnds
    <3> QED
      BY <3>2 DEF Begins, Knows
  <2>5. ASSUME NEW k \in 1 .. Len(s)
        PROVE  GivesAt(s, d, b, k) = ZeroedOf(s, d, k) /\ ReachedAt(s, d, b, k) = {}
    <3>1. ~(k > l)
      BY <2>1
    <3> HIDE DEF b, l
    <3> QED
      BY <2>3, <2>4, <3>1 DEF GivesAt, ReachedAt
  <2>6. ASSUME NEW k \in 1 .. Len(s), NEW c \in DOMAIN ZeroedOf(s, d, k)
        PROVE  /\ c \in AllOf(s, k)
               /\ IsFrom(s, j[2], k, grads'[j][SliceStarts(s)[k] + c], ZeroedOf(s, d, k)[c])
    <3>1. d = "gpu" /\ c \in AllOf(s, k) /\ ZeroedOf(s, d, k)[c] = {}
      BY DEF ZeroedOf, ZeroedOn, AllOf
    <3>2. SliceStarts(s)[k] + c \in Cells
      BY <2>1, <3>1, SlicesApart DEF Cells, Start
    <3>3. grads'[j][SliceStarts(s)[k] + c] = {}
      BY <2>2, <3>1, <3>2
    <3> QED
      BY <3>1, <3>3, FromNothing
  <2> HIDE DEF b
  <2> QED
    BY <2>2, <2>5, <2>6 DEF SlicesOk
<1>3. CASE Drop(j)
  <2>1. at'[j].pass = "dropped" /\ at'[j] # Done
    BY <1>3 DEF Drop, TypeInv, Dropped, Done
  <2> QED
    BY <2>1 DEF SlicesOk, GivesAt, ReachedAt, EmptyMap
<1> QED
  BY <1>1, <1>2, <1>3

\* As much of the gradients of layer k is written at a as at b, from the same.
GivesNoMore(s, d, b, a, k) ==
  /\ \A c \in DOMAIN GivesAt(s, d, b, k) :
       c \in DOMAIN GivesAt(s, d, a, k) /\ GivesAt(s, d, a, k)[c] = GivesAt(s, d, b, k)[c]
  /\ ReachedAt(s, d, b, k) \subseteq ReachedAt(s, d, a, k)

\* A layer that ends has written all of its slice.
LEMMA SlicesNext ==
  ASSUME TypeInv, CleanInv, GradsInv, NEW j \in Jobs, NextForward(j) \/ NextBackward(j)
  PROVE  SlicesOk(seg, Device(j), at'[j], j[2], grads'[j])
<1> DEFINE s == seg
           d == Device(j)
           a == at[j]
           l == a.layer
           b == at'[j]
<1>1. CASE NextForward(j)
  <2>1. b.pass \in {"fwd", "between"} /\ b # Done
    BY <1>1 DEF NextForward, TypeInv, At, Between, Done
  <2> HIDE DEF b
  <2> QED
    BY <2>1 DEF SlicesOk, GivesAt, ReachedAt, EmptyMap, b
<1>2. CASE NextBackward(j)
  <2>1. /\ a.pass = "bwd" /\ l \in 1 .. Len(s) /\ IsSegment(s)
        /\ KnownAt(s, d, a) = BackwardEnd(s, d, l)
        /\ BackwardEnds(BackwardEnd(s, d, l), CodeOf(s, l).len)
        /\ IF l > 1 THEN b = At("bwd", l - 1, 1) ELSE b = Done
    BY <1>2, BackwardGoesOn
  <2>2. SlicesOk(s, d, a, j[2], grads[j]) /\ grads' = grads
    BY <1>2 DEF GradsInv, NextBackward
  <2>3. l \in Int /\ Len(s) \in Int
    BY <2>1 DEF IsSegment
  <2>4. /\ GivesAt(s, d, a, l) = BackwardEnd(s, d, l).gives
        /\ AllOf(s, l) \subseteq DOMAIN GivesAt(s, d, a, l)
        /\ AllOf(s, l) \subseteq ReachedAt(s, d, a, l)
    BY <2>1 DEF BackwardEnds, GivesAt, ReachedAt, AllOf
  <2>5. ASSUME NEW k \in 1 .. Len(s), k < l
        PROVE  GivesAt(s, d, a, k) = ZeroedOf(s, d, k) /\ ReachedAt(s, d, a, k) = {}
    <3>1. k # l /\ ~(k > l)
      BY <2>3, <2>5
    <3> QED
      BY <2>1, <3>1 DEF GivesAt, ReachedAt
  <2>6. ASSUME NEW k \in 1 .. Len(s), k > l
        PROVE  GivesAt(s, d, a, k) = Gives(s, d, k) /\ ReachedAt(s, d, a, k) = AllOf(s, k)
    <3>1. k # l
      BY <2>3, <2>6
    <3> QED
      BY <2>1, <2>6, <3>1 DEF GivesAt, ReachedAt
  <2>7. \A k \in 1 .. Len(s) : k < l =>
          (GivesAt(s, d, b, k) = ZeroedOf(s, d, k) /\ ReachedAt(s, d, b, k) = {}
             => GivesNoMore(s, d, b, a, k))
    <3> HIDE DEF a, b, d, l, s
    <3> QED
      BY <2>5 DEF GivesNoMore
  <2>8. ASSUME NEW k \in 1 .. Len(s), k = l \/ k > l,
               GivesAt(s, d, b, k) = Gives(s, d, k), ReachedAt(s, d, b, k) = AllOf(s, k)
        PROVE  GivesNoMore(s, d, b, a, k)
    <3>1. \A c \in AllOf(s, k) : Gives(s, d, k)[c] = BackwardEnd(s, d, k).gives[c]
      BY DEF Gives
    <3>2. DOMAIN Gives(s, d, k) = AllOf(s, k)
      BY DEF Gives
    <3> HIDE DEF a, b, d, l, s
    <3> QED
      BY <2>4, <2>6, <2>8, <3>1, <3>2 DEF GivesNoMore
  <2>9. ASSUME NEW k \in 1 .. Len(s)
        PROVE  GivesNoMore(s, d, b, a, k)
    <3>1. CASE l > 1
      <4>1. b = At("bwd", l - 1, 1)
        BY <2>1, <3>1
      <4>2. b.pass = "bwd" /\ b.layer = l - 1
        BY <4>1 DEF At
      <4>3. CASE k = l - 1
        <5>1. Checked(s, d, k)
          BY <1>2, Ending DEF NextBackward
        <5>2. KnownAt(s, d, b)
                = Begins(With(Context(s, d, k), GradOut, {GradOut}), {GradOut}, ZeroedOf(s, d, k))
          <6>1. b = At("bwd", k, 1)
            BY <4>1, <4>3
          <6> HIDE DEF b, l
          <6> QED
            BY <2>1, <5>1, <6>1, PassEnds
        <5>3. KnownAt(s, d, b).gives = ZeroedOf(s, d, k) /\ KnownAt(s, d, b).reached = {}
          BY <5>2 DEF Begins, Knows
        <5>4. k < l
          BY <2>3, <4>3
        <5>5. GivesAt(s, d, b, k) = ZeroedOf(s, d, k) /\ ReachedAt(s, d, b, k) = {}
          <6> HIDE DEF b, l
          <6> QED
            BY <4>2, <4>3, <5>3 DEF GivesAt, ReachedAt
        <5> QED
          BY <2>7, <5>4, <5>5
      <4>4. CASE k < l - 1
        <5>1. k < l /\ k # l - 1 /\ ~(k > l - 1)
          BY <2>3, <4>4
        <5>2. GivesAt(s, d, b, k) = ZeroedOf(s, d, k) /\ ReachedAt(s, d, b, k) = {}
          <6> HIDE DEF b, l
          <6> QED
            BY <4>2, <5>1 DEF GivesAt, ReachedAt
        <5> QED
          BY <2>7, <5>1, <5>2
      <4>5. CASE k > l - 1
        <5>1. k # l - 1 /\ (k = l \/ k > l)
          BY <2>3, <4>5
        <5>2. GivesAt(s, d, b, k) = Gives(s, d, k) /\ ReachedAt(s, d, b, k) = AllOf(s, k)
          <6> HIDE DEF b, l
          <6> QED
            BY <4>2, <4>5, <5>1 DEF GivesAt, ReachedAt
        <5> QED
          BY <2>8, <5>1, <5>2
      <4> QED
        BY <2>3, <4>3, <4>4, <4>5
    <3>2. CASE ~(l > 1)
      <4>1. b = Done /\ b.pass # "bwd"
        BY <2>1, <3>2 DEF Done
      <4>2. GivesAt(s, d, b, k) = Gives(s, d, k) /\ ReachedAt(s, d, b, k) = AllOf(s, k)
        BY <4>1 DEF GivesAt, ReachedAt
      <4>3. k = l \/ k > l
        BY <2>1, <2>3, <3>2
      <4> QED
        BY <2>8, <4>2, <4>3
    <3> QED
      BY <3>1, <3>2
  <2> HIDE DEF a, b
  <2> QED
    BY <2>2, <2>9 DEF SlicesOk, GivesNoMore, b
<1> QED
  BY <1>1, <1>2

\* No step writes a cell that belongs to no layer.
LEMMA OutsideStep ==
  ASSUME TypeInv, GradsInv, NEW j \in Jobs, Step(j)
  PROVE  OutsideOk(seg, grads'[j])
<1>1. OutsideOk(seg, grads[j]) /\ DOMAIN grads[j] = Cells /\ DOMAIN grads = Jobs
  BY DEF GradsInv, TypeInv
<1>2. CASE BeginBackward(j)
  <2>1. grads'[j] = grads[j] \/ grads'[j] = [c \in Cells |-> {}]
    BY <1>1, <1>2 DEF BeginBackward
  <2> QED
    BY <1>1, <2>1 DEF OutsideOk
<1>3. CASE Compute(j)
  <2>1. DOMAIN grads'[j] = Cells /\ at[j].layer \in 1 .. Len(seg)
    BY <1>3, ComputeIs DEF GradsAfter
  <2>2. \A c \in Cells : c \notin Slice(seg, at[j].layer) => grads'[j][c] = grads[j][c]
    BY <1>3, CellsElsewhere
  <2> QED
    BY <1>1, <2>1, <2>2 DEF OutsideOk
<1>4. CASE ~BeginBackward(j) /\ ~Compute(j)
  <2>1. grads' = grads
    BY <1>4 DEF Step, BeginForward, Drop, Allocate, Release, Exchange, Save, Caching,
                NextForward, NextBackward
  <2> QED
    BY <1>1, <2>1
<1> QED
  BY <1>2, <1>3, <1>4

\* As much of the gradients is written as the reading of the programs says.
LEMMA GradsStep == TypeInv /\ CleanInv /\ GradsInv /\ [Next]_vars => GradsInv'
<1> SUFFICES ASSUME TypeInv, CleanInv, GradsInv, [Next]_vars PROVE GradsInv'
  OBVIOUS
<1>1. CASE UNCHANGED vars
  BY <1>1 DEF GradsInv, vars
<1>2. ASSUME NEW j \in Jobs, Step(j) PROVE GradsInv'
  <2>1. LeavesOthers(j)
    BY <1>2, StepsLeaveOthers
  <2>2. SUFFICES /\ SlicesOk(seg, Device(j), at'[j], j[2], grads'[j])
                 /\ LedOk(seg, Device(j), at'[j], j[2], mem'[j])
    BY <1>2, <2>1, OutsideStep DEF LeavesOthers, GradsInv
  <2>3. CASE BeginForward(j)
    BY <2>3, SlicesBegin, LedForward
  <2>4. CASE BeginBackward(j)
    BY <2>4, SlicesBegin, LedBeginBackward
  <2>5. CASE Allocate(j)
    BY <2>5, SlicesKept, LedAllocate DEF Allocate
  <2>6. CASE Release(j)
    BY <2>6, SlicesKept, LedRelease DEF Release
  <2>7. CASE Exchange(j)
    BY <2>7, SlicesKept, LedExchange DEF Exchange
  <2>8. CASE Compute(j)
    BY <2>8, SlicesCompute, LedCompute
  <2>9. CASE Save(j)
    BY <2>9, SlicesKept, LedSave DEF Save
  <2>10. CASE NextForward(j)
    BY <2>10, SlicesNext, LedForward
  <2>11. CASE NextBackward(j)
    BY <2>11, SlicesNext, LedNextBackward
  <2>12. CASE Caching(j)
    BY <2>12, SlicesKept, LedCaching DEF Caching
  <2>13. CASE Drop(j)
    BY <2>13, SlicesBegin, LedForward
  <2> QED
    BY <1>2, <2>3, <2>4, <2>5, <2>6, <2>7, <2>8, <2>9, <2>10, <2>11, <2>12, <2>13 DEF Step
<1> QED
  BY <1>1, <1>2, NextIsStep

\* Before any pass no gradient is written.
LEMMA GradsInit == Init => GradsInv
<1> SUFFICES ASSUME Init, NEW j \in Jobs
             PROVE  /\ SlicesOk(seg, Device(j), at[j], j[2], grads[j])
                    /\ LedOk(seg, Device(j), at[j], j[2], mem[j])
                    /\ OutsideOk(seg, grads[j])
  BY DEF GradsInv
<1>1. at[j].pass = "idle" /\ at[j] # Done
  BY DEF Init, Idle, Done
<1>2. grads[j] = [c \in Cells |-> {Old}]
  BY DEF Init
<1> QED
  BY <1>1, <1>2 DEF SlicesOk, LedOk, OutsideOk, GivesAt, ReachedAt, EmptyMap

\* The cells of a layer's slice, counted from its start.
LEMMA CellOfSlice ==
  ASSUME NEW s, IsSegment(s), NEW k \in 1 .. Len(s), NEW c \in Slice(s, k)
  PROVE  \E n \in AllOf(s, k) : SliceStarts(s)[k] + n = c
<1> DEFINE start == SliceStarts(s)[k]
           n == c - start
<1>1. start \in Nat /\ CodeOf(s, k).len \in Nat
  <2>1. k \in 1 .. Len(s) + 1
    BY DEF IsSegment
  <2> QED
    BY <2>1, StartsAreNatural, PassesArePrograms
<1>2. c \in start .. start + CodeOf(s, k).len - 1
  BY DEF Slice
<1> HIDE DEF start
<1>3. n \in AllOf(s, k) /\ start + n = c
  BY <1>1, <1>2 DEF AllOf
<1> HIDE DEF n
<1> QED
  BY <1>3 DEF start

\* What a job that is done has left in a cell of a slice.
LEMMA CellWhenDone ==
  ASSUME TypeInv, GradsInv, NEW j \in Jobs, at[j] = Done,
         NEW k \in 1 .. Len(seg), NEW c \in GradCells(k)
  PROVE  /\ <<"go", j[2]>> \in grads[j][c]
         /\ \E n \in AllOf(seg, k) :
              /\ SliceStarts(seg)[k] + n = c
              /\ IsFrom(seg, j[2], k, grads[j][c], BackwardEnd(seg, Device(j), k).gives[n])
<1> DEFINE d == Device(j)
<1>1. SlicesOk(seg, d, at[j], j[2], grads[j]) /\ IsSegment(seg)
  BY DEF GradsInv, TypeInv
<1>2. GivesAt(seg, d, at[j], k) = Gives(seg, d, k) /\ ReachedAt(seg, d, at[j], k) = AllOf(seg, k)
  BY DEF GivesAt, ReachedAt, Done
<1>3. c \in Slice(seg, k)
  BY DEF GradCells, Slice, Start, ParamLen, CodeOf
<1>4. PICK n \in AllOf(seg, k) : SliceStarts(seg)[k] + n = c
  BY <1>1, <1>3, CellOfSlice
<1>5. n \in DOMAIN Gives(seg, d, k) /\ Gives(seg, d, k)[n] = BackwardEnd(seg, d, k).gives[n]
  BY DEF Gives
<1> HIDE DEF d
<1>6. /\ <<"go", j[2]>> \in grads[j][c]
      /\ IsFrom(seg, j[2], k, grads[j][c], BackwardEnd(seg, d, k).gives[n])
  BY <1>1, <1>2, <1>4, <1>5 DEF SlicesOk
<1> QED
  BY <1>4, <1>6 DEF d

\* Whatever the layers of a segment are, if each of them passes its check then
\* after a backward pass every cell of every layer's slice has been written
\* over and computed from this pass' gradient, and no cell outside was touched.
THEOREM GradsCompleteAlways == Spec /\ LayersSafe => []GradsComplete
<1>1. Init /\ LayersSafe => TypeInv /\ CleanInv /\ GradsInv
  BY TypeInit, CleanInit, GradsInit
<1>2. TypeInv /\ CleanInv /\ GradsInv /\ [Next]_vars => (TypeInv /\ CleanInv /\ GradsInv)'
  BY TypeStep, CleanStep, GradsStep
<1>3. TypeInv /\ CleanInv /\ GradsInv => GradsComplete
  <2> SUFFICES ASSUME TypeInv, GradsInv, NEW j \in Jobs, at[j] = Done
               PROVE  /\ \A k \in 1 .. Len(seg) : \A c \in GradCells(k) :
                           <<"go", j[2]>> \in grads[j][c] /\ Old \notin grads[j][c]
                      /\ \A c \in Cells :
                           (\A k \in 1 .. Len(seg) : c \notin GradCells(k))
                             => grads[j][c] \subseteq {Old}
    BY DEF GradsComplete
  <2>1. OutsideOk(seg, grads[j]) /\ DOMAIN grads[j] = Cells
    BY DEF GradsInv, TypeInv
  <2>2. \A k : GradCells(k) = Slice(seg, k)
    BY DEF GradCells, Slice, Start, ParamLen, CodeOf
  <2>3. ASSUME NEW k \in 1 .. Len(seg), NEW c \in GradCells(k)
        PROVE  <<"go", j[2]>> \in grads[j][c] /\ Old \notin grads[j][c]
    BY CellWhenDone DEF IsFrom, Fresh
  <2> QED
    BY <2>1, <2>2, <2>3 DEF OutsideOk
<1> QED
  BY <1>1, <1>2, <1>3, PTL DEF Spec

-----------------------------------------------------------------------------
(* The two devices *)

\* A pass on the GPU begins after those on the CPU, if the processor knows all
\* of the segment's layers.
OrderInv ==
  \A j \in Jobs : Device(j) = "gpu" /\ at[j] # Idle =>
    KnownToGpu /\ \A i \in Jobs : Device(i) = "cpu" => at[i] = Done

\* A job that is done takes no step, and one begins when it may.
LEMMA OrderStep == TypeInv /\ OrderInv /\ [Next]_vars => OrderInv'
<1> SUFFICES ASSUME TypeInv, OrderInv, [Next]_vars PROVE OrderInv'
  OBVIOUS
<1>1. CASE UNCHANGED vars
  BY <1>1 DEF OrderInv, KnownToGpu, vars
<1>2. ASSUME NEW l \in Jobs, Step(l) PROVE OrderInv'
  <2>1. seg' = seg /\ \A i \in Jobs \ {l} : at'[i] = at[i]
    BY <1>2, StepsLeaveOthers DEF LeavesOthers
  <2>2. at[l] # Done
    BY <1>2 DEF Step, BeginForward, BeginBackward, Drop, Allocate, Release, Exchange, Compute,
                Save, Caching, NextForward, NextBackward, HasOp, AtEnd, InPass, Idle, Between, Done
  <2>3. at[l] = Idle => MayBegin(l)
    BY <1>2 DEF Step, BeginForward, BeginBackward, Drop, Allocate, Release, Exchange, Compute,
                Save, Caching, NextForward, NextBackward, HasOp, AtEnd, InPass, Idle, Between
  <2>4. KnownToGpu' <=> KnownToGpu
    BY <2>1 DEF KnownToGpu
  <2>5. ASSUME NEW j \in Jobs, Device(j) = "gpu", at'[j] # Idle
        PROVE  KnownToGpu /\ \A i \in Jobs : Device(i) = "cpu" => at[i] = Done
    <3>1. CASE at[j] = Idle
      BY <2>1, <2>3, <2>5, <3>1 DEF MayBegin
    <3>2. CASE at[j] # Idle
      BY <2>5, <3>2 DEF OrderInv
    <3> QED
      BY <3>1, <3>2
  <2>6. ASSUME NEW j \in Jobs, Device(j) = "gpu", at'[j] # Idle,
               NEW i \in Jobs, Device(i) = "cpu"
        PROVE  at'[i] = Done
    <3>1. at[i] = Done
      BY <2>5, <2>6
    <3> QED
      BY <2>1, <2>2, <3>1
  <2> QED
    BY <2>4, <2>5, <2>6 DEF OrderInv, Device
<1> QED
  BY <1>1, <1>2, NextIsStep

\* Before any pass every job waits.
LEMMA OrderInit == Init => OrderInv
  BY DEF Init, OrderInv

\* Whatever the layers of a segment are, if both implementations of each of
\* them pass their checks and match (LayersMatch says both), then the passes of
\* the whole segment hand out the same on the GPU as on the CPU: the output, the
\* gradient of the input and the gradient of every parameter are computed from
\* the same inputs, gradients and parameters.
THEOREM DevicesAlwaysAgree == Spec /\ LayersMatch => []DevicesAgree
<1> DEFINE Inv == TypeInv /\ CleanInv /\ GradsInv /\ OrderInv /\ LayersMatch
<1>1. Init /\ LayersMatch => Inv
  <2>1. LayersMatch => LayersSafe
    BY DEF LayersMatch, LayersSafe, MatchingLayers
  <2> QED
    BY <2>1, TypeInit, CleanInit, GradsInit, OrderInit
<1>2. Inv /\ [Next]_vars => Inv'
  <2>1. [Next]_vars => seg' = seg
    BY SegmentStays
  <2>2. LayersMatch /\ seg' = seg => LayersMatch'
    BY DEF LayersMatch
  <2> QED
    BY <2>1, <2>2, TypeStep, CleanStep, GradsStep, OrderStep
<1>3. Inv => DevicesAgree
  <2> SUFFICES ASSUME Inv, NEW e \in Data, at[<<"gpu", e>>] = Done
               PROVE  /\ \A r \in {"out", "gi"} :
                           Sources(result[<<"gpu", e>>][r]) = Sources(result[<<"cpu", e>>][r])
                      /\ \A k \in 1 .. Len(seg) : \A c \in GradCells(k) :
                           Sources(grads[<<"gpu", e>>][c]) = Sources(grads[<<"cpu", e>>][c])
    BY DEF DevicesAgree
  <2> DEFINE gpu == <<"gpu", e>>
             cpu == <<"cpu", e>>
  <2>1. gpu \in Jobs /\ cpu \in Jobs
    BY DEF Jobs
  <2>2. Device(gpu) = "gpu" /\ Device(cpu) = "cpu" /\ gpu[2] = e /\ cpu[2] = e
    BY DEF Device
  <2>3. at[gpu] = Done /\ at[gpu] # Idle
    BY DEF Done, Idle
  <2> HIDE DEF gpu, cpu
  <2>4. KnownToGpu /\ at[cpu] = Done
    BY <2>1, <2>2, <2>3 DEF OrderInv
  <2>5. Matches(seg) /\ IsSegment(seg)
    BY <2>4 DEF Matches, KnownToGpu, LayersMatch, CodeOf, TypeInv
  <2>6. \A v : Sources(v) = SourcesIn(seg, v)
    BY DEF Sources, SourcesIn
  <2>7. /\ ResultOk(seg, Done, e, result[gpu]) /\ ResultOk(seg, Done, e, result[cpu])
    BY <2>1, <2>2, <2>3, <2>4 DEF CleanInv
  <2>8. ASSUME NEW r \in {"out", "gi"} PROVE Sources(result[gpu][r]) = Sources(result[cpu][r])
    BY <2>5, <2>6, <2>7 DEF ResultOk
  <2>9. ASSUME NEW k \in 1 .. Len(seg), NEW c \in GradCells(k)
        PROVE  Sources(grads[gpu][c]) = Sources(grads[cpu][c])
    <3>1. PICK m \in AllOf(seg, k) :
            /\ SliceStarts(seg)[k] + m = c
            /\ IsFrom(seg, e, k, grads[gpu][c], BackwardEnd(seg, "gpu", k).gives[m])
      BY <2>1, <2>2, <2>3, CellWhenDone
    <3>2. PICK n \in AllOf(seg, k) :
            /\ SliceStarts(seg)[k] + n = c
            /\ IsFrom(seg, e, k, grads[cpu][c], BackwardEnd(seg, "cpu", k).gives[n])
      BY <2>1, <2>2, <2>4, CellWhenDone
    <3>3. m = n
      <4>1. SliceStarts(seg)[k] \in Nat /\ CodeOf(seg, k).len \in Nat
        <5>1. k \in 1 .. Len(seg) + 1
          BY <2>5 DEF IsSegment
        <5> QED
          BY <2>5, <5>1, StartsAreNatural, PassesArePrograms
      <4> QED
        BY <3>1, <3>2, <4>1 DEF AllOf
    <3>4. BackwardEnd(seg, "gpu", k).gives[n] = BackwardEnd(seg, "cpu", k).gives[n]
      <4>1. "gpu" \in {"cpu", "gpu"}
        OBVIOUS
      <4>2. \A i \in AllOf(seg, k) :
              BackwardEnd(seg, "gpu", k).gives[i] = BackwardEnd(seg, "cpu", k).gives[i]
        BY <2>5, <4>1, LayerOfMatching, Zenon
      <4> QED
        BY <4>2
    <3> QED
      BY <2>5, <2>6, <3>1, <3>2, <3>3, <3>4 DEF IsFrom
  <2> QED
    BY <2>8, <2>9 DEF gpu, cpu
<1> QED
  BY <1>1, <1>2, <1>3, PTL DEF Spec

=============================================================================
