------------------------------ MODULE LayerRun ------------------------------
(***************************************************************************)
(* The passes of a segment of layers, on the CPU and on the GPU.  Two      *)
(* chunks of a batch run on two threads of the pool, their operations in   *)
(* any order; then the same two pieces of data run through the same layers *)
(* on the GPU, one pass at a time, as its thread runs them, but passes of  *)
(* different batches in any order that keeps backward after forward.  A    *)
(* pass executes its layers in order (backward in reverse), each with its  *)
(* own part of the parameters and its own saved context.                   *)
(***************************************************************************)
EXTENDS ProgramChecks

CONSTANTS
  Programs,  \* of each layer and loss: the operations of its passes
  Losses,    \* the names of the losses
  Misfits,   \* dispatches that are known not to fit
  Segments,  \* the segments: sequences of layers
  Data,      \* the pieces of data: chunks, batches
  Ids,       \* the ids of handles
  \* Layers made to carry data from one pass to the next: Memory
  Remembering,
  \* Layers of which the two implementations do not agree: Memory, which starts
  \* anew with each pass on the CPU and stays on the GPU, and BatchRenorm out of
  \* training, where the GPU takes the statistics of the batch all the same
  Differing

IsProgram(p) == Len(p) \in Nat /\ DOMAIN p = 1 .. Len(p)

ASSUME LayersAssumption ==
  /\ \A l \in DOMAIN Programs :
       LET code == Programs[l]
       IN /\ code.len \in Nat
          /\ IsProgram(code.cpu.fwd) /\ IsProgram(code.cpu.bwd)
          /\ IsProgram(code.gpu.fwd) /\ IsProgram(code.gpu.bwd)
  /\ \A s \in Segments : s \in Seq(DOMAIN Programs) /\ s # <<>>
  /\ 0 \notin Ids

VARIABLES
  seg,      \* the segment of this behaviour
  at,       \* of each job: pass, layer and operation it is at
  mem,      \* of each job and layer: what its buffers hold
  bound,    \* of each job and layer: which temporary a name stands for
  grads,    \* of each job: what the cells of its grad_params hold
  state,    \* of each device: what outlives the passes
  input_id, \* of each job on the GPU: the id of the handle of its input
  forward_cache,  \* FORWARD_CACHE: the job that left each entry
  result,   \* history: what each pass left
  misfreed  \* history: temporaries given back under another's raw id

vars == <<seg, at, mem, bound, grads, state, input_id, forward_cache, result, misfreed>>

Jobs == {"cpu", "gpu"} \X Data

Device(j) == j[1]

-----------------------------------------------------------------------------
(* Where the parameters of the layers are *)

\* ParamStore: the slices of the layers follow one another.
SliceStarts(s) ==
  LET start[k \in 1 .. Len(s) + 1] ==
        IF k = 1 THEN 1 ELSE start[k - 1] + Programs[s[k - 1]].len
  IN start

Start == SliceStarts(seg)
ParamLen(k) == Programs[seg[k]].len

\* The cells of all layers, and one that belongs to none on either side.
Cells == 0 .. Start[Len(seg) + 1]

Program(j, pass, k) ==
  IF Device(j) = "cpu" THEN Programs[seg[k]].cpu[pass] ELSE Programs[seg[k]].gpu[pass]

-----------------------------------------------------------------------------
(* Values *)

Stale == <<"stale">>
Old == <<"old">>

Own(j) == {<<"x", j[2]>>, <<"go", j[2]>>, <<"t", j[2]>>}

Read(j, k, x) ==
  CASE Local(x) -> IF x \in DOMAIN mem[j][k] THEN mem[j][k][x] ELSE {Stale}
    [] x[1] = "p" -> {<<x[2], Start[k] + x[3], x[4]>>}
    [] x[1] = "d" -> UNION {grads[j][c] :
                              c \in Start[k] + x[3] .. Start[k] + x[3] + x[4] - 1}
    [] x[1] = "s" -> IF <<k, x[2]>> \in DOMAIN state[Device(j)]
                       THEN state[Device(j)][<<k, x[2]>>] ELSE {}
    [] x[1] = "c" -> {x}

Value(j, k, e) ==
  (UNION {Read(j, k, x) : x \in e.from})
    \ (IF e.mode = "product" THEN {One} ELSE {})

\* What role the writer of gradients thinks they have is kept with them.
GradValue(j, k, e) == Value(j, k, e) \cup RoleOf(e)

OnCell(k, c, e) ==
  e.to[1] = "d" /\ c \in Start[k] + e.to[3] .. Start[k] + e.to[3] + e.to[4] - 1

\* All effects of an operation read what was there before it.
GradsAfter(j, k, effects) ==
  [c \in Cells |->
     LET here == {e \in effects : OnCell(k, c, e)}
     IN (UNION {GradValue(j, k, e) : e \in here})
          \cup (IF \A e \in here : e.mode = "add" THEN grads[j][c] ELSE {})]

StateAfter(j, k, effects) ==
  LET here == {e \in effects : e.to[1] = "s"}
      old == state[Device(j)]
  IN [s \in DOMAIN old \cup {<<k, e.to[2]>> : e \in here} |->
        LET on == {e \in here : <<k, e.to[2]>> = s}
            new == {e \in on : e.mode # "once" \/ s \notin DOMAIN old}
        IN (UNION {Value(j, k, e) : e \in new})
             \cup (IF s \in DOMAIN old /\ \A e \in new : e.mode = "add"
                     THEN old[s] ELSE {})]

MemAfter(j, k, effects) ==
  LET here == {e \in effects : Local(e.to)}
      old == mem[j][k]
  IN [v \in DOMAIN old \cup {e.to : e \in here} |->
        LET on == {e \in here : e.to = v}
        IN (UNION {Value(j, k, e) : e \in on})
             \cup (IF v \in DOMAIN old /\ \A e \in on : e.mode = "add"
                     THEN old[v] ELSE {})]

-----------------------------------------------------------------------------
(* Passes *)

Idle == [pass |-> "idle"]
Between == [pass |-> "between"]
Done == [pass |-> "done"]
\* The context of a forward pass of validation or test is dropped.
Dropped == [pass |-> "dropped"]
\* The thread of the GPU has ended in a panic.
Panicked == [pass |-> "panicked"]
At(pass, k, i) == [pass |-> pass, layer |-> k, op |-> i]

InPass(j) == at[j].pass \in {"fwd", "bwd"}

\* The processor panics at the first layer it does not know.
KnownToGpu == \A k \in 1 .. Len(seg) : Programs[seg[k]].gpu.fwd # <<>>

\* The CPU jobs run together, then the GPU jobs one pass at a time.
MayBegin(j) ==
  Device(j) = "gpu" =>
    /\ KnownToGpu
    /\ \A i \in Jobs : Device(i) = "cpu" => at[i] = Done
    /\ \A i \in Jobs : Device(i) = "gpu" => ~InPass(i) /\ at[i] # Panicked

\* The targets of a batch are there for a loss before its pass begins.
Given(j, k) ==
  IF seg[k] \in Losses THEN With(EmptyMap, Target, {<<"t", j[2]>>})
  ELSE EmptyMap

\* A handle that exists has an id of its own; which ids a process has handed
\* out before does not matter.
HoldsInput(i) == Device(i) = "gpu" /\ at[i] \notin {Idle, Done, Dropped}
InputIds(j) ==
  IF Device(j) = "gpu" THEN Ids \ {input_id[i] : i \in {i \in Jobs : HoldsInput(i)}}
  ELSE {0}

Init ==
  /\ seg \in Segments
  /\ at = [j \in Jobs |-> Idle]
  /\ mem = [j \in Jobs |-> [k \in 1 .. Len(seg) |-> Given(j, k)]]
  /\ bound = [j \in Jobs |-> EmptyMap]
  /\ grads = [j \in Jobs |-> [c \in Cells |-> {Old}]]
  /\ state = [d \in {"cpu", "gpu"} |-> EmptyMap]
  /\ input_id = [j \in Jobs |-> 0]
  /\ forward_cache = EmptyMap
  /\ result = [j \in Jobs |-> EmptyMap]
  /\ misfreed = {}

\* process_forward_gpu_buffered, or the chunk's forward on the CPU
BeginForward(j) ==
  /\ at[j] = Idle /\ MayBegin(j)
  /\ at' = [at EXCEPT ![j] = At("fwd", 1, 1)]
  /\ mem' = [mem EXCEPT ![j][1] = With(@, X, {<<"x", j[2]>>})]
  /\ \E n \in InputIds(j) : input_id' = [input_id EXCEPT ![j] = n]
  /\ UNCHANGED <<seg, bound, grads, state, forward_cache, result, misfreed>>

\* process_backward_gpu_buffered fills the gradients with zero before the
\* first layer; on the CPU the layers set them.
BeginBackward(j) ==
  /\ at[j] = Between /\ MayBegin(j)
  /\ at' = [at EXCEPT ![j] = At("bwd", Len(seg), 1)]
  /\ mem' = [mem EXCEPT ![j][Len(seg)] = With(@, GradOut, {<<"go", j[2]>>})]
  /\ grads' = IF Device(j) = "gpu"
                THEN [grads EXCEPT ![j] = [c \in Cells |-> {}]] ELSE grads
  /\ UNCHANGED <<seg, bound, state, input_id, forward_cache, result, misfreed>>

\* A pass of validation or test goes no further: what it left in the cache
\* stays there.  On the CPU it leaves nothing.
Drop(j) ==
  /\ at[j] = Between /\ Device(j) = "gpu"
  /\ at' = [at EXCEPT ![j] = Dropped]
  /\ UNCHANGED <<seg, mem, bound, grads, state, input_id, forward_cache, result, misfreed>>

-----------------------------------------------------------------------------
(* Operations *)

ThisOp(j) == Program(j, at[j].pass, at[j].layer)[at[j].op]
Moved(j) == [at EXCEPT ![j].op = @ + 1]

HasOp(j, kinds) ==
  /\ InPass(j)
  /\ at[j].op <= Len(Program(j, at[j].pass, at[j].layer))
  /\ ThisOp(j).op \in kinds

\* What a new handle or temporary holds is what its last user left in it.
Allocate(j) ==
  /\ HasOp(j, {"new", "temp"})
  /\ LET o == ThisOp(j)
     IN /\ mem' = [mem EXCEPT ![j][at[j].layer] = With(@, o.var, {Stale})]
        /\ bound' = IF o.op = "temp"
                      THEN [bound EXCEPT ![j] = With(@, o.var, o.var)]
                      ELSE bound
  /\ at' = Moved(j)
  /\ UNCHANGED <<seg, grads, state, input_id, forward_cache, result, misfreed>>

Release(j) ==
  /\ HasOp(j, {"free"})
  /\ LET o == ThisOp(j)
     IN /\ misfreed' = IF o.var \in DOMAIN bound[j] /\ bound[j][o.var] = o.raw
                         THEN misfreed ELSE misfreed \cup {<<j, o.var>>}
        /\ mem' = [mem EXCEPT ![j][at[j].layer] = Without(@, o.var)]
        /\ bound' = [bound EXCEPT ![j] = Without(@, o.var)]
  /\ at' = Moved(j)
  /\ UNCHANGED <<seg, grads, state, input_id, forward_cache, result>>

\* std::mem::swap of two local variables
Exchange(j) ==
  /\ HasOp(j, {"swap"})
  /\ LET o == ThisOp(j)
         k == at[j].layer
     IN /\ mem' = [mem EXCEPT ![j][k] = Swapped(@, o.var, o.with)]
        /\ bound' = [bound EXCEPT ![j] = Swapped(@, o.var, o.with)]
  /\ at' = Moved(j)
  /\ UNCHANGED <<seg, grads, state, input_id, forward_cache, result, misfreed>>

\* A dispatch and its fence, or a step on the host.
Compute(j) ==
  /\ HasOp(j, {"call", "do"})
  /\ LET effects == ThisOp(j).effects
         k == at[j].layer
     IN /\ mem' = [mem EXCEPT ![j][k] = MemAfter(j, k, effects)]
        /\ grads' = [grads EXCEPT ![j] = GradsAfter(j, k, effects)]
        /\ state' = [state EXCEPT ![Device(j)] = StateAfter(j, k, effects)]
  /\ at' = Moved(j)
  /\ UNCHANGED <<seg, bound, input_id, forward_cache, result, misfreed>>

\* The context takes what it keeps; the output goes on to the next layer.
Save(j) ==
  /\ HasOp(j, {"keep"})
  /\ LET k == at[j].layer
     IN mem' = [mem EXCEPT ![j][k] =
                  Restrict(@, DOMAIN @ \cap (ThisOp(j).vars \cup {Y}))]
  /\ at' = Moved(j)
  /\ UNCHANGED <<seg, bound, grads, state, input_id, forward_cache, result, misfreed>>

\* Mutant: the key is without the id of the input.
cache_key_of_layer(offset, id) == <<offset, 0>>

\* (offset of the slice in the parent buffer of parameters, id of the input)
cache_key(offset, id) == <<offset, id>>
KeyOf(j) == cache_key(Start[at[j].layer], input_id[j])

\* An entry holds handles of the pass' buffers; it takes the place of what was
\* under the key.
PutCache(j) ==
  /\ HasOp(j, {"insert"})
  /\ forward_cache' = With(forward_cache, KeyOf(j), j)
  /\ at' = Moved(j)
  /\ UNCHANGED <<seg, mem, bound, grads, state, input_id, result, misfreed>>

\* Under the names of vars what is in the other memory, the rest as it is.
Taken(m, other, names) ==
  [v \in (DOMAIN m \ names) \cup (DOMAIN other \cap names) |->
     IF v \in names THEN other[v] ELSE m[v]]

\* The handles of its own entry are those that a pass has.  No entry is a
\* panic: expect.  The asserts on batch, seq_len and d_model compare the entry
\* with the pass, and all passes here are of one shape.
TakeCache(j) ==
  /\ HasOp(j, {"remove"})
  /\ LET k == at[j].layer
         owner == forward_cache[KeyOf(j)]
     IN IF KeyOf(j) \in DOMAIN forward_cache
          THEN /\ mem' = IF owner = j THEN mem
                         ELSE [mem EXCEPT ![j][k] =
                                 Taken(@, mem[owner][k], ThisOp(j).vars)]
               /\ forward_cache' = Without(forward_cache, KeyOf(j))
               /\ at' = Moved(j)
          ELSE /\ at' = [at EXCEPT ![j] = Panicked]
               /\ UNCHANGED <<mem, forward_cache>>
  /\ UNCHANGED <<seg, bound, grads, state, input_id, result, misfreed>>

AtEnd(j) ==
  InPass(j) /\ at[j].op > Len(Program(j, at[j].pass, at[j].layer))

\* The output of a layer is the input of the next.  The output stays in the
\* context only if the layer keeps it.
Kept(k, device) ==
  LET p == IF device = "cpu" THEN Programs[seg[k]].cpu.fwd ELSE Programs[seg[k]].gpu.fwd
  IN p[Len(p)].vars

NextForward(j) ==
  /\ AtEnd(j) /\ at[j].pass = "fwd"
  /\ LET k == at[j].layer
         out == Read(j, k, Y)
         saved == IF Y \in Kept(k, Device(j)) THEN mem[j][k]
                  ELSE Without(mem[j][k], Y)
     IN IF k < Len(seg)
          THEN /\ mem' = [mem EXCEPT ![j][k] = saved,
                                     ![j][k + 1] = With(@, X, out)]
               /\ at' = [at EXCEPT ![j] = At("fwd", k + 1, 1)]
               /\ result' = result
          ELSE /\ mem' = [mem EXCEPT ![j][k] = saved]
               /\ at' = [at EXCEPT ![j] = Between]
               /\ result' = [result EXCEPT ![j] = With(@, "out", out)]
  /\ UNCHANGED <<seg, bound, grads, state, input_id, forward_cache, misfreed>>

NextBackward(j) ==
  /\ AtEnd(j) /\ at[j].pass = "bwd"
  /\ LET k == at[j].layer
         gi == Read(j, k, GradIn)
     IN IF k > 1
          THEN /\ mem' = [mem EXCEPT ![j][k] = EmptyMap,
                                     ![j][k - 1] = With(@, GradOut, gi)]
               /\ at' = [at EXCEPT ![j] = At("bwd", k - 1, 1)]
               /\ result' = result
          ELSE /\ mem' = [mem EXCEPT ![j][k] = EmptyMap]
               /\ at' = [at EXCEPT ![j] = Done]
               /\ result' = [result EXCEPT ![j] = With(@, "gi", gi)]
  /\ UNCHANGED <<seg, bound, grads, state, input_id, forward_cache, misfreed>>

Next ==
  \E j \in Jobs :
    \/ BeginForward(j) \/ BeginBackward(j) \/ Drop(j)
    \/ Allocate(j) \/ Release(j) \/ Exchange(j) \/ Compute(j) \/ Save(j)
    \/ PutCache(j) \/ TakeCache(j)
    \/ NextForward(j) \/ NextBackward(j)

Spec == Init /\ [][Next]_vars

-----------------------------------------------------------------------------
(* Properties *)

Results(j) == {result[j][r] : r \in DOMAIN result[j]}
\* The series of Mamba begins with 1 on the GPU and without it on the CPU.
Sources(v) == IF \E k \in DOMAIN seg : seg[k] = "Mamba" THEN v \ {One} ELSE v
GradCells(k) == Start[k] .. Start[k] + ParamLen(k) - 1

\* Layers with a dispatch that is known not to cover its work
Uncovering ==
  {l \in DOMAIN Programs :
     LET code == Programs[l]
     IN \E p \in {code.cpu.fwd, code.cpu.bwd, code.gpu.fwd, code.gpu.bwd} :
          \E n \in 1 .. Len(p) : p[n].op = "call" /\ ~p[n].covers /\ p[n] \in Misfits}
NoneOf(layers) == \A k \in 1 .. Len(seg) : seg[k] \notin layers

\* No pass uses what the last user of a buffer left in it: whatever a layer
\* hands out, gradients of parameters included, was computed.
NothingStale ==
  NoneOf(Uncovering) => \A j \in Jobs :
    /\ \A v \in Results(j) : Stale \notin v
    /\ at[j] = Done => \A c \in Cells : Stale \notin grads[j][c]

\* What a pass hands out depends on its own data and on no other pass of the
\* same layers, even where the layer keeps state between passes, or finds it in
\* a map all passes share; only layers made to remember do.  A backward pass
\* finds what its own forward pass has left in the map.
OwnDataOnly ==
  /\ \A j \in Jobs : at[j] # Panicked
  /\ NoneOf(Remembering) => \A j \in Jobs, i \in Jobs :
       i[2] # j[2] =>
         /\ \A v \in Results(j) : v \cap Own(i) = {}
         /\ \A c \in Cells : grads[j][c] \cap Own(i) = {}

\* After the backward pass every cell of every layer's slice was written from
\* this pass' gradient, over whatever was there, and no cell outside.
GradsComplete ==
  \A j \in Jobs :
    at[j] = Done =>
      /\ \A k \in 1 .. Len(seg) : \A c \in GradCells(k) :
           <<"go", j[2]>> \in grads[j][c] /\ Old \notin grads[j][c]
      /\ \A c \in Cells :
           (\A k \in 1 .. Len(seg) : c \notin GradCells(k))
             => grads[j][c] \subseteq {Old}

\* The two implementations of a layer compute from the same things: output,
\* gradient of the input, gradient of every parameter.
DevicesAgree ==
  NoneOf(Differing) /\ NoneOf(Uncovering) => \A d \in Data :
    at[<<"gpu", d>>] = Done =>
      /\ \A r \in {"out", "gi"} :
           Sources(result[<<"gpu", d>>][r]) = Sources(result[<<"cpu", d>>][r])
      /\ \A k \in 1 .. Len(seg) : \A c \in GradCells(k) :
           Sources(grads[<<"gpu", d>>][c]) = Sources(grads[<<"cpu", d>>][c])

\* Temporaries go back, each under its own raw id.
TempsReturned ==
  /\ misfreed = {}
  /\ \A j \in Jobs : ~InPass(j) => bound[j] = EmptyMap

\* The buffers bound, the layout of the pipeline and the shader agree in
\* number and in push constants, parts stay inside the views, and the
\* workgroups cover the work, but for the misfits that are known.
CallsFit(program) ==
  \A n \in 1 .. Len(program) :
    program[n].op = "call" => (program[n].fits <=> program[n] \notin Misfits)
AllFit(code) ==
  \A p \in {code.cpu.fwd, code.cpu.bwd, code.gpu.fwd, code.gpu.bwd} : CallsFit(p)

\* What reading the programs of a layer tells, before any runs.
GivenTo(l) == {X} \cup IF l \in Losses THEN {Target} ELSE {}
CheckedLayers ==
  {l \in DOMAIN Programs :
     LET code == Programs[l]
     IN /\ LayerChecked(code, GivenTo(l)) /\ AllFit(code)
        /\ l \in Remembering \/ (PassesPrivate(code.cpu) /\ PassesPrivate(code.gpu))}

\* What reading the programs of both devices side by side tells.  Only the
\* series of Mamba has the number 1.
MatchingLayers ==
  {l \in CheckedLayers :
     Programs[l].gpu.fwd # <<>> =>
       /\ LayerMatches(Programs[l], GivenTo(l))
       /\ l = "Mamba" \/ WithoutOne(Programs[l])}

\* Each layer passes the check; that alone makes any row of them safe.
LayersSafe == \A k \in 1 .. Len(seg) : seg[k] \in CheckedLayers
\* The implementations of each match; that alone makes those of a row match.
LayersMatch == \A k \in 1 .. Len(seg) : seg[k] \in MatchingLayers

\* Both, of every layer but those known to be otherwise: what a dispatch that
\* does not cover its work computes is not known, and the implementations of
\* some do not agree.
LayersChecked ==
  \A k \in 1 .. Len(seg) :
    /\ AllFit(Programs[seg[k]])
    /\ seg[k] \in CheckedLayers \/ seg[k] \in Uncovering
    /\ seg[k] \in MatchingLayers \/ seg[k] \in Differing \/ seg[k] \in Uncovering

=============================================================================
