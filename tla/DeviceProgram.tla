--------------------------- MODULE DeviceProgram ---------------------------
(***************************************************************************)
(* The vocabulary of the layer code, and nothing of any layer.  A forward  *)
(* or backward pass of a layer is a sequence of operations on named        *)
(* buffers: allocate a handle, take and give back a temporary, compute on  *)
(* the host under the lock of the memory, dispatch a kernel and wait for   *)
(* its fence.  Data are abstracted to where they come from: a buffer holds *)
(* the set of the inputs, gradients and parameters that went into it.      *)
(*                                                                         *)
(* Operands are tuples: <<"v">> a buffer of the pass, P(..) a part of the  *)
(* layer's slice of the parameters, G(..) a part of its gradients, S(..)   *)
(* state that outlives the pass; Sized(v, len) is a buffer of the pass of  *)
(* which the length matters, Nth(v, n) one of a row of buffers.  Inside a  *)
(* kernel B(i) is what is bound at i, Part(i, ..) and Slot(i, n) are parts *)
(* of it and Pushed(x) is what came by push constants.                     *)
(***************************************************************************)
EXTENDS Integers, Sequences, FiniteSets, SequencesExt, TLC

CONSTANTS
  Batch,     \* rows of a batch
  In, Out,   \* features of a layer's input and output
  LocalSize  \* invocations of a workgroup: local_size_x of every shader

ASSUME DimsAssumption ==
  /\ Batch \in Nat \ {0} /\ In \in Nat \ {0} /\ Out \in Nat \ {0}
  /\ LocalSize \in Nat \ {0}

-----------------------------------------------------------------------------
(* Operands *)

X == <<"x">>             \* input of the layer
Y == <<"y">>             \* its output
GradOut == <<"go">>      \* gradient of the output
GradIn == <<"gi">>       \* gradient of the input
Target == <<"t">>        \* the targets of a batch, for a loss

P(role, from, len) == <<"p", role, from, len>>
G(role, from, len) == <<"d", role, from, len>>
S(key) == <<"s", key>>
Sized(v, len) == <<v, "len", len>>
\* The buffer v of one head, or of one step of a sequence.
Nth(v, n) == <<v, "nth", n>>
Local(x) == Len(x) \in {1, 3}

\* MatrixBufferView::new(params_handle, slice.start + from, len), and the same
\* of grad_params_handle: what is in them is known to the shader only.
ParamsView(from, len) == P("", from, len)
GradsView(from, len) == G("", from, len)
\* A view of which the host reads what it knows to be the role.
As(role, view) == <<view[1], role, view[3], view[4]>>

\* Parts of these lengths, one after the other: where each starts.
Starts(lengths) ==
  [n \in DOMAIN lengths |-> FoldSeq(+, 0, SubSeq(lengths, 1, n - 1))]

B(i) == <<i>>
Part(i, role, from, len) == <<i, role, from, len>>
\* Step n of what is bound at i: a buffer of a sequence is that of its steps.
Slot(i, n) == <<i, "slot", n>>
Pushed(x) == <<"push", x>>
\* The number 1, where it matters that it is there.
One == <<"c", "one">>

-----------------------------------------------------------------------------
(* Effects: to becomes a function of from, has one added to it, becomes    *)
(* one unless it is there already (an entry of a map of states), or        *)
(* becomes the product of what is in from, of which 1 is no part.          *)

Set(to, from) == [to |-> to, from |-> from, mode |-> "set"]
Add(to, from) == [to |-> to, from |-> from, mode |-> "add"]
Once(to, from) == [to |-> to, from |-> from, mode |-> "once"]
Product(to, from) == [to |-> to, from |-> from, mode |-> "product"]
Zero(to) == Set(to, {})

-----------------------------------------------------------------------------
(* Operations *)

New(v) == <<[op |-> "new", var |-> v]>>
Temp(v) == <<[op |-> "temp", var |-> v]>>
\* release_temp_buffer(buffer, raw): the raw id is the one taken with raw.
FreeAs(v, raw) == <<[op |-> "free", var |-> v, raw |-> raw]>>
Free(v) == FreeAs(v, v)
News(vs) == FlattenSeq([i \in DOMAIN vs |-> New(vs[i])])
Temps(vs) == FlattenSeq([i \in DOMAIN vs |-> Temp(vs[i])])
Frees(vs) == FlattenSeq([i \in DOMAIN vs |-> Free(vs[i])])
Swap(a, b) == <<[op |-> "swap", var |-> a, with |-> b]>>
Do(effects) == <<[op |-> "do", effects |-> effects]>>
\* The context of the pass keeps these buffers; the others are dropped.
Keep(vs) == <<[op |-> "keep", vars |-> vs]>>
\* What is under these names goes into the map FORWARD_CACHE; what is there
\* comes back under them.  Buffers in the map outlive the forward pass as those
\* of the context do.
InsertCached(vs) == <<[op |-> "insert", vars |-> vs]>>
RemoveCached(vs) == <<[op |-> "remove", vars |-> vs]>>

\* The handle is allocated and filled in one go: upload, download, copy.
NewFrom(v, from) == New(v) \o Do({Set(v, from)})

-----------------------------------------------------------------------------
(* Pipelines and kernels *)

\* A pipeline: its storage buffers and the bytes of its push constants.
Layout(buffers, bytes) == [buffers |-> buffers, bytes |-> bytes]

\* A shader: its bindings, the 4-byte words of its push constants, how many
\* workgroups its work takes, what it does.
Kernel(buffers, words, groups, effects) ==
  [buffers |-> buffers, words |-> words, groups |-> groups,
   effects |-> effects]

Groups(invocations) == (invocations + LocalSize - 1) \div LocalSize

\* What operand x of a kernel is when bufs are bound.
Bound(bufs, x) ==
  CASE Len(x) = 1 -> bufs[x[1] + 1]
    [] Len(x) = 2 -> x[2]
    [] Len(x) = 3 -> Nth(bufs[x[1] + 1][1], x[3])
    [] OTHER      -> LET b == bufs[x[1] + 1]
                     IN IF Len(b) = 4
                          THEN <<b[1], x[2], b[3] + x[3], x[4]>>
                          ELSE b

BoundEffects(bufs, effects) ==
  {[to |-> Bound(bufs, e.to), mode |-> e.mode,
    from |-> {Bound(bufs, x) : x \in e.from}] : e \in effects}

\* A part stays inside the view, or the buffer of known length, that is bound.
Inside(bufs, x) ==
  Len(x) = 4 =>
    LET b == bufs[x[1] + 1]
    IN (Len(b) = 4 \/ (Len(b) = 3 /\ b[2] = "len")) => x[3] + x[4] <= b[Len(b)]

\* The dispatch has as many invocations as there is work.  One that has fewer
\* leaves what it does not get to as it was.
Covers(kernel, groups) == groups >= kernel.groups
Reached(kernel, groups) ==
  {e \in kernel.effects : Covers(kernel, groups)}
    \cup {[e EXCEPT !.mode = "add"] :
            e \in {f \in kernel.effects : ~Covers(kernel, groups)}}

\* The buffers bound, the layout of the pipeline and the shader agree, and
\* the dispatch covers the work.
Fits(layout, kernel, bufs, words, groups) ==
  /\ Len(bufs) = kernel.buffers /\ layout.buffers = kernel.buffers
  /\ words = kernel.words /\ layout.bytes = 4 * kernel.words
  /\ Covers(kernel, groups)
  /\ \A e \in kernel.effects : \A x \in e.from \cup {e.to} : Inside(bufs, x)

run_compute_shader_with_dispatch(layout, kernel, bufs, words, groups) ==
  <<[op |-> "call", effects |-> BoundEffects(bufs, Reached(kernel, groups)),
     covers |-> Covers(kernel, groups),
     fits |-> Fits(layout, kernel, bufs, words, groups)]>>

run_compute_shader(layout, kernel, bufs, words, total) ==
  run_compute_shader_with_dispatch(layout, kernel, bufs, words, Groups(total))

-----------------------------------------------------------------------------
(* Copies and fills of handles *)

copy_gpu_to_gpu(src, dst) == Do({Set(dst, {src})})
fill_gpu_handle(v) == Do({Zero(v)})

\* upload_vec_to_gpu_handle of zeros, copied over the view.
Cleared(view) ==
  New(<<"zero">>) \o Do({Zero(<<"zero">>)}) \o Do({Set(view, {<<"zero">>})})

\* One step of a layer on the CPU: slices of the handles it reads and writes
\* are taken under the lock of the memory.
with_cpu_slices_mut(effects) == Do(effects)

\* What a layer is to the machine: the length of its slice and its passes.
LayerCode(len, cpu_fwd, cpu_bwd, gpu_fwd, gpu_bwd) ==
  [len |-> len,
   cpu |-> [fwd |-> cpu_fwd, bwd |-> cpu_bwd],
   gpu |-> [fwd |-> gpu_fwd, bwd |-> gpu_bwd]]
\* A layer the processor of the GPU does not know.
CpuLayerCode(len, cpu_fwd, cpu_bwd) ==
  LayerCode(len, cpu_fwd, cpu_bwd, <<>>, <<>>)

=============================================================================
