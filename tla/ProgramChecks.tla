---------------------------- MODULE ProgramChecks ----------------------------
(***************************************************************************)
(* What can be told of a layer by reading its programs, one operation      *)
(* after the other: which temporary a name stands for, which buffers hold  *)
(* nothing but what was computed, where the gradient of the output has     *)
(* got to, and which of the layer's gradients are written over.            *)
(***************************************************************************)
EXTENDS DeviceProgram, Maps

\* std::mem::swap of what is under two names
Swapped(f, a, b) == [f EXCEPT ![a] = f[b], ![b] = f[a]]

-----------------------------------------------------------------------------
(* What an operation says of itself *)

Kinds == {"p", "d", "s", "c"}

Effects(o) == IF o.op \in {"call", "do"} THEN o.effects ELSE {}

\* A buffer of the pass is not named like a kind of operand.
IsOperand(x) == Local(x) <=> x[1] \notin Kinds

\* Reads what a pass may read, writes what it may write.  Gradients of
\* parameters are only written.
EffectFits(e, len) ==
  /\ \A x \in e.from : IsOperand(x) /\ x[1] # "d"
  /\ IsOperand(e.to) /\ (Local(e.to) \/ e.to[1] \in {"d", "s"})
  /\ e.to[1] = "d" =>
       e.to[3] \in Nat /\ e.to[4] \in Nat /\ e.to[3] + e.to[4] <= len

On(o, v) == {e \in Effects(o) : e.to = v}
Targets(o) == {v \in {e.to : e \in Effects(o)} : Local(v)}

\* Cells of the layer's slice of the gradients, counted from its start.
OnGrad(o, c) ==
  {e \in Effects(o) : e.to[1] = "d" /\ c \in e.to[3] .. e.to[3] + e.to[4] - 1}

AllAdd(effects) == \A e \in effects : e.mode = "add"

-----------------------------------------------------------------------------
(* What is known, and how an operation changes it:                         *)
(*   ok       every operation so far passed the check                      *)
(*   taken    which temporary each name stands for                         *)
(*   holds    of each buffer that holds nothing but what was computed: the *)
(*            operands it was computed from                                *)
(*   led      buffers computed from the gradient of the output             *)
(*   gives    of each gradient written over: the operands it was computed  *)
(*            from, and the roles it was written as                        *)
(*   reached  gradients computed from the gradient of the output           *)

Knows(taken, holds, led, gives, reached) ==
  [ok |-> TRUE, taken |-> taken, holds |-> holds, led |-> led, gives |-> gives,
   reached |-> reached]
Rejected == [ok |-> FALSE]

\* A pass begins with what it is given, and no temporary.
Begins(holds, led, gives) == Knows(EmptyMap, holds, led, gives, {})

IsClean(known, x) == Local(x) => x \in DOMAIN known.holds
FromClean(known, e) == \A x \in e.from : IsClean(known, x)
FromLed(known, e) == \E x \in e.from : x \in known.led

\* A temporary goes back as what it was taken as; what is exchanged was
\* computed; what outlives the pass is computed from what was.
OpFits(known, o, len) ==
  /\ o.op = "free" => o.var \in DOMAIN known.taken /\ known.taken[o.var] = o.raw
  /\ o.op = "swap" => {o.var, o.with} \subseteq DOMAIN known.holds
  /\ \A e \in Effects(o) :
       EffectFits(e, len) /\ (Local(e.to) \/ FromClean(known, e))

\* v is another buffer now.
Forget(known, v, taken) ==
  Knows(taken, Without(known.holds, v), known.led \ {v}, known.gives, known.reached)

Other(o, v) == IF v = o.var THEN o.with ELSE IF v = o.with THEN o.var ELSE v
Exchanged(known, o) ==
  Knows(Swapped(known.taken, o.var, o.with), Swapped(known.holds, o.var, o.with),
        {v \in known.led \cup {o.var, o.with} : Other(o, v) \in known.led},
        known.gives, known.reached)

KeptOf(known, vars) ==
  Knows(known.taken, Restrict(known.holds, DOMAIN known.holds \cap vars),
        known.led \cap vars, known.gives, known.reached)

\* What an operand was computed from.  The number 1 is no source of anything,
\* and what outlives the pass is not told by reading one.
Origins(known, x) ==
  IF Local(x) THEN known.holds[x] ELSE IF x = One \/ x[1] = "s" THEN {} ELSE {x}
OriginsOf(known, effects) ==
  UNION {Origins(known, x) : x \in UNION {e.from : e \in effects}}

\* The role the writer of a gradient thinks it has
RoleOf(e) == IF e.to[2] = "" THEN {} ELSE {<<"gradient of", e.to[2]>>}

Computed(known, o, len) ==
  Knows(known.taken,
        [v \in {w \in DOMAIN known.holds \cup Targets(o) :
                  /\ \A e \in On(o, w) : FromClean(known, e)
                  /\ w \in DOMAIN known.holds \/ ~AllAdd(On(o, w))} |->
           OriginsOf(known, On(o, v))
             \cup (IF AllAdd(On(o, v)) THEN known.holds[v] ELSE {})],
        {v \in known.led \cup Targets(o) :
           \/ \E e \in On(o, v) : FromLed(known, e)
           \/ v \in known.led /\ AllAdd(On(o, v))},
        [c \in {b \in 0 .. len - 1 : b \in DOMAIN known.gives \/ ~AllAdd(OnGrad(o, b))} |->
           OriginsOf(known, OnGrad(o, c)) \cup (UNION {RoleOf(e) : e \in OnGrad(o, c)})
             \cup (IF AllAdd(OnGrad(o, c)) THEN known.gives[c] ELSE {})],
        {c \in 0 .. len - 1 :
           \/ \E e \in OnGrad(o, c) : FromLed(known, e)
           \/ c \in known.reached /\ AllAdd(OnGrad(o, c))})

Changed(known, o, len) ==
  CASE o.op = "new"  -> Forget(known, o.var, known.taken)
    [] o.op = "temp" -> Forget(known, o.var, With(known.taken, o.var, o.var))
    [] o.op = "free" -> Forget(known, o.var, Without(known.taken, o.var))
    [] o.op = "swap" -> Exchanged(known, o)
    [] o.op = "keep" -> KeptOf(known, o.vars \cup {Y})
    \* What comes out of the cache is what the pass' own layer put there, or
    \* the pass is in error: OwnDataOnly of LayerRun.
    [] o.op \in {"insert", "remove"} -> known
    [] OTHER         -> Computed(known, o, len)

After(known, o, len) ==
  IF known.ok /\ OpFits(known, o, len) THEN Changed(known, o, len) ELSE Rejected

\* What is known after each number of operations.
Known(program, start, len) ==
  LET known[n \in 0 .. Len(program)] ==
        IF n = 0 THEN start ELSE After(known[n - 1], program[n], len)
  IN known

-----------------------------------------------------------------------------
(* The check of a layer *)

ForwardKnown(fwd, given, len) ==
  Known(fwd, Begins([v \in given |-> {v}], {}, EmptyMap), len)

\* What the context of a layer holds between its passes.
Saved(fwd, end) == IF Y \in fwd[Len(fwd)].vars THEN end.holds ELSE Without(end.holds, Y)

\* zeroed: the gradients that are zero when the pass begins
BackwardKnown(bwd, saved, zeroed, len) ==
  Known(bwd, Begins(With(saved, GradOut, {GradOut}), {GradOut}, [c \in zeroed |-> {}]), len)

\* What is known at the end of each pass of a layer; nothing of a backward
\* pass if the forward pass was rejected.
ForwardRead(passes, given, len) ==
  ForwardKnown(passes.fwd, given, len)[Len(passes.fwd)]
BackwardRead(passes, given, zeroed, len) ==
  LET end == ForwardRead(passes, given, len)
  IN IF end.ok
       THEN BackwardKnown(passes.bwd, Saved(passes.fwd, end), zeroed, len)[Len(passes.bwd)]
       ELSE Rejected

\* Temporaries are back, the output was computed.
ForwardEnds(end) == end.ok /\ end.taken = EmptyMap /\ Y \in DOMAIN end.holds

\* Temporaries are back; the gradient of the input was computed, from that of
\* the output, and so was each gradient of a parameter.
BackwardEnds(end, len) ==
  /\ end.ok /\ end.taken = EmptyMap
  /\ GradIn \in DOMAIN end.holds /\ GradIn \in end.led
  /\ 0 .. len - 1 \subseteq DOMAIN end.gives /\ 0 .. len - 1 \subseteq end.reached

EffectsOf(program) == UNION {Effects(program[n]) : n \in 1 .. Len(program)}

\* The entries of the state that something else than the state is computed from
Used(effects) ==
  {x[2] : x \in {y \in UNION {e.from : e \in {f \in effects : f.to[1] # "s"}} :
                   y[1] = "s"}}

\* are computed from parameters and one another only.
StatePrivate(effects) ==
  \A e \in effects :
    e.to[1] = "s" /\ e.to[2] \in Used(effects) =>
      \A x \in e.from : x[1] \in {"p", "c"} \/ (x[1] = "s" /\ x[2] \in Used(effects))

\* The forward pass puts into the cache what the backward pass takes from it,
\* once, under a slice of parameters of the layer's own.
Places(program, op) == {n \in 1 .. Len(program) : program[n].op = op}
CachePaired(passes, len) ==
  /\ Places(passes.fwd, "remove") = {} /\ Places(passes.bwd, "insert") = {}
  /\ Places(passes.fwd, "insert") # {} => len > 0
  /\ Places(passes.bwd, "remove") # {} => Places(passes.fwd, "insert") # {}
  /\ \A m, n \in Places(passes.bwd, "remove") : m = n

PassesChecked(passes, given, zeroed, len) ==
  /\ ForwardEnds(ForwardRead(passes, given, len))
  /\ BackwardEnds(BackwardRead(passes, given, zeroed, len), len)
  /\ CachePaired(passes, len)
PassesPrivate(passes) ==
  StatePrivate(EffectsOf(passes.fwd) \cup EffectsOf(passes.bwd))

\* On the GPU gradients are zero before the first layer; the processor may not
\* know the layer at all.  Only the GPU has the cache.
ZeroedOn(device, code) == IF device = "gpu" THEN 0 .. code.len - 1 ELSE {}
LayerChecked(code, given) ==
  /\ Places(code.cpu.fwd, "insert") = {} /\ Places(code.cpu.bwd, "remove") = {}
  /\ PassesChecked(code.cpu, given, ZeroedOn("cpu", code), code.len)
  /\ code.gpu.fwd # <<>> =>
       PassesChecked(code.gpu, given, ZeroedOn("gpu", code), code.len)

-----------------------------------------------------------------------------
(* The two implementations of a layer *)

\* Used state is computed from nothing but used state: it counts.
StateCounts(effects) ==
  \A e \in effects :
    e.to[1] = "s" /\ e.to[2] \in Used(effects) =>
      \A x \in e.from : x[1] = "s" /\ x[2] \in Used(effects)

\* Output, gradient of the input and gradients of the parameters are computed
\* from the same operands; the output from none of the backward pass.
LayerMatches(code, given) ==
  LET output(passes) == ForwardRead(passes, given, code.len).holds[Y]
      cpu == BackwardRead(code.cpu, given, ZeroedOn("cpu", code), code.len)
      gpu == BackwardRead(code.gpu, given, ZeroedOn("gpu", code), code.len)
  IN /\ output(code.cpu) = output(code.gpu) /\ GradOut \notin output(code.cpu)
     /\ cpu.holds[GradIn] = gpu.holds[GradIn]
     /\ \A c \in 0 .. code.len - 1 : cpu.gives[c] = gpu.gives[c]
     /\ \A passes \in {code.cpu, code.gpu} :
          StateCounts(EffectsOf(passes.fwd) \cup EffectsOf(passes.bwd))

\* The number 1 is an operand of no pass of the layer.
WithoutOne(code) ==
  \A passes \in {code.cpu, code.gpu} :
    \A e \in EffectsOf(passes.fwd) \cup EffectsOf(passes.bwd) : One \notin e.from

=============================================================================
