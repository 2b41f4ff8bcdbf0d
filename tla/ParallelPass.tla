---------------------------- MODULE ParallelPass ----------------------------
(***************************************************************************)
(* One forward and one backward pass of a CPU segment, split over the rows *)
(* of a batch (forward_universal_parallel, backward_universal_parallel),   *)
(* on the worker pool.  The dispatching thread hands in one task for every *)
(* logical worker that has chunks, waits for all of them and then merges.  *)
(* Which thread of the pool runs a task is not fixed.  A task locks the    *)
(* pool of temporary matrices from its first chunk to its last.            *)
(*                                                                         *)
(* A value is the row it was computed from.  Reading a shared buffer gives *)
(* a copy of the whole buffer and a write guard puts the whole copy back,  *)
(* so writing a chunk into a shared buffer takes two steps.                *)
(***************************************************************************)
EXTENDS WorkerPool, FiniteSetsExt

CONSTANTS
  BatchSize,    \* rows of the batch
  Dispatcher    \* the thread that runs the CPU operator's jobs

Rows == 0 .. BatchSize - 1
Passes == {"forward", "backward"}

ASSUME PassAssumption ==
  /\ BatchSize \in Nat \ {0}
  /\ Workers # {} /\ Workers = 0 .. Cardinality(Workers) - 1
  /\ Callers = {Dispatcher}
  /\ Tasks = Passes \X Workers

VARIABLES
  stage,        \* where the dispatching thread is
  unsent,       \* logical workers whose task is still to be handed in
  plan,         \* chunk id -> logical worker and rows
  rest,         \* chunk ids a running task still has to do
  holder,       \* {w} while worker w holds the mutex of the pool of matrices
  poisoned,     \* whether its holder panicked
  chunkOutputs, \* chunk id -> rows of its result
  contexts,     \* chunk id -> rows its saved contexts belong to
  output,       \* row -> {the row it was computed from}, {} before that
  tempGrads,    \* chunk id -> <<row, row of the context>> it summed up
  gradInput,    \* row -> {<<row, row of the context>>}, {} before that
  copy,         \* {gradInput as a worker's write guard copied it}
  gradParams    \* row -> how often its gradient is in the sum

dataVars == <<chunkOutputs, contexts, output, tempGrads, gradInput, copy, gradParams>>
passVars == <<stage, unsent, plan, rest, holder, poisoned, dataVars>>
vars == <<poolVars, passVars>>

ChunkIds == DOMAIN plan
NumWorkers == Cardinality(Workers)
Chunk == [worker : Workers, start : Rows, end : 1 .. BatchSize]
RowsOf(c) == c.start .. c.end - 1

\* Every assignment the scheduler may return: intervals that partition the rows,
\* in the order of the workers and of each worker's list.
Plans ==
  {p \in UNION {[0 .. k - 1 -> Chunk] : k \in 1 .. BatchSize} :
     /\ \A i \in DOMAIN p : p[i].start < p[i].end
     /\ \A i, j \in DOMAIN p : i < j => p[i].worker <= p[j].worker
     /\ \A i, j \in DOMAIN p : i # j => RowsOf(p[i]) \cap RowsOf(p[j]) = {}
     /\ UNION {RowsOf(p[i]) : i \in DOMAIN p} = Rows}

\* The chunks of a task: the scheduler's choice, or round robin over the ids.
ChunksOf(t) ==
  IF t[1] = "forward" THEN {i \in ChunkIds : plan[i].worker = t[2]}
  ELSE {i \in ChunkIds : i % NumWorkers = t[2]}
Busy(pass) == {w \in Workers : ChunksOf(<<pass, w>>) # {}}

Init ==
  /\ PoolInit
  /\ stage = "ready"
  /\ unsent = {}
  /\ plan = [i \in {} |-> i]
  /\ rest = [w \in Workers |-> {}]
  /\ holder = {}
  /\ poisoned = FALSE
  /\ chunkOutputs = [i \in {} |-> {}]
  /\ contexts = [i \in {} |-> {}]
  /\ output = [r \in Rows |-> {}]
  /\ tempGrads = [i \in {} |-> {}]
  /\ gradInput = [r \in Rows |-> {}]
  /\ copy = [w \in Workers |-> {}]
  /\ gradParams = [r \in Rows |-> 0]

Task(w) == worker[w].task
Running(w, pass) == worker[w].at = "running" /\ Task(w)[1] = pass

-----------------------------------------------------------------------------
(* The dispatching thread *)

BeginForward ==
  /\ stage = "ready" /\ life = "open"
  /\ plan' \in Plans
  /\ stage' = "forward"
  /\ unsent' = {plan'[i].worker : i \in DOMAIN plan'}
  /\ UNCHANGED <<poolVars, rest, holder, poisoned, dataVars>>

\* One task for every logical worker that has chunks, in their order; the first
\* half of execute.
Submit ==
  /\ stage \in Passes /\ unsent # {}
  /\ CountTask(Dispatcher, <<stage, Min(unsent)>>)
  /\ unsent' = unsent \ {Min(unsent)}
  /\ UNCHANGED <<stage, plan, rest, holder, poisoned, dataVars>>

\* Faulty: wait_all is called before the last task has been handed in.
WaitEarly ==
  /\ stage \in Passes /\ Cardinality(unsent) <= 1 /\ WaitCall(Dispatcher)
  /\ UNCHANGED passVars

WaitAll ==
  /\ stage \in Passes /\ unsent = {} /\ WaitCall(Dispatcher)
  /\ UNCHANGED passVars

Waited ==
  /\ WaitReturns(Dispatcher)
  /\ stage' = IF stage = "forward" THEN "merge forward" ELSE "merge backward"
  /\ UNCHANGED <<unsent, plan, rest, holder, poisoned, dataVars>>

\* Faulty: the chunk's rows are taken from the chunk before it in the plan.
MergeShifted ==
  /\ stage = "merge forward" /\ caller[Dispatcher] = Idle /\ holder = {} /\ ~poisoned
  /\ output' = [r \in Rows |->
       {r} \cap UNION {chunkOutputs[i] : i \in {j \in DOMAIN chunkOutputs :
                          j + 1 \in ChunkIds /\ r \in RowsOf(plan[j + 1])}}]
  /\ chunkOutputs' = [i \in {} |-> {}]
  /\ stage' = "between"
  /\ UNCHANGED <<poolVars, unsent, plan, rest, holder, poisoned, contexts, tempGrads,
                 gradInput, copy, gradParams>>

\* The outputs of the chunks are written to the output in the order of the plan.
Merge ==
  /\ stage = "merge forward" /\ caller[Dispatcher] = Idle /\ holder = {} /\ ~poisoned
  /\ output' = [r \in Rows |->
       {r} \cap UNION {chunkOutputs[i] : i \in {j \in DOMAIN chunkOutputs :
                          r \in RowsOf(plan[j])}}]
  /\ chunkOutputs' = [i \in {} |-> {}]
  /\ stage' = "between"
  /\ UNCHANGED <<poolVars, unsent, plan, rest, holder, poisoned, contexts, tempGrads,
                 gradInput, copy, gradParams>>

\* backward starts with the saved layout: a buffer of gradients for each chunk.
BeginBackward ==
  /\ stage = "between" /\ life = "open" /\ ~poisoned
  /\ tempGrads' = [i \in ChunkIds |-> {}]
  /\ stage' = "backward"
  /\ unsent' = Busy("backward")
  /\ UNCHANGED <<poolVars, plan, rest, holder, poisoned, chunkOutputs, contexts, output,
                 gradInput, copy, gradParams>>

\* The parameters' gradient is zeroed and the chunks' gradients added up.
SumGrads ==
  /\ stage = "merge backward" /\ caller[Dispatcher] = Idle /\ holder = {} /\ ~poisoned
  /\ gradParams' = [r \in Rows |-> Cardinality({i \in ChunkIds : <<r, r>> \in tempGrads[i]})]
  /\ stage' = "done"
  /\ UNCHANGED <<poolVars, unsent, plan, rest, holder, poisoned, chunkOutputs, contexts,
                 output, tempGrads, gradInput, copy>>

-----------------------------------------------------------------------------
(* The tasks *)

Start(w) ==
  /\ Receive(w)
  /\ rest' = [rest EXCEPT ![w] = ChunksOf(Head(channel).task)]
  /\ UNCHANGED <<stage, unsent, plan, holder, poisoned, dataVars>>

\* Faulty: the tasks share the lock.
LockPoolShared(w) ==
  /\ worker[w].at = "running" /\ w \notin holder /\ ~poisoned /\ rest[w] # {}
  /\ holder' = holder \cup {w}
  /\ UNCHANGED <<poolVars, stage, unsent, plan, rest, poisoned, dataVars>>

\* shared.pool.lock(): for the whole task.
LockPool(w) ==
  /\ worker[w].at = "running" /\ holder = {} /\ ~poisoned /\ rest[w] # {}
  /\ holder' = {w}
  /\ UNCHANGED <<poolVars, stage, unsent, plan, rest, poisoned, dataVars>>

Next1(w) == Min(rest[w])

\* Faulty: results are stored under the place of the chunk in its task's list.
ForwardChunkLocal(w) ==
  LET i == Next1(w)
      k == Cardinality(ChunksOf(Task(w)) \ rest[w]) IN
  /\ Running(w, "forward") /\ w \in holder /\ rest[w] # {}
  /\ chunkOutputs' = [j \in DOMAIN chunkOutputs \cup {i} |->
                        IF j = i THEN RowsOf(plan[i]) ELSE chunkOutputs[j]]
  /\ contexts' = [j \in DOMAIN contexts \cup {k} |->
                    IF j = k THEN RowsOf(plan[i]) ELSE contexts[j]]
  /\ rest' = [rest EXCEPT ![w] = @ \ {i}]
  /\ UNCHANGED <<poolVars, stage, unsent, plan, holder, poisoned, output, tempGrads,
                 gradInput, copy, gradParams>>

\* extract_chunk, the layers, and the result and the contexts under the chunk's id.
ForwardChunk(w) ==
  LET i == Next1(w) IN
  /\ Running(w, "forward") /\ w \in holder /\ rest[w] # {}
  /\ chunkOutputs' = [j \in DOMAIN chunkOutputs \cup {i} |->
                        IF j = i THEN RowsOf(plan[i]) ELSE chunkOutputs[j]]
  /\ contexts' = [j \in DOMAIN contexts \cup {i} |->
                    IF j = i THEN RowsOf(plan[i]) ELSE contexts[j]]
  /\ rest' = [rest EXCEPT ![w] = @ \ {i}]
  /\ UNCHANGED <<poolVars, stage, unsent, plan, holder, poisoned, output, tempGrads,
                 gradInput, copy, gradParams>>

\* The gradients of a chunk's rows, each with the context row it met.
Grads(i) == {g \in RowsOf(plan[i]) \X Rows :
               i \in DOMAIN contexts /\ g[2] \in contexts[i]
                 /\ g[2] - Min(contexts[i]) = g[1] - plan[i].start}

\* The layers of a chunk from last to first; then write_chunk copies grad_input.
BackwardChunk(w) ==
  LET i == Next1(w) IN
  /\ Running(w, "backward") /\ w \in holder /\ rest[w] # {} /\ copy[w] = {}
  /\ tempGrads' = [tempGrads EXCEPT ![i] = Grads(i)]
  /\ copy' = [copy EXCEPT ![w] = {gradInput}]
  /\ UNCHANGED <<poolVars, stage, unsent, plan, rest, holder, poisoned, chunkOutputs,
                 contexts, output, gradInput, gradParams>>

\* The guard is dropped: the copy with the chunk's rows replaces grad_input.
WriteBack(w) ==
  LET i == Next1(w) IN
  /\ Running(w, "backward") /\ copy[w] # {}
  /\ gradInput' = [r \in Rows |->
       IF r \in RowsOf(plan[i]) THEN {g \in tempGrads[i] : g[1] = r}
       ELSE UNION {b[r] : b \in copy[w]}]
  /\ copy' = [copy EXCEPT ![w] = {}]
  /\ rest' = [rest EXCEPT ![w] = @ \ {i}]
  /\ UNCHANGED <<poolVars, stage, unsent, plan, holder, poisoned, chunkOutputs, contexts,
                 output, tempGrads, gradParams>>

\* Faulty: a task ends with the mutex locked.
EndTaskKeeping(w) ==
  /\ TaskEnds(w) /\ rest[w] = {}
  /\ w \in holder
  /\ UNCHANGED passVars

EndTask(w) ==
  /\ TaskEnds(w) /\ rest[w] = {}
  /\ w \in holder
  /\ holder' = holder \ {w}
  /\ UNCHANGED <<stage, unsent, plan, rest, poisoned, dataVars>>

\* A layer panics, or the lock does because another task panicked under it.  An
\* unwinding task drops its write guard, which writes the copy back as it is.
Panic(w) ==
  /\ TaskPanics(w)
  /\ holder' = holder \ {w}
  /\ poisoned' = (poisoned \/ w \in holder)
  /\ gradInput' \in IF copy[w] = {} THEN {gradInput} ELSE copy[w]
  /\ copy' = [copy EXCEPT ![w] = {}]
  /\ UNCHANGED <<stage, unsent, plan, rest, chunkOutputs, contexts, output, tempGrads,
                 gradParams>>

-----------------------------------------------------------------------------
DispatcherStep ==
  \/ BeginForward
  \/ Submit
  \/ SendTask(Dispatcher) /\ UNCHANGED passVars
  \/ WaitAll
  \/ Waited
  \/ Merge
  \/ BeginBackward
  \/ SumGrads

PassWorkerStep(w) ==
  \/ (LockReceiver(w) \/ ReceiveNone(w) \/ CountDown(w)) /\ UNCHANGED passVars
  \/ Start(w)
  \/ LockPool(w)
  \/ ForwardChunk(w)
  \/ BackwardChunk(w)
  \/ WriteBack(w)
  \/ EndTask(w)
  \/ Panic(w)

\* The executor is dropped between passes.
DropPool ==
  \/ DropSends /\ UNCHANGED passVars /\ stage \in {"ready", "between", "done"}
  \/ DropJoined /\ UNCHANGED passVars

Next ==
  \/ DispatcherStep
  \/ \E w \in Workers : PassWorkerStep(w)
  \/ DropPool

\* The threads are scheduled, layers terminate, and somebody gets a free mutex.
Fairness ==
  /\ WF_vars(DispatcherStep /\ stage # "ready" /\ stage # "between")
  /\ \A w \in Workers :
       WF_vars(\/ (ReceiveNone(w) \/ CountDown(w)) /\ UNCHANGED passVars
               \/ Start(w) \/ ForwardChunk(w) \/ BackwardChunk(w) \/ WriteBack(w)
               \/ EndTask(w))
  /\ WF_vars(\E w \in Workers : LockReceiver(w) /\ UNCHANGED passVars)
  /\ WF_vars(\E w \in Workers : LockPool(w))
  /\ WF_vars(DropPool /\ life = "joining")

Spec == Init /\ [][Next]_vars
FairSpec == Spec /\ Fairness

-----------------------------------------------------------------------------
(* Properties *)

\* No expect or unwrap of the dispatching thread can fail, although tasks may
\* panic: a task that is sent finds a worker alive, and when wait_all has returned
\* the output of every chunk is there and the pool of matrices can be locked.
ExpectsHold ==
  /\ caller[Dispatcher].at = "sending" => ~AllEnded
  /\ stage = "merge forward" => DOMAIN chunkOutputs = ChunkIds
  /\ stage \in {"merge forward", "between", "merge backward"} => holder = {} /\ ~poisoned

\* After the forward pass every row of the output comes from the same row of the
\* input, whatever the assignment and the interleaving, and the contexts saved
\* under a chunk's id are those of the rows the saved layout has for that id.
ForwardComplete ==
  stage \in {"between", "backward", "merge backward", "done"} =>
    /\ \A r \in Rows : output[r] = {r}
    /\ \A i \in ChunkIds : i \in DOMAIN contexts /\ contexts[i] = RowsOf(plan[i])

\* After the backward pass every row of grad_input is the gradient of that row
\* with its own context.  write_chunk copies the whole shared buffer and writes
\* it back: without the mutex that a task holds, rows would be lost.
GradInputComplete ==
  stage \in {"merge backward", "done"} => \A r \in Rows : gradInput[r] = {<<r, r>>}

\* The parameters' gradient holds every row of the batch exactly once.
EveryRowOnce == stage = "done" => \A r \in Rows : gradParams[r] = 1

\* A pass that was begun ends, unless a task panics: no wait for a mutex, for a
\* task or for a count that is never given back.
PassEnds ==
  stage \in Passes \cup {"merge forward", "merge backward"}
    ~> stage \in {"between", "done"} \/ \E w \in Workers : worker[w].at = "dead"

=============================================================================
