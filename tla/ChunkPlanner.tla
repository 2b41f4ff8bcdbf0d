---------------------------- MODULE ChunkPlanner ----------------------------
(***************************************************************************)
(* The scheduler of the compute pool: how the rows of a batch are cut into *)
(* chunks and given to the workers.  Without measurements chunks are       *)
(* spread evenly; with measurements it predicts the time of a chunk with a *)
(* small model per worker and picks the plan whose slowest worker is       *)
(* fastest.  Times are integers, or Infinite, which is not less than the   *)
(* initial best time of the code.  Speeds are 1.0, as calibrate sets them  *)
(* for every core.                                                         *)
(***************************************************************************)
EXTENDS Integers, Sequences, FiniteSetsExt

CONSTANTS
  NumWorkers,       \* workers of the pool
  ChunksPerWorker,  \* MAX_CHUNKS_PER_WORKER, or half of it with a GPU
  Threshold,        \* TRAINING_THRESHOLD
  Totals,           \* rows of the batches
  Predictions,      \* functions size -> time that a mini model may compute
  Infinite          \* a time that is no number

ASSUME PlannerAssumption ==
  /\ NumWorkers \in Nat \ {0} /\ ChunksPerWorker \in Nat \ {0}
  /\ Threshold \in Nat \ {0}
  /\ Totals \subseteq Nat
  /\ \A p \in Predictions, total \in Totals : \A s \in 1 .. total :
       s \in DOMAIN p /\ p[s] \in Int \cup {Infinite}
  /\ Infinite \notin Int

VARIABLES
  training,     \* training_data: measurements of each worker
  predictor,    \* predictors: what the model of each worker predicts
  planned       \* history: the plan just made

vars == <<training, predictor, planned>>

Workers == 0 .. NumWorkers - 1

-----------------------------------------------------------------------------
(* split_into_chunks *)

Least(a, b) == IF a < b THEN a ELSE b

\* Faulty: a chunk starts after as many chunks of its own size.
SplitOwnSize(total, n) ==
  LET Size(i) == (total \div n) + (IF i <= total % n THEN 1 ELSE 0)
  IN [i \in 1 .. n |-> [start |-> (i - 1) * Size(i), size |-> Size(i)]]

\* The first total % n chunks get a row more; hence the sizes do not increase,
\* and the sort by size that follows in the code changes nothing.
Split(total, n) ==
  [i \in 1 .. n |->
     [start |-> (i - 1) * (total \div n) + Least(i - 1, total % n),
      size  |-> (total \div n) + (IF i <= total % n THEN 1 ELSE 0)]]

-----------------------------------------------------------------------------
(* Greedy assignment *)

Nothing == [w \in Workers |-> <<>>]

\* The first with the least key, or 0 if no key is finite.
FirstLeast(key) ==
  LET finite == {x \in DOMAIN key : key[x] # Infinite}
      least  == {x \in finite : \A y \in finite : key[x] <= key[y]}
  IN IF least = {} THEN 0 ELSE Min(least)

Plus(a, b) == IF a = Infinite \/ b = Infinite THEN Infinite ELSE a + b

\* The next chunk goes to the best worker.  cost[w][size] is what a chunk adds to
\* the load of a worker; ahead says whether it counts in the comparison already.
Give(dealt, c, cost, ahead) ==
  LET w == FirstLeast([v \in Workers |->
                         Plus(dealt.load[v], IF ahead THEN cost[v][c.size] ELSE 0)])
  IN [load  |-> [dealt.load EXCEPT ![w] = Plus(@, cost[w][c.size])],
      lists |-> [dealt.lists EXCEPT ![w] = Append(@, c)]]

NothingGiven == [load |-> [w \in Workers |-> 0], lists |-> Nothing]

Assign(chunks, cost, ahead) ==
  LET dealt[n \in 0 .. Len(chunks)] ==
        IF n = 0 THEN NothingGiven
        ELSE Give(dealt[n - 1], chunks[n], cost, ahead)
  IN dealt[Len(chunks)]

MaxChunks(total) == Least(total, NumWorkers * ChunksPerWorker)

-----------------------------------------------------------------------------
(* plan_fallback *)

\* greedy_assign compares what the workers have so far.
EvenAssign(total, n) ==
  Assign(Split(total, n), [w \in Workers |-> [size \in 1 .. total |-> size]], FALSE)

\* calculate_imbalance, times the square of the number of workers.
Imbalance(total, n) ==
  LET load == EvenAssign(total, n).load
      Far(w) == IF NumWorkers * load[w] < total THEN total - NumWorkers * load[w]
                ELSE NumWorkers * load[w] - total
      sum[k \in 0 .. NumWorkers] == IF k = 0 THEN 0 ELSE sum[k - 1] + Far(k - 1)
  IN sum[NumWorkers]

\* Of the plans with 1, 2, ... chunks, the first with the least imbalance.
Fallback(total) ==
  LET penalty == [n \in 1 .. MaxChunks(total) |-> Imbalance(total, n)]
  IN EvenAssign(total, FirstLeast(penalty)).lists

-----------------------------------------------------------------------------
(* plan_with_predictions *)

\* Faulty: a worker without a usable prediction is never chosen.
TimeOrNever(w, size) ==
  LET p == predictor[w][size] IN IF p = Infinite THEN p ELSE IF p > 0 THEN p ELSE Infinite

\* predict_time answers None for what is not positive; then the size counts.
Time(w, size) ==
  LET p == predictor[w][size] IN IF p = Infinite THEN p ELSE IF p > 0 THEN p ELSE size

\* assign_chunks_with_predictions compares what the workers would have.
TimedAssign(total, n) ==
  Assign(Split(total, n), [w \in Workers |-> [size \in 1 .. total |-> Time(w, size)]], TRUE)

Slowest(total, n) ==
  LET load == TimedAssign(total, n).load
  IN IF \E w \in Workers : load[w] = Infinite THEN Infinite
     ELSE Max({load[w] : w \in Workers})

\* The plan whose slowest worker is fastest; no plan at all if that is never.
Predicted(total) ==
  LET slowest == [n \in 1 .. MaxChunks(total) |-> Slowest(total, n)]
      n == FirstLeast(slowest)
  IN IF n = 0 THEN Nothing ELSE TimedAssign(total, n).lists

-----------------------------------------------------------------------------
(* Scheduler *)

NoPlan == [how |-> "none"]

\* A model is new, or loaded from the file an earlier process saved.
Init ==
  /\ training = [w \in Workers |-> 0]
  /\ predictor \in [Workers -> Predictions]
  /\ planned = NoPlan

\* A chunk of worker w has been measured; with the last of Threshold
\* measurements its model is trained and the measurements start again.
Report(w) ==
  /\ planned' = NoPlan
  /\ IF training[w] + 1 < Threshold
       THEN /\ training' = [training EXCEPT ![w] = @ + 1]
            /\ UNCHANGED predictor
       ELSE /\ training' = [training EXCEPT ![w] = 0]
            /\ \E p \in Predictions : predictor' = [predictor EXCEPT ![w] = p]

\* has_trained_model
HasTrainedModel == \E w \in Workers : training[w] > 0

PlanNone(total) ==
  /\ total = 0
  /\ planned' = [how |-> "empty", total |-> 0, lists |-> Nothing]
  /\ UNCHANGED <<training, predictor>>

PlanPredicted(total) ==
  /\ total > 0 /\ HasTrainedModel
  /\ planned' = [how |-> "predicted", total |-> total, lists |-> Predicted(total)]
  /\ UNCHANGED <<training, predictor>>

PlanFallback(total) ==
  /\ total > 0 /\ ~HasTrainedModel
  /\ planned' = [how |-> "fallback", total |-> total, lists |-> Fallback(total)]
  /\ UNCHANGED <<training, predictor>>

Next ==
  \/ \E w \in Workers : Report(w)
  \/ \E total \in Totals : PlanNone(total) \/ PlanPredicted(total) \/ PlanFallback(total)

Spec == Init /\ [][Next]_vars

-----------------------------------------------------------------------------
(* Properties *)

\* The chunks of a plan, as <<worker, place in its list>>.
Places(lists) == UNION {{w} \X DOMAIN lists[w] : w \in Workers}
RowsOf(lists, p) ==
  LET c == lists[p[1]][p[2]] IN c.start .. c.start + c.size - 1
Covered(lists) == UNION {RowsOf(lists, p) : p \in Places(lists)}

\* No row is given out twice, and no chunk is empty (extract_chunk asserts it).
NoRowTwice ==
  planned # NoPlan =>
    LET lists == planned.lists IN
      /\ \A p, q \in Places(lists) :
           p # q => RowsOf(lists, p) \cap RowsOf(lists, q) = {}
      /\ \A p \in Places(lists) : RowsOf(lists, p) # {}
      /\ Covered(lists) \subseteq 0 .. planned.total - 1

FiniteModel(w) == \A s \in DOMAIN predictor[w] : predictor[w][s] # Infinite

\* The plan covers the batch, whatever the models predict, as long as one of
\* them predicts no infinite time.  (If all do, the code keeps the empty plan it
\* began with, and the forward pass returns an output nobody wrote.)
PlanCovers ==
  [][(planned' \notin {planned, NoPlan} /\ \E w \in Workers : FiniteModel(w))
       => Covered(planned.lists)' = 0 .. planned'.total - 1]_vars

=============================================================================
