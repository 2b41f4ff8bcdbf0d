-------------------------- MODULE OperatorContract --------------------------
(***************************************************************************)
(* What an operator promises to the distributor (trait OperatorV2): submit *)
(* gives every job a handle of its own, the result that is delivered for a *)
(* handle is the outcome of the job the handle was given for, and it is    *)
(* delivered at most once.  When a job finishes, and whether it does if    *)
(* the operator's thread dies, is left open.                               *)
(***************************************************************************)
EXTENDS Maps

CONSTANTS
  Ids,           \* the handles' ids
  Jobs,          \* the jobs clients submit
  Outcome(_)     \* the JobResult of a job

VARIABLES
  submitted,     \* partial function: handle id -> job
  finished,      \* partial function: handle id -> result not yet delivered
  delivered      \* partial function: handle id -> result delivered

contractVars == <<submitted, finished, delivered>>

Init ==
  /\ submitted = EmptyMap
  /\ finished = EmptyMap
  /\ delivered = EmptyMap

Submit(id, j) ==
  /\ id \notin DOMAIN submitted
  /\ submitted' = With(submitted, id, j)
  /\ UNCHANGED <<finished, delivered>>

Finish(id) ==
  /\ id \in DOMAIN submitted \ (DOMAIN finished \cup DOMAIN delivered)
  /\ finished' = With(finished, id, Outcome(submitted[id]))
  /\ UNCHANGED <<submitted, delivered>>

Deliver(id) ==
  /\ id \in DOMAIN finished
  /\ delivered' = With(delivered, id, finished[id])
  /\ finished' = Without(finished, id)
  /\ UNCHANGED submitted

Next ==
  \/ \E id \in Ids, j \in Jobs : Submit(id, j)
  \/ \E id \in DOMAIN submitted : Finish(id)
  \/ \E id \in DOMAIN finished : Deliver(id)

Spec == Init /\ [][Next]_contractVars

=============================================================================
