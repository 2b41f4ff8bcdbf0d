---------------------------- MODULE SyncOperator ----------------------------
(***************************************************************************)
(* MemoryOperatorV2 and CpuOperatorV2: submit executes the job in the      *)
(* caller's thread and leaves the result in `slots'; drain takes it out at *)
(* once and panics if it is not there.  That panic happens with the mutex  *)
(* of `slots' locked and poisons it: from then on every call that locks it *)
(* panics as well.                                                         *)
(***************************************************************************)
EXTENDS Naturals, FiniteSets, Maps

CONSTANTS
  Clients,      \* threads that use the operator
  Supported,    \* kinds of job the operator executes
  JobKinds,     \* kinds of job it is given
  MaxJobs,      \* bound on the jobs submitted
  MayPanic,     \* whether the execution of a job may panic
  Reuse         \* whether a client keeps a handle (it is Copy) after its use

ASSUME SyncConstantsAssumption ==
  /\ MaxJobs \in Nat
  /\ MayPanic \in BOOLEAN
  /\ Reuse \in BOOLEAN

VARIABLES
  nextId,       \* next_id
  slots,        \* results not yet taken
  poisoned,     \* a thread panicked while it held the lock of slots
  client,       \* what each client is doing
  held,         \* handles each client may use
  submitted,    \* history: job of every id drawn
  delivered     \* history: result that was taken for a handle

vars == <<nextId, slots, poisoned, client, held, submitted, delivered>>

\* A job, and whether its arguments are such that the operation accepts them.
Jobs == [kind : JobKinds, fits : BOOLEAN]
Ids == 0 .. MaxJobs - 1
Idle == [at |-> "idle"]
Panicked == [at |-> "panicked"]

\* execute, execute_migrate
Outcome(j) == [of |-> j.kind, failed |-> j.kind \notin Supported \/ ~j.fits]

Init ==
  /\ nextId = 0
  /\ slots = EmptyMap
  /\ poisoned = FALSE
  /\ client = [c \in Clients |-> Idle]
  /\ held = [c \in Clients |-> {}]
  /\ submitted = EmptyMap
  /\ delivered = EmptyMap

\* submit: next_id.fetch_add, before the job is executed.
DrawId(c, j) ==
  /\ client[c] = Idle /\ nextId < MaxJobs
  /\ nextId' = nextId + 1
  /\ submitted' = With(submitted, nextId, j)
  /\ client' = [client EXCEPT ![c] = [at |-> "executing", id |-> nextId]]
  /\ UNCHANGED <<slots, poisoned, held, delivered>>

\* Faulty: the job is executed with the slots locked.
ExecutePanicsLocked(c) ==
  /\ MayPanic /\ client[c].at = "executing"
  /\ client' = [client EXCEPT ![c] = Panicked]
  /\ poisoned' = TRUE
  /\ UNCHANGED <<nextId, slots, held, submitted, delivered>>

\* submit: the job panics, and the caller gets no handle.
ExecutePanics(c) ==
  /\ MayPanic /\ client[c].at = "executing"
  /\ client' = [client EXCEPT ![c] = Panicked]
  /\ UNCHANGED <<nextId, slots, poisoned, held, submitted, delivered>>

\* submit: the result goes into its slot and the handle to the caller.
Store(c) ==
  /\ client[c].at = "executing" /\ ~poisoned
  /\ slots' = With(slots, client[c].id, Outcome(submitted[client[c].id]))
  /\ held' = [held EXCEPT ![c] = @ \cup {client[c].id}]
  /\ client' = [client EXCEPT ![c] = Idle]
  /\ UNCHANGED <<nextId, poisoned, submitted, delivered>>

\* Any call that locks a poisoned mutex panics in its unwrap.
LockPanics(c) ==
  /\ poisoned
  /\ \/ client[c].at = "executing"
     \/ client[c] = Idle /\ held[c] # {}
  /\ client' = [client EXCEPT ![c] = Panicked]
  /\ UNCHANGED <<nextId, slots, poisoned, held, submitted, delivered>>

\* Faulty: the result stays in its slot, for a second drain.
TakeCopying(c, id) ==
  /\ client[c] = Idle /\ ~poisoned /\ id \in held[c] /\ id \in DOMAIN slots
  /\ delivered' = With(delivered, id, slots[id])
  /\ held' = IF Reuse THEN held ELSE [held EXCEPT ![c] = @ \ {id}]
  /\ UNCHANGED <<nextId, slots, poisoned, client, submitted>>

\* drain and try_drain of a result that is there.
Take(c, id) ==
  /\ client[c] = Idle /\ ~poisoned /\ id \in held[c] /\ id \in DOMAIN slots
  /\ delivered' = With(delivered, id, slots[id])
  /\ slots' = Without(slots, id)
  /\ held' = IF Reuse THEN held ELSE [held EXCEPT ![c] = @ \ {id}]
  /\ UNCHANGED <<nextId, poisoned, client, submitted>>

\* drain of a result that is not there: expect panics under the lock.
DrainPanics(c, id) ==
  /\ client[c] = Idle /\ ~poisoned /\ id \in held[c] /\ id \notin DOMAIN slots
  /\ poisoned' = TRUE
  /\ client' = [client EXCEPT ![c] = Panicked]
  /\ UNCHANGED <<nextId, slots, held, submitted, delivered>>

\* drain of a handle of another operator: assert_eq panics before the lock.
DrainForeign(c) ==
  /\ client[c] = Idle
  /\ client' = [client EXCEPT ![c] = Panicked]
  /\ UNCHANGED <<nextId, slots, poisoned, held, submitted, delivered>>

Next ==
  \E c \in Clients :
    \/ \E j \in Jobs : DrawId(c, j)
    \/ ExecutePanics(c)
    \/ Store(c)
    \/ LockPanics(c)
    \/ DrainForeign(c)
    \/ \E id \in held[c] : Take(c, id) \/ DrainPanics(c, id)

Spec == Init /\ [][Next]_vars

-----------------------------------------------------------------------------
(* Properties *)

\* If the mutex is poisoned, then a client has panicked that holds a handle
\* already answered.  A panic before the lock is taken, of a job or of the assert
\* on foreign handles, spares the other clients.
PoisonedByReuseOnly ==
  poisoned => \E c \in Clients :
                client[c] = Panicked /\ \E id \in DOMAIN delivered : id \in held[c]

Contract == INSTANCE OperatorContract WITH finished <- slots

\* The operator keeps the contract of OperatorV2, although its jobs run inside
\* submit: the result of a handle is the outcome of its own job, delivered once.
ContractKept == Contract!Spec

=============================================================================
