----------------------------- MODULE GpuOperator -----------------------------
(***************************************************************************)
(* GpuOperatorV2 with its queue and its dedicated thread.  Any number of   *)
(* threads (the clients) share the operator as Arc<dyn OperatorV2>: they   *)
(* submit jobs through an mpsc channel to the one GPU thread, which stores *)
(* each result in `slots' under a mutex and then signals a condition       *)
(* variable; drain waits for the result of one handle, try_drain asks for  *)
(* it once.  A job that panics kills the thread and drops the channel.     *)
(*                                                                         *)
(* The steps are those that other threads can tell apart: submit draws its *)
(* id before it sends, the thread stores before it notifies.  A pass of    *)
(* drain's loop is one step because the mutex is held from the test to the *)
(* wait.  try_drain that finds nothing and capacity change nothing and are *)
(* not actions.                                                            *)
(***************************************************************************)
EXTENDS Naturals, Sequences, FiniteSets, Maps

CONSTANTS
  Clients,      \* threads that use the operator
  JobKinds,     \* the variants of Job that reach it
  MaxJobs,      \* bound on the jobs submitted
  MayPanic,     \* whether the execution of a job may panic
  Reuse         \* whether a client keeps a handle (it is Copy) after its use

ASSUME ConstantsAssumption ==
  /\ MaxJobs \in Nat
  /\ MayPanic \in BOOLEAN
  /\ Reuse \in BOOLEAN

VARIABLES
  nextId,       \* next_id
  queue,        \* the channel
  thread,       \* what the GPU thread is doing
  slots,        \* results finished and not yet taken
  client,       \* what each client is doing
  held,         \* handles each client may use
  life,         \* "open", then Drop: "joining", "closed"
  submitted,    \* history: job of every handle
  delivered     \* history: result that drain or try_drain gave for a handle

vars == <<nextId, queue, thread, slots, client, held, life,
          submitted, delivered>>

\* A job, and whether its buffers are in VRAM.
Jobs == [kind : JobKinds, onGpu : BOOLEAN]
Ids == 0 .. MaxJobs - 1
Idle == [at |-> "idle"]
Receiving == [at |-> "recv"]
Shutdown == [kind |-> "shutdown"]
JobMessage(id) == [kind |-> "job", id |-> id]
Alive == thread.at \notin {"dead", "stopped"}

-----------------------------------------------------------------------------
(* execute_gpu_job *)

Failed(j) ==
  \/ j.kind \notin {"ForwardSegment", "BackwardSegment", "Loss"}
  \/ j.kind = "Loss" /\ ~j.onGpu

Outcome(j) == [of |-> j.kind, failed |-> Failed(j)]

-----------------------------------------------------------------------------
(* Clients *)

Init ==
  /\ nextId = 0
  /\ queue = <<>>
  /\ thread = Receiving
  /\ slots = EmptyMap
  /\ client = [c \in Clients |-> Idle]
  /\ held = [c \in Clients |-> {}]
  /\ life = "open"
  /\ submitted = EmptyMap
  /\ delivered = EmptyMap

\* Faulty: next_id is loaded and stored, so one of two clients' counts is lost.
DrawIdUnclaimed(c, j) ==
  /\ life = "open" /\ client[c] = Idle /\ nextId < MaxJobs
  /\ submitted' = With(submitted, nextId, j)
  /\ client' = [client EXCEPT ![c] = [at |-> "sending", id |-> nextId]]
  /\ nextId' \in {nextId, nextId + 1}
  /\ UNCHANGED <<queue, thread, slots, held, life, delivered>>

\* submit, first step: next_id.fetch_add.
DrawId(c, j) ==
  /\ life = "open" /\ client[c] = Idle /\ nextId < MaxJobs
  /\ submitted' = With(submitted, nextId, j)
  /\ client' = [client EXCEPT ![c] = [at |-> "sending", id |-> nextId]]
  /\ nextId' = nextId + 1
  /\ UNCHANGED <<queue, thread, slots, held, life, delivered>>

\* submit, second step.  Sending to a thread that has ended is ignored.
Send(c) ==
  /\ client[c].at = "sending"
  /\ queue' = IF Alive THEN Append(queue, JobMessage(client[c].id)) ELSE queue
  /\ held' = [held EXCEPT ![c] = @ \cup {client[c].id}]
  /\ client' = [client EXCEPT ![c] = Idle]
  /\ UNCHANGED <<nextId, thread, slots, life, submitted, delivered>>

DrainCall(c, id) ==
  /\ life = "open" /\ client[c] = Idle /\ id \in held[c]
  /\ client' = [client EXCEPT ![c] = [at |-> "checking", id |-> id]]
  /\ held' = IF Reuse THEN held ELSE [held EXCEPT ![c] = @ \ {id}]
  /\ UNCHANGED <<nextId, queue, thread, slots, life, submitted, delivered>>

\* Faulty: the result is copied out and stays in its slot.
TakeCopying(id) ==
  /\ delivered' = With(delivered, id, slots[id])
  /\ slots' = slots

\* slots.remove: the result is the caller's.
Take(id) ==
  /\ delivered' = With(delivered, id, slots[id])
  /\ slots' = Without(slots, id)

DrainReturns(c) ==
  /\ client[c].at = "checking" /\ client[c].id \in DOMAIN slots
  /\ Take(client[c].id)
  /\ client' = [client EXCEPT ![c] = Idle]
  /\ UNCHANGED <<nextId, queue, thread, held, life, submitted>>

DrainWaits(c) ==
  /\ client[c].at = "checking" /\ client[c].id \notin DOMAIN slots
  /\ client' = [client EXCEPT ![c].at = "waiting"]
  /\ UNCHANGED <<nextId, queue, thread, slots, held, life, submitted, delivered>>

\* A condition variable may wake a waiter for no reason.
SpuriousWake(c) ==
  /\ client[c].at = "waiting"
  /\ client' = [client EXCEPT ![c].at = "checking"]
  /\ UNCHANGED <<nextId, queue, thread, slots, held, life, submitted, delivered>>

TryDrainSome(c, id) ==
  /\ life = "open" /\ client[c] = Idle /\ id \in held[c] /\ id \in DOMAIN slots
  /\ Take(id)
  /\ held' = IF Reuse THEN held ELSE [held EXCEPT ![c] = @ \ {id}]
  /\ UNCHANGED <<nextId, queue, thread, client, life, submitted>>

ClientStep(c) ==
  \/ \E j \in Jobs : DrawId(c, j)
  \/ Send(c)
  \/ \E id \in held[c] : DrainCall(c, id) \/ TryDrainSome(c, id)
  \/ DrainReturns(c)
  \/ DrainWaits(c)
  \/ SpuriousWake(c)

-----------------------------------------------------------------------------
(* gpu_thread_loop *)

\* Faulty: the last message is taken first.
ReceiveLast ==
  /\ thread = Receiving /\ queue # <<>> /\ queue[Len(queue)].kind = "job"
  /\ thread' = [at |-> "executing", id |-> queue[Len(queue)].id]
  /\ queue' = SubSeq(queue, 1, Len(queue) - 1)
  /\ UNCHANGED <<nextId, slots, client, held, life, submitted, delivered>>

Receive ==
  /\ thread = Receiving /\ queue # <<>> /\ Head(queue).kind = "job"
  /\ thread' = [at |-> "executing", id |-> Head(queue).id]
  /\ queue' = Tail(queue)
  /\ UNCHANGED <<nextId, slots, client, held, life, submitted, delivered>>

\* Faulty: Shutdown is served before the jobs that were sent earlier.
StopAtOnce ==
  /\ thread = Receiving /\ queue # <<>> /\ queue[Len(queue)].kind = "shutdown"
  /\ thread' = [at |-> "stopped"]
  /\ queue' = <<>>
  /\ UNCHANGED <<nextId, slots, client, held, life, submitted, delivered>>

\* The thread ends at Shutdown, and the receiver goes with it.
Stop ==
  /\ thread = Receiving /\ queue # <<>> /\ Head(queue).kind = "shutdown"
  /\ thread' = [at |-> "stopped"]
  /\ queue' = <<>>
  /\ UNCHANGED <<nextId, slots, client, held, life, submitted, delivered>>

\* A panic in execute_gpu_job: the result is never stored, the channel is gone.
Panic ==
  /\ MayPanic /\ thread.at = "executing"
  /\ thread' = [at |-> "dead"]
  /\ queue' = <<>>
  /\ UNCHANGED <<nextId, slots, client, held, life, submitted, delivered>>

Store ==
  /\ thread.at = "executing"
  /\ slots' = With(slots, thread.id, Outcome(submitted[thread.id]))
  /\ thread' = [at |-> "notifying"]
  /\ UNCHANGED <<nextId, queue, client, held, life, submitted, delivered>>

\* Faulty: one waiter is woken, whichever it is.
NotifyOne ==
  /\ thread.at = "notifying"
  /\ IF \E c \in Clients : client[c].at = "waiting"
       THEN \E c \in Clients : /\ client[c].at = "waiting"
                               /\ client' = [client EXCEPT ![c].at = "checking"]
       ELSE client' = client
  /\ thread' = Receiving
  /\ UNCHANGED <<nextId, queue, slots, held, life, submitted, delivered>>

NotifyAll ==
  /\ thread.at = "notifying"
  /\ client' = [c \in Clients |-> IF client[c].at = "waiting"
                                    THEN [at |-> "checking", id |-> client[c].id]
                                    ELSE client[c]]
  /\ thread' = Receiving
  /\ UNCHANGED <<nextId, queue, slots, held, life, submitted, delivered>>

ThreadStep == Receive \/ Stop \/ Panic \/ Store \/ NotifyAll

-----------------------------------------------------------------------------
(* Drop of the queue *)

\* Faulty: joins a thread that nobody told to stop.
DropJoinsOnly ==
  /\ life = "open" /\ \A c \in Clients : client[c] = Idle
  /\ life' = "joining"
  /\ UNCHANGED <<nextId, queue, thread, slots, client, held, submitted, delivered>>

\* The last reference to the operator is dropped: nobody is inside a call.
DropSends ==
  /\ life = "open" /\ \A c \in Clients : client[c] = Idle
  /\ queue' = IF Alive THEN Append(queue, Shutdown) ELSE queue
  /\ life' = "joining"
  /\ UNCHANGED <<nextId, thread, slots, client, held, submitted, delivered>>

DropJoined ==
  /\ life = "joining" /\ ~Alive
  /\ life' = "closed"
  /\ UNCHANGED <<nextId, queue, thread, slots, client, held, submitted, delivered>>

Next ==
  \/ \E c \in Clients : ClientStep(c)
  \/ ThreadStep
  \/ DropSends
  \/ DropJoined

\* The threads are scheduled by the operating system: each keeps running.  No
\* client has to call anything, and nothing has to panic or wake by itself.
Fairness ==
  /\ WF_vars(Receive \/ Stop \/ Store \/ NotifyAll)
  /\ \A c \in Clients : WF_vars(Send(c) \/ DrainReturns(c) \/ DrainWaits(c))
  /\ WF_vars(DropJoined)

Spec == Init /\ [][Next]_vars
FairSpec == Spec /\ Fairness

-----------------------------------------------------------------------------
(* Properties *)

Queued == {queue[i].id : i \in {n \in DOMAIN queue : queue[n].kind = "job"}}
Executing == IF thread.at = "executing" THEN {thread.id} ELSE {}
Sending == {client[c].id : c \in {d \in Clients : client[d].at = "sending"}}
Results == [of : JobKinds, failed : BOOLEAN]

\* Types of the state, with one that is more: a job that is queued, executed or
\* waited for is one that was submitted, and the ids handed out are 0 .. nextId - 1.
TypeOK ==
  /\ nextId \in Nat
  /\ queue \in Seq({Shutdown} \cup [kind : {"job"}, id : DOMAIN submitted])
  /\ thread \in [at : {"recv", "notifying", "dead", "stopped"}]
                  \cup [at : {"executing"}, id : DOMAIN submitted]
  /\ slots \in [DOMAIN slots -> Results]
  /\ client \in [Clients -> {Idle} \cup [at : {"sending", "checking", "waiting"},
                                         id : DOMAIN submitted]]
  /\ held \in [Clients -> SUBSET DOMAIN submitted]
  /\ life \in {"open", "joining", "closed"}
  /\ submitted \in [0 .. nextId - 1 -> Jobs]
  /\ delivered \in [DOMAIN delivered -> Results]

\* While the thread is alive every accepted job is in exactly one place: on
\* its way into the channel, in the channel, in execution, in its slot or with
\* the client that asked for it.  submit draws the id and sends in two steps,
\* next to other submits and drains; a job in no place is a drain that hangs,
\* a job in two places a result delivered twice.
EveryJobHasAPlace ==
  LET places == <<Sending, Queued, Executing, DOMAIN slots, DOMAIN delivered>> IN
    /\ \A m, n \in 1 .. 5 : m # n => places[m] \cap places[n] = {}
    /\ Alive => UNION {places[n] : n \in 1 .. 5} = DOMAIN submitted
    /\ \A m, n \in DOMAIN queue :
         queue[m] = queue[n] /\ queue[m].kind = "job" => m = n

\* A client's jobs are executed in the order it submitted them: the passes of
\* one batch share parameter and gradient buffers, so a later job may rely on
\* what an earlier one wrote.
ClientOrderKept ==
  \A c \in Clients : \A i, k \in held[c] :
    /\ i < k
    /\ k \in DOMAIN slots \cup DOMAIN delivered
    => i \in DOMAIN slots \cup DOMAIN delivered

\* Dropping the operator loses no job: when the thread has been joined, every
\* job submitted before has been executed (unless one of them panicked).
DropExecutesAll ==
  life = "closed" /\ thread.at = "stopped"
    => DOMAIN submitted = DOMAIN slots \cup DOMAIN delivered

Contract == INSTANCE OperatorContract WITH finished <- slots

\* The operator keeps the contract of OperatorV2: distinct handles, the result
\* of a handle is the outcome of its own job, and it is delivered once.
ContractKept == Contract!Spec

\* A drain returns, unless its result was taken before or a job killed the
\* thread before the result was stored: a stored result is handed out even then.
\* No wake-up is lost between the test and the wait, and two threads that wait
\* for different handles on one condition variable do not take the signal away
\* from each other.
DrainEnds ==
  \A c \in Clients, id \in Ids :
    client[c].at \in {"checking", "waiting"} /\ client[c].id = id
      ~> \/ client[c] = Idle
         \/ id \in DOMAIN delivered
         \/ thread.at = "dead" /\ id \notin DOMAIN slots

\* Dropping the operator ends: the join never waits forever.
DropEnds == life = "joining" ~> life = "closed"

=============================================================================
