----------------------------- MODULE WorkerPool -----------------------------
(***************************************************************************)
(* WorkerPool: a fixed number of threads that take tasks from one mpsc     *)
(* channel, whose receiver they share under a mutex, and a counter of      *)
(* active tasks that wait_all spins on.  Callers hold the pool through an  *)
(* Arc; when the last reference goes, Drop sends one None per worker and   *)
(* joins them.                                                             *)
(*                                                                         *)
(* What a task computes is left to the modules that use the pool: here it  *)
(* ends, or it panics and takes its thread with it.                        *)
(***************************************************************************)
EXTENDS Integers, Sequences, FiniteSets

CONSTANTS
  Workers,      \* the threads of the pool
  Callers,      \* the threads that hold it
  Tasks,        \* the tasks; each is executed once
  MayPanic      \* whether a task may panic

ASSUME PoolAssumption ==
  /\ IsFiniteSet(Workers) /\ IsFiniteSet(Tasks)
  /\ MayPanic \in BOOLEAN

VARIABLES
  channel,      \* tasks, then the None of every worker
  active,       \* active_tasks
  worker,       \* what each worker is doing
  caller,       \* what each caller is doing
  life,         \* "open", then Drop: "joining", "closed"
  counted,      \* history: tasks added to the counter and not yet subtracted
  finished,     \* history: tasks that ran to their end
  mine          \* history: tasks of each caller since its last wait_all

poolVars == <<channel, active, worker, caller, life, counted, finished, mine>>

None == [kind |-> "none"]
Some(t) == [kind |-> "some", task |-> t]
Messages == {None} \cup {Some(t) : t \in Tasks}
Idle == [at |-> "idle"]
AllEnded == \A w \in Workers : worker[w].at \in {"stopped", "dead"}
Fresh(t) == t \notin counted \cup finished \cup UNION {mine[c] : c \in Callers}

PoolInit ==
  /\ channel = <<>>
  /\ active = 0
  /\ worker = [w \in Workers |-> Idle]
  /\ caller = [c \in Callers |-> Idle]
  /\ life = "open"
  /\ counted = {}
  /\ finished = {}
  /\ mine = [c \in Callers |-> {}]

-----------------------------------------------------------------------------
(* Callers *)

\* Faulty: the counter is set to one instead of incremented.
CountTaskSetting(c, t) ==
  /\ life = "open" /\ caller[c] = Idle /\ Fresh(t)
  /\ active' = 1
  /\ counted' = counted \cup {t}
  /\ mine' = [mine EXCEPT ![c] = @ \cup {t}]
  /\ caller' = [caller EXCEPT ![c] = [at |-> "sending", task |-> t]]
  /\ UNCHANGED <<channel, worker, life, finished>>

\* execute, first half: fetch_add before the task can be seen by any worker.
CountTask(c, t) ==
  /\ life = "open" /\ caller[c] = Idle /\ Fresh(t)
  /\ active' = active + 1
  /\ counted' = counted \cup {t}
  /\ mine' = [mine EXCEPT ![c] = @ \cup {t}]
  /\ caller' = [caller EXCEPT ![c] = [at |-> "sending", task |-> t]]
  /\ UNCHANGED <<channel, worker, life, finished>>

SendTask(c) ==
  /\ caller[c].at = "sending" /\ ~AllEnded
  /\ channel' = Append(channel, Some(caller[c].task))
  /\ caller' = [caller EXCEPT ![c] = Idle]
  /\ UNCHANGED <<active, worker, life, counted, finished, mine>>

\* The receiver went with the last worker: expect panics in the caller.
SendPanics(c) ==
  /\ caller[c].at = "sending" /\ AllEnded
  /\ caller' = [caller EXCEPT ![c] = [at |-> "panicked"]]
  /\ UNCHANGED <<channel, active, worker, life, counted, finished, mine>>

WaitCall(c) ==
  /\ life = "open" /\ caller[c] = Idle
  /\ caller' = [caller EXCEPT ![c] = [at |-> "waiting"]]
  /\ UNCHANGED <<channel, active, worker, life, counted, finished, mine>>

WaitReturns(c) ==
  /\ caller[c].at = "waiting" /\ active = 0
  /\ caller' = [caller EXCEPT ![c] = Idle]
  /\ mine' = [mine EXCEPT ![c] = {}]
  /\ UNCHANGED <<channel, active, worker, life, counted, finished>>

-----------------------------------------------------------------------------
(* Workers *)

\* receiver.lock(): one worker at a time waits in recv.
LockReceiver(w) ==
  /\ worker[w] = Idle
  /\ \A v \in Workers : worker[v].at # "receiving"
  /\ worker' = [worker EXCEPT ![w] = [at |-> "receiving"]]
  /\ UNCHANGED <<channel, active, caller, life, counted, finished, mine>>

Receive(w) ==
  /\ worker[w].at = "receiving" /\ channel # <<>> /\ Head(channel).kind = "some"
  /\ worker' = [worker EXCEPT ![w] = [at |-> "running", task |-> Head(channel).task]]
  /\ channel' = Tail(channel)
  /\ UNCHANGED <<active, caller, life, counted, finished, mine>>

ReceiveNone(w) ==
  /\ worker[w].at = "receiving" /\ channel # <<>> /\ Head(channel).kind = "none"
  /\ worker' = [worker EXCEPT ![w] = [at |-> "stopped"]]
  /\ channel' = Tail(channel)
  /\ UNCHANGED <<active, caller, life, counted, finished, mine>>

\* task() returns.
TaskEnds(w) ==
  /\ worker[w].at = "running"
  /\ worker' = [worker EXCEPT ![w].at = "counting"]
  /\ finished' = finished \cup {worker[w].task}
  /\ UNCHANGED <<channel, active, caller, life, counted, mine>>

\* Faulty: the subtraction is lost if another worker subtracts at the same time.
CountDownRacing(w) ==
  /\ worker[w].at = "counting"
  /\ worker' = [worker EXCEPT ![w] = Idle]
  /\ active' = IF \E v \in Workers \ {w} : worker[v].at = "counting" THEN active
               ELSE active - 1
  /\ counted' = counted \ {worker[w].task}
  /\ UNCHANGED <<channel, caller, life, finished, mine>>

\* fetch_sub, after the task.
CountDown(w) ==
  /\ worker[w].at = "counting"
  /\ worker' = [worker EXCEPT ![w] = Idle]
  /\ active' = active - 1
  /\ counted' = counted \ {worker[w].task}
  /\ UNCHANGED <<channel, caller, life, finished, mine>>

\* The task unwinds its thread; nobody subtracts it from the counter.
TaskPanics(w) ==
  /\ MayPanic /\ worker[w].at = "running"
  /\ worker' = [worker EXCEPT ![w] = [at |-> "dead"]]
  /\ UNCHANGED <<channel, active, caller, life, counted, finished, mine>>

-----------------------------------------------------------------------------
(* Drop *)

\* Faulty: one None too few.
DropSendsFewer ==
  /\ life = "open" /\ \A c \in Callers : caller[c].at \in {"idle", "panicked"}
  /\ channel' = IF AllEnded THEN channel
                ELSE channel \o [i \in 1 .. Cardinality(Workers) - 1 |-> None]
  /\ life' = "joining"
  /\ UNCHANGED <<active, worker, caller, counted, finished, mine>>

\* Faulty: the workers are told to stop before they get the tasks in the channel.
DropSendsFirst ==
  /\ life = "open" /\ \A c \in Callers : caller[c].at \in {"idle", "panicked"}
  /\ channel' = IF AllEnded THEN channel
                ELSE [i \in 1 .. Cardinality(Workers) |-> None] \o channel
  /\ life' = "joining"
  /\ UNCHANGED <<active, worker, caller, counted, finished, mine>>

\* The last reference goes; send to a channel without receiver is ignored.
DropSends ==
  /\ life = "open" /\ \A c \in Callers : caller[c].at \in {"idle", "panicked"}
  /\ channel' = IF AllEnded THEN channel
                ELSE channel \o [i \in 1 .. Cardinality(Workers) |-> None]
  /\ life' = "joining"
  /\ UNCHANGED <<active, worker, caller, counted, finished, mine>>

DropJoined ==
  /\ life = "joining" /\ AllEnded
  /\ life' = "closed"
  /\ UNCHANGED <<channel, active, worker, caller, counted, finished, mine>>

-----------------------------------------------------------------------------
CallerStep(c) ==
  \/ \E t \in Tasks : CountTask(c, t)
  \/ SendTask(c)
  \/ SendPanics(c)
  \/ WaitCall(c)
  \/ WaitReturns(c)

WorkerStep(w) ==
  \/ LockReceiver(w)
  \/ Receive(w)
  \/ ReceiveNone(w)
  \/ TaskEnds(w)
  \/ TaskPanics(w)
  \/ CountDown(w)

PoolNext ==
  \/ \E c \in Callers : CallerStep(c)
  \/ \E w \in Workers : WorkerStep(w)
  \/ DropSends
  \/ DropJoined

\* Threads run, tasks end, and nobody has to call, panic or drop.  A mutex that
\* is free is taken by somebody: which worker that is does not matter.
WorkerProgress(w) == Receive(w) \/ ReceiveNone(w) \/ TaskEnds(w) \/ CountDown(w)

PoolFairness ==
  /\ \A w \in Workers : WF_poolVars(WorkerProgress(w))
  /\ WF_poolVars(\E w \in Workers : LockReceiver(w))
  /\ \A c \in Callers : WF_poolVars(SendTask(c) \/ SendPanics(c) \/ WaitReturns(c))
  /\ WF_poolVars(DropJoined)

PoolSpec == PoolInit /\ [][PoolNext]_poolVars
FairPoolSpec == PoolSpec /\ PoolFairness

-----------------------------------------------------------------------------
(* Properties *)

WorkerStates ==
  [at : {"idle", "receiving", "stopped", "dead"}]
    \cup [at : {"running", "counting"}, task : Tasks]

CallerStates ==
  [at : {"idle", "waiting", "panicked"}] \cup [at : {"sending"}, task : Tasks]

\* Types of the state of the pool.
PoolTypeOK ==
  /\ channel \in Seq(Messages)
  /\ active \in Nat
  /\ worker \in [Workers -> WorkerStates]
  /\ caller \in [Callers -> CallerStates]
  /\ life \in {"open", "joining", "closed"}
  /\ counted \subseteq Tasks
  /\ finished \subseteq Tasks
  /\ mine \in [Callers -> SUBSET Tasks]

\* The counter is the number of tasks that were handed in and have not been
\* subtracted: callers add before they send, workers subtract after the task,
\* and no interleaving of the two loses or duplicates an update.
ActiveExact == active = Cardinality(counted)

\* The barrier: at the moment wait_all returns, every task its caller handed in
\* has run to its end, with any number of other callers and workers around.
\* The orchestrators read what the tasks wrote right after it.
WaitMeansFinished ==
  [][\A c \in Callers : WaitReturns(c) => mine[c] \subseteq finished]_poolVars

\* Dropping the pool ends although workers may have died: no worker waits for
\* a None another one took, and every None is behind the tasks.
DropEnds == life = "joining" ~> life = "closed"

\* Nothing handed in before the drop is skipped, unless every worker died.
DropFinishesTasks ==
  life = "closed" =>
    \/ \A w \in Workers : worker[w].at = "dead"
    \/ \A m \in DOMAIN channel : channel[m].kind = "none"

\* wait_all returns, other callers' tasks included, unless a task panics.
WaitEnds ==
  \A c \in Callers :
    caller[c].at = "waiting"
      ~> caller[c].at # "waiting" \/ \E w \in Workers : worker[w].at = "dead"

\* No task is queued, running, about to be sent or about to be subtracted.
NothingActive ==
  /\ channel = <<>>
  /\ \A w \in Workers : worker[w].at \notin {"running", "counting"}
  /\ \A c \in Callers : caller[c].at # "sending"

\* worker_pool.rs:87: wait_all waits for the end of all active tasks.  With no
\* active task it has nothing to wait for.
WaitEndsWhenNothingActive ==
  \A c \in Callers :
    caller[c].at = "waiting" /\ NothingActive ~> caller[c].at # "waiting"

=============================================================================
