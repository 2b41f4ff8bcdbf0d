------------------------- MODULE ParallelPassProofs -------------------------
(***************************************************************************)
(* Theorems about WorkerPool, for any number of workers, callers and       *)
(* tasks, and about ParallelPass, for any batch, any plan of its rows, any *)
(* number of workers and any panics.                                       *)
(*                                                                         *)
(* The pool.  The counter is exact because every task that is on its way   *)
(* to a worker, in a worker or about to be subtracted is in `counted', and *)
(* no two of these places hold the same task, so that a subtraction takes  *)
(* one element away.  The barrier follows: when the counter is zero, a     *)
(* task that was handed in is in none of the places, hence finished.       *)
(*                                                                         *)
(* The pass.  It uses the pool as the pool allows, so what is proved of    *)
(* the pool holds here.  The chunks of a task are done when it ends and    *)
(* stay done, whatever other tasks do to the shared buffers, because only  *)
(* the holder of the mutex writes; and when wait_all returns, every chunk  *)
(* belongs to a task that ended.  No expect can fail because a panicked    *)
(* task stays counted, which keeps the dispatching thread in wait_all.     *)
(***************************************************************************)
EXTENDS ParallelPass, TLAPS, FiniteSetTheorems, WellFoundedInduction

-----------------------------------------------------------------------------
(* The pool: where its tasks are *)

Carries(m) == channel[m].kind = "some"
Works(w) == worker[w].at \in {"running", "counting"}
Sends(c) == caller[c].at = "sending"

\* Where a task may be, and that it is counted there.
PlacesCounted ==
  /\ \A m \in DOMAIN channel : Carries(m) => channel[m].task \in counted \ finished
  /\ \A w \in Workers : Works(w) => worker[w].task \in counted
  /\ \A w \in Workers : worker[w].at = "running" => worker[w].task \notin finished
  /\ \A w \in Workers : worker[w].at = "counting" => worker[w].task \in finished
  /\ \A c \in Callers : Sends(c) => caller[c].task \in counted \ finished

\* No two places hold the same task.
PlacesDistinct ==
  /\ \A m, n \in DOMAIN channel :
       Carries(m) /\ Carries(n) /\ channel[m].task = channel[n].task => m = n
  /\ \A v, w \in Workers : Works(v) /\ Works(w) /\ worker[v].task = worker[w].task => v = w
  /\ \A c, d \in Callers : Sends(c) /\ Sends(d) /\ caller[c].task = caller[d].task => c = d
  /\ \A m \in DOMAIN channel, w \in Workers :
       Carries(m) /\ Works(w) => channel[m].task # worker[w].task
  /\ \A m \in DOMAIN channel, c \in Callers :
       Carries(m) /\ Sends(c) => channel[m].task # caller[c].task
  /\ \A w \in Workers, c \in Callers :
       Works(w) /\ Sends(c) => worker[w].task # caller[c].task

\* A task a caller handed in since its last wait is counted or finished.
MineKnown == \A c \in Callers : mine[c] \subseteq counted \cup finished

PoolInv == PoolTypeOK /\ ActiveExact /\ PlacesCounted /\ PlacesDistinct /\ MineKnown

USE PoolAssumption

\* Only finitely many tasks have been counted.
LEMMA CountedFinite == PoolTypeOK => IsFiniteSet(counted)
BY FS_Subset DEF PoolTypeOK

\* The messages of the channel: None, and Some task for every task.
LEMMA MessageTypes ==
  /\ None \in Messages /\ None.kind = "none"
  /\ \A t \in Tasks : Some(t) \in Messages /\ Some(t).kind = "some" /\ Some(t).task = t
  /\ \A m \in Messages : m.kind = "some" => m.task \in Tasks
<1>1. None \in Messages /\ None.kind = "none"
  BY DEF Messages, None
<1>2. ASSUME NEW t \in Tasks
      PROVE  Some(t) \in Messages /\ Some(t).kind = "some" /\ Some(t).task = t
  BY DEF Messages, Some
<1>3. ASSUME NEW m \in Messages, m.kind = "some" PROVE m.task \in Tasks
  <2>1. m # None
    BY <1>1, <1>3
  <2>2. PICK t \in Tasks : m = Some(t)
    BY <2>1 DEF Messages
  <2> QED
    BY <2>2, <1>2
<1> QED
  BY <1>1, <1>2, <1>3

-----------------------------------------------------------------------------
\* The inductive invariant holds of a new pool.
LEMMA PoolInvInit == PoolInit => PoolInv
<1> SUFFICES ASSUME PoolInit PROVE PoolInv
  OBVIOUS
<1> USE DEF PoolInit
<1>1. PoolTypeOK
  BY DEF PoolTypeOK, WorkerStates, CallerStates, Idle
<1>2. ActiveExact
  BY FS_EmptySet DEF ActiveExact
<1>3. PlacesCounted /\ PlacesDistinct /\ MineKnown
  BY DEF PlacesCounted, PlacesDistinct, MineKnown, Carries, Works, Sends, Idle
<1> QED
  BY <1>1, <1>2, <1>3 DEF PoolInv

\* execute and wait_all keep the pool well typed.
LEMMA CallerType ==
  ASSUME PoolTypeOK, NEW c \in Callers, CallerStep(c)
  PROVE  PoolTypeOK'
<1> USE DEF PoolTypeOK, CallerStates
<1>1. CASE \E t \in Tasks : CountTask(c, t)
  <2> PICK t \in Tasks : CountTask(c, t)
    BY <1>1
  <2> QED
    BY DEF CountTask
<1>2. CASE SendTask(c)
  <2>1. caller[c].task \in Tasks
    BY <1>2 DEF SendTask
  <2>2. Some(caller[c].task) \in Messages
    BY <2>1, MessageTypes
  <2>3. channel' \in Seq(Messages)
    BY <1>2, <2>2 DEF SendTask
  <2> QED
    BY <1>2, <2>3 DEF SendTask, Idle
<1>3. CASE SendPanics(c)
  BY <1>3 DEF SendPanics
<1>4. CASE WaitCall(c)
  BY <1>4 DEF WaitCall
<1>5. CASE WaitReturns(c)
  BY <1>5 DEF WaitReturns, Idle
<1> QED
  BY <1>1, <1>2, <1>3, <1>4, <1>5 DEF CallerStep

\* So does every step of a worker.
LEMMA WorkerType ==
  ASSUME PoolInv, NEW w \in Workers, WorkerStep(w)
  PROVE  PoolTypeOK'
<1> USE DEF PoolTypeOK, WorkerStates
<1>a. PoolTypeOK
  BY DEF PoolInv
<1>b. channel # <<>> => Head(channel) \in Messages /\ Tail(channel) \in Seq(Messages)
  BY <1>a
<1>1. CASE LockReceiver(w)
  BY <1>1, <1>a DEF LockReceiver
<1>2. CASE Receive(w)
  <2>2. Head(channel).task \in Tasks
    BY <1>2, <1>b, MessageTypes DEF Receive
  <2> QED
    BY <1>2, <1>a, <1>b, <2>2 DEF Receive
<1>3. CASE ReceiveNone(w)
  BY <1>3, <1>a, <1>b DEF ReceiveNone
<1>4. CASE TaskEnds(w)
  <2>1. worker[w] \in [at : {"running", "counting"}, task : Tasks]
    BY <1>4, <1>a DEF TaskEnds
  <2>2. [worker[w] EXCEPT !.at = "counting"] \in [at : {"running", "counting"}, task : Tasks]
    BY <2>1
  <2>3. worker' = [worker EXCEPT ![w] = [worker[w] EXCEPT !.at = "counting"]]
    BY <1>4 DEF TaskEnds
  <2>4. worker' \in [Workers -> WorkerStates]
    BY <1>a, <2>2, <2>3
  <2> QED
    BY <1>4, <1>a, <2>1, <2>4 DEF TaskEnds
<1>5. CASE TaskPanics(w)
  BY <1>5, <1>a DEF TaskPanics
<1>6. CASE CountDown(w)
  <2>1. worker[w].task \in counted
    BY <1>6 DEF PoolInv, PlacesCounted, Works, CountDown
  <2>2. Cardinality(counted) # 0
    BY <1>a, <2>1, CountedFinite, FS_EmptySet
  <2>3. active - 1 \in Nat
    BY <1>a, <2>2 DEF PoolInv, ActiveExact
  <2> QED
    BY <1>6, <1>a, <2>3 DEF CountDown, Idle
<1> QED
  BY <1>1, <1>2, <1>3, <1>4, <1>5, <1>6 DEF WorkerStep

Nones(n) == [i \in 1 .. n |-> None]

\* Appending n Nones to a channel keeps its messages where they are.
LEMMA NonesType ==
  ASSUME NEW M, None \in M, NEW s \in Seq(M), NEW n \in Nat
  PROVE  /\ s \o Nones(n) \in Seq(M)
         /\ Len(s \o Nones(n)) = Len(s) + n
         /\ \A i \in 1 .. Len(s) : (s \o Nones(n))[i] = s[i]
         /\ \A i \in Len(s) + 1 .. Len(s) + n : (s \o Nones(n))[i] = None
<1>1. Nones(n) \in Seq(M) /\ Len(Nones(n)) = n
  BY DEF Nones
<1>2. \A i \in 1 .. n : Nones(n)[i] = None
  BY DEF Nones
<1> QED
  BY <1>1, <1>2

\* Drop keeps the pool well typed.
LEMMA DropType ==
  ASSUME PoolTypeOK, DropSends \/ DropJoined
  PROVE  PoolTypeOK'
<1> USE DEF PoolTypeOK
<1>1. Cardinality(Workers) \in Nat
  BY FS_CardinalityType
<1>2. channel' \in Seq(Messages)
  <2>1. CASE channel' = channel
    BY <2>1
  <2>2. CASE channel' = channel \o Nones(Cardinality(Workers))
    BY <1>1, <2>2, NonesType, MessageTypes
  <2> QED
    BY <2>1, <2>2 DEF DropSends, DropJoined, Nones
<1> QED
  BY <1>2 DEF DropSends, DropJoined

-----------------------------------------------------------------------------
Placed == ActiveExact /\ PlacesCounted /\ PlacesDistinct /\ MineKnown

\* fetch_add before the send: the task is counted and with its caller.
LEMMA CountTaskPlaced ==
  ASSUME PoolInv, NEW c \in Callers, NEW t \in Tasks, CountTask(c, t)
  PROVE  Placed'
<1> USE DEF PoolInv, CountTask, Carries, Works, Sends
<1>1. t \notin counted /\ t \notin finished
  BY DEF Fresh
<1>2. caller' = [caller EXCEPT ![c] = [at |-> "sending", task |-> t]] /\ caller[c] = Idle
  OBVIOUS
<1>3. /\ caller'[c].at = "sending" /\ caller'[c].task = t
      /\ \A d \in Callers \ {c} : caller'[d] = caller[d]
  BY <1>2 DEF PoolTypeOK
<1>4. ActiveExact'
  BY <1>1, CountedFinite, FS_AddElement DEF ActiveExact
<1>5. PlacesCounted'
  BY <1>1, <1>3 DEF PlacesCounted
<1>6. PlacesDistinct'
  BY <1>1, <1>3 DEF PlacesDistinct, PlacesCounted
<1>7. MineKnown'
  <2>1. \A d \in Callers : mine'[d] \subseteq mine[d] \cup {t}
    BY DEF PoolTypeOK
  <2> QED
    BY <2>1 DEF MineKnown
<1> QED
  BY <1>4, <1>5, <1>6, <1>7 DEF Placed

\* The send moves the task from its caller into the channel.
LEMMA SendTaskPlaced ==
  ASSUME PoolInv, NEW c \in Callers, SendTask(c)
  PROVE  Placed'
<1> USE DEF PoolInv, SendTask, Carries, Works, Sends
<1> DEFINE t == caller[c].task
<1>1. t \in Tasks /\ t \in counted \ finished
  BY DEF PlacesCounted, PoolTypeOK
<1>2. /\ caller'[c] = Idle
      /\ \A d \in Callers \ {c} : caller'[d] = caller[d]
  BY DEF PoolTypeOK
<1>3. Some(t) \in Messages /\ Some(t).kind = "some" /\ Some(t).task = t
  BY <1>1, MessageTypes
<1>4. /\ DOMAIN channel' = DOMAIN channel \cup {Len(channel) + 1}
      /\ \A m \in DOMAIN channel : channel'[m] = channel[m]
      /\ channel'[Len(channel) + 1] = Some(t)
  <2>1. channel \in Seq(Messages)
    BY DEF PoolTypeOK
  <2>2. channel' = Append(channel, Some(t))
    OBVIOUS
  <2> HIDE DEF t
  <2> QED
    BY <1>3, <2>1, <2>2
<1>5. caller'[c].at # "sending"
  BY <1>2 DEF Idle
<1>6. ActiveExact' /\ MineKnown'
  BY DEF ActiveExact, MineKnown
<1>7. PlacesCounted'
  BY <1>1, <1>2, <1>3, <1>4, <1>5 DEF PlacesCounted
<1>8. PlacesDistinct'
  BY <1>1, <1>2, <1>3, <1>4, <1>5 DEF PlacesDistinct, PlacesCounted
<1> QED
  BY <1>6, <1>7, <1>8 DEF Placed

\* Every step of a caller leaves each active task in one place.
LEMMA CallerPlaced ==
  ASSUME PoolInv, NEW c \in Callers, CallerStep(c)
  PROVE  Placed'
<1>1. CASE \E t \in Tasks : CountTask(c, t)
  BY <1>1, CountTaskPlaced
<1>2. CASE SendTask(c)
  BY <1>2, SendTaskPlaced
<1>3. CASE SendPanics(c) \/ WaitCall(c) \/ WaitReturns(c)
  <2> USE DEF PoolInv, SendPanics, WaitCall, WaitReturns, Carries, Works, Sends
  <2>1. /\ caller'[c].at # "sending"
        /\ \A d \in Callers \ {c} : caller'[d] = caller[d]
    BY <1>3 DEF PoolTypeOK, Idle
  <2>2. UNCHANGED <<channel, active, worker, counted, finished>>
    BY <1>3
  <2>3. \A d \in Callers : mine'[d] \subseteq mine[d]
    BY <1>3 DEF PoolTypeOK
  <2>4. ActiveExact' /\ MineKnown'
    BY <2>2, <2>3 DEF ActiveExact, MineKnown
  <2>5. PlacesCounted'
    BY <2>1, <2>2 DEF PlacesCounted
  <2>6. PlacesDistinct'
    BY <2>1, <2>2 DEF PlacesDistinct
  <2> QED
    BY <2>4, <2>5, <2>6 DEF Placed
<1> QED
  BY <1>1, <1>2, <1>3 DEF CallerStep

\* What Tail does to the places of a nonempty channel.
LEMMA TailFacts ==
  ASSUME PoolTypeOK, channel # <<>>, channel' = Tail(channel)
  PROVE  /\ 1 \in DOMAIN channel /\ Head(channel) = channel[1]
         /\ \A m \in DOMAIN channel' :
              m + 1 \in DOMAIN channel /\ m + 1 # 1 /\ channel'[m] = channel[m + 1]
         /\ \A m, n \in DOMAIN channel' : m + 1 = n + 1 => m = n
<1>1. channel \in Seq(Messages)
  BY DEF PoolTypeOK
<1> QED
  BY <1>1

\* A receive moves the first task of the channel to the worker, or is a None.
LEMMA ReceivePlaced ==
  ASSUME PoolInv, NEW w \in Workers, Receive(w) \/ ReceiveNone(w)
  PROVE  Placed'
<1> USE DEF PoolInv, Receive, ReceiveNone, Carries, Works, Sends
<1>1. channel # <<>> /\ channel' = Tail(channel)
  OBVIOUS
<1>2. /\ 1 \in DOMAIN channel /\ Head(channel) = channel[1]
      /\ \A m \in DOMAIN channel' :
           m + 1 \in DOMAIN channel /\ m + 1 # 1 /\ channel'[m] = channel[m + 1]
      /\ \A m, n \in DOMAIN channel' : m + 1 = n + 1 => m = n
  BY <1>1, TailFacts
<1>3. \A v \in Workers \ {w} : worker'[v] = worker[v]
  BY DEF PoolTypeOK
<1>4. UNCHANGED <<active, caller, counted, finished, mine>>
  OBVIOUS
<1>5. ActiveExact' /\ MineKnown'
  BY <1>4 DEF ActiveExact, MineKnown
<1>6. CASE Receive(w)
  <2>1. /\ worker'[w].at = "running" /\ worker'[w].task = channel[1].task
        /\ channel[1].kind = "some"
    BY <1>6, <1>2 DEF PoolTypeOK
  <2>0. channel[1].task \in counted \ finished
    BY <1>2, <2>1 DEF PlacesCounted
  <2>2. PlacesCounted'
    <3>1. \A m \in DOMAIN channel' :
            channel'[m].kind = "some" => channel'[m].task \in counted' \ finished'
      BY <1>2, <1>4 DEF PlacesCounted
    <3>2. \A v \in Workers :
            /\ worker'[v].at \in {"running", "counting"} => worker'[v].task \in counted'
            /\ worker'[v].at = "running" => worker'[v].task \notin finished'
            /\ worker'[v].at = "counting" => worker'[v].task \in finished'
      BY <1>3, <1>4, <2>0, <2>1 DEF PlacesCounted
    <3>3. \A c \in Callers : caller'[c].at = "sending" => caller'[c].task \in counted' \ finished'
      BY <1>4 DEF PlacesCounted
    <3> QED
      BY <3>1, <3>2, <3>3 DEF PlacesCounted
  <2>3. PlacesDistinct'
    <3>1. \A m \in DOMAIN channel', v \in Workers :
            channel'[m].kind = "some" /\ worker'[v].at \in {"running", "counting"}
              => channel'[m].task # worker'[v].task
      BY <1>2, <1>3, <2>1 DEF PlacesDistinct
    <3>2. \A u, v \in Workers :
            /\ worker'[u].at \in {"running", "counting"}
            /\ worker'[v].at \in {"running", "counting"}
            /\ worker'[u].task = worker'[v].task
            => u = v
      BY <1>2, <1>3, <2>1 DEF PlacesDistinct
    <3>3. \A m, n \in DOMAIN channel' :
            channel'[m].kind = "some" /\ channel'[n].kind = "some"
              /\ channel'[m].task = channel'[n].task => m = n
      BY <1>2 DEF PlacesDistinct
    <3> QED
      BY <1>2, <1>3, <1>4, <2>1, <3>1, <3>2, <3>3 DEF PlacesDistinct
  <2> QED
    BY <1>5, <2>2, <2>3 DEF Placed
<1>7. CASE ReceiveNone(w)
  <2>1. worker'[w].at = "stopped"
    BY <1>7 DEF PoolTypeOK
  <2>2. PlacesCounted'
    BY <1>2, <1>3, <1>4, <2>1 DEF PlacesCounted
  <2>3. PlacesDistinct'
    <3>1. \A m, n \in DOMAIN channel' :
            channel'[m].kind = "some" /\ channel'[n].kind = "some"
              /\ channel'[m].task = channel'[n].task => m = n
      BY <1>2 DEF PlacesDistinct
    <3> QED
      BY <1>2, <1>3, <1>4, <2>1, <3>1 DEF PlacesDistinct
  <2> QED
    BY <1>5, <2>2, <2>3 DEF Placed
<1> QED
  BY <1>6, <1>7

\* fetch_sub after the task: the worker no longer holds it, and it is finished.
LEMMA CountDownPlaced ==
  ASSUME PoolInv, NEW w \in Workers, CountDown(w)
  PROVE  Placed'
<1> USE DEF PoolInv, CountDown, Carries, Works, Sends
<1> DEFINE t == worker[w].task
<1>1. t \in counted /\ t \in finished
  BY DEF PlacesCounted
<1>2. worker'[w].at = "idle" /\ \A v \in Workers \ {w} : worker'[v] = worker[v]
  BY DEF PoolTypeOK, Idle
<1>3. counted' = counted \ {t} /\ active' = active - 1
  OBVIOUS
<1>4. ActiveExact'
  <2>1. Cardinality(counted \ {t}) = Cardinality(counted) - 1
    BY <1>1, CountedFinite, FS_RemoveElement
  <2> QED
    BY <1>3, <2>1 DEF ActiveExact
<1>5. MineKnown'
  BY <1>1, <1>3 DEF MineKnown
<1>6. \A v \in Workers \ {w} : Works(v) => worker[v].task # t
  BY DEF PlacesDistinct
<1>7. PlacesCounted'
  BY <1>1, <1>2, <1>3, <1>6 DEF PlacesCounted
<1>8. PlacesDistinct'
  BY <1>2 DEF PlacesDistinct
<1> QED
  BY <1>4, <1>5, <1>7, <1>8 DEF Placed

\* Every step of a worker leaves each active task in one place.
LEMMA WorkerPlaced ==
  ASSUME PoolInv, NEW w \in Workers, WorkerStep(w)
  PROVE  Placed'
<1> USE DEF PoolInv, Carries, Works, Sends
<1>1. CASE Receive(w) \/ ReceiveNone(w)
  BY <1>1, ReceivePlaced
<1>2. CASE CountDown(w)
  BY <1>2, CountDownPlaced
<1>3. CASE LockReceiver(w) \/ TaskPanics(w)
  <2> USE DEF LockReceiver, TaskPanics
  <2>1. /\ worker'[w].at \notin {"running", "counting"}
        /\ \A v \in Workers \ {w} : worker'[v] = worker[v]
    BY <1>3 DEF PoolTypeOK
  <2>2. UNCHANGED <<channel, active, caller, counted, finished, mine>>
    BY <1>3
  <2>3. ActiveExact' /\ MineKnown'
    BY <2>2 DEF ActiveExact, MineKnown
  <2>4. PlacesCounted' /\ PlacesDistinct'
    BY <2>1, <2>2 DEF PlacesCounted, PlacesDistinct
  <2> QED
    BY <2>3, <2>4 DEF Placed
<1>4. CASE TaskEnds(w)
  <2> USE DEF TaskEnds
  <2> DEFINE t == worker[w].task
  <2>1. worker[w].at = "running" /\ t \in counted
    BY <1>4 DEF PlacesCounted
  <2>2. worker'[w] = [worker[w] EXCEPT !.at = "counting"]
    BY <1>4 DEF PoolTypeOK
  <2>3. worker[w] \in [at : {"running", "counting"}, task : Tasks]
    BY <2>1 DEF PoolTypeOK, WorkerStates
  <2>4. worker'[w].at = "counting" /\ worker'[w].task = t
    BY <2>2, <2>3
  <2>5. \A v \in Workers \ {w} : worker'[v] = worker[v]
    BY <1>4 DEF PoolTypeOK
  <2>6. finished' = finished \cup {t} /\ UNCHANGED <<channel, active, caller, counted, mine>>
    BY <1>4
  <2>7. ActiveExact' /\ MineKnown'
    BY <2>6 DEF ActiveExact, MineKnown
  <2>8. PlacesCounted'
    BY <2>1, <2>4, <2>5, <2>6 DEF PlacesCounted, PlacesDistinct
  <2>9. PlacesDistinct'
    BY <2>1, <2>4, <2>5, <2>6 DEF PlacesDistinct
  <2> QED
    BY <2>7, <2>8, <2>9 DEF Placed
<1> QED
  BY <1>1, <1>2, <1>3, <1>4 DEF WorkerStep

\* The Nones that Drop sends carry no task.
LEMMA DropPlaced ==
  ASSUME PoolInv, DropSends \/ DropJoined
  PROVE  Placed'
<1> USE DEF PoolInv, DropSends, DropJoined, Carries, Works, Sends
<1>1. UNCHANGED <<active, worker, caller, counted, finished, mine>>
  OBVIOUS
<1>2. Cardinality(Workers) \in Nat /\ channel \in Seq(Messages)
  BY FS_CardinalityType DEF PoolTypeOK
<1>3. \A m \in DOMAIN channel' :
        channel'[m].kind = "some" => m \in DOMAIN channel /\ channel'[m] = channel[m]
  <2>1. CASE channel' = channel
    BY <2>1
  <2>2. CASE channel' = channel \o Nones(Cardinality(Workers))
    <3>1. /\ channel' \in Seq(Messages)
          /\ Len(channel') = Len(channel) + Cardinality(Workers)
          /\ \A i \in 1 .. Len(channel) : channel'[i] = channel[i]
          /\ \A i \in Len(channel) + 1 .. Len(channel) + Cardinality(Workers) :
               channel'[i] = None
      <4>1. None \in Messages
        BY MessageTypes
      <4> DEFINE n == Cardinality(Workers)
      <4>2. n \in Nat /\ channel' = channel \o Nones(n)
        BY <1>2, <2>2
      <4> HIDE DEF n
      <4>3. /\ channel' \in Seq(Messages)
            /\ Len(channel') = Len(channel) + n
            /\ \A i \in 1 .. Len(channel) : channel'[i] = channel[i]
            /\ \A i \in Len(channel) + 1 .. Len(channel) + n : channel'[i] = None
        BY <1>2, <4>1, <4>2, NonesType
      <4> QED
        BY <4>3 DEF n
    <3>2. DOMAIN channel = 1 .. Len(channel) /\ DOMAIN channel' = 1 .. Len(channel')
      BY <1>2, <3>1
    <3>3. Len(channel) \in Nat
      BY <1>2
    <3> QED
      BY <1>2, <3>1, <3>2, <3>3, MessageTypes
  <2> QED
    BY <2>1, <2>2 DEF Nones
<1>4. ActiveExact' /\ MineKnown'
  BY <1>1 DEF ActiveExact, MineKnown
<1>5. PlacesCounted'
  BY <1>1, <1>3 DEF PlacesCounted
<1>6. PlacesDistinct'
  BY <1>1, <1>3 DEF PlacesDistinct
<1> QED
  BY <1>4, <1>5, <1>6 DEF Placed

\* The invariant is inductive: together with PoolInvInit it holds always.
LEMMA PoolInvStep == PoolInv /\ [PoolNext]_poolVars => PoolInv'
<1> SUFFICES ASSUME PoolInv, [PoolNext]_poolVars PROVE PoolInv'
  OBVIOUS
<1>1. CASE \E c \in Callers : CallerStep(c)
  BY <1>1, CallerType, CallerPlaced DEF PoolInv, Placed
<1>2. CASE \E w \in Workers : WorkerStep(w)
  BY <1>2, WorkerType, WorkerPlaced DEF PoolInv, Placed
<1>3. CASE DropSends \/ DropJoined
  BY <1>3, DropType, DropPlaced DEF PoolInv, Placed
<1>4. CASE UNCHANGED poolVars
  BY <1>4 DEF poolVars, PoolInv, PoolTypeOK, ActiveExact, PlacesCounted,
              PlacesDistinct, MineKnown, Carries, Works, Sends
<1> QED
  BY <1>1, <1>2, <1>3, <1>4 DEF PoolNext

-----------------------------------------------------------------------------
\* The pool's variables keep their types; in particular the counter of active
\* tasks is never negative: the usize of the code does not wrap.
THEOREM PoolTypeCorrect == PoolSpec => []PoolTypeOK
<1>1. PoolInv => PoolTypeOK
  BY DEF PoolInv
<1> QED
  BY <1>1, PoolInvInit, PoolInvStep, PTL DEF PoolSpec

\* The counter of active tasks is exact for any number of callers and workers,
\* tasks that panicked included: those stay counted.
THEOREM ActiveIsExact == PoolSpec => []ActiveExact
<1>1. PoolInv => ActiveExact
  BY DEF PoolInv
<1> QED
  BY <1>1, PoolInvInit, PoolInvStep, PTL DEF PoolSpec

\* wait_all is a barrier: when it returns, every task its caller handed in has
\* run to its end.
THEOREM WaitIsBarrier == PoolSpec => WaitMeansFinished
<1>1. ASSUME PoolInv, NEW c \in Callers, WaitReturns(c) PROVE mine[c] \subseteq finished
  <2>1. Cardinality(counted) = 0
    BY <1>1 DEF PoolInv, ActiveExact, WaitReturns
  <2>2. counted = {}
    BY <1>1, <2>1, CountedFinite, FS_EmptySet DEF PoolInv
  <2> QED
    BY <1>1, <2>2 DEF PoolInv, MineKnown
<1>2. PoolInv => \A c \in Callers : WaitReturns(c) => mine[c] \subseteq finished
  BY <1>1
<1>3. PoolInv /\ [PoolNext]_poolVars
        => [\A c \in Callers : WaitReturns(c) => mine[c] \subseteq finished]_poolVars
  BY <1>2
<1> QED
  BY <1>3, PoolInvInit, PoolInvStep, PTL DEF PoolSpec, WaitMeansFinished

-----------------------------------------------------------------------------
\* What the drop relies on: the channel holds a None only behind all tasks, a
\* worker has stopped only after the last task was received, and once the drop
\* has begun nobody sends.
TasksFirst ==
  \A m, n \in DOMAIN channel : m < n /\ channel[m].kind = "none" => channel[n].kind = "none"
OnlyNones == \A m \in DOMAIN channel : channel[m].kind = "none"
OnlyTasks == \A m \in DOMAIN channel : channel[m].kind = "some"

DropInv ==
  /\ TasksFirst
  /\ life = "open" => OnlyTasks /\ \A w \in Workers : worker[w].at # "stopped"
  /\ life # "open" => \A c \in Callers : caller[c].at \in {"idle", "panicked"}
  /\ (\E w \in Workers : worker[w].at = "stopped") => OnlyNones
  /\ life = "closed" => AllEnded

\* A new pool has an empty channel.
LEMMA DropInvInit == PoolInit => DropInv
BY DEF PoolInit, DropInv, TasksFirst, OnlyTasks, OnlyNones, AllEnded, Idle

\* Every message is a None or carries a task.
LEMMA MessageKinds == \A m \in Messages : m.kind \in {"none", "some"}
BY MessageTypes DEF Messages, None, Some

\* Callers send only while the pool is open, hence in front of every None.
LEMMA CallerDrop ==
  ASSUME PoolTypeOK, DropInv, NEW c \in Callers, CallerStep(c)
  PROVE  DropInv'
<1> USE DEF PoolTypeOK
<1>1. CASE SendTask(c)
  <2>1. life = "open"
    BY <1>1 DEF SendTask, DropInv
  <2>2. UNCHANGED <<life, worker>>
    BY <1>1 DEF SendTask
  <2>3. caller[c].task \in Tasks
    BY <1>1 DEF SendTask, CallerStates
  <2> DEFINE m == Some(caller[c].task)
  <2>4. m \in Messages /\ m.kind = "some"
    BY <2>3, MessageTypes
  <2>5. channel' = Append(channel, m) /\ channel \in Seq(Messages)
    BY <1>1 DEF SendTask
  <2> HIDE DEF m
  <2>6. /\ DOMAIN channel' = 1 .. Len(channel) + 1 /\ DOMAIN channel = 1 .. Len(channel)
        /\ \A i \in 1 .. Len(channel) : channel'[i] = channel[i]
        /\ channel'[Len(channel) + 1] = m
    BY <2>4, <2>5
  <2>7. OnlyTasks'
    BY <2>1, <2>4, <2>6 DEF OnlyTasks, DropInv
  <2>8. TasksFirst'
    BY <2>7 DEF TasksFirst, OnlyTasks
  <2> QED
    BY <2>1, <2>2, <2>7, <2>8 DEF DropInv
<1>2. CASE ~SendTask(c)
  <2>1. UNCHANGED <<channel, worker, life>>
    BY <1>2 DEF CallerStep, CountTask, SendPanics, WaitCall, WaitReturns
  <2>2. life # "open" => \A d \in Callers : caller'[d].at \in {"idle", "panicked"}
    BY <1>2 DEF CallerStep, CountTask, SendPanics, WaitCall, WaitReturns, DropInv, Idle
  <2> QED
    BY <2>1, <2>2 DEF DropInv, TasksFirst, OnlyTasks, OnlyNones, AllEnded
<1> QED
  BY <1>1, <1>2

\* A worker stops at a None, behind which there are only others.
LEMMA WorkerDrop ==
  ASSUME PoolTypeOK, DropInv, NEW w \in Workers, WorkerStep(w)
  PROVE  DropInv'
<1> USE DEF PoolTypeOK
<1>0. UNCHANGED <<life, caller>>
  BY DEF WorkerStep, LockReceiver, Receive, ReceiveNone, TaskEnds, TaskPanics, CountDown
<1>1. CASE Receive(w) \/ ReceiveNone(w)
  <2>1. /\ channel \in Seq(Messages) /\ channel # <<>> /\ channel' = Tail(channel)
        /\ Head(channel) = channel[1] /\ Len(channel) \in Nat \ {0}
    BY <1>1 DEF Receive, ReceiveNone
  <2>2. /\ DOMAIN channel = 1 .. Len(channel) /\ DOMAIN channel' = 1 .. Len(channel) - 1
        /\ \A i \in DOMAIN channel' : i + 1 \in DOMAIN channel /\ channel'[i] = channel[i + 1]
    BY <2>1
  <2>3. \A v \in Workers \ {w} : worker'[v] = worker[v]
    BY <1>1 DEF Receive, ReceiveNone
  <2>4. worker[w].at = "receiving"
    BY <1>1 DEF Receive, ReceiveNone
  <2>5. TasksFirst'
    <3> SUFFICES ASSUME NEW m \in DOMAIN channel', NEW n \in DOMAIN channel', m < n,
                        channel'[m].kind = "none"
                 PROVE  channel'[n].kind = "none"
      BY DEF TasksFirst
    <3>1. m + 1 < n + 1
      BY <2>1, <2>2
    <3> QED
      BY <3>1, <2>2 DEF DropInv, TasksFirst
  <2>6. OnlyTasks => OnlyTasks'
    BY <2>2 DEF OnlyTasks
  <2>7. OnlyNones => OnlyNones'
    BY <2>2 DEF OnlyNones
  <2>8. CASE Receive(w)
    <3>1. worker'[w].at = "running"
      BY <2>8 DEF Receive
    <3> QED
      BY <1>0, <2>3, <2>4, <2>5, <2>6, <2>7, <3>1 DEF DropInv, AllEnded
  <2>9. CASE ReceiveNone(w)
    <3>1. channel[1].kind = "none" /\ 1 \in DOMAIN channel
      BY <2>1, <2>2, <2>9 DEF ReceiveNone
    <3>2. life # "open"
      BY <3>1 DEF DropInv, OnlyTasks
    <3>3. OnlyNones
      <4> SUFFICES ASSUME NEW m \in DOMAIN channel PROVE channel[m].kind = "none"
        BY DEF OnlyNones
      <4>1. m = 1 \/ 1 < m
        BY <2>2
      <4> QED
        BY <3>1, <4>1 DEF DropInv, TasksFirst
    <3>4. worker'[w].at = "stopped"
      BY <2>9 DEF ReceiveNone
    <3> QED
      BY <1>0, <2>3, <2>5, <2>7, <3>2, <3>3, <3>4 DEF DropInv, AllEnded
  <2> QED
    BY <1>1, <2>8, <2>9
<1>2. CASE ~(Receive(w) \/ ReceiveNone(w))
  <2>1. channel' = channel
    BY <1>2 DEF WorkerStep, LockReceiver, TaskEnds, TaskPanics, CountDown
  <2>2. \A v \in Workers \ {w} : worker'[v] = worker[v]
    BY <1>2 DEF WorkerStep, LockReceiver, TaskEnds, TaskPanics, CountDown
  <2>3. worker[w].at \notin {"stopped", "dead"}
    BY <1>2 DEF WorkerStep, LockReceiver, TaskEnds, TaskPanics, CountDown, Idle
  <2>4. worker'[w].at # "stopped"
    <3>1. CASE TaskEnds(w)
      <4>1. worker[w] \in [at : {"running", "counting"}, task : Tasks]
        BY <3>1 DEF TaskEnds, WorkerStates
      <4>2. worker'[w] = [worker[w] EXCEPT !.at = "counting"]
        BY <3>1 DEF TaskEnds
      <4> QED
        BY <4>1, <4>2
    <3>2. CASE LockReceiver(w) \/ TaskPanics(w) \/ CountDown(w)
      BY <3>2 DEF LockReceiver, TaskPanics, CountDown, Idle
    <3> QED
      BY <1>2, <3>1, <3>2 DEF WorkerStep
  <2> QED
    BY <1>0, <2>1, <2>2, <2>3, <2>4 DEF DropInv, TasksFirst, OnlyTasks, OnlyNones, AllEnded
<1> QED
  BY <1>1, <1>2

\* Drop puts its Nones behind the tasks, and joins when every worker has ended.
LEMMA DropDrop ==
  ASSUME PoolTypeOK, DropInv, DropSends \/ DropJoined
  PROVE  DropInv'
<1> USE DEF PoolTypeOK
<1>0. UNCHANGED <<worker, caller>>
  BY DEF DropSends, DropJoined
<1>1. CASE DropSends
  <2>1. /\ life = "open" /\ life' = "joining"
        /\ \A c \in Callers : caller[c].at \in {"idle", "panicked"}
    BY <1>1 DEF DropSends
  <2>2. OnlyTasks /\ \A w \in Workers : worker[w].at # "stopped"
    BY <2>1 DEF DropInv
  <2>3. TasksFirst'
    <3>1. CASE channel' = channel
      BY <3>1 DEF DropInv, TasksFirst
    <3>2. CASE channel' = channel \o Nones(Cardinality(Workers))
      <4> DEFINE n == Cardinality(Workers)
      <4>1. n \in Nat /\ None \in Messages /\ channel \in Seq(Messages)
        BY FS_CardinalityType, MessageTypes
      <4>2. channel' = channel \o Nones(n)
        BY <3>2
      <4> HIDE DEF n, PoolTypeOK
      <4>3. /\ channel' \in Seq(Messages)
            /\ Len(channel') = Len(channel) + n
            /\ \A i \in 1 .. Len(channel) : channel'[i] = channel[i]
            /\ \A i \in Len(channel) + 1 .. Len(channel) + n : channel'[i] = None
        BY <4>1, <4>2, NonesType
      <4>4. /\ DOMAIN channel = 1 .. Len(channel) /\ DOMAIN channel' = 1 .. Len(channel')
            /\ Len(channel) \in Nat
        BY <4>1, <4>3
      <4> SUFFICES ASSUME NEW i \in DOMAIN channel', NEW j \in DOMAIN channel', i < j,
                          channel'[i].kind = "none"
                   PROVE  channel'[j].kind = "none"
        BY DEF TasksFirst
      <4>5. ~(i \in 1 .. Len(channel))
        BY <2>2, <4>3, <4>4 DEF OnlyTasks
      <4>6. j \in Len(channel) + 1 .. Len(channel) + n
        BY <4>1, <4>3, <4>4, <4>5
      <4> QED
        BY <4>3, <4>6, MessageTypes
    <3> QED
      BY <1>1, <3>1, <3>2 DEF DropSends, Nones
  <2> QED
    BY <1>0, <2>1, <2>2, <2>3 DEF DropInv
<1>2. CASE DropJoined
  BY <1>0, <1>2 DEF DropJoined, DropInv, TasksFirst, OnlyTasks, OnlyNones, AllEnded
<1> QED
  BY <1>1, <1>2

\* A drop that has ended left no task behind it, unless every worker died.
THEOREM DropSkipsNothing == PoolSpec => []DropFinishesTasks
<1>1. PoolInv /\ DropInv /\ [PoolNext]_poolVars => DropInv'
  <2> SUFFICES ASSUME PoolInv, DropInv, [PoolNext]_poolVars PROVE DropInv'
    OBVIOUS
  <2>1. PoolTypeOK
    BY DEF PoolInv
  <2>2. CASE UNCHANGED poolVars
    BY <2>2 DEF poolVars, DropInv, TasksFirst, OnlyTasks, OnlyNones, AllEnded
  <2> QED
    BY <2>1, <2>2, CallerDrop, WorkerDrop, DropDrop DEF PoolNext
<1>2. DropInv => DropFinishesTasks
  BY DEF DropInv, DropFinishesTasks, OnlyNones, AllEnded
<1> QED
  BY <1>1, <1>2, PoolInvInit, PoolInvStep, DropInvInit, PTL DEF PoolSpec

-----------------------------------------------------------------------------
(* The pass *)

D == Dispatcher

-----------------------------------------------------------------------------
(* Tasks nobody has in hand *)

InChannel(t) == \E m \in DOMAIN channel : Carries(m) /\ channel[m].task = t
InWorker(t)  == \E w \in Workers : Works(w) /\ worker[w].task = t
InCaller(t)  == \E c \in Callers : Sends(c) /\ caller[c].task = t

\* The tasks that panicked: counted, and in none of the places.
Lost == {t \in counted : ~ InChannel(t) /\ ~ InWorker(t) /\ ~ InCaller(t)}
Dead == {w \in Workers : worker[w].at = "dead"}

\* A call of the dispatching thread loses no task.
LEMMA CallerLosesNone ==
  ASSUME PoolInv, NEW c \in Callers,
         \/ \E t \in Tasks : CountTask(c, t)
         \/ SendTask(c) \/ WaitCall(c) \/ WaitReturns(c)
  PROVE  Lost' = Lost /\ Dead' = Dead
<1> USE DEF PoolInv, PoolTypeOK
<1>1. UNCHANGED worker
  BY DEF CountTask, SendTask, WaitCall, WaitReturns
<1>2. Dead' = Dead /\ \A t : InWorker(t)' <=> InWorker(t)
  BY <1>1 DEF Dead, InWorker, Works
<1>3. CASE \E t \in Tasks : CountTask(c, t)
  <2>1. PICK t \in Tasks : CountTask(c, t)
    BY <1>3
  <2>2. /\ UNCHANGED channel /\ counted' = counted \cup {t} /\ t \notin counted
        /\ caller[c] = Idle /\ caller' = [caller EXCEPT ![c] = [at |-> "sending", task |-> t]]
    BY <2>1 DEF CountTask, Fresh
  <2>3. \A u : InChannel(u)' <=> InChannel(u)
    BY <2>2 DEF InChannel, Carries
  <2>4. \A u : InCaller(u)' <=> InCaller(u) \/ u = t
    BY <2>2 DEF InCaller, Sends, Idle
  <2> QED
    BY <1>2, <2>2, <2>3, <2>4 DEF Lost
<1>4. CASE SendTask(c)
  <2>1. /\ caller[c].at = "sending" /\ caller[c].task \in Tasks
        /\ channel' = Append(channel, Some(caller[c].task))
        /\ caller' = [caller EXCEPT ![c] = Idle] /\ UNCHANGED counted
    BY <1>4 DEF SendTask, CallerStates
  <2>s. PICK s : s = caller[c].task
    OBVIOUS
  <2>2. Some(s) \in Messages /\ Some(s).kind = "some" /\ Some(s).task = s
    BY <2>1, <2>s, MessageTypes
  <2>3. \A u : InChannel(u)' <=> InChannel(u) \/ u = s
    <3> DEFINE m == Some(s)
    <3>1. m \in Messages /\ m.kind = "some" /\ m.task = s
      BY <2>2
    <3>2. channel' = Append(channel, m) /\ channel \in Seq(Messages)
      BY <2>1, <2>s
    <3> HIDE DEF m
    <3>3. /\ DOMAIN channel = 1 .. Len(channel) /\ DOMAIN channel' = 1 .. Len(channel) + 1
          /\ \A i \in 1 .. Len(channel) : channel'[i] = channel[i]
          /\ channel'[Len(channel) + 1] = m /\ Len(channel) \in Nat
      BY <3>1, <3>2
    <3>4. ASSUME NEW u, InChannel(u) PROVE InChannel(u)'
      BY <3>3, <3>4 DEF InChannel, Carries
    <3>5. InChannel(s)'
      BY <3>1, <3>3 DEF InChannel, Carries
    <3>6. ASSUME NEW u, InChannel(u)' PROVE InChannel(u) \/ u = s
      BY <3>1, <3>3, <3>6 DEF InChannel, Carries
    <3> QED
      BY <3>4, <3>5, <3>6
  <2>4. \A u : InCaller(u) <=> InCaller(u)' \/ u = s
    BY <2>1, <2>s DEF InCaller, Sends, Idle
  <2> QED
    BY <1>2, <2>1, <2>3, <2>4 DEF Lost
<1>5. CASE WaitCall(c) \/ WaitReturns(c)
  <2>1. /\ UNCHANGED <<channel, counted>> /\ caller[c].at # "sending"
        /\ caller' \in {[caller EXCEPT ![c] = Idle], [caller EXCEPT ![c] = [at |-> "waiting"]]}
    BY <1>5 DEF WaitCall, WaitReturns, Idle
  <2>2. \A u : (InChannel(u)' <=> InChannel(u)) /\ (InCaller(u)' <=> InCaller(u))
    BY <2>1 DEF InChannel, Carries, InCaller, Sends, Idle
  <2> QED
    BY <1>2, <2>1, <2>2 DEF Lost
<1> QED
  BY <1>3, <1>4, <1>5

\* Nor does a worker, unless its task panics: then it is that task, and the worker
\* is one more that is dead.
LEMMA WorkerLosesNone ==
  ASSUME PoolInv, NEW w \in Workers, WorkerStep(w), ~ TaskPanics(w)
  PROVE  Lost' = Lost /\ Dead' = Dead
<1> USE DEF PoolInv, PoolTypeOK
<1>0. UNCHANGED caller
  BY DEF WorkerStep, LockReceiver, Receive, ReceiveNone, TaskEnds, CountDown
<1>1. \A u : InCaller(u)' <=> InCaller(u)
  BY <1>0 DEF InCaller, Sends
<1>2. /\ \A v \in Workers \ {w} : worker'[v] = worker[v]
      /\ worker[w].at # "dead" /\ worker'[w].at # "dead"
  <2>1. CASE LockReceiver(w) \/ CountDown(w)
    BY <2>1 DEF LockReceiver, CountDown, Idle
  <2>2. CASE Receive(w) \/ ReceiveNone(w)
    BY <2>2 DEF Receive, ReceiveNone
  <2>3. CASE TaskEnds(w)
    BY <2>3 DEF TaskEnds, WorkerStates
  <2> QED
    BY <2>1, <2>2, <2>3 DEF WorkerStep
<1>3. Dead' = Dead
  BY <1>2 DEF Dead
<1>4. CASE LockReceiver(w) \/ TaskEnds(w)
  <2>1. UNCHANGED <<channel, counted>>
    BY <1>4 DEF LockReceiver, TaskEnds
  <2>2. LockReceiver(w) => ~ Works(w) /\ ~ Works(w)'
    BY DEF LockReceiver, Works, Idle
  <2>3. TaskEnds(w) => Works(w) /\ Works(w)' /\ worker'[w].task = worker[w].task
    BY DEF TaskEnds, Works, WorkerStates
  <2>4. \A u : (InChannel(u)' <=> InChannel(u)) /\ (InWorker(u)' <=> InWorker(u))
    BY <1>2, <1>4, <2>1, <2>2, <2>3 DEF InChannel, Carries, InWorker, Works
  <2> QED
    BY <1>1, <1>3, <2>1, <2>4 DEF Lost
<1>5. CASE CountDown(w)
  <2>1. /\ UNCHANGED channel /\ counted' = counted \ {worker[w].task}
        /\ worker[w].at = "counting" /\ worker'[w].at = "idle"
    BY <1>5 DEF CountDown, Idle
  <2>2. \A u : InChannel(u)' <=> InChannel(u)
    BY <2>1 DEF InChannel, Carries
  <2>3. \A u : InWorker(u) <=> InWorker(u)' \/ u = worker[w].task
    BY <1>2, <2>1 DEF InWorker, Works
  <2> QED
    BY <1>1, <1>3, <2>1, <2>2, <2>3 DEF Lost
<1>6. CASE Receive(w) \/ ReceiveNone(w)
  <2>1. channel # <<>> /\ channel' = Tail(channel) /\ UNCHANGED counted
        /\ worker[w].at = "receiving"
    BY <1>6 DEF Receive, ReceiveNone
  <2>2. /\ 1 \in DOMAIN channel /\ Head(channel) = channel[1]
        /\ \A m \in DOMAIN channel' : m + 1 \in DOMAIN channel /\ channel'[m] = channel[m + 1]
        /\ \A n \in DOMAIN channel : n # 1 =>
             n - 1 \in DOMAIN channel' /\ channel'[n - 1] = channel[n]
    <3>1. channel \in Seq(Messages)
      OBVIOUS
    <3> QED
      BY <2>1, <3>1
  <2>3. CASE Receive(w)
    <3>1. /\ channel[1].kind = "some" /\ worker'[w].at = "running"
          /\ worker'[w].task = channel[1].task
      BY <2>2, <2>3 DEF Receive
    <3>2. \A u : InChannel(u) <=> InChannel(u)' \/ u = channel[1].task
      BY <2>2, <3>1 DEF InChannel, Carries
    <3>3. \A u : InWorker(u)' <=> InWorker(u) \/ u = channel[1].task
      BY <1>2, <2>1, <3>1 DEF InWorker, Works
    <3> QED
      BY <1>1, <1>3, <2>1, <3>2, <3>3 DEF Lost
  <2>4. CASE ReceiveNone(w)
    <3>1. channel[1].kind = "none" /\ worker'[w].at = "stopped"
      BY <2>2, <2>4 DEF ReceiveNone
    <3>2. \A u : InChannel(u) <=> InChannel(u)'
      BY <2>2, <3>1 DEF InChannel, Carries
    <3>3. \A u : InWorker(u)' <=> InWorker(u)
      BY <1>2, <2>1, <3>1 DEF InWorker, Works
    <3> QED
      BY <1>1, <1>3, <2>1, <3>2, <3>3 DEF Lost
  <2> QED
    BY <1>6, <2>3, <2>4
<1> QED
  BY <1>4, <1>5, <1>6 DEF WorkerStep

\* The task of a panic is lost from then on.
LEMMA PanicLosesOne ==
  ASSUME PoolInv, NEW w \in Workers, TaskPanics(w)
  PROVE  /\ worker[w].task \in counted /\ worker[w].task \notin Lost
         /\ Lost' = Lost \cup {worker[w].task}
         /\ w \notin Dead /\ Dead' = Dead \cup {w}
<1> USE DEF PoolInv, PoolTypeOK, TaskPanics
<1>t. PICK t : t = worker[w].task
  OBVIOUS
<1>1. /\ worker[w].at = "running" /\ worker' = [worker EXCEPT ![w] = [at |-> "dead"]]
      /\ UNCHANGED <<channel, caller, counted>>
  OBVIOUS
<1>2. t \in counted
  BY <1>1, <1>t DEF PlacesCounted, Works
<1>3. InWorker(t) /\ ~ InChannel(t) /\ ~ InCaller(t)
  BY <1>1, <1>t DEF PlacesDistinct, Works, InWorker, InChannel, InCaller, Carries
<1>4. \A u : (InChannel(u)' <=> InChannel(u)) /\ (InCaller(u)' <=> InCaller(u))
  BY <1>1 DEF InChannel, InCaller, Carries, Sends
<1>5. \A u : InWorker(u)' <=> InWorker(u) /\ u # t
  BY <1>1, <1>t DEF PlacesDistinct, Works, InWorker
<1>6. t \notin Lost /\ Lost' = Lost \cup {t}
  BY <1>1, <1>2, <1>3, <1>4, <1>5 DEF Lost
<1>7. w \notin Dead /\ Dead' = Dead \cup {w}
  BY <1>1 DEF Dead
<1> QED
  BY <1>2, <1>6, <1>7, <1>t

\* Nor does the drop.
LEMMA DropLosesNone ==
  ASSUME PoolInv, DropSends \/ DropJoined
  PROVE  Lost' = Lost /\ Dead' = Dead
<1> USE DEF PoolInv, PoolTypeOK
<1>1. UNCHANGED <<worker, caller, counted>>
  BY DEF DropSends, DropJoined
<1>2. Dead' = Dead /\ \A u : (InWorker(u)' <=> InWorker(u)) /\ (InCaller(u)' <=> InCaller(u))
  BY <1>1 DEF Dead, InWorker, Works, InCaller, Sends
<1>3. \A u : InChannel(u)' <=> InChannel(u)
  <2>1. CASE UNCHANGED channel
    BY <2>1 DEF InChannel, Carries
  <2>2. CASE channel' = channel \o Nones(Cardinality(Workers))
    <3> DEFINE n == Cardinality(Workers)
    <3>1. n \in Nat /\ channel \in Seq(Messages) /\ None \in Messages /\ None.kind = "none"
      BY FS_CardinalityType, MessageTypes
    <3>2. channel' = channel \o Nones(n)
      BY <2>2
    <3> HIDE DEF n, PoolTypeOK
    <3>3. /\ DOMAIN channel = 1 .. Len(channel) /\ DOMAIN channel' = 1 .. Len(channel) + n
          /\ \A i \in 1 .. Len(channel) : channel'[i] = channel[i]
          /\ \A i \in Len(channel) + 1 .. Len(channel) + n : channel'[i] = None
          /\ Len(channel) \in Nat
      <4>1. /\ channel' \in Seq(Messages) /\ Len(channel') = Len(channel) + n
            /\ \A i \in 1 .. Len(channel) : channel'[i] = channel[i]
            /\ \A i \in Len(channel) + 1 .. Len(channel) + n : channel'[i] = None
        BY <3>1, <3>2, NonesType
      <4> QED
        BY <3>1, <4>1
    <3>4. ASSUME NEW u, InChannel(u) PROVE InChannel(u)'
      BY <3>1, <3>3, <3>4 DEF InChannel, Carries
    <3>5. ASSUME NEW u, InChannel(u)' PROVE InChannel(u)
      <4>1. PICK m \in DOMAIN channel' : channel'[m].kind = "some" /\ channel'[m].task = u
        BY <3>5 DEF InChannel, Carries
      <4>2. m \in 1 .. Len(channel)
        BY <3>1, <3>3, <4>1
      <4> QED
        BY <3>3, <4>1, <4>2 DEF InChannel, Carries
    <3> QED
      BY <3>4, <3>5
  <2> QED
    BY <2>1, <2>2 DEF DropSends, DropJoined, Nones
<1> QED
  BY <1>1, <1>2, <1>3 DEF Lost

-----------------------------------------------------------------------------
(* Plans and tasks *)

\* A nonempty set of natural numbers contains its least element.
LEMMA LeastInSet ==
  ASSUME NEW S \in SUBSET Nat, S # {}
  PROVE  Min(S) \in S /\ \A y \in S : Min(S) <= y
<1> DEFINE R == {ss \in Nat \X Nat : ss[1] < ss[2]}
<1>1. OpToRel(<, Nat) = R
  BY Zenon DEF OpToRel
<1>2. PICK x \in S : \A y \in S : ~ (<<y, x>> \in R)
  <2>1. IsWellFoundedOn(R, Nat)
    BY <1>1, NatLessThanWellFounded
  <2> HIDE DEF R
  <2> QED
    BY <2>1, WFMin
<1>3. ASSUME NEW y \in S PROVE x <= y
  <2>1. x \in Nat /\ y \in Nat
    OBVIOUS
  <2>2. ~ (<<y, x>> \in R)
    BY <1>2
  <2> QED
    BY <2>1, <2>2
<1> QED
  BY <1>3 DEF Min

\* Workers are numbered from zero, so that a remainder modulo their number is one.
LEMMA WorkerNumbers ==
  /\ Workers \subseteq Nat
  /\ \A i \in Nat : i % NumWorkers \in Workers
<1>1. Cardinality(Workers) \in Nat /\ Workers # {}
  BY PassAssumption, FS_CardinalityType
<1>2. PICK n : n = NumWorkers
  OBVIOUS
<1>3. n \in Nat /\ Workers = 0 .. n - 1
  BY <1>1, <1>2, PassAssumption DEF NumWorkers
<1>4. n # 0
  BY <1>1, <1>3
<1>5. ASSUME NEW i \in Nat PROVE i % n \in 0 .. n - 1
  BY <1>3, <1>4
<1> QED
  BY <1>2, <1>3, <1>5

\* What the scheduler may return.
LEMMA PlanFacts ==
  ASSUME NEW p \in Plans
  PROVE  /\ DOMAIN p \subseteq Nat
         /\ \A i \in DOMAIN p : p[i] \in Chunk /\ p[i].start < p[i].end
         /\ \A i, j \in DOMAIN p : i # j => RowsOf(p[i]) \cap RowsOf(p[j]) = {}
         /\ \A r \in Rows : \E i \in DOMAIN p : r \in RowsOf(p[i])
<1>1. PICK k \in 1 .. BatchSize : p \in [0 .. k - 1 -> Chunk]
  BY DEF Plans
<1>2. DOMAIN p \subseteq Nat /\ \A i \in DOMAIN p : p[i] \in Chunk
  BY <1>1, PassAssumption
<1>3. UNION {RowsOf(p[i]) : i \in DOMAIN p} = Rows
  BY DEF Plans
<1>4. \A r \in Rows : \E i \in DOMAIN p : r \in RowsOf(p[i])
  BY <1>3
<1> QED
  BY <1>2, <1>4 DEF Plans

\* Only logical workers have tasks handed in.
UnsentOK == unsent \subseteq Workers

\* It is so at first and stays so.
LEMMA UnsentAlways == Spec => []UnsentOK
<1>1. Init => UnsentOK
  BY DEF Init, UnsentOK
<1>2. UnsentOK /\ [Next]_vars => UnsentOK'
  <2> SUFFICES ASSUME UnsentOK, [Next]_vars PROVE UnsentOK'
    OBVIOUS
  <2>1. CASE BeginForward
    <3>1. plan' \in Plans /\ unsent' = {plan'[i].worker : i \in DOMAIN plan'}
      BY <2>1 DEF BeginForward
    <3>2. \A i \in DOMAIN plan' : plan'[i].worker \in Workers
      BY <3>1, PlanFacts DEF Chunk
    <3> QED
      BY <3>1, <3>2 DEF UnsentOK
  <2>2. CASE BeginBackward
    BY <2>2 DEF BeginBackward, Busy, UnsentOK
  <2>3. unsent' \subseteq unsent \/ BeginForward \/ BeginBackward
    BY DEF Next, vars, passVars, DispatcherStep, Submit, WaitAll, Waited, Merge, SumGrads,
       PassWorkerStep, Start, LockPool, ForwardChunk, BackwardChunk, WriteBack, EndTask,
       Panic, DropPool
  <2> QED
    BY <2>1, <2>2, <2>3 DEF UnsentOK
<1> QED
  BY <1>1, <1>2, PTL DEF Spec

\* The task of the next logical worker is one of the pool's.
LEMMA UnsentTask ==
  ASSUME UnsentOK, stage \in Passes, unsent # {}
  PROVE  Min(unsent) \in unsent /\ <<stage, Min(unsent)>> \in Tasks
<1>1. Min(unsent) \in unsent
  BY WorkerNumbers, LeastInSet DEF UnsentOK
<1> QED
  BY <1>1, PassAssumption DEF UnsentOK

\* Every step of a pass is a step of the pool or leaves the pool alone.
LEMMA PoolSteps == UnsentOK /\ [Next]_vars => [PoolNext]_poolVars
<1> SUFFICES ASSUME UnsentOK, [Next]_vars PROVE [PoolNext]_poolVars
  OBVIOUS
<1>1. Dispatcher \in Callers
  BY PassAssumption
<1>2. CASE Submit
  BY <1>1, <1>2, UnsentTask DEF Submit, PoolNext, CallerStep
<1>3. CASE (SendTask(Dispatcher) /\ UNCHANGED passVars) \/ WaitAll \/ Waited
  BY <1>1, <1>3 DEF WaitAll, Waited, PoolNext, CallerStep
<1>4. CASE BeginForward \/ Merge \/ BeginBackward \/ SumGrads
  BY <1>4 DEF BeginForward, Merge, BeginBackward, SumGrads
<1>5. CASE \E w \in Workers : PassWorkerStep(w)
  BY <1>5 DEF PassWorkerStep, Start, LockPool, ForwardChunk, BackwardChunk, WriteBack,
     EndTask, Panic, PoolNext, WorkerStep
<1>6. CASE DropPool
  BY <1>6 DEF DropPool, PoolNext
<1>7. CASE UNCHANGED vars
  BY <1>7 DEF vars
<1> QED
  BY <1>2, <1>3, <1>4, <1>5, <1>6, <1>7 DEF Next, DispatcherStep

\* The passes use the pool as it may be used: they implement its specification,
\* so that the counter is exact and wait_all is a barrier in every pass.
THEOREM PassUsesPool == Spec => PoolSpec
<1>1. Init => PoolInit
  BY DEF Init
<1> QED
  BY <1>1, UnsentAlways, PoolSteps, PTL DEF Spec, PoolSpec

-----------------------------------------------------------------------------
(* The invariant of a pass *)

Stages == Passes \cup {"ready", "merge forward", "between", "merge backward", "done"}

\* The chunks of the plan partition the rows.
PlanOK ==
  /\ ChunkIds \subseteq Nat
  /\ \A i \in ChunkIds : plan[i] \in Chunk /\ plan[i].start < plan[i].end
  /\ \A i, j \in ChunkIds : i # j => RowsOf(plan[i]) \cap RowsOf(plan[j]) = {}
  /\ IF stage = "ready" THEN ChunkIds = {}
     ELSE \A r \in Rows : \E i \in ChunkIds : r \in RowsOf(plan[i])

PassTypeOK ==
  /\ stage \in Stages
  /\ UnsentOK
  /\ rest \in [Workers -> SUBSET ChunkIds]
  /\ copy \in [Workers -> SUBSET {gradInput}]
  /\ DOMAIN chunkOutputs \subseteq ChunkIds
  /\ DOMAIN contexts \subseteq ChunkIds
  /\ stage \in {"backward", "merge backward", "done"} =>
       tempGrads = [i \in ChunkIds |-> tempGrads[i]]

\* What is stored under the id of a chunk was computed from the rows of the chunk.
ValueInv ==
  /\ \A i \in DOMAIN chunkOutputs : chunkOutputs[i] = RowsOf(plan[i])
  /\ \A i \in DOMAIN contexts : contexts[i] = RowsOf(plan[i])

\* What a task has to have done with a chunk.
Diagonal(i) == {<<r, r>> : r \in RowsOf(plan[i])}
ForwardDone(i) ==
  i \in DOMAIN contexts /\ (stage = "forward" => i \in DOMAIN chunkOutputs)
BackwardDone(i) ==
  tempGrads[i] = Diagonal(i) /\ \A r \in RowsOf(plan[i]) : gradInput[r] = {<<r, r>>}
Done(t, i) == IF t[1] = "forward" THEN ForwardDone(i) ELSE BackwardDone(i)

\* One running task has the mutex, and only it has copied grad_input.
HolderInv ==
  /\ \A v, w \in holder : v = w
  /\ \A w \in holder : w \in Workers /\ worker[w].at = "running"
  /\ \A w \in Workers : copy[w] # {} =>
       w \in holder /\ Running(w, "backward") /\ rest[w] # {}
         /\ tempGrads[Next1(w)] = Diagonal(Next1(w))

\* The tasks there are belong to the pass there is, and the dispatching thread
\* waits for all of them.
TaskInv ==
  /\ stage \notin Passes => counted = {} /\ unsent = {}
  /\ unsent \subseteq Busy(stage)
  /\ \A t \in counted : t[1] = stage /\ t[2] \in Workers \ unsent
  /\ stage \in Passes => \A w \in Busy(stage) \ unsent : <<stage, w>> \in mine[D]
  /\ caller[D].at = "waiting" => stage \in Passes /\ unsent = {}
  /\ \A t \in finished : t[1] = "forward" \/ stage \in {"backward", "merge backward", "done"}
  /\ stage = "ready" => finished = {}
  /\ life # "open" => stage \in {"ready", "between", "done"}

\* A task does its chunks one after the other and ends when they are done.
DoneInv ==
  /\ \A t \in finished : \A i \in ChunksOf(t) : Done(t, i)
  /\ \A w \in Workers : worker[w].at = "running" =>
       /\ rest[w] \subseteq ChunksOf(Task(w))
       /\ \A i \in ChunksOf(Task(w)) \ rest[w] : Done(Task(w), i)

\* What each stage of the pass relies on.
StageInv ==
  /\ stage = "merge forward" => DOMAIN chunkOutputs = ChunkIds
  /\ stage \in {"merge forward", "between", "backward", "merge backward", "done"}
       => DOMAIN contexts = ChunkIds
  /\ stage \in {"between", "backward", "merge backward", "done"}
       => \A r \in Rows : output[r] = {r}
  /\ stage \in {"merge backward", "done"} => \A i \in ChunkIds : BackwardDone(i)
  /\ EveryRowOnce

PassInv == PlanOK /\ PassTypeOK /\ ValueInv /\ HolderInv /\ TaskInv /\ DoneInv /\ StageInv

\* A panic under the mutex lost a task, and every worker that died lost one.
LostInv ==
  /\ poisoned => Lost # {}
  /\ Cardinality(Lost) = Cardinality(Dead)

AllInv == PoolInv /\ DropInv /\ PassInv /\ LostInv

\* A pass begins with nothing done and nobody at work.
LEMMA PassInvInit == Init => PassInv /\ LostInv
<1> SUFFICES ASSUME Init PROVE PassInv /\ LostInv
  OBVIOUS
<1> USE DEF Init, PoolInit
<1>1. ChunkIds = {}
  BY DEF ChunkIds
<1>2. PlanOK /\ PassTypeOK /\ ValueInv
  BY <1>1 DEF PlanOK, PassTypeOK, UnsentOK, ValueInv, Stages
<1>3. HolderInv /\ DoneInv /\ StageInv
  BY <1>1 DEF HolderInv, DoneInv, StageInv, Idle, EveryRowOnce
<1>5. TaskInv
  BY PassAssumption DEF TaskInv, Passes, Idle, D
<1>4. Lost = {} /\ Dead = {}
  BY DEF Lost, Dead, Idle
<1> QED
  BY <1>2, <1>3, <1>4, <1>5 DEF PassInv, LostInv

\* The tasks a pool works on name their pass and their logical worker.
LEMMA TaskTypes ==
  ASSUME AllInv
  PROVE  /\ \A t \in counted \cup finished : t[1] \in Passes /\ t[2] \in Workers /\ t = <<t[1], t[2]>>
         /\ \A w \in Workers : worker[w].at = "running" =>
              /\ Task(w) \in counted /\ Task(w)[1] = stage /\ stage \in Passes
              /\ ChunksOf(Task(w)) \subseteq ChunkIds
<1>1. \A t \in counted \cup finished : t \in Passes \X Workers
  BY PassAssumption DEF AllInv, PoolInv, PoolTypeOK
<1>2. ASSUME NEW w \in Workers, worker[w].at = "running"
      PROVE  /\ Task(w) \in counted /\ Task(w)[1] = stage /\ stage \in Passes
             /\ ChunksOf(Task(w)) \subseteq ChunkIds
  <2>1. Task(w) \in counted
    BY <1>2 DEF AllInv, PoolInv, PlacesCounted, Works, Task
  <2>2. Task(w)[1] = stage /\ stage \in Passes
    BY <1>1, <2>1 DEF AllInv, PassInv, TaskInv
  <2> QED
    BY <2>1, <2>2 DEF ChunksOf
<1> QED
  BY <1>1, <1>2

\* While nothing is counted nobody works, and nobody has panicked.
LEMMA NobodyWorks ==
  ASSUME AllInv, counted = {}
  PROVE  /\ \A w \in Workers : worker[w].at # "running"
         /\ holder = {} /\ ~ poisoned
         /\ \A w \in Workers : copy[w] = {}
<1>1. \A w \in Workers : worker[w].at # "running"
  BY TaskTypes
<1>2. holder = {}
  BY <1>1 DEF AllInv, PassInv, HolderInv
<1>3. Lost = {}
  BY DEF Lost
<1> QED
  BY <1>1, <1>2, <1>3 DEF AllInv, PassInv, LostInv, HolderInv

\* The rows of a chunk are rows of the batch, and its first row is the least.
LEMMA ChunkRows ==
  ASSUME PlanOK, NEW i \in ChunkIds
  PROVE  /\ RowsOf(plan[i]) \subseteq Rows /\ Rows \subseteq Nat
         /\ Min(RowsOf(plan[i])) = plan[i].start
<1>1. /\ plan[i].start \in Rows /\ plan[i].end \in 1 .. BatchSize
      /\ plan[i].start < plan[i].end /\ BatchSize \in Nat
  BY PassAssumption DEF PlanOK, Chunk
<1>2. RowsOf(plan[i]) \subseteq Rows /\ Rows \subseteq Nat
  BY <1>1 DEF RowsOf, Rows
<1>3. plan[i].start \in RowsOf(plan[i]) /\ \A y \in RowsOf(plan[i]) : plan[i].start <= y
  BY <1>1, <1>2 DEF RowsOf, Rows
<1>4. /\ Min(RowsOf(plan[i])) \in RowsOf(plan[i])
      /\ \A y \in RowsOf(plan[i]) : Min(RowsOf(plan[i])) <= y
  BY <1>2, <1>3, LeastInSet
<1>5. \A a \in Rows, b \in Rows : a <= b /\ b <= a => a = b
  BY <1>2
<1> QED
  BY <1>1, <1>2, <1>3, <1>4, <1>5

\* A chunk that meets its own contexts gets the gradients of its rows.
LEMMA GradsDiagonal ==
  ASSUME PlanOK, ValueInv, NEW i \in ChunkIds, i \in DOMAIN contexts
  PROVE  Grads(i) = Diagonal(i)
<1>1. contexts[i] = RowsOf(plan[i])
  BY DEF ValueInv
<1>2. /\ RowsOf(plan[i]) \subseteq Rows /\ Rows \subseteq Nat
      /\ Min(RowsOf(plan[i])) = plan[i].start /\ plan[i].start \in Nat
  BY ChunkRows, PassAssumption DEF PlanOK, Chunk, Rows
<1>3. ASSUME NEW g \in Grads(i) PROVE g \in Diagonal(i)
  <2>1. /\ g \in RowsOf(plan[i]) \X Rows /\ g[2] \in RowsOf(plan[i])
        /\ g[2] - plan[i].start = g[1] - plan[i].start
    BY <1>1, <1>2, <1>3 DEF Grads
  <2>2. g[1] \in Nat /\ g[2] \in Nat /\ plan[i].start \in Nat /\ g = <<g[1], g[2]>>
    <3>1. g[1] \in RowsOf(plan[i]) /\ g[2] \in Rows /\ g = <<g[1], g[2]>>
      BY <2>1
    <3> QED
      BY <1>2, <3>1
  <2>3. \A a, b, c \in Nat : a - c = b - c => a = b
    OBVIOUS
  <2>4. g[2] = g[1]
    BY <2>1, <2>2, <2>3
  <2> QED
    BY <2>1, <2>2, <2>4 DEF Diagonal
<1>4. ASSUME NEW r \in RowsOf(plan[i]) PROVE <<r, r>> \in Grads(i)
  BY <1>1, <1>2, <1>4 DEF Grads
<1> QED
  BY <1>3, <1>4 DEF Diagonal

\* The next chunk of a task is one of those it still has to do.
LEMMA NextChunk ==
  ASSUME AllInv, NEW w \in Workers, rest[w] # {}
  PROVE  Next1(w) \in rest[w] /\ Next1(w) \in ChunkIds
<1>1. rest[w] \subseteq ChunkIds /\ ChunkIds \subseteq Nat
  BY DEF AllInv, PassInv, PassTypeOK, PlanOK
<1> QED
  BY <1>1, LeastInSet DEF Next1

-----------------------------------------------------------------------------
(* The steps of the pool that leave the pass alone *)

\* What these steps change for a pass: no running task, and less that is counted.
Quiet ==
  /\ UNCHANGED <<passVars, finished, mine>>
  /\ counted' \subseteq counted
  /\ \A w \in Workers : worker'[w].at = "running" \/ worker[w].at = "running"
                          => worker'[w] = worker[w]
  /\ caller'[D].at = "waiting" => caller[D].at = "waiting" \/ (stage \in Passes /\ unsent = {})
  /\ life' # "open" => life # "open" \/ stage \in {"ready", "between", "done"}

\* The steps that are quiet: of the pool's channel, its counter and its end.
LEMMA QuietSteps ==
  ASSUME AllInv,
         \/ SendTask(Dispatcher) /\ UNCHANGED passVars
         \/ WaitAll
         \/ \E w \in Workers : (LockReceiver(w) \/ ReceiveNone(w) \/ CountDown(w))
                                 /\ UNCHANGED passVars
         \/ DropPool
  PROVE  Quiet
<1> USE DEF AllInv, PoolInv, PoolTypeOK
<1>0. D \in Callers
  BY PassAssumption DEF D
<1>1. CASE SendTask(Dispatcher) /\ UNCHANGED passVars
  BY <1>0, <1>1 DEF SendTask, Quiet, Idle, D
<1>2. CASE WaitAll
  BY <1>0, <1>2 DEF WaitAll, WaitCall, Quiet, D
<1>3. ASSUME NEW w \in Workers, LockReceiver(w) \/ ReceiveNone(w) \/ CountDown(w),
             UNCHANGED passVars
      PROVE  Quiet
  <2>1. \A v \in Workers \ {w} : worker'[v] = worker[v]
    BY <1>3 DEF LockReceiver, ReceiveNone, CountDown
  <2>2. worker[w].at # "running" /\ worker'[w].at # "running"
    BY <1>3 DEF LockReceiver, ReceiveNone, CountDown, Idle
  <2>3. UNCHANGED <<finished, mine, caller, life>> /\ counted' \subseteq counted
    BY <1>3 DEF LockReceiver, ReceiveNone, CountDown
  <2> QED
    BY <1>3, <2>1, <2>2, <2>3 DEF Quiet
<1>4. CASE DropPool
  BY <1>4 DEF DropPool, DropSends, DropJoined, Quiet
<1> QED
  BY <1>1, <1>2, <1>3, <1>4

\* They keep the invariant.
LEMMA QuietKeeps ==
  ASSUME AllInv, Quiet
  PROVE  PassInv'
<1>1. /\ UNCHANGED <<stage, unsent, plan, rest, holder, poisoned, chunkOutputs, contexts,
                     output, tempGrads, gradInput, copy, gradParams, finished, mine>>
      /\ PassInv
  BY DEF Quiet, passVars, dataVars, AllInv
<1>2. PlanOK' /\ PassTypeOK' /\ ValueInv'
  BY <1>1 DEF PassInv, PlanOK, PassTypeOK, UnsentOK, ValueInv, ChunkIds
<1>3. \A t, i : /\ ChunksOf(t)' = ChunksOf(t) /\ (Done(t, i)' <=> Done(t, i))
                /\ Busy(t)' = Busy(t)
  BY <1>1 DEF ChunksOf, ChunkIds, Busy, Done, ForwardDone, BackwardDone, Diagonal
<1>4. HolderInv'
  <2>1. \A i : Diagonal(i)' = Diagonal(i)
    BY <1>1 DEF Diagonal
  <2> QED
    BY <1>1, <2>1 DEF Quiet, PassInv, HolderInv, Running, Task, Next1
<1>5. TaskInv'
  <2>1. Busy(stage)' = Busy(stage)
    BY <1>1 DEF Busy, ChunksOf, ChunkIds
  <2> QED
    BY <1>1, <2>1 DEF Quiet, PassInv, TaskInv
<1>6. DoneInv'
  BY <1>1, <1>3 DEF Quiet, PassInv, DoneInv, Task
<1>7. StageInv'
  BY <1>1 DEF PassInv, StageInv, BackwardDone, Diagonal, ChunkIds, EveryRowOnce
<1> QED
  BY <1>2, <1>4, <1>5, <1>6, <1>7 DEF PassInv

-----------------------------------------------------------------------------
(* The steps of the dispatching thread *)

\* Handing a task in adds it to what is counted and to what is waited for.
LEMMA SubmitKeeps ==
  ASSUME AllInv, Submit
  PROVE  PassInv'
<1>m. PICK m : m = Min(unsent)
  OBVIOUS
<1>1. /\ stage \in Passes /\ m \in unsent /\ <<stage, m>> \in Tasks
      /\ CountTask(D, <<stage, m>>) /\ unsent' = unsent \ {m}
      /\ UNCHANGED <<stage, plan, rest, holder, poisoned, chunkOutputs, contexts,
                     output, tempGrads, gradInput, copy, gradParams>>
  BY <1>m, UnsentTask DEF Submit, AllInv, PassInv, PassTypeOK, dataVars, D
<1>2. /\ counted' = counted \cup {<<stage, m>>}
      /\ mine'[D] = mine[D] \cup {<<stage, m>>} /\ caller'[D].at = "sending"
      /\ UNCHANGED <<worker, finished, life>> /\ life = "open"
  BY <1>1, PassAssumption DEF CountTask, AllInv, PoolInv, PoolTypeOK, D
<1>3. PlanOK' /\ PassTypeOK' /\ ValueInv'
  BY <1>1 DEF AllInv, PassInv, PlanOK, PassTypeOK, UnsentOK, ValueInv, ChunkIds
<1>4. HolderInv'
  BY <1>1, <1>2 DEF AllInv, PassInv, HolderInv, Running, Task, Next1, Diagonal
<1>5. TaskInv'
  <2>1. Busy(stage)' = Busy(stage)
    BY <1>1 DEF Busy, ChunksOf, ChunkIds
  <2>2. m \in Workers
    BY <1>1 DEF AllInv, PassInv, PassTypeOK, UnsentOK
  <2>3. TaskInv
    BY DEF AllInv, PassInv
  <2>4. \A t \in counted' : t[1] = stage' /\ t[2] \in Workers \ unsent'
    <3>1. \A t \in counted : t[1] = stage /\ t[2] \in Workers \ unsent
      BY <2>3 DEF TaskInv
    <3>2. <<stage, m>>[1] = stage /\ <<stage, m>>[2] = m
      OBVIOUS
    <3>3. counted' = counted \cup {<<stage, m>>} /\ unsent' = unsent \ {m} /\ stage' = stage
      BY <1>1, <1>2
    <3> QED
      BY <2>2, <3>1, <3>2, <3>3
  <2>5. unsent' \subseteq Busy(stage)'
    BY <1>1, <2>1, <2>3 DEF TaskInv
  <2>6. \A w \in Busy(stage)' \ unsent' : <<stage', w>> \in mine'[D]
    BY <1>1, <1>2, <2>1, <2>3 DEF TaskInv
  <2>7. \A t \in finished : t[1] = "forward" \/ stage \in {"backward", "merge backward", "done"}
    BY <2>3 DEF TaskInv
  <2>8. stage # "ready"
    BY <1>1 DEF Passes
  <2> QED
    BY <1>1, <1>2, <2>4, <2>5, <2>6, <2>7, <2>8 DEF TaskInv
<1>6. DoneInv'
  <2>1. \A t, i : ChunksOf(t)' = ChunksOf(t) /\ (Done(t, i)' <=> Done(t, i))
    BY <1>1 DEF ChunksOf, ChunkIds, Done, ForwardDone, BackwardDone, Diagonal
  <2> QED
    BY <1>1, <1>2, <2>1 DEF AllInv, PassInv, DoneInv, Task
<1>7. StageInv'
  BY <1>1 DEF AllInv, PassInv, StageInv, BackwardDone, Diagonal, ChunkIds, EveryRowOnce
<1> QED
  BY <1>3, <1>4, <1>5, <1>6, <1>7 DEF PassInv

\* Every chunk belongs to the task of a logical worker that has one.
LEMMA ChunkHasTask ==
  ASSUME AllInv, stage \in Passes, NEW i \in ChunkIds
  PROVE  \E w \in Busy(stage) : i \in ChunksOf(<<stage, w>>)
<1>1. i \in Nat /\ plan[i].worker \in Workers
  BY DEF AllInv, PassInv, PlanOK, Chunk
<1>2. CASE stage = "forward"
  BY <1>1, <1>2 DEF Busy, ChunksOf
<1>3. CASE stage = "backward"
  <2>1. i % NumWorkers \in Workers
    BY <1>1, WorkerNumbers
  <2> QED
    BY <1>3, <2>1 DEF Busy, ChunksOf
<1> QED
  BY <1>2, <1>3 DEF Passes

\* When wait_all returns nothing is counted, and every chunk is done.
LEMMA WaitedDone ==
  ASSUME AllInv, WaitReturns(D)
  PROVE  /\ counted = {} /\ stage \in Passes /\ unsent = {} /\ life = "open"
         /\ \A i \in ChunkIds : Done(<<stage, 0>>, i)
<1>1. caller[D].at = "waiting" /\ D \in Callers
  BY PassAssumption DEF WaitReturns, D
<1>2. stage \in Passes /\ unsent = {} /\ life = "open"
  BY <1>1 DEF AllInv, PassInv, TaskInv, DropInv
<1>3. counted = {}
  <2>1. Cardinality(counted) = 0
    BY DEF AllInv, PoolInv, ActiveExact, WaitReturns
  <2> QED
    BY <2>1, CountedFinite, FS_EmptySet DEF AllInv, PoolInv
<1>4. \A w \in Busy(stage) : <<stage, w>> \in finished
  BY <1>1, <1>2, <1>3 DEF AllInv, PoolInv, MineKnown, PassInv, TaskInv
<1>5. ASSUME NEW i \in ChunkIds PROVE Done(<<stage, 0>>, i)
  <2>1. PICK w \in Busy(stage) : i \in ChunksOf(<<stage, w>>)
    BY <1>2, ChunkHasTask
  <2>2. Done(<<stage, w>>, i)
    BY <1>4, <2>1 DEF AllInv, PassInv, DoneInv
  <2> QED
    BY <2>2 DEF Done
<1> QED
  BY <1>2, <1>3, <1>5

\* wait_all returns: all chunks of the pass are done.
LEMMA WaitedKeeps ==
  ASSUME AllInv, Waited
  PROVE  PassInv'
<1>1. /\ WaitReturns(D)
      /\ stage' = IF stage = "forward" THEN "merge forward" ELSE "merge backward"
      /\ UNCHANGED <<unsent, plan, rest, holder, poisoned, chunkOutputs, contexts,
                     output, tempGrads, gradInput, copy, gradParams>>
  BY DEF Waited, dataVars, D
<1>2. /\ counted = {} /\ stage \in Passes /\ unsent = {} /\ life = "open"
      /\ \A i \in ChunkIds : Done(<<stage, 0>>, i)
  BY <1>1, WaitedDone
<1>3. /\ UNCHANGED <<counted, finished, worker, life>> /\ caller'[D].at = "idle"
  BY <1>1, PassAssumption DEF WaitReturns, AllInv, PoolInv, PoolTypeOK, D, Idle
<1>4. stage' \in {"merge forward", "merge backward"} /\ stage \in {"forward", "backward"}
  BY <1>1, <1>2 DEF Passes
<1>5. PlanOK' /\ PassTypeOK' /\ ValueInv'
  BY <1>1, <1>4 DEF AllInv, PassInv, PlanOK, PassTypeOK, UnsentOK, ValueInv, ChunkIds, Stages
<1>6. HolderInv'
  BY <1>1, <1>3 DEF AllInv, PassInv, HolderInv, Running, Task, Next1, Diagonal
<1>7. TaskInv'
  BY <1>1, <1>2, <1>3, <1>4 DEF AllInv, PassInv, TaskInv, Passes
<1>8. DoneInv'
  <2>1. \A t, i : ChunksOf(t)' = ChunksOf(t) /\ (Done(t, i) => Done(t, i)')
    BY <1>1, <1>4 DEF ChunksOf, ChunkIds, Done, ForwardDone, BackwardDone, Diagonal
  <2>2. \A w \in Workers : worker'[w].at # "running"
    BY <1>2, <1>3, NobodyWorks
  <2> QED
    BY <1>3, <2>1, <2>2 DEF AllInv, PassInv, DoneInv
<1>9. StageInv'
  <2>1. CASE stage = "forward"
    <3>1. stage' = "merge forward"
      BY <1>1, <2>1
    <3>2. \A i \in ChunkIds : i \in DOMAIN contexts /\ i \in DOMAIN chunkOutputs
      BY <1>2, <2>1 DEF Done, ForwardDone
    <3>3. DOMAIN contexts = ChunkIds /\ DOMAIN chunkOutputs = ChunkIds
      BY <3>2 DEF AllInv, PassInv, PassTypeOK
    <3> QED
      BY <1>1, <3>1, <3>3 DEF StageInv, ChunkIds, EveryRowOnce
  <2>2. CASE stage = "backward"
    <3>1. stage' = "merge backward"
      BY <1>1, <2>2
    <3>2. \A i \in ChunkIds : BackwardDone(i)
      BY <1>2, <2>2 DEF Done
    <3>3. \A i \in ChunkIds' : BackwardDone(i)'
      BY <1>1, <3>2 DEF ChunkIds, BackwardDone, Diagonal
    <3> QED
      BY <1>1, <2>2, <3>1, <3>3 DEF AllInv, PassInv, StageInv, ChunkIds, EveryRowOnce
  <2> QED
    BY <1>4, <2>1, <2>2
<1> QED
  BY <1>5, <1>6, <1>7, <1>8, <1>9 DEF PassInv

\* Between passes, and while chunks are merged, the dispatching thread is alone.
LEMMA Alone ==
  ASSUME AllInv, stage \notin Passes
  PROVE  /\ counted = {} /\ unsent = {} /\ holder = {} /\ ~ poisoned
         /\ \A w \in Workers : worker[w].at # "running" /\ copy[w] = {}
         /\ caller[D].at # "waiting"
<1>1. counted = {} /\ unsent = {} /\ caller[D].at # "waiting"
  BY DEF AllInv, PassInv, TaskInv
<1> QED
  BY <1>1, NobodyWorks

\* A forward pass begins with a plan that covers the batch.
LEMMA BeginForwardKeeps ==
  ASSUME AllInv, BeginForward
  PROVE  PassInv'
<1>1. /\ stage = "ready" /\ life = "open" /\ plan' \in Plans /\ stage' = "forward"
      /\ unsent' = {plan'[i].worker : i \in DOMAIN plan'}
      /\ UNCHANGED <<poolVars, rest, holder, poisoned, chunkOutputs, contexts,
                     output, tempGrads, gradInput, copy, gradParams>>
  BY DEF BeginForward, dataVars
<1>2. /\ counted = {} /\ unsent = {} /\ holder = {}
      /\ \A w \in Workers : worker[w].at # "running" /\ copy[w] = {}
      /\ caller[D].at # "waiting"
  BY <1>1, Alone DEF Passes
<1>3. UNCHANGED <<counted, finished, worker, caller, life, mine>>
  BY <1>1 DEF poolVars
<1>4. ChunkIds = {} /\ DOMAIN chunkOutputs = {} /\ DOMAIN contexts = {} /\ finished = {}
  BY <1>1 DEF AllInv, PassInv, PlanOK, PassTypeOK, TaskInv
<1>5. /\ ChunkIds' \subseteq Nat
      /\ \A i \in ChunkIds' : plan'[i] \in Chunk /\ plan'[i].start < plan'[i].end
      /\ \A i, j \in ChunkIds' : i # j => RowsOf(plan'[i]) \cap RowsOf(plan'[j]) = {}
      /\ \A r \in Rows : \E i \in ChunkIds' : r \in RowsOf(plan'[i])
  BY <1>1, PlanFacts DEF ChunkIds
<1>6. unsent' \subseteq Workers
  BY <1>1, <1>5 DEF ChunkIds, Chunk
<1>7. PlanOK'
  BY <1>1, <1>5 DEF PlanOK, RowsOf, Rows
<1>8. PassTypeOK'
  <2>1. rest' \in [Workers -> SUBSET ChunkIds']
    BY <1>1, <1>4 DEF AllInv, PassInv, PassTypeOK
  <2>2. copy' \in [Workers -> SUBSET {gradInput'}]
    BY <1>1 DEF AllInv, PassInv, PassTypeOK
  <2> QED
    BY <1>1, <1>4, <1>6, <2>1, <2>2 DEF PassTypeOK, UnsentOK, Stages, Passes
<1>9. ValueInv' /\ HolderInv'
  BY <1>1, <1>2, <1>3, <1>4 DEF ValueInv, HolderInv
<1>10. TaskInv'
  <2>1. unsent' = Busy(stage)'
    BY <1>1, <1>6 DEF Busy, ChunksOf, ChunkIds
  <2> QED
    BY <1>1, <1>2, <1>3, <1>4, <2>1 DEF TaskInv, Passes
<1>11. DoneInv' /\ StageInv'
  BY <1>1, <1>2, <1>3, <1>4 DEF DoneInv, StageInv, EveryRowOnce
<1> QED
  BY <1>7, <1>8, <1>9, <1>10, <1>11 DEF PassInv

\* Merging the chunks gives every row of the output the row it belongs to.
LEMMA MergeKeeps ==
  ASSUME AllInv, Merge
  PROVE  PassInv'
<1>1. /\ stage = "merge forward" /\ stage' = "between" /\ DOMAIN chunkOutputs' = {}
      /\ output' = [r \in Rows |->
           {r} \cap UNION {chunkOutputs[i] : i \in {j \in DOMAIN chunkOutputs :
                              r \in RowsOf(plan[j])}}]
      /\ UNCHANGED <<poolVars, unsent, plan, rest, holder, poisoned, contexts,
                     tempGrads, gradInput, copy, gradParams>>
  BY DEF Merge
<1>2. /\ counted = {} /\ unsent = {} /\ holder = {}
      /\ \A w \in Workers : worker[w].at # "running" /\ copy[w] = {}
      /\ caller[D].at # "waiting"
  BY <1>1, Alone DEF Passes
<1>3. UNCHANGED <<counted, finished, worker, caller, life, mine>>
  BY <1>1 DEF poolVars
<1>4. PlanOK' /\ PassTypeOK' /\ ValueInv'
  BY <1>1 DEF AllInv, PassInv, PlanOK, PassTypeOK, UnsentOK, ValueInv, ChunkIds, Stages
<1>5. HolderInv'
  BY <1>1, <1>2, <1>3 DEF HolderInv
<1>6. TaskInv'
  BY <1>1, <1>2, <1>3 DEF AllInv, PassInv, TaskInv, Passes
<1>7. DoneInv'
  <2>1. \A t, i : ChunksOf(t)' = ChunksOf(t) /\ (Done(t, i) => Done(t, i)')
    BY <1>1 DEF ChunksOf, ChunkIds, Done, ForwardDone, BackwardDone, Diagonal
  <2> QED
    BY <1>2, <1>3, <2>1 DEF AllInv, PassInv, DoneInv
<1>8. ASSUME NEW r \in Rows PROVE output'[r] = {r}
  <2>1. PICK i \in ChunkIds : r \in RowsOf(plan[i])
    BY <1>1 DEF AllInv, PassInv, PlanOK
  <2>2. i \in DOMAIN chunkOutputs /\ chunkOutputs[i] = RowsOf(plan[i])
    BY <1>1 DEF AllInv, PassInv, StageInv, ValueInv
  <2> QED
    BY <1>1, <2>1, <2>2
<1>9. StageInv'
  BY <1>1, <1>8 DEF AllInv, PassInv, StageInv, ChunkIds, EveryRowOnce
<1> QED
  BY <1>4, <1>5, <1>6, <1>7, <1>9 DEF PassInv

\* A backward pass begins with an empty gradient for every chunk.
LEMMA BeginBackwardKeeps ==
  ASSUME AllInv, BeginBackward
  PROVE  PassInv'
<1>1. /\ stage = "between" /\ life = "open" /\ stage' = "backward"
      /\ tempGrads' = [i \in ChunkIds |-> {}] /\ unsent' = Busy("backward")
      /\ UNCHANGED <<poolVars, plan, rest, holder, poisoned, chunkOutputs, contexts,
                     output, gradInput, copy, gradParams>>
  BY DEF BeginBackward
<1>2. /\ counted = {} /\ unsent = {} /\ holder = {}
      /\ \A w \in Workers : worker[w].at # "running" /\ copy[w] = {}
      /\ caller[D].at # "waiting"
  BY <1>1, Alone DEF Passes
<1>3. UNCHANGED <<counted, finished, worker, caller, life, mine>>
  BY <1>1 DEF poolVars
<1>4. PlanOK' /\ ValueInv'
  BY <1>1 DEF AllInv, PassInv, PlanOK, ValueInv, ChunkIds
<1>5. PassTypeOK'
  <2>1. unsent' \subseteq Workers
    BY <1>1 DEF Busy
  <2>2. tempGrads' = [i \in ChunkIds |-> tempGrads'[i]]
    BY <1>1
  <2> QED
    BY <1>1, <2>1, <2>2 DEF AllInv, PassInv, PassTypeOK, UnsentOK, ChunkIds, Stages, Passes
<1>6. HolderInv'
  BY <1>1, <1>2, <1>3 DEF HolderInv
<1>7. TaskInv'
  <2>1. Busy(stage)' = unsent'
    BY <1>1 DEF Busy, ChunksOf, ChunkIds
  <2> QED
    BY <1>1, <1>2, <1>3, <2>1 DEF AllInv, PassInv, TaskInv, Passes
<1>8. DoneInv'
  <2>1. \A t, i : t[1] = "forward" => ChunksOf(t)' = ChunksOf(t) /\ (Done(t, i) => Done(t, i)')
    BY <1>1 DEF ChunksOf, ChunkIds, Done, ForwardDone
  <2>2. \A t \in finished : t[1] = "forward"
    BY <1>1 DEF AllInv, PassInv, TaskInv
  <2> QED
    BY <1>2, <1>3, <2>1, <2>2 DEF AllInv, PassInv, DoneInv
<1>9. StageInv'
  BY <1>1 DEF AllInv, PassInv, StageInv, ChunkIds, EveryRowOnce
<1> QED
  BY <1>4, <1>5, <1>6, <1>7, <1>8, <1>9 DEF PassInv

\* The sum of the gradients holds every row once, for the chunks are disjoint.
LEMMA SumGradsKeeps ==
  ASSUME AllInv, SumGrads
  PROVE  PassInv'
<1>1. /\ stage = "merge backward" /\ stage' = "done"
      /\ gradParams' = [r \in Rows |-> Cardinality({i \in ChunkIds : <<r, r>> \in tempGrads[i]})]
      /\ UNCHANGED <<poolVars, unsent, plan, rest, holder, poisoned, chunkOutputs,
                     contexts, output, tempGrads, gradInput, copy>>
  BY DEF SumGrads
<1>2. /\ counted = {} /\ unsent = {} /\ holder = {}
      /\ \A w \in Workers : worker[w].at # "running" /\ copy[w] = {}
      /\ caller[D].at # "waiting"
  BY <1>1, Alone DEF Passes
<1>3. UNCHANGED <<counted, finished, worker, caller, life, mine>>
  BY <1>1 DEF poolVars
<1>4. PlanOK' /\ PassTypeOK' /\ ValueInv'
  BY <1>1 DEF AllInv, PassInv, PlanOK, PassTypeOK, UnsentOK, ValueInv, ChunkIds, Stages
<1>5. HolderInv'
  BY <1>1, <1>2, <1>3 DEF HolderInv
<1>6. TaskInv'
  BY <1>1, <1>2, <1>3 DEF AllInv, PassInv, TaskInv, Passes
<1>7. DoneInv'
  <2>1. \A t, i : ChunksOf(t)' = ChunksOf(t) /\ (Done(t, i) => Done(t, i)')
    BY <1>1 DEF ChunksOf, ChunkIds, Done, ForwardDone, BackwardDone, Diagonal
  <2> QED
    BY <1>2, <1>3, <2>1 DEF AllInv, PassInv, DoneInv
<1>8. ASSUME NEW r \in Rows PROVE gradParams'[r] = 1
  <2>1. PICK i \in ChunkIds : r \in RowsOf(plan[i])
    BY <1>1 DEF AllInv, PassInv, PlanOK
  <2>2. \A j \in ChunkIds : tempGrads[j] = Diagonal(j)
    BY <1>1 DEF AllInv, PassInv, StageInv, BackwardDone
  <2>3. \A j \in ChunkIds : <<r, r>> \in tempGrads[j] <=> r \in RowsOf(plan[j])
    BY <2>2 DEF Diagonal
  <2>4. \A j \in ChunkIds : r \in RowsOf(plan[j]) => j = i
    BY <2>1 DEF AllInv, PassInv, PlanOK
  <2>5. {j \in ChunkIds : <<r, r>> \in tempGrads[j]} = {i}
    BY <2>1, <2>3, <2>4
  <2> QED
    BY <1>1, <2>5, FS_Singleton
<1>9. StageInv'
  <2>1. \A i : BackwardDone(i)' <=> BackwardDone(i)
    BY <1>1 DEF BackwardDone, Diagonal
  <2> QED
    BY <1>1, <1>8, <2>1 DEF AllInv, PassInv, StageInv, ChunkIds, EveryRowOnce
<1> QED
  BY <1>4, <1>5, <1>6, <1>7, <1>9 DEF PassInv

-----------------------------------------------------------------------------
(* The steps of the tasks *)

\* A task that starts has all of its chunks to do.
LEMMA StartKeeps ==
  ASSUME AllInv, NEW w \in Workers, Start(w)
  PROVE  PassInv'
<1>t. PICK t : t = Head(channel).task
  OBVIOUS
<1>1. /\ Receive(w) /\ rest' = [rest EXCEPT ![w] = ChunksOf(t)]
      /\ UNCHANGED <<stage, unsent, plan, holder, poisoned, chunkOutputs, contexts,
                     output, tempGrads, gradInput, copy, gradParams>>
  BY <1>t DEF Start, dataVars
<1>2. /\ worker[w].at = "receiving" /\ UNCHANGED <<counted, finished, caller, life, mine>>
      /\ worker'[w].at = "running" /\ worker'[w].task = t
      /\ \A v \in Workers \ {w} : worker'[v] = worker[v]
  BY <1>1, <1>t DEF Receive, AllInv, PoolInv, PoolTypeOK
<1>3. rest'[w] = ChunksOf(t) /\ \A v \in Workers \ {w} : rest'[v] = rest[v]
  BY <1>1 DEF AllInv, PassInv, PassTypeOK
<1>4. PlanOK' /\ ValueInv'
  BY <1>1 DEF AllInv, PassInv, PlanOK, ValueInv, ChunkIds
<1>5. PassTypeOK'
  <2>1. ChunksOf(t) \subseteq ChunkIds
    BY DEF ChunksOf
  <2>2. rest' \in [Workers -> SUBSET ChunkIds]
    BY <1>1, <2>1 DEF AllInv, PassInv, PassTypeOK
  <2> QED
    BY <1>1, <2>2 DEF AllInv, PassInv, PassTypeOK, UnsentOK, ChunkIds
<1>6. HolderInv'
  <2>1. w \notin holder /\ copy[w] = {}
    BY <1>2 DEF AllInv, PassInv, HolderInv
  <2> QED
    BY <1>1, <1>2, <1>3, <2>1 DEF AllInv, PassInv, HolderInv, Running, Task, Next1, Diagonal
<1>7. TaskInv'
  <2>1. Busy(stage)' = Busy(stage)
    BY <1>1 DEF Busy, ChunksOf, ChunkIds
  <2> QED
    BY <1>1, <1>2, <2>1 DEF AllInv, PassInv, TaskInv
<1>8. DoneInv'
  <2>1. \A u, i : ChunksOf(u)' = ChunksOf(u) /\ (Done(u, i)' <=> Done(u, i))
    BY <1>1 DEF ChunksOf, ChunkIds, Done, ForwardDone, BackwardDone, Diagonal
  <2>2. \A v \in Workers \ {w} : Task(v)' = Task(v)
    BY <1>2 DEF Task
  <2>3. Task(w)' = t
    BY <1>2 DEF Task
  <2> QED
    BY <1>2, <1>3, <2>1, <2>2, <2>3 DEF AllInv, PassInv, DoneInv
<1>9. StageInv'
  BY <1>1 DEF AllInv, PassInv, StageInv, BackwardDone, Diagonal, ChunkIds, EveryRowOnce
<1> QED
  BY <1>4, <1>5, <1>6, <1>7, <1>8, <1>9 DEF PassInv

\* The mutex goes to one running task, and nobody has a copy then.
LEMMA LockPoolKeeps ==
  ASSUME AllInv, NEW w \in Workers, LockPool(w)
  PROVE  PassInv'
<1>1. /\ worker[w].at = "running" /\ holder = {} /\ holder' = {w}
      /\ UNCHANGED <<poolVars, stage, unsent, plan, rest, poisoned, chunkOutputs, contexts,
                     output, tempGrads, gradInput, copy, gradParams>>
  BY DEF LockPool, dataVars
<1>2. UNCHANGED <<counted, finished, worker, caller, life, mine>>
  BY <1>1 DEF poolVars
<1>3. PlanOK' /\ PassTypeOK' /\ ValueInv'
  BY <1>1 DEF AllInv, PassInv, PlanOK, PassTypeOK, UnsentOK, ValueInv, ChunkIds
<1>4. HolderInv'
  <2>1. \A v \in Workers : copy[v] = {}
    BY <1>1 DEF AllInv, PassInv, HolderInv
  <2> QED
    BY <1>1, <1>2, <2>1 DEF HolderInv
<1>5. TaskInv'
  <2>1. Busy(stage)' = Busy(stage)
    BY <1>1 DEF Busy, ChunksOf, ChunkIds
  <2> QED
    BY <1>1, <1>2, <2>1 DEF AllInv, PassInv, TaskInv
<1>6. DoneInv'
  <2>1. \A u, i : ChunksOf(u)' = ChunksOf(u) /\ (Done(u, i)' <=> Done(u, i))
    BY <1>1 DEF ChunksOf, ChunkIds, Done, ForwardDone, BackwardDone, Diagonal
  <2> QED
    BY <1>1, <1>2, <2>1 DEF AllInv, PassInv, DoneInv, Task
<1>7. StageInv'
  BY <1>1 DEF AllInv, PassInv, StageInv, BackwardDone, Diagonal, ChunkIds, EveryRowOnce
<1> QED
  BY <1>3, <1>4, <1>5, <1>6, <1>7 DEF PassInv

\* Only the task that has the mutex may have copied grad_input.
LEMMA OthersHaveNoCopy ==
  ASSUME AllInv, NEW w \in Workers, w \in holder
  PROVE  \A v \in Workers \ {w} : v \notin holder /\ copy[v] = {}
BY DEF AllInv, PassInv, HolderInv

\* A chunk of the forward pass: stored under its id, and no other chunk changes.
LEMMA ForwardChunkKeeps ==
  ASSUME AllInv, NEW w \in Workers, ForwardChunk(w)
  PROVE  PassInv'
<1>i. PICK i : i = Next1(w)
  OBVIOUS
<1>1. /\ worker[w].at = "running" /\ Task(w)[1] = "forward" /\ w \in holder /\ rest[w] # {}
      /\ chunkOutputs' = [j \in DOMAIN chunkOutputs \cup {i} |->
                            IF j = i THEN RowsOf(plan[i]) ELSE chunkOutputs[j]]
      /\ contexts' = [j \in DOMAIN contexts \cup {i} |->
                        IF j = i THEN RowsOf(plan[i]) ELSE contexts[j]]
      /\ rest' = [rest EXCEPT ![w] = @ \ {i}]
      /\ UNCHANGED <<poolVars, stage, unsent, plan, holder, poisoned, output, tempGrads,
                     gradInput, copy, gradParams>>
  BY <1>i DEF ForwardChunk, Running
<1>2. UNCHANGED <<counted, finished, worker, caller, life, mine>>
  BY <1>1 DEF poolVars
<1>3. stage = "forward" /\ i \in ChunkIds
  BY <1>1, <1>i, TaskTypes, NextChunk
<1>4. rest'[w] = rest[w] \ {i} /\ \A v \in Workers \ {w} : rest'[v] = rest[v]
  BY <1>1 DEF AllInv, PassInv, PassTypeOK
<1>5. DOMAIN chunkOutputs' = DOMAIN chunkOutputs \cup {i}
      /\ DOMAIN contexts' = DOMAIN contexts \cup {i}
  BY <1>1
<1>6. PlanOK'
  BY <1>1 DEF AllInv, PassInv, PlanOK, ChunkIds
<1>7. PassTypeOK'
  <2>1. rest' \in [Workers -> SUBSET ChunkIds]
    BY <1>1 DEF AllInv, PassInv, PassTypeOK
  <2> QED
    BY <1>1, <1>3, <1>5, <2>1 DEF AllInv, PassInv, PassTypeOK, UnsentOK, ChunkIds
<1>8. ValueInv'
  BY <1>1, <1>5 DEF AllInv, PassInv, ValueInv
<1>9. HolderInv'
  <2>1. copy[w] = {}
    BY <1>1 DEF AllInv, PassInv, HolderInv, Running
  <2>2. \A v \in Workers : copy'[v] = {}
    BY <1>1, <2>1, OthersHaveNoCopy
  <2> QED
    BY <1>1, <1>2, <2>2 DEF AllInv, PassInv, HolderInv
<1>10. TaskInv'
  <2>1. Busy(stage)' = Busy(stage)
    BY <1>1 DEF Busy, ChunksOf, ChunkIds
  <2> QED
    BY <1>1, <1>2, <2>1 DEF AllInv, PassInv, TaskInv
<1>11. DoneInv'
  <2>1. \A u, j : ChunksOf(u)' = ChunksOf(u) /\ (Done(u, j) => Done(u, j)')
    BY <1>1, <1>5 DEF ChunksOf, ChunkIds, Done, ForwardDone, BackwardDone, Diagonal
  <2>2. Done(Task(w), i)'
    BY <1>1, <1>2, <1>5 DEF Done, ForwardDone, Task
  <2>3. \A v : Task(v)' = Task(v)
    BY <1>2 DEF Task
  <2> QED
    BY <1>2, <1>4, <2>1, <2>2, <2>3 DEF AllInv, PassInv, DoneInv
<1>12. StageInv'
  BY <1>1, <1>3 DEF StageInv, EveryRowOnce
<1> QED
  BY <1>6, <1>7, <1>8, <1>9, <1>10, <1>11, <1>12 DEF PassInv

\* The first half of a backward chunk: its gradients, and a copy of grad_input.
LEMMA BackwardChunkKeeps ==
  ASSUME AllInv, NEW w \in Workers, BackwardChunk(w)
  PROVE  PassInv'
<1>i. PICK i : i = Next1(w)
  OBVIOUS
<1>1. /\ worker[w].at = "running" /\ Task(w)[1] = "backward" /\ w \in holder /\ rest[w] # {}
      /\ tempGrads' = [tempGrads EXCEPT ![i] = Grads(i)]
      /\ copy' = [copy EXCEPT ![w] = {gradInput}]
      /\ UNCHANGED <<poolVars, stage, unsent, plan, rest, holder, poisoned, chunkOutputs,
                     contexts, output, gradInput, gradParams>>
  BY <1>i DEF BackwardChunk, Running
<1>2. UNCHANGED <<counted, finished, worker, caller, life, mine>>
  BY <1>1 DEF poolVars
<1>3. stage = "backward" /\ i \in ChunkIds
  BY <1>1, <1>i, TaskTypes, NextChunk
<1>4. Grads(i) = Diagonal(i)
  <2>1. i \in DOMAIN contexts
    BY <1>3 DEF AllInv, PassInv, StageInv
  <2> QED
    BY <1>3, <2>1, GradsDiagonal DEF AllInv, PassInv
<1>5. /\ tempGrads = [j \in ChunkIds |-> tempGrads[j]]
      /\ tempGrads' = [j \in ChunkIds |-> IF j = i THEN Diagonal(i) ELSE tempGrads[j]]
  BY <1>1, <1>3, <1>4 DEF AllInv, PassInv, PassTypeOK
<1>6. PlanOK' /\ ValueInv'
  BY <1>1 DEF AllInv, PassInv, PlanOK, ValueInv, ChunkIds
<1>7. PassTypeOK'
  <2>1. copy' \in [Workers -> SUBSET {gradInput}]
    BY <1>1 DEF AllInv, PassInv, PassTypeOK
  <2>2. tempGrads' = [j \in ChunkIds |-> tempGrads'[j]]
    BY <1>5
  <2> QED
    BY <1>1, <2>1, <2>2 DEF AllInv, PassInv, PassTypeOK, UnsentOK, ChunkIds
<1>8. HolderInv'
  <2>1. \A v \in Workers \ {w} : copy'[v] = {}
    BY <1>1, OthersHaveNoCopy DEF AllInv, PassInv, PassTypeOK
  <2>2. Next1(w)' = i /\ Diagonal(i)' = Diagonal(i)
    BY <1>1, <1>i DEF Next1, Diagonal
  <2>3. tempGrads'[i] = Diagonal(i)
    BY <1>3, <1>5
  <2>4. Running(w, "backward")'
    BY <1>1, <1>2 DEF Running, Task
  <2>5. tempGrads'[Next1(w)'] = Diagonal(Next1(w))'
    BY <2>2, <2>3, <1>i, <1>1 DEF Next1, Diagonal
  <2> QED
    BY <1>1, <1>2, <2>1, <2>4, <2>5 DEF AllInv, PassInv, HolderInv
<1>9. TaskInv'
  <2>1. Busy(stage)' = Busy(stage)
    BY <1>1 DEF Busy, ChunksOf, ChunkIds
  <2> QED
    BY <1>1, <1>2, <2>1 DEF AllInv, PassInv, TaskInv
<1>10. DoneInv'
  <2>1. \A u : ChunksOf(u)' = ChunksOf(u) /\ ChunksOf(u) \subseteq ChunkIds
    BY <1>1 DEF ChunksOf, ChunkIds
  <2>2. \A u, j : j \in ChunkIds /\ Done(u, j) => Done(u, j)'
    BY <1>1, <1>5 DEF Done, ForwardDone, BackwardDone, Diagonal
  <2> QED
    BY <1>1, <1>2, <2>1, <2>2 DEF AllInv, PassInv, DoneInv, Task
<1>11. StageInv'
  BY <1>1, <1>3 DEF AllInv, PassInv, StageInv, ChunkIds, EveryRowOnce
<1> QED
  BY <1>6, <1>7, <1>8, <1>9, <1>10, <1>11 DEF PassInv

\* The second half: the copy with the chunk's rows replaces grad_input.  No row is
\* lost, because nobody has written to it since the copy was made.
LEMMA WriteBackKeeps ==
  ASSUME AllInv, NEW w \in Workers, WriteBack(w)
  PROVE  PassInv'
<1>i. PICK i : i = Next1(w)
  OBVIOUS
<1>1. /\ worker[w].at = "running" /\ Task(w)[1] = "backward" /\ copy[w] # {}
      /\ gradInput' = [r \in Rows |->
           IF r \in RowsOf(plan[i]) THEN {g \in tempGrads[i] : g[1] = r}
           ELSE UNION {b[r] : b \in copy[w]}]
      /\ copy' = [copy EXCEPT ![w] = {}]
      /\ rest' = [rest EXCEPT ![w] = @ \ {i}]
      /\ UNCHANGED <<poolVars, stage, unsent, plan, holder, poisoned, chunkOutputs,
                     contexts, output, tempGrads, gradParams>>
  BY <1>i DEF WriteBack, Running
<1>2. UNCHANGED <<counted, finished, worker, caller, life, mine>>
  BY <1>1 DEF poolVars
<1>3. /\ w \in holder /\ rest[w] # {} /\ tempGrads[i] = Diagonal(i)
      /\ copy[w] = {gradInput}
  <2>1. w \in holder /\ rest[w] # {} /\ tempGrads[Next1(w)] = Diagonal(Next1(w))
    BY <1>1 DEF AllInv, PassInv, HolderInv
  <2>2. copy[w] \in SUBSET {gradInput}
    BY DEF AllInv, PassInv, PassTypeOK
  <2>3. tempGrads[i] = Diagonal(i)
    BY <1>i, <2>1
  <2> QED
    BY <1>1, <2>1, <2>2, <2>3
<1>4. stage = "backward" /\ i \in ChunkIds
  BY <1>1, <1>3, <1>i, TaskTypes, NextChunk
<1>5. rest'[w] = rest[w] \ {i} /\ \A v \in Workers \ {w} : rest'[v] = rest[v]
  BY <1>1 DEF AllInv, PassInv, PassTypeOK
<1>6. \A v \in Workers : copy'[v] = {}
  BY <1>1, <1>3, OthersHaveNoCopy DEF AllInv, PassInv, PassTypeOK
<1>7. \A r \in Rows : gradInput'[r] = IF r \in RowsOf(plan[i]) THEN {<<r, r>>} ELSE gradInput[r]
  <2>1. ASSUME NEW r \in RowsOf(plan[i])
        PROVE  {g \in Diagonal(i) : g[1] = r} = {<<r, r>>}
    BY <2>1 DEF Diagonal
  <2>2. \A r : UNION {b[r] : b \in {gradInput}} = gradInput[r]
    OBVIOUS
  <2> QED
    BY <1>1, <1>3, <2>1, <2>2
<1>8. \A j \in ChunkIds : BackwardDone(j) \/ j = i => BackwardDone(j)'
  <2>1. \A j \in ChunkIds : RowsOf(plan[j]) \subseteq Rows
    BY ChunkRows DEF AllInv, PassInv
  <2>2. \A j \in ChunkIds : \A r \in RowsOf(plan[j]) :
          gradInput[r] = {<<r, r>>} \/ j = i => gradInput'[r] = {<<r, r>>}
    BY <1>7, <2>1
  <2> QED
    BY <1>1, <1>3, <2>2 DEF BackwardDone, Diagonal
<1>9. PlanOK' /\ ValueInv'
  BY <1>1 DEF AllInv, PassInv, PlanOK, ValueInv, ChunkIds
<1>10. PassTypeOK'
  <2>1. rest' \in [Workers -> SUBSET ChunkIds]
    BY <1>1 DEF AllInv, PassInv, PassTypeOK
  <2>2. copy' \in [Workers -> SUBSET {gradInput'}]
    BY <1>1, <1>6 DEF AllInv, PassInv, PassTypeOK
  <2> QED
    BY <1>1, <2>1, <2>2 DEF AllInv, PassInv, PassTypeOK, UnsentOK, ChunkIds
<1>11. HolderInv'
  BY <1>1, <1>2, <1>6 DEF AllInv, PassInv, HolderInv
<1>12. TaskInv'
  <2>1. Busy(stage)' = Busy(stage)
    BY <1>1 DEF Busy, ChunksOf, ChunkIds
  <2> QED
    BY <1>1, <1>2, <2>1 DEF AllInv, PassInv, TaskInv
<1>13. DoneInv'
  <2>1. \A u : ChunksOf(u)' = ChunksOf(u) /\ ChunksOf(u) \subseteq ChunkIds
    BY <1>1 DEF ChunksOf, ChunkIds
  <2>2. \A u, j : j \in ChunkIds /\ Done(u, j) => Done(u, j)'
    BY <1>1, <1>8 DEF Done, ForwardDone
  <2>3. Done(Task(w), i)' /\ \A v : Task(v)' = Task(v)
    BY <1>1, <1>2, <1>4, <1>8 DEF Done, Task
  <2> QED
    BY <1>2, <1>5, <2>1, <2>2, <2>3 DEF AllInv, PassInv, DoneInv
<1>14. StageInv'
  BY <1>1, <1>4 DEF AllInv, PassInv, StageInv, ChunkIds, EveryRowOnce
<1> QED
  BY <1>9, <1>10, <1>11, <1>12, <1>13, <1>14 DEF PassInv

\* A task that ends has done all of its chunks.
LEMMA EndTaskKeeps ==
  ASSUME AllInv, NEW w \in Workers, EndTask(w)
  PROVE  PassInv'
<1>1. /\ TaskEnds(w) /\ rest[w] = {} /\ holder' = holder \ {w}
      /\ UNCHANGED <<stage, unsent, plan, rest, poisoned, chunkOutputs, contexts,
                     output, tempGrads, gradInput, copy, gradParams>>
  BY DEF EndTask, dataVars
<1>2. /\ worker[w].at = "running" /\ worker'[w].at = "counting"
      /\ finished' = finished \cup {Task(w)} /\ UNCHANGED <<counted, caller, life, mine>>
      /\ \A v \in Workers \ {w} : worker'[v] = worker[v]
  BY <1>1 DEF TaskEnds, Task, AllInv, PoolInv, PoolTypeOK, WorkerStates
<1>3. Task(w)[1] = stage /\ stage \in Passes
  BY <1>2, TaskTypes
<1>4. PlanOK' /\ PassTypeOK' /\ ValueInv'
  BY <1>1 DEF AllInv, PassInv, PlanOK, PassTypeOK, UnsentOK, ValueInv, ChunkIds
<1>5. HolderInv'
  <2>1. copy[w] = {}
    BY <1>1 DEF AllInv, PassInv, HolderInv
  <2> QED
    BY <1>1, <1>2, <2>1 DEF AllInv, PassInv, HolderInv, Running, Task, Next1, Diagonal
<1>6. TaskInv'
  <2>1. Busy(stage)' = Busy(stage)
    BY <1>1 DEF Busy, ChunksOf, ChunkIds
  <2>2. Task(w)[1] = "forward" \/ stage = "backward"
    BY <1>3 DEF Passes
  <2>3. stage # "ready"
    BY <1>3 DEF Passes
  <2> QED
    BY <1>1, <1>2, <2>1, <2>2, <2>3 DEF AllInv, PassInv, TaskInv
<1>7. DoneInv'
  <2>1. \A u, i : ChunksOf(u)' = ChunksOf(u) /\ (Done(u, i)' <=> Done(u, i))
    BY <1>1 DEF ChunksOf, ChunkIds, Done, ForwardDone, BackwardDone, Diagonal
  <2>2. \A i \in ChunksOf(Task(w)) : Done(Task(w), i)
    BY <1>1, <1>2 DEF AllInv, PassInv, DoneInv
  <2>3. \A u \in finished' : \A i \in ChunksOf(u) : Done(u, i)
    BY <1>2, <2>2 DEF AllInv, PassInv, DoneInv
  <2>4. \A v \in Workers \ {w} : Task(v)' = Task(v)
    BY <1>2 DEF Task
  <2> QED
    BY <1>1, <1>2, <2>1, <2>3, <2>4 DEF AllInv, PassInv, DoneInv
<1>8. StageInv'
  BY <1>1 DEF AllInv, PassInv, StageInv, BackwardDone, Diagonal, ChunkIds, EveryRowOnce
<1> QED
  BY <1>4, <1>5, <1>6, <1>7, <1>8 DEF PassInv

\* A panic gives the mutex back poisoned and writes a copy back as it was.
LEMMA PanicKeeps ==
  ASSUME AllInv, NEW w \in Workers, Panic(w)
  PROVE  PassInv'
<1>1. /\ TaskPanics(w) /\ holder' = holder \ {w}
      /\ gradInput' \in IF copy[w] = {} THEN {gradInput} ELSE copy[w]
      /\ copy' = [copy EXCEPT ![w] = {}]
      /\ UNCHANGED <<stage, unsent, plan, rest, chunkOutputs, contexts, output, tempGrads,
                     gradParams>>
  BY DEF Panic
<1>2. /\ worker[w].at = "running" /\ worker'[w].at = "dead"
      /\ UNCHANGED <<finished, counted, caller, life, mine>>
      /\ \A v \in Workers \ {w} : worker'[v] = worker[v]
  BY <1>1 DEF TaskPanics, AllInv, PoolInv, PoolTypeOK
<1>3. copy \in [Workers -> SUBSET {gradInput}]
  BY DEF AllInv, PassInv, PassTypeOK
<1>4. gradInput' = gradInput /\ copy' \in [Workers -> SUBSET {gradInput}]
      /\ copy'[w] = {} /\ \A v \in Workers \ {w} : copy'[v] = copy[v]
  BY <1>1, <1>3
<1>5. PlanOK' /\ PassTypeOK' /\ ValueInv'
  BY <1>1, <1>4 DEF AllInv, PassInv, PlanOK, PassTypeOK, UnsentOK, ValueInv, ChunkIds
<1>6. HolderInv'
  BY <1>1, <1>2, <1>4 DEF AllInv, PassInv, HolderInv, Running, Task, Next1, Diagonal
<1>7. TaskInv'
  <2>1. Busy(stage)' = Busy(stage)
    BY <1>1 DEF Busy, ChunksOf, ChunkIds
  <2> QED
    BY <1>1, <1>2, <2>1 DEF AllInv, PassInv, TaskInv
<1>8. DoneInv'
  <2>1. \A u, i : ChunksOf(u)' = ChunksOf(u) /\ (Done(u, i)' <=> Done(u, i))
    BY <1>1, <1>4 DEF ChunksOf, ChunkIds, Done, ForwardDone, BackwardDone, Diagonal
  <2>2. \A v \in Workers \ {w} : Task(v)' = Task(v)
    BY <1>2 DEF Task
  <2> QED
    BY <1>1, <1>2, <2>1, <2>2 DEF AllInv, PassInv, DoneInv
<1>9. StageInv'
  BY <1>1, <1>4 DEF AllInv, PassInv, StageInv, BackwardDone, Diagonal, ChunkIds, EveryRowOnce
<1> QED
  BY <1>5, <1>6, <1>7, <1>8, <1>9 DEF PassInv

-----------------------------------------------------------------------------
(* All steps together *)

\* Lost tasks and dead workers are as many after every step.
LEMMA LostStep == AllInv /\ [Next]_vars => LostInv'
<1> SUFFICES ASSUME AllInv, [Next]_vars PROVE LostInv'
  OBVIOUS
<1>0. Dispatcher \in Callers /\ PoolInv
  BY PassAssumption DEF AllInv
<1>1. ASSUME UNCHANGED poolVars, UNCHANGED poisoned PROVE LostInv'
  <2>1. Lost' = Lost /\ Dead' = Dead
    BY <1>1 DEF poolVars, Lost, Dead, InChannel, InWorker, InCaller, Carries, Works, Sends
  <2> QED
    BY <1>1, <2>1 DEF AllInv, LostInv
<1>2. ASSUME Lost' = Lost, Dead' = Dead, UNCHANGED poisoned PROVE LostInv'
  BY <1>2 DEF AllInv, LostInv
<1>3. CASE Submit
  <2>1. <<stage, Min(unsent)>> \in Tasks
    BY <1>3, UnsentTask DEF Submit, AllInv, PassInv, PassTypeOK
  <2> QED
    BY <1>0, <1>2, <1>3, <2>1, CallerLosesNone DEF Submit
<1>4. CASE (SendTask(Dispatcher) /\ UNCHANGED passVars) \/ WaitAll \/ Waited
  BY <1>0, <1>2, <1>4, CallerLosesNone DEF WaitAll, Waited, passVars
<1>5. CASE BeginForward \/ Merge \/ BeginBackward \/ SumGrads
  BY <1>1, <1>5 DEF BeginForward, Merge, BeginBackward, SumGrads
<1>6. ASSUME NEW w \in Workers, Panic(w) PROVE LostInv'
  <2>1. /\ worker[w].task \notin Lost /\ Lost' = Lost \cup {worker[w].task}
        /\ w \notin Dead /\ Dead' = Dead \cup {w}
    BY <1>0, <1>6, PanicLosesOne DEF Panic
  <2>2. IsFiniteSet(Lost) /\ IsFiniteSet(Dead)
    <3>1. Lost \subseteq counted /\ Dead \subseteq Workers
      BY DEF Lost, Dead
    <3> QED
      BY <1>0, <3>1, CountedFinite, FS_Subset DEF PoolInv
  <2>3. Cardinality(Lost') = Cardinality(Lost) + 1 /\ Cardinality(Dead') = Cardinality(Dead) + 1
    BY <2>1, <2>2, FS_AddElement
  <2> QED
    BY <2>1, <2>3 DEF AllInv, LostInv
<1>7. ASSUME NEW w \in Workers, PassWorkerStep(w), ~ Panic(w) PROVE LostInv'
  <2>1. CASE LockPool(w) \/ ForwardChunk(w) \/ BackwardChunk(w) \/ WriteBack(w)
    BY <1>1, <2>1 DEF LockPool, ForwardChunk, BackwardChunk, WriteBack
  <2>2. CASE \/ (LockReceiver(w) \/ ReceiveNone(w) \/ CountDown(w)) /\ UNCHANGED passVars
             \/ Start(w) \/ EndTask(w)
    <3>1. WorkerStep(w) /\ UNCHANGED poisoned
      BY <2>2 DEF Start, EndTask, WorkerStep, passVars
    <3>2. ~ TaskPanics(w)
      BY <2>2 DEF TaskPanics, Start, EndTask, LockReceiver, ReceiveNone, CountDown, Receive,
                  TaskEnds, AllInv, PoolInv, PoolTypeOK, WorkerStates, Idle
    <3> QED
      BY <1>0, <1>2, <3>1, <3>2, WorkerLosesNone
  <2> QED
    BY <1>7, <2>1, <2>2 DEF PassWorkerStep
<1>8. CASE DropPool
  BY <1>0, <1>2, <1>8, DropLosesNone DEF DropPool, passVars
<1>9. CASE UNCHANGED vars
  BY <1>1, <1>9 DEF vars, passVars
<1> QED
  BY <1>3, <1>4, <1>5, <1>6, <1>7, <1>8, <1>9 DEF Next, DispatcherStep

\* The invariant of a pass is inductive.
LEMMA PassInvStep == AllInv /\ [Next]_vars => PassInv'
<1> SUFFICES ASSUME AllInv, [Next]_vars PROVE PassInv'
  OBVIOUS
<1>1. CASE DispatcherStep
  BY <1>1, BeginForwardKeeps, SubmitKeeps, QuietSteps, QuietKeeps, WaitedKeeps, MergeKeeps,
     BeginBackwardKeeps, SumGradsKeeps DEF DispatcherStep
<1>2. ASSUME NEW w \in Workers, PassWorkerStep(w) PROVE PassInv'
  BY <1>2, QuietSteps, QuietKeeps, StartKeeps, LockPoolKeeps, ForwardChunkKeeps,
     BackwardChunkKeeps, WriteBackKeeps, EndTaskKeeps, PanicKeeps DEF PassWorkerStep
<1>3. CASE DropPool
  BY <1>3, QuietSteps, QuietKeeps
<1>4. CASE UNCHANGED vars
  <2>1. Quiet
    BY <1>4 DEF vars, poolVars, Quiet
  <2> QED
    BY <2>1, QuietKeeps
<1> QED
  BY <1>1, <1>2, <1>3, <1>4 DEF Next

\* What the pool promises, and what the pass relies on, hold in every state.
LEMMA AllInvAlways == Spec => []AllInv
<1>1. Init => AllInv
  BY PoolInvInit, DropInvInit, PassInvInit DEF AllInv, Init
<1>2. AllInv /\ [Next]_vars => AllInv'
  <2> SUFFICES ASSUME AllInv, [Next]_vars PROVE AllInv'
    OBVIOUS
  <2>1. [PoolNext]_poolVars
    BY PoolSteps DEF AllInv, PassInv, PassTypeOK
  <2>2. PoolInv'
    BY <2>1, PoolInvStep DEF AllInv
  <2>3. DropInv'
    <3>1. CASE UNCHANGED poolVars
      BY <3>1 DEF poolVars, AllInv, DropInv, TasksFirst, OnlyTasks, OnlyNones, AllEnded
    <3>2. CASE PoolNext
      BY <3>2, CallerDrop, WorkerDrop, DropDrop DEF AllInv, PoolInv, PoolNext
    <3> QED
      BY <2>1, <3>1, <3>2
  <2> QED
    BY <2>2, <2>3, PassInvStep, LostStep DEF AllInv
<1> QED
  BY <1>1, <1>2, PTL DEF Spec

\* Whatever the plan, the threads and the panics: a forward pass that has been
\* merged has every row of the output, each from its own row of the input, and
\* the contexts of every chunk under its id.
THEOREM ForwardIsComplete == Spec => []ForwardComplete
<1>1. AllInv => ForwardComplete
  BY DEF AllInv, PassInv, StageInv, ValueInv, ForwardComplete
<1> QED
  BY <1>1, AllInvAlways, PTL

\* After a backward pass every row of grad_input is the gradient of that row: the
\* copies that write guards put back lose no row of another task.
THEOREM GradInputIsComplete == Spec => []GradInputComplete
<1>1. ASSUME AllInv, stage \in {"merge backward", "done"}, NEW r \in Rows
      PROVE  gradInput[r] = {<<r, r>>}
  <2>1. PICK i \in ChunkIds : r \in RowsOf(plan[i])
    BY <1>1 DEF AllInv, PassInv, PlanOK
  <2> QED
    BY <1>1, <2>1 DEF AllInv, PassInv, StageInv, BackwardDone
<1>2. AllInv => GradInputComplete
  BY <1>1 DEF GradInputComplete
<1> QED
  BY <1>2, AllInvAlways, PTL

\* The gradient of the parameters holds every row of the batch exactly once.
THEOREM RowsCountedOnce == Spec => []EveryRowOnce
<1>1. AllInv => EveryRowOnce
  BY DEF AllInv, PassInv, StageInv
<1> QED
  BY <1>1, AllInvAlways, PTL

\* A worker is alive while the dispatching thread still has a task to send: each
\* dead worker lost a task, the task in hand is not lost, and a pass has no more
\* tasks than there are workers.
LEMMA SomebodyReceives ==
  ASSUME AllInv, caller[D].at = "sending"
  PROVE  ~ AllEnded
<1> SUFFICES ASSUME AllEnded PROVE FALSE
  OBVIOUS
<1>0. D \in Callers
  BY PassAssumption DEF D
<1>t. PICK t : t = caller[D].task
  OBVIOUS
<1>1. t \in counted /\ t \notin Lost
  BY <1>0, <1>t DEF AllInv, PoolInv, PlacesCounted, Sends, Lost, InCaller
<1>2. stage \in Passes /\ t[1] = stage /\ t[2] \in Workers /\ t = <<stage, t[2]>>
  BY <1>1, TaskTypes DEF AllInv, PassInv, TaskInv
<1>3. life = "open"
  BY <1>0 DEF AllInv, DropInv
<1>4. Dead = Workers
  BY <1>3 DEF Dead, AllEnded, AllInv, DropInv
<1>5. \A u \in Lost : u = <<stage, u[2]>> /\ u[2] \in Workers
  BY TaskTypes DEF Lost, AllInv, PassInv, TaskInv
<1>6. Cardinality(Lost) <= Cardinality(Workers \ {t[2]})
  <2> DEFINE f == [u \in Lost |-> u[2]]
             W == Workers \ {t[2]}
  <2>1. \A u \in Lost : u[2] # t[2]
    BY <1>1, <1>2, <1>5
  <2>2. f \in [Lost -> W]
    BY <1>5, <2>1
  <2>3. \A u, v \in Lost : f[u] = f[v] => u = v
    BY <1>5
  <2>4. f \in Injection(Lost, W)
    BY <2>2, <2>3 DEF Injection, IsInjective
  <2>5. IsFiniteSet(W)
    BY FS_Subset
  <2> QED
    BY <2>4, <2>5, FS_Injection
<1>7. /\ Cardinality(Workers \ {t[2]}) = Cardinality(Workers) - 1
      /\ Cardinality(Workers) \in Nat
  BY <1>2, FS_RemoveElement, FS_CardinalityType
<1>8. Cardinality(Lost) = Cardinality(Workers)
  BY <1>4 DEF AllInv, LostInv
<1> QED
  BY <1>6, <1>7, <1>8

\* No expect or unwrap of the dispatching thread fails, however many tasks panic.
THEOREM NoExpectFails == Spec => []ExpectsHold
<1>1. ASSUME AllInv, caller[Dispatcher].at = "sending" PROVE ~ AllEnded
  BY <1>1, SomebodyReceives DEF D
<1>2. AllInv => (stage = "merge forward" => DOMAIN chunkOutputs = ChunkIds)
  BY DEF AllInv, PassInv, StageInv
<1>3. ASSUME AllInv, stage \in {"merge forward", "between", "merge backward"}
      PROVE  holder = {} /\ ~ poisoned
  BY <1>3, Alone DEF Passes
<1>4. AllInv => ExpectsHold
  BY <1>1, <1>2, <1>3 DEF ExpectsHold
<1> QED
  BY <1>4, AllInvAlways, PTL

=============================================================================
