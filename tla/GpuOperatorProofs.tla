------------------------- MODULE GpuOperatorProofs -------------------------
(***************************************************************************)
(* Theorems about GpuOperator, for any number of clients, kinds of jobs    *)
(* and jobs, with and without panics and handles that are used again.      *)
(*                                                                         *)
(* A job is in one place at a time: on its way into the channel, in the    *)
(* channel, in execution, in its slot or delivered.  Each action moves one *)
(* job from one place to the next; the lemmas called ...Places say which,  *)
(* and the invariant follows from them by reasoning about sets alone.  The *)
(* refinement of OperatorContract, the order of a client's jobs and that   *)
(* Drop loses none of them rest on it.                                     *)
(***************************************************************************)
EXTENDS GpuOperator, TLAPS

USE ConstantsAssumption

\* With adds x to the domain of a map and keeps its values in T.
LEMMA WithType ==
  ASSUME NEW T, NEW f, f \in [DOMAIN f -> T], NEW x, NEW v \in T
  PROVE  /\ DOMAIN With(f, x, v) = DOMAIN f \cup {x}
         /\ With(f, x, v) \in [DOMAIN With(f, x, v) -> T]
BY DEF With

\* Without takes x from the domain of a map and keeps its values in T.
LEMMA WithoutType ==
  ASSUME NEW T, NEW f, f \in [DOMAIN f -> T], NEW x
  PROVE  /\ DOMAIN Without(f, x) = DOMAIN f \ {x}
         /\ Without(f, x) \in [DOMAIN Without(f, x) -> T]
BY DEF Without, Restrict

\* The outcome of a job is a result.
LEMMA OutcomeType == ASSUME NEW j \in Jobs PROVE Outcome(j) \in Results
<1>1. Failed(j) \in BOOLEAN
  BY Zenon DEF Failed
<1>2. j.kind \in JobKinds
  BY DEF Jobs
<1> QED
  BY <1>1, <1>2 DEF Outcome, Results

-----------------------------------------------------------------------------
(* Types *)

Messages == {Shutdown} \cup [kind : {"job"}, id : DOMAIN submitted]
ClientStates == {Idle} \cup [at : {"sending", "checking", "waiting"},
                             id : DOMAIN submitted]

\* A new operator is well typed.
LEMMA TypeInit == Init => TypeOK
BY DEF Init, TypeOK, EmptyMap, Receiving

\* A client's step keeps the operator well typed.
LEMMA TypeClientStep ==
  ASSUME TypeOK, NEW c \in Clients, ClientStep(c)
  PROVE  TypeOK'
<1> USE DEF TypeOK
<1>1. ASSUME NEW j \in Jobs, DrawId(c, j) PROVE TypeOK'
  <2>1. submitted' \in [0 .. nextId' - 1 -> Jobs]
    BY <1>1 DEF DrawId, With
  <2>2. DOMAIN submitted \subseteq DOMAIN submitted' /\ nextId \in DOMAIN submitted'
    BY <1>1 DEF DrawId, With
  <2>3. client' \in [Clients -> {Idle} \cup [at : {"sending", "checking", "waiting"},
                                             id : DOMAIN submitted']]
    BY <1>1, <2>2 DEF DrawId
  <2>4. thread' \in [at : {"recv", "notifying", "dead", "stopped"}]
                      \cup [at : {"executing"}, id : DOMAIN submitted']
    BY <1>1, <2>2 DEF DrawId
  <2>5. held' \in [Clients -> SUBSET DOMAIN submitted']
    BY <1>1, <2>2 DEF DrawId
  <2>6. queue' \in Seq({Shutdown} \cup [kind : {"job"}, id : DOMAIN submitted'])
    BY <1>1, <2>2 DEF DrawId
  <2> QED
    BY <1>1, <2>1, <2>3, <2>4, <2>5, <2>6 DEF DrawId
<1>2. CASE Send(c)
  <2>1. client[c].id \in DOMAIN submitted /\ client[c].id \in Nat
    BY <1>2 DEF Send, Idle
  <2>2. JobMessage(client[c].id) \in Messages
    BY <2>1 DEF JobMessage, Messages
  <2>3. queue' \in Seq(Messages)
    BY <1>2, <2>2 DEF Send, Messages
  <2>4. held' \in [Clients -> SUBSET DOMAIN submitted]
    BY <1>2, <2>1 DEF Send
  <2> QED
    BY <1>2, <2>3, <2>4 DEF Send, Messages
<1>3. ASSUME NEW id \in held[c], DrainCall(c, id) PROVE TypeOK'
  <2>1. id \in DOMAIN submitted
    OBVIOUS
  <2>2. held' \in [Clients -> SUBSET DOMAIN submitted]
    BY <1>3 DEF DrainCall
  <2> QED
    BY <1>3, <2>1, <2>2 DEF DrainCall
<1>4. ASSUME NEW id \in DOMAIN slots, Take(id)
      PROVE  slots' \in [DOMAIN slots' -> Results] /\ delivered' \in [DOMAIN delivered' -> Results]
  BY <1>4, WithType, WithoutType DEF Take
<1>5. ASSUME NEW id \in held[c], TryDrainSome(c, id) PROVE TypeOK'
  <2>1. held' \in [Clients -> SUBSET DOMAIN submitted]
    BY <1>5 DEF TryDrainSome
  <2> QED
    BY <1>4, <1>5, <2>1 DEF TryDrainSome
<1>6. CASE DrainReturns(c)
  BY <1>4, <1>6 DEF DrainReturns
<1>7. CASE DrainWaits(c) \/ SpuriousWake(c)
  <2>3. client[c].at \in {"checking", "waiting"}
    BY <1>7 DEF DrainWaits, SpuriousWake
  <2>4. client[c] \in [at : {"sending", "checking", "waiting"}, id : DOMAIN submitted]
    BY <2>3 DEF Idle
  <2>5. PICK a \in {"checking", "waiting"} : client' = [client EXCEPT ![c].at = a]
    BY <1>7 DEF DrainWaits, SpuriousWake
  <2>1. client' \in [Clients -> ClientStates]
    BY <2>4, <2>5 DEF ClientStates
  <2>2. UNCHANGED <<nextId, queue, thread, slots, held, life, submitted, delivered>>
    BY <1>7 DEF DrainWaits, SpuriousWake
  <2> QED
    BY <2>1, <2>2 DEF ClientStates
<1> QED
  BY <1>1, <1>2, <1>3, <1>5, <1>6, <1>7 DEF ClientStep

\* So do the steps of the thread.
LEMMA TypeThreadStep ==
  ASSUME TypeOK, ThreadStep
  PROVE  TypeOK'
<1> USE DEF TypeOK
<1>1. CASE Receive
  <2>1. Head(queue) \in Messages /\ Tail(queue) \in Seq(Messages)
    BY <1>1 DEF Receive, Messages
  <2>2. Head(queue).id \in DOMAIN submitted
    BY <1>1, <2>1 DEF Receive, Messages, Shutdown
  <2> QED
    BY <1>1, <2>1, <2>2 DEF Receive, Messages
<1>2. CASE Stop \/ Panic
  <2>1. queue' = <<>> /\ thread' \in [at : {"recv", "notifying", "dead", "stopped"}]
    BY <1>2 DEF Stop, Panic
  <2>2. UNCHANGED <<nextId, slots, client, held, life, submitted, delivered>>
    BY <1>2 DEF Stop, Panic
  <2> QED
    BY <2>1, <2>2
<1>3. CASE Store
  <2>1. submitted[thread.id] \in Jobs
    BY <1>3 DEF Store
  <2> QED
    BY <1>3, <2>1, OutcomeType, WithType DEF Store
<1>4. CASE NotifyAll
  <2>1. client' \in [Clients -> {Idle} \cup [at : {"sending", "checking", "waiting"},
                                             id : DOMAIN submitted]]
    BY <1>4 DEF NotifyAll, Idle
  <2> QED
    BY <1>4, <2>1 DEF NotifyAll, Receiving
<1> QED
  BY <1>1, <1>2, <1>3, <1>4 DEF ThreadStep

\* And the drop of the queue.
LEMMA TypeDrop ==
  ASSUME TypeOK, DropSends \/ DropJoined
  PROVE  TypeOK'
<1> USE DEF TypeOK
<1>1. CASE DropSends
  <2>1. queue' \in Seq(Messages)
    BY <1>1 DEF DropSends, Messages
  <2> QED
    BY <1>1, <2>1 DEF DropSends, Messages
<1>2. CASE DropJoined
  BY <1>2 DEF DropJoined
<1> QED
  BY <1>1, <1>2

\* Every step keeps the operator well typed.
LEMMA TypeNext == TypeOK /\ [Next]_vars => TypeOK'
<1> SUFFICES ASSUME TypeOK, [Next]_vars PROVE TypeOK'
  OBVIOUS
<1>1. CASE UNCHANGED vars
  BY <1>1 DEF vars, TypeOK
<1> QED
  BY <1>1, TypeClientStep, TypeThreadStep, TypeDrop DEF Next

\* The variables keep their types under every step of clients, thread and
\* drop (gpu_operator_v2.rs, queue_v2.rs); ids are handed out without gaps.
THEOREM TypeCorrect == Spec => []TypeOK
<1> QED
  BY TypeInit, TypeNext, PTL DEF Spec

-----------------------------------------------------------------------------
(* Places *)

Submitted == DOMAIN submitted
Stored == DOMAIN slots
Delivered == DOMAIN delivered

QueueDistinct ==
  \A m, n \in DOMAIN queue : queue[m] = queue[n] /\ queue[m].kind = "job" => m = n
SendersDistinct ==
  \A c, d \in Clients :
    client[c].at = "sending" /\ client[d].at = "sending" /\ client[c].id = client[d].id
      => c = d
PlacesApart ==
  /\ Sending \cap (Queued \cup Executing \cup Stored \cup Delivered) = {}
  /\ Queued \cap (Executing \cup Stored \cup Delivered) = {}
  /\ Executing \cap (Stored \cup Delivered) = {}
  /\ Stored \cap Delivered = {}
PlacesKnown ==
  /\ Sending \cup Queued \cup Executing \cup Stored \cup Delivered \subseteq Submitted
  /\ Alive => Submitted \subseteq Sending \cup Queued \cup Executing \cup Stored \cup Delivered
  /\ ~Alive => queue = <<>>

PlacesInv == TypeOK /\ QueueDistinct /\ SendersDistinct /\ PlacesApart /\ PlacesKnown

\* The inductive invariant is the property, with its parts named.
LEMMA PlacesSuffice == PlacesInv => EveryJobHasAPlace
<1> SUFFICES ASSUME PlacesInv PROVE EveryJobHasAPlace
  OBVIOUS
<1> DEFINE places == <<Sending, Queued, Executing, DOMAIN slots, DOMAIN delivered>>
<1>1. /\ places[1] = Sending /\ places[2] = Queued /\ places[3] = Executing
      /\ places[4] = Stored /\ places[5] = Delivered
  BY DEF Stored, Delivered
<1> HIDE DEF places
<1>2. \A m, n \in 1 .. 5 : m < n => places[m] \cap places[n] = {}
  BY <1>1 DEF PlacesInv, PlacesApart
<1>3. \A m, n \in 1 .. 5 : m # n => places[m] \cap places[n] = {}
  BY <1>2
<1>4. UNION {places[n] : n \in 1 .. 5}
        = Sending \cup Queued \cup Executing \cup Stored \cup Delivered
  BY <1>1
<1>5. Alive => UNION {places[n] : n \in 1 .. 5} = DOMAIN submitted
  BY <1>4 DEF PlacesInv, PlacesKnown, Submitted
<1> QED
  BY <1>3, <1>5 DEF EveryJobHasAPlace, PlacesInv, QueueDistinct, places

\* A new operator holds no job.
LEMMA PlacesInit == Init => PlacesInv
<1> SUFFICES ASSUME Init PROVE PlacesInv
  OBVIOUS
<1>1. /\ Sending = {} /\ Queued = {} /\ Executing = {} /\ Stored = {}
      /\ Delivered = {} /\ Submitted = {}
  BY DEF Init, Sending, Queued, Executing, Stored, Delivered, Submitted, EmptyMap,
         Idle, Receiving
<1>2. QueueDistinct /\ SendersDistinct
  BY DEF Init, QueueDistinct, SendersDistinct, Idle
<1> QED
  BY <1>1, <1>2, TypeInit DEF PlacesInv, PlacesApart, PlacesKnown, Init

\* submit's first step: the new id is on its way into the channel.
LEMMA DrawIdPlaces ==
  ASSUME PlacesInv, NEW c \in Clients, NEW j \in Jobs, DrawId(c, j)
  PROVE  /\ nextId \notin Submitted
         /\ Submitted' = Submitted \cup {nextId}
         /\ Sending' = Sending \cup {nextId}
         /\ UNCHANGED <<Queued, Executing, Stored, Delivered>>
         /\ QueueDistinct' /\ SendersDistinct'
<1> USE DEF PlacesInv, TypeOK
<1>1. nextId \notin Submitted /\ Submitted' = Submitted \cup {nextId}
  BY DEF DrawId, With, Submitted
<1>2. client'[c] = [at |-> "sending", id |-> nextId] /\ client[c] = Idle
  BY DEF DrawId
<1>3. \A d \in Clients \ {c} : client'[d] = client[d]
  BY DEF DrawId
<1>4. Sending' = Sending \cup {nextId}
  BY <1>2, <1>3 DEF Sending, Idle
<1>5. UNCHANGED <<Queued, Executing, Stored, Delivered>>
  BY DEF DrawId, Queued, Executing, Stored, Delivered
<1>6. QueueDistinct'
  BY DEF DrawId, QueueDistinct
<1>7. SendersDistinct'
  <2>1. \A d \in Clients : client[d].at = "sending" => client[d].id \in Submitted
    BY DEF Idle, Submitted
  <2> QED
    BY <1>1, <1>2, <1>3, <2>1 DEF SendersDistinct
<1> QED
  BY <1>1, <1>4, <1>5, <1>6, <1>7

\* submit's second step: into the channel, or nowhere when the thread is gone.
LEMMA SendPlaces ==
  ASSUME PlacesInv, NEW c \in Clients, Send(c)
  PROVE  LET id == client[c].id IN
         /\ id \in Sending
         /\ Sending' = Sending \ {id}
         /\ Queued' = IF Alive THEN Queued \cup {id} ELSE Queued
         /\ UNCHANGED <<Submitted, Executing, Stored, Delivered>>
         /\ Alive' = Alive /\ (~Alive => queue' = queue)
         /\ QueueDistinct' /\ SendersDistinct'
<1> USE DEF PlacesInv, TypeOK
<1> DEFINE id == client[c].id
<1>1. client[c].at = "sending" /\ id \in Sending
  BY DEF Send, Sending
<1>2. client' = [client EXCEPT ![c] = Idle]
  BY DEF Send
<1>3. \A d \in Clients : client'[d].at = "sending" <=> d # c /\ client[d].at = "sending"
  BY <1>2 DEF Idle
<1>4. \A d \in Clients \ {c} : client'[d] = client[d]
  BY <1>2
<1>5. Sending' = Sending \ {id}
  BY <1>1, <1>3, <1>4 DEF Sending, SendersDistinct
<1>6. UNCHANGED <<Submitted, Executing, Stored, Delivered>> /\ Alive' = Alive
  BY DEF Send, Submitted, Executing, Stored, Delivered, Alive
<1>7. SendersDistinct'
  BY <1>3, <1>4 DEF SendersDistinct
<1>8. CASE ~Alive
  <2>1. queue' = queue
    BY <1>8 DEF Send
  <2>2. Queued' = Queued /\ QueueDistinct'
    BY <2>1 DEF Queued, QueueDistinct
  <2> QED
    BY <1>1, <1>5, <1>6, <1>7, <1>8, <2>1, <2>2
<1>9. CASE Alive
  <2>1. queue' = Append(queue, JobMessage(id))
    BY <1>9 DEF Send
  <2> DEFINE n == Len(queue) + 1
  <2>2. /\ DOMAIN queue' = DOMAIN queue \cup {n} /\ n \notin DOMAIN queue
        /\ queue'[n] = JobMessage(id)
        /\ \A m \in DOMAIN queue : queue'[m] = queue[m]
    BY <2>1 DEF JobMessage
  <2> HIDE DEF n, id
  <2>3. JobMessage(id).kind = "job" /\ JobMessage(id).id = id
    BY DEF JobMessage
  <2>4. Queued' = Queued \cup {id}
    BY <2>2, <2>3 DEF Queued
  <2>5. id \notin Queued
    BY <1>1 DEF PlacesApart, id
  <2>6. QueueDistinct'
    BY <2>2, <2>3, <2>5 DEF QueueDistinct, Queued
  <2> QED
    BY <1>1, <1>5, <1>6, <1>7, <1>9, <2>4, <2>6 DEF id
<1> QED
  BY <1>8, <1>9

\* drain and try_drain: from the slots to the caller.
LEMMA TakePlaces ==
  ASSUME PlacesInv, NEW id \in Stored, Take(id)
  PROVE  Stored' = Stored \ {id} /\ Delivered' = Delivered \cup {id}
BY DEF Take, With, Without, Restrict, Stored, Delivered

\* The thread takes the oldest message out of the channel.
LEMMA ReceivePlaces ==
  ASSUME PlacesInv, Receive
  PROVE  /\ Queued' = Queued \ Executing' /\ Executing' \subseteq Queued
         /\ Executing = {} /\ Alive /\ Alive'
         /\ UNCHANGED <<Submitted, Sending, Stored, Delivered>>
         /\ QueueDistinct' /\ SendersDistinct'
<1> USE DEF PlacesInv, TypeOK
<1> DEFINE id == queue[1].id
<1>1. /\ queue # <<>> /\ queue[1].kind = "job" /\ Head(queue) = queue[1]
      /\ 1 \in DOMAIN queue
  BY DEF Receive
<1>2. Executing = {} /\ Executing' = {id} /\ Alive /\ Alive'
  BY <1>1 DEF Receive, Executing, Alive, Receiving
<1>3. /\ DOMAIN queue' = 1 .. Len(queue) - 1
      /\ \A m \in DOMAIN queue' : m + 1 \in DOMAIN queue /\ queue'[m] = queue[m + 1]
  BY <1>1 DEF Receive
<1>4. \A m \in DOMAIN queue : m # 1 => m - 1 \in DOMAIN queue' /\ queue'[m - 1] = queue[m]
  BY <1>1, <1>3
<1>5. QueueDistinct'
  <2> SUFFICES ASSUME NEW m \in DOMAIN queue', NEW n \in DOMAIN queue',
                      queue'[m] = queue'[n], queue'[m].kind = "job"
               PROVE  m = n
    BY DEF QueueDistinct
  <2>1. m + 1 = n + 1
    BY <1>3 DEF QueueDistinct
  <2> QED
    BY <1>3, <2>1
<1>6. \A m, n \in DOMAIN queue :
        queue[m].kind = "job" /\ queue[n].kind = "job" /\ queue[m].id = queue[n].id => m = n
  <2>1. \A m \in DOMAIN queue : queue[m].kind = "job"
           => queue[m] = [kind |-> "job", id |-> queue[m].id]
    BY DEF Shutdown
  <2> QED
    BY <2>1 DEF QueueDistinct
<1>7. Queued' = Queued \ {id}
  <2>1. \A x : x \in Queued' <=> \E m \in DOMAIN queue' : queue'[m].kind = "job" /\ x = queue'[m].id
    BY DEF Queued
  <2>2. \A x : x \in Queued <=> \E m \in DOMAIN queue : queue[m].kind = "job" /\ x = queue[m].id
    BY DEF Queued
  <2>3. ASSUME NEW x \in Queued' PROVE x \in Queued \ {id}
    <3>1. PICK m \in DOMAIN queue' : queue'[m].kind = "job" /\ x = queue'[m].id
      BY <2>1, <2>3
    <3>2. m + 1 # 1
      BY <1>3
    <3> QED
      BY <1>1, <1>3, <1>6, <2>2, <3>1, <3>2
  <2>4. ASSUME NEW x \in Queued \ {id} PROVE x \in Queued'
    <3>1. PICK m \in DOMAIN queue : queue[m].kind = "job" /\ x = queue[m].id
      BY <2>2
    <3> QED
      BY <1>4, <2>1, <3>1
  <2> QED
    BY <2>3, <2>4
<1>8. id \in Queued
  BY <1>1 DEF Queued
<1>9. UNCHANGED <<Submitted, Sending, Stored, Delivered>> /\ SendersDistinct'
  BY DEF Receive, Submitted, Sending, Stored, Delivered, SendersDistinct
<1> QED
  BY <1>2, <1>5, <1>7, <1>8, <1>9

\* The thread ends, by Shutdown or by a panic: the channel is dropped.
LEMMA EndPlaces ==
  ASSUME PlacesInv, Stop \/ Panic
  PROVE  /\ Queued' = {} /\ Executing' = {} /\ ~Alive' /\ queue' = <<>>
         /\ UNCHANGED <<Submitted, Sending, Stored, Delivered>>
         /\ QueueDistinct' /\ SendersDistinct'
<1>1. queue' = <<>> /\ thread'.at \in {"dead", "stopped"}
  BY DEF Stop, Panic
<1>2. UNCHANGED <<submitted, client, slots, delivered>>
  BY DEF Stop, Panic
<1>3. Queued' = {} /\ Executing' = {} /\ ~Alive' /\ QueueDistinct'
  BY <1>1 DEF Queued, Executing, Alive, QueueDistinct
<1> QED
  BY <1>1, <1>2, <1>3 DEF PlacesInv, Submitted, Sending, Stored, Delivered, SendersDistinct

\* The thread stores the result of the job it has executed.
LEMMA StorePlaces ==
  ASSUME PlacesInv, Store
  PROVE  /\ Stored' = Stored \cup Executing /\ Executing' = {} /\ Alive /\ Alive'
         /\ UNCHANGED <<Submitted, Sending, Queued, Delivered>>
         /\ QueueDistinct' /\ SendersDistinct'
<1>1. Executing = {thread.id} /\ Executing' = {} /\ Alive /\ Alive'
  BY DEF Store, Executing, Alive
<1>2. Stored' = Stored \cup {thread.id}
  BY DEF Store, Stored, With
<1>3. UNCHANGED <<queue, submitted, client, delivered>>
  BY DEF Store
<1> QED
  BY <1>1, <1>2, <1>3 DEF PlacesInv, Submitted, Sending, Queued, Delivered,
                          QueueDistinct, SendersDistinct

\* No job changes its place.
StaysPut ==
  UNCHANGED <<Submitted, Sending, Queued, Executing, Stored, Delivered, Alive>>

\* Waiting in drain leaves every job where it is.
LEMMA WaitPlaces ==
  ASSUME PlacesInv, NEW c \in Clients,
         DrainWaits(c) \/ SpuriousWake(c) \/ \E id \in held[c] : DrainCall(c, id)
  PROVE  StaysPut /\ UNCHANGED queue /\ QueueDistinct' /\ SendersDistinct'
<1> USE DEF PlacesInv, TypeOK
<1>1. client[c].at # "sending" /\ client'[c].at # "sending"
      /\ \A d \in Clients \ {c} : client'[d] = client[d]
  BY DEF DrainWaits, SpuriousWake, DrainCall, Idle
<1>2. UNCHANGED <<submitted, queue, thread, slots, delivered>>
  BY DEF DrainWaits, SpuriousWake, DrainCall
<1>3. Sending' = Sending
  BY <1>1 DEF Sending
<1>4. SendersDistinct'
  BY <1>1 DEF SendersDistinct
<1> QED
  BY <1>2, <1>3, <1>4 DEF StaysPut, Submitted, Queued, Executing, Stored, Delivered,
                          Alive, QueueDistinct

\* So does the signal of the thread.
LEMMA NotifyPlaces ==
  ASSUME PlacesInv, NotifyAll
  PROVE  StaysPut /\ UNCHANGED queue /\ QueueDistinct' /\ SendersDistinct'
<1> USE DEF PlacesInv, TypeOK
<1>1. \A d \in Clients : /\ client'[d].at = "sending" <=> client[d].at = "sending"
                         /\ client'[d].at = "sending" => client'[d] = client[d]
  BY DEF NotifyAll
<1>2. UNCHANGED <<submitted, queue, slots, delivered>> /\ Executing = {} /\ Executing' = {}
      /\ Alive /\ Alive'
  BY DEF NotifyAll, Executing, Receiving, Alive
<1>3. Sending' = Sending
  BY <1>1 DEF Sending
<1>4. SendersDistinct'
  BY <1>1 DEF SendersDistinct
<1> QED
  BY <1>2, <1>3, <1>4 DEF StaysPut, Submitted, Queued, Stored, Delivered, QueueDistinct

\* Shutdown is not a job.
LEMMA DropPlaces ==
  ASSUME PlacesInv, DropSends \/ DropJoined
  PROVE  StaysPut /\ (~Alive => queue' = queue) /\ QueueDistinct' /\ SendersDistinct'
<1> USE DEF PlacesInv, TypeOK
<1>1. UNCHANGED <<submitted, client, thread, slots, delivered>>
  BY DEF DropSends, DropJoined
<1>2. CASE queue' = queue
  BY <1>1, <1>2 DEF StaysPut, Submitted, Sending, Queued, Executing, Stored, Delivered,
                    Alive, QueueDistinct, SendersDistinct
<1>3. CASE Alive /\ queue' = Append(queue, Shutdown)
  <2> DEFINE n == Len(queue) + 1
  <2>1. /\ DOMAIN queue' = DOMAIN queue \cup {n} /\ queue'[n] = Shutdown
        /\ \A m \in DOMAIN queue : queue'[m] = queue[m]
    BY <1>3 DEF Shutdown
  <2> HIDE DEF n
  <2>2. Shutdown.kind # "job"
    BY DEF Shutdown
  <2>3. Queued' = Queued
    BY <2>1, <2>2 DEF Queued
  <2>4. QueueDistinct'
    BY <2>1, <2>2 DEF QueueDistinct
  <2> QED
    BY <1>1, <1>3, <2>3, <2>4 DEF StaysPut, Submitted, Sending, Executing, Stored, Delivered,
                                  Alive, SendersDistinct
<1> QED
  BY <1>2, <1>3 DEF DropSends, DropJoined

\* Every step keeps the jobs in their places.
LEMMA PlacesNext == PlacesInv /\ [Next]_vars => PlacesInv'
<1> SUFFICES ASSUME PlacesInv, [Next]_vars PROVE PlacesInv'
  OBVIOUS
<1>0. TypeOK' /\ PlacesApart /\ PlacesKnown
  BY TypeNext DEF PlacesInv
<1>1. ASSUME NEW c \in Clients, NEW j \in Jobs, DrawId(c, j) PROVE PlacesInv'
  <2>1. Alive' = Alive /\ queue' = queue
    BY <1>1 DEF DrawId, Alive
  <2> QED
    BY <1>0, <1>1, <2>1, DrawIdPlaces DEF PlacesInv, PlacesApart, PlacesKnown
<1>2. ASSUME NEW c \in Clients, Send(c) PROVE PlacesInv'
  <2> DEFINE id == client[c].id
  <2>1. /\ id \in Sending /\ Sending' = Sending \ {id}
        /\ Queued' = IF Alive THEN Queued \cup {id} ELSE Queued
        /\ UNCHANGED <<Submitted, Executing, Stored, Delivered>>
        /\ Alive' = Alive /\ (~Alive => queue' = queue)
        /\ QueueDistinct' /\ SendersDistinct'
    BY <1>2, SendPlaces
  <2> HIDE DEF id
  <2>2. PlacesApart'
    BY <1>0, <2>1 DEF PlacesApart
  <2>3. PlacesKnown'
    BY <1>0, <2>1 DEF PlacesKnown
  <2> QED
    BY <1>0, <2>1, <2>2, <2>3 DEF PlacesInv
<1>3. ASSUME NEW id \in Stored, Take(id),
             UNCHANGED <<Submitted, Sending, Queued, Executing, Alive, queue>>,
             QueueDistinct', SendersDistinct'
      PROVE  PlacesInv'
  <2>1. Stored' = Stored \ {id} /\ Delivered' = Delivered \cup {id}
    BY <1>3, TakePlaces
  <2> QED
    BY <1>0, <1>3, <2>1 DEF PlacesInv, PlacesApart, PlacesKnown
<1>4. ASSUME NEW c \in Clients, NEW id \in held[c], TryDrainSome(c, id) PROVE PlacesInv'
  <2>1. UNCHANGED <<submitted, client, queue, thread>> /\ id \in Stored /\ Take(id)
    BY <1>4 DEF TryDrainSome, Stored
  <2> QED
    BY <1>3, <2>1 DEF PlacesInv, Submitted, Sending, Queued, Executing, Alive,
                      QueueDistinct, SendersDistinct
<1>5. ASSUME NEW c \in Clients, DrainReturns(c) PROVE PlacesInv'
  <2>1. UNCHANGED <<submitted, queue, thread>> /\ client[c].id \in Stored /\ Take(client[c].id)
    BY <1>5 DEF DrainReturns, Stored
  <2>2. client[c].at = "checking" /\ client' = [client EXCEPT ![c] = Idle]
    BY <1>5 DEF DrainReturns
  <2>3. \A d \in Clients : /\ client'[d].at = "sending" <=> client[d].at = "sending"
                           /\ client'[d].at = "sending" => client'[d] = client[d]
    BY <2>2 DEF Idle, PlacesInv, TypeOK
  <2>4. Sending' = Sending /\ SendersDistinct'
    BY <2>3 DEF Sending, SendersDistinct, PlacesInv
  <2> QED
    BY <1>3, <2>1, <2>4 DEF PlacesInv, Submitted, Queued, Executing, Alive, QueueDistinct
<1>6. ASSUME StaysPut, ~Alive => queue' = queue, QueueDistinct', SendersDistinct'
      PROVE  PlacesInv'
  BY <1>0, <1>6 DEF StaysPut, PlacesInv, PlacesApart, PlacesKnown
<1>7. ASSUME NEW c \in Clients, ClientStep(c) PROVE PlacesInv'
  <2>1. CASE DrainWaits(c) \/ SpuriousWake(c) \/ \E id \in held[c] : DrainCall(c, id)
    BY <1>6, <2>1, WaitPlaces
  <2> QED
    BY <1>1, <1>2, <1>4, <1>5, <1>7, <2>1 DEF ClientStep
<1>8. CASE Receive
  BY <1>0, <1>8, ReceivePlaces DEF PlacesInv, PlacesApart, PlacesKnown
<1>9. CASE Stop \/ Panic
  BY <1>0, <1>9, EndPlaces DEF PlacesInv, PlacesApart, PlacesKnown
<1>10. CASE Store
  BY <1>0, <1>10, StorePlaces DEF PlacesInv, PlacesApart, PlacesKnown
<1>11. CASE NotifyAll
  BY <1>6, <1>11, NotifyPlaces
<1>12. CASE DropSends \/ DropJoined
  BY <1>6, <1>12, DropPlaces
<1>13. CASE UNCHANGED vars
  BY <1>0, <1>13 DEF vars, PlacesInv, PlacesApart, PlacesKnown, QueueDistinct, SendersDistinct,
     Submitted, Sending, Queued, Executing, Stored, Delivered, Alive
<1> QED
  BY <1>7, <1>8, <1>9, <1>10, <1>11, <1>12, <1>13 DEF Next, ThreadStep

\* While the thread lives, every accepted job is in exactly one of the places
\* from submit to the client that drained it, in any interleaving of submits,
\* drains, the thread and a drop (gpu_operator_v2.rs:86, queue_v2.rs:105).
THEOREM JobsKeepTheirPlace == Spec => []EveryJobHasAPlace
<1>1. Spec => []PlacesInv
  BY PlacesInit, PlacesNext, PTL DEF Spec
<1> QED
  BY <1>1, PlacesSuffice, PTL

-----------------------------------------------------------------------------
(* The contract of OperatorV2 *)

\* A new operator is a new operator of the contract.
LEMMA ContractInit == Init => Contract!Init
BY DEF Init, Contract!Init, EmptyMap, Contract!EmptyMap

\* Every step is a step of the contract or leaves its variables alone:
\* drawing the id submits, storing finishes, taking delivers.
LEMMA ContractStep == PlacesInv /\ [Next]_vars => [Contract!Next]_<<submitted, slots, delivered>>
<1> SUFFICES ASSUME PlacesInv, [Next]_vars
             PROVE  Contract!Next \/ UNCHANGED <<submitted, slots, delivered>>
  OBVIOUS
<1>1. ASSUME NEW c \in Clients, NEW j \in Jobs, DrawId(c, j) PROVE Contract!Next
  <2>1. nextId \in Ids /\ nextId \notin DOMAIN submitted
    BY <1>1 DEF DrawId, Ids, PlacesInv, TypeOK
  <2>2. Contract!Submit(nextId, j)
    BY <1>1, <2>1 DEF DrawId, Contract!Submit, With, Contract!With
  <2> QED
    BY <2>1, <2>2 DEF Contract!Next
<1>2. CASE Store
  <2>1. thread.id \in Executing
    BY <1>2 DEF Store, Executing
  <2>2. thread.id \in DOMAIN submitted \ (DOMAIN slots \cup DOMAIN delivered)
    BY <2>1 DEF PlacesInv, PlacesApart, PlacesKnown, Submitted, Stored, Delivered
  <2>3. Contract!Finish(thread.id)
    BY <1>2, <2>2 DEF Store, Contract!Finish, With, Contract!With
  <2> QED
    BY <2>2, <2>3 DEF Contract!Next
<1>3. ASSUME NEW id \in DOMAIN slots, Take(id), UNCHANGED submitted PROVE Contract!Next
  <2>1. Contract!Deliver(id)
    BY <1>3 DEF Take, Contract!Deliver, With, Contract!With,
                Without, Contract!Without, Restrict, Contract!Restrict
  <2> QED
    BY <2>1 DEF Contract!Next
<1>4. ASSUME NEW c \in Clients, ClientStep(c)
      PROVE  Contract!Next \/ UNCHANGED <<submitted, slots, delivered>>
  BY <1>1, <1>3, <1>4 DEF ClientStep, Send, DrainCall, TryDrainSome, DrainReturns,
                          DrainWaits, SpuriousWake
<1>5. CASE Receive \/ Stop \/ Panic \/ NotifyAll \/ DropSends \/ DropJoined \/ UNCHANGED vars
  BY <1>5 DEF Receive, Stop, Panic, NotifyAll, DropSends, DropJoined, vars
<1> QED
  BY <1>2, <1>4, <1>5 DEF Next, ThreadStep

\* The operator, with its queue, thread and condition variable, implements the
\* contract of the trait OperatorV2 (operator_v2.rs:44): distinct handles, each
\* answered once and with the outcome of its own job.
THEOREM ContractImplemented == Spec => ContractKept
<1>1. Spec => []PlacesInv
  BY PlacesInit, PlacesNext, PTL DEF Spec
<1> QED
  BY <1>1, ContractInit, ContractStep, PTL
     DEF Spec, ContractKept, Contract!Spec, Contract!contractVars

-----------------------------------------------------------------------------
(* The order of a client's jobs *)

Finished == Stored \cup Delivered
JobAt(n) == n \in DOMAIN queue /\ queue[n].kind = "job"

\* What a client holds was sent before what it is sending; jobs of one client
\* stand in the channel in the order of their ids, behind the one in execution.
SendOrder ==
  /\ \A c \in Clients : held[c] \cap Sending = {}
  /\ \A c \in Clients : client[c].at = "sending" => \A i \in held[c] : i < client[c].id
QueueOrder ==
  \A c \in Clients : \A m, n \in DOMAIN queue :
    m < n /\ JobAt(m) /\ JobAt(n) /\ queue[m].id \in held[c] /\ queue[n].id \in held[c]
      => queue[m].id < queue[n].id
ExecutingFirst ==
  \A c \in Clients : \A e \in Executing \cap held[c], i \in Queued \cap held[c] : e < i
OrderInv ==
  PlacesInv /\ SendOrder /\ QueueOrder /\ ExecutingFirst /\ ClientOrderKept

\* A new operator.
LEMMA OrderInit == Init => OrderInv
<1> SUFFICES ASSUME Init PROVE OrderInv
  OBVIOUS
<1>1. SendOrder /\ QueueOrder /\ ClientOrderKept
  BY DEF Init, SendOrder, QueueOrder, ClientOrderKept, Idle
<1>2. ExecutingFirst
  BY DEF Init, ExecutingFirst
<1> QED
  BY <1>1, <1>2, PlacesInit DEF OrderInv

\* A step that moves no job towards its execution keeps the order.
LEMMA OrderStays ==
  ASSUME OrderInv, PlacesInv',
         UNCHANGED <<queue, Executing, Sending, Finished>>,
         \A d \in Clients : held'[d] \subseteq held[d],
         \A d \in Clients : client'[d].at = "sending" => client'[d] = client[d]
  PROVE  OrderInv'
<1> USE DEF OrderInv
<1>1. SendOrder'
  BY DEF SendOrder
<1>2. QueueOrder'
  BY DEF QueueOrder, JobAt
<1>3. Queued' = Queued
  BY DEF Queued
<1>4. ExecutingFirst'
  BY <1>3 DEF ExecutingFirst
<1>5. ClientOrderKept'
  BY DEF ClientOrderKept, Finished, Stored, Delivered
<1> QED
  BY <1>1, <1>2, <1>4, <1>5

\* A new id is larger than every id a client holds.
LEMMA OrderDrawId ==
  ASSUME OrderInv, PlacesInv', NEW c \in Clients, NEW j \in Jobs, DrawId(c, j)
  PROVE  OrderInv'
<1> USE DEF OrderInv, PlacesInv, TypeOK
<1>1. /\ Sending' = Sending \cup {nextId} /\ UNCHANGED <<Queued, Executing>>
  BY DrawIdPlaces
<1>2. UNCHANGED <<queue, held, slots, delivered>>
  BY DEF DrawId
<1>3. \A d \in Clients : \A i \in held[d] : i \in Nat /\ i < nextId
  OBVIOUS
<1>4. client'[c] = [at |-> "sending", id |-> nextId] /\ \A d \in Clients \ {c} : client'[d] = client[d]
  BY DEF DrawId
<1>5. SendOrder'
  <2>1. \A d \in Clients : nextId \notin held[d]
    BY <1>3
  <2>2. \A d \in Clients : held'[d] \cap Sending' = {}
    BY <1>1, <1>2, <2>1 DEF SendOrder
  <2>3. ASSUME NEW d \in Clients, client'[d].at = "sending", NEW i \in held'[d]
        PROVE  i < client'[d].id
    <3>1. CASE d = c
      BY <1>2, <1>3, <1>4, <2>3, <3>1
    <3>2. CASE d # c
      BY <1>2, <1>4, <2>3, <3>2 DEF SendOrder
    <3> QED
      BY <3>1, <3>2
  <2> QED
    BY <2>2, <2>3 DEF SendOrder
<1>6. QueueOrder'
  BY <1>2 DEF QueueOrder, JobAt
<1>7. ExecutingFirst' /\ ClientOrderKept'
  BY <1>1, <1>2 DEF ExecutingFirst, ClientOrderKept
<1> QED
  BY <1>5, <1>6, <1>7

\* What is sent goes behind what its client sent before.
LEMMA OrderSend ==
  ASSUME OrderInv, PlacesInv', NEW c \in Clients, Send(c)
  PROVE  OrderInv'
<1> USE DEF OrderInv
<1> DEFINE id == client[c].id
<1>1. /\ id \in Sending /\ Sending' = Sending \ {id}
      /\ Queued' = IF Alive THEN Queued \cup {id} ELSE Queued
      /\ UNCHANGED <<Executing, Stored, Delivered>>
  BY SendPlaces
<1>2. /\ held' = [held EXCEPT ![c] = @ \cup {id}] /\ client[c].at = "sending"
      /\ client' = [client EXCEPT ![c] = Idle]
      /\ queue' = IF Alive THEN Append(queue, JobMessage(id)) ELSE queue
  BY DEF Send
<1>3. /\ held'[c] = held[c] \cup {id} /\ \A d \in Clients \ {c} : held'[d] = held[d]
      /\ client'[c] = Idle /\ \A d \in Clients \ {c} : client'[d] = client[d]
  BY <1>2 DEF PlacesInv, TypeOK
<1>4. /\ id \notin Queued \cup Executing \cup Stored \cup Delivered
      /\ \A d \in Clients : id \notin held[d]
      /\ id \in Nat /\ \A d \in Clients : held[d] \subseteq Nat
      /\ \A i \in held[c] : i < id
  BY <1>1, <1>2 DEF PlacesInv, PlacesApart, SendOrder, PlacesKnown, Submitted, TypeOK
<1> HIDE DEF id
<1>5. SendOrder'
  BY <1>1, <1>3, <1>4 DEF SendOrder, Idle
<1>6. QueueOrder'
  <2>1. CASE ~Alive
    <3>1. queue' = queue /\ \A n \in DOMAIN queue : JobAt(n) => queue[n].id \in Queued
      BY <1>2, <2>1 DEF JobAt, Queued
    <3> QED
      BY <1>3, <1>4, <3>1 DEF QueueOrder, JobAt
  <2>2. CASE Alive
    <3>1. queue \in Seq(Messages)
      BY DEF PlacesInv, TypeOK, Messages
    <3> DEFINE last == Len(queue) + 1
    <3>2. /\ DOMAIN queue' = DOMAIN queue \cup {last} /\ queue'[last] = JobMessage(id)
          /\ \A m \in DOMAIN queue : queue'[m] = queue[m] /\ m < last
      BY <1>2, <2>2, <3>1 DEF JobMessage
    <3>3. \A n \in DOMAIN queue : JobAt(n) => queue[n].id \in Queued
      BY DEF JobAt, Queued
    <3>4. JobMessage(id).id = id
      BY DEF JobMessage
    <3>5. DOMAIN queue' \subseteq Int
      BY <3>1, <3>2
    <3> HIDE DEF last
    <3> SUFFICES ASSUME NEW d \in Clients, NEW m \in DOMAIN queue', NEW n \in DOMAIN queue',
                        m < n, JobAt(m)', JobAt(n)',
                        queue'[m].id \in held'[d], queue'[n].id \in held'[d]
                 PROVE  queue'[m].id < queue'[n].id
      BY DEF QueueOrder
    <3>6. m \in DOMAIN queue /\ JobAt(m)
      BY <3>2, <3>5 DEF JobAt
    <3>7. queue[m].id \in held[d]
      BY <1>3, <1>4, <3>2, <3>3, <3>6
    <3>8. CASE n \in DOMAIN queue
      <4>1. JobAt(n) /\ queue[n].id \in held[d]
        BY <1>3, <1>4, <3>2, <3>3, <3>8 DEF JobAt
      <4> QED
        BY <3>2, <3>6, <3>7, <3>8, <4>1 DEF QueueOrder
    <3>9. CASE n = last
      <4>1. queue'[n].id = id /\ d = c
        BY <1>3, <1>4, <3>2, <3>4, <3>9
      <4> QED
        BY <1>4, <3>2, <3>6, <3>7, <4>1
    <3> QED
      BY <3>2, <3>8, <3>9
  <2> QED
    BY <2>1, <2>2
<1>7. ExecutingFirst'
  <2> SUFFICES ASSUME NEW d \in Clients, NEW e \in Executing' \cap held'[d],
                      NEW i \in Queued' \cap held'[d]
               PROVE  e < i
    BY DEF ExecutingFirst
  <2>1. e \in Executing \cap held[d]
    BY <1>1, <1>3, <1>4
  <2>2. CASE i = id
    BY <1>3, <1>4, <2>1, <2>2
  <2>3. CASE i # id
    BY <1>1, <1>3, <2>1, <2>3 DEF ExecutingFirst
  <2> QED
    BY <2>2, <2>3
<1>8. ClientOrderKept'
  <2> SUFFICES ASSUME NEW d \in Clients, NEW i \in held'[d], NEW k \in held'[d],
                      i < k, k \in Finished'
               PROVE  i \in Finished'
    BY DEF ClientOrderKept, Finished, Stored, Delivered
  <2>1. Finished' = Finished /\ k # id
    BY <1>1, <1>4 DEF Finished
  <2>2. k \in held[d] /\ i # id
    BY <1>3, <1>4, <2>1
  <2> QED
    BY <1>3, <2>1, <2>2 DEF ClientOrderKept, Finished, Stored, Delivered
<1> QED
  BY <1>5, <1>6, <1>7, <1>8

\* The thread takes the oldest job, which is the client's first.
LEMMA OrderReceive ==
  ASSUME OrderInv, PlacesInv', Receive
  PROVE  OrderInv'
<1> USE DEF OrderInv
<1>1. /\ Queued' = Queued \ Executing' /\ UNCHANGED <<Sending, Stored, Delivered>>
  BY ReceivePlaces
<1>2. UNCHANGED <<held, client, slots, delivered>>
  BY DEF Receive
<1>3. queue \in Seq(Messages) /\ queue # <<>> /\ Head(queue) = queue[1] /\ JobAt(1)
  BY DEF Receive, PlacesInv, TypeOK, Messages, JobAt
<1>4. /\ Executing' = {queue[1].id} /\ queue' = Tail(queue)
  BY <1>3 DEF Receive, Executing
<1>5. \A m \in DOMAIN queue' : m + 1 \in DOMAIN queue /\ queue'[m] = queue[m + 1] /\ m >= 1
  BY <1>3, <1>4
<1>6. DOMAIN queue' \subseteq Int
  BY <1>3, <1>4
<1>7. SendOrder' /\ ClientOrderKept'
  BY <1>1, <1>2 DEF SendOrder, ClientOrderKept
<1>8. QueueOrder'
  <2> SUFFICES ASSUME NEW d \in Clients, NEW m \in DOMAIN queue', NEW n \in DOMAIN queue',
                      m < n, JobAt(m)', JobAt(n)',
                      queue'[m].id \in held[d], queue'[n].id \in held[d]
               PROVE  queue'[m].id < queue'[n].id
    BY <1>2 DEF QueueOrder
  <2>1. m + 1 < n + 1 /\ JobAt(m + 1) /\ JobAt(n + 1)
    BY <1>5, <1>6 DEF JobAt
  <2> QED
    BY <1>5, <2>1 DEF QueueOrder
<1>9. ExecutingFirst'
  <2> SUFFICES ASSUME NEW d \in Clients, queue[1].id \in held[d],
                      NEW i \in Queued' \cap held[d]
               PROVE  queue[1].id < i
    BY <1>2, <1>4 DEF ExecutingFirst
  <2>1. PICK n \in DOMAIN queue' : queue'[n].kind = "job" /\ i = queue'[n].id
    BY DEF Queued
  <2>2. n + 1 \in DOMAIN queue /\ 1 < n + 1 /\ JobAt(n + 1) /\ queue[n + 1].id = i
    BY <1>5, <1>6, <2>1 DEF JobAt
  <2>3. 1 \in DOMAIN queue
    BY <1>3 DEF JobAt
  <2> QED
    BY <1>3, <2>2, <2>3 DEF QueueOrder
<1> QED
  BY <1>7, <1>8, <1>9

\* When the thread ends nothing more is executed.
LEMMA OrderEnd ==
  ASSUME OrderInv, PlacesInv', Stop \/ Panic
  PROVE  OrderInv'
<1> USE DEF OrderInv
<1>1. queue' = <<>> /\ Executing' = {} /\ UNCHANGED <<Sending, Stored, Delivered>>
  BY EndPlaces
<1>2. UNCHANGED <<held, client, slots, delivered>>
  BY DEF Stop, Panic
<1> QED
  BY <1>1, <1>2 DEF SendOrder, QueueOrder, ExecutingFirst, ClientOrderKept

\* What is stored was executed last of all the client's jobs so far.
LEMMA OrderStore ==
  ASSUME OrderInv, PlacesInv', Store
  PROVE  OrderInv'
<1> USE DEF OrderInv
<1>1. /\ Stored' = Stored \cup Executing /\ Executing' = {} /\ Alive
      /\ UNCHANGED <<Sending, Queued, Delivered>>
  BY StorePlaces
<1>2. UNCHANGED <<held, client, queue>> /\ Executing = {thread.id}
  BY DEF Store, Executing
<1>3. SendOrder' /\ QueueOrder' /\ ExecutingFirst'
  BY <1>1, <1>2 DEF SendOrder, QueueOrder, JobAt, ExecutingFirst
<1>4. ClientOrderKept'
  <2> SUFFICES ASSUME NEW d \in Clients, NEW i \in held[d], NEW k \in held[d],
                      i < k, k \in Finished'
               PROVE  i \in Finished'
    BY <1>2 DEF ClientOrderKept, Finished, Stored, Delivered
  <2>1. CASE k \in Finished
    BY <1>1, <2>1 DEF ClientOrderKept, Finished, Stored, Delivered
  <2>2. CASE k \in Executing
    <3>1. i \in Submitted /\ i \in Nat /\ k \in Nat
      BY DEF PlacesInv, TypeOK, Submitted
    <3>2. i \notin Sending
      BY DEF SendOrder
    <3>3. i \notin Queued
      BY <2>2, <3>1 DEF ExecutingFirst
    <3>4. i \in Executing \cup Finished
      BY <1>1, <3>1, <3>2, <3>3 DEF PlacesInv, PlacesKnown, Finished
    <3> QED
      BY <1>1, <3>4 DEF Finished
  <2> QED
    BY <1>1, <2>1, <2>2 DEF Finished
<1> QED
  BY <1>3, <1>4

\* Every step keeps the order.
LEMMA OrderNext == OrderInv /\ [Next]_vars => OrderInv'
<1> SUFFICES ASSUME OrderInv, [Next]_vars PROVE OrderInv'
  OBVIOUS
<1>0. PlacesInv /\ PlacesInv' /\ TypeOK
  BY PlacesNext DEF OrderInv, PlacesInv
<1>1. ASSUME NEW id \in Stored, Take(id) PROVE Finished' = Finished
  BY <1>0, <1>1, TakePlaces DEF Finished
<1>2. ASSUME NEW c \in Clients, NEW id \in held[c], DrainCall(c, id) \/ TryDrainSome(c, id)
      PROVE  OrderInv'
  <2>1. /\ \A d \in Clients : held'[d] \subseteq held[d]
        /\ \A d \in Clients : client'[d].at = "sending" => client'[d] = client[d]
    BY <1>0, <1>2 DEF DrainCall, TryDrainSome, TypeOK
  <2>2. UNCHANGED <<queue, Executing>>
    BY <1>2 DEF DrainCall, TryDrainSome, Executing
  <2>3. Finished' = Finished
    BY <1>1, <1>2 DEF DrainCall, TryDrainSome, Finished, Stored, Delivered
  <2>4. Sending' = Sending
    <3>1. CASE DrainCall(c, id)
      BY <1>0, <3>1, WaitPlaces DEF StaysPut
    <3>2. CASE TryDrainSome(c, id)
      BY <3>2 DEF TryDrainSome, Sending
    <3> QED
      BY <1>2, <3>1, <3>2
  <2> QED
    BY <1>0, <2>1, <2>2, <2>3, <2>4, OrderStays
<1>3. ASSUME NEW c \in Clients, DrainReturns(c) \/ DrainWaits(c) \/ SpuriousWake(c)
      PROVE  OrderInv'
  <2>1. /\ \A d \in Clients : /\ client'[d].at = "sending" <=> client[d].at = "sending"
                              /\ client'[d].at = "sending" => client'[d] = client[d]
        /\ UNCHANGED <<queue, thread, held>>
    BY <1>0, <1>3 DEF DrainReturns, DrainWaits, SpuriousWake, Idle, TypeOK
  <2>2. Finished' = Finished
    BY <1>1, <1>3 DEF DrainReturns, DrainWaits, SpuriousWake, Finished, Stored, Delivered
  <2>3. UNCHANGED <<Sending, Executing>>
    BY <2>1 DEF Sending, Executing
  <2> QED
    BY <1>0, <2>1, <2>2, <2>3, OrderStays
<1>4. ASSUME NEW c \in Clients, ClientStep(c) PROVE OrderInv'
  BY <1>0, <1>2, <1>3, <1>4, OrderDrawId, OrderSend DEF ClientStep
<1>5. CASE NotifyAll
  <2>1. \A d \in Clients : client'[d].at = "sending" => client'[d] = client[d]
    BY <1>0, <1>5 DEF NotifyAll, TypeOK
  <2>2. UNCHANGED <<queue, held, Executing, Sending, Finished>>
    BY <1>0, <1>5, NotifyPlaces DEF NotifyAll, StaysPut, Finished
  <2> QED
    BY <1>0, <2>1, <2>2, OrderStays
<1>6. CASE DropSends \/ DropJoined
  <2>1. UNCHANGED <<held, client, slots, delivered, thread>>
    BY <1>6 DEF DropSends, DropJoined
  <2>2. UNCHANGED <<Queued, Executing, Sending, Finished>>
    BY <1>0, <1>6, DropPlaces DEF StaysPut, Finished
  <2>3. \A n \in DOMAIN queue' : JobAt(n)' => n \in DOMAIN queue /\ JobAt(n) /\ queue'[n] = queue[n]
    <3>1. queue' = queue \/ queue' = Append(queue, Shutdown)
      BY <1>6 DEF DropSends, DropJoined
    <3>2. queue \in Seq(Messages) /\ Shutdown.kind # "job"
      BY <1>0 DEF TypeOK, Messages, Shutdown
    <3>3. CASE queue' = queue
      BY <3>3 DEF JobAt
    <3>4. CASE queue' = Append(queue, Shutdown)
      BY <3>2, <3>4 DEF JobAt
    <3> QED
      BY <3>1, <3>3, <3>4
  <2>4. QueueOrder'
    BY <2>1, <2>3 DEF OrderInv, QueueOrder, JobAt
  <2>5. SendOrder' /\ ExecutingFirst' /\ ClientOrderKept'
    BY <2>1, <2>2 DEF OrderInv, SendOrder, ExecutingFirst, ClientOrderKept
  <2> QED
    BY <1>0, <2>4, <2>5 DEF OrderInv
<1>7. CASE UNCHANGED vars
  BY <1>0, <1>7, OrderStays DEF vars, Executing, Sending, Finished, Stored, Delivered
<1> QED
  BY <1>0, <1>4, <1>5, <1>6, <1>7, OrderReceive, OrderEnd, OrderStore DEF Next, ThreadStep

\* A client's jobs are executed in the order in which it submitted them, next
\* to any number of other clients (gpu_operator_v2.rs:86, queue_v2.rs:86).
THEOREM JobsInOrder == Spec => []ClientOrderKept
<1>1. Spec => []OrderInv
  BY OrderInit, OrderNext, PTL DEF Spec
<1>2. OrderInv => ClientOrderKept
  BY DEF OrderInv
<1> QED
  BY <1>1, <1>2, PTL

-----------------------------------------------------------------------------
(* Drop *)

\* After Drop has begun nobody is inside a call; Shutdown is the last message;
\* the thread that has obeyed it left no job behind.
DropInv ==
  /\ PlacesInv
  /\ life # "open" => \A c \in Clients : client[c] = Idle
  /\ \A n \in DOMAIN queue : queue[n].kind = "shutdown" => life # "open" /\ n = Len(queue)
  /\ thread.at = "stopped" => life # "open" /\ Submitted = Finished

\* A new operator.
LEMMA DropInit == Init => DropInv
BY PlacesInit DEF Init, DropInv, Receiving

\* A client that does anything does it to an operator that is open.
LEMMA DropClientStep ==
  ASSUME DropInv, PlacesInv', NEW c \in Clients, ClientStep(c)
  PROVE  DropInv'
<1> USE DEF DropInv
<1>1. life = "open"
  BY DEF ClientStep, DrawId, Send, DrainCall, DrainReturns, DrainWaits, SpuriousWake,
         TryDrainSome, Idle
<1>2. UNCHANGED <<life, thread>>
  BY DEF ClientStep, DrawId, Send, DrainCall, DrainReturns, DrainWaits, SpuriousWake,
         TryDrainSome
<1>3. \A n \in DOMAIN queue' : queue'[n].kind # "shutdown"
  <2>1. queue' = queue \/ queue' = Append(queue, JobMessage(client[c].id))
    BY DEF ClientStep, DrawId, Send, DrainCall, DrainReturns, DrainWaits, SpuriousWake,
           TryDrainSome
  <2>2. queue \in Seq(Messages)
    BY DEF PlacesInv, TypeOK, Messages
  <2> QED
    BY <1>1, <2>1, <2>2 DEF JobMessage
<1> QED
  BY <1>1, <1>2, <1>3

\* Shutdown is found when nothing else is left to do.
LEMMA DropThreadStep ==
  ASSUME DropInv, PlacesInv', ThreadStep
  PROVE  DropInv'
<1> USE DEF DropInv
<1>0. queue \in Seq(Messages) /\ UNCHANGED life
  BY DEF PlacesInv, TypeOK, Messages, ThreadStep, Receive, Stop, Panic, Store, NotifyAll
<1>1. CASE Receive
  <2>1. queue' = Tail(queue) /\ queue # <<>> /\ UNCHANGED client /\ thread'.at = "executing"
    BY <1>1 DEF Receive
  <2>2. \A n \in DOMAIN queue' : n + 1 \in DOMAIN queue /\ queue'[n] = queue[n + 1]
    BY <1>0, <2>1
  <2>3. Len(queue') = Len(queue) - 1 /\ Len(queue) \in Nat /\ DOMAIN queue' \subseteq Nat
    BY <1>0, <2>1
  <2> QED
    BY <1>0, <2>1, <2>2, <2>3
<1>2. CASE Stop
  <2>1. 1 \in DOMAIN queue /\ queue[1].kind = "shutdown"
    BY <1>0, <1>2 DEF Stop
  <2>2. Len(queue) = 1 /\ life # "open"
    BY <2>1
  <2>3. Queued = {} /\ Executing = {} /\ Alive
    BY <1>0, <1>2, <2>1, <2>2 DEF Stop, Queued, Executing, Alive, Receiving
  <2>4. Sending = {}
    BY <2>2 DEF Sending, Idle
  <2>5. Submitted = Finished
    BY <2>3, <2>4 DEF PlacesInv, PlacesKnown, Finished
  <2>6. Submitted' = Finished' /\ queue' = <<>> /\ UNCHANGED client
    BY <1>2, <2>5 DEF Stop, Submitted, Finished, Stored, Delivered
  <2> QED
    BY <1>0, <2>2, <2>6
<1>3. CASE Panic
  BY <1>0, <1>3 DEF Panic
<1>4. CASE Store
  BY <1>0, <1>4 DEF Store
<1>5. CASE NotifyAll
  BY <1>0, <1>5 DEF NotifyAll, Receiving, Idle
<1> QED
  BY <1>1, <1>2, <1>3, <1>4, <1>5 DEF ThreadStep

\* Every step.
LEMMA DropNext == DropInv /\ [Next]_vars => DropInv'
<1> SUFFICES ASSUME DropInv, [Next]_vars PROVE DropInv'
  OBVIOUS
<1>0. PlacesInv /\ PlacesInv' /\ queue \in Seq(Messages)
  BY PlacesNext DEF DropInv, PlacesInv, TypeOK, Messages
<1>1. CASE DropSends
  <2>1. /\ life = "open" /\ life' # "open" /\ \A c \in Clients : client'[c] = Idle
        /\ UNCHANGED thread
    BY <1>1 DEF DropSends
  <2>2. queue' = queue \/ queue' = Append(queue, Shutdown)
    BY <1>1 DEF DropSends
  <2>3. \A n \in DOMAIN queue : queue[n].kind # "shutdown"
    BY <2>1 DEF DropInv
  <2>4. \A n \in DOMAIN queue' : queue'[n].kind = "shutdown" => n = Len(queue')
    BY <1>0, <2>2, <2>3 DEF Shutdown
  <2> QED
    BY <1>0, <2>1, <2>4 DEF DropInv
<1>2. CASE DropJoined
  BY <1>0, <1>2 DEF DropJoined, DropInv, Submitted, Finished, Stored, Delivered
<1>3. CASE UNCHANGED vars
  BY <1>0, <1>3 DEF vars, DropInv, Submitted, Finished, Stored, Delivered
<1> QED
  BY <1>0, <1>1, <1>2, <1>3, DropClientStep, DropThreadStep DEF Next

\* Dropping the operator loses no job that was submitted before
\* (queue_v2.rs:86): the thread serves the channel to its end first.
THEOREM DropLosesNothing == Spec => []DropExecutesAll
<1>1. Spec => []DropInv
  BY DropInit, DropNext, PTL DEF Spec
<1>2. DropInv => DropExecutesAll
  BY DEF DropInv, DropExecutesAll, Submitted, Finished, Stored, Delivered
<1> QED
  BY <1>1, <1>2, PTL

=============================================================================
