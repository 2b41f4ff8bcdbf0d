------------------------- MODULE SyncOperatorProofs -------------------------
(***************************************************************************)
(* Theorems about SyncOperator, for any number of clients and jobs.  A job *)
(* that has been accepted is in execution in its caller, in its slot or    *)
(* with the client that took it, or it was lost to a panic; what a client  *)
(* holds is in a slot or was delivered.                                    *)
(***************************************************************************)
EXTENDS SyncOperator, TLAPS

USE SyncConstantsAssumption

Stored == DOMAIN slots
Delivered == DOMAIN delivered
Executes(c) == client[c].at = "executing"

Types ==
  /\ nextId \in Nat
  /\ poisoned \in BOOLEAN
  /\ client \in [Clients -> {Idle, Panicked} \cup [at : {"executing"}, id : DOMAIN submitted]]
  /\ held \in [Clients -> SUBSET (Stored \cup Delivered)]
  /\ DOMAIN submitted = 0 .. nextId - 1
  /\ Stored \cup Delivered \subseteq DOMAIN submitted

\* A job in execution has no result yet and one caller.
Apart ==
  /\ Stored \cap Delivered = {}
  /\ \A c \in Clients : Executes(c) => client[c].id \notin Stored \cup Delivered
  /\ \A c, d \in Clients : Executes(c) /\ Executes(d) /\ client[c].id = client[d].id => c = d

SyncInv == Types /\ Apart /\ PoisonedByReuseOnly

\* A new operator.
LEMMA SyncInit == Init => SyncInv
<1> SUFFICES ASSUME Init PROVE SyncInv
  OBVIOUS
<1>1. Stored = {} /\ Delivered = {} /\ DOMAIN submitted = {}
  BY DEF Init, Stored, Delivered, EmptyMap
<1>2. Types
  <2>1. nextId = 0 /\ poisoned = FALSE /\ DOMAIN submitted = 0 .. nextId - 1
    BY <1>1 DEF Init
  <2>2. client \in [Clients -> {Idle, Panicked} \cup [at : {"executing"}, id : DOMAIN submitted]]
    BY DEF Init
  <2>3. held \in [Clients -> SUBSET (Stored \cup Delivered)]
    BY DEF Init
  <2> QED
    BY <1>1, <2>1, <2>2, <2>3 DEF Types
<1>3. Apart
  BY <1>1 DEF Init, Apart, Executes, Idle
<1>4. PoisonedByReuseOnly
  BY DEF Init, PoisonedByReuseOnly
<1> QED
  BY <1>2, <1>3, <1>4 DEF SyncInv

\* submit draws an id nobody has.
LEMMA DrawIdKeeps ==
  ASSUME SyncInv, NEW c \in Clients, NEW j \in Jobs, DrawId(c, j)
  PROVE  SyncInv'
<1> USE DEF SyncInv, Types
<1>1. /\ DOMAIN submitted' = DOMAIN submitted \cup {nextId} /\ nextId \notin DOMAIN submitted
      /\ UNCHANGED <<Stored, Delivered, held, poisoned>>
  BY DEF DrawId, With, Stored, Delivered
<1>2. /\ client'[c] = [at |-> "executing", id |-> nextId] /\ client[c] = Idle
      /\ \A d \in Clients \ {c} : client'[d] = client[d]
  BY DEF DrawId
<1>3. client' \in [Clients -> {Idle, Panicked} \cup [at : {"executing"}, id : DOMAIN submitted']]
  BY <1>1 DEF DrawId
<1>4. DOMAIN submitted' = 0 .. nextId' - 1 /\ nextId' \in Nat
  BY <1>1 DEF DrawId
<1>5. Types'
  BY <1>1, <1>3, <1>4
<1>6. \A d \in Clients : Executes(d) => client[d].id \in DOMAIN submitted
  BY DEF Executes, Idle, Panicked
<1>7. Apart'
  BY <1>1, <1>2, <1>6 DEF Apart, Executes
<1>8. PoisonedByReuseOnly'
  BY <1>1, <1>2 DEF PoisonedByReuseOnly, Delivered, Idle, Panicked
<1> QED
  BY <1>5, <1>7, <1>8

\* submit stores the result and gives the handle to the caller.
LEMMA StoreKeeps ==
  ASSUME SyncInv, NEW c \in Clients, Store(c)
  PROVE  SyncInv'
<1> USE DEF SyncInv, Types
<1> DEFINE id == client[c].id
<1>1. Executes(c) /\ ~poisoned /\ ~poisoned'
  BY DEF Store, Executes
<1>2. id \in DOMAIN submitted /\ id \notin Stored \cup Delivered
  BY <1>1 DEF Apart, Executes, Idle, Panicked
<1>3. Stored' = Stored \cup {id} /\ UNCHANGED <<nextId, submitted, Delivered>>
  BY DEF Store, With, Stored, Delivered
<1>4. /\ client' = [client EXCEPT ![c] = Idle]
      /\ held' = [held EXCEPT ![c] = @ \cup {id}]
  BY DEF Store
<1> HIDE DEF id
<1>5. client' \in [Clients -> {Idle, Panicked} \cup [at : {"executing"}, id : DOMAIN submitted']]
  BY <1>3, <1>4
<1>6. held' \in [Clients -> SUBSET (Stored' \cup Delivered')]
  BY <1>3, <1>4
<1>7. Types'
  <2>1. nextId' \in Nat /\ DOMAIN submitted' = 0 .. nextId' - 1 /\ poisoned' \in BOOLEAN
    BY <1>1, <1>3 DEF Store
  <2>2. Stored' \cup Delivered' \subseteq DOMAIN submitted'
    BY <1>2, <1>3
  <2> QED
    BY <1>5, <1>6, <2>1, <2>2
<1>8. \A d \in Clients : Executes(d)' => d # c /\ Executes(d) /\ client'[d] = client[d]
  BY <1>4 DEF Executes, Idle
<1>9. Apart'
  BY <1>1, <1>2, <1>3, <1>8 DEF Apart, id
<1> QED
  BY <1>1, <1>7, <1>9 DEF PoisonedByReuseOnly

\* drain and try_drain move a result from its slot to the caller.
LEMMA TakeKeeps ==
  ASSUME SyncInv, NEW c \in Clients, NEW id \in held[c], Take(c, id)
  PROVE  SyncInv'
<1> USE DEF SyncInv, Types
<1>1. /\ id \in Stored /\ Stored' = Stored \ {id} /\ Delivered' = Delivered \cup {id}
      /\ UNCHANGED <<nextId, submitted, client, poisoned>> /\ ~poisoned
  BY DEF Take, With, Without, Restrict, Stored, Delivered
<1>2. Stored' \cup Delivered' = Stored \cup Delivered
  BY <1>1
<1>3. held' \in [Clients -> SUBSET (Stored \cup Delivered)]
  BY DEF Take
<1>4. Apart'
  BY <1>1, <1>2 DEF Apart, Executes
<1> QED
  BY <1>1, <1>2, <1>3, <1>4 DEF PoisonedByReuseOnly

\* A handle whose slot is empty was answered before: only then drain panics
\* under the lock.
LEMMA PanicKeeps ==
  ASSUME SyncInv, NEW c \in Clients,
         \/ ExecutePanics(c) \/ LockPanics(c) \/ DrainForeign(c)
         \/ \E id \in held[c] : DrainPanics(c, id)
  PROVE  SyncInv'
<1> USE DEF SyncInv, Types
<1>1. /\ client' = [client EXCEPT ![c] = Panicked] /\ UNCHANGED <<nextId, slots, held, submitted, delivered>>
  BY DEF ExecutePanics, LockPanics, DrainForeign, DrainPanics
<1>2. UNCHANGED <<Stored, Delivered>>
  BY <1>1 DEF Stored, Delivered
<1>3. client' \in [Clients -> {Idle, Panicked} \cup [at : {"executing"}, id : DOMAIN submitted']]
  BY <1>1
<1>4. \A d \in Clients : Executes(d)' => d # c /\ Executes(d) /\ client'[d] = client[d]
  BY <1>1 DEF Executes, Panicked
<1>5. Apart'
  BY <1>2, <1>4 DEF Apart
<1>6. poisoned' \in BOOLEAN
  BY DEF ExecutePanics, LockPanics, DrainForeign, DrainPanics
<1>7. Types'
  BY <1>1, <1>2, <1>3, <1>6
<1>8. PoisonedByReuseOnly'
  <2>1. CASE \E id \in held[c] : DrainPanics(c, id)
    <3>1. PICK id \in held[c] : id \notin DOMAIN slots
      BY <2>1 DEF DrainPanics
    <3>2. id \in DOMAIN delivered
      BY <3>1 DEF Stored, Delivered
    <3> QED
      BY <1>1, <3>1, <3>2 DEF PoisonedByReuseOnly
  <2>2. CASE ExecutePanics(c) \/ LockPanics(c) \/ DrainForeign(c)
    <3>1. poisoned' = poisoned
      BY <2>2 DEF ExecutePanics, LockPanics, DrainForeign
    <3>2. \A d \in Clients : client[d] = Panicked => client'[d] = Panicked
      BY <1>1
    <3> QED
      BY <1>1, <3>1, <3>2 DEF PoisonedByReuseOnly
  <2> QED
    BY <2>1, <2>2
<1> QED
  BY <1>5, <1>7, <1>8

\* Every step.
LEMMA SyncNext == SyncInv /\ [Next]_vars => SyncInv'
<1> SUFFICES ASSUME SyncInv, [Next]_vars PROVE SyncInv'
  OBVIOUS
<1>1. CASE UNCHANGED vars
  BY <1>1 DEF vars, SyncInv, Types, Apart, PoisonedByReuseOnly, Stored, Delivered, Executes
<1>2. CASE Next
  BY <1>2, DrawIdKeeps, StoreKeeps, TakeKeeps, PanicKeeps DEF Next
<1> QED
  BY <1>1, <1>2

\* Only the second use of a handle poisons the mutex of the slots
\* (cpu_operator_v2.rs:240, memory_operator_v2.rs:112): a panic of a job, for any
\* number of clients, spares the others.
THEOREM PoisonedOnlyByReuse == Spec => []PoisonedByReuseOnly
<1>1. Spec => []SyncInv
  BY SyncInit, SyncNext, PTL DEF Spec
<1>2. SyncInv => PoisonedByReuseOnly
  BY DEF SyncInv
<1> QED
  BY <1>1, <1>2, PTL

-----------------------------------------------------------------------------
\* A step of the operator is a step of the contract or none.
LEMMA SyncContractStep ==
  SyncInv /\ [Next]_vars => [Contract!Next]_<<submitted, slots, delivered>>
<1> SUFFICES ASSUME SyncInv, [Next]_vars
             PROVE  Contract!Next \/ UNCHANGED <<submitted, slots, delivered>>
  OBVIOUS
<1> USE DEF SyncInv, Types
<1>1. ASSUME NEW c \in Clients, NEW j \in Jobs, DrawId(c, j) PROVE Contract!Next
  <2>1. nextId \in Ids /\ nextId \notin DOMAIN submitted
    BY <1>1 DEF DrawId, Ids
  <2>2. Contract!Submit(nextId, j)
    BY <1>1, <2>1 DEF DrawId, Contract!Submit, With, Contract!With
  <2> QED
    BY <2>1, <2>2 DEF Contract!Next
<1>2. ASSUME NEW c \in Clients, Store(c) PROVE Contract!Next
  <2>1. client[c].id \in DOMAIN submitted \ (DOMAIN slots \cup DOMAIN delivered)
    BY <1>2 DEF Store, Apart, Executes, Stored, Delivered, Idle, Panicked
  <2>2. Contract!Finish(client[c].id)
    BY <1>2, <2>1 DEF Store, Contract!Finish, With, Contract!With
  <2> QED
    BY <2>1, <2>2 DEF Contract!Next
<1>3. ASSUME NEW c \in Clients, NEW id \in held[c], Take(c, id) PROVE Contract!Next
  <2>1. id \in DOMAIN slots /\ Contract!Deliver(id)
    BY <1>3 DEF Take, Contract!Deliver, With, Contract!With,
                Without, Contract!Without, Restrict, Contract!Restrict
  <2> QED
    BY <2>1 DEF Contract!Next
<1>4. ASSUME NEW c \in Clients,
             ExecutePanics(c) \/ LockPanics(c) \/ DrainForeign(c)
             \/ \E id \in held[c] : DrainPanics(c, id)
      PROVE  UNCHANGED <<submitted, slots, delivered>>
  BY <1>4 DEF ExecutePanics, LockPanics, DrainForeign, DrainPanics
<1>5. CASE UNCHANGED vars
  BY <1>5 DEF vars
<1> QED
  BY <1>1, <1>2, <1>3, <1>4, <1>5 DEF Next

\* The operators that run a job inside submit implement the contract of the
\* trait OperatorV2 (operator_v2.rs:44) as the GPU operator does.
THEOREM SyncContractImplemented == Spec => ContractKept
<1>1. Init => Contract!Init
  BY DEF Init, Contract!Init, EmptyMap, Contract!EmptyMap
<1>2. Spec => []SyncInv
  BY SyncInit, SyncNext, PTL DEF Spec
<1> QED
  BY <1>1, <1>2, SyncContractStep, PTL
     DEF Spec, ContractKept, Contract!Spec, Contract!contractVars

=============================================================================
