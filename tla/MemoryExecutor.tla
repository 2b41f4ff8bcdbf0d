--------------------------- MODULE MemoryExecutor ---------------------------
(***************************************************************************)
(* The memory executor of neurocore: one write-locked registry of matrix   *)
(* buffers, the per-device element pools that account for them, the        *)
(* registry of raw Vulkan buffers, the pool of idle temporary buffers and  *)
(* the SSD cache.  Threads share it as Arc<RwLock<MemoryExecutor>>.        *)
(*                                                                         *)
(* Every public call runs under the write lock, so a call is one action,   *)
(* with one exception: a migration (move_matrix_handle) is cut into the    *)
(* steps at which it can fail or panic.  While `job' is not NoJob the lock *)
(* is held, and no other action is enabled.                                *)
(*                                                                         *)
(* Buffers are sizes and identities; their contents are not modelled here. *)
(* An identity is a member of a set and is fresh when nothing refers to    *)
(* it (the code draws it from a counter).                                  *)
(***************************************************************************)
EXTENDS Integers, Sequences, FiniteSets, Functions, SequencesExt, Maps

CONSTANTS
  Gpus,         \* the DeviceVram(id) kinds that have a GPU context
  Capacity,     \* [pool kind -> max_elements]: its domain is the set of pools
  SsdResidue,   \* elements already in the SSD directory at start-up
  Sizes,        \* sizes rows * cols of the buffers that are asked for
  MatrixIds,    \* identities of matrix entries (bounds the entries alive)
  RawIds,       \* identities of raw buffers (bounds the raw buffers alive)
  MaxHandles    \* bound on the live handles of one entry

HostRam  == "HostRam"
SsdCache == "SsdCache"
Pools    == DOMAIN Capacity
Kinds    == Gpus \cup {HostRam, SsdCache}
NoRaw    == "NoRaw"
NoJob    == [phase |-> "none"]
NoMove   == [phase |-> "none"]
NoPanic  == [by |-> "none", raw |-> NoRaw]

ASSUME PoolsAssumption ==
  /\ Gpus \cap {HostRam, SsdCache} = {}
  /\ Capacity \in [Pools -> Nat]
  /\ Pools \subseteq Gpus \cup {HostRam, SsdCache}
  /\ IsFiniteSet(Gpus)

ASSUME SizesAssumption ==
  /\ Sizes \subseteq Nat \ {0}
  /\ MaxHandles \in Nat
  /\ SsdResidue \in Nat
  /\ SsdCache \in Pools => SsdResidue <= Capacity[SsdCache]
  /\ NoRaw \notin RawIds
  /\ IsFiniteSet(MatrixIds) /\ IsFiniteSet(RawIds)

VARIABLES
  used,      \* pools[kind].used_elements
  entry,     \* matrix_entries: partial function from MatrixIds
  lru,       \* identities in the order of their last_access, oldest first
  handles,   \* number of MatrixBufferHandle values alive per identity
  raws,      \* raw_registry: partial function from RawIds
  idle,      \* temp_pool.buffers: a queue of raw buffers per kind
  lent,      \* raw buffers given out by acquire_temp_buffer
  ssdUsed,   \* ssd_cache.used_bytes, in elements
  job,       \* the migration that holds the lock, or NoJob
  moving,    \* the entry it has taken out of the registry, or NoMove
  lost,      \* entries a failed migration removed and never put back
  panic      \* what panicked under the lock and poisoned it, with the staging
             \* buffer it had in hand, or NoPanic

vars == <<used, entry, lru, handles, raws, idle, lent, ssdUsed, job, moving,
          lost, panic>>

\* The lock can be taken: no migration holds it and no panic poisoned it.
LockFree == job = NoJob /\ panic = NoPanic

-----------------------------------------------------------------------------
(* Pools: pool.rs *)

\* Faulty: asks for a free element, not for e of them.
CanAllocateSome(k, e) == k \in Pools /\ used[k] < Capacity[k]

CanAllocate(k, e) == k \in Pools /\ used[k] + e <= Capacity[k]

\* saturating_sub
Monus(a, b) == IF a >= b THEN a - b ELSE 0

Reserve(k, e) == [used EXCEPT ![k] = @ + e]

\* Faulty: gives back bytes where the pool counts elements.
DeallocateBytes(k, e) == [used EXCEPT ![k] = @ - 4 * e]

Deallocate(k, e) == [used EXCEPT ![k] = Monus(@, e)]

-----------------------------------------------------------------------------
(* Raw buffers and the pool of temporary ones: raw_buffer.rs, temp_pool.rs *)

RawInfo(k, e) == [kind |-> k, size |-> e]

\* The registry counts size_bytes / 4 elements, but Buffer::new_unsized takes a
\* number of f32 elements and is given size_bytes: the buffer is 4 times longer.
BufLen(r) == 4 * raws[r].size

Fits(k, e)     == {i \in DOMAIN idle[k] : BufLen(idle[k][i]) >= e}
FirstFit(k, e) == Min(Fits(k, e))

IdleRaws == UNION {{idle[k][i] : i \in DOMAIN idle[k]} : k \in DOMAIN idle}

\* cleanup(Duration::ZERO): every idle buffer is unregistered; unregister gives
\* the pool of a buffer it knows its elements back.
IdleCells(k) ==
  UNION {{r} \X (1 .. raws[r].size) :
           r \in {q \in IdleRaws \cap DOMAIN raws : raws[q].kind = k}}

\* Faulty: the buffers go, their elements stay charged.
CleanedUsedForgotten == used

CleanedUsed == [k \in Pools |-> Monus(used[k], Cardinality(IdleCells(k)))]
CleanedRaws == Restrict(raws, DOMAIN raws \ IdleRaws)
CleanedIdle == [k \in DOMAIN idle |-> <<>>]

(* temp_pool.acquire(k, e) hands out r.  `back' is what the same critical  *)
(* section gives back at once: <<r>> for a staging copy, <<>> for a loan.  *)
TempReuse(k, e, r, back) ==
  /\ Fits(k, e) # {}
  /\ r = idle[k][FirstFit(k, e)]
  /\ idle' = [idle EXCEPT ![k] = RemoveAt(@, FirstFit(k, e)) \o back]
  /\ UNCHANGED <<used, raws>>

TempCreate(k, e, r, back) ==
  /\ Fits(k, e) = {}
  /\ CanAllocate(k, e)
  /\ r \in RawIds \ DOMAIN raws
  /\ used' = Reserve(k, e)
  /\ raws' = With(raws, r, RawInfo(k, e))
  /\ idle' = [idle EXCEPT ![k] = @ \o back]

TempCleanThenCreate(k, e, r, back) ==
  /\ Fits(k, e) = {}
  /\ k \in Pools /\ ~ CanAllocate(k, e)
  /\ CleanedUsed[k] + e <= Capacity[k]
  /\ r \in RawIds \ DOMAIN CleanedRaws
  /\ used' = [CleanedUsed EXCEPT ![k] = @ + e]
  /\ raws' = With(CleanedRaws, r, RawInfo(k, e))
  /\ idle' = [CleanedIdle EXCEPT ![k] = back]

TempAcquire(k, e, r, back) ==
  \/ TempReuse(k, e, r, back)
  \/ TempCreate(k, e, r, back)
  \/ TempCleanThenCreate(k, e, r, back)

\* No pool of the kind, not enough memory even without the idle buffers, or
\* Buffer::new_unsized fails, with or without a cleanup before it.
TempPanics(k, e) ==
  /\ Fits(k, e) = {}
  /\ IF k \in Pools /\ ~ CanAllocate(k, e)
       THEN /\ used' = CleanedUsed
            /\ raws' = CleanedRaws
            /\ idle' = CleanedIdle
       ELSE UNCHANGED <<used, raws, idle>>

-----------------------------------------------------------------------------
(* Clients: matrix_entry.rs, handle.rs, buffer/pool.rs, temp_buffers.rs *)

Init ==
  /\ used = [k \in Pools |-> 0]
  /\ entry = <<>>
  /\ lru = <<>>
  /\ handles = [id \in MatrixIds |-> 0]
  /\ raws = <<>>
  /\ idle = [k \in Gpus \cup {HostRam} |-> <<>>]
  /\ lent = {}
  /\ ssdUsed = SsdResidue
  /\ job = NoJob
  /\ moving = NoMove
  /\ lost = <<>>
  /\ panic = NoPanic

FreshMatrixIds ==
  {id \in MatrixIds : handles[id] = 0} \ (DOMAIN entry \cup DOMAIN lost)

NewEntry(k, e, high, raw) ==
  [kind |-> k, size |-> e, ref |-> 1, pooled |-> FALSE, high |-> high, raw |-> raw]

Install(id, e) ==
  /\ entry' = With(entry, id, e)
  /\ lru' = Append(lru, id)
  /\ handles' = [handles EXCEPT ![id] = 1]

\* acquire_matrix_handle.  An Err for lack of a pool or of room, or because the
\* GPU buffer or the file cannot be created, changes nothing; AcquireWriteFails
\* is the one that does.
Acquire(id, k, e, high) ==
  /\ LockFree
  /\ id \in FreshMatrixIds
  /\ CanAllocate(k, e)
  /\ \/ /\ k = HostRam
        /\ used' = Reserve(k, e)
        /\ Install(id, NewEntry(k, e, high, NoRaw))
        /\ UNCHANGED <<raws, ssdUsed>>
     \/ /\ k \in Gpus
        /\ \E r \in RawIds \ DOMAIN raws :
              /\ raws' = With(raws, r, RawInfo(k, e))
              /\ Install(id, NewEntry(k, e, high, r))
        /\ used' = Reserve(k, e)
        /\ UNCHANGED ssdUsed
     \/ /\ k = SsdCache
        /\ ssdUsed + e <= Capacity[k]
        /\ used' = Reserve(k, e)
        /\ ssdUsed' = ssdUsed + e
        /\ Install(id, NewEntry(k, e, high, NoRaw))
        /\ UNCHANGED raws
  /\ UNCHANGED <<idle, lent, job, moving, lost, panic>>

\* Writing the zeros of a new SSD buffer fails: its file stays behind.
AcquireWriteFails(e) ==
  /\ LockFree
  /\ CanAllocate(SsdCache, e)
  /\ ssdUsed + e <= Capacity[SsdCache]
  /\ ssdUsed' = ssdUsed + e
  /\ UNCHANGED <<used, entry, lru, handles, raws, idle, lent, job, moving, lost, panic>>

\* TempMatrixPool::acquire_kind has no free handle and `expect's a new one, with
\* the write guard in hand: where acquire_matrix_handle fails, it panics.
PoolAcquirePanics(k, e) ==
  LET written == k = SsdCache /\ CanAllocate(k, e) /\ ssdUsed + e <= Capacity[k] IN
  /\ LockFree
  /\ k = HostRam => ~ CanAllocate(k, e)
  /\ ssdUsed' \in {ssdUsed} \cup (IF written THEN {ssdUsed + e} ELSE {})
  /\ panic' = [by |-> "acquire_kind", raw |-> NoRaw]
  /\ UNCHANGED <<used, entry, lru, handles, raws, idle, lent, job, moving, lost>>

\* Pooled entries have their one handle in the TempMatrixPool: nobody else can
\* clone it, drop it or move the entry.
Pooled(id) == id \in DOMAIN entry /\ entry[id].pooled

\* Faulty: pools the entry without asking for other handles.
PoolReleaseShared(id) ==
  /\ LockFree
  /\ id \in DOMAIN entry /\ ~ entry[id].pooled
  /\ handles[id] > 0
  /\ entry' = [entry EXCEPT ![id].pooled = TRUE]
  /\ lru' = Append(RemoveFirst(lru, id), id)
  /\ UNCHANGED <<used, handles, raws, idle, lent, ssdUsed, job, moving, lost, panic>>

\* TempMatrixPool::release of the only handle: it goes to the free list, and
\* the entry is touched.  (With other handles alive it is a DropHandle.)
PoolRelease(id) ==
  /\ LockFree
  /\ id \in DOMAIN entry /\ ~ entry[id].pooled
  /\ handles[id] > 0 /\ entry[id].ref <= 1
  /\ entry' = [entry EXCEPT ![id].pooled = TRUE]
  /\ lru' = Append(RemoveFirst(lru, id), id)
  /\ UNCHANGED <<used, handles, raws, idle, lent, ssdUsed, job, moving, lost, panic>>

\* TempMatrixPool::acquire_kind finds the handle in the free list.
PoolReuse(id) ==
  /\ LockFree
  /\ Pooled(id)
  /\ entry' = [entry EXCEPT ![id].pooled = FALSE]
  /\ UNCHANGED <<used, lru, handles, raws, idle, lent, ssdUsed, job, moving, lost,
                 panic>>

\* MatrixBufferHandle::clone, increment_ref_count
CloneHandle(id) ==
  /\ LockFree
  /\ ~ Pooled(id)
  /\ handles[id] \in 1 .. MaxHandles - 1
  /\ handles' = [handles EXCEPT ![id] = @ + 1]
  /\ entry' = IF id \in DOMAIN entry THEN [entry EXCEPT ![id].ref = @ + 1] ELSE entry
  /\ UNCHANGED <<used, lru, raws, idle, lent, ssdUsed, job, moving, lost, panic>>

\* The storage of e is given back; remove_file may fail, which is ignored.
FreeStorage(e) ==
  /\ used' = Deallocate(e.kind, e.size)
  /\ raws' = IF e.kind \in Gpus THEN Without(raws, e.raw) ELSE raws
  /\ IF e.kind = SsdCache
       THEN ssdUsed' \in {ssdUsed - e.size, ssdUsed}
       ELSE UNCHANGED ssdUsed

\* MatrixBufferHandle::drop, release_matrix_handle
DropHandle(id) ==
  /\ LockFree
  /\ handles[id] > 0 /\ ~ Pooled(id)
  /\ handles' = [handles EXCEPT ![id] = @ - 1]
  /\ \/ /\ id \notin DOMAIN entry
        /\ UNCHANGED <<used, entry, lru, raws, ssdUsed>>
     \/ /\ id \in DOMAIN entry
        /\ Monus(entry[id].ref, 1) > 0
        /\ entry' = [entry EXCEPT ![id].ref = Monus(@, 1)]
        /\ UNCHANGED <<used, lru, raws, ssdUsed>>
     \/ /\ id \in DOMAIN entry
        /\ Monus(entry[id].ref, 1) = 0
        /\ FreeStorage(entry[id])
        /\ entry' = Without(entry, id)
        /\ lru' = RemoveFirst(lru, id)
  /\ UNCHANGED <<idle, lent, job, moving, lost, panic>>

\* After a panic the lock is poisoned: Drop finds Err and leaves the entry.
DropPoisoned(id) ==
  /\ panic # NoPanic
  /\ handles[id] > 0
  /\ handles' = [handles EXCEPT ![id] = @ - 1]
  /\ UNCHANGED <<used, entry, lru, raws, idle, lent, ssdUsed, job, moving, lost, panic>>

\* acquire_temp_buffer: the room is asked for before an idle buffer is looked for.
AcquireTemp(k, e, r) ==
  /\ LockFree
  /\ CanAllocate(k, e)
  /\ TempAcquire(k, e, r, <<>>)
  /\ lent' = lent \cup {r}
  /\ UNCHANGED <<entry, lru, handles, ssdUsed, job, moving, lost, panic>>

\* No room, or nothing idle fits and no buffer can be created.
AcquireTempPanics(k, e) ==
  /\ LockFree
  /\ CanAllocate(k, e) => Fits(k, e) = {}
  /\ panic' = [by |-> "acquire_temp_buffer", raw |-> NoRaw]
  /\ UNCHANGED <<used, entry, lru, handles, raws, idle, lent, ssdUsed, job, moving,
                 lost>>

ReleaseTemp(r) ==
  /\ LockFree
  /\ r \in lent
  /\ lent' = lent \ {r}
  /\ idle' = [idle EXCEPT ![raws[r].kind] = Append(@, r)]
  /\ UNCHANGED <<used, entry, lru, handles, raws, ssdUsed, job, moving, lost, panic>>

-----------------------------------------------------------------------------
(* Migration: move_matrix_handle and evict_to_make_room, executor.rs *)

EvictDestination == IF HostRam \in Pools THEN HostRam ELSE SsdCache

\* The entries of a kind (`pinned' is never set), and the least recently used of
\* a set of entries: the order in which the sorted candidates are visited.
Candidates(k) == {id \in DOMAIN entry : entry[id].kind = k}
LeastRecent(S) ==
  {id \in S : \E i \in DOMAIN lru :
                lru[i] = id /\ \A j \in 1 .. i - 1 : lru[j] \notin S}

Skipped(id, freed, e) == entry[id].high /\ freed < e \div 2

\* evict_to_make_room(k, e) when k is its own destination: each candidate is
\* "moved" to where it already is, and its size counts as freed.
SeemsFreed(k, e) ==
  LET Count(freed, id) ==
        IF freed >= e \/ Skipped(id, freed, e) THEN freed ELSE freed + entry[id].size
      ByAge == SelectSeq(lru, LAMBDA id : id \in Candidates(k))
  IN  FoldLeft(Count, 0, ByAge) >= e

\* move_matrix_handle takes the entry out of the registry and then works on it.
TakeOut(id, dest) ==
  /\ moving' = [phase |-> "read", id |-> id, dest |-> dest, from |-> entry[id],
                raw |-> NoRaw]
  /\ entry' = Without(entry, id)
  /\ lru' = RemoveFirst(lru, id)
  /\ UNCHANGED <<used, handles, raws, idle, lent, ssdUsed, lost, panic>>

\* move_matrix_handle(id, target) for the holder of a handle; a buffer already
\* in place or a missing pool changes nothing.
MoveBegin(id, target) ==
  /\ LockFree
  /\ id \in DOMAIN entry /\ handles[id] > 0 /\ ~ Pooled(id)
  /\ entry[id].kind # target
  /\ target \in Pools
  /\ LET e == entry[id].size IN
       IF CanAllocate(target, e)
       THEN /\ job' = [phase |-> "move", id |-> id, target |-> target, size |-> e,
                       victims |-> {}, freed |-> 0]
            /\ TakeOut(id, target)
       ELSE /\ job' = [phase |-> "evict", id |-> id, target |-> target, size |-> e,
                       victims |-> Candidates(target), freed |-> 0]
            /\ UNCHANGED <<used, entry, lru, handles, raws, idle, lent, ssdUsed,
                           moving, lost, panic>>

\* The eviction loop looks at its next candidate v.
Evicting(v) ==
  /\ moving = NoMove
  /\ job.freed < job.size
  /\ v \in LeastRecent(job.victims) \cap DOMAIN entry

\* A High entry while less than half is freed; an entry already at the
\* destination; an entry the destination has no room for, nor seems to free.
PassVictim ==
  job.phase = "evict" /\ \E v \in job.victims :
    LET here == entry[v].kind = EvictDestination
        skip == Skipped(v, job.freed, job.size)
    IN  /\ Evicting(v)
        /\ \/ skip
           \/ here
           \/ EvictDestination \notin Pools
           \/ /\ ~ CanAllocate(EvictDestination, entry[v].size)
              /\ ~ SeemsFreed(EvictDestination, entry[v].size)
        /\ job' = [job EXCEPT !.victims = @ \ {v},
                              !.freed = IF here /\ ~ skip THEN @ + entry[v].size ELSE @]
        /\ UNCHANGED <<used, entry, lru, handles, raws, idle, lent, ssdUsed, moving,
                       lost, panic>>

EvictVictim ==
  job.phase = "evict" /\ \E v \in job.victims :
    /\ Evicting(v)
    /\ ~ Skipped(v, job.freed, job.size)
    /\ entry[v].kind # EvictDestination
    /\ EvictDestination \in Pools
    /\ \/ CanAllocate(EvictDestination, entry[v].size)
       \/ SeemsFreed(EvictDestination, entry[v].size)
    /\ job' = [job EXCEPT !.victims = @ \ {v}]
    /\ TakeOut(v, EvictDestination)

\* evict_to_make_room returns Ok: the migration itself goes on.
EvictSucceeds ==
  /\ job.phase = "evict" /\ moving = NoMove
  /\ job.freed >= job.size
  /\ job.id \in DOMAIN entry
  /\ job' = [job EXCEPT !.phase = "move"]
  /\ TakeOut(job.id, job.target)

\* evict_to_make_room returns OutOfMemory, and so does the migration.
EvictFails ==
  /\ job.phase = "evict" /\ moving = NoMove
  /\ job.freed < job.size /\ job.victims = {}
  /\ job' = NoJob
  /\ UNCHANGED <<used, entry, lru, handles, raws, idle, lent, ssdUsed, moving,
                 lost, panic>>

\* Faulty: a victim that failed to move counts as freed.
LoseCounting ==
  /\ lost' = With(lost, moving.id, moving)
  /\ moving' = NoMove
  /\ job' = IF job.phase = "evict" THEN [job EXCEPT !.freed = @ + moving.from.size]
            ELSE NoJob

\* Faulty: the error does not let go of the lock.
LoseHolding ==
  /\ lost' = With(lost, moving.id, moving)
  /\ moving' = NoMove
  /\ UNCHANGED job

\* An error leaves move_matrix_handle by `?': the entry is dropped, its charge
\* stays.  A failed victim is a warning, a failed migration ends the job.
Lose ==
  /\ lost' = With(lost, moving.id, moving)
  /\ moving' = NoMove
  /\ job' = IF job.phase = "evict" THEN job ELSE NoJob

\* A panic drops the entry too, and poisons the lock.
LosePanicking(by, r) ==
  /\ lost' = With(lost, moving.id, moving)
  /\ moving' = NoMove
  /\ job' = NoJob
  /\ panic' = [by |-> by, raw |-> r]

\* A staging buffer that is got, used and given back in one critical section.
Staged == \E r \in RawIds : TempAcquire(HostRam, moving.from.size, r, <<r>>)

\* Mapping the staging buffer is refused: it goes back to the pool, the entry is
\* lost.
StagingFails ==
  /\ Staged
  /\ Lose
  /\ UNCHANGED <<entry, lru, handles, lent, ssdUsed, panic>>

\* No staging buffer is to be had, or copy_buffer_sync panics with it in hand.
StagingPanics ==
  /\ \/ TempPanics(HostRam, moving.from.size) /\ LosePanicking("staging", NoRaw)
     \/ \E r \in RawIds :
          /\ TempAcquire(HostRam, moving.from.size, r, <<>>)
          /\ LosePanicking("copy_buffer_sync", r)
  /\ UNCHANGED <<entry, lru, handles, lent, ssdUsed>>

\* read_matrix_storage_to_vec: a GPU buffer is copied through a staging buffer.
ReadStorage ==
  /\ moving # NoMove /\ moving.phase = "read"
  /\ IF moving.from.kind \in Gpus
       THEN Staged
       ELSE UNCHANGED <<used, raws, idle>>
  /\ moving' = [moving EXCEPT !.phase = "store"]
  /\ UNCHANGED <<entry, lru, handles, lent, ssdUsed, job, lost, panic>>

ReadGpuFails ==
  /\ moving # NoMove /\ moving.phase = "read"
  /\ moving.from.kind \in Gpus
  /\ StagingFails \/ StagingPanics

ReadSsdFails ==
  /\ moving # NoMove /\ moving.phase = "read"
  /\ moving.from.kind = SsdCache
  /\ Lose
  /\ UNCHANGED <<used, entry, lru, handles, raws, idle, lent, ssdUsed, panic>>

\* The new storage is there: the old one is released, the entry is touched and
\* goes back into the registry, and a nested move counts for its eviction.
PutBack(grown) ==
  LET e == moving.from IN
  /\ used' = [grown EXCEPT ![e.kind] = Monus(@, e.size)]
  /\ entry' = With(entry, moving.id, [e EXCEPT !.kind = moving.dest, !.raw = moving.raw])
  /\ lru' = Append(lru, moving.id)
  /\ moving' = NoMove
  /\ job' = IF job.phase = "evict" THEN [job EXCEPT !.freed = @ + e.size] ELSE NoJob

\* Faulty: a VRAM buffer that was read out is never unregistered.
ReleaseOldLeaking(registry, base) ==
  LET e == moving.from IN
  /\ raws' = registry
  /\ IF e.kind = SsdCache THEN ssdUsed' \in {base - e.size, base} ELSE ssdUsed' = base

\* What FreeStorage does to the registry and to the SSD, once `base' is on it.
ReleaseOld(registry, base) ==
  LET e == moving.from IN
  /\ raws' = IF e.kind \in Gpus THEN Without(registry, e.raw) ELSE registry
  /\ IF e.kind = SsdCache THEN ssdUsed' \in {base - e.size, base} ELSE ssdUsed' = base

StoreHost ==
  /\ moving # NoMove /\ moving.phase = "store" /\ moving.dest = HostRam
  /\ CanAllocate(HostRam, moving.from.size)
  /\ PutBack(Reserve(HostRam, moving.from.size))
  /\ ReleaseOld(raws, ssdUsed)
  /\ UNCHANGED <<handles, idle, lent, lost, panic>>

StoreHostFails ==
  /\ moving # NoMove /\ moving.phase = "store" /\ moving.dest = HostRam
  /\ ~ CanAllocate(HostRam, moving.from.size)
  /\ Lose
  /\ UNCHANGED <<used, entry, lru, handles, raws, idle, lent, ssdUsed, panic>>

SsdAccepts(e) == ssdUsed + e <= Capacity[SsdCache]

\* Faulty: the cache does not count the new file.
StoreSsdUncounted ==
  LET e == moving.from.size IN
  /\ moving # NoMove /\ moving.phase = "store" /\ moving.dest = SsdCache
  /\ SsdAccepts(e) /\ CanAllocate(SsdCache, e)
  /\ PutBack(Reserve(SsdCache, e))
  /\ ReleaseOld(raws, ssdUsed)
  /\ UNCHANGED <<handles, idle, lent, lost, panic>>

StoreSsd ==
  LET e == moving.from.size IN
  /\ moving # NoMove /\ moving.phase = "store" /\ moving.dest = SsdCache
  /\ SsdAccepts(e) /\ CanAllocate(SsdCache, e)
  /\ PutBack(Reserve(SsdCache, e))
  /\ ReleaseOld(raws, ssdUsed + e)
  /\ UNCHANGED <<handles, idle, lent, lost, panic>>

\* The cache refuses or cannot create the file; or the write fails or the pool has
\* no room, and the new file stays.
StoreSsdFails ==
  LET e == moving.from.size IN
  /\ moving # NoMove /\ moving.phase = "store" /\ moving.dest = SsdCache
  /\ ssdUsed' \in {ssdUsed} \cup (IF SsdAccepts(e) THEN {ssdUsed + e} ELSE {})
  /\ Lose
  /\ UNCHANGED <<used, entry, lru, handles, raws, idle, lent, panic>>

\* create_raw_gpu_buffer.  Its registration panics when the pool is full, which
\* EvictionMakesRoom rules out here.
StoreGpu ==
  LET e == moving.from.size IN
  /\ moving # NoMove /\ moving.phase = "store" /\ moving.dest \in Gpus
  /\ CanAllocate(moving.dest, e)
  /\ used' = Reserve(moving.dest, e)
  /\ \E r \in RawIds \ DOMAIN raws :
        /\ raws' = With(raws, r, RawInfo(moving.dest, e))
        /\ moving' = [moving EXCEPT !.phase = "upload", !.raw = r]
  /\ UNCHANGED <<entry, lru, handles, idle, lent, ssdUsed, job, lost, panic>>

\* Buffer::new_unsized fails: nothing is registered.
StoreGpuFails ==
  /\ moving # NoMove /\ moving.phase = "store" /\ moving.dest \in Gpus
  /\ Lose
  /\ UNCHANGED <<used, entry, lru, handles, raws, idle, lent, ssdUsed, panic>>

Upload ==
  /\ moving # NoMove /\ moving.phase = "upload"
  /\ Staged
  /\ moving' = [moving EXCEPT !.phase = "commit"]
  /\ UNCHANGED <<entry, lru, handles, lent, ssdUsed, job, lost, panic>>

\* The new buffer stays registered.
UploadFails ==
  /\ moving # NoMove /\ moving.phase = "upload"
  /\ StagingFails \/ StagingPanics

Commit ==
  /\ moving # NoMove /\ moving.phase = "commit"
  /\ PutBack(used)
  /\ ReleaseOld(raws, ssdUsed)
  /\ UNCHANGED <<handles, idle, lent, lost, panic>>

-----------------------------------------------------------------------------

MigrationStep ==
  \/ PassVictim \/ EvictVictim \/ EvictSucceeds \/ EvictFails
  \/ ReadStorage \/ ReadGpuFails \/ ReadSsdFails
  \/ StoreHost \/ StoreHostFails \/ StoreSsd \/ StoreSsdFails
  \/ StoreGpu \/ StoreGpuFails \/ Upload \/ UploadFails \/ Commit

ClientStep ==
  \/ \E id \in MatrixIds, k \in Pools, e \in Sizes, high \in BOOLEAN :
       Acquire(id, k, e, high)
  \/ \E e \in Sizes : AcquireWriteFails(e)
  \/ \E k \in Kinds, e \in Sizes : PoolAcquirePanics(k, e)
  \/ \E id \in MatrixIds : CloneHandle(id) \/ DropHandle(id) \/ DropPoisoned(id)
  \/ \E id \in MatrixIds : PoolRelease(id) \/ PoolReuse(id)
  \/ \E id \in MatrixIds, k \in Pools : MoveBegin(id, k)
  \/ \E k \in Gpus \cup {HostRam}, e \in Sizes :
       \/ \E r \in RawIds : AcquireTemp(k, e, r)
       \/ AcquireTempPanics(k, e)
  \/ \E r \in RawIds : ReleaseTemp(r)

Next == MigrationStep \/ ClientStep

Spec == Init /\ [][Next]_vars

\* The thread that holds the lock runs on.
FairSpec == Spec /\ WF_vars(MigrationStep)

-----------------------------------------------------------------------------
(* Properties *)

EntryRecord == [kind : Pools, size : Sizes, ref : Nat, pooled : BOOLEAN,
                high : BOOLEAN, raw : RawIds \cup {NoRaw}]
RawRecord   == [kind : Pools \cap (Gpus \cup {HostRam}), size : Sizes]
MoveRecord  == [phase : {"read", "store", "upload", "commit"}, id : MatrixIds,
                dest : Pools, from : EntryRecord, raw : RawIds \cup {NoRaw}]
JobRecord   == [phase : {"evict", "move"}, id : MatrixIds, target : Pools,
                size : Sizes, victims : SUBSET MatrixIds, freed : Nat]

\* Type invariant of the executor's registries, counters and queues.
TypeOK ==
  /\ used \in [Pools -> Nat]
  /\ DOMAIN entry \subseteq MatrixIds /\ entry \in [DOMAIN entry -> EntryRecord]
  /\ lru \in Seq(MatrixIds)
  /\ handles \in [MatrixIds -> Nat]
  /\ DOMAIN raws \subseteq RawIds
  /\ raws \in [DOMAIN raws -> RawRecord]
  /\ idle \in [Gpus \cup {HostRam} -> Seq(RawIds)]
  /\ lent \subseteq RawIds
  /\ ssdUsed \in Int
  /\ job = NoJob \/ job \in JobRecord
  /\ moving = NoMove \/ moving \in MoveRecord
  /\ DOMAIN lost \subseteq MatrixIds /\ lost \in [DOMAIN lost -> MoveRecord]
  /\ panic \in [by : {"none", "acquire_kind", "acquire_temp_buffer", "staging",
                      "copy_buffer_sync"},
                raw : RawIds \cup {NoRaw}]

\* Everything whose storage is charged: registered entries, the one that is
\* being moved, and those a failed move dropped.
InFlight == IF moving = NoMove THEN {} ELSE {moving.id}
Charged  == DOMAIN entry \cup InFlight \cup DOMAIN lost
Storage(id) ==
  IF id \in DOMAIN entry THEN entry[id]
  ELSE IF id \in InFlight THEN moving.from ELSE lost[id].from

\* Cells(k) has one member for every element of pool k that something owns:
\* an entry in RAM or on the SSD, or a registered raw buffer.
Owners(k) ==
  {<<"matrix", id>> : id \in {i \in Charged : Storage(i).kind = k /\ k \notin Gpus}}
  \cup {<<"raw", r>> : r \in {q \in DOMAIN raws : raws[q].kind = k}}
OwnedSize(o) == IF o[1] = "raw" THEN raws[o[2]].size ELSE Storage(o[2]).size
Cells(k) == UNION {{o} \X (1 .. OwnedSize(o)) : o \in Owners(k)}

\* A pool's counter is exactly the sum of the sizes of what lives in the pool:
\* no path of acquire, release, move, staging or cleanup charges an element
\* twice, frees one twice or (saturating_sub) frees what was never charged.
AccountingExact == \A k \in Pools : used[k] = Cardinality(Cells(k))

\* No pool is ever charged beyond its limit, although RawBufferRegistry and
\* MemoryPool::reserve add without a check of their own.
WithinCapacity == \A k \in Pools : used[k] <= Capacity[k]

\* ref_count is the number of MatrixBufferHandle values alive, and is positive:
\* no registered entry is leaked and none can be freed under a handle.  What the
\* pool of matrices hands out next is held by nobody else.
RefCountExact ==
  panic = NoPanic =>
    \A id \in DOMAIN entry :
      /\ entry[id].ref = handles[id] /\ handles[id] > 0
      /\ entry[id].pooled => handles[id] = 1

\* What a migration has taken out of the registry, and what a failed one dropped.
Aside == InFlight \cup DOMAIN lost
Taken(id) == IF id \in InFlight THEN moving ELSE lost[id]

IdlePlaces == UNION {{k} \X DOMAIN idle[k] : k \in DOMAIN idle}

\* Who has a raw buffer: the entry whose storage it is, registered or aside; the
\* migration that has just made it; a place in the idle queues; a borrower of
\* acquire_temp_buffer; the staging copy that panicked.
RawOwners(r) ==
  {<<"storage", id>> : id \in {i \in Charged : Storage(i).kind \in Gpus
                                              /\ Storage(i).raw = r}}
  \cup {<<"made", id>> : id \in {i \in Aside : Taken(i).phase \in {"upload", "commit"}
                                              /\ Taken(i).raw = r}}
  \cup {<<"idle", p>> : p \in {q \in IdlePlaces : idle[q[1]][q[2]] = r}}
  \cup {<<"lent", x>> : x \in lent \cap {r}}
  \cup {<<"panic", x>> : x \in {panic.raw} \cap {r}}

\* A registered raw buffer has exactly one owner, and what has an owner is
\* registered: two entries, or an entry and a temporary buffer, never share a
\* Vulkan buffer, and none stays registered that nobody has, except with the entry
\* that a failed migration dropped.
RawOwnedOnce ==
  \A r \in RawIds : IF r \in DOMAIN raws THEN \E o \in RawOwners(r) : RawOwners(r) = {o}
                    ELSE RawOwners(r) = {}

\* The SSD cache's byte counter never falls below what the SSD pool has
\* reserved plus what was on the disk at start-up: the pool may admit what the
\* cache refuses, never the other way round.
SsdCounterCovers ==
  SsdCache \in Pools => ssdUsed >= SsdResidue + used[SsdCache]

\* From the moment the eviction for a migration has returned Ok until the new
\* storage is made, with the lock held: the entry itself is being moved.
MovingOwnEntry ==
  job # NoJob /\ job.phase = "move" /\ moving # NoMove /\ moving.phase \in {"read", "store"}

\* When the eviction for a migration to VRAM or to the SSD returns Ok, the room
\* it needs is there and still is when the storage is made, staging included:
\* the registration of the new VRAM buffer cannot panic.
EvictionMakesRoom ==
  MovingOwnEntry /\ job.target # EvictDestination => CanAllocate(job.target, job.size)

\* An entry whose handles are alive stays registered: it is removed when the
\* count reaches zero, and only then.
LiveHandleHasEntry ==
  LockFree => \A id \in MatrixIds : handles[id] > 0 => id \in DOMAIN entry

\* The thread that migrates always gives the lock back, by an answer or a panic.
MigrationEnds == (job # NoJob) ~> (job = NoJob)

=============================================================================
