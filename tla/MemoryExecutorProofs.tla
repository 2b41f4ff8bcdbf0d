------------------------ MODULE MemoryExecutorProofs ------------------------
(***************************************************************************)
(* Theorems about MemoryExecutor, for all values of its constants.         *)
(***************************************************************************)
EXTENDS MemoryExecutor, TLAPS, FiniteSetTheorems, WellFoundedInduction

-----------------------------------------------------------------------------
(* Lemmas on the operators the executor is built from *)

\* A nonempty set of natural numbers contains its minimum.
LEMMA MinInSet ==
  ASSUME NEW S \in SUBSET Nat, S # {}
  PROVE  Min(S) \in S
<1> DEFINE R == {ss \in Nat \X Nat : ss[1] < ss[2]}
<1>1. OpToRel(<, Nat) = R
  BY Zenon DEF OpToRel
<1>2. PICK x \in S : \A y \in S : ~ (<<y, x>> \in R)
  <2>1. IsWellFoundedOn(R, Nat)
    BY <1>1, NatLessThanWellFounded
  <2> HIDE DEF R
  <2> QED
    BY <2>1, WFMin
<1>3. ASSUME NEW y \in S PROVE x =< y
  <2>1. x \in Nat /\ y \in Nat
    OBVIOUS
  <2>2. ~ (<<y, x>> \in R)
    BY <1>2
  <2>3. ~ (y < x)
    BY <2>1, <2>2
  <2> QED
    BY <2>1, <2>3
<1> QED
  BY <1>3 DEF Min

\* Removing a place of a sequence leaves a sequence over the same set.
LEMMA RemoveAtType ==
  ASSUME NEW T, NEW s \in Seq(T), NEW i \in 1 .. Len(s)
  PROVE  RemoveAt(s, i) \in Seq(T)
<1>1. SubSeq(s, 1, i - 1) \in Seq(T)
  OBVIOUS
<1>2. SubSeq(s, i + 1, Len(s)) \in Seq(T)
  OBVIOUS
<1> QED
  BY <1>1, <1>2 DEF RemoveAt

\* So does removing the first occurrence of an element (a handle leaving the
\* order of accesses).
LEMMA RemoveFirstType ==
  ASSUME NEW T, NEW s \in Seq(T), NEW e
  PROVE  RemoveFirst(s, e) \in Seq(T)
<1>1. CASE \E i \in 1 .. Len(s) : s[i] = e
  <2> DEFINE I == {i \in 1 .. Len(s) : s[i] = e}
  <2>1. I # {} /\ I \in SUBSET Nat
    BY <1>1
  <2>2. Min(I) \in 1 .. Len(s)
    BY <2>1, MinInSet
  <2>3. RemoveFirst(s, e) = RemoveAt(s, Min(I))
    BY <1>1, <2>1 DEF RemoveFirst, SelectInSeq
  <2> QED
    BY <2>2, <2>3, RemoveAtType
<1>2. CASE ~ \E i \in 1 .. Len(s) : s[i] = e
  BY <1>2 DEF RemoveFirst
<1> QED
  BY <1>1, <1>2

\* With adds x to the domain of a map and keeps its values in T.
LEMMA WithType ==
  ASSUME NEW T, NEW f, f \in [DOMAIN f -> T], NEW x, NEW v \in T
  PROVE  /\ DOMAIN With(f, x, v) = DOMAIN f \cup {x}
         /\ With(f, x, v) \in [DOMAIN With(f, x, v) -> T]
BY DEF With

\* Without takes x from the domain of a map and keeps its values in T.
LEMMA WithoutType ==
  ASSUME NEW T, NEW f, f \in [DOMAIN f -> T], NEW x
  PROVE  /\ DOMAIN Without(f, x) = DOMAIN f \ {x}
         /\ Without(f, x) \in [DOMAIN Without(f, x) -> T]
BY DEF Without, Restrict

\* saturating_sub stays natural.
LEMMA MonusType ==
  ASSUME NEW a \in Nat, NEW b \in Nat
  PROVE  Monus(a, b) \in Nat
BY DEF Monus

-----------------------------------------------------------------------------
(* Type correctness *)

\* The part of TypeOK that the raw buffers and the temporary ones live in.
RawTypes ==
  /\ used \in [Pools -> Nat]
  /\ DOMAIN raws \subseteq RawIds
  /\ raws \in [DOMAIN raws -> RawRecord]
  /\ idle \in [Gpus \cup {HostRam} -> Seq(RawIds)]

\* The elements of the idle buffers can be counted.
LEMMA IdleCellsFinite ==
  ASSUME RawTypes, NEW k
  PROVE  IsFiniteSet(IdleCells(k)) /\ Cardinality(IdleCells(k)) \in Nat
<1> DEFINE Q    == {q \in IdleRaws \cap DOMAIN raws : raws[q].kind = k}
           F(r) == {r} \X (1 .. raws[r].size)
           C    == {F(r) : r \in Q}
<1>1. IsFiniteSet(Q)
  BY SizesAssumption, FS_Subset DEF RawTypes
<1>2. IsFiniteSet(C)
  <2> DEFINE f == [r \in Q |-> F(r)]
  <2> HIDE DEF Q, F
  <2>1. f \in Surjection(Q, C)
    BY DEF Surjection
  <2> HIDE DEF f, C
  <2> QED
    BY <1>1, <2>1, FS_Surjection
<1>3. ASSUME NEW r \in Q PROVE IsFiniteSet(F(r))
  <2>1. raws[r].size \in Int
    BY SizesAssumption DEF RawTypes, RawRecord
  <2>2. IsFiniteSet({r})
    BY FS_Singleton
  <2>3. IsFiniteSet(1 .. raws[r].size)
    BY <2>1, FS_Interval
  <2> HIDE DEF Q, C
  <2> QED
    BY <2>2, <2>3, FS_Product
<1>4. IdleCells(k) = UNION C
  BY DEF IdleCells
<1>5. \A T \in C : IsFiniteSet(T)
  BY <1>3
<1>6. IsFiniteSet(IdleCells(k))
  <2> HIDE DEF C
  <2> QED
    BY <1>2, <1>4, <1>5, FS_UNION
<1> QED
  BY <1>6, FS_CardinalityType

\* What cleanup of the idle buffers leaves is well typed.
LEMMA CleanedTypes ==
  ASSUME RawTypes
  PROVE  /\ CleanedUsed \in [Pools -> Nat]
         /\ DOMAIN CleanedRaws \subseteq DOMAIN raws
         /\ CleanedRaws \in [DOMAIN CleanedRaws -> RawRecord]
         /\ CleanedIdle \in [Gpus \cup {HostRam} -> Seq(RawIds)]
<1>1. CleanedUsed \in [Pools -> Nat]
  BY IdleCellsFinite, MonusType DEF CleanedUsed, RawTypes
<1>2. CleanedIdle \in [Gpus \cup {HostRam} -> Seq(RawIds)]
  BY DEF CleanedIdle, RawTypes
<1>3. /\ DOMAIN CleanedRaws \subseteq DOMAIN raws
      /\ CleanedRaws \in [DOMAIN CleanedRaws -> RawRecord]
  BY DEF CleanedRaws, Restrict, RawTypes
<1> QED
  BY <1>1, <1>2, <1>3

\* temp_pool.acquire keeps the types, whichever way it finds a buffer.
LEMMA TempAcquireTypes ==
  ASSUME RawTypes, NEW k \in Gpus \cup {HostRam}, NEW e \in Sizes, NEW r \in RawIds,
         NEW back \in Seq(RawIds), TempAcquire(k, e, r, back)
  PROVE  RawTypes'
<1> USE SizesAssumption
<1>1. CASE TempReuse(k, e, r, back)
  <2>1. FirstFit(k, e) \in 1 .. Len(idle[k])
    <3>1. Fits(k, e) \subseteq 1 .. Len(idle[k]) /\ Fits(k, e) \in SUBSET Nat
      BY DEF Fits, RawTypes
    <3>2. Fits(k, e) # {}
      BY <1>1 DEF TempReuse
    <3> QED
      BY <3>1, <3>2, MinInSet DEF FirstFit
  <2>2. RemoveAt(idle[k], FirstFit(k, e)) \in Seq(RawIds)
    BY <2>1, RemoveAtType DEF RawTypes
  <2>3. RemoveAt(idle[k], FirstFit(k, e)) \o back \in Seq(RawIds)
    BY <2>2
  <2> QED
    BY <1>1, <2>3 DEF TempReuse, RawTypes
<1>2. CASE TempCreate(k, e, r, back)
  <2>1. k \in Pools
    BY <1>2 DEF TempCreate, CanAllocate
  <2>2. raws' = With(raws, r, RawInfo(k, e)) /\ RawInfo(k, e) \in RawRecord
    BY <1>2, <2>1 DEF TempCreate, RawInfo, RawRecord
  <2>3. /\ DOMAIN raws' \subseteq RawIds
        /\ raws' \in [DOMAIN raws' -> RawRecord]
    BY <2>2 DEF RawTypes, With
  <2>4. used' \in [Pools -> Nat]
    BY <1>2, <2>1 DEF TempCreate, Reserve, RawTypes
  <2>5. idle' \in [Gpus \cup {HostRam} -> Seq(RawIds)]
    BY <1>2 DEF TempCreate, RawTypes
  <2> QED
    BY <2>3, <2>4, <2>5 DEF RawTypes
<1>3. CASE TempCleanThenCreate(k, e, r, back)
  <2>1. k \in Pools
    BY <1>3 DEF TempCleanThenCreate
  <2>2. /\ raws' = With(CleanedRaws, r, RawInfo(k, e))
        /\ RawInfo(k, e) \in RawRecord
    BY <1>3, <2>1 DEF TempCleanThenCreate, RawInfo, RawRecord
  <2>3. /\ DOMAIN raws' \subseteq RawIds
        /\ raws' \in [DOMAIN raws' -> RawRecord]
    BY <2>2, CleanedTypes DEF RawTypes, With
  <2>4. used' \in [Pools -> Nat]
    BY <1>3, <2>1, CleanedTypes DEF TempCleanThenCreate
  <2>5. idle' \in [Gpus \cup {HostRam} -> Seq(RawIds)]
    BY <1>3, CleanedTypes DEF TempCleanThenCreate
  <2> QED
    BY <2>3, <2>4, <2>5 DEF RawTypes
<1> QED
  BY <1>1, <1>2, <1>3 DEF TempAcquire

\* A panic inside temp_pool.acquire, before or after its cleanup, keeps the types.
LEMMA TempPanicsTypes ==
  ASSUME RawTypes, NEW k, NEW e, TempPanics(k, e)
  PROVE  RawTypes'
<1>1. CASE k \in Pools /\ ~ CanAllocate(k, e)
  <2>1. used' = CleanedUsed /\ raws' = CleanedRaws /\ idle' = CleanedIdle
    BY <1>1 DEF TempPanics
  <2> QED
    BY <2>1, CleanedTypes DEF RawTypes
<1>2. CASE ~ (k \in Pools /\ ~ CanAllocate(k, e))
  BY <1>2 DEF TempPanics, RawTypes
<1> QED
  BY <1>1, <1>2

\* A staging copy that fails or panics: what it leaves of the migration, and what
\* it did to the temporary buffers.
LEMMA StagingEnds ==
  ASSUME StagingFails \/ StagingPanics
  PROVE  /\ lost' = With(lost, moving.id, moving) /\ moving' = NoMove
         /\ UNCHANGED <<entry, lru, handles, lent, ssdUsed>>
         /\ \/ Lose /\ UNCHANGED panic
            \/ \E by \in {"staging", "copy_buffer_sync"}, r \in RawIds \cup {NoRaw} :
                 LosePanicking(by, r)
         /\ \/ TempPanics(HostRam, moving.from.size)
            \/ \E r \in RawIds : \E back \in {<<>>, <<r>>} :
                 TempAcquire(HostRam, moving.from.size, r, back)
BY DEF StagingFails, StagingPanics, Staged, Lose, LosePanicking

\* Taking an entry out of the registry for a move keeps the types.
LEMMA TakeOutTypes ==
  ASSUME TypeOK, NEW id \in DOMAIN entry, NEW dest \in Pools, TakeOut(id, dest),
         job' \in JobRecord
  PROVE  TypeOK'
<1>1. /\ DOMAIN entry' \subseteq MatrixIds
      /\ entry' \in [DOMAIN entry' -> EntryRecord]
  BY DEF TypeOK, TakeOut, Without, Restrict
<1>2. lru' \in Seq(MatrixIds)
  BY RemoveFirstType DEF TypeOK, TakeOut
<1>3. moving' \in MoveRecord
  <2>1. id \in MatrixIds /\ entry[id] \in EntryRecord
    BY DEF TypeOK
  <2> QED
    BY <2>1 DEF TakeOut, MoveRecord
<1> QED
  BY <1>1, <1>2, <1>3 DEF TypeOK, TakeOut

\* An entry that a failed move drops joins the lost ones, well typed.
LEMMA LoseTypes ==
  ASSUME TypeOK, moving # NoMove
  PROVE  /\ DOMAIN With(lost, moving.id, moving) \subseteq MatrixIds
         /\ With(lost, moving.id, moving)
              \in [DOMAIN With(lost, moving.id, moving) -> MoveRecord]
<1>1. moving \in MoveRecord /\ moving.id \in MatrixIds
  BY DEF TypeOK, MoveRecord
<1> QED
  BY <1>1 DEF TypeOK, With

\* Putting the moved entry back, onto a registry that has been charged for it.
LEMMA PutBackTypes ==
  ASSUME TypeOK, moving # NoMove, job # NoJob, NEW grown \in [Pools -> Nat],
         PutBack(grown)
  PROVE  /\ used' \in [Pools -> Nat]
         /\ DOMAIN entry' \subseteq MatrixIds
         /\ entry' \in [DOMAIN entry' -> EntryRecord]
         /\ lru' \in Seq(MatrixIds)
         /\ moving' = NoMove
         /\ job' = NoJob \/ job' \in JobRecord
<1>1. /\ moving.id \in MatrixIds /\ moving.dest \in Pools
      /\ moving.from \in EntryRecord /\ moving.raw \in RawIds \cup {NoRaw}
  BY DEF TypeOK, MoveRecord
<1>2. moving.from.size \in Nat
  BY <1>1, SizesAssumption DEF EntryRecord
<1>3. used' \in [Pools -> Nat]
  BY <1>2, MonusType DEF PutBack
<1>4. [moving.from EXCEPT !.kind = moving.dest, !.raw = moving.raw] \in EntryRecord
  BY <1>1 DEF EntryRecord
<1>5. /\ DOMAIN entry' \subseteq MatrixIds
      /\ entry' \in [DOMAIN entry' -> EntryRecord]
  BY <1>1, <1>4 DEF TypeOK, PutBack, With
<1>6. lru' \in Seq(MatrixIds)
  BY <1>1 DEF TypeOK, PutBack
<1>7. moving' = NoMove /\ (job' = NoJob \/ job' \in JobRecord)
  <2>1. job \in JobRecord /\ job.freed + moving.from.size \in Nat
    BY <1>2 DEF TypeOK, JobRecord
  <2>2. [job EXCEPT !.freed = @ + moving.from.size] \in JobRecord
    BY <2>1 DEF JobRecord
  <2> QED
    BY <2>2 DEF PutBack
<1> QED
  BY <1>3, <1>5, <1>6, <1>7

\* Releasing the old storage of a moved entry keeps the raw buffers well typed.
LEMMA ReleaseOldTypes ==
  ASSUME TypeOK, moving # NoMove, NEW base \in Int, ReleaseOld(raws, base)
  PROVE  /\ DOMAIN raws' \subseteq RawIds
         /\ raws' \in [DOMAIN raws' -> RawRecord]
         /\ ssdUsed' \in Int
<1>1. moving.from.size \in Nat
  BY SizesAssumption DEF TypeOK, MoveRecord, EntryRecord
<1>2. ssdUsed' \in Int
  BY <1>1 DEF ReleaseOld
<1>3. raws' = raws \/ raws' = Without(raws, moving.from.raw)
  BY DEF ReleaseOld
<1> QED
  BY <1>2, <1>3 DEF TypeOK, Without, Restrict

\* The initial registries are well typed.
LEMMA TypeInit == Init => TypeOK
BY SizesAssumption, PoolsAssumption
   DEF Init, TypeOK, NoPanic, NoJob, NoMove

\* A change of the reference count leaves an entry record.
LEMMA SetRefType ==
  ASSUME NEW e \in EntryRecord, NEW n \in Nat
  PROVE  [e EXCEPT !.ref = n] \in EntryRecord
BY DEF EntryRecord

\* So does a change of whether the entry lies in the pool of matrices.
LEMMA SetPooledType ==
  ASSUME NEW e \in EntryRecord, NEW b \in BOOLEAN
  PROVE  [e EXCEPT !.pooled = b] \in EntryRecord
BY DEF EntryRecord

\* Every step of a client keeps the registries well typed.
LEMMA TypeClientStep == TypeOK /\ ClientStep => TypeOK'
<1> SUFFICES ASSUME TypeOK, ClientStep PROVE TypeOK'
  OBVIOUS
<1> USE SizesAssumption, PoolsAssumption
<1>1. ASSUME NEW id \in MatrixIds, NEW k \in Pools, NEW e \in Sizes,
             NEW high \in BOOLEAN, Acquire(id, k, e, high)
      PROVE  TypeOK'
  <2>1. used' = Reserve(k, e)
    BY <1>1 DEF Acquire
  <2>9. used' \in [Pools -> Nat]
    BY <2>1 DEF Reserve, TypeOK
  <2>2. PICK raw \in RawIds \cup {NoRaw} : Install(id, NewEntry(k, e, high, raw))
    BY <1>1 DEF Acquire
  <2>3. NewEntry(k, e, high, raw) \in EntryRecord
    BY DEF NewEntry, EntryRecord
  <2>4. /\ DOMAIN entry' \subseteq MatrixIds
        /\ entry' \in [DOMAIN entry' -> EntryRecord]
    BY <2>2, <2>3 DEF Install, With, TypeOK
  <2>5. lru' \in Seq(MatrixIds) /\ handles' \in [MatrixIds -> Nat]
    BY <2>2 DEF Install, TypeOK
  <2>6. \/ raws' = raws
        \/ k \in Gpus /\ \E r \in RawIds : raws' = With(raws, r, RawInfo(k, e))
    BY <1>1 DEF Acquire
  <2>7. /\ DOMAIN raws' \subseteq RawIds
        /\ raws' \in [DOMAIN raws' -> RawRecord]
    <3>2. ASSUME NEW r \in RawIds, k \in Gpus, raws' = With(raws, r, RawInfo(k, e))
          PROVE  /\ DOMAIN raws' \subseteq RawIds
                 /\ raws' \in [DOMAIN raws' -> RawRecord]
      <4>1. RawInfo(k, e) \in RawRecord
        BY <3>2 DEF RawInfo, RawRecord
      <4> QED
        BY <3>2, <4>1 DEF With, TypeOK
    <3> QED
      BY <2>6, <3>2 DEF TypeOK
  <2>8. ssdUsed' \in Int
    BY <1>1 DEF Acquire, TypeOK
  <2> QED
    BY <1>1, <2>4, <2>5, <2>7, <2>8, <2>9 DEF Acquire, TypeOK
<1>2. ASSUME NEW e \in Sizes, AcquireWriteFails(e) PROVE TypeOK'
  BY <1>2 DEF AcquireWriteFails, TypeOK
<1>3. ASSUME NEW id \in MatrixIds, CloneHandle(id) PROVE TypeOK'
  <2>1. entry' \in [DOMAIN entry' -> EntryRecord] /\ DOMAIN entry' = DOMAIN entry
    <3>1. CASE id \in DOMAIN entry
      <4>1. [entry[id] EXCEPT !.ref = @ + 1] \in EntryRecord
        <5>1. entry[id] \in EntryRecord /\ entry[id].ref + 1 \in Nat
          BY <3>1 DEF EntryRecord, TypeOK
        <5> QED
          BY <5>1, SetRefType
      <4>2. entry' = [entry EXCEPT ![id] = [entry[id] EXCEPT !.ref = @ + 1]]
        BY <1>3, <3>1 DEF CloneHandle
      <4> QED
        BY <4>1, <4>2 DEF TypeOK
    <3> QED
      BY <1>3, <3>1 DEF CloneHandle, TypeOK
  <2>2. handles' \in [MatrixIds -> Nat]
    BY <1>3 DEF CloneHandle, TypeOK
  <2> QED
    BY <1>3, <2>1, <2>2 DEF CloneHandle, TypeOK
<1>4. ASSUME NEW id \in MatrixIds, DropHandle(id) PROVE TypeOK'
  <2>1. handles' \in [MatrixIds -> Nat]
    BY <1>4 DEF DropHandle, TypeOK
  <2>2. CASE UNCHANGED <<used, entry, lru, raws, ssdUsed>>
    BY <1>4, <2>1, <2>2 DEF DropHandle, TypeOK
  <2>3. CASE /\ id \in DOMAIN entry
             /\ entry' = [entry EXCEPT ![id].ref = Monus(@, 1)]
             /\ UNCHANGED <<used, lru, raws, ssdUsed>>
    <3>1. entry[id] \in EntryRecord /\ Monus(entry[id].ref, 1) \in Nat
      BY <2>3, MonusType DEF EntryRecord, TypeOK
    <3>2. [entry[id] EXCEPT !.ref = Monus(@, 1)] \in EntryRecord
      BY <3>1, SetRefType
    <3>3. entry' \in [DOMAIN entry' -> EntryRecord] /\ DOMAIN entry' = DOMAIN entry
      BY <2>3, <3>2 DEF TypeOK
    <3> QED
      BY <1>4, <2>1, <2>3, <3>3 DEF DropHandle, TypeOK
  <2>4. CASE /\ id \in DOMAIN entry
             /\ FreeStorage(entry[id])
             /\ entry' = Without(entry, id)
             /\ lru' = RemoveFirst(lru, id)
    <3>1. entry[id] \in EntryRecord /\ entry[id].size \in Nat
      BY <2>4 DEF EntryRecord, TypeOK
    <3>2. used' \in [Pools -> Nat]
      BY <2>4, <3>1, MonusType DEF FreeStorage, Deallocate, TypeOK
    <3>3. raws' = raws \/ raws' = Without(raws, entry[id].raw)
      BY <2>4 DEF FreeStorage
    <3>4. /\ DOMAIN raws' \subseteq RawIds
          /\ raws' \in [DOMAIN raws' -> RawRecord]
      BY <3>3 DEF Without, Restrict, TypeOK
    <3>5. ssdUsed' \in Int
      BY <2>4, <3>1 DEF FreeStorage, TypeOK
    <3>6. /\ DOMAIN entry' \subseteq MatrixIds
          /\ entry' \in [DOMAIN entry' -> EntryRecord]
      BY <2>4 DEF Without, Restrict, TypeOK
    <3>7. lru' \in Seq(MatrixIds)
      BY <2>4, RemoveFirstType DEF TypeOK
    <3> QED
      BY <1>4, <2>1, <3>2, <3>4, <3>5, <3>6, <3>7 DEF DropHandle, TypeOK
  <2> QED
    BY <1>4, <2>2, <2>3, <2>4 DEF DropHandle
<1>5. ASSUME NEW id \in MatrixIds, DropPoisoned(id) PROVE TypeOK'
  BY <1>5 DEF DropPoisoned, TypeOK
<1>6. ASSUME NEW id \in MatrixIds, NEW k \in Pools, MoveBegin(id, k) PROVE TypeOK'
  <2>1. entry[id].size \in Sizes
    BY <1>6 DEF MoveBegin, EntryRecord, TypeOK
  <2>2. job' \in JobRecord
    BY <1>6, <2>1 DEF MoveBegin, JobRecord, Candidates, TypeOK
  <2>3. CASE TakeOut(id, k)
    BY <1>6, <2>2, <2>3, TakeOutTypes DEF MoveBegin
  <2>4. CASE ~ TakeOut(id, k)
    BY <1>6, <2>2, <2>4 DEF MoveBegin, TypeOK
  <2> QED
    BY <2>3, <2>4
<1>7. ASSUME NEW k \in Gpus \cup {HostRam}, NEW e \in Sizes, NEW r \in RawIds,
             AcquireTemp(k, e, r)
      PROVE  TypeOK'
  <2>1. RawTypes'
    <3>1. RawTypes
      BY DEF RawTypes, TypeOK
    <3>2. <<>> \in Seq(RawIds) /\ TempAcquire(k, e, r, <<>>)
      BY <1>7 DEF AcquireTemp
    <3> QED
      BY <3>1, <3>2, TempAcquireTypes
  <2> QED
    BY <1>7, <2>1 DEF AcquireTemp, RawTypes, TypeOK
<1>8. ASSUME NEW k, NEW e \in Sizes, AcquireTempPanics(k, e) \/ PoolAcquirePanics(k, e)
      PROVE  TypeOK'
  <2>1. e \in Nat
    BY SizesAssumption
  <2>2. ssdUsed' \in Int
    BY <1>8, <2>1 DEF AcquireTempPanics, PoolAcquirePanics, TypeOK
  <2> QED
    BY <1>8, <2>2 DEF AcquireTempPanics, PoolAcquirePanics, TypeOK
<1>9. ASSUME NEW r \in RawIds, ReleaseTemp(r) PROVE TypeOK'
  <2>1. idle' \in [Gpus \cup {HostRam} -> Seq(RawIds)]
    <3>1. \A k \in Gpus \cup {HostRam} : Append(idle[k], r) \in Seq(RawIds)
      BY DEF TypeOK
    <3> QED
      BY <1>9, <3>1 DEF ReleaseTemp, TypeOK
  <2> QED
    BY <1>9, <2>1 DEF ReleaseTemp, TypeOK
<1>10. ASSUME NEW id \in MatrixIds, PoolRelease(id) PROVE TypeOK'
  <2>1. /\ entry[id] \in EntryRecord
        /\ entry' = [entry EXCEPT ![id] = [entry[id] EXCEPT !.pooled = TRUE]]
    BY <1>10 DEF PoolRelease, TypeOK
  <2>2. [entry[id] EXCEPT !.pooled = TRUE] \in EntryRecord
    BY <2>1, SetPooledType
  <2>3. lru' \in Seq(MatrixIds)
    <3>1. RemoveFirst(lru, id) \in Seq(MatrixIds)
      BY RemoveFirstType DEF TypeOK
    <3> QED
      BY <1>10, <3>1 DEF PoolRelease
  <2>4. DOMAIN entry' \subseteq MatrixIds /\ entry' \in [DOMAIN entry' -> EntryRecord]
    BY <2>1, <2>2 DEF TypeOK
  <2> QED
    BY <1>10, <2>3, <2>4 DEF PoolRelease, TypeOK
<1>11. ASSUME NEW id \in MatrixIds, PoolReuse(id) PROVE TypeOK'
  <2>1. /\ entry[id] \in EntryRecord
        /\ entry' = [entry EXCEPT ![id] = [entry[id] EXCEPT !.pooled = FALSE]]
    BY <1>11 DEF PoolReuse, Pooled, TypeOK
  <2>2. [entry[id] EXCEPT !.pooled = FALSE] \in EntryRecord
    BY <2>1, SetPooledType
  <2>3. DOMAIN entry' \subseteq MatrixIds /\ entry' \in [DOMAIN entry' -> EntryRecord]
    BY <2>1, <2>2 DEF TypeOK
  <2> QED
    BY <1>11, <2>3 DEF PoolReuse, TypeOK
<1> QED
  BY <1>1, <1>2, <1>3, <1>4, <1>5, <1>6, <1>7, <1>8, <1>9, <1>10, <1>11 DEF ClientStep

\* So does every step of a migration, whether it goes on, fails or panics.
LEMMA TypeMigrationStep == TypeOK /\ job # NoJob /\ MigrationStep => TypeOK'
<1> SUFFICES ASSUME TypeOK, job # NoJob, MigrationStep PROVE TypeOK'
  OBVIOUS
<1> USE SizesAssumption, PoolsAssumption
<1>a. job \in JobRecord /\ RawTypes
  BY DEF TypeOK, RawTypes
<1>b. ASSUME moving # NoMove
      PROVE  /\ moving \in MoveRecord /\ moving.from \in EntryRecord
             /\ moving.dest \in Pools /\ moving.from.size \in Sizes
             /\ moving.from.size \in Nat
  BY <1>b DEF TypeOK, MoveRecord, EntryRecord
<1>c. ASSUME moving # NoMove, NEW ph \in {"read", "store", "upload", "commit"}
      PROVE  [moving EXCEPT !.phase = ph] \in MoveRecord
  BY <1>b, <1>c DEF MoveRecord
<1>d. ASSUME moving # NoMove, StagingFails \/ StagingPanics
      PROVE  TypeOK'
  <2>1. RawTypes'
    <3>1. CASE TempPanics(HostRam, moving.from.size)
      BY <1>a, <3>1, TempPanicsTypes
    <3>2. ASSUME NEW r \in RawIds, NEW back \in {<<>>, <<r>>},
                 TempAcquire(HostRam, moving.from.size, r, back)
          PROVE  RawTypes'
      <4>1. moving.from.size \in Sizes /\ HostRam \in Gpus \cup {HostRam}
        BY <1>b, <1>d
      <4>2. <<>> \in Seq(RawIds) /\ <<r>> \in Seq(RawIds)
        OBVIOUS
      <4> QED
        BY <1>a, <3>2, <4>1, <4>2, TempAcquireTypes
    <3> QED
      BY <1>d, <3>1, <3>2, StagingEnds
  <2>2. /\ lost' = With(lost, moving.id, moving) /\ moving' = NoMove
        /\ UNCHANGED <<entry, lru, handles, lent, ssdUsed>>
    BY <1>d, StagingEnds
  <2>3. job' = NoJob \/ job' = job
    BY <1>d, StagingEnds DEF Lose, LosePanicking
  <2>4. /\ panic'.by \in {"none", "acquire_kind", "acquire_temp_buffer", "staging",
                          "copy_buffer_sync"}
        /\ panic' \in [by : {"none", "acquire_kind", "acquire_temp_buffer", "staging",
                            "copy_buffer_sync"}, raw : RawIds \cup {NoRaw}]
    BY <1>d, StagingEnds DEF LosePanicking, TypeOK
  <2> QED
    BY <1>d, <2>1, <2>2, <2>3, <2>4, LoseTypes DEF RawTypes, TypeOK
<1>e. ASSUME moving # NoMove, Lose, ssdUsed' \in Int,
             UNCHANGED <<used, entry, lru, handles, raws, idle, lent, panic>>
      PROVE  TypeOK'
  BY <1>e, LoseTypes DEF Lose, TypeOK
<1>f. ASSUME moving # NoMove, NEW r \in RawIds,
             TempAcquire(HostRam, moving.from.size, r, <<r>>)
      PROVE  RawTypes'
  <2>1. <<r>> \in Seq(RawIds) /\ moving.from.size \in Sizes
    BY <1>b, <1>f
  <2> QED
    BY <1>a, <1>f, <2>1, TempAcquireTypes
<1>g. ASSUME moving # NoMove, NEW grown \in [Pools -> Nat], NEW base \in Int,
             PutBack(grown), ReleaseOld(raws, base),
             UNCHANGED <<handles, idle, lent, lost, panic>>
      PROVE  TypeOK'
  <2>1. /\ DOMAIN raws' \subseteq RawIds
        /\ raws' \in [DOMAIN raws' -> RawRecord]
        /\ ssdUsed' \in Int
    BY <1>g, ReleaseOldTypes
  <2>2. /\ used' \in [Pools -> Nat]
        /\ DOMAIN entry' \subseteq MatrixIds
        /\ entry' \in [DOMAIN entry' -> EntryRecord]
        /\ lru' \in Seq(MatrixIds)
        /\ moving' = NoMove
        /\ job' = NoJob \/ job' \in JobRecord
    BY <1>g, PutBackTypes
  <2> QED
    BY <1>g, <2>1, <2>2 DEF TypeOK
<1>1. CASE PassVictim
  <2>1. PICK v \in job.victims : /\ Evicting(v)
          /\ job' = [job EXCEPT !.victims = @ \ {v},
                                !.freed = IF /\ entry[v].kind = EvictDestination
                                             /\ ~ Skipped(v, job.freed, job.size)
                                          THEN @ + entry[v].size ELSE @]
    BY <1>1 DEF PassVictim
  <2> DEFINE n == IF /\ entry[v].kind = EvictDestination
                     /\ ~ Skipped(v, job.freed, job.size)
                  THEN job.freed + entry[v].size ELSE job.freed
  <2>2. n \in Nat
    BY <1>a, <2>1 DEF Evicting, EntryRecord, JobRecord, TypeOK
  <2>3. job' = [job EXCEPT !.victims = @ \ {v}, !.freed = n]
    BY <2>1
  <2>4. job' \in JobRecord
    <3> HIDE DEF n
    <3> QED
      BY <1>a, <2>2, <2>3 DEF JobRecord
  <2> QED
    BY <1>1, <2>4 DEF PassVictim, TypeOK
<1>2. CASE EvictVictim
  <2>1. PICK v \in job.victims :
               /\ Evicting(v)
               /\ EvictDestination \in Pools
               /\ job' = [job EXCEPT !.victims = @ \ {v}]
               /\ TakeOut(v, EvictDestination)
    BY <1>2 DEF EvictVictim
  <2>2. job' \in JobRecord
    BY <1>a, <2>1 DEF JobRecord
  <2> QED
    BY <2>1, <2>2, TakeOutTypes DEF Evicting
<1>3. CASE EvictSucceeds
  <2>1. job' \in JobRecord /\ job.target \in Pools
    BY <1>3, <1>a DEF EvictSucceeds, JobRecord
  <2> QED
    BY <1>3, <2>1, TakeOutTypes DEF EvictSucceeds
<1>4. CASE EvictFails
  BY <1>4 DEF EvictFails, TypeOK
<1>5. CASE ReadStorage
  <2>1. RawTypes'
    BY <1>5, <1>a, <1>f DEF ReadStorage, Staged, RawTypes
  <2>2. moving' \in MoveRecord
    BY <1>5, <1>c DEF ReadStorage
  <2> QED
    BY <1>5, <2>1, <2>2 DEF ReadStorage, RawTypes, TypeOK
<1>6. CASE ReadGpuFails
  BY <1>6, <1>d DEF ReadGpuFails
<1>7. CASE ReadSsdFails
  BY <1>7, <1>e DEF ReadSsdFails, TypeOK
<1>8. CASE StoreHost
  <2>1. Reserve(HostRam, moving.from.size) \in [Pools -> Nat] /\ ssdUsed \in Int
    BY <1>8, <1>b DEF StoreHost, Reserve, TypeOK
  <2> QED
    BY <1>8, <2>1, <1>g DEF StoreHost
<1>9. CASE StoreHostFails
  BY <1>9, <1>e DEF StoreHostFails, TypeOK
<1>10. CASE StoreSsd
  <2>1. /\ Reserve(SsdCache, moving.from.size) \in [Pools -> Nat]
        /\ ssdUsed + moving.from.size \in Int
    BY <1>10, <1>b DEF StoreSsd, Reserve, TypeOK
  <2> QED
    BY <1>10, <2>1, <1>g DEF StoreSsd
<1>11. CASE StoreSsdFails \/ StoreGpuFails
  <2>1. ssdUsed' \in Int
    BY <1>11, <1>b DEF StoreSsdFails, StoreGpuFails, TypeOK
  <2> QED
    BY <1>11, <2>1, <1>e DEF StoreSsdFails, StoreGpuFails
<1>12. CASE StoreGpu
  <2>1. PICK r \in RawIds :
               /\ raws' = With(raws, r, RawInfo(moving.dest, moving.from.size))
               /\ moving' = [moving EXCEPT !.phase = "upload", !.raw = r]
    BY <1>12 DEF StoreGpu
  <2>2. moving' \in MoveRecord
    BY <1>12, <1>b, <2>1 DEF StoreGpu, MoveRecord
  <2>3. RawInfo(moving.dest, moving.from.size) \in RawRecord
    BY <1>12, <1>b DEF StoreGpu, RawInfo, RawRecord
  <2>4. /\ DOMAIN raws' \subseteq RawIds
        /\ raws' \in [DOMAIN raws' -> RawRecord]
    BY <2>1, <2>3 DEF With, TypeOK
  <2>5. used' \in [Pools -> Nat]
    BY <1>12, <1>b DEF StoreGpu, Reserve, TypeOK
  <2> QED
    BY <1>12, <2>2, <2>4, <2>5 DEF StoreGpu, TypeOK
<1>13. CASE Upload
  <2>1. RawTypes' /\ moving' \in MoveRecord
    BY <1>13, <1>c, <1>f DEF Upload, Staged
  <2> QED
    BY <1>13, <2>1 DEF Upload, RawTypes, TypeOK
<1>14. CASE UploadFails
  BY <1>14, <1>d DEF UploadFails
<1>15. CASE Commit
  <2>1. used \in [Pools -> Nat] /\ ssdUsed \in Int
    BY DEF TypeOK
  <2> QED
    BY <1>15, <2>1, <1>g DEF Commit
<1> QED
  BY <1>1, <1>2, <1>3, <1>4, <1>5, <1>6, <1>7, <1>8, <1>9, <1>10, <1>11, <1>12,
     <1>13, <1>14, <1>15 DEF MigrationStep

-----------------------------------------------------------------------------
(* The reference counts *)

\* A migration holds the lock; a panic lets go of it and of what it moved.
LockInv ==
  /\ moving # NoMove => job # NoJob
  /\ panic # NoPanic => job = NoJob

Counted(id, e) ==
  e.ref = handles[id] /\ handles[id] > 0 /\ (e.pooled => handles[id] = 1)

\* RefCountExact, extended to the entry a migration has in its hands: that entry
\* is in no registry, and comes back with the count it left with.
CountInv ==
  panic = NoPanic =>
    /\ \A id \in DOMAIN entry : Counted(id, entry[id])
    /\ moving # NoMove => Counted(moving.id, moving.from)

ExecutorInv == TypeOK /\ LockInv /\ CountInv

\* The inductive invariant holds of a new executor.
LEMMA ExecutorInit == Init => ExecutorInv
BY TypeInit DEF Init, ExecutorInv, LockInv, CountInv

\* Every step of a client preserves the state of the lock and the exact counts.
LEMMA CountClientStep == ExecutorInv /\ ClientStep => LockInv' /\ CountInv'
<1> SUFFICES ASSUME ExecutorInv, ClientStep PROVE LockInv' /\ CountInv'
  OBVIOUS
<1> USE DEF ExecutorInv, LockInv, CountInv, Counted
<1>1. ASSUME NEW id \in MatrixIds, NEW k \in Pools, NEW e \in Sizes,
             NEW high \in BOOLEAN, Acquire(id, k, e, high)
      PROVE  LockInv' /\ CountInv'
  <2>1. LockFree /\ UNCHANGED <<job, moving, panic>>
    BY <1>1 DEF Acquire
  <2>2. PICK raw : Install(id, NewEntry(k, e, high, raw))
    BY <1>1 DEF Acquire
  <2>3. id \notin DOMAIN entry
    BY <1>1 DEF Acquire, FreshMatrixIds
  <2>4. handles \in [MatrixIds -> Nat] /\ DOMAIN entry \subseteq MatrixIds
    BY DEF TypeOK
  <2>5. \A i \in DOMAIN entry' : Counted(i, entry[i])'
    BY <2>1, <2>2, <2>3, <2>4 DEF Install, With, NewEntry, LockFree
  <2> QED
    BY <2>1, <2>5 DEF LockFree
<1>2. ASSUME NEW e \in Sizes, AcquireWriteFails(e) PROVE LockInv' /\ CountInv'
  BY <1>2 DEF AcquireWriteFails
<1>3. ASSUME NEW id \in MatrixIds, CloneHandle(id) PROVE LockInv' /\ CountInv'
  <2>1. LockFree /\ UNCHANGED <<job, moving, panic>>
    BY <1>3 DEF CloneHandle
  <2>2. handles \in [MatrixIds -> Nat] /\ DOMAIN entry \subseteq MatrixIds
    BY DEF TypeOK
  <2>3. \A i \in DOMAIN entry : entry[i] \in EntryRecord
    BY DEF TypeOK
  <2>4. \A i \in DOMAIN entry' : Counted(i, entry[i])'
    BY <1>3, <2>1, <2>2, <2>3 DEF CloneHandle, Pooled, LockFree, EntryRecord
  <2> QED
    BY <2>1, <2>4 DEF LockFree
<1>4. ASSUME NEW id \in MatrixIds, DropHandle(id) PROVE LockInv' /\ CountInv'
  <2>1. LockFree /\ UNCHANGED <<job, moving, panic>>
    BY <1>4 DEF DropHandle
  <2>2. handles \in [MatrixIds -> Nat] /\ DOMAIN entry \subseteq MatrixIds
    BY DEF TypeOK
  <2>3. \A i \in DOMAIN entry : entry[i] \in EntryRecord
    BY DEF TypeOK
  <2>4. ASSUME NEW i \in DOMAIN entry' PROVE Counted(i, entry[i])'
    <3>1. CASE id \notin DOMAIN entry
      BY <1>4, <2>1, <2>2, <3>1 DEF DropHandle, LockFree
    <3>2. CASE id \in DOMAIN entry /\ entry' = Without(entry, id)
      BY <1>4, <2>1, <2>2, <3>2 DEF DropHandle, LockFree, Without, Restrict
    <3>3. CASE /\ id \in DOMAIN entry /\ Monus(entry[id].ref, 1) > 0
               /\ entry' = [entry EXCEPT ![id].ref = Monus(@, 1)]
      <4>1. DOMAIN entry' = DOMAIN entry /\ entry[id] \in EntryRecord
        BY <2>3, <3>3
      <4>2. entry[id].ref = handles[id] /\ handles[id] \in Nat
        BY <2>1, <2>2, <3>3 DEF LockFree
      <4>3. Monus(entry[id].ref, 1) = handles[id] - 1 /\ handles[id] - 1 > 0
        BY <3>3, <4>2 DEF Monus
      <4>4. handles' = [handles EXCEPT ![id] = @ - 1] /\ ~ entry[id].pooled
        BY <1>4, <3>3 DEF DropHandle, Pooled
      <4>5. CASE i = id
        <5>1. entry'[i] = [entry[id] EXCEPT !.ref = handles[id] - 1]
          BY <3>3, <4>3, <4>5
        <5>2. entry'[i].ref = handles[id] - 1 /\ entry'[i].pooled = entry[id].pooled
          BY <4>1, <5>1 DEF EntryRecord
        <5> QED
          BY <2>2, <4>3, <4>4, <4>5, <5>2, <3>3
      <4>6. CASE i # id
        BY <2>1, <2>2, <3>3, <4>1, <4>4, <4>6 DEF LockFree
      <4> QED
        BY <4>5, <4>6
    <3> QED
      BY <1>4, <3>1, <3>2, <3>3 DEF DropHandle
  <2> QED
    BY <2>1, <2>4 DEF LockFree
<1>5. ASSUME NEW id \in MatrixIds, DropPoisoned(id) PROVE LockInv' /\ CountInv'
  BY <1>5 DEF DropPoisoned
<1>6. ASSUME NEW id \in MatrixIds, NEW k \in Pools, MoveBegin(id, k)
      PROVE  LockInv' /\ CountInv'
  <2>1. LockFree /\ job' # NoJob /\ UNCHANGED <<handles, panic>>
    BY <1>6 DEF MoveBegin, TakeOut, NoJob
  <2>2. CASE TakeOut(id, k)
    BY <1>6, <2>1, <2>2 DEF MoveBegin, TakeOut, Without, Restrict, LockFree
  <2>3. CASE ~ TakeOut(id, k)
    BY <1>6, <2>1, <2>3 DEF MoveBegin, LockFree
  <2> QED
    BY <2>2, <2>3
<1>7. ASSUME NEW k \in Gpus \cup {HostRam}, NEW e \in Sizes, NEW r \in RawIds,
             AcquireTemp(k, e, r)
      PROVE  LockInv' /\ CountInv'
  BY <1>7 DEF AcquireTemp
<1>8. ASSUME NEW k, NEW e, AcquireTempPanics(k, e) \/ PoolAcquirePanics(k, e)
      PROVE  LockInv' /\ CountInv'
  BY <1>8 DEF AcquireTempPanics, PoolAcquirePanics, LockFree, NoPanic
<1>9. ASSUME NEW r \in RawIds, ReleaseTemp(r) PROVE LockInv' /\ CountInv'
  BY <1>9 DEF ReleaseTemp
<1>10. ASSUME NEW id \in MatrixIds, PoolRelease(id) PROVE LockInv' /\ CountInv'
  <2>1. \A i \in DOMAIN entry : entry[i] \in EntryRecord
    BY DEF TypeOK
  <2>2. LockFree /\ UNCHANGED <<job, moving, panic, handles>>
    BY <1>10 DEF PoolRelease
  <2>3. handles[id] = 1
    BY <1>10, <2>1, <2>2 DEF PoolRelease, EntryRecord, LockFree
  <2>4. \A i \in DOMAIN entry' : Counted(i, entry[i])'
    BY <1>10, <2>1, <2>2, <2>3 DEF PoolRelease, EntryRecord, LockFree
  <2> QED
    BY <2>2, <2>4 DEF LockFree
<1>11. ASSUME NEW id \in MatrixIds, PoolReuse(id) PROVE LockInv' /\ CountInv'
  <2>1. \A i \in DOMAIN entry : entry[i] \in EntryRecord
    BY DEF TypeOK
  <2>2. LockFree /\ UNCHANGED <<job, moving, panic, handles>>
    BY <1>11 DEF PoolReuse
  <2>3. \A i \in DOMAIN entry' : Counted(i, entry[i])'
    BY <1>11, <2>1, <2>2 DEF PoolReuse, EntryRecord, LockFree
  <2> QED
    BY <2>2, <2>3 DEF LockFree
<1> QED
  BY <1>1, <1>2, <1>3, <1>4, <1>5, <1>6, <1>7, <1>8, <1>9, <1>10, <1>11 DEF ClientStep

\* Only the migration that holds the lock takes the steps of a migration.
LEMMA MigrationHoldsLock ==
  ASSUME LockInv, MigrationStep
  PROVE  job # NoJob /\ panic = NoPanic
<1>1. CASE PassVictim \/ EvictVictim \/ EvictSucceeds \/ EvictFails
  <2>1. job.phase = "evict"
    BY <1>1 DEF PassVictim, EvictVictim, EvictSucceeds, EvictFails
  <2>2. job # NoJob
    BY <2>1 DEF NoJob
  <2> QED
    BY <2>2 DEF LockInv
<1>2. CASE ~ (PassVictim \/ EvictVictim \/ EvictSucceeds \/ EvictFails)
  <2>1. moving # NoMove
    BY <1>2 DEF MigrationStep, ReadStorage, ReadGpuFails, ReadSsdFails, StoreHost,
       StoreHostFails, StoreSsd, StoreSsdFails, StoreGpu, StoreGpuFails, Upload,
       UploadFails, Commit
  <2> QED
    BY <2>1 DEF LockInv
<1> QED
  BY <1>1, <1>2

\* So does every step of a migration, which holds the entry it moves aside.
LEMMA CountMigrationStep == ExecutorInv /\ MigrationStep => LockInv' /\ CountInv'
<1> SUFFICES ASSUME ExecutorInv, MigrationStep PROVE LockInv' /\ CountInv'
  OBVIOUS
<1> USE DEF ExecutorInv, LockInv, CountInv, Counted
<1>a. job # NoJob /\ panic = NoPanic
  BY MigrationHoldsLock
<1>b. ASSUME NEW id \in DOMAIN entry, NEW dest, TakeOut(id, dest), job' # NoJob
      PROVE  LockInv' /\ CountInv'
  BY <1>a, <1>b DEF TakeOut, Without, Restrict
<1>c. ASSUME NEW by, NEW r, LosePanicking(by, r), by # "none"
      PROVE  LockInv' /\ CountInv'
  <2>1. panic' # NoPanic
    <3>1. panic'.by = by /\ NoPanic.by = "none"
      BY <1>c DEF LosePanicking, NoPanic
    <3> QED
      BY <1>c, <3>1
  <2> QED
    BY <1>c, <2>1 DEF LosePanicking
<1>d. ASSUME Lose, UNCHANGED <<entry, handles, panic>> PROVE LockInv' /\ CountInv'
  BY <1>a, <1>d DEF Lose
<1>h. ASSUME StagingFails \/ StagingPanics PROVE LockInv' /\ CountInv'
  BY <1>c, <1>d, <1>h, StagingEnds
<1>e. ASSUME moving # NoMove, NEW grown, PutBack(grown), UNCHANGED <<handles, panic>>
      PROVE  LockInv' /\ CountInv'
  <2>1. moving.from \in EntryRecord
    BY <1>e DEF TypeOK, MoveRecord
  <2>2. \A i \in DOMAIN entry' : Counted(i, entry[i])'
    <3> DEFINE back == [moving.from EXCEPT !.kind = moving.dest, !.raw = moving.raw]
    <3>1. back.ref = moving.from.ref /\ back.pooled = moving.from.pooled
      BY <2>1 DEF EntryRecord
    <3> HIDE DEF back
    <3>2. entry' = With(entry, moving.id, back)
      BY <1>e DEF PutBack, back
    <3> QED
      BY <1>a, <1>e, <3>1, <3>2 DEF With
  <2> QED
    BY <1>a, <1>e, <2>2 DEF PutBack
<1>f. ASSUME moving # NoMove, UNCHANGED <<entry, handles, panic, job>>,
             moving'.id = moving.id /\ moving'.from = moving.from
      PROVE  LockInv' /\ CountInv'
  BY <1>a, <1>f
<1>g. moving # NoMove => moving \in MoveRecord
  BY DEF TypeOK
<1>1. CASE PassVictim
  <2>1. job'.phase = "evict"
    BY <1>1, <1>a DEF PassVictim, TypeOK, JobRecord
  <2>2. job' # NoJob
    BY <2>1 DEF NoJob
  <2> QED
    BY <1>1, <1>a, <2>2 DEF PassVictim
<1>2. CASE EvictVictim
  <2>1. job'.phase = "evict"
    BY <1>2, <1>a DEF EvictVictim, TypeOK, JobRecord
  <2> QED
    BY <1>2, <1>b, <2>1 DEF EvictVictim, Evicting, NoJob
<1>3. CASE EvictSucceeds
  <2>1. job'.phase = "move"
    BY <1>3, <1>a DEF EvictSucceeds, TypeOK, JobRecord
  <2> QED
    BY <1>3, <1>b, <2>1 DEF EvictSucceeds, NoJob
<1>4. CASE EvictFails
  BY <1>4, <1>a DEF EvictFails
<1>5. CASE ReadStorage
  BY <1>5, <1>f, <1>g DEF ReadStorage, MoveRecord
<1>6. CASE ReadGpuFails
  BY <1>6, <1>h DEF ReadGpuFails
<1>7. CASE ReadSsdFails
  BY <1>7, <1>d DEF ReadSsdFails
<1>8. CASE StoreHost
  BY <1>8, <1>e DEF StoreHost
<1>9. CASE StoreHostFails
  BY <1>9, <1>d DEF StoreHostFails
<1>10. CASE StoreSsd
  BY <1>10, <1>e DEF StoreSsd
<1>11. CASE StoreSsdFails \/ StoreGpuFails
  BY <1>11, <1>d DEF StoreSsdFails, StoreGpuFails
<1>12. CASE StoreGpu
  BY <1>12, <1>f, <1>g DEF StoreGpu, MoveRecord
<1>13. CASE Upload
  BY <1>13, <1>f, <1>g DEF Upload, MoveRecord
<1>14. CASE UploadFails
  BY <1>14, <1>h DEF UploadFails
<1>15. CASE Commit
  BY <1>15, <1>e DEF Commit
<1> QED
  BY <1>1, <1>2, <1>3, <1>4, <1>5, <1>6, <1>7, <1>8, <1>9, <1>10, <1>11, <1>12,
     <1>13, <1>14, <1>15 DEF MigrationStep

\* The invariant is inductive: together with ExecutorInit it holds always.
LEMMA ExecutorStep == ExecutorInv /\ [Next]_vars => ExecutorInv'
<1> SUFFICES ASSUME ExecutorInv, [Next]_vars PROVE ExecutorInv'
  OBVIOUS
<1>1. CASE ClientStep
  BY <1>1, TypeClientStep, CountClientStep DEF ExecutorInv
<1>2. CASE MigrationStep
  <2>1. job # NoJob
    BY <1>2, MigrationHoldsLock DEF ExecutorInv
  <2> QED
    BY <1>2, <2>1, TypeMigrationStep, CountMigrationStep DEF ExecutorInv
<1>3. CASE UNCHANGED vars
  BY <1>3 DEF vars, ExecutorInv, TypeOK, LockInv, CountInv, Counted
<1> QED
  BY <1>1, <1>2, <1>3 DEF Next

\* The registries, the counters and the queues of the executor keep their types
\* whatever its clients and its migrations do.
THEOREM TypeCorrect == Spec => []TypeOK
<1>1. ExecutorInv => TypeOK
  BY DEF ExecutorInv
<1> QED
  BY ExecutorInit, ExecutorStep, <1>1, PTL DEF Spec

\* As long as nothing has panicked under the lock, the reference count of every
\* registered entry is the number of its handles alive, through clones, drops,
\* the pool of matrices, migrations and evictions.
THEOREM RefCountCorrect == Spec => []RefCountExact
<1>1. ExecutorInv => RefCountExact
  BY DEF ExecutorInv, CountInv, Counted, RefCountExact
<1> QED
  BY ExecutorInit, ExecutorStep, <1>1, PTL DEF Spec

-----------------------------------------------------------------------------
(* The limits of the pools *)

\* A reservation that can_allocate admitted does not pass a limit.
LEMMA ReserveWithin ==
  ASSUME TypeOK, WithinCapacity, NEW k, NEW e \in Nat, CanAllocate(k, e)
  PROVE  \A p \in Pools : Reserve(k, e)[p] <= Capacity[p]
BY DEF TypeOK, WithinCapacity, CanAllocate, Reserve

\* saturating_sub does not grow.
LEMMA MonusBound ==
  ASSUME NEW a \in Nat, NEW b \in Nat
  PROVE  Monus(a, b) <= a
BY DEF Monus

\* Cleanup of the idle buffers does not pass a limit.
LEMMA CleanedWithin ==
  ASSUME TypeOK, WithinCapacity
  PROVE  \A p \in Pools : CleanedUsed[p] <= Capacity[p]
<1>1. ASSUME NEW p \in Pools PROVE CleanedUsed[p] <= Capacity[p]
  <2>1. RawTypes
    BY DEF RawTypes, TypeOK
  <2>2. used[p] \in Nat /\ Cardinality(IdleCells(p)) \in Nat
    BY <2>1, IdleCellsFinite DEF RawTypes
  <2>3. CleanedUsed[p] \in Nat /\ CleanedUsed[p] <= used[p]
    BY <2>2, MonusBound, MonusType DEF CleanedUsed
  <2>4. Capacity[p] \in Nat
    BY PoolsAssumption
  <2> QED
    BY <2>2, <2>3, <2>4 DEF WithinCapacity
<1> QED
  BY <1>1

\* temp_pool.acquire does not pass a limit, whichever way it finds a buffer.
LEMMA TempAcquireWithin ==
  ASSUME TypeOK, WithinCapacity, NEW k, NEW e \in Nat, NEW r, NEW back,
         TempAcquire(k, e, r, back)
  PROVE  WithinCapacity'
<1>1. CASE TempReuse(k, e, r, back)
  BY <1>1 DEF TempReuse, WithinCapacity
<1>2. CASE TempCreate(k, e, r, back)
  BY <1>2, ReserveWithin DEF TempCreate, WithinCapacity
<1>3. CASE TempCleanThenCreate(k, e, r, back)
  <2>1. used' = [CleanedUsed EXCEPT ![k] = @ + e] /\ CleanedUsed[k] + e <= Capacity[k]
    BY <1>3 DEF TempCleanThenCreate
  <2>2. DOMAIN CleanedUsed = Pools
    BY DEF CleanedUsed
  <2> QED
    BY <2>1, <2>2, CleanedWithin DEF WithinCapacity
<1> QED
  BY <1>1, <1>2, <1>3 DEF TempAcquire

\* Nor does it when it panics.
LEMMA TempPanicsWithin ==
  ASSUME TypeOK, WithinCapacity, NEW k, NEW e, TempPanics(k, e)
  PROVE  WithinCapacity'
BY CleanedWithin DEF TempPanics, WithinCapacity

\* Giving n elements of a pool back, once the registry is `grown'.
LEMMA GiveBackWithin ==
  ASSUME NEW grown \in [Pools -> Nat], \A p \in Pools : grown[p] <= Capacity[p],
         NEW k \in Pools, NEW n \in Nat, used' = [grown EXCEPT ![k] = Monus(@, n)]
  PROVE  WithinCapacity'
<1>1. ASSUME NEW p \in Pools PROVE used'[p] <= Capacity[p]
  <2>1. grown[p] \in Nat /\ Capacity[p] \in Nat /\ grown[p] <= Capacity[p]
    BY PoolsAssumption
  <2>2. used'[p] = grown[p] \/ used'[p] = Monus(grown[p], n)
    OBVIOUS
  <2>3. Monus(grown[p], n) <= grown[p] /\ Monus(grown[p], n) \in Nat
    BY <2>1, MonusBound, MonusType
  <2> QED
    BY <2>1, <2>2, <2>3
<1> QED
  BY <1>1 DEF WithinCapacity

\* No step of a client passes the limit of a pool.
LEMMA WithinClientStep == TypeOK /\ WithinCapacity /\ ClientStep => WithinCapacity'
<1> SUFFICES ASSUME TypeOK, WithinCapacity, ClientStep PROVE WithinCapacity'
  OBVIOUS
<1> USE SizesAssumption
<1>1. ASSUME NEW id \in MatrixIds, NEW k \in Pools, NEW e \in Sizes,
             NEW high \in BOOLEAN, Acquire(id, k, e, high)
      PROVE  WithinCapacity'
  <2>1. used' = Reserve(k, e) /\ CanAllocate(k, e) /\ e \in Nat
    BY <1>1 DEF Acquire
  <2> QED
    BY <2>1, ReserveWithin DEF WithinCapacity
<1>2. ASSUME NEW id \in MatrixIds, DropHandle(id) PROVE WithinCapacity'
  <2>1. CASE used' = used
    BY <2>1 DEF WithinCapacity
  <2>2. CASE id \in DOMAIN entry /\ FreeStorage(entry[id])
    <3>1. /\ used \in [Pools -> Nat] /\ \A p \in Pools : used[p] <= Capacity[p]
          /\ entry[id].kind \in Pools /\ entry[id].size \in Nat
      BY <2>2 DEF TypeOK, EntryRecord, WithinCapacity
    <3>2. used' = [used EXCEPT ![entry[id].kind] = Monus(@, entry[id].size)]
      BY <2>2 DEF FreeStorage, Deallocate
    <3> QED
      BY <3>1, <3>2, GiveBackWithin
  <2> QED
    BY <1>2, <2>1, <2>2 DEF DropHandle
<1>3. ASSUME NEW k \in Gpus \cup {HostRam}, NEW e \in Sizes, NEW r \in RawIds,
             AcquireTemp(k, e, r)
      PROVE  WithinCapacity'
  <2>1. e \in Nat /\ TempAcquire(k, e, r, <<>>)
    BY <1>3 DEF AcquireTemp
  <2> QED
    BY <2>1, TempAcquireWithin
<1>4. ASSUME UNCHANGED used PROVE WithinCapacity'
  BY <1>4 DEF WithinCapacity
<1> QED
  BY <1>1, <1>2, <1>3, <1>4 DEF ClientStep, AcquireWriteFails, CloneHandle, DropPoisoned,
     PoolRelease, PoolReuse, MoveBegin, TakeOut, AcquireTempPanics, PoolAcquirePanics,
     ReleaseTemp

\* Nor does a step of a migration: it charges after can_allocate or through a
\* staging copy.
LEMMA WithinMigrationStep ==
  TypeOK /\ WithinCapacity /\ MigrationStep => WithinCapacity'
<1> SUFFICES ASSUME TypeOK, WithinCapacity, MigrationStep PROVE WithinCapacity'
  OBVIOUS
<1> USE SizesAssumption
<1>a. ASSUME moving # NoMove
      PROVE  moving.from.size \in Nat /\ moving.from.kind \in Pools
  BY <1>a DEF TypeOK, MoveRecord, EntryRecord
<1>b. used \in [Pools -> Nat] /\ \A p \in Pools : used[p] <= Capacity[p]
  BY DEF TypeOK, WithinCapacity
<1>c. ASSUME moving # NoMove, NEW k, CanAllocate(k, moving.from.size),
             PutBack(Reserve(k, moving.from.size))
      PROVE  WithinCapacity'
  <2>1. Reserve(k, moving.from.size) \in [Pools -> Nat]
    BY <1>a, <1>b, <1>c DEF Reserve, CanAllocate
  <2>2. \A p \in Pools : Reserve(k, moving.from.size)[p] <= Capacity[p]
    BY <1>a, <1>c, ReserveWithin
  <2> QED
    BY <1>a, <1>c, <2>1, <2>2, GiveBackWithin DEF PutBack
<1>1. CASE ReadStorage
  BY <1>1, <1>a, TempAcquireWithin DEF ReadStorage, Staged, WithinCapacity
<1>2. CASE ReadGpuFails \/ UploadFails
  <2>1. moving # NoMove /\ (StagingFails \/ StagingPanics)
    BY <1>2 DEF ReadGpuFails, UploadFails
  <2> QED
    BY <1>a, <2>1, StagingEnds, TempAcquireWithin, TempPanicsWithin
<1>3. CASE StoreHost
  BY <1>3, <1>c DEF StoreHost
<1>4. CASE StoreSsd
  BY <1>4, <1>c DEF StoreSsd
<1>5. CASE StoreGpu
  BY <1>5, <1>a, ReserveWithin DEF StoreGpu, WithinCapacity
<1>6. CASE Upload
  BY <1>6, <1>a, TempAcquireWithin DEF Upload, Staged
<1>7. CASE Commit
  BY <1>7, <1>a, <1>b, GiveBackWithin DEF Commit, PutBack
<1>8. CASE UNCHANGED used
  BY <1>8 DEF WithinCapacity
<1> QED
  BY <1>1, <1>2, <1>3, <1>4, <1>5, <1>6, <1>7, <1>8
     DEF MigrationStep, PassVictim, EvictVictim, EvictSucceeds, TakeOut, EvictFails,
         ReadSsdFails, StoreHostFails, StoreSsdFails, StoreGpuFails

\* No call and no migration, staging and cleanup included, charges a pool beyond
\* its limit.
THEOREM CapacityRespected == Spec => []WithinCapacity
<1>1. Init => WithinCapacity
  BY PoolsAssumption DEF Init, WithinCapacity
<1>2. ExecutorInv /\ WithinCapacity /\ [Next]_vars => WithinCapacity'
  <2>1. CASE UNCHANGED vars
    BY <2>1 DEF vars, WithinCapacity
  <2> QED
    BY <2>1, WithinClientStep, WithinMigrationStep DEF Next, ExecutorInv
<1> QED
  BY ExecutorInit, ExecutorStep, <1>1, <1>2, PTL DEF Spec

-----------------------------------------------------------------------------
(***************************************************************************)
(* Who owns a raw Vulkan buffer of MemoryExecutor, for all values of its   *)
(* constants.  RawInv says that owners do not meet: an entry, a place of   *)
(* an idle queue, a borrower, the migration that holds the lock.  The      *)
(* entry taken out keeps its old buffer until the new storage is made, and *)
(* between StoreGpu and Commit the migration owns two; both have to        *)
(* survive the staging copies, whose cleanup unregisters idle buffers and  *)
(* whose identities are drawn afresh.  OwnInv, further down, adds what     *)
(* failures leave behind, and that nothing is without an owner.            *)
(***************************************************************************)

\* Some queue of q holds x.
In(q, x) == \E k \in DOMAIN q : \E i \in DOMAIN q[k] : q[k][i] = x

InIdle(x) == In(idle, x)

\* A buffer in use: registered, and not for temp_pool to hand out.
Held(x) == x \in DOMAIN raws /\ ~ InIdle(x)

\* The queues of q hold members of R, each of them once.
Once(q, R) ==
  /\ \A k \in DOMAIN q : \A i \in DOMAIN q[k] : q[k][i] \in R
  /\ \A k, l \in DOMAIN q : \A i \in DOMAIN q[k], j \in DOMAIN q[l] :
       q[k][i] = q[l][j] => k = l /\ i = j

IdleOwned == Once(idle, DOMAIN raws)

OnGpu(id) == entry[id].kind \in Gpus

EntriesOwn ==
  /\ \A id \in DOMAIN entry : OnGpu(id) => Held(entry[id].raw) /\ entry[id].raw \notin lent
  /\ \A i, j \in DOMAIN entry : OnGpu(i) /\ OnGpu(j) /\ entry[i].raw = entry[j].raw => i = j

\* Held by the migration alone.
HeldAside(x) ==
  Held(x) /\ x \notin lent /\ \A id \in DOMAIN entry : OnGpu(id) => entry[id].raw # x

OldOnGpu == moving.from.kind \in Gpus
NewOnGpu == moving.phase \in {"upload", "commit"}

MigrationOwns ==
  moving # NoMove =>
    /\ OldOnGpu => HeldAside(moving.from.raw)
    /\ NewOnGpu => HeldAside(moving.raw)
    /\ OldOnGpu /\ NewOnGpu => moving.from.raw # moving.raw

RawInv ==
  IdleOwned /\ EntriesOwn /\ MigrationOwns /\ \A x \in lent : Held(x)

\* Nobody owns anything at first.
LEMMA RawInvInit == Init => RawInv
BY DEF Init, RawInv, IdleOwned, Once, EntriesOwn, MigrationOwns

-----------------------------------------------------------------------------
(* The idle queues *)

\* RemoveAt takes one place away and closes the gap.
LEMMA RemoveAtPlaces ==
  ASSUME NEW T, NEW s \in Seq(T), NEW i \in 1 .. Len(s)
  PROVE  /\ Len(RemoveAt(s, i)) = Len(s) - 1
         /\ \A j \in 1 .. Len(s) - 1 :
              RemoveAt(s, i)[j] = s[IF j < i THEN j ELSE j + 1]
<1> DEFINE a == SubSeq(s, 1, i - 1)
           b == SubSeq(s, i + 1, Len(s))
<1>1. a \in Seq(T) /\ Len(a) = i - 1 /\ \A j \in 1 .. i - 1 : a[j] = s[j]
  OBVIOUS
<1>2. /\ b \in Seq(T) /\ Len(b) = Len(s) - i
      /\ \A j \in 1 .. Len(s) - i : b[j] = s[i + j]
  OBVIOUS
<1> HIDE DEF a, b
<1>3. RemoveAt(s, i) = a \o b
  BY DEF RemoveAt, a, b
<1>4. Len(a \o b) = Len(s) - 1
  BY <1>1, <1>2
<1>5. ASSUME NEW j \in 1 .. Len(s) - 1
      PROVE  (a \o b)[j] = s[IF j < i THEN j ELSE j + 1]
  <2>0. i \in Nat /\ j \in Nat /\ Len(s) \in Nat
    OBVIOUS
  <2>1. CASE j < i
    <3>1. (a \o b)[j] = a[j] /\ a[j] = s[j]
      BY <1>1, <1>2, <2>0, <2>1
    <3> QED
      BY <2>1, <3>1
  <2>2. CASE ~ (j < i)
    <3>1. (a \o b)[j] = b[j - Len(a)]
      BY <1>1, <1>2, <2>0, <2>2
    <3>2. j - Len(a) \in 1 .. Len(s) - i /\ i + (j - Len(a)) = j + 1
      BY <1>1, <2>0, <2>2
    <3>3. b[j - Len(a)] = s[i + (j - Len(a))]
      BY <1>2, <3>2
    <3>4. (a \o b)[j] = s[j + 1]
      BY <3>1, <3>2, <3>3
    <3> QED
      BY <2>2, <3>4
  <2> QED
    BY <2>1, <2>2
<1> QED
  BY <1>3, <1>4, <1>5

\* What temp_pool gives back of r in the section that handed it out.
Back(r) == {<<>>, <<r>>}
Loan(back) == back = <<>>

\* A queue at whose end r is put, or not.
LEMMA BackPlaces ==
  ASSUME NEW T, NEW s \in Seq(T), NEW r \in T, NEW back \in Back(r)
  PROVE  /\ s \o back \in Seq(T)
         /\ \A j \in DOMAIN (s \o back) :
              \/ j \in DOMAIN s /\ (s \o back)[j] = s[j]
              \/ j = Len(s) + 1 /\ (s \o back)[j] = r /\ back # <<>>
<1>1. CASE back = <<>>
  BY <1>1
<1>2. CASE back = <<r>>
  <2>1. s \o back \in Seq(T) /\ Len(s \o back) = Len(s) + 1
    BY <1>2
  <2>2. \A j \in 1 .. Len(s) : (s \o back)[j] = s[j]
    BY <1>2
  <2>3. (s \o back)[Len(s) + 1] = r
    BY <1>2
  <2> QED
    BY <1>2, <2>1, <2>2, <2>3
<1> QED
  BY <1>1, <1>2 DEF Back

\* Where the members of f lie when r is put at the end of the queue of k, or not.
LEMMA PutPlaces ==
  ASSUME NEW D, NEW f \in [D -> Seq(RawIds)], NEW k \in D, NEW r \in RawIds,
         NEW back \in Back(r)
  PROVE  LET g == [f EXCEPT ![k] = @ \o back] IN
           \A l \in D : \A j \in DOMAIN g[l] :
             \/ j \in DOMAIN f[l] /\ g[l][j] = f[l][j]
             \/ l = k /\ j = Len(f[k]) + 1 /\ g[l][j] = r /\ ~ Loan(back)
<1> DEFINE q == f[k] \o back
           g == [f EXCEPT ![k] = q]
<1>1. f[k] \in Seq(RawIds)
  OBVIOUS
<1>2. \A j \in DOMAIN q :
         \/ j \in DOMAIN f[k] /\ q[j] = f[k][j]
         \/ j = Len(f[k]) + 1 /\ q[j] = r /\ ~ Loan(back)
  <2> DEFINE s == f[k]
  <2> HIDE DEF s
  <2>1. s \in Seq(RawIds)
    BY <1>1 DEF s
  <2>2. \A j \in DOMAIN (s \o back) :
           \/ j \in DOMAIN s /\ (s \o back)[j] = s[j]
           \/ j = Len(s) + 1 /\ (s \o back)[j] = r /\ back # <<>>
    BY <2>1, BackPlaces, Zenon
  <2> QED
    BY <2>2, Zenon DEF s, Loan
<1>3. DOMAIN f = D /\ DOMAIN g = D /\ g[k] = q /\ \A l \in D : l # k => g[l] = f[l]
  OBVIOUS
<1> HIDE DEF q, g
<1>4. ASSUME NEW l \in D, NEW j \in DOMAIN g[l]
      PROVE  \/ j \in DOMAIN f[l] /\ g[l][j] = f[l][j]
             \/ l = k /\ j = Len(f[k]) + 1 /\ g[l][j] = r /\ ~ Loan(back)
  <2>1. CASE l # k
    BY <1>3, <2>1
  <2>2. CASE l = k
    BY <1>2, <1>3, <2>2
  <2> QED
    BY <2>1, <2>2
<1> QED
  BY <1>4 DEF g, q

\* Nothing but r can be there that was not.
LEMMA PutIdle ==
  ASSUME NEW D, NEW f \in [D -> Seq(RawIds)], NEW k \in D, NEW r \in RawIds,
         NEW back \in Back(r)
  PROVE  LET g == [f EXCEPT ![k] = @ \o back] IN
           \A x : In(g, x) => In(f, x) \/ (x = r /\ ~ Loan(back))
<1> DEFINE g == [f EXCEPT ![k] = @ \o back]
<1>1. \A l \in D : \A j \in DOMAIN g[l] :
         \/ j \in DOMAIN f[l] /\ g[l][j] = f[l][j]
         \/ l = k /\ j = Len(f[k]) + 1 /\ g[l][j] = r /\ ~ Loan(back)
  BY PutPlaces
<1>2. DOMAIN f = D /\ DOMAIN g = D
  OBVIOUS
<1> HIDE DEF g
<1>3. \A x : In(g, x) => In(f, x) \/ (x = r /\ ~ Loan(back))
  BY <1>1, <1>2 DEF In
<1> QED
  BY <1>3 DEF g

\* What lies in no queue may be put at the end of one.
LEMMA PutIdleOnce ==
  ASSUME NEW D, NEW f \in [D -> Seq(RawIds)], NEW R, Once(f, R), NEW k \in D,
         NEW r \in RawIds, ~ In(f, r), NEW back \in Back(r),
         NEW S, R \subseteq S, r \in S
  PROVE  Once([f EXCEPT ![k] = @ \o back], S)
<1> DEFINE g == [f EXCEPT ![k] = @ \o back]
<1>1. \A l \in D : \A j \in DOMAIN g[l] :
         \/ j \in DOMAIN f[l] /\ g[l][j] = f[l][j]
         \/ l = k /\ j = Len(f[k]) + 1 /\ g[l][j] = r /\ ~ Loan(back)
  BY PutPlaces
<1>2. DOMAIN f = D /\ DOMAIN g = D
  OBVIOUS
<1> HIDE DEF g
<1>3. ASSUME NEW l \in D, NEW j \in DOMAIN g[l] PROVE g[l][j] \in S
  BY <1>1, <1>2, <1>3 DEF Once
<1>4. ASSUME NEW l \in D, NEW m \in D, NEW i \in DOMAIN g[l], NEW j \in DOMAIN g[m],
             g[l][i] = g[m][j]
      PROVE  l = m /\ i = j
  BY <1>1, <1>2, <1>4 DEF Once, In
<1>5. Once(g, S)
  BY <1>2, <1>3, <1>4 DEF Once
<1> QED
  BY <1>5 DEF g

\* What is taken out of a queue lies in none.
LEMMA TakeIdle ==
  ASSUME NEW D, NEW f \in [D -> Seq(RawIds)], NEW R, Once(f, R), NEW k \in D,
         NEW n \in 1 .. Len(f[k])
  PROVE  LET g == [f EXCEPT ![k] = RemoveAt(@, n)] IN
           /\ g \in [D -> Seq(RawIds)]
           /\ Once(g, R)
           /\ ~ In(g, f[k][n])
           /\ \A x : ~ In(f, x) => ~ In(g, x)
<1> DEFINE q == RemoveAt(f[k], n)
           g == [f EXCEPT ![k] = q]
           from(l, j) == IF l = k /\ j >= n THEN j + 1 ELSE j
<1>1. f[k] \in Seq(RawIds)
  OBVIOUS
<1>2. q \in Seq(RawIds)
  BY <1>1, RemoveAtType
<1>3. /\ n \in Nat /\ DOMAIN q \subseteq Nat
      /\ \A j \in DOMAIN q :
           LET m == IF j < n THEN j ELSE j + 1 IN m \in DOMAIN f[k] /\ q[j] = f[k][m]
  <2>1. /\ Len(q) = Len(f[k]) - 1
        /\ \A j \in 1 .. Len(f[k]) - 1 : q[j] = f[k][IF j < n THEN j ELSE j + 1]
    BY <1>1, RemoveAtPlaces
  <2>2. DOMAIN q = 1 .. Len(f[k]) - 1 /\ DOMAIN f[k] = 1 .. Len(f[k]) /\ Len(f[k]) \in Nat
    BY <1>1, <1>2, <2>1
  <2> HIDE DEF q
  <2> QED
    BY <2>1, <2>2
<1>4. DOMAIN f = D /\ DOMAIN g = D /\ g[k] = q /\ \A l \in D : l # k => g[l] = f[l]
  OBVIOUS
<1>5. g \in [D -> Seq(RawIds)]
  BY <1>2
<1> HIDE DEF q, g
<1>6. ASSUME NEW l \in D, NEW j \in DOMAIN g[l]
      PROVE  /\ from(l, j) \in DOMAIN f[l] /\ g[l][j] = f[l][from(l, j)]
             /\ l = k => j \in Nat /\ from(l, j) # n
  <2>1. CASE l # k
    BY <1>4, <2>1
  <2>2. CASE l = k
    <3>1. j \in DOMAIN q /\ g[l][j] = q[j] /\ j \in Nat
      BY <1>3, <1>4, <2>2
    <3>2. from(l, j) = IF j < n THEN j ELSE j + 1
      BY <1>3, <2>2, <3>1
    <3> HIDE DEF from
    <3>3. from(l, j) # n
      BY <1>3, <3>1, <3>2
    <3> QED
      BY <1>3, <2>2, <3>1, <3>2, <3>3
  <2> QED
    BY <2>1, <2>2
<1>7. Once(g, R)
  <2>1. ASSUME NEW l \in D, NEW j \in DOMAIN g[l] PROVE g[l][j] \in R
    <3> HIDE DEF from
    <3> QED
      BY <1>4, <1>6, <2>1 DEF Once
  <2>2. ASSUME NEW l \in D, NEW m \in D, NEW i \in DOMAIN g[l], NEW j \in DOMAIN g[m],
               g[l][i] = g[m][j]
        PROVE  l = m /\ i = j
    <3>1. l = m /\ from(l, i) = from(m, j)
      <4> HIDE DEF from
      <4> QED
        BY <1>4, <1>6, <2>2 DEF Once
    <3>2. CASE l # k
      BY <3>1, <3>2
    <3>3. CASE l = k
      <4>1. i \in Nat /\ j \in Nat /\ n \in Nat
        BY <1>3, <1>6, <3>1, <3>3
      <4> QED
        BY <3>1, <3>3, <4>1
    <3> QED
      BY <3>2, <3>3
  <2> QED
    BY <1>4, <2>1, <2>2 DEF Once
<1>8. ~ In(g, f[k][n])
  <2>1. SUFFICES ASSUME NEW l \in D, NEW j \in DOMAIN g[l], g[l][j] = f[k][n] PROVE FALSE
    BY <1>4 DEF In
  <2>2. n \in DOMAIN f[k]
    BY <1>1
  <2> HIDE DEF from
  <2> QED
    BY <1>4, <1>6, <2>1, <2>2 DEF Once
<1>9. ASSUME NEW x, ~ In(f, x) PROVE ~ In(g, x)
  <2> HIDE DEF from
  <2> QED
    BY <1>4, <1>6, <1>9 DEF In
<1> QED
  BY <1>5, <1>7, <1>8, <1>9 DEF g, q

-----------------------------------------------------------------------------
(* temp_pool.acquire *)

\* The idle queues are typed, whatever else the invariant of types says.
LEMMA IdleTyped ==
  ASSUME TypeOK
  PROVE  /\ RawTypes
         /\ DOMAIN idle = Gpus \cup {HostRam}
         /\ idle \in [Gpus \cup {HostRam} -> Seq(RawIds)]
BY DEF TypeOK, RawTypes

\* cleanup unregisters the idle buffers and no other; nothing is idle after it.
LEMMA CleanedKeeps ==
  /\ \A x : Held(x) => x \in DOMAIN CleanedRaws
  /\ \A x : ~ In(CleanedIdle, x)
  /\ DOMAIN CleanedRaws \subseteq DOMAIN raws
  /\ \A R : Once(CleanedIdle, R)
<1>1. \A x : x \in IdleRaws => InIdle(x)
  BY DEF IdleRaws, InIdle, In
<1>2. DOMAIN CleanedRaws = DOMAIN raws \cap (DOMAIN raws \ IdleRaws)
  BY DEF CleanedRaws, Restrict
<1>3. ASSUME NEW k \in DOMAIN CleanedIdle PROVE DOMAIN CleanedIdle[k] = {}
  <2>1. CleanedIdle[k] = <<>>
    BY <1>3 DEF CleanedIdle
  <2>2. DOMAIN (<<>>) = {}
    OBVIOUS
  <2> QED
    BY <2>1, <2>2
<1>4. \A x : ~ In(CleanedIdle, x)
  BY <1>3 DEF In
<1>5. \A R : Once(CleanedIdle, R)
  BY <1>3 DEF Once
<1> QED
  BY <1>1, <1>2, <1>4, <1>5 DEF Held

\* What temp_pool.acquire hands out was in use nowhere, and what is in use stays
\* so, whichever way it finds a buffer, cleanup included.
LEMMA TempAcquireOwns ==
  ASSUME TypeOK, IdleOwned, NEW k \in Gpus \cup {HostRam}, NEW e, NEW r \in RawIds,
         NEW back \in Back(r), TempAcquire(k, e, r, back)
  PROVE  /\ IdleOwned'
         /\ r \in DOMAIN raws'
         /\ back = <<>> => ~ InIdle(r)'
         /\ ~ Held(r)
         /\ \A x : Held(x) => Held(x)'
<1> DEFINE D == Gpus \cup {HostRam}
<1>0. DOMAIN idle = D /\ idle \in [D -> Seq(RawIds)]
  BY IdleTyped
<1>1. CASE TempReuse(k, e, r, back)
  <2> DEFINE n == FirstFit(k, e)
             mid == [idle EXCEPT ![k] = RemoveAt(@, n)]
  <2>1. n \in 1 .. Len(idle[k])
    <3>1. Fits(k, e) \subseteq 1 .. Len(idle[k]) /\ Fits(k, e) \in SUBSET Nat
      BY <1>0 DEF Fits
    <3>2. Fits(k, e) # {}
      BY <1>1 DEF TempReuse
    <3> QED
      BY <3>1, <3>2, MinInSet DEF FirstFit
  <2>2. r = idle[k][n] /\ n \in DOMAIN idle[k]
    BY <1>0, <1>1, <2>1 DEF TempReuse
  <2>3. idle' = [idle EXCEPT ![k] = RemoveAt(@, n) \o back] /\ raws' = raws
    BY <1>1 DEF TempReuse
  <2>4. InIdle(r) /\ r \in DOMAIN raws
    BY <1>0, <2>2 DEF InIdle, In, IdleOwned, Once
  <2> HIDE DEF n, D
  <2>5. /\ mid \in [D -> Seq(RawIds)]
        /\ Once(mid, DOMAIN raws)
        /\ ~ In(mid, r)
        /\ \A x : ~ In(idle, x) => ~ In(mid, x)
    <3>1. k \in D /\ Once(idle, DOMAIN raws)
      BY DEF D, IdleOwned
    <3> QED
      BY <1>0, <2>1, <2>2, <3>1, TakeIdle
  <2>6. idle' = [mid EXCEPT ![k] = @ \o back]
    BY <1>0, <2>3 DEF D
  <2> HIDE DEF mid
  <2>7. /\ Once(idle', DOMAIN raws)
        /\ back = <<>> => ~ In(idle', r)
        /\ \A x : x # r /\ ~ In(mid, x) => ~ In(idle', x)
    <3> DEFINE g == [mid EXCEPT ![k] = @ \o back]
    <3>1. k \in D /\ DOMAIN raws \subseteq DOMAIN raws
      BY DEF D
    <3>2. Once(g, DOMAIN raws)
      BY <2>4, <2>5, <3>1, PutIdleOnce, ZenonT(40)
    <3>3. \A x : In(g, x) => In(mid, x) \/ (x = r /\ ~ Loan(back))
      BY <2>4, <2>5, <3>1, PutIdle, ZenonT(40)
    <3> QED
      BY <2>5, <2>6, <3>2, <3>3 DEF Loan
  <2> QED
    BY <2>3, <2>4, <2>5, <2>7 DEF IdleOwned, InIdle, Held
<1>2. CASE TempCreate(k, e, r, back)
  <2>1. /\ r \notin DOMAIN raws
        /\ raws' = With(raws, r, RawInfo(k, e))
        /\ idle' = [idle EXCEPT ![k] = @ \o back]
    BY <1>2 DEF TempCreate
  <2>2. DOMAIN raws' = DOMAIN raws \cup {r}
    BY <2>1 DEF With
  <2>3. ~ In(idle, r) /\ Once(idle, DOMAIN raws)
    BY <2>1 DEF IdleOwned, Once, In
  <2>4. /\ Once(idle', DOMAIN raws')
        /\ back = <<>> => ~ In(idle', r)
        /\ \A x : x # r /\ ~ In(idle, x) => ~ In(idle', x)
    <3> HIDE DEF D
    <3>1. k \in D
      BY DEF D
    <3>2. DOMAIN raws \subseteq DOMAIN raws' /\ r \in DOMAIN raws'
      BY <2>2
    <3> DEFINE g == [idle EXCEPT ![k] = @ \o back]
    <3>3. Once(g, DOMAIN raws')
      BY <1>0, <2>3, <3>1, <3>2, PutIdleOnce, ZenonT(40)
    <3>4. \A x : In(g, x) => In(idle, x) \/ (x = r /\ ~ Loan(back))
      BY <1>0, <2>3, <3>1, <3>2, PutIdle, ZenonT(40)
    <3> QED
      BY <2>1, <2>3, <3>3, <3>4 DEF Loan
  <2> QED
    BY <2>1, <2>2, <2>4 DEF IdleOwned, InIdle, Held
<1>3. CASE TempCleanThenCreate(k, e, r, back)
  <2>1. /\ r \notin DOMAIN CleanedRaws
        /\ raws' = With(CleanedRaws, r, RawInfo(k, e))
        /\ idle' = [CleanedIdle EXCEPT ![k] = back]
    BY <1>3 DEF TempCleanThenCreate
  <2>2. DOMAIN raws' = DOMAIN CleanedRaws \cup {r}
    BY <2>1 DEF With
  <2>3. CleanedIdle \in [D -> Seq(RawIds)] /\ CleanedIdle[k] = <<>> /\ back \in Seq(RawIds)
    <3>1. \A l \in D : CleanedIdle[l] = <<>>
      BY <1>0 DEF CleanedIdle
    <3>2. CleanedIdle \in [D -> Seq(RawIds)]
      BY CleanedTypes, IdleTyped
    <3>3. back \in Seq(RawIds)
      <4>1. <<>> \in Seq(RawIds) /\ <<r>> \in Seq(RawIds)
        OBVIOUS
      <4> QED
        BY <4>1 DEF Back
    <3> QED
      BY <3>1, <3>2, <3>3
  <2>4. idle' = [CleanedIdle EXCEPT ![k] = @ \o back]
    <3>1. CleanedIdle[k] \o back = back
      BY <2>3
    <3> QED
      BY <2>1, <3>1
  <2>5. /\ Once(idle', DOMAIN raws')
        /\ back = <<>> => ~ In(idle', r)
        /\ \A x : x # r => ~ In(idle', x)
    <3> HIDE DEF D
    <3>1. k \in D
      BY DEF D
    <3>2. Once(CleanedIdle, DOMAIN CleanedRaws) /\ ~ In(CleanedIdle, r) /\ \A x : ~ In(CleanedIdle, x)
      BY CleanedKeeps
    <3>3. DOMAIN CleanedRaws \subseteq DOMAIN raws' /\ r \in DOMAIN raws'
      BY <2>2
    <3> DEFINE g == [CleanedIdle EXCEPT ![k] = @ \o back]
    <3>4. Once(g, DOMAIN raws')
      BY <2>3, <3>1, <3>2, <3>3, PutIdleOnce, ZenonT(40)
    <3>5. \A x : In(g, x) => In(CleanedIdle, x) \/ (x = r /\ ~ Loan(back))
      BY <2>3, <3>1, <3>2, <3>3, PutIdle, ZenonT(40)
    <3> QED
      BY <2>4, <3>2, <3>4, <3>5 DEF Loan
  <2> QED
    BY <2>1, <2>2, <2>5, CleanedKeeps DEF IdleOwned, InIdle, Held
<1> QED
  BY <1>1, <1>2, <1>3 DEF TempAcquire

\* A panic of temp_pool.acquire leaves what is in use.
LEMMA TempPanicsOwns ==
  ASSUME IdleOwned, NEW k, NEW e, TempPanics(k, e)
  PROVE  IdleOwned' /\ \A x : Held(x) => Held(x)'
<1>1. CASE k \in Pools /\ ~ CanAllocate(k, e)
  <2>1. raws' = CleanedRaws /\ idle' = CleanedIdle
    BY <1>1 DEF TempPanics
  <2> QED
    BY <2>1, CleanedKeeps DEF IdleOwned, InIdle, Held
<1>2. CASE ~ (k \in Pools /\ ~ CanAllocate(k, e))
  BY <1>2 DEF TempPanics, IdleOwned, InIdle, Held
<1> QED
  BY <1>1, <1>2

-----------------------------------------------------------------------------
(* The steps *)

USE DEF OnGpu, HeldAside, OldOnGpu, NewOnGpu

\* A step that leaves the entries, the loans and what the migration holds, and
\* takes nothing that is in use out of use.
LEMMA OwnsUnchanged ==
  ASSUME RawInv, IdleOwned', \A x : Held(x) => Held(x)', UNCHANGED <<entry, lent>>,
         moving' = NoMove \/ UNCHANGED moving
  PROVE  RawInv'
<1>1. EntriesOwn' /\ \A x \in lent' : Held(x)'
  BY DEF RawInv, EntriesOwn
<1>2. MigrationOwns'
  BY DEF RawInv, MigrationOwns
<1> QED
  BY <1>1, <1>2 DEF RawInv

\* A step that touches neither the raw buffers nor the queues keeps what is held.
LEMMA HeldUnchanged ==
  ASSUME UNCHANGED <<raws, idle>>
  PROVE  /\ \A x : Held(x) => Held(x)'
         /\ IdleOwned => IdleOwned'
BY DEF Held, InIdle, IdleOwned

\* Taking an entry out of the registry leaves its buffer with the migration.
LEMMA TakeOutOwns ==
  ASSUME RawInv, NEW id \in DOMAIN entry, NEW dest, TakeOut(id, dest)
  PROVE  RawInv'
<1>1. /\ DOMAIN entry' = DOMAIN entry \ {id} /\ \A i \in DOMAIN entry' : entry'[i] = entry[i]
      /\ UNCHANGED <<raws, idle, lent>>
  BY DEF TakeOut, Without, Restrict
<1>2. moving'.from = entry[id] /\ moving'.phase = "read"
  BY DEF TakeOut
<1>3. IdleOwned' /\ \A x : Held(x) => Held(x)'
  BY <1>1, HeldUnchanged DEF RawInv
<1>4. EntriesOwn' /\ \A x \in lent' : Held(x)'
  BY <1>1, <1>3 DEF RawInv, EntriesOwn
<1>5. MigrationOwns'
  BY <1>1, <1>2, <1>3 DEF RawInv, EntriesOwn, MigrationOwns
<1> QED
  BY <1>3, <1>4, <1>5 DEF RawInv

\* Every step of a client keeps each buffer with one owner.
LEMMA RawClientStep == TypeOK /\ RawInv /\ ClientStep => RawInv'
<1> SUFFICES ASSUME TypeOK, RawInv, ClientStep PROVE RawInv'
  OBVIOUS
<1>a. ASSUME UNCHANGED <<raws, idle, lent, moving>>, DOMAIN entry' = DOMAIN entry,
             \A i \in DOMAIN entry : /\ entry'[i].kind = entry[i].kind
                                     /\ entry'[i].raw = entry[i].raw
      PROVE  RawInv'
  <2>1. IdleOwned' /\ \A x : Held(x) => Held(x)'
    BY <1>a, HeldUnchanged DEF RawInv
  <2>2. EntriesOwn' /\ \A x \in lent' : Held(x)'
    BY <1>a, <2>1 DEF RawInv, EntriesOwn
  <2>3. MigrationOwns'
    BY <1>a, <2>1 DEF RawInv, MigrationOwns
  <2> QED
    BY <2>1, <2>2, <2>3 DEF RawInv
<1>b. ASSUME NEW id \in DOMAIN entry, entry[id] \in EntryRecord,
             UNCHANGED <<raws, idle, lent, moving>>,
             \/ \E n \in Nat : entry' = [entry EXCEPT ![id] = [entry[id] EXCEPT !.ref = n]]
             \/ \E v \in BOOLEAN :
                  entry' = [entry EXCEPT ![id] = [entry[id] EXCEPT !.pooled = v]]
      PROVE  RawInv'
  <2>1. DOMAIN entry' = DOMAIN entry
    BY <1>b
  <2>2. ASSUME NEW i \in DOMAIN entry
        PROVE  entry'[i].kind = entry[i].kind /\ entry'[i].raw = entry[i].raw
    BY <1>b DEF EntryRecord
  <2> QED
    BY <1>a, <1>b, <2>1, <2>2
<1>c. \A i \in DOMAIN entry : entry[i] \in EntryRecord
  BY DEF TypeOK
<1>1. ASSUME NEW id \in MatrixIds, NEW k \in Pools, NEW e \in Sizes,
             NEW high \in BOOLEAN, Acquire(id, k, e, high)
      PROVE  RawInv'
  <2>1. LockFree /\ UNCHANGED <<idle, lent, moving>> /\ id \notin DOMAIN entry
    BY <1>1 DEF Acquire, FreshMatrixIds
  <2>2. CASE k \in Gpus
    <3>1. PICK r \in RawIds \ DOMAIN raws :
                 /\ raws' = With(raws, r, RawInfo(k, e))
                 /\ Install(id, NewEntry(k, e, high, r))
      BY <1>1, <2>2, PoolsAssumption DEF Acquire
    <3>2. DOMAIN raws' = DOMAIN raws \cup {r} /\ ~ Held(r)
      BY <3>1 DEF With, Held
    <3>3. /\ DOMAIN entry' = DOMAIN entry \cup {id}
          /\ entry'[id].raw = r /\ \A i \in DOMAIN entry : entry'[i] = entry[i]
      BY <2>1, <3>1 DEF Install, With, NewEntry
    <3>4. IdleOwned' /\ (\A x : Held(x) => Held(x)') /\ Held(r)'
      BY <2>1, <3>1, <3>2 DEF RawInv, IdleOwned, Once, InIdle, In, Held
    <3>5. EntriesOwn' /\ \A x \in lent' : Held(x)'
      BY <2>1, <3>2, <3>3, <3>4 DEF RawInv, EntriesOwn
    <3>6. MigrationOwns'
      BY <2>1, <3>2, <3>3, <3>4 DEF RawInv, MigrationOwns
    <3> QED
      BY <3>4, <3>5, <3>6 DEF RawInv
  <2>3. CASE k \notin Gpus
    <3>1. UNCHANGED raws /\ Install(id, NewEntry(k, e, high, NoRaw))
      BY <1>1, <2>3 DEF Acquire
    <3>2. /\ DOMAIN entry' = DOMAIN entry \cup {id}
          /\ entry'[id].kind = k /\ \A i \in DOMAIN entry : entry'[i] = entry[i]
      BY <2>1, <3>1 DEF Install, With, NewEntry
    <3>3. IdleOwned' /\ \A x : Held(x) => Held(x)'
      BY <2>1, <3>1, HeldUnchanged DEF RawInv
    <3>4. EntriesOwn' /\ \A x \in lent' : Held(x)'
      BY <2>1, <2>3, <3>2, <3>3 DEF RawInv, EntriesOwn
    <3>5. MigrationOwns'
      BY <2>1, <2>3, <3>2, <3>3 DEF RawInv, MigrationOwns
    <3> QED
      BY <3>3, <3>4, <3>5 DEF RawInv
  <2> QED
    BY <2>2, <2>3
<1>2. ASSUME UNCHANGED <<raws, idle, lent, moving, entry>> PROVE RawInv'
  BY <1>2, <1>a
<1>3. ASSUME NEW id \in MatrixIds, CloneHandle(id) PROVE RawInv'
  <2>1. UNCHANGED <<raws, idle, lent, moving>>
    BY <1>3 DEF CloneHandle
  <2>2. CASE id \in DOMAIN entry
    <3>1. entry[id].ref + 1 \in Nat
      BY <1>c, <2>2 DEF EntryRecord
    <3>2. entry' = [entry EXCEPT ![id] = [entry[id] EXCEPT !.ref = entry[id].ref + 1]]
      BY <1>3, <2>2 DEF CloneHandle
    <3> QED
      BY <1>b, <1>c, <2>1, <2>2, <3>1, <3>2
  <2>3. CASE id \notin DOMAIN entry
    BY <1>2, <1>3, <2>3 DEF CloneHandle
  <2> QED
    BY <2>2, <2>3
<1>4. ASSUME NEW id \in MatrixIds, DropHandle(id) PROVE RawInv'
  <2>1. UNCHANGED <<idle, lent, moving>>
    BY <1>4 DEF DropHandle
  <2>2. CASE UNCHANGED <<used, entry, lru, raws, ssdUsed>>
    BY <1>2, <2>1, <2>2
  <2>3. CASE /\ id \in DOMAIN entry
             /\ entry' = [entry EXCEPT ![id].ref = Monus(@, 1)]
             /\ UNCHANGED <<used, lru, raws, ssdUsed>>
    <3>1. entry[id] \in EntryRecord /\ Monus(entry[id].ref, 1) \in Nat
      BY <1>c, <2>3, MonusType DEF EntryRecord
    <3> QED
      BY <1>b, <2>1, <2>3, <3>1
  <2>4. CASE /\ id \in DOMAIN entry
             /\ FreeStorage(entry[id])
             /\ entry' = Without(entry, id)
    <3>1. DOMAIN entry' = DOMAIN entry \ {id} /\ \A i \in DOMAIN entry' : entry'[i] = entry[i]
      BY <2>4 DEF Without, Restrict
    <3>2. raws' = IF OnGpu(id) THEN Without(raws, entry[id].raw) ELSE raws
      BY <2>4 DEF FreeStorage
    <3>3. /\ DOMAIN raws' \subseteq DOMAIN raws
          /\ \A x \in DOMAIN raws : x \notin DOMAIN raws' => OnGpu(id) /\ x = entry[id].raw
      BY <3>2 DEF Without, Restrict
    <3>4. \A x : Held(x) /\ (OnGpu(id) => x # entry[id].raw) => Held(x)'
      BY <2>1, <3>3 DEF Held, InIdle
    <3>5. IdleOwned'
      <4>1. OnGpu(id) => ~ In(idle, entry[id].raw)
        BY <2>4 DEF RawInv, EntriesOwn, Held, InIdle
      <4>2. \A k \in DOMAIN idle : \A i \in DOMAIN idle[k] : idle[k][i] \in DOMAIN raws'
        BY <3>3, <4>1 DEF RawInv, IdleOwned, Once, In
      <4> QED
        BY <2>1, <4>2 DEF RawInv, IdleOwned, Once
    <3>6. EntriesOwn' /\ \A x \in lent' : Held(x)'
      BY <2>1, <2>4, <3>1, <3>4 DEF RawInv, EntriesOwn
    <3>7. MigrationOwns'
      BY <2>1, <2>4, <3>1, <3>4 DEF RawInv, MigrationOwns
    <3> QED
      BY <3>5, <3>6, <3>7 DEF RawInv
  <2> QED
    BY <1>4, <2>2, <2>3, <2>4 DEF DropHandle
<1>5. ASSUME NEW id \in MatrixIds, NEW k \in Pools, MoveBegin(id, k) PROVE RawInv'
  <2>1. LockFree /\ id \in DOMAIN entry
    BY <1>5 DEF MoveBegin
  <2>2. CASE TakeOut(id, k)
    BY <2>1, <2>2, TakeOutOwns
  <2>3. CASE ~ TakeOut(id, k)
    BY <1>2, <1>5, <2>3 DEF MoveBegin
  <2> QED
    BY <2>2, <2>3
<1>6. ASSUME NEW k \in Gpus \cup {HostRam}, NEW e \in Sizes, NEW r \in RawIds,
             AcquireTemp(k, e, r)
      PROVE  RawInv'
  <2>1. /\ TempAcquire(k, e, r, <<>>) /\ lent' = lent \cup {r}
        /\ UNCHANGED <<entry, moving>>
    BY <1>6 DEF AcquireTemp
  <2>2. <<>> \in Back(r) /\ IdleOwned
    BY DEF Back, RawInv
  <2>3. /\ IdleOwned' /\ r \in DOMAIN raws' /\ ~ InIdle(r)' /\ ~ Held(r)
        /\ \A x : Held(x) => Held(x)'
    BY <2>1, <2>2, TempAcquireOwns
  <2>4. EntriesOwn'
    BY <2>1, <2>3 DEF RawInv, EntriesOwn
  <2>5. MigrationOwns'
    BY <2>1, <2>3 DEF RawInv, MigrationOwns
  <2>6. \A x \in lent' : Held(x)'
    BY <2>1, <2>3 DEF RawInv, Held
  <2> QED
    BY <2>3, <2>4, <2>5, <2>6 DEF RawInv
<1>7. ASSUME NEW r \in RawIds, ReleaseTemp(r) PROVE RawInv'
  <2>1. /\ r \in lent /\ lent' = lent \ {r}
        /\ idle' = [idle EXCEPT ![raws[r].kind] = Append(@, r)]
        /\ UNCHANGED <<entry, raws, moving>>
    BY <1>7 DEF ReleaseTemp
  <2> DEFINE k == raws[r].kind
  <2>2. Held(r) /\ idle \in [DOMAIN idle -> Seq(RawIds)]
    BY <2>1 DEF RawInv, TypeOK
  <2>3. IdleOwned' /\ \A x : Held(x) /\ x # r => Held(x)'
    <3>1. CASE k \notin DOMAIN idle
      <4>1. idle' = idle
        BY <2>1, <2>2, <3>1
      <4> QED
        BY <2>1, <4>1, HeldUnchanged DEF RawInv
    <3>2. CASE k \in DOMAIN idle
      <4>1. idle' = [idle EXCEPT ![k] = @ \o <<r>>]
        <5>1. \A q \in Seq(RawIds) : Append(q, r) = q \o <<r>>
          OBVIOUS
        <5>2. idle[k] \in Seq(RawIds)
          BY <2>2, <3>2
        <5> QED
          BY <2>1, <5>1, <5>2
      <4> DEFINE D == DOMAIN idle
                 g == [idle EXCEPT ![k] = @ \o <<r>>]
      <4>2. <<r>> \in Back(r)
        BY DEF Back
      <4>3. /\ ~ In(idle, r) /\ Once(idle, DOMAIN raws) /\ r \in DOMAIN raws
            /\ DOMAIN raws \subseteq DOMAIN raws
        BY <2>2 DEF RawInv, IdleOwned, Held, InIdle
      <4> HIDE DEF k, D
      <4>4. idle \in [D -> Seq(RawIds)] /\ k \in D
        BY <2>2, <3>2 DEF D
      <4>5. Once(g, DOMAIN raws)
        BY <4>2, <4>3, <4>4, PutIdleOnce, ZenonT(40)
      <4>6. \A x : In(g, x) => In(idle, x) \/ (x = r /\ ~ Loan(<<r>>))
        BY <4>2, <4>4, PutIdle, ZenonT(40)
      <4> QED
        BY <2>1, <4>1, <4>5, <4>6 DEF IdleOwned, Held, InIdle
    <3> QED
      BY <3>1, <3>2
  <2>4. EntriesOwn' /\ \A x \in lent' : Held(x)'
    BY <2>1, <2>3 DEF RawInv, EntriesOwn
  <2>5. MigrationOwns'
    BY <2>1, <2>3 DEF RawInv, MigrationOwns
  <2> QED
    BY <2>3, <2>4, <2>5 DEF RawInv
<1>8. ASSUME NEW id \in MatrixIds, PoolRelease(id) \/ PoolReuse(id) PROVE RawInv'
  <2>1. id \in DOMAIN entry /\ UNCHANGED <<raws, idle, lent, moving>>
    BY <1>8 DEF PoolRelease, PoolReuse, Pooled
  <2>2. \E v \in BOOLEAN : entry' = [entry EXCEPT ![id] = [entry[id] EXCEPT !.pooled = v]]
    BY <1>8 DEF PoolRelease, PoolReuse
  <2> QED
    BY <1>b, <1>c, <2>1, <2>2
<1> QED
  BY <1>1, <1>2, <1>3, <1>4, <1>5, <1>6, <1>7, <1>8
     DEF ClientStep, AcquireWriteFails, DropPoisoned, AcquireTempPanics, PoolAcquirePanics

\* So does every step of a migration.
LEMMA RawMigrationStep == TypeOK /\ RawInv /\ MigrationStep => RawInv'
<1> SUFFICES ASSUME TypeOK, RawInv, MigrationStep PROVE RawInv'
  OBVIOUS
<1>a. moving # NoMove => moving \in MoveRecord /\ moving.from \in EntryRecord
  BY DEF TypeOK, MoveRecord
<1>b. ASSUME moving # NoMove, NEW r \in RawIds,
             TempAcquire(HostRam, moving.from.size, r, <<r>>)
      PROVE  IdleOwned' /\ \A x : Held(x) => Held(x)'
  <2>1. <<r>> \in Back(r) /\ IdleOwned /\ HostRam \in Gpus \cup {HostRam}
    BY DEF Back, RawInv
  <2> QED
    BY <1>b, <2>1, TempAcquireOwns
<1>c. ASSUME UNCHANGED <<raws, idle, entry, lent>>, moving' = NoMove \/ UNCHANGED moving
      PROVE  RawInv'
  <2>1. IdleOwned' /\ \A x : Held(x) => Held(x)'
    BY <1>c, HeldUnchanged DEF RawInv
  <2> QED
    BY <1>c, <2>1, OwnsUnchanged
<1>d. ASSUME moving # NoMove, NEW grown, NEW base, PutBack(grown), ReleaseOld(raws, base),
             UNCHANGED <<idle, lent>>, moving.dest \in Gpus => moving.phase = "commit"
      PROVE  RawInv'
  <2> DEFINE back == [moving.from EXCEPT !.kind = moving.dest, !.raw = moving.raw]
  <2>1. back.kind = moving.dest /\ back.raw = moving.raw
    BY <1>a, <1>d DEF EntryRecord
  <2> HIDE DEF back
  <2>2. entry' = With(entry, moving.id, back) /\ moving' = NoMove
    BY <1>d DEF PutBack, back
  <2>3. /\ DOMAIN entry' = DOMAIN entry \cup {moving.id}
        /\ entry'[moving.id] = back
        /\ \A i \in DOMAIN entry : i # moving.id => entry'[i] = entry[i]
    BY <2>2 DEF With
  <2>4. raws' = IF OldOnGpu THEN Without(raws, moving.from.raw) ELSE raws
    BY <1>d DEF ReleaseOld
  <2>5. /\ DOMAIN raws' \subseteq DOMAIN raws
        /\ \A x \in DOMAIN raws : x \notin DOMAIN raws' => OldOnGpu /\ x = moving.from.raw
    BY <2>4 DEF Without, Restrict
  <2>6. \A x : Held(x) /\ (OldOnGpu => x # moving.from.raw) => Held(x)'
    BY <1>d, <2>5 DEF Held, InIdle
  <2>7. IdleOwned'
    <3>1. OldOnGpu => ~ In(idle, moving.from.raw)
      BY <1>d DEF RawInv, MigrationOwns, Held, InIdle
    <3>2. \A k \in DOMAIN idle : \A i \in DOMAIN idle[k] : idle[k][i] \in DOMAIN raws'
      BY <2>5, <3>1 DEF RawInv, IdleOwned, Once, In
    <3> QED
      BY <1>d, <3>2 DEF RawInv, IdleOwned, Once
  <2>8. OldOnGpu => HeldAside(moving.from.raw)
    BY <1>d DEF RawInv, MigrationOwns
  <2>9. moving.dest \in Gpus =>
          HeldAside(moving.raw) /\ (OldOnGpu => moving.from.raw # moving.raw)
    BY <1>d DEF RawInv, MigrationOwns
  <2>10. EntriesOwn' /\ \A x \in lent' : Held(x)'
    BY <1>d, <2>1, <2>3, <2>6, <2>8, <2>9 DEF RawInv, EntriesOwn
  <2>11. MigrationOwns'
    BY <2>2 DEF MigrationOwns
  <2> QED
    BY <2>7, <2>10, <2>11 DEF RawInv
<1>1. CASE PassVictim \/ EvictFails \/ ReadSsdFails \/ StoreHostFails \/ StoreSsdFails
          \/ StoreGpuFails
  BY <1>1, <1>c DEF PassVictim, EvictFails, ReadSsdFails, StoreHostFails, StoreSsdFails,
     StoreGpuFails, Lose
<1>2. CASE EvictVictim
  <2>1. PICK v \in DOMAIN entry : moving = NoMove /\ TakeOut(v, EvictDestination)
    BY <1>2 DEF EvictVictim, Evicting
  <2> QED
    BY <2>1, TakeOutOwns
<1>3. CASE EvictSucceeds
  <2>1. job.id \in DOMAIN entry /\ TakeOut(job.id, job.target)
    BY <1>3 DEF EvictSucceeds
  <2> QED
    BY <2>1, TakeOutOwns
<1>4. CASE ReadStorage
  <2>1. IdleOwned' /\ \A x : Held(x) => Held(x)'
    BY <1>4, <1>b, HeldUnchanged DEF ReadStorage, Staged, RawInv
  <2>2. /\ moving' # NoMove => moving'.from = moving.from /\ moving'.phase = "store"
        /\ moving # NoMove /\ UNCHANGED <<entry, lent>>
    BY <1>4, <1>a DEF ReadStorage, MoveRecord
  <2>3. EntriesOwn' /\ \A x \in lent' : Held(x)'
    BY <2>1, <2>2 DEF RawInv, EntriesOwn
  <2>4. MigrationOwns'
    BY <2>1, <2>2 DEF RawInv, MigrationOwns
  <2> QED
    BY <2>1, <2>3, <2>4 DEF RawInv
<1>5. CASE ReadGpuFails \/ UploadFails
  <2>1. moving # NoMove /\ (StagingFails \/ StagingPanics)
    BY <1>5 DEF ReadGpuFails, UploadFails
  <2>2. UNCHANGED <<entry, lent>> /\ moving' = NoMove
    BY <2>1, StagingEnds
  <2>3. IdleOwned' /\ \A x : Held(x) => Held(x)'
    <3>1. CASE TempPanics(HostRam, moving.from.size)
      BY <3>1, TempPanicsOwns DEF RawInv
    <3>2. ASSUME NEW r \in RawIds, NEW back \in {<<>>, <<r>>},
                 TempAcquire(HostRam, moving.from.size, r, back)
          PROVE  IdleOwned' /\ \A x : Held(x) => Held(x)'
      <4>1. back \in Back(r) /\ IdleOwned /\ HostRam \in Gpus \cup {HostRam}
        BY DEF Back, RawInv
      <4> QED
        BY <3>2, <4>1, TempAcquireOwns
    <3> QED
      BY <2>1, <3>1, <3>2, StagingEnds
  <2> QED
    BY <2>2, <2>3, OwnsUnchanged
<1>6. CASE StoreHost
  BY <1>6, <1>d, PoolsAssumption DEF StoreHost
<1>7. CASE StoreSsd
  BY <1>7, <1>d, PoolsAssumption DEF StoreSsd
<1>8. CASE StoreGpu
  <2>1. PICK r \in RawIds \ DOMAIN raws :
               /\ raws' = With(raws, r, RawInfo(moving.dest, moving.from.size))
               /\ moving' = [moving EXCEPT !.phase = "upload", !.raw = r]
    BY <1>8 DEF StoreGpu
  <2>2. moving # NoMove /\ UNCHANGED <<entry, idle, lent>>
    BY <1>8 DEF StoreGpu
  <2>3. moving'.from = moving.from /\ moving'.raw = r
    BY <1>a, <2>1, <2>2 DEF MoveRecord
  <2>4. DOMAIN raws' = DOMAIN raws \cup {r} /\ ~ Held(r)
    BY <2>1 DEF With, Held
  <2>5. IdleOwned' /\ (\A x : Held(x) => Held(x)') /\ Held(r)'
    BY <2>1, <2>2, <2>4 DEF RawInv, IdleOwned, Once, InIdle, In, Held
  <2>6. EntriesOwn' /\ \A x \in lent' : Held(x)'
    BY <2>2, <2>5 DEF RawInv, EntriesOwn
  <2>7. MigrationOwns'
    BY <2>2, <2>3, <2>4, <2>5 DEF RawInv, MigrationOwns, EntriesOwn
  <2> QED
    BY <2>5, <2>6, <2>7 DEF RawInv
<1>9. CASE Upload
  <2>1. IdleOwned' /\ \A x : Held(x) => Held(x)'
    BY <1>9, <1>b DEF Upload, Staged
  <2>2. /\ moving'.from = moving.from /\ moving'.raw = moving.raw
        /\ moving.phase = "upload" /\ moving # NoMove /\ UNCHANGED <<entry, lent>>
    BY <1>9, <1>a DEF Upload, MoveRecord
  <2>3. EntriesOwn' /\ \A x \in lent' : Held(x)'
    BY <2>1, <2>2 DEF RawInv, EntriesOwn
  <2>4. MigrationOwns'
    BY <2>1, <2>2 DEF RawInv, MigrationOwns
  <2> QED
    BY <2>1, <2>3, <2>4 DEF RawInv
<1>10. CASE Commit
  BY <1>10, <1>d DEF Commit
<1> QED
  BY <1>1, <1>2, <1>3, <1>4, <1>5, <1>6, <1>7, <1>8, <1>9, <1>10 DEF MigrationStep

\* The inductive invariant of ownership, by one step of the executor.
LEMMA RawStep == ExecutorInv /\ RawInv /\ [Next]_vars => RawInv'
<1>1. UNCHANGED vars /\ RawInv => RawInv'
  BY HeldUnchanged DEF vars, RawInv, EntriesOwn, MigrationOwns
<1> QED
  BY <1>1, RawClientStep, RawMigrationStep DEF Next, ExecutorInv

\* No identity is charged for twice.
IdsApart ==
  /\ DOMAIN entry \cap DOMAIN lost = {}
  /\ moving # NoMove => moving.id \notin DOMAIN entry \cup DOMAIN lost

\* An identity is in one place only: registered, on the move, or lost.
LEMMA IdsApartStep == TypeOK /\ LockInv /\ IdsApart /\ [Next]_vars => IdsApart'
<1> SUFFICES ASSUME TypeOK, LockInv, IdsApart, [Next]_vars PROVE IdsApart'
  OBVIOUS
<1>a. ASSUME UNCHANGED <<lost, moving>>, DOMAIN entry' \subseteq DOMAIN entry
      PROVE  IdsApart'
  BY <1>a DEF IdsApart
<1>b. ASSUME NEW id \in DOMAIN entry, NEW dest, moving = NoMove, TakeOut(id, dest)
      PROVE  IdsApart'
  <2>1. DOMAIN entry' = DOMAIN entry \ {id} /\ moving'.id = id /\ UNCHANGED lost
    BY <1>b DEF TakeOut, Without, Restrict
  <2> QED
    BY <2>1 DEF IdsApart
<1>c. ASSUME moving # NoMove, UNCHANGED entry, moving' = NoMove,
             lost' = With(lost, moving.id, moving)
      PROVE  IdsApart'
  BY <1>c DEF IdsApart, With
<1>d. ASSUME moving # NoMove, NEW grown, PutBack(grown), UNCHANGED lost PROVE IdsApart'
  BY <1>d DEF IdsApart, PutBack, With
<1>e. ASSUME moving # NoMove, UNCHANGED <<entry, lost>>, moving'.id = moving.id
      PROVE  IdsApart'
  BY <1>e DEF IdsApart
<1>1. ASSUME NEW id \in MatrixIds, NEW k \in Pools, NEW e \in Sizes,
             NEW high \in BOOLEAN, Acquire(id, k, e, high)
      PROVE  IdsApart'
  <2>1. /\ id \notin DOMAIN entry \cup DOMAIN lost /\ UNCHANGED <<lost, moving>>
        /\ moving = NoMove /\ DOMAIN entry' = DOMAIN entry \cup {id}
    BY <1>1 DEF Acquire, FreshMatrixIds, LockFree, LockInv, Install, With
  <2> QED
    BY <2>1 DEF IdsApart
<1>2. ASSUME NEW id \in MatrixIds, CloneHandle(id) \/ PoolRelease(id) \/ PoolReuse(id)
      PROVE  IdsApart'
  <2>1. UNCHANGED <<lost, moving>> /\ DOMAIN entry' = DOMAIN entry
    BY <1>2 DEF CloneHandle, PoolRelease, PoolReuse
  <2> QED
    BY <1>a, <2>1
<1>3. ASSUME NEW id \in MatrixIds, DropHandle(id) PROVE IdsApart'
  <2>1. UNCHANGED <<lost, moving>> /\ DOMAIN entry' \subseteq DOMAIN entry
    BY <1>3 DEF DropHandle, Without, Restrict
  <2> QED
    BY <1>a, <2>1
<1>4. ASSUME NEW id \in MatrixIds, NEW k \in Pools, MoveBegin(id, k) PROVE IdsApart'
  BY <1>4, <1>a, <1>b DEF MoveBegin, LockFree, LockInv
<1>5. CASE EvictVictim \/ EvictSucceeds
  <2>1. PICK v \in DOMAIN entry : moving = NoMove /\ \E dest : TakeOut(v, dest)
    BY <1>5 DEF EvictVictim, EvictSucceeds, Evicting
  <2> QED
    BY <1>b, <2>1
<1>6. CASE ReadStorage \/ Upload \/ StoreGpu
  <2>1. moving # NoMove /\ UNCHANGED <<entry, lost>> /\ moving'.id = moving.id
    BY <1>6 DEF ReadStorage, Upload, StoreGpu, TypeOK, MoveRecord
  <2> QED
    BY <1>e, <2>1
<1>7. CASE StoreHost \/ StoreSsd \/ Commit
  BY <1>7, <1>d DEF StoreHost, StoreSsd, Commit
<1>8. CASE ReadGpuFails \/ UploadFails \/ ReadSsdFails \/ StoreHostFails \/ StoreSsdFails
          \/ StoreGpuFails
  BY <1>8, <1>c, StagingEnds DEF ReadGpuFails, UploadFails, ReadSsdFails, StoreHostFails,
     StoreSsdFails, StoreGpuFails, Lose
<1>9. ASSUME MigrationStep PROVE IdsApart'
  BY <1>9, <1>5, <1>6, <1>7, <1>8, <1>a DEF MigrationStep, PassVictim, EvictFails
<1>10. ASSUME ClientStep PROVE IdsApart'
  BY <1>10, <1>1, <1>2, <1>3, <1>4, <1>a
     DEF ClientStep, AcquireWriteFails, DropPoisoned, AcquireTemp, AcquireTempPanics,
         PoolAcquirePanics, ReleaseTemp
<1> QED
  BY <1>9, <1>10, <1>a DEF Next, vars

(***************************************************************************)
(* Somebody owns every registered raw buffer, and nobody else does.  What  *)
(* failed migrations dropped keeps its buffers for good, and so does the   *)
(* staging copy that panicked: no later step may touch those.              *)
(***************************************************************************)

\* A record of a migration has the buffer of the storage it took out, and the one
\* it has made.
Has(m, x) ==
  \/ m.from.kind \in Gpus /\ m.from.raw = x
  \/ m.phase \in {"upload", "commit"} /\ m.raw = x

TwoBuffers(m) ==
  m.from.kind \in Gpus /\ m.phase \in {"upload", "commit"} => m.from.raw # m.raw

\* In nobody's hands: no client's, not idle, not with the migration under way.
Dropped(x) == HeldAside(x) /\ (moving # NoMove => ~ Has(moving, x))

LostOwn ==
  \A i \in DOMAIN lost :
    /\ TwoBuffers(lost[i])
    /\ \A x : Has(lost[i], x) =>
         Dropped(x) /\ \A j \in DOMAIN lost : Has(lost[j], x) => j = i

PanicOwns ==
  panic.raw # NoRaw =>
    Dropped(panic.raw) /\ \A i \in DOMAIN lost : ~ Has(lost[i], panic.raw)

InEntry(x) == \E id \in DOMAIN entry : OnGpu(id) /\ entry[id].raw = x
InLost(x)  == \E i \in DOMAIN lost : Has(lost[i], x)

Owned(x) ==
  \/ InIdle(x) \/ x \in lent \/ InEntry(x) \/ InLost(x) \/ panic.raw = x
  \/ moving # NoMove /\ Has(moving, x)

AllOwned == \A x \in DOMAIN raws : Owned(x)

\* What a migration makes is for VRAM.
MadeForGpu == moving # NoMove /\ NewOnGpu => moving.dest \in Gpus

OwnInv == LostOwn /\ PanicOwns /\ AllOwned /\ MadeForGpu

\* Nothing is dropped, and nothing is registered, at first.
LEMMA OwnInit == Init => OwnInv
<1> SUFFICES ASSUME Init PROVE OwnInv
  OBVIOUS
<1>1. DOMAIN lost = {} /\ DOMAIN raws = {} /\ panic.raw = NoRaw /\ moving = NoMove
  BY DEF Init, NoPanic
<1> QED
  BY <1>1 DEF OwnInv, LostOwn, PanicOwns, AllOwned, MadeForGpu

\* What is not taken out of a queue stays in it.
LEMMA LeaveIdle ==
  ASSUME NEW D, NEW f \in [D -> Seq(RawIds)], NEW k \in D, NEW n \in 1 .. Len(f[k])
  PROVE  LET g == [f EXCEPT ![k] = RemoveAt(@, n)] IN
           \A x : In(f, x) => x = f[k][n] \/ In(g, x)
<1> DEFINE q == RemoveAt(f[k], n)
           g == [f EXCEPT ![k] = q]
<1>1. f[k] \in Seq(RawIds) /\ q \in Seq(RawIds)
  BY RemoveAtType
<1>2. /\ Len(q) = Len(f[k]) - 1
      /\ \A j \in 1 .. Len(f[k]) - 1 : q[j] = f[k][IF j < n THEN j ELSE j + 1]
  BY <1>1, RemoveAtPlaces
<1>3. DOMAIN q = 1 .. Len(f[k]) - 1 /\ DOMAIN f[k] = 1 .. Len(f[k]) /\ Len(f[k]) \in Nat
  BY <1>1, <1>2
<1>4. DOMAIN f = D /\ DOMAIN g = D /\ g[k] = q /\ \A l \in D : l # k => g[l] = f[l]
  OBVIOUS
<1> HIDE DEF q, g
<1>5. ASSUME NEW i \in DOMAIN f[k], i # n PROVE \E j \in DOMAIN q : q[j] = f[k][i]
  <2>0. i \in Nat /\ n \in Nat
    BY <1>3
  <2>1. CASE i < n
    <3>1. i \in 1 .. Len(f[k]) - 1
      BY <1>3, <2>0, <2>1
    <3> QED
      BY <1>2, <1>3, <2>1, <3>1
  <2>2. CASE i > n
    <3>1. i - 1 \in 1 .. Len(f[k]) - 1 /\ ~ (i - 1 < n) /\ (i - 1) + 1 = i
      BY <1>3, <2>0, <2>2
    <3>2. q[i - 1] = f[k][i]
      BY <1>2, <3>1
    <3> QED
      BY <1>3, <3>1, <3>2
  <2> QED
    BY <1>5, <2>0, <2>1, <2>2
<1>6. \A x : In(f, x) => x = f[k][n] \/ In(g, x)
  BY <1>4, <1>5 DEF In
<1> QED
  BY <1>6 DEF g, q

\* What lies in a queue stays there when something is put at its end.
LEMMA PutKeeps ==
  ASSUME NEW D, NEW f \in [D -> Seq(RawIds)], NEW k \in D, NEW r \in RawIds,
         NEW back \in Back(r)
  PROVE  LET g == [f EXCEPT ![k] = @ \o back] IN
           /\ \A x : In(f, x) => In(g, x)
           /\ Loan(back) \/ In(g, r)
<1> DEFINE q == f[k] \o back
           g == [f EXCEPT ![k] = q]
<1>1. f[k] \in Seq(RawIds)
  OBVIOUS
<1>2. /\ \A i \in DOMAIN f[k] : i \in DOMAIN q /\ q[i] = f[k][i]
      /\ Loan(back) \/ \E i \in DOMAIN q : q[i] = r
  <2>1. CASE back = <<>>
    BY <1>1, <2>1 DEF Loan
  <2>2. CASE back = <<r>>
    <3> DEFINE s == f[k]
    <3>1. s \in Seq(RawIds)
      OBVIOUS
    <3> HIDE DEF s
    <3>2. /\ s \o <<r>> \in Seq(RawIds) /\ Len(s \o <<r>>) = Len(s) + 1
          /\ \A i \in 1 .. Len(s) : (s \o <<r>>)[i] = s[i]
          /\ (s \o <<r>>)[Len(s) + 1] = r
      BY <3>1
    <3>3. /\ DOMAIN s = 1 .. Len(s) /\ DOMAIN (s \o <<r>>) = 1 .. Len(s) + 1
          /\ Len(s) \in Nat
      BY <3>1, <3>2
    <3>4. \A i \in DOMAIN s : i \in DOMAIN (s \o <<r>>)
      BY <3>3
    <3>5. Len(s) + 1 \in DOMAIN (s \o <<r>>)
      BY <3>3
    <3> QED
      BY <2>2, <3>2, <3>3, <3>4, <3>5 DEF s
  <2> QED
    BY <2>1, <2>2 DEF Back
<1>3. DOMAIN f = D /\ DOMAIN g = D /\ g[k] = q /\ \A l \in D : l # k => g[l] = f[l]
  OBVIOUS
<1> HIDE DEF q, g
<1>4. /\ \A x : In(f, x) => In(g, x)
      /\ Loan(back) \/ In(g, r)
  BY <1>2, <1>3 DEF In
<1> QED
  BY <1>4 DEF g, q

\* After temp_pool.acquire what is registered is idle still, was in use before, or
\* is what was handed out; that is idle when it is given back at once.
LEMMA TempAcquireOwned ==
  ASSUME TypeOK, NEW k \in Gpus \cup {HostRam}, NEW e, NEW r \in RawIds,
         NEW back \in Back(r), TempAcquire(k, e, r, back)
  PROVE  /\ \A x \in DOMAIN raws' : x = r \/ InIdle(x)' \/ Held(x)
         /\ Loan(back) \/ InIdle(r)'
<1> DEFINE D == Gpus \cup {HostRam}
<1>0. DOMAIN idle = D /\ idle \in [D -> Seq(RawIds)] /\ k \in D
  BY IdleTyped
<1>1. CASE TempReuse(k, e, r, back)
  <2> DEFINE n == FirstFit(k, e)
             mid == [idle EXCEPT ![k] = RemoveAt(@, n)]
  <2>1. n \in 1 .. Len(idle[k])
    <3>1. Fits(k, e) \subseteq 1 .. Len(idle[k]) /\ Fits(k, e) \in SUBSET Nat
      BY <1>0 DEF Fits
    <3>2. Fits(k, e) # {}
      BY <1>1 DEF TempReuse
    <3> QED
      BY <3>1, <3>2, MinInSet DEF FirstFit
  <2>2. r = idle[k][n]
    BY <1>1 DEF TempReuse
  <2>3. idle' = [idle EXCEPT ![k] = RemoveAt(@, n) \o back] /\ raws' = raws
    BY <1>1 DEF TempReuse
  <2> HIDE DEF n, D
  <2>4. mid \in [D -> Seq(RawIds)]
    <3>1. idle[k] \in Seq(RawIds)
      BY <1>0
    <3>2. RemoveAt(idle[k], n) \in Seq(RawIds)
      BY <2>1, <3>1, RemoveAtType
    <3> QED
      BY <1>0, <3>2
  <2>5. \A x : In(idle, x) => x = idle[k][n] \/ In(mid, x)
    BY <1>0, <2>1, LeaveIdle
  <2>6. idle' = [mid EXCEPT ![k] = @ \o back]
    BY <1>0, <2>3 DEF D
  <2> HIDE DEF mid
  <2>7. (\A x : In(mid, x) => In(idle', x)) /\ (Loan(back) \/ In(idle', r))
    <3> DEFINE g == [mid EXCEPT ![k] = @ \o back]
    <3>1. (\A x : In(mid, x) => In(g, x)) /\ (Loan(back) \/ In(g, r))
      BY <1>0, <2>4, PutKeeps, ZenonT(40)
    <3> QED
      BY <2>6, <3>1
  <2> QED
    BY <2>2, <2>3, <2>5, <2>7 DEF InIdle, Held
<1>2. CASE TempCreate(k, e, r, back)
  <2>1. raws' = With(raws, r, RawInfo(k, e)) /\ idle' = [idle EXCEPT ![k] = @ \o back]
    BY <1>2 DEF TempCreate
  <2>2. DOMAIN raws' = DOMAIN raws \cup {r}
    BY <2>1 DEF With
  <2> HIDE DEF D
  <2>3. (\A x : In(idle, x) => In(idle', x)) /\ (Loan(back) \/ In(idle', r))
    <3> DEFINE g == [idle EXCEPT ![k] = @ \o back]
    <3>1. (\A x : In(idle, x) => In(g, x)) /\ (Loan(back) \/ In(g, r))
      BY <1>0, PutKeeps, ZenonT(40)
    <3> QED
      BY <2>1, <3>1
  <2> QED
    BY <2>2, <2>3 DEF InIdle, Held
<1>3. CASE TempCleanThenCreate(k, e, r, back)
  <2>1. /\ raws' = With(CleanedRaws, r, RawInfo(k, e))
        /\ idle' = [CleanedIdle EXCEPT ![k] = back]
    BY <1>3 DEF TempCleanThenCreate
  <2>2. DOMAIN raws' = DOMAIN CleanedRaws \cup {r}
    BY <2>1 DEF With
  <2>3. \A x \in DOMAIN CleanedRaws : Held(x)
    <3>1. \A x : InIdle(x) => x \in IdleRaws
      BY DEF IdleRaws, InIdle, In
    <3> QED
      BY <3>1 DEF CleanedRaws, Restrict, Held
  <2>4. Loan(back) \/ InIdle(r)'
    <3>1. CASE back = <<r>>
      <4>1. DOMAIN idle' = D /\ idle'[k] = <<r>>
        BY <1>0, <2>1, <3>1 DEF CleanedIdle
      <4>2. 1 \in DOMAIN <<r>> /\ <<r>>[1] = r
        OBVIOUS
      <4> QED
        BY <1>0, <4>1, <4>2 DEF InIdle, In
    <3> QED
      BY <3>1 DEF Back, Loan
  <2> QED
    BY <2>2, <2>3, <2>4
<1> QED
  BY <1>1, <1>2, <1>3 DEF TempAcquire

\* After its panic what is registered is idle still or was in use before.
LEMMA TempPanicsOwned ==
  ASSUME NEW k, NEW e, TempPanics(k, e)
  PROVE  \A x \in DOMAIN raws' : InIdle(x)' \/ Held(x)
<1>1. CASE k \in Pools /\ ~ CanAllocate(k, e)
  <2>1. raws' = CleanedRaws
    BY <1>1 DEF TempPanics
  <2>2. \A x : InIdle(x) => x \in IdleRaws
    BY DEF IdleRaws, InIdle, In
  <2> QED
    BY <2>1, <2>2 DEF CleanedRaws, Restrict, Held
<1>2. CASE ~ (k \in Pools /\ ~ CanAllocate(k, e))
  BY <1>2 DEF TempPanics, Held, InIdle
<1> QED
  BY <1>1, <1>2

\* What one step must not do: take up what is in nobody's hands, or leave a
\* registered buffer to nobody.
OwnStays == (\A x : Dropped(x) => Dropped(x)') /\ AllOwned'

\* Neither the buffers nor what holds them change, except that the entries may be
\* counted or pooled anew.
LEMMA OwnSame ==
  ASSUME LockInv, OwnInv, UNCHANGED <<raws, idle, lent, moving, lost>>,
         DOMAIN entry' = DOMAIN entry,
         \A i \in DOMAIN entry : entry'[i].kind = entry[i].kind /\ entry'[i].raw = entry[i].raw,
         panic' = panic \/ panic.raw = NoRaw, NoRaw \notin DOMAIN raws
  PROVE  OwnStays
<1>1. \A x : InIdle(x)' = InIdle(x) /\ Held(x)' = Held(x)
  BY DEF InIdle, Held
<1>2. \A x : InEntry(x) => InEntry(x)'
  BY DEF InEntry
<1>3. \A x : InLost(x)' = InLost(x) /\ Has(moving, x)' = Has(moving, x)
  BY DEF InLost, Has
<1>4. \A x : Dropped(x) => Dropped(x)'
  BY <1>1, <1>3 DEF Dropped
<1>5. AllOwned'
  BY <1>1, <1>2, <1>3 DEF OwnInv, AllOwned, Owned
<1> QED
  BY <1>4, <1>5 DEF OwnStays

\* A migration takes an entry out: what it owned goes with it.
LEMMA OwnTakeOut ==
  ASSUME OwnInv, moving = NoMove, NEW id \in DOMAIN entry, NEW dest, TakeOut(id, dest)
  PROVE  OwnStays
<1>1. /\ DOMAIN entry' = DOMAIN entry \ {id} /\ \A i \in DOMAIN entry' : entry'[i] = entry[i]
      /\ UNCHANGED <<raws, idle, lent, lost, panic>>
  BY DEF TakeOut, Without, Restrict
<1>2. /\ moving'.from = entry[id] /\ moving'.phase = "read" /\ moving' # NoMove
  BY DEF TakeOut, NoMove
<1>3. \A x : Has(moving, x)' <=> entry[id].kind \in Gpus /\ entry[id].raw = x
  BY <1>2 DEF Has
<1>4. \A x : InIdle(x)' = InIdle(x) /\ Held(x)' = Held(x) /\ InLost(x)' = InLost(x)
  BY <1>1 DEF InIdle, Held, InLost, Has
<1>5. \A x : Dropped(x) => Dropped(x)'
  BY <1>1, <1>3, <1>4 DEF Dropped
<1>6. \A x : InEntry(x) => InEntry(x)' \/ Has(moving, x)'
  BY <1>1, <1>3 DEF InEntry
<1>7. AllOwned'
  BY <1>1, <1>2, <1>4, <1>6 DEF OwnInv, AllOwned, Owned
<1> QED
  BY <1>5, <1>7 DEF OwnStays

\* Every client's step leaves what is in nobody's hands there, and every buffer
\* with an owner.
LEMMA OwnClientStep == TypeOK /\ LockInv /\ RawInv /\ OwnInv /\ ClientStep => OwnStays
<1> SUFFICES ASSUME TypeOK, LockInv, RawInv, OwnInv, ClientStep PROVE OwnStays
  OBVIOUS
<1>a. NoRaw \notin DOMAIN raws /\ \A i \in DOMAIN entry : entry[i] \in EntryRecord
  BY SizesAssumption DEF TypeOK
<1>b. ASSUME UNCHANGED <<raws, idle, lent, moving, lost, entry>>,
             panic' = panic \/ panic.raw = NoRaw
      PROVE  OwnStays
  BY <1>a, <1>b, OwnSame
<1>c. ASSUME NEW id \in DOMAIN entry, UNCHANGED <<raws, idle, lent, moving, lost, panic>>,
             \/ \E n \in Nat : entry' = [entry EXCEPT ![id] = [entry[id] EXCEPT !.ref = n]]
             \/ \E v \in BOOLEAN :
                  entry' = [entry EXCEPT ![id] = [entry[id] EXCEPT !.pooled = v]]
      PROVE  OwnStays
  <2>1. DOMAIN entry' = DOMAIN entry
    BY <1>c
  <2>2. ASSUME NEW i \in DOMAIN entry
        PROVE  entry'[i].kind = entry[i].kind /\ entry'[i].raw = entry[i].raw
    BY <1>a, <1>c DEF EntryRecord
  <2> QED
    BY <1>a, <1>c, <2>1, <2>2, OwnSame
<1>d. LockFree => moving = NoMove /\ panic.raw = NoRaw
  BY DEF LockFree, LockInv, NoPanic
<1>1. ASSUME NEW id \in MatrixIds, NEW k \in Pools, NEW e \in Sizes,
             NEW high \in BOOLEAN, Acquire(id, k, e, high)
      PROVE  OwnStays
  <2>1. LockFree /\ UNCHANGED <<idle, lent, moving, lost, panic>> /\ id \notin DOMAIN entry
    BY <1>1 DEF Acquire, FreshMatrixIds
  <2>2. PICK r \in RawIds \cup {NoRaw} :
               /\ r \notin DOMAIN raws
               /\ raws' = IF k \in Gpus THEN With(raws, r, RawInfo(k, e)) ELSE raws
               /\ Install(id, NewEntry(k, e, high, r))
    BY <1>1, <1>a, PoolsAssumption DEF Acquire
  <2>3. /\ DOMAIN entry' = DOMAIN entry \cup {id}
        /\ entry'[id].kind = k /\ entry'[id].raw = r
        /\ \A i \in DOMAIN entry : entry'[i] = entry[i]
    BY <2>1, <2>2 DEF Install, With, NewEntry
  <2>4. /\ DOMAIN raws \subseteq DOMAIN raws'
        /\ \A x \in DOMAIN raws' : x \in DOMAIN raws \/ (k \in Gpus /\ x = r)
    BY <2>2 DEF With
  <2>5. \A x : InIdle(x)' = InIdle(x) /\ InLost(x)' = InLost(x) /\ (Held(x) => Held(x)')
    BY <2>1, <2>4 DEF InIdle, Held, InLost, Has
  <2>6. \A x : InEntry(x) => InEntry(x)'
    BY <2>3 DEF InEntry
  <2>7. k \in Gpus => InEntry(r)'
    BY <2>3 DEF InEntry
  <2>8. \A x : Held(x) => x # r
    BY <2>2 DEF Held
  <2>9. \A x : Dropped(x) => Dropped(x)'
    BY <1>d, <2>1, <2>3, <2>5, <2>8 DEF Dropped
  <2>10. AllOwned'
    BY <1>d, <2>1, <2>4, <2>5, <2>6, <2>7 DEF OwnInv, AllOwned, Owned
  <2> QED
    BY <2>9, <2>10 DEF OwnStays
<1>2. ASSUME NEW id \in MatrixIds, CloneHandle(id) PROVE OwnStays
  <2>1. UNCHANGED <<raws, idle, lent, moving, lost, panic>>
    BY <1>2 DEF CloneHandle
  <2>2. CASE id \in DOMAIN entry
    <3>1. entry[id].ref + 1 \in Nat
      BY <1>a, <2>2 DEF EntryRecord
    <3>2. entry' = [entry EXCEPT ![id] = [entry[id] EXCEPT !.ref = entry[id].ref + 1]]
      BY <1>2, <2>2 DEF CloneHandle
    <3> QED
      BY <1>c, <2>1, <2>2, <3>1, <3>2
  <2>3. CASE id \notin DOMAIN entry
    BY <1>b, <1>2, <2>3 DEF CloneHandle
  <2> QED
    BY <2>2, <2>3
<1>3. ASSUME NEW id \in MatrixIds, DropHandle(id) PROVE OwnStays
  <2>1. LockFree /\ UNCHANGED <<idle, lent, moving, lost, panic>>
    BY <1>3 DEF DropHandle
  <2>2. CASE UNCHANGED <<used, entry, lru, raws, ssdUsed>>
    BY <1>b, <2>1, <2>2
  <2>3. CASE /\ id \in DOMAIN entry
             /\ entry' = [entry EXCEPT ![id].ref = Monus(@, 1)]
             /\ UNCHANGED <<used, lru, raws, ssdUsed>>
    <3>1. Monus(entry[id].ref, 1) \in Nat
      BY <1>a, <2>3, MonusType DEF EntryRecord
    <3> QED
      BY <1>c, <2>1, <2>3, <3>1
  <2>4. CASE /\ id \in DOMAIN entry
             /\ FreeStorage(entry[id])
             /\ entry' = Without(entry, id)
    <3>1. DOMAIN entry' = DOMAIN entry \ {id} /\ \A i \in DOMAIN entry' : entry'[i] = entry[i]
      BY <2>4 DEF Without, Restrict
    <3>2. raws' = IF OnGpu(id) THEN Without(raws, entry[id].raw) ELSE raws
      BY <2>4 DEF FreeStorage
    <3>3. /\ DOMAIN raws' \subseteq DOMAIN raws
          /\ \A x \in DOMAIN raws : x \in DOMAIN raws' <=> ~ (OnGpu(id) /\ x = entry[id].raw)
      BY <3>2 DEF Without, Restrict
    <3>4. \A x : InIdle(x)' = InIdle(x) /\ InLost(x)' = InLost(x)
      BY <2>1 DEF InIdle, InLost, Has
    <3>5. \A x : HeldAside(x) => HeldAside(x)'
      BY <2>1, <2>4, <3>1, <3>3, <3>4 DEF Held
    <3>6. \A x : Dropped(x) => Dropped(x)'
      BY <1>d, <2>1, <3>5 DEF Dropped
    <3>7. \A x \in DOMAIN raws' : InEntry(x) => InEntry(x)'
      BY <3>1, <3>3 DEF InEntry
    <3>8. AllOwned'
      BY <1>d, <2>1, <3>3, <3>4, <3>7 DEF OwnInv, AllOwned, Owned
    <3> QED
      BY <3>6, <3>8 DEF OwnStays
  <2> QED
    BY <1>3, <2>2, <2>3, <2>4 DEF DropHandle
<1>4. ASSUME NEW id \in MatrixIds, NEW k \in Pools, MoveBegin(id, k) PROVE OwnStays
  <2>1. LockFree /\ id \in DOMAIN entry
    BY <1>4 DEF MoveBegin
  <2>2. CASE TakeOut(id, k)
    BY <1>d, <2>1, <2>2, OwnTakeOut
  <2>3. CASE ~ TakeOut(id, k)
    BY <1>b, <1>4, <2>3 DEF MoveBegin
  <2> QED
    BY <2>2, <2>3
<1>5. ASSUME NEW k \in Gpus \cup {HostRam}, NEW e \in Sizes, NEW r \in RawIds,
             AcquireTemp(k, e, r)
      PROVE  OwnStays
  <2>1. /\ LockFree /\ TempAcquire(k, e, r, <<>>) /\ lent' = lent \cup {r}
        /\ UNCHANGED <<entry, moving, lost, panic>>
    BY <1>5 DEF AcquireTemp
  <2>2. <<>> \in Back(r) /\ IdleOwned
    BY DEF Back, RawInv
  <2>3. ~ Held(r) /\ \A x : Held(x) => Held(x)'
    BY <2>1, <2>2, TempAcquireOwns
  <2>4. \A x \in DOMAIN raws' : x = r \/ InIdle(x)' \/ Held(x)
    BY <2>1, <2>2, TempAcquireOwned
  <2>5. \A x : Dropped(x) => Dropped(x)'
    BY <1>d, <2>1, <2>3 DEF Dropped
  <2>6. \A x : InEntry(x)' = InEntry(x) /\ InLost(x)' = InLost(x)
    BY <2>1 DEF InEntry, InLost, Has
  <2>7. AllOwned'
    BY <1>d, <2>1, <2>4, <2>6 DEF OwnInv, AllOwned, Owned, Held
  <2> QED
    BY <2>5, <2>7 DEF OwnStays
<1>6. ASSUME NEW r \in RawIds, ReleaseTemp(r) PROVE OwnStays
  <2>1. /\ LockFree /\ r \in lent /\ lent' = lent \ {r}
        /\ idle' = [idle EXCEPT ![raws[r].kind] = Append(@, r)]
        /\ UNCHANGED <<entry, raws, moving, lost, panic>>
    BY <1>6 DEF ReleaseTemp
  <2> DEFINE k == raws[r].kind
             D == Gpus \cup {HostRam}
  <2>2. Held(r) /\ k \in D /\ idle \in [D -> Seq(RawIds)]
    BY <2>1 DEF RawInv, Held, TypeOK, RawRecord
  <2>3. idle' = [idle EXCEPT ![k] = @ \o <<r>>]
    <3>1. \A q \in Seq(RawIds) : Append(q, r) = q \o <<r>>
      OBVIOUS
    <3>2. idle[k] \in Seq(RawIds)
      BY <2>2
    <3> QED
      BY <2>1, <3>1, <3>2
  <2> HIDE DEF k, D
  <2>4. <<r>> \in Back(r) /\ ~ Loan(<<r>>)
    BY DEF Back, Loan
  <2>5. (\A x : In(idle, x) => In(idle', x)) /\ In(idle', r)
    <3> DEFINE g == [idle EXCEPT ![k] = @ \o <<r>>]
    <3>1. (\A x : In(idle, x) => In(g, x)) /\ (Loan(<<r>>) \/ In(g, r))
      BY <2>2, <2>4, PutKeeps, ZenonT(40)
    <3> QED
      BY <2>3, <2>4, <3>1
  <2>6. \A x : In(idle', x) => In(idle, x) \/ x = r
    <3> DEFINE g == [idle EXCEPT ![k] = @ \o <<r>>]
    <3>1. \A x : In(g, x) => In(idle, x) \/ (x = r /\ ~ Loan(<<r>>))
      BY <2>2, <2>4, PutIdle, ZenonT(40)
    <3> QED
      BY <2>3, <3>1
  <2>7. \A x : Dropped(x) => Dropped(x)'
    BY <1>d, <2>1, <2>6 DEF Dropped, Held, InIdle
  <2>8. \A x : InEntry(x)' = InEntry(x) /\ InLost(x)' = InLost(x)
    BY <2>1 DEF InEntry, InLost, Has
  <2>9. AllOwned'
    BY <1>d, <2>1, <2>5, <2>8 DEF OwnInv, AllOwned, Owned, InIdle
  <2> QED
    BY <2>7, <2>9 DEF OwnStays
<1>7. ASSUME NEW id \in MatrixIds, PoolRelease(id) \/ PoolReuse(id) PROVE OwnStays
  <2>1. id \in DOMAIN entry /\ UNCHANGED <<raws, idle, lent, moving, lost, panic>>
    BY <1>7 DEF PoolRelease, PoolReuse, Pooled
  <2>2. \E v \in BOOLEAN : entry' = [entry EXCEPT ![id] = [entry[id] EXCEPT !.pooled = v]]
    BY <1>7 DEF PoolRelease, PoolReuse
  <2> QED
    BY <1>c, <2>1, <2>2
<1>8. ASSUME NEW k, NEW e, AcquireTempPanics(k, e) \/ PoolAcquirePanics(k, e)
      PROVE  OwnStays
  BY <1>b, <1>d, <1>8 DEF AcquireTempPanics, PoolAcquirePanics
<1> QED
  BY <1>b, <1>1, <1>2, <1>3, <1>4, <1>5, <1>6, <1>7, <1>8
     DEF ClientStep, AcquireWriteFails, DropPoisoned

\* Every step of a migration does so too.
LEMMA OwnMigrationStep ==
  TypeOK /\ LockInv /\ RawInv /\ IdsApart /\ OwnInv /\ MigrationStep => OwnStays
<1> SUFFICES ASSUME TypeOK, LockInv, RawInv, IdsApart, OwnInv, MigrationStep PROVE OwnStays
  OBVIOUS
<1>a. moving # NoMove => moving \in MoveRecord /\ moving.from \in EntryRecord
  BY DEF TypeOK, MoveRecord
<1>b. NoRaw \notin DOMAIN raws /\ (moving # NoMove => panic.raw = NoRaw)
  BY SizesAssumption DEF TypeOK, LockInv, NoPanic
<1>c. ASSUME moving # NoMove, moving' = NoMove, lost' = With(lost, moving.id, moving),
             UNCHANGED <<entry, lent>>, \A x : Held(x) => Held(x)',
             \A x \in DOMAIN raws' : Held(x) \/ InIdle(x)' \/ panic'.raw = x
      PROVE  OwnStays
  <2>1. /\ lost'[moving.id] = moving /\ moving.id \in DOMAIN lost'
        /\ \A i \in DOMAIN lost : i \in DOMAIN lost' /\ lost'[i] = lost[i]
    BY <1>c DEF With, IdsApart
  <2>2. \A x : InLost(x) \/ Has(moving, x) => InLost(x)'
    BY <2>1 DEF InLost, Has
  <2>3. \A x : Dropped(x) => Dropped(x)'
    BY <1>c DEF Dropped
  <2>4. \A x : InEntry(x) => InEntry(x)'
    BY <1>c DEF InEntry
  <2>5. AllOwned'
    BY <1>b, <1>c, <2>2, <2>4 DEF OwnInv, AllOwned, Owned, Held
  <2> QED
    BY <2>3, <2>5 DEF OwnStays
<1>d. ASSUME moving # NoMove, \A x : Has(moving', x) <=> Has(moving, x), moving' # NoMove,
             UNCHANGED <<entry, lent, lost, panic>>, \A x : Held(x) => Held(x)',
             \A x \in DOMAIN raws' : Held(x) \/ InIdle(x)'
      PROVE  OwnStays
  <2>1. \A x : Dropped(x) => Dropped(x)'
    BY <1>d DEF Dropped, Has
  <2>2. \A x : (InEntry(x) => InEntry(x)') /\ (InLost(x) => InLost(x)')
    BY <1>d DEF InEntry, InLost, Has
  <2>3. \A x : Has(moving, x) => Has(moving, x)'
    BY <1>d DEF Has
  <2>4. AllOwned'
    BY <1>d, <2>2, <2>3 DEF OwnInv, AllOwned, Owned, Held
  <2> QED
    BY <2>1, <2>4 DEF OwnStays
<1>e. ASSUME moving # NoMove, NEW grown, NEW base, PutBack(grown), ReleaseOld(raws, base),
             UNCHANGED <<idle, lent, lost, panic>>, moving.dest \in Gpus <=> NewOnGpu
      PROVE  OwnStays
  <2> DEFINE back == [moving.from EXCEPT !.kind = moving.dest, !.raw = moving.raw]
  <2>1. back.kind = moving.dest /\ back.raw = moving.raw
    BY <1>a, <1>e DEF EntryRecord
  <2> HIDE DEF back
  <2>2. entry' = With(entry, moving.id, back) /\ moving' = NoMove
    BY <1>e DEF PutBack, back
  <2>3. /\ DOMAIN entry' = DOMAIN entry \cup {moving.id}
        /\ entry'[moving.id] = back
        /\ \A i \in DOMAIN entry : i # moving.id /\ entry'[i] = entry[i]
    BY <1>e, <2>2 DEF With, IdsApart
  <2>4. raws' = IF OldOnGpu THEN Without(raws, moving.from.raw) ELSE raws
    BY <1>e DEF ReleaseOld
  <2>5. \A x : x \in DOMAIN raws' <=> x \in DOMAIN raws /\ ~ (OldOnGpu /\ x = moving.from.raw)
    BY <2>4 DEF Without, Restrict
  <2>6. \A x : Has(moving, x) <=>
                 (OldOnGpu /\ moving.from.raw = x) \/ (NewOnGpu /\ moving.raw = x)
    BY DEF Has
  <2>7. ASSUME NEW x, Dropped(x) PROVE Dropped(x)'
    <3>1. Held(x)' /\ x \notin lent'
      BY <1>e, <2>5, <2>6, <2>7 DEF Dropped, Held, InIdle
    <3>2. \A i \in DOMAIN entry' : OnGpu(i)' => entry'[i].raw # x
      BY <1>e, <2>1, <2>3, <2>6, <2>7 DEF Dropped
    <3> QED
      BY <2>2, <3>1, <3>2 DEF Dropped
  <2>8. ASSUME NEW x \in DOMAIN raws' PROVE Owned(x)'
    <3>1. Owned(x) /\ ~ (OldOnGpu /\ x = moving.from.raw)
      BY <2>5, <2>8 DEF OwnInv, AllOwned
    <3>2. InEntry(x) => InEntry(x)'
      BY <2>3 DEF InEntry
    <3>3. Has(moving, x) => InEntry(x)'
      BY <1>e, <2>1, <2>3, <2>6, <3>1 DEF InEntry
    <3>4. InIdle(x)' = InIdle(x) /\ InLost(x)' = InLost(x)
      BY <1>e DEF InIdle, InLost, Has
    <3> QED
      BY <1>e, <3>1, <3>2, <3>3, <3>4 DEF Owned
  <2> QED
    BY <2>7, <2>8 DEF OwnStays, AllOwned
<1>f. HostRam \notin Gpus /\ SsdCache \notin Gpus
  BY PoolsAssumption
<1>g. ASSUME NEW r \in RawIds, NEW back \in Back(r),
             TempAcquire(HostRam, moving.from.size, r, back)
      PROVE  /\ \A x : Held(x) => Held(x)'
             /\ \A x \in DOMAIN raws' : x = r \/ InIdle(x)' \/ Held(x)
             /\ Loan(back) \/ InIdle(r)'
  <2>1. IdleOwned /\ HostRam \in Gpus \cup {HostRam}
    BY DEF RawInv
  <2>2. \A x : Held(x) => Held(x)'
    BY <1>g, <2>1, TempAcquireOwns
  <2> QED
    BY <1>g, <2>1, <2>2, TempAcquireOwned
<1>h. ASSUME Staged
      PROVE  (\A x : Held(x) => Held(x)') /\ \A x \in DOMAIN raws' : Held(x) \/ InIdle(x)'
  <2>1. PICK r \in RawIds : TempAcquire(HostRam, moving.from.size, r, <<r>>)
    BY <1>h DEF Staged
  <2>2. <<r>> \in Back(r) /\ ~ Loan(<<r>>)
    BY DEF Back, Loan
  <2> QED
    BY <1>g, <2>1, <2>2
<1>i. ASSUME UNCHANGED <<raws, idle>>
      PROVE  (\A x : Held(x) => Held(x)') /\ \A x \in DOMAIN raws' : Held(x) \/ InIdle(x)'
  BY <1>i DEF Held, InIdle
<1>1. CASE PassVictim \/ EvictFails
  BY <1>1, <1>b, OwnSame DEF PassVictim, EvictFails
<1>2. CASE EvictVictim \/ EvictSucceeds
  <2>1. PICK v \in DOMAIN entry : moving = NoMove /\ \E dest : TakeOut(v, dest)
    BY <1>2 DEF EvictVictim, EvictSucceeds, Evicting
  <2> QED
    BY <2>1, OwnTakeOut
<1>3. CASE ReadStorage
  <2>1. moving # NoMove /\ moving' # NoMove /\ \A x : Has(moving', x) <=> Has(moving, x)
    BY <1>3, <1>a DEF ReadStorage, MoveRecord, NoMove, Has
  <2>2. UNCHANGED <<entry, lent, lost, panic>> /\ (Staged \/ UNCHANGED <<raws, idle>>)
    BY <1>3 DEF ReadStorage
  <2> QED
    BY <1>d, <1>h, <1>i, <2>1, <2>2
<1>4. CASE Upload
  <2>1. moving # NoMove /\ moving' # NoMove /\ \A x : Has(moving', x) <=> Has(moving, x)
    BY <1>4, <1>a DEF Upload, MoveRecord, NoMove, Has
  <2>2. UNCHANGED <<entry, lent, lost, panic>> /\ Staged
    BY <1>4 DEF Upload
  <2> QED
    BY <1>d, <1>h, <2>1, <2>2
<1>5. CASE ReadSsdFails \/ StoreHostFails \/ StoreSsdFails \/ StoreGpuFails
  <2>1. /\ moving # NoMove /\ moving' = NoMove /\ lost' = With(lost, moving.id, moving)
        /\ UNCHANGED <<entry, lent, raws, idle>>
    BY <1>5 DEF ReadSsdFails, StoreHostFails, StoreSsdFails, StoreGpuFails, Lose
  <2> QED
    BY <1>c, <1>i, <2>1
<1>6. CASE ReadGpuFails \/ UploadFails
  <2>1. moving # NoMove /\ (StagingFails \/ StagingPanics)
    BY <1>6 DEF ReadGpuFails, UploadFails
  <2>2. /\ moving' = NoMove /\ lost' = With(lost, moving.id, moving)
        /\ UNCHANGED <<entry, lent>>
    BY <2>1, StagingEnds
  <2>3. CASE Staged
    BY <1>c, <1>h, <2>1, <2>2, <2>3
  <2>4. CASE TempPanics(HostRam, moving.from.size)
    <3>1. \A x : Held(x) => Held(x)'
      BY <2>4, TempPanicsOwns DEF RawInv
    <3>2. \A x \in DOMAIN raws' : InIdle(x)' \/ Held(x)
      BY <2>4, TempPanicsOwned
    <3> QED
      BY <1>c, <2>1, <2>2, <3>1, <3>2
  <2>5. ASSUME NEW r \in RawIds, TempAcquire(HostRam, moving.from.size, r, <<>>),
               LosePanicking("copy_buffer_sync", r)
        PROVE  OwnStays
    <3>1. <<>> \in Back(r) /\ panic'.raw = r
      BY <2>5 DEF Back, LosePanicking
    <3>2. /\ \A x : Held(x) => Held(x)'
          /\ \A x \in DOMAIN raws' : x = r \/ InIdle(x)' \/ Held(x)
      BY <1>g, <2>5, <3>1
    <3> QED
      BY <1>c, <2>1, <2>2, <3>1, <3>2
  <2> QED
    BY <2>1, <2>3, <2>4, <2>5 DEF StagingFails, StagingPanics
<1>7. CASE StoreHost
  BY <1>7, <1>e, <1>f DEF StoreHost
<1>8. CASE StoreSsd
  BY <1>8, <1>e, <1>f DEF StoreSsd
<1>9. CASE Commit
  BY <1>9, <1>e DEF Commit, OwnInv, MadeForGpu
<1>10. CASE StoreGpu
  <2>1. PICK r \in RawIds \ DOMAIN raws :
               /\ raws' = With(raws, r, RawInfo(moving.dest, moving.from.size))
               /\ moving' = [moving EXCEPT !.phase = "upload", !.raw = r]
    BY <1>10 DEF StoreGpu
  <2>2. moving # NoMove /\ moving.phase = "store" /\ UNCHANGED <<entry, idle, lent, lost, panic>>
    BY <1>10 DEF StoreGpu
  <2>3. /\ moving'.from = moving.from /\ moving'.phase = "upload" /\ moving'.raw = r
        /\ moving' # NoMove
    BY <1>a, <2>1, <2>2 DEF MoveRecord, NoMove
  <2>4. \A x : Has(moving, x)' <=> Has(moving, x) \/ x = r
    BY <2>2, <2>3 DEF Has
  <2>5. DOMAIN raws' = DOMAIN raws \cup {r}
    BY <2>1 DEF With
  <2>6. \A x : InIdle(x)' = InIdle(x) /\ InLost(x)' = InLost(x) /\ InEntry(x)' = InEntry(x)
    BY <2>2 DEF InIdle, InLost, InEntry, Has
  <2>7. \A x : Held(x) => Held(x)' /\ x # r
    BY <2>1, <2>5, <2>6 DEF Held
  <2>8. \A x : Dropped(x) => Dropped(x)'
    BY <2>2, <2>4, <2>7 DEF Dropped
  <2>9. AllOwned'
    BY <2>2, <2>3, <2>4, <2>5, <2>6 DEF OwnInv, AllOwned, Owned
  <2> QED
    BY <2>8, <2>9 DEF OwnStays
<1> QED
  BY <1>1, <1>2, <1>3, <1>4, <1>5, <1>6, <1>7, <1>8, <1>9, <1>10 DEF MigrationStep

\* The migration's new buffer is made for VRAM only.
LEMMA MadeForGpuStep == TypeOK /\ MadeForGpu /\ [Next]_vars => MadeForGpu'
<1> SUFFICES ASSUME TypeOK, MadeForGpu, [Next]_vars PROVE MadeForGpu'
  OBVIOUS
<1>a. ASSUME NEW id, NEW dest, TakeOut(id, dest) PROVE MadeForGpu'
  BY <1>a DEF TakeOut, MadeForGpu
<1>b. ASSUME moving' = NoMove \/ UNCHANGED moving PROVE MadeForGpu'
  BY <1>b DEF MadeForGpu
<1>c. moving # NoMove => moving \in MoveRecord
  BY DEF TypeOK
<1>1. CASE ReadStorage \/ StoreGpu \/ Upload
  BY <1>1, <1>c DEF ReadStorage, StoreGpu, Upload, MadeForGpu, MoveRecord
<1>2. CASE MigrationStep /\ ~ (ReadStorage \/ StoreGpu \/ Upload)
  BY <1>2, <1>a, <1>b, StagingEnds
     DEF MigrationStep, PassVictim, EvictVictim, EvictSucceeds, EvictFails, ReadGpuFails,
         ReadSsdFails, StoreHost, StoreHostFails, StoreSsd, StoreSsdFails, StoreGpuFails,
         UploadFails, Commit, PutBack, Lose
<1>3. CASE ClientStep
  BY <1>3, <1>a, <1>b
     DEF ClientStep, Acquire, AcquireWriteFails, PoolAcquirePanics, CloneHandle, DropHandle,
         DropPoisoned, PoolRelease, PoolReuse, MoveBegin, AcquireTemp, AcquireTempPanics,
         ReleaseTemp
<1> QED
  BY <1>1, <1>2, <1>3, <1>b DEF Next, vars

\* A migration that fails or panics drops what it has, and leaves all that is held;
\* the staging buffer a panic had in hand was nobody's.
LEMMA LossStep ==
  ASSUME TypeOK, LockInv, RawInv, [Next]_vars
  PROVE  \/ UNCHANGED lost /\ panic'.raw \in {panic.raw, NoRaw}
         \/ /\ moving # NoMove /\ moving' = NoMove /\ UNCHANGED <<entry, lent>>
            /\ lost' = With(lost, moving.id, moving)
            /\ \A x : Held(x) => Held(x)'
            /\ panic'.raw # NoRaw => Held(panic.raw)' /\ ~ Held(panic'.raw)
<1> DEFINE Stays == UNCHANGED lost /\ panic'.raw \in {panic.raw, NoRaw}
           Falls == /\ moving # NoMove /\ moving' = NoMove /\ UNCHANGED <<entry, lent>>
                    /\ lost' = With(lost, moving.id, moving)
                    /\ \A x : Held(x) => Held(x)'
                    /\ panic'.raw # NoRaw => Held(panic.raw)' /\ ~ Held(panic'.raw)
<1>a. moving # NoMove => panic.raw = NoRaw
  BY DEF LockInv, NoPanic
<1>b. UNCHANGED <<raws, idle>> => \A x : Held(x) => Held(x)'
  BY DEF Held, InIdle
<1>c. ASSUME NEW r \in RawIds, NEW back \in Back(r),
             TempAcquire(HostRam, moving.from.size, r, back)
      PROVE  /\ ~ Held(r) /\ (Loan(back) => Held(r)')
             /\ \A x : Held(x) => Held(x)'
  <2>1. IdleOwned /\ HostRam \in Gpus \cup {HostRam}
    BY DEF RawInv
  <2>2. ~ Held(r) /\ r \in DOMAIN raws' /\ (back = <<>> => ~ InIdle(r)')
    BY <1>c, <2>1, TempAcquireOwns
  <2>3. \A x : Held(x) => Held(x)'
    BY <1>c, <2>1, TempAcquireOwns
  <2> QED
    BY <2>2, <2>3 DEF Held, Loan
<1>1. CASE ReadSsdFails \/ StoreHostFails \/ StoreSsdFails \/ StoreGpuFails
  <2>1. /\ moving # NoMove /\ moving' = NoMove /\ lost' = With(lost, moving.id, moving)
        /\ UNCHANGED <<entry, lent, raws, idle, panic>>
    BY <1>1 DEF ReadSsdFails, StoreHostFails, StoreSsdFails, StoreGpuFails, Lose
  <2>2. Falls
    BY <1>a, <1>b, <2>1
  <2> QED
    BY <2>2
<1>2. CASE ReadGpuFails \/ UploadFails
  <2>1. moving # NoMove /\ (StagingFails \/ StagingPanics)
    BY <1>2 DEF ReadGpuFails, UploadFails
  <2>2. /\ moving' = NoMove /\ lost' = With(lost, moving.id, moving)
        /\ UNCHANGED <<entry, lent>>
    BY <2>1, StagingEnds
  <2>3. CASE StagingFails
    <3>1. panic'.raw = NoRaw /\ Staged
      BY <1>a, <2>1, <2>3 DEF StagingFails
    <3>2. PICK r \in RawIds : TempAcquire(HostRam, moving.from.size, r, <<r>>)
      BY <3>1 DEF Staged
    <3>3. <<r>> \in Back(r)
      BY DEF Back
    <3>4. \A x : Held(x) => Held(x)'
      BY <1>c, <3>2, <3>3
    <3>5. Falls
      BY <2>1, <2>2, <3>1, <3>4
    <3> QED
      BY <3>5
  <2>4. CASE TempPanics(HostRam, moving.from.size) /\ LosePanicking("staging", NoRaw)
    <3>1. panic'.raw = NoRaw
      BY <2>4 DEF LosePanicking
    <3>2. \A x : Held(x) => Held(x)'
      BY <2>4, TempPanicsOwns DEF RawInv
    <3>3. Falls
      BY <2>1, <2>2, <3>1, <3>2
    <3> QED
      BY <3>3
  <2>5. ASSUME NEW r \in RawIds, TempAcquire(HostRam, moving.from.size, r, <<>>),
               LosePanicking("copy_buffer_sync", r)
        PROVE  Falls
    <3>1. <<>> \in Back(r) /\ Loan(<<>>) /\ panic'.raw = r
      BY <2>5 DEF Back, Loan, LosePanicking
    <3>2. ~ Held(r) /\ Held(r)' /\ \A x : Held(x) => Held(x)'
      BY <1>c, <2>5, <3>1
    <3>3. Held(panic.raw)' /\ ~ Held(panic'.raw)
      BY <3>1, <3>2 DEF Held, InIdle
    <3> QED
      BY <2>1, <2>2, <3>2, <3>3
  <2> QED
    BY <2>1, <2>3, <2>4, <2>5 DEF StagingPanics
<1>3. CASE MigrationStep /\ ~ (ReadSsdFails \/ StoreHostFails \/ StoreSsdFails \/ StoreGpuFails
                               \/ ReadGpuFails \/ UploadFails)
  <2>1. Stays
    BY <1>3 DEF MigrationStep, PassVictim, EvictVictim, EvictSucceeds, EvictFails, TakeOut,
       ReadStorage, StoreHost, StoreSsd, StoreGpu, Upload, Commit
  <2> QED
    BY <2>1
<1>4. CASE ClientStep
  <2>1. Stays
    BY <1>4 DEF ClientStep, Acquire, AcquireWriteFails, PoolAcquirePanics, CloneHandle,
       DropHandle, DropPoisoned, PoolRelease, PoolReuse, MoveBegin, TakeOut, AcquireTemp,
       AcquireTempPanics, ReleaseTemp
  <2> QED
    BY <2>1
<1>5. UNCHANGED vars => Stays
  BY DEF vars
<1> QED
  BY <1>1, <1>2, <1>3, <1>4, <1>5 DEF Next

\* The inductive invariant of who owns what nobody can get at any more.
LEMMA OwnStep ==
  TypeOK /\ LockInv /\ RawInv /\ IdsApart /\ OwnInv /\ [Next]_vars => OwnInv'
<1> SUFFICES ASSUME TypeOK, LockInv, RawInv, IdsApart, OwnInv, [Next]_vars PROVE OwnInv'
  OBVIOUS
<1>1. OwnStays
  <2>1. CASE UNCHANGED vars
    <3>1. NoRaw \notin DOMAIN raws
      BY SizesAssumption DEF TypeOK
    <3> QED
      BY <2>1, <3>1, OwnSame DEF vars
  <2> QED
    BY <2>1, OwnClientStep, OwnMigrationStep DEF Next
<1>2. MadeForGpu'
  BY MadeForGpuStep DEF OwnInv
<1>3. AllOwned' /\ \A x : Dropped(x) => Dropped(x)'
  BY <1>1 DEF OwnStays
<1>4. CASE UNCHANGED lost /\ panic'.raw \in {panic.raw, NoRaw}
  <2>1. \A i \in DOMAIN lost : lost'[i] = lost[i] /\ \A x : Has(lost[i], x)' <=> Has(lost[i], x)
    BY <1>4 DEF Has
  <2>2. LostOwn'
    BY <1>3, <1>4, <2>1 DEF OwnInv, LostOwn, TwoBuffers
  <2>3. PanicOwns'
    <3>1. ASSUME panic'.raw # NoRaw
          PROVE  Dropped(panic.raw)' /\ \A i \in DOMAIN lost' : ~ Has(lost[i], panic.raw)'
      <4>1. /\ panic'.raw = panic.raw /\ Dropped(panic.raw)
            /\ \A i \in DOMAIN lost : ~ Has(lost[i], panic.raw)
        BY <1>4, <3>1 DEF OwnInv, PanicOwns
      <4> DEFINE r == panic.raw
      <4>2. \A x : x = r => Dropped(x)'
        BY <1>3, <4>1
      <4>3. \A x : x = r => \A i \in DOMAIN lost' : ~ Has(lost'[i], x)
        BY <1>4, <4>1
      <4> QED
        BY <4>1, <4>2, <4>3 DEF Dropped, Held, InIdle, Has
    <3> QED
      BY <3>1 DEF PanicOwns
  <2> QED
    BY <1>2, <1>3, <2>2, <2>3 DEF OwnInv
<1>5. CASE /\ moving # NoMove /\ moving' = NoMove /\ UNCHANGED <<entry, lent>>
           /\ lost' = With(lost, moving.id, moving)
           /\ \A x : Held(x) => Held(x)'
           /\ panic'.raw # NoRaw => Held(panic.raw)' /\ ~ Held(panic'.raw)
  <2>1. /\ DOMAIN lost' = DOMAIN lost \cup {moving.id} /\ lost'[moving.id] = moving
        /\ \A i \in DOMAIN lost : i # moving.id /\ lost'[i] = lost[i]
    BY <1>5 DEF With, IdsApart
  <2>2. \A x : Has(moving, x) => HeldAside(x)
    BY <1>5 DEF RawInv, MigrationOwns, Has
  <2>3. \A x : HeldAside(x) => Dropped(x)'
    BY <1>5 DEF Dropped
  <2>4. \A i \in DOMAIN lost : \A x : Has(lost[i], x) => Held(x) /\ ~ Has(moving, x)
    BY <1>5 DEF OwnInv, LostOwn, Dropped
  <2>5. ASSUME NEW i \in DOMAIN lost'
        PROVE  /\ TwoBuffers(lost'[i])
               /\ \A x : Has(lost'[i], x) =>
                    Dropped(x)' /\ \A j \in DOMAIN lost' : Has(lost'[j], x) => j = i
    <3>1. CASE i \in DOMAIN lost
      <4>1. /\ TwoBuffers(lost[i])
            /\ \A x : Has(lost[i], x) =>
                 Dropped(x) /\ \A j \in DOMAIN lost : Has(lost[j], x) => j = i
        BY <3>1 DEF OwnInv, LostOwn
      <4> QED
        BY <1>3, <2>1, <2>4, <3>1, <4>1
    <3>2. CASE i = moving.id
      <4>1. TwoBuffers(moving)
        BY <1>5 DEF RawInv, MigrationOwns, TwoBuffers
      <4>2. ASSUME NEW x, Has(moving, x)
            PROVE  Dropped(x)' /\ \A j \in DOMAIN lost' : Has(lost'[j], x) => j = i
        BY <2>1, <2>2, <2>3, <2>4, <3>2, <4>2
      <4> QED
        BY <2>1, <3>2, <4>1, <4>2
    <3> QED
      BY <2>1, <3>1, <3>2
  <2>6. LostOwn'
    BY <2>5 DEF LostOwn, TwoBuffers, Has
  <2>7. PanicOwns'
    <3> DEFINE r == panic'.raw
    <3>1. ASSUME r # NoRaw PROVE HeldAside(panic.raw)' /\ \A i \in DOMAIN lost' : ~ Has(lost'[i], r)
      <4>1. ~ Held(r) /\ Held(panic.raw)'
        BY <1>5, <3>1 DEF Held, InIdle
      <4>2. r \notin lent' /\ \A id \in DOMAIN entry' : OnGpu(id)' => entry'[id].raw # r
        BY <1>5, <4>1 DEF RawInv, EntriesOwn
      <4>3. ~ Has(moving, r) /\ \A i \in DOMAIN lost : ~ Has(lost[i], r)
        BY <2>2, <2>4, <4>1
      <4> QED
        BY <2>1, <4>1, <4>2, <4>3
    <3> QED
      BY <1>5, <3>1 DEF PanicOwns, Dropped, Has
  <2> QED
    BY <1>2, <1>3, <2>6, <2>7 DEF OwnInv
<1> QED
  BY <1>4, <1>5, LossStep

-----------------------------------------------------------------------------
(* Every registered raw buffer has one owner *)

ByEntry(o, r) == \E id \in DOMAIN entry : o = <<"storage", id>> /\ OnGpu(id) /\ entry[id].raw = r
ByRecord(o, r, id, m) ==
  \/ o = <<"storage", id>> /\ m.from.kind \in Gpus /\ m.from.raw = r
  \/ o = <<"made", id>> /\ m.phase \in {"upload", "commit"} /\ m.raw = r
ByMove(o, r) == moving # NoMove /\ ByRecord(o, r, moving.id, moving)
ByLost(o, r) == \E i \in DOMAIN lost : ByRecord(o, r, i, lost[i])
ByIdle(o, r) == \E p \in IdlePlaces : o = <<"idle", p>> /\ idle[p[1]][p[2]] = r
ByLent(o, r) == o = <<"lent", r>> /\ r \in lent
ByPanic(o, r) == o = <<"panic", r>> /\ panic.raw = r

OwnerOf(o, r) ==
  ByEntry(o, r) \/ ByMove(o, r) \/ ByLost(o, r) \/ ByIdle(o, r) \/ ByLent(o, r) \/ ByPanic(o, r)

\* The owners that RawOwners lists, by who they are.
LEMMA OwnersAre ==
  ASSUME IdsApart, NEW r
  PROVE  \A o : o \in RawOwners(r) <=> OwnerOf(o, r)
<1> DEFINE Stored == {i \in Charged : Storage(i).kind \in Gpus /\ Storage(i).raw = r}
           Made   == {i \in Aside : Taken(i).phase \in {"upload", "commit"} /\ Taken(i).raw = r}
<1>1. \A i \in DOMAIN entry : Storage(i) = entry[i] /\ i \notin Aside
  BY DEF Storage, Aside, InFlight, IdsApart
<1>2. moving # NoMove =>
        Storage(moving.id) = moving.from /\ Taken(moving.id) = moving /\ moving.id \in Aside
  BY DEF Storage, Taken, Aside, InFlight, IdsApart
<1>3. \A i \in DOMAIN lost : Storage(i) = lost[i].from /\ Taken(i) = lost[i] /\ i \in Aside
  BY DEF Storage, Taken, Aside, InFlight, IdsApart
<1>4. /\ Charged = DOMAIN entry \cup Aside
      /\ \A i \in Aside : i \in DOMAIN lost \/ (moving # NoMove /\ i = moving.id)
  BY DEF Charged, Aside, InFlight
<1>5. \A o : (\E i \in Stored : o = <<"storage", i>>) \/ (\E i \in Made : o = <<"made", i>>)
             <=> ByEntry(o, r) \/ ByMove(o, r) \/ ByLost(o, r)
  BY <1>1, <1>2, <1>3, <1>4 DEF ByEntry, ByMove, ByLost, ByRecord
<1>6. \A o : (\E p \in {q \in IdlePlaces : idle[q[1]][q[2]] = r} : o = <<"idle", p>>)
             <=> ByIdle(o, r)
  BY DEF ByIdle
<1>7. \A o : o \in RawOwners(r) <=>
        \/ \E i \in Stored : o = <<"storage", i>>
        \/ \E i \in Made : o = <<"made", i>>
        \/ \E p \in {q \in IdlePlaces : idle[q[1]][q[2]] = r} : o = <<"idle", p>>
        \/ ByLent(o, r) \/ ByPanic(o, r)
  BY DEF RawOwners, ByLent, ByPanic
<1> HIDE DEF Stored, Made
<1> QED
  BY <1>5, <1>6, <1>7 DEF OwnerOf

\* Every registered raw buffer has exactly one owner at all times, and nothing else
\* has one, whatever happens in between: creation, reuse and cleanup of temporary
\* buffers, staging, migrations, eviction, failures and panics, freed entries.
THEOREM RawOwnedByOne == Spec => []RawOwnedOnce
<1>1. TypeOK /\ RawInv /\ IdsApart /\ OwnInv => RawOwnedOnce
  <2> SUFFICES ASSUME TypeOK, RawInv, IdsApart, OwnInv, NEW r \in RawIds
               PROVE  IF r \in DOMAIN raws THEN \E o \in RawOwners(r) : RawOwners(r) = {o}
                      ELSE RawOwners(r) = {}
    BY DEF RawOwnedOnce
  <2>1. r # NoRaw
    BY SizesAssumption
  <2>2. \A o : ByEntry(o, r) => Held(r) /\ r \notin lent /\ InEntry(r)
    BY DEF ByEntry, RawInv, EntriesOwn, InEntry
  <2>3. \A o : ByMove(o, r) => HeldAside(r) /\ moving # NoMove /\ Has(moving, r)
    BY DEF ByMove, ByRecord, RawInv, MigrationOwns, Has
  <2>4. \A o : ByLost(o, r) => Dropped(r) /\ InLost(r)
    BY DEF ByLost, ByRecord, OwnInv, LostOwn, InLost, Has
  <2>5. \A o : ByIdle(o, r) => InIdle(r) /\ r \in DOMAIN raws
    BY IdleTyped DEF ByIdle, IdlePlaces, InIdle, In, RawInv, IdleOwned, Once
  <2>6. \A o : ByLent(o, r) => Held(r) /\ r \in lent
    BY DEF ByLent, RawInv
  <2>7. \A o : ByPanic(o, r) => Dropped(r) /\ ~ InLost(r)
    BY <2>1 DEF ByPanic, OwnInv, PanicOwns, InLost
  <2>8. \A o, p : ByEntry(o, r) /\ ByEntry(p, r) => o = p
    BY DEF ByEntry, RawInv, EntriesOwn
  <2>9. \A o, p : ByMove(o, r) /\ ByMove(p, r) => o = p
    BY DEF ByMove, ByRecord, RawInv, MigrationOwns
  <2>10. \A o, p : ByLost(o, r) /\ ByLost(p, r) => o = p
    BY DEF ByLost, ByRecord, OwnInv, LostOwn, TwoBuffers, Has
  <2>11. \A o, p : ByIdle(o, r) /\ ByIdle(p, r) => o = p
    <3> SUFFICES ASSUME NEW p \in IdlePlaces, NEW q \in IdlePlaces,
                        idle[p[1]][p[2]] = r, idle[q[1]][q[2]] = r
                 PROVE  p = q
      BY DEF ByIdle
    <3>1. /\ p[1] \in DOMAIN idle /\ p[2] \in DOMAIN idle[p[1]]
          /\ q[1] \in DOMAIN idle /\ q[2] \in DOMAIN idle[q[1]]
          /\ p = <<p[1], p[2]>> /\ q = <<q[1], q[2]>>
      BY IdleTyped DEF IdlePlaces
    <3>2. p[1] = q[1] /\ p[2] = q[2]
      BY <3>1 DEF RawInv, IdleOwned, Once
    <3> QED
      BY <3>1, <3>2
  <2>12. \A o, p : (ByLent(o, r) /\ ByLent(p, r)) \/ (ByPanic(o, r) /\ ByPanic(p, r)) => o = p
    BY DEF ByLent, ByPanic
  <2>13. /\ \A x : Held(x) => x \in DOMAIN raws /\ ~ InIdle(x)
         /\ \A x : HeldAside(x) => Held(x) /\ x \notin lent /\ ~ InEntry(x)
         /\ \A x : Dropped(x) => HeldAside(x) /\ (moving # NoMove => ~ Has(moving, x))
    BY DEF Held, InEntry, Dropped
  <2>14. \A o, p : OwnerOf(o, r) /\ OwnerOf(p, r) => o = p
    BY <2>2, <2>3, <2>4, <2>5, <2>6, <2>7, <2>8, <2>9, <2>10, <2>11, <2>12, <2>13
       DEF OwnerOf
  <2>15. \A o : OwnerOf(o, r) => r \in DOMAIN raws
    BY <2>2, <2>3, <2>4, <2>5, <2>6, <2>7, <2>13 DEF OwnerOf
  <2>16. ASSUME r \in DOMAIN raws PROVE \E o : OwnerOf(o, r)
    <3>1. InEntry(r) => ByEntry(<<"storage", CHOOSE id \in DOMAIN entry :
                                    OnGpu(id) /\ entry[id].raw = r>>, r)
      BY DEF InEntry, ByEntry
    <3>2. InLost(r) => \E o : ByLost(o, r)
      BY DEF InLost, ByLost, ByRecord, Has
    <3>3. moving # NoMove /\ Has(moving, r) => \E o : ByMove(o, r)
      BY DEF ByMove, ByRecord, Has
    <3>4. InIdle(r) => \E o : ByIdle(o, r)
      <4> SUFFICES ASSUME NEW k \in DOMAIN idle, NEW i \in DOMAIN idle[k], idle[k][i] = r
                   PROVE  \E o : ByIdle(o, r)
        BY DEF InIdle, In
      <4>1. <<k, i>> \in IdlePlaces
        BY DEF IdlePlaces
      <4>2. idle[<<k, i>>[1]][<<k, i>>[2]] = r
        OBVIOUS
      <4>3. ByIdle(<<"idle", <<k, i>>>>, r)
        BY <4>1, <4>2 DEF ByIdle
      <4> QED
        BY <4>3
    <3>5. (r \in lent => ByLent(<<"lent", r>>, r)) /\ (panic.raw = r => ByPanic(<<"panic", r>>, r))
      BY DEF ByLent, ByPanic
    <3>6. Owned(r)
      BY <2>16 DEF OwnInv, AllOwned
    <3> QED
      BY <3>1, <3>2, <3>3, <3>4, <3>5, <3>6 DEF Owned, OwnerOf
  <2> QED
    BY <2>14, <2>15, <2>16, OwnersAre
<1>2. Init => IdsApart
  BY DEF Init, IdsApart
<1>3. ExecutorInv /\ RawInv /\ IdsApart /\ OwnInv /\ [Next]_vars
        => (RawInv /\ IdsApart /\ OwnInv)'
  BY RawStep, IdsApartStep, OwnStep DEF ExecutorInv
<1> QED
  BY <1>1, <1>2, <1>3, ExecutorInit, ExecutorStep, RawInvInit, OwnInit, PTL
     DEF Spec, ExecutorInv

HIDE DEF OnGpu, HeldAside, OldOnGpu, NewOnGpu

-----------------------------------------------------------------------------
(* The counters of the pools.  They are exact: each is the sum of the      *)
(* sizes of what lives in the pool.                                        *)

-----------------------------------------------------------------------------
(* The sizes of the members of a map, added up *)

Block(g, x)   == {x} \X (1 .. g[x].size)
OfKind(g, k)  == {y \in DOMAIN g : g[y].kind = k}
CellsOf(g, k) == UNION {Block(g, x) : x \in OfKind(g, k)}

\* What the members of kind k of g take of the pool of that kind.
Amount(g, k) == Cardinality(CellsOf(g, k))

Part(v, k) == IF v.kind = k THEN v.size ELSE 0

Sized(g) == IsFiniteSet(DOMAIN g) /\ \A x \in DOMAIN g : g[x].size \in Nat

\* A member takes as many cells as its size says.
LEMMA BlockSize ==
  ASSUME NEW g, NEW x, g[x].size \in Nat
  PROVE  IsFiniteSet(Block(g, x)) /\ Cardinality(Block(g, x)) = g[x].size
<1> DEFINE n == g[x].size
<1> HIDE DEF n
<1>1. n \in Nat /\ Block(g, x) = {x} \X (1 .. n)
  BY DEF Block, n
<1>2. IsFiniteSet({x}) /\ Cardinality({x}) = 1
  BY FS_Singleton
<1>3. IsFiniteSet(1 .. n) /\ Cardinality(1 .. n) = n
  BY <1>1, FS_Interval
<1>4. /\ IsFiniteSet({x} \X (1 .. n))
      /\ Cardinality({x} \X (1 .. n)) = Cardinality({x}) * Cardinality(1 .. n)
  <2> DEFINE I == 1 .. n
  <2> HIDE DEF I
  <2>1. IsFiniteSet(I)
    BY <1>3 DEF I
  <2>2. IsFiniteSet({x} \X I) /\ Cardinality({x} \X I) = Cardinality({x}) * Cardinality(I)
    BY <1>2, <2>1, FS_Product
  <2> QED
    BY <2>2 DEF I
<1>5. 1 * n = n
  BY <1>1
<1> QED
  BY <1>1, <1>2, <1>3, <1>4, <1>5 DEF n

\* A cell belongs to one member.
LEMMA CellOwner ==
  ASSUME NEW g, NEW k, NEW c
  PROVE  c \in CellsOf(g, k) <=>
           \E x \in OfKind(g, k) : c \in Block(g, x) /\ c[1] = x
<1>1. \A x : c \in Block(g, x) => c[1] = x
  BY DEF Block
<1> QED
  BY <1>1 DEF CellsOf

\* The cells of one kind are finitely many, so the sum of the sizes is a number.
LEMMA AmountType ==
  ASSUME NEW g, Sized(g), NEW k
  PROVE  IsFiniteSet(CellsOf(g, k)) /\ Amount(g, k) \in Nat
<1> DEFINE Q == OfKind(g, k)
           C == {Block(g, x) : x \in Q}
<1>1. IsFiniteSet(Q)
  BY FS_Subset DEF Sized, OfKind
<1>2. \A x \in Q : g[x].size \in Nat
  BY DEF Sized, OfKind
<1>3. IsFiniteSet(C)
  <2> DEFINE f == [x \in Q |-> Block(g, x)]
  <2> HIDE DEF Q
  <2>1. f \in Surjection(Q, C)
    BY DEF Surjection
  <2> HIDE DEF f, C
  <2> QED
    BY <1>1, <2>1, FS_Surjection
<1>4. \A T \in C : IsFiniteSet(T)
  BY <1>2, BlockSize
<1>5. IsFiniteSet(UNION C)
  <2> HIDE DEF C
  <2> QED
    BY <1>3, <1>4, FS_UNION
<1> QED
  BY <1>5, FS_CardinalityType DEF CellsOf, Amount

\* Maps that agree on kinds and sizes take the same.
LEMMA AmountSame ==
  ASSUME NEW g, NEW h, DOMAIN g = DOMAIN h,
         \A x \in DOMAIN g : g[x].kind = h[x].kind /\ g[x].size = h[x].size, NEW k
  PROVE  Amount(g, k) = Amount(h, k)
<1>1. OfKind(g, k) = OfKind(h, k) /\ \A x \in OfKind(g, k) : Block(g, x) = Block(h, x)
  BY DEF OfKind, Block
<1>2. \A c : c \in CellsOf(g, k) <=> c \in CellsOf(h, k)
  BY <1>1 DEF CellsOf
<1> QED
  BY <1>2 DEF Amount

\* One member more takes its size more, of the pool of its kind.
LEMMA AmountMore ==
  ASSUME NEW g, NEW h, NEW x \in DOMAIN h, Sized(h), DOMAIN g = DOMAIN h \ {x},
         \A y \in DOMAIN g : g[y].kind = h[y].kind /\ g[y].size = h[y].size, NEW k
  PROVE  /\ Sized(g)
         /\ Amount(h, k) = Amount(g, k) + Part(h[x], k)
<1>1. Sized(g)
  <2>1. IsFiniteSet(DOMAIN g)
    BY FS_Subset DEF Sized
  <2> QED
    BY <2>1 DEF Sized
<1>2. Amount(g, k) \in Nat /\ IsFiniteSet(CellsOf(g, k))
  BY <1>1, AmountType
<1>3. \A y \in DOMAIN g : Block(g, y) = Block(h, y)
  BY DEF Block
<1>4. CASE h[x].kind # k
  <2>1. OfKind(g, k) = OfKind(h, k)
    BY <1>4 DEF OfKind
  <2>2. CellsOf(g, k) = CellsOf(h, k)
    <3>1. \A y \in OfKind(g, k) : Block(g, y) = Block(h, y)
      BY <1>3 DEF OfKind
    <3>2. \A c : c \in CellsOf(g, k) <=> c \in CellsOf(h, k)
      BY <2>1, <3>1 DEF CellsOf
    <3> QED
      BY <3>2
  <2> QED
    BY <1>1, <1>2, <1>4, <2>2 DEF Amount, Part
<1>5. CASE h[x].kind = k
  <2>1. OfKind(h, k) = OfKind(g, k) \cup {x} /\ x \notin OfKind(g, k)
    BY <1>5 DEF OfKind
  <2>2. \A y \in OfKind(g, k) : Block(g, y) = Block(h, y)
    BY <1>3 DEF OfKind
  <2>3. CellsOf(h, k) = CellsOf(g, k) \cup Block(h, x)
    <3>1. \A c : c \in CellsOf(h, k) <=> c \in CellsOf(g, k) \cup Block(h, x)
      BY <2>1, <2>2 DEF CellsOf
    <3> QED
      BY <3>1
  <2>4. CellsOf(g, k) \cap Block(h, x) = {}
    <3>1. \A c \in Block(h, x) : c[1] = x
      BY DEF Block
    <3>2. \A c \in CellsOf(g, k) : c[1] \in OfKind(g, k)
      BY CellOwner
    <3> QED
      BY <2>1, <3>1, <3>2
  <2>5. IsFiniteSet(Block(h, x)) /\ Cardinality(Block(h, x)) = h[x].size /\ h[x].size \in Nat
    BY BlockSize DEF Sized
  <2>6. Cardinality(CellsOf(g, k) \cup Block(h, x)) =
          Cardinality(CellsOf(g, k)) + h[x].size - Cardinality({})
    BY <1>2, <2>4, <2>5, FS_Union
  <2>7. Cardinality({}) = 0
    BY FS_EmptySet
  <2> QED
    BY <1>1, <1>2, <1>5, <2>3, <2>5, <2>6, <2>7 DEF Amount, Part
<1> QED
  BY <1>4, <1>5

\* A map parted in two.
LEMMA AmountParted ==
  ASSUME NEW h, NEW a, NEW b, Sized(h),
         DOMAIN a \cup DOMAIN b = DOMAIN h, DOMAIN a \cap DOMAIN b = {},
         \A x \in DOMAIN a : a[x] = h[x], \A x \in DOMAIN b : b[x] = h[x], NEW k
  PROVE  /\ Sized(a) /\ Sized(b)
         /\ Amount(h, k) = Amount(a, k) + Amount(b, k)
<1>1. Sized(a) /\ Sized(b)
  <2>1. DOMAIN a \in SUBSET DOMAIN h /\ DOMAIN b \in SUBSET DOMAIN h
    OBVIOUS
  <2>2. IsFiniteSet(DOMAIN a) /\ IsFiniteSet(DOMAIN b)
    BY <2>1, FS_Subset DEF Sized
  <2> QED
    BY <2>2 DEF Sized
<1>2. /\ OfKind(h, k) = OfKind(a, k) \cup OfKind(b, k)
      /\ OfKind(a, k) \cap OfKind(b, k) = {}
      /\ \A x \in OfKind(a, k) : Block(a, x) = Block(h, x)
      /\ \A x \in OfKind(b, k) : Block(b, x) = Block(h, x)
  BY DEF OfKind, Block
<1>3. CellsOf(h, k) = CellsOf(a, k) \cup CellsOf(b, k)
  <2>1. \A c : c \in CellsOf(h, k) <=> c \in CellsOf(a, k) \cup CellsOf(b, k)
    BY <1>2 DEF CellsOf
  <2> QED
    BY <2>1
<1>4. CellsOf(a, k) \cap CellsOf(b, k) = {}
  BY <1>2, CellOwner
<1>5. /\ IsFiniteSet(CellsOf(a, k)) /\ Amount(a, k) \in Nat
      /\ IsFiniteSet(CellsOf(b, k)) /\ Amount(b, k) \in Nat
  BY <1>1, AmountType
<1>6. Cardinality(CellsOf(a, k) \cup CellsOf(b, k)) = Amount(a, k) + Amount(b, k) - 0
  <2>1. Cardinality({}) = 0
    BY FS_EmptySet
  <2> DEFINE A == CellsOf(a, k)
             B == CellsOf(b, k)
  <2>2. IsFiniteSet(A) /\ IsFiniteSet(B) /\ A \cap B = {}
    BY <1>4, <1>5
  <2> HIDE DEF A, B
  <2>3. Cardinality(A \cup B) = Cardinality(A) + Cardinality(B) - Cardinality({})
    BY <2>2, FS_Union
  <2> QED
    BY <2>1, <2>3 DEF A, B, Amount
<1>7. Amount(h, k) = Amount(a, k) + Amount(b, k)
  BY <1>3, <1>5, <1>6 DEF Amount
<1> QED
  BY <1>1, <1>7

\* The cells of g with the same mark on every owner: as many as without.
Marked(g, k, mark) == UNION {{<<mark, x>>} \X (1 .. g[x].size) : x \in OfKind(g, k)}

\* Marking every cell with the map it comes from changes no amount.
LEMMA MarkedAmount ==
  ASSUME NEW g, Sized(g), NEW k, NEW mark
  PROVE  /\ IsFiniteSet(Marked(g, k, mark))
         /\ Cardinality(Marked(g, k, mark)) = Amount(g, k)
<1> DEFINE M == Marked(g, k, mark)
           C == CellsOf(g, k)
           F == [c \in C |-> <<<<mark, c[1]>>, c[2]>>]
<1>1. \A c : c \in C <=> \E x \in OfKind(g, k) : \E i \in 1 .. g[x].size : c = <<x, i>>
  BY DEF CellsOf, Block
<1>2. \A m : m \in M <=>
        \E x \in OfKind(g, k) : \E i \in 1 .. g[x].size : m = <<<<mark, x>>, i>>
  BY DEF Marked
<1> HIDE DEF M, C
<1>3. F \in [C -> M]
  <2>1. ASSUME NEW c \in C PROVE <<<<mark, c[1]>>, c[2]>> \in M
    BY <1>1, <1>2
  <2> QED
    BY <2>1
<1>4. \A c, d \in C : F[c] = F[d] => c = d
  BY <1>1
<1>5. ASSUME NEW m \in M PROVE \E c \in C : F[c] = m
  <2>1. PICK x \in OfKind(g, k) : \E i \in 1 .. g[x].size : m = <<<<mark, x>>, i>>
    BY <1>2
  <2>2. PICK i \in 1 .. g[x].size : m = <<<<mark, x>>, i>>
    BY <2>1
  <2>3. <<x, i>> \in C
    BY <1>1
  <2> QED
    BY <2>2, <2>3
<1>6. F \in Bijection(C, M)
  <2> HIDE DEF F
  <2> QED
    BY <1>3, <1>4, <1>5 DEF Bijection, Injection, IsInjective, Surjection
<1>7. ExistsBijection(C, M)
  BY <1>6 DEF ExistsBijection
<1>8. IsFiniteSet(M) /\ Cardinality(M) = Cardinality(C)
  BY <1>7, AmountType, FS_Bijection DEF C
<1> QED
  BY <1>8 DEF M, C, Amount

PartOf(g, x, k) == IF x \in DOMAIN g THEN Part(g[x], k) ELSE 0

\* Maps that differ in one member differ by what that member takes.
LEMMA AmountBut ==
  ASSUME NEW g, NEW h, Sized(g), Sized(h), NEW x, DOMAIN g \ {x} = DOMAIN h \ {x},
         \A y \in DOMAIN g \ {x} : g[y].kind = h[y].kind /\ g[y].size = h[y].size,
         NEW k
  PROVE  \E n \in Nat : /\ Amount(g, k) = n + PartOf(g, x, k)
                        /\ Amount(h, k) = n + PartOf(h, x, k)
<1> DEFINE r == Restrict(g, DOMAIN g \ {x})
<1>1. /\ DOMAIN r = DOMAIN g \ {x} /\ DOMAIN r = DOMAIN h \ {x}
      /\ \A y \in DOMAIN r : r[y].kind = g[y].kind /\ r[y].size = g[y].size
      /\ \A y \in DOMAIN r : r[y].kind = h[y].kind /\ r[y].size = h[y].size
  BY DEF Restrict
<1> HIDE DEF r
<1>2. Amount(g, k) = Amount(r, k) + PartOf(g, x, k) /\ Amount(r, k) \in Nat
  <2>1. CASE x \in DOMAIN g
    <3>1. Sized(r) /\ Amount(g, k) = Amount(r, k) + Part(g[x], k)
      BY <1>1, <2>1, AmountMore
    <3> QED
      BY <2>1, <3>1, AmountType DEF PartOf
  <2>2. CASE x \notin DOMAIN g
    <3>1. DOMAIN r = DOMAIN g
      BY <1>1, <2>2
    <3>2. Amount(r, k) = Amount(g, k) /\ Amount(g, k) \in Nat
      BY <1>1, <3>1, AmountSame, AmountType
    <3> QED
      BY <2>2, <3>2 DEF PartOf
  <2> QED
    BY <2>1, <2>2
<1>3. Amount(h, k) = Amount(r, k) + PartOf(h, x, k)
  <2>1. CASE x \in DOMAIN h
    BY <1>1, <2>1, AmountMore DEF PartOf
  <2>2. CASE x \notin DOMAIN h
    <3>1. DOMAIN r = DOMAIN h
      BY <1>1, <2>2
    <3>2. Amount(r, k) = Amount(h, k) /\ Amount(h, k) \in Nat
      BY <1>1, <3>1, AmountSame, AmountType
    <3> QED
      BY <2>2, <3>2 DEF PartOf
  <2> QED
    BY <2>1, <2>2
<1> QED
  BY <1>2, <1>3

-----------------------------------------------------------------------------
(* What the pools are charged for *)

\* The entries whose storage is not a registered raw buffer.
Matrices == {id \in Charged : Storage(id).kind \notin Gpus}
Store    == [id \in Matrices |-> Storage(id)]

\* Both maps the accounts speak of are finite and have sizes.
LEMMA StoreSized ==
  ASSUME TypeOK
  PROVE  Sized(Store) /\ Sized(raws)
<1>1. Sized(raws)
  BY SizesAssumption, FS_Subset DEF TypeOK, Sized, RawRecord
<1>2. ASSUME NEW id \in Charged PROVE Storage(id) \in EntryRecord /\ id \in MatrixIds
  BY <1>2 DEF TypeOK, Charged, InFlight, Storage, MoveRecord
<1>3. IsFiniteSet(Matrices)
  BY <1>2, SizesAssumption, FS_Subset DEF Matrices
<1>4. \A id \in Matrices : Storage(id).size \in Nat
  BY <1>2, SizesAssumption DEF Matrices, EntryRecord
<1> QED
  BY <1>1, <1>3, <1>4 DEF Sized, Store

\* The cells of a pool are those of its entries and those of its raw buffers.
LEMMA CellsCounted ==
  ASSUME TypeOK, NEW k
  PROVE  Cardinality(Cells(k)) = Amount(Store, k) + Amount(raws, k)
<1> DEFINE A == Marked(Store, k, "matrix")
           B == Marked(raws, k, "raw")
<1>1. Owners(k) = {<<"matrix", id>> : id \in OfKind(Store, k)}
                  \cup {<<"raw", r>> : r \in OfKind(raws, k)}
  BY DEF Owners, OfKind, Store, Matrices
<1>2. /\ \A id \in OfKind(Store, k) : OwnedSize(<<"matrix", id>>) = Store[id].size
      /\ \A r : OwnedSize(<<"raw", r>>) = raws[r].size
  BY DEF OwnedSize, OfKind, Store
<1>3. Cells(k) = A \cup B
  <2>1. \A c : c \in Cells(k) <=> \E o \in Owners(k) : c \in {o} \X (1 .. OwnedSize(o))
    BY DEF Cells
  <2>2. \A c : c \in A <=> \E id \in OfKind(Store, k) :
                             c \in {<<"matrix", id>>} \X (1 .. Store[id].size)
    BY DEF Marked
  <2>3. \A c : c \in B <=> \E r \in OfKind(raws, k) :
                             c \in {<<"raw", r>>} \X (1 .. raws[r].size)
    BY DEF Marked
  <2> HIDE DEF A, B
  <2>4. \A c : c \in Cells(k) <=> c \in A \cup B
    BY <1>1, <1>2, <2>1, <2>2, <2>3
  <2> QED
    BY <2>4
<1>4. A \cap B = {}
  <2>1. \A c \in A : c[1][1] = "matrix"
    BY DEF Marked
  <2>2. \A c \in B : c[1][1] = "raw"
    BY DEF Marked
  <2> QED
    BY <2>1, <2>2
<1>5. /\ IsFiniteSet(A) /\ Cardinality(A) = Amount(Store, k) /\ Amount(Store, k) \in Nat
      /\ IsFiniteSet(B) /\ Cardinality(B) = Amount(raws, k) /\ Amount(raws, k) \in Nat
  BY StoreSized, MarkedAmount, AmountType
<1> HIDE DEF A, B
<1>6. Cardinality(A \cup B) = Cardinality(A) + Cardinality(B) - Cardinality({})
  BY <1>4, <1>5, FS_Union
<1>7. Cardinality({}) = 0
  BY FS_EmptySet
<1> QED
  BY <1>3, <1>5, <1>6, <1>7

-----------------------------------------------------------------------------
(* Temporary buffers *)

\* cleanup gives back what the idle buffers took, and the rest stays charged.
LEMMA CleanedCharges ==
  ASSUME TypeOK, NEW p \in Pools, used[p] >= Amount(raws, p)
  PROVE  /\ CleanedUsed[p] - Amount(CleanedRaws, p) = used[p] - Amount(raws, p)
         /\ Sized(CleanedRaws) /\ CleanedUsed[p] \in Nat
<1> DEFINE I == Restrict(raws, DOMAIN raws \cap IdleRaws)
<1>1. Sized(raws)
  BY StoreSized
<1>2. /\ Sized(CleanedRaws) /\ Sized(I)
      /\ Amount(raws, p) = Amount(CleanedRaws, p) + Amount(I, p)
  <2>1. /\ DOMAIN CleanedRaws = DOMAIN raws \ IdleRaws
        /\ DOMAIN I = DOMAIN raws \cap IdleRaws
        /\ \A x \in DOMAIN CleanedRaws : CleanedRaws[x] = raws[x]
        /\ \A x \in DOMAIN I : I[x] = raws[x]
    BY DEF CleanedRaws, Restrict
  <2> HIDE DEF I
  <2>2. /\ DOMAIN CleanedRaws \cup DOMAIN I = DOMAIN raws
        /\ DOMAIN CleanedRaws \cap DOMAIN I = {}
    BY <2>1
  <2> QED
    BY <1>1, <2>1, <2>2, AmountParted
<1>3. Cardinality(IdleCells(p)) = Amount(I, p)
  <2>1. DOMAIN I = DOMAIN raws \cap IdleRaws /\ \A x \in DOMAIN I : I[x] = raws[x]
    BY DEF Restrict
  <2> HIDE DEF I
  <2>2. OfKind(I, p) = {q \in IdleRaws \cap DOMAIN raws : raws[q].kind = p}
    BY <2>1 DEF OfKind
  <2>3. \A x \in OfKind(I, p) : Block(I, x) = {x} \X (1 .. raws[x].size)
    BY <2>1 DEF OfKind, Block
  <2>4. \A c : c \in CellsOf(I, p) <=> c \in IdleCells(p)
    BY <2>2, <2>3 DEF CellsOf, IdleCells
  <2>5. CellsOf(I, p) = IdleCells(p)
    BY <2>4
  <2> QED
    BY <2>5 DEF Amount
<1> HIDE DEF I
<1>4. Amount(CleanedRaws, p) \in Nat /\ Amount(I, p) \in Nat /\ used[p] \in Nat
  BY <1>2, AmountType DEF TypeOK
<1>5. CleanedUsed[p] = Monus(used[p], Amount(I, p))
  BY <1>3 DEF CleanedUsed
<1> QED
  BY <1>2, <1>4, <1>5 DEF Monus

\* A new raw buffer takes its size of its pool.
LEMMA RegisterCharges ==
  ASSUME NEW g, Sized(g), NEW r, r \notin DOMAIN g, NEW k, NEW e \in Nat, NEW p
  PROVE  Amount(With(g, r, RawInfo(k, e)), p) = Amount(g, p) + IF p = k THEN e ELSE 0
<1> DEFINE h == With(g, r, RawInfo(k, e))
<1>1. /\ DOMAIN h = DOMAIN g \cup {r} /\ h[r].kind = k /\ h[r].size = e
      /\ \A y \in DOMAIN g : h[y] = g[y]
  BY DEF With, RawInfo
<1> HIDE DEF h
<1>2. Sized(h)
  <2>1. IsFiniteSet(DOMAIN g \cup {r})
    BY FS_AddElement DEF Sized
  <2> QED
    BY <1>1, <2>1 DEF Sized
<1>3. Amount(h, p) = Amount(g, p) + Part(h[r], p)
  BY <1>1, <1>2, AmountMore
<1> QED
  BY <1>1, <1>3 DEF Part, h

\* temp_pool.acquire charges what it registers and gives back what its cleanup
\* unregisters; the buffers in use keep their kinds and sizes.
LEMMA TempAcquireCharges ==
  ASSUME TypeOK, NEW k, NEW e \in Nat, NEW r, NEW back, TempAcquire(k, e, r, back),
         NEW p \in Pools, used[p] >= Amount(raws, p)
  PROVE  used'[p] - Amount(raws', p) = used[p] - Amount(raws, p)
<1>0. used \in [Pools -> Nat] /\ Sized(raws) /\ Amount(raws, p) \in Nat
  BY StoreSized, AmountType DEF TypeOK
<1>1. CASE TempReuse(k, e, r, back)
  BY <1>1 DEF TempReuse
<1>2. CASE TempCreate(k, e, r, back)
  <2>1. /\ raws' = With(raws, r, RawInfo(k, e)) /\ r \notin DOMAIN raws
        /\ used'[p] = used[p] + IF p = k THEN e ELSE 0
    BY <1>0, <1>2 DEF TempCreate, Reserve
  <2>2. Amount(raws', p) = Amount(raws, p) + IF p = k THEN e ELSE 0
    BY <1>0, <2>1, RegisterCharges
  <2> QED
    BY <1>0, <2>1, <2>2
<1>3. CASE TempCleanThenCreate(k, e, r, back)
  <2>1. /\ CleanedUsed[p] - Amount(CleanedRaws, p) = used[p] - Amount(raws, p)
        /\ Sized(CleanedRaws) /\ CleanedUsed[p] \in Nat
    BY CleanedCharges
  <2>2. /\ raws' = With(CleanedRaws, r, RawInfo(k, e)) /\ r \notin DOMAIN CleanedRaws
        /\ used'[p] = CleanedUsed[p] + IF p = k THEN e ELSE 0
    BY <1>3, <2>1 DEF TempCleanThenCreate, CleanedUsed
  <2>3. Amount(raws', p) = Amount(CleanedRaws, p) + IF p = k THEN e ELSE 0
    BY <2>1, <2>2, RegisterCharges
  <2>4. Amount(CleanedRaws, p) \in Nat
    BY <2>1, AmountType
  <2> QED
    BY <1>0, <2>1, <2>2, <2>3, <2>4
<1> QED
  BY <1>1, <1>2, <1>3 DEF TempAcquire

\* A temporary buffer that cannot be created gives back what the cleanup frees and
\* charges nothing.
LEMMA TempPanicsCharges ==
  ASSUME TypeOK, NEW k, NEW e, TempPanics(k, e), NEW p \in Pools,
         used[p] >= Amount(raws, p)
  PROVE  used'[p] - Amount(raws', p) = used[p] - Amount(raws, p)
<1>1. CASE k \in Pools /\ ~ CanAllocate(k, e)
  BY <1>1, CleanedCharges DEF TempPanics
<1>2. CASE ~ (k \in Pools /\ ~ CanAllocate(k, e))
  BY <1>2 DEF TempPanics
<1> QED
  BY <1>1, <1>2

-----------------------------------------------------------------------------
(* What backs an entry in VRAM, and the identities a migration works on *)

USE DEF OnGpu, HeldAside, OldOnGpu, NewOnGpu

Is(x, k, e) == raws[x].kind = k /\ raws[x].size = e

\* The raw buffer of an entry in VRAM was registered with its kind and size.
Backed(e) == e.kind \in Gpus => Is(e.raw, e.kind, e.size)

BackingInv ==
  /\ \A id \in DOMAIN entry : Backed(entry[id])
  /\ moving # NoMove =>
       /\ Backed(moving.from)
       /\ NewOnGpu => moving.dest \in Gpus /\ Is(moving.raw, moving.dest, moving.from.size)

\* What a step may do to the registry of raw buffers.
RawsStep ==
  \/ UNCHANGED raws
  \/ \E r \in RawIds \ DOMAIN raws : \E v : raws' = With(raws, r, v)
  \/ \E r : raws' = Without(raws, r)
  \/ raws' = CleanedRaws
  \/ \E r \in RawIds \ DOMAIN CleanedRaws : \E v : raws' = With(CleanedRaws, r, v)

\* A temporary buffer changes the registry in one of the ways of RawsStep.
LEMMA TempRaws ==
  ASSUME NEW k, NEW e, NEW r, NEW back, TempAcquire(k, e, r, back) \/ TempPanics(k, e)
  PROVE  RawsStep
<1>1. TempReuse(k, e, r, back) => RawsStep
  BY DEF TempReuse, RawsStep
<1>2. TempCreate(k, e, r, back) => RawsStep
  BY DEF TempCreate, RawsStep
<1>3. TempCleanThenCreate(k, e, r, back) => RawsStep
  BY DEF TempCleanThenCreate, RawsStep
<1>4. TempPanics(k, e) => RawsStep
  BY DEF TempPanics, RawsStep
<1> QED
  BY <1>1, <1>2, <1>3, <1>4 DEF TempAcquire

\* So does every step of the executor.
LEMMA NextRaws == [Next]_vars => RawsStep
<1> SUFFICES ASSUME [Next]_vars PROVE RawsStep
  OBVIOUS
<1>1. CASE ClientStep
  <2>1. ASSUME NEW id \in MatrixIds, NEW k \in Pools, NEW e \in Sizes,
               NEW high \in BOOLEAN, Acquire(id, k, e, high)
        PROVE  RawsStep
    BY <2>1 DEF Acquire, RawsStep
  <2>2. ASSUME NEW id \in MatrixIds, DropHandle(id) PROVE RawsStep
    BY <2>2 DEF DropHandle, FreeStorage, RawsStep
  <2>3. ASSUME NEW k, NEW e, NEW r, AcquireTemp(k, e, r) PROVE RawsStep
    BY <2>3, TempRaws DEF AcquireTemp
  <2>4. ASSUME NEW id \in MatrixIds, NEW k, MoveBegin(id, k) PROVE RawsStep
    BY <2>4 DEF MoveBegin, TakeOut, RawsStep
  <2>5. UNCHANGED raws => RawsStep
    BY DEF RawsStep
  <2> QED
    BY <1>1, <2>1, <2>2, <2>3, <2>4, <2>5
       DEF ClientStep, AcquireWriteFails, CloneHandle, DropPoisoned, PoolRelease,
           PoolReuse, AcquireTempPanics, PoolAcquirePanics, ReleaseTemp
<1>2. CASE MigrationStep
  <2>1. UNCHANGED raws => RawsStep
    BY DEF RawsStep
  <2>2. ASSUME NEW base, ReleaseOld(raws, base) PROVE RawsStep
    BY <2>2 DEF ReleaseOld, RawsStep
  <2>3. ReadStorage \/ Upload => RawsStep
    BY <2>1, TempRaws DEF ReadStorage, Upload, Staged
  <2>4. ReadGpuFails \/ UploadFails => RawsStep
    BY StagingEnds, TempRaws DEF ReadGpuFails, UploadFails
  <2>5. StoreGpu => RawsStep
    BY DEF StoreGpu, RawsStep
  <2>6. StoreHost \/ StoreSsd \/ Commit => RawsStep
    BY <2>2 DEF StoreHost, StoreSsd, Commit
  <2> QED
    BY <1>2, <2>1, <2>3, <2>4, <2>5, <2>6
       DEF MigrationStep, PassVictim, EvictVictim, EvictSucceeds, EvictFails, TakeOut,
           ReadSsdFails, StoreHostFails, StoreSsdFails, StoreGpuFails
<1>3. CASE UNCHANGED vars
  BY <1>3 DEF vars, RawsStep
<1> QED
  BY <1>1, <1>2, <1>3 DEF Next

\* A buffer that stays in use stays what it was registered as.
LEMMA HeldKept ==
  ASSUME [Next]_vars, NEW x, Held(x), Held(x)'
  PROVE  raws'[x] = raws[x]
<1>1. RawsStep /\ x \in DOMAIN raws /\ x \in DOMAIN raws'
  BY NextRaws DEF Held
<1>2. x \in DOMAIN CleanedRaws /\ CleanedRaws[x] = raws[x]
  <2>1. x \notin IdleRaws
    BY DEF IdleRaws, Held, InIdle, In
  <2> QED
    BY <1>1, <2>1 DEF CleanedRaws, Restrict
<1>3. ASSUME NEW r \in RawIds \ DOMAIN CleanedRaws, NEW v, raws' = With(CleanedRaws, r, v)
      PROVE  raws'[x] = raws[x]
  BY <1>2, <1>3 DEF With
<1>4. ASSUME NEW r \in RawIds \ DOMAIN raws, NEW v, raws' = With(raws, r, v)
      PROVE  raws'[x] = raws[x]
  BY <1>1, <1>4 DEF With
<1>5. ASSUME NEW r, raws' = Without(raws, r)
      PROVE  raws'[x] = raws[x]
  BY <1>1, <1>5 DEF Without, Restrict
<1> QED
  BY <1>1, <1>2, <1>3, <1>4, <1>5 DEF RawsStep

\* Entries in VRAM stay backed by what was registered for them.
LEMMA BackingStep ==
  TypeOK /\ RawInv /\ RawInv' /\ BackingInv /\ [Next]_vars => BackingInv'
<1> SUFFICES ASSUME TypeOK, RawInv, RawInv', BackingInv, [Next]_vars PROVE BackingInv'
  OBVIOUS
<1> USE DEF Is, Backed
<1>a. /\ \A id \in DOMAIN entry : entry[id] \in EntryRecord
      /\ moving # NoMove => moving \in MoveRecord /\ moving.from \in EntryRecord
  BY DEF TypeOK, MoveRecord
<1>b. /\ \A id \in DOMAIN entry : OnGpu(id) => Held(entry[id].raw)
      /\ \A id \in DOMAIN entry' : OnGpu(id)' => Held(entry[id].raw)'
      /\ moving # NoMove => /\ OldOnGpu => Held(moving.from.raw)
                            /\ NewOnGpu => Held(moving.raw)
      /\ moving' # NoMove => /\ OldOnGpu' => Held(moving.from.raw)'
                             /\ NewOnGpu' => Held(moving.raw)'
  BY DEF RawInv, EntriesOwn, MigrationOwns
\* The entries that stay, and the migration that goes on.
<1>c. ASSUME NEW id \in DOMAIN entry', id \in DOMAIN entry,
             entry'[id].kind = entry[id].kind, entry'[id].size = entry[id].size,
             entry'[id].raw = entry[id].raw
      PROVE  Backed(entry[id])'
  BY <1>b, <1>c, HeldKept DEF BackingInv
<1>d. ASSUME moving # NoMove, moving' # NoMove, moving'.from = moving.from
      PROVE  Backed(moving.from)'
  BY <1>b, <1>d, HeldKept DEF BackingInv
<1>e. ASSUME \A id \in DOMAIN entry' :
               /\ id \in DOMAIN entry
               /\ entry'[id].kind = entry[id].kind
               /\ entry'[id].size = entry[id].size
               /\ entry'[id].raw = entry[id].raw,
             moving' = NoMove \/ UNCHANGED moving
      PROVE  BackingInv'
  <2>1. \A id \in DOMAIN entry' : Backed(entry[id])'
    BY <1>c, <1>e
  <2>2. CASE moving' = NoMove
    BY <2>1, <2>2 DEF BackingInv
  <2>3. CASE moving' # NoMove /\ UNCHANGED moving
    <3>1. NewOnGpu => raws'[moving.raw] = raws[moving.raw]
      BY <1>b, <2>3, HeldKept
    <3> QED
      BY <1>d, <2>1, <2>3, <3>1 DEF BackingInv
  <2> QED
    BY <1>e, <2>2, <2>3
<1>f. ASSUME UNCHANGED entry, moving' = NoMove \/ UNCHANGED moving PROVE BackingInv'
  BY <1>e, <1>f
<1>g. ASSUME NEW id \in DOMAIN entry,
             \/ \E n : entry' = [entry EXCEPT ![id] = [entry[id] EXCEPT !.ref = n]]
             \/ \E v : entry' = [entry EXCEPT ![id] = [entry[id] EXCEPT !.pooled = v]],
             UNCHANGED moving
      PROVE  BackingInv'
  <2>1. DOMAIN entry' = DOMAIN entry
    BY <1>g
  <2>2. \A i \in DOMAIN entry : /\ entry'[i].kind = entry[i].kind
                                /\ entry'[i].size = entry[i].size
                                /\ entry'[i].raw = entry[i].raw
    BY <1>a, <1>g DEF EntryRecord
  <2> QED
    BY <1>e, <1>g, <2>1, <2>2
<1>h. ASSUME NEW id \in DOMAIN entry, NEW dest, TakeOut(id, dest) PROVE BackingInv'
  <2>1. /\ DOMAIN entry' = DOMAIN entry \ {id} /\ \A i \in DOMAIN entry' : entry'[i] = entry[i]
        /\ moving'.from = entry[id] /\ moving'.phase = "read" /\ UNCHANGED raws
    BY <1>h DEF TakeOut, Without, Restrict
  <2> QED
    BY <2>1 DEF BackingInv
<1>i. ASSUME moving # NoMove, NEW grown, PutBack(grown),
             moving.dest \in Gpus => moving.phase = "commit"
      PROVE  BackingInv'
  <2>0. PICK id, x : id = moving.id /\ x = moving.raw
    OBVIOUS
  <2> DEFINE back == [moving.from EXCEPT !.kind = moving.dest, !.raw = moving.raw]
  <2>1. back.kind = moving.dest /\ back.raw = moving.raw /\ back.size = moving.from.size
    BY <1>a, <1>i DEF EntryRecord
  <2> HIDE DEF back
  <2>2. entry' = With(entry, moving.id, back) /\ moving' = NoMove
    BY <1>i DEF PutBack, back
  <2>3. /\ DOMAIN entry' = DOMAIN entry \cup {moving.id}
        /\ entry'[moving.id] = back
        /\ \A i \in DOMAIN entry : i # moving.id => entry'[i] = entry[i]
    BY <2>2 DEF With
  <2>4. Backed(entry[id])'
    <3>1. CASE moving.dest \in Gpus
      <4>1. Held(x) /\ Is(x, moving.dest, moving.from.size)
        BY <1>b, <1>i, <2>0, <3>1 DEF BackingInv
      <4>2. /\ Held(entry[id].raw)'
            /\ entry'[id].raw = x
        BY <1>b, <2>0, <2>1, <2>3, <3>1
      <4>3. raws'[x] = raws[x]
        BY <4>1, <4>2, HeldKept
      <4> QED
        BY <2>0, <2>1, <2>3, <4>1, <4>2, <4>3
    <3>2. CASE moving.dest \notin Gpus
      BY <2>0, <2>1, <2>3, <3>2
    <3> QED
      BY <3>1, <3>2
  <2>5. ASSUME NEW i \in DOMAIN entry', i # id PROVE Backed(entry[i])'
    BY <1>c, <2>0, <2>3, <2>5
  <2> QED
    BY <2>0, <2>2, <2>3, <2>4, <2>5 DEF BackingInv
<1>1. ASSUME NEW id \in MatrixIds, NEW k \in Pools, NEW e \in Sizes,
             NEW high \in BOOLEAN, Acquire(id, k, e, high)
      PROVE  BackingInv'
  <2>1. PICK raw : Install(id, NewEntry(k, e, high, raw))
    BY <1>1 DEF Acquire
  <2>2. id \notin DOMAIN entry /\ UNCHANGED moving
    BY <1>1 DEF Acquire, FreshMatrixIds
  <2>3. /\ DOMAIN entry' = DOMAIN entry \cup {id}
        /\ entry'[id].kind = k /\ entry'[id].size = e
        /\ \A i \in DOMAIN entry : entry'[i] = entry[i]
    BY <2>1, <2>2 DEF Install, With, NewEntry
  <2>4. Backed(entry[id])'
    <3>1. CASE k \in Gpus
      <4>1. PICK r \in RawIds \ DOMAIN raws :
                   /\ raws' = With(raws, r, RawInfo(k, e))
                   /\ Install(id, NewEntry(k, e, high, r))
        BY <1>1, <3>1, PoolsAssumption DEF Acquire
      <4>2. entry'[id].raw = r /\ raws'[r] = RawInfo(k, e)
        BY <4>1 DEF Install, With, NewEntry
      <4> QED
        BY <2>3, <4>2 DEF RawInfo
    <3> QED
      BY <2>3, <3>1
  <2>5. \A i \in DOMAIN entry : Backed(entry[i])'
    BY <1>c, <2>3
  <2>6. moving # NoMove => Backed(moving.from)'
    BY <1>d, <2>2
  <2>7. moving # NoMove /\ NewOnGpu => raws'[moving.raw] = raws[moving.raw]
    BY <1>b, <2>2, HeldKept
  <2> QED
    BY <2>2, <2>3, <2>4, <2>5, <2>6, <2>7 DEF BackingInv
<1>2. ASSUME NEW id \in MatrixIds, CloneHandle(id) PROVE BackingInv'
  <2>1. CASE id \in DOMAIN entry
    <3>1. entry' = [entry EXCEPT ![id] = [entry[id] EXCEPT !.ref = entry[id].ref + 1]]
      BY <1>2, <2>1 DEF CloneHandle
    <3> QED
      BY <1>2, <1>g, <2>1, <3>1 DEF CloneHandle
  <2>2. CASE id \notin DOMAIN entry
    BY <1>2, <1>f, <2>2 DEF CloneHandle
  <2> QED
    BY <2>1, <2>2
<1>3. ASSUME NEW id \in MatrixIds, DropHandle(id) PROVE BackingInv'
  <2>1. UNCHANGED moving
    BY <1>3 DEF DropHandle
  <2>2. CASE UNCHANGED entry
    BY <1>f, <2>1, <2>2
  <2>3. CASE id \in DOMAIN entry /\ entry' = [entry EXCEPT ![id].ref = Monus(@, 1)]
    <3>1. entry' = [entry EXCEPT ![id] = [entry[id] EXCEPT !.ref = Monus(entry[id].ref, 1)]]
      BY <2>3
    <3> QED
      BY <1>g, <2>1, <2>3, <3>1
  <2>4. CASE id \in DOMAIN entry /\ entry' = Without(entry, id)
    <3>1. \A i \in DOMAIN entry' : i \in DOMAIN entry /\ entry'[i] = entry[i]
      BY <2>4 DEF Without, Restrict
    <3> QED
      BY <1>e, <2>1, <3>1
  <2> QED
    BY <1>3, <2>2, <2>3, <2>4 DEF DropHandle
<1>4. ASSUME NEW id \in MatrixIds, PoolRelease(id) \/ PoolReuse(id) PROVE BackingInv'
  <2>1. id \in DOMAIN entry /\ UNCHANGED moving
    BY <1>4 DEF PoolRelease, PoolReuse, Pooled
  <2>2. \E v \in BOOLEAN : entry' = [entry EXCEPT ![id] = [entry[id] EXCEPT !.pooled = v]]
    BY <1>4 DEF PoolRelease, PoolReuse
  <2> QED
    BY <1>g, <2>1, <2>2
<1>5. ASSUME NEW id \in MatrixIds, NEW k \in Pools, MoveBegin(id, k) PROVE BackingInv'
  BY <1>5, <1>f, <1>h DEF MoveBegin
<1>6. CASE EvictVictim \/ EvictSucceeds
  <2>1. PICK v \in DOMAIN entry : \E dest : TakeOut(v, dest)
    BY <1>6 DEF EvictVictim, EvictSucceeds, Evicting
  <2> QED
    BY <1>h, <2>1
<1>7. CASE ReadStorage \/ Upload
  <2>1. /\ moving # NoMove /\ UNCHANGED entry
        /\ moving' = [moving EXCEPT !.phase = moving'.phase]
        /\ moving'.phase = "store" \/ (moving.phase = "upload" /\ moving'.phase = "commit")
    BY <1>7, <1>a DEF ReadStorage, Upload, MoveRecord
  <2>2. moving'.from = moving.from /\ moving'.raw = moving.raw /\ moving'.dest = moving.dest
    BY <1>a, <2>1 DEF MoveRecord
  <2>3. \A id \in DOMAIN entry' : Backed(entry[id])'
    BY <1>c, <2>1
  <2>4. moving' # NoMove => Backed(moving.from)'
    BY <1>d, <2>1, <2>2
  <2>5. moving' # NoMove /\ NewOnGpu' => NewOnGpu /\ raws'[moving.raw] = raws[moving.raw]
    BY <1>b, <2>1, <2>2, HeldKept
  <2> QED
    BY <2>1, <2>2, <2>3, <2>4, <2>5 DEF BackingInv
<1>8. CASE StoreGpu
  <2>1. PICK r \in RawIds \ DOMAIN raws :
               /\ raws' = With(raws, r, RawInfo(moving.dest, moving.from.size))
               /\ moving' = [moving EXCEPT !.phase = "upload", !.raw = r]
    BY <1>8 DEF StoreGpu
  <2>2. moving # NoMove /\ UNCHANGED entry /\ moving.dest \in Gpus
    BY <1>8 DEF StoreGpu
  <2>3. moving'.from = moving.from /\ moving'.raw = r /\ moving'.dest = moving.dest
    BY <1>a, <2>1, <2>2 DEF MoveRecord
  <2>4. raws'[r] = RawInfo(moving.dest, moving.from.size)
    BY <2>1 DEF With
  <2>5. \A id \in DOMAIN entry' : Backed(entry[id])'
    BY <1>c, <2>2
  <2>6. moving' # NoMove => Backed(moving.from)'
    BY <1>d, <2>2, <2>3
  <2> QED
    BY <2>2, <2>3, <2>4, <2>5, <2>6 DEF BackingInv, RawInfo
<1>9. CASE StoreHost \/ StoreSsd \/ Commit
  <2>1. moving # NoMove /\ \E grown : PutBack(grown)
    BY <1>9 DEF StoreHost, StoreSsd, Commit
  <2>2. moving.dest \in Gpus => moving.phase = "commit"
    BY <1>9, PoolsAssumption DEF StoreHost, StoreSsd, Commit
  <2> QED
    BY <1>i, <2>1, <2>2
<1>10. ASSUME MigrationStep PROVE BackingInv'
  BY <1>10, <1>6, <1>7, <1>8, <1>9, <1>f, StagingEnds
     DEF MigrationStep, PassVictim, EvictFails, ReadGpuFails, UploadFails, ReadSsdFails,
         StoreHostFails, StoreSsdFails, StoreGpuFails, Lose
<1>11. ASSUME ClientStep PROVE BackingInv'
  BY <1>11, <1>1, <1>2, <1>3, <1>4, <1>5, <1>f
     DEF ClientStep, AcquireWriteFails, DropPoisoned, AcquireTemp, AcquireTempPanics,
         PoolAcquirePanics, ReleaseTemp
<1> QED
  BY <1>10, <1>11, <1>f DEF Next, vars

-----------------------------------------------------------------------------
(* The counters *)

Accounted == \A p \in Pools : used[p] = Amount(Store, p) + Amount(raws, p)

Charge(id, p) == IF id \in Matrices THEN Part(Storage(id), p) ELSE 0

\* What a step does to the storage of an identity.
SameCharge(id) ==
  /\ (id \in Matrices)' <=> id \in Matrices
  /\ id \in Matrices => /\ Storage(id)'.kind = Storage(id).kind
                        /\ Storage(id)'.size = Storage(id).size

\* A step that changes the storage of one identity changes the sums by it.
LEMMA StoreBut ==
  ASSUME TypeOK, TypeOK', NEW id, \A j : j # id => SameCharge(j), NEW p
  PROVE  \E n \in Nat : /\ Amount(Store, p) = n + Charge(id, p)
                        /\ Amount(Store, p)' = n + Charge(id, p)'
<1> DEFINE g == Store
           h == Store'
<1>1. /\ DOMAIN g = Matrices /\ DOMAIN h = Matrices'
      /\ \A j \in DOMAIN g : g[j] = Storage(j)
      /\ \A j \in DOMAIN h : h[j] = Storage(j)'
  BY DEF Store
<1>2. Sized(g) /\ Sized(h)
  <2>1. Sized(Store)
    BY StoreSized
  <2>2. Sized(Store)'
    BY StoreSized, PTL
  <2> QED
    BY <2>1, <2>2 DEF Sized
<1>3. /\ DOMAIN g \ {id} = DOMAIN h \ {id}
      /\ \A j \in DOMAIN g \ {id} : g[j].kind = h[j].kind /\ g[j].size = h[j].size
  BY <1>1 DEF SameCharge
<1>4. /\ PartOf(g, id, p) = Charge(id, p)
      /\ PartOf(h, id, p) = Charge(id, p)'
  BY <1>1 DEF PartOf, Charge, Part
<1>5. Amount(Store, p)' = Amount(h, p)
  BY DEF Amount, CellsOf, OfKind, Block
<1> HIDE DEF g, h
<1>6. \E n \in Nat : Amount(g, p) = n + PartOf(g, id, p) /\ Amount(h, p) = n + PartOf(h, id, p)
  BY <1>2, <1>3, AmountBut
<1> QED
  BY <1>4, <1>5, <1>6 DEF g

\* A step that changes nobody's storage.
LEMMA StoreKept ==
  ASSUME TypeOK, TypeOK', \A j : SameCharge(j), NEW p
  PROVE  Amount(Store, p)' = Amount(Store, p)
<1>1. Charge(NoRaw, p)' = Charge(NoRaw, p)
  BY DEF Charge, SameCharge, Part
<1> QED
  BY <1>1, StoreBut

\* The storage of an identity, wherever it is.
LEMMA StorageOf ==
  ASSUME IdsApart
  PROVE  /\ \A id \in DOMAIN entry :
              id \in Charged /\ Storage(id) = entry[id]
         /\ moving # NoMove => moving.id \in Charged /\ Storage(moving.id) = moving.from
         /\ \A id \in DOMAIN lost :
              id \in Charged /\ Storage(id) = lost[id].from
         /\ \A id \in Charged : \/ id \in DOMAIN entry
                                \/ moving # NoMove /\ id = moving.id
                                \/ id \in DOMAIN lost
BY DEF IdsApart, Charged, Storage, InFlight

\* An identity that stays where it is, or changes its place with its storage.
LEMMA SamePlace ==
  ASSUME IdsApart, IdsApart', NEW id,
         \/ /\ id \in DOMAIN entry /\ id \in DOMAIN entry'
            /\ entry'[id].kind = entry[id].kind /\ entry'[id].size = entry[id].size
         \/ /\ id \in DOMAIN entry
            /\ moving' # NoMove /\ moving'.id = id /\ moving'.from = entry[id]
         \/ /\ moving # NoMove /\ moving.id = id
            /\ moving' # NoMove /\ moving'.id = id /\ moving'.from = moving.from
         \/ /\ moving # NoMove /\ moving.id = id
            /\ id \in DOMAIN lost' /\ lost'[id].from = moving.from
         \/ /\ id \in DOMAIN lost /\ id \in DOMAIN lost' /\ lost'[id].from = lost[id].from
         \/ id \notin Charged /\ (id \notin Charged)'
  PROVE  SameCharge(id)
<1>1. /\ id \in DOMAIN entry => id \in Charged /\ Storage(id) = entry[id]
      /\ moving # NoMove /\ id = moving.id => id \in Charged /\ Storage(id) = moving.from
      /\ id \in DOMAIN lost => id \in Charged /\ Storage(id) = lost[id].from
  BY StorageOf
<1>2. /\ id \in DOMAIN entry' => (id \in Charged)' /\ Storage(id)' = entry'[id]
      /\ moving' # NoMove /\ id = moving'.id => (id \in Charged)' /\ Storage(id)' = moving'.from
      /\ id \in DOMAIN lost' => (id \in Charged)' /\ Storage(id)' = lost'[id].from
  BY DEF IdsApart, Charged, Storage, InFlight
<1> QED
  BY <1>1, <1>2 DEF SameCharge, Matrices

\* The step changes no sum of sizes of entries.
Steady == \A j : SameCharge(j)

\* A step that keeps the kind and size of every entry keeps every charge.
LEMMA SteadyEntries ==
  ASSUME IdsApart, IdsApart', DOMAIN entry' = DOMAIN entry,
         \A id \in DOMAIN entry : /\ entry'[id].kind = entry[id].kind
                                  /\ entry'[id].size = entry[id].size,
         UNCHANGED lost, moving # NoMove <=> moving' # NoMove,
         moving # NoMove => moving'.id = moving.id /\ moving'.from = moving.from
  PROVE  Steady
<1> SUFFICES ASSUME NEW j PROVE SameCharge(j)
  BY DEF Steady
<1>1. CASE j \in DOMAIN entry \/ j \in DOMAIN lost \/ (moving # NoMove /\ j = moving.id)
  BY <1>1, SamePlace
<1>2. CASE ~ (j \in DOMAIN entry \/ j \in DOMAIN lost \/ (moving # NoMove /\ j = moving.id))
  <2>1. j \notin Charged /\ (j \notin Charged)'
    BY <1>2 DEF Charged, InFlight
  <2> QED
    BY <2>1, SamePlace
<1> QED
  BY <1>1, <1>2

\* Taking an entry out for its migration moves its charge and keeps it.
LEMMA SteadyTakeOut ==
  ASSUME IdsApart, IdsApart', NEW id \in DOMAIN entry, NEW dest, moving = NoMove,
         TakeOut(id, dest)
  PROVE  Steady
<1> SUFFICES ASSUME NEW j PROVE SameCharge(j)
  BY DEF Steady
<1>1. /\ DOMAIN entry' = DOMAIN entry \ {id} /\ \A i \in DOMAIN entry' : entry'[i] = entry[i]
      /\ moving'.id = id /\ moving'.from = entry[id] /\ UNCHANGED lost /\ moving' # NoMove
  BY DEF TakeOut, Without, Restrict, NoMove
<1>2. CASE j \in DOMAIN entry \/ j \in DOMAIN lost
  BY <1>1, <1>2, SamePlace
<1>3. CASE ~ (j \in DOMAIN entry \/ j \in DOMAIN lost)
  <2>1. j \notin Charged /\ (j \notin Charged)'
    BY <1>1, <1>3 DEF Charged, InFlight
  <2> QED
    BY <2>1, SamePlace
<1> QED
  BY <1>2, <1>3

\* So does losing an entry in hand.
LEMMA SteadyLose ==
  ASSUME IdsApart, IdsApart', moving # NoMove, UNCHANGED entry, moving' = NoMove,
         lost' = With(lost, moving.id, moving)
  PROVE  Steady
<1> SUFFICES ASSUME NEW j PROVE SameCharge(j)
  BY DEF Steady
<1>1. /\ DOMAIN lost' = DOMAIN lost \cup {moving.id} /\ lost'[moving.id] = moving
      /\ \A i \in DOMAIN lost : i # moving.id => lost'[i] = lost[i]
  BY DEF With
<1>2. CASE j \in DOMAIN entry \/ j \in DOMAIN lost \/ j = moving.id
  BY <1>1, <1>2, SamePlace
<1>3. CASE ~ (j \in DOMAIN entry \/ j \in DOMAIN lost \/ j = moving.id)
  <2>1. j \notin Charged /\ (j \notin Charged)'
    BY <1>1, <1>3 DEF Charged, InFlight
  <2> QED
    BY <2>1, SamePlace
<1> QED
  BY <1>2, <1>3

\* A step that changes no sum of entries and charges what raw buffers it makes.
LEMMA AccountedKept ==
  ASSUME TypeOK, TypeOK', Accounted, Steady,
         \A p \in Pools : used'[p] - Amount(raws', p) = used[p] - Amount(raws, p)
  PROVE  Accounted'
<1> SUFFICES ASSUME NEW p \in Pools
             PROVE  used'[p] = Amount(Store, p)' + Amount(raws, p)'
  BY DEF Accounted
<1>1. Amount(Store, p)' = Amount(Store, p)
  BY StoreKept DEF Steady
<1>2. used[p] \in Nat /\ used'[p] \in Nat /\ Amount(raws, p) \in Nat /\ Amount(Store, p) \in Nat
  BY StoreSized, AmountType DEF TypeOK
<1>3. Sized(raws)'
  BY StoreSized, PTL
<1>4. Amount(raws, p)' = Amount(raws', p)
  BY DEF Amount, CellsOf, OfKind, Block
<1>5. Amount(raws', p) \in Nat
  BY <1>3, AmountType DEF Sized
<1>6. used[p] = Amount(Store, p) + Amount(raws, p)
  BY DEF Accounted
<1>7. used'[p] - Amount(raws', p) = used[p] - Amount(raws, p)
  OBVIOUS
<1> QED
  BY <1>1, <1>2, <1>4, <1>5, <1>6, <1>7

\* The same without a change of the raw buffers.
LEMMA AccountedStill ==
  ASSUME TypeOK, TypeOK', Accounted, Steady, UNCHANGED <<used, raws>>
  PROVE  Accounted'
BY AccountedKept

\* Giving the storage of e back frees what it was charged.
LEMMA FreeCharges ==
  ASSUME TypeOK, NEW e, e.kind \in Pools, e.size \in Nat, Backed(e),
         e.kind \in Gpus => e.raw \in DOMAIN raws,
         NEW rest, rest = IF e.kind \in Gpus THEN Without(raws, e.raw) ELSE raws, NEW p
  PROVE  /\ Amount(raws, p) = Amount(rest, p) + IF e.kind \in Gpus THEN Part(e, p) ELSE 0
         /\ Amount(rest, p) \in Nat
<1>0. Sized(raws)
  BY StoreSized
<1>1. CASE e.kind \in Gpus
  <2>1. /\ DOMAIN rest = DOMAIN raws \ {e.raw} /\ e.raw \in DOMAIN raws
        /\ \A x \in DOMAIN rest : rest[x] = raws[x]
    BY <1>1 DEF Without, Restrict
  <2>2. Sized(rest) /\ Amount(raws, p) = Amount(rest, p) + Part(raws[e.raw], p)
    BY <1>0, <2>1, AmountMore
  <2>3. Part(raws[e.raw], p) = Part(e, p)
    BY <1>1 DEF Backed, Is, Part
  <2> QED
    BY <1>1, <2>2, <2>3, AmountType
<1>2. CASE e.kind \notin Gpus
  <2>1. Amount(raws, p) \in Nat /\ rest = raws
    BY <1>0, <1>2, AmountType
  <2> QED
    BY <1>2, <2>1
<1> QED
  BY <1>1, <1>2

\* The conjuncts a step starts from.
AccountInv == TypeOK /\ LockInv /\ RawInv /\ BackingInv /\ IdsApart /\ Accounted

\* No pool is charged less than its raw buffers take.
LEMMA RawsCovered ==
  ASSUME TypeOK, Accounted, NEW p \in Pools
  PROVE  used[p] >= Amount(raws, p)
<1>1. Amount(Store, p) \in Nat /\ Amount(raws, p) \in Nat
  BY StoreSized, AmountType
<1> QED
  BY <1>1 DEF Accounted

\* Every call of a client keeps the counters exact.
LEMMA AccountedClientStep ==
  AccountInv /\ TypeOK' /\ IdsApart' /\ ClientStep => Accounted'
<1> SUFFICES ASSUME AccountInv, TypeOK', IdsApart', ClientStep PROVE Accounted'
  OBVIOUS
<1>a. TypeOK /\ LockInv /\ RawInv /\ BackingInv /\ IdsApart /\ Accounted
  BY DEF AccountInv
<1>b. \A id \in DOMAIN entry : entry[id] \in EntryRecord
  BY <1>a DEF TypeOK
<1>c. ASSUME UNCHANGED <<entry, lost, moving, used, raws>> PROVE Accounted'
  BY <1>a, <1>c, SteadyEntries, AccountedStill
<1>d. ASSUME NEW id \in DOMAIN entry,
             \/ \E n : entry' = [entry EXCEPT ![id] = [entry[id] EXCEPT !.ref = n]]
             \/ \E v : entry' = [entry EXCEPT ![id] = [entry[id] EXCEPT !.pooled = v]],
             UNCHANGED <<lost, moving, used, raws>>
      PROVE  Accounted'
  <2>1. DOMAIN entry' = DOMAIN entry
    BY <1>d
  <2>2. \A i \in DOMAIN entry : /\ entry'[i].kind = entry[i].kind
                                /\ entry'[i].size = entry[i].size
    BY <1>b, <1>d DEF EntryRecord
  <2> QED
    BY <1>a, <1>d, <2>1, <2>2, SteadyEntries, AccountedStill
<1>e. LockFree => moving = NoMove
  BY <1>a DEF LockFree, LockInv
<1>1. ASSUME NEW id \in MatrixIds, NEW k \in Pools, NEW e \in Sizes,
             NEW high \in BOOLEAN, Acquire(id, k, e, high)
      PROVE  Accounted'
  <2>0. /\ id \notin DOMAIN entry \cup DOMAIN lost /\ UNCHANGED <<lost, moving>>
        /\ moving = NoMove /\ used' = Reserve(k, e) /\ e \in Nat
    BY <1>1, <1>e, SizesAssumption DEF Acquire, FreshMatrixIds
  <2>1. PICK raw : Install(id, NewEntry(k, e, high, raw))
    BY <1>1 DEF Acquire
  <2>2. /\ DOMAIN entry' = DOMAIN entry \cup {id}
        /\ entry'[id].kind = k /\ entry'[id].size = e
        /\ \A i \in DOMAIN entry : entry'[i] = entry[i]
    BY <2>0, <2>1 DEF Install, With, NewEntry
  <2>3. ASSUME NEW j, j # id PROVE SameCharge(j)
    <3>1. CASE j \in DOMAIN entry \/ j \in DOMAIN lost
      BY <1>a, <2>0, <2>2, <3>1, SamePlace
    <3>2. CASE ~ (j \in DOMAIN entry \/ j \in DOMAIN lost)
      <4>1. j \notin Charged /\ (j \notin Charged)'
        BY <2>0, <2>2, <2>3, <3>2 DEF Charged, InFlight
      <4> QED
        BY <1>a, <4>1, SamePlace
    <3> QED
      BY <3>1, <3>2
  <2>4. id \notin Charged /\ (id \in Charged)' /\ Storage(id)' = entry'[id]
    BY <2>0, <2>2 DEF Charged, InFlight, Storage
  <2> SUFFICES ASSUME NEW p \in Pools
               PROVE  used'[p] = Amount(Store, p)' + Amount(raws', p)
    BY DEF Accounted
  <2>5. /\ Charge(id, p) = 0
        /\ Charge(id, p)' = IF p = k /\ k \notin Gpus THEN e ELSE 0
    BY <2>2, <2>4 DEF Charge, Matrices, Part
  <2>6. Amount(raws', p) = Amount(raws, p) + IF p = k /\ k \in Gpus THEN e ELSE 0
    <3>1. Sized(raws) /\ Amount(raws, p) \in Nat
      BY <1>a, StoreSized, AmountType
    <3>2. CASE k \in Gpus
      <4>1. PICK r \in RawIds \ DOMAIN raws : raws' = With(raws, r, RawInfo(k, e))
        BY <1>1, <3>2, PoolsAssumption DEF Acquire
      <4>2. Amount(raws', p) = Amount(raws, p) + IF p = k THEN e ELSE 0
        BY <2>0, <3>1, <4>1, RegisterCharges
      <4> QED
        BY <3>2, <4>2
    <3>3. CASE k \notin Gpus
      <4>1. raws' = raws
        BY <1>1, <3>3 DEF Acquire
      <4> QED
        BY <3>1, <3>3, <4>1
    <3> QED
      BY <3>2, <3>3
  <2>7. PICK n \in Nat : /\ Amount(Store, p) = n + Charge(id, p)
                         /\ Amount(Store, p)' = n + Charge(id, p)'
    BY <1>a, <2>3, StoreBut
  <2>8. /\ used[p] = Amount(Store, p) + Amount(raws, p) /\ Amount(raws, p) \in Nat
        /\ used'[p] = used[p] + IF p = k THEN e ELSE 0
    <3>1. used \in [Pools -> Nat] /\ Amount(raws, p) \in Nat
      BY <1>a, StoreSized, AmountType DEF TypeOK
    <3> QED
      BY <1>a, <2>0, <3>1 DEF Accounted, Reserve
  <2> QED
    BY <2>0, <2>5, <2>6, <2>7, <2>8
<1>2. ASSUME NEW id \in MatrixIds, CloneHandle(id) PROVE Accounted'
  <2>1. CASE id \in DOMAIN entry
    <3>1. entry' = [entry EXCEPT ![id] = [entry[id] EXCEPT !.ref = entry[id].ref + 1]]
      BY <1>2, <2>1 DEF CloneHandle
    <3> QED
      BY <1>2, <1>d, <2>1, <3>1 DEF CloneHandle
  <2>2. CASE id \notin DOMAIN entry
    BY <1>2, <1>c, <2>2 DEF CloneHandle
  <2> QED
    BY <2>1, <2>2
<1>3. ASSUME NEW id \in MatrixIds, DropHandle(id) PROVE Accounted'
  <2>0. UNCHANGED <<moving, lost>> /\ moving = NoMove
    BY <1>3, <1>e DEF DropHandle
  <2>1. CASE UNCHANGED <<used, entry, raws>>
    BY <1>c, <2>0, <2>1
  <2>2. CASE /\ id \in DOMAIN entry /\ entry' = [entry EXCEPT ![id].ref = Monus(@, 1)]
             /\ UNCHANGED <<used, raws>>
    <3>1. entry' = [entry EXCEPT ![id] = [entry[id] EXCEPT !.ref = Monus(entry[id].ref, 1)]]
      BY <2>2
    <3> QED
      BY <1>d, <2>0, <2>2, <3>1
  <2>3. CASE id \in DOMAIN entry /\ entry' = Without(entry, id) /\ FreeStorage(entry[id])
    <3>1. /\ DOMAIN entry' = DOMAIN entry \ {id}
          /\ \A i \in DOMAIN entry' : entry'[i] = entry[i]
      BY <2>3 DEF Without, Restrict
    <3>2. ASSUME NEW j, j # id PROVE SameCharge(j)
      <4>1. CASE j \in DOMAIN entry \/ j \in DOMAIN lost
        BY <1>a, <2>0, <3>1, <3>2, <4>1, SamePlace
      <4>2. CASE ~ (j \in DOMAIN entry \/ j \in DOMAIN lost)
        <5>1. j \notin Charged /\ (j \notin Charged)'
          BY <2>0, <3>1, <4>2 DEF Charged, InFlight
        <5> QED
          BY <1>a, <5>1, SamePlace
      <4> QED
        BY <4>1, <4>2
    <3>3. id \in Charged /\ Storage(id) = entry[id] /\ (id \notin Charged)'
      BY <1>a, <2>0, <2>3, <3>1 DEF Charged, InFlight, Storage, IdsApart
    <3> SUFFICES ASSUME NEW p \in Pools
                 PROVE  used'[p] = Amount(Store, p)' + Amount(raws', p)
      BY DEF Accounted
    <3> DEFINE e == entry[id]
    <3>4. e.kind \in Pools /\ e.size \in Nat
      BY <1>b, <2>3, SizesAssumption DEF EntryRecord
    <3>5. /\ Backed(e)
          /\ e.kind \in Gpus => e.raw \in DOMAIN raws
          /\ raws' = IF e.kind \in Gpus THEN Without(raws, e.raw) ELSE raws
          /\ used' = [used EXCEPT ![e.kind] = Monus(used[e.kind], e.size)]
      BY <1>a, <2>3 DEF BackingInv, RawInv, EntriesOwn, Held, FreeStorage, Deallocate
    <3>6. /\ Charge(id, p) = IF e.kind \in Gpus THEN 0 ELSE Part(e, p)
          /\ Charge(id, p)' = 0
      BY <3>3 DEF Charge, Matrices
    <3> HIDE DEF e
    <3>7. /\ Amount(raws, p) = Amount(raws', p) + IF e.kind \in Gpus THEN Part(e, p) ELSE 0
          /\ Amount(raws', p) \in Nat
      BY <1>a, <3>4, <3>5, FreeCharges
    <3>8. PICK n \in Nat : /\ Amount(Store, p) = n + Charge(id, p)
                           /\ Amount(Store, p)' = n + Charge(id, p)'
      BY <1>a, <3>2, StoreBut
    <3>9. used \in [Pools -> Nat] /\ used[p] = Amount(Store, p) + Amount(raws, p)
      BY <1>a DEF Accounted, TypeOK
    <3>10. used'[p] = IF p = e.kind THEN Monus(used[p], e.size) ELSE used[p]
      BY <3>5, <3>9
    <3> QED
      BY <3>4, <3>6, <3>7, <3>8, <3>9, <3>10 DEF Part, Monus
  <2> QED
    BY <1>3, <2>1, <2>2, <2>3 DEF DropHandle
<1>4. ASSUME NEW id \in MatrixIds, PoolRelease(id) \/ PoolReuse(id) PROVE Accounted'
  <2>1. id \in DOMAIN entry /\ UNCHANGED <<lost, moving, used, raws>>
    BY <1>4 DEF PoolRelease, PoolReuse, Pooled
  <2>2. \E v \in BOOLEAN : entry' = [entry EXCEPT ![id] = [entry[id] EXCEPT !.pooled = v]]
    BY <1>4 DEF PoolRelease, PoolReuse
  <2> QED
    BY <1>d, <2>1, <2>2
<1>5. ASSUME NEW id \in MatrixIds, NEW k \in Pools, MoveBegin(id, k) PROVE Accounted'
  <2>1. moving = NoMove /\ id \in DOMAIN entry
    BY <1>5, <1>e DEF MoveBegin
  <2>2. CASE TakeOut(id, k)
    BY <1>a, <2>1, <2>2, SteadyTakeOut, AccountedStill DEF TakeOut
  <2>3. CASE ~ TakeOut(id, k)
    BY <1>5, <1>c, <2>3 DEF MoveBegin
  <2> QED
    BY <2>2, <2>3
<1>6. ASSUME NEW k \in Gpus \cup {HostRam}, NEW e \in Sizes, NEW r \in RawIds,
             AcquireTemp(k, e, r)
      PROVE  Accounted'
  <2>1. UNCHANGED <<entry, lost, moving>> /\ TempAcquire(k, e, r, <<>>) /\ e \in Nat
    BY <1>6, SizesAssumption DEF AcquireTemp
  <2>2. Steady
    BY <1>a, <2>1, SteadyEntries
  <2>3. \A p \in Pools : used'[p] - Amount(raws', p) = used[p] - Amount(raws, p)
    BY <1>a, <2>1, RawsCovered, TempAcquireCharges
  <2> QED
    BY <1>a, <2>2, <2>3, AccountedKept
<1> QED
  BY <1>1, <1>2, <1>3, <1>4, <1>5, <1>6, <1>c
     DEF ClientStep, AcquireWriteFails, DropPoisoned, AcquireTempPanics,
         PoolAcquirePanics, ReleaseTemp

\* So does every step of a migration, whether it goes on, fails or panics.
LEMMA AccountedMigrationStep ==
  AccountInv /\ TypeOK' /\ IdsApart' /\ MigrationStep => Accounted'
<1> SUFFICES ASSUME AccountInv, TypeOK', IdsApart', MigrationStep PROVE Accounted'
  OBVIOUS
<1>a. TypeOK /\ LockInv /\ RawInv /\ BackingInv /\ IdsApart /\ Accounted
  BY DEF AccountInv
<1>b. moving # NoMove => /\ moving \in MoveRecord /\ moving.from \in EntryRecord
                         /\ moving.from.size \in Nat /\ moving.from.kind \in Pools
  BY <1>a, SizesAssumption DEF TypeOK, MoveRecord, EntryRecord
<1>c. ASSUME UNCHANGED <<entry, lost, moving, used, raws>> PROVE Accounted'
  BY <1>a, <1>c, SteadyEntries, AccountedStill
<1>d. ASSUME moving # NoMove, UNCHANGED entry, moving' = NoMove,
             lost' = With(lost, moving.id, moving),
             \A p \in Pools : used'[p] - Amount(raws', p) = used[p] - Amount(raws, p)
      PROVE  Accounted'
  BY <1>a, <1>d, SteadyLose, AccountedKept
<1>e. ASSUME moving # NoMove, UNCHANGED <<entry, lost>>,
             \E ph \in {"read", "store", "upload", "commit"} :
               \/ moving' = [moving EXCEPT !.phase = ph]
               \/ \E r : moving' = [moving EXCEPT !.phase = ph, !.raw = r]
      PROVE  Steady
  <2>1. /\ moving'.id = moving.id /\ moving'.from = moving.from
        /\ moving'.phase \in {"read", "store", "upload", "commit"}
    BY <1>b, <1>e DEF MoveRecord
  <2>2. moving' # NoMove
    BY <2>1 DEF NoMove
  <2> QED
    BY <1>a, <1>e, <2>1, <2>2, SteadyEntries
<1>f. ASSUME moving # NoMove, NEW r, NEW back, TempAcquire(HostRam, moving.from.size, r, back)
      PROVE  \A p \in Pools : used'[p] - Amount(raws', p) = used[p] - Amount(raws, p)
  BY <1>a, <1>b, <1>f, RawsCovered, TempAcquireCharges
<1>g. ASSUME moving # NoMove, NEW grown, NEW base, PutBack(grown), ReleaseOld(raws, base),
             UNCHANGED lost, moving.dest \in Pools,
             grown = IF moving.dest \in Gpus THEN used
                     ELSE Reserve(moving.dest, moving.from.size)
      PROVE  Accounted'
  <2> DEFINE e == moving.from
             back == [e EXCEPT !.kind = moving.dest, !.raw = moving.raw]
  <2>0. PICK id : id = moving.id
    OBVIOUS
  <2>1. back.kind = moving.dest /\ back.size = e.size
    BY <1>b, <1>g DEF EntryRecord
  <2> HIDE DEF back
  <2>2. /\ entry' = With(entry, id, back) /\ moving' = NoMove
        /\ used' = [grown EXCEPT ![e.kind] = Monus(grown[e.kind], e.size)]
    BY <1>g, <2>0 DEF PutBack, back
  <2>3. /\ DOMAIN entry' = DOMAIN entry \cup {id} /\ entry'[id] = back
        /\ \A i \in DOMAIN entry : i # id => entry'[i] = entry[i]
    BY <2>2 DEF With
  <2>4. ASSUME NEW j, j # id PROVE SameCharge(j)
    <3>1. CASE j \in DOMAIN entry \/ j \in DOMAIN lost
      BY <1>a, <1>g, <2>3, <2>4, <3>1, SamePlace
    <3>2. CASE ~ (j \in DOMAIN entry \/ j \in DOMAIN lost)
      <4>1. j \notin Charged /\ (j \notin Charged)'
        BY <1>g, <2>0, <2>2, <2>3, <2>4, <3>2 DEF Charged, InFlight
      <4> QED
        BY <1>a, <4>1, SamePlace
    <3> QED
      BY <3>1, <3>2
  <2>5. /\ id \in Charged /\ Storage(id) = e
        /\ (id \in Charged)' /\ Storage(id)' = back
    BY <1>a, <1>g, <2>0, <2>3 DEF Charged, InFlight, Storage, IdsApart
  <2> SUFFICES ASSUME NEW p \in Pools
               PROVE  used'[p] = Amount(Store, p)' + Amount(raws', p)
    BY DEF Accounted
  <2>6. /\ Charge(id, p) = IF e.kind \in Gpus THEN 0 ELSE Part(e, p)
        /\ Charge(id, p)' = IF moving.dest \notin Gpus /\ p = moving.dest THEN e.size ELSE 0
    BY <2>1, <2>5 DEF Charge, Matrices, Part
  <2>7. /\ Backed(e)
        /\ e.kind \in Gpus => e.raw \in DOMAIN raws
        /\ raws' = IF e.kind \in Gpus THEN Without(raws, e.raw) ELSE raws
    BY <1>a, <1>g DEF BackingInv, RawInv, MigrationOwns, Held, ReleaseOld
  <2>8. e.kind \in Pools /\ e.size \in Nat
    BY <1>b, <1>g
  <2> HIDE DEF e
  <2>9. /\ Amount(raws, p) = Amount(raws', p) + IF e.kind \in Gpus THEN Part(e, p) ELSE 0
        /\ Amount(raws', p) \in Nat
    BY <1>a, <2>7, <2>8, FreeCharges
  <2>10. PICK n \in Nat : /\ Amount(Store, p) = n + Charge(id, p)
                          /\ Amount(Store, p)' = n + Charge(id, p)'
    BY <1>a, <2>4, StoreBut
  <2>11. /\ used \in [Pools -> Nat] /\ used[p] = Amount(Store, p) + Amount(raws, p)
         /\ grown[p] = used[p] + IF moving.dest \notin Gpus /\ p = moving.dest
                                 THEN e.size ELSE 0
    BY <1>a, <1>g, <2>8 DEF Accounted, TypeOK, Reserve, e
  <2>12. DOMAIN grown = Pools
    BY <1>g, <2>11 DEF Reserve
  <2>13. used'[p] = IF p = e.kind THEN Monus(grown[p], e.size) ELSE grown[p]
    BY <2>2, <2>12
  <2> QED
    BY <2>6, <2>8, <2>9, <2>10, <2>11, <2>13 DEF Part, Monus
<1>1. CASE PassVictim \/ EvictFails
  BY <1>1, <1>c DEF PassVictim, EvictFails
<1>2. CASE EvictVictim \/ EvictSucceeds
  <2>1. PICK v \in DOMAIN entry : moving = NoMove /\ \E dest : TakeOut(v, dest)
    BY <1>2 DEF EvictVictim, EvictSucceeds, Evicting
  <2>2. Steady /\ UNCHANGED <<used, raws>>
    BY <1>a, <2>1, SteadyTakeOut DEF TakeOut
  <2> QED
    BY <1>a, <2>2, AccountedStill
<1>3. CASE ReadStorage \/ Upload
  <2>1. moving # NoMove /\ UNCHANGED <<entry, lost>>
        /\ \E ph \in {"read", "store", "upload", "commit"} : moving' = [moving EXCEPT !.phase = ph]
    BY <1>3 DEF ReadStorage, Upload
  <2>2. Steady
    BY <1>e, <2>1
  <2>3. \A p \in Pools : used'[p] - Amount(raws', p) = used[p] - Amount(raws, p)
    <3>1. CASE UNCHANGED <<used, raws>>
      BY <3>1
    <3>2. CASE ~ UNCHANGED <<used, raws>>
      BY <1>3, <1>f, <2>1, <3>2 DEF ReadStorage, Upload, Staged
    <3> QED
      BY <3>1, <3>2
  <2> QED
    BY <1>a, <2>2, <2>3, AccountedKept
<1>4. CASE ReadGpuFails \/ UploadFails
  <2>1. /\ moving # NoMove /\ UNCHANGED entry /\ moving' = NoMove
        /\ lost' = With(lost, moving.id, moving) /\ (StagingFails \/ StagingPanics)
    BY <1>4, StagingEnds DEF ReadGpuFails, UploadFails
  <2>2. \A p \in Pools : used'[p] - Amount(raws', p) = used[p] - Amount(raws, p)
    <3>1. CASE TempPanics(HostRam, moving.from.size)
      BY <1>a, <3>1, RawsCovered, TempPanicsCharges
    <3> QED
      BY <1>f, <2>1, <3>1, StagingEnds
  <2> QED
    BY <1>d, <2>1, <2>2
<1>5. CASE ReadSsdFails \/ StoreHostFails \/ StoreSsdFails \/ StoreGpuFails
  <2>1. /\ moving # NoMove /\ UNCHANGED <<entry, used, raws>> /\ moving' = NoMove
        /\ lost' = With(lost, moving.id, moving)
    BY <1>5 DEF ReadSsdFails, StoreHostFails, StoreSsdFails, StoreGpuFails, Lose
  <2> QED
    BY <1>d, <2>1
<1>6. CASE StoreHost \/ StoreSsd
  <2>1. /\ moving # NoMove /\ UNCHANGED lost /\ moving.dest \in Pools
        /\ moving.dest \notin Gpus
        /\ PutBack(Reserve(moving.dest, moving.from.size)) /\ \E base : ReleaseOld(raws, base)
    BY <1>6, PoolsAssumption DEF StoreHost, StoreSsd, CanAllocate
  <2> QED
    BY <1>g, <2>1
<1>7. CASE StoreGpu
  <2>1. PICK r \in RawIds \ DOMAIN raws :
               /\ raws' = With(raws, r, RawInfo(moving.dest, moving.from.size))
               /\ moving' = [moving EXCEPT !.phase = "upload", !.raw = r]
    BY <1>7 DEF StoreGpu
  <2>2. /\ moving # NoMove /\ UNCHANGED <<entry, lost>> /\ moving.dest \in Pools
        /\ used' = Reserve(moving.dest, moving.from.size)
    BY <1>7 DEF StoreGpu, CanAllocate
  <2>3. Steady
    BY <1>e, <2>1, <2>2
  <2>4. ASSUME NEW p \in Pools
        PROVE  used'[p] - Amount(raws', p) = used[p] - Amount(raws, p)
    <3> DEFINE e == moving.from.size
               k == moving.dest
    <3>1. Sized(raws) /\ Amount(raws, p) \in Nat /\ used \in [Pools -> Nat] /\ e \in Nat
      BY <1>a, <1>b, <2>2, StoreSized, AmountType DEF TypeOK
    <3>2. used'[p] = used[p] + IF p = k THEN e ELSE 0
      BY <2>2, <3>1 DEF Reserve
    <3> HIDE DEF e, k
    <3>3. Amount(With(raws, r, RawInfo(k, e)), p) = Amount(raws, p) + IF p = k THEN e ELSE 0
      BY <2>1, <3>1, RegisterCharges
    <3>4. raws' = With(raws, r, RawInfo(k, e))
      BY <2>1 DEF k, e
    <3> QED
      BY <3>1, <3>2, <3>3, <3>4
  <2> QED
    BY <1>a, <2>3, <2>4, AccountedKept
<1>8. CASE Commit
  <2>1. /\ moving # NoMove /\ UNCHANGED lost /\ NewOnGpu
        /\ PutBack(used) /\ ReleaseOld(raws, ssdUsed)
    BY <1>8 DEF Commit
  <2>2. moving.dest \in Pools /\ moving.dest \in Gpus
    BY <1>a, <1>b, <2>1 DEF BackingInv, MoveRecord
  <2> QED
    BY <1>g, <2>1, <2>2
<1> QED
  BY <1>1, <1>2, <1>3, <1>4, <1>5, <1>6, <1>7, <1>8 DEF MigrationStep

\* The executor starts with empty pools and empty maps.
LEMMA AccountInit == Init => BackingInv /\ IdsApart /\ Accounted
<1> SUFFICES ASSUME Init PROVE BackingInv /\ IdsApart /\ Accounted
  OBVIOUS
<1>1. BackingInv /\ IdsApart
  BY DEF Init, BackingInv, IdsApart
<1>2. ASSUME NEW p \in Pools PROVE used[p] = Amount(Store, p) + Amount(raws, p)
  <2>1. DOMAIN Store = {} /\ DOMAIN raws = {}
    BY DEF Init, Store, Matrices, Charged, InFlight
  <2>2. CellsOf(Store, p) = {} /\ CellsOf(raws, p) = {}
    BY <2>1 DEF CellsOf, OfKind
  <2>3. Amount(Store, p) = 0 /\ Amount(raws, p) = 0
    BY <2>2, FS_EmptySet DEF Amount
  <2> QED
    BY <2>3 DEF Init
<1> QED
  BY <1>1, <1>2 DEF Accounted

\* All that is proved of the executor's accounts, by one step.
LEMMA AccountStep ==
  ExecutorInv /\ AccountInv /\ [Next]_vars => AccountInv'
<1> SUFFICES ASSUME ExecutorInv, AccountInv, [Next]_vars PROVE AccountInv'
  OBVIOUS
<1>1. ExecutorInv'
  BY ExecutorStep
<1>2. RawInv'
  BY RawStep DEF AccountInv
<1>3. BackingInv' /\ IdsApart'
  BY <1>2, BackingStep, IdsApartStep DEF AccountInv
<1>4. Accounted'
  <2>1. TypeOK'
    BY <1>1 DEF ExecutorInv
  <2>2. CASE UNCHANGED vars
    <3>1. Steady /\ UNCHANGED <<used, raws>>
      BY <1>3, <2>2, SteadyEntries DEF AccountInv, vars
    <3> QED
      BY <2>1, <3>1, AccountedStill DEF AccountInv
  <2> QED
    BY <1>3, <2>1, <2>2, AccountedClientStep, AccountedMigrationStep DEF Next
<1> QED
  BY <1>1, <1>2, <1>3, <1>4 DEF AccountInv, ExecutorInv

\* The accounts, and what they rest on, hold in every reachable state.
LEMMA AccountAlways == Spec => []AccountInv
<1>1. ExecutorInv /\ Init => AccountInv
  BY RawInvInit, AccountInit DEF AccountInv, ExecutorInv
<1> QED
  BY <1>1, ExecutorInit, ExecutorStep, AccountStep, PTL DEF Spec

\* The counter of every pool is, at all times, the sum of the sizes of what lives
\* in it: entries, registered raw buffers, what a migration holds and what failed
\* migrations dropped without giving it back.
THEOREM AccountsExact == Spec => []AccountingExact
<1>1. AccountInv => AccountingExact
  BY CellsCounted DEF AccountInv, Accounted, AccountingExact
<1> QED
  BY <1>1, AccountAlways, PTL

-----------------------------------------------------------------------------
(* The SSD cache *)

\* A pool is charged at least what one of its entries takes.
LEMMA OneCovered ==
  ASSUME TypeOK, Accounted, NEW id \in Matrices, Storage(id).kind \in Pools
  PROVE  used[Storage(id).kind] >= Storage(id).size
<1> DEFINE p == Storage(id).kind
           rest == Without(Store, id)
<1>1. /\ DOMAIN rest = DOMAIN Store \ {id} /\ id \in DOMAIN Store
      /\ \A x \in DOMAIN rest : rest[x] = Store[x]
      /\ Store[id] = Storage(id)
  BY DEF Without, Restrict, Store
<1>2. Sized(Store)
  BY StoreSized
<1> HIDE DEF p, rest
<1>3. Sized(rest) /\ Amount(Store, p) = Amount(rest, p) + Part(Store[id], p)
  BY <1>1, <1>2, AmountMore
<1>4. Amount(rest, p) \in Nat /\ Amount(raws, p) \in Nat /\ Storage(id).size \in Nat
  BY <1>1, <1>2, <1>3, StoreSized, AmountType DEF Sized
<1>5. used[p] = Amount(Store, p) + Amount(raws, p)
  BY DEF Accounted, p
<1> QED
  BY <1>1, <1>3, <1>4, <1>5 DEF Part, p

\* Temporary buffers of one pool charge no other; cleanup may relieve it.
LEMMA TempElsewhere ==
  ASSUME TypeOK, NEW q \in Pools, NEW k, k # q, NEW e, NEW r, NEW back,
         TempAcquire(k, e, r, back) \/ TempPanics(k, e)
  PROVE  used'[q] <= used[q] /\ used'[q] \in Nat
<1>0. used \in [Pools -> Nat]
  BY DEF TypeOK
<1>1. CleanedUsed \in [Pools -> Nat] /\ CleanedUsed[q] <= used[q]
  <2>1. RawTypes
    BY DEF TypeOK, RawTypes
  <2>2. Cardinality(IdleCells(q)) \in Nat
    BY <2>1, IdleCellsFinite
  <2> QED
    BY <1>0, <2>1, <2>2, CleanedTypes DEF CleanedUsed, Monus
<1>2. TempReuse(k, e, r, back) => used' = used
  BY DEF TempReuse
<1>3. TempCreate(k, e, r, back) => used'[q] = used[q]
  BY <1>0 DEF TempCreate, Reserve
<1>4. TempCleanThenCreate(k, e, r, back) => used'[q] = CleanedUsed[q]
  BY <1>0, <1>1 DEF TempCleanThenCreate
<1>5. TempPanics(k, e) => used' = used \/ used' = CleanedUsed
  BY DEF TempPanics
<1> QED
  BY <1>0, <1>1, <1>2, <1>3, <1>4, <1>5 DEF TempAcquire

\* One step keeps the counter of the cache above what its pool has reserved.
LEMMA SsdStep ==
  AccountInv /\ TypeOK' /\ SsdCounterCovers /\ [Next]_vars => SsdCounterCovers'
<1> SUFFICES ASSUME AccountInv, TypeOK', SsdCounterCovers, [Next]_vars, SsdCache \in Pools
             PROVE  ssdUsed' >= SsdResidue + used'[SsdCache]
  BY DEF SsdCounterCovers
<1> DEFINE p == SsdCache
<1>a. /\ TypeOK /\ Accounted /\ IdsApart
      /\ used \in [Pools -> Nat] /\ used' \in [Pools -> Nat]
      /\ ssdUsed \in Int /\ ssdUsed' \in Int /\ SsdResidue \in Nat
      /\ ssdUsed >= SsdResidue + used[p]
      /\ p \notin Gpus /\ p # HostRam
  BY SizesAssumption, PoolsAssumption
     DEF AccountInv, TypeOK, SsdCounterCovers, HostRam, SsdCache
<1>b. ASSUME ssdUsed' >= ssdUsed, used'[p] <= used[p]
      PROVE  ssdUsed' >= SsdResidue + used'[p]
  <2>1. used[p] \in Nat /\ used'[p] \in Nat
    BY <1>a
  <2> QED
    BY <1>a, <1>b, <2>1
<1>c. ASSUME UNCHANGED <<used, ssdUsed>> PROVE ssdUsed' >= SsdResidue + used'[p]
  BY <1>a, <1>c
\* What gives storage back gives the cache no more than its pool.
<1>d. ASSUME NEW id \in Charged, Storage(id).kind \in Pools, Storage(id).size \in Nat,
             NEW n \in Nat, NEW base \in Int, base = ssdUsed + n, NEW grown \in [Pools -> Nat], grown[p] = used[p] + n,
             used' = [grown EXCEPT ![Storage(id).kind] =
                                Monus(grown[Storage(id).kind], Storage(id).size)],
             ssdUsed' >= IF Storage(id).kind = p THEN base - Storage(id).size ELSE base
      PROVE  ssdUsed' >= SsdResidue + used'[p]
  <2> DEFINE e == Storage(id).size
  <2>0. used[p] \in Nat /\ e \in Nat
    BY <1>a, <1>d
  <2>1. CASE Storage(id).kind = p
    <3>1. id \in Matrices
      BY <1>a, <2>1 DEF Matrices
    <3>2. used[p] >= e
      BY <1>a, <1>d, <2>1, <3>1, OneCovered
    <3>3. used'[p] = Monus(grown[p], e)
      BY <1>d, <2>1
    <3>4. used'[p] = used[p] + n - e
      BY <1>d, <2>0, <3>2, <3>3 DEF Monus
    <3>5. ssdUsed' >= ssdUsed + n - e
      BY <1>a, <1>d, <2>0, <2>1
    <3> HIDE DEF e, p
    <3> QED
      BY <1>a, <1>d, <2>0, <3>4, <3>5
  <2>2. CASE Storage(id).kind # p
    <3>1. used'[p] = used[p] + n /\ ssdUsed' >= ssdUsed + n
      BY <1>d, <2>2
    <3> QED
      BY <1>a, <1>d, <2>0, <3>1
  <2> QED
    BY <2>1, <2>2
<1>1. ASSUME NEW id \in MatrixIds, NEW k \in Pools, NEW e \in Sizes,
             NEW high \in BOOLEAN, Acquire(id, k, e, high)
      PROVE  ssdUsed' >= SsdResidue + used'[p]
  <2>1. used' = Reserve(k, e) /\ e \in Nat
    BY <1>1, SizesAssumption DEF Acquire
  <2>2. ssdUsed' = IF k = p THEN ssdUsed + e ELSE ssdUsed
    BY <1>1, <1>a DEF Acquire
  <2>3. used'[p] = IF k = p THEN used[p] + e ELSE used[p]
    BY <1>a, <2>1 DEF Reserve
  <2>4. used[p] \in Nat
    BY <1>a
  <2> HIDE DEF p
  <2> QED
    BY <1>a, <2>1, <2>2, <2>3, <2>4
<1>2. ASSUME NEW e \in Sizes, AcquireWriteFails(e)
      PROVE  ssdUsed' >= SsdResidue + used'[p]
  BY <1>2, <1>a, <1>b, SizesAssumption DEF AcquireWriteFails
<1>0. ASSUME NEW k, NEW e \in Sizes, PoolAcquirePanics(k, e)
      PROVE  ssdUsed' >= SsdResidue + used'[p]
  BY <1>0, <1>a, <1>b, SizesAssumption DEF PoolAcquirePanics
<1>3. ASSUME NEW id \in MatrixIds, DropHandle(id)
      PROVE  ssdUsed' >= SsdResidue + used'[p]
  <2>1. CASE UNCHANGED <<used, ssdUsed>>
    BY <1>c, <2>1
  <2>2. CASE id \in DOMAIN entry /\ FreeStorage(entry[id])
    <3>1. id \in Charged /\ Storage(id) = entry[id] /\ entry[id] \in EntryRecord
      BY <1>a, <2>2, StorageOf DEF TypeOK
    <3>2. Storage(id).kind \in Pools /\ Storage(id).size \in Nat
      BY <3>1, SizesAssumption DEF EntryRecord
    <3>3. used' = [used EXCEPT ![Storage(id).kind] =
                      Monus(used[Storage(id).kind], Storage(id).size)]
      BY <2>2, <3>1 DEF FreeStorage, Deallocate
    <3>4. ssdUsed' >= IF Storage(id).kind = p THEN ssdUsed - Storage(id).size ELSE ssdUsed
      <4>1. entry[id].kind = p => ssdUsed' \in {ssdUsed - entry[id].size, ssdUsed}
        BY <2>2 DEF FreeStorage
      <4>2. entry[id].kind # p => ssdUsed' = ssdUsed
        BY <2>2 DEF FreeStorage
      <4> QED
        BY <1>a, <3>1, <3>2, <4>1, <4>2
    <3>5. PICK n \in Nat, base \in Int : n = 0 /\ base = ssdUsed
      BY <1>a
    <3>6. used[p] = used[p] + n /\ base = ssdUsed + n
      BY <1>a, <3>5
    <3>7. ssdUsed' >= IF Storage(id).kind = p THEN base - Storage(id).size ELSE base
      BY <3>4, <3>5
    <3> QED
      BY <1>a, <1>d, <3>1, <3>2, <3>3, <3>6, <3>7
  <2> QED
    BY <1>3, <2>1, <2>2 DEF DropHandle
<1>4. ASSUME NEW k \in Gpus \cup {HostRam}, NEW e \in Sizes, NEW r \in RawIds,
             AcquireTemp(k, e, r)
      PROVE  ssdUsed' >= SsdResidue + used'[p]
  <2>1. TempAcquire(k, e, r, <<>>) /\ ssdUsed' = ssdUsed
    BY <1>4 DEF AcquireTemp
  <2>2. used'[p] <= used[p]
    <3>1. k # p
      BY <1>a
    <3> QED
      BY <1>a, <2>1, <3>1, TempElsewhere
  <2>3. ssdUsed' >= ssdUsed
    BY <1>a, <2>1
  <2> QED
    BY <1>b, <2>2, <2>3
<1>5. ASSUME ClientStep PROVE ssdUsed' >= SsdResidue + used'[p]
  BY <1>5, <1>0, <1>1, <1>2, <1>3, <1>4, <1>c
     DEF ClientStep, CloneHandle, DropPoisoned, PoolRelease, PoolReuse, MoveBegin,
         TakeOut, AcquireTempPanics, ReleaseTemp
<1>6. CASE ReadStorage \/ Upload \/ ReadGpuFails \/ UploadFails
  <2>0. UNCHANGED ssdUsed
    BY <1>6, StagingEnds DEF ReadStorage, Upload, ReadGpuFails, UploadFails
  <2>1. CASE UNCHANGED used
    BY <1>c, <2>0, <2>1
  <2>2. CASE ~ UNCHANGED used
    <3>1. \E r, back : \/ TempAcquire(HostRam, moving.from.size, r, back)
                       \/ TempPanics(HostRam, moving.from.size)
      BY <1>6, <2>2, StagingEnds DEF ReadStorage, Upload, Staged, ReadGpuFails, UploadFails
    <3>2. used'[p] <= used[p]
      BY <1>a, <3>1, TempElsewhere
    <3> QED
      BY <1>a, <1>b, <2>0, <3>2
  <2> QED
    BY <2>1, <2>2
<1>7. CASE StoreHost \/ StoreSsd \/ Commit
  <2> DEFINE id == moving.id
             n  == IF StoreSsd THEN moving.from.size ELSE 0
             grown == IF StoreHost THEN Reserve(HostRam, moving.from.size)
                      ELSE IF StoreSsd THEN Reserve(p, moving.from.size) ELSE used
  <2>1. moving # NoMove /\ moving.from \in EntryRecord
    BY <1>7, <1>a DEF StoreHost, StoreSsd, Commit, TypeOK, MoveRecord
  <2>2. id \in Charged /\ Storage(id) = moving.from
    BY <1>a, <2>1, StorageOf
  <2>3. Storage(id).kind \in Pools /\ Storage(id).size \in Nat /\ n \in Nat
    BY <2>1, <2>2, SizesAssumption DEF EntryRecord
  <2>4. grown \in [Pools -> Nat] /\ grown[p] = used[p] + n
    <3>1. StoreHost => ~ StoreSsd
      BY DEF StoreHost, StoreSsd, HostRam, SsdCache
    <3>2. used[p] + 0 = used[p] /\ moving.from.size \in Nat
      BY <1>a, <2>2, <2>3
    <3>3. CASE StoreHost
      <4>1. n = 0 /\ grown = Reserve(HostRam, moving.from.size)
        BY <3>1, <3>3
      <4>2. /\ Reserve(HostRam, moving.from.size) \in [Pools -> Nat]
            /\ Reserve(HostRam, moving.from.size)[p] = used[p]
        <5>1. HostRam \in Pools
          BY <3>3 DEF StoreHost, CanAllocate
        <5>2. used[HostRam] + moving.from.size \in Nat
          BY <1>a, <3>2, <5>1
        <5> QED
          BY <1>a, <5>1, <5>2 DEF Reserve
      <4> QED
        BY <3>2, <4>1, <4>2
    <3>4. CASE StoreSsd /\ ~ StoreHost
      BY <1>a, <3>2, <3>4 DEF Reserve
    <3>5. CASE Commit /\ ~ StoreHost /\ ~ StoreSsd
      BY <1>a, <3>2, <3>5
    <3> QED
      BY <1>7, <3>1, <3>3, <3>4, <3>5
  <2> DEFINE base == IF StoreSsd THEN ssdUsed + moving.from.size ELSE ssdUsed
  <2>5. PutBack(grown) /\ ReleaseOld(raws, base) /\ base \in Int /\ base = ssdUsed + n
    <3>1. ssdUsed + 0 = ssdUsed
      BY <1>a
    <3>2. StoreHost => ~ StoreSsd
      BY DEF StoreHost, StoreSsd, HostRam, SsdCache
    <3>3. base \in Int /\ base = ssdUsed + n
      BY <1>a, <2>2, <2>3, <3>1
    <3> QED
      BY <1>7, <3>2, <3>3 DEF StoreHost, StoreSsd, Commit
  <2> HIDE DEF grown, n, base
  <2>6. used' = [grown EXCEPT ![Storage(id).kind] =
                    Monus(grown[Storage(id).kind], Storage(id).size)]
    BY <2>2, <2>5 DEF PutBack
  <2>7. ssdUsed' >= IF Storage(id).kind = p THEN base - Storage(id).size ELSE base
    <3>1. moving.from.kind = p => ssdUsed' \in {base - moving.from.size, base}
      BY <2>5 DEF ReleaseOld
    <3>2. moving.from.kind # p => ssdUsed' = base
      BY <2>5 DEF ReleaseOld
    <3> QED
      BY <2>2, <2>3, <2>5, <3>1, <3>2
  <2> QED
    BY <1>d, <2>2, <2>3, <2>4, <2>5, <2>6, <2>7
<1>8. CASE StoreGpu
  <2>1. used' = Reserve(moving.dest, moving.from.size) /\ moving.dest # p /\ UNCHANGED ssdUsed
    BY <1>8, <1>a DEF StoreGpu
  <2>2. used'[p] = used[p] /\ used[p] \in Nat
    BY <1>a, <2>1 DEF Reserve
  <2> QED
    BY <1>a, <1>b, <2>1, <2>2
<1>9. CASE StoreSsdFails
  <2>1. moving # NoMove /\ moving.from.size \in Nat
    BY <1>9, <1>a, SizesAssumption DEF StoreSsdFails, TypeOK, MoveRecord, EntryRecord
  <2> QED
    BY <1>9, <1>a, <1>b, <2>1 DEF StoreSsdFails
<1>10. ASSUME MigrationStep PROVE ssdUsed' >= SsdResidue + used'[p]
  BY <1>10, <1>6, <1>7, <1>8, <1>9, <1>c
     DEF MigrationStep, PassVictim, EvictVictim, EvictSucceeds, EvictFails, TakeOut,
         ReadSsdFails, StoreHostFails, StoreGpuFails
<1> QED
  BY <1>5, <1>10, <1>c DEF Next, vars

\* The SSD cache never counts less than its pool has reserved and what was on the
\* disk at start-up, whatever writes and removals of files fail.
THEOREM SsdCovered == Spec => []SsdCounterCovers
<1>1. Init => SsdCounterCovers
  BY SizesAssumption DEF Init, SsdCounterCovers
<1>2. AccountInv' => TypeOK'
  BY DEF AccountInv
<1> QED
  BY <1>1, <1>2, AccountAlways, SsdStep, PTL DEF Spec

-----------------------------------------------------------------------------
(***************************************************************************)
(* An eviction of MemoryExecutor that returns Ok has made the room it was  *)
(* asked for, for all values of the constants.                             *)
(*                                                                         *)
(* evict_to_make_room adds up what its nested migrations moved out and     *)
(* compares the sum with the request; it never looks at the pool again.    *)
(* That the pool has the room then follows from the sum being covered by   *)
(* the pool's counter at every step between two nested migrations.         *)
(***************************************************************************)
HIDE DEF OnGpu, HeldAside, OldOnGpu, NewOnGpu

\* The pool has lost at least what the eviction has counted as freed.
FreedCovered == used[job.target] + job.freed <= Capacity[job.target]

\* What is still to be visited, and what is being moved, comes from the pool.
VictimsThere ==
  /\ \A v \in job.victims \cap DOMAIN entry : entry[v].kind = job.target
  /\ moving # NoMove => /\ moving.id \notin job.victims
                        /\ moving.from.kind = job.target
                        /\ moving.dest = EvictDestination

EvictInv == job.phase = "evict" => FreedCovered /\ VictimsThere

RoomLeft ==
  job.phase = "move" /\ moving # NoMove /\ moving.phase \in {"read", "store"}
    => CanAllocate(job.target, job.size)

RoomInv == job # NoJob /\ job.target # EvictDestination => EvictInv /\ RoomLeft

\* The pool an entry on the move comes from is charged for it.
LEMMA MovingCovered ==
  ASSUME AccountInv, moving # NoMove
  PROVE  /\ moving.from.kind \in Pools /\ moving.from.size \in Nat
         /\ used[moving.from.kind] >= moving.from.size
<1> DEFINE e == moving.from
           p == e.kind
<1>1. TypeOK /\ Accounted /\ IdsApart /\ BackingInv /\ RawInv
  BY DEF AccountInv
<1>2. p \in Pools /\ e.size \in Nat /\ used[p] \in Nat
  BY <1>1, SizesAssumption DEF TypeOK, MoveRecord, EntryRecord
<1>3. CASE p \in Gpus
  <2>1. Backed(e) /\ e.raw \in DOMAIN raws
    BY <1>1, <1>3 DEF BackingInv, RawInv, MigrationOwns, Held, OldOnGpu, HeldAside
  <2> DEFINE rest == Without(raws, e.raw)
  <2>2. /\ Amount(raws, p) = Amount(rest, p) + Part(e, p)
        /\ Amount(rest, p) \in Nat
    <3> HIDE DEF e
    <3>1. p \in Pools /\ e.size \in Nat
      BY <1>2
    <3>2. rest = IF p \in Gpus THEN Without(raws, e.raw) ELSE raws
      BY <1>3
    <3> HIDE DEF rest
    <3>3. /\ Amount(raws, p) = Amount(rest, p) + IF p \in Gpus THEN Part(e, p) ELSE 0
          /\ Amount(rest, p) \in Nat
      BY <1>1, <2>1, <3>1, <3>2, FreeCharges
    <3> QED
      BY <1>3, <3>3
  <2>3. used[p] >= Amount(raws, p)
    BY <1>1, <1>2, RawsCovered
  <2> HIDE DEF e, rest
  <2>4. used[p] >= e.size
    BY <1>2, <2>2, <2>3 DEF Part
  <2> QED
    BY <1>2, <2>4 DEF e
<1>4. CASE p \notin Gpus
  <2>1. moving.id \in Matrices /\ Storage(moving.id) = e
    BY <1>1, <1>4, StorageOf DEF Matrices
  <2>2. used[Storage(moving.id).kind] >= Storage(moving.id).size
    BY <1>1, <1>2, <2>1, OneCovered
  <2> QED
    BY <1>2, <2>1, <2>2
<1> QED
  BY <1>3, <1>4

\* Clients work while no migration does.
LEMMA ClientsWithoutJob == LockInv /\ ClientStep => job = NoJob
BY DEF LockInv, ClientStep, LockFree, Acquire, AcquireWriteFails, CloneHandle, DropHandle,
       DropPoisoned, PoolRelease, PoolReuse, MoveBegin, AcquireTemp, AcquireTempPanics,
       PoolAcquirePanics, ReleaseTemp

\* A migration begins with room, or with nothing freed yet.
LEMMA RoomClientStep ==
  AccountInv /\ WithinCapacity /\ ClientStep => RoomInv'
<1> SUFFICES ASSUME AccountInv, WithinCapacity, ClientStep, job' # NoJob PROVE RoomInv'
  BY DEF RoomInv
<1>1. job = NoJob /\ moving = NoMove
  BY ClientsWithoutJob DEF AccountInv, LockInv
<1>2. PICK id \in MatrixIds, k \in Pools : MoveBegin(id, k)
  BY <1>1 DEF ClientStep, Acquire, AcquireWriteFails, CloneHandle, DropHandle,
     DropPoisoned, PoolRelease, PoolReuse, AcquireTemp, AcquireTempPanics,
     PoolAcquirePanics, ReleaseTemp
<1>e. PICK e : e = entry[id].size
  OBVIOUS
<1>3. CASE CanAllocate(k, e)
  <2>1. job' = [phase |-> "move", id |-> id, target |-> k, size |-> e,
                victims |-> {}, freed |-> 0]
    BY <1>2, <1>e, <1>3 DEF MoveBegin
  <2>2. UNCHANGED used
    BY <1>2, <1>e, <1>3 DEF MoveBegin, TakeOut
  <2> QED
    BY <1>3, <2>1, <2>2 DEF RoomInv, EvictInv, RoomLeft, CanAllocate
<1>4. CASE ~ CanAllocate(k, e)
  <2>1. /\ job' = [phase |-> "evict", id |-> id, target |-> k, size |-> e,
                   victims |-> Candidates(k), freed |-> 0]
        /\ UNCHANGED <<used, entry, moving>>
    BY <1>2, <1>e, <1>4 DEF MoveBegin
  <2>2. used[k] + 0 <= Capacity[k]
    BY PoolsAssumption DEF WithinCapacity, AccountInv, TypeOK
  <2>3. FreedCovered'
    BY <2>1, <2>2 DEF FreedCovered
  <2>4. VictimsThere'
    BY <1>1, <2>1 DEF VictimsThere, Candidates
  <2> QED
    BY <2>1, <2>3, <2>4 DEF RoomInv, EvictInv, RoomLeft
<1> QED
  BY <1>3, <1>4

\* What fits beside an amount fits beside a smaller one: how a pool that only
\* loses bytes keeps its room.
LEMMA FitsBesideLess ==
  ASSUME NEW a \in Nat, NEW b \in Nat, NEW c \in Nat, NEW d \in Nat,
         a <= b, b + c <= d
  PROVE  a + c <= d
OBVIOUS

\* Every step of a migration keeps the sum of the freed sizes covered.
LEMMA RoomMigrationStep ==
  AccountInv /\ TypeOK' /\ RoomInv /\ MigrationStep => RoomInv'
<1> SUFFICES ASSUME AccountInv, TypeOK', RoomInv, MigrationStep,
                    job' # NoJob, (job.target # EvictDestination)'
             PROVE  EvictInv' /\ RoomLeft'
  BY DEF RoomInv
<1> DEFINE t == job.target
<1>a. TypeOK /\ LockInv /\ job # NoJob /\ job \in JobRecord
  BY MigrationHoldsLock DEF AccountInv, TypeOK
<1>b. /\ used \in [Pools -> Nat] /\ used' \in [Pools -> Nat] /\ Capacity \in [Pools -> Nat]
      /\ t \in Pools /\ job.freed \in Nat /\ job.size \in Nat
      /\ moving # NoMove => moving \in MoveRecord /\ moving.from \in EntryRecord
                            /\ moving.from.size \in Nat
  BY <1>a, PoolsAssumption, SizesAssumption DEF TypeOK, JobRecord, MoveRecord, EntryRecord
<1>c. job'.target = t /\ job'.size = job.size
  <2>1. StagingFails \/ StagingPanics => job' = NoJob \/ job' = job
    BY StagingEnds DEF Lose, LosePanicking
  <2> QED
    BY <1>a, <2>1
       DEF MigrationStep, PassVictim, EvictVictim, EvictSucceeds, EvictFails, ReadStorage,
           ReadGpuFails, ReadSsdFails, StoreHost, StoreHostFails, StoreSsd, StoreSsdFails,
           StoreGpu, StoreGpuFails, Upload, UploadFails, Commit, PutBack, Lose, JobRecord
<1>d. t # EvictDestination /\ EvictInv /\ RoomLeft
  <2>1. EvictDestination' = EvictDestination
    BY DEF EvictDestination
  <2>2. job'.target # EvictDestination
    BY <2>1
  <2> QED
    BY <1>a, <1>c, <2>2 DEF RoomInv
<1>e. t # HostRam
  BY <1>b, <1>d DEF EvictDestination
\* A step of the migration of an entry in hand that neither ends nor stores.
<1>f. ASSUME moving # NoMove, UNCHANGED <<job, entry>>, used'[t] <= used[t],
             \/ moving' = NoMove
             \/ \E ph : moving' = [moving EXCEPT !.phase = ph]
             \/ \E ph, r : moving' = [moving EXCEPT !.phase = ph, !.raw = r],
             job.phase = "move" /\ moving' # NoMove => moving.phase \in {"read", "store"}
                                    \/ moving'.phase \notin {"read", "store"}
      PROVE  EvictInv' /\ RoomLeft'
  <2>1. moving' # NoMove => /\ moving'.id = moving.id /\ moving'.from = moving.from
                            /\ moving'.dest = moving.dest
    BY <1>b, <1>f DEF MoveRecord
  <2>2. used[t] \in Nat /\ used'[t] \in Nat /\ Capacity[t] \in Nat
    BY <1>b
  <2>3. job.phase = "evict" => used'[t] + job.freed <= Capacity[t]
    <3> SUFFICES ASSUME job.phase = "evict" PROVE used'[t] + job.freed <= Capacity[t]
      OBVIOUS
    <3>1. used[t] + job.freed <= Capacity[t]
      BY <1>a, <1>d DEF EvictInv, FreedCovered
    <3>2. job.freed \in Nat /\ used'[t] <= used[t]
      BY <1>b, <1>f
    <3> HIDE DEF t
    <3> QED
      BY <2>2, <3>1, <3>2, FitsBesideLess
  <2>4. EvictInv'
    <3>1. EvictDestination' = EvictDestination
      BY DEF EvictDestination
    <3> QED
      BY <1>d, <1>f, <2>1, <2>3, <3>1 DEF EvictInv, FreedCovered, VictimsThere
  <2>5. RoomLeft'
    <3> SUFFICES ASSUME job.phase = "move", moving' # NoMove,
                        moving'.phase \in {"read", "store"}
                 PROVE  used'[t] + job.size <= Capacity[t]
      BY <1>b, <1>f DEF RoomLeft, CanAllocate
    <3>1. used[t] + job.size <= Capacity[t]
      BY <1>d, <1>f DEF RoomLeft, CanAllocate
    <3>2. job.size \in Nat /\ used'[t] <= used[t]
      BY <1>b, <1>f
    <3> HIDE DEF t
    <3> QED
      BY <2>2, <3>1, <3>2, FitsBesideLess
  <2> QED
    BY <2>4, <2>5
\* The end of a nested migration.
<1>g. ASSUME moving # NoMove, NEW grown \in [Pools -> Nat], PutBack(grown),
             job.phase = "evict" => grown[t] = used[t]
      PROVE  EvictInv' /\ RoomLeft'
  <2>1. job.phase = "evict" /\ job' = [job EXCEPT !.freed = @ + moving.from.size]
        /\ moving' = NoMove
    BY <1>g DEF PutBack
  <2>2. /\ job'.phase = "evict" /\ job'.victims = job.victims
        /\ job'.freed = job.freed + moving.from.size
    BY <1>a, <2>1 DEF JobRecord
  <2>3. VictimsThere /\ moving.from.kind = t
    BY <1>d, <1>g, <2>1 DEF EvictInv, VictimsThere
  <2>4. used'[t] = Monus(used[t], moving.from.size) /\ used[t] >= moving.from.size
    <3>1. used' = [grown EXCEPT ![t] = Monus(grown[t], moving.from.size)]
      BY <1>g, <2>3 DEF PutBack
    <3> QED
      BY <1>b, <1>g, <2>1, <2>3, <3>1, MovingCovered
  <2>5. used'[t] = used[t] - moving.from.size /\ used[t] \in Nat
    BY <1>b, <1>g, <2>4 DEF Monus
  <2>6. used'[t] + job'.freed <= Capacity[t]
    <3>1. used[t] + job.freed <= Capacity[t]
      BY <1>d, <2>1 DEF EvictInv, FreedCovered
    <3> QED
      BY <1>b, <1>g, <2>2, <2>5, <3>1
  <2>7. VictimsThere'
    <3>1. \A i \in DOMAIN entry' : i # moving.id => i \in DOMAIN entry /\ entry'[i] = entry[i]
      BY <1>g DEF PutBack, With
    <3>2. moving.id \notin job.victims
      BY <1>g, <2>3 DEF VictimsThere
    <3> QED
      BY <1>c, <2>1, <2>2, <2>3, <3>1, <3>2 DEF VictimsThere
  <2> QED
    BY <1>c, <2>2, <2>6, <2>7 DEF EvictInv, FreedCovered, RoomLeft
<1>1. CASE PassVictim
  <2>1. PICK v \in job.victims : /\ Evicting(v) /\ job.phase = "evict"
          /\ job' = [job EXCEPT !.victims = @ \ {v},
                                !.freed = IF /\ entry[v].kind = EvictDestination
                                             /\ ~ Skipped(v, job.freed, job.size)
                                          THEN @ + entry[v].size ELSE @]
    BY <1>1 DEF PassVictim
  <2>2. FreedCovered /\ VictimsThere /\ v \in DOMAIN entry
    BY <1>d, <2>1 DEF EvictInv, Evicting
  <2>3. entry[v].kind # EvictDestination
    BY <1>d, <2>2 DEF VictimsThere
  <2>4. job' = [job EXCEPT !.victims = job.victims \ {v}, !.freed = job.freed]
    BY <2>1, <2>3
  <2>5. /\ job'.phase = "evict" /\ job'.freed = job.freed
        /\ job'.victims = job.victims \ {v}
    BY <1>a, <2>1, <2>4 DEF JobRecord
  <2>6. UNCHANGED <<used, entry, moving>> /\ EvictDestination' = EvictDestination
    BY <1>1 DEF PassVictim, EvictDestination
  <2> QED
    BY <1>c, <2>2, <2>5, <2>6 DEF EvictInv, RoomLeft, FreedCovered, VictimsThere
<1>2. CASE EvictVictim
  <2>1. PICK v \in job.victims : /\ Evicting(v) /\ job.phase = "evict"
          /\ job' = [job EXCEPT !.victims = @ \ {v}] /\ TakeOut(v, EvictDestination)
    BY <1>2 DEF EvictVictim
  <2>2. FreedCovered /\ VictimsThere /\ v \in DOMAIN entry
    BY <1>d, <2>1 DEF EvictInv, Evicting
  <2>3. /\ job'.phase = "evict" /\ job'.freed = job.freed
        /\ job'.victims = job.victims \ {v}
    BY <1>a, <2>1 DEF JobRecord
  <2>4. /\ DOMAIN entry' = DOMAIN entry \ {v} /\ \A i \in DOMAIN entry' : entry'[i] = entry[i]
        /\ moving'.id = v /\ moving'.from = entry[v] /\ moving'.dest = EvictDestination
        /\ UNCHANGED used /\ EvictDestination' = EvictDestination
    BY <2>1 DEF TakeOut, Without, Restrict, EvictDestination
  <2> QED
    BY <1>c, <2>2, <2>3, <2>4 DEF EvictInv, RoomLeft, FreedCovered, VictimsThere
<1>3. CASE EvictSucceeds
  <2>1. /\ job.phase = "evict" /\ job.freed >= job.size
        /\ job' = [job EXCEPT !.phase = "move"] /\ UNCHANGED used
    BY <1>3 DEF EvictSucceeds, TakeOut
  <2>2. job'.phase = "move"
    BY <1>a, <2>1 DEF JobRecord
  <2>3. used[t] + job.size <= Capacity[t]
    BY <1>b, <1>d, <2>1 DEF EvictInv, FreedCovered
  <2> QED
    BY <1>b, <1>c, <2>1, <2>2, <2>3 DEF EvictInv, RoomLeft, CanAllocate
<1>4. CASE EvictFails \/ ReadGpuFails \/ UploadFails
  <2>1. CASE EvictFails
    BY <2>1 DEF EvictFails
  <2>2. CASE ~ EvictFails
    <3>1. moving # NoMove /\ (StagingFails \/ StagingPanics)
      BY <1>4, <2>2 DEF ReadGpuFails, UploadFails
    <3>2. UNCHANGED entry /\ moving' = NoMove /\ job' = job
      BY <3>1, StagingEnds DEF Lose, LosePanicking
    <3>3. \E r, back : \/ TempAcquire(HostRam, moving.from.size, r, back)
                       \/ TempPanics(HostRam, moving.from.size)
      BY <3>1, StagingEnds
    <3>4. used'[t] <= used[t]
      BY <1>a, <1>b, <1>e, <3>3, TempElsewhere
    <3> QED
      BY <1>f, <3>1, <3>2, <3>4
  <2> QED
    BY <2>1, <2>2
<1>5. CASE ReadStorage \/ Upload
  <2>1. used'[t] <= used[t]
    <3>1. CASE UNCHANGED used
      BY <1>b, <3>1
    <3>2. CASE ~ UNCHANGED used
      <4>1. \E r : TempAcquire(HostRam, moving.from.size, r, <<r>>)
        BY <1>5, <3>2 DEF ReadStorage, Upload, Staged
      <4> QED
        BY <1>a, <1>b, <1>e, <4>1, TempElsewhere
    <3> QED
      BY <3>1, <3>2
  <2>2. /\ moving # NoMove /\ UNCHANGED <<job, entry>>
        /\ \E ph : moving' = [moving EXCEPT !.phase = ph]
        /\ moving.phase = "read" \/ moving'.phase = "commit"
    BY <1>5, <1>b DEF ReadStorage, Upload, MoveRecord
  <2> QED
    BY <1>f, <2>1, <2>2
<1>6. CASE ReadSsdFails \/ StoreHostFails \/ StoreSsdFails \/ StoreGpuFails
  <2>1. moving # NoMove /\ UNCHANGED <<job, entry, used>> /\ moving' = NoMove
    BY <1>6 DEF ReadSsdFails, StoreHostFails, StoreSsdFails, StoreGpuFails, Lose
  <2>2. used'[t] <= used[t]
    BY <1>b, <2>1
  <2> QED
    BY <1>f, <2>1, <2>2
<1>7. CASE StoreHost \/ StoreSsd
  <2>1. /\ moving # NoMove /\ moving.from.size \in Nat /\ CanAllocate(moving.dest, moving.from.size)
        /\ PutBack(Reserve(moving.dest, moving.from.size))
    BY <1>7, <1>b DEF StoreHost, StoreSsd
  <2>2. moving.dest \in Pools /\ used[moving.dest] + moving.from.size \in Nat
    BY <1>b, <2>1 DEF CanAllocate
  <2>3. Reserve(moving.dest, moving.from.size) \in [Pools -> Nat]
    BY <1>b, <2>2 DEF Reserve
  <2>4. job.phase = "evict" => moving.dest # t
    BY <1>d, <2>1 DEF EvictInv, VictimsThere
  <2>5. job.phase = "evict" => Reserve(moving.dest, moving.from.size)[t] = used[t]
    BY <1>b, <2>4 DEF Reserve
  <2> QED
    BY <1>g, <2>1, <2>3, <2>5
<1>8. CASE StoreGpu
  <2>1. /\ moving # NoMove /\ UNCHANGED <<job, entry>> /\ moving.dest \in Gpus
        /\ \E r : moving' = [moving EXCEPT !.phase = "upload", !.raw = r]
    BY <1>8 DEF StoreGpu
  <2>2. job.phase = "move"
    <3>1. EvictDestination \notin Gpus
      BY PoolsAssumption DEF EvictDestination
    <3>2. job.phase # "evict"
      BY <1>d, <2>1, <3>1 DEF EvictInv, VictimsThere
    <3> QED
      BY <1>a, <3>2 DEF JobRecord
  <2>3. moving'.phase = "upload"
    BY <1>b, <2>1 DEF MoveRecord
  <2> QED
    BY <2>1, <2>2, <2>3 DEF EvictInv, RoomLeft
<1>9. CASE Commit
  BY <1>9, <1>b, <1>g DEF Commit
<1> QED
  BY <1>1, <1>2, <1>3, <1>4, <1>5, <1>6, <1>7, <1>8, <1>9 DEF MigrationStep

\* When an eviction for VRAM or for the SSD has answered Ok, the room is there
\* until the new storage is made, so that its registration cannot panic.
THEOREM RoomIsMade == Spec => []EvictionMakesRoom
<1>1. Init => RoomInv
  BY DEF Init, RoomInv
<1>2. AccountInv /\ AccountInv' /\ WithinCapacity /\ RoomInv /\ [Next]_vars => RoomInv'
  <2>1. CASE UNCHANGED vars
    BY <2>1 DEF vars, RoomInv, EvictInv, RoomLeft, FreedCovered, VictimsThere, CanAllocate,
       EvictDestination
  <2>2. AccountInv' => TypeOK'
    BY DEF AccountInv
  <2> QED
    BY <2>1, <2>2, RoomClientStep, RoomMigrationStep DEF Next
<1>3. RoomInv => EvictionMakesRoom
  BY DEF RoomInv, RoomLeft, EvictionMakesRoom, MovingOwnEntry
<1> QED
  BY <1>1, <1>2, <1>3, AccountAlways, CapacityRespected, PTL DEF Spec

=============================================================================
