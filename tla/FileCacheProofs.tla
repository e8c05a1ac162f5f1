-------------------------- MODULE FileCacheProofs --------------------------
(***************************************************************************)
(* Proofs about FileCache, for any number of files, readers, download      *)
(* slots and revisions and for every set of faults.                        *)
(***************************************************************************)
EXTENDS FileCache, ClientStateProofs, FiniteSetTheorems, SequenceTheorems

(***************************************************************************)
(* Cardinalities of the sets the model counts.                             *)
(***************************************************************************)

\* The sets counted by Usage and by downloadSem are finite.
LEMMA CountsAreNat ==
    /\ IsFiniteSet(TempFiles) /\ Cardinality(TempFiles) \in Nat
    /\ IsFiniteSet(SlotHolders) /\ Cardinality(SlotHolders) \in Nat
    /\ Cardinality({f \in Files : cacheDir[f] # NoContent}) \in Nat
    /\ Cardinality(CachedRows) \in Nat
<1>1. \A S : IsFiniteSet(S) => \A T \in SUBSET S : IsFiniteSet(T) /\ Cardinality(T) \in Nat
  BY FS_Subset, FS_CardinalityType
<1>2. TempFiles \in SUBSET Readers /\ SlotHolders \in SUBSET Readers
  BY DEF TempFiles, SlotHolders
<1>3. {f \in Files : cacheDir[f] # NoContent} \in SUBSET Files /\ CachedRows \in SUBSET Files
  BY DEF CachedRows
<1>4. QED
  BY <1>1, <1>2, <1>3, FilesAssumption, ReadersAssumption

\* Leaving a download frees exactly one slot.
LEMMA EndFlightFreesSlot ==
    ASSUME NEW r \in Readers, NEW l, l \notin HoldsSlot,
           TypeOK, sem = Cardinality(SlotHolders), pc[r] \in HoldsSlot, EndFlight(r, l)
    PROVE  sem \in Nat \ {0} /\ sem' = Cardinality(SlotHolders')
<1>1. SlotHolders' = SlotHolders \ {r}
  BY DEF EndFlight, SlotHolders, HoldsSlot, InFlight, TypeOK
<1>2. r \in SlotHolders
  BY DEF SlotHolders
<1>3. Cardinality(SlotHolders') = Cardinality(SlotHolders) - 1
  BY <1>1, <1>2, FS_RemoveElement, CountsAreNat
<1>4. Cardinality(SlotHolders) # 0
  BY <1>2, FS_EmptySet, CountsAreNat
<1>5. QED
  BY <1>3, <1>4, CountsAreNat DEF EndFlight

(***************************************************************************)
(* Types, slots and the mutex.  TypeOK is not inductive alone: a slot is   *)
(* given back by subtraction, so the counter must be known to be positive, *)
(* and the next victim is the head of a list that must not be empty.       *)
(***************************************************************************)

TypeInv == TypeOK /\ SlotsAccountedFor /\ MutexHeld

\* A download that ends leaves every reader variable within its type.
LEMMA EndFlightTypes ==
    ASSUME TypeInv, NEW r \in Readers, pc[r] \in HoldsSlot,
           NEW l \in {"failed", "loaded"}, EndFlight(r, l), hfile' = hfile
    PROVE  /\ pc' \in [Readers -> ReaderPC]
           /\ want' \in [Readers -> Digests]
           /\ buf' \in [Readers -> Content]
           /\ flight' \in [Files -> Readers \cup {NoReader}]
           /\ SlotsAccountedFor' /\ sem' \in Nat
           /\ \A q \in Readers : pc'[q] # "idle" => hfile'[q] \in Files
           /\ \A q \in Readers \ {r} : pc'[q] = "upsert" <=> pc[q] = "upsert"
           /\ pc'[r] # "upsert"
<1>1. sem \in Nat \ {0} /\ sem' = Cardinality(SlotHolders')
  BY EndFlightFreesSlot DEF TypeInv, SlotsAccountedFor, HoldsSlot, InFlight
<1>2. SlotsAccountedFor' /\ sem' \in Nat
  BY <1>1, LimitsAssumption DEF TypeInv, SlotsAccountedFor, EndFlight
<1>3. pc' \in [Readers -> ReaderPC]
  BY DEF EndFlight, TypeInv, TypeOK, ReaderPC
<1>4. want' \in [Readers -> Digests] /\ buf' \in [Readers -> Content]
  BY ValueTypes DEF EndFlight, TypeInv, TypeOK
<1>5. flight' \in [Files -> Readers \cup {NoReader}]
  BY DEF EndFlight, TypeInv, TypeOK
<1>6. QED
  BY <1>2, <1>3, <1>4, <1>5 DEF EndFlight, TypeInv, TypeOK, HoldsSlot, InFlight

\* The start states have the types.
LEMMA TypeInvInit == Init => TypeInv
<1> SUFFICES ASSUME Init PROVE TypeInv
  OBVIOUS
<1> USE DEF Init, StateInit, FreshProcess
<1>1. StateTypeOK
  BY StateTypes
<1>2. TypeOK
  BY <1>1, ValueTypes DEF TypeOK, ReaderPC, RowStates, Results
<1>3. SlotHolders = {}
  BY DEF SlotHolders, HoldsSlot, InFlight
<1>4. SlotsAccountedFor
  BY <1>3, FS_EmptySet, LimitsAssumption DEF SlotsAccountedFor
<1>5. MutexHeld
  BY ReadersAssumption DEF MutexHeld
<1>6. QED
  BY <1>2, <1>4, <1>5 DEF TypeInv

\* The steps of a read outside fetchAndCache.
LEMMA TypeInvRead ==
    ASSUME TypeInv, NEW r \in Readers,
           \/ StartRead(r)
           \/ RangeRead(r) \/ ReadFallback(r) \/ ReadLoaded(r) \/ Touch(r)
    PROVE  TypeInv'
<1> USE DEF TypeInv, TypeOK, StateTypeOK, stateVars, readVars, evictVars, GoTo
<1>t. "OK" \in Results /\ "ENOENT" \in Results /\ "EIO" \in Results
  BY DEF Results
\* What these steps leave alone keeps its type and its part of the invariant.
<1>a. ASSUME pc' \in [Readers -> ReaderPC],
             \A q \in Readers : pc'[q] # pc[q] => pc[q] \notin InFlight /\ pc'[q] \notin InFlight,
             UNCHANGED <<sem, cacheMu, evictVars>>
      PROVE  SlotsAccountedFor' /\ MutexHeld'
  <2>1. SlotHolders' = SlotHolders
    BY <1>a DEF SlotHolders, HoldsSlot
  <2>2. \A q \in Readers : pc'[q] = "upsert" <=> pc[q] = "upsert"
    BY <1>a DEF InFlight
  <2>3. QED
    BY <1>a, <2>1, <2>2 DEF SlotsAccountedFor, MutexHeld
<1>b. ASSUME pc' \in [Readers -> ReaderPC], got' \in [Readers -> Results],
             hfile' \in [Readers -> Files \cup {NoFile}], hstate' \in [Readers -> RowStates],
             \A q \in Readers : pc'[q] # "idle" \/ hstate'[q] # "NONE" => hfile'[q] \in Files,
             table' \in [Files -> Row],
             UNCHANGED <<cacheDir, localDir, server, listed, manifest, clock, up,
                         want, buf, flight, sem, cacheMu, leaked, evictVars>>
      PROVE  TypeOK'
  BY <1>b
<1>1. CASE \E f \in Files : OpenRead(r, f)
  <2>1. SlotsAccountedFor' /\ MutexHeld'
    BY <1>1, <1>a DEF OpenRead
  <2>2. QED
    BY <1>1, <2>1, <1>t, <1>b DEF OpenRead, Returns, Row
<1>p. ASSUME NEW c \in Content, NEW l \in {"idle", "touch"}, Pread(r, c, l),
             pc[r] \in {"idle", "loaded"}, hfile[r] \in Files,
             hstate' \in [Readers -> RowStates], \A q \in Readers \ {r} : hstate'[q] = hstate[q],
             UNCHANGED <<stateVars, hfile, want, buf, flight, sem, cacheMu, leaked, evictVars>>
      PROVE  TypeInv'
  <2>1. got' \in [Readers -> Results] /\ pc' \in [Readers -> ReaderPC]
    BY <1>p, <1>t DEF Pread, Returns, ReaderPC
  <2>2. \A q \in Readers : pc'[q] # pc[q] => pc[q] \notin InFlight /\ pc'[q] \notin InFlight
    BY <1>p DEF Pread, InFlight
  <2>3. \A q \in Readers : pc'[q] # "idle" \/ hstate'[q] # "NONE" => hfile'[q] \in Files
    BY <1>p DEF Pread
  <2>4. QED
    BY <1>p, <1>a, <1>b, <2>1, <2>2, <2>3
<1>2. CASE ReadLocal(r) \/ ReadCached(r)
  <2>1. hfile[r] \in Files
    BY <1>2 DEF ReadLocal, ReadCached, IsLocal
  <2>2. QED
    BY <1>2, <1>p, <2>1 DEF ReadLocal, ReadCached
<1>3. CASE ReadRemote(r)
  <2>1. SlotsAccountedFor' /\ MutexHeld'
    BY <1>3, <1>a DEF ReadRemote, InFlight, ReaderPC
  <2>2. QED
    BY <1>3, <1>b, <1>t, <2>1 DEF ReadRemote, Returns, ReaderPC
<1>4. CASE RangeRead(r) \/ ReadFallback(r)
  <2>1. PICK l \in {"check", "idle"} : RangeRequest(r, l)
    BY <1>4 DEF RangeRead, ReadFallback
  <2>2. pc[r] \in {"range", "failed"}
        /\ UNCHANGED <<stateVars, hfile, hstate, want, buf, flight, sem, cacheMu, leaked, evictVars>>
    BY <1>4 DEF RangeRead, ReadFallback
  <2>3. pc' \in [Readers -> ReaderPC] /\ got' \in [Readers -> Results]
    <3>1. CASE Returns(r, "OK") /\ GoTo(r, "touch")
      BY <3>1, <1>t DEF Returns, ReaderPC
    <3>2. CASE GoTo(r, l) /\ IF l = "idle" THEN Returns(r, "EIO") ELSE UNCHANGED got
      BY <3>2, <1>t DEF Returns, ReaderPC
    <3>3. QED
      BY <2>1, <3>1, <3>2 DEF RangeRequest
  <2>4. \A q \in Readers : pc'[q] # pc[q] => pc[q] \notin InFlight /\ pc'[q] \notin InFlight
    BY <2>1, <2>2 DEF RangeRequest, InFlight
  <2>5. \A q \in Readers : pc'[q] # "idle" \/ hstate'[q] # "NONE" => hfile'[q] \in Files
    BY <2>1, <2>2 DEF RangeRequest
  <2>6. QED
    BY <1>a, <1>b, <2>2, <2>3, <2>4, <2>5
<1>5. CASE ReadLoaded(r)
  BY <1>5, <1>p DEF ReadLoaded, RowStates, FileStates
<1>6. CASE Touch(r)
  <2>1. table' \in [Files -> Row]
    BY <1>6, StoreTypes DEF Touch, StoreWrite
  <2>2. QED
    BY <1>6, <2>1, <1>a, <1>b DEF Touch, InFlight, ReaderPC
<1>7. QED
  BY <1>1, <1>2, <1>3, <1>4, <1>5, <1>6 DEF StartRead

\* The steps of fetchAndCache and Store.
LEMMA TypeInvFetch ==
    ASSUME TypeInv, NEW r \in Readers,
           \/ CheckRow(r) \/ JoinFlight(r) \/ LeadFlight(r) \/ AcquireSlot(r)
           \/ Download(r) \/ VerifyTemp(r) \/ StoreRename(r) \/ StoreUpsert(r) \/ MarkCached(r)
    PROVE  TypeInv'
<1> USE DEF TypeInv, TypeOK, StateTypeOK, stateVars, readVars, evictVars, GoTo
<1>0. pc[r] # "idle" /\ hfile[r] \in Files /\ hfile' = hfile /\ hstate' = hstate
  BY DEF CheckRow, JoinFlight, LeadFlight, AcquireSlot, Download, VerifyTemp, StoreRename,
         StoreUpsert, MarkCached
<1>h. ExpectedHash(r) \in Digests
  BY <1>0, HashInType DEF ExpectedHash
<1>r. CachedRow(ExpectedHash(r)) \in Row
  BY <1>h DEF CachedRow, Row, RowStates, FileStates
\* A step of r that neither takes nor gives back a slot.
<1>a. ASSUME NEW l \in ReaderPC \ {"idle"}, GoTo(r, l), l \in HoldsSlot <=> pc[r] \in HoldsSlot,
             UNCHANGED sem
      PROVE  /\ pc' \in [Readers -> ReaderPC] /\ SlotsAccountedFor'
             /\ \A q \in Readers : pc'[q] # "idle" \/ hstate'[q] # "NONE" => hfile'[q] \in Files
             /\ pc'[r] = l /\ \A q \in Readers \ {r} : pc'[q] = pc[q]
  <2>1. SlotHolders' = SlotHolders
    BY <1>a DEF SlotHolders
  <2>2. QED
    BY <1>a, <1>0, <2>1 DEF SlotsAccountedFor
<1>e. ASSUME NEW l \in {"failed", "loaded"}, EndFlight(r, l), pc[r] \in HoldsSlot
      PROVE  /\ pc' \in [Readers -> ReaderPC]
             /\ want' \in [Readers -> Digests]
             /\ buf' \in [Readers -> Content]
             /\ flight' \in [Files -> Readers \cup {NoReader}]
             /\ SlotsAccountedFor' /\ sem' \in Nat
             /\ \A q \in Readers : pc'[q] # "idle" \/ hstate'[q] # "NONE" => hfile'[q] \in Files
             /\ \A q \in Readers \ {r} : pc'[q] = "upsert" <=> pc[q] = "upsert"
             /\ pc'[r] # "upsert"
  BY <1>e, <1>0, EndFlightTypes
\* The mutex, where this step leaves it alone and where it does not.
<1>m. ASSUME \A q \in Readers : pc'[q] = "upsert" <=> pc[q] = "upsert",
             UNCHANGED <<cacheMu, evictVars>>
      PROVE  MutexHeld'
  BY <1>m DEF MutexHeld
<1>1. CASE CheckRow(r)
  BY <1>1, <1>a, <1>m DEF CheckRow, ReaderPC, HoldsSlot, InFlight
<1>2. CASE JoinFlight(r)
  BY <1>2, <1>a, <1>m DEF JoinFlight, ReaderPC, HoldsSlot, InFlight
<1>3. CASE LeadFlight(r)
  <2>1. \E l \in {"sem", "failed"} : GoTo(r, l)
    BY <1>3 DEF LeadFlight
  <2>2. /\ pc' \in [Readers -> ReaderPC] /\ SlotsAccountedFor'
        /\ \A q \in Readers : pc'[q] # "idle" \/ hstate'[q] # "NONE" => hfile'[q] \in Files
    BY <1>3, <2>1, <1>a DEF LeadFlight, ReaderPC, HoldsSlot, InFlight
  <2>m. MutexHeld'
    BY <1>3, <2>1, <1>m DEF LeadFlight
  <2>s. table[hfile[r]].sha \in Digests
    BY <1>0 DEF Row
  <2>w. want' \in [Readers -> Digests]
    BY <1>3, <2>s DEF LeadFlight
  <2>3. flight' \in [Files -> Readers \cup {NoReader}]
    BY <1>3, <1>0 DEF LeadFlight
  <2>4. QED
    BY <1>3, <2>2, <2>m, <2>w, <2>3 DEF LeadFlight
<1>4. CASE AcquireSlot(r)
  <2>1. SlotHolders' = SlotHolders \cup {r} /\ r \notin SlotHolders
    BY <1>4 DEF AcquireSlot, SlotHolders, HoldsSlot, InFlight
  <2>2. Cardinality(SlotHolders') = Cardinality(SlotHolders) + 1
    BY <2>1, CountsAreNat, FS_AddElement
  <2>3. SlotsAccountedFor'
    BY <1>4, <2>2, LimitsAssumption, CountsAreNat DEF AcquireSlot, SlotsAccountedFor
  <2>4. MutexHeld'
    BY <1>4, <1>m DEF AcquireSlot
  <2>5. QED
    BY <1>4, <1>0, <2>3, <2>4 DEF AcquireSlot, ReaderPC, InFlight
<1>5. CASE Download(r)
  <2>0. pc[r] \in HoldsSlot
    BY <1>5 DEF Download, HoldsSlot, InFlight
  <2>1. CASE \E c \in Responses(hfile[r]) : buf' = [buf EXCEPT ![r] = c] /\ GoTo(r, "store")
                                            /\ UNCHANGED <<want, flight, sem>>
    <3>1. Responses(hfile[r]) \subseteq Content
      BY <1>0, ValueTypes DEF Responses
    <3>2. buf' \in [Readers -> Content]
      BY <2>1, <3>1
    <3>3. QED
      BY <1>5, <2>0, <2>1, <3>2, <1>a, <1>m DEF Download, ReaderPC, HoldsSlot, InFlight
  <2>2. CASE EndFlight(r, "failed")
    BY <1>5, <2>0, <2>2, <1>e, <1>m DEF Download
  <2>3. QED
    BY <1>5, <2>1, <2>2 DEF Download
<1>6. CASE VerifyTemp(r)
  <2>0. pc[r] \in HoldsSlot
    BY <1>6 DEF VerifyTemp, HoldsSlot, InFlight
  <2>1. CASE GoTo(r, "rename") /\ UNCHANGED <<want, buf, flight, sem>>
    BY <1>6, <2>0, <2>1, <1>a, <1>m DEF VerifyTemp, ReaderPC, HoldsSlot, InFlight
  <2>2. CASE EndFlight(r, "failed")
    BY <1>6, <2>0, <2>2, <1>e, <1>m DEF VerifyTemp
  <2>3. QED
    BY <1>6, <2>1, <2>2 DEF VerifyTemp
<1>7. CASE StoreRename(r)
  <2>0. pc[r] \in HoldsSlot
    BY <1>7 DEF StoreRename, HoldsSlot, InFlight
  <2>1. CASE cacheMu' = r /\ GoTo(r, "upsert") /\ UNCHANGED <<want, buf, flight, sem>>
             /\ cacheDir' = [cacheDir EXCEPT ![hfile[r]] = buf[r]]
    <3>1. MutexHeld'
      BY <1>7, <2>1, ReadersAssumption DEF StoreRename, MutexHeld
    <3>2. QED
      BY <1>7, <2>0, <2>1, <3>1, <1>a DEF StoreRename, ReaderPC, HoldsSlot, InFlight
  <2>2. CASE EndFlight(r, "failed") /\ UNCHANGED <<cacheMu, cacheDir>>
    BY <1>7, <2>0, <2>2, <1>e, <1>m DEF StoreRename
  <2>3. QED
    BY <1>7, <2>1, <2>2 DEF StoreRename
<1>8. CASE StoreUpsert(r)
  <2>0. pc[r] \in HoldsSlot
    BY <1>8 DEF StoreUpsert, HoldsSlot, InFlight
  <2>m. ASSUME pc'[r] # "upsert", \A q \in Readers \ {r} : pc'[q] = "upsert" <=> pc[q] = "upsert"
        PROVE  MutexHeld'
    BY <1>8, <2>m, ReadersAssumption DEF StoreUpsert, MutexHeld
  <2>1. CASE /\ table' = UpsertFile(hfile[r], CachedRow(ExpectedHash(r)))
             /\ GoTo(r, "mark") /\ UNCHANGED <<want, buf, flight, sem>>
    <3>1. table' \in [Files -> Row]
      BY <2>1, <1>0, <1>r, StoreTypes
    <3>2. QED
      BY <1>8, <2>0, <2>1, <3>1, <1>a, <2>m DEF StoreUpsert, ReaderPC, HoldsSlot, InFlight
  <2>2. CASE EndFlight(r, "failed") /\ UNCHANGED table
    BY <1>8, <2>0, <2>2, <1>e, <2>m DEF StoreUpsert
  <2>3. QED
    BY <1>8, <2>1, <2>2 DEF StoreUpsert
<1>9. CASE MarkCached(r)
  <2>1. pc[r] \in HoldsSlot
    BY <1>9 DEF MarkCached, HoldsSlot, InFlight
  <2>2. PICK l \in {"failed", "loaded"} : EndFlight(r, l)
    BY <1>9 DEF MarkCached
  <2>3. table' \in [Files -> Row]
    BY <1>9, <1>0, StoreTypes DEF MarkCached, RowStates, FileStates
  <2>4. MutexHeld'
    BY <1>9, <2>1, <2>2, <1>e, <1>m DEF MarkCached
  <2>5. QED
    BY <1>9, <2>1, <2>2, <2>3, <2>4, <1>e DEF MarkCached
<1>10. QED
  BY <1>1, <1>2, <1>3, <1>4, <1>5, <1>6, <1>7, <1>8, <1>9

\* The steps of the CacheManager.
LEMMA TypeInvEvict ==
    ASSUME TypeInv, CacheManager
    PROVE  TypeInv'
<1> USE DEF TypeInv, TypeOK, StateTypeOK, stateVars, readVars, evictVars
\* The readers and their slots are left alone.
<1>0. UNCHANGED <<pc, readVars, flight, sem, leaked, localDir, server, listed, manifest, clock, up>>
  BY DEF CacheManager, EvictTick, EvictList, EvictRemove, EvictUpdate
<1>s. SlotsAccountedFor'
  <2>1. SlotHolders' = SlotHolders
    BY <1>0 DEF SlotHolders
  <2>2. QED
    BY <1>0, <2>1 DEF SlotsAccountedFor
<1>t. ASSUME table' \in [Files -> Row], cacheDir' \in [Files -> Content],
             cacheMu' \in Readers \cup {Evictor, NoReader},
             epc' \in {"idle", "list", "remove", "update"}, ecount' \in Nat, elist' \in Seq(Files)
      PROVE  TypeOK'
  BY <1>0, <1>t
\* Tail of the list of victims.
<1>v. ASSUME NextVictim, elist # <<>>
      PROVE  /\ elist' \in Seq(Files) /\ epc' \in {"idle", "remove"}
             /\ epc' = "remove" => elist' # <<>>
  <2>1. Tail(elist) \in Seq(Files) /\ Len(Tail(elist)) = Len(elist) - 1
    BY <1>v, HeadTailProperties
  <2>2. Len(elist) # 1 => Tail(elist) # <<>>
    <3>1. Len(elist) \in Nat
      BY LenProperties
    <3>2. \A n, m \in Nat : m = n - 1 /\ n # 1 => m # 0
      OBVIOUS
    <3>3. Len(Tail(elist)) \in Nat
      BY <2>1, LenProperties
    <3>4. Len(elist) # 1 => Len(Tail(elist)) # 0
      BY <2>1, <3>1, <3>2, <3>3
    <3>5. QED
      BY <3>4, EmptySeq, Zenon
  <2>3. QED
    BY <1>v, <2>1, <2>2 DEF NextVictim
<1>1. CASE EvictTick
  <2>1. Usage \in Nat
    BY CountsAreNat, LimitsAssumption DEF Usage
  <2>2. ecount' \in Nat
    BY <1>1, <2>1, LimitsAssumption DEF EvictTick
  <2>3. MutexHeld'
    BY <1>1, <1>0 DEF EvictTick, MutexHeld
  <2>4. QED
    BY <1>1, <1>s, <1>t, <2>2, <2>3 DEF EvictTick
<1>2. CASE EvictList
  <2>1. \A s \in ListCachedByLRU(ecount) : s \in Seq(Files)
    <3>1. \A k \in Nat : \A s \in [1..k -> CachedRows] : s \in Seq(Files)
      BY DEF CachedRows
    <3>2. 0..Cardinality(CachedRows) \subseteq Nat
      BY CountsAreNat
    <3>3. QED
      BY <3>1, <3>2 DEF ListCachedByLRU
  <2>2. elist' \in Seq(Files) /\ epc' \in {"idle", "remove"} /\ (epc' = "remove" => elist' # <<>>)
    BY <1>2, <2>1 DEF EvictList
  <2>3. MutexHeld'
    BY <1>2, <1>0, <2>2 DEF EvictList, MutexHeld
  <2>4. QED
    BY <1>2, <1>s, <1>t, <2>2, <2>3 DEF EvictList
<1>3. CASE EvictRemove
  <2>0. elist # <<>> /\ cacheMu = NoReader
    BY <1>3 DEF EvictRemove, MutexHeld
  <2>1. CASE cacheMu' = Evictor /\ epc' = "update" /\ UNCHANGED elist
             /\ cacheDir' = [cacheDir EXCEPT ![Head(elist)] = NoContent]
    <3>1. MutexHeld'
      BY <1>0, <2>0, <2>1, ReadersAssumption DEF MutexHeld
    <3>2. QED
      BY <1>3, <1>s, <1>t, <2>1, <3>1, ValueTypes DEF EvictRemove
  <2>2. CASE NextVictim /\ UNCHANGED <<cacheMu, cacheDir>>
    <3>1. MutexHeld'
      BY <1>0, <1>3, <2>0, <2>2, <1>v DEF EvictRemove, MutexHeld
    <3>2. QED
      BY <1>3, <1>s, <1>t, <1>v, <2>0, <2>2, <3>1 DEF EvictRemove
  <2>3. QED
    BY <1>3, <2>1, <2>2 DEF EvictRemove
<1>4. CASE EvictUpdate
  <2>0. elist # <<>> /\ cacheMu = Evictor /\ Head(elist) \in Files
    BY <1>4 DEF EvictUpdate, MutexHeld
  <2>1. table' \in [Files -> Row]
    <3>1. "REMOTE" \in RowStates
      BY DEF RowStates, FileStates
    <3>2. UpdateState(Head(elist), "REMOTE") \in [Files -> Row]
      BY <2>0, <3>1, StoreTypes
    <3>3. QED
      BY <1>4, <3>2 DEF EvictUpdate, StoreWrite
  <2>2. MutexHeld'
    BY <1>0, <1>4, <2>0, <1>v, ReadersAssumption DEF EvictUpdate, MutexHeld
  <2>3. QED
    BY <1>4, <1>s, <1>t, <1>v, <2>0, <2>1, <2>2 DEF EvictUpdate
<1>5. QED
  BY <1>1, <1>2, <1>3, <1>4 DEF CacheManager

\* The server, the clock, crashes, shutdowns and mounts.
LEMMA TypeInvEnvironment ==
    ASSUME TypeInv, Environment
    PROVE  TypeInv'
<1> USE DEF TypeInv, TypeOK, StateTypeOK, stateVars, cacheVars, readVars, evictVars
<1>a. ASSUME StateTypeOK', UNCHANGED cacheVars PROVE TypeInv'
  <2>1. SlotHolders' = SlotHolders
    BY <1>a DEF SlotHolders
  <2>2. QED
    BY <1>a, <2>1 DEF SlotsAccountedFor, MutexHeld
\* A process that has just started has nothing under way.
<1>b. ASSUME LoseProcess, StateTypeOK', leaked' \in Nat PROVE TypeInv'
  <2>1. SlotHolders' = {}
    BY <1>b DEF LoseProcess, SlotHolders, HoldsSlot, InFlight
  <2>2. SlotsAccountedFor'
    BY <1>b, <2>1, FS_EmptySet, LimitsAssumption DEF LoseProcess, SlotsAccountedFor
  <2>3. MutexHeld'
    BY <1>b, ReadersAssumption DEF LoseProcess, MutexHeld
  <2>4. "OK" \in Results
    BY DEF Results
  <2>5. QED
    BY <1>b, <2>2, <2>3, <2>4, ValueTypes DEF LoseProcess, ReaderPC, RowStates
<1>1. CASE Tick /\ UNCHANGED cacheVars
  BY <1>1, <1>a DEF Tick
<1>2. CASE (\E f \in Files : Publish(f)) /\ UNCHANGED cacheVars
  BY <1>2, <1>a DEF Publish
<1>3. CASE Crash
  <2>1. leaked' \in Nat
    BY <1>3, CountsAreNat DEF Crash
  <2>2. QED
    BY <1>3, <1>b, <2>1 DEF Crash
<1>4. CASE Shutdown
  BY <1>4, <1>b DEF Shutdown
<1>5. CASE Mount
  BY <1>5, <1>a, StateTypes DEF Mount
<1>6. QED
  BY <1>1, <1>2, <1>3, <1>4, <1>5 DEF Environment

\* Every step keeps types, slots and mutex right.
LEMMA TypeInvStep == TypeInv /\ [Next]_vars => TypeInv'
<1> SUFFICES ASSUME TypeInv, [Next]_vars PROVE TypeInv'
  OBVIOUS
<1>1. ASSUME NEW r \in Readers, StartRead(r) \/ ContinueRead(r) PROVE TypeInv'
  BY <1>1, TypeInvRead, TypeInvFetch DEF ContinueRead
<1>2. CASE CacheManager
  BY <1>2, TypeInvEvict
<1>3. CASE Environment
  BY <1>3, TypeInvEnvironment
<1>4. CASE UNCHANGED vars
  <2>1. SlotHolders' = SlotHolders
    BY <1>4 DEF vars, cacheVars, SlotHolders
  <2>2. QED
    BY <1>4, <2>1 DEF TypeInv, TypeOK, StateTypeOK, SlotsAccountedFor, MutexHeld,
                      vars, stateVars, cacheVars, readVars, evictVars
<1>5. QED
  BY <1>1, <1>2, <1>3, <1>4 DEF Next

\* The invariant of this section holds throughout.
LEMMA TypeInvAlways == Spec => []TypeInv
  BY TypeInvInit, TypeInvStep, PTL DEF Spec

\* Every variable of the read and cache component stays within its type, with any
\* number of readers and files and whatever fails.
THEOREM TypeCorrect == Spec => []TypeOK
  BY TypeInvAlways, PTL DEF TypeInv

\* downloadSem counts exactly the downloads that hold a slot, never more than its
\* capacity: no path through fetchAndCache leaks a slot or frees one twice.
THEOREM SlotsSafe == Spec => []SlotsAccountedFor
  BY TypeInvAlways, PTL DEF TypeInv

(***************************************************************************)
(* What the cache directory holds.  A file gets there by a rename, and a   *)
(* rename only follows a comparison of hashes; so the argument is about    *)
(* hashes: those of manifests, of rows and of downloads under way all      *)
(* belong to revisions the server has published.                           *)
(***************************************************************************)

PubInv == CacheHoldsPublished /\ HashesArePublished

\* A hash that a manifest of published revisions lists is published.
LEMMA HashInPublished ==
    ASSUME server \in [Files -> Nat], NEW m \in Manifests, NEW f \in Files, m[f] <= server[f]
    PROVE  IsPublishedHash(f, HashIn(m, f))
<1>1. m[f] # 0 => IsPublished(f, ServerCopy(m[f]))
  BY DEF IsPublished, Manifests
<1>2. QED
  BY <1>1 DEF IsPublishedHash, HashIn, Sha256

\* Publishing only adds revisions.
LEMMA PublishedStays ==
    ASSUME server \in [Files -> Nat], server' \in [Files -> Nat],
           NEW f \in Files, server[f] <= server'[f]
    PROVE  /\ \A c : IsPublished(f, c) => IsPublished(f, c)'
           /\ \A h : IsPublishedHash(f, h) => IsPublishedHash(f, h)'
<1>1. 1..server[f] \subseteq 1..server'[f]
  OBVIOUS
<1>2. \A c : IsPublished(f, c) => IsPublished(f, c)'
  BY <1>1 DEF IsPublished
<1>3. QED
  BY <1>2 DEF IsPublishedHash

\* The hash a download is compared with is published.
LEMMA ExpectedIsPublished ==
    ASSUME TypeInv, PubInv, NEW r \in Readers, pc[r] \in InFlight
    PROVE  IsPublishedHash(hfile[r], ExpectedHash(r)) /\ hfile[r] \in Files
<1>1. hfile[r] \in Files
  BY DEF TypeInv, TypeOK, InFlight
<1>2. IsPublishedHash(hfile[r], HashIn(manifest, hfile[r]))
  BY <1>1, HashInPublished DEF TypeInv, TypeOK, StateTypeOK, PubInv, HashesArePublished
<1>3. QED
  BY <1>1, <1>2 DEF ExpectedHash, PubInv, HashesArePublished, DownloadIsPublished

\* The store's updates keep the hash of every row.
LEMMA UpdatesKeepHash ==
    ASSUME StateTypeOK, NEW f \in Files, NEW g \in Files
    PROVE  /\ \A s : UpdateState(f, s)[g].sha = table[g].sha
           /\ UpdateLastAccess(f)[g].sha = table[g].sha
  BY DEF StateTypeOK, Row, UpdateState, UpdateLastAccess

\* A step that leaves the server and the manifest alone has to answer for the
\* hashes it writes to the table, the files it moves into the cache directory and
\* the downloads it begins or carries on.
LEMMA PubFrame ==
    ASSUME PubInv, UNCHANGED <<server, manifest>>, NEW r \in Readers,
           \A f \in Files : IsPublishedHash(f, table'[f].sha),
           \A f \in Files : cacheDir'[f] \in {NoContent, cacheDir[f]} \/ IsPublished(f, cacheDir'[f]),
           \A q \in Readers \ {r} :
              \/ pc'[q] \notin InFlight
              \/ pc'[q] = pc[q] /\ hfile'[q] = hfile[q] /\ want'[q] = want[q] /\ buf'[q] = buf[q],
           DownloadIsPublished(r)'
    PROVE  PubInv'
<1>1. CacheHoldsPublished'
  BY DEF PubInv, CacheHoldsPublished, IsPublished
<1>2. \A f \in Files : (manifest[f] <= server[f] /\ IsPublishedHash(f, table[f].sha))'
  BY DEF PubInv, HashesArePublished, IsPublishedHash, IsPublished
<1>3. ASSUME NEW q \in Readers \ {r} PROVE DownloadIsPublished(q)'
  <2>1. CASE pc'[q] \notin InFlight
    BY <2>1 DEF DownloadIsPublished
  <2>2. CASE pc'[q] = pc[q] /\ hfile'[q] = hfile[q] /\ want'[q] = want[q] /\ buf'[q] = buf[q]
    BY <2>2 DEF DownloadIsPublished, PubInv, HashesArePublished, IsPublishedHash, IsPublished
  <2>3. QED
    BY <2>1, <2>2
<1>4. \A q \in Readers : DownloadIsPublished(q)'
  BY <1>3
<1>5. QED
  BY <1>1, <1>2, <1>4 DEF PubInv, HashesArePublished

\* The steps of a read.
LEMMA PubInvRead ==
    ASSUME TypeInv, PubInv, NEW r \in Readers, StartRead(r) \/ ContinueRead(r)
    PROVE  PubInv'
<1> USE DEF TypeInv, TypeOK, stateVars, readVars, evictVars, GoTo
<1>0. UNCHANGED <<server, manifest>>
  BY DEF StartRead, ContinueRead, OpenRead, ReadLocal, ReadCached, ReadRemote, RangeRead,
         ReadFallback, ReadLoaded, Touch, CheckRow, JoinFlight, LeadFlight, AcquireSlot,
         Download, VerifyTemp, StoreRename, StoreUpsert, MarkCached
<1>t. \A f \in Files : IsPublishedHash(f, table[f].sha)
  BY DEF PubInv, HashesArePublished
<1>u. ASSUME UNCHANGED <<table, cacheDir>>
      PROVE  /\ \A f \in Files : IsPublishedHash(f, table'[f].sha)
             /\ \A f \in Files : cacheDir'[f] \in {NoContent, cacheDir[f]}
  BY <1>u, <1>t
<1>p. \A f, c : IsPublished(f, c)' <=> IsPublished(f, c)
  BY <1>0 DEF IsPublished
<1>e. ASSUME NEW l \in {"failed", "loaded"}, EndFlight(r, l), hfile' = hfile
      PROVE  /\ \A q \in Readers \ {r} :
                  \/ pc'[q] \notin InFlight
                  \/ pc'[q] = pc[q] /\ hfile'[q] = hfile[q] /\ want'[q] = want[q] /\ buf'[q] = buf[q]
             /\ DownloadIsPublished(r)'
  <2>1. pc'[r] \notin InFlight
    BY <1>e DEF EndFlight, InFlight
  <2>2. DownloadIsPublished(r)'
    BY <2>1 DEF DownloadIsPublished
  <2>3. QED
    BY <1>e, <2>2 DEF EndFlight, InFlight
\* Steps that begin no download and carry none on.
<1>1. CASE \/ StartRead(r) \/ RangeRead(r) \/ ReadFallback(r) \/ ReadLoaded(r)
           \/ CheckRow(r) \/ JoinFlight(r)
  <2>1. UNCHANGED <<table, cacheDir>>
    BY <1>1 DEF StartRead, OpenRead, ReadLocal, ReadCached, ReadRemote, RangeRead, ReadFallback,
                ReadLoaded, CheckRow, JoinFlight
  <2>2. \A q \in Readers :
            \/ pc'[q] \notin InFlight
            \/ pc'[q] = pc[q] /\ hfile'[q] = hfile[q] /\ want'[q] = want[q] /\ buf'[q] = buf[q]
    BY <1>1 DEF StartRead, OpenRead, ReadLocal, ReadCached, ReadRemote, RangeRead, ReadFallback,
                ReadLoaded, CheckRow, JoinFlight, Pread, RangeRequest, InFlight
  <2>3. DownloadIsPublished(r)'
    <3>1. CASE pc'[r] \notin InFlight
      BY <3>1 DEF DownloadIsPublished
    <3>2. CASE pc'[r] = pc[r] /\ hfile'[r] = hfile[r] /\ want'[r] = want[r] /\ buf'[r] = buf[r]
      BY <3>2, <1>0 DEF DownloadIsPublished, PubInv, HashesArePublished, IsPublishedHash, IsPublished
    <3>3. QED
      BY <2>2, <3>1, <3>2
  <2>4. QED
    BY <1>0, <1>u, <2>1, <2>2, <2>3, PubFrame
<1>2. CASE Touch(r)
  <2>1. hfile[r] \in Files
    BY <1>2 DEF Touch
  <2>2. \A f \in Files : table'[f].sha = table[f].sha
    BY <1>2, <2>1, UpdatesKeepHash DEF Touch, StoreWrite
  <2>3. DownloadIsPublished(r)'
    BY <1>2 DEF Touch, DownloadIsPublished, InFlight
  <2>4. QED
    BY <1>0, <1>2, <1>t, <2>2, <2>3, PubFrame DEF Touch
<1>3. CASE LeadFlight(r)
  <2>1. UNCHANGED <<table, cacheDir, hfile, buf>> /\ hfile[r] \in Files
    BY <1>3 DEF LeadFlight
  <2>2. \A q \in Readers \ {r} : pc'[q] = pc[q] /\ want'[q] = want[q]
    BY <1>3 DEF LeadFlight
  <2>3. DownloadIsPublished(r)'
    <3>1. CASE pc' = [pc EXCEPT ![r] = "sem"] /\ want' = [want EXCEPT ![r] = table[hfile[r]].sha]
      BY <3>1, <2>1, <1>t, <1>p DEF DownloadIsPublished, IsPublishedHash
    <3>2. CASE pc' = [pc EXCEPT ![r] = "failed"]
      BY <3>2 DEF DownloadIsPublished, InFlight
    <3>3. QED
      BY <1>3, <3>1, <3>2 DEF LeadFlight
  <2>4. QED
    BY <1>0, <1>u, <2>1, <2>2, <2>3, PubFrame
<1>4. CASE AcquireSlot(r)
  <2>1. DownloadIsPublished(r)'
    BY <1>4, <1>p DEF AcquireSlot, DownloadIsPublished, PubInv, HashesArePublished, IsPublishedHash, InFlight
  <2>2. QED
    BY <1>0, <1>4, <1>u, <2>1, PubFrame DEF AcquireSlot
<1>5. CASE Download(r)
  <2>1. CASE /\ \E c \in Responses(hfile[r]) : buf' = [buf EXCEPT ![r] = c]
             /\ GoTo(r, "store") /\ UNCHANGED <<want, flight, sem>>
    <3>1. \A c \in Responses(hfile[r]) : c # NoContent
      BY DEF Responses, ServerCopy, Corrupt, NoContent
    <3>2. DownloadIsPublished(r)'
      BY <1>5, <1>p, <2>1, <3>1
         DEF Download, DownloadIsPublished, PubInv, HashesArePublished, IsPublishedHash, InFlight
    <3>3. QED
      BY <1>0, <1>5, <1>u, <2>1, <3>2, PubFrame DEF Download
  <2>2. CASE EndFlight(r, "failed")
    BY <1>0, <1>5, <1>u, <1>e, <2>2, PubFrame DEF Download
  <2>3. QED
    BY <1>5, <2>1, <2>2 DEF Download
\* Here the hash of what was downloaded is compared with a published one.
<1>6. CASE VerifyTemp(r)
  <2>1. CASE /\ Sha256(buf[r]) = ExpectedHash(r)
             /\ GoTo(r, "rename") /\ UNCHANGED <<want, buf, flight, sem>>
    <3>1. pc[r] = "store" /\ hfile' = hfile
      BY <1>6 DEF VerifyTemp
    <3>2. IsPublishedHash(hfile[r], ExpectedHash(r))
      BY <3>1, ExpectedIsPublished DEF InFlight
    <3>3. buf[r] # NoContent /\ IsPublishedHash(hfile[r], want[r])
      BY <3>1 DEF PubInv, HashesArePublished, DownloadIsPublished, InFlight
    <3>4. IsPublished(hfile[r], buf[r])
      BY <2>1, <3>2, <3>3 DEF IsPublishedHash, Sha256, NoHash
    <3>5. DownloadIsPublished(r)'
      BY <1>p, <2>1, <3>1, <3>3, <3>4 DEF DownloadIsPublished, IsPublishedHash
    <3>6. QED
      BY <1>0, <1>6, <1>u, <2>1, <3>5, PubFrame DEF VerifyTemp
  <2>2. CASE EndFlight(r, "failed")
    BY <1>0, <1>6, <1>u, <1>e, <2>2, PubFrame DEF VerifyTemp
  <2>3. QED
    BY <1>6, <2>1, <2>2 DEF VerifyTemp
<1>7. CASE StoreRename(r)
  <2>0. pc[r] = "rename" /\ hfile' = hfile /\ table' = table /\ hfile[r] \in Files
    BY <1>7 DEF StoreRename
  <2>1. CASE /\ cacheDir' = [cacheDir EXCEPT ![hfile[r]] = buf[r]]
             /\ GoTo(r, "upsert") /\ UNCHANGED <<want, buf, flight, sem>>
    <3>1. IsPublished(hfile[r], buf[r]) /\ IsPublishedHash(hfile[r], want[r])
      BY <2>0 DEF PubInv, HashesArePublished, DownloadIsPublished, InFlight
    <3>2. DownloadIsPublished(r)'
      BY <1>p, <2>0, <2>1, <3>1 DEF DownloadIsPublished, IsPublishedHash
    <3>3. \A f \in Files : cacheDir'[f] \in {NoContent, cacheDir[f]} \/ IsPublished(f, cacheDir'[f])
      BY <2>0, <2>1, <3>1 DEF StateTypeOK
    <3>4. QED
      BY <1>0, <1>t, <2>0, <2>1, <3>2, <3>3, PubFrame
  <2>2. CASE EndFlight(r, "failed") /\ UNCHANGED cacheDir
    BY <1>0, <1>u, <1>e, <2>0, <2>2, PubFrame
  <2>3. QED
    BY <1>7, <2>1, <2>2 DEF StoreRename
<1>8. CASE StoreUpsert(r)
  <2>0. pc[r] = "upsert" /\ hfile' = hfile /\ cacheDir' = cacheDir /\ hfile[r] \in Files
    BY <1>8 DEF StoreUpsert
  <2>1. CASE /\ table' = UpsertFile(hfile[r], CachedRow(ExpectedHash(r)))
             /\ GoTo(r, "mark") /\ UNCHANGED <<want, buf, flight, sem>>
    <3>1. \A f \in Files : IsPublishedHash(f, table'[f].sha)
      BY <1>t, <2>0, <2>1, ExpectedIsPublished DEF UpsertFile, CachedRow, StateTypeOK, InFlight
    <3>2. DownloadIsPublished(r)'
      BY <1>p, <2>0, <2>1
         DEF DownloadIsPublished, PubInv, HashesArePublished, IsPublishedHash, InFlight
    <3>3. QED
      BY <1>0, <2>0, <2>1, <3>1, <3>2, PubFrame
  <2>2. CASE EndFlight(r, "failed") /\ UNCHANGED table
    BY <1>0, <1>u, <1>e, <2>0, <2>2, PubFrame
  <2>3. QED
    BY <1>8, <2>1, <2>2 DEF StoreUpsert
<1>9. CASE MarkCached(r)
  <2>1. \A f \in Files : table'[f].sha = table[f].sha
    BY <1>9, UpdatesKeepHash DEF MarkCached
  <2>2. PICK l \in {"failed", "loaded"} : EndFlight(r, l)
    BY <1>9 DEF MarkCached
  <2>3. QED
    BY <1>0, <1>9, <1>t, <1>e, <2>1, <2>2, PubFrame DEF MarkCached
<1>10. QED
  BY <1>1, <1>2, <1>3, <1>4, <1>5, <1>6, <1>7, <1>8, <1>9 DEF ContinueRead

\* The CacheManager only deletes files and changes the state of rows.
LEMMA PubInvEvict ==
    ASSUME TypeInv, PubInv, CacheManager
    PROVE  PubInv'
<1>1. UNCHANGED <<server, manifest, pc, hfile, want, buf>>
  BY DEF CacheManager, EvictTick, EvictList, EvictRemove, EvictUpdate, stateVars, readVars
<1>2. \A f \in Files : table'[f].sha = table[f].sha
  <2>1. CASE EvictUpdate
    <3>1. Head(elist) \in Files
      BY <2>1, HeadTailProperties DEF EvictUpdate, TypeInv, TypeOK, MutexHeld
    <3>2. QED
      BY <2>1, <3>1, UpdatesKeepHash DEF EvictUpdate, StoreWrite, TypeInv, TypeOK
  <2>2. CASE ~EvictUpdate
    BY <2>2 DEF CacheManager, EvictTick, EvictList, EvictRemove, stateVars
  <2>3. QED
    BY <2>1, <2>2
<1>3. \A f \in Files : cacheDir'[f] \in {NoContent, cacheDir[f]}
  BY DEF CacheManager, EvictTick, EvictList, EvictRemove, EvictUpdate, stateVars,
         TypeInv, TypeOK, StateTypeOK
<1>4. CacheHoldsPublished'
  BY <1>1, <1>3 DEF PubInv, CacheHoldsPublished, IsPublished
<1>5. HashesArePublished'
  BY <1>1, <1>2 DEF PubInv, HashesArePublished, DownloadIsPublished, IsPublishedHash, IsPublished
<1>6. QED
  BY <1>4, <1>5 DEF PubInv

\* Mounting takes hashes from the stored rows and from a manifest.
LEMMA MountRowPublished ==
    ASSUME TypeInv, PubInv, NEW m \in Manifests, NEW f \in Files, m[f] <= server[f],
           NEW new \in MountRows(m, f)
    PROVE  IsPublishedHash(f, new.sha)
<1>1. IsPublishedHash(f, HashIn(m, f)) /\ IsPublishedHash(f, table[f].sha)
  BY HashInPublished DEF TypeInv, TypeOK, StateTypeOK, PubInv, HashesArePublished
<1>2. IsPublishedHash(f, NoHash)
  BY DEF IsPublishedHash
<1>3. ActiveRow.sha = NoHash /\ NoRow.sha = NoHash /\ RemoteRow(HashIn(m, f)).sha = HashIn(m, f)
  BY DEF ActiveRow, NoRow, RemoteRow
<1>4. \A row \in WithoutOrphans(f) : IsPublishedHash(f, row.sha)
  BY <1>1, <1>2, <1>3, WithoutOrphansCases
<1>5. \/ new \in WithoutOrphans(f)
      \/ new = RemoteRow(HashIn(m, f))
      \/ new.sha = HashIn(m, f)
  BY MountRowCases DEF TypeInv, TypeOK
<1>6. QED
  BY <1>1, <1>3, <1>4, <1>5

\* The server, the clock, crashes, shutdowns and mounts.
LEMMA PubInvEnvironment ==
    ASSUME TypeInv, PubInv, Environment
    PROVE  PubInv'
<1> USE DEF TypeInv, TypeOK, StateTypeOK, cacheVars, readVars
<1>1. CASE Tick /\ UNCHANGED cacheVars
  BY <1>1 DEF Tick, PubInv, CacheHoldsPublished, HashesArePublished, DownloadIsPublished,
              IsPublishedHash, IsPublished
<1>2. ASSUME NEW f \in Files, Publish(f), UNCHANGED cacheVars PROVE PubInv'
  <2>1. server' \in [Files -> Nat] /\ \A g \in Files : server[g] <= server'[g]
    BY <1>2 DEF Publish
  <2>2. \A g \in Files : \A c : IsPublished(g, c) => IsPublished(g, c)'
    BY <2>1, PublishedStays
  <2>3. \A g \in Files : \A h : IsPublishedHash(g, h) => IsPublishedHash(g, h)'
    BY <2>1, PublishedStays
  <2>4. UNCHANGED <<table, cacheDir, manifest, pc, hfile, want, buf>>
    BY <1>2 DEF Publish
  <2>5. CacheHoldsPublished'
    BY <2>2, <2>4 DEF PubInv, CacheHoldsPublished
  <2>6. \A g \in Files : (manifest[g] <= server[g])'
    BY <2>1, <2>4 DEF PubInv, HashesArePublished, Manifests
  <2>7. \A g \in Files : IsPublishedHash(g, table[g].sha)'
    BY <2>3, <2>4 DEF PubInv, HashesArePublished
  <2>8. ASSUME NEW q \in Readers PROVE DownloadIsPublished(q)'
    <3>1. pc[q] \in InFlight => hfile[q] \in Files
      BY DEF InFlight
    <3>2. DownloadIsPublished(q)
      BY DEF PubInv, HashesArePublished
    <3>3. QED
      BY <2>2, <2>3, <2>4, <3>1, <3>2 DEF DownloadIsPublished
  <2>9. QED
    BY <2>5, <2>6, <2>7, <2>8 DEF PubInv, HashesArePublished
<1>3. CASE Crash \/ Shutdown
  <2>1. UNCHANGED <<table, cacheDir, server, manifest>> /\ LoseProcess
    BY <1>3 DEF Crash, Shutdown
  <2>2. \A q \in Readers : pc'[q] \notin InFlight
    BY <2>1 DEF LoseProcess, InFlight
  <2>3. \A q \in Readers : DownloadIsPublished(q)'
    BY <2>2 DEF DownloadIsPublished
  <2>4. CacheHoldsPublished'
    BY <2>1 DEF PubInv, CacheHoldsPublished, IsPublished
  <2>5. \A f \in Files : (manifest[f] <= server[f] /\ IsPublishedHash(f, table[f].sha))'
    BY <2>1 DEF PubInv, HashesArePublished, IsPublishedHash, IsPublished
  <2>6. QED
    BY <2>3, <2>4, <2>5 DEF PubInv, HashesArePublished
<1>4. CASE Mount
  <2>1. PICK m \in InitialManifests :
            manifest' = m /\ \A f \in Files : table'[f] \in MountRows(m, f)
    BY <1>4, MountTable DEF Mount
  <2>2. UNCHANGED <<cacheDir, server, pc, hfile, want, buf>>
    BY <1>4 DEF Mount, MountState
  <2>3. ServerManifest \in Manifests /\ \A f \in Files : ServerManifest[f] <= server[f]
    BY DEF ServerManifest, Manifests
  <2>4. m \in Manifests /\ \A f \in Files : m[f] <= server[f]
    BY <2>3 DEF InitialManifests, PubInv, HashesArePublished
  <2>5. \A f \in Files : IsPublishedHash(f, table'[f].sha)
    BY <2>1, <2>4, MountRowPublished
  <2>6. \A f \in Files : (manifest[f] <= server[f] /\ IsPublishedHash(f, table[f].sha))'
    BY <2>1, <2>2, <2>4, <2>5 DEF IsPublishedHash, IsPublished
  <2>7. CacheHoldsPublished' /\ \A q \in Readers : DownloadIsPublished(q)'
    BY <2>2 DEF PubInv, CacheHoldsPublished, HashesArePublished, DownloadIsPublished,
                IsPublishedHash, IsPublished
  <2>8. QED
    BY <2>6, <2>7 DEF PubInv, HashesArePublished
<1>5. QED
  BY <1>1, <1>2, <1>3, <1>4 DEF Environment

\* At the first mount the cache is empty and all hashes come from one manifest.
LEMMA PubInvInit == Init => PubInv
<1> SUFFICES ASSUME Init PROVE PubInv
  OBVIOUS
<1> USE DEF Init, StateInit, FreshProcess
<1>1. server \in [Files -> Nat] /\ manifest \in Manifests /\ \A f \in Files : manifest[f] <= server[f]
  <2>1. server \in [Files -> Nat]
    BY BoundsAssumption
  <2>2. QED
    BY <2>1 DEF ServerManifest, Manifests
<1>2. \A f \in Files : IsPublishedHash(f, HashIn(manifest, f)) /\ IsPublishedHash(f, NoHash)
  BY <1>1, HashInPublished DEF IsPublishedHash
<1>3. \A f \in Files : table[f].sha \in {NoHash, HashIn(manifest, f)}
  BY DEF ActiveRow, RemoteRow, NoRow
<1>4. \A f \in Files : IsPublishedHash(f, table[f].sha)
  BY <1>2, <1>3
<1>5. \A r \in Readers : DownloadIsPublished(r)
  BY DEF DownloadIsPublished, InFlight
<1>6. CacheHoldsPublished
  BY DEF CacheHoldsPublished
<1>7. QED
  BY <1>1, <1>4, <1>5, <1>6 DEF PubInv, HashesArePublished

\* No step puts an unpublished hash or file anywhere.
LEMMA PubInvStep == TypeInv /\ PubInv /\ [Next]_vars => PubInv'
<1> SUFFICES ASSUME TypeInv, PubInv, [Next]_vars PROVE PubInv'
  OBVIOUS
<1>1. ASSUME NEW r \in Readers, StartRead(r) \/ ContinueRead(r) PROVE PubInv'
  BY <1>1, PubInvRead
<1>2. CASE CacheManager
  BY <1>2, PubInvEvict
<1>3. CASE Environment
  BY <1>3, PubInvEnvironment
<1>4. CASE UNCHANGED vars
  BY <1>4 DEF vars, stateVars, cacheVars, readVars, PubInv, CacheHoldsPublished,
              HashesArePublished, DownloadIsPublished, IsPublishedHash, IsPublished
<1>5. QED
  BY <1>1, <1>2, <1>3, <1>4 DEF Next

\* The cache directory never holds bytes the server has not published under that
\* name: damaged downloads, failing writes, evictions and crashes at any point
\* between temp file, rename and upsert included.
THEOREM CacheIntegrity == Spec => []CacheHoldsPublished
<1>1. PubInv => CacheHoldsPublished
  BY DEF PubInv
<1>2. QED
  BY <1>1, TypeInvAlways, PubInvInit, PubInvStep, PTL DEF Spec

(***************************************************************************)
(* One download per file.                                                  *)
(***************************************************************************)

\* Who leads a download is the one flight names, and who waits has someone to
\* wait for.
FlightInv ==
    /\ \A r \in Readers : pc[r] \in InFlight => flight[hfile[r]] = r
    /\ \A f \in Files : flight[f] # NoReader => pc[flight[f]] \in InFlight /\ hfile[flight[f]] = f
    /\ \A r \in Readers : pc[r] = "wait" => flight[hfile[r]] # NoReader

\* A step that starts no download, ends none and joins none.
LEMMA FlightFrame ==
    ASSUME TypeInv, FlightInv, UNCHANGED flight,
           \A q \in Readers : /\ pc'[q] \in InFlight <=> pc[q] \in InFlight
                              /\ pc'[q] = "wait" => pc[q] = "wait"
                              /\ pc[q] # "idle" => hfile'[q] = hfile[q]
    PROVE  FlightInv'
<1>1. "idle" \notin InFlight /\ "wait" \notin InFlight
  BY DEF InFlight
<1>2. \A f \in Files : flight[f] # NoReader => flight[f] \in Readers
  BY DEF TypeInv, TypeOK
<1>3. QED
  BY <1>1, <1>2 DEF FlightInv

\* The end of a download wakes everyone who waits for it.
LEMMA FlightEnds ==
    ASSUME TypeInv, FlightInv, NEW r \in Readers, pc[r] \in InFlight,
           NEW l \in {"failed", "loaded"}, EndFlight(r, l), UNCHANGED hfile
    PROVE  FlightInv'
<1> USE DEF TypeInv, TypeOK
<1>1. hfile[r] \in Files /\ flight[hfile[r]] = r /\ r # NoReader
  BY ReadersAssumption DEF FlightInv, InFlight
<1>2. flight' = [flight EXCEPT ![hfile[r]] = NoReader]
  BY DEF EndFlight
<1>3. \A q \in Readers : pc'[q] \in InFlight => pc[q] \in InFlight /\ q # r /\ pc'[q] = pc[q]
  BY DEF EndFlight, InFlight
<1>4. \A q \in Readers : pc'[q] # pc[q] => q = r \/ (pc[q] = "wait" /\ hfile[q] = hfile[r])
  BY DEF EndFlight
<1>5. \A q \in Readers : pc'[q] \in InFlight => flight'[hfile'[q]] = q
  <2>1. \A q \in Readers : pc'[q] \in InFlight => hfile[q] # hfile[r] /\ hfile[q] \in Files
    BY <1>1, <1>3 DEF FlightInv, InFlight
  <2>2. QED
    BY <1>2, <1>3, <2>1 DEF FlightInv
<1>6. \A f \in Files : flight'[f] # NoReader =>
          pc'[flight'[f]] \in InFlight /\ hfile'[flight'[f]] = f
  <2> SUFFICES ASSUME NEW f \in Files, flight'[f] # NoReader
               PROVE  pc'[flight'[f]] \in InFlight /\ hfile'[flight'[f]] = f
    OBVIOUS
  <2>1. f # hfile[r] /\ flight'[f] = flight[f]
    BY <1>1, <1>2
  <2>2. flight[f] \in Readers /\ pc[flight[f]] \in InFlight /\ hfile[flight[f]] = f
    BY <2>1 DEF FlightInv
  <2>3. pc'[flight[f]] = pc[flight[f]]
    BY <1>4, <2>1, <2>2 DEF InFlight
  <2>4. QED
    BY <2>1, <2>2, <2>3
<1>7. \A q \in Readers : pc'[q] = "wait" => flight'[hfile'[q]] # NoReader
  <2>1. \A q \in Readers : pc'[q] = "wait" => pc[q] = "wait" /\ hfile[q] # hfile[r]
    BY DEF EndFlight, InFlight
  <2>2. QED
    BY <1>2, <2>1 DEF FlightInv
<1>8. QED
  BY <1>5, <1>6, <1>7 DEF FlightInv

\* Every step of a read keeps the flights right.
LEMMA FlightInvRead ==
    ASSUME TypeInv, FlightInv, NEW r \in Readers, StartRead(r) \/ ContinueRead(r)
    PROVE  FlightInv'
<1> USE DEF TypeInv, TypeOK, readVars, GoTo
<1>1. CASE \/ StartRead(r) \/ RangeRead(r) \/ ReadFallback(r) \/ ReadLoaded(r)
           \/ Touch(r) \/ CheckRow(r) \/ AcquireSlot(r)
  <2>1. UNCHANGED flight /\ \A q \in Readers : pc[q] # "idle" => hfile'[q] = hfile[q]
    BY <1>1 DEF StartRead, OpenRead, ReadLocal, ReadCached, ReadRemote, RangeRead, ReadFallback,
                ReadLoaded, Touch, CheckRow, AcquireSlot
  <2>2. \A q \in Readers : /\ pc'[q] \in InFlight <=> pc[q] \in InFlight
                           /\ pc'[q] = "wait" => pc[q] = "wait"
    BY <1>1 DEF StartRead, OpenRead, ReadLocal, ReadCached, ReadRemote, RangeRead, ReadFallback,
                ReadLoaded, Touch, CheckRow, AcquireSlot, Pread, RangeRequest, InFlight
  <2>3. QED
    BY <2>1, <2>2, FlightFrame
<1>2. CASE JoinFlight(r)
  BY <1>2 DEF JoinFlight, FlightInv, InFlight
<1>3. CASE LeadFlight(r)
  <2>0. pc[r] = "do" /\ hfile' = hfile /\ hfile[r] \in Files /\ flight[hfile[r]] = NoReader
    BY <1>3 DEF LeadFlight
  <2>1. CASE flight' = [flight EXCEPT ![hfile[r]] = r] /\ GoTo(r, "sem")
    <3>1. \A q \in Readers : pc[q] \in InFlight \/ pc[q] = "wait" => hfile[q] # hfile[r] /\ hfile[q] \in Files
      BY <2>0, ReadersAssumption DEF FlightInv, InFlight
    <3>2. \A f \in Files : f # hfile[r] => flight'[f] = flight[f]
      BY <2>1
    <3>3. \A q \in Readers \ {r} : pc'[q] = pc[q]
      BY <2>1
    <3>4. pc'[r] = "sem" /\ flight'[hfile[r]] = r
      BY <2>0, <2>1
    <3>5. \A f \in Files : f # hfile[r] /\ flight[f] # NoReader => flight[f] \in Readers \ {r}
      BY <2>0 DEF FlightInv, InFlight
    <3>6. \A q \in Readers : pc'[q] \in InFlight => flight'[hfile'[q]] = q
      BY <2>0, <3>1, <3>2, <3>3, <3>4 DEF FlightInv
    <3>7. \A f \in Files : flight'[f] # NoReader =>
              pc'[flight'[f]] \in InFlight /\ hfile'[flight'[f]] = f
      BY <2>0, <3>2, <3>3, <3>4, <3>5 DEF FlightInv, InFlight
    <3>8. \A q \in Readers : pc'[q] = "wait" => flight'[hfile'[q]] # NoReader
      BY <2>0, <3>1, <3>2, <3>3, <3>4 DEF FlightInv
    <3>9. QED
      BY <3>6, <3>7, <3>8 DEF FlightInv
  <2>2. CASE UNCHANGED flight /\ GoTo(r, "failed")
    BY <2>0, <2>2, FlightFrame DEF InFlight
  <2>3. QED
    BY <1>3, <2>1, <2>2 DEF LeadFlight
<1>4. CASE Download(r) \/ VerifyTemp(r) \/ StoreRename(r) \/ StoreUpsert(r) \/ MarkCached(r)
  <2>0. pc[r] \in InFlight /\ hfile' = hfile
    BY <1>4 DEF Download, VerifyTemp, StoreRename, StoreUpsert, MarkCached, InFlight
  <2>1. CASE \E l \in {"failed", "loaded"} : EndFlight(r, l)
    BY <2>0, <2>1, FlightEnds
  <2>2. CASE \E l \in {"store", "rename", "upsert", "mark"} : GoTo(r, l) /\ UNCHANGED flight
    BY <2>0, <2>2, FlightFrame DEF InFlight
  <2>3. QED
    BY <1>4, <2>1, <2>2 DEF Download, VerifyTemp, StoreRename, StoreUpsert, MarkCached
<1>5. QED
  BY <1>1, <1>2, <1>3, <1>4 DEF ContinueRead

\* Every step keeps the flights right.
LEMMA FlightInvStep == TypeInv /\ FlightInv /\ [Next]_vars => FlightInv'
<1> SUFFICES ASSUME TypeInv, FlightInv, [Next]_vars PROVE FlightInv'
  OBVIOUS
<1> USE DEF readVars, cacheVars
<1>1. ASSUME NEW r \in Readers, StartRead(r) \/ ContinueRead(r) PROVE FlightInv'
  BY <1>1, FlightInvRead
<1>2. CASE Crash \/ Shutdown
  BY <1>2 DEF Crash, Shutdown, LoseProcess, FlightInv, InFlight
<1>3. CASE UNCHANGED <<pc, hfile, flight>>
  BY <1>3, FlightFrame
<1>4. CASE CacheManager
  BY <1>3, <1>4 DEF CacheManager, EvictTick, EvictList, EvictRemove, EvictUpdate
<1>5. CASE UNCHANGED cacheVars
  BY <1>3, <1>5
<1>6. QED
  BY <1>1, <1>2, <1>4, <1>5 DEF Next, Environment, Mount, vars

\* A file is downloaded by at most one reader at a time, and no reader waits for a
\* download that is over.
THEOREM SingleFlight == Spec => []OneFlightPerFile
<1>1. Init => FlightInv
  BY DEF Init, FreshProcess, FlightInv, InFlight
<1>2. TypeInv /\ FlightInv => OneFlightPerFile
  BY DEF TypeInv, TypeOK, FlightInv, OneFlightPerFile
<1>3. QED
  BY <1>1, <1>2, TypeInvAlways, FlightInvStep, PTL DEF Spec

(***************************************************************************)
(* FileCache implements FileLifecycle: readers and the CacheManager move   *)
(* rows between REMOTE and CACHED and touch no other state, and a mount    *)
(* re-classifies rows only as the abstract module allows.                  *)
(***************************************************************************)

\* The states a file of the server can be in.
ServerStates == {"REMOTE", "CACHED"}

\* The rows that a read or an eviction under way will write to are REMOTE or
\* CACHED, and nothing is under way while the daemon is down.
RowInv ==
    /\ \A r \in Readers : hstate[r] \in ServerStates => table[hfile[r]].state \in ServerStates
    /\ \A r \in Readers : pc[r] \notin {"idle", "touch"} => hstate[r] = "REMOTE"
    /\ \A i \in 1..Len(elist) : table[elist[i]].state \in ServerStates
    /\ ~up => epc = "idle" /\ \A r \in Readers : pc[r] = "idle" /\ hstate[r] = "NONE"
    /\ epc \in {"idle", "list"} => elist = <<>>

StatesKept == \A g \in Files : table'[g].state = table[g].state

\* One row goes from REMOTE or CACHED to REMOTE or CACHED.
OneMoves ==
    \E f \in Files, s \in ServerStates :
        /\ table[f].state \in ServerStates
        /\ \A g \in Files : table'[g].state = IF g = f THEN s ELSE table[g].state

\* What the store's writes do to the states of rows.
LEMMA WritesMoveOne ==
    ASSUME StateTypeOK, NEW f \in Files, table[f].state \in ServerStates
    PROVE  /\ \A row \in Row : row.state \in ServerStates /\ table' = UpsertFile(f, row) => OneMoves
           /\ \A s \in ServerStates : table' = UpdateState(f, s) => OneMoves
<1>1. ASSUME NEW row \in Row, row.state \in ServerStates, table' = UpsertFile(f, row)
      PROVE  OneMoves
  BY <1>1 DEF StateTypeOK, OneMoves, UpsertFile
<1>2. ASSUME NEW s \in ServerStates, table' = UpdateState(f, s)
      PROVE  OneMoves
  <2>1. HasRow(f)
    BY DEF HasRow, ServerStates
  <2>2. \A g \in Files : table'[g].state = IF g = f THEN s ELSE table[g].state
    BY <1>2, <2>1 DEF UpdateState, StateTypeOK, Row
  <2>3. QED
    BY <2>2 DEF OneMoves
<1>3. QED
  BY <1>1, <1>2

\* Touching a row keeps its state, also when there is no row.
LEMMA TouchKeepsStates ==
    ASSUME StateTypeOK, NEW f \in Files, table' = UpdateLastAccess(f)
    PROVE  StatesKept
  BY DEF StateTypeOK, Row, StatesKept, UpdateLastAccess

\* A step of a reader moves at most one row.
LEMMA ReaderMovesOne ==
    ASSUME TypeInv, RowInv, NEW r \in Readers, StartRead(r) \/ ContinueRead(r)
    PROVE  StatesKept \/ OneMoves
<1> USE DEF TypeInv, TypeOK
<1>1. CASE UNCHANGED table
  BY <1>1 DEF StatesKept
<1>2. CASE Touch(r)
  BY <1>2, <1>1, TouchKeepsStates DEF Touch, StoreWrite
<1>3. CASE StoreUpsert(r)
  <2>0. pc[r] = "upsert"
    BY <1>3 DEF StoreUpsert
  <2>1. hfile[r] \in Files /\ table[hfile[r]].state \in ServerStates
    BY <2>0 DEF RowInv, ServerStates
  <2>2. CachedRow(ExpectedHash(r)) \in Row /\ CachedRow(ExpectedHash(r)).state \in ServerStates
    BY <2>1, HashInType DEF CachedRow, ExpectedHash, Row, RowStates, FileStates, ServerStates, StateTypeOK
  <2>3. QED
    BY <1>1, <1>3, <2>1, <2>2, WritesMoveOne DEF StoreUpsert
<1>4. CASE MarkCached(r)
  <2>0. pc[r] = "mark"
    BY <1>4 DEF MarkCached
  <2>1. hfile[r] \in Files /\ table[hfile[r]].state \in ServerStates
    BY <2>0 DEF RowInv, ServerStates
  <2>2. "CACHED" \in ServerStates
    BY DEF ServerStates
  <2>3. QED
    BY <1>1, <1>4, <2>1, <2>2, WritesMoveOne DEF MarkCached
<1>5. QED
  BY <1>1, <1>2, <1>3, <1>4
     DEF StartRead, ContinueRead, OpenRead, ReadLocal, ReadCached, ReadRemote, RangeRead,
         ReadFallback, ReadLoaded, CheckRow, JoinFlight, LeadFlight, AcquireSlot, Download,
         VerifyTemp, StoreRename, stateVars

\* A step of the CacheManager moves at most one row.
LEMMA EvictorMovesOne ==
    ASSUME TypeInv, RowInv, CacheManager
    PROVE  StatesKept \/ OneMoves
<1> USE DEF TypeInv, TypeOK
<1>1. CASE UNCHANGED table
  BY <1>1 DEF StatesKept
<1>2. CASE EvictUpdate
  <2>1. elist # <<>> /\ Len(elist) \in Nat \ {0}
    BY <1>2, EmptySeq DEF EvictUpdate, MutexHeld
  <2>2. Head(elist) = elist[1] /\ elist[1] \in Files /\ table[elist[1]].state \in ServerStates
    BY <2>1 DEF RowInv
  <2>3. "REMOTE" \in ServerStates
    BY DEF ServerStates
  <2>4. QED
    BY <1>1, <1>2, <2>2, <2>3, WritesMoveOne DEF EvictUpdate, StoreWrite
<1>3. QED
  BY <1>1, <1>2 DEF CacheManager, EvictTick, EvictList, EvictRemove, stateVars

\* RowInv after a step that moves rows only between REMOTE and CACHED: what is
\* left to show is about the readers, the list of victims and the daemon.
LEMMA RowFrame ==
    ASSUME TypeInv, RowInv, StatesKept \/ OneMoves,
           \A q \in Readers : \/ hstate'[q] \in {hstate[q], "CACHED"} /\ hfile'[q] = hfile[q]
                                 /\ (hstate[q] = "REMOTE" \/ hstate'[q] = hstate[q])
                              \/ hstate'[q] = table'[hfile'[q]].state,
           \A q \in Readers : pc'[q] \notin {"idle", "touch"} => hstate'[q] = "REMOTE",
           \A i \in 1..Len(elist') : elist'[i] \in CachedRows \/ \E j \in 1..Len(elist) : elist'[i] = elist[j],
           ~up' => epc' = "idle" /\ \A r \in Readers : pc'[r] = "idle" /\ hstate'[r] = "NONE",
           epc' \in {"idle", "list"} => elist' = <<>>
    PROVE  RowInv'
<1>1. \A f : f \in Files /\ table[f].state \in ServerStates => table'[f].state \in ServerStates
  BY DEF StatesKept, OneMoves
<1>2. \A q \in Readers : hstate'[q] \in ServerStates => table'[hfile'[q]].state \in ServerStates
  <2>1. \A q \in Readers : hstate[q] \in ServerStates =>
            hfile[q] \in Files /\ table[hfile[q]].state \in ServerStates
    BY DEF TypeInv, TypeOK, RowInv, ServerStates
  <2>2. "REMOTE" \in ServerStates /\ "CACHED" \in ServerStates
    BY DEF ServerStates
  <2>3. QED
    BY <1>1, <2>1, <2>2
<1>3. \A i \in 1..Len(elist') : table'[elist'[i]].state \in ServerStates
  <2>1. \A f \in CachedRows : f \in Files /\ table[f].state \in ServerStates
    BY DEF CachedRows, ServerStates
  <2>2. \A j \in 1..Len(elist) : elist[j] \in Files /\ table[elist[j]].state \in ServerStates
    BY DEF TypeInv, TypeOK, RowInv
  <2>3. QED
    BY <1>1, <2>1, <2>2
<1>4. QED
  BY <1>2, <1>3 DEF RowInv

\* The steps of a read.
LEMMA RowInvRead ==
    ASSUME TypeInv, RowInv, NEW r \in Readers, StartRead(r) \/ ContinueRead(r)
    PROVE  RowInv'
<1> USE DEF readVars, evictVars, stateVars, GoTo
<1>1. UNCHANGED <<epc, elist, up>> /\ (StatesKept \/ OneMoves)
  BY ReaderMovesOne
     DEF StartRead, ContinueRead, OpenRead, ReadLocal, ReadCached, ReadRemote, RangeRead,
         ReadFallback, ReadLoaded, Touch, CheckRow, JoinFlight, LeadFlight, AcquireSlot, Download,
         VerifyTemp, StoreRename, StoreUpsert, MarkCached
<1>2. up
  <2>1. ASSUME ~up PROVE FALSE
    <3>1. pc[r] = "idle" /\ hstate[r] = "NONE"
      BY <2>1 DEF RowInv
    <3>2. QED
      BY <2>1, <3>1
         DEF StartRead, ContinueRead, OpenRead, ReadLocal, ReadCached, ReadRemote, RangeRead,
             ReadFallback, ReadLoaded, Touch, CheckRow, JoinFlight, LeadFlight, AcquireSlot, Download,
             VerifyTemp, StoreRename, StoreUpsert, MarkCached, IsLocal
  <2>2. QED
    BY <2>1
<1>a. \A q \in Readers : pc[q] \notin {"idle", "touch"} => hstate[q] = "REMOTE"
  BY DEF RowInv
<1>3. ASSUME UNCHANGED <<hfile, hstate>>,
             \A q \in Readers : pc'[q] \notin {"idle", "touch"} => hstate[q] = "REMOTE"
      PROVE  RowInv'
  BY <1>1, <1>2, <1>3, RowFrame DEF RowInv
<1>4. CASE \E f \in Files : OpenRead(r, f)
  <2>1. PICK f \in Files : OpenRead(r, f)
    BY <1>4
  <2>2. hstate' = [hstate EXCEPT ![r] = table[f].state] /\ hfile' = [hfile EXCEPT ![r] = f]
        /\ table' = table /\ pc' = pc /\ pc[r] = "idle"
    BY <2>1 DEF OpenRead
  <2>3. \A q \in Readers : \/ hstate'[q] = hstate[q] /\ hfile'[q] = hfile[q]
                           \/ hstate'[q] = table'[hfile'[q]].state
    BY <2>2 DEF TypeInv, TypeOK
  <2>4. \A q \in Readers : pc'[q] \notin {"idle", "touch"} => hstate'[q] = "REMOTE"
    BY <1>a, <2>2 DEF TypeInv, TypeOK
  <2>5. QED
    BY <1>1, <1>2, <2>3, <2>4, RowFrame DEF RowInv
<1>5. CASE ReadLoaded(r)
  <2>1. hfile' = hfile /\ hstate' = [hstate EXCEPT ![r] = "CACHED"] /\ hstate[r] = "REMOTE"
    BY <1>5, <1>a DEF ReadLoaded
  <2>2. \A q \in Readers : /\ hstate'[q] \in {hstate[q], "CACHED"}
                           /\ (hstate[q] = "REMOTE" \/ hstate'[q] = hstate[q])
    BY <2>1 DEF TypeInv, TypeOK
  <2>3. \A q \in Readers : pc'[q] \notin {"idle", "touch"} => hstate'[q] = "REMOTE"
    BY <1>5, <1>a, <2>1 DEF ReadLoaded, Pread, TypeInv, TypeOK
  <2>4. QED
    BY <1>1, <1>2, <2>1, <2>2, <2>3, RowFrame DEF RowInv
<1>6. CASE ReadLocal(r) \/ ReadCached(r) \/ ReadRemote(r)
  BY <1>3, <1>6, <1>a DEF ReadLocal, ReadCached, ReadRemote, Pread, TypeInv, TypeOK
<1>7. CASE RangeRead(r) \/ ReadFallback(r) \/ Touch(r) \/ CheckRow(r) \/ JoinFlight(r)
           \/ LeadFlight(r) \/ AcquireSlot(r)
  BY <1>3, <1>7, <1>a
     DEF RangeRead, ReadFallback, RangeRequest, Touch, CheckRow, JoinFlight, LeadFlight,
         AcquireSlot, TypeInv, TypeOK
<1>8. CASE Download(r) \/ VerifyTemp(r) \/ StoreRename(r) \/ StoreUpsert(r) \/ MarkCached(r)
  <2>1. hfile' = hfile /\ hstate' = hstate /\ pc[r] \notin {"idle", "touch"}
    BY <1>8 DEF Download, VerifyTemp, StoreRename, StoreUpsert, MarkCached
  <2>2. \A q \in Readers : pc'[q] # pc[q] => pc[q] \notin {"idle", "touch"}
    <3>1. CASE \E l : EndFlight(r, l)
      BY <2>1, <3>1 DEF EndFlight
    <3>2. CASE \E l : GoTo(r, l)
      BY <2>1, <3>2 DEF TypeInv, TypeOK
    <3>3. QED
      BY <1>8, <3>1, <3>2 DEF Download, VerifyTemp, StoreRename, StoreUpsert, MarkCached
  <2>3. QED
    BY <1>3, <1>a, <2>1, <2>2
<1>9. QED
  BY <1>4, <1>5, <1>6, <1>7, <1>8 DEF StartRead, ContinueRead

\* The steps of the CacheManager.
LEMMA RowInvEvict ==
    ASSUME TypeInv, RowInv, CacheManager
    PROVE  RowInv'
<1> USE DEF readVars, stateVars
<1>1. UNCHANGED <<pc, hfile, hstate, up>> /\ (StatesKept \/ OneMoves)
  BY EvictorMovesOne DEF CacheManager, EvictTick, EvictList, EvictRemove, EvictUpdate
<1>2. up
  BY DEF RowInv, CacheManager, EvictTick, EvictList, EvictRemove, EvictUpdate
<1>3. ASSUME \A i \in 1..Len(elist') : elist'[i] \in CachedRows \/ \E j \in 1..Len(elist) : elist'[i] = elist[j],
             epc' \in {"idle", "list"} => elist' = <<>>
      PROVE  RowInv'
  BY <1>1, <1>2, <1>3, RowFrame DEF RowInv
<1>4. CASE EvictTick
  BY <1>3, <1>4 DEF EvictTick, RowInv
<1>5. CASE EvictList
  <2>1. \A s \in ListCachedByLRU(ecount) : \A i \in 1..Len(s) : s[i] \in CachedRows
    <3>1. \A k \in Nat : \A s \in [1..k -> CachedRows] : \A i \in 1..Len(s) : s[i] \in CachedRows
      OBVIOUS
    <3>2. 0..Cardinality(CachedRows) \subseteq Nat
      BY CountsAreNat
    <3>3. QED
      BY <3>1, <3>2 DEF ListCachedByLRU
  <2>2. QED
    BY <1>3, <1>5, <2>1 DEF EvictList, RowInv
<1>6. CASE EvictRemove \/ EvictUpdate
  <2>0. elist # <<>> /\ elist \in Seq(Files) /\ epc \in {"remove", "update"}
    BY <1>6 DEF EvictRemove, EvictUpdate, TypeInv, TypeOK, MutexHeld
  <2>1. CASE UNCHANGED elist /\ epc' = "update"
    BY <1>3, <2>1
  <2>2. CASE NextVictim
    <3>1. /\ Tail(elist) \in Seq(Files) /\ Len(Tail(elist)) = Len(elist) - 1
          /\ \A i \in 1..Len(Tail(elist)) : Tail(elist)[i] = elist[i + 1]
      BY <2>0, HeadTailProperties
    <3>2. Len(elist) \in Nat /\ Len(Tail(elist)) \in Nat
      BY <2>0, <3>1, LenProperties
    <3>3. \A i \in 1..Len(Tail(elist)) : i + 1 \in 1..Len(elist)
      BY <3>1, <3>2
    <3>4. \A i \in 1..Len(elist') : \E j \in 1..Len(elist) : elist'[i] = elist[j]
      BY <2>2, <3>1, <3>3 DEF NextVictim
    <3>5. epc' \in {"idle", "list"} => elist' = <<>>
      BY <2>2, <3>1, <3>2, EmptySeq DEF NextVictim
    <3>6. QED
      BY <1>3, <3>4, <3>5
  <2>3. QED
    BY <1>6, <2>1, <2>2 DEF EvictRemove, EvictUpdate
<1>7. QED
  BY <1>4, <1>5, <1>6 DEF CacheManager

\* Every step keeps RowInv.
LEMMA RowInvStep == TypeInv /\ RowInv /\ [Next]_vars => RowInv'
<1> SUFFICES ASSUME TypeInv, RowInv, [Next]_vars PROVE RowInv'
  OBVIOUS
<1> USE DEF stateVars, cacheVars, readVars, evictVars
<1>1. ASSUME NEW r \in Readers, StartRead(r) \/ ContinueRead(r) PROVE RowInv'
  BY <1>1, RowInvRead
<1>2. CASE CacheManager
  BY <1>2, RowInvEvict
<1>3. CASE UNCHANGED <<table, up, cacheVars>>
  BY <1>3 DEF RowInv
<1>4. CASE Crash \/ Shutdown
  <2>1. LoseProcess
    BY <1>4 DEF Crash, Shutdown
  <2>2. Len(<<>>) = 0
    BY EmptySeq
  <2>3. QED
    BY <2>1, <2>2 DEF LoseProcess, RowInv, ServerStates
<1>5. CASE Mount
  <2>1. UNCHANGED cacheVars /\ ~up
    BY <1>5 DEF Mount, MountState
  <2>2. elist = <<>> /\ \A r \in Readers : pc[r] = "idle" /\ hstate[r] = "NONE"
    BY <2>1 DEF RowInv
  <2>3. Len(<<>>) = 0
    BY EmptySeq
  <2>4. up'
    BY <1>5 DEF Mount, MountState
  <2>5. QED
    BY <2>1, <2>2, <2>3, <2>4 DEF RowInv, ServerStates
<1>6. CASE Environment
  BY <1>3, <1>4, <1>5, <1>6 DEF Environment, Tick, Publish
<1>7. CASE UNCHANGED vars
  BY <1>3, <1>7 DEF vars
<1>8. QED
  BY <1>1, <1>2, <1>6, <1>7 DEF Next

\* RowInv holds throughout.
LEMMA RowInvAlways == Spec => []RowInv
<1>1. Init => RowInv
  BY EmptySeq DEF Init, StateInit, FreshProcess, RowInv, ServerStates
<1>2. QED
  BY <1>1, TypeInvAlways, RowInvStep, PTL DEF Spec

(***************************************************************************)
(* The refinement.                                                         *)
(***************************************************************************)

states == [f \in Files |-> table[f].state]
mapped == <<states, states, up>>

\* The start states are start states of the lifecycle.
LEMMA LifecycleInit == Init => Lifecycle!Init
<1> SUFFICES ASSUME Init PROVE states \in [Files -> {"NONE", "REMOTE", "ACTIVE"}] /\ up = TRUE
  BY DEF Lifecycle!Init, states
<1>1. \A f \in Files : table[f].state \in {"NONE", "REMOTE", "ACTIVE"}
  BY DEF Init, StateInit, ActiveRow, RemoteRow, NoRow
<1>2. QED
  BY <1>1 DEF states, Init, StateInit

\* Readers and the CacheManager only act while the daemon runs.
LEMMA ActsWhileUp ==
    ASSUME TypeInv, RowInv,
           CacheManager \/ \E r \in Readers : StartRead(r) \/ ContinueRead(r)
    PROVE  up /\ UNCHANGED up
<1>1. CASE CacheManager
  BY <1>1 DEF CacheManager, EvictTick, EvictList, EvictRemove, EvictUpdate, RowInv, stateVars
<1>2. ASSUME NEW r \in Readers, StartRead(r) PROVE up /\ UNCHANGED up
  BY <1>2 DEF StartRead, OpenRead, ReadLocal, ReadCached, ReadRemote, IsLocal, RowInv, stateVars
<1>3. ASSUME NEW r \in Readers, ContinueRead(r) PROVE up /\ UNCHANGED up
  <2>1. pc[r] # "idle"
    BY <1>3 DEF ContinueRead, RangeRead, ReadFallback, ReadLoaded, Touch, CheckRow, JoinFlight,
                LeadFlight, AcquireSlot, Download, VerifyTemp, StoreRename, StoreUpsert, MarkCached
  <2>2. UNCHANGED up
    BY <1>3 DEF ContinueRead, RangeRead, ReadFallback, ReadLoaded, Touch, CheckRow, JoinFlight,
                LeadFlight, AcquireSlot, Download, VerifyTemp, StoreRename, StoreUpsert, MarkCached,
                stateVars
  <2>3. QED
    BY <2>1, <2>2 DEF RowInv
<1>4. QED
  BY <1>1, <1>2, <1>3

\* A row that moves between REMOTE and CACHED fires an event or stays.
LEMMA MoveIsEvent ==
    ASSUME StatesKept \/ OneMoves, up = TRUE, UNCHANGED up
    PROVE  [Lifecycle!Next]_mapped
<1>1. CASE StatesKept
  BY <1>1 DEF StatesKept, states, mapped
<1>2. CASE OneMoves
  <2>1. PICK f \in Files, s \in ServerStates :
            /\ table[f].state \in ServerStates
            /\ \A g \in Files : table'[g].state = IF g = f THEN s ELSE table[g].state
    BY <1>2 DEF OneMoves
  <2>2. states' = [states EXCEPT ![f] = s]
    BY <2>1 DEF states
  <2>3. CASE s = table[f].state
    <3>1. states' = states
      BY <2>1, <2>3 DEF states
    <3>2. QED
      BY <3>1 DEF mapped
  <2>4. CASE s # table[f].state
    <3>1. \E e \in Lifecycle!Events, t \in Lifecycle!FileStates :
              <<table[f].state, e, t>> \in Lifecycle!Transition /\ t = s
      BY <2>1, <2>4 DEF ServerStates, Lifecycle!Events, Lifecycle!FileStates, Lifecycle!Transition
    <3>2. states[f] = table[f].state
      BY DEF states
    <3>3. Lifecycle!Fire(f)
      BY <2>2, <3>1, <3>2 DEF Lifecycle!Fire, states
    <3>4. QED
      BY <3>3 DEF Lifecycle!Next, states
  <2>5. QED
    BY <2>3, <2>4
<1>3. QED
  BY <1>1, <1>2

\* A mount re-classifies rows only as the lifecycle allows.
LEMMA MountIsRemount ==
    ASSUME TypeInv, MountState
    PROVE  Lifecycle!Next
<1>1. PICK m \in InitialManifests : \A f \in Files : table'[f] \in MountRows(m, f)
  BY MountTable
<1>0. m \in Manifests /\ StateTypeOK
  BY InitialManifestType DEF TypeInv, TypeOK
<1>2. ASSUME NEW f \in Files
      PROVE  /\ table'[f].state \in Lifecycle!AfterRemount(table[f].state)
             /\ table'[f].state \in Lifecycle!RowStates
  <2>1. table'[f] \in Row
    BY <1>0, <1>1, MountRowCases
  <2>2. ActiveRow.state = "ACTIVE" /\ NoRow.state = "NONE" /\ RemoteRow(HashIn(m, f)).state = "REMOTE"
    BY DEF ActiveRow, NoRow, RemoteRow
  <2>3. \A row \in WithoutOrphans(f) :
            \/ row.state \in {"ACTIVE", table[f].state}
            \/ row.state = "NONE" /\ table[f].state = "ACTIVE"
    BY <2>2, WithoutOrphansCases
  <2>4. \/ table'[f].state \in {"ACTIVE", table[f].state}
        \/ table'[f].state \in {"NONE", "REMOTE"} /\ table[f].state \in {"ACTIVE", "NONE"}
        \/ table'[f].state = "REMOTE" /\ "mount" \in Faults
    BY <1>0, <1>1, <2>2, <2>3, MountRowCases
  <2>5. QED
    BY <2>1, <2>4 DEF Lifecycle!AfterRemount, Lifecycle!RowStates, Lifecycle!FileStates,
                      Row, RowStates, FileStates
<1>4. states' \in [Files -> Lifecycle!RowStates]
  BY <1>2 DEF states
<1>5. \A f \in Files : states'[f] \in Lifecycle!AfterRemount(states[f])
  BY <1>2 DEF states
<1>6. Lifecycle!Remount
  BY <1>4, <1>5 DEF Lifecycle!Remount, states, MountState
<1>7. QED
  BY <1>6 DEF Lifecycle!Next

\* Every step of the client is a step of the lifecycle or leaves all states alone.
LEMMA LifecycleStep == TypeInv /\ RowInv /\ [Next]_vars => [Lifecycle!Next]_mapped
<1> SUFFICES ASSUME TypeInv, RowInv, [Next]_vars PROVE [Lifecycle!Next]_mapped
  OBVIOUS
<1>0. up \in BOOLEAN
  BY DEF TypeInv, TypeOK, StateTypeOK
<1>1. ASSUME NEW r \in Readers, StartRead(r) \/ ContinueRead(r) PROVE [Lifecycle!Next]_mapped
  BY <1>0, <1>1, ReaderMovesOne, ActsWhileUp, MoveIsEvent
<1>2. CASE CacheManager
  BY <1>0, <1>2, EvictorMovesOne, ActsWhileUp, MoveIsEvent
<1>3. CASE UNCHANGED <<table, up>>
  BY <1>3 DEF states, mapped
<1>4. CASE Mount
  BY <1>4, MountIsRemount DEF Mount
<1>s. CASE Crash \/ Shutdown
  <2>1. UNCHANGED states
    BY <1>s DEF Crash, Shutdown, states
  <2>2. Lifecycle!Stop
    BY <1>s, <2>1 DEF Crash, Shutdown, Lifecycle!Stop, states
  <2>3. QED
    BY <2>2 DEF Lifecycle!Next, states
<1>5. CASE Environment
  BY <1>3, <1>4, <1>s, <1>5 DEF Environment, Tick, Publish
<1>6. CASE UNCHANGED vars
  BY <1>3, <1>6 DEF vars, stateVars
<1>7. QED
  BY <1>1, <1>2, <1>5, <1>6 DEF Next

\* Reads, downloads, evictions, crashes and mounts implement the abstract life
\* cycle: a row changes state only by an event internal/state declares legal, or
\* when a mount finds files on disk or cannot read the row.
THEOREM ImplementsLifecycle == Spec => FollowsLifecycle
  BY LifecycleInit, LifecycleStep, TypeInvAlways, RowInvAlways, PTL
     DEF Spec, FollowsLifecycle, Lifecycle!Spec, states, mapped

(***************************************************************************)
(* Cached files are tracked.  A Store that is cut in two, by a crash or by *)
(* a store error after the rename, leaves a file without a CACHED row, so  *)
(* this holds for daemons to which neither happens.                        *)
(***************************************************************************)

\* Local files have ACTIVE rows, so a mount never takes a cached file for a local
\* one; and between the halves of Remove the victim's file is gone.
TrackInv ==
    /\ CachedFilesAreTracked
    /\ \A f \in Files : localDir[f] # NoContent => table[f].state = "ACTIVE"
    /\ epc = "update" => cacheDir[Head(elist)] = NoContent

\* While no reader holds the mutex, a file in the cache directory has its row.
LEMMA TrackedRows ==
    ASSUME TrackInv, cacheMu \notin Readers \/ \A r \in Readers : pc[r] # "upsert"
    PROVE  \A f \in Files : cacheDir[f] # NoContent => table[f].state = "CACHED"
  BY DEF TrackInv, CachedFilesAreTracked

\* Rows of local files are not moved by readers and evictions.
LEMMA LocalRowsStay ==
    ASSUME TrackInv, StatesKept \/ OneMoves, UNCHANGED localDir
    PROVE  \A f \in Files : localDir'[f] # NoContent => table'[f].state = "ACTIVE"
<1>1. "ACTIVE" \notin ServerStates
  BY DEF ServerStates
<1>2. QED
  BY <1>1 DEF TrackInv, StatesKept, OneMoves

\* The steps of a read.
LEMMA TrackInvRead ==
    ASSUME "db" \notin Faults, TypeInv, RowInv, TrackInv,
           NEW r \in Readers, StartRead(r) \/ ContinueRead(r)
    PROVE  TrackInv'
<1> USE DEF readVars, evictVars, stateVars, GoTo
<1>0. UNCHANGED <<epc, elist, localDir>>
  BY DEF StartRead, ContinueRead, OpenRead, ReadLocal, ReadCached, ReadRemote, RangeRead,
         ReadFallback, ReadLoaded, Touch, CheckRow, JoinFlight, LeadFlight, AcquireSlot, Download,
         VerifyTemp, StoreRename, StoreUpsert, MarkCached
<1>1. \A f \in Files : localDir'[f] # NoContent => table'[f].state = "ACTIVE"
  BY <1>0, LocalRowsStay, ReaderMovesOne
<1>m. /\ \A q \in Readers : cacheMu = q <=> pc[q] = "upsert"
      /\ cacheMu = Evictor <=> epc = "update"
      /\ Evictor \notin Readers /\ NoReader \notin Readers /\ Evictor # NoReader
  BY ReadersAssumption DEF TypeInv, MutexHeld
<1>a. ASSUME UNCHANGED <<cacheDir, cacheMu, hfile>>,
             \A f \in Files : table[f].state = "CACHED" => table'[f].state = "CACHED",
             \A q \in Readers : pc[q] = "upsert" => pc'[q] = "upsert"
      PROVE  TrackInv'
  <2>1. CachedFilesAreTracked'
    BY <1>a DEF TrackInv, CachedFilesAreTracked
  <2>2. QED
    BY <1>a, <1>0, <1>1, <2>1 DEF TrackInv
<1>2. CASE StartRead(r)
  <2>1. UNCHANGED <<cacheDir, cacheMu, table>> /\ pc[r] = "idle"
        /\ \A q \in Readers \ {r} : pc'[q] = pc[q] /\ hfile'[q] = hfile[q]
    BY <1>2 DEF StartRead, OpenRead, ReadLocal, ReadCached, ReadRemote, Pread, TypeInv, TypeOK
  <2>2. CachedFilesAreTracked'
    BY <2>1 DEF TrackInv, CachedFilesAreTracked
  <2>3. QED
    BY <1>0, <1>1, <2>1, <2>2 DEF TrackInv
<1>3. CASE Touch(r)
  <2>1. StatesKept
    BY <1>3, TouchKeepsStates DEF Touch, StoreWrite, StatesKept, TypeInv, TypeOK
  <2>2. QED
    BY <1>3, <1>a, <2>1 DEF Touch, StatesKept, TypeInv, TypeOK
<1>4. CASE RangeRead(r) \/ ReadFallback(r) \/ ReadLoaded(r) \/ CheckRow(r) \/ JoinFlight(r)
           \/ LeadFlight(r) \/ AcquireSlot(r)
  BY <1>4, <1>a DEF RangeRead, ReadFallback, RangeRequest, ReadLoaded, Pread, CheckRow, JoinFlight,
                    LeadFlight, AcquireSlot, TypeInv, TypeOK
<1>e. ASSUME pc[r] # "upsert", (\E l : GoTo(r, l)) \/ (\E l : EndFlight(r, l))
      PROVE  \A q \in Readers : pc[q] = "upsert" => pc'[q] = "upsert"
  BY <1>e DEF EndFlight, TypeInv, TypeOK
<1>5. CASE Download(r) \/ VerifyTemp(r)
  BY <1>5, <1>a, <1>e DEF Download, VerifyTemp
<1>6. CASE MarkCached(r)
  <2>1. \A f \in Files : table[f].state = "CACHED" => table'[f].state = "CACHED"
    BY <1>6 DEF MarkCached, UpdateState, TypeInv, TypeOK, StateTypeOK, Row
  <2>2. QED
    BY <1>6, <1>a, <1>e, <2>1 DEF MarkCached
<1>7. CASE StoreRename(r)
  <2>0. cacheMu = NoReader /\ pc[r] = "rename" /\ table' = table /\ hfile' = hfile
    BY <1>7 DEF StoreRename
  <2>1. CASE /\ cacheMu' = r /\ GoTo(r, "upsert")
             /\ cacheDir' = [cacheDir EXCEPT ![hfile[r]] = buf[r]]
    <3>1. \A f \in Files : cacheDir[f] # NoContent => table[f].state = "CACHED"
      BY <1>m, <2>0, TrackedRows
    <3>2. pc'[r] = "upsert" /\ \A f \in Files : f # hfile[r] => cacheDir'[f] = cacheDir[f]
      BY <2>1 DEF TypeInv, TypeOK, StateTypeOK
    <3>3. CachedFilesAreTracked'
      BY <2>0, <2>1, <3>1, <3>2 DEF CachedFilesAreTracked
    <3>4. epc' # "update"
      BY <1>0, <1>m, <2>0
    <3>5. QED
      BY <1>1, <3>3, <3>4 DEF TrackInv
  <2>2. CASE EndFlight(r, "failed") /\ UNCHANGED <<cacheMu, cacheDir>>
    BY <1>a, <1>e, <2>0, <2>2
  <2>3. QED
    BY <1>7, <2>1, <2>2 DEF StoreRename
<1>8. CASE StoreUpsert(r)
  <2>0. /\ cacheMu = r /\ hfile' = hfile /\ cacheDir' = cacheDir /\ hfile[r] \in Files
        /\ table' = UpsertFile(hfile[r], CachedRow(ExpectedHash(r)))
    BY <1>8, <1>m DEF StoreUpsert, TypeInv, TypeOK
  <2>1. \A f \in Files : cacheDir[f] # NoContent => table[f].state = "CACHED" \/ f = hfile[r]
    BY <2>0 DEF TrackInv, CachedFilesAreTracked
  <2>2. \A f \in Files : cacheDir'[f] # NoContent => table'[f].state = "CACHED"
    BY <2>0, <2>1 DEF UpsertFile, CachedRow, TypeInv, TypeOK, StateTypeOK
  <2>3. epc' # "update"
    BY <1>0, <1>m, <2>0
  <2>4. QED
    BY <1>1, <2>2, <2>3 DEF TrackInv, CachedFilesAreTracked
<1>9. QED
  BY <1>2, <1>3, <1>4, <1>5, <1>6, <1>7, <1>8 DEF ContinueRead

\* The steps of the CacheManager.
LEMMA TrackInvEvict ==
    ASSUME "db" \notin Faults, TypeInv, RowInv, TrackInv, CacheManager
    PROVE  TrackInv'
<1> USE DEF readVars, stateVars
<1>0. UNCHANGED <<pc, hfile, localDir>>
  BY DEF CacheManager, EvictTick, EvictList, EvictRemove, EvictUpdate
<1>1. \A f \in Files : localDir'[f] # NoContent => table'[f].state = "ACTIVE"
  BY <1>0, LocalRowsStay, EvictorMovesOne
<1>m. /\ cacheMu = Evictor <=> epc = "update"
      /\ Evictor \notin Readers /\ NoReader \notin Readers /\ Evictor # NoReader
  BY ReadersAssumption DEF TypeInv, MutexHeld
<1>a. ASSUME UNCHANGED <<cacheDir, cacheMu, table>>, epc' # "update"
      PROVE  TrackInv'
  BY <1>0, <1>1, <1>a DEF TrackInv, CachedFilesAreTracked
<1>2. CASE EvictTick \/ EvictList
  BY <1>2, <1>a DEF EvictTick, EvictList
<1>3. CASE EvictRemove
  <2>0. cacheMu = NoReader /\ table' = table
    BY <1>3 DEF EvictRemove
  <2>1. CASE /\ cacheDir' = [cacheDir EXCEPT ![Head(elist)] = NoContent]
             /\ UNCHANGED elist
    <3>1. \A f \in Files : cacheDir[f] # NoContent => table[f].state = "CACHED"
      BY <1>m, <2>0, TrackedRows
    <3>2. Head(elist) \in Files
      BY <1>3, HeadTailProperties DEF EvictRemove, TypeInv, TypeOK, MutexHeld
    <3>3. \A f \in Files : cacheDir'[f] # NoContent => table'[f].state = "CACHED"
      BY <2>0, <2>1, <3>1 DEF TypeInv, TypeOK, StateTypeOK
    <3>4. cacheDir'[Head(elist')] = NoContent
      BY <2>1, <3>2 DEF TypeInv, TypeOK, StateTypeOK
    <3>5. QED
      BY <1>1, <3>3, <3>4 DEF TrackInv, CachedFilesAreTracked
  <2>2. CASE NextVictim /\ UNCHANGED <<cacheMu, cacheDir>>
    BY <1>a, <2>0, <2>2 DEF NextVictim
  <2>3. QED
    BY <1>3, <2>1, <2>2 DEF EvictRemove
<1>4. CASE EvictUpdate
  <2>1. cacheMu = Evictor /\ cacheDir' = cacheDir /\ cacheDir[Head(elist)] = NoContent
    BY <1>4, <1>m DEF EvictUpdate, TrackInv
  <2>2. \A f \in Files : cacheDir[f] # NoContent => table[f].state = "CACHED"
    BY <1>m, <2>1, TrackedRows
  <2>3. \A f \in Files : f # Head(elist) => table'[f] = table[f]
    BY <1>4 DEF EvictUpdate, StoreWrite, UpdateState, TypeInv, TypeOK, StateTypeOK
  <2>4. CachedFilesAreTracked'
    BY <2>1, <2>2, <2>3 DEF CachedFilesAreTracked
  <2>5. epc' # "update"
    BY <1>4 DEF EvictUpdate, NextVictim
  <2>6. QED
    BY <1>1, <2>4, <2>5 DEF TrackInv
<1>5. QED
  BY <1>2, <1>3, <1>4 DEF CacheManager

\* Mounting takes no cached file for a local one.
LEMMA TrackInvMount ==
    ASSUME "mount" \notin Faults, TypeInv, RowInv, TrackInv, Mount
    PROVE  TrackInv'
<1> USE DEF cacheVars, evictVars
<1>1. PICK m \in InitialManifests : \A f \in Files : table'[f] \in MountRows(m, f)
  BY MountTable DEF Mount
<1>0. m \in Manifests /\ StateTypeOK
  BY InitialManifestType DEF TypeInv, TypeOK
<1>r. ActiveRow.state = "ACTIVE"
  BY DEF ActiveRow
<1>2. ~up /\ UNCHANGED <<cacheDir, localDir, cacheVars>>
  BY DEF Mount, MountState
<1>3. epc' # "update" /\ \A r \in Readers : pc[r] # "upsert"
  BY <1>2 DEF RowInv
<1>4. \A f \in Files : cacheDir[f] # NoContent => table[f].state = "CACHED"
  BY <1>3, TrackedRows
<1>5. ASSUME NEW f \in Files, cacheDir'[f] # NoContent PROVE table'[f].state = "CACHED"
  <2>1. table[f].state = "CACHED" /\ localDir[f] = NoContent /\ table[f] \in Row
    BY <1>2, <1>4, <1>5 DEF TrackInv, TypeInv, TypeOK, StateTypeOK
  <2>2. \A row \in WithoutOrphans(f) : row = table[f]
    BY <2>1, WithoutOrphansCases
  <2>3. QED
    BY <1>0, <1>1, <2>1, <2>2, MountRowCases
<1>6. ASSUME NEW f \in Files, localDir'[f] # NoContent PROVE table'[f].state = "ACTIVE"
  <2>1. \A row \in WithoutOrphans(f) : row = ActiveRow
    BY <1>2, <1>6, WithoutOrphansCases
  <2>2. QED
    BY <1>0, <1>1, <1>r, <2>1, MountRowCases
<1>7. QED
  BY <1>3, <1>5, <1>6 DEF TrackInv, CachedFilesAreTracked

\* Every step of a daemon without crashes and store errors keeps TrackInv.
LEMMA TrackInvStep ==
    ASSUME "db" \notin Faults, "mount" \notin Faults, "crash" \notin Faults
    PROVE  TypeInv /\ RowInv /\ TrackInv /\ [Next]_vars => TrackInv'
<1> SUFFICES ASSUME TypeInv, RowInv, TrackInv, [Next]_vars PROVE TrackInv'
  OBVIOUS
<1> USE DEF stateVars, cacheVars, readVars, evictVars
<1>1. ASSUME NEW r \in Readers, StartRead(r) \/ ContinueRead(r) PROVE TrackInv'
  BY <1>1, TrackInvRead
<1>2. CASE CacheManager
  BY <1>2, TrackInvEvict
<1>3. CASE UNCHANGED <<table, cacheDir, localDir, cacheVars>>
  BY <1>3 DEF TrackInv, CachedFilesAreTracked
<1>4. CASE Shutdown
  <2>1. UNCHANGED <<table, cacheDir, localDir>> /\ LoseProcess /\ \A r \in Readers : pc[r] = "idle"
    BY <1>4 DEF Shutdown
  <2>2. \A f \in Files : cacheDir[f] # NoContent => table[f].state = "CACHED"
    BY <2>1, TrackedRows
  <2>3. QED
    BY <2>1, <2>2 DEF TrackInv, CachedFilesAreTracked, LoseProcess
<1>5. CASE Environment
  BY <1>3, <1>4, <1>5, TrackInvMount DEF Environment, Tick, Publish, Crash
<1>6. CASE UNCHANGED vars
  BY <1>3, <1>6 DEF vars
<1>7. QED
  BY <1>1, <1>2, <1>5, <1>6 DEF Next

\* While the daemon neither crashes nor loses a store write, every file in the
\* cache directory has a CACHED row, so eviction can find all it has to count:
\* with downloads that fail or arrive damaged, deletions that fail, concurrent
\* reads and evictions, orderly restarts and new manifests.
THEOREM CacheIsTracked ==
    ASSUME "db" \notin Faults, "mount" \notin Faults, "crash" \notin Faults
    PROVE  Spec => []CachedFilesAreTracked
<1>1. Init => TrackInv
  BY DEF Init, StateInit, FreshProcess, TrackInv, CachedFilesAreTracked, ActiveRow
<1>2. TypeInv /\ RowInv /\ TrackInv /\ [Next]_vars => TrackInv'
  BY TrackInvStep
<1>3. TrackInv => CachedFilesAreTracked
  BY DEF TrackInv
<1>4. QED
  BY <1>1, <1>2, <1>3, TypeInvAlways, RowInvAlways, PTL DEF Spec

(***************************************************************************)
(* Hashes and files agree.  A second download of a file that is already    *)
(* CACHED cannot part the row from the file because the hash it was asked  *)
(* to have is still the hash of the row: while the daemon runs, the reads  *)
(* and evictions never change a hash, not even by Store's upsert.          *)
(***************************************************************************)

AgreeInv ==
    /\ \A f \in Files : table[f].state \in ServerStates => table[f].sha # NoHash
    /\ \A r \in Readers : pc[r] \in InFlight => table[hfile[r]].sha = want[r]
    /\ \A r \in Readers : pc[r] \in {"rename", "upsert"} => Sha256(buf[r]) = want[r]

HashesKept == \A f \in Files : table'[f].sha = table[f].sha

\* A download has a hash to check, the one of its row.
LEMMA ExpectsRowHash ==
    ASSUME TypeInv, RowInv, AgreeInv, NEW r \in Readers, pc[r] \in InFlight
    PROVE  /\ hfile[r] \in Files
           /\ ExpectedHash(r) = want[r] /\ want[r] = table[hfile[r]].sha
<1>1. hfile[r] \in Files /\ table[hfile[r]].state \in ServerStates
  BY DEF TypeInv, TypeOK, RowInv, ServerStates, InFlight
<1>2. QED
  BY <1>1 DEF AgreeInv, ExpectedHash

\* Reads and evictions keep every hash.
LEMMA HashesStay ==
    ASSUME TypeInv, RowInv, AgreeInv,
           CacheManager \/ \E r \in Readers : StartRead(r) \/ ContinueRead(r)
    PROVE  HashesKept
<1>types. StateTypeOK
  BY DEF TypeInv, TypeOK
<1>0. CASE UNCHANGED table
  BY <1>0 DEF HashesKept
<1>1. ASSUME NEW r \in Readers, Touch(r) PROVE HashesKept
  <2>1. hfile[r] \in Files
    BY <1>1 DEF Touch, TypeInv, TypeOK
  <2>2. QED
    BY <1>0, <1>1, <1>types, <2>1, UpdatesKeepHash DEF Touch, StoreWrite, HashesKept
<1>2. ASSUME NEW r \in Readers, StoreUpsert(r) PROVE HashesKept
  <2>1. pc[r] \in InFlight
    BY <1>2 DEF StoreUpsert, InFlight
  <2>2. hfile[r] \in Files /\ ExpectedHash(r) = table[hfile[r]].sha
    BY <2>1, ExpectsRowHash
  <2>3. CASE table' = UpsertFile(hfile[r], CachedRow(ExpectedHash(r)))
    BY <1>types, <2>2, <2>3 DEF UpsertFile, CachedRow, HashesKept, StateTypeOK
  <2>4. QED
    BY <1>0, <1>2, <2>3 DEF StoreUpsert
<1>3. ASSUME NEW r \in Readers, MarkCached(r) PROVE HashesKept
  <2>1. hfile[r] \in Files
    BY <1>3 DEF MarkCached, TypeInv, TypeOK
  <2>2. QED
    BY <1>0, <1>3, <1>types, <2>1, UpdatesKeepHash DEF MarkCached, HashesKept
<1>4. CASE EvictUpdate
  <2>1. elist # <<>> /\ Len(elist) \in Nat \ {0}
    BY <1>4, EmptySeq DEF EvictUpdate, MutexHeld, TypeInv, TypeOK
  <2>2. Head(elist) \in Files
    BY <2>1 DEF TypeInv, TypeOK
  <2>3. QED
    BY <1>0, <1>4, <1>types, <2>2, UpdatesKeepHash DEF EvictUpdate, StoreWrite, HashesKept
<1>5. QED
  BY <1>0, <1>1, <1>2, <1>3, <1>4
     DEF StartRead, ContinueRead, OpenRead, ReadLocal, ReadCached, ReadRemote, RangeRead,
         ReadFallback, ReadLoaded, CheckRow, JoinFlight, LeadFlight, AcquireSlot, Download,
         VerifyTemp, StoreRename, CacheManager, EvictTick, EvictList, EvictRemove, stateVars

\* What a reader's step makes of the downloads: one that begins takes the hash of its
\* row, one that goes on keeps its hash, and its temp file was compared with it.
LEMMA DownloadsCarryOn ==
    ASSUME TypeInv, NEW r \in Readers, StartRead(r) \/ ContinueRead(r),
           NEW q \in Readers, pc'[q] \in InFlight
    PROVE  /\ hfile'[q] = hfile[q]
           /\ \/ pc[q] \in InFlight /\ want'[q] = want[q]
              \/ want'[q] = table[hfile[q]].sha
           /\ pc'[q] \in {"rename", "upsert"} =>
                 /\ pc[q] \in InFlight /\ want'[q] = want[q] /\ buf'[q] = buf[q]
                 /\ pc[q] \in {"rename", "upsert"} \/ Sha256(buf[q]) = ExpectedHash(q)
<1> DEFINE Same == /\ hfile'[q] = hfile[q] /\ want'[q] = want[q] /\ buf'[q] = buf[q]
                   /\ pc'[q] = pc[q]
<1> USE DEF readVars
<1>types. /\ pc \in [Readers -> ReaderPC] /\ hfile \in [Readers -> Files \cup {NoFile}]
          /\ want \in [Readers -> Digests] /\ buf \in [Readers -> Content]
  BY DEF TypeInv, TypeOK
<1>0. CASE Same
  BY <1>0
<1>end. ASSUME NEW l \in {"failed", "loaded"}, EndFlight(r, l), UNCHANGED hfile PROVE Same
  BY <1>end, <1>types DEF EndFlight, InFlight
<1>1. CASE StartRead(r)
  BY <1>1, <1>0, <1>types DEF StartRead, OpenRead, ReadLocal, ReadCached, ReadRemote, Pread, GoTo, InFlight
<1>2. CASE RangeRead(r) \/ ReadFallback(r) \/ ReadLoaded(r)
  BY <1>2, <1>0, <1>types DEF RangeRead, ReadFallback, ReadLoaded, RangeRequest, Pread, GoTo, InFlight
<1>3. CASE Touch(r) \/ CheckRow(r) \/ JoinFlight(r)
  BY <1>3, <1>0, <1>types DEF Touch, CheckRow, JoinFlight, GoTo, InFlight
<1>4. CASE LeadFlight(r)
  BY <1>4, <1>types DEF LeadFlight, GoTo, InFlight
<1>5. CASE AcquireSlot(r)
  BY <1>5, <1>types DEF AcquireSlot, GoTo, InFlight
<1>6. CASE Download(r)
  <2>1. CASE EndFlight(r, "failed")
    BY <1>6, <2>1, <1>0, <1>end DEF Download
  <2>2. CASE GoTo(r, "store") /\ UNCHANGED want /\ \E c \in Responses(hfile[r]) : buf' = [buf EXCEPT ![r] = c]
    BY <1>6, <2>2, <1>types DEF Download, GoTo, InFlight
  <2>3. QED
    BY <1>6, <2>1, <2>2 DEF Download
<1>7. CASE VerifyTemp(r)
  <2>1. CASE EndFlight(r, "failed")
    BY <1>7, <2>1, <1>0, <1>end DEF VerifyTemp
  <2>2. CASE GoTo(r, "rename") /\ UNCHANGED <<want, buf>> /\ Sha256(buf[r]) = ExpectedHash(r)
    BY <1>7, <2>2, <1>types DEF VerifyTemp, GoTo, InFlight
  <2>3. QED
    BY <1>7, <2>1, <2>2 DEF VerifyTemp
<1>8. CASE StoreRename(r)
  <2>1. CASE EndFlight(r, "failed")
    BY <1>8, <2>1, <1>0, <1>end DEF StoreRename
  <2>2. CASE GoTo(r, "upsert") /\ UNCHANGED <<want, buf>>
    BY <1>8, <2>2, <1>types DEF StoreRename, GoTo, InFlight
  <2>3. QED
    BY <1>8, <2>1, <2>2 DEF StoreRename
<1>9. CASE StoreUpsert(r)
  <2>1. CASE EndFlight(r, "failed")
    BY <1>9, <2>1, <1>0, <1>end DEF StoreUpsert
  <2>2. CASE GoTo(r, "mark") /\ UNCHANGED <<want, buf>>
    BY <1>9, <2>2, <1>types DEF StoreUpsert, GoTo, InFlight
  <2>3. QED
    BY <1>9, <2>1, <2>2 DEF StoreUpsert
<1>10. CASE MarkCached(r)
  BY <1>10, <1>0, <1>end DEF MarkCached
<1>11. QED
  BY <1>1, <1>2, <1>3, <1>4, <1>5, <1>6, <1>7, <1>8, <1>9, <1>10 DEF ContinueRead

\* Every step keeps downloads and rows at the same hash.
LEMMA AgreeInvStep == TypeInv /\ RowInv /\ AgreeInv /\ [Next]_vars => AgreeInv'
<1> SUFFICES ASSUME TypeInv, RowInv, AgreeInv, [Next]_vars PROVE AgreeInv'
  OBVIOUS
<1> USE DEF stateVars, cacheVars, readVars
<1>states. ASSUME StatesKept \/ OneMoves, HashesKept
           PROVE  \A f \in Files : table'[f].state \in ServerStates => table'[f].sha # NoHash
  BY <1>states DEF StatesKept, OneMoves, HashesKept, AgreeInv
<1>1. ASSUME NEW r \in Readers, StartRead(r) \/ ContinueRead(r) PROVE AgreeInv'
  <2>1. HashesKept /\ (StatesKept \/ OneMoves)
    BY <1>1, HashesStay, ReaderMovesOne
  <2>2. ASSUME NEW q \in Readers, pc'[q] \in InFlight PROVE hfile'[q] \in Files /\ table'[hfile'[q]].sha = want'[q]
    <3>1. hfile'[q] \in Files
      BY <1>1, <2>2, TypeInvStep DEF TypeInv, TypeOK, InFlight
    <3>2. QED
      BY <1>1, <2>1, <2>2, <3>1, DownloadsCarryOn DEF HashesKept, AgreeInv
  <2>3. ASSUME NEW q \in Readers, pc'[q] \in {"rename", "upsert"} PROVE Sha256(buf'[q]) = want'[q]
    <3>1. pc'[q] \in InFlight
      BY <2>3 DEF InFlight
    <3>2. /\ pc[q] \in InFlight /\ want'[q] = want[q] /\ buf'[q] = buf[q]
          /\ pc[q] \in {"rename", "upsert"} \/ Sha256(buf[q]) = ExpectedHash(q)
      BY <1>1, <2>3, <3>1, DownloadsCarryOn
    <3>3. QED
      BY <3>2, ExpectsRowHash DEF AgreeInv
  <2>4. QED
    BY <2>1, <2>2, <2>3, <1>states DEF AgreeInv, Sha256
<1>2. CASE CacheManager
  <2>1. HashesKept /\ (StatesKept \/ OneMoves)
    BY <1>2, HashesStay, EvictorMovesOne
  <2>2. UNCHANGED <<pc, hfile, want, buf>>
    BY <1>2 DEF CacheManager, EvictTick, EvictList, EvictRemove, EvictUpdate
  <2>3. \A q \in Readers : pc[q] \in InFlight => hfile[q] \in Files
    BY DEF TypeInv, TypeOK, InFlight
  <2>4. QED
    BY <2>1, <2>2, <2>3, <1>states DEF AgreeInv, HashesKept, Sha256
<1>3. CASE UNCHANGED <<table, cacheVars>>
  BY <1>3 DEF AgreeInv
<1>4. CASE Crash \/ Shutdown
  <2>1. UNCHANGED table /\ \A q \in Readers : pc'[q] = "idle"
    BY <1>4 DEF Crash, Shutdown, LoseProcess
  <2>2. QED
    BY <2>1 DEF AgreeInv, InFlight
<1>5. CASE Mount
  <2>1. PICK m \in InitialManifests : \A f \in Files : table'[f] \in MountRows(m, f)
    BY <1>5, MountTable DEF Mount
  <2>2. \A q \in Readers : pc'[q] = "idle"
    BY <1>5 DEF Mount, MountState, RowInv
  <2>3. m \in Manifests /\ StateTypeOK
    BY InitialManifestType DEF TypeInv, TypeOK
  <2>4. ASSUME NEW f \in Files, table'[f].state \in ServerStates PROVE table'[f].sha # NoHash
    <3>1. \A g \in Files : m[g] # 0 => HashIn(m, g) # NoHash
      BY DEF HashIn, NoHash, Sha256, ServerCopy, NoContent
    <3>2. /\ ActiveRow.state \notin ServerStates /\ NoRow.state \notin ServerStates
          /\ RemoteRow(HashIn(m, f)).sha = HashIn(m, f)
      BY DEF ActiveRow, NoRow, RemoteRow, ServerStates
    <3>3. \A row \in WithoutOrphans(f) : row.state \in ServerStates => row.sha # NoHash
      BY <3>2, WithoutOrphansCases DEF AgreeInv
    <3>4. QED
      BY <2>1, <2>3, <2>4, <3>1, <3>2, <3>3, MountRowCases
  <2>5. QED
    BY <2>2, <2>4 DEF AgreeInv, InFlight
<1>6. CASE Environment
  BY <1>3, <1>4, <1>5, <1>6 DEF Environment, Tick, Publish
<1>7. CASE UNCHANGED vars
  BY <1>3, <1>7 DEF vars
<1>8. QED
  BY <1>1, <1>2, <1>6, <1>7 DEF Next

\* While the daemon runs, no order of downloads, second downloads, evictions, failures
\* and crashes makes a CACHED row and its file disagree once they agree: what StoreRename
\* moves in has the hash of the row it finds, and StoreUpsert writes that hash.
THEOREM AgreementHolds == Spec => AgreementIsKept
<1>1. Init => AgreeInv
  <2>1. \A f \in Files : HashIn([g \in Files |-> IF g \in listed THEN server[g] ELSE 0], f) = NoHash
           => f \notin listed \/ server[f] = 0
    BY DEF HashIn, NoHash, Sha256, ServerCopy, NoContent
  <2>2. QED
    BY <2>1 DEF Init, StateInit, FreshProcess, AgreeInv, InFlight, ServerStates, ServerManifest,
       ActiveRow, NoRow, RemoteRow
<1> DEFINE Kept == \A f \in Files :
              (HashAgrees(f) /\ table'[f].state = "CACHED" /\ up /\ cacheDir'[f] # NoContent)
                  => HashAgrees(f)'
<1>2. TypeInv /\ RowInv /\ AgreeInv /\ [Next]_vars => [Kept]_vars
  <2> SUFFICES ASSUME TypeInv, RowInv, AgreeInv, [Next]_vars,
                      NEW f \in Files, HashAgrees(f), table'[f].state = "CACHED", up,
                      cacheDir'[f] # NoContent
               PROVE  HashAgrees(f)'
    OBVIOUS
  <2> USE DEF stateVars, cacheVars
  <2>1. ASSUME HashesKept, cacheDir'[f] = cacheDir[f] PROVE HashAgrees(f)'
    BY <2>1 DEF HashesKept, HashAgrees, Sha256
  <2>2. ASSUME NEW r \in Readers, StartRead(r) \/ ContinueRead(r) PROVE HashAgrees(f)'
    <3>1. HashesKept
      BY <2>2, HashesStay
    <3>2. CASE StoreRename(r)
      <4>1. pc[r] = "rename" /\ pc[r] \in InFlight
        BY <3>2 DEF StoreRename, InFlight
      <4>2. hfile[r] \in Files /\ Sha256(buf[r]) = table[hfile[r]].sha
        BY <4>1, ExpectsRowHash DEF AgreeInv
      <4>3. CASE cacheDir' = [cacheDir EXCEPT ![hfile[r]] = buf[r]]
        BY <2>1, <3>1, <4>2, <4>3 DEF HashesKept, HashAgrees, Sha256, TypeInv, TypeOK, StateTypeOK
      <4>4. QED
        BY <2>1, <3>1, <3>2, <4>3 DEF StoreRename
    <3>3. CASE ~StoreRename(r)
      BY <2>1, <2>2, <3>1, <3>3 DEF StartRead, ContinueRead, OpenRead, ReadLocal, ReadCached,
         ReadRemote, RangeRead, ReadFallback, ReadLoaded, Touch, CheckRow, JoinFlight, LeadFlight,
         AcquireSlot, Download, VerifyTemp, StoreUpsert, MarkCached
    <3>4. QED
      BY <3>2, <3>3
  <2>3. CASE CacheManager
    <3>1. HashesKept
      BY <2>3, HashesStay
    <3>2. cacheDir'[f] = cacheDir[f]
      BY <2>3 DEF CacheManager, EvictTick, EvictList, EvictRemove, EvictUpdate, TypeInv, TypeOK,
         StateTypeOK
    <3>3. QED
      BY <2>1, <3>1, <3>2
  <2>4. CASE UNCHANGED <<table, cacheDir>>
    BY <2>1, <2>4 DEF HashesKept
  <2>5. CASE Environment
    BY <2>4, <2>5 DEF Environment, Tick, Publish, Crash, Shutdown, Mount, MountState
  <2>6. QED
    BY <2>2, <2>3, <2>4, <2>5 DEF Next, vars
<1>3. [][Kept]_vars => AgreementIsKept
  BY DEF AgreementIsKept
<1>4. QED
  BY <1>1, <1>2, <1>3, AgreeInvStep, TypeInvAlways, RowInvAlways, PTL DEF Spec

=============================================================================
