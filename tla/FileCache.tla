----------------------------- MODULE FileCache -----------------------------
(***************************************************************************)
(* Reading through the mount, and the cache behind it: FileHandle.Read     *)
(* with its full-file download (fetchAndCache: one download per file, at   *)
(* most MaxDownloads at once), DiskCache.Store and DiskCache.Remove under  *)
(* the cache mutex, the CacheManager that evicts when the directory is     *)
(* over its limit, and a crash followed by a mount at any point between.   *)
(*                                                                         *)
(* A reader is one FUSE request thread with the handle it reads through.   *)
(***************************************************************************)
EXTENDS ClientState

CONSTANTS
    Readers,        \* FUSE read threads, each with a handle of its own
    NoReader,       \* no reader
    Evictor,        \* the CacheManager goroutine, as a holder of the mutex
    MaxDownloads,   \* capacity of FS.downloadSem
    MaxUnits,       \* cache limit, in units of MaxBlockFileSize
    OtherUnits,     \* other files in the cache directory: slimnode.db, ...
    MaxLeaked       \* bound: temp files that crashes leave behind

ASSUME ReadersAssumption ==
    /\ IsFiniteSet(Readers)
    /\ Evictor \notin Readers /\ NoReader \notin Readers /\ Evictor # NoReader
ASSUME LimitsAssumption ==
    /\ MaxDownloads \in Nat \ {0}
    /\ MaxUnits \in Nat /\ OtherUnits \in Nat /\ MaxLeaked \in Nat

VARIABLES
    pc,             \* pc[r]: where r's Read is, see ReaderPC
    hfile,          \* hfile[r]: FileHandle.filename
    hstate,         \* hstate[r]: FileHandle.state, captured by Open
    want,           \* want[r]: the hash of the row fetchAndCache read
    buf,            \* buf[r]: the downloaded bytes, then the temp file
    got,            \* got[r]: the errno of r's last Read
    flight,         \* flight[f]: the reader that leads f's download
    sem,            \* slots of downloadSem in use
    cacheMu,        \* holder of DiskCache.mu, NoReader when it is free
    leaked,         \* temp files of earlier runs in the cache directory
    epc,            \* where the CacheManager is
    ecount,         \* how many files this round is to evict
    elist           \* the files of this round not yet removed

readVars == <<hfile, hstate, want, buf, got>>
evictVars == <<epc, ecount, elist>>
cacheVars == <<pc, readVars, flight, sem, cacheMu, leaked, evictVars>>
vars == <<stateVars, cacheVars>>

\* A reader's positions in Read, readRemoteFileMode, fetchAndCache and Store.
InFlight == {"sem", "fetch", "store", "rename", "upsert", "mark"}
HoldsSlot == InFlight \ {"sem"}
ReaderPC == {"idle", "range", "check", "do", "wait", "loaded", "failed", "touch"} \cup InFlight

\* How a Read ends.
Results == {"OK", "ENOENT", "EIO"}

-----------------------------------------------------------------------------
(* Opening and reading.                                                     *)

GoTo(r, l) == pc' = [pc EXCEPT ![r] = l]
Returns(r, e) == got' = [got EXCEPT ![r] = e]

\* FileNode.Open for reading: the handle remembers the state of the row.
OpenRead(r, f) ==
    /\ up /\ pc[r] = "idle"
    /\ HasRow(f)
    /\ hfile' = [hfile EXCEPT ![r] = f]
    /\ hstate' = [hstate EXCEPT ![r] = table[f].state]
    /\ Returns(r, "OK")
    /\ UNCHANGED <<stateVars, pc, want, buf, flight, sem, cacheMu, leaked, evictVars>>

\* preadLocal of content c, then the pc the caller continues at when it worked.
Pread(r, c, next) ==
    IF c = NoContent
    THEN Returns(r, "ENOENT") /\ GoTo(r, "idle")
    ELSE Returns(r, "OK") /\ GoTo(r, next)

ReadLocal(r) ==
    /\ pc[r] = "idle" /\ IsLocal(hstate[r])
    /\ Pread(r, localDir[hfile[r]], "idle")
    /\ UNCHANGED <<stateVars, hfile, hstate, want, buf, flight, sem, cacheMu, leaked, evictVars>>

ReadCached(r) ==
    /\ pc[r] = "idle" /\ hstate[r] = "CACHED"
    /\ Pread(r, cacheDir[hfile[r]], "touch")
    /\ UNCHANGED <<stateVars, hfile, hstate, want, buf, flight, sem, cacheMu, leaked, evictVars>>

\* FetchPolicy.ResolveMode picks a range request or a full-file download.
ReadRemote(r) ==
    /\ pc[r] = "idle" /\ hstate[r] = "REMOTE"
    /\ \E l \in {"range", "check"} : GoTo(r, l)
    /\ Returns(r, "OK")
    /\ UNCHANGED <<stateVars, hfile, hstate, want, buf, flight, sem, cacheMu, leaked, evictVars>>

\* A range request; its data is not checked against any hash.  When it fails the
\* reader falls back to l and, where that ends the read, to errno EIO.
RangeRequest(r, l) ==
    \/ Responses(hfile[r]) # {} /\ Returns(r, "OK") /\ GoTo(r, "touch")
    \/ /\ RequestMayFail(hfile[r])
       /\ GoTo(r, l)
       /\ IF l = "idle" THEN Returns(r, "EIO") ELSE UNCHANGED got

RangeRead(r) ==
    /\ pc[r] = "range"
    /\ RangeRequest(r, "check")
    /\ UNCHANGED <<stateVars, hfile, hstate, want, buf, flight, sem, cacheMu, leaked, evictVars>>

\* readRemoteFileMode after fetchAndCache returned an error.
ReadFallback(r) ==
    /\ pc[r] = "failed"
    /\ RangeRequest(r, "idle")
    /\ UNCHANGED <<stateVars, hfile, hstate, want, buf, flight, sem, cacheMu, leaked, evictVars>>

\* readRemoteFileMode after fetchAndCache returned nil.
ReadLoaded(r) ==
    /\ pc[r] = "loaded"
    /\ hstate' = [hstate EXCEPT ![r] = "CACHED"]
    /\ Pread(r, cacheDir[hfile[r]], "touch")
    /\ UNCHANGED <<stateVars, hfile, want, buf, flight, sem, cacheMu, leaked, evictVars>>

\* A store write that leaves the table alone when it fails.
StoreWrite(t) == table' = t \/ ("db" \in Faults /\ UNCHANGED table)

\* UpdateLastAccess after the data was read; its error is ignored.
Touch(r) ==
    /\ pc[r] = "touch"
    /\ StoreWrite(UpdateLastAccess(hfile[r]))
    /\ GoTo(r, "idle")
    /\ UNCHANGED <<cacheDir, localDir, server, listed, manifest, clock, up, readVars,
                   flight, sem, cacheMu, leaked, evictVars>>

-----------------------------------------------------------------------------
(* fetchAndCache.                                                           *)

\* The first GetFile: nothing to do when the row already says the data is here.
CheckRow(r) ==
    /\ pc[r] = "check"
    /\ \/ GoTo(r, IF table[hfile[r]].state \in {"CACHED", "LOCAL_FINALIZED"}
                  THEN "loaded" ELSE "do")
       \/ "db" \in Faults /\ GoTo(r, "do")
    /\ UNCHANGED <<stateVars, readVars, flight, sem, cacheMu, leaked, evictVars>>

\* singleflight: a download of the same file is under way, wait for its result.
JoinFlight(r) ==
    /\ pc[r] = "do" /\ flight[hfile[r]] # NoReader
    /\ GoTo(r, "wait")
    /\ UNCHANGED <<stateVars, readVars, flight, sem, cacheMu, leaked, evictVars>>

\* Faulty variant of LeadFlight: a second download of the same file starts.
LeadAnyway(r) ==
    /\ pc[r] = "do" /\ HasRow(hfile[r])
    /\ flight' = [flight EXCEPT ![hfile[r]] = r]
    /\ want' = [want EXCEPT ![r] = table[hfile[r]].sha]
    /\ GoTo(r, "sem")
    /\ UNCHANGED <<stateVars, hfile, hstate, buf, got, sem, cacheMu, leaked, evictVars>>

\* singleflight: lead the download, starting with a second GetFile.
LeadFlight(r) ==
    /\ pc[r] = "do" /\ flight[hfile[r]] = NoReader
    /\ \/ /\ HasRow(hfile[r])
          /\ flight' = [flight EXCEPT ![hfile[r]] = r]
          /\ want' = [want EXCEPT ![r] = table[hfile[r]].sha]
          /\ GoTo(r, "sem")
       \/ /\ ~HasRow(hfile[r]) \/ "db" \in Faults
          /\ GoTo(r, "failed")
          /\ UNCHANGED <<flight, want>>
    /\ UNCHANGED <<stateVars, hfile, hstate, buf, got, sem, cacheMu, leaked, evictVars>>

\* Faulty variant of AcquireSlot: the slot is used but not taken.
TakeNoSlot(r) ==
    /\ pc[r] = "sem" /\ sem < MaxDownloads
    /\ GoTo(r, "fetch")
    /\ UNCHANGED <<stateVars, readVars, flight, sem, cacheMu, leaked, evictVars>>

AcquireSlot(r) ==
    /\ pc[r] = "sem" /\ sem < MaxDownloads
    /\ sem' = sem + 1
    /\ GoTo(r, "fetch")
    /\ UNCHANGED <<stateVars, readVars, flight, cacheMu, leaked, evictVars>>

\* Faulty variants of EndFlight: the slot is kept when the download failed; the
\* readers that joined the flight are not woken.
EndFlightKeepingSlot(r, l) ==
    /\ sem' = IF l = "failed" THEN sem ELSE sem - 1
    /\ flight' = [flight EXCEPT ![hfile[r]] = NoReader]
    /\ pc' = [q \in Readers |->
                IF q = r \/ (pc[q] = "wait" /\ hfile[q] = hfile[r]) THEN l ELSE pc[q]]
    /\ want' = [want EXCEPT ![r] = NoHash]
    /\ buf' = [buf EXCEPT ![r] = NoContent]
EndFlightForLeaderOnly(r, l) ==
    /\ sem' = sem - 1
    /\ flight' = [flight EXCEPT ![hfile[r]] = NoReader]
    /\ GoTo(r, l)
    /\ want' = [want EXCEPT ![r] = NoHash]
    /\ buf' = [buf EXCEPT ![r] = NoContent]

\* The download function returns: its deferred receive frees the slot and the
\* leader and everyone waiting on the flight get the same result.
EndFlight(r, l) ==
    /\ sem' = sem - 1
    /\ flight' = [flight EXCEPT ![hfile[r]] = NoReader]
    /\ pc' = [q \in Readers |->
                IF q = r \/ (pc[q] = "wait" /\ hfile[q] = hfile[r]) THEN l ELSE pc[q]]
    /\ want' = [want EXCEPT ![r] = NoHash]
    /\ buf' = [buf EXCEPT ![r] = NoContent]

\* FetchFile into memory.
Download(r) ==
    /\ pc[r] = "fetch"
    /\ \/ /\ \E c \in Responses(hfile[r]) : buf' = [buf EXCEPT ![r] = c]
          /\ GoTo(r, "store")
          /\ UNCHANGED <<want, flight, sem>>
       \/ RequestMayFail(hfile[r]) /\ EndFlight(r, "failed")
    /\ UNCHANGED <<stateVars, hfile, hstate, got, cacheMu, leaked, evictVars>>

\* The hash a download must have: the row's, or the manifest's when the row has
\* none.
ExpectedHash(r) == IF want[r] = NoHash THEN HashIn(manifest, hfile[r]) ELSE want[r]

\* Faulty variant of VerifyTemp: the hash is not compared.
UnverifiedTemp(r) ==
    /\ pc[r] = "store"
    /\ GoTo(r, "rename")
    /\ UNCHANGED <<stateVars, readVars, flight, sem, cacheMu, leaked, evictVars>>

\* Store, first half: the bytes go to a temp file and are hashed on the way.  A
\* mismatch or a write error removes the temp file.
VerifyTemp(r) ==
    /\ pc[r] = "store"
    /\ \/ /\ Sha256(buf[r]) = ExpectedHash(r)
          /\ GoTo(r, "rename")
          /\ UNCHANGED <<want, buf, flight, sem>>
       \/ /\ Sha256(buf[r]) # ExpectedHash(r) \/ "io" \in Faults
          /\ EndFlight(r, "failed")
    /\ UNCHANGED <<stateVars, hfile, hstate, got, cacheMu, leaked, evictVars>>

\* Store, second half, under the mutex: rename into place ...
StoreRename(r) ==
    /\ pc[r] = "rename" /\ cacheMu = NoReader
    /\ \/ /\ cacheMu' = r
          /\ cacheDir' = [cacheDir EXCEPT ![hfile[r]] = buf[r]]
          /\ GoTo(r, "upsert")
          /\ UNCHANGED <<want, buf, flight, sem>>
       \/ /\ "io" \in Faults
          /\ EndFlight(r, "failed")
          /\ UNCHANGED <<cacheMu, cacheDir>>
    /\ UNCHANGED <<table, localDir, server, listed, manifest, clock, up,
                   hfile, hstate, got, leaked, evictVars>>

\* Faulty variants of StoreUpsert: the row gets the hash the server lists by now; the
\* file is moved in but not recorded.
StoreUpsertLatest(r) ==
    /\ pc[r] = "upsert"
    /\ cacheMu' = NoReader
    /\ table' = UpsertFile(hfile[r], CachedRow(HashIn(ServerManifest, hfile[r])))
    /\ GoTo(r, "mark")
    /\ UNCHANGED <<cacheDir, localDir, server, listed, manifest, clock, up,
                   want, buf, flight, sem, hfile, hstate, got, leaked, evictVars>>
StoreWithoutUpsert(r) ==
    /\ pc[r] = "upsert"
    /\ cacheMu' = NoReader
    /\ GoTo(r, "mark")
    /\ UNCHANGED <<stateVars, readVars, flight, sem, leaked, evictVars>>

\* ... and record the file as CACHED.
StoreUpsert(r) ==
    /\ pc[r] = "upsert"
    /\ cacheMu' = NoReader
    /\ \/ /\ table' = UpsertFile(hfile[r], CachedRow(ExpectedHash(r)))
          /\ GoTo(r, "mark")
          /\ UNCHANGED <<want, buf, flight, sem>>
       \/ /\ "db" \in Faults
          /\ EndFlight(r, "failed")
          /\ UNCHANGED table
    /\ UNCHANGED <<cacheDir, localDir, server, listed, manifest, clock, up,
                   hfile, hstate, got, leaked, evictVars>>

\* fetchAndCache's own UpdateState, after Store has released the mutex.
MarkCached(r) ==
    /\ pc[r] = "mark"
    /\ \/ /\ table' = UpdateState(hfile[r], "CACHED")
          /\ EndFlight(r, "loaded")
       \/ /\ "db" \in Faults
          /\ EndFlight(r, "failed")
          /\ UNCHANGED table
    /\ UNCHANGED <<cacheDir, localDir, server, listed, manifest, clock, up,
                   hfile, hstate, got, cacheMu, leaked, evictVars>>

-----------------------------------------------------------------------------
(* The CacheManager.                                                        *)

\* Temp files of the downloads under way.
TempFiles == {r \in Readers : pc[r] = "rename"}

\* DiskCache.Usage sums every file of the cache directory, each taken as one
\* unit of MaxBlockFileSize.
Usage ==
    OtherUnits + leaked + Cardinality(TempFiles)
        + Cardinality({f \in Files : cacheDir[f] # NoContent})

\* evictIfNeeded up to the call of ForceEvict; Usage takes the mutex for reading.
EvictTick ==
    /\ up /\ epc = "idle" /\ cacheMu = NoReader
    /\ Usage > MaxUnits
    /\ ecount' = (Usage - MaxUnits) + 1
    /\ epc' = "list"
    /\ UNCHANGED <<stateVars, pc, readVars, flight, sem, cacheMu, leaked, elist>>

\* ForceEvict: the victims, least recently used first.
EvictList ==
    /\ epc = "list"
    /\ ecount' = 0
    /\ \/ \E s \in ListCachedByLRU(ecount) :
            /\ elist' = s
            /\ epc' = IF s = <<>> THEN "idle" ELSE "remove"
       \/ /\ "db" \in Faults
          /\ epc' = "idle"
          /\ UNCHANGED elist
    /\ UNCHANGED <<stateVars, pc, readVars, flight, sem, cacheMu, leaked>>

NextVictim ==
    /\ elist' = Tail(elist)
    /\ epc' = IF Len(elist) = 1 THEN "idle" ELSE "remove"

\* Faulty variant of EvictRemove: the file is not deleted.
EvictRowOnly ==
    /\ epc = "remove" /\ cacheMu = NoReader
    /\ cacheMu' = Evictor
    /\ epc' = "update"
    /\ UNCHANGED <<stateVars, pc, readVars, flight, sem, leaked, ecount, elist>>

\* DiskCache.Remove, first half: the file goes, whatever its row says by now.
\* When it cannot be deleted the row is left and the next victim is tried.
EvictRemove ==
    /\ epc = "remove" /\ cacheMu = NoReader
    /\ \/ /\ cacheMu' = Evictor
          /\ cacheDir' = [cacheDir EXCEPT ![Head(elist)] = NoContent]
          /\ epc' = "update"
          /\ UNCHANGED elist
       \/ /\ "io" \in Faults
          /\ NextVictim
          /\ UNCHANGED <<cacheMu, cacheDir>>
    /\ UNCHANGED <<table, localDir, server, listed, manifest, clock, up,
                   pc, readVars, flight, sem, leaked, ecount>>

\* Faulty variant of EvictUpdate: the row is deleted with the file.
EvictForgets ==
    /\ epc = "update"
    /\ StoreWrite(DeleteFile(Head(elist)))
    /\ cacheMu' = NoReader
    /\ NextVictim
    /\ UNCHANGED <<cacheDir, localDir, server, listed, manifest, clock, up,
                   pc, readVars, flight, sem, leaked, ecount>>

\* DiskCache.Remove, second half: the row becomes REMOTE.
EvictUpdate ==
    /\ epc = "update"
    /\ StoreWrite(UpdateState(Head(elist), "REMOTE"))
    /\ cacheMu' = NoReader
    /\ NextVictim
    /\ UNCHANGED <<cacheDir, localDir, server, listed, manifest, clock, up,
                   pc, readVars, flight, sem, leaked, ecount>>

-----------------------------------------------------------------------------
(* The process dies between any two steps and is mounted again.             *)

\* The volatile state of a daemon that has just started.
FreshProcess ==
    /\ pc = [r \in Readers |-> "idle"]
    /\ hfile = [r \in Readers |-> NoFile]
    /\ hstate = [r \in Readers |-> "NONE"]
    /\ want = [r \in Readers |-> NoHash]
    /\ buf = [r \in Readers |-> NoContent]
    /\ got = [r \in Readers |-> "OK"]
    /\ flight = [f \in Files |-> NoReader]
    /\ sem = 0
    /\ cacheMu = NoReader
    /\ epc = "idle" /\ ecount = 0 /\ elist = <<>>

\* The same after a crash: readers, locks and downloads are gone with the process.
LoseProcess ==
    /\ pc' = [r \in Readers |-> "idle"]
    /\ hfile' = [r \in Readers |-> NoFile]
    /\ hstate' = [r \in Readers |-> "NONE"]
    /\ want' = [r \in Readers |-> NoHash]
    /\ buf' = [r \in Readers |-> NoContent]
    /\ got' = [r \in Readers |-> "OK"]
    /\ flight' = [f \in Files |-> NoReader]
    /\ sem' = 0
    /\ cacheMu' = NoReader
    /\ epc' = "idle" /\ ecount' = 0 /\ elist' = <<>>

Crash ==
    /\ up /\ "crash" \in Faults
    /\ leaked + Cardinality(TempFiles) <= MaxLeaked
    /\ up' = FALSE
    /\ leaked' = leaked + Cardinality(TempFiles)
    /\ LoseProcess
    /\ UNCHANGED <<table, cacheDir, localDir, server, listed, manifest, clock>>

\* slimnode stop while no read and no eviction is under way.  A stop in the middle of
\* one closes the store under it (mount.go:206): its store calls fail until the
\* process ends, which the faults db and crash allow at every step.
Shutdown ==
    /\ up /\ epc = "idle" /\ \A r \in Readers : pc[r] = "idle"
    /\ up' = FALSE
    /\ LoseProcess
    /\ UNCHANGED <<table, cacheDir, localDir, server, listed, manifest, clock, leaked>>

Mount == MountState /\ UNCHANGED cacheVars

-----------------------------------------------------------------------------
Init == StateInit /\ FreshProcess /\ leaked = 0

\* bitcoind opens a file, or starts to read through an open handle.
StartRead(r) ==
    \/ \E f \in Files : OpenRead(r, f)
    \/ ReadLocal(r) \/ ReadCached(r) \/ ReadRemote(r)

\* The request thread carries on with a read it has begun.
ContinueRead(r) ==
    \/ RangeRead(r) \/ ReadFallback(r) \/ ReadLoaded(r) \/ Touch(r)
    \/ CheckRow(r) \/ JoinFlight(r) \/ LeadFlight(r) \/ AcquireSlot(r)
    \/ Download(r) \/ VerifyTemp(r) \/ StoreRename(r) \/ StoreUpsert(r) \/ MarkCached(r)

CacheManager == EvictTick \/ EvictList \/ EvictRemove \/ EvictUpdate

Environment ==
    \/ (Tick \/ \E f \in Files : Publish(f)) /\ UNCHANGED cacheVars
    \/ Crash \/ Shutdown \/ Mount

Next ==
    \/ \E r \in Readers : StartRead(r) \/ ContinueRead(r)
    \/ CacheManager
    \/ Environment

Spec == Init /\ [][Next]_vars

\* A begun read goes on, and the CacheManager ticks.  downloadSem is a Go channel
\* and DiskCache.mu a Go mutex: both serve blocked goroutines in turn, so a
\* goroutine that waits for one and finds it free again and again gets it.
Fairness ==
    /\ \A r \in Readers : SF_vars(ContinueRead(r))
    /\ SF_vars(CacheManager)

FairSpec == Spec /\ Fairness

-----------------------------------------------------------------------------
(* Properties.                                                              *)

\* Every variable stays within its type.
TypeOK ==
    /\ StateTypeOK
    /\ pc \in [Readers -> ReaderPC]
    /\ hfile \in [Readers -> Files \cup {NoFile}]
    /\ hstate \in [Readers -> RowStates]
    /\ want \in [Readers -> Digests]
    /\ buf \in [Readers -> Content]
    /\ got \in [Readers -> Results]
    /\ flight \in [Files -> Readers \cup {NoReader}]
    /\ sem \in Nat
    /\ cacheMu \in Readers \cup {Evictor, NoReader}
    /\ leaked \in Nat
    /\ epc \in {"idle", "list", "remove", "update"}
    /\ ecount \in Nat
    /\ elist \in Seq(Files)
    /\ \A r \in Readers : pc[r] # "idle" \/ hstate[r] # "NONE" => hfile[r] \in Files

\* Whatever the network delivers and wherever the process dies, the cache
\* directory only ever holds revisions of a file that the server has published
\* (cache.go:50, the hash is checked before the rename).
IsPublished(f, c) == \E v \in 1..server[f] : c = ServerCopy(v)
CacheHoldsPublished ==
    \A f \in Files : cacheDir[f] # NoContent => IsPublished(f, cacheDir[f])

\* Why that is so: hashes come from manifests, and a temp file is only kept once
\* its hash is one of them.
IsPublishedHash(f, h) == h = NoHash \/ IsPublished(f, h.digestOf)
DownloadIsPublished(r) ==
    pc[r] \in InFlight =>
        /\ IsPublishedHash(hfile[r], want[r])
        /\ pc[r] = "store" => buf[r] # NoContent
        /\ pc[r] \in {"rename", "upsert"} => IsPublished(hfile[r], buf[r])
HashesArePublished ==
    /\ \A f \in Files : manifest[f] <= server[f] /\ IsPublishedHash(f, table[f].sha)
    /\ \A r \in Readers : DownloadIsPublished(r)

\* On every path out of a download, errors included, its slot of downloadSem is
\* given back, and no more than MaxDownloads hold one (handle.go:157-160).
SlotHolders == {r \in Readers : pc[r] \in HoldsSlot}
SlotsAccountedFor ==
    /\ sem = Cardinality(SlotHolders)
    /\ sem <= MaxDownloads

\* One download per file at a time, and a reader that waits for a download waits
\* for one that is still under way (handle.go:151).
OneFlightPerFile ==
    /\ \A r \in Readers : pc[r] \in InFlight => flight[hfile[r]] = r
    /\ \A r \in Readers : pc[r] = "wait" =>
            /\ flight[hfile[r]] \in Readers
            /\ pc[flight[hfile[r]]] \in InFlight
            /\ hfile[flight[hfile[r]]] = hfile[r]

\* Who holds DiskCache.mu, and that the CacheManager has a victim when it needs
\* one.
MutexHeld ==
    /\ \A r \in Readers : cacheMu = r <=> pc[r] = "upsert"
    /\ cacheMu = Evictor <=> epc = "update"
    /\ epc \in {"remove", "update"} => elist # <<>>

\* A file in the cache directory has a CACHED row, by which the CacheManager can
\* find it, except while the download that puts it there holds the mutex.
CachedFilesAreTracked ==
    \A f \in Files : cacheDir[f] # NoContent =>
        \/ table[f].state = "CACHED"
        \/ \E r \in Readers : cacheMu = r /\ pc[r] = "upsert" /\ hfile[r] = f

\* The state of a row is reached by the events of internal/state only: the
\* readers and the CacheManager fetch and evict, and touch nothing else; a mount
\* follows what it finds, and makes a row REMOTE that it cannot read (mount.go:111).
Lifecycle == INSTANCE FileLifecycle WITH
    st <- [f \in Files |-> table[f].state], durable <- [f \in Files |-> table[f].state],
    running <- up, missed <- {}, MountsFail <- "mount" \in Faults
FollowsLifecycle == Lifecycle!Spec

\* Every read that was begun returns, with data or with an error.
ReadsReturn == \A r \in Readers : (pc[r] # "idle") ~> (pc[r] = "idle")

\* Once bitcoind stops reading, eviction brings the cache directory down to its
\* limit (docs/reference.md:24, "LRU cache limit").
CacheShrinks ==
    <>[](up /\ \A r \in Readers : pc[r] = "idle") => []<>(Usage <= MaxUnits)

\* A CACHED row has its file in the cache directory, except while Remove is
\* between deleting the one and updating the other.
CachedHasFile ==
    \A f \in CachedRows :
        \/ cacheDir[f] # NoContent
        \/ cacheMu = Evictor /\ Head(elist) = f

\* While the daemon runs, a CACHED row and the cached file never fall apart: where the
\* row has the hash of the file it keeps it, through second downloads of the file by
\* readers that saw its row before, evictions and failures in between.  Only a mount
\* puts a newer hash on an old file (mount.go:126).
HashAgrees(f) == table[f].state = "CACHED" /\ table[f].sha = Sha256(cacheDir[f])
AgreementIsKept ==
    [][\A f \in Files :
         (HashAgrees(f) /\ table'[f].state = "CACHED" /\ up /\ cacheDir'[f] # NoContent)
             => HashAgrees(f)']_vars
=============================================================================
