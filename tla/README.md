# A TLA+ model of slimnode

slimnode lets a Bitcoin full node run without its old block files. A FUSE daemon
(`slimnode mount`) presents a complete `blocks/` directory to bitcoind; files bitcoind
is writing live in a local directory, the rest is downloaded from an archive server on
demand and kept in a bounded cache. The archive side (`slimnode-server`) scans the
blocks directory of an ordinary full node, publishes a manifest of its finalized files
and serves them, directly or through an S3 bucket and a CDN.

This directory holds specifications of both sides, the TLC configurations that check
them on small instances, and TLAPS proofs of the safety properties of all parts, for
instances of any size. Paths and line numbers refer to the Go source. `PROJECT.json` maps every definition to the lines it models.

## 1. Inventory

### The client daemon

| part | state | operations |
|---|---|---|
| file states (`internal/state`, `internal/store/types.go`) | none | `Transition`: four legal edges between ACTIVE, LOCAL_FINALIZED, CACHED, REMOTE |
| metadata store (`internal/store`) | one SQLite table, a row per file: state, source, hash, last access | upsert, update state, update last access, delete, list by state, list CACHED by LRU |
| disk cache (`internal/cache`) | the cache directory, one RW mutex | `Store` (temp file, hash, rename, row), `Remove`, `Usage` |
| read path (`internal/fusefs/node.go`, `handle.go`) | per handle: name and the row's state at open; shared: singleflight group, download semaphore | `Open`, `Read` (local, cached, range request, full download) |
| cache manager (`internal/daemon/cachemgr.go`) | none between ticks | `evictIfNeeded`, `ForceEvict` |
| write path (`internal/fusefs/create.go`, `write.go`, `nullwrite.go`) | local directory, `activeWriteHandles` | `Create`, `Open` for writing, `Write`, `Allocate`, `Fsync`, `Release` with `finalize` |
| manifest poller (`internal/daemon/poller.go`) | the last manifest | fetch, `Diff`, one store write per added or removed name |
| mounting (`internal/cmd/mount.go`, `internal/fusefs/local.go`) | none | initial manifest, local scan, removal of orphaned ACTIVE rows, registration of listed files |
| fetch policy (`internal/fusefs/fetch_policy.go`) | hints and cooldowns per file, a read tracker per handle | choice of range request or full download |
| compaction (`internal/daemon/compaction.go`) | a state file | replace local files by snapshots, recovery after a crash; finds nothing to do, see section 6 |
| remote clients (`internal/remote`) | ETag of the last manifest | GET with retries and backoff, CDN variant |
| daemon life cycle (`internal/cmd/daemon.go`, `stop.go`, `internal/fusefs/lifecycle.go`) | PID file | daemonize, signal, unmount, close |
| block-level fetch (`internal/blockcache`, `internal/blockmap`, `handle.go`) | blockmaps in memory, a cache of blocks, a flight per block | load a blockmap, fetch and verify a block, assemble a read; off in production: `mount` passes no block cache |
| undo file codecs (`internal/revfile`) | none | VarInt, CompactSize, amounts, scripts, coins, records with their checksum; not yet called by the daemon |

The parts run as goroutines: one per FUSE request, the poller, the cache manager. They
share the table (each write a transaction of its own), the two directories and, for
reads, the singleflight group, the semaphore and the cache mutex. No lock spans two
parts: each reads a row, works, and writes a row, and the others may run in between.

### The archive side

| part | state | operations |
|---|---|---|
| scanner and manifest generation (`internal/server/scanner.go`, `manifestgen.go`) | none | list finalized files, hash them, reuse hashes of the previous manifest |
| file server (`internal/server/serve.go`) | manifest in memory and on disk, names of the last reload | periodic reload, `GET` of manifest, file, blockmap, snapshot |
| S3 syncer (`internal/daemon/syncer.go`, `internal/s3`) | the bucket, `lastManifest` | upload what is new, then regenerate and upload the manifest |
| `xorstrip` (`tools/xorstrip`) | blk and rev files, `xor.dat` | detect, convert and repair in place with several workers, zero the key |
| blockmaps, snapshots (`internal/server`) | files | manual commands |

Server and syncer read the directory while bitcoind writes to it. `xorstrip` works
on the directory in place, for as long as hundreds of gigabytes take, and has to survive
being killed.

### What is hard here

* *Interleavings.* Eviction against download, release against open, poll against write,
  bitcoind against the scanner. Unit tests run one of them at a time.
* *Stale values.* A handle's state is captured at open; `finalize` writes back a row it
  read before hashing 128 MiB; `ForceEvict` walks a list; a reload remembers names from
  one scan and publishes another.
* *Failures between two steps.* A rename without its row, a created file without its
  row, an upload without its manifest, each by an error or by a crash.
* *Ignored errors.* Mounting goes on after every failed store call, and `Lookup` takes one
  for a name that does not exist.
* *Power failures.* Neither files nor rows reach the disk at once; after a power failure
  they can disagree in any combination.
* *Limits.* Download slots, the cache limit, the handle counter, the bounds of a retry.
* *Unlocked state.* A handle's read tracker is updated by concurrent reads.
* *Work in place.* `xorstrip` changes the only copy of a file with an operation that is
  its own inverse.
* *Boundaries.* Encodings, thresholds, reads across blocks and behind the end of a file.

What correctness means for each part:

* cache: it only holds what the server published; what is in it can be found again for
  eviction; its size comes down to the limit;
* read path: every read returns; one download per file, no slot is lost; a read by
  blocks returns the bytes asked for, and a block is fetched once;
* fetch policy: a file is promoted to full downloads only by reads that were made;
* store: rows move along the edges `internal/state` declares;
* write path: the file bitcoind appends to stays writable, ACTIVE rows have a file,
  sealed files have a hash of their own content and no longer change;
* archive side: only finalized files are listed; each of them is listed and uploaded in
  the end; a hash that is taken over is still valid; an uploaded object never changes, and the
  manifest in the bucket lists what the bucket holds;
* `xorstrip`: nothing is obfuscated again, the key goes when no file needs it;
* undo codecs: what bitcoind wrote reads back and can be written again the same, damaged or
  cut files yield complete records.

## 2. Modules

```
FileState ── FileLifecycle          abstract life cycle of a file
    │             ▲ implemented by
ClientState ── FileCache ── MCFileCache
    └── Poller ── WritePath ── MCWritePath

FetchPolicy ──┬── RemoteRead ── MCRemoteRead
Blockmap ─────┘

ArchiveDir ── ArchiveServer ── MCArchiveServer
    └──────── Syncer ── MCSyncer

XorStrip ── MCXorStrip              RevNumbers ──┬── RevFile ────────┬── MCRevFile
                                                 └── NumberFormats ──┘
proofs:
ClientStateProofs ──┬── FileCacheProofs     Loops ──┬── RemoteReadProofs
                    └── WritePathProofs             ├── RevFileProofs
ArchiveProofs                                       └── XorStripProofs
```

**FileState** is `internal/state`: states, events, transition triples, predicates.

**FileLifecycle** is the abstract specification: while the daemon runs a name gets a
first row and then moves along legal edges only; the daemon stops, with the machine
perhaps, so that the states are those of its disk (`durable`), and the mount after that may
re-classify files from what it finds there. Two errors of the store weaken the promise, and
are part of it under their names: `MountsFail` lets a mount write REMOTE over a row it could
not read, and a name in `missed` may become ACTIVE whatever its row is. The client modules
are shown to implement it, with `st <- [f \in Files |-> table[f].state]`, `running <- up`,
for `missed` the names `Create` is about to register and for `MountsFail` whether the faults
include `mount`; without `mount` and `db` it is the plain life cycle.

**ClientState** is the state the daemon's parts share and the operations on it: the
table with the store's statements, the directories, the server seen from the client,
and mounting as one step, since nothing else runs before `MountCmd.Execute` has finished
it. The code ignores the error of every store call it makes there (`mount.go:82`, `92`, `98`,
`106`, `111`, `122`, `133`) and goes on, so what a mount makes of a row is a set, `MountRows`:
the row it should be and, if `mount` is among the faults, the one that is left when a scanned
row is not written, an orphan not deleted or a listed row not read or not written. The
constant `Faults` says which faults a run allows: `db` are store errors of the running daemon,
`mount` those while mounting, `loss` and `rollback` a power failure that takes unflushed files
and unsynced rows. The other kinds are in the module.

**FileCache** is the read path, the disk cache and the cache manager. A reader is a FUSE
request thread together with its handle. `Read` is split where another goroutine can
observe the difference:

| `pc[r]` | code |
|---|---|
| `range` | a range request is under way (`handle.go:90`) |
| `check`, `do`, `wait` | `fetchAndCache`: first row lookup, entry to `singleflight.Do`, waiting for its leader |
| `sem`, `fetch` | second row lookup done, waiting for a slot; slot taken, `FetchFile` |
| `store`, `rename`, `upsert` | `DiskCache.Store`: temp file and hash; rename; row, both under the mutex |
| `mark` | `UpdateState(CACHED)` after `Store` returned |
| `loaded`, `failed`, `touch` | back in `readRemoteFileMode`: open the cached file; fall back to a range request; `UpdateLastAccess` |

The cache manager is `EvictTick` (usage over the limit), `EvictList` (the victims),
`EvictRemove` and `EvictUpdate` (the halves of `DiskCache.Remove`, under the mutex).

**RemoteRead** is the part of `FileHandle.Read` that `FileCache` leaves open: how a read
of a REMOTE file decides between blocks, ranges and a full download. Readers are kernel
requests, of which several may use one handle at a time.

| `pc[r]` | code |
|---|---|
| `map`, `mapfetch` | `readViaBlockmap`: the blockmap is looked up; `FetchBlockmap` |
| `block`, `do`, `wait`, `fetch`, `eio` | the next block; `blockDL.Do`; waiting for its leader; `fetchBlock`; its error |
| `range`, `fallback` | a range request, at first or after a failed download |
| `full` | `fetchAndCache`, one request that succeeds or fails |
| `observe`, `promote`, `mark` | `ObserveRangeRead`, `ShouldPromoteToFile`, `MarkPromotionSuccess` |

`attempt[r]` counts the attempts of the request under way (`doWithRetry`). The block
cache and the flights are maps from the blocks that are there, as in the code. A full
download is one step here and twelve in `FileCache`; the choice is one step there and
a policy here.

**FetchPolicy** has the hints and cooldowns of files, changed under the policy's mutex,
and the trackers of handles, which nothing protects. `ObserveRangeRead` is given the
tracker as the read found it, and each counter may be added to as it is now or as it was
then: that is what Go code compiled to loads, additions and stores can do. **Blockmap**
is the scan of a blk file, the order in which entries are written and read, and
`FindBlocks`; `RemoteRead` assembles reads from them. The loops of the code (the scan, the
search, the copying of blocks into the answer) are recursive functions from the number of
the round to the state of the loop after it. Units of a file are named by their offset; the
first unit of a block is its preamble, the second its header, which is all `fetchBlock`
hashes (`handle.go:335`). `Damaged` is a unit that was damaged on the way and `Unwritten` one
of the answer's buffer that no block was copied to.

**Poller** is `ManifestPoller.poll`: one step per fetched manifest and one per row.

**WritePath** has one writer per `open(2)` of bitcoind. `Create` is lookup, open, row and
handle count; `Write` is the row check and then the bytes; `Release` is the handle count,
the decision, the hash and the seal. `NullWriteHandle` is a handle whose writes change
nothing. `Lookup` answers ENOENT when the store does not answer (`root.go:87`), so with store
errors the kernel creates names that have a row, and `Create` opens the file when it cannot
read the row either. `disk` is what of the local files and of the table is on stable storage:
`Fsync` flushes a file, `StoreSync` the table, whenever SQLite likes (`store.go:89` sets
synchronous=NORMAL), and a power failure may take every file back to `disk`, and the table.

**ArchiveDir** is bitcoind's directory and `GenerateManifest`: a scan and then one hash
at a time, from the previous manifest where name and size agree. bitcoind writes into space
it has allocated or grows a file first (`Append`), and gives unneeded space back when it is
done with a file (`Truncate`); a blk file then still has at least the threshold's size, which
is what the threshold was chosen for (`LeastSize`), and is left alone, while its rev file may
get undo data later. **ArchiveServer** adds `maybeReloadManifest` and restarts, **Syncer** adds
`sync`; its names begin with `Sync`, since `ArchiveProofs` extends both.

**XorStrip** is the tool from its options to the rewrite of `xor.dat`, over several runs.
A file is a sequence of bytes, a byte the set of keys it is XORed with, so that XOR is
symmetric difference with one key and `{}` is raw; a magic takes `MagicSize` bytes and a chunk
`PerChunk`. `Start` detects the state of the files and makes the jobs, workers take jobs and
strip chunk after chunk, `ConvertDone`, `RepairDone`, `ReturnError` and `ZeroXorDat` are the
main goroutine. `Kill` ends the process anywhere and leaves every write in progress done up to
some byte, be it before the chunk's first magic or inside one. Errors go where the code sends
them: a read that stops early has its bytes stripped and written and then counts as the end of
the file, and `findConversionBoundary` looks for a magic in what was read. A power failure,
which may keep later chunks and lose earlier ones since nothing is flushed before the end of a
file (`main.go:401`), is not modelled. `marks` is no state of the code: it records which files
a run has written to with another key than the node's (`foreign`), stopped in the middle of a
chunk of (`torn`), or sent a repair of to a wrong chunk after a short read (`misled`). The
promises name the marks they exclude; what the code does to marked files is in section 5.

**RevNumbers** are VarInt, CompactSize and amounts as functions on bytes; **NumberFormats**
says what they promise of a number; **RevFile** are scripts, coins, undo data and records,
next to a file that bitcoind writes record by record and that is then cut, padded or damaged.
bitcoind's writer (`CoreScript` to `CoreRecord`) is external and separate from the package's:
it shortens an uncompressed key only if the key is a point of the curve, and keeps in full
whatever else is no standard script. Which keys are points is the constant `CurvePoints`. The
number of byte values and of uint64 and uint32 values, the lengths of hashes, coordinates
and checksums, the opcodes and the magic are constants: TLC meets carries and thresholds
with small ones, the proofs hold for all, those of the code among them. A loop that reads
`n` items is a function of the round; `n` comes from the file and may be as large as it
likes, but an item takes a byte, so the loop has failed in the round after the last byte
(`Rounds`). That the code allocates `n` items first, and panics if a damaged length or count
is too large (`script.go:162`, `coin.go:79`, `coin.go:108`), is not modelled: the model comes
to the end of the input there.

Operators introduced as "Faulty variant of X" are plausible mistakes in X. No
specification uses them; put in place of X each makes TLC report the property it is
listed with in `PROJECT.json` under `mutants`, which shows the property is not vacuous.

### Abstractions

* Contents are opaque: where they came from and which revision they are. SHA-256 has no
  collisions. Every file counts as one unit of the cache limit.
* A name is a model value; the relation of blk, rev and successor files is a constant.
* In `FileCache` the choice between range request and download is nondeterministic, so
  it allows every choice the policy makes and more; reads by blocks change nothing it
  models. `RemoteRead` has both.
* The finalization channel, which nothing reads, is left out.
* In `RemoteRead` a file is a handful of units named by their offset; the binary layout of
  blockmaps is left out, and a wait between attempts takes no time of its own (the clock
  may move at any point of a read).
* In `RevFile` a checksum is the pair of previous hash and data, so equal only for equal
  input, and a cell of the file is a byte or a part of a checksum; nothing is computed on
  the curve.
* In `RemoteRead` the ghost `ranged` adds the length of the request for a read by blocks, as
  the code does for its tracker (`handle.go:74`); at the end of the file that is more than the
  bytes returned.
* `HashMatchesState` compares where the hash of a sealed row comes from and not which local
  content it is of: handles that outlive the seal write on, and a power failure takes writes
  away.
* `corrupt` is a download damaged by the server, the CDN or the network after the
  transport's own checks; a range request can return it, the cache must not.
* A temp file counts in `Usage` once it is complete. The kernel's page cache is not
  modelled: a read reaches the daemon.
* On the archive side sizes are in units of bitcoind's allocation, a change of a file is
  known by its number, and hashing a file is one step. (A hash taken during a write could also
  match no content at all; it would be kept in the same way.)

## 3. Runs

Bounds: two files and two readers (or writers) are the smallest instance in which one
actor can disturb another on the same file while a second file makes the cache overflow;
two blk files give a sealed file and its successor (rev files are never sealed and are left to
the theorems). One download slot and a limit of one unit make both run out. `MaxRevision`,
`MaxClock`, `MaxWrites`, `MaxLeaked` and `MaxFailures` bound the counters. The clock
moves in `FileCacheLive`, where it decides which file is evicted first; the other runs
keep it still, which leaves the choice among equal timestamps open.

Store errors while mounting are in `FileCacheSafety` and `WritePathPolled`. They are not in
`WritePathSafety`: with `mount` among the faults `ActiveHasFile` and `TipStaysWritable` exempt
what mounts leave, without it they hold mounting after a power failure to its task. (The run
passes with `mount` as well, and the theorems hold for every set of faults.) `FileCacheSafety`
starts without local files, which the read path does not change; `FileCacheLive` has them.
`WritePathPolled` has no writes, since polls and mounts look at rows and at whether a file is
there, not at what is in it.

| run | instance | shows |
|---|---|---|
| `FileCacheSafety` | 2 readers, 2 files, 2 revisions, all faults of the read path and of mounting | the cache holds published revisions only, slots and flights are accounted for, rows follow the life cycle, and a CACHED row that has the hash of its cached file keeps it while the daemon runs (`AgreementIsKept`) |
| `FileCacheLive` | 2 readers, 2 files, network faults, fairness | reads return; without crashes and store errors cached files have their CACHED row; an idle cache shrinks to its limit |
| `WritePathSafety` | 2 writers, 2 blk files, 1 write each, crashes that lose files and rows, I/O and store errors | handle count, writable tip, ACTIVE rows have files, hashes fit states, life cycle; a sealed file that no write handle is open on does not change and gets no such handle (`SealedIsFinal`), but for a `Create` that two store errors kept from seeing its row |
| `WritePathPolled` | 2 writers, 2 blk files, server that lists and withdraws, crashes, store errors, also while mounting | ACTIVE rows have files and hashes fit states, with a poller that replaces and deletes rows |
| `RemoteRead` | 2 reads at a time on 2 handles of a file of two blocks, 1 retry, server errors, refusals, damaged and short answers | blocks are fetched once and assembled exactly, up to damage outside their headers, whatever was delivered and cached before; a promotion is earned although trackers lose updates; reads return |
| `ArchiveServer` | a blk file and its rev file, 2 writes each and their cutting, 2 failures or restarts | only finalized files are listed, and every one in the end |
| `Syncer` | the same files, 3 failures or restarts | every finalized file is uploaded in the end, no object is replaced; a manifest that is uploaded lists every object then in the bucket; a file is listed in the end unless something failed |
| `XorStrip` | 3 runs with any options, 2 workers, a blk file of 7 bytes in two chunks and a rev file of 2, kills, reads and writes that stop at any byte | stripping never obfuscates; a clean `--repair` run with the right key completes an interrupted one; both but for marked files; runs end |
| `RevFile` | up to 2 records with coins of every script form, cut at every byte, padded, damaged; numbers to 600 and around every boundary in radix 14 | VarInts and amounts are bijective, all numbers read back, complete records come out of incomplete files, what is parsed of bitcoind's records is written back the same unless a script is taken for a key, checksums tell |

In `RemoteRead` the thresholds of the policy are two requests and two units, so that one
handle's two reads can reach them and a handle's single read must not; hint and cooldown
last one tick of a clock that moves once, so both can be over before they are set. The
three reads touch both blocks, begin inside the second and run behind the file, and lie
behind it. On the archive side two writes let a file be listed at the threshold and then
change at the same size or grow, before it is cut. In `XorStrip` a run is the third at most:
one to be interrupted, one to go on from there, one to meet what the second made of it; a
chunk has four bytes and a magic two, so that a chunk can be torn inside its magic, before and
behind it; the last chunk is short and its magic is not at its start. In `RevFile` a byte has 14 values and
a word is six bytes, so that every threshold of CompactSize and three carries of a VarInt
are within reach and still all special size bytes and opcodes are bytes; a hash has two
bytes, a coordinate three and a checksum two, which keeps the lengths of the scripts apart
as the real ones do; among the scripts are one that looks like the synthetic form and an
uncompressed key that is not on the curve.

Three runs are expected to end in a violation. Each states what the documentation, a
comment or a declaration of the repository says, and TLC shows how the code departs
from it:

| run | what happens |
|---|---|
| `FileCacheEvictRace` | `Store` puts f in place; the cache manager evicts f; `fetchAndCache` then writes CACHED again (`handle.go:186`): a CACHED row without a file |
| `ArchiveServerStale` | a file is listed at the size threshold, bitcoind writes to it at an unchanged size, the server restarts, and the generation takes over the old hash because name and size agree (`manifestgen.go:142`): it lists a file whose content has another hash |
| `XorStripRerun` | a run killed between two chunks leaves a file whose first bytes are raw; a plain second run takes it for converted, has nothing to do and zeroes the key its second half needs (`main.go:109`, `main.go:140`) |

### Fairness

`FileCache`: a read that has begun goes on, and the cache manager ticks. The fairness is
strong because the two waits of a read (and the evictor's one) are on a buffered Go
channel and a Go mutex: both hand over to blocked goroutines in turn, so a goroutine
that finds them free again and again gets them. Everywhere else a step of theirs stays
enabled and weak fairness would do. Nothing is assumed of bitcoind: it need not read.
Crashes are left out of the liveness run.

`ArchiveServer` and `Syncer`: weak fairness of the loop as a whole, because a ticker
drives it. Failures and restarts are bounded by `MaxFailures`: if every upload failed
for ever nothing could be promised. bitcoind need not write.

`RemoteRead`: weak fairness of each read that has begun. A request ends because its
attempts are bounded and the transport limits the wait for an answer's headers; the only
other wait is for a flight, whose leader is such a read. bitcoind need not read and time
need not pass.

In both, that the body of an answer ends is an assumption about the network: the clients
set no limit on it (`client.go:37`) and leave a silent peer to TCP's keep-alive.

`XorStrip`: weak fairness of the main goroutine and of each worker. The main
goroutine waits for room in the channel of jobs, closes it and waits for the workers;
these wait for the channel and go on after an error. A run that is killed has ended as well.

`WritePath` states no liveness: its steps wait for nothing. `RevFile` has none to state.

## 4. Proofs

The theorems hold for any finite sets of files, readers, writers and workers, any layout
of the files, any bounds and limits and, unless said otherwise, every set of faults.

| module | theorem | statement |
|---|---|---|
| `FileCacheProofs` | `TypeCorrect` | `Spec => []TypeOK` |
| | `SlotsSafe` | `Spec => []SlotsAccountedFor` |
| | `CacheIntegrity` | `Spec => []CacheHoldsPublished` |
| | `SingleFlight` | `Spec => []OneFlightPerFile` |
| | `ImplementsLifecycle` | `Spec => FollowsLifecycle`, i.e. `FileCache` implements `FileLifecycle` |
| | `CacheIsTracked` | without `db`, `mount` and `crash` in `Faults`, `Spec => []CachedFilesAreTracked` |
| | `AgreementHolds` | `Spec => AgreementIsKept` |
| `WritePathProofs` | `WriteTypeCorrect` | `Spec => []TypeOK` |
| | `HandlesAlwaysCounted` | `Spec => []HandlesCounted` |
| | `ActiveAlwaysHasFile` | `Spec => ActiveHasFile` |
| | `HashAlwaysMatches` | `Spec => []HashMatchesState` |
| | `TipAlwaysWritable` | `Spec => TipStaysWritable` |
| | `SealedOnlyPolled` | `Spec => SealedUnlessPolled` |
| | `SealedWithoutPolls` | `Spec /\ []NothingPolled => SealedIsFinal` |
| | `LifecycleWithoutPolls` | `Spec /\ []NothingPolled => FollowsLifecycle` |
| `RemoteReadProofs` | `ReadTypeCorrect` | `Spec => []TypeOK` |
| | `PromotionsEarned` | `Spec => []PromotionIsEarned` |
| | `BlocksFetchedOnce` | `Spec => []NeverRefetched` |
| | `NobodyWaitsAlone` | `Spec => []WaitsForLeader` |
| | `BlockReadsExact` | `Spec => []BlockReadsAreExact` |
| `ArchiveProofs` | `ServerTypeCorrect` | `Spec => []TypeOK` |
| | `OnlyFinalizedListed` | `Spec => []ListedAreFinalized` |
| | `SyncTypeCorrect` | `SyncSpec => []SyncTypeOK` |
| | `UploadedOnce` | `SyncSpec => ObjectsAreImmutable` |
| | `ManifestComplete` | `SyncSpec => ManifestCoversBucket` |
| | `OnlyFinalizedUploaded` | `SyncSpec => []UploadedAreFinalized` |
| `XorStripProofs` | `StripTypeCorrect` | `Spec => []TypeOK` |
| | `StrippingReveals` | `Spec => OnlyReveals` |
| | `RepairsComplete` | `Spec => RepairIsComplete` |
| `RevFileProofs` | `NumbersAlwaysReadBack` | `NumbersReadBack`, for every number of a word and whatever follows it |
| | `AmountsBijective` | `AmountBijective`, for every number of a word |
| | `FileLaidOut` | `Spec => []RevInv` |
| | `CompleteRecordsParsed` | `Spec => []ParsesCompleteRecords` |
| | `RecordsRewritten` | `Spec => []RewritesTheSame` |
| | `ChecksumsSound` | `Spec => []ChecksumsTell` |

They rest on the named assumptions on the constants (finite sets, distinct special
values, natural bounds), which TLC evaluates in every run. `ClientStateProofs` holds the
lemmas about what two components share on the client: what mounting and the store's
statements yield. `ArchiveProofs` begins with those about a scan and `GenerateManifest`.

`Loops` is what stands in for an induction over data. The library's induction theorems
take an operator as a parameter, which the provers cannot instantiate; `UpTo` takes a set
instead: what holds of 0 and, with each number below n, of the next, holds up to n. It
follows from the least element of a set of numbers. `LoopRuns` and its companions say
that a loop, a function defined by recursion over its rounds, exists and is what its
definition says; TLA+'s recursive functions are choices, so this has to be proved.

### The file cache

*Types and slots.* `TypeOK` is not inductive: `sem - 1` is a natural number only because
the reader that leaves a download is counted in `sem`, and `Head(elist)` is a file only
because the list is not empty while victims are removed. `TypeInv` adds
`SlotsAccountedFor` and `MutexHeld`. The work is in `EndFlightFreesSlot`: leaving a
download takes exactly one element out of the set of slot holders.

*Integrity.* That cached contents are published follows from where hashes come from.
`PubInv` adds `HashesArePublished`: every hash in the table, in the manifest and in the
hands of a download is that of a published revision, and a temp file that passed its
check is one. Mounting, which copies hashes from a manifest that may be an old one, is
the step that needs the manifest's part. `PublishedStays` says publishing only adds.

*Flights.* `FlightInv` adds the converse direction, that a registered flight has a leader
inside a download of that very file; without it a waiter could wait for a flight that
has ended.

*Refinement.* `RowInv` says that readers inside a download and the evictor's victims
only concern rows in REMOTE or CACHED, and that nothing is under way while the daemon
is down. Then each step either keeps all states or moves
one row between REMOTE and CACHED, a crash or a shutdown is an abstract `Stop`, and a
mount is an abstract `Remount`, where `MountRowCases` lists what becomes of a
row, with and without store errors. That readers and evictor only act while the daemon is up
(`ActsWhileUp`) is part of the argument: only a remount may turn a row back to ACTIVE.

*Tracking.* `TrackInv` strengthens `CachedFilesAreTracked` by two facts: a local file has
an ACTIVE row, so a mount's scan never takes the row of a cached file away; and between
the halves of `Remove` the victim's file is already gone.

*Agreement.* A download renames a file into place under a hash it read before. That this
parts no row from its file rests on `AgreeInv`: the hash a download was asked for is
still the hash of its row, since no read and no eviction changes a hash while the daemon
is up, not even `Store`'s upsert, and what is renamed has passed the check against it.

### The write path

*Types and handles.* `InService` says that a request under way is served by a running
daemon, so a crash, which resets the counters, also ends all that they counted.
`HandlesCounted` is then inductive; a release that decrements removes exactly its writer
from the set that is counted.

*Rows and files.* `PathInv` says that hashes fit states, in the table and in what a power
failure would leave of it (`disk.rows`), that local contents are local, and what a request
remembers while others run (`RequestInv`): between the decision to seal and the seal the
successor stays in place, the hash in hand is that of a local file, and a handle's file
exists. The step that needs it is `finalize`, which writes back a row read before the hash.
After a power failure rows and files may disagree and a mount with store errors may leave it
so, so that an ACTIVE row has a file, and a sealed one a successor, is no invariant;
`ActiveHasFile` and `TipStaysWritable` are about steps. `RowsStayRight` says that no step of
the running daemon makes a row wrong that was right, and what a mount leaves follows from the
rows it can write.

*Polls.* `SealedIsFinal` and `FollowsLifecycle` hold for the write path without the
poller and not with it: a poll that finds a name in a new manifest turns its row to
REMOTE, whatever it was (section 5). `SealedOnlyPolled` states the part that is true in
general: nothing ever writes to a sealed file without a write handle, and only a poll
can end the seal, if `Create` can see the row (`CreatedUnseen`). The other two assume `[]NothingPolled`, that polls find no
difference; this allows every poll, failed or not, of a server whose list stays as it
is for the files at hand. Their corollaries derive the assumption from a server that
publishes nothing, which is the instance of `WritePathSafety`. The life cycle needs
`CreateInv` as well: the kernel runs one `Create` at a time in the directory, so a
name's first row is not written twice, and a row that is there when it is written is one of
the names `missed` stands for.

### Reads by blocks

*Promotions.* Trackers lose updates when reads of a handle overlap. `EarnedInv` says
that neither a tracker nor a copy a read took of it counts more than the range reads
made; a sum of one old and one new counter is then bounded as well.

*Flights.* The flight table, the cache and the readers' positions agree: each registered
flight has a leader fetching that block, each fetching reader is registered for its
block, each waiter's block is registered, and a block in flight is not cached. The
last part needs the second look at the cache a leader takes.

*Exactness.* What `assembleRead` returns is exact because of how its parts fit together.
`ScanTiles`: the entries of a scan that succeeds tile the file, each beginning where the
one before ends. `SortedStays`: such a list is in order already, so writing the blockmap
changes nothing and reading it accepts it. `FoundCover`: what `FindBlocks` selects from a
tiling covers the range without a gap, as far as the file goes. `CacheInv`: a block that
is cached or was fetched has the length of its entry, the file's header and other units that
are the file's or damaged, and all blocks a reader has passed are still cached; this is
the only part about states. `CopyExtends`: copying the next block extends the part of the
answer that is written, at its end. `AssembleExact` puts these together in an induction
over the blocks.

### The archive side

`ServerInv` adds that what a scan returned, and both manifests made from scans, are
finalized, which stays true since a file that counts as finalized is not cut below the
threshold (`FinalizedStays`); `DirInv` says that the names still to
be hashed are of the scan. For the syncer `BucketInv` says that objects are finalized and a
file on the list of new files has no object yet, so no upload replaces one; `CoverInv`
carries the bucket's names from the last upload through the scan into the manifest, which
works because the scan comes after the uploads and there is no other writer of the bucket.
`OnlyFinalizedUploaded` follows the finalized files through the same path: a scan returns
them only, what is hashed and carried over is of the scan, and finalized files stay so.

### xorstrip

Stripping is its own inverse, so a write reveals only if all that it touches is under the
key, and this has to be known from what earlier runs left behind, killed anywhere. `StripInv`:

* `FilesInv`: a file whose start is not raw is untouched, unless it was misled; a file with a
  chunk that was stripped in part is marked; in a clean file (magic everywhere, no marks)
  nothing behind a chunk without raw magic is stripped. It holds between runs, wherever they
  were cut short.
* `JobsInv`: no file has two jobs, in the channel, among the repairs or in hand, and every job
  is `Sound`: in a plain run, and in a clean file of a repair, all that is left to it is under
  the key.
* `CoverInv`: a repair without errors has a job for every clean blk file not yet done.
* `PhaseInv`: which jobs there are at which stage.

That `findConversionBoundary` finds the one boundary there is needs the least element of
a set of numbers (`LeastNumber`), that all bytes are examined needs `PiecesInChunks`.

The attempt to prove an earlier form of `OnlyReveals` and `RepairIsComplete` failed. It
took a file for unharmed when all of it was raw or under the node's key, and that is not
enough: several `--repair` runs with a wrong key, each killed midway, can leave such a file
with raw chunks behind obfuscated ones. It takes six runs, which TLC confirmed, and the run
checks three. That is why the mark `foreign` stays with a file for good; `torn` and `misled`
do so likewise.

### Undo files

*Numbers.* `WriteVarInt` fills its buffer from the end and `ReadVarInt` reads from the
front. The proof relates the digits one writes to the sums the other forms, round by
round; that every digit but the last carries one more than its value (`n = n\div 128 - 1`
in the code) is what makes the encoding unique. That each byte sequence which reads as a
VarInt is the one written for its value holds for sequences whose values all fit into a
word, of up to nine bytes in the code: longer ones may overflow. An amount is split into
its trailing zeros, its last digit and the rest, and the proof inverts each step of
`CompressAmount` by one of `DecompressAmount`.

*Reading back.* A script, a coin, a list of coins and the undo data of a block read back
from whatever follows them (`ScriptReadsBack`, `CoinReadsBack`, `TxReadsBack`,
`BlockReadsBack`) as bitcoind wrote them, up to the form of uncompressed keys; `RewritesBlock`
says that the package writes what it read as bitcoind had, unless a script is `TakenForKey`.
TLC shows that neither half of that exception can be dropped. Lists are read by one lemma for both kinds
(`ListReadsBack`), over the tails of the stream in front of each item. The lengths
`FormatAssumption` keeps apart are those of the special scripts: if an uncompressed key
or the synthetic form had the length of another form the cases of
`WriteCompressedScript` would be ambiguous.

*Files.* `RevInv` says that there are, for each record, undo data of the length that was
written, and, for each position between two records, what follows there (`tail`), such
that every tail is a record and the next tail; that the file and a missing rest `q` make
up the first tail; that the last tail is empty or allocated space; and that the undo data
is what was written exactly for the records that are not damaged. Appending, cutting,
padding and damaging preserve it (`LayoutExtends`, `LayoutSplits`, `LayoutCut`,
`LayoutDamage`). `ParsesLayout` follows `ParseAllRecords` through it: a round takes one
record and comes to the next tail, or ends in a record that is cut, in allocated space or
in damaged undo data (`ParseStep`), and every record takes at least a header and a
checksum, so the rounds suffice. Undo data in which a byte was changed may read as
something else or not at all; nothing is said of it but that its checksum tells.
`RevInv` speaks of sequences that exist and is proved only; TLC checks its consequences,
which are the properties of the run.

### What stays with TLC

* Liveness under fairness (`ReadsReturn` in both modules, `CacheShrinks`,
  `FinalizedIsServed`, `FinalizedIsUploaded`, `ListedUnlessFailed`, `RunsEnd`), which the
  prover does not handle. `SingleFlight` and `NobodyWaitsAlone` are the safety
  part of the first two: whoever waits, waits for somebody at work.

Every safety property of a passing run is also a theorem, two of the write path's under
`[]NothingPolled`.

## 5. Observations without a run

Read path and cache:

* A handle opened on a CACHED file gets ENOENT after the file was evicted
  (`handle.go:54`), though the server has it: the handle's state is that of its open.
* `min-keep-recent` (`docs/reference.md:25`) only reaches `DiskCache.Evict`, which
  nothing calls; `ForceEvict` (`cachemgr.go:77`) removes as many files as the excess asks
  for.
* After a crash between rename and row (`cache.go:80`), or with a temp file open, the
  leftover counts in `Usage` and no row leads eviction to it; the cache stays over its
  limit. `CacheIsTracked` needs its assumption for this reason. A mount that cannot read the
  row of a cached file (`mount.go:111`) writes REMOTE over it, with the same effect until the
  file is downloaded again.
* Mounting updates the hash of a CACHED row and keeps the old file (`mount.go:126`).
  `AgreementIsKept` says that nothing else pulls the two apart.
* Concurrent reads of a handle that are observed out of order count as backward seeks, and
  the count is never reset; the third of them (by default two are allowed) keeps the
  handle from promoting its file for good.
* A read marks success or failure with the time it began at (`handle.go:121`), so a
  cooldown can be over when it is set.
* A read by blocks at the end of a file is observed with the length that was asked for
  (`handle.go:74`), more than it returned.
* `noBlockmap` is permanent for the life of the daemon. `fetchBlock` checks the length and
  the header (`handle.go:335`, bytes 8 to 87); a block damaged in the preamble before it or in
  the transactions behind it stays in the block cache and is served.
* A read at the end of a file or behind it is refused as a range and then downloads the
  file.
* The backoff of the retry loop is commented as ±20% jitter; it only adds.

Write path:

* An open that arrives while the last release is between deciding and sealing keeps a
  working handle to the sealed file (`write.go:242`), which `Allocate` or a write already
  past its check then changes. `SealedIsFinal` therefore speaks of files no write handle
  is open on.
* The poller turns an ACTIVE row to REMOTE when the server begins to list the name
  (`poller.go:78`); the state machine has no such edge.
* `Fsync` reports success without flushing once the row is not ACTIVE (`write.go:112`,
  `nullwrite.go:101`); what was written before the seal can be lost afterwards.
* A file is sealed only when its last handle is released after the successor exists
  (`write.go:246`); released before, it stays ACTIVE until it is opened and closed again.
* A name the server withdraws loses its row while its file is cached (`poller.go:85`),
  which puts the file out of eviction's reach.
* `Lookup` answers ENOENT on any store error (`root.go:87`). The kernel then sends `Create`
  for a name that has a row; if `Create` cannot read the row either (`create.go:20`), it opens
  the local file of a sealed name, empties it if bitcoind's flags say so, and makes the row
  ACTIVE, and over a REMOTE or CACHED row it starts an empty local file. `SealedIsFinal`,
  `TipStaysWritable` and `FollowsLifecycle` name this exception.
* Commits are not flushed (`store.go:89`): a power failure can take back the row of a file
  that is there. The next mount makes every local file ACTIVE, so nothing depends on it but a
  seal, which is lost and not made again until the file is opened and released.

Daemon:

* Mounting ignores the error of every store call. A row it cannot read becomes REMOTE
  (`mount.go:111-122`), also that of a local file the server lists, which is then read from
  the server;
  a scanned row it cannot write stays as it was (`mount.go:92`), so a file whose successor was
  lost stays sealed and bitcoind cannot go on with it; and an orphan it cannot list or delete
  (`mount.go:98`, `106`) stays ACTIVE without a file until the next mount.
* When bitcoind has files open, unmounting fails on shutdown, its error is dropped, the
  store is closed and the PID file removed (`mount.go:205-207`); the process goes on
  serving with a closed store, `stop` no longer finds it, and a later `mount --background`
  starts a second one. The check for a running daemon does not tell a reused PID, and two
  concurrent background mounts can both pass it.

Archive side:

* After a failed manifest upload, or a kill before it, the next round finds nothing new and
  returns (`syncer.go:115`); the manifest in the bucket lacks the files until another one
  is finalized. `ListedUnlessFailed` therefore excludes failures.
* A blk file passes the threshold while bitcoind still fills it. The server lists it with the
  hash of that moment and, since a reload compares names only (`serve.go:201`), keeps the entry
  until some other file is finalized; a generation then computes the hash again only if the
  size has changed as well. The syncer uploads such a file as it is and never replaces the
  object, so when a later manifest has the hash of the complete file the two disagree for good.
  No property can promise more of these than `ReusedHashesAreValid` asks, which fails.
* `slimnode-server serve` without a scan interval never reads a manifest that `sync`
  writes to the same path.

`xorstrip`:

* With a wrong `--key` every file is of unknown state and skipped, and the key is zeroed
  since there is nothing to convert (`main.go:140`).
* A read error ends a file's conversion as its end does (`main.go:396`), with success.
* `--repair` looks at blk files only. It takes a chunk without a magic of its own for
  obfuscated, so a raw one (the inside of a large block, or a short last chunk) is
  obfuscated again with all that follows. A chunk torn by a kill, a failed write or a short
  read (`main.go:385-395`) that has a raw magic in its first part is taken for converted, and
  the rest of it stays obfuscated; one torn before its first magic is taken for the boundary,
  and its raw part is obfuscated again. A read that stops early in `findConversionBoundary`
  (`main.go:420-425`) can make a raw chunk the boundary, with the same effect, and after that
  even a plain run may find a file that begins obfuscated and is raw further on. `OnlyReveals`
  and `RepairIsComplete` exclude these by name (`MagicEverywhere`, `torn`, `misled`).
* Chunks are not flushed before the end of a file (`main.go:401`), so a power failure may keep
  a later chunk and lose an earlier one. The properties are about kills of the process.
* An interrupted rewrite of `xor.dat` leaves it empty. The magic is mainnet's.

Undo codecs:

* `ParseAllRecords` takes an end of input inside a record's own undo data for the end of
  the file (`record.go:52`) and drops the record without an error; zero padding behind the
  last record is an "invalid magic" error.
* bitcoind keeps a script of 33 bytes that begins with 4 or 5 in full, and one of an
  uncompressed key that is not on the curve. The package writes both in the special form of a
  key (`script.go:89`, and above it the case of an uncompressed key): bytes and checksum of a
  record with such a coin change when it is written again, although
  `integration_test.go` expects real files to survive the round trip. `RewritesTheSame`
  excludes exactly these (`TakenForKey`).
* A damaged length or count makes the code panic in its allocation (`script.go:162`,
  `coin.go:79`, `coin.go:108`) before the checksum could tell.
* `CompressAmount` wraps around for amounts near 2^64 / 10 and above (`amount.go`), which
  are no amounts of money; `AmountBijective` and `UndoAssumption` leave them out.
* A height is cut to 32 bits when it is read (`coin.go:37`), so a coin has many encodings;
  those that are written have one.

## 6. Not modelled

* *Compaction.* `Compact` selects rows with `HeightLast > 0` (`compaction.go:135`). The
  manifest generator writes 0 and neither mounting nor the poller copies the field, so no
  row has a height and every pass ends at "no files to compact". There is no reachable
  behaviour to model; a model would be of code that does not run.
* *PID file, daemonize, `stop`.* Described in section 5; `FileCache` has the crash and the
  orderly shutdown.
* *Snapshots* and their manual commands; *health check*, waiting times between attempts
  and ETags beyond what the poller needs.
* *`serve` and `sync` over one manifest file.* Each is modelled alone; the file is replaced
  atomically and read only when `serve` starts.
* *Read path and poller over one table.* `FileCache` takes a manifest only when mounting,
  `WritePath` has the poller; the two disturb each other through rows only.
* *Acknowledged `Fsync`.* It promises nothing for rows that are not ACTIVE.
* Directory listing, attributes, `.lock`, configuration, command line and text output (no
  state the properties depend on).

## 7. What is left

The modules above cover the parts that keep state and run, and every safety property of a
run of theirs is proved. What would extend the project:

1. `FileCache` and `Poller` over one table: which of the theorems survive polls that
   replace rows of files being read.
2. `serve` and `sync` over one manifest file, with a restart of either.
3. Liveness, which this prover does not handle: the safety parts of the arguments are
   there (`SingleFlight`, `NobodyWaitsAlone`), the fairness is stated.
