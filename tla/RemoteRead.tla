----------------------------- MODULE RemoteRead -----------------------------
(***************************************************************************)
(* Reads of a REMOTE file as far as the file cache is not involved         *)
(* (FileHandle.Read in internal/fusefs/handle.go): the fetch policy, reads *)
(* by blocks with the blockmap and the block cache, range requests with    *)
(* their retries, and the full download, here one request that succeeds or *)
(* fails (FileCache has its steps).                                        *)
(*                                                                         *)
(* Several requests of the kernel may use one handle at a time.  Mounting  *)
(* passes no block cache, so BlockCacheOn is FALSE in production.          *)
(***************************************************************************)
EXTENDS FetchPolicy, Blockmap, FiniteSets

CONSTANTS
    Readers,      \* FUSE request threads
    FileOf,       \* handle -> file
    Layout,       \* file -> its units, as in Blockmap
    Requests,     \* the reads bitcoind makes: pairs <<offset, length>>
    BlockCacheOn, \* is there a block cache?
    RetryCount,   \* server.retry-count
    Faults,       \* a subset of {"5xx", "error", "corrupt", "short"}
    NoHandle, MaxReads, MaxClock

ASSUME RemoteReadAssumption ==
    /\ IsFiniteSet(Readers) /\ NoHandle \notin Handles
    /\ FileOf \in [Handles -> Files] /\ RetryCount \in Nat
    /\ Requests \subseteq Nat \X (Nat \ {0}) /\ BlockCacheOn \in BOOLEAN
    /\ MaxReads \in Nat /\ MaxClock \in Nat \ {0}
    /\ Layout \in [Files -> Seq(Nat)]

VARIABLES
    clock,
    pc,           \* reader -> where its read is
    call,         \* reader -> [h, off, len, now]: the read and the time it began
    todo,         \* reader -> blocks it still has to get
    attempt,      \* reader -> attempts made of the request under way
    before,       \* reader -> the tracker as its ObserveRangeRead finds it
    handleState,  \* handle -> "REMOTE" or "CACHED"
    blockmaps,    \* file -> "unknown", "loaded" or "none" (noBlockmap)
    blockCache,   \* file -> the offsets of its cached blocks -> the units of the block
    blockDL,      \* <<file, offset>> of the blocks in flight -> the reader that leads it
    nreads,
    ranged        \* handle -> [requests, bytes] its range reads really made

vars == <<clock, pc, call, todo, attempt, before, handleState, blockmaps,
          blockCache, blockDL, nreads, ranged, policyVars>>

\* the blockmaps the server made; a file it could not scan has none (nor do those behind it)
Scanned == [f \in Files |-> ScanBlkFile(Layout[f])]
Entries == [f \in Files |-> ReadBlockmap(WriteBlockmap(Scanned[f]))]
HasBlockmap(f) == f \in Adaptive /\ Scanned[f] # Failed
Offsets(f) == 0 .. Len(Layout[f])
NoCall == [h |-> NoHandle, off |-> 0, len |-> 1, now |-> 0]
FileIn(r) == FileOf[call[r].h]
\* a map with one more key
Put(m, k, v) == [x \in DOMAIN m \cup {k} |-> IF x = k THEN v ELSE m[x]]

\* Units are named by their offset; a damaged one is Damaged, and what a buffer holds before
\* it is written Unwritten.
Damaged == -1
Unwritten == -2
Slice(f, off, len) ==
    [i \in 1 .. (IF off >= Len(Layout[f]) THEN 0
                 ELSE IF off + len <= Len(Layout[f]) THEN len ELSE Len(Layout[f]) - off)
        |-> off + i - 1]
\* what a range request can deliver: the range up to the end of the file, whole or damaged,
\* or less of it (the server has another revision)
Delivered(f, off, len) ==
    LET s == Slice(f, off, len) IN
    {s} \cup (IF "corrupt" \in Faults THEN {[s EXCEPT ![i] = Damaged] : i \in DOMAIN s} ELSE {})
        \cup (IF "short" \in Faults /\ s # <<>> THEN {Front(s)} ELSE {})

Init ==
    /\ clock = 1 /\ pc = [r \in Readers |-> "idle"] /\ call = [r \in Readers |-> NoCall]
    /\ todo = [r \in Readers |-> <<>>] /\ attempt = [r \in Readers |-> 0]
    /\ before = [r \in Readers |-> FreshTracker]
    /\ handleState = [h \in Handles |-> "REMOTE"]
    /\ blockmaps = [f \in Files |-> "unknown"]
    /\ blockCache = [f \in Files |-> <<>>]
    /\ blockDL = <<>>
    /\ nreads = 0 /\ ranged = [h \in Handles |-> [requests |-> 0, bytes |-> 0]]
    /\ PolicyInit

-----------------------------------------------------------------------------
\* the reader goes on at p
Goto(r, p) == pc' = [pc EXCEPT ![r] = p] /\ attempt' = [attempt EXCEPT ![r] = 0]
\* Read returns
Return(r) ==
    /\ pc' = [pc EXCEPT ![r] = "idle"] /\ call' = [call EXCEPT ![r] = NoCall]
    /\ todo' = [todo EXCEPT ![r] = <<>>] /\ attempt' = [attempt EXCEPT ![r] = 0]
    /\ before' = [before EXCEPT ![r] = FreshTracker]

\* where a read starts: by the policy's mode, with the time it takes along
ReadStart(r, h, off, len) ==
    LET f == FileOf[h]
        mode == ResolveMode(f, clock)
    IN
    /\ pc[r] = "idle" /\ handleState[h] = "REMOTE" /\ nreads < MaxReads
    /\ nreads' = nreads + 1
    /\ call' = [call EXCEPT ![r] = [h |-> h, off |-> off, len |-> len, now |-> clock]]
    /\ fileHints' = HintsAfterResolve(f, clock)
    /\ Goto(r, IF mode = "file" THEN "full"
               ELSE IF BlockCacheOn /\ f \in Adaptive THEN "map" ELSE "range")
    /\ UNCHANGED <<clock, todo, before, handleState, blockmaps, blockCache, blockDL, ranged,
                   cooldownUntil, tracker>>

-----------------------------------------------------------------------------
(* doWithRetry: server errors and broken connections are tried again.      *)

Requesting == {"mapfetch", "fetch", "range", "full", "fallback"}
\* Faulty variant of Retry: one attempt too many
RetryOnceMore(r) ==
    /\ pc[r] \in Requesting /\ "5xx" \in Faults /\ attempt[r] <= RetryCount
    /\ attempt' = [attempt EXCEPT ![r] = @ + 1]
    /\ UNCHANGED <<clock, pc, call, todo, before, handleState, blockmaps, blockCache,
                   blockDL, nreads, ranged, policyVars>>
Retry(r) ==
    /\ pc[r] \in Requesting /\ "5xx" \in Faults /\ attempt[r] < RetryCount
    /\ attempt' = [attempt EXCEPT ![r] = @ + 1]
    /\ UNCHANGED <<clock, pc, call, todo, before, handleState, blockmaps, blockCache,
                   blockDL, nreads, ranged, policyVars>>
\* the request fails: the last attempt did, or the answer is an error that is not tried again
RequestFails(r) == ("5xx" \in Faults /\ attempt[r] = RetryCount) \/ "error" \in Faults

-----------------------------------------------------------------------------
(* The blockmap: loaded once, or given up for good.                        *)

\* readViaBlockmap: what the map says, unless it has to be fetched; a read outside all
\* blocks goes by range
MapLookup(r) ==
    LET f == FileIn(r)
        blocks == FindBlocks(Entries[f], call[r].off, call[r].len)
    IN
    /\ pc[r] = "map"
    /\ \/ /\ blockmaps[f] = "loaded" /\ blocks # <<>>
          /\ todo' = [todo EXCEPT ![r] = blocks] /\ Goto(r, "block") /\ UNCHANGED blockmaps
       \/ /\ blockmaps[f] = "loaded" /\ blocks = <<>>
          /\ Goto(r, "range") /\ UNCHANGED <<todo, blockmaps>>
       \/ /\ blockmaps[f] = "none" \/ (blockmaps[f] = "unknown" /\ ~HasBlockmap(f))
          /\ blockmaps' = [blockmaps EXCEPT ![f] = "none"]
          /\ Goto(r, "range") /\ UNCHANGED todo
       \/ /\ blockmaps[f] = "unknown" /\ HasBlockmap(f)
          /\ Goto(r, "mapfetch") /\ UNCHANGED <<todo, blockmaps>>
    /\ UNCHANGED <<clock, call, before, handleState, blockCache, blockDL, nreads,
                   ranged, policyVars>>

\* FetchBlockmap: the map the manifest names; a 404 or other bytes, and the file is never
\* asked for its map again; an error, and this read goes by range
MapFetched(r) ==
    LET f == FileIn(r) IN
    /\ pc[r] = "mapfetch"
    /\ \/ blockmaps' = [blockmaps EXCEPT ![f] = "loaded"] /\ Goto(r, "map")
       \/ /\ Faults \cap {"error", "corrupt"} # {}
          /\ blockmaps' = [blockmaps EXCEPT ![f] = IF @ = "loaded" THEN @ ELSE "none"]
          /\ Goto(r, "range")
       \/ RequestFails(r) /\ Goto(r, "range") /\ UNCHANGED blockmaps
    /\ UNCHANGED <<clock, call, todo, before, handleState, blockCache, blockDL,
                   nreads, ranged, policyVars>>

-----------------------------------------------------------------------------
(* Blocks: each is fetched once, by the leader of its flight.              *)

HasBlock(f, entry) == entry.off \in DOMAIN blockCache[f]

\* the next block is there, or its flight is entered
NextBlock(r) ==
    LET f == FileIn(r)
        entry == Head(todo[r])
    IN
    /\ pc[r] = "block" /\ todo[r] # <<>>
    /\ \/ /\ HasBlock(f, entry)
          /\ todo' = [todo EXCEPT ![r] = Tail(@)] /\ UNCHANGED <<pc, attempt>>
       \/ /\ ~HasBlock(f, entry)
          /\ Goto(r, "do") /\ UNCHANGED todo
    /\ UNCHANGED <<clock, call, before, handleState, blockmaps, blockCache, blockDL,
                   nreads, ranged, policyVars>>

\* Faulty variant of EnterFlight: the leader does not look again
EnterFlightBlindly(r) ==
    LET key == <<FileIn(r), Head(todo[r]).off>> IN
    /\ pc[r] = "do"
    /\ IF key \in DOMAIN blockDL THEN Goto(r, "wait") /\ UNCHANGED blockDL
       ELSE Goto(r, "fetch") /\ blockDL' = Put(blockDL, key, r)
    /\ UNCHANGED <<clock, call, todo, before, handleState, blockmaps, blockCache,
                   nreads, ranged, policyVars>>
\* blockDL.Do: wait for the flight under way, or lead one, unless the block has arrived
\* in the meantime
EnterFlight(r) ==
    LET key == <<FileIn(r), Head(todo[r]).off>> IN
    /\ pc[r] = "do"
    /\ IF key \in DOMAIN blockDL THEN Goto(r, "wait") /\ UNCHANGED blockDL
       ELSE IF HasBlock(FileIn(r), Head(todo[r])) THEN Goto(r, "block") /\ UNCHANGED blockDL
       ELSE Goto(r, "fetch") /\ blockDL' = Put(blockDL, key, r)
    /\ UNCHANGED <<clock, call, todo, before, handleState, blockmaps, blockCache,
                   nreads, ranged, policyVars>>

\* fetchBlock checks the length and the hash of the header: neither the preamble in front
\* of it nor what comes behind
Verified(entry, data) == Len(data) = entry.len /\ data[2] = entry.off + 1

\* Faulty variant of EndFlight: the outcome reaches the leader only
EndFlightAlone(r, ok) ==
    /\ blockDL' = Restrict(blockDL, DOMAIN blockDL \ {<<FileIn(r), Head(todo[r]).off>>})
    /\ Goto(r, IF ok THEN "block" ELSE "eio")
    /\ UNCHANGED <<clock, call, todo, before, handleState, blockmaps, nreads, ranged,
                   policyVars>>
\* the end of a flight: every reader that waits for it gets its outcome
EndFlight(r, ok) ==
    LET key == <<FileIn(r), Head(todo[r]).off>>
        party == {q \in Readers : \/ q = r
                                  \/ pc[q] = "wait" /\ <<FileIn(q), Head(todo[q]).off>> = key}
    IN
    /\ blockDL' = Restrict(blockDL, DOMAIN blockDL \ {key})
    /\ pc' = [q \in Readers |-> IF q \in party THEN (IF ok THEN "block" ELSE "eio") ELSE pc[q]]
    /\ attempt' = [attempt EXCEPT ![r] = 0]
    /\ UNCHANGED <<clock, call, todo, before, handleState, blockmaps, nreads, ranged,
                   policyVars>>

\* a block arrives and is verified and stored, or something of that fails
BlockFetched(r) ==
    LET f == FileIn(r)
        entry == Head(todo[r])
    IN
    /\ pc[r] = "fetch"
    /\ \/ \E data \in Delivered(f, entry.off, entry.len) :
             IF Verified(entry, data)
             THEN blockCache' = [blockCache EXCEPT ![f] = Put(@, entry.off, data)] /\ EndFlight(r, TRUE)
             ELSE UNCHANGED blockCache /\ EndFlight(r, FALSE)
       \/ RequestFails(r) /\ UNCHANGED blockCache /\ EndFlight(r, FALSE)

\* readViaBlockmap gives up: a fetch failed, or a cached block cannot be read back
BlockFailed(r) ==
    /\ pc[r] = "eio" \/ (pc[r] = "block" /\ todo[r] = <<>> /\ "error" \in Faults)
    /\ Return(r)
    /\ UNCHANGED <<clock, handleState, blockmaps, blockCache, blockDL, nreads, ranged, policyVars>>

\* assembleRead copies the part of each block that lies in the range to its place in dest;
\* Read returns as much of dest as was copied
AssembleRead(f, off, len) ==
    LET blocks == FindBlocks(Entries[f], off, len)
        read[k \in 0 .. Len(blocks)] ==     \* dest and written after k blocks
            IF k = 0 THEN [dest |-> [i \in 1 .. len |-> Unwritten], written |-> 0]
            ELSE LET s == read[k - 1]
                     start == blocks[k].off
                     data == blockCache[f][start]
                     copyStart == IF off < start THEN start ELSE off
                     copyEnd == IF off + len > start + Len(data) THEN start + Len(data) ELSE off + len
                 IN  IF copyStart >= copyEnd THEN s
                     ELSE [dest |-> [i \in 1 .. len |->
                                        IF off + i - 1 \in copyStart .. copyEnd - 1
                                        THEN data[off + i - start] ELSE s.dest[i]],
                           written |-> s.written + (copyEnd - copyStart)]
    IN  SubSeq(read[Len(blocks)].dest, 1, read[Len(blocks)].written)

\* the read by blocks is done; the policy observes the whole of dest
Assemble(r) ==
    /\ pc[r] = "block" /\ todo[r] = <<>>
    /\ before' = [before EXCEPT ![r] = tracker[call[r].h]]
    /\ Goto(r, "observe")
    /\ UNCHANGED <<clock, call, todo, handleState, blockmaps, blockCache, blockDL, nreads,
                   ranged, policyVars>>

-----------------------------------------------------------------------------
(* Range requests and full downloads.                                      *)

\* an answer to a range request, passed on as it comes and observed at the length it has;
\* a range behind the end of the file is refused
RangeFetched(r) ==
    LET c == call[r] IN
    /\ pc[r] \in {"range", "fallback"} /\ Slice(FileIn(r), c.off, c.len) # <<>>
    /\ \E data \in Delivered(FileIn(r), c.off, c.len) : call' = [call EXCEPT ![r].len = Len(data)]
    /\ before' = [before EXCEPT ![r] = tracker[c.h]]
    /\ Goto(r, IF pc[r] = "range" THEN "observe" ELSE "observelast")
    /\ UNCHANGED <<clock, todo, handleState, blockmaps, blockCache, blockDL, nreads,
                   ranged, policyVars>>

RangeRefused(r) == RequestFails(r) \/ Slice(FileIn(r), call[r].off, call[r].len) = <<>>
\* Read: the download is tried instead
RangeFailed(r) ==
    /\ pc[r] = "range" /\ RangeRefused(r)
    /\ Goto(r, "full")
    /\ UNCHANGED <<clock, call, todo, before, handleState, blockmaps, blockCache,
                   blockDL, nreads, ranged, policyVars>>
\* readRemoteFileMode: neither the download nor a range request worked
FallbackFailed(r) ==
    /\ pc[r] = "fallback" /\ RangeRefused(r)
    /\ Return(r)
    /\ UNCHANGED <<clock, handleState, blockmaps, blockCache, blockDL, nreads, ranged, policyVars>>

\* fetchAndCache succeeded: the handle reads the cached file from now on
FullFetched(r) ==
    LET c == call[r] IN
    /\ pc[r] = "full"
    /\ MarkPromotionSuccess(FileIn(r), c.now)
    /\ handleState' = [handleState EXCEPT ![c.h] = "CACHED"]
    /\ Return(r)
    /\ UNCHANGED <<clock, blockmaps, blockCache, blockDL, nreads, ranged, tracker>>
\* fetchAndCache failed
FullFailed(r) ==
    /\ pc[r] = "full" /\ RequestFails(r)
    /\ MarkPromotionFailure(FileIn(r), call[r].now)
    /\ Goto(r, "fallback")
    /\ UNCHANGED <<clock, call, todo, before, handleState, blockmaps, blockCache,
                   blockDL, nreads, ranged, tracker>>

-----------------------------------------------------------------------------
\* ObserveRangeRead, with what other reads of the handle wrote since it began; ranged
\* counts what it is told, for a read by blocks that ends behind the file the length asked for
Observe(r) ==
    LET c == call[r] IN
    /\ pc[r] \in {"observe", "observelast"}
    /\ ObserveRangeRead(c.h, before[r], c.off, c.len)
    /\ ranged' = [ranged EXCEPT ![c.h] = [requests |-> @.requests + 1, bytes |-> @.bytes + c.len]]
    /\ IF pc[r] = "observe" THEN Goto(r, "promote") /\ UNCHANGED <<call, todo, before>>
       ELSE Return(r)
    /\ UNCHANGED <<clock, handleState, blockmaps, blockCache, blockDL, nreads, fileHints,
                   cooldownUntil>>

\* ShouldPromoteToFile, and then MarkPromotionSuccess
Promote(r) ==
    /\ pc[r] = "promote"
    /\ IF ShouldPromoteToFile(FileIn(r), tracker[call[r].h], call[r].now)
       THEN Goto(r, "mark") /\ UNCHANGED <<call, todo, before>>
       ELSE Return(r)
    /\ UNCHANGED <<clock, handleState, blockmaps, blockCache, blockDL, nreads, ranged, policyVars>>
Mark(r) ==
    /\ pc[r] = "mark"
    /\ MarkPromotionSuccess(FileIn(r), call[r].now)
    /\ Return(r)
    /\ UNCHANGED <<clock, handleState, blockmaps, blockCache, blockDL, nreads, ranged, tracker>>

Tick ==
    /\ clock < MaxClock /\ clock' = clock + 1
    /\ UNCHANGED <<pc, call, todo, attempt, before, handleState, blockmaps, blockCache,
                   blockDL, nreads, ranged, policyVars>>

Step(r) ==
    \/ Retry(r)
    \/ MapLookup(r) \/ MapFetched(r)
    \/ NextBlock(r) \/ EnterFlight(r) \/ BlockFetched(r) \/ BlockFailed(r) \/ Assemble(r)
    \/ RangeFetched(r) \/ RangeFailed(r) \/ FallbackFailed(r) \/ FullFetched(r) \/ FullFailed(r)
    \/ Observe(r) \/ Promote(r) \/ Mark(r)
Next ==
    \/ \E r \in Readers, h \in Handles, q \in Requests : ReadStart(r, h, q[1], q[2])
    \/ \E r \in Readers : Step(r)
    \/ Tick

Spec == Init /\ [][Next]_vars /\ \A r \in Readers : WF_vars(Step(r))

-----------------------------------------------------------------------------
\* Types; a request is never tried more than RetryCount times again.
TypeOK ==
    /\ PolicyTypeOK
    /\ clock \in 1 .. MaxClock
    /\ pc \in [Readers -> {"idle", "map", "block", "do", "wait", "eio", "observe", "observelast",
                           "promote", "mark"} \cup Requesting]
    /\ attempt \in [Readers -> 0 .. RetryCount]
    /\ handleState \in [Handles -> {"REMOTE", "CACHED"}]
    /\ blockmaps \in [Files -> {"unknown", "loaded", "none"}]
    /\ Range(blockDL) \subseteq Readers

\* A read by blocks returns exactly the bytes asked for, up to the end of the file,
\* whatever blocks the range touches and whatever has been cached so far; a byte comes
\* through damaged only outside the headers, the one part fetchBlock checks.
BlockReadsAreExact ==
    \A f \in Files : \A off \in Offsets(f) : \A len \in 1 .. Len(Layout[f]) + 1 :
        LET blocks == FindBlocks(Entries[f], off, len)
            data == AssembleRead(f, off, len)
            wanted == Slice(f, off, len)
        IN  blocks # <<>> /\ (\A i \in DOMAIN blocks : HasBlock(f, blocks[i])) =>
                /\ Len(data) = Len(wanted)
                /\ \A i \in DOMAIN wanted :
                      \/ data[i] = wanted[i]
                      \/ /\ data[i] = Damaged
                         /\ \A entry \in Range(Entries[f]) : wanted[i] # entry.off + 1

\* A block that is in the cache is not requested again, however the reads of it
\* interleave: fetchBlock looks again once it leads the flight.
NeverRefetched ==
    \A r \in Readers : pc[r] = "fetch" => ~HasBlock(FileIn(r), Head(todo[r]))

\* Lost updates of the tracker only delay a promotion: a handle that is about to turn
\* its file to full downloads has really made the range requests and read the bytes.
PromotionIsEarned ==
    \A r \in Readers : pc[r] = "mark" =>
        /\ ranged[call[r].h].requests >= MinRangeRequests
        /\ ranged[call[r].h].bytes >= MinSequentialBytes

\* Every read returns: waiting for a flight ends with the flight, and requests fail in
\* the end.
ReadsReturn == \A r \in Readers : pc[r] # "idle" ~> pc[r] = "idle"
=============================================================================
