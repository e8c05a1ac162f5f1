----------------------------- MODULE ArchiveDir -----------------------------
(***************************************************************************)
(* The blocks directory of the archive operator's own bitcoind, which file *)
(* server and syncer read while bitcoind writes to it, and the generation  *)
(* of a manifest from it: scan the directory, then hash one file after the *)
(* other, taking the hash of the previous manifest where name and size     *)
(* agree.                                                                  *)
(***************************************************************************)
EXTENDS Naturals, FiniteSets

CONSTANTS
    Names,          \* names of blk*.dat and rev*.dat files
    BlkOf,          \* BlkOf[f]: the blk file with the number of f
    Threshold,      \* FinalizedFileThreshold, in units bitcoind allocates
    MaxSize,        \* MAX_BLOCKFILE_SIZE, in the same units
    MaxWrites,      \* bound: writes of bitcoind to one file
    MaxFailures     \* bound: failed operations and restarts

ASSUME NamesAssumption ==
    /\ IsFiniteSet(Names)
    /\ BlkOf \in [Names -> Names]
    /\ \A f \in Names : BlkOf[BlkOf[f]] = BlkOf[f]
ASSUME SizesAssumption == Threshold \in Nat \ {0} /\ MaxSize \in Nat
ASSUME ArchiveBoundsAssumption == MaxWrites \in Nat /\ MaxFailures \in Nat

VARIABLES
    blocks,         \* blocks[f]: the file, of size 0 when it does not exist
    scan,           \* scan[f]: size of f in GenerateManifest's scan, 0: not found
    pend,           \* names of the scan that are still to be hashed
    gen,            \* the manifest as generated so far
    failures        \* failed operations and restarts until now

genVars == <<scan, pend, gen>>

\* A file is known by its size and by how often bitcoind has changed it, which is
\* also what its hash tells apart; done: bitcoind has cut it to what it holds.
File == [size : Nat, writes : Nat, done : BOOLEAN]
Entry == [size : Nat, sha : Nat]
NoEntry == [size |-> 0, sha |-> 0]
NoEntries == [f \in Names |-> NoEntry]
Manifests == [Names -> Entry]
Listed(m) == {f \in Names : m[f] # NoEntry}

\* bitcoind writes a block or undo data: into space it has allocated before, or
\* after growing the file.  A blk file it is done with is left alone, a rev file gets
\* the undo data of blocks that are connected later.
Append(f) ==
    /\ blocks[f].writes < MaxWrites
    /\ BlkOf[f] = f => ~blocks[f].done
    /\ \E s \in (blocks[f].size..MaxSize) \ {0} :
        blocks' = [blocks EXCEPT ![f] = [size |-> s, writes |-> @.writes + 1, done |-> FALSE]]

\* What a file holds when bitcoind is done with it, at least: a blk file is left when
\* the next block does not fit, which is what the threshold is made from.
LeastSize(f) == IF BlkOf[f] = f THEN Threshold ELSE 1

\* bitcoind is done with a file and gives back the space the file does not need.
Truncate(f) ==
    /\ ~blocks[f].done
    /\ \E s \in LeastSize(f)..blocks[f].size :
        blocks' = [blocks EXCEPT ![f] =
            [size |-> s, done |-> TRUE,
             writes |-> IF s = @.size THEN @.writes ELSE @.writes + 1]]

BitcoindStep(f) == Append(f) \/ Truncate(f)

\* Faulty variant of Finalized: every rev file counts.
FinalizedOrRev(f) ==
    blocks[f].size > 0 /\ (BlkOf[f] # f \/ blocks[f].size >= Threshold)

\* A blk file counts as finalized by its size, a rev file with its blk file.
Finalized(f) == blocks[f].size > 0 /\ blocks[BlkOf[f]].size >= Threshold

ScanFinalizedFiles == [f \in Names |-> IF Finalized(f) THEN blocks[f].size ELSE 0]
Scanned(sizes) == {f \in Names : sizes[f] # 0}

\* GenerateManifest begins with a scan of its own.
GenerateScan ==
    /\ scan' = ScanFinalizedFiles
    /\ pend' = Scanned(ScanFinalizedFiles)
    /\ gen' = NoEntries

\* The workers hash the files in any order; prev is the previous manifest.
HashEntry(prev, f) ==
    IF prev[f].size = scan[f] /\ prev[f].sha # 0
    THEN prev[f]
    ELSE [size |-> scan[f], sha |-> blocks[f].writes]

\* Faulty variant of GenerateHash: a hash found in the cache skips the entry.
GenerateHashSkips(prev, f) ==
    /\ f \in pend
    /\ pend' = pend \ {f}
    /\ gen' = IF HashEntry(prev, f) = prev[f] THEN gen
              ELSE [gen EXCEPT ![f] = HashEntry(prev, f)]
    /\ UNCHANGED scan

GenerateHash(prev, f) ==
    /\ f \in pend
    /\ pend' = pend \ {f}
    /\ gen' = [gen EXCEPT ![f] = HashEntry(prev, f)]
    /\ UNCHANGED scan

\* Something goes wrong.  Failures do not go on for ever.
Failure == failures < MaxFailures /\ failures' = failures + 1

\* The manifest is done, or given up.
GenerateReset == scan' = [f \in Names |-> 0] /\ pend' = {} /\ gen' = NoEntries

DirInit ==
    /\ blocks = [f \in Names |-> [size |-> 0, writes |-> 0, done |-> FALSE]]
    /\ scan = [f \in Names |-> 0]
    /\ pend = {}
    /\ gen = NoEntries
    /\ failures = 0

\* Every file of a scan is in the generated manifest or still to be hashed.
DirTypeOK ==
    /\ blocks \in [Names -> File]
    /\ scan \in [Names -> Nat]
    /\ pend \subseteq Names
    /\ gen \in Manifests
    /\ failures \in Nat
    /\ Listed(gen) = Scanned(scan) \ pend
=============================================================================
