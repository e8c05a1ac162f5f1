--------------------------- MODULE ArchiveServer ---------------------------
(***************************************************************************)
(* slimnode-server serve with a scan interval: the reload loop that        *)
(* regenerates the manifest when the names of the finalized files change,  *)
(* and what the handlers answer from the manifest in memory meanwhile.     *)
(***************************************************************************)
EXTENDS ArchiveDir

VARIABLES
    manifestFile,   \* the manifest on disk, at manifestPath
    served,         \* the manifest in memory: manifestJSON and fileHashes
    lastFiles,      \* the names the last reload was made for
    current,        \* the names of this reload
    rpc             \* where the reload loop is

serverVars == <<manifestFile, served, lastFiles, current, rpc>>
vars == <<blocks, genVars, failures, serverVars>>

-----------------------------------------------------------------------------
(* maybeReloadManifest.                                                     *)

\* Faulty variant of ReloadScan: the names are remembered before the reload.
ReloadScanRemembers ==
    /\ rpc = "idle"
    /\ \/ Scanned(ScanFinalizedFiles) = lastFiles /\ UNCHANGED <<current, lastFiles, rpc>>
       \/ /\ Scanned(ScanFinalizedFiles) # lastFiles
          /\ current' = Scanned(ScanFinalizedFiles)
          /\ lastFiles' = Scanned(ScanFinalizedFiles)
          /\ rpc' = "gen"
    /\ UNCHANGED <<blocks, failures, genVars, manifestFile, served>>

\* The first scan; nothing is done when the names are those of the last reload.
ReloadScan ==
    /\ rpc = "idle"
    /\ \/ /\ Scanned(ScanFinalizedFiles) = lastFiles
          /\ UNCHANGED <<current, rpc>>
       \/ /\ Scanned(ScanFinalizedFiles) # lastFiles
          /\ current' = Scanned(ScanFinalizedFiles)
          /\ rpc' = "gen"
    /\ UNCHANGED <<blocks, failures, genVars, manifestFile, served, lastFiles>>

ReloadGenerate ==
    /\ rpc = "gen"
    /\ GenerateScan
    /\ rpc' = "hash"
    /\ UNCHANGED <<blocks, failures, manifestFile, served, lastFiles, current>>

\* The manifest in memory is the cache of hashes.
ReloadHash(f) ==
    /\ rpc = "hash"
    /\ GenerateHash(served, f)
    /\ UNCHANGED <<blocks, failures, serverVars>>

ReloadWrite ==
    /\ rpc = "hash" /\ pend = {}
    /\ manifestFile' = gen
    /\ rpc' = "load"
    /\ GenerateReset
    /\ UNCHANGED <<blocks, failures, served, lastFiles, current>>

\* loadManifest replaces manifest, ETag and hashes under one lock.
ReloadLoad ==
    /\ rpc = "load"
    /\ served' = manifestFile
    /\ lastFiles' = current
    /\ current' = {}
    /\ rpc' = "idle"
    /\ UNCHANGED <<blocks, failures, genVars, manifestFile>>

\* An error on the way ends this round; the names are not remembered.
ReloadFail ==
    /\ Failure /\ rpc # "idle"
    /\ rpc' = "idle"
    /\ current' = {}
    /\ GenerateReset
    /\ UNCHANGED <<blocks, manifestFile, served, lastFiles>>

\* The server is killed and started again.
Restart ==
    /\ Failure
    /\ served' = manifestFile
    /\ lastFiles' = {} /\ current' = {} /\ rpc' = "idle"
    /\ GenerateReset
    /\ UNCHANGED <<blocks, manifestFile>>

-----------------------------------------------------------------------------
Init ==
    /\ DirInit
    /\ manifestFile = NoEntries /\ served = NoEntries
    /\ lastFiles = {} /\ current = {}
    /\ rpc = "idle"

Bitcoind == (\E f \in Names : BitcoindStep(f)) /\ UNCHANGED <<genVars, failures, serverVars>>

Reload ==
    \/ ReloadScan \/ ReloadGenerate \/ ReloadWrite \/ ReloadLoad
    \/ \E f \in Names : ReloadHash(f)

Next == Bitcoind \/ Reload \/ ReloadFail \/ Restart

Spec == Init /\ [][Next]_vars

\* The ticker keeps ticking and a reload goes on.
Fairness == WF_vars(Reload)
FairSpec == Spec /\ Fairness

-----------------------------------------------------------------------------
(* Properties.                                                              *)

\* Every variable stays within its type, and no file of a scan gets lost on the way
\* into the manifest (manifestgen.go:122-198).
TypeOK ==
    /\ DirTypeOK
    /\ manifestFile \in Manifests /\ served \in Manifests
    /\ lastFiles \subseteq Names /\ current \subseteq Names
    /\ rpc \in {"idle", "gen", "hash", "load"}

\* Only finalized files are listed, in memory, on disk and while a manifest is
\* being generated (scanner.go:19-21: a blk file by its size, a rev file with
\* its blk file).
ListedAreFinalized ==
    \A m \in {served, manifestFile, gen} : \A f \in Listed(m) :
        blocks[BlkOf[f]].size >= Threshold

\* A finalized file is listed in the end, whatever fails on the way and however
\* bitcoind's writes fall between the two scans of a reload.
FinalizedIsServed == \A f \in Names : Finalized(f) ~> f \in Listed(served)

\* A generation that takes a hash from the previous manifest takes the hash of the file
\* as it is (manifestgen.go:123, "name+size match guarantees the hash is still valid").
ReusedHashesAreValid ==
    [][\A f \in Names :
        gen[f] = NoEntry /\ gen'[f] # NoEntry => gen'[f].sha = blocks[f].writes]_vars
=============================================================================
