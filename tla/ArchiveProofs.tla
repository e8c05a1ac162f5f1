---------------------------- MODULE ArchiveProofs ----------------------------
(***************************************************************************)
(* Proofs about the archive: the directory that bitcoind writes to         *)
(* (ArchiveDir), the server that lists it (ArchiveServer) and the syncer   *)
(* that uploads it (Syncer), for any set of names, any threshold and any   *)
(* number of writes, failures and restarts.                                *)
(***************************************************************************)
EXTENDS ArchiveServer, Syncer, TLAPS

(***************************************************************************)
(* The directory: bitcoind makes files grow and cuts them only to what it  *)
(* has written, so a finalized file stays finalized; and the generation of *)
(* a manifest keeps its scan, the names still to be hashed and the entries *)
(* made so far in step.                                                    *)
(***************************************************************************)

\* DirTypeOK is not inductive: an entry is made for a name of the scan, whose size
\* is not zero, only because the names still to be hashed come from the scan.
DirInv == DirTypeOK /\ pend \subseteq Scanned(scan)

\* The names of the scan belong to finalized files.
ScanIsFinalized == \A f \in Scanned(scan) : Finalized(f)

\* The empty manifest lists nothing.
LEMMA NoEntriesListed == NoEntries \in Manifests /\ Listed(NoEntries) = {}
  BY DEF NoEntries, NoEntry, Manifests, Entry, Listed

\* The start state.
LEMMA DirInvInit == DirInit => DirInv /\ ScanIsFinalized
<1> SUFFICES ASSUME DirInit PROVE DirInv /\ ScanIsFinalized
  OBVIOUS
<1>1. Scanned(scan) = {}
  BY DEF DirInit, Scanned
<1>2. QED
  BY <1>1, NoEntriesListed DEF DirInit, DirInv, DirTypeOK, ScanIsFinalized, File

\* Whatever bitcoind does to a file, it leaves a file of the type, takes no file away
\* and leaves no blk file that has the size of a finalized one below that size.
LEMMA BitcoindKeeps ==
    ASSUME DirInv, NEW f \in Names, BitcoindStep(f)
    PROVE  /\ blocks' \in [Names -> File]
           /\ \A g \in Names : blocks[g].size > 0 => blocks'[g].size > 0
           /\ \A g \in Names :
                BlkOf[g] = g /\ blocks[g].size >= Threshold => blocks'[g].size >= Threshold
<1>1. \A g \in Names : /\ blocks[g].size \in Nat /\ blocks[g].writes \in Nat
                       /\ blocks[g].done \in BOOLEAN
  BY DEF DirInv, DirTypeOK, File
<1>2. SUFFICES ASSUME NEW s \in Nat, NEW w \in Nat, NEW d \in BOOLEAN,
                      blocks' = [blocks EXCEPT ![f] = [size |-> s, writes |-> w, done |-> d]],
                      s >= blocks[f].size \/ s >= LeastSize(f),
                      s # 0
               PROVE  /\ blocks' \in [Names -> File]
                      /\ \A g \in Names : blocks[g].size > 0 => blocks'[g].size > 0
                      /\ \A g \in Names : BlkOf[g] = g /\ blocks[g].size >= Threshold
                                            => blocks'[g].size >= Threshold
  <2>1. CASE Append(f)
    <3>1. PICK s \in (blocks[f].size..MaxSize) \ {0} :
              blocks' = [blocks EXCEPT ![f] = [size |-> s, writes |-> @.writes + 1, done |-> FALSE]]
      BY <2>1 DEF Append
    <3>2. s \in Nat /\ s >= blocks[f].size /\ s # 0 /\ blocks[f].writes + 1 \in Nat
      BY <1>1, <3>1, SizesAssumption
    <3>3. QED
      BY <1>2, <3>1, <3>2
  <2>2. CASE Truncate(f)
    <3> DEFINE W(s) == IF s = blocks[f].size THEN blocks[f].writes ELSE blocks[f].writes + 1
    <3>1. PICK s \in LeastSize(f)..blocks[f].size :
              blocks' = [blocks EXCEPT ![f] = [size |-> s, done |-> TRUE, writes |-> W(s)]]
      BY <2>2 DEF Truncate
    <3>2. s \in Nat /\ s >= LeastSize(f) /\ s # 0
      BY <1>1, <3>1, SizesAssumption DEF LeastSize
    <3>3. W(s) \in Nat
      BY <1>1
    <3>4. blocks' = [blocks EXCEPT ![f] = [size |-> s, writes |-> W(s), done |-> TRUE]]
      BY <3>1
    <3> HIDE DEF W
    <3>5. QED
      BY <1>2, <3>2, <3>3, <3>4
  <2>3. QED
    BY <2>1, <2>2 DEF BitcoindStep
<1>3. [size |-> s, writes |-> w, done |-> d] \in File
  BY DEF File
<1>4. blocks' \in [Names -> File]
  BY <1>2, <1>3 DEF DirInv, DirTypeOK
<1>5. \A g \in Names : g # f => blocks'[g] = blocks[g]
  BY <1>2 DEF DirInv, DirTypeOK
<1>6. blocks'[f].size = s
  BY <1>2 DEF DirInv, DirTypeOK
<1>7. QED
  BY <1>1, <1>2, <1>4, <1>5, <1>6, SizesAssumption DEF LeastSize

\* A finalized file stays finalized, whatever bitcoind does.
LEMMA FinalizedStays ==
    ASSUME DirInv, NEW f \in Names, BitcoindStep(f) \/ UNCHANGED blocks,
           NEW g \in Names, Finalized(g)
    PROVE  Finalized(g)'
<1>1. BlkOf[g] \in Names /\ BlkOf[BlkOf[g]] = BlkOf[g]
  BY NamesAssumption
<1>2. CASE UNCHANGED blocks
  BY <1>2 DEF Finalized
<1>3. CASE BitcoindStep(f)
  BY <1>1, <1>3, BitcoindKeeps DEF Finalized
<1>4. QED
  BY <1>2, <1>3

\* A step of bitcoind keeps the invariants.
LEMMA DirInvBitcoind ==
    ASSUME DirInv, NEW f \in Names, BitcoindStep(f), UNCHANGED <<genVars, failures>>
    PROVE  DirInv' /\ (ScanIsFinalized => ScanIsFinalized')
<1>1. UNCHANGED <<scan, pend, gen, failures>>
  BY DEF genVars
<1>2. Scanned(scan)' = Scanned(scan) /\ Listed(gen)' = Listed(gen)
  BY <1>1 DEF Scanned, Listed
<1>3. DirInv'
  BY <1>1, <1>2, BitcoindKeeps DEF DirInv, DirTypeOK
<1>4. ScanIsFinalized => ScanIsFinalized'
  BY <1>2, FinalizedStays DEF ScanIsFinalized, Scanned
<1>5. QED
  BY <1>3, <1>4

\* The scan finds finalized files, and exactly those.
LEMMA ScanFinds ==
    ASSUME DirInv
    PROVE  /\ ScanFinalizedFiles \in [Names -> Nat]
           /\ Scanned(ScanFinalizedFiles) = {f \in Names : Finalized(f)}
<1>1. \A f \in Names : blocks[f].size \in Nat
  BY DEF DirInv, DirTypeOK, File
<1>2. \A f \in Names : Finalized(f) => blocks[f].size # 0
  BY <1>1 DEF Finalized
<1>3. QED
  BY <1>1, <1>2 DEF ScanFinalizedFiles, Scanned

\* GenerateManifest's own scan starts over, from what is finalized by then.
LEMMA DirInvScan ==
    ASSUME DirInv, GenerateScan, UNCHANGED <<blocks, failures>>
    PROVE  DirInv' /\ ScanIsFinalized' /\ Scanned(scan)' = {f \in Names : Finalized(f)}
<1>1. Scanned(scan)' = {f \in Names : Finalized(f)} /\ pend' = Scanned(scan)'
  BY ScanFinds DEF GenerateScan, Scanned
<1>2. Listed(gen)' = {} /\ gen' \in Manifests
  BY NoEntriesListed DEF GenerateScan, Listed
<1>3. \A f \in Names : Finalized(f)' = Finalized(f)
  BY DEF Finalized
<1>4. scan' \in [Names -> Nat]
  BY ScanFinds DEF GenerateScan
<1>5. QED
  BY <1>1, <1>2, <1>3, <1>4 DEF DirInv, DirTypeOK, ScanIsFinalized

\* Hashing a file turns a name of the scan into an entry, from whatever manifest
\* the hashes are cached in.
LEMMA DirInvHash ==
    ASSUME DirInv, NEW prev \in Manifests, NEW f \in Names, GenerateHash(prev, f),
           UNCHANGED <<blocks, failures>>
    PROVE  DirInv' /\ (ScanIsFinalized => ScanIsFinalized') /\ Scanned(scan)' = Scanned(scan)
<1>1. scan' = scan /\ Scanned(scan)' = Scanned(scan) /\ scan[f] \in Nat \ {0}
  BY DEF GenerateHash, DirInv, DirTypeOK, Scanned
<1>2. HashEntry(prev, f) \in Entry /\ HashEntry(prev, f) # NoEntry
  <2>1. prev[f] \in Entry /\ blocks[f].writes \in Nat
    BY DEF Manifests, DirInv, DirTypeOK, File
  <2>2. CASE prev[f].size = scan[f] /\ prev[f].sha # 0
    BY <2>1, <2>2 DEF HashEntry, NoEntry
  <2>3. CASE ~(prev[f].size = scan[f] /\ prev[f].sha # 0)
    BY <1>1, <2>1, <2>3 DEF HashEntry, NoEntry, Entry
  <2>4. QED
    BY <2>2, <2>3
<1>3. gen' \in Manifests /\ Listed(gen)' = Listed(gen) \cup {f}
  BY <1>2 DEF GenerateHash, DirInv, DirTypeOK, Manifests, Listed
<1>4. f \in pend /\ pend' = pend \ {f}
  BY DEF GenerateHash
<1>5. Listed(gen)' = Scanned(scan)' \ pend'
  BY <1>1, <1>3, <1>4 DEF DirInv, DirTypeOK
<1>6. DirInv'
  BY <1>1, <1>3, <1>4, <1>5 DEF DirInv, DirTypeOK
<1>7. \A g \in Names : Finalized(g)' = Finalized(g)
  BY DEF Finalized
<1>8. QED
  BY <1>1, <1>6, <1>7 DEF ScanIsFinalized, Scanned

\* Giving a generation up, or having finished it, leaves nothing behind.
LEMMA DirInvReset ==
    ASSUME DirInv, GenerateReset, blocks' = blocks, failures' \in Nat
    PROVE  DirInv' /\ ScanIsFinalized' /\ Listed(gen)' = {}
<1>1. Scanned(scan)' = {}
  BY DEF GenerateReset, Scanned
<1>2. Listed(gen)' = {} /\ gen' \in Manifests
  BY NoEntriesListed DEF GenerateReset, Listed
<1>3. QED
  BY <1>1, <1>2 DEF GenerateReset, DirInv, DirTypeOK, ScanIsFinalized

\* A failure is counted by a number.
LEMMA FailureCounted == DirInv /\ Failure => failures' \in Nat
  BY DEF DirInv, DirTypeOK, Failure

-----------------------------------------------------------------------------
(* The server.                                                              *)

\* What the server has to remember for its listings: a manifest under way is made
\* from a scan of finalized files, those on disk and in memory were made that way.
ServerInv ==
    /\ TypeOK
    /\ DirInv
    /\ ScanIsFinalized
    /\ \A f \in Listed(served) \cup Listed(manifestFile) : Finalized(f)

\* The server starts with no manifest at all.
LEMMA ServerInvInit == Init => ServerInv
<1> SUFFICES ASSUME Init PROVE ServerInv
  OBVIOUS
<1>1. DirInv /\ ScanIsFinalized
  BY DirInvInit DEF Init
<1>2. QED
  BY <1>1, NoEntriesListed DEF Init, ServerInv, TypeOK, DirInv

\* Every step of the reload loop, of bitcoind and of the machine it all runs on.
LEMMA ServerInvStep == ServerInv /\ [Next]_vars => ServerInv'
<1> SUFFICES ASSUME ServerInv, [Next]_vars PROVE ServerInv'
  OBVIOUS
<1> USE DEF serverVars
<1>0. DirInv /\ ScanIsFinalized /\ TypeOK
  BY DEF ServerInv
<1>s. ASSUME DirInv', ScanIsFinalized', blocks' = blocks,
             served' \in {served, manifestFile}, manifestFile' \in {manifestFile, gen},
             lastFiles' \subseteq Names, current' \subseteq Names,
             rpc' \in {"idle", "gen", "hash", "load"}
      PROVE  ServerInv'
  <2>1. \A f \in Listed(gen) : Finalized(f)
    BY DEF ServerInv, DirInv, DirTypeOK, ScanIsFinalized
  <2>2. \A f \in Names : Finalized(f)' = Finalized(f)
    BY <1>s DEF Finalized
  <2>3. \A f \in Listed(served)' \cup Listed(manifestFile)' :
            f \in Listed(served) \cup Listed(manifestFile) \cup Listed(gen) /\ f \in Names
    BY <1>s DEF Listed
  <2>4. \A f \in Listed(served)' \cup Listed(manifestFile)' : Finalized(f)'
    BY <2>1, <2>2, <2>3 DEF ServerInv
  <2>5. TypeOK'
    BY <1>0, <1>s DEF TypeOK, DirInv, DirTypeOK
  <2>6. QED
    BY <1>s, <2>4, <2>5 DEF ServerInv
<1>n. Scanned(ScanFinalizedFiles) \subseteq Names
  BY DEF Scanned
<1>1. CASE Bitcoind
  <2>1. PICK f \in Names : BitcoindStep(f)
    BY <1>1 DEF Bitcoind
  <2>2. UNCHANGED <<genVars, failures, manifestFile, served, lastFiles, current, rpc>>
    BY <1>1 DEF Bitcoind
  <2>3. DirInv' /\ ScanIsFinalized'
    BY <1>0, <2>1, <2>2, DirInvBitcoind
  <2>4. \A g \in Names : Finalized(g) => Finalized(g)'
    BY <1>0, <2>1, FinalizedStays
  <2>5. \A g \in Listed(served)' \cup Listed(manifestFile)' :
            g \in Listed(served) \cup Listed(manifestFile) /\ g \in Names
    BY <2>2 DEF Listed
  <2>6. TypeOK'
    BY <1>0, <2>2, <2>3 DEF TypeOK, DirInv
  <2>7. QED
    BY <2>3, <2>4, <2>5, <2>6 DEF ServerInv
<1>2. CASE ReloadScan
  <2>1. UNCHANGED <<blocks, scan, pend, gen, failures>>
    BY <1>2 DEF ReloadScan, genVars
  <2>2. DirInv' /\ ScanIsFinalized'
    BY <1>0, <2>1 DEF DirInv, DirTypeOK, ScanIsFinalized, Scanned, Listed, Finalized
  <2>3. QED
    BY <1>0, <1>2, <1>n, <2>2, <1>s DEF ReloadScan, TypeOK
<1>3. CASE ReloadGenerate
  BY <1>0, <1>3, <1>s, DirInvScan DEF ReloadGenerate, TypeOK
<1>4. CASE \E f \in Names : ReloadHash(f)
  <2>1. PICK f \in Names : ReloadHash(f)
    BY <1>4
  <2>2. DirInv' /\ ScanIsFinalized'
    BY <1>0, <2>1, DirInvHash DEF ReloadHash, TypeOK
  <2>3. QED
    BY <1>0, <2>1, <2>2, <1>s DEF ReloadHash, TypeOK
<1>5. CASE ReloadWrite
  <2>1. DirInv' /\ ScanIsFinalized'
    BY <1>0, <1>5, DirInvReset DEF ReloadWrite, DirInv, DirTypeOK
  <2>2. QED
    BY <1>0, <1>5, <2>1, <1>s DEF ReloadWrite, TypeOK
<1>6. CASE ReloadLoad
  <2>1. UNCHANGED <<blocks, scan, pend, gen, failures>>
    BY <1>6 DEF ReloadLoad, genVars
  <2>2. DirInv' /\ ScanIsFinalized'
    BY <1>0, <2>1 DEF DirInv, DirTypeOK, ScanIsFinalized, Scanned, Listed, Finalized
  <2>3. QED
    BY <1>0, <1>6, <2>2, <1>s DEF ReloadLoad, TypeOK
<1>7. CASE ReloadFail \/ Restart
  <2>1. Failure /\ GenerateReset /\ blocks' = blocks
    BY <1>7 DEF ReloadFail, Restart
  <2>2. DirInv' /\ ScanIsFinalized'
    BY <1>0, <2>1, DirInvReset, FailureCounted
  <2>3. QED
    BY <1>0, <1>7, <2>2, <1>s DEF ReloadFail, Restart, TypeOK
<1>8. CASE UNCHANGED vars
  <2>1. UNCHANGED <<blocks, scan, pend, gen, failures, manifestFile, served, lastFiles, current, rpc>>
    BY <1>8 DEF vars, genVars
  <2>2. DirInv' /\ ScanIsFinalized'
    BY <1>0, <2>1 DEF DirInv, DirTypeOK, ScanIsFinalized, Scanned, Listed, Finalized
  <2>3. QED
    BY <1>0, <2>1, <2>2, <1>s DEF TypeOK
<1>9. QED
  BY <1>1, <1>2, <1>3, <1>4, <1>5, <1>6, <1>7, <1>8 DEF Next, Reload

\* So it is an invariant.
LEMMA ServerInvAlways == Spec => []ServerInv
  BY ServerInvInit, ServerInvStep, PTL DEF Spec

\* Every variable of the server keeps its type, and no file of a scan gets lost on
\* the way into the manifest.
THEOREM ServerTypeCorrect == Spec => []TypeOK
<1>1. ServerInv => TypeOK
  BY DEF ServerInv
<1>2. QED
  BY <1>1, ServerInvAlways, PTL

\* maybeReloadManifest only ever lists finalized files: in memory, on disk and in a
\* manifest under way, though the files are written to between scan, hash and load.
THEOREM OnlyFinalizedListed == Spec => []ListedAreFinalized
<1>1. ServerInv => ListedAreFinalized
  <2> SUFFICES ASSUME ServerInv PROVE ListedAreFinalized
    OBVIOUS
  <2>1. \A f \in Listed(gen) : Finalized(f)
    BY DEF ServerInv, DirInv, DirTypeOK, ScanIsFinalized
  <2>2. \A f \in Listed(served) \cup Listed(manifestFile) : Finalized(f)
    BY DEF ServerInv
  <2>3. QED
    BY <2>1, <2>2 DEF ListedAreFinalized, Finalized
<1>2. QED
  BY <1>1, ServerInvAlways, PTL

-----------------------------------------------------------------------------
(* The syncer.                                                              *)

\* What the bucket and the list of new files are about: objects are finalized files,
\* and a file on the list has no object yet.
BucketInv ==
    /\ \A f \in ListKeys : Finalized(f)
    /\ \A f \in newFiles : Finalized(f) /\ f \notin ListKeys

\* From the last upload of a round to the upload of its manifest: every object is in
\* the scan, and then in the manifest made from it.
CoverInv ==
    /\ ypc = "hash" => ListKeys \subseteq Scanned(scan)
    /\ ypc = "put" => ListKeys \subseteq Listed(lastManifest)

\* The inductive invariant of the syncer.
SyncInv == SyncTypeOK /\ DirInv /\ BucketInv /\ CoverInv

\* The syncer starts with an empty bucket.
LEMMA SyncInvInit == SyncInit => SyncInv
<1> SUFFICES ASSUME SyncInit PROVE SyncInv
  OBVIOUS
<1>1. DirInv
  BY DirInvInit DEF SyncInit
<1>2. ListKeys = {} /\ newFiles = {}
  BY DEF SyncInit, ListKeys
<1>3. SyncTypeOK
  BY <1>1, NoEntriesListed DEF SyncInit, SyncTypeOK, DirInv
<1>4. QED
  BY <1>1, <1>2, <1>3 DEF SyncInv, BucketInv, CoverInv, SyncInit

\* A step that leaves the directory and the bucket alone, with a list of new files
\* that is no longer than before, keeps what is known of them.
LEMMA BucketKept ==
    ASSUME BucketInv, blocks' = blocks, bucket' = bucket, newFiles' \subseteq newFiles
    PROVE  BucketInv' /\ ListKeys' = ListKeys
<1>1. ListKeys' = ListKeys
  BY DEF ListKeys
<1>2. \A f : Finalized(f)' = Finalized(f)
  BY DEF Finalized
<1>3. QED
  BY <1>1, <1>2 DEF BucketInv

\* An upload, complete or followed by a failing one, takes its file off the list and
\* may add it to the bucket, where it was not.
LEMMA UploadStep ==
    ASSUME SyncInv, NEW f \in Names, SyncUpload(f) \/ SyncUploadFails(f)
    PROVE  /\ SyncInv'
           /\ \A g \in ListKeys : bucket'[g] = bucket[g]
           /\ bucketManifest' = bucketManifest
<1>1. /\ f \in newFiles /\ newFiles' = newFiles \ {f} /\ ypc = "upload"
      /\ UNCHANGED <<blocks, scan, pend, gen, bucketManifest, lastManifest, ypc>>
      /\ uploadFailed' \in BOOLEAN
      /\ bucket' = bucket \/ bucket' = [bucket EXCEPT ![f] = blocks[f].writes]
  BY DEF SyncUpload, SyncUploadFails, Upload, genVars, SyncInv, SyncTypeOK
<1>2. failures' \in Nat
  BY FailureCounted DEF SyncUpload, SyncUploadFails, SyncInv, DirInv, DirTypeOK
<1>3. bucket \in [Names -> Nat] /\ blocks[f].writes \in Nat
  BY DEF SyncInv, SyncTypeOK, DirTypeOK, File
<1>4. /\ bucket' \in [Names -> Nat]
      /\ \A g \in Names : g # f => bucket'[g] = bucket[g]
  BY <1>1, <1>3
<1>5. \A g \in ListKeys : g \in Names /\ g # f
  BY <1>1 DEF SyncInv, BucketInv, ListKeys
<1>6. DirInv'
  BY <1>1, <1>2 DEF SyncInv, DirInv, DirTypeOK, Scanned, Listed
<1>7. SyncTypeOK'
  BY <1>1, <1>4, <1>6 DEF SyncInv, SyncTypeOK, DirInv
<1>8. ListKeys' \subseteq ListKeys \cup {f}
  BY <1>4 DEF ListKeys
<1>9. \A g : Finalized(g)' = Finalized(g)
  BY <1>1 DEF Finalized
<1>10. BucketInv'
  BY <1>1, <1>8, <1>9 DEF SyncInv, BucketInv
<1>11. CoverInv'
  BY <1>1 DEF CoverInv
<1>12. QED
  BY <1>1, <1>4, <1>5, <1>6, <1>7, <1>10, <1>11 DEF SyncInv

\* Every step keeps the invariant.
LEMMA SyncInvStep == SyncInv /\ [SyncNext]_syncerVars => SyncInv'
<1> SUFFICES ASSUME SyncInv, [SyncNext]_syncerVars PROVE SyncInv'
  OBVIOUS
<1>0. SyncTypeOK /\ DirInv /\ BucketInv /\ CoverInv
  BY DEF SyncInv
<1>n. newFiles \subseteq Names /\ NoEntries \in Manifests /\ {} \subseteq newFiles
  BY <1>0, NoEntriesListed DEF SyncTypeOK
<1>1. CASE SyncBitcoind
  <2>1. PICK f \in Names : BitcoindStep(f)
    BY <1>1 DEF SyncBitcoind
  <2>2. UNCHANGED <<genVars, scan, failures, bucket, bucketManifest, lastManifest, newFiles, uploadFailed, ypc>>
    BY <1>1 DEF SyncBitcoind, genVars, syncVars
  <2>3. DirInv'
    BY <1>0, <2>1, <2>2, DirInvBitcoind
  <2>4. SyncTypeOK'
    BY <1>0, <2>2, <2>3 DEF SyncTypeOK, DirInv
  <2>5. ListKeys' = ListKeys /\ ListKeys \subseteq Names
    BY <2>2 DEF ListKeys
  <2>6. BucketInv'
    BY <1>0, <1>n, <2>1, <2>2, <2>5, FinalizedStays DEF BucketInv
  <2>7. CoverInv'
    BY <1>0, <2>2, <2>5 DEF CoverInv, Scanned, Listed
  <2>8. QED
    BY <2>3, <2>4, <2>6, <2>7 DEF SyncInv
<1>2. CASE SyncScan
  <2>1. /\ UNCHANGED <<blocks, scan, pend, gen, failures, bucket, bucketManifest, lastManifest>>
        /\ \/ UNCHANGED <<newFiles, uploadFailed, ypc>>
           \/ /\ newFiles' = Scanned(ScanFinalizedFiles) \ ListKeys
              /\ uploadFailed' = FALSE /\ ypc' = "upload"
        /\ ypc = "idle"
    BY <1>2 DEF SyncScan, genVars
  <2>2. DirInv'
    BY <1>0, <2>1 DEF DirInv, DirTypeOK, Scanned, Listed
  <2>3. newFiles' \subseteq Names
    BY <1>n, <2>1 DEF Scanned
  <2>4. SyncTypeOK'
    BY <1>0, <2>1, <2>2, <2>3 DEF SyncTypeOK, DirInv
  <2>5. ListKeys' = ListKeys
    BY <2>1 DEF ListKeys
  <2>6. \A f : Finalized(f)' = Finalized(f)
    BY <2>1 DEF Finalized
  <2>7. BucketInv'
    BY <1>0, <2>1, <2>5, <2>6, ScanFinds DEF BucketInv
  <2>8. CoverInv'
    BY <2>1 DEF CoverInv
  <2>9. QED
    BY <2>2, <2>4, <2>7, <2>8 DEF SyncInv
<1>3. CASE \E f \in Names : SyncUpload(f) \/ SyncUploadFails(f)
  BY <1>3, UploadStep
<1>4. CASE SyncUploaded
  <2>1. UNCHANGED <<blocks, failures, bucket, bucketManifest, lastManifest, newFiles>> /\ uploadFailed' = FALSE
    BY <1>4 DEF SyncUploaded
  <2>2. BucketInv' /\ ListKeys' = ListKeys
    BY <1>0, <2>1, BucketKept
  <2>3. CASE ypc' = "idle" /\ UNCHANGED genVars
    <3>1. UNCHANGED <<scan, pend, gen>>
      BY <2>3 DEF genVars
    <3>2. DirInv'
      BY <1>0, <2>1, <3>1 DEF DirInv, DirTypeOK, Scanned, Listed
    <3>3. SyncTypeOK'
      BY <1>0, <2>1, <2>3, <3>2 DEF SyncTypeOK, DirInv
    <3>4. QED
      BY <2>2, <2>3, <3>2, <3>3 DEF SyncInv, CoverInv
  <2>4. CASE ypc' = "hash" /\ GenerateScan
    <3>1. DirInv' /\ Scanned(scan)' = {f \in Names : Finalized(f)}
      BY <1>0, <2>1, <2>4, DirInvScan
    <3>2. SyncTypeOK'
      BY <1>0, <2>1, <2>4, <3>1 DEF SyncTypeOK, DirInv
    <3>3. ListKeys' \subseteq Scanned(scan)'
      BY <1>0, <2>2, <3>1 DEF BucketInv, ListKeys
    <3>4. QED
      BY <2>2, <2>4, <3>1, <3>2, <3>3 DEF SyncInv, CoverInv
  <2>5. QED
    BY <1>4, <2>3, <2>4 DEF SyncUploaded
<1>5. CASE \E f \in Names : SyncHash(f)
  <2>1. PICK f \in Names : SyncHash(f)
    BY <1>5
  <2>2. /\ UNCHANGED <<blocks, failures, bucket, bucketManifest, lastManifest, newFiles, uploadFailed, ypc>>
        /\ GenerateHash(lastManifest, f) /\ ypc = "hash"
    BY <2>1 DEF SyncHash, syncVars
  <2>3. DirInv' /\ Scanned(scan)' = Scanned(scan)
    BY <1>0, <2>2, DirInvHash DEF SyncTypeOK
  <2>4. BucketInv' /\ ListKeys' = ListKeys
    BY <1>0, <2>2, BucketKept
  <2>5. SyncTypeOK'
    BY <1>0, <2>2, <2>3 DEF SyncTypeOK, DirInv
  <2>6. CoverInv'
    BY <1>0, <2>2, <2>3, <2>4 DEF CoverInv
  <2>7. QED
    BY <2>3, <2>4, <2>5, <2>6 DEF SyncInv
<1>6. CASE SyncGenerated
  <2>1. /\ UNCHANGED <<blocks, failures, bucket, bucketManifest, newFiles, uploadFailed>>
        /\ ypc = "hash" /\ pend = {} /\ lastManifest' = gen /\ ypc' = "put"
        /\ GenerateReset
    BY <1>6 DEF SyncGenerated
  <2>2. DirInv'
    BY <1>0, <2>1, DirInvReset DEF DirInv, DirTypeOK
  <2>3. SyncTypeOK'
    BY <1>0, <2>1, <2>2 DEF SyncTypeOK, DirInv, DirTypeOK
  <2>4. BucketInv' /\ ListKeys' = ListKeys
    BY <1>0, <2>1, BucketKept
  <2>5. Listed(lastManifest)' = Scanned(scan)
    BY <1>0, <2>1 DEF DirInv, DirTypeOK, Listed
  <2>6. CoverInv'
    BY <1>0, <2>1, <2>4, <2>5 DEF CoverInv
  <2>7. QED
    BY <2>2, <2>3, <2>4, <2>6 DEF SyncInv
<1>7. CASE SyncPut
  <2>1. /\ UNCHANGED <<blocks, scan, pend, gen, failures, bucket, lastManifest, newFiles, uploadFailed>>
        /\ bucketManifest' = lastManifest /\ ypc' = "idle"
    BY <1>7 DEF SyncPut, UploadManifest, genVars
  <2>2. DirInv'
    BY <1>0, <2>1 DEF DirInv, DirTypeOK, Scanned, Listed
  <2>3. SyncTypeOK'
    BY <1>0, <2>1, <2>2 DEF SyncTypeOK, DirInv
  <2>4. BucketInv'
    BY <1>0, <2>1, BucketKept
  <2>5. QED
    BY <2>1, <2>2, <2>3, <2>4 DEF SyncInv, CoverInv
<1>8. CASE SyncFail \/ SyncRestart
  <2>1. /\ Failure /\ GenerateReset /\ UNCHANGED <<blocks, bucket, bucketManifest>>
        /\ ypc' = "idle" /\ newFiles' \subseteq newFiles
        /\ lastManifest' \in {lastManifest, NoEntries} /\ uploadFailed' \in {uploadFailed, FALSE}
    BY <1>8 DEF SyncFail, SyncRestart
  <2>2. DirInv'
    BY <1>0, <2>1, DirInvReset, FailureCounted
  <2>3. SyncTypeOK'
    BY <1>0, <1>n, <2>1, <2>2 DEF SyncTypeOK, DirInv
  <2>4. BucketInv'
    BY <1>0, <2>1, BucketKept
  <2>5. QED
    BY <2>1, <2>2, <2>3, <2>4 DEF SyncInv, CoverInv
<1>9. CASE UNCHANGED syncerVars
  <2>1. UNCHANGED <<blocks, scan, pend, gen, failures, bucket, bucketManifest, lastManifest,
                    newFiles, uploadFailed, ypc>>
    BY <1>9 DEF syncerVars, genVars, syncVars
  <2>2. DirInv'
    BY <1>0, <2>1 DEF DirInv, DirTypeOK, Scanned, Listed
  <2>3. SyncTypeOK'
    BY <1>0, <2>1, <2>2 DEF SyncTypeOK, DirInv
  <2>4. BucketInv' /\ ListKeys' = ListKeys
    BY <1>0, <2>1, BucketKept
  <2>5. CoverInv'
    BY <1>0, <2>1, <2>4 DEF CoverInv, Scanned, Listed
  <2>6. QED
    BY <2>2, <2>3, <2>4, <2>5 DEF SyncInv
<1>10. QED
  BY <1>1, <1>2, <1>3, <1>4, <1>5, <1>6, <1>7, <1>8, <1>9 DEF SyncNext, Sync

\* So it is an invariant.
LEMMA SyncInvAlways == SyncSpec => []SyncInv
  BY SyncInvInit, SyncInvStep, PTL DEF SyncSpec

\* Every variable of the syncer keeps its type, and no file of a scan gets lost on
\* the way into the manifest.
THEOREM SyncTypeCorrect == SyncSpec => []SyncTypeOK
<1>1. SyncInv => SyncTypeOK
  BY DEF SyncInv
<1>2. QED
  BY <1>1, SyncInvAlways, PTL

\* No upload of runOnce replaces an object of the bucket, in no order of writes,
\* failing uploads and restarts: the listing it compares with is never older than the
\* last upload of another round.
THEOREM UploadedOnce == SyncSpec => ObjectsAreImmutable
<1>1. ASSUME SyncInv, [SyncNext]_syncerVars, NEW f \in Names, bucket[f] # 0
      PROVE  bucket'[f] = bucket[f]
  <2>1. CASE \E g \in Names : SyncUpload(g) \/ SyncUploadFails(g)
    BY <1>1, <2>1, UploadStep DEF ListKeys
  <2>2. CASE UNCHANGED bucket
    BY <2>2
  <2>3. QED
    BY <1>1, <2>1, <2>2 DEF SyncNext, SyncBitcoind, Sync, SyncScan, SyncUploaded, SyncHash, SyncGenerated,
       SyncPut, SyncFail, SyncRestart, syncVars, syncerVars
<1>2. SyncInv /\ [SyncNext]_syncerVars =>
          [\A f \in Names : bucket[f] # 0 => bucket'[f] = bucket[f]]_syncerVars
  BY <1>1
<1>3. QED
  BY <1>2, SyncInvAlways, PTL DEF SyncSpec, ObjectsAreImmutable

\* A manifest that runOnce uploads lists every object of the bucket: nothing is added
\* between the scan it is made from and its upload, and an object was finalized when
\* it was uploaded and has stayed so.
THEOREM ManifestComplete == SyncSpec => ManifestCoversBucket
<1>1. ASSUME SyncInv, [SyncNext]_syncerVars, bucketManifest' # bucketManifest
      PROVE  ListKeys \subseteq Listed(bucketManifest')
  <2>1. CASE SyncPut
    BY <1>1, <2>1 DEF SyncPut, UploadManifest, SyncInv, CoverInv
  <2>2. CASE UNCHANGED bucketManifest
    BY <1>1, <2>2
  <2>3. QED
    BY <1>1, <2>1, <2>2 DEF SyncNext, SyncBitcoind, Sync, SyncScan, SyncUploaded, SyncHash, SyncGenerated,
       SyncUpload, SyncUploadFails, SyncFail, SyncRestart, syncVars, syncerVars
<1>2. SyncInv /\ [SyncNext]_syncerVars =>
          [bucketManifest' # bucketManifest => ListKeys \subseteq Listed(bucketManifest')]_syncerVars
  BY <1>1
<1>3. QED
  BY <1>2, SyncInvAlways, PTL DEF SyncSpec, ManifestCoversBucket

\* What a manifest is made from: a scan of finalized files, those in memory and in the
\* bucket were made that way.
ManifestInv ==
    /\ ScanIsFinalized
    /\ \A f \in Listed(lastManifest) \cup Listed(bucketManifest) : Finalized(f)

\* Only finalized files are listed in the manifest that clients get from the bucket.
UploadedAreFinalized == \A f \in Listed(bucketManifest) : Finalized(f)

\* Every step keeps it.
LEMMA ManifestInvStep == SyncInv /\ ManifestInv /\ [SyncNext]_syncerVars => ManifestInv'
<1> SUFFICES ASSUME SyncInv, ManifestInv, [SyncNext]_syncerVars PROVE ManifestInv'
  OBVIOUS
<1>0. DirInv /\ ScanIsFinalized /\ SyncTypeOK /\ failures \in Nat
  BY DEF SyncInv, ManifestInv, DirInv, DirTypeOK
<1>g. \A f \in Listed(gen) : Finalized(f)
  BY <1>0 DEF DirInv, DirTypeOK, ScanIsFinalized
<1>s. ASSUME ScanIsFinalized', blocks' = blocks,
             lastManifest' \in {lastManifest, gen, NoEntries},
             bucketManifest' \in {bucketManifest, lastManifest}
      PROVE  ManifestInv'
  <2>1. \A f \in Names : Finalized(f)' = Finalized(f)
    BY <1>s DEF Finalized
  <2>2. \A f \in Listed(lastManifest)' \cup Listed(bucketManifest)' :
            f \in Listed(lastManifest) \cup Listed(bucketManifest) \cup Listed(gen) /\ f \in Names
    BY <1>s, NoEntriesListed DEF Listed
  <2>3. \A f \in Listed(lastManifest)' \cup Listed(bucketManifest)' : Finalized(f)'
    BY <1>g, <2>1, <2>2 DEF ManifestInv
  <2>4. QED
    BY <1>s, <2>3 DEF ManifestInv
<1>k. ASSUME UNCHANGED <<blocks, scan>> PROVE ScanIsFinalized'
  BY <1>0, <1>k DEF ScanIsFinalized, Scanned, Finalized
<1>1. CASE SyncBitcoind
  <2>1. PICK f \in Names : BitcoindStep(f)
    BY <1>1 DEF SyncBitcoind
  <2>2. UNCHANGED <<genVars, failures, lastManifest, bucketManifest>>
    BY <1>1 DEF SyncBitcoind, syncVars
  <2>3. ScanIsFinalized'
    BY <1>0, <2>1, <2>2, DirInvBitcoind
  <2>4. \A g \in Names : Finalized(g) => Finalized(g)'
    BY <1>0, <2>1, FinalizedStays
  <2>5. \A g \in Listed(lastManifest)' \cup Listed(bucketManifest)' :
            g \in Listed(lastManifest) \cup Listed(bucketManifest) /\ g \in Names
    BY <2>2 DEF Listed
  <2>6. QED
    BY <2>3, <2>4, <2>5 DEF ManifestInv
<1>2. CASE SyncScan \/ SyncPut \/ \E f \in Names : SyncUpload(f) \/ SyncUploadFails(f)
  <2>1. UNCHANGED <<blocks, scan, lastManifest>> /\ bucketManifest' \in {bucketManifest, lastManifest}
    BY <1>2 DEF SyncScan, SyncPut, UploadManifest, SyncUpload, SyncUploadFails, genVars
  <2>2. QED
    BY <2>1, <1>k, <1>s
<1>3. CASE SyncUploaded
  <2>1. UNCHANGED <<blocks, failures, lastManifest, bucketManifest>>
    BY <1>3 DEF SyncUploaded
  <2>2. CASE UNCHANGED genVars
    BY <2>1, <2>2, <1>k, <1>s DEF genVars
  <2>3. CASE GenerateScan
    BY <1>0, <2>1, <2>3, DirInvScan, <1>s
  <2>4. QED
    BY <1>3, <2>2, <2>3 DEF SyncUploaded
<1>4. CASE \E f \in Names : SyncHash(f)
  <2>1. PICK f \in Names : SyncHash(f)
    BY <1>4
  <2>2. UNCHANGED <<blocks, failures, lastManifest, bucketManifest>> /\ GenerateHash(lastManifest, f)
    BY <2>1 DEF SyncHash, syncVars
  <2>3. lastManifest \in Manifests
    BY <1>0 DEF SyncTypeOK
  <2>4. ScanIsFinalized'
    BY <1>0, <2>2, <2>3, DirInvHash
  <2>5. QED
    BY <2>2, <2>4, <1>s
<1>5. CASE SyncGenerated
  <2>1. UNCHANGED <<blocks, failures, bucketManifest>> /\ lastManifest' = gen /\ GenerateReset
    BY <1>5 DEF SyncGenerated
  <2>2. ScanIsFinalized'
    BY <1>0, <2>1, DirInvReset
  <2>3. QED
    BY <2>1, <2>2, <1>s
<1>6. CASE SyncFail \/ SyncRestart
  <2>1. /\ UNCHANGED <<blocks, bucketManifest>> /\ lastManifest' \in {lastManifest, NoEntries}
        /\ Failure /\ GenerateReset
    BY <1>6 DEF SyncFail, SyncRestart
  <2>2. ScanIsFinalized'
    BY <1>0, <2>1, DirInvReset, FailureCounted
  <2>3. QED
    BY <2>1, <2>2, <1>s
<1>7. CASE UNCHANGED syncerVars
  BY <1>7, <1>k, <1>s DEF syncerVars, genVars, syncVars
<1>8. QED
  BY <1>1, <1>2, <1>3, <1>4, <1>5, <1>6, <1>7 DEF SyncNext, Sync

\* The manifest in the bucket lists finalized files only, though bitcoind writes between
\* the scan, the hashing and the upload, and rounds fail or are cut short anywhere.
THEOREM OnlyFinalizedUploaded == SyncSpec => []UploadedAreFinalized
<1>1. SyncInit => ManifestInv
  <2> SUFFICES ASSUME SyncInit PROVE ManifestInv
    OBVIOUS
  <2>1. ScanIsFinalized
    BY DirInvInit DEF SyncInit
  <2>2. QED
    BY <2>1, NoEntriesListed DEF SyncInit, ManifestInv
<1>2. ManifestInv => UploadedAreFinalized
  BY DEF ManifestInv, UploadedAreFinalized
<1>3. QED
  BY <1>1, <1>2, ManifestInvStep, SyncInvAlways, PTL DEF SyncSpec
=============================================================================
