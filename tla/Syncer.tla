------------------------------- MODULE Syncer -------------------------------
(***************************************************************************)
(* slimnode-server sync: upload the finalized files that the bucket does   *)
(* not have yet, then generate a manifest of the directory and upload it.  *)
(* Every upload can fail, and the process can be killed at any point.      *)
(***************************************************************************)
EXTENDS ArchiveDir

VARIABLES
    bucket,         \* bucket[f]: the content of object f, 0: no such object
    bucketManifest, \* manifest.json in the bucket
    lastManifest,   \* Syncer.lastManifest, empty for nil
    newFiles,       \* files of this round still to be uploaded
    uploadFailed,   \* has an upload of this round failed?
    ypc             \* where sync is

syncVars == <<bucket, bucketManifest, lastManifest, newFiles, uploadFailed, ypc>>
syncerVars == <<blocks, genVars, failures, syncVars>>

\* The bucket: the keys it lists, and uploads of a block file and of the manifest.
ListKeys == {f \in Names : bucket[f] # 0}
Upload(f) == bucket' = [bucket EXCEPT ![f] = blocks[f].writes]
UploadManifest == bucketManifest' = lastManifest

\* Faulty variants of SyncScan: uploads whatever is finalized; asks the manifest
\* instead of the bucket what is new.
SyncScanAll ==
    /\ ypc = "idle" /\ Scanned(ScanFinalizedFiles) # {}
    /\ newFiles' = Scanned(ScanFinalizedFiles)
    /\ uploadFailed' = FALSE
    /\ ypc' = "upload"
    /\ UNCHANGED <<blocks, genVars, failures, bucket, bucketManifest, lastManifest>>
SyncScanManifest ==
    /\ ypc = "idle" /\ Scanned(ScanFinalizedFiles) \ Listed(lastManifest) # {}
    /\ newFiles' = Scanned(ScanFinalizedFiles) \ Listed(lastManifest)
    /\ uploadFailed' = FALSE
    /\ ypc' = "upload"
    /\ UNCHANGED <<blocks, genVars, failures, bucket, bucketManifest, lastManifest>>

\* Scan the directory and list the bucket; a round ends here when nothing is new.
SyncScan ==
    /\ ypc = "idle"
    /\ LET new == Scanned(ScanFinalizedFiles) \ ListKeys IN
       \/ new = {} /\ UNCHANGED <<newFiles, uploadFailed, ypc>>
       \/ /\ new # {}
          /\ newFiles' = new
          /\ uploadFailed' = FALSE
          /\ ypc' = "upload"
    /\ UNCHANGED <<blocks, genVars, failures, bucket, bucketManifest, lastManifest>>

SyncUpload(f) ==
    /\ ypc = "upload" /\ f \in newFiles
    /\ newFiles' = newFiles \ {f}
    /\ Upload(f)
    /\ UNCHANGED <<blocks, genVars, failures, bucketManifest, lastManifest, uploadFailed, ypc>>

\* The upload of the file fails, or the upload of its blockmap after it.
SyncUploadFails(f) ==
    /\ Failure
    /\ ypc = "upload" /\ f \in newFiles
    /\ newFiles' = newFiles \ {f}
    /\ uploadFailed' = TRUE
    /\ \/ UNCHANGED bucket
       \/ BlkOf[f] = f /\ Upload(f)
    /\ UNCHANGED <<blocks, genVars, bucketManifest, lastManifest, ypc>>

\* Faulty variant of SyncUploaded: only the first round makes a manifest.
SyncUploadedOnce ==
    /\ ypc = "upload" /\ newFiles = {}
    /\ \/ (uploadFailed \/ lastManifest # NoEntries) /\ ypc' = "idle" /\ UNCHANGED genVars
       \/ ~uploadFailed /\ lastManifest = NoEntries /\ ypc' = "hash" /\ GenerateScan
    /\ uploadFailed' = FALSE
    /\ UNCHANGED <<blocks, failures, bucket, bucketManifest, lastManifest, newFiles>>

\* After the last file: a round with a failed upload leaves the manifest alone.
SyncUploaded ==
    /\ ypc = "upload" /\ newFiles = {}
    /\ \/ uploadFailed /\ ypc' = "idle" /\ UNCHANGED genVars
       \/ ~uploadFailed /\ ypc' = "hash" /\ GenerateScan
    /\ uploadFailed' = FALSE
    /\ UNCHANGED <<blocks, failures, bucket, bucketManifest, lastManifest, newFiles>>

\* lastManifest is the cache of hashes.
SyncHash(f) ==
    /\ ypc = "hash"
    /\ GenerateHash(lastManifest, f)
    /\ UNCHANGED <<blocks, failures, syncVars>>

\* Faulty variant of SyncGenerated: the previous manifest is kept when there is one.
SyncGeneratedOnce ==
    /\ ypc = "hash" /\ pend = {}
    /\ lastManifest' = IF lastManifest = NoEntries THEN gen ELSE lastManifest
    /\ ypc' = "put"
    /\ GenerateReset
    /\ UNCHANGED <<blocks, failures, bucket, bucketManifest, newFiles, uploadFailed>>

SyncGenerated ==
    /\ ypc = "hash" /\ pend = {}
    /\ lastManifest' = gen
    /\ ypc' = "put"
    /\ GenerateReset
    /\ UNCHANGED <<blocks, failures, bucket, bucketManifest, newFiles, uploadFailed>>

SyncPut ==
    /\ ypc = "put"
    /\ UploadManifest
    /\ ypc' = "idle"
    /\ UNCHANGED <<blocks, genVars, failures, bucket, lastManifest, newFiles, uploadFailed>>

\* The hashing or the upload of the manifest fails; a scan or a listing that fails
\* leaves everything as it is.
SyncFail ==
    /\ Failure /\ ypc \in {"hash", "put"}
    /\ ypc' = "idle"
    /\ GenerateReset
    /\ UNCHANGED <<blocks, bucket, bucketManifest, lastManifest, newFiles, uploadFailed>>

\* The syncer is killed and started again.
SyncRestart ==
    /\ Failure
    /\ lastManifest' = NoEntries /\ newFiles' = {} /\ uploadFailed' = FALSE
    /\ ypc' = "idle"
    /\ GenerateReset
    /\ UNCHANGED <<blocks, bucket, bucketManifest>>

-----------------------------------------------------------------------------
SyncInit ==
    /\ DirInit
    /\ bucket = [f \in Names |-> 0]
    /\ bucketManifest = NoEntries /\ lastManifest = NoEntries
    /\ newFiles = {} /\ uploadFailed = FALSE
    /\ ypc = "idle"

SyncBitcoind == (\E f \in Names : BitcoindStep(f)) /\ UNCHANGED <<genVars, failures, syncVars>>

Sync ==
    \/ SyncScan \/ SyncUploaded \/ SyncGenerated \/ SyncPut
    \/ \E f \in Names : SyncUpload(f) \/ SyncHash(f)

SyncNext ==
    \/ SyncBitcoind \/ Sync \/ SyncFail \/ SyncRestart
    \/ \E f \in Names : SyncUploadFails(f)

SyncSpec == SyncInit /\ [][SyncNext]_syncerVars

\* The ticker keeps ticking and a round goes on.
SyncFairness == WF_syncerVars(Sync)
SyncFairSpec == SyncSpec /\ SyncFairness

-----------------------------------------------------------------------------
(* Properties.                                                              *)

\* Every variable stays within its type, and no file of a scan gets lost on the way
\* into the manifest (manifestgen.go:122-198).
SyncTypeOK ==
    /\ DirTypeOK
    /\ bucket \in [Names -> Nat]
    /\ bucketManifest \in Manifests /\ lastManifest \in Manifests
    /\ newFiles \subseteq Names
    /\ uploadFailed \in BOOLEAN
    /\ ypc \in {"idle", "upload", "hash", "put"}

\* An object is uploaded once and never replaced, as its cache header promises to
\* every CDN that has copied it (s3/client.go:72, "immutable").
ObjectsAreImmutable ==
    [][\A f \in Names : bucket[f] # 0 => bucket'[f] = bucket[f]]_syncerVars

\* A finalized file gets into the bucket in the end, whatever fails on the way.
FinalizedIsUploaded == \A f \in Names : Finalized(f) ~> bucket[f] # 0

\* A manifest that is uploaded lists every object the bucket has by then, those of
\* rounds that failed before their manifest included: it comes from a scan made after
\* the uploads, not from the round's list of new files (syncer.go:179).
ManifestCoversBucket ==
    [][bucketManifest' # bucketManifest => ListKeys \subseteq Listed(bucketManifest')]_syncerVars

\* As long as nothing fails, a finalized file gets into the uploaded manifest in the
\* end, also one that is finalized in the middle of a round (syncer.go:17-18).
ListedUnlessFailed ==
    \A f \in Names : Finalized(f) ~> (f \in Listed(bucketManifest) \/ failures > 0)
=============================================================================
