----------------------------- MODULE WritePath -----------------------------
(***************************************************************************)
(* Writing through the mount: bitcoind creates or opens a block file,      *)
(* writes to it and closes it, and the release of the last write handle    *)
(* seals the file once its successor exists.  The ManifestPoller writes to *)
(* the same rows meanwhile.                                                *)
(*                                                                         *)
(* A writer is one open(2) of bitcoind; the kernel sends the release of a  *)
(* handle in the background, so another writer may open the file while the *)
(* release is still being served.                                          *)
(***************************************************************************)
EXTENDS Poller

CONSTANTS
    Writers,        \* concurrent open files of bitcoind
    BlkFiles,       \* the blk files among Files; the others are rev files
    NextBlk,        \* NextBlk[f]: the blk file numbered one after the blk file f
    MaxWrites       \* bound: writes to one file

ASSUME WritersAssumption == IsFiniteSet(Writers)
ASSUME BlkAssumption ==
    /\ BlkFiles \subseteq Files
    /\ NextBlk \in [BlkFiles -> BlkFiles \cup {NoFile}]
ASSUME MaxWritesAssumption == MaxWrites \in Nat

VARIABLES
    wpc,            \* wpc[w]: where the request served for w is
    wfile,          \* wfile[w]: the file of w's handle
    wkind,          \* wkind[w]: the handle's type
    wrow,           \* wrow[w]: the row Release read
    wsha,           \* wsha[w]: the hash finalize computed
    handles,        \* FS.activeWriteHandles
    disk            \* stable storage: what of localDir and of table has reached it

handleVars == <<wfile, wkind, wrow, wsha>>
writeVars == <<wpc, handleVars, handles, disk>>
vars == <<stateVars, pollVars, writeVars>>

\* "open" is a handle with no request under way.
WriterPC == {"closed", "create", "register", "mark", "open", "writing",
             "release", "hash", "seal"}

WGoTo(w, l) == wpc' = [wpc EXCEPT ![w] = l]

\* The handle is gone.
Close(w) ==
    /\ WGoTo(w, "closed")
    /\ wfile' = [wfile EXCEPT ![w] = NoFile]
    /\ wkind' = [wkind EXCEPT ![w] = "none"]
    /\ wrow' = [wrow EXCEPT ![w] = NoRow]
    /\ wsha' = [wsha EXCEPT ![w] = NoHash]

\* The request returns a handle of the given kind.
GetHandle(w, f, kind, l) ==
    /\ WGoTo(w, l)
    /\ wfile' = [wfile EXCEPT ![w] = f]
    /\ wkind' = [wkind EXCEPT ![w] = kind]
    /\ UNCHANGED <<wrow, wsha>>

\* open(2) with O_CREATE on the local directory.
CreateLocal(f) ==
    localDir' = [localDir EXCEPT ![f] = IF @ = NoContent THEN LocalCopy(0) ELSE @]

-----------------------------------------------------------------------------
(* RootNode.Create.                                                         *)

\* The kernel looks the name up and, finding nothing, asks for it to be created;
\* it holds the directory for as long as that takes.  Lookup finds nothing too
\* when the store does not answer.
CreateLookup(w, f) ==
    /\ up /\ wpc[w] = "closed"
    /\ ~HasRow(f) \/ "db" \in Faults
    /\ \A v \in Writers : wpc[v] \notin {"create", "register"}
    /\ GetHandle(w, f, "none", "create")
    /\ UNCHANGED <<stateVars, pollVars, handles, disk>>

\* Faulty variant of CreateOpen: the row is written before the file exists.
CreateWithoutFile(w) ==
    /\ wpc[w] = "create"
    /\ ~HasRow(wfile[w])
    /\ WGoTo(w, "register")
    /\ UNCHANGED <<stateVars, pollVars, handleVars, handles, disk>>

\* A name whose row is there after all, and not ACTIVE, gets a handle that discards
\* what is written; otherwise the local file is opened, and emptied when bitcoind's
\* flags say so.  A row that cannot be read counts as none.
CreateOpen(w) ==
    /\ wpc[w] = "create"
    /\ \/ /\ table[wfile[w]].state \in {"REMOTE", "CACHED", "LOCAL_FINALIZED"}
          /\ GetHandle(w, wfile[w], "null", "open")
          /\ UNCHANGED localDir
       \/ /\ table[wfile[w]].state \in {"NONE", "ACTIVE"} \/ "db" \in Faults
          /\ CreateLocal(wfile[w]) \/ localDir' = [localDir EXCEPT ![wfile[w]] = LocalCopy(0)]
          /\ WGoTo(w, "register")
          /\ UNCHANGED handleVars
       \/ /\ table[wfile[w]].state \in {"NONE", "ACTIVE"} \/ "db" \in Faults
          /\ "io" \in Faults
          /\ Close(w)
          /\ UNCHANGED localDir
    /\ UNCHANGED <<table, cacheDir, server, listed, manifest, clock, up, pollVars, handles,
                   disk>>

\* The ACTIVE row; when it cannot be written the local file stays behind.
CreateRegister(w) ==
    /\ wpc[w] = "register"
    /\ \/ /\ table' = UpsertFile(wfile[w], ActiveRow)
          /\ WGoTo(w, "mark")
          /\ UNCHANGED handleVars
       \/ /\ "db" \in Faults
          /\ Close(w)
          /\ UNCHANGED table
    /\ UNCHANGED <<cacheDir, localDir, server, listed, manifest, clock, up, pollVars, handles,
                   disk>>

\* markOpened, the last step of Create and of Open.
MarkOpened(w) ==
    /\ wpc[w] = "mark"
    /\ handles' = [handles EXCEPT ![wfile[w]] = @ + 1]
    /\ GetHandle(w, wfile[w], "write", "open")
    /\ UNCHANGED <<stateVars, pollVars, disk>>

-----------------------------------------------------------------------------
(* FileNode.Open with a write flag.                                         *)

\* Faulty variant of OpenWrite: opening a sealed file makes it ACTIVE again.
OpenReactivates(w, f) ==
    /\ up /\ wpc[w] = "closed" /\ HasRow(f)
    /\ CreateLocal(f)
    /\ table' = UpsertFile(f, ActiveRow)
    /\ GetHandle(w, f, "none", "mark")
    /\ UNCHANGED <<cacheDir, server, listed, manifest, clock, up, pollVars, handles,
                   disk>>

\* Faulty variant of OpenWrite: every local file is opened for writing.
OpenAnyLocal(w, f) ==
    /\ up /\ wpc[w] = "closed" /\ HasRow(f)
    /\ IsLocal(table[f].state)
    /\ CreateLocal(f)
    /\ GetHandle(w, f, "none", "mark")
    /\ UNCHANGED <<table, cacheDir, server, listed, manifest, clock, up, pollVars, handles,
                   disk>>

OpenWrite(w, f) ==
    /\ up /\ wpc[w] = "closed" /\ HasRow(f)
    /\ \/ /\ table[f].state = "ACTIVE"
          /\ CreateLocal(f)
          /\ GetHandle(w, f, "none", "mark")
       \/ /\ table[f].state # "ACTIVE"
          /\ GetHandle(w, f, "null", "open")
          /\ UNCHANGED localDir
    /\ UNCHANGED <<table, cacheDir, server, listed, manifest, clock, up, pollVars, handles,
                   disk>>

-----------------------------------------------------------------------------
(* WriteHandle.Write: the row is checked first, then the bytes are written; *)
(* ENOENT and EACCES leave everything as it is.                             *)

WriteCheck(w) ==
    /\ wpc[w] = "open" /\ wkind[w] = "write"
    /\ IsWritable(table[wfile[w]].state)
    /\ localDir[wfile[w]].rev < MaxWrites
    /\ WGoTo(w, "writing")
    /\ UNCHANGED <<stateVars, pollVars, handleVars, handles, disk>>

WriteAt(w) ==
    /\ wpc[w] = "writing"
    /\ \/ localDir' = [localDir EXCEPT ![wfile[w]] = LocalCopy(@.rev + 1)]
       \/ "io" \in Faults /\ UNCHANGED localDir
    /\ WGoTo(w, "open")
    /\ UNCHANGED <<table, cacheDir, server, listed, manifest, clock, up, pollVars,
                   handleVars, handles, disk>>

\* Allocate grows the file and does not look at the row.
Allocate(w) ==
    /\ wpc[w] = "open" /\ wkind[w] = "write"
    /\ localDir[wfile[w]].rev < MaxWrites
    /\ localDir' = [localDir EXCEPT ![wfile[w]] = LocalCopy(@.rev + 1)]
    /\ UNCHANGED <<table, cacheDir, server, listed, manifest, clock, up, pollVars, wpc,
                   handleVars, handles, disk>>

\* Fsync flushes while the row is ACTIVE; otherwise, and when the row cannot be
\* read, it just reports success, as it always does on a NullWriteHandle.  It
\* only decides what a power failure may lose, so runs without loss leave it out.
Fsync(w) ==
    /\ wpc[w] = "open" /\ wkind[w] = "write" /\ "loss" \in Faults
    /\ table[wfile[w]].state = "ACTIVE"
    /\ disk' = [disk EXCEPT !.files[wfile[w]] = localDir[wfile[w]]]
    /\ UNCHANGED <<stateVars, pollVars, wpc, handleVars, handles>>

-----------------------------------------------------------------------------
(* WriteHandle.Release.                                                     *)

\* Faulty variant of ReleaseNull: it is counted as a write handle.
ReleaseNullCounted(w) ==
    /\ wpc[w] = "open" /\ wkind[w] = "null"
    /\ handles' = [handles EXCEPT ![wfile[w]] = @ - 1]
    /\ Close(w)
    /\ UNCHANGED <<stateVars, pollVars, disk>>

\* A NullWriteHandle has nothing to release.
ReleaseNull(w) ==
    /\ wpc[w] = "open" /\ wkind[w] = "null"
    /\ Close(w)
    /\ UNCHANGED <<stateVars, pollVars, handles, disk>>

\* Faulty variant of ReleaseHandle: off by one, the last but one counts as last.
ReleaseOneEarly(w) ==
    /\ wpc[w] = "open" /\ wkind[w] = "write"
    /\ handles' = [handles EXCEPT ![wfile[w]] = IF @ <= 2 THEN 0 ELSE @ - 1]
    /\ WGoTo(w, "release")
    /\ UNCHANGED <<stateVars, pollVars, handleVars, disk>>

\* markClosed: only the last handle of the file goes on.
ReleaseHandle(w) ==
    /\ wpc[w] = "open" /\ wkind[w] = "write"
    /\ handles' = [handles EXCEPT ![wfile[w]] = IF @ <= 1 THEN 0 ELSE @ - 1]
    /\ \/ /\ handles[wfile[w]] > 1
          /\ Close(w)
       \/ /\ handles[wfile[w]] <= 1
          /\ WGoTo(w, "release")
          /\ UNCHANGED handleVars
    /\ UNCHANGED <<stateVars, pollVars, disk>>

\* Faulty variant of ShouldFinalizeOnRelease: every blk file is sealed on release.
FinalizeAnyBlk(f) == f \in BlkFiles

\* A blk file is sealed once the next one exists; a rev file never is.
ShouldFinalizeOnRelease(f) ==
    /\ f \in BlkFiles
    /\ NextBlk[f] # NoFile
    /\ localDir[NextBlk[f]] # NoContent

ReleaseCheck(w) ==
    /\ wpc[w] = "release"
    /\ \/ /\ table[wfile[w]].state = "ACTIVE"
          /\ ShouldFinalizeOnRelease(wfile[w])
          /\ wrow' = [wrow EXCEPT ![w] = table[wfile[w]]]
          /\ WGoTo(w, "hash")
          /\ UNCHANGED <<wfile, wkind, wsha>>
       \/ /\ \/ table[wfile[w]].state # "ACTIVE"
             \/ ~ShouldFinalizeOnRelease(wfile[w])
             \/ "db" \in Faults
          /\ Close(w)
    /\ UNCHANGED <<stateVars, pollVars, handles, disk>>

\* finalize: hash the file ...
FinalizeHash(w) ==
    /\ wpc[w] = "hash"
    /\ \/ /\ wsha' = [wsha EXCEPT ![w] = Sha256(localDir[wfile[w]])]
          /\ WGoTo(w, "seal")
          /\ UNCHANGED <<wfile, wkind, wrow>>
       \/ "io" \in Faults /\ Close(w)
    /\ UNCHANGED <<stateVars, pollVars, handles, disk>>

\* Faulty variant of FinalizeSeal: the hash is left out of the row.
SealWithoutHash(w) ==
    /\ wpc[w] = "seal"
    /\ table' = UpsertFile(wfile[w], [wrow[w] EXCEPT !.state = "LOCAL_FINALIZED",
                                                     !.lastAccess = clock])
    /\ Close(w)
    /\ UNCHANGED <<cacheDir, localDir, server, listed, manifest, clock, up, pollVars, handles,
                   disk>>

\* ... and write back the row that was read before hashing, now LOCAL_FINALIZED.
FinalizeSeal(w) ==
    /\ wpc[w] = "seal"
    /\ \/ table' = UpsertFile(wfile[w], [wrow[w] EXCEPT !.state = "LOCAL_FINALIZED",
                                                        !.sha = wsha[w],
                                                        !.lastAccess = clock])
       \/ "db" \in Faults /\ UNCHANGED table
    /\ Close(w)
    /\ UNCHANGED <<cacheDir, localDir, server, listed, manifest, clock, up, pollVars, handles,
                   disk>>

-----------------------------------------------------------------------------
(* The process dies and is mounted again.                                   *)

WriteInit ==
    /\ wpc = [w \in Writers |-> "closed"]
    /\ wfile = [w \in Writers |-> NoFile]
    /\ wkind = [w \in Writers |-> "none"]
    /\ wrow = [w \in Writers |-> NoRow]
    /\ wsha = [w \in Writers |-> NoHash]
    /\ handles = [f \in Files |-> 0]
    /\ disk = [files |-> localDir, rows |-> table]

\* SQLite's log reaches the disk.  The store runs with synchronous=NORMAL, which
\* leaves it open when: a commit does not wait for it.
StoreSync ==
    /\ up /\ "rollback" \in Faults
    /\ disk' = [disk EXCEPT !.rows = table]
    /\ UNCHANGED <<stateVars, pollVars, wpc, handleVars, handles>>

\* Handles and counters are gone with the process, and with a power failure what
\* had not reached the disk: the writes to some files, and the last commits.
Crash ==
    /\ up /\ "crash" \in Faults
    /\ up' = FALSE
    /\ \E L \in (IF "loss" \in Faults THEN SUBSET Files ELSE {{}}) :
        localDir' = [f \in Files |-> IF f \in L THEN disk.files[f] ELSE localDir[f]]
    /\ table' = table \/ ("rollback" \in Faults /\ table' = disk.rows)
    /\ wpc' = [w \in Writers |-> "closed"]
    /\ wfile' = [w \in Writers |-> NoFile]
    /\ wkind' = [w \in Writers |-> "none"]
    /\ wrow' = [w \in Writers |-> NoRow]
    /\ wsha' = [w \in Writers |-> NoHash]
    /\ handles' = [f \in Files |-> 0]
    /\ UNCHANGED <<cacheDir, server, listed, manifest, clock, pollVars, disk>>

Mount == MountState /\ PollRestart /\ UNCHANGED writeVars

-----------------------------------------------------------------------------
Init == StateInit /\ PollInit /\ WriteInit

\* bitcoind's calls.
Begin(w) ==
    \/ \E f \in Files : CreateLookup(w, f) \/ OpenWrite(w, f)
    \/ WriteCheck(w) \/ Allocate(w) \/ Fsync(w) \/ ReleaseNull(w) \/ ReleaseHandle(w)

\* The daemon's part in serving them.
Serve(w) ==
    \/ CreateOpen(w) \/ CreateRegister(w) \/ MarkOpened(w) \/ WriteAt(w)
    \/ ReleaseCheck(w) \/ FinalizeHash(w) \/ FinalizeSeal(w)

\* The clock stands still: only eviction looks at last_access.
Environment ==
    \/ (\E f \in Files : Publish(f) \/ Withdraw(f)) /\ UNCHANGED <<pollVars, writeVars>>
    \/ PollStep /\ UNCHANGED writeVars
    \/ StoreSync \/ Crash \/ Mount

Next ==
    \/ \E w \in Writers : Begin(w) \/ Serve(w)
    \/ Environment

Spec == Init /\ [][Next]_vars

-----------------------------------------------------------------------------
(* Properties.                                                              *)

\* Every variable stays within its type.
TypeOK ==
    /\ StateTypeOK
    /\ PollTypeOK
    /\ wpc \in [Writers -> WriterPC]
    /\ wfile \in [Writers -> Files \cup {NoFile}]
    /\ wkind \in [Writers -> {"none", "write", "null"}]
    /\ wrow \in [Writers -> Row]
    /\ wsha \in [Writers -> Digests]
    /\ handles \in [Files -> Nat]
    /\ disk \in [files : [Files -> Content], rows : [Files -> Row]]

\* activeWriteHandles counts the write handles that are open, so the release that
\* reaches zero is the release of the last one (write.go:40-51).
HandlesCounted ==
    \A f \in Files :
        handles[f] = Cardinality({w \in Writers : /\ wkind[w] = "write" /\ wfile[w] = f
                                                  /\ wpc[w] \in {"open", "writing"}})

\* Create opens the local file of a name whose row neither Lookup nor Create itself
\* could read.
CreatedUnseen(f) ==
    "db" \in Faults /\ \E w \in Writers : wfile[w] = f /\ wpc[w] = "create" /\ wpc'[w] = "register"

\* The file bitcoind is filling is never sealed: a LOCAL_FINALIZED file is a blk
\* file whose successor is there too (write.go:246-260).  A crash may take the
\* successor away; a mount that meets no store error makes the file ACTIVE again.
\* Two store errors in a row let Create start a file anew under its sealed row.
SealedTip(f) ==
    /\ table[f].state = "LOCAL_FINALIZED" /\ localDir[f] # NoContent
    /\ ~(f \in BlkFiles /\ NextBlk[f] \in {g \in Files : localDir[g] # NoContent})
TipStaysWritable ==
    [][\A f \in Files : up' /\ SealedTip(f)' => \/ up /\ (SealedTip(f) \/ CreatedUnseen(f))
                                                \/ ~up /\ "mount" \in Faults]_vars

\* An ACTIVE row has its file in the local directory, through polls that replace
\* rows and crashes that lose files or rows: a mount that meets no store error
\* removes the rows without one (mount.go:95-108), and no other step leaves one.
ActiveWithoutFile(f) == table[f].state = "ACTIVE" /\ localDir[f] = NoContent
ActiveHasFile ==
    [][\A f \in Files : up' /\ ActiveWithoutFile(f)' => \/ up /\ ActiveWithoutFile(f)
                                                        \/ ~up /\ "mount" \in Faults]_vars

\* The hash of a row: none for an ACTIVE file (types.go:29), that of some local
\* content for a sealed file, that of a server revision otherwise.  Which local
\* content is left open: handles that outlive the seal write on, and a power failure
\* takes writes away.
HashMatchesState ==
    \A f \in Files :
        LET c == table[f].sha.digestOf IN
        CASE table[f].state \in {"ACTIVE", "NONE"} -> c = NoContent
          [] table[f].state = "LOCAL_FINALIZED" -> c.origin = "local"
          [] OTHER -> c.origin = "server"

\* The names a Create is about to register, with a row or without one.
Created == {f \in Files : \E w \in Writers : wfile[w] = f /\ wpc[w] = "register"}

\* The state of a row is reached by the events of internal/state only, except that
\* Create makes a row ACTIVE that Lookup and Create itself could not read
\* (root.go:86, create.go:20) and a mount makes one REMOTE (mount.go:111).
Lifecycle == INSTANCE FileLifecycle WITH
    st <- [f \in Files |-> table[f].state], durable <- [f \in Files |-> disk.rows[f].state],
    running <- up, missed <- IF "db" \in Faults THEN Created ELSE {},
    MountsFail <- "mount" \in Faults
FollowsLifecycle == Lifecycle!Spec

\* Once a file is sealed and its last write handle is gone, no request of bitcoind
\* gets another one and nothing changes the file any more, for as long as the daemon
\* runs (README.md:7, "sealed, it never changes"), except for a Create that two store
\* errors in a row make open the file again.
SealedFor(f) ==
    /\ up /\ table[f].state = "LOCAL_FINALIZED"
    /\ \A w \in Writers : wfile[w] = f =>
          wkind[w] = "null" \/ wpc[w] \in {"create", "release", "hash", "seal"}
SealedIsFinal ==
    [][\A f \in Files : SealedFor(f) /\ up' =>
          CreatedUnseen(f) \/ (SealedFor(f)' /\ localDir'[f] = localDir[f])]_vars
=============================================================================
