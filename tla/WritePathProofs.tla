--------------------------- MODULE WritePathProofs ---------------------------
(***************************************************************************)
(* Proofs about WritePath, for any number of files and writers, with every *)
(* set of faults and whatever the server publishes and withdraws.          *)
(***************************************************************************)
EXTENDS WritePath, ClientStateProofs, FiniteSetTheorems

(***************************************************************************)
(* Types.  TypeOK is not inductive alone: a request indexes the table and  *)
(* the local directory with the file of its handle, which must be there.   *)
(***************************************************************************)

\* A request is served by a running daemon, for some file.
InService == \A w \in Writers : wpc[w] # "closed" => up /\ wfile[w] \in Files

TypeInv == TypeOK /\ InService

\* The start states have the types.
LEMMA TypeInvInit == Init => TypeInv
<1> SUFFICES ASSUME Init PROVE TypeInv
  OBVIOUS
<1>1. StateTypeOK
  BY StateTypes DEF Init
<1>2. PollTypeOK
  BY <1>1 DEF Init, PollInit, PollTypeOK, StateTypeOK
<1>3. QED
  BY <1>1, <1>2, ValueTypes
     DEF Init, WriteInit, TypeInv, TypeOK, StateTypeOK, InService, WriterPC

\* The part of the types that is about writers.
WritersOK ==
    /\ wpc \in [Writers -> WriterPC]
    /\ wfile \in [Writers -> Files \cup {NoFile}]
    /\ wkind \in [Writers -> {"none", "write", "null"}]
    /\ wrow \in [Writers -> Row]
    /\ wsha \in [Writers -> Digests]
    /\ \A w \in Writers : wpc[w] # "closed" => wfile[w] \in Files

\* A handle that is got, used or closed leaves every writer variable within its type.
LEMMA HandleTypes ==
    ASSUME TypeInv, NEW w \in Writers
    PROVE  /\ \A f \in Files, k \in {"none", "write", "null"}, l \in WriterPC :
                  GetHandle(w, f, k, l) => WritersOK'
           /\ \A l \in WriterPC :
                  wpc[w] # "closed" /\ WGoTo(w, l) /\ UNCHANGED handleVars => WritersOK'
           /\ Close(w) => WritersOK'
<1> USE DEF TypeInv, TypeOK, InService
<1>1. ASSUME NEW f \in Files, NEW k \in {"none", "write", "null"}, NEW l \in WriterPC,
             GetHandle(w, f, k, l)
      PROVE  WritersOK'
  BY <1>1 DEF GetHandle, WGoTo, WritersOK
<1>2. ASSUME NEW l \in WriterPC, wpc[w] # "closed", WGoTo(w, l), UNCHANGED handleVars
      PROVE  WritersOK'
  BY <1>2 DEF WGoTo, WritersOK, handleVars
<1>3. ASSUME Close(w) PROVE WritersOK'
  BY <1>3, ValueTypes DEF Close, WGoTo, WriterPC, WritersOK
<1>4. QED
  BY <1>1, <1>2, <1>3

\* Every request of bitcoind and every step in serving it runs in a daemon that is
\* up, for a file, and leaves alone what only others write.
LEMMA WriterActs ==
    ASSUME TypeInv, NEW w \in Writers, Begin(w) \/ Serve(w)
    PROVE  /\ up /\ UNCHANGED <<cacheDir, server, listed, manifest, clock, up, pollVars>>
           /\ disk'.rows = disk.rows
           /\ wpc[w] = "closed" \/ wfile[w] \in Files
<1>1. CASE \E f \in Files : CreateLookup(w, f) \/ OpenWrite(w, f)
  BY <1>1 DEF CreateLookup, OpenWrite, stateVars, TypeInv, TypeOK, InService
<1>2. CASE wpc[w] # "closed"
  BY <1>1, <1>2 DEF Begin, Serve, CreateOpen, CreateRegister, MarkOpened, WriteCheck, WriteAt,
     Allocate, Fsync, ReleaseNull, ReleaseHandle, ReleaseCheck, FinalizeHash, FinalizeSeal,
     stateVars, TypeInv, TypeOK, InService
<1>3. QED
  BY <1>1, <1>2 DEF Begin, Serve, CreateOpen, CreateRegister, MarkOpened, WriteCheck, WriteAt,
     Allocate, Fsync, ReleaseNull, ReleaseHandle, ReleaseCheck, FinalizeHash, FinalizeSeal

\* The row finalize writes.
LEMMA SealedRow ==
    ASSUME TypeInv, NEW w \in Writers
    PROVE  LET row == [wrow[w] EXCEPT !.state = "LOCAL_FINALIZED", !.sha = wsha[w], !.lastAccess = clock]
           IN  row \in Row /\ row.state = "LOCAL_FINALIZED" /\ row.sha = wsha[w]
<1>1. wrow[w] \in Row /\ wsha[w] \in Digests /\ clock \in Nat
  BY DEF TypeInv, TypeOK, StateTypeOK
<1>2. QED
  BY <1>1 DEF Row, RowStates, FileStates

\* What a writer's step puts into the table, the local directory and the counters.
LEMMA WriterWrites ==
    ASSUME TypeInv, NEW w \in Writers, Begin(w) \/ Serve(w)
    PROVE  /\ localDir' \in [Files -> Content]
           /\ disk' \in [files : [Files -> Content], rows : [Files -> Row]]
           /\ table' \in [Files -> Row] /\ handles' \in [Files -> Nat]
<1> USE DEF TypeInv, TypeOK, StateTypeOK, stateVars
<1>0. wpc[w] = "closed" \/ wfile[w] \in Files
  BY WriterActs
<1>1. localDir' \in [Files -> Content]
  <2>1. \A f \in Files : LocalCopy(0) \in Content /\ LocalCopy(localDir[f].rev + 1) \in Content
    BY ValueTypes DEF Content
  <2>2. \A f \in Files : CreateLocal(f) => localDir' \in [Files -> Content]
    BY <2>1 DEF CreateLocal
  <2>3. QED
    BY <1>0, <2>1, <2>2 DEF Begin, Serve, CreateLookup, OpenWrite, CreateOpen, CreateRegister,
       MarkOpened, WriteCheck, WriteAt, Allocate, Fsync, ReleaseNull, ReleaseHandle,
       ReleaseCheck, FinalizeHash, FinalizeSeal
<1>2. disk' \in [files : [Files -> Content], rows : [Files -> Row]]
  BY DEF Begin, Serve, CreateLookup, OpenWrite, CreateOpen, CreateRegister, MarkOpened, WriteCheck,
     WriteAt, Allocate, Fsync, ReleaseNull, ReleaseHandle, ReleaseCheck, FinalizeHash, FinalizeSeal
<1>3. handles' \in [Files -> Nat]
  BY DEF Begin, Serve, CreateLookup, OpenWrite, CreateOpen, CreateRegister, MarkOpened, WriteCheck,
     WriteAt, Allocate, Fsync, ReleaseNull, ReleaseHandle, ReleaseCheck, FinalizeHash, FinalizeSeal
<1>4. table' \in [Files -> Row]
  <2>1. ActiveRow \in Row
    BY RowTypes
  <2>2. [wrow[w] EXCEPT !.state = "LOCAL_FINALIZED", !.sha = wsha[w], !.lastAccess = clock] \in Row
    BY SealedRow
  <2>3. \A row \in Row : table' = UpsertFile(wfile[w], row) => table' \in [Files -> Row]
    BY DEF UpsertFile
  <2>4. QED
    BY <2>1, <2>2, <2>3 DEF Begin, Serve, CreateLookup, OpenWrite, CreateOpen, CreateRegister,
       MarkOpened, WriteCheck, WriteAt, Allocate, Fsync, ReleaseNull, ReleaseHandle,
       ReleaseCheck, FinalizeHash, FinalizeSeal
<1>5. QED
  BY <1>1, <1>2, <1>3, <1>4

\* The writers after a writer's step.
LEMMA WriterHandles ==
    ASSUME TypeInv, NEW w \in Writers, Begin(w) \/ Serve(w)
    PROVE  WritersOK'
<1> USE DEF WriterPC
<1>0. wpc[w] = "closed" \/ wfile[w] \in Files
  BY WriterActs
<1>1. CASE \E f \in Files : CreateLookup(w, f) \/ OpenWrite(w, f)
  BY <1>1, HandleTypes DEF CreateLookup, OpenWrite
<1>2. CASE CreateOpen(w) \/ CreateRegister(w)
  BY <1>0, <1>2, HandleTypes DEF CreateOpen, CreateRegister
<1>3. CASE MarkOpened(w)
  BY <1>0, <1>3, HandleTypes DEF MarkOpened
<1>4. CASE WriteCheck(w) \/ WriteAt(w)
  BY <1>4, HandleTypes DEF WriteCheck, WriteAt
<1>5. CASE Allocate(w) \/ Fsync(w)
  BY <1>5 DEF Allocate, Fsync, handleVars, WritersOK, TypeInv, TypeOK, InService
<1>6. CASE ReleaseNull(w) \/ ReleaseHandle(w)
  BY <1>6, HandleTypes DEF ReleaseNull, ReleaseHandle
<1>7. CASE ReleaseCheck(w)
  <2>1. CASE Close(w)
    BY <2>1, HandleTypes
  <2>2. CASE /\ wrow' = [wrow EXCEPT ![w] = table[wfile[w]]] /\ WGoTo(w, "hash")
             /\ UNCHANGED <<wfile, wkind, wsha>>
    <3>1. table[wfile[w]] \in Row
      BY <1>0, <1>7 DEF ReleaseCheck, TypeInv, TypeOK, StateTypeOK
    <3>2. QED
      BY <1>0, <1>7, <2>2, <3>1 DEF ReleaseCheck, WGoTo, WritersOK, TypeInv, TypeOK, InService
  <2>3. QED
    BY <1>7, <2>1, <2>2 DEF ReleaseCheck
<1>8. CASE FinalizeHash(w)
  <2>1. CASE Close(w)
    BY <2>1, HandleTypes
  <2>2. CASE /\ wsha' = [wsha EXCEPT ![w] = Sha256(localDir[wfile[w]])] /\ WGoTo(w, "seal")
             /\ UNCHANGED <<wfile, wkind, wrow>>
    <3>1. Sha256(localDir[wfile[w]]) \in Digests
      BY <1>0, <1>8, ValueTypes DEF FinalizeHash, TypeInv, TypeOK, StateTypeOK
    <3>2. QED
      BY <1>0, <1>8, <2>2, <3>1 DEF FinalizeHash, WGoTo, WritersOK, TypeInv, TypeOK, InService
  <2>3. QED
    BY <1>8, <2>1, <2>2 DEF FinalizeHash
<1>9. CASE FinalizeSeal(w)
  BY <1>9, HandleTypes DEF FinalizeSeal
<1>10. QED
  BY <1>1, <1>2, <1>3, <1>4, <1>5, <1>6, <1>7, <1>8, <1>9 DEF Begin, Serve

\* The poller's steps: at most one row is written, and only in a running daemon.
LEMMA PollWrites ==
    ASSUME TypeInv, PollStep
    PROVE  /\ up /\ UNCHANGED <<cacheDir, localDir, server, listed, manifest, clock, up>>
           /\ PollTypeOK' /\ table' \in [Files -> Row]
           /\ \/ UNCHANGED table
              \/ \E f \in Files : /\ f \in todo
                                  /\ \/ table' = DeleteFile(f)
                                     \/ fetched[f] # 0 /\ table' = UpsertFile(f, RemoteRow(HashIn(fetched, f)))
<1> USE DEF TypeInv, TypeOK, PollTypeOK, stateVars
<1>0. StateTypeOK /\ clock \in Nat
  BY DEF StateTypeOK
<1>1. CASE PollFetch
  BY <1>0, <1>1, InitialManifestType DEF PollFetch, Added, Removed, StateTypeOK
<1>2. CASE PollDone
  BY <1>0, <1>2 DEF PollDone, StateTypeOK
<1>3. ASSUME NEW f \in Files, PollAdd(f)
      PROVE  /\ up /\ UNCHANGED <<cacheDir, localDir, server, listed, manifest, clock, up>>
             /\ PollTypeOK' /\ table' \in [Files -> Row]
             /\ \/ UNCHANGED table
                \/ f \in todo /\ fetched[f] # 0 /\ table' = UpsertFile(f, RemoteRow(HashIn(fetched, f)))
  <2>1. RemoteRow(HashIn(fetched, f)) \in Row
    BY <1>0, HashInType, RowTypes
  <2>2. table' \in [Files -> Row]
    BY <1>0, <1>3, <2>1, StoreTypes DEF PollAdd, StateTypeOK
  <2>3. QED
    BY <1>3, <2>2 DEF PollAdd, Added
<1>4. ASSUME NEW f \in Files, PollRemove(f)
      PROVE  /\ up /\ UNCHANGED <<cacheDir, localDir, server, listed, manifest, clock, up>>
             /\ PollTypeOK' /\ table' \in [Files -> Row]
             /\ \/ UNCHANGED table
                \/ f \in todo /\ table' = DeleteFile(f)
  <2>1. table' \in [Files -> Row]
    BY <1>0, <1>4, StoreTypes DEF PollRemove, StateTypeOK
  <2>2. QED
    BY <1>4, <2>1 DEF PollRemove
<1>5. QED
  BY <1>1, <1>2, <1>3, <1>4 DEF PollStep

\* Every step keeps the types.
LEMMA TypeInvStep == TypeInv /\ [Next]_vars => TypeInv'
<1> SUFFICES ASSUME TypeInv, [Next]_vars PROVE TypeInv'
  OBVIOUS
<1>1. ASSUME NEW w \in Writers, Begin(w) \/ Serve(w) PROVE TypeInv'
  BY <1>1, WriterActs, WriterWrites, WriterHandles
     DEF WritersOK, TypeInv, TypeOK, StateTypeOK, PollTypeOK, pollVars, InService
<1>2. CASE (\E f \in Files : Publish(f) \/ Withdraw(f)) /\ UNCHANGED <<pollVars, writeVars>>
  <2>1. StateTypeOK' /\ up' = up
    BY <1>2, StateTypes DEF TypeInv, TypeOK, Publish, Withdraw
  <2>2. QED
    BY <1>2, <2>1 DEF TypeInv, TypeOK, PollTypeOK, pollVars, writeVars, handleVars, InService
<1>3. CASE PollStep /\ UNCHANGED writeVars
  BY <1>3, PollWrites DEF TypeInv, TypeOK, StateTypeOK, writeVars, handleVars, InService
<1>4. CASE Crash
  <2>1. localDir' \in [Files -> Content] /\ table' \in [Files -> Row]
    BY <1>4 DEF Crash, TypeInv, TypeOK, StateTypeOK
  <2>2. QED
    BY <1>4, <2>1, ValueTypes
       DEF Crash, TypeInv, TypeOK, StateTypeOK, PollTypeOK, pollVars, InService, WriterPC
<1>s. CASE StoreSync
  <2>1. disk' \in [files : [Files -> Content], rows : [Files -> Row]]
    BY <1>s DEF StoreSync, TypeInv, TypeOK, StateTypeOK
  <2>2. QED
    BY <1>s, <2>1 DEF StoreSync, TypeInv, TypeOK, StateTypeOK, PollTypeOK, stateVars, pollVars,
                      handleVars, InService
<1>5. CASE Mount
  <2>1. StateTypeOK'
    BY <1>5, StateTypes DEF Mount, TypeInv, TypeOK
  <2>2. PollTypeOK'
    BY <1>5, <2>1 DEF Mount, PollRestart, PollTypeOK, StateTypeOK
  <2>3. up' = TRUE
    BY <1>5 DEF Mount, MountState
  <2>4. QED
    BY <1>5, <2>1, <2>2, <2>3 DEF Mount, TypeInv, TypeOK, writeVars, handleVars, InService
<1>6. CASE UNCHANGED vars
  BY <1>6 DEF vars, stateVars, pollVars, writeVars, handleVars, TypeInv, TypeOK, StateTypeOK,
              PollTypeOK, InService
<1>7. QED
  BY <1>1, <1>2, <1>3, <1>4, <1>s, <1>5, <1>6 DEF Next, Environment

\* So they always hold.
LEMMA TypeInvAlways == Spec => []TypeInv
  BY TypeInvInit, TypeInvStep, PTL DEF Spec

\* Every variable of the write path stays within its type, with any number of files
\* and writers and whatever fails.
THEOREM WriteTypeCorrect == Spec => []TypeOK
  BY TypeInvAlways, PTL DEF TypeInv

(***************************************************************************)
(* Counting.  The counter of a file and the set of its open write handles  *)
(* change together, in MarkOpened and in ReleaseHandle; every other step   *)
(* leaves the membership of every writer as it is.                         *)
(***************************************************************************)

\* The write handles open on a file.
OpenFor(f) ==
    {w \in Writers : /\ wkind[w] = "write" /\ wfile[w] = f
                     /\ wpc[w] \in {"open", "writing"}}

\* A step of one writer changes no other.
LEMMA OthersKept ==
    ASSUME TypeInv, NEW w \in Writers, Begin(w) \/ Serve(w), NEW v \in Writers \ {w}
    PROVE  /\ wpc'[v] = wpc[v] /\ wfile'[v] = wfile[v] /\ wkind'[v] = wkind[v]
           /\ wsha'[v] = wsha[v]
  BY DEF TypeInv, TypeOK, Begin, Serve, CreateLookup, OpenWrite, CreateOpen, CreateRegister,
     MarkOpened, WriteCheck, WriteAt, Allocate, Fsync, ReleaseNull, ReleaseHandle, ReleaseCheck,
     FinalizeHash, FinalizeSeal, GetHandle, Close, WGoTo, handleVars

\* The steps that open and close no write handle.
LEMMA OpenForKept ==
    ASSUME TypeInv, NEW w \in Writers, Begin(w) \/ Serve(w), ~MarkOpened(w), ~ReleaseHandle(w),
           NEW f \in Files
    PROVE  OpenFor(f)' = OpenFor(f) /\ handles' = handles
<1>1. handles' = handles
  BY DEF Begin, Serve, CreateLookup, OpenWrite, CreateOpen, CreateRegister, WriteCheck, WriteAt,
     Allocate, Fsync, ReleaseNull, ReleaseCheck, FinalizeHash, FinalizeSeal
<1>2. w \in OpenFor(f)' <=> w \in OpenFor(f)
  <2> USE DEF TypeInv, TypeOK, OpenFor, GetHandle, Close, WGoTo, handleVars
  <2>1. CASE \E g \in Files : CreateLookup(w, g) \/ OpenWrite(w, g)
    BY <2>1 DEF CreateLookup, OpenWrite
  <2>2. CASE CreateOpen(w) \/ CreateRegister(w)
    BY <2>2 DEF CreateOpen, CreateRegister
  <2>3. CASE WriteCheck(w) \/ WriteAt(w)
    BY <2>3 DEF WriteCheck, WriteAt
  <2>4. CASE Allocate(w) \/ Fsync(w) \/ ReleaseNull(w)
    BY <2>4 DEF Allocate, Fsync, ReleaseNull
  <2>5. CASE ReleaseCheck(w) \/ FinalizeHash(w) \/ FinalizeSeal(w)
    BY <2>5 DEF ReleaseCheck, FinalizeHash, FinalizeSeal
  <2>6. QED
    BY <2>1, <2>2, <2>3, <2>4, <2>5 DEF Begin, Serve
<1>3. \A v \in Writers \ {w} : v \in OpenFor(f)' <=> v \in OpenFor(f)
  BY OthersKept DEF OpenFor
<1>4. OpenFor(f)' \subseteq Writers /\ OpenFor(f) \subseteq Writers
  BY DEF OpenFor
<1>5. QED
  BY <1>1, <1>2, <1>3, <1>4

\* The counter and the set, in every step.
LEMMA CountedStep == TypeInv /\ HandlesCounted /\ [Next]_vars => HandlesCounted'
<1> SUFFICES ASSUME TypeInv, HandlesCounted, [Next]_vars, NEW f \in Files
             PROVE  (handles[f] = Cardinality(OpenFor(f)))'
  BY DEF HandlesCounted, OpenFor
<1>0. /\ IsFiniteSet(OpenFor(f)) /\ Cardinality(OpenFor(f)) \in Nat
      /\ handles[f] = Cardinality(OpenFor(f)) /\ handles \in [Files -> Nat]
  <2>1. OpenFor(f) \subseteq Writers
    BY DEF OpenFor
  <2>2. IsFiniteSet(OpenFor(f))
    BY <2>1, WritersAssumption, FS_Subset
  <2>3. QED
    BY <2>2, FS_CardinalityType DEF HandlesCounted, OpenFor, TypeInv, TypeOK
<1>1. ASSUME NEW w \in Writers, MarkOpened(w)
      PROVE  (handles[f] = Cardinality(OpenFor(f)))'
  <2>1. wfile[w] # f => OpenFor(f)' = OpenFor(f)
    BY <1>1 DEF MarkOpened, OpenFor, GetHandle, WGoTo, TypeInv, TypeOK
  <2>2. wfile[w] = f => OpenFor(f)' = OpenFor(f) \cup {w} /\ w \notin OpenFor(f)
    BY <1>1 DEF MarkOpened, OpenFor, GetHandle, WGoTo, TypeInv, TypeOK
  <2>3. handles'[f] = IF wfile[w] = f THEN handles[f] + 1 ELSE handles[f]
    BY <1>0, <1>1 DEF MarkOpened
  <2>4. wfile[w] = f => Cardinality(OpenFor(f)') = Cardinality(OpenFor(f)) + 1
    BY <1>0, <2>2, FS_AddElement
  <2>5. QED
    BY <1>0, <2>1, <2>3, <2>4
<1>2. ASSUME NEW w \in Writers, ReleaseHandle(w)
      PROVE  (handles[f] = Cardinality(OpenFor(f)))'
  <2>1. wfile[w] # f => OpenFor(f)' = OpenFor(f)
    BY <1>2 DEF ReleaseHandle, OpenFor, Close, WGoTo, handleVars, TypeInv, TypeOK
  <2>2. wfile[w] = f => OpenFor(f)' = OpenFor(f) \ {w} /\ w \in OpenFor(f)
    BY <1>2 DEF ReleaseHandle, OpenFor, Close, WGoTo, handleVars, TypeInv, TypeOK
  <2>3. handles'[f] = IF wfile[w] = f THEN IF handles[f] <= 1 THEN 0 ELSE handles[f] - 1
                                      ELSE handles[f]
    BY <1>0, <1>2 DEF ReleaseHandle
  <2>4. wfile[w] = f => /\ Cardinality(OpenFor(f)') = Cardinality(OpenFor(f)) - 1
                        /\ Cardinality(OpenFor(f)) # 0
    BY <1>0, <2>2, FS_RemoveElement, FS_EmptySet
  <2>5. QED
    BY <1>0, <2>1, <2>3, <2>4
<1>3. ASSUME NEW w \in Writers, Begin(w) \/ Serve(w), ~MarkOpened(w), ~ReleaseHandle(w)
      PROVE  (handles[f] = Cardinality(OpenFor(f)))'
  BY <1>0, <1>3, OpenForKept
<1>4. CASE Crash
  <2>1. OpenFor(f)' = {} /\ handles'[f] = 0
    BY <1>4 DEF Crash, OpenFor
  <2>2. QED
    BY <2>1, FS_EmptySet
<1>5. CASE UNCHANGED writeVars
  <2>1. OpenFor(f)' = OpenFor(f) /\ handles' = handles
    BY <1>5 DEF writeVars, handleVars, OpenFor
  <2>2. QED
    BY <1>0, <2>1
<1>6. CASE StoreSync
  <2>1. OpenFor(f)' = OpenFor(f) /\ handles' = handles
    BY <1>6 DEF StoreSync, handleVars, OpenFor
  <2>2. QED
    BY <1>0, <2>1
<1>7. QED
  BY <1>1, <1>2, <1>3, <1>4, <1>5, <1>6 DEF Next, Environment, Mount, vars

\* activeWriteHandles counts the open write handles of every file, so the release
\* that reaches zero is that of the last one: no order of opens, releases still being
\* served and crashes makes the count drift.
THEOREM HandlesAlwaysCounted == Spec => []HandlesCounted
<1>1. Init => HandlesCounted
  <2> SUFFICES ASSUME Init, NEW f \in Files PROVE handles[f] = Cardinality(OpenFor(f))
    BY DEF HandlesCounted, OpenFor
  <2>1. OpenFor(f) = {} /\ handles[f] = 0
    BY DEF Init, WriteInit, OpenFor
  <2>2. QED
    BY <2>1, FS_EmptySet
<1>2. QED
  BY <1>1, TypeInvAlways, CountedStep, PTL DEF Spec

(***************************************************************************)
(* Rows and local files.  What a row says of its file is only kept because *)
(* of what the requests under way know: one that is about to write an      *)
(* ACTIVE row has its file, one that is about to seal a file has found the *)
(* next one, and the hash it carries is that of a local file.              *)
(***************************************************************************)

\* The local directory holds what bitcoind wrote, or nothing.
LocalContent(c) == c = NoContent \/ c.origin = "local"
ContentInv == \A f \in Files : LocalContent(localDir[f]) /\ LocalContent(disk.files[f])

\* What a request under way, or a handle, knows of its file.
RequestInv(w) ==
    /\ wkind[w] = "write" => wpc[w] \in {"open", "writing", "release", "hash", "seal"}
    /\ wpc[w] \in {"writing", "release", "hash", "seal"} => wkind[w] = "write"
    /\ wkind[w] = "null" => wpc[w] = "open"
    /\ wkind[w] = "write" \/ wpc[w] \in {"register", "mark"} => localDir[wfile[w]] # NoContent
    /\ wpc[w] \in {"hash", "seal"} => ShouldFinalizeOnRelease(wfile[w])
    /\ wpc[w] = "seal" => wsha[w].digestOf.origin = "local"

\* The parts of ActiveHasFile, HashMatchesState and TipStaysWritable about one row.
ActiveOK(f) == table[f].state = "ACTIVE" => localDir[f] # NoContent
HashOK(row) ==
    CASE row.state \in {"ACTIVE", "NONE"} -> row.sha.digestOf = NoContent
      [] row.state = "LOCAL_FINALIZED" -> row.sha.digestOf.origin = "local"
      [] OTHER -> row.sha.digestOf.origin = "server"
TipOK(f) ==
    table[f].state = "LOCAL_FINALIZED" /\ localDir[f] # NoContent => ShouldFinalizeOnRelease(f)

PathInv ==
    /\ ContentInv
    /\ \A w \in Writers : RequestInv(w)
    /\ \A f \in Files : HashOK(table[f]) /\ HashOK(disk.rows[f])

\* A step of the running daemon makes no row wrong that was right, but for a Create
\* that did not see the row.
RowsStayRight ==
    \A f \in Files : /\ ActiveOK(f) => ActiveOK(f)'
                     /\ TipOK(f) => TipOK(f)' \/ CreatedUnseen(f)

\* No file disappears from the local directory.
LocalGrows == \A f \in Files : localDir[f] # NoContent => localDir'[f] # NoContent

\* Contents and rows that are written.
LEMMA WrittenValues ==
    /\ \A v : LocalCopy(v) # NoContent /\ LocalContent(LocalCopy(v))
    /\ LocalContent(NoContent)
    /\ \A c : Sha256(c).digestOf = c
    /\ HashOK(NoRow) /\ HashOK(ActiveRow)
    /\ \A v : HashOK(RemoteRow(Sha256(ServerCopy(v))))
    /\ NoRow.state = "NONE" /\ ActiveRow.state = "ACTIVE" /\ \A h : RemoteRow(h).state = "REMOTE"
  BY DEF LocalCopy, NoContent, LocalContent, Sha256, HashOK, NoRow, ActiveRow, RemoteRow,
         NoHash, ServerCopy

\* The successor stays where it is.
LEMMA ShouldFinalizeStays ==
    ASSUME LocalGrows, NEW f \in Files, ShouldFinalizeOnRelease(f)
    PROVE  ShouldFinalizeOnRelease(f)'
<1>1. NextBlk[f] \in Files
  BY BlkAssumption DEF ShouldFinalizeOnRelease
<1>2. QED
  BY <1>1 DEF ShouldFinalizeOnRelease, LocalGrows

\* A step after which every row is as before, or good in itself, and which creates no
\* file for a sealed row, keeps the rows right.
LEMMA RowsKept ==
    ASSUME TypeInv, PathInv, LocalGrows, disk'.rows = disk.rows,
           \A f \in Files : \/ table'[f] = table[f]
                            \/ HashOK(table'[f]) /\ ActiveOK(f)' /\ TipOK(f)',
           \A f \in Files : table[f].state = "LOCAL_FINALIZED" /\ localDir'[f] # NoContent
                                => localDir[f] # NoContent \/ CreatedUnseen(f)
    PROVE  /\ \A f \in Files : HashOK(table'[f]) /\ HashOK(disk'.rows[f])
           /\ RowsStayRight
<1>1. \A f \in Files : HashOK(table'[f]) /\ HashOK(disk'.rows[f])
  BY DEF PathInv
<1>2. ASSUME NEW f \in Files, table'[f] = table[f]
      PROVE  /\ ActiveOK(f) => ActiveOK(f)'
             /\ TipOK(f) => TipOK(f)' \/ CreatedUnseen(f)
  <2>1. ActiveOK(f) => ActiveOK(f)'
    BY <1>2 DEF ActiveOK, LocalGrows
  <2>2. ASSUME TipOK(f), ~CreatedUnseen(f) PROVE TipOK(f)'
    BY <1>2, <2>2, ShouldFinalizeStays DEF TipOK
  <2>3. QED
    BY <2>1, <2>2
<1>3. QED
  BY <1>1, <1>2 DEF RowsStayRight

\* A step of another actor, during which no file disappears, keeps what a request
\* knows.
LEMMA RequestKept ==
    ASSUME TypeInv, LocalGrows, NEW v \in Writers, RequestInv(v),
           wpc'[v] = wpc[v], wfile'[v] = wfile[v], wkind'[v] = wkind[v], wsha'[v] = wsha[v]
    PROVE  RequestInv(v)'
<1>1. wpc[v] # "closed" => wfile[v] \in Files
  BY DEF TypeInv, InService
<1>2. wpc[v] \in {"hash", "seal"} => ShouldFinalizeOnRelease(wfile[v])'
  BY <1>1, ShouldFinalizeStays DEF RequestInv
<1>3. QED
  BY <1>1, <1>2 DEF RequestInv, LocalGrows, ShouldFinalizeOnRelease

\* The steps of a writer: what it has to answer for, and then one step at a time.
LEMMA WriterFrame ==
    ASSUME TypeInv, PathInv, NEW w \in Writers, Begin(w) \/ Serve(w),
           LocalGrows, ContentInv', RequestInv(w)',
           \A f \in Files : \/ table'[f] = table[f]
                            \/ HashOK(table'[f]) /\ ActiveOK(f)' /\ TipOK(f)',
           \A f \in Files : table[f].state = "LOCAL_FINALIZED" /\ localDir'[f] # NoContent
                                => localDir[f] # NoContent \/ CreatedUnseen(f)
    PROVE  PathInv' /\ RowsStayRight
<1>1. disk'.rows = disk.rows
  BY WriterActs
<1>2. /\ \A f \in Files : HashOK(table'[f]) /\ HashOK(disk'.rows[f])
      /\ RowsStayRight
  BY <1>1, RowsKept
<1>3. ASSUME NEW v \in Writers \ {w} PROVE RequestInv(v)'
  BY <1>3, OthersKept, RequestKept DEF PathInv
<1>4. QED
  BY <1>2, <1>3 DEF PathInv

\* The steps that leave rows and files alone.
LEMMA PathInvQuiet ==
    ASSUME TypeInv, PathInv, NEW w \in Writers,
           \/ \E f \in Files : CreateLookup(w, f)
           \/ MarkOpened(w) \/ WriteCheck(w) \/ Fsync(w) \/ ReleaseNull(w) \/ ReleaseHandle(w)
           \/ ReleaseCheck(w) \/ FinalizeHash(w)
    PROVE  PathInv' /\ RowsStayRight
<1> USE DEF TypeInv, TypeOK, GetHandle, Close, WGoTo, handleVars
<1>1. table' = table /\ localDir' = localDir /\ up
  BY DEF CreateLookup, MarkOpened, WriteCheck, Fsync, ReleaseNull, ReleaseHandle, ReleaseCheck,
         FinalizeHash, stateVars, InService
<1>2. LocalGrows
  BY <1>1 DEF LocalGrows
<1>3. ContentInv'
  BY <1>1 DEF PathInv, ContentInv, CreateLookup, MarkOpened, WriteCheck, Fsync, ReleaseNull,
              ReleaseHandle, ReleaseCheck, FinalizeHash
<1>4. RequestInv(w)'
  <2> USE <1>1 DEF PathInv, RequestInv
  <2>1. CASE \E f \in Files : CreateLookup(w, f)
    BY <2>1 DEF CreateLookup, HasRow
  <2>2. CASE MarkOpened(w) \/ WriteCheck(w) \/ Fsync(w)
    BY <2>2 DEF MarkOpened, WriteCheck, Fsync
  <2>3. CASE ReleaseNull(w) \/ ReleaseHandle(w)
    BY <2>3 DEF ReleaseNull, ReleaseHandle
  <2>4. CASE ReleaseCheck(w)
    BY <2>4 DEF ReleaseCheck, ShouldFinalizeOnRelease
  <2>5. CASE FinalizeHash(w)
    <3>1. CASE Close(w)
      BY <3>1
    <3>2. CASE /\ wsha' = [wsha EXCEPT ![w] = Sha256(localDir[wfile[w]])] /\ WGoTo(w, "seal")
               /\ UNCHANGED <<wfile, wkind, wrow>>
      <4>1. localDir[wfile[w]].origin = "local"
        BY <2>5 DEF FinalizeHash, InService, ContentInv, LocalContent
      <4>2. QED
        BY <2>5, <3>2, <4>1, WrittenValues DEF FinalizeHash, ShouldFinalizeOnRelease
    <3>3. QED
      BY <2>5, <3>1, <3>2 DEF FinalizeHash
  <2>6. QED
    BY <2>1, <2>2, <2>3, <2>4, <2>5
<1>5. QED
  BY <1>1, <1>2, <1>3, <1>4, WriterFrame DEF Begin, Serve

\* The steps that create files or write to them.
LEMMA PathInvFiles ==
    ASSUME TypeInv, PathInv, NEW w \in Writers,
           \/ \E f \in Files : OpenWrite(w, f)
           \/ CreateOpen(w) \/ WriteAt(w) \/ Allocate(w)
    PROVE  PathInv' /\ RowsStayRight
<1> USE DEF TypeInv, TypeOK, StateTypeOK, GetHandle, Close, WGoTo, handleVars
<1>0. table' = table /\ disk' = disk /\ (Begin(w) \/ Serve(w))
  BY DEF OpenWrite, CreateOpen, WriteAt, Allocate, Begin, Serve
\* The local directory is left alone ...
<1>q. ASSUME localDir' = localDir, RequestInv(w)' PROVE PathInv' /\ RowsStayRight
  BY <1>0, <1>q, WriterFrame DEF LocalGrows, PathInv, ContentInv
\* ... or one of its files is created or gets new content.
<1>c. ASSUME NEW g \in Files, NEW c, localDir' = [localDir EXCEPT ![g] = c],
             c # NoContent, LocalContent(c),
             table[g].state = "LOCAL_FINALIZED" => localDir[g] # NoContent \/ CreatedUnseen(g),
             RequestInv(w)'
      PROVE  PathInv' /\ RowsStayRight
  <2>1. LocalGrows /\ ContentInv'
    BY <1>0, <1>c DEF LocalGrows, PathInv, ContentInv
  <2>2. \A f \in Files : table[f].state = "LOCAL_FINALIZED" /\ localDir'[f] # NoContent
                             => localDir[f] # NoContent \/ CreatedUnseen(f)
    BY <1>c
  <2>3. QED
    BY <1>0, <1>c, <2>1, <2>2, WriterFrame
<1>1. ASSUME NEW f \in Files, OpenWrite(w, f) PROVE PathInv' /\ RowsStayRight
  <2>1. CASE table[f].state = "ACTIVE"
    <3>1. localDir' = [localDir EXCEPT ![f] = IF @ = NoContent THEN LocalCopy(0) ELSE @]
      BY <1>1, <2>1 DEF OpenWrite, CreateLocal
    <3>2. localDir'[f] # NoContent
      BY <3>1, WrittenValues
    <3>3. RequestInv(w)'
      BY <1>1, <2>1, <3>2 DEF OpenWrite, PathInv, RequestInv
    <3>4. CASE localDir[f] = NoContent
      BY <2>1, <3>1, <3>3, <3>4, <1>c, WrittenValues
    <3>5. CASE localDir[f] # NoContent
      BY <3>1, <3>3, <3>5, <1>q
    <3>6. QED
      BY <3>4, <3>5
  <2>2. CASE table[f].state # "ACTIVE"
    BY <1>1, <2>2, <1>q DEF OpenWrite, RequestInv
  <2>3. QED
    BY <2>1, <2>2
<1>2. CASE CreateOpen(w)
  <2>0. wfile[w] \in Files /\ wpc[w] = "create"
    BY <1>2 DEF CreateOpen, InService
  <2>1. CASE /\ UNCHANGED localDir
             /\ <<wpc'[w], wkind'[w]>> \in {<<"open", "null">>, <<"closed", "none">>}
    BY <2>1, <1>q DEF RequestInv
  <2>2. CASE /\ table[wfile[w]].state \in {"NONE", "ACTIVE"} \/ "db" \in Faults
             /\ CreateLocal(wfile[w]) \/ localDir' = [localDir EXCEPT ![wfile[w]] = LocalCopy(0)]
             /\ WGoTo(w, "register") /\ UNCHANGED handleVars
    <3>1. \/ localDir' = localDir /\ localDir[wfile[w]] # NoContent
          \/ localDir' = [localDir EXCEPT ![wfile[w]] = LocalCopy(0)]
      BY <2>2 DEF CreateLocal
    <3>2. localDir'[wfile[w]] # NoContent
      BY <2>0, <3>1, WrittenValues
    <3>3. table[wfile[w]].state = "LOCAL_FINALIZED" => CreatedUnseen(wfile[w])
      BY <2>0, <2>2 DEF CreatedUnseen
    <3>4. RequestInv(w)'
      BY <2>0, <2>2, <3>2 DEF PathInv, RequestInv
    <3>5. QED
      BY <2>0, <3>1, <3>3, <3>4, <1>q, <1>c, WrittenValues
  <2>3. QED
    BY <1>2, <2>1, <2>2 DEF CreateOpen
<1>3. CASE WriteAt(w) \/ Allocate(w)
  <2>0. wfile[w] \in Files /\ localDir[wfile[w]] # NoContent /\ wkind[w] = "write"
    BY <1>3 DEF WriteAt, Allocate, InService, PathInv, RequestInv
  <2>1. UNCHANGED handleVars /\ wpc'[w] = "open"
    BY <1>3 DEF WriteAt, Allocate
  <2>2. PICK n : localDir' = localDir \/ localDir' = [localDir EXCEPT ![wfile[w]] = LocalCopy(n)]
    BY <1>3 DEF WriteAt, Allocate
  <2>3. localDir'[wfile[w]] # NoContent
    BY <2>0, <2>2, WrittenValues
  <2>4. RequestInv(w)'
    BY <2>0, <2>1, <2>3 DEF RequestInv
  <2>5. QED
    BY <2>0, <2>2, <2>4, <1>q, <1>c, WrittenValues
<1>4. QED
  BY <1>1, <1>2, <1>3

\* The steps that write rows: Create registers a file that exists, finalize seals one
\* whose successor exists, with the hash of a local file.
LEMMA PathInvRows ==
    ASSUME TypeInv, PathInv, NEW w \in Writers, CreateRegister(w) \/ FinalizeSeal(w)
    PROVE  PathInv' /\ RowsStayRight
<1> USE DEF TypeInv, TypeOK, StateTypeOK, Close, WGoTo, handleVars
<1>0. /\ localDir' = localDir /\ disk' = disk /\ (Begin(w) \/ Serve(w))
      /\ wfile[w] \in Files /\ localDir[wfile[w]] # NoContent
  BY DEF CreateRegister, FinalizeSeal, Begin, Serve, InService, PathInv, RequestInv
<1>1. LocalGrows /\ ContentInv'
  BY <1>0 DEF LocalGrows, PathInv, ContentInv
<1>2. RequestInv(w)'
  BY <1>0 DEF CreateRegister, FinalizeSeal, PathInv, RequestInv
<1>3. ASSUME NEW row \in Row, table' = UpsertFile(wfile[w], row), HashOK(row),
             row.state = "LOCAL_FINALIZED" => ShouldFinalizeOnRelease(wfile[w])
      PROVE  PathInv' /\ RowsStayRight
  <2>1. \A f \in Files : table'[f] = IF f = wfile[w] THEN row ELSE table[f]
    BY <1>3 DEF UpsertFile
  <2>2. ASSUME NEW f \in Files, f = wfile[w]
        PROVE  HashOK(table'[f]) /\ ActiveOK(f)' /\ TipOK(f)'
    <3>1. table'[f] = row /\ localDir'[f] # NoContent
      BY <1>0, <2>1, <2>2
    <3>2. row.state = "LOCAL_FINALIZED" => ShouldFinalizeOnRelease(f)'
      BY <1>1, <1>3, <2>2, ShouldFinalizeStays
    <3>3. QED
      BY <1>3, <3>1, <3>2 DEF ActiveOK, TipOK
  <2>3. QED
    BY <1>0, <1>1, <1>2, <2>1, <2>2, WriterFrame
<1>4. CASE table' = table
  BY <1>0, <1>1, <1>2, <1>4, WriterFrame
<1>5. CASE CreateRegister(w)
  <2>1. ActiveRow \in Row
    BY RowTypes
  <2>2. QED
    BY <1>3, <1>4, <1>5, <2>1, WrittenValues DEF CreateRegister
<1>6. CASE FinalizeSeal(w)
  <2> DEFINE row == [wrow[w] EXCEPT !.state = "LOCAL_FINALIZED", !.sha = wsha[w], !.lastAccess = clock]
  <2>1. row \in Row /\ row.state = "LOCAL_FINALIZED" /\ row.sha = wsha[w]
    BY SealedRow
  <2>2. wsha[w].digestOf.origin = "local" /\ ShouldFinalizeOnRelease(wfile[w])
    BY <1>6 DEF FinalizeSeal, PathInv, RequestInv
  <2>3. HashOK(row)
    BY <2>1, <2>2 DEF HashOK
  <2>4. table' = UpsertFile(wfile[w], row) \/ table' = table
    BY <1>6 DEF FinalizeSeal
  <2> HIDE DEF row
  <2>5. QED
    BY <1>3, <1>4, <2>1, <2>2, <2>3, <2>4
<1>7. QED
  BY <1>5, <1>6

\* The poller replaces a row by a REMOTE one or deletes it, and leaves files alone.
LEMMA PathInvPoll ==
    ASSUME TypeInv, PathInv, PollStep, UNCHANGED writeVars
    PROVE  PathInv' /\ RowsStayRight
<1>0. up /\ up' = up /\ localDir' = localDir
  BY PollWrites
<1>1. LocalGrows /\ ContentInv'
  BY <1>0 DEF LocalGrows, PathInv, ContentInv, writeVars
<1>2. ASSUME NEW f \in Files
      PROVE  \/ table'[f] = table[f]
             \/ HashOK(table'[f]) /\ table'[f].state \in {"NONE", "REMOTE"}
  <2>1. CASE UNCHANGED table
    BY <2>1
  <2>2. ASSUME NEW g \in Files, table' = DeleteFile(g) PROVE <1>2!2
    BY <2>2, WrittenValues DEF DeleteFile, TypeInv, TypeOK, StateTypeOK
  <2>3. ASSUME NEW g \in Files, fetched[g] # 0, table' = UpsertFile(g, RemoteRow(HashIn(fetched, g)))
        PROVE  <1>2!2
    BY <2>3, WrittenValues DEF UpsertFile, HashIn, TypeInv, TypeOK, StateTypeOK
  <2>4. QED
    BY <2>1, <2>2, <2>3, PollWrites
<1>3. \A f \in Files : \/ table'[f] = table[f]
                       \/ HashOK(table'[f]) /\ ActiveOK(f)' /\ TipOK(f)'
  BY <1>2 DEF ActiveOK, TipOK
<1>4. /\ \A f \in Files : HashOK(table'[f]) /\ HashOK(disk'.rows[f])
      /\ RowsStayRight
  BY <1>0, <1>1, <1>3, RowsKept DEF writeVars
<1>5. ASSUME NEW v \in Writers PROVE RequestInv(v)'
  <2>1. wpc' = wpc /\ wfile' = wfile /\ wkind' = wkind /\ wsha' = wsha
    BY DEF writeVars, handleVars
  <2>2. QED
    BY <1>1, <2>1, RequestKept DEF PathInv
<1>6. QED
  BY <1>1, <1>4, <1>5 DEF PathInv

\* After a crash nothing is under way, and files and rows are what they were or what
\* had reached the disk.
LEMMA PathInvCrash ==
    ASSUME TypeInv, PathInv, Crash
    PROVE  PathInv'
<1>1. ContentInv'
  BY DEF Crash, PathInv, ContentInv
<1>2. \A w \in Writers : RequestInv(w)'
  BY DEF Crash, RequestInv
<1>3. \A f \in Files : HashOK(table'[f]) /\ HashOK(disk'.rows[f])
  BY DEF Crash, PathInv
<1>4. QED
  BY <1>1, <1>2, <1>3 DEF Crash, PathInv

\* A mount makes every file it finds ACTIVE, so no sealed row has a file, and drops
\* the ACTIVE rows of files that are gone, if no store call of it fails.
LEMMA PathInvMount ==
    ASSUME TypeInv, PathInv, Mount
    PROVE  /\ PathInv'
           /\ "mount" \in Faults \/ \A f \in Files : ActiveOK(f)' /\ TipOK(f)'
<1> USE DEF TypeInv, TypeOK
<1>1. PICK m \in InitialManifests : \A f \in Files : table'[f] \in MountRows(m, f)
  BY MountTable DEF Mount
<1>2. m \in Manifests
  BY InitialManifestType
<1>3. /\ ~up /\ localDir' = localDir
      /\ UNCHANGED <<wpc, wfile, wkind, wsha, disk>>
  BY DEF Mount, MountState, writeVars, handleVars
<1>4. ContentInv'
  BY <1>3 DEF PathInv, ContentInv
<1>5. ASSUME NEW w \in Writers PROVE RequestInv(w)'
  <2>1. wpc[w] = "closed"
    BY <1>3 DEF InService
  <2>2. QED
    BY <1>3, <2>1 DEF PathInv, RequestInv
<1>6. ASSUME NEW f \in Files
      PROVE  /\ HashOK(table'[f])
             /\ "mount" \in Faults \/ (ActiveOK(f)' /\ TipOK(f)')
  <2> DEFINE new == table'[f]
  <2>0. new \in MountRows(m, f) /\ HashOK(table[f])
    BY <1>1 DEF PathInv
  <2>1. \A row \in WithoutOrphans(f) : HashOK(row)
    BY <2>0, WithoutOrphansCases, WrittenValues
  <2>2. m[f] # 0 => HashIn(m, f).digestOf.origin = "server"
    BY DEF HashIn, Sha256, ServerCopy
  <2> HIDE DEF new
  <2>3. HashOK(new)
    <3>1. CASE new \in WithoutOrphans(f)
      BY <2>1, <3>1
    <3>2. CASE m[f] # 0 /\ new = RemoteRow(HashIn(m, f))
      BY <3>2, WrittenValues DEF HashIn
    <3>3. CASE /\ m[f] # 0 /\ new.state \in {"REMOTE", "CACHED"}
               /\ new.sha = HashIn(m, f)
      BY <2>2, <3>3 DEF HashOK
    <3>4. QED
      BY <1>2, <2>0, <3>1, <3>2, <3>3, MountRowCases
  <2>4. new.state \in {"ACTIVE", "LOCAL_FINALIZED"} => new \in WithoutOrphans(f)
    BY <1>2, <2>0, MountRowCases, WrittenValues
  <2>5. CASE "mount" \notin Faults
    <3>1. ASSUME NEW row \in WithoutOrphans(f)
          PROVE  /\ row.state = "ACTIVE" => localDir[f] # NoContent
                 /\ row.state = "LOCAL_FINALIZED" => localDir[f] = NoContent
      BY <2>5, WithoutOrphansCases, WrittenValues
    <3>2. QED
      BY <1>3, <2>3, <2>4, <3>1 DEF ActiveOK, TipOK, new
  <2>6. QED
    BY <2>3, <2>5 DEF new
<1>7. \A f \in Files : HashOK(disk'.rows[f])
  BY <1>3 DEF PathInv
<1>8. QED
  BY <1>4, <1>5, <1>6, <1>7 DEF PathInv

\* The first mount.
LEMMA PathInvInit == Init => PathInv
<1> SUFFICES ASSUME Init PROVE PathInv
  OBVIOUS
<1> USE DEF Init, StateInit, WriteInit
<1>1. ContentInv
  BY WrittenValues DEF ContentInv
<1>2. \A w \in Writers : RequestInv(w)
  BY DEF RequestInv
<1>3. ASSUME NEW f \in Files PROVE HashOK(table[f])
  <2>1. CASE localDir[f] # NoContent
    BY <2>1, WrittenValues
  <2>2. CASE localDir[f] = NoContent /\ f \in listed
    <3>1. HashIn(manifest, f) = Sha256(ServerCopy(1))
      BY <2>2 DEF HashIn, ServerManifest
    <3>2. table[f] = RemoteRow(Sha256(ServerCopy(1)))
      BY <2>2, <3>1
    <3>3. QED
      BY <3>2, WrittenValues
  <2>3. CASE localDir[f] = NoContent /\ f \notin listed
    BY <2>3, WrittenValues
  <2>4. QED
    BY <2>1, <2>2, <2>3
<1>4. QED
  BY <1>1, <1>2, <1>3 DEF PathInv

\* A writer's step.
LEMMA PathInvWriter ==
    ASSUME TypeInv, PathInv, NEW w \in Writers, Begin(w) \/ Serve(w)
    PROVE  PathInv' /\ RowsStayRight
  BY PathInvQuiet, PathInvFiles, PathInvRows DEF Begin, Serve

\* Every step keeps rows and local files right.
LEMMA PathInvStep == TypeInv /\ PathInv /\ [Next]_vars => PathInv'
<1> SUFFICES ASSUME TypeInv, PathInv, [Next]_vars PROVE PathInv'
  OBVIOUS
<1>1. ASSUME NEW w \in Writers, Begin(w) \/ Serve(w) PROVE PathInv'
  BY <1>1, PathInvWriter
<1>2. CASE UNCHANGED <<table, localDir, up, writeVars>>
  BY <1>2 DEF writeVars, handleVars, PathInv, ContentInv, RequestInv, HashOK,
              ShouldFinalizeOnRelease
<1>3. CASE PollStep /\ UNCHANGED writeVars
  BY <1>3, PathInvPoll
<1>4. CASE StoreSync
  <2>1. disk'.files = disk.files /\ disk'.rows = table
    BY <1>4 DEF StoreSync, TypeInv, TypeOK
  <2>2. UNCHANGED <<table, localDir, wpc, handleVars>>
    BY <1>4 DEF StoreSync, stateVars
  <2>3. ContentInv' /\ \A f \in Files : HashOK(table'[f]) /\ HashOK(disk'.rows[f])
    BY <2>1, <2>2 DEF PathInv, ContentInv
  <2>4. \A w \in Writers : RequestInv(w)'
    BY <2>2 DEF PathInv, RequestInv, handleVars, ShouldFinalizeOnRelease
  <2>5. QED
    BY <2>3, <2>4 DEF PathInv
<1>5. CASE Crash
  BY <1>5, PathInvCrash
<1>6. CASE Mount
  BY <1>6, PathInvMount
<1>7. QED
  BY <1>1, <1>2, <1>3, <1>4, <1>5, <1>6 DEF Next, Environment, Publish, Withdraw, vars, stateVars

\* So they always are.
LEMMA PathInvAlways == Spec => []PathInv
  BY TypeInvAlways, PathInvInit, PathInvStep, PTL DEF Spec

\* What a step that ends in a running daemon leaves: no row is wrong that was right,
\* and a mount without store errors leaves all rows right.
LEMMA RowsAfterStep ==
    ASSUME TypeInv, PathInv, [Next]_vars, up', NEW f \in Files
    PROVE  \/ /\ up
              /\ ActiveOK(f) => ActiveOK(f)'
              /\ TipOK(f) => TipOK(f)' \/ CreatedUnseen(f)
           \/ ~up /\ ("mount" \in Faults \/ (ActiveOK(f)' /\ TipOK(f)'))
           \/ UNCHANGED vars
<1>1. ASSUME NEW w \in Writers, Begin(w) \/ Serve(w) PROVE up /\ RowsStayRight
  BY <1>1, PathInvWriter, WriterActs
<1>2. CASE PollStep /\ UNCHANGED writeVars
  BY <1>2, PathInvPoll, PollWrites DEF RowsStayRight
<1>3. ASSUME UNCHANGED <<table, localDir>>
      PROVE  (ActiveOK(f) => ActiveOK(f)') /\ (TipOK(f) => TipOK(f)')
  BY <1>3 DEF ActiveOK, TipOK, ShouldFinalizeOnRelease
<1>4. CASE UNCHANGED <<table, localDir, up>>
  <2>1. CASE up
    BY <1>3, <1>4, <2>1
  <2>2. CASE ~up
    BY <1>4, <2>2
  <2>3. QED
    BY <2>1, <2>2
<1>5. CASE Mount
  BY <1>5, PathInvMount DEF Mount, MountState
<1>6. ~Crash
  BY DEF Crash
<1>7. QED
  BY <1>1, <1>2, <1>4, <1>5, <1>6
     DEF RowsStayRight, Next, Environment, Publish, Withdraw, StoreSync, vars, stateVars

\* An ACTIVE row has its file: Create makes the file before the row, a mount after a
\* crash that lost files or rows drops the rows of files that are gone unless a store
\* call of it fails, and no step of the running daemon removes a file.
THEOREM ActiveAlwaysHasFile == Spec => ActiveHasFile
<1>1. ASSUME TypeInv, PathInv, [Next]_vars, NEW f \in Files, up', ActiveWithoutFile(f)',
             ~UNCHANGED vars
      PROVE  (up /\ ActiveWithoutFile(f)) \/ (~up /\ "mount" \in Faults)
  BY <1>1, RowsAfterStep DEF ActiveOK, ActiveWithoutFile
<1>2. TypeInv /\ PathInv /\ [Next]_vars =>
        [\A f \in Files : up' /\ ActiveWithoutFile(f)' => \/ up /\ ActiveWithoutFile(f)
                                                          \/ ~up /\ "mount" \in Faults]_vars
  BY <1>1
<1>3. QED
  BY <1>2, TypeInvAlways, PathInvAlways, PTL DEF Spec, ActiveHasFile

\* The hash of a row is of the kind its state calls for, whoever wrote the row last:
\* a request, a poll or a mount.
THEOREM HashAlwaysMatches == Spec => []HashMatchesState
<1>1. PathInv => HashMatchesState
  BY DEF PathInv, HashOK, HashMatchesState
<1>2. QED
  BY <1>1, PathInvAlways, PTL

\* The two ways to say that a file is sealed without its successor.
LEMMA SealedTips ==
    ASSUME NEW f \in Files
    PROVE  SealedTip(f) <=> ~TipOK(f)
  BY BlkAssumption, FilesAssumption DEF SealedTip, TipOK, ShouldFinalizeOnRelease

\* The same, after a step.
LEMMA SealedTipsAfter ==
    ASSUME NEW f \in Files
    PROVE  SealedTip(f)' <=> ~TipOK(f)'
  BY BlkAssumption, FilesAssumption DEF SealedTip, TipOK, ShouldFinalizeOnRelease

\* finalize never seals the file bitcoind is filling: a LOCAL_FINALIZED row with a
\* file belongs to a blk file whose successor exists, also when the row was read
\* before a hash that took its time, and after crashes that lost the successor.  The
\* exceptions are a mount with store errors and a Create that did not see the row.
THEOREM TipAlwaysWritable == Spec => TipStaysWritable
<1>1. ASSUME TypeInv, PathInv, [Next]_vars, NEW f \in Files, up', SealedTip(f)',
             ~UNCHANGED vars
      PROVE  (up /\ (SealedTip(f) \/ CreatedUnseen(f))) \/ (~up /\ "mount" \in Faults)
  BY <1>1, RowsAfterStep, SealedTips, SealedTipsAfter
<1>2. TypeInv /\ PathInv /\ [Next]_vars =>
        [\A f \in Files : up' /\ SealedTip(f)' => \/ up /\ (SealedTip(f) \/ CreatedUnseen(f))
                                                  \/ ~up /\ "mount" \in Faults]_vars
  BY <1>1
<1>3. QED
  BY <1>2, TypeInvAlways, PathInvAlways, PTL DEF Spec, TipStaysWritable

(***************************************************************************)
(* Sealed files.  A request that could still write has a handle or is on   *)
(* its way to one, and SealedFor excludes both; what remains is the poller *)
(* taking the row away.                                                    *)
(***************************************************************************)

\* A writer that finds a file sealed is none that could unseal it or write to it.
LEMMA SealedByWriter ==
    ASSUME TypeInv, PathInv, NEW w \in Writers, Begin(w) \/ Serve(w),
           NEW f \in Files, SealedFor(f), ~CreatedUnseen(f)
    PROVE  SealedFor(f)' /\ localDir'[f] = localDir[f]
<1> USE DEF TypeInv, TypeOK, StateTypeOK, GetHandle, Close, WGoTo, handleVars
<1>0. up /\ up' = up
  BY WriterActs
<1>1. wfile[w] = f => (wkind[w] = "null" /\ wpc[w] = "open") \/ wpc[w] \in {"create", "release", "hash", "seal"}
  BY DEF SealedFor, PathInv, RequestInv
<1> DEFINE Kept == /\ localDir'[f] = localDir[f]
                   /\ table'[f].state = "LOCAL_FINALIZED"
                   /\ wfile'[w] = f => wkind'[w] = "null" \/ wpc'[w] \in {"create", "release", "hash", "seal"}
<1>2. Kept
  <2> USE <1>1, FilesAssumption DEF SealedFor
  <2>1. ASSUME NEW g \in Files, CreateLookup(w, g) PROVE Kept
    BY <2>1 DEF CreateLookup, stateVars
  <2>2. ASSUME NEW g \in Files, OpenWrite(w, g) PROVE Kept
    BY <2>2 DEF OpenWrite, CreateLocal
  <2>3. CASE CreateOpen(w)
    BY <2>3 DEF CreateOpen, CreateLocal, CreatedUnseen
  <2>4. CASE CreateRegister(w)
    BY <2>4 DEF CreateRegister, UpsertFile
  <2>5. CASE MarkOpened(w) \/ WriteCheck(w) \/ Fsync(w) \/ ReleaseNull(w) \/ ReleaseHandle(w)
    BY <2>5 DEF MarkOpened, WriteCheck, Fsync, ReleaseNull, ReleaseHandle, stateVars
  <2>6. CASE WriteAt(w) \/ Allocate(w)
    BY <2>6 DEF WriteAt, Allocate
  <2>7. CASE ReleaseCheck(w) \/ FinalizeHash(w)
    BY <2>7 DEF ReleaseCheck, FinalizeHash, stateVars
  <2>8. CASE FinalizeSeal(w)
    <3> DEFINE row == [wrow[w] EXCEPT !.state = "LOCAL_FINALIZED", !.sha = wsha[w], !.lastAccess = clock]
    <3>1. row.state = "LOCAL_FINALIZED"
      BY SealedRow
    <3>2. table' = UpsertFile(wfile[w], row) \/ table' = table
      BY <2>8 DEF FinalizeSeal
    <3> HIDE DEF row
    <3>3. QED
      BY <2>8, <3>1, <3>2 DEF FinalizeSeal, UpsertFile
  <2>9. QED
    BY <2>1, <2>2, <2>3, <2>4, <2>5, <2>6, <2>7, <2>8 DEF Begin, Serve
<1>3. ASSUME NEW v \in Writers, wfile'[v] = f
      PROVE  wkind'[v] = "null" \/ wpc'[v] \in {"create", "release", "hash", "seal"}
  BY <1>2, <1>3, OthersKept DEF SealedFor
<1>4. QED
  BY <1>0, <1>2, <1>3 DEF SealedFor

\* Any step that finds a file sealed leaves it as it is, but for a Create that did not
\* see its row; only a poll may take the row.
LEMMA SealedStep ==
    ASSUME TypeInv, PathInv, [Next]_vars, NEW f \in Files, SealedFor(f), up', ~CreatedUnseen(f)
    PROVE  localDir'[f] = localDir[f] /\ (SealedFor(f)' \/ (PollStep /\ UNCHANGED writeVars))
<1>1. ASSUME NEW w \in Writers, Begin(w) \/ Serve(w) PROVE SealedFor(f)' /\ localDir'[f] = localDir[f]
  BY <1>1, SealedByWriter
<1>2. CASE PollStep /\ UNCHANGED writeVars
  BY <1>2, PollWrites
<1>3. CASE UNCHANGED <<table, localDir, up, wpc, handleVars>>
  BY <1>3 DEF handleVars, SealedFor
<1>4. ~Crash /\ ~Mount
  BY DEF Crash, Mount, MountState, SealedFor
<1>5. QED
  BY <1>1, <1>2, <1>3, <1>4 DEF Next, Environment, Publish, Withdraw, StoreSync, vars, stateVars, writeVars

\* While the daemon runs, nothing writes to a file that is sealed and has no write
\* handle left, and no request gets one, whatever the server publishes: the only things
\* that can happen to it are that the poller replaces its row and that a Create opens
\* it after two store errors in a row.
SealedUnlessPolled ==
    [][\A f \in Files : SealedFor(f) /\ up' =>
          \/ localDir'[f] = localDir[f] /\ (SealedFor(f)' \/ PollStep)
          \/ CreatedUnseen(f)]_vars

\* For every server, every number of writers and all faults.
THEOREM SealedOnlyPolled == Spec => SealedUnlessPolled
<1>1. TypeInv /\ PathInv /\ [Next]_vars =>
        [\A f \in Files : SealedFor(f) /\ up' =>
              \/ localDir'[f] = localDir[f] /\ (SealedFor(f)' \/ PollStep)
              \/ CreatedUnseen(f)]_vars
  BY SealedStep
<1>2. QED
  BY <1>1, TypeInvAlways, PathInvAlways, PTL DEF Spec, SealedUnlessPolled

(***************************************************************************)
(* Files the server does not touch.  A poll writes to the row of any name  *)
(* that was added or removed, whatever state it is in, and so breaks both  *)
(* the life cycle and the finality of sealed files.  As long as polls find *)
(* no such name, as for the files of a node above what its server lists,   *)
(* both hold.                                                              *)
(***************************************************************************)

NothingPolled == todo = {}

\* Without a diff a poll leaves the table alone.
LEMMA NoRowPolled ==
    ASSUME TypeInv, NothingPolled, PollStep
    PROVE  UNCHANGED <<table, localDir, up>>
  BY PollWrites DEF NothingPolled

\* A server that never publishes anything is one way for polls to find nothing.
LEMMA NothingPublished ==
    ASSUME MaxRevision = 0
    PROVE  Spec => []NothingPolled
<1> DEFINE Empty == /\ server = [f \in Files |-> 0] /\ manifest = server
                    /\ polled = manifest /\ fetched = manifest /\ todo = {}
<1>1. Init => Empty
  BY DEF Init, StateInit, PollInit, ServerManifest
<1>2. TypeInv /\ Empty /\ [Next]_vars => Empty'
  <2> SUFFICES ASSUME TypeInv, Empty, [Next]_vars PROVE Empty'
    OBVIOUS
  <2>0. ServerManifest = manifest
    BY DEF ServerManifest
  <2>1. ASSUME NEW w \in Writers, Begin(w) \/ Serve(w) PROVE Empty'
    BY <2>1, WriterActs DEF pollVars
  <2>2. CASE UNCHANGED <<server, manifest, pollVars>>
    BY <2>2 DEF pollVars
  <2>3. ~PollStep
    BY <2>0 DEF PollStep, PollFetch, PollDone, PollAdd, PollRemove
  <2>4. CASE Mount
    BY <2>0, <2>4 DEF Mount, MountState, InitialManifests, PollRestart
  <2>5. \A f \in Files : ~Publish(f)
    BY DEF Publish
  <2>6. QED
    BY <2>1, <2>2, <2>3, <2>4, <2>5 DEF Next, Environment, Withdraw, StoreSync, Crash, vars, stateVars
<1>3. Empty => NothingPolled
  BY DEF NothingPolled
<1>4. QED
  BY <1>1, <1>2, <1>3, TypeInvAlways, PTL DEF Spec

\* As long as polls find nothing, a sealed file without write handles is final: no
\* request of bitcoind gets another handle and nothing changes the file any more, but
\* for a Create that two store errors in a row kept from seeing the row.
THEOREM SealedWithoutPolls == Spec /\ []NothingPolled => SealedIsFinal
<1>1. TypeInv /\ PathInv /\ NothingPolled /\ [Next]_vars =>
        [\A f \in Files : SealedFor(f) /\ up' =>
              CreatedUnseen(f) \/ (SealedFor(f)' /\ localDir'[f] = localDir[f])]_vars
  <2> SUFFICES ASSUME TypeInv, PathInv, NothingPolled, [Next]_vars,
                      NEW f \in Files, SealedFor(f), up', ~CreatedUnseen(f)
               PROVE  SealedFor(f)' /\ localDir'[f] = localDir[f]
    OBVIOUS
  <2>1. CASE PollStep /\ UNCHANGED writeVars
    BY <2>1, NoRowPolled DEF writeVars, handleVars, SealedFor
  <2>2. CASE ~(PollStep /\ UNCHANGED writeVars)
    BY <2>2, SealedStep
  <2>3. QED
    BY <2>1, <2>2
<1>2. QED
  BY <1>1, TypeInvAlways, PathInvAlways, PTL DEF Spec, SealedIsFinal

\* In particular without a server that publishes anything.
COROLLARY SealedAlwaysFinal ==
    ASSUME MaxRevision = 0
    PROVE  Spec => SealedIsFinal
  BY NothingPublished, SealedWithoutPolls, PTL

\* What the life cycle needs of requests: at most one Create is under way, for a name
\* that has no row yet if the store answers, and a handle belongs to a file that is
\* written or sealed.
CreateInv ==
    /\ \A w \in Writers :
          /\ wpc[w] \in {"create", "register"}
                => table[wfile[w]].state = "NONE" \/ "db" \in Faults
          /\ wkind[w] = "write" \/ wpc[w] = "mark"
                => table[wfile[w]].state \in {"ACTIVE", "LOCAL_FINALIZED"}
    /\ \A v, w \in Writers :
          wpc[v] \in {"create", "register"} /\ wpc[w] \in {"create", "register"} => v = w

\* How a writer's step may change the states: one row becomes ACTIVE or sealed.
StatesKept == \A f \in Files : table'[f].state = table[f].state
OneRegistered ==
    \E f \in Files : /\ table[f].state = "NONE" \/ ("db" \in Faults /\ f \in Created)
                     /\ \A g \in Files : table'[g].state = IF g = f THEN "ACTIVE" ELSE table[g].state
OneSealed ==
    \E f \in Files : /\ table[f].state = "ACTIVE"
                     /\ \A g \in Files : table'[g].state = IF g = f THEN "LOCAL_FINALIZED"
                                                           ELSE table[g].state

\* Create registers a name whose row it did not find and finalize seals an ACTIVE one, or one that
\* another release has sealed meanwhile.
LEMMA WriterMovesOne ==
    ASSUME TypeInv, PathInv, CreateInv, NEW w \in Writers, Begin(w) \/ Serve(w)
    PROVE  StatesKept \/ (OneRegistered /\ wpc[w] = "register") \/ OneSealed
<1> USE DEF TypeInv, TypeOK, StateTypeOK
<1>1. CASE CreateRegister(w)
  <2>1. wfile[w] \in Files /\ (table[wfile[w]].state = "NONE" \/ "db" \in Faults)
    BY <1>1 DEF CreateRegister, InService, CreateInv
  <2>2. table' = UpsertFile(wfile[w], ActiveRow) \/ table' = table
    BY <1>1 DEF CreateRegister
  <2>3. QED
    BY <1>1, <2>1, <2>2, WrittenValues
       DEF CreateRegister, UpsertFile, StatesKept, OneRegistered, Created
<1>2. CASE FinalizeSeal(w)
  <2> DEFINE row == [wrow[w] EXCEPT !.state = "LOCAL_FINALIZED", !.sha = wsha[w], !.lastAccess = clock]
  <2>1. /\ wfile[w] \in Files
        /\ table[wfile[w]].state \in {"ACTIVE", "LOCAL_FINALIZED"}
    BY <1>2 DEF FinalizeSeal, InService, CreateInv, PathInv, RequestInv
  <2>2. table' = UpsertFile(wfile[w], row) \/ table' = table
    BY <1>2 DEF FinalizeSeal
  <2>3. row.state = "LOCAL_FINALIZED"
    BY SealedRow
  <2> HIDE DEF row
  <2>4. QED
    BY <2>1, <2>2, <2>3 DEF UpsertFile, StatesKept, OneSealed
<1>3. CASE ~CreateRegister(w) /\ ~FinalizeSeal(w)
  <2>1. table' = table
    BY <1>3 DEF Begin, Serve, CreateLookup, OpenWrite, CreateOpen, MarkOpened, WriteCheck, WriteAt,
       Allocate, Fsync, ReleaseNull, ReleaseHandle, ReleaseCheck, FinalizeHash, stateVars
  <2>2. QED
    BY <2>1 DEF StatesKept
<1>4. QED
  BY <1>1, <1>2, <1>3

\* The part of CreateInv about the states of files, after a step of a writer.
LEMMA CreateInvWriter ==
    ASSUME TypeInv, PathInv, CreateInv, NEW w \in Writers, Begin(w) \/ Serve(w)
    PROVE  CreateInv'
<1> USE DEF TypeInv, TypeOK, StateTypeOK, GetHandle, Close, WGoTo, handleVars
<1> DEFINE Creates == wpc'[w] \in {"create", "register"} =>
                        /\ table'[wfile'[w]].state = "NONE" \/ "db" \in Faults
                        /\ \A v \in Writers \ {w} : wpc[v] \notin {"create", "register"}
           Holds == wkind'[w] = "write" \/ wpc'[w] = "mark" =>
                        table'[wfile'[w]].state \in {"ACTIVE", "LOCAL_FINALIZED"}
<1>1. Creates
  <2>1. ASSUME NEW f \in Files, CreateLookup(w, f) PROVE Creates
    BY <2>1 DEF CreateLookup, HasRow, stateVars
  <2>2. ASSUME NEW f \in Files, OpenWrite(w, f) PROVE Creates
    BY <2>2 DEF OpenWrite
  <2>3. CASE CreateOpen(w)
    BY <2>3 DEF CreateOpen, CreateInv
  <2>4. CASE CreateRegister(w) \/ MarkOpened(w)
    BY <2>4 DEF CreateRegister, MarkOpened
  <2>5. CASE WriteCheck(w) \/ WriteAt(w) \/ Allocate(w) \/ Fsync(w)
    BY <2>5 DEF WriteCheck, WriteAt, Allocate, Fsync
  <2>6. CASE ReleaseNull(w) \/ ReleaseHandle(w) \/ ReleaseCheck(w)
    BY <2>6 DEF ReleaseNull, ReleaseHandle, ReleaseCheck
  <2>7. CASE FinalizeHash(w) \/ FinalizeSeal(w)
    BY <2>7 DEF FinalizeHash, FinalizeSeal
  <2>8. QED
    BY <2>1, <2>2, <2>3, <2>4, <2>5, <2>6, <2>7 DEF Begin, Serve
<1>2. Holds
  <2> USE DEF CreateInv
  <2>1. ASSUME NEW f \in Files, CreateLookup(w, f) PROVE Holds
    BY <2>1 DEF CreateLookup
  <2>2. ASSUME NEW f \in Files, OpenWrite(w, f) PROVE Holds
    BY <2>2 DEF OpenWrite
  <2>3. CASE CreateOpen(w)
    BY <2>3 DEF CreateOpen, PathInv, RequestInv
  <2>4. CASE CreateRegister(w)
    <3>1. wfile[w] \in Files /\ wkind[w] # "write"
      BY <2>4 DEF CreateRegister, InService, PathInv, RequestInv
    <3>2. QED
      BY <2>4, <3>1, WrittenValues DEF CreateRegister, UpsertFile
  <2>5. CASE MarkOpened(w) \/ WriteCheck(w) \/ WriteAt(w)
    BY <2>5 DEF MarkOpened, WriteCheck, WriteAt, stateVars, PathInv, RequestInv
  <2>6. CASE Allocate(w) \/ Fsync(w)
    BY <2>6 DEF Allocate, Fsync, stateVars
  <2>7. CASE ReleaseNull(w) \/ ReleaseHandle(w) \/ ReleaseCheck(w)
    BY <2>7 DEF ReleaseNull, ReleaseHandle, ReleaseCheck, stateVars
  <2>8. CASE FinalizeHash(w) \/ FinalizeSeal(w)
    BY <2>8 DEF FinalizeHash, FinalizeSeal, stateVars
  <2>9. QED
    BY <2>1, <2>2, <2>3, <2>4, <2>5, <2>6, <2>7, <2>8 DEF Begin, Serve
<1>3. ASSUME NEW v \in Writers \ {w}
      PROVE  /\ wpc'[v] \in {"create", "register"}
                   => table'[wfile'[v]].state = "NONE" \/ "db" \in Faults
             /\ wkind'[v] = "write" \/ wpc'[v] = "mark"
                   => table'[wfile'[v]].state \in {"ACTIVE", "LOCAL_FINALIZED"}
             /\ wpc'[v] \in {"create", "register"} => wpc[v] \in {"create", "register"}
  <2>1. wpc'[v] = wpc[v] /\ wfile'[v] = wfile[v] /\ wkind'[v] = wkind[v]
    BY OthersKept
  <2>2. wpc[v] \in {"create", "register", "mark"} \/ wkind[v] = "write" => wfile[v] \in Files
    BY DEF InService, PathInv, RequestInv
  <2>3. wpc[w] = "register" => wpc[v] \notin {"create", "register"}
    BY DEF CreateInv
  <2>4. QED
    BY <2>1, <2>2, <2>3, WriterMovesOne DEF CreateInv, StatesKept, OneRegistered, OneSealed
<1>4. \A v, u \in Writers :
         wpc'[v] \in {"create", "register"} /\ wpc'[u] \in {"create", "register"} => v = u
  BY <1>1, <1>3 DEF CreateInv
<1> HIDE DEF Creates, Holds
<1>5. \A v \in Writers : /\ wpc'[v] \in {"create", "register"}
                               => table'[wfile'[v]].state = "NONE" \/ "db" \in Faults
                         /\ wkind'[v] = "write" \/ wpc'[v] = "mark"
                               => table'[wfile'[v]].state \in {"ACTIVE", "LOCAL_FINALIZED"}
  BY <1>1, <1>2, <1>3 DEF Creates, Holds
<1>6. QED
  BY <1>4, <1>5 DEF CreateInv

\* Every step keeps it, as long as polls find nothing.
LEMMA CreateInvStep ==
    TypeInv /\ PathInv /\ CreateInv /\ NothingPolled /\ [Next]_vars => CreateInv'
<1> SUFFICES ASSUME TypeInv, PathInv, CreateInv, NothingPolled, [Next]_vars PROVE CreateInv'
  OBVIOUS
<1>1. ASSUME NEW w \in Writers, Begin(w) \/ Serve(w) PROVE CreateInv'
  BY <1>1, CreateInvWriter
<1>2. CASE UNCHANGED <<table, wpc, handleVars>>
  BY <1>2 DEF handleVars, CreateInv
<1>3. CASE PollStep /\ UNCHANGED writeVars
  BY <1>2, <1>3, NoRowPolled DEF writeVars
<1>4. CASE Crash
  BY <1>4 DEF Crash, CreateInv
<1>5. CASE Mount
  <2>1. \A w \in Writers : wpc[w] = "closed" /\ wkind[w] # "write"
    BY <1>5 DEF Mount, MountState, TypeInv, InService, PathInv, RequestInv
  <2>2. UNCHANGED <<wpc, wkind>>
    BY <1>5 DEF Mount, writeVars, handleVars
  <2>3. QED
    BY <2>1, <2>2 DEF CreateInv
<1>6. QED
  BY <1>1, <1>2, <1>3, <1>4, <1>5 DEF Next, Environment, Publish, Withdraw, StoreSync, vars, stateVars, writeVars

\* So it holds for as long as that.
LEMMA CreateInvAlways == Spec /\ []NothingPolled => []CreateInv
<1>1. Init => CreateInv
  BY DEF Init, WriteInit, CreateInv
<1>2. QED
  BY <1>1, TypeInvAlways, PathInvAlways, CreateInvStep, PTL DEF Spec

(***************************************************************************)
(* The refinement.                                                         *)
(***************************************************************************)

states == [f \in Files |-> table[f].state]
synced == [f \in Files |-> disk.rows[f].state]
mapped == <<states, synced, up>>

\* A registration or a seal is a step of the life cycle.
LEMMA MoveIsStep ==
    ASSUME StatesKept \/ OneRegistered \/ OneSealed, up = TRUE, UNCHANGED up, UNCHANGED synced
    PROVE  [Lifecycle!Next]_mapped
<1>1. CASE StatesKept
  BY <1>1 DEF StatesKept, states, mapped
<1>2. CASE OneRegistered
  <2>1. PICK f \in Files :
            /\ table[f].state = "NONE" \/ ("db" \in Faults /\ f \in Created)
            /\ \A g \in Files : table'[g].state = IF g = f THEN "ACTIVE" ELSE table[g].state
    BY <1>2 DEF OneRegistered
  <2>2. /\ states' = [states EXCEPT ![f] = "ACTIVE"]
        /\ states[f] = "NONE" \/ ("db" \in Faults /\ f \in Created)
    BY <2>1 DEF states
  <2>3. Lifecycle!Register(f)
    BY <2>2 DEF Lifecycle!Register, states
  <2>4. QED
    BY <2>3 DEF Lifecycle!Next, synced
<1>3. CASE OneSealed
  <2>1. PICK f \in Files :
            /\ table[f].state = "ACTIVE"
            /\ \A g \in Files : table'[g].state = IF g = f THEN "LOCAL_FINALIZED" ELSE table[g].state
    BY <1>3 DEF OneSealed
  <2>2. states' = [states EXCEPT ![f] = "LOCAL_FINALIZED"] /\ states[f] = "ACTIVE"
    BY <2>1 DEF states
  <2>3. /\ "finalize" \in Lifecycle!Events /\ "LOCAL_FINALIZED" \in Lifecycle!FileStates
        /\ <<"ACTIVE", "finalize", "LOCAL_FINALIZED">> \in Lifecycle!Transition
    BY DEF Lifecycle!Events, Lifecycle!FileStates, Lifecycle!Transition
  <2>4. Lifecycle!Fire(f)
    BY <2>2, <2>3 DEF Lifecycle!Fire, states
  <2>5. QED
    BY <2>4 DEF Lifecycle!Next, synced
<1>4. QED
  BY <1>1, <1>2, <1>3

\* A mount re-classifies rows only as the life cycle allows.
LEMMA MountIsRemount ==
    ASSUME TypeInv, MountState, UNCHANGED synced
    PROVE  Lifecycle!Next
<1> USE DEF TypeInv, TypeOK
<1>1. PICK m \in InitialManifests : \A f \in Files : table'[f] \in MountRows(m, f)
  BY MountTable
<1>2. m \in Manifests
  BY InitialManifestType
<1>3. ASSUME NEW f \in Files
      PROVE  /\ states'[f] \in Lifecycle!AfterRemount(states[f])
             /\ states'[f] \in Lifecycle!RowStates
  <2> DEFINE new == table'[f]
  <2>1. states'[f] = new.state /\ states[f] = table[f].state /\ new \in MountRows(m, f)
    BY <1>1 DEF states
  <2> HIDE DEF new
  <2>2. new.state \in RowStates
    BY <1>2, <2>1, MountRowCases DEF Row
  <2>3. \A row \in WithoutOrphans(f) :
            \/ row.state \in {"ACTIVE", table[f].state}
            \/ row.state = "NONE" /\ table[f].state = "ACTIVE"
    BY WithoutOrphansCases, WrittenValues
  <2>4. \/ new.state \in {"ACTIVE", table[f].state}
        \/ new.state \in {"NONE", "REMOTE"} /\ table[f].state \in {"ACTIVE", "NONE"}
        \/ new.state = "REMOTE" /\ "mount" \in Faults
    BY <1>2, <2>1, <2>3, MountRowCases, WrittenValues
  <2>5. QED
    BY <2>1, <2>2, <2>4 DEF Lifecycle!AfterRemount, Lifecycle!RowStates, Lifecycle!FileStates,
                            RowStates, FileStates
<1>4. states' \in [Files -> Lifecycle!RowStates]
  BY <1>3 DEF states
<1>5. Lifecycle!Remount
  BY <1>3, <1>4 DEF Lifecycle!Remount, states, MountState
<1>6. QED
  BY <1>5 DEF Lifecycle!Next, synced

\* Every step of the write path is a step of the life cycle or leaves all states alone.
LEMMA LifecycleStep ==
    TypeInv /\ PathInv /\ CreateInv /\ NothingPolled /\ [Next]_vars => [Lifecycle!Next]_mapped
<1> SUFFICES ASSUME TypeInv, PathInv, CreateInv, NothingPolled, [Next]_vars
             PROVE  [Lifecycle!Next]_mapped
  OBVIOUS
<1>0. up \in BOOLEAN
  BY DEF TypeInv, TypeOK, StateTypeOK
<1>1. ASSUME NEW w \in Writers, Begin(w) \/ Serve(w) PROVE [Lifecycle!Next]_mapped
  <2>1. UNCHANGED synced
    BY <1>1, WriterActs DEF synced
  <2>2. QED
    BY <1>0, <1>1, <2>1, WriterActs, WriterMovesOne, MoveIsStep
<1>2. CASE UNCHANGED <<table, up, disk>>
  BY <1>2 DEF states, synced, mapped
<1>3. CASE PollStep /\ UNCHANGED writeVars
  BY <1>2, <1>3, NoRowPolled DEF writeVars
<1>4. CASE StoreSync
  <2>1. states' = states /\ synced' = states' /\ up' = up
    BY <1>4 DEF StoreSync, stateVars, states, synced, TypeInv, TypeOK
  <2>2. QED
    BY <2>1 DEF Lifecycle!Next, Lifecycle!Sync, states, synced
<1>5. CASE Crash
  <2>1. states' \in {states, synced} /\ UNCHANGED synced
    BY <1>5 DEF Crash, states, synced
  <2>2. Lifecycle!Stop
    BY <1>5, <2>1 DEF Crash, Lifecycle!Stop, states, synced
  <2>3. QED
    BY <2>1, <2>2 DEF Lifecycle!Next, synced
<1>6. CASE Mount
  <2>1. UNCHANGED synced
    BY <1>6 DEF Mount, writeVars, synced
  <2>2. QED
    BY <1>6, <2>1, MountIsRemount DEF Mount
<1>7. QED
  BY <1>1, <1>2, <1>3, <1>4, <1>5, <1>6
     DEF Next, Environment, Publish, Withdraw, vars, stateVars, writeVars

\* As long as polls find nothing, creating, writing, releasing and sealing files, with
\* crashes, lost files, lost rows and mounts, implement the abstract life cycle: a row
\* changes state only by an event internal/state allows, when a mount finds files on
\* disk, or where the code takes a store error for a missing row.
THEOREM LifecycleWithoutPolls == Spec /\ []NothingPolled => FollowsLifecycle
<1>1. Init => Lifecycle!Init
  <2> SUFFICES ASSUME Init
               PROVE  /\ states \in [Files -> {"NONE", "REMOTE", "ACTIVE"}]
                      /\ synced = states /\ up = TRUE
    BY DEF Lifecycle!Init, states, synced
  <2>1. \A f \in Files : table[f].state \in {"NONE", "REMOTE", "ACTIVE"}
    BY DEF Init, StateInit, ActiveRow, RemoteRow, NoRow
  <2>2. QED
    BY <2>1 DEF states, synced, Init, StateInit, WriteInit
<1>2. QED
  BY <1>1, LifecycleStep, TypeInvAlways, PathInvAlways, CreateInvAlways, PTL
     DEF Spec, FollowsLifecycle, Lifecycle!Spec, states, synced, mapped

\* In particular without a server that publishes anything.
COROLLARY WritesImplementLifecycle ==
    ASSUME MaxRevision = 0
    PROVE  Spec => FollowsLifecycle
  BY NothingPublished, LifecycleWithoutPolls, PTL
=============================================================================
