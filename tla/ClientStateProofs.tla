-------------------------- MODULE ClientStateProofs --------------------------
(***************************************************************************)
(* What the proofs about the daemon's components need of the state they    *)
(* share: the types of the rows, hashes and contents the store, the mount  *)
(* and the server put there, and what a mount makes of a row.              *)
(***************************************************************************)
EXTENDS ClientState, TLAPS

\* The contents, hashes and rows the actions put into the state are of their types.
LEMMA ValueTypes ==
    /\ NoContent \in Content /\ Corrupt \in Content
    /\ \A v \in Nat : ServerCopy(v) \in Content /\ LocalCopy(v) \in Content
    /\ NoHash \in Digests
    /\ \A c \in Content : Sha256(c) \in Digests
    /\ NoRow \in Row
  BY DEF NoContent, Corrupt, ServerCopy, LocalCopy, NoHash, Digests, Sha256, NoRow, Row,
         RowStates, Content

\* HashIn returns a hash, from any manifest.
LEMMA HashInType ==
    ASSUME NEW m \in Manifests, NEW f \in Files
    PROVE  HashIn(m, f) \in Digests
  BY ValueTypes DEF HashIn, Manifests

\* The rows that are written are rows.
LEMMA RowTypes ==
    ASSUME clock \in Nat
    PROVE  /\ ActiveRow \in Row
           /\ \A h \in Digests : RemoteRow(h) \in Row /\ CachedRow(h) \in Row
  BY ValueTypes DEF ActiveRow, RemoteRow, CachedRow, Row, RowStates, FileStates

\* The store's writes leave rows in the table.
LEMMA StoreTypes ==
    ASSUME StateTypeOK, NEW f \in Files
    PROVE  /\ \A row \in Row : UpsertFile(f, row) \in [Files -> Row]
           /\ \A s \in RowStates : UpdateState(f, s) \in [Files -> Row]
           /\ UpdateLastAccess(f) \in [Files -> Row]
           /\ DeleteFile(f) \in [Files -> Row]
<1>1. table[f] \in Row /\ clock \in Nat
  BY DEF StateTypeOK
<1>2. \A s \in RowStates : [table[f] EXCEPT !.state = s] \in Row
  BY <1>1 DEF Row
<1>3. [table[f] EXCEPT !.lastAccess = clock] \in Row
  BY <1>1 DEF Row
<1>4. \A row \in Row : [table EXCEPT ![f] = row] \in [Files -> Row]
  BY DEF StateTypeOK
<1>5. \A s \in RowStates : UpdateState(f, s) \in [Files -> Row]
  BY <1>2, <1>4 DEF UpdateState, StateTypeOK
<1>6. UpdateLastAccess(f) \in [Files -> Row]
  BY <1>3, <1>4 DEF UpdateLastAccess, StateTypeOK
<1>7. QED
  BY <1>4, <1>5, <1>6, ValueTypes DEF UpsertFile, DeleteFile

\* The rows a mount takes into the manifest loop: an ACTIVE one for a file found on
\* disk, none for an ACTIVE row whose file is gone, the stored one otherwise or when
\* a store call fails.
LEMMA WithoutOrphansCases ==
    ASSUME NEW f \in Files, NEW row \in WithoutOrphans(f)
    PROVE  \/ row = ActiveRow /\ localDir[f] # NoContent
           \/ row = NoRow /\ localDir[f] = NoContent /\ table[f].state = "ACTIVE"
           \/ row = table[f] /\ localDir[f] = NoContent /\ table[f].state # "ACTIVE"
           \/ row = table[f] /\ "mount" \in Faults
<1>1. ASSUME NEW r \in Scanned(f)
      PROVE  \/ r = ActiveRow /\ localDir[f] # NoContent
             \/ r = table[f] /\ localDir[f] = NoContent
             \/ r = table[f] /\ localDir[f] # NoContent /\ "mount" \in Faults
  BY <1>1 DEF Scanned, ScanLocalFiles, WhenMountFails
<1>2. ActiveRow.state = "ACTIVE"
  BY DEF ActiveRow
<1>3. CASE row \in WhenMountFails(Scanned(f))
  BY <1>1, <1>3 DEF WhenMountFails
<1>4. CASE row \notin WhenMountFails(Scanned(f))
  <2>1. PICK r \in Scanned(f) :
            row = IF r.state = "ACTIVE" /\ localDir[f] = NoContent THEN NoRow ELSE r
    BY <1>4 DEF WithoutOrphans
  <2>2. QED
    BY <1>1, <1>2, <2>1
<1>5. QED
  BY <1>3, <1>4

\* What a mount leaves: a row it took into the manifest loop; REMOTE with the hash of
\* the manifest for a name without a row or with one that could not be read; or a
\* REMOTE or CACHED row with its hash brought up to date.
LEMMA MountRowCases ==
    ASSUME StateTypeOK, NEW m \in Manifests, NEW f \in Files, NEW new \in MountRows(m, f)
    PROVE  /\ new \in Row
           /\ \/ new \in WithoutOrphans(f)
              \/ /\ m[f] # 0 /\ new = RemoteRow(HashIn(m, f))
                 /\ \/ "mount" \in Faults
                    \/ \E row \in WithoutOrphans(f) : row.state = "NONE"
              \/ /\ m[f] # 0 /\ new.sha = HashIn(m, f)
                 /\ \E row \in WithoutOrphans(f) :
                       row.state \in {"REMOTE", "CACHED"} /\ new.state = row.state
<1>1. table[f] \in Row /\ clock \in Nat /\ HashIn(m, f) \in Digests
  BY HashInType DEF StateTypeOK
<1>2. ActiveRow \in Row /\ RemoteRow(HashIn(m, f)) \in Row
  BY <1>1, RowTypes
<1>3. \A row \in WithoutOrphans(f) : row \in Row
  BY <1>1, <1>2, ValueTypes, WithoutOrphansCases
<1>4. \A row \in Row :
         /\ [row EXCEPT !.sha = HashIn(m, f), !.lastAccess = clock] \in Row
         /\ [row EXCEPT !.sha = HashIn(m, f), !.lastAccess = clock].state = row.state
         /\ [row EXCEPT !.sha = HashIn(m, f), !.lastAccess = clock].sha = HashIn(m, f)
  BY <1>1 DEF Row
<1>5. CASE \E row \in WithoutOrphans(f) : new = Announced(m, f, row)
  <2>1. PICK row \in WithoutOrphans(f) : new = Announced(m, f, row)
    BY <1>5
  <2>2. \/ new = row
        \/ m[f] # 0 /\ row.state = "NONE" /\ new = RemoteRow(HashIn(m, f))
        \/ /\ m[f] # 0 /\ row.state \in {"REMOTE", "CACHED"}
           /\ new = [row EXCEPT !.sha = HashIn(m, f), !.lastAccess = clock]
    BY <2>1 DEF Announced
  <2>3. QED
    BY <1>2, <1>3, <1>4, <2>2
<1>6. CASE new \in WithoutOrphans(f)
  BY <1>3, <1>6
<1>7. CASE m[f] # 0 /\ "mount" \in Faults /\ new = RemoteRow(HashIn(m, f))
  BY <1>2, <1>7
<1>8. QED
  BY <1>5, <1>6, <1>7 DEF MountRows, WhenMountFails

\* The row a mount leaves for each file.
LEMMA MountTable ==
    ASSUME MountState
    PROVE  \E m \in InitialManifests :
              /\ manifest' = m
              /\ DOMAIN table' = Files
              /\ table' = [f \in Files |-> table'[f]]
              /\ \A f \in Files : table'[f] \in MountRows(m, f)
  BY DEF MountState

\* The manifests a mount may load.
LEMMA InitialManifestType ==
    ASSUME StateTypeOK
    PROVE  ServerManifest \in Manifests /\ InitialManifests \subseteq Manifests
  BY DEF StateTypeOK, ServerManifest, Manifests, InitialManifests

\* The first mount, every later one and the server keep the types.
LEMMA StateTypes ==
    /\ StateInit => StateTypeOK
    /\ StateTypeOK /\ MountState => StateTypeOK'
    /\ StateTypeOK => \A f \in Files : Publish(f) \/ Withdraw(f) => StateTypeOK'
<1>1. ASSUME StateInit PROVE StateTypeOK
  <2> USE <1>1 DEF StateInit
  <2>1. server \in [Files -> Nat]
    BY BoundsAssumption
  <2>2. ServerManifest \in Manifests
    BY <2>1 DEF ServerManifest, Manifests
  <2>3. \A f \in Files : HashIn(manifest, f) \in Digests
    BY <2>2, HashInType
  <2>4. localDir \in [Files -> Content]
    BY ValueTypes
  <2>5. table \in [Files -> Row]
    BY <2>3, ValueTypes, RowTypes
  <2>6. QED
    BY <2>1, <2>2, <2>4, <2>5, ValueTypes DEF StateTypeOK
<1>2. ASSUME StateTypeOK, MountState PROVE StateTypeOK'
  <2>1. PICK m \in InitialManifests :
            /\ manifest' = m /\ table' = [f \in Files |-> table'[f]]
            /\ \A f \in Files : table'[f] \in MountRows(m, f)
    BY <1>2, MountTable
  <2>2. m \in Manifests
    BY <1>2, InitialManifestType
  <2>3. table' \in [Files -> Row]
    BY <1>2, <2>1, <2>2, MountRowCases
  <2>4. QED
    BY <1>2, <2>1, <2>2, <2>3 DEF MountState, StateTypeOK
<1>3. ASSUME StateTypeOK, NEW f \in Files, Publish(f) \/ Withdraw(f) PROVE StateTypeOK'
  BY <1>3 DEF Publish, Withdraw, StateTypeOK
<1>4. QED
  BY <1>1, <1>2, <1>3
=============================================================================
