---------------------------- MODULE ClientState ----------------------------
(***************************************************************************)
(* The state the parts of the slimnode daemon share: the SQLite table of   *)
(* file states, the cache and local directories, the manifest, and the     *)
(* archive server seen from the client.  Every component module EXTENDS    *)
(* this one and adds the state only it touches.                            *)
(***************************************************************************)
EXTENDS Naturals, FiniteSets, Sequences, FileState

CONSTANTS
    Files,          \* names of blk*.dat and rev*.dat files
    NoFile,         \* no name
    LocalFiles,     \* bound: the files bitcoind may have written before the first mount
    MaxRevision,    \* bound: revisions the server publishes of one file
    MaxClock,       \* bound: distinct seconds of last_access
    Faults          \* the faults a run allows, a subset of FaultKinds

\* db: a store call of the running daemon returns an error; mount: one made while
\* mounting does; net: a request fails; corrupt: a download arrives damaged; io: a
\* file operation fails; crash: the process dies; loss, rollback: the machine dies
\* with it, and local files or rows of the store are as they last reached the disk.
FaultKinds == {"db", "mount", "net", "corrupt", "io", "crash", "loss", "rollback"}

ASSUME FilesAssumption == IsFiniteSet(Files) /\ NoFile \notin Files /\ LocalFiles \subseteq Files
ASSUME BoundsAssumption == MaxRevision \in Nat /\ MaxClock \in Nat
ASSUME FaultsAssumption == Faults \subseteq FaultKinds

VARIABLES
    table,          \* the file_states table, one row per name
    cacheDir,       \* cacheDir[f]: content of f in the cache directory
    localDir,       \* localDir[f]: content of f in the local directory
    server,         \* server[f]: latest revision of f the server has published
    listed,         \* the names in the server's current manifest
    manifest,       \* the manifest of the last mount (also manifest.json)
    clock,          \* wall clock, in seconds
    up              \* is the daemon running?

stateVars == <<table, cacheDir, localDir, server, listed, manifest, clock, up>>

-----------------------------------------------------------------------------
(* File contents are opaque; what matters is where they came from and which *)
(* revision they are.  SHA-256 is taken to be free of collisions.           *)

Content == [origin : {"none", "server", "local", "corrupt"}, rev : Nat]
NoContent == [origin |-> "none", rev |-> 0]
Corrupt == [origin |-> "corrupt", rev |-> 0]
ServerCopy(v) == [origin |-> "server", rev |-> v]
LocalCopy(v) == [origin |-> "local", rev |-> v]

Sha256(c) == [digestOf |-> c]
NoHash == [digestOf |-> NoContent]          \* the empty string
Digests == [digestOf : Content]

\* Manifests map a name to the revision they list; 0: not listed.
Manifests == [Files -> Nat]
ServerManifest == [f \in Files |-> IF f \in listed THEN server[f] ELSE 0]
HashIn(m, f) == IF m[f] = 0 THEN NoHash ELSE Sha256(ServerCopy(m[f]))

-----------------------------------------------------------------------------
(* The store.  Each write is one BEGIN IMMEDIATE transaction on the single  *)
(* write connection, so each is one atomic change of the table.             *)

Row == [state : RowStates, source : {"server", "local"}, sha : Digests, lastAccess : Nat]
NoRow == [state |-> "NONE", source |-> "server", sha |-> NoHash, lastAccess |-> 0]

RemoteRow(sha) ==
    [state |-> "REMOTE", source |-> "server", sha |-> sha, lastAccess |-> clock]
CachedRow(sha) ==
    [state |-> "CACHED", source |-> "server", sha |-> sha, lastAccess |-> clock]
ActiveRow ==
    [state |-> "ACTIVE", source |-> "local", sha |-> NoHash, lastAccess |-> clock]

HasRow(f) == table[f].state # "NONE"

UpsertFile(f, row) == [table EXCEPT ![f] = row]

\* An UPDATE whose WHERE clause finds no row changes nothing.
UpdateState(f, s) ==
    IF HasRow(f) THEN [table EXCEPT ![f].state = s] ELSE table
UpdateLastAccess(f) ==
    IF HasRow(f) THEN [table EXCEPT ![f].lastAccess = clock] ELSE table

DeleteFile(f) == [table EXCEPT ![f] = NoRow]

CachedRows == {f \in Files : table[f].state = "CACHED"}

\* SELECT ... WHERE state = 'CACHED' ORDER BY last_access ASC LIMIT n: the
\* results SQLite may return, in any order among equal timestamps.
ListCachedByLRU(n) ==
    { s \in UNION {[1..k -> CachedRows] : k \in 0..Cardinality(CachedRows)} :
        /\ Len(s) = IF n < Cardinality(CachedRows) THEN n ELSE Cardinality(CachedRows)
        /\ \A i, j \in DOMAIN s :
              i < j => /\ s[i] # s[j]
                       /\ table[s[i]].lastAccess <= table[s[j]].lastAccess
        /\ \A f \in CachedRows, i \in DOMAIN s :
              \/ \E j \in DOMAIN s : s[j] = f
              \/ table[s[i]].lastAccess <= table[f].lastAccess }

-----------------------------------------------------------------------------
(* Mounting: MountCmd.Execute before it starts the goroutines.  It drops    *)
(* the error of every store call and goes on, so what a mount makes of a    *)
(* row is a set of rows, with more than one element only when calls fail.   *)

\* The rows that are left when a store call of the mount fails.
WhenMountFails(rows) == IF "mount" \in Faults THEN rows ELSE {}

\* The block files in the local directory, each of which the scan reports as ACTIVE.
ScanLocalFiles == {f \in Files : localDir[f] # NoContent}

\* Faulty variant of Scanned: the merge keeps the hash of the stored row.
ScannedKeepingHash(f) ==
    IF f \in ScanLocalFiles THEN {[ActiveRow EXCEPT !.sha = table[f].sha]} ELSE {table[f]}

\* The merge takes the scanned row over the stored one, which stays when the new
\* one cannot be written.
Scanned(f) ==
    IF f \in ScanLocalFiles THEN {ActiveRow} \cup WhenMountFails({table[f]}) ELSE {table[f]}

\* Faulty variant of WithoutOrphans: rows of lost files are kept.
WithOrphans(f) == Scanned(f)

\* ACTIVE rows whose file is gone are deleted, unless they cannot be listed or one
\* of them cannot be deleted.
WithoutOrphans(f) ==
    { IF row.state = "ACTIVE" /\ localDir[f] = NoContent THEN NoRow ELSE row : row \in Scanned(f) }
        \cup WhenMountFails(Scanned(f))

\* What the manifest loop makes of a row: it registers unknown names as REMOTE and
\* brings the hash of REMOTE and CACHED rows up to date; the cached file itself is
\* left alone.
Announced(m, f, row) ==
    CASE m[f] = 0 -> row
      [] m[f] # 0 /\ row.state = "NONE" -> RemoteRow(HashIn(m, f))
      [] m[f] # 0 /\ row.state \in {"REMOTE", "CACHED"} /\ row.sha # HashIn(m, f) ->
            [row EXCEPT !.sha = HashIn(m, f), !.lastAccess = clock]
      [] OTHER -> row

\* A row that cannot be read counts as none: REMOTE is written over it.  One that
\* cannot be written stays as it was.
MountRows(m, f) ==
    {Announced(m, f, row) : row \in WithoutOrphans(f)}
        \cup WhenMountFails(WithoutOrphans(f))
        \cup (IF m[f] # 0 THEN WhenMountFails({RemoteRow(HashIn(m, f))}) ELSE {})

\* loadInitialManifest: the server's manifest, or manifest.json when the
\* request fails.
InitialManifests ==
    {ServerManifest} \cup (IF "net" \in Faults THEN {manifest} ELSE {})

MountState ==
    /\ ~up
    /\ up' = TRUE
    /\ \E m \in InitialManifests :
        /\ manifest' = m
        /\ table' \in {t \in [Files -> UNION {MountRows(m, f) : f \in Files}] :
                          \A f \in Files : t[f] \in MountRows(m, f)}
    /\ UNCHANGED <<cacheDir, localDir, server, listed, clock>>

-----------------------------------------------------------------------------
(* The archive server and the clock, outside the client.                    *)

Publish(f) ==
    /\ server[f] < MaxRevision
    /\ server' = [server EXCEPT ![f] = @ + 1]
    /\ listed' = listed \cup {f}
    /\ UNCHANGED <<table, cacheDir, localDir, manifest, clock, up>>

\* The server stops listing a file.
Withdraw(f) ==
    /\ f \in listed
    /\ listed' = listed \ {f}
    /\ UNCHANGED <<table, cacheDir, localDir, server, manifest, clock, up>>

Tick ==
    /\ clock < MaxClock
    /\ clock' = clock + 1
    /\ UNCHANGED <<table, cacheDir, localDir, server, listed, manifest, up>>

\* What a request for bytes of f may return, when it returns any.
Responses(f) ==
    (IF f \in listed THEN {ServerCopy(server[f])} ELSE {})
    \cup (IF f \in listed /\ "corrupt" \in Faults THEN {Corrupt} ELSE {})
RequestMayFail(f) == f \notin listed \/ "net" \in Faults

\* The client right after its first mount against a server that lists some of
\* the files, with some of the others already written locally.
StateInit ==
    /\ server \in [Files -> {0} \cup (1..MaxRevision \cap {1})]
    /\ listed = {f \in Files : server[f] = 1}
    /\ manifest = ServerManifest
    /\ clock = 0
    /\ cacheDir = [f \in Files |-> NoContent]
    /\ \E L \in SUBSET (LocalFiles \ listed) :
        localDir = [f \in Files |-> IF f \in L THEN LocalCopy(1) ELSE NoContent]
    /\ table = [f \in Files |->
                  CASE localDir[f] # NoContent -> ActiveRow
                    [] localDir[f] = NoContent /\ f \in listed -> RemoteRow(HashIn(manifest, f))
                    [] OTHER -> NoRow]
    /\ up = TRUE

StateTypeOK ==
    /\ table \in [Files -> Row]
    /\ cacheDir \in [Files -> Content]
    /\ localDir \in [Files -> Content]
    /\ server \in [Files -> Nat]
    /\ listed \subseteq Files
    /\ manifest \in Manifests
    /\ clock \in Nat
    /\ up \in BOOLEAN
=============================================================================
