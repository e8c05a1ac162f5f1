------------------------------ MODULE XorStrip ------------------------------
(***************************************************************************)
(* The xorstrip tool: it takes the XOR obfuscation off the blk and rev     *)
(* files of a blocks directory in place, chunk by chunk, and zeroes        *)
(* xor.dat, the only copy of the key, when it is done.                     *)
(*                                                                         *)
(* A file is a sequence of bytes, PerChunk of them to a chunk of bufSize;  *)
(* the last chunk may be short.  A byte is the set of keys it is XORed     *)
(* with: {} is raw, and XOR with a key adds or takes away that key.  A     *)
(* read or a write can stop at any byte, and a run can be killed between   *)
(* any two writes and in the middle of one.                                *)
(***************************************************************************)
EXTENDS Naturals, Sequences, FiniteSets

CONSTANTS
    BlkFiles,     \* names that start with blk
    RevFiles,     \* names that start with rev
    Length,       \* number of bytes of each file
    Magic,        \* where in each file mainnet's magic begins, before it is obfuscated
    MagicSize,    \* bytes in a magic
    PerChunk,     \* bytes in a chunk
    NodeKey,      \* the key in xor.dat
    OtherKey,     \* a key that is not the node's
    Workers,      \* the worker goroutines
    NoJob,        \* what an idle worker holds
    Options,      \* the command lines used: records [key, repair]
    Faults,       \* a subset of {"kill", "tear", "read", "write"}
    MaxRuns       \* bound on the number of runs

Files == BlkFiles \cup RevFiles
Keys == {NodeKey, OtherKey}
NoFlag == "none"
Jobs == [file : Files, from : Nat \ {0}]

ASSUME XorAssumption ==
    /\ IsFiniteSet(Files) /\ BlkFiles \cap RevFiles = {}
    /\ PerChunk \in Nat \ {0} /\ MaxRuns \in Nat
    /\ Length \in [Files -> Nat \ {0}]
    /\ MagicSize \in Nat \ {0} /\ MagicSize <= PerChunk
    /\ \A f \in Files : /\ Magic[f] \subseteq 1 .. Length[f] /\ 1 \in Magic[f]
                         /\ \A m \in Magic[f] : m + MagicSize - 1 <= Length[f]
    /\ NodeKey # OtherKey /\ NoFlag \notin Keys
    /\ IsFiniteSet(Workers) /\ Workers # {}
    /\ Options \subseteq [key : Keys \cup {NoFlag}, repair : BOOLEAN]
    /\ NoJob \notin Jobs

VARIABLES
    content,      \* file -> byte -> the keys it is XORed with
    marks,        \* file -> what runs have done to it; see Marks
    xorDat,       \* "key", "zero", or "empty" after an interrupted rewrite
    pc,           \* "idle", "convert", "repair" or "zero"
    opts,         \* the options of the run
    queue,        \* jobs no worker has taken
    toRepair,     \* repair jobs, which wait for the conversions
    job,          \* worker -> the file in hand and the next byte to strip
    firstErr,     \* has a job of this run failed?
    cut,          \* has a read error ended a job of this run early, or hidden a file or its state?
    nruns         \* runs started

vars == <<content, marks, xorDat, pc, opts, queue, toRepair, job, firstErr, cut, nruns>>

NoOpts == [key |-> NoFlag, repair |-> FALSE]
Pieces(f) == 1 .. Length[f]
ChunkStarts(f) == {o \in Pieces(f) : (o - 1) % PerChunk = 0}
ChunkAt(f, o) == {p \in Pieces(f) : o <= p /\ p < o + PerChunk}

\* A run has written to the file with another key than the node's; a write to it has
\* stopped in the middle of a chunk; a read that was cut short has sent a repair of it to
\* a chunk that is not its boundary.
Marks == {"foreign", "torn", "misled"}

\* chunk[i] ^= key[...]: a byte under a key becomes raw, a raw one obfuscated
Xor(byte, key) == IF key \in byte THEN byte \ {key} ELSE byte \cup {key}

\* the key is --key as given, otherwise what xor.dat holds, if it still holds one
LoadKey(o) == o.key # NoFlag \/ xorDat = "key"
KeyOf(o) == IF o.key = NoFlag THEN NodeKey ELSE o.key

\* detectState looks at the first four bytes only
MagicAt(m) == m .. m + MagicSize - 1
StateRaw(f) == \A p \in MagicAt(1) : content[f][p] = {}
\* Faulty variant of StateObfuscated: what is not raw is taken for obfuscated
NotRaw(f, key) == ~StateRaw(f)
StateObfuscated(f, key) == \A p \in MagicAt(1) : content[f][p] = {key}

\* findConversionBoundary: the first chunk in which no raw magic is found, among the n bytes
\* of it that are read; a chunk of which nothing can be read ends the search.  At most one
\* read that is cut short matters, the last: chunk c is read up to its k-th byte.
LacksMagic(f, o, n) ==
    \A m \in Magic[f] : o <= m /\ m + MagicSize <= o + n => \E p \in MagicAt(m) : content[f][p] # {}
ReadOf(o, c, k) == IF o = c THEN k ELSE PerChunk
\* Faulty variant of FindConversionBoundary: a short last chunk, which is read along
\* with the end of the file, is not examined
BoundaryInFullChunks(f, c, k) ==
    {o \in ChunkStarts(f) :
        /\ o + PerChunk - 1 <= Length[f]
        /\ ReadOf(o, c, k) > 0 /\ LacksMagic(f, o, ReadOf(o, c, k))
        /\ \A d \in ChunkStarts(f) : d < o => ~LacksMagic(f, d, ReadOf(d, c, k))}
\* Faulty variant of FindConversionBoundary: the end of the file when there is none
BoundaryOrEnd(f, c, k) ==
    LET lacking == {o \in ChunkStarts(f) : LacksMagic(f, o, ReadOf(o, c, k))} IN
    IF lacking = {} THEN {Length[f] + 1}
    ELSE {o \in lacking : \A d \in lacking : o <= d}
FindConversionBoundary(f, c, k) ==
    {o \in ChunkStarts(f) :
        /\ ReadOf(o, c, k) > 0 /\ LacksMagic(f, o, ReadOf(o, c, k))
        /\ \A d \in ChunkStarts(f) : d < o => ~LacksMagic(f, d, ReadOf(d, c, k))}
\* what it finds when every read is whole, and what it may find
Boundary(f) == FindConversionBoundary(f, 1, PerChunk)
MayFind(f) ==
    {Boundary(f)} \cup
    (IF "read" \in Faults
     THEN {FindConversionBoundary(f, c, k) : c \in ChunkStarts(f), k \in 0 .. PerChunk - 1} ELSE {})

Init ==
    \E plain \in SUBSET Files :
        /\ content = [f \in Files |-> [p \in Pieces(f) |-> IF f \in plain THEN {} ELSE {NodeKey}]]
        /\ marks = [f \in Files |-> {}] /\ xorDat = "key" /\ pc = "idle" /\ opts = NoOpts
        /\ queue = {} /\ toRepair = {} /\ job = [w \in Workers |-> NoJob]
        /\ firstErr = FALSE /\ cut = FALSE /\ nruns = 0

-----------------------------------------------------------------------------
\* run up to the start of the workers: the key, the state of every file, the jobs.
\* A file that cannot be read is of unknown state and skipped.
Start(o) ==
    /\ pc = "idle" /\ nruns < MaxRuns /\ LoadKey(o)
    /\ \E unread \in IF "read" \in Faults THEN SUBSET Files ELSE {{}} :
         LET toConvert == {f \in Files \ unread : ~StateRaw(f) /\ StateObfuscated(f, KeyOf(o))}
             partial == {f \in BlkFiles \ unread : o.repair /\ StateRaw(f)}
         IN
         \E found \in [partial -> UNION {MayFind(f) : f \in partial}] :
             /\ \A f \in partial : found[f] \in MayFind(f)
             /\ queue' = {[file |-> f, from |-> 1] : f \in toConvert}
             /\ toRepair' = UNION {{[file |-> f, from |-> b] : b \in found[f]} : f \in partial}
             /\ marks' = [f \in Files |-> marks[f] \cup
                             IF f \in partial /\ ~(found[f] \subseteq Boundary(f)) THEN {"misled"} ELSE {}]
             /\ cut' = (unread # {} \/ \E f \in partial : found[f] # Boundary(f))
    /\ pc' = IF queue' = {} /\ toRepair' = {} THEN "zero" ELSE "convert"
    /\ opts' = o /\ firstErr' = FALSE /\ nruns' = nruns + 1
    /\ UNCHANGED <<content, xorDat, job>>

\* Faulty variant of TakeJob: the workers stop at the first error
TakeJobUntilError(w) ==
    /\ pc \in {"convert", "repair"} /\ job[w] = NoJob /\ ~firstErr
    /\ \E j \in queue : queue' = queue \ {j} /\ job' = [job EXCEPT ![w] = j]
    /\ UNCHANGED <<content, marks, xorDat, pc, opts, toRepair, firstErr, cut, nruns>>
\* a worker takes the next job from the channel
TakeJob(w) ==
    /\ pc \in {"convert", "repair"} /\ job[w] = NoJob
    /\ \E j \in queue : queue' = queue \ {j} /\ job' = [job EXCEPT ![w] = j]
    /\ UNCHANGED <<content, marks, xorDat, pc, opts, toRepair, firstErr, cut, nruns>>

\* the directory after each worker w has written the first n[w] bytes of its chunk
AfterWrites(n) ==
    [f \in Files |-> [p \in Pieces(f) |->
        IF \E w \in Workers : /\ job[w] # NoJob /\ job[w].file = f
                              /\ job[w].from <= p /\ p < job[w].from + n[w]
        THEN Xor(content[f][p], KeyOf(opts)) ELSE content[f][p]]]
\* was a write to some chunk of f interrupted?
HasTornChunk(f) ==
    \E o \in ChunkStarts(f) : \E p \in ChunkAt(f, o) : content[f][p] # content[f][o]
\* the files it leaves written with another key, or with part of a chunk, are marked
NoteMarks ==
    marks' = [f \in Files |-> marks[f]
                \cup (IF KeyOf(opts) # NodeKey /\ content'[f] # content[f] THEN {"foreign"} ELSE {})
                \cup (IF HasTornChunk(f)' THEN {"torn"} ELSE {})]
Alone(w, k) == [v \in Workers |-> IF v = w THEN k ELSE 0]
\* how much of an interrupted write reaches the file
Torn == IF "tear" \in Faults THEN 0 .. PerChunk - 1 ELSE {0}

\* xorFileFromOffset: one chunk is read, stripped and written back
XorChunk(w) ==
    /\ job[w] # NoJob /\ job[w].from <= Length[job[w].file]
    /\ content' = AfterWrites(Alone(w, PerChunk)) /\ NoteMarks
    /\ job' = [job EXCEPT ![w].from = @ + PerChunk]
    /\ UNCHANGED <<xorDat, pc, opts, queue, toRepair, firstErr, cut, nruns>>

\* the end of the file, and f.Sync
JobDone(w) ==
    /\ job[w] # NoJob /\ job[w].from > Length[job[w].file]
    /\ job' = [job EXCEPT ![w] = NoJob]
    /\ UNCHANGED <<content, marks, xorDat, pc, opts, queue, toRepair, firstErr, cut, nruns>>

\* any error of ReadAt, not only the end of the file, ends the loop, after the bytes read
\* before it are stripped and written; f.Sync decides
ReadError(w) ==
    /\ "read" \in Faults /\ job[w] # NoJob
    /\ \E k \in 0 .. PerChunk - 1 : content' = AfterWrites(Alone(w, k))
    /\ NoteMarks
    /\ job' = [job EXCEPT ![w] = NoJob] /\ cut' = TRUE
    /\ UNCHANGED <<xorDat, pc, opts, queue, toRepair, firstErr, nruns>>

\* OpenFile, WriteAt or Sync fails; errOnce keeps the error, the worker goes on
JobFails(w) ==
    /\ "write" \in Faults /\ job[w] # NoJob
    /\ \E k \in Torn : content' = AfterWrites(Alone(w, k))
    /\ NoteMarks
    /\ firstErr' = TRUE /\ job' = [job EXCEPT ![w] = NoJob]
    /\ UNCHANGED <<xorDat, pc, opts, queue, toRepair, cut, nruns>>

\* wg.Wait: no job is left in the channel or in hand
AllJobsDone == queue = {} /\ \A w \in Workers : job[w] = NoJob

\* the return of run, with or without an error
Return ==
    /\ pc' = "idle" /\ opts' = NoOpts /\ queue' = {} /\ toRepair' = {}
    /\ job' = [w \in Workers |-> NoJob] /\ firstErr' = FALSE /\ cut' = FALSE
    /\ UNCHANGED nruns

\* all conversions are done: on to the repairs
ConvertDone ==
    /\ pc = "convert" /\ AllJobsDone /\ ~firstErr
    /\ pc' = "repair" /\ queue' = toRepair /\ toRepair' = {}
    /\ UNCHANGED <<content, marks, xorDat, opts, job, firstErr, cut, nruns>>
RepairDone ==
    /\ pc = "repair" /\ AllJobsDone /\ ~firstErr
    /\ pc' = "zero"
    /\ UNCHANGED <<content, marks, xorDat, opts, queue, toRepair, job, firstErr, cut, nruns>>
\* a failed job ends the run before xor.dat is touched
ReturnError ==
    /\ pc \in {"convert", "repair"} /\ AllJobsDone /\ firstErr
    /\ Return /\ UNCHANGED <<content, marks, xorDat>>

ZeroXorDat ==
    /\ pc = "zero"
    /\ xorDat' = IF xorDat = "key" THEN "zero" ELSE xorDat
    /\ Return /\ UNCHANGED <<content, marks>>
\* xor.dat cannot be read (which counts as success) or written: WriteFile truncates
\* it before it writes
ZeroFails ==
    /\ pc = "zero" /\ Faults \cap {"read", "write"} # {}
    /\ xorDat' \in {xorDat} \cup IF "write" \in Faults /\ xorDat = "key" THEN {"empty"} ELSE {}
    /\ Return /\ UNCHANGED <<content, marks>>

\* the process is killed; every write in progress may have reached the file in part
Kill ==
    /\ "kill" \in Faults /\ pc # "idle"
    /\ \E n \in [Workers -> Torn] : content' = AfterWrites(n)
    /\ NoteMarks
    /\ xorDat' \in {xorDat} \cup IF pc = "zero" /\ xorDat = "key" THEN {"empty"} ELSE {}
    /\ Return

Step(w) == TakeJob(w) \/ XorChunk(w) \/ JobDone(w) \/ ReadError(w) \/ JobFails(w)
Main == ConvertDone \/ RepairDone \/ ReturnError \/ ZeroXorDat \/ ZeroFails
Next ==
    \/ \E o \in Options : Start(o)
    \/ \E w \in Workers : Step(w)
    \/ Main
    \/ Kill

Spec == Init /\ [][Next]_vars /\ WF_vars(Main) /\ \A w \in Workers : WF_vars(Step(w))

-----------------------------------------------------------------------------
\* Types: every byte is under some set of keys, a job starts at a chunk of its file.
TypeOK ==
    /\ \A f \in Files : content[f] \in [Pieces(f) -> SUBSET Keys]
    /\ marks \in [Files -> SUBSET Marks]
    /\ xorDat \in {"key", "zero", "empty"}
    /\ pc \in {"idle", "convert", "repair", "zero"}
    /\ opts \in Options \cup {NoOpts}
    /\ queue \subseteq Jobs /\ toRepair \subseteq Jobs
    /\ \A j \in queue \cup toRepair : j.from \in ChunkStarts(j.file)
    /\ job \in [Workers -> Jobs \cup {NoJob}]
    /\ firstErr \in BOOLEAN /\ cut \in BOOLEAN /\ nruns \in 0 .. MaxRuns

\* is a magic to be found in every chunk of f?
MagicEverywhere(f) ==
    \A o \in ChunkStarts(f) : \E m \in Magic[f] : o <= m /\ m + MagicSize <= o + PerChunk

\* A write never obfuscates (xorFileFromOffset is its own inverse, so stripping what
\* is raw already would): a run without --repair only turns bytes raw, whatever runs
\* were killed or failed before it, with part of a chunk written too, and whatever --key
\* it is given, but for a file that a read cut short has misled a repair of; and a run
\* with --repair and the node's key only turns bytes raw in a blk file with magic in every
\* chunk that no run has written to with another key, misled, or stopped in the middle of
\* a chunk of.
OnlyReveals ==
    [][\A f \in Files : \A p \in Pieces(f) :
          /\ content'[f][p] # content[f][p]
          /\ "misled" \notin marks[f]
          /\ opts.repair => MagicEverywhere(f) /\ marks[f] = {} /\ KeyOf(opts) = NodeKey
          => content'[f][p] = {}]_vars

\* A run with --repair and the node's key that comes to its end without an error of
\* any kind leaves nothing under a key in a blk file with magic in every chunk that no
\* run has written to with another key, misled, or stopped in the middle of a chunk of
\* (a chunk stripped in part hides what is left of it, or is taken for the boundary).
RepairIsComplete ==
    [][pc = "zero" /\ pc' = "idle" /\ opts.repair /\ KeyOf(opts) = NodeKey /\ ~cut
          => \A f \in BlkFiles : MagicEverywhere(f) /\ marks[f] = {}
                => \A p \in Pieces(f) : content[f][p] = {}]_vars

\* Every run ends: wg.Wait is not left waiting by a worker that met an error.
RunsEnd == pc # "idle" ~> pc = "idle"

\* Safe to re-run after interruption: when xor.dat is zeroed no file needs the key.
ZeroedMeansRaw ==
    xorDat # "key" => \A f \in Files : \A p \in Pieces(f) : content[f][p] = {}
=============================================================================
