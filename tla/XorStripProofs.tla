--------------------------- MODULE XorStripProofs ---------------------------
(***************************************************************************)
(* Proofs about XorStrip, for any files, chunk size, number of workers and *)
(* number of runs, with any options and all faults.                        *)
(***************************************************************************)
EXTENDS XorStrip, Loops, TLAPS

(***************************************************************************)
(* Numbers: every byte of a file is in a chunk.                            *)
(***************************************************************************)

\* Counted in steps of k from 1, there is a start at or before every number.
LEMMA StartBefore ==
    ASSUME NEW k \in Nat \ {0}, NEW p \in Nat \ {0}
    PROVE  \E o \in Nat \ {0} : (o - 1) % k = 0 /\ o <= p /\ p < o + k
<1> DEFINE n == p - 1
           r == n % k
<1>1. r \in 0 .. k - 1 /\ r <= n
  OBVIOUS
<1>2. (n - r) % k = 0
  <2>1. n = k * (n \div k) + r /\ n \div k \in Nat
    OBVIOUS
  <2>2. n - r = k * (n \div k)
    BY <2>1
  <2>3. \A q \in Nat : (k * q) % k = 0
    OBVIOUS
  <2>4. QED
    BY <2>1, <2>2, <2>3
<1>3. (p - r) - 1 = n - r /\ p - r \in Nat \ {0} /\ p - r <= p /\ p < (p - r) + k
  BY <1>1
<1> HIDE DEF n, r
<1>4. QED
  BY <1>2, <1>3

\* A file begins with a chunk, and each of its bytes is in one.
LEMMA PiecesInChunks ==
    ASSUME NEW f \in Files
    PROVE  /\ 1 \in Pieces(f) /\ 1 \in ChunkStarts(f)
           /\ Pieces(f) \subseteq Nat \ {0} /\ Length[f] \in Nat
           /\ \A p \in Pieces(f) : \E o \in ChunkStarts(f) : p \in ChunkAt(f, o)
<1>1. Length[f] \in Nat \ {0} /\ PerChunk \in Nat \ {0}
  BY XorAssumption
<1>2. 1 \in Pieces(f) /\ Pieces(f) \subseteq Nat \ {0}
  BY <1>1 DEF Pieces
<1>3. 1 \in ChunkStarts(f)
  BY <1>1, <1>2 DEF ChunkStarts
<1>4. ASSUME NEW p \in Pieces(f) PROVE \E o \in ChunkStarts(f) : p \in ChunkAt(f, o)
  <2>1. p \in Nat \ {0} /\ p <= Length[f]
    BY <1>1, <1>4 DEF Pieces
  <2>2. PICK o \in Nat \ {0} : (o - 1) % PerChunk = 0 /\ o <= p /\ p < o + PerChunk
    BY <1>1, <2>1, StartBefore
  <2>3. o \in ChunkStarts(f)
    BY <1>1, <2>1, <2>2 DEF ChunkStarts, Pieces
  <2>4. p \in ChunkAt(f, o)
    BY <1>4, <2>2 DEF ChunkAt
  <2>5. QED
    BY <2>3, <2>4
<1>5. QED
  BY <1>1, <1>2, <1>3, <1>4

\* A magic lies in its file, and the first one in the first chunk.
LEMMA MagicInFile ==
    ASSUME NEW f \in Files
    PROVE  /\ \A m \in Magic[f] : MagicAt(m) \subseteq Pieces(f) /\ m \in Nat \ {0}
           /\ 1 \in Magic[f] /\ 1 \in MagicAt(1) /\ MagicAt(1) \subseteq ChunkAt(f, 1)
           /\ 1 + MagicSize <= 1 + PerChunk
           /\ \A m \in Magic[f], o \in ChunkStarts(f) :
                 o <= m /\ m + MagicSize <= o + PerChunk => MagicAt(m) \subseteq ChunkAt(f, o)
<1>1. /\ Length[f] \in Nat \ {0} /\ PerChunk \in Nat \ {0} /\ MagicSize \in Nat \ {0}
      /\ MagicSize <= PerChunk /\ 1 \in Magic[f]
      /\ \A m \in Magic[f] : m \in 1 .. Length[f] /\ m + MagicSize - 1 <= Length[f]
  BY XorAssumption
<1>2. \A m \in Magic[f] : MagicAt(m) \subseteq Pieces(f) /\ m \in Nat \ {0}
  BY <1>1 DEF MagicAt, Pieces
<1>3. 1 \in MagicAt(1) /\ MagicAt(1) \subseteq ChunkAt(f, 1)
  BY <1>1, <1>2 DEF MagicAt, ChunkAt, Pieces
<1>4. ASSUME NEW m \in Magic[f], NEW o \in ChunkStarts(f), o <= m, m + MagicSize <= o + PerChunk
      PROVE  MagicAt(m) \subseteq ChunkAt(f, o)
  <2>1. o \in Nat
    BY <1>1 DEF ChunkStarts, Pieces
  <2>2. QED
    BY <1>1, <1>2, <1>4, <2>1 DEF MagicAt, ChunkAt
<1>5. QED
  BY <1>1, <1>2, <1>3, <1>4

(***************************************************************************)
(* Types.                                                                  *)
(***************************************************************************)

\* The key of a run is one of the two.
LEMMA KeyTypes ==
    ASSUME TypeOK
    PROVE  /\ KeyOf(opts) \in Keys /\ opts.repair \in BOOLEAN
           /\ \A o \in Options : KeyOf(o) \in Keys /\ o.repair \in BOOLEAN
<1>1. \A o \in Options : o.key \in Keys \cup {NoFlag} /\ o.repair \in BOOLEAN
  BY XorAssumption
<1>2. NoOpts.key = NoFlag /\ NoOpts.repair = FALSE /\ NodeKey \in Keys
  BY DEF NoOpts, Keys
<1>3. opts \in Options \/ opts = NoOpts
  BY DEF TypeOK
<1>4. QED
  BY <1>1, <1>2, <1>3 DEF KeyOf

\* Whatever is written, bytes stay under sets of keys.
LEMMA WriteTypes ==
    ASSUME TypeOK, NEW n
    PROVE  \A f \in Files : AfterWrites(n)[f] \in [Pieces(f) -> SUBSET Keys]
  BY KeyTypes DEF TypeOK, AfterWrites, Xor

\* The jobs of a run begin at chunks of their files.
LEMMA StartTypes ==
    ASSUME TypeOK, NEW o \in Options, Start(o)
    PROVE  /\ queue' \subseteq Jobs /\ toRepair' \subseteq Jobs
           /\ \A j \in queue' \cup toRepair' : j.from \in ChunkStarts(j.file)
<1>1. \A f \in Files : ChunkStarts(f) \subseteq Nat \ {0} /\ 1 \in ChunkStarts(f)
  BY PiecesInChunks DEF ChunkStarts
<1>2. \A f \in Files : \A found \in MayFind(f) : found \subseteq ChunkStarts(f)
  BY DEF MayFind, Boundary, FindConversionBoundary
<1>3. BlkFiles \subseteq Files
  BY DEF Files
<1>4. ASSUME NEW j \in queue' PROVE j \in Jobs /\ j.from \in ChunkStarts(j.file)
  <2>1. PICK f \in Files : j = [file |-> f, from |-> 1]
    BY <1>4 DEF Start
  <2>2. QED
    BY <1>1, <2>1 DEF Jobs
<1>5. ASSUME NEW j \in toRepair' PROVE j \in Jobs /\ j.from \in ChunkStarts(j.file)
  <2>1. PICK f \in Files : \E found \in MayFind(f) : \E b \in found : j = [file |-> f, from |-> b]
    BY <1>3, <1>5 DEF Start
  <2>2. QED
    BY <1>1, <1>2, <2>1 DEF Jobs
<1>6. QED
  BY <1>4, <1>5

\* Every step keeps the types.
LEMMA TypeStep == TypeOK /\ [Next]_vars => TypeOK'
<1> SUFFICES ASSUME TypeOK, [Next]_vars PROVE TypeOK'
  OBVIOUS
<1>return. ASSUME Return, \A f \in Files : content'[f] \in [Pieces(f) -> SUBSET Keys],
                  marks' \in [Files -> SUBSET Marks], xorDat' \in {"key", "zero", "empty"}
           PROVE  TypeOK'
  BY <1>return DEF Return, TypeOK
<1>note. NoteMarks => marks' \in [Files -> SUBSET Marks]
  BY DEF NoteMarks, TypeOK, Marks
<1>1. ASSUME NEW o \in Options, Start(o) PROVE TypeOK'
  <2>1. nruns' \in 0 .. MaxRuns
    BY <1>1, XorAssumption DEF Start, TypeOK
  <2>2. marks' \in [Files -> SUBSET Marks] /\ cut' \in BOOLEAN
    BY <1>1 DEF Start, TypeOK, Marks
  <2>3. QED
    BY <1>1, <2>1, <2>2, StartTypes DEF Start, TypeOK
<1>2. ASSUME NEW w \in Workers, TakeJob(w) PROVE TypeOK'
  BY <1>2 DEF TakeJob, TypeOK
<1>3. ASSUME NEW w \in Workers, XorChunk(w) PROVE TypeOK'
  <2>1. job' \in [Workers -> Jobs \cup {NoJob}]
    <3>1. job[w] \in Jobs
      BY <1>3 DEF XorChunk, TypeOK
    <3>2. [job[w] EXCEPT !.from = @ + PerChunk] \in Jobs
      BY <3>1, XorAssumption DEF Jobs
    <3>3. QED
      BY <1>3, <3>2 DEF XorChunk, TypeOK
  <2>2. QED
    BY <1>3, <1>note, <2>1, WriteTypes DEF XorChunk, TypeOK
<1>4. ASSUME NEW w \in Workers, JobDone(w) PROVE TypeOK'
  BY <1>4 DEF JobDone, TypeOK
<1>5. ASSUME NEW w \in Workers, JobFails(w) \/ ReadError(w) PROVE TypeOK'
  BY <1>5, <1>note, WriteTypes DEF JobFails, ReadError, TypeOK
<1>6. CASE ConvertDone \/ RepairDone
  BY <1>6 DEF ConvertDone, RepairDone, TypeOK
<1>7. CASE ReturnError \/ ZeroXorDat \/ ZeroFails
  BY <1>7, <1>return DEF ReturnError, ZeroXorDat, ZeroFails, TypeOK
<1>8. CASE Kill
  BY <1>8, <1>return, <1>note, WriteTypes DEF Kill, TypeOK
<1>9. CASE UNCHANGED vars
  BY <1>9 DEF vars, TypeOK
<1>10. QED
  BY <1>1, <1>2, <1>3, <1>4, <1>5, <1>6, <1>7, <1>8, <1>9 DEF Next, Step, Main

\* The start states have the types.
LEMMA TypeInit == Init => TypeOK
<1> SUFFICES ASSUME Init PROVE TypeOK
  OBVIOUS
<1>1. \A f \in Files : content[f] \in [Pieces(f) -> SUBSET Keys]
  BY DEF Init, Keys
<1>2. QED
  <2>1. 0 \in 0 .. MaxRuns /\ job \in [Workers -> Jobs \cup {NoJob}] /\ nruns = 0
    BY XorAssumption DEF Init
  <2>2. QED
    BY <1>1, <2>1 DEF Init, TypeOK

\* Every byte stays under some set of keys and every job of xorFileFromOffset begins at
\* a chunk of its file, in every run and however it ends.
THEOREM StripTypeCorrect == Spec => []TypeOK
  BY TypeInit, TypeStep, PTL DEF Spec

(***************************************************************************)
(* The inductive invariant.  Stripping is its own inverse, so a write only *)
(* reveals if everything it touches is under the key.  That has to be so   *)
(* for the rest of the file from where a job stands, which in turn rests   *)
(* on what earlier runs, finished or not, have left: files are stripped    *)
(* from the front, and no two jobs are on one file.                        *)
(***************************************************************************)

\* Files the promises about repairs are for.
Clean(f) == MagicEverywhere(f) /\ marks[f] = {}
Misled(f) == "misled" \in marks[f]

ObfuscatedFrom(f, o) == \A p \in Pieces(f) : o <= p => content[f][p] = {NodeKey}
RawBefore(f, o) == \A d \in ChunkStarts(f) : d < o => ~LacksMagic(f, d, PerChunk)

\* What runs leave of a file: if its start is not raw it is untouched; if a chunk of it was
\* stripped in part it is marked; if it is clean, nothing behind a chunk without raw magic
\* has been stripped.
Left(f) ==
    /\ ~Misled(f) /\ content[f][1] # {} => ObfuscatedFrom(f, 1)
    /\ HasTornChunk(f) => "torn" \in marks[f]
    /\ Clean(f) => \A o \in ChunkStarts(f) : LacksMagic(f, o, PerChunk) => ObfuscatedFrom(f, o)
FilesInv == \A f \in Files : Left(f)

\* A job begins at the start of an untouched file or behind a raw start, and all that is
\* left to it is under the key.
Sound(j) ==
    /\ ~Misled(j.file) => \/ j.from = 1 /\ KeyOf(opts) = NodeKey /\ ObfuscatedFrom(j.file, 1)
                          \/ j.from > 1 /\ content[j.file][1] = {}
    /\ ~Misled(j.file) /\ ~opts.repair => KeyOf(opts) = NodeKey /\ ObfuscatedFrom(j.file, j.from)
    /\ Clean(j.file) /\ KeyOf(opts) = NodeKey =>
          ObfuscatedFrom(j.file, j.from) /\ RawBefore(j.file, j.from)

Pending == queue \cup toRepair
Held == {job[w] : w \in Workers} \ {NoJob}
Busy(w) == job[w] # NoJob
HasJob(f) == \/ \E j \in Pending : j.file = f
             \/ \E w \in Workers : Busy(w) /\ job[w].file = f

JobsInv ==
    /\ queue \cap toRepair = {}
    /\ \A j \in Pending : Sound(j)
    /\ \A j \in Held : Sound(j)
    /\ \A i, j \in Pending : i.file = j.file => i = j
    /\ \A v, w \in Workers : Busy(v) /\ Busy(w) /\ job[v].file = job[w].file => v = w
    /\ \A j \in Pending, w \in Workers : Busy(w) => job[w].file # j.file

\* Which jobs there can be at each stage of a run.
PhaseInv ==
    /\ pc \in {"idle", "zero"} => AllJobsDone
    /\ pc # "convert" => toRepair = {}
    /\ pc = "zero" => ~firstErr

\* A repair that has met no error has a job for every clean blk file that is not done.
CoverInv ==
    opts.repair /\ KeyOf(opts) = NodeKey /\ ~cut /\ ~firstErr /\ pc # "idle" =>
        \A f \in BlkFiles : Clean(f) /\ ~HasJob(f) => RawBefore(f, Length[f] + 1)

StripInv == FilesInv /\ JobsInv /\ PhaseInv /\ CoverInv

\* The start states: a file is all raw or all under the node's key, and no run is on.
LEMMA StripInit == Init => StripInv
<1> SUFFICES ASSUME Init PROVE StripInv
  OBVIOUS
<1>1. PICK plain \in SUBSET Files :
         content = [f \in Files |-> [p \in Pieces(f) |-> IF f \in plain THEN {} ELSE {NodeKey}]]
  BY DEF Init
<1>2. ASSUME NEW f \in Files PROVE (\A p \in Pieces(f) : content[f][p] = {}) \/ ObfuscatedFrom(f, 1)
  BY <1>1 DEF ObfuscatedFrom
<1>3. ASSUME NEW f \in Files, NEW o \in ChunkStarts(f), Clean(f), LacksMagic(f, o, PerChunk)
      PROVE  ObfuscatedFrom(f, o)
  <2>1. PICK m \in Magic[f] : o <= m /\ m + MagicSize <= o + PerChunk
    BY <1>3 DEF Clean, MagicEverywhere
  <2>2. PICK p \in Pieces(f) : content[f][p] # {}
    BY <1>3, <2>1, MagicInFile DEF LacksMagic
  <2>3. o >= 1
    BY PiecesInChunks DEF ChunkStarts
  <2>4. Pieces(f) \subseteq Nat /\ o \in Nat
    BY PiecesInChunks DEF ChunkStarts
  <2>5. QED
    BY <1>2, <2>2, <2>3, <2>4 DEF ObfuscatedFrom
<1>4. ASSUME NEW f \in Files PROVE ~HasTornChunk(f)
  <2>1. \A o \in ChunkStarts(f) : o \in Pieces(f) /\ ChunkAt(f, o) \subseteq Pieces(f)
    BY DEF ChunkStarts, ChunkAt
  <2>2. QED
    BY <1>1, <2>1 DEF HasTornChunk
<1>5. FilesInv
  BY <1>2, <1>3, <1>4, PiecesInChunks DEF FilesInv, Left
<1>6. QED
  BY <1>5 DEF Init, StripInv, JobsInv, PhaseInv, CoverInv, Pending, Held, Busy, AllJobsDone

(***************************************************************************)
(* What writes do to a file.                                               *)
(***************************************************************************)

\* k bytes from where job j stands are stripped.
Written(j, k) ==
    \A p \in Pieces(j.file) :
        content'[j.file][p] = IF j.from <= p /\ p < j.from + k
                              THEN Xor(content[j.file][p], KeyOf(opts)) ELSE content[j.file][p]

\* A write touches the files of the jobs in hand, each by its one worker.
LEMMA WritesByJob ==
    ASSUME TypeOK, JobsInv, NEW n, content' = AfterWrites(n)
    PROVE  /\ \A f \in Files : (\A w \in Workers : Busy(w) => job[w].file # f) => content'[f] = content[f]
           /\ \A w \in Workers : Busy(w) => Written(job[w], n[w])
<1>1. ASSUME NEW f \in Files, \A w \in Workers : Busy(w) => job[w].file # f
      PROVE  content'[f] = content[f]
  <2>1. \A p \in Pieces(f) : content'[f][p] = content[f][p]
    BY <1>1 DEF AfterWrites, Busy
  <2>2. content[f] \in [Pieces(f) -> SUBSET Keys] /\ content'[f] \in [Pieces(f) -> SUBSET Keys]
    BY WriteTypes DEF TypeOK
  <2>3. QED
    BY <2>1, <2>2
<1>2. ASSUME NEW w \in Workers, Busy(w) PROVE Written(job[w], n[w])
  <2>1. job[w] \in Jobs /\ job[w].file \in Files
    BY <1>2 DEF TypeOK, Busy, Jobs
  <2>2. \A v \in Workers : job[v] # NoJob /\ job[v].file = job[w].file => v = w
    BY <1>2 DEF JobsInv, Busy
  <2>3. QED
    BY <1>2, <2>1, <2>2 DEF AfterWrites, Written, Busy
<1>3. QED
  BY <1>1, <1>2

\* Writing nothing leaves the file as it is.
LEMMA WritesNothing ==
    ASSUME TypeOK, NEW j \in Jobs, Written(j, 0), NEW n, content' = AfterWrites(n)
    PROVE  content'[j.file] = content[j.file]
<1>1. j.file \in Files /\ j.from \in Nat
  BY DEF Jobs
<1>2. \A p \in Pieces(j.file) : p \in Nat /\ content'[j.file][p] = content[j.file][p]
  BY <1>1, PiecesInChunks DEF Written
<1>3. content[j.file] \in [Pieces(j.file) -> SUBSET Keys] /\ content'[j.file] \in [Pieces(j.file) -> SUBSET Keys]
  BY <1>1, WriteTypes DEF TypeOK
<1>4. QED
  BY <1>2, <1>3

\* Where all that is left is under the node's key, its bytes become raw.
LEMMA StripsToRaw ==
    ASSUME NEW j \in Jobs, NEW k \in Nat, Written(j, k), KeyOf(opts) = NodeKey,
           ObfuscatedFrom(j.file, j.from)
    PROVE  \A p \in Pieces(j.file) :
              content'[j.file][p] = IF j.from <= p /\ p < j.from + k THEN {} ELSE content[j.file][p]
<1>1. Xor({NodeKey}, NodeKey) = {}
  BY DEF Xor
<1>2. QED
  BY <1>1 DEF Written, ObfuscatedFrom

\* A chunk with raw magic keeps it when bytes are only stripped.
LEMMA RawMagicStays ==
    ASSUME NEW f \in Files, \A p \in Pieces(f) : content'[f][p] = {} \/ content'[f][p] = content[f][p],
           NEW d \in ChunkStarts(f), ~LacksMagic(f, d, PerChunk)
    PROVE  ~LacksMagic(f, d, PerChunk)'
<1>1. PICK m \in Magic[f] : /\ d <= m /\ m + MagicSize <= d + PerChunk
                            /\ \A p \in MagicAt(m) : content[f][p] = {}
  BY DEF LacksMagic
<1>2. MagicAt(m) \subseteq Pieces(f)
  BY MagicInFile
<1>3. \A p \in MagicAt(m) : content'[f][p] = {}
  BY <1>1, <1>2
<1>4. QED
  BY <1>1, <1>3 DEF LacksMagic

\* Where no chunk is stripped in part, a raw byte at the start of a chunk shows.
LEMMA RawStartShows ==
    ASSUME NEW f \in Files, MagicEverywhere(f), ~HasTornChunk(f)', NEW d \in ChunkStarts(f),
           content'[f][d] = {}
    PROVE  ~LacksMagic(f, d, PerChunk)'
<1>1. PICK m \in Magic[f] : d <= m /\ m + MagicSize <= d + PerChunk
  BY DEF MagicEverywhere
<1>2. MagicAt(m) \subseteq ChunkAt(f, d)
  BY <1>1, MagicInFile
<1>3. \A p \in MagicAt(m) : content'[f][p] = {}
  BY <1>2 DEF HasTornChunk
<1>4. QED
  BY <1>1, <1>3 DEF LacksMagic

\* A write of a job with the node's key to a file that stays clean: what is behind a chunk
\* without raw magic is still under the key, and the chunks before the end of the write
\* have raw magic.
LEMMA CleanWrite ==
    ASSUME NEW j \in Jobs, NEW k \in Nat, Written(j, k), KeyOf(opts) = NodeKey,
           ObfuscatedFrom(j.file, j.from), RawBefore(j.file, j.from), MagicEverywhere(j.file),
           ~HasTornChunk(j.file)'
    PROVE  /\ \A o \in ChunkStarts(j.file) : LacksMagic(j.file, o, PerChunk)' => ObfuscatedFrom(j.file, o)'
           /\ RawBefore(j.file, j.from + k)'
           /\ ObfuscatedFrom(j.file, j.from + k)'
<1> DEFINE f == j.file
<1>1. f \in Files /\ j.from \in Nat \ {0} /\ Pieces(f) \subseteq Nat /\ ChunkStarts(f) \subseteq Pieces(f)
  BY PiecesInChunks DEF Jobs, ChunkStarts
<1>2. \A p \in Pieces(f) : content'[f][p] = IF j.from <= p /\ p < j.from + k THEN {} ELSE content[f][p]
  BY StripsToRaw
<1>3. \A p \in Pieces(f) : content'[f][p] = {} \/ content'[f][p] = content[f][p]
  BY <1>2
<1>4. ASSUME NEW d \in ChunkStarts(f), d < j.from + k PROVE ~LacksMagic(f, d, PerChunk)'
  <2>1. CASE d < j.from
    BY <1>1, <1>3, <2>1, RawMagicStays DEF RawBefore
  <2>2. CASE ~(d < j.from)
    <3>1. content'[f][d] = {}
      BY <1>1, <1>2, <1>4, <2>2
    <3>2. QED
      BY <1>1, <3>1, RawStartShows
  <2>3. QED
    BY <2>1, <2>2
<1>5. ObfuscatedFrom(f, j.from + k)'
  BY <1>1, <1>2 DEF ObfuscatedFrom
<1>6. ASSUME NEW o \in ChunkStarts(f), LacksMagic(f, o, PerChunk)' PROVE ObfuscatedFrom(f, o)'
  <2>1. o >= j.from + k
    BY <1>1, <1>4, <1>6
  <2>2. QED
    BY <1>1, <1>5, <2>1 DEF ObfuscatedFrom
<1>7. RawBefore(f, j.from + k)'
  BY <1>4 DEF RawBefore
<1>8. QED
  BY <1>5, <1>6, <1>7

\* A file nobody writes to is left as it was, with its job if it has one.
LEMMA UntouchedFile ==
    ASSUME NEW f \in Files, content'[f] = content[f], marks'[f] = marks[f]
    PROVE  /\ Left(f) => Left(f)'
           /\ \A o : (RawBefore(f, o) <=> RawBefore(f, o)') /\ (ObfuscatedFrom(f, o) <=> ObfuscatedFrom(f, o)')
           /\ Clean(f) <=> Clean(f)'
           /\ \A j \in Jobs : j.file = f /\ opts' = opts /\ Sound(j) => Sound(j)'
<1>1. \A o : ObfuscatedFrom(f, o) <=> ObfuscatedFrom(f, o)'
  BY DEF ObfuscatedFrom
<1>2. \A o : LacksMagic(f, o, PerChunk) <=> LacksMagic(f, o, PerChunk)'
  BY DEF LacksMagic
<1>3. \A o : RawBefore(f, o) <=> RawBefore(f, o)'
  BY <1>2 DEF RawBefore
<1>4. (Clean(f) <=> Clean(f)') /\ (Misled(f) <=> Misled(f)')
  BY DEF Clean, Misled
<1>5. HasTornChunk(f) <=> HasTornChunk(f)'
  BY DEF HasTornChunk
<1>6. Left(f) => Left(f)'
  BY <1>1, <1>2, <1>4, <1>5 DEF Left
<1>7. ASSUME NEW j \in Jobs, j.file = f, opts' = opts, Sound(j) PROVE Sound(j)'
  <2>1. (KeyOf(opts))' = KeyOf(opts)
    BY <1>7 DEF KeyOf
  <2>2. QED
    BY <1>1, <1>3, <1>4, <1>7, <2>1 DEF Sound
<1>8. QED
  BY <1>1, <1>3, <1>4, <1>6, <1>7

\* A file whose content stays is not marked.
LEMMA UnmarkedFile ==
    ASSUME TypeOK, NEW f \in Files, Left(f), content'[f] = content[f], NoteMarks
    PROVE  marks'[f] = marks[f]
<1>1. HasTornChunk(f)' => "torn" \in marks[f]
  <2>1. HasTornChunk(f)' <=> HasTornChunk(f)
    BY DEF HasTornChunk
  <2>2. QED
    BY <2>1 DEF Left
<1>2. marks'[f] = marks[f] \cup (IF HasTornChunk(f)' THEN {"torn"} ELSE {})
  BY DEF NoteMarks
<1>3. QED
  BY <1>1, <1>2

\* A write of a sound job, whole or torn, leaves its file as FilesInv says, and the rest
\* of the job sound.
LEMMA SoundWrite ==
    ASSUME TypeOK, NEW j \in Jobs, Left(j.file), Sound(j), NEW k \in Nat, Written(j, k),
           NEW n, content' = AfterWrites(n), NoteMarks
    PROVE  /\ Left(j.file)'
           /\ ~Misled(j.file) /\ (~opts.repair \/ (Clean(j.file) /\ KeyOf(opts) = NodeKey)) =>
                 \A p \in Pieces(j.file) : content'[j.file][p] \in {content[j.file][p], {}}
           /\ \A i \in Jobs : k > 0 /\ opts' = opts /\ j.from <= Length[j.file]
                                /\ i.file = j.file /\ i.from = j.from + k => Sound(i)'
<1> DEFINE f == j.file
<1>1. /\ f \in Files /\ j.from \in Nat \ {0} /\ 1 \in Pieces(f)
      /\ Pieces(f) \subseteq Nat \ {0} /\ Length[f] \in Nat
  BY PiecesInChunks DEF Jobs
<1>2. /\ Clean(f)' => Clean(f) /\ ~HasTornChunk(f)' /\ (KeyOf(opts) = NodeKey \/ content'[f] = content[f])
      /\ ~Misled(f)' => ~Misled(f)
      /\ HasTornChunk(f)' => "torn" \in marks'[f]
  <2>1. marks'[f] = marks[f]
              \cup (IF KeyOf(opts) # NodeKey /\ content'[f] # content[f] THEN {"foreign"} ELSE {})
              \cup (IF HasTornChunk(f)' THEN {"torn"} ELSE {})
    BY <1>1 DEF NoteMarks
  <2>2. QED
    BY <2>1 DEF Clean, Misled
<1>3. ASSUME KeyOf(opts) = NodeKey, ObfuscatedFrom(f, j.from)
      PROVE  \A p \in Pieces(f) : content'[f][p] \in {content[f][p], {}}
  BY <1>3, StripsToRaw
<1>4. ~Misled(f) => content'[f][1] = {} \/ k = 0
  <2>1. CASE j.from = 1 /\ KeyOf(opts) = NodeKey /\ ObfuscatedFrom(f, 1)
    BY <1>1, <2>1, StripsToRaw
  <2>2. CASE j.from > 1 /\ content[f][1] = {}
    BY <1>1, <2>2 DEF Written
  <2>3. QED
    BY <2>1, <2>2 DEF Sound
<1>5. k = 0 => content'[f] = content[f]
  BY WritesNothing
<1>6. ~Misled(f)' /\ content'[f][1] # {} => ObfuscatedFrom(f, 1)'
  BY <1>2, <1>4, <1>5 DEF Left, ObfuscatedFrom
<1>7. Clean(f)' => \A o \in ChunkStarts(f) : LacksMagic(f, o, PerChunk)' => ObfuscatedFrom(f, o)'
  <2>1. CASE KeyOf(opts) # NodeKey
    BY <1>2, <2>1 DEF Left, LacksMagic, ObfuscatedFrom
  <2>2. CASE KeyOf(opts) = NodeKey
    <3>1. ASSUME Clean(f)' PROVE /\ ObfuscatedFrom(f, j.from) /\ RawBefore(f, j.from)
                                 /\ MagicEverywhere(f) /\ ~HasTornChunk(f)'
      BY <1>2, <2>2, <3>1 DEF Sound, Clean
    <3>2. QED
      BY <2>2, <3>1, CleanWrite
  <2>3. QED
    BY <2>1, <2>2
<1>8. ASSUME NEW i \in Jobs, k > 0, opts' = opts, j.from <= Length[f], i.file = f, i.from = j.from + k
      PROVE  Sound(i)'
  <2>1. (KeyOf(opts))' = KeyOf(opts) /\ opts'.repair = opts.repair
    BY <1>8 DEF KeyOf
  <2>2. ~Misled(f)' => i.from > 1 /\ content'[f][1] = {}
    BY <1>1, <1>2, <1>4, <1>8
  <2>3. ~Misled(f)' /\ ~opts.repair => KeyOf(opts) = NodeKey /\ ObfuscatedFrom(f, i.from)'
    <3>1. ASSUME ~Misled(f), ~opts.repair PROVE KeyOf(opts) = NodeKey /\ ObfuscatedFrom(f, j.from)
      BY <3>1 DEF Sound
    <3>2. ASSUME ~Misled(f), ~opts.repair, NEW p \in Pieces(f), i.from <= p PROVE content'[f][p] = {NodeKey}
      BY <1>1, <1>8, <3>1, <3>2, StripsToRaw DEF ObfuscatedFrom
    <3>3. QED
      BY <1>2, <3>1, <3>2 DEF ObfuscatedFrom
  <2>4. Clean(f)' /\ KeyOf(opts) = NodeKey => (ObfuscatedFrom(f, i.from) /\ RawBefore(f, i.from))'
    <3>1. ASSUME Clean(f)', KeyOf(opts) = NodeKey
          PROVE  /\ ObfuscatedFrom(f, j.from) /\ RawBefore(f, j.from)
                 /\ MagicEverywhere(f) /\ ~HasTornChunk(f)'
      BY <1>2, <3>1 DEF Sound, Clean
    <3>2. QED
      BY <1>8, <3>1, CleanWrite
  <2>5. QED
    BY <1>8, <2>1, <2>2, <2>3, <2>4 DEF Sound
<1>9. ASSUME ~Misled(f), ~opts.repair \/ (Clean(f) /\ KeyOf(opts) = NodeKey)
      PROVE  \A p \in Pieces(f) : content'[f][p] \in {content[f][p], {}}
  BY <1>3, <1>9 DEF Sound
<1>10. QED
  BY <1>2, <1>6, <1>7, <1>8, <1>9 DEF Left

\* Whatever the workers write, and however much of it arrives, FilesInv holds.
LEMMA FilesAfterWrites ==
    ASSUME TypeOK, FilesInv, JobsInv, NEW n \in [Workers -> Nat], content' = AfterWrites(n), NoteMarks
    PROVE  FilesInv'
<1>1. \A f \in Files : Left(f)
  BY DEF FilesInv
<1>2. ASSUME NEW f \in Files PROVE Left(f)'
  <2>1. CASE \A w \in Workers : Busy(w) => job[w].file # f
    <3>1. content'[f] = content[f]
      BY <2>1, WritesByJob
    <3>2. marks'[f] = marks[f]
      BY <1>1, <3>1, UnmarkedFile
    <3>3. QED
      BY <1>1, <3>1, <3>2, UntouchedFile
  <2>2. ASSUME NEW w \in Workers, Busy(w), job[w].file = f PROVE Left(f)'
    <3>1. PICK j \in Jobs : j = job[w]
      BY <2>2 DEF TypeOK, Busy
    <3>2. Sound(j) /\ j.file = f
      BY <2>2, <3>1 DEF JobsInv, Held, Busy
    <3>3. Written(j, n[w]) /\ n[w] \in Nat
      BY <2>2, <3>1, WritesByJob
    <3>4. QED
      BY <1>1, <3>2, <3>3, SoundWrite
  <2>3. QED
    BY <2>1, <2>2
<1>3. QED
  BY <1>2 DEF FilesInv

\* Writes that leave the files of the other workers alone leave all other jobs sound.
LEMMA OthersSound ==
    ASSUME TypeOK, FilesInv, JobsInv, NEW w \in Workers, NEW k \in Nat,
           content' = AfterWrites(Alone(w, k)), NoteMarks, opts' = opts
    PROVE  /\ \A f \in Files : ~(Busy(w) /\ job[w].file = f) =>
                 content'[f] = content[f] /\ marks'[f] = marks[f]
           /\ \A j \in Jobs : Sound(j) /\ ~(Busy(w) /\ job[w].file = j.file) => Sound(j)'
<1>1. ASSUME NEW f \in Files, ~(Busy(w) /\ job[w].file = f) PROVE content'[f] = content[f]
  <2>1. CASE \A v \in Workers : Busy(v) => job[v].file # f
    BY <2>1, WritesByJob
  <2>2. ASSUME NEW v \in Workers, Busy(v), job[v].file = f PROVE content'[f] = content[f]
    <3>1. PICK j \in Jobs : j = job[v]
      BY <2>2 DEF TypeOK, Busy
    <3>2. v # w /\ Alone(w, k)[v] = 0
      BY <1>1, <2>2 DEF Alone
    <3>3. Written(j, Alone(w, k)[v])
      BY <2>2, <3>1, WritesByJob
    <3>4. QED
      BY <2>2, <3>1, <3>2, <3>3, WritesNothing
  <2>3. QED
    BY <2>1, <2>2
<1>2. ASSUME NEW f \in Files, ~(Busy(w) /\ job[w].file = f) PROVE marks'[f] = marks[f]
  BY <1>1, <1>2, UnmarkedFile DEF FilesInv
<1>3. ASSUME NEW j \in Jobs, Sound(j), ~(Busy(w) /\ job[w].file = j.file) PROVE Sound(j)'
  <2>1. j.file \in Files
    BY DEF Jobs
  <2>2. QED
    BY <1>1, <1>2, <1>3, <2>1, UntouchedFile
<1>4. QED
  BY <1>1, <1>2, <1>3

(***************************************************************************)
(* StripInv is kept: the start of a run.                                   *)
(***************************************************************************)

\* What whole reads find behind a raw start is not the start, and there is only one.
LEMMA BoundaryFacts ==
    ASSUME NEW f \in Files
    PROVE  /\ \A b \in Boundary(f) :
                 /\ b \in ChunkStarts(f) /\ b \in Nat \ {0} /\ LacksMagic(f, b, PerChunk) /\ RawBefore(f, b)
                 /\ StateRaw(f) => b > 1
           /\ Boundary(f) = {} => RawBefore(f, Length[f] + 1)
           /\ Boundary(f) \in MayFind(f)
<1>1. ChunkStarts(f) \subseteq Nat \ {0}
  BY PiecesInChunks DEF ChunkStarts
<1>2. StateRaw(f) => ~LacksMagic(f, 1, PerChunk)
  BY MagicInFile DEF StateRaw, LacksMagic
<1>3. Boundary(f) = {o \in ChunkStarts(f) : LacksMagic(f, o, PerChunk) /\ RawBefore(f, o)}
  <2>1. \A o : ReadOf(o, 1, PerChunk) = PerChunk
    BY DEF ReadOf
  <2>2. PerChunk > 0
    BY XorAssumption
  <2>3. QED
    BY <2>1, <2>2 DEF Boundary, FindConversionBoundary, RawBefore
<1>4. ASSUME NEW b \in Boundary(f)
      PROVE  /\ b \in ChunkStarts(f) /\ b \in Nat \ {0} /\ LacksMagic(f, b, PerChunk) /\ RawBefore(f, b)
             /\ StateRaw(f) => b > 1
  <2>1. b \in ChunkStarts(f) /\ LacksMagic(f, b, PerChunk) /\ RawBefore(f, b)
    BY <1>3
  <2>2. QED
    BY <1>1, <1>2, <2>1
<1>5. ASSUME Boundary(f) = {} PROVE RawBefore(f, Length[f] + 1)
  <2> DEFINE L == {d \in ChunkStarts(f) : LacksMagic(f, d, PerChunk)}
  <2>1. ASSUME L # {} PROVE FALSE
    <3>1. PICK x \in L : \A y \in L : x <= y
      BY <1>1, <2>1, LeastNumber
    <3>2. \A d \in ChunkStarts(f) : d < x => ~LacksMagic(f, d, PerChunk)
      BY <1>1, <3>1
    <3>3. x \in Boundary(f)
      BY <1>3, <3>1, <3>2 DEF RawBefore
    <3>4. QED
      BY <1>5, <3>3
  <2>2. QED
    BY <2>1 DEF RawBefore
<1>6. Boundary(f) \in MayFind(f)
  BY DEF MayFind
<1>7. QED
  BY <1>4, <1>5, <1>6

\* However much is read, at most one boundary is found.
LEMMA OneBoundary ==
    ASSUME NEW f \in Files, NEW found \in MayFind(f), NEW b \in found, NEW c \in found
    PROVE  b = c /\ b \in ChunkStarts(f) /\ b \in Nat \ {0}
<1>1. PICK x, k : found = FindConversionBoundary(f, x, k)
  BY DEF MayFind, Boundary
<1>2. ChunkStarts(f) \subseteq Nat \ {0}
  BY PiecesInChunks DEF ChunkStarts
<1>3. b \in ChunkStarts(f) /\ c \in ChunkStarts(f) /\ ~(b < c) /\ ~(c < b)
  BY <1>1 DEF FindConversionBoundary
<1>4. QED
  BY <1>2, <1>3

\* A mark more leaves what Left says of a file.
LEMMA MarkedFile ==
    ASSUME NEW f \in Files, Left(f), content'[f] = content[f], marks[f] \subseteq marks'[f]
    PROVE  Left(f)'
<1>1. ObfuscatedFrom(f, 1)' <=> ObfuscatedFrom(f, 1)
  BY DEF ObfuscatedFrom
<1>2. HasTornChunk(f)' <=> HasTornChunk(f)
  BY DEF HasTornChunk
<1>3. \A o : /\ LacksMagic(f, o, PerChunk)' <=> LacksMagic(f, o, PerChunk)
             /\ ObfuscatedFrom(f, o)' <=> ObfuscatedFrom(f, o)
  BY DEF LacksMagic, ObfuscatedFrom
<1>4. (Clean(f)' => Clean(f)) /\ (~Misled(f)' => ~Misled(f))
  BY DEF Clean, Misled
<1>5. QED
  BY <1>1, <1>2, <1>3, <1>4 DEF Left

\* A conversion starts on an untouched file, with the node's key; a repair starts where
\* all that follows is under the key, or the file is marked; no file has two jobs, and
\* none is forgotten.
LEMMA StartStrip ==
    ASSUME TypeOK, StripInv, NEW o \in Options, Start(o)
    PROVE  StripInv'
<1>1. /\ content' = content /\ job' = job /\ opts' = o
      /\ pc = "idle" /\ pc' \in {"zero", "convert"} /\ ~firstErr'
      /\ pc' = "zero" => queue' = {} /\ toRepair' = {}
  BY DEF Start
<1>2. (\A w \in Workers : job[w] = NoJob) /\ \A f \in Files : Left(f)
  BY <1>1 DEF FilesInv, StripInv, PhaseInv, AllJobsDone
<1>3. (KeyOf(opts))' = KeyOf(o) /\ BlkFiles \subseteq Files
  BY <1>1 DEF KeyOf, Files
<1>4. PICK unread \in SUBSET Files :
        \E found \in [{g \in BlkFiles \ unread : o.repair /\ StateRaw(g)} ->
                         UNION {MayFind(f) : f \in {g \in BlkFiles \ unread : o.repair /\ StateRaw(g)}}] :
            /\ \A f \in {g \in BlkFiles \ unread : o.repair /\ StateRaw(g)} : found[f] \in MayFind(f)
            /\ queue' = {[file |-> f, from |-> 1] : f \in
                            {g \in Files \ unread : ~StateRaw(g) /\ StateObfuscated(g, KeyOf(o))}}
            /\ toRepair' = UNION {{[file |-> f, from |-> b] : b \in found[f]} :
                            f \in {g \in BlkFiles \ unread : o.repair /\ StateRaw(g)}}
            /\ marks' = [f \in Files |-> marks[f] \cup
                            IF f \in {g \in BlkFiles \ unread : o.repair /\ StateRaw(g)}
                               /\ ~(found[f] \subseteq Boundary(f)) THEN {"misled"} ELSE {}]
            /\ cut' = (unread # {} \/ \E f \in {g \in BlkFiles \ unread : o.repair /\ StateRaw(g)} :
                                          found[f] # Boundary(f))
  BY Zenon DEF Start
<1> DEFINE partial == {f \in BlkFiles \ unread : o.repair /\ StateRaw(f)}
           toConvert == {f \in Files \ unread : ~StateRaw(f) /\ StateObfuscated(f, KeyOf(o))}
<1>5. PICK found :
        /\ \A f \in partial : found[f] \in MayFind(f)
        /\ queue' = {[file |-> f, from |-> 1] : f \in toConvert}
        /\ toRepair' = UNION {{[file |-> f, from |-> b] : b \in found[f]} : f \in partial}
        /\ marks' = [f \in Files |-> marks[f] \cup
                        IF f \in partial /\ ~(found[f] \subseteq Boundary(f)) THEN {"misled"} ELSE {}]
        /\ cut' = (unread # {} \/ \E f \in partial : found[f] # Boundary(f))
  BY <1>4, Zenon
<1>marks. \A f \in Files : /\ marks[f] \subseteq marks'[f]
                           /\ (Clean(f)' => Clean(f)) /\ (~Misled(f)' => ~Misled(f))
  BY <1>5 DEF Clean, Misled
<1>same. \A f \in Files : \A p : /\ ObfuscatedFrom(f, p)' <=> ObfuscatedFrom(f, p)
                                 /\ RawBefore(f, p)' <=> RawBefore(f, p)
  BY <1>1 DEF ObfuscatedFrom, RawBefore, LacksMagic
<1>6. ASSUME NEW j \in queue'
      PROVE  /\ j \in Jobs /\ j.from = 1 /\ j.file \in Files /\ ~StateRaw(j.file)
             /\ ~Misled(j.file) => KeyOf(o) = NodeKey /\ ObfuscatedFrom(j.file, 1)
  <2>1. PICK f \in Files : j = [file |-> f, from |-> 1] /\ ~StateRaw(f) /\ StateObfuscated(f, KeyOf(o))
    BY <1>5, <1>6
  <2>2. content[f][1] = {KeyOf(o)}
    BY <2>1, MagicInFile DEF StateObfuscated
  <2>3. ~Misled(f) => ObfuscatedFrom(f, 1)
    BY <1>2, <2>2 DEF Left
  <2>4. ~Misled(f) => {KeyOf(o)} = {NodeKey}
    BY <2>2, <2>3, PiecesInChunks DEF ObfuscatedFrom
  <2>5. QED
    BY <2>1, <2>3, <2>4 DEF Jobs
<1>7. ASSUME NEW j \in toRepair'
      PROVE  /\ j \in Jobs /\ j.file \in partial /\ j.file \in Files /\ o.repair /\ StateRaw(j.file)
             /\ j.from \in found[j.file]
             /\ ~Misled(j.file)' => j.from \in Boundary(j.file)
  <2>1. PICK f \in partial : \E b \in found[f] : j = [file |-> f, from |-> b]
    BY <1>5, <1>7
  <2>2. PICK b \in found[f] : j = [file |-> f, from |-> b]
    BY <2>1
  <2>3. f \in Files /\ found[f] \in MayFind(f)
    BY <1>3, <1>5
  <2>4. b \in Nat \ {0}
    BY <2>3, OneBoundary
  <2>5. ~Misled(f)' => found[f] \subseteq Boundary(f)
    BY <1>5, <2>3 DEF Misled
  <2>6. QED
    BY <2>2, <2>3, <2>4, <2>5 DEF Jobs
<1> HIDE DEF partial, toConvert
<1>8. ASSUME NEW j \in queue' PROVE Sound(j)'
  <2>1. j.file \in Files /\ RawBefore(j.file, 1) /\ j.from = 1
    <3>1. j.file \in Files
      BY <1>6, <1>8
    <3>2. QED
      BY <1>6, <1>8, <3>1, PiecesInChunks DEF RawBefore, ChunkStarts
  <2>2. ~Misled(j.file)' => KeyOf(o) = NodeKey /\ ObfuscatedFrom(j.file, 1)'
    BY <1>6, <1>8, <1>marks, <1>same, <2>1
  <2>3. Clean(j.file)' => ~Misled(j.file)'
    BY DEF Clean, Misled
  <2>4. RawBefore(j.file, 1)'
    BY <1>same, <2>1
  <2>5. QED
    BY <1>3, <2>1, <2>2, <2>3, <2>4 DEF Sound
<1>9. ASSUME NEW j \in toRepair' PROVE Sound(j)'
  <2>1. /\ j.file \in Files /\ opts'.repair /\ StateRaw(j.file)
        /\ ~Misled(j.file)' => j.from \in Boundary(j.file)
    BY <1>1, <1>7, <1>9
  <2>2. ~Misled(j.file)' =>
           /\ j.from > 1 /\ j.from \in ChunkStarts(j.file) /\ LacksMagic(j.file, j.from, PerChunk)
           /\ RawBefore(j.file, j.from)
    BY <2>1, BoundaryFacts
  <2>3. ~Misled(j.file)' /\ Clean(j.file) => ObfuscatedFrom(j.file, j.from)
    BY <1>2, <2>1, <2>2 DEF Left
  <2>4. content'[j.file][1] = {}
    BY <1>1, <2>1, MagicInFile DEF StateRaw
  <2>5. Clean(j.file)' => ~Misled(j.file)' /\ Clean(j.file)
    BY <1>marks, <2>1 DEF Clean, Misled
  <2>6. Clean(j.file)' => ObfuscatedFrom(j.file, j.from)' /\ RawBefore(j.file, j.from)'
    BY <1>same, <2>1, <2>2, <2>3, <2>5
  <2>7. QED
    BY <2>1, <2>2, <2>4, <2>6 DEF Sound
<1>10. ASSUME NEW i \in Pending', NEW j \in Pending', i.file = j.file PROVE i = j
  <2>1. i \in Jobs /\ j \in Jobs
    BY <1>6, <1>7, <1>10 DEF Pending
  <2>2. i.from = j.from
    <3>1. CASE i \in queue'
      BY <1>6, <1>7, <1>10, <3>1 DEF Pending
    <3>2. CASE i \in toRepair' /\ j \in toRepair'
      <4>1. /\ i.file \in Files /\ found[i.file] \in MayFind(i.file)
            /\ i.from \in found[i.file] /\ j.from \in found[i.file]
        BY <1>5, <1>7, <1>10, <3>2
      <4>2. QED
        BY <4>1, OneBoundary
    <3>3. CASE i \in toRepair' /\ j \in queue'
      BY <1>6, <1>7, <1>10, <3>3
    <3>4. QED
      BY <1>10, <3>1, <3>2, <3>3 DEF Pending
  <2>3. QED
    BY <1>10, <2>1, <2>2 DEF Jobs
<1>11. JobsInv'
  <2>1. queue' \cap toRepair' = {}
    BY <1>6, <1>7
  <2>2. QED
    BY <1>1, <1>2, <1>8, <1>9, <1>10, <2>1 DEF JobsInv, Pending, Held, Busy
<1>12. PhaseInv'
  BY <1>1, <1>2 DEF PhaseInv, AllJobsDone
<1>13. FilesInv'
  BY <1>1, <1>2, <1>marks, MarkedFile DEF FilesInv
<1>14. ASSUME opts'.repair, KeyOf(o) = NodeKey, ~cut', NEW f \in BlkFiles, Clean(f)', ~HasJob(f)'
       PROVE  RawBefore(f, Length[f] + 1)'
  <2>1. unread = {} /\ o.repair /\ f \in Files /\ Clean(f) /\ ~Misled(f)
    BY <1>1, <1>3, <1>5, <1>14, <1>marks DEF Clean, Misled
  <2>2. StateRaw(f)
    <3>1. ASSUME ~StateRaw(f) PROVE FALSE
      <4>1. \A p \in MagicAt(1) : p \in Pieces(f) /\ content[f][p] = content[f][1]
        <5>1. ~HasTornChunk(f)
          BY <1>2, <2>1 DEF Left, Clean
        <5>2. QED
          BY <2>1, <5>1, MagicInFile, PiecesInChunks DEF HasTornChunk
      <4>2. content[f][1] # {}
        BY <3>1, <4>1 DEF StateRaw
      <4>3. ObfuscatedFrom(f, 1)
        BY <1>2, <2>1, <4>2 DEF Left
      <4>4. content[f][1] = {NodeKey}
        BY <2>1, <4>3, PiecesInChunks DEF ObfuscatedFrom
      <4>5. StateObfuscated(f, KeyOf(o))
        BY <1>14, <4>1, <4>4 DEF StateObfuscated
      <4>6. [file |-> f, from |-> 1] \in queue'
        BY <1>5, <2>1, <3>1, <4>5 DEF toConvert
      <4>7. QED
        BY <1>14, <4>6 DEF HasJob, Pending
    <3>2. QED
      BY <3>1
  <2>3. f \in partial /\ found[f] = Boundary(f)
    BY <1>5, <1>14, <2>1, <2>2 DEF partial
  <2>4. Boundary(f) = {}
    <3>1. ASSUME NEW b \in Boundary(f) PROVE FALSE
      <4>1. [file |-> f, from |-> b] \in toRepair'
        BY <1>5, <2>3
      <4>2. QED
        BY <1>14, <4>1 DEF HasJob, Pending
    <3>2. QED
      BY <3>1
  <2>5. QED
    BY <1>same, <2>1, <2>4, BoundaryFacts
<1>15. CoverInv'
  BY <1>3, <1>14 DEF CoverInv
<1>16. QED
  BY <1>11, <1>12, <1>13, <1>15 DEF StripInv

(***************************************************************************)
(* StripInv is kept: the steps of a run.                                   *)
(***************************************************************************)

\* A run that returns leaves no job.
LEMMA ReturnStrip ==
    ASSUME Return, FilesInv'
    PROVE  StripInv'
<1>1. /\ pc' = "idle" /\ queue' = {} /\ toRepair' = {} /\ firstErr' = FALSE
      /\ \A w \in Workers : job'[w] = NoJob
  BY DEF Return
<1>2. JobsInv' /\ PhaseInv' /\ CoverInv'
  BY <1>1 DEF JobsInv, PhaseInv, CoverInv, Pending, Held, Busy, AllJobsDone
<1>3. QED
  BY <1>2 DEF StripInv

\* Steps that touch no file keep what is said of files and jobs.
LEMMA SameFiles ==
    ASSUME content' = content, marks' = marks
    PROVE  /\ FilesInv => FilesInv'
           /\ opts' = opts => \A j \in Jobs : Sound(j) => Sound(j)'
           /\ \A f \in Files : (Clean(f)' <=> Clean(f))
                                /\ \A o : RawBefore(f, o)' <=> RawBefore(f, o)
<1>1. \A f \in Files : (Left(f) => Left(f)') /\ (Clean(f)' <=> Clean(f))
                          /\ \A o : RawBefore(f, o)' <=> RawBefore(f, o)
  BY UntouchedFile
<1>2. opts' = opts => \A j \in Jobs : Sound(j) => Sound(j)'
  <2>1. \A j \in Jobs : j.file \in Files
    BY DEF Jobs
  <2>2. QED
    BY <2>1, UntouchedFile
<1>3. FilesInv => FilesInv'
  BY <1>1 DEF FilesInv
<1>4. QED
  BY <1>1, <1>2, <1>3

\* A job goes from the channel into the hands of one worker.
LEMMA TakeStrip ==
    ASSUME TypeOK, StripInv, NEW w \in Workers, TakeJob(w)
    PROVE  StripInv'
<1>1. PICK j \in queue : queue' = queue \ {j} /\ job' = [job EXCEPT ![w] = j]
  BY DEF TakeJob
<1>2. /\ content' = content /\ marks' = marks /\ opts' = opts /\ pc' = pc
      /\ toRepair' = toRepair /\ firstErr' = firstErr /\ cut' = cut
      /\ pc \in {"convert", "repair"} /\ ~Busy(w)
  BY DEF TakeJob, Busy
<1>3. /\ j \in Jobs /\ j \in Pending /\ Pending' = Pending \ {j} /\ Pending \subseteq Jobs
      /\ NoJob \notin Jobs
  BY <1>1, <1>2, XorAssumption DEF TypeOK, Pending, StripInv, JobsInv
<1>4. /\ job'[w] = j /\ Busy(w)'
      /\ \A v \in Workers \ {w} : job'[v] = job[v] /\ (Busy(v)' <=> Busy(v))
  BY <1>1, <1>3 DEF TypeOK, Busy
<1>5. (\A i \in Jobs : Sound(i) => Sound(i)') /\ FilesInv'
  BY <1>2, SameFiles DEF StripInv
<1>6. \A i \in Pending' \cup Held' : Sound(i)'
  <2>1. Held' \subseteq Held \cup {j} /\ Held \subseteq Jobs
    BY <1>4 DEF Held, Busy, TypeOK
  <2>2. QED
    BY <1>3, <1>5, <2>1 DEF StripInv, JobsInv
<1>7. JobsInv'
  <2>1. queue' \cap toRepair' = {}
    BY <1>1, <1>2 DEF StripInv, JobsInv
  <2>2. \A i \in Pending' : i.file # j.file /\ i \in Pending
    BY <1>3 DEF StripInv, JobsInv
  <2>3. \A v \in Workers \ {w} : Busy(v) => job[v].file # j.file
    BY <1>3 DEF StripInv, JobsInv
  <2>4. \A u, v \in Workers : Busy(u)' /\ Busy(v)' /\ job'[u].file = job'[v].file => u = v
    BY <1>4, <2>3 DEF StripInv, JobsInv
  <2>5. \A i \in Pending', v \in Workers : Busy(v)' => job'[v].file # i.file
    BY <1>4, <2>2 DEF StripInv, JobsInv
  <2>6. \A i, k \in Pending' : i.file = k.file => i = k
    BY <2>2 DEF StripInv, JobsInv
  <2>7. QED
    BY <1>6, <2>1, <2>4, <2>5, <2>6 DEF JobsInv
<1>8. PhaseInv'
  BY <1>2 DEF StripInv, PhaseInv
<1>9. \A f \in Files : HasJob(f) => HasJob(f)'
  BY <1>2, <1>3, <1>4 DEF HasJob
<1>10. CoverInv'
  BY <1>2, <1>9, SameFiles DEF StripInv, CoverInv, KeyOf, Files
<1>11. QED
  BY <1>5, <1>7, <1>8, <1>10 DEF StripInv

\* A worker lets go of its job, whatever has become of that file.
LEMMA DropJob ==
    ASSUME TypeOK, JobsInv, NEW w \in Workers, Busy(w), job' = [job EXCEPT ![w] = NoJob],
           queue' = queue, toRepair' = toRepair,
           \A j \in Jobs : Sound(j) /\ job[w].file # j.file => Sound(j)'
    PROVE  /\ JobsInv'
           /\ \A f \in Files : HasJob(f) /\ job[w].file # f => HasJob(f)'
<1>1. ~Busy(w)' /\ \A v \in Workers \ {w} : job'[v] = job[v] /\ (Busy(v)' <=> Busy(v))
  BY DEF TypeOK, Busy
<1>2. Pending' = Pending /\ Pending \subseteq Jobs
  BY DEF Pending, TypeOK
<1>3. Held' \subseteq Held /\ Held \subseteq Jobs
  BY <1>1 DEF Held, Busy, TypeOK
<1>4. \A j \in Held' : job[w].file # j.file
  BY <1>1 DEF Held, Busy, JobsInv
<1>5. \A j \in Pending : job[w].file # j.file
  BY DEF JobsInv
<1>6. \A j \in Pending' \cup Held' : Sound(j)'
  BY <1>2, <1>3, <1>4, <1>5 DEF JobsInv
<1>7. \A u, v \in Workers : Busy(u)' /\ Busy(v)' /\ job'[u].file = job'[v].file => u = v
  BY <1>1 DEF JobsInv
<1>8. \A i \in Pending', v \in Workers : Busy(v)' => job'[v].file # i.file
  BY <1>1, <1>2 DEF JobsInv
<1>9. JobsInv'
  BY <1>2, <1>6, <1>7, <1>8 DEF JobsInv
<1>10. \A f \in Files : HasJob(f) /\ job[w].file # f => HasJob(f)'
  BY <1>1, <1>2 DEF HasJob
<1>11. QED
  BY <1>9, <1>10

\* A job is dropped only at the end of its file, or with a note of why not.
LEMMA EndStrip ==
    ASSUME TypeOK, StripInv, NEW w \in Workers, JobDone(w) \/ ReadError(w) \/ JobFails(w)
    PROVE  StripInv'
<1>1. /\ Busy(w) /\ job' = [job EXCEPT ![w] = NoJob] /\ queue' = queue /\ toRepair' = toRepair
      /\ opts' = opts /\ pc' = pc
  BY DEF JobDone, ReadError, JobFails, Busy
<1>2. AllJobsDone => FALSE
  BY <1>1 DEF AllJobsDone, Busy
<1>3. PhaseInv'
  BY <1>1, <1>2 DEF StripInv, PhaseInv
<1>4. CASE JobFails(w) \/ ReadError(w)
  <2>1. PICK k \in Nat : content' = AfterWrites(Alone(w, k))
    BY <1>4, XorAssumption DEF JobFails, ReadError, Torn
  <2>2. Alone(w, k) \in [Workers -> Nat] /\ NoteMarks /\ (firstErr' \/ cut')
    BY <1>4 DEF JobFails, ReadError, Alone
  <2>3. FilesInv'
    BY <2>1, <2>2, FilesAfterWrites DEF StripInv
  <2>4. \A j \in Jobs : Sound(j) /\ job[w].file # j.file => Sound(j)'
    BY <1>1, <2>1, <2>2, OthersSound DEF StripInv
  <2>5. JobsInv'
    BY <1>1, <2>4, DropJob DEF StripInv
  <2>6. QED
    BY <1>3, <2>2, <2>3, <2>5 DEF StripInv, CoverInv
<1>5. CASE JobDone(w)
  <2>1. content' = content /\ marks' = marks /\ firstErr' = firstErr
    BY <1>5 DEF JobDone
  <2>2. /\ FilesInv' /\ \A j \in Jobs : Sound(j) => Sound(j)'
        /\ \A f \in Files : (Clean(f)' <=> Clean(f)) /\ \A o : RawBefore(f, o)' <=> RawBefore(f, o)
    BY <1>1, <2>1, SameFiles DEF StripInv
  <2>3. JobsInv' /\ \A f \in Files : HasJob(f) /\ job[w].file # f => HasJob(f)'
    BY <1>1, <2>2, DropJob DEF StripInv
  <2>4. cut' = cut /\ (KeyOf(opts))' = KeyOf(opts) /\ BlkFiles \subseteq Files
    BY <1>1, <1>5 DEF JobDone, KeyOf, Files
  <2>5. PICK j \in Jobs : j = job[w] /\ Sound(j) /\ j.from > Length[j.file]
    BY <1>1, <1>5 DEF JobDone, TypeOK, StripInv, JobsInv, Held, Busy
  <2>6. ASSUME Clean(j.file), KeyOf(opts) = NodeKey PROVE RawBefore(j.file, Length[j.file] + 1)
    <3>1. RawBefore(j.file, j.from)
      BY <2>5, <2>6 DEF Sound
    <3>2. j.file \in Files /\ j.from \in Nat
      BY DEF Jobs
    <3>3. \A d \in ChunkStarts(j.file) : d < j.from /\ d \in Nat
      BY <2>5, <3>2, XorAssumption DEF ChunkStarts, Pieces
    <3>4. QED
      BY <3>1, <3>3 DEF RawBefore
  <2>7. CoverInv'
    <3> SUFFICES ASSUME opts.repair, KeyOf(opts) = NodeKey, ~cut, ~firstErr, pc # "idle",
                        NEW f \in BlkFiles, Clean(f)', ~HasJob(f)'
                 PROVE  RawBefore(f, Length[f] + 1)'
      BY <1>1, <2>1, <2>4 DEF CoverInv
    <3>1. f \in Files /\ Clean(f)
      BY <2>2, <2>4
    <3>2. CASE job[w].file = f
      BY <2>2, <2>5, <2>6, <3>1, <3>2
    <3>3. CASE job[w].file # f
      <4>1. ~HasJob(f)
        BY <2>3, <3>1, <3>3
      <4>2. RawBefore(f, Length[f] + 1)
        BY <3>1, <4>1 DEF StripInv, CoverInv
      <4>3. QED
        BY <2>2, <3>1, <4>2
    <3>4. QED
      BY <3>2, <3>3
  <2>8. QED
    BY <1>3, <2>2, <2>3, <2>7 DEF StripInv
<1>6. QED
  BY <1>4, <1>5

\* A chunk is stripped; the rest of the job, and all other jobs, stay sound.
LEMMA ChunkStrip ==
    ASSUME TypeOK, StripInv, NEW w \in Workers, XorChunk(w)
    PROVE  StripInv'
<1>1. /\ Busy(w) /\ content' = AfterWrites(Alone(w, PerChunk)) /\ NoteMarks
      /\ job' = [job EXCEPT ![w].from = @ + PerChunk]
      /\ queue' = queue /\ toRepair' = toRepair /\ opts' = opts /\ pc' = pc
      /\ firstErr' = firstErr /\ cut' = cut
  BY DEF XorChunk, Busy
<1>2. /\ PerChunk \in Nat \ {0} /\ Alone(w, PerChunk) \in [Workers -> Nat]
      /\ Alone(w, PerChunk)[w] = PerChunk /\ NoJob \notin Jobs
  BY XorAssumption DEF Alone
<1>3. FilesInv'
  BY <1>1, <1>2, FilesAfterWrites DEF StripInv
<1>4. PICK j \in Jobs : j = job[w] /\ Sound(j) /\ j.from <= Length[j.file]
  BY <1>1 DEF XorChunk, TypeOK, StripInv, JobsInv, Held, Busy
<1>5. PICK i \in Jobs : i.file = j.file /\ i.from = j.from + PerChunk /\ i = job'[w]
  <2>1. [j EXCEPT !.from = @ + PerChunk] \in Jobs
    BY <1>2 DEF Jobs
  <2>2. job'[w] = [j EXCEPT !.from = @ + PerChunk]
    BY <1>1, <1>4 DEF TypeOK
  <2>3. job'[w].file = j.file /\ job'[w].from = j.from + PerChunk
    BY <2>2 DEF Jobs
  <2>4. QED
    BY <2>1, <2>2, <2>3
<1>6. \A v \in Workers \ {w} : job'[v] = job[v]
  BY <1>1 DEF TypeOK
<1>7. \A v \in Workers : (Busy(v)' <=> Busy(v)) /\ (Busy(v) => job'[v].file = job[v].file)
  BY <1>1, <1>2, <1>4, <1>5, <1>6 DEF Busy
<1>8. Sound(i)'
  <2>1. Written(j, PerChunk)
    BY <1>1, <1>2, <1>4, WritesByJob DEF StripInv
  <2>2. Left(j.file)
    BY DEF FilesInv, StripInv, Jobs
  <2>3. PerChunk \in Nat /\ PerChunk > 0
    BY <1>2
  <2>4. \A k \in Jobs : PerChunk > 0 /\ opts' = opts /\ j.from <= Length[j.file]
                          /\ k.file = j.file /\ k.from = j.from + PerChunk => Sound(k)'
    BY <1>1, <1>4, <2>1, <2>2, <2>3, SoundWrite
  <2>5. QED
    BY <1>1, <1>4, <1>5, <2>3, <2>4
<1>9. \A k \in Jobs : Sound(k) /\ j.file # k.file => Sound(k)'
  BY <1>1, <1>2, <1>4, OthersSound DEF StripInv
<1>10. Pending' = Pending /\ Pending \subseteq Jobs
  BY <1>1 DEF Pending, TypeOK
<1>11. ASSUME NEW k \in Held' PROVE Sound(k)'
  <2>1. PICK v \in Workers : k = job'[v] /\ Busy(v)'
    BY <1>11 DEF Held, Busy
  <2>2. CASE v = w
    BY <1>5, <1>8, <2>1, <2>2
  <2>3. CASE v # w
    <3>1. k = job[v] /\ Busy(v) /\ k \in Jobs /\ k \in Held
      BY <1>6, <1>7, <2>1, <2>3 DEF Busy, Held, TypeOK
    <3>2. k.file # j.file
      BY <1>1, <1>4, <2>3, <3>1 DEF StripInv, JobsInv
    <3>3. QED
      BY <1>9, <3>1, <3>2 DEF StripInv, JobsInv
  <2>4. QED
    BY <2>2, <2>3
<1>12. ASSUME NEW k \in Pending' PROVE Sound(k)'
  <2>1. k.file # j.file /\ Sound(k) /\ k \in Jobs
    BY <1>1, <1>4, <1>10 DEF StripInv, JobsInv
  <2>2. QED
    BY <1>9, <2>1
<1>13. JobsInv'
  <2>1. \A u, v \in Workers : Busy(u)' /\ Busy(v)' /\ job'[u].file = job'[v].file => u = v
    BY <1>7 DEF StripInv, JobsInv
  <2>2. \A k \in Pending', v \in Workers : Busy(v)' => job'[v].file # k.file
    BY <1>7, <1>10 DEF StripInv, JobsInv
  <2>3. queue' \cap toRepair' = {} /\ \A k, l \in Pending' : k.file = l.file => k = l
    BY <1>1, <1>10 DEF StripInv, JobsInv
  <2>4. QED
    BY <1>11, <1>12, <2>1, <2>2, <2>3 DEF JobsInv
<1>14. PhaseInv'
  <2>1. ~AllJobsDone
    BY <1>1 DEF AllJobsDone, Busy
  <2>2. QED
    BY <1>1, <2>1 DEF StripInv, PhaseInv
<1>15. CoverInv'
  <2>1. (KeyOf(opts))' = KeyOf(opts) /\ BlkFiles \subseteq Files
    BY <1>1 DEF KeyOf, Files
  <2>2. \A f \in Files : HasJob(f)' <=> HasJob(f)
    BY <1>7, <1>10 DEF HasJob
  <2>3. \A f \in Files : ~HasJob(f) => /\ Clean(f)' <=> Clean(f)
                                       /\ \A o : RawBefore(f, o)' <=> RawBefore(f, o)
    <3>1. ASSUME NEW f \in Files, ~HasJob(f) PROVE content'[f] = content[f] /\ marks'[f] = marks[f]
      BY <1>1, <1>2, <3>1, OthersSound DEF HasJob, StripInv
    <3>2. QED
      BY <3>1, UntouchedFile
  <2>4. QED
    BY <1>1, <2>1, <2>2, <2>3 DEF StripInv, CoverInv
<1>16. QED
  BY <1>3, <1>13, <1>14, <1>15 DEF StripInv

\* From the conversions to the repairs, and from there to xor.dat.
LEMMA PhaseStrip ==
    ASSUME TypeOK, StripInv, ConvertDone \/ RepairDone
    PROVE  StripInv'
<1>1. /\ content' = content /\ marks' = marks /\ job' = job /\ opts' = opts
      /\ firstErr' = firstErr /\ cut' = cut /\ pc # "idle" /\ AllJobsDone /\ ~firstErr
      /\ pc' \in {"repair", "zero"} /\ toRepair' = {}
  BY DEF ConvertDone, RepairDone, StripInv, PhaseInv
<1>2. Pending' = Pending /\ Held' = Held /\ (pc' = "zero" => queue' = {}) /\ Pending \subseteq Jobs
  BY <1>1 DEF ConvertDone, RepairDone, AllJobsDone, Pending, Held, TypeOK
<1>3. /\ FilesInv' /\ \A j \in Jobs : Sound(j) => Sound(j)'
      /\ \A f \in Files : (Clean(f)' <=> Clean(f)) /\ \A o : RawBefore(f, o)' <=> RawBefore(f, o)
  BY <1>1, SameFiles DEF StripInv
<1>4. \A w \in Workers : ~Busy(w) /\ ~Busy(w)'
  BY <1>1 DEF AllJobsDone, Busy
<1>5. Held = {}
  BY <1>4 DEF Held, Busy
<1>6. JobsInv'
  <2>1. \A j \in Pending : Sound(j)'
    BY <1>2, <1>3 DEF StripInv, JobsInv
  <2>2. QED
    BY <1>1, <1>2, <1>4, <1>5, <2>1 DEF StripInv, JobsInv
<1>7. PhaseInv'
  BY <1>1, <1>2 DEF PhaseInv, AllJobsDone
<1>8. CoverInv'
  <2>1. (KeyOf(opts))' = KeyOf(opts) /\ BlkFiles \subseteq Files
    BY <1>1 DEF KeyOf, Files
  <2>2. \A f \in Files : HasJob(f)' <=> HasJob(f)
    BY <1>2, <1>4 DEF HasJob
  <2>3. QED
    BY <1>1, <1>3, <2>1, <2>2 DEF StripInv, CoverInv
<1>9. QED
  BY <1>3, <1>6, <1>7, <1>8 DEF StripInv

\* Every step keeps StripInv.
LEMMA StripStep == TypeOK /\ StripInv /\ [Next]_vars => StripInv'
<1> SUFFICES ASSUME TypeOK, StripInv, [Next]_vars PROVE StripInv'
  OBVIOUS
<1>1. CASE ReturnError \/ ZeroXorDat \/ ZeroFails
  <2>1. content' = content /\ marks' = marks /\ Return
    BY <1>1 DEF ReturnError, ZeroXorDat, ZeroFails
  <2>2. QED
    BY <2>1, SameFiles, ReturnStrip DEF StripInv
<1>2. CASE Kill
  <2>1. PICK n \in [Workers -> Torn] : content' = AfterWrites(n)
    BY <1>2 DEF Kill
  <2>2. n \in [Workers -> Nat]
    BY XorAssumption DEF Torn
  <2>3. NoteMarks /\ Return
    BY <1>2 DEF Kill
  <2>4. QED
    BY <2>1, <2>2, <2>3, FilesAfterWrites, ReturnStrip DEF StripInv
<1>3. CASE UNCHANGED vars
  <2>1. /\ content' = content /\ marks' = marks /\ opts' = opts
        /\ Pending' = Pending /\ Held' = Held /\ Pending \subseteq Jobs /\ Held \subseteq Jobs
    BY <1>3 DEF vars, Pending, Held, TypeOK
  <2>2. /\ FilesInv' /\ \A j \in Jobs : Sound(j) => Sound(j)'
        /\ \A f \in Files : (Clean(f)' <=> Clean(f)) /\ \A o : RawBefore(f, o)' <=> RawBefore(f, o)
    BY <2>1, SameFiles DEF StripInv
  <2>3. JobsInv'
    BY <1>3, <2>1, <2>2 DEF vars, StripInv, JobsInv, Busy
  <2>4. PhaseInv'
    BY <1>3 DEF vars, StripInv, PhaseInv, AllJobsDone
  <2>5. CoverInv'
    BY <1>3, <2>1, <2>2 DEF vars, StripInv, CoverInv, HasJob, Busy, KeyOf, Files
  <2>6. QED
    BY <2>2, <2>3, <2>4, <2>5 DEF StripInv
<1>4. QED
  BY <1>1, <1>2, <1>3, StartStrip, TakeStrip, ChunkStrip, EndStrip, PhaseStrip DEF Next, Step, Main

\* StripInv holds throughout.
LEMMA StripAlways == Spec => [](TypeOK /\ StripInv)
  BY TypeInit, TypeStep, StripInit, StripStep, PTL DEF Spec

(***************************************************************************)
(* What the invariant is for.                                              *)
(***************************************************************************)

\* A step only turns bytes raw, where OnlyReveals says so.
LEMMA RevealStep ==
    ASSUME TypeOK, StripInv, [Next]_vars,
           NEW f \in Files, NEW p \in Pieces(f), content'[f][p] # content[f][p],
           "misled" \notin marks[f],
           opts.repair => MagicEverywhere(f) /\ marks[f] = {} /\ KeyOf(opts) = NodeKey
    PROVE  content'[f][p] = {}
<1>1. ASSUME NEW n \in [Workers -> Nat], content' = AfterWrites(n), NoteMarks PROVE content'[f][p] = {}
  <2>1. PICK w \in Workers : Busy(w) /\ job[w].file = f
    BY <1>1, WritesByJob DEF StripInv
  <2>2. PICK j \in Jobs : j = job[w] /\ Sound(j) /\ j.file = f
    BY <2>1 DEF TypeOK, StripInv, JobsInv, Held, Busy
  <2>3. Written(j, n[w]) /\ n[w] \in Nat
    BY <1>1, <2>1, <2>2, WritesByJob DEF StripInv
  <2>4. ~Misled(f) /\ (~opts.repair \/ (Clean(f) /\ KeyOf(opts) = NodeKey))
    BY KeyTypes DEF Clean, Misled
  <2>5. Left(f)
    BY DEF FilesInv, StripInv
  <2>6. QED
    BY <1>1, <2>2, <2>3, <2>4, <2>5, SoundWrite
<1>2. \A w \in Workers, k \in Nat : Alone(w, k) \in [Workers -> Nat]
  BY DEF Alone
<1>3. Torn \subseteq Nat /\ PerChunk \in Nat
  BY XorAssumption DEF Torn
<1>4. \/ \E w \in Workers : XorChunk(w) \/ JobFails(w) \/ ReadError(w)
      \/ Kill
  BY DEF Next, Step, Main, Start, TakeJob, JobDone, ConvertDone, RepairDone, ReturnError,
         ZeroXorDat, ZeroFails, vars
<1>5. ASSUME NEW w \in Workers, XorChunk(w) PROVE content'[f][p] = {}
  BY <1>1, <1>2, <1>3, <1>5 DEF XorChunk
<1>6. ASSUME NEW w \in Workers, JobFails(w) \/ ReadError(w) PROVE content'[f][p] = {}
  <2>1. PICK k \in Nat : content' = AfterWrites(Alone(w, k))
    <3>1. 0 .. PerChunk - 1 \subseteq Nat
      OBVIOUS
    <3>2. QED
      BY <1>3, <1>6, <3>1, Zenon DEF JobFails, ReadError
  <2>2. NoteMarks
    BY <1>6 DEF JobFails, ReadError
  <2>3. QED
    BY <1>1, <1>2, <2>1, <2>2
<1>7. CASE Kill
  <2>1. PICK n \in [Workers -> Torn] : content' = AfterWrites(n)
    BY <1>7 DEF Kill
  <2>2. n \in [Workers -> Nat] /\ NoteMarks
    BY <1>3, <1>7 DEF Kill
  <2>3. QED
    BY <1>1, <2>1, <2>2
<1>8. QED
  BY <1>4, <1>5, <1>6, <1>7

\* A run without --repair never puts a key on a byte of a file, unless a read cut short has
\* misled an earlier repair of it; and a run with --repair and the node's key never does so
\* in a blk file with magic in every chunk that no run has written to with another key,
\* misled, or stopped in the middle of a chunk of: for any number of runs, each cut short
\* at any byte.
THEOREM StrippingReveals == Spec => OnlyReveals
<1>1. ASSUME TypeOK, StripInv, [Next]_vars
      PROVE  [\A f \in Files : \A p \in Pieces(f) :
                /\ content'[f][p] # content[f][p]
                /\ "misled" \notin marks[f]
                /\ opts.repair => MagicEverywhere(f) /\ marks[f] = {} /\ KeyOf(opts) = NodeKey
                => content'[f][p] = {}]_vars
  BY <1>1, RevealStep
<1>2. QED
  BY <1>1, StripAlways, PTL DEF Spec, OnlyReveals

\* When a repair comes to xor.dat, a clean file is raw.
LEMMA RepairStep ==
    ASSUME TypeOK, StripInv, pc = "zero", opts.repair, KeyOf(opts) = NodeKey, ~cut,
           NEW f \in BlkFiles, MagicEverywhere(f), marks[f] = {}, NEW p \in Pieces(f)
    PROVE  content[f][p] = {}
<1>1. f \in Files /\ Clean(f)
  BY DEF Files, Clean
<1>2. ~HasJob(f)
  BY DEF StripInv, PhaseInv, AllJobsDone, HasJob, Pending, Busy
<1>3. RawBefore(f, Length[f] + 1)
  BY <1>1, <1>2 DEF StripInv, PhaseInv, CoverInv
<1>4. PICK o \in ChunkStarts(f) : p \in ChunkAt(f, o)
  BY <1>1, PiecesInChunks
<1>5. o < Length[f] + 1
  BY <1>1, XorAssumption DEF ChunkStarts, Pieces
<1>6. PICK m \in Magic[f] : /\ o <= m /\ m + MagicSize <= o + PerChunk
                            /\ \A q \in MagicAt(m) : content[f][q] = {}
  BY <1>3, <1>5 DEF RawBefore, LacksMagic
<1>7. m \in MagicAt(m) /\ m \in ChunkAt(f, o)
  <2>1. m \in MagicAt(m)
    BY <1>1, MagicInFile, XorAssumption DEF MagicAt
  <2>2. QED
    BY <1>1, <1>6, <2>1, MagicInFile
<1>8. ~HasTornChunk(f)
  BY <1>1 DEF StripInv, FilesInv, Left
<1>9. content[f][p] = content[f][o] /\ content[f][m] = content[f][o]
  BY <1>4, <1>7, <1>8 DEF HasTornChunk
<1>10. QED
  BY <1>6, <1>7, <1>9

\* A repair with the node's key that reaches its end without an error leaves nothing
\* under a key in a blk file with magic in every chunk that no run has written to with
\* another key, misled, or stopped in the middle of a chunk of: for any history of runs.
THEOREM RepairsComplete == Spec => RepairIsComplete
<1>1. ASSUME TypeOK, StripInv, [Next]_vars
      PROVE  [pc = "zero" /\ pc' = "idle" /\ opts.repair /\ KeyOf(opts) = NodeKey /\ ~cut
                => \A f \in BlkFiles : MagicEverywhere(f) /\ marks[f] = {}
                      => \A p \in Pieces(f) : content[f][p] = {}]_vars
  BY <1>1, RepairStep
<1>2. QED
  BY <1>1, StripAlways, PTL DEF Spec, RepairIsComplete
=============================================================================
