------------------------------ MODULE Blockmap ------------------------------
(***************************************************************************)
(* Blockmaps (internal/blockmap): the blocks of a blk file, found by       *)
(* scanning it, written to a file in order, read back by the client.       *)
(*                                                                         *)
(* A blk file is a sequence of units.  The first unit of a block is its    *)
(* preamble and holds the block's length in units, the second its header;  *)
(* all but the first are 0, as is space that was allocated and not         *)
(* written.  Offsets count from 0.                                         *)
(***************************************************************************)
EXTENDS Naturals, Sequences, SequencesExt

Failed == <<[off |-> 0, len |-> 0]>>   \* in place of an error; no block is empty

\* ScanBlkFile: block after block; anything else, or a block that is cut off or has no
\* header, is an error
ScanBlkFile(file) ==
    LET scan[n \in 0 .. Len(file)] ==      \* offset and entries after n rounds of the loop
            IF n = 0 THEN [offset |-> 0, entries |-> <<>>]
            ELSE LET s == scan[n - 1]
                     size == file[s.offset + 1]
                 IN  IF s.offset = Len(file) \/ s.entries = Failed THEN s
                     ELSE IF size < 2 \/ s.offset + size > Len(file)
                     THEN [offset |-> s.offset, entries |-> Failed]
                     ELSE [offset |-> s.offset + size,
                           entries |-> Append(s.entries, [off |-> s.offset, len |-> size])]
    IN  scan[Len(file)].entries

\* Write: the entries, sorted by offset;  Read: they must be in order
WriteBlockmap(entries) ==
    LET places == DOMAIN entries
        order == CHOOSE p \in Bijection(places, places) :
                    \A i, j \in places : i < j => entries[p[i]].off <= entries[p[j]].off
    IN  [i \in places |-> entries[order[i]]]
ReadBlockmap(entries) ==
    IF \A i \in 1 .. Len(entries) - 1 : entries[i].off <= entries[i + 1].off
    THEN entries ELSE Failed

\* Faulty variant of Overlaps: a block that begins at the end of the range is taken and
\* one that ends right behind its start is not
OverlapsOff(entry, offset, length) ==
    entry.off <= offset + length /\ entry.off + entry.len > offset + 1
\* FindBlocks: the entries that overlap the range
Overlaps(entry, offset, length) ==
    entry.off < offset + length /\ entry.off + entry.len > offset
FindBlocks(entries, offset, length) ==
    LET result[i \in 0 .. Len(entries)] ==
            IF i = 0 THEN <<>>
            ELSE IF Overlaps(entries[i], offset, length) THEN Append(result[i - 1], entries[i])
            ELSE result[i - 1]
    IN  result[Len(entries)]
=============================================================================
