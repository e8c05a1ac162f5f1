---------------------------- MODULE NumberFormats ----------------------------
(***************************************************************************)
(* What the number formats of undo files promise of a number, of the bytes *)
(* it stands for and of the amount it compresses to.                       *)
(***************************************************************************)
EXTENDS RevNumbers

CONSTANTS
    Follows,      \* what comes behind a number in the stream
    Width         \* length of the byte sequences that are read as VarInts

VARIABLE number

\* VarInts and CompactSizes read back as they were written, whatever follows in the
\* stream.  Every sequence of Width bytes that begins with a VarInt begins with the one
\* that is written for its value, so no value has two encodings of that length (longer
\* ones may exceed a word and wrap around); and a CompactSize that is cut off is an error
\* and not another number.
NumbersReadBack ==
    /\ ReadVarInt(WriteVarInt(number) \o Follows) = Ok(number, Follows)
    /\ LET bytes == LittleEndian(number, Width)
           r == ReadVarInt(bytes)
       IN  r.ok => WriteVarInt(r.value) \o r.rest = bytes
    /\ LET bytes == WriteCompactSize(number) IN
       /\ ReadCompactSize(bytes \o Follows) = Ok(number, Follows)
       /\ \A k \in 0 .. Len(bytes) - 1 : ~ReadCompactSize(SubSeq(bytes, 1, k)).ok

\* Amount compression loses nothing, and no two amounts share a compressed form: every
\* number is the compressed form of exactly one amount.  Both as far as the numbers fit
\* into a word, which they do for all the money there is.
AmountBijective ==
    /\ (Zeros + 1) * number < Word => DecompressAmount(CompressAmount(number)) = number
    /\ (\/ number = 0
        \/ Mantissa(number) <= (Word - 1) \div Power(10, Exponent(number)))
       => CompressAmount(DecompressAmount(number)) = number
=============================================================================
