------------------------------- MODULE RevFile -------------------------------
(***************************************************************************)
(* Undo files (internal/revfile): compressed scripts, coins, the undo data *)
(* of a block and the records of a rev file.  bitcoind writes the file,    *)
(* one record after another, and the package reads it and can write again  *)
(* what it has read.  The file may lose its tail, be longer than its       *)
(* records (bitcoind allocates ahead) or have a damaged byte.              *)
(***************************************************************************)
EXTENDS RevNumbers

CONSTANTS
    opDUP, opHASH160, opEQUALVERIFY, opCHECKSIG, opEQUAL,   \* bytes of a script
    HashSize,     \* length of a hash160, 20 in the code
    CoordSize,    \* length of a coordinate of a public key, 32 in the code
    HeightWord,   \* heights are below it, 2^32 in the code
    CurvePoints,  \* the <<x, y>> that are public keys, a check only bitcoind makes
    MainnetMagic, \* the 4 bytes a record begins with
    ChecksumSize, \* length of a checksum, 32 in the code
    Undos,        \* block undo data: sequences of transactions' sequences of coins
    PrevHashes,   \* hashes of previous blocks
    MaxRecords,   \* bound on the records written
    DamageBytes,  \* the values a damaged byte takes
    MaxPadding    \* bound on the bytes allocated behind them

VARIABLES
    file,         \* the bytes of the rev file
    written,      \* the records written: [undo, prev, end] with the offset of their end
    damaged,      \* numbers of the records whose undo data was damaged
    whole         \* FALSE once the file was cut, padded or damaged

vars == <<file, written, damaged, whole>>

\* go on with K after a read that worked, on its value and what is left
Then(r, K(_, _)) == IF r.ok THEN K(r.value, r.rest) ELSE r

\* a sequence of byte sequences, written one after another
Joined(parts) ==
    LET joined[i \in 0 .. Len(parts)] == IF i = 0 THEN <<>> ELSE joined[i - 1] \o parts[i]
    IN  joined[Len(parts)]
\* The rounds of a loop that reads n items from s: an item takes at least one byte, so
\* the loop ends with an error, if not before, in the round after the last byte.
Rounds(n, s) == IF n <= Len(s) THEN n ELSE Len(s) + 1

-----------------------------------------------------------------------------
(* Scripts.  The special forms have a size byte below nSpecialScripts.     *)

nSpecialScripts == 6

P2PKH(hash160) == <<opDUP, opHASH160, HashSize>> \o hash160 \o <<opEQUALVERIFY, opCHECKSIG>>
P2SH(hash160) == <<opHASH160, HashSize>> \o hash160 \o <<opEQUAL>>
P2PK(prefix, x) == <<CoordSize + 1, prefix>> \o x \o <<opCHECKSIG>>
P2PKUncompressed(x, y) == <<2 * CoordSize + 1, 4>> \o x \o y \o <<opCHECKSIG>>

Hash160(s, start) == SubSeq(s, start, start + HashSize - 1)
Coordinate(s, start) == SubSeq(s, start, start + CoordSize - 1)

IsP2PKH(s) == Len(s) = HashSize + 5 /\ s = P2PKH(Hash160(s, 4))
IsP2SH(s) == Len(s) = HashSize + 3 /\ s = P2SH(Hash160(s, 3))
IsP2PK(s) == Len(s) = CoordSize + 3 /\ s[2] \in {2, 3} /\ s = P2PK(s[2], Coordinate(s, 3))
IsP2PKUncompressed(s) ==
    /\ Len(s) = 2 * CoordSize + 3
    /\ s = P2PKUncompressed(Coordinate(s, 3), Coordinate(s, 3 + CoordSize))
\* an uncompressed key with its y coordinate reduced to whether it is odd
Synthetic(s) == <<4 + (s[2 * CoordSize + 2] % 2)>> \o Coordinate(s, 3)
\* the form ReadCompressedScript returns for an uncompressed key
IsSynthetic(s) == Len(s) = CoordSize + 1 /\ s[1] \in {4, 5}

\* Faulty variant of WriteCompressedScript: the synthetic form is written as a raw script
WriteCompressedScriptRaw(s) ==
    IF IsP2PKH(s) THEN <<0>> \o Hash160(s, 4)
    ELSE IF IsP2SH(s) THEN <<1>> \o Hash160(s, 3)
    ELSE IF IsP2PK(s) THEN <<s[2]>> \o Coordinate(s, 3)
    ELSE IF IsP2PKUncompressed(s) THEN Synthetic(s)
    ELSE WriteVarInt(Len(s) + nSpecialScripts) \o s
WriteCompressedScript(s) ==
    IF IsP2PKH(s) THEN <<0>> \o Hash160(s, 4)
    ELSE IF IsP2SH(s) THEN <<1>> \o Hash160(s, 3)
    ELSE IF IsP2PK(s) THEN <<s[2]>> \o Coordinate(s, 3)
    ELSE IF IsP2PKUncompressed(s) THEN Synthetic(s)
    ELSE IF IsSynthetic(s) THEN s
    ELSE WriteVarInt(Len(s) + nSpecialScripts) \o s

ReadCompressedScript(s) ==
    Then(ReadVarInt(s), LAMBDA nSize, rest :
        LET payload == IF nSize < 2 THEN HashSize ELSE IF nSize < nSpecialScripts THEN CoordSize
                       ELSE nSize - nSpecialScripts
        IN Then(ReadFull(rest, payload), LAMBDA p, t :
             Ok(IF nSize = 0 THEN P2PKH(p)
                ELSE IF nSize = 1 THEN P2SH(p)
                ELSE IF nSize \in {2, 3} THEN P2PK(nSize, p)
                ELSE IF nSize \in {4, 5} THEN <<nSize>> \o p
                ELSE p, t)))

\* bitcoind's form of a script: of uncompressed keys it shortens those on the curve
IsPublicKey(s) ==
    IsP2PKUncompressed(s) /\ <<Coordinate(s, 3), Coordinate(s, 3 + CoordSize)>> \in CurvePoints
CoreScript(s) ==
    IF IsP2PKH(s) THEN <<0>> \o Hash160(s, 4)
    ELSE IF IsP2SH(s) THEN <<1>> \o Hash160(s, 3)
    ELSE IF IsP2PK(s) THEN <<s[2]>> \o Coordinate(s, 3)
    ELSE IF IsPublicKey(s) THEN Synthetic(s)
    ELSE WriteVarInt(Len(s) + nSpecialScripts) \o s

-----------------------------------------------------------------------------
(* Coins and the undo data of transactions and blocks, as the package      *)
(* writes them and as bitcoind does, which differ in the scripts.          *)

\* height and coinbase in one number, a dummy byte unless the height is zero, and
\* the amount; the script follows
CoinNumbers(c) ==
    WriteVarInt(c.height * 2 + IF c.coinBase THEN 1 ELSE 0)
        \o (IF c.height > 0 THEN <<0>> ELSE <<>>) \o WriteVarInt(CompressAmount(c.value))
SerializeCoin(c) == CoinNumbers(c) \o WriteCompressedScript(c.script)
CoreCoin(c) == CoinNumbers(c) \o CoreScript(c.script)

Height(packed) == (packed \div 2) % HeightWord

DeserializeCoin(s) ==
    Then(ReadVarInt(s), LAMBDA packed, s1 :
    Then(IF Height(packed) > 0 THEN ReadFull(s1, 1) ELSE Ok(<<0>>, s1), LAMBDA dummy, s2 :
    IF dummy # <<0>> THEN Fail("bad") ELSE
    Then(ReadVarInt(s2), LAMBDA amount, s3 :
    Then(ReadCompressedScript(s3), LAMBDA script, s4 :
        Ok([height |-> Height(packed), coinBase |-> packed % 2 = 1,
            value |-> DecompressAmount(amount), script |-> script], s4)))))

SerializeTxUndo(coins) ==
    WriteCompactSize(Len(coins)) \o Joined([i \in 1 .. Len(coins) |-> SerializeCoin(coins[i])])
CoreTxUndo(coins) ==
    WriteCompactSize(Len(coins)) \o Joined([i \in 1 .. Len(coins) |-> CoreCoin(coins[i])])
DeserializeCoins(n, s) ==
    LET coins[i \in 0 .. Rounds(n, s)] ==
            IF i = 0 THEN Ok(<<>>, s)
            ELSE Then(coins[i - 1], LAMBDA before, rest :
                 Then(DeserializeCoin(rest), LAMBDA coin, t : Ok(Append(before, coin), t)))
    IN  coins[Rounds(n, s)]
DeserializeTxUndo(s) == Then(ReadCompactSize(s), LAMBDA n, rest : DeserializeCoins(n, rest))

SerializeBlockUndo(txs) ==
    WriteCompactSize(Len(txs)) \o Joined([i \in 1 .. Len(txs) |-> SerializeTxUndo(txs[i])])
CoreBlockUndo(txs) ==
    WriteCompactSize(Len(txs)) \o Joined([i \in 1 .. Len(txs) |-> CoreTxUndo(txs[i])])
DeserializeTxUndos(n, s) ==
    LET txs[i \in 0 .. Rounds(n, s)] ==
            IF i = 0 THEN Ok(<<>>, s)
            ELSE Then(txs[i - 1], LAMBDA before, rest :
                 Then(DeserializeTxUndo(rest), LAMBDA tx, t : Ok(Append(before, tx), t)))
    IN  txs[Rounds(n, s)]
DeserializeBlockUndo(s) == Then(ReadCompactSize(s), LAMBDA n, rest : DeserializeTxUndos(n, rest))

-----------------------------------------------------------------------------
(* Records.                                                                *)

StorageHeaderSize == 8
\* sha256d of the previous block's hash and the undo data: no two inputs agree
Sha256d(prev, raw) == [i \in 1 .. ChecksumSize |-> <<prev, raw, i>>]

RecordOf(raw, checksum) == MainnetMagic \o LittleEndian(Len(raw), 4) \o raw \o checksum
SerializeRecord(undo, prev) ==
    RecordOf(SerializeBlockUndo(undo), Sha256d(prev, SerializeBlockUndo(undo)))
CoreRecord(undo, prev) == RecordOf(CoreBlockUndo(undo), Sha256d(prev, CoreBlockUndo(undo)))

\* Faulty variant of ParseRecord: the checksum of the last record may be short
ParseRecordShort(s) ==
    Then(ReadFull(s, 4), LAMBDA magic, s1 :
    IF magic # MainnetMagic THEN Fail("bad") ELSE
    Then(ReadFull(s1, 4), LAMBDA size, s2 :
    Then(ReadFull(s2, FromLittleEndian(size)), LAMBDA raw, s3 :
    Then(IF Len(s3) < ChecksumSize THEN Ok(s3, <<>>) ELSE ReadFull(s3, ChecksumSize), LAMBDA checksum, s4 :
    Then(DeserializeBlockUndo(raw), LAMBDA undo, unread :
        Ok([undo |-> undo, checksum |-> checksum, rawUndo |-> raw], s4))))))
ParseRecord(s) ==
    Then(ReadFull(s, 4), LAMBDA magic, s1 :
    IF magic # MainnetMagic THEN Fail("bad") ELSE
    Then(ReadFull(s1, 4), LAMBDA size, s2 :
    Then(ReadFull(s2, FromLittleEndian(size)), LAMBDA raw, s3 :
    Then(ReadFull(s3, ChecksumSize), LAMBDA checksum, s4 :
    Then(DeserializeBlockUndo(raw), LAMBDA undo, unread :
        Ok([undo |-> undo, checksum |-> checksum, rawUndo |-> raw], s4))))))

\* every record up to the end of the file, each of which takes a header and a checksum;
\* running out of bytes, in the file or within a record's undo data, is not an error
ParseAllRecords(s) ==
    LET Parse(p) ==
            LET r == ParseRecord(p.rest) IN
            IF p.ended THEN p
            ELSE IF r.ok THEN [records |-> Append(p.records, r.value), rest |-> r.rest,
                               ended |-> FALSE, err |-> FALSE]
            ELSE [records |-> p.records, rest |-> p.rest, ended |-> TRUE, err |-> r.why = "bad"]
        after[i \in 0 .. Len(s) \div (StorageHeaderSize + ChecksumSize) + 1] ==
            IF i = 0 THEN [records |-> <<>>, rest |-> s, ended |-> FALSE, err |-> FALSE]
            ELSE Parse(after[i - 1])
    IN  after[Len(s) \div (StorageHeaderSize + ChecksumSize) + 1]

\* Faulty variant of VerifyChecksum: the previous block's hash is left out
VerifyChecksumOfData(rec, prev) == \E p \in PrevHashes : rec.checksum = Sha256d(p, rec.rawUndo)
VerifyChecksum(rec, prev) == rec.checksum = Sha256d(prev, rec.rawUndo)

-----------------------------------------------------------------------------
Coin == [height : 0 .. HeightWord - 1, coinBase : BOOLEAN, value : Nat, script : Seq(Byte)]
\* the lengths of the special scripts tell them apart
ASSUME FormatAssumption ==
    /\ {opDUP, opHASH160, opEQUALVERIFY, opCHECKSIG, opEQUAL} \subseteq Byte
    /\ HeightWord \in Nat \ {0} /\ 2 * HeightWord <= Word
    /\ HashSize \in Byte /\ CoordSize \in Nat /\ 2 * CoordSize + 1 \in Byte
    /\ nSpecialScripts <= Half /\ nSpecialScripts < Word
    /\ {2 * CoordSize + 3, CoordSize + 1} \cap {HashSize + 5, HashSize + 3, CoordSize + 3} = {}
    /\ MainnetMagic \in Seq(Byte) /\ Len(MainnetMagic) = 4 /\ MainnetMagic # <<0, 0, 0, 0>>
    /\ ChecksumSize \in Nat \ {0} /\ MaxPadding \in Nat
\* every number of the undo data fits into its word, and the size of all into 4 bytes
ASSUME UndoAssumption ==
    \A undo \in Undos :
       /\ undo \in Seq(Seq(Coin)) /\ Len(undo) < Word
       /\ \E k \in 1 .. 4 : Len(CoreBlockUndo(undo)) < Power(Radix, k)
       /\ \A t \in 1 .. Len(undo) :
          /\ Len(undo[t]) < Word
          /\ \A c \in 1 .. Len(undo[t]) :
             /\ (Zeros + 1) * undo[t][c].value < Word
             /\ Len(undo[t][c].script) + nSpecialScripts < Word

Init == file = <<>> /\ written = <<>> /\ damaged = {} /\ whole = TRUE

\* bitcoind connects a block and writes its undo data
AppendRecord(undo, prev) ==
    LET bytes == CoreRecord(undo, prev) IN
    /\ whole /\ Len(written) < MaxRecords
    /\ file' = file \o bytes
    /\ written' = Append(written, [undo |-> undo, prev |-> prev, end |-> Len(file) + Len(bytes)])
    /\ UNCHANGED <<damaged, whole>>

\* the file was copied while it grew, or the download was cut
Cut(k) ==
    /\ whole /\ file' = SubSeq(file, 1, k) /\ whole' = FALSE /\ UNCHANGED <<written, damaged>>
\* space bitcoind has allocated ahead
Preallocate(k) ==
    /\ whole /\ file' = file \o [i \in 1 .. k |-> 0] /\ whole' = FALSE
    /\ UNCHANGED <<written, damaged>>
\* a byte of the undo data of record i is changed
Damage(i, k, b) ==
    LET start == IF i = 1 THEN 0 ELSE written[i - 1].end IN
    /\ whole /\ start + StorageHeaderSize < k /\ k <= written[i].end - ChecksumSize /\ file[k] # b
    /\ file' = [file EXCEPT ![k] = b] /\ damaged' = {i} /\ whole' = FALSE
    /\ UNCHANGED written

Next ==
    \/ \E undo \in Undos, prev \in PrevHashes : AppendRecord(undo, prev)
    \/ \E k \in 1 .. Len(file) : Cut(k)
    \/ \E k \in 1 .. MaxPadding : Preallocate(k)
    \/ \E i \in 1 .. Len(written), k \in 1 .. Len(file), b \in DamageBytes : Damage(i, k, b)

Spec == Init /\ [][Next]_vars

-----------------------------------------------------------------------------
\* what reading gives back for a script: an uncompressed key loses its y coordinate
Canonical(script) == IF IsPublicKey(script) THEN Synthetic(script) ELSE script
CanonicalUndo(undo) ==
    [t \in DOMAIN undo |-> [c \in DOMAIN undo[t] |->
        [undo[t][c] EXCEPT !.script = Canonical(@)]]]

\* Parsing a file that was cut or padded anywhere returns exactly the records that are
\* there in full, with the undo data that was written (up to the form of uncompressed
\* keys); it reports an error when what follows the last record is not a magic, and
\* none when the file just ends.
ParsesCompleteRecords ==
    damaged = {} =>
        LET parsed == ParseAllRecords(file)
            over == Len(file) - (IF written = <<>> THEN 0 ELSE written[Len(written)].end)
        IN  /\ DOMAIN parsed.records = {i \in DOMAIN written : written[i].end <= Len(file)}
            /\ \A i \in DOMAIN parsed.records : parsed.records[i].undo = CanonicalUndo(written[i].undo)
            /\ parsed.err = (over >= Len(MainnetMagic))

\* scripts bitcoind keeps in full and the package writes in the form of a key: those
\* that look like the synthetic form, and those of an uncompressed key that is none
TakenForKey(script) ==
    IsSynthetic(script) \/ (IsP2PKUncompressed(script) /\ ~IsPublicKey(script))

\* A record of bitcoind's that was read can be written again, checksum and all: the
\* bytes are those of the original, also for the synthetic form of an uncompressed key
\* (script.go:85-88), unless the record has a script that is taken for a key.
RewritesTheSame ==
    damaged = {} =>
        LET records == ParseAllRecords(file).records IN
        \A i \in DOMAIN records :
            \/ \E t \in DOMAIN written[i].undo : \E c \in DOMAIN written[i].undo[t] :
                    TakenForKey(written[i].undo[t][c].script)
            \/ SerializeRecord(records[i].undo, written[i].prev)
               = RecordOf(records[i].rawUndo, records[i].checksum)

\* The checksum tells a record from a damaged one, and from one that follows another
\* block; records before the damaged one are read as they were written.
ChecksumsTell ==
    LET records == ParseAllRecords(file).records IN
    \A i \in DOMAIN records : \A prev \in PrevHashes :
        VerifyChecksum(records[i], prev) <=>
            /\ prev = written[i].prev
            /\ i \notin damaged
            /\ records[i].undo = CanonicalUndo(written[i].undo)
=============================================================================
