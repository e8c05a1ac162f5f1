----------------------------- MODULE RevNumbers -----------------------------
(***************************************************************************)
(* The number formats of Bitcoin Core's undo files (internal/revfile):     *)
(* VarInt, CompactSize and compressed amounts.                             *)
(*                                                                         *)
(* A byte is a number below Radix (256 in the code) and a uint64 a number  *)
(* below Word.  Smaller values keep every boundary of the formats within   *)
(* reach.  A reader takes a byte sequence and returns what it read         *)
(* and the rest, or why it failed: "eof" (io.ReadFull came to the end) or  *)
(* "bad".                                                                  *)
(***************************************************************************)
EXTENDS Naturals, Sequences

CONSTANTS
    Radix,        \* number of byte values
    Word,         \* number of uint64 values
    BufLen,       \* length of WriteVarInt's buffer, 10 in the code
    Zeros         \* decimal zeros stripped from an amount, 9 in the code

Half == Radix \div 2
Byte == 0 .. Radix - 1

\* b to the k-th
Power(b, k) == LET power[i \in 0 .. k] == IF i = 0 THEN 1 ELSE b * power[i - 1] IN power[k]

\* a uint64 fits into the buffer and into eight bytes
ASSUME RadixAssumption ==
    /\ Radix \in Nat /\ Radix % 2 = 0 /\ Radix >= 6 /\ Zeros \in Nat
    /\ Word \in Nat \ {0} /\ BufLen \in Nat \ {0}
    /\ \E k \in 1 .. BufLen : Word <= Power(Half, k)
    /\ \E k \in 1 .. 8 : Word <= Power(Radix, k)

Ok(value, rest) == [ok |-> TRUE, value |-> value, rest |-> rest]
Fail(why) == [ok |-> FALSE, why |-> why]

\* io.ReadFull of n bytes
ReadFull(s, n) ==
    IF Len(s) < n THEN Fail("eof") ELSE Ok(SubSeq(s, 1, n), SubSeq(s, n + 1, Len(s)))

-----------------------------------------------------------------------------
\* The lowest group comes last and has no continuation bit; each higher group is
\* stored minus one.  after[i].n is what is left of n with i groups before the last.
WriteVarInt(n) ==
    LET Group(s) == IF s.n = 0 THEN s
                    ELSE [n |-> (s.n - 1) \div Half, buf |-> <<Half + ((s.n - 1) % Half)>> \o s.buf]
        after[i \in 0 .. BufLen - 1] ==
            IF i = 0 THEN [n |-> n \div Half, buf |-> <<n % Half>>] ELSE Group(after[i - 1])
    IN  after[BufLen - 1].buf

\* up to the first byte without the continuation bit; the result wraps around at Word
ReadVarInt(s) ==
    LET ends == {k \in DOMAIN s : s[k] < Half}
        last == CHOOSE k \in ends : \A j \in ends : k <= j
        n[k \in 0 .. last] ==
            IF k = 0 THEN 0
            ELSE (n[k - 1] * Half + (s[k] % Half) + IF s[k] < Half THEN 0 ELSE 1) % Word
    IN  IF ends = {} THEN Fail("eof") ELSE Ok(n[last], SubSeq(s, last + 1, Len(s)))

-----------------------------------------------------------------------------
LittleEndian(n, width) ==
    LET shifted[i \in 0 .. width] == IF i = 0 THEN n ELSE shifted[i - 1] \div Radix
    IN  [i \in 1 .. width |-> shifted[i - 1] % Radix]
FromLittleEndian(s) ==
    LET n[i \in 0 .. Len(s)] == IF i = 0 THEN 0 ELSE n[i - 1] * Radix + s[Len(s) + 1 - i]
    IN  n[Len(s)]

\* Faulty variant of WriteCompactSize: 0xFD is written as a single byte
WriteCompactSizeLate(n) ==
    IF n <= Radix - 3 THEN <<n>>
    ELSE IF n < Power(Radix, 2) THEN <<Radix - 3>> \o LittleEndian(n, 2)
    ELSE IF n < Power(Radix, 4) THEN <<Radix - 2>> \o LittleEndian(n, 4)
    ELSE <<Radix - 1>> \o LittleEndian(n, 8)
\* one byte up to 0xFC, else a marker and 2, 4 or 8 bytes
WriteCompactSize(n) ==
    IF n <= Radix - 4 THEN <<n>>
    ELSE IF n < Power(Radix, 2) THEN <<Radix - 3>> \o LittleEndian(n, 2)
    ELSE IF n < Power(Radix, 4) THEN <<Radix - 2>> \o LittleEndian(n, 4)
    ELSE <<Radix - 1>> \o LittleEndian(n, 8)

ReadCompactSize(s) ==
    LET tail == SubSeq(s, 2, Len(s))
        Number(width) == LET r == ReadFull(tail, width)
                         IN  IF r.ok THEN Ok(FromLittleEndian(r.value), r.rest) ELSE r
    IN  IF s = <<>> THEN Fail("eof")
        ELSE IF s[1] = Radix - 3 THEN Number(2)
        ELSE IF s[1] = Radix - 2 THEN Number(4)
        ELSE IF s[1] = Radix - 1 THEN Number(8)
        ELSE Ok(s[1], tail)

-----------------------------------------------------------------------------
\* an amount without its trailing decimal zeros, and how many these were
Stripped(n) ==
    LET after[i \in 0 .. Zeros] ==
            IF i = 0 THEN [n |-> n, e |-> 0]
            ELSE LET s == after[i - 1] IN
                 IF s.n % 10 = 0 THEN [n |-> s.n \div 10, e |-> s.e + 1] ELSE s
    IN  after[Zeros]

\* Faulty variant of CompressAmount: the largest exponent is not treated apart
CompressAmountUniform(n) ==
    LET s == Stripped(n) IN
    IF n = 0 THEN 0
    ELSE (1 + ((s.n \div 10) * 9 + (s.n % 10) - 1) * (Zeros + 1) + s.e) % Word
\* exponent, last digit (never zero unless all zeros were stripped) and the rest
CompressAmount(n) ==
    LET s == Stripped(n) IN
    IF n = 0 THEN 0
    ELSE IF s.e < Zeros
    THEN (1 + ((s.n \div 10) * 9 + (s.n % 10) - 1) * (Zeros + 1) + s.e) % Word
    ELSE (1 + (s.n - 1) * (Zeros + 1) + s.e) % Word

\* the parts of a compressed amount that is not zero
Exponent(x) == (x - 1) % (Zeros + 1)
Mantissa(x) ==
    LET y == (x - 1) \div (Zeros + 1) IN
    IF Exponent(x) < Zeros THEN (y \div 9) * 10 + (y % 9) + 1 ELSE y + 1
DecompressAmount(x) ==
    LET n[i \in 0 .. Exponent(x)] == IF i = 0 THEN Mantissa(x) ELSE (n[i - 1] * 10) % Word
    IN  IF x = 0 THEN 0 ELSE n[Exponent(x)]
=============================================================================
