----------------------------- MODULE MCRevFile -----------------------------
(* Rev files of up to two records with coins of every script form, also     *)
(* scripts that look like a key and are none, and the number formats on     *)
(* their own, one number to a state.  Bytes are numbers below 14, so that   *)
(* every format of a number is within reach.                                *)
EXTENDS RevFile, NumberFormats

Magic == <<13, 11, 12, 13>>
Bytes(b, k) == [i \in 1 .. k |-> b]
ACoin(h, cb, v, s) == [height |-> h, coinBase |-> cb, value |-> v, script |-> s]
Coins1 == <<ACoin(0, TRUE, 0, P2PKH(Bytes(7, 2))), ACoin(1, FALSE, 5000, P2PK(3, Bytes(1, 3)))>>
Coins2 == <<ACoin(64, FALSE, 10, P2PKUncompressed(Bytes(2, 3), Bytes(5, 3)))>>
Coins3 == <<ACoin(70, TRUE, 123, P2SH(Bytes(3, 2))), ACoin(2, FALSE, 1, <<>>), ACoin(0, FALSE, 9, Bytes(9, 3))>>
Coins4 == <<ACoin(3, FALSE, 7, <<5, 1, 2, 3>>)>>
Coins5 == <<ACoin(0, TRUE, 2, P2PKUncompressed(Bytes(2, 3), Bytes(6, 3)))>>
SomeUndos == {<<>>, <<Coins1, <<>>>>, <<Coins2, Coins3>>, <<Coins4>>, <<Coins5>>}
SomePoints == {<<Bytes(2, 3), Bytes(5, 3)>>}
TwoBytes == <<3, 5>>

\* numbers around every boundary: VarInt groups, CompactSize thresholds, powers of ten
Boundaries == {7 + 49, 7 + 49 + 343, 14 ^ 2, 14 ^ 4, 14 ^ 6} \cup {10 ^ k : k \in 0 .. 6}
Samples == (0 .. 600) \cup UNION {{b - 2, b - 1, b, b + 1, b + 2} \cap (0 .. 14 ^ 6 - 1) : b \in Boundaries}

MCInit == Init /\ number \in Samples
MCNext == number = 0 /\ Next /\ UNCHANGED number
MCSpec == MCInit /\ [][MCNext]_<<vars, number>>
=============================================================================
