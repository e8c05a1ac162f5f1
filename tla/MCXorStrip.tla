----------------------------- MODULE MCXorStrip -----------------------------
(* A blk file of two chunks, the second short and with its magic not at its *)
(* start, and a rev file.                                                   *)
EXTENDS XorStrip, TLC

CONSTANTS blk0, rev0, w1, w2

FileLength == (blk0 :> 7) @@ (rev0 :> 2)
FileMagic == (blk0 :> {1, 6}) @@ (rev0 :> {1})
AllOptions == [key : {NodeKey, OtherKey, "none"}, repair : BOOLEAN]
PlainOnly == {[key |-> "none", repair |-> FALSE]}
=============================================================================
