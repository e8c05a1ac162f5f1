---------------------------- MODULE MCWritePath ----------------------------
(* Small instances of WritePath for TLC: two consecutive blk files and the  *)
(* rev file of the first.                                                   *)
EXTENDS WritePath, TLC

CONSTANTS blk0, blk1, rev0

MCNextBlk == blk0 :> blk1 @@ blk1 :> NoFile
Symmetry == Permutations(Writers)
=============================================================================
