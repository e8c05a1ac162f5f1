------------------------------ MODULE MCSyncer ------------------------------
(* Small instances of Syncer for TLC: a blk file and its rev file.          *)
EXTENDS Syncer

CONSTANTS blk0, rev0

MCBlkOf == [f \in Names |-> IF f = rev0 THEN blk0 ELSE f]
=============================================================================
