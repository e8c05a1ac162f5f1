-------------------------- MODULE MCArchiveServer --------------------------
(* Small instances of ArchiveServer for TLC: a blk file and its rev file.   *)
EXTENDS ArchiveServer

CONSTANTS blk0, rev0

MCBlkOf == [f \in Names |-> IF f = rev0 THEN blk0 ELSE f]
=============================================================================
