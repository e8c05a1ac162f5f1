---------------------------- MODULE MCRemoteRead ----------------------------
(* A blk file of two blocks, each a preamble and a header, and two handles  *)
(* on it that two kernel requests may use at a time; a read may begin       *)
(* inside a block and reach into the next, end behind the file or lie       *)
(* behind it.                                                               *)
EXTENDS RemoteRead

CONSTANTS blk, h1, h2, r1, r2

OneFile == [f \in {blk} |-> <<2, 0, 2, 0>>]
BothOnBlk == [h \in Handles |-> blk]
SomeReads == {<<1, 2>>, <<3, 2>>, <<4, 1>>}
=============================================================================
