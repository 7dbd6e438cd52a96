---------------------------- MODULE MCLibMalloc ----------------------------
(* Small instances of LibMalloc for TLC.                                   *)
EXTENDS LibMalloc, TLC

(* Calls with a size and an alignment in bytes.                            *)
MCWanted == {<<0, 0>>, <<36, 32>>, <<62, 4>>}
=============================================================================
