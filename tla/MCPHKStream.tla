---------------------------- MODULE MCPHKStream ----------------------------
(***************************************************************************)
(* A file of a package, and a directory of one that is being created.      *)
(***************************************************************************)
EXTENDS PHKStream

CONSTANTS F, D, P, C

MCMnt == [u \in {F, D} |-> IF u = F THEN P ELSE C]
MCContents == {[u \in {F, D} |-> IF u = F THEN f ELSE d] : f \in {NULL, 2}, d \in {0, 1}}
MCOffsets == {-1, 1, 7}
=============================================================================
