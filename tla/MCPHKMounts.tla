---------------------------- MODULE MCPHKMounts ----------------------------
(***************************************************************************)
(* A package P with a map and all the scripts, its sub-package C, and a    *)
(* library Q that has a plugin and unmounts itself when it was run.        *)
(***************************************************************************)
EXTENDS PHKMounts

CONSTANTS P, C, Q

MCMnts == {P, C, Q}
MCParentOf == [m \in MCMnts |-> IF m = C THEN P ELSE NoMnt]
=============================================================================
