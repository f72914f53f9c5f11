-------------------------- MODULE MCAutomapResolve --------------------------
(***************************************************************************)
(* Two symbols; two map files and the map of a package, which between them *)
(* have an entry of every type.                                            *)
(***************************************************************************)
EXTENDS AutomapResolve

CONSTANTS A, B, M, N, PM, S, T, X, P

MCEntry == [m \in {M, N, PM} |->
  CASE m = M  -> [s \in {A, B} |-> IF s = A THEN S ELSE P]
    [] m = N  -> [s \in {A, B} |-> IF s = A THEN P ELSE X]
    [] m = PM -> [s \in {A, B} |-> IF s = A THEN NULL ELSE T]]
MCMapOf == [p \in {P} |-> PM]
MCDefines == [t \in {S, T, X} |-> IF t = S THEN {A} ELSE {B}]
=============================================================================
