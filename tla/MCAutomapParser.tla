-------------------------- MODULE MCAutomapParser --------------------------
(***************************************************************************)
(* Two names; three of the shorter one, with their separators, fit in the  *)
(* buffer and four do not.                                                 *)
(***************************************************************************)
EXTENDS AutomapParser

MCNames == {<<"a">>, <<"b", "c">>}
=============================================================================
