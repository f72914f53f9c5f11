---------------------------- MODULE MCWebTunnel ----------------------------
(***************************************************************************)
(* Packages, and the short paths over the characters that matter.          *)
(***************************************************************************)
EXTENDS WebTunnel

MCScript == <<"/", "x">>
MCMnt == <<"m">>
MCPhpSuffixes == {<<"php">>, <<"inc">>}

\* "a" and "ab" tell a prefix from a component, "d" is a directory with a file in it.
a == <<"a">>
ab == <<"a", "b">>
da == <<"d", "/", "a">>
php == <<"d", "/", "a", ".", "php">>
index == <<"index", ".", "htm">>

Package(files, dirs, access, script, redirect, types) ==
  [files |-> files, dirs |-> dirs, web_access |-> access, web_run_script |-> script,
   web_main_redirect |-> redirect, mime_types |-> types, webinfo |-> FALSE]
String(path) == [type |-> "string", paths |-> {path}]
Unset == [type |-> "unset", paths |-> {}]

everything == Package({a, ab, da, php, index}, {<<>>, <<"d">>}, String(<<"/">>), NULL, FALSE, {})

MCPackages ==
  {everything, [everything EXCEPT !.webinfo = TRUE],
   \* a part is open; everything else leads to the main script
   Package({a, ab, da, php}, {<<>>, <<"d">>}, String(<<"/", "a">>), <<"/">> \o php, TRUE,
           {}),
   Package({a, ab, da, php}, {<<>>, <<"d">>}, String(<<"/", "d">>), <<"/">> \o php, FALSE,
           {<<"inc">>}),
   \* a list of open paths, which is not kept
   Package({a, da, php}, {<<>>, <<"d">>},
           [type |-> "array", paths |-> {<<"/", "a">>, <<"/", "d">>}], NULL, FALSE, {<<"php">>}),
   Package({a, da}, {<<>>, <<"d">>}, String(<<>>), NULL, FALSE, {}),
   \* nothing is open but the main script, and the other file has a name as long as its
   Package({a, <<"b">>}, {<<>>}, Unset, <<"/">> \o a, FALSE, {})}

MCPaths ==
  BoundedSeq({"/", "a", "b", "d"}, 4)
    \cup BoundedSeq({"/", "a", "?", "&", "\\", "%2F", "+", "*", ".", "phk://"}, 2)
    \cup {<<"/">> \o f \o s : f \in {php, index, da}, s \in {<<>>, <<"/">>, <<"?", "a">>}}
MCRequests ==
  [via : {"PATH_INFO"}, path : MCPaths]
    \cup [via : {"_PHK_path", "ORIG_PATH_INFO", "error"}, path : {<<>>, <<"/">>, a, da}]
    \cup {[via |-> "none", path |-> <<>>]}
MCInfoPaths == {<<>>, <<"/">>, <<"/">> \o da, <<"/">> \o php, <<"/", "d", "/">>}
MCAtoms ==
  {"/", "a", "b", "d", "x", "m", "?", "&", "\\", "%2F", "+", "*", ".", " ", "php", "inc",
   "index", "htm", "phk://"}
=============================================================================
