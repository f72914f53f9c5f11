------------------------------- MODULE PHKUri -------------------------------
(***************************************************************************)
(* URIs, mount points and paths: PHK_Mgr_uri() and the other functions     *)
(* that build URIs, PHK_Stream_parseURI() and the other two that take them *)
(* apart, the mount point of a sub-package, and the path helpers of        *)
(* utils.c.                                                                *)
(*                                                                         *)
(* A string is a sequence of atoms: the characters which these functions   *)
(* look at ("/", "\\", "?", "&", ".", " "), other characters, and words    *)
(* that they handle as a whole ("phk://", "section", "name=", "AUTOMAP").  *)
(* A zval that is null is the empty string; no function below gives both.  *)
(***************************************************************************)
EXTENDS Integers, Sequences, SequencesExt

Scheme == "phk://"
Slashes == {"/", "\\"}

\* The number of characters before the first that is in S.
Before(s, S) ==
  IF \E i \in 1..Len(s) : s[i] \in S
  THEN (CHOOSE i \in 1..Len(s) : s[i] \in S /\ \A j \in 1..(i - 1) : s[j] \notin S) - 1
  ELSE Len(s)

\* The places of c in s; the last of some places, 0 if there is none.
Places(s, c) == {i \in 1..Len(s) : s[i] = c}
Last0(places) == IF places = {} THEN 0 ELSE CHOOSE i \in places : \A j \in places : j <= i

\* Without the leading, or the trailing, characters c.
LTrim(s, c) == SubSeq(s, 1 + Before(s, {x \in Range(s) : x # c}), Len(s))
RTrim(s, c) == SubSeq(s, 1, Last0({i \in 1..Len(s) : s[i] # c}))
ut_trim_char(s, c) == RTrim(LTrim(s, c), c)

-----------------------------------------------------------------------------
(***************************************************************************)
(* PHK_Mgr.                                                                *)
(***************************************************************************)
isPhkUri(path) == path # <<>> /\ Head(path) = Scheme

uri(mnt, path) == <<Scheme>> \o mnt \o <<"/">> \o LTrim(path, "/")

commandURI(mnt, command) == <<Scheme>> \o mnt \o <<"/", "?">> \o command
sectionURI(mnt, section) ==
  <<Scheme>> \o mnt \o <<"/", "?", "section", "&", "name=">> \o section
automapURI(mnt) == <<Scheme>> \o mnt \o <<"/", "?", "section", "&", "name=", "AUTOMAP">>
baseURI(mnt) == <<Scheme>> \o mnt \o <<"/">>

normalizeURI(u) == ReplaceAll(u, "\\", "/")

\* The caller has made sure that isPhkUri(u).
uriToMnt(u) == SubSeq(u, 2, 1 + Before(Tail(u), Slashes \cup {" "}))

-----------------------------------------------------------------------------
(***************************************************************************)
(* PHK_Stream_parseURI().  Its pass over the characters stops at the first *)
(* slash or "?" for the mount point, and remembers the last "?" and the    *)
(* last "&".                                                               *)
(***************************************************************************)
Thrown == [exc |-> TRUE, overrun |-> FALSE, command |-> <<>>, mnt |-> <<>>, path |-> <<>>]

\* "Parameters before command", "Empty command".
Unreadable(s) ==
  \/ \E i \in Places(s, "&") : \A j \in Places(s, "?") : i < j
  \/ s # <<>> /\ s[Len(s)] = "?"

\* The length of a command is that up to the last "&", from the "?" before it: a "?"
\* that follows does not set it back.
cmd_len(s) ==
  LET amp == Last0(Places(s, "&"))
      query == Last0({i \in Places(s, "?") : i < amp})
  IN IF amp > query + 1 THEN amp - query - 1 ELSE Len(s) - Last0(Places(s, "?"))

\* The name is what is left of the "?", without the slashes at its end.
Name(s) ==
  LET query == Last0(Places(s, "?")) IN
  RTrim(IF query = 0 THEN s ELSE SubSeq(s, 1, query - 1), "/")

\* Mutant: trailing slashes stay.
Cut_KeepSlash(s, name, mnt_len) ==
  [mnt |-> SubSeq(name, 1, mnt_len), path |-> SubSeq(s, mnt_len + 2, Len(s))]

Cut(s, name, mnt_len) ==
  [mnt |-> SubSeq(name, 1, mnt_len),
   path |-> IF mnt_len = 0 THEN <<>> ELSE SubSeq(name, mnt_len + 2, Len(name))]

\* overrun: the command ends after the end of the string.
Parsed(s) ==
  LET query == Last0(Places(s, "?"))
      cut == Cut(s, Name(s), Before(s, {"/", "?"}))
      command_end == query + cmd_len(s)
  IN [exc |-> query = 0 /\ cut.mnt = <<>>,
      overrun |-> query # 0 /\ command_end > Len(s),
      command |-> IF query = 0 THEN <<>> ELSE SubSeq(s, query + 1, command_end),
      mnt |-> cut.mnt,
      path |-> cut.path]

parseURI(u) ==
  LET s == LTrim(Tail(u), "/") IN
  IF ~isPhkUri(u) \/ Unreadable(s) THEN Thrown ELSE Parsed(normalizeURI(s))

\* PHK_Stream_cache_key(): the mount point it looks for, <<>> if the URI cannot be
\* cached by its opcodes.
cache_key_mnt(u) ==
  LET s == Tail(u)
      n == Before(s, {"/"})
  IN IF n = Len(s) \/ Contains(s, "?") THEN <<>> ELSE SubSeq(s, 1, n)

\* Mutant: only the name of the file, not its path.
subMnt_Basename(mnt, path) ==
  mnt \o <<"#">> \o SubSeq(path, Last0(Places(path, "/")) + 1, Len(path))

\* PHK_Mgr_computeMnt() of a sub-package.
subMnt(mnt, path) == mnt \o <<"#">> \o ReplaceAll(path, "/", "*")

-----------------------------------------------------------------------------
(***************************************************************************)
(* utils.c.                                                                *)
(***************************************************************************)
EndsWithSlash(s) == s # <<>> /\ s[Len(s)] = "/"
WithSlash(s, separ) == IF separ /\ ~EndsWithSlash(s) THEN Append(s, "/") ELSE s

\* Mutant: the working directory is taken to end with a slash.
ut_mkAbsolutePath_NoSlash(path, cwd, separ) ==
  IF isPhkUri(path) \/ (path # <<>> /\ Head(path) = "/") THEN WithSlash(path, separ)
  ELSE IF path = <<".">> THEN WithSlash(cwd, separ)
  ELSE WithSlash(cwd \o path, separ)

\* Every URI counts as absolute; here they all begin with Scheme.
ut_mkAbsolutePath(path, cwd, separ) ==
  IF isPhkUri(path) \/ (path # <<>> /\ Head(path) = "/") THEN WithSlash(path, separ)
  ELSE IF path = <<".">> THEN WithSlash(cwd, separ)
  ELSE WithSlash(WithSlash(cwd, TRUE) \o path, separ)

\* What follows the last ".", if no "/" comes after it.
ut_fileSuffix(path) ==
  LET dot == Last0(Places(path, ".")) IN
  IF Len(path) < 2 \/ dot <= Last0(Places(path, "/")) THEN <<>>
  ELSE SubSeq(path, dot + 1, Len(path))

-----------------------------------------------------------------------------
(***************************************************************************)
(* The reference: a path is the sequence of its components.                *)
(***************************************************************************)
\* One more character of the path: it ends a component, begins one or belongs to one.
Extended(parts, path, n) ==
  IF path[n] = "/" THEN parts
  ELSE IF n = 1 \/ path[n - 1] = "/" THEN Append(parts, <<path[n]>>)
  ELSE [parts EXCEPT ![Len(parts)] = Append(@, path[n])]

ComponentsUpTo(path) ==
  LET upTo[n \in 0..Len(path)] ==
        IF n = 0 THEN <<>> ELSE Extended(upTo[n - 1], path, n)
  IN upTo

Components(path) == ComponentsUpTo(path)[Len(path)]
=============================================================================
