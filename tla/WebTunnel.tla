----------------------------- MODULE WebTunnel -----------------------------
(***************************************************************************)
(* A browser and a package that a web server runs as the main script.      *)
(* prolog() finds out which path of the package is asked for, webTunnel()  *)
(* what to do about it: refuse, redirect, run a script or send a file.     *)
(* The browser follows redirects.                                          *)
(*                                                                         *)
(* Paths and URIs are those of PHKUri.  A path in the package's tree has   *)
(* no leading slash; the root is the empty path.                           *)
(***************************************************************************)
EXTENDS PHKUri, FiniteSets

CONSTANTS
  Packages,   \* what a package may hold, and its options: see PackageType
  Requests,   \* what a browser asks for: see RequestType
  InfoPaths,  \* what PHP's runWebInfo() gives to PHK::webTunnel()
  Atoms,      \* what the strings of the instance are made of
  Script,     \* the URL path of the package file
  Mnt,        \* its mount point
  MaxRedirects, \* after so many a browser gives up
  PhpSuffixes,\* those for which the MIME type is application/x-httpd-php
  NULL

PackageType ==
  [files : SUBSET Seq(Atoms), dirs : SUBSET Seq(Atoms),
   web_access : [type : {"string", "array", "unset"}, paths : SUBSET Seq(Atoms)],
   web_run_script : Seq(Atoms) \cup {NULL}, web_main_redirect : BOOLEAN,
   mime_types : SUBSET Seq(Atoms),
   webinfo : BOOLEAN]  \* a file <package>.webinfo is beside the package

\* Where PHP finds the path; "error" if $_SERVER or $_REQUEST is not an array.
RequestType ==
  [via : {"_PHK_path", "PATH_INFO", "ORIG_PATH_INFO", "none", "error"}, path : Seq(Atoms)]

\* The strings of PHK itself are made of Atoms, too.  The script that a package runs
\* when it is called without a path is named by its path in the package.
ASSUME ConstantsAssumption ==
  /\ {Scheme, "/", " ", "index", ".", "htm"} \subseteq Atoms
  /\ Packages \subseteq PackageType
  /\ Requests \subseteq RequestType
  /\ \A r \in Requests : r.via = "none" => r.path = <<>>
  /\ MaxRedirects \in Nat
  /\ InfoPaths \subseteq Seq(Atoms)
  /\ Script \in Seq(Atoms) /\ Script # <<>> /\ Head(Script) = "/"
  /\ Mnt \in Seq(Atoms) /\ Mnt # <<>>
  /\ PhpSuffixes \subseteq Seq(Atoms)
  /\ \A p \in Packages : p.web_run_script # NULL =>
       /\ p.web_run_script # <<>> /\ Head(p.web_run_script) = "/"
       /\ LTrim(p.web_run_script, "/") \in p.files

VARIABLES
  phk,        \* the package: the fields of its PHK_Mnt, and its tree
  pc,         \* where the request is
  request,    \* what the browser has asked for
  webinfo,    \* PHK::webTunnel() was called by runWebInfo()
  last_slash,
  tpath,
  answer,
  redirects   \* how many the browser has followed

vars == <<phk, pc, request, webinfo, last_slash, tpath, answer, redirects>>

-----------------------------------------------------------------------------
(***************************************************************************)
(* Options.  PHK_Mgr_get_or_create_pdata() keeps the option web_access     *)
(* only if it is a string, so that the branch of webAccessAllowed() for an *)
(* array (PHK.c:394-404, where an element that is no string would be       *)
(* looked at for ever) is never taken, and what an array opens is closed.  *)
(***************************************************************************)
web_access(p) == IF p.web_access.type = "string" THEN p.web_access.paths ELSE {}

\* Mutant: any prefix will do.
web_access_matches_Prefix(apath, path) == IsPrefix(apath, path)

web_access_matches(apath, path) ==
  \/ apath = <<"/">>
  \/ /\ IsPrefix(apath, path)
     /\ Len(path) # Len(apath) => path[Len(apath) + 1] = "/"

webAccessAllowed(p, path) == \E apath \in web_access(p) : web_access_matches(apath, path)

\* It compares the first string with itself.
ut_strings_are_equal(s1, s2) == s1 # NULL /\ s2 # NULL /\ Len(s1) = Len(s2)

\* The MIME type is that of the table, or the suffix has "php" in it.
isPHPSourcePath(path) ==
  LET suffix == ut_fileSuffix(path) IN suffix \in PhpSuffixes \/ Contains(suffix, "php")

\* PHK_mimeType() looks the suffix up in the package's own table with a null pointer
\* for the result.
mimeTypeFails(p, path) == ut_fileSuffix(path) \in p.mime_types

autoindex_fnames ==
  <<<<"index", ".", "htm">>, <<"index", ".", "html">>, <<"index", ".", "php">>>>

\* What the stream wrapper says of a URI.  A command has a result, or it has not.
StatResults(p, u) ==
  LET r == parseURI(u) IN
  IF r.exc \/ r.mnt # Mnt THEN {"none"}
  ELSE IF r.command # <<>> THEN {"file", "none"}
  ELSE IF r.path \in p.files THEN {"file"}
  ELSE IF r.path \in p.dirs THEN {"dir"}
  ELSE {"none"}

-----------------------------------------------------------------------------
(***************************************************************************)
(* HTTP.  "+" and "%2F" stand for what php_url_decode() changes.           *)
(***************************************************************************)
php_url_decode(s) == ReplaceAll(ReplaceAll(s, "+", " "), "%2F", "/")

PATH_INFO(r) == IF r.via = "PATH_INFO" THEN r.path ELSE NULL
PHP_SELF(r) == IF PATH_INFO(r) = NULL THEN Script ELSE Script \o PATH_INFO(r)

ut_httpBaseURL(r) ==
  LET n == Len(PHP_SELF(r)) - Len(PATH_INFO(r)) IN
  IF PATH_INFO(r) # NULL /\ n > 0 /\ IsSuffix(PATH_INFO(r), PHP_SELF(r))
  THEN SubSeq(PHP_SELF(r), 1, n) ELSE PHP_SELF(r)

Reply(code, how, target) == [code |-> code, how |-> how, target |-> target]
NoReply == Reply(0, "none", <<>>)
ReplyType == [code : {0, 200, 301, 403, 404, 500},
              how : {"none", "exit", "require", "readFile", "exception", "fault", "timeout"},
              target : Seq(Atoms)]

ut_http301Redirect(path) == Reply(301, "exit", ut_httpBaseURL(request) \o path)
ut_http403Fail == Reply(403, "exit", <<>>)
ut_http404Fail == Reply(404, "exit", <<>>)

\* Mutant: the leading slash is not added.
setSubpath_NoSlash(r) == IF r.via = "none" THEN <<>> ELSE php_url_decode(r.path)

setSubpath(r) ==
  IF r.via = "none" THEN <<>>
  ELSE php_url_decode(IF r.path # <<>> /\ Head(r.path) = "/" THEN r.path
                      ELSE <<"/">> \o r.path)

gotoMain ==
  IF phk.web_main_redirect THEN ut_http301Redirect(phk.web_run_script)
  ELSE Reply(200, "require", uri(Mnt, phk.web_run_script))

Finish(reply) == pc' = "answered" /\ answer' = reply

-----------------------------------------------------------------------------
Init ==
  /\ phk \in Packages
  /\ pc = "idle"
  /\ request = [via |-> "none", path |-> <<>>]
  /\ webinfo = FALSE
  /\ last_slash = FALSE
  /\ tpath = <<>>
  /\ answer = NoReply
  /\ redirects = 0

Browse(r) ==
  /\ pc = "idle"
  /\ pc' = "prolog"
  /\ request' = r
  /\ UNCHANGED <<phk, webinfo, last_slash, tpath, answer, redirects>>

\* Mutant: the root is trimmed as any other path.
rtrim_All(path) == RTrim(path, "/")

\* A path that is only a slash stays.
rtrim(path) == IF path = <<"/">> THEN path ELSE RTrim(path, "/")

\* The last part of prolog(), HTTP mode: the file .webinfo is there, ...
RunWebInfo(path) ==
  /\ pc = "prolog" /\ phk.webinfo
  /\ webinfo' = TRUE
  /\ tpath' = rtrim(path)
  /\ last_slash' = EndsWithSlash(path)
  /\ pc' = "tunnel"
  /\ UNCHANGED <<phk, request, answer, redirects>>

\* Mutant: the exception of PHK_setSubpath() is not looked at.
Prolog_NoException ==
  /\ pc = "prolog" /\ ~phk.webinfo
  /\ LET path == setSubpath(request) IN
     /\ tpath' = IF request.via = "error" THEN NULL ELSE rtrim(path)
     /\ last_slash' = (request.via # "error" /\ EndsWithSlash(path))
  /\ pc' = "tunnel"
  /\ UNCHANGED <<phk, request, webinfo, answer, redirects>>

\* ... or it is not.
Prolog ==
  /\ pc = "prolog" /\ ~phk.webinfo
  /\ IF request.via = "error"
     THEN /\ Finish(Reply(500, "exception", <<>>))
          /\ UNCHANGED <<last_slash, tpath, redirects>>
     ELSE LET path == setSubpath(request) IN
          /\ tpath' = rtrim(path)
          /\ last_slash' = EndsWithSlash(path)
          /\ pc' = "tunnel"
          /\ UNCHANGED answer
  /\ UNCHANGED <<phk, request, webinfo, redirects>>

Allowed ==
  \/ webinfo
  \/ webAccessAllowed(phk, tpath)
  \/ ut_strings_are_equal(tpath, phk.web_run_script)

\* webTunnel(): no path, ...
NoPath ==
  /\ pc = "tunnel" /\ tpath = <<>>
  /\ Finish(IF phk.web_run_script # NULL THEN gotoMain ELSE ut_http301Redirect(<<"/">>))
  /\ UNCHANGED <<phk, request, webinfo, last_slash, tpath, redirects>>

\* ... a path that is not open, ...
Refuse ==
  /\ pc = "tunnel" /\ tpath # <<>> /\ ~Allowed
  /\ Finish(IF phk.web_run_script # NULL THEN gotoMain ELSE ut_http403Fail)
  /\ UNCHANGED <<phk, request, webinfo, last_slash, tpath, redirects>>

\* "Here, the path is in tpath and the corresponding uri is in uri."
Serve(path, u) ==
  Finish(IF mimeTypeFails(phk, path) THEN Reply(500, "fault", <<>>)
         ELSE IF ~webinfo /\ isPHPSourcePath(path) THEN Reply(200, "require", u)
         ELSE Reply(200, "readFile", u))

\* ... one that is.
Tunnel ==
  /\ pc = "tunnel" /\ tpath # <<>> /\ Allowed
  /\ LET u == uri(Mnt, tpath) IN
     \E found \in StatResults(phk, u) :
       CASE found = "none" -> Finish(ut_http404Fail)
         [] found = "file" -> Serve(tpath, u)
         [] found = "dir" /\ last_slash -> pc' = "autoindex" /\ UNCHANGED answer
         [] found = "dir" /\ ~last_slash -> Finish(ut_http301Redirect(Append(u, "/")))
  /\ UNCHANGED <<phk, request, webinfo, last_slash, tpath, redirects>>

\* Directory autoindex: the loop advances the wrong pointer, so that it looks for the
\* first name again and again.  The URI of what it finds is taken for a path.
Autoindex ==
  /\ pc = "autoindex"
  /\ LET index == uri(Mnt, tpath) \o autoindex_fnames[1] IN
     /\ "file" \in StatResults(phk, index)
     /\ tpath' = index
     /\ Serve(index, uri(Mnt, index))
  /\ UNCHANGED <<phk, request, webinfo, last_slash, redirects>>

\* PHP's time limit (max_execution_time).
TimeLimit ==
  /\ pc \in {"prolog", "tunnel", "autoindex"}
  /\ Finish(Reply(500, "timeout", <<>>))
  /\ UNCHANGED <<phk, request, webinfo, last_slash, tpath, redirects>>

\* RSHUTDOWN: the next request begins from nothing.
Forget ==
  /\ webinfo' = FALSE
  /\ last_slash' = FALSE
  /\ tpath' = <<>>
  /\ answer' = NoReply

EndRequest ==
  /\ pc = "answered" /\ answer.code # 301
  /\ pc' = "idle"
  /\ request' = [via |-> "none", path |-> <<>>]
  /\ redirects' = 0
  /\ Forget
  /\ UNCHANGED phk

\* The browser follows a redirect, to the package or elsewhere.
Follow ==
  /\ pc = "answered" /\ answer.code = 301
  /\ LET n == Len(Script)
         rest == SubSeq(answer.target, n + 1, Len(answer.target)) IN
     IF /\ redirects < MaxRedirects
        /\ IsPrefix(Script, answer.target) /\ (rest # <<>> => Head(rest) = "/")
     THEN /\ pc' = "prolog"
          /\ redirects' = redirects + 1
          /\ request' = IF rest = <<>> THEN [via |-> "none", path |-> <<>>]
                                       ELSE [via |-> "PATH_INFO", path |-> rest]
     ELSE /\ pc' = "idle"
          /\ redirects' = 0
          /\ request' = [via |-> "none", path |-> <<>>]
  /\ Forget
  /\ UNCHANGED phk

Next ==
  \/ \E r \in Requests : Browse(r)
  \/ \E path \in InfoPaths : RunWebInfo(path)
  \/ Prolog \/ NoPath \/ Refuse \/ Tunnel \/ Autoindex \/ TimeLimit
  \/ EndRequest \/ Follow

Spec == Init /\ [][Next]_vars
-----------------------------------------------------------------------------
(***************************************************************************)
(* Properties.                                                             *)
(***************************************************************************)
\* The variables have their types.
TypeOK ==
  /\ phk \in Packages
  /\ pc \in {"idle", "prolog", "tunnel", "autoindex", "answered"}
  /\ request.via \in {"_PHK_path", "PATH_INFO", "ORIG_PATH_INFO", "none", "error"}
  /\ request.path \in Seq(Atoms) /\ tpath \in Seq(Atoms)
  /\ webinfo \in BOOLEAN /\ last_slash \in BOOLEAN
  /\ answer \in ReplyType
  /\ redirects \in 0..MaxRedirects

\* What prolog() makes of a path that begins with a slash.
AsAsked(path) == rtrim(php_url_decode(path))

Plain(path) == \A c \in {"?", "&", "\\"} : ~Contains(path, c)
Canonical(path) == \A i \in 2..Len(path) : path[i] = "/" => path[i - 1] # "/"

\* The path that the request asks for.
Asked == IF webinfo THEN tpath ELSE php_url_decode(request.path)

Below(path, top) == IsPrefix(Components(top), Components(path))
Simple(path) == Canonical(path) /\ path # <<>> /\ Head(path) = "/" /\ rtrim(path) = path

\* A path is open if web_access has the path itself, or one that it is below of:
\* web_access_matches() compares characters, and must not take "/ab" to be below "/a".
AccessByComponents ==
  pc = "tunnel" =>
    \A apath \in web_access(phk) :
      /\ web_access_matches(apath, tpath) => Below(tpath, apath)
      /\ Below(tpath, apath) /\ Simple(tpath) /\ Simple(apath)
           => web_access_matches(apath, tpath)

\* What is sent is the main script, or the file that was asked for, if it is open or
\* "isMain".  Requests with characters that parseURI() takes for its own, and the index
\* of the root, for which "tpath" is not a path (PHK.c:526), are not covered.
SendsOpen(isMain) ==
  (/\ pc = "answered" /\ Plain(Asked)
   /\ answer.code = 200 /\ (tpath # <<>> => Head(tpath) # Scheme)) =>
    LET r == parseURI(answer.target) IN
    /\ ~r.exc /\ r.mnt = Mnt /\ r.command = <<>> /\ r.path \in phk.files
    /\ \/ /\ Components(r.path) = Components(Asked)
          /\ webinfo \/ isMain \/ \E apath \in web_access(phk) : Below(r.path, apath)
       \/ /\ Components(r.path) = Components(phk.web_run_script)
          /\ answer.how = "require"

\* A file that "open" opens is answered, as a script exactly if its name says so.
AnswersOpen(open) ==
  (pc = "answered" /\ Plain(Asked)) =>
    \A f \in phk.files :
      (/\ Components(f) = Components(Asked) /\ Canonical(Asked)
       /\ webinfo \/ Head(request.path) # "%2F"   \* which makes a second slash
       /\ webinfo \/ \E apath \in open : Simple(apath) /\ Below(f, apath)
       /\ ~mimeTypeFails(phk, f))
      => \/ answer = Reply(200, IF isPHPSourcePath(f) /\ ~webinfo
                                 THEN "require" ELSE "readFile", uri(Mnt, f))
         \/ answer.how \in {"timeout", "exception"}

\* What is closed is not sent: the third test of PHK_webTunnel() (PHK.c:498) is to let
\* through the path of the main script, and only this one.  The code does not keep this.
OnlyOpen == SendsOpen(tpath = phk.web_run_script)

\* What the code does keep: what is closed is not sent to a request for which
\* ut_strings_are_equal() does what its name says; and what is open, which nothing is by
\* an array in web_access, is answered.
AnswersPath ==
  /\ (ut_strings_are_equal(tpath, phk.web_run_script) => tpath = phk.web_run_script)
       => OnlyOpen
  /\ AnswersOpen(web_access(phk))

\* A browser that follows the package's redirects comes, after one of them, to an answer
\* that is none, or leaves the package.  It may go on for ever if the path of the main
\* script has something in it that php_url_decode() or prolog() changes; and for the paths
\* that runWebInfo() gives, PHP code must see to that.
RedirectsSettle ==
  ~phk.webinfo /\ (phk.web_run_script # NULL => AsAsked(phk.web_run_script) = phk.web_run_script)
    => redirects <= 1

\* The URIs that PHK_Mgr builds are taken apart into what they were built of, and the
\* three functions that look for a mount point in a URI agree; for packages and for
\* the sub-packages in them.
UriRoundTrip ==
  (pc = "tunnel" /\ Plain(tpath)) =>
    \A m \in {Mnt} \cup {subMnt(Mnt, f) : f \in phk.files} :
      LET is(u, command, path) ==
            /\ parseURI(u) = [exc |-> FALSE, overrun |-> FALSE, command |-> command,
                              mnt |-> m, path |-> path]
            /\ uriToMnt(u) = m
            /\ cache_key_mnt(u) = IF command = <<>> THEN m ELSE <<>>
      IN /\ is(uri(m, tpath), <<>>, ut_trim_char(tpath, "/"))
         /\ is(baseURI(m), <<>>, <<>>)
         /\ is(automapURI(m), <<"section">>, <<>>)
         /\ is(sectionURI(m, tpath), <<"section">>, <<>>)
         /\ tpath # <<>> => is(commandURI(m, tpath), tpath, <<>>)

\* Two sub-packages of a package do not get one mount point, as long as no name has
\* the character that stands for "/" in it.
SubMountsDistinct ==
  pc = "idle" =>
    \A f, g \in phk.files :
      ~Contains(f, "*") /\ ~Contains(g, "*") /\ subMnt(Mnt, f) = subMnt(Mnt, g) => f = g

\* ut_mkAbsolutePath() joins a relative path to the working directory, leaves what is
\* absolute (a URI is, too) where it is, and does so once.
AbsolutePaths ==
  pc = "tunnel" =>
    \A path \in {tpath, LTrim(tpath, "/")}, separ \in BOOLEAN :
      LET abs == ut_mkAbsolutePath(path, Script, separ) IN
      /\ Head(abs) = IF isPhkUri(path) THEN Scheme ELSE "/"
      /\ separ => EndsWithSlash(abs)
      /\ ut_mkAbsolutePath(abs, Script, separ) = abs
      /\ Components(abs) =
           IF path # <<>> /\ Head(path) \in {"/", Scheme} THEN Components(path)
           ELSE IF path = <<".">> THEN Components(Script)
           ELSE Components(Script) \o Components(path)
=============================================================================
