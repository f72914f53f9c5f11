-------------------------- MODULE WebTunnel_proofs --------------------------
(***************************************************************************)
(* Proofs about WebTunnel, for all packages, requests, strings and bounds. *)
(***************************************************************************)
EXTENDS WebTunnel, PHKUri_proofs

-----------------------------------------------------------------------------
(***************************************************************************)
(* The types of what is computed from a request.                           *)
(***************************************************************************)
LEMMA AtomsHave ==
  /\ Scheme \in Atoms /\ "/" \in Atoms /\ " " \in Atoms
  /\ "index" \in Atoms /\ "." \in Atoms /\ "htm" \in Atoms
<1>1. {Scheme, "/", " ", "index", ".", "htm"} \subseteq Atoms
  BY ConstantsAssumption
<1> QED BY <1>1

LEMMA UriType ==
  ASSUME NEW m \in Seq(Atoms), NEW path \in Seq(Atoms)
  PROVE  uri(m, path) \in Seq(Atoms)
<1>1. <<Scheme>> \in Seq(Atoms) /\ <<"/">> \in Seq(Atoms)
  BY AtomsHave, OneElement
<1>2. LTrim(path, "/") \in Seq(Atoms)
  BY LTrimIs
<1>3. <<Scheme>> \o m \in Seq(Atoms)
  BY <1>1, ConcatProperties
<1>4. <<Scheme>> \o m \o <<"/">> \in Seq(Atoms)
  BY <1>1, <1>3, ConcatProperties
<1>5. <<Scheme>> \o m \o <<"/">> \o LTrim(path, "/") \in Seq(Atoms)
  BY <1>2, <1>4, ConcatProperties
<1> QED BY <1>5 DEF uri

\* ... of which every one begins with Scheme, ...
LEMMA UriHead ==
  ASSUME NEW m \in Seq(Atoms), NEW path \in Seq(Atoms)
  PROVE  uri(m, path) # <<>> /\ uri(m, path)[1] = Scheme
<1>1. <<Scheme>> \in Seq(Atoms) /\ <<"/">> \in Seq(Atoms)
  BY AtomsHave, OneElement
<1>2. PICK t \in Seq(Atoms) : t = LTrim(path, "/")
  BY LTrimIs
<1>3. PICK v \in Seq(Atoms) : v = <<Scheme>> \o m
  BY <1>1, ConcatProperties
<1>4. PICK w \in Seq(Atoms) : w = v \o <<"/">>
  BY <1>1, ConcatProperties
<1>5. Len(v) > 0 /\ v[1] = Scheme
  BY <1>3
<1>6. Len(w) > 0 /\ w[1] = Scheme
  BY <1>4, <1>5
<1>7. Len(w \o t) > 0 /\ (w \o t)[1] = Scheme
  BY <1>6
<1> QED BY <1>2, <1>3, <1>4, <1>7 DEF uri

LEMMA RtrimType ==
  ASSUME NEW path \in Seq(Atoms)
  PROVE  rtrim(path) \in Seq(Atoms)
<1>1. RTrim(path, "/") \in Seq(Atoms)
  BY RTrimIs
<1> QED BY <1>1 DEF rtrim

LEMMA DecodeType ==
  ASSUME NEW path \in Seq(Atoms)
  PROVE  php_url_decode(path) \in Seq(Atoms)
<1>1. " " \in Atoms /\ "/" \in Atoms
  BY ConstantsAssumption
<1>2. ReplaceAll(path, "+", " ") \in Seq(Atoms)
  BY <1>1, ReplaceAllIs
<1>3. ReplaceAll(ReplaceAll(path, "+", " "), "%2F", "/") \in Seq(Atoms)
  BY <1>1, <1>2, ReplaceAllIs
<1> QED BY <1>3 DEF php_url_decode

LEMMA SubpathType ==
  ASSUME NEW r, r.path \in Seq(Atoms)
  PROVE  setSubpath(r) \in Seq(Atoms)
<1>0. <<"/">> \in Seq(Atoms)
  BY AtomsHave, OneElement
<1>1. <<"/">> \in Seq(Atoms) /\ <<>> \in Seq(Atoms)
  BY <1>0, EmptySeq
<1>2. <<"/">> \o r.path \in Seq(Atoms)
  BY <1>1, ConcatProperties
<1>3. php_url_decode(r.path) \in Seq(Atoms) /\ php_url_decode(<<"/">> \o r.path) \in Seq(Atoms)
  BY <1>2, DecodeType
<1> QED BY <1>1, <1>3 DEF setSubpath

\* The path of the request is taken off $_SERVER["PHP_SELF"], so that a redirect is
\* always one to the package file: ut_http_base_url().
LEMMA BaseIsScript ==
  ASSUME NEW r, r.path \in Seq(Atoms)
  PROVE  ut_httpBaseURL(r) = Script
<1>1. CASE PATH_INFO(r) = NULL
  BY <1>1 DEF ut_httpBaseURL, PHP_SELF
<1>2. CASE PATH_INFO(r) # NULL
  <2>1. PICK p \in Seq(Atoms) : p = PATH_INFO(r)
    BY <1>2 DEF PATH_INFO
  <2>2. PICK s \in Seq(Atoms) : s = Script
    BY ConstantsAssumption
  <2>3. s # <<>>
    BY <2>2, ConstantsAssumption
  <2>4. PICK f : f = s \o p
    OBVIOUS
  <2>5. PHP_SELF(r) = f
    BY <1>2, <2>1, <2>2, <2>4 DEF PHP_SELF
  <2>6. /\ f \in Seq(Atoms)
        /\ Len(f) = Len(s) + Len(p)
        /\ \A i \in 1..Len(s) + Len(p) : f[i] = IF i <= Len(s) THEN s[i] ELSE p[i - Len(s)]
    BY <2>4, ConcatProperties
  <2>7. Len(s) \in Nat /\ Len(p) \in Nat /\ Len(s) # 0
    BY <2>3
  <2>8. Len(f) - Len(p) = Len(s) /\ Len(f) \in Nat
    BY <2>6, <2>7
  <2>9. IsSuffix(p, f)
    <3>1. PICK x : x = Reverse(p)
      OBVIOUS
    <3>2. PICK y : y = Reverse(f)
      OBVIOUS
    <3>3. x \in Seq(Atoms) /\ Len(x) = Len(p) /\ \A i \in 1..Len(p) : x[i] = p[Len(p) - i + 1]
      <4>1. \A i \in 1..Len(p) : p[Len(p) - i + 1] \in Atoms
        BY <2>7
      <4>2. x \in [1..Len(p) -> Atoms] /\ \A i \in 1..Len(p) : x[i] = p[Len(p) - i + 1]
        BY <3>1, <4>1 DEF Reverse
      <4> QED BY <2>7, <4>2, FunctionIsSeq
    <3>4. y \in Seq(Atoms) /\ Len(y) = Len(f) /\ \A i \in 1..Len(f) : y[i] = f[Len(f) - i + 1]
      <4>1. \A i \in 1..Len(f) : f[Len(f) - i + 1] \in Atoms
        BY <2>6, <2>8
      <4>2. y \in [1..Len(f) -> Atoms] /\ \A i \in 1..Len(f) : y[i] = f[Len(f) - i + 1]
        BY <3>2, <4>1 DEF Reverse
      <4> QED BY <2>8, <4>2, FunctionIsSeq
    <3>5. ASSUME NEW i \in 1..Len(p) PROVE x[i] = y[i]
      <4>1. i \in 1..Len(f) /\ Len(f) - i + 1 \in 1..Len(s) + Len(p) /\ ~(Len(f) - i + 1 <= Len(s))
        BY <2>6, <2>7
      <4>2. y[i] = f[Len(f) - i + 1]
        BY <3>4, <4>1
      <4>4. f[Len(f) - i + 1] = p[Len(f) - i + 1 - Len(s)]
        BY <2>6, <4>1
      <4>3. Len(f) - i + 1 - Len(s) = Len(p) - i + 1
        BY <2>6, <2>7
      <4> QED BY <3>3, <4>2, <4>3, <4>4
    <3>6. Len(x) \in 0..Len(x) /\ Len(x) \in 0..Len(y)
      BY <2>6, <2>7, <3>3, <3>4
    <3>7. SubSeq(x, 1, Len(x)) = SubSeq(y, 1, Len(x))
      <4>1. /\ SubSeq(x, 1, Len(x)) \in Seq(Atoms)
            /\ Len(SubSeq(x, 1, Len(x))) = IF 1 <= Len(x) THEN Len(x) - 1 + 1 ELSE 0
            /\ \A j \in 1..(Len(x) - 1 + 1) : SubSeq(x, 1, Len(x))[j] = x[1 + j - 1]
        BY <3>3, <3>6, SliceType
      <4>2. /\ SubSeq(y, 1, Len(x)) \in Seq(Atoms)
            /\ Len(SubSeq(y, 1, Len(x))) = IF 1 <= Len(x) THEN Len(x) - 1 + 1 ELSE 0
            /\ \A j \in 1..(Len(x) - 1 + 1) : SubSeq(y, 1, Len(x))[j] = y[1 + j - 1]
        BY <3>4, <3>6, SliceType
      <4>3. Len(x) - 1 + 1 = Len(p) /\ Len(SubSeq(x, 1, Len(x))) = Len(p)
              /\ Len(SubSeq(y, 1, Len(x))) = Len(p)
        BY <2>7, <3>3, <4>1, <4>2
      <4>4. \A j \in 1..Len(p) : SubSeq(x, 1, Len(x))[j] = SubSeq(y, 1, Len(x))[j]
        <5> TAKE j \in 1..Len(p)
        <5>1. 1 + j - 1 = j
          OBVIOUS
        <5> QED BY <3>5, <4>1, <4>2, <4>3, <5>1
      <4> QED BY <4>1, <4>2, <4>3, <4>4, SeqEqual
    <3>8. Len(x) <= Len(y)
      BY <2>6, <2>7, <3>3, <3>4
    <3> QED BY <3>1, <3>2, <3>7, <3>8 DEF IsSuffix, IsPrefix
  <2>10. SubSeq(f, 1, Len(s)) = s
    <3>1. Len(s) \in 1..Len(s) /\ 1 \in 1..Len(s)
      BY <2>7
    <3>2. SubSeq(f, 1, Len(s)) = SubSeq(s, 1, Len(s))
      BY <2>4, <3>1, SubSeqOfConcat1
    <3> QED BY <3>2, SubSeqFull
  <2>11. Len(PHP_SELF(r)) - Len(PATH_INFO(r)) = Len(s)
    BY <2>1, <2>5, <2>8
  <2>12. Len(s) > 0
    BY <2>7
  <2>13. IsSuffix(PATH_INFO(r), PHP_SELF(r)) /\ SubSeq(PHP_SELF(r), 1, Len(s)) = s
    BY <2>1, <2>5, <2>9, <2>10
  <2> QED BY <1>2, <2>2, <2>11, <2>12, <2>13 DEF ut_httpBaseURL
<1> QED BY <1>1, <1>2

-----------------------------------------------------------------------------
(***************************************************************************)
(* Type correctness.                                                       *)
(***************************************************************************)
LEMMA PackageFields ==
  ASSUME NEW p \in Packages
  PROVE  /\ p.files \subseteq Seq(Atoms)
         /\ p.web_run_script \in Seq(Atoms) \cup {NULL}
         /\ p.web_main_redirect \in BOOLEAN /\ p.webinfo \in BOOLEAN
<1>1. p \in PackageType
  BY ConstantsAssumption
<1> QED BY <1>1 DEF PackageType

LEMMA EmptyPath == <<>> \in Seq(Atoms) /\ <<"/">> \in Seq(Atoms)
<1>1. <<"/">> \in Seq(Atoms)
  BY AtomsHave, OneElement
<1> QED BY <1>1, EmptySeq

LEMMA ReplyTypes ==
  ASSUME NEW target \in Seq(Atoms)
  PROVE  /\ Reply(301, "exit", target) \in ReplyType
         /\ Reply(403, "exit", target) \in ReplyType
         /\ Reply(404, "exit", target) \in ReplyType
         /\ Reply(200, "require", target) \in ReplyType
         /\ Reply(200, "readFile", target) \in ReplyType
         /\ Reply(500, "fault", target) \in ReplyType
         /\ Reply(500, "exception", target) \in ReplyType
         /\ Reply(500, "timeout", target) \in ReplyType
         /\ Reply(0, "none", target) \in ReplyType
BY DEF Reply, ReplyType

LEMMA RedirectIs ==
  ASSUME request.path \in Seq(Atoms), NEW path \in Seq(Atoms)
  PROVE  /\ ut_http301Redirect(path) = Reply(301, "exit", Script \o path)
         /\ ut_http301Redirect(path) \in ReplyType
<1>1. ut_httpBaseURL(request) = Script
  BY BaseIsScript
<1>2. Script \in Seq(Atoms)
  BY ConstantsAssumption
<1>3. Script \o path \in Seq(Atoms)
  BY <1>2, ConcatProperties
<1>4. ut_http301Redirect(path) = Reply(301, "exit", Script \o path)
  BY <1>1 DEF ut_http301Redirect
<1>5. Reply(301, "exit", Script \o path) \in ReplyType
  BY <1>3 DEF Reply, ReplyType
<1> QED BY <1>4, <1>5

LEMMA MainType ==
  ASSUME request.path \in Seq(Atoms), phk \in Packages, phk.web_run_script # NULL
  PROVE  gotoMain \in ReplyType
<1>1. phk.web_run_script \in Seq(Atoms)
  BY PackageFields
<1>2. ut_http301Redirect(phk.web_run_script) \in ReplyType
  BY <1>1, RedirectIs
<1>3. Mnt \in Seq(Atoms)
  BY ConstantsAssumption
<1>4. uri(Mnt, phk.web_run_script) \in Seq(Atoms)
  BY <1>1, <1>3, UriType
<1>5. Reply(200, "require", uri(Mnt, phk.web_run_script)) \in ReplyType
  BY <1>4, ReplyTypes
<1> QED BY <1>2, <1>5 DEF gotoMain

LEMMA ServeType ==
  ASSUME NEW path, NEW u \in Seq(Atoms), Serve(path, u)
  PROVE  answer' \in ReplyType /\ pc' = "answered"
<1>1. Reply(500, "fault", <<>>) \in ReplyType
  BY EmptyPath DEF Reply, ReplyType
<1>2. Reply(200, "require", u) \in ReplyType /\ Reply(200, "readFile", u) \in ReplyType
  BY ReplyTypes
<1> QED BY <1>1, <1>2 DEF Serve, Finish

LEMMA TypeInit == Init => TypeOK
<1> SUFFICES ASSUME Init PROVE TypeOK
  OBVIOUS
<1>1. request.via = "none" /\ request.path = <<>> /\ tpath = <<>>
  BY DEF Init
<1>2. answer \in ReplyType
  BY EmptyPath DEF Init, NoReply, Reply, ReplyType
<1>0. MaxRedirects \in Nat
  BY ConstantsAssumption
<1>3. 0 \in 0..MaxRedirects
  BY <1>0
<1> QED BY <1>1, <1>2, <1>3, EmptyPath DEF Init, TypeOK

LEMMA TypeNext == TypeOK /\ [Next]_vars => TypeOK'
<1> SUFFICES ASSUME TypeOK, [Next]_vars PROVE TypeOK'
  OBVIOUS
<1>0. /\ phk \in Packages /\ request.path \in Seq(Atoms) /\ tpath \in Seq(Atoms)
      /\ answer \in ReplyType /\ webinfo \in BOOLEAN /\ last_slash \in BOOLEAN
      /\ redirects \in 0..MaxRedirects
  BY DEF TypeOK
<1>e. <<>> \in Seq(Atoms) /\ <<"/">> \in Seq(Atoms) /\ Mnt \in Seq(Atoms) /\ MaxRedirects \in Nat
  BY EmptyPath, ConstantsAssumption
<1>1. ASSUME NEW r \in Requests, Browse(r) PROVE TypeOK'
  <2>1. r \in RequestType
    BY ConstantsAssumption
  <2>2. r.via \in {"_PHK_path", "PATH_INFO", "ORIG_PATH_INFO", "none", "error"} /\ r.path \in Seq(Atoms)
    BY <2>1 DEF RequestType
  <2> QED BY <1>1, <2>2 DEF Browse, TypeOK
<1>2. ASSUME NEW path \in InfoPaths, RunWebInfo(path) PROVE TypeOK'
  <2>1. path \in Seq(Atoms)
    BY ConstantsAssumption
  <2>2. rtrim(path) \in Seq(Atoms) /\ EndsWithSlash(path) \in BOOLEAN
    BY <2>1, RtrimType DEF EndsWithSlash
  <2> QED BY <1>2, <2>2 DEF RunWebInfo, TypeOK
<1>3. CASE Prolog
  <2>1. rtrim(setSubpath(request)) \in Seq(Atoms)
    BY <1>0, SubpathType, RtrimType
  <2>2. Reply(500, "exception", <<>>) \in ReplyType
    BY <1>e DEF Reply, ReplyType
  <2>3. EndsWithSlash(setSubpath(request)) \in BOOLEAN
    BY DEF EndsWithSlash
  <2> QED BY <1>3, <2>1, <2>2, <2>3 DEF Prolog, Finish, TypeOK
<1>4. CASE NoPath
  <2>1. ut_http301Redirect(<<"/">>) \in ReplyType
    BY <1>0, <1>e, RedirectIs
  <2>2. phk.web_run_script # NULL => gotoMain \in ReplyType
    BY <1>0, MainType
  <2> QED BY <1>4, <2>1, <2>2 DEF NoPath, Finish, TypeOK
<1>5. CASE Refuse
  <2>1. ut_http403Fail \in ReplyType
    BY <1>e DEF ut_http403Fail, Reply, ReplyType
  <2>2. phk.web_run_script # NULL => gotoMain \in ReplyType
    BY <1>0, MainType
  <2> QED BY <1>5, <2>1, <2>2 DEF Refuse, Finish, TypeOK
<1>6. CASE Tunnel
  <2>1. uri(Mnt, tpath) \in Seq(Atoms)
    BY <1>0, <1>e, UriType
  <2>2. Append(uri(Mnt, tpath), "/") \in Seq(Atoms)
    BY <2>1, AtomsHave, AppendProperties
  <2>3. ut_http301Redirect(Append(uri(Mnt, tpath), "/")) \in ReplyType
    BY <1>0, <2>2, RedirectIs
  <2>4. ut_http404Fail \in ReplyType
    BY <1>e DEF ut_http404Fail, Reply, ReplyType
  <2>5. \/ answer' = ut_http404Fail /\ pc' = "answered"
        \/ Serve(tpath, uri(Mnt, tpath))
        \/ pc' = "autoindex" /\ answer' = answer
        \/ answer' = ut_http301Redirect(Append(uri(Mnt, tpath), "/")) /\ pc' = "answered"
    <3>1. PICK found \in StatResults(phk, uri(Mnt, tpath)) :
            CASE found = "none" -> Finish(ut_http404Fail)
              [] found = "file" -> Serve(tpath, uri(Mnt, tpath))
              [] found = "dir" /\ last_slash -> pc' = "autoindex" /\ UNCHANGED answer
              [] found = "dir" /\ ~last_slash ->
                   Finish(ut_http301Redirect(Append(uri(Mnt, tpath), "/")))
      BY <1>6 DEF Tunnel
    <3>2. found \in {"none", "file", "dir"}
      BY <3>1 DEF StatResults
    <3>3. CASE found = "none"
      BY <3>1, <3>3 DEF Finish
    <3>4. CASE found = "file"
      BY <3>1, <3>4
    <3>5. CASE found = "dir" /\ last_slash
      BY <3>1, <3>5
    <3>6. CASE found = "dir" /\ ~last_slash
      BY <3>1, <3>6 DEF Finish
    <3> QED BY <3>2, <3>3, <3>4, <3>5, <3>6
  <2>6. answer' \in ReplyType /\ pc' \in {"answered", "autoindex"}
    BY <1>0, <2>1, <2>3, <2>4, <2>5, ServeType
  <2> QED BY <1>6, <2>6 DEF Tunnel, TypeOK
<1>7. CASE Autoindex
  <2>1. autoindex_fnames[1] \in Seq(Atoms)
    BY AtomsHave, ThreeElements DEF autoindex_fnames
  <2>2. PICK index \in Seq(Atoms) : index = uri(Mnt, tpath) \o autoindex_fnames[1]
    BY <1>0, <1>e, <2>1, UriType, ConcatProperties
  <2>3. uri(Mnt, index) \in Seq(Atoms)
    BY <1>e, UriType
  <2>4. tpath' = index /\ Serve(index, uri(Mnt, index))
    BY <1>7, <2>2 DEF Autoindex
  <2>5. answer' \in ReplyType /\ pc' = "answered"
    BY <2>3, <2>4, ServeType
  <2> QED BY <1>7, <2>4, <2>5 DEF Autoindex, TypeOK
<1>8. CASE TimeLimit
  <2>1. Reply(500, "timeout", <<>>) \in ReplyType
    BY <1>e DEF Reply, ReplyType
  <2> QED BY <1>8, <2>1 DEF TimeLimit, Finish, TypeOK
<1>9. CASE EndRequest
  <2>1. NoReply \in ReplyType
    BY <1>e DEF NoReply, Reply, ReplyType
  <2>2. 0 \in 0..MaxRedirects
    BY <1>e
  <2>3. request'.via = "none" /\ request'.path = <<>>
    BY <1>9 DEF EndRequest
  <2> QED BY <1>9, <1>e, <2>1, <2>2, <2>3 DEF EndRequest, Forget, TypeOK
<1>10. CASE Follow
  <2>1. NoReply \in ReplyType
    BY <1>e DEF NoReply, Reply, ReplyType
  <2>2. answer.target \in Seq(Atoms)
    BY <1>0 DEF ReplyType
  <2>3. Script \in Seq(Atoms)
    BY ConstantsAssumption
  <2>4. PICK rest \in Seq(Atoms) : rest = SubSeq(answer.target, Len(Script) + 1, Len(answer.target))
    <3>1. Len(Script) + 1 \in Nat \ {0} /\ Len(answer.target) \in 0..Len(answer.target)
      BY <2>2, <2>3
    <3> QED BY <2>2, <3>1, SliceType
  <2>5. request'.via \in {"PATH_INFO", "none"} /\ request'.path \in Seq(Atoms)
    <3>1. \/ request' = [via |-> "none", path |-> <<>>]
          \/ request' = [via |-> "PATH_INFO", path |-> rest]
      BY <1>10, <2>4 DEF Follow
    <3>2. CASE request' = [via |-> "none", path |-> <<>>]
      BY <1>e, <3>2
    <3>3. CASE request' = [via |-> "PATH_INFO", path |-> rest]
      BY <3>3
    <3> QED BY <3>1, <3>2, <3>3
  <2>6. redirects' \in 0..MaxRedirects /\ pc' \in {"prolog", "idle"}
    BY <1>10, <1>0, <1>e DEF Follow
  <2> QED BY <1>10, <1>e, <2>1, <2>5, <2>6 DEF Follow, Forget, TypeOK
<1>11. CASE UNCHANGED vars
  BY <1>11 DEF vars, TypeOK
<1> QED BY <1>1, <1>2, <1>3, <1>4, <1>5, <1>6, <1>7, <1>8, <1>9, <1>10, <1>11 DEF Next

\* The variables of a request keep their types, whatever is asked for: what PHK builds and
\* takes apart are strings.  (Property TypeOK; PHK_webTunnel(), PHK_setSubpath().)
THEOREM TypeCorrect == Spec => []TypeOK
<1> QED BY TypeInit, TypeNext, PTL DEF Spec

-----------------------------------------------------------------------------
(***************************************************************************)
(* Redirects.  What keeps a browser from being sent round and round is     *)
(* that the path it is sent to comes back as it was, and is open.          *)
(***************************************************************************)
\* Where webTunnel() sends a browser that asks for no path, or for one that is not open.
Home(p) == IF p.web_run_script = NULL THEN <<"/">> ELSE p.web_run_script

Returns(p) == p.web_run_script # NULL => AsAsked(p.web_run_script) = p.web_run_script

\* A redirect goes to Home, and only from where the browser came by itself; or to a URI,
\* which leads nowhere.
Redirect(rest) ==
  /\ answer.target = Script \o rest
  /\ \/ rest = Home(phk) /\ redirects = 0
     \/ rest # <<>> /\ rest[1] = Scheme

RedirectInv ==
  ~phk.webinfo /\ Returns(phk) =>
    /\ ~webinfo
    /\ redirects \in 0..1
    /\ pc = "idle" => redirects = 0
    /\ redirects = 1 => request = [via |-> "PATH_INFO", path |-> Home(phk)]
    /\ pc = "tunnel" /\ redirects = 1 => tpath = Home(phk)
    /\ pc = "answered" /\ answer.code = 301 => \E rest \in Seq(Atoms) : Redirect(rest)

LEMMA HomeIs ==
  ASSUME NEW p \in Packages
  PROVE  Home(p) \in Seq(Atoms) /\ Home(p) # <<>> /\ Head(Home(p)) = "/"
<1>1. CASE p.web_run_script = NULL
  BY <1>1, EmptyPath DEF Home
<1>2. CASE p.web_run_script # NULL
  <2>1. p.web_run_script \in Seq(Atoms)
    BY <1>2, PackageFields
  <2>2. p.web_run_script # <<>> /\ Head(p.web_run_script) = "/"
    BY <1>2, ConstantsAssumption
  <2> QED BY <1>2, <2>1, <2>2 DEF Home
<1> QED BY <1>1, <1>2

\* A browser that follows the redirect to Home asks for Home.
LEMMA HomeIsAsked ==
  ASSUME NEW p \in Packages, Returns(p)
  PROVE  rtrim(setSubpath([via |-> "PATH_INFO", path |-> Home(p)])) = Home(p)
<1>1. PICK h \in Seq(Atoms) : h = Home(p) /\ h # <<>> /\ Head(h) = "/"
  BY HomeIs
<1>2. setSubpath([via |-> "PATH_INFO", path |-> h]) = php_url_decode(h)
  BY <1>1 DEF setSubpath
<1>3. CASE p.web_run_script = NULL
  <2>1. h = <<"/">> /\ Len(h) = 1 /\ h[1] = "/"
    BY <1>1, <1>3 DEF Home
  <2>2. \A i \in 1..Len(h) : h[i] # "+" /\ h[i] # "%2F"
    BY <2>1
  <2>3. ReplaceAll(h, "+", " ") = h
    BY <2>2, ReplaceAllSame
  <2>4. ReplaceAll(h, "%2F", "/") = h
    BY <2>2, ReplaceAllSame
  <2>5. php_url_decode(h) = <<"/">>
    BY <2>1, <2>3, <2>4 DEF php_url_decode
  <2> QED BY <1>1, <1>2, <2>1, <2>5 DEF rtrim
<1>4. CASE p.web_run_script # NULL
  <2>1. h = p.web_run_script
    BY <1>1, <1>4 DEF Home
  <2>2. rtrim(php_url_decode(h)) = h
    BY <1>4, <2>1 DEF Returns, AsAsked
  <2> QED BY <1>1, <1>2, <2>2
<1> QED BY <1>3, <1>4

LEMMA NotARedirect ==
  ASSUME NEW path, NEW u, Serve(path, u)
  PROVE  answer'.code # 301
BY DEF Serve, Finish, Reply

LEMMA MainRedirects ==
  ASSUME request.path \in Seq(Atoms), phk \in Packages, phk.web_run_script # NULL
  PROVE  gotoMain.code = 301 => gotoMain.target = Script \o Home(phk)
<1>1. phk.web_run_script \in Seq(Atoms)
  BY PackageFields
<1>2. ut_http301Redirect(phk.web_run_script) = Reply(301, "exit", Script \o phk.web_run_script)
  BY <1>1, RedirectIs
<1>3. CASE phk.web_main_redirect
  BY <1>2, <1>3 DEF gotoMain, Reply, Home
<1>4. CASE ~phk.web_main_redirect
  BY <1>4 DEF gotoMain, Reply
<1> QED BY <1>3, <1>4

LEMMA RedirectInit == Init => RedirectInv
BY DEF Init, RedirectInv

LEMMA RedirectNext == TypeOK /\ RedirectInv /\ [Next]_vars => RedirectInv'
<1> SUFFICES ASSUME TypeOK, RedirectInv, [Next]_vars, ~phk'.webinfo, Returns(phk')
             PROVE  RedirectInv'
  BY DEF RedirectInv
<1>p. phk' = phk
  BY DEF Next, vars, Browse, RunWebInfo, Prolog, NoPath, Refuse, Tunnel, Autoindex, TimeLimit,
         EndRequest, Follow
<1>r. ~phk.webinfo /\ Returns(phk)
  BY <1>p
<1>0. /\ phk \in Packages /\ request.path \in Seq(Atoms) /\ tpath \in Seq(Atoms)
      /\ answer \in ReplyType /\ ~webinfo /\ redirects \in 0..1
      /\ pc = "idle" => redirects = 0
      /\ redirects = 1 => request = [via |-> "PATH_INFO", path |-> Home(phk)]
      /\ pc = "tunnel" /\ redirects = 1 => tpath = Home(phk)
      /\ pc = "answered" /\ answer.code = 301 => \E rest \in Seq(Atoms) : Redirect(rest)
  BY <1>r DEF TypeOK, RedirectInv
<1>1. ASSUME NEW r \in Requests, Browse(r) PROVE RedirectInv'
  BY <1>0, <1>1 DEF Browse, RedirectInv
<1>2. ASSUME NEW path \in InfoPaths, RunWebInfo(path) PROVE RedirectInv'
  BY <1>r, <1>2 DEF RunWebInfo
<1>3. CASE Prolog
  <2>1. redirects = 1 => request.via # "error" /\ tpath' = Home(phk)
    <3> HAVE redirects = 1
    <3>1. request = [via |-> "PATH_INFO", path |-> Home(phk)]
      BY <1>0
    <3>2. rtrim(setSubpath(request)) = Home(phk)
      BY <1>0, <1>r, <3>1, HomeIsAsked
    <3>3. request.via # "error"
      BY <3>1
    <3> QED BY <1>3, <3>2, <3>3 DEF Prolog
  <2>2. pc' = "answered" => answer'.code # 301
    BY <1>3 DEF Prolog, Finish, Reply
  <2>3. pc' # "idle" /\ UNCHANGED <<request, webinfo, redirects>>
    BY <1>3 DEF Prolog, Finish
  <2> QED BY <1>0, <1>p, <2>1, <2>2, <2>3 DEF RedirectInv
<1> DEFINE AfterTunnel ==
             /\ UNCHANGED <<request, webinfo, redirects>>
             /\ pc' \in {"answered", "autoindex"}
             /\ pc' = "answered" /\ answer'.code = 301 =>
                  \E rest \in Seq(Atoms) :
                    /\ answer'.target = Script \o rest
                    /\ \/ rest = Home(phk) /\ redirects = 0
                       \/ rest # <<>> /\ rest[1] = Scheme
<1>t. AfterTunnel => RedirectInv'
  <2> SUFFICES ASSUME AfterTunnel PROVE RedirectInv'
    OBVIOUS
  <2>1. pc' = "answered" /\ answer'.code = 301 => \E rest \in Seq(Atoms) : Redirect(rest)'
    BY <1>p DEF Redirect
  <2> QED BY <1>0, <1>p, <2>1 DEF RedirectInv
<1> HIDE DEF AfterTunnel
<1>4. CASE NoPath
  <2>1. redirects = 0
    <3>1. pc = "tunnel" /\ tpath = <<>>
      BY <1>4 DEF NoPath
    <3>2. Home(phk) # <<>>
      BY <1>0, HomeIs
    <3> QED BY <1>0, <3>1, <3>2
  <2>2. Home(phk) \in Seq(Atoms)
    BY <1>0, HomeIs
  <2>3. answer'.code = 301 => answer'.target = Script \o Home(phk)
    <3>1. CASE phk.web_run_script = NULL
      <4>1. ut_http301Redirect(<<"/">>) = Reply(301, "exit", Script \o <<"/">>)
        BY <1>0, EmptyPath, RedirectIs
      <4>2. answer' = Reply(301, "exit", Script \o <<"/">>)
        BY <1>4, <3>1, <4>1 DEF NoPath, Finish
      <4> QED BY <3>1, <4>2 DEF Home, Reply
    <3>2. CASE phk.web_run_script # NULL
      <4>1. answer' = gotoMain
        BY <1>4, <3>2 DEF NoPath, Finish
      <4> QED BY <1>0, <3>2, <4>1, MainRedirects
    <3> QED BY <3>1, <3>2
  <2>4. AfterTunnel
    BY <1>4, <2>1, <2>2, <2>3 DEF AfterTunnel, NoPath, Finish
  <2> QED BY <1>t, <2>4
<1>5. CASE Refuse
  <2>1. CASE phk.web_run_script = NULL
    <3>1. answer'.code # 301
      BY <1>5, <2>1 DEF Refuse, Finish, ut_http403Fail, Reply
    <3>2. AfterTunnel
      BY <1>5, <3>1 DEF AfterTunnel, Refuse, Finish
    <3> QED BY <1>t, <3>2
  <2>2. CASE phk.web_run_script # NULL
    <3>1. redirects = 0
      <4>1. pc = "tunnel" /\ ~ut_strings_are_equal(tpath, phk.web_run_script)
        BY <1>5 DEF Refuse, Allowed
      <4>2. redirects = 1 => tpath = phk.web_run_script
        BY <1>0, <2>2, <4>1 DEF Home
      <4> QED BY <1>0, <2>2, <4>1, <4>2 DEF ut_strings_are_equal
    <3>2. answer' = gotoMain
      BY <1>5, <2>2 DEF Refuse, Finish
    <3>3. answer'.code = 301 => answer'.target = Script \o Home(phk)
      BY <1>0, <2>2, <3>2, MainRedirects
    <3>4. Home(phk) \in Seq(Atoms)
      BY <1>0, HomeIs
    <3>5. AfterTunnel
      BY <1>5, <3>1, <3>3, <3>4 DEF AfterTunnel, Refuse, Finish
    <3> QED BY <1>t, <3>5
  <2> QED BY <2>1, <2>2
<1>6. CASE Tunnel
  <2>1. PICK u \in Seq(Atoms) : u = uri(Mnt, tpath) /\ u # <<>> /\ u[1] = Scheme
    <3>1. Mnt \in Seq(Atoms)
      BY ConstantsAssumption
    <3> QED BY <1>0, <3>1, UriType, UriHead
  <2>2. PICK v \in Seq(Atoms) : v = Append(u, "/") /\ v # <<>> /\ v[1] = Scheme
    <3>1. Append(u, "/") \in Seq(Atoms) /\ Append(u, "/") # <<>>
      BY ZenonT(60), AtomsHave, AppendProperties
    <3>2. Append(u, "/")[1] = u[1]
      BY <2>1
    <3> QED BY <2>1, <3>1, <3>2
  <2>3. ut_http301Redirect(v) = Reply(301, "exit", Script \o v)
    BY <1>0, RedirectIs
  <2>4. PICK found \in StatResults(phk, u) :
            CASE found = "none" -> Finish(ut_http404Fail)
              [] found = "file" -> Serve(tpath, u)
              [] found = "dir" /\ last_slash -> pc' = "autoindex" /\ UNCHANGED answer
              [] found = "dir" /\ ~last_slash -> Finish(ut_http301Redirect(v))
    BY <1>6, <2>1, <2>2 DEF Tunnel
  <2>5. found \in {"none", "file", "dir"}
    BY <2>4 DEF StatResults
  <2>6. UNCHANGED <<request, webinfo, redirects>>
    BY <1>6 DEF Tunnel
  <2>7. CASE found = "none"
    <3>1. pc' = "answered" /\ answer'.code # 301
      BY <2>4, <2>7 DEF Finish, ut_http404Fail, Reply
    <3> QED BY <1>t, <2>6, <3>1 DEF AfterTunnel
  <2>8. CASE found = "file"
    <3>1. Serve(tpath, u)
      BY <2>4, <2>8
    <3>2. pc' = "answered" /\ answer'.code # 301
      BY ZenonT(60), <3>1, NotARedirect DEF Serve, Finish
    <3> QED BY <1>t, <2>6, <3>2 DEF AfterTunnel
  <2>9. CASE found = "dir" /\ last_slash
    <3>1. pc' = "autoindex"
      BY <2>4, <2>9
    <3> QED BY <1>t, <2>6, <3>1 DEF AfterTunnel
  <2>10. CASE found = "dir" /\ ~last_slash
    <3>1. pc' = "answered" /\ answer' = Reply(301, "exit", Script \o v)
      BY <2>3, <2>4, <2>10 DEF Finish
    <3>2. answer'.target = Script \o v
      BY <3>1 DEF Reply
    <3> QED BY <1>t, <2>2, <2>6, <3>1, <3>2 DEF AfterTunnel
  <2> QED BY <2>5, <2>7, <2>8, <2>9, <2>10
<1>7. CASE Autoindex
  <2>1. PICK index : Serve(index, uri(Mnt, index))
    BY <1>7 DEF Autoindex
  <2>2. pc' = "answered" /\ answer'.code # 301
    BY <2>1, NotARedirect DEF Serve, Finish
  <2> QED BY <1>t, <1>7, <2>2 DEF AfterTunnel, Autoindex
<1>8. CASE TimeLimit
  <2>1. pc' = "answered" /\ answer'.code # 301
    BY <1>8 DEF TimeLimit, Finish, Reply
  <2> QED BY <1>t, <1>8, <2>1 DEF AfterTunnel, TimeLimit
<1>9. CASE EndRequest
  BY <1>9 DEF EndRequest, Forget, RedirectInv
<1>10. CASE Follow
  <2>1. PICK rest \in Seq(Atoms) : Redirect(rest)
    BY <1>0, <1>10 DEF Follow
  <2>2. PICK s \in Seq(Atoms) : s = Script
    BY ConstantsAssumption
  <2>3. rest # <<>>
    <3>1. Home(phk) # <<>>
      BY <1>0, HomeIs
    <3> QED BY <2>1, <3>1 DEF Redirect
  <2>4. SubSeq(answer.target, Len(s) + 1, Len(answer.target)) = rest
    <3>1. answer.target = s \o rest
      BY <2>1, <2>2 DEF Redirect
    <3>2. Len(s \o rest) = Len(s) + Len(rest) /\ Len(s) \in Nat /\ Len(rest) \in Nat \ {0}
      BY <2>3
    <3>3. Len(s) + 1 \in Len(s) + 1..Len(s) + Len(rest)
          /\ Len(s) + Len(rest) \in Len(s) + 1..Len(s) + Len(rest)
      BY <3>2
    <3>4. SubSeq(s \o rest, Len(s) + 1, Len(s) + Len(rest))
            = SubSeq(rest, Len(s) + 1 - Len(s), Len(s) + Len(rest) - Len(s))
      BY <3>3, SubSeqOfConcat2
    <3>5. Len(s) + 1 - Len(s) = 1 /\ Len(s) + Len(rest) - Len(s) = Len(rest)
      BY <3>2
    <3> QED BY <3>1, <3>2, <3>4, <3>5, SubSeqFull
  <2>5. Head(rest) = rest[1]
    BY <2>3
  <2>6. \/ /\ pc' = "prolog" /\ redirects' = redirects + 1 /\ Head(rest) = "/"
           /\ request' = [via |-> "PATH_INFO", path |-> rest]
        \/ pc' = "idle" /\ redirects' = 0
    BY <1>10, <2>2, <2>3, <2>4 DEF Follow
  <2>7. webinfo' = FALSE /\ phk' = phk
    BY <1>10 DEF Follow, Forget
  <2>8. CASE pc' = "idle" /\ redirects' = 0
    BY <2>7, <2>8 DEF RedirectInv
  <2>9. CASE /\ pc' = "prolog" /\ redirects' = redirects + 1 /\ Head(rest) = "/"
             /\ request' = [via |-> "PATH_INFO", path |-> rest]
    <3>1. rest[1] # Scheme
      BY <2>5, <2>9 DEF Scheme
    <3>2. rest = Home(phk) /\ redirects = 0
      BY <2>1, <3>1 DEF Redirect
    <3>3. redirects' = 1 /\ request' = [via |-> "PATH_INFO", path |-> Home(phk)]
      BY <2>9, <3>2
    <3> QED BY <2>7, <2>9, <3>3 DEF RedirectInv
  <2> QED BY <2>6, <2>8, <2>9
<1>11. CASE UNCHANGED vars
  BY <1>11 DEF vars, RedirectInv, Redirect
<1> QED BY <1>1, <1>2, <1>3, <1>4, <1>5, <1>6, <1>7, <1>8, <1>9, <1>10, <1>11 DEF Next

\* A browser follows one redirect of a package at most, whatever it has asked for, and
\* whatever the package holds, if prolog() gets back the path of the main script.
\* (Property RedirectsSettle; PHK_webTunnel(), gotoMain.)
THEOREM RedirectsSettleCorrect == Spec => []RedirectsSettle
<1>1. TypeOK /\ RedirectInv => RedirectsSettle
  BY DEF RedirectInv, RedirectsSettle, Returns
<1> QED BY <1>1, TypeInit, TypeNext, RedirectInit, RedirectNext, PTL DEF Spec

-----------------------------------------------------------------------------
(***************************************************************************)
(* Mount points of sub-packages.                                           *)
(***************************************************************************)
\* In every package two sub-packages have two mount points, if no path has in it the
\* character that PHK_Mgr_computeMnt() puts in the place of a slash.
\* (Property SubMountsDistinct.)
THEOREM SubMountsDistinctCorrect == Spec => []SubMountsDistinct
<1>1. TypeOK => SubMountsDistinct
  <2> SUFFICES ASSUME phk \in Packages,
                      NEW f \in phk.files, NEW g \in phk.files,
                      ~Contains(f, "*"), ~Contains(g, "*"), subMnt(Mnt, f) = subMnt(Mnt, g)
               PROVE  f = g
    BY DEF TypeOK, SubMountsDistinct
  <2>1. f \in Seq(Atoms) /\ g \in Seq(Atoms)
    BY PackageFields
  <2>2. Mnt \in Seq(Atoms)
    BY ConstantsAssumption
  <2> QED BY <2>1, <2>2, SubMntInjective
<1> QED BY <1>1, TypeCorrect, PTL

-----------------------------------------------------------------------------
(***************************************************************************)
(* The URIs that PHK_Mgr builds.                                           *)
(***************************************************************************)
\* The words of a URI.
Words == Atoms \cup {"#", "*", "?", "&", "section", "name=", "AUTOMAP"}

LEMMA WordsHave ==
  /\ Scheme \in Words /\ "/" \in Words /\ "#" \in Words /\ "*" \in Words /\ "?" \in Words
  /\ "&" \in Words /\ "section" \in Words /\ "name=" \in Words /\ "AUTOMAP" \in Words
  /\ \A s \in Seq(Atoms) : s \in Seq(Words)
<1>1. Atoms \subseteq Words
  BY DEF Words
<1>2. \A s \in Seq(Atoms) : s \in Seq(Words)
  BY <1>1, SeqMonotonic
<1> QED BY <1>1, <1>2, AtomsHave DEF Words

\* No name of a package or a file in it has a character that ends a mount point in a URI.
PlainNames ==
  /\ MntString(Mnt)
  /\ \A p \in Packages : \A f \in p.files : \A i \in 1..Len(f) : f[i] \notin {"?", "&", "\\", " "}

LEMMA MountPoints ==
  ASSUME PlainNames, phk \in Packages, NEW m \in {Mnt} \cup {subMnt(Mnt, f) : f \in phk.files}
  PROVE  m \in Seq(Words) /\ MntString(m)
<1>1. Mnt \in Seq(Words)
  <2>1. Mnt \in Seq(Atoms)
    BY ConstantsAssumption
  <2> QED BY <2>1, WordsHave
<1>2. CASE m = Mnt
  BY <1>1, <1>2 DEF PlainNames
<1>3. CASE \E f \in phk.files : m = subMnt(Mnt, f)
  <2>1. PICK f \in phk.files : m = subMnt(Mnt, f)
    BY <1>3
  <2>2. f \in Seq(Words) /\ \A i \in 1..Len(f) : f[i] \notin {"?", "&", "\\", " "}
    <3>1. f \in Seq(Atoms)
      BY PackageFields
    <3> QED BY <3>1, WordsHave DEF PlainNames
  <2>3. PICK n : n = Mnt
    OBVIOUS
  <2>4. /\ m \in Seq(Words)
        /\ Len(m) = Len(n) + 1 + Len(f)
        /\ \A i \in 1..Len(n) : m[i] = n[i]
        /\ m[Len(n) + 1] = "#"
        /\ Replaced(f, m, Len(n) + 1)
    BY ZenonT(60), <1>1, <2>1, <2>2, <2>3, SubMntType, WordsHave
  <2>5. Len(n) \in Nat /\ Len(f) \in Nat /\ Len(m) \in Nat
    <3>1. n \in Seq(Words) /\ f \in Seq(Words) /\ m \in Seq(Words)
      BY <1>1, <2>2, <2>3, <2>4
    <3> QED BY <3>1
  <2>6. ASSUME NEW i \in 1..Len(m) PROVE m[i] \notin {"/", "?", "&", "\\", " "}
    <3>1. CASE i \in 1..Len(n)
      BY <2>3, <2>4, <3>1 DEF PlainNames, MntString
    <3>2. CASE i = Len(n) + 1
      BY <2>4, <3>2
    <3>3. CASE i > Len(n) + 1
      <4>1. PICK j \in 1..Len(f) : i = Len(n) + 1 + j
        <5>1. i - (Len(n) + 1) \in 1..Len(f) /\ i = Len(n) + 1 + (i - (Len(n) + 1))
          BY <2>4, <2>5, <3>3
        <5> QED BY <5>1
      <4>2. /\ f[j] = "/" => m[i] = "*"
            /\ f[j] # "/" => m[i] = f[j]
        BY <2>4, <4>1 DEF Replaced
      <4> QED BY <2>2, <4>2
    <3>4. i \in 1..Len(n) \/ i = Len(n) + 1 \/ i > Len(n) + 1
      BY <2>5
    <3> QED BY <3>1, <3>2, <3>3, <3>4
  <2>7. m # <<>>
    BY <2>4, <2>5
  <2> QED BY <2>4, <2>6, <2>7 DEF MntString
<1> QED BY <1>2, <1>3

LEMMA PathUri ==
  ASSUME NEW m \in Seq(Words), MntString(m), NEW p \in Seq(Words), PlainString(p)
  PROVE  RoundTrips(uri(m, p), m, <<>>, ut_trim_char(p, "/"))
<1>1. PICK x \in Seq(Words) : x = <<Scheme>>
  BY WordsHave, OneElement
<1>2. PICK h \in Seq(Words) : h = <<"/">>
  BY WordsHave, OneElement
<1>3. PICK t : t = LTrim(p, "/")
  OBVIOUS
<1>4. t \in Seq(Words) /\ \A i \in 1..Len(t) : \E j \in 1..Len(p) : t[i] = p[j]
  BY SMTT(30), <1>3, LTrimIs
<1>5. PlainString(t)
  BY <1>4 DEF PlainString
<1>6. PICK w : w = <<"/">> \o t
  OBVIOUS
<1>7. w \in Seq(Words) /\ w # <<>> /\ w[1] = "/" /\ Tail(w) = t /\ PlainString(w)
  BY <1>4, <1>5, <1>6, SlashThen, WordsHave
<1>8. uri(m, p) = <<Scheme>> \o (m \o w)
  <2>1. uri(m, p) = x \o m \o h \o t
    BY <1>1, <1>2, <1>3 DEF uri
  <2>2. x \o m \o h \o t = x \o (m \o (h \o t))
    BY SMTT(30), <1>1, <1>2, <1>4, PrefixedUri
  <2> QED BY <1>1, <1>2, <1>6, <2>1, <2>2
<1>9. RoundTrips(uri(m, p), m, <<>>, RTrim(Tail(w), "/"))
  BY <1>7, <1>8, PathRoundTrip, WordsHave
<1> QED BY <1>3, <1>7, <1>9 DEF ut_trim_char

LEMMA RoundTripNext == PlainNames /\ TypeOK => UriRoundTrip
<1> SUFFICES ASSUME PlainNames, TypeOK, Plain(tpath),
                    NEW m \in {Mnt} \cup {subMnt(Mnt, f) : f \in phk.files}
             PROVE  /\ RoundTrips(uri(m, tpath), m, <<>>, ut_trim_char(tpath, "/"))
                    /\ RoundTrips(baseURI(m), m, <<>>, <<>>)
                    /\ RoundTrips(automapURI(m), m, <<"section">>, <<>>)
                    /\ RoundTrips(sectionURI(m, tpath), m, <<"section">>, <<>>)
                    /\ tpath # <<>> => RoundTrips(commandURI(m, tpath), m, tpath, <<>>)
  BY DEF UriRoundTrip, RoundTrips, Answer
<1>1. m \in Seq(Words) /\ MntString(m)
  BY MountPoints DEF TypeOK
<1>2. PICK p \in Seq(Words) : p = tpath
  BY WordsHave DEF TypeOK
<1>3. PlainString(p)
  BY <1>2 DEF Plain, PlainString, Contains
<1>4. PICK x \in Seq(Words) : x = <<Scheme>>
  BY WordsHave, OneElement
<1>5. PICK h \in Seq(Words) : h = <<"/">>
  BY WordsHave, OneElement
<1>6. PlainString(<<>>) /\ <<>> \in Seq(Words)
  BY EmptySeq DEF PlainString
<1>7. RoundTrips(uri(m, tpath), m, <<>>, ut_trim_char(tpath, "/"))
  BY <1>1, <1>2, <1>3, PathUri
<1>8. RoundTrips(baseURI(m), m, <<>>, <<>>)
  <2>1. PICK t \in Seq(Words) : t = <<>> /\ PlainString(t)
    BY <1>6
  <2>2. PICK w : w = <<"/">> \o t
    OBVIOUS
  <2>3. w \in Seq(Words) /\ w # <<>> /\ w[1] = "/" /\ Tail(w) = t /\ PlainString(w)
    BY <2>1, <2>2, SlashThen, WordsHave
  <2>4. w = h
    BY <1>5, <2>1, <2>2, ConcatEmptySeq
  <2>5. baseURI(m) = <<Scheme>> \o (m \o w)
    <3>1. x \o m \o h = x \o (m \o h)
      BY <1>1, <1>4, <1>5, ConcatAssociative
    <3> QED BY <1>4, <1>5, <2>4, <3>1 DEF baseURI
  <2>6. RoundTrips(baseURI(m), m, <<>>, RTrim(Tail(w), "/"))
    BY <1>1, <2>3, <2>5, PathRoundTrip, WordsHave
  <2> QED BY <2>1, <2>3, <2>6, RTrimEmpty
<1>9. RoundTrips(automapURI(m), m, <<"section">>, <<>>)
  <2>1. PICK a : a = <<"/", "?", "section", "&", "name=", "AUTOMAP">>
    OBVIOUS
  <2>2. /\ a \in Seq(Words) /\ Len(a) = 6 /\ a[1] = "/" /\ a[2] = "?" /\ a[3] = "section"
        /\ a[4] = "&" /\ a[5] = "name=" /\ a[6] = "AUTOMAP"
    BY <2>1, WordsHave
  <2>3. Len(a) \in {5, 6} /\ \A i \in 5..Len(a) : a[i] \notin {"?", "&", "\\"}
    BY <2>2
  <2>4. PICK t \in Seq(Words) : t = <<>> /\ PlainString(t)
    BY <1>6
  <2>5. PICK w : w = a \o t
    OBVIOUS
  <2>6. w \in Seq(Words) /\ CommandRest(w, 3) /\ SubSeq(w, 3, 3) = <<"section">>
    BY <2>2, <2>3, <2>4, <2>5, SectionRests
  <2>7. w = a
    BY <2>2, <2>4, <2>5, ConcatEmptySeq
  <2>8. automapURI(m) = <<Scheme>> \o (m \o w)
    <3>0. a \in Seq(Words)
      BY <2>2
    <3>1. x \o m \o a = x \o (m \o a)
      BY <1>1, <1>4, <3>0, ConcatAssociative
    <3> QED BY <1>4, <2>1, <2>7, <3>1 DEF automapURI
  <2>9. <<"section">> # <<>>
    OBVIOUS
  <2> QED BY <1>1, <2>6, <2>8, <2>9, CommandRoundTrip, WordsHave
<1>10. RoundTrips(sectionURI(m, tpath), m, <<"section">>, <<>>)
  <2>1. PICK a : a = <<"/", "?", "section", "&", "name=">>
    OBVIOUS
  <2>2. /\ a \in Seq(Words) /\ Len(a) = 5 /\ a[1] = "/" /\ a[2] = "?" /\ a[3] = "section"
        /\ a[4] = "&" /\ a[5] = "name="
    BY <2>1, WordsHave
  <2>3. Len(a) \in {5, 6} /\ \A i \in 5..Len(a) : a[i] \notin {"?", "&", "\\"}
    BY <2>2
  <2>4. PICK w : w = a \o p
    OBVIOUS
  <2>5. w \in Seq(Words) /\ CommandRest(w, 3) /\ SubSeq(w, 3, 3) = <<"section">>
    BY <1>3, <2>2, <2>3, <2>4, SectionRests
  <2>6. sectionURI(m, tpath) = <<Scheme>> \o (m \o w)
    <3>0. a \in Seq(Words)
      BY <2>2
    <3>1. x \o m \o a \o p = x \o (m \o (a \o p))
      BY SMTT(30), <1>1, <1>2, <1>4, <1>5, <3>0, PrefixedUri
    <3> QED BY <1>2, <1>4, <2>1, <2>4, <3>1 DEF sectionURI
  <2>7. <<"section">> # <<>>
    OBVIOUS
  <2> QED BY <1>1, <2>5, <2>6, <2>7, CommandRoundTrip, WordsHave
<1>11. ASSUME tpath # <<>> PROVE RoundTrips(commandURI(m, tpath), m, tpath, <<>>)
  <2>1. PICK a : a = <<"/", "?">>
    OBVIOUS
  <2>2. a \in Seq(Words)
    BY <2>1, WordsHave
  <2>3. PICK w : w = a \o p
    OBVIOUS
  <2>4. w \in Seq(Words) /\ CommandRest(w, Len(w)) /\ SubSeq(w, 3, Len(w)) = p
    BY <1>2, <1>3, <1>11, <2>1, <2>3, CommandRests, WordsHave
  <2>5. commandURI(m, tpath) = <<Scheme>> \o (m \o w)
    <3>1. x \o m \o a \o p = x \o (m \o (a \o p))
      BY SMTT(30), <1>1, <1>2, <1>4, <1>5, <2>2, PrefixedUri
    <3> QED BY <1>2, <1>4, <2>1, <2>3, <3>1 DEF commandURI
  <2> QED BY <1>1, <1>2, <1>11, <2>4, <2>5, CommandRoundTrip, WordsHave
<1> QED BY <1>7, <1>8, <1>9, <1>10, <1>11

\* For all packages and all requests: whatever URI PHK_Mgr builds for a package or a
\* sub-package, with a path, a section or a command, the stream wrapper and the two other
\* functions that look for a mount point take it apart into what it was built of.
\* (Property UriRoundTrip; PHK_Mgr_uri() and its like, PHK_Stream_parseURI().)
THEOREM UriRoundTripCorrect ==
  ASSUME PlainNames
  PROVE  Spec => []UriRoundTrip
<1>1. TypeOK => UriRoundTrip
  BY RoundTripNext
<1> QED BY <1>1, TypeCorrect, PTL

-----------------------------------------------------------------------------
(*****************************************************************************)
(* Paths without superfluous slashes are what their components say.          *)
(*****************************************************************************)
\* A path that begins with a slash, has no two of them side by side, and none at its end.
Stem(s) == s # <<>> => s[1] = "/" /\ Canonical(s) /\ s[Len(s)] # "/"

\* Its last component is what follows the last slash.
LEMMA StemSplit ==
  ASSUME NEW A, NEW s \in Seq(A), s # <<>>, Stem(s)
  PROVE  \E u \in Seq(A), w \in Seq(A) :
           /\ Stem(u)
           /\ JoinedBySlash(s, u, w)
           /\ Components(s) = Append(Components(u), w)
<1>1. Len(s) \in Nat \ {0} /\ \A i \in 1..Len(s) : s[i] \in A
  BY EmptySeq
<1>2. s[1] = "/" /\ s[Len(s)] # "/" /\ \A i \in 2..Len(s) : s[i] = "/" => s[i - 1] # "/"
  BY DEF Stem, Canonical
<1>3. PICK P : P = Places(s, "/")
  OBVIOUS
<1>4. P \subseteq 1..Len(s) /\ \A i \in 1..Len(s) : i \in P <=> s[i] = "/"
  BY <1>3 DEF Places
<1>5. PICK k : k = Last0(P)
  OBVIOUS
<1>6. 1 \in P
  BY <1>1, <1>2, <1>4
<1>7. k \in P /\ \A i \in P : i <= k
  BY <1>1, <1>4, <1>5, <1>6, Last0Is
<1>8. k \in 1..Len(s) /\ k # Len(s) /\ s[k] = "/"
  BY <1>2, <1>4, <1>7
<1>9. PICK u, w : u = SubSeq(s, 1, k - 1) /\ w = SubSeq(s, k + 1, Len(s))
  OBVIOUS
<1>10. /\ u \in Seq(A) /\ Len(u) = k - 1
       /\ \A i \in 1..(k - 1) : u[i] = s[i]
  <2>1. PICK n \in 0..Len(s) : n = k - 1
    BY <1>1, <1>8
  <2>2. /\ u \in Seq(A) /\ Len(u) = IF 1 <= n THEN n - 1 + 1 ELSE 0
        /\ \A j \in 1..(n - 1 + 1) : u[j] = s[1 + j - 1]
    BY <1>9, <2>1, SliceType
  <2> QED BY <1>1, <1>8, <2>1, <2>2
<1>11. /\ w \in Seq(A) /\ Len(w) = Len(s) - k /\ Len(w) # 0
       /\ \A i \in 1..(Len(s) - k) : w[i] = s[k + i]
  <2>1. PICK n \in Nat \ {0} : n = k + 1
    BY <1>8
  <2>2. Len(s) \in 0..Len(s)
    BY <1>1
  <2>3. /\ w \in Seq(A) /\ Len(w) = IF n <= Len(s) THEN Len(s) - n + 1 ELSE 0
        /\ \A j \in 1..(Len(s) - n + 1) : w[j] = s[n + j - 1]
    BY <1>9, <2>1, <2>2, SliceType
  <2> QED BY <1>1, <1>8, <2>1, <2>3
<1>12. Len(u) + 1 = k
  BY <1>8, <1>10
<1>13. JoinedBySlash(s, u, w)
  <2>1. Len(s) = k + Len(w)
    BY <1>1, <1>8, <1>11
  <2>2. \A i \in 1..Len(u) : s[i] = u[i]
    BY <1>10
  <2>3. \A i \in 1..Len(w) : s[k + i] = w[i]
    BY <1>11
  <2> QED BY <1>8, <1>12, <2>1, <2>2, <2>3 DEF JoinedBySlash
<1>14. Stem(u)
  <2> SUFFICES ASSUME u # <<>> PROVE u[1] = "/" /\ Canonical(u) /\ u[Len(u)] # "/"
    BY DEF Stem
  <2>1. Len(u) # 0
    BY <1>10, EmptySeq
  <2>2. k - 1 \in 1..Len(s) /\ k \in 2..Len(s)
    BY <1>1, <1>8, <1>10, <2>1
  <2>3. u[1] = "/"
    BY <1>2, <1>10, <2>2
  <2>4. u[Len(u)] # "/"
    BY <1>2, <1>8, <1>10, <2>2
  <2>5. ASSUME NEW i \in 2..Len(u), u[i] = "/" PROVE u[i - 1] # "/"
    <3>1. i \in 2..Len(s) /\ i \in 1..(k - 1) /\ i - 1 \in 1..(k - 1)
      BY <1>1, <1>8, <1>10
    <3> QED BY <1>2, <1>10, <2>5, <3>1
  <2> QED BY <2>3, <2>4, <2>5 DEF Canonical
<1>15. \A i \in 1..Len(w) : w[i] # "/"
  <2> TAKE i \in 1..Len(w)
  <2>1. k + i \in 1..Len(s) /\ ~(k + i <= k) /\ w[i] = s[k + i]
    BY <1>1, <1>8, <1>11
  <2> QED BY <1>4, <1>7, <2>1
<1>16. Components(w) = <<w>>
  <2>1. w # <<>>
    BY <1>11
  <2> QED BY <1>11, <1>15, <2>1, OneComponent
<1>17. Components(s) = Components(u) \o Components(w)
  BY ZenonT(60), <1>10, <1>11, <1>13, ComponentsJoined DEF JoinedBySlash
<1>18. Components(s) = Append(Components(u), w)
  <2>1. PICK B : B = Seq(A)
    OBVIOUS
  <2>2. Components(u) \in Seq(B) /\ w \in B
    BY <1>10, <1>11, <2>1, ComponentsType
  <2>3. Append(Components(u), w) = Components(u) \o <<w>>
    BY <2>2, AppendIsConcat
  <2> QED BY <1>16, <1>17, <2>3
<1> QED BY <1>10, <1>11, <1>13, <1>14, <1>18

\* The components of one path begin with those of another only if its characters do.
LEMMA ComponentsReach ==
  ASSUME NEW A, NEW t \in Seq(A), NEW a \in Seq(A), Stem(t), Stem(a),
         IsPrefix(Components(a), Components(t))
  PROVE  Reaches(t, a)
<1> DEFINE Wrong(x, y) == /\ Stem(x) /\ Stem(y)
                          /\ IsPrefix(Components(y), Components(x))
                          /\ ~Reaches(x, y)
           T == {n \in Nat : \E x, y \in Seq(A) : Len(x) = n /\ Wrong(x, y)}
<1>1. SUFFICES ASSUME T # {} PROVE FALSE
  <2>1. Len(t) \in Nat
    OBVIOUS
  <2> QED BY <2>1
<1>2. T \subseteq Nat
  OBVIOUS
<1>3. PICK m \in T : \A n \in T : m <= n
  <2> HIDE DEF T
  <2> QED BY <1>1, <1>2, Least
<1>4. \A x, y \in Seq(A) : Len(x) < m => ~Wrong(x, y)
  <2> SUFFICES ASSUME NEW x \in Seq(A), NEW y \in Seq(A), Len(x) < m, Wrong(x, y)
      PROVE FALSE
    OBVIOUS
  <2>1. Len(x) \in T /\ Len(x) \in Nat /\ m \in Nat
    OBVIOUS
  <2> QED BY <1>3, <2>1
<1>5. PICK x \in Seq(A), y \in Seq(A) : Len(x) = m /\ Wrong(x, y)
  OBVIOUS
<1> HIDE DEF T
<1>6. PICK B : B = Seq(A)
  OBVIOUS
<1>7. CASE y = <<>>
  <2>1. Len(y) = 0 /\ Len(x) \in Nat /\ (x # <<>> <=> Len(x) # 0)
    BY <1>7, EmptySeq
  <2>2. Len(x) > 0 => x[1] = "/"
    BY <1>5, <2>1 DEF Stem
  <2>3. Len(y) + 1 = 1 /\ Len(y) <= Len(x) /\ \A i \in 1..Len(y) : x[i] = y[i]
    BY <2>1
  <2>4. Len(y) < Len(x) => x[Len(y) + 1] = "/"
    BY <2>1, <2>2, <2>3
  <2>5. Reaches(x, y)
    BY <2>3, <2>4 DEF Reaches
  <2> QED BY <1>5, <2>5
<1>8. CASE y # <<>>
  <2>1. PICK u \in Seq(A), w \in Seq(A) :
          Stem(u) /\ JoinedBySlash(y, u, w) /\ Components(y) = Append(Components(u), w)
    BY <1>5, <1>8, StemSplit
  <2>2. Components(u) \in Seq(B) /\ w \in B
    BY <1>6, ComponentsType
  <2>3. x # <<>>
    BY <1>5, <2>1, <2>2, ComponentsOfEmpty, PrefixOfAppend
  <2>4. PICK v \in Seq(A), z \in Seq(A) :
          Stem(v) /\ JoinedBySlash(x, v, z) /\ Components(x) = Append(Components(v), z)
    BY <1>5, <2>3, StemSplit
  <2>5. Components(v) \in Seq(B) /\ z \in B
    BY <1>6, ComponentsType
  <2>6. Len(v) \in Nat /\ Len(v) < m
    <3>1. Len(v) \in Nat /\ Len(z) \in Nat /\ Len(x) = Len(v) + 1 + Len(z)
      BY <2>4 DEF JoinedBySlash
    <3> QED BY <1>5, <3>1
  <2>7. CASE Components(v) = Components(u) /\ z = w
    <3>1. IsPrefix(Components(u), Components(v)) /\ IsPrefix(Components(v), Components(u))
      BY <2>2, <2>7, PrefixSelf
    <3>2. Reaches(v, u)
      BY <1>4, <2>1, <2>4, <2>6, <3>1
    <3>3. Len(u) <= Len(v) /\ Len(u) \in Nat
      BY <3>2 DEF Reaches
    <3>4. Len(u) < m
      BY <1>5, <2>6, <3>3
    <3>5. Reaches(u, v)
      BY <1>4, <2>1, <2>4, <3>1, <3>4
    <3>6. u = v
      BY <3>2, <3>5, ReachesBoth
    <3>7. x = y
      BY <2>1, <2>4, <2>7, <3>6, ReachesSame
    <3>8. Reaches(x, x)
      BY DEF Reaches
    <3> QED BY <1>5, <3>7, <3>8
  <2>8. CASE IsPrefix(Components(y), Components(v))
    <3>1. Reaches(v, y)
      BY <1>4, <1>5, <2>4, <2>6, <2>8
    <3>2. Reaches(x, y)
      BY <2>4, <3>1, ReachesSlash
    <3> QED BY <1>5, <3>2
  <2>9. IsPrefix(Append(Components(u), w), Append(Components(v), z))
    BY <1>5, <2>1, <2>4
  <2> QED BY <2>1, <2>2, <2>5, <2>7, <2>8, <2>9, PrefixOfAppend
<1> QED BY <1>7, <1>8

LEMMA SameComponents ==
  ASSUME NEW A, NEW s \in Seq(A), NEW t \in Seq(A), Stem(s), Stem(t),
         Components(s) = Components(t)
  PROVE  s = t
<1>1. PICK B : B = Seq(A)
  OBVIOUS
<1>2. Components(s) \in Seq(B) /\ Components(t) \in Seq(B)
  BY <1>1, ComponentsType
<1>3. IsPrefix(Components(s), Components(t)) /\ IsPrefix(Components(t), Components(s))
  <2>1. Len(Components(s)) <= Len(Components(s))
    BY <1>2
  <2> QED BY <2>1 DEF IsPrefix
<1>4. Reaches(s, t) /\ Reaches(t, s)
  BY <1>3, ComponentsReach
<1> QED BY <1>4, ReachesBoth

-----------------------------------------------------------------------------
(*****************************************************************************)
(* The option web_access.                                                    *)
(*****************************************************************************)
LEMMA RootComponents == Components(<<"/">>) = <<>>
<1>1. <<>> \in Seq(Atoms) /\ Append(<<>>, "/") = <<"/">>
  OBVIOUS
<1>2. "/" \in Atoms
  BY ConstantsAssumption
<1> QED BY <1>1, <1>2, ComponentsBeforeSlash, ComponentsOfEmpty

LEMMA AccessPaths ==
  ASSUME NEW p \in Packages
  PROVE  web_access(p) \subseteq Seq(Atoms)
<1>1. p \in PackageType
  BY ConstantsAssumption
<1>2. p.web_access \in [type : {"string", "array", "unset"}, paths : SUBSET Seq(Atoms)]
  BY <1>1 DEF PackageType
<1>3. p.web_access.paths \subseteq Seq(Atoms)
  BY <1>2
<1> QED BY <1>3 DEF web_access

\* What the characters allow is below, ...
LEMMA MatchesBelow ==
  ASSUME NEW t \in Seq(Atoms), NEW a \in Seq(Atoms), web_access_matches(a, t)
  PROVE  Below(t, a)
<1>1. PICK B : B = Seq(Atoms)
  OBVIOUS
<1>2. Components(a) \in Seq(B) /\ Components(t) \in Seq(B)
  BY <1>1, ComponentsType
<1>3. CASE a = <<"/">>
  BY <1>2, <1>3, RootComponents, PrefixSelf DEF Below
<1>4. CASE IsPrefix(a, t) /\ (Len(t) # Len(a) => t[Len(a) + 1] = "/")
  <2>1. /\ Len(a) \in Nat /\ Len(t) \in Nat /\ Len(a) <= Len(t)
        /\ \A i \in 1..Len(a) : t[i] = a[i]
    BY <1>4, PrefixIs
  <2>2. CASE Len(t) = Len(a)
    <3>1. t = a
      BY <2>1, <2>2, SeqEqual
    <3> QED BY <1>2, <3>1, PrefixSelf DEF Below
  <2>3. CASE Len(t) # Len(a)
    <3>1. PICK n \in Nat \ {0} : n = Len(a) + 2
      BY <2>1
    <3>2. PICK y : y = SubSeq(t, n, Len(t))
      OBVIOUS
    <3>3. Len(t) \in 0..Len(t)
      BY <2>1
    <3>4. /\ y \in Seq(Atoms) /\ Len(y) = IF n <= Len(t) THEN Len(t) - n + 1 ELSE 0
          /\ \A j \in 1..(Len(t) - n + 1) : y[j] = t[n + j - 1]
      BY <3>2, <3>3, SliceType
    <3>5. Len(t) = Len(a) + 1 + Len(y) /\ \A j \in 1..Len(y) : t[Len(a) + 1 + j] = y[j]
      <4>1. PICK lt \in Nat, la \in Nat : lt = Len(t) /\ la = Len(a)
        BY <2>1
      <4>2. n = la + 2 /\ la < lt
        BY <2>1, <2>3, <3>1, <4>1
      <4>3. Len(y) = lt - n + 1 /\ \A j \in 1..(lt - n + 1) : y[j] = t[n + j - 1]
        BY <3>4, <4>1, <4>2
      <4>4. Len(y) = (lt - la) - 1 /\ \A j \in 1..Len(y) : y[j] = t[la + 1 + j]
        BY SMTT(30), <4>2, <4>3
      <4>5. lt = la + 1 + Len(y)
        BY <4>2, <4>4
      <4> QED BY <4>1, <4>4, <4>5
    <3>6. t[Len(a) + 1] = "/"
      BY <1>4, <2>3
    <3>7. Components(t) = Components(a) \o Components(y)
      BY ZenonT(30), <2>1, <3>4, <3>5, <3>6, ComponentsJoined
    <3>8. Components(y) \in Seq(B)
      BY <1>1, <3>4, ComponentsType
    <3> QED BY <1>2, <3>7, <3>8, PrefixOfConcat DEF Below
  <2> QED BY <2>2, <2>3
<1> QED BY <1>3, <1>4 DEF web_access_matches

LEMMA RtrimEnds ==
  ASSUME NEW s \in Seq(Atoms), s # <<"/">>, s # <<>>, rtrim(s) = s
  PROVE  s[Len(s)] # "/"
<1>1. RTrim(s, "/") = s
  BY DEF rtrim
<1>2. PICK l \in 0..Len(s) : TrimsTo(s, "/", l, s)
  BY <1>1, RTrimIs
<1> QED BY <1>2, EmptySeq DEF TrimsTo

LEMMA SimpleStem ==
  ASSUME NEW s \in Seq(Atoms), Simple(s), s # <<"/">>
  PROVE  Stem(s)
<1>1. Canonical(s) /\ s # <<>> /\ s[1] = "/" /\ rtrim(s) = s
  BY DEF Simple
<1> QED BY <1>1, RtrimEnds DEF Stem

\* ... and what is below is allowed.
LEMMA BelowMatches ==
  ASSUME NEW t \in Seq(Atoms), NEW a \in Seq(Atoms), Simple(t), Simple(a), Below(t, a)
  PROVE  web_access_matches(a, t)
<1>1. SUFFICES ASSUME a # <<"/">> PROVE web_access_matches(a, t)
  BY DEF web_access_matches
<1>2. Stem(a) /\ a # <<>>
  BY <1>1, SimpleStem DEF Simple
<1>3. t # <<"/">>
  <2> SUFFICES ASSUME t = <<"/">> PROVE FALSE
    OBVIOUS
  <2>1. PICK u \in Seq(Atoms), w \in Seq(Atoms) : Components(a) = Append(Components(u), w)
    BY <1>2, StemSplit
  <2>2. PICK B : B = Seq(Atoms)
    OBVIOUS
  <2>3. Components(u) \in Seq(B) /\ w \in B
    BY <2>2, ComponentsType
  <2>4. IsPrefix(Append(Components(u), w), <<>>)
    BY <2>1, RootComponents DEF Below
  <2> QED BY <2>3, <2>4, PrefixOfAppend
<1>4. Stem(t)
  BY <1>3, SimpleStem
<1>5. Reaches(t, a)
  BY <1>2, <1>4, ComponentsReach DEF Below
<1>6. Len(a) \in Nat /\ Len(t) \in Nat
  OBVIOUS
<1>7. IsPrefix(a, t) /\ (Len(t) # Len(a) => t[Len(a) + 1] = "/")
  BY <1>5, <1>6, PrefixIs DEF Reaches
<1> QED BY <1>7 DEF web_access_matches

\* web_access_matches() compares characters, but takes a path for open only if it is the
\* option's, or below it by its components; and if both are without superfluous slashes it
\* takes every such path for open.  (Property AccessByComponents.)
THEOREM AccessByComponentsCorrect == Spec => []AccessByComponents
<1>1. TypeOK => AccessByComponents
  <2> SUFFICES ASSUME TypeOK, NEW apath \in web_access(phk)
      PROVE  /\ web_access_matches(apath, tpath) => Below(tpath, apath)
             /\ Below(tpath, apath) /\ Simple(tpath) /\ Simple(apath)
                  => web_access_matches(apath, tpath)
    BY DEF AccessByComponents
  <2>1. tpath \in Seq(Atoms) /\ apath \in Seq(Atoms)
    BY AccessPaths DEF TypeOK
  <2> QED BY <2>1, MatchesBelow, BelowMatches
<1> QED BY <1>1, TypeCorrect, PTL

-----------------------------------------------------------------------------
(*****************************************************************************)
(* ut_mkAbsolutePath().                                                      *)
(*****************************************************************************)
LEMMA WithSlashIs ==
  ASSUME NEW s \in Seq(Atoms), s # <<>>, NEW separ \in BOOLEAN, NEW w, w = WithSlash(s, separ)
  PROVE  /\ w \in Seq(Atoms) /\ w # <<>> /\ Head(w) = Head(s)
         /\ Components(w) = Components(s)
         /\ separ => EndsWithSlash(w)
         /\ WithSlash(w, separ) = w
<1>1. CASE ~separ \/ EndsWithSlash(s)
  BY <1>1 DEF WithSlash
<1>2. CASE separ /\ ~EndsWithSlash(s)
  <2>1. w = Append(s, "/")
    BY <1>2 DEF WithSlash
  <2>2. "/" \in Atoms
    BY ConstantsAssumption
  <2>3. /\ w \in Seq(Atoms) /\ w # <<>> /\ Len(w) = Len(s) + 1 /\ w[Len(s) + 1] = "/"
        /\ \A i \in 1..Len(s) : w[i] = s[i]
    BY <2>1, <2>2, AppendProperties
  <2>4. Head(w) = Head(s)
    BY <2>3, EmptySeq
  <2>5. Components(w) = Components(s)
    BY <2>1, <2>2, ComponentsBeforeSlash
  <2>6. EndsWithSlash(w)
    BY <2>3 DEF EndsWithSlash
  <2> QED BY <2>3, <2>4, <2>5, <2>6 DEF WithSlash
<1> QED BY <1>1, <1>2

\* The path is joined to a directory, which ends with a slash then.
LEMMA JoinedPath ==
  ASSUME NEW c \in Seq(Atoms), EndsWithSlash(c), NEW path \in Seq(Atoms), NEW t, t = c \o path
  PROVE  /\ t \in Seq(Atoms) /\ t # <<>> /\ Head(t) = Head(c)
         /\ Components(t) = Components(c) \o Components(path)
<1>1. /\ t \in Seq(Atoms) /\ Len(c) \in Nat /\ Len(path) \in Nat
      /\ Len(t) = Len(c) + Len(path)
      /\ \A i \in 1..Len(c) : t[i] = c[i]
      /\ \A i \in 1..Len(path) : t[Len(c) + i] = path[i]
  BY Parts
<1>2. c # <<>> /\ Len(c) # 0 /\ c[Len(c)] = "/"
  BY EmptySeq DEF EndsWithSlash
<1>3. Len(c) \in 1..Len(c) /\ 1 \in 1..Len(c) /\ Len(t) # 0
  BY <1>1, <1>2
<1>4. t # <<>> /\ Head(t) = Head(c)
  <2>1. t # <<>>
    BY <1>3
  <2>2. t[1] = c[1]
    BY <1>1, <1>3
  <2> QED BY <1>1, <1>2, <2>1, <2>2
<1>5. Components(t) = ComponentsUpTo(t)[Len(c)] \o Components(path)
  <2>1. t[Len(c)] = "/"
    BY <1>1, <1>2, <1>3
  <2> QED BY <1>1, <2>1, ComponentsAfter
<1>6. ComponentsUpTo(t)[Len(c)] = Components(c)
  <2>1. Len(c) <= Len(c) /\ Len(c) <= Len(t)
    BY <1>1
  <2>2. \A i \in 1..Len(c) : c[i] = t[i]
    BY <1>1
  <2>3. ComponentsUpTo(c)[Len(c)] = ComponentsUpTo(t)[Len(c)]
    BY ZenonT(30), <1>1, <2>1, <2>2, ComponentsOfPrefix
  <2> QED BY <2>3 DEF Components
<1> QED BY <1>1, <1>4, <1>5, <1>6

LEMMA AbsolutePathIs ==
  ASSUME NEW path \in Seq(Atoms), NEW separ \in BOOLEAN,
         NEW abs, abs = ut_mkAbsolutePath(path, Script, separ)
  PROVE  /\ Head(abs) = IF isPhkUri(path) THEN Scheme ELSE "/"
         /\ separ => EndsWithSlash(abs)
         /\ ut_mkAbsolutePath(abs, Script, separ) = abs
         /\ Components(abs) =
              IF path # <<>> /\ Head(path) \in {"/", Scheme} THEN Components(path)
              ELSE IF path = <<".">> THEN Components(Script)
              ELSE Components(Script) \o Components(path)
<1> DEFINE Joined == WithSlash(Script, TRUE) \o path
           start == IF path # <<>> /\ Head(path) \in {"/", Scheme} THEN path
                    ELSE IF path = <<".">> THEN Script ELSE Joined
<1>1. Script \in Seq(Atoms) /\ Script # <<>> /\ Head(Script) = "/"
  BY ConstantsAssumption
<1>2. isPhkUri(path) <=> path # <<>> /\ Head(path) = Scheme
  BY DEF isPhkUri
<1>3. abs = WithSlash(start, separ)
  BY <1>2 DEF ut_mkAbsolutePath
<1>4. /\ start \in Seq(Atoms) /\ start # <<>>
      /\ Head(start) = IF isPhkUri(path) THEN Scheme ELSE "/"
      /\ Components(start) =
           IF path # <<>> /\ Head(path) \in {"/", Scheme} THEN Components(path)
           ELSE IF path = <<".">> THEN Components(Script)
           ELSE Components(Script) \o Components(path)
  <2>1. CASE path # <<>> /\ Head(path) \in {"/", Scheme}
    BY <1>2, <2>1 DEF Scheme
  <2>2. CASE ~(path # <<>> /\ Head(path) \in {"/", Scheme}) /\ path = <<".">>
    BY <1>1, <1>2, <2>2
  <2>3. CASE ~(path # <<>> /\ Head(path) \in {"/", Scheme}) /\ path # <<".">>
    <3>1. PICK c : c = WithSlash(Script, TRUE)
      OBVIOUS
    <3>2. /\ c \in Seq(Atoms) /\ Head(c) = "/" /\ Components(c) = Components(Script)
          /\ EndsWithSlash(c)
      BY <1>1, <3>1, WithSlashIs
    <3>3. start = c \o path
      BY <2>3, <3>1
    <3>4. /\ start \in Seq(Atoms) /\ start # <<>> /\ Head(start) = Head(c)
          /\ Components(start) = Components(c) \o Components(path)
      <4> HIDE DEF start
      <4> QED BY <3>2, <3>3, JoinedPath
    <3>5. ~isPhkUri(path)
      BY <1>2, <2>3
    <3> HIDE DEF start
    <3> QED BY <2>3, <3>2, <3>4, <3>5
  <2> QED BY <2>1, <2>2, <2>3
<1> HIDE DEF start
<1>5. /\ abs \in Seq(Atoms) /\ abs # <<>> /\ Head(abs) = Head(start)
      /\ Components(abs) = Components(start)
      /\ separ => EndsWithSlash(abs)
      /\ WithSlash(abs, separ) = abs
  BY <1>3, <1>4, WithSlashIs
<1>6. ut_mkAbsolutePath(abs, Script, separ) = WithSlash(abs, separ)
  BY <1>4, <1>5 DEF ut_mkAbsolutePath, isPhkUri
<1> QED BY <1>4, <1>5, <1>6

\* ut_mkAbsolutePath() gives an absolute path, of the components of its two arguments, for
\* all paths and URIs, and changes nothing when it is given what it has returned.
\* (Property AbsolutePaths.)
THEOREM AbsolutePathsCorrect == Spec => []AbsolutePaths
<1>1. TypeOK => AbsolutePaths
  <2> SUFFICES ASSUME TypeOK, NEW path \in {tpath, LTrim(tpath, "/")}, NEW separ \in BOOLEAN
      PROVE  LET abs == ut_mkAbsolutePath(path, Script, separ) IN
             /\ Head(abs) = IF isPhkUri(path) THEN Scheme ELSE "/"
             /\ separ => EndsWithSlash(abs)
             /\ ut_mkAbsolutePath(abs, Script, separ) = abs
             /\ Components(abs) =
                  IF path # <<>> /\ Head(path) \in {"/", Scheme} THEN Components(path)
                  ELSE IF path = <<".">> THEN Components(Script)
                  ELSE Components(Script) \o Components(path)
    BY DEF AbsolutePaths
  <2>1. path \in Seq(Atoms)
    BY LTrimIs DEF TypeOK
  <2> QED BY <2>1, AbsolutePathIs
<1> QED BY <1>1, TypeCorrect, PTL

-----------------------------------------------------------------------------
(*****************************************************************************)
(* The names of files, and the paths by which they are asked for.            *)
(*****************************************************************************)
\* A path in a package: the names of a file and of the directories that it is in.
CanonicalName(f) == f # <<>> /\ f[1] # "/" /\ f[Len(f)] # "/" /\ Canonical(f)

CanonicalNames == \A p \in Packages : \A f \in p.files : CanonicalName(f)

LEMMA SlashName ==
  ASSUME NEW A, "/" \in A, NEW f \in Seq(A), f # <<>>, f[1] # "/", NEW s, s = <<"/">> \o f
  PROVE  /\ s \in Seq(A) /\ s # <<>> /\ s[1] = "/"
         /\ Len(f) \in Nat \ {0} /\ Len(s) = 1 + Len(f)
         /\ \A i \in 1..Len(f) : s[1 + i] = f[i]
         /\ Tail(s) = f /\ LTrim(s, "/") = f /\ LTrim(f, "/") = f
         /\ Canonical(f) => Canonical(s) /\ (f[Len(f)] # "/" => Stem(s))
<1>1. PICK h \in Seq(A) : h = <<"/">>
  BY OneElement
<1>2. Len(h) = 1 /\ h[1] = "/"
  BY <1>1
<1>3. /\ s \in Seq(A) /\ Len(f) \in Nat /\ Len(s) = Len(h) + Len(f)
      /\ \A i \in 1..Len(h) : s[i] = h[i]
      /\ \A i \in 1..Len(f) : s[Len(h) + i] = f[i]
  BY <1>1, Parts
<1>4. Len(f) \in Nat \ {0}
  BY EmptySeq
<1>5. Len(s) = 1 + Len(f) /\ s[1] = "/" /\ \A i \in 1..Len(f) : s[1 + i] = f[i]
  BY <1>2, <1>3
<1>6. s # <<>>
  BY <1>4, <1>5
<1>7. Tail(s) = f
  <2>1. Tail(<<"/">> \o f) = f
    BY TailOfConcat
  <2> QED BY <2>1
<1>8. LTrim(f, "/") = f
  BY LTrimSame
<1>9. LTrim(s, "/") = f
  <2>1. PICK z \in Seq(A) : z = s
    BY <1>3
  <2>2. z[1] = "/" /\ Len(z) = 1 + Len(f) /\ z[2] = f[1]
    <3>1. 1 \in 1..Len(f)
      BY <1>4
    <3> QED BY <1>5, <2>1, <3>1
  <2>3. PICK t \in Seq(A) :
          /\ t = LTrim(z, "/") /\ Len(t) = Len(f)
          /\ \A i \in 1..Len(f) : t[i] = z[1 + i]
    <3>1. PICK n \in Nat \ {0} : n = Len(f)
      BY <1>4
    <3>2. Len(z) = 1 + n /\ z[1] = "/" /\ z[2] # "/"
      BY <2>2, <3>1
    <3> QED BY SMTT(30), <3>1, <3>2, LTrimOne
  <2>4. t = f
    <3>1. Len(t) = Len(f) /\ \A i \in 1..Len(t) : t[i] = f[i]
      BY <1>5, <2>1, <2>3
    <3> QED BY <3>1, SeqEqual
  <2> QED BY <2>1, <2>3, <2>4
<1>10. ASSUME Canonical(f) PROVE Canonical(s)
  <2> SUFFICES ASSUME NEW i \in 2..Len(s), s[i] = "/" PROVE s[i - 1] # "/"
    BY DEF Canonical
  <2>1. PICK j \in 1..Len(f) : i = 1 + j
    <3>1. i - 1 \in 1..Len(f) /\ i = 1 + (i - 1)
      BY <1>4, <1>5
    <3> QED BY <3>1
  <2>2. f[j] = "/" /\ j # 1
    BY <1>5, <2>1
  <2>3. j \in 2..Len(f) /\ j - 1 \in 1..Len(f) /\ i - 1 = 1 + (j - 1)
    BY <1>4, <2>1, <2>2
  <2>4. f[j - 1] # "/" /\ s[i - 1] = f[j - 1]
    BY <1>5, <1>10, <2>2, <2>3 DEF Canonical
  <2> QED BY <2>4
<1>11. f[Len(f)] # "/" => s[Len(s)] # "/"
  BY <1>4, <1>5
<1>12. Canonical(f) => Canonical(s) /\ (f[Len(f)] # "/" => Stem(s))
  BY <1>5, <1>10, <1>11 DEF Stem
<1> QED BY <1>3, <1>4, <1>5, <1>6, <1>7, <1>8, <1>9, <1>12

\* The suffix of a name does not hang on the slash before it.
LEMMA SlashSuffix ==
  ASSUME NEW A, "/" \in A, NEW f \in Seq(A), f # <<>>, f[1] # "/", NEW s, s = <<"/">> \o f
  PROVE  ut_fileSuffix(s) = ut_fileSuffix(f)
<1>1. /\ s \in Seq(A) /\ s[1] = "/"
      /\ Len(f) \in Nat \ {0} /\ Len(s) = 1 + Len(f)
      /\ \A i \in 1..Len(f) : s[1 + i] = f[i]
  BY SlashName
<1>2. PICK ds, df, ss, sf : /\ ds = Last0(Places(s, ".")) /\ df = Last0(Places(f, "."))
                            /\ ss = Last0(Places(s, "/")) /\ sf = Last0(Places(f, "/"))
  OBVIOUS
<1>3. \A i \in 1..Len(s) : i = 1 \/ i - 1 \in 1..Len(f)
  BY <1>1
<1>4. /\ df \in 0..Len(f) /\ (df # 0 => f[df] = ".")
      /\ \A i \in 1..Len(f) : f[i] = "." => i <= df
  <2>1. PICK P : P = Places(f, ".")
    OBVIOUS
  <2>2. P \subseteq 1..Len(f) /\ \A i \in 1..Len(f) : i \in P <=> f[i] = "."
    BY <2>1 DEF Places
  <2>3. df \in 0..Len(f) /\ (P # {} => df \in P) /\ \A i \in P : i <= df
    BY <1>1, <1>2, <2>1, <2>2, Last0Is
  <2>4. P = {} => df = 0
    BY <1>2, <2>1, Last0None
  <2> QED BY <2>2, <2>3, <2>4
<1>5. /\ sf \in 0..Len(f) /\ (sf # 0 => f[sf] = "/")
      /\ \A i \in 1..Len(f) : f[i] = "/" => i <= sf
  <2>1. PICK P : P = Places(f, "/")
    OBVIOUS
  <2>2. P \subseteq 1..Len(f) /\ \A i \in 1..Len(f) : i \in P <=> f[i] = "/"
    BY <2>1 DEF Places
  <2>3. sf \in 0..Len(f) /\ (P # {} => sf \in P) /\ \A i \in P : i <= sf
    BY <1>1, <1>2, <2>1, <2>2, Last0Is
  <2>4. P = {} => sf = 0
    BY <1>2, <2>1, Last0None
  <2> QED BY <2>2, <2>3, <2>4
<1>6. /\ ds \in 0..Len(s) /\ (ds # 0 => s[ds] = ".")
      /\ \A i \in 1..Len(s) : s[i] = "." => i <= ds
  <2>1. PICK P : P = Places(s, ".")
    OBVIOUS
  <2>2. P \subseteq 1..Len(s) /\ \A i \in 1..Len(s) : i \in P <=> s[i] = "."
    BY <2>1 DEF Places
  <2>3. ds \in 0..Len(s) /\ (P # {} => ds \in P) /\ \A i \in P : i <= ds
    BY <1>1, <1>2, <2>1, <2>2, Last0Is
  <2>4. P = {} => ds = 0
    BY <1>2, <2>1, Last0None
  <2> QED BY <2>2, <2>3, <2>4
<1>7. /\ ss \in 0..Len(s) /\ (ss # 0 => s[ss] = "/")
      /\ \A i \in 1..Len(s) : s[i] = "/" => i <= ss
  <2>1. PICK P : P = Places(s, "/")
    OBVIOUS
  <2>2. P \subseteq 1..Len(s) /\ \A i \in 1..Len(s) : i \in P <=> s[i] = "/"
    BY <2>1 DEF Places
  <2>3. ss \in 0..Len(s) /\ (P # {} => ss \in P) /\ \A i \in P : i <= ss
    BY <1>1, <1>2, <2>1, <2>2, Last0Is
  <2>4. P = {} => ss = 0
    BY <1>2, <2>1, Last0None
  <2> QED BY <2>2, <2>3, <2>4
<1>8. ss = sf + 1
  <2>1. 1 \in 1..Len(s) /\ 1 <= ss
    BY <1>1, <1>7
  <2>2. sf + 1 <= ss
    <3>1. CASE sf = 0
      BY <2>1, <3>1
    <3>2. CASE sf # 0
      <4>1. sf \in 1..Len(f) /\ 1 + sf \in 1..Len(s) /\ s[1 + sf] = "/"
        BY <1>1, <1>5, <3>2
      <4> QED BY <1>5, <1>7, <4>1
    <3> QED BY <3>1, <3>2
  <2>3. ss <= sf + 1
    <3>1. CASE ss = 1
      BY <1>5, <3>1
    <3>2. CASE ss # 1
      <4>1. ss - 1 \in 1..Len(f) /\ 1 + (ss - 1) = ss
        BY <1>1, <1>7, <2>1, <3>2
      <4>2. f[ss - 1] = "/"
        BY <1>1, <1>7, <2>1, <4>1
      <4> QED BY <1>5, <1>7, <4>1, <4>2
    <3> QED BY <3>1, <3>2
  <2> QED BY <1>5, <1>7, <2>2, <2>3
<1>9. ds = IF df = 0 THEN 0 ELSE df + 1
  <2>1. CASE df = 0
    <3>1. ds = 0
      <4> SUFFICES ASSUME ds # 0 PROVE FALSE
        OBVIOUS
      <4>1. s[ds] = "." /\ ds # 1
        BY <1>1, <1>6
      <4>2. ds - 1 \in 1..Len(f) /\ 1 + (ds - 1) = ds
        BY <1>1, <1>6, <4>1
      <4>3. f[ds - 1] = "."
        BY <1>1, <4>1, <4>2
      <4> QED BY <1>4, <2>1, <4>2, <4>3
    <3> QED BY <2>1, <3>1
  <2>2. CASE df # 0
    <3>1. df \in 1..Len(f) /\ 1 + df \in 1..Len(s) /\ s[1 + df] = "."
      BY <1>1, <1>4, <2>2
    <3>2. df + 1 <= ds
      BY <1>4, <1>6, <3>1
    <3>3. s[ds] = "." /\ ds # 1
      BY <1>1, <1>4, <1>6, <3>1, <3>2
    <3>4. ds - 1 \in 1..Len(f) /\ 1 + (ds - 1) = ds
      <4>1. df \in Nat /\ ds \in Nat /\ ds <= 1 + Len(f) /\ df + 1 <= ds
        BY <1>1, <1>4, <1>6, <3>2
      <4>2. PICK n \in Nat : n = Len(f)
        BY <1>1
      <4> QED BY <3>3, <4>1, <4>2
    <3>5. f[ds - 1] = "."
      BY <1>1, <3>3, <3>4
    <3>6. ds <= df + 1
      BY <1>4, <1>6, <3>4, <3>5
    <3> QED BY <1>4, <1>6, <2>2, <3>2, <3>6
  <2> QED BY <2>1, <2>2
<1>10. ut_fileSuffix(s) = IF Len(s) < 2 \/ ds <= ss THEN <<>> ELSE SubSeq(s, ds + 1, Len(s))
  BY <1>2 DEF ut_fileSuffix
<1>11. ut_fileSuffix(f) = IF Len(f) < 2 \/ df <= sf THEN <<>> ELSE SubSeq(f, df + 1, Len(f))
  BY <1>2 DEF ut_fileSuffix
<1>12. ~(Len(s) < 2) /\ (ds <= ss <=> df <= sf)
  BY <1>1, <1>4, <1>5, <1>8, <1>9
<1>13. CASE df <= sf
  BY <1>10, <1>11, <1>12, <1>13
<1>14. CASE ~(df <= sf)
  <2>1. df # 0 /\ ds = df + 1 /\ df \in 1..Len(f)
    BY <1>4, <1>5, <1>9, <1>14
  <2>2. PICK i \in Nat \ {0}, j \in Nat \ {0} : i = ds + 1 /\ j = df + 1 /\ i = j + 1
    BY <1>4, <2>1
  <2>3. Len(s) \in 0..Len(s) /\ Len(f) \in 0..Len(f)
    BY <1>1
  <2>4. PICK x, y : x = SubSeq(s, i, Len(s)) /\ y = SubSeq(f, j, Len(f))
    OBVIOUS
  <2>5. /\ x \in Seq(A) /\ Len(x) = IF i <= Len(s) THEN Len(s) - i + 1 ELSE 0
        /\ \A k \in 1..(Len(s) - i + 1) : x[k] = s[i + k - 1]
    BY <1>1, <2>3, <2>4, SliceType
  <2>6. /\ y \in Seq(A) /\ Len(y) = IF j <= Len(f) THEN Len(f) - j + 1 ELSE 0
        /\ \A k \in 1..(Len(f) - j + 1) : y[k] = f[j + k - 1]
    BY <2>3, <2>4, SliceType
  <2>7. PICK n \in Nat : n = Len(f)
    BY <1>1
  <2>8. Len(x) = Len(y)
    BY <1>1, <2>2, <2>5, <2>6, <2>7
  <2>9. ASSUME NEW k \in 1..Len(x) PROVE x[k] = y[k]
    <3>1. k \in 1..(n - j + 1) /\ Len(s) - i + 1 = n - j + 1
      <4>1. Len(s) = n + 1 /\ i = j + 1 /\ j \in Nat /\ k \in 1..Len(y)
        BY <1>1, <2>2, <2>7, <2>8
      <4>2. Len(s) - i + 1 = n - j + 1
        BY <4>1
      <4>3. Len(y) = IF j <= n THEN n - j + 1 ELSE 0
        BY <2>6, <2>7
      <4> QED BY <4>1, <4>2, <4>3
    <3>2. x[k] = s[i + k - 1] /\ y[k] = f[j + k - 1]
      BY <2>5, <2>6, <2>7, <3>1
    <3>3. j + k - 1 \in 1..n /\ i + k - 1 = 1 + (j + k - 1)
      <4>1. i = j + 1 /\ j # 0 /\ k \in 1..(n - j + 1)
        BY <2>2, <3>1
      <4> QED BY <4>1
    <3> QED BY <1>1, <2>7, <3>2, <3>3
  <2>10. x = y
    BY <2>5, <2>6, <2>8, <2>9, SeqEqual
  <2>11. CASE Len(f) < 2
    <3>1. Len(f) = 1 /\ df = 1 /\ ds = 2 /\ Len(s) = 2
      BY <1>1, <2>1, <2>11
    <3>2. SubSeq(s, 3, 2) = <<>>
      BY SubSeqEmpty
    <3> QED BY <1>10, <1>11, <1>12, <1>14, <3>1, <3>2
  <2>12. CASE ~(Len(f) < 2)
    BY <1>10, <1>11, <1>12, <1>14, <2>2, <2>4, <2>10, <2>12
  <2> QED BY <2>11, <2>12
<1> QED BY <1>13, <1>14

\* php_url_decode(), character by character.
Decoded(x) == IF x = "+" THEN " " ELSE IF x = "%2F" THEN "/" ELSE x

LEMMA DecodeIs ==
  ASSUME NEW p \in Seq(Atoms), NEW d, d = php_url_decode(p)
  PROVE  /\ d \in Seq(Atoms) /\ Len(d) = Len(p)
         /\ \A i \in 1..Len(p) : d[i] = Decoded(p[i])
<1>1. " " \in Atoms /\ "/" \in Atoms
  BY ConstantsAssumption
<1>0. PICK space \in Atoms, slash \in Atoms : space = " " /\ slash = "/"
  BY <1>1
<1>2. PICK plus, code : plus = "+" /\ code = "%2F"
  OBVIOUS
<1>3. PICK r : r = ReplaceAll(p, plus, space)
  OBVIOUS
<1>4. /\ r \in Seq(Atoms) /\ Len(r) = Len(p)
      /\ \A i \in 1..Len(p) : r[i] = IF p[i] = plus THEN space ELSE p[i]
  BY <1>3, ReplaceAllIs
<1>5. PICK e : e = ReplaceAll(r, code, slash)
  OBVIOUS
<1>6. /\ e \in Seq(Atoms) /\ Len(e) = Len(r)
      /\ \A i \in 1..Len(r) : e[i] = IF r[i] = code THEN slash ELSE r[i]
  <2>1. r \in Seq(Atoms)
    BY <1>4
  <2> QED BY <1>5, <2>1, ReplaceAllIs
<1>7. d = e
  BY <1>0, <1>2, <1>3, <1>5 DEF php_url_decode
<1>8. \A i \in 1..Len(p) : e[i] = Decoded(p[i])
  BY <1>0, <1>2, <1>4, <1>6 DEF Decoded
<1> QED BY <1>4, <1>6, <1>7, <1>8

\* What PHK_setSubpath() finds is the path that is asked for, or that with a slash before it.
LEMMA SubpathIs ==
  ASSUME NEW r, r.path \in Seq(Atoms), r.via = "none" => r.path = <<>>,
         NEW d, d = php_url_decode(r.path), NEW s, s = setSubpath(r)
  PROVE  /\ d \in Seq(Atoms) /\ s \in Seq(Atoms)
         /\ \/ s = d /\ (d # <<>> => d[1] = "/")
            \/ s = <<"/">> \o d /\ (d # <<>> => d[1] # "/" \/ Head(r.path) = "%2F")
<1>1. PICK p \in Seq(Atoms) : p = r.path
  OBVIOUS
<1>2. d \in Seq(Atoms) /\ s \in Seq(Atoms)
  BY DecodeType, SubpathType
<1>3. Len(d) = Len(p) /\ \A i \in 1..Len(p) : d[i] = Decoded(p[i])
  BY <1>1, DecodeIs
<1>4. CASE r.via = "none"
  <2>1. s = <<>>
    BY <1>4 DEF setSubpath
  <2>2. d = <<>>
    BY <1>1, <1>2, <1>3, <1>4, EmptySeq
  <2> QED BY <1>2, <2>1, <2>2
<1>5. CASE r.via # "none" /\ p # <<>> /\ Head(p) = "/"
  <2>1. s = d
    BY <1>1, <1>5 DEF setSubpath
  <2>2. d # <<>> => d[1] = "/"
    <3>1. p[1] = "/" /\ 1 \in 1..Len(p)
      BY <1>5, EmptySeq
    <3> QED BY <1>3, <3>1 DEF Decoded
  <2> QED BY <1>2, <2>1, <2>2
<1>6. CASE r.via # "none" /\ ~(p # <<>> /\ Head(p) = "/")
  <2>1. PICK q : q = <<"/">> \o p
    OBVIOUS
  <2>2. s = php_url_decode(q)
    BY <1>1, <1>6, <2>1 DEF setSubpath
  <2>3. PICK h \in Seq(Atoms) : h = <<"/">> /\ Len(h) = 1 /\ h[1] = "/"
    BY OneElement, AtomsHave
  <2>4. /\ q \in Seq(Atoms) /\ Len(p) \in Nat /\ Len(q) = 1 + Len(p)
        /\ \A i \in 1..Len(h) : q[i] = h[i]
        /\ \A i \in 1..Len(p) : q[1 + i] = p[i]
    BY <1>1, <2>1, <2>3, Parts
  <2>5. q[1] = "/"
    BY <2>3, <2>4
  <2>6. Len(s) = Len(q) /\ \A i \in 1..Len(q) : s[i] = Decoded(q[i])
    BY <2>2, <2>4, DecodeIs
  <2>7. PICK e : e = <<"/">> \o d
    OBVIOUS
  <2>8. /\ e \in Seq(Atoms) /\ Len(e) = 1 + Len(d)
        /\ \A i \in 1..Len(h) : e[i] = h[i]
        /\ \A i \in 1..Len(d) : e[1 + i] = d[i]
    BY <1>2, <2>3, <2>7, Parts
  <2>9. ASSUME NEW i \in 1..Len(s) PROVE s[i] = e[i]
    <3>1. CASE i = 1
      <4>1. s[1] = Decoded("/")
        BY <2>4, <2>5, <2>6, <3>1
      <4>2. e[1] = "/"
        BY <2>3, <2>8
      <4> QED BY <3>1, <4>1, <4>2 DEF Decoded
    <3>2. CASE i # 1
      <4>1. PICK j \in 1..Len(p) : i = 1 + j
        <5>1. i - 1 \in 1..Len(p) /\ i = 1 + (i - 1)
          BY <2>4, <2>6, <3>2
        <5> QED BY <5>1
      <4>2. s[i] = Decoded(p[j])
        BY <2>4, <2>6, <4>1
      <4>3. e[i] = Decoded(p[j])
        BY <1>3, <2>8, <4>1
      <4> QED BY <4>2, <4>3
    <3> QED BY <3>1, <3>2
  <2>10. Len(s) = Len(e)
    BY <1>3, <2>4, <2>6, <2>8
  <2>11. s = e
    BY <1>2, <2>8, <2>9, <2>10, SeqEqual
  <2>12. ASSUME d # <<>> PROVE d[1] # "/" \/ Head(p) = "%2F"
    <3>1. p # <<>> /\ 1 \in 1..Len(p)
      BY <1>1, <1>2, <1>3, <2>12, EmptySeq
    <3>2. d[1] = Decoded(p[1]) /\ p[1] # "/" /\ Head(p) = p[1]
      BY <1>3, <1>6, <3>1
    <3> QED BY <3>2 DEF Decoded
  <2> QED BY <1>1, <1>2, <2>7, <2>11, <2>12
<1> QED BY <1>1, <1>4, <1>5, <1>6

LEMMA SubpathComponents ==
  ASSUME NEW r, r.path \in Seq(Atoms), r.via = "none" => r.path = <<>>
  PROVE  Components(setSubpath(r)) = Components(php_url_decode(r.path))
<1>1. PICK d, s : d = php_url_decode(r.path) /\ s = setSubpath(r)
  OBVIOUS
<1>2. d \in Seq(Atoms) /\ (s = d \/ s = <<"/">> \o d)
  BY <1>1, SubpathIs
<1>3. Components(<<"/">> \o d) = Components(d)
  BY <1>2, AtomsHave, ComponentsAfterSlash
<1> QED BY <1>1, <1>2, <1>3

\* What prolog() makes of a path has the same components, and stays.
LEMMA RtrimIs ==
  ASSUME NEW s \in Seq(Atoms), NEW t, t = rtrim(s)
  PROVE  /\ t \in Seq(Atoms)
         /\ Components(t) = Components(s)
         /\ t = <<"/">> \/ t = <<>> \/ t[Len(t)] # "/"
         /\ Len(t) \in 0..Len(s) /\ \A i \in 1..Len(t) : t[i] = s[i]
<1>1. CASE s = <<"/">>
  BY <1>1 DEF rtrim
<1>2. CASE s # <<"/">>
  <2>1. t = RTrim(s, "/")
    BY <1>2 DEF rtrim
  <2>2. t \in Seq(Atoms) /\ Components(t) = Components(s)
    BY <2>1, RTrimIs, ComponentsRTrim
  <2>3. PICK l \in 0..Len(s) : TrimsTo(s, "/", l, t)
    BY <2>1, RTrimIs
  <2>4. Len(t) = l /\ (l # 0 => s[l] # "/") /\ \A i \in 1..l : t[i] = s[i]
    BY <2>3 DEF TrimsTo
  <2>5. t = <<>> \/ t[Len(t)] # "/"
    <3>1. CASE l = 0
      BY <2>2, <2>4, <3>1, EmptySeq
    <3>2. CASE l # 0
      BY <2>3, <2>4, <3>2
    <3> QED BY <3>1, <3>2
  <2> QED BY <2>2, <2>3, <2>4, <2>5
<1> QED BY <1>1, <1>2

LEMMA CanonicalPrefix ==
  ASSUME NEW s \in Seq(Atoms), NEW t \in Seq(Atoms), Canonical(s), Len(t) \in 0..Len(s),
         \A i \in 1..Len(t) : t[i] = s[i]
  PROVE  Canonical(t)
<1> SUFFICES ASSUME NEW i \in 2..Len(t), t[i] = "/" PROVE t[i - 1] # "/"
  BY DEF Canonical
<1>1. i \in 2..Len(s) /\ i \in 1..Len(t) /\ i - 1 \in 1..Len(t)
  OBVIOUS
<1> QED BY <1>1 DEF Canonical

\* A path that has the components of a name is that name, perhaps with a slash before it.
LEMMA NameOf ==
  ASSUME NEW t \in Seq(Atoms), Canonical(t), t = <<"/">> \/ t = <<>> \/ t[Len(t)] # "/",
         NEW f \in Seq(Atoms), CanonicalName(f), Components(t) = Components(f)
  PROVE  t = f \/ t = <<"/">> \o f
<1>1. PICK s : s = <<"/">> \o f
  OBVIOUS
<1>2. s \in Seq(Atoms) /\ s # <<>> /\ Stem(s) /\ Tail(s) = f
  BY <1>1, AtomsHave, SlashName DEF CanonicalName
<1>3. Components(s) = Components(t)
  BY <1>1, AtomsHave, ComponentsAfterSlash
<1>4. Components(s) # <<>>
  <2>1. PICK u \in Seq(Atoms), w \in Seq(Atoms) : Components(s) = Append(Components(u), w)
    BY <1>2, StemSplit
  <2>2. PICK B : B = Seq(Atoms)
    OBVIOUS
  <2>3. Components(u) \in Seq(B) /\ w \in B
    BY <2>2, ComponentsType
  <2> QED BY <2>1, <2>3, AppendProperties
<1>5. t # <<>> /\ t # <<"/">> /\ t[Len(t)] # "/"
  BY <1>3, <1>4, ComponentsOfEmpty, RootComponents
<1>6. CASE t[1] = "/"
  <2>1. Stem(t)
    BY <1>5, <1>6 DEF Stem
  <2> QED BY <1>1, <1>2, <1>3, <2>1, SameComponents
<1>7. CASE t[1] # "/"
  <2>1. PICK x : x = <<"/">> \o t
    OBVIOUS
  <2>2. x \in Seq(Atoms) /\ Stem(x) /\ Tail(x) = t
    BY <1>5, <1>7, <2>1, AtomsHave, SlashName
  <2>3. Components(x) = Components(t)
    BY <2>1, AtomsHave, ComponentsAfterSlash
  <2>4. x = s
    BY <1>2, <1>3, <2>2, <2>3, SameComponents
  <2> QED BY <1>2, <2>2, <2>4
<1> QED BY <1>6, <1>7

\* The stream wrapper finds the file.
LEMMA FileFound ==
  ASSUME PlainNames, CanonicalNames, NEW p \in Packages, NEW f \in p.files,
         NEW t, t = f \/ t = <<"/">> \o f
  PROVE  /\ uri(Mnt, t) = uri(Mnt, f)
         /\ parseURI(uri(Mnt, f)) = Answer(<<>>, Mnt, f)
         /\ ut_fileSuffix(t) = ut_fileSuffix(f)
         /\ StatResults(p, uri(Mnt, f)) = {"file"}
<1>1. f \in Seq(Atoms) /\ f # <<>> /\ f[1] # "/" /\ f[Len(f)] # "/"
  BY PackageFields DEF CanonicalNames, CanonicalName
<1>2. LTrim(f, "/") = f /\ LTrim(<<"/">> \o f, "/") = f
  BY <1>1, AtomsHave, SlashName
<1>3. uri(Mnt, t) = uri(Mnt, f)
  BY <1>2 DEF uri
<1>4. ut_fileSuffix(t) = ut_fileSuffix(f)
  BY <1>1, AtomsHave, SlashSuffix
<1>5. f \in Seq(Words) /\ Mnt \in Seq(Words) /\ MntString(Mnt) /\ PlainString(f)
  BY <1>1, WordsHave, ConstantsAssumption DEF PlainNames, PlainString
<1>6. ut_trim_char(f, "/") = f
  <2>1. PICK l \in 0..Len(f) : TrimsTo(f, "/", l, RTrim(f, "/"))
    BY <1>1, RTrimIs
  <2>2. PICK g : g = RTrim(f, "/")
    OBVIOUS
  <2>3. Len(f) \in Nat \ {0}
    BY <1>1, EmptySeq
  <2>4. l = Len(f)
    <3>1. \A i \in 1..Len(f) : l < i => f[i] = "/"
      BY <2>1 DEF TrimsTo
    <3>2. Len(f) \in 1..Len(f)
      BY <2>3
    <3> QED BY <1>1, <2>1, <2>3, <3>1, <3>2
  <2>5. g \in Seq(Atoms) /\ Len(g) = Len(f) /\ \A i \in 1..Len(g) : g[i] = f[i]
    BY <1>1, <2>1, <2>2, <2>4, RTrimIs DEF TrimsTo
  <2>6. g = f
    BY <1>1, <2>5, SeqEqual
  <2> QED BY <1>2, <2>2, <2>6 DEF ut_trim_char
<1>7. parseURI(uri(Mnt, f)) = Answer(<<>>, Mnt, f)
  BY <1>5, <1>6, PathUri DEF RoundTrips
<1>8. StatResults(p, uri(Mnt, f)) = {"file"}
  BY <1>7 DEF StatResults, Answer
<1> QED BY <1>3, <1>4, <1>7, <1>8

-----------------------------------------------------------------------------
(*****************************************************************************)
(* What a package answers.                                                   *)
(*****************************************************************************)
\* What prolog() has made of the request, and why Autoindex looks for an index.
TunnelInv ==
  /\ request.via = "none" => request.path = <<>>
  /\ pc \in {"idle", "prolog"} => ~webinfo
  /\ pc \in {"tunnel", "autoindex"} =>
       IF webinfo THEN \E path \in InfoPaths : tpath = rtrim(path)
       ELSE request.via # "error" /\ tpath = rtrim(setSubpath(request))
  /\ pc = "autoindex" => "dir" \in StatResults(phk, uri(Mnt, tpath))

LEMMA TunnelInit == Init => TunnelInv
BY DEF Init, TunnelInv

LEMMA TunnelNext == TypeOK /\ TunnelInv /\ [Next]_vars => TunnelInv'
<1> SUFFICES ASSUME TypeOK, TunnelInv, [Next]_vars PROVE TunnelInv'
  OBVIOUS
<1>1. CASE UNCHANGED vars
  BY <1>1 DEF vars, TunnelInv
<1>2. ASSUME NEW r \in Requests, Browse(r) PROVE TunnelInv'
  <2>1. r.via = "none" => r.path = <<>>
    BY ConstantsAssumption
  <2> QED BY <1>2, <2>1 DEF Browse, TunnelInv
<1>3. ASSUME NEW path \in InfoPaths, RunWebInfo(path) PROVE TunnelInv'
  BY <1>3 DEF RunWebInfo, TunnelInv
<1>4. CASE Prolog
  <2>1. CASE request.via = "error"
    BY <1>4, <2>1 DEF Prolog, Finish, TunnelInv
  <2>2. CASE request.via # "error"
    <3>1. /\ pc = "prolog" /\ pc' = "tunnel" /\ UNCHANGED <<request, webinfo>>
          /\ tpath' = rtrim(setSubpath(request))
      BY <1>4, <2>2 DEF Prolog
    <3> QED BY <2>2, <3>1 DEF TunnelInv
  <2> QED BY <2>1, <2>2
<1>5. CASE NoPath
  BY <1>5 DEF NoPath, Finish, TunnelInv
<1>6. CASE Refuse
  BY <1>6 DEF Refuse, Finish, TunnelInv
<1>7. CASE Tunnel
  <2>1. UNCHANGED <<phk, request, webinfo, tpath>> /\ pc = "tunnel"
    BY <1>7 DEF Tunnel
  <2>2. pc' = "answered" \/ (pc' = "autoindex" /\ "dir" \in StatResults(phk, uri(Mnt, tpath)))
    <3>1. PICK found \in StatResults(phk, uri(Mnt, tpath)) :
            CASE found = "none" -> Finish(ut_http404Fail)
              [] found = "file" -> Serve(tpath, uri(Mnt, tpath))
              [] found = "dir" /\ last_slash -> pc' = "autoindex" /\ UNCHANGED answer
              [] found = "dir" /\ ~last_slash ->
                   Finish(ut_http301Redirect(Append(uri(Mnt, tpath), "/")))
      BY <1>7 DEF Tunnel
    <3>2. found \in {"none", "file", "dir"}
      BY DEF StatResults
    <3>3. CASE found \in {"none", "file"}
      BY <3>1, <3>3 DEF Finish, Serve
    <3>4. CASE found = "dir"
      BY <3>1, <3>4 DEF Finish
    <3> QED BY <3>2, <3>3, <3>4
  <2> QED BY <2>1, <2>2 DEF TunnelInv
<1>8. CASE Autoindex
  BY <1>8 DEF Autoindex, Serve, Finish, TunnelInv
<1>9. CASE TimeLimit
  BY <1>9 DEF TimeLimit, Finish, TunnelInv
<1>10. CASE EndRequest
  BY <1>10 DEF EndRequest, Forget, TunnelInv
<1>11. CASE Follow
  <2>1. /\ pc' \in {"prolog", "idle"} /\ ~webinfo'
        /\ request'.via = "none" => request'.path = <<>>
    BY <1>11 DEF Follow, Forget
  <2> QED BY <2>1 DEF TunnelInv
<1> QED BY <1>1, <1>2, <1>3, <1>4, <1>5, <1>6, <1>7, <1>8, <1>9, <1>10, <1>11 DEF Next

\* webTunnel() looks at the path that prolog() has found in the request or got from PHP,
\* and for an index only in a directory.  (prolog(), PHK_setSubpath(), PHK_webTunnel().)
THEOREM TunnelCorrect == Spec => []TunnelInv
<1>1. Init => TunnelInv
  BY TunnelInit
<1>2. TypeOK /\ TunnelInv /\ [Next]_vars => TunnelInv'
  BY TunnelNext
<1> QED BY <1>1, <1>2, TypeCorrect, PTL DEF Spec

LEMMA RequestFields ==
  ASSUME TypeOK
  PROVE  request.path \in Seq(Atoms) /\ tpath \in Seq(Atoms) /\ phk \in Packages
BY DEF TypeOK

LEMMA DecodedPlain ==
  ASSUME NEW p \in Seq(Atoms), NEW t \in Seq(Atoms), PlainString(p),
         t = p \/ t = <<"/">> \o p
  PROVE  PlainString(t)
<1>1. PlainString(<<"/">> \o p)
  BY AtomsHave, SlashThen
<1> QED BY <1>1

\* The path that webTunnel() looks at has the components of the path that is asked for.
LEMMA AskedIs ==
  ASSUME TypeOK, TunnelInv, pc \in {"tunnel", "autoindex"}
  PROVE  /\ Asked \in Seq(Atoms)
         /\ Components(tpath) = Components(Asked)
         /\ Plain(Asked) => PlainString(tpath)
         /\ tpath = <<"/">> \/ tpath = <<>> \/ tpath[Len(tpath)] # "/"
<1>1. CASE webinfo
  <2>1. PICK path \in InfoPaths : tpath = rtrim(path)
    BY <1>1 DEF TunnelInv
  <2>2. path \in Seq(Atoms)
    BY ConstantsAssumption
  <2>3. tpath = <<"/">> \/ tpath = <<>> \/ tpath[Len(tpath)] # "/"
    BY <2>1, <2>2, RtrimIs
  <2>4. Asked = tpath
    BY <1>1 DEF Asked
  <2>5. Plain(tpath) => PlainString(tpath)
    BY DEF Plain, PlainString, Contains
  <2> QED BY <2>3, <2>4, <2>5, RequestFields
<1>2. CASE ~webinfo
  <2>1. PICK d, s : d = php_url_decode(request.path) /\ s = setSubpath(request)
    OBVIOUS
  <2>2. request.via = "none" => request.path = <<>>
    BY DEF TunnelInv
  <2>3. d \in Seq(Atoms) /\ s \in Seq(Atoms) /\ (s = d \/ s = <<"/">> \o d)
    BY <2>1, <2>2, RequestFields, SubpathIs
  <2>4. Components(s) = Components(d)
    BY <2>1, <2>2, RequestFields, SubpathComponents
  <2>5. tpath = rtrim(s)
    BY <1>2, <2>1 DEF TunnelInv
  <2>6. /\ Components(tpath) = Components(s)
        /\ tpath = <<"/">> \/ tpath = <<>> \/ tpath[Len(tpath)] # "/"
        /\ Len(tpath) \in 0..Len(s) /\ \A i \in 1..Len(tpath) : tpath[i] = s[i]
    BY <2>3, <2>5, RtrimIs
  <2>7. Asked = d
    BY <1>2, <2>1 DEF Asked
  <2>8. ASSUME Plain(d) PROVE PlainString(tpath)
    <3>1. PlainString(d)
      BY <2>8 DEF Plain, PlainString, Contains
    <3>2. PlainString(s)
      BY <2>3, <3>1, DecodedPlain
    <3>3. \A i \in 1..Len(tpath) : i \in 1..Len(s)
      BY <2>3, <2>6
    <3> QED BY <2>6, <3>2, <3>3 DEF PlainString
  <2> QED BY <2>3, <2>4, <2>6, <2>7, <2>8
<1> QED BY <1>1, <1>2

\* The request is for the file f, in a way that prolog() leaves canonical.
Names(f) ==
  /\ Components(f) = Components(Asked) /\ Canonical(Asked)
  /\ webinfo \/ Head(request.path) # "%2F"

LEMMA NamedPath ==
  ASSUME TypeOK, TunnelInv, pc \in {"tunnel", "autoindex"}, CanonicalNames,
         NEW f \in phk.files, Names(f)
  PROVE  /\ f \in Seq(Atoms) /\ Components(tpath) = Components(f)
         /\ tpath = f \/ tpath = <<"/">> \o f
         /\ tpath # <<>> /\ tpath # <<"/">>
         /\ webinfo \/ Simple(tpath)
<1>1. /\ f \in Seq(Atoms) /\ f # <<>> /\ f[1] # "/" /\ CanonicalName(f)
      /\ tpath \in Seq(Atoms) /\ request.path \in Seq(Atoms)
  BY PackageFields, RequestFields DEF CanonicalNames, CanonicalName
<1>2. /\ Components(tpath) = Components(f) /\ Asked \in Seq(Atoms)
      /\ tpath = <<"/">> \/ tpath = <<>> \/ tpath[Len(tpath)] # "/"
  BY AskedIs DEF Names
<1>3. PICK g : g = <<"/">> \o f
  OBVIOUS
<1>4. g \in Seq(Atoms) /\ g # <<>> /\ g[1] = "/" /\ Len(f) \in Nat \ {0} /\ Len(g) = 1 + Len(f)
  BY <1>1, <1>3, AtomsHave, SlashName
<1>5. ASSUME Canonical(tpath)
      PROVE  (tpath = f \/ tpath = g) /\ tpath # <<>> /\ tpath # <<"/">>
  <2>1. tpath = f \/ tpath = g
    BY <1>1, <1>2, <1>3, <1>5, NameOf
  <2>2. f # <<"/">> /\ g # <<"/">>
    BY <1>1, <1>4
  <2> QED BY <1>1, <1>4, <2>1, <2>2
<1>6. CASE webinfo
  <2>1. Canonical(tpath)
    BY <1>6 DEF Names, Asked
  <2> QED BY <1>1, <1>2, <1>3, <1>5, <1>6, <2>1
<1>7. CASE ~webinfo
  <2>1. PICK d, s : d = php_url_decode(request.path) /\ s = setSubpath(request)
    OBVIOUS
  <2>2. request.via = "none" => request.path = <<>>
    BY DEF TunnelInv
  <2>3. /\ d \in Seq(Atoms) /\ s \in Seq(Atoms)
        /\ \/ s = d /\ (d # <<>> => d[1] = "/")
           \/ s = <<"/">> \o d /\ (d # <<>> => d[1] # "/" \/ Head(request.path) = "%2F")
    BY <1>1, <2>1, <2>2, SubpathIs
  <2>4. Canonical(d) /\ Head(request.path) # "%2F"
    BY <1>7, <2>1 DEF Names, Asked
  <2>5. Canonical(s) /\ (s # <<>> => s[1] = "/")
    <3>1. CASE s = d /\ (d # <<>> => d[1] = "/")
      BY <2>4, <3>1
    <3>2. CASE s = <<"/">> \o d /\ d = <<>>
      <4>1. s = <<"/">>
        BY <3>2
      <4> QED BY <4>1 DEF Canonical
    <3>3. CASE s = <<"/">> \o d /\ d # <<>> /\ d[1] # "/"
      BY <2>3, <2>4, <3>3, AtomsHave, SlashName
    <3> QED BY <2>3, <2>4, <3>1, <3>2, <3>3
  <2>6. tpath = rtrim(s)
    BY <1>7, <2>1 DEF TunnelInv
  <2>7. Len(tpath) \in 0..Len(s) /\ \A i \in 1..Len(tpath) : tpath[i] = s[i]
    BY <2>3, <2>6, RtrimIs
  <2>8. Canonical(tpath)
    BY <1>1, <2>3, <2>5, <2>7, CanonicalPrefix
  <2>9. tpath # <<>> /\ tpath # <<"/">> /\ (tpath = f \/ tpath = g)
    BY <1>5, <2>8
  <2>10. Head(tpath) = "/"
    <3>1. Len(tpath) \in Nat \ {0} /\ tpath[1] = s[1]
      BY <1>1, <2>7, <2>9, EmptySeq
    <3>2. s # <<>>
      BY <2>7, <3>1
    <3> QED BY <1>1, <2>5, <2>9, <3>1, <3>2
  <2>11. rtrim(tpath) = tpath
    <3>1. tpath[Len(tpath)] # "/"
      BY <1>2, <2>9
    <3>2. PICK r : r = RTrim(tpath, "/")
      OBVIOUS
    <3>3. PICK l \in 0..Len(tpath) : TrimsTo(tpath, "/", l, r)
      BY <1>1, <3>2, RTrimIs
    <3>4. l = Len(tpath)
      <4>1. Len(tpath) \in 1..Len(tpath)
        BY <1>1, <2>9, EmptySeq
      <4> QED BY <3>1, <3>3, <4>1 DEF TrimsTo
    <3>5. r \in Seq(Atoms) /\ Len(r) = Len(tpath) /\ \A i \in 1..Len(r) : r[i] = tpath[i]
      BY <1>1, <3>2, <3>3, <3>4, RTrimIs DEF TrimsTo
    <3>6. r = tpath
      BY <1>1, <3>5, SeqEqual
    <3> QED BY <3>2, <3>6 DEF rtrim
  <2> QED BY <1>1, <1>2, <1>3, <2>8, <2>9, <2>10, <2>11 DEF Simple
<1> QED BY <1>6, <1>7

\* It is open, if the option web_access says so.
LEMMA NamedAllowed ==
  ASSUME TypeOK, TunnelInv, pc \in {"tunnel", "autoindex"}, CanonicalNames,
         NEW f \in phk.files, Names(f),
         webinfo \/ \E apath \in web_access(phk) : Simple(apath) /\ Below(f, apath)
  PROVE  Allowed
<1>1. CASE webinfo
  BY <1>1 DEF Allowed
<1>2. CASE ~webinfo
  <2>1. PICK apath \in web_access(phk) : Simple(apath) /\ Below(f, apath)
    BY <1>2
  <2>2. tpath \in Seq(Atoms) /\ apath \in Seq(Atoms)
    BY RequestFields, AccessPaths
  <2>3. Simple(tpath) /\ Components(tpath) = Components(f)
    BY <1>2, NamedPath
  <2>4. Below(tpath, apath)
    BY <2>1, <2>3 DEF Below
  <2>5. web_access_matches(apath, tpath)
    BY <2>1, <2>2, <2>3, <2>4, BelowMatches
  <2> QED BY <2>5 DEF Allowed, webAccessAllowed
<1> QED BY <1>1, <1>2

\* The two parts of AnswersPath, of one answer.
RightAnswer(reply) ==
  LET r == parseURI(reply.target) IN
  /\ ~r.exc /\ r.mnt = Mnt /\ r.command = <<>> /\ r.path \in phk.files
  /\ \/ /\ Components(r.path) = Components(Asked)
        /\ \/ webinfo
           \/ \E apath \in web_access(phk) : Below(r.path, apath)
           \/ ut_strings_are_equal(tpath, phk.web_run_script)
     \/ /\ Components(r.path) = Components(phk.web_run_script)
        /\ reply.how = "require"

Wanted(f) ==
  /\ Names(f)
  /\ webinfo \/ \E apath \in web_access(phk) : Simple(apath) /\ Below(f, apath)
  /\ ~mimeTypeFails(phk, f)

FileAnswer(f, reply) ==
  \/ reply = Reply(200, IF isPHPSourcePath(f) /\ ~webinfo THEN "require" ELSE "readFile",
                   uri(Mnt, f))
  \/ reply.how \in {"timeout", "exception"}

Answers(reply) ==
  Plain(Asked) =>
    /\ reply.code = 200 /\ (tpath # <<>> => Head(tpath) # Scheme) => RightAnswer(reply)
    /\ \A f \in phk.files : Wanted(f) => FileAnswer(f, reply)

\* It says more than AnswersPath: what is sent is open, or ut_strings_are_equal() holds.
AnswersInv == pc = "answered" => Answers(answer)

LEMMA AnswersInvSends == AnswersInv => SendsOpen(ut_strings_are_equal(tpath, phk.web_run_script))
BY DEF AnswersInv, Answers, RightAnswer, SendsOpen

LEMMA AnswersInvPath == AnswersInv => AnswersPath
<1> SUFFICES ASSUME AnswersInv PROVE AnswersPath
  OBVIOUS
<1>1. ASSUME ut_strings_are_equal(tpath, phk.web_run_script) => tpath = phk.web_run_script
      PROVE  OnlyOpen
  BY <1>1, AnswersInvSends DEF SendsOpen, OnlyOpen
<1>2. AnswersOpen(web_access(phk))
  BY DEF AnswersInv, Answers, Wanted, Names, FileAnswer, AnswersOpen
<1> QED BY <1>1, <1>2 DEF AnswersPath

LEMMA AnswersKept ==
  ASSUME UNCHANGED <<phk, request, webinfo, tpath>>, Answers(answer')
  PROVE  AnswersInv'
<1>1. Answers(answer)' <=> Answers(answer')
  <2>1. Asked' = Asked
    BY DEF Asked
  <2>2. \A f : Wanted(f)' <=> Wanted(f)
    BY <2>1 DEF Wanted, Names
  <2> QED BY <2>1, <2>2 DEF Answers, RightAnswer, FileAnswer
<1>2. AnswersInv' <=> (pc' = "answered" => Answers(answer)')
  BY DEF AnswersInv, Answers, RightAnswer, Wanted, Names, FileAnswer
<1> QED BY <1>1, <1>2

\* The main script.
LEMMA MainAnswer ==
  ASSUME PlainNames, CanonicalNames, TypeOK, phk.web_run_script # NULL
  PROVE  gotoMain.code = 200 => RightAnswer(gotoMain)
<1> SUFFICES ASSUME gotoMain.code = 200 PROVE RightAnswer(gotoMain)
  OBVIOUS
<1>1. phk \in Packages
  BY DEF TypeOK
<1>2. PICK s \in Seq(Atoms) : s = phk.web_run_script
  BY <1>1, PackageFields
<1>3. PICK f \in phk.files : f = LTrim(s, "/")
  BY <1>1, <1>2, ConstantsAssumption
<1>4. gotoMain = Reply(200, "require", uri(Mnt, s))
  BY <1>2 DEF gotoMain, ut_http301Redirect, Reply
<1>5. f \in Seq(Atoms) /\ f # <<>> /\ f[1] # "/"
  BY <1>1, PackageFields DEF CanonicalNames, CanonicalName
<1>6. LTrim(f, "/") = f
  BY <1>5, LTrimSame
<1>7. uri(Mnt, s) = uri(Mnt, f)
  BY <1>3, <1>6 DEF uri
<1>8. parseURI(gotoMain.target) = Answer(<<>>, Mnt, f)
  BY <1>1, <1>4, <1>7, FileFound DEF Reply
<1>9. Components(f) = Components(s)
  BY <1>3, ComponentsLTrim
<1>10. gotoMain.how = "require"
  BY <1>4 DEF Reply
<1> QED BY <1>2, <1>8, <1>9, <1>10 DEF RightAnswer, Answer

\* The file of which the stream wrapper knows.
LEMMA ServedAnswer ==
  ASSUME PlainNames, TypeOK, TunnelInv, pc = "tunnel", Allowed, Plain(Asked),
         "file" \in StatResults(phk, uri(Mnt, tpath)),
         NEW reply, reply.target = uri(Mnt, tpath)
  PROVE  RightAnswer(reply)
<1>1. PICK p \in Seq(Atoms) : p = tpath
  BY RequestFields
<1>2. PlainString(p) /\ Components(p) = Components(Asked)
  BY <1>1, AskedIs
<1>3. p \in Seq(Words) /\ Mnt \in Seq(Words) /\ MntString(Mnt)
  BY WordsHave, ConstantsAssumption DEF PlainNames
<1>4. PICK f : f = ut_trim_char(p, "/")
  OBVIOUS
<1>5. parseURI(uri(Mnt, p)) = Answer(<<>>, Mnt, f)
  BY <1>2, <1>3, <1>4, PathUri DEF RoundTrips
<1>6. f \in phk.files
  BY <1>1, <1>5 DEF StatResults, Answer
<1>7. Components(f) = Components(p)
  BY <1>4, ComponentsTrim
<1>8. webinfo \/ (\E apath \in web_access(phk) : Below(f, apath))
              \/ ut_strings_are_equal(tpath, phk.web_run_script)
  <2>1. CASE webAccessAllowed(phk, tpath)
    <3>1. PICK apath \in web_access(phk) : web_access_matches(apath, tpath)
      BY <2>1 DEF webAccessAllowed
    <3>2. apath \in Seq(Atoms)
      BY RequestFields, AccessPaths
    <3>3. Below(p, apath)
      BY <1>1, <3>1, <3>2, MatchesBelow
    <3> QED BY <1>7, <3>3 DEF Below
  <2> QED BY <2>1 DEF Allowed
<1> QED BY <1>1, <1>2, <1>5, <1>6, <1>7, <1>8 DEF RightAnswer, Answer

\* What is asked for and there is served.
LEMMA NamedFound ==
  ASSUME PlainNames, CanonicalNames, TypeOK, TunnelInv, pc \in {"tunnel", "autoindex"},
         NEW f \in phk.files, Names(f)
  PROVE  /\ uri(Mnt, tpath) = uri(Mnt, f)
         /\ StatResults(phk, uri(Mnt, tpath)) = {"file"}
         /\ mimeTypeFails(phk, tpath) = mimeTypeFails(phk, f)
         /\ isPHPSourcePath(tpath) = isPHPSourcePath(f)
<1>1. (tpath = f \/ tpath = <<"/">> \o f) /\ phk \in Packages
  BY NamedPath, RequestFields
<1>2. /\ uri(Mnt, tpath) = uri(Mnt, f)
      /\ ut_fileSuffix(tpath) = ut_fileSuffix(f)
      /\ StatResults(phk, uri(Mnt, f)) = {"file"}
  BY <1>1, FileFound
<1> QED BY <1>2 DEF mimeTypeFails, isPHPSourcePath

LEMMA ServeIs ==
  ASSUME NEW path, NEW u, Serve(path, u), NEW f,
         mimeTypeFails(phk, path) = mimeTypeFails(phk, f),
         isPHPSourcePath(path) = isPHPSourcePath(f),
         ~mimeTypeFails(phk, f), u = uri(Mnt, f)
  PROVE  FileAnswer(f, answer')
BY DEF Serve, Finish, FileAnswer

LEMMA IndexIs ==
  ASSUME TypeOK, NEW index, index = uri(Mnt, tpath) \o autoindex_fnames[1]
  PROVE  /\ index \in Seq(Atoms) /\ index # <<>> /\ index[1] = Scheme
         /\ index[Len(index)] # "/"
<1>1. PICK u \in Seq(Atoms) : u = uri(Mnt, tpath)
  BY RequestFields, UriType, ConstantsAssumption
<1>2. u # <<>> /\ u[1] = Scheme
  BY <1>1, RequestFields, UriHead, ConstantsAssumption
<1>3. PICK h \in Seq(Atoms) : h = <<"index", ".", "htm">>
  <2>1. "index" \in Atoms /\ "." \in Atoms /\ "htm" \in Atoms
    BY AtomsHave
  <2>2. <<"index", ".", "htm">> \in Seq(Atoms)
    BY <2>1
  <2> QED BY <2>2
<1>4. Len(h) = 3 /\ h[3] = "htm"
  BY <1>3
<1>5. PICK x : x = u \o h
  OBVIOUS
<1>6. /\ x \in Seq(Atoms) /\ Len(u) \in Nat /\ Len(x) = Len(u) + Len(h)
      /\ \A i \in 1..Len(u) : x[i] = u[i]
      /\ \A i \in 1..Len(h) : x[Len(u) + i] = h[i]
  BY <1>5, Parts
<1>7. Len(u) # 0 /\ Len(x) = Len(u) + 3 /\ 1 \in 1..Len(u) /\ 3 \in 1..Len(h)
  <2>1. Len(u) # 0
    BY <1>2, EmptySeq
  <2> QED BY <1>4, <1>6, <2>1
<1>8. x[1] = Scheme /\ x # <<>> /\ x[Len(x)] = "htm"
  BY <1>2, <1>4, <1>6, <1>7
<1>9. index = x
  BY <1>1, <1>3, <1>5 DEF autoindex_fnames
<1> QED BY <1>6, <1>8, <1>9

LEMMA NotIndex == ASSUME NEW x, x # <<>>, Head(x) = Scheme PROVE Head(x) # "/"
BY DEF Scheme

LEMMA AnswersNext ==
  ASSUME PlainNames, CanonicalNames, TypeOK, TunnelInv, AnswersInv, [Next]_vars
  PROVE  AnswersInv'
<1>1. CASE UNCHANGED vars
  <2>1. UNCHANGED <<phk, pc, request, webinfo, tpath, answer>>
    BY <1>1 DEF vars
  <2>2. CASE pc = "answered"
    <3>1. Answers(answer) /\ answer' = answer
      BY <2>1, <2>2 DEF AnswersInv
    <3>2. Answers(answer')
      BY <3>1
    <3> QED BY <2>1, <3>2, AnswersKept
  <2>3. CASE pc # "answered"
    BY <2>1, <2>3 DEF AnswersInv
  <2> QED BY <2>2, <2>3
<1>2. ASSUME NEW r \in Requests, Browse(r) PROVE AnswersInv'
  BY <1>2 DEF Browse, AnswersInv
<1>3. ASSUME NEW path \in InfoPaths, RunWebInfo(path) PROVE AnswersInv'
  BY <1>3 DEF RunWebInfo, AnswersInv
<1>4. CASE Prolog
  <2>1. CASE request.via = "error"
    <3>1. UNCHANGED <<phk, request, webinfo, tpath>> /\ answer' = Reply(500, "exception", <<>>)
      BY <1>4, <2>1 DEF Prolog, Finish
    <3>2. Answers(answer')
      BY <3>1 DEF Answers, FileAnswer, Reply
    <3> QED BY <3>1, <3>2, AnswersKept
  <2>2. CASE request.via # "error"
    BY <1>4, <2>2 DEF Prolog, AnswersInv
  <2> QED BY <2>1, <2>2
<1>5. CASE NoPath
  <2>1. UNCHANGED <<phk, request, webinfo, tpath>> /\ pc = "tunnel" /\ tpath = <<>>
    BY <1>5 DEF NoPath
  <2>2. answer' = IF phk.web_run_script # NULL THEN gotoMain ELSE ut_http301Redirect(<<"/">>)
    BY <1>5 DEF NoPath, Finish
  <2>3. answer'.code = 200 => RightAnswer(answer')
    <3>1. CASE phk.web_run_script # NULL
      BY <2>2, <3>1, MainAnswer
    <3>2. CASE phk.web_run_script = NULL
      BY <2>2, <3>2 DEF ut_http301Redirect, Reply
    <3> QED BY <3>1, <3>2
  <2>4. \A f \in phk.files : ~Wanted(f)
    BY <2>1, NamedPath DEF Wanted
  <2>5. Answers(answer')
    BY <2>3, <2>4 DEF Answers
  <2> QED BY <2>1, <2>5, AnswersKept
<1>6. CASE Refuse
  <2>1. UNCHANGED <<phk, request, webinfo, tpath>> /\ pc = "tunnel" /\ ~Allowed
    BY <1>6 DEF Refuse
  <2>2. answer' = IF phk.web_run_script # NULL THEN gotoMain ELSE ut_http403Fail
    BY <1>6 DEF Refuse, Finish
  <2>3. answer'.code = 200 => RightAnswer(answer')
    <3>1. CASE phk.web_run_script # NULL
      BY <2>2, <3>1, MainAnswer
    <3>2. CASE phk.web_run_script = NULL
      BY <2>2, <3>2 DEF ut_http403Fail, Reply
    <3> QED BY <3>1, <3>2
  <2>4. \A f \in phk.files : ~Wanted(f)
    BY <2>1, NamedAllowed DEF Wanted
  <2>5. Answers(answer')
    BY <2>3, <2>4 DEF Answers
  <2> QED BY <2>1, <2>5, AnswersKept
<1>7. CASE Tunnel
  <2>1. UNCHANGED <<phk, request, webinfo, tpath>> /\ pc = "tunnel" /\ Allowed
    BY <1>7 DEF Tunnel
  <2>2. PICK u : u = uri(Mnt, tpath)
    OBVIOUS
  <2>3. PICK found \in StatResults(phk, u) :
          CASE found = "none" -> Finish(ut_http404Fail)
            [] found = "file" -> Serve(tpath, u)
            [] found = "dir" /\ last_slash -> pc' = "autoindex" /\ UNCHANGED answer
            [] found = "dir" /\ ~last_slash -> Finish(ut_http301Redirect(Append(u, "/")))
    BY <1>7, <2>2 DEF Tunnel
  <2>4. found \in {"none", "file", "dir"}
    BY DEF StatResults
  <2>5. CASE found = "file"
    <3>1. Serve(tpath, u)
      BY <2>3, <2>5
    <3>2. answer'.target = u \/ answer'.code # 200
      BY <3>1 DEF Serve, Finish, Reply
    <3>3. Plain(Asked) /\ answer'.code = 200 => RightAnswer(answer')
      BY <2>1, <2>2, <2>5, <3>2, ServedAnswer
    <3>4. ASSUME NEW f \in phk.files, Wanted(f) PROVE FileAnswer(f, answer')
      <4>1. Names(f) /\ ~mimeTypeFails(phk, f)
        BY <3>4 DEF Wanted
      <4>2. /\ u = uri(Mnt, f)
            /\ mimeTypeFails(phk, tpath) = mimeTypeFails(phk, f)
            /\ isPHPSourcePath(tpath) = isPHPSourcePath(f)
        BY <2>1, <2>2, <4>1, NamedFound
      <4> QED BY <3>1, <4>1, <4>2, ServeIs
    <3>5. Answers(answer')
      BY <3>3, <3>4 DEF Answers
    <3> QED BY <2>1, <3>5, AnswersKept
  <2>6. CASE found # "file"
    <3>1. pc' = "autoindex" \/ answer'.code # 200
      <4>1. CASE found = "none"
        BY <2>3, <4>1 DEF Finish, ut_http404Fail, Reply
      <4>2. CASE found = "dir"
        <5>1. pc' = "autoindex" \/ answer' = ut_http301Redirect(Append(u, "/"))
          BY <2>3, <4>2 DEF Finish
        <5>2. ut_http301Redirect(Append(u, "/")).code # 200
          BY DEF ut_http301Redirect, Reply
        <5> QED BY <5>1, <5>2
      <4> QED BY <2>4, <2>6, <4>1, <4>2
    <3>2. ASSUME NEW f \in phk.files, Wanted(f) PROVE FALSE
      <4>1. StatResults(phk, u) = {"file"}
        BY <2>1, <2>2, <3>2, NamedFound DEF Wanted
      <4> QED BY <2>3, <2>6, <4>1
    <3>3. CASE pc' = "autoindex"
      BY <3>3 DEF AnswersInv
    <3>4. CASE answer'.code # 200
      <4>1. Answers(answer')
        BY <3>2, <3>4 DEF Answers
      <4> QED BY <2>1, <4>1, AnswersKept
    <3> QED BY <3>1, <3>3, <3>4
  <2> QED BY <2>5, <2>6
<1>8. CASE Autoindex
  <2>1. PICK index : index = uri(Mnt, tpath) \o autoindex_fnames[1]
    OBVIOUS
  <2>2. /\ pc = "autoindex" /\ UNCHANGED <<phk, request, webinfo>>
        /\ tpath' = index /\ Serve(index, uri(Mnt, index))
    BY <1>8, <2>1 DEF Autoindex
  <2>3. index \in Seq(Atoms) /\ index # <<>> /\ index[1] = Scheme /\ index[Len(index)] # "/"
    BY <2>1, IndexIs
  <2>4. tpath' # <<>> /\ Head(tpath') = Scheme
    BY <2>2, <2>3
  <2>5. ASSUME NEW f \in phk.files, Wanted(f)' PROVE FileAnswer(f, answer)'
    <3>1. ~mimeTypeFails(phk, f)
      BY <2>2, <2>5 DEF Wanted
    <3>2. CASE ~webinfo
      <4>1. Names(f)
        BY <2>2, <2>5, <3>2 DEF Wanted, Names, Asked
      <4>2. StatResults(phk, uri(Mnt, tpath)) = {"file"}
        BY <2>2, <4>1, NamedFound
      <4>3. "dir" \in StatResults(phk, uri(Mnt, tpath))
        BY <2>2 DEF TunnelInv
      <4> QED BY <4>2, <4>3
    <3>3. CASE webinfo
      <4>1. Components(f) = Components(index) /\ Canonical(index)
        BY <2>2, <2>5, <3>3 DEF Wanted, Names, Asked
      <4>2. f \in Seq(Atoms) /\ CanonicalName(f)
        BY RequestFields, PackageFields DEF CanonicalNames
      <4>3. index = f \/ index = <<"/">> \o f
        BY <2>3, <4>1, <4>2, NameOf
      <4>4. PICK g : g = <<"/">> \o f
        OBVIOUS
      <4>5. g[1] = "/"
        BY <4>2, <4>4, AtomsHave, SlashName DEF CanonicalName
      <4>6. index = f
        BY <2>3, <4>3, <4>4, <4>5 DEF Scheme
      <4>7. FileAnswer(f, answer')
        BY <2>2, <3>1, <4>6, ServeIs
      <4> QED BY <2>2, <4>7 DEF FileAnswer
    <3> QED BY <3>2, <3>3
  <2>6. \A f \in phk'.files : Wanted(f)' => FileAnswer(f, answer)'
    BY <2>2, <2>5
  <2>7. Answers(answer)'
    BY <2>4, <2>6 DEF Answers
  <2> QED BY <2>7 DEF AnswersInv
<1>9. CASE TimeLimit
  <2>1. UNCHANGED <<phk, request, webinfo, tpath>> /\ answer' = Reply(500, "timeout", <<>>)
    BY <1>9 DEF TimeLimit, Finish
  <2>2. Answers(answer')
    BY <2>1 DEF Answers, FileAnswer, Reply
  <2> QED BY <2>1, <2>2, AnswersKept
<1>10. CASE EndRequest
  BY <1>10 DEF EndRequest, AnswersInv
<1>11. CASE Follow
  <2>1. pc' \in {"prolog", "idle"}
    BY <1>11 DEF Follow
  <2> QED BY <2>1 DEF AnswersInv
<1> QED BY <1>1, <1>2, <1>3, <1>4, <1>5, <1>6, <1>7, <1>8, <1>9, <1>10, <1>11 DEF Next

\* What is sent is open, asked for by the main script's path, or sent to a request that
\* ut_strings_are_equal() takes for one that asks for it.
THEOREM AnswersInvCorrect ==
  ASSUME PlainNames, CanonicalNames
  PROVE  Spec => []AnswersInv
<1>1. Init => AnswersInv
  BY DEF Init, AnswersInv
<1>2. TypeOK /\ TunnelInv /\ AnswersInv /\ [Next]_vars => AnswersInv'
  BY AnswersNext
<1> QED BY <1>1, <1>2, TypeCorrect, TunnelCorrect, PTL DEF Spec

\* What is closed is not sent to a request whose path ut_strings_are_equal() compares with
\* that of the main script as its name says, and what web_access opens, as a string, is
\* answered, as a script exactly if its name says so: for all packages whose files have
\* canonical names, all options and all requests.
\* (Property AnswersPath; prolog(), PHK_webTunnel(), PHK_Stream_parseURI().)
THEOREM AnswersPathCorrect ==
  ASSUME PlainNames, CanonicalNames
  PROVE  Spec => []AnswersPath
BY AnswersInvCorrect, AnswersInvPath, PTL

\* A package without a main script sends only what is open: the comparison that lets more
\* through needs one.
\* (Property OnlyOpen; PHK_webTunnel(), ut_strings_are_equal().)
THEOREM OnlyOpenWithoutMain ==
  ASSUME PlainNames, CanonicalNames, \A p \in Packages : p.web_run_script = NULL
  PROVE  Spec => []OnlyOpen
<1>1. TypeOK /\ AnswersInv => OnlyOpen
  <2> SUFFICES ASSUME TypeOK, AnswersInv PROVE OnlyOpen
    OBVIOUS
  <2>1. phk.web_run_script = NULL
    BY DEF TypeOK
  <2>2. ~ut_strings_are_equal(tpath, phk.web_run_script)
    BY <2>1 DEF ut_strings_are_equal
  <2> QED BY <2>2, AnswersInvSends DEF SendsOpen, OnlyOpen
<1> QED BY <1>1, AnswersInvCorrect, TypeCorrect, PTL
=============================================================================
