------------------------ MODULE AutomapParser_proofs ------------------------
(***************************************************************************)
(* Proofs about AutomapParser, for all names, sizes of the buffer and      *)
(* programs.                                                               *)
(*                                                                         *)
(* What a program may still contain is said by the modes that the parser   *)
(* and PHP go through together from here to its end: a token leads from    *)
(* one mode to the next, and a part that is still to be chosen leaves the  *)
(* mode as it is.  To choose a part is to put in its place a way from this *)
(* mode to the same mode; to read a token is to go on to the next mode.    *)
(***************************************************************************)
EXTENDS AutomapParser, PHKUri_proofs

-----------------------------------------------------------------------------
(***************************************************************************)
(* Modes.  The state "end" is for the time after the last part: nothing    *)
(* follows it.                                                             *)
(***************************************************************************)
Marks == {"named", "block", "space"}
States == {"OUT", "FUNCTION_FOUND", "CLASS_FOUND", "NAMESPACE_FOUND", "NAMESPACE_2",
           "CONST_FOUND", "DEFINE_FOUND", "DEFINE_2", "SKIPPING_TO_EOL",
           "SKIPPING_BLOCK_NOSTRING", "SKIPPING_BLOCK_STRING"}

\* buffer: the name of the namespace is complete, or lacks a name after a separator, or
\* there is none.
Mode == [state : States \cup {"end"}, level : Nat, nesting : Seq(Marks),
         buffer : {"empty", "open", "closed"}]
End == [state |-> "end", level |-> 0, nesting |-> <<>>, buffer |-> "empty"]

\* What is declared here counts.  The argument b is skip_blocks.
Exposed(b, N) == \A i \in 1..Len(N) : N[i] \notin {"named"} \cup (IF b THEN {"block"} ELSE {})

\* The parser is between two statements or in an expression; or it skips a body or a block,
\* perhaps in a string.
Free(m) ==
  /\ m.state = "OUT" /\ m.level = 0 /\ m.buffer # "open"
  /\ \A i \in 1..Len(m.nesting) : m.nesting[i] # "named"
Skipping(b, m) ==
  /\ m.state \in {"SKIPPING_BLOCK_NOSTRING", "SKIPPING_BLOCK_STRING"}
  /\ m.level >= 1 /\ m.buffer # "open" /\ ~Exposed(b, m.nesting)
Settled(b, m) == Free(m) \/ Skipping(b, m)
Declaring(b, m) == Exposed(b, m.nesting) /\ m.buffer # "open"

Enters(m, where, level, mark) ==
  [m EXCEPT !.state = where, !.level = level, !.nesting = Append(@, mark)]
Counted(m) == IF m.state = "SKIPPING_BLOCK_NOSTRING" THEN 1 ELSE 0

(***************************************************************************)
(* The tokens that leave the mode as it is.                                *)
(***************************************************************************)
Plain ==
  {Word(w) : w \in {"T_VARIABLE", "T_IF", "T_LNUMBER", "T_WHITESPACE", "T_COMMENT",
                    "T_START_HEREDOC", "T_END_HEREDOC", "T_ENCAPSED_AND_WHITESPACE"}}
    \cup {Char(c) : c \in {"(", ")", Semicolon, "&"}}
Encapsed(name) ==
  Token("T_CONSTANT_ENCAPSED_STRING", <<"'">> \o name \o <<"'">>, "define")
Inner ==
  {Word(w) : w \in {"T_FUNCTION", "T_CLASS", "T_CONST"}}
    \cup {Identifier(name, mark) : name \in Names, mark \in {"F", "L", "C"}}
    \cup {Identifier(<<"define">>, NULL)} \cup {Encapsed(name) : name \in Names}

Stays(b, m, t) ==
  \/ Settled(b, m) /\ t \in Plain
  \/ Free(m) /\ t = Char(DoubleQuote)
  \/ Skipping(b, m) /\ t \in Inner
  \/ m.state = "FUNCTION_FOUND" /\ t \in {Word("T_WHITESPACE"), Word("T_COMMENT"), Char("&")}
  \/ m.state = "SKIPPING_BLOCK_NOSTRING" /\ m.level = 0 /\ t \in {Char("("), Char(")")}
  \/ m.state = "SKIPPING_TO_EOL" /\ t \in {Word("T_LNUMBER"), Char(")")}

(***************************************************************************)
(* The others: a function, a class, a constant, ...                        *)
(***************************************************************************)
Found == [T_FUNCTION |-> "FUNCTION_FOUND", T_CLASS |-> "CLASS_FOUND", T_CONST |-> "CONST_FOUND"]

Keyword(b, m, t, n) ==
  \E w \in {"T_FUNCTION", "T_CLASS", "T_CONST"} :
    Free(m) /\ t = Word(w) /\ n = [m EXCEPT !.state = Found[w]]
HasNoName(b, m, t, n) ==
  m.state = "FUNCTION_FOUND" /\ t = Char("(") /\ n = [m EXCEPT !.state = "OUT"]
HasName(b, m, t, n) ==
  \E name \in Names :
    /\ Declaring(b, m)
    /\ \/ m.state = "FUNCTION_FOUND" /\ t = Identifier(name, "F")
       \/ m.state = "CLASS_FOUND" /\ t = Identifier(name, "L")
    /\ n = [m EXCEPT !.state = "SKIPPING_BLOCK_NOSTRING", !.level = 0]
Body(b, m, t, n) ==
  /\ m.state = "SKIPPING_BLOCK_NOSTRING" /\ m.level = 0 /\ t = Open("named")
  /\ n = Enters(m, m.state, 1, "named")
ConstName(b, m, t, n) ==
  \E name \in Names :
    /\ m.state = "CONST_FOUND" /\ Declaring(b, m) /\ t = Identifier(name, "C")
    /\ n = [m EXCEPT !.state = "OUT"]

\* ... a call of define(), ...
DefineWord(b, m, t, n) ==
  Free(m) /\ t = Identifier(<<"define">>, NULL) /\ n = [m EXCEPT !.state = "DEFINE_FOUND"]
DefineParen(b, m, t, n) ==
  m.state = "DEFINE_FOUND" /\ t = Char("(") /\ n = [m EXCEPT !.state = "DEFINE_2"]
DefineName(b, m, t, n) ==
  \E name \in Names :
    /\ m.state = "DEFINE_2" /\ Exposed(b, m.nesting) /\ t = Encapsed(name)
    /\ n = [m EXCEPT !.state = "SKIPPING_TO_EOL"]
DefineEnd(b, m, t, n) ==
  m.state = "SKIPPING_TO_EOL" /\ t = Char(Semicolon) /\ n = [m EXCEPT !.state = "OUT"]

\* ... a namespace, ...
NamespaceWord(b, m, t, n) ==
  /\ Free(m) /\ t = Token("T_NAMESPACE", <<>>, "global")
  /\ n = [m EXCEPT !.state = "NAMESPACE_FOUND", !.buffer = "empty"]
NamespaceSpace(b, m, t, n) ==
  /\ m.state = "NAMESPACE_FOUND" /\ m.buffer = "empty" /\ t = Word("T_WHITESPACE")
  /\ n = [m EXCEPT !.state = "NAMESPACE_2"]
NamespaceName(b, m, t, n) ==
  \E name \in Names :
    /\ m.state = "NAMESPACE_2" /\ m.buffer # "closed" /\ t = Identifier(name, "namespace")
    /\ n = [m EXCEPT !.buffer = "closed"]
NamespaceSeparator(b, m, t, n) ==
  /\ m.state = "NAMESPACE_2" /\ m.buffer = "closed" /\ t = Word("T_NS_SEPARATOR")
  /\ n = [m EXCEPT !.buffer = "open"]
NamespaceEnd(b, m, t, n) ==
  /\ m.state = "NAMESPACE_2" /\ m.buffer # "open" /\ t = Char(Semicolon)
  /\ n = [m EXCEPT !.state = "OUT"]
NamespaceBody(b, m, t, n) ==
  /\ m.state = "NAMESPACE_2" /\ m.buffer # "open" /\ t = Open("space")
  /\ n = Enters(m, "OUT", m.level, "space")

\* ... blocks and strings.
CurlyOpen == Token("T_CURLY_OPEN", <<OpenBrace>>, "block")
Enter(b, m, t, n) ==
  \E mark \in {"named", "block"} :
    /\ Skipping(b, m)
    /\ t = Open(mark) \/ (t = CurlyOpen /\ mark = "block")
    /\ n = Enters(m, m.state, m.level + Counted(m), mark)
EnterFree(b, m, t, n) ==
  /\ Free(m)
  /\ \/ t = Open("block") /\ ~b /\ n = Enters(m, "OUT", 0, "block")
     \/ t = CurlyOpen /\ n = Enters(m, "OUT", 0, "block")
     \/ t = Open("block") /\ b /\ n = Enters(m, "SKIPPING_BLOCK_NOSTRING", 1, "block")
Leave(b, m, t, n) ==
  /\ Settled(b, m) /\ m.nesting # <<>> /\ t = Close
  /\ n = [m EXCEPT !.state = IF Counted(m) = 1 /\ m.level = 1 THEN "OUT" ELSE @,
                   !.level = @ - Counted(m), !.nesting = Front(@)]
Quote(b, m, t, n) ==
  /\ Skipping(b, m) /\ t = Char(DoubleQuote)
  /\ n = [m EXCEPT !.state = IF Counted(m) = 1 THEN "SKIPPING_BLOCK_STRING"
                                               ELSE "SKIPPING_BLOCK_NOSTRING"]

(***************************************************************************)
(* Parts, each in the modes that it can be in.                             *)
(***************************************************************************)
Fitting(b, m, part) ==
  \/ /\ part \in {"Statements", "Statement"}
     /\ Skipping(b, m) \/ (Free(m) /\ Exposed(b, m.nesting))
  \/ part = "Members" /\ Skipping(b, m)
  \/ part \in {"Expression", "Text"} /\ Settled(b, m)

APart(b, m, t, n) ==
  \/ \E part \in {"Statements", "Statement", "Members", "Expression", "Text"} :
       t = Part(part) /\ Fitting(b, m, part) /\ n = m
  \/ t = Part("Program") /\ Free(m) /\ Exposed(b, m.nesting) /\ n = End
  \/ /\ t = Part("NamespaceName") /\ m.state = "NAMESPACE_2" /\ m.buffer # "closed"
     /\ n = [m EXCEPT !.buffer = "closed"]

AToken(b, m, t, n) ==
  \/ Stays(b, m, t) /\ n = m
  \/ Keyword(b, m, t, n) \/ HasNoName(b, m, t, n) \/ HasName(b, m, t, n) \/ Body(b, m, t, n)
  \/ ConstName(b, m, t, n)
  \/ DefineWord(b, m, t, n) \/ DefineParen(b, m, t, n) \/ DefineName(b, m, t, n)
  \/ DefineEnd(b, m, t, n)
  \/ NamespaceWord(b, m, t, n) \/ NamespaceSpace(b, m, t, n) \/ NamespaceName(b, m, t, n)
  \/ NamespaceSeparator(b, m, t, n) \/ NamespaceEnd(b, m, t, n) \/ NamespaceBody(b, m, t, n)
  \/ Enter(b, m, t, n) \/ EnterFree(b, m, t, n) \/ Leave(b, m, t, n) \/ Quote(b, m, t, n)

Step(b, m, t, n) == APart(b, m, t, n) \/ AToken(b, m, t, n)

\* A way from m to e through the tokens and parts of s.
Leading(b, m, s, e, M) ==
  /\ M \in Seq(Mode) /\ Len(M) = Len(s) + 1
  /\ M[1] = m /\ M[Len(s) + 1] = e
  /\ \A i \in 1..Len(s) : Step(b, M[i], s[i], M[i + 1])
IsSeq(s) == \E I : s \in Seq(I)
Path(b, m, s, e) == IsSeq(s) /\ \E M \in Seq(Mode) : Leading(b, m, s, e, M)

-----------------------------------------------------------------------------
(***************************************************************************)
(* The invariant.                                                          *)
(***************************************************************************)
\* The full name of the namespace.
Prefix(names) == FlattenSeq([i \in 1..Len(names) |-> <<"\\">> \o names[i]])

\* What is in the buffer, s, has to do with the namespace, N.
Holds(buffer, s, N) ==
  /\ buffer = "empty" <=> s = <<>>
  /\ buffer = "empty" <=> N = <<>>
  /\ buffer # "empty" =>
       /\ <<"\\">> \o s = Prefix(N) \o (IF buffer = "open" THEN <<"\\">> ELSE <<>>)
       /\ s[1] # "\\"
       /\ buffer = "closed" => s[Len(s)] # "\\"

Buffered(buffer) == Holds(buffer, ns, namespace)

Matches(m) ==
  /\ state = m.state /\ block_level = m.level /\ nesting = m.nesting
  /\ Fits => Buffered(m.buffer)

OnTheWay ==
  \E m \in Mode, e \in Mode :
    Matches(m) /\ e.state \in {"OUT", "end"} /\ Path(skip_blocks, m, todo, e)

Lengths == Len(Prefix(namespace)) = Len(FlattenSeq(namespace)) + Len(namespace)

IInv ==
  /\ TypeOK /\ Declared /\ FaultOnlyIfTooLong /\ state # "thrown"
  /\ Lengths
  /\ state = "fault" \/ OnTheWay
-----------------------------------------------------------------------------
\* Ways.  They can be cut and joined.

\* What has been appended can be taken off.
LEMMA FrontOfAppend ==
  ASSUME NEW A, NEW s \in Seq(A), NEW x \in A
  PROVE  /\ Append(s, x) \in Seq(A) /\ Len(Append(s, x)) = Len(s) + 1 /\ Append(s, x) # <<>>
         /\ Front(Append(s, x)) = s
<1>1. PICK t \in Seq(A) : t = Append(s, x)
  BY AppendProperties
<1>2. PICK n \in Nat : n = Len(s)
  OBVIOUS
<1>3. Len(t) = n + 1 /\ \A i \in 1..n : t[i] = s[i]
  BY <1>1, <1>2
<1>4. PICK f : f = SubSeq(t, 1, n)
  OBVIOUS
<1>5. f \in Seq(A) /\ Len(f) = (IF 1 <= n THEN n - 1 + 1 ELSE 0) /\ \A j \in 1..(n - 1 + 1) : f[j] = t[1 + j - 1]
  <2>1. n \in 0..Len(t)
    BY <1>3
  <2> QED BY <1>4, <2>1, SliceType
<1>6. Len(f) = n /\ \A j \in 1..n : f[j] = t[j]
  BY <1>2, <1>5
<1>7. f = s
  BY <1>2, <1>3, <1>5, <1>6, SeqEqual
<1>8. Len(t) - 1 = n
  BY <1>3
<1> QED BY <1>1, <1>2, <1>3, <1>4, <1>7, <1>8 DEF Front

\* Front() of a sequence that is not empty.
LEMMA FrontType ==
  ASSUME NEW A, NEW s \in Seq(A), s # <<>>
  PROVE  Front(s) \in Seq(A) /\ \A i \in 1..Len(Front(s)) : i \in 1..Len(s) /\ Front(s)[i] = s[i]
<1>1. PICK n \in Nat : n = Len(s) - 1
  OBVIOUS
<1>2. PICK f : f = SubSeq(s, 1, n)
  OBVIOUS
<1>3. f \in Seq(A) /\ Len(f) = (IF 1 <= n THEN n - 1 + 1 ELSE 0) /\ \A j \in 1..(n - 1 + 1) : f[j] = s[1 + j - 1]
  <2>1. n \in 0..Len(s)
    BY <1>1
  <2> QED BY <1>2, <2>1, SliceType
<1>4. Len(f) = n /\ \A j \in 1..n : j \in 1..Len(s) /\ f[j] = s[j]
  BY <1>1, <1>3
<1> QED BY <1>1, <1>2, <1>3, <1>4 DEF Front

\* Without tokens there is no way but to stay.
LEMMA PathEmpty ==
  ASSUME NEW b, NEW m \in Mode, NEW e
  PROVE  Path(b, m, <<>>, e) <=> e = m
<1>1. ASSUME Path(b, m, <<>>, e) PROVE e = m
  <2>1. PICK M \in Seq(Mode) : Leading(b, m, <<>>, e, M)
    BY <1>1 DEF Path
  <2> QED BY <2>1 DEF Leading
<1>2. Path(b, m, <<>>, m)
  <2>1. PICK M \in Seq(Mode) : M = <<m>>
    BY OneElement
  <2>2. Len(M) = 1 /\ M[1] = m
    BY <2>1
  <2>3. Leading(b, m, <<>>, m, M)
    BY <2>2 DEF Leading
  <2> QED BY <2>3, EmptySeq DEF Path, IsSeq
<1> QED BY <1>1, <1>2

\* A step, and a way from there.
LEMMA PathCons ==
  ASSUME NEW b, NEW m \in Mode, NEW t, NEW n \in Mode, NEW s, NEW e,
         Step(b, m, t, n), Path(b, n, s, e)
  PROVE  Path(b, m, <<t>> \o s, e)
<1>1. PICK Item : s \in Seq(Item) /\ t \in Item
  <2>1. PICK I : s \in Seq(I)
    BY DEF Path, IsSeq
  <2>2. s \in Seq(I \cup {t}) /\ t \in I \cup {t}
    BY <2>1
  <2> QED BY <2>2
<1>2. PICK M \in Seq(Mode) : Leading(b, n, s, e, M)
  BY DEF Path
<1>3. PICK k \in Nat : k = Len(s)
  BY <1>1
<1>4. Len(M) = k + 1 /\ M[1] = n /\ M[k + 1] = e /\ \A i \in 1..k : Step(b, M[i], s[i], M[i + 1])
  BY <1>2, <1>3 DEF Leading
<1>5. PICK S : S = <<t>> \o s
  OBVIOUS
<1>6. <<t>> \in Seq(Item) /\ Len(<<t>>) = 1 /\ <<t>>[1] = t
  BY <1>1, OneElement
<1>7. /\ S \in Seq(Item) /\ Len(S) = 1 + k /\ S[1] = t
      /\ \A i \in 1..k : S[1 + i] = s[i]
  <2>1. PICK x \in Seq(Item) : x = <<t>>
    BY <1>6
  <2>2. /\ S \in Seq(Item)
        /\ Len(S) = Len(x) + Len(s)
        /\ \A i \in 1..Len(x) : S[i] = x[i]
        /\ \A i \in 1..Len(s) : S[Len(x) + i] = s[i]
    BY <1>1, <1>5, <2>1, Parts
  <2> QED BY <1>3, <1>6, <2>1, <2>2
<1>8. PICK N : N = [i \in 1..(k + 2) |-> IF i = 1 THEN m ELSE M[i - 1]]
  OBVIOUS
<1>9. /\ N \in Seq(Mode) /\ Len(N) = k + 2 /\ N[1] = m
      /\ \A i \in 1..(k + 1) : N[1 + i] = M[i]
  <2>1. \A i \in 1..(k + 1) : M[i] \in Mode
    BY <1>4
  <2>2. k + 2 \in Nat /\ N \in [1..(k + 2) -> Mode]
    BY <1>8, <2>1
  <2>3. N \in Seq(Mode) /\ Len(N) = k + 2
    BY <2>2, FunctionIsSeq
  <2> QED BY <1>8, <2>3
<1>10. Leading(b, m, S, e, N)
  <2>1. Len(N) = Len(S) + 1 /\ N[Len(S) + 1] = e
    <3>1. 1 + (k + 1) = Len(S) + 1 /\ k + 1 \in 1..(k + 1)
      BY <1>7
    <3> QED BY <1>4, <1>7, <1>9, <3>1
  <2>2. ASSUME NEW i \in 1..Len(S) PROVE Step(b, N[i], S[i], N[i + 1])
    <3>1. CASE i = 1
      <4>1. N[1] = m /\ S[1] = t /\ N[1 + 1] = n
        BY <1>4, <1>7, <1>9
      <4> QED BY <3>1, <4>1
    <3>2. CASE i # 1
      <4>1. PICK j \in 1..k : i = 1 + j
        <5>1. i - 1 \in 1..k /\ i = 1 + (i - 1)
          BY <1>7, <3>2
        <5> QED BY <5>1
      <4>2. N[i] = M[j] /\ S[i] = s[j] /\ N[i + 1] = M[j + 1]
        <5>1. j \in 1..(k + 1) /\ j + 1 \in 1..(k + 1) /\ i + 1 = 1 + (j + 1)
          BY <4>1
        <5> QED BY <1>7, <1>9, <4>1, <5>1
      <4> QED BY <1>4, <4>2
    <3> QED BY <3>1, <3>2
  <2> QED BY <1>9, <2>1, <2>2 DEF Leading
<1> QED BY <1>5, <1>7, <1>9, <1>10 DEF Path, IsSeq

\* One step is a way.
LEMMA PathOne ==
  ASSUME NEW b, NEW m \in Mode, NEW t, NEW n \in Mode, Step(b, m, t, n)
  PROVE  Path(b, m, <<t>>, n)
<1>1. Path(b, m, <<t>> \o <<>>, n)
  <2>1. PICK x : x = <<>>
    OBVIOUS
  <2>2. Path(b, n, x, n)
    BY <2>1, PathEmpty
  <2> QED BY <2>1, <2>2, PathCons
<1>2. <<t>> \o <<>> = <<t>>
  OBVIOUS
<1> QED BY <1>1, <1>2

\* Two ways make one.
LEMMA PathJoin ==
  ASSUME NEW b, NEW m \in Mode, NEW s, NEW n, NEW t, NEW e,
         Path(b, m, s, n), Path(b, n, t, e)
  PROVE  Path(b, m, s \o t, e)
<1>1. PICK Item : s \in Seq(Item) /\ t \in Seq(Item)
  <2>1. PICK I : s \in Seq(I)
    BY DEF Path, IsSeq
  <2>2. PICK J : t \in Seq(J)
    BY DEF Path, IsSeq
  <2>3. s \in Seq(I \cup J) /\ t \in Seq(I \cup J)
    BY <2>1, <2>2
  <2> QED BY <2>3
<1>2. PICK M \in Seq(Mode) : Leading(b, m, s, n, M)
  BY DEF Path
<1>3. PICK N \in Seq(Mode) : Leading(b, n, t, e, N)
  BY DEF Path
<1>4. PICK k \in Nat : k = Len(s)
  BY <1>1
<1>5. PICK l \in Nat : l = Len(t)
  BY <1>1
<1>6. Len(M) = k + 1 /\ M[1] = m /\ M[k + 1] = n /\ \A i \in 1..k : Step(b, M[i], s[i], M[i + 1])
  BY <1>2, <1>4 DEF Leading
<1>7. Len(N) = l + 1 /\ N[1] = n /\ N[l + 1] = e /\ \A i \in 1..l : Step(b, N[i], t[i], N[i + 1])
  BY <1>3, <1>5 DEF Leading
<1>8. PICK S : S = s \o t
  OBVIOUS
<1>9. /\ S \in Seq(Item) /\ Len(S) = k + l
      /\ \A i \in 1..k : S[i] = s[i]
      /\ \A i \in 1..l : S[k + i] = t[i]
  <2>1. /\ S \in Seq(Item)
        /\ Len(S) = Len(s) + Len(t)
        /\ \A i \in 1..Len(s) : S[i] = s[i]
        /\ \A i \in 1..Len(t) : S[Len(s) + i] = t[i]
    BY <1>1, <1>8, Parts
  <2> QED BY <1>4, <1>5, <2>1
<1>10. PICK L : L = [i \in 1..(k + l + 1) |-> IF i <= k THEN M[i] ELSE N[i - k]]
  OBVIOUS
<1>11. /\ L \in Seq(Mode) /\ Len(L) = k + l + 1
       /\ \A i \in 1..(k + 1) : L[i] = M[i]
       /\ \A i \in 1..(l + 1) : L[k + i] = N[i]
  <2>1. \A i \in 1..(k + 1) : M[i] \in Mode
    BY <1>6
  <2>2. \A i \in 1..(l + 1) : N[i] \in Mode
    BY <1>7
  <2>3. k + l + 1 \in Nat /\ L \in [1..(k + l + 1) -> Mode]
    BY <1>10, <2>1, <2>2
  <2>4. L \in Seq(Mode) /\ Len(L) = k + l + 1
    BY <2>3, FunctionIsSeq
  <2>5. \A i \in 1..(l + 1) : L[k + i] = N[i]
    <3> TAKE i \in 1..(l + 1)
    <3>1. k + i \in 1..(k + l + 1) /\ ~(k + i <= k) /\ (k + i) - k = i
      OBVIOUS
    <3> QED BY <1>10, <3>1
  <2>6. \A i \in 1..k : L[i] = M[i]
    BY <1>10
  <2>7. L[k + 1] = M[k + 1]
    BY <1>6, <1>7, <2>5
  <2> QED BY <2>4, <2>5, <2>6, <2>7
<1>12. Leading(b, m, S, e, L)
  <2>1. Len(L) = Len(S) + 1 /\ L[1] = m /\ L[Len(S) + 1] = e
    <3>1. 1 \in 1..(k + 1) /\ l + 1 \in 1..(l + 1) /\ k + (l + 1) = Len(S) + 1
      BY <1>9
    <3>2. L[k + (l + 1)] = e /\ L[1] = m
      BY <1>6, <1>7, <1>11, <3>1
    <3> QED BY <1>9, <1>11, <3>1, <3>2
  <2>2. ASSUME NEW i \in 1..Len(S) PROVE Step(b, L[i], S[i], L[i + 1])
    <3>1. CASE i \in 1..k
      <4>1. i \in 1..(k + 1) /\ i + 1 \in 1..(k + 1)
        BY <3>1
      <4> QED BY <1>6, <1>9, <1>11, <3>1, <4>1
    <3>2. CASE i \notin 1..k
      <4>1. PICK j \in 1..l : i = k + j
        <5>1. i - k \in 1..l /\ i = k + (i - k)
          BY <1>9, <3>2
        <5> QED BY <5>1
      <4>2. j \in 1..(l + 1) /\ j + 1 \in 1..(l + 1) /\ i + 1 = k + (j + 1)
        BY <4>1
      <4>3. L[i] = N[j] /\ S[i] = t[j] /\ L[i + 1] = N[j + 1]
        BY <1>9, <1>11, <4>1, <4>2
      <4> QED BY <1>7, <4>3
    <3> QED BY <3>1, <3>2
  <2> QED BY <1>11, <2>1, <2>2 DEF Leading
<1> QED BY <1>8, <1>9, <1>11, <1>12 DEF Path, IsSeq

\* A way begins with a step.
LEMMA PathHead ==
  ASSUME NEW b, NEW m \in Mode, NEW s, NEW e, Path(b, m, s, e), s # <<>>
  PROVE  \E n \in Mode : Step(b, m, Head(s), n) /\ Path(b, n, Tail(s), e)
<1>1. PICK Item : s \in Seq(Item)
  BY DEF Path, IsSeq
<1>2. PICK M \in Seq(Mode) : Leading(b, m, s, e, M)
  BY DEF Path
<1>3. PICK k \in Nat : k + 1 = Len(s)
  <2>1. Len(s) \in Nat /\ Len(s) # 0
    BY <1>1
  <2>2. Len(s) - 1 \in Nat /\ (Len(s) - 1) + 1 = Len(s)
    BY <2>1
  <2> QED BY <2>2
<1>4. /\ Len(M) = k + 2 /\ M[1] = m /\ M[k + 2] = e
      /\ \A i \in 1..(k + 1) : Step(b, M[i], s[i], M[i + 1])
  <2>1. (k + 1) + 1 = k + 2
    OBVIOUS
  <2> QED BY <1>2, <1>3, <2>1 DEF Leading
<1>5. PICK t \in Seq(Item) : t = Tail(s)
  BY <1>1, HeadTailProperties
<1>6. Len(t) = k /\ (\A i \in 1..k : t[i] = s[i + 1]) /\ Head(s) = s[1]
  BY <1>1, <1>3, <1>5
<1>7. PICK N : N = [i \in 1..(k + 1) |-> M[i + 1]]
  OBVIOUS
<1>8. N \in Seq(Mode) /\ Len(N) = k + 1 /\ \A i \in 1..(k + 1) : N[i] = M[i + 1]
  <2>1. \A i \in 1..(k + 1) : M[i + 1] \in Mode
    BY <1>4
  <2>2. k + 1 \in Nat /\ N \in [1..(k + 1) -> Mode]
    BY <1>7, <2>1
  <2> QED BY <1>7, <2>2, FunctionIsSeq
<1>9. PICK n \in Mode : n = M[2]
  <2>1. 2 \in 1..(k + 2)
    OBVIOUS
  <2> QED BY <1>4, <2>1
<1>10. Step(b, m, Head(s), n)
  <2>1. 1 \in 1..(k + 1) /\ 1 + 1 = 2
    OBVIOUS
  <2> QED BY <1>4, <1>6, <1>9, <2>1
<1>11. Leading(b, n, t, e, N)
  <2>1. N[1] = n /\ N[k + 1] = e
    <3>1. 1 \in 1..(k + 1) /\ k + 1 \in 1..(k + 1) /\ (k + 1) + 1 = k + 2
      OBVIOUS
    <3> QED BY <1>4, <1>8, <1>9, <3>1
  <2>2. ASSUME NEW i \in 1..k PROVE Step(b, N[i], t[i], N[i + 1])
    <3>1. i \in 1..(k + 1) /\ i + 1 \in 1..(k + 1)
      OBVIOUS
    <3> QED BY <1>4, <1>6, <1>8, <3>1
  <2> QED BY <1>6, <1>8, <2>1, <2>2 DEF Leading
<1>12. Path(b, n, t, e)
  BY <1>5, <1>8, <1>11 DEF Path, IsSeq
<1> QED BY <1>5, <1>10, <1>12

\* Tuples are concatenations, ...
LEMMA TwoThree ==
  ASSUME NEW A, NEW t \in A, NEW u \in A, NEW v \in A
  PROVE  /\ <<t, u>> \in Seq(A) /\ Len(<<t, u>>) = 2
         /\ <<t, u>>[1] = t /\ <<t, u>>[2] = u
         /\ <<t, u, v>> \in Seq(A) /\ Len(<<t, u, v>>) = 3
         /\ <<t, u, v>>[1] = t /\ <<t, u, v>>[2] = u /\ <<t, u, v>>[3] = v
OBVIOUS

LEMMA TuplesIn ==
  ASSUME NEW A, NEW t \in A, NEW u \in A, NEW v \in A
  PROVE  <<t>> \o <<u>> = <<t, u>> /\ <<t>> \o <<u, v>> = <<t, u, v>>
<1>1. PICK a : a = <<t>>
  OBVIOUS
<1>2. PICK c : c = <<u>>
  OBVIOUS
<1>3. PICK d : d = <<u, v>>
  OBVIOUS
<1>4. PICK e : e = <<t, u, v>>
  OBVIOUS
<1>5. PICK f : f = <<t, u>>
  OBVIOUS
<1>6. /\ a \in Seq(A) /\ Len(a) = 1 /\ a[1] = t
      /\ c \in Seq(A) /\ Len(c) = 1 /\ c[1] = u
  BY <1>1, <1>2, OneElement
<1>7. /\ d \in Seq(A) /\ Len(d) = 2 /\ d[1] = u /\ d[2] = v
      /\ e \in Seq(A) /\ Len(e) = 3 /\ e[1] = t /\ e[2] = u /\ e[3] = v
      /\ f \in Seq(A) /\ Len(f) = 2 /\ f[1] = t /\ f[2] = u
  BY <1>3, <1>4, <1>5, TwoThree
<1>8. a \o c = f
  <2>1. PICK s : s = a \o c
    OBVIOUS
  <2>2. /\ s \in Seq(A) /\ Len(s) = Len(a) + Len(c)
        /\ \A i \in 1..Len(a) : s[i] = a[i]
        /\ \A i \in 1..Len(c) : s[Len(a) + i] = c[i]
    <3>1. a \in Seq(A) /\ c \in Seq(A)
      BY <1>6
    <3> QED BY <2>1, <3>1, Parts
  <2>3. 1 \in 1..Len(a) /\ 1 \in 1..Len(c) /\ Len(a) + 1 = 2
    BY <1>6
  <2>4. Len(s) = 2 /\ s[1] = t /\ s[2] = u
    BY <1>6, <2>2, <2>3
  <2>5. Len(s) = Len(f) /\ \A i \in 1..Len(s) : s[i] = f[i]
    BY <1>7, <2>4
  <2> QED BY <1>7, <2>1, <2>2, <2>5, SeqEqual
<1>9. a \o d = e
  <2>1. PICK s : s = a \o d
    OBVIOUS
  <2>2. /\ s \in Seq(A) /\ Len(s) = Len(a) + Len(d)
        /\ \A i \in 1..Len(a) : s[i] = a[i]
        /\ \A i \in 1..Len(d) : s[Len(a) + i] = d[i]
    <3>1. a \in Seq(A) /\ d \in Seq(A)
      BY <1>6, <1>7
    <3> QED BY <2>1, <3>1, Parts
  <2>3. 1 \in 1..Len(a) /\ 1 \in 1..Len(d) /\ 2 \in 1..Len(d) /\ Len(a) + 1 = 2 /\ Len(a) + 2 = 3
    BY <1>6, <1>7
  <2>4. Len(s) = 3 /\ s[1] = t /\ s[2] = u /\ s[3] = v
    BY <1>6, <1>7, <2>2, <2>3
  <2>5. Len(s) = Len(e) /\ \A i \in 1..Len(s) : s[i] = e[i]
    BY <1>7, <2>4
  <2> QED BY <1>7, <2>1, <2>2, <2>5, SeqEqual
<1> QED BY <1>1, <1>2, <1>3, <1>4, <1>5, <1>8, <1>9

LEMMA Tuples ==
  ASSUME NEW t, NEW u, NEW v
  PROVE  <<t>> \o <<u>> = <<t, u>> /\ <<t>> \o <<u, v>> = <<t, u, v>>
<1>1. PICK A : t \in A /\ u \in A /\ v \in A
  <2>1. t \in {t, u, v} /\ u \in {t, u, v} /\ v \in {t, u, v}
    OBVIOUS
  <2> QED BY <2>1
<1> QED BY <1>1, TuplesIn

\* ... and so are their ways.
LEMMA Path2 ==
  ASSUME NEW b, NEW m \in Mode, NEW n \in Mode, NEW e \in Mode, NEW t, NEW u,
         Step(b, m, t, n), Step(b, n, u, e)
  PROVE  Path(b, m, <<t, u>>, e)
<1>1. Path(b, n, <<u>>, e)
  BY PathOne
<1>2. Path(b, m, <<t>> \o <<u>>, e)
  BY <1>1, PathCons
<1>3. <<t>> \o <<u>> = <<t, u>>
  BY Tuples
<1> QED BY <1>2, <1>3

LEMMA Path3 ==
  ASSUME NEW b, NEW m \in Mode, NEW n \in Mode, NEW o \in Mode, NEW e \in Mode, NEW t, NEW u, NEW v,
         Step(b, m, t, n), Step(b, n, u, o), Step(b, o, v, e)
  PROVE  Path(b, m, <<t, u, v>>, e)
<1>1. Path(b, n, <<u, v>>, e)
  BY Path2
<1>2. Path(b, m, <<t>> \o <<u, v>>, e)
  BY <1>1, PathCons
<1>3. <<t>> \o <<u, v>> = <<t, u, v>>
  BY Tuples
<1> QED BY <1>2, <1>3

\* Steps that lead nowhere.
LEMMA StaysStep ==
  ASSUME NEW b, NEW m, NEW t, Stays(b, m, t)
  PROVE  Step(b, m, t, m)
BY DEF Step, AToken

LEMMA PlainStep ==
  ASSUME NEW b, NEW m, Settled(b, m), NEW t \in Plain
  PROVE  Step(b, m, t, m)
BY StaysStep DEF Stays

\* What a body or a block hides.
LEMMA ExposedIs ==
  ASSUME NEW b \in BOOLEAN, NEW N \in Seq(Marks), NEW mark \in Marks
  PROVE  /\ ~Exposed(b, N) => ~Exposed(b, Append(N, mark))
         /\ mark = "named" \/ (b /\ mark = "block") => ~Exposed(b, Append(N, mark))
         /\ (\A i \in 1..Len(N) : N[i] # "named") /\ mark # "named" =>
              \A i \in 1..Len(Append(N, mark)) : Append(N, mark)[i] # "named"
         /\ ~b /\ (\A i \in 1..Len(N) : N[i] # "named") => Exposed(b, N)
<1>1. PICK A \in Seq(Marks) : A = Append(N, mark)
  BY AppendProperties
<1>2. PICK k \in Nat : k = Len(N)
  OBVIOUS
<1>3. Len(A) = k + 1 /\ A[k + 1] = mark /\ \A i \in 1..k : A[i] = N[i]
  BY <1>1, <1>2, AppendProperties
<1>4. k + 1 \in 1..(k + 1) /\ \A i \in 1..k : i \in 1..(k + 1)
  OBVIOUS
<1>5. ~Exposed(b, N) => ~Exposed(b, A)
  BY <1>2, <1>3, <1>4 DEF Exposed
<1>6. mark = "named" \/ (b /\ mark = "block") => ~Exposed(b, A)
  BY <1>3, <1>4 DEF Exposed
<1>7. (\A i \in 1..Len(N) : N[i] # "named") /\ mark # "named" => \A i \in 1..Len(A) : A[i] # "named"
  <2> SUFFICES ASSUME \A i \in 1..k : N[i] # "named", mark # "named", NEW i \in 1..(k + 1)
               PROVE  A[i] # "named"
    BY <1>2, <1>3
  <2>1. i \in 1..k \/ i = k + 1
    OBVIOUS
  <2> QED BY <1>3, <2>1
<1>8. ~b /\ (\A i \in 1..Len(N) : N[i] # "named") => Exposed(b, N)
  BY DEF Exposed
<1> QED BY <1>1, <1>5, <1>6, <1>7, <1>8

\* The mode inside of a block.
LEMMA EntersType ==
  ASSUME NEW m \in Mode, NEW where \in States, NEW level \in Nat, NEW mark \in Marks,
         NEW n, n = Enters(m, where, level, mark)
  PROVE  /\ n \in Mode /\ n.state = where /\ n.level = level
         /\ n.nesting = Append(m.nesting, mark) /\ n.buffer = m.buffer
         /\ n.nesting # <<>> /\ Front(n.nesting) = m.nesting
<1>1. m.nesting \in Seq(Marks)
  BY DEF Mode
<1>2. PICK N \in Seq(Marks) : N = Append(m.nesting, mark) /\ N # <<>> /\ Front(N) = m.nesting
  BY <1>1, FrontOfAppend
<1>3. n = [m EXCEPT !.state = where, !.level = level, !.nesting = N]
  BY <1>2 DEF Enters
<1> QED BY <1>2, <1>3 DEF Mode

\* The mode inside of a block in which the parser is not, or is only just.
LEMMA EntersFree ==
  ASSUME NEW m \in Mode, NEW mark \in Marks, NEW n
  PROVE  /\ n = Enters(m, "OUT", 0, mark) =>
              /\ n \in Mode /\ n.state = "OUT" /\ n.level = 0
              /\ n.nesting = Append(m.nesting, mark) /\ n.buffer = m.buffer
              /\ n.nesting # <<>> /\ Front(n.nesting) = m.nesting
         /\ n = Enters(m, "SKIPPING_BLOCK_NOSTRING", 1, mark) =>
              /\ n \in Mode /\ n.state = "SKIPPING_BLOCK_NOSTRING" /\ n.level = 1
              /\ n.nesting = Append(m.nesting, mark) /\ n.buffer = m.buffer
              /\ n.nesting # <<>> /\ Front(n.nesting) = m.nesting
<1>1. ASSUME NEW where \in States, NEW level \in Nat, n = Enters(m, where, level, mark)
      PROVE  /\ n \in Mode /\ n.state = where /\ n.level = level
             /\ n.nesting = Append(m.nesting, mark) /\ n.buffer = m.buffer
             /\ n.nesting # <<>> /\ Front(n.nesting) = m.nesting
  BY <1>1, EntersType
<1>2. PICK where \in States : where = "OUT"
  BY DEF States
<1>3. PICK there \in States : there = "SKIPPING_BLOCK_NOSTRING"
  BY DEF States
<1>4. PICK level \in Nat : level = 0
  OBVIOUS
<1>5. PICK one \in Nat : one = 1
  OBVIOUS
<1>6. ASSUME n = Enters(m, where, level, mark)
      PROVE  /\ n \in Mode /\ n.state = where /\ n.level = level
             /\ n.nesting = Append(m.nesting, mark) /\ n.buffer = m.buffer
             /\ n.nesting # <<>> /\ Front(n.nesting) = m.nesting
  BY <1>1, <1>6
<1>7. ASSUME n = Enters(m, there, one, mark)
      PROVE  /\ n \in Mode /\ n.state = there /\ n.level = one
             /\ n.nesting = Append(m.nesting, mark) /\ n.buffer = m.buffer
             /\ n.nesting # <<>> /\ Front(n.nesting) = m.nesting
  BY <1>1, <1>7
<1> QED BY <1>2, <1>3, <1>4, <1>5, <1>6, <1>7

\* A block in what the parser skips.
LEMMA SkippedBlock ==
  ASSUME NEW b \in BOOLEAN, NEW m \in Mode, Skipping(b, m),
         NEW mark \in {"named", "block"}, NEW part \in {"Statements", "Members", "Expression"},
         NEW t, t = Open(mark) \/ (t = CurlyOpen /\ mark = "block")
  PROVE  Path(b, m, <<t, Part(part), Close>>, m)
<1>1. PICK n : n = Enters(m, m.state, m.level + Counted(m), mark)
  OBVIOUS
<1>2. m.state \in States /\ m.level + Counted(m) \in Nat /\ mark \in Marks /\ m.level \in Nat
  BY DEF Mode, Skipping, States, Counted, Marks
<1>3. /\ n \in Mode /\ n.state = m.state /\ n.level = m.level + Counted(m)
      /\ n.nesting = Append(m.nesting, mark) /\ n.buffer = m.buffer
      /\ n.nesting # <<>> /\ Front(n.nesting) = m.nesting
  BY <1>1, <1>2, EntersType, SMTT(30)
<1>4. Skipping(b, n)
  <2>1. ~Exposed(b, n.nesting)
    BY <1>2, <1>3, ExposedIs DEF Skipping, Mode
  <2>2. n.level >= 1
    BY <1>2, <1>3 DEF Skipping, Counted
  <2> QED BY <1>3, <2>1, <2>2 DEF Skipping
<1>5. Step(b, m, t, n)
  <2>1. Enter(b, m, t, n)
    BY <1>1 DEF Enter
  <2> QED BY <2>1 DEF Step, AToken
<1>6. Step(b, n, Part(part), n)
  <2>1. Fitting(b, n, part)
    BY <1>4 DEF Fitting, Settled
  <2>2. APart(b, n, Part(part), n)
    BY <2>1 DEF APart
  <2> QED BY <2>2 DEF Step
<1>7. Step(b, n, Close, m)
  <2>1. Counted(n) = Counted(m)
    BY <1>3 DEF Counted
  <2>2. ~(Counted(n) = 1 /\ n.level = 1) /\ n.level - Counted(n) = m.level
    BY <1>2, <1>3, <2>1 DEF Skipping, Counted
  <2>3. m = [n EXCEPT !.state = n.state, !.level = n.level - Counted(n), !.nesting = Front(n.nesting)]
    BY <1>3, <2>2 DEF Mode
  <2>4. Leave(b, n, Close, m)
    BY <1>3, <1>4, <2>2, <2>3 DEF Leave, Settled
  <2> QED BY <2>4 DEF Step, AToken
<1> QED BY <1>3, <1>5, <1>6, <1>7, Path3

\* A block outside of that: skipped, if blocks are to be skipped.
LEMMA FreeBlock ==
  ASSUME NEW b \in BOOLEAN, NEW m \in Mode, Free(m)
  PROVE  Path(b, m, <<Open("block"), Part("Statements"), Close>>, m)
<1>0. "block" \in Marks /\ "OUT" \in States /\ "SKIPPING_BLOCK_NOSTRING" \in States
  BY DEF Marks, States
<1>1. CASE b
  <2>1. PICK n : n = Enters(m, "SKIPPING_BLOCK_NOSTRING", 1, "block")
    OBVIOUS
  <2>2. /\ n \in Mode /\ n.state = "SKIPPING_BLOCK_NOSTRING" /\ n.level = 1
        /\ n.nesting = Append(m.nesting, "block") /\ n.buffer = m.buffer
        /\ n.nesting # <<>> /\ Front(n.nesting) = m.nesting
    BY <1>0, <2>1, EntersFree
  <2>3. Skipping(b, n)
    <3>1. m.nesting \in Seq(Marks)
      BY DEF Mode
    <3>2. ~Exposed(b, Append(m.nesting, "block"))
      BY <1>0, <1>1, <3>1, ExposedIs
    <3>3. ~Exposed(b, n.nesting)
      BY <2>2, <3>2
    <3> QED BY <2>2, <3>3 DEF Skipping, Free
  <2>4. Step(b, m, Open("block"), n)
    BY <1>1, <2>1 DEF Step, AToken, EnterFree
  <2>5. Step(b, n, Part("Statements"), n)
    <3>1. APart(b, n, Part("Statements"), n)
      BY <2>3 DEF Fitting, APart
    <3> QED BY <3>1 DEF Step
  <2>6. Step(b, n, Close, m)
    <3>1. Counted(n) = 1 /\ n.level - Counted(n) = 0
      BY <2>2 DEF Counted
    <3>2. m = [n EXCEPT !.state = "OUT", !.level = n.level - Counted(n), !.nesting = Front(n.nesting)]
      BY <2>2, <3>1 DEF Mode, Free
    <3>3. Leave(b, n, Close, m)
      BY <2>2, <2>3, <3>1, <3>2 DEF Leave, Settled
    <3> QED BY <3>3 DEF Step, AToken
  <2> QED BY <2>2, <2>4, <2>5, <2>6, Path3
<1>2. CASE ~b
  <2>1. PICK n : n = Enters(m, "OUT", 0, "block")
    OBVIOUS
  <2>2. /\ n \in Mode /\ n.state = "OUT" /\ n.level = 0
        /\ n.nesting = Append(m.nesting, "block") /\ n.buffer = m.buffer
        /\ n.nesting # <<>> /\ Front(n.nesting) = m.nesting
    BY <1>0, <2>1, EntersFree
  <2>3. \A i \in 1..Len(n.nesting) : n.nesting[i] # "named"
    BY <1>0, <2>2, ExposedIs DEF Mode, Free
  <2>4. Free(n) /\ Exposed(b, n.nesting)
    <3>1. Exposed(b, n.nesting)
      BY <1>2, <2>3 DEF Exposed
    <3> QED BY <2>2, <2>3, <3>1 DEF Free
  <2>5. Step(b, m, Open("block"), n)
    BY <1>2, <2>1 DEF Step, AToken, EnterFree
  <2>6. Step(b, n, Part("Statements"), n)
    <3>1. APart(b, n, Part("Statements"), n)
      BY <2>4 DEF Fitting, APart
    <3> QED BY <3>1 DEF Step
  <2>7. Step(b, n, Close, m)
    <3>1. Counted(n) = 0 /\ n.level - Counted(n) = 0
      BY <2>2 DEF Counted
    <3>2. m = [n EXCEPT !.state = n.state, !.level = n.level - Counted(n), !.nesting = Front(n.nesting)]
      BY <2>2, <3>1 DEF Mode, Free
    <3>3. Leave(b, n, Close, m)
      BY <2>2, <2>4, <3>1, <3>2 DEF Leave, Settled
    <3> QED BY <3>3 DEF Step, AToken
  <2> QED BY <2>2, <2>5, <2>6, <2>7, Path3
<1> QED BY <1>1, <1>2

\* The parser does not count the brace of an interpolation there.
LEMMA FreeInterpolation ==
  ASSUME NEW b \in BOOLEAN, NEW m \in Mode, Free(m)
  PROVE  Path(b, m, <<CurlyOpen, Part("Expression"), Close>>, m)
<1>0. "block" \in Marks /\ "OUT" \in States
  BY DEF Marks, States
<1>1. PICK n : n = Enters(m, "OUT", 0, "block")
  OBVIOUS
<1>2. /\ n \in Mode /\ n.state = "OUT" /\ n.level = 0
      /\ n.nesting = Append(m.nesting, "block") /\ n.buffer = m.buffer
      /\ n.nesting # <<>> /\ Front(n.nesting) = m.nesting
  BY <1>0, <1>1, EntersFree
<1>3. Free(n)
  <2>1. \A i \in 1..Len(n.nesting) : n.nesting[i] # "named"
    BY <1>0, <1>2, ExposedIs DEF Mode, Free
  <2> QED BY <1>2, <2>1 DEF Free
<1>4. Step(b, m, CurlyOpen, n)
  BY <1>1 DEF Step, AToken, EnterFree
<1>5. Step(b, n, Part("Expression"), n)
  <2>1. APart(b, n, Part("Expression"), n)
    BY <1>3 DEF Fitting, APart, Settled
  <2> QED BY <2>1 DEF Step
<1>6. Step(b, n, Close, m)
  <2>1. Counted(n) = 0 /\ n.level - Counted(n) = 0
    BY <1>2 DEF Counted
  <2>2. m = [n EXCEPT !.state = n.state, !.level = n.level - Counted(n), !.nesting = Front(n.nesting)]
    BY <1>2, <2>1 DEF Mode, Free
  <2>3. Leave(b, n, Close, m)
    BY <1>2, <1>3, <2>1, <2>2 DEF Leave, Settled
  <2> QED BY <2>3 DEF Step, AToken
<1> QED BY <1>2, <1>4, <1>5, <1>6, Path3

\* The mode in the body of a function or class.
LEMMA BodyMode ==
  ASSUME NEW k \in Mode, NEW n, n = Enters(k, "SKIPPING_BLOCK_NOSTRING", 1, "named")
  PROVE  /\ n \in Mode /\ n.state = "SKIPPING_BLOCK_NOSTRING" /\ n.level = 1
         /\ n.nesting = Append(k.nesting, "named") /\ n.buffer = k.buffer
         /\ n.nesting # <<>> /\ Front(n.nesting) = k.nesting
<1>1. "named" \in Marks
  BY DEF Marks
<1> QED BY <1>1, EntersFree

\* The body of a function or class whose name has been read.
LEMMA NamedBody ==
  ASSUME NEW b \in BOOLEAN, NEW m \in Mode, Free(m), NEW part \in {"Statements", "Members"},
         NEW k \in Mode, k.state = "SKIPPING_BLOCK_NOSTRING", k.level = 0,
         k.nesting = m.nesting, k.buffer = m.buffer
  PROVE  Path(b, k, <<Open("named"), Part(part), Close>>, m)
<1>0. "named" \in Marks /\ "SKIPPING_BLOCK_NOSTRING" \in States
  BY DEF Marks, States
<1>1. PICK n : n = Enters(k, "SKIPPING_BLOCK_NOSTRING", 1, "named")
  OBVIOUS
<1>3. /\ n \in Mode /\ n.state = "SKIPPING_BLOCK_NOSTRING" /\ n.level = 1
      /\ n.nesting = Append(m.nesting, "named") /\ n.buffer = m.buffer
      /\ n.nesting # <<>> /\ Front(n.nesting) = m.nesting
  <2>1. /\ n \in Mode /\ n.state = "SKIPPING_BLOCK_NOSTRING" /\ n.level = 1
        /\ n.nesting = Append(k.nesting, "named") /\ n.buffer = k.buffer
        /\ n.nesting # <<>> /\ Front(n.nesting) = k.nesting
    BY <1>0, <1>1, BodyMode
  <2> QED BY <2>1
<1>4. Skipping(b, n)
  <2>1. ~Exposed(b, n.nesting)
    BY <1>0, <1>3, ExposedIs DEF Mode
  <2> QED BY <1>3, <2>1 DEF Skipping, Free
<1>5. Step(b, k, Open("named"), n)
  BY <1>1 DEF Step, AToken, Body
<1>6. Step(b, n, Part(part), n)
  <2>1. APart(b, n, Part(part), n)
    BY <1>4 DEF Fitting, APart
  <2> QED BY <2>1 DEF Step
<1>7. Step(b, n, Close, m)
  <2>1. Counted(n) = 1 /\ n.level - Counted(n) = 0
    BY <1>3 DEF Counted
  <2>2. m = [n EXCEPT !.state = "OUT", !.level = n.level - Counted(n), !.nesting = Front(n.nesting)]
    BY <1>3, <2>1 DEF Mode, Free
  <2>3. Leave(b, n, Close, m)
    BY <1>3, <1>4, <2>1, <2>2 DEF Leave, Settled
  <2> QED BY <2>3 DEF Step, AToken
<1> QED BY <1>3, <1>5, <1>6, <1>7, Path3

-----------------------------------------------------------------------------
\* The ways of the forms that a part can take.

\* Longer tuples, and their ways.
LEMMA LongerTuples ==
  ASSUME NEW A, NEW t \in A, NEW u \in A, NEW v \in A, NEW w \in A, NEW x \in A, NEW y \in A
  PROVE  /\ <<t, u, v, w>> \in Seq(A) /\ Len(<<t, u, v, w>>) = 4
         /\ <<t, u, v, w>>[1] = t /\ <<t, u, v, w>>[2] = u
         /\ <<t, u, v, w>>[3] = v /\ <<t, u, v, w>>[4] = w
         /\ <<t, u, v, w, x>> \in Seq(A) /\ Len(<<t, u, v, w, x>>) = 5
         /\ <<t, u, v, w, x>>[1] = t /\ <<t, u, v, w, x>>[2] = u
         /\ <<t, u, v, w, x>>[3] = v /\ <<t, u, v, w, x>>[4] = w /\ <<t, u, v, w, x>>[5] = x
         /\ <<t, u, v, w, x, y>> \in Seq(A) /\ Len(<<t, u, v, w, x, y>>) = 6
         /\ <<t, u, v, w, x, y>>[1] = t /\ <<t, u, v, w, x, y>>[2] = u
         /\ <<t, u, v, w, x, y>>[3] = v /\ <<t, u, v, w, x, y>>[4] = w
         /\ <<t, u, v, w, x, y>>[5] = x /\ <<t, u, v, w, x, y>>[6] = y
OBVIOUS

LEMMA Four ==
  ASSUME NEW A, NEW t \in A, NEW u \in A, NEW v \in A, NEW w \in A
  PROVE  <<t, u>> \o <<v, w>> = <<t, u, v, w>>
<1>1. PICK a : a = <<t, u>>
  OBVIOUS
<1>2. PICK c : c = <<v, w>>
  OBVIOUS
<1>3. PICK f : f = <<t, u, v, w>>
  OBVIOUS
<1>4. a \in Seq(A) /\ Len(a) = 2 /\ a[1] = t /\ a[2] = u
  BY <1>1, TwoThree
<1>5. c \in Seq(A) /\ Len(c) = 2 /\ c[1] = v /\ c[2] = w
  BY <1>2, TwoThree
<1>6. /\ f \in Seq(A) /\ Len(f) = 4
      /\ f[1] = t /\ f[2] = u /\ f[3] = v /\ f[4] = w
  BY <1>3, LongerTuples
<1>7. PICK s : s = a \o c
  OBVIOUS
<1>8. a \in Seq(A) /\ c \in Seq(A) /\ f \in Seq(A)
  BY <1>4, <1>5, <1>6
<1>9. /\ s \in Seq(A) /\ Len(s) = Len(a) + Len(c)
      /\ \A i \in 1..Len(a) : s[i] = a[i]
      /\ \A i \in 1..Len(c) : s[Len(a) + i] = c[i]
  BY <1>7, <1>8, Parts
<1>10. /\ 1 \in 1..Len(a) /\ 2 \in 1..Len(a)
       /\ 1 \in 1..Len(c) /\ 2 \in 1..Len(c)
       /\ Len(a) + 1 = 3 /\ Len(a) + 2 = 4
  BY <1>4, <1>5
<1>11. Len(s) = 4 /\ s[1] = t /\ s[2] = u /\ s[3] = v /\ s[4] = w
  BY <1>4, <1>5, <1>9, <1>10
<1>12. Len(s) = Len(f) /\ \A i \in 1..Len(s) : s[i] = f[i]
  BY <1>6, <1>11
<1> QED BY <1>1, <1>2, <1>3, <1>7, <1>8, <1>9, <1>12, SeqEqual, ZenonT(30)

LEMMA Five ==
  ASSUME NEW A, NEW t \in A, NEW u \in A, NEW v \in A, NEW w \in A, NEW x \in A
  PROVE  <<t, u>> \o <<v, w, x>> = <<t, u, v, w, x>>
<1>1. PICK a : a = <<t, u>>
  OBVIOUS
<1>2. PICK c : c = <<v, w, x>>
  OBVIOUS
<1>3. PICK f : f = <<t, u, v, w, x>>
  OBVIOUS
<1>4. a \in Seq(A) /\ Len(a) = 2 /\ a[1] = t /\ a[2] = u
  BY <1>1, TwoThree
<1>5. c \in Seq(A) /\ Len(c) = 3 /\ c[1] = v /\ c[2] = w /\ c[3] = x
  BY <1>2, TwoThree
<1>6. /\ f \in Seq(A) /\ Len(f) = 5
      /\ f[1] = t /\ f[2] = u /\ f[3] = v /\ f[4] = w /\ f[5] = x
  BY <1>3, LongerTuples
<1>7. PICK s : s = a \o c
  OBVIOUS
<1>8. a \in Seq(A) /\ c \in Seq(A) /\ f \in Seq(A)
  BY <1>4, <1>5, <1>6
<1>9. /\ s \in Seq(A) /\ Len(s) = Len(a) + Len(c)
      /\ \A i \in 1..Len(a) : s[i] = a[i]
      /\ \A i \in 1..Len(c) : s[Len(a) + i] = c[i]
  BY <1>7, <1>8, Parts
<1>10. /\ 1 \in 1..Len(a) /\ 2 \in 1..Len(a)
       /\ 1 \in 1..Len(c) /\ 2 \in 1..Len(c) /\ 3 \in 1..Len(c)
       /\ Len(a) + 1 = 3 /\ Len(a) + 2 = 4 /\ Len(a) + 3 = 5
  BY <1>4, <1>5
<1>11. Len(s) = 5 /\ s[1] = t /\ s[2] = u /\ s[3] = v /\ s[4] = w /\ s[5] = x
  BY <1>4, <1>5, <1>9, <1>10
<1>12. Len(s) = Len(f) /\ \A i \in 1..Len(s) : s[i] = f[i]
  BY <1>6, <1>11
<1> QED BY <1>1, <1>2, <1>3, <1>7, <1>8, <1>9, <1>12, SeqEqual, ZenonT(30)

LEMMA Six ==
  ASSUME NEW A, NEW t \in A, NEW u \in A, NEW v \in A, NEW w \in A, NEW x \in A, NEW y \in A
  PROVE  <<t, u, v>> \o <<w, x, y>> = <<t, u, v, w, x, y>>
<1>1. PICK a : a = <<t, u, v>>
  OBVIOUS
<1>2. PICK c : c = <<w, x, y>>
  OBVIOUS
<1>3. PICK f : f = <<t, u, v, w, x, y>>
  OBVIOUS
<1>4. a \in Seq(A) /\ Len(a) = 3 /\ a[1] = t /\ a[2] = u /\ a[3] = v
  BY <1>1, TwoThree
<1>5. c \in Seq(A) /\ Len(c) = 3 /\ c[1] = w /\ c[2] = x /\ c[3] = y
  BY <1>2, TwoThree
<1>6. /\ f \in Seq(A) /\ Len(f) = 6
      /\ f[1] = t /\ f[2] = u /\ f[3] = v /\ f[4] = w /\ f[5] = x /\ f[6] = y
  BY <1>3, LongerTuples
<1>7. PICK s : s = a \o c
  OBVIOUS
<1>8. a \in Seq(A) /\ c \in Seq(A) /\ f \in Seq(A)
  BY <1>4, <1>5, <1>6
<1>9. /\ s \in Seq(A) /\ Len(s) = Len(a) + Len(c)
      /\ \A i \in 1..Len(a) : s[i] = a[i]
      /\ \A i \in 1..Len(c) : s[Len(a) + i] = c[i]
  BY <1>7, <1>8, Parts
<1>10. /\ 1 \in 1..Len(a) /\ 2 \in 1..Len(a) /\ 3 \in 1..Len(a)
       /\ 1 \in 1..Len(c) /\ 2 \in 1..Len(c) /\ 3 \in 1..Len(c)
       /\ Len(a) + 1 = 4 /\ Len(a) + 2 = 5 /\ Len(a) + 3 = 6
  BY <1>4, <1>5
<1>11. Len(s) = 6 /\ s[1] = t /\ s[2] = u /\ s[3] = v /\ s[4] = w /\ s[5] = x /\ s[6] = y
  BY <1>4, <1>5, <1>9, <1>10
<1>12. Len(s) = Len(f) /\ \A i \in 1..Len(s) : s[i] = f[i]
  BY <1>6, <1>11
<1> QED BY <1>1, <1>2, <1>3, <1>7, <1>8, <1>9, <1>12, SeqEqual

LEMMA Path4 ==
  ASSUME NEW b, NEW m \in Mode, NEW n, NEW e, NEW t, NEW u, NEW v, NEW w,
         Path(b, m, <<t, u>>, n), Path(b, n, <<v, w>>, e)
  PROVE  Path(b, m, <<t, u, v, w>>, e)
<1>1. PICK A : t \in A /\ u \in A /\ v \in A /\ w \in A
  <2> DEFINE All == {t, u, v, w}
  <2>1. t \in All /\ u \in All /\ v \in All /\ w \in All
    OBVIOUS
  <2> HIDE DEF All
  <2> QED BY <2>1
<1>2. <<t, u>> \o <<v, w>> = <<t, u, v, w>>
  BY <1>1, Four
<1>3. Path(b, m, <<t, u>> \o <<v, w>>, e)
  BY PathJoin
<1> QED BY <1>2, <1>3

LEMMA Path5 ==
  ASSUME NEW b, NEW m \in Mode, NEW n, NEW e, NEW t, NEW u, NEW v, NEW w, NEW x,
         Path(b, m, <<t, u>>, n), Path(b, n, <<v, w, x>>, e)
  PROVE  Path(b, m, <<t, u, v, w, x>>, e)
<1>1. PICK A : t \in A /\ u \in A /\ v \in A /\ w \in A /\ x \in A
  <2> DEFINE All == {t, u, v, w, x}
  <2>1. t \in All /\ u \in All /\ v \in All /\ w \in All /\ x \in All
    OBVIOUS
  <2> HIDE DEF All
  <2> QED BY <2>1
<1>2. <<t, u>> \o <<v, w, x>> = <<t, u, v, w, x>>
  BY <1>1, Five
<1>3. Path(b, m, <<t, u>> \o <<v, w, x>>, e)
  BY PathJoin
<1> QED BY <1>2, <1>3

LEMMA Path6 ==
  ASSUME NEW b, NEW m \in Mode, NEW n, NEW e, NEW t, NEW u, NEW v, NEW w, NEW x, NEW y,
         Path(b, m, <<t, u, v>>, n), Path(b, n, <<w, x, y>>, e)
  PROVE  Path(b, m, <<t, u, v, w, x, y>>, e)
<1>1. PICK A : t \in A /\ u \in A /\ v \in A /\ w \in A /\ x \in A /\ y \in A
  <2> DEFINE All == {t, u, v, w, x, y}
  <2>1. t \in All /\ u \in All /\ v \in All /\ w \in All /\ x \in All /\ y \in All
    OBVIOUS
  <2> HIDE DEF All
  <2> QED BY <2>1
<1>2. <<t, u, v>> \o <<w, x, y>> = <<t, u, v, w, x, y>>
  BY <1>1, Six
<1>3. Path(b, m, <<t, u, v>> \o <<w, x, y>>, e)
  BY PathJoin
<1> QED BY <1>2, <1>3

\* In a body or a block that is skipped, nothing counts but braces and quotes.
LEMMA SkippedStep ==
  ASSUME NEW b, NEW m, Skipping(b, m), NEW t \in Plain \cup Inner
  PROVE  Step(b, m, t, m)
<1>1. t \in Plain \/ t \in Inner
  OBVIOUS
<1>2. Stays(b, m, t)
  BY <1>1 DEF Stays, Settled
<1> QED BY <1>2, StaysStep

LEMMA SkippedFunction ==
  ASSUME NEW b \in BOOLEAN, NEW m \in Mode, Skipping(b, m), NEW name \in Names,
         NEW ref, Path(b, m, ref, m)
  PROVE  Path(b, m, Function(name, "F", ref), m)
<1>1. Path(b, m, <<Word("T_FUNCTION")>>, m)
  <2>1. Word("T_FUNCTION") \in Inner
    BY DEF Inner
  <2> QED BY <2>1, SkippedStep, PathOne
<1>2. Path(b, m, <<Identifier(name, "F"), Char("("), Char(")")>>, m)
  <2>1. Identifier(name, "F") \in Inner /\ Char("(") \in Plain /\ Char(")") \in Plain
    BY DEF Inner, Plain
  <2>2. Step(b, m, Identifier(name, "F"), m) /\ Step(b, m, Char("("), m) /\ Step(b, m, Char(")"), m)
    BY <2>1, SkippedStep
  <2> QED BY <2>2, Path3
<1>3. Path(b, m, <<Open("named"), Part("Statements"), Close>>, m)
  BY SkippedBlock
<1>4. Path(b, m, <<Word("T_FUNCTION")>> \o ref, m)
  BY <1>1, PathJoin
<1>6. Path(b, m, <<Identifier(name, "F"), Char("("), Char(")"), Open("named"), Part("Statements"), Close>>, m)
  BY <1>2, <1>3, Path6
<1>7. Path(b, m, (<<Word("T_FUNCTION")>> \o ref) \o
         <<Identifier(name, "F"), Char("("), Char(")"), Open("named"), Part("Statements"), Close>>, m)
  BY <1>4, <1>6, PathJoin
<1> QED BY <1>7 DEF Function

\* The "&" of a function that returns a reference, or nothing much.
RefsOf == {<<>>, <<Word("T_WHITESPACE")>>, <<Word("T_COMMENT"), Char("&")>>}

\* "function &f", and a space or comment after "function".
LEMMA RefPath ==
  ASSUME NEW b, NEW m \in Mode, m.state = "FUNCTION_FOUND" \/ Skipping(b, m), NEW ref \in RefsOf
  PROVE  Path(b, m, ref, m)
<1>1. Step(b, m, Word("T_WHITESPACE"), m) /\ Step(b, m, Word("T_COMMENT"), m) /\ Step(b, m, Char("&"), m)
  <2>1. Word("T_WHITESPACE") \in Plain /\ Word("T_COMMENT") \in Plain /\ Char("&") \in Plain
    BY DEF Plain
  <2>2. CASE m.state = "FUNCTION_FOUND"
    BY <2>2, StaysStep DEF Stays
  <2>3. CASE Skipping(b, m)
    BY <2>1, <2>3, SkippedStep
  <2> QED BY <2>2, <2>3
<1>2. CASE ref = <<>>
  BY <1>2, PathEmpty
<1>3. CASE ref = <<Word("T_WHITESPACE")>>
  BY <1>1, <1>3, PathOne
<1>4. CASE ref = <<Word("T_COMMENT"), Char("&")>>
  BY <1>1, <1>4, Path2
<1> QED BY <1>2, <1>3, <1>4 DEF RefsOf

\* A function whose name counts.
LEMMA FreeFunction ==
  ASSUME NEW b \in BOOLEAN, NEW m \in Mode, Free(m), Exposed(b, m.nesting), NEW name \in Names,
         NEW ref \in RefsOf
  PROVE  Path(b, m, Function(name, "F", ref), m)
<1>1. PICK k \in Mode : k = [m EXCEPT !.state = "FUNCTION_FOUND"]
  BY DEF Mode, States
<1>2. PICK l \in Mode : l = [k EXCEPT !.state = "SKIPPING_BLOCK_NOSTRING", !.level = 0]
  BY DEF Mode, States
<1>3. k.state = "FUNCTION_FOUND" /\ k.nesting = m.nesting /\ k.buffer = m.buffer
  BY <1>1 DEF Mode
<1>4. l.state = "SKIPPING_BLOCK_NOSTRING" /\ l.level = 0 /\ l.nesting = m.nesting /\ l.buffer = m.buffer
  BY <1>2, <1>3 DEF Mode
<1>5. Path(b, m, <<Word("T_FUNCTION")>>, k)
  <2>1. Keyword(b, m, Word("T_FUNCTION"), k)
    BY <1>1 DEF Keyword, Found
  <2> QED BY <2>1, PathOne DEF Step, AToken
<1>6. Path(b, k, ref, k)
  BY <1>3, RefPath
<1>7. Path(b, k, <<Identifier(name, "F"), Char("("), Char(")")>>, l)
  <2>1. HasName(b, k, Identifier(name, "F"), l)
    BY <1>2, <1>3 DEF HasName, Declaring, Free
  <2>2. Stays(b, l, Char("(")) /\ Stays(b, l, Char(")"))
    BY <1>4 DEF Stays
  <2>3. Step(b, k, Identifier(name, "F"), l) /\ Step(b, l, Char("("), l) /\ Step(b, l, Char(")"), l)
    BY <2>1, <2>2 DEF Step, AToken
  <2> QED BY <2>3, Path3
<1>8. Path(b, l, <<Open("named"), Part("Statements"), Close>>, m)
  BY <1>4, NamedBody
<1>9. Path(b, m, <<Word("T_FUNCTION")>> \o ref, k)
  BY <1>5, <1>6, PathJoin
<1>10. Path(b, k, <<Identifier(name, "F"), Char("("), Char(")"), Open("named"), Part("Statements"), Close>>, m)
  BY <1>7, <1>8, Path6
<1>11. Path(b, m, (<<Word("T_FUNCTION")>> \o ref) \o
         <<Identifier(name, "F"), Char("("), Char(")"), Open("named"), Part("Statements"), Close>>, m)
  BY <1>9, <1>10, PathJoin
<1> QED BY <1>11 DEF Function

\* A class, a constant and a call of define(), wherever they are.
LEMMA ClassPath ==
  ASSUME NEW b \in BOOLEAN, NEW m \in Mode, NEW name \in Names,
         Skipping(b, m) \/ (Free(m) /\ Exposed(b, m.nesting))
  PROVE  Path(b, m, Class(name), m)
<1>1. CASE Skipping(b, m)
  <2>1. Path(b, m, <<Word("T_CLASS"), Identifier(name, "L")>>, m)
    <3>1. Word("T_CLASS") \in Inner /\ Identifier(name, "L") \in Inner
      BY DEF Inner
    <3>2. Step(b, m, Word("T_CLASS"), m) /\ Step(b, m, Identifier(name, "L"), m)
      BY <1>1, <3>1, SkippedStep
    <3> QED BY <3>2, Path2
  <2>2. Path(b, m, <<Open("named"), Part("Members"), Close>>, m)
    BY <1>1, SkippedBlock
  <2> QED BY <2>1, <2>2, Path5 DEF Class
<1>2. CASE Free(m) /\ Exposed(b, m.nesting)
  <2>1. PICK k \in Mode : k = [m EXCEPT !.state = "CLASS_FOUND"]
    BY DEF Mode, States
  <2>2. PICK l \in Mode : l = [k EXCEPT !.state = "SKIPPING_BLOCK_NOSTRING", !.level = 0]
    BY DEF Mode, States
  <2>3. k.state = "CLASS_FOUND" /\ k.nesting = m.nesting /\ k.buffer = m.buffer
    BY <2>1 DEF Mode
  <2>4. l.state = "SKIPPING_BLOCK_NOSTRING" /\ l.level = 0 /\ l.nesting = m.nesting /\ l.buffer = m.buffer
    BY <2>2, <2>3 DEF Mode
  <2>5. Path(b, m, <<Word("T_CLASS"), Identifier(name, "L")>>, l)
    <3>1. Keyword(b, m, Word("T_CLASS"), k)
      BY <1>2, <2>1 DEF Keyword, Found
    <3>2. HasName(b, k, Identifier(name, "L"), l)
      BY <1>2, <2>2, <2>3 DEF HasName, Declaring, Free
    <3>3. Step(b, m, Word("T_CLASS"), k) /\ Step(b, k, Identifier(name, "L"), l)
      BY <3>1, <3>2 DEF Step, AToken
    <3> QED BY <3>3, Path2
  <2>6. Path(b, l, <<Open("named"), Part("Members"), Close>>, m)
    BY <1>2, <2>4, NamedBody
  <2> QED BY <2>5, <2>6, Path5 DEF Class
<1> QED BY <1>1, <1>2

LEMMA ConstPath ==
  ASSUME NEW b \in BOOLEAN, NEW m \in Mode, NEW name \in Names,
         Skipping(b, m) \/ (Free(m) /\ Exposed(b, m.nesting))
  PROVE  Path(b, m, Const(name, "C"), m)
<1>0. Settled(b, m)
  BY DEF Settled
<1>3. Path(b, m, <<Word("T_LNUMBER"), Char(Semicolon)>>, m)
  <2>1. Word("T_LNUMBER") \in Plain /\ Char(Semicolon) \in Plain
    BY DEF Plain
  <2>2. Step(b, m, Word("T_LNUMBER"), m) /\ Step(b, m, Char(Semicolon), m)
    BY <1>0, <2>1, PlainStep
  <2> QED BY <2>2, Path2
<1>1. CASE Skipping(b, m)
  <2>1. Path(b, m, <<Word("T_CONST"), Identifier(name, "C")>>, m)
    <3>1. Word("T_CONST") \in Inner /\ Identifier(name, "C") \in Inner
      BY DEF Inner
    <3>2. Step(b, m, Word("T_CONST"), m) /\ Step(b, m, Identifier(name, "C"), m)
      BY <1>1, <3>1, SkippedStep
    <3> QED BY <3>2, Path2
  <2> QED BY <1>3, <2>1, Path4 DEF Const
<1>2. CASE Free(m) /\ Exposed(b, m.nesting)
  <2>1. PICK k \in Mode : k = [m EXCEPT !.state = "CONST_FOUND"]
    BY DEF Mode, States
  <2>2. k.state = "CONST_FOUND" /\ k.nesting = m.nesting /\ k.buffer = m.buffer
    BY <2>1 DEF Mode
  <2>3. m = [k EXCEPT !.state = "OUT"]
    BY <1>2, <2>1 DEF Mode, Free
  <2>4. Path(b, m, <<Word("T_CONST"), Identifier(name, "C")>>, m)
    <3>1. Keyword(b, m, Word("T_CONST"), k)
      BY <1>2, <2>1 DEF Keyword, Found
    <3>2. ConstName(b, k, Identifier(name, "C"), m)
      BY <1>2, <2>2, <2>3 DEF ConstName, Declaring, Free
    <3>3. Step(b, m, Word("T_CONST"), k) /\ Step(b, k, Identifier(name, "C"), m)
      BY <3>1, <3>2 DEF Step, AToken
    <3> QED BY <3>3, Path2
  <2> QED BY <1>3, <2>4, Path4 DEF Const
<1> QED BY <1>1, <1>2

LEMMA DefinePath ==
  ASSUME NEW b \in BOOLEAN, NEW m \in Mode, NEW name \in Names,
         Skipping(b, m) \/ (Free(m) /\ Exposed(b, m.nesting))
  PROVE  Path(b, m, Define(name), m)
<1>1. CASE Skipping(b, m)
  <2>1. Identifier(<<"define">>, NULL) \in Inner /\ Char("(") \in Plain /\ Encapsed(name) \in Inner
    BY DEF Inner, Plain
  <2>2. Word("T_LNUMBER") \in Plain /\ Char(")") \in Plain /\ Char(Semicolon) \in Plain
    BY DEF Plain
  <2>3. /\ Step(b, m, Identifier(<<"define">>, NULL), m) /\ Step(b, m, Char("("), m)
        /\ Step(b, m, Encapsed(name), m)
    BY <1>1, <2>1, SkippedStep
  <2>4. Step(b, m, Word("T_LNUMBER"), m) /\ Step(b, m, Char(")"), m) /\ Step(b, m, Char(Semicolon), m)
    BY <1>1, <2>2, SkippedStep
  <2>5. Path(b, m, <<Identifier(<<"define">>, NULL), Char("("), Encapsed(name)>>, m)
    BY <2>3, Path3
  <2>6. Path(b, m, <<Word("T_LNUMBER"), Char(")"), Char(Semicolon)>>, m)
    BY <2>4, Path3
  <2> QED BY <2>5, <2>6, Path6 DEF Define, Encapsed
<1>2. CASE Free(m) /\ Exposed(b, m.nesting)
  <2>1. PICK k \in Mode : k = [m EXCEPT !.state = "DEFINE_FOUND"]
    BY DEF Mode, States
  <2>2. PICK l \in Mode : l = [k EXCEPT !.state = "DEFINE_2"]
    BY DEF Mode, States
  <2>3. PICK n \in Mode : n = [l EXCEPT !.state = "SKIPPING_TO_EOL"]
    BY DEF Mode, States
  <2>4. k.state = "DEFINE_FOUND" /\ l.state = "DEFINE_2" /\ n.state = "SKIPPING_TO_EOL"
    BY <2>1, <2>2, <2>3 DEF Mode
  <2>5. l.nesting = m.nesting /\ m = [n EXCEPT !.state = "OUT"]
    BY <1>2, <2>1, <2>2, <2>3 DEF Mode, Free
  <2>6. Path(b, m, <<Identifier(<<"define">>, NULL), Char("("), Encapsed(name)>>, n)
    <3>1. DefineWord(b, m, Identifier(<<"define">>, NULL), k)
      BY <1>2, <2>1 DEF DefineWord
    <3>2. DefineParen(b, k, Char("("), l)
      BY <2>2, <2>4 DEF DefineParen
    <3>3. DefineName(b, l, Encapsed(name), n)
      BY <1>2, <2>3, <2>4, <2>5 DEF DefineName
    <3>4. /\ Step(b, m, Identifier(<<"define">>, NULL), k) /\ Step(b, k, Char("("), l)
          /\ Step(b, l, Encapsed(name), n)
      BY <3>1, <3>2, <3>3 DEF Step, AToken
    <3> QED BY <3>4, Path3
  <2>7. Path(b, n, <<Word("T_LNUMBER"), Char(")"), Char(Semicolon)>>, m)
    <3>1. Stays(b, n, Word("T_LNUMBER")) /\ Stays(b, n, Char(")"))
      BY <2>4 DEF Stays
    <3>2. DefineEnd(b, n, Char(Semicolon), m)
      BY <2>4, <2>5 DEF DefineEnd
    <3>3. /\ Step(b, n, Word("T_LNUMBER"), n) /\ Step(b, n, Char(")"), n)
          /\ Step(b, n, Char(Semicolon), m)
      BY <3>1, <3>2 DEF Step, AToken
    <3> QED BY <3>3, Path3
  <2> QED BY <2>6, <2>7, Path6 DEF Define, Encapsed
<1> QED BY <1>1, <1>2

\* A block with what is in it.
LEMMA BlockPath ==
  ASSUME NEW b \in BOOLEAN, NEW m \in Mode, Settled(b, m)
  PROVE  /\ Path(b, m, Block("block", "Statements"), m)
         /\ Path(b, m, Interpolation, m)
<1>1. CASE Skipping(b, m)
  <2>1. Path(b, m, <<Open("block"), Part("Statements"), Close>>, m)
    BY <1>1, SkippedBlock
  <2>2. Path(b, m, <<CurlyOpen, Part("Expression"), Close>>, m)
    BY <1>1, SkippedBlock
  <2> QED BY <2>1, <2>2 DEF Block, Interpolation, CurlyOpen
<1>2. CASE Free(m)
  BY <1>2, FreeBlock, FreeInterpolation DEF Block, Interpolation, CurlyOpen
<1> QED BY <1>1, <1>2 DEF Settled

LEMMA ClosurePath ==
  ASSUME NEW b \in BOOLEAN, NEW m \in Mode, Settled(b, m)
  PROVE  Path(b, m, Closure, m)
<1>1. Path(b, m, <<Word("T_FUNCTION"), Char("("), Char(")")>>, m)
  <2>1. Char("(") \in Plain /\ Char(")") \in Plain /\ Word("T_FUNCTION") \in Inner
    BY DEF Plain, Inner
  <2>2. CASE Skipping(b, m)
    <3>1. Step(b, m, Word("T_FUNCTION"), m) /\ Step(b, m, Char("("), m) /\ Step(b, m, Char(")"), m)
      BY <2>1, <2>2, SkippedStep
    <3> QED BY <3>1, Path3
  <2>3. CASE Free(m)
    <3>1. PICK k \in Mode : k = [m EXCEPT !.state = "FUNCTION_FOUND"]
      BY DEF Mode, States
    <3>2. k.state = "FUNCTION_FOUND" /\ m = [k EXCEPT !.state = "OUT"]
      BY <2>3, <3>1 DEF Mode, Free
    <3>3. Keyword(b, m, Word("T_FUNCTION"), k)
      BY <2>3, <3>1 DEF Keyword, Found
    <3>4. HasNoName(b, k, Char("("), m)
      BY <3>2 DEF HasNoName
    <3>5. Step(b, m, Word("T_FUNCTION"), k) /\ Step(b, k, Char("("), m)
      BY <3>3, <3>4 DEF Step, AToken
    <3>6. Step(b, m, Char(")"), m)
      BY <2>1, PlainStep
    <3> QED BY <3>5, <3>6, Path3
  <2> QED BY <2>2, <2>3 DEF Settled
<1>2. Path(b, m, Block("block", "Statements"), m)
  BY BlockPath
<1> QED BY <1>1, <1>2, PathJoin DEF Closure

\* A part leaves the mode as it is.
LEMMA PartStep ==
  ASSUME NEW b, NEW m, NEW part \in {"Statements", "Statement", "Members", "Expression", "Text"},
         Fitting(b, m, part)
  PROVE  Step(b, m, Part(part), m)
BY DEF Step, APart

\* Between two quotes the parser, if it skips, takes a string for code and code for a string.
LEMMA QuotedPath ==
  ASSUME NEW b \in BOOLEAN, NEW m \in Mode, Settled(b, m)
  PROVE  Path(b, m, Quoted, m)
<1>1. CASE Free(m)
  <2>1. Step(b, m, Char(DoubleQuote), m)
    BY <1>1, StaysStep DEF Stays
  <2>2. Step(b, m, Part("Text"), m)
    BY PartStep DEF Fitting
  <2> QED BY <2>1, <2>2, Path3 DEF Quoted
<1>2. CASE Skipping(b, m)
  <2>1. PICK q : q = IF Counted(m) = 1 THEN "SKIPPING_BLOCK_STRING" ELSE "SKIPPING_BLOCK_NOSTRING"
    OBVIOUS
  <2>2. PICK k \in Mode : k = [m EXCEPT !.state = q]
    BY <2>1 DEF Mode, States
  <2>3. k.state = q /\ k.level = m.level /\ k.nesting = m.nesting /\ k.buffer = m.buffer
    BY <2>2 DEF Mode
  <2>4. Skipping(b, k)
    BY <1>2, <2>1, <2>3 DEF Skipping
  <2>5. m.state = IF Counted(k) = 1 THEN "SKIPPING_BLOCK_STRING" ELSE "SKIPPING_BLOCK_NOSTRING"
    BY <1>2, <2>1, <2>3 DEF Skipping, Counted
  <2>6. m = [k EXCEPT !.state = m.state]
    BY <2>2, <2>3 DEF Mode
  <2>7. Quote(b, m, Char(DoubleQuote), k)
    BY <1>2, <2>1, <2>2 DEF Quote
  <2>8. Quote(b, k, Char(DoubleQuote), m)
    BY <2>4, <2>5, <2>6 DEF Quote
  <2>9. Step(b, m, Char(DoubleQuote), k) /\ Step(b, k, Char(DoubleQuote), m)
    BY <2>7, <2>8 DEF Step, AToken
  <2>10. Step(b, k, Part("Text"), k)
    BY <2>4, PartStep DEF Fitting, Settled
  <2> QED BY <2>9, <2>10, Path3 DEF Quoted
<1> QED BY <1>1, <1>2 DEF Settled

\* A heredoc.
LEMMA HeredocPath ==
  ASSUME NEW b \in BOOLEAN, NEW m \in Mode, Settled(b, m)
  PROVE  Path(b, m, Heredoc, m)
<1>1. Word("T_START_HEREDOC") \in Plain /\ Word("T_END_HEREDOC") \in Plain
  BY DEF Plain
<1>2. Step(b, m, Word("T_START_HEREDOC"), m) /\ Step(b, m, Word("T_END_HEREDOC"), m)
  BY <1>1, PlainStep
<1>3. Step(b, m, Part("Text"), m)
  BY PartStep DEF Fitting
<1> QED BY <1>2, <1>3, Path3 DEF Heredoc

\* The forms of a part lead where the part does.
LEMMA StatementForms ==
  ASSUME NEW b \in BOOLEAN, NEW m \in Mode, Fitting(b, m, "Statement"),
         NEW form \in Longer("Statement") \cup {Shortest("Statement")}
  PROVE  Path(b, m, form, m)
<1>1. Skipping(b, m) \/ (Free(m) /\ Exposed(b, m.nesting))
  BY DEF Fitting
<1>2. Settled(b, m)
  BY <1>1 DEF Settled
<1>3. CASE form = <<Part("Expression"), Char(Semicolon)>>
  <2>1. Step(b, m, Part("Expression"), m)
    BY <1>2, PartStep DEF Fitting
  <2>2. Char(Semicolon) \in Plain
    BY DEF Plain
  <2>3. Step(b, m, Char(Semicolon), m)
    BY <1>2, <2>2, PlainStep
  <2> QED BY <1>3, <2>1, <2>3, Path2
<1>4. CASE form = <<Word("T_IF")>> \o Block("block", "Statements")
  <2>1. Word("T_IF") \in Plain
    BY DEF Plain
  <2>2. Path(b, m, <<Word("T_IF")>>, m)
    BY <1>2, <2>1, PlainStep, PathOne
  <2>3. Path(b, m, Block("block", "Statements"), m)
    BY <1>2, BlockPath
  <2> QED BY <1>4, <2>2, <2>3, PathJoin
<1>5. ASSUME NEW name \in Names, NEW ref \in RefsOf, form = Function(name, "F", ref)
      PROVE  Path(b, m, form, m)
  <2>1. CASE Skipping(b, m)
    <3>1. Path(b, m, ref, m)
      BY <2>1, RefPath
    <3> QED BY <1>5, <2>1, <3>1, SkippedFunction
  <2> QED BY <1>1, <1>5, <2>1, FreeFunction
<1>6. ASSUME NEW name \in Names, form = Class(name) \/ form = Define(name)
      PROVE  Path(b, m, form, m)
  BY <1>1, <1>6, ClassPath, DefinePath
<1>7. CASE form = <<>>
  BY <1>7, PathEmpty
<1>8. \/ form = <<Part("Expression"), Char(Semicolon)>>
      \/ form = <<Word("T_IF")>> \o Block("block", "Statements")
      \/ \E name \in Names : \E ref \in RefsOf : form = Function(name, "F", ref)
      \/ \E name \in Names : form = Class(name) \/ form = Define(name)
      \/ form = <<>>
  <2>1. Shortest("Statement") = <<>>
    BY DEF Shortest
  <2>2. CASE form = <<>>
    BY <2>2
  <2>3. CASE form \in Longer("Statement")
    <3>1. \/ form \in {<<Part("Expression"), Char(Semicolon)>>, <<Word("T_IF")>> \o Block("block", "Statements")}
          \/ \E name \in Names : form = Function(name, "F", <<Word("T_WHITESPACE")>>)
          \/ \E name \in Names : form = Function(name, "F", <<Word("T_COMMENT"), Char("&")>>)
          \/ \E name \in Names : form = Class(name)
          \/ \E name \in Names : form = Define(name)
      BY <2>3 DEF Longer
    <3>2. <<Word("T_WHITESPACE")>> \in RefsOf /\ <<Word("T_COMMENT"), Char("&")>> \in RefsOf
      BY DEF RefsOf
    <3> QED BY <3>1, <3>2
  <2> QED BY <2>1, <2>2, <2>3
<1> QED BY <1>3, <1>4, <1>5, <1>6, <1>7, <1>8

\* The forms of every part.
LEMMA StatementsForms ==
  ASSUME NEW b \in BOOLEAN, NEW m \in Mode, Fitting(b, m, "Statements"),
         NEW form \in Longer("Statements") \cup {Shortest("Statements")}
  PROVE  Path(b, m, form, m)
<1>1. Step(b, m, Part("Statement"), m) /\ Step(b, m, Part("Statements"), m)
  BY PartStep DEF Fitting
<1>2. form = <<Part("Statement"), Part("Statements")>> \/ form = <<>>
  BY DEF Longer, Shortest
<1> QED BY <1>1, <1>2, Path2, PathEmpty

LEMMA MembersForms ==
  ASSUME NEW b \in BOOLEAN, NEW m \in Mode, Fitting(b, m, "Members"),
         NEW form \in Longer("Members") \cup {Shortest("Members")}
  PROVE  Path(b, m, form, m)
<1>1. Skipping(b, m)
  BY DEF Fitting
<1>2. Path(b, m, <<Part("Members")>>, m)
  BY PartStep, PathOne
<1>3. ASSUME NEW name \in Names PROVE Path(b, m, Function(name, "F", <<>>), m)
  <2>1. PICK ref : ref = <<>>
    OBVIOUS
  <2>2. Path(b, m, ref, m)
    BY <2>1, PathEmpty
  <2> QED BY <1>1, <2>1, <2>2, SkippedFunction
<1>4. ASSUME NEW name \in Names PROVE Path(b, m, Const(name, "C"), m)
  BY <1>1, ConstPath
<1>5. \/ \E name \in Names : form = Function(name, "F", <<>>) \o <<Part("Members")>>
      \/ \E name \in Names : form = Const(name, "C") \o <<Part("Members")>>
      \/ form = <<>>
  BY DEF Longer, Shortest
<1>6. ASSUME NEW first, Path(b, m, first, m), form = first \o <<Part("Members")>>
      PROVE  Path(b, m, form, m)
  BY <1>2, <1>6, PathJoin
<1>7. CASE form = <<>>
  BY <1>7, PathEmpty
<1> QED BY <1>3, <1>4, <1>5, <1>6, <1>7

LEMMA ExpressionForms ==
  ASSUME NEW b \in BOOLEAN, NEW m \in Mode, Settled(b, m),
         NEW part \in {"Expression", "Text"},
         NEW form \in Longer(part) \cup {Shortest(part)}
  PROVE  Path(b, m, form, m)
<1>1. CASE part = "Expression"
  <2>1. Path(b, m, Closure, m) /\ Path(b, m, Quoted, m) /\ Path(b, m, Heredoc, m)
    BY ClosurePath, QuotedPath, HeredocPath
  <2>2. Path(b, m, <<Word("T_VARIABLE")>>, m)
    <3>1. Word("T_VARIABLE") \in Plain
      BY DEF Plain
    <3> QED BY <3>1, PlainStep, PathOne
  <2>3. form \in {Closure, Quoted, Heredoc, <<Word("T_VARIABLE")>>}
    BY <1>1 DEF Longer, Shortest
  <2> QED BY <2>1, <2>2, <2>3
<1>2. CASE part = "Text"
  <2>1. Step(b, m, Part("Text"), m)
    BY PartStep DEF Fitting
  <2>2. Step(b, m, Word("T_ENCAPSED_AND_WHITESPACE"), m)
    <3>1. Word("T_ENCAPSED_AND_WHITESPACE") \in Plain
      BY DEF Plain
    <3> QED BY <3>1, PlainStep
  <2>3. Path(b, m, <<Word("T_ENCAPSED_AND_WHITESPACE"), Part("Text")>>, m)
    BY <2>1, <2>2, Path2
  <2>4. Path(b, m, Interpolation \o <<Part("Text")>>, m)
    BY <2>1, BlockPath, PathOne, PathJoin
  <2>5. \/ form = <<Word("T_ENCAPSED_AND_WHITESPACE"), Part("Text")>>
        \/ form = Interpolation \o <<Part("Text")>>
        \/ form = <<>>
    BY <1>2 DEF Longer, Shortest
  <2>6. CASE form = <<>>
    BY <2>6, PathEmpty
  <2> QED BY <2>3, <2>4, <2>5, <2>6
<1> QED BY <1>1, <1>2

LEMMA NamespaceNameForms ==
  ASSUME NEW b \in BOOLEAN, NEW m \in Mode, NEW n \in Mode,
         m.state = "NAMESPACE_2", m.buffer # "closed", n = [m EXCEPT !.buffer = "closed"],
         NEW form \in Longer("NamespaceName") \cup {Shortest("NamespaceName")}
  PROVE  Path(b, m, form, n)
<1>1. ASSUME NEW name \in Names PROVE Step(b, m, Identifier(name, "namespace"), n)
  BY DEF Step, AToken, NamespaceName
<1>2. PICK k \in Mode : k = [n EXCEPT !.buffer = "open"]
  BY DEF Mode
<1>3. n.state = "NAMESPACE_2" /\ n.buffer = "closed" /\ k.state = "NAMESPACE_2" /\ k.buffer = "open"
  BY <1>2 DEF Mode
<1>4. n = [k EXCEPT !.buffer = "closed"]
  BY <1>2 DEF Mode
<1>5. Step(b, n, Word("T_NS_SEPARATOR"), k)
  BY <1>2, <1>3 DEF Step, AToken, NamespaceSeparator
<1>6. Step(b, k, Part("NamespaceName"), n)
  BY <1>3, <1>4 DEF Step, APart
<1>7. \/ \E name \in Names :
           form = <<Identifier(name, "namespace"), Word("T_NS_SEPARATOR"), Part("NamespaceName")>>
      \/ \E name \in Names : form = <<Identifier(name, "namespace")>>
  <2>1. (CHOOSE name \in Names : TRUE) \in Names
    BY ConstantsAssumption
  <2> QED BY <2>1 DEF Longer, Shortest
<1>8. CASE \E name \in Names :
             form = <<Identifier(name, "namespace"), Word("T_NS_SEPARATOR"), Part("NamespaceName")>>
  BY <1>1, <1>5, <1>6, <1>8, Path3
<1>9. CASE \E name \in Names : form = <<Identifier(name, "namespace")>>
  BY <1>1, <1>9, PathOne
<1> QED BY <1>7, <1>8, <1>9

\* The body of a namespace.
LEMMA SpaceExposed ==
  ASSUME NEW b \in BOOLEAN, NEW N \in Seq(Marks), Exposed(b, N)
  PROVE  Exposed(b, Append(N, "space"))
<1>1. PICK A : A = Append(N, "space")
  OBVIOUS
<1>2. PICK k \in Nat : k = Len(N)
  OBVIOUS
<1>3. Len(A) = k + 1 /\ A[k + 1] = "space" /\ \A i \in 1..k : A[i] = N[i]
  <2>1. "space" \in Marks
    BY DEF Marks
  <2> QED BY <1>1, <1>2, <2>1, AppendProperties
<1>4. ASSUME NEW i \in 1..(k + 1) PROVE A[i] \notin {"named"} \cup (IF b THEN {"block"} ELSE {})
  <2>1. i \in 1..k \/ i = k + 1
    OBVIOUS
  <2>2. CASE i \in 1..k
    BY <1>2, <1>3, <2>2 DEF Exposed
  <2>3. CASE i = k + 1
    BY <1>3, <2>3
  <2> QED BY <2>1, <2>2, <2>3
<1> QED BY <1>1, <1>3, <1>4 DEF Exposed

\* A namespace with braces.
LEMMA SpacePath ==
  ASSUME NEW b \in BOOLEAN, NEW l \in Mode, NEW o \in Mode,
         l.state = "NAMESPACE_2", l.buffer # "open", l.level = 0,
         \A i \in 1..Len(l.nesting) : l.nesting[i] # "named", Exposed(b, l.nesting),
         o.state = "OUT", o.level = 0, o.nesting = l.nesting, o.buffer = l.buffer
  PROVE  Path(b, l, <<Open("space"), Part("Statements"), Close>>, o)
<1>0. "space" \in Marks /\ "OUT" \in States
  BY DEF Marks, States
<1>1. PICK n : n = Enters(l, "OUT", 0, "space")
  OBVIOUS
<1>2. /\ n \in Mode /\ n.state = "OUT" /\ n.level = 0
      /\ n.nesting = Append(l.nesting, "space") /\ n.buffer = l.buffer
      /\ n.nesting # <<>> /\ Front(n.nesting) = l.nesting
  BY <1>0, <1>1, EntersFree
<1>3. Free(n) /\ Exposed(b, n.nesting)
  <2>1. \A i \in 1..Len(n.nesting) : n.nesting[i] # "named"
    BY <1>0, <1>2, ExposedIs DEF Mode
  <2>2. Exposed(b, n.nesting)
    BY <1>2, SpaceExposed DEF Mode
  <2> QED BY <1>2, <2>1, <2>2 DEF Free
<1>4. Step(b, l, Open("space"), n)
  BY <1>1 DEF Step, AToken, NamespaceBody
<1>5. Step(b, n, Part("Statements"), n)
  BY <1>3, PartStep DEF Fitting
<1>6. Step(b, n, Close, o)
  <2>1. Counted(n) = 0 /\ n.level - Counted(n) = 0
    BY <1>2 DEF Counted
  <2>2. o = [n EXCEPT !.state = n.state, !.level = n.level - Counted(n), !.nesting = Front(n.nesting)]
    BY <1>2, <2>1 DEF Mode
  <2>3. Leave(b, n, Close, o)
    BY <1>2, <1>3, <2>1, <2>2 DEF Leave, Settled
  <2> QED BY <2>3 DEF Step, AToken
<1> QED BY <1>2, <1>4, <1>5, <1>6, Path3

\* A namespace, to its semicolon or to the end of its body.
LEMMA NamespacePaths ==
  ASSUME NEW b \in BOOLEAN, NEW m \in Mode, Free(m), Exposed(b, m.nesting)
  PROVE  \A form \in {Namespace(<<Part("NamespaceName"), Char(Semicolon)>>),
                      Namespace(<<Part("NamespaceName")>> \o Block("space", "Statements")),
                      Namespace(Block("space", "Statements"))} :
           \E o \in Mode : Path(b, m, form, o) /\ Free(o) /\ Exposed(b, o.nesting)
<1>1. PICK k \in Mode : k = [m EXCEPT !.state = "NAMESPACE_FOUND", !.buffer = "empty"]
  BY DEF Mode, States
<1>2. PICK l \in Mode : l = [k EXCEPT !.state = "NAMESPACE_2"]
  BY DEF Mode, States
<1>3. PICK n \in Mode : n = [l EXCEPT !.buffer = "closed"]
  BY DEF Mode
<1>4. PICK o \in Mode : o = [n EXCEPT !.state = "OUT"]
  BY DEF Mode, States
<1>5. PICK p \in Mode : p = [l EXCEPT !.state = "OUT"]
  BY DEF Mode, States
<1>6. /\ k.state = "NAMESPACE_FOUND" /\ k.buffer = "empty" /\ k.level = m.level /\ k.nesting = m.nesting
      /\ l.state = "NAMESPACE_2" /\ l.buffer = "empty" /\ l.level = m.level /\ l.nesting = m.nesting
      /\ n.state = "NAMESPACE_2" /\ n.buffer = "closed" /\ n.level = m.level /\ n.nesting = m.nesting
  BY <1>1, <1>2, <1>3 DEF Mode
<1>7. /\ o.state = "OUT" /\ o.buffer = "closed" /\ o.level = m.level /\ o.nesting = m.nesting
      /\ p.state = "OUT" /\ p.buffer = "empty" /\ p.level = m.level /\ p.nesting = m.nesting
  BY <1>4, <1>5, <1>6 DEF Mode
<1>8. Free(o) /\ Exposed(b, o.nesting) /\ Free(p) /\ Exposed(b, p.nesting)
  BY <1>7 DEF Free
<1>9. Path(b, m, <<Token("T_NAMESPACE", <<>>, "global"), Word("T_WHITESPACE")>>, l)
  <2>1. NamespaceWord(b, m, Token("T_NAMESPACE", <<>>, "global"), k)
    BY <1>1 DEF NamespaceWord
  <2>2. NamespaceSpace(b, k, Word("T_WHITESPACE"), l)
    BY <1>2, <1>6 DEF NamespaceSpace
  <2>3. Step(b, m, Token("T_NAMESPACE", <<>>, "global"), k) /\ Step(b, k, Word("T_WHITESPACE"), l)
    BY <2>1, <2>2 DEF Step, AToken
  <2> QED BY <2>3, Path2
<1>10. Step(b, l, Part("NamespaceName"), n)
  BY <1>3, <1>6 DEF Step, APart
<1>11. Path(b, l, <<Part("NamespaceName"), Char(Semicolon)>>, o)
  <2>1. NamespaceEnd(b, n, Char(Semicolon), o)
    BY <1>4, <1>6 DEF NamespaceEnd
  <2>2. Step(b, n, Char(Semicolon), o)
    BY <2>1 DEF Step, AToken
  <2> QED BY <1>10, <2>2, Path2
<1>12. Path(b, n, Block("space", "Statements"), o) /\ Path(b, l, Block("space", "Statements"), p)
  <2>1. m.level = 0 /\ \A i \in 1..Len(m.nesting) : m.nesting[i] # "named"
    BY DEF Free
  <2>2. Path(b, n, <<Open("space"), Part("Statements"), Close>>, o)
    BY <1>6, <1>7, <2>1, SpacePath
  <2>3. Path(b, l, <<Open("space"), Part("Statements"), Close>>, p)
    BY <1>6, <1>7, <2>1, SpacePath
  <2> QED BY <2>2, <2>3 DEF Block
<1>13. Path(b, l, <<Part("NamespaceName")>> \o Block("space", "Statements"), o)
  <2>1. Path(b, l, <<Part("NamespaceName")>>, n)
    BY <1>10, PathOne
  <2> QED BY <1>12, <2>1, PathJoin
<1>14. ASSUME NEW name, NEW end \in Mode, Path(b, l, name, end)
       PROVE  Path(b, m, Namespace(name), end)
  BY <1>9, <1>14, PathJoin DEF Namespace
<1>15. /\ Path(b, m, Namespace(<<Part("NamespaceName"), Char(Semicolon)>>), o)
       /\ Path(b, m, Namespace(<<Part("NamespaceName")>> \o Block("space", "Statements")), o)
       /\ Path(b, m, Namespace(Block("space", "Statements")), p)
  BY <1>11, <1>12, <1>13, <1>14
<1>16. TAKE form \in {Namespace(<<Part("NamespaceName"), Char(Semicolon)>>),
                      Namespace(<<Part("NamespaceName")>> \o Block("space", "Statements")),
                      Namespace(Block("space", "Statements"))}
<1>17. Path(b, m, form, o) \/ Path(b, m, form, p)
  BY <1>15
<1> QED BY <1>8, <1>17

\* The forms of a program.
LEMMA ProgramForms ==
  ASSUME NEW b \in BOOLEAN, NEW m \in Mode, Free(m), Exposed(b, m.nesting),
         NEW form \in Longer("Program")
  PROVE  Path(b, m, form, End)
<1>0. End \in Mode
  <2>1. <<>> \in Seq(Marks)
    OBVIOUS
  <2> QED BY <2>1 DEF End, Mode
<1>1. ASSUME NEW first, NEW o \in Mode, Path(b, m, first, o), Free(o), Exposed(b, o.nesting)
      PROVE  Path(b, m, first \o <<Part("Program")>>, End)
  <2>1. Step(b, o, Part("Program"), End)
    BY <1>1 DEF Step, APart
  <2>2. Path(b, o, <<Part("Program")>>, End)
    BY <1>0, <2>1, PathOne
  <2> QED BY <1>1, <2>2, PathJoin
<1>2. Path(b, m, <<Part("Statement")>>, m)
  BY PartStep, PathOne DEF Fitting
<1>3. \E first : /\ form = first \o <<Part("Program")>>
                 /\ \/ first \in {Namespace(<<Part("NamespaceName"), Char(Semicolon)>>),
                                  Namespace(<<Part("NamespaceName")>> \o Block("space", "Statements")),
                                  Namespace(Block("space", "Statements"))}
                    \/ first = <<Part("Statement")>>
                    \/ \E name \in Names : first = Const(name, "C")
  BY DEF Longer
<1>4. PICK first : /\ form = first \o <<Part("Program")>>
                   /\ \/ first \in {Namespace(<<Part("NamespaceName"), Char(Semicolon)>>),
                                    Namespace(<<Part("NamespaceName")>> \o Block("space", "Statements")),
                                    Namespace(Block("space", "Statements"))}
                      \/ first = <<Part("Statement")>>
                      \/ \E name \in Names : first = Const(name, "C")
  BY <1>3
<1>5. \E o \in Mode : Path(b, m, first, o) /\ Free(o) /\ Exposed(b, o.nesting)
  <2>1. CASE first \in {Namespace(<<Part("NamespaceName"), Char(Semicolon)>>),
                        Namespace(<<Part("NamespaceName")>> \o Block("space", "Statements")),
                        Namespace(Block("space", "Statements"))}
    BY <2>1, NamespacePaths
  <2>2. CASE first = <<Part("Statement")>>
    BY <1>2, <2>2
  <2>3. CASE \E name \in Names : first = Const(name, "C")
    BY <2>3, ConstPath
  <2> QED BY <1>4, <2>1, <2>2, <2>3
<1> QED BY <1>1, <1>4, <1>5

-----------------------------------------------------------------------------
\* A part that is chosen leaves a way from the same mode to the end.

\* Nothing follows the end.
LEMMA EndIsLast ==
  ASSUME NEW b, NEW s, NEW e, Path(b, End, s, e)
  PROVE  s = <<>>
<1>0. End \in Mode /\ End.state = "end"
  <2>1. <<>> \in Seq(Marks)
    OBVIOUS
  <2> QED BY <2>1 DEF End, Mode
<1>1. ASSUME NEW m, m.state = "end", NEW t, NEW n, Step(b, m, t, n) PROVE FALSE
  <2>1. ~Free(m) /\ ~Skipping(b, m) /\ ~Settled(b, m)
    BY <1>1 DEF Free, Skipping, Settled
  <2>2. ~APart(b, m, t, n)
    BY <1>1, <2>1 DEF APart, Fitting
  <2>3. ~Stays(b, m, t)
    BY <1>1, <2>1 DEF Stays
  <2>4. ~(Keyword(b, m, t, n) \/ HasNoName(b, m, t, n) \/ HasName(b, m, t, n) \/ Body(b, m, t, n))
    BY <1>1, <2>1 DEF Keyword, HasNoName, HasName, Body
  <2>5. ~(\/ ConstName(b, m, t, n) \/ DefineWord(b, m, t, n) \/ DefineParen(b, m, t, n)
          \/ DefineName(b, m, t, n) \/ DefineEnd(b, m, t, n))
    BY <1>1, <2>1 DEF ConstName, DefineWord, DefineParen, DefineName, DefineEnd
  <2>6. ~(\/ NamespaceWord(b, m, t, n) \/ NamespaceSpace(b, m, t, n) \/ NamespaceName(b, m, t, n)
          \/ NamespaceSeparator(b, m, t, n) \/ NamespaceEnd(b, m, t, n) \/ NamespaceBody(b, m, t, n))
    BY <1>1, <2>1 DEF NamespaceWord, NamespaceSpace, NamespaceName, NamespaceSeparator,
                      NamespaceEnd, NamespaceBody
  <2>7. ~(\/ Enter(b, m, t, n) \/ EnterFree(b, m, t, n) \/ Leave(b, m, t, n) \/ Quote(b, m, t, n))
    BY <1>1, <2>1 DEF Enter, EnterFree, Leave, Quote
  <2> QED BY <1>1, <2>2, <2>3, <2>4, <2>5, <2>6, <2>7 DEF Step, AToken
<1> SUFFICES ASSUME s # <<>> PROVE FALSE
  OBVIOUS
<1>2. PICK n \in Mode : Step(b, End, Head(s), n)
  BY <1>0, PathHead
<1> QED BY <1>0, <1>1, <1>2

\* The tokens are no parts.
LEMMA TokensAreNoParts ==
  ASSUME NEW b, NEW m, NEW t, NEW n, AToken(b, m, t, n)
  PROVE  ~IsPart(t)
<1>1. /\ \A w : Word(w).tnum = w
      /\ \A c : Char(c).tnum = "char"
      /\ \A c : Open(c).tnum = "char"
      /\ Close.tnum = "char" /\ CurlyOpen.tnum = "T_CURLY_OPEN"
      /\ \A name, mark : Identifier(name, mark).tnum = "T_STRING"
      /\ Identifier(<<"define">>, NULL).tnum = "T_STRING"
      /\ \A name : Encapsed(name).tnum = "T_CONSTANT_ENCAPSED_STRING"
      /\ Token("T_NAMESPACE", <<>>, "global").tnum = "T_NAMESPACE"
  BY DEF Word, Char, Open, Close, CurlyOpen, Identifier, Encapsed, Token
<1>2. CASE Stays(b, m, t)
  <2>1. t \in Plain \/ t \in Inner \/ (\E w : t = Word(w) /\ w # "part")
      \/ (\E c : t = Char(c))
    <3>1. t \in Plain \/ t \in Inner \/ t = Char(DoubleQuote) \/ t = Word("T_WHITESPACE")
          \/ t = Word("T_COMMENT") \/ t = Word("T_LNUMBER")
          \/ t = Char("(") \/ t = Char(")") \/ t = Char("&")
      BY <1>2 DEF Stays
    <3>2. /\ "T_WHITESPACE" # "part" /\ "T_COMMENT" # "part" /\ "T_LNUMBER" # "part"
      OBVIOUS
    <3> QED BY <3>1, <3>2, Zenon
  <2>2. CASE t \in Plain
    BY <1>1, <2>2 DEF Plain, IsPart
  <2>3. CASE t \in Inner
    BY <1>1, <2>3 DEF Inner, IsPart
  <2> QED BY <1>1, <2>1, <2>2, <2>3 DEF IsPart
<1>4. CASE Keyword(b, m, t, n) \/ HasNoName(b, m, t, n) \/ HasName(b, m, t, n) \/ Body(b, m, t, n)
  BY <1>1, <1>4 DEF Keyword, HasNoName, HasName, Body, IsPart
<1>5. CASE \/ ConstName(b, m, t, n) \/ DefineWord(b, m, t, n) \/ DefineParen(b, m, t, n)
           \/ DefineName(b, m, t, n) \/ DefineEnd(b, m, t, n)
  <2>1. ConstName(b, m, t, n) => ~IsPart(t)
    BY <1>1 DEF ConstName, IsPart
  <2>2. DefineWord(b, m, t, n) => ~IsPart(t)
    BY <1>1 DEF DefineWord, IsPart
  <2>3. DefineParen(b, m, t, n) => ~IsPart(t)
    BY <1>1 DEF DefineParen, IsPart
  <2>4. DefineName(b, m, t, n) => ~IsPart(t)
    BY <1>1 DEF DefineName, IsPart
  <2>5. DefineEnd(b, m, t, n) => ~IsPart(t)
    BY <1>1 DEF DefineEnd, IsPart
  <2> QED BY <1>5, <2>1, <2>2, <2>3, <2>4, <2>5
<1>6. CASE \/ NamespaceWord(b, m, t, n) \/ NamespaceSpace(b, m, t, n) \/ NamespaceName(b, m, t, n)
           \/ NamespaceSeparator(b, m, t, n) \/ NamespaceEnd(b, m, t, n) \/ NamespaceBody(b, m, t, n)
  <2>1. NamespaceWord(b, m, t, n) => ~IsPart(t)
    BY <1>1 DEF NamespaceWord, IsPart
  <2>2. NamespaceSpace(b, m, t, n) => ~IsPart(t)
    BY <1>1 DEF NamespaceSpace, IsPart
  <2>3. NamespaceName(b, m, t, n) => ~IsPart(t)
    BY <1>1 DEF NamespaceName, IsPart
  <2>4. NamespaceSeparator(b, m, t, n) => ~IsPart(t)
    BY <1>1 DEF NamespaceSeparator, IsPart
  <2>5. NamespaceEnd(b, m, t, n) => ~IsPart(t)
    BY <1>1 DEF NamespaceEnd, IsPart
  <2>6. NamespaceBody(b, m, t, n) => ~IsPart(t)
    BY <1>1 DEF NamespaceBody, IsPart
  <2> QED BY <1>6, <2>1, <2>2, <2>3, <2>4, <2>5, <2>6
<1>7. CASE \/ Enter(b, m, t, n) \/ EnterFree(b, m, t, n) \/ Leave(b, m, t, n) \/ Quote(b, m, t, n)
  BY <1>1, <1>7 DEF Enter, EnterFree, Leave, Quote, IsPart
<1> QED BY <1>2, <1>4, <1>5, <1>6, <1>7 DEF AToken

\* Where a way may lead: out of all bodies, or to the end of the script.
Destination(e) == e \in Mode /\ e.state \in {"OUT", "end"}

\* To choose a part does not change where the way leads, or ends it.
LEMMA ChoosePath ==
  ASSUME NEW b \in BOOLEAN, NEW m \in Mode, NEW n \in Mode, NEW e, Destination(e),
         NEW t, IsPart(t), Step(b, m, t, n), NEW s, Path(b, n, s, e),
         NEW form \in Longer(t.tvalue[1]) \cup {Shortest(t.tvalue[1])}
  PROVE  \E f : Destination(f) /\ Path(b, m, form \o s, f)
<1>1. APart(b, m, t, n)
  BY TokensAreNoParts DEF Step
<1>2. \A name : Part(name).tvalue[1] = name
  BY DEF Part, Token
<1>3. CASE Path(b, m, form, n)
  BY <1>3, PathJoin
<1>4. ASSUME NEW part \in {"Statements", "Statement", "Members", "Expression", "Text"},
             t = Part(part), Fitting(b, m, part), n = m
      PROVE  Path(b, m, form, n)
  <2>1. t.tvalue[1] = part
    BY <1>2, <1>4
  <2>2. form \in Longer(part) \cup {Shortest(part)}
    BY <2>1
  <2>3. CASE part = "Statements"
    BY <1>4, <2>2, <2>3, StatementsForms
  <2>4. CASE part = "Statement"
    BY <1>4, <2>2, <2>4, StatementForms
  <2>5. CASE part = "Members"
    BY <1>4, <2>2, <2>5, MembersForms
  <2>6. CASE part \in {"Expression", "Text"}
    <3>1. Settled(b, m)
      BY <1>4, <2>6 DEF Fitting
    <3> QED BY <1>4, <2>2, <2>6, <3>1, ExpressionForms
  <2> QED BY <2>3, <2>4, <2>5, <2>6
<1>5. CASE /\ t = Part("NamespaceName") /\ m.state = "NAMESPACE_2" /\ m.buffer # "closed"
           /\ n = [m EXCEPT !.buffer = "closed"]
  <2>1. form \in Longer("NamespaceName") \cup {Shortest("NamespaceName")}
    BY <1>2, <1>5
  <2>2. Path(b, m, form, n)
    BY <1>5, <2>1, NamespaceNameForms
  <2> QED BY <1>3, <2>2
<1>6. CASE t = Part("Program") /\ Free(m) /\ Exposed(b, m.nesting) /\ n = End
  <2>1. t.tvalue[1] = "Program"
    BY <1>2, <1>6
  <2>2. CASE form \in Longer("Program")
    BY <1>3, <1>6, <2>2, ProgramForms
  <2>3. CASE form = Shortest("Program")
    <3>1. form = <<>>
      BY <2>3 DEF Shortest
    <3>2. s = <<>>
      BY <1>6, EndIsLast
    <3>3. Path(b, m, form, m) /\ Path(b, m, s, m)
      BY <3>1, <3>2, PathEmpty
    <3>4. Path(b, m, form \o s, m)
      BY <3>3, PathJoin
    <3> QED BY <1>6, <3>4 DEF Destination, Free
  <2> QED BY <2>1, <2>2, <2>3
<1> QED BY <1>1, <1>3, <1>4, <1>5, <1>6 DEF APart

-----------------------------------------------------------------------------
\* FlattenSeq, which the community modules define with a local recursion: what it does with
\* an empty sequence and with one more element.

FlatUpTo(g, s, n) == g = [i \in 1..n |-> IF i = 1 THEN s[i] ELSE g[i - 1] \o s[i]]

\* The sequence up to its i-th element, flattened, for every i.
LEMMA FlatExists ==
  ASSUME NEW s, NEW l \in Nat
  PROVE  \E g : FlatUpTo(g, s, l)
<1> DEFINE T == {m \in Nat : \A g : ~FlatUpTo(g, s, m)}
<1>1. SUFFICES ASSUME T # {} PROVE FALSE
  OBVIOUS
<1>2. T \subseteq Nat
  OBVIOUS
<1>3. PICK m \in T : \A k \in T : m <= k
  <2> HIDE DEF T
  <2> QED BY <1>1, <1>2, Least
<1>4. m \in Nat /\ \A g : ~FlatUpTo(g, s, m)
  OBVIOUS
<1>5. m # 0
  <2> DEFINE g == [i \in 1..0 |-> <<>>]
  <2>1. \A i \in 1..0 : FALSE
    OBVIOUS
  <2>2. FlatUpTo(g, s, 0)
    BY <2>1 DEF FlatUpTo
  <2> QED BY <2>2, <1>4
<1>6. m - 1 \in Nat /\ m - 1 \notin T
  BY <1>3, <1>4, <1>5
<1>7. PICK h : FlatUpTo(h, s, m - 1)
  BY <1>6
<1> DEFINE last == IF m = 1 THEN s[m] ELSE h[m - 1] \o s[m]
           g == [i \in 1..m |-> IF i = m THEN last ELSE h[i]]
<1>8. \A i \in 1..(m - 1) : g[i] = IF i = 1 THEN s[i] ELSE g[i - 1] \o s[i]
  <2> TAKE i \in 1..(m - 1)
  <2>1. g[i] = h[i] /\ (i # 1 => g[i - 1] = h[i - 1])
    <3>1. i \in 1..m /\ i # m /\ (i # 1 => i - 1 \in 1..m /\ i - 1 # m)
      BY <1>4, <1>5
    <3> HIDE DEF last
    <3> QED BY <3>1
  <2>2. h[i] = IF i = 1 THEN s[i] ELSE h[i - 1] \o s[i]
    BY <1>7 DEF FlatUpTo
  <2> HIDE DEF g
  <2> QED BY <2>1, <2>2
<1>9. g[m] = IF m = 1 THEN s[m] ELSE g[m - 1] \o s[m]
  <2>1. m \in 1..m /\ (m # 1 => m - 1 \in 1..m /\ m - 1 # m)
    BY <1>4, <1>5
  <2>2. g[m] = last
    <3> HIDE DEF last
    <3> QED BY <2>1
  <2>3. m # 1 => g[m - 1] = h[m - 1]
    <3> HIDE DEF last
    <3> QED BY <2>1
  <2> HIDE DEF g
  <2> QED BY <2>2, <2>3
<1>10. \A i \in 1..m : g[i] = IF i = 1 THEN s[i] ELSE g[i - 1] \o s[i]
  <2> HIDE DEF g
  <2> QED BY <1>4, <1>5, <1>8, <1>9
<1>11. g = [i \in 1..m |-> g[i]]
  <2> HIDE DEF last
  <2> QED OBVIOUS
<1>12. FlatUpTo(g, s, m)
  <2> HIDE DEF g
  <2> QED BY <1>10, <1>11 DEF FlatUpTo
<1> QED BY <1>4, <1>12

\* f: what is flattened so far.
Flattens(s, f) ==
  /\ f[1] = s[1]
  /\ \A i \in 2..Len(s) : f[i] = f[i - 1] \o s[i]
  /\ FlattenSeq(s) = f[Len(s)]

LEMMA FlatSteps ==
  ASSUME NEW A, NEW s \in Seq(A), s # <<>>
  PROVE  \E f : Flattens(s, f)
<1>1. Len(s) \in Nat /\ Len(s) # 0 /\ 1 \in 1..Len(s)
  BY EmptySeq
<1>2. \E g : FlatUpTo(g, s, Len(s))
  BY <1>1, FlatExists
<1>3. FlattenSeq(s) = (CHOOSE g : FlatUpTo(g, s, Len(s)))[Len(s)]
  BY <1>1 DEF FlattenSeq, FlatUpTo
<1>4. PICK f : f = CHOOSE g : FlatUpTo(g, s, Len(s))
  OBVIOUS
<1>5. FlatUpTo(f, s, Len(s)) /\ FlattenSeq(s) = f[Len(s)]
  BY <1>2, <1>3, <1>4
<1>6. \A i \in 1..Len(s) : f[i] = IF i = 1 THEN s[i] ELSE f[i - 1] \o s[i]
  BY <1>5 DEF FlatUpTo
<1>7. f[1] = s[1] /\ \A i \in 2..Len(s) : f[i] = f[i - 1] \o s[i]
  <2>1. f[1] = s[1]
    BY <1>1, <1>6
  <2>2. ASSUME NEW i \in 2..Len(s) PROVE f[i] = f[i - 1] \o s[i]
    <3>1. i \in 1..Len(s) /\ i # 1
      BY <1>1
    <3> QED BY <1>6, <3>1
  <2> QED BY <2>1, <2>2
<1> QED BY <1>5, <1>7 DEF Flattens

\* The two equations of FlattenSeq, and its type.
LEMMA FlattenEmpty == FlattenSeq(<<>>) = <<>>
BY DEF FlattenSeq

LEMMA FlatTyped ==
  ASSUME NEW A, NEW s \in Seq(Seq(A)), NEW f, Flattens(s, f), NEW n \in 1..Len(s)
  PROVE  f[n] \in Seq(A)
<1> DEFINE T == {i \in 1..Len(s) : f[i] \notin Seq(A)}
<1>1. SUFFICES ASSUME T # {} PROVE FALSE
  OBVIOUS
<1>2. T \subseteq Nat
  OBVIOUS
<1>3. PICK m \in T : \A k \in T : m <= k
  <2> HIDE DEF T
  <2> QED BY <1>1, <1>2, Least
<1>4. m \in 1..Len(s) /\ f[m] \notin Seq(A) /\ Len(s) \in Nat /\ \A i \in 1..Len(s) : s[i] \in Seq(A)
  OBVIOUS
<1>5. m # 1
  BY <1>4 DEF Flattens
<1>6. m - 1 \in 1..Len(s) /\ m - 1 \notin T /\ m \in 2..Len(s)
  BY <1>3, <1>4, <1>5
<1>7. f[m - 1] \in Seq(A)
  BY <1>6
<1>8. f[m] = f[m - 1] \o s[m]
  BY <1>6 DEF Flattens
<1> HIDE DEF T
<1> QED BY <1>4, <1>7, <1>8, ConcatProperties

LEMMA FlattenType ==
  ASSUME NEW A, NEW s \in Seq(Seq(A))
  PROVE  FlattenSeq(s) \in Seq(A)
<1>1. CASE s = <<>>
  BY <1>1, FlattenEmpty, EmptySeq
<1>2. CASE s # <<>>
  <2>1. PICK f : Flattens(s, f)
    BY <1>2, FlatSteps
  <2>2. Len(s) \in 1..Len(s)
    BY <1>2, EmptySeq
  <2>3. f[Len(s)] \in Seq(A)
    BY <2>1, <2>2, FlatTyped
  <2> QED BY <2>1, <2>3 DEF Flattens
<1> QED BY <1>1, <1>2

LEMMA FlattenAppend ==
  ASSUME NEW A, NEW q \in Seq(Seq(A)), NEW x \in Seq(A)
  PROVE  FlattenSeq(Append(q, x)) = FlattenSeq(q) \o x
<1>1. PICK s \in Seq(Seq(A)) : s = Append(q, x)
  BY AppendProperties
<1>2. PICK n \in Nat : n = Len(q)
  OBVIOUS
<1>3. Len(s) = n + 1 /\ s[n + 1] = x /\ \A i \in 1..n : s[i] = q[i]
  BY <1>1, <1>2, AppendProperties
<1>4. s # <<>>
  BY <1>2, <1>3
<1>5. PICK f : Flattens(s, f)
  BY <1>4, FlatSteps
<1>6. CASE n = 0
  <2>1. q = <<>> /\ FlattenSeq(q) = <<>>
    BY <1>2, <1>6, EmptySeq, FlattenEmpty
  <2>2. FlattenSeq(s) = x
    BY <1>3, <1>5, <1>6 DEF Flattens
  <2>3. <<>> \o x = x
    OBVIOUS
  <2> QED BY <1>1, <2>1, <2>2, <2>3
<1>7. CASE n # 0
  <2>0. q # <<>>
    BY <1>2, <1>7
  <2>1. PICK g : Flattens(q, g)
    BY <2>0, FlatSteps
  <2> DEFINE T == {i \in 1..n : f[i] # g[i]}
  <2>2. T = {}
    <3>1. SUFFICES ASSUME T # {} PROVE FALSE
      OBVIOUS
    <3>2. T \subseteq Nat
      OBVIOUS
    <3>3. PICK m \in T : \A k \in T : m <= k
      <4> HIDE DEF T
      <4> QED BY <3>1, <3>2, Least
    <3>4. m \in 1..n /\ f[m] # g[m]
      OBVIOUS
    <3>5. m # 1
      BY <1>3, <1>5, <1>7, <2>1, <3>4 DEF Flattens
    <3>6. m - 1 \in 1..n /\ m - 1 \notin T /\ m \in 2..n /\ m \in 2..(n + 1)
      BY <3>3, <3>4, <3>5
    <3>7. f[m - 1] = g[m - 1]
      BY <3>6
    <3>8. f[m] = f[m - 1] \o s[m] /\ g[m] = g[m - 1] \o q[m]
      BY <1>2, <1>3, <1>5, <2>1, <3>6 DEF Flattens
    <3> QED BY <1>3, <3>4, <3>7, <3>8
  <2>3. f[n] = g[n] /\ n + 1 \in 2..(n + 1) /\ (n + 1) - 1 = n
    <3>0. n \in 1..n
      BY <1>7
    <3>1. n \notin T
      <4> HIDE DEF T
      <4> QED BY <2>2
    <3>2. f[n] = g[n]
      BY <3>0, <3>1
    <3> QED BY <1>7, <3>2
  <2>4. f[n + 1] = f[n] \o x
    BY <1>3, <1>5, <2>3 DEF Flattens
  <2>5. FlattenSeq(s) = f[n + 1] /\ FlattenSeq(q) = g[n]
    BY <1>2, <1>3, <1>5, <2>1 DEF Flattens
  <2> QED BY <1>1, <2>3, <2>4, <2>5
<1> QED BY <1>6, <1>7

-----------------------------------------------------------------------------
\* The names of namespaces.

\* A name has characters, none of which is a backslash or a quote.
LEMMA NameFacts ==
  ASSUME NEW name \in Names
  PROVE  /\ name \in Seq(Characters) /\ name # <<>> /\ Len(name) \in Nat \ {0}
         /\ \A i \in 1..Len(name) : name[i] # "\\" /\ name[i] # "'"
<1>1. name \in Seq(STRING) /\ name # <<>> /\ Range(name) \cap {"\\", "'"} = {}
  BY ConstantsAssumption
<1>2. Len(name) \in Nat \ {0}
  BY <1>1, EmptySeq
<1>3. \A i \in 1..Len(name) : name[i] \in Range(name)
  BY <1>1 DEF Range
<1>4. \A i \in 1..Len(name) : name[i] \in Characters
  BY <1>3 DEF Characters
<1>5. name \in [1..Len(name) -> Characters]
  BY <1>1, <1>4
<1>6. name \in Seq(Characters)
  BY <1>2, <1>5, FunctionIsSeq
<1> QED BY <1>1, <1>2, <1>3, <1>6

LEMMA BackslashIsCharacter == "\\" \in Characters
BY DEF Characters

Slashed(names) == [i \in 1..Len(names) |-> <<"\\">> \o names[i]]

\* Types.
LEMMA SlashedType ==
  ASSUME NEW names \in Seq(Names)
  PROVE  /\ Slashed(names) \in Seq(Seq(Characters)) /\ Len(Slashed(names)) = Len(names)
         /\ names \in Seq(Seq(Characters))
<1>1. \A i \in 1..Len(names) : names[i] \in Seq(Characters)
  BY NameFacts
<1>2. <<"\\">> \in Seq(Characters)
  BY BackslashIsCharacter, OneElement
<1>3. PICK d \in Seq(Characters) : d = <<"\\">>
  BY <1>2
<1>4. \A i \in 1..Len(names) : d \o names[i] \in Seq(Characters)
  BY <1>1, <1>3, ConcatProperties
<1>5. Slashed(names) \in [1..Len(names) -> Seq(Characters)]
  BY <1>3, <1>4 DEF Slashed
<1>6. Len(names) \in Nat /\ names \in [1..Len(names) -> Seq(Characters)]
  BY <1>1
<1> QED BY <1>5, <1>6, FunctionIsSeq

\* The name of the global namespace, and that of one in it.
LEMMA PrefixEmpty == Prefix(<<>>) = <<>> /\ FlattenSeq(<<>>) = <<>>
<1>1. Slashed(<<>>) = <<>>
  <2>1. <<>> \in Seq(Names)
    OBVIOUS
  <2>2. PICK e \in Seq(Names) : e = <<>>
    BY <2>1
  <2>3. Len(e) = 0
    BY <2>2
  <2>4. Slashed(e) \in Seq(Seq(Characters)) /\ Len(Slashed(e)) = 0
    BY <2>3, SlashedType
  <2>5. Slashed(e) = <<>>
    BY <2>4, EmptySeq
  <2> QED BY <2>2, <2>5
<1> QED BY <1>1, FlattenEmpty DEF Prefix, Slashed

LEMMA PrefixType ==
  ASSUME NEW names \in Seq(Names)
  PROVE  Prefix(names) \in Seq(Characters) /\ FlattenSeq(names) \in Seq(Characters)
BY SlashedType, FlattenType DEF Prefix, Slashed

LEMMA PrefixAppend ==
  ASSUME NEW names \in Seq(Names), NEW name \in Names
  PROVE  /\ Prefix(Append(names, name)) = Prefix(names) \o (<<"\\">> \o name)
         /\ FlattenSeq(Append(names, name)) = FlattenSeq(names) \o name
<1>1. PICK a \in Seq(Names) : a = Append(names, name)
  BY AppendProperties
<1>2. PICK k \in Nat : k = Len(names)
  OBVIOUS
<1>3. Len(a) = k + 1 /\ a[k + 1] = name /\ \A i \in 1..k : a[i] = names[i]
  BY <1>1, <1>2, AppendProperties
<1>4. PICK x \in Seq(Characters) : x = <<"\\">> \o name
  <2>1. <<"\\">> \in Seq(Characters) /\ name \in Seq(Characters)
    BY BackslashIsCharacter, OneElement, NameFacts
  <2> QED BY <2>1, ConcatProperties
<1>5. PICK s \in Seq(Seq(Characters)) : s = Slashed(names) /\ Len(s) = k
  BY <1>2, SlashedType
<1>6. PICK u \in Seq(Seq(Characters)) : u = Slashed(a) /\ Len(u) = k + 1
  BY <1>3, SlashedType
<1>7. PICK v \in Seq(Seq(Characters)) :
        v = Append(s, x) /\ Len(v) = k + 1 /\ v[k + 1] = x /\ \A i \in 1..k : v[i] = s[i]
  <2>1. PICK v \in Seq(Seq(Characters)) : v = Append(s, x)
    BY AppendProperties
  <2>2. Len(v) = Len(s) + 1 /\ v[Len(s) + 1] = x /\ \A i \in 1..Len(s) : v[i] = s[i]
    BY <2>1, AppendProperties
  <2> QED BY <1>5, <2>1, <2>2
<1>8. u = v
  <2>1. ASSUME NEW i \in 1..(k + 1) PROVE u[i] = v[i]
    <3>1. u[i] = <<"\\">> \o a[i]
      BY <1>3, <1>6 DEF Slashed
    <3>2. CASE i \in 1..k
      <4>1. s[i] = <<"\\">> \o names[i]
        BY <1>2, <1>5, <3>2 DEF Slashed
      <4> QED BY <1>3, <1>7, <3>1, <3>2, <4>1
    <3>3. CASE i = k + 1
      BY <1>3, <1>4, <1>7, <3>1, <3>3
    <3> QED BY <3>2, <3>3
  <2> QED BY <1>6, <1>7, <2>1, SeqEqual
<1>9. FlattenSeq(Append(s, x)) = FlattenSeq(s) \o x
  BY FlattenAppend
<1>10. Prefix(a) = Prefix(names) \o x
  BY <1>5, <1>6, <1>7, <1>8, <1>9 DEF Prefix, Slashed
<1>11. names \in Seq(Seq(Characters)) /\ name \in Seq(Characters)
  BY SlashedType, NameFacts
<1>12. FlattenSeq(Append(names, name)) = FlattenSeq(names) \o name
  BY <1>11, FlattenAppend
<1> QED BY <1>1, <1>4, <1>10, <1>12

\* What ut_trim_char() takes off is only what is at the ends.
LEMMA LTrimFirst ==
  ASSUME NEW A, NEW c \in A, NEW w \in Seq(A), w # <<>>, w[1] # c, NEW s, s = <<c>> \o w
  PROVE  LTrim(s, c) = w
<1>1. PICK d \in Seq(A) : d = <<c>> /\ Len(d) = 1 /\ d[1] = c
  BY OneElement
<1>2. /\ s \in Seq(A) /\ Len(s) = 1 + Len(w) /\ Len(w) \in Nat
      /\ s[1] = c /\ \A i \in 1..Len(w) : s[1 + i] = w[i]
  <2>1. s = d \o w
    BY <1>1
  <2>2. /\ s \in Seq(A) /\ Len(s) = Len(d) + Len(w) /\ Len(w) \in Nat
        /\ \A i \in 1..Len(d) : s[i] = d[i]
        /\ \A i \in 1..Len(w) : s[Len(d) + i] = w[i]
    BY <2>1, Parts
  <2> QED BY <1>1, <2>2
<1>3. PICK t \in Seq(A) : t = LTrim(s, c) /\ \E b \in 0..Len(s) : Leads(s, c, b, t)
  BY <1>2, LTrimParts
<1>4. PICK b \in 0..Len(s) : Leads(s, c, b, t)
  BY <1>3
<1>5. Len(w) # 0 /\ 1 \in 1..Len(w)
  BY <1>2, EmptySeq
<1>6. s[2] = w[1] /\ s[2] # c
  BY <1>2, <1>5
<1>7. b = 1
  <2>1. b # 0
    BY <1>2, <1>4, <1>5 DEF Leads
  <2>2. ~(2 <= b)
    BY <1>4, <1>6 DEF Leads
  <2> QED BY <1>4, <2>1, <2>2
<1>8. Len(t) = Len(w) /\ \A i \in 1..Len(t) : t[i] = w[i]
  BY <1>2, <1>4, <1>7 DEF Leads
<1> QED BY <1>3, <1>8, SeqEqual

LEMMA RTrimLast ==
  ASSUME NEW A, NEW w \in Seq(A), NEW c, NEW s \in Seq(A), w # <<>>, w[Len(w)] # c,
         s = w \/ (Len(s) = Len(w) + 1 /\ s[Len(w) + 1] = c /\ \A i \in 1..Len(w) : s[i] = w[i])
  PROVE  RTrim(s, c) = w
<1>1. PICK t \in Seq(A) : t = RTrim(s, c) /\ \E l \in 0..Len(s) : TrimsTo(s, c, l, t)
  BY RTrimIs
<1>2. PICK l \in 0..Len(s) : TrimsTo(s, c, l, t)
  BY <1>1
<1>3. PICK k \in Nat : k = Len(w) /\ k # 0
  BY EmptySeq
<1>4. /\ \A i \in 1..k : s[i] = w[i]
      /\ Len(s) = k \/ (Len(s) = k + 1 /\ s[k + 1] = c)
  BY <1>3
<1>5. k \in 1..k /\ s[k] # c
  BY <1>3, <1>4
<1>6. l = k
  <2>1. ~(l < k)
    BY <1>2, <1>3, <1>4, <1>5 DEF TrimsTo
  <2>2. ~(k < l)
    BY <1>2, <1>3, <1>4 DEF TrimsTo
  <2> QED BY <1>2, <1>3, <2>1, <2>2
<1>7. Len(t) = Len(w) /\ \A i \in 1..Len(t) : t[i] = w[i]
  BY <1>2, <1>3, <1>4, <1>6 DEF TrimsTo
<1> QED BY <1>1, <1>7, SeqEqual

-----------------------------------------------------------------------------
\* The symbol that is added, and the one that the autoloader will look for.

\* The symbol that is added, and what is looked for.
Added(type, space, name) ==
  <<type>> \o
  (IF ut_trim_char(space, "\\") = <<>> THEN <<>> ELSE Append(ut_trim_char(space, "\\"), "\\")) \o
  name

\* Both are keys.
LEMMA KeyTypes ==
  ASSUME NEW type \in {"F", "L", "C"}, NEW space \in Seq(Characters), NEW name \in Seq(Characters)
  PROVE  Added(type, space, name) \in Keys /\ Automap_key(type, name) \in Keys
<1>1. PICK A : A = {"F", "L", "C"} \cup Characters
  OBVIOUS
<1>2. type \in A /\ "\\" \in A /\ Keys = Seq(A)
  BY <1>1, BackslashIsCharacter DEF Keys
<1>3. \A s \in Seq(Characters) : s \in Seq(A)
  <2> SUFFICES ASSUME NEW s \in Seq(Characters) PROVE s \in Seq(A)
    OBVIOUS
  <2>1. s \in [1..Len(s) -> A] /\ Len(s) \in Nat
    BY <1>1
  <2> QED BY <2>1, FunctionIsSeq
<1>4. PICK t \in Seq(A) : t = <<type>>
  BY <1>2, OneElement
<1>5. LTrim(name, "\\") \in Seq(A)
  BY <1>3, LTrimIs
<1>6. PICK u \in Seq(A) : u = ut_trim_char(space, "\\")
  <2>1. LTrim(space, "\\") \in Seq(Characters)
    BY LTrimIs
  <2>2. RTrim(LTrim(space, "\\"), "\\") \in Seq(Characters)
    BY <2>1, RTrimIs
  <2> QED BY <1>3, <2>2 DEF ut_trim_char
<1>7. PICK v \in Seq(A) : v = IF u = <<>> THEN <<>> ELSE Append(u, "\\")
  <2>1. <<>> \in Seq(A) /\ Append(u, "\\") \in Seq(A)
    BY <1>2, EmptySeq, AppendProperties
  <2> QED BY <2>1
<1>8. Added(type, space, name) = t \o v \o name
  BY <1>4, <1>6, <1>7 DEF Added
<1>9. t \o v \in Seq(A) /\ name \in Seq(A)
  BY <1>3, ConcatProperties
<1>10. t \o v \o name \in Seq(A) /\ t \o LTrim(name, "\\") \in Seq(A)
  BY <1>5, <1>9, ConcatProperties
<1> QED BY <1>2, <1>4, <1>8, <1>10 DEF Automap_key

\* Added() without a namespace, and in one.
LEMMA AddedWithoutNamespace ==
  ASSUME NEW type, NEW name \in Seq(Characters)
  PROVE  Added(type, <<>>, name) = <<type>> \o name
<1>1. PICK A : type \in A /\ Characters \subseteq A
  <2> DEFINE A == Characters \cup {type}
  <2>1. type \in A /\ Characters \subseteq A
    OBVIOUS
  <2> HIDE DEF A
  <2> QED BY <2>1
<1>2. ut_trim_char(<<>>, "\\") = <<>>
  <2>1. PICK e \in Seq(Characters) : e = <<>>
    BY EmptySeq
  <2>2. LTrim(e, "\\") = e
    BY <2>1, LTrimSame
  <2>3. RTrim(e, "\\") = e
    BY <2>1, RTrimEmpty
  <2> QED BY <2>1, <2>2, <2>3 DEF ut_trim_char
<1>3. PICK t \in Seq(A) : t = <<type>>
  BY <1>1, OneElement
<1>4. t \o <<>> = t
  OBVIOUS
<1> QED BY <1>2, <1>3, <1>4 DEF Added

LEMMA AddedInNamespace ==
  ASSUME NEW type, NEW name \in Seq(Characters), NEW s \in Seq(Characters),
         s # <<>>, s[1] # "\\", s[Len(s)] # "\\"
  PROVE  Added(type, s, name) = <<type>> \o Append(s, "\\") \o name
<1>1. LTrim(s, "\\") = s
  BY LTrimSame
<1>2. RTrim(s, "\\") = s
  BY RTrimLast
<1> QED BY <1>1, <1>2 DEF Added, ut_trim_char

\* What the parser adds for a name in a namespace is what PHP declares.
LEMMA NamedKey ==
  ASSUME NEW type, NEW name \in Names, NEW buffer \in {"empty", "closed"}, Buffered(buffer),
         ns \in Seq(Characters), namespace \in Seq(Names)
  PROVE  Added(type, ns, name) = Automap_key(type, FullName(name))
<1>0. name \in Seq(Characters) /\ name # <<>> /\ name[1] # "\\"
  <2>1. 1 \in 1..Len(name)
    BY NameFacts
  <2> QED BY <2>1, NameFacts
<1>1. PICK d \in Seq(Characters) : d = <<"\\">> /\ Len(d) = 1 /\ d[1] = "\\"
  BY BackslashIsCharacter, OneElement
<1>2. PICK p \in Seq(Characters) : p = Prefix(namespace)
  BY PrefixType
<1>3. FullName(name) = (p \o d) \o name
  BY <1>1, <1>2 DEF FullName, Prefix
<1>4. CASE buffer = "empty"
  <2>1. ns = <<>> /\ namespace = <<>>
    BY <1>4 DEF Buffered, Holds
  <2>2. p = <<>>
    BY <1>2, <2>1, PrefixEmpty
  <2>3. p \o d = d
    BY <2>2
  <2>4. FullName(name) = <<"\\">> \o name
    BY <1>1, <1>3, <2>3
  <2>5. LTrim(FullName(name), "\\") = name
    BY <1>0, <2>4, BackslashIsCharacter, LTrimFirst
  <2> QED BY <1>0, <2>1, <2>5, AddedWithoutNamespace DEF Automap_key
<1>5. CASE buffer = "closed"
  <2>1. ns # <<>> /\ ns[1] # "\\" /\ ns[Len(ns)] # "\\" /\ d \o ns = p \o <<>>
    BY <1>1, <1>2, <1>5 DEF Buffered, Holds
  <2>2. d \o ns = p
    BY <2>1
  <2>3. PICK w \in Seq(Characters) : w = Append(ns, "\\") \o name
    <3>1. Append(ns, "\\") \in Seq(Characters)
      BY BackslashIsCharacter, AppendProperties
    <3> QED BY <1>0, <3>1, ConcatProperties
  <2>4. w = (ns \o d) \o name
    <3>1. Append(ns, "\\") = ns \o <<"\\">>
      BY BackslashIsCharacter, AppendIsConcat
    <3> QED BY <1>1, <2>3, <3>1
  <2>5. w # <<>> /\ w[1] # "\\"
    <3>1. PICK k \in Seq(Characters) : k = ns \o d
      BY ConcatProperties
    <3>2. Len(ns) \in Nat \ {0}
      BY <2>1, EmptySeq
    <3>3. Len(k) = Len(ns) + 1 /\ k[1] = ns[1]
      BY <1>1, <3>1, <3>2, Parts
    <3>4. 1 \in 1..Len(k) /\ Len(k) # 0
      BY <3>2, <3>3
    <3>5. w = k \o name
      BY <2>4, <3>1
    <3>6. Len(w) = Len(k) + Len(name) /\ w[1] = k[1]
      BY <1>0, <3>4, <3>5, Parts
    <3>7. Len(w) # 0
      BY <1>0, <3>2, <3>3, <3>6
    <3> QED BY <2>1, <3>3, <3>6, <3>7
  <2>6. FullName(name) = d \o w
    <3>1. PICK k \in Seq(Characters) : k = ns \o d
      BY ConcatProperties
    <3>2. (d \o ns) \o d = d \o k
      BY SMTT(30), <3>1, ConcatAssociative
    <3>3. (d \o k) \o name = d \o (k \o name)
      <4>1. PICK z \in Seq(Characters) : z = name
        BY <1>0
      <4>2. (d \o k) \o z = d \o (k \o z)
        BY SMTT(30)
      <4> QED BY <4>1, <4>2
    <3> QED BY <1>3, <2>2, <2>4, <3>1, <3>2, <3>3
  <2>7. LTrim(FullName(name), "\\") = w
    BY <1>1, <2>5, <2>6, BackslashIsCharacter, LTrimFirst, ZenonT(30)
  <2>8. Added(type, ns, name) = <<type>> \o Append(ns, "\\") \o name
    BY <1>0, <2>1, AddedInNamespace
  <2>9. <<type>> \o Append(ns, "\\") \o name = <<type>> \o w
    <3>1. PICK A : type \in A /\ Characters \subseteq A
      <4> DEFINE A == Characters \cup {type}
      <4>1. type \in A /\ Characters \subseteq A
        OBVIOUS
      <4> HIDE DEF A
      <4> QED BY <4>1
    <3>2. PICK t \in Seq(A) : t = <<type>>
      BY <3>1, OneElement
    <3>3. PICK y \in Seq(Characters) : y = Append(ns, "\\")
      BY BackslashIsCharacter, AppendProperties
    <3>4. y \in Seq(A) /\ name \in Seq(A)
      <4>1. \A s \in Seq(Characters) : s \in Seq(A)
        <5> SUFFICES ASSUME NEW s \in Seq(Characters) PROVE s \in Seq(A)
          OBVIOUS
        <5>1. s \in [1..Len(s) -> A] /\ Len(s) \in Nat
          BY <3>1
        <5> QED BY <5>1, FunctionIsSeq
      <4> QED BY <1>0, <3>3, <4>1
    <3>5. (t \o y) \o name = t \o (y \o name)
      BY SMTT(30), <3>4
    <3> QED BY <2>3, <3>2, <3>3, <3>5
  <2> QED BY <2>7, <2>8, <2>9 DEF Automap_key
<1> QED BY <1>4, <1>5

\* The name in define('name', ...).
LEMMA DefinedKey ==
  ASSUME NEW name \in Names, NEW v, v = <<"'">> \o name \o <<"'">>
  PROVE  /\ Head(v) = "'" /\ ut_trim_char(v, "'") = name /\ LTrim(name, "\\") = name
<1>0. /\ name \in Seq(Characters) /\ name # <<>> /\ Len(name) \in Nat \ {0}
      /\ \A i \in 1..Len(name) : name[i] # "\\" /\ name[i] # "'"
  BY NameFacts
<1>1. PICK A : "'" \in A /\ Characters \subseteq A
  <2> DEFINE A == Characters \cup {"'"}
  <2>1. "'" \in A /\ Characters \subseteq A
    OBVIOUS
  <2> HIDE DEF A
  <2> QED BY <2>1
<1>2. name \in Seq(A)
  <2>1. name \in [1..Len(name) -> A]
    BY <1>0, <1>1
  <2> QED BY <1>0, <2>1, FunctionIsSeq
<1>3. PICK q \in Seq(A) : q = <<"'">> /\ Len(q) = 1 /\ q[1] = "'"
  BY <1>1, OneElement
<1>4. PICK w \in Seq(A) : w = name \o q
  BY <1>2, ConcatProperties
<1>5. Len(w) = Len(name) + 1 /\ w[Len(name) + 1] = "'" /\ \A i \in 1..Len(name) : w[i] = name[i]
  <2>1. /\ Len(w) = Len(name) + Len(q)
        /\ \A i \in 1..Len(name) : w[i] = name[i]
        /\ \A i \in 1..Len(q) : w[Len(name) + i] = q[i]
    BY <1>2, <1>4, Parts
  <2>2. 1 \in 1..Len(q)
    BY <1>3
  <2> QED BY <1>3, <2>1, <2>2
<1>6. v = q \o w
  <2>1. (q \o name) \o q = q \o (name \o q)
    BY <1>2
  <2> QED BY <1>3, <1>4, <2>1
<1>7. 1 \in 1..Len(name) /\ Len(name) \in 1..Len(name)
  BY <1>0
<1>8. w # <<>> /\ w[1] # "'"
  BY <1>0, <1>5, <1>7
<1>9. v = <<"'">> \o w
  BY <1>3, <1>6
<1>10. LTrim(v, "'") = w
  BY <1>1, <1>8, <1>9, LTrimFirst
<1>11. RTrim(w, "'") = name
  BY <1>0, <1>2, <1>5, <1>7, RTrimLast
<1>12. Head(v) = "'"
  BY <1>1, <1>9, TailOfConcat
<1>13. LTrim(name, "\\") = name
  BY <1>0, <1>7, LTrimSame
<1> QED BY <1>10, <1>11, <1>12, <1>13 DEF ut_trim_char

-----------------------------------------------------------------------------
\* Tokens, and the rule of each state.

\* The characters that count are different ones.
LEMMA FourCharacters ==
  /\ DoubleQuote \notin {OpenBrace, CloseBrace, Semicolon, "(", ")", "&"}
  /\ OpenBrace \notin {CloseBrace, Semicolon, "(", ")", "&"}
  /\ CloseBrace \notin {Semicolon, "(", ")", "&"}
  /\ Semicolon \notin {"(", ")", "&"}
BY Zenon DEF DoubleQuote, OpenBrace, CloseBrace, Semicolon

\* Two tuples of one element.
LEMMA OneTuples == \A c, d : <<c>> = <<d>> <=> c = d
<1> TAKE c, d
<1>1. <<c>>[1] = c /\ <<d>>[1] = d
  OBVIOUS
<1> QED BY <1>1

\* What the tokens are.
LEMMA WordFacts == \A w : Word(w).tnum = w /\ Word(w).mark = NULL
BY DEF Word, Token

LEMMA CharFacts ==
  \A c : Char(c).tnum = "char" /\ Char(c).mark = NULL /\ \A d : IsChar(Char(c), d) <=> c = d
<1>1. \A c : Char(c) = [tnum |-> "char", tvalue |-> <<c>>, mark |-> NULL]
  BY DEF Char, Token
<1> QED BY <1>1, OneTuples DEF IsChar

LEMMA OpenFacts ==
  \A what : /\ Open(what).tnum = "char" /\ Open(what).mark = what
            /\ \A d : IsChar(Open(what), d) <=> d = OpenBrace
<1>1. \A what : Open(what) = [tnum |-> "char", tvalue |-> <<OpenBrace>>, mark |-> what]
  BY DEF Open, Token
<1> QED BY <1>1, OneTuples DEF IsChar

LEMMA CloseFacts ==
  Close.tnum = "char" /\ Close.mark = "close" /\ \A d : IsChar(Close, d) <=> d = CloseBrace
<1>1. Close = [tnum |-> "char", tvalue |-> <<CloseBrace>>, mark |-> "close"]
  BY DEF Close, Token
<1> QED BY <1>1, OneTuples DEF IsChar

LEMMA CurlyOpenFacts == CurlyOpen.tnum = "T_CURLY_OPEN" /\ CurlyOpen.mark = "block"
BY DEF CurlyOpen, Token

LEMMA IdentifierFacts ==
  \A name, mark : /\ Identifier(name, mark).tnum = "T_STRING"
                  /\ Identifier(name, mark).tvalue = name
                  /\ Identifier(name, mark).mark = mark
BY DEF Identifier, Token

LEMMA EncapsedFacts ==
  \A name : /\ Encapsed(name).tnum = "T_CONSTANT_ENCAPSED_STRING"
            /\ Encapsed(name).tvalue = <<"'">> \o name \o <<"'">>
            /\ Encapsed(name).mark = "define"
BY DEF Encapsed, Token

\* A token that token_get_all() does not give as a string is no character.
LEMMA NotAChar ==
  ASSUME NEW t, t.tnum # "char"
  PROVE  \A c : ~IsChar(t, c)
BY DEF IsChar

\* The rules of a state.
LEMMA Rules ==
  ASSUME NEW t, Automap_parseTokens(t)
  PROVE  /\ Skipped(t) => Goto(state)
         /\ ~Skipped(t) =>
              /\ state = "OUT" => Out(t) \/ OutOther(t)
              /\ state = "NAMESPACE_FOUND" => NamespaceFound(t)
              /\ state = "NAMESPACE_2" => Namespace2(t)
              /\ state = "FUNCTION_FOUND" => Unnamed(t) \/ Named(t)
              /\ state = "CLASS_FOUND" => Named(t)
              /\ state = "CONST_FOUND" => ConstFound(t)
              /\ state = "SKIPPING_BLOCK_STRING" => SkippingString(t)
              /\ state = "SKIPPING_BLOCK_NOSTRING" => SkippingNoString(t)
              /\ state = "DEFINE_FOUND" => DefineFound(t)
              /\ state = "DEFINE_2" => Define2(t)
              /\ state = "SKIPPING_TO_EOL" => SkippingToEol(t)
<1>1. Skipped(t) => Goto(state)
  BY DEF Automap_parseTokens
<1>2. Out(t) \/ OutOther(t) => state = "OUT"
  BY DEF Out, OutOther
<1>3. NamespaceFound(t) => state = "NAMESPACE_FOUND"
  BY DEF NamespaceFound
<1>4. Namespace2(t) => state = "NAMESPACE_2"
  BY DEF Namespace2
<1>5. Unnamed(t) => state = "FUNCTION_FOUND"
  BY DEF Unnamed
<1>6. Named(t) => state \in {"FUNCTION_FOUND", "CLASS_FOUND"}
  BY DEF Named
<1>7. ConstFound(t) => state = "CONST_FOUND"
  BY DEF ConstFound
<1>8. SkippingString(t) => state = "SKIPPING_BLOCK_STRING"
  BY DEF SkippingString
<1>9. SkippingNoString(t) => state = "SKIPPING_BLOCK_NOSTRING"
  BY DEF SkippingNoString
<1>10. DefineFound(t) => state = "DEFINE_FOUND"
  BY DEF DefineFound
<1>11. Define2(t) => state = "DEFINE_2"
  BY DEF Define2
<1>12. SkippingToEol(t) => state = "SKIPPING_TO_EOL"
  BY DEF SkippingToEol
<1>13. ~Skipped(t) =>
         \/ Out(t) \/ OutOther(t)
         \/ NamespaceFound(t) \/ Namespace2(t)
         \/ Unnamed(t) \/ Named(t) \/ ConstFound(t)
         \/ SkippingString(t) \/ SkippingNoString(t)
         \/ DefineFound(t) \/ Define2(t) \/ SkippingToEol(t)
  BY DEF Automap_parseTokens
<1> QED BY <1>1, <1>2, <1>3, <1>4, <1>5, <1>6, <1>7, <1>8, <1>9, <1>10, <1>11, <1>12, <1>13

\* What PHP notes.
Calm == ns' = ns /\ namespace' = namespace /\ symbol' = NULL /\ declared' = NULL

\* Most tokens declare nothing, and do not nest; ...
LEMMA NoteNothing ==
  ASSUME NEW t, Note(t),
         t.mark = NULL \/ (~Exposed(skip_blocks, nesting) /\ t.mark \in {"F", "L", "C", "define", NULL})
  PROVE  nesting' = nesting /\ namespace' = namespace /\ declared' = NULL
<1>1. NULL \notin {"named", "block", "space", "close", "global", "namespace", "define", "F", "L", "C"}
  BY ConstantsAssumption
<1>2. t.mark \notin {"named", "block", "space", "close", "global", "namespace"}
  BY <1>1
<1>3. nesting' = nesting /\ namespace' = namespace
  BY <1>2 DEF Note
<1>4. Outside <=> Exposed(skip_blocks, nesting)
  BY DEF Outside, Exposed
<1>5. declared' = NULL
  BY <1>1, <1>4 DEF Note
<1> QED BY <1>3, <1>5

\* ... the others open something or close it.
LEMMA NoteNesting ==
  ASSUME NEW t, Note(t), t.mark \in {"named", "block", "space", "close"}
  PROVE  /\ nesting' = IF t.mark = "close" THEN Front(nesting) ELSE Append(nesting, t.mark)
         /\ namespace' = namespace /\ declared' = NULL
<1>1. nesting' = IF t.mark = "close" THEN Front(nesting) ELSE Append(nesting, t.mark)
  BY DEF Note
<1>2. namespace' = namespace /\ declared' = NULL
  BY DEF Note
<1> QED BY <1>1, <1>2

-----------------------------------------------------------------------------
\* Tokens that change nothing.

Along(m) == state = m.state /\ block_level = m.level /\ nesting = m.nesting
Comes(n) == state' = n.state /\ block_level' = n.level /\ nesting' = n.nesting
Reads(t) == Automap_parseTokens(t) /\ Note(t)
Idle == state' = state /\ block_level' = block_level /\ ns' = ns /\ symbol' = NULL

\* No token of Plain or Inner is a brace or a double quote.
LEMMA PlainFacts ==
  ASSUME NEW t \in Plain
  PROVE  /\ t.mark = NULL /\ t.tnum \notin Keywords /\ t.tnum \notin {"T_STRING", "T_CURLY_OPEN"}
         /\ ~IsChar(t, OpenBrace) /\ ~IsChar(t, CloseBrace) /\ ~IsChar(t, DoubleQuote)
<1>1. CASE \E w \in {"T_VARIABLE", "T_IF", "T_LNUMBER", "T_WHITESPACE", "T_COMMENT",
                     "T_START_HEREDOC", "T_END_HEREDOC", "T_ENCAPSED_AND_WHITESPACE"} : t = Word(w)
  <2>1. PICK w \in {"T_VARIABLE", "T_IF", "T_LNUMBER", "T_WHITESPACE", "T_COMMENT",
                     "T_START_HEREDOC", "T_END_HEREDOC", "T_ENCAPSED_AND_WHITESPACE"} : t = Word(w)
    BY <1>1
  <2>2. t.tnum = w /\ t.mark = NULL
    BY <2>1, WordFacts
  <2> QED BY <2>2, NotAChar DEF Keywords
<1>2. CASE \E c \in {"(", ")", Semicolon, "&"} : t = Char(c)
  <2>1. PICK c \in {"(", ")", Semicolon, "&"} : t = Char(c)
    BY <1>2
  <2>2. t.tnum = "char" /\ t.mark = NULL /\ \A d : IsChar(t, d) <=> c = d
    BY <2>1, CharFacts
  <2> QED BY <2>2, FourCharacters DEF Keywords
<1> QED BY <1>1, <1>2 DEF Plain

LEMMA InnerFacts ==
  ASSUME NEW t \in Inner
  PROVE  /\ t.mark \in {"F", "L", "C", "define", NULL} /\ t.tnum # "T_CURLY_OPEN"
         /\ ~IsChar(t, OpenBrace) /\ ~IsChar(t, CloseBrace) /\ ~IsChar(t, DoubleQuote)
<1>1. CASE \E w \in {"T_FUNCTION", "T_CLASS", "T_CONST"} : t = Word(w)
  BY <1>1, WordFacts, NotAChar
<1>2. ASSUME NEW name, NEW mark \in {"F", "L", "C", NULL}, t = Identifier(name, mark)
      PROVE  t.mark \in {"F", "L", "C", NULL} /\ t.tnum = "T_STRING"
  BY <1>2, IdentifierFacts
<1>3. CASE \E name : t = Encapsed(name)
  BY <1>3, EncapsedFacts, NotAChar
<1>4. \/ \E w \in {"T_FUNCTION", "T_CLASS", "T_CONST"} : t = Word(w)
      \/ \E name, mark : t = Identifier(name, mark) /\ mark \in {"F", "L", "C", NULL}
      \/ \E name : t = Encapsed(name)
  <2>1. CASE t = Identifier(<<"define">>, NULL)
    <3>1. PICK name : name = <<"define">>
      OBVIOUS
    <3>2. t = Identifier(name, NULL)
      BY <2>1, <3>1
    <3>3. NULL \in {"F", "L", "C", NULL}
      OBVIOUS
    <3> QED BY <3>2, <3>3, Zenon
  <2> QED BY <2>1 DEF Inner
<1> QED BY <1>1, <1>2, <1>3, <1>4, NotAChar

\* In a body or a block, a token that is no brace and no quote changes nothing.
LEMMA ParseInside ==
  ASSUME NEW t, Automap_parseTokens(t), block_level \in Nat,
         state \in {"SKIPPING_BLOCK_NOSTRING", "SKIPPING_BLOCK_STRING"},
         t.tnum # "T_CURLY_OPEN", ~IsChar(t, OpenBrace), ~IsChar(t, CloseBrace), ~IsChar(t, DoubleQuote)
  PROVE  Idle
<1>1. CASE Skipped(t)
  BY <1>1, Rules DEF Goto, Idle
<1>2. CASE ~Skipped(t) /\ state = "SKIPPING_BLOCK_STRING"
  <2>1. SkippingString(t)
    BY <1>2, Rules
  <2> QED BY <2>1 DEF SkippingString, Goto, Idle
<1>3. CASE ~Skipped(t) /\ state = "SKIPPING_BLOCK_NOSTRING"
  <2>1. SkippingNoString(t)
    BY <1>3, Rules
  <2>2. block_level' = block_level + 0 /\ state' = state /\ symbol' = NULL /\ ns' = ns
    BY <2>1 DEF SkippingNoString
  <2> QED BY <2>2 DEF Idle
<1> QED BY <1>1, <1>2, <1>3

\* Outside, neither does one that is no keyword, no name and no brace that counts.
LEMMA ParseOutside ==
  ASSUME NEW t, Automap_parseTokens(t), state = "OUT",
         t.tnum \notin Keywords, t.tnum # "T_STRING", ~IsChar(t, OpenBrace) \/ ~skip_blocks
  PROVE  Idle
<1>1. CASE Skipped(t)
  BY <1>1, Rules DEF Goto, Idle
<1>2. CASE ~Skipped(t)
  <2>1. Out(t) \/ OutOther(t)
    BY <1>2, Rules
  <2>2. OutOther(t)
    BY <2>1 DEF Out
  <2> QED BY <2>2 DEF OutOther, Goto, Idle
<1> QED BY <1>1, <1>2

\* Only spaces and comments are skipped.
LEMMA SkippedFacts ==
  ASSUME NEW t, t.tnum \notin {"T_COMMENT", "T_DOC_COMMENT", "T_WHITESPACE"}
  PROVE  ~Skipped(t)
BY DEF Skipped

\* A token that leaves the mode as it is.
LEMMA ReadStays ==
  ASSUME NEW m \in Mode, Along(m), NEW t, Reads(t), Stays(skip_blocks, m, t)
  PROVE  Comes(m) /\ Calm
<1>0. /\ Automap_parseTokens(t) /\ Note(t) /\ block_level \in Nat
      /\ state = m.state /\ nesting = m.nesting /\ block_level = m.level
  BY DEF Reads, Along, Mode
<1>1. SUFFICES Idle /\ nesting' = nesting /\ namespace' = namespace /\ declared' = NULL
  BY <1>0 DEF Comes, Calm, Idle
<1>2. CASE Settled(skip_blocks, m) /\ t \in Plain
  <2>1. nesting' = nesting /\ namespace' = namespace /\ declared' = NULL
    BY <1>0, <1>2, PlainFacts, NoteNothing
  <2>2. CASE Free(m)
    BY <1>0, <1>2, <2>1, <2>2, PlainFacts, ParseOutside DEF Free
  <2>3. CASE Skipping(skip_blocks, m)
    <3>1. state \in {"SKIPPING_BLOCK_NOSTRING", "SKIPPING_BLOCK_STRING"}
      BY <1>0, <2>3 DEF Skipping
    <3> QED BY <1>0, <1>2, <2>1, <3>1, PlainFacts, ParseInside
  <2> QED BY <1>2, <2>2, <2>3 DEF Settled
<1>3. CASE Free(m) /\ t = Char(DoubleQuote)
  <2>1. t.tnum = "char" /\ t.mark = NULL /\ ~IsChar(t, OpenBrace)
    BY <1>3, CharFacts, FourCharacters
  <2>2. t.tnum \notin Keywords
    BY <2>1 DEF Keywords
  <2>3. state = "OUT"
    BY <1>0, <1>3 DEF Free
  <2> QED BY <1>0, <2>1, <2>2, <2>3, NoteNothing, ParseOutside
<1>4. CASE Skipping(skip_blocks, m) /\ t \in Inner
  <2>1. ~Exposed(skip_blocks, nesting)
    BY <1>0, <1>4 DEF Skipping
  <2>2. state \in {"SKIPPING_BLOCK_NOSTRING", "SKIPPING_BLOCK_STRING"}
    BY <1>0, <1>4 DEF Skipping
  <2>3. nesting' = nesting /\ namespace' = namespace /\ declared' = NULL
    BY <1>0, <1>4, <2>1, InnerFacts, NoteNothing
  <2> QED BY <1>0, <1>4, <2>2, <2>3, InnerFacts, ParseInside
<1>5. CASE m.state = "FUNCTION_FOUND" /\ t \in {Word("T_WHITESPACE"), Word("T_COMMENT"), Char("&")}
  <2>1. t.mark = NULL
    BY <1>5, WordFacts, CharFacts
  <2>2. CASE t = Char("&")
    <3>1. t.tnum = "char" /\ IsChar(t, "&") /\ ~IsChar(t, "(")
      BY <2>2, CharFacts
    <3>2. Unnamed(t) \/ Named(t)
      BY <1>0, <1>5, <3>1, Rules, SkippedFacts
    <3>3. Unnamed(t)
      BY <1>0, <1>5, <3>1, <3>2 DEF Named
    <3> QED BY <1>0, <2>1, <3>1, <3>3, NoteNothing DEF Unnamed, Goto, Idle
  <2>3. CASE t # Char("&")
    <3>1. t.tnum \in {"T_WHITESPACE", "T_COMMENT"}
      BY <1>5, <2>3, WordFacts
    <3>2. Skipped(t)
      BY <1>0, <1>5, <3>1 DEF Skipped
    <3> QED BY <1>0, <2>1, <3>2, NoteNothing, Rules DEF Goto, Idle
  <2> QED BY <2>2, <2>3
<1>6. CASE m.state = "SKIPPING_BLOCK_NOSTRING" /\ m.level = 0 /\ t \in {Char("("), Char(")")}
  <2>1. t \in Plain
    BY <1>6 DEF Plain
  <2> QED BY <1>0, <1>6, <2>1, PlainFacts, NoteNothing, ParseInside
<1>7. CASE m.state = "SKIPPING_TO_EOL" /\ t \in {Word("T_LNUMBER"), Char(")")}
  <2>1. t.mark = NULL /\ t.tnum \in {"T_LNUMBER", "char"} /\ ~IsChar(t, Semicolon)
    <3>1. CASE t = Word("T_LNUMBER")
      BY <3>1, WordFacts, NotAChar
    <3>2. CASE t = Char(")")
      BY <3>2, CharFacts, FourCharacters
    <3> QED BY <1>7, <3>1, <3>2
  <2>2. SkippingToEol(t)
    BY <1>0, <1>7, <2>1, Rules, SkippedFacts
  <2> QED BY <1>0, <2>1, <2>2, NoteNothing DEF SkippingToEol, Goto, Idle
<1> QED BY <1>2, <1>3, <1>4, <1>5, <1>6, <1>7 DEF Stays

-----------------------------------------------------------------------------
\* Tokens that change the state of the parser, and declare nothing.

\* "function", "class" and "const".
LEMMA ReadKeyword ==
  ASSUME NEW m \in Mode, Along(m), NEW t, Reads(t), NEW n, Keyword(skip_blocks, m, t, n)
  PROVE  Comes(n) /\ n.buffer = m.buffer /\ Calm
<1>1. PICK w \in {"T_FUNCTION", "T_CLASS", "T_CONST"} :
        Free(m) /\ t = Word(w) /\ n = [m EXCEPT !.state = Found[w]]
  BY DEF Keyword
<1>2. t.tnum = w /\ t.mark = NULL
  BY <1>1, WordFacts
<1>3. state = "OUT" /\ m.state = "OUT"
  BY <1>1 DEF Along, Free
<1>4. nesting' = nesting /\ namespace' = namespace /\ declared' = NULL
  BY <1>2, NoteNothing DEF Reads
<1>5. Out(t) \/ OutOther(t)
  BY <1>2, <1>3, Rules, SkippedFacts DEF Reads
<1>6. Out(t)
  BY <1>2, <1>5 DEF OutOther, Keywords
<1>7. state' = Found[w]
  BY <1>2, <1>6 DEF Out, Found
<1>8. ns' = ns /\ symbol' = NULL /\ block_level' = block_level
  BY <1>2, <1>6 DEF Out
<1>9. n.state = Found[w] /\ n.level = m.level /\ n.nesting = m.nesting /\ n.buffer = m.buffer
  BY <1>1 DEF Mode
<1> QED BY <1>4, <1>7, <1>8, <1>9 DEF Comes, Calm, Along

\* The "(" of a closure.
LEMMA ReadHasNoName ==
  ASSUME NEW m \in Mode, Along(m), NEW t, Reads(t), NEW n, HasNoName(skip_blocks, m, t, n)
  PROVE  Comes(n) /\ n.buffer = m.buffer /\ Calm
<1>1. state = "FUNCTION_FOUND" /\ t = Char("(") /\ n = [m EXCEPT !.state = "OUT"]
  BY DEF HasNoName, Along
<1>2. t.tnum = "char" /\ t.mark = NULL /\ IsChar(t, "(") /\ ~IsChar(t, "&")
  BY <1>1, CharFacts
<1>3. nesting' = nesting /\ namespace' = namespace /\ declared' = NULL
  BY <1>2, NoteNothing DEF Reads
<1>4. Unnamed(t) \/ Named(t)
  BY <1>1, <1>2, Rules, SkippedFacts DEF Reads
<1>5. Unnamed(t)
  BY <1>1, <1>2, <1>4 DEF Named
<1>6. state' = "OUT" /\ ns' = ns /\ symbol' = NULL /\ block_level' = block_level
  BY <1>2, <1>5 DEF Unnamed, Goto
<1>7. n.state = "OUT" /\ n.level = m.level /\ n.nesting = m.nesting /\ n.buffer = m.buffer
  BY <1>1 DEF Mode
<1> QED BY <1>3, <1>6, <1>7 DEF Comes, Calm, Along

\* The brace of a function or a class.
LEMMA ReadBody ==
  ASSUME NEW m \in Mode, Along(m), NEW t, Reads(t), NEW n, Body(skip_blocks, m, t, n)
  PROVE  Comes(n) /\ n.buffer = m.buffer /\ Calm
<1>1. /\ state = "SKIPPING_BLOCK_NOSTRING" /\ block_level = 0 /\ t = Open("named")
      /\ n = Enters(m, "SKIPPING_BLOCK_NOSTRING", 1, "named")
  BY DEF Body, Along
<1>2. /\ t.tnum = "char" /\ t.mark = "named" /\ IsChar(t, OpenBrace)
      /\ ~IsChar(t, DoubleQuote) /\ ~IsChar(t, CloseBrace)
  BY <1>1, OpenFacts, FourCharacters
<1>3. nesting' = Append(nesting, "named") /\ namespace' = namespace /\ declared' = NULL
  BY <1>2, NoteNesting DEF Reads
<1>4. SkippingNoString(t)
  BY <1>1, <1>2, Rules, SkippedFacts DEF Reads
<1>5. block_level' = 1 /\ state' = "SKIPPING_BLOCK_NOSTRING" /\ symbol' = NULL /\ ns' = ns
  BY <1>1, <1>2, <1>4 DEF SkippingNoString
<1>6. /\ n.state = "SKIPPING_BLOCK_NOSTRING" /\ n.level = 1
      /\ n.nesting = Append(m.nesting, "named") /\ n.buffer = m.buffer
  <2>1. "SKIPPING_BLOCK_NOSTRING" \in States /\ "named" \in Marks
    BY DEF States, Marks
  <2>2. n = Enters(m, "SKIPPING_BLOCK_NOSTRING", 1, "named")
    BY <1>1
  <2> QED BY <2>1, <2>2, EntersFree
<1> QED BY <1>3, <1>5, <1>6 DEF Comes, Calm, Along

\* define, its "(" and its ";".
LEMMA ReadDefine ==
  ASSUME NEW m \in Mode, Along(m), NEW t, Reads(t), NEW n,
         \/ DefineWord(skip_blocks, m, t, n)
         \/ DefineParen(skip_blocks, m, t, n)
         \/ DefineEnd(skip_blocks, m, t, n)
  PROVE  Comes(n) /\ n.buffer = m.buffer /\ Calm
<1>0. \A where \in States : /\ [m EXCEPT !.state = where].state = where
                            /\ [m EXCEPT !.state = where].level = m.level
                            /\ [m EXCEPT !.state = where].nesting = m.nesting
                            /\ [m EXCEPT !.state = where].buffer = m.buffer
  BY DEF Mode
<1>1. ASSUME NEW where \in States, n = [m EXCEPT !.state = where], Goto(where), t.mark = NULL
      PROVE  Comes(n) /\ n.buffer = m.buffer /\ Calm
  <2>1. nesting' = nesting /\ namespace' = namespace /\ declared' = NULL
    BY <1>1, NoteNothing DEF Reads
  <2> QED BY <1>0, <1>1, <2>1 DEF Comes, Calm, Along, Goto
<1>2. CASE DefineWord(skip_blocks, m, t, n)
  <2>1. PICK name : name = <<"define">>
    OBVIOUS
  <2>2. state = "OUT" /\ t = Identifier(name, NULL) /\ n = [m EXCEPT !.state = "DEFINE_FOUND"]
    BY <1>2, <2>1 DEF DefineWord, Along, Free
  <2>3. t.tnum = "T_STRING" /\ t.tvalue = name /\ t.mark = NULL
    BY <2>2, IdentifierFacts
  <2>4. ~IsChar(t, OpenBrace) /\ t.tnum \notin Keywords
    BY <2>3, NotAChar DEF Keywords
  <2>5. Out(t) \/ OutOther(t)
    BY <2>2, <2>3, Rules, SkippedFacts DEF Reads
  <2>6. Goto("DEFINE_FOUND")
    BY <2>1, <2>3, <2>4, <2>5 DEF Out, OutOther
  <2>7. "DEFINE_FOUND" \in States
    BY DEF States
  <2> QED BY <1>1, <2>2, <2>3, <2>6, <2>7
<1>3. CASE DefineParen(skip_blocks, m, t, n)
  <2>1. state = "DEFINE_FOUND" /\ t = Char("(") /\ n = [m EXCEPT !.state = "DEFINE_2"]
    BY <1>3 DEF DefineParen, Along
  <2>2. t.tnum = "char" /\ t.mark = NULL /\ IsChar(t, "(")
    BY <2>1, CharFacts
  <2>3. DefineFound(t)
    BY <2>1, <2>2, Rules, SkippedFacts DEF Reads
  <2>4. Goto("DEFINE_2")
    BY <2>2, <2>3 DEF DefineFound
  <2>5. "DEFINE_2" \in States
    BY DEF States
  <2> QED BY <1>1, <2>1, <2>2, <2>4, <2>5
<1>4. CASE DefineEnd(skip_blocks, m, t, n)
  <2>1. state = "SKIPPING_TO_EOL" /\ t = Char(Semicolon) /\ n = [m EXCEPT !.state = "OUT"]
    BY <1>4 DEF DefineEnd, Along
  <2>2. t.tnum = "char" /\ t.mark = NULL /\ IsChar(t, Semicolon)
    BY <2>1, CharFacts
  <2>3. SkippingToEol(t)
    BY <2>1, <2>2, Rules, SkippedFacts DEF Reads
  <2>4. Goto("OUT")
    BY <2>2, <2>3 DEF SkippingToEol
  <2>5. "OUT" \in States
    BY DEF States
  <2> QED BY <1>1, <2>1, <2>2, <2>4, <2>5
<1> QED BY <1>2, <1>3, <1>4

\* The space, the ";" and the "{" of a namespace statement.
LEMMA ReadNamespaceAround ==
  ASSUME NEW m \in Mode, Along(m), NEW t, Reads(t), NEW n,
         \/ NamespaceSpace(skip_blocks, m, t, n)
         \/ NamespaceEnd(skip_blocks, m, t, n)
         \/ NamespaceBody(skip_blocks, m, t, n)
  PROVE  Comes(n) /\ n.buffer = m.buffer /\ Calm
<1>1. CASE NamespaceSpace(skip_blocks, m, t, n)
  <2>1. state = "NAMESPACE_FOUND" /\ t = Word("T_WHITESPACE") /\ n = [m EXCEPT !.state = "NAMESPACE_2"]
    BY <1>1 DEF NamespaceSpace, Along
  <2>2. t.tnum = "T_WHITESPACE" /\ t.mark = NULL
    BY <2>1, WordFacts
  <2>3. ~Skipped(t)
    BY <2>1, <2>2 DEF Skipped
  <2>4. NamespaceFound(t)
    BY <2>1, <2>3, Rules DEF Reads
  <2>5. state' = "NAMESPACE_2" /\ block_level' = block_level /\ ns' = ns /\ symbol' = NULL
    BY <2>2, <2>4 DEF NamespaceFound, Goto
  <2>6. nesting' = nesting /\ namespace' = namespace /\ declared' = NULL
    BY <2>2, NoteNothing DEF Reads
  <2>7. n.state = "NAMESPACE_2" /\ n.level = m.level /\ n.nesting = m.nesting /\ n.buffer = m.buffer
    BY <2>1 DEF Mode
  <2> QED BY <2>5, <2>6, <2>7 DEF Comes, Calm, Along
<1>2. CASE NamespaceEnd(skip_blocks, m, t, n)
  <2>1. state = "NAMESPACE_2" /\ t = Char(Semicolon) /\ n = [m EXCEPT !.state = "OUT"]
    BY <1>2 DEF NamespaceEnd, Along
  <2>2. t.tnum = "char" /\ t.mark = NULL
    BY <2>1, CharFacts
  <2>3. Namespace2(t)
    BY <2>1, <2>2, Rules, SkippedFacts DEF Reads
  <2>4. state' = "OUT" /\ ns' = ns /\ symbol' = NULL /\ block_level' = block_level
    BY <2>2, <2>3 DEF Namespace2
  <2>5. nesting' = nesting /\ namespace' = namespace /\ declared' = NULL
    BY <2>2, NoteNothing DEF Reads
  <2>6. n.state = "OUT" /\ n.level = m.level /\ n.nesting = m.nesting /\ n.buffer = m.buffer
    BY <2>1 DEF Mode
  <2> QED BY <2>4, <2>5, <2>6 DEF Comes, Calm, Along
<1>3. CASE NamespaceBody(skip_blocks, m, t, n)
  <2>1. state = "NAMESPACE_2" /\ t = Open("space") /\ n = Enters(m, "OUT", m.level, "space")
    BY <1>3 DEF NamespaceBody, Along
  <2>2. t.tnum = "char" /\ t.mark = "space"
    BY <2>1, OpenFacts
  <2>3. Namespace2(t)
    BY <2>1, <2>2, Rules, SkippedFacts DEF Reads
  <2>4. state' = "OUT" /\ ns' = ns /\ symbol' = NULL /\ block_level' = block_level
    BY <2>2, <2>3 DEF Namespace2
  <2>5. nesting' = Append(nesting, "space") /\ namespace' = namespace /\ declared' = NULL
    BY <2>2, NoteNesting DEF Reads
  <2>6. /\ n.state = "OUT" /\ n.level = m.level
        /\ n.nesting = Append(m.nesting, "space") /\ n.buffer = m.buffer
    <3>1. "OUT" \in States /\ "space" \in Marks /\ m.level \in Nat
      BY DEF States, Marks, Mode
    <3> QED BY <2>1, <3>1, EntersType
  <2> QED BY <2>4, <2>5, <2>6 DEF Comes, Calm, Along
<1> QED BY <1>1, <1>2, <1>3

\* How the parser counts.
LEMMA ParseOpening ==
  ASSUME NEW t, Automap_parseTokens(t), block_level \in Nat, ~Skipped(t),
         state = "SKIPPING_BLOCK_NOSTRING",
         IsChar(t, OpenBrace) \/ t.tnum = "T_CURLY_OPEN", ~IsChar(t, DoubleQuote), ~IsChar(t, CloseBrace)
  PROVE  block_level' = block_level + 1 /\ state' = state /\ ns' = ns /\ symbol' = NULL
<1>1. SkippingNoString(t)
  BY Rules
<1> QED BY <1>1 DEF SkippingNoString

\* A closing brace, and a token in a string.
LEMMA ParseClosing ==
  ASSUME NEW t, Automap_parseTokens(t), block_level \in Nat, ~Skipped(t),
         state = "SKIPPING_BLOCK_NOSTRING",
         IsChar(t, CloseBrace), t.tnum # "T_CURLY_OPEN", ~IsChar(t, DoubleQuote), ~IsChar(t, OpenBrace)
  PROVE  /\ block_level' = block_level - 1 /\ ns' = ns /\ symbol' = NULL
         /\ state' = IF block_level = 1 THEN "OUT" ELSE state
<1>1. SkippingNoString(t)
  BY Rules
<1>2. block_level' = block_level + (-1) /\ ns' = ns /\ symbol' = NULL
  BY <1>1 DEF SkippingNoString
<1>3. state' = IF block_level' = 0 THEN "OUT" ELSE state
  BY <1>1 DEF SkippingNoString
<1> QED BY <1>2, <1>3

LEMMA ParseInString ==
  ASSUME NEW t, Automap_parseTokens(t), ~Skipped(t),
         state = "SKIPPING_BLOCK_STRING", ~IsChar(t, DoubleQuote)
  PROVE  Idle
<1>1. SkippingString(t)
  BY Rules
<1> QED BY <1>1 DEF SkippingString, Goto, Idle

\* An opening brace in a body or a block that is skipped, ...
LEMMA ReadEnter ==
  ASSUME NEW m \in Mode, Along(m), NEW t, Reads(t), NEW n, Enter(skip_blocks, m, t, n)
  PROVE  Comes(n) /\ n.buffer = m.buffer /\ Calm
<1>1. PICK mark \in {"named", "block"} :
        /\ Skipping(skip_blocks, m)
        /\ t = Open(mark) \/ (t = CurlyOpen /\ mark = "block")
        /\ n = Enters(m, m.state, m.level + Counted(m), mark)
  BY DEF Enter
<1>2. /\ t.mark = mark /\ ~IsChar(t, DoubleQuote) /\ ~IsChar(t, CloseBrace) /\ ~Skipped(t)
      /\ IsChar(t, OpenBrace) \/ t.tnum = "T_CURLY_OPEN"
  <2>1. CASE t = Open(mark)
    <3>1. t.tnum = "char" /\ t.mark = mark /\ \A d : IsChar(t, d) <=> d = OpenBrace
      BY <2>1, OpenFacts
    <3> QED BY <3>1, FourCharacters, SkippedFacts
  <2>2. CASE t = CurlyOpen /\ mark = "block"
    <3>1. t.tnum = "T_CURLY_OPEN" /\ t.mark = mark
      BY <2>2, CurlyOpenFacts
    <3> QED BY <3>1, NotAChar, SkippedFacts
  <2> QED BY <1>1, <2>1, <2>2
<1>3. nesting' = Append(nesting, mark) /\ namespace' = namespace /\ declared' = NULL
  BY <1>2, NoteNesting DEF Reads
<1>4. block_level \in Nat /\ m.level = block_level /\ m.state = state /\ m.nesting = nesting
  BY DEF Along, Mode
<1>5. block_level' = block_level + Counted(m) /\ state' = state /\ ns' = ns /\ symbol' = NULL
  <2>1. CASE state = "SKIPPING_BLOCK_NOSTRING"
    <3>1. block_level' = block_level + 1 /\ state' = state /\ ns' = ns /\ symbol' = NULL
      BY <1>2, <1>4, <2>1, ParseOpening DEF Reads
    <3>2. Counted(m) = 1
      BY <1>4, <2>1 DEF Counted
    <3> QED BY <3>1, <3>2
  <2>2. CASE state = "SKIPPING_BLOCK_STRING"
    <3>1. Idle
      BY <1>2, <2>2, ParseInString DEF Reads
    <3>2. Counted(m) = 0
      BY <1>4, <2>2 DEF Counted
    <3> QED BY <1>4, <3>1, <3>2 DEF Idle
  <2> QED BY <1>1, <1>4, <2>1, <2>2 DEF Skipping
<1>6. /\ n.state = m.state /\ n.level = m.level + Counted(m)
      /\ n.nesting = Append(m.nesting, mark) /\ n.buffer = m.buffer
  <2>1. m.state \in States /\ mark \in Marks /\ m.level + Counted(m) \in Nat
    BY <1>1 DEF Skipping, States, Marks, Mode, Counted
  <2>2. n = Enters(m, m.state, m.level + Counted(m), mark)
    BY <1>1
  <2> QED BY <2>1, <2>2, EntersType
<1> QED BY <1>3, <1>4, <1>5, <1>6 DEF Comes, Calm

\* ... and elsewhere.
LEMMA ReadEnterFree ==
  ASSUME NEW m \in Mode, Along(m), NEW t, Reads(t), NEW n, EnterFree(skip_blocks, m, t, n)
  PROVE  Comes(n) /\ n.buffer = m.buffer /\ Calm
<1>0. "OUT" \in States /\ "SKIPPING_BLOCK_NOSTRING" \in States /\ "block" \in Marks
  BY DEF States, Marks
<1>1. state = "OUT" /\ block_level = 0 /\ m.nesting = nesting
  BY DEF EnterFree, Along, Free
<1>2. /\ t = Open("block") \/ t = CurlyOpen
      /\ t.mark = "block" /\ t.tnum \notin Keywords /\ t.tnum # "T_STRING" /\ ~Skipped(t)
      /\ t = CurlyOpen => ~IsChar(t, OpenBrace)
  <2>1. CASE t = Open("block")
    <3>1. t.tnum = "char" /\ t.mark = "block"
      BY <2>1, OpenFacts
    <3>2. CurlyOpen.tnum # "char"
      BY CurlyOpenFacts
    <3>3. t # CurlyOpen
      BY <3>1, <3>2
    <3> QED BY <2>1, <3>1, <3>3, SkippedFacts DEF Keywords
  <2>2. CASE t = CurlyOpen
    <3>1. t.tnum = "T_CURLY_OPEN" /\ t.mark = "block"
      BY <2>2, CurlyOpenFacts
    <3> QED BY <2>2, <3>1, NotAChar, SkippedFacts DEF Keywords
  <2> QED BY <2>1, <2>2 DEF EnterFree
<1>3. nesting' = Append(nesting, "block") /\ namespace' = namespace /\ declared' = NULL
  BY <1>2, NoteNesting DEF Reads
<1>4. CASE n = Enters(m, "OUT", 0, "block") /\ (t = CurlyOpen \/ ~skip_blocks)
  <2>1. /\ n.state = "OUT" /\ n.level = 0
        /\ n.nesting = Append(m.nesting, "block") /\ n.buffer = m.buffer
    BY <1>0, <1>4, EntersFree
  <2>2. Idle
    BY <1>1, <1>2, <1>4, ParseOutside DEF Reads
  <2> QED BY <1>1, <1>3, <2>1, <2>2 DEF Comes, Calm, Idle
<1>5. CASE t = Open("block") /\ skip_blocks /\ n = Enters(m, "SKIPPING_BLOCK_NOSTRING", 1, "block")
  <2>1. /\ n.state = "SKIPPING_BLOCK_NOSTRING" /\ n.level = 1
        /\ n.nesting = Append(m.nesting, "block") /\ n.buffer = m.buffer
    BY <1>0, <1>5, EntersFree
  <2>2. IsChar(t, OpenBrace)
    BY <1>5, OpenFacts
  <2>3. Out(t) \/ OutOther(t)
    BY <1>1, <1>2, Rules DEF Reads
  <2>4. OutOther(t)
    BY <1>2, <2>3 DEF Out
  <2>5. state' = "SKIPPING_BLOCK_NOSTRING" /\ block_level' = 1 /\ symbol' = NULL /\ ns' = ns
    BY <1>5, <2>2, <2>4 DEF OutOther
  <2> QED BY <1>1, <1>3, <2>1, <2>5 DEF Comes, Calm
<1> QED BY <1>4, <1>5 DEF EnterFree

\* A closing brace: the parser is back where PHP is.
LEMMA ReadLeave ==
  ASSUME NEW m \in Mode, Along(m), NEW t, Reads(t), NEW n, Leave(skip_blocks, m, t, n)
  PROVE  Comes(n) /\ n.buffer = m.buffer /\ Calm
<1>1. /\ Settled(skip_blocks, m) /\ m.nesting # <<>> /\ t = Close
      /\ n = [m EXCEPT !.state = IF Counted(m) = 1 /\ m.level = 1 THEN "OUT" ELSE m.state,
                       !.level = m.level - Counted(m), !.nesting = Front(m.nesting)]
  BY DEF Leave
<1>2. t.tnum = "char" /\ t.mark = "close" /\ \A d : IsChar(t, d) <=> d = CloseBrace
  BY <1>1, CloseFacts
<1>3. nesting' = Front(nesting) /\ namespace' = namespace /\ declared' = NULL
  BY <1>2, NoteNesting DEF Reads
<1>4. block_level \in Nat /\ m.level = block_level /\ m.state = state /\ m.nesting = nesting
  BY DEF Along, Mode
<1>5. /\ IsChar(t, CloseBrace) /\ ~IsChar(t, OpenBrace) /\ ~IsChar(t, DoubleQuote) /\ ~Skipped(t)
      /\ t.tnum \notin Keywords /\ t.tnum # "T_STRING" /\ t.tnum # "T_CURLY_OPEN"
  BY <1>2, FourCharacters, SkippedFacts DEF Keywords
<1>6. /\ block_level' = block_level - Counted(m) /\ ns' = ns /\ symbol' = NULL
      /\ state' = IF Counted(m) = 1 /\ m.level = 1 THEN "OUT" ELSE state
  <2>1. CASE state = "OUT"
    <3>1. Idle
      BY <1>5, <2>1, ParseOutside DEF Reads
    <3>2. Counted(m) = 0
      BY <1>4, <2>1 DEF Counted
    <3> QED BY <1>4, <3>1, <3>2 DEF Idle
  <2>2. CASE state = "SKIPPING_BLOCK_NOSTRING"
    <3>1. /\ block_level' = block_level - 1 /\ ns' = ns /\ symbol' = NULL
          /\ state' = IF block_level = 1 THEN "OUT" ELSE state
      BY <1>4, <1>5, <2>2, ParseClosing DEF Reads
    <3>2. Counted(m) = 1
      BY <1>4, <2>2 DEF Counted
    <3> QED BY <1>4, <3>1, <3>2
  <2>3. CASE state = "SKIPPING_BLOCK_STRING"
    <3>1. Idle
      BY <1>5, <2>3, ParseInString DEF Reads
    <3>2. Counted(m) = 0
      BY <1>4, <2>3 DEF Counted
    <3> QED BY <1>4, <3>1, <3>2 DEF Idle
  <2> QED BY <1>1, <1>4, <2>1, <2>2, <2>3 DEF Settled, Free, Skipping
<1>7. /\ n.state = IF Counted(m) = 1 /\ m.level = 1 THEN "OUT" ELSE m.state
      /\ n.level = m.level - Counted(m) /\ n.nesting = Front(m.nesting) /\ n.buffer = m.buffer
  <2>1. PICK q : q = IF Counted(m) = 1 /\ m.level = 1 THEN "OUT" ELSE m.state
    OBVIOUS
  <2>2. PICK l : l = m.level - Counted(m)
    OBVIOUS
  <2>3. PICK f : f = Front(m.nesting)
    OBVIOUS
  <2>4. n = [m EXCEPT !.state = q, !.level = l, !.nesting = f]
    BY <1>1, <2>1, <2>2, <2>3
  <2>5. n.state = q /\ n.level = l /\ n.nesting = f /\ n.buffer = m.buffer
    BY <2>4 DEF Mode
  <2> QED BY <2>1, <2>2, <2>3, <2>5
<1> QED BY <1>3, <1>4, <1>6, <1>7 DEF Comes, Calm

\* A double quote.
LEMMA ReadQuote ==
  ASSUME NEW m \in Mode, Along(m), NEW t, Reads(t), NEW n, Quote(skip_blocks, m, t, n)
  PROVE  Comes(n) /\ n.buffer = m.buffer /\ Calm
<1>1. PICK q : q = IF Counted(m) = 1 THEN "SKIPPING_BLOCK_STRING" ELSE "SKIPPING_BLOCK_NOSTRING"
  OBVIOUS
<1>2. Skipping(skip_blocks, m) /\ t = Char(DoubleQuote) /\ n = [m EXCEPT !.state = q]
  BY <1>1 DEF Quote
<1>3. t.tnum = "char" /\ t.mark = NULL /\ \A d : IsChar(t, d) <=> DoubleQuote = d
  BY <1>2, CharFacts
<1>4. nesting' = nesting /\ namespace' = namespace /\ declared' = NULL
  BY <1>3, NoteNothing DEF Reads
<1>5. block_level \in Nat /\ m.level = block_level /\ m.state = state /\ m.nesting = nesting
  BY DEF Along, Mode
<1>6. IsChar(t, DoubleQuote) /\ ~IsChar(t, OpenBrace) /\ ~IsChar(t, CloseBrace) /\ ~Skipped(t)
  BY <1>3, FourCharacters, SkippedFacts
<1>7. state' = q /\ block_level' = block_level /\ ns' = ns /\ symbol' = NULL
  <2>1. CASE state = "SKIPPING_BLOCK_NOSTRING"
    <3>1. SkippingNoString(t)
      BY <1>6, <2>1, Rules DEF Reads
    <3>2. t.tnum # "T_CURLY_OPEN"
      BY <1>3
    <3>3. block_level' = block_level + 0 /\ ns' = ns /\ symbol' = NULL
      BY <1>6, <3>1, <3>2 DEF SkippingNoString
    <3>4. state' = "SKIPPING_BLOCK_STRING"
      BY <1>6, <3>1 DEF SkippingNoString
    <3>5. q = "SKIPPING_BLOCK_STRING"
      BY <1>1, <1>5, <2>1 DEF Counted
    <3> QED BY <1>5, <3>3, <3>4, <3>5
  <2>2. CASE state = "SKIPPING_BLOCK_STRING"
    <3>1. SkippingString(t)
      BY <1>6, <2>2, Rules DEF Reads
    <3>2. Goto("SKIPPING_BLOCK_NOSTRING")
      BY <1>6, <3>1 DEF SkippingString
    <3>3. q = "SKIPPING_BLOCK_NOSTRING"
      BY <1>1, <1>5, <2>2 DEF Counted
    <3> QED BY <3>2, <3>3 DEF Goto
  <2> QED BY <1>2, <1>5, <2>1, <2>2 DEF Skipping
<1>8. n.state = q /\ n.level = m.level /\ n.nesting = m.nesting /\ n.buffer = m.buffer
  BY <1>2 DEF Mode
<1> QED BY <1>4, <1>5, <1>7, <1>8 DEF Comes, Calm

-----------------------------------------------------------------------------
\* Tokens that declare a symbol.

\* A symbol that is declared, and added under the same key if the namespace is known.
Agrees ==
  /\ ns' = ns /\ namespace' = namespace /\ symbol' \in Keys /\ declared' \in Keys
  /\ Fits => symbol' = declared'

\* What PHP declares where it counts.
LEMMA NoteDeclares ==
  ASSUME NEW t, Note(t), Exposed(skip_blocks, nesting), t.mark \in {"F", "L", "C", "define"}
  PROVE  /\ nesting' = nesting /\ namespace' = namespace
         /\ declared' = IF t.mark = "define" THEN Automap_key("C", ut_trim_char(t.tvalue, "'"))
                        ELSE Automap_key(t.mark, FullName(t.tvalue))
<1>1. Outside
  BY DEF Exposed, Outside
<1> QED BY <1>1 DEF Note

\* The type of a full name.
LEMMA FullNameType ==
  ASSUME NEW name \in Names, namespace \in Seq(Names)
  PROVE  FullName(name) \in Seq(Characters)
<1>1. PICK d \in Seq(Characters) : d = <<"\\">>
  BY BackslashIsCharacter, OneElement
<1>2. PICK p \in Seq(Characters) : p = Prefix(namespace)
  BY PrefixType
<1>3. PICK z \in Seq(Characters) : z = name
  BY NameFacts
<1>4. FullName(name) = p \o d \o z
  BY <1>1, <1>2, <1>3 DEF FullName, Prefix
<1> QED BY <1>4

\* The name of a function, class or constant: the parser adds what PHP declares.
LEMMA NameAgrees ==
  ASSUME NEW type \in {"F", "L", "C"}, NEW name \in Names,
         ns \in Seq(Characters), namespace \in Seq(Names),
         NEW buffer \in {"empty", "closed"}, Fits => Buffered(buffer),
         ns' = ns, namespace' = namespace,
         symbol' = Added(type, ns, name), declared' = Automap_key(type, FullName(name))
  PROVE  Agrees
<1>1. name \in Seq(Characters)
  BY NameFacts
<1>2. FullName(name) \in Seq(Characters)
  BY FullNameType
<1>3. symbol' \in Keys
  BY <1>1, KeyTypes
<1>4. declared' \in Keys
  BY <1>1, <1>2, KeyTypes
<1>5. Fits => symbol' = declared'
  BY NamedKey
<1> QED BY <1>3, <1>4, <1>5 DEF Agrees

\* The name of a function or a class, ...
LEMMA ReadHasName ==
  ASSUME NEW m \in Mode, Along(m), NEW t, Reads(t), NEW n, HasName(skip_blocks, m, t, n),
         ns \in Seq(Characters), namespace \in Seq(Names), Fits => Buffered(m.buffer)
  PROVE  Comes(n) /\ n.buffer = m.buffer /\ Agrees
<1>1. PICK name \in Names :
        /\ Declaring(skip_blocks, m)
        /\ \/ m.state = "FUNCTION_FOUND" /\ t = Identifier(name, "F")
           \/ m.state = "CLASS_FOUND" /\ t = Identifier(name, "L")
        /\ n = [m EXCEPT !.state = "SKIPPING_BLOCK_NOSTRING", !.level = 0]
  BY DEF HasName
<1>2. PICK type \in {"F", "L", "C"} :
        /\ t = Identifier(name, type)
        /\ (state = "FUNCTION_FOUND" /\ type = "F") \/ (state = "CLASS_FOUND" /\ type = "L")
  <2>1. "F" \in {"F", "L", "C"} /\ "L" \in {"F", "L", "C"} /\ state = m.state
    BY DEF Along
  <2>2. CASE m.state = "FUNCTION_FOUND" /\ t = Identifier(name, "F")
    BY <2>1, <2>2
  <2>3. CASE m.state = "CLASS_FOUND" /\ t = Identifier(name, "L")
    BY <2>1, <2>3
  <2> QED BY <1>1, <2>2, <2>3
<1>3. t.tnum = "T_STRING" /\ t.tvalue = name /\ t.mark = type /\ ~IsChar(t, "(") /\ ~IsChar(t, "&")
  BY <1>2, IdentifierFacts, NotAChar
<1>4. Exposed(skip_blocks, nesting) /\ m.buffer \in {"empty", "closed"}
  BY <1>1 DEF Declaring, Along, Mode
<1>5. nesting' = nesting /\ namespace' = namespace /\ declared' = Automap_key(type, FullName(name))
  BY <1>3, <1>4, NoteDeclares DEF Reads
<1>6. Named(t)
  <2>1. Unnamed(t) \/ Named(t)
    BY <1>2, <1>3, Rules, SkippedFacts DEF Reads
  <2> QED BY <1>3, <2>1 DEF Unnamed
<1>7. /\ Automap_Parser_addSymbol(type, ns, name)
      /\ state' = "SKIPPING_BLOCK_NOSTRING" /\ block_level' = 0 /\ ns' = ns
  BY <1>2, <1>3, <1>6 DEF Named
<1>8. symbol' = Added(type, ns, name)
  BY <1>7 DEF Automap_Parser_addSymbol, Added
<1>9. Agrees
  BY <1>4, <1>5, <1>7, <1>8, NameAgrees
<1>10. /\ n.state = "SKIPPING_BLOCK_NOSTRING" /\ n.level = 0
       /\ n.nesting = m.nesting /\ n.buffer = m.buffer
  BY <1>1 DEF Mode
<1> QED BY <1>5, <1>7, <1>9, <1>10 DEF Comes, Along

\* ... of a constant, ...
LEMMA ReadConstName ==
  ASSUME NEW m \in Mode, Along(m), NEW t, Reads(t), NEW n, ConstName(skip_blocks, m, t, n),
         ns \in Seq(Characters), namespace \in Seq(Names), Fits => Buffered(m.buffer)
  PROVE  Comes(n) /\ n.buffer = m.buffer /\ Agrees
<1>1. PICK name \in Names :
        /\ m.state = "CONST_FOUND" /\ Declaring(skip_blocks, m) /\ t = Identifier(name, "C")
        /\ n = [m EXCEPT !.state = "OUT"]
  BY DEF ConstName
<1>2. PICK type \in {"F", "L", "C"} : type = "C"
  OBVIOUS
<1>3. t.tnum = "T_STRING" /\ t.tvalue = name /\ t.mark = type
  BY <1>1, <1>2, IdentifierFacts
<1>4. Exposed(skip_blocks, nesting) /\ m.buffer \in {"empty", "closed"}
  BY <1>1 DEF Declaring, Along, Mode
<1>5. nesting' = nesting /\ namespace' = namespace /\ declared' = Automap_key(type, FullName(name))
  BY <1>2, <1>3, <1>4, NoteDeclares DEF Reads
<1>6. ConstFound(t)
  BY <1>1, <1>3, Rules, SkippedFacts DEF Reads, Along
<1>7. Automap_Parser_addSymbol(type, ns, name) /\ state' = "OUT" /\ block_level' = block_level /\ ns' = ns
  BY <1>2, <1>3, <1>6 DEF ConstFound
<1>8. symbol' = Added(type, ns, name)
  BY <1>7 DEF Automap_Parser_addSymbol, Added
<1>9. Agrees
  BY <1>4, <1>5, <1>7, <1>8, NameAgrees
<1>10. n.state = "OUT" /\ n.level = m.level /\ n.nesting = m.nesting /\ n.buffer = m.buffer
  BY <1>1 DEF Mode
<1> QED BY <1>5, <1>7, <1>9, <1>10 DEF Comes, Along

\* ... and that in a define().
LEMMA ReadDefineName ==
  ASSUME NEW m \in Mode, Along(m), NEW t, Reads(t), NEW n, DefineName(skip_blocks, m, t, n)
  PROVE  Comes(n) /\ n.buffer = m.buffer /\ Agrees
<1>1. PICK name \in Names :
        /\ m.state = "DEFINE_2" /\ Exposed(skip_blocks, m.nesting) /\ t = Encapsed(name)
        /\ n = [m EXCEPT !.state = "SKIPPING_TO_EOL"]
  BY DEF DefineName
<1>2. PICK v : v = <<"'">> \o name \o <<"'">>
  OBVIOUS
<1>3. t.tnum = "T_CONSTANT_ENCAPSED_STRING" /\ t.tvalue = v /\ t.mark = "define"
  BY <1>1, <1>2, EncapsedFacts
<1>4. Head(v) = "'" /\ ut_trim_char(v, "'") = name /\ LTrim(name, "\\") = name
  BY <1>2, DefinedKey
<1>5. PICK type \in {"F", "L", "C"} : type = "C"
  OBVIOUS
<1>6. name \in Seq(Characters) /\ <<>> \in Seq(Characters)
  BY NameFacts
<1>7. nesting' = nesting /\ namespace' = namespace /\ declared' = Automap_key(type, name)
  <2>1. Exposed(skip_blocks, nesting)
    BY <1>1 DEF Along
  <2> QED BY <1>3, <1>4, <1>5, <2>1, NoteDeclares DEF Reads
<1>8. Define2(t)
  BY <1>1, <1>3, Rules, SkippedFacts DEF Reads, Along
<1>9. /\ Automap_Parser_addSymbol(type, <<>>, name)
      /\ state' = "SKIPPING_TO_EOL" /\ block_level' = block_level /\ ns' = ns
  BY <1>3, <1>4, <1>5, <1>8 DEF Define2
<1>10. symbol' = Added(type, <<>>, name)
  BY <1>9 DEF Automap_Parser_addSymbol, Added
<1>11. symbol' \in Keys /\ declared' \in Keys
  BY <1>6, <1>7, <1>10, KeyTypes
<1>12. symbol' = declared'
  BY <1>4, <1>6, <1>7, <1>10, AddedWithoutNamespace DEF Automap_key
<1>13. n.state = "SKIPPING_TO_EOL" /\ n.level = m.level /\ n.nesting = m.nesting /\ n.buffer = m.buffer
  BY <1>1 DEF Mode
<1> QED BY <1>7, <1>9, <1>11, <1>12, <1>13 DEF Comes, Along, Agrees

-----------------------------------------------------------------------------
\* The buffer and the namespace.

\* How long the name of a namespace is.
Total(N) == Len(FlattenSeq(N)) + Len(N)

\* An empty buffer, one more name, and one more separator.
LEMMA HoldsEmpty == Holds("empty", <<>>, <<>>)
BY DEF Holds

LEMMA HoldsAfterName ==
  ASSUME NEW buffer \in {"empty", "open"}, NEW s \in Seq(Characters), NEW N \in Seq(Names),
         Holds(buffer, s, N), NEW name \in Names
  PROVE  Holds("closed", s \o name, Append(N, name))
<1>1. PICK d \in Seq(Characters) : d = <<"\\">> /\ Len(d) = 1 /\ d[1] = "\\"
  BY BackslashIsCharacter, OneElement
<1>2. PICK p \in Seq(Characters) : p = Prefix(N)
  BY PrefixType
<1>3. PICK z \in Seq(Characters) : z = name
  BY NameFacts
<1>4. Len(z) \in Nat \ {0} /\ \A i \in 1..Len(z) : z[i] # "\\"
  BY <1>3, NameFacts
<1>5. PICK r \in Seq(Characters) : r = s \o z
  BY ConcatProperties
<1>6. /\ Len(s) \in Nat /\ Len(r) = Len(s) + Len(z)
      /\ \A i \in 1..Len(s) : r[i] = s[i]
      /\ \A i \in 1..Len(z) : r[Len(s) + i] = z[i]
  BY <1>5, Parts
<1>7. r # <<>> /\ r[Len(r)] # "\\"
  <2>1. Len(z) \in 1..Len(z) /\ Len(r) # 0
    BY <1>4, <1>6
  <2>2. r[Len(s) + Len(z)] = z[Len(z)]
    BY <1>6, <2>1
  <2>3. r[Len(r)] # "\\"
    BY <1>4, <1>6, <2>1, <2>2
  <2> QED BY <2>1, <2>3
<1>8. d \o r = p \o (d \o z) /\ r[1] # "\\"
  <2>1. CASE buffer = "empty"
    <3>1. s = <<>> /\ N = <<>>
      BY <2>1 DEF Holds
    <3>2. p = <<>> /\ r = z
      BY <1>2, <1>5, <3>1, PrefixEmpty
    <3>3. 1 \in 1..Len(z)
      BY <1>4
    <3>4. PICK x \in Seq(Characters) : x = d \o z
      BY ConcatProperties
    <3>5. p \o x = x
      BY <3>2
    <3> QED BY <1>4, <3>2, <3>3, <3>4, <3>5
  <2>2. CASE buffer = "open"
    <3>1. s # <<>> /\ d \o s = p \o d /\ s[1] # "\\"
      BY <1>1, <1>2, <2>2 DEF Holds
    <3>2. (d \o s) \o z = d \o (s \o z)
      OBVIOUS
    <3>5. (p \o d) \o z = p \o (d \o z)
      OBVIOUS
    <3>3. 1 \in 1..Len(s)
      BY <1>6, <3>1, EmptySeq
    <3> QED BY <1>5, <1>6, <3>1, <3>2, <3>3, <3>5
  <2> QED BY <2>1, <2>2
<1>9. PICK M \in Seq(Names) : M = Append(N, name) /\ M # <<>>
  BY AppendProperties
<1>10. Prefix(M) = p \o (d \o z)
  BY <1>1, <1>2, <1>3, <1>9, PrefixAppend
<1>11. PICK q \in Seq(Characters) : q = Prefix(M)
  BY PrefixType
<1>12. <<"\\">> \o r = q \o <<>>
  <2>1. q \o <<>> = q
    OBVIOUS
  <2> QED BY <1>1, <1>8, <1>10, <1>11, <2>1
<1>13. Holds("closed", r, M)
  BY <1>7, <1>8, <1>9, <1>11, <1>12 DEF Holds
<1> QED BY <1>3, <1>5, <1>9, <1>13

LEMMA HoldsAfterSeparator ==
  ASSUME NEW s \in Seq(Characters), NEW N \in Seq(Names), Holds("closed", s, N)
  PROVE  Holds("open", Append(s, "\\"), N)
<1>1. PICK d \in Seq(Characters) : d = <<"\\">>
  BY BackslashIsCharacter, OneElement
<1>2. PICK p \in Seq(Characters) : p = Prefix(N)
  BY PrefixType
<1>3. s # <<>> /\ N # <<>> /\ d \o s = p \o <<>> /\ s[1] # "\\"
  BY <1>1, <1>2 DEF Holds
<1>4. PICK r \in Seq(Characters) : r = Append(s, "\\") /\ r # <<>> /\ r[1] = s[1]
  <2>1. 1 \in 1..Len(s)
    BY <1>3, EmptySeq
  <2>2. PICK r \in Seq(Characters) : r = Append(s, "\\")
    BY BackslashIsCharacter, AppendProperties
  <2>3. r # <<>> /\ \A i \in 1..Len(s) : r[i] = s[i]
    BY <2>2, BackslashIsCharacter, AppendProperties
  <2> QED BY <2>1, <2>2, <2>3
<1>5. r = s \o d
  BY <1>1, <1>4, BackslashIsCharacter, AppendIsConcat
<1>6. d \o r = p \o d
  <2>1. (d \o s) \o d = d \o (s \o d)
    BY ConcatAssociative, SMTT(30)
  <2>2. d \o s = p
    BY <1>3
  <2> QED BY <1>5, <2>1, <2>2
<1>7. <<"\\">> \o r = Prefix(N) \o <<"\\">>
  BY <1>1, <1>2, <1>6
<1>8. Holds("open", r, N)
  BY <1>3, <1>4, <1>7 DEF Holds
<1> QED BY <1>4, <1>8

\* How full the buffer is.
LEMMA HoldsLength ==
  ASSUME NEW buffer \in {"open", "closed"}, NEW s \in Seq(Characters), NEW N \in Seq(Names),
         Holds(buffer, s, N), Len(Prefix(N)) = Total(N)
  PROVE  Len(s) + 1 = Total(N) + (IF buffer = "open" THEN 1 ELSE 0)
<1>1. PICK d \in Seq(Characters) : d = <<"\\">> /\ Len(d) = 1
  BY BackslashIsCharacter, OneElement
<1>2. PICK p \in Seq(Characters) : p = Prefix(N)
  BY PrefixType
<1>3. PICK r \in Seq(Characters) : r = d \o s /\ Len(r) = 1 + Len(s)
  <2>1. PICK r : r = d \o s
    OBVIOUS
  <2>2. r \in Seq(Characters) /\ Len(r) = Len(d) + Len(s)
    BY <2>1, Parts
  <2> QED BY <1>1, <2>1, <2>2
<1>4. Len(s) \in Nat /\ Len(p) \in Nat /\ Len(p) = Total(N)
  BY <1>2
<1>5. CASE buffer = "open"
  <2>1. r = p \o d
    BY <1>1, <1>2, <1>3, <1>5 DEF Holds
  <2>2. Len(r) = Len(p) + 1
    BY <1>1, <2>1, Parts
  <2> QED BY <1>3, <1>4, <1>5, <2>2
<1>6. CASE buffer = "closed"
  <2>1. r = p \o <<>>
    BY <1>1, <1>2, <1>3, <1>6 DEF Holds
  <2>2. r = p
    BY <2>1
  <2> QED BY <1>3, <1>4, <1>6, <2>2
<1> QED BY <1>5, <1>6

\* How much a name adds.
LEMMA TotalFacts ==
  ASSUME NEW N \in Seq(Names), NEW name \in Names
  PROVE  /\ Total(N) \in Nat /\ Total(<<>>) = 0 /\ Len(Prefix(<<>>)) = 0
         /\ Total(Append(N, name)) = Total(N) + 1 + Len(name)
         /\ Len(Prefix(Append(N, name))) = Len(Prefix(N)) + 1 + Len(name)
<1>1. PICK d \in Seq(Characters) : d = <<"\\">> /\ Len(d) = 1
  BY BackslashIsCharacter, OneElement
<1>2. PICK p \in Seq(Characters) : p = Prefix(N)
  BY PrefixType
<1>3. PICK f \in Seq(Characters) : f = FlattenSeq(N)
  BY PrefixType
<1>4. PICK z \in Seq(Characters) : z = name
  BY NameFacts
<1>5. PICK x \in Seq(Characters) : x = d \o z /\ Len(x) = 1 + Len(z)
  <2>1. PICK x : x = d \o z
    OBVIOUS
  <2>2. x \in Seq(Characters) /\ Len(x) = Len(d) + Len(z)
    BY <2>1, Parts
  <2> QED BY <1>1, <2>1, <2>2
<1>6. PICK M \in Seq(Names) : M = Append(N, name) /\ Len(M) = Len(N) + 1
  BY AppendProperties
<1>7. Prefix(M) = p \o x /\ FlattenSeq(M) = f \o z
  BY <1>1, <1>2, <1>3, <1>4, <1>5, <1>6, PrefixAppend
<1>8. Len(Prefix(M)) = Len(p) + Len(x) /\ Len(FlattenSeq(M)) = Len(f) + Len(z)
  BY <1>7, Parts
<1>9. Len(p) \in Nat /\ Len(f) \in Nat /\ Len(z) \in Nat /\ Len(N) \in Nat
  OBVIOUS
<1>10. Total(<<>>) = 0 /\ Len(Prefix(<<>>)) = 0
  BY PrefixEmpty DEF Total
<1>11. Total(N) = Len(f) + Len(N) /\ Total(M) = Len(f) + Len(z) + Len(N) + 1
  BY <1>3, <1>6, <1>8, <1>9 DEF Total
<1>12. Total(M) = Total(N) + 1 + Len(z)
  BY <1>9, <1>11
<1>13. Len(Prefix(M)) = Len(p) + 1 + Len(z)
  BY <1>5, <1>8, <1>9
<1> QED BY <1>2, <1>4, <1>6, <1>9, <1>10, <1>11, <1>12, <1>13

\* The parts of the invariant, and of the invariant of the next state, that are about the
\* namespace.
Room(N) == Total(N) <= AUTOMAP_SYMBOL_MAX

\* The same, for two states.
LEMMA RoomIs ==
  /\ Fits <=> Room(namespace)
  /\ Fits' <=> Room(namespace')
  /\ Lengths <=> Len(Prefix(namespace)) = Total(namespace)
  /\ Lengths' <=> Len(Prefix(namespace')) = Total(namespace')
BY DEF Fits, Room, Total, Lengths

LEMMA BufferedIs ==
  ASSUME NEW buffer
  PROVE  /\ Buffered(buffer) <=> Holds(buffer, ns, namespace)
         /\ Buffered(buffer)' <=> Holds(buffer, ns', namespace')
BY DEF Buffered

\* The state before a token is read, in mode m, and after it, in mode n.
Ready(m) ==
  /\ Along(m) /\ ns \in Seq(Characters) /\ Len(ns) <= AUTOMAP_SYMBOL_MAX
  /\ namespace \in Seq(Names) /\ Lengths /\ (Fits => Buffered(m.buffer))
After(n) ==
  /\ ns' \in Seq(Characters) /\ namespace' \in Seq(Names) /\ Lengths'
  /\ symbol' \in Keys \cup {NULL} /\ declared' \in Keys \cup {NULL}
  /\ Fits' => symbol' = declared'
  /\ \/ state' = "fault" /\ nesting' = n.nesting /\ block_level' = n.level /\ ~Fits'
     \/ Comes(n) /\ Len(ns') <= AUTOMAP_SYMBOL_MAX /\ (Fits' => Buffered(n.buffer)')

\* A token that is not about the namespace.
LEMMA SameNamespace ==
  ASSUME NEW m, Ready(m), NEW n, Comes(n), n.buffer = m.buffer, Calm \/ Agrees
  PROVE  After(n)
<1>1. ns' = ns /\ namespace' = namespace
  BY DEF Calm, Agrees
<1>2. (Fits' <=> Fits) /\ (Lengths' <=> Lengths)
  BY <1>1, RoomIs
<1>3. Buffered(n.buffer)' <=> Buffered(m.buffer)
  BY <1>1, BufferedIs
<1>4. /\ symbol' \in Keys \cup {NULL} /\ declared' \in Keys \cup {NULL}
      /\ Fits' => symbol' = declared'
  BY <1>2 DEF Calm, Agrees
<1> QED BY <1>1, <1>2, <1>3, <1>4 DEF Ready, After

\* What PHP makes of a namespace statement.
LEMMA NoteNamespace ==
  ASSUME NEW t, Note(t), t.mark \in {"global", "namespace"}
  PROVE  /\ nesting' = nesting /\ declared' = NULL
         /\ namespace' = IF t.mark = "global" THEN <<>> ELSE Append(namespace, t.tvalue)
BY DEF Note

\* "namespace": the buffer is emptied.
LEMMA ReadNamespaceWord ==
  ASSUME NEW m \in Mode, Ready(m), NEW t, Reads(t), NEW n, NamespaceWord(skip_blocks, m, t, n)
  PROVE  After(n)
<1>1. /\ m.state = "OUT" /\ t = Token("T_NAMESPACE", <<>>, "global")
      /\ n = [m EXCEPT !.state = "NAMESPACE_FOUND", !.buffer = "empty"]
  BY DEF NamespaceWord, Free
<1>2. t.tnum = "T_NAMESPACE" /\ t.mark = "global"
  BY <1>1 DEF Token
<1>3. nesting' = nesting /\ namespace' = <<>> /\ declared' = NULL
  BY <1>2, NoteNamespace DEF Reads
<1>4. Out(t)
  <2>1. Out(t) \/ OutOther(t)
    BY <1>1, <1>2, Rules, SkippedFacts DEF Reads, Ready, Along
  <2> QED BY <1>2, <2>1 DEF OutOther, Keywords
<1>5. state' = "NAMESPACE_FOUND" /\ ns' = <<>> /\ symbol' = NULL /\ block_level' = block_level
  BY <1>2, <1>4 DEF Out
<1>6. n.state = "NAMESPACE_FOUND" /\ n.level = m.level /\ n.nesting = m.nesting /\ n.buffer = "empty"
  BY <1>1 DEF Mode
<1>7. Comes(n)
  BY <1>3, <1>5, <1>6 DEF Comes, Ready, Along
<1>8. Buffered(n.buffer)'
  BY <1>3, <1>5, <1>6, HoldsEmpty, BufferedIs
<1>9. Lengths'
  <2>1. PICK name \in Names : TRUE
    BY ConstantsAssumption DEF ConstantsAssumption
  <2>2. Len(Prefix(<<>>)) = Total(<<>>)
    BY <2>1, TotalFacts DEF Ready
  <2> QED BY <1>3, <2>2, RoomIs
<1>10. /\ ns' \in Seq(Characters) /\ namespace' \in Seq(Names)
       /\ Len(ns') <= AUTOMAP_SYMBOL_MAX
  BY <1>3, <1>5, ConstantsAssumption DEF ConstantsAssumption
<1> QED BY <1>3, <1>5, <1>7, <1>8, <1>9, <1>10 DEF After

\* A name, which goes into the buffer if there is room.
LEMMA ReadNamespaceName ==
  ASSUME NEW m \in Mode, Ready(m), NEW t, Reads(t), NEW n, NamespaceName(skip_blocks, m, t, n)
  PROVE  After(n)
<1>1. PICK name \in Names :
        /\ m.state = "NAMESPACE_2" /\ m.buffer # "closed" /\ t = Identifier(name, "namespace")
        /\ n = [m EXCEPT !.buffer = "closed"]
  BY DEF NamespaceName
<1>2. t.tnum = "T_STRING" /\ t.tvalue = name /\ t.mark = "namespace"
  BY <1>1, IdentifierFacts
<1>3. nesting' = nesting /\ namespace' = Append(namespace, name) /\ declared' = NULL
  BY <1>2, NoteNamespace DEF Reads
<1>4. /\ Along(m) /\ ns \in Seq(Characters) /\ Len(ns) <= AUTOMAP_SYMBOL_MAX
      /\ namespace \in Seq(Names) /\ Lengths /\ (Fits => Buffered(m.buffer))
  BY DEF Ready
<1>5. Namespace2(t)
  BY <1>1, <1>2, <1>4, Rules, SkippedFacts DEF Reads, Along
<1>6. PICK z \in Seq(Characters) : z = name
  BY NameFacts
<1>7. PICK r \in Seq(Characters) : r = ns \o z
  BY <1>4, ConcatProperties
<1>8. Len(r) = Len(ns) + Len(z) /\ Len(ns) \in Nat /\ Len(z) \in Nat
  BY <1>4, <1>7, Parts
<1>9. /\ ns' = IF Len(r) < AUTOMAP_SYMBOL_MAX THEN r ELSE ns
      /\ state' = state /\ symbol' = NULL /\ block_level' = block_level
  BY <1>2, <1>5, <1>6, <1>7 DEF Namespace2
<1>10. n.state = m.state /\ n.level = m.level /\ n.nesting = m.nesting /\ n.buffer = "closed"
  BY <1>1 DEF Mode
<1>11. Comes(n)
  BY <1>3, <1>4, <1>9, <1>10 DEF Comes, Along
<1>12. AUTOMAP_SYMBOL_MAX \in Nat
  BY ConstantsAssumption DEF ConstantsAssumption
<1>13. ns' \in Seq(Characters) /\ Len(ns') <= AUTOMAP_SYMBOL_MAX
  BY <1>4, <1>7, <1>8, <1>9, <1>12
<1>14. namespace' \in Seq(Names)
  BY <1>3, <1>4, AppendProperties
<1>15. PICK k \in Nat : k = Total(namespace)
  BY <1>1, <1>4, TotalFacts
<1>16. Total(namespace') = k + 1 + Len(z) /\ Lengths'
  <2>1. Total(Append(namespace, name)) = Total(namespace) + 1 + Len(name)
    BY <1>4, TotalFacts
  <2>2. Len(Prefix(Append(namespace, name))) = Len(Prefix(namespace)) + 1 + Len(name)
    BY <1>4, TotalFacts
  <2>3. Len(Prefix(namespace)) = Total(namespace)
    BY <1>4, RoomIs
  <2>4. Total(namespace') = k + 1 + Len(z)
    BY <1>3, <1>6, <1>15, <2>1
  <2>5. Len(Prefix(namespace')) = k + 1 + Len(z)
    BY <1>3, <1>6, <1>15, <2>2, <2>3
  <2> QED BY <2>4, <2>5, RoomIs
<1>17. ASSUME Fits' PROVE Buffered(n.buffer)'
  <2>1. k + 1 + Len(z) <= AUTOMAP_SYMBOL_MAX
    BY <1>16, <1>17, RoomIs DEF Room
  <2>2. Fits
    BY <1>8, <1>12, <1>15, <2>1, RoomIs DEF Room
  <2>3. Holds(m.buffer, ns, namespace) /\ m.buffer \in {"empty", "open"}
    BY <1>1, <1>4, <2>2, BufferedIs DEF Mode
  <2>4. Len(ns) <= k
    <3>1. CASE m.buffer = "empty"
      <4>1. ns = <<>>
        BY <2>3, <3>1 DEF Holds
      <4> QED BY <1>15, <4>1
    <3>2. CASE m.buffer = "open"
      <4>1. Len(Prefix(namespace)) = Total(namespace)
        BY <1>4, RoomIs
      <4>2. "open" \in {"open", "closed"} /\ Holds("open", ns, namespace)
        BY <2>3, <3>2
      <4>3. Len(ns) + 1 = Total(namespace) + 1
        BY <1>4, <4>1, <4>2, HoldsLength
      <4> QED BY <1>8, <1>15, <4>3
    <3> QED BY <2>3, <3>1, <3>2
  <2>5. ns' = r
    BY <1>8, <1>9, <1>12, <2>1, <2>4
  <2>6. Holds("closed", ns \o name, Append(namespace, name))
    BY <1>4, <2>3, HoldsAfterName
  <2>7. Holds("closed", ns', namespace')
    BY <1>3, <1>6, <1>7, <2>5, <2>6
  <2> QED BY <1>10, <2>7, BufferedIs
<1> QED BY <1>3, <1>9, <1>11, <1>13, <1>14, <1>16, <1>17 DEF After

\* A separator, which goes into the buffer in any case: it is only beyond it if the name
\* of the namespace is too long.
LEMMA ReadNamespaceSeparator ==
  ASSUME NEW m \in Mode, Ready(m), NEW t, Reads(t), NEW n, NamespaceSeparator(skip_blocks, m, t, n)
  PROVE  After(n)
<1>1. /\ m.state = "NAMESPACE_2" /\ m.buffer = "closed" /\ t = Word("T_NS_SEPARATOR")
      /\ n = [m EXCEPT !.buffer = "open"]
  BY DEF NamespaceSeparator
<1>2. t.tnum = "T_NS_SEPARATOR" /\ t.mark = NULL
  BY <1>1, WordFacts
<1>3. nesting' = nesting /\ namespace' = namespace /\ declared' = NULL
  BY <1>2, NoteNothing DEF Reads
<1>4. /\ Along(m) /\ ns \in Seq(Characters) /\ Len(ns) <= AUTOMAP_SYMBOL_MAX
      /\ namespace \in Seq(Names) /\ Lengths /\ (Fits => Buffered(m.buffer))
  BY DEF Ready
<1>5. Namespace2(t)
  BY <1>1, <1>2, <1>4, Rules, SkippedFacts DEF Reads, Along
<1>6. PICK r \in Seq(Characters) : r = Append(ns, "\\") /\ Len(r) = Len(ns) + 1
  BY <1>4, BackslashIsCharacter, AppendProperties
<1>7. /\ ns' = r /\ state' = IF Len(ns) < AUTOMAP_SYMBOL_MAX THEN state ELSE "fault"
      /\ symbol' = NULL /\ block_level' = block_level
  BY <1>2, <1>5, <1>6 DEF Namespace2
<1>8. n.state = m.state /\ n.level = m.level /\ n.nesting = m.nesting /\ n.buffer = "open"
  BY <1>1 DEF Mode
<1>9. (Fits' <=> Fits) /\ Lengths'
  BY <1>3, <1>4, RoomIs
<1>10. AUTOMAP_SYMBOL_MAX \in Nat /\ Len(ns) \in Nat
  BY <1>4, ConstantsAssumption DEF ConstantsAssumption
<1>11. Fits => Holds("closed", ns, namespace)
  BY <1>1, <1>4, BufferedIs
<1>12. CASE Len(ns) < AUTOMAP_SYMBOL_MAX
  <2>1. state' = state /\ Len(ns') <= AUTOMAP_SYMBOL_MAX
    BY <1>6, <1>7, <1>10, <1>12
  <2>2. Comes(n)
    BY <1>3, <1>4, <1>7, <1>8, <2>1 DEF Comes, Along
  <2>3. Fits => Holds("open", r, namespace)
    BY <1>4, <1>6, <1>11, HoldsAfterSeparator
  <2>4. Fits' => Buffered(n.buffer)'
    BY <1>3, <1>7, <1>8, <1>9, <2>3, BufferedIs
  <2> QED BY <1>3, <1>4, <1>7, <1>9, <2>1, <2>2, <2>4 DEF After
<1>13. CASE ~(Len(ns) < AUTOMAP_SYMBOL_MAX)
  <2>1. state' = "fault" /\ nesting' = n.nesting /\ block_level' = n.level
    BY <1>3, <1>4, <1>7, <1>8, <1>13 DEF Along
  <2>2. ASSUME Fits PROVE FALSE
    <3>1. Len(Prefix(namespace)) = Total(namespace)
      BY <1>4, RoomIs
    <3>2. Len(ns) + 1 = Total(namespace) + 0
      BY <1>4, <1>11, <2>2, <3>1, HoldsLength
    <3>3. Total(namespace) <= AUTOMAP_SYMBOL_MAX
      BY <2>2, RoomIs DEF Room
    <3>4. PICK k \in Nat : k = Total(namespace)
      <4>1. PICK name \in Names : TRUE
        BY ConstantsAssumption DEF ConstantsAssumption
      <4> QED BY <1>4, <4>1, TotalFacts
    <3> QED BY <1>10, <1>13, <3>2, <3>3, <3>4
  <2> QED BY <1>3, <1>4, <1>7, <1>9, <2>1, <2>2 DEF After
<1> QED BY <1>12, <1>13

-----------------------------------------------------------------------------
\* The invariant, and what follows from it.

\* A token: whatever it is, it leads from one mode to the next.
LEMMA ReadToken ==
  ASSUME NEW m \in Mode, Ready(m), NEW t, Reads(t), NEW n, AToken(skip_blocks, m, t, n)
  PROVE  After(n)
<1>0. /\ Along(m) /\ ns \in Seq(Characters) /\ namespace \in Seq(Names)
      /\ Fits => Buffered(m.buffer)
  BY DEF Ready
<1>1. CASE NamespaceWord(skip_blocks, m, t, n)
  BY <1>1, ReadNamespaceWord
<1>2. CASE NamespaceName(skip_blocks, m, t, n)
  BY <1>2, ReadNamespaceName
<1>3. CASE NamespaceSeparator(skip_blocks, m, t, n)
  BY <1>3, ReadNamespaceSeparator
<1>4. ASSUME Comes(n) /\ n.buffer = m.buffer /\ (Calm \/ Agrees)
      PROVE  After(n)
  BY <1>4, SameNamespace
<1>5. CASE Stays(skip_blocks, m, t) /\ n = m
  BY <1>0, <1>4, <1>5, ReadStays
<1>6. CASE Keyword(skip_blocks, m, t, n)
  BY <1>0, <1>4, <1>6, ReadKeyword
<1>7. CASE HasNoName(skip_blocks, m, t, n)
  BY <1>0, <1>4, <1>7, ReadHasNoName
<1>8. CASE HasName(skip_blocks, m, t, n)
  BY <1>0, <1>4, <1>8, ReadHasName
<1>9. CASE Body(skip_blocks, m, t, n)
  BY <1>0, <1>4, <1>9, ReadBody
<1>10. CASE ConstName(skip_blocks, m, t, n)
  BY <1>0, <1>4, <1>10, ReadConstName
<1>11. CASE \/ DefineWord(skip_blocks, m, t, n)
            \/ DefineParen(skip_blocks, m, t, n)
            \/ DefineEnd(skip_blocks, m, t, n)
  BY <1>0, <1>4, <1>11, ReadDefine
<1>12. CASE DefineName(skip_blocks, m, t, n)
  BY <1>0, <1>4, <1>12, ReadDefineName
<1>13. CASE \/ NamespaceSpace(skip_blocks, m, t, n)
            \/ NamespaceEnd(skip_blocks, m, t, n)
            \/ NamespaceBody(skip_blocks, m, t, n)
  BY <1>0, <1>4, <1>13, ReadNamespaceAround
<1>14. CASE Enter(skip_blocks, m, t, n)
  BY <1>0, <1>4, <1>14, ReadEnter
<1>15. CASE EnterFree(skip_blocks, m, t, n)
  BY <1>0, <1>4, <1>15, ReadEnterFree
<1>16. CASE Leave(skip_blocks, m, t, n)
  BY <1>0, <1>4, <1>16, ReadLeave
<1>17. CASE Quote(skip_blocks, m, t, n)
  BY <1>0, <1>4, <1>17, ReadQuote
<1> QED BY <1>1, <1>2, <1>3, <1>5, <1>6, <1>7, <1>8, <1>9, <1>10, <1>11, <1>12, <1>13,
           <1>14, <1>15, <1>16, <1>17 DEF AToken

\* The automaton has no other states.
AllStates == States \cup {"thrown", "fault"}

\* What the parser does leaves it in one of its states.
LEMMA ParserStates ==
  ASSUME NEW t, Automap_parseTokens(t), state \in AllStates
  PROVE  state' \in AllStates
<1>1. ASSUME NEW where \in AllStates, Goto(where)
      PROVE  state' \in AllStates
  BY <1>1 DEF Goto
<1>2. /\ "OUT" \in AllStates /\ "DEFINE_FOUND" \in AllStates /\ "NAMESPACE_2" \in AllStates
      /\ "SKIPPING_BLOCK_NOSTRING" \in AllStates /\ "SKIPPING_BLOCK_STRING" \in AllStates
      /\ "DEFINE_2" \in AllStates /\ "SKIPPING_TO_EOL" \in AllStates
      /\ "thrown" \in AllStates /\ "fault" \in AllStates
  BY DEF AllStates, States
<1>3. CASE Skipped(t) /\ Goto(state)
  BY <1>1, <1>3
<1>4. CASE Out(t)
  <2>1. t.tnum \in Keywords
    BY <1>4 DEF Out
  <2>2. state' \in {"FUNCTION_FOUND", "CLASS_FOUND", "NAMESPACE_FOUND", "CONST_FOUND"}
    BY <1>4, <2>1 DEF Out, Keywords
  <2> QED BY <2>2 DEF AllStates, States
<1>5. CASE OutOther(t)
  BY <1>2, <1>5 DEF OutOther, Goto
<1>6. CASE NamespaceFound(t)
  BY <1>2, <1>6 DEF NamespaceFound, Goto
<1>7. CASE Namespace2(t)
  BY <1>2, <1>7 DEF Namespace2
<1>8. CASE Unnamed(t)
  BY <1>2, <1>8 DEF Unnamed, Goto
<1>9. CASE Named(t)
  BY <1>2, <1>9 DEF Named, Throw, Goto
<1>10. CASE ConstFound(t)
  BY <1>2, <1>10 DEF ConstFound, Throw, Goto
<1>11. CASE SkippingString(t)
  BY <1>2, <1>11 DEF SkippingString, Goto
<1>12. CASE SkippingNoString(t)
  BY <1>2, <1>12 DEF SkippingNoString
<1>13. CASE DefineFound(t)
  BY <1>2, <1>13 DEF DefineFound, Throw, Goto
<1>14. CASE Define2(t)
  BY <1>2, <1>14 DEF Define2, Throw, Goto
<1>15. CASE SkippingToEol(t)
  BY <1>2, <1>15 DEF SkippingToEol, Goto
<1> QED BY <1>3, <1>4, <1>5, <1>6, <1>7, <1>8, <1>9, <1>10, <1>11, <1>12, <1>13, <1>14, <1>15
        DEF Automap_parseTokens

\* The beginning of a file.
LEMMA IInvInit == Init => IInv
<1> SUFFICES ASSUME Init PROVE IInv
  OBVIOUS
<1> DEFINE m == [state |-> "OUT", level |-> 0, nesting |-> <<>>, buffer |-> "empty"]
<1>1. /\ m \in Mode /\ m.state = "OUT" /\ m.level = 0 /\ m.nesting = <<>> /\ m.buffer = "empty"
      /\ End \in Mode /\ End.state = "end"
  BY DEF Mode, End, States
<1> HIDE DEF m
<1>2. /\ todo = <<Part("Program")>> /\ budget = Budget /\ nesting = <<>> /\ namespace = <<>>
      /\ declared = NULL /\ skip_blocks \in BOOLEAN /\ state = "OUT" /\ block_level = 0
      /\ ns = <<>> /\ symbol = NULL
  BY DEF Init
<1>3. Len(<<>>) = 0
  OBVIOUS
<1>4. TypeOK
  <2>1. budget \in 0..Budget /\ AUTOMAP_SYMBOL_MAX \in Nat
    BY <1>2, ConstantsAssumption DEF ConstantsAssumption
  <2>2. ns \in Seq(Characters) /\ namespace \in Seq(Names) /\ nesting \in Seq({"named", "block", "space"})
    BY <1>2
  <2>3. Len(ns) <= AUTOMAP_SYMBOL_MAX
    BY <1>2, <1>3, <2>1
  <2> QED BY <1>2, <2>1, <2>2, <2>3 DEF TypeOK
<1>5. Lengths
  <2>1. PICK name \in Names : TRUE
    BY ConstantsAssumption DEF ConstantsAssumption
  <2>2. <<>> \in Seq(Names)
    OBVIOUS
  <2>3. Len(Prefix(<<>>)) = Total(<<>>)
    BY <2>1, <2>2, TotalFacts
  <2> QED BY <1>2, <2>3, RoomIs
<1>6. Matches(m)
  <2>1. Buffered("empty")
    BY <1>2, HoldsEmpty, BufferedIs
  <2> QED BY <1>1, <1>2, <2>1 DEF Matches
<1>7. Path(skip_blocks, m, todo, End)
  <2>1. Free(m) /\ Exposed(skip_blocks, m.nesting)
    BY <1>1, <1>3 DEF Free, Exposed
  <2>2. APart(skip_blocks, m, Part("Program"), End)
    BY <2>1 DEF APart
  <2>3. Path(skip_blocks, m, <<Part("Program")>>, End)
    BY <1>1, <2>2, PathOne DEF Step
  <2> QED BY <1>2, <2>3
<1>8. OnTheWay
  BY <1>1, <1>6, <1>7 DEF OnTheWay
<1> QED BY <1>2, <1>4, <1>5, <1>8 DEF IInv, Declared, FaultOnlyIfTooLong

\* A part is chosen: another way to the end.
LEMMA IInvChoose ==
  ASSUME IInv, Choose
  PROVE  IInv'
<1>1. UNCHANGED <<nesting, namespace, declared, skip_blocks, state, block_level, ns, symbol>>
  BY DEF Choose, parser
<1>2. PICK form \in Longer(Head(todo).tvalue[1]) \cup {Shortest(Head(todo).tvalue[1])} :
        todo' = form \o Tail(todo)
  BY DEF Choose
<1>3. todo # <<>> /\ IsPart(Head(todo))
  BY DEF Choose
<1>4. budget' \in 0..Budget
  <2>1. budget \in 0..Budget /\ Budget \in Nat
    BY ConstantsAssumption DEF ConstantsAssumption, IInv, TypeOK
  <2>2. budget' = budget \/ (budget > 0 /\ budget' = budget - 1)
    BY DEF Choose
  <2> QED BY <2>1, <2>2
<1>5. TypeOK' /\ Declared' /\ FaultOnlyIfTooLong' /\ state' # "thrown" /\ Lengths'
  <2>1. TypeOK'
    BY <1>1, <1>4 DEF IInv, TypeOK
  <2>2. (Fits' <=> Fits) /\ (Lengths' <=> Lengths)
    BY <1>1, RoomIs
  <2> QED BY <1>1, <2>1, <2>2 DEF IInv, Declared, FaultOnlyIfTooLong
<1>6. ASSUME state # "fault" PROVE OnTheWay'
  <2>1. PICK m \in Mode, e \in Mode :
          Matches(m) /\ e.state \in {"OUT", "end"} /\ Path(skip_blocks, m, todo, e)
    BY <1>6 DEF IInv, OnTheWay
  <2>2. PICK n \in Mode :
          Step(skip_blocks, m, Head(todo), n) /\ Path(skip_blocks, n, Tail(todo), e)
    BY <1>3, <2>1, PathHead
  <2>3. PICK t : t = Head(todo)
    OBVIOUS
  <2>4. PICK s : s = Tail(todo)
    OBVIOUS
  <2>5. /\ Destination(e) /\ skip_blocks \in BOOLEAN
        /\ IsPart(t) /\ Step(skip_blocks, m, t, n) /\ Path(skip_blocks, n, s, e)
        /\ form \in Longer(t.tvalue[1]) \cup {Shortest(t.tvalue[1])}
    BY <1>2, <1>3, <2>1, <2>2, <2>3, <2>4 DEF Destination, IInv, TypeOK
  <2>6. \E f : Destination(f) /\ Path(skip_blocks, m, form \o s, f)
    BY <2>5, ChoosePath
  <2>7. PICK f : Destination(f) /\ Path(skip_blocks, m, form \o s, f)
    BY <2>6
  <2>8. Path(skip_blocks', m, todo', f)
    BY <1>1, <1>2, <2>4, <2>7
  <2>9. Matches(m)'
    BY <1>1, <2>1, RoomIs, BufferedIs DEF Matches
  <2> QED BY <2>7, <2>8, <2>9 DEF OnTheWay, Destination
<1> QED BY <1>1, <1>5, <1>6 DEF IInv

\* A token is read: the next mode.
LEMMA IInvRead ==
  ASSUME IInv, Read
  PROVE  IInv'
<1>1. /\ todo # <<>> /\ ~IsPart(Head(todo)) /\ state # "fault" /\ state # "thrown"
      /\ Reads(Head(todo)) /\ todo' = Tail(todo) /\ budget' = budget /\ skip_blocks' = skip_blocks
  BY DEF Read, Reads, Stopped
<1>2. PICK m \in Mode, e \in Mode :
        Matches(m) /\ e.state \in {"OUT", "end"} /\ Path(skip_blocks, m, todo, e)
  BY <1>1 DEF IInv, OnTheWay
<1>3. PICK n \in Mode :
        Step(skip_blocks, m, Head(todo), n) /\ Path(skip_blocks, n, Tail(todo), e)
  BY <1>1, <1>2, PathHead
<1>4. PICK t : t = Head(todo)
  OBVIOUS
<1>5. Reads(t) /\ AToken(skip_blocks, m, t, n)
  <2>1. \A name : IsPart(Part(name))
    BY DEF IsPart, Part, Token
  <2>2. ~APart(skip_blocks, m, t, n)
    BY <1>1, <1>4, <2>1 DEF APart
  <2> QED BY <1>1, <1>3, <1>4, <2>2 DEF Step
<1>6. Ready(m)
  BY <1>1, <1>2 DEF Ready, IInv, TypeOK, Matches, Along
<1>7. After(n)
  BY <1>5, <1>6, ReadToken
<1>8. state' \in AllStates
  <2>1. state \in AllStates
    BY DEF IInv, TypeOK, AllStates, States
  <2>2. Automap_parseTokens(t)
    BY <1>5 DEF Reads
  <2> QED BY <2>1, <2>2, ParserStates
<1>9. /\ n.level \in Nat /\ n.nesting \in Seq({"named", "block", "space"})
      /\ n.state # "thrown" /\ n.state # "fault"
  BY DEF Mode, States, Marks
<1>10. /\ block_level' = n.level /\ nesting' = n.nesting /\ state' # "thrown"
       /\ state' # "fault" => Comes(n) /\ Len(ns') <= AUTOMAP_SYMBOL_MAX /\ (Fits' => Buffered(n.buffer)')
       /\ state' = "fault" => ~Fits'
  BY <1>7, <1>9 DEF After, Comes
<1>11. TypeOK'
  <2>1. budget' \in 0..Budget /\ skip_blocks' \in BOOLEAN
    BY <1>1 DEF IInv, TypeOK
  <2>2. /\ ns' \in Seq(Characters) /\ namespace' \in Seq(Names)
        /\ symbol' \in Keys \cup {NULL} /\ declared' \in Keys \cup {NULL}
    BY <1>7 DEF After
  <2>3. block_level' \in Nat /\ nesting' \in Seq({"named", "block", "space"})
    BY <1>9, <1>10
  <2>4. state' # "fault" => Len(ns') <= AUTOMAP_SYMBOL_MAX
    BY <1>10
  <2> QED BY <1>8, <2>1, <2>2, <2>3, <2>4 DEF TypeOK, AllStates, States
<1>12. Declared' /\ FaultOnlyIfTooLong' /\ Lengths'
  BY <1>7, <1>10 DEF After, Declared, FaultOnlyIfTooLong
<1>13. ASSUME state' # "fault" PROVE OnTheWay'
  <2>1. Matches(n)'
    BY <1>10, <1>13 DEF Comes, Matches
  <2>2. Path(skip_blocks', n, todo', e)
    BY <1>1, <1>3
  <2> QED BY <1>2, <2>1, <2>2 DEF OnTheWay
<1> QED BY <1>10, <1>11, <1>12, <1>13 DEF IInv

\* Another file, or nothing.
LEMMA IInvNext == IInv /\ [Next]_vars => IInv'
<1>1. ASSUME IInv, NextFile PROVE IInv'
  <2>1. Init'
    BY <1>1 DEF NextFile, Init, IInv, TypeOK
  <2> QED BY <2>1, IInvInit, PTL
<1>2. ASSUME IInv, UNCHANGED vars PROVE IInv'
  BY <1>2, RoomIs, BufferedIs
     DEF vars, program, parser, IInv, TypeOK, Declared, FaultOnlyIfTooLong, OnTheWay, Matches
<1> QED BY <1>1, <1>2, IInvChoose, IInvRead DEF Next

\* The invariant holds in every state.
LEMMA IInvCorrect == Spec => []IInv
BY IInvInit, IInvNext, PTL DEF Spec

\* Whatever well-formed file is read, and in all configurations, the variables of
\* Automap_parseTokens() have their types; the count of braces is never negative.
THEOREM TypeCorrect == Spec => []TypeOK
<1>1. IInv => TypeOK
  BY DEF IInv
<1> QED BY <1>1, IInvCorrect, PTL

\* Automap_parseTokens() adds a symbol exactly when PHP declares one where it counts, and
\* under the key by which the autoloader will look for it, as long as the name of the
\* namespace fits in the buffer.
THEOREM DeclaredCorrect == Spec => []Declared
<1>1. IInv => Declared
  BY DEF IInv
<1> QED BY <1>1, IInvCorrect, PTL

\* Automap_parseTokens() throws no exception on a well-formed file, and is outside of all
\* declarations, blocks and strings at its end.
THEOREM EndsOutsideCorrect == Spec => []EndsOutside
<1>1. IInv => EndsOutside
  <2> SUFFICES ASSUME IInv PROVE EndsOutside
    OBVIOUS
  <2>1. ASSUME todo = <<>>, state # "fault" PROVE state = "OUT"
    <3>1. PICK m \in Mode, e \in Mode :
            Matches(m) /\ e.state \in {"OUT", "end"} /\ Path(skip_blocks, m, todo, e)
      BY <2>1 DEF IInv, OnTheWay
    <3>2. e = m
      BY <2>1, <3>1, PathEmpty
    <3>3. state \in {"OUT", "end"}
      BY <3>1, <3>2 DEF Matches
    <3>4. state # "end"
      BY DEF IInv, TypeOK
    <3> QED BY <3>3, <3>4
  <2> QED BY <2>1 DEF EndsOutside, IInv
<1> QED BY <1>1, IInvCorrect, PTL

\* Automap_parseTokens() writes beyond the buffer ns[] only if the name of a namespace,
\* with its separators, is longer than the buffer.
THEOREM FaultOnlyIfTooLongCorrect == Spec => []FaultOnlyIfTooLong
<1>1. IInv => FaultOnlyIfTooLong
  BY DEF IInv
<1> QED BY <1>1, IInvCorrect, PTL
=============================================================================
