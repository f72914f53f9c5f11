--------------------------- MODULE AutomapParser ---------------------------
(***************************************************************************)
(* Automap_parseTokens() finds the functions, classes and constants that a *)
(* PHP file declares, from the tokens of token_get_all(), with an          *)
(* automaton of eleven states and a count of braces.  Here it reads, token *)
(* by token, the programs of a grammar that knows what is nested in what.  *)
(*                                                                         *)
(* The grammar leaves out what the parser does not know: "${" in a         *)
(* heredoc, binary strings (b"..."), X::class, anonymous classes, "use     *)
(* function", a second name in a const statement, namespace\f() and a      *)
(* comment right after "namespace", ->define( and ::define(, DEFINE in     *)
(* other case, and a define() whose name is no quoted string or which ends *)
(* with a closing tag.                                                     *)
(***************************************************************************)
EXTENDS PHKUri

CONSTANTS
  Names,              \* identifiers: sequences of characters, none a backslash or a quote
  AUTOMAP_SYMBOL_MAX, \* 1024
  Budget,             \* bound: a program has so many parts that are not the shortest
  NULL

ASSUME ConstantsAssumption ==
  /\ Names \subseteq Seq(STRING) /\ Names # {}
  /\ \A name \in Names : name # <<>> /\ Range(name) \cap {"\\", "'"} = {}
  /\ NULL \notin {"named", "block", "space", "close", "global", "namespace", "define", "F", "L", "C"}
  /\ AUTOMAP_SYMBOL_MAX \in Nat \ {0}
  /\ Budget \in Nat

VARIABLES
  todo,        \* the rest of the program: tokens, and parts still to be chosen
  budget,
  nesting,     \* what the token is in: named bodies, blocks, namespaces, strings
  namespace,   \* the namespace it is in, by PHP's rules
  declared,    \* the symbol that the last token has declared, or NULL
  skip_blocks, \* the argument of parseTokens()
  state,
  block_level,
  ns,          \* the characters in the buffer ns[]
  symbol       \* the symbol that the last token has made the parser add, or NULL

parser == <<state, block_level, ns, symbol>>
program == <<todo, budget, nesting, namespace, declared>>
vars == <<program, skip_blocks, parser>>

-----------------------------------------------------------------------------
(***************************************************************************)
(* Tokens, and parts that are still to be chosen.  tnum is "char" for      *)
(* those that token_get_all() gives as a string.  "mark" says what the     *)
(* token is for PHP; the parser does not see it.                           *)
(***************************************************************************)
\* The characters by which the parser counts.
DoubleQuote == "\""
OpenBrace == "{"
CloseBrace == "}"
Semicolon == ";"

Token(tnum, tvalue, mark) == [tnum |-> tnum, tvalue |-> tvalue, mark |-> mark]
Part(name) == Token("part", <<name>>, NULL)
Word(tnum) == Token(tnum, <<>>, NULL)
Char(c) == Token("char", <<c>>, NULL)
Open(what) == Token("char", <<OpenBrace>>, what)
Close == Token("char", <<CloseBrace>>, "close")
Identifier(name, mark) == Token("T_STRING", name, mark)

\* "function &f" returns a reference.
Function(name, mark, ref) ==
  <<Word("T_FUNCTION")>> \o ref \o
  <<Identifier(name, mark), Char("("), Char(")"), Open("named"), Part("Statements"), Close>>
Class(name) == <<Word("T_CLASS"), Identifier(name, "L"), Open("named"), Part("Members"), Close>>
Const(name, mark) == <<Word("T_CONST"), Identifier(name, mark), Word("T_LNUMBER"), Char(Semicolon)>>
Define(name) ==
  <<Identifier(<<"define">>, NULL), Char("("),
    Token("T_CONSTANT_ENCAPSED_STRING", <<"'">> \o name \o <<"'">>, "define"),
    Word("T_LNUMBER"), Char(")"), Char(Semicolon)>>
Namespace(name) == <<Token("T_NAMESPACE", <<>>, "global"), Word("T_WHITESPACE")>> \o name
Block(what, inside) == <<Open(what), Part(inside), Close>>

Closure == <<Word("T_FUNCTION"), Char("("), Char(")")>> \o Block("block", "Statements")
Quoted == <<Char(DoubleQuote), Part("Text"), Char(DoubleQuote)>>
Heredoc == <<Word("T_START_HEREDOC"), Part("Text"), Word("T_END_HEREDOC")>>
Interpolation == <<Token("T_CURLY_OPEN", <<OpenBrace>>, "block"), Part("Expression"), Close>>

\* The shortest form of a part, ...
Shortest(part) ==
  CASE part = "Expression" -> <<Word("T_VARIABLE")>>
    [] part = "NamespaceName" -> <<Identifier(CHOOSE name \in Names : TRUE, "namespace")>>
    [] OTHER -> <<>>

\* ... and the others.
Longer(part) ==
  CASE part = "Program" ->
         {form \o <<Part("Program")>> : form \in
            {Namespace(<<Part("NamespaceName"), Char(Semicolon)>>),
             Namespace(<<Part("NamespaceName")>> \o Block("space", "Statements")),
             Namespace(Block("space", "Statements")),
             <<Part("Statement")>>} \cup {Const(name, "C") : name \in Names}}
    [] part = "Statements" -> {<<Part("Statement"), Part("Statements")>>}
    [] part = "Statement" ->
         {<<Part("Expression"), Char(Semicolon)>>, <<Word("T_IF")>> \o Block("block", "Statements")}
           \cup {Function(name, "F", <<Word("T_WHITESPACE")>>) : name \in Names}
           \cup {Function(name, "F", <<Word("T_COMMENT"), Char("&")>>) : name \in Names}
           \cup {Class(name) : name \in Names} \cup {Define(name) : name \in Names}
    [] part = "Members" ->
         {form \o <<Part("Members")>> : form \in
            {Function(name, "F", <<>>) : name \in Names} \cup {Const(name, "C") : name \in Names}}
    [] part = "Expression" -> {Closure, Quoted, Heredoc}
    [] part = "Text" -> {<<Word("T_ENCAPSED_AND_WHITESPACE"), Part("Text")>>,
                         Interpolation \o <<Part("Text")>>}
    [] part = "NamespaceName" ->
         {<<Identifier(name, "namespace"), Word("T_NS_SEPARATOR"), Part("NamespaceName")>>
            : name \in Names}

IsPart(item) == item.tnum = "part"

Choose ==
  /\ todo # <<>> /\ IsPart(Head(todo))
  /\ LET part == Head(todo).tvalue[1] IN
     \/ todo' = Shortest(part) \o Tail(todo) /\ UNCHANGED budget
     \/ /\ budget > 0
        /\ \E form \in Longer(part) : todo' = form \o Tail(todo)
        /\ budget' = budget - 1
  /\ UNCHANGED <<nesting, namespace, declared, skip_blocks, parser>>

-----------------------------------------------------------------------------
(***************************************************************************)
(* What PHP says that the token declares.  The key of a symbol is that by  *)
(* which the autoloader looks for its full name.                           *)
(***************************************************************************)
Automap_key(type, name) == <<type>> \o LTrim(name, "\\")

FullName(name) == FlattenSeq([i \in 1..Len(namespace) |-> <<"\\">> \o namespace[i]]) \o <<"\\">> \o name

\* Nothing that is inside of a function or a class, and nothing that is in a block if
\* blocks are to be skipped.
Outside ==
  \A i \in 1..Len(nesting) : nesting[i] \notin {"named"} \cup (IF skip_blocks THEN {"block"} ELSE {})

Note(token) ==
  /\ nesting' = CASE token.mark \in {"named", "block", "space"} -> Append(nesting, token.mark)
                  [] token.mark = "close" -> Front(nesting)
                  [] OTHER -> nesting
  /\ namespace' = CASE token.mark = "global" -> <<>>
                    [] token.mark = "namespace" -> Append(namespace, token.tvalue)
                    [] OTHER -> namespace
  /\ declared' = IF ~Outside THEN NULL
                 ELSE CASE token.mark \in {"F", "L", "C"} ->
                             Automap_key(token.mark, FullName(token.tvalue))
                        [] token.mark = "define" ->
                             Automap_key("C", ut_trim_char(token.tvalue, "'"))
                        [] OTHER -> NULL

-----------------------------------------------------------------------------
(***************************************************************************)
(* Automap_parseTokens(): what it does with a token, state by state.       *)
(***************************************************************************)
IsChar(token, c) == token.tnum = "char" /\ token.tvalue = <<c>>

Automap_Parser_addSymbol(type, space, name) ==
  LET trimmed == ut_trim_char(space, "\\") IN
  symbol' = <<type>> \o (IF trimmed = <<>> THEN <<>> ELSE Append(trimmed, "\\")) \o name

\* No symbol, and the rest as it is.
Goto(where) == state' = where /\ UNCHANGED <<block_level, ns>> /\ symbol' = NULL
Throw == Goto("thrown")

Skipped(token) ==
  \/ token.tnum \in {"T_COMMENT", "T_DOC_COMMENT"}
  \/ token.tnum = "T_WHITESPACE" /\ state # "NAMESPACE_FOUND"

Keywords == {"T_FUNCTION", "T_CLASS", "T_NAMESPACE", "T_CONST"}

\* Mutant: the name of the namespace before stays in the buffer.
Out_KeepNamespace(token) ==
  /\ state = "OUT" /\ token.tnum \in Keywords
  /\ Goto([T_FUNCTION |-> "FUNCTION_FOUND", T_CLASS |-> "CLASS_FOUND",
           T_NAMESPACE |-> "NAMESPACE_FOUND", T_CONST |-> "CONST_FOUND"][token.tnum])

Out(token) ==
  /\ state = "OUT" /\ token.tnum \in Keywords
  /\ state' = [T_FUNCTION |-> "FUNCTION_FOUND", T_CLASS |-> "CLASS_FOUND",
               T_NAMESPACE |-> "NAMESPACE_FOUND", T_CONST |-> "CONST_FOUND"][token.tnum]
  /\ ns' = IF token.tnum = "T_NAMESPACE" THEN <<>> ELSE ns
  /\ symbol' = NULL
  /\ UNCHANGED block_level

\* Mutant: the block that is skipped is not counted.
OutOther_NoLevel(token) ==
  /\ state = "OUT" /\ token.tnum \notin Keywords
  /\ Goto(IF token.tnum = "T_STRING" /\ token.tvalue = <<"define">> THEN "DEFINE_FOUND"
          ELSE IF IsChar(token, OpenBrace) /\ skip_blocks THEN "SKIPPING_BLOCK_NOSTRING"
          ELSE "OUT")

OutOther(token) ==
  /\ state = "OUT" /\ token.tnum \notin Keywords
  /\ IF IsChar(token, OpenBrace) /\ skip_blocks
     THEN /\ state' = "SKIPPING_BLOCK_NOSTRING"
          /\ block_level' = 1
          /\ symbol' = NULL
          /\ UNCHANGED ns
     ELSE Goto(IF token.tnum = "T_STRING" /\ token.tvalue = <<"define">>
               THEN "DEFINE_FOUND" ELSE "OUT")

NamespaceFound(token) ==
  /\ state = "NAMESPACE_FOUND"
  /\ Goto(IF token.tnum = "T_WHITESPACE" THEN "NAMESPACE_2" ELSE "OUT")

\* A separator goes into the buffer even if it is full.
Namespace2(token) ==
  /\ state = "NAMESPACE_2"
  /\ CASE token.tnum = "T_STRING" ->
            /\ ns' = IF Len(ns \o token.tvalue) < AUTOMAP_SYMBOL_MAX
                     THEN ns \o token.tvalue ELSE ns
            /\ UNCHANGED state
       [] token.tnum = "T_NS_SEPARATOR" ->
            /\ ns' = Append(ns, "\\")
            /\ state' = IF Len(ns) < AUTOMAP_SYMBOL_MAX THEN state ELSE "fault"
       [] OTHER -> state' = "OUT" /\ UNCHANGED ns
  /\ symbol' = NULL
  /\ UNCHANGED block_level

\* A closure has no name; a function that returns a reference has one after the "&".
Unnamed(token) ==
  /\ state = "FUNCTION_FOUND"
  /\ \/ IsChar(token, "(") /\ Goto("OUT")
     \/ IsChar(token, "&") /\ Goto(state)

Named(token) ==
  /\ state \in {"FUNCTION_FOUND", "CLASS_FOUND"}
  /\ state = "FUNCTION_FOUND" => ~IsChar(token, "(") /\ ~IsChar(token, "&")
  /\ IF token.tnum = "T_STRING"
     THEN /\ Automap_Parser_addSymbol(IF state = "CLASS_FOUND" THEN "L" ELSE "F", ns,
                                      token.tvalue)
          /\ state' = "SKIPPING_BLOCK_NOSTRING"
          /\ block_level' = 0
          /\ UNCHANGED ns
     ELSE Throw

ConstFound(token) ==
  /\ state = "CONST_FOUND"
  /\ IF token.tnum = "T_STRING"
     THEN /\ Automap_Parser_addSymbol("C", ns, token.tvalue)
          /\ state' = "OUT"
          /\ UNCHANGED <<block_level, ns>>
     ELSE Throw

SkippingString(token) ==
  /\ state = "SKIPPING_BLOCK_STRING"
  /\ Goto(IF IsChar(token, DoubleQuote) THEN "SKIPPING_BLOCK_NOSTRING" ELSE state)

\* Mutant: OpenBrace in a heredoc is not counted.
SkippingNoString_NoCurlyOpen(token) ==
  /\ state = "SKIPPING_BLOCK_NOSTRING"
  /\ LET change == CASE IsChar(token, OpenBrace) -> 1 [] IsChar(token, CloseBrace) -> -1 [] OTHER -> 0 IN
     /\ block_level' = block_level + change
     /\ state' = IF IsChar(token, DoubleQuote) THEN "SKIPPING_BLOCK_STRING"
                 ELSE IF change = -1 /\ block_level' = 0 THEN "OUT" ELSE state
  /\ symbol' = NULL
  /\ UNCHANGED ns

SkippingNoString(token) ==
  /\ state = "SKIPPING_BLOCK_NOSTRING"
  /\ LET change == CASE IsChar(token, OpenBrace) \/ token.tnum = "T_CURLY_OPEN" -> 1
                     [] IsChar(token, CloseBrace) -> -1
                     [] OTHER -> 0
     IN /\ block_level' = block_level + change
        /\ state' = IF IsChar(token, DoubleQuote) THEN "SKIPPING_BLOCK_STRING"
                    ELSE IF change = -1 /\ block_level' = 0 THEN "OUT" ELSE state
  /\ symbol' = NULL
  /\ UNCHANGED ns

DefineFound(token) ==
  /\ state = "DEFINE_FOUND"
  /\ IF IsChar(token, "(") THEN Goto("DEFINE_2") ELSE Throw

\* The namespace does not count.
Define2(token) ==
  /\ state = "DEFINE_2"
  /\ IF token.tnum = "T_CONSTANT_ENCAPSED_STRING"
     THEN /\ Automap_Parser_addSymbol("C", <<>>, ut_trim_char(token.tvalue, Head(token.tvalue)))
          /\ state' = "SKIPPING_TO_EOL"
          /\ UNCHANGED <<block_level, ns>>
     ELSE Throw

SkippingToEol(token) ==
  /\ state = "SKIPPING_TO_EOL"
  /\ Goto(IF IsChar(token, Semicolon) THEN "OUT" ELSE state)

Automap_parseTokens(token) ==
  \/ Skipped(token) /\ Goto(state)
  \/ /\ ~Skipped(token)
     /\ \/ Out(token) \/ OutOther(token)
        \/ NamespaceFound(token) \/ Namespace2(token)
        \/ Unnamed(token) \/ Named(token) \/ ConstFound(token)
        \/ SkippingString(token) \/ SkippingNoString(token)
        \/ DefineFound(token) \/ Define2(token) \/ SkippingToEol(token)

-----------------------------------------------------------------------------
Init ==
  /\ todo = <<Part("Program")>>
  /\ budget = Budget
  /\ nesting = <<>>
  /\ namespace = <<>>
  /\ declared = NULL
  /\ skip_blocks \in BOOLEAN
  /\ state = "OUT"
  /\ block_level = 0
  /\ ns = <<>>
  /\ symbol = NULL

Stopped == state \in {"thrown", "fault"}

Read ==
  /\ todo # <<>> /\ ~IsPart(Head(todo)) /\ ~Stopped
  /\ Automap_parseTokens(Head(todo))
  /\ Note(Head(todo))
  /\ todo' = Tail(todo)
  /\ UNCHANGED <<budget, skip_blocks>>

\* Another file: everything is as at the beginning.
NextFile ==
  /\ todo = <<>> \/ Stopped
  /\ todo' = <<Part("Program")>>
  /\ budget' = Budget
  /\ nesting' = <<>>
  /\ namespace' = <<>>
  /\ declared' = NULL
  /\ state' = "OUT"
  /\ block_level' = 0
  /\ ns' = <<>>
  /\ symbol' = NULL
  /\ UNCHANGED skip_blocks

Next == Choose \/ Read \/ NextFile

Spec == Init /\ [][Next]_vars
-----------------------------------------------------------------------------
(***************************************************************************)
(* Properties.                                                             *)
(***************************************************************************)
Characters == (UNION {Range(name) : name \in Names}) \cup {"\\"}
Keys == Seq({"F", "L", "C"} \cup Characters)

\* The variables have their types.
TypeOK ==
  /\ budget \in 0..Budget
  /\ nesting \in Seq({"named", "block", "space"})
  /\ namespace \in Seq(Names)
  /\ declared \in Keys \cup {NULL} /\ symbol \in Keys \cup {NULL}
  /\ skip_blocks \in BOOLEAN
  /\ state \in {"OUT", "FUNCTION_FOUND", "CLASS_FOUND", "NAMESPACE_FOUND", "NAMESPACE_2",
                "CONST_FOUND", "DEFINE_FOUND", "DEFINE_2", "SKIPPING_TO_EOL",
                "SKIPPING_BLOCK_NOSTRING", "SKIPPING_BLOCK_STRING", "thrown", "fault"}
  /\ block_level \in Nat
  /\ ns \in Seq(Characters) /\ (state # "fault" => Len(ns) <= AUTOMAP_SYMBOL_MAX)

\* The name of the namespace, with its separators, fits in the buffer.
Fits == Len(FlattenSeq(namespace)) + Len(namespace) <= AUTOMAP_SYMBOL_MAX

\* The parser adds a symbol exactly when PHP declares one at this level, and under the
\* key that the autoloader will look for: it does not lose its place among strings,
\* heredocs, closures and blocks, and it knows the namespace.
Declared == Fits => symbol = declared

\* A well-formed file is read without an exception, and to its end: the parser does not
\* wait in vain for a brace, a quote or a semicolon.
EndsOutside ==
  /\ state # "thrown"
  /\ todo = <<>> /\ state # "fault" => state = "OUT"

\* The buffer of the namespace is left alone by names that fit in it.
FaultOnlyIfTooLong == state = "fault" => ~Fits
=============================================================================
