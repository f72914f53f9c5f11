-------------------------- MODULE PHKStream_proofs --------------------------
(***************************************************************************)
(* Proofs about PHKStream, for all URIs, packages, sizes and bounds.       *)
(***************************************************************************)
EXTENDS PHKStream, SequenceTheorems, TLAPS

-----------------------------------------------------------------------------
(***************************************************************************)
(* Sequences, data and items.                                              *)
(***************************************************************************)
\* The stack and the open streams are changed at their end, ...
LEMMA PopType ==
  ASSUME NEW S, NEW s \in Seq(S), s # <<>>
  PROVE  /\ s[Len(s)] \in S
         /\ SubSeq(s, 1, Len(s) - 1) \in Seq(S)
         /\ \A f \in S : Append(SubSeq(s, 1, Len(s) - 1), f) \in Seq(S)
<1>1. Len(s) \in Nat \ {0} /\ \A i \in 1..Len(s) : s[i] \in S
  OBVIOUS
<1>2. SubSeq(s, 1, Len(s) - 1) \in Seq(S)
  BY <1>1, SubSeqProperties
<1> QED BY <1>1, <1>2, AppendProperties

\* ... or lose one in the middle.
LEMMA RemoveType ==
  ASSUME NEW S, NEW s \in Seq(S), NEW i \in 1..Len(s)
  PROVE  SubSeq(s, 1, i - 1) \o SubSeq(s, i + 1, Len(s)) \in Seq(S)
<1>1. Len(s) \in Nat /\ \A j \in 1..Len(s) : s[j] \in S
  OBVIOUS
<1>2. SubSeq(s, 1, i - 1) \in Seq(S)
  BY <1>1, SubSeqProperties
<1>3. SubSeq(s, i + 1, Len(s)) \in Seq(S)
  BY <1>1, SubSeqProperties
<1> QED BY <1>2, <1>3, ConcatProperties

\* What the back-end returns is the size of something.
LEMMA DataType ==
  ASSUME TypeOK
  PROVE  /\ \A u \in URIs : /\ StatData(u) \in Sizes \cup {NULL}
                            /\ \A dir \in BOOLEAN : NodeData(u, dir) \in Sizes \cup {NULL}
         /\ \A f \in FrameType : BackendData(f) \in Sizes \cup {NULL}
         /\ stack # <<>> => Top \in FrameType /\ Result \in Sizes \cup {NULL}
<1>1. \A u \in URIs : StatData(u) \in Sizes \cup {NULL}
  BY DEF TypeOK, StatData
<1>2. \A u \in URIs, dir \in BOOLEAN : NodeData(u, dir) \in Sizes \cup {NULL}
  BY <1>1 DEF NodeData
<1>3. \A f \in FrameType : BackendData(f) \in Sizes \cup {NULL}
  BY <1>1, <1>2 DEF BackendData, FrameType
<1>4. ASSUME stack # <<>>
      PROVE  Top \in FrameType /\ Result \in Sizes \cup {NULL}
  <2>1. Top \in FrameType
    BY <1>4, PopType DEF TypeOK, Top
  <2> QED BY <1>3, <2>1 DEF Result, FrameType
<1> QED BY <1>1, <1>2, <1>3, <1>4

ItemsType(c) ==
  /\ c \in [{"node", "stat"} -> [URIs -> ItemType \cup {NULL}]]
  /\ \A u \in URIs : c["node"][u] # NULL => c["node"][u].data # Absent

LEMMA SetType ==
  ASSUME ConstantsAssumption, ItemsType(items),
         NEW prefix \in {"node", "stat"}, NEW u \in URIs,
         NEW data \in Sizes \cup {Absent}, prefix = "node" => data # Absent,
         PHK_Cache_set(prefix, u, data)
  PROVE  ItemsType(items')
<1> DEFINE item == [data |-> data, forced |-> ~Willing(u)]
<1>1. item \in ItemType /\ item.data = data
  BY DEF ItemType
<1> HIDE DEF item
<1>2. items' = items \/ items' = [items EXCEPT ![prefix][u] = item]
  BY DEF PHK_Cache_set, item
<1> QED BY <1>1, <1>2 DEF ItemsType

\* A stream that was opened is in its beginning.
LEMMA OpenedType ==
  ASSUME ConstantsAssumption, streams \in Seq(StreamType), NEW f \in FrameType,
         NEW data \in Sizes \cup {NULL}, Opened(f, data)
  PROVE  streams' \in Seq(StreamType)
<1>1. CASE data = NULL
  BY <1>1 DEF Opened
<1>2. CASE data # NULL
  <2>1. Stream(f.uri, f.dir, data) \in StreamType
    BY <1>2, ConstantsAssumption DEF Stream, StreamType, FrameType, Sizes
  <2> QED BY <2>1, AppendProperties DEF Opened
<1> QED BY <1>1, <1>2

LEMMA ToIntType ==
  ASSUME ConstantsAssumption, NEW n \in Int
  PROVE  ToInt(n) \in Int
<1>1. 2 * (MaxInt + 1) \in Nat \ {0} /\ n + MaxInt + 1 \in Int
  BY DEF ConstantsAssumption
<1> DEFINE d == 2 * (MaxInt + 1)
           m == n + MaxInt + 1
<1> HIDE DEF d, m
<1>2. m % d \in Int
  BY <1>1 DEF d, m
<1> QED BY <1>2 DEF ToInt, d, m, ConstantsAssumption

-----------------------------------------------------------------------------
(***************************************************************************)
(* Types.                                                                  *)
(***************************************************************************)
\* A call for a node, from the cache or not.
LEMMA GetFileType ==
  ASSUME ConstantsAssumption, TypeOK,
         NEW fn \in {"open", "getFile"}, NEW u \in URIs, NEW dir \in BOOLEAN,
         NEW cache \in Toggles, PHK_Stream_getFile(Frame(fn, u, dir, cache))
  PROVE  stack' \in Seq(FrameType) /\ streams' \in Seq(StreamType)
<1> DEFINE f == Frame(fn, u, dir, cache)
           item == items["node"][u]
<1>1. f \in FrameType /\ f.uri = u /\ f.dir = dir
  BY DEF Frame, FrameType
<1> HIDE DEF f
<1>2. CASE item = NULL
  <2>1. stack' = Append(stack, f) /\ streams' = streams
    BY <1>1, <1>2 DEF PHK_Stream_getFile, PHK_Cache_get, f
  <2> QED BY <1>1, <2>1, AppendProperties DEF TypeOK
<1>3. CASE item # NULL
  <2> DEFINE data == IF (u \in Dirs) = dir THEN item.data ELSE NULL
  <2>1. stack' = stack /\ Opened(f, data)
    BY <1>1, <1>3 DEF PHK_Stream_getFile, PHK_Cache_get, f
  <2>2. item \in ItemType /\ item.data # Absent
    BY <1>3 DEF TypeOK
  <2>3. data \in Sizes \cup {NULL}
    BY <2>2 DEF ItemType
  <2> HIDE DEF data
  <2> QED BY <1>1, <2>1, <2>3, OpenedType DEF TypeOK
<1> QED BY <1>2, <1>3

LEMMA StatCallType ==
  ASSUME TypeOK, NEW fn \in {"url_stat", "fstat"}, NEW u \in URIs,
         do_stat(Frame(fn, u, FALSE, NULL))
  PROVE  TypeOK'
<1>1. Frame(fn, u, FALSE, NULL) \in FrameType
  BY DEF Frame, FrameType, Toggles
<1>2. stack' \in Seq(FrameType)
  BY <1>1, AppendProperties DEF do_stat, TypeOK
<1> QED BY <1>2 DEF do_stat, TypeOK, packages

LEMMA NodeReturnsType ==
  ASSUME ConstantsAssumption, TypeOK, NodeReturns
  PROVE  TypeOK'
<1>1. Top \in FrameType /\ Result \in Sizes \cup {NULL} /\ Absent \notin Sizes
      /\ stack' \in Seq(FrameType)
  BY DataType, PopType DEF NodeReturns, Popped, TypeOK, Absent, Sizes,
                           ConstantsAssumption
<1>2. ItemsType(items) /\ Top.uri \in URIs
  BY <1>1 DEF TypeOK, ItemsType, FrameType
<1>3. \/ items' = items
      \/ Result # NULL /\ PHK_Cache_set("node", Top.uri, Result)
  <2> DEFINE ask == Result # NULL /\ Top.uri \in CanCache /\ last_opcode # Top.uri
             do_cache == IF Top.cache # NULL THEN Top.cache ELSE PHK_Mgr_cacheEnabled(Top.uri)
  <2>1. IF ask /\ do_cache THEN PHK_Cache_set("node", Top.uri, Result) ELSE items' = items
    BY Zenon DEF NodeReturns
  <2>2. ask => Result # NULL
    OBVIOUS
  <2> HIDE DEF ask, do_cache
  <2> QED BY <2>1, <2>2, Zenon
<1>4. ItemsType(items')
  BY <1>1, <1>2, <1>3, SetType
<1>5. \E data \in Sizes \cup {NULL} : Opened(Top, data)
  BY <1>1 DEF NodeReturns
<1>6. streams' \in Seq(StreamType)
  BY <1>1, <1>5, OpenedType DEF TypeOK
<1> QED BY <1>1, <1>4, <1>6 DEF TypeOK, ItemsType, NodeReturns, packages

LEMMA StatReturnsType ==
  ASSUME ConstantsAssumption, TypeOK, StatReturns
  PROVE  TypeOK'
<1> DEFINE data == IF Result = NULL THEN Absent ELSE Result
<1>1. Top \in FrameType /\ data \in Sizes \cup {Absent}
      /\ stack' \in Seq(FrameType)
  BY DataType, PopType DEF StatReturns, Popped, TypeOK
<1>2. ItemsType(items) /\ Top.uri \in URIs
  BY <1>1 DEF TypeOK, ItemsType, FrameType
<1>3. items' = items \/ PHK_Cache_set("stat", Top.uri, data)
  BY DEF StatReturns
<1> HIDE DEF data
<1>4. ItemsType(items')
  BY <1>1, <1>2, <1>3, SetType
<1> QED BY <1>1, <1>4 DEF TypeOK, ItemsType, StatReturns, packages

\* Wherever a stream is moved to, in its data.
LEMMA MoveType ==
  ASSUME ConstantsAssumption, TypeOK, NEW i \in 1..Len(streams),
         NEW offset \in Nat, offset <= streams[i].data, NEW eof \in BOOLEAN,
         Move(i, offset, eof)
  PROVE  TypeOK'
<1> DEFINE s == streams[i]
           t == [s EXCEPT !.offset = offset, !.eof = eof]
<1>1. s \in StreamType
  BY DEF TypeOK
<1>2. t \in StreamType
  <2> DEFINE R == [uri : URIs, dir : BOOLEAN, data : Sizes, offset : Sizes, eof : BOOLEAN]
  <2>1. s \in R /\ s.data \in Sizes
    BY <1>1 DEF StreamType
  <2>2. offset \in Sizes
    BY <2>1 DEF Sizes, ConstantsAssumption
  <2>3. t \in R /\ t.offset = offset /\ t.data = s.data
    BY <2>1, <2>2
  <2> QED BY <2>3 DEF StreamType
<1>3. streams' = [streams EXCEPT ![i] = t]
  BY DEF Move
<1> HIDE DEF t
<1>4. streams' \in Seq(StreamType)
  BY <1>2, <1>3, ExceptSeq DEF TypeOK
<1> QED BY <1>4 DEF TypeOK, Move, packages

LEMMA StreamStepType ==
  ASSUME ConstantsAssumption, TypeOK, NEW i \in 1..Len(streams), StreamStep(i)
  PROVE  TypeOK'
<1> DEFINE s == streams[i]
<1>1. /\ s.uri \in URIs /\ s.dir \in BOOLEAN /\ s.eof \in BOOLEAN
      /\ s.data \in Nat /\ s.offset \in Nat /\ s.offset <= s.data
  <2>1. s \in StreamType
    BY DEF TypeOK
  <2> QED BY <2>1 DEF StreamType, Sizes, ConstantsAssumption
<1>3. ASSUME fstat(i)
      PROVE  TypeOK'
  BY <1>1, <1>3, StatCallType DEF fstat
<1>4. ASSUME close(i)
      PROVE  TypeOK'
  <2>1. streams' \in Seq(StreamType)
    BY <1>4, RemoveType DEF close, TypeOK
  <2> QED BY <1>4, <2>1 DEF close, TypeOK, packages
<1>5. ASSUME readdir(i)
      PROVE  TypeOK'
  <2> DEFINE pos == s.offset + 1
             more == pos < s.data
  <2>1. \/ Move(i, s.offset, TRUE)
        \/ s.offset # s.data /\ Move(i, pos, more)
    BY <1>5 DEF readdir
  <2>2. s.offset # s.data => pos \in Nat /\ pos <= s.data
    BY <1>1
  <2>3. more \in BOOLEAN
    BY <1>1
  <2> HIDE DEF pos, more
  <2>4. CASE Move(i, s.offset, TRUE)
    BY <1>1, <2>4, MoveType
  <2>5. CASE s.offset # s.data /\ Move(i, pos, more)
    BY <2>2, <2>3, <2>5, MoveType
  <2> QED BY <2>1, <2>4, <2>5
<1>6. ASSUME rewinddir(i)
      PROVE  TypeOK'
  <2> DEFINE more == s.data > 0
  <2>1. Move(i, 0, more) /\ more \in BOOLEAN /\ 0 \in Nat /\ 0 <= s.data
    BY <1>1, <1>6 DEF rewinddir
  <2> HIDE DEF more
  <2> QED BY <2>1, MoveType
<1>7. ASSUME NEW count \in 1..(MaxSize + 1), read(i, count)
      PROVE  TypeOK'
  <2> DEFINE max == IF s.data > s.offset THEN s.data - s.offset ELSE 0
             pos == s.offset + (IF count > max THEN max ELSE count)
  <2>1. pos \in Nat /\ pos <= s.data
    BY <1>1 DEF ConstantsAssumption
  <2>2. Move(i, pos, s.eof \/ pos = s.data)
    BY <1>7 DEF read
  <2>3. (s.eof \/ pos = s.data) \in BOOLEAN
    BY <1>1
  <2> HIDE DEF pos
  <2> QED BY <2>1, <2>2, <2>3, MoveType
<1>8. ASSUME NEW offset \in Offsets,
             NEW whence \in {"SEEK_SET", "SEEK_CUR", "SEEK_END"},
             seek(i, offset, whence)
      PROVE  TypeOK'
  <2> DEFINE k == CASE whence = "SEEK_SET" -> offset
                    [] whence = "SEEK_CUR" -> s.offset + offset
                    [] whence = "SEEK_END" -> s.data + offset
             n == ToInt(k)
             pos == IF n > s.data THEN s.data ELSE IF n < 0 THEN 0 ELSE n
  <2>1. k \in Int
    BY <1>1 DEF ConstantsAssumption
  <2>2. Move(i, pos, s.eof \/ pos = s.data)
    BY <1>8 DEF seek
  <2> HIDE DEF k
  <2>3. n \in Int
    BY <2>1, ToIntType
  <2> HIDE DEF n
  <2>4. pos \in Nat /\ pos <= s.data
    BY <1>1, <2>3
  <2>5. (s.eof \/ pos = s.data) \in BOOLEAN
    BY <1>1
  <2> HIDE DEF pos
  <2> QED BY <2>2, <2>4, <2>5, MoveType
<1> QED BY <1>3, <1>4, <1>5, <1>6, <1>7, <1>8 DEF StreamStep

LEMMA PackageStepType ==
  ASSUME ConstantsAssumption, TypeOK, NEW p \in Packages, PackageStep(p)
  PROVE  TypeOK'
<1>1. ASSUME PHK_Mgr_mount(p)
      PROVE  TypeOK'
  BY <1>1 DEF PHK_Mgr_mount, TypeOK
<1>2. ASSUME PHK_Mgr_umount(p)
      PROVE  TypeOK'
  BY <1>2 DEF PHK_Mgr_umount, TypeOK
<1>3. ASSUME NEW toggle \in Toggles, PHK_setCache(p, toggle)
      PROVE  TypeOK'
  <2> DEFINE b == toggle # FALSE
  <2>1. b \in BOOLEAN /\ pcaching' = [pcaching EXCEPT ![p] = b]
    BY <1>3 DEF PHK_setCache
  <2> HIDE DEF b
  <2>2. pcaching' \in [Packages -> BOOLEAN]
    BY <2>1 DEF TypeOK
  <2> QED BY <1>3, <2>2 DEF PHK_setCache, TypeOK
<1> QED BY <1>1, <1>2, <1>3 DEF PackageStep

LEMMA URIStepType ==
  ASSUME ConstantsAssumption, TypeOK, NEW u \in URIs, URIStep(u)
  PROVE  TypeOK'
<1>1. ASSUME NEW dir \in BOOLEAN, generic_open(u, dir)
      PROVE  TypeOK'
  <2>1. CASE Valid(u)
    <3>1. PHK_Stream_getFile(Frame("open", u, dir, NULL)) /\ NULL \in Toggles
      BY <1>1, <2>1 DEF generic_open, Toggles
    <3>2. stack' \in Seq(FrameType) /\ streams' \in Seq(StreamType)
      BY <3>1, GetFileType
    <3> QED BY <1>1, <3>2 DEF generic_open, TypeOK, packages
  <2>2. CASE ~Valid(u)
    BY <1>1, <2>2 DEF generic_open, TypeOK, packages
  <2> QED BY <2>1, <2>2
<1>2. ASSUME NEW cache \in Toggles, getFile(u, cache)
      PROVE  TypeOK'
  <2>1. PHK_Stream_getFile(Frame("getFile", u, FALSE, cache))
    BY <1>2 DEF getFile
  <2>2. stack' \in Seq(FrameType) /\ streams' \in Seq(StreamType)
    BY <2>1, GetFileType
  <2> QED BY <1>2, <2>2 DEF getFile, TypeOK, packages
<1>3. ASSUME url_stat(u)
      PROVE  TypeOK'
  <2>1. CASE Valid(u)
    BY <1>3, <2>1, StatCallType DEF url_stat
  <2>2. CASE ~Valid(u)
    BY <1>3, <2>2 DEF url_stat, TypeOK, vars, packages
  <2> QED BY <2>1, <2>2
<1>4. ASSUME cache_key(u)
      PROVE  TypeOK'
  BY <1>4 DEF cache_key, TypeOK, packages
<1>5. ASSUME Modify(u)
      PROVE  TypeOK'
  <2>1. \A c \in Contents : c[u] \in Sizes \cup {NULL}
    BY DEF ConstantsAssumption
  <2> QED BY <1>5, <2>1 DEF Modify, TypeOK, packages
<1>6. ASSUME NEW prefix \in {"node", "stat"}, Expire(prefix, u)
      PROVE  TypeOK'
  <2>1. items' = [items EXCEPT ![prefix][u] = NULL]
    BY <1>6 DEF Expire
  <2>2. ItemsType(items')
    BY <2>1 DEF TypeOK, ItemsType
  <2> QED BY <1>6, <2>2 DEF Expire, TypeOK, ItemsType, packages
<1> QED BY <1>1, <1>2, <1>3, <1>4, <1>5, <1>6 DEF URIStep

LEMMA BackendReadsType ==
  ASSUME TypeOK, BackendReads
  PROVE  TypeOK'
<1> DEFINE f == [Top EXCEPT !.data = BackendData(Top)]
<1>1. f \in FrameType
  BY DataType DEF BackendReads, FrameType
<1>2. stack' = Append(Popped, f)
  BY DEF BackendReads
<1> HIDE DEF f
<1>3. stack' \in Seq(FrameType)
  BY <1>1, <1>2, PopType DEF Popped, TypeOK, BackendReads
<1> QED BY <1>3 DEF BackendReads, TypeOK, packages

LEMMA InitType ==
  ASSUME ConstantsAssumption, Init
  PROVE  TypeOK
<1>1. content \in [URIs -> Sizes \cup {NULL}] /\ cache_maxsize \in Int
  BY DEF Init, ConstantsAssumption
<1> QED BY <1>1 DEF Init, TypeOK, Toggles

LEMMA NextType ==
  ASSUME ConstantsAssumption, TypeOK, [Next]_vars
  PROVE  TypeOK'
<1>1. CASE UNCHANGED vars
  BY <1>1 DEF TypeOK, vars, packages
<1>2. ASSUME NEW toggle \in Toggles, PHK_Mgr_setCache(toggle)
      PROVE  TypeOK'
  BY <1>2 DEF PHK_Mgr_setCache, TypeOK
<1>3. ASSUME NEW size \in MaxSizes, setCacheMaxSize(size)
      PROVE  TypeOK'
  BY <1>3 DEF setCacheMaxSize, TypeOK, packages, ConstantsAssumption
<1>4. CASE RShutdown
  BY <1>4 DEF RShutdown, TypeOK, Toggles
<1> QED BY <1>1, <1>2, <1>3, <1>4, URIStepType, StreamStepType, PackageStepType,
           BackendReadsType, NodeReturnsType, StatReturnsType DEF Next

\* The position of a stream is in its data, and whatever else TypeOK says.
THEOREM TypeCorrect == Spec => []TypeOK
<1>1. Init => TypeOK
  BY InitType, ConstantsAssumption
<1>2. TypeOK /\ [Next]_vars => TypeOK'
  BY NextType, ConstantsAssumption
<1> QED BY <1>1, <1>2, PTL DEF Spec

-----------------------------------------------------------------------------
(***************************************************************************)
(* The truth of the cache.  An item is true when it was put there because  *)
(* a call that waited returned what is so.  An item that nobody ordered is *)
(* of a package that is not being created, so no later change can make it  *)
(* false.                                                                  *)
(***************************************************************************)
\* A call whose back-end has its data has what is in the package, and of the kind
\* that was asked for.
FrameTrue(c, f) ==
  f.data # NULL =>
    /\ f.fn = "open" => f.dir = (f.uri \in Dirs)
    /\ Ordinary(f.uri) => f.data = c[f.uri]
TrueFrames(c) == {f \in FrameType : FrameTrue(c, f)}
FramesTrue == stack \in Seq(TrueFrames(content))

ItemTrue(c, prefix, u, item) ==
  item # NULL /\ Trusted(prefix, u, item) =>
    /\ Ordinary(u)
    /\ item.data = (IF prefix = "stat" /\ c[u] = NULL THEN Absent ELSE c[u])
ItemsTrue(c, its) ==
  \A prefix \in {"node", "stat"}, u \in URIs : ItemTrue(c, prefix, u, its[prefix][u])

IInv == TypeOK /\ FramesTrue /\ ItemsTrue(content, items)

\* Steps that put nothing into the cache and let no back-end read.
LEMMA SameTrue ==
  ASSUME IInv, TypeOK', UNCHANGED <<content, items>>, stack' = stack \/ stack' = <<>>
  PROVE  IInv'
<1>1. content' = content /\ items' = items
  OBVIOUS
<1>2. <<>> \in Seq(TrueFrames(content))
  OBVIOUS
<1>3. stack' \in Seq(TrueFrames(content))
  BY <1>2 DEF IInv, FramesTrue
<1> QED BY <1>1, <1>3 DEF IInv, FramesTrue

\* A call that waits has read nothing yet.
LEMMA CallTrue ==
  ASSUME IInv, TypeOK', UNCHANGED <<content, items>>,
         NEW f, f.data = NULL, stack' = stack \/ stack' = Append(stack, f)
  PROVE  IInv'
<1>1. CASE stack' = stack
  BY <1>1, SameTrue
<1>2. CASE stack' = Append(stack, f)
  <2>1. stack' \in Seq(FrameType) /\ stack'[Len(stack')] = f /\ Len(stack') # 0
    BY <1>2, AppendProperties DEF IInv, TypeOK
  <2>2. f \in FrameType
    BY <2>1 DEF TypeOK
  <2>3. f \in TrueFrames(content)
    BY <2>2 DEF TrueFrames, FrameTrue
  <2>4. stack' \in Seq(TrueFrames(content))
    BY <1>2, <2>3, AppendProperties DEF IInv, FramesTrue
  <2> QED BY <2>4 DEF IInv, FramesTrue
<1> QED BY <1>1, <1>2

\* What the back-end returns about a package that is not being created, is so, ...
LEMMA ResultTrue ==
  ASSUME IInv, stack # <<>>, Ordinary(Top.uri)
  PROVE  /\ Result # NULL => Result = content[Top.uri]
         /\ Valid(Top.uri) /\ Top.fn \in {"url_stat", "fstat"} => Result = content[Top.uri]
<1>1. Top \in TrueFrames(content)
  BY PopType DEF Top, IInv, FramesTrue
<1>2. CASE Top.data # NULL
  BY <1>1, <1>2 DEF Result, TrueFrames, FrameTrue
<1>3. CASE Top.data = NULL
  <2>1. Result = BackendData(Top)
    BY <1>3 DEF Result
  <2>2. BackendData(Top) # NULL => BackendData(Top) = content[Top.uri]
    BY DEF BackendData, NodeData, StatData
  <2>3. Valid(Top.uri) /\ Top.fn \in {"url_stat", "fstat"} =>
          BackendData(Top) = content[Top.uri]
    BY DEF BackendData, StatData
  <2> QED BY <2>1, <2>2, <2>3
<1> QED BY <1>2, <1>3

\* ... and so is the item that is made of it.
LEMMA SetTrue ==
  ASSUME TypeOK, ItemsTrue(content, items),
         NEW prefix \in {"node", "stat"}, NEW u \in URIs, NEW data,
         Ordinary(u) /\ (prefix = "node" \/ Valid(u)) =>
           data = (IF prefix = "stat" /\ content[u] = NULL THEN Absent ELSE content[u]),
         PHK_Cache_set(prefix, u, data)
  PROVE  ItemsTrue(content, items')
<1> DEFINE item == [data |-> data, forced |-> ~Willing(u)]
<1>1. Willing(u) => Ordinary(u) /\ Valid(u)
  BY DEF Willing, PHK_cacheEnabled, Ordinary, Valid
<1>2. item.data = data /\ (item.forced \/ Willing(u))
  OBVIOUS
<1> HIDE DEF item
<1>3. ItemTrue(content, prefix, u, item)
  BY <1>1, <1>2 DEF ItemTrue, Trusted
<1>4. items' = items \/ items' = [items EXCEPT ![prefix][u] = item]
  BY DEF PHK_Cache_set, item
<1>5. ASSUME NEW q \in {"node", "stat"}, NEW v \in URIs
      PROVE  items'[q][v] = items[q][v] \/ (q = prefix /\ v = u /\ items'[q][v] = item)
  BY <1>4 DEF TypeOK
<1> QED BY <1>3, <1>5 DEF ItemsTrue

LEMMA ReturnTrue ==
  ASSUME IInv, TypeOK', UNCHANGED content, stack # <<>>, stack' = Popped,
         ItemsTrue(content, items')
  PROVE  IInv'
<1>1. stack' \in Seq(TrueFrames(content))
  BY PopType DEF Popped, IInv, FramesTrue
<1> QED BY <1>1 DEF IInv, FramesTrue

LEMMA NodeReturnsTrue ==
  ASSUME IInv, TypeOK', NodeReturns
  PROVE  IInv'
<1>1. Top.uri \in URIs
  BY DataType DEF NodeReturns, IInv, FrameType
<1>2. \/ items' = items
      \/ Result # NULL /\ PHK_Cache_set("node", Top.uri, Result)
  <2> DEFINE ask == Result # NULL /\ Top.uri \in CanCache /\ last_opcode # Top.uri
             do_cache == IF Top.cache # NULL THEN Top.cache ELSE PHK_Mgr_cacheEnabled(Top.uri)
  <2>1. IF ask /\ do_cache THEN PHK_Cache_set("node", Top.uri, Result) ELSE items' = items
    BY Zenon DEF NodeReturns
  <2>2. ask => Result # NULL
    OBVIOUS
  <2> HIDE DEF ask, do_cache
  <2> QED BY <2>1, <2>2, Zenon
<1>3. stack # <<>>
  BY DEF NodeReturns
<1>4. ItemsTrue(content, items')
  <2>1. CASE items' = items
    BY <2>1 DEF IInv
  <2>2. CASE Result # NULL /\ PHK_Cache_set("node", Top.uri, Result)
    <3>1. Ordinary(Top.uri) => Result = content[Top.uri]
      BY <1>3, <2>2, ResultTrue
    <3> QED BY <1>1, <2>2, <3>1, SetTrue DEF IInv
  <2> QED BY <1>2, <2>1, <2>2
<1> QED BY <1>3, <1>4, ReturnTrue DEF NodeReturns

LEMMA StatReturnsTrue ==
  ASSUME IInv, TypeOK', StatReturns
  PROVE  IInv'
<1> DEFINE data == IF Result = NULL THEN Absent ELSE Result
<1>1. Top.uri \in URIs
  BY DataType DEF StatReturns, IInv, FrameType
<1>2. items' = items \/ PHK_Cache_set("stat", Top.uri, data)
  BY DEF StatReturns
<1>3. stack # <<>> /\ Top.fn \in {"url_stat", "fstat"}
  BY DEF StatReturns
<1>4. Ordinary(Top.uri) /\ Valid(Top.uri) =>
        data = (IF content[Top.uri] = NULL THEN Absent ELSE content[Top.uri])
  BY <1>3, ResultTrue
<1> HIDE DEF data
<1>5. ItemsTrue(content, items')
  <2>1. CASE items' = items
    BY <2>1 DEF IInv
  <2>2. CASE PHK_Cache_set("stat", Top.uri, data)
    BY <1>1, <1>4, <2>2, SetTrue DEF IInv
  <2> QED BY <1>2, <2>1, <2>2
<1> QED BY <1>3, <1>5, ReturnTrue DEF StatReturns

LEMMA BackendReadsTrue ==
  ASSUME IInv, TypeOK', BackendReads
  PROVE  IInv'
<1> DEFINE f == [Top EXCEPT !.data = BackendData(Top)]
<1>1. f \in FrameType /\ f.uri = Top.uri /\ f.data = BackendData(Top)
  BY DataType DEF BackendReads, FrameType, IInv
<1>2. stack' = Append(Popped, f)
  BY DEF BackendReads
<1> HIDE DEF f
<1>3. /\ BackendData(Top) = content[Top.uri]
      /\ Top.fn = "open" => Top.dir = (Top.uri \in Dirs)
      /\ f.fn = Top.fn /\ f.dir = Top.dir
  <2>1. Top \in FrameType /\ BackendData(Top) # NULL
    BY DataType DEF BackendReads, IInv
  <2>2. f.fn = Top.fn /\ f.dir = Top.dir
    BY <2>1 DEF f, FrameType
  <2>3. BackendData(Top) = content[Top.uri]
    BY <2>1 DEF BackendData, NodeData, StatData
  <2>4. Top.fn = "open" => Top.dir = (Top.uri \in Dirs)
    BY <2>1, Zenon DEF BackendData, NodeData
  <2> QED BY <2>2, <2>3, <2>4
<1>4. f \in TrueFrames(content)
  BY <1>1, <1>3 DEF TrueFrames, FrameTrue
<1>5. stack' \in Seq(TrueFrames(content))
  BY <1>2, <1>4, PopType DEF Popped, IInv, FramesTrue, BackendReads
<1> QED BY <1>5 DEF IInv, FramesTrue, BackendReads

\* Only what is being created changes.
LEMMA ModifyTrue ==
  ASSUME IInv, TypeOK', NEW u \in URIs, Modify(u)
  PROVE  IInv'
<1>1. \A v \in URIs : Ordinary(v) => content'[v] = content[v]
  BY DEF Modify, Ordinary, IInv, TypeOK
<1>2. TrueFrames(content) \subseteq TrueFrames(content')
  BY <1>1 DEF TrueFrames, FrameTrue, FrameType
<1>3. stack' = stack /\ items' = items
  BY DEF Modify
<1>4. stack' \in Seq(TrueFrames(content'))
  BY <1>2, <1>3 DEF IInv, FramesTrue
<1>5. ItemsTrue(content', items')
  BY <1>1, <1>3 DEF IInv, ItemsTrue, ItemTrue
<1> QED BY <1>4, <1>5 DEF IInv, FramesTrue

LEMMA ExpireTrue ==
  ASSUME IInv, TypeOK', NEW prefix \in {"node", "stat"}, NEW u \in URIs, Expire(prefix, u)
  PROVE  IInv'
<1>1. \A q \in {"node", "stat"}, v \in URIs :
        items'[q][v] = items[q][v] \/ items'[q][v] = NULL
  BY DEF Expire, IInv, TypeOK
<1>2. ItemsTrue(content, items')
  BY <1>1 DEF IInv, ItemsTrue, ItemTrue
<1> QED BY <1>2 DEF IInv, FramesTrue, Expire

LEMMA URIStepTrue ==
  ASSUME ConstantsAssumption, IInv, TypeOK', NEW u \in URIs, URIStep(u)
  PROVE  IInv'
<1>1. ASSUME NEW dir \in BOOLEAN, generic_open(u, dir)
      PROVE  IInv'
  <2> DEFINE f == Frame("open", u, dir, NULL)
  <2>1. f.data = NULL
    BY DEF Frame
  <2>2. UNCHANGED <<content, items>> /\ (stack' = stack \/ stack' = Append(stack, f))
    BY <1>1 DEF generic_open, PHK_Stream_getFile
  <2> HIDE DEF f
  <2> QED BY <2>1, <2>2, CallTrue
<1>2. ASSUME NEW cache \in Toggles, getFile(u, cache)
      PROVE  IInv'
  <2> DEFINE f == Frame("getFile", u, FALSE, cache)
  <2>1. f.data = NULL
    BY DEF Frame
  <2>2. UNCHANGED <<content, items>> /\ (stack' = stack \/ stack' = Append(stack, f))
    BY <1>2 DEF getFile, PHK_Stream_getFile
  <2> HIDE DEF f
  <2> QED BY <2>1, <2>2, CallTrue
<1>3. ASSUME url_stat(u)
      PROVE  IInv'
  <2> DEFINE f == Frame("url_stat", u, FALSE, NULL)
  <2>1. f.data = NULL
    BY DEF Frame
  <2>2. UNCHANGED <<content, items>> /\ (stack' = stack \/ stack' = Append(stack, f))
    BY <1>3 DEF url_stat, do_stat, vars
  <2> HIDE DEF f
  <2> QED BY <2>1, <2>2, CallTrue
<1>4. ASSUME cache_key(u)
      PROVE  IInv'
  BY <1>4, SameTrue DEF cache_key
<1> QED BY <1>1, <1>2, <1>3, <1>4, ModifyTrue, ExpireTrue DEF URIStep

LEMMA StreamStepTrue ==
  ASSUME IInv, TypeOK', NEW i \in 1..Len(streams), StreamStep(i)
  PROVE  IInv'
<1>1. ASSUME fstat(i)
      PROVE  IInv'
  <2> DEFINE f == Frame("fstat", streams[i].uri, FALSE, NULL)
  <2>1. f.data = NULL
    BY DEF Frame
  <2>2. UNCHANGED <<content, items>> /\ (stack' = stack \/ stack' = Append(stack, f))
    BY <1>1 DEF fstat, do_stat
  <2> HIDE DEF f
  <2> QED BY <2>1, <2>2, CallTrue
<1>2. ASSUME NEW offset, NEW eof, Move(i, offset, eof)
      PROVE  UNCHANGED <<content, items>> /\ stack' = stack
  BY <1>2 DEF Move
<1>3. ASSUME readdir(i)
      PROVE  IInv'
  BY <1>2, <1>3, SameTrue DEF readdir
<1>4. ASSUME rewinddir(i)
      PROVE  IInv'
  BY <1>2, <1>4, SameTrue DEF rewinddir
<1>5. ASSUME NEW count \in 1..(MaxSize + 1), read(i, count)
      PROVE  IInv'
  BY <1>2, <1>5, SameTrue DEF read
<1>6. ASSUME NEW offset \in Offsets,
             NEW whence \in {"SEEK_SET", "SEEK_CUR", "SEEK_END"},
             seek(i, offset, whence)
      PROVE  IInv'
  BY <1>2, <1>6, SameTrue DEF seek
<1>7. ASSUME close(i)
      PROVE  IInv'
  BY <1>7, SameTrue DEF close
<1> QED BY <1>1, <1>3, <1>4, <1>5, <1>6, <1>7 DEF StreamStep

LEMMA NextTrue ==
  ASSUME ConstantsAssumption, IInv, [Next]_vars
  PROVE  IInv'
<1>1. TypeOK'
  BY NextType DEF IInv
<1>2. CASE UNCHANGED vars
  BY <1>1, <1>2, SameTrue DEF vars
<1>3. ASSUME NEW toggle \in Toggles, PHK_Mgr_setCache(toggle)
      PROVE  IInv'
  BY <1>1, <1>3, SameTrue DEF PHK_Mgr_setCache
<1>4. ASSUME NEW size \in MaxSizes, setCacheMaxSize(size)
      PROVE  IInv'
  BY <1>1, <1>4, SameTrue DEF setCacheMaxSize
<1>5. CASE RShutdown
  BY <1>1, <1>5, SameTrue DEF RShutdown
<1>6. ASSUME NEW p \in Packages, PackageStep(p)
      PROVE  IInv'
  <2>1. UNCHANGED <<content, items>> /\ stack' = stack
    BY <1>6 DEF PackageStep, PHK_Mgr_mount, PHK_Mgr_umount, PHK_setCache
  <2> QED BY <1>1, <2>1, SameTrue
<1> QED BY <1>1, <1>2, <1>3, <1>4, <1>5, <1>6, URIStepTrue, StreamStepTrue,
           BackendReadsTrue, NodeReturnsTrue, StatReturnsTrue DEF Next

\* At the beginning no call waits and the cache is empty.
LEMMA InitTrue ==
  ASSUME ConstantsAssumption, Init
  PROVE  IInv
<1>1. stack \in Seq(TrueFrames(content))
  BY DEF Init
<1>2. ItemsTrue(content, items)
  BY DEF Init, ItemsTrue, ItemTrue
<1> QED BY <1>1, <1>2, InitType DEF IInv, FramesTrue

\* Unless it was cached on order, what the cache has of a file is so.
THEOREM CacheTrueCorrect == Spec => []CacheTrue
<1>1. Init => IInv
  BY InitTrue, ConstantsAssumption
<1>2. IInv /\ [Next]_vars => IInv'
  BY NextTrue, ConstantsAssumption
<1>3. IInv => CacheTrue
  BY DEF IInv, ItemsTrue, ItemTrue, CacheTrue
<1> QED BY <1>1, <1>2, <1>3, PTL DEF Spec

-----------------------------------------------------------------------------
(***************************************************************************)
(* What is read from a stream is what is in the package: it comes from the *)
(* cache, or from a call that waited.                                      *)
(***************************************************************************)
StreamTrue(c, s) ==
  /\ s.dir = (s.uri \in Dirs)
  /\ Ordinary(s.uri) => s.data = c[s.uri]
TrueStreams(c) == {s \in StreamType : StreamTrue(c, s)}
StreamsInv == streams \in Seq(TrueStreams(content))

\* What is opened is true if its data are.
LEMMA OpenedTrue ==
  ASSUME ConstantsAssumption, StreamsInv, NEW f \in FrameType,
         NEW data \in Sizes \cup {NULL}, Opened(f, data),
         data # NULL /\ f.fn = "open" =>
           /\ f.dir = (f.uri \in Dirs)
           /\ Ordinary(f.uri) => data = content[f.uri]
  PROVE  streams' \in Seq(TrueStreams(content))
<1> DEFINE s == Stream(f.uri, f.dir, data)
<1>1. CASE f.fn = "open" /\ data # NULL
  <2>1. s \in StreamType
    BY <1>1, ConstantsAssumption DEF Stream, StreamType, FrameType, Sizes
  <2>2. s.uri = f.uri /\ s.dir = f.dir /\ s.data = data
    BY DEF Stream
  <2>3. streams' = Append(streams, s)
    BY <1>1 DEF Opened
  <2> HIDE DEF s
  <2>4. s \in TrueStreams(content)
    BY <1>1, <2>1, <2>2 DEF TrueStreams, StreamTrue
  <2> QED BY <2>3, <2>4, AppendProperties DEF StreamsInv
<1>2. CASE ~(f.fn = "open" /\ data # NULL)
  BY <1>2 DEF Opened, StreamsInv
<1> QED BY <1>1, <1>2

\* An item of the cache is true, and is taken only if it is of the right kind.
LEMMA GetFileStreams ==
  ASSUME ConstantsAssumption, IInv, StreamsInv,
         NEW fn \in {"open", "getFile"}, NEW u \in URIs, NEW dir \in BOOLEAN,
         NEW cache \in Toggles, PHK_Stream_getFile(Frame(fn, u, dir, cache))
  PROVE  streams' \in Seq(TrueStreams(content))
<1> DEFINE f == Frame(fn, u, dir, cache)
           item == items["node"][u]
           data == IF (u \in Dirs) = dir THEN item.data ELSE NULL
<1>1. f \in FrameType /\ f.uri = u /\ f.dir = dir
  BY DEF Frame, FrameType
<1> HIDE DEF f
<1>2. CASE item = NULL
  BY <1>1, <1>2 DEF PHK_Stream_getFile, PHK_Cache_get, f, StreamsInv
<1>3. CASE item # NULL
  <2>1. Opened(f, data)
    BY <1>1, <1>3 DEF PHK_Stream_getFile, PHK_Cache_get, f
  <2>2. item \in ItemType /\ item.data # Absent
    BY <1>3 DEF IInv, TypeOK
  <2>3. data \in Sizes \cup {NULL}
    BY <2>2 DEF ItemType
  <2>4. Ordinary(u) => item.data = content[u]
    BY <1>3 DEF IInv, ItemsTrue, ItemTrue, Trusted
  <2>5. data # NULL => dir = (u \in Dirs) /\ data = item.data
    OBVIOUS
  <2> HIDE DEF data, item
  <2> QED BY <1>1, <2>1, <2>3, <2>4, <2>5, OpenedTrue
<1> QED BY <1>2, <1>3

\* The back-end has what it was asked for, now or when it read.
LEMMA NodeReturnsStreams ==
  ASSUME ConstantsAssumption, IInv, StreamsInv, NodeReturns
  PROVE  streams' \in Seq(TrueStreams(content))
<1>1. Top \in FrameType /\ Result \in Sizes \cup {NULL} /\ stack # <<>>
  BY DataType DEF NodeReturns, IInv
<1>2. Result # NULL /\ Top.fn = "open" => Top.dir = (Top.uri \in Dirs)
  <2>1. Top \in TrueFrames(content)
    BY <1>1, PopType DEF Top, IInv, FramesTrue
  <2>2. CASE Top.data # NULL
    BY <2>1, <2>2 DEF TrueFrames, FrameTrue
  <2>3. CASE Top.data = NULL
    BY <2>3, Zenon DEF Result, BackendData, NodeData
  <2> QED BY <2>2, <2>3
<1>3. Result # NULL /\ Ordinary(Top.uri) => Result = content[Top.uri]
  BY <1>1, ResultTrue
<1>4. PICK data \in {Result, NULL} : Opened(Top, data)
  BY DEF NodeReturns
<1>5. data # NULL => data = Result
  BY <1>4
<1> QED BY <1>1, <1>2, <1>3, <1>4, <1>5, OpenedTrue

\* A stream is moved, or closed: what it reads stays.
LEMMA StreamStepStreams ==
  ASSUME TypeOK', StreamsInv, NEW i \in 1..Len(streams), StreamStep(i)
  PROVE  streams' \in Seq(TrueStreams(content)) /\ content' = content
<1>1. ASSUME NEW offset, NEW eof, Move(i, offset, eof)
      PROVE  streams' \in Seq(TrueStreams(content)) /\ content' = content
  <2> DEFINE s == streams[i]
             t == [s EXCEPT !.offset = offset, !.eof = eof]
  <2>1. s \in TrueStreams(content)
    BY DEF StreamsInv
  <2>2. t.uri = s.uri /\ t.dir = s.dir /\ t.data = s.data
    BY <2>1 DEF TrueStreams, StreamType
  <2>3. streams' = [streams EXCEPT ![i] = t] /\ content' = content
    BY <1>1 DEF Move
  <2> HIDE DEF t
  <2>4. t \in StreamType
    <3>1. i \in 1..Len(streams') /\ streams'[i] = t
      BY <2>3 DEF StreamsInv
    <3> QED BY <3>1 DEF TypeOK
  <2>5. t \in TrueStreams(content)
    BY <2>1, <2>2, <2>4 DEF TrueStreams, StreamTrue
  <2> QED BY <2>3, <2>5, ExceptSeq DEF StreamsInv
<1>2. ASSUME fstat(i)
      PROVE  streams' \in Seq(TrueStreams(content)) /\ content' = content
  BY <1>2 DEF fstat, do_stat, StreamsInv
<1>3. ASSUME close(i)
      PROVE  streams' \in Seq(TrueStreams(content)) /\ content' = content
  BY <1>3, RemoveType DEF close, StreamsInv
<1> QED BY ZenonT(60), <1>1, <1>2, <1>3 DEF StreamStep, readdir, rewinddir, read, seek

\* A creator may be written to: what is read from it is not claimed to be so.
LEMMA URIStepStreams ==
  ASSUME ConstantsAssumption, IInv, TypeOK', StreamsInv, NEW u \in URIs, URIStep(u)
  PROVE  StreamsInv'
<1>1. ASSUME NEW dir \in BOOLEAN, generic_open(u, dir)
      PROVE  StreamsInv'
  <2>1. streams' = streams \/ PHK_Stream_getFile(Frame("open", u, dir, NULL))
    BY <1>1 DEF generic_open
  <2>2. NULL \in Toggles /\ content' = content
    BY <1>1 DEF generic_open, Toggles
  <2> QED BY <2>1, <2>2, GetFileStreams DEF StreamsInv
<1>2. ASSUME NEW cache \in Toggles, getFile(u, cache)
      PROVE  StreamsInv'
  <2>1. PHK_Stream_getFile(Frame("getFile", u, FALSE, cache)) /\ content' = content
    BY <1>2 DEF getFile
  <2> QED BY <2>1, GetFileStreams DEF StreamsInv
<1>3. ASSUME Modify(u)
      PROVE  StreamsInv'
  <2>1. \A v \in URIs : Ordinary(v) => content'[v] = content[v]
    BY <1>3 DEF Modify, Ordinary, IInv, TypeOK
  <2>2. TrueStreams(content) \subseteq TrueStreams(content')
    BY <2>1 DEF TrueStreams, StreamTrue, StreamType
  <2>3. streams' = streams
    BY <1>3 DEF Modify
  <2>4. streams' \in Seq(TrueStreams(content'))
    BY <2>2, <2>3 DEF StreamsInv
  <2> QED BY <2>4 DEF StreamsInv
<1>4. ASSUME \/ url_stat(u) \/ cache_key(u)
             \/ \E prefix \in {"node", "stat"} : Expire(prefix, u)
      PROVE  StreamsInv'
  <2>1. UNCHANGED <<content, streams>>
    BY <1>4 DEF url_stat, do_stat, vars, cache_key, Expire
  <2> QED BY <2>1 DEF StreamsInv
<1> QED BY <1>1, <1>2, <1>3, <1>4 DEF URIStep

\* Every step keeps the open streams true.
LEMMA NextStreams ==
  ASSUME ConstantsAssumption, IInv, TypeOK', StreamsInv, [Next]_vars
  PROVE  StreamsInv'
<1>1. ASSUME NEW i \in 1..Len(streams), StreamStep(i)
      PROVE  StreamsInv'
  BY <1>1, StreamStepStreams DEF StreamsInv
<1>2. ASSUME NodeReturns
      PROVE  StreamsInv'
  BY <1>2, NodeReturnsStreams DEF NodeReturns, StreamsInv
<1>3. ASSUME RShutdown
      PROVE  StreamsInv'
  BY <1>3 DEF RShutdown, StreamsInv
<1>4. ASSUME \/ BackendReads \/ StatReturns \/ UNCHANGED vars
             \/ \E p \in Packages : PackageStep(p)
             \/ \E toggle \in Toggles : PHK_Mgr_setCache(toggle)
             \/ \E size \in MaxSizes : setCacheMaxSize(size)
      PROVE  StreamsInv'
  <2>1. UNCHANGED <<content, streams>>
    BY <1>4 DEF BackendReads, StatReturns, vars, PackageStep, PHK_Mgr_mount,
         PHK_Mgr_umount, PHK_setCache, PHK_Mgr_setCache, setCacheMaxSize
  <2> QED BY <2>1 DEF StreamsInv
<1> QED BY <1>1, <1>2, <1>3, <1>4, URIStepStreams DEF Next

\* What is read from a stream is what the file or the directory holds, wherever its
\* data come from and whatever happens to its package while it is opened.
THEOREM StreamsTrueCorrect == Spec => []StreamsTrue
<1>1. Init => IInv /\ StreamsInv
  BY InitTrue, ConstantsAssumption DEF Init, StreamsInv
<1>2. IInv /\ StreamsInv /\ [Next]_vars => (IInv /\ StreamsInv)'
  <2> SUFFICES ASSUME IInv, StreamsInv, [Next]_vars
               PROVE  IInv' /\ StreamsInv'
    OBVIOUS
  <2>1. IInv' /\ TypeOK'
    BY NextTrue, ConstantsAssumption DEF IInv
  <2> QED BY <2>1, NextStreams, ConstantsAssumption
<1>3. StreamsInv => StreamsTrue
  BY DEF StreamsInv, TrueStreams, StreamTrue, StreamsTrue
<1> QED BY <1>1, <1>2, <1>3, PTL DEF Spec
=============================================================================
