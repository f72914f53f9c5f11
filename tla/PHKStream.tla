------------------------------ MODULE PHKStream ------------------------------
(***************************************************************************)
(* The phk:// stream wrapper and the user cache.  To open a URI, or to     *)
(* stat it, is to look it up in the cache and, if it is not there, to call *)
(* the PHP back-end and to put the result into the cache, when the package *)
(* and the request agree to that.                                          *)
(*                                                                         *)
(* A process runs one request after another; the cache and the maximum     *)
(* size of its items survive.  The back-end is PHP code: packages are      *)
(* mounted and unmounted, options change and other files are opened while  *)
(* a call waits for it.                                                    *)
(***************************************************************************)
EXTENDS Integers, Sequences

CONSTANTS
  URIs,          \* with a '?' they are commands
  Packages,
  Mnt,           \* the package of a URI, or NULL (global commands)
  Commands,      \* the URIs that are commands
  Dirs,          \* the URIs of directories; the others are files
  CanCache,      \* the URIs for which the back-end leaves its argument 'cache' set
  LongURIs,      \* those longer than UT_PATH_MAX
  Creators,      \* packages that are being created, which change
  NoCache,       \* packages with the option no_cache
  NoOpcodeCache, \* packages with the option no_opcode_cache
  Contents,      \* what the packages may hold: URI -> size, or NULL
  StatSize,      \* sizeof(php_stream_statbuf), in the unit of file sizes
  MaxSizes,      \* values for setCacheMaxSize()
  Offsets,       \* arguments of seek()
  MaxInt,        \* INT_MAX
  MaxSize,       \* bound on the size of files and directories
  MaxStreams,    \* bound on open streams
  MaxDepth,      \* bound on calls that wait for the back-end
  NULL

Sizes == 0..MaxSize
Absent == -1     \* the empty string, cached for a file that was not found

ASSUME ConstantsAssumption ==
  /\ Mnt \in [URIs -> Packages \cup {NULL}]
  /\ Commands \subseteq URIs /\ Dirs \subseteq URIs
  /\ CanCache \subseteq URIs /\ LongURIs \subseteq URIs
  /\ Creators \subseteq Packages
  /\ NoCache \subseteq Packages /\ NoOpcodeCache \subseteq Packages
  /\ Contents \subseteq [URIs -> Sizes \cup {NULL}]
  /\ StatSize \in Nat \ {0} /\ MaxSizes \subseteq Int
  /\ Offsets \subseteq Int
  /\ MaxInt \in Nat /\ MaxSize \in Nat /\ MaxSize <= MaxInt
  /\ MaxStreams \in Nat /\ MaxDepth \in Nat
  /\ NULL \notin Packages \cup URIs \cup Int \cup BOOLEAN

VARIABLES
  content,       \* size of what the package holds at a URI, or NULL: no such file
  items,         \* the user cache: prefix -> URI -> item, or NULL
  cache_maxsize,
  mounted,       \* PHK_G(mtab): the packages that are mounted
  pcaching,      \* mp->caching is not false: it is null or true, which are the same
  caching,       \* PHK_G(caching), which overrides it
  last_opcode,   \* last_cached_opcode_string, or NULL
  streams,       \* open streams
  stack          \* calls that wait for the back-end

packages == <<mounted, pcaching, caching>>
vars == <<content, items, cache_maxsize, packages, last_opcode, streams, stack>>

Toggles == {NULL, TRUE, FALSE}

Valid(u) == Mnt[u] = NULL \/ Mnt[u] \in mounted

-----------------------------------------------------------------------------
(***************************************************************************)
(* The back-end, PHK\Stream\Backend: it throws (NULL) when it has not got  *)
(* what it is asked for.                                                   *)
(***************************************************************************)
StatData(u) == IF Valid(u) THEN content[u] ELSE NULL
NodeData(u, dir) == IF (u \in Dirs) = dir THEN StatData(u) ELSE NULL

(***************************************************************************)
(* The user cache.  Items may disappear from it at any time.  An item is   *)
(* "forced" when it is there against the will of its package (history).    *)
(***************************************************************************)
\* Mutant: creators are not excepted.
PHK_cacheEnabled_Creators(p) == p \notin NoCache /\ pcaching[p]

PHK_cacheEnabled(p) ==
  /\ p \notin NoCache /\ p \notin Creators
  /\ pcaching[p]

\* The package of a URI agrees that it is cached.
Willing(u) == Mnt[u] \in mounted /\ PHK_cacheEnabled(Mnt[u])

PHK_Mgr_cacheEnabled(u) == IF caching # NULL THEN caching ELSE Willing(u)

Fits(prefix, u, data) ==
  IF prefix = "node"
  THEN u \in Dirs \/ data <= cache_maxsize
  ELSE (IF data = Absent THEN 0 ELSE StatSize) <= cache_maxsize

PHK_Cache_set(prefix, u, data) ==
  items' = IF Fits(prefix, u, data)
           THEN [items EXCEPT ![prefix][u] = [data |-> data, forced |-> ~Willing(u)]]
           ELSE items

PHK_Cache_get(prefix, u) == items[prefix][u]

\* What the back-end is asked by a call.
BackendData(f) ==
  IF f.fn \in {"open", "getFile"} THEN NodeData(f.uri, f.dir) ELSE StatData(f.uri)

-----------------------------------------------------------------------------
(***************************************************************************)
(* Calls.                                                                  *)
(***************************************************************************)
Frame(fn, u, dir, cache) ==
  [fn |-> fn, uri |-> u, dir |-> dir, cache |-> cache, data |-> NULL]
Stream(u, dir, data) == [uri |-> u, dir |-> dir, data |-> data, offset |-> 0, eof |-> FALSE]

MayCall == Len(stack) < MaxDepth
MayOpen == MayCall /\ Len(streams) + Len(stack) < MaxStreams
Top == stack[Len(stack)]
Popped == SubSeq(stack, 1, Len(stack) - 1)

\* The end of open, with the data or NULL.
Opened(f, data) ==
  streams' = IF f.fn = "open" /\ data # NULL
             THEN Append(streams, Stream(f.uri, f.dir, data)) ELSE streams

\* Mutant: an item of the wrong type is taken.
PHK_Stream_getFile_AnyType(f) ==
  LET item == PHK_Cache_get("node", f.uri) IN
  IF item = NULL
  THEN stack' = Append(stack, f) /\ UNCHANGED streams
  ELSE Opened(f, item.data) /\ UNCHANGED stack

\* PHK_Stream_getFile(), up to the call of the back-end if there is one.  An item
\* of the wrong type is rejected.
PHK_Stream_getFile(f) ==
  LET item == PHK_Cache_get("node", f.uri) IN
  IF item = NULL
  THEN stack' = Append(stack, f) /\ UNCHANGED streams
  ELSE /\ Opened(f, IF (f.uri \in Dirs) = f.dir THEN item.data ELSE NULL)
       /\ UNCHANGED stack

\* openfile and opendir.
generic_open(u, dir) ==
  /\ MayOpen
  /\ IF Valid(u)
     THEN PHK_Stream_getFile(Frame("open", u, dir, NULL))
     ELSE UNCHANGED <<stack, streams>>
  /\ UNCHANGED <<content, items, cache_maxsize, packages, last_opcode>>

\* The PHP function getFile(), which does not use its argument 'dir'.  Without its
\* last argument the pointer to it is not initialised: 'cache' is then anything (or
\* the process crashes, which ends the request as RShutdown does).
getFile(u, cache) ==
  /\ MayCall
  /\ PHK_Stream_getFile(Frame("getFile", u, FALSE, cache))
  /\ UNCHANGED <<content, items, cache_maxsize, packages, last_opcode>>

\* The back-end has its data, and runs on.
BackendReads ==
  /\ stack # <<>> /\ Top.data = NULL
  /\ BackendData(Top) # NULL
  /\ stack' = Append(Popped, [Top EXCEPT !.data = BackendData(Top)])
  /\ UNCHANGED <<content, items, cache_maxsize, packages, last_opcode, streams>>

\* What the back-end returns, or NULL when it throws.
Result == IF Top.data # NULL THEN Top.data ELSE BackendData(Top)

\* The decision on whether to cache throws when the package is gone by now.
NodeReturns ==
  /\ stack # <<>> /\ Top.fn \in {"open", "getFile"}
  /\ LET ask == /\ Result # NULL
                /\ Top.uri \in CanCache
                /\ last_opcode # Top.uri
         do_cache == IF Top.cache # NULL THEN Top.cache ELSE PHK_Mgr_cacheEnabled(Top.uri)
         throws == ask /\ Top.cache = NULL /\ caching = NULL /\ ~Valid(Top.uri)
     IN
     /\ IF ask /\ do_cache THEN PHK_Cache_set("node", Top.uri, Result) ELSE UNCHANGED items
     /\ Opened(Top, IF throws THEN NULL ELSE Result)
  /\ stack' = Popped
  /\ UNCHANGED <<content, cache_maxsize, packages, last_opcode>>

\* do_stat(), up to the call of the back-end if there is one.
do_stat(f) ==
  /\ stack' = IF PHK_Cache_get("stat", f.uri) = NULL THEN Append(stack, f) ELSE stack
  /\ UNCHANGED <<content, items, cache_maxsize, packages, last_opcode, streams>>

url_stat(u) ==
  /\ MayCall
  /\ IF Valid(u) THEN do_stat(Frame("url_stat", u, FALSE, NULL)) ELSE UNCHANGED vars

\* Directories have no fstat.  The mount point of an open stream is not
\* validated again.
fstat(i) ==
  /\ MayCall
  /\ ~streams[i].dir
  /\ do_stat(Frame("fstat", streams[i].uri, FALSE, NULL))

\* The URI is compared with the last one of the opcode cache only if it was
\* parsed by this very call.
StatReturns ==
  /\ stack # <<>> /\ Top.fn \in {"url_stat", "fstat"}
  /\ LET data == IF Result = NULL THEN Absent ELSE Result
         ask == /\ Top.uri \in CanCache
                /\ Top.fn = "url_stat" => last_opcode # Top.uri
     IN
     IF ask /\ PHK_Mgr_cacheEnabled(Top.uri)
     THEN PHK_Cache_set("stat", Top.uri, data) ELSE UNCHANGED items
  /\ stack' = Popped
  /\ UNCHANGED <<content, cache_maxsize, packages, last_opcode, streams>>

-----------------------------------------------------------------------------
(***************************************************************************)
(* An open stream.  PHP's stream layer, which clears eof when a seek has   *)
(* succeeded, is not part of it.                                           *)
(***************************************************************************)
Move(i, offset, eof) ==
  /\ streams' = [streams EXCEPT ![i] = [@ EXCEPT !.offset = offset, !.eof = eof]]
  /\ UNCHANGED <<content, items, cache_maxsize, packages, last_opcode, stack>>

read(i, count) ==
  LET s == streams[i]
      max == IF s.data > s.offset THEN s.data - s.offset ELSE 0
      offset == s.offset + (IF count > max THEN max ELSE count)
  IN
  /\ ~s.dir
  /\ Move(i, offset, s.eof \/ offset = s.data)

\* A value of off_t as an int.
ToInt(n) == ((n + MaxInt + 1) % (2 * (MaxInt + 1))) - (MaxInt + 1)

\* Mutant: a negative position is not caught.
seek_NoFloor(i, offset, whence) ==
  LET s == streams[i]
      n == ToInt(CASE whence = "SEEK_SET" -> offset
                   [] whence = "SEEK_CUR" -> s.offset + offset
                   [] whence = "SEEK_END" -> s.data + offset)
      pos == IF n > s.data THEN s.data ELSE n
  IN
  /\ ~s.dir
  /\ Move(i, pos, s.eof \/ pos = s.data)

seek(i, offset, whence) ==
  LET s == streams[i]
      n == ToInt(CASE whence = "SEEK_SET" -> offset
                   [] whence = "SEEK_CUR" -> s.offset + offset
                   [] whence = "SEEK_END" -> s.data + offset)
      pos == IF n > s.data THEN s.data ELSE IF n < 0 THEN 0 ELSE n
  IN
  /\ ~s.dir
  /\ Move(i, pos, s.eof \/ pos = s.data)

\* In a directory, eof says that there are more entries, until one is asked for
\* that does not exist.
readdir(i) ==
  LET s == streams[i] IN
  /\ s.dir
  /\ IF s.offset = s.data THEN Move(i, s.offset, TRUE)
     ELSE Move(i, s.offset + 1, s.offset + 1 < s.data)

rewinddir(i) ==
  LET s == streams[i] IN
  /\ s.dir
  /\ Move(i, 0, s.data > 0)

close(i) ==
  /\ \A k \in 1..Len(stack) : stack[k].fn # "fstat"
  /\ streams' = SubSeq(streams, 1, i - 1) \o SubSeq(streams, i + 1, Len(streams))
  /\ UNCHANGED <<content, items, cache_maxsize, packages, last_opcode, stack>>

-----------------------------------------------------------------------------
(***************************************************************************)
(* Options, and the packages of the request.                               *)
(***************************************************************************)
PHK_Mgr_mount(p) ==
  /\ p \notin mounted
  /\ mounted' = mounted \cup {p}
  /\ pcaching' = [pcaching EXCEPT ![p] = TRUE]
  /\ UNCHANGED <<content, items, cache_maxsize, caching, last_opcode, streams, stack>>

PHK_Mgr_umount(p) ==
  /\ p \in mounted
  /\ mounted' = mounted \ {p}
  /\ pcaching' = [pcaching EXCEPT ![p] = TRUE]
  /\ UNCHANGED <<content, items, cache_maxsize, caching, last_opcode, streams, stack>>

PHK_Mgr_setCache(toggle) ==
  /\ caching' = toggle
  /\ UNCHANGED <<content, items, cache_maxsize, mounted, pcaching, last_opcode, streams,
                 stack>>

\* Of a package that is not cached anyway, this is never looked at.
PHK_setCache(p, toggle) ==
  /\ p \in mounted \ (NoCache \cup Creators)
  /\ pcaching' = [pcaching EXCEPT ![p] = (toggle # FALSE)]
  /\ UNCHANGED <<content, items, cache_maxsize, mounted, caching, last_opcode, streams,
                 stack>>

setCacheMaxSize(size) ==
  /\ cache_maxsize' = size
  /\ UNCHANGED <<content, items, packages, last_opcode, streams, stack>>

\* The opcode cache asks for a key, then opens the file if it has not got it.
cache_key(u) ==
  /\ u \notin Commands /\ Mnt[u] \in mounted /\ Mnt[u] \notin NoOpcodeCache
  /\ last_opcode' = IF u \in LongURIs THEN NULL ELSE u
  /\ UNCHANGED <<content, items, cache_maxsize, packages, streams, stack>>

\* A creator is written to, or another one has got its name.
Modify(u) ==
  /\ Mnt[u] \in Creators
  /\ \E c \in Contents : content' = [content EXCEPT ![u] = c[u]]
  /\ UNCHANGED <<items, cache_maxsize, packages, last_opcode, streams, stack>>

\* The cache drops an item.
Expire(prefix, u) ==
  /\ items[prefix][u] # NULL
  /\ items' = [items EXCEPT ![prefix][u] = NULL]
  /\ UNCHANGED <<content, cache_maxsize, packages, last_opcode, streams, stack>>

\* The request ends, in whatever PHP code, and the next one begins.
RShutdown ==
  /\ mounted' = {}
  /\ pcaching' = [p \in Packages |-> TRUE]
  /\ caching' = NULL
  /\ last_opcode' = NULL
  /\ streams' = <<>>
  /\ stack' = <<>>
  /\ UNCHANGED <<content, items, cache_maxsize>>

-----------------------------------------------------------------------------
\* What is in a package that is not being created does not change.
Init ==
  /\ content \in Contents
  /\ items = [prefix \in {"node", "stat"} |-> [u \in URIs |-> NULL]]
  /\ cache_maxsize \in MaxSizes
  /\ mounted = {}
  /\ pcaching = [p \in Packages |-> TRUE]
  /\ caching = NULL
  /\ last_opcode = NULL
  /\ streams = <<>>
  /\ stack = <<>>

StreamStep(i) ==
  \/ fstat(i) \/ close(i) \/ readdir(i) \/ rewinddir(i)
  \/ \E count \in 1..(MaxSize + 1) : read(i, count)
  \/ \E offset \in Offsets, whence \in {"SEEK_SET", "SEEK_CUR", "SEEK_END"} :
       seek(i, offset, whence)

PackageStep(p) ==
  \/ PHK_Mgr_mount(p) \/ PHK_Mgr_umount(p)
  \/ \E toggle \in Toggles : PHK_setCache(p, toggle)

URIStep(u) ==
  \/ \E dir \in BOOLEAN : generic_open(u, dir)
  \/ \E cache \in Toggles : getFile(u, cache)
  \/ url_stat(u) \/ cache_key(u) \/ Modify(u)
  \/ \E prefix \in {"node", "stat"} : Expire(prefix, u)

Next ==
  \/ \E u \in URIs : URIStep(u)
  \/ \E i \in 1..Len(streams) : StreamStep(i)
  \/ \E p \in Packages : PackageStep(p)
  \/ BackendReads \/ NodeReturns \/ StatReturns
  \/ \E toggle \in Toggles : PHK_Mgr_setCache(toggle)
  \/ \E size \in MaxSizes : setCacheMaxSize(size)
  \/ RShutdown

Spec == Init /\ [][Next]_vars

-----------------------------------------------------------------------------
(***************************************************************************)
(* Properties.                                                             *)
(***************************************************************************)
ItemType == [data : Sizes \cup {Absent}, forced : BOOLEAN]
FrameType ==
  [fn : {"open", "getFile", "url_stat", "fstat"}, uri : URIs, dir : BOOLEAN,
   cache : Toggles, data : Sizes \cup {NULL}]
StreamType ==
  {s \in [uri : URIs, dir : BOOLEAN, data : Sizes, offset : Sizes, eof : BOOLEAN] :
     s.offset <= s.data}

\* The variables have their types, and the position of a stream is in its data:
\* "Should not happen", PHK_Stream_read() says of the opposite.
TypeOK ==
  /\ content \in [URIs -> Sizes \cup {NULL}]
  /\ items \in [{"node", "stat"} -> [URIs -> ItemType \cup {NULL}]]
  /\ \A u \in URIs : items["node"][u] # NULL => items["node"][u].data # Absent
  /\ cache_maxsize \in Int
  /\ mounted \in SUBSET Packages
  /\ pcaching \in [Packages -> BOOLEAN]
  /\ caching \in Toggles
  /\ last_opcode \in URIs \cup {NULL}
  /\ streams \in Seq(StreamType)
  /\ stack \in Seq(FrameType)

Ordinary(u) == Mnt[u] \notin Creators
Trusted(prefix, u, item) == item.forced => prefix = "node" /\ Ordinary(u)

\* What the cache has of a file is so: its data, its size or its absence.  The
\* exceptions are items that were cached on order: data of a creator, and what
\* stat() has found.
CacheTrue ==
  \A prefix \in {"node", "stat"}, u \in URIs :
    LET item == items[prefix][u] IN
    item # NULL /\ Trusted(prefix, u, item) =>
      item.data = (IF prefix = "stat" /\ content[u] = NULL THEN Absent ELSE content[u])

\* What is read from an open stream is what the file holds, and a directory is
\* never read as a file or a file as a directory: also when its data come from the
\* cache, where another request has put them for either, and when the package was
\* unmounted, or its options changed, while the back-end was asked.
StreamsTrue ==
  \A i \in 1..Len(streams) :
    LET s == streams[i] IN
    /\ s.dir = (s.uri \in Dirs)
    /\ Ordinary(s.uri) => s.data = content[s.uri]

-----------------------------------------------------------------------------
(***************************************************************************)
(* What comments of the source say and the code does not do.               *)
(***************************************************************************)
\* PHK_Stream.c:342, "Validate the mount point (because data can be cached)": what
\* do_stat() asks the back-end for in order to cache it, is in a package that is
\* mounted.
ValidatedForCache ==
  [][LET f == stack'[Len(stack')] IN
     Len(stack') > Len(stack) /\ f.fn \in {"url_stat", "fstat"}
       /\ PHK_Mgr_cacheEnabled(f.uri) => Valid(f.uri)]_vars
=============================================================================
