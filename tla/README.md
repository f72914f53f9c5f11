# PHK / Automap accelerator: a TLA+ model

PHK is a package format for PHP (a *jar* for PHP): a package is one file, mounted in the
middle of a request, whose contents are then read through the `phk://` stream wrapper.
Automap is the map-based autoloader it is built on: a *map* says which script of a package
defines a class, function, constant or extension.  The repository is the C extension that
accelerates both.  It keeps part of its state in the process, for the requests that follow
and, in a ZTS build, for the other threads; the rest lives as long as the request.

The project keeps, beside the code, a model of its stateful parts, the runs of TLC that
check the model on small instances and the theorems that TLAPS proves for every instance.
All paths below are relative to the repository.  `src/PHP_5` is shortened to nothing:
`PHK_Mgr.c:217` is `PHP_5/PHK_Mgr.c`, line 217.

## 1. The system

| Component | State | Operations | Interacts with |
|---|---|---|---|
| **Mount table** (`PHK_Mgr.c`, `PHK_Mgr.h`) | per request: `mtab` (mount point -> `PHK_Mnt`), `mount_order` (order -> `PHK_Mnt`), `mcount`; process: `tmp_mnt_num` | `mount`, `umount`, `isMounted`, `mntList`, `instance`, URIs | calls `PHK_init`, `PHK_umount`, `Automap_Mnt`, the shared data; called by scripts, by the autoloader (`mount_from_Automap`) and by `prolog` |
| **Package life cycle** (`PHK.c`) | fields of `PHK_Mnt`: parent, children, map ID, plugin, PHP object; `init_done`, `pmap` in the shared data | `PHK_init`, `PHK_umount`, `prolog`, getters, `crcCheck`, `setCache` | runs mount scripts, plugin constructors and destructors, umount and library scripts |
| **Shared package data** (`PHK_Mgr.c:1052-1375`) | process: `persistent_mtab`, one `PHK_Pdata` per mount point, a mutex | `get_pdata`, `get_or_create_pdata`, `populate_pdata` | runs PHP code under the mutex |
| **Shared maps** (`Automap_Pmap.c`) | process: `pmap_array`, one `Automap_Pmap` per UFID, a mutex | `get_or_create_extended`, `find_key`, `exportEntry` | runs PHP code (`new Automap\Map`) under the mutex |
| **Loaded maps** (`Automap_Mnt.c`) | per request: `map_array`, `map_count` | `load`, `unload`, `activeIDs`, `resolve_key` | called by `PHK_init`, `PHK_umount` and user code |
| **Autoloader** (`Automap_Loader.c`) | none of its own | autoload hook, `resolve_symbol`, `get...`/`require...` | walks `map_array`, mounts packages, runs scripts and handlers |
| **Handlers** (`Automap_Handlers.c`) | per request: success and failure handler arrays | register, call | run user code in the middle of a resolution |
| **Classes and keys** (`Automap_Class.c`, `_Key.c`, `_Type.c`, `_Util.c`) | the `Automap\Map` object of a mounted map, created on demand | `map`, `need_Map_Class`, key and type conversions | |
| **Symbol parser** (`Automap_Parser.c`) | local to a call | `parseTokens` | PHP's `token_get_all` |
| **Stream wrapper** (`PHK_Stream.c`) | per stream: data, position; process: the last opcode-cache key | `open`, `read`, `seek`, `stat`, `opendir`, `readdir`, `url_stat` | reads the cache, calls the PHP runtime |
| **User cache** (`PHK_Cache.c`) | process: back-end, maximum size | `get`, `set`, `cacheID` | APC, XCache or eAccelerator |
| **URIs and paths** (`PHK_Mgr.c:383-691`, `utils.c:1003-1148`) | process: table of simulated inodes, a mutex | `uri`, `normalizeURI`, `mkAbsolutePath`, `pathUniqueID` | |
| **Web and CLI front end** (`PHK.c:368-640, 802-1008`) | per request: MIME table | `webTunnel`, `webAccessAllowed`, `mimeType`, `setSubpath` | HTTP |
| **Utilities** (`utils.c`) | zvals, persistent copies, reference counts | | |
| **Extension life cycle** (`php_phk.c`) | request and module globals | `MINIT`, `RINIT`, `RSHUTDOWN`, `MSHUTDOWN` | |

The PHP runtime (`PHK\Tools\Util`, `PHK\PkgFile`, `Automap\Map`, the code of packages and of
the application) is outside the repository.  It is modelled from how the C code calls it: it
may return, throw, end the request, and call back whatever the extension exports.

**What is hard here.**  A request has one thread, yet it is not sequential: `mount` and
`umount` run scripts in the middle of their work, and any of these may mount, unmount,
unload, throw or exit.  When the C function resumes, the structures it holds pointers to may
be gone.  Between the threads of a ZTS process there are two mutexes, PHP code that runs under
them and may end the request without releasing them, and fields that are read and written
outside of them (`init_done`, `pmap`, reference counts); a third mutex, under which no PHP code
runs, guards the numbers of files that have no inodes.  And where nothing is interleaved, the
hard part is text: paths that come from a browser and go through four functions before they
name a file, and an automaton that finds the declarations of a PHP file without parsing it.  `PROJECT.json` lists these hazards
one by one, at their lines, with the property that covers each or the reason why none does.

**What makes it correct.**  The two ways to find a package agree; an object that outlives its
package leads to no other; parents and children point to each other; no call resumes on a
freed structure; a mount is all or nothing and takes its map away with it; threads that ask
for one entry get one entry, complete, and it does not change under them; no package is used
before its CRC was checked; a mutex is released on every way out; a file has one name, and
data of an old version are not found under it; a URI means what it was made of; a browser gets
the open file it asked for or the main script, and nothing else; the parser finds the symbols
that PHP would declare, no more and no fewer.  Most of this the code keeps; section 4 says where
it does not.

## 2. Modules

| Module | Contents |
|---|---|
| `PHKMounts` | the mount table, the maps of a request, and the scripts in between |
| `MCPHKMounts` | three packages to check it with |
| `PHKMounts_proofs` | its inductive invariants and theorems, whatever scripts do, and then for scripts that take no liberties |
| `SharedTables` | the shared package data and maps, threads and mutexes |
| `Registry` | what such a table promises: get-or-create in one step |
| `SharedTables_proofs` | the inductive invariant and theorems of `SharedTables`; both tables implement `Registry` |
| `AutomapResolve` | the resolution of a symbol through the loaded maps |
| `MCAutomapResolve` | three maps and a package to check it with |
| `AutomapResolve_proofs` | its inductive invariant and theorems |
| `PHKStream` | the stream wrapper, the user cache and the options that say what is cached |
| `MCPHKStream` | a file and a directory to check it with |
| `PHKStream_proofs` | its inductive invariant and theorems |
| `PHKUri` | URIs, mount points and paths: the functions that build them and take them apart |
| `WebTunnel` | a browser and a package that a web server runs (extends `PHKUri`) |
| `MCWebTunnel` | seven packages, and all short paths over the characters that matter |
| `PHKUri_proofs` | lemmas on what `PHKUri` computes |
| `WebTunnel_proofs` | the inductive invariants and theorems of `WebTunnel` (extends `PHKUri_proofs`) |
| `PackageNames` | the names of package and map files, and the table of simulated inodes |
| `MCPackageNames` | three files to check it with |
| `PackageNames_proofs` | its inductive invariant and theorems |
| `AutomapParser` | the token automaton, and a grammar of what it reads (extends `PHKUri`) |
| `MCAutomapParser` | two names to check it with |
| `AutomapParser_proofs` | its inductive invariant and theorems (extends `PHKUri_proofs`) |

How they fit together: `PackageNames` says which name a file has; `SharedTables` what the
threads share under a name; `PHKMounts` what a request does with mounted packages and their
maps; `AutomapResolve` what it does with the maps; `PHKStream` how the files of a mounted
package are read; `PHKUri` what the strings between all of these mean; `WebTunnel` which file is
read for a browser; `AutomapParser` where the contents of a map come from.

### 2.1 PHKMounts

One request at a time.  `stack` is the call stack: a *script* frame is PHP code, called back
for the package `mp` (`pc` says which script it is); *mount*, *umount* and *prolog* are the C
functions, and their `pc` is the point where they resume.  The code between two callbacks is
one action, so a script may do anything at exactly the points where the C code calls a script
or a plugin of a package.  The calls by which the C code asks the PHP runtime for data while it
looks a package up and checks it (`getMinVersion`, `getOptions`, `getBuildInfo`, `crcCheck`, the
constructors of `Automap\Map` and of a creator; `PHK_Mgr.c:984, 1015-1018`, `PHK.c:110, 118`) are
not such points: they return or throw inside `MountNew`, `MountNewFails` and `MountCreator`.
Threads that go on while these calls run are in `SharedTables`.

| State | Code |
|---|---|
| `mtab`, `mcount`, `mount_order` | `PHK_G(mtab)`, `PHK_G(mcount)`, `PHK_G(mount_order)` |
| `phk[o]` | the `PHK_Mnt` of order `o`: `mnt`, `parent`, `children`, `automapID`, `plugin`, and `noScript`, the flag `PHK_FLAG_IS_NO_MOUNT_SCRIPT` |
| `map_count`, `map_array` | the same names; an element is the package whose mount loaded the map, or `Direct` |
| `tmp_mnt_num` | the static counter that names packages that are being created |
| `exc` | `EG(exception)` |
| `fault` | a freed structure was read: undefined behaviour, at which the model stops |

| Action | Code |
|---|---|
| `MountUnknown`, `MountExisting`, `MountNew`, `MountNewFails`, `MountCreator` | `PHK_Mgr_mount` up to the first script, by outcome (`PHK_Mgr.c:900-1027`, `computeMnt` 830-883, `new_mnt` 101-129) |
| `MountScript`, `MountPlugin`, `MountDone` | `PHK_init` (`PHK.c:104-138`) and the end of `PHK_Mgr_mount`, each up to the next callback |
| `MountAbort` | `ABORT_PHK_MGR_MOUNT` (`PHK_Mgr.c:919-934`) |
| `Umount`, `UmountChild`, `UmountUnregister`, `UmountScript`, `UmountFinish` | `PHK_Mgr_umount`, `PHK_Mgr_umount_mnt` and `PHK_umount` |
| `PrologLib`, `PrologEnd` | `prolog` of a package that is not the main script (`PHK.c:905-1008`) |
| `LoadMap`, `UnloadMap` | `Automap\Mgr::load()`, `unload()` from user code |
| `Throw`, `Catch`, `ScriptReturn` | user code |
| `ParentMnt` | `parentMnt()` on an object whose parent is gone |
| `UseAfterFree` | any C function that resumes on a freed structure |
| `RShutdown` | `RSHUTDOWN` and the `RINIT` of the next request |

Choices worth knowing:

* A structure is named by its order, which is given once in a request (that this is so is
  `StaleObjects`, proved).  A pointer to it is that order; `Live(o)` says it has not been freed.
* The C code does not defend itself against some things a script can do: unmounting a package
  for which a call is running, throwing from a mount script after having mounted sub-packages,
  mounting a sub-package into a package that is past unmounting its children.  The constant
  `Misuse` says which of these the scripts take the liberty of.  With `Misuse = {}` no freed
  structure is ever read; with all of them the table itself still stays consistent, and a mount
  is still all or nothing (all proved).
* A mount that fails spends its order and leaves a `NULL` in the children of its parent, as the
  code does.
* When the destructor of a plugin throws, or the umount script is entered with an exception
  already set, whether the script runs is the engine's business.  The model enters its frame
  with `exc` set, from which it may be caught, returned or end the request.
* Destructors that the roll-back of a mount may run are not separate steps.
* A package's constructor (a *creator*) is one step, and it has no scripts.

### 2.2 SharedTables and Registry

Any number of threads, each of which mounts a package (`Mount`) or loads a map file
(`LoadFile`) and then goes on by itself: it takes the mutex, looks the entry up, makes it if
it is missing, and releases the mutex; then `PHK_init` checks the CRC unless `init_done`, and
takes the map from the package's entry or gets it in the same way from `pmap_array`.

| State | Code |
|---|---|
| `persistent_mtab` | the static table; an entry has `by` (the thread that made it), `complete` (its fields are set), `init_done`, `pmap` |
| `pmap_array` | the static table; an entry is the thread that made it |
| `mtab_lock`, `pmap_lock` | the owners of the two mutexes |
| `pc`, `mnt`, `pdata`, `map` | where a thread is, what it works on, the pointers it has got |
| `checked` | that the package of an entry has passed a CRC check (history) |
| `lost` | mutexes whose owner ended its request in PHP code |
| `cut` | packages whose entry was being filled when that happened (history) |
| `fault` | the result of `getBuildInfo()` was used as an array, which it was not |

| Action | Code |
|---|---|
| `Mount`, `LockPdata`, `FindPdata`, `CreatePdata`, `CreatePdataFails`, `FillPdata`, `FillPdataFails` | `PHK_Mgr_get_or_create_pdata` (1073-1281) |
| `Populate` | `PHK_Mgr_populate_pdata` (1285-1329) and the test of `init_done` |
| `CrcCheck`, `CrcCheckFails`, `NeedMap`, `StoreMap` | `PHK_init` (`PHK.c:104-138`) |
| `LoadFile`, `LockPmap`, `FindPmap`, `CreatePmap`, `CreatePmapFails` | `Automap_Pmap_get_or_create_extended` (`Automap_Pmap.c:127-238`) |
| `EndRequest`, `BailOut` | the request ends, normally or in the middle of PHP code |
| `Restart` | a process that has crashed or is stuck is replaced |

What a mutex is depends on the build (`utils.h:371-387`), and the constant `Locking` says which
one it is.  `"fast"`: ZTS with the default mutex of pthreads, for which a thread waits even if it
has the mutex itself.  `"recursive"`: ZTS with a Windows `CRITICAL_SECTION`, which its owner may
take again.  `"none"`: without ZTS the macros are empty, and there is one thread.  `MayLock`,
`Locked` and `Unlocked` are the macros.  The difference shows when PHP code ends a request under
a mutex (`BailOut`): the mutex is lost, which stops all threads in the first case and all others
in the second, while in the third, and for its owner in the second, the next request goes on with
what the first has left.

A write of a field that another thread may read at the same time (`pmap`) has the
outcomes a word-sized store can have: `StoreMap` allows the test to be older than the write.

`Registry` is the abstract specification: a client asks for a key and, in one step, makes the
entry or gets the one that is there; the entry of a key is the same for all until the process
ends.  `persistent_mtab` with the pointers `pdata`, and `pmap_array` with the pointers `map`,
both implement it.  For the second, a thread may also get an entry without asking: it is the
copy that the package's entry keeps, and the refinement says that this copy is never stale.

### 2.3 AutomapResolve

One request.  `stack` is the call stack, as in `PHKMounts`: a *script* frame is PHP code (the
main script, a required script, a mount script, a handler), a *resolve* frame is a call of
`Automap_resolve_symbol` with the place `i` that its walk over `map_array` has come to and the
entry that it is working on.

| State | Code |
|---|---|
| `map_count`, `map_array` | `PHK_G(map_count)`, `PHK_G(map_array)` |
| `mounted` | per package of a map: not mounted (`NULL`), or its `automapID` |
| `defined` | the symbols PHP knows |
| `fh_count`, `sh_count` | the numbers of handlers |
| `exc`, `fault` | as in `PHKMounts` |
| `rude` | PHP code has unloaded a map that a call or a mounted package relies on (history) |

| Action | Code |
|---|---|
| `Resolve`, `Lookup`, `Fail`, `Return` | `Automap_resolve_symbol` (`Automap_Loader.c:57-99`) |
| `FailureHandler`, `SuccessHandler`, `Succeed` | the handlers (`Automap_Handlers.c`) |
| `RequireScript`, `LoadExtension`, `MountedPackage`, `MountPackage`, `MountPackageFails`, `MountReturns` | `Automap_Mnt_resolve_key` (`Automap_Mnt.c:223-307`) and the mount it asks for |
| `Load`, `Unload`, `RegisterFailureHandler`, `RegisterSuccessHandler`, `Umount` | the PHP functions |
| `Define`, `Throw`, `Catch`, `ScriptReturn` | PHP code |
| `RShutdown` | `RSHUTDOWN`, and the next request |

Choices worth knowing:

* A map tells the truth about scripts and extensions: what it says they define, they define
  (`ConstantsAssumption`).  It may be wrong about packages.
* With an exception pending, the engine compiles a required script but does not run it, and no
  handler is called.
* The mount of a package is reduced to what a resolution sees of it: its map, its mount script
  and its failure.  The script always runs; one that does nothing returns at once.  What happens
  to a package that is unmounted while it is being mounted is the subject of `PHKMounts`.
* What a script defines, it defines in one step, before or after whatever else it does.

### 2.4 PHKStream

One process that runs one request after another; the user cache and its maximum size survive.
A call that finds nothing in the cache waits for the PHP back-end on `stack`, and while it
waits PHP code does what it likes: it mounts, unmounts, sets options, opens other files.

| State | Code |
|---|---|
| `items` | the user cache: prefix (`node` or `stat`) and URI to data; `forced` (history) says that it was cached without the consent of its package |
| `cache_maxsize` | the static variable of `PHK_Cache` |
| `mounted`, `pcaching` | `PHK_G(mtab)`, and `mp->caching` of the packages in it |
| `caching` | `PHK_G(caching)`, which overrides every package |
| `last_opcode` | `last_cached_opcode_string` |
| `streams` | `PHK_STREAM_DATA` of the open streams, with PHP's `eof` |
| `stack` | calls of `PHK_Stream_getFile` and `do_stat`; `data` is what the back-end has read for them |
| `content` | what the packages hold |

| Action | Code |
|---|---|
| `generic_open`, `getFile`, `NodeReturns` | `PHK_Stream_generic_open` and the PHP function `getFile`, up to the back-end and after it (`PHK_Stream.c:92-190, 553-645`) |
| `url_stat`, `fstat`, `StatReturns` | `do_stat` and its callers, likewise (310-453, 649-660) |
| `read`, `seek`, `readdir`, `rewinddir`, `close` | the operations of an open stream (204-271, 457-498) |
| `cache_key` | `PHK_Stream_cache_key` (808-840) |
| `PHK_Mgr_setCache`, `PHK_setCache`, `setCacheMaxSize` | the PHP functions of these names |
| `PHK_Mgr_mount`, `PHK_Mgr_umount` | what the wrapper sees of them; the rest is in `PHKMounts` |
| `BackendReads`, `Modify`, `Expire` | the back-end, a package that is being created, the cache |
| `RShutdown` | the request ends, and the next one begins |

Choices worth knowing:

* The back-end throws exactly when it has not got what it is asked for, or its package is not
  mounted.  It may go on running PHP code between reading and returning.
* A mount point is made of the package's device, inode and modification time, so what an
  ordinary package holds is taken not to change (that a replaced file has another time is an
  assumption, see 2.7); a creator may change at any time.
* A cache is present.  A process without one is a process whose cache drops each item at once
  (`Expire`).
* URIs are atoms: how a URI is taken apart (`parseURI`) is in `PHKUri`.
* An item that was cached on order (`setCache(true)`, or `getFile` with `cache` true) while its
  package would not have it cached is *forced*.  `CacheTrue` makes no promise of forced data of a
  creator, nor of forced results of `stat`; `stream_negative` shows why of the latter.
* `PHK::setCache()` on a package that is never cached changes a field that is never looked at;
  it is left out.  So is the key buffer shared by the threads of a ZTS process.
* A stream is not closed while an `fstat` of it waits.  PHP's own stream layer, which resets
  `eof` after a seek and buffers what it has read, is not modelled.

### 2.5 PHKUri

Functions only.  A string is a sequence of atoms: the characters that the code looks at
(`/`, `\`, `?`, `&`, `.`, the space), other characters, and words that it handles as a whole
(`phk://`, `name=`).  `Components`, the sequence of the non-empty parts of a path, is the
reference that the properties of `WebTunnel` compare them with; it is a recursive function (of
the length of what has been read), so that it can be proved about.

| Definition | Code |
|---|---|
| `uri`, `commandURI`, `sectionURI`, `automapURI`, `baseURI`, `normalizeURI`, `uriToMnt`, `isPhkUri` | the functions of these names (`PHK_Mgr.c`) |
| `subMnt` | the mount point of a sub-package (`computeMnt`) |
| `parseURI` with `Unreadable`, `cmd_len`, `Name`, `Cut`, `Parsed` | `PHK_Stream_parseURI` |
| `cache_key_mnt` | the mount point that `PHK_Stream_cache_key` looks for |
| `ut_mkAbsolutePath`, `ut_trim_char`, `ut_fileSuffix` | `utils.c` |

`parseURI` is one pass over the characters in the code and is stated by its result here: where
the pass stops for the mount point, and which `?` and which `&` it remembers.  A later `?` does
not set `cmd_len` back, so that a command may end after the string; `overrun` says so.

### 2.6 WebTunnel

A browser asks, `prolog` finds out for which path, `webTunnel` answers, and the browser follows
redirects until it gets something else.  One request at a time: nothing survives it but the
package.

| State | Code |
|---|---|
| `phk` | the fields of `PHK_Mnt` that the options set, and the files and directories of the package |
| `request` | what the browser asks for, and where PHP finds it (`PATH_INFO`, ...) |
| `tpath`, `last_slash`, `webinfo` | the variables of `webTunnel` |
| `pc`, `answer`, `redirects` | where the request is, what is sent, how many redirects the browser has followed |

| Action | Code |
|---|---|
| `Prolog`, `RunWebInfo` | the last part of `prolog` in HTTP mode, with `PHK_setSubpath` (`PHK.c`, `ut_http...` of `utils.c`) |
| `NoPath`, `Refuse`, `Tunnel`, `Autoindex` | `webTunnel`, by its tests in their order |
| `Browse`, `Follow`, `EndRequest` | the browser |
| `TimeLimit` | PHP's `max_execution_time` |

Choices worth knowing:

* An array in the option `web_access` is dropped by `PHK_Mgr` (`PHK_Mgr.c:1231`), so that nothing
  is open then; `web_access(p)` is what is left of the option.  The loop over an array in
  `webAccessAllowed` (`PHK.c:394-404`) is never reached.
* `ut_strings_are_equal` compares lengths only, as the code does.  A path as long as that of the
  main script is therefore let through: `OnlyOpen` is false, and `web_open` shows it.
  `AnswersPath` says what is left: `OnlyOpen` holds of the requests for which the function does
  what its name says.
* The URI of a script is put into PHP code between quotes (`require('%s');`).  A quote in a path is
  not modelled.
* `mimeType` reads through a null pointer if the package has a MIME type of its own for the
  suffix; the answer is a fault.
* The autoindex loop advances the wrong pointer.  It finds `index.htm`, or goes on until the
  time limit: `Autoindex` is the first, `TimeLimit` the second.
* A command URI that a browser smuggles in with a `?` has a result or has not; `AnswersPath`
  makes no promise of such requests (`Plain`).

### 2.7 PackageNames

The threads of a process name files while someone else replaces them.

| State | Code |
|---|---|
| `version` | the version that each file is in; the constant `Time` says which modification time each version has |
| `_ut_simul_inodes`, `_ut_simul_inode_index`, `simul_lock` | the static table, counter and mutex of `utils.c` |
| `entries` | the shared data of each name (`persistent_mtab`, `pmap_array`): the version that was read |
| `call`, `st`, `inode`, `pc` | the arguments and variables of `ut_pathUniqueID` |

| Action | Code |
|---|---|
| `Stat`, `Fail`, `Lock`, `Find`, `Number`, `Count`, `Add`, `Unlock` | `ut_pathUniqueID` (`utils.c:1105-1148`) and `MINIT` of the table |
| `Call`, `Mount`, `EndRequest` | who wants a name, reads the data and ends |
| `Replace`, `Restart` | a file gets a new version; the process is replaced |

`Registry` is what `Mount` relies on: the first reads the data, the others get them.  Versions
may have any times: a file may be replaced by one that is older, or that was written within the
same second.  In the second case nothing in the code tells the two apart, and the data of the
first are found again for the second; `Fresh` says that this is the only such case.

### 2.8 AutomapParser

A program is generated and read at the same time: `todo` starts as the part *Program*, `Choose`
replaces a part at its head by one of the forms it may have, and `Read` gives a token at its head
to `Automap_parseTokens` and to `Note`, which follows PHP's own rules (what is nested in what,
which namespace it is, whether a name is declared here).  The parser does not see the grammar.

| State | Code |
|---|---|
| `state`, `block_level`, `ns`, `skip_blocks` | the variables of `parseTokens` |
| `symbol` | the key that the last token has made it add |
| `todo`, `budget`, `nesting`, `namespace`, `declared` | the program, and what PHP makes of it |

The actions `Out`, `OutOther`, `NamespaceFound`, ..., `SkippingToEol` are the cases of its
`switch`, one for each state (`Automap_Parser.c:163-299`).  `Named` is both *FUNCTION_FOUND* and
*CLASS_FOUND*, which differ in the type of the symbol.

What the grammar leaves out are programs on which the parser does not do what PHP does, so that
`Declared` would only repeat what reading the code shows:

* `${` in a heredoc inside a body (its brace is not counted), and a binary string `b"..."` with
  variables in a body (its first quote is not seen, its last one is);
* `X::class`, anonymous classes and `define($n, ...)` (an exception);
* `use function`, `->define(` and `::define(` (taken for declarations);
* a second name in one `const` statement, `DEFINE(` in any but lower case (missed), and
  `define(b"...")` (the key is wrong);
* `namespace\f()` and a comment right after `namespace` (the namespace is lost);
* a `define()` that ends with a closing tag (the rest, up to a `;`, is skipped);
* files that PHP does not accept.

## 3. Runs

| Run | Question | Answer |
|---|---|---|
| `mounts_polite` | with scripts that keep to the rules, are the links between packages, the maps and the plugins right, and is nothing used after it was freed? | yes |
| `mounts_any` | whatever scripts do, does the table stay consistent, and does no old object come to life again? | yes |
| `mounts_abort` | "unregister from parent (whose nb_children cannot be null)" (`PHK_Mgr.c:229`)? | no |
| `tables` | whatever the mutexes are: do the threads share checked entries, unfinished only where their own last request has left them so, do both tables keep the promise of `Registry`, are the mutexes released? | yes |
| `tables_fill` | "Now, we can create the entry (it cannot fail any more)" (`PHK_Mgr.c:1179`), in a build without threads? | no |
| `resolve` | whatever scripts and handlers do in between: is a symbol that a map provides found, is it there when the call succeeds, does a failure throw, and is no freed map read? | yes |
| `stream` | with packages, options and creators changing while the back-end runs: does the cache tell the truth, is what is read what the file holds, do positions stay in the data? | yes |
| `stream_negative` | "Validate the mount point (because data can be cached)" (`PHK_Stream.c:342`)? | no |
| `web` | for every short path: is what is open answered, with the right file, and nothing closed but to a path that is taken for the main script's, do the redirects end, do URIs and mount points mean what they were made of? | yes |
| `web_open` | is nothing closed sent, whatever `ut_strings_are_equal` (`utils.c:620`) says? | no |
| `names` | with threads that race for numbers and files that are replaced, by newer or older ones: does one time of a file have one name, of its own, with data that are not older than that time? | yes |
| `parser` | for every program of the grammar, up to nine choices: does the parser add what PHP declares, under its key, and end where it began? | yes |

The properties of each are stated, with a comment, at the end of the module.  Every property of
a passing run is also violated by a mutant of the model, defined just before the definition it
changes (an order that is given again, a mutex taken twice instead of once, an early return
that forgets to unlock, ...): `PROJECT.json` pairs them.

**Bounds.**  `MCPHKMounts` has a package `P` with a map, a mount and an umount script; `C`, a
sub-package of `P`; and `Q`, a plugin with a library script that unmounts itself.  These are
all the combinations that the code treats differently.  `MaxMounts` bounds `mcount`: with 4
orders (3 when all misuse is allowed) a package is mounted, unmounted and mounted again while
another stays.  `MaxMaps = 2`: both maps of a family, or one that takes the place of another.
`MaxTmp = 1`: one creator, which is enough as creators do not meet.  `MaxDepth` bounds the
nesting of calls from scripts: 4 frames let a script of `C` be called from `umount(P)` called
from a script, and call PHK again.  In `SharedTables` two threads are what a race needs; a
package with a map, one without, and a map file cover the branches.  `tables` has recursive
mutexes, as these allow the most: a thread that may take a `"fast"` mutex may take a
`"recursive"` one, so that what `"fast"` does is among what the run has seen, and
without ZTS there is one thread, which never waits, as one thread alone with recursive mutexes.
The part of `EntriesComplete` that only holds with `"fast"` is left to the theorem.
Nothing is bounded there but the instance.  `MCAutomapResolve` has two
symbols, and two map files and a package's map with an entry of each type between them;
`MaxMaps = 3` lets a map be loaded and unloaded while a walk is under way on another, and the
package add its own; `MaxHandlers = 1` of each kind; `MaxDepth = 3` frames let the script of a
resolution resolve the other symbol.  `MCPHKStream` has a file of an ordinary package, which may
be missing, and a directory of a creator, which has no opcode cache.  Of the branches of
`PHKStream` it leaves out commands, URIs that are too long and packages with `no_cache`; the
theorems cover them.  `MaxStreams = 1` and `MaxDepth = 1`: streams do not share anything but the
cache; what calls that are nested in another do to it, the theorems cover for any depth.  Sizes up to 2 with
`MaxSizes = {0, 2}` let an item fit or not.  `Offsets = {-1, 1, 7}` and `MaxInt = 3`: 7 is an
`off_t` that becomes -1 as an `int`.
`MCWebTunnel` has packages in which everything is open, a part is, a list is, and nothing is, one
of them with a closed file whose path is as long as the main script's;
with a main script (by redirection and without) and without one; with a `.webinfo` and without.
Its paths are all those of up to four characters from `/`, `a`, `b`, `d`, which tell a prefix
from a component (`/a` and `/ab`), all those of up to two from the characters that some function
treats specially, and those of the files with what may follow them.  `MaxRedirects = 4` is when
the browser gives up; `RedirectsSettle` says it never comes to
more than one (if the main script has a path that `prolog` gets back unchanged).
`MCPackageNames` has two files without inodes, one of them with two paths, and one whose real
inode is also the first number that the table gives, on another device; two threads, two
versions of each file, the second older, of the same time or newer, and a counter up to 3, which is more than the files need.
`MCAutomapParser` has two names, in a buffer of six characters: three short components with
their separators fit, four do not.  With `Budget = 9` choices a class may have a method with a
heredoc with an interpolation in it and still be followed by a function; the parser's state is
small, and what is deeper repeats it.

**Deadlock.**  Checked wherever the system may not stop.  `mounts_any` and `resolve` switch it
off: reading a freed structure is undefined behaviour and nothing follows it.

**Fairness.**  Only `tables` needs any: weak fairness of each thread's own steps.  The operating
system schedules every thread, and the PHP code under a mutex returns, throws, or is ended by
PHP's time limit.  Nothing is assumed about requests that come or end, nor about `Restart`.
No fairness of the mutex is assumed beyond that: `LocksReleased` says that an owner gives it
back, not that a particular thread ever gets it.

## 4. What the checks have shown of the code

Four statements of the source are not true of it, and a run refutes each (`PROJECT.json`, `findings`):

* **`PHK_Mgr.c:229`** The roll-back of a mount that failed frees the package without looking at
  the children that its mount script has mounted; they keep a pointer to the freed parent.
* **`PHK_Stream.c:342`** `fstat()` on a stream whose package was unmounted in the meantime skips
  the validation.  The back-end throws, and with `PHK_Mgr::setCache(true)` the failure is
  cached: a later `stat()`, of the package mounted again, says "File not found".
* **`PHK_Mgr.c:1179`** `getBuildInfo()` is called after the entry was inserted.  It may throw, and
  its result is then used as an array all the same.  Or it ends the request, and the entry stays
  without its `buildInfo`, a field that `PHK_Mgr.h:41` does not list among those that may be null.
  In a build without ZTS the next request mounts the package with this entry, and so does,
  with recursive mutexes, the thread itself.
* **`utils.c:620`** `ut_strings_are_equal` compares the first string with itself, so that only the
  lengths count.  `webTunnel` (`PHK.c:498`) lets a path through that is as long as the main
  script's.

Other things that the modelling has shown, and that the models do as the code does:

* `Automap_Loader.c:55` "Returns SUCCESS/FAILURE": for a symbol that is already defined
  `Automap_resolve_symbol` returns 1 (line 70), and its callers compare with `SUCCESS`, which is 0.
  `getClass()` and the others answer *false* for a symbol that exists.
* `PHK.c:384` "`web_access` can only be array|string", and so says `PHK_Mgr.h:52`, but
  `PHK_Mgr.c:1231` keeps strings only: what an array lists is closed.
* `Automap_Mnt.c:184` "Must accept an invalid load point without error": `Automap_unload` throws
  on an ID that is not active.  `PHK_umount` runs into this when user code has unloaded the
  package's map before (`UnloadsOwnMap` says that it unloads no other instead).
* `Automap_Handlers.c:77` A success handler receives "the load ID of the map where the symbol was
  found": it is read from the map after the script of the symbol has run, which may have unloaded it
  (`NoStaleMap` exempts this).
* `PHK.c:109` "Always check CRC, but only once": two threads that mount a new package at the same
  time both check it (which is wasteful, not wrong: `CrcChecked` holds).
* The autoindex loop (`PHK.c:518`) advances `p` where it reads `pp`; the URI it finds is then used
  as a path, although "Here, the path is in tpath"; the name is put after the directory's URI
  without a slash unless that is the root.  The redirect of a directory sends a `phk://` URI after
  the base URL.
* A main script to which `web_main_redirect` redirects is asked for by its path as it is, and
  `setSubpath` decodes what it is asked for.  If that changes the path (`+` or `%2F` in it) the browser is redirected without end.
* A file with `?`, `&` or `\` in its name cannot be named by a URI: `parseURI` takes these for its
  own, and nothing that builds a URI looks for them.
* `mimeType` looks a suffix up in the package's own table with a null pointer for the result.
* `setSubpath` always decodes the path; its variable `decode` is not used.
* `uriToMnt` does not stop at a `?`, as `parseURI` does; `mount` of a URI without a path
  dereferences a null string.
* `symbolIsDefined` of Automap answers the opposite: it returns `status==SUCCESS` of a function
  that returns true or false.
* Objects made on demand (`Automap\Map`, `PHK`, proxy) are kept although their constructor threw
  (`ut_new_instance` does not look at the exception): a second call returns the half-made object.

## 5. Proofs

For every value of the constants, from the assumptions `ConstantsAssumption` of the modules,
TLAPS checks:

| Theorem | Says |
|---|---|
| `PHKMounts_proofs!TypeCorrect` | `Spec => []TypeOK` |
| `PHKMounts_proofs!MountTableCorrect` | the two indexes of packages agree, whatever scripts do |
| `PHKMounts_proofs!StaleObjectsCorrect` | orders are given once |
| `PHKMounts_proofs!MountedCompletelyCorrect` | a mounted package has its map and its plugin, whatever scripts do |
| `PHKMounts_proofs!OrphanMapsCorrect` | it leaves with its map, but for a mount that fails |
| `PHKMounts_proofs!UnloadsOwnMapCorrect` | unmounting unloads no other map |
| `PHKMounts_proofs!FamilyLinksCorrect` | parents and children point to each other (`Misuse = {}`) |
| `PHKMounts_proofs!NoUseAfterFreeCorrect` | no call resumes on a freed structure (`Misuse = {}`) |
| `SharedTables_proofs!TypeCorrect` | `Spec => []TypeOK` |
| `SharedTables_proofs!SharedEntriesCorrect` | a thread's entry is the table's entry |
| `SharedTables_proofs!EntriesCompleteCorrect` | in every build, nobody else meets an unfinished entry |
| `SharedTables_proofs!EntriesUsableIfFast` | with pthread mutexes, a mounted package has its `buildInfo` |
| `SharedTables_proofs!CrcCheckedCorrect` | a mounted package was checked |
| `SharedTables_proofs!PdataRefinement` | `persistent_mtab` implements `Registry` |
| `SharedTables_proofs!PmapRefinement` | `pmap_array` implements `Registry` |
| `AutomapResolve_proofs!TypeCorrect` | `Spec => []TypeOK`; in it, that a walk goes down from where it began |
| `AutomapResolve_proofs!FailureMeansAbsentCorrect` | a failure means that no map provides the symbol |
| `AutomapResolve_proofs!OutcomeCorrect` | after a success the symbol is defined |
| `AutomapResolve_proofs!NoStaleMapCorrect` | no freed map is read, unless PHP code was rude |
| `PHKStream_proofs!TypeCorrect` | `Spec => []TypeOK`; in it, that positions stay in the data |
| `PHKStream_proofs!CacheTrueCorrect` | the cache tells the truth |
| `PHKStream_proofs!StreamsTrueCorrect` | what is read from a stream is what the file holds |
| `WebTunnel_proofs!TypeCorrect` | `Spec => []TypeOK`: what is built and taken apart are strings |
| `WebTunnel_proofs!RedirectsSettleCorrect` | a browser follows one redirect at most |
| `WebTunnel_proofs!SubMountsDistinctCorrect` | two sub-packages have two mount points |
| `WebTunnel_proofs!UriRoundTripCorrect` | a URI is taken apart into what it was built of (`PlainNames`) |
| `WebTunnel_proofs!AccessByComponentsCorrect` | web access is given by whole components of a path |
| `WebTunnel_proofs!AbsolutePathsCorrect` | an absolute path has the components of its two parts, and is made once |
| `WebTunnel_proofs!TunnelCorrect` | the path that `webTunnel` looks at is the one that was asked for |
| `WebTunnel_proofs!AnswersPathCorrect` | open files are answered, and what is sent was asked for and is open or the main script, but for paths of the main script's length (`PlainNames`, `CanonicalNames`) |
| `WebTunnel_proofs!OnlyOpenWithoutMain` | without a main script, nothing closed is sent (`PlainNames`, `CanonicalNames`) |
| `PackageNames_proofs!TypeCorrect` | `Spec => []TypeOK`; in it, that the counter is never 0 |
| `PackageNames_proofs!OneNameCorrect` | names are the same exactly for one time of one file |
| `PackageNames_proofs!FreshCorrect` | the data of a name are not older than every version with the time in it |
| `PackageNames_proofs!NumbersStayCorrect` | a number stays while any request is running |
| `AutomapParser_proofs!TypeCorrect` | `Spec => []TypeOK`; in it, that no brace is counted below zero |
| `AutomapParser_proofs!DeclaredCorrect` | the parser adds what PHP declares, under its key |
| `AutomapParser_proofs!EndsOutsideCorrect` | it reads every program of the grammar to its end, outside of all bodies |
| `AutomapParser_proofs!FaultOnlyIfTooLongCorrect` | only a name that is too long is written beyond the buffer |

**`PHKMounts`.**  The invariant is `TableInv`: `TypeOK`, `MountTable` and two more conjuncts.
`StackBase` (the stack starts with the main script) keeps the stack from becoming empty when a
call returns.  `TmpNamesUnused` (names that creators have not had yet are not in the table) is
what makes `MountCreator` put its package where no other is.  The proof has a lemma per action;
most actions leave the tables alone, and the ones that do not all go through `new_mnt`,
`remove_mnt`, `Allocated` and `Unregistered`, of which lemmas say what they preserve.

`LoadedInv` is the part about maps and plugins: a map names a package of this request or none
(`OwnersInv`); a package of the table has the ID of the map that its mount has loaded, and that
map is its own unless it was unloaded (`HasOwnMap`); it has no other (`HasNoOtherMap`); and it has
its plugin, unless a call is mounting or unmounting it (`HasPluginBuilt`).  It does not need
`Misuse = {}`: what rude scripts break is the pointers between packages, not what a package has.

**`PHKMounts` with `Misuse = {}`.**  `NoUseAfterFree` is about pointers that sit in the local variables of
waiting calls.  `CallsInv` says of each frame of the stack that the package it will resume on is
there.  That alone is not inductive: why can no call above free it?  Two kinds of calls free a
package: the one that unmounts it or backs out of its mount, and the one that unmounts an
ancestor.  So `ApartFromCallers` says that for each frame that frees, or may come to, there is a
set of packages, closed under taking parents, that contains those of all calls below and not its
own: an unmounted package is then neither one that a caller works on nor above one.
`Follows` says which frame may stand on which, `UmountInv` how far a call has come with the
children: those that it has gone through are gone, so that at the end none is left with a pointer
to it.  The links between packages are `Ancestry` (a parent is older than its child, hence no
cycles, and is there as long as the child is), `ChildrenInv` and `ParentInv`.  Without the limits
of `Polite...` this is false; for one of the three `mounts_abort` shows it.

**`AutomapResolve`.**  The invariant `IInv` says what each frame relies on.  `FailureMeansAbsent`
speaks of a walk that is over; `Walk` of one that is under way: from the place it has come to up
to the one it began at, no map provides the symbol.  Maps that are loaded meanwhile get IDs above
`start`, and maps that are unloaded only take away, so PHP code cannot spoil it.  A walk that
mounts a package is between two places: the map that has named the package is left behind only if
it still names it.  `Waiting` says why `Outcome` holds although the symbol is defined by a script
that may load, unload and define anything before it returns: the frame above is that script, until
the symbol is there.  `MountedMaps` and `MountingInv` (a package's map is its own; one call mounts
it) give `NoStaleMap`.

**`SharedTables`.**  The invariant is `IInv`.  Mutual exclusion alone does not give
`EntriesComplete`: a thread that ends its request in `getBuildInfo()` leaves an unfinished entry
behind.  `Incomplete` says what then saves the others: such an entry is in `cut`, the mutex is
lost (`LostLocks`), and with `Locking = "fast"` nobody is between lock and unlock any more; with
`"recursive"` only the thread that made the entry is; and with `"none"` there is no other thread.
Which is why `EntriesComplete` has a part that holds in all builds, and one that does not.
`Exclusion` says who owns the mutexes and that an entry that is being made is
not in the table yet; `EntryFields` relates an entry to `pmap_array` and to `checked`; `Places`
relates a thread's pointers to its place; `PastCrc` is `CrcChecked` from the moment of the
check.

The refinement maps every step to `Ask`, `Create`, `Get`, `Leave` or `Restart` of `Registry`, or
to a stutter.  A thread has asked as long as it is between its first step and the lookup or
insertion.

**`PHKStream`.**  `CacheTrue` is not inductive: it says nothing of data on their way into the
cache, and an item of a creator that was true when it was put there may become false.  The
invariant `IInv` adds `FramesTrue` (a call that waits and has read data of an ordinary package
has read what is there) and, in `ItemsTrue`, that an item is trusted only if its package is
ordinary: without an order nothing of a creator gets in.  The back-end is asked before the
package may be unmounted and decides to cache after that; the proof of `SetTrue` shows why this
does no harm: who consents to caching is mounted at that moment, and what was read stays true.
`StreamsTrue` follows (`StreamsInv`): a stream gets its data from an item or from a call that
has waited.  Files and directories share the prefix `node`, so a stream is of the kind that was
asked for only because `getFile` rejects an item of the other kind.

**`PackageNames`.**  The invariant is `IInv`.  `OneName` compares what two threads were told at
different times; it follows once each thread's `inode` is tied to the table and the table is
injective.  `Exclusion` (who is between lock and unlock owns the mutex) makes the six steps of
numbering a file one: `Numbering` says, place by place, what a thread in there may rely on, and
`Numbers` that the numbers given are below the counter and of one file each.  The counter is read
and written in two steps, and only the mutex makes that right.  `Seen` (what a thread has from
`stat` is the time of a version that the file has had) and `Entries` (under a name are data of a
version that is not older than some version with the time in the name) give `Fresh`; times
need not grow for that.  One lemma per action, and one (`OtherPlace`) that says when a step of one
thread leaves the places of the others alone.

**`PHKUri`.**  The functions on strings are stated with the first or the last place at which
something is (`Before`, `Last0`, the two ends that `trim` leaves), so proofs need such places to
exist.  `Least` and `Greatest` derive that from the well-foundedness of the order of naturals,
which is a theorem of the library.  The same lemma stands in for induction over data, which the
provers cannot do: if some prefix of a path had not the components that are claimed, there would
be a shortest such prefix, and it is one character longer than one that has them.  In this way
`Components` of a path and a slash and another path are shown to be the components of both, and
paths in which slashes stand alone to be the same if their components are.

**`WebTunnel`.**  `RedirectInv` says where a
redirect may lead: to the main script or the root, and then the browser had not been redirected
before, or to a `phk://` URI, which is no path of the package.  Its heart is `HomeIsAsked`: a
browser that is sent to the main script asks for the main script, so that `webTunnel` answers.
`UriRoundTrip` is a function of the package alone.  `NameParts`, `PathParsed` and `CommandParsed`
follow a URI through `parseURI`: where the mount point ends, which `?` and `&` it finds.  The
theorem assumes `PlainNames`: no file of the package has `?`, `&`, `\` or a space in its name,
and the mount point is one (no slash, no such character).  The code does not refuse such names and
does take URIs with them apart wrongly, so that the assumption cannot be dropped.

`AccessByComponents` and `AbsolutePaths` need no invariant but `TypeOK`: they are what the
functions compute for every path.  `AnswersPath` needs `TunnelInv`, which says what `prolog` has
made of the request (`tpath` is the path that was asked for without the slashes at its end, unless
`.webinfo` has been run) and that an index is looked for only in a directory.  Then it is a matter
of following `tpath` through `web_access_matches`, the URI, `parseURI` and back, once for what is
answered and once for the files that must be.  `AnswersInv` is what comes out of it: what is sent
is open, or the main script, or was let through by `ut_strings_are_equal`; `AnswersPath` and,
for packages without a main script, `OnlyOpen` follow.  Beside `PlainNames` it assumes `CanonicalNames`: the
names of files are not empty, and have no slash at their ends and no two slashes in a row.
That is how a package is built, but it is the PHP code of the builder that does it.

**`AutomapParser`.**  None of the four properties is inductive, since they say nothing of the
rest of the program, and the rest has no bound.  The proof does not look at `todo` as a string of
the grammar.  It gives every token and part an effect on a *mode*: the parser's state, its count of
braces, what PHP is in, and whether the buffer lacks a name.  `Step` says which token may stand in
which mode and to which mode it leads, `Path` that a sequence of tokens and parts leads from one
mode to another, and the invariant `OnTheWay` that there is a way from here through all of `todo` to
one outside.  A part leaves the mode as it is, so `Choose` is right if each of the forms
that the part may take is itself a way from that mode back to it: `ChoosePath`, with a lemma for
each form, in a body that is skipped and outside of one.  `Read` is right if the parser and PHP
both do what `Step` says: `ReadToken`, with a lemma for each kind of token.  Then
`EndsOutside` is the way without tokens, and `Declared` follows at each token from `Holds`, which
says what is in the buffer: the names of the namespace with separators between them, or all of
them and one separator more.  `Lengths` (the name with its separators is as long as its
parts) makes it fit exactly if `Fits` says so.

Two things were not obvious before.  In a body that is skipped, a quote may take the parser from
strings to code and back, out of step with PHP; what saves it is that in a string the braces
of an interpolation are not counted either way, so that between two quotes the count comes to the same (`QuotedPath`).
And `Close` ends a block outside of all bodies without being counted,
which is right because the parser has not counted its opening either (`Leave`).

**Assumptions.**  `ConstantsAssumption` of each module says what an instance is, and TLC checks it
in each run.  In `PHKMounts` maps and plugins belong to packages; in `WebTunnel` the strings that
PHK itself puts into paths are made of atoms, a main script is a file of its package, the working
directory of a web server is absolute, and a request that names no path has none; in
`AutomapResolve` a script defines what its map says; in `AutomapParser` a name is not empty and
has no backslash and no quote.

**Only model-checked.**  `LocksReleased`, which is liveness under fairness.

## 6. What is not modelled, and the plan

Not modelled, and not planned:

* the conversions of `utils.c` and `Automap_Pmap.c` between zvals and C (no state but reference
  counts, which a model of this size cannot relate to the engine's), and the memory and hash
  helpers;
* the text of HTTP headers and of HTML pages, the table of MIME types, the CLI part of `prolog`,
  and the getters, which only read fields;
* the adapters of APC, XCache and eAccelerator: a model of them would be a model of those;
* `file_get_contents()` of Automap, which is I/O;
* the order in which `php_phk.c` starts and stops the parts: a fixed list of calls;
* the generated build files, and the two tests (which only check that the extension is loaded).

Not modelled, but could be:

* PHP code that runs under the mutex of `persistent_mtab` and mounts a package itself: the mutex
  is not recursive, and the thread waits for itself.  This takes a stack per thread in
  `SharedTables`, and new proofs of it.
* `tmp_mnt_num`, a counter of the process that threads increment without a mutex: two creators of
  one request may get one name.
* The key of the last opcode-cache lookup, one buffer for all threads.
* The `instance`, `proxy`, `map` and back-end objects, made on demand and kept by their structure:
  their constructors are PHP code that may unmount what they are made for.
* `topLevelPath` and `pathToMnt`, which look URIs up in the mount table.

Done, in the order of the plan: `PHKMounts`; `SharedTables` and `Registry` with the refinement;
`AutomapResolve`; `PHKStream` with `PHK_Cache`; `PHKUri`; `AutomapParser`; `WebTunnel`;
`PackageNames`.  Every safety property of the passing runs is also a theorem.
