---------------------------- MODULE PackageNames ----------------------------
(***************************************************************************)
(* The names of package and map files.  ut_pathUniqueID() makes the mount  *)
(* point of a package, and the UFID of a map, of the device, the inode and *)
(* the modification time of its file, so that all paths to a file give one *)
(* name, and a version of it with another time another.  The times need    *)
(* not grow: a file may be replaced by one that is older or as old, or be  *)
(* replaced twice within the grain of the clock.  Where a file system has  *)
(* no inodes, the threads of the process number the resolved paths in a    *)
(* table that they share.  The shared data of a name                       *)
(* (PHK_Mgr_populate_pdata(), Automap_Pmap_get_or_create()) are read by    *)
(* whoever needs them first: see Registry, which SharedTables implements.  *)
(***************************************************************************)
EXTENDS Naturals

CONSTANTS
  Threads,
  Prefixes,   \* 'p' for packages, 'm' for maps
  Links,      \* paths that a request may use
  Files,
  Realpath,   \* link -> its file
  Dev, Ino,   \* file -> st_dev, st_ino; no inode is 0
  MaxVersion, \* bound: a file has so many versions
  Time,       \* file -> version -> st_mtime, in any order
  MaxIndex,   \* bound: of _ut_simul_inode_index
  NULL

\* Files differ by device or inode; a device has inodes for all its files or for none.
ASSUME ConstantsAssumption ==
  /\ Realpath \in [Links -> Files]
  /\ Ino \in [Files -> Nat]
  /\ MaxVersion \in Nat \ {0} /\ MaxIndex \in Nat \ {0}
  /\ \A f, g \in Files : Dev[f] = Dev[g] =>
       /\ Ino[f] = 0 <=> Ino[g] = 0
       /\ f # g /\ Ino[f] # 0 => Ino[f] # Ino[g]
  /\ NULL \notin Threads

VARIABLES
  version,            \* file -> the version of its contents
  _ut_simul_inodes,   \* file -> its number, 0 if it has none
  _ut_simul_inode_index,
  simul_lock,         \* owner of the mutex, or NULL
  entries,            \* the shared data: name -> version read, 0 if there are none
  pc,
  call,               \* the prefix and the path that a thread has been given
  st,                 \* what stat() has told it: [dev, ino, mtime]
  inode               \* its variable

vars == <<version, _ut_simul_inodes, _ut_simul_inode_index, simul_lock, entries, pc, call,
          st, inode>>
simul == <<_ut_simul_inodes, _ut_simul_inode_index, simul_lock>>

Versions == 1..MaxVersion
DevIno == {Dev[f] : f \in Files}
Inodes == {Ino[f] : f \in Files} \cup 0..MaxIndex
Name(prefix, dev, ino, mt) == [prefix |-> prefix, dev |-> dev, ino |-> ino, mtime |-> mt]
Times == {Time[f][v] : f \in Files, v \in Versions}
Names == [prefix : Prefixes, dev : DevIno, ino : Inodes, mtime : Times]

\* Mutant: without the time.
UniqueID_NoTime(t) == Name(call[t].prefix, st[t].dev, inode[t],
                             CHOOSE time \in Times : TRUE)

\* "%c_%lX_%lX_%lX"
UniqueID(t) == Name(call[t].prefix, st[t].dev, inode[t], st[t].mtime)

NoCall == [prefix |-> NULL, file |-> NULL]
NoStat == [dev |-> NULL, ino |-> 0, mtime |-> 0]

\* Mutant: the counter starts at the number that means "no inode".
Init_Zero ==
  /\ version = [f \in Files |-> 1]
  /\ _ut_simul_inodes = [f \in Files |-> 0]
  /\ _ut_simul_inode_index = 0
  /\ simul_lock = NULL
  /\ entries = [n \in Names |-> 0]
  /\ pc = [t \in Threads |-> "idle"]
  /\ call = [t \in Threads |-> NoCall]
  /\ st = [t \in Threads |-> NoStat]
  /\ inode = [t \in Threads |-> 0]

Init ==
  /\ version = [f \in Files |-> 1]
  /\ _ut_simul_inodes = [f \in Files |-> 0]
  /\ _ut_simul_inode_index = 1
  /\ simul_lock = NULL
  /\ entries = [n \in Names |-> 0]
  /\ pc = [t \in Threads |-> "idle"]
  /\ call = [t \in Threads |-> NoCall]
  /\ st = [t \in Threads |-> NoStat]
  /\ inode = [t \in Threads |-> 0]

Goto(t, where) == pc' = [pc EXCEPT ![t] = where]

-----------------------------------------------------------------------------
\* Someone replaces a file.
Replace(f) ==
  /\ version[f] < MaxVersion
  /\ version' = [version EXCEPT ![f] = @ + 1]
  /\ UNCHANGED <<simul, entries, pc, call, st, inode>>

\* A request mounts a package or loads a map.
Call(t, prefix, link) ==
  /\ pc[t] = "idle"
  /\ Goto(t, "stat")
  /\ call' = [call EXCEPT ![t] = [prefix |-> prefix, file |-> Realpath[link]]]
  /\ UNCHANGED <<version, simul, entries, st, inode>>

\* The request ends, after an exception or at its end; the table stays.
Return(t) ==
  /\ Goto(t, "idle")
  /\ call' = [call EXCEPT ![t] = NoCall]
  /\ st' = [st EXCEPT ![t] = NoStat]
  /\ inode' = [inode EXCEPT ![t] = 0]

\* The file is there, ...
Stat(t) ==
  /\ pc[t] = "stat"
  /\ LET f == call[t].file IN
     /\ st' = [st EXCEPT ![t] =
                  [dev |-> Dev[f], ino |-> Ino[f], mtime |-> Time[f][version[f]]]]
     /\ inode' = [inode EXCEPT ![t] = Ino[f]]
     /\ Goto(t, IF Ino[f] = 0 THEN "realpath" ELSE "named")
  /\ UNCHANGED <<version, simul, entries, call>>

\* ... or it is not: "Cannot stat", "Cannot compute realpath".
Fail(t) ==
  /\ pc[t] \in {"stat", "realpath"}
  /\ Return(t)
  /\ UNCHANGED <<version, simul, entries>>

\* Mutant: no mutex.
Lock_None(t) ==
  /\ pc[t] = "realpath"
  /\ simul_lock' = t
  /\ Goto(t, "find")
  /\ UNCHANGED <<version, _ut_simul_inodes, _ut_simul_inode_index, entries, call, st, inode>>

Lock(t) ==
  /\ pc[t] = "realpath" /\ simul_lock = NULL
  /\ simul_lock' = t
  /\ Goto(t, "find")
  /\ UNCHANGED <<version, _ut_simul_inodes, _ut_simul_inode_index, entries, call, st, inode>>

Find(t) ==
  /\ pc[t] = "find"
  /\ LET number == _ut_simul_inodes[call[t].file] IN
     IF number # 0
     THEN inode' = [inode EXCEPT ![t] = number] /\ Goto(t, "unlock")
     ELSE Goto(t, "number") /\ UNCHANGED inode
  /\ UNCHANGED <<version, simul, entries, call, st>>

\* inode=_ut_simul_inode_index++ reads the counter, then writes it.
Number(t) ==
  /\ pc[t] = "number" /\ _ut_simul_inode_index < MaxIndex
  /\ inode' = [inode EXCEPT ![t] = _ut_simul_inode_index]
  /\ Goto(t, "count")
  /\ UNCHANGED <<version, simul, entries, call, st>>

Count(t) ==
  /\ pc[t] = "count"
  /\ _ut_simul_inode_index' = inode[t] + 1
  /\ Goto(t, "add")
  /\ UNCHANGED <<version, _ut_simul_inodes, simul_lock, entries, call, st, inode>>

\* zend_hash_quick_add() does nothing if the key is there.
Add(t) ==
  /\ pc[t] = "add"
  /\ _ut_simul_inodes' = [_ut_simul_inodes EXCEPT ![call[t].file] = IF @ = 0 THEN inode[t] ELSE @]
  /\ Goto(t, "unlock")
  /\ UNCHANGED <<version, _ut_simul_inode_index, simul_lock, entries, call, st, inode>>

Unlock(t) ==
  /\ pc[t] = "unlock"
  /\ simul_lock' = NULL
  /\ Goto(t, "named")
  /\ UNCHANGED <<version, _ut_simul_inodes, _ut_simul_inode_index, entries, call, st, inode>>

\* The data of the name: found, or read from the file as it is now.
Mount(t) ==
  /\ pc[t] = "named"
  /\ entries' = [entries EXCEPT ![UniqueID(t)] = IF @ = 0 THEN version[call[t].file] ELSE @]
  /\ Goto(t, "mounted")
  /\ UNCHANGED <<version, simul, call, st, inode>>

\* Mutant: the table is cleared with the request.
EndRequest_Clears(t) ==
  /\ pc[t] \in {"named", "mounted"}
  /\ Return(t)
  /\ _ut_simul_inodes' = [f \in Files |-> 0]
  /\ UNCHANGED <<version, _ut_simul_inode_index, simul_lock, entries>>

EndRequest(t) ==
  /\ pc[t] \in {"named", "mounted"}
  /\ Return(t)
  /\ UNCHANGED <<version, simul, entries>>

\* The process ends (MSHUTDOWN), the files stay, another one starts (MINIT).
Restart ==
  /\ \A t \in Threads : pc[t] = "idle"
  /\ _ut_simul_inodes' = [f \in Files |-> 0]
  /\ _ut_simul_inode_index' = 1
  /\ simul_lock' = NULL
  /\ entries' = [n \in Names |-> 0]
  /\ UNCHANGED <<version, pc, call, st, inode>>

Step(t) ==
  \/ \E prefix \in Prefixes, link \in Links : Call(t, prefix, link)
  \/ Stat(t) \/ Fail(t)
  \/ Lock(t) \/ Find(t) \/ Number(t) \/ Count(t) \/ Add(t) \/ Unlock(t)
  \/ Mount(t) \/ EndRequest(t)

Next ==
  \/ \E t \in Threads : Step(t)
  \/ \E f \in Files : Replace(f)
  \/ Restart

Spec == Init /\ [][Next]_vars
-----------------------------------------------------------------------------
(***************************************************************************)
(* Properties.                                                             *)
(***************************************************************************)
PCs == {"idle", "stat", "realpath", "find", "number", "count", "add", "unlock", "named", "mounted"}

\* The variables have their types.
TypeOK ==
  /\ version \in [Files -> Versions]
  /\ _ut_simul_inodes \in [Files -> 0..MaxIndex]
  /\ _ut_simul_inode_index \in 1..MaxIndex
  /\ simul_lock \in Threads \cup {NULL}
  /\ entries \in [Names -> 0..MaxVersion]
  /\ pc \in [Threads -> PCs]
  /\ call \in [Threads -> [prefix : Prefixes, file : Files] \cup {NoCall}]
  /\ st \in [Threads -> [dev : DevIno, ino : Inodes, mtime : Times] \cup {NoStat}]
  /\ inode \in [Threads -> Inodes]

Named(t) == pc[t] \in {"named", "mounted"}

\* Two names are the same exactly if the threads mean the same file with the same time by
\* them, whichever paths they were given and whoever numbered the file.  A table that
\* numbers two files alike, or one file twice, would give a request the data of another
\* package, or one package two sets of data.
OneName ==
  \A t, u \in Threads :
    Named(t) /\ Named(u) =>
      (UniqueID(t) = UniqueID(u) <=> call[t] = call[u] /\ st[t].mtime = st[u].mtime)

\* The shared data of a file, which stay for as long as the process lives, are not found
\* again when it has been replaced: what a request has mounted is not older than a version
\* with the time that it saw when it asked for the file.  (If an older version had the same
\* time, its data are found: the name says no more.)
Fresh ==
  \A t \in Threads : pc[t] = "mounted" =>
    \E v \in Versions : /\ Time[call[t].file][v] = st[t].mtime
                        /\ entries[UniqueID(t)] >= v

\* A number is given once, and for as long as the process lives: as long as any request
\* is running, the number of a file does not change.
NumbersStay ==
  [][(\E t \in Threads : pc[t] # "idle") =>
       \A f \in Files : _ut_simul_inodes[f] \in {0, _ut_simul_inodes'[f]}]_vars
=============================================================================
