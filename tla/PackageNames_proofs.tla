------------------------ MODULE PackageNames_proofs ------------------------
(***************************************************************************)
(* Proofs about PackageNames, for any number of threads, files and paths.  *)
(***************************************************************************)
EXTENDS PackageNames, TLAPS

-----------------------------------------------------------------------------
(***************************************************************************)
(* The invariant.                                                          *)
(***************************************************************************)
Calls == [prefix : Prefixes, file : Files]
Stats == [dev : DevIno, ino : Inodes, mtime : Times]
Locked == {"find", "number", "count", "add", "unlock"}
File(t) == call[t].file

\* Only the owner of the mutex is in the table.
Exclusion == \A t \in Threads : pc[t] \in Locked => simul_lock = t

\* The numbers that have been given are below the counter, and of one file each.
Numbers ==
  \A f \in Files : _ut_simul_inodes[f] # 0 =>
    /\ Ino[f] = 0
    /\ _ut_simul_inodes[f] < _ut_simul_inode_index
    /\ \A g \in Files : _ut_simul_inodes[g] = _ut_simul_inodes[f] => f = g

\* A thread that has been told the file's data has been told the truth, of a version that
\* may have been replaced.
Seen(f, time) == \E v \in Versions : v <= version[f] /\ time = Time[f][v]

Told(t) ==
  pc[t] \notin {"idle", "stat"} =>
    st[t] \in Stats /\ st[t].dev = Dev[File(t)] /\ Seen(File(t), st[t].mtime)

\* The variable "inode", from place to place.
Numbering(t) ==
  /\ pc[t] \in Locked \cup {"realpath"} => Ino[File(t)] = 0
  /\ pc[t] \in {"number", "count", "add"} => _ut_simul_inodes[File(t)] = 0
  /\ pc[t] = "count" => inode[t] = _ut_simul_inode_index /\ inode[t] < MaxIndex
  /\ pc[t] = "add" => inode[t] # 0 /\ inode[t] < _ut_simul_inode_index
                      /\ \A f \in Files : _ut_simul_inodes[f] # inode[t]
  /\ pc[t] = "unlock" => inode[t] # 0 /\ inode[t] = _ut_simul_inodes[File(t)]
  /\ Named(t) => IF Ino[File(t)] = 0
                 THEN inode[t] # 0 /\ inode[t] = _ut_simul_inodes[File(t)]
                 ELSE inode[t] = Ino[File(t)]

\* The name n is that of the file f, with some time.
IsName(n, f) ==
  n.dev = Dev[f] /\ IF Ino[f] = 0 THEN n.ino # 0 /\ n.ino = _ut_simul_inodes[f]
                                  ELSE n.ino = Ino[f]

\* The data of a name are those of its file, and not older than a version with the time
\* that is in the name.
Entry(n) ==
  entries[n] # 0 =>
    \E f \in Files : IsName(n, f)
                    /\ \E v \in Versions : n.mtime = Time[f][v] /\ v <= entries[n]

Entries ==
  /\ \A n \in Names : Entry(n)
  /\ \A t \in Threads : pc[t] = "mounted" => entries[UniqueID(t)] # 0

Place(t) == (pc[t] # "idle" => call[t] \in Calls) /\ Told(t) /\ Numbering(t)

IInv ==
  /\ TypeOK
  /\ Exclusion
  /\ Numbers
  /\ \A t \in Threads : Place(t)
  /\ Entries

\* A thread's name is one of the names.
LEMMA NameType ==
  ASSUME TypeOK, NEW t \in Threads, Place(t), Named(t)
  PROVE  /\ UniqueID(t) \in Names
         /\ UniqueID(t).mtime = st[t].mtime
         /\ st[t].mtime \in Times /\ call[t] \in Calls
<1>1. st[t] \in Stats /\ call[t] \in Calls /\ inode[t] \in Inodes
  BY DEF TypeOK, Place, Named, Told
<1> QED BY <1>1 DEF UniqueID, Name, Names, Stats, Calls

-----------------------------------------------------------------------------
(***************************************************************************)
(* Types.                                                                  *)
(***************************************************************************)
LEMMA InitType ==
  ASSUME ConstantsAssumption, Init
  PROVE  TypeOK
BY DEF ConstantsAssumption, Init, TypeOK, Versions, Inodes, PCs

\* Who returns leaves nothing behind.
LEMMA ReturnType ==
  ASSUME ConstantsAssumption, TypeOK, NEW t \in Threads, Return(t)
  PROVE  /\ pc' \in [Threads -> PCs]
         /\ call' \in [Threads -> Calls \cup {NoCall}]
         /\ st' \in [Threads -> Stats \cup {NoStat}]
         /\ inode' \in [Threads -> Inodes]
BY DEF ConstantsAssumption, TypeOK, Return, Goto, PCs, Calls, Stats, Inodes

LEMMA NextType ==
  ASSUME ConstantsAssumption, IInv, [Next]_vars
  PROVE  TypeOK'
<1> USE DEF IInv
<1>1. ASSUME NEW t \in Threads, NEW prefix \in Prefixes, NEW link \in Links,
             Call(t, prefix, link)
      PROVE  TypeOK'
  BY <1>1 DEF Call, TypeOK, Goto, PCs, simul, ConstantsAssumption
<1>2. ASSUME NEW t \in Threads, Stat(t)
      PROVE  TypeOK'
  <2>1. Place(t) /\ pc[t] = "stat"
    BY <1>2 DEF Stat
  <2>2. File(t) \in Files
    BY <2>1 DEF Place, Calls, File
  <2>3. Dev[File(t)] \in DevIno /\ Ino[File(t)] \in Inodes
        /\ Time[File(t)][version[File(t)]] \in Times
    BY <2>2 DEF DevIno, Inodes, Times, TypeOK
  <2> QED BY <1>2, <2>3 DEF Stat, TypeOK, Goto, PCs, simul, File
<1>3. ASSUME NEW t \in Threads, Fail(t)
      PROVE  TypeOK'
  BY <1>3, ReturnType DEF Fail, TypeOK, Calls, Stats, simul
<1>4. ASSUME NEW t \in Threads, Lock(t)
      PROVE  TypeOK'
  BY <1>4 DEF Lock, TypeOK, Goto, PCs
<1>5. ASSUME NEW t \in Threads, Find(t)
      PROVE  TypeOK'
  <2>1. Place(t) /\ pc[t] = "find"
    BY <1>5 DEF Find
  <2>2. _ut_simul_inodes[File(t)] \in Inodes
    BY <2>1 DEF Place, Calls, File, TypeOK, Inodes
  <2> QED BY <1>5, <2>2 DEF Find, TypeOK, Goto, PCs, simul, File
<1>6. ASSUME NEW t \in Threads, Number(t)
      PROVE  TypeOK'
  <2>1. _ut_simul_inode_index \in Inodes
    BY ConstantsAssumption DEF TypeOK, Inodes, ConstantsAssumption
  <2> QED BY <1>6, <2>1 DEF Number, TypeOK, Goto, PCs, simul
<1>7. ASSUME NEW t \in Threads, Count(t)
      PROVE  TypeOK'
  <2>1. inode[t] = _ut_simul_inode_index /\ inode[t] < MaxIndex
    BY <1>7 DEF Count, Place, Numbering
  <2>2. inode[t] + 1 \in 1..MaxIndex
    BY <2>1, ConstantsAssumption DEF TypeOK, ConstantsAssumption
  <2> QED BY <1>7, <2>2 DEF Count, TypeOK, Goto, PCs
<1>8. ASSUME NEW t \in Threads, Add(t)
      PROVE  TypeOK'
  <2>1. inode[t] # 0 /\ inode[t] < _ut_simul_inode_index /\ inode[t] \in Inodes
    BY <1>8 DEF Add, Place, Numbering, TypeOK
  <2>2. inode[t] \in 0..MaxIndex
    BY <2>1, ConstantsAssumption DEF TypeOK, ConstantsAssumption, Inodes
  <2> QED BY <1>8, <2>2 DEF Add, TypeOK, Goto, PCs
<1>9. ASSUME NEW t \in Threads, Unlock(t)
      PROVE  TypeOK'
  BY <1>9 DEF Unlock, TypeOK, Goto, PCs
<1>10. ASSUME NEW t \in Threads, Mount(t)
       PROVE  TypeOK'
  <2>1. Place(t) /\ Named(t)
    BY <1>10 DEF Mount, Named
  <2>2. version[call[t].file] \in 0..MaxVersion
    BY <2>1, NameType, ConstantsAssumption DEF TypeOK, Calls, Versions, ConstantsAssumption
  <2> QED BY <1>10, <2>2 DEF Mount, TypeOK, Goto, PCs, simul
<1>11. ASSUME NEW t \in Threads, EndRequest(t)
       PROVE  TypeOK'
  BY <1>11, ReturnType DEF EndRequest, TypeOK, Calls, Stats, simul
<1>12. ASSUME NEW f \in Files, Replace(f)
       PROVE  TypeOK'
  <2>1. version[f] + 1 \in Versions
    BY <1>12, ConstantsAssumption DEF Replace, TypeOK, Versions, ConstantsAssumption
  <2> QED BY <1>12, <2>1 DEF Replace, TypeOK, simul
<1>13. CASE Restart
  BY <1>13, ConstantsAssumption DEF Restart, TypeOK, ConstantsAssumption
<1>14. CASE UNCHANGED vars
  BY <1>14 DEF vars, simul, TypeOK
<1> QED
  BY <1>1, <1>2, <1>3, <1>4, <1>5, <1>6, <1>7, <1>8, <1>9, <1>10, <1>11, <1>12, <1>13, <1>14
     DEF Next, Step

-----------------------------------------------------------------------------
(***************************************************************************)
(* A step of a thread and the others.                                      *)
(***************************************************************************)
Same(u) == pc'[u] = pc[u] /\ call'[u] = call[u] /\ st'[u] = st[u] /\ inode'[u] = inode[u]

\* Versions follow one another, and numbers that have been given stay.
Onward ==
  /\ \A f \in Files : version[f] <= version'[f]
  /\ \A f \in Files : _ut_simul_inodes[f] # 0 => _ut_simul_inodes'[f] = _ut_simul_inodes[f]

\* A thread that the step is not of keeps its place, if it does not hold the mutex or
\* the table is left alone.
LEMMA OtherPlace ==
  ASSUME ConstantsAssumption, TypeOK, TypeOK', NEW u \in Threads, Place(u), Same(u), Onward,
         pc[u] \notin Locked \/ UNCHANGED <<_ut_simul_inodes, _ut_simul_inode_index>>
  PROVE  Place(u)'
<1>1. pc'[u] # "idle" => call'[u] \in Calls
  BY DEF Place, Same
<1>2. Told(u)'
  <2> SUFFICES ASSUME pc[u] \notin {"idle", "stat"}
               PROVE  st[u] \in Stats /\ st[u].dev = Dev[File(u)] /\ Seen(File(u), st[u].mtime)'
    BY DEF Told, Same, File
  <2>1. st[u] \in Stats /\ st[u].dev = Dev[File(u)] /\ Seen(File(u), st[u].mtime)
        /\ File(u) \in Files /\ File(u)' = File(u) /\ st'[u] = st[u]
    BY DEF Place, Told, File, Calls, Same
  <2>2. version[File(u)] \in Nat /\ version'[File(u)] \in Nat
        /\ version[File(u)] <= version'[File(u)] /\ Versions \subseteq Nat
    BY <2>1, ConstantsAssumption DEF TypeOK, Versions, Onward, ConstantsAssumption
  <2>3. Seen(File(u), st[u].mtime)'
    BY <2>1, <2>2 DEF Seen
  <2> QED BY <2>1, <2>3
<1>3. Numbering(u)'
  <2>1. CASE UNCHANGED <<_ut_simul_inodes, _ut_simul_inode_index>>
    BY <2>1 DEF Place, Numbering, Same, File, Named
  <2>2. CASE pc[u] \notin Locked
    <3>1. pc[u] # "idle" => File(u) \in Files
      BY DEF Place, File, Calls
    <3> QED BY <2>2, <3>1 DEF Place, Numbering, Same, File, Named, Onward, Locked
  <2> QED BY <2>1, <2>2
<1> QED BY <1>1, <1>2, <1>3 DEF Place

LEMMA NamesStay ==
  ASSUME Onward, NEW n, NEW f \in Files, IsName(n, f)
  PROVE  IsName(n, f)'
BY DEF Onward, IsName

\* The data of names are left alone, and whoever is mounted was so.
LEMMA EntriesKept ==
  ASSUME Entries, entries' = entries, NEW t \in Threads, pc'[t] # "mounted",
         \A u \in Threads \ {t} : Same(u), Onward
  PROVE  Entries'
<1>1. \A u \in Threads : pc'[u] = "mounted" => pc[u] = "mounted" /\ Same(u)
  BY DEF Same
<1>2. \A n \in Names, f \in Files : IsName(n, f) => IsName(n, f)'
  BY NamesStay
<1>3. \A n \in Names : Entry(n)'
  BY <1>2 DEF Entries, Entry
<1>4. \A u \in Threads : pc'[u] = "mounted" => entries'[UniqueID(u)'] # 0
  BY <1>1 DEF Entries, Same, UniqueID
<1> QED BY <1>3, <1>4 DEF Entries, Names, Times, Inodes, DevIno, Versions

\* A step that leaves the table alone and takes nobody into it.
LEMMA OutsideStep ==
  ASSUME ConstantsAssumption, IInv, TypeOK', NEW t \in Threads,
         \A u \in Threads \ {t} : Same(u),
         UNCHANGED simul, pc[t] \in Locked \/ pc'[t] \notin Locked, Onward,
         Place(t)', Entries'
  PROVE  IInv'
<1>1. Exclusion'
  BY DEF IInv, Exclusion, Same, simul
<1>2. Numbers'
  BY DEF IInv, Numbers, simul
<1>3. \A u \in Threads : Place(u)'
  BY OtherPlace DEF IInv, simul
<1> QED BY <1>1, <1>2, <1>3 DEF IInv

\* A thread that returns has no place.
LEMMA ReturnPlace ==
  ASSUME TypeOK, NEW t \in Threads, Return(t)
  PROVE  /\ pc'[t] = "idle" /\ Place(t)'
         /\ \A u \in Threads \ {t} : Same(u)
BY DEF TypeOK, Return, Goto, Same, Place, Told, Numbering, Named, Locked

-----------------------------------------------------------------------------
(***************************************************************************)
(* The steps.                                                              *)
(***************************************************************************)
LEMMA CallStep ==
  ASSUME ConstantsAssumption, IInv, TypeOK', NEW t \in Threads,
         NEW prefix \in Prefixes, NEW link \in Links, Call(t, prefix, link)
  PROVE  IInv'
<1>1. pc'[t] = "stat" /\ \A u \in Threads \ {t} : Same(u)
  BY DEF Call, Goto, IInv, TypeOK, Same
<1>2. call'[t] \in Calls
  BY DEF Call, IInv, TypeOK, Calls, ConstantsAssumption
<1>3. Place(t)'
  BY <1>1, <1>2 DEF Place, Told, Numbering, Named, Locked
<1>4. Onward
  BY ConstantsAssumption DEF Call, simul, Onward, IInv, TypeOK, Versions, ConstantsAssumption
<1>5. Entries'
  BY <1>1, <1>4, EntriesKept DEF Call, IInv
<1> QED BY <1>1, <1>3, <1>4, <1>5, OutsideStep DEF Call, Locked

LEMMA StatStep ==
  ASSUME ConstantsAssumption, IInv, TypeOK', NEW t \in Threads, Stat(t)
  PROVE  IInv'
<1>1. /\ pc'[t] = IF Ino[File(t)] = 0 THEN "realpath" ELSE "named"
      /\ \A u \in Threads \ {t} : Same(u)
  BY DEF Stat, Goto, IInv, TypeOK, Same, File
<1>2. File(t) \in Files /\ call[t] \in Calls /\ call'[t] = call[t]
  BY DEF Stat, IInv, Place, File, Calls
<1>3. /\ st'[t] = [dev |-> Dev[File(t)], ino |-> Ino[File(t)],
                   mtime |-> Time[File(t)][version[File(t)]]]
      /\ inode'[t] = Ino[File(t)]
  BY DEF Stat, IInv, TypeOK, File
<1>4. /\ Dev[File(t)] \in DevIno /\ Ino[File(t)] \in Inodes /\ version[File(t)] \in Versions
      /\ version' = version /\ Time[File(t)][version[File(t)]] \in Times
  BY <1>2 DEF DevIno, Inodes, Times, IInv, TypeOK, Stat
<1>5. Told(t)'
  <2>1. /\ st'[t] \in Stats /\ st'[t].dev = Dev[File(t)]
        /\ st'[t].mtime = Time[File(t)][version[File(t)]]
    BY <1>3, <1>4 DEF Stats
  <2>2. version[File(t)] <= version[File(t)]
    BY <1>4, ConstantsAssumption DEF Versions, ConstantsAssumption
  <2>3. Seen(File(t), st[t].mtime)'
    BY <1>2, <1>4, <2>1, <2>2 DEF Seen, File
  <2> QED BY <1>2, <2>1, <2>3 DEF Told, File
<1>6. Place(t)'
  BY <1>1, <1>2, <1>3, <1>5 DEF Place, Numbering, Named, Locked, File
<1>7. Onward
  BY <1>4, ConstantsAssumption
     DEF Stat, simul, Onward, IInv, TypeOK, Versions, ConstantsAssumption
<1>8. Entries'
  BY <1>1, <1>7, EntriesKept DEF Stat, IInv
<1> QED BY <1>1, <1>6, <1>7, <1>8, OutsideStep DEF Stat, Locked

LEMMA ReturnStep ==
  ASSUME ConstantsAssumption, IInv, TypeOK', NEW t \in Threads, Fail(t) \/ EndRequest(t)
  PROVE  IInv'
<1>1. Return(t) /\ UNCHANGED <<version, simul, entries>>
  BY DEF Fail, EndRequest
<1>2. pc'[t] = "idle" /\ Place(t)' /\ \A u \in Threads \ {t} : Same(u)
  BY <1>1, ReturnPlace DEF IInv
<1>3. Onward
  BY <1>1, ConstantsAssumption
     DEF simul, Onward, IInv, TypeOK, Versions, ConstantsAssumption
<1>4. Entries'
  BY <1>1, <1>2, <1>3, EntriesKept DEF IInv
<1> QED BY <1>1, <1>2, <1>3, <1>4, OutsideStep DEF Locked

LEMMA LockStep ==
  ASSUME ConstantsAssumption, IInv, TypeOK', NEW t \in Threads, Lock(t)
  PROVE  IInv'
<1>1. pc'[t] = "find" /\ \A u \in Threads \ {t} : Same(u)
  BY DEF Lock, Goto, IInv, TypeOK, Same
<1>2. \A u \in Threads : pc[u] \notin Locked
  BY DEF Lock, IInv, Exclusion, ConstantsAssumption
<1>3. Exclusion'
  BY <1>1, <1>2 DEF Exclusion, Same, Lock
<1>4. Place(t)'
  BY <1>1 DEF IInv, Lock, Place, Told, Seen, Numbering, Named, Locked, File
<1>5. Onward
  BY ConstantsAssumption DEF Lock, Onward, IInv, TypeOK, Versions, ConstantsAssumption
<1>6. \A u \in Threads : Place(u)'
  BY <1>1, <1>4, <1>5, OtherPlace DEF IInv, Lock
<1>7. Entries' /\ Numbers'
  BY <1>1, <1>5, EntriesKept DEF IInv, Lock, Numbers
<1> QED BY <1>3, <1>6, <1>7 DEF IInv

LEMMA FindStep ==
  ASSUME ConstantsAssumption, IInv, TypeOK', NEW t \in Threads, Find(t)
  PROVE  IInv'
<1> DEFINE number == _ut_simul_inodes[File(t)]
<1>1. /\ pc'[t] = IF number # 0 THEN "unlock" ELSE "number"
      /\ number # 0 => inode'[t] = number
      /\ \A u \in Threads \ {t} : Same(u)
  BY DEF Find, Goto, IInv, TypeOK, Same, File
<1>2. Place(t)'
  BY <1>1 DEF IInv, Find, Place, Told, Seen, Numbering, Named, Locked, File, simul
<1>3. Onward
  BY ConstantsAssumption DEF Find, simul, Onward, IInv, TypeOK, Versions, ConstantsAssumption
<1>4. Entries'
  BY <1>1, <1>3, EntriesKept DEF Find, IInv
<1> QED BY <1>1, <1>2, <1>3, <1>4, OutsideStep DEF Find, Locked

LEMMA NumberStep ==
  ASSUME ConstantsAssumption, IInv, TypeOK', NEW t \in Threads, Number(t)
  PROVE  IInv'
<1>1. pc'[t] = "count" /\ inode'[t] = _ut_simul_inode_index
      /\ \A u \in Threads \ {t} : Same(u)
  BY DEF Number, Goto, IInv, TypeOK, Same
<1>2. Place(t)'
  BY <1>1 DEF IInv, Number, Place, Told, Seen, Numbering, Named, Locked, File, simul
<1>3. Onward
  BY ConstantsAssumption
     DEF Number, simul, Onward, IInv, TypeOK, Versions, ConstantsAssumption
<1>4. Entries'
  BY <1>1, <1>3, EntriesKept DEF Number, IInv
<1> QED BY <1>1, <1>2, <1>3, <1>4, OutsideStep DEF Number, Locked

\* The counter goes on; the number is in nobody's hands but the thread's.
LEMMA CountStep ==
  ASSUME ConstantsAssumption, IInv, TypeOK', NEW t \in Threads, Count(t)
  PROVE  IInv'
<1>1. pc'[t] = "add" /\ \A u \in Threads \ {t} : Same(u)
  BY DEF Count, Goto, IInv, TypeOK, Same
<1>2. pc[t] = "count" /\ inode'[t] = inode[t] /\ inode[t] = _ut_simul_inode_index
      /\ Ino[File(t)] = 0 /\ _ut_simul_inodes[File(t)] = 0 /\ File(t) \in Files
  BY DEF Count, IInv, Place, Numbering, Locked, File, Calls
<1>3. _ut_simul_inode_index \in Nat \ {0} /\ _ut_simul_inode_index' = _ut_simul_inode_index + 1
      /\ \A f \in Files : _ut_simul_inodes[f] \in Nat
  BY <1>2, ConstantsAssumption DEF Count, IInv, TypeOK, ConstantsAssumption
<1>4. Numbers' /\ \A f \in Files : _ut_simul_inodes'[f] # inode'[t]
  BY <1>2, <1>3 DEF Count, IInv, Numbers
<1>5. Place(t)'
  BY <1>1, <1>2, <1>3, <1>4 DEF IInv, Count, Place, Told, Seen, Numbering, Named, Locked, File
<1>6. Onward
  BY ConstantsAssumption DEF Count, Onward, IInv, TypeOK, Versions, ConstantsAssumption
<1>7. \A u \in Threads \ {t} : pc[u] \notin Locked
  BY <1>2 DEF IInv, Exclusion, Locked
<1>8. \A u \in Threads : Place(u)'
  BY <1>1, <1>5, <1>6, <1>7, OtherPlace DEF IInv
<1>9. Exclusion'
  BY <1>1, <1>2 DEF IInv, Exclusion, Same, Locked, Count
<1>10. Entries'
  BY <1>1, <1>6, EntriesKept DEF IInv, Count
<1> QED BY <1>4, <1>8, <1>9, <1>10 DEF IInv

\* The file gets a number that no file has.
LEMMA AddStep ==
  ASSUME ConstantsAssumption, IInv, TypeOK', NEW t \in Threads, Add(t)
  PROVE  IInv'
<1>1. pc'[t] = "unlock" /\ \A u \in Threads \ {t} : Same(u)
  BY DEF Add, Goto, IInv, TypeOK, Same
<1>2. /\ pc[t] = "add" /\ inode'[t] = inode[t] /\ inode[t] # 0
      /\ inode[t] < _ut_simul_inode_index /\ \A f \in Files : _ut_simul_inodes[f] # inode[t]
      /\ Ino[File(t)] = 0 /\ _ut_simul_inodes[File(t)] = 0 /\ File(t) \in Files
      /\ call'[t] = call[t]
  BY DEF Add, IInv, Place, Numbering, Locked, File, Calls
<1>3. _ut_simul_inodes' = [_ut_simul_inodes EXCEPT ![File(t)] = inode[t]]
  BY <1>2 DEF Add, File
<1>4. \A f \in Files : _ut_simul_inodes'[f] = IF f = File(t) THEN inode[t] ELSE _ut_simul_inodes[f]
  BY <1>3 DEF IInv, TypeOK
<1>5. Numbers'
  BY <1>2, <1>4 DEF Add, IInv, Numbers
<1>6. Place(t)'
  BY <1>1, <1>2, <1>4 DEF IInv, Add, Place, Told, Seen, Numbering, Named, Locked, File
<1>7. Onward
  BY <1>2, <1>4, ConstantsAssumption DEF Add, Onward, IInv, TypeOK, Versions, ConstantsAssumption
<1>8. \A u \in Threads \ {t} : pc[u] \notin Locked
  BY <1>2 DEF IInv, Exclusion, Locked
<1>9. \A u \in Threads : Place(u)'
  BY <1>1, <1>6, <1>7, <1>8, OtherPlace DEF IInv
<1>10. Exclusion'
  BY <1>1, <1>2 DEF IInv, Exclusion, Same, Locked, Add
<1>11. Entries'
  BY <1>1, <1>7, EntriesKept DEF IInv, Add
<1> QED BY <1>5, <1>9, <1>10, <1>11 DEF IInv

LEMMA UnlockStep ==
  ASSUME ConstantsAssumption, IInv, TypeOK', NEW t \in Threads, Unlock(t)
  PROVE  IInv'
<1>1. pc'[t] = "named" /\ \A u \in Threads \ {t} : Same(u)
  BY DEF Unlock, Goto, IInv, TypeOK, Same
<1>2. pc[t] = "unlock" /\ Numbers'
  BY DEF Unlock, IInv, Numbers
<1>3. \A u \in Threads \ {t} : pc[u] \notin Locked
  BY <1>2 DEF IInv, Exclusion, Locked
<1>4. Exclusion'
  BY <1>1, <1>3 DEF Exclusion, Same, Locked
<1>5. Place(t)'
  BY <1>1, <1>2 DEF IInv, Unlock, Place, Told, Seen, Numbering, Named, Locked, File
<1>6. Onward
  BY ConstantsAssumption DEF Unlock, Onward, IInv, TypeOK, Versions, ConstantsAssumption
<1>7. \A u \in Threads : Place(u)'
  BY <1>1, <1>3, <1>5, <1>6, OtherPlace DEF IInv
<1>8. Entries'
  BY <1>1, <1>6, EntriesKept DEF IInv, Unlock
<1> QED BY <1>2, <1>4, <1>7, <1>8 DEF IInv

\* What the thread finds under its name was not older than the name; what it reads is of
\* the file as it is, which cannot be older than what it was told.
LEMMA MountStep ==
  ASSUME ConstantsAssumption, IInv, TypeOK', NEW t \in Threads, Mount(t)
  PROVE  IInv'
<1>0. PICK n : n = UniqueID(t)
  OBVIOUS
<1>1. pc[t] = "named" /\ pc'[t] = "mounted" /\ \A u \in Threads \ {t} : Same(u)
  BY DEF Mount, Goto, IInv, TypeOK, Same
<1>2. n \in Names /\ n.mtime = st[t].mtime /\ call[t] \in Calls /\ File(t) \in Files
  BY <1>0, <1>1, NameType DEF IInv, Named, Calls, File
<1>3. /\ Seen(File(t), n.mtime) /\ version[File(t)] \in Nat \ {0} /\ Versions \subseteq Nat
      /\ IsName(n, File(t))
  <2>1. Place(t)
    BY DEF IInv
  <2>2. n.dev = Dev[File(t)] /\ n.ino = inode[t]
    BY <1>0, <1>1, <2>1 DEF Place, Told, UniqueID, Name
  <2> QED BY <1>1, <1>2, <2>1, <2>2, ConstantsAssumption
          DEF IInv, Place, Told, Numbering, Named, IsName, TypeOK, Versions, ConstantsAssumption
<1>4. entries' = [entries EXCEPT ![n] = IF @ = 0 THEN version[File(t)] ELSE @]
  BY <1>0 DEF Mount, File
<1>5. /\ entries'[n] = IF entries[n] = 0 THEN version[File(t)] ELSE entries[n]
      /\ \A m \in Names \ {n} : entries'[m] = entries[m]
  BY <1>2, <1>4 DEF IInv, TypeOK
<1>6. \A m \in Names : (entries[m] # 0 => entries'[m] # 0)
  BY <1>5
<1>7. \A m \in Names : Entry(m)'
  <2>1. \A m, f : IsName(m, f)' <=> IsName(m, f)
    BY DEF Mount, simul, IsName
  <2>2. CASE entries[n] = 0
    <3>1. PICK v \in Versions : v <= version[File(t)] /\ n.mtime = Time[File(t)][v]
      BY <1>3 DEF Seen
    <3>2. Entry(n)'
      BY <1>2, <1>3, <1>5, <2>1, <2>2, <3>1 DEF Entry
    <3> QED BY <1>5, <2>1, <3>2 DEF IInv, Entries, Entry
  <2>3. CASE entries[n] # 0
    BY <1>5, <2>1, <2>3 DEF IInv, Entries, Entry
  <2> QED BY <2>2, <2>3
<1>8. \A u \in Threads : pc'[u] = "mounted" => entries'[UniqueID(u)'] # 0
  <2>1. \A u \in Threads : UniqueID(u)' = UniqueID(u)
    BY DEF Mount, UniqueID
  <2>2. entries'[UniqueID(t)] # 0
    BY <1>0, <1>3, <1>5
  <2>3. ASSUME NEW u \in Threads \ {t}, pc'[u] = "mounted"
        PROVE  entries'[UniqueID(u)] # 0
    <3>1. pc[u] = "mounted" /\ Named(u) /\ entries[UniqueID(u)] # 0
      BY <1>1, <2>3 DEF Same, Named, IInv, Entries
    <3>2. UniqueID(u) \in Names
      BY <3>1, NameType DEF IInv
    <3> QED BY <3>1, <3>2, <1>6
  <2> QED BY <2>1, <2>2, <2>3
<1>9. Entries'
  BY <1>7, <1>8 DEF Entries, Names, Times, Versions, Inodes, DevIno
<1>10. Place(t)'
  BY <1>1 DEF IInv, Mount, Place, Told, Seen, Numbering, Named, Locked, File, simul
<1>11. Onward
  BY ConstantsAssumption
     DEF Mount, simul, Onward, IInv, TypeOK, Versions, ConstantsAssumption
<1> QED BY <1>1, <1>9, <1>10, <1>11, OutsideStep DEF Mount, Locked

LEMMA ReplaceStep ==
  ASSUME ConstantsAssumption, IInv, TypeOK', NEW f \in Files, Replace(f)
  PROVE  IInv'
<1>1. \A u \in Threads : Same(u)
  BY DEF Replace, Same
<1>2. Onward
  BY ConstantsAssumption
     DEF Replace, simul, Onward, IInv, TypeOK, Versions, ConstantsAssumption
<1>3. \A u \in Threads : Place(u)'
  BY <1>1, <1>2, OtherPlace DEF IInv, Replace, simul
<1>4. Exclusion' /\ Numbers'
  BY DEF IInv, Exclusion, Numbers, Replace, simul
<1>5. Entries'
  BY DEF IInv, Entries, Entry, IsName, Replace, simul, UniqueID
<1> QED BY <1>3, <1>4, <1>5 DEF IInv

LEMMA RestartStep ==
  ASSUME ConstantsAssumption, IInv, TypeOK', Restart
  PROVE  IInv'
<1>1. \A u \in Threads : pc'[u] = "idle"
  BY DEF Restart
<1>2. Exclusion' /\ Numbers' /\ \A u \in Threads : Place(u)'
  BY <1>1 DEF Restart, Exclusion, Numbers, Place, Told, Numbering, Named, Locked
<1>3. Entries'
  BY <1>1 DEF Entries, Entry, Restart
<1> QED BY <1>2, <1>3 DEF IInv

LEMMA StutterStep ==
  ASSUME IInv, UNCHANGED vars
  PROVE  IInv'
BY DEF vars, simul, IInv, TypeOK, Exclusion, Numbers, Place, Told, Numbering, Named, File,
       Entries, Entry, IsName, Seen, UniqueID

LEMMA NextInv ==
  ASSUME ConstantsAssumption, IInv, [Next]_vars
  PROVE  IInv'
<1>1. TypeOK'
  BY NextType
<1>2. ASSUME NEW t \in Threads, Step(t)
      PROVE  IInv'
  BY <1>1, <1>2, CallStep, StatStep, ReturnStep, LockStep, FindStep, NumberStep, CountStep,
     AddStep, UnlockStep, MountStep
     DEF Step
<1> QED BY <1>1, <1>2, ReplaceStep, RestartStep, StutterStep DEF Next

LEMMA InitInv ==
  ASSUME ConstantsAssumption, Init
  PROVE  IInv
<1>1. TypeOK
  BY InitType
<1>2. Exclusion /\ Numbers /\ (\A t \in Threads : Place(t)) /\ Entries
  BY DEF Init, Exclusion, Numbers, Place, Told, Numbering, Named, Locked, Entries, Entry
<1> QED BY <1>1, <1>2 DEF IInv

LEMMA Invariance == Spec => []IInv
<1>1. Init => IInv
  BY InitInv, ConstantsAssumption
<1>2. IInv /\ [Next]_vars => IInv'
  BY NextInv, ConstantsAssumption
<1> QED BY <1>1, <1>2, PTL DEF Spec

-----------------------------------------------------------------------------
(***************************************************************************)
(* The theorems.                                                           *)
(***************************************************************************)
\* ut_pathUniqueID() keeps its variables, the table and the counter in their types.
THEOREM TypeCorrect == Spec => []TypeOK
<1>1. IInv => TypeOK
  BY DEF IInv
<1> QED BY <1>1, Invariance, PTL

\* ut_pathUniqueID() gives one name to one version of one file, and it to no other,
\* whatever paths lead to the file and whichever threads number files at the time.
THEOREM OneNameCorrect == Spec => []OneName
<1>1. ASSUME IInv, NEW t \in Threads, NEW u \in Threads, Named(t), Named(u)
      PROVE  UniqueID(t) = UniqueID(u) <=> call[t] = call[u] /\ st[t].mtime = st[u].mtime
  <2>1. /\ call[t] \in Calls /\ call[u] \in Calls /\ File(t) \in Files /\ File(u) \in Files
        /\ st[t].dev = Dev[File(t)] /\ st[u].dev = Dev[File(u)]
    BY <1>1 DEF IInv, Named, Place, Told, File, Calls
  <2>2. /\ IF Ino[File(t)] = 0 THEN inode[t] # 0 /\ inode[t] = _ut_simul_inodes[File(t)]
                               ELSE inode[t] = Ino[File(t)]
        /\ IF Ino[File(u)] = 0 THEN inode[u] # 0 /\ inode[u] = _ut_simul_inodes[File(u)]
                               ELSE inode[u] = Ino[File(u)]
    BY <1>1 DEF IInv, Place, Numbering
  <2>3. UniqueID(t) = UniqueID(u) <=>
          /\ call[t].prefix = call[u].prefix
          /\ st[t].dev = st[u].dev
          /\ inode[t] = inode[u]
          /\ st[t].mtime = st[u].mtime
    BY DEF UniqueID, Name
  <2>4. call[t] = call[u] <=> call[t].prefix = call[u].prefix /\ File(t) = File(u)
    BY <2>1 DEF Calls, File
  <2>5. ASSUME st[t].dev = st[u].dev, inode[t] = inode[u]
        PROVE  File(t) = File(u)
    <3>1. Ino[File(t)] = 0 <=> Ino[File(u)] = 0
      BY <2>1, <2>5, ConstantsAssumption DEF ConstantsAssumption
    <3>2. CASE Ino[File(t)] = 0
      BY <2>1, <2>2, <2>5, <3>1, <3>2, <1>1 DEF IInv, Numbers
    <3>3. CASE Ino[File(t)] # 0
      BY <2>1, <2>2, <2>5, <3>1, <3>3, ConstantsAssumption DEF ConstantsAssumption
    <3> QED BY <3>2, <3>3
  <2>6. ASSUME File(t) = File(u)
        PROVE  st[t].dev = st[u].dev /\ inode[t] = inode[u]
    BY <2>1, <2>2, <2>6
  <2> QED BY <2>3, <2>4, <2>5, <2>6
<1>2. IInv => OneName
  BY <1>1 DEF OneName
<1> QED BY <1>2, Invariance, PTL

\* A name is that of one file.
LEMMA OneFile ==
  ASSUME Numbers, NEW n, NEW f \in Files, NEW g \in Files, IsName(n, f), IsName(n, g)
  PROVE  f = g
<1>1. Ino[f] = 0 <=> Ino[g] = 0
  BY ConstantsAssumption DEF IsName, ConstantsAssumption
<1>2. CASE Ino[f] = 0
  BY <1>1, <1>2 DEF IsName, Numbers
<1>3. CASE Ino[f] # 0
  BY <1>1, <1>3, ConstantsAssumption DEF IsName, ConstantsAssumption
<1> QED BY <1>2, <1>3

\* Whatever times the versions of a file have, and in whatever order, a request does not
\* find, under the name that ut_pathUniqueID() made, data of a version older than every
\* version that has the time in the name.
THEOREM FreshCorrect == Spec => []Fresh
<1>1. ASSUME IInv, NEW t \in Threads, pc[t] = "mounted"
      PROVE  \E v \in Versions : Time[File(t)][v] = st[t].mtime /\ entries[UniqueID(t)] >= v
  <2>1. PICK n \in Names : n = UniqueID(t) /\ n.mtime = st[t].mtime
    BY <1>1, NameType DEF IInv, Named
  <2>2. IsName(n, File(t)) /\ File(t) \in Files
    BY <1>1, <2>1 DEF IInv, Place, Told, Numbering, Named, IsName, UniqueID, Name, File, Calls
  <2>3. PICK f \in Files : /\ IsName(n, f)
                          /\ \E v \in Versions : n.mtime = Time[f][v] /\ v <= entries[n]
    BY <1>1, <2>1 DEF IInv, Entries, Entry
  <2>4. f = File(t)
    BY <1>1, <2>2, <2>3, OneFile DEF IInv
  <2>5. entries[n] \in Nat /\ Versions \subseteq Nat
    BY <1>1, ConstantsAssumption DEF IInv, TypeOK, Versions, ConstantsAssumption
  <2> QED BY <2>1, <2>3, <2>4, <2>5
<1>2. IInv => Fresh
  BY <1>1 DEF Fresh, File
<1> QED BY <1>2, Invariance, PTL

\* No step of a running process takes a number away from a file or changes it.
THEOREM NumbersStayCorrect == Spec => NumbersStay
<1> DEFINE Running == \E t \in Threads : pc[t] # "idle"
           Stays == \A f \in Files : _ut_simul_inodes[f] \in {0, _ut_simul_inodes'[f]}
<1>1. ASSUME TypeOK, Next, Running
      PROVE  Stays
  <2>1. ASSUME NEW t \in Threads, Add(t)
        PROVE  Stays
    BY <1>1, <2>1 DEF Add, TypeOK
  <2>2. ASSUME NEW t \in Threads, Step(t), ~Add(t)
        PROVE  Stays
    BY <2>2 DEF Step, Call, Stat, Fail, Lock, Find, Number, Count, Unlock, Mount, EndRequest, simul
  <2>3. ASSUME NEW f \in Files, Replace(f)
        PROVE  Stays
    BY <2>3 DEF Replace, simul
  <2>4. ~Restart
    BY <1>1 DEF Restart
  <2> QED BY <1>1, <2>1, <2>2, <2>3, <2>4 DEF Next
<1>2. TypeOK /\ [Next]_vars => [Running => Stays]_vars
  BY <1>1
<1>3. Spec => [][Next]_vars
  BY DEF Spec
<1> QED BY <1>2, <1>3, TypeCorrect, PTL DEF NumbersStay
=============================================================================
