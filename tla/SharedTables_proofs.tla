------------------------- MODULE SharedTables_proofs -------------------------
(***************************************************************************)
(* Proofs about SharedTables, for any number of threads, packages and map  *)
(* files.                                                                  *)
(***************************************************************************)
EXTENDS SharedTables, TLAPS

\* Where a thread works on a package's entry, and where on a map's.
OnPdata == {"lock", "find", "create", "fill", "populate", "crc", "map", "store"}
OnPmap == {"maplock", "mapfind", "mapcreate"}

\* What a thread is working on, by its place in the code.
Places ==
  \A t \in Threads :
    /\ pc[t] \in OnPdata => mnt[t] \in Mnts
    /\ pc[t] \in OnPmap => mnt[t] \in UFIDs
    /\ pc[t] \in {"idle", "lock", "find", "create"} => pdata[t] = NULL
    /\ pc[t] \in {"fill", "populate", "crc", "map", "store"} => pdata[t] # NULL
    /\ (pc[t] \in OnPmap /\ mnt[t] \in Mnts) => pdata[t] # NULL
    /\ pc[t] = "store" => map[t] # NULL
    /\ pc[t] \notin {"store", "mounted"} => map[t] = NULL
    /\ pdata[t] # NULL => mnt[t] \in Mnts
    /\ map[t] # NULL => mnt[t] \in UFIDs

\* The slow paths are run by one thread, which owns the mutex where there is one,
\* and the entry that is being made is not in the table.
Exclusion ==
  /\ \A t, u \in Threads :
       /\ (pc[t] \in InPdata /\ pc[u] \in InPdata) => t = u
       /\ (pc[t] \in InPmap /\ pc[u] \in InPmap) => t = u
  /\ \A t \in Threads :
       /\ pc[t] \in InPdata => mtab_lock = Locked(t)
       /\ pc[t] \in InPmap => pmap_lock = Locked(t)
       /\ pc[t] = "create" => persistent_mtab[mnt[t]] = NULL
       /\ pc[t] = "mapcreate" => pmap_array[mnt[t]] = NULL

\* A mutex that is lost keeps its owner, and where a thread waits for itself
\* nobody is in its table any more.
LostLocks ==
  /\ "mtab" \in lost =>
       /\ Locking # "none" /\ mtab_lock # NULL
       /\ Locking = "fast" => \A t \in Threads : pc[t] \notin InPdata
  /\ "pmap" \in lost =>
       /\ Locking # "none" /\ pmap_lock # NULL
       /\ Locking = "fast" => \A t \in Threads : pc[t] \notin InPmap

\* An entry that is not complete is one that its maker is filling, or was kept
\* from filling: in that case the mutex, if there is one, is still the maker's.
Incomplete ==
  \A m \in Mnts :
    (persistent_mtab[m] # NULL /\ ~persistent_mtab[m].complete) =>
      LET t == persistent_mtab[m].by IN
      \/ pc[t] = "fill" /\ mnt[t] = m
      \/ /\ m \in cut
         /\ Locking # "none" => mtab_lock = t /\ "mtab" \in lost

\* The map that a package's entry keeps is the one of pmap_array, and the CRC
\* of a package whose entry says init_done has been checked.
EntryFields ==
  \A m \in Mnts : persistent_mtab[m] # NULL =>
    /\ persistent_mtab[m].pmap \in {NULL, pmap_array[m]}
    /\ persistent_mtab[m].init_done => checked[m]

\* CrcChecked, from the moment PHK_init() has passed the check.
PastCrc ==
  \A t \in Threads :
    (pdata[t] # NULL /\ pc[t] \notin {"fill", "populate", "crc"}) => checked[mnt[t]]

IInv == /\ TypeOK /\ Places /\ Exclusion /\ LostLocks /\ Incomplete /\ EntryFields
        /\ SharedEntries /\ EntriesComplete /\ PastCrc

\* The tables are empty and no thread is in them.
LEMMA IInvInit == Init => IInv
<1> SUFFICES ASSUME Init PROVE IInv
  OBVIOUS
<1>1. TypeOK
  BY DEF Init, TypeOK, PCs, Resting
<1>2. Places /\ Exclusion /\ LostLocks
  BY ConstantsAssumption
     DEF Init, Places, Exclusion, LostLocks, OnPdata, OnPmap, InPdata, InPmap
<1>3. Incomplete /\ EntryFields
  BY DEF Init, Incomplete, EntryFields
<1>4. SharedEntries /\ EntriesComplete /\ PastCrc
  BY DEF Init, SharedEntries, EntriesComplete, PastCrc
<1> QED BY <1>1, <1>2, <1>3, <1>4 DEF IInv

\* Setting a field of an entry gives an entry; NULL is none.
LEMMA FieldUpdates ==
  ASSUME NEW e \in PdataType, NEW p \in Threads
  PROVE  /\ [e EXCEPT !.complete = TRUE] \in PdataType
         /\ [e EXCEPT !.init_done = TRUE] \in PdataType
         /\ [e EXCEPT !.pmap = p] \in PdataType
         /\ e # NULL
BY ConstantsAssumption DEF PdataType

\* An entry of the table was made by a thread.
LEMMA Makers ==
  ASSUME TypeOK
  PROVE  \A m \in Mnts : persistent_mtab[m] # NULL => persistent_mtab[m].by \in Threads
BY DEF TypeOK, PdataType

-----------------------------------------------------------------------------
(***************************************************************************)
(* Every action preserves the invariant: one lemma per action, one step    *)
(* per conjunct that the action can disturb.                               *)
(***************************************************************************)
USE DEF IInv, At, Goto, tables, mutexes

\* A thread that starts a mount holds no entry.
LEMMA MountStep ==
  ASSUME IInv, NEW t \in Threads, NEW m \in Mnts, Mount(t, m)
  PROVE  IInv'
<1>1. TypeOK'
  BY DEF Mount, TypeOK, PCs, UFIDs
<1>2. Places'
  BY DEF Mount, TypeOK, Places, OnPmap
<1>3. Exclusion'
  BY DEF Mount, TypeOK, Exclusion, InPdata, InPmap
<1>4. (EntryFields /\ SharedEntries /\ EntriesComplete /\ PastCrc)'
  BY DEF Mount, TypeOK, InPdata, EntryFields, SharedEntries,
       EntriesComplete, PastCrc
<1>i. Incomplete'
  BY Makers, ConstantsAssumption DEF Mount, Resting, TypeOK, Exclusion, Incomplete
<1>l. LostLocks'
  BY ConstantsAssumption
     DEF Mount, TypeOK, Exclusion, LostLocks, Locked, InPdata, InPmap
<1> QED BY <1>1, <1>2, <1>3, <1>4, <1>l, <1>i

\* The mutex was free, or is the thread's already, or there are no others: nobody
\* else is between lock and unlock.
LEMMA LockPdataStep ==
  ASSUME IInv, NEW t \in Threads, LockPdata(t)
  PROVE  IInv'
<1>1. TypeOK'
  BY DEF LockPdata, Locked, TypeOK, PCs, InPdata
<1>2. Places'
  BY DEF LockPdata, Places, OnPdata, OnPmap
<1>3. Exclusion'
  BY ConstantsAssumption DEF LockPdata, Locked, MayLock, TypeOK, Exclusion, InPmap
<1>4. (EntryFields /\ SharedEntries /\ EntriesComplete /\ PastCrc)'
  BY DEF LockPdata, EntryFields, SharedEntries, EntriesComplete,
       PastCrc
<1>i. Incomplete'
  BY Makers, ConstantsAssumption
     DEF LockPdata, Locked, MayLock, TypeOK, Exclusion, LostLocks, Incomplete, InPdata
<1>l. LostLocks'
  BY ConstantsAssumption
     DEF LockPdata, MayLock, TypeOK, Exclusion, LostLocks, Locked, InPdata, InPmap
<1> QED BY <1>1, <1>2, <1>3, <1>4, <1>l, <1>i

\* An entry that is found is complete, since nobody is filling it, or it is one that
\* this thread was kept from filling.
LEMMA FindPdataStep ==
  ASSUME IInv, NEW t \in Threads, FindPdata(t)
  PROVE  IInv'
<1>1. TypeOK'
  BY DEF FindPdata, Unlocked, TypeOK, Places, PCs, InPdata, OnPdata, PdataType
<1>2. Places'
  BY ConstantsAssumption DEF FindPdata, TypeOK, Places, OnPdata, OnPmap, PdataType
<1>3. Exclusion'
  BY DEF FindPdata, Locked, Unlocked, TypeOK, Exclusion, InPdata, InPmap
<1>4. EntriesComplete'
  BY Makers, ConstantsAssumption
     DEF FindPdata, TypeOK, Places, Exclusion, LostLocks, Incomplete, EntriesComplete,
         Locked, OnPdata, InPdata
<1>5. (EntryFields /\ SharedEntries /\ PastCrc)'
  BY DEF FindPdata, InPdata, EntryFields, TypeOK, SharedEntries,
       PastCrc
<1>i. Incomplete'
  BY Makers, ConstantsAssumption
     DEF FindPdata, Unlocked, TypeOK, Exclusion, LostLocks, Incomplete, InPdata
<1>l. LostLocks'
  BY ConstantsAssumption
     DEF FindPdata, Unlocked, TypeOK, Exclusion, LostLocks, Locked, InPdata, InPmap
<1> QED BY <1>1, <1>2, <1>3, <1>4, <1>5, <1>l, <1>i

\* The key had no entry, so that no thread uses the one that is overwritten.
LEMMA CreatePdataStep ==
  ASSUME IInv, NEW t \in Threads, CreatePdata(t)
  PROVE  IInv'
<1>m. Pdata(t) \in PdataType
  BY DEF Pdata, PdataType
<1>n. Pdata(t) \in PdataType /\ Pdata(t) # NULL
  BY <1>m, ConstantsAssumption
<1>1. TypeOK'
  BY <1>n DEF CreatePdata, TypeOK, PCs, InPdata
<1>2. Places'
  BY ConstantsAssumption DEF CreatePdata, TypeOK, Places, OnPdata
<1>3. Exclusion'
  BY DEF CreatePdata, TypeOK, Exclusion, InPdata, InPmap
<1>4. Incomplete'
  BY <1>n, Makers, ConstantsAssumption
     DEF CreatePdata, Pdata, TypeOK, Exclusion, LostLocks, Incomplete, InPdata
<1>5. EntryFields'
  BY DEF CreatePdata, TypeOK, EntryFields, Pdata
<1>6. SharedEntries'
  BY <1>n DEF CreatePdata, TypeOK, Places, Exclusion, SharedEntries, OnPdata, Pdata
<1>7. EntriesComplete'
  BY DEF CreatePdata, TypeOK, Exclusion, SharedEntries, EntriesComplete
<1>8. PastCrc'
  BY DEF CreatePdata, TypeOK, Exclusion, SharedEntries, PastCrc
<1>l. LostLocks'
  BY ConstantsAssumption
     DEF CreatePdata, TypeOK, Exclusion, LostLocks, Locked, InPdata, InPmap
<1> QED BY <1>1, <1>2, <1>3, <1>4, <1>5, <1>6, <1>7, <1>8, <1>l

\* A failed creation inserts nothing.
LEMMA CreatePdataFailsStep ==
  ASSUME IInv, NEW t \in Threads, CreatePdataFails(t)
  PROVE  IInv'
<1>1. TypeOK'
  BY DEF CreatePdataFails, Abort, Unlocked, TypeOK, PCs, Resting
<1>2. Places'
  BY DEF CreatePdataFails, Abort, TypeOK, Places, OnPdata, OnPmap
<1>3. Exclusion'
  BY DEF CreatePdataFails, Locked, Unlocked, Abort, TypeOK, Exclusion, InPdata, InPmap
<1>4. (EntryFields /\ SharedEntries /\ EntriesComplete /\ PastCrc)'
  BY DEF CreatePdataFails, InPdata, EntryFields, Abort, TypeOK,
       SharedEntries, EntriesComplete, PastCrc
<1>i. Incomplete'
  BY Makers, ConstantsAssumption
     DEF CreatePdataFails, Unlocked, Abort, TypeOK, Exclusion, LostLocks,
         Incomplete, InPdata
<1>l. LostLocks'
  BY ConstantsAssumption
     DEF CreatePdataFails, Abort, Unlocked, TypeOK, Exclusion, LostLocks, Locked,
         InPdata, InPmap
<1> QED BY <1>1, <1>2, <1>3, <1>4, <1>l, <1>i

\* The entry becomes complete before the mutex is released.
LEMMA FillPdataStep ==
  ASSUME IInv, NEW t \in Threads, FillPdata(t)
  PROVE  IInv'
<1> DEFINE e == persistent_mtab[mnt[t]]
           f == [e EXCEPT !.complete = TRUE]
<1>e. mnt[t] \in Mnts /\ e \in PdataType /\ e # NULL
  BY DEF FillPdata, TypeOK, Places, SharedEntries, OnPdata
<1>f. f \in PdataType /\ f # NULL
  BY <1>e, FieldUpdates
<1>u. /\ persistent_mtab' = [persistent_mtab EXCEPT ![mnt[t]] = f]
      /\ persistent_mtab' \in [Mnts -> PdataType \cup {NULL}]
  BY <1>e, <1>f DEF FillPdata, TypeOK
<1>1. TypeOK'
  BY <1>f DEF FillPdata, Unlocked, TypeOK, PCs
<1>2. Places'
  BY ConstantsAssumption DEF FillPdata, TypeOK, Places
<1>3. Exclusion'
  BY DEF FillPdata, Locked, Unlocked, TypeOK, Exclusion, InPdata, InPmap
<1>4. Incomplete'
  BY <1>u, <1>f, Makers
     DEF FillPdata, Unlocked, TypeOK, Exclusion, LostLocks, Incomplete, InPdata
<1>5. EntryFields'
  BY <1>e DEF FillPdata, EntryFields
<1>6. SharedEntries'
  BY <1>f DEF FillPdata, SharedEntries
<1>7. EntriesComplete'
  BY <1>u DEF FillPdata, EntriesComplete
<1>8. PastCrc'
  BY DEF FillPdata, PastCrc
<1>l. LostLocks'
  BY ConstantsAssumption
     DEF FillPdata, Unlocked, TypeOK, Exclusion, LostLocks, Locked, InPdata, InPmap
<1> QED BY <1>1, <1>2, <1>3, <1>4, <1>5, <1>6, <1>7, <1>8, <1>l

\* The fault changes neither the tables nor the mutexes.
LEMMA FillPdataFailsStep ==
  ASSUME IInv, NEW t \in Threads, FillPdataFails(t)
  PROVE  IInv'
<1>1. TypeOK'
  BY DEF FillPdataFails, TypeOK
<1>2. (Places /\ Exclusion /\ Incomplete /\ EntryFields)'
  BY DEF FillPdataFails, Places, Exclusion, Incomplete, EntryFields
<1>3. (SharedEntries /\ EntriesComplete /\ PastCrc)'
  BY DEF FillPdataFails, SharedEntries, EntriesComplete, PastCrc
<1>l. LostLocks'
  BY DEF FillPdataFails, LostLocks
<1> QED BY <1>1, <1>2, <1>3, <1>l

\* Reading init_done: if it is set, the CRC has been checked.
LEMMA PopulateStep ==
  ASSUME IInv, NEW t \in Threads, Populate(t)
  PROVE  IInv'
<1>1. TypeOK'
  BY DEF Populate, TypeOK, PCs
<1>2. Places'
  BY ConstantsAssumption DEF Populate, TypeOK, Places
<1>3. Exclusion'
  BY DEF Populate, Exclusion, InPdata, InPmap
<1>4. PastCrc'
  BY DEF Populate, Places, EntryFields, SharedEntries, PastCrc
<1>5. (Incomplete /\ EntryFields /\ SharedEntries /\ EntriesComplete)'
  BY DEF Populate, Incomplete, InPdata, EntryFields, SharedEntries, EntriesComplete
<1>l. LostLocks'
  BY ConstantsAssumption
     DEF Populate, TypeOK, Exclusion, LostLocks, Locked, InPdata, InPmap
<1> QED BY <1>1, <1>2, <1>3, <1>4, <1>5, <1>l

\* init_done is set with the check it stands for.
LEMMA CrcCheckStep ==
  ASSUME IInv, NEW t \in Threads, CrcCheck(t)
  PROVE  IInv'
<1> DEFINE e == persistent_mtab[mnt[t]]
           f == [e EXCEPT !.init_done = TRUE]
<1>e. mnt[t] \in Mnts /\ e \in PdataType /\ e # NULL
  BY DEF CrcCheck, TypeOK, Places, SharedEntries, OnPdata
<1>f. f \in PdataType /\ f # NULL
  BY <1>e, FieldUpdates
<1>1. TypeOK'
  BY <1>e, <1>f DEF CrcCheck, TypeOK, PCs
<1>2. Places'
  BY ConstantsAssumption DEF CrcCheck, TypeOK, Places
<1>3. Exclusion'
  BY <1>e DEF CrcCheck, Exclusion, InPdata, InPmap
<1>4. Incomplete'
  BY <1>e DEF CrcCheck, Incomplete, InPdata
<1>5. EntryFields'
  BY <1>e DEF CrcCheck, TypeOK, EntryFields
<1>6. SharedEntries'
  BY <1>f DEF CrcCheck, SharedEntries
<1>7. PastCrc'
  BY <1>e DEF CrcCheck, TypeOK, PastCrc
<1>8. EntriesComplete'
  BY DEF CrcCheck, EntriesComplete
<1>l. LostLocks'
  BY ConstantsAssumption
     DEF CrcCheck, TypeOK, Exclusion, LostLocks, Locked, InPdata, InPmap
<1> QED BY <1>1, <1>2, <1>3, <1>4, <1>5, <1>6, <1>7, <1>8, <1>l

\* The entry is left as it was.
LEMMA CrcCheckFailsStep ==
  ASSUME IInv, NEW t \in Threads, CrcCheckFails(t)
  PROVE  IInv'
<1>1. TypeOK'
  BY DEF CrcCheckFails, Abort, TypeOK, PCs, Resting
<1>2. Places'
  BY DEF CrcCheckFails, Abort, TypeOK, Places, OnPdata, OnPmap
<1>3. Exclusion'
  BY DEF CrcCheckFails, Abort, Exclusion, InPdata, InPmap
<1>4. (Incomplete /\ EntryFields /\ SharedEntries /\ EntriesComplete /\ PastCrc)'
  BY DEF CrcCheckFails, Abort, Incomplete, InPdata, EntryFields, TypeOK,
       SharedEntries, EntriesComplete, PastCrc
<1>l. LostLocks'
  BY ConstantsAssumption
     DEF CrcCheckFails, Abort, TypeOK, Exclusion, LostLocks, Locked, InPdata, InPmap
<1> QED BY <1>1, <1>2, <1>3, <1>4, <1>l

\* The map kept in the entry is the one of pmap_array.
LEMMA NeedMapStep ==
  ASSUME IInv, NEW t \in Threads, NeedMap(t)
  PROVE  IInv'
<1>1. TypeOK'
  BY DEF NeedMap, TypeOK, Places, SharedEntries, PCs, Resting, PdataType
<1>2. Places'
  BY ConstantsAssumption DEF NeedMap, TypeOK, Places
<1>3. Exclusion'
  BY DEF NeedMap, TypeOK, Exclusion, InPdata, InPmap
<1>4. SharedEntries'
  BY DEF NeedMap, TypeOK, Places, EntryFields, SharedEntries
<1>5. (EntryFields /\ EntriesComplete /\ PastCrc)'
  BY DEF NeedMap, TypeOK, InPdata, EntryFields, EntriesComplete,
       PastCrc
<1>i. Incomplete'
  BY Makers, ConstantsAssumption
     DEF NeedMap, TypeOK, Exclusion, LostLocks, Incomplete, InPdata
<1>l. LostLocks'
  BY ConstantsAssumption
     DEF NeedMap, TypeOK, Exclusion, LostLocks, Locked, InPdata, InPmap
<1> QED BY <1>1, <1>2, <1>3, <1>4, <1>5, <1>l, <1>i

\* Both values that may be kept are the map of pmap_array.
LEMMA StoreMapStep ==
  ASSUME IInv, NEW t \in Threads, StoreMap(t)
  PROVE  IInv'
<1>p. PICK p \in {persistent_mtab[mnt[t]].pmap, map[t]} \ {NULL} :
        persistent_mtab' = [persistent_mtab EXCEPT ![mnt[t]].pmap = p]
  BY DEF StoreMap
<1> DEFINE e == persistent_mtab[mnt[t]]
           f == [e EXCEPT !.pmap = p]
<1>e. mnt[t] \in Mnts /\ e \in PdataType /\ e # NULL
  BY DEF StoreMap, TypeOK, Places, SharedEntries, OnPdata
<1>t. p \in Threads
  BY <1>p, <1>e DEF TypeOK, PdataType
<1>f. f \in PdataType /\ f # NULL
  BY <1>e, <1>t, FieldUpdates
<1>u. /\ persistent_mtab' = [persistent_mtab EXCEPT ![mnt[t]] = f]
      /\ persistent_mtab' \in [Mnts -> PdataType \cup {NULL}]
  BY <1>p, <1>e, <1>f DEF TypeOK
<1>1. TypeOK'
  BY <1>u DEF StoreMap, TypeOK, PCs, Resting
<1>2. Exclusion'
  BY <1>e DEF StoreMap, Exclusion, InPdata, InPmap
<1>3. Incomplete'
  BY <1>e DEF StoreMap, Incomplete, InPdata
<1>4. EntryFields'
  BY <1>e DEF StoreMap, EntryFields, SharedEntries
<1>5. SharedEntries'
  BY <1>f, <1>u DEF StoreMap, SharedEntries
<1>6. (Places /\ EntriesComplete /\ PastCrc)'
  BY DEF StoreMap, Places, EntriesComplete, PastCrc
<1>l. LostLocks'
  BY ConstantsAssumption
     DEF StoreMap, TypeOK, Exclusion, LostLocks, Locked, InPdata, InPmap
<1> QED BY <1>1, <1>2, <1>3, <1>4, <1>5, <1>6, <1>l

\* The thread that loads a map file has no package.
LEMMA LoadFileStep ==
  ASSUME IInv, NEW t \in Threads, NEW f \in Files, LoadFile(t, f)
  PROVE  IInv'
<1>1. TypeOK'
  BY DEF LoadFile, TypeOK, PCs, UFIDs
<1>2. Places'
  BY ConstantsAssumption DEF LoadFile, TypeOK, Places, OnPdata, UFIDs
<1>3. Exclusion'
  BY DEF LoadFile, TypeOK, Exclusion, InPdata, InPmap
<1>4. (EntryFields /\ SharedEntries /\ EntriesComplete /\ PastCrc)'
  BY DEF LoadFile, TypeOK, InPdata, EntryFields, SharedEntries,
       EntriesComplete, PastCrc
<1>i. Incomplete'
  BY Makers, ConstantsAssumption DEF LoadFile, Resting, TypeOK, Exclusion, Incomplete
<1>l. LostLocks'
  BY ConstantsAssumption
     DEF LoadFile, TypeOK, Exclusion, LostLocks, Locked, InPdata, InPmap
<1> QED BY <1>1, <1>2, <1>3, <1>4, <1>l, <1>i

\* Nobody else is between lock and unlock of the maps.
LEMMA LockPmapStep ==
  ASSUME IInv, NEW t \in Threads, LockPmap(t)
  PROVE  IInv'
<1>1. TypeOK'
  BY DEF LockPmap, Locked, TypeOK, PCs, InPmap
<1>2. Places'
  BY DEF LockPmap, Places, OnPdata, OnPmap
<1>3. Exclusion'
  BY ConstantsAssumption DEF LockPmap, Locked, MayLock, TypeOK, Exclusion, InPdata
<1>4. (EntryFields /\ SharedEntries /\ EntriesComplete /\ PastCrc)'
  BY DEF LockPmap, InPdata, EntryFields, SharedEntries,
       EntriesComplete, PastCrc
<1>i. Incomplete'
  BY Makers, ConstantsAssumption
     DEF LockPmap, TypeOK, Exclusion, LostLocks, Incomplete, InPdata
<1>l. LostLocks'
  BY ConstantsAssumption
     DEF LockPmap, MayLock, TypeOK, Exclusion, LostLocks, Locked, InPdata, InPmap
<1> QED BY <1>1, <1>2, <1>3, <1>4, <1>l, <1>i

\* The map that is found is the one of pmap_array.
LEMMA FindPmapStep ==
  ASSUME IInv, NEW t \in Threads, FindPmap(t)
  PROVE  IInv'
<1>1. TypeOK'
  BY DEF FindPmap, Loaded, Unlocked, TypeOK, Places, PCs, Resting, InPmap, OnPmap
<1>2. Places'
  BY DEF FindPmap, Loaded, TypeOK, Places, OnPdata, OnPmap
<1>3. Exclusion'
  BY DEF FindPmap, Locked, Unlocked, Loaded, TypeOK, Exclusion, InPdata, InPmap
<1>4. (EntryFields /\ SharedEntries /\ EntriesComplete /\ PastCrc)'
  BY DEF FindPmap, Loaded, TypeOK, InPdata, EntryFields, SharedEntries,
       EntriesComplete, PastCrc
<1>i. Incomplete'
  BY Makers, ConstantsAssumption
     DEF FindPmap, Loaded, TypeOK, Exclusion, LostLocks, Incomplete, InPdata
<1>l. LostLocks'
  BY ConstantsAssumption
     DEF FindPmap, Loaded, Unlocked, TypeOK, Exclusion, LostLocks, Locked, InPdata,
         InPmap
<1> QED BY <1>1, <1>2, <1>3, <1>4, <1>l, <1>i

\* The key had no map, so that no thread uses the one that is overwritten.
LEMMA CreatePmapStep ==
  ASSUME IInv, NEW t \in Threads, CreatePmap(t)
  PROVE  IInv'
<1>1. TypeOK'
  BY DEF CreatePmap, Loaded, Unlocked, TypeOK, PCs, Resting
<1>2. Places'
  BY ConstantsAssumption DEF CreatePmap, Loaded, TypeOK, Places, OnPdata, OnPmap
<1>3. Exclusion'
  BY DEF CreatePmap, Locked, Unlocked, Loaded, TypeOK, Exclusion, InPdata, InPmap
<1>4. EntryFields'
  BY DEF CreatePmap, Exclusion, EntryFields
<1>5. SharedEntries'
  BY DEF CreatePmap, TypeOK, Places, Exclusion, SharedEntries, OnPmap
<1>6. (EntriesComplete /\ PastCrc)'
  BY DEF CreatePmap, Loaded, InPdata, EntriesComplete, PastCrc
<1>i. Incomplete'
  BY Makers, ConstantsAssumption
     DEF CreatePmap, Loaded, TypeOK, Exclusion, LostLocks, Incomplete, InPdata
<1>l. LostLocks'
  BY ConstantsAssumption
     DEF CreatePmap, Loaded, Unlocked, TypeOK, Exclusion, LostLocks, Locked,
         InPdata, InPmap
<1> QED BY <1>1, <1>2, <1>3, <1>4, <1>5, <1>6, <1>l, <1>i

\* A failed creation inserts nothing and releases the mutex.
LEMMA CreatePmapFailsStep ==
  ASSUME IInv, NEW t \in Threads, CreatePmapFails(t)
  PROVE  IInv'
<1>1. TypeOK'
  BY DEF CreatePmapFails, Abort, Unlocked, TypeOK, PCs, Resting
<1>2. Places'
  BY DEF CreatePmapFails, Abort, TypeOK, Places, OnPdata, OnPmap
<1>3. Exclusion'
  BY DEF CreatePmapFails, Locked, Unlocked, Abort, TypeOK, Exclusion, InPdata, InPmap
<1>4. (EntryFields /\ SharedEntries /\ EntriesComplete /\ PastCrc)'
  BY DEF CreatePmapFails, Abort, InPdata, EntryFields, TypeOK,
       SharedEntries, EntriesComplete, PastCrc
<1>i. Incomplete'
  BY Makers, ConstantsAssumption
     DEF CreatePmapFails, Abort, TypeOK, Exclusion, LostLocks, Incomplete, InPdata
<1>l. LostLocks'
  BY ConstantsAssumption
     DEF CreatePmapFails, Abort, Unlocked, TypeOK, Exclusion, LostLocks, Locked,
         InPdata, InPmap
<1> QED BY <1>1, <1>2, <1>3, <1>4, <1>l, <1>i

\* A thread that ends its request holds no mutex.
LEMMA EndRequestStep ==
  ASSUME IInv, NEW t \in Threads, EndRequest(t)
  PROVE  IInv'
<1>1. TypeOK'
  BY DEF EndRequest, Abort, TypeOK, PCs, Resting
<1>2. Places'
  BY DEF EndRequest, Abort, TypeOK, Places, OnPdata, OnPmap
<1>3. Exclusion'
  BY DEF EndRequest, Abort, Exclusion, InPdata, InPmap
<1>4. (Incomplete /\ EntryFields /\ SharedEntries /\ EntriesComplete /\ PastCrc)'
  BY DEF EndRequest, Abort, Incomplete, InPdata, EntryFields, TypeOK,
       SharedEntries, EntriesComplete, PastCrc
<1>l. LostLocks'
  BY ConstantsAssumption
     DEF EndRequest, Abort, TypeOK, Exclusion, LostLocks, Locked, InPdata, InPmap
<1> QED BY <1>1, <1>2, <1>3, <1>4, <1>l

\* A thread that bails out keeps its mutexes, if there are any: no other thread
\* enters the table any more.
LEMMA BailOutStep ==
  ASSUME IInv, NEW t \in Threads, BailOut(t)
  PROVE  IInv'
<1>1. TypeOK'
  BY DEF BailOut, Abort, TypeOK, PCs, Resting, Places, OnPdata
<1>2. Places'
  BY DEF BailOut, Abort, TypeOK, Places, OnPdata, OnPmap
<1>3. Exclusion'
  BY DEF BailOut, Abort, TypeOK, Exclusion, InPdata, InPmap
<1>4. (EntryFields /\ SharedEntries /\ EntriesComplete /\ PastCrc)'
  BY DEF BailOut, Abort, TypeOK, InPdata, EntryFields, SharedEntries,
       EntriesComplete, PastCrc
<1>i. Incomplete'
  BY Makers, ConstantsAssumption
     DEF BailOut, Abort, Locked, TypeOK, Exclusion, LostLocks, Incomplete, InPdata
<1>l. LostLocks'
  BY ConstantsAssumption
     DEF BailOut, Abort, TypeOK, Exclusion, LostLocks, Locked, InPdata, InPmap
<1> QED BY <1>1, <1>2, <1>3, <1>4, <1>l, <1>i

\* The new process starts with empty tables.
LEMMA RestartStep ==
  ASSUME IInv, Restart
  PROVE  IInv'
<1>1. TypeOK'
  BY DEF Restart, TypeOK, PCs, Resting
<1>2. Places'
  BY DEF Restart, Places, OnPdata, OnPmap
<1>3. Exclusion'
  BY DEF Restart, Exclusion, InPdata, InPmap
<1>4. (Incomplete /\ EntryFields /\ SharedEntries /\ EntriesComplete /\ PastCrc)'
  BY DEF Restart, Incomplete, EntryFields, SharedEntries, EntriesComplete, PastCrc
<1>l. LostLocks'
  BY DEF Restart, LostLocks
<1> QED BY <1>1, <1>2, <1>3, <1>4, <1>l

HIDE DEF IInv

\* IInv is inductive.
LEMMA IInvStep == IInv /\ [Next]_vars => IInv'
<1> SUFFICES ASSUME IInv, [Next]_vars PROVE IInv'
  OBVIOUS
<1>1. CASE UNCHANGED vars
  BY <1>1 DEF vars, IInv, TypeOK, Places, Exclusion, LostLocks, Incomplete, EntryFields,
       SharedEntries, EntriesComplete, PastCrc
<1>2. CASE Restart
  BY <1>2, RestartStep
<1>3. ASSUME NEW t \in Threads,
             \/ \E m \in Mnts : Mount(t, m)
             \/ \E f \in Files : LoadFile(t, f)
             \/ EndRequest(t) \/ BailOut(t)
      PROVE  IInv'
  BY <1>3, MountStep, LoadFileStep, EndRequestStep, BailOutStep
<1>4. ASSUME NEW t \in Threads, PdataStep(t) PROVE IInv'
  BY <1>4, LockPdataStep, FindPdataStep, CreatePdataStep, CreatePdataFailsStep,
     FillPdataStep, FillPdataFailsStep DEF PdataStep
<1>5. ASSUME NEW t \in Threads, InitStep(t) PROVE IInv'
  BY <1>5, PopulateStep, CrcCheckStep, CrcCheckFailsStep, NeedMapStep, StoreMapStep
     DEF InitStep
<1>6. ASSUME NEW t \in Threads, PmapStep(t) PROVE IInv'
  BY <1>6, LockPmapStep, FindPmapStep, CreatePmapStep, CreatePmapFailsStep DEF PmapStep
<1> QED
  BY <1>1, <1>2, <1>3, <1>4, <1>5, <1>6 DEF Next, Step

\* IInv holds in every reachable state.
LEMMA IInvCorrect == Spec => []IInv
  BY IInvInit, IInvStep, PTL DEF Spec

-----------------------------------------------------------------------------
(***************************************************************************)
(* The safety invariants.                                                  *)
(***************************************************************************)
\* The variables have their types: the entry that PHK_Mgr_get_or_create_pdata()
\* inserts before it has all its fields has a cleared init_done and pmap.
THEOREM TypeCorrect == Spec => []TypeOK
<1>1. IInv => TypeOK
  BY DEF IInv
<1> QED BY <1>1, IInvCorrect, PTL

\* However many threads mount packages and load maps, no entry of the two tables
\* is replaced while a thread uses it.
THEOREM SharedEntriesCorrect == Spec => []SharedEntries
<1>1. IInv => SharedEntries
  BY DEF IInv
<1> QED BY <1>1, IInvCorrect, PTL

\* In every build, PHK_Mgr_get_or_create_pdata() never gives a thread an entry that
\* another one has not completed; with the default mutex of pthreads, none at all.
THEOREM EntriesCompleteCorrect == Spec => []EntriesComplete
<1>1. IInv => EntriesComplete
  BY DEF IInv
<1> QED BY <1>1, IInvCorrect, PTL

\* With the default mutex of pthreads, no package is mounted with the entry that a
\* request has left incomplete, as it is without threads or with a recursive mutex:
\* the mutex that was lost with the entry is waited for.
THEOREM EntriesUsableIfFast == Locking = "fast" => (Spec => []EntriesUsable)
<1> SUFFICES ASSUME Locking = "fast" PROVE Spec => []EntriesUsable
  OBVIOUS
<1>1. IInv => EntriesUsable
  BY DEF IInv, EntriesComplete, EntriesUsable
<1> QED BY <1>1, IInvCorrect, PTL

\* PHK_init() may skip crcCheck(), on the word of another thread's init_done:
\* still no package is mounted that no thread has checked.
THEOREM CrcCheckedCorrect == Spec => []CrcChecked
<1>1. IInv => CrcChecked
  BY DEF IInv, PastCrc, CrcChecked
<1> QED BY <1>1, IInvCorrect, PTL

-----------------------------------------------------------------------------
(***************************************************************************)
(* Each of the two tables of SharedTables implements Registry, for any     *)
(* number of threads, packages and map files.                              *)
(***************************************************************************)
\* What a change of the fields of one entry leaves alone.
LEMMA SameEntries ==
  ASSUME TypeOK, NEW k \in Mnts, persistent_mtab[k] # NULL,
         NEW e \in PdataType, e.by = persistent_mtab[k].by,
         persistent_mtab' = [persistent_mtab EXCEPT ![k] = e]
  PROVE  \A m \in Mnts : /\ persistent_mtab'[m] = NULL <=> persistent_mtab[m] = NULL
                         /\ persistent_mtab[m] # NULL =>
                              persistent_mtab'[m].by = persistent_mtab[m].by
BY ConstantsAssumption DEF TypeOK

\* Every step of the threads is a step of the registry of packages, or none.
LEMMA PdataStepRefines ==
  ASSUME IInv, [Next]_vars
  PROVE  [PdataRegistry!Next]_(PdataRegistry!vars)
<1> USE DEF IInv, At, Goto, tables, mutexes
<1>0. CASE UNCHANGED vars
  BY <1>0 DEF vars, PdataRegistry!vars
<1>1. ASSUME NEW t \in Threads, NEW m \in Mnts, Mount(t, m)
      PROVE  PdataRegistry!Ask(t, m)
  BY <1>1 DEF Mount, Resting, TypeOK, PdataRegistry!Ask
<1>2. ASSUME NEW t \in Threads,
             \/ \E f \in Files : LoadFile(t, f)
             \/ CreatePdataFails(t) \/ CrcCheckFails(t) \/ CreatePmapFails(t)
             \/ EndRequest(t) \/ BailOut(t)
      PROVE  PdataRegistry!Leave(t)
  <2>1. pc \in [Threads -> PCs] /\ mnt \in [Threads -> UFIDs \cup {NULL}]
        /\ pdata \in [Threads -> Threads \cup {NULL}]
    BY DEF TypeOK
  <2>2. CASE \E f \in Files : LoadFile(t, f)
    BY <2>1, <2>2 DEF LoadFile, Resting, PdataRegistry!Leave
  <2>3. CASE CreatePdataFails(t)
    BY <2>1, <2>3 DEF CreatePdataFails, Abort, PdataRegistry!Leave
  <2>4. CASE CrcCheckFails(t)
    BY <2>1, <2>4 DEF CrcCheckFails, Abort, PdataRegistry!Leave
  <2>5. CASE CreatePmapFails(t)
    BY <2>1, <2>5 DEF CreatePmapFails, Abort, PdataRegistry!Leave
  <2>6. CASE EndRequest(t)
    BY <2>1, <2>6 DEF EndRequest, Abort, PdataRegistry!Leave
  <2>7. CASE BailOut(t)
    BY <2>1, <2>7 DEF BailOut, Abort, PdataRegistry!Leave
  <2> QED BY <1>2, <2>2, <2>3, <2>4, <2>5, <2>6, <2>7
<1>3. ASSUME NEW t \in Threads, FindPdata(t)
      PROVE  \/ \E k \in Mnts : PdataRegistry!Get(t, k)
             \/ UNCHANGED PdataRegistry!vars
  <2>1. mnt[t] \in Mnts
    BY <1>3 DEF FindPdata, Places, OnPdata
  <2>2. CASE persistent_mtab[mnt[t]] = NULL
    BY <1>3, <2>1, <2>2 DEF FindPdata, TypeOK, PdataRegistry!vars
  <2>3. CASE persistent_mtab[mnt[t]] # NULL
    <3>1. persistent_mtab[mnt[t]].by \in Threads
      BY <2>1, <2>3 DEF TypeOK, PdataType
    <3>2. mnt \in [Threads -> UFIDs \cup {NULL}] /\ pdata \in [Threads -> Threads \cup {NULL}]
          /\ pc \in [Threads -> PCs] /\ DOMAIN persistent_mtab = Mnts
      BY DEF TypeOK
    <3>3. /\ pc[t] = "find" /\ pc' = [pc EXCEPT ![t] = "populate"]
          /\ pdata' = [pdata EXCEPT ![t] = persistent_mtab[mnt[t]].by]
          /\ mnt' = mnt /\ persistent_mtab' = persistent_mtab
      BY <1>3, <2>3 DEF FindPdata
    <3>4. ASSUME NEW k \in Mnts, k = mnt[t] PROVE PdataRegistry!Get(t, k)
      <4> DEFINE asked == [u \in Threads |-> IF pc[u] \in {"lock", "find", "create"}
                                            THEN mnt[u] ELSE NULL]
                 table == [m \in Mnts |-> IF persistent_mtab[m] = NULL
                                          THEN NULL ELSE persistent_mtab[m].by]
      <4> HIDE DEF IInv
      <4>1. asked[t] = k /\ asked' = [asked EXCEPT ![t] = NULL]
        BY <3>2, <3>3, <3>4
      <4>2. table[k] = persistent_mtab[k].by /\ table' = table
        BY <2>3, <3>3, <3>4
      <4>3. table[k] # NULL /\ pdata' = [pdata EXCEPT ![t] = table[k]]
        BY <3>1, <3>3, <3>4, <4>2, ConstantsAssumption DEF ConstantsAssumption
      <4> QED BY <4>1, <4>2, <4>3 DEF PdataRegistry!Get
    <3> QED BY <2>1, <3>4
  <2> QED BY <2>2, <2>3
<1>4. ASSUME NEW t \in Threads, CreatePdata(t)
      PROVE  \E k \in Mnts : PdataRegistry!Create(t, k)
  <2>1. mnt[t] \in Mnts /\ persistent_mtab[mnt[t]] = NULL
    BY <1>4 DEF CreatePdata, Places, Exclusion, OnPdata
  <2>2. Pdata(t) \in PdataType
    BY DEF Pdata, PdataType
  <2>3. Pdata(t) # NULL /\ Pdata(t).by = t
    BY <2>2, ConstantsAssumption DEF Pdata
  <2>4. ASSUME NEW k \in Mnts, k = mnt[t] PROVE PdataRegistry!Create(t, k)
    BY <1>4, <2>1, <2>3, <2>4 DEF CreatePdata, TypeOK, PdataRegistry!Create
  <2> QED BY <2>1, <2>4
<1>5. ASSUME NEW t \in Threads, FillPdata(t) \/ CrcCheck(t) \/ StoreMap(t)
      PROVE  UNCHANGED PdataRegistry!vars
  <2>1. \A m \in Mnts : /\ persistent_mtab'[m] = NULL <=> persistent_mtab[m] = NULL
                        /\ persistent_mtab[m] # NULL =>
                             persistent_mtab'[m].by = persistent_mtab[m].by
    <3> DEFINE e == persistent_mtab[mnt[t]]
    <3>1. mnt[t] \in Mnts /\ e \in PdataType /\ e # NULL
      BY <1>5 DEF FillPdata, CrcCheck, StoreMap, TypeOK, Places, SharedEntries, OnPdata
    <3>2. \E f \in PdataType :
            /\ f.by = e.by
            /\ persistent_mtab' = [persistent_mtab EXCEPT ![mnt[t]] = f]
      <4>1. CASE FillPdata(t)
        <5>1. [e EXCEPT !.complete = TRUE] \in PdataType
          BY <3>1, FieldUpdates
        <5>2. [e EXCEPT !.complete = TRUE].by = e.by
          BY <3>1 DEF PdataType
        <5> QED BY <4>1, <3>1, <5>1, <5>2 DEF FillPdata
      <4>2. CASE CrcCheck(t)
        <5>1. [e EXCEPT !.init_done = TRUE] \in PdataType
          BY <3>1, FieldUpdates
        <5>2. [e EXCEPT !.init_done = TRUE].by = e.by
          BY <3>1 DEF PdataType
        <5> QED BY <4>2, <3>1, <5>1, <5>2 DEF CrcCheck
      <4>3. CASE StoreMap(t)
        <5>1. PICK p \in {e.pmap, map[t]} \ {NULL} :
                persistent_mtab' = [persistent_mtab EXCEPT ![mnt[t]].pmap = p]
          BY <4>3 DEF StoreMap
        <5>2. p \in Threads
          BY <3>1, <5>1 DEF TypeOK, PdataType
        <5>3. [e EXCEPT !.pmap = p] \in PdataType
          BY <3>1, <5>2, FieldUpdates
        <5>4. [e EXCEPT !.pmap = p].by = e.by
          BY <3>1 DEF PdataType
        <5> QED BY <3>1, <5>1, <5>3, <5>4
      <4> QED BY <1>5, <4>1, <4>2, <4>3
    <3> QED
      BY <3>1, <3>2, SameEntries
  <2> QED BY <1>5, <2>1 DEF FillPdata, CrcCheck, StoreMap, TypeOK, PdataRegistry!vars
<1>6. ASSUME NEW t \in Threads,
             \/ LockPdata(t) \/ FillPdataFails(t) \/ Populate(t) \/ NeedMap(t)
             \/ LockPmap(t) \/ FindPmap(t) \/ CreatePmap(t)
      PROVE  UNCHANGED PdataRegistry!vars
  BY <1>6 DEF LockPdata, FillPdataFails, Populate, NeedMap, LockPmap, FindPmap,
       CreatePmap, Loaded, TypeOK, PdataRegistry!vars
<1>7. CASE Restart
  BY <1>7 DEF Restart, PdataRegistry!Restart, PdataRegistry!Next
<1> QED
  <2> HIDE DEF IInv, At, Goto, tables, mutexes
  <2> DEFINE Ok == [PdataRegistry!Next]_(PdataRegistry!vars)
  <2>1. \A t \in Threads : PdataRegistry!Leave(t) => Ok
    BY DEF PdataRegistry!Next
  <2>2. \A t \in Threads, k \in Mnts :
          PdataRegistry!Ask(t, k) \/ PdataRegistry!Create(t, k) \/ PdataRegistry!Get(t, k) => Ok
    BY DEF PdataRegistry!Next
  <2>3. UNCHANGED PdataRegistry!vars => Ok
    OBVIOUS
  <2> HIDE DEF Ok
  <2>4. ASSUME NEW t \in Threads, NEW m \in Mnts, Mount(t, m) PROVE Ok
    BY <2>4, <1>1, <2>2
  <2>5. ASSUME NEW t \in Threads,
               \/ \E f \in Files : LoadFile(t, f)
               \/ EndRequest(t) \/ BailOut(t)
        PROVE  Ok
    BY <2>5, <1>2, <2>1
  <2>6. ASSUME NEW t \in Threads, PdataStep(t) PROVE Ok
    <3>1. CASE FindPdata(t)
      BY <3>1, <1>3, <2>2, <2>3
    <3>2. CASE CreatePdata(t)
      BY <3>2, <1>4, <2>2
    <3> QED
      BY <2>6, <3>1, <3>2, <1>2, <1>5, <1>6, <2>1, <2>3 DEF PdataStep
  <2>7. ASSUME NEW t \in Threads, InitStep(t) PROVE Ok
    BY <2>7, <1>2, <1>5, <1>6, <2>1, <2>3 DEF InitStep
  <2>8. ASSUME NEW t \in Threads, PmapStep(t) PROVE Ok
    BY <2>8, <1>2, <1>6, <2>1, <2>3 DEF PmapStep
  <2>9. Restart \/ UNCHANGED vars => Ok
    BY <1>0, <1>7 DEF Ok
  <2>10. Ok
    BY <2>4, <2>5, <2>6, <2>7, <2>8, <2>9 DEF Next, Step
  <2> QED BY <2>10 DEF Ok

\* PHK_Mgr_get_or_create_pdata() implements Registry: the steps in which a thread
\* looks for an entry, does not find it and makes it are one step to the others.
THEOREM PdataRefinement == Spec => PdataIsRegistry
<1>1. Init => PdataRegistry!Init
  BY ConstantsAssumption DEF Init, PdataRegistry!Init
<1>2. IInv /\ [Next]_vars => [PdataRegistry!Next]_(PdataRegistry!vars)
  BY PdataStepRefines
<1> QED
  BY <1>1, <1>2, IInvCorrect, PTL DEF Spec, PdataIsRegistry, PdataRegistry!Spec

\* Every step of the threads is a step of the registry of maps, or none.
LEMMA PmapStepRefines ==
  ASSUME IInv, [Next]_vars
  PROVE  [PmapRegistry!Next]_(PmapRegistry!vars)
<1> USE DEF IInv, At, Goto, tables, mutexes
<1>0. CASE UNCHANGED vars
  BY <1>0 DEF vars, PmapRegistry!vars
<1>1. ASSUME NEW t \in Threads, NEW f \in Files, LoadFile(t, f)
      PROVE  PmapRegistry!Ask(t, f)
  BY <1>1 DEF LoadFile, Resting, TypeOK, PmapRegistry!Ask
<1>2. ASSUME NEW t \in Threads,
             \/ \E m \in Mnts : Mount(t, m)
             \/ CreatePdataFails(t) \/ CrcCheckFails(t) \/ CreatePmapFails(t)
             \/ EndRequest(t) \/ BailOut(t)
      PROVE  PmapRegistry!Leave(t)
  BY <1>2 DEF Mount, CreatePdataFails, CrcCheckFails, CreatePmapFails, EndRequest,
       BailOut, Abort, Resting, TypeOK, PmapRegistry!Leave
<1>3. ASSUME NEW t \in Threads, NeedMap(t)
      PROVE  \/ \E k \in UFIDs : PmapRegistry!Ask(t, k) \/ PmapRegistry!Get(t, k)
             \/ UNCHANGED PmapRegistry!vars
  <2>1. /\ mnt[t] \in Mnts /\ map[t] = NULL
        /\ persistent_mtab[mnt[t]] # NULL
        /\ persistent_mtab[mnt[t]] \in PdataType
        /\ persistent_mtab[mnt[t]].pmap \in {NULL, pmap_array[mnt[t]]}
    BY <1>3 DEF NeedMap, Places, OnPdata, SharedEntries, EntryFields, TypeOK
  <2> DEFINE noMap == mnt[t] \notin HasMap \/ ~persistent_mtab[mnt[t]].complete
  <2>2. CASE noMap
    BY <1>3, <2>1, <2>2 DEF NeedMap, TypeOK, PmapRegistry!vars
  <2>3. CASE ~noMap /\ persistent_mtab[mnt[t]].pmap = NULL
    <3>1. ASSUME NEW k \in Mnts, k = mnt[t] PROVE PmapRegistry!Ask(t, k)
      BY <1>3, <2>1, <2>3, <3>1 DEF NeedMap, TypeOK, PmapRegistry!Ask
    <3> QED BY <2>1, <3>1 DEF UFIDs
  <2>4. CASE ~noMap /\ persistent_mtab[mnt[t]].pmap # NULL
    <3>1. ASSUME NEW k \in Mnts, k = mnt[t] PROVE PmapRegistry!Get(t, k)
      BY <1>3, <2>1, <2>4, <3>1 DEF NeedMap, TypeOK, PmapRegistry!Get
    <3> QED BY <2>1, <3>1 DEF UFIDs
  <2> QED BY <2>2, <2>3, <2>4
<1>4. ASSUME NEW t \in Threads, FindPmap(t)
      PROVE  \/ \E k \in UFIDs : PmapRegistry!Get(t, k)
             \/ UNCHANGED PmapRegistry!vars
  <2>1. mnt[t] \in UFIDs
    BY <1>4 DEF FindPmap, Places, OnPmap
  <2>2. CASE pmap_array[mnt[t]] = NULL
    BY <1>4, <2>1, <2>2 DEF FindPmap, TypeOK, PmapRegistry!vars
  <2>3. CASE pmap_array[mnt[t]] # NULL
    <3>1. ASSUME NEW k \in UFIDs, k = mnt[t] PROVE PmapRegistry!Get(t, k)
      BY <1>4, <2>3, <3>1 DEF FindPmap, Loaded, TypeOK, PmapRegistry!Get
    <3> QED BY <2>1, <3>1
  <2> QED BY <2>2, <2>3
<1>5. ASSUME NEW t \in Threads, CreatePmap(t)
      PROVE  \E k \in UFIDs : PmapRegistry!Create(t, k)
  <2>1. mnt[t] \in UFIDs /\ pmap_array[mnt[t]] = NULL
    BY <1>5 DEF CreatePmap, Places, Exclusion, OnPmap
  <2>2. ASSUME NEW k \in UFIDs, k = mnt[t] PROVE PmapRegistry!Create(t, k)
    BY <1>5, <2>1, <2>2 DEF CreatePmap, Loaded, TypeOK, PmapRegistry!Create
  <2> QED BY <2>1, <2>2
<1>6. ASSUME NEW t \in Threads,
             \/ LockPdata(t) \/ FindPdata(t) \/ CreatePdata(t) \/ FillPdata(t)
             \/ FillPdataFails(t) \/ Populate(t) \/ CrcCheck(t) \/ StoreMap(t)
             \/ LockPmap(t)
      PROVE  UNCHANGED PmapRegistry!vars
  BY <1>6 DEF LockPdata, FindPdata, CreatePdata, FillPdata, FillPdataFails, Populate,
       CrcCheck, StoreMap, LockPmap, TypeOK, PmapRegistry!vars
<1>7. CASE Restart
  BY <1>7 DEF Restart, PmapRegistry!Restart, PmapRegistry!Next
<1> QED
  <2> HIDE DEF IInv, At, Goto, tables, mutexes
  <2> DEFINE Ok == [PmapRegistry!Next]_(PmapRegistry!vars)
  <2>1. \A t \in Threads : PmapRegistry!Leave(t) => Ok
    BY DEF PmapRegistry!Next
  <2>2. \A t \in Threads, k \in UFIDs :
          PmapRegistry!Ask(t, k) \/ PmapRegistry!Create(t, k) \/ PmapRegistry!Get(t, k) => Ok
    BY DEF PmapRegistry!Next
  <2>3. UNCHANGED PmapRegistry!vars => Ok
    OBVIOUS
  <2> HIDE DEF Ok
  <2>4. ASSUME NEW t \in Threads, NEW f \in Files, LoadFile(t, f) PROVE Ok
    BY <2>4, <1>1, <2>2 DEF UFIDs
  <2>5. ASSUME NEW t \in Threads,
               \/ \E m \in Mnts : Mount(t, m)
               \/ EndRequest(t) \/ BailOut(t)
        PROVE  Ok
    BY <2>5, <1>2, <2>1
  <2>6. ASSUME NEW t \in Threads, PdataStep(t) PROVE Ok
    BY <2>6, <1>2, <1>6, <2>1, <2>3 DEF PdataStep
  <2>7. ASSUME NEW t \in Threads, InitStep(t) PROVE Ok
    <3>1. CASE NeedMap(t)
      BY <3>1, <1>3, <2>2, <2>3
    <3> QED
      BY <2>7, <3>1, <1>2, <1>6, <2>1, <2>3 DEF InitStep
  <2>8. ASSUME NEW t \in Threads, PmapStep(t) PROVE Ok
    <3>1. CASE FindPmap(t)
      BY <3>1, <1>4, <2>2, <2>3
    <3>2. CASE CreatePmap(t)
      BY <3>2, <1>5, <2>2
    <3> QED
      BY <2>8, <3>1, <3>2, <1>2, <1>6, <2>1, <2>3 DEF PmapStep
  <2>9. Restart \/ UNCHANGED vars => Ok
    BY <1>0, <1>7 DEF Ok
  <2>10. Ok
    BY <2>4, <2>5, <2>6, <2>7, <2>8, <2>9 DEF Next, Step
  <2> QED BY <2>10 DEF Ok

\* Automap_Pmap_get_or_create_extended() implements Registry, together with the
\* pointer to the map that PHK_init() keeps in the package's entry.
THEOREM PmapRefinement == Spec => PmapIsRegistry
<1>1. Init => PmapRegistry!Init
  BY ConstantsAssumption DEF Init, PmapRegistry!Init
<1>2. IInv /\ [Next]_vars => [PmapRegistry!Next]_(PmapRegistry!vars)
  BY PmapStepRefines
<1> QED
  BY <1>1, <1>2, IInvCorrect, PTL DEF Spec, PmapIsRegistry, PmapRegistry!Spec
=============================================================================
