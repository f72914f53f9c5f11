---------------------------- MODULE SharedTables ----------------------------
(***************************************************************************)
(* The two tables that the threads of a process share: persistent_mtab,    *)
(* the data of every package ever mounted (PHK_Mgr_get_or_create_pdata),   *)
(* and pmap_array, the contents of every map ever loaded                   *)
(* (Automap_Pmap_get_or_create_extended).  Each has a mutex, held while    *)
(* PHP code makes an entry.  PHK_init() goes on without one: it checks the *)
(* CRC of the package unless init_done, and keeps in the package's entry a *)
(* pointer to its map.                                                     *)
(*                                                                         *)
(* What a mutex is depends on the build: see Locking.  Entries are updated *)
(* in place by the hash table, so a pointer to an entry is its key; an     *)
(* entry records the thread that made it, to tell whether it was replaced. *)
(***************************************************************************)
EXTENDS Naturals

CONSTANTS
  Threads,
  Mnts,      \* mount points of the packages; also the UFIDs of their maps
  Files,     \* UFIDs of the map files that are in no package
  HasMap,    \* packages whose buildInfo says map_defined
  Locking,   \* "fast": ZTS, a thread waits for itself (the default of pthreads);
             \* "recursive": ZTS, it does not (a Windows CRITICAL_SECTION);
             \* "none": without ZTS the macros are empty, and there is one thread
  NULL

\* PHK_Pdata, in so far as it changes: who made it, whether all its fields are
\* set, init_done and pmap.
PdataType ==
  [by : Threads, complete : BOOLEAN, init_done : BOOLEAN, pmap : Threads \cup {NULL}]

ASSUME ConstantsAssumption ==
  /\ Mnts \cap Files = {}
  /\ HasMap \subseteq Mnts
  /\ Locking \in {"fast", "recursive", "none"}
  /\ Locking = "none" => \A t, u \in Threads : t = u
  /\ NULL \notin Threads \cup Mnts \cup Files \cup PdataType

VARIABLES
  persistent_mtab,  \* mount point -> PHK_Pdata, or NULL
  pmap_array,       \* UFID -> who made the Automap_Pmap, or NULL
  mtab_lock,        \* owner of the mutex of persistent_mtab, or NULL
  pmap_lock,        \* owner of the mutex of pmap_array, or NULL
  pc,               \* where each thread is
  mnt,              \* the mount point or UFID it works on
  pdata,            \* who made the PHK_Pdata that its PHK_Mnt points to
  map,              \* who made the Automap_Pmap that its Automap_Mnt points to
  checked,          \* mount point -> a CRC check has passed since it has an entry
  lost,             \* mutexes whose owner has abandoned its request
  cut,              \* packages whose entry was being filled when that happened
  fault             \* buildInfo was used as an array, which it is not

vars == <<persistent_mtab, pmap_array, mtab_lock, pmap_lock, pc, mnt, pdata, map,
          checked, lost, cut, fault>>
mutexes == <<mtab_lock, pmap_lock, lost>>
tables == <<persistent_mtab, pmap_array, checked, cut>>

UFIDs == Mnts \cup Files

\* Where a thread holds the mutex of persistent_mtab, and that of pmap_array.
InPdata == {"find", "create", "fill"}
InPmap == {"mapfind", "mapcreate"}
\* Where it runs PHP code, which may throw or end the request.
InPHP == {"create", "fill", "crc", "mapcreate"}
Resting == {"idle", "mounted"}
PCs == Resting \cup InPdata \cup InPmap \cup {"lock", "populate", "crc", "map", "maplock", "store"}

\* Mutant: the new entry is not cleared.
Pdata_NotCleared(t) ==
  [by |-> t, complete |-> FALSE, init_done |-> FALSE, pmap |-> "garbage"]

Pdata(t) ==
  [by |-> t, complete |-> FALSE, init_done |-> FALSE, pmap |-> NULL]

Init ==
  /\ persistent_mtab = [m \in Mnts |-> NULL]
  /\ pmap_array = [u \in UFIDs |-> NULL]
  /\ mtab_lock = NULL
  /\ pmap_lock = NULL
  /\ pc = [t \in Threads |-> "idle"]
  /\ mnt = [t \in Threads |-> NULL]
  /\ pdata = [t \in Threads |-> NULL]
  /\ map = [t \in Threads |-> NULL]
  /\ checked = [m \in Mnts |-> FALSE]
  /\ lost = {}
  /\ cut = {}
  /\ fault = FALSE

\* MutexLock() and MutexUnlock(): whether a thread that asks for a mutex gets it,
\* who has it then, and who has it once it is released.  A recursive mutex whose
\* owner has lost count of it is never free again.
MayLock(mutex, t) ==
  \/ Locking = "none"
  \/ mutex = NULL
  \/ Locking = "recursive" /\ mutex = t
Locked(t) == IF Locking = "none" THEN NULL ELSE t
Unlocked(name, mutex) == IF name \in lost THEN mutex ELSE NULL

Goto(t, where) == pc' = [pc EXCEPT ![t] = where]
At(t, where) == ~fault /\ pc[t] = where

\* The mount or the load is over, with an exception or with the request.
Abort(t) ==
  /\ Goto(t, "idle")
  /\ mnt' = [mnt EXCEPT ![t] = NULL]
  /\ pdata' = [pdata EXCEPT ![t] = NULL]
  /\ map' = [map EXCEPT ![t] = NULL]

-----------------------------------------------------------------------------
(***************************************************************************)
(* PHK_Mgr_get_or_create_pdata().                                          *)
(***************************************************************************)
\* A thread mounts a package its request has not mounted yet.
Mount(t, m) ==
  /\ ~fault /\ pc[t] \in Resting
  /\ Goto(t, "lock")
  /\ mnt' = [mnt EXCEPT ![t] = m]
  /\ pdata' = [pdata EXCEPT ![t] = NULL]
  /\ map' = [map EXCEPT ![t] = NULL]
  /\ UNCHANGED <<tables, mutexes, fault>>

LockPdata(t) ==
  /\ At(t, "lock")
  /\ MayLock(mtab_lock, t)
  /\ mtab_lock' = Locked(t)
  /\ Goto(t, "find")
  /\ UNCHANGED <<tables, pmap_lock, mnt, pdata, map, lost, fault>>

\* Mutant: 'get' and 'create' take the mutex separately.
FindPdata_Separate(t) ==
  /\ At(t, "find")
  /\ mtab_lock' = NULL
  /\ LET entry == persistent_mtab[mnt[t]] IN
     IF entry # NULL
     THEN pdata' = [pdata EXCEPT ![t] = entry.by] /\ Goto(t, "populate")
     ELSE Goto(t, "create") /\ UNCHANGED pdata
  /\ UNCHANGED <<tables, pmap_lock, mnt, map, lost, fault>>

FindPdata(t) ==
  /\ At(t, "find")
  /\ LET entry == persistent_mtab[mnt[t]] IN
     IF entry # NULL
     THEN /\ pdata' = [pdata EXCEPT ![t] = entry.by]
          /\ mtab_lock' = Unlocked("mtab", mtab_lock)
          /\ Goto(t, "populate")
     ELSE Goto(t, "create") /\ UNCHANGED <<pdata, mtab_lock>>
  /\ UNCHANGED <<tables, pmap_lock, mnt, map, lost, fault>>

\* Mutant: the mutex is released once the entry is inserted.
CreatePdata_Unlocks(t) ==
  /\ At(t, "create")
  /\ persistent_mtab' = [persistent_mtab EXCEPT ![mnt[t]] = Pdata(t)]
  /\ checked' = [checked EXCEPT ![mnt[t]] = FALSE]
  /\ pdata' = [pdata EXCEPT ![t] = t]
  /\ mtab_lock' = NULL
  /\ Goto(t, "fill")
  /\ UNCHANGED <<pmap_array, pmap_lock, lost, cut, mnt, map, fault>>

\* The PHP runtime reads the minimal version and the options of the package,
\* which are checked; then the entry is inserted, still empty.
CreatePdata(t) ==
  /\ At(t, "create")
  /\ persistent_mtab' = [persistent_mtab EXCEPT ![mnt[t]] = Pdata(t)]
  /\ checked' = [checked EXCEPT ![mnt[t]] = FALSE]
  /\ pdata' = [pdata EXCEPT ![t] = t]
  /\ Goto(t, "fill")
  /\ UNCHANGED <<pmap_array, mutexes, cut, mnt, map, fault>>

\* Mutant: the entry is inserted before the checks.
CreatePdataFails_Inserted(t) ==
  /\ At(t, "create")
  /\ persistent_mtab' = [persistent_mtab EXCEPT ![mnt[t]] = Pdata(t)]
  /\ mtab_lock' = NULL
  /\ Abort(t)
  /\ UNCHANGED <<pmap_array, checked, pmap_lock, lost, cut, fault>>

CreatePdataFails(t) ==
  /\ At(t, "create")
  /\ mtab_lock' = Unlocked("mtab", mtab_lock)
  /\ Abort(t)
  /\ UNCHANGED <<tables, pmap_lock, lost, fault>>

\* getBuildInfo(), the shortcuts and the computed URIs.
FillPdata(t) ==
  /\ At(t, "fill")
  /\ persistent_mtab' = [persistent_mtab EXCEPT ![mnt[t]].complete = TRUE]
  /\ mtab_lock' = Unlocked("mtab", mtab_lock)
  /\ Goto(t, "populate")
  /\ UNCHANGED <<pmap_array, pmap_lock, mnt, pdata, map, checked, lost, cut, fault>>

\* getBuildInfo() throws: its result is used all the same.
FillPdataFails(t) ==
  /\ At(t, "fill")
  /\ fault' = TRUE
  /\ UNCHANGED <<tables, mutexes, pc, mnt, pdata, map>>

-----------------------------------------------------------------------------
(***************************************************************************)
(* PHK_Mgr_populate_pdata() and PHK_init(), without a mutex.               *)
(***************************************************************************)
Populate(t) ==
  /\ At(t, "populate")
  /\ Goto(t, IF persistent_mtab[mnt[t]].init_done THEN "map" ELSE "crc")
  /\ UNCHANGED <<tables, mutexes, mnt, pdata, map, fault>>

CrcCheck(t) ==
  /\ At(t, "crc")
  /\ persistent_mtab' = [persistent_mtab EXCEPT ![mnt[t]].init_done = TRUE]
  /\ checked' = [checked EXCEPT ![mnt[t]] = TRUE]
  /\ Goto(t, "map")
  /\ UNCHANGED <<pmap_array, mutexes, cut, mnt, pdata, map, fault>>

\* Mutant: the exception is not looked at.
CrcCheckFails_Ignored(t) ==
  /\ At(t, "crc")
  /\ Goto(t, "map")
  /\ UNCHANGED <<tables, mutexes, mnt, pdata, map, fault>>

CrcCheckFails(t) ==
  /\ At(t, "crc")
  /\ Abort(t)
  /\ UNCHANGED <<tables, mutexes, fault>>

\* The map comes from the package's entry when it is there.  Without buildInfo
\* the entry has no automapURI, and the package no map.
NeedMap(t) ==
  /\ At(t, "map")
  /\ LET entry == persistent_mtab[mnt[t]] IN
     IF mnt[t] \notin HasMap \/ ~entry.complete
     THEN Goto(t, "mounted") /\ UNCHANGED map
     ELSE IF entry.pmap = NULL
     THEN Goto(t, "maplock") /\ UNCHANGED map
     ELSE Goto(t, "store") /\ map' = [map EXCEPT ![t] = entry.pmap]
  /\ UNCHANGED <<tables, mutexes, mnt, pdata, fault>>

\* if (!pdata->pmap) pdata->pmap=map; the test may be older than what another
\* thread has just written.
StoreMap(t) ==
  /\ At(t, "store")
  /\ \E pmap \in {persistent_mtab[mnt[t]].pmap, map[t]} \ {NULL} :
       persistent_mtab' = [persistent_mtab EXCEPT ![mnt[t]].pmap = pmap]
  /\ Goto(t, "mounted")
  /\ UNCHANGED <<pmap_array, mutexes, mnt, pdata, map, checked, cut, fault>>

-----------------------------------------------------------------------------
(***************************************************************************)
(* Automap_Pmap_get_or_create_extended().                                  *)
(***************************************************************************)
\* Automap\Mgr::load() of a map file.
LoadFile(t, f) ==
  /\ ~fault /\ pc[t] \in Resting
  /\ Goto(t, "maplock")
  /\ mnt' = [mnt EXCEPT ![t] = f]
  /\ pdata' = [pdata EXCEPT ![t] = NULL]
  /\ map' = [map EXCEPT ![t] = NULL]
  /\ UNCHANGED <<tables, mutexes, fault>>

LockPmap(t) ==
  /\ At(t, "maplock")
  /\ MayLock(pmap_lock, t)
  /\ pmap_lock' = Locked(t)
  /\ Goto(t, "mapfind")
  /\ UNCHANGED <<tables, mtab_lock, mnt, pdata, map, lost, fault>>

Loaded(t) == Goto(t, IF mnt[t] \in Mnts THEN "store" ELSE "mounted")

\* Mutant: 'get' and 'create' take the mutex separately.
FindPmap_Separate(t) ==
  /\ At(t, "mapfind")
  /\ pmap_lock' = NULL
  /\ IF pmap_array[mnt[t]] # NULL
     THEN map' = [map EXCEPT ![t] = pmap_array[mnt[t]]] /\ Loaded(t)
     ELSE Goto(t, "mapcreate") /\ UNCHANGED map
  /\ UNCHANGED <<tables, mtab_lock, mnt, pdata, lost, fault>>

FindPmap(t) ==
  /\ At(t, "mapfind")
  /\ IF pmap_array[mnt[t]] # NULL
     THEN /\ map' = [map EXCEPT ![t] = pmap_array[mnt[t]]]
          /\ pmap_lock' = Unlocked("pmap", pmap_lock)
          /\ Loaded(t)
     ELSE Goto(t, "mapcreate") /\ UNCHANGED <<map, pmap_lock>>
  /\ UNCHANGED <<tables, mtab_lock, mnt, pdata, lost, fault>>

\* new Automap\Map, _peclGetMap(), then the map is inserted.
CreatePmap(t) ==
  /\ At(t, "mapcreate")
  /\ pmap_array' = [pmap_array EXCEPT ![mnt[t]] = t]
  /\ map' = [map EXCEPT ![t] = t]
  /\ pmap_lock' = Unlocked("pmap", pmap_lock)
  /\ Loaded(t)
  /\ UNCHANGED <<persistent_mtab, mtab_lock, mnt, pdata, checked, lost, cut, fault>>

\* Mutant: the abort leaves the mutex locked.
CreatePmapFails_Locked(t) ==
  /\ At(t, "mapcreate")
  /\ Abort(t)
  /\ UNCHANGED <<tables, mutexes, fault>>

CreatePmapFails(t) ==
  /\ At(t, "mapcreate")
  /\ pmap_lock' = Unlocked("pmap", pmap_lock)
  /\ Abort(t)
  /\ UNCHANGED <<tables, mtab_lock, lost, fault>>

-----------------------------------------------------------------------------
(***************************************************************************)
(* The request ends; exit(), a fatal error or a time limit end it anywhere *)
(* in PHP code, in which case no mutex is released and no entry taken out  *)
(* of the table.                                                           *)
(***************************************************************************)
EndRequest(t) ==
  /\ ~fault /\ pc[t] = "mounted"
  /\ Abort(t)
  /\ UNCHANGED <<tables, mutexes, fault>>

BailOut(t) ==
  /\ ~fault /\ pc[t] \in InPHP
  /\ lost' = lost \cup {name \in {"mtab", "pmap"} :
                         /\ Locking # "none"
                         /\ \/ name = "mtab" /\ pc[t] \in InPdata
                            \/ name = "pmap" /\ pc[t] \in InPmap}
  /\ cut' = IF pc[t] = "fill" THEN cut \cup {mnt[t]} ELSE cut
  /\ Abort(t)
  /\ UNCHANGED <<persistent_mtab, pmap_array, checked, mtab_lock, pmap_lock, fault>>

\* The process has crashed, or is killed because its threads are stuck.
Restart ==
  /\ fault \/ lost # {}
  /\ persistent_mtab' = [m \in Mnts |-> NULL]
  /\ pmap_array' = [u \in UFIDs |-> NULL]
  /\ mtab_lock' = NULL
  /\ pmap_lock' = NULL
  /\ pc' = [t \in Threads |-> "idle"]
  /\ mnt' = [t \in Threads |-> NULL]
  /\ pdata' = [t \in Threads |-> NULL]
  /\ map' = [t \in Threads |-> NULL]
  /\ checked' = [m \in Mnts |-> FALSE]
  /\ lost' = {}
  /\ cut' = {}
  /\ fault' = FALSE

PdataStep(t) ==
  \/ LockPdata(t) \/ FindPdata(t) \/ CreatePdata(t) \/ CreatePdataFails(t)
  \/ FillPdata(t) \/ FillPdataFails(t)
InitStep(t) ==
  Populate(t) \/ CrcCheck(t) \/ CrcCheckFails(t) \/ NeedMap(t) \/ StoreMap(t)
PmapStep(t) ==
  LockPmap(t) \/ FindPmap(t) \/ CreatePmap(t) \/ CreatePmapFails(t)

\* What a thread does without being asked to.
Step(t) == PdataStep(t) \/ InitStep(t) \/ PmapStep(t)

Next ==
  \/ \E t \in Threads :
       \/ (\E m \in Mnts : Mount(t, m)) \/ (\E f \in Files : LoadFile(t, f))
       \/ Step(t) \/ EndRequest(t) \/ BailOut(t)
  \/ Restart

Spec == Init /\ [][Next]_vars

\* Every thread is scheduled, and the PHP code it runs returns or throws.
FairSpec == Spec /\ \A t \in Threads : WF_vars(Step(t))

-----------------------------------------------------------------------------
(***************************************************************************)
(* Properties.                                                             *)
(***************************************************************************)
\* The variables have their types; the entries that PHK_Mgr_get_or_create_pdata()
\* inserts have been cleared.
TypeOK ==
  /\ persistent_mtab \in [Mnts -> PdataType \cup {NULL}]
  /\ pmap_array \in [UFIDs -> Threads \cup {NULL}]
  /\ mtab_lock \in Threads \cup {NULL}
  /\ pmap_lock \in Threads \cup {NULL}
  /\ pc \in [Threads -> PCs]
  /\ mnt \in [Threads -> UFIDs \cup {NULL}]
  /\ pdata \in [Threads -> Threads \cup {NULL}]
  /\ map \in [Threads -> Threads \cup {NULL}]
  /\ checked \in [Mnts -> BOOLEAN]
  /\ lost \subseteq {"mtab", "pmap"}
  /\ cut \subseteq Mnts
  /\ fault \in BOOLEAN

\* The entry that a thread got from a table is the one that is there, for as
\* long as the thread uses it: whoever looks for it in the meantime finds the
\* same, and no other thread overwrites it.
SharedEntries ==
  \A t \in Threads :
    /\ pdata[t] # NULL => /\ persistent_mtab[mnt[t]] # NULL
                         /\ persistent_mtab[mnt[t]].by = pdata[t]
    /\ map[t] # NULL => pmap_array[mnt[t]] = map[t]

\* No thread meets an entry that another thread has not completed, whatever throws
\* or ends a request while it is being made, and where a thread waits for itself
\* none meets its own; elsewhere a thread meets the entry that PHP code has kept
\* it from completing in an earlier request (EntriesUsable), and no other.
EntriesComplete ==
  \A t \in Threads :
    (pdata[t] # NULL /\ pc[t] # "fill" /\ ~persistent_mtab[mnt[t]].complete) =>
      /\ Locking # "fast"
      /\ mnt[t] \in cut
      /\ persistent_mtab[mnt[t]].by = t

\* No package is mounted whose CRC nobody has checked.
CrcChecked ==
  \A t \in Threads : (pdata[t] # NULL /\ pc[t] = "mounted") => checked[mnt[t]]

\* Each table keeps the promise of Registry.
PdataRegistry == INSTANCE Registry WITH
  Clients <- Threads,
  Keys <- Mnts,
  None <- NULL,
  table <- [m \in Mnts |->
             IF persistent_mtab[m] = NULL THEN NULL ELSE persistent_mtab[m].by],
  asked <- [t \in Threads |-> IF pc[t] \in {"lock", "find", "create"} THEN mnt[t] ELSE NULL],
  got <- pdata

PmapRegistry == INSTANCE Registry WITH
  Clients <- Threads,
  Keys <- UFIDs,
  None <- NULL,
  table <- pmap_array,
  asked <- [t \in Threads |-> IF pc[t] \in {"maplock", "mapfind", "mapcreate"}
                             THEN mnt[t] ELSE NULL],
  got <- map

\* PHK_Mgr_get_or_create_pdata() makes the entry of a package once, in one step
\* as other threads see it.
PdataIsRegistry == PdataRegistry!Spec

\* So does Automap_Pmap_get_or_create_extended() with the contents of a map, and
\* the pointer kept in the package's entry is never to another map.
PmapIsRegistry == PmapRegistry!Spec

\* A thread that has a mutex releases it, on every way out of the function, but
\* for a request that ends in PHP code.
LocksReleased ==
  \A t \in Threads :
    /\ (mtab_lock = t) ~> (mtab_lock # t \/ "mtab" \in lost \/ fault)
    /\ (pmap_lock = t) ~> (pmap_lock # t \/ "pmap" \in lost \/ fault)

-----------------------------------------------------------------------------
(***************************************************************************)
(* What a comment of the source says and the code does not do.             *)
(***************************************************************************)
\* PHK_Mgr.c:1179, "Now, we can create the entry (it cannot fail any more)": an entry
\* that is in the table is complete, or a thread is going to complete it.
CreationCannotFail ==
  /\ ~fault
  /\ \A m \in Mnts :
       (persistent_mtab[m] # NULL /\ ~persistent_mtab[m].complete) =>
         \E t \in Threads : pc[t] = "fill" /\ mnt[t] = m

\* PHK_Mgr.h:41, "zval *buildInfo; /* Array */", where the fields that may be missing
\* say "or null": a mounted package has its buildInfo.  This holds where a thread waits
\* for itself, and only there.
EntriesUsable ==
  \A t \in Threads :
    (pdata[t] # NULL /\ pc[t] = "mounted") => persistent_mtab[mnt[t]].complete
=============================================================================
