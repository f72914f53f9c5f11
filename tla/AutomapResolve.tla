--------------------------- MODULE AutomapResolve ---------------------------
(***************************************************************************)
(* The resolution of a symbol: Automap_resolve_symbol() walks the maps of  *)
(* the request, the newest first; Automap_Mnt_resolve_key() requires the   *)
(* script, loads the extension or mounts the package that a map gives for  *)
(* the symbol, and the success or failure handlers are called.             *)
(*                                                                         *)
(* Scripts and handlers are PHP code: they load and unload maps, register  *)
(* handlers and resolve other symbols while the resolution that has called *)
(* them is under way.  A mounted map (Automap_Mnt) is named by its ID.     *)
(***************************************************************************)
EXTENDS Integers, Sequences

CONSTANTS
  Symbols,     \* keys: a type and a name
  Maps,        \* the contents of map files and of the maps of packages
  Files,       \* those that Automap\Mgr::load() is called for
  Scripts, Extensions, Packages,
  Entry,       \* the target that a map has for a symbol, or NULL
  MapOf,       \* the map of a package, or NULL
  Defines,     \* the symbols that a script or an extension defines
  MaxMaps,     \* bound on map_count
  MaxHandlers, \* bound on fh_count and on sh_count
  MaxDepth,    \* bound on the stack from which scripts call Automap
  NULL

\* A map in use: Automap_Mnt.
Mnt(m, noAutoload) == [map |-> m, noAutoload |-> noAutoload]
MntType == [map : Maps, noAutoload : BOOLEAN]

Targets == Scripts \cup Extensions \cup Packages

\* A map tells the truth about the scripts and extensions it names.
ASSUME ConstantsAssumption ==
  /\ Files \subseteq Maps
  /\ Entry \in [Maps -> [Symbols -> Targets \cup {NULL}]]
  /\ MapOf \in [Packages -> Maps \cup {NULL}]
  /\ Defines \in [Scripts \cup Extensions -> SUBSET Symbols]
  /\ \A m \in Maps, s \in Symbols :
       Entry[m][s] \in Scripts \cup Extensions => s \in Defines[Entry[m][s]]
  /\ NULL \notin Targets \cup Maps \cup Symbols \cup MntType \cup Nat
  /\ Scripts \cap Packages = {} /\ Extensions \cap Packages = {}
  /\ Scripts \cap Extensions = {}
  /\ MaxMaps \in Nat /\ MaxHandlers \in Nat /\ MaxDepth \in Nat

VARIABLES
  map_count,  \* PHK_G(map_count)
  map_array,  \* PHK_G(map_array): ID -> Automap_Mnt, or NULL
  mounted,    \* package -> automapID, 0 if it has no map, NULL if not mounted
  defined,    \* symbols that PHP knows
  fh_count,   \* PHK_G(automap_fh_count)
  sh_count,   \* PHK_G(automap_sh_count)
  stack,      \* C and PHP call stack
  exc,        \* EG(exception) is set
  rude,       \* PHP code has taken away a map that a call, or a package, uses
  fault       \* a freed Automap_Mnt was read

maps == <<map_count, map_array, mounted>>
handlers == <<fh_count, sh_count>>
vars == <<map_count, map_array, mounted, defined, fh_count, sh_count, stack, exc,
          rude, fault>>

SUCCESS == 0
FAILURE == -1

IDs == 1..(map_count - 1)
Active(id) == id \in IDs /\ map_array[id] # NULL
Target(id, s) == Entry[map_array[id].map][s]

-----------------------------------------------------------------------------
(***************************************************************************)
(* The call stack.  A "script" frame is PHP code, for which pc says why it *)
(* runs and target what it is; a "resolve" frame is                        *)
(* Automap_resolve_symbol() with, in target, the entry that                *)
(* Automap_Mnt_resolve_key() has found in the map mp.  start is map_count  *)
(* when the walk began, i the ID that it has come to.                      *)
(***************************************************************************)
Script(why, target) ==
  [fn |-> "script", pc |-> why, target |-> target, sym |-> NULL, exception |-> FALSE,
   start |-> 0, i |-> 0, mp |-> 0, h |-> 0, status |-> SUCCESS]
ResolveFrame(s, exception) ==
  [fn |-> "resolve", pc |-> "lookup", target |-> NULL, sym |-> s,
   exception |-> exception, start |-> map_count, i |-> map_count, mp |-> 0, h |-> 0,
   status |-> SUCCESS]
MainScript == Script("main", NULL)

Top == stack[Len(stack)]
Popped == SubSeq(stack, 1, Len(stack) - 1)
Replace(f) == [stack EXCEPT ![Len(stack)] = f]
Call(f, script) == Append(Replace(f), script)

UserCode == ~fault /\ Top.fn = "script" /\ ~exc
MayCall == UserCode /\ Len(stack) <= MaxDepth
At(pc) == ~fault /\ Top.fn = "resolve" /\ Top.pc = pc

\* A call has found its symbol in the map, and is going to read its ID.
Pending(id) ==
  \E k \in 1..Len(stack) : stack[k].pc = "success" /\ stack[k].h = 0 /\ stack[k].mp = id
Mounting(p) ==
  \E k \in 1..Len(stack) : stack[k].pc = "mounting" /\ stack[k].target = p

\* Mutant: the slot of an unloaded map is used again.
array_add_Reuse(m, noAutoload) ==
  LET free == {id \in IDs : map_array[id] = NULL}
      slot == IF free = {} THEN map_count ELSE CHOOSE id \in free : TRUE
  IN
  /\ map_count <= MaxMaps
  /\ map_count' = IF free = {} THEN map_count + 1 ELSE map_count
  /\ map_array' = [id \in 0..(map_count' - 1) |->
                     IF id = slot THEN Mnt(m, noAutoload) ELSE map_array[id]]

array_add(m, noAutoload) ==
  /\ map_count <= MaxMaps
  /\ map_count' = map_count + 1
  /\ map_array' = [id \in 0..map_count |->
                     IF id = map_count THEN Mnt(m, noAutoload) ELSE map_array[id]]

-----------------------------------------------------------------------------
Init ==
  /\ map_count = 1
  /\ map_array = [id \in {0} |-> NULL]
  /\ mounted = [p \in Packages |-> NULL]
  /\ defined = {}
  /\ fh_count = 0
  /\ sh_count = 0
  /\ stack = <<MainScript>>
  /\ exc = FALSE
  /\ rude = FALSE
  /\ fault = FALSE

(***************************************************************************)
(* Automap_resolve_symbol().                                               *)
(***************************************************************************)
Automap_symbol_is_defined(s) == s \in defined

\* Where the call begins: with the walk, or with a return.
Automap_resolve_symbol(s, autoload, exception) ==
  IF ~autoload /\ Automap_symbol_is_defined(s)
  THEN [ResolveFrame(s, exception) EXCEPT !.pc = "return", !.status = 1]
  ELSE ResolveFrame(s, exception)

\* get...(), require...(), resolve() and, with autoload set, autoloadHook().
Resolve(s, autoload, exception) ==
  /\ MayCall
  /\ stack' = Append(stack, Automap_resolve_symbol(s, autoload, exception))
  /\ UNCHANGED <<maps, defined, handlers, exc, rude, fault>>

\* What Automap_Mnt_resolve_key() does next for an entry.
EntryPc(t) ==
  IF t \in Scripts THEN "script" ELSE IF t \in Extensions THEN "extension" ELSE "package"
Found(f, id) ==
  [f EXCEPT !.pc = EntryPc(Target(id, f.sym)), !.mp = id, !.target = Target(id, f.sym)]
NotFound(f) == [f EXCEPT !.pc = "lookup", !.mp = 0, !.target = NULL]

Candidates(f) ==
  {id \in 1..(f.i - 1) : Active(id) /\ ~map_array[id].noAutoload
                         /\ Target(id, f.sym) # NULL}

\* The walk goes on to the next map that has the symbol, or to its end.
Lookup ==
  /\ At("lookup")
  /\ LET ids == Candidates(Top) IN
     IF ids = {}
     THEN stack' = Replace([Top EXCEPT !.pc = "failure", !.i = 0])
     ELSE \E id \in ids :
            /\ \A j \in ids : j <= id
            /\ stack' = Replace(Found([Top EXCEPT !.i = id], id))
  /\ UNCHANGED <<maps, defined, handlers, exc, rude, fault>>

\* Automap_callFailureHandlers() looks at fh_count before each call.  No PHP
\* function is called with an exception pending.
FailureHandler ==
  /\ At("failure") /\ ~exc
  /\ Top.h < fh_count
  /\ stack' = Call([Top EXCEPT !.h = @ + 1], Script("handler", NULL))
  /\ UNCHANGED <<maps, defined, handlers, exc, rude, fault>>

\* Mutant: nothing is thrown once handlers were called.
Fail_Silent ==
  /\ At("failure")
  /\ exc \/ Top.h >= fh_count
  /\ exc' = (exc \/ (Top.exception /\ fh_count = 0))
  /\ stack' = Replace([Top EXCEPT !.pc = "return", !.status = FAILURE])
  /\ UNCHANGED <<maps, defined, handlers, rude, fault>>

Fail ==
  /\ At("failure")
  /\ exc \/ Top.h >= fh_count
  /\ exc' = (exc \/ Top.exception)
  /\ stack' = Replace([Top EXCEPT !.pc = "return", !.status = FAILURE])
  /\ UNCHANGED <<maps, defined, handlers, rude, fault>>

Return ==
  /\ At("return")
  /\ stack' = Popped
  /\ UNCHANGED <<maps, defined, handlers, exc, rude, fault>>

-----------------------------------------------------------------------------
(***************************************************************************)
(* Automap_Mnt_resolve_key().                                              *)
(***************************************************************************)
LoadExtension ==
  /\ At("extension")
  /\ \/ /\ ~exc
        /\ defined' = defined \cup Defines[Top.target]
        /\ stack' = Replace([Top EXCEPT !.pc = "success"])
        /\ UNCHANGED exc
     \/ /\ exc' = TRUE
        /\ stack' = Replace(NotFound(Top))
        /\ UNCHANGED defined
  /\ UNCHANGED <<maps, handlers, rude, fault>>

\* With an exception pending, the script is compiled but does not run.
RequireScript ==
  /\ At("script")
  /\ LET f == [Top EXCEPT !.pc = "success"] IN
     stack' = IF exc THEN Replace(f) ELSE Call(f, Script("script", Top.target))
  /\ UNCHANGED <<maps, defined, handlers, exc, rude, fault>>

\* Whether the key is found in the map of the package that was just mounted.
\* That map may have been unloaded.
ResolveInPackage(id, f) ==
  IF id = 0
  THEN exc' = TRUE /\ stack' = Replace(NotFound(f)) /\ UNCHANGED fault
  ELSE IF ~Active(id)
  THEN fault' = TRUE /\ UNCHANGED <<stack, exc>>
  ELSE /\ stack' = Replace(IF Target(id, f.sym) = NULL THEN NotFound(f) ELSE Found(f, id))
       /\ UNCHANGED <<exc, fault>>

\* PHK_Mgr_mount_from_Automap() of a package that is mounted, ...
MountedPackage ==
  /\ At("package") /\ ~exc
  /\ mounted[Top.target] # NULL
  /\ ResolveInPackage(mounted[Top.target], Top)
  /\ UNCHANGED <<maps, defined, handlers, rude>>

\* ... of one that is not: the map is loaded, then the mount script is run.
MountPackage ==
  /\ At("package") /\ ~exc
  /\ mounted[Top.target] = NULL
  /\ IF MapOf[Top.target] = NULL
     THEN /\ mounted' = [mounted EXCEPT ![Top.target] = 0]
          /\ UNCHANGED <<map_count, map_array>>
     ELSE /\ array_add(MapOf[Top.target], FALSE)
          /\ mounted' = [mounted EXCEPT ![Top.target] = map_count]
  /\ stack' = Call([Top EXCEPT !.pc = "mounting", !.mp = 0], Script("mount", Top.target))
  /\ UNCHANGED <<defined, handlers, exc, rude, fault>>

MountPackageFails ==
  /\ At("package")
  /\ exc \/ mounted[Top.target] = NULL
  /\ exc' = TRUE
  /\ stack' = Replace(NotFound(Top))
  /\ UNCHANGED <<maps, defined, handlers, rude, fault>>

\* The mount script has returned or thrown.
MountReturns ==
  /\ At("mounting")
  /\ IF exc
     THEN /\ mounted' = [mounted EXCEPT ![Top.target] = NULL]
          /\ stack' = Replace(NotFound(Top))
          /\ UNCHANGED <<exc, fault>>
     ELSE ResolveInPackage(mounted[Top.target], Top) /\ UNCHANGED mounted
  /\ UNCHANGED <<map_count, map_array, defined, handlers, rude>>

\* Automap_callSuccessHandlers(), if there are any, reads the ID of the map.
SuccessHandler ==
  /\ At("success") /\ ~exc
  /\ Top.h < sh_count
  /\ IF Top.h = 0 /\ ~Active(Top.mp)
     THEN fault' = TRUE /\ UNCHANGED stack
     ELSE /\ stack' = Call([Top EXCEPT !.h = @ + 1], Script("handler", NULL))
          /\ UNCHANGED fault
  /\ UNCHANGED <<maps, defined, handlers, exc, rude>>

Succeed ==
  /\ At("success")
  /\ exc \/ Top.h >= sh_count
  /\ IF exc /\ Top.h = 0 /\ sh_count > 0 /\ ~Active(Top.mp)
     THEN fault' = TRUE /\ UNCHANGED stack
     ELSE stack' = Replace([Top EXCEPT !.pc = "return"]) /\ UNCHANGED fault
  /\ UNCHANGED <<maps, defined, handlers, exc, rude>>

-----------------------------------------------------------------------------
(***************************************************************************)
(* PHP code.                                                               *)
(***************************************************************************)
\* Automap\Mgr::load().
Load(m, noAutoload) ==
  /\ MayCall
  /\ array_add(m, noAutoload)
  /\ UNCHANGED <<mounted, defined, handlers, stack, exc, rude, fault>>

\* Mutant: the array shrinks when its last map is unloaded.
Unload_Shrinks(id) ==
  /\ MayCall /\ Active(id)
  /\ map_count' = IF id = map_count - 1 THEN id ELSE map_count
  /\ map_array' = [i \in 0..(map_count' - 1) |-> IF i = id THEN NULL ELSE map_array[i]]
  /\ UNCHANGED <<mounted, defined, handlers, stack, exc, rude, fault>>

\* Automap\Mgr::unload().
Unload(id) ==
  /\ MayCall
  /\ IF Active(id)
     THEN /\ map_array' = [map_array EXCEPT ![id] = NULL]
          /\ rude' = (rude \/ Pending(id) \/ \E p \in Packages : mounted[p] = id)
          /\ UNCHANGED exc
     ELSE exc' = TRUE /\ UNCHANGED <<map_array, rude>>
  /\ UNCHANGED <<map_count, mounted, defined, handlers, stack, fault>>

\* Mutant: the package stays in the table.
Umount_Kept(p) ==
  /\ MayCall
  /\ mounted[p] # NULL /\ Active(mounted[p])
  /\ map_array' = [map_array EXCEPT ![mounted[p]] = NULL]
  /\ rude' = (rude \/ Pending(mounted[p]))
  /\ UNCHANGED <<mounted, map_count, defined, handlers, stack, exc, fault>>

\* PHK_Mgr::umount() of a package.  PHKMounts has the one that is unmounted while
\* it is being mounted.
Umount(p) ==
  /\ MayCall
  /\ mounted[p] # NULL /\ ~Mounting(p)
  /\ mounted' = [mounted EXCEPT ![p] = NULL]
  /\ IF Active(mounted[p])
     THEN map_array' = [map_array EXCEPT ![mounted[p]] = NULL] /\ UNCHANGED exc
     ELSE exc' = (mounted[p] # 0) /\ UNCHANGED map_array
  /\ rude' = (rude \/ Pending(mounted[p]))
  /\ UNCHANGED <<map_count, defined, handlers, stack, fault>>

RegisterFailureHandler ==
  /\ MayCall
  /\ fh_count < MaxHandlers
  /\ fh_count' = fh_count + 1
  /\ UNCHANGED <<maps, defined, sh_count, stack, exc, rude, fault>>

RegisterSuccessHandler ==
  /\ MayCall
  /\ sh_count < MaxHandlers
  /\ sh_count' = sh_count + 1
  /\ UNCHANGED <<maps, defined, fh_count, stack, exc, rude, fault>>

\* A script comes to its definitions.
Define ==
  /\ UserCode
  /\ Top.pc = "script"
  /\ defined' = defined \cup Defines[Top.target]
  /\ UNCHANGED <<maps, handlers, stack, exc, rude, fault>>

Throw ==
  /\ UserCode
  /\ exc' = TRUE
  /\ UNCHANGED <<maps, defined, handlers, stack, rude, fault>>

Catch ==
  /\ ~fault /\ Top.fn = "script" /\ exc
  /\ exc' = FALSE
  /\ UNCHANGED <<maps, defined, handlers, stack, rude, fault>>

ScriptReturn ==
  /\ ~fault /\ Top.fn = "script" /\ Top.pc # "main"
  /\ Top.pc = "script" => exc \/ Defines[Top.target] \subseteq defined
  /\ stack' = Popped
  /\ UNCHANGED <<maps, defined, handlers, exc, rude, fault>>

\* The request ends in any script; the next one begins.
RShutdown ==
  /\ ~fault /\ Top.fn = "script"
  /\ map_count' = 1
  /\ map_array' = [id \in {0} |-> NULL]
  /\ mounted' = [p \in Packages |-> NULL]
  /\ defined' = {}
  /\ fh_count' = 0
  /\ sh_count' = 0
  /\ stack' = <<MainScript>>
  /\ exc' = FALSE
  /\ rude' = FALSE
  /\ UNCHANGED fault

ResolveStep == Lookup \/ FailureHandler \/ Fail \/ SuccessHandler \/ Succeed \/ Return
KeyStep ==
  \/ LoadExtension \/ RequireScript
  \/ MountedPackage \/ MountPackage \/ MountPackageFails \/ MountReturns

Next ==
  \/ \E s \in Symbols, autoload, exception \in BOOLEAN : Resolve(s, autoload, exception)
  \/ ResolveStep \/ KeyStep
  \/ \E m \in Files, noAutoload \in BOOLEAN : Load(m, noAutoload)
  \/ (\E id \in 1..MaxMaps : Unload(id)) \/ (\E p \in Packages : Umount(p))
  \/ RegisterFailureHandler \/ RegisterSuccessHandler
  \/ Define \/ Throw \/ Catch \/ ScriptReturn \/ RShutdown

Spec == Init /\ [][Next]_vars

-----------------------------------------------------------------------------
(***************************************************************************)
(* Properties.                                                             *)
(***************************************************************************)
FrameType ==
  [fn : {"script", "resolve"},
   pc : {"main", "script", "mount", "handler", "lookup", "extension", "package",
         "mounting", "success", "failure", "return"},
   target : Targets \cup {NULL}, sym : Symbols \cup {NULL}, exception : BOOLEAN,
   start : Nat, i : Nat, mp : Nat, h : Nat, status : {SUCCESS, FAILURE, 1}]

\* The variables have their types, and a resolution has not come to a map that
\* did not exist when it began.
TypeOK ==
  /\ map_count \in Nat \ {0}
  /\ map_array \in [0..(map_count - 1) -> MntType \cup {NULL}]
  /\ mounted \in [Packages -> Nat \cup {NULL}]
  /\ defined \in SUBSET Symbols
  /\ fh_count \in Nat /\ sh_count \in Nat
  /\ stack \in Seq(FrameType) /\ stack # <<>>
  /\ \A k \in 1..Len(stack) :
       stack[k].fn = "resolve" => /\ stack[k].i <= stack[k].start
                                  /\ stack[k].start <= map_count
  /\ exc \in BOOLEAN /\ rude \in BOOLEAN /\ fault \in BOOLEAN

\* The map gives a script or an extension for the symbol, itself or through the
\* map of the package that it gives.
Provides(m, s) ==
  LET t == Entry[m][s] IN
  \/ t \in Scripts \cup Extensions
  \/ t \in Packages /\ MapOf[t] # NULL /\ Entry[MapOf[t]][s] \in Scripts \cup Extensions

\* The failure handlers are called, and a resolution fails without an exception,
\* only for a symbol that none of the maps which were loaded before it and are
\* still there provides; whatever handlers, mount scripts and nested resolutions
\* load and unload in the meantime.
FailureMeansAbsent ==
  \A k \in 1..Len(stack) :
    LET f == stack[k] IN
    (f.pc = "failure" \/ (f.pc = "return" /\ f.status = FAILURE)) =>
      \/ k = Len(stack) /\ exc
      \/ \A id \in 1..(f.start - 1) :
           Active(id) /\ ~map_array[id].noAutoload => ~Provides(map_array[id].map, f.sym)

\* The symbol is there when a resolution succeeds, and a require...() that does
\* not succeed has thrown, unless the symbol was there before.
Outcome ==
  (Top.pc = "return" /\ (Top.status = SUCCESS \/ Top.exception)) =>
    exc \/ Top.sym \in defined

\* No freed map is read, unless PHP code has unloaded the map of a mounted
\* package by its ID, or a map while a script that it gives was being required.
NoStaleMap == fault => rude
=============================================================================
