----------------------------- MODULE PHKMounts -----------------------------
(***************************************************************************)
(* The mount table of one PHP request: PHK_Mgr::mount(), umount() and      *)
(* PHK::prolog(), the Automap maps they load and unload, and the user code *)
(* (mount scripts, plugin constructors and destructors, umount scripts,    *)
(* library scripts) that PHK calls back in the middle of them.             *)
(*                                                                         *)
(* A request is one thread, but it is not sequential: every script may     *)
(* call PHK again, so a call may find, when it resumes, a table that       *)
(* nested calls have changed.  The call stack is therefore part of the     *)
(* state, and the code between two callbacks is one action.  The callbacks *)
(* that only ask the PHP runtime for data while a package is being looked  *)
(* up and checked (getMinVersion(), getOptions(), getBuildInfo(), crcCheck *)
(* and the constructors of Automap\Map and of a creator) are no callbacks  *)
(* here: they return or throw, within the action.                          *)
(*                                                                         *)
(* A PHK_Mnt structure is named by its order, which is unique in the       *)
(* request.  Reading a structure that was freed is undefined behaviour:    *)
(* the model stops there, with fault = TRUE.                               *)
(***************************************************************************)
EXTENDS Integers, Sequences

CONSTANTS
  Mnts,             \* mount points of the packages
  ParentOf,         \* the enclosing package of a sub-package, or NoMnt
  NoMnt,
  HasMap,           \* packages whose buildInfo says map_defined
  HasMountScript,   \* packages with the option mount_script ...
  HasUmountScript,  \* ... umount_script
  HasPlugin,        \* ... plugin_class
  HasLibScript,     \* ... lib_run_script
  AutoUmount,       \* ... auto_umount
  Flags,            \* values of "flags & NO_MOUNT_SCRIPT" that mounts use
  Misuse,           \* liberties the code of the packages takes, see Polite...
  MaxMounts,        \* bound on mcount
  MaxMaps,          \* bound on map_count
  MaxTmp,           \* bound on tmp_mnt_num
  MaxDepth          \* bound on the stack from which scripts call PHK

NULL == -1
Direct == -2        \* owner of a map that Automap\Mgr::load() loaded

TmpMnt(n) == <<"_tmp_mnt_", n>>
Names == Mnts \cup {TmpMnt(n) : n \in 0..(MaxTmp - 1)}

ASSUME ConstantsAssumption ==
  /\ NoMnt \notin Names
  /\ ParentOf \in [Mnts -> Mnts \cup {NoMnt}]
  /\ HasMap \subseteq Mnts /\ HasPlugin \subseteq Mnts
  /\ Flags \subseteq BOOLEAN
  /\ Misuse \subseteq {"umountBusy", "abortWithChildren", "mountDying"}
  /\ MaxMounts \in Nat /\ MaxMaps \in Nat /\ MaxTmp \in Nat /\ MaxDepth \in Nat
  /\ \A n \in 0..(MaxTmp - 1) : TmpMnt(n) \notin Mnts

VARIABLES
  mtab,         \* PHK_G(mtab): mount point -> order, NULL when absent
  mcount,       \* PHK_G(mcount)
  mount_order,  \* PHK_G(mount_order): order -> structure, NULL once removed
  phk,          \* the PHK_Mnt structures, by order
  map_count,    \* PHK_G(map_count)
  map_array,    \* PHK_G(map_array): map ID -> who loaded it, NULL if unloaded
  tmp_mnt_num,  \* process-wide counter naming the creators' mount points
  stack,        \* C and PHP call stack
  exc,          \* EG(exception) is set
  fault         \* a freed structure was read

tables == <<mtab, mcount, mount_order, phk>>
maps == <<map_count, map_array>>
vars == <<mtab, mcount, mount_order, phk, map_count, map_array, tmp_mnt_num,
          stack, exc, fault>>

Orders == 0..(mcount - 1)
Live(o) == o \in Orders /\ mount_order[o] = o

-----------------------------------------------------------------------------
(***************************************************************************)
(* The call stack.  A "script" frame is PHP code called back for package   *)
(* mp ("main" for the script of the request); "mount", "umount" and        *)
(* "prolog" are C functions, pc telling where they resume.                 *)
(***************************************************************************)
Frame(fn, o, pc, i) == [fn |-> fn, mp |-> o, pc |-> pc, i |-> i]
Script(o, for) == Frame("script", o, for, 0)
MainScript == Script(NULL, "main")

Top == stack[Len(stack)]
Popped == SubSeq(stack, 1, Len(stack) - 1)
Resume(pc) == [stack EXCEPT ![Len(stack)].pc = pc]
Call(pc, s) == Append(Resume(pc), s)

UserCode == ~fault /\ Top.fn = "script" /\ ~exc
MayCall == UserCode /\ Len(stack) <= MaxDepth
At(fn, pc) == ~fault /\ Top.fn = fn /\ Top.pc = pc

\* PHK_Mgr_mount() gives the structure to the prolog that waits for it ...
Returned(stk, o) ==
  IF stk[Len(stk)].fn = "prolog"
  THEN [stk EXCEPT ![Len(stk)].mp = o, ![Len(stk)].pc = "lib"]
  ELSE stk

\* ... or leaves an exception, on which the prolog returns at once.
Raised(stk) ==
  IF stk[Len(stk)].fn = "prolog" THEN SubSeq(stk, 1, Len(stk) - 1) ELSE stk

-----------------------------------------------------------------------------
(***************************************************************************)
(* What the code of a package must not do, unless Misuse says it does: the *)
(* C code does not protect itself against it.                              *)
(***************************************************************************)
Busy == {stack[k].mp : k \in {j \in 1..Len(stack) : stack[j].fn # "script"}}

\* A package and the packages it is mounted in: the least set of packages that has it
\* and the parents of its members.
Closed(S) == \A o \in S : phk[o].parent # NULL => phk[o].parent \in S
Enclosing(o) ==
  {p \in Orders : \A S \in SUBSET Orders : o \in S /\ Closed(S) => p \in S}

\* Unmounting a package while a call for it, or for a sub-package, is running.
PoliteUmount(o) ==
  "umountBusy" \in Misuse \/ \A b \in Busy \ {NULL} : o \notin Enclosing(b)

\* A mount script, or plugin constructor, that throws after it has mounted
\* sub-packages of its own package.
PoliteThrow ==
  \/ "abortWithChildren" \in Misuse
  \/ Top.pc \notin {"mount", "plugin"}
  \/ ~Live(Top.mp)
  \/ \A i \in DOMAIN phk[Top.mp].children : phk[Top.mp].children[i] = NULL

\* Mounting a sub-package of a package whose children were already unmounted.
PoliteMount(p) ==
  \/ "mountDying" \in Misuse
  \/ \A k \in 1..Len(stack) :
       stack[k].fn = "umount" /\ stack[k].mp = p => stack[k].pc = "children"
-----------------------------------------------------------------------------
(***************************************************************************)
(* Structures.                                                             *)
(***************************************************************************)
Mnt(m, p, noScript) ==
  [mnt |-> m, parent |-> p, children |-> <<>>, automapID |-> 0,
   plugin |-> FALSE, noScript |-> noScript]
Freed == Mnt(NoMnt, NULL, FALSE)

\* The structures f reads when it resumes: its own and, when it unregisters
\* the package from its parent, the parent.
Unregisters(f) ==
  \/ f.fn = "mount" /\ exc
  \/ f.fn = "umount" /\ f.pc = "children" /\ f.i = Len(phk[f.mp].children)
Reads(f) ==
  {f.mp} \cup IF Live(f.mp) /\ Unregisters(f) /\ phk[f.mp].parent # NULL
              THEN {phk[f.mp].parent} ELSE {}
Safe(f) == \A o \in Reads(f) : Live(o)

\* Mutant: the parent keeps the pointer.
Unregistered_Kept(o) == phk

\* The structures once o has left its parent's children.
Unregistered(o) ==
  IF phk[o].parent = NULL THEN phk
  ELSE [phk EXCEPT ![phk[o].parent].children =
          [i \in DOMAIN @ |-> IF @[i] = o THEN NULL ELSE @[i]]]

\* The structures once mcount is allocated and registered in its parent.
Allocated(record, child) ==
  [o \in 0..mcount |->
     IF o = mcount THEN record
     ELSE IF o = record.parent
       THEN [phk[o] EXCEPT !.children = Append(@, child)]
       ELSE phk[o]]

\* Mutant: the counter is not incremented.
new_mnt_NoCount(m) ==
  /\ mcount < MaxMounts
  /\ mcount' = mcount
  /\ mtab' = [mtab EXCEPT ![m] = mcount]
  /\ mount_order' = [o \in 0..mcount |->
                       IF o = mcount THEN mcount ELSE mount_order[o]]

\* Mutant: the order of a removed package is given again.
new_mnt_Reuse(m) ==
  LET free == {o \in Orders : mount_order[o] = NULL}
      order == IF free = {} THEN mcount ELSE CHOOSE o \in free : TRUE
  IN
  /\ mcount < MaxMounts
  /\ mcount' = mcount + 1
  /\ mtab' = [mtab EXCEPT ![m] = order]
  /\ mount_order' = [o \in 0..mcount |->
                       IF o = order THEN order
                       ELSE IF o = mcount THEN NULL ELSE mount_order[o]]

new_mnt(m) ==
  /\ mcount < MaxMounts
  /\ mcount' = mcount + 1
  /\ mtab' = [mtab EXCEPT ![m] = mcount]
  /\ mount_order' = [o \in 0..mcount |->
                       IF o = mcount THEN mcount ELSE mount_order[o]]

\* Mutant: the slot of mount_order is not cleared.
remove_mnt_KeptOrder(o) ==
  /\ mtab' = [mtab EXCEPT ![phk[o].mnt] = NULL]
  /\ UNCHANGED <<mount_order, mcount>>

remove_mnt(o) ==
  /\ mount_order' = [mount_order EXCEPT ![o] = NULL]
  /\ mtab' = [mtab EXCEPT ![phk[o].mnt] = NULL]
  /\ UNCHANGED mcount

ValidID(id) == id \in 1..(map_count - 1) /\ map_array[id] # NULL

\* Mutant: the slot of an unloaded map is used again.
array_add_Reuse(owner) ==
  LET free == {id \in 1..(map_count - 1) : map_array[id] = NULL}
      slot == IF free = {} THEN map_count ELSE CHOOSE id \in free : TRUE
  IN
  /\ map_count <= MaxMaps
  /\ map_count' = IF free = {} THEN map_count + 1 ELSE map_count
  /\ map_array' = [id \in 0..(map_count' - 1) |->
                     IF id = slot THEN owner ELSE map_array[id]]

array_add(owner) ==
  /\ map_count <= MaxMaps
  /\ map_count' = map_count + 1
  /\ map_array' = [id \in 0..map_count |->
                     IF id = map_count THEN owner ELSE map_array[id]]

\* Mutant: the map stays active.
Automap_unload_Nothing(id) == UNCHANGED <<maps, exc>>

\* Raises an exception when the ID is not active any more.
Automap_unload(id) ==
  IF ValidID(id)
  THEN map_array' = [map_array EXCEPT ![id] = NULL] /\ UNCHANGED <<map_count, exc>>
  ELSE exc' = TRUE /\ UNCHANGED maps

-----------------------------------------------------------------------------
Init ==
  /\ mtab = [m \in Names |-> NULL]
  /\ mcount = 0
  /\ mount_order = [o \in {} |-> NULL]
  /\ phk = [o \in {} |-> Freed]
  /\ map_count = 1
  /\ map_array = [id \in {0} |-> NULL]
  /\ tmp_mnt_num = 0
  /\ stack = <<MainScript>>
  /\ exc = FALSE
  /\ fault = FALSE

(***************************************************************************)
(* PHK_Mgr_mount(), up to the mount script.  base is the stack it returns  *)
(* to: the script that called PHK_Mgr::mount(), or a prolog.               *)
(***************************************************************************)
Prolog == Frame("prolog", NULL, "mount", 0)
Callers == {stack, Append(stack, Prolog)}

\* The mounted package that the path of m is in, if any.
ParentOrder(m) == IF ParentOf[m] = NoMnt THEN NULL ELSE mtab[ParentOf[m]]

\* The path cannot be examined, or belongs to a package that is not mounted.
MountUnknown(m) ==
  /\ MayCall
  /\ ParentOrder(m) = NULL
  /\ exc' = TRUE
  /\ UNCHANGED <<tables, maps, tmp_mnt_num, stack, fault>>

MountExisting(m) ==
  /\ MayCall
  /\ mtab[m] # NULL
  /\ ParentOf[m] # NoMnt => ParentOrder(m) # NULL
  /\ \E base \in Callers :
       /\ base # stack /\ m \in AutoUmount => PoliteUmount(mtab[m])
       /\ stack' = Returned(base, mtab[m])
  /\ UNCHANGED <<tables, maps, tmp_mnt_num, exc, fault>>

MountNew(m, noScript) ==
  LET p == ParentOrder(m)
      record == Mnt(m, p, noScript)
  IN
  /\ MayCall
  /\ mtab[m] = NULL
  /\ ParentOf[m] # NoMnt => p # NULL /\ PoliteMount(p)
  /\ new_mnt(m)
  /\ IF m \in HasMap
     THEN /\ array_add(mcount)
          /\ phk' = Allocated([record EXCEPT !.automapID = map_count], mcount)
     ELSE phk' = Allocated(record, mcount) /\ UNCHANGED maps
  /\ \E base \in Callers :
       stack' = Append(base, Frame("mount", mcount, "script", 0))
  /\ UNCHANGED <<tmp_mnt_num, exc, fault>>

\* populate_pdata, the CRC check or the map load throws: the structure is
\* removed again, its order and its slot in the parent's children are spent.
MountNewFails(m) ==
  LET p == ParentOrder(m) IN
  /\ MayCall
  /\ mtab[m] = NULL
  /\ ParentOf[m] # NoMnt => p # NULL
  /\ mcount < MaxMounts
  /\ mcount' = mcount + 1
  /\ mount_order' = [o \in 0..mcount |-> IF o = mcount THEN NULL ELSE mount_order[o]]
  /\ phk' = [Allocated(Mnt(m, p, FALSE), NULL) EXCEPT ![mcount] = Freed]
  /\ exc' = TRUE
  /\ UNCHANGED <<mtab, maps, tmp_mnt_num, stack, fault>>

\* PHK_FLAG_IS_CREATOR: no parent, map or script, a name of its own.
MountCreator(ok) ==
  LET m == TmpMnt(tmp_mnt_num) IN
  /\ MayCall
  /\ tmp_mnt_num < MaxTmp
  /\ tmp_mnt_num' = tmp_mnt_num + 1
  /\ IF ok
     THEN /\ new_mnt(m)
          /\ phk' = Allocated(Mnt(m, NULL, FALSE), NULL)
          /\ UNCHANGED exc
     ELSE /\ mcount < MaxMounts
          /\ mcount' = mcount + 1
          /\ mount_order' =
               [o \in 0..mcount |-> IF o = mcount THEN NULL ELSE mount_order[o]]
          /\ phk' = Allocated(Freed, NULL)
          /\ exc' = TRUE
          /\ UNCHANGED mtab
  /\ UNCHANGED <<maps, stack, fault>>

(***************************************************************************)
(* PHK_init() and the end of PHK_Mgr_mount(), as they resume.              *)
(***************************************************************************)
MountScript ==
  /\ At("mount", "script") /\ Safe(Top) /\ ~exc
  /\ stack' = IF phk[Top.mp].mnt \in HasMountScript /\ ~phk[Top.mp].noScript
              THEN Call("plugin", Script(Top.mp, "mount"))
              ELSE Resume("plugin")
  /\ UNCHANGED <<tables, maps, tmp_mnt_num, exc, fault>>

MountPlugin ==
  /\ At("mount", "plugin") /\ Safe(Top) /\ ~exc
  /\ stack' = IF phk[Top.mp].mnt \in HasPlugin
              THEN Call("done", Script(Top.mp, "plugin"))
              ELSE Resume("done")
  /\ UNCHANGED <<tables, maps, tmp_mnt_num, exc, fault>>

MountDone ==
  /\ At("mount", "done") /\ Safe(Top) /\ ~exc
  /\ phk' = [phk EXCEPT ![Top.mp].plugin = phk[Top.mp].mnt \in HasPlugin]
  /\ stack' = Returned(Popped, Top.mp)
  /\ UNCHANGED <<mtab, mcount, mount_order, maps, tmp_mnt_num, exc, fault>>

\* Mutant: the failed package stays in the table.
MountAbort_Kept ==
  /\ ~fault /\ Top.fn = "mount" /\ Safe(Top) /\ exc
  /\ stack' = Raised(Popped)
  /\ UNCHANGED <<tables, maps, tmp_mnt_num, exc, fault>>

\* The map that PHK_init() loaded stays in map_array.
MountAbort ==
  /\ ~fault /\ Top.fn = "mount" /\ Safe(Top) /\ exc
  /\ remove_mnt(Top.mp)
  /\ phk' = [Unregistered(Top.mp) EXCEPT ![Top.mp] = Freed]
  /\ stack' = Raised(Popped)
  /\ UNCHANGED <<maps, tmp_mnt_num, exc, fault>>

(***************************************************************************)
(* PHK_Mgr_umount() and PHK_Mgr_umount_mnt().  Exceptions that the scripts *)
(* leave are not examined.                                                 *)
(***************************************************************************)
\* Mutant: the loop starts at the second child.
UmountFrame_SkipsFirst(o) == Frame("umount", o, "children", 1)

UmountFrame(o) == Frame("umount", o, "children", 0)

Umount(m) ==
  /\ MayCall
  /\ mtab[m] # NULL
  /\ PoliteUmount(mtab[m])
  /\ stack' = Append(stack, UmountFrame(mtab[m]))
  /\ UNCHANGED <<tables, maps, tmp_mnt_num, exc, fault>>

UmountChild ==
  /\ At("umount", "children") /\ Safe(Top)
  /\ Top.i < Len(phk[Top.mp].children)
  /\ LET child == phk[Top.mp].children[Top.i + 1]
         next == [stack EXCEPT ![Len(stack)].i = @ + 1]
     IN  stack' = IF child = NULL THEN next ELSE Append(next, UmountFrame(child))
  /\ UNCHANGED <<tables, maps, tmp_mnt_num, exc, fault>>

\* ... and PHK_umount() drops the plugin, whose destructor may run.
UmountUnregister ==
  /\ At("umount", "children") /\ Safe(Top)
  /\ Top.i = Len(phk[Top.mp].children)
  /\ phk' = [Unregistered(Top.mp) EXCEPT ![Top.mp].plugin = FALSE]
  /\ stack' = IF phk[Top.mp].plugin
              THEN Call("script", Script(Top.mp, "destruct"))
              ELSE Resume("script")
  /\ UNCHANGED <<mtab, mcount, mount_order, maps, tmp_mnt_num, exc, fault>>

UmountScript ==
  /\ At("umount", "script") /\ Safe(Top)
  /\ stack' = IF phk[Top.mp].mnt \in HasUmountScript /\ ~phk[Top.mp].noScript
              THEN Call("finish", Script(Top.mp, "umount"))
              ELSE Resume("finish")
  /\ UNCHANGED <<tables, maps, tmp_mnt_num, exc, fault>>

UmountFinish ==
  /\ At("umount", "finish") /\ Safe(Top)
  /\ IF phk[Top.mp].mnt \in HasMap
     THEN Automap_unload(phk[Top.mp].automapID)
     ELSE UNCHANGED <<maps, exc>>
  /\ remove_mnt(Top.mp)
  /\ phk' = [phk EXCEPT ![Top.mp] = Freed]
  /\ stack' = Popped
  /\ UNCHANGED <<tmp_mnt_num, fault>>

(***************************************************************************)
(* PHK::prolog() of a package that is not the main script.                 *)
(***************************************************************************)
PrologLib ==
  /\ At("prolog", "lib") /\ Safe(Top)
  /\ stack' = IF phk[Top.mp].mnt \in HasLibScript
              THEN Call("end", Script(Top.mp, "lib"))
              ELSE Resume("end")
  /\ UNCHANGED <<tables, maps, tmp_mnt_num, exc, fault>>

PrologEnd ==
  /\ At("prolog", "end") /\ Safe(Top)
  /\ stack' = IF phk[Top.mp].mnt \in AutoUmount
              THEN Append(Popped, UmountFrame(Top.mp))
              ELSE Popped
  /\ UNCHANGED <<tables, maps, tmp_mnt_num, exc, fault>>

(***************************************************************************)
(* User code.                                                              *)
(***************************************************************************)
LoadMap ==
  /\ MayCall
  /\ array_add(Direct)
  /\ UNCHANGED <<tables, tmp_mnt_num, stack, exc, fault>>

UnloadMap(id) ==
  /\ MayCall
  /\ Automap_unload(id)
  /\ UNCHANGED <<tables, tmp_mnt_num, stack, fault>>

Throw ==
  /\ UserCode
  /\ exc' = TRUE
  /\ UNCHANGED <<tables, maps, tmp_mnt_num, stack, fault>>

\* A try block of the running script.
Catch ==
  /\ ~fault /\ Top.fn = "script" /\ exc
  /\ exc' = FALSE
  /\ UNCHANGED <<tables, maps, tmp_mnt_num, stack, fault>>

\* The script returns or, with exc set, the exception leaves it.
ScriptReturn ==
  /\ ~fault /\ Top.fn = "script" /\ Top.pc # "main"
  /\ exc => PoliteThrow
  /\ stack' = Popped
  /\ UNCHANGED <<tables, maps, tmp_mnt_num, exc, fault>>

\* PHK::parentMnt() on the instance of a mounted package.
ParentMnt(o) ==
  /\ MayCall
  /\ Live(o) /\ phk[o].parent # NULL /\ ~Live(phk[o].parent)
  /\ fault' = TRUE
  /\ UNCHANGED <<tables, maps, tmp_mnt_num, stack, exc>>

UseAfterFree ==
  /\ ~fault /\ Top.fn # "script" /\ ~Safe(Top)
  /\ fault' = TRUE
  /\ UNCHANGED <<tables, maps, tmp_mnt_num, stack, exc>>

(***************************************************************************)
(* The request ends (return, exit() or a fatal error in any script):       *)
(* RSHUTDOWN frees both tables, runs no umount script, and RINIT starts    *)
(* the next request of the process.                                        *)
(***************************************************************************)
RShutdown ==
  /\ ~fault /\ Top.fn = "script"
  /\ mtab' = [m \in Names |-> NULL]
  /\ mcount' = 0
  /\ mount_order' = [o \in {} |-> NULL]
  /\ phk' = [o \in {} |-> Freed]
  /\ map_count' = 1
  /\ map_array' = [id \in {0} |-> NULL]
  /\ stack' = <<MainScript>>
  /\ exc' = FALSE
  /\ UNCHANGED <<tmp_mnt_num, fault>>

MountStep == MountScript \/ MountPlugin \/ MountDone \/ MountAbort
UmountStep == UmountChild \/ UmountUnregister \/ UmountScript \/ UmountFinish
PrologStep == PrologLib \/ PrologEnd

Next ==
  \/ \E m \in Mnts :
       \/ MountUnknown(m) \/ MountExisting(m) \/ MountNewFails(m)
       \/ \E noScript \in Flags : MountNew(m, noScript)
  \/ \E ok \in BOOLEAN : MountCreator(ok)
  \/ \E m \in Names : Umount(m)
  \/ MountStep \/ UmountStep \/ PrologStep
  \/ LoadMap \/ (\E id \in 0..MaxMaps : UnloadMap(id))
  \/ Throw \/ Catch \/ ScriptReturn
  \/ (\E o \in Orders : ParentMnt(o)) \/ UseAfterFree
  \/ RShutdown

Spec == Init /\ [][Next]_vars

-----------------------------------------------------------------------------
(***************************************************************************)
(* Properties.                                                             *)
(***************************************************************************)
MntType ==
  [mnt : Names \cup {NoMnt}, parent : Int, children : Seq(Int),
   automapID : Nat, plugin : BOOLEAN, noScript : BOOLEAN]
FrameType ==
  [fn : {"script", "mount", "umount", "prolog"}, mp : Int,
   pc : {"main", "mount", "plugin", "destruct", "umount", "lib", "script",
         "done", "children", "finish", "end"},
   i : Nat]

\* The variables have their types: PHK_G(mount_order) has a slot for every
\* order given so far, which holds the structure of that order or NULL.
TypeOK ==
  /\ mcount \in Nat
  /\ mtab \in [Names -> Orders \cup {NULL}]
  /\ mount_order \in [Orders -> Orders \cup {NULL}]
  /\ \A o \in Orders : mount_order[o] \in {o, NULL}
  /\ phk \in [Orders -> MntType]
  /\ map_count \in Nat \ {0}
  /\ map_array \in [0..(map_count - 1) -> Int]
  /\ tmp_mnt_num \in Nat
  /\ stack \in Seq(FrameType) /\ stack # <<>>
  /\ exc \in BOOLEAN /\ fault \in BOOLEAN

\* The two ways to find a package agree: the structure that mtab has for a
\* mount point carries that mount point and is in mount_order, and every
\* structure of mount_order is the one its mount point leads to.  Scripts see
\* packages through the first (PHK_Mgr_get_mnt), PHK objects through the second
\* (PHK_GET_INSTANCE_DATA).
MountTable ==
  /\ \A m \in Names :
       mtab[m] # NULL => Live(mtab[m]) /\ phk[mtab[m]].mnt = m
  /\ \A o \in Orders :
       mount_order[o] # NULL => /\ phk[o].mnt \in Names
                                /\ mtab[phk[o].mnt] = o

\* The call stack starts at the script of the request ...
StackBase == stack[1] = MainScript

\* ... and the names that creators have not had yet are not in the table:
\* what MountTable needs to be inductive.
TmpNamesUnused == \A n \in tmp_mnt_num..(MaxTmp - 1) : mtab[TmpMnt(n)] = NULL

TableInv == TypeOK /\ StackBase /\ TmpNamesUnused /\ MountTable

\* A PHK object (or a clone of it) that outlives its package never becomes
\* valid again, nor leads to another package: within a request an order is
\* given once, and the structure of an order keeps its mount point.
StaleObjects ==
  [][ mcount' # 0 =>
        \A o \in Orders :
          /\ mount_order'[o] \in {mount_order[o], NULL}
          /\ mount_order'[o] # NULL => phk'[o].mnt = phk[o].mnt ]_vars

Unregistering(o) ==
  \E k \in 1..Len(stack) :
    stack[k].fn = "umount" /\ stack[k].mp = o /\ stack[k].pc # "children"

\* Parents and children point to each other: a package whose parent pointer is
\* set is in exactly one slot of that parent's children, and only packages of
\* the table are in children (until umount_mnt unregisters it, the comment
\* "every children have unregistered themselves").
FamilyLinks ==
  \A o \in Orders : Live(o) =>
    /\ \A i \in DOMAIN phk[o].children :
         LET c == phk[o].children[i] IN
         c # NULL => Live(c) /\ phk[c].parent = o
    /\ LET p == phk[o].parent IN
       (p # NULL /\ ~Unregistering(o)) =>
         /\ Live(p)
         /\ \E i \in DOMAIN phk[p].children :
              /\ phk[p].children[i] = o
              /\ \A j \in DOMAIN phk[p].children \ {i} : phk[p].children[j] # o

\* No call resumes on a structure that a nested call has freed, and no package
\* keeps a pointer to a freed parent, whatever the scripts mount, unmount,
\* unload and throw within the limits of Polite...
NoUseAfterFree == ~fault

InCall(o) == \E k \in 1..Len(stack) :
               stack[k].fn \in {"mount", "umount"} /\ stack[k].mp = o

\* mount() is all or nothing: a package that is in the table and that no call
\* is mounting or unmounting has loaded its map and built its plugin.
MountedCompletely ==
  \A o \in Orders : Live(o) /\ ~InCall(o) =>
    /\ phk[o].mnt \in HasMap => phk[o].automapID \in 1..(map_count - 1)
    /\ phk[o].plugin = (phk[o].mnt \in HasPlugin)

\* A package leaves the table together with its map.  The one exception is a
\* mount that fails after PHK_init() has loaded the map.
OrphanMaps ==
  [][ mcount' # 0 =>
        \A o \in Orders : Live(o) /\ mount_order'[o] = NULL =>
          \/ \A id \in 1..(map_count - 1) : map_array'[id] # o
          \/ exc /\ Top.fn = "mount" ]_vars

\* Unmounting a package unloads no map but the one its mount has loaded, even
\* when user code has unloaded that one before: a map ID is given once.
UnloadsOwnMap ==
  [][ Top.fn = "umount" =>
        \A id \in 1..(map_count - 1) :
          map_array'[id] # map_array[id] => map_array[id] = Top.mp ]_vars

-----------------------------------------------------------------------------
(***************************************************************************)
(* What a comment of the source says and the code does not do.             *)
(***************************************************************************)
\* PHK_Mgr.c:229, "unregister from parent (whose nb_children cannot be null)":
\* when PHK_Mgr_umount_mnt() comes to its parent, that parent is still there
\* and has a list of children.
ParentHasChildren ==
  (Top.fn = "umount" /\ Unregisters(Top) /\ Live(Top.mp)) =>
    LET p == phk[Top.mp].parent IN
    p # NULL => Live(p) /\ phk[p].children # <<>>
=============================================================================
