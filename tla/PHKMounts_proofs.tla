-------------------------- MODULE PHKMounts_proofs --------------------------
(***************************************************************************)
(* Proofs about PHKMounts, for all packages, scripts and bounds.  The      *)
(* first part holds whatever the code of the packages does (any Misuse).   *)
(***************************************************************************)
EXTENDS PHKMounts, SequenceTheorems, TLAPS

PCs == {"main", "mount", "plugin", "destruct", "umount", "lib", "script",
        "done", "children", "finish", "end"}

StackOK(s) == s \in Seq(FrameType) /\ s # <<>> /\ s[1] = MainScript

-----------------------------------------------------------------------------
(***************************************************************************)
(* The call stack.                                                         *)
(***************************************************************************)
\* The frames that are pushed are frames.
LEMMA FrameTypes ==
  ASSUME NEW o \in Int, NEW pc \in PCs,
         NEW fn \in {"script", "mount", "umount", "prolog"}
  PROVE  /\ Frame(fn, o, pc, 0) \in FrameType
         /\ Script(o, pc) \in FrameType
         /\ UmountFrame(o) \in FrameType
         /\ Prolog \in FrameType
         /\ MainScript \in FrameType
BY DEF Frame, Script, UmountFrame, Prolog, MainScript, FrameType, PCs, NULL

\* A call pushes a frame ...
LEMMA PushOK ==
  ASSUME NEW s, StackOK(s), NEW f \in FrameType
  PROVE  StackOK(Append(s, f))
BY DEF StackOK

\* ... a return pops one, never the script of the request ...
LEMMA PopOK ==
  ASSUME NEW s, StackOK(s), s[Len(s)] # MainScript
  PROVE  StackOK(SubSeq(s, 1, Len(s) - 1))
<1>1. Len(s) \in Nat /\ Len(s) > 1
  BY DEF StackOK
<1>2. SubSeq(s, 1, Len(s) - 1) \in Seq(FrameType)
  BY <1>1 DEF StackOK
<1>3. /\ Len(SubSeq(s, 1, Len(s) - 1)) = Len(s) - 1
      /\ SubSeq(s, 1, Len(s) - 1)[1] = s[1]
  BY <1>1 DEF StackOK
<1>4. SubSeq(s, 1, Len(s) - 1) # <<>>
  <2> DEFINE t == SubSeq(s, 1, Len(s) - 1)
  <2>1. t \in Seq(FrameType) /\ Len(t) \in Nat /\ Len(t) > 0
    BY <1>1, <1>2, <1>3
  <2> HIDE DEF t
  <2>2. t # <<>>
    BY <2>1
  <2> QED BY <2>2 DEF t
<1> QED BY <1>2, <1>3, <1>4 DEF StackOK

\* ... and a function that resumes changes its own frame only.
LEMMA UpdateOK ==
  ASSUME NEW s, StackOK(s), s[Len(s)] # MainScript, NEW f \in FrameType
  PROVE  StackOK([s EXCEPT ![Len(s)] = f])
<1>1. s \in Seq(FrameType) /\ Len(s) \in 1..Len(s) /\ Len(s) # 1
  BY DEF StackOK
<1>2. /\ [s EXCEPT ![Len(s)] = f] \in Seq(FrameType)
      /\ Len([s EXCEPT ![Len(s)] = f]) = Len(s)
      /\ [s EXCEPT ![Len(s)] = f][1] = s[1]
  BY <1>1, ExceptSeq
<1>3. [s EXCEPT ![Len(s)] = f] # <<>>
  BY <1>1, <1>2
<1> QED BY <1>2, <1>3 DEF StackOK

-----------------------------------------------------------------------------
(***************************************************************************)
(* The stack, as TypeOK and StackBase give it, and as the actions leave    *)
(* it.                                                                     *)
(***************************************************************************)
\* The frame that runs is a frame, and the script of the request unless it is
\* one that returns.
LEMMA TopType ==
  ASSUME StackOK(stack)
  PROVE  Top \in FrameType /\ Len(stack) \in Nat \ {0}
BY DEF StackOK, Top

LEMMA TopNotMain ==
  ASSUME Top.fn # "script" \/ Top.pc # "main"
  PROVE  stack[Len(stack)] # MainScript
BY DEF Top, MainScript, Script, Frame

LEMMA ResumeOK ==
  ASSUME StackOK(stack), stack[Len(stack)] # MainScript, NEW pc \in PCs
  PROVE  StackOK(Resume(pc))
<1>1. Top \in FrameType /\ Len(stack) \in DOMAIN stack
  BY TopType DEF StackOK
<1>2. [Top EXCEPT !.pc = pc] \in FrameType
  BY <1>1 DEF FrameType, PCs
<1>3. Resume(pc) = [stack EXCEPT ![Len(stack)] = [Top EXCEPT !.pc = pc]]
  BY <1>1 DEF Resume, Top
<1> QED BY <1>2, <1>3, UpdateOK

LEMMA CallOK ==
  ASSUME StackOK(stack), stack[Len(stack)] # MainScript, NEW pc \in PCs,
         NEW f \in FrameType
  PROVE  StackOK(Call(pc, f))
BY ResumeOK, PushOK DEF Call

LEMMA PoppedOK ==
  ASSUME StackOK(stack), stack[Len(stack)] # MainScript
  PROVE  StackOK(Popped)
BY PopOK DEF Popped

\* mount() returns to a prolog, which resumes or returns in its turn.
LEMMA ReturnedOK ==
  ASSUME NEW s, StackOK(s), NEW o \in Int
  PROVE  StackOK(Returned(s, o)) /\ StackOK(Raised(s))
<1>1. CASE s[Len(s)].fn = "prolog"
  <2> DEFINE f == s[Len(s)]
  <2>1. s[Len(s)] # MainScript
    BY <1>1 DEF MainScript, Script, Frame
  <2>2. f \in FrameType /\ Len(s) \in DOMAIN s
    BY DEF StackOK
  <2>3. [f EXCEPT !.mp = o, !.pc = "lib"] \in FrameType
    BY <2>2 DEF FrameType
  <2>4. Returned(s, o) = [s EXCEPT ![Len(s)] = [f EXCEPT !.mp = o, !.pc = "lib"]]
    BY <1>1, <2>2 DEF Returned
  <2>5. StackOK(Returned(s, o))
    BY <2>1, <2>3, <2>4, UpdateOK
  <2> QED BY <1>1, <2>1, <2>5, PopOK DEF Raised
<1>2. CASE s[Len(s)].fn # "prolog"
  BY <1>2 DEF Returned, Raised
<1> QED BY <1>1, <1>2

-----------------------------------------------------------------------------
(***************************************************************************)
(* The tables.                                                             *)
(***************************************************************************)
TablesType ==
  /\ mcount \in Nat
  /\ mtab \in [Names -> Orders \cup {NULL}]
  /\ mount_order \in [Orders -> Orders \cup {NULL}]
  /\ \A o \in Orders : mount_order[o] \in {o, NULL}
  /\ phk \in [Orders -> MntType]

MapsType ==
  /\ map_count \in Nat \ {0}
  /\ map_array \in [0..(map_count - 1) -> Int]

LEMMA TypeParts ==
  TypeOK /\ StackBase <=>
    /\ TablesType /\ MapsType /\ StackOK(stack)
    /\ tmp_mnt_num \in Nat /\ exc \in BOOLEAN /\ fault \in BOOLEAN
BY DEF TypeOK, StackBase, TablesType, MapsType, StackOK

LEMMA TypePartsPrimed ==
  (TypeOK /\ StackBase)' <=>
    /\ TablesType' /\ MapsType' /\ StackOK(stack')
    /\ tmp_mnt_num' \in Nat /\ exc' \in BOOLEAN /\ fault' \in BOOLEAN
BY DEF TypeOK, StackBase, TablesType, MapsType, StackOK

\* Every name of a temporary mount point is used for one creator.
LEMMA TmpMntInjective ==
  \A n, k : TmpMnt(n) = TmpMnt(k) => n = k
BY DEF TmpMnt

\* The structure that is made for a package, or for a creator, is one.
LEMMA MntTypes ==
  ASSUME NEW m \in Names, NEW p \in Int, NEW b \in BOOLEAN, NEW id \in Nat
  PROVE  /\ Mnt(m, p, b) \in MntType
         /\ [Mnt(m, p, b) EXCEPT !.automapID = id] \in MntType
         /\ [Mnt(m, p, b) EXCEPT !.automapID = id].mnt = m
         /\ Mnt(m, p, b).mnt = m
         /\ Freed \in MntType
<1>1. <<>> \in Seq(Int)
  BY EmptySeq
<1>2. /\ Mnt(m, p, b) \in MntType
      /\ Mnt(m, p, b).mnt = m
  BY <1>1 DEF Mnt, MntType
<1>3. /\ [Mnt(m, p, b) EXCEPT !.automapID = id] \in MntType
      /\ [Mnt(m, p, b) EXCEPT !.automapID = id].mnt = m
  BY <1>2 DEF MntType
<1>4. Freed \in MntType
  BY <1>1 DEF Freed, Mnt, MntType, NULL
<1> QED BY <1>2, <1>3, <1>4

\* Allocating a structure leaves the others what they are, but for the
\* children of the parent.
LEMMA AllocatedType ==
  ASSUME TablesType, NEW record \in MntType, NEW child \in Int
  PROVE  /\ Allocated(record, child) \in [0..mcount -> MntType]
         /\ Allocated(record, child)[mcount] = record
         /\ \A o \in Orders : Allocated(record, child)[o].mnt = phk[o].mnt
<1> DEFINE A(o) == IF o = mcount THEN record
                   ELSE IF o = record.parent
                     THEN [phk[o] EXCEPT !.children = Append(@, child)]
                     ELSE phk[o]
<1>1. \A o \in Orders : phk[o] \in MntType
  BY DEF TablesType
<1>2. \A s \in Seq(Int) : Append(s, child) \in Seq(Int)
  OBVIOUS
<1>3. \A o \in Orders : /\ [phk[o] EXCEPT !.children = Append(@, child)] \in MntType
                        /\ [phk[o] EXCEPT !.children = Append(@, child)].mnt = phk[o].mnt
  BY <1>1, <1>2 DEF MntType
<1>4. mcount \in Nat /\ \A o \in 0..mcount : o # mcount => o \in Orders
  BY DEF TablesType, Orders
<1>5. \A o \in 0..mcount : A(o) \in MntType
  BY <1>1, <1>3, <1>4
<1>6. \A o \in Orders : o \in 0..mcount /\ A(o).mnt = phk[o].mnt
  BY <1>1, <1>3, <1>4 DEF Orders
<1>7. Allocated(record, child) = [o \in 0..mcount |-> A(o)]
  BY DEF Allocated
<1> HIDE DEF A
<1>8. A(mcount) = record
  BY DEF A
<1> QED BY <1>4, <1>5, <1>6, <1>7, <1>8

\* A package that leaves its parent, and the others, are still structures.
LEMMA UnregisteredType ==
  ASSUME TablesType, NEW o \in Orders
  PROVE  /\ Unregistered(o) \in [Orders -> MntType]
         /\ \A q \in Orders : Unregistered(o)[q].mnt = phk[q].mnt
<1> DEFINE p == phk[o].parent
           rest == [i \in DOMAIN phk[p].children |->
                      IF phk[p].children[i] = o THEN NULL ELSE phk[p].children[i]]
<1>1. CASE phk[o].parent = NULL
  BY <1>1 DEF Unregistered, TablesType
<1>2. CASE phk[o].parent # NULL /\ p \notin Orders
  <2>1. DOMAIN phk = Orders
    BY DEF TablesType
  <2>2. Unregistered(o) = phk
    BY <1>2, <2>1 DEF Unregistered, TablesType
  <2> QED BY <2>2 DEF TablesType
<1>3. CASE phk[o].parent # NULL /\ p \in Orders
  <2>1. phk[p] \in MntType
    BY <1>3 DEF TablesType
  <2>2. phk[p].children \in Seq(Int)
    BY <2>1 DEF MntType
  <2>3. rest \in Seq(Int)
    <3>1. DOMAIN phk[p].children = 1..Len(phk[p].children)
      BY <2>2
    <3>2. o \in Int /\ NULL \in Int
      BY DEF NULL, Orders, TablesType
    <3>3. rest \in [1..Len(phk[p].children) -> Int]
      BY <2>2, <3>1, <3>2
    <3>4. Len(phk[p].children) \in Nat
      BY <2>2
    <3> HIDE DEF rest
    <3> QED BY <3>3, <3>4, SeqDef
  <2>4. /\ [phk[p] EXCEPT !.children = rest] \in MntType
        /\ [phk[p] EXCEPT !.children = rest].mnt = phk[p].mnt
    BY <2>1, <2>3 DEF MntType
  <2>5. Unregistered(o) = [phk EXCEPT ![p] = [phk[p] EXCEPT !.children = rest]]
    BY <1>3 DEF Unregistered, TablesType
  <2> HIDE DEF rest, p
  <2> QED BY <1>3, <2>4, <2>5 DEF TablesType
<1> QED BY <1>1, <1>2, <1>3

-----------------------------------------------------------------------------
(***************************************************************************)
(* The table changes: a package is added, spent or removed.                *)
(***************************************************************************)
\* PHK_Mgr_new_mnt() of a mount point that is not in the table.
LEMMA NewMntStep ==
  ASSUME TablesType, MountTable,
         NEW m \in Names, mtab[m] = NULL, new_mnt(m),
         NEW record \in MntType, record.mnt = m,
         NEW child \in Int, phk' = Allocated(record, child)
  PROVE  /\ TablesType' /\ MountTable'
         /\ \A n \in Names \ {m} : mtab'[n] = mtab[n]
<1>1. /\ mcount \in Nat /\ mcount' = mcount + 1 /\ mcount \in Int
      /\ Orders = 0..(mcount - 1) /\ Orders' = 0..mcount /\ Orders' = Orders \cup {mcount}
      /\ mcount \notin Orders /\ NULL \notin Orders'
  BY DEF TablesType, new_mnt, Orders, NULL
<1>2. phk' \in [Orders' -> MntType]
  BY <1>1, AllocatedType
<1>3. mtab' = [mtab EXCEPT ![m] = mcount]
  BY DEF new_mnt
<1>4. mtab' \in [Names -> Orders' \cup {NULL}]
  BY <1>1, <1>3 DEF TablesType
<1>5. mount_order' = [o \in Orders' |-> IF o = mcount THEN mcount ELSE mount_order[o]]
  BY <1>1 DEF new_mnt
<1>6. TablesType'
  BY <1>1, <1>2, <1>4, <1>5 DEF TablesType
<1>7. /\ phk'[mcount] = record /\ mount_order'[mcount] = mcount /\ mtab'[m] = mcount
      /\ \A o \in Orders : phk'[o].mnt = phk[o].mnt /\ mount_order'[o] = mount_order[o]
      /\ \A n \in Names \ {m} : mtab'[n] = mtab[n]
  <2>1. phk'[mcount] = record /\ \A o \in Orders : phk'[o].mnt = phk[o].mnt
    BY AllocatedType
  <2>2. mount_order'[mcount] = mcount /\ \A o \in Orders : mount_order'[o] = mount_order[o]
    BY <1>1, <1>5
  <2>3. mtab'[m] = mcount /\ \A n \in Names \ {m} : mtab'[n] = mtab[n]
    BY <1>3 DEF TablesType
  <2> QED BY <2>1, <2>2, <2>3
<1>8. ASSUME NEW n \in Names, mtab'[n] # NULL
      PROVE  (Live(mtab[n]) /\ phk[mtab[n]].mnt = n)'
  <2>1. CASE n = m
    BY <1>1, <1>7, <2>1 DEF Live
  <2>2. CASE n # m
    <3>1. mtab'[n] = mtab[n] /\ Live(mtab[n]) /\ phk[mtab[n]].mnt = n
      BY <1>7, <1>8, <2>2 DEF MountTable
    <3> QED BY <1>1, <1>7, <3>1 DEF Live
  <2> QED BY <2>1, <2>2
<1>9. ASSUME NEW o \in Orders', mount_order'[o] # NULL
      PROVE  phk'[o].mnt \in Names /\ mtab'[phk'[o].mnt] = o
  <2>1. CASE o = mcount
    BY <1>7, <2>1
  <2>2. CASE o \in Orders
    <3>1. phk'[o].mnt = phk[o].mnt /\ phk[o].mnt \in Names /\ mtab[phk[o].mnt] = o
      BY <1>7, <1>9, <2>2 DEF MountTable
    <3>2. phk[o].mnt # m
      BY <3>1, <2>2, <1>1
    <3> QED BY <1>7, <3>1, <3>2
  <2> QED BY <1>1, <2>1, <2>2
<1> QED BY <1>6, <1>7, <1>8, <1>9 DEF MountTable

\* A mount that fails at once: an order is spent and the table is unchanged.
LEMMA SpentOrderStep ==
  ASSUME TablesType, MountTable, UNCHANGED mtab, mcount' = mcount + 1,
         mount_order' = [o \in 0..mcount |-> IF o = mcount THEN NULL ELSE mount_order[o]],
         phk' \in [0..mcount -> MntType],
         \A o \in Orders : phk'[o].mnt = phk[o].mnt
  PROVE  TablesType' /\ MountTable'
<1>1. /\ mcount \in Nat
      /\ Orders' = 0..mcount /\ Orders' = Orders \cup {mcount}
      /\ mcount \notin Orders
  BY DEF TablesType, Orders
<1>2. TablesType'
  <2>1. mcount' \in Nat /\ phk' \in [Orders' -> MntType]
    BY <1>1
  <2>2. mtab' \in [Names -> Orders' \cup {NULL}]
    BY <1>1 DEF TablesType
  <2>3. mount_order' = [o \in Orders' |-> IF o = mcount THEN NULL ELSE mount_order[o]]
    BY <1>1
  <2>4. /\ mount_order' \in [Orders' -> Orders' \cup {NULL}]
        /\ \A o \in Orders' : mount_order'[o] \in {o, NULL}
    BY <1>1, <2>3 DEF TablesType
  <2> QED BY <2>1, <2>2, <2>4 DEF TablesType
<1>3. \A o \in Orders : mount_order'[o] = mount_order[o]
  BY <1>1
<1>4. mount_order'[mcount] = NULL
  BY <1>1
<1>5. \A o : Live(o) => Live(o)'
  BY <1>1, <1>3 DEF Live
<1>6. ASSUME NEW n \in Names, mtab'[n] # NULL
      PROVE  (Live(mtab[n]) /\ phk[mtab[n]].mnt = n)'
  BY <1>5, <1>6 DEF MountTable, Live
<1>7. ASSUME NEW o \in Orders', mount_order'[o] # NULL
      PROVE  phk'[o].mnt \in Names /\ mtab'[phk'[o].mnt] = o
  BY <1>1, <1>3, <1>4, <1>7 DEF MountTable
<1> QED BY <1>2, <1>6, <1>7 DEF MountTable

\* A step that changes the structures and not where they are found.
LEMMA SameMntsStep ==
  ASSUME TablesType, MountTable, UNCHANGED <<mtab, mcount, mount_order>>,
         phk' \in [Orders -> MntType],
         \A o \in Orders : phk'[o].mnt = phk[o].mnt
  PROVE  TablesType' /\ MountTable'
<1>1. Orders' = Orders /\ \A o : Live(o)' <=> Live(o)
  BY DEF Orders, Live
<1>2. TablesType'
  BY <1>1 DEF TablesType
<1>3. \A n \in Names : mtab[n] # NULL => (Live(mtab[n]) /\ phk[mtab[n]].mnt = n)'
  BY <1>1 DEF MountTable, Live
<1>4. \A o \in Orders : mount_order[o] # NULL =>
        phk'[o].mnt \in Names /\ mtab'[phk'[o].mnt] = o
  BY DEF MountTable
<1> QED BY <1>1, <1>2, <1>3, <1>4 DEF MountTable

\* PHK_Mgr_remove_mnt() of a package of the table.
LEMMA RemoveMntStep ==
  ASSUME TablesType, MountTable, NEW o \in Int, Live(o), remove_mnt(o),
         NEW before \in [Orders -> MntType],
         \A q \in Orders : before[q].mnt = phk[q].mnt,
         phk' = [before EXCEPT ![o] = Freed]
  PROVE  /\ TablesType' /\ MountTable'
         /\ \A n \in Names : mtab'[n] \in {mtab[n], NULL}
<1> DEFINE m == phk[o].mnt
<1>1. /\ o \in Orders /\ o # NULL /\ mount_order[o] = o /\ Orders' = Orders
      /\ mcount' = mcount /\ mcount \in Nat
  BY DEF Live, remove_mnt, Orders, TablesType, NULL
<1>2. m \in Names /\ mtab[m] = o
  BY <1>1 DEF MountTable
<1>3. Freed \in MntType
  BY EmptySeq DEF Freed, Mnt, MntType, NULL
<1>4. mount_order' = [mount_order EXCEPT ![o] = NULL] /\ mtab' = [mtab EXCEPT ![m] = NULL]
  BY DEF remove_mnt
<1> HIDE DEF m
<1>5. /\ mtab'[m] = NULL
      /\ \A n \in Names \ {m} : mtab'[n] = mtab[n]
      /\ mount_order'[o] = NULL
      /\ \A q \in Orders \ {o} : /\ mount_order'[q] = mount_order[q]
                                 /\ phk'[q].mnt = phk[q].mnt
  BY <1>1, <1>2, <1>4 DEF TablesType
<1>6. TablesType'
  BY <1>1, <1>2, <1>3, <1>4, <1>5 DEF TablesType
<1>7. ASSUME NEW n \in Names, mtab'[n] # NULL
      PROVE  (Live(mtab[n]) /\ phk[mtab[n]].mnt = n)'
  <2>1. n # m /\ mtab'[n] = mtab[n]
    BY <1>5, <1>7
  <2>2. Live(mtab[n]) /\ phk[mtab[n]].mnt = n
    BY <1>7, <2>1 DEF MountTable
  <2>3. mtab[n] # o
    BY <2>1, <2>2 DEF m
  <2> QED BY <1>1, <1>5, <2>1, <2>2, <2>3 DEF Live
<1>8. ASSUME NEW q \in Orders', mount_order'[q] # NULL
      PROVE  phk'[q].mnt \in Names /\ mtab'[phk'[q].mnt] = q
  <2>1. q \in Orders \ {o} /\ mount_order[q] # NULL /\ phk'[q].mnt = phk[q].mnt
    BY <1>1, <1>5, <1>8
  <2>2. phk[q].mnt \in Names /\ mtab[phk[q].mnt] = q
    BY <2>1 DEF MountTable
  <2>3. phk[q].mnt # m
    BY <1>2, <2>1, <2>2
  <2> QED BY <1>5, <2>1, <2>2, <2>3
<1> QED BY <1>5, <1>6, <1>7, <1>8 DEF MountTable

-----------------------------------------------------------------------------
(***************************************************************************)
(* The steps.                                                              *)
(***************************************************************************)
\* A step that only moves in the call stack.
LEMMA SameTablesStep ==
  ASSUME TableInv, UNCHANGED <<tables, maps, tmp_mnt_num>>,
         StackOK(stack'), exc' \in BOOLEAN, fault' \in BOOLEAN
  PROVE  TableInv'
<1>1. TablesType' /\ MapsType' /\ tmp_mnt_num' \in Nat
  BY TypeParts DEF TableInv, tables, maps, TablesType, MapsType, Orders
<1>2. TmpNamesUnused' /\ MountTable'
  BY DEF TableInv, tables, TmpNamesUnused, MountTable, Live, Orders
<1> QED BY <1>1, <1>2, TypePartsPrimed DEF TableInv

\* A step that changes the maps.
LEMMA MapsStep ==
  ASSUME TableInv, UNCHANGED <<tables, tmp_mnt_num>>, MapsType',
         StackOK(stack'), exc' \in BOOLEAN, fault' \in BOOLEAN
  PROVE  TableInv'
<1>1. TablesType' /\ tmp_mnt_num' \in Nat
  BY TypeParts DEF TableInv, tables, TablesType, Orders
<1>2. TmpNamesUnused' /\ MountTable'
  BY DEF TableInv, tables, TmpNamesUnused, MountTable, Live, Orders
<1> QED BY <1>1, <1>2, TypePartsPrimed DEF TableInv

\* A map ID more, a map less.
LEMMA ArrayAddType ==
  ASSUME MapsType, NEW owner \in Int, array_add(owner)
  PROVE  MapsType'
BY DEF MapsType, array_add

LEMMA UnloadType ==
  ASSUME MapsType, exc \in BOOLEAN, NEW id, Automap_unload(id)
  PROVE  MapsType' /\ exc' \in BOOLEAN
<1>1. CASE ValidID(id)
  <2>1. exc' = exc /\ map_count' = map_count /\ map_array' = [map_array EXCEPT ![id] = NULL]
    BY <1>1 DEF Automap_unload
  <2>2. NULL \in Int
    BY DEF NULL
  <2>3. MapsType'
    BY <2>1, <2>2 DEF MapsType
  <2> QED BY <2>1, <2>3
<1>2. CASE ~ValidID(id)
  BY <1>2 DEF MapsType, Automap_unload, maps
<1> QED BY <1>1, <1>2

\* A mount point is a name, and the order of its parent an order or NULL.
LEMMA MntNames ==
  ASSUME TablesType, NEW m \in Mnts
  PROVE  m \in Names /\ mtab[m] \in Int /\ ParentOrder(m) \in Int
<1>1. m \in Names /\ \A n \in Names : mtab[n] \in Int
  BY DEF Names, TablesType, Orders, NULL
<1>2. ParentOf[m] # NoMnt => ParentOf[m] \in Names
  BY ConstantsAssumption DEF Names
<1> QED BY <1>1, <1>2 DEF ParentOrder, NULL

\* A prolog frame may be pushed first.
LEMMA CallersOK ==
  ASSUME StackOK(stack), NEW base \in Callers
  PROVE  StackOK(base)
<1>1. Prolog \in FrameType
  BY DEF Prolog, Frame, FrameType, NULL
<1> QED BY <1>1, PushOK DEF Callers

\* Every action keeps the invariant of the table.
LEMMA TableInvStep ==
  ASSUME TableInv, [Next]_vars
  PROVE  TableInv'
<1> USE DEF TableInv
<1>0. /\ TablesType /\ MapsType /\ StackOK(stack) /\ MountTable
      /\ tmp_mnt_num \in Nat /\ exc \in BOOLEAN /\ fault \in BOOLEAN
  BY TypeParts
<1>00. TRUE \in BOOLEAN /\ FALSE \in BOOLEAN
  OBVIOUS
<1>01. \A m \in Mnts : \A n \in 0..(MaxTmp - 1) : TmpMnt(n) \in Names \ {m}
  BY ConstantsAssumption DEF Names
<1>1. ASSUME NEW m \in Mnts, MountUnknown(m)
      PROVE  TableInv'
  BY <1>0, <1>1, SameTablesStep DEF MountUnknown
<1>2. ASSUME NEW m \in Mnts, MountExisting(m)
      PROVE  TableInv'
  <2>1. PICK base \in Callers : stack' = Returned(base, mtab[m])
    BY <1>2 DEF MountExisting
  <2>2. StackOK(stack')
    BY <1>0, <2>1, MntNames, CallersOK, ReturnedOK
  <2> QED BY <1>0, <1>2, <2>2, SameTablesStep DEF MountExisting
<1>3. ASSUME NEW m \in Mnts, NEW b \in Flags, MountNew(m, b)
      PROVE  TableInv'
  <2> DEFINE p == ParentOrder(m)
             r == Mnt(m, p, b)
             rm == [r EXCEPT !.automapID = map_count]
  <2>1. /\ m \in Names /\ p \in Int /\ mtab[m] = NULL /\ new_mnt(m) /\ b \in BOOLEAN
        /\ mcount \in Int /\ map_count \in Nat
    BY <1>0, <1>3, MntNames, ConstantsAssumption DEF MountNew, TablesType, MapsType
  <2>2. r \in MntType /\ r.mnt = m /\ rm \in MntType /\ rm.mnt = m
    BY <2>1, MntTypes
  <2>3. phk' = Allocated(rm, mcount) \/ phk' = Allocated(r, mcount)
    BY <1>3 DEF MountNew
  <2> HIDE DEF p, r, rm
  <2>4. TablesType' /\ MountTable' /\ \A n \in Names \ {m} : mtab'[n] = mtab[n]
    BY <1>0, <2>1, <2>2, <2>3, NewMntStep
  <2>5. MapsType'
    BY <1>0, <1>3, <2>1, ArrayAddType DEF MountNew, maps, MapsType
  <2>6. PICK base \in Callers : stack' = Append(base, Frame("mount", mcount, "script", 0))
    BY <1>3 DEF MountNew
  <2>7. StackOK(stack')
    BY <1>0, <2>1, <2>6, CallersOK, FrameTypes, PushOK DEF PCs
  <2>8. TmpNamesUnused'
    BY <1>0, <1>3, <1>01, <2>4 DEF TmpNamesUnused, MountNew
  <2> QED BY <1>0, <1>3, <2>4, <2>5, <2>7, <2>8, TypePartsPrimed DEF MountNew
<1>4. ASSUME NEW m \in Mnts, MountNewFails(m)
      PROVE  TableInv'
  <2> DEFINE r == Mnt(m, ParentOrder(m), FALSE)
             A == Allocated(r, NULL)
  <2>0. NULL \in Int /\ 0 \in Nat
    BY DEF NULL
  <2>1. r \in MntType /\ Freed \in MntType
    BY <1>0, <1>00, <2>0, MntNames, MntTypes
  <2>2. A \in [0..mcount -> MntType] /\ \A o \in Orders : A[o].mnt = phk[o].mnt
    BY <1>0, <2>0, <2>1, AllocatedType
  <2>3. phk' = [A EXCEPT ![mcount] = Freed]
    BY <1>4 DEF MountNewFails
  <2> HIDE DEF A
  <2>4. /\ phk' \in [0..mcount -> MntType]
        /\ \A o \in Orders : phk'[o].mnt = phk[o].mnt
    BY <1>0, <2>1, <2>2, <2>3 DEF TablesType, Orders
  <2>5. TablesType' /\ MountTable'
    BY <1>0, <1>4, <2>4, SpentOrderStep DEF MountNewFails
  <2>6. MapsType' /\ StackOK(stack') /\ TmpNamesUnused'
    BY <1>0, <1>4 DEF MountNewFails, maps, MapsType, TmpNamesUnused
  <2> QED BY <1>0, <1>4, <2>5, <2>6, TypePartsPrimed DEF MountNewFails
<1>5. ASSUME NEW ok \in BOOLEAN, MountCreator(ok)
      PROVE  TableInv'
  <2> DEFINE m == TmpMnt(tmp_mnt_num)
  <2>1. /\ tmp_mnt_num \in 0..(MaxTmp - 1) /\ tmp_mnt_num' = tmp_mnt_num + 1
        /\ m \in Names /\ mtab[m] = NULL
    BY <1>0, <1>5, ConstantsAssumption DEF MountCreator, Names, TmpNamesUnused
  <2>2. NULL \in Int /\ 0 \in Nat
    BY DEF NULL
  <2>3. /\ Mnt(m, NULL, FALSE) \in MntType /\ Mnt(m, NULL, FALSE).mnt = m
        /\ Freed \in MntType
    BY <1>00, <2>1, <2>2, MntTypes
  <2>4. /\ TablesType' /\ MountTable'
        /\ \A n \in Names \ {m} : mtab'[n] = mtab[n]
    <3>1. CASE ok
      <4>1. new_mnt(m) /\ phk' = Allocated(Mnt(m, NULL, FALSE), NULL)
        BY <1>5, <3>1 DEF MountCreator
      <4> QED BY <1>0, <2>1, <2>2, <2>3, <4>1, NewMntStep
    <3>2. CASE ~ok
      <4>1. /\ phk' = Allocated(Freed, NULL) /\ UNCHANGED mtab /\ mcount' = mcount + 1
            /\ mount_order' = [o \in 0..mcount |-> IF o = mcount THEN NULL ELSE mount_order[o]]
        BY <1>5, <3>2 DEF MountCreator
      <4>2. /\ phk' \in [0..mcount -> MntType]
            /\ \A o \in Orders : phk'[o].mnt = phk[o].mnt
        BY <1>0, <2>2, <2>3, <4>1, AllocatedType
      <4> QED BY <1>0, <4>1, <4>2, SpentOrderStep
    <3> QED BY <3>1, <3>2
  <2>5. TmpNamesUnused'
    <3> SUFFICES ASSUME NEW n \in tmp_mnt_num'..(MaxTmp - 1)
                 PROVE  mtab'[TmpMnt(n)] = NULL
      BY DEF TmpNamesUnused
    <3>1. n \in tmp_mnt_num..(MaxTmp - 1) /\ n # tmp_mnt_num /\ n \in 0..(MaxTmp - 1)
      BY <1>0, <2>1, ConstantsAssumption
    <3>2. TmpMnt(n) # m /\ TmpMnt(n) \in Names
      BY <3>1, TmpMntInjective DEF Names
    <3> QED BY <2>4, <3>1, <3>2 DEF TmpNamesUnused
  <2>6. MapsType' /\ StackOK(stack') /\ exc' \in BOOLEAN /\ fault' \in BOOLEAN
    BY <1>0, <1>5 DEF MountCreator, maps, MapsType
  <2>7. tmp_mnt_num' \in Nat
    BY <1>0, <2>1
  <2> QED BY <2>4, <2>5, <2>6, <2>7, TypePartsPrimed
<1>6. ASSUME NEW m \in Names, Umount(m)
      PROVE  TableInv'
  <2>1. mtab[m] \in Int
    BY <1>0 DEF TablesType, Orders, NULL
  <2>2. StackOK(stack')
    BY <1>0, <1>6, <2>1, FrameTypes, PushOK DEF Umount, PCs
  <2> QED BY <1>0, <1>6, <2>2, SameTablesStep DEF Umount
<1>7. ASSUME ~fault, Top.fn \in {"mount", "umount", "prolog"}, Safe(Top)
      PROVE  /\ stack[Len(stack)] # MainScript /\ Live(Top.mp) /\ Top \in FrameType
             /\ Top.mp \in Orders /\ Top.mp \in Int
  <2>1. Top \in FrameType
    BY <1>0, TopType
  <2>2. Live(Top.mp)
    BY <1>7 DEF Safe, Reads
  <2> QED BY <1>0, <1>7, <2>1, <2>2, TopNotMain DEF Live, FrameType
<1>8. CASE MountScript
  <2>1. StackOK(stack')
    BY <1>0, <1>7, <1>8, FrameTypes, CallOK, ResumeOK DEF MountScript, At, PCs
  <2> QED BY <1>0, <1>8, <2>1, SameTablesStep DEF MountScript
<1>9. CASE MountPlugin
  <2>1. StackOK(stack')
    BY <1>0, <1>7, <1>9, FrameTypes, CallOK, ResumeOK DEF MountPlugin, At, PCs
  <2> QED BY <1>0, <1>9, <2>1, SameTablesStep DEF MountPlugin
<1>10. CASE MountDone
  <2> DEFINE b == phk[Top.mp].mnt \in HasPlugin
  <2>1. b \in BOOLEAN /\ Top.mp \in Orders /\ Top.mp \in Int
        /\ stack[Len(stack)] # MainScript
    BY <1>7, <1>10 DEF MountDone, At
  <2>2. phk' = [phk EXCEPT ![Top.mp].plugin = b]
    BY <1>10 DEF MountDone
  <2> HIDE DEF b
  <2>3. phk' \in [Orders -> MntType] /\ \A o \in Orders : phk'[o].mnt = phk[o].mnt
    <3>1. \A r \in MntType : /\ [r EXCEPT !.plugin = b] \in MntType
                             /\ [r EXCEPT !.plugin = b].mnt = r.mnt
      BY <2>1 DEF MntType
    <3>2. phk' = [phk EXCEPT ![Top.mp] = [phk[Top.mp] EXCEPT !.plugin = b]]
      BY <2>2
    <3> QED BY <1>0, <2>1, <3>1, <3>2 DEF TablesType
  <2>4. TablesType' /\ MountTable'
    BY <1>0, <1>10, <2>3, SameMntsStep DEF MountDone
  <2>5. StackOK(stack')
    BY <1>0, <1>10, <2>1, PoppedOK, ReturnedOK DEF MountDone
  <2>6. MapsType' /\ TmpNamesUnused' /\ tmp_mnt_num' = tmp_mnt_num /\ exc' = exc /\ fault' = fault
    BY <1>0, <1>10 DEF MountDone, maps, MapsType, TmpNamesUnused
  <2> QED BY <1>0, <2>4, <2>5, <2>6, TypePartsPrimed
<1>11. CASE MountAbort
  <2>1. /\ Live(Top.mp) /\ Top.mp \in Orders /\ Top.mp \in Int
        /\ stack[Len(stack)] # MainScript
    BY <1>7, <1>11 DEF MountAbort
  <2>2. /\ TablesType' /\ MountTable'
        /\ \A n \in Names : mtab'[n] \in {mtab[n], NULL}
    BY <1>0, <1>11, <2>1, UnregisteredType, RemoveMntStep DEF MountAbort
  <2>3. StackOK(stack')
    BY <1>0, <1>11, <2>1, PoppedOK, ReturnedOK DEF MountAbort
  <2>4. MapsType' /\ tmp_mnt_num' = tmp_mnt_num /\ exc' = exc /\ fault' = fault
    BY <1>0, <1>11 DEF MountAbort, maps, MapsType
  <2>5. TmpNamesUnused'
    BY <1>0, <2>2, <2>4 DEF TmpNamesUnused, Names
  <2> QED BY <1>0, <2>2, <2>3, <2>4, <2>5, TypePartsPrimed
<1>12. CASE UmountChild
  <2> DEFINE child == phk[Top.mp].children[Top.i + 1]
             f == [Top EXCEPT !.i = @ + 1]
             next == [stack EXCEPT ![Len(stack)].i = @ + 1]
  <2>1. /\ Top \in FrameType /\ Top.mp \in Orders /\ stack[Len(stack)] # MainScript
    BY <1>7, <1>12 DEF UmountChild, At
  <2>2. phk[Top.mp].children \in Seq(Int)
    BY <1>0, <2>1 DEF TablesType, MntType
  <2>3. child \in Int /\ f \in FrameType
    <3>1. Top.i \in Nat /\ Top.i < Len(phk[Top.mp].children)
      BY <1>12, <2>1 DEF UmountChild, FrameType
    <3>2. child \in Int
      BY <2>2, <3>1
    <3>3. f \in FrameType
      BY <2>1, <3>1 DEF FrameType
    <3> QED BY <3>2, <3>3
  <2>4. next = [stack EXCEPT ![Len(stack)] = f]
    BY <1>0 DEF StackOK, Top
  <2>5. StackOK(next)
    BY <1>0, <2>1, <2>3, <2>4, UpdateOK
  <2>6. stack' = IF child = NULL THEN next ELSE Append(next, UmountFrame(child))
    BY <1>12 DEF UmountChild
  <2> HIDE DEF child, f, next
  <2>7. StackOK(stack')
    BY <2>3, <2>5, <2>6, FrameTypes, PushOK DEF PCs
  <2> QED BY <1>0, <1>12, <2>7, SameTablesStep DEF UmountChild
<1>13. CASE UmountUnregister
  <2>1. /\ Live(Top.mp) /\ Top.mp \in Orders /\ Top.mp \in Int
        /\ stack[Len(stack)] # MainScript
    BY <1>7, <1>13 DEF UmountUnregister, At
  <2> DEFINE U == Unregistered(Top.mp)
  <2>2. U \in [Orders -> MntType] /\ \A q \in Orders : U[q].mnt = phk[q].mnt
    BY <1>0, <2>1, UnregisteredType
  <2>3. phk' = [U EXCEPT ![Top.mp].plugin = FALSE]
    BY <1>13 DEF UmountUnregister
  <2> HIDE DEF U
  <2>4. phk' \in [Orders -> MntType] /\ \A o \in Orders : phk'[o].mnt = phk[o].mnt
    <3>1. \A r \in MntType : /\ [r EXCEPT !.plugin = FALSE] \in MntType
                             /\ [r EXCEPT !.plugin = FALSE].mnt = r.mnt
      BY DEF MntType
    <3>2. phk' = [U EXCEPT ![Top.mp] = [U[Top.mp] EXCEPT !.plugin = FALSE]]
      BY <2>3
    <3> QED BY <2>1, <2>2, <3>1, <3>2
  <2>5. TablesType' /\ MountTable'
    BY <1>0, <1>13, <2>4, SameMntsStep DEF UmountUnregister
  <2>6. StackOK(stack')
    BY <1>0, <1>13, <2>1, FrameTypes, CallOK, ResumeOK DEF UmountUnregister, PCs
  <2>7. MapsType' /\ TmpNamesUnused' /\ tmp_mnt_num' = tmp_mnt_num /\ exc' = exc /\ fault' = fault
    BY <1>0, <1>13 DEF UmountUnregister, maps, MapsType, TmpNamesUnused
  <2> QED BY <1>0, <2>5, <2>6, <2>7, TypePartsPrimed
<1>14. CASE UmountScript
  <2>1. StackOK(stack')
    BY <1>0, <1>7, <1>14, FrameTypes, CallOK, ResumeOK DEF UmountScript, At, PCs
  <2> QED BY <1>0, <1>14, <2>1, SameTablesStep DEF UmountScript
<1>15. CASE UmountFinish
  <2>1. /\ Live(Top.mp) /\ Top.mp \in Orders /\ Top.mp \in Int
        /\ stack[Len(stack)] # MainScript
    BY <1>7, <1>15 DEF UmountFinish, At
  <2>2. /\ TablesType' /\ MountTable'
        /\ \A n \in Names : mtab'[n] \in {mtab[n], NULL}
    BY <1>0, <1>15, <2>1, RemoveMntStep DEF UmountFinish, TablesType
  <2>3. StackOK(stack')
    BY <1>0, <1>15, <2>1, PoppedOK DEF UmountFinish
  <2>4. MapsType' /\ exc' \in BOOLEAN /\ tmp_mnt_num' = tmp_mnt_num /\ fault' = fault
    <3>1. CASE phk[Top.mp].mnt \in HasMap
      BY <1>0, <1>15, <3>1, UnloadType DEF UmountFinish
    <3>2. CASE phk[Top.mp].mnt \notin HasMap
      BY <1>0, <1>15, <3>2 DEF UmountFinish, maps, MapsType
    <3> QED BY <3>1, <3>2
  <2>5. TmpNamesUnused'
    BY <1>0, <2>2, <2>4 DEF TmpNamesUnused, Names
  <2> QED BY <1>0, <2>2, <2>3, <2>4, <2>5, TypePartsPrimed
<1>16. CASE PrologLib
  <2>1. StackOK(stack')
    BY <1>0, <1>7, <1>16, FrameTypes, CallOK, ResumeOK DEF PrologLib, At, PCs
  <2> QED BY <1>0, <1>16, <2>1, SameTablesStep DEF PrologLib
<1>17. CASE PrologEnd
  <2>1. StackOK(stack')
    BY <1>0, <1>7, <1>17, FrameTypes, PoppedOK, PushOK DEF PrologEnd, At, PCs
  <2> QED BY <1>0, <1>17, <2>1, SameTablesStep DEF PrologEnd
<1>18. CASE LoadMap
  <2>1. MapsType'
    BY <1>0, <1>18, ArrayAddType DEF LoadMap, Direct
  <2> QED BY <1>0, <1>18, <2>1, MapsStep DEF LoadMap
<1>19. ASSUME NEW id, UnloadMap(id)
       PROVE  TableInv'
  <2>1. MapsType' /\ exc' \in BOOLEAN
    BY <1>0, <1>19, UnloadType DEF UnloadMap
  <2> QED BY <1>0, <1>19, <2>1, MapsStep DEF UnloadMap
<1>20. CASE Throw \/ Catch
  BY <1>0, <1>20, SameTablesStep DEF Throw, Catch
<1>21. CASE ScriptReturn
  <2>1. StackOK(stack')
    BY <1>0, <1>21, TopNotMain, PoppedOK DEF ScriptReturn
  <2> QED BY <1>0, <1>21, <2>1, SameTablesStep DEF ScriptReturn
<1>22. CASE UseAfterFree \/ \E o \in Orders : ParentMnt(o)
  BY <1>0, <1>22, SameTablesStep DEF UseAfterFree, ParentMnt
<1>23. CASE RShutdown
  <2>1. /\ mcount' = 0 /\ Orders' = {}
        /\ mtab' = [m \in Names |-> NULL]
        /\ mount_order' = [o \in {} |-> NULL] /\ phk' = [o \in {} |-> Freed]
    BY <1>23 DEF RShutdown, Orders
  <2>2. TablesType'
    BY <2>1 DEF TablesType
  <2>3. MountTable'
    BY <2>1 DEF MountTable
  <2>4. MapsType' /\ tmp_mnt_num' = tmp_mnt_num /\ exc' \in BOOLEAN /\ fault' = fault
    BY <1>23 DEF RShutdown, MapsType, NULL
  <2>5. StackOK(stack')
    <3>1. stack' = <<MainScript>>
      BY <1>23 DEF RShutdown
    <3>2. MainScript \in FrameType
      BY FrameTypes DEF PCs
    <3> QED BY <3>1, <3>2 DEF StackOK
  <2>6. TmpNamesUnused'
    BY <1>0, <2>1, <2>4 DEF TmpNamesUnused, Names
  <2> QED BY <1>0, <2>2, <2>3, <2>4, <2>5, <2>6, TypePartsPrimed
<1>24. CASE UNCHANGED vars
  BY <1>0, <1>24, SameTablesStep DEF vars, tables, maps
<1> QED
  BY <1>1, <1>2, <1>3, <1>4, <1>5, <1>6, <1>8, <1>9, <1>10, <1>11, <1>12, <1>13,
     <1>14, <1>15, <1>16, <1>17, <1>18, <1>19, <1>20, <1>21, <1>22, <1>23, <1>24
  DEF Next, MountStep, UmountStep, PrologStep

\* The table of a request begins in the invariant.
LEMMA TableInvInit ==
  ASSUME Init
  PROVE  TableInv
<1>1. /\ mcount = 0 /\ Orders = {} /\ mtab = [m \in Names |-> NULL]
      /\ mount_order = [o \in {} |-> NULL] /\ phk = [o \in {} |-> Freed]
  BY DEF Init, Orders
<1>2. TablesType /\ MountTable
  BY <1>1 DEF TablesType, MountTable
<1>3. MapsType /\ tmp_mnt_num \in Nat /\ exc \in BOOLEAN /\ fault \in BOOLEAN
  BY DEF Init, MapsType, NULL
<1>4. StackOK(stack)
  <2>1. stack = <<MainScript>>
    BY DEF Init
  <2>2. MainScript \in FrameType
    BY DEF MainScript, Script, Frame, FrameType, NULL
  <2> QED BY <2>1, <2>2 DEF StackOK
<1>5. TmpNamesUnused
  BY <1>1, <1>3 DEF TmpNamesUnused, Names
<1> QED BY <1>2, <1>3, <1>4, <1>5, TypeParts DEF TableInv

-----------------------------------------------------------------------------
\* The variables keep their types, whatever the scripts do: in particular the
\* C code never indexes mount_order or map_array out of its bounds.
THEOREM TypeCorrect == Spec => []TypeOK
<1>1. TableInv => TypeOK
  BY DEF TableInv
<1> QED BY <1>1, TableInvInit, TableInvStep, PTL DEF Spec

\* PHK_G(mtab) and PHK_G(mount_order) agree, whatever the scripts do.
THEOREM MountTableCorrect == Spec => []MountTable
<1>1. TableInv => MountTable
  BY DEF TableInv
<1> QED BY <1>1, TableInvInit, TableInvStep, PTL DEF Spec

\* No step gives an order again or moves a structure to another mount point.
LEMMA StaleStep ==
  ASSUME TableInv, [Next]_vars, mcount' # 0, NEW o \in Orders
  PROVE  /\ mount_order'[o] \in {mount_order[o], NULL}
         /\ mount_order'[o] # NULL => phk'[o].mnt = phk[o].mnt
<1> DEFINE Same == /\ mount_order'[o] \in {mount_order[o], NULL}
                   /\ mount_order'[o] # NULL => phk'[o].mnt = phk[o].mnt
<1> SUFFICES Same
  OBVIOUS
<1>0. /\ TablesType /\ MapsType /\ StackOK(stack) /\ tmp_mnt_num \in Nat
      /\ o \in 0..mcount /\ o # mcount /\ mcount \in Int
  BY TypeParts DEF TableInv, TablesType, Orders
<1>1. ASSUME NEW m \in Names, new_mnt(m), NEW record \in MntType, NEW child \in Int,
             phk' = Allocated(record, child)
      PROVE  Same
  BY <1>0, <1>1, AllocatedType DEF new_mnt
<1>2. ASSUME NEW record \in MntType, NEW child \in Int,
             phk' = Allocated(record, child)
                \/ phk' = [Allocated(record, child) EXCEPT ![mcount] = Freed],
             mount_order' = [q \in 0..mcount |-> IF q = mcount THEN NULL ELSE mount_order[q]]
      PROVE  Same
  <2>1. mount_order'[o] = mount_order[o]
    BY <1>0, <1>2
  <2> DEFINE A == Allocated(record, child)
  <2>2. A \in [0..mcount -> MntType] /\ A[o].mnt = phk[o].mnt
    BY <1>0, AllocatedType
  <2>3. phk' = A \/ phk' = [A EXCEPT ![mcount] = Freed]
    BY <1>2
  <2> HIDE DEF A
  <2>4. phk'[o].mnt = phk[o].mnt
    BY <1>0, <2>2, <2>3
  <2> QED BY <2>1, <2>4
<1>3. ASSUME NEW q \in Orders, remove_mnt(q), NEW before \in [Orders -> MntType],
             \A r \in Orders : before[r].mnt = phk[r].mnt, phk' = [before EXCEPT ![q] = Freed]
      PROVE  Same
  <2>1. mount_order' = [mount_order EXCEPT ![q] = NULL]
    BY <1>3 DEF remove_mnt
  <2>2. CASE o = q
    BY <1>0, <2>1, <2>2 DEF TablesType
  <2>3. CASE o # q
    BY <1>0, <1>3, <2>1, <2>3 DEF TablesType
  <2> QED BY <2>2, <2>3
<1>4. ASSUME NEW q \in Orders, NEW before \in [Orders -> MntType], NEW b,
             \A r \in Orders : before[r].mnt = phk[r].mnt,
             mount_order' = mount_order, phk' = [before EXCEPT ![q].plugin = b]
      PROVE  Same
  <2>1. before[q] \in MntType
    BY <1>4
  <2>2. [before[q] EXCEPT !.plugin = b].mnt = before[q].mnt
    BY <2>1 DEF MntType
  <2>3. phk'[o].mnt = before[o].mnt
    BY <1>4, <2>2
  <2> QED BY <1>4, <2>3
<1>5. ASSUME UNCHANGED <<mount_order, phk>>
      PROVE  Same
  BY <1>5
<1> HIDE DEF Same
<1>6. 0 \in Nat /\ NULL \in Int /\ FALSE \in BOOLEAN
  BY DEF NULL
<1>7. ASSUME NEW m \in Mnts, NEW b \in Flags, MountNew(m, b)
      PROVE  Same
  <2>1. /\ m \in Names /\ ParentOrder(m) \in Int /\ new_mnt(m) /\ b \in BOOLEAN
        /\ map_count \in Nat
    BY <1>0, <1>7, MntNames, ConstantsAssumption DEF MountNew, MapsType
  <2>2. \/ phk' = Allocated([Mnt(m, ParentOrder(m), b) EXCEPT !.automapID = map_count], mcount)
        \/ phk' = Allocated(Mnt(m, ParentOrder(m), b), mcount)
    BY <1>7 DEF MountNew
  <2> QED BY <1>0, <1>1, <2>1, <2>2, MntTypes
<1>8. ASSUME NEW m \in Mnts, MountNewFails(m)
      PROVE  Same
  <2>1. Mnt(m, ParentOrder(m), FALSE) \in MntType
    BY <1>0, <1>6, MntNames, MntTypes
  <2> QED BY <1>2, <1>6, <1>8, <2>1 DEF MountNewFails
<1>9. ASSUME NEW ok \in BOOLEAN, MountCreator(ok)
      PROVE  Same
  <2> DEFINE m == TmpMnt(tmp_mnt_num)
  <2>1. m \in Names
    BY <1>0, <1>9, ConstantsAssumption DEF MountCreator, Names
  <2>2. Mnt(m, NULL, FALSE) \in MntType /\ Freed \in MntType
    BY <1>6, <2>1, MntTypes
  <2> QED BY <1>1, <1>2, <1>6, <1>9, <2>1, <2>2 DEF MountCreator
<1>10. ASSUME ~fault, Top.fn # "script", Safe(Top)
       PROVE  Top.mp \in Orders
  BY <1>10 DEF Safe, Reads, Live
<1>11. phk \in [Orders -> MntType]
  BY <1>0 DEF TablesType
<1>12. CASE MountDone
  BY <1>4, <1>10, <1>11, <1>12 DEF MountDone, At
<1>13. CASE MountAbort
  BY <1>0, <1>3, <1>10, <1>13, UnregisteredType DEF MountAbort
<1>14. CASE UmountUnregister
  BY <1>0, <1>4, <1>10, <1>14, UnregisteredType DEF UmountUnregister, At
<1>15. CASE UmountFinish
  BY <1>3, <1>10, <1>11, <1>15 DEF UmountFinish, At
<1>16. CASE RShutdown
  BY <1>16 DEF RShutdown
<1>17. CASE UNCHANGED tables
  BY <1>5, <1>17 DEF tables
<1>18. Same
  BY <1>7, <1>8, <1>9, <1>12, <1>13, <1>14, <1>15, <1>16, <1>17
  DEF Next, MountStep, UmountStep, PrologStep, vars, tables,
      MountUnknown, MountExisting, MountScript, MountPlugin, Umount, UmountChild,
      UmountScript, PrologLib, PrologEnd, LoadMap, UnloadMap, Throw, Catch,
      ScriptReturn, ParentMnt, UseAfterFree
<1> QED BY <1>18

\* A PHK object that outlives its package never leads to another one, whatever
\* the scripts do.
THEOREM StaleObjectsCorrect == Spec => StaleObjects
<1>1. TableInv /\ [Next]_vars =>
        [mcount' # 0 =>
           \A o \in Orders :
             /\ mount_order'[o] \in {mount_order[o], NULL}
             /\ mount_order'[o] # NULL => phk'[o].mnt = phk[o].mnt]_vars
  BY StaleStep
<1> QED BY <1>1, TableInvInit, TableInvStep, PTL DEF Spec, StaleObjects
-----------------------------------------------------------------------------
(***************************************************************************)
(* The maps and the plugins of the packages.                               *)
(***************************************************************************)
\* Maps are owned by packages of this request, or by user code, ...
OwnersInv == \A id \in 1..(map_count - 1) : map_array[id] \in Direct..(mcount - 1)

\* ... a package has the map that its mount has loaded, until it is unloaded, ...
HasOwnMap(o) ==
  phk[o].mnt \in HasMap =>
    /\ phk[o].automapID \in 1..(map_count - 1)
    /\ map_array[phk[o].automapID] \in {o, NULL}

\* ... and no other, ...
HasNoOtherMap(o) ==
  \A id \in 1..(map_count - 1) :
    map_array[id] = o => phk[o].mnt \in HasMap /\ phk[o].automapID = id

\* ... and its plugin, unless a call is mounting or unmounting it.
HasPluginBuilt(o) == InCall(o) \/ phk[o].plugin = (phk[o].mnt \in HasPlugin)

LoadedInv ==
  /\ OwnersInv
  /\ \A o \in Orders : Live(o) => HasOwnMap(o) /\ HasNoOtherMap(o) /\ HasPluginBuilt(o)

\* The maps of a later state: maps are unloaded, and those that are added have new IDs.
MapsLater ==
  /\ map_count' \in Nat /\ map_count <= map_count'
  /\ \A id \in 1..(map_count - 1) : map_array'[id] \in {map_array[id], NULL}
  /\ \A id \in map_count..(map_count' - 1) :
       map_array'[id] \notin Orders /\ map_array'[id] \in Direct..(mcount' - 1)

LEMMA SameMapsLater ==
  ASSUME MapsType, UNCHANGED maps
  PROVE  MapsLater
BY DEF MapsType, MapsLater, maps

LEMMA AddedMapLater ==
  ASSUME MapsType, NEW owner \in Direct..(mcount' - 1), owner \notin Orders, array_add(owner)
  PROVE  MapsLater /\ map_count' = map_count + 1
         /\ \A id \in 1..(map_count' - 1) : id = map_count => map_array'[id] = owner
<1>1. /\ map_count \in Nat \ {0} /\ map_count' = map_count + 1
      /\ map_array' = [id \in 0..map_count |->
                         IF id = map_count THEN owner ELSE map_array[id]]
  BY DEF MapsType, array_add
<1>2. \A id \in 1..(map_count - 1) : id \in 0..map_count /\ id # map_count
  BY <1>1
<1>3. \A id \in map_count..(map_count' - 1) : id = map_count /\ id \in 0..map_count
  BY <1>1
<1>4. \A id \in 1..(map_count' - 1) : id = map_count => map_array'[id] = owner
  BY <1>1
<1> QED BY <1>1, <1>2, <1>3, <1>4 DEF MapsLater

LEMMA UnloadedMapLater ==
  ASSUME MapsType, NEW id, Automap_unload(id)
  PROVE  /\ MapsLater /\ map_count' = map_count
         /\ id \in 1..(map_count - 1) => map_array'[id] = NULL
         /\ \A j \in 1..(map_count - 1) : j # id => map_array'[j] = map_array[j]
<1>1. map_count \in Nat \ {0} /\ map_array \in [0..(map_count - 1) -> Int]
  BY DEF MapsType
<1>2. CASE ValidID(id)
  <2>1. map_array' = [map_array EXCEPT ![id] = NULL] /\ map_count' = map_count
    BY <1>2 DEF Automap_unload
  <2> QED BY <1>1, <2>1 DEF MapsLater
<1>3. CASE ~ValidID(id)
  <2>1. UNCHANGED maps
    BY <1>3 DEF Automap_unload
  <2> QED BY <1>1, <1>3, <2>1 DEF MapsLater, maps, ValidID
<1> QED BY <1>2, <1>3

\* A package keeps what it has loaded.
LEMMA LoadedLater ==
  ASSUME TablesType, MapsType, LoadedInv, MapsLater, NEW o \in Orders, Live(o),
         phk'[o].mnt = phk[o].mnt, phk'[o].automapID = phk[o].automapID
  PROVE  HasOwnMap(o)' /\ HasNoOtherMap(o)'
<1>1. /\ HasOwnMap(o) /\ HasNoOtherMap(o) /\ map_count \in Nat /\ map_count' \in Nat
      /\ map_count <= map_count' /\ o # NULL
  BY DEF LoadedInv, MapsType, MapsLater, Orders, TablesType, NULL
<1>2. HasOwnMap(o)'
  BY <1>1 DEF HasOwnMap, MapsLater
<1>3. HasNoOtherMap(o)'
  <2> SUFFICES ASSUME NEW id \in 1..(map_count' - 1), map_array'[id] = o
               PROVE  phk'[o].mnt \in HasMap /\ phk'[o].automapID = id
    BY DEF HasNoOtherMap
  <2>1. id \in 1..(map_count - 1) \/ id \in map_count..(map_count' - 1)
    <3>1. \A a, b \in Nat : \A i \in 1..(b - 1) : i \in 1..(a - 1) \/ i \in a..(b - 1)
      OBVIOUS
    <3> QED BY <1>1, <3>1
  <2>2. id \in 1..(map_count - 1) /\ map_array[id] = o
    BY <1>1, <2>1 DEF MapsLater
  <2> QED BY <1>1, <2>2 DEF HasNoOtherMap
<1> QED BY <1>2, <1>3

LEMMA LoadedKept ==
  ASSUME TablesType, MapsType, LoadedInv, MapsLater, mcount' \in Nat, mcount <= mcount',
         \A o \in Orders : Live(o)' =>
           /\ Live(o) /\ phk'[o].mnt = phk[o].mnt /\ phk'[o].automapID = phk[o].automapID
           /\ HasPluginBuilt(o)',
         \A o \in Orders' \ Orders : Live(o)' =>
           HasOwnMap(o)' /\ HasNoOtherMap(o)' /\ HasPluginBuilt(o)'
  PROVE  LoadedInv'
<1>1. mcount \in Nat /\ map_count \in Nat \ {0}
  BY DEF TablesType, MapsType
<1>2. OwnersInv'
  <2> SUFFICES ASSUME NEW id \in 1..(map_count' - 1)
               PROVE  map_array'[id] \in Direct..(mcount' - 1)
    BY DEF OwnersInv, Direct
  <2>1. CASE id \in 1..(map_count - 1)
    BY <1>1, <2>1 DEF LoadedInv, OwnersInv, MapsLater, Direct, NULL
  <2>2. CASE id \in map_count..(map_count' - 1)
    BY <2>2 DEF MapsLater
  <2> QED BY <1>1, <2>1, <2>2 DEF MapsLater
<1>3. ASSUME NEW o \in Orders, Live(o)'
      PROVE  HasOwnMap(o)' /\ HasNoOtherMap(o)' /\ HasPluginBuilt(o)'
  BY <1>3, LoadedLater
<1>4. \A o \in Orders' : Live(o)' =>
        HasOwnMap(o)' /\ HasNoOtherMap(o)' /\ HasPluginBuilt(o)'
  BY <1>3
<1> QED BY <1>2, <1>4 DEF LoadedInv

(***************************************************************************)
(* The calls that mount or unmount a package.                              *)
(***************************************************************************)
CallOf(f, o) == f.fn \in {"mount", "umount"} /\ f.mp = o
CalledIn(s, o) == \E k \in 1..Len(s) : CallOf(s[k], o)

LEMMA InCallIn ==
  ASSUME NEW o
  PROVE  (InCall(o) <=> CalledIn(stack, o)) /\ (InCall(o)' <=> CalledIn(stack', o))
BY DEF InCall, CalledIn, CallOf

LEMMA PushCalls ==
  ASSUME NEW s, StackOK(s), NEW f \in FrameType, NEW o
  PROVE  CalledIn(Append(s, f), o) <=> CalledIn(s, o) \/ CallOf(f, o)
<1>1. /\ Len(s) \in Nat /\ Len(Append(s, f)) = Len(s) + 1
      /\ \A k \in 1..Len(s) : Append(s, f)[k] = s[k]
      /\ Append(s, f)[Len(s) + 1] = f
  BY DEF StackOK
<1>2. \A k \in 1..(Len(s) + 1) : k \in 1..Len(s) \/ k = Len(s) + 1
  BY <1>1
<1>3. Len(s) + 1 \in 1..(Len(s) + 1) /\ \A k \in 1..Len(s) : k \in 1..(Len(s) + 1)
  BY <1>1
<1> QED BY <1>1, <1>2, <1>3 DEF CalledIn

LEMMA PopCalls ==
  ASSUME NEW s, StackOK(s), s[Len(s)] # MainScript, NEW o, ~CallOf(s[Len(s)], o)
  PROVE  CalledIn(s, o) => CalledIn(SubSeq(s, 1, Len(s) - 1), o)
<1> DEFINE t == SubSeq(s, 1, Len(s) - 1)
<1>1. Len(s) \in Nat /\ Len(s) > 1
  BY DEF StackOK
<1>2. Len(t) = Len(s) - 1 /\ \A k \in 1..(Len(s) - 1) : t[k] = s[k]
  <2>1. PICK n \in Nat : n = Len(s) - 1 /\ n >= 1 /\ \A k \in 1..n : 1 + k - 1 = k
    BY <1>1
  <2>2. \A k \in 1..n : s[k] \in FrameType
    BY <1>1, <2>1 DEF StackOK
  <2>3. Len(t) = n - 1 + 1 /\ \A k \in 1..n : t[k] = s[1 + k - 1]
    BY <2>1, <2>2, SubSeqProperties
  <2> QED BY <2>1, <2>3
<1> HIDE DEF t
<1>3. \A k \in 1..Len(s) : k = Len(s) \/ k \in 1..(Len(s) - 1)
  BY <1>1
<1>4. CalledIn(s, o) => CalledIn(t, o)
  BY <1>2, <1>3 DEF CalledIn
<1> QED BY <1>4 DEF t

LEMMA UpdateCalls ==
  ASSUME NEW s, StackOK(s), NEW f, NEW o,
         CallOf(s[Len(s)], o) => CallOf(f, o)
  PROVE  CalledIn(s, o) => CalledIn([s EXCEPT ![Len(s)] = f], o)
<1> DEFINE t == [s EXCEPT ![Len(s)] = f]
<1>1. Len(s) \in Nat /\ DOMAIN s = 1..Len(s) /\ Len(s) \in 1..Len(s) /\ s \in Seq(FrameType)
  BY DEF StackOK
<1>2. Len(t) = Len(s) /\ t[Len(s)] = f /\ \A k \in 1..Len(s) : k # Len(s) => t[k] = s[k]
  BY <1>1
<1> HIDE DEF t
<1>3. CalledIn(s, o) => CalledIn(t, o)
  BY <1>1, <1>2 DEF CalledIn
<1> QED BY <1>3 DEF t

\* A function that resumes, or that calls, goes on with its call; the other calls stay.
LEMMA ResumeCalls ==
  ASSUME StackOK(stack), stack[Len(stack)] # MainScript, NEW pc \in PCs,
         NEW f \in FrameType, NEW o, CalledIn(stack, o)
  PROVE  CalledIn(Resume(pc), o) /\ CalledIn(Call(pc, f), o)
<1>1. Top \in FrameType /\ Len(stack) \in DOMAIN stack
  BY TopType DEF StackOK
<1>2. CallOf(stack[Len(stack)], o) => CallOf([Top EXCEPT !.pc = pc], o)
  BY <1>1 DEF CallOf, Top, FrameType
<1>3. Resume(pc) = [stack EXCEPT ![Len(stack)] = [Top EXCEPT !.pc = pc]]
  BY <1>1 DEF Resume, Top
<1>4. CalledIn(Resume(pc), o)
  <2>1. PICK g : g = [Top EXCEPT !.pc = pc]
    OBVIOUS
  <2>2. CallOf(stack[Len(stack)], o) => CallOf(g, o)
    BY <1>2, <2>1
  <2>3. CalledIn([stack EXCEPT ![Len(stack)] = g], o)
    BY <2>2, UpdateCalls
  <2> QED BY <1>3, <2>1, <2>3
<1> QED BY <1>4, ResumeOK, PushCalls DEF Call

LEMMA PoppedCalls ==
  ASSUME StackOK(stack), stack[Len(stack)] # MainScript, NEW o, ~CallOf(Top, o),
         CalledIn(stack, o)
  PROVE  CalledIn(Popped, o)
BY PopCalls DEF Popped, Top

LEMMA ReturnedCalls ==
  ASSUME NEW s, StackOK(s), NEW q \in Int, NEW o, CalledIn(s, o)
  PROVE  CalledIn(Returned(s, q), o) /\ CalledIn(Raised(s), o)
<1>1. CASE s[Len(s)].fn = "prolog"
  <2> DEFINE f == s[Len(s)]
             g == [f EXCEPT !.mp = q, !.pc = "lib"]
  <2>1. s[Len(s)] # MainScript /\ f \in FrameType /\ Len(s) \in DOMAIN s
    BY <1>1 DEF MainScript, Script, Frame, StackOK
  <2>2. ~CallOf(s[Len(s)], o)
    BY <1>1 DEF CallOf
  <2>3. Returned(s, q) = [s EXCEPT ![Len(s)] = g]
    BY <1>1, <2>1 DEF Returned
  <2> HIDE DEF g
  <2>4. CalledIn(Returned(s, q), o)
    BY <2>2, <2>3, UpdateCalls
  <2>5. CalledIn(Raised(s), o)
    BY <1>1, <2>1, <2>2, PopCalls DEF Raised
  <2> QED BY <2>4, <2>5
<1>2. CASE s[Len(s)].fn # "prolog"
  BY <1>2 DEF Returned, Raised
<1> QED BY <1>1, <1>2

(***************************************************************************)
(* The structures: what a registration and an unregistration leave alone.  *)
(***************************************************************************)
SameFields(r, q) ==
  /\ r.mnt = q.mnt /\ r.parent = q.parent /\ r.automapID = q.automapID
  /\ r.plugin = q.plugin /\ r.noScript = q.noScript

LEMMA AllocatedFields ==
  ASSUME TablesType, NEW record \in MntType, NEW child \in Int, NEW o \in Orders
  PROVE  /\ SameFields(Allocated(record, child)[o], phk[o])
         /\ Allocated(record, child)[o].children =
              IF o = record.parent THEN Append(phk[o].children, child) ELSE phk[o].children
<1>1. o \in 0..mcount /\ o # mcount /\ phk[o] \in MntType
  BY DEF TablesType, Orders
<1>2. Allocated(record, child)[o] =
        IF o = record.parent
        THEN [phk[o] EXCEPT !.children = Append(phk[o].children, child)] ELSE phk[o]
  BY <1>1 DEF Allocated
<1>3. \A c : LET r == [phk[o] EXCEPT !.children = c] IN SameFields(r, phk[o]) /\ r.children = c
  BY <1>1 DEF MntType, SameFields
<1> QED BY <1>2, <1>3 DEF SameFields

LEMMA UnregisteredFields ==
  ASSUME TablesType, NEW o \in Orders, NEW q \in Orders
  PROVE  /\ SameFields(Unregistered(o)[q], phk[q])
         /\ Unregistered(o)[q].children =
              IF q = phk[o].parent
              THEN [i \in DOMAIN phk[q].children |->
                      IF phk[q].children[i] = o THEN NULL ELSE phk[q].children[i]]
              ELSE phk[q].children
<1> DEFINE p == phk[o].parent
           rest == [i \in DOMAIN phk[p].children |->
                      IF phk[p].children[i] = o THEN NULL ELSE phk[p].children[i]]
<1>1. /\ phk[q] \in MntType /\ DOMAIN phk = Orders /\ q # NULL
      /\ phk = [x \in Orders |-> phk[x]]
  BY DEF TablesType, NULL, Orders
<1>2. \A c : LET r == [phk[q] EXCEPT !.children = c] IN SameFields(r, phk[q]) /\ r.children = c
  BY <1>1 DEF MntType, SameFields
<1>3. CASE p = NULL
  <2>1. Unregistered(o) = phk
    BY <1>3 DEF Unregistered
  <2> QED BY <1>1, <1>3, <2>1 DEF SameFields
<1>4. CASE p # NULL
  <2>1. Unregistered(o) = [phk EXCEPT ![p] = [phk[p] EXCEPT !.children = rest]]
    BY <1>4 DEF Unregistered
  <2>2. Unregistered(o)[q] = IF q = p THEN [phk[q] EXCEPT !.children = rest] ELSE phk[q]
    <3> HIDE DEF rest, p
    <3> QED BY <1>1, <2>1
  <2> HIDE DEF rest
  <2>3. CASE q = p
    <3>1. Unregistered(o)[q].children = rest /\ SameFields(Unregistered(o)[q], phk[q])
      BY <1>2, <2>2, <2>3
    <3> QED BY <2>3, <3>1 DEF rest
  <2>4. CASE q # p
    BY <2>2, <2>4 DEF SameFields
  <2> QED BY <2>3, <2>4
<1> QED BY <1>3, <1>4

LEMMA PluginFields ==
  ASSUME NEW before \in [Orders -> MntType], NEW o \in Orders, NEW b,
         NEW q \in Orders
  PROVE  LET after == [before EXCEPT ![o].plugin = b] IN
         /\ after[q].mnt = before[q].mnt /\ after[q].parent = before[q].parent
         /\ after[q].automapID = before[q].automapID
         /\ after[q].children = before[q].children
         /\ after[q].noScript = before[q].noScript
         /\ after[q].plugin = IF q = o THEN b ELSE before[q].plugin
<1>1. before[q] \in MntType
  OBVIOUS
<1>2. [before EXCEPT ![o].plugin = b][q] =
        IF q = o THEN [before[q] EXCEPT !.plugin = b] ELSE before[q]
  OBVIOUS
<1> QED BY <1>1, <1>2 DEF MntType

(***************************************************************************)
(* The steps.                                                              *)
(***************************************************************************)
\* A step that adds no package: what is still in the table has what it had, or is complete.
LEMMA LoadedMove ==
  ASSUME TableInv, LoadedInv, MapsLater, mcount' = mcount,
         \A o \in Orders : Live(o)' =>
           /\ Live(o) /\ phk'[o].mnt = phk[o].mnt /\ phk'[o].automapID = phk[o].automapID
           /\ \/ /\ phk'[o].plugin = phk[o].plugin
                 /\ CalledIn(stack, o) => CalledIn(stack', o)
              \/ HasPluginBuilt(o)'
  PROVE  LoadedInv'
<1>1. TablesType /\ MapsType /\ mcount \in Nat /\ mcount <= mcount' /\ Orders' = Orders
  BY TypeParts DEF TableInv, TablesType, Orders
<1>2. ASSUME NEW o \in Orders, Live(o)'
      PROVE  /\ Live(o) /\ phk'[o].mnt = phk[o].mnt /\ phk'[o].automapID = phk[o].automapID
             /\ HasPluginBuilt(o)'
  <2>1. Live(o) /\ HasPluginBuilt(o)
    BY <1>2 DEF LoadedInv
  <2> QED BY <1>2, <2>1, InCallIn DEF HasPluginBuilt
<1> QED BY <1>1, <1>2, LoadedKept

\* A step that leaves the structures alone.
LEMMA LoadedSame ==
  ASSUME TableInv, LoadedInv, UNCHANGED tables, MapsLater,
         \A o \in Orders : CalledIn(stack, o) => CalledIn(stack', o)
  PROVE  LoadedInv'
<1>1. /\ mcount' = mcount /\ mount_order' = mount_order /\ phk' = phk
      /\ \A o : Live(o)' <=> Live(o)
  BY DEF tables, Live, Orders
<1> QED BY <1>1, LoadedMove

\* A mount that has just begun.
LEMMA LoadedNew ==
  ASSUME TableInv, LoadedInv, NEW m \in Mnts, NEW b \in Flags, MountNew(m, b)
  PROVE  LoadedInv'
<1> DEFINE r == Mnt(m, ParentOrder(m), b)
           rm == [r EXCEPT !.automapID = map_count]
<1>1. /\ TablesType /\ MapsType /\ StackOK(stack) /\ mcount \in Nat /\ map_count \in Nat \ {0}
      /\ m \in Names /\ ParentOrder(m) \in Int /\ b \in BOOLEAN /\ 0 \in Nat /\ mcount \in Int
  BY TypeParts, MntNames, ConstantsAssumption DEF TableInv, TablesType, MapsType
<1>2. /\ r \in MntType /\ r.mnt = m /\ rm \in MntType /\ rm.mnt = m
      /\ rm.automapID = map_count
  <2>1. r \in MntType /\ r.mnt = m /\ rm \in MntType /\ rm.mnt = m
    BY <1>1, MntTypes
  <2> QED BY <2>1 DEF MntType
<1>3. PICK record \in MntType :
        /\ phk' = Allocated(record, mcount) /\ record.mnt = m
        /\ IF m \in HasMap THEN record.automapID = map_count /\ array_add(mcount)
                           ELSE UNCHANGED maps
  BY <1>2 DEF MountNew
<1> HIDE DEF r, rm
<1>4. /\ mcount' = mcount + 1 /\ Orders' = Orders \cup {mcount} /\ mcount \notin Orders
      /\ mcount' \in Nat /\ mcount <= mcount' /\ mcount \in Direct..(mcount' - 1)
      /\ mount_order' = [o \in 0..mcount |-> IF o = mcount THEN mcount ELSE mount_order[o]]
      /\ mcount # NULL
  BY <1>1 DEF MountNew, new_mnt, Orders, Direct, NULL
<1>5. phk'[mcount] = record /\ \A o \in Orders : SameFields(phk'[o], phk[o])
  BY <1>1, <1>3, AllocatedType, AllocatedFields
<1>6. MapsLater
  BY <1>1, <1>3, <1>4, AddedMapLater, SameMapsLater
<1>7. ASSUME NEW o
      PROVE  (CalledIn(stack, o) => CalledIn(stack', o)) /\ (o = mcount => CalledIn(stack', o))
  <2>1. PICK base \in Callers : stack' = Append(base, Frame("mount", mcount, "script", 0))
    BY DEF MountNew
  <2>2. StackOK(base) /\ (CalledIn(stack, o) => CalledIn(base, o))
    <3>1. Prolog \in FrameType
      BY <1>1, FrameTypes DEF PCs
    <3> QED BY <1>1, <3>1, CallersOK, PushCalls DEF Callers
  <2>3. Frame("mount", mcount, "script", 0) \in FrameType
    BY <1>1, FrameTypes DEF PCs
  <2>4. o = mcount => CallOf(Frame("mount", mcount, "script", 0), o)
    BY DEF CallOf, Frame
  <2> QED BY <2>1, <2>2, <2>3, <2>4, PushCalls
<1>8. ASSUME NEW o \in Orders, Live(o)'
      PROVE  /\ Live(o) /\ phk'[o].mnt = phk[o].mnt /\ phk'[o].automapID = phk[o].automapID
             /\ HasPluginBuilt(o)'
  <2>1. Live(o)
    BY <1>1, <1>4, <1>8 DEF Live, Orders
  <2>2. HasPluginBuilt(o)
    BY <2>1 DEF LoadedInv
  <2> QED BY <1>5, <1>7, <2>1, <2>2, InCallIn DEF HasPluginBuilt, SameFields
<1>9. ASSUME NEW o, o = mcount
      PROVE  HasOwnMap(o)' /\ HasNoOtherMap(o)' /\ HasPluginBuilt(o)'
  <2>1. HasPluginBuilt(o)'
    BY <1>7, <1>9, InCallIn DEF HasPluginBuilt
  <2>2. \A id \in 1..(map_count - 1) : map_array'[id] # o
    BY <1>1, <1>4, <1>6, <1>9 DEF LoadedInv, OwnersInv, MapsLater, Direct
  <2>3. CASE m \in HasMap
    <3>1. /\ map_count' = map_count + 1
          /\ \A id \in 1..(map_count' - 1) : id = map_count => map_array'[id] = o
      BY <1>1, <1>3, <1>4, <1>9, <2>3, AddedMapLater
    <3>2. HasOwnMap(o)'
      BY <1>1, <1>3, <1>5, <1>9, <2>3, <3>1 DEF HasOwnMap
    <3>3. \A id \in 1..(map_count' - 1) : id = map_count \/ id \in 1..(map_count - 1)
      BY <1>1, <3>1
    <3>4. HasNoOtherMap(o)'
      BY <1>3, <1>5, <1>9, <2>2, <2>3, <3>3 DEF HasNoOtherMap
    <3> QED BY <2>1, <3>2, <3>4
  <2>4. CASE m \notin HasMap
    <3>1. map_count' = map_count
      BY <1>3, <2>4 DEF maps
    <3> QED BY <1>3, <1>5, <1>9, <2>1, <2>2, <2>4, <3>1 DEF HasOwnMap, HasNoOtherMap
  <2> QED BY <2>3, <2>4
<1> QED BY <1>1, <1>4, <1>6, <1>8, <1>9, LoadedKept

\* A mount that fails at once, or a creator.
LEMMA LoadedSpent ==
  ASSUME TableInv, LoadedInv, UNCHANGED <<maps, stack>>, mcount' = mcount + 1,
         \A o \in Orders : SameFields(phk'[o], phk[o]) /\ mount_order'[o] = mount_order[o],
         \A o : o = mcount =>
           \/ mount_order'[o] = NULL
           \/ phk'[o].mnt \notin Mnts /\ phk'[o].plugin = FALSE
  PROVE  LoadedInv'
<1>1. /\ TablesType /\ MapsType /\ mcount \in Nat /\ mcount' \in Nat /\ mcount <= mcount'
      /\ \A o \in Orders' \ Orders : o = mcount /\ o # NULL
      /\ Orders \subseteq Orders'
  BY TypeParts DEF TableInv, TablesType, Orders, NULL
<1>2. MapsLater
  BY <1>1, SameMapsLater
<1>3. ASSUME NEW o \in Orders, Live(o)'
      PROVE  /\ Live(o) /\ phk'[o].mnt = phk[o].mnt /\ phk'[o].automapID = phk[o].automapID
             /\ HasPluginBuilt(o)'
  <2>1. Live(o)
    BY <1>3 DEF Live
  <2>2. HasPluginBuilt(o)
    BY <2>1 DEF LoadedInv
  <2> QED BY <2>1, <2>2, InCallIn DEF HasPluginBuilt, SameFields
<1>4. ASSUME NEW o \in Orders' \ Orders, Live(o)'
      PROVE  HasOwnMap(o)' /\ HasNoOtherMap(o)' /\ HasPluginBuilt(o)'
  <2>1. o = mcount /\ phk'[o].mnt \notin Mnts /\ phk'[o].plugin = FALSE
    BY <1>1, <1>4 DEF Live
  <2>2. phk'[o].mnt \notin HasMap /\ phk'[o].mnt \notin HasPlugin
    BY <2>1, ConstantsAssumption
  <2>3. \A id \in 1..(map_count - 1) : map_array[id] # o
    BY <1>1, <2>1 DEF LoadedInv, OwnersInv, Direct
  <2>4. \A id \in 1..(map_count' - 1) : map_array'[id] # o
    BY <2>3 DEF maps
  <2>5. phk'[o].plugin = (phk'[o].mnt \in HasPlugin)
    <3>1. FALSE = (phk'[o].mnt \in HasPlugin)
      BY <2>2
    <3> QED BY <2>1, <3>1
  <2>6. HasPluginBuilt(o)'
    BY <2>5 DEF HasPluginBuilt
  <2> QED BY <2>2, <2>4, <2>6 DEF HasOwnMap, HasNoOtherMap
<1> QED BY <1>1, <1>2, <1>3, <1>4, LoadedKept

LEMMA LoadedStep ==
  ASSUME TableInv, LoadedInv, [Next]_vars
  PROVE  LoadedInv'
<1>0. /\ TablesType /\ MapsType /\ StackOK(stack) /\ MountTable
      /\ tmp_mnt_num \in Nat /\ mcount \in Nat
      /\ 0 \in Nat /\ FALSE \in BOOLEAN /\ NULL \in Int
  BY TypeParts DEF TableInv, TablesType, NULL
<1>1. UNCHANGED maps => MapsLater
  BY <1>0, SameMapsLater
<1>2. UNCHANGED stack => \A o \in Orders : CalledIn(stack, o) => CalledIn(stack', o)
  OBVIOUS
<1>3. UNCHANGED <<tables, maps, stack>> => LoadedInv'
  BY <1>1, <1>2, LoadedSame
<1>4. ASSUME ~fault, Top.fn # "script", Safe(Top)
      PROVE  /\ stack[Len(stack)] # MainScript /\ Live(Top.mp) /\ Top \in FrameType
             /\ Top.mp \in Orders /\ Top.mp \in Int
  <2>1. Top \in FrameType
    BY <1>0, TopType
  <2>2. Live(Top.mp)
    BY <1>4 DEF Safe, Reads
  <2> QED BY <1>0, <1>4, <2>1, <2>2, TopNotMain DEF Live, FrameType
<1>5. ASSUME NEW m \in Mnts, MountExisting(m)
      PROVE  LoadedInv'
  <2>1. PICK base \in Callers : stack' = Returned(base, mtab[m])
    BY <1>5 DEF MountExisting
  <2>2. StackOK(base) /\ \A o : CalledIn(stack, o) => CalledIn(base, o)
    <3>1. Prolog \in FrameType
      BY <1>0, FrameTypes DEF PCs
    <3> QED BY <1>0, <3>1, CallersOK, PushCalls DEF Callers
  <2>3. \A o : CalledIn(stack, o) => CalledIn(stack', o)
    BY <1>0, <2>1, <2>2, MntNames, ReturnedCalls
  <2> QED BY <1>1, <1>5, <2>3, LoadedSame DEF MountExisting
<1>6. ASSUME NEW m \in Mnts, MountNewFails(m)
      PROVE  LoadedInv'
  <2> DEFINE r == Mnt(m, ParentOrder(m), FALSE)
             A == Allocated(r, NULL)
  <2>1. r \in MntType
    BY <1>0, MntNames, MntTypes
  <2>2. A \in [0..mcount -> MntType] /\ \A o \in Orders : SameFields(A[o], phk[o])
    BY <1>0, <2>1, AllocatedType, AllocatedFields
  <2>3. phk' = [A EXCEPT ![mcount] = Freed]
    BY <1>6 DEF MountNewFails
  <2>4. mount_order' = [o \in 0..mcount |-> IF o = mcount THEN NULL ELSE mount_order[o]]
    BY <1>6 DEF MountNewFails
  <2> HIDE DEF A
  <2>5. \A o \in Orders : o \in 0..mcount /\ o # mcount
    BY <1>0 DEF Orders
  <2>6. \A o \in Orders : SameFields(phk'[o], phk[o]) /\ mount_order'[o] = mount_order[o]
    BY <2>2, <2>3, <2>4, <2>5
  <2>7. \A o : o = mcount => mount_order'[o] = NULL
    BY <1>0, <2>4
  <2> QED BY <1>6, <2>6, <2>7, LoadedSpent DEF MountNewFails
<1>7. ASSUME NEW ok \in BOOLEAN, MountCreator(ok)
      PROVE  LoadedInv'
  <2> DEFINE m == TmpMnt(tmp_mnt_num)
             r == Mnt(m, NULL, FALSE)
  <2>1. m \in Names /\ m \notin Mnts
    BY <1>0, <1>7, ConstantsAssumption DEF MountCreator, Names
  <2>2. r \in MntType /\ r.mnt = m /\ r.plugin = FALSE /\ Freed \in MntType
    BY <1>0, <2>1, MntTypes DEF Mnt
  <2>3. PICK record \in MntType :
          /\ phk' = Allocated(record, NULL)
          /\ \A o \in Orders : mount_order'[o] = mount_order[o]
          /\ \A o : o = mcount => mount_order'[o] = NULL \/ record = r
    <3>1. \A o \in Orders : o \in 0..mcount /\ o # mcount
      BY <1>0 DEF Orders
    <3>2. CASE ok
      BY <1>7, <2>2, <3>1, <3>2 DEF MountCreator, new_mnt
    <3>3. CASE ~ok
      <4>1. /\ phk' = Allocated(Freed, NULL)
            /\ mount_order' = [o \in 0..mcount |-> IF o = mcount THEN NULL ELSE mount_order[o]]
        BY <1>7, <3>3 DEF MountCreator
      <4>2. mcount \in 0..mcount
        BY <1>0
      <4>3. /\ \A o \in Orders : mount_order'[o] = mount_order[o]
            /\ \A o : o = mcount => mount_order'[o] = NULL
        BY <3>1, <4>1, <4>2
      <4> QED BY <2>2, <4>1, <4>3
    <3> QED BY <3>2, <3>3
  <2> HIDE DEF r
  <2>4. /\ \A o \in Orders : SameFields(phk'[o], phk[o])
        /\ \A o : o = mcount => phk'[o] = record
    BY <1>0, <2>3, AllocatedType, AllocatedFields
  <2>5. mcount' = mcount + 1 /\ UNCHANGED <<maps, stack>>
    BY <1>7 DEF MountCreator, new_mnt
  <2>6. \A o : o = mcount =>
          mount_order'[o] = NULL \/ (phk'[o].mnt \notin Mnts /\ phk'[o].plugin = FALSE)
    BY <2>1, <2>2, <2>3, <2>4
  <2> QED BY <2>3, <2>4, <2>5, <2>6, LoadedSpent
<1>8. ASSUME NEW m \in Names, Umount(m)
      PROVE  LoadedInv'
  <2>1. mtab[m] \in Int
    BY <1>0 DEF TablesType, Orders, NULL
  <2>2. UmountFrame(mtab[m]) \in FrameType
    BY <2>1, FrameTypes DEF PCs
  <2>3. \A o : CalledIn(stack, o) => CalledIn(stack', o)
    BY <1>0, <1>8, <2>2, PushCalls DEF Umount
  <2> QED BY <1>1, <1>8, <2>3, LoadedSame DEF Umount
<1>9. ASSUME NEW pc \in PCs, NEW for \in PCs, Top.mp \in Int, stack[Len(stack)] # MainScript,
             stack' = Call(pc, Script(Top.mp, for)) \/ stack' = Resume(pc)
      PROVE  \A o : CalledIn(stack, o) => CalledIn(stack', o)
  <2>1. Script(Top.mp, for) \in FrameType
    BY <1>9, FrameTypes
  <2> QED BY <1>0, <1>9, <2>1, ResumeCalls
<1>10. CASE MountScript
  <2>1. \A o : CalledIn(stack, o) => CalledIn(stack', o)
    BY <1>4, <1>9, <1>10 DEF MountScript, At, PCs
  <2> QED BY <1>1, <1>10, <2>1, LoadedSame DEF MountScript
<1>11. CASE MountPlugin
  <2>1. \A o : CalledIn(stack, o) => CalledIn(stack', o)
    BY <1>4, <1>9, <1>11 DEF MountPlugin, At, PCs
  <2> QED BY <1>1, <1>11, <2>1, LoadedSame DEF MountPlugin
<1>12. CASE MountDone
  <2> DEFINE b == phk[Top.mp].mnt \in HasPlugin
  <2>1. /\ Top.mp \in Orders /\ Top.mp \in Int /\ stack[Len(stack)] # MainScript
        /\ phk \in [Orders -> MntType]
    BY <1>0, <1>4, <1>12 DEF MountDone, At, TablesType
  <2>2. phk' = [phk EXCEPT ![Top.mp].plugin = b]
    BY <1>12 DEF MountDone
  <2>3. /\ mcount' = mcount /\ UNCHANGED maps
        /\ \A o \in Orders : Live(o)' => Live(o)
    BY <1>12 DEF MountDone, Live, Orders
  <2>4. ASSUME NEW o \in Orders
        PROVE  /\ phk'[o].mnt = phk[o].mnt /\ phk'[o].automapID = phk[o].automapID
               /\ o # Top.mp => phk'[o].plugin = phk[o].plugin
               /\ o = Top.mp => phk'[o].plugin = (phk'[o].mnt \in HasPlugin)
    <3>1. o = Top.mp => b = (phk[o].mnt \in HasPlugin)
      OBVIOUS
    <3> HIDE DEF b
    <3> QED BY <2>1, <2>2, <3>1, PluginFields
  <2>5. ASSUME NEW o, o # Top.mp, CalledIn(stack, o)
        PROVE  CalledIn(stack', o)
    <3>1. StackOK(Popped) /\ CalledIn(Popped, o)
      BY <1>0, <2>1, <2>5, PoppedOK, PoppedCalls DEF CallOf
    <3> QED BY <1>12, <2>1, <3>1, ReturnedCalls DEF MountDone
  <2>6. \A o \in Orders :
          \/ phk'[o].plugin = phk[o].plugin /\ (CalledIn(stack, o) => CalledIn(stack', o))
          \/ HasPluginBuilt(o)'
    BY <2>4, <2>5 DEF HasPluginBuilt
  <2> QED BY <1>1, <2>3, <2>4, <2>6, LoadedMove
<1>13. CASE MountAbort
  <2> DEFINE U == Unregistered(Top.mp)
  <2>1. Top.mp \in Orders /\ Top.mp \in Int /\ stack[Len(stack)] # MainScript
    BY <1>4, <1>13 DEF MountAbort
  <2>2. U \in [Orders -> MntType] /\ \A o \in Orders : SameFields(U[o], phk[o])
    BY <1>0, <2>1, UnregisteredType, UnregisteredFields
  <2>3. /\ phk' = [U EXCEPT ![Top.mp] = Freed] /\ mcount' = mcount /\ UNCHANGED maps
        /\ mount_order' = [mount_order EXCEPT ![Top.mp] = NULL]
        /\ stack' = Raised(Popped)
    BY <1>13 DEF MountAbort, remove_mnt
  <2> HIDE DEF U
  <2>4. ASSUME NEW o \in Orders, Live(o)'
        PROVE  o # Top.mp /\ Live(o) /\ SameFields(phk'[o], phk[o])
    <3>1. o # Top.mp
      BY <1>0, <2>1, <2>3, <2>4 DEF Live, TablesType, Orders, NULL
    <3> QED BY <1>0, <2>1, <2>2, <2>3, <2>4, <3>1 DEF Live, TablesType
  <2>5. ASSUME NEW o, o # Top.mp, CalledIn(stack, o)
        PROVE  CalledIn(stack', o)
    <3>1. StackOK(Popped) /\ CalledIn(Popped, o)
      BY <1>0, <2>1, <2>5, PoppedOK, PoppedCalls DEF CallOf
    <3> QED BY <2>1, <2>3, <3>1, ReturnedCalls
  <2> QED BY <1>1, <2>3, <2>4, <2>5, LoadedMove DEF SameFields
<1>14. CASE UmountChild
  <2> DEFINE child == phk[Top.mp].children[Top.i + 1]
             f == [Top EXCEPT !.i = @ + 1]
             next == [stack EXCEPT ![Len(stack)].i = @ + 1]
  <2>1. Top \in FrameType /\ Top.mp \in Orders /\ stack[Len(stack)] # MainScript
    BY <1>4, <1>14 DEF UmountChild, At
  <2>2. child \in Int /\ f \in FrameType /\ f.fn = Top.fn /\ f.mp = Top.mp
    <3>1. phk[Top.mp].children \in Seq(Int)
      BY <1>0, <2>1 DEF TablesType, MntType
    <3>2. Top.i \in Nat /\ Top.i < Len(phk[Top.mp].children)
      BY <1>14, <2>1 DEF UmountChild, FrameType
    <3>3. child \in Int
      BY <3>1, <3>2
    <3>4. f \in FrameType /\ f.fn = Top.fn /\ f.mp = Top.mp
      BY <2>1, <3>2 DEF FrameType
    <3> QED BY <3>3, <3>4
  <2>3. next = [stack EXCEPT ![Len(stack)] = f]
    BY <1>0 DEF StackOK, Top
  <2>4. stack' = IF child = NULL THEN next ELSE Append(next, UmountFrame(child))
    BY <1>14 DEF UmountChild
  <2> HIDE DEF child, f, next
  <2>5. StackOK(next) /\ UmountFrame(child) \in FrameType
    BY <1>0, <2>1, <2>2, <2>3, UpdateOK, FrameTypes DEF PCs
  <2>6. \A o : CalledIn(stack, o) => CalledIn(next, o)
    BY <1>0, <2>2, <2>3, UpdateCalls DEF CallOf, Top
  <2>7. \A o : CalledIn(stack, o) => CalledIn(stack', o)
    BY <2>4, <2>5, <2>6, PushCalls
  <2> QED BY <1>1, <1>14, <2>7, LoadedSame DEF UmountChild
<1>15. CASE UmountUnregister
  <2> DEFINE U == Unregistered(Top.mp)
  <2>1. Top.mp \in Orders /\ Top.mp \in Int /\ stack[Len(stack)] # MainScript
        /\ Top.fn = "umount"
    BY <1>4, <1>15 DEF UmountUnregister, At
  <2>2. U \in [Orders -> MntType] /\ \A o \in Orders : SameFields(U[o], phk[o])
    BY <1>0, <2>1, UnregisteredType, UnregisteredFields
  <2>3. /\ phk' = [U EXCEPT ![Top.mp].plugin = FALSE] /\ mcount' = mcount /\ UNCHANGED maps
        /\ mount_order' = mount_order
    BY <1>15 DEF UmountUnregister
  <2> HIDE DEF U
  <2>4. \A o : CalledIn(stack, o) => CalledIn(stack', o)
    BY <1>9, <1>15, <2>1 DEF UmountUnregister, PCs
  <2>5. ASSUME NEW o \in Orders
        PROVE  /\ phk'[o].mnt = phk[o].mnt /\ phk'[o].automapID = phk[o].automapID
               /\ phk'[o].plugin = phk[o].plugin \/ o = Top.mp
    <3>1. /\ phk'[o].mnt = U[o].mnt /\ phk'[o].automapID = U[o].automapID
          /\ phk'[o].plugin = IF o = Top.mp THEN FALSE ELSE U[o].plugin
      BY <2>1, <2>2, <2>3, PluginFields
    <3> QED BY <2>2, <3>1 DEF SameFields
  <2>6. \A o : o = Top.mp => HasPluginBuilt(o)'
    <3>1. \A o : o = Top.mp => CalledIn(stack, o)
      BY <1>0, <2>1, TopType DEF CalledIn, CallOf, Top
    <3> QED BY <2>4, <3>1, InCallIn DEF HasPluginBuilt
  <2>7. \A o \in Orders : Live(o)' => Live(o)
    BY <2>3 DEF Live, Orders
  <2> QED BY <1>1, <2>3, <2>4, <2>5, <2>6, <2>7, LoadedMove
<1>16. CASE UmountScript
  <2>1. \A o : CalledIn(stack, o) => CalledIn(stack', o)
    BY <1>4, <1>9, <1>16 DEF UmountScript, At, PCs
  <2> QED BY <1>1, <1>16, <2>1, LoadedSame DEF UmountScript
<1>17. CASE UmountFinish
  <2>1. Top.mp \in Orders /\ Top.mp \in Int /\ stack[Len(stack)] # MainScript
    BY <1>4, <1>17 DEF UmountFinish, At
  <2>2. /\ phk' = [phk EXCEPT ![Top.mp] = Freed] /\ mcount' = mcount
        /\ mount_order' = [mount_order EXCEPT ![Top.mp] = NULL]
        /\ stack' = Popped
    BY <1>17 DEF UmountFinish, remove_mnt
  <2>3. MapsLater
    BY <1>0, <1>1, <1>17, UnloadedMapLater DEF UmountFinish
  <2>4. ASSUME NEW o \in Orders, Live(o)'
        PROVE  o # Top.mp /\ Live(o) /\ phk'[o] = phk[o]
    <3>1. o # Top.mp
      BY <1>0, <2>1, <2>2, <2>4 DEF Live, TablesType, Orders, NULL
    <3> QED BY <1>0, <2>1, <2>2, <2>4, <3>1 DEF Live, TablesType
  <2>5. \A o : o # Top.mp /\ CalledIn(stack, o) => CalledIn(stack', o)
    BY <1>0, <2>1, <2>2, PoppedCalls DEF CallOf
  <2> QED BY <2>2, <2>3, <2>4, <2>5, LoadedMove
<1>18. CASE PrologLib
  <2>1. \A o : CalledIn(stack, o) => CalledIn(stack', o)
    BY <1>4, <1>9, <1>18 DEF PrologLib, At, PCs
  <2> QED BY <1>1, <1>18, <2>1, LoadedSame DEF PrologLib
<1>19. CASE PrologEnd
  <2>1. Top.mp \in Int /\ stack[Len(stack)] # MainScript /\ Top.fn = "prolog"
    BY <1>4, <1>19 DEF PrologEnd, At
  <2>2. StackOK(Popped) /\ \A o : CalledIn(stack, o) => CalledIn(Popped, o)
    BY <1>0, <2>1, PoppedOK, PoppedCalls DEF CallOf
  <2>3. UmountFrame(Top.mp) \in FrameType
    BY <2>1, FrameTypes DEF PCs
  <2>4. \A o : CalledIn(stack, o) => CalledIn(stack', o)
    BY <1>19, <2>2, <2>3, PushCalls DEF PrologEnd
  <2> QED BY <1>1, <1>19, <2>4, LoadedSame DEF PrologEnd
<1>20. CASE LoadMap
  <2>1. MapsLater
    BY <1>0, <1>20, AddedMapLater DEF LoadMap, tables, Direct, Orders
  <2> QED BY <1>2, <1>20, <2>1, LoadedSame DEF LoadMap
<1>21. ASSUME NEW id, UnloadMap(id)
       PROVE  LoadedInv'
  <2>1. MapsLater
    BY <1>0, <1>21, UnloadedMapLater DEF UnloadMap
  <2> QED BY <1>2, <1>21, <2>1, LoadedSame DEF UnloadMap
<1>22. CASE ScriptReturn
  <2>1. stack[Len(stack)] # MainScript
    BY <1>22, TopNotMain DEF ScriptReturn
  <2>2. \A o : CalledIn(stack, o) => CalledIn(stack', o)
    BY <1>0, <1>22, <2>1, PoppedCalls DEF ScriptReturn, CallOf
  <2> QED BY <1>1, <1>22, <2>2, LoadedSame DEF ScriptReturn
<1>23. CASE RShutdown
  <2>1. Orders' = {} /\ map_count' = 1
    BY <1>23 DEF RShutdown, Orders
  <2> QED BY <2>1 DEF LoadedInv, OwnersInv
<1> QED
  BY <1>3, <1>5, <1>6, <1>7, <1>8, <1>10, <1>11, <1>12, <1>13, <1>14, <1>15, <1>16,
     <1>17, <1>18, <1>19, <1>20, <1>21, <1>22, <1>23, LoadedNew
  DEF Next, MountStep, UmountStep, PrologStep, vars, tables, maps,
      MountUnknown, Throw, Catch, ParentMnt, UseAfterFree

\* The maps of a request begin in theirs.
LEMMA LoadedInvInit ==
  ASSUME Init
  PROVE  LoadedInv
<1>1. Orders = {} /\ map_count = 1
  BY DEF Init, Orders
<1> QED BY <1>1 DEF LoadedInv, OwnersInv

\* A package that is in the table, and that no call is mounting or unmounting, has
\* loaded its map and built its plugin, whatever the scripts do.
THEOREM MountedCompletelyCorrect == Spec => []MountedCompletely
<1>1. LoadedInv => MountedCompletely
  BY DEF LoadedInv, HasOwnMap, HasPluginBuilt, MountedCompletely
<1>2. TableInv /\ LoadedInv /\ [Next]_vars => TableInv' /\ LoadedInv'
  BY TableInvStep, LoadedStep
<1>3. Init => TableInv /\ LoadedInv
  BY TableInvInit, LoadedInvInit
<1> QED BY <1>1, <1>2, <1>3, PTL DEF Spec

\* Only umount() and a failed mount take a package from the table.
LEMMA OnlyTheseRemove ==
  ASSUME TableInv, [Next]_vars, mcount' # 0, NEW o \in Orders, Live(o), mount_order'[o] = NULL
  PROVE  Top.mp = o /\ (MountAbort \/ UmountFinish)
<1>0. /\ TablesType /\ o \in 0..mcount /\ o # mcount /\ mount_order[o] # NULL
      /\ mount_order \in [Orders -> Orders \cup {NULL}]
  BY TypeParts DEF TableInv, TablesType, Orders, Live, NULL
<1>1. mount_order' # mount_order
  BY <1>0
<1>2. ASSUME NEW v,
             mount_order' = [q \in 0..mcount |-> IF q = mcount THEN v ELSE mount_order[q]]
      PROVE  FALSE
  BY <1>0, <1>2
<1>3. ASSUME remove_mnt(Top.mp)
      PROVE  Top.mp = o
  BY <1>0, <1>3 DEF remove_mnt
<1>4. ~RShutdown
  BY DEF RShutdown
<1>5. ASSUME NEW m \in Mnts, NEW b \in Flags, MountNew(m, b)
      PROVE  FALSE
  BY <1>2, <1>5 DEF MountNew, new_mnt
<1>6. ASSUME NEW m \in Mnts, MountNewFails(m)
      PROVE  FALSE
  BY <1>2, <1>6 DEF MountNewFails
<1>7. ASSUME NEW ok \in BOOLEAN, MountCreator(ok)
      PROVE  FALSE
  BY <1>2, <1>7 DEF MountCreator, new_mnt
<1>8. MountAbort \/ UmountFinish
  BY <1>1, <1>4, <1>5, <1>6, <1>7
  DEF Next, MountStep, UmountStep, PrologStep, vars, tables,
      MountUnknown, MountExisting, MountScript, MountPlugin, MountDone, Umount, UmountChild,
      UmountUnregister, UmountScript, PrologLib, PrologEnd, LoadMap, UnloadMap, Throw, Catch,
      ScriptReturn, ParentMnt, UseAfterFree
<1> QED BY <1>3, <1>8 DEF MountAbort, UmountFinish

\* Whatever the scripts do, a package leaves the table together with its map, but for a
\* mount that fails.
THEOREM OrphanMapsCorrect == Spec => OrphanMaps
<1> DEFINE Own == mcount' # 0 =>
             \A o \in Orders : Live(o) /\ mount_order'[o] = NULL =>
               \/ \A id \in 1..(map_count - 1) : map_array'[id] # o
               \/ exc /\ Top.fn = "mount"
<1>1. ASSUME TableInv, LoadedInv, [Next]_vars
      PROVE  Own
  <2> SUFFICES ASSUME mcount' # 0, NEW o \in Orders, Live(o), mount_order'[o] = NULL,
                      NEW id \in 1..(map_count - 1), map_array'[id] = o
               PROVE  exc /\ Top.fn = "mount"
    OBVIOUS
  <2>1. Top.mp = o /\ (MountAbort \/ UmountFinish)
    BY <1>1, OnlyTheseRemove
  <2>2. CASE MountAbort
    BY <2>2 DEF MountAbort
  <2>3. CASE UmountFinish
    <3>1. MapsType /\ o # NULL
      BY <1>1, TypeParts DEF TableInv, TablesType, Orders, NULL
    <3>2. HasOwnMap(o) /\ HasNoOtherMap(o)
      BY <1>1 DEF LoadedInv
    <3>3. CASE phk[o].mnt \in HasMap
      <4>1. Automap_unload(phk[o].automapID)
        BY <2>1, <2>3, <3>3 DEF UmountFinish
      <4>2. /\ map_array'[id] \in {map_array[id], NULL}
            /\ phk[o].automapID \in 1..(map_count - 1) => map_array'[phk[o].automapID] = NULL
        BY <3>1, <4>1, UnloadedMapLater DEF MapsLater
      <4> QED BY <3>1, <3>2, <3>3, <4>2 DEF HasOwnMap, HasNoOtherMap
    <3>4. CASE phk[o].mnt \notin HasMap
      BY <2>1, <2>3, <3>2, <3>4 DEF UmountFinish, maps, HasNoOtherMap
    <3> QED BY <3>3, <3>4
  <2> QED BY <2>1, <2>2, <2>3
<1>2. TableInv /\ LoadedInv /\ [Next]_vars => [Own]_vars /\ TableInv' /\ LoadedInv'
  BY <1>1, TableInvStep, LoadedStep
<1>3. Init => TableInv /\ LoadedInv
  BY TableInvInit, LoadedInvInit
<1> QED BY <1>2, <1>3, PTL DEF Spec, OrphanMaps

\* Whatever user code has unloaded before, unmounting a package unloads no map but its own.
THEOREM UnloadsOwnMapCorrect == Spec => UnloadsOwnMap
<1> DEFINE Own == Top.fn = "umount" =>
             \A id \in 1..(map_count - 1) :
               map_array'[id] # map_array[id] => map_array[id] = Top.mp
<1>1. ASSUME TableInv, LoadedInv, [Next]_vars
      PROVE  Own
  <2> SUFFICES ASSUME Top.fn = "umount", NEW id \in 1..(map_count - 1),
                      map_array'[id] # map_array[id]
               PROVE  map_array[id] = Top.mp
    OBVIOUS
  <2>1. UmountFinish
    BY <1>1
    DEF Next, MountStep, UmountStep, PrologStep, vars, maps, MayCall, UserCode, At,
        MountUnknown, MountExisting, MountNew, MountNewFails, MountCreator, MountScript,
        MountPlugin, MountDone, MountAbort, Umount, UmountChild, UmountUnregister,
        UmountScript, PrologLib, PrologEnd, LoadMap, UnloadMap, Throw, Catch, ScriptReturn,
        ParentMnt, UseAfterFree, RShutdown
  <2>2. MapsType /\ Live(Top.mp) /\ Top.mp \in Orders
    BY <1>1, <2>1, TypeParts DEF TableInv, UmountFinish, Safe, Reads, Live
  <2>3. HasOwnMap(Top.mp)
    BY <1>1, <2>2 DEF LoadedInv
  <2>4. phk[Top.mp].mnt \in HasMap /\ Automap_unload(phk[Top.mp].automapID)
    BY <2>1 DEF UmountFinish, maps
  <2>5. id = phk[Top.mp].automapID
    BY <2>2, <2>4, UnloadedMapLater
  <2>6. map_array[id] # NULL
    <3>1. ValidID(id)
      BY <2>4, <2>5 DEF Automap_unload, maps
    <3> QED BY <3>1 DEF ValidID
  <2> QED BY <2>3, <2>4, <2>5, <2>6 DEF HasOwnMap
<1>2. TableInv /\ LoadedInv /\ [Next]_vars => [Own]_vars /\ TableInv' /\ LoadedInv'
  BY <1>1, TableInvStep, LoadedStep
<1>3. Init => TableInv /\ LoadedInv
  BY TableInvInit, LoadedInvInit
<1> QED BY <1>2, <1>3, PTL DEF Spec, UnloadsOwnMap

-----------------------------------------------------------------------------
(***************************************************************************)
(* The second part is about code of the packages that keeps within the     *)
(* limits of Polite... (no Misuse): parents and children point to each     *)
(* other, and no call resumes on a structure that was freed.               *)
(***************************************************************************)
-----------------------------------------------------------------------------
(***************************************************************************)
(* The invariant: the packages.                                            *)
(***************************************************************************)
Children(o) == phk[o].children
Childless(o) == \A i \in DOMAIN Children(o) : Children(o)[i] = NULL

\* A parent is older than its child, and outlives it.
Ancestry ==
  \A o \in Orders :
    /\ phk[o].parent \in NULL..(o - 1)
    /\ Live(o) /\ phk[o].parent # NULL => Live(phk[o].parent)

\* The children of a package are packages that name it as their parent, ...
ChildrenInv ==
  \A o \in Orders : Live(o) =>
    \A i \in DOMAIN Children(o) :
      LET c == Children(o)[i] IN
      c # NULL => Live(c) /\ phk[c].parent = o /\ ~Unregistering(c)

\* ... and those have it among its children, once, until they unregister.
OnlyIn(o, children) ==
  \E i \in DOMAIN children :
    children[i] = o /\ \A j \in DOMAIN children \ {i} : children[j] # o
ParentInv ==
  \A o \in Orders : Live(o) /\ phk[o].parent # NULL /\ ~Unregistering(o) =>
    OnlyIn(o, Children(phk[o].parent))

(***************************************************************************)
(* ... and the calls.                                                      *)
(***************************************************************************)
IsCall(f) == f.fn # "script"

\* The calls that free a package, or may go on to one that does.
Frees(f) ==
  \/ f.fn \in {"mount", "umount"}
  \/ f.fn = "prolog" /\ f.mp # NULL /\ phk[f.mp].mnt \in AutoUmount

\* S has the packages of the calls below the k-th one and those that they are mounted
\* in, and not the package of that call.
Apart(k, S) ==
  /\ Closed(S) /\ stack[k].mp \notin S
  /\ \A j \in 1..(k - 1) : IsCall(stack[j]) /\ stack[j].mp # NULL => stack[j].mp \in S
ApartFromCallers(k) == \E S \in SUBSET Orders : Apart(k, S)

\* What follows a frame on the stack.
Follows(f, above) ==
  /\ f.fn = "script" => above.fn # "script"
  /\ f.fn = "mount" =>
       above.fn = "script" /\ above.mp = f.mp /\ above.pc \in {"mount", "plugin"}
  /\ f.fn = "umount" => above.fn = "script" \/ (above.fn = "umount" /\ f.pc = "children")
  /\ f.fn = "prolog" => above.fn = IF f.mp = NULL THEN "mount" ELSE "script"

\* The child in slot i that the call above is unmounting.
Leaving(k, i) ==
  /\ k < Len(stack) /\ stack[k + 1].fn = "umount" /\ stack[k + 1].pc = "children"
  /\ i = stack[k].i /\ Children(stack[k].mp)[i] = stack[k + 1].mp

\* umount() has unmounted the children that it has gone through.
UmountInv(k) ==
  LET f == stack[k] IN
  /\ f.pc = "children" =>
       /\ f.i <= Len(Children(f.mp))
       /\ \A i \in 1..f.i : Children(f.mp)[i] = NULL \/ Leaving(k, i)
  /\ f.pc # "children" => Childless(f.mp)

FrameInv(k) ==
  LET f == stack[k] IN
  /\ k < Len(stack) => Follows(f, stack[k + 1])
  /\ IsCall(f) => IF f.mp = NULL THEN f.fn = "prolog" /\ k < Len(stack) ELSE Live(f.mp)
  /\ f.fn = "mount" /\ k = Len(stack) /\ exc => Childless(f.mp)
  /\ f.fn = "umount" => UmountInv(k)
  /\ Frees(f) => ApartFromCallers(k)

CallsInv == \A k \in 1..Len(stack) : FrameInv(k)

Family == Ancestry /\ ChildrenInv /\ ParentInv
FamilyInv == Family /\ CallsInv /\ ~fault
-----------------------------------------------------------------------------
(***************************************************************************)
(* The stack, as the actions leave it.                                     *)
(***************************************************************************)
LEMMA PushShape ==
  ASSUME NEW s, StackOK(s), NEW f
  PROVE  /\ Len(s) \in Nat \ {0} /\ Len(Append(s, f)) = Len(s) + 1
         /\ \A k \in 1..Len(s) : Append(s, f)[k] = s[k]
         /\ Append(s, f)[Len(s) + 1] = f
BY DEF StackOK

LEMMA PopShape ==
  ASSUME NEW s, StackOK(s), s[Len(s)] # MainScript
  PROVE  /\ Len(s) \in Nat /\ Len(s) > 1
         /\ StackOK(SubSeq(s, 1, Len(s) - 1)) /\ Len(SubSeq(s, 1, Len(s) - 1)) = Len(s) - 1
         /\ \A k \in 1..(Len(s) - 1) : SubSeq(s, 1, Len(s) - 1)[k] = s[k]
<1>1. Len(s) \in Nat /\ Len(s) > 1
  BY DEF StackOK
<1>2. PICK n \in Nat : n = Len(s) - 1 /\ n >= 1 /\ \A k \in 1..n : 1 + k - 1 = k
  BY <1>1
<1>3. \A k \in 1..n : s[k] \in FrameType
  BY <1>1, <1>2 DEF StackOK
<1>4. Len(SubSeq(s, 1, n)) = n /\ \A k \in 1..n : SubSeq(s, 1, n)[k] = s[k]
  BY <1>2, <1>3, SubSeqProperties
<1> QED BY <1>1, <1>2, <1>4, PopOK

LEMMA UpdateShape ==
  ASSUME NEW s, StackOK(s), NEW f
  PROVE  /\ Len(s) \in Nat \ {0} /\ Len([s EXCEPT ![Len(s)] = f]) = Len(s)
         /\ \A k \in 1..(Len(s) - 1) : [s EXCEPT ![Len(s)] = f][k] = s[k]
         /\ [s EXCEPT ![Len(s)] = f][Len(s)] = f
<1>1. Len(s) \in Nat \ {0} /\ DOMAIN s = 1..Len(s) /\ s \in Seq(FrameType)
  BY DEF StackOK
<1> QED BY <1>1

LEMMA ResumeShape ==
  ASSUME StackOK(stack), NEW pc
  PROVE  /\ Len(Resume(pc)) = Len(stack)
         /\ \A k \in 1..(Len(stack) - 1) : Resume(pc)[k] = stack[k]
         /\ LET f == Resume(pc)[Len(stack)] IN
            f.fn = Top.fn /\ f.mp = Top.mp /\ f.i = Top.i /\ f.pc = pc
<1>1. Top \in FrameType /\ Len(stack) \in DOMAIN stack
  BY TopType DEF StackOK
<1>2. Resume(pc) = [stack EXCEPT ![Len(stack)] = [Top EXCEPT !.pc = pc]]
  BY <1>1 DEF Resume, Top
<1>3. LET f == [Top EXCEPT !.pc = pc] IN
      f.fn = Top.fn /\ f.mp = Top.mp /\ f.i = Top.i /\ f.pc = pc
  BY <1>1 DEF FrameType
<1>4. PICK g : g = [Top EXCEPT !.pc = pc]
  OBVIOUS
<1> QED BY <1>2, <1>3, <1>4, UpdateShape

\* A frame, and the children of a package, as TypeOK gives them.
LEMMA FrameFields ==
  ASSUME StackOK(stack), NEW k \in 1..Len(stack)
  PROVE  /\ stack[k] \in FrameType /\ stack[k].mp \in Int /\ stack[k].i \in Nat
         /\ stack[k].fn \in {"script", "mount", "umount", "prolog"}
<1>1. stack[k] \in FrameType
  BY DEF StackOK
<1> QED BY <1>1 DEF FrameType

LEMMA ChildrenType ==
  ASSUME TablesType, NEW o \in Orders
  PROVE  /\ Children(o) \in Seq(Int) /\ Len(Children(o)) \in Nat
         /\ DOMAIN Children(o) = 1..Len(Children(o))
         /\ phk[o] \in MntType
<1>1. phk[o] \in MntType
  BY DEF TablesType
<1> QED BY <1>1 DEF Children, MntType

LEMMA ChildrenTypePrimed ==
  ASSUME TablesType', NEW o \in Orders'
  PROVE  /\ phk'[o].children \in Seq(Int) /\ Len(phk'[o].children) \in Nat
         /\ DOMAIN (phk'[o].children) = 1..Len(phk'[o].children)
<1>1. phk'[o] \in MntType
  BY DEF TablesType
<1> QED BY <1>1 DEF MntType

-----------------------------------------------------------------------------
(***************************************************************************)
(* What a step may do to the packages while a call waits.                  *)
(***************************************************************************)
Later ==
  /\ mcount \in Nat /\ mcount' \in Nat /\ mcount <= mcount'
  /\ \A o \in Orders :
       /\ phk'[o].parent \in {phk[o].parent, NULL}
       /\ Live(o) /\ Live(o)' =>
            /\ phk'[o].mnt = phk[o].mnt
            /\ Len(phk[o].children) <= Len(phk'[o].children)
            /\ \A i \in 1..Len(phk[o].children) :
                 phk'[o].children[i] \in {phk[o].children[i], NULL}
            /\ Unregistering(o) /\ Childless(o) => Childless(o)'

LEMMA OrdersLater ==
  ASSUME Later
  PROVE  Orders \subseteq Orders'
<1>1. \A a, b \in Nat : a <= b => 0..(a - 1) \subseteq 0..(b - 1)
  OBVIOUS
<1>2. mcount \in Nat /\ mcount' \in Nat /\ mcount <= mcount'
  BY DEF Later
<1> QED BY <1>1, <1>2 DEF Orders

\* The packages of the calls below a frame stay apart from its own.
LEMMA ApartKept ==
  ASSUME Later, NEW k \in Nat, ApartFromCallers(k),
         stack'[k].mp = stack[k].mp, \A j \in 1..(k - 1) : stack'[j] = stack[j]
  PROVE  ApartFromCallers(k)'
<1>1. PICK S \in SUBSET Orders : Apart(k, S)
  BY DEF ApartFromCallers
<1>2. S \subseteq Orders'
  BY OrdersLater
<1>3. Closed(S)'
  BY <1>1 DEF Later, Closed, Apart
<1>4. Apart(k, S)'
  BY <1>1, <1>3 DEF Apart
<1> QED BY <1>2, <1>4 DEF ApartFromCallers

LEMMA FrameKept ==
  ASSUME TableInv, TableInv', Later,
         NEW k \in 1..Len(stack), k \in 1..Len(stack'), FrameInv(k),
         \A j \in 1..k : stack'[j] = stack[j],
         k < Len(stack') => Follows(stack[k], stack'[k + 1]),
         IsCall(stack[k]) /\ Live(stack[k].mp) => Live(stack[k].mp)',
         IsCall(stack[k]) /\ stack[k].mp = NULL => k < Len(stack'),
         stack[k].fn = "mount" /\ k = Len(stack') /\ exc' => Childless(stack[k].mp)',
         \A i \in 1..stack[k].i : stack[k].fn = "umount" /\ Leaving(k, i) =>
           Leaving(k, i)' \/ phk'[stack[k].mp].children[i] = NULL
  PROVE  FrameInv(k)'
<1>1. PICK f : f = stack[k]
  OBVIOUS
<1>2. StackOK(stack) /\ TablesType /\ TablesType'
  BY TypeParts, TypePartsPrimed DEF TableInv
<1>3. f \in FrameType /\ f.i \in Nat /\ k \in Nat /\ stack'[k] = f
  BY <1>1, <1>2, FrameFields, SMTT(30)
<1>4. IsCall(f) => IF f.mp = NULL THEN f.fn = "prolog" /\ k < Len(stack')
                                  ELSE Live(f.mp) /\ Live(f.mp)'
  BY <1>1 DEF FrameInv
<1>5. k < Len(stack') => Follows(f, stack'[k + 1])
  BY <1>1
<1>6. f.fn = "mount" /\ k = Len(stack') /\ exc' => Childless(f.mp)'
  BY <1>1
<1>7. ASSUME f.fn = "umount"
      PROVE  UmountInv(k)'
  <2>1. f.mp # NULL /\ Live(f.mp) /\ Live(f.mp)' /\ f.mp \in Orders
    BY <1>4, <1>7 DEF IsCall, Live
  <2>2. UmountInv(k)
    BY <1>1, <1>7 DEF FrameInv
  <2>3. /\ Len(phk[f.mp].children) \in Nat /\ Len(phk'[f.mp].children) \in Nat
        /\ Len(phk[f.mp].children) <= Len(phk'[f.mp].children)
        /\ \A i \in 1..Len(phk[f.mp].children) :
             phk'[f.mp].children[i] \in {phk[f.mp].children[i], NULL}
    BY <1>2, <2>1, ChildrenType, ChildrenTypePrimed DEF Later, Live, Children
  <2>4. CASE f.pc = "children"
    <3>1. /\ f.i <= Len(phk[f.mp].children)
          /\ \A i \in 1..f.i : phk[f.mp].children[i] = NULL \/ Leaving(k, i)
      BY <1>1, <2>2, <2>4 DEF UmountInv, Children
    <3>2. \A i \in 1..f.i : i \in 1..Len(phk[f.mp].children)
      BY <1>3, <2>3, <3>1
    <3>3. \A i \in 1..f.i : phk'[f.mp].children[i] = NULL \/ Leaving(k, i)'
      BY <1>1, <1>7, <2>3, <3>1, <3>2
    <3>4. f.i <= Len(phk'[f.mp].children)
      BY SMTT(30), <1>3, <2>3, <3>1
    <3> QED BY <1>3, <2>4, <3>3, <3>4 DEF UmountInv, Children
  <2>5. CASE f.pc # "children"
    <3>1. Unregistering(f.mp) /\ Childless(f.mp)
      BY <1>1, <1>7, <2>2, <2>5 DEF Unregistering, UmountInv
    <3>2. Childless(f.mp)'
      BY <2>1, <3>1 DEF Later
    <3> QED BY <1>3, <2>5, <3>2 DEF UmountInv
  <2> QED BY <2>4, <2>5
<1>8. ASSUME Frees(f)'
      PROVE  ApartFromCallers(k)'
  <2>1. Frees(f)
    <3>1. f.fn = "prolog" /\ f.mp # NULL => phk'[f.mp].mnt = phk[f.mp].mnt
      BY <1>4 DEF IsCall, Later, Live
    <3> QED BY <1>8, <3>1 DEF Frees
  <2>2. ApartFromCallers(k)
    BY <1>1, <2>1 DEF FrameInv
  <2>3. \A j \in 1..(k - 1) : j \in 1..k
    BY <1>3
  <2> QED BY <1>1, <1>3, <2>2, <2>3, ApartKept
<1> QED BY <1>3, <1>4, <1>5, <1>6, <1>7, <1>8 DEF FrameInv

\* The calls below a step that goes on at the m-th frame, or on top of it.
LEMMA CallsKept ==
  ASSUME TableInv, TableInv', CallsInv, Later,
         NEW m \in 1..Len(stack), m \in 1..Len(stack'),
         \A j \in 1..m : stack'[j] = stack[j],
         \A j \in 1..m : IsCall(stack[j]) /\ Live(stack[j].mp) => Live(stack[j].mp)',
         m < Len(stack') => Follows(stack[m], stack'[m + 1]),
         IsCall(stack[m]) /\ stack[m].mp = NULL => m < Len(stack'),
         stack[m].fn = "mount" /\ m = Len(stack') /\ exc' => Childless(stack[m].mp)',
         \A i \in 1..stack[m].i : stack[m].fn = "umount" /\ Leaving(m, i) =>
           Leaving(m, i)' \/ phk'[stack[m].mp].children[i] = NULL
  PROVE  \A k \in 1..m : FrameInv(k)'
<1> SUFFICES ASSUME NEW k \in 1..m
             PROVE  FrameInv(k)'
  OBVIOUS
<1>1. PICK n, nn \in Nat : n = Len(stack) /\ nn = Len(stack')
  BY TypeParts, TypePartsPrimed DEF TableInv, StackOK
<1>2. m \in Nat /\ m <= n /\ m <= nn /\ k \in Nat /\ k <= m /\ k \in 1..n /\ k \in 1..nn
  BY <1>1
<1>3. FrameInv(k) /\ \A j \in 1..k : j \in 1..m
  BY <1>1, <1>2 DEF CallsInv
<1>4. CASE k = m
  BY <1>3, <1>4, FrameKept
<1>5. CASE k # m
  <2>1. /\ k < n /\ k < nn /\ k + 1 \in 1..m
        /\ k # nn
    BY <1>2, <1>5
  <2>2. stack'[k] = stack[k] /\ stack'[k + 1] = stack[k + 1]
    BY <2>1
  <2>3. Follows(stack[k], stack'[k + 1])
    BY <1>1, <1>3, <2>1, <2>2 DEF FrameInv
  <2>4. ASSUME NEW i \in 1..stack[k].i, stack[k].fn = "umount", Leaving(k, i)
        PROVE  Leaving(k, i)' \/ phk'[stack[k].mp].children[i] = NULL
    <3>1. PICK f, g : f = stack[k] /\ g = stack[k + 1] /\ f = stack'[k] /\ g = stack'[k + 1]
      BY <2>2
    <3>2. g.fn = "umount" /\ g.pc = "children" /\ i = f.i /\ phk[f.mp].children[i] = g.mp
      BY <2>4, <3>1 DEF Leaving, Children
    <3>3. StackOK(stack) /\ TablesType /\ f.fn = "umount" /\ f.i \in Nat
      BY <1>1, <1>2, <2>4, <3>1, FrameFields, TypeParts DEF TableInv
    <3>4. Live(f.mp) /\ Live(f.mp)' /\ f.mp \in Orders
      BY <1>3, <3>1, <3>3 DEF FrameInv, IsCall, Live
    <3>5. FrameInv(k) /\ i \in 1..f.i
      BY <1>3, <2>4, <3>1
    <3>6. f.pc = "children" /\ f.i <= Len(phk[f.mp].children)
      BY <1>1, <2>1, <3>1, <3>2, <3>3, <3>5 DEF FrameInv, UmountInv, Follows, Children
    <3>7. i \in 1..Len(phk[f.mp].children)
      BY <3>3, <3>4, <3>5, <3>6, ChildrenType DEF Children
    <3>8. phk'[f.mp].children[i] \in {phk[f.mp].children[i], NULL}
      BY <3>4, <3>7 DEF Later
    <3> QED BY <1>1, <2>1, <3>1, <3>2, <3>8 DEF Leaving, Children
  <2> QED BY <1>1, <1>3, <2>1, <2>3, <2>4, FrameKept
<1> QED BY <1>4, <1>5

-----------------------------------------------------------------------------
(***************************************************************************)
(* Steps that leave the families alone.                                    *)
(***************************************************************************)
SameStructures ==
  /\ mcount' = mcount /\ mount_order' = mount_order
  /\ \A o \in Orders : /\ phk'[o].mnt = phk[o].mnt /\ phk'[o].parent = phk[o].parent
                       /\ phk'[o].children = phk[o].children

SameUnregistering == \A o : Unregistering(o)' <=> Unregistering(o)

LEMMA TablesStay ==
  ASSUME UNCHANGED tables
  PROVE  SameStructures
BY DEF tables, SameStructures

LEMMA StructuresLater ==
  ASSUME TablesType, SameStructures
  PROVE  Later /\ (\A o : Live(o)' <=> Live(o)) /\ Orders' = Orders
<1>1. Orders' = Orders /\ \A o : Live(o)' <=> Live(o)
  BY DEF SameStructures, Orders, Live
<1>2. ASSUME NEW o \in Orders
      PROVE  /\ Len(phk[o].children) <= Len(phk'[o].children)
             /\ \A i \in 1..Len(phk[o].children) : phk'[o].children[i] = phk[o].children[i]
             /\ Childless(o) => Childless(o)'
  <2>1. phk'[o].children = phk[o].children /\ Len(phk[o].children) \in Nat
    BY ChildrenType DEF SameStructures, Children
  <2> QED BY <2>1 DEF Childless, Children
<1>3. mcount \in Nat /\ mcount' = mcount
  BY DEF TablesType, SameStructures
<1>4. Later
  BY <1>2, <1>3 DEF Later, SameStructures
<1> QED BY <1>1, <1>4

LEMMA SameFamily ==
  ASSUME TablesType, Family, SameStructures, SameUnregistering
  PROVE  Family'
<1>1. Orders' = Orders /\ \A o : Live(o)' <=> Live(o)
  BY StructuresLater
<1>2. \A o \in Orders : phk'[o].parent = phk[o].parent /\ Children(o)' = Children(o)
  BY DEF SameStructures, Children
<1>3. Ancestry'
  BY <1>1, <1>2 DEF Family, Ancestry
<1>4. ChildrenInv'
  <2> SUFFICES ASSUME NEW o \in Orders, Live(o), NEW i \in DOMAIN Children(o), NEW c,
                      c = Children(o)[i], c # NULL
               PROVE  Live(c) /\ phk'[c].parent = o /\ ~Unregistering(c)'
    BY <1>1, <1>2 DEF ChildrenInv
  <2>1. Live(c) /\ phk[c].parent = o /\ ~Unregistering(c)
    BY DEF Family, ChildrenInv
  <2> QED BY <1>2, <2>1 DEF SameUnregistering, Live
<1>5. ParentInv'
  <2> SUFFICES ASSUME NEW o \in Orders, Live(o), phk[o].parent # NULL, ~Unregistering(o)'
               PROVE  OnlyIn(o, Children(phk[o].parent))'
    BY <1>1, <1>2 DEF ParentInv
  <2>1. OnlyIn(o, Children(phk[o].parent)) /\ Live(phk[o].parent)
    BY DEF Family, ParentInv, Ancestry, SameUnregistering
  <2>2. phk[o].parent \in Orders /\ phk'[o].parent = phk[o].parent
    BY <1>2, <2>1 DEF Live
  <2> QED BY <1>2, <2>1, <2>2 DEF OnlyIn
<1> QED BY <1>3, <1>4, <1>5 DEF Family

\* Whether a package is unregistering depends on the calls that do it.
Leaves(f) == f.fn = "umount" /\ f.pc # "children"

LEMMA UnregisteringKept ==
  ASSUME NEW n \in Nat, n = Len(stack), NEW nn \in Nat, nn = Len(stack'),
         \A j \in 1..n : Leaves(stack[j]) =>
           j <= nn /\ Leaves(stack'[j]) /\ stack'[j].mp = stack[j].mp,
         \A j \in 1..nn : Leaves(stack'[j]) =>
           j <= n /\ Leaves(stack[j]) /\ stack[j].mp = stack'[j].mp
  PROVE  SameUnregistering
<1>1. \A o : Unregistering(o) => Unregistering(o)'
  BY DEF Unregistering, Leaves
<1>2. \A o : Unregistering(o)' => Unregistering(o)
  BY DEF Unregistering, Leaves
<1> QED BY <1>1, <1>2 DEF SameUnregistering

\* When user code is polite, the package that it unmounts is apart from the calls.
LEMMA PoliteApart ==
  ASSUME Misuse = {}, TableInv, FamilyInv, NEW o, PoliteUmount(o)
  PROVE  \E S \in SUBSET Orders :
           /\ Closed(S) /\ o \notin S
           /\ \A j \in 1..Len(stack) :
                IsCall(stack[j]) /\ stack[j].mp # NULL => stack[j].mp \in S
<1>1. \A b \in Busy \ {NULL} : b \in Orders
  <2> SUFFICES ASSUME NEW j \in 1..Len(stack), IsCall(stack[j]), stack[j].mp # NULL
               PROVE  stack[j].mp \in Orders
    BY DEF Busy, IsCall
  <2>1. FrameInv(j)
    BY DEF FamilyInv, CallsInv
  <2> QED BY <2>1 DEF FrameInv, Live
<1>2. \A b \in Orders : b \in Enclosing(b) /\ Enclosing(b) \subseteq Orders
  BY DEF Enclosing
<1>3. ASSUME NEW b \in Orders, NEW p \in Enclosing(b), phk[p].parent # NULL
      PROVE  phk[p].parent \in Enclosing(b)
  <2>1. phk[p].parent \in Orders
    BY <1>3, TypeParts DEF FamilyInv, Family, Ancestry, Enclosing, Orders, TableInv, TablesType, NULL
  <2> QED BY <1>3, <2>1 DEF Enclosing, Closed
<1> DEFINE S == {q \in Orders : \E b \in Busy \ {NULL} : q \in Enclosing(b)}
<1>4. Closed(S)
  BY <1>1, <1>2, <1>3 DEF Closed
<1>5. o \notin S
  BY DEF PoliteUmount
<1>6. \A j \in 1..Len(stack) :
        IsCall(stack[j]) /\ stack[j].mp # NULL => stack[j].mp \in S
  BY <1>1, <1>2 DEF Busy, IsCall
<1> QED BY <1>4, <1>5, <1>6

-----------------------------------------------------------------------------
(***************************************************************************)
(* Steps that add a package, or spend an order.                            *)
(***************************************************************************)
\* The order that a mount gives, and the slot that it takes in the parent: of a package
\* of the table, or of one that failed at once, or of a creator.
Added(record, child) ==
  /\ mcount' = mcount + 1
  /\ record \in MntType /\ record.children = <<>>
  /\ record.parent # NULL => Live(record.parent)
  /\ \A o \in Orders : mount_order'[o] = mount_order[o]
                       /\ phk'[o] = Allocated(record, child)[o]
  /\ \A o : o = mcount =>
       \/ mount_order'[o] = o /\ phk'[o] = record /\ (record.parent # NULL => child = o)
       \/ mount_order'[o] = NULL /\ phk'[o].parent = NULL /\ child = NULL
  /\ child = NULL \/ (child = mcount /\ ~Unregistering(record.parent))

\* The calls know the packages of the table only.
LEMMA CallsKnow ==
  ASSUME TableInv, FamilyInv, NEW k \in 1..Len(stack), IsCall(stack[k])
  PROVE  /\ stack[k].mp = NULL => stack[k].fn = "prolog" /\ k < Len(stack)
         /\ stack[k].mp # NULL => Live(stack[k].mp) /\ stack[k].mp \in Orders
<1>1. FrameInv(k)
  BY DEF FamilyInv, CallsInv
<1> QED BY <1>1 DEF FrameInv, Live

LEMMA UnregisteringLive ==
  ASSUME TableInv, FamilyInv, NEW o, Unregistering(o)
  PROVE  Live(o) /\ o \in Orders
<1>1. PICK k \in 1..Len(stack) : stack[k].fn = "umount" /\ stack[k].mp = o
  BY DEF Unregistering
<1> QED BY <1>1, CallsKnow DEF IsCall

LEMMA AddedChildren ==
  ASSUME TablesType, NEW record, NEW child \in Int, Added(record, child), NEW o \in Orders
  PROVE  /\ SameFields(phk'[o], phk[o])
         /\ phk'[o].children =
              IF o = record.parent THEN Append(phk[o].children, child) ELSE phk[o].children
         /\ Live(o)' <=> Live(o)
<1>1. record \in MntType
  BY DEF Added
<1>2. o \in Orders'
  BY DEF Added, Orders, TablesType
<1> QED BY <1>1, <1>2, AllocatedFields DEF Added, Live

LEMMA AddedLater ==
  ASSUME TableInv, FamilyInv, NEW record, NEW child \in Int, Added(record, child)
  PROVE  Later /\ \A o : Live(o) => Live(o)'
<1>1. TablesType /\ mcount \in Nat /\ mcount' \in Nat /\ mcount <= mcount'
  BY TypeParts DEF TableInv, TablesType, Added
<1>2. ASSUME NEW o \in Orders
      PROVE  /\ phk'[o].parent = phk[o].parent /\ phk'[o].mnt = phk[o].mnt
             /\ Len(phk[o].children) <= Len(phk'[o].children)
             /\ \A i \in 1..Len(phk[o].children) : phk'[o].children[i] = phk[o].children[i]
  <2>1. phk[o].children \in Seq(Int) /\ Len(phk[o].children) \in Nat
    BY <1>1, ChildrenType DEF Children
  <2>2. phk'[o].children \in {phk[o].children, Append(phk[o].children, child)}
    BY <1>1, AddedChildren
  <2>3. phk'[o].parent = phk[o].parent /\ phk'[o].mnt = phk[o].mnt
    BY <1>1, AddedChildren DEF SameFields
  <2>4. PICK c : c = phk[o].children
    OBVIOUS
  <2>5. Len(c) \in Nat /\ Len(Append(c, child)) = Len(c) + 1
        /\ \A i \in 1..Len(c) : Append(c, child)[i] = c[i]
    BY <2>1, <2>4
  <2>6. PICK d : d = phk'[o].children /\ d \in {c, Append(c, child)}
    BY <2>2, <2>4
  <2>7. Len(c) <= Len(d) /\ \A i \in 1..Len(c) : d[i] = c[i]
    BY <2>5, <2>6
  <2> QED BY <2>3, <2>4, <2>6, <2>7
<1>3. ASSUME NEW o \in Orders, Unregistering(o), Childless(o)
      PROVE  Childless(o)'
  <2>1. phk[o].children \in Seq(Int) /\ DOMAIN (phk[o].children) = 1..Len(phk[o].children)
    BY <1>1, ChildrenType DEF Children
  <2>2. CASE phk'[o].children = phk[o].children
    BY <1>3, <2>2 DEF Childless, Children
  <2>3. CASE o = record.parent /\ phk'[o].children = Append(phk[o].children, child)
    <3>1. child = NULL
      BY <1>3, <2>3 DEF Added
    <3>2. \A i \in DOMAIN Append(phk[o].children, child) :
            Append(phk[o].children, child)[i] = NULL
      BY <1>3, <2>1, <3>1 DEF Childless, Children
    <3> QED BY <2>3, <3>2 DEF Childless, Children
  <2> QED BY <1>1, <2>2, <2>3, AddedChildren
<1>4. \A o : Live(o) => Live(o)'
  BY <1>1, AddedChildren DEF Live
<1>5. Later
  BY <1>1, <1>2, <1>3 DEF Later
<1> QED BY <1>4, <1>5

LEMMA AddedFamily ==
  ASSUME TableInv, FamilyInv, NEW record, NEW child \in Int, Added(record, child),
         SameUnregistering
  PROVE  Family'
<1>1. /\ TablesType /\ mcount \in Nat /\ Orders' = Orders \cup {mcount} /\ mcount \notin Orders
      /\ Orders = 0..(mcount - 1) /\ NULL \notin Orders' /\ NULL # mcount
  BY TypeParts DEF TableInv, TablesType, Added, Orders, NULL
<1>2. PICK n : n = mcount
  OBVIOUS
<1>3. \/ mount_order'[n] = n /\ phk'[n] = record /\ (record.parent # NULL => child = n)
      \/ mount_order'[n] = NULL /\ phk'[n].parent = NULL /\ child = NULL
  BY <1>2 DEF Added
<1>4. /\ \A o \in Orders : phk'[o].parent = phk[o].parent /\ (Live(o)' <=> Live(o))
      /\ \A o : Live(o) => Live(o)' /\ o \in Orders
      /\ record.parent # NULL => Live(record.parent) /\ record.parent \in Orders
  BY <1>1, AddedChildren, AddedLater DEF SameFields, Live, Added
<1>5. Ancestry'
  <2>1. ASSUME NEW o \in Orders
        PROVE  /\ phk'[o].parent \in NULL..(o - 1)
               /\ Live(o)' /\ phk'[o].parent # NULL => Live(phk[o].parent)'
    <3>1. PICK p : p = phk[o].parent /\ p = phk'[o].parent
      BY <1>4
    <3>2. p \in NULL..(o - 1) /\ (Live(o) /\ p # NULL => Live(p))
      BY <3>1 DEF FamilyInv, Family, Ancestry
    <3> QED BY <1>4, <3>1, <3>2
  <2>2. /\ phk'[n].parent \in NULL..(n - 1)
        /\ Live(n)' /\ phk'[n].parent # NULL => Live(phk[n].parent)'
    <3>1. phk'[n].parent = NULL \/ phk'[n].parent = record.parent
      BY <1>3
    <3>2. CASE phk'[n].parent = NULL
      BY <1>1, <1>2, <3>2 DEF NULL
    <3>3. CASE phk'[n].parent = record.parent /\ record.parent # NULL
      <4>1. PICK p : p = record.parent /\ p = phk'[n].parent
        BY <3>3
      <4>2. Live(p)' /\ p \in Orders
        BY <1>4, <3>3, <4>1
      <4>3. p \in NULL..(n - 1)
        BY <1>1, <1>2, <4>2 DEF NULL
      <4> QED BY <4>1, <4>2, <4>3
    <3> QED BY <3>1, <3>2, <3>3
  <2>3. \A o \in Orders' :
          /\ phk'[o].parent \in NULL..(o - 1)
          /\ Live(o)' /\ phk'[o].parent # NULL => Live(phk[o].parent)'
    BY <1>1, <1>2, <2>1, <2>2
  <2> QED BY <2>3 DEF Ancestry
<1>6. \A o : Unregistering(o)' => o \in Orders
  BY UnregisteringLive DEF SameUnregistering
<1>7. ChildrenInv'
  <2> SUFFICES ASSUME NEW o \in Orders', Live(o)', NEW i \in DOMAIN (phk'[o].children), NEW c,
                      c = phk'[o].children[i], c # NULL
               PROVE  Live(c)' /\ phk'[c].parent = o /\ ~Unregistering(c)'
    BY DEF ChildrenInv, Children
  <2>1. o \in Orders
    <3>1. record.children = <<>>
      BY DEF Added
    <3>2. o = n => phk'[o].children = <<>>
      BY <1>1, <1>2, <1>3, <3>1 DEF Live
    <3>3. o # n
      BY <3>2
    <3> QED BY <1>1, <1>2, <3>3
  <2>2. /\ phk[o].children \in Seq(Int)
        /\ DOMAIN (phk[o].children) = 1..Len(phk[o].children) /\ Len(phk[o].children) \in Nat
    BY <1>1, <2>1, ChildrenType DEF Children
  <2>3. CASE i \in DOMAIN (phk[o].children) /\ c = phk[o].children[i]
    <3>1. Live(c) /\ phk[c].parent = o /\ ~Unregistering(c)
      BY <1>4, <2>1, <2>3 DEF FamilyInv, Family, ChildrenInv, Children
    <3> QED BY <1>4, <3>1 DEF SameUnregistering
  <2>4. CASE o = record.parent /\ c = child
    <3>1. c = n /\ ~Unregistering(c)'
      BY <1>1, <1>2, <1>6, <2>4 DEF Added
    <3>2. Live(c)' /\ phk'[c].parent = o
      BY <1>1, <1>2, <1>3, <2>4, <3>1 DEF Live
    <3> QED BY <3>1, <3>2
  <2>5. /\ phk'[o].children =
             IF o = record.parent THEN Append(phk[o].children, child) ELSE phk[o].children
    BY <1>1, <2>1, AddedChildren
  <2>6. CASE o = record.parent
    <3>1. i \in 1..(Len(phk[o].children) + 1) /\ c = Append(phk[o].children, child)[i]
      BY <2>2, <2>5, <2>6
    <3>2. \/ i \in DOMAIN (phk[o].children) /\ c = phk[o].children[i]
          \/ c = child
      BY <2>2, <3>1
    <3> QED BY <2>3, <2>4, <2>6, <3>2
  <2>7. CASE o # record.parent
    BY <2>3, <2>5, <2>7
  <2> QED BY <2>6, <2>7
<1>8. ParentInv'
  <2> SUFFICES ASSUME NEW o \in Orders', Live(o)', phk'[o].parent # NULL, ~Unregistering(o)'
               PROVE  OnlyIn(o, phk'[phk'[o].parent].children)
    BY DEF ParentInv, Children, OnlyIn
  <2>1. PICK p : p = phk'[o].parent
    OBVIOUS
  <2>2. p \in Orders /\ Live(p)
    <3>1. CASE o = n
      BY <1>1, <1>3, <1>4, <2>1, <3>1
    <3>2. CASE o # n
      <4>1. o \in Orders /\ Live(o) /\ phk[o].parent = p /\ p # NULL
        BY <1>1, <1>2, <1>4, <2>1, <3>2
      <4> QED BY <4>1 DEF FamilyInv, Family, Ancestry, Live
    <3> QED BY <3>1, <3>2
  <2>3. /\ phk[p].children \in Seq(Int)
        /\ DOMAIN (phk[p].children) = 1..Len(phk[p].children) /\ Len(phk[p].children) \in Nat
    BY <1>1, <2>2, ChildrenType DEF Children
  <2>4. phk'[p].children =
          IF p = record.parent THEN Append(phk[p].children, child) ELSE phk[p].children
    BY <1>1, <2>2, AddedChildren
  <2>5. CASE o = n
    <3>1. p = record.parent /\ child = o
      BY <1>1, <1>3, <2>1, <2>5
    <3>2. \A i \in DOMAIN (phk[p].children) : phk[p].children[i] # o
      <4> SUFFICES ASSUME NEW i \in DOMAIN (phk[p].children), phk[p].children[i] = o
                   PROVE  FALSE
        OBVIOUS
      <4>1. Live(o)
        BY <1>1, <1>2, <2>2, <2>5 DEF FamilyInv, Family, ChildrenInv, Children
      <4> QED BY <1>1, <1>2, <1>4, <2>5, <4>1
    <3>3. OnlyIn(o, Append(phk[p].children, o))
      <4>1. PICK s, l : s = phk[p].children /\ l = Len(s)
        OBVIOUS
      <4>2. /\ s \in Seq(Int) /\ l \in Nat /\ Append(s, o)[l + 1] = o
            /\ DOMAIN Append(s, o) = 1..(l + 1) /\ l + 1 \in 1..(l + 1)
            /\ \A j \in 1..(l + 1) : j # l + 1 => j \in 1..l /\ Append(s, o)[j] = s[j]
        BY SMTT(30), <2>3, <4>1
      <4>3. \A j \in DOMAIN Append(s, o) \ {l + 1} : Append(s, o)[j] # o
        BY <2>3, <3>2, <4>1, <4>2
      <4> QED BY <4>1, <4>2, <4>3 DEF OnlyIn
    <3> QED BY <2>1, <2>4, <3>1, <3>3
  <2>6. CASE o # n
    <3>1. o \in Orders /\ Live(o) /\ phk[o].parent = p /\ p # NULL /\ ~Unregistering(o)
      BY <1>1, <1>2, <1>4, <2>1, <2>6 DEF SameUnregistering
    <3>2. OnlyIn(o, phk[p].children)
      BY <3>1 DEF FamilyInv, Family, ParentInv, Children
    <3>3. o # child
      BY <1>1, <1>2, <2>6, <3>1 DEF Added
    <3>4. OnlyIn(o, Append(phk[p].children, child))
      <4>1. PICK s, l : s = phk[p].children /\ l = Len(s)
        OBVIOUS
      <4>2. /\ s \in Seq(Int) /\ l \in Nat /\ Append(s, child)[l + 1] = child
            /\ DOMAIN Append(s, child) = 1..(l + 1) /\ DOMAIN s = 1..l
            /\ \A j \in 1..l : j \in 1..(l + 1) /\ Append(s, child)[j] = s[j]
            /\ \A j \in 1..(l + 1) : j \in 1..l \/ j = l + 1
        BY <2>3, <4>1
      <4>3. PICK i \in 1..l : s[i] = o /\ \A j \in 1..l \ {i} : s[j] # o
        BY <3>2, <4>1, <4>2 DEF OnlyIn
      <4>4. \A j \in 1..(l + 1) \ {i} : Append(s, child)[j] # o
        BY <3>3, <4>2, <4>3
      <4> QED BY SMTT(30), <4>1, <4>2, <4>3, <4>4 DEF OnlyIn
    <3> QED BY <2>1, <2>4, <3>2, <3>4
  <2> QED BY <2>5, <2>6
<1> QED BY <1>5, <1>7, <1>8 DEF Family

-----------------------------------------------------------------------------
(***************************************************************************)
(* Steps that take a package from its parent, or from the table.           *)
(***************************************************************************)
\* x leaves the children of its parent; it is removed too, or begins to unregister.
Departs(x) ==
  /\ mcount' = mcount
  /\ \A q \in Orders \ {x} : /\ mount_order'[q] = mount_order[q]
                             /\ phk'[q].parent = phk[q].parent
  /\ phk'[x].parent \in {phk[x].parent, NULL}
  /\ \A q \in Orders : Live(q) /\ Live(q)' =>
       /\ phk'[q].mnt = phk[q].mnt
       /\ DOMAIN (phk'[q].children) = DOMAIN (phk[q].children)
       /\ \A i \in DOMAIN (phk[q].children) :
            phk'[q].children[i] = IF phk[q].children[i] = x THEN NULL ELSE phk[q].children[i]
  /\ \A o : o # x => (Unregistering(o)' <=> Unregistering(o))
  /\ IF Live(x)' THEN Live(x) /\ Unregistering(x)'
     ELSE \A q \in Orders : Live(q) /\ q # x => phk[q].parent # x

LEMMA DepartsLater ==
  ASSUME TableInv, TableInv', NEW x \in Orders, Departs(x)
  PROVE  Later /\ (\A q : q # x => (Live(q)' <=> Live(q))) /\ Orders' = Orders
<1>1. TablesType /\ TablesType' /\ mcount \in Nat /\ mcount' = mcount /\ Orders' = Orders
  BY TypeParts, TypePartsPrimed DEF TableInv, TablesType, Departs, Orders
<1>2. \A q : q # x => (Live(q)' <=> Live(q))
  BY <1>1 DEF Departs, Live
<1>3. ASSUME NEW q \in Orders, Live(q), Live(q)'
      PROVE  /\ phk'[q].mnt = phk[q].mnt
             /\ Len(phk[q].children) <= Len(phk'[q].children)
             /\ \A i \in 1..Len(phk[q].children) :
                  phk'[q].children[i] \in {phk[q].children[i], NULL}
             /\ Childless(q) => Childless(q)'
  <2>1. /\ DOMAIN (phk[q].children) = 1..Len(phk[q].children) /\ Len(phk[q].children) \in Nat
        /\ phk[q].children \in Seq(Int)
    BY <1>1, ChildrenType DEF Children
  <2>2. /\ DOMAIN (phk'[q].children) = 1..Len(phk'[q].children)
        /\ Len(phk'[q].children) \in Nat /\ phk'[q].children \in Seq(Int)
    BY <1>1, ChildrenTypePrimed
  <2>3. DOMAIN (phk'[q].children) = DOMAIN (phk[q].children)
    BY <1>3 DEF Departs
  <2>4. Len(phk[q].children) = Len(phk'[q].children)
    <3>1. \A a, b \in Nat : 1..a = 1..b => a <= b
      <4> SUFFICES ASSUME NEW a \in Nat, NEW b \in Nat, 1..a = 1..b
                   PROVE  a <= b
        OBVIOUS
      <4>1. a = 0 \/ a \in 1..b
        OBVIOUS
      <4> QED BY <4>1
    <3>2. \A a, b \in Nat : 1..a = 1..b => a = b
      <4> SUFFICES ASSUME NEW a \in Nat, NEW b \in Nat, 1..a = 1..b
                   PROVE  a = b
        OBVIOUS
      <4>1. a <= b /\ b <= a
        BY <3>1
      <4> QED BY <4>1
    <3> QED BY <2>1, <2>2, <2>3, <3>2
  <2>5. phk'[q].mnt = phk[q].mnt
    BY <1>3 DEF Departs
  <2>6. \A i \in DOMAIN (phk[q].children) :
          phk'[q].children[i] = IF phk[q].children[i] = x THEN NULL ELSE phk[q].children[i]
    BY <1>3 DEF Departs
  <2>7. Childless(q) => Childless(q)'
    BY <2>3, <2>6 DEF Childless, Children
  <2> QED BY <2>1, <2>4, <2>5, <2>6, <2>7
<1>4. \A q \in Orders : phk'[q].parent \in {phk[q].parent, NULL}
  BY DEF Departs
<1>5. Later
  BY <1>1, <1>3, <1>4 DEF Later
<1> QED BY <1>1, <1>2, <1>5

LEMMA DepartsFamily ==
  ASSUME TableInv, TableInv', Family, NEW x \in Orders, Departs(x)
  PROVE  Family'
<1>1. /\ Orders' = Orders /\ \A q : q # x => (Live(q)' <=> Live(q))
      /\ x \in Int /\ x >= 0
  BY DepartsLater, TypeParts DEF TableInv, TablesType, Orders
<1>2. ASSUME NEW q \in Orders, Live(q)'
      PROVE  Live(q)
  BY <1>1, <1>2 DEF Departs
<1>3. ASSUME NEW q \in Orders, Live(q)', phk'[q].parent # NULL
      PROVE  /\ phk'[q].parent = phk[q].parent /\ phk[q].parent \in Orders
             /\ Live(phk[q].parent) /\ Live(phk[q].parent)'
  <2>1. phk'[q].parent = phk[q].parent /\ Live(phk[q].parent)
    BY <1>2, <1>3 DEF Departs, Family, Ancestry
  <2>2. Live(phk[q].parent)'
    <3>1. CASE Live(x)'
      BY <1>1, <2>1, <3>1
    <3>2. CASE ~Live(x)'
      <4>1. q # x /\ Live(q)
        BY <1>2, <1>3, <3>2
      <4>2. phk[q].parent # x
        BY <3>2, <4>1 DEF Departs
      <4> QED BY <1>1, <2>1, <4>2
    <3> QED BY <3>1, <3>2
  <2> QED BY <2>1, <2>2 DEF Live
<1>4. Ancestry'
  <2>1. ASSUME NEW q \in Orders
        PROVE  phk'[q].parent \in NULL..(q - 1)
    <3>1. phk[q].parent \in NULL..(q - 1) /\ phk'[q].parent \in {phk[q].parent, NULL}
      BY DEF Family, Ancestry, Departs
    <3>2. NULL \in NULL..(q - 1)
      BY TypeParts DEF TableInv, TablesType, Orders, NULL
    <3> QED BY <3>1, <3>2
  <2> QED BY <1>1, <1>3, <2>1 DEF Ancestry
<1>5. ChildrenInv'
  <2> SUFFICES ASSUME NEW q \in Orders, Live(q)', NEW i \in DOMAIN (phk'[q].children), NEW c,
                      c = phk'[q].children[i], c # NULL
               PROVE  Live(c)' /\ phk'[c].parent = q /\ ~Unregistering(c)'
    BY <1>1 DEF ChildrenInv, Children
  <2>1. i \in DOMAIN (phk[q].children) /\ c = phk[q].children[i] /\ c # x
    BY <1>2 DEF Departs
  <2>2. Live(c) /\ phk[c].parent = q /\ ~Unregistering(c)
    BY <1>2, <2>1 DEF Family, ChildrenInv, Children
  <2> QED BY <1>1, <2>1, <2>2 DEF Departs, Live
<1>6. ParentInv'
  <2> SUFFICES ASSUME NEW o \in Orders, Live(o)', phk'[o].parent # NULL, ~Unregistering(o)'
               PROVE  OnlyIn(o, phk'[phk'[o].parent].children)
    BY <1>1 DEF ParentInv, Children, OnlyIn
  <2>1. o # x
    BY DEF Departs
  <2>2. PICK p \in Orders : p = phk'[o].parent /\ p = phk[o].parent /\ Live(p) /\ Live(p)'
    BY <1>3
  <2>3. OnlyIn(o, phk[p].children)
    BY <1>2, <2>1, <2>2 DEF Departs, Family, ParentInv, Children
  <2>4. /\ DOMAIN (phk'[p].children) = DOMAIN (phk[p].children)
        /\ \A i \in DOMAIN (phk[p].children) :
             phk'[p].children[i] = IF phk[p].children[i] = x THEN NULL ELSE phk[p].children[i]
    BY <2>2 DEF Departs
  <2>5. o # NULL
    BY TypeParts DEF TableInv, TablesType, Orders, NULL
  <2>6. OnlyIn(o, phk'[p].children)
    BY <2>1, <2>3, <2>4, <2>5 DEF OnlyIn
  <2> QED BY <2>2, <2>6
<1> QED BY <1>4, <1>5, <1>6 DEF Family

\* What the code does to the children is that.
LEMMA UnregisteredSlots ==
  ASSUME TableInv, Family, NEW x \in Orders, NEW q \in Orders, Live(q)
  PROVE  /\ DOMAIN (Unregistered(x)[q].children) = DOMAIN (phk[q].children)
         /\ \A i \in DOMAIN (phk[q].children) : Unregistered(x)[q].children[i] =
              IF phk[q].children[i] = x THEN NULL ELSE phk[q].children[i]
<1>1. TablesType /\ x # NULL
  BY TypeParts DEF TableInv, TablesType, Orders, NULL
<1>2. \A i \in DOMAIN (phk[q].children) : phk[q].children[i] = x => q = phk[x].parent
  BY <1>1 DEF Family, ChildrenInv, Children
<1>3. CASE q = phk[x].parent
  <2>1. PICK before, after : before = phk[q].children /\ after = Unregistered(x)[q].children
    OBVIOUS
  <2>2. after = [i \in DOMAIN before |-> IF before[i] = x THEN NULL ELSE before[i]]
    BY <1>1, <1>3, <2>1, UnregisteredFields
  <2>3. /\ DOMAIN after = DOMAIN before
        /\ \A i \in DOMAIN before : after[i] = IF before[i] = x THEN NULL ELSE before[i]
    BY <2>2
  <2> QED BY <2>1, <2>3
<1>4. CASE q # phk[x].parent
  BY <1>1, <1>2, <1>4, UnregisteredFields
<1> QED BY <1>3, <1>4

-----------------------------------------------------------------------------
(***************************************************************************)
(* What the invariant says of the call that runs.                          *)
(***************************************************************************)
LEMMA TopCall ==
  ASSUME TableInv, FamilyInv, Top.fn # "script"
  PROVE  /\ Len(stack) \in Nat /\ Len(stack) > 1 /\ stack[Len(stack)] # MainScript
         /\ Top \in FrameType /\ FrameInv(Len(stack))
         /\ Live(Top.mp) /\ Top.mp \in Orders /\ Top.mp # NULL /\ Top.mp \in Int
<1>1. StackOK(stack) /\ TablesType
  BY TypeParts DEF TableInv
<1>2. stack[Len(stack)] # MainScript
  BY TopNotMain
<1>3. Len(stack) \in Nat /\ Len(stack) > 1 /\ Len(stack) \in 1..Len(stack)
  BY <1>1, <1>2, PopShape
<1>4. Top \in FrameType /\ FrameInv(Len(stack))
  BY <1>1, <1>3, TopType DEF FamilyInv, CallsInv
<1>5. Live(Top.mp) /\ Top.mp \in Orders /\ Top.mp # NULL /\ Top.mp \in Int
  BY <1>1, <1>3, CallsKnow DEF Top, IsCall, Live, FamilyInv, Orders, TablesType, NULL
<1> QED BY <1>2, <1>3, <1>4, <1>5

\* The frame below the one that runs waits for it.
LEMMA BelowTop ==
  ASSUME TableInv, FamilyInv, NEW n \in Nat, n = Len(stack), n > 1
  PROVE  /\ n - 1 \in 1..n /\ FrameInv(n - 1) /\ Follows(stack[n - 1], Top)
         /\ stack[n - 1] \in FrameType
<1>1. n - 1 \in 1..n /\ n - 1 < n /\ (n - 1) + 1 = n
  OBVIOUS
<1>2. FrameInv(n - 1)
  BY <1>1 DEF FamilyInv, CallsInv
<1>3. Follows(stack[n - 1], Top)
  BY <1>1, <1>2 DEF FrameInv, Top
<1>4. stack[n - 1] \in FrameType
  BY <1>1, FrameFields, TypeParts DEF TableInv
<1> QED BY <1>1, <1>2, <1>3, <1>4

\* A set that has the packages of the calls below shows that a call is apart from them.
LEMMA ApartLater ==
  ASSUME Later, NEW S \in SUBSET Orders, Closed(S), NEW k \in Nat, stack'[k].mp \notin S,
         \A j \in 1..(k - 1) :
           IsCall(stack'[j]) /\ stack'[j].mp # NULL => stack'[j].mp \in S
  PROVE  ApartFromCallers(k)'
<1>1. S \subseteq Orders'
  BY OrdersLater
<1>2. Closed(S)'
  BY DEF Later, Closed
<1>3. Apart(k, S)'
  BY <1>2 DEF Apart
<1> QED BY <1>1, <1>3 DEF ApartFromCallers

\* A call that frees its package is apart from those below.
LEMMA TopApart ==
  ASSUME TableInv, FamilyInv, Top.fn # "script", Frees(Top), NEW n \in Nat, n = Len(stack)
  PROVE  \E S \in SUBSET Orders :
           /\ Closed(S) /\ Top.mp \notin S
           /\ \A j \in 1..(n - 1) :
                IsCall(stack[j]) /\ stack[j].mp # NULL => stack[j].mp \in S
<1>1. ApartFromCallers(n)
  BY TopCall DEF FrameInv, Top
<1> QED BY <1>1 DEF ApartFromCallers, Apart, Top

-----------------------------------------------------------------------------
(***************************************************************************)
(* Steps of the call stack.                                                *)
(***************************************************************************)
\* User code does something else.
LEMMA IdleStep ==
  ASSUME TableInv, TableInv', FamilyInv, UNCHANGED <<tables, stack, fault>>,
         Top.fn = "script" \/ exc' = exc
  PROVE  FamilyInv'
<1>1. StackOK(stack) /\ TablesType /\ Later /\ SameStructures /\ \A o : Live(o)' <=> Live(o)
  BY TypeParts, TablesStay, StructuresLater DEF TableInv
<1>2. PICK n \in Nat : n = Len(stack) /\ n \in 1..n /\ ~(n < n) /\ stack[n] = Top
  BY <1>1, TopType DEF Top
<1>3. Family'
  BY <1>1, SameFamily DEF FamilyInv, SameUnregistering, Unregistering
<1>4. FrameInv(n)
  BY <1>2 DEF FamilyInv, CallsInv
<1>5. IsCall(stack[n]) => stack[n].mp # NULL /\ Live(stack[n].mp) /\ stack[n].mp \in Orders
  BY <1>2, CallsKnow
<1>6. stack[n].fn = "mount" /\ exc' => Childless(stack[n].mp)'
  <2>1. stack[n].fn = "mount" /\ exc' => Childless(stack[n].mp)
    BY <1>2, <1>4 DEF FrameInv
  <2>2. \A o \in Orders : Childless(o)' <=> Childless(o)
    BY DEF tables, Childless, Children
  <2> QED BY <1>5, <2>1, <2>2 DEF IsCall
<1>7. \A k \in 1..n : FrameInv(k)'
  BY <1>1, <1>2, <1>5, <1>6, CallsKept DEF FamilyInv, Leaving
<1> QED BY <1>2, <1>3, <1>7 DEF FamilyInv, CallsInv

\* User code calls umount(), or a prolog of a mounted package.
LEMMA PushStep ==
  ASSUME TableInv, TableInv', FamilyInv, UNCHANGED <<tables, fault>>, Top.fn = "script",
         NEW f \in FrameType, Live(f.mp),
         Len(stack') = Len(stack) + 1, stack'[Len(stack) + 1] = f,
         \A j \in 1..Len(stack) : stack'[j] = stack[j],
         f.fn = "prolog" \/ (f.fn = "umount" /\ f.pc = "children" /\ f.i = 0),
         Frees(f) => \E S \in SUBSET Orders :
                       /\ Closed(S) /\ f.mp \notin S
                       /\ \A j \in 1..Len(stack) :
                            IsCall(stack[j]) /\ stack[j].mp # NULL => stack[j].mp \in S
  PROVE  FamilyInv'
<1>1. /\ StackOK(stack) /\ TablesType /\ TablesType' /\ Later /\ SameStructures
      /\ \A o : Live(o)' <=> Live(o)
  BY TypeParts, TypePartsPrimed, TablesStay, StructuresLater DEF TableInv
<1>2. PICK n \in Nat : n = Len(stack) /\ n \in 1..n /\ stack[n] = Top
  BY <1>1, TopType DEF Top
<1>3. PICK nn \in Nat : /\ nn = n + 1 /\ nn = Len(stack') /\ stack'[nn] = f
                        /\ n \in 1..nn /\ n < nn /\ ~(nn < nn) /\ nn - 1 = n
                        /\ \A j \in 1..n : stack'[j] = stack[j] /\ j <= nn
                        /\ \A j \in 1..nn : j \in 1..n \/ j = nn
  <2>1. \A j \in 1..n : j <= n + 1
    OBVIOUS
  <2>2. \A j \in 1..(n + 1) : j \in 1..n \/ j = n + 1
    OBVIOUS
  <2>3. Len(stack') = n + 1 /\ stack'[n + 1] = f /\ \A j \in 1..n : stack'[j] = stack[j]
    BY <1>2
  <2> QED BY <1>2, <2>1, <2>2, <2>3
<1>4. SameUnregistering
  <2>1. ~Leaves(f)
    BY DEF Leaves
  <2>2. \A j \in 1..n : j <= n
    OBVIOUS
  <2>3. \A j \in 1..nn : Leaves(stack'[j]) => j <= n /\ stack'[j] = stack[j]
    BY <1>3, <2>1, <2>2
  <2> QED BY <1>2, <1>3, <2>3, UnregisteringKept
<1>5. Family'
  BY <1>1, <1>4, SameFamily DEF FamilyInv
<1>6. \A k \in 1..n : FrameInv(k)'
  <2>1. Follows(stack[n], stack'[n + 1])
    BY <1>2, <1>3 DEF Follows
  <2> QED BY <1>1, <1>2, <1>3, <2>1, CallsKept DEF FamilyInv, IsCall
<1>7. FrameInv(nn)'
  <2>1. f.mp # NULL /\ Live(f.mp)' /\ f.mp \in Orders'
    BY <1>1 DEF Live, Orders, TablesType, NULL
  <2>2. f.fn = "umount" => UmountInv(nn)'
    <3>1. 0 <= Len(phk'[f.mp].children)
      BY <1>1, <2>1, ChildrenTypePrimed
    <3>2. \A i : i \notin 1..0
      OBVIOUS
    <3> QED BY <1>3, <3>1, <3>2 DEF UmountInv, Children
  <2>3. Frees(f)' => ApartFromCallers(nn)'
    <3>1. Frees(f)' => Frees(f)
      BY DEF Frees, tables
    <3>2. \A j \in 1..(nn - 1) : j \in 1..Len(stack) /\ stack'[j] = stack[j]
      BY <1>2, <1>3
    <3>3. ASSUME Frees(f)
          PROVE  ApartFromCallers(nn)'
      <4>1. PICK S \in SUBSET Orders :
              /\ Closed(S) /\ f.mp \notin S
              /\ \A j \in 1..Len(stack) :
                   IsCall(stack[j]) /\ stack[j].mp # NULL => stack[j].mp \in S
        BY <3>3
      <4> QED BY <1>1, <1>3, <3>2, <4>1, ApartLater
    <3> QED BY <3>1, <3>3
  <2> QED BY <1>3, <2>1, <2>2, <2>3 DEF FrameInv
<1>8. \A k \in 1..nn : FrameInv(k)'
  BY <1>3, <1>6, <1>7
<1> QED BY <1>3, <1>5, <1>8 DEF FamilyInv, CallsInv

\* The calls below one that resumes.
LEMMA BelowKept ==
  ASSUME TableInv, TableInv', FamilyInv, Later, NEW n \in Nat, n = Len(stack), n > 1,
         n <= Len(stack'), \A j \in 1..(n - 1) : stack'[j] = stack[j],
         \A j \in 1..(n - 1) : IsCall(stack[j]) /\ Live(stack[j].mp) => Live(stack[j].mp)',
         Top.fn # "script", stack'[n].fn = Top.fn,
         stack[n - 1].fn = "umount" /\ stack[n - 1].i > 0 /\ Leaving(n - 1, stack[n - 1].i) =>
           \/ stack'[n].pc = "children" /\ stack'[n].mp = Top.mp
           \/ phk'[stack[n - 1].mp].children[stack[n - 1].i] = NULL
  PROVE  \A k \in 1..(n - 1) : FrameInv(k)'
<1>1. PICK m \in Nat : m = n - 1 /\ m \in 1..n /\ m + 1 = n /\ m \in 1..m /\ m < n
  OBVIOUS
<1>2. PICK nn \in Nat : nn = Len(stack') /\ n <= nn
  BY TypePartsPrimed DEF TableInv, StackOK
<1>3. m \in 1..nn /\ m < nn /\ m # nn
  BY <1>1, <1>2
<1>4. PICK g, f : g = stack[m] /\ f = stack[n]
  OBVIOUS
<1>5. FrameInv(m) /\ Follows(g, f) /\ g \in FrameType /\ f = Top
  BY <1>1, <1>4, BelowTop DEF Top
<1>6. Follows(g, stack'[m + 1])
  BY <1>1, <1>4, <1>5 DEF Follows
<1>7. ASSUME NEW i \in 1..g.i, g.fn = "umount", Leaving(m, i)
      PROVE  Leaving(m, i)' \/ phk'[g.mp].children[i] = NULL
  <2>1. /\ f.fn = "umount" /\ f.pc = "children" /\ i = g.i /\ phk[g.mp].children[i] = f.mp
    BY <1>1, <1>4, <1>7 DEF Leaving, Children
  <2>2. CASE phk'[g.mp].children[i] = NULL
    BY <2>2
  <2>3. CASE phk'[g.mp].children[i] # NULL
    <3>1. stack'[n].pc = "children" /\ stack'[n].mp = f.mp /\ stack'[n].fn = "umount"
      <4>1. g.fn = "umount" /\ g.i > 0 /\ Leaving(m, g.i) /\ phk'[g.mp].children[g.i] # NULL
        BY <1>5, <1>7, <2>1, <2>3 DEF FrameType
      <4>2. /\ stack[n - 1].fn = "umount" /\ stack[n - 1].i > 0
            /\ Leaving(n - 1, stack[n - 1].i)
            /\ phk'[stack[n - 1].mp].children[stack[n - 1].i] # NULL
        BY <1>1, <1>4, <4>1
      <4>3. stack'[n].pc = "children" /\ stack'[n].mp = Top.mp
        BY <4>2
      <4>4. stack'[n].fn = Top.fn
        OBVIOUS
      <4> QED BY <1>5, <2>1, <4>3, <4>4
    <3>2. phk'[g.mp].children[i] = f.mp
      <4>1. Live(g.mp) /\ g.mp \in Orders /\ TablesType
        BY <1>1, <1>4, <1>5, <1>7, TypeParts DEF FrameInv, IsCall, Live, TableInv
      <4>2. UmountInv(m) /\ g.pc = "children"
        BY <1>1, <1>4, <1>5, <1>7, <2>1 DEF FrameInv, Follows
      <4>3. g.i <= Len(phk[g.mp].children) /\ g.i \in Nat
        BY <1>4, <1>5, <4>2 DEF UmountInv, Children, FrameType
      <4>4. i \in 1..Len(phk[g.mp].children)
        BY <4>1, <4>3, ChildrenType DEF Children
      <4>5. Live(g.mp)'
        BY <1>1, <1>4, <1>7, <4>1 DEF IsCall
      <4>6. phk'[g.mp].children[i] \in {phk[g.mp].children[i], NULL}
        BY <4>1, <4>4, <4>5 DEF Later
      <4> QED BY <2>1, <2>3, <4>6
    <3>3. stack'[m] = g
      BY <1>1, <1>4
    <3> QED BY <1>1, <1>2, <1>3, <2>1, <3>1, <3>2, <3>3 DEF Leaving, Children
  <2> QED BY <2>2, <2>3
<1>8. CallsInv /\ \A j \in 1..m : stack'[j] = stack[j]
  BY <1>1 DEF FamilyInv
<1>9. \A j \in 1..m : IsCall(stack[j]) /\ Live(stack[j].mp) => Live(stack[j].mp)'
  BY <1>1
<1>10. \A k \in 1..m : FrameInv(k)'
  <2>1. \A i \in 1..stack[m].i : stack[m].fn = "umount" /\ Leaving(m, i) =>
          Leaving(m, i)' \/ phk'[stack[m].mp].children[i] = NULL
    BY <1>4, <1>7
  <2>2. m \in 1..Len(stack) /\ m \in 1..Len(stack') /\ m < Len(stack') /\ m # Len(stack')
    BY <1>1, <1>2, <1>3
  <2> QED BY <1>4, <1>6, <1>8, <1>9, <2>1, <2>2, CallsKept
<1> QED BY <1>1, <1>10

\* A call resumes, or calls a script of its package.
LEMMA ResumeStep ==
  ASSUME TableInv, TableInv', FamilyInv, UNCHANGED <<tables, fault, exc>>, Top.fn # "script",
         NEW pc \in PCs, NEW for \in PCs,
         stack' = Resume(pc) \/ stack' = Call(pc, Script(Top.mp, for)),
         Top.fn = "mount" => ~exc /\ for \in {"mount", "plugin"},
         Top.fn = "umount" => Top.pc # "children" /\ pc # "children"
  PROVE  FamilyInv'
<1>1. /\ StackOK(stack) /\ TablesType /\ TablesType' /\ Later /\ SameStructures
      /\ \A o : Live(o)' <=> Live(o)
  BY TypeParts, TypePartsPrimed, TablesStay, StructuresLater DEF TableInv
<1>2. PICK n \in Nat : n = Len(stack) /\ n > 1 /\ n \in 1..n /\ stack[n] = Top
  BY TopCall DEF Top
<1>3. PICK r, s : r = Resume(pc) /\ s = Script(Top.mp, for)
  OBVIOUS
<1>4. /\ StackOK(r) /\ Len(r) = n /\ \A j \in 1..(n - 1) : r[j] = stack[j]
      /\ r[n].fn = Top.fn /\ r[n].mp = Top.mp /\ r[n].i = Top.i /\ r[n].pc = pc
  BY <1>1, <1>2, <1>3, ResumeOK, ResumeShape, TopCall
<1>5. stack' = r \/ stack' = Append(r, s)
  BY <1>3 DEF Call
<1>6. PICK nn \in Nat :
        /\ nn = Len(stack') /\ n <= nn /\ n \in 1..nn
        /\ (\A k \in 1..nn : k \in 1..(n - 1) \/ k = n \/ (k = n + 1 /\ nn = n + 1 /\ stack'[k] = s))
        /\ \A j \in 1..n : stack'[j] = r[j]
        /\ n < nn => nn = n + 1 /\ stack'[n + 1] = s
  <2>1. /\ \A k \in 1..n : k \in 1..(n - 1) \/ k = n
        /\ \A k \in 1..(n + 1) : k \in 1..(n - 1) \/ k = n \/ k = n + 1
        /\ n \in 1..(n + 1)
    BY <1>2
  <2>2. CASE stack' = r
    BY <1>2, <1>4, <2>1, <2>2
  <2>3. CASE stack' = Append(r, s)
    <3>1. Len(stack') = n + 1 /\ stack'[n + 1] = s /\ \A j \in 1..n : stack'[j] = r[j]
      BY <1>4, <2>3, PushShape
    <3> QED BY <1>2, <2>1, <3>1
  <2> QED BY <1>5, <2>2, <2>3
<1>7. PICK f : f = stack'[n]
  OBVIOUS
<1>8. /\ \A j \in 1..(n - 1) : stack'[j] = stack[j]
      /\ f.fn = Top.fn /\ f.mp = Top.mp /\ f.i = Top.i /\ f.pc = pc
  <2>1. \A j \in 1..(n - 1) : j \in 1..n
    OBVIOUS
  <2> QED BY <1>2, <1>4, <1>6, <1>7, <2>1
<1>9. s.fn = "script" /\ s.mp = Top.mp /\ s.pc = for
  BY <1>3 DEF Script, Frame
<1>10. SameUnregistering
  <2>1. Leaves(stack[n]) <=> Leaves(f)
    BY <1>2, <1>8 DEF Leaves
  <2>2. ~Leaves(s)
    BY <1>9 DEF Leaves
  <2>3. \A j \in 1..n : (j \in 1..(n - 1) \/ j = n) /\ j <= nn
    BY <1>6
  <2>4. \A j \in 1..nn : (j \in 1..(n - 1) /\ j <= n) \/ (j = n /\ j <= n) \/ stack'[j] = s
    BY <1>6
  <2>5. \A j \in 1..n : Leaves(stack[j]) =>
          j <= nn /\ Leaves(stack'[j]) /\ stack'[j].mp = stack[j].mp
    BY <1>2, <1>7, <1>8, <2>1, <2>3
  <2>6. \A j \in 1..nn : Leaves(stack'[j]) =>
          j <= n /\ Leaves(stack[j]) /\ stack[j].mp = stack'[j].mp
    BY <1>2, <1>7, <1>8, <2>1, <2>2, <2>4
  <2> QED BY <1>2, <1>6, <2>5, <2>6, UnregisteringKept
<1>11. Family'
  BY <1>1, <1>10, SameFamily DEF FamilyInv
<1>12. \A k \in 1..(n - 1) : FrameInv(k)'
  <2>1. n <= Len(stack') /\ stack'[n].fn = Top.fn
    BY <1>6, <1>7, <1>8
  <2>2. ~Leaving(n - 1, stack[n - 1].i)
    BY <1>2 DEF Leaving
  <2>3. \A j \in 1..(n - 1) : stack'[j] = stack[j]
    BY <1>8
  <2>4. \A j \in 1..(n - 1) : IsCall(stack[j]) /\ Live(stack[j].mp) => Live(stack[j].mp)'
    BY <1>1, <2>3
  <2> QED BY <1>1, <1>2, <2>1, <2>2, <2>3, <2>4, BelowKept
<1>13. FrameInv(n)'
  <2>1. f.mp # NULL /\ Live(f.mp)' /\ f.mp \in Orders
    BY <1>1, <1>8, TopCall
  <2>2. FrameInv(n)
    BY <1>2, TopCall
  <2>3. n < nn => Follows(f, stack'[n + 1])
    BY <1>6, <1>8, <1>9, <2>1 DEF Follows
  <2>4. f.fn = "umount" => UmountInv(n)'
    <3>1. f.fn = "umount" => Childless(f.mp)
      BY <1>2, <1>8, <2>2 DEF FrameInv, UmountInv
    <3>2. Childless(f.mp) => Childless(f.mp)'
      BY <2>1 DEF Childless, Children, tables
    <3> QED BY <1>7, <1>8, <3>1, <3>2 DEF UmountInv
  <2>5. Frees(f)' => ApartFromCallers(n)'
    <3>1. Frees(f)' => Frees(Top)
      BY <1>8 DEF Frees, tables
    <3> QED BY <1>1, <1>2, <1>7, <1>8, <2>2, <3>1, ApartKept DEF FrameInv
  <2> QED BY <1>6, <1>7, <1>8, <2>1, <2>3, <2>4, <2>5 DEF FrameInv
<1>14. nn = n + 1 => FrameInv(nn)'
  BY <1>6, <1>9 DEF FrameInv, IsCall, Frees
<1>15. \A k \in 1..nn : FrameInv(k)'
  BY <1>6, <1>12, <1>13, <1>14
<1> QED BY <1>6, <1>11, <1>15 DEF FamilyInv, CallsInv

\* A script returns, or a call that has nobody waiting for its result.
LEMMA PopStep ==
  ASSUME TableInv, TableInv', FamilyInv, UNCHANGED fault, SameStructures,
         stack[Len(stack)] # MainScript, stack' = Popped, Top.fn # "umount",
         Top.fn = "mount" => stack[Len(stack) - 1].fn = "script",
         stack[Len(stack) - 1].fn = "mount" /\ exc' =>
           Childless(stack[Len(stack) - 1].mp)
  PROVE  FamilyInv'
<1>1. /\ StackOK(stack) /\ TablesType /\ TablesType' /\ Later
      /\ \A o : Live(o)' <=> Live(o)
  BY TypeParts, TypePartsPrimed, StructuresLater DEF TableInv
<1>2. PICK n \in Nat : n = Len(stack) /\ n > 1 /\ stack[n] = Top
  BY <1>1, PopShape DEF Top
<1>3. PICK m \in Nat :
        /\ m = n - 1 /\ m = Len(stack') /\ m \in 1..n /\ m \in 1..m /\ ~(m < m)
        /\ m < n /\ m + 1 = n /\ \A j \in 1..m : stack'[j] = stack[j]
  BY <1>1, <1>2, PopShape DEF Popped
<1>4. PICK g : g = stack[m]
  OBVIOUS
<1>5. Follows(g, Top) /\ g \in FrameType
  BY <1>2, <1>3, <1>4, BelowTop
<1>6. SameUnregistering
  <2>1. ~Leaves(stack[n])
    BY <1>2 DEF Leaves
  <2>2. /\ \A j \in 1..n : j = n \/ (j \in 1..m /\ j <= m)
        /\ \A j \in 1..m : j <= n /\ j \in 1..n
    BY <1>3
  <2> QED BY <1>2, <1>3, <2>1, <2>2, UnregisteringKept
<1>7. Family'
  BY <1>1, <1>6, SameFamily DEF FamilyInv
<1>8. IsCall(g) => g.mp # NULL /\ Live(g.mp) /\ g.mp \in Orders
  <2>1. IsCall(g) /\ g.mp = NULL => g.fn = "prolog"
    BY <1>2, <1>3, <1>4, CallsKnow
  <2>2. ~(IsCall(g) /\ g.mp = NULL)
    BY <1>2, <1>3, <1>4, <1>5, <2>1 DEF Follows
  <2> QED BY <1>2, <1>3, <1>4, <2>2, CallsKnow
<1>9. g.fn = "mount" /\ exc' => Childless(g.mp)'
  <2>1. g.fn = "mount" /\ exc' => Childless(g.mp)
    BY <1>2, <1>3, <1>4
  <2>2. \A o \in Orders : Childless(o)' <=> Childless(o)
    BY DEF SameStructures, Childless, Children
  <2> QED BY <1>8, <2>1, <2>2 DEF IsCall
<1>10. \A i : ~Leaving(m, i)
  BY <1>2, <1>3 DEF Leaving
<1>11. \A k \in 1..m : FrameInv(k)'
  BY <1>1, <1>2, <1>3, <1>4, <1>8, <1>9, <1>10, CallsKept DEF FamilyInv
<1> QED BY <1>3, <1>7, <1>11 DEF FamilyInv, CallsInv

\* Below a mount is the script that called it, or a prolog that a script called.
LEMMA BelowMount ==
  ASSUME TableInv, FamilyInv, Top.fn = "mount", NEW n \in Nat, n = Len(stack)
  PROVE  /\ n > 1 /\ stack[n - 1].fn \in {"script", "prolog"}
         /\ stack[n - 1].fn = "prolog" => n - 1 > 1 /\ stack[n - 2].fn = "script"
<1>1. n > 1 /\ StackOK(stack)
  BY TopCall, TypeParts DEF TableInv
<1>2. Follows(stack[n - 1], Top) /\ stack[n - 1] \in FrameType
  BY <1>1, BelowTop
<1>3. stack[n - 1].fn \in {"script", "prolog"}
  BY <1>2 DEF Follows, FrameType
<1>4. ASSUME stack[n - 1].fn = "prolog"
      PROVE  n - 1 > 1 /\ stack[n - 2].fn = "script"
  <2>1. stack[1] # stack[n - 1]
    BY <1>1, <1>4 DEF StackOK, MainScript, Script, Frame
  <2>2. PICK m \in Nat : m = n - 2 /\ m + 1 = n - 1 /\ m \in 1..n /\ m < n
    BY <1>1, <2>1
  <2>3. FrameInv(m)
    BY <2>2 DEF FamilyInv, CallsInv
  <2>4. Follows(stack[m], stack[n - 1])
    BY <2>2, <2>3 DEF FrameInv
  <2>5. stack[m] \in FrameType
    BY <1>1, <2>2, FrameFields
  <2>6. stack[m].fn = "script"
    BY <1>4, <2>4, <2>5 DEF Follows, FrameType
  <2> QED BY <2>2, <2>6
<1> QED BY <1>1, <1>3, <1>4

\* The mount that a prolog has called returns the package to it.
LEMMA ReturnStep ==
  ASSUME TableInv, TableInv', FamilyInv, UNCHANGED fault, SameStructures,
         Top.fn = "mount", stack[Len(stack) - 1].fn = "prolog",
         stack' = Returned(Popped, Top.mp)
  PROVE  FamilyInv'
<1>1. /\ StackOK(stack) /\ TablesType /\ TablesType' /\ Later /\ Orders' = Orders
      /\ \A o : Live(o)' <=> Live(o)
  BY TypeParts, TypePartsPrimed, StructuresLater DEF TableInv
<1>2. PICK n \in Nat : n = Len(stack) /\ n > 1 /\ stack[n] = Top /\ stack[n] # MainScript
  BY <1>1, TopCall DEF Top
<1>3. PICK s, m : s = Popped /\ m = n - 1
  OBVIOUS
<1>4. /\ StackOK(s) /\ m \in Nat /\ Len(s) = m /\ m > 1
      /\ \A j \in 1..m : s[j] = stack[j]
      /\ m \in 1..m /\ m \in 1..n /\ m < n /\ m + 1 = n
  BY <1>1, <1>2, <1>3, PopShape, BelowMount DEF Popped
<1>5. s[m].fn = "prolog" /\ s[m] \in FrameType
  <2>1. s[m] = stack[m]
    BY <1>4
  <2> QED BY <1>1, <1>2, <1>3, <1>4, <2>1, FrameFields
<1>6. PICK g : g = [s[m] EXCEPT !.mp = Top.mp, !.pc = "lib"]
  OBVIOUS
<1>7. g.fn = "prolog" /\ g.mp = Top.mp
  BY <1>5, <1>6 DEF FrameType
<1>8. stack' = [s EXCEPT ![Len(s)] = g]
  <2>1. stack' = Returned(s, Top.mp)
    BY <1>3
  <2>2. m \in DOMAIN s
    BY <1>4 DEF StackOK
  <2> QED BY <1>4, <1>5, <1>6, <2>1, <2>2 DEF Returned
<1>9. PICK l \in Nat :
        /\ l = m - 1 /\ l \in 1..n /\ l \in 1..l /\ l + 1 = m /\ l < m /\ l \in 1..m
        /\ Len(stack') = m /\ stack'[m] = g
        /\ \A j \in 1..l : stack'[j] = stack[j]
        /\ \A j \in 1..m : j \in 1..l \/ j = m
  <2>1. \A j \in 1..(m - 1) : j \in 1..m
    BY <1>4
  <2>2. /\ Len(stack') = m /\ stack'[m] = g
        /\ \A j \in 1..(m - 1) : stack'[j] = stack[j]
    BY <1>4, <1>8, <2>1, UpdateShape
  <2>3. \A j \in 1..m : j \in 1..(m - 1) \/ j = m
    BY <1>4
  <2>4. m - 1 \in Nat /\ m - 1 \in 1..n /\ m - 1 \in 1..(m - 1) /\ m - 1 + 1 = m /\ m - 1 < m
        /\ m - 1 \in 1..m
    BY <1>4
  <2> QED BY <2>2, <2>3, <2>4
<1>10. stack[l].fn = "script"
  <2>1. l = n - 2
    BY <1>3, <1>9
  <2>2. stack[n - 1].fn = "prolog"
    BY <1>2
  <2> QED BY <1>2, <2>1, <2>2, BelowMount
<1>11. SameUnregistering
  <2>1. ~Leaves(stack[n]) /\ ~Leaves(stack[m]) /\ ~Leaves(g)
    BY <1>2, <1>3, <1>7 DEF Leaves
  <2>2. \A j \in 1..n : j = n \/ j = m \/ (j \in 1..l /\ j <= m)
    BY <1>4, <1>9
  <2>3. \A j \in 1..l : j <= n /\ j \in 1..n
    BY <1>4, <1>9
  <2>4. \A j \in 1..n : Leaves(stack[j]) => j <= m /\ stack'[j] = stack[j]
    BY <1>9, <2>1, <2>2
  <2>5. \A j \in 1..m : Leaves(stack'[j]) => j <= n /\ stack'[j] = stack[j]
    BY <1>9, <2>1, <2>3
  <2> QED BY SMTT(30), <1>2, <1>4, <1>9, <2>4, <2>5, UnregisteringKept
<1>12. Family'
  BY <1>1, <1>11, SameFamily DEF FamilyInv
<1>13. \A k \in 1..l : FrameInv(k)'
  <2>1. Follows(stack[l], stack'[l + 1])
    BY <1>7, <1>9, <1>10 DEF Follows
  <2>2. l \in 1..Len(stack) /\ l \in 1..Len(stack')
    BY <1>2, <1>9
  <2> QED BY <1>1, <1>9, <1>10, <2>1, <2>2, CallsKept DEF FamilyInv, IsCall
<1>14. FrameInv(m)'
  <2>1. g.mp # NULL /\ Live(g.mp)'
    BY <1>1, <1>7, TopCall
  <2>2. ApartFromCallers(m)'
    <3>1. PICK S \in SUBSET Orders :
            /\ Closed(S) /\ Top.mp \notin S
            /\ \A j \in 1..(n - 1) :
                 IsCall(stack[j]) /\ stack[j].mp # NULL => stack[j].mp \in S
      BY <1>2, TopApart DEF Frees
    <3>2. \A j \in 1..(m - 1) : j \in 1..(n - 1) /\ stack'[j] = stack[j]
      BY <1>3, <1>4, <1>9
    <3>3. \A j \in 1..(m - 1) : IsCall(stack'[j]) /\ stack'[j].mp # NULL => stack'[j].mp \in S
      BY <3>1, <3>2
    <3> QED BY <1>1, <1>4, <1>7, <1>9, <3>1, <3>3, ApartLater
  <2> QED BY <1>7, <1>9, <2>1, <2>2 DEF FrameInv
<1>15. \A k \in 1..m : FrameInv(k)'
  BY <1>9, <1>13, <1>14
<1> QED BY <1>9, <1>12, <1>15 DEF FamilyInv, CallsInv

-----------------------------------------------------------------------------
(***************************************************************************)
(* mount().                                                                *)
(***************************************************************************)
\* The parent of a package that is mounted is in the table.
LEMMA ParentLive ==
  ASSUME TableInv, NEW m \in Mnts, ParentOrder(m) # NULL
  PROVE  Live(ParentOrder(m))
<1>1. ParentOf[m] # NoMnt => ParentOf[m] \in Names
  BY ConstantsAssumption DEF Names
<1> QED BY <1>1 DEF TableInv, MountTable, ParentOrder

\* The structure that is made for a package has no children.
LEMMA MntFields ==
  ASSUME NEW m, NEW p, NEW b
  PROVE  /\ Mnt(m, p, b).parent = p /\ Mnt(m, p, b).children = <<>>
         /\ \A id : LET r == [Mnt(m, p, b) EXCEPT !.automapID = id] IN
                    r.parent = p /\ r.children = <<>>
         /\ Freed.parent = NULL /\ Freed.children = <<>>
BY DEF Mnt, Freed

\* A mount that fails at once, or a creator.
LEMMA SpentStep ==
  ASSUME TableInv, TableInv', FamilyInv, UNCHANGED <<stack, fault>>, Top.fn = "script",
         NEW record, Added(record, NULL)
  PROVE  FamilyInv'
<1>1. /\ StackOK(stack) /\ NULL \in Int
      /\ Later /\ \A o : Live(o) => Live(o)'
  BY TypeParts, AddedLater DEF TableInv, NULL
<1>2. PICK n \in Nat : n = Len(stack) /\ n \in 1..n /\ ~(n < n) /\ stack[n] = Top
  BY <1>1, TopType DEF Top
<1>3. Family'
  BY <1>1, AddedFamily DEF SameUnregistering, Unregistering
<1>4. \A k \in 1..n : FrameInv(k)'
  BY <1>1, <1>2, CallsKept DEF FamilyInv, IsCall
<1> QED BY <1>2, <1>3, <1>4 DEF FamilyInv, CallsInv

LEMMA FamilyNewFails ==
  ASSUME TableInv, TableInv', FamilyInv, NEW m \in Mnts, MountNewFails(m)
  PROVE  FamilyInv'
<1> DEFINE r == Mnt(m, ParentOrder(m), FALSE)
           A == Allocated(r, NULL)
<1>1. TablesType /\ mcount \in Nat /\ NULL \in Int /\ FALSE \in BOOLEAN /\ 0 \in Nat
  BY TypeParts DEF TableInv, TablesType, NULL
<1>2. /\ r \in MntType /\ r.children = <<>> /\ r.parent = ParentOrder(m)
      /\ Freed.parent = NULL
  <2>1. m \in Names /\ ParentOrder(m) \in Int
    BY <1>1, MntNames
  <2>2. r \in MntType
    BY <1>1, <2>1, MntTypes
  <2>3. r.children = <<>> /\ r.parent = ParentOrder(m)
    BY DEF Mnt
  <2>4. Freed.parent = NULL
    BY MntFields
  <2> QED BY <2>2, <2>3, <2>4
<1>3. /\ phk' = [A EXCEPT ![mcount] = Freed] /\ mcount' = mcount + 1
      /\ mount_order' = [o \in 0..mcount |-> IF o = mcount THEN NULL ELSE mount_order[o]]
  BY DEF MountNewFails
<1>4. A \in [0..mcount -> MntType]
  BY <1>1, <1>2, AllocatedType
<1>5. \A o \in Orders : o \in 0..mcount /\ o # mcount
  BY <1>1 DEF Orders
<1>6. /\ \A o \in Orders : phk'[o] = A[o] /\ mount_order'[o] = mount_order[o]
      /\ \A o : o = mcount => phk'[o] = Freed /\ mount_order'[o] = NULL
  <2> HIDE DEF A
  <2>1. mcount \in 0..mcount
    BY <1>1
  <2> QED BY <1>3, <1>4, <1>5, <2>1
<1> HIDE DEF r
<1>7. Added(r, NULL)
  BY <1>2, <1>3, <1>6, ParentLive DEF Added
<1> QED BY <1>7, SpentStep DEF MountNewFails, MayCall, UserCode

LEMMA FamilyCreator ==
  ASSUME TableInv, TableInv', FamilyInv, NEW ok \in BOOLEAN, MountCreator(ok)
  PROVE  FamilyInv'
<1> DEFINE m == TmpMnt(tmp_mnt_num)
           r == Mnt(m, NULL, FALSE)
<1>1. /\ TablesType /\ mcount \in Nat /\ NULL \in Int /\ FALSE \in BOOLEAN /\ 0 \in Nat
      /\ tmp_mnt_num \in Nat
  BY TypeParts DEF TableInv, TablesType, NULL
<1>2. m \in Names
  BY <1>1, ConstantsAssumption DEF MountCreator, Names
<1>3. /\ r \in MntType /\ r.children = <<>> /\ r.parent = NULL
      /\ Freed \in MntType /\ Freed.children = <<>> /\ Freed.parent = NULL
  <2>1. r \in MntType /\ Freed \in MntType
    BY <1>1, <1>2, MntTypes
  <2>2. r.children = <<>> /\ r.parent = NULL
    BY DEF Mnt
  <2>3. Freed.children = <<>> /\ Freed.parent = NULL
    BY MntFields
  <2> QED BY <2>1, <2>2, <2>3
<1>4. /\ \A o \in Orders : o \in 0..mcount /\ o # mcount
      /\ mcount \in 0..mcount
  BY <1>1 DEF Orders
<1> HIDE DEF r, m
<1>5. PICK record \in {r, Freed} :
        /\ phk' = Allocated(record, NULL) /\ mcount' = mcount + 1
        /\ \A o \in Orders : mount_order'[o] = mount_order[o]
        /\ \A o : o = mcount => mount_order'[o] \in {o, NULL}
  <2>1. CASE ok
    <3>1. /\ phk' = Allocated(r, NULL) /\ mcount' = mcount + 1
          /\ mount_order' = [o \in 0..mcount |-> IF o = mcount THEN mcount ELSE mount_order[o]]
      BY <2>1 DEF MountCreator, new_mnt, r, m
    <3> QED BY <1>4, <3>1
  <2>2. CASE ~ok
    <3>1. /\ phk' = Allocated(Freed, NULL) /\ mcount' = mcount + 1
          /\ mount_order' = [o \in 0..mcount |-> IF o = mcount THEN NULL ELSE mount_order[o]]
      BY <2>2 DEF MountCreator
    <3> QED BY <1>4, <3>1
  <2> QED BY <2>1, <2>2
<1>6. \A o : o = mcount => phk'[o] = record
  BY <1>1, <1>3, <1>5, AllocatedType
<1>7. Added(record, NULL)
  BY <1>3, <1>5, <1>6 DEF Added
<1> QED BY <1>7, SpentStep DEF MountCreator, MayCall, UserCode

LEMMA FamilyNew ==
  ASSUME Misuse = {}, TableInv, TableInv', FamilyInv, NEW m \in Mnts, NEW b \in Flags,
         MountNew(m, b)
  PROVE  FamilyInv'
<1> DEFINE p == ParentOrder(m)
           r == Mnt(m, p, b)
           rm == [r EXCEPT !.automapID = map_count]
<1>1. /\ TablesType /\ StackOK(stack) /\ StackOK(stack') /\ mcount \in Nat /\ map_count \in Nat
      /\ m \in Names /\ p \in Int /\ b \in BOOLEAN /\ 0 \in Nat /\ mcount \in Int /\ mcount # NULL
      /\ Top.fn = "script" /\ exc' = FALSE /\ fault' = fault
  BY SMTT(30), TypeParts, TypePartsPrimed, MntNames, ConstantsAssumption
  DEF TableInv, TablesType, MapsType, NULL, MountNew, MayCall, UserCode
<1>2. /\ r \in MntType /\ r.children = <<>> /\ r.parent = p
      /\ rm \in MntType /\ rm.children = <<>> /\ rm.parent = p
  BY <1>1, MntTypes, MntFields
<1>3. /\ mcount' = mcount + 1
      /\ mount_order' = [o \in 0..mcount |-> IF o = mcount THEN mcount ELSE mount_order[o]]
  BY DEF MountNew, new_mnt
<1>4. PICK record \in {r, rm} : phk' = Allocated(record, mcount)
  BY DEF MountNew
<1>5. p # NULL => Live(p)
  BY ParentLive
<1>6. ~Unregistering(p)
  <2>1. p # NULL => PoliteMount(p)
    BY DEF MountNew, ParentOrder
  <2>2. p # NULL => ~Unregistering(p)
    BY <2>1 DEF PoliteMount, Unregistering
  <2>3. ~Unregistering(NULL)
    BY CallsKnow DEF Unregistering, IsCall
  <2> QED BY <2>2, <2>3
<1> HIDE DEF r, rm, p
<1>7. /\ \A o \in Orders : mount_order'[o] = mount_order[o]
      /\ \A o : o = mcount => mount_order'[o] = o /\ phk'[o] = record
  <2>1. /\ \A o \in Orders : o \in 0..mcount /\ o # mcount
        /\ mcount \in 0..mcount
    BY <1>1 DEF Orders
  <2>2. \A o : o = mcount => phk'[o] = record
    BY <1>1, <1>2, <1>4, AllocatedType
  <2> QED BY <1>3, <2>1, <2>2
<1>8. Added(record, mcount)
  BY <1>2, <1>3, <1>4, <1>5, <1>6, <1>7 DEF Added
<1>9. PICK g : g = Frame("mount", mcount, "script", 0)
  OBVIOUS
<1>10. g.fn = "mount" /\ g.mp = mcount /\ Live(g.mp)'
  BY <1>1, <1>3, <1>7, <1>9 DEF Frame, Live, Orders
<1>11. Prolog.fn = "prolog" /\ Prolog.mp = NULL /\ Prolog \in FrameType
  BY <1>1, FrameTypes DEF Prolog, Frame, PCs
<1>12. PICK n \in Nat : n = Len(stack) /\ n \in 1..n /\ stack[n] = Top
  BY <1>1, TopType DEF Top
<1>13. PICK nn \in Nat :
         /\ nn = Len(stack') /\ n < nn /\ n \in 1..nn /\ nn \in 1..nn /\ stack'[nn] = g
         /\ \A j \in 1..n : stack'[j] = stack[j] /\ j <= nn
         /\ \/ nn = n + 1
            \/ nn = n + 2 /\ stack'[n + 1] = Prolog /\ n + 1 < nn /\ (n + 1) + 1 = nn
         /\ \A j \in 1..nn : j \in 1..n \/ j = n + 1 \/ j = nn
  <2>1. PICK base \in Callers : stack' = Append(base, g)
    BY <1>9 DEF MountNew
  <2>2. StackOK(base)
    BY <1>1, <2>1, CallersOK
  <2>3. CASE base = stack
    <3>1. Len(stack') = n + 1 /\ stack'[n + 1] = g /\ \A j \in 1..n : stack'[j] = stack[j]
      BY <1>1, <1>12, <2>1, <2>3, PushShape
    <3>2. /\ \A j \in 1..n : j <= n + 1
          /\ \A j \in 1..(n + 1) : j \in 1..n \/ j = n + 1
          /\ n < n + 1 /\ n \in 1..(n + 1) /\ n + 1 \in 1..(n + 1) /\ n + 1 \in Nat
      BY <1>12
    <3> QED BY <3>1, <3>2
  <2>4. CASE base = Append(stack, Prolog)
    <3>1. Len(base) = n + 1 /\ base[n + 1] = Prolog /\ \A j \in 1..n : base[j] = stack[j]
      BY <1>1, <1>12, <2>4, PushShape
    <3>2. /\ Len(stack') = (n + 1) + 1 /\ stack'[(n + 1) + 1] = g
          /\ \A j \in 1..(n + 1) : stack'[j] = base[j]
      BY <2>1, <2>2, <3>1, PushShape
    <3>3. /\ \A j \in 1..n : j <= n + 2 /\ j \in 1..(n + 1)
          /\ \A j \in 1..(n + 2) : j \in 1..n \/ j = n + 1 \/ j = n + 2
          /\ n < n + 2 /\ n \in 1..(n + 2) /\ n + 2 \in 1..(n + 2) /\ n + 2 \in Nat
          /\ (n + 1) + 1 = n + 2 /\ n + 1 < n + 2 /\ n + 1 \in 1..(n + 1)
      BY <1>12
    <3> QED BY <3>1, <3>2, <3>3
  <2> QED BY <2>1, <2>3, <2>4 DEF Callers
<1>14. SameUnregistering
  <2>1. ~Leaves(g) /\ ~Leaves(Prolog)
    BY <1>10, <1>11 DEF Leaves
  <2>2. \A j \in 1..nn : Leaves(stack'[j]) => j \in 1..n
    BY <1>13, <2>1
  <2>3. \A j \in 1..n : j <= n
    OBVIOUS
  <2> QED BY SMTT(30), <1>12, <1>13, <2>2, <2>3, UnregisteringKept
<1>15. Later /\ \A o : Live(o) => Live(o)'
  BY <1>1, <1>8, AddedLater
<1>16. Family'
  BY <1>1, <1>8, <1>14, AddedFamily
<1>17. \A k \in 1..n : FrameInv(k)'
  <2>1. Follows(stack[n], stack'[n + 1])
    BY <1>1, <1>10, <1>11, <1>12, <1>13 DEF Follows
  <2> QED BY <1>1, <1>12, <1>13, <1>15, <2>1, CallsKept DEF FamilyInv, IsCall
<1>18. nn = n + 2 => FrameInv(n + 1)'
  <2> SUFFICES ASSUME nn = n + 2
               PROVE  FrameInv(n + 1)'
    OBVIOUS
  <2>1. PICK j : j = n + 1 /\ stack'[j] = Prolog /\ j < nn /\ stack'[j + 1] = g
    BY <1>13
  <2>2. Follows(Prolog, g)
    BY <1>10, <1>11 DEF Follows
  <2> QED BY <1>11, <1>13, <2>1, <2>2 DEF FrameInv, Frees
<1>19. FrameInv(nn)'
  <2>1. ApartFromCallers(nn)'
    <3>1. Closed(Orders) /\ g.mp \notin Orders
      BY <1>1, <1>10 DEF FamilyInv, Family, Ancestry, Closed, Orders, NULL
    <3>2. \A j \in 1..(nn - 1) : IsCall(stack'[j]) /\ stack'[j].mp # NULL => stack'[j].mp \in Orders
      <4>1. \A j \in 1..(nn - 1) : j \in 1..n \/ (stack'[j] = Prolog)
        BY <1>13
      <4>2. \A j \in 1..n : IsCall(stack[j]) /\ stack[j].mp # NULL => stack[j].mp \in Orders
        BY <1>12, CallsKnow
      <4> QED BY <1>11, <1>13, <4>1, <4>2
    <3> QED BY <1>13, <1>15, <3>1, <3>2, ApartLater
  <2>2. g.mp # NULL
    BY <1>1, <1>10
  <2> QED BY <1>1, <1>10, <1>13, <2>1, <2>2 DEF FrameInv
<1>20. \A k \in 1..nn : FrameInv(k)'
  BY <1>13, <1>17, <1>18, <1>19
<1> QED BY <1>1, <1>13, <1>16, <1>20 DEF FamilyInv, CallsInv

-----------------------------------------------------------------------------
(***************************************************************************)
(* umount() goes through the children, ...                                 *)
(***************************************************************************)
\* The slots that an unmount has gone through when it resumes.
LEMMA UmountTop ==
  ASSUME TableInv, FamilyInv, Top.fn = "umount"
  PROVE  /\ Top.pc = "children" =>
              /\ Top.i <= Len(Children(Top.mp)) /\ Top.i \in Nat
              /\ \A i \in 1..Top.i : Children(Top.mp)[i] = NULL
         /\ Top.pc # "children" => Childless(Top.mp)
<1>1. PICK n \in Nat : n = Len(stack) /\ ~(n < n) /\ stack[n] = Top /\ FrameInv(n)
  BY TopCall DEF Top
<1>2. UmountInv(n) /\ Top.i \in Nat
  BY <1>1, TopCall DEF FrameInv, FrameType
<1> QED BY <1>1, <1>2 DEF UmountInv, Leaving

LEMMA FamilyChild ==
  ASSUME TableInv, TableInv', FamilyInv, UmountChild
  PROVE  FamilyInv'
<1>1. /\ StackOK(stack) /\ TablesType /\ TablesType' /\ Later /\ SameStructures
      /\ Top.fn = "umount" /\ Top.pc = "children" /\ UNCHANGED <<tables, fault>>
      /\ \A o : Live(o)' <=> Live(o)
  BY TypeParts, TypePartsPrimed, TablesStay, StructuresLater DEF TableInv, UmountChild, At
<1>2. PICK n \in Nat : n = Len(stack) /\ n > 1 /\ n \in 1..n /\ stack[n] = Top
  BY <1>1, TopCall DEF Top
<1>3. PICK x, f, child, t :
        /\ x = Top.mp /\ f = [Top EXCEPT !.i = @ + 1] /\ child = phk[x].children[Top.i + 1]
        /\ t = [stack EXCEPT ![Len(stack)].i = @ + 1]
  OBVIOUS
<1>4. /\ x \in Orders /\ x # NULL /\ Live(x) /\ Top \in FrameType /\ FrameInv(n)
      /\ stack[n] # MainScript
  BY <1>1, <1>2, <1>3, TopCall DEF Top
<1>5. /\ f \in FrameType /\ f.fn = "umount" /\ f.mp = x /\ f.pc = "children" /\ f.i = Top.i + 1
      /\ Top.i \in Nat
  BY <1>1, <1>3, <1>4 DEF FrameType
<1>6. /\ Top.i + 1 \in 1..Len(phk[x].children) /\ Top.i + 1 <= Len(phk[x].children)
      /\ DOMAIN (phk[x].children) = 1..Len(phk[x].children)
      /\ \A i \in 1..(Top.i + 1) : i = Top.i + 1 \/ phk[x].children[i] = NULL
  <2>1. Top.i < Len(phk[x].children)
    BY <1>3 DEF UmountChild
  <2>2. /\ Len(phk[x].children) \in Nat
        /\ DOMAIN (phk[x].children) = 1..Len(phk[x].children)
    BY <1>1, <1>4, ChildrenType DEF Children
  <2>3. \A i \in 1..Top.i : phk[x].children[i] = NULL
    BY <1>1, <1>3, UmountTop DEF Children
  <2>4. \A i \in 1..(Top.i + 1) : i = Top.i + 1 \/ i \in 1..Top.i
    BY <1>5
  <2> QED BY <1>5, <2>1, <2>2, <2>3, <2>4
<1>7. /\ t = [stack EXCEPT ![Len(stack)] = f] /\ StackOK(t)
      /\ Len(t) = n /\ t[n] = f /\ \A j \in 1..(n - 1) : t[j] = stack[j]
  <2>1. t = [stack EXCEPT ![Len(stack)] = f]
    BY <1>1, <1>3 DEF StackOK, Top
  <2>2. StackOK([stack EXCEPT ![Len(stack)] = f])
    BY <1>1, <1>2, <1>4, <1>5, UpdateOK
  <2>3. /\ Len([stack EXCEPT ![Len(stack)] = f]) = Len(stack)
        /\ \A k \in 1..(Len(stack) - 1) : [stack EXCEPT ![Len(stack)] = f][k] = stack[k]
        /\ [stack EXCEPT ![Len(stack)] = f][Len(stack)] = f
    BY <1>1, UpdateShape
  <2> QED BY <1>2, <2>1, <2>2, <2>3
<1>8. PICK c : c = UmountFrame(child)
  OBVIOUS
<1>9. c.fn = "umount" /\ c.pc = "children" /\ c.i = 0 /\ c.mp = child
  BY <1>8 DEF UmountFrame, Frame
<1>10. PICK nn \in Nat :
        /\ nn = Len(stack') /\ n <= nn /\ n \in 1..nn /\ nn <= n + 1 /\ nn \in 1..nn
        /\ \A j \in 1..(n - 1) : stack'[j] = stack[j] /\ j <= nn
        /\ stack'[n] = f
        /\ \/ nn = n /\ child = NULL
           \/ nn = n + 1 /\ child # NULL /\ stack'[nn] = c /\ n < nn
        /\ \A k \in 1..nn : k \in 1..(n - 1) \/ k = n \/ (k = nn /\ nn = n + 1)
  <2>1. stack' = IF child = NULL THEN t ELSE Append(t, c)
    BY <1>3, <1>8 DEF UmountChild
  <2>2. /\ \A j \in 1..(n - 1) : j <= n /\ j <= n + 1 /\ j \in 1..n
        /\ \A k \in 1..n : k \in 1..(n - 1) \/ k = n
        /\ \A k \in 1..(n + 1) : k \in 1..(n - 1) \/ k = n \/ k = n + 1
        /\ n \in 1..(n + 1) /\ n + 1 \in 1..(n + 1) /\ n + 1 \in Nat
    BY <1>2
  <2>3. CASE child = NULL
    BY <1>2, <1>7, <2>1, <2>2, <2>3
  <2>4. CASE child # NULL
    <3>1. Len(stack') = n + 1 /\ stack'[n + 1] = c /\ \A j \in 1..n : stack'[j] = t[j]
      BY <1>7, <2>1, <2>4, PushShape
    <3> QED BY <1>2, <1>7, <2>2, <2>4, <3>1
  <2> QED BY <2>3, <2>4
<1>11. SameUnregistering
  <2>1. ~Leaves(stack[n]) /\ ~Leaves(f) /\ ~Leaves(c)
    BY <1>1, <1>2, <1>5, <1>9 DEF Leaves
  <2>2. /\ \A j \in 1..n : j \in 1..(n - 1) \/ j = n
        /\ \A j \in 1..(n - 1) : j <= n
    OBVIOUS
  <2>3. \A j \in 1..n : Leaves(stack[j]) => j <= nn /\ stack'[j] = stack[j]
    BY <1>10, <2>1, <2>2
  <2>4. \A j \in 1..nn : Leaves(stack'[j]) => j <= n /\ stack'[j] = stack[j]
    BY <1>10, <2>1, <2>2
  <2> QED BY <1>2, <1>10, <2>3, <2>4, UnregisteringKept
<1>12. Family'
  BY <1>1, <1>11, SameFamily DEF FamilyInv
<1>13. \A k \in 1..(n - 1) : FrameInv(k)'
  <2>1. /\ n <= Len(stack') /\ Top.fn # "script" /\ stack'[n].fn = Top.fn
        /\ stack'[n].pc = "children" /\ stack'[n].mp = Top.mp
    BY <1>1, <1>3, <1>5, <1>10
  <2> QED BY <1>1, <1>2, <1>10, <2>1, BelowKept
<1>14. ApartFromCallers(n)'
  <2>1. ApartFromCallers(n)
    BY <1>1, <1>2, <1>4 DEF FrameInv, Frees
  <2>2. stack'[n].mp = stack[n].mp
    BY <1>2, <1>3, <1>5, <1>10
  <2> QED BY <1>1, <1>10, <2>1, <2>2, ApartKept
<1>15. FrameInv(n)'
  <2>1. phk' = phk
    BY <1>1 DEF tables
  <2>2. f.i = Top.i + 1 /\ f.i <= Len(phk[x].children)
    BY <1>5, <1>6
  <2>3. ASSUME NEW i \in 1..f.i
        PROVE  phk[x].children[i] = NULL \/ Leaving(n, i)'
    <3>1. CASE i # f.i
      BY <1>6, <2>2, <2>3, <3>1
    <3>2. CASE i = f.i /\ child = NULL
      BY <1>3, <2>2, <3>2
    <3>3. CASE i = f.i /\ child # NULL
      <4>1. /\ n < Len(stack') /\ stack'[n + 1] = c /\ stack'[n] = f
            /\ phk'[x].children[i] = child
        BY <1>3, <1>10, <2>1, <2>2, <3>3
      <4> QED BY <1>5, <1>9, <3>3, <4>1 DEF Leaving, Children
    <3> QED BY <3>1, <3>2, <3>3
  <2>4. UmountInv(n)'
    BY <1>5, <1>10, <2>1, <2>2, <2>3 DEF UmountInv, Children
  <2>5. n < nn => Follows(f, stack'[n + 1])
    <3>1. n < nn => stack'[n + 1] = c
      BY <1>10
    <3> QED BY <1>5, <1>9, <3>1 DEF Follows
  <2> QED BY <1>1, <1>4, <1>5, <1>10, <1>14, <2>4, <2>5 DEF FrameInv
<1>16. ASSUME nn = n + 1, child # NULL
       PROVE  FrameInv(nn)'
  <2>1. /\ Live(child) /\ phk[child].parent = x /\ child \in Orders
    <3>1. Live(child) /\ phk[child].parent = x
      BY <1>3, <1>4, <1>6, <1>16 DEF FamilyInv, Family, ChildrenInv, Children
    <3> QED BY <3>1 DEF Live
  <2>2. UmountInv(nn)'
    <3>1. 0 <= Len(phk'[child].children)
      <4>1. child \in Orders'
        BY <1>1, <2>1 DEF Live
      <4> QED BY <1>1, <4>1, ChildrenTypePrimed
    <3>2. \A i : i \notin 1..0
      OBVIOUS
    <3>3. stack'[nn] = c
      BY <1>10, <1>16
    <3> QED BY <1>9, <3>1, <3>2, <3>3 DEF UmountInv, Children
  <2>3. ApartFromCallers(nn)'
    <3>1. PICK S \in SUBSET Orders :
            /\ Closed(S) /\ x \notin S
            /\ \A j \in 1..(n - 1) :
                 IsCall(stack[j]) /\ stack[j].mp # NULL => stack[j].mp \in S
      BY <1>1, <1>2, <1>3, TopApart DEF Frees
    <3>2. \A o \in Orders : phk[o].parent \in NULL..(o - 1)
      BY DEF FamilyInv, Family, Ancestry
    <3>3. PICK R \in SUBSET Orders : R = S \cup 0..x
      <4>1. 0..x \subseteq Orders
        BY <1>1, <1>4 DEF Orders, TablesType
      <4> QED BY <4>1
    <3>4. Closed(R)
      <4>1. \A o \in 0..x : phk[o].parent # NULL => phk[o].parent \in 0..x
        BY <1>1, <1>4, <3>2 DEF Orders, TablesType, NULL
      <4> QED BY <3>1, <3>3, <4>1 DEF Closed
    <3>5. child \notin R
      <4>1. child \notin S
        BY <1>4, <2>1, <3>1 DEF Closed
      <4>2. child \notin 0..x
        BY <1>1, <1>4, <2>1, <3>2 DEF Orders, TablesType, NULL
      <4> QED BY <3>3, <4>1, <4>2
    <3>6. x \in R
      BY <1>1, <1>4, <3>3 DEF Orders, TablesType
    <3>7. ASSUME NEW j \in 1..(nn - 1), IsCall(stack'[j]), stack'[j].mp # NULL
          PROVE  stack'[j].mp \in R
      <4>1. j \in 1..(n - 1) \/ j = n
        BY <1>16
      <4>2. CASE j = n
        BY <1>5, <1>10, <3>6, <4>2
      <4>3. CASE j \in 1..(n - 1)
        BY <1>10, <3>1, <3>3, <3>7, <4>3
      <4> QED BY <4>1, <4>2, <4>3
    <3>8. stack'[nn].mp = child
      BY <1>9, <1>10, <1>16
    <3> QED BY <1>1, <3>4, <3>5, <3>7, <3>8, ApartLater
  <2>4. stack'[nn] = c /\ ~(nn < nn) /\ child # NULL /\ Live(child)'
    BY <1>1, <1>10, <1>16, <2>1
  <2> QED BY <1>9, <1>10, <2>2, <2>3, <2>4 DEF FrameInv
<1>17. \A k \in 1..nn : FrameInv(k)'
  BY <1>10, <1>13, <1>15, <1>16
<1> QED BY <1>1, <1>10, <1>12, <1>17 DEF FamilyInv, CallsInv

-----------------------------------------------------------------------------
(***************************************************************************)
(* ... leaves its parent ...                                               *)
(***************************************************************************)
LEMMA FamilyUnregister ==
  ASSUME TableInv, TableInv', FamilyInv, UmountUnregister
  PROVE  FamilyInv'
<1>1. /\ StackOK(stack) /\ TablesType /\ TablesType' /\ UNCHANGED <<mcount, mount_order, exc, fault>>
      /\ Top.fn = "umount" /\ Top.pc = "children" /\ Top.i = Len(phk[Top.mp].children)
      /\ phk' = [Unregistered(Top.mp) EXCEPT ![Top.mp].plugin = FALSE]
      /\ stack' = Resume("script") \/ stack' = Call("script", Script(Top.mp, "destruct"))
  BY TypeParts, TypePartsPrimed DEF TableInv, UmountUnregister, At
<1>2. PICK n \in Nat : n = Len(stack) /\ n > 1 /\ n \in 1..n /\ stack[n] = Top
  BY <1>1, TopCall DEF Top
<1>3. PICK x \in Orders : x = Top.mp /\ x # NULL /\ Live(x)
  BY <1>1, TopCall
<1>4. FrameInv(n) /\ stack[n] # MainScript /\ Orders' = Orders /\ \A o : Live(o)' <=> Live(o)
  BY <1>1, <1>2, TopCall DEF Orders, Live
<1>5. PICK r, s : r = Resume("script") /\ s = Script(Top.mp, "destruct")
  OBVIOUS
<1>6. /\ StackOK(r) /\ Len(r) = n /\ \A j \in 1..(n - 1) : r[j] = stack[j]
      /\ r[n].fn = "umount" /\ r[n].mp = x /\ r[n].pc = "script"
  BY <1>1, <1>2, <1>3, <1>4, <1>5, ResumeOK, ResumeShape DEF PCs
<1>7. s.fn = "script"
  BY <1>5 DEF Script, Frame
<1>8. PICK nn \in Nat :
        /\ nn = Len(stack') /\ n <= nn /\ n \in 1..nn
        /\ (\A k \in 1..nn : k \in 1..(n - 1) \/ k = n \/ (k = n + 1 /\ nn = n + 1))
        /\ (\A j \in 1..(n - 1) : stack'[j] = stack[j])
        /\ stack'[n] = r[n]
        /\ n < nn => nn = n + 1 /\ stack'[nn] = s /\ stack'[n + 1] = s
  <2>1. /\ \A k \in 1..n : k \in 1..(n - 1) \/ k = n
        /\ \A k \in 1..(n + 1) : k \in 1..(n - 1) \/ k = n \/ k = n + 1
        /\ \A k \in 1..(n - 1) : k \in 1..n
        /\ n \in 1..(n + 1)
    BY <1>2
  <2>2. CASE stack' = r
    BY <1>2, <1>6, <2>1, <2>2
  <2>3. CASE stack' = Append(r, s)
    <3>1. Len(stack') = n + 1 /\ stack'[n + 1] = s /\ \A j \in 1..n : stack'[j] = r[j]
      BY <1>6, <2>3, PushShape
    <3> QED BY SMTT(30), <1>2, <1>6, <2>1, <3>1
  <2> QED BY <1>1, <1>5, <2>2, <2>3 DEF Call
<1>9. PICK f : f = stack'[n] /\ f.fn = "umount" /\ f.mp = x /\ f.pc = "script"
  BY <1>6, <1>8
<1>10. Unregistering(x)' /\ \A o : o # x => (Unregistering(o)' <=> Unregistering(o))
  <2>1. Unregistering(x)'
    BY <1>8, <1>9 DEF Unregistering
  <2>2. /\ \A j \in 1..n : j \in 1..(n - 1) \/ j = n
        /\ \A j \in 1..(n - 1) : j \in 1..n /\ j \in 1..nn
    BY <1>8
  <2>3. ASSUME NEW o, o # x, Unregistering(o)
        PROVE  Unregistering(o)'
    <3>1. PICK j \in 1..n : stack[j].fn = "umount" /\ stack[j].mp = o /\ stack[j].pc # "children"
      BY <1>2, <2>3 DEF Unregistering
    <3>2. j \in 1..(n - 1)
      BY <1>2, <1>3, <2>2, <2>3, <3>1
    <3> QED BY <1>8, <2>2, <3>1, <3>2 DEF Unregistering
  <2>4. ASSUME NEW o, o # x, Unregistering(o)'
        PROVE  Unregistering(o)
    <3>1. PICK j \in 1..nn : stack'[j].fn = "umount" /\ stack'[j].mp = o /\ stack'[j].pc # "children"
      BY <1>8, <2>4 DEF Unregistering
    <3>2. j \in 1..(n - 1)
      BY <1>7, <1>8, <1>9, <2>4, <3>1
    <3> QED BY <1>2, <1>8, <2>2, <3>1, <3>2 DEF Unregistering
  <2> QED BY <2>1, <2>3, <2>4
<1>11. Departs(x)
  <2> DEFINE U == Unregistered(x)
  <2>1. U \in [Orders -> MntType] /\ \A q \in Orders : SameFields(U[q], phk[q])
    BY <1>1, UnregisteredType, UnregisteredFields
  <2>2. \A q \in Orders : Live(q) =>
          /\ DOMAIN (U[q].children) = DOMAIN (phk[q].children)
          /\ \A i \in DOMAIN (phk[q].children) : U[q].children[i] =
               IF phk[q].children[i] = x THEN NULL ELSE phk[q].children[i]
    BY UnregisteredSlots DEF FamilyInv
  <2>3. phk' = [U EXCEPT ![x].plugin = FALSE]
    BY <1>1, <1>3
  <2> HIDE DEF U
  <2>4. \A q \in Orders : /\ phk'[q].mnt = U[q].mnt /\ phk'[q].parent = U[q].parent
                          /\ phk'[q].children = U[q].children
    BY <2>1, <2>3, PluginFields
  <2>5. \A q \in Orders : phk'[q].mnt = phk[q].mnt /\ phk'[q].parent = phk[q].parent
    BY <2>1, <2>4 DEF SameFields
  <2> QED BY <1>1, <1>3, <1>4, <1>10, <2>2, <2>4, <2>5 DEF Departs
<1>12. Later /\ Family'
  BY <1>11, DepartsLater, DepartsFamily DEF FamilyInv
<1>13. \A k \in 1..(n - 1) : FrameInv(k)'
  <2>1. PICK m \in Nat : m = n - 1 /\ m \in 1..n /\ m + 1 = n
    BY <1>2
  <2>2. ASSUME stack[m].fn = "umount", stack[m].i > 0, Leaving(m, stack[m].i)
        PROVE  phk'[stack[m].mp].children[stack[m].i] = NULL
    <3>1. PICK g : g = stack[m]
      OBVIOUS
    <3>2. phk[g.mp].children[g.i] = x
      BY <1>2, <1>3, <2>1, <2>2, <3>1 DEF Leaving, Children
    <3>3. Live(g.mp) /\ g.mp \in Orders
      <4>1. IsCall(g) /\ g.fn # "prolog"
        BY <2>2, <3>1 DEF IsCall
      <4> QED BY <1>2, <2>1, <3>1, <4>1, CallsKnow
    <3>4. g.i \in DOMAIN (phk[g.mp].children)
      <4>1. FrameInv(m) /\ Follows(g, Top)
        BY <1>2, <2>1, <3>1, BelowTop
      <4>2. UmountInv(m) /\ g.pc = "children"
        BY <1>1, <2>2, <3>1, <4>1 DEF FrameInv, Follows
      <4>3. g.i <= Len(phk[g.mp].children)
        BY <3>1, <4>2 DEF UmountInv, Children
      <4>4. g.i \in Nat /\ m \in 1..Len(stack)
        BY <1>1, <1>2, <2>1, <3>1, FrameFields
      <4>5. g.i > 0
        BY <2>2, <3>1
      <4> QED BY <1>1, <3>3, <4>3, <4>4, <4>5, ChildrenType DEF Children
    <3>5. phk'[g.mp].children[g.i] = NULL
      BY <1>4, <1>11, <3>2, <3>3, <3>4 DEF Departs
    <3> QED BY <3>1, <3>5
  <2>3. Top.fn # "script" /\ stack'[n].fn = Top.fn /\ n <= Len(stack')
    BY <1>1, <1>8, <1>9
  <2>4. \A j \in 1..(n - 1) : IsCall(stack[j]) /\ Live(stack[j].mp) => Live(stack[j].mp)'
    BY <1>4, <1>8
  <2> QED BY <1>2, <1>8, <1>12, <2>1, <2>2, <2>3, <2>4, BelowKept
<1>14. FrameInv(n)'
  <2>1. n < nn => Follows(f, stack'[n + 1])
    BY <1>7, <1>8, <1>9 DEF Follows
  <2>2. Childless(x)'
    <3>1. DOMAIN (phk[x].children) = 1..Len(phk[x].children)
      BY <1>1, ChildrenType DEF Children
    <3>2. \A i \in DOMAIN (phk[x].children) : phk[x].children[i] = NULL
      BY <1>1, <1>3, <3>1, UmountTop DEF Children
    <3> QED BY <1>3, <1>4, <1>11, <3>2 DEF Departs, Childless, Children
  <2>3. ApartFromCallers(n)'
    <3>1. ApartFromCallers(n)
      BY <1>1, <1>2, <1>4 DEF FrameInv, Frees
    <3>2. stack'[n].mp = stack[n].mp
      BY <1>2, <1>3, <1>9
    <3> QED BY <1>8, <1>12, <3>1, <3>2, ApartKept
  <2>4. UmountInv(n)'
    BY <1>9, <2>2 DEF UmountInv
  <2> QED BY <1>3, <1>4, <1>8, <1>9, <2>1, <2>3, <2>4 DEF FrameInv
<1>15. nn = n + 1 => FrameInv(nn)'
  BY <1>7, <1>8 DEF FrameInv, IsCall, Frees
<1>16. \A k \in 1..nn : FrameInv(k)'
  BY <1>8, <1>13, <1>14, <1>15
<1> QED BY <1>1, <1>8, <1>12, <1>16 DEF FamilyInv, CallsInv
-----------------------------------------------------------------------------
(***************************************************************************)
(* ... and is freed.                                                       *)
(***************************************************************************)
\* No package of the table is left inside one that has no children.
LEMMA NoChildLeft ==
  ASSUME TableInv, FamilyInv, Top.fn \in {"mount", "umount"}, Childless(Top.mp),
         NEW q \in Orders, Live(q), q # Top.mp
  PROVE  phk[q].parent # Top.mp
<1> SUFFICES ASSUME phk[q].parent = Top.mp
             PROVE  FALSE
  OBVIOUS
<1>1. Top.mp # NULL /\ q # NULL
  BY TopCall, TypeParts DEF TableInv, TablesType, Orders, NULL
<1>2. PICK n \in Nat : n = Len(stack) /\ stack[n] = Top
  BY TopCall DEF Top
<1>3. CASE ~Unregistering(q)
  <2>1. OnlyIn(q, Children(Top.mp))
    BY <1>1, <1>3 DEF FamilyInv, Family, ParentInv
  <2> QED BY <1>1, <2>1 DEF OnlyIn, Childless
<1>4. CASE Unregistering(q)
  <2>1. PICK k \in 1..n : stack[k].fn = "umount" /\ stack[k].mp = q
    BY <1>2, <1>4 DEF Unregistering
  <2>2. k \in 1..(n - 1)
    BY <1>2, <2>1
  <2>3. PICK S \in SUBSET Orders :
          /\ Closed(S) /\ Top.mp \notin S
          /\ \A j \in 1..(n - 1) :
               IsCall(stack[j]) /\ stack[j].mp # NULL => stack[j].mp \in S
    BY <1>2, TopApart DEF Frees
  <2>4. q \in S
    BY <1>1, <2>1, <2>2, <2>3 DEF IsCall
  <2> QED BY <1>1, <2>3, <2>4 DEF Closed
<1> QED BY <1>3, <1>4

\* The calls below one that frees a package are not for that package.
LEMMA OthersKept ==
  ASSUME TableInv, FamilyInv, Top.fn \in {"mount", "umount"}, NEW n \in Nat, n = Len(stack),
         NEW j \in 1..(n - 1), IsCall(stack[j])
  PROVE  stack[j].mp # Top.mp
<1>1. PICK S \in SUBSET Orders :
        /\ Closed(S) /\ Top.mp \notin S
        /\ \A k \in 1..(n - 1) :
             IsCall(stack[k]) /\ stack[k].mp # NULL => stack[k].mp \in S
  BY TopApart DEF Frees
<1>2. Top.mp # NULL
  BY TopCall
<1> QED BY <1>1, <1>2

\* A call frees its package, U being the structures without it as a child, and returns
\* to the m-th frame.
LEMMA FreedStep ==
  ASSUME TableInv, TableInv', FamilyInv, UNCHANGED fault, Top.fn \in {"mount", "umount"},
         NEW n \in Nat, n = Len(stack), NEW m \in Nat, m = Len(stack'), m \in 1..(n - 1),
         \A j \in 1..m : stack'[j] = stack[j],
         \A j \in 1..n : Leaves(stack[j]) => j \in 1..m \/ stack[j].mp = Top.mp,
         \/ stack[m].fn = "script"
         \/ Top.fn = "umount" /\ Top.pc = "finish" /\ m + 1 = n,
         remove_mnt(Top.mp), Childless(Top.mp),
         NEW U \in [Orders -> MntType], phk' = [U EXCEPT ![Top.mp] = Freed],
         \A q \in Orders : U[q].mnt = phk[q].mnt /\ U[q].parent = phk[q].parent,
         \A q \in Orders : Live(q) =>
           /\ DOMAIN (U[q].children) = DOMAIN (phk[q].children)
           /\ \A i \in DOMAIN (phk[q].children) : U[q].children[i] =
                IF phk[q].children[i] = Top.mp THEN NULL ELSE phk[q].children[i]
  PROVE  FamilyInv'
<1>1. PICK x \in Orders : x = Top.mp /\ x # NULL /\ Live(x)
  BY TopCall
<1>2. /\ TablesType /\ mcount' = mcount /\ Orders' = Orders
      /\ mount_order' = [mount_order EXCEPT ![x] = NULL]
      /\ phk' = [U EXCEPT ![x] = Freed]
  BY <1>1, TypeParts DEF TableInv, remove_mnt, Orders
<1>3. /\ \A q \in Orders \ {x} : mount_order'[q] = mount_order[q] /\ phk'[q] = U[q]
      /\ mount_order'[x] = NULL /\ phk'[x] = Freed
  BY <1>2 DEF TablesType
<1>4. ~Live(x)' /\ \A q : q # x => (Live(q)' <=> Live(q))
  BY <1>1, <1>2, <1>3 DEF Live
<1>5. /\ \A j \in 1..m : j \in 1..n /\ j \in 1..(n - 1)
      /\ m \in 1..n /\ m \in 1..m /\ ~(m < m) /\ m < n
  OBVIOUS
<1>6. \A o : o # x => (Unregistering(o)' <=> Unregistering(o))
  <2>1. ASSUME NEW o, o # x, Unregistering(o)
        PROVE  Unregistering(o)'
    <3>1. PICK j \in 1..n : Leaves(stack[j]) /\ stack[j].mp = o
      BY <2>1 DEF Unregistering, Leaves
    <3>2. j \in 1..m
      BY <1>1, <2>1, <3>1
    <3> QED BY <3>1, <3>2 DEF Unregistering, Leaves
  <2>2. ASSUME NEW o, Unregistering(o)'
        PROVE  Unregistering(o)
    <3>1. PICK j \in 1..m : Leaves(stack'[j]) /\ stack'[j].mp = o
      BY <2>2 DEF Unregistering, Leaves
    <3> QED BY <1>5, <3>1 DEF Unregistering, Leaves
  <2> QED BY <2>1, <2>2
<1>7. Departs(x)
  <2>1. phk'[x].parent = NULL
    BY <1>3, MntFields
  <2>2. \A q \in Orders : Live(q) /\ q # x => phk[q].parent # x
    BY <1>1, NoChildLeft
  <2>3. \A q \in Orders : Live(q) /\ Live(q)' =>
          /\ phk'[q].mnt = phk[q].mnt
          /\ DOMAIN (phk'[q].children) = DOMAIN (phk[q].children)
          /\ \A i \in DOMAIN (phk[q].children) :
               phk'[q].children[i] = IF phk[q].children[i] = x THEN NULL ELSE phk[q].children[i]
    BY <1>1, <1>3, <1>4
  <2>4. \A q \in Orders \ {x} : /\ mount_order'[q] = mount_order[q]
                                /\ phk'[q].parent = phk[q].parent
    BY <1>3
  <2> QED BY <1>2, <1>4, <1>6, <2>1, <2>2, <2>3, <2>4 DEF Departs
<1>8. Later /\ Family'
  BY <1>7, DepartsLater, DepartsFamily DEF FamilyInv
<1>9. \A j \in 1..m : IsCall(stack[j]) /\ Live(stack[j].mp) => Live(stack[j].mp)'
  <2> SUFFICES ASSUME NEW j \in 1..m, IsCall(stack[j]), Live(stack[j].mp)
               PROVE  Live(stack[j].mp)'
    OBVIOUS
  <2>1. stack'[j] = stack[j] /\ stack[j].mp # x
    BY <1>1, <1>5, OthersKept
  <2> QED BY <1>4, <2>1
<1>10. \/ stack[m].fn = "script"
       \/ /\ stack[m].fn # "mount" /\ stack[m].mp # NULL
          /\ \A i : ~Leaving(m, i)
  <2> SUFFICES ASSUME Top.fn = "umount", Top.pc = "finish", m + 1 = n, stack[m].fn # "script"
               PROVE  stack[m].fn # "mount" /\ stack[m].mp # NULL /\ \A i : ~Leaving(m, i)
    OBVIOUS
  <2>1. m = n - 1 /\ n > 1 /\ stack[m + 1] = Top
    BY <1>5 DEF Top
  <2>2. Follows(stack[m], Top)
    BY <2>1, BelowTop
  <2>3. stack[m].mp = NULL => stack[m].fn = "prolog"
    BY <1>5, CallsKnow DEF IsCall
  <2> QED BY <2>1, <2>2, <2>3 DEF Follows, Leaving
<1>11. \A k \in 1..m : FrameInv(k)'
  BY <1>5, <1>8, <1>9, <1>10, CallsKept DEF FamilyInv, IsCall
<1> QED BY <1>8, <1>11 DEF FamilyInv, CallsInv

LEMMA FamilyFinish ==
  ASSUME TableInv, TableInv', FamilyInv, UmountFinish
  PROVE  FamilyInv'
<1>1. /\ StackOK(stack) /\ TablesType /\ UNCHANGED fault /\ Top.fn = "umount" /\ Top.pc = "finish"
      /\ remove_mnt(Top.mp) /\ phk' = [phk EXCEPT ![Top.mp] = Freed] /\ stack' = Popped
  BY TypeParts DEF TableInv, UmountFinish, At
<1>2. PICK n \in Nat : n = Len(stack) /\ n > 1 /\ n \in 1..n /\ stack[n] = Top
                       /\ stack[n] # MainScript
  BY <1>1, TopCall DEF Top
<1>3. PICK m \in Nat :
        /\ m = n - 1 /\ m = Len(stack') /\ m \in 1..(n - 1) /\ m + 1 = n
        /\ \A j \in 1..m : stack'[j] = stack[j]
        /\ \A j \in 1..n : j \in 1..m \/ j = n
  <2>1. /\ n - 1 \in Nat /\ n - 1 \in 1..(n - 1) /\ (n - 1) + 1 = n
        /\ \A j \in 1..n : j \in 1..(n - 1) \/ j = n
    BY <1>2
  <2>2. Len(stack') = n - 1 /\ \A j \in 1..(n - 1) : stack'[j] = stack[j]
    BY <1>1, <1>2, PopShape DEF Popped
  <2> QED BY <2>1, <2>2
<1>4. Childless(Top.mp)
  BY <1>1, UmountTop
<1>5. Unregistering(Top.mp)
  BY <1>1, <1>2 DEF Unregistering
<1>6. \A q \in Orders : Live(q) => \A i \in DOMAIN (phk[q].children) :
        phk[q].children[i] # Top.mp
  BY <1>1, <1>5, TopCall DEF FamilyInv, Family, ChildrenInv, Children
<1>7. \A j \in 1..n : Leaves(stack[j]) => j \in 1..m \/ stack[j].mp = Top.mp
  BY <1>2, <1>3
<1>8. PICK U \in [Orders -> MntType] : U = phk
  BY <1>1 DEF TablesType
<1>9. \A q \in Orders : Live(q) =>
        /\ DOMAIN (U[q].children) = DOMAIN (phk[q].children)
        /\ \A i \in DOMAIN (phk[q].children) : U[q].children[i] =
             IF phk[q].children[i] = Top.mp THEN NULL ELSE phk[q].children[i]
  BY <1>6, <1>8
<1>10. \A q \in Orders : U[q].mnt = phk[q].mnt /\ U[q].parent = phk[q].parent
  BY <1>8
<1>11. phk' = [U EXCEPT ![Top.mp] = Freed]
  BY <1>1, <1>8
<1> QED BY <1>1, <1>2, <1>3, <1>4, <1>7, <1>9, <1>10, <1>11, FreedStep

LEMMA FamilyAbort ==
  ASSUME TableInv, TableInv', FamilyInv, MountAbort
  PROVE  FamilyInv'
<1>1. /\ StackOK(stack) /\ TablesType /\ UNCHANGED fault /\ Top.fn = "mount" /\ exc
      /\ remove_mnt(Top.mp) /\ phk' = [Unregistered(Top.mp) EXCEPT ![Top.mp] = Freed]
      /\ stack' = Raised(Popped)
  BY TypeParts DEF TableInv, MountAbort
<1>2. PICK n \in Nat : n = Len(stack) /\ n > 1 /\ n \in 1..n /\ stack[n] = Top
                       /\ stack[n] # MainScript /\ FrameInv(n)
  BY <1>1, TopCall DEF Top
<1>3. PICK s, l : s = Popped /\ l = n - 1
  OBVIOUS
<1>4. /\ StackOK(s) /\ l \in Nat /\ l >= 1 /\ Len(s) = l /\ l \in 1..l /\ l \in 1..(n - 1)
      /\ \A j \in 1..l : s[j] = stack[j]
      /\ \A j \in 1..n : j \in 1..l \/ j = n
  BY <1>1, <1>2, <1>3, PopShape DEF Popped
<1>5. stack' = IF s[l].fn = "prolog" THEN SubSeq(s, 1, l - 1) ELSE s
  BY <1>1, <1>3, <1>4 DEF Raised
<1>6. PICK m \in Nat :
        /\ m = Len(stack') /\ m \in 1..(n - 1) /\ stack[m].fn = "script"
        /\ \A j \in 1..m : stack'[j] = stack[j]
        /\ \A j \in 1..n : j \in 1..m \/ stack[j].fn \in {"prolog", "mount"}
  <2>1. CASE s[l].fn = "prolog"
    <3>1. stack[l].fn = "prolog" /\ l > 1 /\ stack[n - 2].fn = "script"
      BY <1>1, <1>2, <1>3, <1>4, <2>1, BelowMount
    <3>2. s[Len(s)] # MainScript
      BY <1>4, <2>1 DEF MainScript, Script, Frame
    <3>3. Len(stack') = l - 1 /\ \A j \in 1..(l - 1) : stack'[j] = s[j]
      BY <1>4, <1>5, <2>1, <3>2, PopShape
    <3>4. /\ l - 1 = n - 2 /\ l - 1 \in Nat /\ l - 1 \in 1..(n - 1)
          /\ \A j \in 1..(l - 1) : j \in 1..l
          /\ \A j \in 1..l : j \in 1..(l - 1) \/ j = l
      BY <1>2, <1>3, <1>4, <3>1
    <3>5. \A j \in 1..n : j \in 1..(l - 1) \/ stack[j].fn \in {"prolog", "mount"}
      BY <1>1, <1>2, <1>4, <3>1, <3>4
    <3>6. \A j \in 1..(l - 1) : stack'[j] = stack[j]
      BY <1>4, <3>3, <3>4
    <3> QED BY <3>1, <3>3, <3>4, <3>5, <3>6
  <2>2. CASE s[l].fn # "prolog"
    <3>1. stack[l].fn = "script"
      BY <1>1, <1>2, <1>3, <1>4, <2>2, BelowMount
    <3>2. stack' = s
      BY <1>5, <2>2
    <3> QED BY <1>1, <1>2, <1>4, <3>1, <3>2
  <2> QED BY <2>1, <2>2
<1>7. Childless(Top.mp)
  BY <1>1, <1>2 DEF FrameInv
<1>8. \A j \in 1..n : Leaves(stack[j]) => j \in 1..m \/ stack[j].mp = Top.mp
  BY <1>6 DEF Leaves
<1>9. Top.mp \in Orders
  BY <1>1, TopCall
<1>10. PICK U \in [Orders -> MntType] : U = Unregistered(Top.mp)
  BY <1>1, <1>9, UnregisteredType
<1>11. \A q \in Orders : U[q].mnt = phk[q].mnt /\ U[q].parent = phk[q].parent
  BY <1>1, <1>9, <1>10, UnregisteredFields DEF SameFields
<1>12. \A q \in Orders : Live(q) =>
         /\ DOMAIN (U[q].children) = DOMAIN (phk[q].children)
         /\ \A i \in DOMAIN (phk[q].children) : U[q].children[i] =
              IF phk[q].children[i] = Top.mp THEN NULL ELSE phk[q].children[i]
  BY <1>9, <1>10, UnregisteredSlots DEF FamilyInv
<1>13. phk' = [U EXCEPT ![Top.mp] = Freed]
  BY <1>1, <1>10
<1> QED BY <1>1, <1>2, <1>6, <1>7, <1>8, <1>11, <1>12, <1>13, FreedStep
-----------------------------------------------------------------------------
(***************************************************************************)
(* The other steps.                                                        *)
(***************************************************************************)
LEMMA FamilyExisting ==
  ASSUME Misuse = {}, TableInv, TableInv', FamilyInv, NEW m \in Mnts, MountExisting(m)
  PROVE  FamilyInv'
<1>1. /\ StackOK(stack) /\ TablesType /\ UNCHANGED <<tables, exc, fault>> /\ Top.fn = "script"
      /\ mtab[m] # NULL
  BY TypeParts DEF TableInv, MountExisting, MayCall, UserCode
<1>2. PICK n \in Nat : n = Len(stack) /\ n \in 1..n /\ stack[n] = Top
  BY <1>1, TopType DEF Top
<1>3. PICK o : o = mtab[m] /\ Live(o) /\ phk[o].mnt = m /\ o \in Int
  <2>1. m \in Names
    BY DEF Names
  <2>2. mtab[m] \in Int
    BY <1>1, MntNames
  <2> QED BY <1>1, <2>1, <2>2 DEF TableInv, MountTable
<1>4. PICK base \in Callers :
        /\ base # stack /\ m \in AutoUmount => PoliteUmount(o)
        /\ stack' = Returned(base, o)
  BY <1>3 DEF MountExisting
<1>5. CASE base = stack
  <2>1. stack' = stack
    BY <1>1, <1>4, <1>5 DEF Returned, Top
  <2> QED BY <1>1, <2>1, IdleStep
<1>6. CASE base = Append(stack, Prolog)
  <2>1. StackOK(base) /\ Len(base) = n + 1 /\ base[n + 1] = Prolog
        /\ \A j \in 1..n : base[j] = stack[j]
    <3>1. StackOK(base)
      BY <1>1, <1>4, CallersOK
    <3> QED BY <1>1, <1>2, <1>6, <3>1, PushShape
  <2>2. base # stack
    BY <1>2, <2>1
  <2>3. PICK f : f = [Prolog EXCEPT !.mp = o, !.pc = "lib"]
    OBVIOUS
  <2>4. f.fn = "prolog" /\ f.mp = o /\ f \in FrameType
    BY <1>3, <2>3 DEF Prolog, Frame, FrameType, NULL
  <2>5. stack' = [base EXCEPT ![Len(base)] = f]
    <3>1. n + 1 \in DOMAIN base
      BY <1>2, <2>1 DEF StackOK
    <3>2. Prolog.fn = "prolog"
      BY DEF Prolog, Frame
    <3> QED BY <1>4, <2>1, <2>3, <3>1, <3>2 DEF Returned
  <2>6. /\ Len(stack') = n + 1 /\ stack'[n + 1] = f
        /\ \A j \in 1..n : stack'[j] = stack[j]
    <3>1. \A j \in 1..n : j \in 1..((n + 1) - 1)
      OBVIOUS
    <3>2. /\ Len(stack') = n + 1 /\ stack'[n + 1] = f
          /\ \A j \in 1..((n + 1) - 1) : stack'[j] = base[j]
      BY <2>1, <2>5, UpdateShape
    <3> QED BY <2>1, <3>1, <3>2
  <2>7. ASSUME Frees(f)
        PROVE  \E S \in SUBSET Orders :
                 /\ Closed(S) /\ f.mp \notin S
                 /\ \A j \in 1..Len(stack) :
                      IsCall(stack[j]) /\ stack[j].mp # NULL => stack[j].mp \in S
    <3>1. PoliteUmount(o)
      BY <1>3, <1>4, <2>2, <2>4, <2>7 DEF Frees
    <3> QED BY <2>4, <3>1, PoliteApart
  <2> QED BY <1>1, <1>2, <1>3, <2>4, <2>6, <2>7, PushStep
<1> QED BY <1>4, <1>5, <1>6 DEF Callers

LEMMA FamilyUmount ==
  ASSUME Misuse = {}, TableInv, TableInv', FamilyInv, NEW m \in Names, Umount(m)
  PROVE  FamilyInv'
<1>1. /\ StackOK(stack) /\ TablesType /\ UNCHANGED <<tables, fault>> /\ Top.fn = "script"
      /\ mtab[m] # NULL /\ PoliteUmount(mtab[m])
  BY TypeParts DEF TableInv, Umount, MayCall, UserCode
<1>2. PICK o \in Orders : o = mtab[m] /\ Live(o) /\ o \in Int
  <2>1. Live(mtab[m])
    BY <1>1 DEF TableInv, MountTable
  <2> QED BY <1>1, <2>1 DEF Live, Orders, TablesType
<1>3. PICK f : f = UmountFrame(o)
  OBVIOUS
<1>4. f.fn = "umount" /\ f.mp = o /\ f.pc = "children" /\ f.i = 0
  BY <1>3 DEF UmountFrame, Frame
<1>5. f \in FrameType
  BY <1>2, <1>3 DEF UmountFrame, Frame, FrameType
<1>6. stack' = Append(stack, f)
  BY <1>2, <1>3 DEF Umount
<1>7. /\ Len(stack') = Len(stack) + 1 /\ stack'[Len(stack) + 1] = f
      /\ \A j \in 1..Len(stack) : stack'[j] = stack[j]
  BY <1>1, <1>6, PushShape
<1>8. \E S \in SUBSET Orders :
        /\ Closed(S) /\ f.mp \notin S
        /\ \A j \in 1..Len(stack) :
             IsCall(stack[j]) /\ stack[j].mp # NULL => stack[j].mp \in S
  BY <1>1, <1>2, <1>4, PoliteApart
<1> QED BY <1>1, <1>2, <1>4, <1>5, <1>7, <1>8, PushStep

LEMMA FamilyDone ==
  ASSUME TableInv, TableInv', FamilyInv, MountDone
  PROVE  FamilyInv'
<1>1. /\ StackOK(stack) /\ TablesType /\ UNCHANGED <<mcount, mount_order, exc, fault>>
      /\ Top.fn = "mount" /\ ~exc /\ stack' = Returned(Popped, Top.mp)
      /\ phk' = [phk EXCEPT ![Top.mp].plugin = phk[Top.mp].mnt \in HasPlugin]
  BY TypeParts DEF TableInv, MountDone, At
<1>2. PICK n \in Nat : n = Len(stack) /\ n > 1 /\ stack[n] # MainScript
  BY <1>1, TopCall
<1>3. PICK b : b = (phk[Top.mp].mnt \in HasPlugin)
  OBVIOUS
<1>4. SameStructures
  <2>1. phk \in [Orders -> MntType] /\ Top.mp \in Orders
    BY <1>1, TopCall DEF TablesType
  <2>2. phk' = [phk EXCEPT ![Top.mp].plugin = b]
    BY <1>1, <1>3
  <2>3. \A o \in Orders : /\ phk'[o].mnt = phk[o].mnt /\ phk'[o].parent = phk[o].parent
                          /\ phk'[o].children = phk[o].children
    BY <2>1, <2>2, PluginFields
  <2> QED BY <1>1, <2>3 DEF SameStructures
<1>5. CASE stack[n - 1].fn = "prolog"
  BY <1>1, <1>2, <1>4, <1>5, ReturnStep
<1>6. CASE stack[n - 1].fn # "prolog"
  <2>1. stack[n - 1].fn = "script"
    BY <1>1, <1>2, <1>6, BelowMount
  <2>2. Len(Popped) = n - 1 /\ Popped[n - 1] = stack[n - 1]
    BY <1>1, <1>2, PopShape DEF Popped
  <2>3. stack' = Popped
    BY <1>1, <1>6, <2>2 DEF Returned
  <2> QED BY <1>1, <1>2, <1>4, <2>1, <2>3, PopStep
<1> QED BY <1>5, <1>6

LEMMA FamilyReturn ==
  ASSUME Misuse = {}, TableInv, TableInv', FamilyInv, ScriptReturn
  PROVE  FamilyInv'
<1>1. /\ StackOK(stack) /\ SameStructures /\ UNCHANGED <<exc, fault>>
      /\ Top.fn = "script" /\ Top.pc # "main" /\ (exc => PoliteThrow) /\ stack' = Popped
  BY TypeParts, TablesStay DEF TableInv, ScriptReturn
<1>2. PICK n \in Nat : n = Len(stack) /\ n > 1 /\ stack[n] # MainScript
  BY <1>1, TopNotMain, PopShape
<1>3. ASSUME stack[n - 1].fn = "mount", exc'
      PROVE  Childless(stack[n - 1].mp)
  <2>1. Top.mp = stack[n - 1].mp /\ Top.pc \in {"mount", "plugin"}
    BY <1>2, <1>3, BelowTop DEF Follows
  <2>2. Live(Top.mp)
    <3>1. n - 1 \in 1..Len(stack)
      BY <1>2
    <3> QED BY <1>3, <2>1, <3>1, CallsKnow DEF IsCall
  <2> QED BY <1>1, <1>3, <2>1, <2>2 DEF PoliteThrow, Childless, Children
<1> QED BY <1>1, <1>2, <1>3, PopStep

LEMMA FamilyEnd ==
  ASSUME TableInv, TableInv', FamilyInv, PrologEnd
  PROVE  FamilyInv'
<1>1. /\ StackOK(stack) /\ TablesType /\ TablesType' /\ UNCHANGED <<tables, exc, fault>>
      /\ Top.fn = "prolog"
      /\ stack' = IF phk[Top.mp].mnt \in AutoUmount
                  THEN Append(Popped, UmountFrame(Top.mp)) ELSE Popped
      /\ Later /\ SameStructures /\ \A o : Live(o)' <=> Live(o)
  BY TypeParts, TypePartsPrimed, TablesStay, StructuresLater DEF TableInv, PrologEnd, At
<1>2. PICK n \in Nat : n = Len(stack) /\ n > 1 /\ n \in 1..n /\ stack[n] = Top
                       /\ stack[n] # MainScript
  BY <1>1, TopCall DEF Top
<1>3. stack[n - 1].fn = "script"
  BY <1>1, <1>2, BelowTop DEF Follows, FrameType
<1>4. CASE phk[Top.mp].mnt \notin AutoUmount
  <2>1. stack' = Popped
    BY <1>1, <1>4
  <2> QED BY <1>1, <1>2, <1>3, <2>1, PopStep
<1>5. CASE phk[Top.mp].mnt \in AutoUmount
  <2>1. PICK x \in Orders : x = Top.mp /\ Live(x) /\ x # NULL
    BY <1>1, TopCall
  <2>2. PICK f : f = UmountFrame(x)
    OBVIOUS
  <2>3. f.fn = "umount" /\ f.mp = x /\ f.pc = "children" /\ f.i = 0
    BY <2>2 DEF UmountFrame, Frame
  <2>4. PICK m \in Nat :
          /\ m = n - 1 /\ m + 1 = n /\ m \in 1..n /\ m \in 1..m /\ m < n /\ ~(n < n)
          /\ n = Len(stack') /\ stack'[n] = f /\ \A j \in 1..m : stack'[j] = stack[j]
          /\ \A j \in 1..n : (j \in 1..m \/ j = n) /\ j <= n
    <3>1. StackOK(Popped) /\ Len(Popped) = n - 1 /\ \A j \in 1..(n - 1) : Popped[j] = stack[j]
      BY <1>1, <1>2, PopShape DEF Popped
    <3>2. stack' = Append(Popped, f)
      BY <1>1, <1>5, <2>1, <2>2
    <3>3. Len(stack') = (n - 1) + 1 /\ stack'[(n - 1) + 1] = f
          /\ \A j \in 1..(n - 1) : stack'[j] = Popped[j]
      BY <3>1, <3>2, PushShape
    <3>4. /\ n - 1 \in Nat /\ (n - 1) + 1 = n /\ n - 1 \in 1..n /\ n - 1 \in 1..(n - 1)
          /\ n - 1 < n /\ \A j \in 1..n : (j \in 1..(n - 1) \/ j = n) /\ j <= n
      BY <1>2
    <3> QED BY <3>1, <3>3, <3>4
  <2>5. SameUnregistering
    <3>1. ~Leaves(stack[n]) /\ ~Leaves(f)
      BY <1>1, <1>2, <2>3 DEF Leaves
    <3>2. \A j \in 1..n : Leaves(stack[j]) => j <= n /\ stack'[j] = stack[j]
      BY <2>4, <3>1
    <3>3. \A j \in 1..n : Leaves(stack'[j]) => j <= n /\ stack'[j] = stack[j]
      BY <2>4, <3>1
    <3> QED BY <1>2, <2>4, <3>2, <3>3, UnregisteringKept
  <2>6. Family'
    BY <1>1, <2>5, SameFamily DEF FamilyInv
  <2>7. \A k \in 1..m : FrameInv(k)'
    <3>1. stack[m].fn = "script"
      BY <1>3, <2>4
    <3>2. Follows(stack[m], stack'[m + 1])
      BY <2>3, <2>4, <3>1 DEF Follows
    <3>3. m \in 1..Len(stack) /\ m \in 1..Len(stack')
      BY <1>2, <2>4
    <3> QED BY <1>1, <2>4, <3>1, <3>2, <3>3, CallsKept DEF FamilyInv, IsCall
  <2>8. FrameInv(n)'
    <3>1. ApartFromCallers(n)'
      <4>1. PICK S \in SUBSET Orders :
              /\ Closed(S) /\ Top.mp \notin S
              /\ \A j \in 1..(n - 1) :
                   IsCall(stack[j]) /\ stack[j].mp # NULL => stack[j].mp \in S
        BY <1>1, <1>2, <1>5, <2>1, TopApart DEF Frees
      <4>2. \A j \in 1..(n - 1) : IsCall(stack'[j]) /\ stack'[j].mp # NULL => stack'[j].mp \in S
        BY <2>4, <4>1
      <4>3. stack'[n].mp \notin S
        BY <2>1, <2>3, <2>4, <4>1
      <4> QED BY <1>1, <4>1, <4>2, <4>3, ApartLater
    <3>2. UmountInv(n)'
      <4>1. 0 <= Len(phk'[x].children)
        <5>1. x \in Orders'
          BY <1>1, <2>1 DEF Live
        <5> QED BY <1>1, <5>1, ChildrenTypePrimed
      <4>2. \A i : i \notin 1..0
        OBVIOUS
      <4> QED BY <2>3, <2>4, <4>1, <4>2 DEF UmountInv, Children
    <3> QED BY <1>1, <2>1, <2>3, <2>4, <3>1, <3>2 DEF FrameInv
  <2>9. \A k \in 1..n : FrameInv(k)'
    BY <2>4, <2>7, <2>8
  <2> QED BY <1>1, <2>4, <2>6, <2>9 DEF FamilyInv, CallsInv
<1> QED BY <1>4, <1>5

\* Every call finds its package, and the parent of that, in the table.
LEMMA TopSafe ==
  ASSUME TableInv, FamilyInv, Top.fn # "script"
  PROVE  Safe(Top)
<1>1. Live(Top.mp) /\ Top.mp \in Orders
  BY TopCall
<1>2. phk[Top.mp].parent # NULL => Live(phk[Top.mp].parent)
  BY <1>1 DEF FamilyInv, Family, Ancestry
<1> QED BY <1>1, <1>2 DEF Safe, Reads
-----------------------------------------------------------------------------
(***************************************************************************)
(* The invariant holds at the start of every request ...                   *)
(***************************************************************************)
THEOREM FamilyInvInit ==
  ASSUME Init
  PROVE  FamilyInv
<1>1. Orders = {} /\ \A o : ~Live(o)
  BY DEF Init, Orders, Live
<1>2. Family
  BY <1>1 DEF Family, Ancestry, ChildrenInv, ParentInv
<1>3. stack = <<MainScript>> /\ MainScript.fn = "script"
  BY DEF Init, MainScript, Script, Frame
<1>4. Len(stack) = 1 /\ \A k \in 1..1 : k = 1 /\ ~(k < 1) /\ stack[k].fn = "script"
  BY <1>3
<1>5. CallsInv
  BY <1>4 DEF CallsInv, FrameInv, IsCall, Frees
<1> QED BY <1>2, <1>5 DEF FamilyInv, Init

LEMMA FamilyRShutdown ==
  ASSUME FamilyInv, RShutdown
  PROVE  FamilyInv'
<1>1. Orders' = {} /\ \A o : ~Live(o)'
  BY DEF RShutdown, Orders, Live
<1>2. Family'
  BY <1>1 DEF Family, Ancestry, ChildrenInv, ParentInv
<1>3. stack' = <<MainScript>> /\ MainScript.fn = "script"
  BY DEF RShutdown, MainScript, Script, Frame
<1>4. Len(stack') = 1 /\ \A k \in 1..1 : k = 1 /\ ~(k < 1) /\ stack'[k].fn = "script"
  BY <1>3
<1>5. CallsInv'
  BY <1>4 DEF CallsInv, FrameInv, IsCall, Frees
<1> QED BY <1>2, <1>5 DEF FamilyInv, RShutdown

(***************************************************************************)
(* ... and every step keeps it.                                            *)
(***************************************************************************)
THEOREM FamilyStep ==
  ASSUME Misuse = {}, TableInv, FamilyInv, [Next]_vars
  PROVE  FamilyInv'
<1>1. TableInv'
  BY TableInvStep
<1>2. ASSUME NEW m \in Mnts, MountUnknown(m)
      PROVE  FamilyInv'
  BY <1>1, <1>2, IdleStep DEF MountUnknown, MayCall, UserCode
<1>3. ASSUME NEW m \in Mnts, MountExisting(m)
      PROVE  FamilyInv'
  BY <1>1, <1>3, FamilyExisting
<1>4. ASSUME NEW m \in Mnts, MountNewFails(m)
      PROVE  FamilyInv'
  BY <1>1, <1>4, FamilyNewFails
<1>5. ASSUME NEW m \in Mnts, NEW b \in Flags, MountNew(m, b)
      PROVE  FamilyInv'
  BY <1>1, <1>5, FamilyNew
<1>6. ASSUME NEW ok \in BOOLEAN, MountCreator(ok)
      PROVE  FamilyInv'
  BY <1>1, <1>6, FamilyCreator
<1>7. ASSUME NEW m \in Names, Umount(m)
      PROVE  FamilyInv'
  BY <1>1, <1>7, FamilyUmount
<1>8. CASE MountStep
  <2>1. CASE MountScript
    <3>1. /\ UNCHANGED <<tables, fault, exc>> /\ Top.fn = "mount" /\ ~exc
          /\ stack' = Resume("plugin") \/ stack' = Call("plugin", Script(Top.mp, "mount"))
      BY <2>1 DEF MountScript, At
    <3> QED BY <1>1, <3>1, ResumeStep DEF PCs
  <2>2. CASE MountPlugin
    <3>1. /\ UNCHANGED <<tables, fault, exc>> /\ Top.fn = "mount" /\ ~exc
          /\ stack' = Resume("done") \/ stack' = Call("done", Script(Top.mp, "plugin"))
      BY <2>2 DEF MountPlugin, At
    <3> QED BY <1>1, <3>1, ResumeStep DEF PCs
  <2>3. CASE MountDone
    BY <1>1, <2>3, FamilyDone
  <2>4. CASE MountAbort
    BY <1>1, <2>4, FamilyAbort
  <2> QED BY <1>8, <2>1, <2>2, <2>3, <2>4 DEF MountStep
<1>9. CASE UmountStep
  <2>1. CASE UmountChild
    BY <1>1, <2>1, FamilyChild
  <2>2. CASE UmountUnregister
    BY <1>1, <2>2, FamilyUnregister
  <2>3. CASE UmountScript
    <3>1. /\ UNCHANGED <<tables, fault, exc>> /\ Top.fn = "umount" /\ Top.pc = "script"
          /\ stack' = Resume("finish") \/ stack' = Call("finish", Script(Top.mp, "umount"))
      BY <2>3 DEF UmountScript, At
    <3> QED BY <1>1, <3>1, ResumeStep DEF PCs
  <2>4. CASE UmountFinish
    BY <1>1, <2>4, FamilyFinish
  <2> QED BY <1>9, <2>1, <2>2, <2>3, <2>4 DEF UmountStep
<1>10. CASE PrologStep
  <2>1. CASE PrologLib
    <3>1. /\ UNCHANGED <<tables, fault, exc>> /\ Top.fn = "prolog"
          /\ stack' = Resume("end") \/ stack' = Call("end", Script(Top.mp, "lib"))
      BY <2>1 DEF PrologLib, At
    <3> QED BY <1>1, <3>1, ResumeStep DEF PCs
  <2>2. CASE PrologEnd
    BY <1>1, <2>2, FamilyEnd
  <2> QED BY <1>10, <2>1, <2>2 DEF PrologStep
<1>11. CASE LoadMap
  BY <1>1, <1>11, IdleStep DEF LoadMap, MayCall, UserCode
<1>12. ASSUME NEW id \in 0..MaxMaps, UnloadMap(id)
       PROVE  FamilyInv'
  BY <1>1, <1>12, IdleStep DEF UnloadMap, MayCall, UserCode
<1>13. CASE Throw
  BY <1>1, <1>13, IdleStep DEF Throw, UserCode
<1>14. CASE Catch
  BY <1>1, <1>14, IdleStep DEF Catch
<1>15. CASE ScriptReturn
  BY <1>1, <1>15, FamilyReturn
<1>16. ASSUME NEW o \in Orders, ParentMnt(o)
       PROVE  FALSE
  BY <1>16 DEF ParentMnt, FamilyInv, Family, Ancestry
<1>17. ~UseAfterFree
  BY TopSafe DEF UseAfterFree
<1>18. CASE RShutdown
  BY <1>18, FamilyRShutdown
<1>19. CASE UNCHANGED vars
  BY <1>1, <1>19, IdleStep DEF vars, tables
<1> QED
  BY <1>2, <1>3, <1>4, <1>5, <1>6, <1>7, <1>8, <1>9, <1>10, <1>11, <1>12, <1>13, <1>14, <1>15,
     <1>16, <1>17, <1>18, <1>19
  DEF Next

-----------------------------------------------------------------------------
\* In every request whose scripts keep within the limits of Polite..., parents and
\* children point to each other.
THEOREM FamilyLinksCorrect ==
  ASSUME Misuse = {}
  PROVE  Spec => []FamilyLinks
<1>1. FamilyInv => FamilyLinks
  BY DEF FamilyInv, Family, ChildrenInv, ParentInv, Ancestry, OnlyIn, Children, FamilyLinks
<1>2. TableInv /\ FamilyInv /\ [Next]_vars => TableInv' /\ FamilyInv'
  BY TableInvStep, FamilyStep
<1>3. Init => TableInv /\ FamilyInv
  BY TableInvInit, FamilyInvInit
<1> QED BY <1>1, <1>2, <1>3, PTL DEF Spec

\* ... and no call resumes on a structure that a nested call has freed, nor does a
\* package keep a pointer to a freed parent.
THEOREM NoUseAfterFreeCorrect ==
  ASSUME Misuse = {}
  PROVE  Spec => []NoUseAfterFree
<1>1. FamilyInv => NoUseAfterFree
  BY DEF FamilyInv, NoUseAfterFree
<1>2. TableInv /\ FamilyInv /\ [Next]_vars => TableInv' /\ FamilyInv'
  BY TableInvStep, FamilyStep
<1>3. Init => TableInv /\ FamilyInv
  BY TableInvInit, FamilyInvInit
<1> QED BY <1>1, <1>2, <1>3, PTL DEF Spec
=============================================================================
