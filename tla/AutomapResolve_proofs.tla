----------------------- MODULE AutomapResolve_proofs -----------------------
(***************************************************************************)
(* Proofs about AutomapResolve, for any maps, packages, scripts and bounds. *)
(***************************************************************************)
EXTENDS AutomapResolve, SequenceTheorems, TLAPS

-----------------------------------------------------------------------------
(***************************************************************************)
(* The invariant: what each frame of the stack relies on.                  *)
(***************************************************************************)
ScriptPcs == {"main", "script", "mount", "handler"}
ResolvePcs == {"lookup", "script", "extension", "package", "mounting", "success", "failure",
               "return"}

\* No map from the n-th to the one that the walk of f began at provides the symbol.
Absent(f, n) ==
  \A id \in n..(f.start - 1) :
    Active(id) /\ ~map_array[id].noAutoload => ~Provides(map_array[id].map, f.sym)

\* What the walk has left behind it.  While a package is mounted, the map that has named
\* it is still in question.
Walk(f) ==
  /\ f.pc = "lookup" => Absent(f, f.i)
  /\ f.pc \in {"package", "mounting"} =>
       /\ Absent(f, f.i + 1)
       /\ Active(f.i) /\ ~map_array[f.i].noAutoload /\ Provides(map_array[f.i].map, f.sym)
            => Target(f.i, f.sym) = f.target
  /\ f.pc = "failure" \/ (f.pc = "return" /\ f.status = FAILURE) => Absent(f, 1)

\* Of any resolution on the stack.
Resolving(f) ==
  /\ f.pc \in ResolvePcs /\ f.sym \in Symbols
  /\ f.i <= f.start /\ f.start <= map_count
  /\ f.pc # "return" => f.status = SUCCESS
  /\ f.pc = "script" => f.target \in Scripts /\ f.sym \in Defines[f.target]
  /\ f.pc = "extension" => f.target \in Extensions /\ f.sym \in Defines[f.target]
  /\ f.pc \in {"package", "mounting"} => f.target \in Packages /\ f.i < f.start
  /\ f.pc = "success" /\ f.h = 0 => Active(f.mp) \/ rude

\* Of the one that is running.
Running(f) ==
  /\ exc \/ Walk(f)
  /\ f.pc \in {"script", "extension"} => Active(f.mp)
  /\ f.pc = "success" => exc \/ f.sym \in defined
  /\ f.pc = "return" => exc \/ f.sym \in defined \/ (f.status = FAILURE /\ ~f.exception)

\* Of one that waits for the PHP code above it.
Waiting(f, above) ==
  /\ f.pc \in {"success", "failure", "mounting"}
  /\ Walk(f)
  /\ f.pc = "success" =>
       f.sym \in defined \/ (above.pc = "script" /\ f.sym \in Defines[above.target])

ScriptFrame(f) ==
  /\ f.fn = "script" /\ f.pc \in ScriptPcs
  /\ f.pc = "script" => f.target \in Scripts

\* PHP code and resolutions alternate on the stack.
FrameInv(k) ==
  \/ /\ ScriptFrame(stack[k])
     /\ k < Len(stack) => stack[k + 1].fn = "resolve"
  \/ /\ stack[k].fn = "resolve" /\ Resolving(stack[k])
     /\ k = Len(stack) => Running(stack[k])
     /\ k < Len(stack) => stack[k + 1].fn = "script" /\ Waiting(stack[k], stack[k + 1])

StackInv ==
  /\ stack \in Seq(FrameType) /\ stack # <<>> /\ stack[1] = MainScript
  /\ \A k \in 1..Len(stack) : FrameInv(k)

\* The map of a mounted package is its own, and there unless PHP code has unloaded it.
MountedMaps ==
  \A p \in Packages :
    /\ mounted[p] \in 0..(map_count - 1) \cup {NULL}
    /\ mounted[p] \notin {0, NULL} =>
         /\ Active(mounted[p]) \/ rude
         /\ Active(mounted[p]) => map_array[mounted[p]].map = MapOf[p]
         /\ \A q \in Packages : mounted[q] = mounted[p] => q = p

\* A package that is being mounted is in the table, and is mounted by one call only.
MountingInv ==
  \A k \in 1..Len(stack) : stack[k].pc = "mounting" =>
    /\ mounted[stack[k].target] # NULL
    /\ \A j \in 1..Len(stack) :
         stack[j].pc = "mounting" /\ stack[j].target = stack[k].target => j = k

DataType ==
  /\ map_count \in Nat \ {0}
  /\ map_array \in [0..(map_count - 1) -> MntType \cup {NULL}]
  /\ mounted \in [Packages -> Nat \cup {NULL}]
  /\ defined \in SUBSET Symbols
  /\ fh_count \in Nat /\ sh_count \in Nat
  /\ exc \in BOOLEAN /\ rude \in BOOLEAN /\ fault \in BOOLEAN

IInv ==
  /\ DataType
  /\ StackInv
  /\ MountedMaps
  /\ MountingInv
  /\ fault => rude

-----------------------------------------------------------------------------
(***************************************************************************)
(* The stack.                                                              *)
(***************************************************************************)
LEMMA FrameTypes ==
  ASSUME ConstantsAssumption
  PROVE  /\ MainScript \in FrameType /\ MainScript.fn = "script" /\ ScriptFrame(MainScript)
         /\ \A why \in ScriptPcs, target \in Targets \cup {NULL} :
              /\ Script(why, target) \in FrameType
              /\ Script(why, target).fn = "script" /\ Script(why, target).pc = why
              /\ Script(why, target).target = target
BY DEF ConstantsAssumption, MainScript, Script, FrameType, ScriptPcs, ScriptFrame, SUCCESS

\* The last frame.
LEMMA TopFrame ==
  ASSUME StackInv
  PROVE  /\ Len(stack) \in Nat \ {0} /\ DOMAIN stack = 1..Len(stack)
         /\ Top = stack[Len(stack)] /\ Top \in FrameType
         /\ \A k \in 1..Len(stack) : stack[k] \in FrameType
         /\ Top.fn = "script" => ScriptFrame(Top)
         /\ Top.fn = "resolve" => /\ Resolving(Top) /\ Running(Top)
                                  /\ Len(stack) > 1 /\ stack[Len(stack) - 1].fn = "script"
<1>1. /\ Len(stack) \in Nat \ {0} /\ DOMAIN stack = 1..Len(stack)
      /\ \A k \in 1..Len(stack) : stack[k] \in FrameType
  BY DEF StackInv
<1>2. Top = stack[Len(stack)] /\ Top \in FrameType /\ FrameInv(Len(stack))
  BY <1>1 DEF StackInv, Top
<1>3. Top.fn = "script" => ScriptFrame(Top)
  BY <1>2 DEF FrameInv
<1>4. ASSUME Top.fn = "resolve"
      PROVE  /\ Resolving(Top) /\ Running(Top)
             /\ Len(stack) > 1 /\ stack[Len(stack) - 1].fn = "script"
  <2>1. Resolving(Top) /\ Running(Top)
    BY <1>2, <1>4 DEF FrameInv, ScriptFrame
  <2>2. Len(stack) # 1
    BY <1>2, <1>4 DEF StackInv, MainScript, Script
  <2>3. \E k \in 1..Len(stack) : k = Len(stack) - 1 /\ k < Len(stack) /\ k + 1 = Len(stack)
    <3>1. Len(stack) - 1 \in 1..Len(stack)
      BY <1>1, <2>2
    <3> WITNESS Len(stack) - 1 \in 1..Len(stack)
    <3> QED BY <1>1
  <2>6. PICK k \in 1..Len(stack) : k = Len(stack) - 1 /\ k < Len(stack) /\ k + 1 = Len(stack)
    BY <2>3
  <2>4. stack[k + 1].fn = "resolve"
    BY <1>2, <1>4, <2>6
  <2>5. stack[k].fn = "script"
    BY <2>6, <2>4 DEF StackInv, FrameInv, ScriptFrame
  <2> QED BY <1>1, <2>1, <2>2, <2>6, <2>5
<1> QED BY <1>1, <1>2, <1>3, <1>4

\* What the steps do to the stack.
LEMMA PushShape ==
  ASSUME NEW s \in Seq(FrameType), NEW f \in FrameType
  PROVE  /\ Append(s, f) \in Seq(FrameType) /\ Append(s, f) # <<>>
         /\ Len(Append(s, f)) = Len(s) + 1 /\ Append(s, f)[Len(s) + 1] = f
         /\ \A k \in 1..Len(s) : Append(s, f)[k] = s[k]
OBVIOUS

LEMMA ReplaceShape ==
  ASSUME StackInv, NEW f \in FrameType
  PROVE  /\ Replace(f) \in Seq(FrameType) /\ Replace(f) # <<>>
         /\ Len(Replace(f)) = Len(stack) /\ Replace(f)[Len(stack)] = f
         /\ \A k \in 1..(Len(stack) - 1) : Replace(f)[k] = stack[k]
BY TopFrame DEF StackInv, Replace

LEMMA CallShape ==
  ASSUME StackInv, NEW f \in FrameType, NEW g \in FrameType
  PROVE  /\ Call(f, g) \in Seq(FrameType) /\ Call(f, g) # <<>>
         /\ Len(Call(f, g)) = Len(stack) + 1
         /\ Call(f, g)[Len(stack)] = f /\ Call(f, g)[Len(stack) + 1] = g
         /\ \A k \in 1..(Len(stack) - 1) : Call(f, g)[k] = stack[k]
<1>1. Len(stack) \in Nat \ {0}
  BY TopFrame
<1> DEFINE r == Replace(f)
<1>2. /\ r \in Seq(FrameType) /\ r # <<>> /\ Len(r) = Len(stack) /\ r[Len(stack)] = f
      /\ \A k \in 1..(Len(stack) - 1) : r[k] = stack[k]
  BY ReplaceShape
<1> HIDE DEF r
<1>3. /\ Append(r, g) \in Seq(FrameType) /\ Append(r, g) # <<>>
      /\ Len(Append(r, g)) = Len(r) + 1 /\ Append(r, g)[Len(r) + 1] = g
      /\ \A k \in 1..Len(r) : Append(r, g)[k] = r[k]
  BY <1>2, PushShape
<1>4. Call(f, g) = Append(r, g)
  BY DEF Call, r
<1> QED BY <1>1, <1>2, <1>3, <1>4

LEMMA PopShape ==
  ASSUME StackInv, Len(stack) > 1
  PROVE  /\ Popped \in Seq(FrameType) /\ Popped # <<>>
         /\ Len(Popped) = Len(stack) - 1
         /\ \A k \in 1..(Len(stack) - 1) : Popped[k] = stack[k]
<1> DEFINE n == Len(stack) - 1
<1>1. n \in Int /\ 1 \in Int /\ n >= 1 /\ n - 1 + 1 = n /\ \A k \in 1..n : stack[k] \in FrameType
  BY TopFrame
<1>2. Popped = SubSeq(stack, 1, n)
  BY DEF Popped
<1> HIDE DEF n
<1>3. /\ Popped \in Seq(FrameType) /\ Len(Popped) = n
      /\ \A k \in 1..n : Popped[k] = stack[1 + k - 1]
  BY <1>1, <1>2, SubSeqProperties
<1>4. Popped # <<>>
  BY <1>1, <1>3
<1>5. \A k \in 1..n : Popped[k] = stack[k]
  <2> TAKE k \in 1..n
  <2>1. 1 + k - 1 = k
    BY <1>1
  <2> QED BY <1>3, <2>1
<1> QED BY <1>3, <1>4, <1>5 DEF n

\* Only the request itself is at the bottom.
LEMMA NotAlone ==
  ASSUME StackInv, Top.pc # "main"
  PROVE  Len(stack) > 1
BY TopFrame DEF StackInv, MainScript, Script

-----------------------------------------------------------------------------
(***************************************************************************)
(* What a step may do to the maps, and what the calls below keep.          *)
(***************************************************************************)
\* Maps are added and unloaded, never moved or changed; symbols stay defined; and who
\* unloads a map that a call is about to read is rude.
Later ==
  /\ map_count' \in Nat /\ map_count <= map_count'
  /\ \A id \in 0..(map_count - 1) : map_array'[id] \in {map_array[id], NULL}
  /\ defined \subseteq defined'
  /\ rude => rude'
  /\ \A id \in Nat : Pending(id) /\ Active(id) => Active(id)' \/ rude'

LEMMA SameIsLater ==
  ASSUME DataType, UNCHANGED <<map_count, map_array, rude>>, defined \subseteq defined'
  PROVE  Later
BY DEF DataType, Later, Active, IDs

\* An old map that is active after the step was so before it, and is the same.
LEMMA ActiveLater ==
  ASSUME DataType, Later, NEW id \in 1..(map_count - 1), Active(id)'
  PROVE  Active(id) /\ map_array'[id] = map_array[id]
BY DEF DataType, Later, Active, IDs

LEMMA AbsentLater ==
  ASSUME DataType, Later, NEW f, NEW n \in Nat, f.start \in Nat, f.start <= map_count,
         Absent(f, n)
  PROVE  Absent(f, n)'
<1> SUFFICES ASSUME NEW id \in n..(f.start - 1), Active(id)', ~map_array'[id].noAutoload
             PROVE  ~Provides(map_array'[id].map, f.sym)
  BY DEF Absent, Provides
<1>1. id \in 1..(map_count - 1)
  BY DEF DataType, Active, IDs
<1>2. Active(id) /\ map_array'[id] = map_array[id]
  BY <1>1, ActiveLater
<1> QED BY <1>2 DEF Absent

LEMMA WalkLater ==
  ASSUME DataType, Later, NEW f \in FrameType, f.start <= map_count,
         f.pc \in {"package", "mounting"} => f.i < f.start, Walk(f)
  PROVE  Walk(f)'
<1>1. f.start \in Nat /\ f.i \in Nat /\ f.i + 1 \in Nat /\ 1 \in Nat
  BY DEF FrameType
<1>2. f.pc = "lookup" => Absent(f, f.i)'
  BY <1>1, AbsentLater DEF Walk
<1>3. ASSUME f.pc \in {"package", "mounting"}
      PROVE  Absent(f, f.i + 1)'
  BY <1>1, <1>3, AbsentLater DEF Walk
<1>4. ASSUME f.pc \in {"package", "mounting"}, Active(f.i)', ~map_array'[f.i].noAutoload,
             Provides(map_array'[f.i].map, f.sym)
      PROVE  Entry[map_array'[f.i].map][f.sym] = f.target
  <2>1. f.i \in 1..(map_count - 1)
    BY <1>1, <1>4 DEF DataType, Active, IDs
  <2>2. Active(f.i) /\ map_array'[f.i] = map_array[f.i]
    BY <1>4, <2>1, ActiveLater
  <2> QED BY <1>4, <2>2 DEF Walk, Target
<1>5. f.pc = "failure" \/ (f.pc = "return" /\ f.status = FAILURE) => Absent(f, 1)'
  BY <1>1, AbsentLater DEF Walk
<1> QED BY <1>2, <1>3, <1>4, <1>5 DEF Walk, Target, Provides

LEMMA ResolvingLater ==
  ASSUME DataType, Later, StackInv, NEW f, NEW k \in 1..Len(stack), f = stack[k],
         Resolving(f)
  PROVE  Resolving(f)'
<1>1. f \in FrameType /\ f.start \in Nat /\ f.mp \in Nat
  BY TopFrame DEF FrameType
<1>2. f.start <= map_count'
  BY <1>1 DEF Later, DataType, Resolving
<1>3. ASSUME f.pc = "success", f.h = 0
      PROVE  Active(f.mp)' \/ rude'
  <2>1. Pending(f.mp)
    BY <1>3 DEF Pending
  <2>2. Active(f.mp) \/ rude
    BY <1>3 DEF Resolving
  <2> QED BY <1>1, <2>1, <2>2 DEF Later
<1> QED BY <1>2, <1>3 DEF Resolving

LEMMA WaitingLater ==
  ASSUME DataType, Later, NEW f \in FrameType, NEW above, Resolving(f), Waiting(f, above)
  PROVE  Waiting(f, above)'
<1>1. Walk(f)'
  BY WalkLater DEF Resolving, Waiting
<1> QED BY <1>1 DEF Waiting, Later

-----------------------------------------------------------------------------
(***************************************************************************)
(* The frames under the last one are kept by any change of the stack.      *)
(***************************************************************************)
LEMMA FrameKept ==
  ASSUME DataType, Later, StackInv, NEW k \in 1..(Len(stack) - 1),
         Len(stack') \in Nat, k < Len(stack'), stack'[k] = stack[k],
         \/ stack'[k + 1] = stack[k + 1]
         \/ stack'[k + 1].fn = "resolve" /\ stack[k + 1].fn = "resolve"
  PROVE  FrameInv(k)'
<1>1. k \in 1..Len(stack) /\ k < Len(stack) /\ k # Len(stack')
  BY TopFrame
<1>2. FrameInv(k)
  BY <1>1 DEF StackInv
<1>3. CASE ScriptFrame(stack[k]) /\ stack[k + 1].fn = "resolve"
  BY <1>3 DEF FrameInv, ScriptFrame
<1>4. CASE /\ stack[k].fn = "resolve" /\ Resolving(stack[k])
           /\ stack[k + 1].fn = "script" /\ Waiting(stack[k], stack[k + 1])
  <2>1. PICK f, above : f = stack[k] /\ above = stack[k + 1]
    OBVIOUS
  <2>2. f \in FrameType /\ Resolving(f) /\ Waiting(f, above)
    BY <1>1, <1>4, <2>1, TopFrame
  <2>3. Resolving(f)'
    BY <1>1, <2>1, <2>2, ResolvingLater
  <2>4. Waiting(f, above)'
    BY <2>2, WaitingLater
  <2>5. stack'[k] = f /\ stack'[k + 1] = above
    BY <1>4, <2>1
  <2>6. Resolving(stack[k])' /\ Waiting(stack[k], stack[k + 1])'
    BY <2>3, <2>4, <2>5
  <2> QED BY <1>1, <1>4, <2>5, <2>1, <2>6 DEF FrameInv
<1> QED BY <1>1, <1>2, <1>3, <1>4 DEF FrameInv

LEMMA SameStack ==
  ASSUME DataType, Later, StackInv, Top.fn = "script", UNCHANGED stack
  PROVE  StackInv'
<1>1. ASSUME NEW k \in 1..(Len(stack) - 1)
      PROVE  FrameInv(k)'
  <2>1. Len(stack') \in Nat /\ k < Len(stack')
    BY TopFrame
  <2> QED BY <2>1, FrameKept
<1>2. ScriptFrame(stack[Len(stack)])'
  BY TopFrame DEF ScriptFrame
<1>3. FrameInv(Len(stack))'
  BY <1>2, TopFrame DEF FrameInv
<1>4. \A k \in 1..Len(stack) : k \in 1..(Len(stack) - 1) \/ k = Len(stack)
  <2>1. Len(stack) \in Nat
    BY TopFrame
  <2> QED BY <2>1
<1>5. \A k \in 1..Len(stack') : FrameInv(k)'
  BY <1>1, <1>3, <1>4
<1> QED BY <1>5 DEF StackInv

\* A frame that is last.
LEMMA LastFrame ==
  ASSUME NEW g, NEW n \in Nat, Len(stack') = n, stack'[n] = g,
         ScriptFrame(g) \/ (g.fn = "resolve" /\ Resolving(g)' /\ Running(g)')
  PROVE  FrameInv(n)'
<1>1. ScriptFrame(g)' <=> ScriptFrame(g)
  BY DEF ScriptFrame
<1>2. \/ ScriptFrame(stack[n])'
      \/ stack'[n].fn = "resolve" /\ Resolving(stack[n])' /\ Running(stack[n])'
  BY <1>1
<1> QED BY <1>2 DEF FrameInv

LEMMA AppendResolve ==
  ASSUME DataType, Later, StackInv, Top.fn = "script",
         NEW g \in FrameType, stack' = Append(stack, g),
         g.fn = "resolve", Resolving(g)', Running(g)'
  PROVE  StackInv'
<1>0. PICK n : n = Len(stack)
  OBVIOUS
<1>1. /\ n \in Nat \ {0} /\ stack \in Seq(FrameType) /\ stack[1] = MainScript
      /\ stack[n].fn = "script" /\ ScriptFrame(stack[n])
  BY <1>0, TopFrame DEF StackInv
<1>2. /\ stack' \in Seq(FrameType) /\ stack' # <<>>
      /\ Len(stack') = n + 1 /\ stack'[n + 1] = g
      /\ \A k \in 1..n : stack'[k] = stack[k]
  BY <1>0, <1>1, PushShape
<1>3. ASSUME NEW k \in 1..(n - 1)
      PROVE  FrameInv(k)'
  BY <1>1, <1>2, FrameKept, <1>0
<1>4. FrameInv(n)'
  <2>1. n \in 1..n /\ n < n + 1
    BY <1>1
  <2>2. ScriptFrame(stack[n])' /\ stack'[n + 1].fn = "resolve" /\ n < Len(stack')
    BY <1>1, <1>2, <2>1 DEF ScriptFrame
  <2> QED BY <2>2 DEF FrameInv
<1>5. FrameInv(n + 1)'
  BY <1>1, <1>2, LastFrame
<1>6. \A k \in 1..(n + 1) : k \in 1..(n - 1) \/ k = n \/ k = n + 1
  BY <1>1
<1>7. \A k \in 1..Len(stack') : FrameInv(k)'
  BY <1>2, <1>3, <1>4, <1>5, <1>6
<1>8. stack'[1] = MainScript
  BY <1>1, <1>2
<1> QED BY <1>2, <1>7, <1>8 DEF StackInv, MainScript, Script

LEMMA ReplaceTop ==
  ASSUME DataType, Later, StackInv, Top.fn = "resolve",
         NEW g \in FrameType, stack' = Replace(g),
         g.fn = "resolve", Resolving(g)', Running(g)'
  PROVE  StackInv'
<1>0. PICK n : n = Len(stack)
  OBVIOUS
<1>1. /\ n \in Nat /\ n > 1 /\ stack \in Seq(FrameType) /\ stack[1] = MainScript
      /\ stack[n].fn = "resolve"
  BY <1>0, TopFrame DEF StackInv
<1>2. /\ stack' \in Seq(FrameType) /\ stack' # <<>>
      /\ Len(stack') = n /\ stack'[n] = g
      /\ \A k \in 1..(n - 1) : stack'[k] = stack[k]
  BY <1>0, <1>1, ReplaceShape
<1>3. ASSUME NEW k \in 1..(n - 1)
      PROVE  FrameInv(k)'
  <2>1. k + 1 \in 1..(n - 1) \/ k + 1 = n
    BY <1>1
  <2>2. \/ stack'[k + 1] = stack[k + 1]
        \/ stack'[k + 1].fn = "resolve" /\ stack[k + 1].fn = "resolve"
    BY <1>1, <1>2, <2>1
  <2>3. k < n
    BY <1>1
  <2> QED BY <1>1, <1>2, <2>2, <2>3, FrameKept, <1>0
<1>4. FrameInv(n)'
  BY <1>1, <1>2, LastFrame
<1>5. \A k \in 1..n : k \in 1..(n - 1) \/ k = n
  BY <1>1
<1>6. \A k \in 1..Len(stack') : FrameInv(k)'
  BY <1>2, <1>3, <1>4, <1>5
<1>7. stack'[1] = MainScript
  BY <1>1, <1>2
<1> QED BY <1>2, <1>6, <1>7 DEF StackInv, MainScript, Script

LEMMA CallTop ==
  ASSUME DataType, Later, StackInv, Top.fn = "resolve",
         NEW g \in FrameType, NEW h \in FrameType, stack' = Call(g, h),
         g.fn = "resolve", Resolving(g)', Waiting(g, h)', ScriptFrame(h)
  PROVE  StackInv'
<1>0. PICK n : n = Len(stack)
  OBVIOUS
<1>1. /\ n \in Nat /\ n > 1 /\ stack \in Seq(FrameType) /\ stack[1] = MainScript
      /\ stack[n].fn = "resolve"
  BY <1>0, TopFrame DEF StackInv
<1>2. /\ stack' \in Seq(FrameType) /\ stack' # <<>>
      /\ Len(stack') = n + 1 /\ stack'[n] = g /\ stack'[n + 1] = h
      /\ \A k \in 1..(n - 1) : stack'[k] = stack[k]
  BY ZenonT(60), <1>0, <1>1, CallShape
<1>3. ASSUME NEW k \in 1..(n - 1)
      PROVE  FrameInv(k)'
  <2>1. k + 1 \in 1..(n - 1) \/ k + 1 = n
    BY <1>1
  <2>2. \/ stack'[k + 1] = stack[k + 1]
        \/ stack'[k + 1].fn = "resolve" /\ stack[k + 1].fn = "resolve"
    BY <1>1, <1>2, <2>1
  <2>3. k < n + 1 /\ Len(stack') \in Nat
    BY <1>1, <1>2
  <2> QED BY <1>1, <1>2, <2>2, <2>3, FrameKept, <1>0
<1>4. FrameInv(n)'
  <2>1. n < Len(stack') /\ n # Len(stack')
    BY <1>1, <1>2
  <2>2. Resolving(stack[n])' /\ Waiting(stack[n], stack[n + 1])'
    BY <1>2
  <2>3. stack'[n].fn = "resolve" /\ stack'[n + 1].fn = "script"
    BY <1>2 DEF ScriptFrame
  <2> QED BY <2>1, <2>2, <2>3 DEF FrameInv
<1>5. FrameInv(n + 1)'
  BY <1>1, <1>2, LastFrame
<1>6. \A k \in 1..(n + 1) : k \in 1..(n - 1) \/ k = n \/ k = n + 1
  BY <1>1
<1>7. \A k \in 1..Len(stack') : FrameInv(k)'
  BY <1>2, <1>3, <1>4, <1>5, <1>6
<1>8. stack'[1] = MainScript
  BY <1>1, <1>2
<1> QED BY <1>2, <1>7, <1>8 DEF StackInv, MainScript, Script

\* A return to the call that waits.  A script that comes to its end has made its
\* definitions.
LEMMA PopScript ==
  ASSUME DataType, StackInv, Top.fn = "script", Len(stack) > 1, stack' = Popped,
         Top.pc = "script" => exc \/ Defines[Top.target] \subseteq defined,
         UNCHANGED <<map_count, map_array, defined, exc, rude>>
  PROVE  StackInv'
<1>0. PICK n : n = Len(stack) - 1
  OBVIOUS
<1>1. /\ n \in Nat /\ n >= 1 /\ Len(stack) = n + 1 /\ stack \in Seq(FrameType)
      /\ stack[1] = MainScript /\ stack[n + 1] = Top
      /\ \A k \in 1..(n + 1) : FrameInv(k)
  BY <1>0, TopFrame DEF StackInv
<1>2. /\ stack' \in Seq(FrameType) /\ stack' # <<>> /\ Len(stack') = n
      /\ \A k \in 1..n : stack'[k] = stack[k]
  BY <1>0, PopShape
<1>3. Later
  BY SameIsLater
<1>4. ASSUME NEW k \in 1..(n - 1)
      PROVE  FrameInv(k)'
  <2>1. k \in 1..(Len(stack) - 1) /\ k \in 1..n /\ k + 1 \in 1..n /\ k < n
    BY <1>1
  <2> QED BY <1>1, <1>2, <1>3, <2>1, FrameKept
<1>5. FrameInv(n)'
  <2>1. n \in 1..(n + 1) /\ n < n + 1 /\ n \in 1..n /\ n \in 1..Len(stack)
    BY <1>1
  <2>2. FrameInv(n)
    BY <1>1, <2>1
  <2>3. PICK f : f = stack[n]
    OBVIOUS
  <2>4. /\ f.fn = "resolve" /\ Resolving(f) /\ Waiting(f, Top)
    BY <1>1, <2>1, <2>2, <2>3 DEF FrameInv, ScriptFrame
  <2>5. Resolving(f)'
    BY <1>3, <2>1, <2>3, <2>4, ResolvingLater
  <2>6. Walk(f)'
    <3>1. f \in FrameType
      BY <2>1, <2>3, TopFrame
    <3> QED BY <1>3, <2>4, <3>1, WalkLater DEF Waiting, Resolving
  <2>7. Running(f)'
    BY <2>4, <2>6 DEF Running, Waiting
  <2>8. stack'[n] = f
    BY <1>2, <2>1, <2>3
  <2> QED BY <1>1, <1>2, <2>4, <2>5, <2>7, <2>8, LastFrame
<1>6. \A k \in 1..n : k \in 1..(n - 1) \/ k = n
  BY <1>1
<1>7. \A k \in 1..Len(stack') : FrameInv(k)'
  BY <1>2, <1>4, <1>5, <1>6
<1>8. stack'[1] = MainScript
  BY <1>1, <1>2
<1> QED BY <1>2, <1>7, <1>8 DEF StackInv, MainScript, Script

LEMMA PopResolve ==
  ASSUME DataType, StackInv, Top.fn = "resolve", stack' = Popped,
         UNCHANGED <<map_count, map_array, defined, exc, rude>>
  PROVE  StackInv'
<1>0. PICK n : n = Len(stack) - 1
  OBVIOUS
<1>1. /\ n \in Nat /\ n >= 1 /\ Len(stack) = n + 1 /\ stack \in Seq(FrameType)
      /\ stack[1] = MainScript /\ stack[n].fn = "script"
      /\ \A k \in 1..(n + 1) : FrameInv(k)
  BY <1>0, TopFrame DEF StackInv
<1>2. /\ stack' \in Seq(FrameType) /\ stack' # <<>> /\ Len(stack') = n
      /\ \A k \in 1..n : stack'[k] = stack[k]
  BY <1>0, <1>1, PopShape
<1>3. Later
  BY SameIsLater
<1>4. ASSUME NEW k \in 1..(n - 1)
      PROVE  FrameInv(k)'
  <2>1. k \in 1..(Len(stack) - 1) /\ k \in 1..n /\ k + 1 \in 1..n /\ k < n
    BY <1>1
  <2> QED BY <1>1, <1>2, <1>3, <2>1, FrameKept
<1>5. FrameInv(n)'
  <2>1. n \in 1..(n + 1) /\ n \in 1..n
    BY <1>1
  <2>2. ScriptFrame(stack[n])
    BY <1>1, <2>1 DEF FrameInv
  <2>3. stack'[n] = stack[n]
    BY <1>2, <2>1
  <2> QED BY <1>1, <1>2, <2>2, <2>3, LastFrame
<1>6. \A k \in 1..n : k \in 1..(n - 1) \/ k = n
  BY <1>1
<1>7. \A k \in 1..Len(stack') : FrameInv(k)'
  BY <1>2, <1>4, <1>5, <1>6
<1>8. stack'[1] = MainScript
  BY <1>1, <1>2
<1> QED BY <1>2, <1>7, <1>8 DEF StackInv, MainScript, Script

-----------------------------------------------------------------------------
(***************************************************************************)
(* The maps.                                                               *)
(***************************************************************************)
\* A map that is added has an ID of its own.
LEMMA Added ==
  ASSUME ConstantsAssumption, DataType, NEW m \in Maps, NEW b \in BOOLEAN, array_add(m, b),
         UNCHANGED <<defined, rude>>
  PROVE  /\ Later
         /\ map_count' = map_count + 1
         /\ map_array' \in [0..(map_count' - 1) -> MntType \cup {NULL}]
         /\ \A id \in 0..(map_count - 1) : map_array'[id] = map_array[id]
         /\ \A id \in Int : Active(id) => Active(id)'
         /\ \A id \in Int : id = map_count => Active(id)' /\ map_array'[id].map = m
<1>1. Mnt(m, b) \in MntType /\ Mnt(m, b) # NULL /\ Mnt(m, b).map = m
  BY DEF Mnt, MntType, ConstantsAssumption
<1>2. /\ map_count \in Nat \ {0} /\ map_count' = map_count + 1
      /\ map_array \in [0..(map_count - 1) -> MntType \cup {NULL}]
      /\ map_array' = [id \in 0..map_count |->
                         IF id = map_count THEN Mnt(m, b) ELSE map_array[id]]
  BY DEF DataType, array_add
<1>3. map_count' - 1 = map_count /\ \A id \in 0..map_count : id # map_count => id \in 0..(map_count - 1)
  BY <1>2
<1>4. map_array' \in [0..(map_count' - 1) -> MntType \cup {NULL}]
  BY <1>1, <1>2, <1>3
<1>5. \A id \in 0..(map_count - 1) : map_array'[id] = map_array[id]
  BY <1>2
<1>6. \A id \in Int : Active(id) => Active(id)'
  BY <1>2, <1>5 DEF Active, IDs
<1>7. \A id \in Int : id = map_count => Active(id)' /\ map_array'[id].map = m
  BY <1>1, <1>2 DEF Active, IDs
<1>8. Later
  BY <1>2, <1>5, <1>6 DEF Later
<1> QED BY <1>2, <1>4, <1>5, <1>6, <1>7, <1>8

\* A map is unloaded, by its ID or with its package.
LEMMA Removed ==
  ASSUME DataType, NEW id, Active(id), map_array' = [map_array EXCEPT ![id] = NULL],
         UNCHANGED <<map_count, defined>>, rude \/ Pending(id) => rude'
  PROVE  /\ Later
         /\ map_array' \in [0..(map_count' - 1) -> MntType \cup {NULL}]
         /\ \A j \in Int : Active(j) /\ j # id => Active(j)'
<1>1. /\ map_count \in Nat \ {0} /\ map_count' = map_count /\ id \in 1..(map_count - 1)
      /\ map_array \in [0..(map_count - 1) -> MntType \cup {NULL}]
  BY DEF DataType, Active, IDs
<1>2. map_array' \in [0..(map_count' - 1) -> MntType \cup {NULL}]
  BY <1>1
<1>3. \A j \in 0..(map_count - 1) :
        map_array'[j] \in {map_array[j], NULL} /\ (j # id => map_array'[j] = map_array[j])
  BY <1>1
<1>4. \A j \in Int : Active(j) /\ j # id => Active(j)'
  BY <1>1, <1>3 DEF Active, IDs
<1> QED BY <1>1, <1>2, <1>3, <1>4 DEF Later

\* Packages keep their maps, or leave the table.
LEMMA MountedLater ==
  ASSUME DataType, Later, MountedMaps,
         \A p \in Packages :
           /\ mounted'[p] \in {mounted[p], NULL}
           /\ mounted'[p] \notin {0, NULL} /\ Active(mounted[p]) => Active(mounted[p])' \/ rude'
  PROVE  MountedMaps'
<1> SUFFICES ASSUME NEW p \in Packages
             PROVE  /\ mounted'[p] \in 0..(map_count' - 1) \cup {NULL}
                    /\ mounted'[p] \notin {0, NULL} =>
                         /\ Active(mounted[p])' \/ rude'
                         /\ Active(mounted[p])' => map_array'[mounted'[p]].map = MapOf[p]
                         /\ \A q \in Packages : mounted'[q] = mounted'[p] => q = p
  BY DEF MountedMaps
<1>1. mounted'[p] \in 0..(map_count' - 1) \cup {NULL}
  BY DEF MountedMaps, Later, DataType
<1> SUFFICES ASSUME mounted'[p] \notin {0, NULL}
             PROVE  /\ Active(mounted[p])' \/ rude'
                    /\ Active(mounted[p])' => map_array'[mounted'[p]].map = MapOf[p]
                    /\ \A q \in Packages : mounted'[q] = mounted'[p] => q = p
  BY <1>1
<1>2. PICK id : id = mounted[p] /\ mounted'[p] = id
  OBVIOUS
<1>3. /\ id \in 1..(map_count - 1)
      /\ Active(id) \/ rude
      /\ Active(id) => map_array[id].map = MapOf[p]
      /\ \A q \in Packages : mounted[q] = id => q = p
  BY <1>2 DEF MountedMaps, DataType
<1>4. ASSUME Active(id)'
      PROVE  Active(id) /\ map_array'[id] = map_array[id]
  BY <1>3, <1>4, ActiveLater
<1>5. Active(id)' \/ rude'
  BY <1>2, <1>3 DEF Later, Active
<1>6. Active(mounted[p])' <=> Active(id)'
  BY <1>2 DEF Active
<1> QED BY <1>2, <1>3, <1>4, <1>5, <1>6

\* Calls stop mounting, or go on with packages that stay in the table.
LEMMA MountingLater ==
  ASSUME MountingInv,
         \A k \in 1..Len(stack') : stack'[k].pc = "mounting" =>
           /\ k \in 1..Len(stack) /\ stack[k].pc = "mounting"
           /\ stack'[k].target = stack[k].target /\ mounted'[stack[k].target] # NULL
  PROVE  MountingInv'
BY DEF MountingInv

-----------------------------------------------------------------------------
(***************************************************************************)
(* The steps.                                                              *)
(***************************************************************************)
\* PHP code that leaves the stack alone.
LEMMA ScriptStep ==
  ASSUME IInv, DataType', Later, Top.fn = "script", UNCHANGED <<mounted, stack, fault>>,
         \A id \in Int : Active(id) => Active(id)' \/ rude'
  PROVE  IInv'
<1>1. StackInv'
  BY SameStack DEF IInv
<1>2. MountedMaps'
  <2>1. \A p \in Packages : mounted[p] \notin {0, NULL} => mounted[p] \in Int
    BY DEF IInv, DataType
  <2>2. \A p \in Packages :
           /\ mounted'[p] \in {mounted[p], NULL}
           /\ mounted'[p] \notin {0, NULL} /\ Active(mounted[p]) => Active(mounted[p])' \/ rude'
    BY <2>1 DEF Active
  <2> QED BY <2>2, MountedLater DEF IInv
<1>3. MountingInv'
  BY DEF IInv, MountingInv
<1>4. fault' => rude'
  BY DEF IInv, Later
<1> QED BY <1>1, <1>2, <1>3, <1>4 DEF IInv

\* A step of the resolution that is running, with the same maps.
LEMMA ReplaceStep ==
  ASSUME IInv, Top.fn = "resolve", NEW g \in FrameType, stack' = Replace(g),
         UNCHANGED <<maps, handlers, rude, fault>>,
         defined \subseteq defined', defined' \subseteq Symbols, exc' \in BOOLEAN,
         g.fn = "resolve", g.pc # "mounting", Resolving(g), exc' \/ Walk(g),
         g.pc \in {"script", "extension"} => Active(g.mp),
         g.pc = "success" => exc' \/ g.sym \in defined',
         g.pc = "return" => exc' \/ g.sym \in defined' \/ (g.status = FAILURE /\ ~g.exception)
  PROVE  IInv'
<1>1. DataType' /\ Later
  BY SameIsLater DEF IInv, DataType, maps, handlers
<1>2. Resolving(g)' /\ Running(g)'
  <2>1. UNCHANGED <<map_count, map_array, rude>>
    BY DEF maps
  <2>2. Resolving(g)'
    BY <2>1 DEF Resolving, Active, IDs
  <2>3. Walk(g) => Walk(g)'
    BY <2>1 DEF Walk, Absent, Active, IDs, Target, Provides
  <2> QED BY <2>1, <2>2, <2>3 DEF Running, Active, IDs
<1>3. StackInv'
  BY <1>1, <1>2, ReplaceTop DEF IInv
<1>4. MountedMaps'
  BY DEF IInv, MountedMaps, maps, Active, IDs
<1>5. MountingInv'
  <2>1. /\ Len(stack') = Len(stack) /\ stack'[Len(stack)] = g
        /\ \A k \in 1..(Len(stack) - 1) : stack'[k] = stack[k]
    BY ReplaceShape DEF IInv
  <2>2. \A k \in 1..Len(stack) : k \in 1..(Len(stack) - 1) \/ k = Len(stack)
    <3>1. Len(stack) \in Nat
      BY TopFrame DEF IInv
    <3> QED BY <3>1
  <2>3. \A k \in 1..Len(stack') : stack'[k].pc = "mounting" =>
           k \in 1..Len(stack) /\ stack'[k] = stack[k]
    BY <2>1, <2>2
  <2> QED BY <2>3, MountingLater DEF IInv, MountingInv, maps
<1>6. fault' => rude'
  BY DEF IInv
<1> QED BY <1>1, <1>3, <1>4, <1>5, <1>6 DEF IInv

LEMMA CalledFrames ==
  ASSUME IInv, NEW f \in FrameType, NEW g \in FrameType
  PROVE  /\ Len(Call(f, g)) = Len(stack) + 1
         /\ Call(f, g)[Len(stack)] = f /\ Call(f, g)[Len(stack) + 1] = g
         /\ \A k \in 1..(Len(stack) - 1) : Call(f, g)[k] = stack[k]
<1>1. StackInv
  BY DEF IInv
<1> QED BY <1>1, CallShape, Zenon

\* The resolution that is running calls PHP code.
LEMMA CallStep ==
  ASSUME IInv, Top.fn = "resolve", NEW g \in FrameType, NEW h \in FrameType,
         stack' = Call(g, h),
         UNCHANGED <<maps, defined, handlers, exc, rude, fault>>,
         g.fn = "resolve", g.pc # "mounting", Resolving(g), Waiting(g, h), ScriptFrame(h)
  PROVE  IInv'
<1>1. DataType' /\ Later
  BY SameIsLater DEF IInv, DataType, maps, handlers
<1>2. Resolving(g)' /\ Waiting(g, h)'
  <2>1. UNCHANGED <<map_count, map_array, rude>>
    BY DEF maps
  <2>2. Resolving(g)'
    BY <2>1 DEF Resolving, Active, IDs
  <2> QED BY <1>1, <2>2, WaitingLater DEF IInv
<1>3. StackInv'
  BY <1>1, <1>2, CallTop DEF IInv
<1>4. MountedMaps'
  BY DEF IInv, MountedMaps, maps, Active, IDs
<1>5. MountingInv'
  <2>1. /\ Len(stack') = Len(stack) + 1 /\ stack'[Len(stack)] = g /\ stack'[Len(stack) + 1] = h
        /\ \A k \in 1..(Len(stack) - 1) : stack'[k] = stack[k]
    BY CalledFrames
  <2>2. \A k \in 1..(Len(stack) + 1) :
           \/ k \in 1..(Len(stack) - 1) /\ k \in 1..Len(stack)
           \/ k = Len(stack)
           \/ k = Len(stack) + 1
    <3>1. Len(stack) \in Nat
      BY TopFrame DEF IInv
    <3> QED BY <3>1
  <2>3. h.pc # "mounting"
    BY DEF ScriptFrame, ScriptPcs
  <2>4. \A k \in 1..Len(stack') : stack'[k].pc = "mounting" =>
           k \in 1..Len(stack) /\ stack'[k] = stack[k]
    BY <2>1, <2>2, <2>3
  <2> QED BY <2>4, MountingLater DEF IInv, MountingInv, maps
<1>6. fault' => rude'
  BY DEF IInv
<1> QED BY <1>1, <1>3, <1>4, <1>5, <1>6 DEF IInv

\* A return.
LEMMA PopStep ==
  ASSUME IInv, Len(stack) > 1, stack' = Popped, StackInv',
         UNCHANGED <<maps, defined, handlers, exc, rude, fault>>
  PROVE  IInv'
<1>1. DataType'
  BY DEF IInv, DataType, maps, handlers
<1>2. MountedMaps'
  BY DEF IInv, MountedMaps, maps, Active, IDs
<1>3. MountingInv'
  <2>1. /\ Len(stack') = Len(stack) - 1
        /\ \A k \in 1..(Len(stack) - 1) : stack'[k] = stack[k]
    BY PopShape DEF IInv
  <2>2. \A k \in 1..(Len(stack) - 1) : k \in 1..Len(stack)
    <3>1. Len(stack) \in Nat
      BY TopFrame DEF IInv
    <3> QED BY <3>1
  <2>3. \A k \in 1..Len(stack') : k \in 1..Len(stack) /\ stack'[k] = stack[k]
    BY <2>1, <2>2
  <2> QED BY <2>3, MountingLater DEF IInv, MountingInv, maps
<1> QED BY <1>1, <1>2, <1>3 DEF IInv

\* A freed map is read, and the call stops there; or nothing changes.
LEMMA FaultStep ==
  ASSUME IInv, UNCHANGED <<maps, defined, handlers, stack, exc, rude>>,
         (rude /\ fault' = TRUE) \/ fault' = fault
  PROVE  IInv'
<1>1. DataType'
  BY DEF IInv, DataType, maps, handlers
<1>2. StackInv'
  <2>1. UNCHANGED <<map_count, map_array, defined, stack, exc, rude>>
    BY DEF maps
  <2>2. ASSUME NEW f
        PROVE  /\ Resolving(f) => Resolving(f)'
               /\ Walk(f) => Walk(f)'
               /\ f.pc \in {"script", "extension"} /\ Active(f.mp) => Active(f.mp)'
    <3>1. Resolving(f) => Resolving(f)'
      BY <2>1 DEF Resolving, Active, IDs
    <3>2. Walk(f) => Walk(f)'
      BY <2>1 DEF Walk, Absent, Active, IDs, Target, Provides
    <3> QED BY <2>1, <3>1, <3>2 DEF Active, IDs
  <2>3. ASSUME NEW f, NEW above
        PROVE  (Running(f) => Running(f)') /\ (Waiting(f, above) => Waiting(f, above)')
    BY <2>1, <2>2 DEF Running, Waiting
  <2>4. ASSUME NEW k \in 1..Len(stack)
        PROVE  FrameInv(k)'
    <3>1. PICK f, above : f = stack[k] /\ above = stack[k + 1]
      OBVIOUS
    <3>2. f = stack'[k] /\ above = stack'[k + 1] /\ Len(stack') = Len(stack)
      BY <2>1, <3>1
    <3>3. \/ ScriptFrame(f) /\ (k < Len(stack) => above.fn = "resolve")
          \/ /\ f.fn = "resolve" /\ Resolving(f)
             /\ k = Len(stack) => Running(f)
             /\ k < Len(stack) => above.fn = "script" /\ Waiting(f, above)
      BY <3>1 DEF IInv, StackInv, FrameInv
    <3>4. \/ ScriptFrame(f)' /\ (k < Len(stack) => above.fn = "resolve")
          \/ /\ f.fn = "resolve" /\ Resolving(f)'
             /\ k = Len(stack) => Running(f)'
             /\ k < Len(stack) => above.fn = "script" /\ Waiting(f, above)'
      BY <2>2, <2>3, <3>3 DEF ScriptFrame
    <3> QED BY <3>2, <3>4 DEF FrameInv
  <2>5. \A k \in 1..Len(stack') : FrameInv(k)'
    BY <2>1, <2>4
  <2> QED BY <2>1, <2>5 DEF IInv, StackInv, MainScript, Script
<1>3. MountedMaps' /\ MountingInv'
  BY DEF IInv, MountedMaps, MountingInv, maps, Active, IDs
<1> QED BY <1>1, <1>2, <1>3 DEF IInv

\* What Automap_Mnt_resolve_key() returns to is a walk, or the target of an entry.
LEMMA FoundTyped ==
  ASSUME ConstantsAssumption, DataType, NEW f \in FrameType, NEW id, Active(id),
         f.fn = "resolve", f.sym \in Symbols, f.i <= f.start, f.start <= map_count,
         f.status = SUCCESS, Target(id, f.sym) # NULL,
         Target(id, f.sym) \in Packages => f.i < f.start,
         NEW g, g = Found(f, id)
  PROVE  /\ g \in FrameType /\ g.fn = "resolve" /\ Resolving(g)
         /\ g.pc \in {"script", "extension", "package"} /\ Active(g.mp)
         /\ g.pc = "package" => Target(id, f.sym) \in Packages
         /\ g.target = Target(id, f.sym) /\ g.i = f.i /\ g.start = f.start /\ g.sym = f.sym
<1>1. PICK t : t = Target(id, f.sym)
  OBVIOUS
<1>2. id \in Nat /\ map_array[id] \in MntType /\ map_array[id].map \in Maps
  BY DEF DataType, Active, IDs, MntType
<1>3. t \in Targets /\ (t \in Scripts \cup Extensions => f.sym \in Defines[t])
  BY <1>1, <1>2 DEF ConstantsAssumption, Target
<1>4. /\ g = [f EXCEPT !.pc = EntryPc(t), !.mp = id, !.target = t]
      /\ EntryPc(t) \in {"script", "extension", "package"}
      /\ EntryPc(t) = "script" => t \in Scripts
      /\ EntryPc(t) = "extension" => t \in Extensions
      /\ EntryPc(t) = "package" => t \in Packages
  BY <1>1, <1>3 DEF Found, EntryPc, Targets
<1>5. g \in FrameType
  BY <1>2, <1>3, <1>4 DEF FrameType
<1>6. /\ g.fn = f.fn /\ g.pc = EntryPc(t) /\ g.target = t /\ g.sym = f.sym /\ g.i = f.i
      /\ g.start = f.start /\ g.mp = id /\ g.status = f.status
  BY <1>4 DEF FrameType
<1>7. Resolving(g)
  BY <1>1, <1>3, <1>4, <1>6 DEF Resolving, ResolvePcs
<1> QED BY <1>1, <1>4, <1>5, <1>6, <1>7

LEMMA FoundFrame ==
  ASSUME ConstantsAssumption, DataType, NEW f \in FrameType, NEW id, Active(id),
         f.fn = "resolve", f.sym \in Symbols, f.i <= f.start, f.start <= map_count,
         f.status = SUCCESS, Target(id, f.sym) # NULL,
         Target(id, f.sym) \in Packages =>
           /\ f.i < f.start
           /\ Absent(f, f.i + 1)
           /\ Active(f.i) /\ ~map_array[f.i].noAutoload /\ Provides(map_array[f.i].map, f.sym)
                => Target(f.i, f.sym) = Target(id, f.sym),
         NEW g, g = Found(f, id)
  PROVE  /\ g \in FrameType /\ g.fn = "resolve" /\ Resolving(g) /\ Walk(g)
         /\ g.pc \in {"script", "extension", "package"} /\ Active(g.mp)
<1>1. /\ g \in FrameType /\ g.fn = "resolve" /\ Resolving(g)
      /\ g.pc \in {"script", "extension", "package"} /\ Active(g.mp)
      /\ g.pc = "package" => Target(id, f.sym) \in Packages
      /\ g.target = Target(id, f.sym) /\ g.i = f.i /\ g.start = f.start /\ g.sym = f.sym
  BY FoundTyped
<1>2. Absent(f, f.i + 1) => Absent(g, g.i + 1)
  BY <1>1 DEF Absent
<1>3. Walk(g)
  BY <1>1, <1>2 DEF Walk
<1> QED BY <1>1, <1>3

LEMMA NotFoundFrame ==
  ASSUME NEW f \in FrameType, Resolving(f), f.fn = "resolve", f.pc # "return",
         NEW g, g = NotFound(f)
  PROVE  /\ g \in FrameType /\ g.fn = "resolve" /\ Resolving(g)
         /\ g.pc = "lookup" /\ g.i = f.i /\ g.start = f.start /\ g.sym = f.sym
         /\ Absent(f, f.i) => Walk(g)
<1>1. g = [f EXCEPT !.pc = "lookup", !.mp = 0, !.target = NULL]
  BY DEF NotFound
<1>2. g \in FrameType
  <2>1. PICK t : t = NULL /\ t \in Targets \cup {NULL}
    OBVIOUS
  <2>2. g = [f EXCEPT !.pc = "lookup", !.mp = 0, !.target = t] /\ 0 \in Nat
    BY <1>1, <2>1
  <2> QED BY <2>1, <2>2 DEF FrameType
<1>3. /\ g.fn = f.fn /\ g.pc = "lookup" /\ g.sym = f.sym /\ g.i = f.i /\ g.start = f.start
      /\ g.status = f.status
  BY <1>1 DEF FrameType
<1>4. Resolving(g)
  BY <1>3 DEF Resolving, ResolvePcs
<1>5. Absent(f, f.i) => Walk(g)
  BY <1>3 DEF Walk, Absent
<1> QED BY <1>2, <1>3, <1>4, <1>5

\* An exception takes a call back to its walk.
LEMMA ThrownStep ==
  ASSUME IInv, Top.fn = "resolve", Top.pc # "return", stack' = Replace(NotFound(Top)),
         exc' = TRUE, UNCHANGED <<maps, defined, handlers, rude, fault>>
  PROVE  IInv'
<1>1. PICK f, g : f = Top /\ g = NotFound(Top)
  OBVIOUS
<1>2. /\ f \in FrameType /\ Resolving(f) /\ f.fn = "resolve" /\ f.pc # "return"
      /\ g = NotFound(f)
  BY <1>1, TopFrame DEF IInv
<1>3. /\ g \in FrameType /\ g.fn = "resolve" /\ Resolving(g) /\ g.pc = "lookup"
  BY <1>2, NotFoundFrame
<1>4. stack' = Replace(g) /\ exc' \in BOOLEAN /\ defined' = defined /\ defined \subseteq Symbols
  BY <1>1 DEF IInv, DataType
<1> QED BY <1>3, <1>4, ReplaceStep

\* The package is mounted: the key is looked up in its map.
LEMMA PackageStep ==
  ASSUME ConstantsAssumption, IInv, Top.fn = "resolve", Top.pc \in {"package", "mounting"},
         ~exc, mounted[Top.target] # NULL, ResolveInPackage(mounted[Top.target], Top),
         UNCHANGED <<maps, defined, handlers, rude>>
  PROVE  IInv'
<1>1. PICK f, p, id : f = Top /\ p = f.target /\ id = mounted[p]
  OBVIOUS
<1>2. /\ f \in FrameType /\ Resolving(f) /\ Walk(f) /\ f.fn = "resolve"
      /\ f.pc \in {"package", "mounting"} /\ p \in Packages /\ f.i < f.start
      /\ f.sym \in Symbols /\ f.start <= map_count /\ f.status = SUCCESS
  BY <1>1, TopFrame DEF IInv, Running, Resolving
<1>3. /\ id \in 0..(map_count - 1)
      /\ id # 0 => Active(id) \/ rude
      /\ id # 0 => (Active(id) => map_array[id].map = MapOf[p])
  BY <1>1, <1>2 DEF IInv, MountedMaps
<1>4. CASE id = 0
  <2>1. exc' = TRUE /\ stack' = Replace(NotFound(Top)) /\ UNCHANGED fault
    BY <1>1, <1>4 DEF ResolveInPackage
  <2> QED BY <1>1, <1>2, <2>1, ThrownStep
<1>5. CASE id # 0 /\ ~Active(id)
  <2>1. fault' = TRUE /\ UNCHANGED <<stack, exc>> /\ rude
    BY <1>1, <1>3, <1>5 DEF ResolveInPackage
  <2> QED BY <2>1, FaultStep
<1>6. CASE id # 0 /\ Active(id)
  <2>1. /\ stack' = Replace(IF Target(id, f.sym) = NULL THEN NotFound(f) ELSE Found(f, id))
        /\ UNCHANGED <<exc, fault>>
    BY <1>1, <1>6 DEF ResolveInPackage
  <2>2. /\ Target(id, f.sym) = Entry[MapOf[p]][f.sym]
        /\ f.i \in Nat /\ f.start \in Nat /\ f.mp \in Nat /\ defined \subseteq Symbols
        /\ exc' \in BOOLEAN
    BY <1>2, <1>3, <1>6, <2>1 DEF Target, FrameType, IInv, DataType
  <2>3. MapOf[p] \in Maps
    BY <1>3, <1>6 DEF IInv, DataType, Active, IDs, MntType
  \* What the map that names the package provides is what the map of the package gives.
  <2>4. ASSUME Active(f.i), ~map_array[f.i].noAutoload, Provides(map_array[f.i].map, f.sym)
        PROVE  Entry[MapOf[p]][f.sym] \in Scripts \cup Extensions
    <3>1. Entry[map_array[f.i].map][f.sym] = p
      BY <1>1, <1>2, <2>4 DEF Walk, Target
    <3> QED BY <1>2, <2>4, <3>1 DEF Provides, ConstantsAssumption
  <2>5. CASE Target(id, f.sym) = NULL
    <3>1. PICK g : g = NotFound(f)
      OBVIOUS
    <3>2. stack' = Replace(g)
      BY <2>1, <2>5, <3>1
    <3>3. Absent(f, f.i)
      <4>1. \A j \in f.i..(f.start - 1) : j = f.i \/ j \in (f.i + 1)..(f.start - 1)
        <5>1. \A a, b \in Nat : \A j \in a..(b - 1) : j = a \/ j \in (a + 1)..(b - 1)
          OBVIOUS
        <5> QED BY <2>2, <5>1
      <4>2. Absent(f, f.i + 1)
        BY <1>2 DEF Walk
      <4>3. ~(/\ Active(f.i) /\ ~map_array[f.i].noAutoload
              /\ Provides(map_array[f.i].map, f.sym))
        BY <2>2, <2>4, <2>5 DEF ConstantsAssumption, Targets
      <4> QED BY <4>1, <4>2, <4>3 DEF Absent
    <3>4. /\ g \in FrameType /\ g.fn = "resolve" /\ Resolving(g) /\ g.pc = "lookup" /\ Walk(g)
      BY <1>2, <3>1, <3>3, NotFoundFrame
    <3> QED BY <2>1, <2>2, <3>2, <3>4, ReplaceStep
  <2>6. CASE Target(id, f.sym) # NULL
    <3>1. PICK g : g = Found(f, id)
      OBVIOUS
    <3>2. stack' = Replace(g)
      BY <2>1, <2>6, <3>1
    <3>3. Absent(f, f.i + 1)
      BY <1>2 DEF Walk
    <3>4. Target(id, f.sym) \in Packages =>
            ~(/\ Active(f.i) /\ ~map_array[f.i].noAutoload
              /\ Provides(map_array[f.i].map, f.sym))
      BY <2>2, <2>4 DEF ConstantsAssumption
    <3>5. /\ g \in FrameType /\ g.fn = "resolve" /\ Resolving(g) /\ Walk(g)
          /\ g.pc \in {"script", "extension", "package"} /\ Active(g.mp)
      <4>1. f.i <= f.start
        BY <1>2, <2>2
      <4> QED BY <1>2, <1>6, <2>6, <3>1, <3>3, <3>4, <4>1, FoundFrame DEF IInv
    <3> QED BY <2>1, <2>2, <3>2, <3>5, ReplaceStep
  <2> QED BY <2>5, <2>6
<1> QED BY <1>4, <1>5, <1>6

-----------------------------------------------------------------------------
(***************************************************************************)
(* One lemma per action: of PHP code, ...                                  *)
(***************************************************************************)
LEMMA InitStep == Init => IInv
<1> SUFFICES ASSUME Init PROVE IInv
  OBVIOUS
<1>1. DataType
  <2>1. 1 \in Nat \ {0} /\ \A id \in 0..(1 - 1) : id \in {0}
    OBVIOUS
  <2>2. {0} = 0..(1 - 1)
    OBVIOUS
  <2> QED BY <2>1, <2>2 DEF Init, DataType
<1>2. StackInv
  <2>1. /\ stack = <<MainScript>> /\ MainScript \in FrameType /\ ScriptFrame(MainScript)
    BY ConstantsAssumption, FrameTypes DEF Init
  <2>2. /\ stack \in Seq(FrameType) /\ stack # <<>> /\ Len(stack) = 1 /\ stack[1] = MainScript
    BY <2>1
  <2>3. \A k \in 1..Len(stack) : k = 1 /\ ~(k < Len(stack))
    BY <2>2
  <2>4. \A k \in 1..Len(stack) : FrameInv(k)
    BY <2>1, <2>2, <2>3 DEF FrameInv
  <2> QED BY <2>2, <2>4 DEF StackInv
<1>3. MountedMaps
  <2>1. \A p \in Packages : mounted[p] = NULL
    BY DEF Init
  <2> QED BY <2>1 DEF MountedMaps
<1>4. MountingInv
  <2>1. stack = <<MainScript>> /\ MainScript.pc # "mounting"
    BY DEF Init, MainScript, Script
  <2>2. \A k \in 1..Len(stack) : stack[k].pc # "mounting"
    BY <2>1
  <2> QED BY <2>2 DEF MountingInv
<1> QED BY <1>1, <1>2, <1>3, <1>4 DEF IInv, Init

LEMMA ResolveStepOK ==
  ASSUME ConstantsAssumption, IInv,
         NEW s \in Symbols, NEW autoload \in BOOLEAN, NEW exception \in BOOLEAN,
         Resolve(s, autoload, exception)
  PROVE  IInv'
<1>1. PICK g : g = Automap_resolve_symbol(s, autoload, exception)
  OBVIOUS
<1>2. /\ stack' = Append(stack, g) /\ Top.fn = "script"
      /\ UNCHANGED <<maps, defined, handlers, exc, rude, fault>>
  BY <1>1 DEF Resolve, MayCall, UserCode
<1>3. UNCHANGED <<map_count, map_array, mounted, defined, fh_count, sh_count, exc, rude, fault>>
  BY <1>2 DEF maps, handlers
<1>4. map_count \in Nat
  BY DEF IInv, DataType
<1>5. /\ g \in FrameType /\ g.fn = "resolve" /\ g.sym = s
      /\ g.i = map_count /\ g.start = map_count
      /\ \/ g.pc = "lookup" /\ g.status = SUCCESS
         \/ g.pc = "return" /\ g.status = 1 /\ s \in defined
  <2> DEFINE r == ResolveFrame(s, exception)
  <2>1. /\ r \in FrameType /\ r.fn = "resolve" /\ r.sym = s /\ r.i = map_count
        /\ r.start = map_count /\ r.pc = "lookup" /\ r.status = SUCCESS
    BY <1>4 DEF ResolveFrame, FrameType, SUCCESS
  <2> HIDE DEF r
  <2>2. \/ g = r
        \/ g = [r EXCEPT !.pc = "return", !.status = 1] /\ s \in defined
    BY <1>1 DEF Automap_resolve_symbol, Automap_symbol_is_defined, r
  <2>3. CASE g = r
    BY <2>1, <2>3
  <2>4. CASE g = [r EXCEPT !.pc = "return", !.status = 1] /\ s \in defined
    BY <2>1, <2>4 DEF FrameType
  <2> QED BY <2>2, <2>3, <2>4
<1>6. DataType' /\ Later
  BY <1>3, SameIsLater DEF IInv, DataType
<1>7. Resolving(g)'
  BY <1>3, <1>4, <1>5 DEF Resolving, ResolvePcs
<1>8. Running(g)'
  <2>1. map_count..(map_count - 1) = {}
    BY <1>4
  <2>2. g.pc = "lookup" => Absent(g, g.i)'
    BY <1>3, <1>5, <2>1 DEF Absent
  <2>3. Walk(g)'
    BY <1>5, <2>2 DEF Walk, SUCCESS, FAILURE
  <2> QED BY <1>3, <1>5, <2>3 DEF Running
<1>9. StackInv'
  BY <1>2, <1>5, <1>6, <1>7, <1>8, AppendResolve DEF IInv
<1>10. MountedMaps'
  BY <1>3 DEF IInv, MountedMaps, Active, IDs
<1>11. MountingInv'
  <2>1. /\ Len(stack') = Len(stack) + 1 /\ stack'[Len(stack) + 1] = g
        /\ \A k \in 1..Len(stack) : stack'[k] = stack[k]
    BY <1>2, <1>5, PushShape DEF IInv, StackInv
  <2>2. \A k \in 1..(Len(stack) + 1) : k \in 1..Len(stack) \/ k = Len(stack) + 1
    <3>1. Len(stack) \in Nat
      BY TopFrame DEF IInv
    <3> QED BY <3>1
  <2>3. \A k \in 1..Len(stack') : stack'[k].pc = "mounting" =>
           k \in 1..Len(stack) /\ stack'[k] = stack[k]
    BY <1>5, <2>1, <2>2
  <2> QED BY <1>3, <2>3, MountingLater DEF IInv, MountingInv
<1> QED BY <1>3, <1>6, <1>9, <1>10, <1>11 DEF IInv

LEMMA LoadStep ==
  ASSUME ConstantsAssumption, IInv, NEW m \in Files, NEW b \in BOOLEAN, Load(m, b)
  PROVE  IInv'
<1>1. m \in Maps /\ array_add(m, b) /\ Top.fn = "script"
  BY DEF ConstantsAssumption, Load, MayCall, UserCode
<1>2. UNCHANGED <<mounted, defined, fh_count, sh_count, stack, exc, rude, fault>>
  BY DEF Load, handlers
<1>3. /\ Later /\ map_count' = map_count + 1
      /\ map_array' \in [0..(map_count' - 1) -> MntType \cup {NULL}]
      /\ \A id \in Int : Active(id) => Active(id)'
  BY <1>1, <1>2, Added DEF IInv
<1>4. DataType'
  BY <1>2, <1>3 DEF IInv, DataType
<1> QED BY <1>1, <1>2, <1>3, <1>4, ScriptStep

LEMMA UnloadStep ==
  ASSUME ConstantsAssumption, IInv, NEW id \in 1..MaxMaps, Unload(id)
  PROVE  IInv'
<1>1. /\ Top.fn = "script"
      /\ UNCHANGED <<map_count, mounted, defined, fh_count, sh_count, stack, fault>>
  BY DEF Unload, MayCall, UserCode, handlers
<1>2. CASE Active(id)
  <2>1. /\ map_array' = [map_array EXCEPT ![id] = NULL] /\ UNCHANGED exc
        /\ rude' = (rude \/ Pending(id) \/ \E p \in Packages : mounted[p] = id)
    BY <1>2 DEF Unload
  <2>2. /\ Later /\ map_array' \in [0..(map_count' - 1) -> MntType \cup {NULL}]
        /\ \A j \in Int : Active(j) /\ j # id => Active(j)'
    BY <1>1, <1>2, <2>1, Removed DEF IInv
  <2>3. DataType'
    BY <1>1, <2>1, <2>2 DEF IInv, DataType
  <2>4. StackInv'
    BY <1>1, <2>2, SameStack DEF IInv
  <2>5. MountedMaps'
    <3>1. ASSUME NEW p \in Packages
          PROVE  /\ mounted'[p] \in {mounted[p], NULL}
                 /\ mounted'[p] \notin {0, NULL} /\ Active(mounted[p])
                      => Active(mounted[p])' \/ rude'
      <4>1. PICK j : j = mounted[p] /\ j = mounted'[p]
        BY <1>1
      <4>2. Active(j) => j \in Int
        BY DEF Active, IDs
      <4>3. Active(j) => Active(j)' \/ rude'
        BY <2>1, <2>2, <4>1, <4>2
      <4> QED BY <4>1, <4>3 DEF Active
    <3> QED BY <2>2, <3>1, MountedLater DEF IInv
  <2>6. MountingInv'
    BY <1>1 DEF IInv, MountingInv
  <2> QED BY <1>1, <2>1, <2>3, <2>4, <2>5, <2>6 DEF IInv
<1>3. CASE ~Active(id)
  <2>1. exc' = TRUE /\ UNCHANGED <<map_array, rude>>
    BY <1>3 DEF Unload
  <2>2. DataType' /\ Later
    BY <1>1, <2>1, SameIsLater DEF IInv, DataType
  <2>3. \A j \in Int : Active(j) => Active(j)'
    BY <1>1, <2>1 DEF Active, IDs
  <2> QED BY <1>1, <2>2, <2>3, ScriptStep
<1> QED BY <1>2, <1>3

LEMMA UmountStep ==
  ASSUME ConstantsAssumption, IInv, NEW p \in Packages, Umount(p)
  PROVE  IInv'
<1>1. /\ Top.fn = "script" /\ ~Mounting(p) /\ mounted[p] # NULL
      /\ mounted' = [mounted EXCEPT ![p] = NULL]
      /\ rude' = (rude \/ Pending(mounted[p]))
      /\ UNCHANGED <<map_count, defined, fh_count, sh_count, stack, fault>>
  BY DEF Umount, MayCall, UserCode, handlers
<1>2. PICK id : id = mounted[p]
  OBVIOUS
<1>3. /\ mounted \in [Packages -> Nat \cup {NULL}]
      /\ mounted' \in [Packages -> Nat \cup {NULL}] /\ mounted'[p] = NULL
      /\ \A q \in Packages : q # p => mounted'[q] = mounted[q]
  BY <1>1 DEF IInv, DataType
<1>4. /\ Later /\ map_array' \in [0..(map_count' - 1) -> MntType \cup {NULL}]
      /\ exc' \in BOOLEAN
      /\ \A j \in Int : Active(j) /\ j # id => Active(j)'
  <2>1. CASE Active(id)
    <3>1. map_array' = [map_array EXCEPT ![id] = NULL] /\ UNCHANGED exc
      BY <1>2, <2>1 DEF Umount
    <3>2. rude \/ Pending(id) => rude'
      BY <1>1, <1>2
    <3> QED BY <1>1, <2>1, <3>1, <3>2, Removed DEF IInv, DataType
  <2>2. CASE ~Active(id)
    <3>1. exc' \in BOOLEAN /\ UNCHANGED map_array
      BY <1>2, <2>2 DEF Umount
    <3>2. \A j \in Int : Active(j) => Active(j)'
      BY <1>1, <3>1 DEF Active, IDs
    <3>3. map_count' \in Nat /\ map_count <= map_count' /\ (rude => rude')
      BY <1>1 DEF IInv, DataType
    <3>4. Later
      BY <1>1, <3>1, <3>2, <3>3 DEF Later
    <3> QED BY <1>1, <3>1, <3>2, <3>4 DEF IInv, DataType
  <2> QED BY <2>1, <2>2
<1>5. DataType'
  <2>1. rude \in BOOLEAN /\ rude' \in BOOLEAN
    BY <1>1 DEF IInv, DataType, Pending
  <2> QED BY <1>1, <1>3, <1>4, <2>1 DEF IInv, DataType
<1>6. StackInv'
  BY <1>1, <1>4, SameStack DEF IInv
<1>7. MountedMaps'
  <2>1. ASSUME NEW q \in Packages
        PROVE  /\ mounted'[q] \in {mounted[q], NULL}
               /\ mounted'[q] \notin {0, NULL} /\ Active(mounted[q])
                    => Active(mounted[q])' \/ rude'
    <3>1. CASE q = p
      BY <1>3, <3>1
    <3>2. CASE q # p
      <4>1. PICK j : j = mounted[q] /\ j = mounted'[q]
        BY <1>3, <3>2
      <4>2. j \notin {0, NULL} => j # id
        BY <1>2, <3>2, <4>1 DEF IInv, MountedMaps
      <4>3. Active(j) => j \in Int
        BY DEF Active, IDs
      <4>4. j \notin {0, NULL} /\ Active(j) => Active(j)'
        BY <1>4, <4>2, <4>3
      <4> QED BY <4>1, <4>4 DEF Active
    <3> QED BY <3>1, <3>2
  <2> QED BY <1>4, <2>1, MountedLater DEF IInv
<1>8. MountingInv'
  <2>1. \A k \in 1..Len(stack) : stack[k].pc = "mounting" =>
           stack[k].target # p /\ stack[k].target \in Packages
    <3>1. \A k \in 1..Len(stack) : stack[k].pc = "mounting" => stack[k].target # p
      BY <1>1 DEF Mounting
    <3>2. \A k \in 1..Len(stack) : stack[k].pc = "mounting" => stack[k].target \in Packages
      BY DEF IInv, StackInv, FrameInv, ScriptFrame, ScriptPcs, Resolving
    <3> QED BY <3>1, <3>2
  <2>2. \A k \in 1..Len(stack') : stack'[k].pc = "mounting" =>
           /\ k \in 1..Len(stack) /\ stack[k].pc = "mounting"
           /\ stack'[k].target = stack[k].target /\ mounted'[stack[k].target] # NULL
    BY <1>1, <1>3, <2>1 DEF IInv, MountingInv
  <2> QED BY <2>2, MountingLater DEF IInv
<1> QED BY <1>1, <1>5, <1>6, <1>7, <1>8 DEF IInv

\* What PHP code does beside the maps.
LEMMA OtherScriptStep ==
  ASSUME ConstantsAssumption, IInv,
         RegisterFailureHandler \/ RegisterSuccessHandler \/ Define \/ Throw \/ Catch
  PROVE  IInv'
<1>1. Top.fn = "script"
  BY DEF RegisterFailureHandler, RegisterSuccessHandler, Define, Throw, Catch, MayCall, UserCode
<1>2. UNCHANGED <<map_count, map_array, mounted, stack, rude, fault>>
  BY DEF RegisterFailureHandler, RegisterSuccessHandler, Define, Throw, Catch, maps
<1>3. /\ defined \subseteq defined' /\ defined' \subseteq Symbols
      /\ fh_count' \in Nat /\ sh_count' \in Nat /\ exc' \in BOOLEAN
  <2>1. CASE Define
    <3>1. Top.target \in Scripts
      BY <1>1, <2>1, TopFrame DEF Define, IInv, ScriptFrame
    <3> QED BY <2>1, <3>1 DEF Define, handlers, ConstantsAssumption, IInv, DataType
  <2>2. CASE RegisterFailureHandler \/ RegisterSuccessHandler
    BY <2>2 DEF RegisterFailureHandler, RegisterSuccessHandler, IInv, DataType
  <2>3. CASE Throw \/ Catch
    BY <2>3 DEF Throw, Catch, handlers, IInv, DataType
  <2> QED BY <2>1, <2>2, <2>3
<1>4. DataType' /\ Later
  BY <1>2, <1>3, SameIsLater DEF IInv, DataType
<1>5. \A j \in Int : Active(j) => Active(j)'
  BY <1>2 DEF Active, IDs
<1> QED BY <1>1, <1>2, <1>4, <1>5, ScriptStep

LEMMA ScriptReturnStep ==
  ASSUME IInv, ScriptReturn
  PROVE  IInv'
<1>1. /\ Top.fn = "script" /\ Top.pc # "main" /\ stack' = Popped
      /\ Top.pc = "script" => exc \/ Defines[Top.target] \subseteq defined
      /\ UNCHANGED <<maps, defined, handlers, exc, rude, fault>>
  BY DEF ScriptReturn
<1>2. Len(stack) > 1
  BY <1>1, NotAlone DEF IInv
<1>3. StackInv'
  BY <1>1, <1>2, PopScript DEF IInv, maps
<1> QED BY <1>1, <1>2, <1>3, PopStep

\* The next request begins as the first one did.
LEMMA RShutdownStep ==
  ASSUME IInv, RShutdown
  PROVE  IInv'
<1>1. Init'
  BY DEF RShutdown, Init, IInv, DataType
<1>2. Init' => IInv'
  BY InitStep, PTL
<1> QED BY <1>1, <1>2

-----------------------------------------------------------------------------
(***************************************************************************)
(* ... of Automap_resolve_symbol() ...                                     *)
(***************************************************************************)
LEMMA LookupStep ==
  ASSUME ConstantsAssumption, IInv, Lookup
  PROVE  IInv'
<1>1. PICK f : f = Top
  OBVIOUS
<1>2. /\ Top.fn = "resolve" /\ f.fn = "resolve" /\ f.pc = "lookup"
      /\ UNCHANGED <<maps, defined, handlers, exc, rude, fault>>
  BY <1>1 DEF Lookup, At
<1>3. /\ f \in FrameType /\ Resolving(f) /\ Running(f) /\ f.i \in Nat /\ f.start \in Nat
      /\ f.sym \in Symbols /\ f.i <= f.start /\ f.start <= map_count /\ f.status = SUCCESS
  BY <1>1, <1>2, TopFrame DEF IInv, FrameType, Resolving
<1>4. exc' \in BOOLEAN /\ defined' = defined /\ defined \subseteq Symbols
  BY <1>2 DEF IInv, DataType
<1>5. exc \/ Absent(f, f.i)
  BY <1>2, <1>3 DEF Running, Walk
\* The maps that the walk leaves behind do not have the symbol.
<1>6. ASSUME NEW n \in Nat, n >= 1, \A id \in Candidates(f) : id < n
      PROVE  exc \/ Absent(f, n)
  <2> SUFFICES ASSUME ~exc, NEW id \in n..(f.start - 1), Active(id),
                      ~map_array[id].noAutoload
               PROVE  ~Provides(map_array[id].map, f.sym)
    BY DEF Absent
  <2>1. CASE id >= f.i
    <3>1. id \in f.i..(f.start - 1)
      BY <1>3, <2>1
    <3> QED BY <1>5, <3>1 DEF Absent
  <2>2. CASE id < f.i
    <3>1. id \in 1..(f.i - 1)
      BY <1>3, <1>6, <2>2
    <3>2. id \notin Candidates(f)
      BY <1>6
    <3>3. Target(id, f.sym) = NULL
      BY <3>1, <3>2 DEF Candidates
    <3> QED BY <3>3 DEF Provides, Target, ConstantsAssumption, Targets
  <2> QED BY <1>3, <2>1, <2>2
<1>7. CASE Candidates(f) = {}
  <2>1. PICK z : z = 0 /\ z \in Nat
    OBVIOUS
  <2>2. PICK g : g = [f EXCEPT !.pc = "failure", !.i = z]
    OBVIOUS
  <2>3. stack' = Replace(g)
    BY <1>1, <1>7, <2>1, <2>2 DEF Lookup
  <2>4. /\ g \in FrameType /\ g.fn = "resolve" /\ g.pc = "failure" /\ g.i = 0
        /\ g.start = f.start /\ g.sym = f.sym /\ g.status = f.status
    BY <1>2, <1>3, <2>1, <2>2 DEF FrameType
  <2>5. Resolving(g)
    BY <1>3, <2>4 DEF Resolving, ResolvePcs
  <2>6. exc \/ Absent(f, 1)
    BY <1>6, <1>7
  <2>7. exc' \/ Walk(g)
    BY <1>2, <2>4, <2>6 DEF Walk, Absent
  <2> QED BY <1>2, <1>4, <2>3, <2>4, <2>5, <2>7, ReplaceStep
<1>8. CASE Candidates(f) # {}
  <2>1. PICK id \in Candidates(f) :
          /\ \A j \in Candidates(f) : j <= id
          /\ stack' = Replace(Found([f EXCEPT !.i = id], id))
    BY <1>1, <1>8 DEF Lookup
  <2>2. /\ id \in 1..(f.i - 1) /\ Active(id) /\ ~map_array[id].noAutoload
        /\ Target(id, f.sym) # NULL /\ id \in Nat
    BY <1>3, <2>1 DEF Candidates
  <2>3. PICK e : e = [f EXCEPT !.i = id]
    OBVIOUS
  <2>4. /\ e \in FrameType /\ e.fn = "resolve" /\ e.sym = f.sym /\ e.i = id
        /\ e.start = f.start /\ e.status = SUCCESS
    BY <1>2, <1>3, <2>2, <2>3 DEF FrameType
  <2>5. id < f.start /\ id <= f.start /\ id + 1 \in Nat /\ id + 1 >= 1
    BY <1>3, <2>2
  <2>6. \A j \in Candidates(f) : j < id + 1
    BY <1>3, <2>1, <2>2 DEF Candidates
  <2>7. exc \/ Absent(e, e.i + 1)
    BY <1>6, <2>4, <2>5, <2>6 DEF Absent
  <2>8. PICK g : g = Found(e, id)
    OBVIOUS
  <2>9. stack' = Replace(g)
    BY <2>1, <2>3, <2>8
  <2>10. CASE ~exc
    <3>1. /\ g \in FrameType /\ g.fn = "resolve" /\ Resolving(g) /\ Walk(g)
          /\ g.pc \in {"script", "extension", "package"} /\ Active(g.mp)
      BY <1>3, <2>2, <2>4, <2>5, <2>7, <2>8, <2>10, FoundFrame DEF IInv
    <3> QED BY <1>2, <1>4, <2>9, <3>1, ReplaceStep
  <2>11. CASE exc
    <3>1. /\ g \in FrameType /\ g.fn = "resolve" /\ Resolving(g)
          /\ g.pc \in {"script", "extension", "package"} /\ Active(g.mp)
      BY <1>3, <2>2, <2>4, <2>5, <2>8, FoundTyped DEF IInv
    <3> QED BY <1>2, <1>4, <2>9, <2>11, <3>1, ReplaceStep
  <2> QED BY <2>10, <2>11
<1> QED BY <1>7, <1>8

LEMMA HandlerStep ==
  ASSUME ConstantsAssumption, IInv, FailureHandler \/ (SuccessHandler /\ UNCHANGED fault)
  PROVE  IInv'
<1>1. PICK f, g, h : /\ f = Top /\ g = [Top EXCEPT !.h = @ + 1]
                     /\ h = Script("handler", NULL)
  OBVIOUS
<1>2. /\ Top.fn = "resolve" /\ f.fn = "resolve" /\ ~exc
      /\ f.pc = "failure" \/ f.pc = "success"
  BY <1>1 DEF FailureHandler, SuccessHandler, At
<1>3. f \in FrameType /\ Resolving(f) /\ Running(f)
  BY <1>1, <1>2, TopFrame DEF IInv
<1>4. /\ g \in FrameType /\ g.fn = "resolve" /\ g.pc = f.pc /\ g.sym = f.sym /\ g.i = f.i
      /\ g.start = f.start /\ g.status = f.status /\ g.h # 0
  BY <1>1, <1>2, <1>3 DEF FrameType
<1>5. h \in FrameType /\ ScriptFrame(h)
  BY <1>1, FrameTypes DEF ScriptFrame, ScriptPcs
<1>6. CASE FailureHandler
  <2>1. /\ stack' = Call(g, h) /\ UNCHANGED <<maps, defined, handlers, exc, rude, fault>>
        /\ f.pc = "failure"
    BY <1>1, <1>6 DEF FailureHandler, At
  <2>2. Resolving(g) /\ Waiting(g, h)
    BY <1>2, <1>3, <1>4, <2>1 DEF Resolving, Running, Waiting, Walk, Absent
  <2> QED BY <1>2, <1>4, <1>5, <2>1, <2>2, CallStep
<1>7. CASE SuccessHandler /\ UNCHANGED fault
  <2>1. f.pc = "success" /\ fault = FALSE
    BY <1>1, <1>7 DEF SuccessHandler, At, IInv, DataType
  <2>2. /\ stack' = Call(g, h) /\ UNCHANGED <<maps, defined, handlers, exc, rude, fault>>
    BY <1>1, <1>7, <2>1 DEF SuccessHandler
  <2>3. Resolving(g) /\ Waiting(g, h)
    BY <1>2, <1>3, <1>4, <2>1 DEF Resolving, Running, Waiting, Walk, Absent
  <2> QED BY <1>2, <1>4, <1>5, <2>1, <2>2, <2>3, CallStep
<1> QED BY <1>6, <1>7

LEMMA FailStep ==
  ASSUME IInv, Fail
  PROVE  IInv'
<1>1. PICK f, g : f = Top /\ g = [Top EXCEPT !.pc = "return", !.status = FAILURE]
  OBVIOUS
<1>2. /\ Top.fn = "resolve" /\ f.fn = "resolve" /\ f.pc = "failure" /\ stack' = Replace(g)
      /\ exc' = (exc \/ f.exception) /\ UNCHANGED <<maps, defined, handlers, rude, fault>>
  BY <1>1 DEF Fail, At
<1>3. f \in FrameType /\ Resolving(f) /\ Running(f)
  BY <1>1, <1>2, TopFrame DEF IInv
<1>4. /\ g \in FrameType /\ g.fn = "resolve" /\ g.pc = "return" /\ g.sym = f.sym /\ g.i = f.i
      /\ g.start = f.start /\ g.status = FAILURE /\ g.exception = f.exception
  BY <1>1, <1>2, <1>3 DEF FrameType
<1>5. Resolving(g)
  BY <1>3, <1>4 DEF Resolving, ResolvePcs
<1>6. exc' \/ Walk(g)
  BY <1>2, <1>3, <1>4 DEF Running, Walk, Absent
<1>7. exc' \in BOOLEAN /\ defined' = defined /\ defined \subseteq Symbols
  BY <1>2, <1>3 DEF IInv, DataType, FrameType
<1>8. exc' \/ ~g.exception
  BY <1>2, <1>4
<1> QED BY <1>2, <1>4, <1>5, <1>6, <1>7, <1>8, ReplaceStep

LEMMA ReturnStep ==
  ASSUME IInv, Return
  PROVE  IInv'
<1>1. /\ Top.fn = "resolve" /\ stack' = Popped
      /\ UNCHANGED <<maps, defined, handlers, exc, rude, fault>>
  BY DEF Return, At
<1>2. Len(stack) > 1
  BY <1>1, TopFrame DEF IInv
<1>3. StackInv'
  BY <1>1, PopResolve DEF IInv, maps
<1> QED BY <1>1, <1>2, <1>3, PopStep

LEMMA SuccessFaultStep ==
  ASSUME IInv, SuccessHandler \/ Succeed, ~UNCHANGED fault
  PROVE  IInv'
<1>1. /\ Top.fn = "resolve" /\ Top.pc = "success" /\ Top.h = 0 /\ ~Active(Top.mp)
      /\ fault' = TRUE /\ UNCHANGED <<maps, defined, handlers, stack, exc, rude>>
  BY DEF SuccessHandler, Succeed, At
<1>2. rude
  BY <1>1, TopFrame DEF IInv, Resolving
<1> QED BY <1>1, <1>2, FaultStep

LEMMA SucceedStep ==
  ASSUME IInv, Succeed, UNCHANGED fault
  PROVE  IInv'
<1>1. PICK f, g : f = Top /\ g = [Top EXCEPT !.pc = "return"]
  OBVIOUS
<1>2. /\ Top.fn = "resolve" /\ f.fn = "resolve" /\ f.pc = "success" /\ fault = FALSE
      /\ UNCHANGED <<maps, defined, handlers, exc, rude, fault>>
  BY <1>1 DEF Succeed, At, IInv, DataType
<1>3. stack' = Replace(g)
  BY <1>1, <1>2 DEF Succeed
<1>4. f \in FrameType /\ Resolving(f) /\ Running(f)
  BY <1>1, <1>2, TopFrame DEF IInv
<1>5. /\ g \in FrameType /\ g.fn = "resolve" /\ g.pc = "return" /\ g.sym = f.sym /\ g.i = f.i
      /\ g.start = f.start /\ g.status = f.status
  BY <1>1, <1>2, <1>4 DEF FrameType
<1>6. f.status = SUCCESS /\ (exc \/ f.sym \in defined)
  BY <1>2, <1>4 DEF Resolving, Running
<1>7. Resolving(g)
  BY <1>4, <1>5 DEF Resolving, ResolvePcs
<1>8. Walk(g)
  BY <1>5, <1>6 DEF Walk, SUCCESS, FAILURE
<1>9. exc' \in BOOLEAN /\ defined' = defined /\ defined \subseteq Symbols
  BY <1>2 DEF IInv, DataType
<1>10. exc' \/ g.sym \in defined'
  BY <1>2, <1>5, <1>6
<1> QED BY <1>2, <1>3, <1>5, <1>7, <1>8, <1>9, <1>10, ReplaceStep

-----------------------------------------------------------------------------
(***************************************************************************)
(* ... and of Automap_Mnt_resolve_key().                                   *)
(***************************************************************************)
\* A frame that goes on to its success.
LEMMA SuccessFrame ==
  ASSUME DataType, NEW f \in FrameType, f.fn = "resolve", Resolving(f), Running(f),
         f.pc \in {"script", "extension"},
         NEW g, g = [f EXCEPT !.pc = "success"]
  PROVE  /\ g \in FrameType /\ g.fn = "resolve" /\ g.pc = "success" /\ g.sym = f.sym
         /\ g.target = f.target /\ Resolving(g) /\ Walk(g)
<1>1. /\ g \in FrameType /\ g.fn = "resolve" /\ g.pc = "success" /\ g.sym = f.sym
      /\ g.target = f.target /\ g.i = f.i /\ g.start = f.start /\ g.mp = f.mp
      /\ g.status = f.status
  BY DEF FrameType
<1>2. Resolving(g)
  BY <1>1 DEF Resolving, ResolvePcs, Running
<1>3. Walk(g)
  BY <1>1 DEF Walk
<1> QED BY <1>1, <1>2, <1>3

LEMMA LoadExtensionStep ==
  ASSUME ConstantsAssumption, IInv, LoadExtension
  PROVE  IInv'
<1>1. PICK f, g : f = Top /\ g = [Top EXCEPT !.pc = "success"]
  OBVIOUS
<1>2. /\ Top.fn = "resolve" /\ f.fn = "resolve" /\ f.pc = "extension"
      /\ UNCHANGED <<maps, handlers, rude, fault>>
  BY <1>1 DEF LoadExtension, At
<1>3. f \in FrameType /\ Resolving(f) /\ Running(f)
  BY <1>1, <1>2, TopFrame DEF IInv
<1>4. CASE exc' = TRUE /\ stack' = Replace(NotFound(Top)) /\ UNCHANGED defined
  <2>1. Top.pc # "return"
    BY <1>1, <1>2
  <2> QED BY <1>2, <1>4, <2>1, ThrownStep
<1>5. CASE /\ ~exc
           /\ defined' = defined \cup Defines[Top.target]
           /\ stack' = Replace([Top EXCEPT !.pc = "success"])
           /\ UNCHANGED exc
  <2>1. /\ g \in FrameType /\ g.fn = "resolve" /\ g.pc = "success" /\ g.sym = f.sym
        /\ Resolving(g) /\ Walk(g)
    BY <1>1, <1>2, <1>3, SuccessFrame DEF IInv
  <2>2. f.target \in Extensions /\ f.sym \in Defines[f.target]
    BY <1>2, <1>3 DEF Resolving
  <2>3. /\ defined \subseteq defined' /\ defined' \subseteq Symbols /\ exc' \in BOOLEAN
        /\ f.sym \in defined'
    BY <1>1, <1>5, <2>2 DEF ConstantsAssumption, IInv, DataType
  <2>4. stack' = Replace(g)
    BY <1>1, <1>5
  <2> QED BY <1>2, <2>1, <2>3, <2>4, ReplaceStep
<1> QED BY <1>4, <1>5 DEF LoadExtension

LEMMA RequireScriptStep ==
  ASSUME ConstantsAssumption, IInv, RequireScript
  PROVE  IInv'
<1>1. PICK f, g, h : /\ f = Top /\ g = [Top EXCEPT !.pc = "success"]
                     /\ h = Script("script", Top.target)
  OBVIOUS
<1>2. /\ Top.fn = "resolve" /\ f.fn = "resolve" /\ f.pc = "script"
      /\ stack' = IF exc THEN Replace(g) ELSE Call(g, h)
      /\ UNCHANGED <<maps, defined, handlers, exc, rude, fault>>
  BY <1>1 DEF RequireScript, At
<1>3. f \in FrameType /\ Resolving(f) /\ Running(f)
  BY <1>1, <1>2, TopFrame DEF IInv
<1>4. /\ g \in FrameType /\ g.fn = "resolve" /\ g.pc = "success" /\ g.sym = f.sym
      /\ Resolving(g) /\ Walk(g)
  BY <1>1, <1>2, <1>3, SuccessFrame DEF IInv
<1>5. exc' \in BOOLEAN /\ defined' = defined /\ defined \subseteq Symbols
  BY <1>2 DEF IInv, DataType
<1>6. CASE exc
  <2>1. stack' = Replace(g) /\ exc'
    BY <1>2, <1>6
  <2> QED BY <1>2, <1>4, <1>5, <2>1, ReplaceStep
<1>7. CASE ~exc
  <2>1. stack' = Call(g, h)
    BY <1>2, <1>7
  <2>2. f.target \in Scripts /\ f.sym \in Defines[f.target]
    BY <1>2, <1>3 DEF Resolving
  <2>3. /\ h \in FrameType /\ h.fn = "script" /\ h.pc = "script" /\ h.target = f.target
    BY <1>1, <2>2, FrameTypes DEF ScriptPcs, Targets
  <2>4. ScriptFrame(h) /\ Waiting(g, h)
    BY <1>4, <2>2, <2>3 DEF ScriptFrame, ScriptPcs, Waiting
  <2> QED BY <1>2, <1>4, <2>1, <2>3, <2>4, CallStep
<1> QED BY <1>6, <1>7

LEMMA MountPackageFailsStep ==
  ASSUME IInv, MountPackageFails
  PROVE  IInv'
BY ThrownStep DEF MountPackageFails, At

LEMMA MountedPackageStep ==
  ASSUME ConstantsAssumption, IInv, MountedPackage
  PROVE  IInv'
BY PackageStep DEF MountedPackage, At

LEMMA MountPackageStep ==
  ASSUME ConstantsAssumption, IInv, MountPackage
  PROVE  IInv'
<1>1. PICK f, p, zero : f = Top /\ p = f.target /\ zero = 0 /\ zero \in Nat
  OBVIOUS
<1>2. PICK g, h : g = [f EXCEPT !.pc = "mounting", !.mp = zero] /\ h = Script("mount", p)
  OBVIOUS
<1>3. /\ Top.fn = "resolve" /\ f.fn = "resolve" /\ f.pc = "package" /\ ~exc
      /\ mounted[p] = NULL /\ stack' = Call(g, h)
      /\ UNCHANGED <<defined, fh_count, sh_count, exc, rude, fault>>
  BY <1>1, <1>2 DEF MountPackage, At, handlers
<1>4. /\ f \in FrameType /\ Resolving(f) /\ Running(f) /\ p \in Packages
      /\ p \in Targets \cup {NULL}
  BY <1>1, <1>3, TopFrame DEF IInv, Resolving, Targets
<1>5. /\ g \in FrameType /\ g.fn = "resolve" /\ g.pc = "mounting" /\ g.target = p
      /\ g.sym = f.sym /\ g.i = f.i /\ g.start = f.start /\ g.status = f.status
  BY ZenonT(60), <1>1, <1>2, <1>3, <1>4 DEF FrameType
<1>6. h \in FrameType /\ ScriptFrame(h) /\ h.pc = "mount"
  BY <1>2, <1>4, FrameTypes DEF ScriptFrame, ScriptPcs
<1>7. /\ Later /\ map_count' \in Nat \ {0} /\ map_count \in Nat /\ map_count <= map_count'
      /\ map_array' \in [0..(map_count' - 1) -> MntType \cup {NULL}]
      /\ mounted' \in [Packages -> Nat \cup {NULL}]
      /\ mounted'[p] \in 0..(map_count' - 1)
      /\ \A q \in Packages : q # p => mounted'[q] = mounted[q]
      /\ \A id \in Int : Active(id) => Active(id)'
      /\ mounted'[p] # 0 =>
           /\ mounted'[p] = map_count
           /\ \A id \in Int : id = map_count => Active(id)' /\ map_array'[id].map = MapOf[p]
  <2>1. /\ map_count \in Nat \ {0} /\ mounted \in [Packages -> Nat \cup {NULL}]
        /\ map_array \in [0..(map_count - 1) -> MntType \cup {NULL}]
    BY DEF IInv, DataType
  <2>2. CASE MapOf[p] = NULL
    <3>1. mounted' = [mounted EXCEPT ![p] = 0] /\ UNCHANGED <<map_count, map_array>>
      BY <1>1, <2>2 DEF MountPackage
    <3>2. Later
      BY <1>3, <3>1, SameIsLater DEF IInv
    <3>3. \A id \in Int : Active(id) => Active(id)'
      BY <3>1 DEF Active, IDs
    <3>4. /\ mounted' \in [Packages -> Nat \cup {NULL}] /\ mounted'[p] = 0
          /\ \A q \in Packages : q # p => mounted'[q] = mounted[q]
      BY <1>4, <2>1, <3>1
    <3> QED BY <2>1, <3>1, <3>2, <3>3, <3>4
  <2>3. CASE MapOf[p] # NULL
    <3>1. mounted' = [mounted EXCEPT ![p] = map_count] /\ array_add(MapOf[p], FALSE)
      BY <1>1, <2>3 DEF MountPackage
    <3>2. MapOf[p] \in Maps
      BY <1>4, <2>3 DEF ConstantsAssumption
    <3>3. /\ Later /\ map_count' = map_count + 1
          /\ map_array' \in [0..(map_count' - 1) -> MntType \cup {NULL}]
          /\ \A id \in Int : Active(id) => Active(id)'
          /\ \A id \in Int : id = map_count => Active(id)' /\ map_array'[id].map = MapOf[p]
      BY <1>3, <3>1, <3>2, Added DEF IInv
    <3>4. /\ mounted' \in [Packages -> Nat \cup {NULL}] /\ mounted'[p] = map_count
          /\ \A q \in Packages : q # p => mounted'[q] = mounted[q]
      BY <1>4, <2>1, <3>1
    <3> QED BY <2>1, <3>3, <3>4
  <2> QED BY <2>2, <2>3
<1>8. DataType'
  BY <1>3, <1>7 DEF IInv, DataType
<1>9. StackInv'
  <2>1. Resolving(g)
    BY <1>3, <1>4, <1>5 DEF Resolving, ResolvePcs
  <2>2. Walk(g) /\ Waiting(g, h)
    BY <1>1, <1>3, <1>4, <1>5 DEF Running, Walk, Absent, Waiting
  <2>3. g.start <= map_count'
    BY <1>5, <1>7, <2>1 DEF FrameType, Resolving, Later, IInv, DataType
  <2>4. Resolving(g)'
    BY <1>5, <2>1, <2>3 DEF Resolving
  <2>5. Waiting(g, h)'
    BY <1>5, <1>7, <2>1, <2>2, WaitingLater DEF IInv
  <2> QED BY <1>3, <1>5, <1>6, <1>7, <2>4, <2>5, CallTop DEF IInv
<1>10. MountedMaps'
  <2> SUFFICES ASSUME NEW q \in Packages
               PROVE  /\ mounted'[q] \in 0..(map_count' - 1) \cup {NULL}
                      /\ mounted'[q] \notin {0, NULL} =>
                           /\ Active(mounted[q])' \/ rude'
                           /\ Active(mounted[q])' => map_array'[mounted'[q]].map = MapOf[q]
                           /\ \A r \in Packages : mounted'[r] = mounted'[q] => r = q
    BY DEF MountedMaps
  \* The ID of the new map is no package's.
  <2>1. \A r \in Packages : mounted[r] # map_count
    BY DEF IInv, MountedMaps, DataType, ConstantsAssumption
  <2>2. CASE q = p
    <3>1. mounted'[p] # 0 => Active(mounted[p])' /\ map_array'[mounted'[p]].map = MapOf[p]
      <4>1. PICK id : id = mounted'[p]
        OBVIOUS
      <4>2. id # 0 => Active(id)' /\ map_array'[id].map = MapOf[p]
        <5>1. map_count \in Int
          BY <1>7
        <5> QED BY <1>7, <4>1, <5>1
      <4> QED BY <4>1, <4>2 DEF Active
    <3>2. mounted'[p] # 0 => \A r \in Packages : mounted'[r] = mounted'[p] => r = p
      BY <1>7, <2>1
    <3> QED BY <1>7, <2>2, <3>1, <3>2
  <2>3. CASE q # p
    <3>1. PICK id : id = mounted[q] /\ id = mounted'[q]
      BY <1>7, <2>3
    <3>2. id \in 0..(map_count - 1) \cup {NULL} /\ map_count \in Nat
      BY ZenonT(60), <3>1 DEF IInv, MountedMaps, DataType
    <3>3. id \in 0..(map_count' - 1) \cup {NULL}
      <4>1. map_count' \in Nat /\ map_count <= map_count'
        BY <1>7
      <4>2. CASE id = NULL
        BY <4>2
      <4>3. CASE id \in 0..(map_count - 1)
        <5>1. \A a, b \in Nat : a <= b => \A i \in 0..(a - 1) : i \in 0..(b - 1)
          OBVIOUS
        <5> QED BY <3>2, <4>1, <4>3, <5>1
      <4> QED BY <3>2, <4>2, <4>3
    <3>4. ASSUME id \notin {0, NULL}
          PROVE  /\ Active(id)' \/ rude'
                 /\ Active(id)' => map_array'[id].map = MapOf[q]
                 /\ \A r \in Packages : mounted'[r] = id => r = q
      <4>1. /\ Active(id) \/ rude
            /\ Active(id) => map_array[id].map = MapOf[q]
            /\ \A r \in Packages : mounted[r] = id => r = q
            /\ id \in 1..(map_count - 1)
        <5>1. id \in 1..(map_count - 1)
          BY <3>2, <3>4
        <5>2. /\ Active(mounted[q]) \/ rude
              /\ Active(mounted[q]) => map_array[mounted[q]].map = MapOf[q]
              /\ \A r \in Packages : mounted[r] = mounted[q] => r = q
          BY <3>1, <3>4 DEF IInv, MountedMaps
        <5> QED BY <3>1, <5>1, <5>2
      <4>2. Active(id)' \/ rude'
        BY <1>3, <1>7, <3>2, <3>4, <4>1
      <4>3. ASSUME Active(id)'
            PROVE  map_array'[id].map = MapOf[q]
        BY <1>7, <4>1, <4>3, ActiveLater DEF IInv
      <4>4. mounted'[p] # id
        BY <1>7, <3>1, <3>4, <2>1
      <4>5. \A r \in Packages : mounted'[r] = id => r = q
        BY <1>7, <4>1, <4>4
      <4> QED BY <4>2, <4>3, <4>5
    <3> QED BY <3>1, <3>3, <3>4 DEF Active
  <2> QED BY <2>2, <2>3
<1>11. MountingInv'
  <2>1. PICK n : n = Len(stack) /\ n \in Nat \ {0} /\ stack[n] = f
    BY <1>1, TopFrame DEF IInv
  <2>2. PICK c : c = Call(g, h)
    OBVIOUS
  <2>3. /\ Len(c) = n + 1 /\ c[n] = g /\ c[n + 1] = h
        /\ \A k \in 1..(n - 1) : c[k] = stack[k]
    <3>2. /\ Len(Call(g, h)) = Len(stack) + 1
          /\ Call(g, h)[Len(stack)] = g /\ Call(g, h)[Len(stack) + 1] = h
          /\ \A k \in 1..(Len(stack) - 1) : Call(g, h)[k] = stack[k]
      BY <1>5, <1>6, CalledFrames
    <3> QED BY <2>1, <2>2, <3>2
  <2>4. \A k \in 1..(n + 1) : \/ k \in 1..(n - 1) /\ k \in 1..n
                              \/ k = n
                              \/ k = n + 1
    BY <2>1
  \* No other call mounts this package: it is not in the table.
  <2>5. \A k \in 1..(n - 1) : c[k].pc = "mounting" =>
          /\ stack[k].pc = "mounting" /\ c[k] = stack[k] /\ k \in 1..Len(stack)
          /\ c[k].target # p /\ mounted[c[k].target] # NULL
    BY <1>3, <2>1, <2>3, <2>4 DEF IInv, MountingInv
  <2>6. \A k \in 1..(n - 1) : c[k].pc = "mounting" => c[k].target \in Packages
    BY <2>5 DEF IInv, StackInv, FrameInv, ScriptFrame, ScriptPcs, Resolving
  <2>7. \A k \in 1..(n + 1) : c[k].pc = "mounting" =>
          /\ mounted'[c[k].target] # NULL
          /\ \A j \in 1..(n + 1) :
               c[j].pc = "mounting" /\ c[j].target = c[k].target => j = k
    <3>1. mounted'[p] # NULL
      BY <1>7 DEF ConstantsAssumption
    <3> SUFFICES ASSUME NEW k \in 1..(n + 1), c[k].pc = "mounting"
                 PROVE  /\ mounted'[c[k].target] # NULL
                        /\ \A j \in 1..(n + 1) :
                             c[j].pc = "mounting" /\ c[j].target = c[k].target => j = k
      OBVIOUS
    <3>2. \A j \in 1..(n + 1) : c[j].pc = "mounting" => j = n \/ j \in 1..(n - 1)
      BY <1>6, <2>3, <2>4
    <3>3. CASE k = n
      BY <1>5, <2>3, <2>5, <3>1, <3>2, <3>3
    <3>4. CASE k \in 1..(n - 1)
      <4>1. mounted'[c[k].target] # NULL
        BY <1>7, <2>5, <2>6, <3>4
      <4>2. ASSUME NEW j \in 1..(n - 1), c[j].pc = "mounting", c[j].target = c[k].target
            PROVE  j = k
        BY <2>5, <3>4, <4>2 DEF IInv, MountingInv
      <4>3. c[n].target # c[k].target
        BY <1>5, <2>3, <2>5, <3>4
      <4> QED BY <3>2, <4>1, <4>2, <4>3
    <3> QED BY <3>2, <3>3, <3>4
  <2>8. stack' = c /\ Len(stack') = n + 1
    BY <1>3, <2>2, <2>3
  <2> QED BY <2>7, <2>8 DEF MountingInv
<1> QED BY <1>3, <1>8, <1>9, <1>10, <1>11 DEF IInv

LEMMA MountReturnsStep ==
  ASSUME ConstantsAssumption, IInv, MountReturns
  PROVE  IInv'
<1>1. PICK f, p : f = Top /\ p = f.target
  OBVIOUS
<1>2. /\ Top.fn = "resolve" /\ f.fn = "resolve" /\ f.pc = "mounting"
      /\ UNCHANGED <<map_count, map_array, defined, fh_count, sh_count, rude>>
  BY <1>1 DEF MountReturns, At, handlers
<1>3. f \in FrameType /\ Resolving(f) /\ Running(f) /\ p \in Packages
  BY <1>1, <1>2, TopFrame DEF IInv, Resolving
<1>4. PICK n : n = Len(stack) /\ n \in Nat \ {0} /\ stack[n] = f /\ n \in 1..Len(stack)
  <2>1. Len(stack) \in Nat \ {0} /\ Top = stack[Len(stack)]
    BY TopFrame DEF IInv
  <2> QED BY <1>1, <2>1
<1>5. mounted[p] # NULL
  BY <1>1, <1>2, <1>4 DEF IInv, MountingInv
<1>6. CASE ~exc
  <2>1. ResolveInPackage(mounted[Top.target], Top) /\ UNCHANGED mounted
    BY <1>6 DEF MountReturns
  <2> QED BY <1>1, <1>2, <1>5, <1>6, <2>1, PackageStep DEF maps, handlers
<1>7. CASE exc
  <2>1. PICK g : g = NotFound(f)
    OBVIOUS
  <2>2. /\ mounted' = [mounted EXCEPT ![p] = NULL] /\ stack' = Replace(g)
        /\ UNCHANGED <<exc, fault>>
    BY <1>1, <1>7, <2>1 DEF MountReturns
  <2>3. g \in FrameType /\ g.fn = "resolve" /\ Resolving(g) /\ g.pc = "lookup"
    BY <1>2, <1>3, <2>1, NotFoundFrame
  <2>4. /\ mounted' \in [Packages -> Nat \cup {NULL}] /\ mounted'[p] = NULL
        /\ \A q \in Packages : q # p => mounted'[q] = mounted[q]
    BY <1>3, <2>2 DEF IInv, DataType
  <2>5. DataType' /\ Later
    BY <1>2, <2>2, <2>4, SameIsLater DEF IInv, DataType
  <2>6. StackInv'
    <3>1. Resolving(g)'
      BY <1>2, <2>3 DEF Resolving
    <3>2. Running(g)'
      BY <1>7, <2>2, <2>3 DEF Running
    <3> QED BY <1>2, <2>2, <2>3, <2>5, <3>1, <3>2, ReplaceTop DEF IInv
  <2>7. MountedMaps'
    <3>1. ASSUME NEW q \in Packages
          PROVE  /\ mounted'[q] \in {mounted[q], NULL}
                 /\ mounted'[q] \notin {0, NULL} /\ Active(mounted[q])
                      => Active(mounted[q])' \/ rude'
      BY <1>2, <2>4 DEF Active, IDs
    <3> QED BY <2>5, <3>1, MountedLater DEF IInv
  <2>8. MountingInv'
    <3>1. /\ Len(stack') = n /\ stack'[n] = g
          /\ \A k \in 1..(n - 1) : stack'[k] = stack[k]
      BY <1>4, <2>2, <2>3, ReplaceShape DEF IInv
    <3>2. \A k \in 1..n : k \in 1..(n - 1) \/ k = n
      BY <1>4
    <3>3. \A k \in 1..(n - 1) : k \in 1..Len(stack) /\ k # n
      BY <1>4
    <3>4. \A k \in 1..(n - 1) : stack[k].pc = "mounting" =>
             stack[k].target # p /\ stack[k].target \in Packages
      <4>1. \A k \in 1..(n - 1) : stack[k].pc = "mounting" => stack[k].target # p
        BY <1>1, <1>2, <1>4, <3>3 DEF IInv, MountingInv
      <4>2. \A k \in 1..(n - 1) : stack[k].pc = "mounting" => stack[k].target \in Packages
        BY <3>3 DEF IInv, StackInv, FrameInv, ScriptFrame, ScriptPcs, Resolving
      <4> QED BY <4>1, <4>2
    <3>5. \A k \in 1..Len(stack') : stack'[k].pc = "mounting" =>
            /\ k \in 1..Len(stack) /\ stack[k].pc = "mounting"
            /\ stack'[k].target = stack[k].target /\ mounted'[stack[k].target] # NULL
      <4>1. \A k \in 1..Len(stack) : stack[k].pc = "mounting" => mounted[stack[k].target] # NULL
        BY DEF IInv, MountingInv
      <4>2. \A k \in 1..(n - 1) : stack[k].pc = "mounting" => mounted'[stack[k].target] # NULL
        BY <2>4, <3>3, <3>4, <4>1
      <4> QED BY <2>3, <3>1, <3>2, <3>3, <4>2
    <3> QED BY <3>5, MountingLater DEF IInv
  <2> QED BY <1>2, <2>2, <2>5, <2>6, <2>7, <2>8 DEF IInv
<1> QED BY <1>6, <1>7

-----------------------------------------------------------------------------
(***************************************************************************)
(* The theorems.                                                           *)
(***************************************************************************)
LEMMA NextStep ==
  ASSUME ConstantsAssumption, IInv, Next
  PROVE  IInv'
<1>1. CASE \E s \in Symbols, autoload, exception \in BOOLEAN : Resolve(s, autoload, exception)
  BY <1>1, ResolveStepOK
<1>2. CASE Lookup
  BY <1>2, LookupStep
<1>3. CASE FailureHandler
  BY <1>3, HandlerStep
<1>4. CASE Fail
  BY <1>4, FailStep
<1>5. CASE SuccessHandler
  BY <1>5, HandlerStep, SuccessFaultStep
<1>6. CASE Succeed
  BY <1>6, SucceedStep, SuccessFaultStep
<1>7. CASE Return
  BY <1>7, ReturnStep
<1>8. CASE LoadExtension
  BY <1>8, LoadExtensionStep
<1>9. CASE RequireScript
  BY <1>9, RequireScriptStep
<1>10. CASE MountedPackage
  BY <1>10, MountedPackageStep
<1>11. CASE MountPackage
  BY <1>11, MountPackageStep
<1>12. CASE MountPackageFails
  BY <1>12, MountPackageFailsStep
<1>13. CASE MountReturns
  BY <1>13, MountReturnsStep
<1>14. CASE \E m \in Files, noAutoload \in BOOLEAN : Load(m, noAutoload)
  BY <1>14, LoadStep
<1>15. CASE \E id \in 1..MaxMaps : Unload(id)
  BY <1>15, UnloadStep
<1>16. CASE \E p \in Packages : Umount(p)
  BY <1>16, UmountStep
<1>17. CASE RegisterFailureHandler \/ RegisterSuccessHandler \/ Define \/ Throw \/ Catch
  BY <1>17, OtherScriptStep
<1>18. CASE ScriptReturn
  BY <1>18, ScriptReturnStep
<1>19. CASE RShutdown
  BY <1>19, RShutdownStep
<1> QED BY <1>1, <1>2, <1>3, <1>4, <1>5, <1>6, <1>7, <1>8, <1>9, <1>10, <1>11, <1>12, <1>13,
           <1>14, <1>15, <1>16, <1>17, <1>18, <1>19 DEF Next, ResolveStep, KeyStep

LEMMA StutterStep ==
  ASSUME IInv, UNCHANGED vars
  PROVE  IInv'
<1>1. UNCHANGED <<maps, defined, handlers, stack, exc, rude, fault>>
  BY DEF vars, maps, handlers
<1> QED BY <1>1, FaultStep

\* What the calls rely on holds in every state.
THEOREM Invariant == Spec => []IInv
<1>1. Init => IInv
  BY InitStep
<1>2. IInv /\ [Next]_vars => IInv'
  BY ConstantsAssumption, NextStep, StutterStep
<1> QED BY <1>1, <1>2, PTL DEF Spec

\* The variables keep their types, and no resolution comes to a map that was loaded
\* after it began: Automap_resolve_symbol() walks from map_count down.
THEOREM TypeCorrect == Spec => []TypeOK
<1>1. IInv => TypeOK
  <2> SUFFICES ASSUME IInv PROVE TypeOK
    OBVIOUS
  <2>1. \A k \in 1..Len(stack) : stack[k].fn = "resolve" =>
           stack[k].i <= stack[k].start /\ stack[k].start <= map_count
    BY DEF IInv, StackInv, FrameInv, ScriptFrame, Resolving
  <2> QED BY <2>1 DEF IInv, StackInv, DataType, TypeOK
<1> QED BY <1>1, Invariant, PTL

\* The failure handlers run, and a resolution fails without an exception, only for a
\* symbol that none of the maps it has walked and that are still there provides,
\* whatever the PHP code it calls has done to the maps.
THEOREM FailureMeansAbsentCorrect == Spec => []FailureMeansAbsent
<1>1. IInv => FailureMeansAbsent
  <2> SUFFICES ASSUME IInv, NEW k \in 1..Len(stack),
                      \/ stack[k].pc = "failure"
                      \/ stack[k].pc = "return" /\ stack[k].status = FAILURE,
                      ~(k = Len(stack) /\ exc)
               PROVE  \A id \in 1..(stack[k].start - 1) :
                        Active(id) /\ ~map_array[id].noAutoload
                          => ~Provides(map_array[id].map, stack[k].sym)
    BY DEF FailureMeansAbsent
  <2>1. FrameInv(k) /\ Len(stack) \in Nat
    BY TopFrame DEF IInv, StackInv
  <2>2. k = Len(stack) \/ k < Len(stack)
    BY <2>1
  <2>3. ~ScriptFrame(stack[k])
    BY DEF ScriptFrame, ScriptPcs
  <2>4. Walk(stack[k])
    BY <2>1, <2>2, <2>3 DEF FrameInv, Running, Waiting
  <2> QED BY <2>4 DEF Walk, Absent
<1> QED BY <1>1, Invariant, PTL

\* A resolution that succeeds has its symbol defined, and a require...() that does not
\* succeed has thrown.
THEOREM OutcomeCorrect == Spec => []Outcome
<1>1. IInv => Outcome
  <2> SUFFICES ASSUME IInv, Top.pc = "return", Top.status = SUCCESS \/ Top.exception
               PROVE  exc \/ Top.sym \in defined
    BY DEF Outcome
  <2>1. Top.fn = "resolve" \/ Top.fn = "script"
    BY TopFrame DEF IInv, FrameType
  <2>2. Top.fn # "script"
    BY TopFrame DEF IInv, ScriptFrame, ScriptPcs
  <2>3. Running(Top)
    BY <2>1, <2>2, TopFrame DEF IInv
  <2> QED BY <2>3 DEF Running, SUCCESS, FAILURE
<1> QED BY <1>1, Invariant, PTL

\* A map that the resolution reads is there, unless PHP code has unloaded it by its ID
\* while a package or a call was using it.
THEOREM NoStaleMapCorrect == Spec => []NoStaleMap
<1>1. IInv => NoStaleMap
  BY DEF IInv, NoStaleMap
<1> QED BY <1>1, Invariant, PTL

=============================================================================
