---------------------------- MODULE PHKUri_proofs ----------------------------
(***************************************************************************)
(* Lemmas about PHKUri, for all strings.                                   *)
(***************************************************************************)
EXTENDS PHKUri, NaturalsInduction, WellFoundedInduction, SequenceTheorems, TLAPS

-----------------------------------------------------------------------------
(***************************************************************************)
(* The first and the last of some places.                                  *)
(***************************************************************************)
LEMMA Least ==
  ASSUME NEW T, T \subseteq Nat, T # {}
  PROVE  \E x \in T : \A y \in T : x <= y
<1>1. PICK x \in T : \A y \in T : <<y, x>> \notin OpToRel(<, Nat)
  BY NatLessThanWellFounded, WFMin
<1>2. \A y \in T : ~(y < x)
  BY <1>1 DEF OpToRel
<1> QED BY <1>2

LEMMA Greatest ==
  ASSUME NEW n \in Nat, NEW T, T \subseteq 1..n, T # {}
  PROVE  \E x \in T : \A y \in T : y <= x
<1> DEFINE U == {n - t : t \in T}
<1>1. U \subseteq Nat
  <2>1. \A t \in T : n - t \in Nat
    OBVIOUS
  <2> QED BY <2>1
<1>0. U # {}
  OBVIOUS
<1>2. PICK u \in U : \A v \in U : u <= v
  <2> HIDE DEF U
  <2> QED BY <1>0, <1>1, Least
<1>3. PICK x \in T : u = n - x
  OBVIOUS
<1>4. ASSUME NEW y \in T PROVE y <= x
  <2>1. n - x <= n - y
    BY <1>2, <1>3
  <2>2. x \in Nat /\ y \in Nat
    OBVIOUS
  <2> QED BY <2>1, <2>2
<1> QED BY <1>4

LEMMA Last0Is ==
  ASSUME NEW n \in Nat, NEW T, T \subseteq 1..n
  PROVE  /\ Last0(T) \in 0..n
         /\ T # {} => Last0(T) \in T
         /\ \A t \in T : t <= Last0(T)
<1>1. CASE T = {}
  BY <1>1 DEF Last0
<1>2. CASE T # {}
  <2>1. \E x \in T : \A y \in T : y <= x
    BY <1>2, Greatest
  <2>2. PICK t : t = CHOOSE x \in T : \A y \in T : y <= x
    OBVIOUS
  <2>3. t \in T /\ \A y \in T : y <= t
    BY <2>1, <2>2
  <2>4. Last0(T) = t
    BY <1>2, <2>2 DEF Last0
  <2> QED BY <2>3, <2>4
<1> QED BY <1>1, <1>2

LEMMA BeforeIs ==
  ASSUME NEW A, NEW s \in Seq(A), NEW S
  PROVE  /\ Before(s, S) \in 0..Len(s)
         /\ \A j \in 1..Before(s, S) : s[j] \notin S
         /\ Before(s, S) < Len(s) => s[Before(s, S) + 1] \in S
<1> DEFINE T == {i \in 1..Len(s) : s[i] \in S}
<1>0. Len(s) \in Nat
  OBVIOUS
<1>1. CASE T = {}
  <2>1. Before(s, S) = Len(s)
    BY <1>1 DEF Before
  <2> QED BY <1>0, <1>1, <2>1
<1>2. CASE T # {}
  <2> DEFINE First(i) == s[i] \in S /\ \A j \in 1..(i - 1) : s[j] \notin S
  <2>1. T \subseteq Nat
    OBVIOUS
  <2>2. PICK x \in T : \A y \in T : x <= y
    <3> HIDE DEF T
    <3> QED BY <1>2, <2>1, Least
  <2>3. \A j \in 1..(x - 1) : j \notin T /\ j \in 1..Len(s)
    BY <1>0, <2>2
  <2>4. x \in 1..Len(s) /\ First(x)
    BY <2>2, <2>3
  <2>5. Before(s, S) = (CHOOSE i \in 1..Len(s) : First(i)) - 1
    BY <1>2 DEF Before
  <2>6. PICK f : f = CHOOSE i \in 1..Len(s) : First(i)
    OBVIOUS
  <2>7. f \in 1..Len(s) /\ First(f)
    BY <2>4, <2>6
  <2>8. Before(s, S) = f - 1
    BY <2>5, <2>6
  <2> QED BY <1>0, <2>7, <2>8
<1> QED BY <1>1, <1>2

\* ... which is the one that looks like it.
LEMMA BeforeUnique ==
  ASSUME NEW A, NEW s \in Seq(A), NEW S, NEW n \in 0..Len(s),
         \A j \in 1..n : s[j] \notin S,
         n < Len(s) => s[n + 1] \in S
  PROVE  Before(s, S) = n
<1>1. PICK b : b = Before(s, S)
  OBVIOUS
<1>2. /\ b \in 0..Len(s)
      /\ \A j \in 1..b : s[j] \notin S
      /\ b < Len(s) => s[b + 1] \in S
  BY <1>1, BeforeIs
<1>3. Len(s) \in Nat
  OBVIOUS
<1>4. ~(b < n)
  BY <1>2, <1>3
<1>5. ~(n < b)
  BY <1>2, <1>3
<1> QED BY <1>1, <1>2, <1>3, <1>4, <1>5

LEMMA Last0Single == \A x \in Nat : Last0({x}) = x
<1> TAKE x \in Nat
<1>1. \E y \in {x} : \A z \in {x} : z <= y
  OBVIOUS
<1> QED BY <1>1 DEF Last0

LEMMA Last0None == Last0({}) = 0
BY DEF Last0

-----------------------------------------------------------------------------
(***************************************************************************)
(* Strings.                                                                *)
(***************************************************************************)
LEMMA OneElement ==
  ASSUME NEW A, NEW x \in A
  PROVE  <<x>> \in Seq(A) /\ Len(<<x>>) = 1 /\ <<x>>[1] = x
OBVIOUS

LEMMA OneOnly ==
  ASSUME NEW A, NEW s \in Seq(A), Len(s) = 1, NEW x, s[1] = x
  PROVE  s = <<x>>
OBVIOUS

LEMMA ThreeElements ==
  ASSUME NEW A, NEW x \in A, NEW y \in A, NEW z \in A
  PROVE  <<x, y, z>> \in Seq(A)
OBVIOUS

LEMMA FunctionIsSeq ==
  ASSUME NEW A, NEW n \in Nat, NEW f \in [1..n -> A]
  PROVE  f \in Seq(A) /\ Len(f) = n
OBVIOUS

LEMMA SliceType ==
  ASSUME NEW A, NEW s \in Seq(A), NEW i \in Nat \ {0}, NEW n \in 0..Len(s)
  PROVE  /\ SubSeq(s, i, n) \in Seq(A)
         /\ Len(SubSeq(s, i, n)) = IF i <= n THEN n - i + 1 ELSE 0
         /\ \A j \in 1..(n - i + 1) : SubSeq(s, i, n)[j] = s[i + j - 1]
<1>1. Len(s) \in Nat /\ \A j \in 1..Len(s) : s[j] \in A
  OBVIOUS
<1>2. \A j \in i..n : s[j] \in A
  BY <1>1
<1>3. i \in Int /\ n \in Int
  BY <1>1
<1>4. /\ SubSeq(s, i, n) \in Seq(A)
      /\ Len(SubSeq(s, i, n)) = IF i <= n THEN n - i + 1 ELSE 0
      /\ \A j \in 1..(n - i + 1) : SubSeq(s, i, n)[j] = s[i + j - 1]
  BY <1>2, <1>3, SubSeqProperties
<1> QED BY <1>4

LEMMA TailOfConcat ==
  ASSUME NEW A, NEW x \in A, NEW s \in Seq(A)
  PROVE  /\ <<x>> \o s \in Seq(A) /\ <<x>> \o s # <<>>
         /\ Head(<<x>> \o s) = x
         /\ Tail(<<x>> \o s) = s
<1>1. PICK u : u = <<x>> \o s
  OBVIOUS
<1>2. <<x>> \in Seq(A) /\ Len(<<x>>) = 1 /\ <<x>>[1] = x
  BY OneElement
<1>3. /\ u \in Seq(A)
      /\ Len(u) = Len(<<x>>) + Len(s)
      /\ \A i \in 1..Len(<<x>>) + Len(s) : u[i] = IF i <= Len(<<x>>) THEN <<x>>[i] ELSE s[i - Len(<<x>>)]
  BY <1>1, <1>2, ConcatProperties
<1>4. Len(u) = 1 + Len(s) /\ \A i \in 1..1 + Len(s) : u[i] = IF i <= 1 THEN <<x>>[i] ELSE s[i - 1]
  BY <1>2, <1>3
<1>5. Len(s) \in Nat /\ u # <<>> /\ u[1] = x
  BY <1>2, <1>4
<1>6. Head(u) = x
  BY <1>3, <1>5
<1>7. Tail(u) \in Seq(A) /\ Len(Tail(u)) = Len(u) - 1 /\ \A i \in 1..Len(Tail(u)) : Tail(u)[i] = u[i + 1]
  BY <1>3, <1>5, HeadTailProperties
<1>8. Len(Tail(u)) = Len(s)
  BY <1>4, <1>5, <1>7
<1>9. \A i \in 1..Len(s) : Tail(u)[i] = s[i]
  <2> TAKE i \in 1..Len(s)
  <2>1. i + 1 \in 1..1 + Len(s) /\ ~(i + 1 <= 1) /\ i + 1 - 1 = i
    BY <1>5
  <2>2. u[i + 1] = s[i]
    BY <1>4, <2>1
  <2> QED BY <1>7, <1>8, <2>2
<1>10. Tail(u) = s
  BY <1>7, <1>8, <1>9, SeqEqual
<1> QED BY <1>1, <1>3, <1>5, <1>6, <1>10

\* The two parts, place by place.
LEMMA Parts ==
  ASSUME NEW A, NEW m \in Seq(A), NEW w \in Seq(A), NEW s, s = m \o w
  PROVE  /\ s \in Seq(A)
         /\ Len(m) \in Nat /\ Len(w) \in Nat
         /\ Len(s) = Len(m) + Len(w)
         /\ \A i \in 1..Len(m) : s[i] = m[i]
         /\ \A i \in 1..Len(w) : s[Len(m) + i] = w[i]
         /\ SubSeq(s, 1, Len(m)) = m
<1>1. Len(m) \in Nat /\ Len(w) \in Nat
  OBVIOUS
<1>2. /\ s \in Seq(A)
      /\ Len(s) = Len(m) + Len(w)
      /\ \A i \in 1..Len(m) + Len(w) : s[i] = IF i <= Len(m) THEN m[i] ELSE w[i - Len(m)]
  BY ConcatProperties
<1>3. \A i \in 1..Len(m) : s[i] = m[i]
  BY <1>1, <1>2
<1>4. \A i \in 1..Len(w) : s[Len(m) + i] = w[i]
  <2> TAKE i \in 1..Len(w)
  <2>1. Len(m) + i \in 1..Len(m) + Len(w) /\ ~(Len(m) + i <= Len(m)) /\ Len(m) + i - Len(m) = i
    BY <1>1
  <2> QED BY <1>2, <2>1
<1>5. SubSeq(s, 1, Len(m)) = m
  <2>1. Len(m) \in 0..Len(s) /\ 1 \in Nat \ {0}
    BY <1>1, <1>2
  <2>2. /\ SubSeq(s, 1, Len(m)) \in Seq(A)
        /\ Len(SubSeq(s, 1, Len(m))) = IF 1 <= Len(m) THEN Len(m) - 1 + 1 ELSE 0
        /\ \A j \in 1..(Len(m) - 1 + 1) : SubSeq(s, 1, Len(m))[j] = s[1 + j - 1]
    BY <1>2, <2>1, SliceType
  <2>3. Len(SubSeq(s, 1, Len(m))) = Len(m)
    BY <1>1, <2>2
  <2>4. \A j \in 1..Len(m) : SubSeq(s, 1, Len(m))[j] = m[j]
    <3> TAKE j \in 1..Len(m)
    <3>1. j \in 1..(Len(m) - 1 + 1) /\ 1 + j - 1 = j
      BY <1>1
    <3> QED BY <1>3, <2>2, <3>1
  <2> QED BY <2>2, <2>3, <2>4, SeqEqual
<1> QED BY <1>1, <1>2, <1>3, <1>4, <1>5

\* The five URIs that PHK_Mgr builds are of that form.
LEMMA PrefixedUri ==
  ASSUME NEW A, NEW x \in Seq(A), NEW m \in Seq(A), NEW y \in Seq(A), NEW t \in Seq(A)
  PROVE  x \o m \o y \o t = x \o (m \o (y \o t))
<1>1. x \o m \o y = x \o (m \o y)
  BY SMTT(30), ConcatAssociative
<1>2. m \o y \in Seq(A)
  BY ConcatProperties
<1>3. (x \o (m \o y)) \o t = x \o ((m \o y) \o t)
  BY SMTT(30), <1>2, ConcatAssociative
<1>4. (m \o y) \o t = m \o (y \o t)
  BY SMTT(30), ConcatAssociative
<1>5. ((x \o m) \o y) \o t = x \o (m \o (y \o t))
  BY <1>1, <1>3, <1>4
<1> QED BY <1>5

LEMMA ReplaceAllIs ==
  ASSUME NEW A, NEW s \in Seq(A), NEW old, NEW new \in A
  PROVE  /\ ReplaceAll(s, old, new) \in Seq(A)
         /\ Len(ReplaceAll(s, old, new)) = Len(s)
         /\ \A i \in 1..Len(s) :
              ReplaceAll(s, old, new)[i] = IF s[i] = old THEN new ELSE s[i]
<1>1. Len(s) \in Nat /\ \A i \in 1..Len(s) : s[i] \in A
  OBVIOUS
<1>2. PICK r : r = ReplaceAll(s, old, new)
  OBVIOUS
<1>3. r \in [1..Len(s) -> A] /\ \A i \in 1..Len(s) : r[i] = IF s[i] = old THEN new ELSE s[i]
  BY <1>1, <1>2 DEF ReplaceAll
<1>4. r \in Seq(A) /\ Len(r) = Len(s)
  BY <1>1, <1>3
<1> QED BY <1>2, <1>3, <1>4

LEMMA ReplaceAllSame ==
  ASSUME NEW A, NEW s \in Seq(A), NEW old, NEW new, \A i \in 1..Len(s) : s[i] # old
  PROVE  ReplaceAll(s, old, new) = s
<1>1. Len(s) \in Nat /\ s = [i \in 1..Len(s) |-> s[i]]
  OBVIOUS
<1>2. ReplaceAll(s, old, new) = [i \in 1..Len(s) |-> s[i]]
  BY DEF ReplaceAll
<1> QED BY <1>1, <1>2

\* s without its first b characters, which are all c, is t.
Leads(s, c, b, t) ==
  /\ \A i \in 1..b : s[i] = c
  /\ b < Len(s) => s[b + 1] # c
  /\ Len(t) = Len(s) - b
  /\ \A i \in 1..(Len(s) - b) : t[i] = s[b + i]

LEMMA LTrimParts ==
  ASSUME NEW A, NEW s \in Seq(A), NEW c
  PROVE  LTrim(s, c) \in Seq(A) /\ \E b \in 0..Len(s) : Leads(s, c, b, LTrim(s, c))
<1> DEFINE S == {x \in Range(s) : x # c}
<1>1. PICK b : b = Before(s, S)
  OBVIOUS
<1>2. Len(s) \in Nat /\ \A i \in 1..Len(s) : s[i] \in Range(s)
  BY RangeEquality
<1>3. b \in 0..Len(s) /\ (\A i \in 1..b : s[i] \notin S) /\ (b < Len(s) => s[b + 1] \in S)
  <2> HIDE DEF S
  <2> QED BY <1>1, BeforeIs
<1>4. (\A i \in 1..b : s[i] = c) /\ (b < Len(s) => s[b + 1] # c)
  BY <1>2, <1>3
<1>5. PICK t : t = SubSeq(s, 1 + b, Len(s))
  OBVIOUS
<1>6. LTrim(s, c) = t
  BY <1>1, <1>5 DEF LTrim
<1>7. 1 + b \in Nat \ {0} /\ Len(s) \in 0..Len(s)
  BY <1>2, <1>3
<1>8. /\ t \in Seq(A)
      /\ Len(t) = IF 1 + b <= Len(s) THEN Len(s) - (1 + b) + 1 ELSE 0
      /\ \A j \in 1..(Len(s) - (1 + b) + 1) : t[j] = s[1 + b + j - 1]
  BY <1>5, <1>7, SliceType
<1>9. Len(t) = Len(s) - b /\ \A j \in 1..(Len(s) - b) : t[j] = s[b + j]
  <2> HIDE DEF S
  <2> QED BY <1>2, <1>3, <1>8
<1>10. Leads(s, c, b, t)
  BY <1>4, <1>9 DEF Leads
<1> QED BY <1>3, <1>6, <1>8, <1>10

LEMMA LTrimIs ==
  ASSUME NEW A, NEW s \in Seq(A), NEW c
  PROVE  /\ LTrim(s, c) \in Seq(A)
         /\ LTrim(s, c) # <<>> => LTrim(s, c)[1] # c
         /\ \A i \in 1..Len(LTrim(s, c)) : \E j \in 1..Len(s) : LTrim(s, c)[i] = s[j]
<1>1. PICK t \in Seq(A) : t = LTrim(s, c)
  BY LTrimParts
<1>2. PICK b \in 0..Len(s) : Leads(s, c, b, t)
  BY <1>1, LTrimParts
<1>3. Len(s) \in Nat /\ Len(t) = Len(s) - b /\ \A i \in 1..(Len(s) - b) : t[i] = s[b + i]
  BY <1>2 DEF Leads
<1>4. ASSUME t # <<>> PROVE t[1] # c
  <2>1. Len(t) # 0
    BY <1>4, EmptySeq
  <2>2. b < Len(s) /\ t[1] = s[b + 1]
    BY <1>3, <2>1
  <2> QED BY <1>2, <2>2 DEF Leads
<1>5. \A i \in 1..Len(t) : \E j \in 1..Len(s) : t[i] = s[j]
  <2> TAKE i \in 1..Len(t)
  <2>1. b + i \in 1..Len(s) /\ t[i] = s[b + i]
    BY <1>3
  <2> QED BY <2>1
<1> QED BY <1>1, <1>4, <1>5

LEMMA LTrimSame ==
  ASSUME NEW A, NEW s \in Seq(A), NEW c, s # <<>> => s[1] # c
  PROVE  LTrim(s, c) = s
<1> DEFINE S == {x \in Range(s) : x # c}
<1>1. Len(s) \in Nat /\ \A i \in 1..Len(s) : s[i] \in Range(s)
  BY RangeEquality
<1>2. 0 \in 0..Len(s) /\ (0 < Len(s) => s[0 + 1] \in S)
  BY <1>1
<1>3. Before(s, S) = 0
  <2> HIDE DEF S
  <2> QED BY <1>1, <1>2, BeforeUnique
<1>4. LTrim(s, c) = SubSeq(s, 1 + Before(s, S), Len(s))
  BY DEF LTrim
<1>5. LTrim(s, c) = SubSeq(s, 1, Len(s))
  <2> HIDE DEF S
  <2> QED BY <1>3, <1>4
<1> QED BY <1>5, SubSeqFull

LEMMA LTrimOne ==
  ASSUME NEW A, NEW z \in Seq(A), NEW n \in Nat \ {0}, Len(z) = 1 + n, z[1] = "/", z[2] # "/"
  PROVE  \E t \in Seq(A) :
           /\ t = LTrim(z, "/") /\ Len(t) = n
           /\ \A i \in 1..n : t[i] = z[1 + i]
<1>1. PICK t : t = LTrim(z, "/")
  OBVIOUS
<1>2. PICK b \in 0..Len(z) : Leads(z, "/", b, t)
  BY <1>1, LTrimParts
<1>3. t \in Seq(A)
  BY <1>1, LTrimParts
<1>4. b # 0 /\ ~(2 <= b)
  BY <1>2 DEF Leads
<1>5. b = 1
  BY <1>2, <1>4
<1>6. Len(t) = n /\ \A i \in 1..n : t[i] = z[1 + i]
  BY <1>2, <1>5 DEF Leads
<1> QED BY <1>1, <1>3, <1>6

\* s without the characters c at its end is t, its first l characters.
TrimsTo(s, c, l, t) ==
  /\ l \in 0..Len(s)
  /\ l # 0 => s[l] # c
  /\ \A i \in 1..Len(s) : l < i => s[i] = c
  /\ Len(t) = l
  /\ \A i \in 1..l : t[i] = s[i]

LEMMA RTrimIs ==
  ASSUME NEW A, NEW s \in Seq(A), NEW c
  PROVE  RTrim(s, c) \in Seq(A) /\ \E l \in 0..Len(s) : TrimsTo(s, c, l, RTrim(s, c))
<1> DEFINE T == {i \in 1..Len(s) : s[i] # c}
<1>1. Len(s) \in Nat
  OBVIOUS
<1>2. PICK l : l = Last0(T)
  OBVIOUS
<1>3. T \subseteq 1..Len(s)
  OBVIOUS
<1>4. l \in 0..Len(s) /\ (T # {} => l \in T) /\ \A t \in T : t <= l
  <2> HIDE DEF T
  <2> QED BY <1>1, <1>2, <1>3, Last0Is
<1>5. RTrim(s, c) = SubSeq(s, 1, l)
  BY <1>2 DEF RTrim
<1>6. l # 0 => s[l] # c
  <2>1. T = {} => l = 0
    BY <1>2 DEF Last0
  <2> QED BY <1>4, <2>1
<1>7. \A i \in 1..Len(s) : l < i => s[i] = c
  BY <1>1, <1>4
<1>8. /\ RTrim(s, c) \in Seq(A)
      /\ Len(RTrim(s, c)) = IF 1 <= l THEN l - 1 + 1 ELSE 0
      /\ \A i \in 1..(l - 1 + 1) : RTrim(s, c)[i] = s[1 + i - 1]
  BY <1>4, <1>5, SliceType
<1>9. Len(RTrim(s, c)) = l /\ \A i \in 1..l : RTrim(s, c)[i] = s[i]
  BY <1>1, <1>4, <1>8
<1>10. TrimsTo(s, c, l, RTrim(s, c))
  BY <1>4, <1>6, <1>7, <1>9 DEF TrimsTo
<1> QED BY <1>4, <1>8, <1>10

LEMMA RTrimEmpty == \A c : RTrim(<<>>, c) = <<>>
<1> TAKE c
<1>1. RTrim(<<>>, c) \in Seq({}) /\ \E l \in 0..Len(<<>>) : TrimsTo(<<>>, c, l, RTrim(<<>>, c))
  BY EmptySeq, RTrimIs
<1>2. Len(RTrim(<<>>, c)) = 0
  BY <1>1 DEF TrimsTo
<1> QED BY <1>1, <1>2

\* What IsPrefix says, place by place.
LEMMA PrefixIs ==
  ASSUME NEW A, NEW s \in Seq(A), NEW t \in Seq(A)
  PROVE  IsPrefix(s, t) <=> Len(s) <= Len(t) /\ \A i \in 1..Len(s) : t[i] = s[i]
<1>1. Len(s) \in Nat /\ Len(t) \in Nat /\ SubSeq(s, 1, Len(s)) = s
  BY SubSeqFull
<1>2. SUFFICES ASSUME Len(s) <= Len(t)
      PROVE  s = SubSeq(t, 1, Len(s)) <=> \A i \in 1..Len(s) : t[i] = s[i]
  BY <1>1 DEF IsPrefix
<1>3. PICK n \in 0..Len(t) : n = Len(s)
  <2>1. Len(s) \in Nat /\ Len(t) \in Nat
    BY <1>1
  <2>2. Len(s) \in 0..Len(t)
    BY <1>2, <2>1
  <2> QED BY <2>2
<1>4. PICK c : c = SubSeq(t, 1, n)
  OBVIOUS
<1>5. /\ c \in Seq(A) /\ Len(c) = IF 1 <= n THEN n - 1 + 1 ELSE 0
      /\ \A j \in 1..(n - 1 + 1) : c[j] = t[1 + j - 1]
  BY <1>3, <1>4, SliceType
<1>6. n \in Nat
  BY <1>1, <1>3
<1>7. Len(c) = n /\ \A j \in 1..n : c[j] = t[j]
  BY <1>5, <1>6
<1>8. ASSUME \A i \in 1..n : t[i] = s[i] PROVE s = c
  <2>1. Len(s) = Len(c) /\ \A i \in 1..Len(s) : s[i] = c[i]
    BY <1>3, <1>7, <1>8
  <2> QED BY <1>5, <2>1, SeqEqual
<1> QED BY <1>3, <1>4, <1>7, <1>8

LEMMA PrefixOfConcat ==
  ASSUME NEW B, NEW p \in Seq(B), NEW q \in Seq(B)
  PROVE  IsPrefix(p, p \o q)
<1>1. PICK s : s = p \o q
  OBVIOUS
<1>2. /\ s \in Seq(B) /\ Len(p) \in Nat /\ Len(q) \in Nat /\ Len(s) = Len(p) + Len(q)
      /\ \A i \in 1..Len(p) : s[i] = p[i]
  BY <1>1, Parts
<1>3. Len(p) <= Len(s)
  BY <1>2
<1> QED BY <1>1, <1>2, <1>3, PrefixIs

LEMMA PrefixSelf ==
  ASSUME NEW B, NEW p \in Seq(B)
  PROVE  IsPrefix(<<>>, p) /\ IsPrefix(p, p)
<1>1. Len(p) \in Nat /\ Len(<<>>) = 0 /\ <<>> \in Seq(B)
  OBVIOUS
<1>2. SubSeq(<<>>, 1, 0) = <<>> /\ SubSeq(p, 1, 0) = <<>>
  BY SubSeqEmpty
<1> QED BY <1>1, <1>2 DEF IsPrefix

\* A beginning of Append(p, x) is one of p, or all of it.
LEMMA PrefixOfAppend ==
  ASSUME NEW B, NEW p \in Seq(B), NEW q \in Seq(B), NEW x \in B, NEW y \in B
  PROVE  /\ ~IsPrefix(Append(q, y), <<>>)
         /\ IsPrefix(Append(q, y), Append(p, x)) =>
              (p = q /\ x = y) \/ IsPrefix(Append(q, y), p)
<1>1. PICK s, t : s = Append(q, y) /\ t = Append(p, x)
  OBVIOUS
<1>2. /\ Len(p) \in Nat /\ Len(q) \in Nat
      /\ s \in Seq(B) /\ Len(s) = Len(q) + 1 /\ t \in Seq(B) /\ Len(t) = Len(p) + 1
      /\ \A i \in 1..Len(p) : t[i] = p[i]
  BY <1>1, AppendProperties
<1>3. ~IsPrefix(s, <<>>)
  <2>1. ~(Len(s) <= Len(<<>>))
    BY <1>2
  <2> QED BY <2>1 DEF IsPrefix
<1>4. ASSUME IsPrefix(s, t) PROVE (p = q /\ x = y) \/ IsPrefix(s, p)
  <2>1. Len(s) <= Len(t) /\ SubSeq(s, 1, Len(s)) = SubSeq(t, 1, Len(s))
    BY <1>4 DEF IsPrefix
  <2>2. s = SubSeq(t, 1, Len(s))
    BY <1>2, <2>1, SubSeqFull
  <2>3. CASE Len(s) = Len(t)
    <3>1. SubSeq(t, 1, Len(t)) = t
      BY <1>2, SubSeqFull
    <3>2. s = t
      BY <2>2, <2>3, <3>1
    <3>3. Append(q, y) = Append(p, x)
      BY <1>1, <3>2
    <3>4. q = p /\ y = x
      BY <3>3, AppendInjective
    <3> QED BY <3>4
  <2>4. CASE Len(s) # Len(t)
    <3>1. Len(s) <= Len(p) /\ Len(s) \in 0..Len(p) /\ Len(s) \in 0..Len(t)
      BY <1>2, <2>1, <2>4
    <3>2. PICK n \in Nat : n = Len(s) /\ n <= Len(p) /\ n <= Len(t)
      BY <1>2, <3>1
    <3>3. PICK c, d : c = SubSeq(t, 1, n) /\ d = SubSeq(p, 1, n)
      OBVIOUS
    <3>4. /\ c \in Seq(B) /\ Len(c) = IF 1 <= n THEN n - 1 + 1 ELSE 0
          /\ \A j \in 1..(n - 1 + 1) : c[j] = t[1 + j - 1]
      BY <1>2, <3>2, <3>3, SliceType
    <3>5. /\ d \in Seq(B) /\ Len(d) = IF 1 <= n THEN n - 1 + 1 ELSE 0
          /\ \A j \in 1..(n - 1 + 1) : d[j] = p[1 + j - 1]
      BY <1>2, <3>2, <3>3, SliceType
    <3>6. Len(c) = Len(d) /\ \A j \in 1..Len(c) : c[j] = d[j]
      BY <1>2, <3>2, <3>4, <3>5
    <3>7. c = d
      BY <3>4, <3>5, <3>6, SeqEqual
    <3>8. SubSeq(s, 1, Len(s)) = SubSeq(p, 1, Len(s))
      BY <2>1, <3>2, <3>3, <3>7
    <3> QED BY <3>1, <3>8 DEF IsPrefix
  <2> QED BY <2>3, <2>4
<1> QED BY <1>1, <1>3, <1>4

-----------------------------------------------------------------------------
(***************************************************************************)
(* Mount points of sub-packages.                                           *)
(***************************************************************************)
\* From its place k on, t is f with the slashes replaced.
Replaced(f, t, k) ==
  /\ Len(t) = k + Len(f)
  /\ \A i \in 1..Len(f) : /\ f[i] = "/" => t[k + i] = "*"
                          /\ f[i] # "/" => t[k + i] = f[i]

LEMMA SubMntType ==
  ASSUME NEW A, "#" \in A, "*" \in A, NEW m \in Seq(A), NEW f \in Seq(A)
  PROVE  /\ subMnt(m, f) \in Seq(A)
         /\ Len(subMnt(m, f)) = Len(m) + 1 + Len(f)
         /\ \A i \in 1..Len(m) : subMnt(m, f)[i] = m[i]
         /\ subMnt(m, f)[Len(m) + 1] = "#"
         /\ Replaced(f, subMnt(m, f), Len(m) + 1)
<1>1. PICK r \in Seq(A) : /\ r = ReplaceAll(f, "/", "*")
                          /\ Len(r) = Len(f)
                          /\ \A i \in 1..Len(f) : r[i] = IF f[i] = "/" THEN "*" ELSE f[i]
  <2>1. PICK star \in A : star = "*"
    OBVIOUS
  <2>2. PICK slash : slash = "/"
    OBVIOUS
  <2>3. PICK r : r = ReplaceAll(f, slash, star)
    OBVIOUS
  <2>4. r \in Seq(A) /\ Len(r) = Len(f) /\ \A i \in 1..Len(f) : r[i] = IF f[i] = slash THEN star ELSE f[i]
    BY <2>3, ReplaceAllIs
  <2> QED BY <2>1, <2>2, <2>3, <2>4
<1>2. PICK h \in Seq(A) : h = <<"#">> /\ Len(h) = 1 /\ h[1] = "#"
  BY OneElement
<1>3. PICK x : x = m \o h
  OBVIOUS
<1>4. /\ x \in Seq(A)
      /\ Len(x) = Len(m) + Len(h)
      /\ \A i \in 1..Len(m) + Len(h) : x[i] = IF i <= Len(m) THEN m[i] ELSE h[i - Len(m)]
  BY <1>3, ConcatProperties
<1>5. PICK y : y = x \o r
  OBVIOUS
<1>6. /\ y \in Seq(A)
      /\ Len(y) = Len(x) + Len(r)
      /\ \A i \in 1..Len(x) + Len(r) : y[i] = IF i <= Len(x) THEN x[i] ELSE r[i - Len(x)]
  <2>1. x \in Seq(A) /\ r \in Seq(A)
    BY <1>1, <1>4
  <2> QED BY <1>5, <2>1, ConcatProperties
<1>7. subMnt(m, f) = y
  BY <1>1, <1>2, <1>3, <1>5 DEF subMnt
<1>8. Len(m) \in Nat /\ Len(f) \in Nat /\ Len(x) = Len(m) + 1
  BY <1>2, <1>4
<1>9. Len(y) = Len(m) + 1 + Len(f)
  BY <1>1, <1>6, <1>8
<1>10. \A i \in 1..Len(m) : y[i] = m[i]
  <2> TAKE i \in 1..Len(m)
  <2>1. i \in 1..Len(x) + Len(r) /\ i <= Len(x) /\ i \in 1..Len(m) + Len(h) /\ i <= Len(m)
    BY <1>1, <1>2, <1>8
  <2> QED BY <1>4, <1>6, <2>1
<1>11. y[Len(m) + 1] = "#"
  <2>1. /\ Len(m) + 1 \in 1..Len(x) + Len(r) /\ Len(m) + 1 <= Len(x)
        /\ Len(m) + 1 \in 1..Len(m) + Len(h) /\ ~(Len(m) + 1 <= Len(m))
        /\ Len(m) + 1 - Len(m) = 1
    BY <1>1, <1>2, <1>8
  <2> QED BY <1>2, <1>4, <1>6, <2>1
<1>12. ASSUME NEW i \in 1..Len(f)
       PROVE  y[Len(m) + 1 + i] = IF f[i] = "/" THEN "*" ELSE f[i]
  <2>1. /\ Len(m) + 1 + i \in 1..Len(x) + Len(r) /\ ~(Len(m) + 1 + i <= Len(x))
        /\ Len(m) + 1 + i - Len(x) = i
    BY <1>1, <1>8
  <2>2. y[Len(m) + 1 + i] = r[i]
    BY <1>6, <2>1
  <2> QED BY <1>1, <2>2
<1>13. Replaced(f, y, Len(m) + 1)
  BY <1>9, <1>12 DEF Replaced
<1> QED BY <1>6, <1>7, <1>9, <1>10, <1>11, <1>13

LEMMA ReplacedInjective ==
  ASSUME NEW A, NEW f \in Seq(A), NEW g \in Seq(A), NEW t, NEW k \in Nat,
         Replaced(f, t, k), Replaced(g, t, k), ~Contains(f, "*"), ~Contains(g, "*")
  PROVE  f = g
<1>1. Len(f) = Len(g) /\ Len(f) \in Nat
  BY DEF Replaced
<1>2. ASSUME NEW i \in 1..Len(f) PROVE f[i] = g[i]
  <2>1. f[i] # "*" /\ g[i] # "*"
    BY <1>1 DEF Contains
  <2>2. /\ f[i] = "/" => t[k + i] = "*"
        /\ f[i] # "/" => t[k + i] = f[i]
        /\ g[i] = "/" => t[k + i] = "*"
        /\ g[i] # "/" => t[k + i] = g[i]
    BY <1>1 DEF Replaced
  <2> QED BY <2>1, <2>2
<1> QED BY <1>1, <1>2, SeqEqual

LEMMA SubMntInjective ==
  ASSUME NEW A, NEW m \in Seq(A), NEW f \in Seq(A), NEW g \in Seq(A),
         ~Contains(f, "*"), ~Contains(g, "*"), subMnt(m, f) = subMnt(m, g)
  PROVE  f = g
<1> DEFINE B == A \cup {"#", "*"}
<1>1. m \in Seq(B) /\ f \in Seq(B) /\ g \in Seq(B) /\ "#" \in B /\ "*" \in B
  BY SeqMonotonic
<1> HIDE DEF B
<1>2. ASSUME NEW e \in Seq(B) PROVE Replaced(e, subMnt(m, e), Len(m) + 1)
  BY <1>1, SubMntType DEF Replaced
<1>3. Replaced(f, subMnt(m, f), Len(m) + 1) /\ Replaced(g, subMnt(m, f), Len(m) + 1)
  <2>1. Replaced(f, subMnt(m, f), Len(m) + 1)
    BY <1>1, <1>2
  <2>2. Replaced(g, subMnt(m, g), Len(m) + 1)
    BY <1>1, <1>2
  <2> QED BY <2>1, <2>2
<1>4. Len(m) + 1 \in Nat
  OBVIOUS
<1> QED BY <1>3, <1>4, ReplacedInjective

-----------------------------------------------------------------------------
(***************************************************************************)
(* URIs.  What follows the scheme is a mount point m and a rest w that     *)
(* begins with a slash.                                                    *)
(***************************************************************************)
MntString(m) == m # <<>> /\ \A i \in 1..Len(m) : m[i] \notin {"/", "?", "&", "\\", " "}

\* What Plain says, place by place.
PlainString(t) == \A i \in 1..Len(t) : t[i] \notin {"?", "&", "\\"}

\* A sequence of atoms that begins with a slash.
LEMMA SlashThen ==
  ASSUME NEW A, "/" \in A, NEW t \in Seq(A), PlainString(t)
  PROVE  /\ <<"/">> \o t \in Seq(A) /\ <<"/">> \o t # <<>>
         /\ (<<"/">> \o t)[1] = "/"
         /\ Tail(<<"/">> \o t) = t
         /\ PlainString(<<"/">> \o t)
<1>1. PICK h \in Seq(A) : h = <<"/">> /\ Len(h) = 1 /\ h[1] = "/"
  BY OneElement
<1>2. PICK w : w = h \o t
  OBVIOUS
<1>3. /\ w \in Seq(A)
      /\ Len(h) \in Nat /\ Len(t) \in Nat
      /\ Len(w) = Len(h) + Len(t)
      /\ \A i \in 1..Len(h) : w[i] = h[i]
      /\ \A i \in 1..Len(t) : w[Len(h) + i] = t[i]
  BY <1>1, <1>2, Parts
<1>4. w[1] = "/" /\ Len(w) = 1 + Len(t)
  <2>1. 1 \in 1..Len(h)
    BY <1>1
  <2> QED BY <1>1, <1>3, <2>1
<1>5. w # <<>>
  BY <1>3, <1>4
<1>6. PlainString(w)
  <2>1. ASSUME NEW i \in 1..Len(w) PROVE w[i] \notin {"?", "&", "\\"}
    <3>1. CASE i = 1
      BY <1>4, <3>1
    <3>2. CASE i # 1
      <4>1. i - 1 \in 1..Len(t) /\ 1 + (i - 1) = i
        BY <1>3, <1>4, <3>2
      <4>2. w[i] = t[i - 1]
        BY <1>1, <1>3, <4>1
      <4> QED BY <4>1, <4>2 DEF PlainString
    <3> QED BY <3>1, <3>2
  <2> QED BY <2>1 DEF PlainString
<1>7. Tail(w) = t
  <2>1. PICK x \in A : x = "/"
    OBVIOUS
  <2>2. Tail(<<x>> \o t) = t
    BY TailOfConcat
  <2> QED BY <1>1, <1>2, <2>1, <2>2
<1> QED BY <1>1, <1>2, <1>3, <1>4, <1>5, <1>6, <1>7

\* Whoever looks for the end of the mount point finds it.
LEMMA MntEnd ==
  ASSUME NEW A, NEW m \in Seq(A), MntString(m), NEW w \in Seq(A), w # <<>>, w[1] = "/",
         NEW s, s = m \o w
  PROVE  /\ \A S : "/" \in S /\ S \subseteq {"/", "?", "&", "\\", " "} => Before(s, S) = Len(m)
         /\ s # <<>> /\ Head(s) # "/" /\ LTrim(s, "/") = s
         /\ Len(m) < Len(s)
<1>1. /\ s \in Seq(A)
      /\ Len(m) \in Nat /\ Len(w) \in Nat
      /\ Len(s) = Len(m) + Len(w)
      /\ \A i \in 1..Len(m) : s[i] = m[i]
      /\ \A i \in 1..Len(w) : s[Len(m) + i] = w[i]
  BY Parts
<1>0. m # <<>>
  BY DEF MntString
<1>2. Len(w) > 0 /\ Len(m) > 0
  BY <1>0
<1>3. s[Len(m) + 1] = "/"
  BY <1>1, <1>2
<1>4. ASSUME NEW S, "/" \in S, S \subseteq {"/", "?", "&", "\\", " "}
      PROVE  Before(s, S) = Len(m)
  <2>1. \A j \in 1..Len(m) : s[j] \notin S
    BY <1>1, <1>4 DEF MntString
  <2>2. Len(m) \in 0..Len(s)
    BY <1>1
  <2> QED BY <1>1, <1>3, <1>4, <2>1, <2>2, BeforeUnique
<1>5. s # <<>> /\ s[1] # "/"
  <2>1. 1 \in 1..Len(m)
    BY <1>1, <1>2
  <2>2. m[1] # "/"
    BY <2>1 DEF MntString
  <2> QED BY <1>1, <1>2, <2>1, <2>2
<1>7. Head(s) # "/"
  BY <1>5
<1>8. Len(m) < Len(s)
  BY <1>1, <1>2
<1>6. LTrim(s, "/") = s
  BY <1>1, <1>5, LTrimSame
<1> QED BY <1>4, <1>5, <1>6, <1>7, <1>8

\* The slashes at the end go, whether they are those of the path or the one before it.
LEMMA NameParts ==
  ASSUME NEW A, NEW m \in Seq(A), MntString(m), NEW w \in Seq(A), w # <<>>, w[1] = "/",
         NEW s, s = m \o w
  PROVE  /\ SubSeq(RTrim(s, "/"), 1, Len(m)) = m
         /\ SubSeq(RTrim(s, "/"), Len(m) + 2, Len(RTrim(s, "/"))) = RTrim(Tail(w), "/")
<1>0. PICK n : n = RTrim(s, "/")
  OBVIOUS
<1>1. /\ s \in Seq(A)
      /\ Len(m) \in Nat /\ Len(w) \in Nat
      /\ Len(s) = Len(m) + Len(w)
      /\ \A i \in 1..Len(m) : s[i] = m[i]
      /\ \A i \in 1..Len(w) : s[Len(m) + i] = w[i]
  BY Parts
<1>2. PICK t : t = Tail(w)
  OBVIOUS
<1>3. /\ t \in Seq(A)
      /\ Len(t) = Len(w) - 1
      /\ \A i \in 1..Len(t) : t[i] = w[i + 1]
  BY <1>2, HeadTailProperties
<1>4. PICK L \in Nat : L = Len(m)
  BY <1>1
<1>5. L > 0 /\ s[L] # "/"
  <2>1. m # <<>>
    BY DEF MntString
  <2>2. L > 0 /\ L \in 1..Len(m)
    BY <1>4, <2>1
  <2>3. m[L] # "/"
    BY <2>2 DEF MntString
  <2> QED BY <1>1, <2>2, <2>3
<1>6. Len(t) \in Nat /\ Len(s) = L + 1 + Len(t) /\ Len(w) = 1 + Len(t)
  BY <1>1, <1>3, <1>4
<1>7. s[L + 1] = "/"
  BY <1>1, <1>4, <1>6
<1>8. \A j \in 1..Len(t) : s[L + 1 + j] = t[j]
  <2> TAKE j \in 1..Len(t)
  <2>1. 1 + j \in 1..Len(w) /\ L + (1 + j) = L + 1 + j /\ 1 + j = j + 1
    BY <1>6
  <2>2. s[L + (1 + j)] = w[1 + j]
    BY <1>1, <1>4, <2>1
  <2> QED BY <1>3, <2>1, <2>2
<1>9. PICK k \in 0..Len(t) :
           /\ k # 0 => t[k] # "/"
           /\ \A i \in 1..Len(t) : k < i => t[i] = "/"
           /\ RTrim(t, "/") \in Seq(A)
           /\ Len(RTrim(t, "/")) = k
           /\ \A i \in 1..k : RTrim(t, "/")[i] = t[i]
  <2>1. RTrim(t, "/") \in Seq(A) /\ \E l \in 0..Len(t) : TrimsTo(t, "/", l, RTrim(t, "/"))
    BY <1>3, RTrimIs
  <2> QED BY <2>1 DEF TrimsTo
<1>10. PICK l \in 0..Len(s) :
           /\ l # 0 => s[l] # "/"
           /\ \A i \in 1..Len(s) : l < i => s[i] = "/"
           /\ RTrim(s, "/") \in Seq(A)
           /\ Len(RTrim(s, "/")) = l
           /\ \A i \in 1..l : RTrim(s, "/")[i] = s[i]
  <2>1. RTrim(s, "/") \in Seq(A) /\ \E l \in 0..Len(s) : TrimsTo(s, "/", l, RTrim(s, "/"))
    BY <1>1, RTrimIs
  <2> QED BY <2>1 DEF TrimsTo
<1>11. l >= L
  <2>1. L \in 1..Len(s)
    BY <1>5, <1>6
  <2> QED BY SMTT(30), <1>5, <1>10, <2>1
<1>12. l = IF k = 0 THEN L ELSE L + 1 + k
  <2>1. l # L + 1
    BY <1>5, <1>7, <1>10
  <2>2. ASSUME l > L + 1 PROVE l = L + 1 + k /\ k # 0
    <3>1. PICK j \in 1..Len(t) : l = L + 1 + j
      <4>1. l - (L + 1) \in 1..Len(t) /\ l = L + 1 + (l - (L + 1))
        BY <1>6, <1>10, <2>2
      <4> QED BY <4>1
    <3>2. t[j] # "/"
      BY <1>8, <1>10, <3>1
    <3>3. ~(k < j)
      BY <1>9, <3>2
    <3>4. ~(j < k)
      <4> SUFFICES ASSUME j < k PROVE FALSE
        OBVIOUS
      <4>1. k \in 1..Len(t) /\ t[k] # "/"
        BY <1>9
      <4>2. L + 1 + k \in 1..Len(s) /\ l < L + 1 + k
        BY <1>6, <1>9, <3>1
      <4> QED BY <1>8, <1>10, <4>1, <4>2
    <3> QED BY <1>9, <3>1, <3>3, <3>4
  <2>3. ASSUME l = L PROVE k = 0
    <3> SUFFICES ASSUME k # 0 PROVE FALSE
      OBVIOUS
    <3>1. k \in 1..Len(t) /\ t[k] # "/"
      BY <1>9
    <3>2. L + 1 + k \in 1..Len(s) /\ l < L + 1 + k
      BY <1>6, <1>9, <2>3
    <3> QED BY <1>8, <1>10, <3>1, <3>2
  <2>4. l = L \/ l = L + 1 \/ l > L + 1
    BY <1>10, <1>11
  <2> QED BY <2>1, <2>2, <2>3, <2>4
<1>13. n \in Seq(A) /\ Len(n) = l /\ \A i \in 1..l : n[i] = s[i]
  BY <1>0, <1>10
<1>14. SubSeq(n, 1, L) = m
  <2>1. L \in 0..Len(n) /\ 1 \in Nat \ {0}
    BY <1>11, <1>13
  <2>2. /\ SubSeq(n, 1, L) \in Seq(A)
        /\ Len(SubSeq(n, 1, L)) = IF 1 <= L THEN L - 1 + 1 ELSE 0
        /\ \A j \in 1..(L - 1 + 1) : SubSeq(n, 1, L)[j] = n[1 + j - 1]
    BY <1>13, <2>1, SliceType
  <2>3. Len(SubSeq(n, 1, L)) = Len(m)
    BY <1>4, <1>5, <2>2
  <2>4. ASSUME NEW j \in 1..L PROVE SubSeq(n, 1, L)[j] = m[j]
    <3>1. j \in 1..(L - 1 + 1) /\ 1 + j - 1 = j /\ j \in 1..l
      BY <1>10, <1>11
    <3>2. n[j] = s[j] /\ s[j] = m[j]
      BY <1>1, <1>4, <1>13, <3>1
    <3> QED BY <2>2, <3>1, <3>2
  <2> QED BY <1>4, <2>2, <2>3, <2>4, SeqEqual
<1>15. SubSeq(n, L + 2, l) = RTrim(t, "/")
  <2>1. l \in 0..Len(n) /\ L + 2 \in Nat \ {0}
    BY <1>10, <1>13
  <2>2. /\ SubSeq(n, L + 2, l) \in Seq(A)
        /\ Len(SubSeq(n, L + 2, l)) = IF L + 2 <= l THEN l - (L + 2) + 1 ELSE 0
        /\ \A j \in 1..(l - (L + 2) + 1) : SubSeq(n, L + 2, l)[j] = n[L + 2 + j - 1]
    BY <1>13, <2>1, SliceType
  <2>3. Len(SubSeq(n, L + 2, l)) = k
    BY <1>9, <1>12, <2>2
  <2>4. ASSUME NEW j \in 1..k PROVE SubSeq(n, L + 2, l)[j] = RTrim(t, "/")[j]
    <3>1. /\ j \in 1..(l - (L + 2) + 1) /\ L + 2 + j - 1 = L + 1 + j
          /\ L + 1 + j \in 1..l /\ j \in 1..Len(t)
      BY <1>9, <1>12
    <3>2. n[L + 1 + j] = t[j]
      BY <1>8, <1>13, <3>1
    <3> QED BY <1>9, <2>2, <3>1, <3>2
  <2>5. RTrim(t, "/") \in Seq(A) /\ Len(RTrim(t, "/")) = k
    BY <1>9
  <2> QED BY <2>2, <2>3, <2>4, <2>5, SeqEqual
<1> QED BY <1>0, <1>2, <1>4, <1>13, <1>14, <1>15

Answer(command, mnt, path) ==
  [exc |-> FALSE, overrun |-> FALSE, command |-> command, mnt |-> mnt, path |-> path]

\* The URI of a path.
LEMMA PathParsed ==
  ASSUME NEW A, NEW m \in Seq(A), MntString(m),
         NEW w \in Seq(A), w # <<>>, w[1] = "/", PlainString(w),
         NEW s, s = m \o w
  PROVE  /\ ~Unreadable(s) /\ normalizeURI(s) = s /\ ~Contains(s, "?")
         /\ Parsed(s) = Answer(<<>>, m, RTrim(Tail(w), "/"))
<1>1. /\ s \in Seq(A)
      /\ Len(m) \in Nat /\ Len(w) \in Nat
      /\ Len(s) = Len(m) + Len(w)
      /\ \A i \in 1..Len(m) : s[i] = m[i]
      /\ \A i \in 1..Len(w) : s[Len(m) + i] = w[i]
  BY Parts
<1>2. \A i \in 1..Len(s) : s[i] \notin {"?", "&", "\\"}
  <2> TAKE i \in 1..Len(s)
  <2>1. CASE i <= Len(m)
    <3>1. i \in 1..Len(m)
      BY <1>1, <2>1
    <3> QED BY <1>1, <3>1 DEF MntString
  <2>2. CASE i > Len(m)
    <3>1. i - Len(m) \in 1..Len(w) /\ Len(m) + (i - Len(m)) = i
      BY <1>1, <2>2
    <3>2. s[i] = w[i - Len(m)]
      BY <1>1, <3>1
    <3> QED BY <3>1, <3>2 DEF PlainString
  <2> QED BY <1>1, <2>1, <2>2
<1>3. Places(s, "?") = {} /\ Places(s, "&") = {}
  BY <1>2 DEF Places
<1>4. s # <<>> /\ Len(m) < Len(s) /\ Before(s, {"/", "?"}) = Len(m)
  <2>1. \A S : "/" \in S /\ S \subseteq {"/", "?", "&", "\\", " "} => Before(s, S) = Len(m)
    BY MntEnd
  <2> QED BY <2>1, MntEnd
<1>5. ~Unreadable(s)
  <2>1. Len(s) \in 1..Len(s)
    BY <1>1, <1>4
  <2>2. s[Len(s)] # "?"
    BY <1>2, <2>1
  <2> QED BY <1>3, <2>2 DEF Unreadable
<1>6. normalizeURI(s) = s
  BY ZenonT(60), <1>1, <1>2, ReplaceAllSame DEF normalizeURI
<1>7. ~Contains(s, "?")
  BY <1>2 DEF Contains
<1>8. PICK n : n = RTrim(s, "/")
  OBVIOUS
<1>9. Name(s) = n
  BY <1>3, <1>8, Last0None DEF Name
<1>11. m # <<>>
  BY DEF MntString
<1>10. Cut(s, n, Len(m)) = [mnt |-> m, path |-> RTrim(Tail(w), "/")]
  <2>1. SubSeq(n, 1, Len(m)) = m /\ SubSeq(n, Len(m) + 2, Len(n)) = RTrim(Tail(w), "/")
    <3>1. /\ SubSeq(RTrim(s, "/"), 1, Len(m)) = m
          /\ SubSeq(RTrim(s, "/"), Len(m) + 2, Len(RTrim(s, "/"))) = RTrim(Tail(w), "/")
      BY ZenonT(60), NameParts
    <3> QED BY <1>8, <3>1
  <2>2. Len(m) # 0
    BY <1>11
  <2> QED BY <2>1, <2>2 DEF Cut
<1>12. Last0(Places(s, "?")) = 0
  BY <1>3, Last0None
<1>13. Cut(s, Name(s), Before(s, {"/", "?"})) = [mnt |-> m, path |-> RTrim(Tail(w), "/")]
  BY <1>4, <1>9, <1>10
<1>14. Parsed(s) = Answer(<<>>, m, RTrim(Tail(w), "/"))
  <2>1. PICK q : q = Last0(Places(s, "?"))
    OBVIOUS
  <2>2. PICK cut : cut = Cut(s, Name(s), Before(s, {"/", "?"}))
    OBVIOUS
  <2>3. cut.mnt = m /\ cut.path = RTrim(Tail(w), "/")
    BY <1>13, <2>2
  <2>4. (q = 0 /\ cut.mnt = <<>>) = FALSE /\ (q # 0 /\ q + cmd_len(s) > Len(s)) = FALSE
    BY <1>11, <1>12, <2>1, <2>3
  <2>5. Parsed(s) = [exc |-> q = 0 /\ cut.mnt = <<>>,
                     overrun |-> q # 0 /\ q + cmd_len(s) > Len(s),
                     command |-> IF q = 0 THEN <<>> ELSE SubSeq(s, q + 1, q + cmd_len(s)),
                     mnt |-> cut.mnt,
                     path |-> cut.path]
    BY <2>1, <2>2 DEF Parsed
  <2>6. q = 0
    BY <1>12, <2>1
  <2> QED BY <2>3, <2>4, <2>5, <2>6 DEF Answer
<1> QED BY <1>5, <1>6, <1>7, <1>14

\* The URI of a command: it goes from the third place of w to k, where the first "&" is,
\* or w ends.
CommandRest(w, k) ==
  /\ w # <<>> /\ w[1] = "/" /\ w[2] = "?" /\ k \in 3..Len(w)
  /\ \A i \in 3..Len(w) : w[i] \notin {"?", "\\"}
  /\ \/ k = Len(w) /\ \A i \in 3..Len(w) : w[i] # "&"
     \/ k = 3 /\ 4 <= Len(w) /\ \A i \in 3..Len(w) : w[i] = "&" <=> i = 4

CommandPlaced(s, mnt_len, rest_len, k) ==
  /\ Places(s, "?") = {mnt_len + 2}
  /\ \/ k = rest_len /\ Places(s, "&") = {}
     \/ k = 3 /\ Places(s, "&") = {mnt_len + 4}
  /\ s[Len(s)] # "?"
  /\ \A i \in 1..Len(s) : s[i] # "\\"

\* In such a URI the characters that parseURI() looks for are where they were put.
LEMMA CommandPlaces ==
  ASSUME NEW A, NEW m \in Seq(A), MntString(m), NEW w \in Seq(A), NEW k, CommandRest(w, k),
         NEW s, s = m \o w
  PROVE  CommandPlaced(s, Len(m), Len(w), k)
<1>1. /\ Len(m) \in Nat /\ Len(w) \in Nat
      /\ Len(s) = Len(m) + Len(w)
      /\ \A i \in 1..Len(m) : s[i] = m[i]
      /\ \A i \in 1..Len(w) : s[Len(m) + i] = w[i]
  BY Parts
<1>2. PICK L \in Nat : L = Len(m)
  BY <1>1
<1>3. /\ k \in 3..Len(w) /\ w[1] = "/" /\ w[2] = "?"
      /\ \A i \in 3..Len(w) : w[i] # "?" /\ w[i] # "\\"
      /\ \/ k = Len(w) /\ \A i \in 3..Len(w) : w[i] # "&"
         \/ k = 3 /\ 4 <= Len(w) /\ \A i \in 3..Len(w) : w[i] = "&" <=> i = 4
  BY DEF CommandRest
<1>4. Len(w) >= 3
  BY <1>1, <1>3
<1>5. \A i \in 1..L : s[i] # "?" /\ s[i] # "&" /\ s[i] # "\\"
  BY <1>1, <1>2 DEF MntString
<1>6. s[L + 1] = "/" /\ s[L + 2] = "?"
  BY <1>1, <1>2, <1>3, <1>4
<1>7. \A i \in 3..Len(w) : s[L + i] = w[i]
  BY SMTT(30), <1>1, <1>2
<1>8. ASSUME NEW i \in 1..Len(s)
      PROVE  \/ i \in 1..L
             \/ i = L + 1 \/ i = L + 2
             \/ \E j \in 3..Len(w) : i = L + j
  <2>1. CASE i > L + 2
    <3>1. i - L \in 3..Len(w) /\ i = L + (i - L)
      BY <1>1, <1>2, <2>1
    <3> QED BY <3>1
  <2>2. CASE i <= L + 2
    BY <1>1, <1>2, <2>2
  <2> QED BY <1>1, <2>1, <2>2
<1>9. ASSUME NEW i \in 1..Len(s) PROVE (s[i] = "?" <=> i = L + 2) /\ s[i] # "\\"
  <2>1. CASE i \in 1..L
    BY <1>5, <2>1
  <2>2. CASE i = L + 1 \/ i = L + 2
    BY <1>6, <2>2
  <2>3. CASE \E j \in 3..Len(w) : i = L + j
    <3>1. PICK j \in 3..Len(w) : i = L + j
      BY <2>3
    <3>2. w[j] # "?" /\ w[j] # "\\" /\ s[L + j] = w[j]
      BY <1>3, <1>7, <3>1
    <3>3. i # L + 2
      BY <3>1
    <3> QED BY <3>1, <3>2, <3>3
  <2> QED BY <1>8, <2>1, <2>2, <2>3
<1>10. L + 2 \in 1..Len(s) /\ Len(s) \in 1..Len(s) /\ Len(s) # L + 2
  BY <1>1, <1>2, <1>4
<1>11. Places(s, "?") = {L + 2}
  BY <1>9, <1>10 DEF Places
<1>12. s[Len(s)] # "?"
  BY <1>9, <1>10
<1>13. CASE k = Len(w) /\ \A i \in 3..Len(w) : w[i] # "&"
  <2>1. ASSUME NEW i \in 1..Len(s) PROVE s[i] # "&"
    <3>1. CASE i \in 1..L
      BY <1>5, <3>1
    <3>2. CASE i = L + 1 \/ i = L + 2
      BY <1>6, <3>2
    <3>3. CASE \E j \in 3..Len(w) : i = L + j
      BY <1>7, <1>13, <3>3
    <3> QED BY <1>8, <3>1, <3>2, <3>3
  <2>2. Places(s, "&") = {}
    BY <2>1 DEF Places
  <2> QED BY <1>2, <1>9, <1>11, <1>12, <1>13, <2>2 DEF CommandPlaced
<1>14. CASE k = 3 /\ 4 <= Len(w) /\ \A i \in 3..Len(w) : w[i] = "&" <=> i = 4
  <2>1. ASSUME NEW i \in 1..Len(s) PROVE s[i] = "&" <=> i = L + 4
    <3>1. CASE i \in 1..L
      BY <1>5, <3>1
    <3>2. CASE i = L + 1 \/ i = L + 2
      BY SMTT(30), <1>6, <3>2
    <3>3. CASE \E j \in 3..Len(w) : i = L + j
      <4>1. PICK j \in 3..Len(w) : i = L + j
        BY <3>3
      <4>2. s[i] = "&" <=> j = 4
        BY <1>7, <1>14, <4>1
      <4> QED BY <4>1, <4>2
    <3> QED BY <1>8, <3>1, <3>2, <3>3
  <2>2. L + 4 \in 1..Len(s)
    BY <1>1, <1>2, <1>14
  <2>3. Places(s, "&") = {L + 4}
    BY <2>1, <2>2 DEF Places
  <2> QED BY <1>2, <1>9, <1>11, <1>12, <1>14, <2>3 DEF CommandPlaced
<1> QED BY <1>3, <1>13, <1>14

LEMMA CommandParsed ==
  ASSUME NEW A, "/" \in A, NEW m \in Seq(A), MntString(m),
         NEW w \in Seq(A), NEW k, CommandRest(w, k),
         NEW s, s = m \o w
  PROVE  /\ ~Unreadable(s) /\ normalizeURI(s) = s /\ Contains(s, "?")
         /\ Parsed(s) = Answer(SubSeq(w, 3, k), m, <<>>)
<1>1. /\ s \in Seq(A)
      /\ Len(m) \in Nat /\ Len(w) \in Nat
      /\ Len(s) = Len(m) + Len(w)
      /\ \A i \in 1..Len(m) : s[i] = m[i]
      /\ \A i \in 1..Len(w) : s[Len(m) + i] = w[i]
  BY Parts
<1>2. PICK L \in Nat : L = Len(m)
  BY <1>1
<1>3. /\ Places(s, "?") = {L + 2}
      /\ \/ k = Len(w) /\ Places(s, "&") = {}
         \/ k = 3 /\ Places(s, "&") = {L + 4}
      /\ s[Len(s)] # "?"
      /\ \A i \in 1..Len(s) : s[i] # "\\"
  <2>1. CommandPlaced(s, Len(m), Len(w), k)
    BY CommandPlaces
  <2> QED BY <1>2, <2>1 DEF CommandPlaced
<1>4. k \in 3..Len(w) /\ w # <<>> /\ w[1] = "/"
  BY DEF CommandRest
<1>5. ~Unreadable(s)
  <2>1. ~ \E i \in Places(s, "&") : \A j \in Places(s, "?") : i < j
    <3>1. ~(L + 4 < L + 2) /\ L + 2 \in Places(s, "?")
      BY <1>3
    <3> QED BY <1>3, <3>1
  <2> QED BY <1>3, <2>1 DEF Unreadable
<1>6. normalizeURI(s) = s
  <2>1. \A i \in 1..Len(s) : s[i] # "\\"
    BY <1>3
  <2> QED BY <1>1, <2>1, ReplaceAllSame DEF normalizeURI
<1>7. Contains(s, "?")
  <2>1. L + 2 \in Places(s, "?")
    BY <1>3
  <2> QED BY <2>1 DEF Contains, Places
<1>8. Last0(Places(s, "?")) = L + 2
  BY <1>3, Last0Single
<1>9. cmd_len(s) = k - 2
  <2> DEFINE amp == Last0(Places(s, "&"))
             query == Last0({i \in Places(s, "?") : i < amp})
  <2>1. cmd_len(s) = IF amp > query + 1 THEN amp - query - 1 ELSE Len(s) - (L + 2)
    BY <1>8 DEF cmd_len
  <2>2. CASE k = Len(w) /\ Places(s, "&") = {}
    <3>1. amp = 0
      BY <2>2, Last0None
    <3>2. {i \in Places(s, "?") : i < amp} = {}
      BY <1>3, <3>1
    <3>3. query = 0
      BY <3>2, Last0None
    <3>4. cmd_len(s) = Len(s) - (L + 2)
      BY <2>1, <3>1, <3>3
    <3> QED BY <1>1, <1>2, <2>2, <3>4
  <2>3. CASE k = 3 /\ Places(s, "&") = {L + 4}
    <3>1. amp = L + 4
      BY <2>3, Last0Single
    <3>2. {i \in Places(s, "?") : i < amp} = {L + 2}
      BY <1>3, <3>1
    <3>3. query = L + 2
      BY <3>2, Last0Single
    <3>4. cmd_len(s) = L + 4 - (L + 2) - 1
      BY <2>1, <3>1, <3>3
    <3> QED BY <2>3, <3>4
  <2> QED BY <1>3, <2>2, <2>3
<1>10. SubSeq(s, L + 3, L + k) = SubSeq(w, 3, k)
  <2>1. /\ L + 3 \in Len(m) + 1..Len(m) + Len(w) /\ L + k \in Len(m) + 1..Len(m) + Len(w)
        /\ L + 3 - Len(m) = 3 /\ L + k - Len(m) = k
    BY <1>1, <1>2, <1>4
  <2>2. SubSeq(m \o w, L + 3, L + k) = SubSeq(w, 3, k)
    <3>1. PICK a : a = L + 3
      OBVIOUS
    <3>2. PICK b : b = L + k
      OBVIOUS
    <3>3. a \in Len(m) + 1..Len(m) + Len(w) /\ b \in Len(m) + 1..Len(m) + Len(w)
      BY <2>1, <3>1, <3>2
    <3>4. SubSeq(m \o w, a, b) = SubSeq(w, a - Len(m), b - Len(m))
      BY <3>3, SubSeqOfConcat2
    <3>5. a - Len(m) = 3 /\ b - Len(m) = k
      BY <1>2, <1>4, <3>1, <3>2
    <3>6. SubSeq(m \o w, a, b) = SubSeq(w, 3, k)
      BY <3>4, <3>5
    <3> QED BY <3>1, <3>2, <3>6
  <2> QED BY <2>2
<1>11. PICK h \in Seq(A) : h = <<"/">> /\ Len(h) = 1 /\ h[1] = "/"
  BY OneElement
<1>12. SubSeq(s, 1, L + 1) = m \o h
  <2>1. L + 1 \in 0..Len(s) /\ 1 \in Nat \ {0}
    BY <1>1, <1>2, <1>4
  <2>2. PICK x : x = SubSeq(s, 1, L + 1)
    OBVIOUS
  <2>3. /\ x \in Seq(A)
        /\ Len(x) = IF 1 <= L + 1 THEN L + 1 - 1 + 1 ELSE 0
        /\ \A j \in 1..(L + 1 - 1 + 1) : x[j] = s[1 + j - 1]
    BY <1>1, <2>1, <2>2, SliceType
  <2>4. PICK y : y = m \o h
    OBVIOUS
  <2>5. /\ y \in Seq(A)
        /\ Len(y) = Len(m) + Len(h)
        /\ \A i \in 1..Len(m) : y[i] = m[i]
        /\ \A i \in 1..Len(h) : y[Len(m) + i] = h[i]
    BY <1>11, <2>4, Parts
  <2>6. Len(x) = L + 1 /\ Len(y) = L + 1
    BY <1>2, <1>11, <2>3, <2>5
  <2>7. ASSUME NEW j \in 1..(L + 1) PROVE x[j] = y[j]
    <3>1. x[j] = s[j]
      <4>1. j \in 1..(L + 1 - 1 + 1) /\ 1 + j - 1 = j
        OBVIOUS
      <4> QED BY <2>3, <4>1
    <3>2. CASE j \in 1..L
      BY <1>1, <1>2, <2>5, <3>1, <3>2
    <3>3. CASE j = L + 1
      <4>1. y[Len(m) + 1] = h[1] /\ s[Len(m) + 1] = w[1]
        <5>1. 1 \in 1..Len(h) /\ 1 \in 1..Len(w)
          BY <1>1, <1>4, <1>11
        <5> QED BY <1>1, <2>5, <5>1
      <4> QED BY <1>2, <1>4, <1>11, <3>1, <3>3, <4>1
    <3> QED BY <3>2, <3>3
  <2> QED BY <2>2, <2>3, <2>4, <2>5, <2>6, <2>7, SeqEqual
<1>13. PICK n : n = RTrim(m \o h, "/")
  OBVIOUS
<1>14. Name(s) = n
  <2>1. PICK q : q = Last0(Places(s, "?"))
    OBVIOUS
  <2>2. q # 0 /\ q - 1 = L + 1
    BY <1>8, <2>1
  <2>3. Name(s) = RTrim(IF q = 0 THEN s ELSE SubSeq(s, 1, q - 1), "/")
    BY <2>1 DEF Name
  <2>4. (IF q = 0 THEN s ELSE SubSeq(s, 1, q - 1)) = m \o h
    BY <1>12, <2>2
  <2> QED BY <1>13, <2>3, <2>4
<1>15. SubSeq(n, 1, L) = m /\ SubSeq(n, L + 2, Len(n)) = <<>>
  <2>1. h # <<>>
    BY <1>11
  <2>4. PICK x : x = m \o h
    OBVIOUS
  <2>5. h \in Seq(A) /\ h[1] = "/"
    BY <1>11
  <2>2. /\ SubSeq(RTrim(x, "/"), 1, Len(m)) = m
        /\ SubSeq(RTrim(x, "/"), Len(m) + 2, Len(RTrim(x, "/"))) = RTrim(Tail(h), "/")
    BY ZenonT(60), <2>1, <2>4, <2>5, NameParts
  <2>3. Tail(h) = <<>>
    BY <1>11
  <2> QED BY <1>2, <1>13, <2>2, <2>3, <2>4, RTrimEmpty
<1>16. m # <<>>
  BY DEF MntString
<1>17. Before(s, {"/", "?"}) = L
  <2>1. \A S : "/" \in S /\ S \subseteq {"/", "?", "&", "\\", " "} => Before(s, S) = Len(m)
    BY <1>4, MntEnd
  <2> QED BY <1>2, <2>1
<1>18. PICK cut : cut = Cut(s, Name(s), Before(s, {"/", "?"}))
  OBVIOUS
<1>19. cut.mnt = m /\ cut.path = <<>>
  <2>1. cut = [mnt |-> SubSeq(n, 1, L), path |-> IF L = 0 THEN <<>> ELSE SubSeq(n, L + 2, Len(n))]
    BY <1>14, <1>17, <1>18 DEF Cut
  <2> QED BY <1>15, <2>1
<1>20. Parsed(s) = Answer(SubSeq(w, 3, k), m, <<>>)
  <2>1. PICK q : q = Last0(Places(s, "?"))
    OBVIOUS
  <2>2. q = L + 2 /\ q # 0 /\ q + cmd_len(s) = L + k /\ q + 1 = L + 3 /\ ~(L + k > Len(s))
    <3>1. Len(w) \in Nat /\ k \in 3..Len(w)
      BY <1>4
    <3>2. Len(s) = L + Len(w)
      BY <1>1, <1>2
    <3>3. L + 2 # 0 /\ L + 2 + (k - 2) = L + k /\ L + 2 + 1 = L + 3
      BY <3>1
    <3>4. ~(L + k > Len(s))
      BY <3>1, <3>2
    <3> QED BY <1>8, <1>9, <2>1, <3>3, <3>4
  <2>3. (q = 0 /\ cut.mnt = <<>>) = FALSE /\ (q # 0 /\ q + cmd_len(s) > Len(s)) = FALSE
    BY <2>2
  <2>4. Parsed(s) = [exc |-> q = 0 /\ cut.mnt = <<>>,
                     overrun |-> q # 0 /\ q + cmd_len(s) > Len(s),
                     command |-> IF q = 0 THEN <<>> ELSE SubSeq(s, q + 1, q + cmd_len(s)),
                     mnt |-> cut.mnt,
                     path |-> cut.path]
    BY <1>18, <2>1 DEF Parsed
  <2> QED BY <1>10, <1>19, <2>2, <2>3, <2>4 DEF Answer
<1> QED BY <1>5, <1>6, <1>7, <1>20

\* The rest of the URI of a command, and of a section.
LEMMA CommandRests ==
  ASSUME NEW A, "/" \in A, "?" \in A, NEW c \in Seq(A), c # <<>>, PlainString(c),
         NEW w, w = <<"/", "?">> \o c
  PROVE  w \in Seq(A) /\ CommandRest(w, Len(w)) /\ SubSeq(w, 3, Len(w)) = c
<1>1. PICK h : h = <<"/", "?">>
  OBVIOUS
<1>2. h \in Seq(A) /\ Len(h) = 2 /\ h[1] = "/" /\ h[2] = "?"
  <2>1. PICK x \in A : x = "/"
    OBVIOUS
  <2>2. PICK y \in A : y = "?"
    OBVIOUS
  <2>3. <<x, y>> \in Seq(A) /\ Len(<<x, y>>) = 2 /\ <<x, y>>[1] = x /\ <<x, y>>[2] = y
    OBVIOUS
  <2> QED BY <1>1, <2>1, <2>2, <2>3
<1>3. /\ w \in Seq(A)
      /\ Len(h) \in Nat /\ Len(c) \in Nat
      /\ Len(w) = Len(h) + Len(c)
      /\ \A i \in 1..Len(h) : w[i] = h[i]
      /\ \A i \in 1..Len(c) : w[Len(h) + i] = c[i]
  BY <1>1, <1>2, Parts
<1>4. Len(c) \in Nat \ {0} /\ Len(w) = 2 + Len(c)
  BY <1>2, <1>3
<1>5. w[1] = "/" /\ w[2] = "?"
  <2>1. 1 \in 1..Len(h) /\ 2 \in 1..Len(h)
    BY <1>2
  <2> QED BY <1>2, <1>3, <2>1
<1>6. ASSUME NEW i \in 3..Len(w) PROVE w[i] \notin {"?", "&", "\\"}
  <2>1. i - 2 \in 1..Len(c) /\ 2 + (i - 2) = i
    BY <1>4
  <2>2. w[i] = c[i - 2]
    BY <1>2, <1>3, <2>1
  <2> QED BY <2>1, <2>2 DEF PlainString
<1>7. Len(w) \in 3..Len(w) /\ w # <<>>
  <2>1. Len(w) # 0 /\ Len(w) \in 3..Len(w)
    BY <1>4
  <2> QED BY <2>1
<1>8. CommandRest(w, Len(w))
  BY <1>5, <1>6, <1>7 DEF CommandRest
<1>9. SubSeq(w, 3, Len(w)) = c
  <2>1. PICK x : x = SubSeq(w, 3, Len(w))
    OBVIOUS
  <2>2. Len(w) \in 0..Len(w) /\ 3 \in Nat \ {0}
    BY <1>4
  <2>3. /\ x \in Seq(A)
        /\ Len(x) = IF 3 <= Len(w) THEN Len(w) - 3 + 1 ELSE 0
        /\ \A j \in 1..(Len(w) - 3 + 1) : x[j] = w[3 + j - 1]
    BY <1>3, <2>1, <2>2, SliceType
  <2>4. Len(x) = Len(c)
    BY <1>4, <2>3
  <2>5. ASSUME NEW j \in 1..Len(c) PROVE x[j] = c[j]
    <3>1. j \in 1..(Len(w) - 3 + 1) /\ 3 + j - 1 = 2 + j
      BY <1>4
    <3>2. x[j] = w[2 + j]
      BY <2>3, <3>1
    <3> QED BY <1>2, <1>3, <3>2
  <2> QED BY <2>1, <2>3, <2>4, <2>5, SeqEqual
<1> QED BY <1>3, <1>8, <1>9

LEMMA SectionRests ==
  ASSUME NEW A, NEW h \in Seq(A), Len(h) \in {5, 6}, h[1] = "/", h[2] = "?", h[3] = "section",
         h[4] = "&", \A i \in 5..Len(h) : h[i] \notin {"?", "&", "\\"},
         NEW c \in Seq(A), PlainString(c),
         NEW w, w = h \o c
  PROVE  w \in Seq(A) /\ CommandRest(w, 3) /\ SubSeq(w, 3, 3) = <<"section">>
<1>1. /\ w \in Seq(A)
      /\ Len(h) \in Nat /\ Len(c) \in Nat
      /\ Len(w) = Len(h) + Len(c)
      /\ \A i \in 1..Len(h) : w[i] = h[i]
      /\ \A i \in 1..Len(c) : w[Len(h) + i] = c[i]
  BY Parts
<1>2. Len(h) >= 5
  <2>1. \A n \in {5, 6} : n >= 5
    OBVIOUS
  <2> QED BY <2>1
<1>3. w[1] = "/" /\ w[2] = "?" /\ w[3] = "section" /\ w[4] = "&"
  <2>1. 1 \in 1..Len(h) /\ 2 \in 1..Len(h) /\ 3 \in 1..Len(h) /\ 4 \in 1..Len(h)
    BY <1>1, <1>2
  <2> QED BY <1>1, <2>1
<1>4. ASSUME NEW i \in 5..Len(w) PROVE w[i] \notin {"?", "&", "\\"}
  <2>1. CASE i <= Len(h)
    <3>1. i \in 5..Len(h) /\ i \in 1..Len(h)
      BY <1>1, <2>1
    <3> QED BY <1>1, <3>1
  <2>2. CASE i > Len(h)
    <3>1. i - Len(h) \in 1..Len(c) /\ Len(h) + (i - Len(h)) = i
      BY <1>1, <2>2
    <3>2. w[i] = c[i - Len(h)]
      BY <1>1, <3>1
    <3> QED BY <3>1, <3>2 DEF PlainString
  <2>3. i <= Len(h) \/ i > Len(h)
    BY <1>1
  <2> QED BY <2>1, <2>2, <2>3
<1>5. Len(w) \in Nat /\ Len(w) >= 5
  BY <1>1, <1>2
<1>6. ASSUME NEW i \in 3..Len(w)
      PROVE  w[i] # "?" /\ w[i] # "\\" /\ (w[i] = "&" <=> i = 4)
  <2>1. i = 3 \/ i = 4 \/ i \in 5..Len(w)
    BY <1>5
  <2>2. CASE i = 3 \/ i = 4
    BY <1>3, <2>2
  <2>3. CASE i \in 5..Len(w)
    <3>1. i # 4
      BY <2>3
    <3> QED BY <1>4, <2>3, <3>1
  <2> QED BY <2>1, <2>2, <2>3
<1>7. w # <<>> /\ 3 \in 3..Len(w) /\ 4 <= Len(w)
  <2>1. Len(w) # 0 /\ 3 \in 3..Len(w) /\ 4 <= Len(w)
    BY <1>5
  <2> QED BY <2>1
<1>8. CommandRest(w, 3)
  BY <1>3, <1>6, <1>7 DEF CommandRest
<1>9. SubSeq(w, 3, 3) = <<"section">>
  <2>1. PICK x : x = SubSeq(w, 3, 3)
    OBVIOUS
  <2>2. 3 \in 0..Len(w) /\ 3 \in Nat \ {0}
    BY <1>5
  <2>3. /\ x \in Seq(A)
        /\ Len(x) = IF 3 <= 3 THEN 3 - 3 + 1 ELSE 0
        /\ \A j \in 1..(3 - 3 + 1) : x[j] = w[3 + j - 1]
    BY <1>1, <2>1, <2>2, SliceType
  <2>4. Len(x) = 1 /\ x[1] = "section"
    <3>1. 1 \in 1..(3 - 3 + 1) /\ 3 + 1 - 1 = 3 /\ 3 - 3 + 1 = 1
      OBVIOUS
    <3> QED BY <1>3, <2>3, <3>1
  <2> QED BY ZenonT(60), <2>1, <2>3, <2>4, OneOnly
<1> QED BY <1>1, <1>8, <1>9

\* What is in a URI is found in it again: by the stream wrapper, by uriToMnt() and, if it
\* has no command, by the one who looks for the key of the opcode cache.
RoundTrips(u, m, command, path) ==
  /\ parseURI(u) = Answer(command, m, path)
  /\ uriToMnt(u) = m
  /\ cache_key_mnt(u) = IF command = <<>> THEN m ELSE <<>>

LEMMA UriParsed ==
  ASSUME NEW A, Scheme \in A, NEW m \in Seq(A), MntString(m), NEW w \in Seq(A), w # <<>>, w[1] = "/",
         NEW u, u = <<Scheme>> \o (m \o w),
         ~Unreadable(m \o w), normalizeURI(m \o w) = m \o w
  PROVE  /\ parseURI(u) = Parsed(m \o w)
         /\ uriToMnt(u) = m
         /\ cache_key_mnt(u) = IF Contains(m \o w, "?") THEN <<>> ELSE m
<1>1. PICK s : s = m \o w
  OBVIOUS
<1>2. /\ s \in Seq(A)
      /\ Len(m) \in Nat /\ Len(w) \in Nat
      /\ Len(s) = Len(m) + Len(w)
      /\ SubSeq(s, 1, Len(m)) = m
  BY <1>1, Parts
<1>3. /\ \A S : "/" \in S /\ S \subseteq {"/", "?", "&", "\\", " "} => Before(s, S) = Len(m)
      /\ LTrim(s, "/") = s
      /\ Len(m) < Len(s)
  BY <1>1, MntEnd
<1>9. Len(m) < Len(s)
  BY <1>3
<1>4. u \in Seq(A) /\ u # <<>> /\ Head(u) = Scheme /\ Tail(u) = s
  BY <1>1, <1>2, TailOfConcat
<1>5. parseURI(u) = Parsed(s)
  <2>1. isPhkUri(u)
    BY <1>4 DEF isPhkUri
  <2> QED BY <1>1, <1>3, <1>4, <2>1 DEF parseURI
<1>6. Before(s, Slashes \cup {" "}) = Len(m) /\ Before(s, {"/"}) = Len(m)
  <2>1. "/" \in Slashes \cup {" "} /\ Slashes \cup {" "} \subseteq {"/", "?", "&", "\\", " "}
    BY DEF Slashes
  <2>2. "/" \in {"/"} /\ {"/"} \subseteq {"/", "?", "&", "\\", " "}
    OBVIOUS
  <2> QED BY <1>3, <2>1, <2>2
<1>7. uriToMnt(u) = m
  <2>1. PICK x : x = SubSeq(u, 2, 1 + Len(m))
    OBVIOUS
  <2>2. Len(u) = 1 + Len(s) /\ \A i \in 1..Len(s) : u[i + 1] = s[i]
    <3>1. Len(Tail(u)) = Len(u) - 1 /\ \A i \in 1..Len(Tail(u)) : Tail(u)[i] = u[i + 1]
      BY <1>4, HeadTailProperties
    <3>2. Len(u) \in Nat
      BY <1>4
    <3>3. Tail(u) = s
      BY <1>4
    <3>4. Len(s) = Len(u) - 1 /\ \A i \in 1..Len(s) : s[i] = u[i + 1]
      BY <3>1, <3>3
    <3> QED BY <3>2, <3>4
  <2>3. 1 + Len(m) \in 0..Len(u) /\ 2 \in Nat \ {0}
    BY <1>2, <1>9, <2>2
  <2>4. /\ x \in Seq(A)
        /\ Len(x) = IF 2 <= 1 + Len(m) THEN 1 + Len(m) - 2 + 1 ELSE 0
        /\ \A j \in 1..(1 + Len(m) - 2 + 1) : x[j] = u[2 + j - 1]
    BY <1>4, <2>1, <2>3, SliceType
  <2>5. Len(x) = Len(m)
    BY <1>2, <2>4
  <2>6. ASSUME NEW j \in 1..Len(m) PROVE x[j] = m[j]
    <3>1. j \in 1..(1 + Len(m) - 2 + 1) /\ 2 + j - 1 = j + 1 /\ j \in 1..Len(s)
      BY <1>2
    <3>2. x[j] = s[j]
      BY <2>2, <2>4, <3>1
    <3>3. s[j] = m[j]
      BY <1>1, Parts
    <3> QED BY <3>2, <3>3
  <2>7. x = m
    BY <2>4, <2>5, <2>6, SeqEqual
  <2> QED BY <1>4, <1>6, <2>1, <2>7 DEF uriToMnt
<1>8. cache_key_mnt(u) = IF Contains(s, "?") THEN <<>> ELSE m
  <2>1. Len(m) # Len(s)
    <3>1. \A i, j \in Nat : i < j => i # j
      OBVIOUS
    <3>2. Len(m) \in Nat /\ Len(s) \in Nat
      BY <1>2
    <3> QED BY <1>9, <3>1, <3>2
  <2> QED BY <1>2, <1>4, <1>6, <2>1 DEF cache_key_mnt
<1> QED BY <1>1, <1>5, <1>7, <1>8

LEMMA PathRoundTrip ==
  ASSUME NEW A, Scheme \in A, NEW m \in Seq(A), MntString(m),
         NEW w \in Seq(A), w # <<>>, w[1] = "/", PlainString(w),
         NEW u, u = <<Scheme>> \o (m \o w)
  PROVE  RoundTrips(u, m, <<>>, RTrim(Tail(w), "/"))
<1>1. PICK s : s = m \o w
  OBVIOUS
<1>2. /\ ~Unreadable(s) /\ normalizeURI(s) = s /\ ~Contains(s, "?")
      /\ Parsed(s) = Answer(<<>>, m, RTrim(Tail(w), "/"))
  BY <1>1, PathParsed
<1>3. /\ parseURI(u) = Parsed(m \o w)
      /\ uriToMnt(u) = m
      /\ cache_key_mnt(u) = IF Contains(m \o w, "?") THEN <<>> ELSE m
  BY <1>1, <1>2, UriParsed
<1> QED BY <1>1, <1>2, <1>3 DEF RoundTrips

LEMMA CommandRoundTrip ==
  ASSUME NEW A, Scheme \in A, "/" \in A, NEW m \in Seq(A), MntString(m),
         NEW w \in Seq(A), NEW k, CommandRest(w, k), NEW c, c = SubSeq(w, 3, k), c # <<>>,
         NEW u, u = <<Scheme>> \o (m \o w)
  PROVE  RoundTrips(u, m, c, <<>>)
<1>1. PICK s : s = m \o w
  OBVIOUS
<1>2. /\ ~Unreadable(s) /\ normalizeURI(s) = s /\ Contains(s, "?")
      /\ Parsed(s) = Answer(SubSeq(w, 3, k), m, <<>>)
  BY <1>1, CommandParsed
<1>0. w # <<>> /\ w[1] = "/"
  BY DEF CommandRest
<1>3. /\ parseURI(u) = Parsed(m \o w)
      /\ uriToMnt(u) = m
      /\ cache_key_mnt(u) = IF Contains(m \o w, "?") THEN <<>> ELSE m
  BY <1>0, <1>1, <1>2, UriParsed
<1> QED BY <1>1, <1>2, <1>3 DEF RoundTrips

-----------------------------------------------------------------------------
(***************************************************************************)
(* The components of a path.  ComponentsUpTo is a recursive function: that *)
(* there is one, and what it says of every beginning of a path, is shown   *)
(* for the least beginning of which it would be false.                     *)
(***************************************************************************)
\* What the recursive definition says: there is a function that it describes.
UpTo(g, s, m) ==
  g = [n \in 0..m |-> IF n = 0 THEN <<>> ELSE Extended(g[n - 1], s, n)]

LEMMA UpToExists ==
  ASSUME NEW s, NEW l \in Nat
  PROVE  \E g : UpTo(g, s, l)
<1> DEFINE T == {m \in Nat : \A g : ~UpTo(g, s, m)}
<1>1. SUFFICES ASSUME T # {} PROVE FALSE
  OBVIOUS
<1>2. T \subseteq Nat
  OBVIOUS
<1>3. PICK m \in T : \A k \in T : m <= k
  <2> HIDE DEF T
  <2> QED BY <1>1, <1>2, Least
<1>4. m \in Nat /\ \A g : ~UpTo(g, s, m)
  OBVIOUS
<1>5. m # 0
  <2> DEFINE g == [n \in 0..0 |-> <<>>]
  <2>1. UpTo(g, s, 0)
    BY DEF UpTo
  <2> QED BY <2>1, <1>4
<1>6. m - 1 \in Nat /\ m - 1 \notin T
  BY <1>3, <1>4, <1>5
<1>7. PICK h : UpTo(h, s, m - 1)
  BY <1>6
<1> DEFINE g == [n \in 0..m |-> IF n = m THEN Extended(h[m - 1], s, m) ELSE h[n]]
<1>8. \A n \in 0..(m - 1) : g[n] = IF n = 0 THEN <<>> ELSE Extended(g[n - 1], s, n)
  <2> TAKE n \in 0..(m - 1)
  <2>1. g[n] = h[n] /\ (n # 0 => g[n - 1] = h[n - 1])
    BY <1>4, <1>5
  <2>2. h[n] = IF n = 0 THEN <<>> ELSE Extended(h[n - 1], s, n)
    BY <1>7 DEF UpTo
  <2> QED BY <2>1, <2>2
<1>9. g[m] = Extended(g[m - 1], s, m)
  BY <1>4, <1>5
<1>10. \A n \in 0..m : g[n] = IF n = 0 THEN <<>> ELSE Extended(g[n - 1], s, n)
  BY <1>4, <1>5, <1>8, <1>9
<1>11. g = [n \in 0..m |-> g[n]]
  OBVIOUS
<1>12. UpTo(g, s, m)
  <2> HIDE DEF g
  <2> QED BY <1>10, <1>11 DEF UpTo
<1> QED BY <1>4, <1>12

LEMMA ComponentsSteps ==
  ASSUME NEW A, NEW s \in Seq(A)
  PROVE  /\ ComponentsUpTo(s)[0] = <<>>
         /\ \A n \in 1..Len(s) :
              ComponentsUpTo(s)[n] = Extended(ComponentsUpTo(s)[n - 1], s, n)
<1>1. Len(s) \in Nat
  OBVIOUS
<1>2. \E g : UpTo(g, s, Len(s))
  BY <1>1, UpToExists
<1>3. ComponentsUpTo(s) = CHOOSE g : UpTo(g, s, Len(s))
  BY DEF ComponentsUpTo, UpTo
<1>4. PICK c : c = ComponentsUpTo(s)
  OBVIOUS
<1>5. UpTo(c, s, Len(s))
  BY <1>2, <1>3, <1>4
<1>6. \A n \in 0..Len(s) : c[n] = IF n = 0 THEN <<>> ELSE Extended(c[n - 1], s, n)
  BY <1>5 DEF UpTo
<1> QED BY <1>1, <1>4, <1>6

\* Every component is a string, and there is one after a character that is no slash.
LEMMA ComponentsTyped ==
  ASSUME NEW A, NEW s \in Seq(A), NEW n \in 0..Len(s)
  PROVE  /\ ComponentsUpTo(s)[n] \in Seq(Seq(A))
         /\ n # 0 /\ s[n] # "/" => ComponentsUpTo(s)[n] # <<>>
<1>0. PICK c : c = ComponentsUpTo(s)
  OBVIOUS
<1> DEFINE Good(i) == c[i] \in Seq(Seq(A)) /\ (i # 0 /\ s[i] # "/" => c[i] # <<>>)
           T == {i \in 0..Len(s) : ~Good(i)}
<1>1. SUFFICES ASSUME T # {} PROVE FALSE
  BY <1>0
<1>2. Len(s) \in Nat /\ \A i \in 1..Len(s) : s[i] \in A
  OBVIOUS
<1>3. T \subseteq Nat
  OBVIOUS
<1>4. PICK m \in T : \A k \in T : m <= k
  <2> HIDE DEF T
  <2> QED BY <1>1, <1>3, Least
<1>5. m \in 0..Len(s) /\ ~Good(m)
  OBVIOUS
<1>6. c[0] = <<>> /\ \A i \in 1..Len(s) : c[i] = Extended(c[i - 1], s, i)
  BY <1>0, ComponentsSteps
<1>7. m # 0
  <2>1. Good(0)
    BY <1>6, EmptySeq
  <2> QED BY <1>5, <2>1
<1>8. m - 1 \in 0..Len(s) /\ m - 1 \notin T
  BY <1>2, <1>4, <1>5, <1>7
<1>9. Good(m - 1)
  BY <1>8
<1>10. PICK p : p = c[m - 1]
  OBVIOUS
<1>11. p \in Seq(Seq(A)) /\ c[m] = Extended(p, s, m) /\ s[m] \in A
  BY <1>2, <1>5, <1>6, <1>7, <1>9, <1>10
<1>12. CASE s[m] = "/"
  BY <1>5, <1>11, <1>12 DEF Extended
<1>13. CASE s[m] # "/" /\ (m = 1 \/ s[m - 1] = "/")
  <2>1. c[m] = Append(p, <<s[m]>>)
    BY <1>11, <1>13 DEF Extended
  <2>2. <<s[m]>> \in Seq(A)
    BY <1>11
  <2>3. PICK w : w = <<s[m]>>
    OBVIOUS
  <2>4. w \in Seq(A) /\ c[m] = Append(p, w)
    BY <2>1, <2>2, <2>3
  <2>5. c[m] \in Seq(Seq(A)) /\ c[m] # <<>>
    BY <1>11, <2>4, AppendProperties
  <2> QED BY <1>5, <2>5
<1>14. CASE s[m] # "/" /\ ~(m = 1 \/ s[m - 1] = "/")
  <2>1. c[m] = [p EXCEPT ![Len(p)] = Append(p[Len(p)], s[m])]
    BY <1>11, <1>14 DEF Extended
  <2>2. p # <<>>
    BY <1>2, <1>5, <1>7, <1>9, <1>10, <1>14
  <2>3. Len(p) \in 1..Len(p)
    BY <1>11, <2>2, EmptySeq
  <2>4. Append(p[Len(p)], s[m]) \in Seq(A)
    BY <1>11, <2>3, ElementOfSeq, AppendProperties
  <2>5. c[m] \in Seq(Seq(A)) /\ Len(c[m]) = Len(p)
    BY <1>11, <2>1, <2>3, <2>4, ExceptSeq
  <2> QED BY <1>5, <2>3, <2>5, EmptySeq
<1> QED BY <1>12, <1>13, <1>14

\* The components of a beginning depend on nothing that follows.
LEMMA ComponentsOfPrefix ==
  ASSUME NEW A, NEW s \in Seq(A), NEW t \in Seq(A),
         NEW k \in Nat, k <= Len(s), k <= Len(t), \A i \in 1..k : s[i] = t[i]
  PROVE  ComponentsUpTo(s)[k] = ComponentsUpTo(t)[k]
<1>0. PICK c, d : c = ComponentsUpTo(s) /\ d = ComponentsUpTo(t)
  OBVIOUS
<1> DEFINE T == {i \in 0..k : c[i] # d[i]}
<1>1. SUFFICES ASSUME T # {} PROVE FALSE
  BY <1>0
<1>2. T \subseteq Nat
  OBVIOUS
<1>3. PICK m \in T : \A j \in T : m <= j
  <2> HIDE DEF T
  <2> QED BY <1>1, <1>2, Least
<1>4. m \in 0..k /\ c[m] # d[m]
  OBVIOUS
<1>5. Len(s) \in Nat /\ Len(t) \in Nat
  OBVIOUS
<1>6. /\ c[0] = <<>> /\ \A i \in 1..Len(s) : c[i] = Extended(c[i - 1], s, i)
      /\ d[0] = <<>> /\ \A i \in 1..Len(t) : d[i] = Extended(d[i - 1], t, i)
  BY <1>0, ComponentsSteps
<1>7. m # 0
  BY <1>4, <1>6
<1>8. m - 1 \in 0..k /\ m - 1 \notin T
  BY <1>3, <1>4, <1>7
<1>9. c[m - 1] = d[m - 1]
  BY <1>8
<1>10. s[m] = t[m] /\ (m # 1 => s[m - 1] = t[m - 1])
  BY <1>4, <1>7
<1>11. \A p : Extended(p, s, m) = Extended(p, t, m)
  <2> TAKE p
  <2>1. CASE m = 1
    BY <1>10, <2>1 DEF Extended
  <2>2. CASE m # 1
    BY <1>10, <2>2 DEF Extended
  <2> QED BY <2>1, <2>2
<1>12. m \in 1..Len(s) /\ m \in 1..Len(t)
  BY <1>4, <1>5, <1>7
<1> QED BY <1>4, <1>6, <1>9, <1>11, <1>12

\* Slashes add no component.
LEMMA ComponentsStay ==
  ASSUME NEW A, NEW s \in Seq(A), NEW k \in 0..Len(s), NEW n \in k..Len(s),
         \A i \in (k + 1)..n : s[i] = "/"
  PROVE  ComponentsUpTo(s)[n] = ComponentsUpTo(s)[k]
<1>0. PICK c : c = ComponentsUpTo(s)
  OBVIOUS
<1> DEFINE T == {i \in k..n : c[i] # c[k]}
<1>1. SUFFICES ASSUME T # {} PROVE FALSE
  BY <1>0
<1>2. Len(s) \in Nat
  OBVIOUS
<1>3. T \subseteq Nat
  OBVIOUS
<1>4. PICK m \in T : \A j \in T : m <= j
  <2> HIDE DEF T
  <2> QED BY <1>1, <1>3, Least
<1>5. m \in k..n /\ c[m] # c[k]
  OBVIOUS
<1>6. m # k /\ m - 1 \in k..n /\ m - 1 \notin T
  BY <1>4, <1>5
<1>7. c[m - 1] = c[k]
  BY <1>6
<1>8. m \in 1..Len(s) /\ s[m] = "/"
  BY <1>2, <1>5, <1>6
<1>9. c[m] = Extended(c[m - 1], s, m)
  BY <1>0, <1>8, ComponentsSteps
<1> QED BY <1>5, <1>7, <1>8, <1>9 DEF Extended

\* What comes after a slash, or at the beginning, has components of its own.
LEMMA ComponentsAfter ==
  ASSUME NEW A, NEW t \in Seq(A), NEW y \in Seq(A), NEW k \in Nat,
         Len(t) = k + Len(y), \A i \in 1..Len(y) : t[k + i] = y[i],
         k = 0 \/ t[k] = "/"
  PROVE  Components(t) = ComponentsUpTo(t)[k] \o Components(y)
<1>0. PICK c, d : c = ComponentsUpTo(t) /\ d = ComponentsUpTo(y)
  OBVIOUS
<1>1. Len(y) \in Nat /\ Len(t) \in Nat /\ \A i \in 1..Len(t) : t[i] \in A
  OBVIOUS
<1>2. /\ c[0] = <<>> /\ \A i \in 1..Len(t) : c[i] = Extended(c[i - 1], t, i)
      /\ d[0] = <<>> /\ \A i \in 1..Len(y) : d[i] = Extended(d[i - 1], y, i)
  BY <1>0, ComponentsSteps
<1>3. PICK P : P = c[k]
  OBVIOUS
<1>4. P \in Seq(Seq(A))
  BY <1>0, <1>1, <1>3, ComponentsTyped
<1> DEFINE T == {i \in 0..Len(y) : c[k + i] # P \o d[i]}
<1>5. SUFFICES ASSUME T # {} PROVE FALSE
  <2>1. Components(t) = c[k + Len(y)] /\ Components(y) = d[Len(y)]
    BY <1>0 DEF Components
  <2>2. Len(y) \in 0..Len(y)
    BY <1>1
  <2>3. T = {} => c[k + Len(y)] = P \o d[Len(y)]
    BY <2>2
  <2>4. T = {} => Components(t) = P \o Components(y)
    BY <2>1, <2>3
  <2> HIDE DEF T
  <2> QED BY <1>0, <1>3, <2>4
<1>6. T \subseteq Nat
  OBVIOUS
<1>7. PICK m \in T : \A j \in T : m <= j
  <2> HIDE DEF T
  <2> QED BY <1>5, <1>6, Least
<1>8. m \in 0..Len(y) /\ c[k + m] # P \o d[m]
  OBVIOUS
<1>9. m # 0
  <2>1. P \o <<>> = P
    BY <1>4, ConcatEmptySeq
  <2>2. k + 0 = k
    OBVIOUS
  <2> QED BY <1>2, <1>3, <1>8, <2>1, <2>2
<1>10. m \in 1..Len(y) /\ m - 1 \in 0..Len(y) /\ m - 1 \notin T
  <2>1. m \in 1..Len(y) /\ m - 1 \in 0..Len(y) /\ ~(m <= m - 1)
    BY <1>1, <1>8, <1>9
  <2> HIDE DEF T
  <2> QED BY <1>7, <2>1
<1>11. PICK q : q = d[m - 1]
  OBVIOUS
<1>12. c[k + (m - 1)] = P \o q
  BY <1>10, <1>11
<1> HIDE DEF T
<1>13. k + m \in 1..Len(t) /\ (k + m) - 1 = k + (m - 1)
  BY <1>1, <1>10
<1>14. c[k + m] = Extended(P \o q, t, k + m) /\ d[m] = Extended(q, y, m)
  BY <1>2, <1>10, <1>11, <1>12, <1>13
<1>15. q \in Seq(Seq(A)) /\ (m # 1 /\ y[m - 1] # "/" => q # <<>>)
  <2>1. PICK n \in 0..Len(y) : n = m - 1 /\ (m # 1 => n # 0)
    BY <1>1, <1>10
  <2>2. d[n] \in Seq(Seq(A)) /\ (n # 0 /\ y[n] # "/" => d[n] # <<>>)
    BY <1>0, ComponentsTyped
  <2> QED BY <1>11, <2>1, <2>2
<1>16. t[k + m] = y[m] /\ (m # 1 => t[(k + m) - 1] = y[m - 1]) /\ y[m] \in A
  <2>1. m # 1 => m - 1 \in 1..Len(y)
    BY <1>1, <1>10
  <2> QED BY SMTT(30), <1>10, <1>13, <2>1
<1>17. (k + m = 1 \/ t[(k + m) - 1] = "/") <=> (m = 1 \/ y[m - 1] = "/")
  <2>1. CASE m = 1
    <3>1. (k + m) - 1 = k /\ (k = 0 => k + m = 1)
      BY <2>1
    <3> QED BY <2>1, <3>1
  <2>2. CASE m # 1
    <3>1. k + m # 1
      BY <1>10, <2>2
    <3> QED BY <1>16, <2>2, <3>1
  <2> QED BY <2>1, <2>2
<1>18. CASE y[m] = "/"
  BY <1>8, <1>14, <1>16, <1>18 DEF Extended
<1>19. CASE y[m] # "/" /\ (m = 1 \/ y[m - 1] = "/")
  <2>1. PICK w : w = <<y[m]>>
    OBVIOUS
  <2>2. w \in Seq(A)
    BY <1>16, <2>1
  <2>3. c[k + m] = Append(P \o q, w) /\ d[m] = Append(q, w)
    BY <1>14, <1>16, <1>17, <1>19, <2>1 DEF Extended
  <2>4. Append(P \o q, w) = P \o Append(q, w)
    <3>1. PICK B : B = Seq(A)
      OBVIOUS
    <3>2. P \in Seq(B) /\ q \in Seq(B) /\ w \in B
      BY <1>4, <1>15, <2>2, <3>1
    <3>3. PICK r : r = P \o q
      OBVIOUS
    <3>4. PICK v \in Seq(B) : v = <<w>>
      <4>1. w \in B
        BY <3>2
      <4>2. <<w>> \in Seq(B)
        BY <4>1
      <4> QED BY <4>2
    <3>5. Append(r, w) = r \o v /\ Append(q, w) = q \o v
      <4>1. r \in Seq(B)
        BY <3>2, <3>3, ConcatProperties
      <4> QED BY <3>2, <3>4, <4>1, AppendIsConcat
    <3>6. (P \o q) \o v = P \o (q \o v)
      <4>1. P \in Seq(B) /\ q \in Seq(B)
        BY <3>2
      <4> QED BY SMTT(30), <3>4, <4>1, ConcatAssociative
    <3> QED BY <3>3, <3>5, <3>6
  <2> QED BY <1>8, <2>3, <2>4
<1>20. CASE y[m] # "/" /\ ~(m = 1 \/ y[m - 1] = "/")
  <2>1. PICK B : B = Seq(A)
    OBVIOUS
  <2>2. P \in Seq(B) /\ q \in Seq(B) /\ q # <<>>
    BY <1>4, <1>15, <1>20, <2>1
  <2>3. PICK a : a = y[m]
    OBVIOUS
  <2>4. /\ c[k + m] = [(P \o q) EXCEPT ![Len(P \o q)] = Append((P \o q)[Len(P \o q)], a)]
        /\ d[m] = [q EXCEPT ![Len(q)] = Append(q[Len(q)], a)]
    BY <1>14, <1>16, <1>17, <1>20, <2>3 DEF Extended
  <2>5. PICK s : s = P \o q
    OBVIOUS
  <2>6. /\ s \in Seq(B) /\ Len(P) \in Nat /\ Len(q) \in Nat /\ Len(q) # 0
        /\ Len(s) = Len(P) + Len(q)
        /\ \A i \in 1..Len(P) : s[i] = P[i]
        /\ \A i \in 1..Len(q) : s[Len(P) + i] = q[i]
    BY <2>2, <2>5, Parts, EmptySeq
  <2>7. PICK w : w = Append(q[Len(q)], a)
    OBVIOUS
  <2>8. w \in B
    <3>1. q[Len(q)] \in Seq(A)
      BY <2>1, <2>2, <2>6
    <3> QED BY <1>16, <2>1, <2>3, <2>7, <3>1, AppendProperties
  <2>9. s[Len(s)] = q[Len(q)]
    BY <2>6
  <2>10. c[k + m] = [s EXCEPT ![Len(s)] = w] /\ d[m] = [q EXCEPT ![Len(q)] = w]
    BY <2>4, <2>5, <2>7, <2>9
  <2>11. PICK f, g : f = [s EXCEPT ![Len(s)] = w] /\ g = [q EXCEPT ![Len(q)] = w]
    OBVIOUS
  <2>12. Len(s) \in 1..Len(s) /\ Len(q) \in 1..Len(q)
    BY <2>6
  <2>13. /\ f \in Seq(B) /\ Len(f) = Len(s)
         /\ \A j \in 1..Len(s) : f[j] = IF j = Len(s) THEN w ELSE s[j]
    BY <2>6, <2>8, <2>11, <2>12, ExceptSeq
  <2>14. /\ g \in Seq(B) /\ Len(g) = Len(q)
         /\ \A j \in 1..Len(q) : g[j] = IF j = Len(q) THEN w ELSE q[j]
    BY <2>2, <2>8, <2>11, <2>12, ExceptSeq
  <2>15. PICK h : h = P \o g
    OBVIOUS
  <2>16. /\ h \in Seq(B) /\ Len(h) = Len(P) + Len(g)
         /\ \A i \in 1..Len(P) : h[i] = P[i]
         /\ \A i \in 1..Len(g) : h[Len(P) + i] = g[i]
    <3>1. P \in Seq(B) /\ g \in Seq(B)
      BY <2>2, <2>14
    <3> QED BY <2>15, <3>1, Parts
  <2>17. \A j \in 1..Len(f) : f[j] = h[j]
    <3> TAKE j \in 1..Len(f)
    <3>1. CASE j <= Len(P)
      BY <2>6, <2>13, <2>16, <3>1
    <3>2. CASE ~(j <= Len(P))
      <4>1. PICK i \in 1..Len(q) : j = Len(P) + i
        <5>1. j - Len(P) \in 1..Len(q) /\ j = Len(P) + (j - Len(P))
          BY <2>6, <2>13, <3>2
        <5> QED BY <5>1
      <4>2. j = Len(s) <=> i = Len(q)
        <5>1. Len(s) = Len(P) + Len(q) /\ Len(P) \in Nat /\ Len(q) \in Nat
          BY <2>6
        <5>2. PICK ls, lp, lq : ls = Len(s) /\ lp = Len(P) /\ lq = Len(q)
          OBVIOUS
        <5>3. ls = lp + lq /\ lp \in Nat /\ lq \in Nat /\ i \in 1..lq /\ j = lp + i
          BY <4>1, <5>1, <5>2
        <5>4. j = ls <=> i = lq
          BY <5>3
        <5> QED BY <5>2, <5>4
      <4>3. h[j] = g[i] /\ s[j] = q[i]
        BY <2>6, <2>14, <2>16, <4>1
      <4> QED BY <2>13, <2>14, <4>2, <4>3
    <3> QED BY <3>1, <3>2
  <2>18. f = h
    <3>1. Len(f) = Len(h)
      BY <2>6, <2>13, <2>14, <2>16
    <3> QED BY <2>13, <2>16, <2>17, <3>1, SeqEqual
  <2> QED BY <1>8, <2>10, <2>11, <2>15, <2>18
<1> QED BY <1>18, <1>19, <1>20

LEMMA ComponentsType ==
  ASSUME NEW A, NEW s \in Seq(A)
  PROVE  Components(s) \in Seq(Seq(A))
<1>1. Len(s) \in 0..Len(s)
  OBVIOUS
<1> QED BY <1>1, ComponentsTyped DEF Components

LEMMA ComponentsOfEmpty == Components(<<>>) = <<>>
<1>1. <<>> \in Seq({1}) /\ Len(<<>>) = 0
  OBVIOUS
<1>2. ComponentsUpTo(<<>>)[0] = <<>>
  BY <1>1, ComponentsSteps
<1> QED BY <1>1, <1>2 DEF Components

\* A slash between two paths, wherever they end, keeps their components apart.
LEMMA ComponentsJoined ==
  ASSUME NEW A, NEW x \in Seq(A), NEW y \in Seq(A), NEW t \in Seq(A),
         Len(t) = Len(x) + 1 + Len(y), t[Len(x) + 1] = "/",
         \A i \in 1..Len(x) : t[i] = x[i],
         \A i \in 1..Len(y) : t[Len(x) + 1 + i] = y[i]
  PROVE  Components(t) = Components(x) \o Components(y)
<1>1. PICK n : n = Len(x)
  OBVIOUS
<1>2. /\ n \in Nat /\ Len(y) \in Nat /\ Len(t) = n + 1 + Len(y) /\ t[n + 1] = "/"
      /\ \A i \in 1..n : t[i] = x[i]
      /\ \A i \in 1..Len(y) : t[n + 1 + i] = y[i]
  BY <1>1
<1>3. Components(t) = ComponentsUpTo(t)[n + 1] \o Components(y)
  <2>1. PICK k \in Nat : k = n + 1
    BY <1>2
  <2>2. Len(t) = k + Len(y) /\ (\A i \in 1..Len(y) : t[k + i] = y[i]) /\ t[k] = "/"
    BY <1>2, <2>1
  <2>3. Components(t) = ComponentsUpTo(t)[k] \o Components(y)
    BY <2>2, ComponentsAfter
  <2> QED BY <2>1, <2>3
<1>4. ComponentsUpTo(t)[n + 1] = ComponentsUpTo(t)[n]
  <2>1. PICK k \in n..Len(t) : k = n + 1
    BY <1>2
  <2>2. n \in 0..Len(t) /\ \A i \in (n + 1)..k : t[i] = "/"
    BY <1>2, <2>1
  <2>3. ComponentsUpTo(t)[k] = ComponentsUpTo(t)[n]
    BY <2>2, ComponentsStay
  <2> QED BY <2>1, <2>3
<1>5. ComponentsUpTo(t)[n] = ComponentsUpTo(x)[n]
  <2>1. n <= Len(x) /\ n <= Len(t)
    BY <1>1, <1>2
  <2> QED BY <1>2, <2>1, ComponentsOfPrefix
<1> QED BY <1>1, <1>3, <1>4, <1>5 DEF Components

LEMMA ComponentsAfterSlash ==
  ASSUME NEW A, "/" \in A, NEW y \in Seq(A)
  PROVE  Components(<<"/">> \o y) = Components(y)
<1>1. PICK t : t = <<"/">> \o y
  OBVIOUS
<1>2. <<"/">> \in Seq(A) /\ Len(<<"/">>) = 1 /\ <<"/">>[1] = "/"
  OBVIOUS
<1>3. PICK h \in Seq(A) : h = <<"/">>
  BY <1>2
<1>4. /\ t \in Seq(A) /\ Len(y) \in Nat /\ Len(t) = Len(h) + Len(y)
      /\ \A i \in 1..Len(h) : t[i] = h[i]
      /\ \A i \in 1..Len(y) : t[Len(h) + i] = y[i]
  BY <1>1, <1>3, Parts
<1>5. Len(t) = 0 + 1 + Len(y) /\ t[0 + 1] = "/" /\ \A i \in 1..Len(y) : t[0 + 1 + i] = y[i]
  BY <1>2, <1>3, <1>4
<1>6. PICK e \in Seq(A) : e = <<>>
  BY EmptySeq
<1>7. Components(t) = Components(<<>>) \o Components(y)
  <2>1. Len(e) = 0
    BY <1>6
  <2>2. /\ Len(t) = Len(e) + 1 + Len(y) /\ t[Len(e) + 1] = "/"
        /\ \A i \in 1..Len(e) : t[i] = e[i]
        /\ \A i \in 1..Len(y) : t[Len(e) + 1 + i] = y[i]
    BY <1>5, <2>1
  <2>3. t \in Seq(A)
    BY <1>4
  <2>4. Components(t) = Components(e) \o Components(y)
    BY ZenonT(60), <2>2, <2>3, ComponentsJoined
  <2> QED BY <1>6, <2>4
<1>8. <<>> \o Components(y) = Components(y)
  BY ComponentsType, ConcatEmptySeq
<1> QED BY <1>1, <1>7, <1>8, ComponentsOfEmpty

LEMMA ComponentsBeforeSlash ==
  ASSUME NEW A, "/" \in A, NEW x \in Seq(A)
  PROVE  Components(Append(x, "/")) = Components(x)
<1>1. PICK t : t = Append(x, "/")
  OBVIOUS
<1>2. /\ t \in Seq(A) /\ Len(x) \in Nat /\ Len(t) = Len(x) + 1
      /\ t[Len(x) + 1] = "/" /\ \A i \in 1..Len(x) : t[i] = x[i]
  BY <1>1, AppendProperties
<1>3. PICK e \in Seq(A) : e = <<>>
  BY EmptySeq
<1>4. Len(e) = 0
  BY <1>3
<1>5. Components(t) = Components(x) \o Components(<<>>)
  <2>1. /\ Len(t) = Len(x) + 1 + Len(e)
        /\ \A i \in 1..Len(e) : t[Len(x) + 1 + i] = e[i]
    BY <1>2, <1>4
  <2>2. Components(t) = Components(x) \o Components(e)
    BY ZenonT(60), <1>2, <2>1, ComponentsJoined
  <2> QED BY <1>3, <2>2
<1>6. Components(x) \o <<>> = Components(x)
  BY ComponentsType, ConcatEmptySeq
<1> QED BY <1>1, <1>5, <1>6, ComponentsOfEmpty

\* Nor do slashes at either end add one.
LEMMA ComponentsRTrim ==
  ASSUME NEW A, NEW s \in Seq(A)
  PROVE  Components(RTrim(s, "/")) = Components(s)
<1>1. PICK t : t = RTrim(s, "/")
  OBVIOUS
<1>2. t \in Seq(A) /\ Len(s) \in Nat
  BY <1>1, RTrimIs
<1>3. PICK l \in 0..Len(s) : TrimsTo(s, "/", l, t)
  BY <1>1, RTrimIs
<1>4. /\ Len(t) = l /\ l \in Nat /\ l <= Len(s) /\ l <= Len(t)
      /\ \A i \in 1..l : t[i] = s[i]
      /\ \A i \in (l + 1)..Len(s) : s[i] = "/"
  BY <1>2, <1>3 DEF TrimsTo
<1>5. ComponentsUpTo(t)[l] = ComponentsUpTo(s)[l]
  BY <1>2, <1>4, ComponentsOfPrefix
<1>6. ComponentsUpTo(s)[Len(s)] = ComponentsUpTo(s)[l]
  <2>1. Len(s) \in l..Len(s)
    BY <1>2, <1>3
  <2> QED BY <1>3, <1>4, <2>1, ComponentsStay
<1> QED BY <1>1, <1>4, <1>5, <1>6 DEF Components

LEMMA ComponentsLTrim ==
  ASSUME NEW A, NEW s \in Seq(A)
  PROVE  Components(LTrim(s, "/")) = Components(s)
<1>1. PICK t : t = LTrim(s, "/")
  OBVIOUS
<1>2. PICK b \in 0..Len(s) :
        /\ \A i \in 1..b : s[i] = "/"
        /\ t \in Seq(A) /\ Len(t) = Len(s) - b
        /\ \A i \in 1..(Len(s) - b) : t[i] = s[b + i]
  BY SMTT(60), <1>1, LTrimParts DEF Leads
<1>3. Len(s) \in Nat
  OBVIOUS
<1>4. b \in Nat /\ Len(s) = b + Len(t) /\ (\A i \in 1..Len(t) : s[b + i] = t[i])
  BY <1>2, <1>3
<1>5. b = 0 \/ s[b] = "/"
  BY <1>2
<1>6. Components(s) = ComponentsUpTo(s)[b] \o Components(t)
  BY <1>2, <1>4, <1>5, ComponentsAfter
<1>7. ComponentsUpTo(s)[b] = ComponentsUpTo(s)[0]
  <2>1. 0 \in 0..Len(s) /\ b \in 0..Len(s) /\ \A i \in (0 + 1)..b : s[i] = "/"
    BY <1>2, <1>3
  <2> QED BY <2>1, ComponentsStay
<1>8. ComponentsUpTo(s)[0] = <<>>
  BY ComponentsSteps
<1>9. <<>> \o Components(t) = Components(t)
  BY <1>2, ComponentsType, ConcatEmptySeq
<1> QED BY <1>1, <1>6, <1>7, <1>8, <1>9

LEMMA ComponentsTrim ==
  ASSUME NEW A, NEW s \in Seq(A)
  PROVE  Components(ut_trim_char(s, "/")) = Components(s)
<1>1. PICK t : t = LTrim(s, "/")
  OBVIOUS
<1>2. t \in Seq(A)
  BY <1>1, LTrimIs
<1> QED BY <1>1, <1>2, ComponentsLTrim, ComponentsRTrim DEF ut_trim_char

\* What has no slash is one component.
LEMMA OneComponent ==
  ASSUME NEW A, NEW s \in Seq(A), s # <<>>, \A i \in 1..Len(s) : s[i] # "/"
  PROVE  Components(s) = <<s>>
<1>0. PICK c : c = ComponentsUpTo(s)
  OBVIOUS
<1>1. Len(s) \in Nat \ {0} /\ \A i \in 1..Len(s) : s[i] \in A
  BY EmptySeq
<1>2. c[0] = <<>> /\ \A i \in 1..Len(s) : c[i] = Extended(c[i - 1], s, i)
  BY <1>0, ComponentsSteps
<1> DEFINE T == {i \in 1..Len(s) : c[i] # <<SubSeq(s, 1, i)>>}
<1>3. SUFFICES ASSUME T # {} PROVE FALSE
  <2>1. Len(s) \in 1..Len(s) /\ Components(s) = c[Len(s)]
    BY <1>0, <1>1 DEF Components
  <2>2. T = {} => c[Len(s)] = <<SubSeq(s, 1, Len(s))>>
    BY <2>1
  <2>3. SubSeq(s, 1, Len(s)) = s
    BY SubSeqFull
  <2> HIDE DEF T
  <2> QED BY <2>1, <2>2, <2>3
<1>4. T \subseteq Nat
  OBVIOUS
<1>5. PICK m \in T : \A j \in T : m <= j
  <2> HIDE DEF T
  <2> QED BY <1>3, <1>4, Least
<1>6. m \in 1..Len(s) /\ c[m] # <<SubSeq(s, 1, m)>>
  OBVIOUS
<1>7. m # 1 => c[m - 1] = <<SubSeq(s, 1, m - 1)>>
  <2> HAVE m # 1
  <2>1. m - 1 \in 1..Len(s) /\ ~(m <= m - 1)
    BY <1>1, <1>6
  <2>2. m - 1 \notin T
    <3> HIDE DEF T
    <3> QED BY <1>5, <2>1
  <2> QED BY <2>1, <2>2
<1> HIDE DEF T
<1>8. c[m] = Extended(c[m - 1], s, m) /\ s[m] # "/" /\ s[m] \in A
  BY <1>1, <1>2, <1>6
<1>9. SubSeq(s, 1, m) = SubSeq(s, 1, m - 1) \o <<s[m]>>
  BY <1>1, <1>6, SubSeqRecursiveSecond
<1>10. CASE m = 1
  <2>1. c[m] = Append(<<>>, <<s[m]>>)
    <3>1. c[m - 1] = <<>>
      BY <1>2, <1>10
    <3> QED BY <1>8, <1>10, <3>1 DEF Extended
  <2>2. SubSeq(s, 1, m) = <<s[m]>>
    <3>1. SubSeq(s, 1, 0) = <<>>
      BY SubSeqEmpty
    <3>2. m - 1 = 0
      BY <1>10
    <3>3. SubSeq(s, 1, m) = <<>> \o <<s[m]>>
      BY <1>9, <3>1, <3>2
    <3>4. PICK w : w = <<s[m]>>
      OBVIOUS
    <3>5. w \in Seq(A)
      BY <1>8, <3>4
    <3> QED BY <3>3, <3>4, <3>5, ConcatEmptySeq
  <2>3. PICK w : w = <<s[m]>>
    OBVIOUS
  <2>4. Append(<<>>, w) = <<w>>
    OBVIOUS
  <2> QED BY <1>6, <2>1, <2>2, <2>3, <2>4
<1>11. CASE m # 1
  <2>1. PICK p : p = SubSeq(s, 1, m - 1)
    OBVIOUS
  <2>2. m - 1 \in 1..Len(s)
    BY <1>1, <1>6, <1>11
  <2>3. p \in Seq(A)
    BY <2>1, <2>2, SliceType
  <2>4. s[m - 1] # "/" /\ c[m - 1] = <<p>>
    BY <1>7, <1>11, <2>1, <2>2
  <2>5. c[m] = [<<p>> EXCEPT ![Len(<<p>>)] = Append(@, s[m])]
    BY <1>8, <1>11, <2>4 DEF Extended
  <2>6. c[m] = <<Append(p, s[m])>>
    BY <2>5
  <2>7. Append(p, s[m]) = p \o <<s[m]>>
    BY <1>8, <2>3, AppendIsConcat
  <2> QED BY <1>6, <1>9, <2>1, <2>6, <2>7
<1> QED BY <1>10, <1>11

-----------------------------------------------------------------------------
(***************************************************************************)
(* A path as a beginning of another.                                       *)
(***************************************************************************)
\* s is u, a slash and w.
JoinedBySlash(s, u, w) ==
  /\ Len(s) = Len(u) + 1 + Len(w)
  /\ s[Len(u) + 1] = "/"
  /\ \A i \in 1..Len(u) : s[i] = u[i]
  /\ \A i \in 1..Len(w) : s[Len(u) + 1 + i] = w[i]

\* t goes on, if it does, with a slash after a.
Reaches(t, a) ==
  /\ Len(a) <= Len(t)
  /\ \A i \in 1..Len(a) : t[i] = a[i]
  /\ Len(a) < Len(t) => t[Len(a) + 1] = "/"

LEMMA ReachesSlash ==
  ASSUME NEW A, NEW s \in Seq(A), NEW u \in Seq(A), NEW w \in Seq(A), NEW a \in Seq(A),
         JoinedBySlash(s, u, w), Reaches(u, a)
  PROVE  Reaches(s, a)
<1>1. Len(s) \in Nat /\ Len(u) \in Nat /\ Len(w) \in Nat /\ Len(a) \in Nat
  OBVIOUS
<1>2. /\ Len(s) = Len(u) + 1 + Len(w) /\ s[Len(u) + 1] = "/"
      /\ \A i \in 1..Len(u) : s[i] = u[i]
  BY DEF JoinedBySlash
<1>3. /\ Len(a) <= Len(u) /\ \A i \in 1..Len(a) : u[i] = a[i]
      /\ Len(a) < Len(u) => u[Len(a) + 1] = "/"
  BY DEF Reaches
<1>4. Len(a) <= Len(s) /\ \A i \in 1..Len(a) : s[i] = a[i]
  BY <1>1, <1>2, <1>3
<1>5. s[Len(a) + 1] = "/"
  <2>1. CASE Len(a) = Len(u)
    BY <1>2, <2>1
  <2>2. CASE Len(a) # Len(u)
    <3>1. Len(a) < Len(u) /\ Len(a) + 1 \in 1..Len(u)
      BY <1>1, <1>3, <2>2
    <3> QED BY <1>2, <1>3, <3>1
  <2> QED BY <2>1, <2>2
<1> QED BY <1>4, <1>5 DEF Reaches

LEMMA ReachesBoth ==
  ASSUME NEW A, NEW s \in Seq(A), NEW t \in Seq(A), Reaches(s, t), Reaches(t, s)
  PROVE  s = t
<1>1. Len(s) = Len(t) /\ \A i \in 1..Len(s) : s[i] = t[i]
  <2>1. Len(s) \in Nat /\ Len(t) \in Nat
    OBVIOUS
  <2> QED BY <2>1 DEF Reaches
<1> QED BY <1>1, SeqEqual

LEMMA ReachesSame ==
  ASSUME NEW A, NEW s \in Seq(A), NEW t \in Seq(A), NEW u \in Seq(A), NEW w \in Seq(A),
         JoinedBySlash(s, u, w), JoinedBySlash(t, u, w)
  PROVE  s = t
<1>1. Len(u) \in Nat /\ Len(w) \in Nat /\ Len(s) \in Nat
  OBVIOUS
<1>2. Len(s) = Len(t) /\ Len(s) = Len(u) + 1 + Len(w)
  BY DEF JoinedBySlash
<1>3. ASSUME NEW i \in 1..Len(s) PROVE s[i] = t[i]
  <2>1. CASE i <= Len(u)
    <3>1. i \in 1..Len(u)
      BY <1>1, <2>1
    <3> QED BY <3>1 DEF JoinedBySlash
  <2>2. CASE i = Len(u) + 1
    BY <2>2 DEF JoinedBySlash
  <2>3. CASE i > Len(u) + 1
    <3>1. PICK j \in 1..Len(w) : i = Len(u) + 1 + j
      <4>1. i - (Len(u) + 1) \in 1..Len(w) /\ i = Len(u) + 1 + (i - (Len(u) + 1))
        BY <1>1, <1>2, <2>3
      <4> QED BY <4>1
    <3> QED BY <3>1 DEF JoinedBySlash
  <2> QED BY <1>1, <2>1, <2>2, <2>3
<1> QED BY <1>2, <1>3, SeqEqual
=============================================================================
