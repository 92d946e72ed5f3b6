----------------------------- MODULE ListLemmas -----------------------------
(***************************************************************************)
(* What the operators on sequences do that the pools are built from: put   *)
(* an item on top, take the one on top, take one out of any place.  The    *)
(* proofs about the links of memory.cpp (MemPoolProofs) and about the      *)
(* static buffers (StaticBuffersProofs) cite these lemmas.                 *)
(***************************************************************************)
EXTENDS SequencesExt, SequenceTheorems, FiniteSetTheorems, WellFoundedInduction, TLAPS

(* Least element of a set of numbers: the lemma that stands in for         *)
(* induction, whose theorems take an operator as a parameter.              *)
LEMMA LeastNumber ==
  ASSUME NEW S \in SUBSET Nat, S # {}
  PROVE  \E x \in S : \A y \in S : x <= y
<1> DEFINE below == {p \in Nat \X Nat : p[1] < p[2]}
<1>1. IsWellFoundedOn(below, Nat)
  BY NatLessThanWellFounded DEF OpToRel
<1> HIDE DEF below
<1>2. PICK x \in S : \A y \in S : ~(<<y, x>> \in below)
  BY <1>1, WFMin
<1>3. \A y \in S : x \in Nat /\ y \in Nat /\ (y < x => <<y, x>> \in below)
  BY DEF below
<1>4. ASSUME NEW y \in S PROVE x <= y
  <2>1. x \in Nat /\ y \in Nat /\ ~(y < x)
    BY <1>2, <1>3
  <2> QED BY <2>1
<1> QED BY <1>4

LEMMA MinIsLeast ==
  ASSUME NEW S \in SUBSET Nat, S # {}
  PROVE  Min(S) \in S /\ \A y \in S : Min(S) <= y
BY LeastNumber DEF Min

-----------------------------------------------------------------------------
(* The items of a list with one more in front. *)
LEMMA ConsItem ==
  ASSUME NEW S, NEW s \in Seq(S), NEW x \in S
  PROVE  /\ Cons(x, s) \in Seq(S)
         /\ Len(Cons(x, s)) = Len(s) + 1
         /\ Cons(x, s)[1] = x
         /\ \A k \in 1..Len(s) : Cons(x, s)[k + 1] = s[k]
         /\ ToSet(Cons(x, s)) = ToSet(s) \cup {x}
         /\ IsInjective(s) /\ x \notin ToSet(s) => IsInjective(Cons(x, s))
<1> DEFINE c == Cons(x, s)
<1>1. /\ c \in Seq(S) /\ Len(c) = Len(s) + 1 /\ Len(s) \in Nat
      /\ c[1] = x /\ \A k \in 1..Len(s) : c[k + 1] = s[k]
      /\ DOMAIN c = 1..Len(c) /\ DOMAIN s = 1..Len(s)
  BY LenProperties, ConcatProperties DEF Cons
<1> HIDE DEF c
<1>2. \A k \in DOMAIN c : k = 1 \/ (k - 1 \in 1..Len(s) /\ c[k] = s[k - 1])
  BY <1>1
<1>3. ToSet(c) = ToSet(s) \cup {x}
  <2>1. ASSUME NEW y \in ToSet(c) PROVE y \in ToSet(s) \cup {x}
    BY <1>1, <1>2 DEF ToSet
  <2>2. ASSUME NEW y \in ToSet(s) PROVE y \in ToSet(c)
    <3>1. PICK k \in 1..Len(s) : y = s[k]
      BY <1>1 DEF ToSet
    <3>2. k + 1 \in DOMAIN c /\ c[k + 1] = y
      BY <1>1, <3>1
    <3> QED BY <3>2 DEF ToSet
  <2>3. x \in ToSet(c)
    <3>1. 1 \in DOMAIN c
      BY <1>1
    <3> QED BY <1>1, <3>1 DEF ToSet
  <2> QED BY <2>1, <2>2, <2>3
<1>4. ASSUME IsInjective(s), x \notin ToSet(s) PROVE IsInjective(c)
  <2>1. \A k \in 1..Len(s) : s[k] # x
    BY <1>1, <1>4 DEF ToSet
  <2>2. ASSUME NEW a \in DOMAIN c, NEW b \in DOMAIN c, c[a] = c[b] PROVE a = b
    <3>1. CASE a # 1 /\ b # 1
      <4>1. a - 1 = b - 1
        BY <1>1, <1>2, <1>4, <2>2, <3>1 DEF IsInjective
      <4> QED BY <4>1, <1>1
    <3>2. CASE a = 1 \/ b = 1
      BY <1>1, <1>2, <2>1, <2>2, <3>2
    <3> QED BY <3>1, <3>2
  <2> QED BY <2>2 DEF IsInjective
<1> QED BY <1>1, <1>3, <1>4 DEF c

(* The items of a list with one more at the end. *)
LEMMA AppendItem ==
  ASSUME NEW S, NEW s \in Seq(S), NEW x \in S
  PROVE  /\ ToSet(Append(s, x)) = ToSet(s) \cup {x}
         /\ IsInjective(s) /\ x \notin ToSet(s) => IsInjective(Append(s, x))
<1> DEFINE c == Append(s, x)
<1>1. /\ c \in Seq(S) /\ Len(c) = Len(s) + 1 /\ Len(s) \in Nat
      /\ c[Len(s) + 1] = x /\ \A k \in 1..Len(s) : c[k] = s[k]
      /\ DOMAIN c = 1..(Len(s) + 1) /\ DOMAIN s = 1..Len(s)
  BY LenProperties, AppendProperties
<1> HIDE DEF c
<1>2. \A k \in DOMAIN c : k = Len(s) + 1 \/ k \in 1..Len(s)
  BY <1>1
<1>3. \A k \in 1..Len(s) : k \in DOMAIN c
  BY <1>1
<1>4. Len(s) + 1 \in DOMAIN c
  BY <1>1
<1>5. ToSet(c) = ToSet(s) \cup {x}
  <2>1. \A y : y \in ToSet(c) <=> \E k \in DOMAIN c : c[k] = y
    BY DEF ToSet
  <2>2. \A y : y \in ToSet(s) <=> \E k \in 1..Len(s) : s[k] = y
    BY <1>1 DEF ToSet
  <2>3. ASSUME NEW y PROVE y \in ToSet(c) <=> y \in ToSet(s) \cup {x}
    BY <1>1, <1>2, <1>3, <1>4, <2>1, <2>2
  <2> QED BY <2>3
<1>6. ASSUME IsInjective(s), x \notin ToSet(s) PROVE IsInjective(c)
  <2>1. \A k \in 1..Len(s) : s[k] # x
    BY <1>1, <1>6 DEF ToSet
  <2>2. \A i, j \in 1..Len(s) : s[i] = s[j] => i = j
    BY <1>1, <1>6 DEF IsInjective
  <2>3. \A i, j \in DOMAIN c : c[i] = c[j] => i = j
    BY <1>1, <1>2, <2>1, <2>2
  <2> QED BY <2>3 DEF IsInjective
<1> QED BY <1>5, <1>6 DEF c

(* The items of a list without the one on top. *)
LEMMA TailItems ==
  ASSUME NEW S, NEW s \in Seq(S), s # <<>>, IsInjective(s)
  PROVE  /\ Tail(s) \in Seq(S)
         /\ Head(s) \in S /\ Head(s) \in ToSet(s)
         /\ ToSet(Tail(s)) = ToSet(s) \ {Head(s)}
         /\ IsInjective(Tail(s))
<1> DEFINE u == Tail(s)
<1>1. /\ u \in Seq(S) /\ Len(u) = Len(s) - 1 /\ Head(s) = s[1] /\ Head(s) \in S
      /\ \A k \in 1..Len(u) : u[k] = s[k + 1]
      /\ Len(s) \in Nat /\ Len(s) >= 1
      /\ DOMAIN u = 1..Len(u) /\ DOMAIN s = 1..Len(s)
  BY HeadTailProperties, LenProperties, EmptySeq
<1> HIDE DEF u
<1>2. Head(s) \in ToSet(s)
  BY <1>1 DEF ToSet
<1>3. ToSet(u) = ToSet(s) \ {Head(s)}
  <2>1. ASSUME NEW y \in ToSet(u) PROVE y \in ToSet(s) \ {Head(s)}
    <3>1. PICK k \in 1..Len(u) : y = u[k]
      BY <1>1 DEF ToSet
    <3>2. k + 1 \in DOMAIN s /\ 1 \in DOMAIN s /\ s[k + 1] = y /\ k + 1 # 1
      BY <1>1, <3>1
    <3> QED BY <1>1, <3>2 DEF ToSet, IsInjective
  <2>2. ASSUME NEW y \in ToSet(s) \ {Head(s)} PROVE y \in ToSet(u)
    <3>1. PICK k \in 1..Len(s) : y = s[k]
      BY <1>1 DEF ToSet
    <3>2. k - 1 \in DOMAIN u /\ u[k - 1] = y
      BY <1>1, <2>2, <3>1
    <3> QED BY <3>2 DEF ToSet
  <2> QED BY <2>1, <2>2
<1>4. IsInjective(u)
  <2> SUFFICES ASSUME NEW a \in DOMAIN u, NEW b \in DOMAIN u, u[a] = u[b] PROVE a = b
    BY DEF IsInjective
  <2>1. a + 1 = b + 1
    BY <1>1, SMTT(30) DEF IsInjective
  <2> QED BY <1>1, <2>1
<1> QED BY <1>1, <1>2, <1>3, <1>4 DEF u

(* The items of a list after one was taken out from any place. *)
LEMMA RemoveItem ==
  ASSUME NEW S, NEW s \in Seq(S), NEW k \in DOMAIN s, IsInjective(s)
  PROVE  /\ RemoveAt(s, k) \in Seq(S)
         /\ Len(RemoveAt(s, k)) = Len(s) - 1
         /\ \A j \in 1..(Len(s) - 1) : RemoveAt(s, k)[j] = IF j < k THEN s[j] ELSE s[j + 1]
         /\ ToSet(RemoveAt(s, k)) = ToSet(s) \ {s[k]}
         /\ IsInjective(RemoveAt(s, k))
<1> DEFINE u == RemoveAt(s, k)
           a == SubSeq(s, 1, k - 1)
           b == SubSeq(s, k + 1, Len(s))
<1>1. /\ Len(s) \in Nat /\ DOMAIN s = 1..Len(s) /\ k \in 1..Len(s)
      /\ \A j \in 1..Len(s) : s[j] \in S
  BY LenProperties, ElementOfSeq
<1>2. /\ a \in Seq(S) /\ Len(a) = k - 1
      /\ \A j \in 1..(k - 1) : a[j] = s[j]
  <2>1. /\ 1 \in Int /\ k - 1 \in Int /\ \A j \in 1..(k - 1) : s[j] \in S
        /\ \A j \in 1..(k - 1) : j \in 1..((k - 1) - 1 + 1) /\ 1 + j - 1 = j
    BY <1>1
  <2> QED BY <1>1, <2>1, SubSeqProperties
<1>3. /\ b \in Seq(S) /\ Len(b) = Len(s) - k
      /\ \A j \in 1..(Len(s) - k) : b[j] = s[k + j]
  <2>1. /\ k + 1 \in Int /\ Len(s) \in Int /\ \A j \in (k + 1)..Len(s) : s[j] \in S
        /\ \A j \in 1..(Len(s) - k) : j \in 1..(Len(s) - (k + 1) + 1) /\ (k + 1) + j - 1 = k + j
    BY <1>1
  <2> QED BY <1>1, <2>1, SubSeqProperties
<1> HIDE DEF a, b
<1>4. /\ u \in Seq(S) /\ Len(u) = Len(s) - 1
      /\ \A j \in 1..(Len(s) - 1) : u[j] = IF j < k THEN s[j] ELSE s[j + 1]
  <2>1. u = a \o b
    BY DEF RemoveAt, a, b
  <2>2. /\ u \in Seq(S) /\ Len(u) = Len(a) + Len(b)
        /\ \A j \in 1..(Len(a) + Len(b)) : u[j] = IF j <= Len(a) THEN a[j] ELSE b[j - Len(a)]
    <3>1. a \in Seq(S) /\ b \in Seq(S)
      BY <1>2, <1>3
    <3>2. a \o b \in Seq(S) /\ Len(a \o b) = Len(a) + Len(b)
      BY ONLY <3>1, ConcatProperties
    <3>3. \A j \in 1..(Len(a) + Len(b)) :
             (a \o b)[j] = IF j <= Len(a) THEN a[j] ELSE b[j - Len(a)]
      BY ONLY <3>1, ConcatProperties
    <3> QED BY <2>1, <3>2, <3>3
  <2>3. ASSUME NEW j \in 1..(Len(s) - 1) PROVE u[j] = IF j < k THEN s[j] ELSE s[j + 1]
    <3>1. CASE j < k
      BY <1>1, <1>2, <1>3, <2>2, <3>1
    <3>2. CASE ~(j < k)
      <4>1. j - (k - 1) \in 1..(Len(s) - k) /\ k + (j - (k - 1)) = j + 1 /\ ~(j <= k - 1)
        BY <1>1, <3>2
      <4>2. j \in 1..(Len(a) + Len(b)) /\ ~(j <= Len(a)) /\ j - Len(a) = j - (k - 1)
        BY <1>1, <1>2, <1>3, <3>2
      <4>3. u[j] = b[j - (k - 1)]
        BY <2>2, <4>2
      <4> QED BY <1>3, <3>2, <4>1, <4>3
    <3> QED BY <3>1, <3>2
  <2> QED BY <1>1, <1>2, <1>3, <2>2, <2>3
<1> HIDE DEF u
<1>5. DOMAIN u = 1..(Len(s) - 1)
  BY <1>4, LenProperties
<1>6. ToSet(u) = ToSet(s) \ {s[k]}
  <2>1. ASSUME NEW y \in ToSet(u) PROVE y \in ToSet(s) \ {s[k]}
    <3>1. PICK j \in 1..(Len(s) - 1) : y = u[j]
      BY <1>5 DEF ToSet
    <3>2. PICK i \in DOMAIN s : i # k /\ s[i] = y
      BY <1>1, <1>4, <3>1, SMTT(30)
    <3> QED BY <3>2 DEF ToSet, IsInjective
  <2>2. ASSUME NEW y \in ToSet(s) \ {s[k]} PROVE y \in ToSet(u)
    <3>1. PICK i \in 1..Len(s) : y = s[i] /\ i # k
      BY <1>1 DEF ToSet
    <3>2. \E j \in 1..(Len(s) - 1) : u[j] = y
      <4>1. CASE i < k
        BY <1>1, <1>4, <3>1, <4>1
      <4>2. CASE i > k
        <5>1. i - 1 \in 1..(Len(s) - 1) /\ ~(i - 1 < k) /\ (i - 1) + 1 = i
          BY <1>1, <4>2
        <5> QED BY <1>4, <3>1, <5>1
      <4> QED BY <1>1, <3>1, <4>1, <4>2
    <3> QED BY <1>5, <3>2 DEF ToSet
  <2> QED BY <2>1, <2>2
<1>7. IsInjective(u)
  <2> SUFFICES ASSUME NEW i \in 1..(Len(s) - 1), NEW j \in 1..(Len(s) - 1), u[i] = u[j]
               PROVE  i = j
    BY <1>5 DEF IsInjective
  <2>1. /\ i \in 1..Len(s) /\ i + 1 \in 1..Len(s)
        /\ j \in 1..Len(s) /\ j + 1 \in 1..Len(s)
    BY <1>1
  <2>2. (IF i < k THEN i ELSE i + 1) = (IF j < k THEN j ELSE j + 1)
    BY <1>1, <1>4, <2>1 DEF IsInjective
  <2> QED BY <1>1, <2>2
<1> QED BY <1>4, <1>6, <1>7 DEF u

(* The list without the one on top, in the other way to say it. *)
LEMMA TakeTop ==
  ASSUME NEW S, NEW s \in Seq(S), s # <<>>, IsInjective(s)
  PROVE  RemoveAt(s, 1) = Tail(s)
<1> DEFINE u == RemoveAt(s, 1)
           v == Tail(s)
<1>1. Len(s) \in Nat /\ Len(s) >= 1 /\ 1 \in DOMAIN s
  BY LenProperties, EmptySeq
<1>2. /\ u \in Seq(S) /\ Len(u) = Len(s) - 1
      /\ \A j \in 1..(Len(s) - 1) : u[j] = s[j + 1]
  <2>1. /\ u \in Seq(S) /\ Len(u) = Len(s) - 1
        /\ \A j \in 1..(Len(s) - 1) : u[j] = IF j < 1 THEN s[j] ELSE s[j + 1]
    BY <1>1, RemoveItem
  <2> QED BY <2>1
<1>3. /\ v \in Seq(S) /\ Len(v) = Len(s) - 1
      /\ \A j \in 1..Len(v) : v[j] = s[j + 1]
  BY HeadTailProperties
<1>4. Len(u) = Len(v) /\ \A j \in 1..Len(u) : u[j] = v[j]
  BY <1>1, <1>2, <1>3
<1> HIDE DEF u, v
<1>5. u = v
  BY ONLY <1>2, <1>3, <1>4, SeqEqual
<1> QED BY <1>5 DEF u, v

(* All items in some order: what rmw_init leaves in the pool. *)
LEMMA AllItems ==
  ASSUME NEW S, IsFiniteSet(S)
  PROVE  /\ SetToSeq(S) \in Seq(S)
         /\ ToSet(SetToSeq(S)) = S
         /\ IsInjective(SetToSeq(S))
<1> DEFINE n == Cardinality(S)
           f == SetToSeq(S)
<1>1. n \in Nat /\ ExistsBijection(1..n, S)
  BY FS_CardinalityType
<1>2. \E g \in [1..n -> S] : IsInjective(g)
  BY <1>1 DEF ExistsBijection, Bijection, Injection
<1>3. f \in [1..n -> S] /\ IsInjective(f)
  BY <1>2 DEF SetToSeq
<1> HIDE DEF f
<1>4. \A y \in S : \E k \in 1..n : f[k] = y
  <2>1. Cardinality(1..n) = Cardinality(S)
    <3>1. Cardinality(1..n) = IF 1 > n THEN 0 ELSE n - 1 + 1
      BY <1>1, FS_Interval
    <3> QED BY <1>1, <3>1
  <2>2. f \in Injection(1..n, S)
    BY <1>3 DEF Injection
  <2> HIDE DEF n
  <2>3. f \in Surjection(1..n, S)
    BY <2>1, <2>2, FS_Injection
  <2> QED BY <2>3 DEF Surjection
<1>5. f \in Seq(S)
  BY <1>1, <1>3, SeqDef
<1>6. ToSet(f) = S
  BY <1>3, <1>4 DEF ToSet
<1> QED BY <1>3, <1>5, <1>6 DEF f
=============================================================================
