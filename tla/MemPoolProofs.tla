--------------------------- MODULE MemPoolProofs ---------------------------
(***************************************************************************)
(* For every size of the static array, the links of memory.cpp form proper *)
(* lists that lose and duplicate no item, and seen through those lists the *)
(* pool is the one of ItemPool.  The inductive invariant is WellFormed     *)
(* together with the types and with what is known of the items the pool    *)
(* does not have yet (Fresh): their links are still zero, which is what    *)
(* lets put_memory serve to load the pool.  For the refinement, each step  *)
(* is followed on two given lists (NextLists), and the links determine     *)
(* those lists (ListIsUnique).                                             *)
(***************************************************************************)
EXTENDS MemPool, ListLemmas

-----------------------------------------------------------------------------
(* Sequences *)

(* A function on 1..n is a sequence of length n. *)
LEMMA FunctionIsSeq ==
  ASSUME NEW S, NEW n \in Nat, NEW s \in [1..n -> S]
  PROVE  s \in Seq(S) /\ Len(s) = n /\ DOMAIN s = 1..n
<1>1. s \in Seq(S)
  BY SeqDef
<1>2. DOMAIN s = 1..n /\ DOMAIN s = 1..Len(s) /\ Len(s) \in Nat
  BY <1>1, LenProperties
<1> QED BY <1>1, <1>2

(* SeqOf bounds the length of the sequences over a set. *)
LEMMA SeqOfIsSeq ==
  ASSUME NEW S, NEW n \in Nat, NEW s
  PROVE  s \in SeqOf(S, n) <=> s \in Seq(S) /\ Len(s) <= n
<1>1. ASSUME s \in SeqOf(S, n) PROVE s \in Seq(S) /\ Len(s) <= n
  <2>1. PICK m \in 0..n : s \in [1..m -> S]
    BY <1>1 DEF SeqOf
  <2> QED BY <2>1, FunctionIsSeq
<1>2. ASSUME s \in Seq(S), Len(s) <= n PROVE s \in SeqOf(S, n)
  BY <1>2, LenProperties DEF SeqOf
<1> QED BY <1>1, <1>2

(* A sequence of items without repetition is no longer than the array. *)
LEMMA DistinctIsShort ==
  ASSUME NEW s \in Seq(Items),
         \A i, j \in 1..Len(s) : s[i] = s[j] => i = j
  PROVE  s \in SeqOf(Items, Size)
<1>1. Len(s) \in Nat /\ s \in [1..Len(s) -> Items] /\ Size \in Nat
  BY LenProperties, SizeAssumption
<1>2. /\ IsFiniteSet(1..Len(s)) /\ Cardinality(1..Len(s)) = Len(s)
      /\ IsFiniteSet(Items) /\ Cardinality(Items) = Size
  <2>1. \A n \in Nat : IsFiniteSet(1..n) /\ Cardinality(1..n) = n
    <3> TAKE n \in Nat
    <3>1. /\ IsFiniteSet(1..n)
          /\ Cardinality(1..n) = IF 1 > n THEN 0 ELSE n - 1 + 1
      BY FS_Interval
    <3> QED BY <3>1
  <2> QED BY <2>1, <1>1 DEF Items
<1>3. ASSUME Len(s) > Size PROVE FALSE
  <2>1. \E x, y \in 1..Len(s) : x # y /\ s[x] = s[y]
    BY <1>1, <1>2, <1>3, FS_PigeonHole
  <2> QED BY <2>1
<1> QED BY <1>1, <1>3, SeqOfIsSeq

-----------------------------------------------------------------------------
(* The lists *)

(* s lists the items of S, in the order of the links, from head. *)
Lists(m, head, s, S) ==
    /\ s \in Seq(Items)
    /\ IsList(m, head, s)
    /\ ToSet(s) = S

PoolType == [is_initialized : BOOLEAN,
             allocateditems : Items \cup {NULL},
             freeitems      : Items \cup {NULL},
             prev           : Links,
             next           : Links]

(* A list depends on the links of its own items only. *)
LEMMA ListFrame ==
  ASSUME NEW m, NEW n, NEW head, NEW s, NEW S,
         Lists(m, head, s, S),
         \A i \in S : n.prev[i] = m.prev[i] /\ n.next[i] = m.next[i]
  PROVE  Lists(n, head, s, S)
<1>1. \A i \in 1..Len(s) : s[i] \in S
  BY LenProperties DEF Lists, ToSet
<1> QED BY <1>1 DEF Lists, IsList

(* Where the neighbours of a list's item are. *)
LEMMA ListItems ==
  ASSUME NEW m, NEW head, NEW s, NEW S, Lists(m, head, s, S)
  PROVE  /\ Len(s) \in Nat
         /\ DOMAIN s = 1..Len(s)
         /\ \A i \in 1..Len(s) : s[i] \in S /\ s[i] \in Items
         /\ \A x \in S : \E i \in 1..Len(s) : x = s[i]
         /\ S \subseteq Items
         /\ s = <<>> <=> Len(s) = 0
         /\ head = NULL <=> Len(s) = 0
         /\ Len(s) > 0 => head = s[1]
<1>1. s \in Seq(Items)
  BY DEF Lists
<1>2. /\ Len(s) \in Nat /\ DOMAIN s = 1..Len(s)
      /\ \A i \in 1..Len(s) : s[i] \in Items
  BY <1>1, LenProperties, ElementOfSeq
<1>3. s = <<>> <=> Len(s) = 0
  BY <1>1, EmptySeq
<1>4. /\ \A i \in 1..Len(s) : s[i] \in S
      /\ \A x \in S : \E i \in 1..Len(s) : x = s[i]
  BY <1>2 DEF Lists, ToSet
<1>5. NULL \notin Items
  BY SizeAssumption DEF NULL, Items
<1>6. head = IF s = <<>> THEN NULL ELSE s[1]
  BY DEF Lists, IsList
<1> QED BY <1>2, <1>3, <1>4, <1>5, <1>6

(* An item that becomes the head of a list: item's next is the old head,   *)
(* and the old head's prev is item.                                        *)
LEMMA ListCons ==
  ASSUME NEW m, NEW n, NEW head, NEW s, NEW S, NEW item \in Items \ S,
         Lists(m, head, s, S),
         n.next[item] = head, n.prev[item] = NULL,
         \A i \in S : n.next[i] = m.next[i],
         \A i \in S : n.prev[i] = IF i = head THEN item ELSE m.prev[i]
  PROVE  Lists(n, item, Cons(item, s), S \cup {item})
<1> DEFINE L == Len(s)
           t == Cons(item, s)
<1>1. /\ L \in Nat /\ DOMAIN s = 1..L
      /\ \A i \in 1..L : s[i] \in S /\ s[i] \in Items
      /\ \A x \in S : \E i \in 1..L : x = s[i]
      /\ head = NULL <=> L = 0
      /\ L > 0 => head = s[1]
  BY ListItems
<1>2. /\ t \in Seq(Items) /\ Len(t) = L + 1 /\ t[1] = item
      /\ \A k \in 1..L : t[k + 1] = s[k]
      /\ ToSet(t) = S \cup {item}
  <2>1. s \in Seq(Items) /\ item \in Items
    BY DEF Lists
  <2>2. Cons(item, s) \in Seq(Items) /\ ToSet(Cons(item, s)) = ToSet(s) \cup {item}
    BY ONLY <2>1, ConsItem
  <2>3. Len(Cons(item, s)) = Len(s) + 1 /\ Cons(item, s)[1] = item
    BY ONLY <2>1, ConsItem
  <2>4. \A k \in 1..Len(s) : Cons(item, s)[k + 1] = s[k]
    BY ONLY <2>1, ConsItem
  <2>5. ToSet(s) = S
    BY DEF Lists
  <2> QED BY <2>1, <2>2, <2>3, <2>4, <2>5
<1> HIDE DEF t
<1>3. t \in Seq(Items) /\ Len(t) = L + 1 /\ DOMAIN t = 1..(L + 1)
  BY <1>2, LenProperties
<1>4. t[1] = item /\ \A i \in 2..(L + 1) : t[i] = s[i - 1]
  <2>1. ASSUME NEW i \in 2..(L + 1) PROVE t[i] = s[i - 1]
    <3>1. i - 1 \in 1..L /\ (i - 1) + 1 = i
      BY <1>1, <2>1
    <3> QED BY <1>2, <3>1
  <2> QED BY <1>2, <2>1
<1>5. ToSet(t) = S \cup {item}
  BY <1>2
<1>6. item = IF t = <<>> THEN NULL ELSE t[1]
  BY <1>1, <1>3, <1>4, EmptySeq
<1>7. \A i, j \in 1..Len(s) : s[i] = s[j] => i = j
  BY DEF Lists, IsList
<1>links. \A i \in 1..L : /\ m.next[s[i]] = IF i < L THEN s[i + 1] ELSE NULL
                          /\ m.prev[s[i]] = IF i > 1 THEN s[i - 1] ELSE NULL
  BY DEF Lists, IsList
<1>8. \A i, j \in 1..Len(t) : t[i] = t[j] => i = j
  <2> SUFFICES ASSUME NEW i \in 1..(L + 1), NEW j \in 1..(L + 1), t[i] = t[j]
               PROVE  i = j
    BY <1>3
  <2>1. CASE i = 1 /\ j > 1
    BY <2>1, <1>1, <1>4
  <2>2. CASE j = 1 /\ i > 1
    BY <2>2, <1>1, <1>4
  <2>3. CASE i > 1 /\ j > 1
    <3>1. i - 1 \in 1..L /\ j - 1 \in 1..L /\ s[i - 1] = s[j - 1]
      BY <2>3, <1>1, <1>4
    <3> QED BY <3>1, <1>7, <1>1
  <2> QED BY <2>1, <2>2, <2>3, <1>1
<1>9. ASSUME NEW i \in 1..(L + 1)
      PROVE  /\ n.next[t[i]] = IF i < L + 1 THEN t[i + 1] ELSE NULL
             /\ n.prev[t[i]] = IF i > 1 THEN t[i - 1] ELSE NULL
  <2>1. CASE i = 1
    <3>1. L > 0 => t[2] = s[1]
      BY <1>1, <1>4
    <3> QED BY <2>1, <3>1, <1>1, <1>4
  <2>2. CASE i > 1
    <3>1. i - 1 \in 1..L /\ t[i] = s[i - 1] /\ s[i - 1] \in S
      BY <2>2, <1>1, <1>4
    <3>2. /\ m.next[s[i - 1]] = IF i - 1 < L THEN s[i] ELSE NULL
          /\ m.prev[s[i - 1]] = IF i - 1 > 1 THEN s[i - 2] ELSE NULL
      <4>1. /\ m.next[s[i - 1]] = IF i - 1 < L THEN s[(i - 1) + 1] ELSE NULL
            /\ m.prev[s[i - 1]] = IF i - 1 > 1 THEN s[(i - 1) - 1] ELSE NULL
        BY <3>1, <1>links
      <4>2. (i - 1) + 1 = i /\ (i - 1) - 1 = i - 2
        OBVIOUS
      <4> QED BY <4>1, <4>2
    <3>3. n.next[t[i]] = IF i < L + 1 THEN t[i + 1] ELSE NULL
      BY <3>1, <3>2, <1>1, <1>4
    <3>4. CASE i = 2
      BY <3>4, <3>1, <3>3, <1>1, <1>4
    <3>5. CASE i > 2
      <4>1. s[i - 1] # head
        BY <3>1, <3>5, <1>1, <1>7
      <4>2. t[i - 1] = s[i - 2]
        BY <3>5, <1>1, <1>4
      <4> QED BY <3>1, <3>2, <3>3, <3>5, <4>1, <4>2, <1>1
    <3> QED BY <3>4, <3>5, <2>2, <1>1
  <2> QED BY <2>1, <2>2, <1>1
<1>10. IsList(n, item, t)
  BY <1>3, <1>6, <1>8, <1>9 DEF IsList
<1> QED BY <1>3, <1>5, <1>10 DEF Lists, t

(* An item taken out of a list, wherever it is, by linking its neighbours. *)
LEMMA ListRemove ==
  ASSUME NEW m, NEW n, NEW head, NEW s, NEW S, NEW item \in S,
         Lists(m, head, s, S),
         \A i \in S \ {item} :
            /\ n.next[i] = IF i = m.prev[item] THEN m.next[item] ELSE m.next[i]
            /\ n.prev[i] = IF i = m.next[item] THEN m.prev[item] ELSE m.prev[i]
  PROVE  \E k \in DOMAIN s :
            /\ s[k] = item
            /\ Lists(n, IF head = item THEN m.next[item] ELSE head,
                     RemoveAt(s, k), S \ {item})
<1> DEFINE L == Len(s)
<1>1. /\ L \in Nat /\ DOMAIN s = 1..L
      /\ \A i \in 1..L : s[i] \in S /\ s[i] \in Items
      /\ \A x \in S : \E i \in 1..L : x = s[i]
      /\ S \subseteq Items
      /\ head = NULL <=> L = 0
      /\ L > 0 => head = s[1]
  BY ListItems
<1>2. PICK k \in 1..L : item = s[k]
  BY <1>1
<1> DEFINE t == RemoveAt(s, k)
           top == IF head = item THEN m.next[item] ELSE head
<1>3. /\ t \in Seq(Items) /\ Len(t) = L - 1
      /\ \A i \in 1..(L - 1) : t[i] = IF i < k THEN s[i] ELSE s[i + 1]
      /\ ToSet(t) = S \ {item}
  <2>1. s \in Seq(Items) /\ IsInjective(s) /\ ToSet(s) = S
    BY <1>1 DEF Lists, IsList, IsInjective
  <2>2. k \in DOMAIN s /\ s[k] = item
    BY <1>1, <1>2
  <2> QED BY ONLY <2>1, <2>2, RemoveItem
<1> HIDE DEF t
<1>4. /\ \A i \in 1..(L - 1) : i < k => t[i] = s[i]
      /\ \A i \in 1..(L - 1) : i >= k => t[i] = s[i + 1]
  BY <1>1, <1>2, <1>3
<1>5. L - 1 \in Nat /\ t \in Seq(Items) /\ Len(t) = L - 1 /\ DOMAIN t = 1..(L - 1)
  BY <1>1, <1>2, <1>3, LenProperties
<1>6. \A i, j \in 1..L : s[i] = s[j] => i = j
  BY DEF Lists, IsList
<1>7. \A i \in 1..L : /\ m.next[s[i]] = IF i < L THEN s[i + 1] ELSE NULL
                      /\ m.prev[s[i]] = IF i > 1 THEN s[i - 1] ELSE NULL
  BY DEF Lists, IsList
<1>8. NULL \notin S
  BY <1>1, SizeAssumption DEF NULL, Items
<1>9. \A i \in 1..L : /\ s[i] = m.prev[item] <=> i = k - 1
                      /\ s[i] = m.next[item] <=> i = k + 1
  <2> TAKE i \in 1..L
  <2>1. s[i] # NULL
    BY <1>1, <1>8
  <2>2. m.prev[item] = IF k > 1 THEN s[k - 1] ELSE NULL
    BY <1>2, <1>7
  <2>3. m.next[item] = IF k < L THEN s[k + 1] ELSE NULL
    BY <1>2, <1>7
  <2>4. s[i] = m.prev[item] <=> i = k - 1
    BY <2>1, <2>2, <1>1, <1>2, <1>6
  <2>5. s[i] = m.next[item] <=> i = k + 1
    BY <2>1, <2>3, <1>1, <1>2, <1>6
  <2> QED BY <2>4, <2>5
<1>10. \A i \in 1..(L - 1) : t[i] \in S \ {item}
  BY <1>1, <1>2, <1>4, <1>6
<1>before. \A i \in 1..(L - 1) :
              i < k => i \in 1..L /\ t[i] = s[i] /\ s[i] \in S \ {item}
  <2> TAKE i \in 1..(L - 1)
  <2>1. i \in 1..L
    BY <1>1
  <2>2. t[i] \in S \ {item}
    BY <1>10
  <2>3. i < k => t[i] = s[i]
    BY <1>4
  <2> QED BY <2>1, <2>2, <2>3
<1>behind. \A i \in 1..(L - 1) :
              i >= k => i + 1 \in 1..L /\ t[i] = s[i + 1] /\ s[i + 1] \in S \ {item}
  <2> TAKE i \in 1..(L - 1)
  <2>1. i + 1 \in 1..L
    BY <1>1
  <2>2. t[i] \in S \ {item}
    BY <1>10
  <2>3. i >= k => t[i] = s[i + 1]
    BY <1>4
  <2> QED BY <2>1, <2>2, <2>3
<1>11. ToSet(t) = S \ {item}
  BY <1>3
<1>12. \A i, j \in 1..Len(t) : t[i] = t[j] => i = j
  BY <1>1, <1>2, <1>4, <1>5, <1>6
<1>13. top = IF t = <<>> THEN NULL ELSE t[1]
  <2>1. head = item <=> k = 1
    BY <1>1, <1>2, <1>6
  <2>2. t = <<>> <=> L = 1
    BY <1>1, <1>2, <1>5, EmptySeq
  <2>3. m.next[item] = IF k < L THEN s[k + 1] ELSE NULL
    BY <1>2, <1>7
  <2> QED BY <2>1, <2>2, <2>3, <1>1, <1>2, <1>4
<1>14. ASSUME NEW i \in 1..(L - 1)
       PROVE  n.next[t[i]] = IF i < L - 1 THEN t[i + 1] ELSE NULL
  <2>1. CASE i < k
    <3>1. i \in 1..L /\ t[i] = s[i] /\ s[i] \in S \ {item}
      BY <2>1, <1>before
    <3>2. n.next[s[i]] = IF i = k - 1 THEN m.next[item] ELSE m.next[s[i]]
      BY <3>1, <1>9
    <3>3. m.next[item] = IF k < L THEN s[k + 1] ELSE NULL
      BY <1>2, <1>7
    <3>4. m.next[s[i]] = s[i + 1]
      BY <3>1, <1>7, <1>1
    <3> QED BY <3>1, <3>2, <3>3, <3>4, <2>1, <1>1, <1>2, <1>4
  <2>2. CASE i >= k
    <3>1. i + 1 \in 1..L /\ t[i] = s[i + 1] /\ s[i + 1] \in S \ {item}
      BY <2>2, <1>behind
    <3>2. n.next[s[i + 1]] = m.next[s[i + 1]]
      BY <3>1, <2>2, <1>9, <1>2, <1>1
    <3>3. m.next[s[i + 1]] = IF i + 1 < L THEN s[i + 2] ELSE NULL
      <4>1. i + 1 \in 1..L
        BY <3>1
      <4>2. m.next[s[i + 1]] = IF i + 1 < L THEN s[(i + 1) + 1] ELSE NULL
        BY <4>1, <1>7
      <4>3. (i + 1) + 1 = i + 2
        OBVIOUS
      <4> QED BY <4>2, <4>3
    <3> QED BY <3>1, <3>2, <3>3, <2>2, <1>1, <1>2, <1>4
  <2> QED BY <2>1, <2>2, <1>1, <1>2
<1>15. ASSUME NEW i \in 1..(L - 1)
       PROVE  n.prev[t[i]] = IF i > 1 THEN t[i - 1] ELSE NULL
  <2>1. CASE i < k
    <3>1. i \in 1..L /\ t[i] = s[i] /\ s[i] \in S \ {item}
      BY <2>1, <1>before
    <3>2. n.prev[s[i]] = m.prev[s[i]]
      BY <3>1, <2>1, <1>9, <1>2, <1>1
    <3>3. m.prev[s[i]] = IF i > 1 THEN s[i - 1] ELSE NULL
      BY <3>1, <1>7
    <3> QED BY <3>1, <3>2, <3>3, <2>1, <1>1, <1>2, <1>4
  <2>2. CASE i >= k
    <3>1. i + 1 \in 1..L /\ t[i] = s[i + 1] /\ s[i + 1] \in S \ {item}
      BY <2>2, <1>behind
    <3>2. n.prev[s[i + 1]] = IF i = k THEN m.prev[item] ELSE m.prev[s[i + 1]]
      BY <3>1, <1>9, <1>1, <1>2
    <3>3. m.prev[item] = IF k > 1 THEN s[k - 1] ELSE NULL
      BY <1>2, <1>7
    <3>4. m.prev[s[i + 1]] = s[i]
      BY <3>1, <1>7, <1>1, <1>2, <2>2
    <3> QED BY <3>1, <3>2, <3>3, <3>4, <2>2, <1>1, <1>2, <1>4
  <2> QED BY <2>1, <2>2, <1>1, <1>2
<1>16. IsList(n, top, t)
  BY <1>5, <1>12, <1>13, <1>14, <1>15 DEF IsList
<1>17. Lists(n, top, t, S \ {item})
  BY <1>5, <1>11, <1>16 DEF Lists
<1> QED BY <1>1, <1>2, <1>17 DEF t

-----------------------------------------------------------------------------
(* The operations of memory.cpp on a pool whose lists a and f hold A and F *)

Pool(m, a, f, A, F) ==
    /\ m \in PoolType
    /\ Lists(m, m.allocateditems, a, A)
    /\ Lists(m, m.freeitems, f, F)

(* n is m after a call that touches no link but those of S. *)
Keeps(m, n, S) ==
    /\ n.is_initialized = m.is_initialized
    /\ \A i \in Items \ S : n.prev[i] = m.prev[i] /\ n.next[i] = m.next[i]

(* The neighbours of a list's item are items of that list, and not itself. *)
LEMMA Neighbours ==
  ASSUME NEW m, NEW head, NEW s, NEW S, NEW item \in S,
         Lists(m, head, s, S)
  PROVE  /\ m.prev[item] \in (S \ {item}) \cup {NULL}
         /\ m.next[item] \in (S \ {item}) \cup {NULL}
         /\ item = head <=> m.prev[item] = NULL
<1>1. /\ Len(s) \in Nat
      /\ \A i \in 1..Len(s) : s[i] \in S /\ s[i] \in Items
      /\ \A x \in S : \E i \in 1..Len(s) : x = s[i]
      /\ Len(s) > 0 => head = s[1]
  BY ListItems
<1>2. PICK k \in 1..Len(s) : item = s[k]
  BY <1>1
<1>3. /\ m.next[s[k]] = IF k < Len(s) THEN s[k + 1] ELSE NULL
      /\ m.prev[s[k]] = IF k > 1 THEN s[k - 1] ELSE NULL
      /\ \A i, j \in 1..Len(s) : s[i] = s[j] => i = j
  BY DEF Lists, IsList
<1>4. NULL \notin Items
  BY SizeAssumption DEF NULL, Items
<1> QED BY <1>1, <1>2, <1>3, <1>4

(* What the second half of put_memory leaves in each link. *)
LEMMA PushFreeLinks ==
  ASSUME NEW u \in PoolType, NEW item \in Items
  PROVE  LET p == PushFree(u, item)
         IN  /\ p \in PoolType
             /\ p.is_initialized = u.is_initialized
             /\ p.freeitems = item
             /\ p.allocateditems = u.allocateditems
             /\ \A i \in Items :
                   /\ p.next[i] = IF i = item THEN u.freeitems ELSE u.next[i]
                   /\ p.prev[i] = IF i = item THEN NULL
                                  ELSE IF i = u.freeitems THEN item
                                  ELSE u.prev[i]
<1> DEFINE prev1 == IF u.freeitems # NULL
                    THEN [u.prev EXCEPT ![u.freeitems] = item] ELSE u.prev
           prev2 == [prev1 EXCEPT ![item] = NULL]
           next1 == [u.next EXCEPT ![item] = u.freeitems]
           p     == [u EXCEPT !.freeitems = item, !.next = next1, !.prev = prev2]
<1>1. NULL \notin Items
  BY SizeAssumption DEF NULL, Items
<1>2. u.prev \in Links /\ u.next \in Links /\ u.freeitems \in Items \cup {NULL}
  BY DEF PoolType
<1>3. /\ prev1 \in Links
      /\ \A i \in Items : prev1[i] = IF i = u.freeitems THEN item ELSE u.prev[i]
  BY <1>1, <1>2 DEF Links
<1> HIDE DEF prev1
<1>4. /\ prev2 \in Links
      /\ \A i \in Items : prev2[i] = IF i = item THEN NULL ELSE prev1[i]
  BY <1>3 DEF Links
<1>5. /\ next1 \in Links
      /\ \A i \in Items : next1[i] = IF i = item THEN u.freeitems ELSE u.next[i]
  BY <1>2 DEF Links
<1> HIDE DEF prev2, next1
<1>6. /\ p \in PoolType
      /\ p.is_initialized = u.is_initialized
      /\ p.freeitems = item
      /\ p.allocateditems = u.allocateditems
      /\ p.next = next1 /\ p.prev = prev2
  BY <1>4, <1>5 DEF PoolType
<1>7. PushFree(u, item) = p
  BY DEF PushFree, prev1, prev2, next1
<1> HIDE DEF p
<1> QED BY <1>3, <1>4, <1>5, <1>6, <1>7

(* What put_memory leaves in each link, for an item that is not linked to  *)
(* itself.                                                                 *)
LEMMA PutMemoryLinks ==
  ASSUME NEW m \in PoolType, NEW item \in Items,
         m.prev[item] # item, m.next[item] # item, m.freeitems # item
  PROVE  LET p == PutMemory(m, item)
         IN  /\ p \in PoolType
             /\ p.is_initialized = m.is_initialized
             /\ p.freeitems = item
             /\ p.allocateditems = IF m.allocateditems = item
                                   THEN m.next[item] ELSE m.allocateditems
             /\ \A i \in Items :
                   /\ p.next[i] = IF i = item THEN m.freeitems
                                  ELSE IF i = m.prev[item] THEN m.next[item]
                                  ELSE m.next[i]
                   /\ p.prev[i] = IF i = item THEN NULL
                                  ELSE IF i = m.freeitems THEN item
                                  ELSE IF i = m.next[item] THEN m.prev[item]
                                  ELSE m.prev[i]
<1> DEFINE u == Unlink(m, item)
           p == PushFree(u, item)
<1>1. NULL \notin Items
  BY SizeAssumption DEF NULL, Items
<1>2. /\ u \in PoolType
      /\ u.is_initialized = m.is_initialized
      /\ u.freeitems = m.freeitems
      /\ u.allocateditems = IF m.allocateditems = item
                            THEN m.next[item] ELSE m.allocateditems
      /\ \A i \in Items :
            /\ u.next[i] = IF i = m.prev[item] THEN m.next[item] ELSE m.next[i]
            /\ u.prev[i] = IF i = m.next[item] THEN m.prev[item] ELSE m.prev[i]
  BY <1>1 DEF Unlink, PoolType, Links
<1> HIDE DEF u
<1>3. /\ p \in PoolType
      /\ p.is_initialized = u.is_initialized
      /\ p.freeitems = item
      /\ p.allocateditems = u.allocateditems
      /\ \A i \in Items :
            /\ p.next[i] = IF i = item THEN u.freeitems ELSE u.next[i]
            /\ p.prev[i] = IF i = item THEN NULL
                           ELSE IF i = u.freeitems THEN item ELSE u.prev[i]
  BY <1>2, PushFreeLinks
<1>4. PutMemory(m, item) = p
  BY DEF PutMemory, u
<1> HIDE DEF p
<1>5. /\ p.is_initialized = m.is_initialized
      /\ p.allocateditems = IF m.allocateditems = item
                            THEN m.next[item] ELSE m.allocateditems
  BY <1>2, <1>3
<1>6. \A i \in Items :
            p.next[i] = IF i = item THEN m.freeitems
                        ELSE IF i = m.prev[item] THEN m.next[item]
                        ELSE m.next[i]
  BY <1>2, <1>3
<1>7. \A i \in Items :
            p.prev[i] = IF i = item THEN NULL
                        ELSE IF i = m.freeitems THEN item
                        ELSE IF i = m.next[item] THEN m.prev[item]
                        ELSE m.prev[i]
  BY <1>2, <1>3
<1> QED BY <1>3, <1>4, <1>5, <1>6, <1>7

(* put_memory takes an allocated item from its list to the free one. *)
LEMMA PutAllocated ==
  ASSUME NEW m, NEW a, NEW f, NEW A, NEW F, NEW item \in A,
         Pool(m, a, f, A, F), A \cap F = {}
  PROVE  LET p == PutMemory(m, item)
         IN  /\ \E k \in DOMAIN a :
                   /\ a[k] = item
                   /\ Pool(p, RemoveAt(a, k), Cons(item, f), A \ {item}, F \cup {item})
             /\ Keeps(m, p, A \cup F)
<1> DEFINE p == PutMemory(m, item)
<1>1. /\ Lists(m, m.allocateditems, a, A)
      /\ Lists(m, m.freeitems, f, F)
  BY DEF Pool
<1>2. m \in PoolType /\ NULL \notin Items
  BY SizeAssumption DEF Pool, NULL, Items
<1>3. /\ A \subseteq Items /\ F \subseteq Items
      /\ m.freeitems \in F \cup {NULL}
  <2>1. /\ A \subseteq Items
    BY <1>1, ListItems
  <2>2. /\ F \subseteq Items
        /\ m.freeitems = NULL <=> Len(f) = 0
        /\ Len(f) > 0 => m.freeitems = f[1]
        /\ Len(f) \in Nat
        /\ \A i \in 1..Len(f) : f[i] \in F
    BY <1>1, ListItems
  <2> QED BY <2>1, <2>2
<1>4. /\ m.prev[item] \in (A \ {item}) \cup {NULL}
      /\ m.next[item] \in (A \ {item}) \cup {NULL}
  BY <1>1, Neighbours
<1>5. /\ m.prev[item] # item /\ m.next[item] # item /\ m.freeitems # item
      /\ item \in Items
  BY <1>2, <1>3, <1>4
<1> HIDE DEF p
<1>6. /\ p \in PoolType
      /\ p.is_initialized = m.is_initialized
      /\ p.freeitems = item
      /\ p.allocateditems = IF m.allocateditems = item
                            THEN m.next[item] ELSE m.allocateditems
      /\ \A i \in Items :
            /\ p.next[i] = IF i = item THEN m.freeitems
                           ELSE IF i = m.prev[item] THEN m.next[item]
                           ELSE m.next[i]
            /\ p.prev[i] = IF i = item THEN NULL
                           ELSE IF i = m.freeitems THEN item
                           ELSE IF i = m.next[item] THEN m.prev[item]
                           ELSE m.prev[i]
  BY <1>2, <1>5, PutMemoryLinks DEF p
<1>7. PICK k \in DOMAIN a : /\ a[k] = item
                           /\ Lists(p, p.allocateditems, RemoveAt(a, k), A \ {item})
  <2>1. \A i \in A \ {item} :
          /\ p.next[i] = IF i = m.prev[item] THEN m.next[item] ELSE m.next[i]
          /\ p.prev[i] = IF i = m.next[item] THEN m.prev[item] ELSE m.prev[i]
    BY <1>2, <1>3, <1>6
  <2>2. \E k \in DOMAIN a :
           /\ a[k] = item
           /\ Lists(p, IF m.allocateditems = item THEN m.next[item] ELSE m.allocateditems,
                    RemoveAt(a, k), A \ {item})
    <3> DEFINE top == m.allocateditems
    <3>1. Lists(m, top, a, A)
      BY <1>1
    <3> HIDE DEF top
    <3>2. \E k \in DOMAIN a :
             /\ a[k] = item
             /\ Lists(p, IF top = item THEN m.next[item] ELSE top,
                      RemoveAt(a, k), A \ {item})
      BY ONLY item \in A, <2>1, <3>1, ListRemove
    <3> QED BY <3>2 DEF top
  <2> QED BY <2>2, <1>6
<1>8. Lists(p, p.freeitems, Cons(item, f), F \cup {item})
  <2>1. /\ p.next[item] = m.freeitems /\ p.prev[item] = NULL
        /\ item \in Items \ F
        /\ \A i \in F : p.next[i] = m.next[i]
        /\ \A i \in F : p.prev[i] = IF i = m.freeitems THEN item ELSE m.prev[i]
    BY <1>2, <1>3, <1>4, <1>6
  <2>2. Lists(p, item, Cons(item, f), F \cup {item})
    BY <2>1, <1>1, ListCons
  <2> QED BY <2>2, <1>6
<1>9. \A i \in Items \ (A \cup F) : p.prev[i] = m.prev[i] /\ p.next[i] = m.next[i]
  BY <1>2, <1>3, <1>4, <1>6
<1> QED BY <1>6, <1>7, <1>8, <1>9 DEF p, Pool, Keeps

(* put_memory of an item in no list: the init loop of types.cpp. *)
LEMMA PutFresh ==
  ASSUME NEW m, NEW a, NEW f, NEW A, NEW F, NEW item \in Items \ (A \cup F),
         Pool(m, a, f, A, F), A \cap F = {},
         m.prev[item] = NULL, m.next[item] = NULL
  PROVE  LET p == PutMemory(m, item)
         IN  /\ Pool(p, a, Cons(item, f), A, F \cup {item})
             /\ Keeps(m, p, A \cup F \cup {item})
<1> DEFINE p == PutMemory(m, item)
<1>1. /\ Lists(m, m.allocateditems, a, A)
      /\ Lists(m, m.freeitems, f, F)
  BY DEF Pool
<1>2. m \in PoolType /\ NULL \notin Items
  BY SizeAssumption DEF Pool, NULL, Items
<1>3. /\ A \subseteq Items
      /\ m.allocateditems \in A \cup {NULL}
  <2>1. /\ A \subseteq Items
        /\ m.allocateditems = NULL <=> Len(a) = 0
        /\ Len(a) > 0 => m.allocateditems = a[1]
        /\ Len(a) \in Nat
        /\ \A i \in 1..Len(a) : a[i] \in A
    BY <1>1, ListItems
  <2> QED BY <2>1
<1>4. /\ F \subseteq Items
      /\ m.freeitems \in F \cup {NULL}
  <2>1. /\ F \subseteq Items
        /\ m.freeitems = NULL <=> Len(f) = 0
        /\ Len(f) > 0 => m.freeitems = f[1]
        /\ Len(f) \in Nat
        /\ \A i \in 1..Len(f) : f[i] \in F
    BY <1>1, ListItems
  <2> QED BY <2>1
<1>5. m.prev[item] # item /\ m.next[item] # item /\ m.freeitems # item
  BY <1>2, <1>4
<1> HIDE DEF p
<1>6. /\ p \in PoolType
      /\ p.is_initialized = m.is_initialized
      /\ p.freeitems = item
      /\ p.allocateditems = m.allocateditems
      /\ \A i \in Items :
            /\ p.next[i] = IF i = item THEN m.freeitems ELSE m.next[i]
            /\ p.prev[i] = IF i = item THEN NULL
                           ELSE IF i = m.freeitems THEN item ELSE m.prev[i]
  <2>1. m.allocateditems # item
    BY <1>2, <1>3
  <2>2. /\ p \in PoolType
        /\ p.is_initialized = m.is_initialized
        /\ p.freeitems = item
        /\ p.allocateditems = IF m.allocateditems = item
                              THEN m.next[item] ELSE m.allocateditems
        /\ \A i \in Items :
              /\ p.next[i] = IF i = item THEN m.freeitems
                             ELSE IF i = m.prev[item] THEN m.next[item]
                             ELSE m.next[i]
              /\ p.prev[i] = IF i = item THEN NULL
                             ELSE IF i = m.freeitems THEN item
                             ELSE IF i = m.next[item] THEN m.prev[item]
                             ELSE m.prev[i]
    BY <1>2, <1>5, PutMemoryLinks DEF p
  <2> QED BY <2>1, <2>2, <1>2
<1>7. Lists(p, p.allocateditems, a, A)
  <2>1. \A i \in A : p.next[i] = m.next[i] /\ p.prev[i] = m.prev[i]
    BY <1>2, <1>3, <1>4, <1>6
  <2>2. Lists(p, m.allocateditems, a, A)
    BY <2>1, <1>1, ListFrame
  <2> QED BY <2>2, <1>6
<1>8. Lists(p, p.freeitems, Cons(item, f), F \cup {item})
  <2>1. /\ p.next[item] = m.freeitems /\ p.prev[item] = NULL
        /\ item \in Items \ F
        /\ \A i \in F : p.next[i] = m.next[i]
        /\ \A i \in F : p.prev[i] = IF i = m.freeitems THEN item ELSE m.prev[i]
    BY <1>4, <1>6
  <2>2. Lists(p, item, Cons(item, f), F \cup {item})
    BY <2>1, <1>1, ListCons
  <2> QED BY <2>2, <1>6
<1>9. \A i \in Items \ (A \cup F \cup {item}) :
         p.prev[i] = m.prev[i] /\ p.next[i] = m.next[i]
  BY <1>2, <1>4, <1>6
<1> QED BY <1>6, <1>7, <1>8, <1>9 DEF p, Pool, Keeps

(* get_memory with a free item: the links it leaves. *)
LEMMA GetMemoryLinks ==
  ASSUME NEW m \in PoolType, m.freeitems \in Items
  PROVE  LET g    == GetMemory(m)
             item == m.freeitems
         IN  /\ g \in PoolType
             /\ g.is_initialized = m.is_initialized
             /\ g.allocateditems = item
             /\ g.freeitems = m.next[item]
             /\ \A i \in Items :
                   /\ g.next[i] = IF i = item THEN m.allocateditems ELSE m.next[i]
                   /\ g.prev[i] = IF i = item THEN NULL
                                  ELSE IF i = m.allocateditems THEN item
                                  ELSE IF i = m.next[item] THEN NULL
                                  ELSE m.prev[i]
<1> DEFINE item  == m.freeitems
           rest  == m.next[item]
           prev1 == IF rest # NULL THEN [m.prev EXCEPT ![rest] = NULL] ELSE m.prev
           prev2 == IF m.allocateditems # NULL
                    THEN [prev1 EXCEPT ![m.allocateditems] = item] ELSE prev1
           prev3 == [prev2 EXCEPT ![item] = NULL]
           next1 == [m.next EXCEPT ![item] = m.allocateditems]
           g     == [m EXCEPT !.allocateditems = item, !.freeitems = rest,
                              !.next = next1, !.prev = prev3]
<1>1. NULL \notin Items
  BY SizeAssumption DEF NULL, Items
<1>2. /\ m.prev \in Links /\ m.next \in Links
      /\ item \in Items /\ rest \in Items \cup {NULL}
      /\ m.allocateditems \in Items \cup {NULL}
  BY DEF PoolType, Links
<1>3. /\ prev1 \in Links
      /\ \A i \in Items : prev1[i] = IF i = rest THEN NULL ELSE m.prev[i]
  BY <1>1, <1>2 DEF Links
<1> HIDE DEF prev1
<1>4. /\ prev2 \in Links
      /\ \A i \in Items : prev2[i] = IF i = m.allocateditems THEN item ELSE prev1[i]
  BY <1>1, <1>2, <1>3 DEF Links
<1> HIDE DEF prev2
<1>5. /\ prev3 \in Links
      /\ \A i \in Items : prev3[i] = IF i = item THEN NULL ELSE prev2[i]
  BY <1>4 DEF Links
<1>6. /\ next1 \in Links
      /\ \A i \in Items : next1[i] = IF i = item THEN m.allocateditems ELSE m.next[i]
  BY <1>2 DEF Links
<1> HIDE DEF prev3, next1
<1>7. /\ g \in PoolType
      /\ g.is_initialized = m.is_initialized
      /\ g.allocateditems = item
      /\ g.freeitems = rest
      /\ g.next = next1 /\ g.prev = prev3
  BY <1>2, <1>5, <1>6 DEF PoolType
<1>8. GetMemory(m) = g
  BY DEF GetMemory, prev1, prev2, prev3, next1
<1> HIDE DEF g
<1> QED BY <1>3, <1>4, <1>5, <1>6, <1>7, <1>8

(* get_memory moves the head of the free list to the allocated one. *)
LEMMA GetAllocates ==
  ASSUME NEW m, NEW a, NEW f, NEW A, NEW F,
         Pool(m, a, f, A, F), A \cap F = {}, m.freeitems # NULL
  PROVE  LET g    == GetMemory(m)
             item == m.freeitems
         IN  /\ item \in F /\ f # <<>> /\ item = Head(f)
             /\ Pool(g, Cons(item, a), Tail(f), A \cup {item}, F \ {item})
             /\ Keeps(m, g, A \cup F)
<1> DEFINE g    == GetMemory(m)
           top  == m.freeitems
<1>1. /\ Lists(m, m.allocateditems, a, A)
      /\ Lists(m, m.freeitems, f, F)
  BY DEF Pool
<1>2. m \in PoolType /\ NULL \notin Items
  BY SizeAssumption DEF Pool, NULL, Items
<1>3. /\ A \subseteq Items
      /\ m.allocateditems \in A \cup {NULL}
  <2>1. /\ A \subseteq Items
        /\ m.allocateditems = NULL <=> Len(a) = 0
        /\ Len(a) > 0 => m.allocateditems = a[1]
        /\ Len(a) \in Nat
        /\ \A i \in 1..Len(a) : a[i] \in A
    BY <1>1, ListItems
  <2> QED BY <2>1
<1>4. F \subseteq Items /\ top \in F
  <2>1. /\ F \subseteq Items
        /\ top = NULL <=> Len(f) = 0
        /\ Len(f) > 0 => top = f[1]
        /\ Len(f) \in Nat
        /\ \A i \in 1..Len(f) : f[i] \in F
    BY <1>1, ListItems
  <2> QED BY <2>1
<1>5. m.prev[top] = NULL /\ m.next[top] \in (F \ {top}) \cup {NULL}
  <2>1. Lists(m, top, f, F)
    BY <1>1
  <2> HIDE DEF top
  <2>2. top \in F
    BY <1>4
  <2>3. m.next[top] \in (F \ {top}) \cup {NULL}
    BY ONLY <2>1, <2>2, Neighbours
  <2>4. top = top <=> m.prev[top] = NULL
    BY ONLY <2>1, <2>2, Neighbours, ZenonT(30)
  <2> QED BY <2>3, <2>4
<1> HIDE DEF g
<1>6. /\ g \in PoolType
      /\ g.is_initialized = m.is_initialized
      /\ g.allocateditems = top
      /\ g.freeitems = m.next[top]
      /\ \A i \in Items :
            /\ g.next[i] = IF i = top THEN m.allocateditems ELSE m.next[i]
            /\ g.prev[i] = IF i = top THEN NULL
                           ELSE IF i = m.allocateditems THEN top
                           ELSE IF i = m.next[top] THEN NULL
                           ELSE m.prev[i]
  <2>1. top \in Items
    BY <1>4
  <2> QED BY <2>1, <1>2, GetMemoryLinks DEF g
<1>7. Lists(g, g.allocateditems, Cons(top, a), A \cup {top})
  <2>1. /\ g.next[top] = m.allocateditems /\ g.prev[top] = NULL
        /\ top \in Items \ A
        /\ \A i \in A : g.next[i] = m.next[i]
        /\ \A i \in A : g.prev[i] = IF i = m.allocateditems THEN top ELSE m.prev[i]
    BY <1>2, <1>3, <1>4, <1>5, <1>6
  <2>2. Lists(g, top, Cons(top, a), A \cup {top})
    BY <2>1, <1>1, ListCons
  <2> QED BY <2>2, <1>6
<1>8. Lists(g, g.freeitems, Tail(f), F \ {top})
  <2>1. \A i \in F \ {top} :
          /\ g.next[i] = IF i = m.prev[top] THEN m.next[top] ELSE m.next[i]
          /\ g.prev[i] = IF i = m.next[top] THEN m.prev[top] ELSE m.prev[i]
    BY <1>2, <1>3, <1>4, <1>5, <1>6
  <2>2. PICK k \in DOMAIN f :
           /\ f[k] = top
           /\ Lists(g, IF m.freeitems = top THEN m.next[top] ELSE m.freeitems,
                    RemoveAt(f, k), F \ {top})
    BY <2>1, <1>1, <1>4, ListRemove
  <2>3. k = 1 /\ f \in Seq(Items) /\ f # <<>> /\ IsInjective(f)
    BY <1>1, <1>4, <2>2, ListItems, SMTT(30) DEF Lists, IsList, IsInjective
  <2>4. RemoveAt(f, 1) = Tail(f)
    BY ONLY <2>3, TakeTop
  <2> QED BY <2>2, <2>3, <2>4, <1>6
<1>9. f # <<>> /\ top = Head(f)
  BY <1>1, <1>4, ListItems DEF Lists, IsList
<1>10. \A i \in Items \ (A \cup F) : g.prev[i] = m.prev[i] /\ g.next[i] = m.next[i]
  BY <1>2, <1>3, <1>4, <1>5, <1>6
<1> QED BY <1>4, <1>6, <1>7, <1>8, <1>9, <1>10 DEF g, Pool, Keeps

-----------------------------------------------------------------------------
(* The inductive invariant *)

(* The items of the array that the loop has not reached are untouched, and *)
(* nothing is handed out before the pool is initialised.                   *)
Fresh ==
    /\ \A i \in Items \ (1..loaded) : mem.prev[i] = NULL /\ mem.next[i] = NULL
    /\ held \subseteq 1..loaded
    /\ ~mem.is_initialized => loaded = 0

(* a and f are the lists of the pool: a has the items that are held, f the *)
(* others.                                                                 *)
PoolLists(a, f) == Pool(mem, a, f, held, (1..loaded) \ held)

IInv ==
    /\ loaded \in 0..Size
    /\ held \in SUBSET Items
    /\ \E a, f : PoolLists(a, f)
    /\ Fresh

LEMMA IInvImpliesTypeOK == IInv => TypeOK
BY DEF IInv, TypeOK, PoolLists, Pool, PoolType

LEMMA ListIsShort ==
  ASSUME NEW m, NEW head, NEW s, NEW S, Lists(m, head, s, S)
  PROVE  s \in SeqOf(Items, Size) /\ IsList(m, head, s) /\ ToSet(s) = S
<1>1. s \in Seq(Items) /\ \A i, j \in 1..Len(s) : s[i] = s[j] => i = j
  BY DEF Lists, IsList
<1> QED BY <1>1, DistinctIsShort DEF Lists

LEMMA IInvImpliesWellFormed == IInv => WellFormed
<1> SUFFICES ASSUME IInv PROVE WellFormed
  OBVIOUS
<1>1. PICK a, f : /\ Lists(mem, mem.allocateditems, a, held)
                  /\ Lists(mem, mem.freeitems, f, (1..loaded) \ held)
  BY DEF IInv, PoolLists, Pool
<1> QED BY <1>1, ListIsShort DEF WellFormed, IsAllocated, IsFree

LEMMA EmptyPool ==
  ASSUME NEW m \in PoolType, m.allocateditems = NULL, m.freeitems = NULL
  PROVE  Pool(m, <<>>, <<>>, {}, {})
<1>1. <<>> \in Seq(Items) /\ Len(<<>>) = 0
  BY EmptySeq
<1>2. ToSet(<<>>) = {}
  BY DEF ToSet
<1>3. Lists(m, NULL, <<>>, {})
  BY <1>1, <1>2 DEF Lists, IsList
<1> QED BY <1>3 DEF Pool

LEMMA InitLists == Init => PoolLists(<<>>, <<>>)
<1> SUFFICES ASSUME Init PROVE PoolLists(<<>>, <<>>)
  OBVIOUS
<1>1. mem \in PoolType /\ loaded = 0 /\ held = {}
  BY DEF Init, PoolType, Links
<1>2. Pool(mem, <<>>, <<>>, {}, {})
  BY <1>1, EmptyPool DEF Init
<1>3. (1..loaded) \ held = {}
  BY <1>1
<1> QED BY <1>1, <1>2, <1>3 DEF PoolLists

LEMMA InitIInv == Init => IInv
<1> SUFFICES ASSUME Init PROVE IInv
  OBVIOUS
<1>1. loaded = 0 /\ held = {} /\ Fresh
  BY DEF Init, Fresh
<1> QED BY <1>1, InitLists, SizeAssumption DEF IInv

(* The steps of ItemPool, from lists a and f to lists b and g. *)
StackStep(a, f, b, g) ==
    \/ b = a /\ g = f
    \/ \E i \in Items : i \notin ToSet(a) \cup ToSet(f) /\ b = a /\ g = Cons(i, f)
    \/ \E i \in Items : f # <<>> /\ i = Head(f) /\ b = Cons(i, a) /\ g = Tail(f)
    \/ \E i \in Items : /\ \E k \in DOMAIN a : a[k] = i /\ b = RemoveAt(a, k)
                        /\ g = Cons(i, f)

LEMMA NextLists ==
  ASSUME IInv, [Next]_vars, NEW a, NEW f, PoolLists(a, f)
  PROVE  IInv' /\ \E b, g : PoolLists(b, g)' /\ StackStep(a, f, b, g)
<1> DEFINE rest == (1..loaded) \ held
<1>1. /\ Size \in Nat /\ loaded \in 0..Size /\ held \in SUBSET Items
      /\ Pool(mem, a, f, held, rest) /\ held \cap rest = {}
      /\ held \subseteq 1..loaded
      /\ held \cup rest = 1..loaded
      /\ \A i \in Items \ (1..loaded) : mem.prev[i] = NULL /\ mem.next[i] = NULL
      /\ ~mem.is_initialized => loaded = 0
  BY SizeAssumption DEF IInv, PoolLists, Fresh
<1>2. ASSUME NEW b, NEW g, Pool(mem', b, g, held', (1..loaded') \ held'),
             loaded' \in 0..Size, held' \in SUBSET Items, Fresh', StackStep(a, f, b, g)
      PROVE  IInv' /\ \E c, h : PoolLists(c, h)' /\ StackStep(a, f, c, h)
  <2>1. PoolLists(b, g)'
    BY <1>2 DEF PoolLists
  <2> QED BY <1>2, <2>1 DEF IInv
<1>3. CASE InitBegin
  <2>1. mem \in PoolType /\ loaded = 0 /\ held = {}
    BY <1>1, <1>3 DEF InitBegin, Pool
  <2>2. /\ mem' \in PoolType
        /\ mem'.allocateditems = NULL /\ mem'.freeitems = NULL
        /\ mem'.is_initialized
        /\ mem'.prev = mem.prev /\ mem'.next = mem.next
        /\ loaded' = 0 /\ held' = {}
    BY <1>3, <2>1 DEF InitBegin, PoolType
  <2>3. Pool(mem', <<>>, <<>>, held', (1..loaded') \ held')
    <3>1. (1..loaded') \ held' = {}
      BY <2>2
    <3> QED BY <2>2, <3>1, EmptyPool
  <2>4. a = <<>> /\ f = <<>>
    <3>1. ToSet(a) = {} /\ ToSet(f) = {} /\ a \in Seq(Items) /\ f \in Seq(Items)
      BY <1>1, <2>1 DEF Pool, Lists
    <3>2. ASSUME NEW s \in Seq(Items), ToSet(s) = {} PROVE s = <<>>
      <4>1. Len(s) \in Nat /\ DOMAIN s = 1..Len(s) /\ (Len(s) = 0 => s = <<>>)
        BY LenProperties, EmptySeq
      <4>2. 1 \notin DOMAIN s
        BY <3>2 DEF ToSet
      <4> QED BY <4>1, <4>2
    <3> QED BY <3>1, <3>2
  <2>5. Fresh'
    BY <1>1, <2>1, <2>2 DEF Fresh
  <2> QED BY <1>1, <1>2, <2>2, <2>3, <2>4, <2>5 DEF StackStep
<1>4. CASE InitStep
  <2> DEFINE x == loaded + 1
  <2>1. /\ x \in Items \ (held \cup rest) /\ mem.is_initialized
        /\ mem' = PutMemory(mem, x) /\ loaded' = x /\ held' = held
        /\ (1..x) \ held = rest \cup {x}
        /\ x \in 0..Size /\ x \notin 1..loaded /\ held \subseteq 1..x
        /\ \A i \in Items \ (1..x) : i \in Items \ (1..loaded)
                                        /\ i \in Items \ (held \cup rest \cup {x})
    BY <1>1, <1>4 DEF InitStep, Items
  <2>2. mem.prev[x] = NULL /\ mem.next[x] = NULL
    BY <2>1, <1>1
  <2> HIDE DEF x, rest
  <2>3. /\ Pool(mem', a, Cons(x, f), held, rest \cup {x})
        /\ Keeps(mem, mem', held \cup rest \cup {x})
    BY <2>1, <2>2, <1>1, PutFresh
  <2>4. Fresh'
    BY <2>1, <2>3, <1>1 DEF Fresh, Keeps
  <2>5. StackStep(a, f, a, Cons(x, f))
    <3>1. ToSet(a) = held /\ ToSet(f) = rest
      BY <1>1 DEF Pool, Lists
    <3> QED BY <2>1, <3>1 DEF StackStep
  <2> QED BY <1>1, <1>2, <2>1, <2>3, <2>4, <2>5
<1>5. CASE Get
  <2> DEFINE x == mem.freeitems
  <2>1. /\ x # NULL /\ mem' = GetMemory(mem) /\ loaded' = loaded
        /\ held' = held \cup {x} /\ mem.is_initialized
    BY <1>5 DEF Get, Loaded
  <2> HIDE DEF rest
  <2>2. /\ x \in rest /\ f # <<>> /\ x = Head(f)
        /\ Pool(mem', Cons(x, a), Tail(f), held \cup {x}, rest \ {x})
        /\ Keeps(mem, mem', held \cup rest)
    BY <2>1, <1>1, GetAllocates
  <2> HIDE DEF x
  <2>3. (1..loaded) \ held' = rest \ {x} /\ x \in 1..loaded /\ x \in Items
    BY <2>1, <2>2, <1>1 DEF rest, Items
  <2>4. Fresh'
    BY <2>1, <2>2, <2>3, <1>1 DEF Fresh, Keeps
  <2>5. StackStep(a, f, Cons(x, a), Tail(f))
    BY <2>2, <2>3 DEF StackStep
  <2> QED BY <1>1, <1>2, <2>1, <2>2, <2>3, <2>4, <2>5
<1>6. ASSUME NEW x \in held, Put(x)
      PROVE  IInv' /\ \E b, g : PoolLists(b, g)' /\ StackStep(a, f, b, g)
  <2>1. /\ mem' = PutMemory(mem, x) /\ loaded' = loaded
        /\ held' = held \ {x} /\ mem.is_initialized
    BY <1>6 DEF Put, Loaded
  <2>2. (1..loaded) \ held' = rest \cup {x}
    BY <2>1, <1>1
  <2> HIDE DEF rest
  <2>3. /\ \E k \in DOMAIN a :
              /\ a[k] = x
              /\ Pool(mem', RemoveAt(a, k), Cons(x, f), held \ {x}, rest \cup {x})
        /\ Keeps(mem, mem', held \cup rest)
    BY <2>1, <1>1, PutAllocated
  <2>4. PICK k \in DOMAIN a :
           /\ a[k] = x
           /\ Pool(mem', RemoveAt(a, k), Cons(x, f), held', (1..loaded') \ held')
    BY <2>1, <2>2, <2>3
  <2>5. Fresh'
    BY <2>1, <2>3, <1>1 DEF Fresh, Keeps
  <2>6. StackStep(a, f, RemoveAt(a, k), Cons(x, f))
    <3>1. x \in Items
      BY <1>1
    <3> QED BY <2>4, <3>1 DEF StackStep
  <2> QED BY <1>1, <1>2, <2>1, <2>4, <2>5, <2>6
<1>7. CASE UNCHANGED vars
  <2>1. Fresh'
    BY <1>7 DEF IInv, Fresh, vars
  <2>2. Pool(mem', a, f, held', (1..loaded') \ held')
    BY <1>1, <1>7 DEF vars
  <2> QED BY <1>1, <1>2, <1>7, <2>1, <2>2 DEF StackStep, vars
<1> QED BY <1>3, <1>4, <1>5, <1>6, <1>7 DEF Next

LEMMA NextIInv == IInv /\ [Next]_vars => IInv'
BY NextLists DEF IInv

LEMMA Invariance == Spec => []IInv
BY InitIInv, NextIInv, PTL DEF Spec

(* The links of a pool stay links into its own array, whatever its size    *)
(* and whatever the calls of get_memory and put_memory.                    *)
THEOREM TypeCorrect == Spec => []TypeOK
BY Invariance, IInvImpliesTypeOK, PTL

(* The two lists of memory.cpp stay proper doubly linked lists, and they   *)
(* share the items of the pool out: the allocated list holds the items     *)
(* that callers hold and the free list all the others.                     *)
THEOREM ListsWellFormed == Spec => []WellFormed
BY Invariance, IInvImpliesWellFormed, PTL

-----------------------------------------------------------------------------
(* The refinement *)

(* The links determine the list: the first items that differ would follow  *)
(* the same item.                                                          *)
LEMMA ListIsUnique ==
  ASSUME NEW m, NEW head, NEW s, NEW t, NEW S, NEW T,
         Lists(m, head, s, S), Lists(m, head, t, T)
  PROVE  s = t
<1> DEFINE differ == {i \in Nat : i \in 1..Len(s) /\ i \in 1..Len(t) /\ s[i] # t[i]}
<1>1. /\ s \in Seq(Items) /\ t \in Seq(Items)
      /\ Len(s) \in Nat /\ Len(t) \in Nat
      /\ \A i \in 1..Len(s) : s[i] \in Items
      /\ \A i \in 1..Len(t) : t[i] \in Items
      /\ Len(s) = 0 <=> Len(t) = 0
      /\ Len(s) > 0 => s[1] = t[1]
  <2>1. /\ Len(s) \in Nat /\ (head = NULL <=> Len(s) = 0) /\ (Len(s) > 0 => head = s[1])
        /\ \A i \in 1..Len(s) : s[i] \in Items
    BY ListItems
  <2>2. /\ Len(t) \in Nat /\ (head = NULL <=> Len(t) = 0) /\ (Len(t) > 0 => head = t[1])
        /\ \A i \in 1..Len(t) : t[i] \in Items
    BY ListItems
  <2> QED BY <2>1, <2>2 DEF Lists
<1>2. /\ \A i \in 1..Len(s) : m.next[s[i]] = IF i < Len(s) THEN s[i + 1] ELSE NULL
      /\ \A i \in 1..Len(t) : m.next[t[i]] = IF i < Len(t) THEN t[i + 1] ELSE NULL
  BY DEF Lists, IsList
<1>3. NULL \notin Items
  BY SizeAssumption DEF NULL, Items
<1>4. differ = {}
  <2>1. SUFFICES ASSUME differ # {} PROVE FALSE
    OBVIOUS
  <2>2. PICK k \in differ : \A i \in differ : k <= i
    <3>1. differ \in SUBSET Nat
      OBVIOUS
    <3> QED BY ONLY <2>1, <3>1, LeastNumber
  <2>3. k \in Nat /\ k \in 1..Len(s) /\ k \in 1..Len(t) /\ s[k] # t[k]
    OBVIOUS
  <2>4. k # 1
    BY <1>1, <2>3
  <2> DEFINE j == k - 1
  <2>5. j \in Nat /\ j \in 1..Len(s) /\ j \in 1..Len(t) /\ j < Len(s) /\ j < Len(t) /\ j + 1 = k
        /\ ~(k <= j)
    BY <1>1, <2>3, <2>4
  <2>6. s[j] = t[j]
    BY <2>2, <2>5
  <2> HIDE DEF j
  <2>7. m.next[s[j]] = s[j + 1] /\ m.next[t[j]] = t[j + 1]
    BY <1>2, <2>5
  <2> QED BY <2>3, <2>5, <2>6, <2>7
<1>5. \A i \in Nat : i \in 1..Len(s) /\ i \in 1..Len(t) => s[i] = t[i]
  BY <1>4
<1> HIDE DEF differ
<1>6. ~(Len(s) < Len(t)) /\ ~(Len(t) < Len(s))
  <2>1. ASSUME Len(s) < Len(t) PROVE FALSE
    <3>1. /\ Len(s) \in 1..Len(s) /\ Len(s) \in 1..Len(t) /\ Len(s) + 1 \in 1..Len(t)
      BY <1>1, <2>1
    <3> DEFINE j == Len(s)
    <3>2. j \in 1..Len(s) /\ j \in 1..Len(t) /\ j + 1 \in 1..Len(t) /\ j \in Nat
          /\ ~(j < Len(s)) /\ j < Len(t)
      BY <1>1, <2>1, <3>1
    <3> HIDE DEF j
    <3>3. m.next[s[j]] = NULL /\ m.next[t[j]] = t[j + 1]
      BY <1>2, <3>2
    <3>4. s[j] = t[j]
      BY <1>5, <3>2
    <3> QED BY <1>1, <1>3, <3>2, <3>3, <3>4
  <2>2. ASSUME Len(t) < Len(s) PROVE FALSE
    <3>1. /\ Len(t) \in 1..Len(t) /\ Len(t) \in 1..Len(s) /\ Len(t) + 1 \in 1..Len(s)
      BY <1>1, <2>2
    <3> DEFINE j == Len(t)
    <3>2. j \in 1..Len(s) /\ j \in 1..Len(t) /\ j + 1 \in 1..Len(s) /\ j \in Nat
          /\ ~(j < Len(t)) /\ j < Len(s)
      BY <1>1, <2>2, <3>1
    <3> HIDE DEF j
    <3>3. m.next[t[j]] = NULL /\ m.next[s[j]] = s[j + 1]
      BY <1>2, <3>2
    <3>4. s[j] = t[j]
      BY <1>5, <3>2
    <3> QED BY <1>1, <1>3, <3>2, <3>3, <3>4
  <2> QED BY <2>1, <2>2
<1>7. Len(s) = Len(t) /\ \A i \in 1..Len(s) : s[i] = t[i]
  BY <1>1, <1>5, <1>6
<1> QED BY <1>1, <1>7, SeqEqual

(* So the sequences that the refinement chooses are those lists. *)
LEMMA ChosenLists == \A a, f : PoolLists(a, f) => AllocatedList = a /\ FreeList = f
<1> SUFFICES ASSUME NEW a, NEW f, PoolLists(a, f) PROVE AllocatedList = a /\ FreeList = f
  OBVIOUS
<1>1. /\ Lists(mem, mem.allocateditems, a, held)
      /\ Lists(mem, mem.freeitems, f, (1..loaded) \ held)
  BY DEF PoolLists, Pool
<1>2. ASSUME NEW s \in SeqOf(Items, Size), NEW head, IsList(mem, head, s)
      PROVE  Lists(mem, head, s, ToSet(s))
  <2>1. s \in Seq(Items)
    BY SeqOfIsSeq, SizeAssumption
  <2> QED BY <1>2, <2>1 DEF Lists
<1>3. AllocatedList = a
  <2>1. a \in SeqOf(Items, Size) /\ IsAllocated(mem, a)
    BY <1>1, ListIsShort DEF IsAllocated
  <2>2. AllocatedList \in SeqOf(Items, Size) /\ IsAllocated(mem, AllocatedList)
    BY <2>1 DEF AllocatedList
  <2> QED BY <1>1, <1>2, <2>2, ListIsUnique DEF IsAllocated
<1>4. FreeList = f
  <2>1. f \in SeqOf(Items, Size) /\ IsFree(mem, f)
    BY <1>1, ListIsShort DEF IsFree
  <2>2. FreeList \in SeqOf(Items, Size) /\ IsFree(mem, FreeList)
    BY <2>1 DEF FreeList
  <2> QED BY <1>1, <1>2, <2>2, ListIsUnique DEF IsFree
<1> QED BY <1>3, <1>4

LEMMA ChosenListsNext == (\A a, f : PoolLists(a, f) => AllocatedList = a /\ FreeList = f)'
BY ChosenLists, PTL

(* memory.cpp implements ItemPool: seen through the links, put_memory      *)
(* takes an item out of any place of the allocated list, leaves the others *)
(* in their order and puts it on top of the free list, and get_memory      *)
(* moves the item on top of the free list to the top of the other.         *)
THEOREM PoolImplemented == Spec => AbstractPool
<1>1. ASSUME Init PROVE Abstract!PoolInit
  <2>1. AllocatedList = <<>> /\ FreeList = <<>>
    BY <1>1, InitLists, ChosenLists
  <2> QED BY <2>1 DEF Abstract!PoolInit
<1>2. ASSUME IInv, [Next]_vars PROVE [Abstract!PoolNext]_(Abstract!poolVars)
  <2>1. PICK a, f : PoolLists(a, f)
    BY <1>2 DEF IInv
  <2>2. PICK b, g : PoolLists(b, g)' /\ StackStep(a, f, b, g)
    BY <1>2, <2>1, NextLists
  <2>3. AllocatedList = a /\ FreeList = f
    BY <2>1, ChosenLists
  <2>4. AllocatedList' = b /\ FreeList' = g
    BY <2>2, ChosenListsNext
  <2>5. CASE b = a /\ g = f
    BY <2>3, <2>4, <2>5 DEF Abstract!poolVars
  <2>6. ASSUME NEW i \in Items, i \notin ToSet(a) \cup ToSet(f), b = a, g = Cons(i, f)
        PROVE  Abstract!PoolNext
    <3>1. Abstract!Provide(i)
      BY <2>3, <2>4, <2>6 DEF Abstract!Provide, Cons, Abstract!Cons, ToSet, Abstract!ToSet
    <3> QED BY <3>1 DEF Abstract!PoolNext
  <2>7. ASSUME NEW i \in Items, f # <<>>, i = Head(f), b = Cons(i, a), g = Tail(f)
        PROVE  Abstract!PoolNext
    <3>1. Abstract!Get(i)
      BY <2>3, <2>4, <2>7 DEF Abstract!Get, Cons, Abstract!Cons
    <3> QED BY <3>1 DEF Abstract!PoolNext
  <2>8. ASSUME NEW i \in Items, NEW k \in DOMAIN a, a[k] = i, b = RemoveAt(a, k),
               g = Cons(i, f)
        PROVE  Abstract!PoolNext
    <3>1. Abstract!Put(i)
      BY <2>3, <2>4, <2>8 DEF Abstract!Put, Cons, Abstract!Cons, RemoveAt, Abstract!RemoveAt
    <3> QED BY <3>1 DEF Abstract!PoolNext
  <2> QED BY <2>2, <2>5, <2>6, <2>7, <2>8 DEF StackStep
<1>3. Init => Abstract!PoolInit
  BY <1>1
<1>4. IInv /\ [Next]_vars => [Abstract!PoolNext]_(Abstract!poolVars)
  BY <1>2
<1> QED BY <1>3, <1>4, Invariance, PTL DEF Spec, AbstractPool, Abstract!PoolSpec
=============================================================================
