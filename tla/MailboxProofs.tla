--------------------------- MODULE MailboxProofs ---------------------------
(***************************************************************************)
(* StaticBuffers implements Mailbox, when callbacks are not preempted by   *)
(* takes and every entity is taken from by one application thread.  The    *)
(* places of the mailbox are the items of the allocated list.  Each has a  *)
(* message, and the list has them in the order of their arrival, so that   *)
(* the first item of an owner holds the newest message of its box.         *)
(***************************************************************************)
EXTENDS StaticBuffersProofs

(* The message that an item of the allocated list is for. *)
Message(b) ==
    IF b \in Full THEN buffer[b].payload
    ELSE receiver[CHOOSE r \in Receivers : receiver[r].buf = b].msg

(* Later messages come first. *)
OrderOK ==
    \A i, j \in DOMAIN alloc : i < j => Message(alloc[j]) < Message(alloc[i])

MInv == TInv /\ BInv /\ OrderOK

(* A callback that has not copied the payload, and the items of these. *)
Copies(r) == receiver[r].pc \in {"owner", "header", "payload", "put"}

Copying == {b \in Items : \E r \in Receivers : Copies(r) /\ receiver[r].buf = b}

(* Items whose message waits for a take. *)
Waiting == ToSet(alloc) \ (Copying \cup Reading)

Letters(S) == {Message(b) : b \in S}

(* The state of the mailbox, as in the instance Boxes. *)
Incoming == {receiver[r].msg : r \in {q \in Receivers : Copies(q)}}
Opened   == {buffer[b].payload : b \in Reading}
Box      == [e \in Entities |->
               {buffer[b].payload : b \in {c \in ToSet(alloc) \ Reading :
                  /\ buffer[c].owner = e
                  /\ \A r \in Receivers : receiver[r].buf = c => receiver[r].pc = "signal"}}]

-----------------------------------------------------------------------------
(* Every item of the list has one message, which no other item has. *)
MessagesOK ==
    /\ \A b \in Full : Message(b) = buffer[b].payload
    /\ \A r \in Receivers : Busy(r) =>
          /\ receiver[r].buf \in ToSet(alloc) \ Full
          /\ Message(receiver[r].buf) = receiver[r].msg
    /\ \A b \in ToSet(alloc) :
          b \in Full \/ \E r \in Receivers : Busy(r) /\ receiver[r].buf = b
    /\ \A b \in ToSet(alloc) : Message(b) \in Messages /\ b \in Items
    /\ \A b, c \in ToSet(alloc) : b # c => Message(b) # Message(c)

LEMMA MessageOfItem == TInv /\ BInv => MessagesOK
<1> SUFFICES ASSUME TInv, BInv PROVE MessagesOK
  OBVIOUS
<1>1. \A b \in Full : Message(b) = buffer[b].payload
  BY DEF Message
<1>2. ASSUME NEW r \in Receivers, Busy(r)
      PROVE  /\ receiver[r].buf \in ToSet(alloc) \ Full
             /\ Message(receiver[r].buf) = receiver[r].msg
  <2>1. receiver[r].buf \in ToSet(alloc) /\ receiver[r].buf # NoBuffer
    BY <1>2, BuffersAssumption DEF BInv, CallbacksOK, TInv, Working, Busy
  <2>2. receiver[r].buf \notin Full
    BY <2>1 DEF Full, Filling
  <2>3. \A s \in Receivers : receiver[s].buf = receiver[r].buf => s = r
    BY <1>2, <2>1 DEF BInv, CallbacksOK, TInv, Working, Busy
  <2>4. (CHOOSE s \in Receivers : receiver[s].buf = receiver[r].buf) = r
    BY <2>3
  <2> QED BY <2>1, <2>2, <2>4 DEF Message
<1>3. ASSUME NEW b \in ToSet(alloc), b \notin Full
      PROVE  \E r \in Receivers : Busy(r) /\ receiver[r].buf = b
  BY <1>3 DEF Full, Filling, TInv, Working, Busy
<1>4. ASSUME NEW b \in ToSet(alloc) PROVE Message(b) \in Messages
  <2>1. CASE b \in Full
    BY <2>1, <1>1 DEF BInv, FullOK
  <2>2. CASE b \notin Full
    BY <2>2, <1>2, <1>3 DEF TInv, Working, Busy
  <2> QED BY <2>1, <2>2
<1>5. ASSUME NEW b \in ToSet(alloc), NEW c \in ToSet(alloc), b # c
      PROVE  Message(b) # Message(c)
  <2>1. CASE b \in Full /\ c \in Full
    BY <2>1, <1>1, <1>5 DEF BInv, FullOK
  <2>2. ASSUME NEW x \in Full, NEW y \in ToSet(alloc), y \notin Full
        PROVE  Message(x) # Message(y)
    BY <2>2, <1>1, <1>2, <1>3 DEF BInv, FullOK
  <2>3. CASE b \notin Full /\ c \notin Full
    BY <2>3, <1>2, <1>3, <1>5 DEF BInv, CallbacksOK
  <2> QED BY <2>1, <2>2, <2>3
<1> QED BY <1>1, <1>2, <1>3, <1>4, <1>5 DEF TInv, PoolOK, MessagesOK

LEMMA MessageOfItemNext == (TInv /\ BInv => MessagesOK)'
BY MessageOfItem, PTL

(* The mailbox in terms of the items. *)
BoxOf(e) == Letters({b \in Waiting : buffer[b].owner = e})

MailOK ==
    /\ Copying \subseteq ToSet(alloc) \ Full
    /\ Reading \subseteq Full
    /\ \A b \in Waiting : buffer[b].payload = Message(b) /\ buffer[b].owner \in Entities
    /\ Incoming = Letters(Copying)
    /\ Opened = Letters(Reading)
    /\ Box = [e \in Entities |-> BoxOf(e)]

LEMMA MailOfItems == TInv /\ BInv => MailOK
<1> SUFFICES ASSUME TInv, BInv PROVE MailOK
  OBVIOUS
<1> USE MessageOfItem DEF MessagesOK
<1>1. \A r \in Receivers : Copies(r) => Busy(r)
  BY DEF Copies, Busy
<1>2. Copying \subseteq ToSet(alloc) \ Full
  BY <1>1 DEF Copying
<1>3. Reading \subseteq Full
  BY DEF Reading, TInv, Working, RoundOK, BInv, TakesOK
<1>4. Incoming = Letters(Copying)
  <2>1. \A r \in Receivers : Copies(r) => receiver[r].buf \in Items
    BY <1>1
  <2> QED BY <1>1, <2>1 DEF Incoming, Letters, Copying
<1>5. Opened = Letters(Reading)
  BY <1>3 DEF Opened, Letters
<1>6. \A b \in ToSet(alloc) \ Reading :
         b \in Waiting <=> \A r \in Receivers : receiver[r].buf = b => receiver[r].pc = "signal"
  <2>1. ASSUME NEW b \in ToSet(alloc), NEW r \in Receivers, receiver[r].buf = b
        PROVE  Busy(r) /\ (receiver[r].pc = "signal" <=> ~Copies(r))
    <3>1. Busy(r)
      BY <2>1, BuffersAssumption DEF TInv, Working, PoolOK, Busy
    <3>2. receiver[r].pc \in {"idle", "owner", "header", "payload", "signal", "put"}
      BY DEF TInv, Types, ReceiverType
    <3> QED BY <3>1, <3>2 DEF Copies, Busy
  <2> QED BY <2>1 DEF Waiting, Copying
<1>7. ASSUME NEW b \in Waiting
      PROVE  buffer[b].payload = Message(b) /\ buffer[b].owner \in Entities
  <2>1. b \in ToSet(alloc) \ Reading
    BY DEF Waiting
  <2>2. CASE b \in Full
    <3>1. buffer[b].payload \in Messages /\ buffer[b].owner = arrivals[buffer[b].payload]
      BY <2>2 DEF BInv, FullOK
    <3> QED BY <2>2, <3>1, ElementOfSeq DEF TInv, Types, Messages
  <2>3. CASE b \notin Full
    <3>1. PICK r \in Receivers : Busy(r) /\ receiver[r].buf = b
      BY <2>1, <2>3
    <3>2. receiver[r].pc = "signal"
      BY <2>1, <3>1, <1>6
    <3>3. /\ buffer[b].payload = receiver[r].msg /\ receiver[r].msg \in Messages
          /\ buffer[b].owner = arrivals[receiver[r].msg]
      BY <3>1, <3>2 DEF BInv, CallbacksOK, TInv, Working, Busy
    <3> QED BY <3>1, <3>3, ElementOfSeq DEF TInv, Types, Messages
  <2> QED BY <2>2, <2>3
<1>8. Box = [e \in Entities |-> BoxOf(e)]
  <2> SUFFICES ASSUME NEW e \in Entities PROVE Box[e] = BoxOf(e)
    BY DEF Box
  <2>1. {c \in ToSet(alloc) \ Reading :
           /\ buffer[c].owner = e
           /\ \A r \in Receivers : receiver[r].buf = c => receiver[r].pc = "signal"}
        = {b \in Waiting : buffer[b].owner = e}
    BY <1>6 DEF Waiting
  <2>2. Box[e] = {buffer[b].payload : b \in {c \in Waiting : buffer[c].owner = e}}
    BY <2>1 DEF Box
  <2> QED BY <2>2, <1>7 DEF Letters, BoxOf
<1> QED BY <1>2, <1>3, <1>4, <1>5, <1>7, <1>8 DEF MailOK

LEMMA MailOfItemsNext == (TInv /\ BInv => MailOK)'
BY MailOfItems, PTL

(* Different items have different letters, so that they can be counted. *)
LEMMA LettersCount ==
  ASSUME TInv, BInv, NEW S \in SUBSET ToSet(alloc)
  PROVE  /\ IsFiniteSet(S) /\ IsFiniteSet(Letters(S))
         /\ Cardinality(Letters(S)) = Cardinality(S)
         /\ \A T \in SUBSET ToSet(alloc) : S \cap T = {} => Letters(S) \cap Letters(T) = {}
<1> DEFINE f == [b \in S |-> Message(b)]
<1>1. IsFiniteSet(S)
  BY BuffersAssumption, FS_Subset DEF TInv, PoolOK
<1>2. f \in Bijection(S, Letters(S))
  <2>1. f \in [S -> Letters(S)] /\ \A m \in Letters(S) : \E b \in S : f[b] = m
    BY DEF Letters
  <2>2. \A b, c \in S : f[b] = f[c] => b = c
    BY MessageOfItem DEF MessagesOK
  <2> HIDE DEF f
  <2> QED BY <2>1, <2>2 DEF Bijection, Injection, Surjection, IsInjective
<1>3. ExistsBijection(S, Letters(S))
  BY <1>2 DEF ExistsBijection
<1>4. \A T \in SUBSET ToSet(alloc) : S \cap T = {} => Letters(S) \cap Letters(T) = {}
  BY MessageOfItem DEF Letters, MessagesOK
<1> QED BY <1>1, <1>3, <1>4, FS_Bijection

LEMMA SameCardinality == \A S : Boxes!Cardinality(S) = Cardinality(S)
BY DEF Boxes!Cardinality, Cardinality

(* A place of the mailbox is used when its item is allocated. *)
LEMMA MailUsed ==
  ASSUME TInv, BInv
  PROVE  Boxes!Used = Cardinality(ToSet(alloc))
<1>1. Copying \subseteq ToSet(alloc) /\ Reading \subseteq ToSet(alloc) /\ Waiting \subseteq ToSet(alloc)
  BY MailOfItems DEF Full, Waiting, MailOK
<1>2. Copying \cap Reading = {} /\ (Copying \cup Reading) \cap Waiting = {}
  BY MailOfItems DEF Waiting, MailOK
<1>3. ToSet(alloc) = (Copying \cup Reading) \cup Waiting
  BY <1>1 DEF Waiting
<1>4. Boxes!Boxed = Letters(Waiting)
  <2>1. Boxes!Boxed = UNION {Box[e] : e \in Entities}
    BY DEF Boxes!Boxed, Box
  <2>2. \A e \in Entities : Box[e] = BoxOf(e)
    BY MailOfItems DEF MailOK
  <2>3. \A b \in Waiting : buffer[b].owner \in Entities
    BY MailOfItems DEF MailOK
  <2> QED BY <2>1, <2>2, <2>3 DEF Letters, BoxOf
<1>5. Boxes!Used = Cardinality(Incoming) + Cardinality(Opened) + Cardinality(Letters(Waiting))
  <2>1. Boxes!Used = Cardinality(Incoming) + Cardinality(Opened) + Cardinality(Boxes!Boxed)
    BY SameCardinality DEF Boxes!Used, Incoming, Opened, Copies
  <2> QED BY <1>4, <2>1
<1>6. Boxes!Used = Cardinality(Copying) + Cardinality(Reading) + Cardinality(Waiting)
  BY <1>1, <1>5, MailOfItems, LettersCount DEF MailOK
<1>7. IsFiniteSet(Copying) /\ IsFiniteSet(Reading) /\ IsFiniteSet(Waiting)
  BY <1>1, LettersCount
<1>8. Cardinality(Copying \cup Reading) = Cardinality(Copying) + Cardinality(Reading)
      /\ IsFiniteSet(Copying \cup Reading)
  <2>1. Cardinality(Copying \cap Reading) = 0
    BY <1>2, FS_EmptySet
  <2>2. Cardinality(Copying) \in Nat /\ Cardinality(Reading) \in Nat
    BY <1>7, FS_CardinalityType
  <2> QED BY <1>7, <2>1, <2>2, FS_Union
<1>9. Cardinality(ToSet(alloc)) = Cardinality(Copying \cup Reading) + Cardinality(Waiting)
  <2>1. Cardinality((Copying \cup Reading) \cap Waiting) = 0
    BY <1>2, FS_EmptySet
  <2>2. Cardinality(Copying \cup Reading) \in Nat /\ Cardinality(Waiting) \in Nat
    BY <1>7, <1>8, FS_CardinalityType
  <2>3. Cardinality(ToSet(alloc)) = Cardinality(Copying \cup Reading) + Cardinality(Waiting)
                                     - Cardinality((Copying \cup Reading) \cap Waiting)
    BY <1>3, <1>7, <1>8, FS_Union
  <2> QED BY <2>1, <2>2, <2>3
<1> QED BY <1>6, <1>8, <1>9

-----------------------------------------------------------------------------
(* The list stays in the order of arrival. *)
LEMMA OrderKept ==
  ASSUME OrderOK, UNCHANGED alloc, \A b \in ToSet(alloc) : Message(b)' = Message(b)
  PROVE  OrderOK'
<1>1. \A i \in DOMAIN alloc : alloc[i] \in ToSet(alloc)
  BY DEF ToSet
<1> QED BY <1>1 DEF OrderOK

LEMMA OrderAfterPut ==
  ASSUME PoolOK, OrderOK, NEW b, Put(b), \A c \in ToSet(alloc') : Message(c)' = Message(c)
  PROVE  OrderOK'
<1>1. PICK k \in DOMAIN alloc : alloc[k] = b /\ alloc' = RemoveAt(alloc, k)
  BY DEF Put
<1>2. /\ alloc' \in Seq(Items) /\ alloc \in Seq(Items)
      /\ Len(alloc') = Len(alloc) - 1
      /\ \A j \in 1..(Len(alloc) - 1) : alloc'[j] = IF j < k THEN alloc[j] ELSE alloc[j + 1]
  BY <1>1, RemoveItem DEF PoolOK
<1>3. /\ Len(alloc) \in Nat /\ DOMAIN alloc = 1..Len(alloc) /\ DOMAIN alloc' = 1..(Len(alloc) - 1)
      /\ k \in 1..Len(alloc)
  BY <1>2, LenProperties
<1>4. ASSUME NEW i \in DOMAIN alloc', NEW j \in DOMAIN alloc', i < j
      PROVE  \E p, q \in DOMAIN alloc : p < q /\ alloc'[i] = alloc[p] /\ alloc'[j] = alloc[q]
  <2>1. i \in 1..(Len(alloc) - 1) /\ j \in 1..(Len(alloc) - 1)
    BY <1>3
  <2>2. CASE j < k
    <3>1. i < k /\ i \in 1..Len(alloc) /\ j \in 1..Len(alloc)
      BY <2>1, <2>2, <1>3, <1>4
    <3> QED BY <3>1, <2>1, <2>2, <1>2, <1>3, <1>4
  <2>3. CASE ~(j < k) /\ i < k
    <3>1. i \in 1..Len(alloc) /\ j + 1 \in 1..Len(alloc) /\ i < j + 1
      BY <2>1, <2>3, <1>3, <1>4
    <3> QED BY <3>1, <2>1, <2>3, <1>2, <1>3
  <2>4. CASE ~(j < k) /\ ~(i < k)
    <3>1. i + 1 \in 1..Len(alloc) /\ j + 1 \in 1..Len(alloc) /\ i + 1 < j + 1
      BY <2>1, <2>4, <1>3, <1>4
    <3> QED BY <3>1, <2>1, <2>4, <1>2, <1>3
  <2> QED BY <2>2, <2>3, <2>4
<1>5. \A i \in DOMAIN alloc' : alloc'[i] \in ToSet(alloc')
  BY DEF ToSet
<1> QED BY <1>4, <1>5 DEF OrderOK

LEMMA OrderAfterGet ==
  ASSUME TInv, BInv, OrderOK, NEW b, Get(b), Message(b)' = Len(arrivals) + 1,
         \A c \in ToSet(alloc) : Message(c)' = Message(c)
  PROVE  OrderOK'
<1>1. b \in Items /\ alloc \in Seq(Items) /\ alloc' = Cons(b, alloc)
  BY GetMoves DEF TInv, PoolOK
<1>2. /\ Len(alloc') = Len(alloc) + 1 /\ alloc' \in Seq(Items)
      /\ alloc'[1] = b /\ \A k \in 1..Len(alloc) : alloc'[k + 1] = alloc[k]
  <2>1. b \in Items /\ alloc \in Seq(Items)
    BY <1>1
  <2>2. Len(Cons(b, alloc)) = Len(alloc) + 1 /\ Cons(b, alloc) \in Seq(Items)
    BY ONLY <2>1, ConsItem
  <2>3. Cons(b, alloc)[1] = b /\ \A k \in 1..Len(alloc) : Cons(b, alloc)[k + 1] = alloc[k]
    BY ONLY <2>1, ConsItem
  <2> QED BY <1>1, <2>2, <2>3
<1>3. /\ Len(alloc) \in Nat /\ DOMAIN alloc = 1..Len(alloc)
      /\ DOMAIN alloc' = 1..(Len(alloc) + 1) /\ Len(arrivals) \in Nat
  BY <1>1, <1>2, LenProperties DEF TInv, Types
<1>4. \A i \in DOMAIN alloc : alloc[i] \in ToSet(alloc) /\ Message(alloc[i]) < Len(arrivals) + 1
  <2>1. \A i \in DOMAIN alloc : alloc[i] \in ToSet(alloc)
    BY DEF ToSet
  <2> QED BY <2>1, <1>3, MessageOfItem DEF Messages, MessagesOK
<1>5. ASSUME NEW i \in DOMAIN alloc', NEW j \in DOMAIN alloc', i < j
      PROVE  Message(alloc[j])' < Message(alloc[i])'
  <2>1. j - 1 \in 1..Len(alloc) /\ (j - 1) + 1 = j
    BY <1>3, <1>5
  <2>2. alloc'[j] = alloc[j - 1] /\ j - 1 \in DOMAIN alloc
    BY <2>1, <1>2, <1>3
  <2>3. CASE i = 1
    BY <2>2, <2>3, <1>2, <1>4
  <2>4. CASE i # 1
    <3>1. i - 1 \in 1..Len(alloc) /\ (i - 1) + 1 = i /\ i - 1 < j - 1
      BY <2>4, <1>3, <1>5
    <3>2. alloc'[i] = alloc[i - 1] /\ i - 1 \in DOMAIN alloc
      BY <3>1, <1>2, <1>3
    <3> QED BY <2>2, <3>1, <3>2, <1>4 DEF OrderOK
  <2> QED BY <2>3, <2>4
<1> QED BY <1>5 DEF OrderOK

-----------------------------------------------------------------------------
(* A step of callback r leaves the messages of all items alone, except     *)
(* those of the items it takes or gives back.                              *)
LEMMA MessagesKept ==
  ASSUME TInv, BInv, TInv', BInv', NEW r \in Receivers,
         \A s \in Receivers \ {r} : receiver'[s] = receiver[s],
         \A b \in Full : buffer'[b] = buffer[b],
         receiver'[r].buf \in ToSet(alloc) => receiver'[r].buf = receiver[r].buf
  PROVE  \A b \in ToSet(alloc) \cap ToSet(alloc') :
            b # receiver[r].buf => Message(b)' = Message(b)
<1> SUFFICES ASSUME NEW b \in ToSet(alloc), b \in ToSet(alloc'), b # receiver[r].buf
             PROVE  Message(b)' = Message(b)
  OBVIOUS
<1>1. CASE b \in Full
  <2>1. b \in Full'
    BY <1>1 DEF Full, Filling
  <2> QED BY <1>1, <2>1, MessageOfItem, MessageOfItemNext DEF MessagesOK
<1>2. CASE b \notin Full
  <2>1. PICK s \in Receivers : Busy(s) /\ receiver[s].buf = b
    BY <1>2, MessageOfItem DEF MessagesOK
  <2>2. s # r /\ receiver'[s] = receiver[s] /\ Busy(s)'
    BY <2>1 DEF Busy
  <2>3. Message(b) = receiver[s].msg
    BY <2>1, MessageOfItem DEF MessagesOK
  <2>4. Message(receiver[s].buf)' = receiver'[s].msg
    BY <2>2, MessageOfItemNext DEF MessagesOK
  <2> QED BY <2>1, <2>2, <2>3, <2>4
<1> QED BY <1>1, <1>2

(* A step that the mailbox does not notice. *)
LEMMA SameMail ==
  ASSUME TInv, BInv, TInv', BInv', UNCHANGED <<arrivals, Copying, Reading, Waiting>>,
         \A b \in ToSet(alloc) : Message(b)' = Message(b),
         \A b \in Waiting : buffer'[b].owner = buffer[b].owner
  PROVE  UNCHANGED Boxes!mailVars
<1>1. Copying \subseteq ToSet(alloc) /\ Reading \subseteq ToSet(alloc) /\ Waiting \subseteq ToSet(alloc)
  BY MailOfItems DEF Full, Waiting, MailOK
<1>2. Incoming' = Incoming /\ Opened' = Opened
  <2>1. /\ Incoming = Letters(Copying) /\ Incoming' = Letters(Copying)'
        /\ Opened = Letters(Reading) /\ Opened' = Letters(Reading)'
    BY MailOfItems, MailOfItemsNext DEF MailOK
  <2>2. Letters(Copying)' = Letters(Copying)
    BY <1>1 DEF Letters
  <2>3. Letters(Reading)' = Letters(Reading)
    BY <1>1 DEF Letters
  <2> QED BY <2>1, <2>2, <2>3
<1>3. Box' = Box
  <2>1. Box' = [e \in Entities |-> BoxOf(e)']
    BY MailOfItemsNext DEF MailOK
  <2>2. \A e \in Entities : BoxOf(e)'
                          = BoxOf(e)
    BY <1>1 DEF Letters, BoxOf
  <2> QED BY <2>1, <2>2, MailOfItems DEF MailOK
<1> QED BY <1>2, <1>3 DEF Boxes!mailVars, Incoming, Opened, Box, Copies

LEMMA RefuseMail ==
  ASSUME MInv, TInv', BInv', NEW r \in Receivers, NEW e \in Entities, Refuse(r, e)
  PROVE  OrderOK' /\ Boxes!TurnAway(e)
<1> USE DEF MInv
<1>1. UNCHANGED <<alloc, buffer, receiver, taker>> /\ arrivals' = Append(arrivals, e)
  BY DEF Refuse
<1>2. OrderOK'
  BY <1>1 DEF OrderOK, Message, Full, Filling
<1>3. ToSet(alloc) = Items
  <2>1. free = <<>>
    BY DEF Refuse
  <2>2. ToSet(free) = {}
    BY <2>1 DEF ToSet
  <2> QED BY <2>2 DEF TInv, PoolOK
<1>4. Boxes!Used = Cardinality(Items)
  BY <1>3, MailUsed
<1>5. Incoming' = Incoming /\ Opened' = Opened /\ Box' = Box
  BY <1>1 DEF Incoming, Opened, Box, Copies, Reading
<1>6. Boxes!TurnAway(e)
  BY <1>1, <1>4, <1>5, SameCardinality DEF Boxes!TurnAway, Incoming, Opened, Box, Copies
<1> QED BY <1>2, <1>6

(* A callback that writes the item has copied nothing yet ... *)
LEMMA WriteMail ==
  ASSUME MInv, TInv', BInv', NEW r \in Receivers,
         WriteOwner(r) \/ WriteHeader(r) \/ CopyFails(r)
  PROVE  OrderOK' /\ UNCHANGED Boxes!mailVars
<1> USE DEF MInv
<1> DEFINE b == receiver[r].buf
<1>1. PICK from \in {"owner", "header", "payload"}, to \in {"header", "payload", "put"} :
         CallbackStep(r, from, to)
  BY DEF WriteOwner, WriteHeader, CopyFails
<1>2. /\ Busy(r) /\ Busy(r)' /\ Copies(r) /\ Copies(r)' /\ UNCHANGED <<alloc, arrivals, taker>>
      /\ receiver'[r].buf = b /\ receiver'[r].msg = receiver[r].msg
      /\ \A s \in Receivers \ {r} : receiver'[s] = receiver[s]
  BY <1>1, CallbackMoves DEF Busy, Copies
<1>3. b \in Items /\ receiver[r].msg \in Messages /\ b \notin Full /\ b \in ToSet(alloc)
  BY <1>2, MessageOfItem DEF TInv, Working, Busy, MessagesOK
<1>4. \A c \in Items \ {b} : buffer'[c] = buffer[c]
  BY <1>3, OwnerWritten, HeaderWritten DEF WriteOwner, WriteHeader, CopyFails
<1> HIDE DEF b
<1>5. \A c \in ToSet(alloc) : Message(c)' = Message(c)
  <2>1. \A c \in Full : buffer'[c] = buffer[c]
    BY <1>3, <1>4 DEF Full, TInv, PoolOK
  <2>2. Message(b)' = Message(b)
    BY <1>2, MessageOfItem, MessageOfItemNext DEF MessagesOK, b
  <2> QED BY <1>2, <2>1, <2>2, MessagesKept DEF b
<1>6. Copying' = Copying
  <2>1. \A s \in Receivers : (Copies(s)' <=> Copies(s)) /\ receiver'[s].buf = receiver[s].buf
    BY <1>2 DEF Copies, b
  <2> QED BY <2>1 DEF Copying
<1>7. Reading' = Reading /\ Waiting' = Waiting
  BY <1>2, <1>6 DEF Reading, Waiting
<1>8. \A c \in Waiting : buffer'[c].owner = buffer[c].owner
  BY <1>2, <1>3, <1>4 DEF Waiting, Copying, TInv, PoolOK, b
<1>9. OrderOK'
  BY <1>2, <1>5, OrderKept
<1> QED BY <1>2, <1>5, <1>6, <1>7, <1>8, <1>9, SameMail

(* A callback whose copy ends has an item of its own. *)
LEMMA CopyEnds ==
  ASSUME NEW r \in Receivers, NEW b, b = receiver[r].buf, ~Copies(r)',
         \A s \in Receivers \ {r} : receiver'[s] = receiver[s],
         \A s \in Receivers \ {r} : Copies(s) => receiver[s].buf # b
  PROVE  Copying' = Copying \ {b}
<1>1. ASSUME NEW c \in Items, c \in Copying' PROVE c \in Copying /\ c # b
  <2>1. PICK s \in Receivers : Copies(s)' /\ receiver'[s].buf = c
    BY <1>1 DEF Copying
  <2>2. s # r
    BY <2>1
  <2> QED BY <2>1, <2>2 DEF Copying, Copies
<1>2. ASSUME NEW c \in Items, c \in Copying, c # b PROVE c \in Copying'
  <2>1. PICK s \in Receivers : Copies(s) /\ receiver[s].buf = c
    BY <1>2 DEF Copying
  <2>2. s # r
    BY <1>2, <2>1
  <2> QED BY <2>1, <2>2 DEF Copying, Copies
<1>3. Copying \subseteq Items /\ Copying' \subseteq Items
  BY DEF Copying
<1> QED BY <1>1, <1>2, <1>3

(* ... then the copy puts the message into the box of its addressee ... *)
LEMMA CopyIntoMail ==
  ASSUME MInv, TInv', BInv', NEW r \in Receivers, CopyInto(r)
  PROVE  OrderOK' /\ \E m \in Incoming : Boxes!Store(m)
<1> USE DEF MInv
<1>0. PICK b, m : b = receiver[r].buf /\ m = receiver[r].msg
  OBVIOUS
<1>1. CallbackStep(r, "payload", "signal") /\ buffer' = [buffer EXCEPT ![b].payload = m]
  BY <1>0 DEF CopyInto
<1>2. /\ Busy(r) /\ Busy(r)' /\ Copies(r) /\ ~Copies(r)' /\ UNCHANGED <<alloc, arrivals, taker>>
      /\ receiver'[r].buf = b /\ receiver'[r].msg = m
      /\ \A s \in Receivers \ {r} : receiver'[s] = receiver[s]
      /\ receiver[r].pc = "payload"
  BY <1>0, <1>1, CallbackMoves DEF Busy, Copies
<1>3. b \in Items /\ m \in Messages /\ b \notin Full /\ b \in ToSet(alloc) /\ Message(b) = m
  BY <1>0, <1>2, MessageOfItem DEF TInv, Working, Busy, MessagesOK
<1>4. /\ \A c \in Items \ {b} : buffer'[c] = buffer[c]
      /\ buffer'[b].owner = buffer[b].owner
  BY <1>1, <1>3, PayloadWritten
<1>5. buffer[b].owner = arrivals[m]
  BY <1>0, <1>2 DEF BInv, CallbacksOK
<1>6. \A c \in ToSet(alloc) : Message(c)' = Message(c)
  <2>1. \A c \in Full : buffer'[c] = buffer[c]
    BY <1>3, <1>4 DEF Full, TInv, PoolOK
  <2>2. Message(b)' = m
    BY <1>2, MessageOfItemNext DEF MessagesOK
  <2> QED BY <1>0, <1>2, <1>3, <2>1, <2>2, MessagesKept
<1>7. OrderOK'
  BY <1>2, <1>6, OrderKept
<1>8. Reading' = Reading /\ b \in Copying
  BY <1>0, <1>2, <1>3 DEF Reading, Copying
<1>9. Copying' = Copying \ {b}
  <2>1. \A s \in Receivers \ {r} : Copies(s) => receiver[s].buf # b
    BY <1>0, <1>2 DEF Copies, Busy, BInv, CallbacksOK
  <2> QED BY <1>0, <1>2, <2>1, CopyEnds
<1>10. Waiting' = Waiting \cup {b} /\ b \notin Reading
  BY <1>2, <1>3, <1>8, <1>9, MailOfItems DEF Waiting, MailOK
<1>11. /\ Copying \subseteq ToSet(alloc) /\ Reading \subseteq ToSet(alloc)
       /\ Waiting \subseteq ToSet(alloc) /\ b \notin Waiting
  BY <1>8, MailOfItems DEF Waiting, Full, MailOK
<1>12. Opened' = Opened
  <2>1. Opened = Letters(Reading) /\ Opened' = Letters(Reading)'
    BY MailOfItems, MailOfItemsNext DEF MailOK
  <2>2. Letters(Reading)' = Letters(Reading)
    BY <1>6, <1>8, <1>11 DEF Letters
  <2> QED BY <2>1, <2>2
<1>13. Incoming' = Incoming \ {m} /\ m \in Incoming
  <2>1. Incoming = Letters(Copying) /\ Incoming' = Letters(Copying)'
    BY MailOfItems, MailOfItemsNext DEF MailOK
  <2>2. Letters(Copying)' = Letters(Copying) \ {m}
    <3>1. Letters(Copying)' = Letters(Copying \ {b})
      BY <1>6, <1>9, <1>11 DEF Letters
    <3>2. \A c \in Copying \ {b} : Message(c) # Message(b)
      BY <1>3, <1>11, MessageOfItem DEF MessagesOK
    <3> QED BY <1>3, <3>1, <3>2 DEF Letters
  <2> QED BY <1>3, <1>8, <2>1, <2>2 DEF Letters
<1>14. Box' = [Box EXCEPT ![arrivals[m]] = @ \cup {m}]
  <2>1. Box = [e \in Entities |-> BoxOf(e)] /\ Box' = [e \in Entities |-> BoxOf(e)']
    BY MailOfItems, MailOfItemsNext DEF MailOK
  <2>2. \A c \in Waiting : buffer'[c].owner = buffer[c].owner
    BY <1>4, <1>11 DEF TInv, PoolOK
  <2>3. \A e \in Entities : e # arrivals[m] => BoxOf(e)' = BoxOf(e)
    BY <1>4, <1>5, <1>6, <1>10, <1>11, <2>2 DEF BoxOf, Letters
  <2>4. BoxOf(arrivals[m])' = BoxOf(arrivals[m]) \cup {m}
    <3> DEFINE old == {c \in Waiting : buffer[c].owner = arrivals[m]}
    <3>1. {c \in Waiting : buffer[c].owner = arrivals[m]}' = old \cup {b}
      BY <1>2, <1>4, <1>5, <1>10, <2>2
    <3>2. BoxOf(arrivals[m])' = {Message(c)' : c \in old \cup {b}}
      BY <3>1 DEF BoxOf, Letters
    <3>3. \A c \in old \cup {b} : Message(c)' = Message(c)
      BY <1>3, <1>6, <1>11
    <3>4. BoxOf(arrivals[m])' = {Message(c) : c \in old \cup {b}}
      BY <3>2, <3>3
    <3> QED BY <1>3, <3>4 DEF BoxOf, Letters
  <2>5. arrivals[m] \in Entities /\ BoxOf(arrivals[m]) = Box[arrivals[m]]
    BY <1>3, <2>1, ElementOfSeq DEF TInv, Types, Messages
  <2>6. PICK a : a = arrivals[m]
    OBVIOUS
  <2>7. a \in Entities /\ \A e \in Entities : Box'[e] = IF e = a THEN Box[a] \cup {m} ELSE Box[e]
    BY <1>2, <2>1, <2>3, <2>4, <2>5, <2>6
  <2>8. Box' = [e \in Entities |-> IF e = a THEN Box[a] \cup {m} ELSE Box[e]]
    BY <2>1, <2>7
  <2> QED BY <2>1, <2>6, <2>7, <2>8
<1>15. Boxes!Store(m)
  BY <1>2, <1>12, <1>13, <1>14 DEF Boxes!Store, Incoming, Opened, Box, Copies
<1> QED BY <1>7, <1>13, <1>15

(* ... or the message is dropped ... *)
LEMMA PutBackMail ==
  ASSUME MInv, TInv', BInv', NEW r \in Receivers, PutBack(r)
  PROVE  OrderOK' /\ \E m \in Incoming : Boxes!Drop(m)
<1> USE DEF MInv
<1>0. PICK b, m : b = receiver[r].buf /\ m = receiver[r].msg
  OBVIOUS
<1>1. /\ UNCHANGED <<buffer, arrivals, taker>> /\ Put(b) /\ Busy(r) /\ Copies(r) /\ ~Copies(r)'
      /\ receiver'[r].buf = NoBuffer
      /\ \A s \in Receivers \ {r} : receiver'[s] = receiver[s]
  BY <1>0 DEF PutBack, Busy, Copies, TInv, Types, IdleReceiver
<1>2. ToSet(alloc') = ToSet(alloc) \ {b} /\ NoBuffer \notin ToSet(alloc)
  BY <1>1, PutMoves, BuffersAssumption DEF TInv, PoolOK
<1>3. b \in Items /\ m \in Messages /\ b \notin Full /\ b \in ToSet(alloc) /\ Message(b) = m
  BY <1>0, <1>1, MessageOfItem DEF TInv, Working, Busy, MessagesOK
<1>4. \A c \in ToSet(alloc') : Message(c)' = Message(c)
  <2>1. \A c \in Full : buffer'[c] = buffer[c]
    BY <1>1
  <2> QED BY <1>0, <1>1, <1>2, <2>1, MessagesKept
<1>5. OrderOK'
  BY <1>1, <1>4, OrderAfterPut DEF TInv
<1>6. Reading' = Reading /\ b \in Copying
  BY <1>0, <1>1, <1>3 DEF Reading, Copying
<1>7. Copying' = Copying \ {b}
  <2>1. \A s \in Receivers \ {r} : Copies(s) => receiver[s].buf # b
    BY <1>0, <1>1 DEF Copies, Busy, BInv, CallbacksOK
  <2> QED BY <1>0, <1>1, <2>1, CopyEnds
<1>8. Waiting' = Waiting
  BY <1>2, <1>6, <1>7 DEF Waiting
<1>9. /\ Copying \ {b} \subseteq ToSet(alloc') /\ Reading \subseteq ToSet(alloc')
      /\ Waiting \subseteq ToSet(alloc') /\ Copying \subseteq ToSet(alloc)
  BY <1>2, <1>3, <1>6, MailOfItems DEF Waiting, Full, MailOK
<1>10. Opened' = Opened
  <2>1. Opened = Letters(Reading) /\ Opened' = Letters(Reading)'
    BY MailOfItems, MailOfItemsNext DEF MailOK
  <2>2. Letters(Reading)' = Letters(Reading)
    BY <1>4, <1>6, <1>9 DEF Letters
  <2> QED BY <2>1, <2>2
<1>11. Incoming' = Incoming \ {m} /\ m \in Incoming
  <2>1. Incoming = Letters(Copying) /\ Incoming' = Letters(Copying)'
    BY MailOfItems, MailOfItemsNext DEF MailOK
  <2>2. Letters(Copying)' = Letters(Copying) \ {m}
    <3>1. Letters(Copying)' = Letters(Copying \ {b})
      BY <1>4, <1>7, <1>9 DEF Letters
    <3>2. \A c \in Copying \ {b} : Message(c) # Message(b)
      BY <1>3, <1>9, MessageOfItem DEF MessagesOK
    <3> QED BY <1>3, <3>1, <3>2 DEF Letters
  <2> QED BY <1>3, <1>6, <2>1, <2>2 DEF Letters
<1>12. Box' = Box
  <2>1. Box = [e \in Entities |-> BoxOf(e)] /\ Box' = [e \in Entities |-> BoxOf(e)']
    BY MailOfItems, MailOfItemsNext DEF MailOK
  <2>2. \A e \in Entities : BoxOf(e)' = BoxOf(e)
    BY <1>1, <1>4, <1>8, <1>9 DEF BoxOf, Letters
  <2> QED BY <2>1, <2>2
<1>13. Boxes!Drop(m)
  BY <1>1, <1>10, <1>11, <1>12 DEF Boxes!Drop, Incoming, Opened, Box, Copies
<1> QED BY <1>5, <1>11, <1>13

(* ... and what a callback does after its copy the mailbox does not see. *)
LEMMA SignalMail ==
  ASSUME MInv, TInv', BInv', NEW r \in Receivers, Signal(r)
  PROVE  OrderOK' /\ UNCHANGED Boxes!mailVars
<1> USE DEF MInv
<1>0. PICK b : b = receiver[r].buf
  OBVIOUS
<1>1. /\ UNCHANGED <<alloc, buffer, arrivals, taker>> /\ Busy(r) /\ ~Busy(r)'
      /\ ~Copies(r) /\ ~Copies(r)' /\ receiver[r].pc = "signal"
      /\ receiver'[r].buf = NoBuffer
      /\ \A s \in Receivers \ {r} : receiver'[s] = receiver[s]
  BY DEF Signal, Busy, Copies, TInv, Types, IdleReceiver
<1>2. NoBuffer \notin ToSet(alloc) /\ NoBuffer \notin Items
  BY BuffersAssumption DEF TInv, PoolOK
<1>3. Message(b)' = Message(b)
  <2>1. /\ Message(b) = receiver[r].msg /\ buffer[b].payload = receiver[r].msg
        /\ b \in ToSet(alloc)
    BY <1>0, <1>1, MessageOfItem DEF BInv, CallbacksOK, MessagesOK
  <2>2. \A s \in Receivers : receiver'[s].buf # b
    BY <1>0, <1>1, <1>2, <2>1 DEF BInv, CallbacksOK, TInv, Working, Busy
  <2>3. b \in Full'
    BY <1>1, <2>1, <2>2 DEF Full, Filling
  <2> QED BY <1>1, <2>1, <2>3, MessageOfItemNext DEF MessagesOK
<1>4. \A c \in ToSet(alloc) : Message(c)' = Message(c)
  <2>1. \A c \in Full : buffer'[c] = buffer[c]
    BY <1>1
  <2> QED BY <1>0, <1>1, <1>2, <1>3, <2>1, MessagesKept
<1>5. Copying' = Copying
  BY <1>1, <1>2 DEF Copying, Copies
<1>6. Reading' = Reading /\ Waiting' = Waiting
  BY <1>1, <1>5 DEF Reading, Waiting
<1>7. OrderOK'
  BY <1>1, <1>4, OrderKept
<1>8. \A c \in Waiting : buffer'[c].owner = buffer[c].owner
  BY <1>1
<1> QED BY <1>1, <1>4, <1>5, <1>6, <1>7, <1>8, SameMail

(* A message that is accepted takes a free place. *)
LEMMA AcceptMail ==
  ASSUME MInv, TInv', BInv', NEW r \in Receivers, NEW e \in Entities, Accept(r, e)
  PROVE  OrderOK' /\ Boxes!Arrive(e)
<1> USE DEF MInv
<1>0. PICK b, new : b = Head(free) /\ new = Len(arrivals) + 1
  OBVIOUS
<1>1. /\ UNCHANGED <<buffer, taker>> /\ Get(b) /\ ~Busy(r) /\ ~Copies(r)
      /\ Busy(r)' /\ Copies(r)'
      /\ receiver'[r].buf = b /\ receiver'[r].msg = new
      /\ \A s \in Receivers \ {r} : receiver'[s] = receiver[s]
      /\ arrivals' = Append(arrivals, e)
  BY <1>0 DEF Accept, Busy, Copies, TInv, Types
<1>2. /\ b \notin ToSet(alloc) /\ b \in Items /\ ToSet(alloc') = ToSet(alloc) \cup {b}
      /\ receiver[r].buf \notin ToSet(alloc)
  <2>1. receiver[r].buf = NoBuffer
    BY <1>1 DEF TInv, Working, Busy
  <2> QED BY <1>1, <2>1, GetMoves, BuffersAssumption DEF TInv, PoolOK
<1>3. Message(b)' = new
  BY <1>1, MessageOfItemNext DEF MessagesOK
<1>4. \A c \in ToSet(alloc) : Message(c)' = Message(c)
  <2>1. \A c \in Full : buffer'[c] = buffer[c]
    BY <1>1
  <2> QED BY <1>1, <1>2, <2>1, MessagesKept
<1>5. OrderOK'
  BY <1>0, <1>1, <1>3, <1>4, OrderAfterGet
<1>6. Copying' = Copying \cup {b}
  <2>1. ASSUME NEW c \in Copying' PROVE c \in Copying \cup {b}
    BY <1>1 DEF Copying, Copies
  <2>2. ASSUME NEW c \in Copying PROVE c \in Copying'
    <3>1. c \in Items
      BY DEF Copying
    <3>2. PICK s \in Receivers : Copies(s) /\ receiver[s].buf = c
      BY DEF Copying
    <3>3. s # r
      BY <1>1, <3>2
    <3> QED BY <1>1, <3>1, <3>2, <3>3 DEF Copying, Copies
  <2>3. b \in Copying'
    BY <1>1, <1>2 DEF Copying
  <2> QED BY <2>1, <2>2, <2>3
<1>7. Reading' = Reading
  BY <1>1 DEF Reading
<1>8. /\ Copying \subseteq ToSet(alloc) /\ Reading \subseteq ToSet(alloc)
      /\ Waiting \subseteq ToSet(alloc)
  BY MailOfItems DEF Waiting, Full, MailOK
<1>9. Waiting' = Waiting
  BY <1>2, <1>6, <1>7, <1>8 DEF Waiting
<1>10. Opened' = Opened
  <2>1. Opened = Letters(Reading) /\ Opened' = Letters(Reading)'
    BY MailOfItems, MailOfItemsNext DEF MailOK
  <2>2. Letters(Reading)' = Letters(Reading)
    BY <1>4, <1>7, <1>8 DEF Letters
  <2> QED BY <2>1, <2>2
<1>11. Incoming' = Incoming \cup {new}
  <2>1. Incoming = Letters(Copying) /\ Incoming' = Letters(Copying)'
    BY MailOfItems, MailOfItemsNext DEF MailOK
  <2>2. Letters(Copying)' = Letters(Copying) \cup {new}
    BY <1>3, <1>4, <1>6, <1>8 DEF Letters
  <2> QED BY <2>1, <2>2
<1>12. Box' = Box
  <2>1. Box = [f \in Entities |-> BoxOf(f)] /\ Box' = [f \in Entities |-> BoxOf(f)']
    BY MailOfItems, MailOfItemsNext DEF MailOK
  <2>2. \A f \in Entities : BoxOf(f)' = BoxOf(f)
    BY <1>1, <1>4, <1>8, <1>9 DEF BoxOf, Letters
  <2> QED BY <2>1, <2>2
<1>13. Boxes!Used < Cardinality(Items)
  <2>1. ToSet(alloc) \subseteq Items /\ ToSet(alloc) # Items /\ IsFiniteSet(Items)
    BY <1>2, BuffersAssumption DEF TInv, PoolOK
  <2>2. /\ Cardinality(ToSet(alloc)) <= Cardinality(Items)
        /\ Cardinality(ToSet(alloc)) # Cardinality(Items)
        /\ IsFiniteSet(ToSet(alloc))
    BY <2>1, FS_Subset
  <2>3. Cardinality(ToSet(alloc)) \in Nat /\ Cardinality(Items) \in Nat
    BY <2>1, <2>2, FS_CardinalityType
  <2> QED BY <2>2, <2>3, MailUsed
<1>14. Boxes!Arrive(e)
  BY <1>0, <1>1, <1>10, <1>11, <1>12, <1>13, SameCardinality
  DEF Boxes!Arrive, Incoming, Opened, Box, Copies
<1> QED BY <1>5, <1>14

-----------------------------------------------------------------------------
(* A take runs while nothing is copied, and changes no message. *)
LEMMA TakeKeeps ==
  ASSUME CallbacksFirst, AppMayRun, TInv, BInv, TInv', BInv', NEW t \in Takers, Moves(t),
         ToSet(alloc') \subseteq ToSet(alloc)
  PROVE  /\ Copying = {} /\ Copying' = {}
         /\ Full = ToSet(alloc)
         /\ UNCHANGED <<buffer, arrivals, receiver>>
         /\ \A b \in ToSet(alloc') : Message(b)' = Message(b)
         /\ Reading \subseteq ToSet(alloc) /\ Reading' \subseteq ToSet(alloc')
         /\ Waiting = ToSet(alloc) \ Reading /\ Waiting' = ToSet(alloc') \ Reading'
<1>1. UNCHANGED <<buffer, arrivals, receiver>>
  BY DEF Moves
<1>2. \A r \in Receivers : ~Busy(r) /\ ~Busy(r)'
  BY <1>1 DEF AppMayRun, CallbacksFirst, Busy
<1>3. Full = ToSet(alloc) /\ Full' = ToSet(alloc')
  BY <1>2, FullItems
<1>4. Copying = {} /\ Copying' = {}
  BY <1>2 DEF Copying, Copies, Busy
<1>5. \A b \in ToSet(alloc') : Message(b)' = Message(b)
  BY <1>1, <1>3, MessageOfItem, MessageOfItemNext DEF MessagesOK
<1>6. Reading \subseteq Full /\ Reading' \subseteq Full'
  BY MailOfItems, MailOfItemsNext DEF MailOK
<1> QED BY <1>1, <1>3, <1>4, <1>5, <1>6 DEF Waiting

(* A take that keeps its item, or goes on without one. *)
LEMMA QuietMail ==
  ASSUME CallbacksFirst, AppMayRun, MInv, TInv', BInv', NEW t \in Takers, Moves(t),
         UNCHANGED alloc, taker'[t].buf = taker[t].buf
  PROVE  OrderOK' /\ UNCHANGED Boxes!mailVars
<1> USE DEF MInv
<1>1. \A u \in Takers : taker'[u].buf = taker[u].buf
  BY DEF Moves
<1>2. Reading' = Reading
  BY <1>1 DEF Reading
<1>3. /\ UNCHANGED <<arrivals, buffer, Copying, Waiting>>
      /\ \A b \in ToSet(alloc) : Message(b)' = Message(b)
  BY <1>2, TakeKeeps
<1>4. OrderOK'
  BY <1>3, OrderKept
<1>5. \A b \in Waiting : buffer'[b].owner = buffer[b].owner
  BY <1>3
<1> QED BY <1>2, <1>3, <1>4, <1>5, SameMail

(* The library's Max, of a set with a greatest element. *)
LEMMA MaxIsGreatest ==
  ASSUME NEW S \in SUBSET Int, NEW x \in S, \A y \in S : y <= x
  PROVE  Max(S) = x /\ Boxes!Max(S) = x
<1>1. \A z \in S : (\A y \in S : z >= y) => z = x
  OBVIOUS
<1>2. \A y \in S : x >= y
  OBVIOUS
<1> QED BY <1>1, <1>2 DEF Max, Boxes!Max

(* The item a take finds has the newest message of the entity's box. *)
LEMMA OpenMail ==
  ASSUME CallbacksFirst, OwnEntities, AppMayRun, MInv, TInv', BInv',
         NEW t \in Takers, Moves(t), UNCHANGED alloc, ~Holding(t),
         NEW e \in Serves[t], FindByOwner(e) # NoBuffer, taker'[t].buf = FindByOwner(e)
  PROVE  OrderOK' /\ Boxes!Open(e)
<1> USE DEF MInv
<1>0. PICK found, m : found = FindByOwner(e) /\ m = Message(found)
  OBVIOUS
<1>1. found \in ToSet(alloc) /\ found # NoBuffer /\ buffer[found].owner = e /\ e \in Entities
  BY <1>0, FoundItem, BuffersAssumption
<1>2. /\ UNCHANGED <<arrivals, buffer>> /\ Copying = {} /\ Copying' = {}
      /\ \A b \in ToSet(alloc) : Message(b)' = Message(b)
      /\ Waiting = ToSet(alloc) \ Reading /\ Waiting' = ToSet(alloc) \ Reading'
      /\ Reading \subseteq ToSet(alloc)
  BY TakeKeeps
<1>3. OrderOK'
  BY <1>2, OrderKept
<1>4. \A b \in Reading : buffer[b].owner # e
  <2>1. ASSUME NEW u \in Takers, taker[u].buf # NoBuffer
        PROVE  buffer[taker[u].buf].owner # e
    <3>1. Holding(u) /\ taker[u].entity \in Serves[u] /\ buffer[taker[u].buf].owner = taker[u].entity
      BY <2>1 DEF TInv, Working, RoundOK, Holding, BInv, TakesOK
    <3> QED BY <3>1 DEF OwnEntities
  <2> QED BY <2>1 DEF Reading
<1>5. Reading' = Reading \cup {found} /\ found \notin Reading
  <2>1. taker[t].buf = NoBuffer /\ taker'[t].buf = found
    BY <1>0 DEF TInv, Working, RoundOK
  <2>2. \A u \in Takers \ {t} : taker'[u].buf = taker[u].buf
    BY DEF Moves
  <2> QED BY <1>1, <1>4, <2>1, <2>2 DEF Reading
<1>6. Waiting' = Waiting \ {found} /\ found \in Waiting /\ Waiting \subseteq ToSet(alloc)
  BY <1>1, <1>2, <1>5
<1>7. \A b \in ToSet(alloc) : buffer[b].owner = e => Message(b) <= m
  <2>1. PICK k \in DOMAIN alloc :
           /\ found = alloc[k] /\ \A j \in DOMAIN alloc : buffer[alloc[j]].owner = e => k <= j
    BY <1>0, FindByOwnerFinds
  <2>2. ASSUME NEW j \in DOMAIN alloc, buffer[alloc[j]].owner = e
        PROVE  Message(alloc[j]) <= m
    <3>1. k <= j /\ k \in Nat /\ j \in Nat
      BY <2>1, <2>2, LenProperties DEF TInv, PoolOK
    <3>2. k = j \/ k < j
      BY <3>1
    <3>3. Message(alloc[j]) \in Nat /\ Message(alloc[k]) \in Nat
      BY MessageOfItem DEF MessagesOK, ToSet, Messages
    <3>4. k < j => Message(alloc[j]) < Message(alloc[k])
      BY DEF OrderOK
    <3> QED BY <1>0, <2>1, <3>2, <3>3, <3>4
  <2> QED BY <2>2 DEF ToSet
<1>8. Box = [f \in Entities |-> BoxOf(f)] /\ Box' = [f \in Entities |-> BoxOf(f)']
  BY MailOfItems, MailOfItemsNext DEF MailOK
<1>9. m \in BoxOf(e) /\ Max(BoxOf(e)) = m /\ Boxes!Max(BoxOf(e)) = m
  <2>1. m \in BoxOf(e)
    BY <1>0, <1>1, <1>6 DEF BoxOf, Letters
  <2>2. \A x \in BoxOf(e) : x <= m /\ x \in Int
    BY <1>6, <1>7, MessageOfItem DEF BoxOf, Letters, MessagesOK, Messages
  <2> HIDE DEF BoxOf
  <2> QED BY <2>1, <2>2, MaxIsGreatest
<1>10. BoxOf(e)' = BoxOf(e) \ {m}
  <2>1. BoxOf(e)' = {Message(b) : b \in {c \in Waiting \ {found} : buffer[c].owner = e}}
    BY <1>2, <1>6 DEF BoxOf, Letters
  <2>2. \A b \in Waiting \ {found} : Message(b) # m
    BY <1>0, <1>1, <1>6, MessageOfItem DEF MessagesOK
  <2> QED BY <1>0, <2>1, <2>2 DEF BoxOf, Letters
<1>11. \A f \in Entities : f # e => BoxOf(f)' = BoxOf(f)
  BY <1>1, <1>2, <1>6 DEF BoxOf, Letters
<1>12. Box' = [Box EXCEPT ![e] = @ \ {Boxes!Max(@)}] /\ Box[e] # {} /\ Boxes!Max(Box[e]) = m
  <2>1. Box[e] = BoxOf(e)
    BY <1>1, <1>8
  <2>2. Box' = [f \in Entities |-> IF f = e THEN Box[e] \ {m} ELSE Box[f]]
    BY <1>8, <1>10, <1>11, <2>1
  <2> QED BY <1>8, <1>9, <2>1, <2>2
<1>13. Incoming' = Incoming
  <2>1. Incoming = Letters(Copying) /\ Incoming' = Letters(Copying)'
    BY MailOfItems, MailOfItemsNext DEF MailOK
  <2> QED BY <1>2, <2>1 DEF Letters
<1>14. Opened' = Opened \cup {m}
  <2>1. Opened = Letters(Reading) /\ Opened' = Letters(Reading)'
    BY MailOfItems, MailOfItemsNext DEF MailOK
  <2>2. Letters(Reading)' = Letters(Reading) \cup {m}
    BY <1>0, <1>1, <1>2, <1>5 DEF Letters
  <2> QED BY <2>1, <2>2
<1>15. Boxes!Open(e)
  BY <1>2, <1>12, <1>13, <1>14 DEF Boxes!Open, Incoming, Opened, Box, Copies
<1> QED BY <1>3, <1>15

(* The item that goes back had a message that was being read. *)
LEMMA TakePutMail ==
  ASSUME CallbacksFirst, OwnEntities, AppMayRun, MInv, TInv', BInv',
         NEW t \in Takers, TakePut(t)
  PROVE  OrderOK' /\ \E m \in Opened : Boxes!Close(m)
<1> USE DEF MInv
<1>0. PICK b, m : b = taker[t].buf /\ m = Message(b)
  OBVIOUS
<1>1. Moves(t) /\ Put(b) /\ Holding(t) /\ taker'[t].buf = NoBuffer
  <2>1. taker[t] \in TakerType
    BY DEF TInv, Types
  <2> QED BY <1>0, <2>1, TakePutMoves DEF Holding, TakerType
<1>2. ToSet(alloc') = ToSet(alloc) \ {b} /\ b \in ToSet(alloc) /\ b # NoBuffer
  BY <1>1, PutMoves, BuffersAssumption DEF TInv
<1>3. /\ UNCHANGED <<arrivals, buffer>> /\ Copying = {} /\ Copying' = {}
      /\ \A c \in ToSet(alloc') : Message(c)' = Message(c)
      /\ Waiting = ToSet(alloc) \ Reading /\ Waiting' = ToSet(alloc') \ Reading'
      /\ Reading \subseteq ToSet(alloc) /\ Reading' \subseteq ToSet(alloc')
  BY <1>1, <1>2, TakeKeeps
<1>4. OrderOK'
  BY <1>1, <1>3, OrderAfterPut DEF TInv
<1>5. Reading' = Reading \ {b} /\ b \in Reading
  <2>1. \A u \in Takers \ {t} : taker'[u].buf = taker[u].buf
    BY <1>1 DEF Moves
  <2> QED BY <1>0, <1>1, <1>2, <1>3, <2>1 DEF Reading
<1>6. Waiting' = Waiting /\ Waiting \subseteq ToSet(alloc')
  BY <1>2, <1>3, <1>5
<1>7. Incoming' = Incoming
  <2>1. Incoming = Letters(Copying) /\ Incoming' = Letters(Copying)'
    BY MailOfItems, MailOfItemsNext DEF MailOK
  <2> QED BY <1>3, <2>1 DEF Letters
<1>8. Opened' = Opened \ {m} /\ m \in Opened
  <2>1. Opened = Letters(Reading) /\ Opened' = Letters(Reading)'
    BY MailOfItems, MailOfItemsNext DEF MailOK
  <2>2. Letters(Reading)' = Letters(Reading \ {b})
    BY <1>2, <1>3, <1>5 DEF Letters
  <2>3. \A c \in Reading \ {b} : Message(c) # m
    BY <1>0, <1>2, <1>3, MessageOfItem DEF MessagesOK
  <2>4. Letters(Reading \ {b}) = Letters(Reading) \ {m} /\ m \in Letters(Reading)
    BY <1>0, <1>5, <2>3 DEF Letters
  <2> QED BY <2>1, <2>2, <2>4
<1>9. Box' = Box
  <2>1. Box = [f \in Entities |-> BoxOf(f)] /\ Box' = [f \in Entities |-> BoxOf(f)']
    BY MailOfItems, MailOfItemsNext DEF MailOK
  <2>2. \A f \in Entities : BoxOf(f)' = BoxOf(f)
    BY <1>3, <1>6 DEF BoxOf, Letters
  <2> QED BY <2>1, <2>2
<1>10. Boxes!Close(m)
  BY <1>3, <1>7, <1>8, <1>9 DEF Boxes!Close, Incoming, Opened, Box, Copies
<1> QED BY <1>4, <1>8, <1>10

-----------------------------------------------------------------------------
LEMMA ReceiveMail ==
  ASSUME MInv, TInv', BInv', NEW r \in Receivers, Receive(r)
  PROVE  OrderOK' /\ [Boxes!MailNext]_(Boxes!mailVars)
<1>1. ASSUME NEW e \in Entities, Refuse(r, e) \/ Accept(r, e)
      PROVE  OrderOK' /\ Boxes!MailNext
  BY <1>1, RefuseMail, AcceptMail DEF Boxes!MailNext
<1>2. CASE WriteOwner(r) \/ WriteHeader(r) \/ CopyFails(r) \/ Signal(r)
  BY <1>2, WriteMail, SignalMail
<1>3. CASE CopyInto(r) \/ PutBack(r)
  <2>1. OrderOK' /\ \E m \in Incoming : Boxes!Store(m) \/ Boxes!Drop(m)
    BY <1>3, CopyIntoMail, PutBackMail
  <2> QED BY <2>1 DEF Boxes!MailNext, Incoming, Copies
<1> QED BY <1>1, <1>2, <1>3 DEF Receive, Callback

LEMMA TakeMail ==
  ASSUME CallbacksFirst, OwnEntities, MInv, TInv', BInv', NEW t \in Takers,
         (\E e \in Serves[t], n \in Counts : TakeFind(t, e, n)) \/ Take(t)
  PROVE  OrderOK' /\ [Boxes!MailNext]_(Boxes!mailVars)
<1> USE DEF MInv
<1>1. AppMayRun
  BY DEF TakeFind, Take, TakeHeader, TakePayload, TakePut, TakeNext, TakeReturn
<1>2. taker[t] \in TakerType /\ Serves[t] \subseteq Entities
  BY BuffersAssumption DEF TInv, Types
<1>3. ASSUME NEW e \in Serves[t], NEW n \in Counts, TakeFind(t, e, n)
      PROVE  OrderOK' /\ Boxes!MailNext
  <2>1. ~Holding(t)
    BY <1>3 DEF TakeFind, Holding
  <2>2. OrderOK' /\ Boxes!Open(e)
    BY <1>1, <1>3, <2>1, TakeFindMoves, OpenMail
  <2> QED BY <1>2, <2>2 DEF Boxes!MailNext
<1>4. CASE TakeHeader(t) \/ TakePayload(t)
  <2>1. Moves(t) /\ UNCHANGED alloc /\ taker'[t].buf = taker[t].buf
    BY <1>2, <1>4, TakeHeaderMoves, TakePayloadMoves DEF TakerType
  <2> QED BY <1>1, <2>1, QuietMail
<1>5. CASE TakePut(t)
  BY <1>1, <1>5, TakePutMail DEF Boxes!MailNext, Opened
<1>6. CASE TakeNext(t)
  <2>0. PICK e : e = taker[t].entity
    OBVIOUS
  <2>1. Moves(t) /\ UNCHANGED alloc /\ taker[t].pc = "next" /\ ~Holding(t) /\ e \in Serves[t]
    <3>1. Moves(t) /\ UNCHANGED alloc /\ taker[t].pc = "next"
      BY <1>6, TakeNextMoves
    <3> QED BY <2>0, <3>1 DEF Holding, TInv, Working, RoundOK
  <2>2. CASE taker'[t] = [taker[t] EXCEPT !.pc = "return", !.ret = "error"]
    <3>1. taker'[t].buf = taker[t].buf
      BY <1>2, <2>2 DEF TakerType
    <3> QED BY <1>1, <2>1, <3>1, QuietMail
  <2>3. CASE /\ FindByOwner(e) # NoBuffer
             /\ taker'[t] = [taker[t] EXCEPT !.pc = "header", !.buf = FindByOwner(e)]
    <3>1. taker'[t].buf = FindByOwner(e)
      BY <1>2, <2>3 DEF TakerType
    <3>2. OrderOK' /\ Boxes!Open(e)
      BY <1>1, <2>1, <2>3, <3>1, OpenMail
    <3> QED BY <1>2, <2>1, <3>2 DEF Boxes!MailNext
  <2> QED BY <1>6, <2>0, <2>2, <2>3, TakeNextMoves
<1>7. CASE TakeReturn(t)
  <2>1. Moves(t) /\ UNCHANGED alloc /\ taker'[t].buf = taker[t].buf
    BY <1>7, TakeReturnMoves DEF IdleTaker, TInv, Working, RoundOK, Holding
  <2> QED BY <1>1, <2>1, QuietMail
<1> QED BY <1>3, <1>4, <1>5, <1>6, <1>7 DEF Take

LEMMA InitMail ==
  ASSUME Init
  PROVE  OrderOK /\ Boxes!MailInit
<1>1. /\ alloc = <<>> /\ arrivals = <<>> /\ ToSet(alloc) = {}
      /\ \A r \in Receivers : ~Copies(r)
      /\ Reading = {}
  BY DEF Init, IdleReceiver, IdleTaker, ToSet, Copies, Reading
<1>2. OrderOK
  BY <1>1 DEF OrderOK
<1>3. Incoming = {} /\ Opened = {} /\ Box = [e \in Entities |-> {}]
  BY <1>1 DEF Incoming, Opened, Box
<1>4. Boxes!MailInit
  BY <1>1, <1>3 DEF Boxes!MailInit, Incoming, Opened, Box, Copies
<1> QED BY <1>2, <1>4

LEMMA NextMail ==
  ASSUME CallbacksFirst, OwnEntities, MInv, [Next]_vars
  PROVE  MInv' /\ [Boxes!MailNext]_(Boxes!mailVars)
<1>1. TInv' /\ BInv'
  BY NextBInv DEF MInv
<1>2. ASSUME NEW r \in Receivers, Receive(r)
      PROVE  OrderOK' /\ [Boxes!MailNext]_(Boxes!mailVars)
  BY <1>1, <1>2, ReceiveMail
<1>3. ASSUME NEW t \in Takers,
             (\E e \in Serves[t], n \in Counts : TakeFind(t, e, n)) \/ Take(t)
      PROVE  OrderOK' /\ [Boxes!MailNext]_(Boxes!mailVars)
  BY <1>1, <1>3, TakeMail
<1>4. CASE UNCHANGED vars
  <2>1. OrderOK'
    BY <1>4 DEF vars, MInv, OrderOK, Message, Full, Filling
  <2>2. UNCHANGED Boxes!mailVars
    BY <1>4 DEF vars, Boxes!mailVars, Reading
  <2> QED BY <1>1, <2>1, <2>2 DEF MInv
<1> QED BY <1>1, <1>2, <1>3, <1>4 DEF Next, MInv

(* The items of the allocated list are in the order of their messages, the *)
(* latest first, which makes find_static_input_buffer_by_owner, the first  *)
(* item of the owner, the newest message.                                  *)
THEOREM LatestFirst ==
  ASSUME CallbacksFirst, OwnEntities
  PROVE  Spec => []OrderOK
<1>1. Init => MInv
  BY InitTInv, InitBInv, InitMail DEF MInv
<1>2. MInv /\ [Next]_vars => MInv'
  BY NextMail
<1>3. MInv => OrderOK
  BY DEF MInv
<1> QED BY <1>1, <1>2, <1>3, PTL DEF Spec

(* callbacks.cpp and rmw_take.cpp, on static_buffer_memory, are a mailbox  *)
(* per entity: a callback turns a message away only when every item is in  *)
(* use, and a take opens the newest message of its entity.                 *)
THEOREM MailboxImplemented ==
  ASSUME CallbacksFirst, OwnEntities
  PROVE  Spec => ImplementsMailbox
<1>1. Init => MInv /\ Boxes!MailInit
  BY InitTInv, InitBInv, InitMail DEF MInv
<1>2. MInv /\ [Next]_vars => MInv' /\ [Boxes!MailNext]_(Boxes!mailVars)
  BY NextMail
<1> QED BY <1>1, <1>2, PTL DEF Spec, ImplementsMailbox, Boxes!MailSpec
=============================================================================
