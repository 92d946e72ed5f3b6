------------------------ MODULE StaticBuffersProofs ------------------------
(***************************************************************************)
(* The receive path for any number of items, entities, messages and        *)
(* threads.  What holds of every schedule comes first (TInv).  The rest    *)
(* holds when callbacks are not preempted by takes and every entity is     *)
(* taken from by one application thread (BInv), as in run callbacks_first: *)
(* the items of the allocated list are in the hands of one callback each,  *)
(* or full, and each holds a message of its own.                           *)
(***************************************************************************)
EXTENDS StaticBuffers, ListLemmas

\* The reader threads have the higher priority on one core.
CallbacksFirst == ~AppPreempts

\* No two application threads take from the same entity.
OwnEntities == \A t, u \in Takers : t # u => Serves[t] \cap Serves[u] = {}

-----------------------------------------------------------------------------
(* Every item is in exactly one place of exactly one list. *)
PoolOK ==
    /\ alloc \in Seq(Items) /\ free \in Seq(Items)
    /\ IsInjective(alloc) /\ IsInjective(free)
    /\ ToSet(alloc) \cap ToSet(free) = {}
    /\ ToSet(alloc) \cup ToSet(free) = Items

(* Get and Put keep every item in one place and move the one they are for. *)
LEMMA GetMoves ==
  ASSUME PoolOK, NEW b, Get(b)
  PROVE  /\ PoolOK'
         /\ b \in ToSet(free) /\ b \in Items /\ b \notin ToSet(alloc)
         /\ ToSet(alloc') = ToSet(alloc) \cup {b}
         /\ ToSet(free') = ToSet(free) \ {b}
         /\ alloc' = Cons(b, alloc)
<1>1. /\ free # <<>> /\ b = Head(free)
      /\ alloc' = Cons(b, alloc) /\ free' = Tail(free)
  BY DEF Get
<1>2. /\ b \in ToSet(free) /\ b \in Items /\ free' \in Seq(Items)
      /\ ToSet(free') = ToSet(free) \ {b} /\ IsInjective(free')
  BY <1>1, TailItems DEF PoolOK
<1>3. b \notin ToSet(alloc)
  BY <1>2 DEF PoolOK
<1>4. /\ alloc' \in Seq(Items) /\ ToSet(alloc') = ToSet(alloc) \cup {b}
      /\ IsInjective(alloc')
  <2>1. alloc \in Seq(Items) /\ IsInjective(alloc)
    BY DEF PoolOK
  <2>2. Cons(b, alloc) \in Seq(Items) /\ ToSet(Cons(b, alloc)) = ToSet(alloc) \cup {b}
    BY <1>2, <2>1, ConsItem
  <2>3. IsInjective(Cons(b, alloc))
    BY <1>2, <1>3, <2>1, ConsItem
  <2> QED BY <1>1, <2>2, <2>3
<1>5. /\ ToSet(alloc') \cap ToSet(free') = {}
      /\ ToSet(alloc') \cup ToSet(free') = Items
  BY <1>2, <1>3, <1>4 DEF PoolOK
<1> QED BY <1>1, <1>2, <1>3, <1>4, <1>5 DEF PoolOK

LEMMA PutMoves ==
  ASSUME PoolOK, NEW b, Put(b)
  PROVE  /\ PoolOK'
         /\ b \in ToSet(alloc) /\ b \in Items /\ b \notin ToSet(free)
         /\ ToSet(alloc') = ToSet(alloc) \ {b}
         /\ ToSet(free') = ToSet(free) \cup {b}
<1>1. PICK k \in DOMAIN alloc : alloc[k] = b /\ alloc' = RemoveAt(alloc, k)
  BY DEF Put
<1>2. free' = Cons(b, free)
  BY DEF Put
<1>3. /\ alloc' \in Seq(Items) /\ ToSet(alloc') = ToSet(alloc) \ {b}
      /\ IsInjective(alloc')
  BY <1>1, RemoveItem DEF PoolOK
<1>4. b \in ToSet(alloc) /\ b \in Items /\ b \notin ToSet(free)
  BY <1>1 DEF PoolOK, ToSet
<1>5. /\ free' \in Seq(Items) /\ ToSet(free') = ToSet(free) \cup {b}
      /\ IsInjective(free')
  <2>1. free \in Seq(Items) /\ IsInjective(free)
    BY DEF PoolOK
  <2>2. Cons(b, free) \in Seq(Items) /\ ToSet(Cons(b, free)) = ToSet(free) \cup {b}
    BY <1>4, <2>1, ConsItem
  <2>3. IsInjective(Cons(b, free))
    BY <1>4, <2>1, ConsItem
  <2> QED BY <1>2, <2>2, <2>3
<1>6. /\ ToSet(alloc') \cap ToSet(free') = {}
      /\ ToSet(alloc') \cup ToSet(free') = Items
  BY <1>3, <1>4, <1>5 DEF PoolOK
<1> QED BY <1>3, <1>4, <1>5, <1>6 DEF PoolOK

-----------------------------------------------------------------------------
ReceiverType == [pc : {"idle", "owner", "header", "payload", "signal", "put"},
                 msg : 0..Len(arrivals), buf : Items \cup {NoBuffer}]

DataType == Seq(0..Len(arrivals))

TakerType == [pc : {"idle", "header", "payload", "put", "next", "return"},
              entity : Entities \cup {NoEntity}, buf : Items \cup {NoBuffer},
              header : 0..Len(arrivals), payload : 0..Len(arrivals),
              count : Counts \cup {0}, data : DataType,
              ret : {"ok", "error"}]

BufferType == [owner : Entities \cup {NoEntity},
               header : 0..Len(arrivals), payload : 0..Len(arrivals)]

Types ==
    /\ arrivals \in Seq(Entities) /\ Len(arrivals) <= MaxArrivals
    /\ buffer \in [Items -> BufferType]
    /\ receiver \in [Receivers -> ReceiverType]
    /\ taker \in [Takers -> TakerType]
    /\ sem \in {0, 1}

Holding(t) == taker[t].pc \in {"header", "payload", "put"}

(* The rounds of a call: it goes on while nothing failed and fewer         *)
(* messages than asked for are in data.                                    *)
RoundOK(t) ==
    /\ IF Holding(t) THEN taker[t].buf \in Items ELSE taker[t].buf = NoBuffer
    /\ IF taker[t].pc = "idle" THEN taker[t].data = <<>>
       ELSE taker[t].entity \in Serves[t] /\ taker[t].count \in Counts
    /\ Holding(t) \/ taker[t].pc = "next" =>
          Len(taker[t].data) < taker[t].count /\ taker[t].ret = "ok"
    /\ taker[t].pc = "return" =>
          /\ Len(taker[t].data) <= taker[t].count
          /\ taker[t].ret = "ok" <=> Len(taker[t].data) = taker[t].count

(* Whoever works has an item. *)
Working ==
    /\ \A r \in Receivers :
          IF receiver[r].pc = "idle" THEN receiver[r].buf = NoBuffer
          ELSE receiver[r].buf \in Items /\ receiver[r].msg \in Messages
    /\ \A t \in Takers : RoundOK(t)

TInv == Types /\ PoolOK /\ Working

-----------------------------------------------------------------------------
(* The items that no callback has in its hands. *)
Full == ToSet(alloc) \ Filling

Busy(r) == receiver[r].pc # "idle"

(* What a callback has written so far is in its item, which is its own. *)
CallbacksOK ==
    \A r \in Receivers : Busy(r) =>
        /\ receiver[r].buf \in ToSet(alloc)
        /\ receiver[r].pc # "owner" =>
              buffer[receiver[r].buf].owner = arrivals[receiver[r].msg]
        /\ receiver[r].pc \in {"payload", "signal", "put"} =>
              buffer[receiver[r].buf].header = receiver[r].msg
        /\ receiver[r].pc = "signal" => buffer[receiver[r].buf].payload = receiver[r].msg
        /\ \A s \in Receivers \ {r} : Busy(s) =>
              receiver[s].buf # receiver[r].buf /\ receiver[s].msg # receiver[r].msg

(* A full item holds a whole message, for its owner, that is nowhere else. *)
FullOK ==
    \A b \in Full :
        /\ buffer[b].payload \in Messages
        /\ buffer[b].header = buffer[b].payload
        /\ buffer[b].owner = arrivals[buffer[b].payload]
        /\ \A c \in Full \ {b} : buffer[c].payload # buffer[b].payload
        /\ \A r \in Receivers : Busy(r) => receiver[r].msg # buffer[b].payload

(* A take reads a full item of its entity, and has read what is in it. *)
TakesOK ==
    \A t \in Takers : Holding(t) =>
        /\ taker[t].buf \in Full
        /\ buffer[taker[t].buf].owner = taker[t].entity
        /\ taker[t].pc # "header" => taker[t].header = buffer[taker[t].buf].header
        /\ taker[t].pc = "put" => taker[t].payload = buffer[taker[t].buf].payload

(* The messages a call has taken are gone from the pool. *)
DataOK ==
    \A t \in Takers :
        /\ IsInjective(taker[t].data)
        /\ \A m \in ToSet(taker[t].data) :
              /\ m \in Messages /\ arrivals[m] = taker[t].entity
              /\ \A b \in Full : buffer[b].payload # m
              /\ \A r \in Receivers : Busy(r) => receiver[r].msg # m

BInv == CallbacksOK /\ FullOK /\ TakesOK /\ DataOK

-----------------------------------------------------------------------------
(* The first item of e in the allocated list, if there is one. *)
LEMMA FindByOwnerFinds ==
  ASSUME TInv, NEW e, FindByOwner(e) # NoBuffer
  PROVE  \E k \in DOMAIN alloc :
            /\ FindByOwner(e) = alloc[k] /\ buffer[alloc[k]].owner = e
            /\ \A j \in DOMAIN alloc : buffer[alloc[j]].owner = e => k <= j
<1> DEFINE hits == {k \in DOMAIN alloc : buffer[alloc[k]].owner = e}
<1>1. hits # {} /\ FindByOwner(e) = alloc[Min(hits)]
  BY DEF FindByOwner
<1>2. hits \in SUBSET Nat
  <2>1. alloc \in Seq(Items)
    BY DEF TInv, PoolOK
  <2> QED BY <2>1, LenProperties
<1>3. Min(hits) \in hits /\ \A j \in hits : Min(hits) <= j
  BY <1>1, <1>2, MinIsLeast
<1> QED BY <1>1, <1>3

LEMMA FoundItem ==
  ASSUME TInv, NEW e, FindByOwner(e) # NoBuffer
  PROVE  /\ FindByOwner(e) \in ToSet(alloc) /\ FindByOwner(e) \in Items
         /\ buffer[FindByOwner(e)].owner = e
<1>1. PICK k \in DOMAIN alloc : FindByOwner(e) = alloc[k] /\ buffer[alloc[k]].owner = e
  BY FindByOwnerFinds
<1>2. alloc[k] \in ToSet(alloc)
  BY DEF ToSet
<1> QED BY <1>1, <1>2 DEF TInv, PoolOK

-----------------------------------------------------------------------------
(* Types and rounds, for every schedule *)

(* Messages arrive, and those that are there stay. *)
LEMMA ArrivalGrows ==
  ASSUME TInv, NEW e \in Entities, Len(arrivals) < MaxArrivals,
         arrivals' = Append(arrivals, e)
  PROVE  /\ arrivals' \in Seq(Entities) /\ Len(arrivals') = Len(arrivals) + 1
         /\ Len(arrivals) \in Nat /\ Len(arrivals') <= MaxArrivals
         /\ Messages \subseteq Messages' /\ Len(arrivals) + 1 \in Messages'
         /\ \A m \in Messages : arrivals'[m] = arrivals[m]
         /\ arrivals'[Len(arrivals) + 1] = e
         /\ BufferType \subseteq BufferType'
         /\ ReceiverType \subseteq ReceiverType'
         /\ TakerType \subseteq TakerType'
<1>1. /\ arrivals \in Seq(Entities) /\ Len(arrivals) \in Nat /\ MaxArrivals \in Nat
  BY BuffersAssumption, LenProperties DEF TInv, Types
<1>2. /\ arrivals' \in Seq(Entities) /\ Len(arrivals') = Len(arrivals) + 1
      /\ \A m \in 1..Len(arrivals) : arrivals'[m] = arrivals[m]
      /\ arrivals'[Len(arrivals) + 1] = e
  BY <1>1, AppendProperties
<1>3. 0..Len(arrivals) \subseteq 0..Len(arrivals') /\ Len(arrivals') <= MaxArrivals
  BY <1>1, <1>2
<1>4. Seq(0..Len(arrivals)) \subseteq Seq(0..Len(arrivals'))
  BY <1>3
<1>5. BufferType \subseteq BufferType' /\ ReceiverType \subseteq ReceiverType'
  BY <1>3 DEF BufferType, ReceiverType
<1>6. TakerType \subseteq TakerType'
  <2>1. DataType \subseteq DataType'
    BY <1>4 DEF DataType
  <2> QED BY <1>3, <2>1 DEF TakerType
<1>7. Messages \subseteq Messages' /\ Len(arrivals) + 1 \in Messages'
  BY <1>1, <1>2 DEF Messages
<1> QED BY <1>1, <1>2, <1>3, <1>5, <1>6, <1>7 DEF Messages

(* A step of a callback changes its pc, and perhaps a field of its item. *)
LEMMA CallbackMoves ==
  ASSUME TInv, NEW r \in Receivers, NEW from,
         NEW to \in {"header", "payload", "signal", "put"}, CallbackStep(r, from, to)
  PROVE  /\ receiver[r].pc = from
         /\ receiver' \in [Receivers -> ReceiverType]
         /\ receiver'[r].pc = to
         /\ receiver'[r].buf = receiver[r].buf /\ receiver'[r].msg = receiver[r].msg
         /\ \A s \in Receivers \ {r} : receiver'[s] = receiver[s]
         /\ UNCHANGED <<alloc, free, arrivals, taker>>
BY DEF CallbackStep, TInv, Types, ReceiverType

(* ... which the other items do not notice. *)
LEMMA OwnerWritten ==
  ASSUME TInv, NEW b \in Items, NEW m \in Messages,
         buffer' = [buffer EXCEPT ![b].owner = arrivals[m]]
  PROVE  /\ buffer' \in [Items -> BufferType]
         /\ \A c \in Items \ {b} : buffer'[c] = buffer[c]
         /\ buffer'[b].owner = arrivals[m]
<1>1. arrivals[m] \in Entities
  BY ElementOfSeq DEF TInv, Types, Messages
<1> QED BY <1>1 DEF TInv, Types, BufferType

LEMMA HeaderWritten ==
  ASSUME TInv, NEW b \in Items, NEW m \in Messages,
         buffer' = [buffer EXCEPT ![b].header = m]
  PROVE  /\ buffer' \in [Items -> BufferType]
         /\ \A c \in Items \ {b} : buffer'[c] = buffer[c]
         /\ buffer'[b].owner = buffer[b].owner /\ buffer'[b].header = m
<1>1. m \in 0..Len(arrivals)
  BY LenProperties DEF TInv, Types, Messages
<1> QED BY <1>1 DEF TInv, Types, BufferType

LEMMA PayloadWritten ==
  ASSUME TInv, NEW b \in Items, NEW m \in Messages,
         buffer' = [buffer EXCEPT ![b].payload = m]
  PROVE  /\ buffer' \in [Items -> BufferType]
         /\ \A c \in Items \ {b} : buffer'[c] = buffer[c]
         /\ buffer'[b].owner = buffer[b].owner /\ buffer'[b].header = buffer[b].header
         /\ buffer'[b].payload = m
<1>1. m \in 0..Len(arrivals)
  BY LenProperties DEF TInv, Types, Messages
<1> QED BY <1>1 DEF TInv, Types, BufferType

LEMMA InitTInv ==
  ASSUME Init
  PROVE  TInv
<1>1. alloc = <<>> /\ alloc \in Seq(Items) /\ ToSet(alloc) = {} /\ IsInjective(alloc)
  BY DEF Init, ToSet, IsInjective
<1>2. free \in Seq(Items) /\ ToSet(free) = Items /\ IsInjective(free)
  BY AllItems, BuffersAssumption DEF Init
<1>3. PoolOK
  BY <1>1, <1>2 DEF PoolOK
<1>4. arrivals = <<>> /\ Len(arrivals) = 0 /\ <<>> \in Seq(0..0)
  BY DEF Init
<1>5. Types
  BY <1>4, BuffersAssumption
  DEF Init, Types, BufferType, ReceiverType, TakerType, DataType, IdleReceiver, IdleTaker
<1>6. Working
  BY <1>4 DEF Init, Working, RoundOK, IdleReceiver, IdleTaker, Holding
<1> QED BY <1>3, <1>5, <1>6 DEF TInv

LEMMA ReceiveTInv ==
  ASSUME TInv, NEW r \in Receivers, Receive(r)
  PROVE  TInv'
<1> USE DEF TInv
<1>1. ASSUME NEW e \in Entities, Refuse(r, e) PROVE TInv'
  <2>1. Len(arrivals) < MaxArrivals /\ arrivals' = Append(arrivals, e)
    BY <1>1 DEF Refuse
  <2>2. Types'
    BY <1>1, <2>1, ArrivalGrows DEF Refuse, Types
  <2>3. PoolOK'
    BY <1>1 DEF Refuse, PoolOK
  <2>4. Working'
    <3>1. Messages \subseteq Messages'
      BY <2>1, ArrivalGrows
    <3> QED BY <1>1, <3>1 DEF Refuse, Working, RoundOK, Holding
  <2> QED BY <2>2, <2>3, <2>4
<1>2. ASSUME NEW e \in Entities, Accept(r, e) PROVE TInv'
  <2>1. Len(arrivals) < MaxArrivals /\ arrivals' = Append(arrivals, e)
    BY <1>2 DEF Accept
  <2>2. PoolOK' /\ Head(free) \in Items
    BY <1>2, GetMoves DEF Accept
  <2>3. Types'
    <3>1. /\ arrivals' \in Seq(Entities) /\ Len(arrivals') = Len(arrivals) + 1
          /\ Len(arrivals) \in Nat /\ Len(arrivals') <= MaxArrivals
          /\ BufferType \subseteq BufferType'
          /\ ReceiverType \subseteq ReceiverType'
          /\ TakerType \subseteq TakerType'
      BY <2>1, ArrivalGrows
    <3>2. [pc |-> "owner", msg |-> Len(arrivals) + 1, buf |-> Head(free)] \in ReceiverType'
      BY <2>2, <3>1 DEF ReceiverType
    <3> QED BY <1>2, <3>1, <3>2 DEF Accept, Types
  <2>4. Working'
    <3>1. Messages \subseteq Messages' /\ Len(arrivals) + 1 \in Messages'
      BY <2>1, ArrivalGrows
    <3> QED BY <1>2, <2>2, <3>1 DEF Accept, Working, RoundOK, Holding, Types
  <2> QED BY <2>2, <2>3, <2>4
<1>3. ASSUME WriteOwner(r) \/ WriteHeader(r) \/ CopyInto(r) \/ CopyFails(r) PROVE TInv'
  <2>1. PICK from \in {"owner", "header", "payload"}, to \in {"header", "payload", "signal", "put"} :
           CallbackStep(r, from, to)
    BY <1>3 DEF WriteOwner, WriteHeader, CopyInto, CopyFails
  <2>2. /\ receiver[r].pc = from
        /\ receiver' \in [Receivers -> ReceiverType]
        /\ receiver'[r].pc = to
        /\ receiver'[r].buf = receiver[r].buf /\ receiver'[r].msg = receiver[r].msg
        /\ \A s \in Receivers \ {r} : receiver'[s] = receiver[s]
        /\ UNCHANGED <<alloc, free, arrivals, taker>>
    BY <2>1, CallbackMoves
  <2>3. receiver[r].buf \in Items /\ receiver[r].msg \in Messages
    BY <2>2 DEF Working
  <2>4. buffer' \in [Items -> BufferType] /\ UNCHANGED sem
    BY <1>3, <2>3, OwnerWritten, HeaderWritten, PayloadWritten
    DEF WriteOwner, WriteHeader, CopyInto, CopyFails, Types
  <2>5. PoolOK'
    BY <2>2 DEF PoolOK
  <2>6. Types'
    BY <2>2, <2>4 DEF Types, BufferType, ReceiverType, TakerType, DataType
  <2>7. Working'
    BY <2>2, <2>3 DEF Working, RoundOK, Holding, Messages
  <2> QED BY <2>5, <2>6, <2>7
<1>4. ASSUME PutBack(r) PROVE TInv'
  <2>1. PoolOK'
    BY <1>4, PutMoves DEF PutBack
  <2>2. Types'
    BY <1>4 DEF PutBack, Types, IdleReceiver, BufferType, ReceiverType, TakerType, DataType
  <2>3. Working'
    BY <1>4 DEF PutBack, Working, RoundOK, IdleReceiver, Holding, Types, Messages
  <2> QED BY <2>1, <2>2, <2>3
<1>5. ASSUME Signal(r) PROVE TInv'
  <2>1. PoolOK'
    BY <1>5 DEF Signal, PoolOK
  <2>2. Types'
    BY <1>5 DEF Signal, Types, IdleReceiver, BufferType, ReceiverType, TakerType, DataType
  <2>3. Working'
    BY <1>5 DEF Signal, Working, RoundOK, IdleReceiver, Holding, Types, Messages
  <2> QED BY <2>1, <2>2, <2>3
<1> QED BY <1>1, <1>2, <1>3, <1>4, <1>5 DEF Receive, Callback

(* What the steps of a take do to the record of their thread. *)
Moves(t) ==
    /\ taker' \in [Takers -> TakerType]
    /\ \A u \in Takers \ {t} : taker'[u] = taker[u]
    /\ UNCHANGED <<buffer, arrivals, receiver, sem>>

LEMMA IdleTakerType ==
  ASSUME TInv
  PROVE  IdleTaker \in TakerType
<1>1. 0 \in 0..Len(arrivals) /\ <<>> \in DataType
  BY LenProperties DEF TInv, Types, DataType
<1> QED BY <1>1 DEF IdleTaker, TakerType

LEMMA RecordMoves ==
  ASSUME TInv, NEW t \in Takers, NEW rec \in TakerType,
         taker' = [taker EXCEPT ![t] = rec], UNCHANGED <<buffer, arrivals, receiver, sem>>
  PROVE  Moves(t) /\ taker'[t] = rec
BY DEF Moves, TInv, Types

LEMMA TakeFindMoves ==
  ASSUME TInv, NEW t \in Takers, NEW e \in Serves[t], NEW n \in Counts, TakeFind(t, e, n)
  PROVE  /\ Moves(t) /\ UNCHANGED <<alloc, free>>
         /\ FindByOwner(e) \in ToSet(alloc) /\ buffer[FindByOwner(e)].owner = e
         /\ FindByOwner(e) # NoBuffer
         /\ taker'[t].pc = "header" /\ taker'[t].entity = e
         /\ taker'[t].buf = FindByOwner(e) /\ taker'[t].count = n
         /\ taker'[t].data = <<>> /\ taker'[t].ret = "ok"
<1> DEFINE found == FindByOwner(e)
           idle == IdleTaker
           rec == [idle EXCEPT !.pc = "header", !.entity = e, !.count = n, !.buf = found]
<1>1. found \in ToSet(alloc) /\ found \in Items /\ buffer[found].owner = e
  BY FoundItem DEF TakeFind
<1>2. /\ UNCHANGED <<alloc, free, buffer, arrivals, receiver, sem>> /\ found # NoBuffer
      /\ taker' = [taker EXCEPT ![t] = rec]
  BY DEF TakeFind
<1>3. idle \in TakerType /\ idle.data = <<>> /\ idle.ret = "ok"
  BY IdleTakerType DEF IdleTaker
<1>4. e \in Entities
  BY BuffersAssumption
<1> HIDE DEF found, idle
<1>5. rec \in TakerType
  BY <1>1, <1>3, <1>4 DEF TakerType
<1>6. /\ rec.pc = "header" /\ rec.entity = e /\ rec.buf = found /\ rec.count = n
      /\ rec.data = <<>> /\ rec.ret = "ok"
  BY <1>3 DEF TakerType
<1> HIDE DEF rec
<1>7. Moves(t) /\ taker'[t] = rec
  BY <1>2, <1>5, RecordMoves
<1> QED BY <1>1, <1>2, <1>6, <1>7 DEF found

LEMMA TakeHeaderMoves ==
  ASSUME TInv, NEW t \in Takers, TakeHeader(t)
  PROVE  /\ Moves(t) /\ UNCHANGED <<alloc, free>>
         /\ taker[t].pc = "header"
         /\ taker'[t] = [taker[t] EXCEPT !.pc = "payload",
                                         !.header = buffer[taker[t].buf].header]
<1> DEFINE h == buffer[taker[t].buf].header
           rec == [taker[t] EXCEPT !.pc = "payload", !.header = h]
<1>1. taker[t].buf \in Items /\ taker[t].pc = "header" /\ taker[t] \in TakerType
  BY DEF TakeHeader, TInv, Types, Working, RoundOK, Holding
<1>2. h \in 0..Len(arrivals)
  BY <1>1 DEF TInv, Types, BufferType
<1>3. /\ taker' = [taker EXCEPT ![t].pc = "payload", ![t].header = h]
      /\ UNCHANGED <<alloc, free, buffer, arrivals, receiver, sem>>
  BY DEF TakeHeader
<1> HIDE DEF h
<1>4. rec \in TakerType
  BY <1>1, <1>2 DEF TakerType
<1>5. taker' = [taker EXCEPT ![t] = rec]
  BY <1>1, <1>3 DEF TInv, Types, TakerType
<1> HIDE DEF rec
<1>6. Moves(t) /\ taker'[t] = rec
  BY <1>3, <1>4, <1>5, RecordMoves
<1> QED BY <1>1, <1>3, <1>6 DEF rec, h

LEMMA TakePayloadMoves ==
  ASSUME TInv, NEW t \in Takers, TakePayload(t)
  PROVE  /\ Moves(t) /\ UNCHANGED <<alloc, free>>
         /\ taker[t].pc = "payload"
         /\ taker'[t] = [taker[t] EXCEPT !.pc = "put",
                                         !.payload = buffer[taker[t].buf].payload]
<1> DEFINE p == buffer[taker[t].buf].payload
           rec == [taker[t] EXCEPT !.pc = "put", !.payload = p]
<1>1. taker[t].buf \in Items /\ taker[t].pc = "payload" /\ taker[t] \in TakerType
  BY DEF TakePayload, TInv, Types, Working, RoundOK, Holding
<1>2. p \in 0..Len(arrivals)
  BY <1>1 DEF TInv, Types, BufferType
<1>3. /\ taker' = [taker EXCEPT ![t].pc = "put", ![t].payload = p]
      /\ UNCHANGED <<alloc, free, buffer, arrivals, receiver, sem>>
  BY DEF TakePayload
<1> HIDE DEF p
<1>4. rec \in TakerType
  BY <1>1, <1>2 DEF TakerType
<1>5. taker' = [taker EXCEPT ![t] = rec]
  BY <1>1, <1>3 DEF TInv, Types, TakerType
<1> HIDE DEF rec
<1>6. Moves(t) /\ taker'[t] = rec
  BY <1>3, <1>4, <1>5, RecordMoves
<1> QED BY <1>1, <1>3, <1>6 DEF rec, p

LEMMA TakePutMoves ==
  ASSUME TInv, NEW t \in Takers, TakePut(t)
  PROVE  /\ Moves(t) /\ Put(taker[t].buf) /\ taker[t].pc = "put"
         /\ \/ taker'[t] = [taker[t] EXCEPT
                  !.pc = IF Len(taker[t].data) + 1 = taker[t].count THEN "return" ELSE "next",
                  !.buf = NoBuffer, !.data = Append(taker[t].data, taker[t].payload)]
            \/ taker'[t] = [taker[t] EXCEPT !.pc = "return", !.buf = NoBuffer, !.ret = "error"]
<1> DEFINE pc == IF Len(taker[t].data) + 1 = taker[t].count THEN "return" ELSE "next"
           data == Append(taker[t].data, taker[t].payload)
<1>1. taker[t] \in TakerType
  BY DEF TInv, Types
<1>2. data \in DataType
  <2>1. taker[t].data \in Seq(0..Len(arrivals)) /\ taker[t].payload \in 0..Len(arrivals)
    BY <1>1 DEF TakerType, DataType
  <2> QED BY <2>1, AppendProperties DEF DataType
<1>3. pc \in {"return", "next"}
  OBVIOUS
<1>4. CASE Taken(t)
  <2> DEFINE rec == [taker[t] EXCEPT !.pc = pc, !.buf = NoBuffer, !.data = data]
  <2>1. taker' = [taker EXCEPT ![t].pc = pc, ![t].buf = NoBuffer, ![t].data = data]
    BY <1>4 DEF Taken
  <2> HIDE DEF pc, data
  <2>2. rec \in TakerType
    BY <1>1, <1>2, <1>3 DEF TakerType
  <2>3. taker' = [taker EXCEPT ![t] = rec]
    BY <1>1, <2>1 DEF TInv, Types, TakerType
  <2> HIDE DEF rec
  <2>4. Moves(t) /\ taker'[t] = rec
    BY <2>2, <2>3, RecordMoves DEF TakePut
  <2> QED BY <2>4 DEF TakePut, rec, pc, data
<1>5. CASE Failed(t)
  <2> DEFINE rec == [taker[t] EXCEPT !.pc = "return", !.buf = NoBuffer, !.ret = "error"]
  <2>1. rec \in TakerType
    BY <1>1 DEF TakerType
  <2>2. taker' = [taker EXCEPT ![t] = rec]
    BY <1>1, <1>5 DEF Failed, TInv, Types, TakerType
  <2> HIDE DEF rec
  <2>3. Moves(t) /\ taker'[t] = rec
    BY <2>1, <2>2, RecordMoves DEF TakePut
  <2> QED BY <2>3 DEF TakePut, rec
<1> QED BY <1>4, <1>5 DEF TakePut

LEMMA TakeNextMoves ==
  ASSUME TInv, NEW t \in Takers, TakeNext(t)
  PROVE  /\ Moves(t) /\ UNCHANGED <<alloc, free>> /\ taker[t].pc = "next"
         /\ \/ taker'[t] = [taker[t] EXCEPT !.pc = "return", !.ret = "error"]
            \/ LET found == FindByOwner(taker[t].entity)
               IN  /\ found # NoBuffer
                   /\ found \in ToSet(alloc) /\ buffer[found].owner = taker[t].entity
                   /\ taker'[t] = [taker[t] EXCEPT !.pc = "header", !.buf = found]
<1> DEFINE found == FindByOwner(taker[t].entity)
           over == [taker[t] EXCEPT !.pc = "return", !.ret = "error"]
           goes == [taker[t] EXCEPT !.pc = "header", !.buf = found]
<1>1. found # NoBuffer => /\ found \in ToSet(alloc) /\ found \in Items
                         /\ buffer[found].owner = taker[t].entity
  BY FoundItem
<1>2. /\ taker' = IF found = NoBuffer
                  THEN [taker EXCEPT ![t].pc = "return", ![t].ret = "error"]
                  ELSE [taker EXCEPT ![t].pc = "header", ![t].buf = found]
      /\ UNCHANGED <<alloc, free, buffer, arrivals, receiver, sem>>
      /\ taker[t].pc = "next"
  BY DEF TakeNext
<1>3. taker[t] \in TakerType
  BY DEF TInv, Types
<1> HIDE DEF found
<1>4. CASE found = NoBuffer
  <2>1. over \in TakerType
    BY <1>3 DEF TakerType
  <2>2. taker' = [taker EXCEPT ![t] = over]
    BY <1>2, <1>3, <1>4 DEF TInv, Types, TakerType
  <2> HIDE DEF over
  <2>3. Moves(t) /\ taker'[t] = over
    BY <1>2, <2>1, <2>2, RecordMoves
  <2> QED BY <1>2, <2>3 DEF over
<1>5. CASE found # NoBuffer
  <2>1. goes \in TakerType
    BY <1>1, <1>3, <1>5 DEF TakerType
  <2>2. taker' = [taker EXCEPT ![t] = goes]
    BY <1>2, <1>3, <1>5 DEF TInv, Types, TakerType
  <2> HIDE DEF goes
  <2>3. Moves(t) /\ taker'[t] = goes
    BY <1>2, <2>1, <2>2, RecordMoves
  <2> QED BY <1>1, <1>2, <1>5, <2>3 DEF goes, found
<1> QED BY <1>4, <1>5

LEMMA TakeReturnMoves ==
  ASSUME TInv, NEW t \in Takers, TakeReturn(t)
  PROVE  /\ Moves(t) /\ UNCHANGED <<alloc, free>>
         /\ taker[t].pc = "return" /\ taker'[t] = IdleTaker
BY IdleTakerType DEF TakeReturn, Moves, TInv, Types

LEMMA TakeTInv ==
  ASSUME TInv, NEW t \in Takers,
         (\E e \in Serves[t], n \in Counts : TakeFind(t, e, n)) \/ Take(t)
  PROVE  TInv'
<1> USE DEF TInv
<1>1. ASSUME Moves(t), PoolOK', RoundOK(t)' PROVE TInv'
  <2>1. Types'
    BY <1>1 DEF Moves, Types, BufferType, ReceiverType, TakerType, DataType
  <2>2. Working'
    BY <1>1 DEF Moves, Working, RoundOK, Holding, Messages
  <2> QED BY <1>1, <2>1, <2>2
<1>2. /\ Len(taker[t].data) \in Nat /\ taker[t] \in TakerType
      /\ Len(Append(taker[t].data, taker[t].payload)) = Len(taker[t].data) + 1
  <2>1. taker[t] \in TakerType /\ taker[t].data \in Seq(0..Len(arrivals))
        /\ taker[t].payload \in 0..Len(arrivals)
    BY DEF Types, TakerType, DataType
  <2> QED BY <2>1, LenProperties, AppendProperties
<1>3. /\ \A n \in Counts : n \in Nat /\ 0 < n
      /\ UNCHANGED <<alloc, free>> => PoolOK'
      /\ ToSet(alloc) \subseteq Items
      /\ RoundOK(t)
  BY BuffersAssumption DEF PoolOK, Working
<1>4. ASSUME NEW e \in Serves[t], NEW n \in Counts, TakeFind(t, e, n) PROVE TInv'
  <2>1. /\ Moves(t) /\ UNCHANGED <<alloc, free>> /\ FindByOwner(e) \in ToSet(alloc)
        /\ taker'[t].pc = "header" /\ taker'[t].entity = e
        /\ taker'[t].buf = FindByOwner(e) /\ taker'[t].count = n
        /\ taker'[t].data = <<>> /\ taker'[t].ret = "ok"
    BY <1>4, TakeFindMoves
  <2>2. RoundOK(t)'
    BY <1>3, <2>1 DEF RoundOK, Holding
  <2> QED BY <1>1, <1>3, <2>1, <2>2
<1>5. CASE TakeHeader(t) \/ TakePayload(t)
  <2>1. /\ Moves(t) /\ UNCHANGED <<alloc, free>> /\ Holding(t)
        /\ \/ taker'[t] = [taker[t] EXCEPT !.pc = "payload",
                                           !.header = buffer[taker[t].buf].header]
           \/ taker'[t] = [taker[t] EXCEPT !.pc = "put",
                                           !.payload = buffer[taker[t].buf].payload]
    BY <1>5, TakeHeaderMoves, TakePayloadMoves DEF Holding
  <2>2. RoundOK(t)'
    BY <1>2, <1>3, <2>1 DEF RoundOK, Holding, TakerType
  <2> QED BY <1>1, <1>3, <2>1, <2>2
<1>6. CASE TakePut(t)
  <2>1. Moves(t) /\ PoolOK' /\ taker[t].pc = "put"
    BY <1>6, TakePutMoves, PutMoves
  <2>2. CASE taker'[t] = [taker[t] EXCEPT
                  !.pc = IF Len(taker[t].data) + 1 = taker[t].count THEN "return" ELSE "next",
                  !.buf = NoBuffer, !.data = Append(taker[t].data, taker[t].payload)]
    <3>1. RoundOK(t)'
      BY <1>2, <1>3, <2>1, <2>2 DEF RoundOK, Holding, TakerType
    <3> QED BY <1>1, <2>1, <3>1
  <2>3. CASE taker'[t] = [taker[t] EXCEPT !.pc = "return", !.buf = NoBuffer, !.ret = "error"]
    <3>1. RoundOK(t)'
      BY <1>2, <1>3, <2>1, <2>3 DEF RoundOK, Holding, TakerType
    <3> QED BY <1>1, <2>1, <3>1
  <2> QED BY <1>6, <2>2, <2>3, TakePutMoves
<1>7. CASE TakeNext(t)
  <2>1. Moves(t) /\ UNCHANGED <<alloc, free>> /\ taker[t].pc = "next"
    BY <1>7, TakeNextMoves
  <2>2. CASE taker'[t] = [taker[t] EXCEPT !.pc = "return", !.ret = "error"]
    <3>1. RoundOK(t)'
      BY <1>2, <1>3, <2>1, <2>2 DEF RoundOK, Holding, TakerType
    <3> QED BY <1>1, <1>3, <2>1, <3>1
  <2>3. ASSUME NEW found \in ToSet(alloc),
               taker'[t] = [taker[t] EXCEPT !.pc = "header", !.buf = found]
        PROVE  TInv'
    <3>1. RoundOK(t)'
      BY <1>2, <1>3, <2>1, <2>3 DEF RoundOK, Holding, TakerType
    <3> QED BY <1>1, <1>3, <2>1, <3>1
  <2> QED BY <1>7, <2>2, <2>3, TakeNextMoves
<1>8. CASE TakeReturn(t)
  <2>1. Moves(t) /\ UNCHANGED <<alloc, free>> /\ taker'[t] = IdleTaker
    BY <1>8, TakeReturnMoves
  <2>2. RoundOK(t)'
    BY <2>1 DEF RoundOK, Holding, IdleTaker
  <2> QED BY <1>1, <1>3, <2>1, <2>2
<1> QED BY <1>4, <1>5, <1>6, <1>7, <1>8 DEF Take

LEMMA NextTInv ==
  ASSUME TInv, [Next]_vars
  PROVE  TInv'
<1>1. ASSUME NEW r \in Receivers, Receive(r) PROVE TInv'
  BY <1>1, ReceiveTInv
<1>2. ASSUME NEW t \in Takers,
             (\E e \in Serves[t], n \in Counts : TakeFind(t, e, n)) \/ Take(t)
      PROVE  TInv'
  BY <1>2, TakeTInv
<1>3. CASE UNCHANGED vars
  <2>1. PoolOK' /\ Types'
    BY <1>3 DEF vars, TInv, Types, BufferType, ReceiverType, TakerType, DataType, PoolOK
  <2>2. Working'
    BY <1>3 DEF vars, TInv, Working, RoundOK, Holding, Messages
  <2> QED BY <2>1, <2>2 DEF TInv
<1> QED BY <1>1, <1>2, <1>3 DEF Next

LEMMA AlwaysTInv == Spec => []TInv
BY InitTInv, NextTInv, PTL DEF Spec

LEMMA TypesOfInv == ASSUME TInv PROVE TypeOK
<1>1. \A t \in Takers : Len(taker[t].data) <= taker[t].count
  <2> TAKE t \in Takers
  <2>1. taker[t].data \in Seq(0..Len(arrivals)) /\ Len(taker[t].data) \in Nat
    BY LenProperties DEF TInv, Types, TakerType, DataType
  <2>2. taker[t] \in TakerType /\ RoundOK(t)
    BY DEF TInv, Types, Working
  <2>3. taker[t].count \in Nat
    <3>1. taker[t].count \in Counts \cup {0}
      BY <2>2 DEF TakerType
    <3>2. \A n \in Counts : n \in Nat
      BY BuffersAssumption
    <3> QED BY <3>1, <3>2
  <2> QED BY <2>1, <2>2, <2>3 DEF RoundOK, Holding, TakerType
<1> QED BY <1>1 DEF TInv, Types, PoolOK, TypeOK, BufferType, ReceiverType, TakerType, DataType

(* The types, for every schedule. *)
THEOREM TypeCorrect == Spec => []TypeOK
BY TypesOfInv, AlwaysTInv, PTL

(* A take reports RMW_RET_OK exactly when it took all it was asked for,    *)
(* for every schedule.                                                     *)
THEOREM OkCorrect == Spec => []OkTakesAll
<1>1. TInv => OkTakesAll
  BY DEF TInv, Working, RoundOK, OkTakesAll
<1> QED BY <1>1, AlwaysTInv, PTL

-----------------------------------------------------------------------------
(* Callbacks first, and an application thread of its own for every entity *)

LEMMA FullItems ==
  ASSUME TInv, TInv'
  PROVE  /\ \A b : b \in Full <=>
               /\ b \in ToSet(alloc)
               /\ \A r \in Receivers : Busy(r) => receiver[r].buf # b
         /\ \A b : b \in Full' <=>
               /\ b \in ToSet(alloc')
               /\ \A r \in Receivers : Busy(r)' => receiver'[r].buf # b
         /\ ToSet(alloc) \subseteq Items
<1>1. NoBuffer \notin ToSet(alloc) /\ NoBuffer \notin ToSet(alloc') /\ ToSet(alloc) \subseteq Items
  BY BuffersAssumption DEF TInv, PoolOK
<1>2. \A b : b \in Full <=>
               /\ b \in ToSet(alloc)
               /\ \A r \in Receivers : Busy(r) => receiver[r].buf # b
  BY <1>1 DEF TInv, Working, Full, Filling, Busy
<1>3. \A b : b \in Full' <=>
               /\ b \in ToSet(alloc')
               /\ \A r \in Receivers : Busy(r)' => receiver'[r].buf # b
  BY <1>1 DEF TInv, Working, Full, Filling, Busy
<1> QED BY <1>1, <1>2, <1>3

LEMMA InitBInv ==
  ASSUME Init
  PROVE  BInv
<1>1. ToSet(alloc) = {}
  BY DEF Init, ToSet
<1>2. Full = {} /\ \A r \in Receivers : ~Busy(r)
  BY <1>1 DEF Full, Init, IdleReceiver, Busy
<1>3. \A t \in Takers : taker[t].data = <<>> /\ ~Holding(t)
  BY DEF Init, IdleTaker, Holding
<1>4. DataOK
  BY <1>3 DEF DataOK, IsInjective, ToSet
<1> QED BY <1>2, <1>3, <1>4 DEF BInv, CallbacksOK, FullOK, TakesOK

(* A callback that leaves the full items alone does not disturb the takes. *)
LEMMA TakesKept ==
  ASSUME BInv, UNCHANGED taker, Full \subseteq Full',
         \A b \in Full : buffer'[b] = buffer[b]
  PROVE  TakesOK'
BY DEF BInv, TakesOK, Holding

LEMMA RefuseBInv ==
  ASSUME TInv, TInv', BInv, NEW r \in Receivers, NEW e \in Entities, Refuse(r, e)
  PROVE  BInv'
<1>1. UNCHANGED <<alloc, buffer, receiver, taker>>
  BY DEF Refuse
<1>2. Messages \subseteq Messages' /\ \A m \in Messages : arrivals'[m] = arrivals[m]
  BY ArrivalGrows DEF Refuse
<1>3. Full' = Full
  BY <1>1 DEF Full, Filling
<1>4. \A s \in Receivers : Busy(s)' <=> Busy(s)
  BY <1>1 DEF Busy
<1>5. \A s \in Receivers : Busy(s) => receiver[s].msg \in Messages
  BY DEF TInv, Working, Busy
<1>6. CallbacksOK'
  BY <1>1, <1>2, <1>4, <1>5 DEF BInv, CallbacksOK
<1>7. FullOK'
  BY <1>1, <1>2, <1>3, <1>4 DEF BInv, FullOK
<1>8. TakesOK'
  BY <1>1, <1>3, TakesKept
<1>9. DataOK'
  BY <1>1, <1>2, <1>3, <1>4 DEF BInv, DataOK
<1> QED BY <1>6, <1>7, <1>8, <1>9 DEF BInv

LEMMA AcceptBInv ==
  ASSUME TInv, TInv', BInv, NEW r \in Receivers, NEW e \in Entities, Accept(r, e)
  PROVE  BInv'
<1> DEFINE b == Head(free)
           new == Len(arrivals) + 1
<1>1. /\ UNCHANGED <<buffer, taker>> /\ ~Busy(r)
      /\ b \notin ToSet(alloc) /\ ToSet(alloc') = ToSet(alloc) \cup {b}
      /\ \A s \in Receivers \ {r} : receiver'[s] = receiver[s]
      /\ receiver'[r].pc = "owner" /\ receiver'[r].buf = b /\ receiver'[r].msg = new
  BY GetMoves DEF Accept, Busy, TInv, Types
<1>2. /\ Messages \subseteq Messages' /\ \A m \in Messages : arrivals'[m] = arrivals[m]
      /\ \A m \in Messages : m # new
  BY ArrivalGrows DEF Accept, Messages
<1> HIDE DEF b, new
<1>3. \A s \in Receivers \ {r} : Busy(s)' <=> Busy(s)
  BY <1>1 DEF Busy
<1>4. Full' = Full
  <2>1. Busy(r)'
    BY <1>1 DEF Busy
  <2>2. \A c : c \in Full <=>
               /\ c \in ToSet(alloc)
               /\ \A s \in Receivers : Busy(s) => receiver[s].buf # c
    BY FullItems
  <2>3. \A c : c \in Full' <=>
               /\ c \in ToSet(alloc')
               /\ \A s \in Receivers : Busy(s)' => receiver'[s].buf # c
    BY FullItems
  <2>4. \A c : c \in Full <=> c \in Full'
    BY <1>1, <1>3, <2>1, <2>2, <2>3
  <2> QED BY <2>4
<1>5. \A s \in Receivers : Busy(s) => /\ receiver[s].msg \in Messages
                                    /\ receiver[s].buf \in ToSet(alloc)
  BY DEF TInv, Working, Busy, BInv, CallbacksOK
<1>6. CallbacksOK'
  BY <1>1, <1>2, <1>3, <1>5 DEF BInv, CallbacksOK
<1>7. FullOK'
  BY <1>1, <1>2, <1>3, <1>4 DEF BInv, FullOK
<1>8. TakesOK'
  BY <1>1, <1>4, TakesKept
<1>9. DataOK'
  BY <1>1, <1>2, <1>3, <1>4 DEF BInv, DataOK
<1> QED BY <1>6, <1>7, <1>8, <1>9 DEF BInv

LEMMA WriteBInv ==
  ASSUME TInv, TInv', BInv, NEW r \in Receivers,
         WriteOwner(r) \/ WriteHeader(r) \/ CopyInto(r) \/ CopyFails(r)
  PROVE  BInv'
<1> DEFINE b == receiver[r].buf
           m == receiver[r].msg
<1>1. PICK from \in {"owner", "header", "payload"}, to \in {"header", "payload", "signal", "put"} :
         CallbackStep(r, from, to)
  BY DEF WriteOwner, WriteHeader, CopyInto, CopyFails
<1>2. /\ Busy(r) /\ Busy(r)' /\ UNCHANGED <<alloc, arrivals, taker>>
      /\ receiver'[r].buf = b /\ receiver'[r].msg = m
      /\ \A s \in Receivers \ {r} : receiver'[s] = receiver[s]
  BY <1>1, CallbackMoves DEF Busy
<1>3. b \in Items /\ m \in Messages
  BY <1>2 DEF TInv, Working, Busy
<1>4. \A c \in Items \ {b} : buffer'[c] = buffer[c]
  BY <1>3, OwnerWritten, HeaderWritten, PayloadWritten
  DEF WriteOwner, WriteHeader, CopyInto, CopyFails
<1>5. /\ receiver'[r].pc # "owner" => buffer'[b].owner = arrivals[m]
      /\ receiver'[r].pc \in {"payload", "signal", "put"} => buffer'[b].header = m
      /\ receiver'[r].pc = "signal" => buffer'[b].payload = m
  <2>1. CASE WriteOwner(r)
    <3>1. receiver'[r].pc = "header"
      BY <2>1, CallbackMoves DEF WriteOwner
    <3>2. buffer'[b].owner = arrivals[m]
      BY <1>3, <2>1, OwnerWritten DEF WriteOwner
    <3> QED BY <3>1, <3>2
  <2>2. CASE WriteHeader(r)
    <3>1. receiver[r].pc = "header" /\ receiver'[r].pc = "payload"
      BY <2>2, CallbackMoves DEF WriteHeader
    <3>2. buffer'[b].owner = buffer[b].owner /\ buffer'[b].header = m
      BY <1>3, <2>2, HeaderWritten DEF WriteHeader
    <3> QED BY <1>2, <3>1, <3>2 DEF BInv, CallbacksOK
  <2>3. CASE CopyInto(r)
    <3>1. receiver[r].pc = "payload" /\ receiver'[r].pc = "signal"
      BY <2>3, CallbackMoves DEF CopyInto
    <3>2. /\ buffer'[b].owner = buffer[b].owner /\ buffer'[b].header = buffer[b].header
          /\ buffer'[b].payload = m
      BY <1>3, <2>3, PayloadWritten DEF CopyInto
    <3> QED BY <1>2, <3>1, <3>2 DEF BInv, CallbacksOK
  <2>4. CASE CopyFails(r)
    BY <1>2, <1>3, <2>4, CallbackMoves DEF CopyFails, BInv, CallbacksOK, Busy
  <2> QED BY <2>1, <2>2, <2>3, <2>4
<1> HIDE DEF b, m
<1>6. /\ Messages' = Messages
      /\ \A s \in Receivers : /\ Busy(s)' <=> Busy(s)
                            /\ receiver'[s].buf = receiver[s].buf
                            /\ receiver'[s].msg = receiver[s].msg
  BY <1>2 DEF Busy, Messages, b, m
<1>7. Full' = Full /\ b \notin Full /\ Full \subseteq Items
  BY <1>2, <1>6, FullItems, SMTT(30) DEF b
<1>8. CallbacksOK'
  <2> SUFFICES ASSUME NEW s \in Receivers, Busy(s)'
               PROVE  /\ receiver'[s].buf \in ToSet(alloc')
                      /\ receiver'[s].pc # "owner" =>
                            buffer'[receiver'[s].buf].owner = arrivals'[receiver'[s].msg]
                      /\ receiver'[s].pc \in {"payload", "signal", "put"} =>
                            buffer'[receiver'[s].buf].header = receiver'[s].msg
                      /\ receiver'[s].pc = "signal" =>
                            buffer'[receiver'[s].buf].payload = receiver'[s].msg
                      /\ \A q \in Receivers \ {s} : Busy(q)' =>
                            receiver'[q].buf # receiver'[s].buf /\ receiver'[q].msg # receiver'[s].msg
    BY DEF CallbacksOK
  <2>1. CASE s = r
    BY <1>2, <1>5, <1>6, <2>1 DEF BInv, CallbacksOK, b, m
  <2>2. CASE s # r
    <3>1. receiver[s].buf # b /\ receiver[s].buf \in Items
      BY <1>2, <1>6, <2>2 DEF BInv, CallbacksOK, b, TInv, Working, Busy
    <3> QED BY <1>2, <1>4, <1>6, <2>2, <3>1 DEF BInv, CallbacksOK
  <2> QED BY <2>1, <2>2
<1>9. FullOK'
  BY <1>2, <1>4, <1>6, <1>7 DEF BInv, FullOK
<1>10. TakesOK'
  BY <1>2, <1>4, <1>7, TakesKept
<1>11. DataOK'
  BY <1>2, <1>4, <1>6, <1>7 DEF BInv, DataOK
<1> QED BY <1>8, <1>9, <1>10, <1>11 DEF BInv

LEMMA PutBackBInv ==
  ASSUME TInv, TInv', BInv, NEW r \in Receivers, PutBack(r)
  PROVE  BInv'
<1> DEFINE b == receiver[r].buf
<1>1. /\ UNCHANGED <<buffer, arrivals, taker>> /\ Busy(r) /\ ~Busy(r)'
      /\ ToSet(alloc') = ToSet(alloc) \ {b}
      /\ \A s \in Receivers \ {r} : receiver'[s] = receiver[s]
  BY PutMoves DEF PutBack, Busy, TInv, Types, IdleReceiver
<1>2. \A s \in Receivers \ {r} :
         /\ Busy(s)' <=> Busy(s)
         /\ Busy(s) => receiver[s].buf # b
  BY <1>1 DEF Busy, BInv, CallbacksOK
<1>3. Messages' = Messages
  BY <1>1 DEF Messages
<1> HIDE DEF b
<1>4. Full' = Full
  <2>1. \A c : c \in Full <=>
               /\ c \in ToSet(alloc)
               /\ \A s \in Receivers : Busy(s) => receiver[s].buf # c
    BY FullItems
  <2>2. \A c : c \in Full' <=>
               /\ c \in ToSet(alloc')
               /\ \A s \in Receivers : Busy(s)' => receiver'[s].buf # c
    BY FullItems
  <2>3. \A c : c \in Full <=> c \in Full'
    BY <1>1, <1>2, <2>1, <2>2 DEF b
  <2> QED BY <2>3
<1>5. CallbacksOK'
  BY <1>1, <1>2, <1>3 DEF BInv, CallbacksOK
<1>6. FullOK'
  BY <1>1, <1>2, <1>3, <1>4 DEF BInv, FullOK
<1>7. TakesOK'
  BY <1>1, <1>4, TakesKept
<1>8. DataOK'
  BY <1>1, <1>2, <1>3, <1>4 DEF BInv, DataOK
<1> QED BY <1>5, <1>6, <1>7, <1>8 DEF BInv

(* The end of a callback that copied its message: one more item is full. *)
LEMMA SignalBInv ==
  ASSUME TInv, TInv', BInv, NEW r \in Receivers, Signal(r)
  PROVE  BInv'
<1> DEFINE b == receiver[r].buf
           m == receiver[r].msg
<1>1. /\ UNCHANGED <<alloc, buffer, arrivals, taker>> /\ Busy(r) /\ ~Busy(r)'
      /\ receiver[r].pc = "signal"
      /\ \A s \in Receivers \ {r} : receiver'[s] = receiver[s]
  BY DEF Signal, Busy, TInv, Types, IdleReceiver
<1>2. \A s \in Receivers \ {r} :
         /\ Busy(s)' <=> Busy(s)
         /\ Busy(s) => receiver[s].buf # b /\ receiver[s].msg # m
  BY <1>1 DEF Busy, BInv, CallbacksOK
<1>3. Messages' = Messages /\ m \in Messages
  BY <1>1 DEF Messages, TInv, Working, Busy
<1>4. /\ b \in ToSet(alloc) /\ buffer[b].owner = arrivals[m]
      /\ buffer[b].header = m /\ buffer[b].payload = m
  BY <1>1 DEF BInv, CallbacksOK
<1> HIDE DEF b, m
<1>5. Full' = Full \cup {b} /\ b \notin Full
  <2>1. \A c : c \in Full <=>
               /\ c \in ToSet(alloc)
               /\ \A s \in Receivers : Busy(s) => receiver[s].buf # c
    BY FullItems
  <2>2. \A c : c \in Full' <=>
               /\ c \in ToSet(alloc')
               /\ \A s \in Receivers : Busy(s)' => receiver'[s].buf # c
    BY FullItems
  <2>3. \A c : c \in Full' <=> c \in Full \cup {b}
    BY <1>1, <1>2, <1>4, <2>1, <2>2 DEF b
  <2>4. b \notin Full
    BY <1>1, <2>1 DEF b
  <2> QED BY <2>3, <2>4
<1>6. CallbacksOK'
  BY <1>1, <1>2 DEF BInv, CallbacksOK
<1>7. \A c \in Full : buffer[c].payload # m
  BY <1>1 DEF BInv, FullOK, m
<1>8. FullOK'
  BY <1>1, <1>2, <1>3, <1>4, <1>5, <1>7 DEF BInv, FullOK
<1>9. TakesOK'
  BY <1>1, <1>5, TakesKept
<1>10. DataOK'
  <2>1. \A t \in Takers : \A k \in ToSet(taker[t].data) : k # m
    BY <1>1 DEF BInv, DataOK, m
  <2> QED BY <1>1, <1>2, <1>3, <1>4, <1>5, <2>1 DEF BInv, DataOK
<1> QED BY <1>6, <1>8, <1>9, <1>10 DEF BInv

LEMMA ReceiveBInv ==
  ASSUME TInv, TInv', BInv, NEW r \in Receivers, Receive(r)
  PROVE  BInv'
BY RefuseBInv, AcceptBInv, WriteBInv, PutBackBInv, SignalBInv DEF Receive, Callback

-----------------------------------------------------------------------------
(* A take runs while no callback does: every item of the list is full. *)
LEMMA TakeBInv ==
  ASSUME CallbacksFirst, OwnEntities, TInv, TInv', BInv, NEW t \in Takers,
         (\E e \in Serves[t], n \in Counts : TakeFind(t, e, n)) \/ Take(t)
  PROVE  BInv'
<1>1. AppMayRun
  BY DEF TakeFind, Take, TakeHeader, TakePayload, TakePut, TakeNext, TakeReturn
<1>2. \A r \in Receivers : ~Busy(r)
  BY <1>1 DEF AppMayRun, CallbacksFirst, Busy
<1>3. Full = ToSet(alloc)
  BY <1>2, FullItems
<1>4. ASSUME Moves(t) PROVE Full' = ToSet(alloc') /\ CallbacksOK'
  <2>1. \A r \in Receivers : ~Busy(r)'
    BY <1>2, <1>4 DEF Moves, Busy
  <2>2. Full' = ToSet(alloc')
    BY <2>1, FullItems
  <2> QED BY <2>1, <2>2 DEF CallbacksOK
<1>5. ASSUME Moves(t), UNCHANGED alloc, IsInjective(taker'[t].data),
             \A m \in ToSet(taker'[t].data) :
                m \in ToSet(taker[t].data) /\ taker'[t].entity = taker[t].entity,
             Holding(t)' =>
               /\ taker'[t].buf \in ToSet(alloc)
               /\ buffer[taker'[t].buf].owner = taker'[t].entity
               /\ taker'[t].pc # "header" => taker'[t].header = buffer[taker'[t].buf].header
               /\ taker'[t].pc = "put" => taker'[t].payload = buffer[taker'[t].buf].payload
      PROVE  BInv'
  <2>1. CallbacksOK' /\ Full' = Full /\ UNCHANGED <<buffer, arrivals, receiver>>
    BY <1>3, <1>4, <1>5 DEF Moves
  <2>2. FullOK'
    BY <2>1 DEF BInv, FullOK, Messages, Busy
  <2>3. TakesOK'
    BY <1>3, <1>5, <2>1 DEF BInv, TakesOK, Moves, Holding
  <2>4. DataOK'
    BY <1>5, <2>1 DEF BInv, DataOK, Moves, Messages, Busy
  <2> QED BY <2>1, <2>2, <2>3, <2>4 DEF BInv
<1>6. taker[t] \in TakerType /\ IsInjective(taker[t].data)
  BY DEF TInv, Types, BInv, DataOK
<1>7. ASSUME NEW e \in Serves[t], NEW n \in Counts, TakeFind(t, e, n) PROVE BInv'
  BY <1>5, <1>7, TakeFindMoves DEF Holding, IsInjective, ToSet
<1>8. CASE TakeHeader(t)
  <2>1. /\ Moves(t) /\ UNCHANGED <<alloc, free>> /\ taker[t].pc = "header"
        /\ taker'[t].pc = "payload" /\ taker'[t].header = buffer[taker[t].buf].header
        /\ taker'[t].buf = taker[t].buf /\ taker'[t].entity = taker[t].entity
        /\ taker'[t].data = taker[t].data
    BY <1>6, <1>8, TakeHeaderMoves DEF TakerType
  <2>2. taker[t].buf \in Full /\ buffer[taker[t].buf].owner = taker[t].entity
    BY <2>1 DEF BInv, TakesOK, Holding
  <2> QED BY <1>3, <1>5, <1>6, <2>1, <2>2 DEF Holding
<1>9. CASE TakePayload(t)
  <2>1. /\ Moves(t) /\ UNCHANGED <<alloc, free>> /\ taker[t].pc = "payload"
        /\ taker'[t].pc = "put" /\ taker'[t].payload = buffer[taker[t].buf].payload
        /\ taker'[t].buf = taker[t].buf /\ taker'[t].entity = taker[t].entity
        /\ taker'[t].data = taker[t].data /\ taker'[t].header = taker[t].header
    BY <1>6, <1>9, TakePayloadMoves DEF TakerType
  <2>2. /\ taker[t].buf \in Full /\ buffer[taker[t].buf].owner = taker[t].entity
        /\ taker[t].header = buffer[taker[t].buf].header
    BY <2>1 DEF BInv, TakesOK, Holding
  <2> QED BY <1>3, <1>5, <1>6, <2>1, <2>2 DEF Holding
<1>10. CASE TakePut(t)
  <2> DEFINE b == taker[t].buf
             m == taker[t].payload
  <2>1. Moves(t) /\ taker[t].pc = "put" /\ ToSet(alloc') = ToSet(alloc) \ {b}
    BY <1>10, TakePutMoves, PutMoves DEF TInv
  <2>2. /\ b \in Full /\ buffer[b].owner = taker[t].entity /\ buffer[b].payload = m
        /\ m \in Messages /\ arrivals[m] = taker[t].entity
    BY <2>1 DEF BInv, TakesOK, FullOK, Holding
  <2>3. \/ taker'[t].data = taker[t].data
        \/ taker'[t].data = Append(taker[t].data, m)
    BY <1>6, <1>10, TakePutMoves DEF TakerType
  <2>4. taker'[t].entity = taker[t].entity /\ ~Holding(t)'
    BY <1>6, <1>10, TakePutMoves, ZenonT(30) DEF TakerType, Holding
  <2>5. CallbacksOK' /\ Full' = Full \ {b} /\ UNCHANGED <<buffer, arrivals, receiver>>
    BY <1>3, <1>4, <2>1 DEF Moves
  <2>6. \A c \in Full \ {b} : buffer[c].payload # m
    BY <2>2 DEF BInv, FullOK
  <2> HIDE DEF b, m
  <2>7. FullOK'
    BY <2>5 DEF BInv, FullOK, Messages, Busy
  <2>8. TakesOK'
    <3>1. ASSUME NEW u \in Takers \ {t}, Holding(u) PROVE taker[u].buf # b
      <4>1. taker[u].entity \in Serves[u] /\ taker[t].entity \in Serves[t]
        BY <2>1, <3>1 DEF TInv, Working, RoundOK, Holding
      <4>2. taker[u].entity # taker[t].entity
        BY <4>1 DEF OwnEntities
      <4> QED BY <2>2, <3>1, <4>2 DEF BInv, TakesOK
    <3> QED BY <2>1, <2>4, <2>5, <3>1 DEF BInv, TakesOK, Moves, Holding
  <2>9. DataOK'
    <3>1. m \notin ToSet(taker[t].data)
      BY <2>2 DEF BInv, DataOK
    <3>2. /\ IsInjective(taker'[t].data)
          /\ ToSet(taker'[t].data) \subseteq ToSet(taker[t].data) \cup {m}
      <4>1. taker[t].data \in Seq(0..Len(arrivals)) /\ m \in 0..Len(arrivals)
        BY <1>6 DEF TakerType, DataType, m
      <4>2. /\ ToSet(Append(taker[t].data, m)) = ToSet(taker[t].data) \cup {m}
            /\ IsInjective(Append(taker[t].data, m))
        BY <1>6, <3>1, <4>1, AppendItem
      <4> QED BY <1>6, <2>3, <4>2
    <3>3. \A k \in ToSet(taker'[t].data) : \A c \in Full \ {b} : buffer[c].payload # k
      BY <2>6, <3>2 DEF BInv, DataOK
    <3> QED BY <1>2, <2>1, <2>2, <2>4, <2>5, <3>2, <3>3 DEF BInv, DataOK, Moves, Messages, Busy
  <2> QED BY <2>5, <2>7, <2>8, <2>9 DEF BInv
<1>11. CASE TakeNext(t)
  <2>1. Moves(t) /\ UNCHANGED <<alloc, free>> /\ taker[t].pc = "next"
    BY <1>11, TakeNextMoves
  <2>2. CASE taker'[t] = [taker[t] EXCEPT !.pc = "return", !.ret = "error"]
    <3>1. ~Holding(t)' /\ taker'[t].data = taker[t].data /\ taker'[t].entity = taker[t].entity
      BY <1>6, <2>2 DEF Holding, TakerType
    <3> QED BY <1>5, <1>6, <2>1, <3>1
  <2>3. ASSUME NEW found \in ToSet(alloc), buffer[found].owner = taker[t].entity,
               taker'[t] = [taker[t] EXCEPT !.pc = "header", !.buf = found]
        PROVE  BInv'
    <3>1. /\ taker'[t].pc = "header" /\ taker'[t].buf = found
          /\ taker'[t].data = taker[t].data /\ taker'[t].entity = taker[t].entity
      BY <1>6, <2>3 DEF Holding, TakerType
    <3> QED BY <1>5, <1>6, <2>1, <2>3, <3>1
  <2> QED BY <1>11, <2>2, <2>3, TakeNextMoves
<1>12. CASE TakeReturn(t)
  BY <1>5, <1>12, TakeReturnMoves DEF IdleTaker, Holding, IsInjective, ToSet
<1> QED BY <1>7, <1>8, <1>9, <1>10, <1>11, <1>12 DEF Take

LEMMA NextBInv ==
  ASSUME CallbacksFirst, OwnEntities, TInv, BInv, [Next]_vars
  PROVE  TInv' /\ BInv'
<1>1. TInv'
  BY NextTInv
<1>2. ASSUME NEW r \in Receivers, Receive(r) PROVE BInv'
  BY <1>1, <1>2, ReceiveBInv
<1>3. ASSUME NEW t \in Takers,
             (\E e \in Serves[t], n \in Counts : TakeFind(t, e, n)) \/ Take(t)
      PROVE  BInv'
  BY <1>1, <1>3, TakeBInv
<1>4. CASE UNCHANGED vars
  <2>1. Full' = Full
    BY <1>4 DEF vars, Full, Filling
  <2>2. CallbacksOK' /\ FullOK'
    BY <1>4, <2>1 DEF vars, BInv, CallbacksOK, FullOK, Messages, Busy
  <2>3. TakesOK'
    BY <1>4, <2>1 DEF vars, BInv, TakesOK, Holding
  <2>4. DataOK'
    BY <1>4, <2>1 DEF vars, BInv, DataOK, Messages, Busy
  <2> QED BY <1>1, <2>2, <2>3, <2>4 DEF BInv
<1> QED BY <1>1, <1>2, <1>3, <1>4 DEF Next

LEMMA AlwaysBInv ==
  ASSUME CallbacksFirst, OwnEntities
  PROVE  Spec => [](TInv /\ BInv)
<1>1. Init => TInv /\ BInv
  BY InitTInv, InitBInv
<1>2. TInv /\ BInv /\ [Next]_vars => (TInv /\ BInv)'
  BY NextBInv
<1> QED BY <1>1, <1>2, PTL DEF Spec

-----------------------------------------------------------------------------
(* What the runs check *)

LEMMA FullItemIsStored ==
  ASSUME TInv, BInv, NEW b \in Full
  PROVE  Stored(b, buffer[b].payload)
<1>1. b \in Items
  BY DEF Full, TInv, PoolOK
<1> QED BY <1>1 DEF BInv, FullOK, Stored, TInv, Types, BufferType

LEMMA PutsOfInv == TInv /\ BInv => PutFromAllocated
BY DEF BInv, CallbacksOK, TakesOK, Full, Busy, Holding, PutFromAllocated

(* put_memory is called for items of the allocated list only, so that none *)
(* is put on the free list twice.                                          *)
THEOREM PutsAllocated ==
  ASSUME CallbacksFirst, OwnEntities
  PROVE  Spec => []PutFromAllocated
BY PutsOfInv, AlwaysBInv, PTL

(* No item is in the hands of two threads. *)
THEOREM OneOwner ==
  ASSUME CallbacksFirst, OwnEntities
  PROVE  Spec => []Exclusive
<1>1. ASSUME TInv, BInv PROVE Exclusive
  <2>1. \A r, s \in Receivers : receiver[r].buf = receiver[s].buf =>
                                   receiver[r].buf = NoBuffer \/ r = s
    BY <1>1 DEF TInv, Working, BInv, CallbacksOK, Busy
  <2>2. ASSUME NEW t \in Takers, taker[t].buf # NoBuffer
        PROVE  /\ Holding(t) /\ taker[t].buf \in Full /\ taker[t].entity \in Serves[t]
               /\ buffer[taker[t].buf].owner = taker[t].entity
    BY <1>1, <2>2 DEF TInv, Working, RoundOK, Holding, BInv, TakesOK
  <2>3. Filling \cap Reading = {}
    BY <2>2 DEF Full, Reading
  <2>4. \A t, u \in Takers : taker[t].buf = taker[u].buf => taker[t].buf = NoBuffer \/ t = u
    BY <2>2 DEF OwnEntities
  <2> QED BY <2>1, <2>3, <2>4 DEF Exclusive
<1> QED BY <1>1, AlwaysBInv, PTL

LEMMA LeaksOfInv == ASSUME TInv, BInv PROVE NoLeak
<1> SUFFICES ASSUME NEW b \in Items \ ToSet(free), b \notin Filling
             PROVE  b \in ToSet(alloc) /\ \E m \in Messages : Stored(b, m)
  BY DEF NoLeak
<1>1. b \in Full
  BY DEF TInv, PoolOK, Full
<1> QED BY <1>1, FullItemIsStored DEF Full, Stored

(* No item is lost: what is not free is in use, or holds a message. *)
THEOREM NothingLost ==
  ASSUME CallbacksFirst, OwnEntities
  PROVE  Spec => []NoLeak
BY LeaksOfInv, AlwaysBInv, PTL

(* A take hands out whole messages of its entity. *)
THEOREM TakesAreIntact ==
  ASSUME CallbacksFirst, OwnEntities
  PROVE  Spec => []Intact
<1>1. TInv /\ BInv => Intact
  BY DEF BInv, TakesOK, FullOK, Holding, Intact
<1> QED BY <1>1, AlwaysBInv, PTL

(* No message is taken twice. *)
THEOREM TakenAtMostOnce ==
  ASSUME CallbacksFirst, OwnEntities
  PROVE  Spec => []TakenOnce
<1>1. TInv /\ BInv => TakenOnce
  BY DEF BInv, DataOK, Full, Stored, TakenOnce
<1> QED BY <1>1, AlwaysBInv, PTL
=============================================================================
