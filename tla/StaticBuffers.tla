---------------------------- MODULE StaticBuffers ----------------------------
(***************************************************************************)
(* The life of a received message: embeddedRTPS's reader threads run the   *)
(* callbacks of callbacks.cpp, which copy each message into an item of     *)
(* static_buffer_memory; application threads run rmw_take_with_info,       *)
(* rmw_take_sequence, rmw_take_request or rmw_take_response, which find an *)
(* item by its owner, read it and give it back.                            *)
(*                                                                         *)
(* Only get_memory, put_memory and rmw_ertps_find_static_input_buffer_     *)
(* by_owner lock the pool.  The fields of an item are written and read     *)
(* without a lock, so a callback and a take are sequences of steps.        *)
(*                                                                         *)
(* The repository does not say how the threads are scheduled, so that is a *)
(* parameter: with AppPreempts an application thread may run between two   *)
(* steps of a callback (several cores, time slices, or the lower priority  *)
(* for the reader threads); without it the reader threads have the higher  *)
(* priority on one core, and a callback ends before a take goes on.        *)
(***************************************************************************)
EXTENDS ItemPool, FiniteSetsExt

CONSTANTS
    Entities,       \* subscriptions, services and clients: the owners
    Receivers,      \* reader threads of embeddedRTPS
    Takers,         \* application threads
    Serves,         \* the entities each application thread takes from
    AppPreempts,    \* may a taker run in the middle of a callback?
    Oversize,       \* may a message exceed RMW_ERTPS_MAX_INPUT_BUFFER_SIZE?
    Counts,         \* for how many messages a take may ask
    MaxArrivals,    \* bound on the number of messages that arrive
    NoEntity, NoBuffer

ASSUME BuffersAssumption ==
    /\ IsFiniteSet(Items)
    /\ Serves \in [Takers -> SUBSET Entities]
    /\ AppPreempts \in BOOLEAN /\ Oversize \in BOOLEAN
    /\ Counts \subseteq Nat \ {0}
    /\ MaxArrivals \in Nat
    /\ NoEntity \notin Entities /\ NoBuffer \notin Items

VARIABLES
    buffer,         \* rmw_ertps_static_input_buffer_t of each item
    arrivals,       \* the entity each message so far was for, by message
    receiver,       \* what each reader thread is doing
    taker,          \* what each application thread is doing
    sem             \* rmw_wait_sem

vars == <<alloc, free, buffer, arrivals, receiver, taker, sem>>

Messages == 1..Len(arrivals)

IdleReceiver == [pc |-> "idle", msg |-> 0, buf |-> NoBuffer]
IdleTaker    == [pc |-> "idle", entity |-> NoEntity, buf |-> NoBuffer,
                 header |-> 0, payload |-> 0,
                 count |-> 0, data |-> <<>>, ret |-> "ok"]

-----------------------------------------------------------------------------
(* After rmw_init: every item is free (they are alike, so their order does *)
(* not matter), the arrays are still zero and sys_sem_new(&rmw_wait_sem,   *)
(* 0) made the semaphore.                                                  *)
Init ==
    /\ alloc = <<>>
    /\ free = SetToSeq(Items)
    /\ buffer = [b \in Items |-> [owner |-> NoEntity, header |-> 0, payload |-> 0]]
    /\ arrivals = <<>>
    /\ receiver = [r \in Receivers |-> IdleReceiver]
    /\ taker = [t \in Takers |-> IdleTaker]
    /\ sem = 0

(* Broken on purpose: the oldest item of the owner. *)
FindByOwnerOldest(e) ==
    LET hits == {k \in DOMAIN alloc : buffer[alloc[k]].owner = e}
    IN  IF hits = {} THEN NoBuffer ELSE alloc[Max(hits)]

(* The first item of the allocated list that has this owner: the list is   *)
(* walked under the pool's mutex.                                          *)
FindByOwner(e) ==
    LET hits == {k \in DOMAIN alloc : buffer[alloc[k]].owner = e}
    IN  IF hits = {} THEN NoBuffer ELSE alloc[Min(hits)]

-----------------------------------------------------------------------------
(* A callback, in thread r.  get_memory returns an item, or NULL and the   *)
(* message is refused.                                                     *)
Refuse(r, e) ==
    /\ receiver[r].pc = "idle"
    /\ Len(arrivals) < MaxArrivals
    /\ free = <<>>
    /\ arrivals' = Append(arrivals, e)
    /\ UNCHANGED <<alloc, free, buffer, receiver, taker, sem>>

Accept(r, e) ==
    /\ receiver[r].pc = "idle"
    /\ Len(arrivals) < MaxArrivals
    /\ free # <<>>
    /\ Get(Head(free))
    /\ arrivals' = Append(arrivals, e)
    /\ receiver' = [receiver EXCEPT ![r] =
                      [pc |-> "owner", msg |-> Len(arrivals) + 1, buf |-> Head(free)]]
    /\ UNCHANGED <<buffer, taker, sem>>

(* The callback goes from one step to another that leaves the pool alone. *)
CallbackStep(r, from, to) ==
    /\ receiver[r].pc = from
    /\ receiver' = [receiver EXCEPT ![r].pc = to]
    /\ UNCHANGED <<alloc, free, arrivals, taker>>

(* Broken on purpose: the item stays with the owner of its last message. *)
WriteOwnerNot(r) == CallbackStep(r, "owner", "header") /\ UNCHANGED <<buffer, sem>>

(* static_buffer->owner = element *)
WriteOwner(r) ==
    /\ CallbackStep(r, "owner", "header")
    /\ buffer' = [buffer EXCEPT ![receiver[r].buf].owner = arrivals[receiver[r].msg]]
    /\ UNCHANGED sem

(* Broken on purpose: the header stays the one of the last message. *)
WriteHeaderNot(r) == CallbackStep(r, "header", "payload") /\ UNCHANGED <<buffer, sem>>

(* length, writer_guid, sequence_number and the two related_ fields *)
WriteHeader(r) ==
    /\ CallbackStep(r, "header", "payload")
    /\ buffer' = [buffer EXCEPT ![receiver[r].buf].header = receiver[r].msg]
    /\ UNCHANGED sem

(* copyInto copies a message that fits, and nothing of one that does not. *)
CopyInto(r) ==
    /\ CallbackStep(r, "payload", "signal")
    /\ buffer' = [buffer EXCEPT ![receiver[r].buf].payload = receiver[r].msg]
    /\ UNCHANGED sem

\* Broken on purpose: the callback returns and keeps the item.
CopyFailsLeaks(r) ==
    /\ Oversize
    /\ receiver[r].pc = "payload"
    /\ receiver' = [receiver EXCEPT ![r] = IdleReceiver]
    /\ UNCHANGED <<alloc, free, buffer, arrivals, taker, sem>>

CopyFails(r) ==
    /\ Oversize
    /\ CallbackStep(r, "payload", "put")
    /\ UNCHANGED <<buffer, sem>>

(* Broken on purpose: put_memory once more after the message is dropped. *)
PutBackTwice(r) ==
    /\ receiver[r].pc = "put"
    /\ Put(receiver[r].buf)
    /\ UNCHANGED <<buffer, arrivals, receiver, taker, sem>>

(* put_memory in the callback: the message is dropped, the item keeps its  *)
(* owner and its header.                                                   *)
PutBack(r) ==
    /\ receiver[r].pc = "put"
    /\ Put(receiver[r].buf)
    /\ receiver' = [receiver EXCEPT ![r] = IdleReceiver]
    /\ UNCHANGED <<buffer, arrivals, taker, sem>>

(* sys_sem_signal: lwIP's ports give a binary semaphore. *)
Signal(r) ==
    /\ receiver[r].pc = "signal"
    /\ sem' = 1
    /\ receiver' = [receiver EXCEPT ![r] = IdleReceiver]
    /\ UNCHANGED <<alloc, free, buffer, arrivals, taker>>

Callback(r) ==
    \/ WriteOwner(r) \/ WriteHeader(r)
    \/ CopyInto(r) \/ CopyFails(r) \/ PutBack(r) \/ Signal(r)

-----------------------------------------------------------------------------
AppMayRun == AppPreempts \/ \A r \in Receivers : receiver[r].pc = "idle"

(* Broken on purpose: the loop of rmw_take_sequence runs once too often. *)
TakenTooMany(t) ==
    taker' = [taker EXCEPT
                ![t].pc = IF Len(taker[t].data) = taker[t].count
                          THEN "return" ELSE "next",
                ![t].buf = NoBuffer,
                ![t].data = Append(@, taker[t].payload)]

(* The round is over and its message, if cdr_deserialize accepted it, is   *)
(* in data, whose length is *taken.  The call ends after count messages or *)
(* the first failure.                                                      *)
Taken(t) ==
    taker' = [taker EXCEPT
                ![t].pc = IF Len(taker[t].data) + 1 = taker[t].count
                          THEN "return" ELSE "next",
                ![t].buf = NoBuffer,
                ![t].data = Append(@, taker[t].payload)]

Failed(t) ==
    taker' = [taker EXCEPT ![t].pc = "return", ![t].buf = NoBuffer, ![t].ret = "error"]

(* Broken on purpose: the item is given back before it is read. *)
TakeFindPuts(t, e, n) ==
    /\ AppMayRun
    /\ taker[t].pc = "idle"
    /\ FindByOwner(e) # NoBuffer
    /\ Put(FindByOwner(e))
    /\ taker' = [taker EXCEPT ![t] = [IdleTaker EXCEPT !.pc = "header", !.entity = e,
                                         !.count = n, !.buf = FindByOwner(e)]]
    /\ UNCHANGED <<buffer, arrivals, receiver, sem>>

(* A call that asks for n messages of e, in thread t: rmw_take_sequence,   *)
(* or with n = 1 rmw_take, rmw_take_with_info, rmw_take_request and        *)
(* rmw_take_response.  When there is no item for e they return             *)
(* RMW_RET_ERROR and change nothing.                                       *)
TakeFind(t, e, n) ==
    /\ AppMayRun
    /\ taker[t].pc = "idle"
    /\ FindByOwner(e) # NoBuffer
    /\ taker' = [taker EXCEPT ![t] = [IdleTaker EXCEPT !.pc = "header", !.entity = e,
                                         !.count = n, !.buf = FindByOwner(e)]]
    /\ UNCHANGED <<alloc, free, buffer, arrivals, receiver, sem>>

(* The identity of a request or a response, and the length. *)
TakeHeader(t) ==
    /\ AppMayRun
    /\ taker[t].pc = "header"
    /\ taker' = [taker EXCEPT ![t].pc = "payload",
                              ![t].header = buffer[taker[t].buf].header]
    /\ UNCHANGED <<alloc, free, buffer, arrivals, receiver, sem>>

(* Broken on purpose: an early return when cdr_deserialize fails. *)
TakePayloadReturns(t) ==
    /\ AppMayRun
    /\ taker[t].pc = "payload"
    /\ \/ taker' = [taker EXCEPT ![t] = IdleTaker]
       \/ taker' = [taker EXCEPT ![t].pc = "put",
                                 ![t].payload = buffer[taker[t].buf].payload]
    /\ UNCHANGED <<alloc, free, buffer, arrivals, receiver, sem>>

(* cdr_deserialize.  The item goes back whether or not it succeeds. *)
TakePayload(t) ==
    /\ AppMayRun
    /\ taker[t].pc = "payload"
    /\ taker' = [taker EXCEPT ![t].pc = "put",
                              ![t].payload = buffer[taker[t].buf].payload]
    /\ UNCHANGED <<alloc, free, buffer, arrivals, receiver, sem>>

\* Broken on purpose: rmw_take_sequence keeps the item of a message it took.
TakePutLater(t) ==
    /\ AppMayRun
    /\ taker[t].pc = "put"
    /\ Taken(t) \/ Failed(t)
    /\ UNCHANGED <<alloc, free, buffer, arrivals, receiver, sem>>

(* put_memory: again, the item keeps its owner. *)
TakePut(t) ==
    /\ AppMayRun
    /\ taker[t].pc = "put"
    /\ Put(taker[t].buf)
    /\ Taken(t) \/ Failed(t)
    /\ UNCHANGED <<buffer, arrivals, receiver, sem>>

(* Broken on purpose: the loop ends and leaves ret as it is. *)
TakeNextOk(t) ==
    /\ AppMayRun
    /\ taker[t].pc = "next"
    /\ taker' = LET found == FindByOwner(taker[t].entity)
                IN  IF found = NoBuffer
                    THEN [taker EXCEPT ![t].pc = "return"]
                    ELSE [taker EXCEPT ![t].pc = "header", ![t].buf = found]
    /\ UNCHANGED <<alloc, free, buffer, arrivals, receiver, sem>>

(* The next round of rmw_take_sequence.  Without an item it ends with the  *)
(* RMW_RET_ERROR of this round, and *taken counts the rounds before it.    *)
TakeNext(t) ==
    /\ AppMayRun
    /\ taker[t].pc = "next"
    /\ taker' = LET found == FindByOwner(taker[t].entity)
                IN  IF found = NoBuffer
                    THEN [taker EXCEPT ![t].pc = "return", ![t].ret = "error"]
                    ELSE [taker EXCEPT ![t].pc = "header", ![t].buf = found]
    /\ UNCHANGED <<alloc, free, buffer, arrivals, receiver, sem>>

TakeReturn(t) ==
    /\ AppMayRun
    /\ taker[t].pc = "return"
    /\ taker' = [taker EXCEPT ![t] = IdleTaker]
    /\ UNCHANGED <<alloc, free, buffer, arrivals, receiver, sem>>

Take(t) == \/ TakeHeader(t) \/ TakePayload(t) \/ TakePut(t)
           \/ TakeNext(t) \/ TakeReturn(t)

-----------------------------------------------------------------------------
Receive(r) == \/ \E e \in Entities : Refuse(r, e) \/ Accept(r, e)
              \/ Callback(r)

Next ==
    \/ \E r \in Receivers : Receive(r)
    \/ \E t \in Takers : (\E e \in Serves[t], n \in Counts : TakeFind(t, e, n)) \/ Take(t)

Spec == Init /\ [][Next]_vars

-----------------------------------------------------------------------------
(* The values the variables range over. *)
TypeOK ==
    /\ alloc \in Seq(Items) /\ free \in Seq(Items)
    /\ buffer \in [Items -> [owner : Entities \cup {NoEntity},
                             header : 0..Len(arrivals),
                             payload : 0..Len(arrivals)]]
    /\ arrivals \in Seq(Entities) /\ Len(arrivals) <= MaxArrivals
    /\ receiver \in [Receivers ->
                       [pc : {"idle", "owner", "header", "payload", "signal", "put"},
                        msg : 0..Len(arrivals), buf : Items \cup {NoBuffer}]]
    /\ taker \in [Takers ->
                    [pc : {"idle", "header", "payload", "put", "next", "return"},
                     entity : Entities \cup {NoEntity}, buf : Items \cup {NoBuffer},
                     header : 0..Len(arrivals), payload : 0..Len(arrivals),
                     count : Counts \cup {0}, data : Seq(0..Len(arrivals)),
                     ret : {"ok", "error"}]]
    /\ \A t \in Takers : Len(taker[t].data) <= taker[t].count
    /\ sem \in {0, 1}

(* Items a reader thread is filling, items an application thread reads. *)
Filling == {receiver[r].buf : r \in Receivers} \ {NoBuffer}
Reading == {taker[t].buf : t \in Takers} \ {NoBuffer}

(* put_memory unlinks an item from the allocated list and nothing else     *)
(* ("Gets item from allocated pool", memory.cpp:75).  So whoever is about  *)
(* to call it needs an item that is still allocated.                       *)
PutFromAllocated ==
    /\ \A r \in Receivers : receiver[r].pc = "put" => receiver[r].buf \in ToSet(alloc)
    /\ \A t \in Takers : taker[t].pc = "put" => taker[t].buf \in ToSet(alloc)

(* No item is in the hands of two threads. *)
Exclusive ==
    /\ Filling \cap Reading = {}
    /\ \A r, s \in Receivers : receiver[r].buf = receiver[s].buf =>
                                 receiver[r].buf = NoBuffer \/ r = s
    /\ \A t, u \in Takers : taker[t].buf = taker[u].buf =>
                              taker[t].buf = NoBuffer \/ t = u

(* m is in b: both halves were written and the owner is the addressee. *)
Stored(b, m) ==
    /\ m \in Messages
    /\ buffer[b] = [owner |-> arrivals[m], header |-> m, payload |-> m]

(* No item is lost: an item that is not free is being filled, or it is     *)
(* being read, or it holds a message that its owner's next takes find.     *)
NoLeak ==
    \A b \in Items \ ToSet(free) :
        \/ b \in Filling \cup Reading
        \/ b \in ToSet(alloc) /\ \E m \in Messages : Stored(b, m)

(* What a take hands to the application is one message, with its own       *)
(* identity, and one that was sent to the entity taken from.               *)
Intact ==
    \A t \in Takers : taker[t].pc = "put" =>
        /\ taker[t].payload \in Messages
        /\ taker[t].header = taker[t].payload
        /\ arrivals[taker[t].payload] = taker[t].entity

(* The messages of one rmw_take_sequence are different ones of its entity, *)
(* and none of them is still there for another take, although callbacks    *)
(* and other takes ran between its rounds.                                 *)
TakenOnce ==
    \A t \in Takers : LET data == taker[t].data IN
        /\ IsInjective(data)
        /\ \A m \in ToSet(data) :
              /\ m \in Messages /\ arrivals[m] = taker[t].entity
              /\ \A b \in ToSet(alloc) \ Filling : ~Stored(b, m)

(* RMW_RET_OK means that all messages that were asked for were taken;      *)
(* RMW_RET_ERROR does not mean that none was.                              *)
OkTakesAll ==
    \A t \in Takers : taker[t].pc = "return" =>
        (taker[t].ret = "ok" <=> Len(taker[t].data) = taker[t].count)

(* "Find first related item" (rmw_take.cpp:53): when a take has found an   *)
(* item for an entity, a message for this entity is in it.                 *)
FindsRelated ==
    \A t \in Takers : taker[t].pc = "header" =>
        \E m \in Messages : /\ Stored(taker[t].buf, m)
                            /\ arrivals[m] = taker[t].entity

(* The receive path as the entities see it: StaticBuffers implements the   *)
(* boxes of Mailbox, where a message waits from the end of its copy to the *)
(* rmw_take that finds it.                                                 *)
Boxes == INSTANCE Mailbox WITH
    Capacity <- Cardinality(Items),
    to       <- arrivals,
    incoming <- {receiver[r].msg : r \in {q \in Receivers :
                    receiver[q].pc \in {"owner", "header", "payload", "put"}}},
    box      <- [e \in Entities |->
                   {buffer[b].payload : b \in {c \in ToSet(alloc) \ Reading :
                      /\ buffer[c].owner = e
                      /\ \A r \in Receivers :
                            receiver[r].buf = c => receiver[r].pc = "signal"}}],
    opened   <- {buffer[b].payload : b \in Reading}

ImplementsMailbox == Boxes!MailSpec
=============================================================================
