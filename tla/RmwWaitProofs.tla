---------------------------- MODULE RmwWaitProofs ----------------------------
(***************************************************************************)
(* rmw_wait for any number of items, entities, messages and reader         *)
(* threads, and however they are scheduled, when one application thread    *)
(* waits.  The callbacks share a semaphore that counts to one: a signal    *)
(* that is taken may stand for several messages, and the has_data flags,   *)
(* which nothing resets, remember that there were any.                     *)
(***************************************************************************)
EXTENDS RmwWait, StaticBuffersProofs

\* One thread runs the executor.
OneExecutor == \A t, u \in Takers : t = u

\* It waits for every entity.
ServesAll == \A t \in Takers : Serves[t] = Entities

-----------------------------------------------------------------------------
WaiterType == [pc : {"outside", "blocked", "scan"}, timeout : Timeouts \cup {0},
               todo : SUBSET Entities, ready : SUBSET Entities,
               ret : {"none", "ok", "timeout"}]

(* A thread in rmw_wait is in no take, and only looks at its entities. *)
WaiterOK(t) ==
    /\ waiter[t].todo \subseteq Serves[t] /\ waiter[t].ready \subseteq Serves[t]
    /\ waiter[t].pc # "outside" => taker[t].pc = "idle" /\ waiter[t].ready = {}

WaitTypes ==
    /\ hasData \in [Entities -> BOOLEAN]
    /\ waiter \in [Takers -> WaiterType]
    /\ \A t \in Takers : WaiterOK(t)

WInv == TInv /\ WaitTypes

(* A signal is on its way, or there to be taken. *)
Signalled == sem = 1 \/ \E r \in Receivers : receiver[r].pc = "signal"

(* Of each message that waits for thread t there is a trace: a signal, a   *)
(* flag, or the scan of t, which has not come to its entity yet.           *)
TracesOK ==
    \A t \in Takers :
        /\ waiter[t].pc = "blocked" => Flagged(t) = {}
        /\ \A b \in Pending(t) :
              \/ Signalled \/ Flagged(t) # {}
              \/ waiter[t].pc = "scan" /\ buffer[b].owner \in waiter[t].todo

(* The callbacks have items of their own. *)
OwnItems ==
    \A r \in Receivers : Busy(r) =>
        /\ receiver[r].buf \in ToSet(alloc)
        /\ receiver[r].pc # "owner" => buffer[receiver[r].buf].owner \in Entities
        /\ \A s \in Receivers \ {r} : Busy(s) => receiver[s].buf # receiver[r].buf

(* As long as no flag is set nothing was taken, so the items stay with     *)
(* their callbacks, and where there is a signal there is a message.        *)
UntakenOK ==
    \A t \in Takers : Flagged(t) = {} =>
        /\ taker[t].pc = "idle" /\ waiter[t].ready = {}
        /\ OwnItems
        /\ sem = 1 => Pending(t) # {}
        /\ waiter[t].pc = "scan" => \E b \in Pending(t) : buffer[b].owner \in waiter[t].todo

-----------------------------------------------------------------------------
(* The steps of the loop are steps of StaticBuffers, or take the signal. *)
TakesSignal == sem' = 0 /\ UNCHANGED <<alloc, free, buffer, arrivals, receiver, taker>>

LEMMA WaitStep == ASSUME WaitTypes, [WaitNext]_waitVars PROVE [Next]_vars \/ TakesSignal
<1>1. ASSUME NEW r \in Receivers, Receive(r) PROVE Next
  BY <1>1 DEF Next
<1>2. ASSUME NEW t \in Takers, AppStep(t) PROVE [Next]_vars \/ TakesSignal
  <2>1. CASE EnterFlagged(t) \/ (\E timeout \in Timeouts : EnterBlocks(t, timeout)) \/ TimeOut(t)
             \/ Return(t)
    BY <2>1 DEF EnterFlagged, EnterBlocks, Enter, TimeOut, Return
  <2>2. CASE Wake(t)
    BY <2>2 DEF Wake, TakesSignal
  <2>3. ASSUME NEW e \in Serves[t], Scan(t, e) \/ TakeReady(t, e) PROVE [Next]_vars
    BY <2>3 DEF Scan, TakeReady, Next
  <2>4. CASE Take(t)
    BY <2>4 DEF Next
  <2> QED BY <1>2, <2>1, <2>2, <2>3, <2>4 DEF AppStep
<1>3. ASSUME NEW t \in Takers, Poll(t) PROVE UNCHANGED vars
  BY <1>3 DEF Poll, Enter
<1>4. ASSUME UNCHANGED waitVars PROVE UNCHANGED vars
  BY <1>4 DEF waitVars
<1> QED BY <1>1, <1>2, <1>3, <1>4 DEF WaitNext

(* So what StaticBuffersProofs shows of StaticBuffers holds in the loop. *)
LEMMA WaitTInv == ASSUME WInv, [WaitNext]_waitVars PROVE TInv'
<1>1. CASE [Next]_vars
  BY <1>1, NextTInv DEF WInv
<1>2. CASE TakesSignal
  <2>1. PoolOK' /\ Types'
    BY <1>2 DEF TakesSignal, WInv, TInv, Types, BufferType, ReceiverType, TakerType, DataType, PoolOK
  <2>2. Working'
    BY <1>2 DEF TakesSignal, WInv, TInv, Working, RoundOK, Holding, Messages
  <2> QED BY <2>1, <2>2 DEF TInv
<1> QED BY <1>1, <1>2, WaitStep DEF WInv

LEMMA WaitBInv ==
  ASSUME CallbacksFirst, OwnEntities, WInv, BInv, [WaitNext]_waitVars
  PROVE  BInv'
<1>1. CASE [Next]_vars
  BY <1>1, NextBInv DEF WInv
<1>2. CASE TakesSignal
  <2>1. Full' = Full
    BY <1>2 DEF TakesSignal, Full, Filling
  <2>2. CallbacksOK' /\ FullOK'
    BY <1>2, <2>1 DEF TakesSignal, BInv, CallbacksOK, FullOK, Messages, Busy
  <2>3. TakesOK'
    BY <1>2, <2>1 DEF TakesSignal, BInv, TakesOK, Holding
  <2>4. DataOK'
    BY <1>2, <2>1 DEF TakesSignal, BInv, DataOK, Messages, Busy
  <2> QED BY <2>2, <2>3, <2>4 DEF BInv
<1> QED BY <1>1, <1>2, WaitStep DEF WInv

-----------------------------------------------------------------------------
(* What each step of the loop does to the record of its thread. *)
LEMMA OutsideType == Outside \in WaiterType
BY DEF Outside, WaiterType

LEMMA WaiterMoves ==
  ASSUME WaitTypes, NEW t \in Takers, NEW x \in WaiterType, waiter' = [waiter EXCEPT ![t] = x]
  PROVE  /\ waiter' \in [Takers -> WaiterType] /\ waiter'[t] = x
         /\ \A u \in Takers : u # t => waiter'[u] = waiter[u]
BY DEF WaitTypes

\* The record of t becomes this one.
Becomes(t, pc, todo, ready, ret) ==
    /\ waiter' \in [Takers -> WaiterType]
    /\ \A u \in Takers : u # t => waiter'[u] = waiter[u]
    /\ waiter'[t].pc = pc /\ waiter'[t].todo = todo
    /\ waiter'[t].ready = ready /\ waiter'[t].ret = ret

LEMMA ServedEntities == \A t \in Takers : Serves[t] \subseteq Entities /\ Flagged(t) \subseteq Serves[t]
BY BuffersAssumption DEF BuffersAssumption, Flagged

LEMMA EnterMoves ==
  ASSUME WInv, NEW t \in Takers
  PROVE  /\ EnterFlagged(t) => Becomes(t, "scan", Serves[t], {}, "none")
         /\ \A timeout \in Timeouts : EnterBlocks(t, timeout) => Becomes(t, "blocked", {}, {}, "none")
<1>1. ASSUME EnterFlagged(t) PROVE Becomes(t, "scan", Serves[t], {}, "none")
  <2>1. PICK x : x = [Outside EXCEPT !.pc = "scan", !.todo = Serves[t]]
    OBVIOUS
  <2>2. /\ x \in WaiterType /\ x.pc = "scan" /\ x.todo = Serves[t]
        /\ x.ready = {} /\ x.ret = "none"
    BY <2>1, ServedEntities DEF Outside, WaiterType
  <2>3. waiter' = [waiter EXCEPT ![t] = x]
    BY <1>1, <2>1 DEF EnterFlagged
  <2> QED BY <2>2, <2>3, WaiterMoves DEF Becomes, WInv
<1>2. ASSUME NEW timeout \in Timeouts, EnterBlocks(t, timeout)
      PROVE  Becomes(t, "blocked", {}, {}, "none")
  <2>1. PICK x : x = [Outside EXCEPT !.pc = "blocked", !.timeout = timeout]
    OBVIOUS
  <2>2. /\ x \in WaiterType /\ x.pc = "blocked" /\ x.todo = {}
        /\ x.ready = {} /\ x.ret = "none"
    BY <2>1 DEF Outside, WaiterType
  <2>3. waiter' = [waiter EXCEPT ![t] = x]
    BY <1>2, <2>1 DEF EnterBlocks
  <2> QED BY <2>2, <2>3, WaiterMoves DEF Becomes, WInv
<1> QED BY <1>1, <1>2

LEMMA ReturnMoves ==
  ASSUME WInv, NEW t \in Takers, NEW ret \in {"ok", "timeout"}, NEW ready \in SUBSET Entities,
         ReturnWith(t, ret, ready)
  PROVE  Becomes(t, "outside", {}, ready, ret)
<1>1. PICK x : x = [Outside EXCEPT !.ready = ready, !.ret = ret]
  OBVIOUS
<1>2. /\ x \in WaiterType /\ x.pc = "outside" /\ x.todo = {}
      /\ x.ready = ready /\ x.ret = ret
  BY <1>1 DEF Outside, WaiterType
<1>3. waiter' = [waiter EXCEPT ![t] = x]
  BY <1>1 DEF ReturnWith
<1> QED BY <1>2, <1>3, WaiterMoves DEF Becomes, WInv

LEMMA ScanMoves ==
  ASSUME WInv, NEW t \in Takers
  PROVE  /\ Wake(t) => Becomes(t, "scan", Serves[t], waiter[t].ready, waiter[t].ret)
         /\ \A e \in Serves[t] :
              /\ Scan(t, e) => Becomes(t, "scan", waiter[t].todo \ {e}, waiter[t].ready, waiter[t].ret)
              /\ TakeReady(t, e) => Becomes(t, "outside", waiter[t].todo, waiter[t].ready \ {e}, waiter[t].ret)
<1>1. waiter[t] \in WaiterType
  BY DEF WInv, WaitTypes
<1>2. ASSUME Wake(t) PROVE Becomes(t, "scan", Serves[t], waiter[t].ready, waiter[t].ret)
  <2>1. PICK x : x = [waiter[t] EXCEPT !.pc = "scan", !.todo = Serves[t]]
    OBVIOUS
  <2>2. /\ x \in WaiterType /\ x.pc = "scan" /\ x.todo = Serves[t]
        /\ x.ready = waiter[t].ready /\ x.ret = waiter[t].ret
    BY <1>1, <2>1, ServedEntities DEF WaiterType
  <2>3. waiter' = [waiter EXCEPT ![t] = x]
    <3>1. waiter' = [waiter EXCEPT ![t].pc = "scan", ![t].todo = Serves[t]]
      BY <1>2 DEF Wake
    <3> QED BY <2>1, <3>1 DEF WInv, WaitTypes
  <2> QED BY <2>2, <2>3, WaiterMoves DEF Becomes, WInv
<1>3. ASSUME NEW e \in Serves[t], Scan(t, e)
      PROVE  Becomes(t, "scan", waiter[t].todo \ {e}, waiter[t].ready, waiter[t].ret)
  <2>1. PICK x : x = [waiter[t] EXCEPT !.todo = waiter[t].todo \ {e}]
    OBVIOUS
  <2>2. /\ x \in WaiterType /\ x.pc = "scan" /\ x.todo = waiter[t].todo \ {e}
        /\ x.ready = waiter[t].ready /\ x.ret = waiter[t].ret
    BY <1>1, <1>3, <2>1 DEF WaiterType, Scan
  <2>3. waiter' = [waiter EXCEPT ![t] = x]
    BY <1>3, <2>1 DEF Scan
  <2> QED BY <2>2, <2>3, WaiterMoves DEF Becomes, WInv
<1>4. ASSUME NEW e \in Serves[t], TakeReady(t, e)
      PROVE  Becomes(t, "outside", waiter[t].todo, waiter[t].ready \ {e}, waiter[t].ret)
  <2>1. PICK x : x = [waiter[t] EXCEPT !.ready = waiter[t].ready \ {e}]
    OBVIOUS
  <2>2. /\ x \in WaiterType /\ x.pc = "outside" /\ x.todo = waiter[t].todo
        /\ x.ready = waiter[t].ready \ {e} /\ x.ret = waiter[t].ret
    BY <1>1, <1>4, <2>1 DEF WaiterType, TakeReady
  <2>3. waiter' = [waiter EXCEPT ![t] = x]
    BY <1>4, <2>1 DEF TakeReady
  <2> QED BY <2>2, <2>3, WaiterMoves DEF Becomes, WInv
<1> QED BY <1>2, <1>3, <1>4

(* Who takes, and that a take leaves the other threads alone. *)
LEMMA TakerMoves ==
  ASSUME WInv, NEW t \in Takers, Take(t) \/ (\E e \in Entities, n \in Counts : TakeFind(t, e, n))
  PROVE  /\ \A u \in Takers : u # t => taker'[u] = taker[u]
         /\ Take(t) => taker[t].pc # "idle"
         /\ buffer' = buffer /\ arrivals' = arrivals /\ receiver' = receiver /\ sem' = sem
<1>1. taker \in [Takers -> TakerType]
  BY DEF WInv, TInv, Types
<1>2. \A u \in Takers : u # t => taker'[u] = taker[u]
  BY <1>1 DEF Take, TakeHeader, TakePayload, TakePut, TakeNext, TakeReturn, Taken, Failed, TakeFind
<1>3. Take(t) => taker[t].pc # "idle"
  BY DEF Take, TakeHeader, TakePayload, TakePut, TakeNext, TakeReturn
<1>4. buffer' = buffer /\ arrivals' = arrivals /\ receiver' = receiver /\ sem' = sem
  BY DEF Take, TakeHeader, TakePayload, TakePut, TakeNext, TakeReturn, TakeFind
<1> QED BY <1>2, <1>3, <1>4

LEMMA ReceiveKeepsTaker == ASSUME NEW r \in Receivers, Receive(r) PROVE taker' = taker
BY DEF Receive, Refuse, Accept, Callback, WriteOwner, WriteHeader, CopyInto, CopyFails, CallbackStep,
       PutBack, Signal

LEMMA WaiterKept ==
  ASSUME NEW t \in Takers, WaiterOK(t), waiter'[t] = waiter[t], taker'[t] = taker[t]
  PROVE  WaiterOK(t)'
BY DEF WaiterOK

LEMMA WaitTypesNext ==
  ASSUME WInv, [WaitNext]_waitVars
  PROVE  WaitTypes'
<1>1. /\ hasData \in [Entities -> BOOLEAN] /\ waiter \in [Takers -> WaiterType]
      /\ \A t \in Takers : WaiterOK(t)
  BY DEF WInv, WaitTypes
<1>2. CASE hasData' = hasData /\ waiter' = waiter /\ taker' = taker
  BY <1>1, <1>2, WaiterKept DEF WaitTypes
<1>3. ASSUME NEW t \in Takers, hasData' \in [Entities -> BOOLEAN],
             \A u \in Takers : u # t => taker'[u] = taker[u],
             NEW pc, NEW todo, NEW ready, NEW ret, Becomes(t, pc, todo, ready, ret),
             todo \subseteq Serves[t], ready \subseteq Serves[t],
             pc # "outside" => taker'[t].pc = "idle" /\ ready = {}
      PROVE  WaitTypes'
  <2>1. WaiterOK(t)'
    BY <1>3 DEF Becomes, WaiterOK
  <2>2. ASSUME NEW u \in Takers, u # t PROVE WaiterOK(u)'
    BY <1>1, <1>3, <2>2, WaiterKept DEF Becomes
  <2> QED BY <1>3, <2>1, <2>2 DEF WaitTypes, Becomes
<1>4. ASSUME NEW t \in Takers, EnterFlagged(t) PROVE WaitTypes'
  <2>1. /\ Becomes(t, "scan", Serves[t], {}, "none") /\ taker' = taker /\ hasData' = hasData
        /\ taker[t].pc = "idle"
    BY <1>4, EnterMoves DEF EnterFlagged, Enter, vars
  <2> QED BY <1>1, <1>3, <2>1
<1>5. ASSUME NEW t \in Takers, NEW timeout \in Timeouts, EnterBlocks(t, timeout) PROVE WaitTypes'
  <2>1. /\ Becomes(t, "blocked", {}, {}, "none") /\ taker' = taker /\ hasData' = hasData
        /\ taker[t].pc = "idle"
    BY <1>5, EnterMoves DEF EnterBlocks, Enter, vars
  <2> QED BY <1>1, <1>3, <2>1
<1>6. ASSUME NEW t \in Takers, Poll(t) \/ TimeOut(t) \/ Return(t) PROVE WaitTypes'
  <2>1. /\ \/ ReturnWith(t, "timeout", {}) \/ ReturnWith(t, "timeout", Flagged(t))
           \/ ReturnWith(t, "ok", Flagged(t))
        /\ taker' = taker /\ hasData' = hasData
    BY <1>6 DEF Poll, TimeOut, Return, Enter, vars
  <2>2. Flagged(t) \in SUBSET Entities /\ Flagged(t) \subseteq Serves[t]
    BY ServedEntities
  <2>3. PICK ret \in {"ok", "timeout"}, ready \in SUBSET Entities :
           ReturnWith(t, ret, ready) /\ ready \subseteq Serves[t]
    BY <2>1, <2>2
  <2>4. Becomes(t, "outside", {}, ready, ret)
    BY <2>3, ReturnMoves
  <2> QED BY <1>1, <1>3, <2>1, <2>3, <2>4
<1>7. ASSUME NEW t \in Takers, Wake(t) PROVE WaitTypes'
  <2>1. /\ Becomes(t, "scan", Serves[t], waiter[t].ready, waiter[t].ret)
        /\ taker' = taker /\ hasData' = hasData /\ waiter[t].pc = "blocked"
    BY <1>7, ScanMoves DEF Wake
  <2>2. waiter[t].ready = {} /\ taker[t].pc = "idle"
    BY <1>1, <2>1 DEF WaiterOK
  <2> QED BY <1>1, <1>3, <2>1, <2>2
<1>8. ASSUME NEW t \in Takers, NEW e \in Serves[t], Scan(t, e) PROVE WaitTypes'
  <2>1. /\ Becomes(t, "scan", waiter[t].todo \ {e}, waiter[t].ready, waiter[t].ret)
        /\ taker' = taker /\ waiter[t].pc = "scan"
    BY <1>8, ScanMoves DEF Scan, vars
  <2>2. /\ waiter[t].ready = {} /\ taker[t].pc = "idle"
        /\ waiter[t].todo \ {e} \subseteq Serves[t]
    BY <1>1, <2>1 DEF WaiterOK
  <2>3. hasData' \in [Entities -> BOOLEAN]
    BY <1>1, <1>8 DEF Scan
  <2> QED BY <1>3, <2>1, <2>2, <2>3
<1>9. ASSUME NEW t \in Takers, NEW e \in Serves[t], TakeReady(t, e) PROVE WaitTypes'
  <2>1. /\ Becomes(t, "outside", waiter[t].todo, waiter[t].ready \ {e}, waiter[t].ret)
        /\ hasData' = hasData
    BY <1>9, ScanMoves DEF TakeReady
  <2>2. waiter[t].todo \subseteq Serves[t] /\ waiter[t].ready \ {e} \subseteq Serves[t]
    BY <1>1 DEF WaiterOK
  <2>3. \A u \in Takers : u # t => taker'[u] = taker[u]
    <3>1. e \in Entities
      BY ServedEntities
    <3> QED BY <1>9, <3>1, TakerMoves DEF TakeReady, vars
  <2> QED BY <1>1, <1>3, <2>1, <2>2, <2>3
<1>10. ASSUME NEW t \in Takers, Take(t), hasData' = hasData, waiter' = waiter PROVE WaitTypes'
  <2>1. /\ \A u \in Takers : u # t => taker'[u] = taker[u]
        /\ taker[t].pc # "idle"
    BY <1>10, TakerMoves
  <2>2. WaiterOK(t)'
    BY <1>1, <1>10, <2>1 DEF WaiterOK
  <2> QED BY <1>1, <1>10, <2>1, <2>2, WaiterKept DEF WaitTypes
<1>11. ASSUME NEW t \in Takers, AppStep(t) PROVE WaitTypes'
  BY <1>4, <1>5, <1>6, <1>7, <1>8, <1>9, <1>10, <1>11 DEF AppStep
<1>12. ASSUME NEW r \in Receivers, Receive(r), hasData' = hasData, waiter' = waiter PROVE WaitTypes'
  BY <1>2, <1>12, ReceiveKeepsTaker
<1>13. ASSUME UNCHANGED waitVars PROVE WaitTypes'
  BY <1>2, <1>13 DEF waitVars, vars
<1> QED BY <1>6, <1>11, <1>12, <1>13 DEF WaitNext

LEMMA WaitInitInv == WaitInit => WInv
<1> SUFFICES ASSUME WaitInit PROVE WInv
  OBVIOUS
<1>1. TInv
  BY InitTInv DEF WaitInit
<1>2. \A t \in Takers : waiter[t] = Outside /\ taker[t].pc = "idle"
  BY DEF WaitInit, Init, IdleTaker
<1>3. \A t \in Takers : WaiterOK(t)
  BY <1>2 DEF WaiterOK, Outside
<1> QED BY <1>1, <1>3, OutsideType DEF WaitInit, WInv, WaitTypes

LEMMA WInvHolds == WaitSpec => []WInv
<1>1. WInv /\ [WaitNext]_waitVars => WInv'
  BY WaitTInv, WaitTypesNext DEF WInv
<1> QED BY <1>1, WaitInitInv, PTL DEF WaitSpec

(* The types, for every schedule and any number of threads. *)
THEOREM WaitTypeCorrect == WaitSpec => []WaitTypeOK
<1>1. ASSUME WInv PROVE WaitTypeOK
  <2>1. TypeOK
    BY <1>1, TypesOfInv DEF WInv
  <2>2. \A t \in Takers : waiter[t] \in WaiterType /\ WaiterOK(t)
    BY <1>1 DEF WInv, WaitTypes
  <2> QED BY <1>1, <2>1, <2>2 DEF WaitTypeOK, WInv, WaitTypes, WaiterType, WaiterOK
<1> QED BY <1>1, WInvHolds, PTL

-----------------------------------------------------------------------------
(* What the callbacks do to the messages that wait *)

LEMMA FillingItems ==
  ASSUME TInv
  PROVE  \A b : b \in Filling <=> \E r \in Receivers : Busy(r) /\ b = receiver[r].buf
BY BuffersAssumption DEF Filling, Busy, TInv, Working

LEMMA FillingItemsNext ==
  ASSUME TInv'
  PROVE  \A b : b \in Filling' <=> \E r \in Receivers : Busy(r)' /\ b = receiver'[r].buf
BY BuffersAssumption DEF Filling, Busy, TInv, Working

(* Where a callback stands, in terms of the items. *)
LEMMA ReceiveMoves ==
  ASSUME TInv, NEW r \in Receivers, Receive(r)
  PROVE  /\ \A s \in Receivers \ {r} : receiver'[s] = receiver[s]
         /\ taker' = taker
         /\ \/ /\ receiver' = receiver /\ alloc' = alloc /\ buffer' = buffer /\ sem' = sem
            \/ /\ ~Busy(r) /\ receiver'[r].pc = "owner"
               /\ receiver'[r].buf \notin ToSet(alloc)
               /\ ToSet(alloc') = ToSet(alloc) \cup {receiver'[r].buf}
               /\ buffer' = buffer /\ sem' = sem
            \/ /\ Busy(r) /\ receiver[r].pc # "signal"
               /\ receiver'[r].pc \in {"header", "payload", "signal", "put"}
               /\ receiver'[r].buf = receiver[r].buf /\ alloc' = alloc /\ sem' = sem
               /\ \A c \in Items \ {receiver[r].buf} : buffer'[c] = buffer[c]
               /\ buffer'[receiver[r].buf].owner \in
                     IF receiver[r].pc = "owner" THEN Entities
                     ELSE {buffer[receiver[r].buf].owner}
            \/ /\ receiver[r].pc = "put" /\ ~Busy(r)'
               /\ ToSet(alloc') = ToSet(alloc) \ {receiver[r].buf}
               /\ buffer' = buffer /\ sem' = sem
            \/ /\ receiver[r].pc = "signal" /\ ~Busy(r)'
               /\ alloc' = alloc /\ buffer' = buffer /\ sem' = 1
<1>1. receiver \in [Receivers -> ReceiverType] /\ buffer \in [Items -> BufferType] /\ PoolOK
  BY DEF TInv, Types
<1>2. taker' = taker
  BY ReceiveKeepsTaker
<1>3. CASE \E e \in Entities : Refuse(r, e)
  BY <1>1, <1>2, <1>3 DEF Refuse
<1>4. CASE \E e \in Entities : Accept(r, e)
  BY <1>1, <1>2, <1>4, GetMoves DEF Accept, Busy
<1>5. CASE WriteOwner(r) \/ WriteHeader(r) \/ CopyInto(r) \/ CopyFails(r)
  <2>1. PICK from \in {"owner", "header", "payload"}, to \in {"header", "payload", "signal", "put"} :
           CallbackStep(r, from, to)
    BY <1>5 DEF WriteOwner, WriteHeader, CopyInto, CopyFails
  <2>2. /\ receiver[r].pc = from /\ receiver'[r].pc = to
        /\ receiver'[r].buf = receiver[r].buf
        /\ \A s \in Receivers \ {r} : receiver'[s] = receiver[s]
        /\ alloc' = alloc
    BY <2>1, CallbackMoves
  <2>3. receiver[r].buf \in Items /\ receiver[r].msg \in Messages
    BY <2>2 DEF TInv, Working
  <2>4. arrivals[receiver[r].msg] \in Entities
    BY <2>3, ElementOfSeq DEF TInv, Types, Messages
  <2>5. CASE WriteOwner(r)
    <3>1. /\ \A c \in Items \ {receiver[r].buf} : buffer'[c] = buffer[c]
          /\ buffer'[receiver[r].buf].owner = arrivals[receiver[r].msg]
          /\ sem' = sem /\ receiver[r].pc = "owner"
      BY <2>3, <2>5, OwnerWritten DEF WriteOwner, CallbackStep
    <3> QED BY <1>2, <2>2, <2>4, <3>1 DEF Busy
  <2>6. CASE WriteHeader(r) \/ CopyInto(r)
    <3>1. /\ \A c \in Items \ {receiver[r].buf} : buffer'[c] = buffer[c]
          /\ buffer'[receiver[r].buf].owner = buffer[receiver[r].buf].owner
          /\ sem' = sem /\ receiver[r].pc # "owner"
      BY <2>3, <2>6, HeaderWritten, PayloadWritten DEF WriteHeader, CopyInto, CallbackStep
    <3> QED BY <1>2, <2>2, <3>1 DEF Busy
  <2>7. CASE CopyFails(r)
    BY <1>2, <2>2, <2>7 DEF CopyFails, Busy, CallbackStep
  <2> QED BY <1>5, <2>5, <2>6, <2>7
<1>6. CASE PutBack(r)
  BY <1>1, <1>2, <1>6, PutMoves DEF PutBack, Busy, IdleReceiver
<1>7. CASE Signal(r)
  BY <1>1, <1>2, <1>7 DEF Signal, Busy, IdleReceiver
<1> QED BY <1>3, <1>4, <1>5, <1>6, <1>7 DEF Receive, Callback

(* A callback leaves the messages that wait where they are; the one it     *)
(* adds, it signals in the same step.                                      *)
LEMMA ReceiveKeepsPending ==
  ASSUME TInv, TInv', NEW r \in Receivers, Receive(r), NEW t \in Takers
  PROVE  /\ \A b \in Pending(t) : b \in Pending(t)' /\ buffer'[b] = buffer[b]
         /\ \A b \in Pending(t)' : sem' = 1 \/ (b \in Pending(t) /\ buffer'[b] = buffer[b])
         /\ Signalled => Signalled'
<1>1. \A b : b \in Filling <=> \E s \in Receivers : Busy(s) /\ b = receiver[s].buf
  BY FillingItems
<1>2. \A b : b \in Filling' <=> \E s \in Receivers : Busy(s)' /\ b = receiver'[s].buf
  BY FillingItemsNext
<1>3. \A s \in Receivers \ {r} : receiver'[s] = receiver[s] /\ (Busy(s)' <=> Busy(s))
  BY ReceiveMoves DEF Busy
<1>4. ToSet(alloc) \subseteq Items /\ ToSet(alloc') \subseteq Items
  BY DEF TInv, PoolOK
<1>5. Signalled => Signalled'
  BY <1>3, ReceiveMoves DEF Signalled, Busy
<1>6. ASSUME NEW b \in Pending(t) PROVE b \in Pending(t)' /\ buffer'[b] = buffer[b]
  <2>1. /\ b \in ToSet(alloc) /\ buffer[b].owner \in Serves[t]
        /\ \A s \in Receivers : Busy(s) => b # receiver[s].buf
    BY <1>1, <1>6 DEF Pending
  <2>2. b \in ToSet(alloc') /\ buffer'[b] = buffer[b] /\ (Busy(r)' => b # receiver'[r].buf)
    BY <1>4, <2>1, ReceiveMoves DEF Busy
  <2>3. b \notin Filling'
    BY <1>2, <1>3, <2>1, <2>2
  <2> QED BY <2>1, <2>2, <2>3 DEF Pending
<1>7. ASSUME NEW b \in Pending(t)', sem' # 1 PROVE b \in Pending(t) /\ buffer'[b] = buffer[b]
  <2>1. /\ b \in ToSet(alloc') /\ buffer'[b].owner \in Serves[t]
        /\ \A s \in Receivers : Busy(s)' => b # receiver'[s].buf
    BY <1>2, <1>7 DEF Pending
  <2>2. b \in ToSet(alloc) /\ buffer'[b] = buffer[b] /\ (Busy(r) => b # receiver[r].buf)
    BY <1>4, <1>7, <2>1, ReceiveMoves DEF Busy
  <2>3. b \notin Filling
    BY <1>1, <1>3, <2>1, <2>2
  <2> QED BY <2>1, <2>2, <2>3 DEF Pending
<1> QED BY <1>5, <1>6, <1>7

(* What the application does to them, and to the flags *)

LEMMA TakesFromList ==
  ASSUME TInv, NEW t \in Takers, Take(t) \/ (\E e \in Entities, n \in Counts : TakeFind(t, e, n))
  PROVE  ToSet(alloc') \subseteq ToSet(alloc)
BY PutMoves DEF TInv, Take, TakeHeader, TakePayload, TakePut, TakeNext, TakeReturn, TakeFind

LEMMA AppKeepsPending ==
  ASSUME WInv, NEW t \in Takers, AppStep(t) \/ Poll(t)
  PROVE  /\ buffer' = buffer /\ receiver' = receiver
         /\ ToSet(alloc') \subseteq ToSet(alloc)
         /\ \A u \in Takers : Pending(u)' \subseteq Pending(u)
         /\ \A u \in Takers : Flagged(u) \subseteq Flagged(u)'
<1>1. /\ buffer' = buffer /\ receiver' = receiver
      /\ ToSet(alloc') \subseteq ToSet(alloc)
  <2>1. ASSUME NEW e \in Serves[t], TakeReady(t, e)
        PROVE  /\ buffer' = buffer /\ receiver' = receiver
               /\ ToSet(alloc') \subseteq ToSet(alloc)
    <3>1. e \in Entities
      BY ServedEntities
    <3> QED BY <2>1, <3>1, TakesFromList, TakerMoves DEF TakeReady, vars, WInv
  <2>2. CASE Take(t)
    BY <2>2, TakesFromList, TakerMoves DEF WInv
  <2> QED BY <2>1, <2>2
      DEF AppStep, EnterFlagged, EnterBlocks, Poll, Enter, Wake, TimeOut, Scan, Return, vars
<1>2. \A u \in Takers : Pending(u)' \subseteq Pending(u)
  BY <1>1 DEF Pending, Filling
<1>3. \A e \in Entities : hasData[e] => hasData'[e]
  BY ServedEntities
  DEF AppStep, EnterFlagged, EnterBlocks, Poll, Enter, Wake, TimeOut, Scan, Return, TakeReady,
      WInv, WaitTypes
<1>4. \A u \in Takers : Flagged(u) \subseteq Flagged(u)'
  BY <1>3, ServedEntities DEF Flagged
<1> QED BY <1>1, <1>2, <1>4

(* The scan sets the flag of an entity that has a message. *)
LEMMA ScanFlags ==
  ASSUME WInv, NEW t \in Takers, NEW e \in Serves[t], Scan(t, e),
         NEW b \in Pending(t), buffer[b].owner = e
  PROVE  Flagged(t)' # {}
<1>1. FindByOwner(e) # NoBuffer
  <2> DEFINE hits == {k \in DOMAIN alloc : buffer[alloc[k]].owner = e}
  <2>1. b \in ToSet(alloc)
    BY DEF Pending
  <2>2. hits # {}
    BY <2>1 DEF ToSet
  <2>3. hits \in SUBSET Nat
    BY LenProperties DEF WInv, TInv, PoolOK
  <2>4. Min(hits) \in hits
    BY <2>2, <2>3, MinIsLeast
  <2>5. alloc[Min(hits)] \in ToSet(alloc)
    BY <2>4 DEF ToSet
  <2>6. alloc[Min(hits)] # NoBuffer
    BY <2>5, BuffersAssumption DEF WInv, TInv, PoolOK
  <2> QED BY <2>2, <2>6 DEF FindByOwner
<1>2. e \in Entities
  BY ServedEntities
<1>3. hasData'[e]
  BY <1>1, <1>2 DEF Scan, WInv, WaitTypes
<1> QED BY <1>3 DEF Flagged

(* The steps of the only thread that waits, as far as its record tells.    *)
LEMMA AppMoves ==
  ASSUME WInv, NEW t \in Takers, AppStep(t) \/ Poll(t)
  PROVE  \/ /\ waiter[t].pc = "outside" /\ waiter'[t].pc = "scan"
            /\ Flagged(t) # {} /\ sem' = sem
         \/ /\ waiter[t].pc = "outside" /\ waiter'[t].pc = "blocked"
            /\ Flagged(t) = {} /\ hasData' = hasData /\ sem' = sem
            /\ waiter'[t].ready = {} /\ taker' = taker
         \/ /\ waiter[t].pc = "outside" /\ Poll(t) /\ waiter'[t].pc = "outside"
            /\ sem' = sem /\ waiter'[t].ready = {} /\ taker' = taker
            /\ waiter'[t].ret = "timeout"
         \/ /\ waiter[t].pc = "blocked" /\ waiter'[t].pc = "scan"
            /\ waiter'[t].todo = Serves[t] /\ waiter'[t].ready = waiter[t].ready
            /\ sem = 1 /\ sem' = 0 /\ taker' = taker /\ alloc' = alloc
         \/ /\ waiter[t].pc = "blocked" /\ waiter'[t].pc = "outside"
            /\ waiter'[t].ready = Flagged(t) /\ sem' = sem /\ taker' = taker
            /\ hasData' = hasData /\ waiter'[t].ret = "timeout"
         \/ /\ waiter[t].pc = "scan" /\ waiter'[t].pc = "scan"
            /\ \E e \in waiter[t].todo : /\ Scan(t, e) /\ e \in Serves[t]
                                         /\ waiter'[t].todo = waiter[t].todo \ {e}
            /\ waiter'[t].ready = waiter[t].ready
            /\ alloc' = alloc /\ sem' = sem /\ taker' = taker
         \/ /\ waiter[t].pc = "scan" /\ waiter'[t].pc = "outside"
            /\ waiter[t].todo = {} /\ waiter'[t].ready = Flagged(t)
            /\ waiter'[t].ret = "ok" /\ hasData' = hasData /\ sem' = sem
         \/ /\ waiter[t].pc = "outside" /\ waiter'[t].pc = "outside"
            /\ waiter[t].ready # {} /\ waiter'[t].ret = waiter[t].ret /\ sem' = sem
         \/ /\ waiter' = waiter /\ taker[t].pc # "idle"
            /\ hasData' = hasData /\ sem' = sem
<1>1. Flagged(t) \in SUBSET Entities /\ {} \in SUBSET Entities
  BY ServedEntities
<1>2. CASE EnterFlagged(t)
  BY <1>2, EnterMoves DEF EnterFlagged, Enter, Becomes, vars
<1>3. CASE \E timeout \in Timeouts : EnterBlocks(t, timeout)
  BY <1>3, EnterMoves DEF EnterBlocks, Enter, Becomes, vars
<1>4. CASE Poll(t)
  <2>1. Becomes(t, "outside", {}, {}, "timeout")
    BY <1>1, <1>4, ReturnMoves DEF Poll
  <2> QED BY <1>4, <2>1 DEF Poll, Enter, Becomes, vars
<1>5. CASE Wake(t)
  BY <1>5, ScanMoves DEF Wake, Becomes
<1>6. CASE TimeOut(t)
  <2>1. Becomes(t, "outside", {}, Flagged(t), "timeout")
    BY <1>1, <1>6, ReturnMoves DEF TimeOut
  <2> QED BY <1>6, <2>1 DEF TimeOut, Becomes, vars
<1>7. CASE \E e \in Serves[t] : Scan(t, e)
  <2>1. PICK e \in Serves[t] : Scan(t, e)
    BY <1>7
  <2>2. Becomes(t, "scan", waiter[t].todo \ {e}, waiter[t].ready, waiter[t].ret)
    BY <2>1, ScanMoves
  <2>3. waiter[t].pc = "scan" /\ e \in waiter[t].todo /\ UNCHANGED vars
    BY <2>1 DEF Scan
  <2> QED BY <2>1, <2>2, <2>3 DEF Becomes, vars
<1>8. CASE Return(t)
  <2>1. Becomes(t, "outside", {}, Flagged(t), "ok")
    BY <1>1, <1>8, ReturnMoves DEF Return
  <2> QED BY <1>8, <2>1 DEF Return, Becomes, vars
<1>9. CASE \E e \in Serves[t] : TakeReady(t, e)
  <2>1. PICK e \in Serves[t] : TakeReady(t, e)
    BY <1>9
  <2>2. Becomes(t, "outside", waiter[t].todo, waiter[t].ready \ {e}, waiter[t].ret)
    BY <2>1, ScanMoves
  <2>3. waiter[t].pc = "outside" /\ e \in waiter[t].ready /\ sem' = sem
    BY <2>1 DEF TakeReady, TakeFind, vars
  <2> QED BY <2>2, <2>3 DEF Becomes
<1>10. CASE Take(t) /\ UNCHANGED <<hasData, waiter>>
  BY <1>10, TakerMoves
<1> QED BY <1>2, <1>3, <1>4, <1>5, <1>6, <1>7, <1>8, <1>9, <1>10 DEF AppStep

-----------------------------------------------------------------------------
(* No wakeup is lost *)

LEMMA WaitInitPool == WaitInit => ToSet(alloc) = {} /\ sem = 0 /\ \A r \in Receivers : ~Busy(r)
BY DEF WaitInit, Init, ToSet, IdleReceiver, Busy

LEMMA TracesInit == ASSUME WaitInit PROVE TracesOK
<1>1. \A t \in Takers : Pending(t) = {} /\ waiter[t].pc = "outside"
  BY WaitInitPool DEF Pending, WaitInit, Outside
<1> QED BY <1>1 DEF TracesOK

LEMMA TracesNext ==
  ASSUME OneExecutor, WInv, WInv', TracesOK, [WaitNext]_waitVars
  PROVE  TracesOK'
<1>1. CASE UNCHANGED waitVars
  BY <1>1 DEF waitVars, vars, TracesOK, Pending, Filling, Flagged, Signalled
<1>2. ASSUME NEW r \in Receivers, Receive(r), hasData' = hasData, waiter' = waiter
      PROVE  TracesOK'
  <2> SUFFICES ASSUME NEW t \in Takers
               PROVE  /\ waiter'[t].pc = "blocked" => Flagged(t)' = {}
                      /\ \A b \in Pending(t)' :
                            \/ Signalled' \/ Flagged(t)' # {}
                            \/ waiter'[t].pc = "scan" /\ buffer'[b].owner \in waiter'[t].todo
    BY DEF TracesOK
  <2>1. Flagged(t)' = Flagged(t)
    BY <1>2 DEF Flagged
  <2>2. /\ \A b \in Pending(t)' : sem' = 1 \/ (b \in Pending(t) /\ buffer'[b] = buffer[b])
        /\ Signalled => Signalled'
    BY <1>2, ReceiveKeepsPending DEF WInv
  <2> QED BY <1>2, <2>1, <2>2 DEF TracesOK, Signalled
<1>3. ASSUME NEW t \in Takers, AppStep(t) \/ Poll(t) PROVE TracesOK'
  <2>1. /\ buffer' = buffer /\ receiver' = receiver
        /\ Pending(t)' \subseteq Pending(t)
        /\ Flagged(t) \subseteq Flagged(t)'
    BY <1>3, AppKeepsPending
  <2>2. sem' = sem => (Signalled <=> Signalled')
    BY <2>1 DEF Signalled
  <2>3. hasData' = hasData => Flagged(t)' = Flagged(t)
    BY DEF Flagged
  <2>4. waiter'[t].pc = "blocked" => Flagged(t)' = {}
    BY <1>3, <2>3, AppMoves DEF TracesOK
  <2>5. ASSUME NEW b \in Pending(t)', ~Signalled', Flagged(t)' = {}
        PROVE  waiter'[t].pc = "scan" /\ buffer'[b].owner \in waiter'[t].todo
    <3>1. b \in Pending(t) /\ Flagged(t) = {} /\ buffer'[b] = buffer[b]
      BY <2>1, <2>5
    <3>2. \/ Signalled
          \/ waiter[t].pc = "scan" /\ buffer[b].owner \in waiter[t].todo
      BY <3>1 DEF TracesOK
    <3>3. CASE Signalled
      <4>1. sem' # sem
        BY <2>2, <2>5, <3>3
      <4>2. waiter'[t].pc = "scan" /\ waiter'[t].todo = Serves[t]
        BY <1>3, <4>1, AppMoves
      <4> QED BY <3>1, <4>2 DEF Pending
    <3>4. CASE waiter[t].pc = "scan" /\ buffer[b].owner \in waiter[t].todo
      <4>1. ASSUME NEW e \in Serves[t], Scan(t, e) PROVE e # buffer[b].owner
        BY <2>5, <3>1, <4>1, ScanFlags
      <4>2. taker[t].pc = "idle"
        BY <3>4 DEF WInv, WaitTypes, WaiterOK
      <4> QED BY <1>3, <3>1, <3>4, <4>1, <4>2, AppMoves
    <3> QED BY <3>2, <3>3, <3>4
  <2>6. \A u \in Takers : u = t
    BY DEF OneExecutor
  <2> QED BY <2>4, <2>5, <2>6 DEF TracesOK
<1> QED BY <1>1, <1>2, <1>3 DEF WaitNext

LEMMA TracesHold ==
  ASSUME OneExecutor
  PROVE  WaitSpec => [](WInv /\ TracesOK)
<1>1. WInv /\ [WaitNext]_waitVars => WInv'
  BY WaitTInv, WaitTypesNext DEF WInv
<1>2. WInv /\ TracesOK /\ [WaitNext]_waitVars => (WInv /\ TracesOK)'
  BY <1>1, TracesNext
<1>3. WaitInit => WInv /\ TracesOK
  BY WaitInitInv, TracesInit
<1> QED BY <1>2, <1>3, PTL DEF WaitSpec

(* While the thread waits, a message for it has a signal, for every        *)
(* schedule of the callbacks.                                              *)
THEOREM WakeupsAreKept ==
  ASSUME OneExecutor
  PROVE  WaitSpec => []NoLostWakeup
<1>1. TracesOK => NoLostWakeup
  BY DEF TracesOK, NoLostWakeup, Signalled
<1> QED BY <1>1, TracesHold, PTL

-----------------------------------------------------------------------------
(* rmw_wait tells whether it left an entity in the set *)

LEMMA UntakenInit == ASSUME WaitInit PROVE UntakenOK
<1>1. \A t \in Takers : waiter[t] = Outside /\ taker[t].pc = "idle"
  BY DEF WaitInit, Init, IdleTaker
<1> QED BY <1>1, WaitInitPool DEF UntakenOK, OwnItems, Outside

LEMMA ReceiveOwnItems ==
  ASSUME TInv, NEW r \in Receivers, Receive(r), OwnItems
  PROVE  OwnItems'
<1>1. \A s \in Receivers \ {r} : receiver'[s] = receiver[s] /\ (Busy(s)' <=> Busy(s))
  BY ReceiveMoves DEF Busy
<1>2. \A s \in Receivers : Busy(s) => receiver[s].buf \in Items
  BY DEF TInv, Working, Busy
<1> SUFFICES ASSUME NEW s \in Receivers, Busy(s)'
             PROVE  /\ receiver'[s].buf \in ToSet(alloc')
                    /\ receiver'[s].pc # "owner" => buffer'[receiver'[s].buf].owner \in Entities
                    /\ \A q \in Receivers \ {s} : Busy(q)' => receiver'[q].buf # receiver'[s].buf
  BY DEF OwnItems
<1>3. Busy(r)' => /\ receiver'[r].buf \in ToSet(alloc')
                  /\ \/ receiver'[r].buf \notin ToSet(alloc)
                     \/ Busy(r) /\ receiver'[r].buf = receiver[r].buf
  <2>1. Busy(r) => receiver[r].buf \in ToSet(alloc)
    BY DEF OwnItems
  <2> QED BY <2>1, ReceiveMoves DEF Busy
<1>4. \A c \in ToSet(alloc) : c \in ToSet(alloc') \/ (Busy(r) /\ c = receiver[r].buf)
  BY ReceiveMoves DEF Busy
<1>5. receiver'[s].buf \in ToSet(alloc')
  <2>1. CASE s = r
    BY <1>3, <2>1
  <2>2. CASE s # r
    <3>1. receiver'[s] = receiver[s] /\ Busy(s)
      BY <1>1, <2>2
    <3>2. receiver[s].buf \in ToSet(alloc) /\ (Busy(r) => receiver[s].buf # receiver[r].buf)
      BY <2>2, <3>1 DEF OwnItems
    <3> QED BY <1>4, <3>1, <3>2
  <2> QED BY <2>1, <2>2
<1>6. ASSUME NEW q \in Receivers \ {r}, Busy(q)', Busy(r)'
      PROVE  receiver'[q].buf # receiver'[r].buf
  <2>1. receiver'[q] = receiver[q] /\ Busy(q)
    BY <1>1, <1>6
  <2>2. receiver[q].buf \in ToSet(alloc) /\ (Busy(r) => receiver[q].buf # receiver[r].buf)
    BY <2>1 DEF OwnItems
  <2> QED BY <1>3, <1>6, <2>1, <2>2
<1>7. ASSUME NEW q \in Receivers \ {s}, Busy(q)' PROVE receiver'[q].buf # receiver'[s].buf
  <2>1. CASE s = r \/ q = r
    BY <1>7, <1>6, <2>1
  <2>2. CASE s # r /\ q # r
    BY <1>1, <1>7, <2>2 DEF OwnItems
  <2> QED BY <2>1, <2>2
<1>8. ASSUME receiver'[s].pc # "owner" PROVE buffer'[receiver'[s].buf].owner \in Entities
  <2>1. CASE s = r
    BY <1>8, <2>1, ReceiveMoves, ZenonT(30) DEF OwnItems, Busy
  <2>2. CASE s # r
    <3>1. /\ receiver'[s] = receiver[s] /\ Busy(s) /\ buffer[receiver[s].buf].owner \in Entities
          /\ receiver[s].buf \in Items /\ (Busy(r) => receiver[s].buf # receiver[r].buf)
      BY <1>1, <1>2, <1>8, <2>2 DEF OwnItems
    <3> QED BY <3>1, ReceiveMoves, ZenonT(30) DEF Busy
  <2> QED BY <2>1, <2>2
<1> QED BY <1>5, <1>7, <1>8

LEMMA UntakenNext ==
  ASSUME OneExecutor, ServesAll, WInv, WInv', UntakenOK, [WaitNext]_waitVars
  PROVE  UntakenOK'
<1>1. CASE UNCHANGED waitVars
  BY <1>1 DEF waitVars, vars, UntakenOK, OwnItems, Busy, Pending, Filling, Flagged
<1>2. ASSUME NEW r \in Receivers, Receive(r), hasData' = hasData, waiter' = waiter
      PROVE  UntakenOK'
  <2> SUFFICES ASSUME NEW t \in Takers, Flagged(t)' = {}
               PROVE  /\ taker'[t].pc = "idle" /\ waiter'[t].ready = {}
                      /\ OwnItems'
                      /\ sem' = 1 => Pending(t)' # {}
                      /\ waiter'[t].pc = "scan" =>
                            \E b \in Pending(t)' : buffer'[b].owner \in waiter'[t].todo
    BY DEF UntakenOK
  <2>1. Flagged(t) = {}
    BY <1>2 DEF Flagged
  <2>2. /\ taker[t].pc = "idle" /\ waiter[t].ready = {} /\ OwnItems
        /\ sem = 1 => Pending(t) # {}
        /\ waiter[t].pc = "scan" => \E b \in Pending(t) : buffer[b].owner \in waiter[t].todo
    BY <2>1 DEF UntakenOK
  <2>3. \A b \in Pending(t) : b \in Pending(t)' /\ buffer'[b] = buffer[b]
    BY <1>2, ReceiveKeepsPending DEF WInv
  <2>4. OwnItems'
    BY <1>2, <2>2, ReceiveOwnItems DEF WInv
  <2>5. ASSUME sem' = 1, sem # 1 PROVE Pending(t)' # {}
    <3> DEFINE b == receiver[r].buf
    <3>1. receiver[r].pc = "signal" /\ ~Busy(r)' /\ alloc' = alloc /\ buffer' = buffer
      BY <1>2, <2>5, ReceiveMoves DEF WInv
    <3>2. b \in ToSet(alloc) /\ buffer[b].owner \in Entities
      BY <2>2, <3>1 DEF OwnItems, Busy
    <3>3. \A s \in Receivers \ {r} : receiver'[s] = receiver[s] /\ (Busy(s)' <=> Busy(s))
      BY <1>2, ReceiveMoves DEF Busy, WInv
    <3>4. \A s \in Receivers : Busy(s)' => receiver'[s].buf # b
      BY <2>2, <3>1, <3>3 DEF OwnItems, Busy
    <3>5. b \notin Filling'
      BY <3>4, FillingItemsNext DEF WInv
    <3>6. b \in Pending(t)'
      BY <3>1, <3>2, <3>5 DEF Pending, ServesAll
    <3> QED BY <3>6
  <2>6. sem' = 1 => Pending(t)' # {}
    <3>1. sem = 1 => Pending(t)' # {}
      BY <2>2, <2>3
    <3> QED BY <2>5, <3>1
  <2>7. waiter'[t].pc = "scan" => \E b \in Pending(t)' : buffer'[b].owner \in waiter'[t].todo
    BY <1>2, <2>2, <2>3
  <2> QED BY <1>2, <2>2, <2>4, <2>6, <2>7, ReceiveKeepsTaker
<1>3. ASSUME NEW t \in Takers, AppStep(t) \/ Poll(t) PROVE UntakenOK'
  <2> SUFFICES ASSUME Flagged(t)' = {}
               PROVE  /\ taker'[t].pc = "idle" /\ waiter'[t].ready = {}
                      /\ OwnItems'
                      /\ sem' = 1 => Pending(t)' # {}
                      /\ waiter'[t].pc = "scan" =>
                            \E b \in Pending(t)' : buffer'[b].owner \in waiter'[t].todo
    BY DEF UntakenOK, OneExecutor
  <2>1. /\ buffer' = buffer /\ receiver' = receiver
        /\ Flagged(t) = {}
    BY <1>3, AppKeepsPending
  <2>2. /\ taker[t].pc = "idle" /\ waiter[t].ready = {} /\ OwnItems
        /\ sem = 1 => Pending(t) # {}
        /\ waiter[t].pc = "scan" => \E b \in Pending(t) : buffer[b].owner \in waiter[t].todo
    BY <2>1 DEF UntakenOK
  <2>3. alloc' = alloc
    <3>1. ASSUME NEW e \in Serves[t], TakeReady(t, e) PROVE FALSE
      BY <2>2, <3>1 DEF TakeReady
    <3>2. ~Take(t)
      BY <2>2, TakerMoves
    <3> QED BY <1>3, <3>1, <3>2
        DEF AppStep, EnterFlagged, EnterBlocks, Poll, Enter, Wake, TimeOut, Scan, Return, vars
  <2>4. Pending(t)' = Pending(t) /\ OwnItems'
    BY <2>1, <2>2, <2>3 DEF Pending, Filling, OwnItems, Busy
  <2>5. ASSUME NEW e \in waiter[t].todo, Scan(t, e), e \in Serves[t],
               NEW b \in Pending(t)
        PROVE  buffer[b].owner # e
    BY <2>5, ScanFlags
  <2>6. Flagged(t)' = {} /\ \A b \in Pending(t) : buffer[b].owner \in Serves[t]
    BY DEF Pending
  <2>7. taker'[t].pc = "idle" /\ waiter'[t].ready = {}
    BY <1>3, <2>1, <2>2, AppMoves
  <2>8. sem' = 1 => Pending(t)' # {}
    BY <1>3, <2>1, <2>2, <2>4, AppMoves
  <2>9. ASSUME waiter'[t].pc = "scan"
        PROVE  \E b \in Pending(t)' : buffer'[b].owner \in waiter'[t].todo
    BY <1>3, <2>1, <2>2, <2>4, <2>5, <2>6, <2>9, AppMoves
  <2> QED BY <2>4, <2>7, <2>8, <2>9
<1> QED BY <1>1, <1>2, <1>3 DEF WaitNext

LEMMA UntakenHolds ==
  ASSUME OneExecutor, ServesAll
  PROVE  WaitSpec => []UntakenOK
<1>1. WInv /\ WInv' /\ UntakenOK /\ [WaitNext]_waitVars => UntakenOK'
  BY UntakenNext
<1>2. WaitInit => UntakenOK
  BY UntakenInit
<1> QED BY <1>1, <1>2, WInvHolds, PTL DEF WaitSpec

(* rmw_wait returns RMW_RET_OK exactly when it leaves an entity in the     *)
(* set, for every schedule of the callbacks: a signal that was left over   *)
(* never makes it return RMW_RET_OK with an empty set.                     *)
THEOREM ReturnsTell ==
  ASSUME OneExecutor, ServesAll
  PROVE  WaitSpec => ReturnTells
<1>1. ASSUME WInv, TracesOK, UntakenOK, [WaitNext]_waitVars
      PROVE  [\A t \in Takers : Returns(t) =>
                 (waiter'[t].ret = "ok" <=> waiter'[t].ready # {})]_waitVars
  <2> SUFFICES ASSUME NEW t \in Takers, Returns(t)
               PROVE  waiter'[t].ret = "ok" <=> waiter'[t].ready # {}
    OBVIOUS
  <2>1. waiter' # waiter
    BY DEF Returns
  <2>2. PICK u \in Takers : AppStep(u) \/ Poll(u)
    BY <1>1, <2>1 DEF WaitNext, waitVars
  <2>3. AppStep(t) \/ Poll(t)
    BY <2>2 DEF OneExecutor
  <2>4. waiter[t].pc = "blocked" => Flagged(t) = {}
    BY <1>1 DEF TracesOK
  <2>5. waiter[t].pc = "scan" /\ waiter[t].todo = {} => Flagged(t) # {}
    BY <1>1 DEF UntakenOK
  <2> QED BY <1>1, <2>1, <2>3, <2>4, <2>5, AppMoves DEF Returns
<1>2. WInv /\ TracesOK /\ UntakenOK /\ [WaitNext]_waitVars =>
         [\A t \in Takers : Returns(t) =>
             (waiter'[t].ret = "ok" <=> waiter'[t].ready # {})]_waitVars
  BY <1>1
<1> QED BY <1>2, TracesHold, UntakenHolds, PTL DEF WaitSpec, ReturnTells

-----------------------------------------------------------------------------
(* The pool in the loop, also when the application preempts the callbacks  *)

\* No message exceeds RMW_ERTPS_MAX_INPUT_BUFFER_SIZE.
MessagesFit == ~Oversize

\* embeddedRTPS has one reader thread.
OneReader == \A r, s \in Receivers : r = s

(* Only takes give items back, and a take gives back what it has found. *)
HeldOK ==
    /\ \A r \in Receivers : receiver[r].pc # "put"
    /\ \A t \in Takers : Holding(t) => taker[t].buf \in ToSet(alloc)

(* What the callback has written so far is in its item, and every other    *)
(* allocated item holds a message.                                         *)
WrittenOK ==
    /\ \A r \in Receivers : Busy(r) =>
          /\ receiver[r].pc # "owner" =>
                buffer[receiver[r].buf].owner = arrivals[receiver[r].msg]
          /\ receiver[r].pc \in {"payload", "signal"} =>
                buffer[receiver[r].buf].header = receiver[r].msg
          /\ receiver[r].pc = "signal" => buffer[receiver[r].buf].payload = receiver[r].msg
    /\ \A b \in Full : \E m \in Messages : Stored(b, m)

LEMMA HeldInit == ASSUME Init PROVE HeldOK
BY DEF Init, HeldOK, IdleReceiver, IdleTaker, Holding

LEMMA ReceiveHeld ==
  ASSUME MessagesFit, TInv, HeldOK, NEW r \in Receivers, Receive(r)
  PROVE  HeldOK'
<1>1. receiver'[r].pc # "put"
  <2>1. ~CopyFails(r) /\ ~PutBack(r)
    BY DEF MessagesFit, CopyFails, PutBack, HeldOK
  <2>2. CASE WriteOwner(r) \/ WriteHeader(r) \/ CopyInto(r)
    BY <2>2, CallbackMoves DEF WriteOwner, WriteHeader, CopyInto
  <2>3. CASE Signal(r) \/ \E e \in Entities : Refuse(r, e) \/ Accept(r, e)
    BY <2>3 DEF Signal, Refuse, Accept, IdleReceiver, TInv, Types
  <2> QED BY <2>1, <2>2, <2>3 DEF Receive, Callback
<1>2. receiver[r].pc # "put"
  BY DEF HeldOK
<1>3. ToSet(alloc) \subseteq ToSet(alloc')
  BY <1>2, ReceiveMoves
<1> QED BY <1>1, <1>3, ReceiveMoves DEF HeldOK, Holding

LEMMA TakeHeld ==
  ASSUME OneExecutor, TInv, HeldOK, NEW t \in Takers,
         (\E e \in Serves[t], n \in Counts : TakeFind(t, e, n)) \/ Take(t)
  PROVE  HeldOK'
<1>1. Moves(t)
  BY TakeFindMoves, TakeHeaderMoves, TakePayloadMoves, TakePutMoves, TakeNextMoves, TakeReturnMoves
  DEF Take
<1>2. taker[t] \in TakerType
  BY DEF TInv, Types
<1>3. Holding(t)' => taker'[t].buf \in ToSet(alloc')
  <2>1. ASSUME NEW e \in Serves[t], NEW n \in Counts, TakeFind(t, e, n)
        PROVE  taker'[t].buf \in ToSet(alloc')
    BY <2>1, TakeFindMoves
  <2>2. CASE TakeHeader(t)
    BY <1>2, <2>2, TakeHeaderMoves DEF HeldOK, Holding, TakerType
  <2>3. CASE TakePayload(t)
    BY <1>2, <2>3, TakePayloadMoves DEF HeldOK, Holding, TakerType
  <2>4. CASE TakePut(t)
    <3>1. ~Holding(t)'
      BY <1>2, <2>4, TakePutMoves DEF TakerType, Holding
    <3> QED BY <3>1
  <2>5. CASE TakeNext(t)
    BY <1>2, <2>5, TakeNextMoves DEF Holding, TakerType
  <2>6. CASE TakeReturn(t)
    BY <2>6, TakeReturnMoves DEF Holding, IdleTaker
  <2> QED BY <2>1, <2>2, <2>3, <2>4, <2>5, <2>6 DEF Take
<1> QED BY <1>1, <1>3 DEF HeldOK, Moves, OneExecutor

LEMMA HeldNext ==
  ASSUME OneExecutor, MessagesFit, WInv, HeldOK, [WaitNext]_waitVars
  PROVE  HeldOK'
<1>1. CASE Next
  BY <1>1, ReceiveHeld, TakeHeld DEF Next, WInv
<1>2. CASE UNCHANGED vars \/ TakesSignal
  BY <1>2 DEF vars, TakesSignal, HeldOK, Holding
<1> QED BY <1>1, <1>2, WaitStep DEF WInv

LEMMA WrittenInit == ASSUME Init PROVE WrittenOK
<1>1. ToSet(alloc) = {} /\ \A r \in Receivers : ~Busy(r)
  BY DEF Init, ToSet, IdleReceiver, Busy
<1> QED BY <1>1 DEF WrittenOK, Full

(* A message that is stored stays so while its item is not written. *)
LEMMA StaysStored ==
  ASSUME NEW b, NEW m \in Messages, Stored(b, m), buffer'[b] = buffer[b], m \in Messages',
         arrivals'[m] = arrivals[m]
  PROVE  \E k \in Messages' : Stored(b, k)'
<1>1. Stored(b, m)'
  BY DEF Stored
<1> QED BY <1>1

LEMMA ReceiveWritten ==
  ASSUME OneReader, TInv, TInv', HeldOK, WrittenOK, NEW r \in Receivers, Receive(r)
  PROVE  WrittenOK'
<1> DEFINE b == receiver[r].buf
           m == receiver[r].msg
<1>1. /\ \A s \in Receivers : s = r
      /\ \A c : c \in Full <=> c \in ToSet(alloc) /\ (Busy(r) => b # c)
      /\ \A c : c \in Full' <=> c \in ToSet(alloc') /\ (Busy(r)' => receiver'[r].buf # c)
      /\ ToSet(alloc) \subseteq Items
  BY FullItems DEF OneReader
<1>2. /\ receiver[r].pc # "put" /\ receiver[r] \in ReceiverType
      /\ Busy(r) => b \in Items /\ m \in Messages
  BY DEF HeldOK, TInv, Types, Working, Busy
<1>3. \A c \in Full : \E k \in Messages : Stored(c, k)
  BY DEF WrittenOK
<1>4. CASE \E e \in Entities : Refuse(r, e) \/ Accept(r, e)
  <2>1. PICK e \in Entities : Refuse(r, e) \/ Accept(r, e)
    BY <1>4
  <2>2. /\ Messages \subseteq Messages' /\ \A k \in Messages : arrivals'[k] = arrivals[k]
    BY <2>1, ArrivalGrows DEF Refuse, Accept
  <2>3. ~Busy(r) /\ buffer' = buffer
    BY <2>1 DEF Refuse, Accept, Busy
  <2>4. Busy(r)' => receiver'[r].pc = "owner"
    BY <2>1, <2>3, ReceiveMoves DEF Busy
  <2>5. Full' \subseteq Full
    BY <1>1, <2>3, ReceiveMoves DEF Busy
  <2>6. \A c \in Full' : \E k \in Messages' : Stored(c, k)'
    BY <1>3, <2>2, <2>3, <2>5, StaysStored
  <2> QED BY <1>1, <2>4, <2>6 DEF WrittenOK
<1>5. CASE WriteOwner(r) \/ WriteHeader(r) \/ CopyInto(r)
  <2>1. /\ Busy(r) /\ Busy(r)' /\ alloc' = alloc /\ arrivals' = arrivals
        /\ receiver'[r].buf = b /\ receiver'[r].msg = m
        /\ \A c \in Items \ {b} : buffer'[c] = buffer[c]
        /\ \/ receiver'[r].pc = "header" /\ buffer'[b].owner = arrivals[m]
           \/ /\ receiver[r].pc = "header" /\ receiver'[r].pc = "payload"
              /\ buffer'[b].owner = buffer[b].owner /\ buffer'[b].header = m
           \/ /\ receiver[r].pc = "payload" /\ receiver'[r].pc = "signal"
              /\ buffer'[b].owner = buffer[b].owner /\ buffer'[b].header = buffer[b].header
              /\ buffer'[b].payload = m
    <3>1. Busy(r)
      BY <1>5 DEF WriteOwner, WriteHeader, CopyInto, CallbackStep, Busy
    <3>2. CASE WriteOwner(r)
      <4>1. CallbackStep(r, "owner", "header") /\ buffer' = [buffer EXCEPT ![b].owner = arrivals[m]]
        BY <3>2 DEF WriteOwner
      <4>2. /\ receiver'[r].pc = "header" /\ receiver'[r].buf = b /\ receiver'[r].msg = m
            /\ UNCHANGED <<alloc, arrivals>>
        BY <4>1, CallbackMoves
      <4>3. /\ \A c \in Items \ {b} : buffer'[c] = buffer[c]
            /\ buffer'[b].owner = arrivals[m]
        BY <1>2, <3>1, <4>1, OwnerWritten
      <4> QED BY <3>1, <4>2, <4>3 DEF Busy
    <3>3. CASE WriteHeader(r)
      <4>1. CallbackStep(r, "header", "payload") /\ buffer' = [buffer EXCEPT ![b].header = m]
        BY <3>3 DEF WriteHeader
      <4> QED BY <1>2, <3>1, <4>1, CallbackMoves, HeaderWritten, ZenonT(30) DEF Busy
    <3>4. CASE CopyInto(r)
      <4>1. CallbackStep(r, "payload", "signal") /\ buffer' = [buffer EXCEPT ![b].payload = m]
        BY <3>4 DEF CopyInto
      <4> QED BY <1>2, <3>1, <4>1, CallbackMoves, PayloadWritten, ZenonT(30) DEF Busy
    <3> QED BY <1>5, <3>2, <3>3, <3>4
  <2>2. Full' = Full /\ b \notin Full /\ Full \subseteq Items /\ Messages' = Messages
    BY <1>1, <2>1 DEF Messages
  <2>3. \A c \in Full' : \E k \in Messages' : Stored(c, k)'
    BY <1>3, <2>1, <2>2, StaysStored
  <2>4. /\ receiver[r].pc # "owner" => buffer[b].owner = arrivals[m]
        /\ receiver[r].pc = "payload" => buffer[b].header = m
    BY <2>1 DEF WrittenOK
  <2>5. /\ receiver'[r].pc # "owner" => buffer'[b].owner = arrivals'[m]
        /\ receiver'[r].pc \in {"payload", "signal"} => buffer'[b].header = m
        /\ receiver'[r].pc = "signal" => buffer'[b].payload = m
    BY <2>1, <2>4
  <2> QED BY <1>1, <2>1, <2>3, <2>5 DEF WrittenOK
<1>6. CASE CopyFails(r)
  <2>1. receiver'[r].pc = "put" /\ receiver'[r].buf = b /\ receiver'[r].msg = m
        /\ UNCHANGED <<alloc, arrivals, buffer>> /\ receiver[r].pc = "payload"
    BY <1>6, CallbackMoves DEF CopyFails
  <2>2. Full' = Full /\ Messages' = Messages
    BY <1>1, <2>1 DEF Busy, Messages
  <2>3. \A c \in Full' : \E k \in Messages' : Stored(c, k)'
    BY <1>3, <2>1, <2>2, StaysStored
  <2> QED BY <1>1, <2>1, <2>3 DEF WrittenOK, Busy
<1>7. CASE PutBack(r)
  BY <1>2, <1>7 DEF PutBack
<1>8. CASE Signal(r)
  <2>1. /\ receiver[r].pc = "signal" /\ ~Busy(r)' /\ UNCHANGED <<alloc, arrivals, buffer>>
    BY <1>8 DEF Signal, Busy, IdleReceiver, TInv, Types
  <2>2. Full' \subseteq Full \cup {b} /\ Messages' = Messages
    BY <1>1, <2>1 DEF Messages
  <2>3. Stored(b, m) /\ m \in Messages
    BY <1>2, <2>1 DEF WrittenOK, Stored, Busy, TInv, Types, BufferType
  <2>4. \A c \in Full' : \E k \in Messages' : Stored(c, k)'
    BY <1>3, <2>1, <2>2, <2>3, StaysStored
  <2> QED BY <1>1, <2>1, <2>4 DEF WrittenOK
<1> QED BY <1>4, <1>5, <1>6, <1>7, <1>8 DEF Receive, Callback

LEMMA WrittenNext ==
  ASSUME OneReader, WInv, WInv', HeldOK, WrittenOK, [WaitNext]_waitVars
  PROVE  WrittenOK'
<1>1. ASSUME NEW r \in Receivers, Receive(r) PROVE WrittenOK'
  BY <1>1, ReceiveWritten DEF WInv
<1>2. CASE UNCHANGED <<buffer, arrivals, receiver>> /\ ToSet(alloc') \subseteq ToSet(alloc)
  <2>1. Full' \subseteq Full /\ Messages' = Messages
    BY <1>2 DEF Full, Filling, Messages
  <2>2. \A c \in Full' : \E k \in Messages' : Stored(c, k)'
    BY <1>2, <2>1, StaysStored DEF WrittenOK
  <2> QED BY <1>2, <2>2 DEF WrittenOK, Busy
<1>3. ASSUME NEW t \in Takers, (\E e \in Serves[t], n \in Counts : TakeFind(t, e, n)) \/ Take(t)
      PROVE  WrittenOK'
  <2>1. Take(t) \/ (\E e \in Entities, n \in Counts : TakeFind(t, e, n))
    BY <1>3, ServedEntities
  <2>2. UNCHANGED <<buffer, arrivals, receiver>> /\ ToSet(alloc') \subseteq ToSet(alloc)
    BY <2>1, TakerMoves, TakesFromList DEF WInv
  <2> QED BY <1>2, <2>2
<1>4. CASE UNCHANGED vars \/ TakesSignal
  BY <1>2, <1>4 DEF vars, TakesSignal
<1> QED BY <1>1, <1>3, <1>4, WaitStep DEF Next, WInv

LEMMA PoolHolds ==
  ASSUME OneExecutor, MessagesFit
  PROVE  WaitSpec => [](WInv /\ HeldOK)
<1>1. WInv /\ HeldOK /\ [WaitNext]_waitVars => HeldOK'
  BY HeldNext
<1>2. WaitInit => HeldOK
  BY HeldInit DEF WaitInit
<1> QED BY <1>1, <1>2, WInvHolds, PTL DEF WaitSpec

(* put_memory is called for items of the allocated list only, even if the  *)
(* loop runs in the middle of callbacks: one thread takes, and no callback *)
(* gives an item back.                                                     *)
THEOREM PutsAllocatedInLoop ==
  ASSUME OneExecutor, MessagesFit
  PROVE  WaitSpec => []PutFromAllocated
<1>1. HeldOK => PutFromAllocated
  BY DEF HeldOK, Holding, PutFromAllocated
<1> QED BY <1>1, PoolHolds, PTL

(* With one reader thread no item is lost either.  A callback whose item   *)
(* was found too early, taken and given back writes to a free item, and    *)
(* this thread is the only one that could get it for another message.      *)
THEOREM NothingLostInLoop ==
  ASSUME OneExecutor, OneReader, MessagesFit
  PROVE  WaitSpec => []NoLeak
<1>1. ASSUME WInv, WrittenOK PROVE NoLeak
  <2> SUFFICES ASSUME NEW b \in Items \ ToSet(free), b \notin Filling
               PROVE  b \in ToSet(alloc) /\ \E m \in Messages : Stored(b, m)
    BY DEF NoLeak
  <2>1. b \in ToSet(alloc)
    BY <1>1 DEF WInv, TInv, PoolOK
  <2> QED BY <1>1, <2>1 DEF WrittenOK, Full
<1>2. WInv /\ WInv' /\ HeldOK /\ WrittenOK /\ [WaitNext]_waitVars => WrittenOK'
  BY WrittenNext
<1>3. WaitInit => WrittenOK
  BY WrittenInit DEF WaitInit
<1> QED BY <1>1, <1>2, <1>3, PoolHolds, PTL DEF WaitSpec
=============================================================================
