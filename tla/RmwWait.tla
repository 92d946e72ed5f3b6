------------------------------- MODULE RmwWait -------------------------------
(***************************************************************************)
(* rmw_wait and the application thread that calls it: the loop of an       *)
(* executor, which waits for its entities and then takes once from every   *)
(* entity that rmw_wait left in the wait set.  The callbacks, the static   *)
(* buffers and the takes are those of StaticBuffers; new is what rmw_wait  *)
(* keeps, the has_data flags, and how it uses the one semaphore that all   *)
(* callbacks signal.                                                       *)
(***************************************************************************)
EXTENDS StaticBuffers

CONSTANTS
    Timeouts,       \* the timeouts of the application's calls, in nanoseconds
    Infinite,       \* RMW_DURATION_INFINITE
    Millisecond,    \* 1000000 nanoseconds
    Wrap            \* 2^32: what the u32_t of sys_arch_sem_wait cannot hold

ASSUME TimeoutsAssumption ==
    /\ Timeouts \subseteq Nat /\ Infinite \in Nat \ {0}
    /\ Millisecond \in Nat \ {0} /\ Wrap \in Nat \ {0}

VARIABLES
    hasData,        \* has_data of each entity
    waiter          \* where each application thread is in its loop

waitVars == <<vars, hasData, waiter>>

Outside == [pc |-> "outside", timeout |-> 0, todo |-> {}, ready |-> {}, ret |-> "none"]

WaitInit ==
    /\ Init
    /\ hasData = [e \in Entities |-> FALSE]
    /\ waiter = [t \in Takers |-> Outside]

-----------------------------------------------------------------------------
(* The entities of thread t whose flag says they have data. *)
Flagged(t) == {e \in Serves[t] : hasData[e]}

(* Broken on purpose: the timeout is divided as if it were to be seconds. *)
MillisecondsTooFew(timeout) ==
    IF timeout = Infinite THEN 0
                          ELSE (timeout \div (1000 * Millisecond)) % Wrap

(* rmw_wait.cpp:71-76: nanoseconds become an int32_t of milliseconds, which *)
(* is passed on as a u32_t.  Zero has no limit for sys_arch_sem_wait, and  *)
(* that is also what becomes of a part of a millisecond or of 2^32 of them. *)
Milliseconds(timeout) ==
    IF timeout = Infinite THEN 0 ELSE (timeout \div Millisecond) % Wrap

(* rmw_wait in thread t returns, with the entities in ready left in the set. *)
ReturnWith(t, ret, ready) ==
    waiter' = [waiter EXCEPT ![t] = [Outside EXCEPT !.ready = ready, !.ret = ret]]

Enter(t) ==
    /\ AppMayRun
    /\ waiter[t].pc = "outside" /\ waiter[t].ready = {} /\ taker[t].pc = "idle"
    /\ UNCHANGED <<vars, hasData>>

(* rmw_wait.cpp:45-67: a flag of an earlier call is still set, so this one *)
(* does not wait.                                                          *)
EnterFlagged(t) ==
    /\ Enter(t)
    /\ Flagged(t) # {}
    /\ waiter' = [waiter EXCEPT ![t] = [Outside EXCEPT !.pc = "scan", !.todo = Serves[t]]]

(* rmw_wait.cpp:69-78, a positive timeout. *)
EnterBlocks(t, timeout) ==
    /\ Enter(t)
    /\ Flagged(t) = {}
    /\ timeout > 0
    /\ waiter' = [waiter EXCEPT ![t] = [Outside EXCEPT !.pc = "blocked", !.timeout = timeout]]

(* A timeout of zero skips the semaphore and the scan. *)
Poll(t) ==
    /\ Enter(t)
    /\ Flagged(t) = {}
    /\ 0 \in Timeouts
    /\ ReturnWith(t, "timeout", {})

Wake(t) ==
    /\ AppMayRun
    /\ waiter[t].pc = "blocked"
    /\ sem = 1
    /\ sem' = 0
    /\ waiter' = [waiter EXCEPT ![t].pc = "scan", ![t].todo = Serves[t]]
    /\ UNCHANGED <<alloc, free, buffer, arrivals, receiver, taker, hasData>>

(* SYS_ARCH_TIMEOUT, no signal in time: no scan, and only flagged entities *)
(* stay in the set.                                                        *)
TimeOut(t) ==
    /\ AppMayRun
    /\ waiter[t].pc = "blocked" /\ Milliseconds(waiter[t].timeout) > 0
    /\ sem = 0
    /\ ReturnWith(t, "timeout", Flagged(t))
    /\ UNCHANGED <<vars, hasData>>

(* rmw_wait.cpp:81-121, one entity.  The pool is locked for each look-up   *)
(* and not from one to the next.                                           *)
Scan(t, e) ==
    /\ AppMayRun
    /\ waiter[t].pc = "scan" /\ e \in waiter[t].todo
    /\ hasData' = [hasData EXCEPT ![e] = @ \/ FindByOwner(e) # NoBuffer]
    /\ waiter' = [waiter EXCEPT ![t].todo = @ \ {e}]
    /\ UNCHANGED vars

(* Broken on purpose: the flags do what "Clear data flags" (rmw_wait.cpp:45) *)
(* says, and nothing else changes.                                         *)
ReturnClears(t) ==
    /\ AppMayRun
    /\ waiter[t].pc = "scan" /\ waiter[t].todo = {}
    /\ ReturnWith(t, "ok", Flagged(t))
    /\ hasData' = [e \in Entities |-> hasData[e] /\ e \notin Serves[t]]
    /\ UNCHANGED vars

(* rmw_wait.cpp:123-146: the entities without the flag leave the set. *)
Return(t) ==
    /\ AppMayRun
    /\ waiter[t].pc = "scan" /\ waiter[t].todo = {}
    /\ ReturnWith(t, "ok", Flagged(t))
    /\ UNCHANGED <<vars, hasData>>

(* The application takes from an entity of the set, with or without        *)
(* success.                                                                *)
TakeReady(t, e) ==
    /\ waiter[t].pc = "outside" /\ e \in waiter[t].ready
    /\ taker[t].pc = "idle"
    /\ \/ \E n \in Counts : TakeFind(t, e, n)
       \/ AppMayRun /\ FindByOwner(e) = NoBuffer /\ UNCHANGED vars
    /\ waiter' = [waiter EXCEPT ![t].ready = @ \ {e}]
    /\ UNCHANGED hasData

-----------------------------------------------------------------------------
AppStep(t) ==
    \/ EnterFlagged(t) \/ \E timeout \in Timeouts : EnterBlocks(t, timeout)
    \/ Wake(t) \/ TimeOut(t)
    \/ (\E e \in Serves[t] : Scan(t, e) \/ TakeReady(t, e))
    \/ Return(t)
    \/ Take(t) /\ UNCHANGED <<hasData, waiter>>

WaitNext ==
    \/ \E r \in Receivers : Receive(r) /\ UNCHANGED <<hasData, waiter>>
    \/ \E t \in Takers : AppStep(t) \/ Poll(t)

WaitSpec == WaitInit /\ [][WaitNext]_waitVars

(* A callback that started goes on, and so does the application's loop,    *)
(* which does not only poll.  No message has to arrive.                    *)
FairWaitSpec ==
    /\ WaitSpec
    /\ \A r \in Receivers : WF_waitVars(Callback(r) /\ UNCHANGED <<hasData, waiter>>)
    /\ \A t \in Takers : WF_waitVars(AppStep(t))

-----------------------------------------------------------------------------
(* The values the variables range over. *)
WaitTypeOK ==
    /\ TypeOK
    /\ hasData \in [Entities -> BOOLEAN]
    /\ \A t \in Takers :
          /\ waiter[t].pc \in {"outside", "blocked", "scan"}
          /\ waiter[t].timeout \in Timeouts \cup {0}
          /\ waiter[t].ret \in {"none", "ok", "timeout"}
          /\ waiter[t].todo \subseteq Serves[t]
          /\ waiter[t].ready \subseteq Serves[t]

(* The items that hold a message for an entity of thread t, complete and   *)
(* not being written any more.                                             *)
Pending(t) == {b \in ToSet(alloc) \ Filling : buffer[b].owner \in Serves[t]}

(* "If there is no data and timeout is positive, wait for data"            *)
(* (rmw_wait.cpp:69): while a thread waits, any message for it is still to *)
(* be signalled, or its signal is there to be taken.  The semaphore counts *)
(* to one and a take removes one message, so this rests on the flags that  *)
(* tell a thread that more than one message may have come.                 *)
NoLostWakeup ==
    \A t \in Takers :
        waiter[t].pc = "blocked" /\ Pending(t) # {} =>
            sem = 1 \/ \E r \in Receivers : receiver[r].pc = "signal"

(* "Determine entities with data" (rmw_wait.cpp:81): an entity that        *)
(* rmw_wait leaves in the wait set has a message.                          *)
ReadyHasData ==
    [][\A t \in Takers : \A e \in waiter'[t].ready \ waiter[t].ready :
          FindByOwner(e) # NoBuffer]_waitVars

(* Thread t comes back from rmw_wait in this step. *)
Returns(t) ==
    /\ waiter'[t].pc = "outside"
    /\ waiter[t].pc # "outside" \/ waiter[t].ret # waiter'[t].ret

(* rmw_wait returns RMW_RET_OK exactly when it leaves an entity in the set *)
(* (rmw_wait.cpp:123-146).  A signal may be left over from a message that  *)
(* is taken already; that it never wakes a thread for nothing rests on the *)
(* flags, which are never reset: after its first message no thread blocks. *)
ReturnTells ==
    [][\A t \in Takers : Returns(t) =>
          (waiter'[t].ret = "ok" <=> waiter'[t].ready # {})]_waitVars

(* A call whose timeout fits in 32 bits of milliseconds and is not less    *)
(* than one of them comes back, also when no message comes.                *)
BoundedReturns ==
    \A t \in Takers :
        (/\ waiter[t].pc = "blocked"
         /\ waiter[t].timeout \in Millisecond..(Wrap * Millisecond - 1))
            ~> waiter[t].pc = "outside"

(* Once the traffic pauses every item becomes free again, also when the    *)
(* application cannot deserialize what is in it: no message that its       *)
(* executor waits for stays in the pool for good.                          *)
PoolDrains == \A b \in Items : (b \in ToSet(alloc)) ~> (b \in ToSet(free))
=============================================================================
