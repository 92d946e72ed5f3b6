---------------------------- MODULE StartupProofs ----------------------------
(***************************************************************************)
(* rmw_init and rmw_create_node for any number of threads, contexts,       *)
(* domains and nodes.  What rmw_init has taken, no other call of it gets:  *)
(* the sessions that are free, in the hands of a call, or in use are       *)
(* different ones, however often rmw_init fails and is called again.       *)
(*                                                                         *)
(* Of the nodes the same can only be said if no mutex of their pool is     *)
(* made anew while a thread holds it.  With one domain rmw_init does not   *)
(* come that far again; with more, the application has to see to it that   *)
(* none of its threads is in another call while rmw_init makes a session.  *)
(***************************************************************************)
EXTENDS Startup, SequenceTheorems, TLAPS

Steps == {"session", "buffers", "slot", "semaphore", "domain", "complete",
          "node", "subscription", "publisher", "service", "client", "participant"}

(* Where a step is in InitSteps. *)
Place(step) == CHOOSE k \in DOMAIN InitSteps : InitSteps[k] = step

PCs == Steps \cup {"idle", "node slot", "node handle", "buffer", "fills", "waits"}

ThreadType == [pc : PCs,
               context : Contexts \cup {NoContext}, slot : Nat,
               inside : Pools \cup {"none"}, mutex : Nat, waits : Nat]

PoolType == [mutex : Nat, is_initialized : BOOLEAN, free : Seq(Nat)]

Types ==
    /\ pool \in [Pools -> PoolType]
    /\ semaphore \in Nat
    /\ session \in [1..Domains -> [participant : BOOLEAN, complete : BOOLEAN]]
    /\ context \in [Contexts -> [ret : {"none", "ok", "error"}, impl : 0..Domains]]
    /\ node \in [1..MaxNodes -> 0..Domains]
    /\ handles \in Seq(1..MaxNodes)
    /\ inits \in 0..MaxInits
    /\ thread \in [Threads \cup Readers -> ThreadType]

-----------------------------------------------------------------------------
AllPools == \A p \in Pools : pool[p].is_initialized

FreeSessions == pool["session"].free
FreeNodes == pool["node"].free

InInit(t)     == thread[t].pc \in Steps
HasSession(t) == thread[t].pc \in Steps \ {"session", "buffers", "slot"}

(* Every item is free once, and no pool has items before it was made. *)
FreeOK ==
    /\ \A p \in Pools : /\ ~pool[p].is_initialized => pool[p].free = <<>>
                        /\ IsInjective(pool[p].free)
                        /\ Range(pool[p].free) \subseteq 1..Size(p)

(* One thread at a time is in rmw_init, for a context that is not ready;   *)
(* it has made the pools that come before its step.                        *)
InitOK ==
    \A t \in Threads : InInit(t) =>
        /\ thread[t].context \in Contexts
        /\ context[thread[t].context].ret # "ok"
        /\ \A u \in Threads : InInit(u) => u = t
        /\ \A p \in Pools : Place(p) < Place(thread[t].pc) => pool[p].is_initialized

(* What a call of rmw_init has done with the session it took. *)
SessionOK ==
    \A t \in Threads : HasSession(t) =>
        /\ thread[t].slot \in 1..Domains \ Range(FreeSessions)
        /\ thread[t].pc \notin {"semaphore", "domain"} =>
              context[thread[t].context].impl = thread[t].slot
        /\ thread[t].pc \notin {"semaphore", "domain", "complete"} =>
              session[thread[t].slot].complete

(* A session that is ready, and that no call of rmw_init will change. *)
Ready(s) ==
    /\ s \in 1..Domains \ Range(FreeSessions)
    /\ session[s].participant /\ session[s].complete
    /\ \A t \in Threads : HasSession(t) => thread[t].slot # s

ContextOK == \A c \in Contexts : context[c].ret = "ok" => Ready(context[c].impl) /\ AllPools

(* Nodes are made in ready sessions, with items that are no longer free. *)
NodeOK ==
    /\ \A t \in Threads : thread[t].pc = "node slot" =>
          thread[t].context \in Contexts /\ context[thread[t].context].ret = "ok"
    /\ \A t \in Threads : thread[t].pc = "node handle" =>
          /\ thread[t].slot \in 1..MaxNodes \ Range(FreeNodes)
          /\ Ready(node[thread[t].slot]) /\ AllPools
    /\ \A k \in DOMAIN handles :
          /\ handles[k] \notin Range(FreeNodes)
          /\ Ready(node[handles[k]]) /\ AllPools

(* A semaphore is made once for every session that was taken. *)
SemaphoreOK ==
    /\ ~pool["session"].is_initialized => semaphore = 0
    /\ semaphore + Len(FreeSessions) <= Domains
    /\ \A t \in Threads : thread[t].pc = "semaphore" => semaphore + Len(FreeSessions) < Domains

(* A call makes each mutex at most once. *)
CountOK ==
    \A p \in Pools :
        /\ pool[p].mutex <= inits
        /\ \A t \in Threads : InInit(t) /\ Place(thread[t].pc) <= Place(p) => pool[p].mutex < inits

(* The item that get_memory has seen is the first, or another thread with  *)
(* another mutex has got it meanwhile, which can not be in rmw_init.       *)
SeenAt(t) ==
    /\ thread[t].pc \in {"idle", "session", "buffers"} => thread[t].slot = 0
    /\ thread[t].pc = "slot" /\ thread[t].slot # 0 =>
          FreeSessions # <<>> /\ thread[t].slot = Head(FreeSessions)
    /\ thread[t].pc = "node slot" /\ thread[t].slot # 0 =>
          /\ thread[t].slot \in 1..MaxNodes
          /\ thread[t].slot \in Range(FreeNodes) =>
                FreeNodes # <<>> /\ thread[t].slot = Head(FreeNodes)

SeenOK == \A t \in Threads : SeenAt(t)

SInv == /\ Types /\ FreeOK /\ InitOK /\ SessionOK /\ ContextOK
        /\ NodeOK /\ SemaphoreOK /\ CountOK /\ SeenOK

-----------------------------------------------------------------------------
(* The order of the steps of rmw_init. *)
LEMMA StepOrder ==
  /\ Range(InitSteps) = Steps /\ Pools \subseteq Steps /\ InitSteps[1] = "session"
  /\ Place("session") = 1 /\ Place("buffers") = 2 /\ Place("slot") = 3
  /\ Place("semaphore") = 4 /\ Place("domain") = 5 /\ Place("complete") = 6
  /\ Place("node") = 7 /\ Place("subscription") = 8 /\ Place("publisher") = 9
  /\ Place("service") = 10 /\ Place("client") = 11 /\ Place("participant") = 12
<1>1. /\ DOMAIN InitSteps = 1..12
      /\ InitSteps[1] = "session" /\ InitSteps[2] = "buffers" /\ InitSteps[3] = "slot"
      /\ InitSteps[4] = "semaphore" /\ InitSteps[5] = "domain" /\ InitSteps[6] = "complete"
      /\ InitSteps[7] = "node" /\ InitSteps[8] = "subscription" /\ InitSteps[9] = "publisher"
      /\ InitSteps[10] = "service" /\ InitSteps[11] = "client" /\ InitSteps[12] = "participant"
  BY DEF InitSteps
<1>2. \A k \in 1..12 : k = 1 \/ k = 2 \/ k = 3 \/ k = 4 \/ k = 5 \/ k = 6
                    \/ k = 7 \/ k = 8 \/ k = 9 \/ k = 10 \/ k = 11 \/ k = 12
  OBVIOUS
<1>3. ASSUME NEW i \in 1..12, NEW j \in 1..12, InitSteps[i] = InitSteps[j] PROVE i = j
  BY <1>1, <1>2, <1>3
<1>4. \A k \in 1..12 : Place(InitSteps[k]) = k
  BY <1>1, <1>3 DEF Place
<1>5. Range(InitSteps) = Steps
  BY <1>1, <1>2 DEF Range, Steps
<1> QED BY <1>1, <1>4, <1>5 DEF Pools, Steps

LEMMA NextStep ==
  /\ After("session") = "buffers" /\ After("buffers") = "slot"
  /\ After("slot") = "semaphore" /\ After("semaphore") = "domain"
  /\ After("domain") = "complete" /\ After("complete") = "node"
  /\ After("node") = "subscription" /\ After("subscription") = "publisher"
  /\ After("publisher") = "service" /\ After("service") = "client"
  /\ After("client") = "participant"
<1>1. \A step : After(step) = InitSteps[Place(step) + 1]
  BY DEF After, Place
<1>2. /\ InitSteps[1+1] = "buffers" /\ InitSteps[2+1] = "slot"
      /\ InitSteps[3+1] = "semaphore" /\ InitSteps[4+1] = "domain" /\ InitSteps[5+1] = "complete"
      /\ InitSteps[6+1] = "node" /\ InitSteps[7+1] = "subscription" /\ InitSteps[8+1] = "publisher"
      /\ InitSteps[9+1] = "service" /\ InitSteps[10+1] = "client" /\ InitSteps[11+1] = "participant"
  BY DEF InitSteps
<1> QED BY <1>1, <1>2, StepOrder

-----------------------------------------------------------------------------
(* The record of a thread, and what the others see of a change of it. *)
LEMMA EnterMoves ==
  ASSUME Types, NEW t \in Threads \cup Readers, NEW p \in Pools,
         NEW pc \in PCs,
         NEW c \in Contexts \cup {NoContext}, Enter(t, p, pc, c)
  PROVE  /\ thread' \in [Threads \cup Readers -> ThreadType]
         /\ \A u \in (Threads \cup Readers) \ {t} :
               thread'[u] = thread[u] /\ (thread[u].inside = p => thread[u].mutex # pool[p].mutex)
         /\ thread'[t].pc = pc /\ thread'[t].context = c /\ thread'[t].slot = thread[t].slot
         /\ thread'[t].inside = p /\ thread'[t].mutex = pool[p].mutex
         /\ thread'[t].waits = thread[t].waits
<1> DEFINE m == pool[p].mutex
<1>1. m \in Nat
  BY DEF Types, PoolType
<1>2. /\ thread' = [thread EXCEPT ![t].pc = pc, ![t].context = c,
                                  ![t].inside = p, ![t].mutex = m]
      /\ \A u \in Threads \cup Readers : thread[u].inside = p => thread[u].mutex # m
  BY DEF Enter, Types
<1> HIDE DEF m
<1>3. thread \in [Threads \cup Readers -> ThreadType]
  BY DEF Types
<1>4. thread' \in [Threads \cup Readers -> ThreadType]
  BY <1>1, <1>2, <1>3 DEF ThreadType
<1>5. \A u \in (Threads \cup Readers) \ {t} : thread'[u] = thread[u]
  BY <1>2, <1>3
<1>6. /\ thread'[t].pc = pc /\ thread'[t].context = c /\ thread'[t].slot = thread[t].slot
      /\ thread'[t].inside = p /\ thread'[t].mutex = m
      /\ thread'[t].waits = thread[t].waits
  BY <1>2, <1>3 DEF ThreadType
<1> QED BY <1>2, <1>4, <1>5, <1>6 DEF m

LEMMA SeeMoves ==
  ASSUME Types, NEW t \in Threads \cup Readers, NEW p \in Pools, See(t, p)
  PROVE  /\ thread' \in [Threads \cup Readers -> ThreadType]
         /\ \A u \in (Threads \cup Readers) \ {t} : thread'[u] = thread[u]
         /\ thread'[t].pc = thread[t].pc /\ thread'[t].context = thread[t].context
         /\ thread'[t].inside = thread[t].inside /\ thread'[t].mutex = thread[t].mutex
         /\ thread'[t].waits = thread[t].waits
         /\ pool[p].free # <<>> /\ thread'[t].slot = Head(pool[p].free)
         /\ Head(pool[p].free) \in Range(pool[p].free)
<1>1. pool[p].free # <<>> /\ pool[p].free \in Seq(Nat)
  BY DEF See, Types, PoolType
<1>2. PICK q : q = pool[p].free
  OBVIOUS
<1>3. PICK h : h = Head(q)
  OBVIOUS
<1>4. h \in Nat /\ h \in Range(q)
  <2>1. Len(q) \in Nat \ {0} /\ DOMAIN q = 1..Len(q)
    BY <1>1, <1>2, EmptySeq, LenProperties
  <2>2. h = q[1] /\ 1 \in DOMAIN q
    BY <1>1, <1>2, <1>3, <2>1, HeadTailProperties
  <2> QED BY <1>1, <1>2, <2>1, <2>2, ElementOfSeq DEF Range
<1>5. thread' = [thread EXCEPT ![t].slot = h] /\ thread \in [Threads \cup Readers -> ThreadType]
  BY <1>2, <1>3 DEF See, Types
<1> QED BY <1>1, <1>2, <1>3, <1>4, <1>5 DEF ThreadType

LEMMA GetMoves ==
  ASSUME Types, NEW t \in Threads \cup Readers, NEW p \in Pools,
         NEW pc \in PCs,
         Get(t, p, pc)
  PROVE  /\ thread' \in [Threads \cup Readers -> ThreadType]
         /\ \A u \in (Threads \cup Readers) \ {t} : thread'[u] = thread[u]
         /\ thread'[t].pc = pc /\ thread'[t].context = thread[t].context
         /\ thread'[t].slot = thread[t].slot /\ thread[t].slot # 0
         /\ thread'[t].inside = "none" /\ thread'[t].waits = thread[t].waits
         /\ pool' \in [Pools -> PoolType]
         /\ \A q \in Pools \ {p} : pool'[q] = pool[q]
         /\ pool'[p].mutex = pool[p].mutex /\ pool'[p].is_initialized = pool[p].is_initialized
         /\ \/ /\ pool[p].free # <<>> /\ Head(pool[p].free) = thread[t].slot
               /\ pool'[p].free = Tail(pool[p].free)
            \/ /\ ~(pool[p].free # <<>> /\ Head(pool[p].free) = thread[t].slot)
               /\ pool'[p].free = pool[p].free
<1>1. thread \in [Threads \cup Readers -> ThreadType] /\ pool \in [Pools -> PoolType]
  BY DEF Types
<1>2. thread' = [thread EXCEPT ![t].pc = pc, ![t].inside = "none", ![t].mutex = 0]
  BY DEF Get
<1>3. /\ thread' \in [Threads \cup Readers -> ThreadType]
      /\ \A u \in (Threads \cup Readers) \ {t} : thread'[u] = thread[u]
      /\ thread'[t].pc = pc /\ thread'[t].context = thread[t].context
      /\ thread'[t].slot = thread[t].slot
      /\ thread'[t].inside = "none" /\ thread'[t].waits = thread[t].waits
  <2>1. thread' \in [Threads \cup Readers -> ThreadType]
    BY <1>1, <1>2 DEF ThreadType
  <2>2. \A u \in (Threads \cup Readers) \ {t} : thread'[u] = thread[u]
    BY <1>1, <1>2
  <2>3. /\ thread'[t].pc = pc /\ thread'[t].context = thread[t].context
        /\ thread'[t].slot = thread[t].slot
        /\ thread'[t].inside = "none" /\ thread'[t].waits = thread[t].waits
    BY <1>1, <1>2 DEF ThreadType
  <2> QED BY <2>1, <2>2, <2>3
<1>4. thread[t].slot # 0
  BY DEF Get
<1>5. CASE pool[p].free # <<>> /\ Head(pool[p].free) = thread[t].slot
  <2>1. PICK r : r = Tail(pool[p].free)
    OBVIOUS
  <2>2. r \in Seq(Nat)
    BY <1>1, <1>5, <2>1, HeadTailProperties DEF PoolType
  <2>3. pool' = [pool EXCEPT ![p].free = r]
    BY <1>5, <2>1 DEF Get
  <2>4. /\ pool' \in [Pools -> PoolType] /\ \A q \in Pools \ {p} : pool'[q] = pool[q]
        /\ pool'[p].mutex = pool[p].mutex /\ pool'[p].is_initialized = pool[p].is_initialized
        /\ pool'[p].free = r
    BY <1>1, <2>2, <2>3 DEF PoolType
  <2> QED BY <1>3, <1>4, <1>5, <2>1, <2>4
<1>6. CASE ~(pool[p].free # <<>> /\ Head(pool[p].free) = thread[t].slot)
  <2>1. pool' = pool
    BY <1>6 DEF Get
  <2> QED BY <1>1, <1>3, <1>4, <1>6, <2>1
<1> QED BY <1>5, <1>6

LEMMA FinishMoves ==
  ASSUME Types, NEW t \in Threads \cup Readers, Finish(t)
  PROVE  /\ thread' \in [Threads \cup Readers -> ThreadType]
         /\ \A u \in (Threads \cup Readers) \ {t} : thread'[u] = thread[u]
         /\ thread'[t].pc = "idle" /\ thread'[t].inside = "none" /\ thread'[t].slot = 0
BY DEF Finish, Idle, Types, ThreadType, PCs

LEMMA GoesMoves ==
  ASSUME Types, NEW t \in Threads \cup Readers, NEW step \in Steps \ {"participant"},
         Goes(t, step)
  PROVE  /\ thread' \in [Threads \cup Readers -> ThreadType]
         /\ \A u \in (Threads \cup Readers) \ {t} : thread'[u] = thread[u]
         /\ thread'[t].pc = After(step) /\ thread'[t].context = thread[t].context
         /\ thread'[t].slot = thread[t].slot
         /\ thread'[t].inside = thread[t].inside /\ thread'[t].waits = thread[t].waits
         /\ After(step) \in Steps /\ Place(After(step)) = Place(step) + 1
<1>1. After(step) \in Steps /\ Place(After(step)) = Place(step) + 1
  BY NextStep, StepOrder DEF Steps
<1>2. thread \in [Threads \cup Readers -> ThreadType]
  BY DEF Types
<1> QED BY <1>1, <1>2 DEF Goes, ThreadType, PCs

-----------------------------------------------------------------------------
LEMMA InitSInv ==
  ASSUME Init
  PROVE  SInv
<1>1. /\ \A t \in Threads \cup Readers :
            thread[t].pc = "idle" /\ thread[t].inside = "none" /\ thread[t].slot = 0
  BY DEF Init, Idle
<1>2. \A p \in Pools : pool[p].mutex = 0 /\ pool[p].is_initialized = FALSE /\ pool[p].free = <<>>
  BY DEF Init
<1>3. Domains \in Nat \ {0} /\ MaxNodes \in Nat \ {0} /\ MaxInits \in Nat
  BY StartupAssumption DEF Init
<1>4. Types
  <2>1. pool \in [Pools -> PoolType]
    BY DEF Init, PoolType
  <2>2. thread \in [Threads \cup Readers -> ThreadType]
    BY DEF Init, ThreadType, PCs, Idle
  <2>3. /\ semaphore \in Nat /\ handles \in Seq(1..MaxNodes)
        /\ inits \in 0..MaxInits
    BY <1>3 DEF Init
  <2>4. session \in [1..Domains -> [participant : BOOLEAN, complete : BOOLEAN]]
    BY DEF Init
  <2>5. context \in [Contexts -> [ret : {"none", "ok", "error"}, impl : 0..Domains]]
    BY <1>3 DEF Init
  <2>6. node \in [1..MaxNodes -> 0..Domains]
    BY <1>3 DEF Init
  <2> QED BY <2>1, <2>2, <2>3, <2>4, <2>5, <2>6 DEF Types
<1>5. FreeOK
  BY <1>2 DEF FreeOK, IsInjective, Range
<1>6. InitOK /\ SessionOK /\ SeenOK
  BY <1>1 DEF InitOK, InInit, SessionOK, HasSession, Steps, SeenOK, SeenAt
<1>7. ContextOK
  BY DEF Init, ContextOK
<1>8. NodeOK
  <2>1. handles = <<>> /\ DOMAIN handles = {}
    BY DEF Init
  <2> QED BY <1>1, <2>1 DEF NodeOK
<1>9. SemaphoreOK /\ CountOK
  <2>1. semaphore = 0 /\ inits = 0 /\ Len(FreeSessions) = 0
    BY <1>2 DEF Init, FreeSessions, Pools
  <2>2. \A t \in Threads : ~InInit(t) /\ thread[t].pc # "semaphore"
    BY <1>1 DEF InInit, Steps
  <2> QED BY <1>2, <1>3, <2>1, <2>2 DEF SemaphoreOK, CountOK
<1> QED BY <1>4, <1>5, <1>6, <1>7, <1>8, <1>9 DEF SInv

(* A step that leaves the pools alone, but for the items of the buffers. *)
BuffersOnly ==
    /\ pool' \in [Pools -> PoolType] /\ FreeOK'
    /\ \A q \in Pools : /\ pool'[q].mutex = pool[q].mutex
                        /\ pool'[q].is_initialized = pool[q].is_initialized
    /\ FreeSessions' = FreeSessions /\ FreeNodes' = FreeNodes

LEMMA PoolKept ==
  ASSUME SInv, UNCHANGED pool
  PROVE  BuffersOnly
BY DEF SInv, Types, FreeOK, BuffersOnly, FreeSessions, FreeNodes

(* A thread that takes no session or node, and is not on its way through   *)
(* rmw_init.                                                               *)
LEMMA QuietThread ==
  ASSUME SInv, UNCHANGED <<made, context, node, handles>>, BuffersOnly,
         NEW t \in Threads \cup Readers,
         thread' \in [Threads \cup Readers -> ThreadType],
         \A u \in (Threads \cup Readers) \ {t} : thread'[u] = thread[u],
         t \in Threads =>
            /\ ~HasSession(t)' /\ thread'[t].pc # "node handle"
            /\ InInit(t)' => thread'[t].pc = thread[t].pc /\ thread'[t].context = thread[t].context
            /\ thread'[t].pc = "node slot" =>
                  /\ thread'[t].context \in Contexts
                  /\ context[thread'[t].context].ret = "ok"
            /\ SeenAt(t)'
  PROVE  SInv'
<1> USE DEF SInv
<1>0. /\ UNCHANGED <<semaphore, session, inits>>
      /\ \A q \in Pools : /\ pool'[q].mutex = pool[q].mutex
                          /\ pool'[q].is_initialized = pool[q].is_initialized
      /\ FreeSessions' = FreeSessions /\ FreeNodes' = FreeNodes
  BY DEF made, BuffersOnly
<1>1. Types'
  BY <1>0 DEF Types, BuffersOnly
<1>2. FreeOK'
  BY DEF BuffersOnly
<1>3. \A u \in Threads : u # t => thread'[u] = thread[u]
  OBVIOUS
<1>4. t \in Threads => (InInit(t)' => InInit(t))
  BY DEF InInit
<1>5. InitOK'
  <2>1. ASSUME NEW u \in Threads, InInit(u)'
        PROVE  InInit(u) /\ thread'[u].pc = thread[u].pc /\ thread'[u].context = thread[u].context
    BY <1>3, <1>4, <2>1 DEF InInit
  <2> QED BY <1>0, <2>1 DEF InitOK
<1>6. SessionOK'
  BY <1>0, <1>3 DEF SessionOK, HasSession
<1>7. \A x : Ready(x) => Ready(x)'
  BY <1>0, <1>3 DEF Ready, HasSession
<1>0a. AllPools' <=> AllPools
  BY <1>0 DEF AllPools
<1>8. ContextOK'
  BY <1>0a, <1>7 DEF ContextOK
<1>9. NodeOK'
  <2>1. \A u \in Threads : thread'[u].pc = "node slot" =>
           thread'[u].context \in Contexts /\ context[thread'[u].context].ret = "ok"
    BY <1>3 DEF NodeOK
  <2>2. ASSUME NEW u \in Threads, thread'[u].pc = "node handle"
        PROVE  /\ thread'[u].slot \in 1..MaxNodes \ Range(FreeNodes)
               /\ Ready(node[thread[u].slot])' /\ AllPools
    <3>1. u # t /\ thread'[u] = thread[u] /\ thread[u].pc = "node handle"
      BY <2>2
    <3>2. Ready(node[thread[u].slot]) /\ AllPools
      BY <3>1 DEF NodeOK
    <3>3. Ready(node[thread[u].slot])'
      BY <1>7, <3>1, <3>2
    <3> QED BY <3>1, <3>2, <3>3 DEF NodeOK
  <2>3. \A k \in DOMAIN handles : handles[k] \notin Range(FreeNodes) /\ Ready(node[handles[k]])' /\ AllPools
    BY <1>7 DEF NodeOK
  <2> QED BY <1>0, <1>0a, <2>1, <2>2, <2>3 DEF NodeOK
<1>10. SemaphoreOK'
  <2>1. t \in Threads => thread'[t].pc # "semaphore"
    BY DEF HasSession, Steps
  <2>2. "session" \in Pools
    BY DEF Pools
  <2> QED BY <1>0, <1>3, <2>1, <2>2 DEF SemaphoreOK
<1>11. CountOK'
  BY <1>0, <1>3, <1>4 DEF CountOK, InInit
<1>12. SeenOK'
  BY <1>0, <1>3 DEF SeenOK, SeenAt
<1> QED BY <1>1, <1>2, <1>5, <1>6, <1>8, <1>9, <1>10, <1>11, <1>12

LEMMA FinishKeeps ==
  ASSUME SInv, NEW t \in Threads \cup Readers, Finish(t),
         UNCHANGED <<made, pool, context, node, handles>>
  PROVE  SInv'
<1>1. /\ thread' \in [Threads \cup Readers -> ThreadType]
      /\ \A u \in (Threads \cup Readers) \ {t} : thread'[u] = thread[u]
      /\ thread'[t].pc = "idle" /\ thread'[t].slot = 0
  BY FinishMoves DEF SInv
<1>2. ~HasSession(t)' /\ ~InInit(t)' /\ SeenAt(t)'
  BY <1>1 DEF HasSession, InInit, Steps, SeenAt
<1> QED BY <1>1, <1>2, PoolKept, QuietThread

LEMMA EnterKeeps ==
  ASSUME SInv, NEW t \in Threads \cup Readers, NEW p \in Pools, NEW pc \in PCs,
         NEW c \in Contexts \cup {NoContext}, Enter(t, p, pc, c),
         UNCHANGED <<made, pool, context, node, handles>>,
         t \in Threads => \/ pc = "slot" /\ thread[t].pc = "slot" /\ thread[t].context = c
                          \/ /\ pc = "node slot" /\ thread[t].pc = "idle"
                             /\ c \in Contexts /\ context[c].ret = "ok"
  PROVE  SInv'
<1>1. Types
  BY DEF SInv
<1>2. /\ thread' \in [Threads \cup Readers -> ThreadType]
      /\ \A u \in (Threads \cup Readers) \ {t} : thread'[u] = thread[u]
      /\ thread'[t].pc = pc /\ thread'[t].context = c /\ thread'[t].slot = thread[t].slot
  <2>1. thread' \in [Threads \cup Readers -> ThreadType]
    BY <1>1, EnterMoves
  <2>2. \A u \in (Threads \cup Readers) \ {t} : thread'[u] = thread[u]
    BY <1>1, EnterMoves, ZenonT(30)
  <2>3. thread'[t].pc = pc /\ thread'[t].context = c /\ thread'[t].slot = thread[t].slot
    BY ONLY <1>1, t \in Threads \cup Readers, p \in Pools, pc \in PCs,
            c \in Contexts \cup {NoContext}, Enter(t, p, pc, c), EnterMoves
  <2> QED BY <2>1, <2>2, <2>3
<1>3. ASSUME t \in Threads
      PROVE  /\ ~HasSession(t)' /\ thread'[t].pc # "node handle"
             /\ InInit(t)' => thread'[t].pc = thread[t].pc /\ thread'[t].context = thread[t].context
             /\ thread'[t].pc = "node slot" => c \in Contexts /\ context[c].ret = "ok"
  BY <1>2, <1>3 DEF HasSession, InInit, Steps
<1>4. t \in Threads => SeenAt(t)'
  <2>1. t \in Threads => SeenAt(t)
    BY DEF SInv, SeenOK
  <2>2. FreeSessions' = FreeSessions
    BY DEF FreeSessions
  <2> QED BY <1>2, <2>1, <2>2 DEF SeenAt
<1> QED BY <1>2, <1>3, <1>4, PoolKept, QuietThread

LEMMA WaitKeeps ==
  ASSUME SInv, NEW t \in Threads, Wait(t)
  PROVE  SInv'
<1>1. /\ UNCHANGED <<made, pool, context, node, handles>>
      /\ thread' = [thread EXCEPT ![t].pc = "waits", ![t].waits = semaphore]
  BY DEF Wait
<1>2. "waits" \in PCs
  BY DEF PCs
<1>3. /\ thread' \in [Threads \cup Readers -> ThreadType]
      /\ \A u \in (Threads \cup Readers) \ {t} : thread'[u] = thread[u]
      /\ thread'[t].pc = "waits"
  BY <1>1, <1>2, ZenonT(30) DEF SInv, Types, ThreadType
<1>4. ~HasSession(t)' /\ ~InInit(t)' /\ SeenAt(t)'
  BY <1>3 DEF HasSession, InInit, Steps, SeenAt
<1> QED BY <1>1, <1>3, <1>4, PoolKept, QuietThread

(* get_memory looks at the first free item. *)
LEMMA SeeKeeps ==
  ASSUME SInv, NEW t \in Threads \cup Readers, SeeSession(t) \/ SeeNode(t) \/ SeeBuffer(t),
         t \in Readers => SeeBuffer(t), t \in Threads => ~SeeBuffer(t)
  PROVE  SInv'
<1>0. Types /\ "session" \in Pools /\ "node" \in Pools /\ "buffers" \in Pools
  BY DEF Pools, SInv
<1>1. PICK p \in {"session", "node", "buffers"} :
         /\ See(t, p) /\ UNCHANGED <<made, pool, context, node, handles>>
         /\ p = "session" => thread[t].pc = "slot"
         /\ p = "node" => thread[t].pc = "node slot"
         /\ t \in Threads => p # "buffers"
  BY DEF SeeSession, SeeNode, SeeBuffer, Inside
<1>2. /\ thread' \in [Threads \cup Readers -> ThreadType]
      /\ \A u \in (Threads \cup Readers) \ {t} : thread'[u] = thread[u]
      /\ thread'[t].pc = thread[t].pc /\ thread'[t].context = thread[t].context
      /\ pool[p].free # <<>> /\ thread'[t].slot = Head(pool[p].free)
      /\ Head(pool[p].free) \in Range(pool[p].free)
  BY <1>0, <1>1, SeeMoves
<1>3. ASSUME t \in Threads
      PROVE  /\ ~HasSession(t)' /\ thread'[t].pc # "node handle"
             /\ thread'[t].pc = "node slot" =>
                   thread'[t].context \in Contexts /\ context[thread'[t].context].ret = "ok"
  BY <1>1, <1>2, <1>3 DEF HasSession, Steps, SInv, NodeOK
<1>4. ASSUME t \in Threads PROVE SeenAt(t)'
  <2>1. CASE p = "session"
    BY <1>1, <1>2, <2>1 DEF SeenAt, FreeSessions
  <2>2. CASE p = "node"
    <3>1. Head(FreeNodes) \in 1..MaxNodes /\ FreeNodes # <<>>
      BY <1>0, <1>2, <2>2 DEF SInv, FreeOK, Size, FreeNodes
    <3>2. thread'[t].slot = Head(FreeNodes) /\ FreeNodes' = FreeNodes
      BY <1>1, <1>2, <2>2 DEF FreeNodes
    <3> QED BY <1>1, <1>2, <2>2, <3>1, <3>2 DEF SeenAt
  <2> QED BY <1>1, <1>4, <2>1, <2>2
<1> QED BY <1>1, <1>2, <1>3, <1>4, PoolKept, QuietThread

LEMMA LockKeeps ==
  ASSUME SInv, NEW t \in Threads \cup Readers,
         \/ t \in Threads /\ (LockSessions(t) \/ \E c \in Contexts : LockNodes(t, c))
         \/ t \in Readers /\ LockBuffers(t)
  PROVE  SInv'
<1>0. /\ "slot" \in PCs /\ "node slot" \in PCs /\ "buffer" \in PCs
      /\ "session" \in Pools /\ "node" \in Pools /\ "buffers" \in Pools
      /\ t \in Readers => t \notin Threads
  BY StartupAssumption DEF PCs, Steps, Pools, StartupAssumption
<1>1. CASE t \in Threads /\ LockSessions(t)
  <2>1. thread[t].context \in Contexts \cup {NoContext}
    BY DEF SInv, Types, ThreadType
  <2>2. /\ Enter(t, "session", "slot", thread[t].context) /\ thread[t].pc = "slot"
        /\ UNCHANGED <<made, pool, context, node, handles>>
    BY <1>1 DEF LockSessions, At
  <2> QED BY <1>0, <2>1, <2>2, EnterKeeps
<1>2. CASE t \in Readers /\ LockBuffers(t)
  <2>1. /\ Enter(t, "buffers", "buffer", NoContext)
        /\ UNCHANGED <<made, pool, context, node, handles>>
    BY <1>2 DEF LockBuffers
  <2> QED BY <1>0, <1>2, <2>1, EnterKeeps
<1>3. ASSUME t \in Threads, NEW c \in Contexts, LockNodes(t, c) PROVE SInv'
  <2>1. /\ Enter(t, "node", "node slot", c) /\ context[c].ret = "ok" /\ thread[t].pc = "idle"
        /\ UNCHANGED <<made, pool, context, node, handles>>
    BY <1>3 DEF LockNodes, At
  <2> QED BY <1>0, <2>1, EnterKeeps
<1> QED BY <1>1, <1>2, <1>3

(* What a thread in rmw_init leaves to the others of what they have seen. *)
LEMMA SeenKept ==
  ASSUME SInv, NEW t \in Threads,
         \A u \in Threads \ {t} : thread'[u] = thread[u] /\ ~InInit(u),
         AllPools => pool'["node"].free = pool["node"].free,
         SeenAt(t)'
  PROVE  SeenOK'
<1>1. ASSUME NEW u \in Threads \ {t} PROVE SeenAt(u)'
  <2>1. thread'[u] = thread[u] /\ SeenAt(u) /\ thread[u].pc # "slot"
    BY DEF SInv, SeenOK, InInit, Steps
  <2>2. thread[u].pc = "node slot" => FreeNodes' = FreeNodes
    <3>1. thread[u].pc = "node slot" => AllPools
      BY DEF SInv, NodeOK, ContextOK
    <3> QED BY <3>1 DEF FreeNodes
  <2> QED BY <2>1, <2>2 DEF SeenAt
<1> QED BY <1>1 DEF SeenOK

LEMMA BeginInitKeeps ==
  ASSUME SInv, NEW t \in Threads, NEW c \in Contexts, BeginInit(t, c)
  PROVE  SInv'
<1> USE DEF SInv
<1>1. /\ UNCHANGED <<semaphore, session, pool, context, node, handles>>
      /\ inits' = inits + 1 /\ inits < MaxInits /\ context[c].ret # "ok"
      /\ thread' = [thread EXCEPT ![t].pc = "session", ![t].context = c]
      /\ thread[t].pc = "idle"
  BY StepOrder DEF BeginInit, At
<1>2. \A u \in Threads : ~InInit(u)
  BY StepOrder DEF BeginInit, Initialising, InInit
<1>3. /\ thread' \in [Threads \cup Readers -> ThreadType]
      /\ \A u \in (Threads \cup Readers) \ {t} : thread'[u] = thread[u]
      /\ thread'[t].pc = "session" /\ thread'[t].context = c
      /\ thread'[t].slot = thread[t].slot
  <2>1. "session" \in PCs
    BY DEF PCs, Steps
  <2> QED BY <1>1, <2>1, ZenonT(30) DEF Types, ThreadType
<1>4. inits \in Nat /\ inits' \in 0..MaxInits
  BY <1>1, StartupAssumption DEF Types
<1>5. Types'
  BY <1>1, <1>3, <1>4 DEF Types
<1>6. FreeOK'
  BY <1>1 DEF FreeOK, Size
<1>7. InitOK'
  <2>1. \A u \in Threads : InInit(u)' => u = t
    BY <1>2, <1>3 DEF InInit
  <2>2. \A p \in Pools : ~(Place(p) < Place("session"))
    BY StepOrder DEF Pools
  <2> QED BY <1>1, <1>3, <2>1, <2>2 DEF InitOK
<1>8. \A u \in Threads : ~HasSession(u)' /\ ~HasSession(u)
  BY <1>2, <1>3 DEF InInit, HasSession
<1>9. SessionOK'
  BY <1>8 DEF SessionOK
<1>10. \A x : Ready(x) => Ready(x)'
  BY <1>1, <1>8 DEF Ready, FreeSessions
<1>11. ContextOK'
  BY <1>1, <1>10 DEF ContextOK, AllPools
<1>12. NodeOK'
  <2>1. \A u \in Threads : thread'[u].pc = "node slot" =>
           thread'[u].context \in Contexts /\ context[thread'[u].context].ret = "ok"
    BY <1>3 DEF NodeOK
  <2>2. ASSUME NEW u \in Threads, thread'[u].pc = "node handle"
        PROVE  /\ thread'[u].slot \in 1..MaxNodes \ Range(FreeNodes)
               /\ Ready(node[thread[u].slot])' /\ AllPools
    <3>1. u # t /\ thread'[u] = thread[u] /\ thread[u].pc = "node handle"
      BY <1>3, <2>2
    <3>2. Ready(node[thread[u].slot]) /\ AllPools
      BY <3>1 DEF NodeOK
    <3>3. Ready(node[thread[u].slot])'
      BY <1>1, <1>10, <3>1, <3>2
    <3> QED BY <3>1, <3>2, <3>3 DEF NodeOK
  <2>3. \A k \in DOMAIN handles : handles[k] \notin Range(FreeNodes) /\ Ready(node[handles[k]])' /\ AllPools
    BY <1>1, <1>10 DEF NodeOK
  <2> QED BY <1>1, <2>1, <2>2, <2>3 DEF NodeOK, FreeNodes, AllPools
<1>13. SemaphoreOK'
  <2>1. thread'[t].pc # "semaphore"
    BY <1>3
  <2> QED BY <1>1, <1>3, <2>1 DEF SemaphoreOK, FreeSessions
<1>14. CountOK'
  <2>1. \A p \in Pools : pool[p].mutex \in Nat /\ pool[p].mutex <= inits
    BY DEF CountOK, Types, PoolType
  <2> QED BY <1>1, <1>4, <2>1 DEF CountOK
<1>15. SeenOK'
  <2>1. SeenAt(t)'
    BY <1>1, <1>3 DEF SeenOK, SeenAt
  <2> QED BY <1>1, <1>2, <1>3, <2>1, SeenKept
<1> QED BY <1>5, <1>6, <1>7, <1>9, <1>11, <1>12, <1>13, <1>14, <1>15

(* What an action of rmw_init leaves alone of the nodes. *)
LEMMA NodesKept ==
  ASSUME NodeOK, NEW t \in Threads,
         \A u \in Threads \ {t} : thread'[u] = thread[u],
         thread'[t].pc # "node slot", thread'[t].pc # "node handle",
         UNCHANGED <<node, handles>>,
         \A s : AllPools /\ Ready(s) => Ready(s)',
         AllPools => AllPools' /\ pool'["node"].free = pool["node"].free,
         \A c \in Contexts : context[c].ret = "ok" => context'[c].ret = "ok"
  PROVE  NodeOK'
<1>1. \A u \in Threads : thread'[u].pc = "node slot" =>
         thread'[u].context \in Contexts /\ context'[thread'[u].context].ret = "ok"
  BY DEF NodeOK
<1>2. ASSUME NEW u \in Threads, thread'[u].pc = "node handle"
      PROVE  /\ thread'[u].slot \in 1..MaxNodes \ Range(FreeNodes)'
             /\ Ready(node[thread[u].slot])' /\ AllPools'
  <2>1. u # t /\ thread'[u] = thread[u] /\ thread[u].pc = "node handle"
    BY <1>2
  <2>2. Ready(node[thread[u].slot]) /\ AllPools
    BY <2>1 DEF NodeOK
  <2>3. Ready(node[thread[u].slot])' /\ AllPools' /\ FreeNodes' = FreeNodes
    BY <2>1, <2>2 DEF FreeNodes
  <2>4. thread'[u].slot \in 1..MaxNodes \ Range(FreeNodes)'
    BY <2>1, <2>3 DEF NodeOK
  <2> QED BY <2>3, <2>4
<1>3. ASSUME NEW k \in DOMAIN handles
      PROVE  handles[k] \notin Range(FreeNodes)' /\ Ready(node[handles[k]])' /\ AllPools'
  <2>1. Ready(node[handles[k]]) /\ AllPools /\ handles[k] \notin Range(FreeNodes)
    BY DEF NodeOK
  <2>2. Ready(node[handles[k]])' /\ AllPools' /\ FreeNodes' = FreeNodes
    BY <2>1 DEF FreeNodes
  <2> QED BY <2>1, <2>2
<1>4. \A u \in Threads : thread'[u].pc = "node handle" => thread[u].slot = thread'[u].slot
  OBVIOUS
<1> QED BY <1>1, <1>2, <1>3, <1>4 DEF NodeOK

(* rmw_init fails: what it has taken is lost, and nothing else. *)
LEMMA ReturnErrorKeeps ==
  ASSUME SInv, NEW t \in Threads, InInit(t), ReturnInit(t, "error"),
         UNCHANGED <<made, pool, node, handles>>
  PROVE  SInv'
<1> USE DEF SInv
<1>1. /\ UNCHANGED <<semaphore, session, inits, pool, node, handles>>
      /\ context' = [context EXCEPT ![thread[t].context].ret = "error"]
  BY DEF ReturnInit, made
<1>2. /\ thread' \in [Threads \cup Readers -> ThreadType]
      /\ \A u \in (Threads \cup Readers) \ {t} : thread'[u] = thread[u]
      /\ thread'[t].pc = "idle" /\ thread'[t].slot = 0
  BY FinishMoves DEF ReturnInit
<1>3. thread[t].context \in Contexts /\ \A u \in Threads : InInit(u) => u = t
  BY DEF InitOK
<1>4. \A u \in Threads : ~InInit(u)' /\ ~HasSession(u)'
  BY <1>2, <1>3 DEF InInit, HasSession, Steps
<1>5. /\ context' \in [Contexts -> [ret : {"none", "ok", "error"}, impl : 0..Domains]]
      /\ \A c \in Contexts : context'[c].ret = "ok" => context[c].ret = "ok" /\ context'[c] = context[c]
      /\ \A c \in Contexts : context[c].ret = "ok" => context'[c] = context[c]
  BY <1>1, <1>3, SMTT(30) DEF Types, InitOK
<1>6. Types'
  BY <1>1, <1>2, <1>5 DEF Types
<1>7. FreeOK'
  BY <1>1 DEF FreeOK, Size
<1>8. InitOK' /\ SessionOK'
  BY <1>4 DEF InitOK, SessionOK
<1>9. \A x : Ready(x) => Ready(x)'
  BY <1>1, <1>4 DEF Ready, FreeSessions
<1>10. ContextOK'
  BY <1>1, <1>5, <1>9 DEF ContextOK, AllPools
<1>11. NodeOK'
  <2>1. AllPools => AllPools' /\ pool'["node"].free = pool["node"].free
    BY <1>1 DEF AllPools
  <2> QED BY <1>1, <1>2, <1>5, <1>9, <2>1, NodesKept
<1>12. SemaphoreOK' /\ CountOK'
  <2>1. \A u \in Threads : thread'[u].pc # "semaphore"
    BY <1>4 DEF InInit, Steps
  <2> QED BY <1>1, <1>4, <2>1 DEF SemaphoreOK, CountOK, FreeSessions
<1>13. SeenOK'
  <2>1. SeenAt(t)'
    BY <1>2 DEF SeenAt
  <2> QED BY <1>1, <1>2, <1>3, <2>1, SeenKept
<1> QED BY <1>6, <1>7, <1>8, <1>10, <1>11, <1>12, <1>13

(* rmw_init succeeds, with a participant. *)
LEMMA ReturnOkKeeps ==
  ASSUME SInv, NEW t \in Threads, thread[t].pc = "participant", ReturnInit(t, "ok"),
         session[thread[t].slot].participant,
         UNCHANGED <<made, pool, node, handles>>
  PROVE  SInv'
<1> USE DEF SInv
<1>1. /\ UNCHANGED <<semaphore, session, inits, pool, node, handles>>
      /\ context' = [context EXCEPT ![thread[t].context].ret = "ok"]
  BY DEF ReturnInit, made
<1>2. /\ thread' \in [Threads \cup Readers -> ThreadType]
      /\ \A u \in (Threads \cup Readers) \ {t} : thread'[u] = thread[u]
      /\ thread'[t].pc = "idle" /\ thread'[t].slot = 0
  BY FinishMoves DEF ReturnInit
<1>3. InInit(t) /\ HasSession(t)
  BY DEF InInit, HasSession, Steps
<1>4. thread[t].context \in Contexts /\ \A u \in Threads : InInit(u) => u = t
  BY <1>3 DEF InitOK
<1>5. \A u \in Threads : ~InInit(u)' /\ ~HasSession(u)'
  BY <1>2, <1>4 DEF InInit, HasSession, Steps
<1>6. /\ context' \in [Contexts -> [ret : {"none", "ok", "error"}, impl : 0..Domains]]
      /\ \A c \in Contexts : context'[c].impl = context[c].impl
      /\ \A c \in Contexts : context'[c].ret = "ok" => context[c].ret = "ok" \/ c = thread[t].context
      /\ \A c \in Contexts : context[c].ret = "ok" => context'[c].ret = "ok"
  BY <1>1, <1>4, SMTT(30) DEF Types
<1>7. Types'
  BY <1>1, <1>2, <1>6 DEF Types
<1>8. FreeOK'
  BY <1>1 DEF FreeOK, Size
<1>9. InitOK' /\ SessionOK'
  BY <1>5 DEF InitOK, SessionOK
<1>10. \A x : Ready(x) => Ready(x)'
  BY <1>1, <1>5 DEF Ready, FreeSessions
<1>11. ContextOK'
  <2>1. AllPools
    BY <1>3, StepOrder DEF InitOK, AllPools, Pools
  <2>2. PICK d, s : d = thread[t].context /\ s = thread[t].slot
    OBVIOUS
  <2>3. /\ context[d].impl = s /\ s \in 1..Domains \ Range(FreeSessions)
        /\ session[s].complete /\ session[s].participant
    BY <1>3, <2>2 DEF SessionOK
  <2>4. Ready(s)'
    BY <1>1, <1>5, <2>3 DEF Ready, FreeSessions
  <2>5. \A c \in Contexts : context'[c].ret = "ok" => Ready(context[c].impl)'
    <3>1. SUFFICES ASSUME NEW c \in Contexts, context'[c].ret = "ok"
                   PROVE  Ready(context[c].impl)'
      OBVIOUS
    <3>2. PICK x : x = context[c].impl
      OBVIOUS
    <3>3. Ready(x)'
      <4>1. CASE c = d
        BY <2>3, <2>4, <3>2, <4>1
      <4>2. CASE c # d
        BY <1>6, <1>10, <2>2, <3>1, <3>2, <4>2 DEF ContextOK
      <4> QED BY <4>1, <4>2
    <3>4. context'[c].impl = x
      BY <1>6, <3>2
    <3> QED BY <3>3, <3>4
  <2> QED BY <1>1, <2>1, <2>5 DEF ContextOK, AllPools
<1>12. NodeOK'
  <2>1. AllPools => AllPools' /\ pool'["node"].free = pool["node"].free
    BY <1>1 DEF AllPools
  <2> QED BY <1>1, <1>2, <1>6, <1>10, <2>1, NodesKept
<1>13. SemaphoreOK' /\ CountOK'
  <2>1. \A u \in Threads : thread'[u].pc # "semaphore"
    BY <1>5 DEF InInit, Steps
  <2> QED BY <1>1, <1>5, <2>1 DEF SemaphoreOK, CountOK, FreeSessions
<1>14. SeenOK'
  <2>1. SeenAt(t)'
    BY <1>2 DEF SeenAt
  <2> QED BY <1>1, <1>2, <1>4, <2>1, SeenKept
<1> QED BY <1>7, <1>8, <1>9, <1>11, <1>12, <1>13, <1>14

(* The thread in rmw_init goes on with a further step. *)
LEMMA StepTaken ==
  ASSUME InitOK, NEW t \in Threads, InInit(t), InInit(t)',
         \A u \in Threads \ {t} : thread'[u] = thread[u],
         thread'[t].context = thread[t].context,
         \A c \in Contexts : context'[c].ret = context[c].ret,
         \A p \in Pools : Place(p) < Place(thread'[t].pc) => pool'[p].is_initialized
  PROVE  /\ InitOK'
         /\ \A u \in Threads \ {t} : /\ ~InInit(u) /\ ~InInit(u)'
                                     /\ ~HasSession(u) /\ ~HasSession(u)'
<1>1. /\ thread[t].context \in Contexts /\ context[thread[t].context].ret # "ok"
      /\ \A u \in Threads : InInit(u) => u = t
  BY DEF InitOK
<1>2. \A u \in Threads \ {t} : ~InInit(u) /\ ~InInit(u)'
  BY <1>1 DEF InInit
<1>3. \A u \in Threads \ {t} : ~HasSession(u) /\ ~HasSession(u)'
  BY <1>2 DEF InInit, HasSession
<1>4. InitOK'
  BY <1>1, <1>2 DEF InitOK
<1> QED BY <1>2, <1>3, <1>4

(* A step that makes no pool. *)
LEMMA PlacesBefore ==
  ASSUME InitOK, NEW t \in Threads, InInit(t), UNCHANGED pool, thread[t].pc \notin Pools,
         thread[t].pc # "participant", thread'[t].pc = After(thread[t].pc)
  PROVE  /\ \A p \in Pools : Place(p) < Place(thread'[t].pc) => pool'[p].is_initialized
         /\ \A p \in Pools : Place(p) # Place(thread[t].pc)
         /\ Place(thread'[t].pc) = Place(thread[t].pc) + 1
<1>1. thread[t].pc \in {"slot", "semaphore", "domain", "complete"}
  BY DEF InInit, Steps, Pools
<1>2. /\ Place(thread'[t].pc) = Place(thread[t].pc) + 1
      /\ Place(thread[t].pc) \in {3, 4, 5, 6}
  BY <1>1, StepOrder, NextStep
<1>3. \A p \in Pools : Place(p) \in Nat /\ Place(p) \notin {3, 4, 5, 6}
  BY StepOrder DEF Pools
<1>4. \A p \in Pools : Place(p) < Place(thread'[t].pc) => Place(p) < Place(thread[t].pc)
  BY <1>2, <1>3
<1> QED BY <1>2, <1>3, <1>4 DEF InitOK

(* A thread between two steps of rmw_init that takes no session. *)
LEMMA MovesOn ==
  ASSUME Types, NEW t \in Threads, At(t, thread[t].pc), thread[t].pc \in Steps \ {"participant"},
         Goes(t, thread[t].pc)
  PROVE  /\ thread' \in [Threads \cup Readers -> ThreadType]
         /\ \A u \in (Threads \cup Readers) \ {t} : thread'[u] = thread[u]
         /\ thread'[t].pc = After(thread[t].pc) /\ thread'[t].context = thread[t].context
         /\ thread'[t].slot = thread[t].slot
         /\ InInit(t) /\ InInit(t)'
<1>1. PICK step : step = thread[t].pc
  OBVIOUS
<1>2. Goes(t, step) /\ step \in Steps \ {"participant"}
  BY <1>1 DEF Goes
<1>3. /\ thread' \in [Threads \cup Readers -> ThreadType]
      /\ \A u \in (Threads \cup Readers) \ {t} : thread'[u] = thread[u]
      /\ thread'[t].pc = After(step) /\ thread'[t].context = thread[t].context
      /\ thread'[t].slot = thread[t].slot /\ After(step) \in Steps
  BY <1>2, GoesMoves
<1>4. InInit(t) /\ InInit(t)'
  BY <1>1, <1>2, <1>3 DEF InInit
<1> QED BY <1>1, <1>3, <1>4

(* The items of a pool that was not made before. *)
LEMMA NewItems ==
  ASSUME NEW n \in Nat
  PROVE  LET new == [k \in 1..n |-> n + 1 - k]
         IN  /\ new \in Seq(Nat) /\ Len(new) = n
             /\ IsInjective(new) /\ Range(new) \subseteq 1..n
<1> DEFINE new == [k \in 1..n |-> n + 1 - k]
<1>1. new \in Seq(Nat) /\ Len(new) = n
  <2>1. \A k \in 1..n : new[k] \in Nat
    OBVIOUS
  <2> QED BY <2>1
<1>2. IsInjective(new)
  BY DEF IsInjective
<1>3. Range(new) \subseteq 1..n
  BY DEF Range
<1> QED BY <1>1, <1>2, <1>3

LEMMA PoolMade ==
  ASSUME SInv, NEW t \in Threads, NEW p \in Pools, MakePool(t, p)
  PROVE  /\ UNCHANGED <<semaphore, session, inits, context, node, handles>>
         /\ pool' \in [Pools -> PoolType]
         /\ \A q \in Pools \ {p} : pool'[q] = pool[q]
         /\ pool'[p].mutex = pool[p].mutex + 1 /\ pool'[p].is_initialized
         /\ pool[p].is_initialized => pool'[p].free = pool[p].free
         /\ ~pool[p].is_initialized => Len(pool'[p].free) = Size(p)
         /\ IsInjective(pool'[p].free) /\ Range(pool'[p].free) \subseteq 1..Size(p)
<1>1. UNCHANGED <<semaphore, session, inits, context, node, handles>>
  BY DEF MakePool, made
<1>2. Size(p) \in Nat
  BY StartupAssumption DEF Size, SInv, Types
<1>3. PICK new : new = [k \in 1..Size(p) |-> Size(p) + 1 - k]
  OBVIOUS
<1>4. /\ new \in Seq(Nat) /\ Len(new) = Size(p)
      /\ IsInjective(new) /\ Range(new) \subseteq 1..Size(p)
  BY <1>2, <1>3, NewItems
<1>5. PICK free : free = IF Loads(p) THEN new ELSE pool[p].free
  OBVIOUS
<1>6. pool \in [Pools -> PoolType] /\ pool[p].free \in Seq(Nat) /\ pool[p].mutex \in Nat
  BY DEF SInv, Types, PoolType
<1>7. free \in Seq(Nat) /\ IsInjective(free) /\ Range(free) \subseteq 1..Size(p)
  BY <1>4, <1>5, <1>6 DEF SInv, FreeOK
<1>8. pool' = [pool EXCEPT ![p] = [mutex |-> pool[p].mutex + 1, is_initialized |-> TRUE,
                                   free |-> free]]
  BY <1>3, <1>5 DEF MakePool
<1>9. /\ \A q \in Pools \ {p} : pool'[q] = pool[q]
      /\ pool'[p] = [mutex |-> pool[p].mutex + 1, is_initialized |-> TRUE, free |-> free]
  BY <1>6, <1>8
<1>10. pool' \in [Pools -> PoolType]
  <2>1. pool'[p] \in PoolType
    BY <1>6, <1>7, <1>9 DEF PoolType
  <2> QED BY <1>6, <1>8, <1>9, <2>1
<1> QED BY <1>1, <1>4, <1>5, <1>7, <1>9, <1>10 DEF Loads

LEMMA MakePoolKeeps ==
  ASSUME SInv, NEW t \in Threads, NEW p \in Pools, MakePool(t, p)
  PROVE  SInv'
<1> USE DEF SInv
<1>1. /\ UNCHANGED <<semaphore, session, inits, context, node, handles>>
      /\ pool' \in [Pools -> PoolType]
      /\ \A q \in Pools \ {p} : pool'[q] = pool[q]
      /\ pool'[p].mutex = pool[p].mutex + 1 /\ pool'[p].is_initialized
      /\ pool[p].is_initialized => pool'[p].free = pool[p].free
      /\ ~pool[p].is_initialized => Len(pool'[p].free) = Size(p)
      /\ IsInjective(pool'[p].free) /\ Range(pool'[p].free) \subseteq 1..Size(p)
  BY PoolMade
<1>2. thread[t].pc = p /\ p \in Steps \ {"participant"}
  BY StepOrder DEF MakePool, At, Pools
<1>3. /\ thread' \in [Threads \cup Readers -> ThreadType]
      /\ \A u \in (Threads \cup Readers) \ {t} : thread'[u] = thread[u]
      /\ thread'[t].pc = After(p) /\ thread'[t].context = thread[t].context
      /\ thread'[t].slot = thread[t].slot
      /\ InInit(t) /\ InInit(t)'
  BY <1>2, MovesOn DEF MakePool
<1>4. Place(After(p)) = Place(p) + 1 /\ Place(p) \in Nat /\ \A q \in Pools : Place(q) \in Nat
  BY <1>2, StepOrder, NextStep DEF Pools
<1>5. \A q \in Pools : Place(q) = Place(p) => q = p
  BY StepOrder DEF Pools
<1>6. \A q \in Pools : Place(q) < Place(thread'[t].pc) => pool'[q].is_initialized
  <2>1. SUFFICES ASSUME NEW q \in Pools, Place(q) < Place(p) + 1, q # p
                 PROVE  pool'[q].is_initialized
    BY <1>1, <1>3, <1>4
  <2>2. Place(q) < Place(thread[t].pc)
    BY <1>2, <1>4, <1>5, <2>1
  <2> QED BY <1>1, <1>3, <2>1, <2>2 DEF InitOK
<1>7. /\ InitOK'
      /\ \A u \in Threads \ {t} : /\ ~InInit(u) /\ ~InInit(u)'
                                  /\ ~HasSession(u) /\ ~HasSession(u)'
  BY <1>1, <1>3, <1>6, StepTaken
<1>8. Types'
  BY <1>1, <1>3 DEF Types
<1>9. FreeOK'
  BY <1>1 DEF FreeOK, Size
<1>10. AllPools => AllPools' /\ \A q \in Pools : pool'[q].free = pool[q].free
  BY <1>1 DEF AllPools
<1>11. HasSession(t) <=> HasSession(t)'
  BY <1>2, <1>3, NextStep DEF HasSession, Steps, Pools
<1>12. HasSession(t) => FreeSessions' = FreeSessions
  <2>1. HasSession(t) => p # "session"
    BY <1>2 DEF HasSession
  <2> QED BY <1>1, <2>1 DEF FreeSessions, Pools
<1>13. SessionOK'
  <2>1. thread[t].pc \notin {"semaphore", "domain", "complete"}
    BY <1>2 DEF Pools
  <2>2. HasSession(t) =>
           /\ thread[t].slot \in 1..Domains \ Range(FreeSessions)
           /\ context[thread[t].context].impl = thread[t].slot
           /\ session[thread[t].slot].complete
    BY <2>1 DEF SessionOK
  <2> QED BY <1>1, <1>3, <1>7, <1>11, <1>12, <2>2 DEF SessionOK
<1>14. \A x : AllPools /\ Ready(x) => Ready(x)'
  <2>1. AllPools => FreeSessions' = FreeSessions
    BY <1>10 DEF FreeSessions, Pools
  <2> QED BY <1>1, <1>3, <1>7, <1>11, <2>1 DEF Ready
<1>15. ContextOK'
  BY <1>1, <1>10, <1>14 DEF ContextOK
<1>16. NodeOK'
  <2>1. thread'[t].pc # "node slot" /\ thread'[t].pc # "node handle"
    BY <1>3 DEF InInit, Steps
  <2>2. AllPools => pool'["node"].free = pool["node"].free
    BY <1>10 DEF Pools
  <2> QED BY <1>1, <1>3, <1>10, <1>14, <2>1, <2>2, NodesKept
<1>17. SemaphoreOK'
  <2>1. \A u \in Threads : thread'[u].pc # "semaphore"
    BY <1>2, <1>3, <1>7, NextStep DEF InInit, Steps, Pools
  <2>2. ~pool'["session"].is_initialized => semaphore = 0
    BY <1>1 DEF SemaphoreOK, Pools
  <2>3. semaphore + Len(FreeSessions') <= Domains
    <3>1. CASE p = "session" /\ ~pool[p].is_initialized
      <4>1. semaphore = 0 /\ Len(FreeSessions') = Domains
        BY <1>1, <3>1 DEF SemaphoreOK, FreeSessions, Size
      <4>2. Domains \in Nat
        BY StartupAssumption DEF Types
      <4> QED BY <4>1, <4>2
    <3>2. CASE ~(p = "session" /\ ~pool[p].is_initialized)
      <4>1. FreeSessions' = FreeSessions
        BY <1>1, <3>2 DEF FreeSessions, Pools
      <4> QED BY <4>1 DEF SemaphoreOK
    <3> QED BY <3>1, <3>2
  <2> QED BY <1>1, <2>1, <2>2, <2>3 DEF SemaphoreOK, FreeSessions
<1>18. CountOK'
  <2>1. \A q \in Pools : pool[q].mutex \in Nat /\ inits \in Nat
    BY StartupAssumption DEF Types, PoolType
  <2>2. pool[p].mutex < inits
    BY <1>2, <1>3, <1>4 DEF CountOK
  <2>3. \A q \in Pools : Place(After(p)) <= Place(q) => q # p /\ Place(p) <= Place(q)
    BY <1>4
  <2>4. \A q \in Pools \ {p} : Place(p) <= Place(q) => pool[q].mutex < inits
    BY <1>2, <1>3 DEF CountOK
  <2>5. \A q \in Pools : pool'[q].mutex <= inits
    BY <1>1, <2>1, <2>2 DEF CountOK
  <2>6. ASSUME NEW q \in Pools, NEW u \in Threads, InInit(u)', Place(thread'[u].pc) <= Place(q)
        PROVE  pool'[q].mutex < inits
    BY <1>1, <1>3, <1>7, <2>3, <2>4, <2>6
  <2> QED BY <1>1, <2>5, <2>6 DEF CountOK
<1>19. SeenOK'
  <2>1. SeenAt(t)'
    <3>1. SeenAt(t) /\ thread[t].pc \in Pools
      BY <1>2 DEF SeenOK
    <3>2. /\ thread'[t].pc = "buffers" => thread[t].pc = "session"
          /\ thread'[t].pc = "slot" => thread[t].pc = "buffers"
          /\ thread'[t].pc \notin {"idle", "session", "node slot"}
      BY <1>2, <1>3, NextStep DEF Pools
    <3> QED BY <1>3, <3>1, <3>2 DEF SeenAt
  <2>2. AllPools => pool'["node"].free = pool["node"].free
    BY <1>10 DEF Pools
  <2> QED BY <1>3, <1>7, <2>1, <2>2, SeenKept
<1> QED BY <1>7, <1>8, <1>9, <1>13, <1>15, <1>16, <1>17, <1>18, <1>19

LEMMA NewSemaphoreKeeps ==
  ASSUME SInv, NEW t \in Threads, NewSemaphore(t)
  PROVE  SInv'
<1> USE DEF SInv
<1>1. /\ UNCHANGED <<session, inits, pool, context, node, handles>>
      /\ semaphore' = semaphore + 1 /\ thread[t].pc = "semaphore"
  BY DEF NewSemaphore, At
<1>2. /\ thread' \in [Threads \cup Readers -> ThreadType]
      /\ \A u \in (Threads \cup Readers) \ {t} : thread'[u] = thread[u]
      /\ thread'[t].pc = "domain" /\ thread'[t].context = thread[t].context
      /\ thread'[t].slot = thread[t].slot
      /\ InInit(t) /\ InInit(t)'
  BY <1>1, MovesOn, NextStep DEF NewSemaphore, Steps
<1>3. /\ \A p \in Pools : Place(p) < Place(thread'[t].pc) => pool'[p].is_initialized
      /\ \A p \in Pools : Place(p) # Place(thread[t].pc)
      /\ Place(thread'[t].pc) = Place(thread[t].pc) + 1
  BY <1>1, <1>2, NextStep, PlacesBefore DEF Pools
<1>4. /\ InitOK'
      /\ \A u \in Threads \ {t} : /\ ~InInit(u) /\ ~InInit(u)'
                                  /\ ~HasSession(u) /\ ~HasSession(u)'
  BY <1>1, <1>2, <1>3, StepTaken
<1>5. HasSession(t) /\ HasSession(t)'
  BY <1>1, <1>2 DEF HasSession, Steps
<1>6. Domains \in Nat /\ semaphore \in Nat /\ Len(FreeSessions) \in Nat
  BY StartupAssumption, SMTT(30) DEF Types, FreeSessions, PoolType, Pools
<1>7. Types'
  BY <1>1, <1>2, <1>6 DEF Types
<1>8. FreeOK'
  BY <1>1 DEF FreeOK, Size
<1>9. SessionOK'
  BY <1>1, <1>2, <1>4, <1>5 DEF SessionOK, FreeSessions
<1>10. \A x : Ready(x) => Ready(x)'
  BY <1>1, <1>2, <1>4, <1>5 DEF Ready, FreeSessions
<1>11. ContextOK'
  BY <1>1, <1>10 DEF ContextOK, AllPools
<1>12. NodeOK'
  <2>1. AllPools => AllPools' /\ pool'["node"].free = pool["node"].free
    BY <1>1 DEF AllPools
  <2> QED BY <1>1, <1>2, <1>10, <2>1, NodesKept
<1>13. SemaphoreOK'
  <2>1. pool["session"].is_initialized
    BY <1>1, <1>2, StepOrder DEF InitOK, Pools
  <2>2. \A u \in Threads : thread'[u].pc # "semaphore"
    BY <1>2, <1>4 DEF InInit, Steps
  <2>3. semaphore' + Len(FreeSessions) <= Domains
    BY <1>1, <1>6 DEF SemaphoreOK
  <2> QED BY <1>1, <2>1, <2>2, <2>3 DEF SemaphoreOK, FreeSessions
<1>14. CountOK'
  <2>1. \A p \in Pools : Place(p) \in Nat /\ Place(thread[t].pc) \in Nat
    BY <1>1, StepOrder DEF Pools
  <2>2. \A p \in Pools : Place(thread'[t].pc) <= Place(p) => Place(thread[t].pc) <= Place(p)
    BY <1>3, <2>1
  <2>3. ASSUME NEW p \in Pools, NEW u \in Threads, InInit(u)', Place(thread'[u].pc) <= Place(p)
        PROVE  pool[p].mutex < inits
    BY <1>2, <1>4, <2>2, <2>3 DEF CountOK
  <2> QED BY <1>1, <2>3 DEF CountOK
<1>15. SeenOK'
  <2>1. SeenAt(t)'
    BY <1>2 DEF SeenAt
  <2> QED BY <1>1, <1>2, <1>4, <2>1, SeenKept
<1> QED BY <1>4, <1>7, <1>8, <1>9, <1>11, <1>12, <1>13, <1>14, <1>15

(* The steps that write the session that the call has taken. *)
LEMMA SessionStepKeeps ==
  ASSUME SInv, NEW t \in Threads, At(t, thread[t].pc), Goes(t, thread[t].pc),
         thread[t].pc \in {"domain", "complete"},
         UNCHANGED <<semaphore, inits, pool, node, handles>>,
         session' \in [1..Domains -> [participant : BOOLEAN, complete : BOOLEAN]],
         \A s \in 1..Domains \ {thread[t].slot} : session'[s] = session[s],
         context' \in [Contexts -> [ret : {"none", "ok", "error"}, impl : 0..Domains]],
         \A c \in Contexts : context'[c].ret = context[c].ret,
         \A c \in Contexts \ {thread[t].context} : context'[c] = context[c],
         context'[thread[t].context].impl = thread[t].slot,
         thread[t].pc = "complete" => session'[thread[t].slot].complete
  PROVE  SInv'
<1> USE DEF SInv
<1>1. thread[t].pc \in Steps \ {"participant"} /\ thread[t].pc \notin Pools
  BY DEF Steps, Pools
<1>2. /\ thread' \in [Threads \cup Readers -> ThreadType]
      /\ \A u \in (Threads \cup Readers) \ {t} : thread'[u] = thread[u]
      /\ thread'[t].pc = After(thread[t].pc) /\ thread'[t].context = thread[t].context
      /\ thread'[t].slot = thread[t].slot
      /\ InInit(t) /\ InInit(t)'
  BY <1>1, MovesOn
<1>3. /\ \A p \in Pools : Place(p) < Place(thread'[t].pc) => pool'[p].is_initialized
      /\ \A p \in Pools : Place(p) # Place(thread[t].pc)
      /\ Place(thread'[t].pc) = Place(thread[t].pc) + 1
  BY <1>1, <1>2, PlacesBefore
<1>4. /\ InitOK'
      /\ \A u \in Threads \ {t} : /\ ~InInit(u) /\ ~InInit(u)'
                                  /\ ~HasSession(u) /\ ~HasSession(u)'
  BY <1>2, <1>3, StepTaken
<1>5. /\ HasSession(t) /\ HasSession(t)'
      /\ thread'[t].pc \in {"complete", "node"}
      /\ thread'[t].pc = "node" => thread[t].pc = "complete"
  BY <1>2, NextStep DEF HasSession, Steps
<1>6. Types'
  BY <1>2 DEF Types
<1>7. FreeOK'
  BY DEF FreeOK, Size
<1>8. SessionOK'
  BY <1>2, <1>4, <1>5 DEF SessionOK, FreeSessions
<1>9. \A x : Ready(x) => Ready(x)'
  BY <1>2, <1>4, <1>5 DEF Ready, FreeSessions
<1>10. ContextOK'
  <2>1. context[thread[t].context].ret # "ok"
    BY <1>2 DEF InitOK
  <2>2. ASSUME NEW c \in Contexts, context'[c].ret = "ok" PROVE Ready(context[c].impl)' /\ AllPools
    <3>1. context[c].ret = "ok" /\ context'[c] = context[c]
      BY <2>1, <2>2
    <3>2. PICK x : x = context[c].impl
      OBVIOUS
    <3>3. Ready(x)' /\ AllPools
      BY <1>9, <3>1, <3>2 DEF ContextOK
    <3>4. context'[c].impl = x
      BY <3>1, <3>2
    <3> QED BY <3>3, <3>4
  <2> QED BY <2>2 DEF ContextOK, AllPools
<1>11. NodeOK'
  <2>1. AllPools => AllPools' /\ pool'["node"].free = pool["node"].free
    BY DEF AllPools
  <2>2. thread'[t].pc # "node slot" /\ thread'[t].pc # "node handle"
    BY <1>5
  <2> QED BY <1>2, <1>9, <2>1, <2>2, NodesKept
<1>12. SemaphoreOK'
  <2>1. \A u \in Threads : thread'[u].pc # "semaphore"
    BY <1>4, <1>5 DEF InInit, Steps
  <2> QED BY <2>1 DEF SemaphoreOK, FreeSessions
<1>13. CountOK'
  <2>1. \A p \in Pools : Place(p) \in Nat /\ Place(thread[t].pc) \in Nat
    BY StepOrder DEF Pools
  <2>2. \A p \in Pools : Place(thread'[t].pc) <= Place(p) => Place(thread[t].pc) <= Place(p)
    BY <1>3, <2>1
  <2>3. ASSUME NEW p \in Pools, NEW u \in Threads, InInit(u)', Place(thread'[u].pc) <= Place(p)
        PROVE  pool[p].mutex < inits
    BY <1>2, <1>4, <2>2, <2>3 DEF CountOK
  <2> QED BY <2>3 DEF CountOK
<1>14. SeenOK'
  <2>1. SeenAt(t)'
    BY <1>5 DEF SeenAt
  <2> QED BY <1>2, <1>4, <2>1, SeenKept
<1> QED BY <1>4, <1>6, <1>7, <1>8, <1>10, <1>11, <1>12, <1>13, <1>14

LEMMA NewDomainKeeps ==
  ASSUME SInv, NEW t \in Threads, NewDomain(t)
  PROVE  SInv'
<1>1. /\ At(t, thread[t].pc) /\ Goes(t, thread[t].pc) /\ thread[t].pc = "domain"
      /\ UNCHANGED <<semaphore, inits, pool, node, handles>>
  BY DEF NewDomain, At
<1>2. thread[t].slot \in 1..Domains /\ thread[t].context \in Contexts
  BY <1>1 DEF SInv, SessionOK, HasSession, InitOK, InInit, Steps
<1>3. /\ session' \in [1..Domains -> [participant : BOOLEAN, complete : BOOLEAN]]
      /\ \A s \in 1..Domains \ {thread[t].slot} : session'[s] = session[s]
  <2>1. PICK b \in BOOLEAN : session' = [session EXCEPT ![thread[t].slot] =
                                         [participant |-> b, complete |-> FALSE]]
    BY DEF NewDomain
  <2> QED BY <1>2, <2>1 DEF SInv, Types
<1>4. /\ context' \in [Contexts -> [ret : {"none", "ok", "error"}, impl : 0..Domains]]
      /\ \A c \in Contexts : context'[c].ret = context[c].ret
      /\ \A c \in Contexts \ {thread[t].context} : context'[c] = context[c]
      /\ context'[thread[t].context].impl = thread[t].slot
  <2>1. PICK c, s : c = thread[t].context /\ s = thread[t].slot
    OBVIOUS
  <2>2. context' = [context EXCEPT ![c].impl = s] /\ c \in Contexts /\ s \in 0..Domains
    BY <1>2, <2>1, StartupAssumption DEF NewDomain
  <2> QED BY <2>1, <2>2 DEF SInv, Types
<1> QED BY <1>1, <1>3, <1>4, SessionStepKeeps

LEMMA CompleteInitKeeps ==
  ASSUME SInv, NEW t \in Threads, CompleteInit(t)
  PROVE  SInv'
<1>1. /\ At(t, thread[t].pc) /\ Goes(t, thread[t].pc) /\ thread[t].pc = "complete"
      /\ UNCHANGED <<semaphore, inits, pool, context, node, handles>>
  BY DEF CompleteInit, At
<1>2. /\ thread[t].slot \in 1..Domains /\ thread[t].context \in Contexts
      /\ context[thread[t].context].impl = thread[t].slot
  BY <1>1 DEF SInv, SessionOK, HasSession, InitOK, InInit, Steps
<1>3. /\ session' \in [1..Domains -> [participant : BOOLEAN, complete : BOOLEAN]]
      /\ \A s \in 1..Domains \ {thread[t].slot} : session'[s] = session[s]
      /\ session'[thread[t].slot].complete
  BY <1>2 DEF CompleteInit, SInv, Types
<1>4. context' \in [Contexts -> [ret : {"none", "ok", "error"}, impl : 0..Domains]]
  BY <1>1 DEF SInv, Types
<1> QED BY <1>1, <1>2, <1>3, <1>4, SessionStepKeeps

(* The first item of a pool is not among the others. *)
LEMMA FirstItem ==
  ASSUME NEW q \in Seq(Nat), q # <<>>, IsInjective(q)
  PROVE  /\ Tail(q) \in Seq(Nat) /\ Len(q) \in Nat \ {0} /\ Len(Tail(q)) = Len(q) - 1
         /\ IsInjective(Tail(q)) /\ Range(Tail(q)) \subseteq Range(q)
         /\ Head(q) \in Range(q) \ Range(Tail(q))
<1>1. /\ Tail(q) \in Seq(Nat) /\ Len(q) \in Nat \ {0} /\ Len(Tail(q)) = Len(q) - 1
      /\ \A k \in 1..Len(q) - 1 : Tail(q)[k] = q[k + 1]
      /\ Head(q) = q[1]
  <2>1. Len(q) \in Nat \ {0}
    BY EmptySeq, LenProperties
  <2> QED BY <2>1, HeadTailProperties
<1>2. DOMAIN q = 1..Len(q) /\ DOMAIN Tail(q) = 1..Len(q) - 1
  BY <1>1, LenProperties
<1>3. \A i, j \in 1..Len(q) : q[i] = q[j] => i = j
  BY <1>2 DEF IsInjective
<1>4. IsInjective(Tail(q))
  <2>1. SUFFICES ASSUME NEW i \in 1..Len(q) - 1, NEW j \in 1..Len(q) - 1, Tail(q)[i] = Tail(q)[j]
                 PROVE  i = j
    BY <1>2 DEF IsInjective
  <2>2. q[i + 1] = q[j + 1] /\ i + 1 \in 1..Len(q) /\ j + 1 \in 1..Len(q)
    BY <1>1, <2>1
  <2>3. i + 1 = j + 1
    BY <1>3, <2>2
  <2> QED BY <2>3
<1>5. \A k \in 1..Len(q) - 1 : k + 1 \in 1..Len(q) /\ k + 1 # 1 /\ 1 \in 1..Len(q)
  BY <1>1
<1>6. Range(Tail(q)) \subseteq Range(q)
  BY <1>1, <1>2, <1>5 DEF Range
<1>7. Head(q) \in Range(q)
  BY <1>1, <1>2 DEF Range
<1>8. Head(q) \notin Range(Tail(q))
  BY <1>1, <1>2, <1>3, <1>5 DEF Range
<1> QED BY <1>1, <1>4, <1>6, <1>7, <1>8

(* What get_memory does to the items that are free. *)
LEMMA FreeAfterGet ==
  ASSUME SInv, NEW t \in Threads \cup Readers, NEW p \in Pools, NEW pc \in PCs, Get(t, p, pc)
  PROVE  /\ FreeOK' /\ \A q \in Pools : Range(pool'[q].free) \subseteq Range(pool[q].free)
         /\ \/ /\ pool[p].is_initialized
               /\ pool[p].free # <<>> /\ thread[t].slot = Head(pool[p].free)
               /\ thread[t].slot \in (1..Size(p)) \ Range(pool'[p].free)
               /\ pool'[p].free = Tail(pool[p].free)
               /\ Len(pool'[p].free) = Len(pool[p].free) - 1 /\ Len(pool[p].free) \in Nat
            \/ /\ ~(pool[p].free # <<>> /\ Head(pool[p].free) = thread[t].slot)
               /\ pool'[p].free = pool[p].free
         /\ \A q \in Pools : /\ pool'[q].mutex = pool[q].mutex
                             /\ pool'[q].is_initialized = pool[q].is_initialized
         /\ AllPools <=> AllPools'
<1>1. Types /\ FreeOK
  BY DEF SInv
<1>2. /\ pool' \in [Pools -> PoolType]
      /\ \A q \in Pools \ {p} : pool'[q] = pool[q]
      /\ pool'[p].mutex = pool[p].mutex /\ pool'[p].is_initialized = pool[p].is_initialized
      /\ \/ /\ pool[p].free # <<>> /\ Head(pool[p].free) = thread[t].slot
            /\ pool'[p].free = Tail(pool[p].free)
         \/ /\ ~(pool[p].free # <<>> /\ Head(pool[p].free) = thread[t].slot)
            /\ pool'[p].free = pool[p].free
  BY <1>1, GetMoves
<1>3. /\ pool[p].free \in Seq(Nat) /\ IsInjective(pool[p].free)
      /\ pool[p].free # <<>> => pool[p].is_initialized
      /\ Range(pool[p].free) \subseteq 1..Size(p)
  BY <1>1 DEF Types, PoolType, FreeOK
<1>4. ASSUME pool[p].free # <<>>, pool'[p].free = Tail(pool[p].free)
      PROVE  /\ Len(pool[p].free) \in Nat \ {0} /\ Len(pool'[p].free) = Len(pool[p].free) - 1
             /\ IsInjective(pool'[p].free) /\ Range(pool'[p].free) \subseteq Range(pool[p].free)
             /\ Head(pool[p].free) \in Range(pool[p].free) \ Range(pool'[p].free)
  BY <1>3, <1>4, FirstItem
<1>5. IsInjective(pool'[p].free) /\ Range(pool'[p].free) \subseteq Range(pool[p].free)
  BY <1>2, <1>3, <1>4
<1>6. \A q \in Pools : /\ pool'[q].mutex = pool[q].mutex
                       /\ pool'[q].is_initialized = pool[q].is_initialized
                       /\ Range(pool'[q].free) \subseteq Range(pool[q].free)
  BY <1>2, <1>5
<1>7. FreeOK'
  <2>1. \A q \in Pools : Size(q)' = Size(q)
    BY DEF Size
  <2>2. ASSUME NEW q \in Pools
        PROVE  /\ ~pool'[q].is_initialized => pool'[q].free = <<>>
               /\ IsInjective(pool'[q].free)
               /\ Range(pool'[q].free) \subseteq 1..Size(q)
    <3>1. CASE q = p
      BY <1>2, <1>3, <1>5, <3>1
    <3>2. CASE q # p
      BY <1>1, <1>2, <3>2 DEF FreeOK
    <3> QED BY <3>1, <3>2
  <2> QED BY <2>1, <2>2 DEF FreeOK
<1> QED BY <1>2, <1>3, <1>4, <1>6, <1>7 DEF AllPools

LEMMA GetSessionKeeps ==
  ASSUME SInv, NEW t \in Threads, GetSession(t)
  PROVE  SInv'
<1> USE DEF SInv
<1>1. /\ UNCHANGED <<semaphore, session, inits, context, node, handles>>
      /\ thread[t].pc = "slot" /\ Get(t, "session", "semaphore")
  BY NextStep DEF GetSession, Inside, made
<1>2. "session" \in Pools /\ "node" \in Pools /\ "semaphore" \in PCs
  BY DEF Pools, PCs, Steps
<1>3. /\ thread' \in [Threads \cup Readers -> ThreadType]
      /\ \A u \in (Threads \cup Readers) \ {t} : thread'[u] = thread[u]
      /\ thread'[t].pc = "semaphore" /\ thread'[t].context = thread[t].context
      /\ thread'[t].slot = thread[t].slot
      /\ pool' \in [Pools -> PoolType] /\ \A q \in Pools \ {"session"} : pool'[q] = pool[q]
      /\ FreeSessions # <<>> /\ thread[t].slot = Head(FreeSessions)
  <2>1. thread[t].slot # 0
    BY <1>1 DEF Get
  <2>2. FreeSessions # <<>> /\ thread[t].slot = Head(FreeSessions)
    BY <1>1, <2>1 DEF SeenOK, SeenAt
  <2> QED BY <1>1, <1>2, <2>2, GetMoves
<1>4. /\ FreeOK' /\ Range(FreeSessions') \subseteq Range(FreeSessions)
      /\ pool["session"].is_initialized
      /\ thread[t].slot \in (1..Domains) \ Range(FreeSessions')
      /\ Len(FreeSessions') = Len(FreeSessions) - 1 /\ Len(FreeSessions) \in Nat
      /\ \A q \in Pools : /\ pool'[q].mutex = pool[q].mutex
                          /\ pool'[q].is_initialized = pool[q].is_initialized
      /\ AllPools <=> AllPools'
  <2>1. Size("session") = Domains
    BY DEF Size
  <2> QED BY <1>1, <1>2, <1>3, <2>1, FreeAfterGet DEF FreeSessions
<1>5. InInit(t) /\ InInit(t)'
  BY <1>1, <1>3 DEF InInit, Steps
<1>6. \A p \in Pools : Place(p) < Place(thread'[t].pc) => Place(p) < Place(thread[t].pc)
  BY <1>1, <1>3, StepOrder DEF Pools
<1>7. /\ InitOK'
      /\ \A u \in Threads \ {t} : /\ ~InInit(u) /\ ~InInit(u)'
                                  /\ ~HasSession(u) /\ ~HasSession(u)'
  <2>1. \A p \in Pools : Place(p) < Place(thread'[t].pc) => pool'[p].is_initialized
    BY <1>4, <1>5, <1>6 DEF InitOK
  <2> QED BY <1>1, <1>3, <1>5, <2>1, StepTaken
<1>8. Types'
  BY <1>1, <1>3 DEF Types
<1>9. SessionOK'
  BY <1>1, <1>3, <1>4, <1>7 DEF SessionOK
<1>10. \A x : Ready(x) => Ready(x)'
  <2>1. thread[t].slot \in Range(FreeSessions)
    BY <1>2, <1>3, FirstItem DEF Types, PoolType, FreeOK, FreeSessions
  <2> QED BY <1>1, <1>3, <1>4, <1>7, <2>1 DEF Ready
<1>11. ContextOK'
  BY <1>1, <1>4, <1>10 DEF ContextOK
<1>12. NodeOK'
  <2>1. AllPools => AllPools' /\ pool'["node"].free = pool["node"].free
    BY <1>2, <1>3, <1>4
  <2> QED BY <1>1, <1>3, <1>10, <2>1, NodesKept
<1>13. SemaphoreOK'
  <2>1. Domains \in Nat /\ semaphore \in Nat
    BY StartupAssumption DEF Types
  <2>2. semaphore + Len(FreeSessions') < Domains
    BY <1>4, <2>1 DEF SemaphoreOK
  <2>3. pool'["session"].is_initialized
    BY <1>2, <1>4
  <2>4. semaphore + Len(FreeSessions') <= Domains
    BY <1>4, <2>1, <2>2
  <2> QED BY <1>1, <2>2, <2>3, <2>4 DEF SemaphoreOK
<1>14. CountOK'
  <2>1. \A p \in Pools : Place(p) \in Nat /\ Place(thread[t].pc) = 3 /\ Place(thread'[t].pc) = 4
    BY <1>1, <1>3, StepOrder DEF Pools
  <2>2. \A p \in Pools : Place(thread'[t].pc) <= Place(p) => Place(thread[t].pc) <= Place(p)
    BY <2>1
  <2>3. ASSUME NEW p \in Pools, NEW u \in Threads, InInit(u)', Place(thread'[u].pc) <= Place(p)
        PROVE  pool[p].mutex < inits
    BY <1>5, <1>7, <2>2, <2>3 DEF CountOK
  <2> QED BY <1>1, <1>4, <2>3 DEF CountOK
<1>15. SeenOK'
  <2>1. SeenAt(t)'
    BY <1>3 DEF SeenAt
  <2>2. pool'["node"].free = pool["node"].free
    BY <1>2, <1>3
  <2> QED BY <1>3, <1>7, <2>1, <2>2, SeenKept
<1> QED BY <1>4, <1>7, <1>8, <1>9, <1>11, <1>12, <1>13, <1>14, <1>15

LEMMA GetBufferKeeps ==
  ASSUME SInv, NEW r \in Readers, GetBuffer(r)
  PROVE  SInv'
<1>1. Get(r, "buffers", "fills") /\ UNCHANGED <<made, context, node, handles>>
  BY DEF GetBuffer
<1>2. /\ "buffers" \in Pools /\ "session" \in Pools \ {"buffers"} /\ "node" \in Pools \ {"buffers"}
      /\ "fills" \in PCs /\ r \notin Threads /\ Types
  BY StartupAssumption DEF Pools, PCs, SInv, StartupAssumption
<1>3. /\ thread' \in [Threads \cup Readers -> ThreadType]
      /\ \A u \in (Threads \cup Readers) \ {r} : thread'[u] = thread[u]
      /\ pool' \in [Pools -> PoolType] /\ \A q \in Pools \ {"buffers"} : pool'[q] = pool[q]
  BY <1>1, <1>2, GetMoves
<1>4. BuffersOnly
  <2>1. /\ FreeOK'
        /\ \A q \in Pools : /\ pool'[q].mutex = pool[q].mutex
                            /\ pool'[q].is_initialized = pool[q].is_initialized
    BY <1>1, <1>2, FreeAfterGet
  <2> QED BY <1>2, <1>3, <2>1 DEF BuffersOnly, FreeSessions, FreeNodes
<1> QED BY <1>1, <1>2, <1>3, <1>4, QuietThread

(* rmw_create_node: what no thread in rmw_init is concerned with. *)
LEMMA OutsideInit ==
  ASSUME SInv, NEW t \in Threads, ~InInit(t), ~InInit(t)',
         \A u \in Threads \ {t} : thread'[u] = thread[u],
         UNCHANGED <<semaphore, session, inits, context>>,
         pool'["session"] = pool["session"],
         \A q \in Pools : /\ pool'[q].mutex = pool[q].mutex
                          /\ pool'[q].is_initialized = pool[q].is_initialized
  PROVE  /\ InitOK' /\ SessionOK' /\ SemaphoreOK' /\ CountOK'
         /\ \A x : Ready(x) => Ready(x)'
<1> USE DEF SInv
<1>1. ~HasSession(t) /\ ~HasSession(t)' /\ thread'[t].pc # "semaphore"
  BY DEF HasSession, InInit, Steps
<1>2. InitOK'
  BY DEF InitOK, InInit
<1>3. SessionOK'
  BY <1>1 DEF SessionOK, HasSession, FreeSessions
<1>4. SemaphoreOK'
  BY <1>1 DEF SemaphoreOK, FreeSessions, Pools
<1>5. CountOK'
  BY DEF CountOK, InInit
<1>6. \A x : Ready(x) => Ready(x)'
  BY <1>1 DEF Ready, HasSession, FreeSessions
<1> QED BY <1>2, <1>3, <1>4, <1>5, <1>6

(* get_memory for a node: whether or not another thread has got the item   *)
(* already, it is not free afterwards.                                     *)
LEMMA NodeTaken ==
  ASSUME SInv, NEW t \in Threads, GetNode(t)
  PROVE  /\ UNCHANGED <<semaphore, session, inits, context, handles>>
         /\ node' = [node EXCEPT ![thread[t].slot] = context[thread[t].context].impl]
         /\ thread[t].pc = "node slot" /\ thread[t].inside = "node"
         /\ thread' \in [Threads \cup Readers -> ThreadType]
         /\ \A u \in (Threads \cup Readers) \ {t} : thread'[u] = thread[u]
         /\ thread'[t].pc = "node handle" /\ thread'[t].slot = thread[t].slot
         /\ thread'[t].inside = "none"
         /\ thread[t].slot \in 1..MaxNodes \ Range(FreeNodes')
         /\ pool' \in [Pools -> PoolType] /\ \A q \in Pools \ {"node"} : pool'[q] = pool[q]
         /\ FreeOK' /\ Range(FreeNodes') \subseteq Range(FreeNodes)
         /\ \A q \in Pools : /\ pool'[q].mutex = pool[q].mutex
                             /\ pool'[q].is_initialized = pool[q].is_initialized
         /\ AllPools <=> AllPools'
         /\ FreeNodes # <<>> => Head(FreeNodes) = thread[t].slot \/ FreeNodes' = FreeNodes
         /\ FreeNodes # <<>> => Range(FreeNodes') \subseteq Range(FreeNodes) \ {Head(FreeNodes)}
                                \/ FreeNodes' = FreeNodes
<1>1. /\ UNCHANGED <<semaphore, session, inits, context, handles>>
      /\ thread[t].pc = "node slot" /\ thread[t].inside = "node" /\ Get(t, "node", "node handle")
      /\ node' = [node EXCEPT ![thread[t].slot] = context[thread[t].context].impl]
  BY DEF GetNode, Inside, made
<1>2. "node" \in Pools /\ "node handle" \in PCs /\ Types
  BY DEF Pools, PCs, SInv
<1>3. /\ thread' \in [Threads \cup Readers -> ThreadType]
      /\ \A u \in (Threads \cup Readers) \ {t} : thread'[u] = thread[u]
      /\ thread'[t].pc = "node handle" /\ thread'[t].slot = thread[t].slot
      /\ thread'[t].inside = "none" /\ thread[t].slot # 0
      /\ pool' \in [Pools -> PoolType] /\ \A q \in Pools \ {"node"} : pool'[q] = pool[q]
  <2>1. t \in Threads \cup Readers
    OBVIOUS
  <2>2. /\ thread' \in [Threads \cup Readers -> ThreadType]
        /\ \A u \in (Threads \cup Readers) \ {t} : thread'[u] = thread[u]
    BY ONLY <1>1, <1>2, <2>1, GetMoves, ZenonT(30)
  <2>3. /\ thread'[t].pc = "node handle" /\ thread'[t].slot = thread[t].slot
        /\ thread'[t].inside = "none" /\ thread[t].slot # 0
    BY ONLY <1>1, <1>2, <2>1, GetMoves, ZenonT(30)
  <2>4. pool' \in [Pools -> PoolType] /\ \A q \in Pools \ {"node"} : pool'[q] = pool[q]
    BY ONLY <1>1, <1>2, <2>1, GetMoves, ZenonT(30)
  <2> QED BY <2>2, <2>3, <2>4
<1>4. /\ FreeOK' /\ Range(FreeNodes') \subseteq Range(FreeNodes)
      /\ \/ /\ FreeNodes # <<>> /\ thread[t].slot = Head(FreeNodes)
            /\ thread[t].slot \notin Range(FreeNodes')
         \/ /\ ~(FreeNodes # <<>> /\ Head(FreeNodes) = thread[t].slot)
            /\ FreeNodes' = FreeNodes
      /\ \A q \in Pools : /\ pool'[q].mutex = pool[q].mutex
                          /\ pool'[q].is_initialized = pool[q].is_initialized
      /\ AllPools <=> AllPools'
  BY <1>1, <1>2, FreeAfterGet DEF FreeNodes
<1>5. /\ thread[t].slot \in 1..MaxNodes
      /\ thread[t].slot \in Range(FreeNodes) => FreeNodes # <<>> /\ thread[t].slot = Head(FreeNodes)
  BY <1>1, <1>3 DEF SInv, SeenOK, SeenAt
<1>6. thread[t].slot \notin Range(FreeNodes')
  BY <1>4, <1>5
<1> QED BY <1>1, <1>3, <1>4, <1>5, <1>6

LEMMA GetNodeKeeps ==
  ASSUME SInv, NEW t \in Threads, GetNode(t)
  PROVE  SInv'
<1> USE DEF SInv
<1>1. PICK h, d : h = thread[t].slot /\ d = context[thread[t].context].impl
  OBVIOUS
<1>2. /\ UNCHANGED <<semaphore, session, inits, context, handles>>
      /\ node' = [node EXCEPT ![h] = d]
      /\ thread[t].pc = "node slot"
      /\ thread' \in [Threads \cup Readers -> ThreadType]
      /\ \A u \in (Threads \cup Readers) \ {t} : thread'[u] = thread[u]
      /\ thread'[t].pc = "node handle" /\ thread'[t].slot = h
      /\ h \in 1..MaxNodes \ Range(FreeNodes')
  BY <1>1, NodeTaken
<1>3. /\ pool' \in [Pools -> PoolType] /\ \A q \in Pools \ {"node"} : pool'[q] = pool[q]
      /\ FreeOK' /\ Range(FreeNodes') \subseteq Range(FreeNodes)
      /\ \A q \in Pools : /\ pool'[q].mutex = pool[q].mutex
                          /\ pool'[q].is_initialized = pool[q].is_initialized
      /\ AllPools <=> AllPools'
      /\ FreeNodes # <<>> => Range(FreeNodes') \subseteq Range(FreeNodes) \ {Head(FreeNodes)}
                             \/ FreeNodes' = FreeNodes
  BY NodeTaken
<1>4. "session" \in Pools \ {"node"} /\ ~InInit(t) /\ ~InInit(t)'
  BY <1>2 DEF Pools, InInit, Steps
<1>5. /\ InitOK' /\ SessionOK' /\ SemaphoreOK' /\ CountOK'
      /\ \A x : Ready(x) => Ready(x)'
  BY <1>2, <1>3, <1>4, OutsideInit
<1>6. thread[t].context \in Contexts /\ d \in 0..Domains /\ Ready(d) /\ AllPools
  BY <1>1, <1>2 DEF NodeOK, ContextOK, Types
<1>7. /\ node' \in [1..MaxNodes -> 0..Domains] /\ node'[h] = d
      /\ \A n \in 1..MaxNodes \ {h} : node'[n] = node[n]
  BY <1>2, <1>6 DEF Types
<1>8. Types'
  BY <1>2, <1>3, <1>7 DEF Types
<1>9. ContextOK'
  BY <1>2, <1>3, <1>5 DEF ContextOK
<1>10. \A n \in 1..MaxNodes : Ready(node[n]) => Ready(node[n])'
  <2>1. SUFFICES ASSUME NEW n \in 1..MaxNodes, Ready(node[n]) PROVE Ready(node[n])'
    OBVIOUS
  <2>2. PICK x : x = node'[n]
    OBVIOUS
  <2>3. Ready(x)'
    BY <1>5, <1>6, <1>7, <2>1, <2>2
  <2> QED BY <2>2, <2>3
<1>11. NodeOK'
  <2>1. \A u \in Threads : thread'[u].pc = "node slot" =>
           thread'[u].context \in Contexts /\ context[thread'[u].context].ret = "ok"
    BY <1>2 DEF NodeOK
  <2>2. ASSUME NEW u \in Threads, thread'[u].pc = "node handle"
        PROVE  thread'[u].slot \in 1..MaxNodes \ Range(FreeNodes') /\ Ready(node[thread[u].slot])'
    <3>1. CASE u = t
      <4>1. Ready(d)' /\ node'[thread'[t].slot] = d
        BY <1>2, <1>5, <1>6, <1>7
      <4> QED BY <1>2, <3>1, <4>1
    <3>2. CASE u # t
      <4>1. /\ thread[u].pc = "node handle" /\ thread'[u].slot = thread[u].slot
            /\ thread[u].slot \in 1..MaxNodes \ Range(FreeNodes) /\ Ready(node[thread[u].slot])
        BY <1>2, <2>2, <3>2 DEF NodeOK
      <4>2. PICK n : n = thread[u].slot
        OBVIOUS
      <4>3. n \in 1..MaxNodes /\ Ready(node[n])'
        BY <1>10, <4>1, <4>2
      <4>4. thread'[u].slot = n
        BY <4>1, <4>2
      <4> QED BY <1>3, <4>1, <4>3, <4>4
    <3> QED BY <3>1, <3>2
  <2>3. ASSUME NEW k \in DOMAIN handles
        PROVE  handles[k] \notin Range(FreeNodes)' /\ Ready(node[handles[k]])'
    <3>0. handles \in Seq(1..MaxNodes)
      BY DEF Types
    <3>1. handles[k] \in 1..MaxNodes
      BY ONLY <3>0, k \in DOMAIN handles, ElementOfSeq, LenProperties
    <3>2. PICK n : n = handles[k]
      OBVIOUS
    <3>3. Ready(node[n])' /\ n \notin Range(FreeNodes)
      BY <1>10, <3>1, <3>2 DEF NodeOK
    <3>4. handles'[k] = n
      BY <1>2, <3>2
    <3> QED BY <1>3, <3>2, <3>3, <3>4
  <2> QED BY <1>2, <1>3, <1>6, <2>1, <2>2, <2>3 DEF NodeOK
<1>12. SeenOK'
  <2>1. ASSUME NEW u \in Threads \ {t} PROVE SeenAt(u)'
    <3>1. thread'[u] = thread[u] /\ SeenAt(u) /\ FreeSessions' = FreeSessions
      BY <1>2, <1>3, <1>4 DEF SeenOK, FreeSessions
    <3>2. ASSUME thread[u].pc = "node slot", thread[u].slot # 0, thread[u].slot \in Range(FreeNodes')
          PROVE  FreeNodes' # <<>> /\ thread[u].slot = Head(FreeNodes')
      <4>1. FreeNodes # <<>> /\ thread[u].slot = Head(FreeNodes)
        BY <1>3, <3>1, <3>2 DEF SeenAt
      <4> QED BY <1>3, <3>2, <4>1
    <3> QED BY <3>1, <3>2 DEF SeenAt
  <2>2. SeenAt(t)'
    BY <1>2 DEF SeenAt
  <2> QED BY <2>1, <2>2 DEF SeenOK
<1> QED BY <1>3, <1>5, <1>8, <1>9, <1>11, <1>12

LEMMA HandlesAppended ==
  ASSUME NEW old \in Seq(1..MaxNodes), NEW s \in 1..MaxNodes
  PROVE  LET new == Append(old, s)
         IN  /\ new \in Seq(1..MaxNodes) /\ Len(old) \in Nat
             /\ DOMAIN old = 1..Len(old) /\ DOMAIN new = 1..Len(old) + 1
             /\ \A k \in DOMAIN old : new[k] = old[k]
             /\ new[Len(old) + 1] = s
<1>1. PICK new : new = Append(old, s)
  OBVIOUS
<1>2. Len(old) \in Nat /\ DOMAIN old = 1..Len(old)
  BY LenProperties
<1>3. /\ new \in Seq(1..MaxNodes) /\ Len(new) = Len(old) + 1
      /\ \A k \in 1..Len(old) : new[k] = old[k]
      /\ new[Len(old) + 1] = s
  BY <1>1, AppendProperties
<1>4. DOMAIN new = 1..Len(old) + 1
  BY <1>2, <1>3, LenProperties
<1> QED BY <1>1, <1>2, <1>3, <1>4

LEMMA ReturnNodeKeeps ==
  ASSUME SInv, NEW t \in Threads, ReturnNode(t)
  PROVE  SInv'
<1> USE DEF SInv
<1>1. /\ UNCHANGED <<semaphore, session, inits, context, pool, node>>
      /\ thread[t].pc = "node handle" /\ Finish(t)
      /\ handles' = Append(handles, thread[t].slot)
  BY DEF ReturnNode, At, made
<1>2. /\ thread' \in [Threads \cup Readers -> ThreadType]
      /\ \A u \in (Threads \cup Readers) \ {t} : thread'[u] = thread[u]
      /\ thread'[t].pc = "idle" /\ thread'[t].slot = 0
  BY <1>1, FinishMoves
<1>3. ~InInit(t) /\ ~InInit(t)'
  BY <1>1, <1>2 DEF InInit, Steps
<1>4. /\ InitOK' /\ SessionOK' /\ SemaphoreOK' /\ CountOK'
      /\ \A x : Ready(x) => Ready(x)'
  BY <1>1, <1>2, <1>3, OutsideInit
<1>5. PICK s : s = thread[t].slot
  OBVIOUS
<1>6. s \in 1..MaxNodes /\ s \notin Range(FreeNodes) /\ Ready(node[s]) /\ AllPools
  BY <1>1, <1>5 DEF NodeOK
<1>7. /\ handles' \in Seq(1..MaxNodes) /\ Len(handles) \in Nat
      /\ DOMAIN handles = 1..Len(handles) /\ DOMAIN handles' = 1..Len(handles) + 1
      /\ \A k \in DOMAIN handles : handles'[k] = handles[k]
      /\ handles'[Len(handles) + 1] = s
  <2>1. PICK old : old = handles
    OBVIOUS
  <2>2. old \in Seq(1..MaxNodes) /\ handles' = Append(old, s) /\ s \in 1..MaxNodes
    BY <1>1, <1>5, <1>6, <2>1 DEF Types
  <2> QED BY <2>1, <2>2, HandlesAppended
<1>8. DOMAIN handles' = DOMAIN handles \cup {Len(handles) + 1}
  BY <1>7
<1>9. Types'
  BY <1>1, <1>2, <1>7 DEF Types
<1>10. FreeOK'
  BY <1>1 DEF FreeOK, Size
<1>11. ContextOK'
  BY <1>1, <1>4 DEF ContextOK, AllPools
<1>12. NodeOK'
  <2>1. \A u \in Threads : thread'[u].pc = "node slot" =>
           thread'[u].context \in Contexts /\ context[thread'[u].context].ret = "ok"
    BY <1>2 DEF NodeOK
  <2>2. ASSUME NEW u \in Threads, thread'[u].pc = "node handle"
        PROVE  thread'[u].slot \in 1..MaxNodes \ Range(FreeNodes) /\ Ready(node[thread[u].slot])'
    <3>1. u # t /\ thread'[u] = thread[u] /\ thread[u].pc = "node handle"
      BY <1>2, <2>2
    <3>2. PICK x : x = node[thread[u].slot]
      OBVIOUS
    <3>3. Ready(x)' /\ node'[thread'[u].slot] = x
      BY <1>1, <1>4, <3>1, <3>2 DEF NodeOK
    <3>4. Ready(node[thread[u].slot])'
      BY <3>3
    <3> QED BY <3>1, <3>4 DEF NodeOK
  <2>3. ASSUME NEW k \in DOMAIN handles'
        PROVE  handles'[k] \notin Range(FreeNodes) /\ Ready(node[handles[k]])'
    <3>1. handles'[k] \notin Range(FreeNodes) /\ Ready(node[handles'[k]])
      BY <1>6, <1>7, <1>8 DEF NodeOK
    <3>2. PICK x : x = node[handles'[k]]
      OBVIOUS
    <3>3. Ready(x)' /\ node'[handles'[k]] = x
      BY <1>1, <1>4, <3>1, <3>2
    <3>4. Ready(node[handles[k]])'
      BY <3>3
    <3> QED BY <3>1, <3>4
  <2>4. AllPools'
    BY <1>1, <1>6 DEF AllPools
  <2> QED BY <1>1, <2>1, <2>2, <2>3, <2>4 DEF NodeOK, FreeNodes
<1>13. SeenOK'
  <2>1. FreeNodes' = FreeNodes /\ FreeSessions' = FreeSessions
    BY <1>1 DEF FreeNodes, FreeSessions
  <2>2. ASSUME NEW u \in Threads PROVE SeenAt(u)'
    BY <1>2, <2>1 DEF SeenOK, SeenAt
  <2> QED BY <2>2 DEF SeenOK
<1> QED BY <1>4, <1>9, <1>10, <1>11, <1>12, <1>13

LEMMA NextSInv ==
  ASSUME SInv, [Next]_vars
  PROVE  SInv'
<1>0. \A t \in Threads : t \notin Readers /\ ~(SeeSession(t) /\ SeeBuffer(t)) /\ ~(SeeNode(t) /\ SeeBuffer(t))
  BY StartupAssumption DEF SeeSession, SeeNode, SeeBuffer, Inside, StartupAssumption
<1>1. CASE UNCHANGED vars
  <2>1. UNCHANGED <<semaphore, session, inits, pool, context, node, handles, thread>>
    BY <1>1 DEF vars, made
  <2>2. \A x : Ready(x)' <=> Ready(x)
    BY <2>1 DEF Ready, HasSession, FreeSessions
  <2>3. \A t \in Threads : (InInit(t)' <=> InInit(t)) /\ (HasSession(t)' <=> HasSession(t))
    BY <2>1 DEF InInit, HasSession
  <2>4. Types' /\ FreeOK' /\ InitOK' /\ SessionOK'
    BY <2>1, <2>3 DEF SInv, Types, FreeOK, Size, InitOK, SessionOK, FreeSessions
  <2>5. ContextOK'
    BY <2>1, <2>2 DEF SInv, ContextOK, AllPools
  <2>6. NodeOK'
    <3>1. \A t \in Threads : thread[t].pc = "node handle" => Ready(node[thread[t].slot])'
      BY <2>1, <2>2 DEF SInv, NodeOK
    <3>2. \A k \in DOMAIN handles : Ready(node[handles[k]])'
      BY <2>1, <2>2 DEF SInv, NodeOK
    <3> QED BY <2>1, <3>1, <3>2 DEF SInv, NodeOK, FreeNodes, AllPools
  <2>7. SemaphoreOK' /\ CountOK' /\ SeenOK'
    BY <2>1, <2>3 DEF SInv, SemaphoreOK, CountOK, SeenOK, SeenAt, FreeSessions, FreeNodes
  <2> QED BY <2>4, <2>5, <2>6, <2>7 DEF SInv
<1>2. ASSUME NEW t \in Threads, InitAction(t) PROVE SInv'
  <2>1. ASSUME NEW c \in Contexts, BeginInit(t, c) PROVE SInv'
    BY <2>1, BeginInitKeeps
  <2>2. ASSUME NEW p \in Pools, MakePool(t, p) PROVE SInv'
    BY <2>2, MakePoolKeeps
  <2>3. CASE LockSessions(t)
    BY <2>3, LockKeeps
  <2>4. CASE SeeSession(t) \/ GetSession(t)
    BY <1>0, <2>4, SeeKeeps, GetSessionKeeps
  <2>5. CASE NoSession(t) \/ CompleteInitFails(t)
    <3>1. /\ ReturnInit(t, "error") /\ thread[t].pc \in {"slot", "complete"}
          /\ UNCHANGED <<made, pool, node, handles>>
      BY <2>5 DEF NoSession, CompleteInitFails, Inside, At
    <3>2. InInit(t)
      BY <3>1 DEF InInit, Steps
    <3> QED BY <3>1, <3>2, ReturnErrorKeeps
  <2>6. CASE NewSemaphore(t)
    BY <2>6, NewSemaphoreKeeps
  <2>7. CASE NewDomain(t)
    BY <2>7, NewDomainKeeps
  <2>8. CASE CompleteInit(t)
    BY <2>8, CompleteInitKeeps
  <2>9. CASE TestParticipant(t)
    <3>1. thread[t].pc = "participant" /\ UNCHANGED <<made, pool, node, handles>>
      BY <2>9 DEF TestParticipant, At
    <3>2. CASE session[thread[t].slot].participant
      <4>1. ReturnInit(t, "ok")
        BY <2>9, <3>2 DEF TestParticipant
      <4> QED BY <3>1, <3>2, <4>1, ReturnOkKeeps
    <3>3. CASE ~session[thread[t].slot].participant
      <4>1. ReturnInit(t, "error") /\ InInit(t)
        BY <2>9, <3>1, <3>3 DEF TestParticipant, InInit, Steps
      <4> QED BY <3>1, <4>1, ReturnErrorKeeps
    <3> QED BY <3>2, <3>3
  <2> QED BY <1>2, <2>1, <2>2, <2>3, <2>4, <2>5, <2>6, <2>7, <2>8, <2>9 DEF InitAction
<1>3. ASSUME NEW t \in Threads, NodeAction(t) PROVE SInv'
  <2>1. ASSUME NEW c \in Contexts, LockNodes(t, c) PROVE SInv'
    BY <2>1, LockKeeps
  <2>2. CASE SeeNode(t) \/ GetNode(t)
    BY <1>0, <2>2, SeeKeeps, GetNodeKeeps
  <2>3. CASE NoNode(t) \/ NodeFails(t)
    <3>1. Finish(t) /\ UNCHANGED <<made, pool, context, node, handles>>
      BY <2>3 DEF NoNode, NodeFails
    <3> QED BY <3>1, FinishKeeps
  <2>4. CASE ReturnNode(t)
    BY <2>4, ReturnNodeKeeps
  <2> QED BY <1>3, <2>1, <2>2, <2>3, <2>4 DEF NodeAction
<1>4. ASSUME NEW t \in Threads, Wait(t) \/ WaitEnds(t) PROVE SInv'
  <2>1. CASE Wait(t)
    BY <2>1, WaitKeeps
  <2>2. CASE WaitEnds(t)
    <3>1. Finish(t) /\ UNCHANGED <<made, pool, context, node, handles>>
      BY <2>2 DEF WaitEnds
    <3> QED BY <3>1, FinishKeeps
  <2> QED BY <1>4, <2>1, <2>2
<1>5. ASSUME NEW r \in Readers, BufferAction(r) PROVE SInv'
  <2>1. CASE LockBuffers(r)
    BY <2>1, LockKeeps
  <2>2. CASE SeeBuffer(r)
    BY <1>0, <2>2, SeeKeeps
  <2>3. CASE GetBuffer(r)
    BY <2>3, GetBufferKeeps
  <2>4. CASE NoBuffer(r) \/ Filled(r)
    <3>1. Finish(r) /\ UNCHANGED <<made, pool, context, node, handles>>
      BY <2>4 DEF NoBuffer, Filled
    <3> QED BY <3>1, FinishKeeps
  <2> QED BY <1>5, <2>1, <2>2, <2>3, <2>4 DEF BufferAction
<1> QED BY <1>1, <1>2, <1>3, <1>4, <1>5 DEF Next

LEMMA AlwaysSInv == Spec => []SInv
<1>1. Init => SInv
  BY InitSInv
<1>2. SInv /\ [Next]_vars => SInv'
  BY NextSInv
<1> QED BY <1>1, <1>2, PTL DEF Spec

-----------------------------------------------------------------------------
(* What keeps the mutex of the nodes, and the semaphore, from being made   *)
(* anew while they are used.                                               *)
Calls == Domains = 1 \/ ~Overlap

(* Where a thread is that is inside a pool. *)
InPlace(t) ==
    \/ thread[t].inside = "none"
    \/ t \in Threads /\ thread[t].inside = "session" /\ thread[t].pc = "slot"
    \/ t \in Threads /\ thread[t].inside = "node" /\ thread[t].pc = "node slot"
    \/ t \in Readers /\ thread[t].inside = "buffers"

InsideOK == \A t \in Threads \cup Readers : InPlace(t)

(* If calls do not overlap, the application does nothing else while it     *)
(* makes a session.                                                        *)
QuietOK ==
    ~Overlap => \A t, u \in Threads : Initialises(t) /\ u # t => thread[u].pc = "idle"

(* One thread at a time is in the pool of nodes, with its only mutex. *)
KeptAt(t) ==
    /\ thread[t].inside = "node" /\ thread[t].mutex = pool["node"].mutex
    /\ \A u \in Threads : thread[u].pc = "node slot" => u = t
    /\ thread[t].slot # 0 => FreeNodes # <<>> /\ thread[t].slot = Head(FreeNodes)

KeptOK == \A t \in Threads : thread[t].pc = "node slot" => KeptAt(t)

(* The items of nodes that are being made or were returned differ. *)
ApartOK ==
    /\ \A t \in Threads : thread[t].pc = "node handle" =>
          /\ thread[t].slot \notin Range(handles)
          /\ \A u \in Threads \ {t} : thread[u].pc = "node handle" => thread[u].slot # thread[t].slot
    /\ IsInjective(handles)

WaitOK ==
    \A t \in Threads : thread[t].pc = "waits" => handles # <<>> /\ thread[t].waits = semaphore

CInv == InsideOK /\ QuietOK /\ KeptOK /\ ApartOK /\ WaitOK

LEMMA InitialisesMeans ==
  ASSUME NEW t \in Threads
  PROVE  /\ Initialises(t) <=> /\ InInit(t)
                               /\ SessionLeft \/ thread[t].pc \notin {"session", "buffers", "slot"}
         /\ Initialises(t)' <=> /\ InInit(t)'
                                /\ SessionLeft' \/ thread'[t].pc \notin {"session", "buffers", "slot"}
BY StepOrder DEF Initialises, Initialising, InInit

(* A call of rmw_init that comes as far as to make the semaphore or the    *)
(* mutex of the nodes anew does so while nobody uses them.                 *)
LEMMA Calm ==
  ASSUME SInv, Calls, CInv, NEW t \in Threads, HasSession(t)
  PROVE  \A u \in Threads : thread[u].pc # "node slot" /\ thread[u].pc # "waits"
<1> SUFFICES ASSUME NEW u \in Threads, thread[u].pc = "node slot" \/ thread[u].pc = "waits"
             PROVE  FALSE
  OBVIOUS
<1>1. Initialises(t) /\ u # t
  <2>1. InInit(t) /\ thread[t].pc \notin {"session", "buffers", "slot"}
    BY DEF HasSession, InInit
  <2>2. u # t
    BY DEF HasSession, Steps
  <2> QED BY <2>1, <2>2, InitialisesMeans
<1>2. Overlap
  BY <1>1 DEF CInv, QuietOK
<1>3. Domains = 1 /\ thread[t].slot \in 1..1
  BY <1>2 DEF Calls, SInv, SessionOK
<1>4. \A s : ~Ready(s)
  <2>1. PICK x : x = thread[t].slot
    OBVIOUS
  <2>2. x \in 1..1
    BY <1>3, <2>1
  <2>3. \A s \in 1..1 : s = x
    BY ONLY <2>2
  <2> QED BY <1>3, <2>1, <2>3 DEF Ready
<1>5. CASE thread[u].pc = "node slot"
  BY <1>4, <1>5 DEF SInv, NodeOK, ContextOK
<1>6. CASE thread[u].pc = "waits"
  <2>1. handles # <<>> /\ handles \in Seq(1..MaxNodes)
    BY <1>6 DEF CInv, WaitOK, SInv, Types
  <2>2. 1 \in DOMAIN handles
    <3>1. PICK q : q = handles
      OBVIOUS
    <3>2. q \in Seq(1..MaxNodes) /\ q # <<>>
      BY <2>1, <3>1
    <3>3. Len(q) \in Nat \ {0} /\ DOMAIN q = 1..Len(q)
      BY ONLY <3>2, EmptySeq, LenProperties
    <3>4. 1 \in 1..Len(q)
      BY ONLY <3>3
    <3> QED BY <3>1, <3>3, <3>4
  <2>3. Ready(node[handles[1]])
    BY <2>2 DEF SInv, NodeOK
  <2> QED BY <1>4, <2>3
<1> QED BY <1>5, <1>6

(* A step that is not concerned with the item of a node. *)
LEMMA RestKept ==
  ASSUME InsideOK, ApartOK, WaitOK, UNCHANGED <<semaphore, handles>>,
         NEW t \in Threads \cup Readers,
         \A u \in (Threads \cup Readers) \ {t} : thread'[u] = thread[u],
         InPlace(t)',
         t \in Threads =>
            /\ thread'[t].pc # "node handle"
            /\ thread'[t].pc = "waits" => handles # <<>> /\ thread'[t].waits = semaphore
  PROVE  InsideOK' /\ ApartOK' /\ WaitOK'
<1>1. InsideOK'
  BY DEF InsideOK, InPlace
<1>2. ApartOK'
  <2>1. ASSUME NEW u \in Threads, thread'[u].pc = "node handle"
        PROVE  u # t /\ thread'[u] = thread[u]
    BY <2>1
  <2> QED BY <2>1 DEF ApartOK
<1>3. WaitOK'
  BY DEF WaitOK
<1> QED BY <1>1, <1>2, <1>3

LEMMA KeptStays ==
  ASSUME KeptOK, pool'["node"] = pool["node"],
         \A u \in Threads : thread'[u].pc = "node slot" => thread'[u] = thread[u]
  PROVE  KeptOK'
<1>1. SUFFICES ASSUME NEW t \in Threads, thread'[t].pc = "node slot" PROVE KeptAt(t)'
  BY DEF KeptOK
<1>2. thread'[t] = thread[t] /\ thread[t].pc = "node slot"
  BY <1>1
<1>3. KeptAt(t)
  BY <1>2 DEF KeptOK
<1>4. FreeNodes' = FreeNodes
  BY DEF FreeNodes
<1>5. \A u \in Threads : thread'[u].pc = "node slot" => u = t
  BY <1>3 DEF KeptAt
<1> QED BY <1>2, <1>3, <1>4, <1>5 DEF KeptAt

(* A step of a thread that is not, afterwards, in rmw_create_node or       *)
(* rmw_wait.                                                               *)
LEMMA FrameStep ==
  ASSUME SInv', CInv, NEW t \in Threads \cup Readers, UNCHANGED handles,
         \A u \in (Threads \cup Readers) \ {t} : thread'[u] = thread[u],
         InPlace(t)',
         t \in Threads =>
            \/ thread'[t].pc = "idle"
            \/ /\ InInit(t)'
               /\ \/ Initialises(t)' => Initialises(t)
                  \/ Overlap \/ \A u \in Threads \ {t} : thread[u].pc = "idle",
         SessionLeft' => SessionLeft,
         \/ UNCHANGED <<pool["node"], semaphore>>
         \/ \A u \in Threads : thread[u].pc # "node slot" /\ thread[u].pc # "waits"
  PROVE  CInv'
<1> USE DEF CInv
<1>1. t \in Threads => thread'[t].pc \notin {"node slot", "node handle", "waits"}
  BY DEF InInit, Steps
<1>3. QuietOK'
  <2>1. SUFFICES ASSUME ~Overlap, NEW u \in Threads, NEW v \in Threads, Initialises(u)', v # u
                 PROVE  thread'[v].pc = "idle"
    BY DEF QuietOK
  <2>2. InInit(u)'
    BY <2>1, InitialisesMeans
  <2>3. CASE u = t
    <3>1. thread'[t].pc # "idle"
      BY <2>2, <2>3 DEF InInit, Steps
    <3>2. thread[v].pc = "idle"
      BY <2>1, <2>3, <3>1 DEF QuietOK
    <3> QED BY <2>1, <2>3, <3>2
  <2>4. CASE u # t
    <3>1. Initialises(u)
      <4>1. thread'[u] = thread[u] /\ (InInit(u)' <=> InInit(u))
        BY <2>1, <2>4 DEF InInit
      <4> QED BY <2>1, <4>1, InitialisesMeans
    <3>2. CASE v = t
      <4>1. ~InInit(v)'
        BY <2>1, <2>2 DEF SInv, InitOK
      <4> QED BY <3>2, <4>1
    <3>3. CASE v # t
      BY <2>1, <3>1, <3>3 DEF QuietOK
    <3> QED BY <3>2, <3>3
  <2> QED BY <2>3, <2>4
<1>4. KeptOK'
  <2>1. ASSUME NEW u \in Threads, thread'[u].pc = "node slot" PROVE thread'[u] = thread[u]
    BY <1>1, <2>1
  <2>2. CASE UNCHANGED <<pool["node"], semaphore>>
    BY <2>1, <2>2, KeptStays
  <2>3. CASE \A u \in Threads : thread[u].pc # "node slot" /\ thread[u].pc # "waits"
    <3>1. \A u \in Threads : thread'[u].pc # "node slot"
      BY <2>1, <2>3
    <3> QED BY <3>1 DEF KeptOK
  <2> QED BY <2>2, <2>3
<1>5. InsideOK' /\ ApartOK' /\ WaitOK'
  <2>1. CASE UNCHANGED semaphore
    BY <1>1, <2>1, RestKept
  <2>2. CASE \A u \in Threads : thread[u].pc # "waits"
    <3>1. WaitOK'
      BY <1>1, <2>2 DEF WaitOK
    <3>2. InsideOK'
      BY DEF InsideOK, InPlace
    <3>3. ASSUME NEW u \in Threads, thread'[u].pc = "node handle"
          PROVE  u # t /\ thread'[u] = thread[u]
      BY <1>1, <3>3
    <3>4. ApartOK'
      BY <3>3 DEF ApartOK
    <3> QED BY <3>1, <3>2, <3>4
  <2> QED BY <2>1, <2>2
<1> QED BY <1>3, <1>4, <1>5

LEMMA FinishCalm ==
  ASSUME SInv, SInv', CInv, NEW t \in Threads \cup Readers, Finish(t),
         UNCHANGED <<semaphore, pool, handles>>
  PROVE  CInv'
<1>1. /\ \A u \in (Threads \cup Readers) \ {t} : thread'[u] = thread[u]
      /\ thread'[t].pc = "idle" /\ thread'[t].inside = "none"
  BY FinishMoves DEF SInv
<1>2. InPlace(t)' /\ SessionLeft' = SessionLeft
  BY <1>1 DEF InPlace, SessionLeft
<1> QED BY <1>1, <1>2, FrameStep

(* rmw_create_node and rmw_wait are called, or go on, while no session is  *)
(* made, unless calls overlap.                                             *)
LEMMA StaysQuiet ==
  ASSUME QuietOK, NEW t \in Threads, \A u \in Threads \ {t} : thread'[u] = thread[u],
         ~InInit(t)', MayCall \/ (thread[t].pc # "idle" /\ ~InInit(t)),
         SessionLeft' => SessionLeft
  PROVE  QuietOK'
<1>1. SUFFICES ASSUME ~Overlap, NEW u \in Threads, Initialises(u)' PROVE FALSE
  BY DEF QuietOK
<1>2. u # t
  BY <1>1, InitialisesMeans
<1>3. Initialises(u)
  <2>1. thread'[u] = thread[u] /\ (InInit(u)' <=> InInit(u))
    BY <1>2 DEF InInit
  <2> QED BY <1>1, <2>1, InitialisesMeans
<1>4. CASE MayCall
  BY <1>1, <1>3, <1>4 DEF MayCall
<1>5. CASE thread[t].pc # "idle"
  BY <1>1, <1>2, <1>3, <1>5 DEF QuietOK
<1> QED BY <1>4, <1>5

LEMMA InitCInv ==
  ASSUME Init
  PROVE  CInv
<1>1. \A t \in Threads \cup Readers : thread[t].pc = "idle" /\ thread[t].inside = "none"
  BY DEF Init, Idle
<1>2. handles = <<>> /\ IsInjective(handles)
  BY DEF Init, IsInjective
<1>3. \A t \in Threads : ~Initialises(t)
  <2>1. \A t \in Threads : ~InInit(t)
    BY <1>1 DEF InInit, Steps
  <2> QED BY <2>1, InitialisesMeans
<1> QED BY <1>1, <1>2, <1>3 DEF CInv, InsideOK, InPlace, QuietOK, KeptOK, ApartOK, WaitOK

LEMMA InitActionCalm ==
  ASSUME SInv, SInv', Calls, CInv, NEW t \in Threads, InitAction(t)
  PROVE  CInv'
<1>0. Types /\ Pools \subseteq Steps \ {"participant"} /\ "session" \in Pools /\ "node" \in Pools
  BY DEF SInv, Pools, Steps
<1>1. ASSUME NEW c \in Contexts, BeginInit(t, c) PROVE CInv'
  <2>1. /\ UNCHANGED <<semaphore, pool, handles>>
        /\ thread' = [thread EXCEPT ![t].pc = "session", ![t].context = c]
        /\ Overlap \/ ~SessionLeft \/ \A u \in Threads \ {t} : thread[u].pc = "idle"
        /\ thread[t].inside = "none" /\ SessionLeft' = SessionLeft
    BY <1>1, StepOrder DEF BeginInit, At, SessionLeft
  <2>2. /\ \A u \in (Threads \cup Readers) \ {t} : thread'[u] = thread[u]
        /\ thread'[t].pc = "session" /\ thread'[t].inside = "none"
    BY <1>0, <2>1, ZenonT(30) DEF Types, ThreadType
  <2>3. InInit(t)' /\ InPlace(t)' /\ (Initialises(t)' => SessionLeft)
    BY <2>1, <2>2, InitialisesMeans DEF InInit, Steps, InPlace
  <2> QED BY <2>1, <2>2, <2>3, FrameStep
<1>2. ASSUME NEW step \in Steps \ {"slot", "participant"}, At(t, step), Goes(t, step), UNCHANGED handles,
             SessionLeft' => SessionLeft,
             \/ UNCHANGED <<pool["node"], semaphore>>
             \/ HasSession(t)
      PROVE  CInv'
  <2>1. /\ \A u \in (Threads \cup Readers) \ {t} : thread'[u] = thread[u]
        /\ thread'[t].pc = After(step) /\ thread'[t].inside = "none" /\ After(step) \in Steps
    BY <1>0, <1>2, GoesMoves DEF At
  <2>2. InInit(t) /\ InInit(t)' /\ InPlace(t)'
    BY <1>2, <2>1 DEF InInit, At, InPlace
  <2>3. Initialises(t)' => Initialises(t)
    <3>1. step \in {"session", "buffers"} => After(step) \in {"session", "buffers", "slot"}
      BY NextStep
    <3>2. thread[t].pc = step
      BY <1>2 DEF At
    <3> QED BY <1>2, <2>1, <2>2, <3>1, <3>2, InitialisesMeans
  <2> QED BY <1>2, <2>1, <2>2, <2>3, Calm, FrameStep
<1>3. ASSUME NEW p \in Pools, MakePool(t, p) PROVE CInv'
  <2>1. UNCHANGED <<semaphore, handles>> /\ \A q \in Pools \ {p} : pool'[q] = pool[q]
    BY <1>3, PoolMade
  <2>2. At(t, p) /\ Goes(t, p) /\ p \in Steps \ {"slot", "participant"}
    BY <1>0, <1>3 DEF MakePool, Pools
  <2>3. p = "node" => HasSession(t)
    BY <2>2 DEF HasSession, At, Steps
  <2>4. SessionLeft' => SessionLeft
    <3>1. CASE p = "session"
      BY <1>3, <3>1, PoolMade DEF SessionLeft
    <3>2. CASE p # "session"
      BY <1>0, <2>1, <3>2 DEF SessionLeft
    <3> QED BY <3>1, <3>2
  <2> QED BY <1>0, <1>2, <2>1, <2>2, <2>3, <2>4
<1>4. CASE LockSessions(t)
  <2>1. thread[t].context \in Contexts \cup {NoContext} /\ "slot" \in PCs
    BY <1>0 DEF Types, ThreadType, PCs, Steps
  <2>2. /\ Enter(t, "session", "slot", thread[t].context) /\ thread[t].pc = "slot"
        /\ UNCHANGED <<semaphore, pool, handles>>
    BY <1>4 DEF LockSessions, At, made
  <2>3. /\ \A u \in (Threads \cup Readers) \ {t} : thread'[u] = thread[u]
        /\ thread'[t].pc = "slot" /\ thread'[t].inside = "session"
    <3>1. PICK c \in Contexts \cup {NoContext} : c = thread[t].context
      BY <2>1
    <3>2. Enter(t, "session", "slot", c)
      BY <2>2, <3>1
    <3>3. t \in Threads \cup Readers
      OBVIOUS
    <3> QED BY ONLY <1>0, <2>1, <3>2, <3>3, EnterMoves
  <2>4. InInit(t) /\ InInit(t)' /\ InPlace(t)' /\ SessionLeft' = SessionLeft
    BY <2>2, <2>3 DEF InInit, Steps, InPlace, SessionLeft
  <2>5. Initialises(t)' => Initialises(t)
    BY <2>2, <2>3, <2>4, InitialisesMeans
  <2> QED BY <2>2, <2>3, <2>4, <2>5, FrameStep
<1>5. CASE SeeSession(t)
  <2>1. /\ See(t, "session") /\ thread[t].pc = "slot" /\ thread[t].inside = "session"
        /\ UNCHANGED <<semaphore, pool, handles>>
    BY <1>5 DEF SeeSession, Inside, made
  <2>2. /\ \A u \in (Threads \cup Readers) \ {t} : thread'[u] = thread[u]
        /\ thread'[t].pc = "slot" /\ thread'[t].inside = "session"
    BY <1>0, <2>1, SeeMoves
  <2>3. InInit(t) /\ InInit(t)' /\ InPlace(t)' /\ SessionLeft' = SessionLeft
    BY <2>1, <2>2 DEF InInit, Steps, InPlace, SessionLeft
  <2>4. Initialises(t)' => Initialises(t)
    BY <2>1, <2>2, <2>3, InitialisesMeans
  <2> QED BY <2>1, <2>2, <2>3, <2>4, FrameStep
<1>6. CASE GetSession(t)
  <2>1. /\ Get(t, "session", "semaphore") /\ thread[t].pc = "slot"
        /\ UNCHANGED <<semaphore, handles>>
    BY <1>6, NextStep DEF GetSession, Inside, made
  <2>2. "semaphore" \in PCs
    BY DEF PCs, Steps
  <2>3. /\ \A u \in (Threads \cup Readers) \ {t} : thread'[u] = thread[u]
        /\ thread'[t].pc = "semaphore" /\ thread'[t].inside = "none"
        /\ \A q \in Pools \ {"session"} : pool'[q] = pool[q]
    BY <1>0, <2>1, <2>2, GetMoves
  <2>4. InInit(t) /\ InInit(t)' /\ InPlace(t)' /\ pool'["node"] = pool["node"]
    BY <1>0, <2>1, <2>3 DEF InInit, Steps, InPlace
  <2>5. SessionLeft
    <3>1. thread[t].slot # 0
      BY <2>1 DEF Get
    <3> QED BY <2>1, <3>1 DEF SInv, SeenOK, SeenAt, FreeSessions, SessionLeft
  <2>6. Initialises(t)
    BY <2>4, <2>5, InitialisesMeans
  <2> QED BY <2>1, <2>3, <2>4, <2>5, <2>6, FrameStep
<1>7. CASE NoSession(t) \/ CompleteInitFails(t) \/ TestParticipant(t)
  <2>1. Finish(t) /\ UNCHANGED <<semaphore, pool, handles>>
    BY <1>7 DEF NoSession, CompleteInitFails, TestParticipant, ReturnInit, made
  <2> QED BY <2>1, FinishCalm
<1>8. CASE NewSemaphore(t)
  <2>1. At(t, "semaphore") /\ Goes(t, "semaphore") /\ UNCHANGED handles
    BY <1>8 DEF NewSemaphore
  <2>2. HasSession(t) /\ "semaphore" \in Steps \ {"slot", "participant"}
    BY <2>1 DEF HasSession, At, Steps
  <2>3. SessionLeft' = SessionLeft
    BY <1>8 DEF NewSemaphore, SessionLeft
  <2> QED BY <1>2, <2>1, <2>2, <2>3
<1>9. CASE NewDomain(t) \/ CompleteInit(t)
  <2>1. PICK step \in {"domain", "complete"} :
           At(t, step) /\ Goes(t, step) /\ UNCHANGED <<semaphore, pool, handles>>
    BY <1>9 DEF NewDomain, CompleteInit
  <2>2. step \in Steps \ {"slot", "participant"} /\ SessionLeft' = SessionLeft
    BY <2>1 DEF Steps, SessionLeft
  <2> QED BY <1>2, <2>1, <2>2
<1> QED BY <1>1, <1>3, <1>4, <1>5, <1>6, <1>7, <1>8, <1>9 DEF InitAction

(* Only one thread is at "node slot": the one that GetNode is about. *)
LEMMA GetNodeCalm ==
  ASSUME SInv, CInv, NEW t \in Threads, GetNode(t)
  PROVE  CInv'
<1> USE DEF CInv
<1>1. PICK h : h = thread[t].slot
  OBVIOUS
<1>2. /\ UNCHANGED <<semaphore, handles>>
      /\ thread[t].pc = "node slot" /\ thread[t].inside = "node"
      /\ \A u \in (Threads \cup Readers) \ {t} : thread'[u] = thread[u]
      /\ thread'[t].pc = "node handle" /\ thread'[t].slot = h /\ thread'[t].inside = "none"
  BY <1>1, NodeTaken
<1>3. h \in Range(FreeNodes)
  <2>1. h # 0
    BY <1>1 DEF GetNode, Get
  <2>2. FreeNodes # <<>> /\ h = Head(FreeNodes)
    BY <1>1, <1>2, <2>1 DEF KeptOK, KeptAt
  <2>3. FreeNodes \in Seq(Nat) /\ IsInjective(FreeNodes)
    BY DEF SInv, Types, PoolType, FreeOK, FreeNodes, Pools
  <2> QED BY <2>2, <2>3, FirstItem
<1>4. InsideOK'
  BY <1>2 DEF InsideOK, InPlace
<1>5. QuietOK'
  <2>1. ~InInit(t) /\ ~InInit(t)' /\ thread[t].pc # "idle"
    BY <1>2 DEF InInit, Steps
  <2>2. SessionLeft' = SessionLeft
    <3>1. Get(t, "node", "node handle") /\ Types
          /\ "node" \in Pools /\ "node handle" \in PCs /\ "session" \in Pools \ {"node"}
      BY DEF GetNode, SInv, Pools, PCs
    <3>2. pool'["session"] = pool["session"]
      BY <3>1, GetMoves
    <3> QED BY <3>2 DEF SessionLeft
  <2> QED BY <1>2, <2>1, <2>2, StaysQuiet
<1>6. KeptOK'
  <2>1. \A u \in Threads : thread'[u].pc # "node slot"
    BY <1>2 DEF KeptOK, KeptAt
  <2> QED BY <2>1 DEF KeptOK
<1>7. ApartOK'
  <2>1. \A u \in Threads : thread[u].pc = "node handle" => thread[u].slot # h
    BY <1>3 DEF SInv, NodeOK
  <2>2. h \notin Range(handles)
    BY <1>3, ZenonT(30) DEF SInv, NodeOK, Range
  <2>3. /\ \A u \in Threads : thread[u].pc = "node handle" =>
              /\ thread[u].slot \notin Range(handles)
              /\ \A v \in Threads \ {u} : thread[v].pc = "node handle" => thread[v].slot # thread[u].slot
        /\ IsInjective(handles)
    BY DEF ApartOK
  <2>4. ASSUME NEW u \in Threads, thread'[u].pc = "node handle"
        PROVE  /\ thread'[u].slot \notin Range(handles)
               /\ \A v \in Threads \ {u} : thread'[v].pc = "node handle" => thread'[v].slot # thread'[u].slot
    <3>1. CASE u = t
      BY <1>2, <2>1, <2>2, <3>1
    <3>2. CASE u # t
      BY <1>2, <2>1, <2>3, <2>4, <3>2
    <3> QED BY <3>1, <3>2
  <2> QED BY <1>2, <2>3, <2>4 DEF ApartOK
<1>8. WaitOK'
  BY <1>2 DEF WaitOK
<1> QED BY <1>4, <1>5, <1>6, <1>7, <1>8

LEMMA ReturnNodeCalm ==
  ASSUME SInv, CInv, NEW t \in Threads, ReturnNode(t)
  PROVE  CInv'
<1> USE DEF CInv
<1>1. PICK s, old : s = thread[t].slot /\ old = handles
  OBVIOUS
<1>2. /\ UNCHANGED <<semaphore, pool>> /\ thread[t].pc = "node handle" /\ Finish(t)
      /\ handles' = Append(old, s)
  BY <1>1 DEF ReturnNode, At, made
<1>3. /\ \A u \in (Threads \cup Readers) \ {t} : thread'[u] = thread[u]
      /\ thread'[t].pc = "idle" /\ thread'[t].inside = "none"
  BY <1>2, FinishMoves DEF SInv
<1>4. s \in 1..MaxNodes /\ old \in Seq(1..MaxNodes)
  BY <1>1, <1>2 DEF SInv, NodeOK, Types
<1>5. /\ DOMAIN old = 1..Len(old) /\ DOMAIN handles' = 1..Len(old) + 1 /\ Len(old) \in Nat
      /\ \A k \in DOMAIN old : handles'[k] = old[k]
      /\ handles'[Len(old) + 1] = s
  BY <1>2, <1>4, HandlesAppended
<1>6. /\ s \notin Range(old) /\ IsInjective(old)
      /\ \A u \in Threads \ {t} : thread[u].pc = "node handle" =>
            /\ thread[u].slot \notin Range(old) /\ thread[u].slot # s
            /\ \A v \in Threads \ {u} : thread[v].pc = "node handle" => thread[v].slot # thread[u].slot
  BY <1>1, <1>2 DEF ApartOK
<1>7. DOMAIN handles' = DOMAIN old \cup {Len(old) + 1}
  BY <1>5
<1>8. ApartOK'
  <2>1. Range(handles') \subseteq Range(old) \cup {s}
    BY <1>5, <1>7 DEF Range
  <2>2. IsInjective(handles')
    <3>1. \A i, j \in DOMAIN old : old[i] = old[j] => i = j
      BY <1>6 DEF IsInjective
    <3>2. \A i \in DOMAIN old : old[i] # s
      BY <1>6 DEF Range
    <3> QED BY <1>5, <1>7, <3>1, <3>2 DEF IsInjective
  <2>3. ASSUME NEW u \in Threads, thread'[u].pc = "node handle"
        PROVE  /\ thread'[u].slot \notin Range(handles')
               /\ \A v \in Threads \ {u} : thread'[v].pc = "node handle" => thread'[v].slot # thread'[u].slot
    BY <1>3, <1>6, <2>1, <2>3
  <2> QED BY <2>2, <2>3 DEF ApartOK
<1>9. InsideOK'
  BY <1>3 DEF InsideOK, InPlace
<1>10. QuietOK'
  <2>1. ~InInit(t) /\ ~InInit(t)' /\ thread[t].pc # "idle" /\ SessionLeft' = SessionLeft
    BY <1>2, <1>3 DEF InInit, Steps, SessionLeft
  <2> QED BY <1>3, <2>1, StaysQuiet
<1>11. KeptOK'
  BY <1>2, <1>3, KeptStays
<1>12. WaitOK'
  <2>1. handles' # <<>>
    <3>1. 1 \in DOMAIN handles'
      BY <1>5
    <3> QED BY <3>1
  <2> QED BY <1>2, <1>3, <2>1 DEF WaitOK
<1> QED BY <1>8, <1>9, <1>10, <1>11, <1>12

LEMMA NodeActionCalm ==
  ASSUME SInv, SInv', CInv, NEW t \in Threads, NodeAction(t)
  PROVE  CInv'
<1>0. Types /\ "node" \in Pools /\ "node slot" \in PCs
  BY DEF SInv, Pools, PCs
<1>1. ASSUME NEW c \in Contexts, LockNodes(t, c) PROVE CInv'
  <2>1. /\ Enter(t, "node", "node slot", c) /\ thread[t].pc = "idle" /\ MayCall
        /\ UNCHANGED <<semaphore, pool, handles>>
    BY <1>1 DEF LockNodes, At, made
  <2>2. /\ \A u \in (Threads \cup Readers) \ {t} :
              thread'[u] = thread[u] /\ (thread[u].inside = "node" => thread[u].mutex # pool["node"].mutex)
        /\ thread'[t].pc = "node slot" /\ thread'[t].inside = "node"
        /\ thread'[t].mutex = pool["node"].mutex /\ thread'[t].slot = thread[t].slot
    <3>1. PICK m : m = pool["node"].mutex
      OBVIOUS
    <3>2. /\ thread' = [thread EXCEPT ![t].pc = "node slot", ![t].context = c,
                                      ![t].inside = "node", ![t].mutex = m]
          /\ \A u \in Threads \cup Readers : thread[u].inside = "node" => thread[u].mutex # m
          /\ thread \in [Threads \cup Readers -> ThreadType]
      BY <1>0, <2>1, <3>1 DEF Enter, Types
    <3>3. \A u \in (Threads \cup Readers) \ {t} : thread'[u] = thread[u]
      BY <3>2
    <3>4. /\ thread'[t].pc = "node slot" /\ thread'[t].inside = "node"
          /\ thread'[t].mutex = m /\ thread'[t].slot = thread[t].slot
      BY <3>2 DEF ThreadType
    <3> QED BY <3>1, <3>2, <3>3, <3>4
  <2>3. thread[t].slot = 0
    BY <2>1 DEF SInv, SeenOK, SeenAt
  <2>4. \A u \in Threads \ {t} : thread[u].pc # "node slot"
    BY <2>2 DEF CInv, KeptOK, KeptAt
  <2>5. KeptOK'
    <3>1. KeptAt(t)'
      BY <2>1, <2>2, <2>3, <2>4 DEF KeptAt
    <3>2. \A u \in Threads \ {t} : thread'[u].pc # "node slot"
      BY <2>2, <2>4
    <3> QED BY <3>1, <3>2 DEF KeptOK
  <2>6. ~InInit(t)' /\ SessionLeft' = SessionLeft
    BY <2>1, <2>2 DEF InInit, Steps, SessionLeft
  <2>7. QuietOK'
    BY <2>1, <2>2, <2>6, StaysQuiet DEF CInv
  <2>8. InsideOK' /\ ApartOK' /\ WaitOK'
    <3>1. InPlace(t)'
      BY <2>2 DEF InPlace
    <3> QED BY <2>1, <2>2, <3>1, RestKept DEF CInv
  <2> QED BY <2>5, <2>7, <2>8 DEF CInv
<1>2. CASE SeeNode(t)
  <2>1. /\ See(t, "node") /\ thread[t].pc = "node slot" /\ thread[t].inside = "node"
        /\ UNCHANGED <<semaphore, pool, handles>>
    BY <1>2 DEF SeeNode, Inside, made
  <2>2. /\ \A u \in (Threads \cup Readers) \ {t} : thread'[u] = thread[u]
        /\ thread'[t].pc = "node slot" /\ thread'[t].inside = "node"
        /\ thread'[t].mutex = thread[t].mutex
        /\ FreeNodes # <<>> /\ thread'[t].slot = Head(FreeNodes)
    BY <1>0, <2>1, SeeMoves DEF FreeNodes
  <2>3. KeptOK'
    <3>1. KeptAt(t) /\ FreeNodes' = FreeNodes
      BY <2>1 DEF CInv, KeptOK, FreeNodes
    <3>2. \A u \in Threads : thread'[u].pc = "node slot" => u = t
      BY <2>2, <3>1 DEF KeptAt
    <3>3. KeptAt(t)'
      BY <2>1, <2>2, <3>1, <3>2 DEF KeptAt
    <3> QED BY <3>2, <3>3 DEF KeptOK
  <2>4. ~InInit(t) /\ ~InInit(t)' /\ thread[t].pc # "idle" /\ SessionLeft' = SessionLeft
    BY <2>1, <2>2 DEF InInit, Steps, SessionLeft
  <2>5. QuietOK'
    BY <2>2, <2>4, StaysQuiet DEF CInv
  <2>6. InsideOK' /\ ApartOK' /\ WaitOK'
    <3>1. InPlace(t)'
      BY <2>2 DEF InPlace
    <3> QED BY <2>1, <2>2, <3>1, RestKept DEF CInv
  <2> QED BY <2>3, <2>5, <2>6 DEF CInv
<1>3. CASE GetNode(t)
  BY <1>3, GetNodeCalm
<1>4. CASE NoNode(t) \/ NodeFails(t)
  <2>1. Finish(t) /\ UNCHANGED <<semaphore, pool, handles>>
    BY <1>4 DEF NoNode, NodeFails, made
  <2> QED BY <2>1, FinishCalm
<1>5. CASE ReturnNode(t)
  BY <1>5, ReturnNodeCalm
<1> QED BY <1>1, <1>2, <1>3, <1>4, <1>5 DEF NodeAction

LEMMA WaitCalm ==
  ASSUME SInv, SInv', CInv, NEW t \in Threads, Wait(t)
  PROVE  CInv'
<1>1. /\ UNCHANGED <<semaphore, pool, handles>> /\ handles # <<>> /\ MayCall
      /\ thread' = [thread EXCEPT ![t].pc = "waits", ![t].waits = semaphore]
      /\ thread[t].inside = "none"
  BY DEF Wait, At, made
<1>2. /\ \A u \in (Threads \cup Readers) \ {t} : thread'[u] = thread[u]
      /\ thread'[t].pc = "waits" /\ thread'[t].waits = semaphore /\ thread'[t].inside = "none"
  <2>1. thread \in [Threads \cup Readers -> ThreadType]
    BY DEF SInv, Types
  <2>2. PICK m : m = semaphore
    OBVIOUS
  <2>3. thread' = [thread EXCEPT ![t].pc = "waits", ![t].waits = m]
    BY <1>1, <2>2
  <2>4. \A u \in (Threads \cup Readers) \ {t} : thread'[u] = thread[u]
    BY <2>1, <2>3
  <2>5. thread'[t].pc = "waits" /\ thread'[t].waits = m /\ thread'[t].inside = thread[t].inside
    BY <2>1, <2>3 DEF ThreadType
  <2> QED BY <1>1, <2>2, <2>4, <2>5
<1>3. ~InInit(t)' /\ SessionLeft' = SessionLeft
  BY <1>1, <1>2 DEF InInit, Steps, SessionLeft
<1>4. QuietOK'
  BY <1>1, <1>2, <1>3, StaysQuiet DEF CInv
<1>5. InsideOK' /\ ApartOK' /\ WaitOK'
  <2>1. InPlace(t)'
    BY <1>2 DEF InPlace
  <2> QED BY <1>1, <1>2, <2>1, RestKept DEF CInv
<1>6. KeptOK'
  BY <1>1, <1>2, KeptStays DEF CInv
<1> QED BY <1>4, <1>5, <1>6 DEF CInv

LEMMA BufferActionCalm ==
  ASSUME SInv, SInv', CInv, NEW r \in Readers, BufferAction(r)
  PROVE  CInv'
<1>0. /\ Types /\ "buffers" \in Pools /\ r \notin Threads
      /\ "node" \in Pools \ {"buffers"} /\ "session" \in Pools \ {"buffers"}
      /\ "buffer" \in PCs /\ "fills" \in PCs /\ r \in Threads \cup Readers
  BY StartupAssumption DEF SInv, Pools, PCs, StartupAssumption
<1>1. CASE NoBuffer(r) \/ Filled(r)
  <2>1. Finish(r) /\ UNCHANGED <<semaphore, pool, handles>>
    BY <1>1 DEF NoBuffer, Filled, made
  <2> QED BY <1>0, <2>1, FinishCalm
<1>2. CASE LockBuffers(r)
  <2>1. Enter(r, "buffers", "buffer", NoContext) /\ UNCHANGED <<semaphore, pool, handles>>
    BY <1>2 DEF LockBuffers, made
  <2>2. /\ \A u \in (Threads \cup Readers) \ {r} : thread'[u] = thread[u]
        /\ thread'[r].inside = "buffers"
    BY <1>0, <2>1, EnterMoves
  <2>3. InPlace(r)' /\ SessionLeft' = SessionLeft
    BY <2>1, <2>2 DEF InPlace, SessionLeft
  <2> QED BY <1>0, <2>1, <2>2, <2>3, FrameStep
<1>3. CASE SeeBuffer(r)
  <2>1. See(r, "buffers") /\ thread[r].inside = "buffers" /\ UNCHANGED <<semaphore, pool, handles>>
    BY <1>3 DEF SeeBuffer, Inside, made
  <2>2. /\ \A u \in (Threads \cup Readers) \ {r} : thread'[u] = thread[u]
        /\ thread'[r].inside = "buffers"
    BY <1>0, <2>1, SeeMoves
  <2>3. InPlace(r)' /\ SessionLeft' = SessionLeft
    BY <2>1, <2>2 DEF InPlace, SessionLeft
  <2> QED BY <1>0, <2>1, <2>2, <2>3, FrameStep
<1>4. CASE GetBuffer(r)
  <2>1. Get(r, "buffers", "fills") /\ UNCHANGED <<semaphore, handles>>
    BY <1>4 DEF GetBuffer, made
  <2>2. /\ \A u \in (Threads \cup Readers) \ {r} : thread'[u] = thread[u]
        /\ thread'[r].inside = "none" /\ pool'["node"] = pool["node"]
        /\ pool'["session"] = pool["session"]
    BY <1>0, <2>1, GetMoves
  <2>3. InPlace(r)' /\ SessionLeft' = SessionLeft
    BY <2>1, <2>2 DEF InPlace, SessionLeft
  <2> QED BY <1>0, <2>1, <2>2, <2>3, FrameStep
<1> QED BY <1>1, <1>2, <1>3, <1>4 DEF BufferAction

LEMMA NextCInv ==
  ASSUME SInv, SInv', Calls, CInv, [Next]_vars
  PROVE  CInv'
<1>1. CASE UNCHANGED vars
  <2>1. UNCHANGED <<semaphore, pool, handles, thread>>
    BY <1>1 DEF vars, made
  <2> QED BY <2>1 DEF CInv, InsideOK, InPlace, QuietOK, Initialises, Initialising, SessionLeft,
                     KeptOK, KeptAt, FreeNodes, ApartOK, WaitOK
<1>2. ASSUME NEW t \in Threads, WaitEnds(t) PROVE CInv'
  <2>1. Finish(t) /\ UNCHANGED <<semaphore, pool, handles>>
    BY <1>2 DEF WaitEnds, made
  <2> QED BY <2>1, FinishCalm
<1>3. CASE Next
  BY <1>2, <1>3, InitActionCalm, NodeActionCalm, WaitCalm, BufferActionCalm DEF Next
<1> QED BY <1>1, <1>3

LEMMA AlwaysCInv == ASSUME Calls PROVE Spec => []CInv
<1>1. Init => CInv
  BY InitCInv
<1>2. SInv /\ SInv' /\ CInv /\ [Next]_vars => CInv'
  BY NextCInv
<1> QED BY <1>1, <1>2, AlwaysSInv, PTL DEF Spec

-----------------------------------------------------------------------------
(* Every variable has its type; in particular the semaphore is made at     *)
(* most once per domain and each mutex at most once per call of rmw_init,  *)
(* and every item on a free list is one of that pool                       *)
(* (rmw_init.cpp:94-153, types.cpp:49-69).                                 *)
THEOREM TypeCorrect == Spec => []TypeOK
<1>1. SInv => TypeOK
  <2> SUFFICES ASSUME SInv PROVE TypeOK
    OBVIOUS
  <2>0. PICK Items : Items = 1..MaxNodes \cup 1..MaxBuffers \cup 1..Domains
    OBVIOUS
  <2>1. Types /\ inits \in Nat /\ Domains \in Nat \ {0} /\ MaxNodes \in Nat \ {0} /\ MaxInits \in Nat
    BY StartupAssumption DEF SInv, Types, StartupAssumption
  <2>2. ASSUME NEW p \in Pools
        PROVE  pool[p] \in [mutex : 0..MaxInits, is_initialized : BOOLEAN, free : Seq(Items)]
    <3>1. pool[p].mutex \in 0..MaxInits
      <4>1. pool[p].mutex \in Nat /\ pool[p].mutex <= inits /\ inits <= MaxInits
        BY <2>1 DEF SInv, Types, PoolType, CountOK
      <4> QED BY <2>1, <4>1
    <3>2. pool[p].free \in Seq(Nat) /\ Range(pool[p].free) \subseteq Items
      <4>1. 1..Size(p) \subseteq Items
        BY <2>0, <2>1 DEF Size
      <4> QED BY <2>1, <4>1 DEF SInv, Types, PoolType, FreeOK
    <3>3. PICK f : f = pool[p].free
      OBVIOUS
    <3>4. f \in Seq(Items)
      <4>1. /\ Len(f) \in Nat /\ f \in [1..Len(f) -> Nat]
            /\ \A k \in 1..Len(f) : f[k] \in Items
        BY <3>2, <3>3, LenProperties DEF Range
      <4>2. f \in [1..Len(f) -> Items]
        BY <4>1
      <4> QED BY <4>1, <4>2
    <3> QED BY <2>1, <3>1, <3>3, <3>4 DEF Types, PoolType
  <2>3. pool \in [Pools -> [mutex : 0..MaxInits, is_initialized : BOOLEAN, free : Seq(Items)]]
    BY <2>1, <2>2 DEF Types
  <2>4. semaphore \in 0..Domains
    <3>1. semaphore \in Nat /\ Len(FreeSessions) \in Nat /\ semaphore + Len(FreeSessions) <= Domains
      BY <2>1, SMTT(30) DEF SInv, SemaphoreOK, FreeSessions, Types, PoolType, Pools
    <3> QED BY <2>1, <3>1
  <2> QED BY <2>0, <2>1, <2>3, <2>4 DEF Types, TypeOK
<1> QED BY <1>1, AlwaysSInv, PTL

(* Every node that was returned is in a session with a participant and a   *)
(* completed domain, and the pools of its entities were made, whatever     *)
(* threads run next to each other (rmw_init.cpp:132-153).                  *)
THEOREM NodesAreUsable == Spec => []NodesUsable
<1>1. SInv => NodesUsable
  <2> SUFFICES ASSUME SInv, NEW k \in DOMAIN handles
               PROVE  /\ node[handles[k]] # 0
                      /\ session[node[handles[k]]] = [participant |-> TRUE, complete |-> TRUE]
                      /\ \A p \in Pools : pool[p].is_initialized
    BY DEF NodesUsable
  <2>1. PICK s : s = node[handles[k]]
    OBVIOUS
  <2>2. Ready(s) /\ AllPools
    BY <2>1 DEF SInv, NodeOK
  <2>3. s \in 1..Domains /\ session[s].participant /\ session[s].complete
    BY <2>2 DEF Ready
  <2>4. session[s] = [participant |-> TRUE, complete |-> TRUE]
    BY <2>3 DEF SInv, Types
  <2>5. s # 0
    BY <2>3, StartupAssumption DEF SInv, Types
  <2> QED BY <2>1, <2>2, <2>4, <2>5 DEF AllPools
<1> QED BY <1>1, AlwaysSInv, PTL

(* At most one thread is inside get_memory for sessions, nodes or entities *)
(* although rmw_init makes their mutexes anew whenever it is called: with  *)
(* one domain whatever threads are inside then, because the call finds no  *)
(* session first (rmw_init.cpp:111), else if calls do not overlap.         *)
THEOREM OneInsideHolds == ASSUME Domains = 1 \/ ~Overlap PROVE Spec => []OneInside
<1>1. Calls
  BY DEF Calls
<1>2. SInv /\ CInv => OneInside
  <2> SUFFICES ASSUME SInv, CInv, NEW p \in Pools \ {"buffers"},
                      NEW t \in DOMAIN thread, NEW u \in DOMAIN thread, t # u,
                      thread[t].inside = p, thread[u].inside = p
               PROVE  FALSE
    BY DEF OneInside
  <2>1. /\ t \in Threads \cup Readers /\ u \in Threads \cup Readers /\ p # "none"
        /\ InPlace(t) /\ InPlace(u)
    BY DEF SInv, Types, CInv, InsideOK, Pools
  <2>2. /\ t \in Threads /\ u \in Threads /\ p \in {"session", "node"}
        /\ p = "session" => thread[t].pc = "slot" /\ thread[u].pc = "slot"
        /\ p = "node" => thread[t].pc = "node slot" /\ thread[u].pc = "node slot"
    BY <2>1 DEF InPlace
  <2>3. CASE p = "session"
    BY <2>2, <2>3 DEF SInv, InitOK, InInit, Steps
  <2>4. CASE p = "node"
    BY <2>2, <2>4 DEF CInv, KeptOK, KeptAt
  <2> QED BY <2>2, <2>3, <2>4
<1> QED BY <1>1, <1>2, AlwaysSInv, AlwaysCInv, PTL

(* rmw_wait never sleeps on a semaphore that was replaced, however often   *)
(* rmw_init is called next to it, if there is one domain: the call that    *)
(* would make the semaphore again has no session left (rmw_init.cpp:121);  *)
(* with more if calls do not overlap.                                      *)
THEOREM WaiterIsKept == ASSUME Domains = 1 \/ ~Overlap PROVE Spec => []WaiterKept
<1>1. Calls
  BY DEF Calls
<1>2. CInv => WaiterKept
  BY DEF CInv, WaitOK, WaiterKept
<1> QED BY <1>1, <1>2, AlwaysCInv, PTL

(* No two nodes of an application share an item of the pool, with one      *)
(* domain or if calls do not overlap (rmw_node.cpp:60, types.cpp:55-56).   *)
THEOREM NodesAreApart == ASSUME Domains = 1 \/ ~Overlap PROVE Spec => []NodesApart
<1>1. Calls
  BY DEF Calls
<1>2. CInv => NodesApart
  BY DEF CInv, ApartOK, NodesApart
<1> QED BY <1>1, <1>2, AlwaysCInv, PTL
=============================================================================
