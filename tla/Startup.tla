------------------------------- MODULE Startup -------------------------------
(***************************************************************************)
(* rmw_init and rmw_create_node, next to the threads that already use the  *)
(* pools and the semaphore: rmw_init makes the mutexes of the first two    *)
(* pools anew every time it is called, also when it fails afterwards, and  *)
(* with a session those of all pools and the semaphore.  Every thread may  *)
(* run at any time, also while another is inside a pool.                   *)
(*                                                                         *)
(* One thread at a time runs rmw_init, as the ROS 2 API asks; it may be    *)
(* called again after a failure, and for a further context.  Left out:     *)
(* calls with NULL arguments, which change nothing, and the stubs          *)
(* (rmw_shutdown, rmw_context_fini, rmw_destroy_node).                     *)
(***************************************************************************)
EXTENDS Naturals, Sequences, FiniteSets, Functions

CONSTANTS
    Threads,        \* application threads
    Readers,        \* reader threads of embeddedRTPS
    Contexts,       \* rmw_context_t of the application
    Domains,        \* RMW_ERTPS_MAX_DOMAINS
    MaxNodes,       \* RMW_ERTPS_MAX_NODES
    MaxBuffers,     \* RMW_ERTPS_MAX_HISTORY
    MaxInits,       \* bound on the number of calls of rmw_init
    Overlap,        \* is a session made while other threads are in calls?
    NoContext

ASSUME StartupAssumption ==
    /\ Threads \cap Readers = {}
    /\ Domains \in Nat \ {0} /\ MaxNodes \in Nat \ {0} /\ MaxBuffers \in Nat
    /\ MaxInits \in Nat
    /\ Overlap \in BOOLEAN
    /\ NoContext \notin Contexts

Pools == {"session", "buffers", "node", "subscription", "publisher", "service", "client"}

\* Broken on purpose: the semaphore is made before there is a session.
InitStepsSemaphoreFirst ==
    <<"session", "buffers", "semaphore", "slot", "domain", "complete",
      "node", "subscription", "publisher", "service", "client", "participant">>

\* Broken on purpose: all pools are made before it is clear that there is a session.
InitStepsPoolsFirst ==
    <<"session", "buffers", "node", "subscription", "publisher", "service", "client",
      "slot", "semaphore", "domain", "complete", "participant">>

(* The way of a call of rmw_init; a step with the name of a pool makes it. *)
InitSteps ==
    <<"session", "buffers", "slot", "semaphore", "domain", "complete",
      "node", "subscription", "publisher", "service", "client", "participant">>

VARIABLES
    pool,           \* of each pool: how often its mutex was made, its items
    semaphore,      \* how often rmw_wait_sem was made
    session,        \* custom_sessions
    context,        \* of each rmw_context_t: what rmw_init returned, and impl
    node,           \* node_info->context of each item of the node pool
    handles,        \* data of each rmw_node_t that rmw_create_node returned
    inits,          \* calls of rmw_init so far
    thread          \* what each thread is doing

made == <<semaphore, session, inits>>
vars == <<made, pool, context, node, handles, thread>>

\* inside: the pool whose mutex the thread holds, and which mutex that was.
\* slot: the item it looks at or has got.  waits: the semaphore it sleeps on.
Idle == [pc |-> "idle", context |-> NoContext, slot |-> 0,
         inside |-> "none", mutex |-> 0, waits |-> 0]

(* Static storage is zero: is_initialized of every pool is false. *)
Init ==
    /\ pool = [p \in Pools |-> [mutex |-> 0, is_initialized |-> FALSE, free |-> <<>>]]
    /\ semaphore = 0
    /\ session = [s \in 1..Domains |-> [participant |-> FALSE, complete |-> FALSE]]
    /\ context = [c \in Contexts |-> [ret |-> "none", impl |-> 0]]
    /\ node = [n \in 1..MaxNodes |-> 0]
    /\ handles = <<>>
    /\ inits = 0
    /\ thread = [t \in Threads \cup Readers |-> Idle]

-----------------------------------------------------------------------------
At(t, pc) == thread[t].pc = pc /\ thread[t].inside = "none"

Inside(t, pc, p) == thread[t].pc = pc /\ thread[t].inside = p

(* rtps::Lock lock{mem->memory_mutex}: nobody holds the mutex that the     *)
(* pool has at this moment.                                                *)
Enter(t, p, pc, c) ==
    /\ \A u \in DOMAIN thread :
          thread[u].inside = p => thread[u].mutex # pool[p].mutex
    /\ thread' = [thread EXCEPT ![t].pc = pc, ![t].context = c,
                                ![t].inside = p, ![t].mutex = pool[p].mutex]

(* get_memory, inside the pool: item = mem->freeitems ...                  *)
See(t, p) ==
    /\ thread[t].slot = 0
    /\ pool[p].free # <<>>
    /\ thread' = [thread EXCEPT ![t].slot = Head(pool[p].free)]

(* ... which then leaves the free list, and the thread goes on with it.    *)
(* Two threads inside, with different mutexes, can both have seen one      *)
(* item: both get it, and the list is spared what else the two may do.     *)
Get(t, p, pc) ==
    /\ thread[t].slot # 0
    /\ pool' = IF pool[p].free # <<>> /\ Head(pool[p].free) = thread[t].slot
               THEN [pool EXCEPT ![p].free = Tail(@)]
               ELSE pool
    /\ thread' = [thread EXCEPT ![t].pc = pc, ![t].inside = "none", ![t].mutex = 0]

(* mem->freeitems is NULL. *)
Exhausted(t, p) == thread[t].slot = 0 /\ pool[p].free = <<>>

Finish(t) == thread' = [thread EXCEPT ![t] = Idle]

-----------------------------------------------------------------------------
(* rmw_init(&options, c), in thread t. *)
Initialising == {t \in Threads : thread[t].pc \in Range(InitSteps)}

SessionLeft == pool["session"].is_initialized => pool["session"].free # <<>>

(* The call has a session, or there still is one for it. *)
Initialises(t) ==
    /\ t \in Initialising
    /\ SessionLeft \/ thread[t].pc \notin {"session", "buffers", "slot"}

(* Unless calls overlap, the application does nothing else while it makes  *)
(* a session.  A call of rmw_init that finds none may come at any time, as *)
(* all that embeddedRTPS's threads do.                                     *)
MayCall == Overlap \/ \A t \in Threads : ~Initialises(t)

After(step) ==
    LET k == CHOOSE k \in DOMAIN InitSteps : InitSteps[k] = step
    IN  InitSteps[k + 1]

BeginInit(t, c) ==
    /\ At(t, "idle")
    /\ Initialising = {} /\ inits < MaxInits /\ context[c].ret # "ok"
    /\ Overlap \/ ~SessionLeft \/ \A u \in Threads \ {t} : thread[u].pc = "idle"
    /\ inits' = inits + 1
    /\ thread' = [thread EXCEPT ![t].pc = InitSteps[1], ![t].context = c]
    /\ UNCHANGED <<semaphore, session, pool, context, node, handles>>

Goes(t, step) == thread' = [thread EXCEPT ![t].pc = After(step)]

ReturnInit(t, ret) ==
    /\ context' = [context EXCEPT ![thread[t].context].ret = ret]
    /\ Finish(t)

Size(p) == CASE p = "session" -> Domains
             [] p = "buffers" -> MaxBuffers
             [] p = "node"    -> MaxNodes
             [] OTHER         -> 1

\* Broken on purpose: is_initialized is not looked at.
LoadsAlways(p) == TRUE

Loads(p) == ~pool[p].is_initialized

(* rmw_ertps_init_X_memory: a new mutex each time, but the items are put   *)
(* in the pool only once, each in front of the one before.                 *)
MakePool(t, p) ==
    /\ At(t, p)
    /\ pool' = [pool EXCEPT ![p] =
                  [mutex |-> @.mutex + 1, is_initialized |-> TRUE,
                   free |-> IF Loads(p) THEN [k \in 1..Size(p) |-> Size(p) + 1 - k]
                            ELSE @.free]]
    /\ Goes(t, p)
    /\ UNCHANGED <<made, context, node, handles>>

LockSessions(t) ==
    /\ At(t, "slot")
    /\ Enter(t, "session", "slot", thread[t].context)
    /\ UNCHANGED <<made, pool, context, node, handles>>

SeeSession(t) ==
    /\ Inside(t, "slot", "session")
    /\ See(t, "session")
    /\ UNCHANGED <<made, pool, context, node, handles>>

GetSession(t) ==
    /\ Inside(t, "slot", "session")
    /\ Get(t, "session", After("slot"))
    /\ UNCHANGED <<made, context, node, handles>>

NoSession(t) ==
    /\ Inside(t, "slot", "session")
    /\ Exhausted(t, "session")
    /\ ReturnInit(t, "error")
    /\ UNCHANGED <<made, pool, node, handles>>

(* sys_sem_new(&rmw_wait_sem, 0) *)
NewSemaphore(t) ==
    /\ At(t, "semaphore")
    /\ semaphore' = semaphore + 1
    /\ Goes(t, "semaphore")
    /\ UNCHANGED <<session, inits, pool, context, node, handles>>

(* A new Domain and its participant, which createParticipant may fail to   *)
(* make; context->impl is set in any case.                                 *)
NewDomain(t) ==
    /\ At(t, "domain")
    /\ \E participant \in BOOLEAN :
          session' = [session EXCEPT ![thread[t].slot] =
                        [participant |-> participant, complete |-> FALSE]]
    /\ context' = [context EXCEPT ![thread[t].context].impl = thread[t].slot]
    /\ Goes(t, "domain")
    /\ UNCHANGED <<semaphore, inits, pool, node, handles>>

CompleteInit(t) ==
    /\ At(t, "complete")
    /\ session' = [session EXCEPT ![thread[t].slot].complete = TRUE]
    /\ Goes(t, "complete")
    /\ UNCHANGED <<semaphore, inits, pool, context, node, handles>>

(* The session is not given back, and context->impl stays. *)
CompleteInitFails(t) ==
    /\ At(t, "complete")
    /\ ReturnInit(t, "error")
    /\ UNCHANGED <<made, pool, node, handles>>

\* Broken on purpose: the participant is not looked at.
TestParticipantNot(t) ==
    /\ At(t, "participant")
    /\ ReturnInit(t, "ok")
    /\ UNCHANGED <<made, pool, node, handles>>

(* The last step, after the participant was used. *)
TestParticipant(t) ==
    /\ At(t, "participant")
    /\ ReturnInit(t, IF session[thread[t].slot].participant THEN "ok" ELSE "error")
    /\ UNCHANGED <<made, pool, node, handles>>

-----------------------------------------------------------------------------
(* rmw_create_node, for a context that rmw_init has made. *)
LockNodes(t, c) ==
    /\ At(t, "idle") /\ MayCall
    /\ context[c].ret = "ok"
    /\ Enter(t, "node", "node slot", c)
    /\ UNCHANGED <<made, pool, context, node, handles>>

SeeNode(t) ==
    /\ Inside(t, "node slot", "node")
    /\ See(t, "node")
    /\ UNCHANGED <<made, pool, context, node, handles>>

GetNode(t) ==
    /\ Inside(t, "node slot", "node")
    /\ Get(t, "node", "node handle")
    /\ node' = [node EXCEPT ![thread[t].slot] = context[thread[t].context].impl]
    /\ UNCHANGED <<made, context, handles>>

NoNode(t) ==
    /\ Inside(t, "node slot", "node")
    /\ Exhausted(t, "node")
    /\ Finish(t)
    /\ UNCHANGED <<made, pool, context, node, handles>>

(* The handle, its name and its namespace are allocated ... *)
ReturnNode(t) ==
    /\ At(t, "node handle")
    /\ handles' = Append(handles, thread[t].slot)
    /\ Finish(t)
    /\ UNCHANGED <<made, pool, context, node>>

(* ... or one of them is not, and the item of the pool is lost. *)
NodeFails(t) ==
    /\ At(t, "node handle")
    /\ Finish(t)
    /\ UNCHANGED <<made, pool, context, node, handles>>

-----------------------------------------------------------------------------
(* The rest of the program, once there is a node: a callback takes a       *)
(* static buffer and fills it, which an application thread gives back some *)
(* time (StaticBuffers has all of that) ...                                *)
LockBuffers(r) ==
    /\ At(r, "idle") /\ handles # <<>>
    /\ Enter(r, "buffers", "buffer", NoContext)
    /\ UNCHANGED <<made, pool, context, node, handles>>

SeeBuffer(r) ==
    /\ Inside(r, "buffer", "buffers")
    /\ See(r, "buffers")
    /\ UNCHANGED <<made, pool, context, node, handles>>

GetBuffer(r) ==
    /\ Inside(r, "buffer", "buffers")
    /\ Get(r, "buffers", "fills")
    /\ UNCHANGED <<made, context, node, handles>>

NoBuffer(r) ==
    /\ Inside(r, "buffer", "buffers")
    /\ Exhausted(r, "buffers")
    /\ Finish(r)
    /\ UNCHANGED <<made, pool, context, node, handles>>

Filled(r) ==
    /\ At(r, "fills")
    /\ Finish(r)
    /\ UNCHANGED <<made, pool, context, node, handles>>

(* ... and an application thread sleeps in rmw_wait until a callback       *)
(* signals the semaphore of that time, or a timeout.                       *)
Wait(t) ==
    /\ At(t, "idle") /\ MayCall /\ handles # <<>>
    /\ thread' = [thread EXCEPT ![t].pc = "waits", ![t].waits = semaphore]
    /\ UNCHANGED <<made, pool, context, node, handles>>

WaitEnds(t) ==
    /\ At(t, "waits")
    /\ Finish(t)
    /\ UNCHANGED <<made, pool, context, node, handles>>

InitAction(t) ==
    \/ \E c \in Contexts : BeginInit(t, c)
    \/ \E p \in Pools : MakePool(t, p)
    \/ LockSessions(t) \/ SeeSession(t) \/ GetSession(t) \/ NoSession(t)
    \/ NewSemaphore(t) \/ NewDomain(t)
    \/ CompleteInit(t) \/ CompleteInitFails(t) \/ TestParticipant(t)

NodeAction(t) ==
    \/ \E c \in Contexts : LockNodes(t, c)
    \/ SeeNode(t) \/ GetNode(t) \/ NoNode(t) \/ ReturnNode(t) \/ NodeFails(t)

BufferAction(r) ==
    LockBuffers(r) \/ SeeBuffer(r) \/ GetBuffer(r) \/ NoBuffer(r) \/ Filled(r)

Next ==
    \/ \E t \in Threads : InitAction(t) \/ NodeAction(t) \/ Wait(t) \/ WaitEnds(t)
    \/ \E r \in Readers : BufferAction(r)

Spec == Init /\ [][Next]_vars

-----------------------------------------------------------------------------
(* The types of the variables. *)
TypeOK ==
    /\ pool \in [Pools -> [mutex : 0..MaxInits, is_initialized : BOOLEAN,
                           free : Seq(1..MaxNodes \cup 1..MaxBuffers \cup 1..Domains)]]
    /\ semaphore \in 0..Domains
    /\ session \in [1..Domains -> [participant : BOOLEAN, complete : BOOLEAN]]
    /\ context \in [Contexts -> [ret : {"none", "ok", "error"}, impl : 0..Domains]]
    /\ node \in [1..MaxNodes -> 0..Domains]
    /\ handles \in Seq(1..MaxNodes)
    /\ inits \in 0..MaxInits

(* At most one thread is inside get_memory for a pool of sessions, nodes   *)
(* or entities.  rmw_init looks for a session before it makes these pools, *)
(* and with them their mutexes, anew (rmw_init.cpp:111, 136): a call that  *)
(* finds none does no harm at whatever moment, and while a session is made *)
(* no other call is to be under way.  The pool of buffers is made anew     *)
(* before that, see BuffersApart.                                          *)
OneInside ==
    \A p \in Pools \ {"buffers"} : \A t, u \in DOMAIN thread :
       t # u /\ thread[t].inside = p => thread[u].inside # p

(* A thread that sleeps in rmw_wait sleeps on the semaphore that callbacks *)
(* signal: rmw_init tests for a session before it makes rmw_wait_sem anew  *)
(* (rmw_init.cpp:121), so that with one domain a call that comes too late  *)
(* leaves the semaphore alone.                                             *)
WaiterKept == \A t \in Threads : thread[t].pc = "waits" => thread[t].waits = semaphore

(* No two nodes of the application share an item, whatever calls of        *)
(* rmw_init failed or came in between (types.cpp:56).                      *)
NodesApart == IsInjective(handles)

(* A node that rmw_create_node has returned belongs to a session with a    *)
(* participant and a completed domain, and every pool its entities need is *)
(* there: no earlier failure of rmw_init is taken for a success            *)
(* (rmw_init.cpp:132-146).                                                 *)
NodesUsable ==
    \A k \in DOMAIN handles :
       /\ node[handles[k]] # 0
       /\ session[node[handles[k]]] = [participant |-> TRUE, complete |-> TRUE]
       /\ \A p \in Pools : pool[p].is_initialized

(* An item that get_memory "gets from the free pool" (memory.cpp:37) is    *)
(* free: two callbacks never fill one static buffer.                       *)
BuffersApart ==
    \A r, s \in Readers :
       r # s /\ thread[r].pc = "fills" /\ thread[s].pc = "fills" =>
          thread[r].slot # thread[s].slot
=============================================================================
