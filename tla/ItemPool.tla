------------------------------ MODULE ItemPool ------------------------------
(***************************************************************************)
(* What a memory pool of rmw_embeddedrtps promises to its callers: a       *)
(* stack of free items and a list of the items that are handed out, the    *)
(* latest first.  MemPool, the doubly linked lists of memory.cpp,          *)
(* implements this specification; StaticBuffers is written on top of it.   *)
(***************************************************************************)
EXTENDS SequencesExt

CONSTANT Items      \* the items a pool may manage

VARIABLES alloc,    \* the items handed out, the latest first
          free      \* the free items, the next to be handed out first

poolVars == <<alloc, free>>

(* The pool exists and has no item yet. *)
PoolInit == alloc = <<>> /\ free = <<>>

(* An item of the static array that the pool does not have yet joins it. *)
Provide(i) ==
    /\ i \notin ToSet(alloc) \cup ToSet(free)
    /\ free' = Cons(i, free)
    /\ UNCHANGED alloc

(* The free item on the top of the stack goes to the caller. *)
Get(i) ==
    /\ free # <<>>
    /\ i = Head(free)
    /\ alloc' = Cons(i, alloc)
    /\ free' = Tail(free)

(* An item that was handed out comes back, wherever it is in the list. *)
Put(i) ==
    /\ \E k \in DOMAIN alloc : alloc[k] = i /\ alloc' = RemoveAt(alloc, k)
    /\ free' = Cons(i, free)

PoolNext == \E i \in Items : Provide(i) \/ Get(i) \/ Put(i)

PoolSpec == PoolInit /\ [][PoolNext]_poolVars
=============================================================================
