------------------------------- MODULE MemPool -------------------------------
(***************************************************************************)
(* The memory pools of memory.cpp and types.cpp.  A pool threads the       *)
(* elements of one static array on two doubly linked lists, freeitems and  *)
(* allocateditems, through the prev and next fields every element starts   *)
(* with.  get_memory and put_memory run under the pool's mutex from their  *)
(* first statement to their last, so each of them is one step.             *)
(*                                                                         *)
(* Modelled is the build that the repository configures: no build file     *)
(* defines RMW_ERTPS_ALLOW_DYNAMIC_ALLOCATIONS, so the code under that     *)
(* macro is not there and an empty free list makes get_memory return NULL. *)
(***************************************************************************)
EXTENDS SequencesExt

CONSTANT Size       \* number of elements of the static array

ASSUME SizeAssumption == Size \in Nat

Items == 1..Size    \* &array[i - 1].mem, in the order of the array
NULL  == 0

VARIABLES
    mem,            \* rmw_ertps_mempool_t, with the links of all its items
    loaded,         \* i of the loop that puts the array's items in the pool
    held            \* the items get_memory returned and nobody put back

vars == <<mem, loaded, held>>

-----------------------------------------------------------------------------
(* get_memory(mem) when has_memory(mem): the head of the free list becomes *)
(* the head of the allocated one.                                          *)
GetMemory(m) ==
    LET item   == m.freeitems
        rest   == m.next[item]
        prev1  == IF rest # NULL THEN [m.prev EXCEPT ![rest] = NULL] ELSE m.prev
        prev2  == IF m.allocateditems # NULL
                  THEN [prev1 EXCEPT ![m.allocateditems] = item] ELSE prev1
    IN  [m EXCEPT !.allocateditems = item,
                  !.freeitems = rest,
                  !.next = [@ EXCEPT ![item] = m.allocateditems],
                  !.prev = [prev2 EXCEPT ![item] = NULL]]

(* Broken on purpose: put_memory forgets that item may be the head. *)
UnlinkKeepsHead(m, item) ==
    LET before == m.prev[item]
        next1  == IF before # NULL
                  THEN [m.next EXCEPT ![before] = m.next[item]] ELSE m.next
        after  == next1[item]
        prev1  == IF after # NULL
                  THEN [m.prev EXCEPT ![after] = before] ELSE m.prev
    IN  [m EXCEPT !.next = next1, !.prev = prev1]

(* The first half of put_memory(mem, item): item leaves the list its links *)
(* say it is in.  For an item in no list, prev and next are NULL.          *)
Unlink(m, item) ==
    LET before == m.prev[item]
        next1  == IF before # NULL
                  THEN [m.next EXCEPT ![before] = m.next[item]] ELSE m.next
        after  == next1[item]
        prev1  == IF after # NULL
                  THEN [m.prev EXCEPT ![after] = before] ELSE m.prev
    IN  [m EXCEPT !.allocateditems = IF @ = item THEN after ELSE @,
                  !.next = next1,
                  !.prev = prev1]

(* Broken on purpose: the free list starts at the element after item. *)
PushFreeNext(m, item) ==
    LET prev1 == IF m.freeitems # NULL
                 THEN [m.prev EXCEPT ![m.freeitems] = item] ELSE m.prev
    IN  [m EXCEPT !.freeitems = item + 1,
                  !.next = [@ EXCEPT ![item] = m.freeitems],
                  !.prev = [prev1 EXCEPT ![item] = NULL]]

(* The second half: item becomes the head of the free list. *)
PushFree(m, item) ==
    LET prev1 == IF m.freeitems # NULL
                 THEN [m.prev EXCEPT ![m.freeitems] = item] ELSE m.prev
    IN  [m EXCEPT !.freeitems = item,
                  !.next = [@ EXCEPT ![item] = m.freeitems],
                  !.prev = [prev1 EXCEPT ![item] = NULL]]

PutMemory(m, item) == PushFree(Unlink(m, item), item)

-----------------------------------------------------------------------------
(* Static storage is zero before the program starts. *)
Init ==
    /\ mem = [is_initialized |-> FALSE,
              allocateditems |-> NULL,
              freeitems      |-> NULL,
              prev           |-> [i \in Items |-> NULL],
              next           |-> [i \in Items |-> NULL]]
    /\ loaded = 0
    /\ held = {}

(* Broken on purpose: rmw_init loads a pool that is in use once more. *)
InitBeginAgain ==
    /\ Size > 0
    /\ mem' = [mem EXCEPT !.is_initialized = TRUE,
                          !.allocateditems = NULL,
                          !.freeitems      = NULL]
    /\ loaded' = 0
    /\ UNCHANGED held

(* rmw_ertps_init_X_memory: the test of is_initialized and the reset of    *)
(* the list heads.  A later call finds is_initialized set and skips this.  *)
InitBegin ==
    /\ Size > 0
    /\ ~mem.is_initialized
    /\ mem' = [mem EXCEPT !.is_initialized = TRUE,
                          !.allocateditems = NULL,
                          !.freeitems      = NULL]
    /\ loaded' = 0
    /\ UNCHANGED held

(* One round of its loop: put_memory of an item that is in no list. *)
InitStep ==
    /\ mem.is_initialized
    /\ loaded < Size
    /\ mem' = PutMemory(mem, loaded + 1)
    /\ loaded' = loaded + 1
    /\ UNCHANGED held

(* The callers come after rmw_init, hence after the loop. *)
Loaded == mem.is_initialized /\ loaded = Size

(* get_memory with a free item.  Without one it returns NULL and changes   *)
(* nothing, which is a stuttering step.                                    *)
Get ==
    /\ Loaded
    /\ mem.freeitems # NULL
    /\ held' = held \cup {mem.freeitems}
    /\ mem' = GetMemory(mem)
    /\ UNCHANGED loaded

(* put_memory by a caller that holds item. *)
Put(item) ==
    /\ Loaded
    /\ item \in held
    /\ held' = held \ {item}
    /\ mem' = PutMemory(mem, item)
    /\ UNCHANGED loaded

Next == InitBegin \/ InitStep \/ Get \/ \E item \in held : Put(item)

Spec == Init /\ [][Next]_vars

-----------------------------------------------------------------------------
Links == [Items -> Items \cup {NULL}]

(* The values the variables range over (types of memory.hpp). *)
TypeOK ==
    /\ mem \in [is_initialized : BOOLEAN,
                allocateditems : Items \cup {NULL},
                freeitems      : Items \cup {NULL},
                prev           : Links,
                next           : Links]
    /\ loaded \in 0..Size
    /\ held \in SUBSET Items

(* s is the doubly linked list that starts at head: next leads from one    *)
(* element to the following one and from the last to NULL, prev leads back *)
(* and from the first to NULL, and no item occurs twice.                   *)
IsList(m, head, s) ==
    /\ head = IF s = <<>> THEN NULL ELSE s[1]
    /\ \A i \in 1..Len(s) :
          /\ m.next[s[i]] = IF i < Len(s) THEN s[i + 1] ELSE NULL
          /\ m.prev[s[i]] = IF i > 1 THEN s[i - 1] ELSE NULL
    /\ \A i, j \in 1..Len(s) : s[i] = s[j] => i = j

(* The lists of a pool.  Lists longer than the array would repeat an item. *)
IsAllocated(m, s) == s \in SeqOf(Items, Size) /\ IsList(m, m.allocateditems, s)
IsFree(m, s)      == s \in SeqOf(Items, Size) /\ IsList(m, m.freeitems, s)

(* Whatever the order of the calls, the links of memory.cpp form two       *)
(* proper lists: the allocated one has exactly the items callers hold, the *)
(* free one exactly the other items of the pool.  So no item is lost, none *)
(* is in both lists, none is handed to two callers and a walk along next   *)
(* under the mutex (rmw_ertps_find_static_input_buffer_by_owner) ends.     *)
WellFormed ==
    /\ \E a \in SeqOf(Items, Size) : IsAllocated(mem, a) /\ ToSet(a) = held
    /\ \E f \in SeqOf(Items, Size) :
          IsFree(mem, f) /\ ToSet(f) = (1..loaded) \ held

(* The two lists, as sequences. *)
AllocatedList == CHOOSE s \in SeqOf(Items, Size) : IsAllocated(mem, s)
FreeList      == CHOOSE s \in SeqOf(Items, Size) : IsFree(mem, s)

(* The pool as its callers see it: the lists of memory.cpp implement the   *)
(* stacks of ItemPool, so put_memory takes an item out of any place of the *)
(* allocated list without disturbing the order of the others, and          *)
(* get_memory hands out the item freed last.                               *)
Abstract == INSTANCE ItemPool WITH alloc <- AllocatedList, free <- FreeList

AbstractPool == Abstract!PoolSpec
=============================================================================
