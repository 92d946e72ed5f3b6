------------------------------ MODULE Endpoints ------------------------------
(***************************************************************************)
(* Creation of publishers, subscriptions, services and clients by          *)
(* application threads, while embeddedRTPS's reader threads already run    *)
(* callbacks for the readers that exist.  An entity is built in steps: its *)
(* item of the pool, its type support, the names of its endpoints, the     *)
(* endpoints themselves, the callback, and last the handle that the        *)
(* application gets.  Each step may fail, and what the steps before it did *)
(* stays: no failing path calls put_memory, and rmw_destroy_publisher and  *)
(* its like are not implemented.  So a pool's allocated list only grows at *)
(* its head.                                                               *)
(*                                                                         *)
(* inner_callback walks that list without the pool's mutex, so get_memory  *)
(* is here in the writes that a walk may see: the link of the new item and *)
(* the head of the list.  No fence or atomic orders them for a thread that *)
(* takes no lock: InOrder says whether they arrive in program order.       *)
(*                                                                         *)
(* A name is a topic and a type, both as the sequence of their characters, *)
(* where a prefix or a suffix counts as one.  The mutexes are those of one *)
(* rmw_init; Startup has what a second one does to them.                   *)
(***************************************************************************)
EXTENDS SequencesExt

CONSTANTS
    Threads,        \* application threads
    Creates,        \* the kinds of entities each of them creates
    Names,          \* topic or service, and type, that a call is made with
    MaxLength,      \* RMW_ERTPS_TOPIC_NAME_MAX_LENGTH without the final zero
    MaxTypeLength,  \* RMW_ERTPS_TYPE_NAME_MAX_LENGTH without the final zero
    InOrder,        \* do other threads see get_memory's writes in its order?
    Slots,          \* elements of each pool (RMW_ERTPS_MAX_PUBLISHERS ...)
    MaxCalls,       \* bound on the calls of the application that get an item
    MaxEndpoints,   \* writers, and readers, that embeddedRTPS can have
    Walkers         \* reader threads of embeddedRTPS

Kinds == {"publisher", "subscription", "service", "client"}

ASSUME EndpointsAssumption ==
    /\ Creates \in [Threads -> SUBSET Kinds]
    /\ \A name \in Names : /\ name = [topic |-> name.topic, type |-> name.type]
                           /\ name.topic \in Seq(ToSet(name.topic))
                           /\ name.type \in Seq(ToSet(name.type))
    /\ Slots \in Nat /\ MaxCalls \in Nat
    /\ MaxEndpoints \in Nat \ {0} /\ MaxLength \in Nat \ {0} /\ MaxTypeLength \in Nat \ {0}
    /\ InOrder \in BOOLEAN

VARIABLES
    entities,   \* of each kind, the items handed out so far, the latest last
    head,       \* of each kind, the first item of the allocated list
    next,       \* of each kind, what the next of its items points to
    writers,    \* topic and type of the writers of embeddedRTPS
    readers,    \* its readers: the same, and kind of the registered callback
    scratch,    \* the static full_topic_name and type_name of each kind
    creator,    \* the rmw_create_... call each application thread is in
    walker      \* the callback each reader thread is in

list == <<head, next>>
vars == <<entities, list, writers, readers, scratch, creator, walker>>

Blank(name) == [name |-> name, writer |-> 0, reader |-> 0, handle |-> FALSE]
Nameless    == [topic |-> <<>>, type |-> <<>>]
NotCreating == [kind |-> "none", name |-> Nameless, step |-> 0, item |-> 0]
NotWalking  == [kind |-> "none", reader |-> 0, at |-> 0]

-----------------------------------------------------------------------------
(* Broken on purpose: an item on the list before it is linked. *)
HeadFirst == <<"publish", "link">>

(* The writes of get_memory to item->next and to mem->allocateditems. *)
GetMemoryWrites == IF InOrder THEN <<"link", "publish">> ELSE <<"publish", "link">>

(* Broken on purpose: a service that reads requests before it can reply. *)
ServiceStepsReaderFirst ==
    <<GetMemoryWrites[1], GetMemoryWrites[2], "types", "names", "reader", "register",
      "writer", "handle">>

(* The steps of the four functions, in their order. *)
PublisherSteps ==
    <<GetMemoryWrites[1], GetMemoryWrites[2], "types", "names", "writer", "handle">>

SubscriptionSteps ==
    <<GetMemoryWrites[1], GetMemoryWrites[2], "types", "names", "reader", "register", "handle">>

ServiceSteps ==
    <<GetMemoryWrites[1], GetMemoryWrites[2], "types", "names", "writer", "reader", "register",
      "handle">>

ClientSteps ==
    <<GetMemoryWrites[1], GetMemoryWrites[2], "types", "names", "writer", "reader", "register",
      "handle">>

Steps == [publisher |-> PublisherSteps, subscription |-> SubscriptionSteps,
          service |-> ServiceSteps, client |-> ClientSteps]

Messages == [prefix |-> "rt", suffix |-> <<>>, part |-> <<>>]

Requests == [prefix |-> "rq", suffix |-> <<"Request">>, part |-> <<"_Request">>]

Responses == [prefix |-> "rr", suffix |-> <<"Reply">>, part |-> <<"_Response">>]

(* What each kind writes and what it reads. *)
Writes == [publisher |-> Messages, service |-> Responses, client |-> Requests]

\* Broken on purpose: a client that reads the requests.
ReadsSwapped == [subscription |-> Messages, service |-> Requests, client |-> Requests]

Reads == [subscription |-> Messages, service |-> Requests, client |-> Responses]

(* snprintf into an array: what does not fit is cut, and nobody looks at   *)
(* what snprintf returns (utils.cpp:108 can not be true).                  *)
Cut(chars, max) == IF Len(chars) <= max THEN chars ELSE SubSeq(chars, 1, max)

FullTopic(side, name) == <<side.prefix>> \o name.topic \o side.suffix
FullType(side, name)  == name.type \o side.part

(* Topic and type of an endpoint of this side of a topic or service.       *)
Described(side, name) == [topic |-> Cut(FullTopic(side, name), MaxLength),
                          type  |-> Cut(FullType(side, name), MaxTypeLength)]

(* What createWriter or createReader reads: publishers and subscriptions   *)
(* generate the names in static arrays, services and clients on the stack. *)
InUse(t, sides) ==
    LET c == creator[t]
    IN  IF c.kind \in {"publisher", "subscription"} THEN scratch[c.kind]
                                                   ELSE Described(sides[c.kind], c.name)

-----------------------------------------------------------------------------
(* After rmw_init, which has put every item on the free list of its pool;  *)
(* the items of a pool are numbered in the order in which they leave it.   *)
Init ==
    /\ entities = [k \in Kinds |-> <<>>]
    /\ head = [k \in Kinds |-> 0]
    /\ next = [k \in Kinds |-> [i \in 1..Slots |-> IF i < Slots THEN i + 1 ELSE 0]]
    /\ writers = <<>> /\ readers = <<>>
    /\ scratch = [k \in {"publisher", "subscription"} |-> Nameless]
    /\ creator = [t \in Threads |-> NotCreating]
    /\ walker = [w \in Walkers |-> NotWalking]

Calls == Len(entities["publisher"]) + Len(entities["subscription"])
           + Len(entities["service"]) + Len(entities["client"])

(* The call is at step s. *)
At(t, s) ==
    /\ creator[t] # NotCreating
    /\ Steps[creator[t].kind][creator[t].step] = s

Advance(t) == creator' = [creator EXCEPT ![t].step = @ + 1]

(* The call returns, with NULL unless the last step gave the handle. *)
Leave(t) == creator' = [creator EXCEPT ![t] = NotCreating]

SetField(t, entity) ==
    entities' = [entities EXCEPT ![creator[t].kind][creator[t].item] = entity]

Mine(t) == entities[creator[t].kind][creator[t].item]

(* A creation of this kind is in get_memory, and holds the pool's mutex. *)
Locked(kind) == \E t \in Threads : creator[t].kind = kind /\ creator[t].step \in 1..2

(* Broken on purpose: an item beyond the array. *)
TakeItemUnbounded(t, kind, name) ==
    /\ creator[t] = NotCreating
    /\ ~Locked(kind)
    /\ Calls < MaxCalls
    /\ entities' = [entities EXCEPT ![kind] = Append(@, Blank(name))]
    /\ creator' = [creator EXCEPT ![t] = [kind |-> kind, name |-> name, step |-> 1,
                                          item |-> Len(entities[kind]) + 1]]
    /\ UNCHANGED <<list, writers, readers, scratch, walker>>

(* get_memory, with the mutex, takes the first free item.  With no free    *)
(* item, as with an argument that is wrong or without heap, the function   *)
(* returns NULL and has changed nothing.                                   *)
TakeItem(t, kind, name) ==
    /\ creator[t] = NotCreating
    /\ ~Locked(kind)
    /\ Len(entities[kind]) < Slots
    /\ Calls < MaxCalls
    /\ entities' = [entities EXCEPT ![kind] = Append(@, Blank(name))]
    /\ creator' = [creator EXCEPT ![t] = [kind |-> kind, name |-> name, step |-> 1,
                                          item |-> Len(entities[kind]) + 1]]
    /\ UNCHANGED <<list, writers, readers, scratch, walker>>

(* item->next = mem->allocateditems *)
LinkItem(t) ==
    /\ At(t, "link")
    /\ next' = [next EXCEPT ![creator[t].kind][creator[t].item] = head[creator[t].kind]]
    /\ Advance(t)
    /\ UNCHANGED <<entities, head, writers, readers, scratch, walker>>

(* mem->allocateditems = item *)
PublishItem(t) ==
    /\ At(t, "publish")
    /\ head' = [head EXCEPT ![creator[t].kind] = creator[t].item]
    /\ Advance(t)
    /\ UNCHANGED <<entities, next, writers, readers, scratch, walker>>

(* get_message_typesupport_handle or get_service_typesupport_handle *)
FindTypes(t) ==
    /\ At(t, "types")
    /\ Advance(t) \/ Leave(t)
    /\ UNCHANGED <<entities, list, writers, readers, scratch, walker>>

MakeNames(t) ==
    /\ At(t, "names")
    /\ scratch' = IF creator[t].kind \in {"publisher", "subscription"}
                  THEN [scratch EXCEPT ![creator[t].kind] = Described(Messages, creator[t].name)]
                  ELSE scratch
    /\ Advance(t)
    /\ UNCHANGED <<entities, list, writers, readers, walker>>

CreateWriter(t) ==
    /\ At(t, "writer")
    /\ Len(writers) < MaxEndpoints
    /\ writers' = Append(writers, InUse(t, Writes))
    /\ SetField(t, [Mine(t) EXCEPT !.writer = Len(writers) + 1])
    /\ Advance(t)
    /\ UNCHANGED <<list, readers, scratch, walker>>

(* A new reader has no callback yet: embeddedRTPS drops what comes for it. *)
CreateReader(t) ==
    /\ At(t, "reader")
    /\ Len(readers) < MaxEndpoints
    /\ readers' = Append(readers, [names |-> InUse(t, Reads), callback |-> "none"])
    /\ SetField(t, [Mine(t) EXCEPT !.reader = Len(readers) + 1])
    /\ Advance(t)
    /\ UNCHANGED <<list, writers, scratch, walker>>

(* createWriter or createReader return nullptr: goto fail. *)
NoEndpoint(t) ==
    /\ \/ At(t, "writer") /\ Len(writers) = MaxEndpoints
       \/ At(t, "reader") /\ Len(readers) = MaxEndpoints
    /\ Leave(t)
    /\ UNCHANGED <<entities, list, writers, readers, scratch, walker>>

(* Broken on purpose: every reader walks the subscriptions. *)
RegisterCallbackCopied(t) ==
    /\ At(t, "register")
    /\ readers' = [readers EXCEPT ![Mine(t).reader].callback = "subscription"]
    /\ Advance(t)
    /\ UNCHANGED <<entities, list, writers, scratch, walker>>

(* registerCallback(generic_callback<kind>, reader) *)
RegisterCallback(t) ==
    /\ At(t, "register")
    /\ readers' = [readers EXCEPT ![Mine(t).reader].callback = creator[t].kind]
    /\ Advance(t)
    /\ UNCHANGED <<entities, list, writers, scratch, walker>>

GiveHandle(t) ==
    /\ At(t, "handle")
    /\ SetField(t, [Mine(t) EXCEPT !.handle = TRUE])
    /\ Leave(t)
    /\ UNCHANGED <<list, writers, readers, scratch, walker>>

Create(t) ==
    \/ \E kind \in Creates[t], name \in Names : TakeItem(t, kind, name)
    \/ LinkItem(t) \/ PublishItem(t) \/ FindTypes(t) \/ MakeNames(t)
    \/ CreateWriter(t) \/ CreateReader(t) \/ NoEndpoint(t)
    \/ RegisterCallback(t) \/ GiveHandle(t)

-----------------------------------------------------------------------------
(* inner_callback: a message has come for reader r.  The walk reads the    *)
(* head of the allocated list of the pool of its kind, and of each item    *)
(* its entity's reader and then its next, as they are at that moment.      *)
StartWalk(w, r) ==
    /\ walker[w] = NotWalking
    /\ readers[r].callback # "none"
    /\ walker' = [walker EXCEPT ![w] =
                    [kind |-> readers[r].callback, reader |-> r,
                     at |-> head[readers[r].callback]]]
    /\ UNCHANGED <<entities, list, writers, readers, scratch, creator>>

(* The entity of the item has this reader; a free item's has none.         *)
Found(w) == /\ walker[w].at \in DOMAIN entities[walker[w].kind]
            /\ entities[walker[w].kind][walker[w].at].reader = walker[w].reader

WalkOn(w) ==
    /\ walker[w].at # 0
    /\ ~Found(w)
    /\ walker' = [walker EXCEPT ![w].at = next[walker[w].kind][@]]
    /\ UNCHANGED <<entities, list, writers, readers, scratch, creator>>

(* The entity is found: the message goes into a static buffer for it, and  *)
(* StaticBuffers has what follows.  At the end of the list it is dropped.  *)
WalkEnds(w) ==
    /\ walker[w] # NotWalking
    /\ walker[w].at # 0 => Found(w)
    /\ walker' = [walker EXCEPT ![w] = NotWalking]
    /\ UNCHANGED <<entities, list, writers, readers, scratch, creator>>

Walk(w) == (\E r \in DOMAIN readers : StartWalk(w, r)) \/ WalkOn(w) \/ WalkEnds(w)

Next == (\E t \in Threads : Create(t)) \/ (\E w \in Walkers : Walk(w))

Spec == Init /\ [][Next]_vars

-----------------------------------------------------------------------------
TopicChars == {"rt", "rq", "rr", "Request", "Reply"} \cup UNION {ToSet(n.topic) : n \in Names}
TypeChars  == {"_Request", "_Response"} \cup UNION {ToSet(n.type) : n \in Names}

EndpointNames == [topic : Seq(TopicChars), type : Seq(TypeChars)]

(* The types of the variables; no pool has more entities than its array,   *)
(* and no topic or type more than the arrays for names.                    *)
TypeOK ==
    /\ entities \in [Kinds -> Seq([name : Names, writer : 0..MaxEndpoints,
                                   reader : 0..MaxEndpoints, handle : BOOLEAN])]
    /\ \A k \in Kinds : Len(entities[k]) <= Slots
    /\ head \in [Kinds -> 0..Slots]
    /\ next \in [Kinds -> [1..Slots -> 0..Slots]]
    /\ writers \in Seq(EndpointNames) /\ Len(writers) <= MaxEndpoints
    /\ readers \in Seq([names : EndpointNames, callback : Kinds \cup {"none"}])
    /\ Len(readers) <= MaxEndpoints
    /\ scratch \in [{"publisher", "subscription"} -> EndpointNames]
    /\ \A n \in ToSet(writers) \cup Range(scratch) \cup {r.names : r \in ToSet(readers)} :
          Len(n.topic) <= MaxLength /\ Len(n.type) <= MaxTypeLength
    /\ creator \in [Threads -> [kind : Kinds \cup {"none"}, name : Names \cup {Nameless},
                                step : 0..8, item : 0..Slots]]
    /\ walker \in [Walkers -> [kind : Kinds \cup {"none"}, reader : 0..MaxEndpoints,
                               at : 0..Slots]]

(* The entities a kind has so far. *)
Items(kind) == DOMAIN entities[kind]

(* The walk of inner_callback takes no lock and runs while get_memory      *)
(* changes the list: it never reaches the end without having met the       *)
(* entity that owns the reader, so no message is dropped there.            *)
WalkFinds ==
    \A w \in Walkers : walker[w] # NotWalking => walker[w].at # 0

(* An application may take from every reader that has a callback: a        *)
(* creation that fails leaves none behind, whose messages would fill the   *)
(* buffers that all entities share.                                        *)
NoOrphanReader ==
    \A r \in DOMAIN readers : readers[r].callback # "none" =>
        \E kind \in Kinds : \E i \in Items(kind) :
            /\ entities[kind][i].reader = r
            /\ \/ entities[kind][i].handle
               \/ \E t \in Threads : creator[t].kind = kind /\ creator[t].item = i

Counterparts == {<<"publisher", "subscription">>, <<"service", "client">>,
                 <<"client", "service">>}

(* Nothing of the topic or of the type was cut. *)
Fits(side, name) == /\ Len(FullTopic(side, name)) <= MaxLength
                    /\ Len(FullType(side, name)) <= MaxTypeLength

(* Endpoints meet on a topic exactly when they should, if no two threads   *)
(* create publishers at the same time, nor subscriptions, whose static     *)
(* arrays for names they would share: publishers and subscriptions of one  *)
(* topic and type always, and the two directions of one service; and of    *)
(* two that meet all the same, one has a topic or a type that was cut: a   *)
(* service "aRequest", without room for its suffix, reads the requests to  *)
(* the service "a".                                                        *)
Matches ==
    \A k, l \in Kinds : \A i \in Items(k), j \in Items(l) :
        LET a == entities[k][i]
            b == entities[l][j]
            meet == writers[a.writer] = readers[b.reader].names
        IN  a.writer > 0 /\ b.reader > 0 =>
              /\ <<k, l>> \in Counterparts /\ a.name = b.name => meet
              /\ meet => /\ <<k, l>> \in Counterparts
                         /\ \/ a.name = b.name
                            \/ ~Fits(Writes[k], a.name) \/ ~Fits(Reads[l], b.name)
=============================================================================
