---------------------------- MODULE EndpointsProofs ----------------------------
(***************************************************************************)
(* Creation of entities for any number of threads, names, items and        *)
(* endpoints.  A creation goes through its steps with an item that no      *)
(* other creation has, and what it has written there stays.  One creation  *)
(* of a kind at a time is in get_memory, whose writes keep every item that *)
(* is on the list linked to the one before: a walk of the list finds the   *)
(* owner of a reader although it takes no lock, if the writes come in      *)
(* their order.                                                            *)
(***************************************************************************)
EXTENDS Endpoints, SequenceTheorems, TLAPS

(* Publishers are created by one thread at a time, and so subscriptions:   *)
(* the arrays for their names are static.                                  *)
OneCreator ==
    \A t, u \in Threads : t # u =>
        Creates[t] \cap Creates[u] \cap {"publisher", "subscription"} = {}

StepNames == {"link", "publish", "types", "names", "writer", "reader", "register", "handle"}

(* Up to this step the entity has no reader. *)
NoReaderYet == {"link", "publish", "types", "names", "writer", "reader"}

-----------------------------------------------------------------------------
\* Topics and types that the arrays for names hold.
ShortNames  == {n \in EndpointNames : Len(n.topic) <= MaxLength /\ Len(n.type) <= MaxTypeLength}

EntityType  == [name : Names, writer : 0..MaxEndpoints, reader : 0..MaxEndpoints, handle : BOOLEAN]
ReaderType  == [names : ShortNames, callback : Kinds \cup {"none"}]
CreatorType == [kind : Kinds \cup {"none"}, name : Names \cup {Nameless}, step : 0..8, item : 0..Slots]
WalkerType  == [kind : Kinds \cup {"none"}, reader : 0..MaxEndpoints, at : 0..Slots]

Types ==
    /\ entities \in [Kinds -> Seq(EntityType)]
    /\ \A k \in Kinds : Len(entities[k]) <= Slots
    /\ writers \in Seq(ShortNames) /\ Len(writers) <= MaxEndpoints
    /\ readers \in Seq(ReaderType) /\ Len(readers) <= MaxEndpoints
    /\ scratch \in [{"publisher", "subscription"} -> ShortNames]
    /\ creator \in [Threads -> CreatorType]

Creating(t) == creator[t] # NotCreating

StepOf(t) == Steps[creator[t].kind][creator[t].step]

(* A creation is at a step of its kind, has an item, and the reader in its *)
(* item is there from the step after "reader" on.                          *)
OwnOK(t) ==
    Creating(t) =>
        /\ creator[t].kind \in Kinds /\ creator[t].name \in Names
        /\ creator[t].step \in 1..Len(Steps[creator[t].kind])
        /\ creator[t].item \in Items(creator[t].kind)
        /\ StepOf(t) \in NoReaderYet => Mine(t).reader = 0
        /\ StepOf(t) \in {"register"} /\ creator[t].kind # "publisher"
             => Mine(t).reader \in DOMAIN readers

CreatorOK == \A t \in Threads : OwnOK(t)

(* No two creations have one item. *)
ApartOK ==
    \A t, u \in Threads :
        /\ Creating(t) /\ Creating(u) /\ t # u
        /\ creator[t].kind = creator[u].kind
        => creator[t].item # creator[u].item

(* An item of kind k has this reader, and either has a handle or gets it   *)
(* next.                                                                   *)
Owned(r, k) ==
    \E i \in Items(k) :
        /\ entities[k][i].reader = r
        /\ \/ entities[k][i].handle
           \/ \E t \in Threads : /\ Creating(t) /\ StepOf(t) = "handle"
                                 /\ creator[t].kind = k /\ creator[t].item = i

RegisteredOK ==
    \A r \in DOMAIN readers : readers[r].callback # "none" => Owned(r, readers[r].callback)

EInv == Types /\ CreatorOK /\ ApartOK /\ RegisteredOK

(* The static array for names still has those of the one creation that     *)
(* uses it, and an item has the name that its creation was called with.    *)
NameOK(t) ==
    Creating(t) =>
        /\ creator[t].kind \in Creates[t]
        /\ Mine(t).name = creator[t].name
        /\ creator[t].kind \in {"publisher", "subscription"} /\ StepOf(t) \in {"writer", "reader"}
             => scratch[creator[t].kind] = Described(Messages, creator[t].name)

NamesOK == \A t \in Threads : NameOK(t)

(* An item's endpoints have the names of its kind. *)
EndOK(k, e) ==
    /\ e.writer # 0 => /\ k \in DOMAIN Writes /\ e.writer \in DOMAIN writers
                       /\ writers[e.writer] = Described(Writes[k], e.name)
    /\ e.reader # 0 => /\ k \in DOMAIN Reads /\ e.reader \in DOMAIN readers
                       /\ readers[e.reader].names = Described(Reads[k], e.name)

EndsOK == \A k \in Kinds : \A i \in Items(k) : EndOK(k, entities[k][i])

-----------------------------------------------------------------------------
(* What follows on what, in each of the four functions. *)
StepsFollow(k, st) ==
    /\ st[1] \in {"link", "publish"} /\ st[2] \in {"link", "publish"} /\ st[1] # st[2]
    /\ InOrder => st[1] = "link" /\ st[2] = "publish"
    /\ \A n \in 1..Len(st) : st[n] \in StepNames
    /\ \A n \in 1..Len(st) : st[n] \in {"link", "publish"} => n \in 1..2
    /\ \A n \in 1..Len(st) : st[n] # "handle" => n + 1 \in 1..Len(st)
    /\ \A n \in 1..Len(st) :
          /\ st[n] \in {"link", "publish"} => st[n + 1] \in {"link", "publish", "types"}
          /\ st[n] = "types" => st[n + 1] = "names"
          /\ st[n] = "names" => st[n + 1] = IF k = "subscription" THEN "reader" ELSE "writer"
          /\ st[n] = "writer" =>
                /\ k # "subscription"
                /\ st[n + 1] = IF k = "publisher" THEN "handle" ELSE "reader"
          /\ st[n] = "reader" => k # "publisher" /\ st[n + 1] = "register"
          /\ st[n] = "register" => k # "publisher" /\ st[n + 1] = "handle"

LEMMA StepOrder ==
  ASSUME NEW k \in Kinds
  PROVE  Len(Steps[k]) \in 6..8 /\ StepsFollow(k, Steps[k])
<1>1. PICK st : st = Steps[k]
  OBVIOUS
<1>2. PICK a, b : a = GetMemoryWrites[1] /\ b = GetMemoryWrites[2]
  OBVIOUS
<1>3. /\ a \in {"link", "publish"} /\ b \in {"link", "publish"} /\ a # b
      /\ InOrder => a = "link" /\ b = "publish"
  BY <1>2 DEF GetMemoryWrites
<1>4. \/ k = "publisher" /\ st = <<a, b, "types", "names", "writer", "handle">>
      \/ k = "subscription" /\ st = <<a, b, "types", "names", "reader", "register", "handle">>
      \/ k \in {"service", "client"} /\ st =
           <<a, b, "types", "names", "writer", "reader", "register", "handle">>
  BY <1>1, <1>2 DEF Steps, Kinds, PublisherSteps, SubscriptionSteps, ServiceSteps, ClientSteps
<1>5. CASE k = "publisher" /\ st = <<a, b, "types", "names", "writer", "handle">>
  <2>1. /\ Len(st) = 6 /\ st[1] = a /\ st[2] = b /\ st[3] = "types" /\ st[4] = "names"
        /\ st[5] = "writer" /\ st[6] = "handle"
    BY <1>5
  <2>2. \A n \in 1..6 : n = 1 \/ n = 2 \/ n = 3 \/ n = 4 \/ n = 5 \/ n = 6
    OBVIOUS
  <2>3. StepsFollow(k, st)
    BY <1>3, <1>5, <2>1, <2>2 DEF StepsFollow, StepNames
  <2> QED BY <1>1, <2>1, <2>3
<1>6. CASE k = "subscription" /\ st = <<a, b, "types", "names", "reader", "register", "handle">>
  <2>1. /\ Len(st) = 7 /\ st[1] = a /\ st[2] = b /\ st[3] = "types" /\ st[4] = "names"
        /\ st[5] = "reader" /\ st[6] = "register" /\ st[7] = "handle"
    BY <1>6
  <2>2. \A n \in 1..7 : n = 1 \/ n = 2 \/ n = 3 \/ n = 4 \/ n = 5 \/ n = 6 \/ n = 7
    OBVIOUS
  <2>3. StepsFollow(k, st)
    BY <1>3, <1>6, <2>1, <2>2 DEF StepsFollow, StepNames
  <2> QED BY <1>1, <2>1, <2>3
<1>7. CASE k \in {"service", "client"} /\ st =
           <<a, b, "types", "names", "writer", "reader", "register", "handle">>
  <2>1. /\ Len(st) = 8 /\ st[1] = a /\ st[2] = b /\ st[3] = "types" /\ st[4] = "names"
        /\ st[5] = "writer" /\ st[6] = "reader" /\ st[7] = "register" /\ st[8] = "handle"
    BY <1>7
  <2>2. \A n \in 1..8 : n = 1 \/ n = 2 \/ n = 3 \/ n = 4 \/ n = 5 \/ n = 6 \/ n = 7 \/ n = 8
    OBVIOUS
  <2>3. StepsFollow(k, st)
    BY <1>3, <1>7, <2>1, <2>2 DEF StepsFollow, StepNames
  <2> QED BY <1>1, <2>1, <2>3
<1> QED BY <1>4, <1>5, <1>6, <1>7

-----------------------------------------------------------------------------
(* Topics and types fit in their arrays, cut or not. *)
Sides == {Messages, Requests, Responses}

LEMMA OneElement ==
  ASSUME NEW S, NEW x \in S
  PROVE  <<x>> \in Seq(S) /\ Len(<<x>>) = 1 /\ <<x>>[1] = x
OBVIOUS

LEMMA SideFacts ==
  ASSUME NEW side \in Sides
  PROVE  /\ side.prefix \in TopicChars /\ <<side.prefix>> \in Seq(TopicChars)
         /\ side.suffix \in Seq(TopicChars) /\ side.part \in Seq(TypeChars)
<1>1. /\ side.prefix \in {"rt", "rq", "rr"}
      /\ side.suffix = <<>> \/ side.suffix = <<"Request">> \/ side.suffix = <<"Reply">>
      /\ side.part = <<>> \/ side.part = <<"_Request">> \/ side.part = <<"_Response">>
  BY DEF Sides, Messages, Requests, Responses
<1>2. /\ side.prefix \in TopicChars /\ "Request" \in TopicChars /\ "Reply" \in TopicChars
      /\ "_Request" \in TypeChars /\ "_Response" \in TypeChars
  BY <1>1 DEF TopicChars, TypeChars
<1>3. /\ <<side.prefix>> \in Seq(TopicChars) /\ <<>> \in Seq(TopicChars)
      /\ <<"Request">> \in Seq(TopicChars) /\ <<"Reply">> \in Seq(TopicChars)
      /\ <<>> \in Seq(TypeChars) /\ <<"_Request">> \in Seq(TypeChars)
      /\ <<"_Response">> \in Seq(TypeChars)
  BY ONLY <1>2, OneElement, EmptySeq
<1> QED BY <1>1, <1>2, <1>3

LEMMA NameFacts ==
  ASSUME NEW name \in Names
  PROVE  /\ name = [topic |-> name.topic, type |-> name.type]
         /\ name.topic \in Seq(TopicChars) /\ name.type \in Seq(TypeChars)
<1>1. /\ name.topic \in Seq(ToSet(name.topic)) /\ name.type \in Seq(ToSet(name.type))
      /\ name = [topic |-> name.topic, type |-> name.type]
  BY EndpointsAssumption DEF EndpointsAssumption
<1>2. ToSet(name.topic) \subseteq TopicChars
  <2>1. ToSet(name.topic) \in {ToSet(n.topic) : n \in Names}
    OBVIOUS
  <2> QED BY <2>1 DEF TopicChars
<1>3. ToSet(name.type) \subseteq TypeChars
  <2>1. ToSet(name.type) \in {ToSet(n.type) : n \in Names}
    OBVIOUS
  <2> QED BY <2>1 DEF TypeChars
<1> QED BY <1>1, <1>2, <1>3, SeqMonotonic

LEMMA FullNames ==
  ASSUME NEW side \in Sides, NEW name \in Names
  PROVE  FullTopic(side, name) \in Seq(TopicChars) /\ FullType(side, name) \in Seq(TypeChars)
<1>1. <<side.prefix>> \o name.topic \in Seq(TopicChars)
  BY SideFacts, NameFacts, ConcatProperties
<1>2. (<<side.prefix>> \o name.topic) \o side.suffix \in Seq(TopicChars)
  BY <1>1, SideFacts, ConcatProperties
<1>3. name.type \o side.part \in Seq(TypeChars)
  BY SideFacts, NameFacts, ConcatProperties
<1> QED BY <1>2, <1>3 DEF FullTopic, FullType

(* What snprintf leaves of a sequence of characters. *)
LEMMA CutFacts ==
  ASSUME NEW S, NEW chars \in Seq(S), NEW max \in Nat \ {0}
  PROVE  /\ Cut(chars, max) \in Seq(S) /\ Len(Cut(chars, max)) <= max
         /\ Len(chars) >= 1 => Cut(chars, max)[1] = chars[1]
<1>1. Len(chars) \in Nat
  BY LenProperties
<1>2. CASE Len(chars) <= max
  BY <1>2 DEF Cut
<1>3. CASE ~(Len(chars) <= max)
  <2>1. Cut(chars, max) = SubSeq(chars, 1, max)
    BY <1>3 DEF Cut
  <2>2. \A i \in 1..max : chars[i] \in S
    BY <1>1, <1>3, ElementOfSeq
  <2>3. /\ SubSeq(chars, 1, max) \in Seq(S)
        /\ Len(SubSeq(chars, 1, max)) = max
        /\ \A i \in 1..max : SubSeq(chars, 1, max)[i] = chars[1 + i - 1]
    BY <2>2, SubSeqProperties
  <2>4. SubSeq(chars, 1, max)[1] = chars[1]
    BY <2>3
  <2> QED BY <2>1, <2>3, <2>4
<1> QED BY <1>2, <1>3

LEMMA DescribedShort ==
  ASSUME NEW side \in Sides, NEW name \in Names
  PROVE  Described(side, name) \in ShortNames
<1>1. MaxLength \in Nat \ {0} /\ MaxTypeLength \in Nat \ {0}
  BY EndpointsAssumption DEF EndpointsAssumption
<1>2. /\ Cut(FullTopic(side, name), MaxLength) \in Seq(TopicChars)
      /\ Len(Cut(FullTopic(side, name), MaxLength)) <= MaxLength
      /\ Cut(FullType(side, name), MaxTypeLength) \in Seq(TypeChars)
      /\ Len(Cut(FullType(side, name), MaxTypeLength)) <= MaxTypeLength
  BY <1>1, FullNames, CutFacts
<1> QED BY <1>2 DEF Described, ShortNames, EndpointNames

LEMMA SidesOfKinds ==
  /\ \A k \in DOMAIN Writes : Writes[k] \in Sides
  /\ \A k \in DOMAIN Reads : Reads[k] \in Sides
  /\ DOMAIN Writes = {"publisher", "service", "client"}
  /\ DOMAIN Reads = {"subscription", "service", "client"}
  /\ Messages \in Sides
  /\ Writes["publisher"] = Messages /\ Reads["subscription"] = Messages
BY DEF Writes, Reads, Sides

LEMMA NamelessShort == Nameless \in ShortNames
<1>1. MaxLength \in Nat \ {0} /\ MaxTypeLength \in Nat \ {0}
  BY EndpointsAssumption DEF EndpointsAssumption
<1>2. <<>> \in Seq(TopicChars) /\ <<>> \in Seq(TypeChars) /\ Len(<<>>) = 0
  BY EmptySeq
<1> QED BY <1>1, <1>2 DEF Nameless, ShortNames, EndpointNames

(* What a walk reads: the list, and where each walk is. *)
ListTypes ==
    /\ head \in [Kinds -> 0..Slots] /\ next \in [Kinds -> [1..Slots -> 0..Slots]]
    /\ walker \in [Walkers -> WalkerType]
    /\ \A w \in Walkers : walker[w] # NotWalking => walker[w].kind \in Kinds

(* The invariant's types are those of TypeOK. *)
LEMMA TypesGiveTypeOK == Types /\ ListTypes => TypeOK
<1> SUFFICES ASSUME Types, ListTypes PROVE TypeOK
  OBVIOUS
<1>1. /\ entities \in [Kinds -> Seq([name : Names, writer : 0..MaxEndpoints,
                                     reader : 0..MaxEndpoints, handle : BOOLEAN])]
      /\ \A k \in Kinds : Len(entities[k]) <= Slots
  BY DEF Types, EntityType
<1>2. /\ writers \in Seq(EndpointNames) /\ Len(writers) <= MaxEndpoints
      /\ \A n \in ToSet(writers) : n \in ShortNames
  <2>1. writers \in Seq(ShortNames) /\ ShortNames \subseteq EndpointNames
    BY DEF Types, ShortNames
  <2>2. writers \in Seq(EndpointNames)
    BY <2>1, SeqMonotonic
  <2>3. \A n \in ToSet(writers) : n \in ShortNames
    BY <2>1, LenProperties, ElementOfSeq DEF ToSet
  <2> QED BY <2>2, <2>3 DEF Types
<1>3. /\ readers \in Seq([names : EndpointNames, callback : Kinds \cup {"none"}])
      /\ Len(readers) <= MaxEndpoints
      /\ \A n \in {r.names : r \in ToSet(readers)} : n \in ShortNames
  <2>1. /\ readers \in Seq(ReaderType)
        /\ ReaderType \subseteq [names : EndpointNames, callback : Kinds \cup {"none"}]
    BY DEF Types, ReaderType, ShortNames
  <2>2. readers \in Seq([names : EndpointNames, callback : Kinds \cup {"none"}])
    BY <2>1, SeqMonotonic
  <2>3. \A r \in ToSet(readers) : r \in ReaderType
    BY <2>1, LenProperties, ElementOfSeq DEF ToSet
  <2>4. \A r \in ToSet(readers) : r.names \in ShortNames
    BY <2>3 DEF ReaderType
  <2> QED BY <2>2, <2>4 DEF Types
<1>4. /\ scratch \in [{"publisher", "subscription"} -> EndpointNames]
      /\ \A n \in Range(scratch) : n \in ShortNames
  BY DEF Types, ShortNames, Range
<1>5. \A n \in ShortNames : Len(n.topic) <= MaxLength /\ Len(n.type) <= MaxTypeLength
  BY DEF ShortNames
<1>6. \A n \in ToSet(writers) \cup Range(scratch) \cup {r.names : r \in ToSet(readers)} :
          Len(n.topic) <= MaxLength /\ Len(n.type) <= MaxTypeLength
  BY <1>2, <1>3, <1>4, <1>5
<1>7. /\ creator \in [Threads -> [kind : Kinds \cup {"none"}, name : Names \cup {Nameless},
                                  step : 0..8, item : 0..Slots]]
      /\ walker \in [Walkers -> [kind : Kinds \cup {"none"}, reader : 0..MaxEndpoints,
                                 at : 0..Slots]]
      /\ head \in [Kinds -> 0..Slots] /\ next \in [Kinds -> [1..Slots -> 0..Slots]]
  BY DEF Types, ListTypes, CreatorType, WalkerType
<1> QED BY <1>1, <1>2, <1>3, <1>4, <1>6, <1>7 DEF TypeOK

-----------------------------------------------------------------------------
LEMMA Constants == MaxEndpoints \in Nat \ {0} /\ Slots \in Nat /\ MaxCalls \in Nat
BY EndpointsAssumption DEF EndpointsAssumption

LEMMA InitInv == Init => EInv
<1> SUFFICES ASSUME Init PROVE EInv
  OBVIOUS
<1>1. NotCreating \in CreatorType
  BY Constants DEF NotCreating, CreatorType
<1>2. /\ \A k \in Kinds : entities[k] = <<>>
      /\ \A t \in Threads : creator[t] = NotCreating
  BY DEF Init
<1>3. /\ readers \in Seq(ReaderType) /\ Len(readers) <= MaxEndpoints
      /\ \A r \in DOMAIN readers : readers[r].callback = "none"
  <2>1. readers = <<>>
    BY DEF Init
  <2>2. readers \in Seq(ReaderType) /\ Len(readers) = 0
    BY <2>1, EmptySeq
  <2>3. DOMAIN readers = 1..0
    BY <2>2, LenProperties
  <2> QED BY <2>2, <2>3, Constants
<1>4. writers \in Seq(ShortNames) /\ Len(writers) <= MaxEndpoints
  <2>1. <<>> \in Seq(ShortNames) /\ Len(<<>>) = 0
    BY EmptySeq
  <2> QED BY <2>1, Constants DEF Init
<1>5. /\ entities \in [Kinds -> Seq(EntityType)]
      /\ \A k \in Kinds : Len(entities[k]) <= Slots
  <2>1. <<>> \in Seq(EntityType) /\ Len(<<>>) = 0
    BY EmptySeq
  <2>2. entities = [k \in Kinds |-> <<>>]
    BY DEF Init
  <2> QED BY <2>1, <2>2, Constants
<1>6. Types
  <2>1. scratch \in [{"publisher", "subscription"} -> ShortNames]
    BY NamelessShort DEF Init
  <2>2. creator \in [Threads -> CreatorType]
    BY <1>1 DEF Init
  <2> QED BY <1>3, <1>4, <1>5, <2>1, <2>2 DEF Types
<1>7. CreatorOK /\ ApartOK
  BY <1>2 DEF CreatorOK, ApartOK, OwnOK, Creating
<1>8. RegisteredOK
  BY <1>3 DEF RegisteredOK
<1> QED BY <1>6, <1>7, <1>8 DEF EInv

-----------------------------------------------------------------------------
(* What the operators that all steps share do to the variables. *)
LEMMA Items1 ==
  ASSUME Types, NEW k \in Kinds
  PROVE  /\ entities[k] \in Seq(EntityType) /\ Len(entities[k]) \in Nat
         /\ Items(k) = 1..Len(entities[k])
         /\ \A i \in Items(k) : entities[k][i] \in EntityType
<1>1. entities[k] \in Seq(EntityType)
  BY DEF Types
<1>2. Items(k) = 1..Len(entities[k]) /\ Len(entities[k]) \in Nat
  BY <1>1, LenProperties DEF Items
<1> QED BY <1>1, <1>2, ElementOfSeq

LEMMA SetFieldFacts ==
  ASSUME Types, CreatorOK, NEW t \in Threads, Creating(t),
         NEW e \in EntityType, SetField(t, e)
  PROVE  /\ entities' \in [Kinds -> Seq(EntityType)]
         /\ \A k \in Kinds : Len(entities'[k]) = Len(entities[k])
         /\ \A k \in Kinds : \A i \in Items(k) :
               entities'[k][i] = IF k = creator[t].kind /\ i = creator[t].item
                                 THEN e ELSE entities[k][i]
<1>1. /\ creator[t].kind \in Kinds
      /\ creator[t].item \in Items(creator[t].kind)
  BY DEF CreatorOK, OwnOK
<1>2. PICK c, n : c = creator[t].kind /\ n = creator[t].item
  OBVIOUS
<1>3. entities[c] \in Seq(EntityType) /\ n \in 1..Len(entities[c])
  BY <1>1, <1>2, Items1
<1>4. /\ [entities[c] EXCEPT ![n] = e] \in Seq(EntityType)
      /\ Len([entities[c] EXCEPT ![n] = e]) = Len(entities[c])
      /\ \A i \in 1..Len(entities[c]) :
            [entities[c] EXCEPT ![n] = e][i] = IF i = n THEN e ELSE entities[c][i]
  BY <1>3, ExceptSeq
<1>5. /\ entities' = [entities EXCEPT ![c] = [entities[c] EXCEPT ![n] = e]]
      /\ entities \in [Kinds -> Seq(EntityType)]
  BY <1>2 DEF SetField, Types
<1>6. /\ entities' \in [Kinds -> Seq(EntityType)]
      /\ entities'[c] = [entities[c] EXCEPT ![n] = e]
      /\ \A k \in Kinds : k # c => entities'[k] = entities[k]
  BY <1>1, <1>2, <1>4, <1>5
<1>7. \A k \in Kinds : Items(k) = 1..Len(entities[k])
  BY Items1
<1> QED BY <1>1, <1>2, <1>4, <1>6, <1>7, SMTT(30)

LEMMA AdvanceFacts ==
  ASSUME Types, CreatorOK, NEW t \in Threads, Creating(t), StepOf(t) # "handle", Advance(t)
  PROVE  /\ creator' \in [Threads -> CreatorType]
         /\ \A u \in Threads : u # t => creator'[u] = creator[u]
         /\ Creating(t)'
         /\ creator'[t].kind = creator[t].kind /\ creator'[t].item = creator[t].item
         /\ creator'[t].name = creator[t].name /\ creator'[t].step = creator[t].step + 1
         /\ creator'[t].step \in 1..Len(Steps[creator[t].kind])
         /\ StepOf(t)' = Steps[creator[t].kind][creator[t].step + 1]
<1>1. /\ creator \in [Threads -> CreatorType] /\ creator[t] \in CreatorType
      /\ creator[t].kind \in Kinds
      /\ creator[t].step \in 1..Len(Steps[creator[t].kind])
  BY DEF Types, CreatorOK, OwnOK
<1>2. creator[t].step + 1 \in 1..Len(Steps[creator[t].kind])
  BY <1>1, StepOrder DEF StepsFollow, StepOf
<1>3. creator[t].step + 1 \in 0..8
  <2>1. Len(Steps[creator[t].kind]) \in 6..8
    BY <1>1, StepOrder
  <2>2. \A n \in 6..8 : \A m \in 1..n : m \in 0..8
    OBVIOUS
  <2> QED BY ONLY <1>2, <2>1, <2>2
<1>4. /\ creator' = [creator EXCEPT ![t] = [creator[t] EXCEPT !.step = creator[t].step + 1]]
      /\ [creator[t] EXCEPT !.step = creator[t].step + 1] \in CreatorType
  BY <1>1, <1>3 DEF Advance, CreatorType
<1>5. /\ creator' \in [Threads -> CreatorType]
      /\ \A u \in Threads : u # t => creator'[u] = creator[u]
      /\ creator'[t] = [creator[t] EXCEPT !.step = creator[t].step + 1]
  BY <1>1, <1>4
<1>6. /\ creator'[t].kind = creator[t].kind /\ creator'[t].item = creator[t].item
      /\ creator'[t].name = creator[t].name /\ creator'[t].step = creator[t].step + 1
  BY <1>1, <1>5 DEF CreatorType
<1>7. Creating(t)'
  BY <1>1, <1>6 DEF Creating, NotCreating, Kinds
<1> QED BY <1>2, <1>5, <1>6, <1>7 DEF StepOf

LEMMA LeaveFacts ==
  ASSUME Types, NEW t \in Threads, Leave(t)
  PROVE  /\ creator' \in [Threads -> CreatorType]
         /\ \A u \in Threads : u # t => creator'[u] = creator[u]
         /\ ~Creating(t)'
<1>1. NotCreating \in CreatorType /\ creator \in [Threads -> CreatorType]
  BY Constants DEF NotCreating, CreatorType, Types
<1> QED BY <1>1 DEF Leave, Creating

(* In the order of the steps, what the next one says of the reader. *)
LEMMA OrderFacts ==
  ASSUME NEW k \in Kinds, NEW n \in 1..Len(Steps[k]), Steps[k][n] # "handle"
  PROVE  /\ Steps[k][n + 1] \in NoReaderYet => Steps[k][n] \in NoReaderYet \ {"reader"}
         /\ Steps[k][n + 1] \in {"register"} /\ k # "publisher" =>
               Steps[k][n] = "reader"
         /\ Steps[k][n + 1] \in {"writer", "reader"} => Steps[k][n] \in {"names", "writer"}
         /\ k = "publisher" => Steps[k][n] # "reader"
         /\ k = "subscription" => Steps[k][n] # "writer"
         /\ k \in {"publisher", "subscription"} /\ Steps[k][n + 1] \in {"writer", "reader"} =>
               Steps[k][n] = "names"
<1>1. StepsFollow(k, Steps[k])
  BY StepOrder
<1>2. PICK s, x : s = Steps[k][n] /\ x = Steps[k][n + 1]
  OBVIOUS
<1>3. /\ s \in StepNames
      /\ s \in {"link", "publish"} => x \in {"link", "publish", "types"}
      /\ s = "types" => x = "names"
      /\ s = "names" => x = IF k = "subscription" THEN "reader" ELSE "writer"
      /\ s = "writer" => /\ k # "subscription"
                         /\ x = IF k = "publisher" THEN "handle" ELSE "reader"
      /\ s = "reader" => k # "publisher" /\ x = "register"
      /\ s = "register" => k # "publisher" /\ x = "handle"
  BY <1>1, <1>2 DEF StepsFollow
<1> QED BY <1>2, <1>3 DEF StepNames, NoReaderYet

-----------------------------------------------------------------------------
(* What each step of a creation leaves of the items and of the other       *)
(* creations: an item stays, with its reader and its handle once it has    *)
(* them, and only its own creation changes it.                             *)
Grow ==
    \A k \in Kinds :
        /\ Len(entities[k]) <= Len(entities'[k])
        /\ \A i \in Items(k) :
              /\ entities[k][i].reader # 0 => entities'[k][i].reader = entities[k][i].reader
              /\ entities[k][i].handle => entities'[k][i].handle

OthersKept(t) ==
    \A u \in Threads : u # t =>
        /\ creator'[u] = creator[u]
        /\ Creating(u) => entities'[creator[u].kind][creator[u].item] = Mine(u)

\* The item of t is the one it had, or a new one.
ApartStep(t) ==
    Creating(t)' =>
        \/ /\ Creating(t) /\ creator'[t].kind = creator[t].kind
           /\ creator'[t].item = creator[t].item
        \/ /\ creator'[t].kind \in Kinds
           /\ creator'[t].item = Len(entities[creator'[t].kind]) + 1

StepFacts(t) ==
    /\ Types' /\ Grow /\ OthersKept(t) /\ ApartStep(t) /\ OwnOK(t)'
    /\ \A r \in DOMAIN readers : r \in DOMAIN readers'

LEMMA SameItems ==
  ASSUME EInv, NEW t \in Threads, entities' = entities,
         \A u \in Threads : u # t => creator'[u] = creator[u]
  PROVE  /\ Grow /\ OthersKept(t) /\ \A k \in Kinds : Items(k)' = Items(k)
<1>1. \A k \in Kinds : Len(entities[k]) \in Nat
  BY Items1 DEF EInv
<1> QED BY <1>1 DEF Grow, OthersKept, Items, Mine

LEMMA FieldStep ==
  ASSUME EInv, NEW t \in Threads, Creating(t), NEW e \in EntityType, SetField(t, e),
         Mine(t).reader # 0 => e.reader = Mine(t).reader,
         Mine(t).handle => e.handle,
         \A u \in Threads : u # t => creator'[u] = creator[u]
  PROVE  /\ entities' \in [Kinds -> Seq(EntityType)]
         /\ \A k \in Kinds : Len(entities'[k]) <= Slots
         /\ Grow /\ OthersKept(t)
         /\ entities'[creator[t].kind][creator[t].item] = e
         /\ \A k \in Kinds : Items(k)' = Items(k)
<1>1. Types /\ CreatorOK /\ ApartOK
  BY DEF EInv
<1>2. /\ entities' \in [Kinds -> Seq(EntityType)]
      /\ \A k \in Kinds : Len(entities'[k]) = Len(entities[k])
      /\ \A k \in Kinds : \A i \in Items(k) :
            entities'[k][i] = IF k = creator[t].kind /\ i = creator[t].item
                              THEN e ELSE entities[k][i]
  BY <1>1, SetFieldFacts
<1>3. /\ creator[t].kind \in Kinds /\ creator[t].item \in Items(creator[t].kind)
      /\ Mine(t) = entities[creator[t].kind][creator[t].item]
  BY <1>1 DEF CreatorOK, OwnOK, Mine
<1>4. Grow
  <2> SUFFICES ASSUME NEW k \in Kinds
               PROVE  /\ Len(entities[k]) <= Len(entities'[k])
                      /\ \A i \in Items(k) :
                            /\ entities[k][i].reader # 0 => entities'[k][i].reader = entities[k][i].reader
                            /\ entities[k][i].handle => entities'[k][i].handle
    BY DEF Grow
  <2>1. Len(entities[k]) <= Len(entities'[k])
    BY <1>1, <1>2, Items1
  <2>2. ASSUME NEW i \in Items(k)
        PROVE  /\ entities[k][i].reader # 0 => entities'[k][i].reader = entities[k][i].reader
               /\ entities[k][i].handle => entities'[k][i].handle
    <3>1. CASE k = creator[t].kind /\ i = creator[t].item
      BY <1>2, <1>3, <3>1
    <3>2. CASE ~(k = creator[t].kind /\ i = creator[t].item)
      BY <1>2, <3>2
    <3> QED BY <3>1, <3>2
  <2> QED BY <2>1, <2>2
<1>5. OthersKept(t)
  <2> SUFFICES ASSUME NEW u \in Threads, u # t
               PROVE  Creating(u) => entities'[creator[u].kind][creator[u].item] = Mine(u)
    BY DEF OthersKept
  <2>1. Creating(u) => /\ creator[u].kind \in Kinds /\ creator[u].item \in Items(creator[u].kind)
                       /\ creator[u].kind = creator[t].kind => creator[u].item # creator[t].item
    BY <1>1 DEF CreatorOK, OwnOK, ApartOK
  <2> QED BY <1>2, <2>1 DEF Mine
<1>6. \A k \in Kinds : Items(k)' = Items(k)
  <2>1. \A k \in Kinds : entities[k] \in Seq(EntityType) /\ entities'[k] \in Seq(EntityType)
    BY <1>1, <1>2 DEF Types
  <2>2. \A k \in Kinds : DOMAIN entities[k] = 1..Len(entities[k]) /\ DOMAIN entities'[k] = 1..Len(entities'[k])
    BY <2>1, LenProperties
  <2> QED BY <1>2, <2>2 DEF Items
<1>7. \A k \in Kinds : Len(entities'[k]) <= Slots
  BY <1>1, <1>2 DEF Types
<1> QED BY <1>2, <1>3, <1>4, <1>5, <1>6, <1>7

(* A step forward gives the creation what its next step needs. *)
LEMMA OwnForward ==
  ASSUME EInv, NEW t \in Threads, Creating(t), StepOf(t) # "handle", Advance(t),
         \A k \in Kinds : Items(k)' = Items(k),
         \A r \in DOMAIN readers : r \in DOMAIN readers',
         StepOf(t) # "reader" => Mine(t)'.reader = Mine(t).reader,
         StepOf(t) = "reader" => Mine(t)'.reader \in DOMAIN readers'
  PROVE  OwnOK(t)' /\ ApartStep(t)
<1>1. Types /\ CreatorOK
  BY DEF EInv
<1>2. /\ creator'[t].kind = creator[t].kind /\ creator'[t].item = creator[t].item
      /\ creator'[t].name = creator[t].name /\ creator'[t].step = creator[t].step + 1
      /\ creator'[t].step \in 1..Len(Steps[creator[t].kind])
      /\ StepOf(t)' = Steps[creator[t].kind][creator[t].step + 1]
  BY <1>1, AdvanceFacts
<1>3. /\ creator[t].kind \in Kinds /\ creator[t].name \in Names
      /\ creator[t].step \in 1..Len(Steps[creator[t].kind])
      /\ creator[t].item \in Items(creator[t].kind)
      /\ StepOf(t) \in NoReaderYet => Mine(t).reader = 0
      /\ StepOf(t) \in {"register"} /\ creator[t].kind # "publisher" =>
            Mine(t).reader \in DOMAIN readers
      /\ StepOf(t) = Steps[creator[t].kind][creator[t].step]
  BY <1>1 DEF CreatorOK, OwnOK, StepOf
<1>4. /\ StepOf(t)' \in NoReaderYet => StepOf(t) \in NoReaderYet \ {"reader"}
      /\ StepOf(t)' \in {"register"} /\ creator[t].kind # "publisher" =>
            StepOf(t) = "reader"
  BY <1>2, <1>3, OrderFacts
<1>5. /\ StepOf(t)' \in NoReaderYet => Mine(t)'.reader = 0
      /\ StepOf(t)' \in {"register"} /\ creator[t].kind # "publisher" =>
            Mine(t)'.reader \in DOMAIN readers'
  BY <1>3, <1>4
<1>6. OwnOK(t)'
  BY <1>2, <1>3, <1>5 DEF OwnOK
<1> QED BY <1>2, <1>6 DEF ApartStep

-----------------------------------------------------------------------------
(* One lemma for each step of a creation. *)
LEMMA TakeItemStep ==
  ASSUME EInv, NEW t \in Threads, NEW kind \in Creates[t], NEW name \in Names,
         TakeItem(t, kind, name)
  PROVE  /\ StepFacts(t)
         /\ kind \in Kinds
         /\ Creating(t)' /\ creator'[t].kind = kind /\ creator'[t].name = name
         /\ creator'[t].step = 1 /\ creator'[t].item = Len(entities[kind]) + 1
         /\ StepOf(t)' \in {"link", "publish"} /\ Mine(t)' = Blank(name)
         /\ entities'[kind] = Append(entities[kind], Blank(name))
         /\ \A k \in Kinds : k # kind => entities'[k] = entities[k]
         /\ \A k \in Kinds, i \in Nat : i \in Items(k)' =>
               \/ i \in Items(k) /\ entities'[k][i] = entities[k][i]
               \/ entities'[k][i] = Blank(name)
<1>1. Types /\ CreatorOK /\ kind \in Kinds
  BY EndpointsAssumption DEF EInv, EndpointsAssumption
<1>2. PICK n : n = Len(entities[kind])
  OBVIOUS
<1>3. PICK e \in EntityType : e = Blank(name)
  <2>1. Blank(name) \in EntityType
    BY Constants DEF Blank, EntityType
  <2> QED BY <2>1
<1>4. /\ creator[t] = NotCreating /\ n < Slots
      /\ entities' = [entities EXCEPT ![kind] = Append(entities[kind], e)]
      /\ creator' = [creator EXCEPT ![t] = [kind |-> kind, name |-> name, step |-> 1, item |-> n + 1]]
      /\ writers' = writers /\ readers' = readers /\ scratch' = scratch
  BY <1>2, <1>3 DEF TakeItem
<1>5. entities[kind] \in Seq(EntityType) /\ n \in Nat
  BY <1>1, <1>2, Items1
<1>6. PICK s : s = Append(entities[kind], e)
  OBVIOUS
<1>7. /\ s \in Seq(EntityType) /\ Len(s) = n + 1
      /\ \A i \in 1..n : s[i] = entities[kind][i]
      /\ s[n + 1] = e
  BY <1>2, <1>5, <1>6, AppendProperties
<1>8. /\ entities' \in [Kinds -> Seq(EntityType)] /\ entities'[kind] = s
      /\ \A k \in Kinds : k # kind => entities'[k] = entities[k]
  BY <1>1, <1>4, <1>6, <1>7 DEF Types
<1>9. PICK c \in CreatorType : c = [kind |-> kind, name |-> name, step |-> 1, item |-> n + 1]
  <2>1. n + 1 \in 0..Slots /\ 1 \in 0..8 /\ kind \in Kinds \cup {"none"}
    BY <1>1, <1>4, <1>5, Constants
  <2>2. [kind |-> kind, name |-> name, step |-> 1, item |-> n + 1] \in CreatorType
    BY <2>1 DEF CreatorType
  <2> QED BY <2>2
<1>10. /\ creator' \in [Threads -> CreatorType] /\ creator'[t] = c
       /\ \A u \in Threads : u # t => creator'[u] = creator[u]
       /\ c.kind = kind /\ c.name = name /\ c.step = 1 /\ c.item = n + 1
  BY <1>1, <1>4, <1>9 DEF Types
<1>11. \A k \in Kinds : Items(k) = 1..Len(entities[k]) /\ Len(entities[k]) \in Nat
  BY <1>1, Items1
<1>12. Types'
  <2>1. \A k \in Kinds : Len(entities'[k]) <= Slots
    BY <1>1, <1>4, <1>5, <1>7, <1>8, Constants DEF Types
  <2> QED BY <1>1, <1>4, <1>8, <1>10, <2>1 DEF Types
<1>13. \A k \in Kinds : Items(k)' = 1..Len(entities'[k])
  <2>1. \A k \in Kinds : DOMAIN entities'[k] = 1..Len(entities'[k])
    BY <1>8, LenProperties
  <2> QED BY <2>1 DEF Items
<1>14. /\ Grow
       /\ \A k \in Kinds : \A i \in Items(k) : entities'[k][i] = entities[k][i]
  <2>1. ASSUME NEW k \in Kinds
        PROVE  /\ Len(entities[k]) <= Len(entities'[k])
               /\ \A i \in Items(k) : entities'[k][i] = entities[k][i]
    <3>1. CASE k = kind
      <4>1. /\ entities'[k] = s /\ Len(entities[k]) = n /\ Len(s) = n + 1 /\ n \in Nat
            /\ Items(k) = 1..n
        BY <1>1, <1>2, <1>5, <1>7, <1>8, <1>11, <3>1
      <4>2. \A i \in 1..n : s[i] = entities[k][i]
        BY <1>7, <3>1
      <4> QED BY <4>1, <4>2
    <3>2. CASE k # kind
      BY <1>8, <1>11, <3>2
    <3> QED BY <3>1, <3>2
  <2> QED BY <2>1 DEF Grow
<1>15. OthersKept(t)
  <2>1. \A u \in Threads : Creating(u) => /\ creator[u].kind \in Kinds
                                          /\ creator[u].item \in Items(creator[u].kind)
    BY <1>1 DEF CreatorOK, OwnOK
  <2> QED BY <1>10, <1>14, <2>1 DEF OthersKept, Mine
<1>16. Creating(t)' /\ ApartStep(t)
  <2>1. c.kind # "none"
    BY <1>1, <1>10 DEF Kinds
  <2>2. Creating(t)'
    BY <1>10, <2>1 DEF Creating, NotCreating
  <2> QED BY <1>1, <1>2, <1>10, <2>2 DEF ApartStep
<1>17. /\ StepOf(t)' \in {"link", "publish"} /\ Mine(t)' = e /\ e.reader = 0
       /\ 1 \in 1..Len(Steps[kind])
  <2>1. Steps[kind][1] \in {"link", "publish"} /\ Len(Steps[kind]) \in 6..8
    BY <1>1, StepOrder DEF StepsFollow
  <2> QED BY <1>3, <1>7, <1>8, <1>10, <2>1 DEF StepOf, Mine, Blank
<1>18. OwnOK(t)'
  <2>1. n + 1 \in Items(kind)'
    BY <1>1, <1>5, <1>7, <1>8, <1>13
  <2>2. StepOf(t)' # "register"
    BY <1>17
  <2> QED BY <1>1, <1>10, <1>17, <2>1, <2>2 DEF OwnOK
<1>19. \A k \in Kinds, i \in Nat : i \in Items(k)' =>
               \/ i \in Items(k) /\ entities'[k][i] = entities[k][i]
               \/ entities'[k][i] = e
  <2>1. \A k \in Kinds : k # kind => Items(k)' = Items(k)
    BY <1>8, <1>11, <1>13
  <2>2. /\ Items(kind)' = 1..(n + 1) /\ Items(kind) = 1..n
        /\ entities'[kind][n + 1] = e
    BY <1>1, <1>2, <1>7, <1>8, <1>11, <1>13
  <2> QED BY <1>5, <1>14, <2>1, <2>2
<1> QED
  BY <1>1, <1>2, <1>3, <1>4, <1>6, <1>8, <1>10, <1>12, <1>14, <1>15, <1>16, <1>17, <1>18, <1>19
     DEF StepFacts

(* A step that changes neither items nor endpoints, and goes on or ends. *)
LEMMA QuietStep ==
  ASSUME EInv, NEW t \in Threads, Creating(t), StepOf(t) # "handle", StepOf(t) # "reader",
         entities' = entities, writers' = writers,
         readers' \in Seq(ReaderType), Len(readers') = Len(readers),
         scratch' \in [{"publisher", "subscription"} -> ShortNames],
         Advance(t) \/ Leave(t)
  PROVE  StepFacts(t)
<1>1. Types /\ CreatorOK
  BY DEF EInv
<1>2. /\ creator' \in [Threads -> CreatorType]
      /\ \A u \in Threads : u # t => creator'[u] = creator[u]
  BY <1>1, AdvanceFacts, LeaveFacts
<1>3. Grow /\ OthersKept(t) /\ \A k \in Kinds : Items(k)' = Items(k)
  BY <1>2, SameItems
<1>4. Types'
  BY <1>1, <1>2 DEF Types
<1>5. \A r \in DOMAIN readers : r \in DOMAIN readers'
  <2>1. DOMAIN readers = 1..Len(readers) /\ DOMAIN readers' = 1..Len(readers')
    BY <1>1, LenProperties DEF Types
  <2> QED BY <2>1
<1>6. OwnOK(t)' /\ ApartStep(t)
  <2>1. CASE Advance(t)
    <3>1. creator'[t].kind = creator[t].kind /\ creator'[t].item = creator[t].item
      BY <1>1, <2>1, AdvanceFacts
    <3>2. Mine(t)'.reader = Mine(t).reader
      BY <3>1 DEF Mine
    <3> QED BY <1>3, <1>5, <2>1, <3>2, OwnForward
  <2>2. CASE Leave(t)
    BY <1>1, <2>2, LeaveFacts DEF OwnOK, ApartStep
  <2> QED BY <2>1, <2>2
<1> QED BY <1>3, <1>4, <1>5, <1>6, <1>2 DEF StepFacts

LEMMA InUseShort ==
  ASSUME EInv, NEW t \in Threads, Creating(t)
  PROVE  /\ StepOf(t) = "writer" => InUse(t, Writes) \in ShortNames
         /\ StepOf(t) = "reader" => InUse(t, Reads) \in ShortNames
<1>1. /\ creator[t].kind \in Kinds /\ creator[t].name \in Names
      /\ creator[t].step \in 1..Len(Steps[creator[t].kind])
      /\ StepOf(t) = Steps[creator[t].kind][creator[t].step]
      /\ scratch \in [{"publisher", "subscription"} -> ShortNames]
  BY DEF EInv, CreatorOK, OwnOK, StepOf, Types
<1>2. CASE creator[t].kind \in {"publisher", "subscription"}
  BY <1>1, <1>2 DEF InUse
<1>3. CASE ~(creator[t].kind \in {"publisher", "subscription"})
  <2>1. creator[t].kind \in DOMAIN Writes /\ creator[t].kind \in DOMAIN Reads
    BY <1>1, <1>3, SidesOfKinds DEF Kinds
  <2>2. /\ Described(Writes[creator[t].kind], creator[t].name) \in ShortNames
        /\ Described(Reads[creator[t].kind], creator[t].name) \in ShortNames
    BY <1>1, <2>1, SidesOfKinds, DescribedShort
  <2> QED BY <1>3, <2>2 DEF InUse
<1> QED BY <1>2, <1>3

(* The entry of a reader whose callback is registered is its creation's. *)
LEMMA RegisterFacts ==
  ASSUME EInv, NEW t \in Threads, RegisterCallback(t)
  PROVE  /\ Creating(t) /\ StepOf(t) = "register"
         /\ creator[t].kind \in Kinds /\ Mine(t).reader \in DOMAIN readers
         /\ readers' \in Seq(ReaderType) /\ Len(readers') = Len(readers)
         /\ \A r \in DOMAIN readers :
               /\ readers'[r].names = readers[r].names
               /\ readers'[r].callback = IF r = Mine(t).reader THEN creator[t].kind
                                                               ELSE readers[r].callback
<1>1. Creating(t) /\ StepOf(t) = "register"
  BY DEF RegisterCallback, At, Creating, StepOf
<1>2. /\ creator[t].kind \in Kinds
      /\ creator[t].step \in 1..Len(Steps[creator[t].kind])
      /\ creator[t].kind # "publisher" => Mine(t).reader \in DOMAIN readers
      /\ StepOf(t) = Steps[creator[t].kind][creator[t].step]
  BY <1>1 DEF EInv, CreatorOK, OwnOK, StepOf
<1>3. creator[t].kind # "publisher"
  BY <1>1, <1>2, StepOrder DEF StepsFollow
<1>4. PICK r0, k0 : r0 = Mine(t).reader /\ k0 = creator[t].kind
  OBVIOUS
<1>5. readers \in Seq(ReaderType) /\ r0 \in 1..Len(readers) /\ DOMAIN readers = 1..Len(readers)
  BY <1>2, <1>3, <1>4, LenProperties DEF EInv, Types
<1>6. /\ [readers[r0] EXCEPT !.callback = k0] \in ReaderType
      /\ [readers[r0] EXCEPT !.callback = k0].names = readers[r0].names
      /\ [readers[r0] EXCEPT !.callback = k0].callback = k0
  <2>1. readers[r0] \in ReaderType
    BY <1>5, ElementOfSeq
  <2> QED BY <1>2, <1>4, <2>1 DEF ReaderType
<1>7. PICK x \in ReaderType : x = [readers[r0] EXCEPT !.callback = k0]
  BY <1>6
<1>8. readers' = [readers EXCEPT ![r0] = x]
  BY <1>4, <1>7 DEF RegisterCallback
<1>9. /\ readers' \in Seq(ReaderType) /\ Len(readers') = Len(readers)
      /\ \A r \in 1..Len(readers) : readers'[r] = IF r = r0 THEN x ELSE readers[r]
  BY <1>5, <1>8, ExceptSeq
<1> QED BY <1>1, <1>2, <1>3, <1>4, <1>5, <1>6, <1>7, <1>9

LEMMA QuietSteps ==
  ASSUME EInv, NEW t \in Threads,
         \/ LinkItem(t) \/ PublishItem(t) \/ FindTypes(t) \/ MakeNames(t) \/ NoEndpoint(t) \/ RegisterCallback(t)
  PROVE  StepFacts(t) /\ Creating(t) /\ StepOf(t) # "handle"
<1>1. Types /\ CreatorOK
  BY DEF EInv
<1>2. readers \in Seq(ReaderType) /\ scratch \in [{"publisher", "subscription"} -> ShortNames]
  BY <1>1 DEF Types
<1>3. CASE FindTypes(t)
  <2>1. Creating(t) /\ StepOf(t) = "types"
    BY <1>3 DEF FindTypes, At, Creating, StepOf
  <2>2. /\ entities' = entities /\ writers' = writers /\ readers' = readers
        /\ scratch' = scratch /\ (Advance(t) \/ Leave(t))
    BY <1>3 DEF FindTypes
  <2> QED BY <1>2, <2>1, <2>2, QuietStep
<1>4. CASE MakeNames(t)
  <2>1. Creating(t) /\ StepOf(t) = "names" /\ creator[t].name \in Names
    BY <1>1, <1>4 DEF MakeNames, At, Creating, StepOf, CreatorOK, OwnOK
  <2>2. /\ entities' = entities /\ writers' = writers /\ readers' = readers
        /\ Advance(t)
    BY <1>4 DEF MakeNames
  <2>3. Described(Messages, creator[t].name) \in ShortNames
    BY <2>1, SidesOfKinds, DescribedShort
  <2>4. scratch' \in [{"publisher", "subscription"} -> ShortNames]
    BY <1>2, <1>4, <2>3 DEF MakeNames
  <2> QED BY <1>2, <2>1, <2>2, <2>4, QuietStep
<1>5. CASE LinkItem(t) \/ PublishItem(t)
  <2>1. Creating(t) /\ StepOf(t) \in {"link", "publish"}
    BY <1>5 DEF LinkItem, PublishItem, At, Creating, StepOf
  <2>2. /\ entities' = entities /\ writers' = writers /\ readers' = readers
        /\ scratch' = scratch /\ Advance(t)
    BY <1>5 DEF LinkItem, PublishItem
  <2> QED BY <1>2, <2>1, <2>2, QuietStep
<1>6. CASE NoEndpoint(t)
  <2>1. /\ Creating(t) /\ StepOf(t) \in {"writer", "reader"}
        /\ entities' = entities /\ writers' = writers /\ readers' = readers
        /\ scratch' = scratch /\ Leave(t)
    BY <1>6 DEF NoEndpoint, At, Creating, StepOf
  <2>2. /\ creator' \in [Threads -> CreatorType]
        /\ \A u \in Threads : u # t => creator'[u] = creator[u]
        /\ ~Creating(t)'
    BY <1>1, <2>1, LeaveFacts
  <2>3. Grow /\ OthersKept(t)
    BY <2>1, <2>2, SameItems
  <2>4. Types'
    BY <1>1, <2>1, <2>2 DEF Types
  <2> QED BY <2>1, <2>2, <2>3, <2>4 DEF StepFacts, OwnOK, ApartStep
<1>7. CASE RegisterCallback(t)
  <2>1. /\ entities' = entities /\ writers' = writers
        /\ scratch' = scratch /\ Advance(t)
    BY <1>7 DEF RegisterCallback
  <2> QED BY <1>2, <1>7, <2>1, RegisterFacts, QuietStep
<1> QED BY <1>3, <1>4, <1>5, <1>6, <1>7

LEMMA CreateWriterStep ==
  ASSUME EInv, NEW t \in Threads, CreateWriter(t)
  PROVE  /\ StepFacts(t) /\ Creating(t) /\ StepOf(t) = "writer"
         /\ entities'[creator[t].kind][creator[t].item]
              = [Mine(t) EXCEPT !.writer = Len(writers) + 1]
<1>1. Types /\ CreatorOK
  BY DEF EInv
<1>2. /\ Creating(t) /\ StepOf(t) = "writer"
  BY DEF CreateWriter, At, Creating, StepOf
<1>3. /\ Len(writers) < MaxEndpoints /\ writers' = Append(writers, InUse(t, Writes))
      /\ Advance(t) /\ readers' = readers /\ scratch' = scratch
      /\ SetField(t, [Mine(t) EXCEPT !.writer = Len(writers) + 1])
  BY DEF CreateWriter
<1>4. creator[t].kind \in Kinds /\ creator[t].item \in Items(creator[t].kind)
  BY <1>1, <1>2 DEF CreatorOK, OwnOK
<1>5. Mine(t) \in EntityType
  BY <1>1, <1>4, Items1 DEF Mine
<1>6. /\ writers' \in Seq(ShortNames) /\ Len(writers') = Len(writers) + 1 /\ Len(writers) \in Nat
  BY <1>1, <1>2, <1>3, InUseShort, AppendProperties, LenProperties DEF Types
<1>7. PICK n : n = Len(writers) + 1
  OBVIOUS
<1>8. n \in 0..MaxEndpoints
  BY <1>3, <1>6, <1>7, Constants
<1>9. /\ [Mine(t) EXCEPT !.writer = n] \in EntityType
      /\ [Mine(t) EXCEPT !.writer = n].reader = Mine(t).reader
      /\ [Mine(t) EXCEPT !.writer = n].handle = Mine(t).handle
  BY <1>5, <1>8 DEF EntityType
<1>10. PICK e \in EntityType : e = [Mine(t) EXCEPT !.writer = n]
  BY <1>9
<1>11. /\ creator' \in [Threads -> CreatorType]
       /\ \A u \in Threads : u # t => creator'[u] = creator[u]
       /\ creator'[t].kind = creator[t].kind /\ creator'[t].item = creator[t].item
  BY <1>1, <1>2, <1>3, AdvanceFacts
<1>12. SetField(t, e) /\ e.reader = Mine(t).reader /\ e.handle = Mine(t).handle
  BY <1>3, <1>7, <1>9, <1>10
<1>13. /\ entities' \in [Kinds -> Seq(EntityType)]
       /\ \A k \in Kinds : Len(entities'[k]) <= Slots
       /\ Grow /\ OthersKept(t)
       /\ entities'[creator[t].kind][creator[t].item] = e
       /\ \A k \in Kinds : Items(k)' = Items(k)
  BY <1>2, <1>11, <1>12, FieldStep
<1>14. Types'
  <2>1. Len(writers') <= MaxEndpoints
    BY <1>3, <1>6, Constants
  <2> QED BY <1>1, <1>3, <1>6, <1>11, <1>13, <2>1 DEF Types
<1>15. Mine(t)'.reader = Mine(t).reader
  BY <1>11, <1>12, <1>13 DEF Mine
<1>16. OwnOK(t)' /\ ApartStep(t)
  BY <1>2, <1>3, <1>13, <1>15, OwnForward
<1> QED BY <1>2, <1>3, <1>7, <1>10, <1>13, <1>14, <1>16 DEF StepFacts

LEMMA CreateReaderStep ==
  ASSUME EInv, NEW t \in Threads, CreateReader(t)
  PROVE  /\ StepFacts(t) /\ Creating(t) /\ StepOf(t) = "reader" /\ Mine(t).reader = 0
         /\ entities'[creator[t].kind][creator[t].item]
              = [Mine(t) EXCEPT !.reader = Len(readers) + 1]
         /\ Len(readers') = Len(readers) + 1
         /\ \A r \in DOMAIN readers : readers'[r] = readers[r]
         /\ readers'[Len(readers) + 1] = [names |-> InUse(t, Reads), callback |-> "none"]
<1>1. Types /\ CreatorOK
  BY DEF EInv
<1>2. Creating(t) /\ StepOf(t) = "reader"
  BY DEF CreateReader, At, Creating, StepOf
<1>3. PICK d : d = [names |-> InUse(t, Reads), callback |-> "none"]
  OBVIOUS
<1>4. PICK n : n = Len(readers) + 1
  OBVIOUS
<1>5. /\ Len(readers) < MaxEndpoints /\ readers' = Append(readers, d)
      /\ Advance(t) /\ writers' = writers /\ scratch' = scratch
      /\ SetField(t, [Mine(t) EXCEPT !.reader = n])
  BY <1>3, <1>4 DEF CreateReader
<1>6. /\ creator[t].kind \in Kinds /\ creator[t].item \in Items(creator[t].kind)
      /\ Mine(t).reader = 0
  BY <1>1, <1>2 DEF CreatorOK, OwnOK, NoReaderYet
<1>7. Mine(t) \in EntityType
  BY <1>1, <1>6, Items1 DEF Mine
<1>8. d \in ReaderType
  BY <1>2, <1>3, InUseShort DEF ReaderType
<1>9. /\ readers' \in Seq(ReaderType) /\ Len(readers') = n /\ Len(readers) \in Nat
      /\ DOMAIN readers = 1..Len(readers) /\ DOMAIN readers' = 1..n
      /\ \A r \in 1..Len(readers) : readers'[r] = readers[r]
      /\ readers'[n] = d
  <2>1. readers \in Seq(ReaderType)
    BY <1>1 DEF Types
  <2>2. /\ readers' \in Seq(ReaderType) /\ Len(readers') = n /\ Len(readers) \in Nat
        /\ \A r \in 1..Len(readers) : readers'[r] = readers[r]
        /\ readers'[n] = d
    BY <2>1, <1>4, <1>5, <1>8, AppendProperties, LenProperties
  <2> QED BY <2>1, <2>2, LenProperties
<1>10. n \in 0..MaxEndpoints /\ Len(readers') <= MaxEndpoints
  BY <1>4, <1>5, <1>9, Constants
<1>11. /\ [Mine(t) EXCEPT !.reader = n] \in EntityType
       /\ [Mine(t) EXCEPT !.reader = n].reader = n
       /\ [Mine(t) EXCEPT !.reader = n].handle = Mine(t).handle
  BY <1>7, <1>10 DEF EntityType
<1>12. PICK e \in EntityType : e = [Mine(t) EXCEPT !.reader = n]
  BY <1>11
<1>13. /\ creator' \in [Threads -> CreatorType]
       /\ \A u \in Threads : u # t => creator'[u] = creator[u]
       /\ creator'[t].kind = creator[t].kind /\ creator'[t].item = creator[t].item
  BY <1>1, <1>2, <1>5, AdvanceFacts
<1>14. SetField(t, e) /\ e.reader = n /\ e.handle = Mine(t).handle
  BY <1>5, <1>11, <1>12
<1>15. /\ entities' \in [Kinds -> Seq(EntityType)]
       /\ \A k \in Kinds : Len(entities'[k]) <= Slots
       /\ Grow /\ OthersKept(t)
       /\ entities'[creator[t].kind][creator[t].item] = e
       /\ \A k \in Kinds : Items(k)' = Items(k)
  BY <1>2, <1>6, <1>13, <1>14, FieldStep
<1>16. Types'
  BY <1>1, <1>5, <1>9, <1>10, <1>13, <1>15 DEF Types
<1>17. \A r \in DOMAIN readers : r \in DOMAIN readers'
  BY <1>4, <1>9
<1>18. Mine(t)'.reader \in DOMAIN readers'
  BY <1>4, <1>9, <1>13, <1>14, <1>15 DEF Mine
<1>19. OwnOK(t)' /\ ApartStep(t)
  BY <1>2, <1>5, <1>15, <1>17, <1>18, OwnForward
<1> QED BY <1>2, <1>3, <1>4, <1>6, <1>9, <1>12, <1>15, <1>16, <1>17, <1>19 DEF StepFacts

LEMMA GiveHandleStep ==
  ASSUME EInv, NEW t \in Threads, GiveHandle(t)
  PROVE  /\ StepFacts(t) /\ Creating(t) /\ StepOf(t) = "handle" /\ ~Creating(t)'
         /\ creator[t].kind \in Kinds /\ creator[t].item \in Items(creator[t].kind)
         /\ entities'[creator[t].kind][creator[t].item] = [Mine(t) EXCEPT !.handle = TRUE]
         /\ entities'[creator[t].kind][creator[t].item].handle
         /\ entities'[creator[t].kind][creator[t].item].reader = Mine(t).reader
<1>1. Types /\ CreatorOK
  BY DEF EInv
<1>2. Creating(t) /\ StepOf(t) = "handle"
  BY DEF GiveHandle, At, Creating, StepOf
<1>3. /\ Leave(t) /\ writers' = writers /\ readers' = readers
      /\ scratch' = scratch
      /\ SetField(t, [Mine(t) EXCEPT !.handle = TRUE])
  BY DEF GiveHandle
<1>4. creator[t].kind \in Kinds /\ creator[t].item \in Items(creator[t].kind)
  BY <1>1, <1>2 DEF CreatorOK, OwnOK
<1>5. Mine(t) \in EntityType
  BY <1>1, <1>4, Items1 DEF Mine
<1>6. /\ [Mine(t) EXCEPT !.handle = TRUE] \in EntityType
      /\ [Mine(t) EXCEPT !.handle = TRUE].reader = Mine(t).reader
      /\ [Mine(t) EXCEPT !.handle = TRUE].handle
  BY <1>5 DEF EntityType
<1>7. PICK e \in EntityType : e = [Mine(t) EXCEPT !.handle = TRUE]
  BY <1>6
<1>8. /\ creator' \in [Threads -> CreatorType]
      /\ \A u \in Threads : u # t => creator'[u] = creator[u]
      /\ ~Creating(t)'
  BY <1>1, <1>3, LeaveFacts
<1>9. SetField(t, e) /\ e.reader = Mine(t).reader /\ e.handle
  BY <1>3, <1>6, <1>7
<1>10. /\ entities' \in [Kinds -> Seq(EntityType)]
       /\ \A k \in Kinds : Len(entities'[k]) <= Slots
       /\ Grow /\ OthersKept(t)
       /\ entities'[creator[t].kind][creator[t].item] = e
  BY <1>2, <1>8, <1>9, FieldStep
<1>11. Types'
  BY <1>1, <1>3, <1>8, <1>10 DEF Types
<1> QED BY <1>2, <1>3, <1>4, <1>7, <1>8, <1>9, <1>10, <1>11 DEF StepFacts, OwnOK, ApartStep

(* These steps change one field of the creation's item. *)
LEMMA FieldChanges ==
  ASSUME EInv, NEW t \in Threads, CreateWriter(t) \/ CreateReader(t) \/ GiveHandle(t)
  PROVE  \E e \in EntityType : SetField(t, e)
<1>1. Creating(t) /\ Types /\ creator[t].kind \in Kinds /\ creator[t].item \in Items(creator[t].kind)
  BY DEF EInv, CreatorOK, OwnOK, CreateWriter, CreateReader, GiveHandle, At, Creating
<1>2. Mine(t) \in EntityType
  BY <1>1, Items1 DEF Mine
<1>3. CASE CreateWriter(t)
  <2>1. Len(writers) + 1 \in 0..MaxEndpoints
    <3>1. Len(writers) \in Nat /\ Len(writers) < MaxEndpoints
      BY <1>1, <1>3, LenProperties DEF CreateWriter, Types
    <3> QED BY <3>1, Constants
  <2>2. [Mine(t) EXCEPT !.writer = Len(writers) + 1] \in EntityType
    BY <1>2, <2>1 DEF EntityType
  <2> QED BY <1>3, <2>2 DEF CreateWriter
<1>4. CASE CreateReader(t)
  <2>1. Len(readers) + 1 \in 0..MaxEndpoints
    <3>1. Len(readers) \in Nat /\ Len(readers) < MaxEndpoints
      BY <1>1, <1>4, LenProperties DEF CreateReader, Types
    <3> QED BY <3>1, Constants
  <2>2. [Mine(t) EXCEPT !.reader = Len(readers) + 1] \in EntityType
    BY <1>2, <2>1 DEF EntityType
  <2> QED BY <1>4, <2>2 DEF CreateReader
<1>5. CASE GiveHandle(t)
  <2>1. [Mine(t) EXCEPT !.handle = TRUE] \in EntityType
    BY <1>2 DEF EntityType
  <2> QED BY <1>5, <2>1 DEF GiveHandle
<1> QED BY <1>3, <1>4, <1>5

-----------------------------------------------------------------------------
(* The parts of the invariant after a step of a creation. *)
LEMMA ItemsGrow ==
  ASSUME EInv, NEW t \in Threads, StepFacts(t), NEW k \in Kinds, NEW i \in Items(k)
  PROVE  i \in Items(k)'
<1>1. entities[k] \in Seq(EntityType) /\ entities'[k] \in Seq(EntityType)
  BY DEF EInv, StepFacts, Types
<1>2. /\ DOMAIN entities[k] = 1..Len(entities[k]) /\ DOMAIN entities'[k] = 1..Len(entities'[k])
      /\ Len(entities[k]) \in Nat /\ Len(entities'[k]) \in Nat
  BY <1>1, LenProperties
<1>3. Len(entities[k]) <= Len(entities'[k])
  BY DEF StepFacts, Grow
<1> QED BY <1>2, <1>3 DEF Items

LEMMA CreatorStays ==
  ASSUME EInv, NEW t \in Threads, StepFacts(t)
  PROVE  CreatorOK'
<1> SUFFICES ASSUME NEW u \in Threads PROVE OwnOK(u)'
  BY DEF CreatorOK
<1>1. CASE u = t
  BY <1>1 DEF StepFacts
<1>2. CASE u # t
  <2>1. /\ creator'[u] = creator[u] /\ (Creating(u) => Mine(u)' = Mine(u))
        /\ OwnOK(u) /\ Creating(u)' = Creating(u) /\ StepOf(u)' = StepOf(u)
        /\ \A r \in DOMAIN readers : r \in DOMAIN readers'
    BY <1>2 DEF StepFacts, OthersKept, Mine, EInv, CreatorOK, Creating, StepOf
  <2>2. \A k \in Kinds : \A i \in Items(k) : i \in Items(k)'
    BY ItemsGrow
  <2> QED BY <2>1, <2>2 DEF OwnOK
<1> QED BY <1>1, <1>2

LEMMA ApartStays ==
  ASSUME EInv, NEW t \in Threads, StepFacts(t)
  PROVE  ApartOK'
<1> SUFFICES ASSUME NEW u \in Threads, NEW v \in Threads, u # v, Creating(u)', Creating(v)',
                    creator'[u].kind = creator'[v].kind
             PROVE  creator'[u].item # creator'[v].item
  BY DEF ApartOK
<1>1. \A x \in Threads : x # t /\ Creating(x)' =>
         /\ creator'[x] = creator[x] /\ Creating(x)
         /\ creator[x].kind \in Kinds
         /\ creator[x].item \in 1..Len(entities[creator[x].kind])
         /\ Len(entities[creator[x].kind]) \in Nat
  BY Items1 DEF StepFacts, OthersKept, Creating, EInv, CreatorOK, OwnOK
<1>2. \A x \in Threads : x # t /\ Creating(x)' /\ Creating(t)' /\ creator'[x].kind = creator'[t].kind =>
         creator'[x].item # creator'[t].item
  <2> SUFFICES ASSUME NEW x \in Threads, x # t, Creating(x)', Creating(t)',
                      creator'[x].kind = creator'[t].kind
               PROVE  creator'[x].item # creator'[t].item
    OBVIOUS
  <2>1. CASE /\ Creating(t) /\ creator'[t].kind = creator[t].kind
             /\ creator'[t].item = creator[t].item
    BY <1>1, <2>1 DEF EInv, ApartOK
  <2>2. CASE creator'[t].item = Len(entities[creator'[t].kind]) + 1
    BY <1>1, <2>2
  <2> QED BY <2>1, <2>2 DEF StepFacts, ApartStep
<1>3. CASE u # t /\ v # t
  BY <1>1, <1>3 DEF EInv, ApartOK
<1> QED BY <1>2, <1>3

(* The owner of a registered reader stays it. *)
LEMMA OwnerStays ==
  ASSUME EInv, NEW t \in Threads, StepFacts(t),
         NEW r \in DOMAIN readers, readers[r].callback # "none", NEW k, k = readers[r].callback,
         Creating(t) => StepOf(t) # "handle"
  PROVE  Owned(r, k)'
<1>1. PICK i \in Items(k) :
         /\ entities[k][i].reader = r
         /\ \/ entities[k][i].handle
            \/ \E u \in Threads : /\ Creating(u) /\ StepOf(u) = "handle"
                                  /\ creator[u].kind = k /\ creator[u].item = i
  BY DEF EInv, RegisteredOK, Owned
<1>2. k \in Kinds /\ r # 0
  <2>1. readers \in Seq(ReaderType)
    BY DEF EInv, Types
  <2>2. DOMAIN readers = 1..Len(readers) /\ readers[r] \in ReaderType
    BY <2>1, LenProperties, ElementOfSeq
  <2> QED BY <2>2 DEF ReaderType
<1>3. i \in Items(k)' /\ entities'[k][i].reader = r
  BY <1>1, <1>2, ItemsGrow DEF StepFacts, Grow
<1>4. CASE entities[k][i].handle
  BY <1>1, <1>2, <1>3, <1>4 DEF StepFacts, Grow, Owned
<1>5. ASSUME NEW u \in Threads, Creating(u), StepOf(u) = "handle",
             creator[u].kind = k, creator[u].item = i
      PROVE  /\ Creating(u)' /\ StepOf(u)' = "handle"
             /\ creator'[u].kind = k /\ creator'[u].item = i
  <2>1. u # t
    BY <1>5
  <2>2. creator'[u] = creator[u]
    BY <2>1 DEF StepFacts, OthersKept
  <2> QED BY <1>5, <2>2 DEF Creating, StepOf
<1> QED BY <1>1, <1>3, <1>4, <1>5 DEF Owned

LEMMA CreateStep ==
  ASSUME EInv, NEW t \in Threads, Create(t)
  PROVE  StepFacts(t)
<1>1. CASE \E kind \in Creates[t], name \in Names : TakeItem(t, kind, name)
  BY <1>1, TakeItemStep DEF TakeItem
<1>2. CASE \/ LinkItem(t) \/ PublishItem(t) \/ FindTypes(t) \/ MakeNames(t) \/ NoEndpoint(t) \/ RegisterCallback(t)
  BY <1>2, QuietSteps DEF LinkItem, PublishItem, FindTypes, MakeNames, NoEndpoint, RegisterCallback
<1>3. CASE CreateWriter(t)
  BY <1>3, CreateWriterStep DEF CreateWriter
<1>4. CASE CreateReader(t)
  BY <1>4, CreateReaderStep DEF CreateReader
<1>5. CASE GiveHandle(t)
  BY <1>5, GiveHandleStep DEF GiveHandle
<1> QED BY <1>1, <1>2, <1>3, <1>4, <1>5 DEF Create

LEMMA RegisteredStays ==
  ASSUME EInv, NEW t \in Threads, Create(t)
  PROVE  RegisteredOK'
<1> SUFFICES ASSUME NEW r \in DOMAIN readers', NEW k, k = readers'[r].callback, k # "none"
             PROVE  Owned(r, k)'
  BY DEF RegisteredOK, Owned
<1>1. StepFacts(t)
  BY CreateStep
<1>2. ASSUME r \in DOMAIN readers, readers'[r].callback = readers[r].callback,
             Creating(t) => StepOf(t) # "handle"
      PROVE  Owned(r, k)'
  BY <1>1, <1>2, OwnerStays
<1>3. CASE \E kind \in Creates[t], name \in Names : TakeItem(t, kind, name)
  <2>1. readers' = readers /\ ~Creating(t)
    BY <1>3 DEF TakeItem, Creating
  <2> QED BY <1>2, <2>1
<1>4. CASE LinkItem(t) \/ PublishItem(t) \/ FindTypes(t) \/ MakeNames(t) \/ NoEndpoint(t)
  <2>1. readers' = readers
    BY <1>4 DEF LinkItem, PublishItem, FindTypes, MakeNames, NoEndpoint
  <2>2. StepOf(t) # "handle"
    BY <1>4, QuietSteps
  <2> QED BY <1>2, <2>1, <2>2
<1>5. CASE CreateWriter(t)
  <2>1. readers' = readers /\ StepOf(t) # "handle"
    BY <1>5, CreateWriterStep DEF CreateWriter
  <2> QED BY <1>2, <2>1
<1>6. CASE CreateReader(t)
  <2>1. /\ \A x \in DOMAIN readers : readers'[x] = readers[x]
        /\ readers'[Len(readers) + 1] = [names |-> InUse(t, Reads), callback |-> "none"]
        /\ Len(readers') = Len(readers) + 1
        /\ StepOf(t) # "handle"
    BY <1>6, CreateReaderStep
  <2>2. readers \in Seq(ReaderType) /\ readers' \in Seq(ReaderType)
    BY <1>1 DEF StepFacts, Types, EInv
  <2>3. /\ DOMAIN readers = 1..Len(readers) /\ DOMAIN readers' = 1..Len(readers')
        /\ Len(readers) \in Nat
    BY <2>2, LenProperties
  <2>4. r # Len(readers) + 1
    BY <2>1
  <2>5. r \in DOMAIN readers
    BY <2>1, <2>3, <2>4
  <2> QED BY <1>2, <2>1, <2>5
<1>7. CASE RegisterCallback(t)
  <2>1. /\ Creating(t) /\ StepOf(t) = "register" /\ creator[t].kind \in Kinds
        /\ readers' \in Seq(ReaderType) /\ Len(readers') = Len(readers)
        /\ \A x \in DOMAIN readers :
              readers'[x].callback = IF x = Mine(t).reader THEN creator[t].kind
                                                           ELSE readers[x].callback
    BY <1>7, RegisterFacts
  <2>2. r \in DOMAIN readers
    <3>1. readers \in Seq(ReaderType)
      BY DEF EInv, Types
    <3> QED BY <2>1, <3>1, LenProperties
  <2>3. CASE r # Mine(t).reader
    BY <1>2, <2>1, <2>2, <2>3
  <2>4. CASE r = Mine(t).reader
    <3>1. Types /\ CreatorOK /\ entities' = entities /\ Advance(t)
      BY <1>7 DEF EInv, RegisterCallback
    <3>2. /\ Creating(t)' /\ creator'[t].kind = creator[t].kind /\ creator'[t].item = creator[t].item
          /\ StepOf(t)' = Steps[creator[t].kind][creator[t].step + 1]
      BY <2>1, <3>1, AdvanceFacts
    <3>3. /\ creator[t].item \in Items(creator[t].kind)
          /\ creator[t].step \in 1..Len(Steps[creator[t].kind])
      BY <2>1, <3>1 DEF CreatorOK, OwnOK
    <3>4. StepOf(t)' = "handle"
      BY <2>1, <3>2, <3>3, StepOrder DEF StepsFollow, StepOf
    <3>5. k = creator[t].kind
      BY <2>1, <2>2, <2>4
    <3>6. PICK i : i = creator[t].item
      OBVIOUS
    <3>7. i \in Items(k)' /\ entities'[k][i].reader = r
      BY <2>4, <3>1, <3>3, <3>5, <3>6 DEF Items, Mine
    <3> QED BY <3>2, <3>4, <3>5, <3>6, <3>7 DEF Owned
  <2> QED BY <2>3, <2>4
<1>8. CASE GiveHandle(t)
  <2>1. /\ StepOf(t) = "handle" /\ creator[t].kind \in Kinds
        /\ creator[t].item \in Items(creator[t].kind)
        /\ entities'[creator[t].kind][creator[t].item].handle
        /\ entities'[creator[t].kind][creator[t].item].reader = Mine(t).reader
    BY <1>8, GiveHandleStep
  <2>2. readers' = readers
    BY <1>8 DEF GiveHandle
  <2>3. k = readers[r].callback
    BY <2>2
  <2>4. /\ k \in Kinds /\ r # 0 /\ r \in DOMAIN readers
    <3>1. readers \in Seq(ReaderType)
      BY DEF EInv, Types
    <3>2. DOMAIN readers = 1..Len(readers) /\ readers[r] \in ReaderType
      BY <2>2, <3>1, LenProperties, ElementOfSeq
    <3> QED BY <2>2, <2>3, <3>2 DEF ReaderType
  <2>5. PICK i \in Items(k) :
           /\ entities[k][i].reader = r
           /\ \/ entities[k][i].handle
              \/ \E u \in Threads : /\ Creating(u) /\ StepOf(u) = "handle"
                                    /\ creator[u].kind = k /\ creator[u].item = i
    BY <2>2, <2>3, <2>4 DEF EInv, RegisteredOK, Owned
  <2>6. i \in Items(k)' /\ entities'[k][i].reader = r
    BY <1>1, <2>4, <2>5, ItemsGrow DEF StepFacts, Grow
  <2>7. CASE entities[k][i].handle
    <3>1. entities'[k][i].handle
      BY <1>1, <2>4, <2>7 DEF StepFacts, Grow
    <3> QED BY <2>6, <3>1 DEF Owned
  <2>8. ASSUME NEW u \in Threads, Creating(u), StepOf(u) = "handle",
               creator[u].kind = k, creator[u].item = i
        PROVE  Owned(r, k)'
    <3>1. CASE u = t
      BY <2>1, <2>6, <2>8, <3>1 DEF Owned
    <3>2. CASE u # t
      <4>1. creator'[u] = creator[u]
        BY <1>1, <3>2 DEF StepFacts, OthersKept
      <4>2. /\ Creating(u)' /\ StepOf(u)' = "handle"
            /\ creator'[u].kind = k /\ creator'[u].item = i
        BY <2>8, <4>1 DEF Creating, StepOf
      <4> QED BY <2>6, <4>2 DEF Owned
    <3> QED BY <3>1, <3>2
  <2> QED BY <2>5, <2>7, <2>8
<1> QED BY <1>3, <1>4, <1>5, <1>6, <1>7, <1>8 DEF Create

LEMMA NextInv == EInv /\ [Next]_vars => EInv'
<1> SUFFICES ASSUME EInv, [Next]_vars PROVE EInv'
  OBVIOUS
<1>1. ASSUME NEW t \in Threads, Create(t) PROVE EInv'
  <2>1. StepFacts(t)
    BY <1>1, CreateStep
  <2>2. Types'
    BY <2>1 DEF StepFacts
  <2> QED BY <1>1, <2>1, <2>2, CreatorStays, ApartStays, RegisteredStays DEF EInv
<1>2. CASE (\E w \in Walkers : Walk(w)) \/ UNCHANGED vars
  <2>1. /\ entities' = entities /\ writers' = writers /\ readers' = readers
        /\ scratch' = scratch /\ creator' = creator
    BY <1>2 DEF Walk, StartWalk, WalkOn, WalkEnds, vars
  <2> QED BY <2>1 DEF EInv, Types, CreatorOK, OwnOK, ApartOK, RegisteredOK, Owned,
                      Creating, StepOf, Mine, Items
<1> QED BY <1>1, <1>2 DEF Next

LEMMA EInvHolds == Spec => []EInv
<1> QED BY InitInv, NextInv, PTL DEF Spec

-----------------------------------------------------------------------------
(* The list, while get_memory's writes come in their order: the creation   *)
(* that holds the mutex of a pool has the latest item, which is linked to  *)
(* the head before it becomes the head; all others have theirs on the list.*)
LockOK(t) ==
    Creating(t) =>
        LET k == creator[t].kind
            n == creator[t].item
        IN  /\ creator[t].step \in 1..2 => n = Len(entities[k]) /\ head[k] = n - 1
            /\ creator[t].step = 2 => next[k][n] = head[k]
            /\ creator[t].step \notin 1..2 => n <= head[k]

ListOK(k) ==
    /\ head[k] <= Len(entities[k])
    /\ ~Locked(k) => head[k] = Len(entities[k])
    /\ \A i \in 1..head[k] : next[k][i] = i - 1
    /\ \A i \in Items(k) : i > head[k] => entities[k][i].reader = 0

(* A walk is at an item of the list, and the owner of its reader is not    *)
(* behind it.                                                              *)
WalkerOK ==
    \A w \in Walkers : walker[w] # NotWalking =>
        /\ walker[w].reader # 0
        /\ walker[w].at \in 1..head[walker[w].kind]
        /\ \E i \in 1..walker[w].at : entities[walker[w].kind][i].reader = walker[w].reader

LInv == /\ \A t \in Threads : LockOK(t)
        /\ \A k \in Kinds : ListOK(k)
        /\ WalkerOK

LEMMA ListInit == Init => ListTypes /\ LInv
<1> SUFFICES ASSUME Init PROVE ListTypes /\ LInv
  OBVIOUS
<1>1. /\ \A k \in Kinds : entities[k] = <<>> /\ head[k] = 0
      /\ \A t \in Threads : creator[t] = NotCreating
      /\ \A w \in Walkers : walker[w] = NotWalking
  BY DEF Init
<1>2. NotWalking \in WalkerType /\ Slots \in Nat
  BY Constants DEF NotWalking, WalkerType
<1>3. \A i \in 1..Slots : (IF i < Slots THEN i + 1 ELSE 0) \in 0..Slots
  BY <1>2
<1>4. ListTypes
  <2>1. head \in [Kinds -> 0..Slots] /\ walker \in [Walkers -> WalkerType]
    BY <1>2 DEF Init
  <2>2. next \in [Kinds -> [1..Slots -> 0..Slots]]
    BY <1>3 DEF Init
  <2> QED BY <1>1, <2>1, <2>2 DEF ListTypes
<1>5. \A k \in Kinds : ListOK(k)
  <2>1. Len(<<>>) = 0 /\ DOMAIN <<>> = {}
    OBVIOUS
  <2> QED BY <1>1, <2>1 DEF ListOK, Items
<1> QED BY <1>1, <1>4, <1>5 DEF LInv, LockOK, WalkerOK, Creating

LEMMA TypesStep == EInv /\ ListTypes /\ [Next]_vars => ListTypes'
<1> SUFFICES ASSUME EInv, ListTypes, [Next]_vars PROVE ListTypes'
  OBVIOUS
<1>1. ASSUME NEW t \in Threads, LinkItem(t) PROVE ListTypes'
  <2>1. PICK k, n : k = creator[t].kind /\ n = creator[t].item
    OBVIOUS
  <2>2. k \in Kinds /\ n \in 1..Len(entities[k]) /\ Len(entities[k]) \in Nat /\ Len(entities[k]) <= Slots
    <3>1. Creating(t)
      BY <1>1 DEF LinkItem, At, Creating
    <3>2. k \in Kinds /\ n \in Items(k)
      BY <2>1, <3>1 DEF EInv, CreatorOK, OwnOK
    <3> QED BY <3>2, Items1 DEF EInv, Types
  <2>3. n \in 1..Slots /\ head[k] \in 0..Slots
    BY <2>2, Constants DEF ListTypes
  <2>4. next' = [next EXCEPT ![k] = [next[k] EXCEPT ![n] = head[k]]]
    BY <1>1, <2>1 DEF LinkItem
  <2>5. [next[k] EXCEPT ![n] = head[k]] \in [1..Slots -> 0..Slots]
    BY <2>2, <2>3 DEF ListTypes
  <2>6. next' \in [Kinds -> [1..Slots -> 0..Slots]]
    BY <2>4, <2>5 DEF ListTypes
  <2> QED BY <1>1, <2>6 DEF LinkItem, ListTypes
<1>2. ASSUME NEW t \in Threads, PublishItem(t) PROVE ListTypes'
  <2>1. creator[t].item \in 0..Slots
    BY DEF EInv, Types, CreatorType
  <2>2. head' \in [Kinds -> 0..Slots]
    BY <1>2, <2>1 DEF PublishItem, ListTypes
  <2> QED BY <1>2, <2>2 DEF PublishItem, ListTypes
<1>3. ASSUME NEW t \in Threads, Create(t), ~LinkItem(t), ~PublishItem(t) PROVE ListTypes'
  <2>1. head' = head /\ next' = next /\ walker' = walker
    BY <1>3 DEF Create, TakeItem, FindTypes, MakeNames, CreateWriter, CreateReader,
                NoEndpoint, RegisterCallback, GiveHandle, list
  <2> QED BY <2>1 DEF ListTypes
<1>4. ASSUME NEW w \in Walkers, Walk(w) PROVE ListTypes'
  <2>1. head' = head /\ next' = next
    BY <1>4 DEF Walk, StartWalk, WalkOn, WalkEnds, list
  <2>2. PICK x : x = walker'[w]
    OBVIOUS
  <2>3. /\ walker' = [walker EXCEPT ![w] = x] /\ x \in WalkerType
        /\ x # NotWalking => x.kind \in Kinds
    <3>1. CASE \E r \in DOMAIN readers : StartWalk(w, r)
      <4>1. PICK r \in DOMAIN readers : StartWalk(w, r)
        BY <3>1
      <4>2. PICK k : k = readers[r].callback
        OBVIOUS
      <4>3. k \in Kinds /\ r \in 0..MaxEndpoints
        <5>1. readers \in Seq(ReaderType) /\ Len(readers) <= MaxEndpoints
          BY DEF EInv, Types
        <5>2. DOMAIN readers = 1..Len(readers) /\ Len(readers) \in Nat /\ readers[r] \in ReaderType
          BY <5>1, LenProperties, ElementOfSeq
        <5>3. k # "none"
          BY <4>1, <4>2 DEF StartWalk
        <5> QED BY <4>2, <5>1, <5>2, <5>3, Constants DEF ReaderType
      <4>4. walker' = [walker EXCEPT ![w] = [kind |-> k, reader |-> r, at |-> head[k]]]
        BY <4>1, <4>2 DEF StartWalk
      <4>5. x = [kind |-> k, reader |-> r, at |-> head[k]]
        BY <2>2, <4>4 DEF ListTypes
      <4> QED BY <4>3, <4>4, <4>5 DEF ListTypes, WalkerType
    <3>2. CASE WalkOn(w)
      <4>1. PICK v : v = walker[w]
        OBVIOUS
      <4>2. /\ v.at # 0 /\ walker' = [walker EXCEPT ![w] = [v EXCEPT !.at = next[v.kind][v.at]]]
        BY <3>2, <4>1 DEF WalkOn
      <4>3. v # NotWalking /\ v \in WalkerType
        BY <4>1, <4>2 DEF NotWalking, ListTypes
      <4>4. v.kind \in Kinds /\ v.at \in 1..Slots
        BY <4>1, <4>2, <4>3, Constants DEF ListTypes, WalkerType
      <4>5. next[v.kind][v.at] \in 0..Slots
        BY <4>4 DEF ListTypes
      <4>6. x = [v EXCEPT !.at = next[v.kind][v.at]]
        BY <2>2, <4>2 DEF ListTypes
      <4>7. x \in WalkerType /\ x.kind = v.kind
        BY <4>3, <4>5, <4>6 DEF WalkerType
      <4> QED BY <4>2, <4>4, <4>6, <4>7
    <3>3. CASE WalkEnds(w)
      <4>1. walker' = [walker EXCEPT ![w] = NotWalking]
        BY <3>3 DEF WalkEnds
      <4>2. x = NotWalking
        BY <2>2, <4>1 DEF ListTypes
      <4> QED BY <4>1, <4>2, Constants DEF NotWalking, WalkerType
    <3> QED BY <1>4, <3>1, <3>2, <3>3 DEF Walk
  <2>4. walker' \in [Walkers -> WalkerType]
    BY <2>3 DEF ListTypes
  <2>5. \A v \in Walkers : walker'[v] # NotWalking => walker'[v].kind \in Kinds
    BY <2>3 DEF ListTypes
  <2> QED BY <2>1, <2>4, <2>5 DEF ListTypes
<1>5. CASE UNCHANGED vars
  BY <1>5 DEF vars, list, ListTypes
<1> QED BY <1>1, <1>2, <1>3, <1>4, <1>5 DEF Next

(* What the creations that do not take this step keep. *)
LEMMA LockApart ==
  ASSUME EInv, LInv, NEW t \in Threads, NEW u \in Threads, t # u, Creating(t), Creating(u),
         creator[t].kind = creator[u].kind, creator[t].step \in 1..2
  PROVE  creator[u].step \notin 1..2
<1>1. creator[t].item # creator[u].item
  BY DEF EInv, ApartOK
<1>2. creator[t].item = Len(entities[creator[t].kind])
  BY DEF LInv, LockOK
<1>3. creator[u].step \in 1..2 => creator[u].item = Len(entities[creator[u].kind])
  BY DEF LInv, LockOK
<1> QED BY <1>1, <1>2, <1>3

LEMMA ListNumbers ==
  ASSUME EInv, ListTypes, NEW k \in Kinds
  PROVE  /\ head[k] \in Nat /\ Len(entities[k]) \in Nat /\ Len(entities[k]) <= Slots
         /\ Items(k) = 1..Len(entities[k])
         /\ \A i \in Items(k) : entities[k][i] \in EntityType /\ i \in 1..Slots
<1>1. head[k] \in Nat
  BY Constants DEF ListTypes
<1>2. /\ Len(entities[k]) \in Nat /\ Items(k) = 1..Len(entities[k]) /\ Len(entities[k]) <= Slots
      /\ \A i \in Items(k) : entities[k][i] \in EntityType
  BY Items1 DEF EInv, Types
<1> QED BY <1>1, <1>2, Constants

LEMMA TakeKeepsList ==
  ASSUME EInv, ListTypes, LInv, NEW t \in Threads, NEW kind \in Creates[t], NEW name \in Names,
         TakeItem(t, kind, name)
  PROVE  (\A u \in Threads : LockOK(u)') /\ (\A k \in Kinds : ListOK(k)')
<1>1. /\ kind \in Kinds /\ StepFacts(t) /\ Creating(t)' /\ creator'[t].kind = kind
      /\ creator'[t].step = 1 /\ creator'[t].item = Len(entities[kind]) + 1
      /\ entities'[kind] = Append(entities[kind], Blank(name))
      /\ \A k \in Kinds : k # kind => entities'[k] = entities[k]
  BY TakeItemStep
<1>2. head' = head /\ next' = next /\ ~Creating(t) /\ ~Locked(kind)
  BY DEF TakeItem, list, Creating
<1>3. \A u \in Threads : u # t => creator'[u] = creator[u]
  BY <1>1 DEF StepFacts, OthersKept
<1>4. PICK e \in EntityType : e = Blank(name)
  <2>1. Blank(name) \in EntityType
    BY Constants DEF Blank, EntityType
  <2> QED BY <2>1
<1>5. /\ head[kind] = Len(entities[kind]) /\ Len(entities[kind]) \in Nat
      /\ Items(kind) = 1..Len(entities[kind]) /\ entities[kind] \in Seq(EntityType)
  BY <1>1, <1>2, ListNumbers DEF LInv, ListOK, EInv, Types
<1>6. PICK n : n = Len(entities[kind])
  OBVIOUS
<1>7. /\ Len(entities'[kind]) = n + 1 /\ entities'[kind] \in Seq(EntityType)
      /\ entities'[kind][n + 1] = e
  BY <1>1, <1>4, <1>5, <1>6, AppendProperties
<1>8. Items(kind)' = 1..(n + 1)
  BY <1>7, LenProperties DEF Items
<1>9. ASSUME NEW u \in Threads PROVE LockOK(u)'
  <2>1. CASE u = t
    BY <1>1, <1>2, <1>5, <1>6, <1>7, <2>1, SMTT(30) DEF LockOK
  <2>2. CASE u # t
    <3>1. creator'[u] = creator[u] /\ (Creating(u)' => Creating(u))
      BY <1>3, <2>2 DEF Creating
    <3>2. Creating(u) => creator[u].kind \in Kinds
      BY DEF EInv, CreatorOK, OwnOK
    <3>3. creator[u].kind = kind => creator[u].step \notin 1..2
      BY <1>2 DEF Locked
    <3> QED BY <1>1, <1>2, <3>1, <3>2, <3>3 DEF LockOK, LInv
  <2> QED BY <2>1, <2>2
<1>10. ListOK(kind)'
  <2>1. Locked(kind)'
    BY <1>1 DEF Locked
  <2>2. \A i \in 1..head[kind] : next[kind][i] = i - 1
    BY <1>1 DEF LInv, ListOK
  <2>3. \A i \in Items(kind)' : i > head[kind] => entities'[kind][i].reader = 0
    <3>1. \A i \in 1..(n + 1) : i > n => i = n + 1
      BY <1>5, <1>6
    <3>2. e.reader = 0
      BY <1>4 DEF Blank
    <3> QED BY <1>5, <1>6, <1>7, <1>8, <3>1, <3>2
  <2>4. head[kind] <= Len(entities'[kind])
    BY <1>5, <1>6, <1>7
  <2> QED BY <1>2, <2>1, <2>2, <2>3, <2>4 DEF ListOK
<1>11. ASSUME NEW k \in Kinds, k # kind PROVE ListOK(k)'
  <2>1. Locked(k)' \/ ~Locked(k)
    BY <1>1, <1>2, <1>3, <1>11 DEF Locked, Creating, NotCreating
  <2>2. entities'[k] = entities[k]
    BY <1>1, <1>11
  <2> QED BY <1>2, <2>1, <2>2 DEF ListOK, LInv, Items
<1> QED BY <1>9, <1>10, <1>11

LEMMA LinkKeepsList ==
  ASSUME InOrder, EInv, ListTypes, LInv, NEW t \in Threads, LinkItem(t)
  PROVE  (\A u \in Threads : LockOK(u)') /\ (\A k \in Kinds : ListOK(k)')
<1>1. PICK c, n : c = creator[t].kind /\ n = creator[t].item
  OBVIOUS
<1>2. /\ Creating(t) /\ StepOf(t) = "link" /\ Advance(t)
      /\ entities' = entities /\ head' = head
      /\ next' = [next EXCEPT ![c] = [next[c] EXCEPT ![n] = head[c]]]
  BY <1>1 DEF LinkItem, At, Creating, StepOf
<1>3. /\ c \in Kinds /\ n \in Items(c) /\ creator[t].step \in 1..Len(Steps[c])
      /\ StepOf(t) = Steps[c][creator[t].step]
  BY <1>1, <1>2 DEF EInv, CreatorOK, OwnOK, StepOf
<1>4. creator[t].step = 1
  <2>1. /\ Steps[c][2] = "publish" /\ creator[t].step \in 1..2
    BY <1>2, <1>3, StepOrder DEF StepsFollow
  <2> QED BY <1>2, <1>3, <2>1
<1>5. /\ Creating(t)' /\ creator'[t].kind = c /\ creator'[t].item = n /\ creator'[t].step = 2
      /\ \A u \in Threads : u # t => creator'[u] = creator[u]
  BY <1>1, <1>2, <1>4, AdvanceFacts DEF EInv
<1>6. n = Len(entities[c]) /\ head[c] = n - 1
  BY <1>1, <1>2, <1>4 DEF LInv, LockOK
<1>7. /\ \A k \in Kinds : k # c => next'[k] = next[k]
      /\ \A i \in 1..Slots : next'[c][i] = IF i = n THEN head[c] ELSE next[c][i]
  BY <1>2, <1>3 DEF ListTypes
<1>8. n \in 1..Slots /\ head[c] \in Nat /\ n \in Nat
  BY <1>3, ListNumbers
<1>9. ASSUME NEW u \in Threads PROVE LockOK(u)'
  <2>1. CASE u = t
    BY <1>2, <1>5, <1>6, <1>7, <1>8, <2>1 DEF LockOK
  <2>2. CASE u # t
    <3>1. creator'[u] = creator[u] /\ (Creating(u)' => Creating(u))
      BY <1>5, <2>2 DEF Creating
    <3>2. Creating(u) => creator[u].kind \in Kinds
      BY DEF EInv, CreatorOK, OwnOK
    <3>3. Creating(u) /\ creator[u].kind = c => creator[u].step \notin 1..2
      BY <1>1, <1>2, <1>4, <2>2, LockApart
    <3> QED BY <1>2, <1>7, <3>1, <3>2, <3>3 DEF LockOK, LInv
  <2> QED BY <2>1, <2>2
<1>10. ASSUME NEW k \in Kinds PROVE ListOK(k)'
  <2>1. Locked(k)' \/ ~Locked(k)
    <3>1. CASE k = c
      BY <1>5, <3>1 DEF Locked
    <3>2. CASE k # c
      BY <1>1, <1>5, <3>2 DEF Locked
    <3> QED BY <3>1, <3>2
  <2>2. \A i \in 1..head[k] : next'[k][i] = next[k][i]
    <3>1. CASE k # c
      BY <1>7, <3>1
    <3>2. CASE k = c
      <4>1. \A i \in 1..head[c] : i # n /\ i \in 1..Slots
        BY <1>6, <1>8, Constants
      <4> QED BY <1>7, <3>2, <4>1
    <3> QED BY <3>1, <3>2
  <2> QED BY <1>2, <2>1, <2>2 DEF ListOK, LInv, Items
<1> QED BY <1>9, <1>10

LEMMA PublishKeepsList ==
  ASSUME InOrder, EInv, ListTypes, LInv, NEW t \in Threads, PublishItem(t)
  PROVE  /\ (\A u \in Threads : LockOK(u)') /\ (\A k \in Kinds : ListOK(k)')
         /\ \A k \in Kinds : head[k] <= head'[k]
<1>1. PICK c, n : c = creator[t].kind /\ n = creator[t].item
  OBVIOUS
<1>2. /\ Creating(t) /\ StepOf(t) = "publish" /\ Advance(t)
      /\ entities' = entities /\ next' = next
      /\ head' = [head EXCEPT ![c] = n]
  BY <1>1 DEF PublishItem, At, Creating, StepOf
<1>3. /\ c \in Kinds /\ n \in Items(c) /\ creator[t].step \in 1..Len(Steps[c])
      /\ StepOf(t) = Steps[c][creator[t].step]
  BY <1>1, <1>2 DEF EInv, CreatorOK, OwnOK, StepOf
<1>4. creator[t].step = 2
  <2>1. /\ Steps[c][1] = "link" /\ creator[t].step \in 1..2
    BY <1>2, <1>3, StepOrder DEF StepsFollow
  <2> QED BY <1>2, <1>3, <2>1
<1>5. /\ Creating(t)' /\ creator'[t].kind = c /\ creator'[t].item = n /\ creator'[t].step = 3
      /\ \A u \in Threads : u # t => creator'[u] = creator[u]
  BY <1>1, <1>2, <1>4, AdvanceFacts DEF EInv
<1>6. n = Len(entities[c]) /\ head[c] = n - 1 /\ next[c][n] = head[c]
  BY <1>1, <1>2, <1>4 DEF LInv, LockOK
<1>7. head'[c] = n /\ \A k \in Kinds : k # c => head'[k] = head[k]
  BY <1>2, <1>3 DEF ListTypes
<1>8. n \in 1..Slots /\ head[c] \in Nat /\ n \in Nat
  BY <1>3, ListNumbers
<1>9. \A k \in Kinds : head[k] <= head'[k]
  <2>1. \A k \in Kinds : head[k] \in Nat
    BY ListNumbers
  <2> QED BY <1>6, <1>7, <1>8, <2>1
<1>10. ASSUME NEW u \in Threads PROVE LockOK(u)'
  <2>1. CASE u = t
    BY <1>5, <1>7, <1>8, <2>1 DEF LockOK
  <2>2. CASE u # t
    <3>1. creator'[u] = creator[u] /\ (Creating(u)' => Creating(u))
      BY <1>5, <2>2 DEF Creating
    <3>2. Creating(u) => creator[u].kind \in Kinds
      BY DEF EInv, CreatorOK, OwnOK
    <3>3. Creating(u) /\ creator[u].kind = c => creator[u].step \notin 1..2 /\ creator[u].item <= head[c]
      BY <1>1, <1>2, <1>4, <2>2, LockApart DEF LInv, LockOK
    <3>4. Creating(u) /\ creator[u].kind = c => creator[u].item \in Nat
      BY <1>3, ListNumbers DEF EInv, CreatorOK, OwnOK
    <3>5. CASE creator[u].kind = c
      BY <1>6, <1>7, <1>8, <3>1, <3>3, <3>4, <3>5 DEF LockOK
    <3>6. CASE creator[u].kind # c
      BY <1>2, <1>7, <3>1, <3>2, <3>6 DEF LockOK, LInv
    <3> QED BY <3>5, <3>6
  <2> QED BY <2>1, <2>2
<1>11. ListOK(c)'
  <2>1. \A i \in 1..head[c] : next[c][i] = i - 1
    BY <1>3 DEF LInv, ListOK
  <2>2. \A i \in 1..n : next[c][i] = i - 1
    <3>1. \A i \in 1..n : i \in 1..head[c] \/ i = n
      BY <1>6, <1>8
    <3> QED BY <1>6, <2>1, <3>1
  <2>3. \A i \in Items(c) : ~(i > n)
    BY <1>3, <1>6, ListNumbers
  <2> QED BY <1>2, <1>6, <1>7, <1>8, <2>2, <2>3 DEF ListOK, Items
<1>12. ASSUME NEW k \in Kinds, k # c PROVE ListOK(k)'
  <2>1. Locked(k)' \/ ~Locked(k)
    BY <1>1, <1>5, <1>12 DEF Locked
  <2>2. head'[k] = head[k]
    BY <1>7, <1>12
  <2> QED BY <1>2, <2>1, <2>2 DEF ListOK, LInv, Items
<1> QED BY <1>9, <1>10, <1>11, <1>12

(* A step after get_memory leaves the list, and gives a reader only to an  *)
(* item that is on it.                                                     *)
LEMMA LaterKeepsList ==
  ASSUME EInv, ListTypes, LInv, NEW t \in Threads, Create(t),
         Creating(t), creator[t].step \notin 1..2, head' = head, next' = next,
         \A k \in Kinds : Items(k)' = Items(k) /\ Len(entities'[k]) = Len(entities[k]),
         \A k \in Kinds : \A i \in Items(k) :
            (k = creator[t].kind /\ i = creator[t].item) \/ entities'[k][i] = entities[k][i],
         Creating(t)' =>
            /\ creator'[t].kind = creator[t].kind /\ creator'[t].item = creator[t].item
            /\ creator'[t].step = creator[t].step + 1
  PROVE  (\A u \in Threads : LockOK(u)') /\ (\A k \in Kinds : ListOK(k)')
<1>1. /\ creator[t].kind \in Kinds /\ creator[t].item \in Items(creator[t].kind)
      /\ creator[t].step \in Nat /\ creator[t].item <= head[creator[t].kind]
  BY DEF EInv, Types, CreatorType, CreatorOK, OwnOK, LInv, LockOK
<1>2. \A u \in Threads : u # t => creator'[u] = creator[u]
  BY CreateStep DEF StepFacts, OthersKept
<1>3. ASSUME NEW u \in Threads PROVE LockOK(u)'
  <2>1. CASE u = t
    <3>1. creator[t].step + 1 \notin 1..2
      <4>1. creator[t].step >= 1
        BY <1>1 DEF EInv, CreatorOK, OwnOK
      <4> QED BY <1>1, <4>1
    <3> QED BY <1>1, <2>1, <3>1 DEF LockOK
  <2>2. CASE u # t
    <3>1. creator'[u] = creator[u] /\ (Creating(u)' => Creating(u))
      BY <1>2, <2>2 DEF Creating
    <3>2. Creating(u) => creator[u].kind \in Kinds
      BY DEF EInv, CreatorOK, OwnOK
    <3> QED BY <3>1, <3>2 DEF LockOK, LInv
  <2> QED BY <2>1, <2>2
<1>4. ASSUME NEW k \in Kinds PROVE ListOK(k)'
  <2>1. Locked(k)' \/ ~Locked(k)
    BY <1>2 DEF Locked
  <2>2. \A i \in Items(k) : i > head[k] => entities'[k][i] = entities[k][i]
    <3>1. ASSUME NEW i \in Items(k), i > head[k], k = creator[t].kind
          PROVE  i # creator[t].item
      <4>1. i \in Nat /\ head[k] \in Nat /\ creator[t].item \in Nat
        BY <1>1, <3>1, ListNumbers
      <4> QED BY <1>1, <3>1, <4>1
    <3> QED BY <3>1
  <2> QED BY <2>1, <2>2 DEF ListOK, LInv
<1> QED BY <1>3, <1>4

LEMMA CreateKeepsList ==
  ASSUME InOrder, EInv, ListTypes, LInv, NEW t \in Threads, Create(t)
  PROVE  /\ (\A u \in Threads : LockOK(u)') /\ (\A k \in Kinds : ListOK(k)')
         /\ walker' = walker /\ Grow /\ \A k \in Kinds : head[k] <= head'[k]
<1>1. \A k \in Kinds : head[k] \in Nat
  BY ListNumbers
<1>2. walker' = walker /\ Grow
  BY CreateStep
     DEF Create, TakeItem, LinkItem, PublishItem, FindTypes, MakeNames, CreateWriter,
         CreateReader, NoEndpoint, RegisterCallback, GiveHandle, StepFacts
<1>3. CASE \E kind \in Creates[t], name \in Names : TakeItem(t, kind, name)
  <2>1. PICK kind \in Creates[t], name \in Names : TakeItem(t, kind, name)
    BY <1>3
  <2>2. head' = head
    BY <2>1 DEF TakeItem, list
  <2> QED BY <1>1, <1>2, <2>1, <2>2, TakeKeepsList
<1>4. CASE LinkItem(t)
  <2>1. head' = head
    BY <1>4 DEF LinkItem
  <2>2. (\A u \in Threads : LockOK(u)') /\ (\A k \in Kinds : ListOK(k)')
    BY <1>4, LinkKeepsList
  <2> QED BY <1>1, <1>2, <2>1, <2>2
<1>5. CASE PublishItem(t)
  BY <1>2, <1>5, PublishKeepsList
<1>6. CASE \/ FindTypes(t) \/ MakeNames(t) \/ CreateWriter(t) \/ CreateReader(t)
           \/ NoEndpoint(t) \/ RegisterCallback(t) \/ GiveHandle(t)
  <2>1. head' = head /\ next' = next
    BY <1>6 DEF FindTypes, MakeNames, CreateWriter, CreateReader, NoEndpoint,
                RegisterCallback, GiveHandle, list
  <2>2. /\ Creating(t) /\ StepOf(t) \notin {"link", "publish"}
        /\ StepOf(t) = Steps[creator[t].kind][creator[t].step]
    BY <1>6 DEF FindTypes, MakeNames, CreateWriter, CreateReader, NoEndpoint,
                RegisterCallback, GiveHandle, At, Creating, StepOf
  <2>3. creator[t].kind \in Kinds /\ creator[t].item \in Items(creator[t].kind)
    BY <2>2 DEF EInv, CreatorOK, OwnOK
  <2>4. creator[t].step \notin 1..2
    <3>1. Steps[creator[t].kind][1] \in {"link", "publish"} /\ Steps[creator[t].kind][2] \in {"link", "publish"}
      BY <2>3, StepOrder DEF StepsFollow
    <3>2. \A s \in 1..2 : s = 1 \/ s = 2
      OBVIOUS
    <3> QED BY <2>2, <3>1, <3>2
  <2>5. \/ ~Creating(t)'
        \/ /\ creator'[t].kind = creator[t].kind /\ creator'[t].item = creator[t].item
           /\ creator'[t].step = creator[t].step + 1
    <3>1. Advance(t) \/ Leave(t)
      BY <1>6 DEF FindTypes, MakeNames, CreateWriter, CreateReader, NoEndpoint,
                  RegisterCallback, GiveHandle
    <3>2. CASE Leave(t)
      BY <3>2, LeaveFacts DEF EInv
    <3>3. CASE Advance(t) /\ StepOf(t) # "handle"
      BY <2>2, <3>3, AdvanceFacts DEF EInv
    <3>4. CASE StepOf(t) = "handle"
      <4>1. GiveHandle(t)
        BY <1>6, <3>4 DEF FindTypes, MakeNames, CreateWriter, CreateReader, NoEndpoint,
                          RegisterCallback, At, StepOf
      <4> QED BY <4>1, GiveHandleStep
    <3> QED BY <3>1, <3>2, <3>3, <3>4
  <2>6. \/ entities' = entities
        \/ \E e \in EntityType : SetField(t, e)
    <3>1. CASE entities' = entities
      BY <3>1
    <3>2. CASE CreateWriter(t) \/ CreateReader(t) \/ GiveHandle(t)
      BY <3>2, FieldChanges
    <3> QED BY <1>6, <3>1, <3>2 DEF FindTypes, MakeNames, NoEndpoint, RegisterCallback
  <2>7. /\ \A k \in Kinds : Items(k)' = Items(k) /\ Len(entities'[k]) = Len(entities[k])
        /\ \A k \in Kinds : \A i \in Items(k) :
              (k = creator[t].kind /\ i = creator[t].item) \/ entities'[k][i] = entities[k][i]
    <3>1. CASE entities' = entities
      BY <3>1 DEF Items
    <3>2. ASSUME NEW e \in EntityType, SetField(t, e)
          PROVE  /\ \A k \in Kinds : Items(k)' = Items(k) /\ Len(entities'[k]) = Len(entities[k])
                 /\ \A k \in Kinds : \A i \in Items(k) :
                      (k = creator[t].kind /\ i = creator[t].item) \/ entities'[k][i] = entities[k][i]
      <4>1. /\ entities' \in [Kinds -> Seq(EntityType)]
            /\ \A k \in Kinds : Len(entities'[k]) = Len(entities[k])
            /\ \A k \in Kinds : \A i \in Items(k) :
                  entities'[k][i] = IF k = creator[t].kind /\ i = creator[t].item
                                    THEN e ELSE entities[k][i]
        BY <2>2, <3>2, SetFieldFacts DEF EInv
      <4>2. \A k \in Kinds : Items(k)' = 1..Len(entities'[k])
        <5>1. \A k \in Kinds : entities'[k] \in Seq(EntityType)
          BY <4>1
        <5> QED BY <5>1, LenProperties DEF Items
      <4>3. \A k \in Kinds : Items(k) = 1..Len(entities[k])
        BY ListNumbers
      <4> QED BY <4>1, <4>2, <4>3
    <3> QED BY <2>6, <3>1, <3>2
  <2>8. (\A u \in Threads : LockOK(u)') /\ (\A k \in Kinds : ListOK(k)')
    BY <2>1, <2>2, <2>4, <2>5, <2>7, LaterKeepsList
  <2> QED BY <1>1, <1>2, <2>1, <2>8
<1> QED BY <1>3, <1>4, <1>5, <1>6 DEF Create

(* A walk goes on along the list, and what is added at the head is not     *)
(* ahead of it.                                                            *)
LEMMA CreateKeepsWalks ==
  ASSUME InOrder, EInv, ListTypes, LInv, NEW t \in Threads, Create(t)
  PROVE  WalkerOK'
<1>1. walker' = walker /\ Grow /\ \A k \in Kinds : head[k] <= head'[k]
  BY CreateKeepsList
<1> SUFFICES ASSUME NEW w \in Walkers, walker[w] # NotWalking
             PROVE  /\ walker[w].reader # 0
                    /\ walker[w].at \in 1..head'[walker[w].kind]
                    /\ \E i \in 1..walker[w].at :
                          entities'[walker[w].kind][i].reader = walker[w].reader
  BY <1>1 DEF WalkerOK
<1>2. PICK k, n, r : k = walker[w].kind /\ n = walker[w].at /\ r = walker[w].reader
  OBVIOUS
<1>3. k \in Kinds /\ r # 0 /\ n \in 1..head[k] /\ \E i \in 1..n : entities[k][i].reader = r
  BY <1>2 DEF ListTypes, LInv, WalkerOK
<1>4. PICK i \in 1..n : entities[k][i].reader = r
  BY <1>3
<1>5. /\ head[k] \in Nat /\ head'[k] \in Nat /\ head[k] <= Len(entities[k])
      /\ Items(k) = 1..Len(entities[k]) /\ Len(entities[k]) \in Nat
  <2>1. ListTypes'
    BY TypesStep DEF Next
  <2>2. head'[k] \in Nat
    BY <1>3, <2>1, Constants DEF ListTypes
  <2> QED BY <1>3, <2>2, ListNumbers DEF LInv, ListOK
<1>6. i \in Items(k) /\ n \in 1..head'[k]
  <2>1. head[k] <= head'[k]
    BY <1>1, <1>3
  <2> QED BY <1>3, <1>5, <2>1
<1>7. entities'[k][i].reader = r
  BY <1>1, <1>3, <1>4, <1>6 DEF Grow
<1> QED BY <1>2, <1>3, <1>6, <1>7

LEMMA WalkKeepsWalks ==
  ASSUME EInv, ListTypes, LInv, NEW w \in Walkers, Walk(w)
  PROVE  WalkerOK'
<1>1. entities' = entities /\ head' = head
  BY DEF Walk, StartWalk, WalkOn, WalkEnds, list
<1>2. PICK x : x = walker'[w]
  OBVIOUS
<1>3. /\ walker' = [walker EXCEPT ![w] = x]
      /\ x # NotWalking =>
            /\ x.reader # 0 /\ x.at \in 1..head[x.kind]
            /\ \E i \in 1..x.at : entities[x.kind][i].reader = x.reader
  <2>1. CASE \E r \in DOMAIN readers : StartWalk(w, r)
    <3>1. PICK r \in DOMAIN readers : StartWalk(w, r)
      BY <2>1
    <3>2. PICK k : k = readers[r].callback
      OBVIOUS
    <3>3. /\ walker' = [walker EXCEPT ![w] = [kind |-> k, reader |-> r, at |-> head[k]]]
          /\ k # "none"
      BY <3>1, <3>2 DEF StartWalk
    <3>4. k \in Kinds /\ r # 0
      <4>1. readers \in Seq(ReaderType)
        BY DEF EInv, Types
      <4>2. DOMAIN readers = 1..Len(readers) /\ Len(readers) \in Nat /\ readers[r] \in ReaderType
        BY <4>1, LenProperties, ElementOfSeq
      <4> QED BY <3>2, <3>3, <4>2 DEF ReaderType
    <3>5. PICK i \in Items(k) : entities[k][i].reader = r
      BY <3>1, <3>2, <3>3 DEF EInv, RegisteredOK, Owned
    <3>6. ~(i > head[k]) /\ head[k] \in Nat /\ Items(k) = 1..Len(entities[k]) /\ Len(entities[k]) \in Nat
      BY <3>4, <3>5, ListNumbers DEF LInv, ListOK
    <3>7. i \in 1..head[k] /\ head[k] \in 1..head[k]
      BY <3>5, <3>6
    <3>8. x = [kind |-> k, reader |-> r, at |-> head[k]]
      BY <1>2, <3>3 DEF ListTypes
    <3> QED BY <3>3, <3>4, <3>5, <3>7, <3>8
  <2>2. CASE WalkOn(w)
    <3>1. PICK v : v = walker[w]
      OBVIOUS
    <3>2. PICK k, n, r : k = v.kind /\ n = v.at /\ r = v.reader
      OBVIOUS
    <3>3. n # 0 /\ ~Found(w) /\ walker' = [walker EXCEPT ![w] = [v EXCEPT !.at = next[k][n]]]
      BY <2>2, <3>1, <3>2 DEF WalkOn
    <3>4. v # NotWalking /\ v \in WalkerType
      BY <3>1, <3>2, <3>3 DEF NotWalking, ListTypes
    <3>5. k \in Kinds /\ r # 0 /\ n \in 1..head[k] /\ \E i \in 1..n : entities[k][i].reader = r
      BY <3>1, <3>2, <3>4 DEF ListTypes, LInv, WalkerOK
    <3>6. next[k][n] = n - 1
      BY <3>5 DEF LInv, ListOK
    <3>7. /\ head[k] \in Nat /\ head[k] <= Len(entities[k]) /\ n \in Items(k)
      <4>1. /\ head[k] \in Nat /\ head[k] <= Len(entities[k])
            /\ Items(k) = 1..Len(entities[k]) /\ Len(entities[k]) \in Nat
        BY <3>5, ListNumbers DEF LInv, ListOK
      <4> QED BY <3>5, <4>1
    <3>8. entities[k][n].reader # r
      BY <3>1, <3>2, <3>3, <3>7 DEF Found, Items
    <3>9. PICK i \in 1..n : entities[k][i].reader = r
      BY <3>5
    <3>10. i \in 1..(n - 1) /\ n - 1 \in 1..head[k]
      BY <3>5, <3>7, <3>8, <3>9
    <3>11. x = [v EXCEPT !.at = n - 1]
      BY <1>2, <3>3, <3>6 DEF ListTypes
    <3>12. x.kind = k /\ x.reader = r /\ x.at = n - 1
      BY <3>2, <3>4, <3>11 DEF WalkerType
    <3> QED BY <3>3, <3>5, <3>6, <3>9, <3>10, <3>11, <3>12
  <2>3. CASE WalkEnds(w)
    <3>1. walker' = [walker EXCEPT ![w] = NotWalking]
      BY <2>3 DEF WalkEnds
    <3>2. x = NotWalking
      BY <1>2, <3>1 DEF ListTypes
    <3> QED BY <3>1, <3>2
  <2> QED BY <2>1, <2>2, <2>3 DEF Walk
<1> SUFFICES ASSUME NEW v \in Walkers, walker'[v] # NotWalking
             PROVE  /\ walker'[v].reader # 0
                    /\ walker'[v].at \in 1..head[walker'[v].kind]
                    /\ \E i \in 1..walker'[v].at :
                          entities[walker'[v].kind][i].reader = walker'[v].reader
  BY <1>1 DEF WalkerOK
<1>4. CASE v = w
  BY <1>2, <1>3, <1>4
<1>5. CASE v # w
  <2>1. walker'[v] = walker[v]
    BY <1>3, <1>5 DEF ListTypes
  <2> QED BY <2>1 DEF LInv, WalkerOK
<1> QED BY <1>4, <1>5

LEMMA ListNext == InOrder /\ EInv /\ ListTypes /\ LInv /\ [Next]_vars => LInv'
<1> SUFFICES ASSUME InOrder, EInv, ListTypes, LInv, [Next]_vars PROVE LInv'
  OBVIOUS
<1>1. ASSUME NEW t \in Threads, Create(t) PROVE LInv'
  BY <1>1, CreateKeepsList, CreateKeepsWalks DEF LInv
<1>2. ASSUME NEW w \in Walkers, Walk(w) PROVE LInv'
  <2>1. /\ entities' = entities /\ head' = head /\ next' = next /\ creator' = creator
    BY <1>2 DEF Walk, StartWalk, WalkOn, WalkEnds, list
  <2>2. (\A u \in Threads : LockOK(u)') /\ (\A k \in Kinds : ListOK(k)')
    BY <2>1 DEF LInv, LockOK, ListOK, Creating, Locked, Items
  <2> QED BY <1>2, <2>2, WalkKeepsWalks DEF LInv
<1>3. CASE UNCHANGED vars
  BY <1>3 DEF vars, list, LInv, LockOK, ListOK, WalkerOK, Creating, Locked, Items
<1> QED BY <1>1, <1>2, <1>3 DEF Next

LEMMA ListTypesHold == Spec => []ListTypes
<1> QED BY ListInit, TypesStep, EInvHolds, PTL DEF Spec

(* Creations keep the types of the model's state, and no list of entities, *)
(* writers or readers grows beyond its array.                              *)
THEOREM TypeCorrect == Spec => []TypeOK
<1>1. EInv /\ ListTypes => TypeOK
  BY TypesGiveTypeOK DEF EInv
<1> QED BY <1>1, EInvHolds, ListTypesHold, PTL

(* inner_callback, which walks a list without the pool's mutex while       *)
(* get_memory links an item and makes it the head, always finds the entity *)
(* that owns the reader, if the two writes come in their order.            *)
THEOREM WalksFindTheirEntity == ASSUME InOrder PROVE Spec => []WalkFinds
<1>1. Init => LInv
  BY ListInit
<1>2. EInv /\ ListTypes /\ LInv /\ [Next]_vars => LInv'
  BY ListNext
<1>3. EInv /\ ListTypes /\ LInv => WalkFinds
  <2>1. ASSUME EInv, ListTypes, LInv, NEW w \in Walkers, walker[w] # NotWalking
        PROVE  walker[w].at # 0
    BY <2>1 DEF LInv, WalkerOK
  <2> QED BY <2>1 DEF WalkFinds
<1> QED BY <1>1, <1>2, <1>3, EInvHolds, ListTypesHold, PTL DEF Spec

(* A reader with a callback belongs to an entity that the application has, *)
(* or whose creation still runs and can no longer fail.                    *)
THEOREM ReadersHaveOwners == Spec => []NoOrphanReader
<1>1. EInv => NoOrphanReader
  <2> SUFFICES ASSUME EInv, NEW r \in DOMAIN readers, readers[r].callback # "none"
               PROVE  \E kind \in Kinds : \E i \in Items(kind) :
                         /\ entities[kind][i].reader = r
                         /\ \/ entities[kind][i].handle
                            \/ \E t \in Threads : creator[t].kind = kind /\ creator[t].item = i
    BY DEF NoOrphanReader
  <2>1. readers[r].callback \in Kinds
    <3>1. readers \in Seq(ReaderType)
      BY DEF EInv, Types
    <3>2. readers[r] \in ReaderType
      BY <3>1, LenProperties, ElementOfSeq
    <3> QED BY <3>2 DEF ReaderType
  <2> QED BY <2>1 DEF EInv, RegisteredOK, Owned
<1> QED BY <1>1, EInvHolds, PTL

-----------------------------------------------------------------------------
(* Names: nothing that is written about an endpoint is written again. *)
EndpointsStay ==
    /\ \A n \in DOMAIN writers : n \in DOMAIN writers' /\ writers'[n] = writers[n]
    /\ \A n \in DOMAIN readers : n \in DOMAIN readers' /\ readers'[n].names = readers[n].names

LEMMA EndpointsStayStep ==
  ASSUME EInv, NEW t \in Threads, Create(t)
  PROVE  EndpointsStay
<1>1. /\ writers \in Seq(ShortNames) /\ readers \in Seq(ReaderType)
      /\ DOMAIN writers = 1..Len(writers) /\ Len(writers) \in Nat
      /\ DOMAIN readers = 1..Len(readers) /\ Len(readers) \in Nat
  <2>1. writers \in Seq(ShortNames) /\ readers \in Seq(ReaderType)
    BY DEF EInv, Types
  <2> QED BY <2>1, LenProperties
<1>2. CASE writers' = writers /\ readers' = readers
  BY <1>2 DEF EndpointsStay
<1>3. CASE CreateWriter(t)
  <2>1. /\ writers' = Append(writers, InUse(t, Writes)) /\ readers' = readers
        /\ InUse(t, Writes) \in ShortNames
    BY <1>3, InUseShort, CreateWriterStep DEF CreateWriter
  <2>2. /\ writers' \in Seq(ShortNames) /\ Len(writers') = Len(writers) + 1
        /\ \A n \in 1..Len(writers) : writers'[n] = writers[n]
    BY <1>1, <2>1, AppendProperties
  <2>3. DOMAIN writers' = 1..Len(writers')
    BY <2>2, LenProperties
  <2> QED BY <1>1, <2>1, <2>2, <2>3 DEF EndpointsStay
<1>4. CASE CreateReader(t)
  <2>1. /\ Len(readers') = Len(readers) + 1 /\ StepFacts(t)
        /\ \A n \in DOMAIN readers : readers'[n] = readers[n]
    BY <1>4, CreateReaderStep
  <2>2. writers' = writers
    BY <1>4 DEF CreateReader
  <2> QED BY <2>1, <2>2 DEF EndpointsStay, StepFacts
<1>5. CASE RegisterCallback(t)
  <2>1. /\ \A n \in DOMAIN readers : readers'[n].names = readers[n].names
        /\ StepFacts(t)
    BY <1>5, RegisterFacts, QuietSteps
  <2>2. writers' = writers
    BY <1>5 DEF RegisterCallback
  <2> QED BY <2>1, <2>2 DEF EndpointsStay, StepFacts
<1> QED
  BY <1>2, <1>3, <1>4, <1>5
     DEF Create, TakeItem, LinkItem, PublishItem, FindTypes, MakeNames, NoEndpoint, GiveHandle

LEMMA EndStays ==
  ASSUME EndpointsStay, NEW k \in Kinds, NEW e, NEW f, EndOK(k, e),
         f.name = e.name, f.writer = e.writer, f.reader = e.reader
  PROVE  EndOK(k, f)'
BY DEF EndOK, EndpointsStay

(* What createWriter and createReader read is what was meant. *)
LEMMA InUseIsMine ==
  ASSUME EInv, NamesOK, NEW t \in Threads, Creating(t)
  PROVE  /\ StepOf(t) = "writer" => /\ creator[t].kind \in DOMAIN Writes
                                    /\ InUse(t, Writes) = Described(Writes[creator[t].kind], Mine(t).name)
         /\ StepOf(t) = "reader" => /\ creator[t].kind \in DOMAIN Reads
                                    /\ InUse(t, Reads) = Described(Reads[creator[t].kind], Mine(t).name)
<1>1. /\ creator[t].kind \in Kinds /\ creator[t].step \in 1..Len(Steps[creator[t].kind])
      /\ StepOf(t) = Steps[creator[t].kind][creator[t].step]
      /\ Mine(t).name = creator[t].name
      /\ creator[t].kind \in {"publisher", "subscription"} /\ StepOf(t) \in {"writer", "reader"}
             => scratch[creator[t].kind] = Described(Messages, creator[t].name)
  BY DEF EInv, CreatorOK, OwnOK, StepOf, NamesOK, NameOK
<1>2. /\ StepOf(t) = "writer" => creator[t].kind # "subscription"
      /\ StepOf(t) = "reader" => creator[t].kind # "publisher"
  BY <1>1, StepOrder DEF StepsFollow
<1>3. CASE creator[t].kind \in {"publisher", "subscription"}
  BY <1>1, <1>2, <1>3, SidesOfKinds DEF InUse
<1>4. CASE ~(creator[t].kind \in {"publisher", "subscription"})
  BY <1>1, <1>4, SidesOfKinds DEF InUse, Kinds
<1> QED BY <1>3, <1>4

(* The items after a step: those of before, but for the one of the         *)
(* creation, which may be new.                                             *)
LEMMA ItemsAfter ==
  ASSUME EInv, NEW t \in Threads, Creating(t), NEW e \in EntityType, SetField(t, e),
         NEW k \in Kinds, NEW i \in Items(k)'
  PROVE  /\ i \in Items(k)
         /\ entities'[k][i] = IF k = creator[t].kind /\ i = creator[t].item
                              THEN e ELSE entities[k][i]
<1>1. Types /\ CreatorOK
  BY DEF EInv
<1>2. /\ entities' \in [Kinds -> Seq(EntityType)]
      /\ Len(entities'[k]) = Len(entities[k])
      /\ \A j \in Items(k) :
            entities'[k][j] = IF k = creator[t].kind /\ j = creator[t].item
                              THEN e ELSE entities[k][j]
  BY <1>1, SetFieldFacts
<1>3. Items(k)' = 1..Len(entities'[k])
  <2>1. entities'[k] \in Seq(EntityType)
    BY <1>2
  <2> QED BY <2>1, LenProperties DEF Items
<1>4. Items(k) = 1..Len(entities[k])
  BY <1>1, Items1
<1> QED BY <1>2, <1>3, <1>4

LEMMA EndsStay ==
  ASSUME EInv, NamesOK, EndsOK, NEW t \in Threads, Create(t)
  PROVE  EndsOK'
<1> SUFFICES ASSUME NEW k \in Kinds, NEW i \in Items(k)', NEW f, f = entities'[k][i]
             PROVE  EndOK(k, f)'
  BY DEF EndsOK, EndOK
<1>1. EndpointsStay /\ StepFacts(t)
  BY EndpointsStayStep, CreateStep
<1>2. f = entities'[k][i]
  OBVIOUS
<1>3. ASSUME i \in Items(k), NEW e, e = entities[k][i],
             f.name = e.name, f.writer = e.writer, f.reader = e.reader
      PROVE  EndOK(k, f)'
  <2>1. EndOK(k, e)
    BY <1>3 DEF EndsOK
  <2> QED BY <1>1, <1>3, <2>1, EndStays
<1>4. CASE \E kind \in Creates[t], name \in Names : TakeItem(t, kind, name)
  <2>1. PICK kind \in Creates[t], name \in Names : TakeItem(t, kind, name)
    BY <1>4
  <2>2. i \in Nat
    <3>1. entities'[k] \in Seq(EntityType)
      BY <1>1 DEF StepFacts, Types
    <3> QED BY <3>1, LenProperties DEF Items
  <2>3. \/ i \in Items(k) /\ f = entities[k][i]
        \/ f = Blank(name)
    BY <1>2, <2>1, <2>2, TakeItemStep
  <2>4. CASE f = Blank(name)
    BY <2>4 DEF Blank, EndOK
  <2> QED BY <1>3, <2>3, <2>4
<1>5. CASE entities' = entities
  BY <1>2, <1>3, <1>5 DEF Items
<1>6. CASE CreateWriter(t)
  <2>1. PICK n : n = Len(writers) + 1
    OBVIOUS
  <2>2. /\ Creating(t) /\ StepOf(t) = "writer" /\ creator[t].kind \in Kinds
        /\ creator[t].item \in Items(creator[t].kind)
        /\ SetField(t, [Mine(t) EXCEPT !.writer = n])
        /\ Mine(t) \in EntityType /\ n \in 0..MaxEndpoints
        /\ writers' = Append(writers, InUse(t, Writes))
        /\ writers \in Seq(ShortNames) /\ InUse(t, Writes) \in ShortNames
    <3>1. Creating(t) /\ StepOf(t) = "writer"
      BY <1>6, CreateWriterStep
    <3>2. /\ creator[t].kind \in Kinds /\ creator[t].item \in Items(creator[t].kind)
          /\ Types /\ writers \in Seq(ShortNames)
      BY <3>1 DEF EInv, CreatorOK, OwnOK, Types
    <3>3. Mine(t) \in EntityType
      BY <3>2, Items1 DEF Mine
    <3>4. n \in 0..MaxEndpoints
      <4>1. Len(writers) \in Nat /\ Len(writers) < MaxEndpoints
        BY <1>6, <3>2, LenProperties DEF CreateWriter
      <4> QED BY <2>1, <4>1, Constants
    <3> QED BY <1>6, <2>1, <3>1, <3>2, <3>3, <3>4, InUseShort DEF CreateWriter
  <2>3. PICK e \in EntityType : e = [Mine(t) EXCEPT !.writer = n]
    <3>1. [Mine(t) EXCEPT !.writer = n] \in EntityType
      BY <2>2 DEF EntityType
    <3> QED BY <3>1
  <2>4. e.name = Mine(t).name /\ e.reader = Mine(t).reader /\ e.writer = n
    BY <2>2, <2>3 DEF EntityType
  <2>5. /\ i \in Items(k)
        /\ f = IF k = creator[t].kind /\ i = creator[t].item THEN e ELSE entities[k][i]
    BY <1>2, <2>2, <2>3, ItemsAfter
  <2>6. CASE ~(k = creator[t].kind /\ i = creator[t].item)
    BY <1>3, <2>5, <2>6
  <2>7. CASE k = creator[t].kind /\ i = creator[t].item
    <3>1. k \in DOMAIN Writes /\ InUse(t, Writes) = Described(Writes[k], Mine(t).name)
      BY <2>2, <2>7, InUseIsMine
    <3>2. n \in DOMAIN writers' /\ writers'[n] = InUse(t, Writes)
      <4>1. writers' \in Seq(ShortNames) /\ Len(writers') = n /\ writers'[n] = InUse(t, Writes)
        BY <2>1, <2>2, AppendProperties
      <4>2. DOMAIN writers' = 1..n /\ n \in Nat /\ Len(writers) \in Nat
        BY <2>2, <4>1, LenProperties
      <4> QED BY <2>1, <4>1, <4>2
    <3>3. PICK m : m = Mine(t)
      OBVIOUS
    <3>4. EndOK(k, m)
      BY <2>2, <2>7, <3>3 DEF EndsOK, Mine
    <3>5. /\ m.reader # 0 => /\ k \in DOMAIN Reads /\ m.reader \in DOMAIN readers'
                             /\ readers'[m.reader].names = Described(Reads[k], m.name)
      BY <1>1, <3>4 DEF EndOK, EndpointsStay
    <3> QED BY <2>4, <2>5, <2>7, <3>1, <3>2, <3>3, <3>5 DEF EndOK
  <2> QED BY <2>6, <2>7
<1>7. CASE CreateReader(t)
  <2>1. PICK n : n = Len(readers) + 1
    OBVIOUS
  <2>2. /\ Creating(t) /\ StepOf(t) = "reader" /\ creator[t].kind \in Kinds
        /\ creator[t].item \in Items(creator[t].kind)
        /\ SetField(t, [Mine(t) EXCEPT !.reader = n])
        /\ Mine(t) \in EntityType /\ n \in 0..MaxEndpoints
        /\ n \in DOMAIN readers' /\ readers'[n].names = InUse(t, Reads)
    <3>1. /\ Creating(t) /\ StepOf(t) = "reader" /\ Len(readers') = n
          /\ readers'[n] = [names |-> InUse(t, Reads), callback |-> "none"]
      BY <1>7, <2>1, CreateReaderStep
    <3>2. /\ creator[t].kind \in Kinds /\ creator[t].item \in Items(creator[t].kind)
          /\ Types /\ readers \in Seq(ReaderType) /\ readers' \in Seq(ReaderType)
      BY <1>1, <3>1 DEF EInv, CreatorOK, OwnOK, Types, StepFacts
    <3>3. Mine(t) \in EntityType
      BY <3>2, Items1 DEF Mine
    <3>4. n \in 0..MaxEndpoints /\ n \in DOMAIN readers'
      <4>1. /\ Len(readers) \in Nat /\ Len(readers) < MaxEndpoints
            /\ DOMAIN readers' = 1..n
        BY <1>7, <3>1, <3>2, LenProperties DEF CreateReader
      <4> QED BY <2>1, <4>1, Constants
    <3> QED BY <1>7, <2>1, <3>1, <3>2, <3>3, <3>4 DEF CreateReader
  <2>3. PICK e \in EntityType : e = [Mine(t) EXCEPT !.reader = n]
    <3>1. [Mine(t) EXCEPT !.reader = n] \in EntityType
      BY <2>2 DEF EntityType
    <3> QED BY <3>1
  <2>4. e.name = Mine(t).name /\ e.writer = Mine(t).writer /\ e.reader = n
    BY <2>2, <2>3 DEF EntityType
  <2>5. /\ i \in Items(k)
        /\ f = IF k = creator[t].kind /\ i = creator[t].item THEN e ELSE entities[k][i]
    BY <1>2, <2>2, <2>3, ItemsAfter
  <2>6. CASE ~(k = creator[t].kind /\ i = creator[t].item)
    BY <1>3, <2>5, <2>6
  <2>7. CASE k = creator[t].kind /\ i = creator[t].item
    <3>1. k \in DOMAIN Reads /\ InUse(t, Reads) = Described(Reads[k], Mine(t).name)
      BY <2>2, <2>7, InUseIsMine
    <3>2. PICK m : m = Mine(t)
      OBVIOUS
    <3>3. EndOK(k, m)
      BY <2>2, <2>7, <3>2 DEF EndsOK, Mine
    <3>4. /\ m.writer # 0 => /\ k \in DOMAIN Writes /\ m.writer \in DOMAIN writers'
                             /\ writers'[m.writer] = Described(Writes[k], m.name)
      BY <1>1, <3>3 DEF EndOK, EndpointsStay
    <3> QED BY <2>2, <2>4, <2>5, <2>7, <3>1, <3>2, <3>4 DEF EndOK
  <2> QED BY <2>6, <2>7
<1>8. CASE GiveHandle(t)
  <2>1. /\ Creating(t) /\ creator[t].kind \in Kinds
        /\ creator[t].item \in Items(creator[t].kind)
        /\ SetField(t, [Mine(t) EXCEPT !.handle = TRUE])
    BY <1>8, GiveHandleStep DEF GiveHandle
  <2>2. Mine(t) \in EntityType
    BY <2>1, Items1 DEF Mine, EInv
  <2>3. PICK e \in EntityType : e = [Mine(t) EXCEPT !.handle = TRUE]
    <3>1. [Mine(t) EXCEPT !.handle = TRUE] \in EntityType
      BY <2>2 DEF EntityType
    <3> QED BY <3>1
  <2>4. e.name = Mine(t).name /\ e.writer = Mine(t).writer /\ e.reader = Mine(t).reader
    BY <2>2, <2>3 DEF EntityType
  <2>5. /\ i \in Items(k)
        /\ f = IF k = creator[t].kind /\ i = creator[t].item THEN e ELSE entities[k][i]
    BY <1>2, <2>1, <2>3, ItemsAfter
  <2>6. PICK m : m = entities[k][i]
    OBVIOUS
  <2>7. f.name = m.name /\ f.writer = m.writer /\ f.reader = m.reader
    BY <2>4, <2>5, <2>6 DEF Mine
  <2> QED BY <1>3, <2>5, <2>6, <2>7
<1> QED
  BY <1>4, <1>5, <1>6, <1>7, <1>8
     DEF Create, LinkItem, PublishItem, FindTypes, MakeNames, NoEndpoint, RegisterCallback


(* The same of the static arrays: no other creation of a publisher, or of  *)
(* a subscription, writes them.                                            *)
LEMMA NamesStay ==
  ASSUME OneCreator, EInv, NamesOK, NEW t \in Threads, Create(t)
  PROVE  NamesOK'
<1> SUFFICES ASSUME NEW u \in Threads PROVE NameOK(u)'
  BY DEF NamesOK
<1>1. Types /\ CreatorOK /\ StepFacts(t)
  BY CreateStep DEF EInv
<1>2. CASE u # t
  <2>1. /\ creator'[u] = creator[u] /\ (Creating(u) => Mine(u)' = Mine(u))
        /\ NameOK(u) /\ Creating(u)' = Creating(u) /\ StepOf(u)' = StepOf(u)
    BY <1>1, <1>2 DEF StepFacts, OthersKept, Mine, NamesOK, Creating, StepOf
  <2>2. ASSUME Creating(u), creator[u].kind \in {"publisher", "subscription"}
        PROVE  scratch'[creator[u].kind] = scratch[creator[u].kind]
    <3>1. CASE MakeNames(t)
      <4>1. Creating(t)
        BY <3>1, QuietSteps
      <4>2. creator[t].kind \in Creates[t] /\ creator[u].kind \in Creates[u]
        BY <2>2, <4>1 DEF NamesOK, NameOK
      <4>3. creator[t].kind # creator[u].kind
        BY <1>2, <2>2, <4>2 DEF OneCreator
      <4>4. scratch \in [{"publisher", "subscription"} -> ShortNames]
        BY <1>1 DEF Types
      <4> QED BY <2>2, <3>1, <4>3, <4>4 DEF MakeNames
    <3>2. CASE ~MakeNames(t)
      BY <3>2 DEF Create, TakeItem, LinkItem, PublishItem, FindTypes, CreateWriter,
                  CreateReader, NoEndpoint, RegisterCallback, GiveHandle
    <3> QED BY <3>1, <3>2
  <2> QED BY <2>1, <2>2 DEF NameOK
<1>3. CASE u = t
  <2>1. CASE \E kind \in Creates[t], name \in Names : TakeItem(t, kind, name)
    <3>1. PICK kind \in Creates[t], name \in Names : TakeItem(t, kind, name)
      BY <2>1
    <3>2. /\ creator'[t].kind = kind /\ creator'[t].name = name
          /\ StepOf(t)' \in {"link", "publish"} /\ Mine(t)' = Blank(name)
      BY <3>1, TakeItemStep
    <3> QED BY <1>3, <3>2 DEF NameOK, Blank
  <2>2. CASE ~Creating(t)'
    BY <1>3, <2>2 DEF NameOK
  <2>3. ASSUME Creating(t), StepOf(t) # "handle", Advance(t),
               Mine(t)'.name = Mine(t).name, scratch' = scratch, StepOf(t) # "names"
        PROVE  NameOK(t)'
    <3>1. /\ creator'[t].kind = creator[t].kind /\ creator'[t].name = creator[t].name
          /\ StepOf(t)' = Steps[creator[t].kind][creator[t].step + 1]
      BY <1>1, <2>3, AdvanceFacts
    <3>2. /\ creator[t].kind \in Kinds /\ creator[t].step \in 1..Len(Steps[creator[t].kind])
          /\ creator[t].kind \in Creates[t] /\ Mine(t).name = creator[t].name
      BY <1>1, <2>3 DEF CreatorOK, OwnOK, NamesOK, NameOK
    <3>3. ~(creator[t].kind \in {"publisher", "subscription"} /\ StepOf(t)' \in {"writer", "reader"})
      BY <2>3, <3>1, <3>2, OrderFacts DEF StepOf
    <3> QED BY <2>3, <3>1, <3>2, <3>3 DEF NameOK
  <2>4. CASE MakeNames(t)
    <3>1. /\ Creating(t) /\ StepOf(t) # "handle" /\ Advance(t) /\ entities' = entities
      BY <2>4, QuietSteps DEF MakeNames
    <3>2. /\ creator'[t].kind = creator[t].kind /\ creator'[t].name = creator[t].name
          /\ creator'[t].item = creator[t].item
      BY <1>1, <3>1, AdvanceFacts
    <3>3. creator[t].kind \in Creates[t] /\ Mine(t).name = creator[t].name
      BY <3>1 DEF NamesOK, NameOK
    <3>4. Mine(t)' = Mine(t)
      BY <3>1, <3>2 DEF Mine
    <3>5. creator[t].kind \in {"publisher", "subscription"} =>
             scratch'[creator[t].kind] = Described(Messages, creator[t].name)
      <4>1. scratch \in [{"publisher", "subscription"} -> ShortNames]
        BY <1>1 DEF Types
      <4> QED BY <2>4, <4>1 DEF MakeNames
    <3> QED BY <1>3, <3>2, <3>3, <3>4, <3>5 DEF NameOK
  <2>5. CASE LinkItem(t) \/ PublishItem(t) \/ FindTypes(t) \/ NoEndpoint(t) \/ RegisterCallback(t)
    <3>1. CASE Leave(t)
      BY <1>1, <2>2, <3>1, LeaveFacts
    <3>2. CASE Advance(t)
      <4>1. /\ Creating(t) /\ StepOf(t) # "handle" /\ StepOf(t) # "names"
            /\ entities' = entities /\ scratch' = scratch
        <5>1. Creating(t) /\ StepOf(t) # "handle" /\ entities' = entities /\ scratch' = scratch
          BY <2>5, QuietSteps DEF LinkItem, PublishItem, FindTypes, NoEndpoint, RegisterCallback
        <5>2. StepOf(t) # "names"
          BY <2>5 DEF LinkItem, PublishItem, FindTypes, NoEndpoint, RegisterCallback, At, StepOf
        <5> QED BY <5>1, <5>2
      <4>2. Mine(t)'.name = Mine(t).name
        <5>1. creator'[t].kind = creator[t].kind /\ creator'[t].item = creator[t].item
          BY <1>1, <3>2, <4>1, AdvanceFacts
        <5> QED BY <4>1, <5>1 DEF Mine
      <4> QED BY <1>3, <2>3, <3>2, <4>1, <4>2
    <3> QED BY <2>5, <3>1, <3>2 DEF LinkItem, PublishItem, FindTypes, NoEndpoint, RegisterCallback
  <2>6. CASE CreateWriter(t) \/ CreateReader(t)
    <3>1. /\ Creating(t) /\ StepOf(t) \in {"writer", "reader"} /\ Advance(t) /\ scratch' = scratch
      BY <2>6, CreateWriterStep, CreateReaderStep DEF CreateWriter, CreateReader
    <3>2. Mine(t)'.name = Mine(t).name
      <4>1. creator'[t].kind = creator[t].kind /\ creator'[t].item = creator[t].item
        BY <1>1, <3>1, AdvanceFacts
      <4>2. \/ entities'[creator[t].kind][creator[t].item]
                 = [Mine(t) EXCEPT !.writer = Len(writers) + 1]
            \/ entities'[creator[t].kind][creator[t].item]
                 = [Mine(t) EXCEPT !.reader = Len(readers) + 1]
        BY <2>6, CreateWriterStep, CreateReaderStep
      <4>3. Mine(t) \in EntityType
        <5>1. creator[t].kind \in Kinds /\ creator[t].item \in Items(creator[t].kind)
          BY <1>1, <3>1 DEF CreatorOK, OwnOK
        <5> QED BY <1>1, <5>1, Items1 DEF Mine
      <4>4. \A n : /\ [Mine(t) EXCEPT !.writer = n].name = Mine(t).name
                   /\ [Mine(t) EXCEPT !.reader = n].name = Mine(t).name
        BY <4>3 DEF EntityType
      <4> QED BY <4>1, <4>2, <4>4 DEF Mine
    <3> QED BY <1>3, <2>3, <3>1, <3>2
  <2>7. CASE GiveHandle(t)
    BY <2>2, <2>7, GiveHandleStep
  <2> QED BY <2>1, <2>4, <2>5, <2>6, <2>7 DEF Create
<1> QED BY <1>2, <1>3

-----------------------------------------------------------------------------
(* A full topic starts with the prefix of its side, and then has the name. *)
LEMMA TopicAt ==
  ASSUME NEW side \in Sides, NEW topic \in Seq(TopicChars), NEW full,
         full = <<side.prefix>> \o topic \o side.suffix
  PROVE  /\ Len(topic) \in Nat /\ Len(side.suffix) \in Nat
         /\ Len(full) = 1 + Len(topic) + Len(side.suffix)
         /\ full[1] = side.prefix
         /\ \A i \in 1..Len(topic) : full[i + 1] = topic[i]
<1>1. PICK p, s, x : p = <<side.prefix>> /\ s = side.suffix /\ x = p \o topic
  OBVIOUS
<1>2. p \in Seq(TopicChars) /\ s \in Seq(TopicChars) /\ p[1] = side.prefix
  BY <1>1, SideFacts
<1>3. Len(p) = 1 /\ Len(topic) \in Nat /\ Len(s) \in Nat
  BY <1>1, <1>2, LenProperties
<1>4. /\ x \in Seq(TopicChars) /\ Len(x) = 1 + Len(topic)
      /\ \A i \in 1..(1 + Len(topic)) : x[i] = IF i <= 1 THEN p[i] ELSE topic[i - 1]
  BY <1>1, <1>2, <1>3, ConcatProperties
<1>5. /\ Len(full) = (1 + Len(topic)) + Len(s)
      /\ \A i \in 1..((1 + Len(topic)) + Len(s)) :
            full[i] = IF i <= 1 + Len(topic) THEN x[i] ELSE s[i - (1 + Len(topic))]
  <2>1. full = x \o s
    BY <1>1
  <2>2. /\ Len(x \o s) = Len(x) + Len(s)
        /\ \A i \in 1..Len(x) + Len(s) :
              (x \o s)[i] = IF i <= Len(x) THEN x[i] ELSE s[i - Len(x)]
    BY <1>2, <1>4, ConcatProperties
  <2> QED BY <1>4, <2>1, <2>2
<1>6. ASSUME NEW i \in 1..Len(topic) PROVE full[i + 1] = topic[i]
  <2>1. i + 1 \in 1..(1 + Len(topic)) /\ i + 1 \in 1..(1 + Len(topic) + Len(s)) /\ ~(i + 1 <= 1)
    BY <1>3
  <2>2. full[i + 1] = x[i + 1]
    <3>1. i + 1 \in 1..((1 + Len(topic)) + Len(s)) /\ i + 1 <= 1 + Len(topic)
      BY <1>3, <2>1
    <3>2. PICK j : j = i + 1
      OBVIOUS
    <3> QED BY <1>5, <3>1, <3>2
  <2>3. x[i + 1] = topic[(i + 1) - 1]
    BY <1>4, <2>1
  <2>4. (i + 1) - 1 = i
    BY <1>3
  <2> QED BY <2>2, <2>3, <2>4
<1>7. full[1] = side.prefix
  <2>1. 1 \in 1..((1 + Len(topic)) + Len(s)) /\ 1 \in 1..(1 + Len(topic)) /\ 1 <= 1 + Len(topic)
    BY <1>3
  <2> QED BY <1>2, <1>4, <1>5, <2>1
<1> QED BY <1>1, <1>3, <1>5, <1>6, <1>7

(* So two topics of one side are equal only if the names are. *)
LEMMA TopicsApart ==
  ASSUME NEW side \in Sides, NEW a \in Seq(TopicChars), NEW b \in Seq(TopicChars),
         <<side.prefix>> \o a \o side.suffix = <<side.prefix>> \o b \o side.suffix
  PROVE  a = b
<1>1. PICK x : /\ x = <<side.prefix>> \o a \o side.suffix
               /\ x = <<side.prefix>> \o b \o side.suffix
  OBVIOUS
<1>2. PICK m, n, s : m = Len(a) /\ n = Len(b) /\ s = Len(side.suffix)
  OBVIOUS
<1>3. /\ m \in Nat /\ n \in Nat /\ s \in Nat /\ Len(x) = 1 + m + s /\ Len(x) = 1 + n + s
      /\ (\A i \in 1..m : x[i + 1] = a[i]) /\ (\A i \in 1..n : x[i + 1] = b[i])
  <2>1. /\ Len(a) \in Nat /\ Len(side.suffix) \in Nat
        /\ Len(x) = 1 + Len(a) + Len(side.suffix)
        /\ \A i \in 1..Len(a) : x[i + 1] = a[i]
    BY <1>1, TopicAt, ZenonT(40)
  <2>2. /\ Len(b) \in Nat
        /\ Len(x) = 1 + Len(b) + Len(side.suffix)
        /\ \A i \in 1..Len(b) : x[i + 1] = b[i]
    BY <1>1, TopicAt, ZenonT(40)
  <2> QED BY <1>2, <2>1, <2>2
<1>4. m = n
  <2>1. PICK l : l = Len(x)
    OBVIOUS
  <2>2. m \in Nat /\ n \in Nat /\ s \in Nat /\ l = 1 + m + s /\ l = 1 + n + s
    BY <1>3, <2>1
  <2> QED BY ONLY <2>2
<1>5. \A i \in 1..Len(a) : a[i] = b[i]
  BY <1>2, <1>3, <1>4
<1> QED BY <1>2, <1>4, <1>5, SeqEqual

(* The same of types, which have only a part added at the end. *)
LEMMA TypesApart ==
  ASSUME NEW part \in Seq(TypeChars), NEW a \in Seq(TypeChars), NEW b \in Seq(TypeChars),
         a \o part = b \o part
  PROVE  a = b
<1>1. PICK x : x = a \o part /\ x = b \o part
  OBVIOUS
<1>2. PICK m, n, s : m = Len(a) /\ n = Len(b) /\ s = Len(part)
  OBVIOUS
<1>3. m \in Nat /\ n \in Nat /\ s \in Nat
  BY <1>2, LenProperties
<1>4. /\ Len(x) = m + s
      /\ \A i \in 1..(m + s) : x[i] = IF i <= m THEN a[i] ELSE part[i - m]
  BY <1>1, <1>2, ConcatProperties
<1>5. /\ Len(x) = n + s
      /\ \A i \in 1..(n + s) : x[i] = IF i <= n THEN b[i] ELSE part[i - n]
  BY <1>1, <1>2, ConcatProperties
<1>6. m = n
  BY <1>3, <1>4, <1>5
<1>7. \A i \in 1..Len(a) : a[i] = b[i]
  BY <1>2, <1>3, <1>4, <1>5, <1>6
<1> QED BY <1>2, <1>6, <1>7, SeqEqual

(* What is described of a name begins with the prefix, and is all of it if *)
(* it fits.                                                                *)
LEMMA DescribedFacts ==
  ASSUME NEW side \in Sides, NEW name \in Names
  PROVE  /\ Described(side, name).topic[1] = side.prefix
         /\ Fits(side, name) => /\ Described(side, name).topic = FullTopic(side, name)
                                /\ Described(side, name).type = FullType(side, name)
<1>1. MaxLength \in Nat \ {0}
  BY EndpointsAssumption DEF EndpointsAssumption
<1>2. PICK full : full = FullTopic(side, name)
  OBVIOUS
<1>3. full \in Seq(TopicChars) /\ name.topic \in Seq(TopicChars)
  BY <1>2, FullNames, NameFacts
<1>4. /\ Len(name.topic) \in Nat /\ Len(side.suffix) \in Nat
      /\ Len(full) = 1 + Len(name.topic) + Len(side.suffix) /\ full[1] = side.prefix
  BY <1>2, <1>3, TopicAt DEF FullTopic
<1>5. Cut(full, MaxLength)[1] = side.prefix
  <2>1. Cut(full, MaxLength)[1] = full[1]
    <3>1. Len(full) \in Nat /\ Len(full) >= 1
      <4>1. PICK l, m, n : l = Len(full) /\ m = Len(name.topic) /\ n = Len(side.suffix)
        OBVIOUS
      <4>2. m \in Nat /\ n \in Nat /\ l = 1 + m + n
        BY <1>4, <4>1
      <4>3. l \in Nat /\ l >= 1
        BY ONLY <4>2
      <4> QED BY <4>1, <4>3
    <3>2. full \in Seq(TopicChars)
      BY <1>3
    <3> QED BY ONLY <1>1, <3>1, <3>2, CutFacts, SMTT(30)
  <2> QED BY <1>4, <2>1
<1> QED BY <1>2, <1>5 DEF Described, Fits, Cut

LEMMA NamesApart ==
  ASSUME NEW side \in Sides, NEW a \in Names, NEW b \in Names, Fits(side, a), Fits(side, b),
         Described(side, a) = Described(side, b)
  PROVE  a = b
<1>1. FullTopic(side, a) = FullTopic(side, b) /\ FullType(side, a) = FullType(side, b)
  BY DescribedFacts
<1>2. /\ a.topic \in Seq(TopicChars) /\ b.topic \in Seq(TopicChars)
      /\ a.type \in Seq(TypeChars) /\ b.type \in Seq(TypeChars)
      /\ side.part \in Seq(TypeChars)
  BY NameFacts, SideFacts
<1>3. a.topic = b.topic
  BY <1>1, <1>2, TopicsApart DEF FullTopic
<1>4. a.type = b.type
  BY <1>1, <1>2, TypesApart DEF FullType
<1> QED BY <1>3, <1>4, NameFacts

LEMMA EndsMatch == EInv /\ EndsOK => Matches
<1> DEFINE Meeting(k, l, a, b) ==
      /\ <<k, l>> \in Counterparts /\ a.name = b.name =>
            writers[a.writer] = readers[b.reader].names
      /\ writers[a.writer] = readers[b.reader].names =>
            /\ <<k, l>> \in Counterparts
            /\ \/ a.name = b.name
               \/ ~Fits(Writes[k], a.name) \/ ~Fits(Reads[l], b.name)
<1> SUFFICES ASSUME EInv, EndsOK PROVE Matches
  OBVIOUS
<1> SUFFICES ASSUME NEW k \in Kinds, NEW l \in Kinds, NEW i \in Items(k), NEW j \in Items(l),
                    entities[k][i].writer > 0, entities[l][j].reader > 0
             PROVE  Meeting(k, l, entities[k][i], entities[l][j])
  BY DEF Matches
<1>0. PICK a, b : a = entities[k][i] /\ b = entities[l][j]
  OBVIOUS
<1>1. a \in EntityType /\ b \in EntityType
  BY <1>0, Items1 DEF EInv
<1>2. a.name \in Names /\ b.name \in Names /\ a.writer # 0 /\ b.reader # 0
  BY <1>0, <1>1, Constants DEF EntityType
<1>3. /\ k \in DOMAIN Writes /\ writers[a.writer] = Described(Writes[k], a.name)
      /\ l \in DOMAIN Reads /\ readers[b.reader].names = Described(Reads[l], b.name)
  BY <1>0, <1>2 DEF EndsOK, EndOK
<1>4. \A x \in DOMAIN Writes, y \in DOMAIN Reads :
         /\ <<x, y>> \in Counterparts <=> Writes[x].prefix = Reads[y].prefix
         /\ <<x, y>> \in Counterparts => Writes[x] = Reads[y]
  <2> SUFFICES ASSUME NEW x \in {"publisher", "service", "client"},
                      NEW y \in {"subscription", "service", "client"}
               PROVE  /\ <<x, y>> \in Counterparts <=> Writes[x].prefix = Reads[y].prefix
                      /\ <<x, y>> \in Counterparts => Writes[x] = Reads[y]
    BY SidesOfKinds
  <2>1. /\ <<x, y>> \in Counterparts <=>
             \/ x = "publisher" /\ y = "subscription"
             \/ x = "service" /\ y = "client"
             \/ x = "client" /\ y = "service"
    BY DEF Counterparts
  <2>2. /\ Writes["publisher"] = Messages /\ Writes["service"] = Responses
        /\ Writes["client"] = Requests
        /\ Reads["subscription"] = Messages /\ Reads["service"] = Requests
        /\ Reads["client"] = Responses
    BY DEF Writes, Reads
  <2>3. Messages.prefix = "rt" /\ Requests.prefix = "rq" /\ Responses.prefix = "rr"
    BY DEF Messages, Requests, Responses
  <2> QED BY <2>1, <2>2, <2>3
<1>5. <<k, l>> \in Counterparts /\ a.name = b.name => writers[a.writer] = readers[b.reader].names
  BY <1>3, <1>4
<1>6. ASSUME writers[a.writer] = readers[b.reader].names
      PROVE  /\ <<k, l>> \in Counterparts
             /\ \/ a.name = b.name
                \/ ~Fits(Writes[k], a.name) \/ ~Fits(Reads[l], b.name)
  <2>1. Described(Writes[k], a.name) = Described(Reads[l], b.name)
    BY <1>3, <1>6
  <2>2. Writes[k] \in Sides /\ Reads[l] \in Sides
    BY <1>3, SidesOfKinds
  <2>3. Writes[k].prefix = Reads[l].prefix
    BY <1>2, <2>1, <2>2, DescribedFacts
  <2>4. <<k, l>> \in Counterparts
    BY <1>3, <1>4, <2>3
  <2>5. PICK side \in Sides : side = Writes[k] /\ side = Reads[l]
    BY <1>3, <1>4, <2>2, <2>4
  <2>6. Fits(side, a.name) /\ Fits(side, b.name) => a.name = b.name
    BY <1>2, <2>1, <2>5, NamesApart
  <2> QED BY <2>4, <2>5, <2>6
<1> QED BY <1>0, <1>5, <1>6

LEMMA NamesInit == Init => NamesOK /\ EndsOK
<1> SUFFICES ASSUME Init PROVE NamesOK /\ EndsOK
  OBVIOUS
<1>1. \A t \in Threads : ~Creating(t)
  BY DEF Init, Creating
<1>2. \A k \in Kinds : Items(k) = {}
  <2>1. DOMAIN <<>> = {}
    OBVIOUS
  <2>2. \A k \in Kinds : entities[k] = <<>>
    BY DEF Init
  <2> QED BY <2>1, <2>2 DEF Items
<1> QED BY <1>1, <1>2 DEF NamesOK, NameOK, EndsOK

LEMMA NamesNext == OneCreator /\ EInv /\ NamesOK /\ EndsOK /\ [Next]_vars => NamesOK' /\ EndsOK'
<1> SUFFICES ASSUME OneCreator, EInv, NamesOK, EndsOK, [Next]_vars PROVE NamesOK' /\ EndsOK'
  OBVIOUS
<1>1. ASSUME NEW t \in Threads, Create(t) PROVE NamesOK' /\ EndsOK'
  BY <1>1, NamesStay, EndsStay
<1>2. CASE (\E w \in Walkers : Walk(w)) \/ UNCHANGED vars
  <2>1. /\ entities' = entities /\ writers' = writers /\ readers' = readers
        /\ scratch' = scratch /\ creator' = creator
    BY <1>2 DEF Walk, StartWalk, WalkOn, WalkEnds, vars
  <2> QED BY <2>1 DEF NamesOK, NameOK, EndsOK, EndOK, Creating, StepOf, Mine, Items
<1> QED BY <1>1, <1>2 DEF Next

(* Endpoints meet on a topic when they should, and when they should not    *)
(* then because a name was too long, if no two threads create publishers   *)
(* at the same time, nor subscriptions, whose names are in static arrays.  *)
THEOREM EndpointsMeet == ASSUME OneCreator PROVE Spec => []Matches
<1>1. Init => NamesOK /\ EndsOK
  BY NamesInit
<1>2. EInv /\ NamesOK /\ EndsOK /\ [Next]_vars => NamesOK' /\ EndsOK'
  BY NamesNext
<1>3. EInv /\ EndsOK => Matches
  BY EndsMatch
<1> QED BY <1>1, <1>2, <1>3, EInvHolds, PTL DEF Spec
=============================================================================
