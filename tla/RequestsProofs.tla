---------------------------- MODULE RequestsProofs ----------------------------
(***************************************************************************)
(* Requests, responses and published messages for any number of clients,   *)
(* servers, publishers and processes, any number of messages and any Half. *)
(* That a message is what its sender meant needs a static buffer for each  *)
(* sender: no two publishers of one process, nor two clients, nor two      *)
(* threads of services, since nothing locks the three buffers.             *)
(***************************************************************************)
EXTENDS Requests, TLAPS

(* At most one of these actors in each process. *)
Alone(actors) == \A a, b \in actors : Process[a] = Process[b] => a = b

OwnBuffers == Alone(Publishers) /\ Alone(Clients) /\ Alone(Servers)

-----------------------------------------------------------------------------
SenderType   == [pc : {"idle", "change", "number"}, sent : 0..MaxSent, sn : Numbers]
WorkType     == [pc : {"answer", "change"}, guid : Clients, id : Nat, payload : Payloads]
ChangeType   == [writer : Publishers, nr : 1..MaxSent, payload : Payloads]
RequestType  == [guid : Clients, sn : Numbers, payload : Payloads]
ResponseType == [related_guid : Clients, related_sn : Numbers, payload : Payloads]
TakenType    == [guid : Clients, id : Nat, payload : Payloads]

Types ==
    /\ buffer \in [Range(Process) -> [SendFunctions -> Payloads]]
    /\ sequence \in [Clients -> Numbers]
    /\ sender \in [Senders -> SenderType]
    /\ \A a \in Senders : sender[a].pc # "idle" => sender[a].sent < MaxSent
    /\ \A p \in Publishers : sender[p].pc # "number"
    /\ server \in [Servers -> {Idle} \cup WorkType]
    /\ DOMAIN ids = Clients
    /\ \A c \in Clients : DOMAIN ids[c] \subseteq 1..MaxSent /\ \A n \in DOMAIN ids[c] : ids[c][n] \in Nat
    /\ changes \subseteq ChangeType
    /\ requests \subseteq RequestType
    /\ responses \in [Clients -> SUBSET ResponseType]
    /\ taken \in [Clients -> SUBSET TakenType]

(* A client's identities rise, and the next one is above them; so is that  *)
(* of a request whose *sequence_id is not assigned yet.                    *)
IdsOK ==
    \A c \in Clients :
        /\ \A n \in DOMAIN ids[c] : n <= sender[c].sent /\ ids[c][n] < Pack(sequence[c])
        /\ sender[c].pc = "number" =>
              /\ Pack(sender[c].sn) < Pack(sequence[c])
              /\ \A n \in DOMAIN ids[c] : ids[c][n] < Pack(sender[c].sn)
        /\ \A m, n \in DOMAIN ids[c] : ids[c][m] = ids[c][n] => m = n

(* From the serialization to newChange the buffer keeps the message. *)
BuffersOK ==
    /\ \A p \in Publishers : sender[p].pc = "change" =>
          buffer[Process[p]]["publish"] = <<p, sender[p].sent + 1>>
    /\ \A c \in Clients : sender[c].pc = "change" =>
          buffer[Process[c]]["request"] = <<c, sender[c].sent + 1>>
    /\ \A s \in Servers : server[s].pc = "change" =>
          buffer[Process[s]]["response"] = server[s].payload

(* This client got, or is about to get, this identity for the request with *)
(* this payload.                                                           *)
Known(guid, id, payload) ==
    \/ \E n \in DOMAIN ids[guid] : ids[guid][n] = id /\ payload = <<guid, n>>
    \/ /\ sender[guid].pc = "number" /\ id = Pack(sender[guid].sn)
       /\ payload = <<guid, sender[guid].sent + 1>>

(* A request keeps its identity on its way to the service and back. *)
KnownOK ==
    /\ \A r \in requests : Known(r.guid, Pack(r.sn), r.payload)
    /\ \A s \in Servers : server[s].pc # "idle" =>
          Known(server[s].guid, server[s].id, server[s].payload)
    /\ \A c \in Clients : /\ \A r \in responses[c] : Known(r.related_guid, Pack(r.related_sn), r.payload)
                          /\ \A a \in taken[c] : Known(a.guid, a.id, a.payload)

RInv == BuffersOK /\ IdsOK /\ KnownOK /\ PublishedIntact

-----------------------------------------------------------------------------
(* The two halves of a sequence number, and what >> and & make of them. *)
LEMMA Halves ==
  ASSUME NEW id \in Nat
  PROVE  Unpack(id) \in Numbers /\ Pack(Unpack(id)) = id
<1>1. Half \in Nat \ {0}
  BY RequestsAssumption
<1>2. id \div Half \in Nat /\ id % Half \in 0..(Half - 1)
  BY <1>1
<1>3. (id \div Half) * Half + (id % Half) = id
  BY <1>1
<1>4. Unpack(id).high = id \div Half /\ Unpack(id).low = id % Half
  BY DEF Unpack
<1>5. Unpack(id) \in Numbers
  BY <1>2 DEF Unpack, Numbers
<1> QED BY <1>3, <1>4, <1>5 DEF Pack

(* A writer's numbers are consecutive as int64_t, also where the lower     *)
(* half wraps.                                                             *)
LEMMA NextIsNext ==
  ASSUME NEW sn \in Numbers
  PROVE  /\ NextNumber(sn) \in Numbers
         /\ Pack(sn) \in Nat /\ Pack(NextNumber(sn)) = Pack(sn) + 1
<1>1. PICK h, l : h = sn.high /\ l = sn.low
  OBVIOUS
<1>2. h \in Nat /\ l \in 0..(Half - 1) /\ sn = [high |-> h, low |-> l] /\ Half \in Nat \ {0}
  BY <1>1, RequestsAssumption DEF Numbers
<1>3. h * Half \in Nat /\ (h + 1) * Half = h * Half + Half
  BY <1>2
<1>4. CASE l + 1 = Half
  <2>1. NextNumber(sn) = [high |-> h + 1, low |-> 0]
    BY <1>1, <1>4 DEF NextNumber
  <2> QED BY <1>1, <1>2, <1>3, <1>4, <2>1 DEF Pack, Numbers
<1>5. CASE l + 1 # Half
  <2>1. NextNumber(sn) = [high |-> h, low |-> l + 1]
    BY <1>1, <1>2, <1>5 DEF NextNumber
  <2>2. l + 1 \in 0..(Half - 1)
    BY <1>2, <1>5
  <2> QED BY <1>1, <1>2, <1>3, <2>1, <2>2 DEF Pack, Numbers
<1> QED BY <1>4, <1>5

LEMMA BufferWritten ==
  ASSUME Types, NEW a \in Clients \cup Servers \cup Publishers, NEW f \in SendFunctions,
         NEW m \in Payloads, Write(a, f, m)
  PROVE  /\ Process[a] \in Range(Process)
         /\ buffer' \in [Range(Process) -> [SendFunctions -> Payloads]]
         /\ buffer'[Process[a]][f] = m
         /\ \A p \in Range(Process), g \in SendFunctions :
               p # Process[a] \/ g # f => buffer'[p][g] = buffer[p][g]
<1>1. Process[a] \in Range(Process)
  BY RequestsAssumption DEF Range
<1>2. PICK q : q = Process[a]
  OBVIOUS
<1>3. buffer' = [buffer EXCEPT ![q][f] = m]
  BY <1>2 DEF Write
<1>4. buffer \in [Range(Process) -> [SendFunctions -> Payloads]] /\ q \in Range(Process)
  BY <1>1, <1>2 DEF Types
<1>5. buffer' \in [Range(Process) -> [SendFunctions -> Payloads]]
  BY <1>3, <1>4
<1>6. /\ buffer'[q][f] = m
      /\ \A p \in Range(Process), g \in SendFunctions :
            p # q \/ g # f => buffer'[p][g] = buffer[p][g]
  BY <1>3, <1>4
<1> QED BY <1>1, <1>2, <1>5, <1>6

-----------------------------------------------------------------------------
(* The types. *)
LEMMA SentMoves ==
  ASSUME Types, NEW a \in Senders, sender[a].pc # "idle", Sent(a)
  PROVE  /\ sender' \in [Senders -> SenderType]
         /\ \A b \in Senders : sender'[b].pc # "idle" => sender'[b].sent < MaxSent
         /\ \A p \in Publishers : sender'[p].pc # "number"
         /\ sender'[a].pc = "idle" /\ sender'[a].sent = sender[a].sent + 1
         /\ \A b \in Senders \ {a} : sender'[b] = sender[b]
         /\ sender[a].sent + 1 \in 1..MaxSent
<1>1. PICK n : n = sender[a].sent
  OBVIOUS
<1>2. n \in 0..MaxSent /\ n < MaxSent /\ MaxSent \in Nat
  BY <1>1, RequestsAssumption DEF Types, SenderType
<1>3. sender \in [Senders -> SenderType] /\ n + 1 \in 1..MaxSent /\ n + 1 \in 0..MaxSent
  BY <1>2 DEF Types
<1>4. sender' = [sender EXCEPT ![a].pc = "idle", ![a].sent = n + 1]
  BY <1>1, <1>3 DEF Sent
<1>5. /\ sender' \in [Senders -> SenderType] /\ sender'[a].pc = "idle" /\ sender'[a].sent = n + 1
      /\ \A b \in Senders \ {a} : sender'[b] = sender[b]
  BY <1>3, <1>4 DEF SenderType
<1>6. /\ \A b \in Senders : sender'[b].pc # "idle" => sender'[b].sent < MaxSent
      /\ \A p \in Publishers : sender'[p].pc # "number"
  BY <1>5 DEF Types, Senders
<1> QED BY <1>1, <1>3, <1>5, <1>6

LEMMA SerializeMoves ==
  ASSUME Types, NEW a \in Senders, NEW f \in SendFunctions, Serialize(a, f)
  PROVE  /\ sender' \in [Senders -> SenderType]
         /\ \A b \in Senders : sender'[b].pc # "idle" => sender'[b].sent < MaxSent
         /\ sender[a].pc = "idle" /\ sender'[a].pc # "number"
         /\ \A p \in Publishers : sender'[p].pc # "number"
         /\ sender'[a].pc = "change" => sender'[a].sent = sender[a].sent
         /\ sender[a].sent \in Nat /\ sender'[a].sent >= sender[a].sent
         /\ \A b \in Senders \ {a} : sender'[b] = sender[b]
         /\ <<a, sender[a].sent + 1>> \in Payloads
<1>1. PICK n : n = sender[a].sent
  OBVIOUS
<1>2. n \in 0..MaxSent /\ n < MaxSent /\ MaxSent \in Nat /\ sender[a].pc = "idle"
  BY <1>1, RequestsAssumption DEF Types, SenderType, Serialize
<1>3. sender \in [Senders -> SenderType]
  BY DEF Types
<1>4. <<a, n + 1>> \in Payloads
  BY <1>2 DEF Payloads
<1>5. CASE sender' = [sender EXCEPT ![a].pc = "change"]
  <2>1. /\ sender' \in [Senders -> SenderType] /\ sender'[a].sent = n /\ sender'[a].pc = "change"
        /\ \A b \in Senders \ {a} : sender'[b] = sender[b]
    BY <1>1, <1>3, <1>5 DEF SenderType
  <2>2. /\ \A b \in Senders : sender'[b].pc # "idle" => sender'[b].sent < MaxSent
        /\ \A p \in Publishers : sender'[p].pc # "number"
    BY <1>2, <2>1 DEF Types, Senders
  <2> QED BY <1>1, <1>2, <1>4, <2>1, <2>2
<1>6. CASE sender' = [sender EXCEPT ![a].sent = @ + 1]
  <2>1. sender' = [sender EXCEPT ![a].sent = n + 1] /\ n + 1 \in 0..MaxSent
    BY <1>1, <1>2, <1>6
  <2>2. /\ sender' \in [Senders -> SenderType] /\ sender'[a].sent = n + 1 /\ sender'[a].pc = "idle"
        /\ \A b \in Senders \ {a} : sender'[b] = sender[b]
    BY <1>2, <1>3, <2>1 DEF SenderType
  <2>3. /\ \A b \in Senders : sender'[b].pc # "idle" => sender'[b].sent < MaxSent
        /\ \A p \in Publishers : sender'[p].pc # "number"
    BY <2>2 DEF Types, Senders
  <2> QED BY <1>1, <1>2, <1>4, <2>2, <2>3
<1> QED BY <1>5, <1>6 DEF Serialize

LEMMA SerializeTypes ==
  ASSUME Types, NEW a \in Senders, NEW f \in SendFunctions, Serialize(a, f)
  PROVE  Types'
<1>1. /\ sender' \in [Senders -> SenderType]
      /\ \A b \in Senders : sender'[b].pc # "idle" => sender'[b].sent < MaxSent
      /\ \A q \in Publishers : sender'[q].pc # "number"
  BY SerializeMoves
<1>2. buffer' \in [Range(Process) -> [SendFunctions -> Payloads]]
  <2>1. <<a, sender[a].sent + 1>> \in Payloads /\ a \in Clients \cup Servers \cup Publishers
    BY SerializeMoves DEF Senders
  <2> QED BY <2>1, BufferWritten DEF Serialize
<1> QED BY <1>1, <1>2 DEF Types, Serialize

LEMMA NewMessageTypes ==
  ASSUME Types, NEW p \in Publishers, NewMessage(p)
  PROVE  Types'
<1>1. p \in Senders /\ p \in DOMAIN Process /\ Process[p] \in Range(Process)
  BY RequestsAssumption DEF Senders, Range
<1>2. /\ sender' \in [Senders -> SenderType]
      /\ \A b \in Senders : sender'[b].pc # "idle" => sender'[b].sent < MaxSent
      /\ \A q \in Publishers : sender'[q].pc # "number"
      /\ sender[p].sent + 1 \in 1..MaxSent
  BY <1>1, SentMoves DEF NewMessage
<1>3. buffer[Process[p]].publish \in Payloads
  BY <1>1 DEF Types, SendFunctions
<1>4. changes' \subseteq ChangeType
  BY <1>2, <1>3 DEF NewMessage, Types, ChangeType
<1> QED BY <1>2, <1>4 DEF Types, NewMessage

(* newChange gives a request its number and the writer the next one. *)
LEMMA NewRequestMoves ==
  ASSUME Types, NEW c \in Clients, NewRequest(c)
  PROVE  /\ sender' \in [Senders -> SenderType]
         /\ sender'[c].pc = "number" /\ sender'[c].sn = sequence[c]
         /\ sender'[c].sent = sender[c].sent /\ sender[c].sent < MaxSent
         /\ \A b \in Senders \ {c} : sender'[b] = sender[b]
         /\ sequence' \in [Clients -> Numbers]
         /\ \A d \in Clients \ {c} : sequence'[d] = sequence[d]
         /\ sequence'[c] = NextNumber(sequence[c])
<1>1. PICK n, m : n = sender[c].sent /\ m = sequence[c]
  OBVIOUS
<1>2. /\ c \in Senders /\ sender \in [Senders -> SenderType] /\ sequence \in [Clients -> Numbers]
      /\ n \in 0..MaxSent /\ n < MaxSent /\ m \in Numbers
  BY <1>1 DEF Types, Senders, SenderType, NewRequest
<1>3. sender' = [sender EXCEPT ![c].pc = "number", ![c].sn = m]
  BY <1>1, <1>2 DEF NewRequest
<1>4. /\ sender' \in [Senders -> SenderType]
      /\ sender'[c].pc = "number" /\ sender'[c].sent = n /\ sender'[c].sn = m
      /\ \A b \in Senders \ {c} : sender'[b] = sender[b]
  BY <1>1, <1>2, <1>3 DEF SenderType
<1>5. sequence' = [sequence EXCEPT ![c] = NextNumber(sequence[c])] /\ NextNumber(sequence[c]) \in Numbers
  BY <1>2, NextIsNext DEF NewRequest
<1> QED BY <1>1, <1>2, <1>4, <1>5

LEMMA NewRequestTypes ==
  ASSUME Types, NEW c \in Clients, NewRequest(c)
  PROVE  Types'
<1>1. c \in Senders /\ c \in DOMAIN Process /\ Process[c] \in Range(Process) /\ c \notin Publishers
  BY RequestsAssumption DEF Senders, Range
<1>2. /\ sender' \in [Senders -> SenderType] /\ sequence' \in [Clients -> Numbers]
      /\ \A b \in Senders : sender'[b].pc # "idle" => sender'[b].sent < MaxSent
      /\ \A p \in Publishers : sender'[p].pc # "number"
  <2>1. /\ sender' \in [Senders -> SenderType] /\ sequence' \in [Clients -> Numbers]
        /\ sender'[c].sent = sender[c].sent /\ sender[c].sent < MaxSent
        /\ \A b \in Senders \ {c} : sender'[b] = sender[b]
    BY NewRequestMoves
  <2>2. /\ \A b \in Senders : sender[b].pc # "idle" => sender[b].sent < MaxSent
        /\ \A p \in Publishers : p \in Senders /\ sender[p].pc # "number"
    BY DEF Types, Senders
  <2> QED BY <1>1, <2>1, <2>2
<1>3. buffer[Process[c]].request \in Payloads /\ sequence[c] \in Numbers
  BY <1>1 DEF Types, SendFunctions
<1>4. requests' \subseteq RequestType
  BY <1>3 DEF NewRequest, Types, RequestType
<1> QED BY <1>2, <1>4 DEF Types, NewRequest

(* What a client keeps of the numbers of its requests. *)
LEMMA IdsAfterRequest ==
  ASSUME Types, NEW c \in Clients, NumberRequest(c)
  PROVE  /\ DOMAIN ids' = Clients /\ \A d \in Clients \ {c} : ids'[d] = ids[d]
         /\ DOMAIN ids'[c] = DOMAIN ids[c] \cup {sender[c].sent + 1}
         /\ \A n \in DOMAIN ids[c] : ids'[c][n] = ids[c][n]
         /\ sender[c].sent + 1 \notin DOMAIN ids[c] =>
               ids'[c][sender[c].sent + 1] = Pack(sender[c].sn)
<1>1. PICK n, id, new : /\ n = sender[c].sent + 1 /\ id = Pack(sender[c].sn)
                        /\ new = [k \in DOMAIN ids[c] \cup {n} |->
                                     IF k \in DOMAIN ids[c] THEN ids[c][k] ELSE id]
  OBVIOUS
<1>2. DOMAIN ids = Clients
  BY DEF Types
<1>3. ids' = [ids EXCEPT ![c] = new]
  BY <1>1 DEF NumberRequest
<1>4. DOMAIN ids' = Clients /\ ids'[c] = new /\ \A d \in Clients \ {c} : ids'[d] = ids[d]
  BY <1>2, <1>3
<1> QED BY <1>1, <1>4

LEMMA NumberRequestTypes ==
  ASSUME Types, NEW c \in Clients, NumberRequest(c)
  PROVE  Types'
<1>1. c \in Senders /\ sender[c].pc # "idle" /\ Sent(c)
  BY DEF Senders, NumberRequest
<1>2. /\ sender' \in [Senders -> SenderType]
      /\ \A b \in Senders : sender'[b].pc # "idle" => sender'[b].sent < MaxSent
      /\ \A p \in Publishers : sender'[p].pc # "number"
      /\ sender[c].sent + 1 \in 1..MaxSent
  BY <1>1, SentMoves
<1>3. /\ DOMAIN ids' = Clients
      /\ \A d \in Clients : DOMAIN ids'[d] \subseteq 1..MaxSent
      /\ \A d \in Clients : \A n \in DOMAIN ids'[d] : ids'[d][n] \in Nat
  <2>1. Pack(sender[c].sn) \in Nat
    BY <1>1, NextIsNext DEF Types, SenderType
  <2>2. \A d \in Clients : DOMAIN ids[d] \subseteq 1..MaxSent /\ \A n \in DOMAIN ids[d] : ids[d][n] \in Nat
    BY DEF Types
  <2> QED BY <1>2, <2>1, <2>2, IdsAfterRequest
<1> QED BY <1>2, <1>3 DEF Types, NumberRequest

LEMMA TakeRequestTypes ==
  ASSUME Types, NEW s \in Servers, NEW r \in requests, TakeRequest(s, r)
  PROVE  /\ Types'
         /\ server'[s] = [pc |-> "answer", guid |-> r.guid, id |-> Pack(r.sn), payload |-> r.payload]
         /\ \A u \in Servers \ {s} : server'[u] = server[u]
<1>1. PICK w : w = [pc |-> "answer", guid |-> r.guid, id |-> Pack(r.sn), payload |-> r.payload]
  OBVIOUS
<1>2. r \in RequestType
  BY DEF Types
<1>3. r.guid \in Clients /\ r.sn \in Numbers /\ r.payload \in Payloads
  BY <1>2 DEF RequestType
<1>4. w \in WorkType
  BY <1>1, <1>3, NextIsNext DEF WorkType
<1>5. server' = [server EXCEPT ![s] = w]
  BY <1>1 DEF TakeRequest
<1>6. server' \in [Servers -> {Idle} \cup WorkType]
  BY <1>4, <1>5 DEF Types
<1>7. server'[s] = w /\ \A u \in Servers \ {s} : server'[u] = server[u]
  BY <1>5 DEF Types
<1> QED BY <1>1, <1>6, <1>7 DEF Types, TakeRequest

LEMMA SerializeResponseTypes ==
  ASSUME Types, NEW s \in Servers, SerializeResponse(s)
  PROVE  /\ Types' /\ server[s] \in WorkType
         /\ \/ server'[s] = Idle
            \/ /\ server'[s].pc = "change" /\ server'[s].guid = server[s].guid
               /\ server'[s].id = server[s].id /\ server'[s].payload = server[s].payload
         /\ \A u \in Servers \ {s} : server'[u] = server[u]
<1>1. server[s] \in WorkType /\ server \in [Servers -> {Idle} \cup WorkType]
  BY DEF Types, SerializeResponse, Idle
<1>2. PICK w : w = server[s]
  OBVIOUS
<1>3. w \in WorkType /\ w.payload \in Payloads
  BY <1>1, <1>2 DEF WorkType
<1>4. buffer' \in [Range(Process) -> [SendFunctions -> Payloads]]
  <2>1. "response" \in SendFunctions /\ server[s].payload \in Payloads
    BY <1>2, <1>3 DEF SendFunctions
  <2> QED BY <2>1, BufferWritten DEF SerializeResponse
<1>5. /\ server' \in [Servers -> {Idle} \cup WorkType]
      /\ \/ server'[s] = Idle
         \/ /\ server'[s].pc = "change" /\ server'[s].guid = server[s].guid
            /\ server'[s].id = server[s].id /\ server'[s].payload = server[s].payload
      /\ \A u \in Servers \ {s} : server'[u] = server[u]
  <2>1. CASE server' = [server EXCEPT ![s] = Idle]
    BY <1>1, <2>1
  <2>2. CASE server' = [server EXCEPT ![s].pc = "change"]
    <3>1. PICK x : x = [w EXCEPT !.pc = "change"]
      OBVIOUS
    <3>2. x \in WorkType /\ x.pc = "change" /\ x.guid = w.guid /\ x.id = w.id /\ x.payload = w.payload
      BY <1>3, <3>1 DEF WorkType
    <3>3. server' = [server EXCEPT ![s] = x]
      BY <1>2, <2>2, <3>1
    <3>4. server' \in [Servers -> {Idle} \cup WorkType] /\ server'[s] = x
      BY <1>1, <3>2, <3>3
    <3> QED BY <1>1, <1>2, <3>2, <3>3, <3>4
  <2> QED BY <2>1, <2>2 DEF SerializeResponse
<1> QED BY <1>1, <1>4, <1>5 DEF Types, SerializeResponse

LEMMA NewResponseTypes ==
  ASSUME Types, NEW s \in Servers, NewResponse(s)
  PROVE  /\ Types' /\ server[s] \in WorkType /\ server'[s] = Idle
         /\ \A u \in Servers \ {s} : server'[u] = server[u]
         /\ \A c \in Clients : \A r \in responses'[c] :
               \/ r \in responses[c]
               \/ /\ r.related_guid = server[s].guid
                  /\ r.related_sn = Unpack(server[s].id)
                  /\ r.payload = buffer[Process[s]]["response"]
<1>1. server[s] \in WorkType /\ server \in [Servers -> {Idle} \cup WorkType]
  BY DEF Types, NewResponse, Idle
<1>2. PICK g, i, m : g = server[s].guid /\ i = server[s].id /\ m = buffer[Process[s]]["response"]
  OBVIOUS
<1>3. PICK x : x = [related_guid |-> g, related_sn |-> Unpack(i), payload |-> m]
  OBVIOUS
<1>4. g \in Clients /\ Unpack(i) \in Numbers /\ m \in Payloads
  <2>1. g \in Clients /\ i \in Nat
    BY <1>1, <1>2 DEF WorkType
  <2>2. Process[s] \in Range(Process)
    BY RequestsAssumption DEF Range
  <2>3. m \in Payloads
    BY <1>2, <2>2 DEF Types, SendFunctions
  <2> QED BY <2>1, <2>3, Halves
<1>5. x \in ResponseType
  BY <1>3, <1>4 DEF ResponseType
<1>6. PICK reached \in SUBSET Clients :
         responses' = [c \in Clients |-> IF c \in reached THEN responses[c] \cup {x} ELSE responses[c]]
  BY <1>2, <1>3 DEF NewResponse
<1>7. responses \in [Clients -> SUBSET ResponseType]
  BY DEF Types
<1>8. responses' \in [Clients -> SUBSET ResponseType]
  BY <1>5, <1>6, <1>7
<1>9. \A c \in Clients : \A r \in responses'[c] : r \in responses[c] \/ r = x
  BY <1>6
<1>10. x.related_guid = g /\ x.related_sn = Unpack(i) /\ x.payload = m
  BY <1>3
<1>11. server' = [server EXCEPT ![s] = Idle]
  BY DEF NewResponse
<1>12. /\ server' \in [Servers -> {Idle} \cup WorkType] /\ server'[s] = Idle
       /\ \A u \in Servers \ {s} : server'[u] = server[u]
  BY <1>1, <1>11
<1>13. Types'
  BY <1>8, <1>12 DEF Types, NewResponse
<1> QED BY <1>1, <1>2, <1>9, <1>10, <1>12, <1>13

LEMMA TakeResponseTypes ==
  ASSUME Types, NEW c \in Clients, NEW r \in responses[c], TakeResponse(c, r)
  PROVE  /\ Types'
         /\ \A d \in Clients : responses'[d] \subseteq responses[d]
         /\ \A d \in Clients : \A a \in taken'[d] :
               \/ a \in taken[d]
               \/ /\ d = c /\ a.guid = r.related_guid
                  /\ a.id = Pack(r.related_sn) /\ a.payload = r.payload
<1>1. PICK x : x = [guid |-> r.related_guid, id |-> Pack(r.related_sn), payload |-> r.payload]
  OBVIOUS
<1>2. responses \in [Clients -> SUBSET ResponseType] /\ taken \in [Clients -> SUBSET TakenType]
  BY DEF Types
<1>3. r.related_guid \in Clients /\ r.related_sn \in Numbers /\ r.payload \in Payloads
  BY <1>2 DEF ResponseType
<1>4. x \in TakenType
  BY <1>1, <1>3, NextIsNext DEF TakenType
<1>5. /\ responses' = [responses EXCEPT ![c] = @ \ {r}]
      /\ taken' = [taken EXCEPT ![c] = @ \cup {x}]
  BY <1>1 DEF TakeResponse
<1>6. /\ responses' \in [Clients -> SUBSET ResponseType]
      /\ \A d \in Clients : responses'[d] \subseteq responses[d]
  BY <1>2, <1>5
<1>7. /\ taken' \in [Clients -> SUBSET TakenType]
      /\ \A d \in Clients : \A a \in taken'[d] : a \in taken[d] \/ (d = c /\ a = x)
  BY <1>2, <1>4, <1>5
<1>8. x.guid = r.related_guid /\ x.id = Pack(r.related_sn) /\ x.payload = r.payload
  BY <1>1
<1>9. Types'
  BY <1>6, <1>7 DEF Types, TakeResponse
<1> QED BY <1>6, <1>7, <1>8, <1>9

LEMMA NextTypes ==
  ASSUME Types, [Next]_vars
  PROVE  Types'
<1>1. CASE UNCHANGED vars
  BY <1>1 DEF vars, Types
<1>2. ASSUME NEW p \in Publishers, SerializeMessage(p) \/ NewMessage(p) PROVE Types'
  <2>1. p \in Senders /\ "publish" \in SendFunctions
    BY DEF Senders, SendFunctions
  <2> QED BY <1>2, <2>1, SerializeTypes, NewMessageTypes DEF SerializeMessage
<1>3. ASSUME NEW c \in Clients, \/ SerializeRequest(c) \/ NewRequest(c) \/ NumberRequest(c)
                                \/ \E r \in responses[c] : TakeResponse(c, r)
      PROVE Types'
  <2>1. c \in Senders /\ "request" \in SendFunctions
    BY DEF Senders, SendFunctions
  <2> QED BY <1>3, <2>1, SerializeTypes, NewRequestTypes, NumberRequestTypes,
           TakeResponseTypes DEF SerializeRequest
<1>4. ASSUME NEW s \in Servers, \/ \E r \in requests : TakeRequest(s, r)
                                \/ SerializeResponse(s) \/ NewResponse(s)
      PROVE Types'
  BY <1>4, TakeRequestTypes, SerializeResponseTypes, NewResponseTypes
<1> QED BY <1>1, <1>2, <1>3, <1>4 DEF Next

LEMMA InitTypes ==
  ASSUME Init
  PROVE  Types /\ RInv
<1>1. MaxSent \in Nat /\ Half \in Nat \ {0, 1}
  BY RequestsAssumption
<1>2. buffer \in [Range(Process) -> [SendFunctions -> Payloads]]
  BY DEF Init, Payloads
<1>3. sequence \in [Clients -> Numbers]
  BY <1>1 DEF Init, FirstNumber, Numbers
<1>4. /\ sender \in [Senders -> SenderType] /\ \A a \in Senders : sender[a].pc = "idle"
      /\ Clients \subseteq Senders /\ Publishers \subseteq Senders
  BY <1>1 DEF Init, SenderType, FirstNumber, Numbers, Senders
<1>5. /\ server \in [Servers -> {Idle} \cup WorkType] /\ \A s \in Servers : server[s].pc = "idle"
  BY DEF Init, Idle
<1>6. DOMAIN ids = Clients /\ \A c \in Clients : DOMAIN ids[c] = {}
  BY DEF Init
<1>7. /\ changes = {} /\ requests = {}
      /\ \A c \in Clients : responses[c] = {} /\ taken[c] = {}
      /\ responses \in [Clients -> SUBSET ResponseType] /\ taken \in [Clients -> SUBSET TakenType]
  BY DEF Init
<1>8. Types
  BY <1>2, <1>3, <1>4, <1>5, <1>6, <1>7 DEF Types
<1>9. BuffersOK
  BY <1>4, <1>5 DEF BuffersOK, Senders
<1> QED BY <1>4, <1>5, <1>6, <1>7, <1>8, <1>9 DEF RInv, IdsOK, KnownOK, PublishedIntact

LEMMA AlwaysTypes == Spec => []Types
BY InitTypes, NextTypes, PTL DEF Spec

(* The variables keep their types; above all, a lower half never needs     *)
(* more than its 32 bits, whatever comes back from the wire                *)
(* (rmw_request.cpp:55, rmw_request.cpp:103, rmw_response.cpp:75).         *)
THEOREM TypeCorrect == Spec => []TypeOK
<1>1. Types => TypeOK
  BY DEF Types, TypeOK, SenderType, WorkType, ChangeType, RequestType, ResponseType, TakenType, Range
<1> QED BY <1>1, AlwaysTypes, PTL

-----------------------------------------------------------------------------
(* The buffers between cdr_serialize and newChange. *)
LEMMA SerializeBuffers ==
  ASSUME OwnBuffers, Types, BuffersOK, NEW a \in Senders, NEW f \in {"publish", "request"},
         f = "publish" => a \in Publishers, f = "request" => a \in Clients, Serialize(a, f)
  PROVE  BuffersOK'
<1>1. f \in SendFunctions /\ a \in Clients \cup Servers \cup Publishers
  BY DEF SendFunctions, Senders
<1>2. /\ sender'[a].pc = "change" => sender'[a].sent = sender[a].sent
      /\ \A b \in Senders \ {a} : sender'[b] = sender[b]
      /\ <<a, sender[a].sent + 1>> \in Payloads
  BY <1>1, SerializeMoves
<1>3. /\ Process[a] \in Range(Process)
      /\ buffer'[Process[a]][f] = <<a, sender[a].sent + 1>>
      /\ \A p \in Range(Process), g \in SendFunctions :
            p # Process[a] \/ g # f => buffer'[p][g] = buffer[p][g]
  BY <1>1, <1>2, BufferWritten DEF Serialize
<1>4. /\ \A b \in Clients \cup Servers \cup Publishers : Process[b] \in Range(Process)
      /\ Clients \cap Publishers = {}
  BY RequestsAssumption DEF Range
<1>5. ASSUME NEW p \in Publishers, sender'[p].pc = "change"
      PROVE  buffer'[Process[p]]["publish"] = <<p, sender'[p].sent + 1>>
  <2>1. CASE p = a
    BY <1>2, <1>3, <1>4, <1>5, <2>1
  <2>2. CASE p # a
    <3>1. Process[p] # Process[a] \/ f # "publish"
      BY <2>2 DEF OwnBuffers, Alone
    <3>2. buffer'[Process[p]]["publish"] = buffer[Process[p]]["publish"]
      BY <1>3, <1>4, <3>1 DEF SendFunctions
    <3>3. sender'[p] = sender[p]
      BY <1>2, <2>2 DEF Senders
    <3> QED BY <1>5, <3>2, <3>3 DEF BuffersOK
  <2> QED BY <2>1, <2>2
<1>6. ASSUME NEW c \in Clients, sender'[c].pc = "change"
      PROVE  buffer'[Process[c]]["request"] = <<c, sender'[c].sent + 1>>
  <2>1. CASE c = a
    BY <1>2, <1>3, <1>4, <1>6, <2>1
  <2>2. CASE c # a
    <3>1. Process[c] # Process[a] \/ f # "request"
      BY <2>2 DEF OwnBuffers, Alone
    <3>2. buffer'[Process[c]]["request"] = buffer[Process[c]]["request"]
      BY <1>3, <1>4, <3>1 DEF SendFunctions
    <3>3. sender'[c] = sender[c]
      BY <1>2, <2>2 DEF Senders
    <3> QED BY <1>6, <3>2, <3>3 DEF BuffersOK
  <2> QED BY <2>1, <2>2
<1>7. \A s \in Servers : buffer'[Process[s]]["response"] = buffer[Process[s]]["response"]
  BY <1>3, <1>4 DEF SendFunctions
<1>8. UNCHANGED server
  BY DEF Serialize
<1> QED BY <1>5, <1>6, <1>7, <1>8 DEF BuffersOK

LEMMA ResponseBuffers ==
  ASSUME OwnBuffers, Types, BuffersOK, NEW s \in Servers, SerializeResponse(s)
  PROVE  BuffersOK'
<1>1. /\ server[s] \in WorkType
      /\ \/ server'[s] = Idle
         \/ server'[s].pc = "change" /\ server'[s].payload = server[s].payload
      /\ \A u \in Servers \ {s} : server'[u] = server[u]
  BY SerializeResponseTypes
<1>2. server[s].payload \in Payloads
  BY <1>1 DEF WorkType
<1>3. /\ buffer'[Process[s]]["response"] = server[s].payload
      /\ \A p \in Range(Process), g \in SendFunctions :
            p # Process[s] \/ g # "response" => buffer'[p][g] = buffer[p][g]
  BY <1>2, BufferWritten DEF SerializeResponse, SendFunctions
<1>4. \A b \in Clients \cup Servers \cup Publishers : Process[b] \in Range(Process)
  BY RequestsAssumption DEF Range
<1>5. ASSUME NEW u \in Servers, server'[u].pc = "change"
      PROVE  buffer'[Process[u]]["response"] = server'[u].payload
  <2>1. CASE u = s
    BY <1>1, <1>3, <1>5, <2>1 DEF Idle
  <2>2. CASE u # s
    <3>1. Process[u] # Process[s] /\ server'[u] = server[u]
      BY <1>1, <2>2 DEF OwnBuffers, Alone
    <3>2. buffer'[Process[u]]["response"] = buffer[Process[u]]["response"]
      BY <1>3, <1>4, <3>1 DEF SendFunctions
    <3> QED BY <1>5, <3>1, <3>2 DEF BuffersOK
  <2> QED BY <2>1, <2>2
<1>6. /\ \A p \in Publishers : buffer'[Process[p]]["publish"] = buffer[Process[p]]["publish"]
      /\ \A c \in Clients : buffer'[Process[c]]["request"] = buffer[Process[c]]["request"]
  BY <1>3, <1>4 DEF SendFunctions
<1>7. UNCHANGED sender
  BY DEF SerializeResponse
<1> QED BY <1>5, <1>6, <1>7 DEF BuffersOK

-----------------------------------------------------------------------------
(* The way of an identity. *)
LEMMA KnownCarried ==
  ASSUME Types, KnownOK, \A g \in Clients : \A i, m : Known(g, i, m) => Known(g, i, m)',
         UNCHANGED <<server, responses, taken>>,
         \A r \in requests' : r \in requests \/ Known(r.guid, Pack(r.sn), r.payload)'
  PROVE  KnownOK'
<1>1. ASSUME NEW r \in requests' PROVE Known(r.guid, Pack(r.sn), r.payload)'
  <2>1. CASE r \in requests
    <3>1. r.guid \in Clients /\ Known(r.guid, Pack(r.sn), r.payload)
      BY <2>1 DEF Types, RequestType, KnownOK
    <3> QED BY <3>1
  <2> QED BY <2>1
<1>2. ASSUME NEW s \in Servers, server[s].pc # "idle"
      PROVE  Known(server[s].guid, server[s].id, server[s].payload)'
  <2>1. server[s].guid \in Clients
    BY <1>2 DEF Types, WorkType, Idle
  <2>2. PICK g, i, m : g = server[s].guid /\ i = server[s].id /\ m = server[s].payload
    OBVIOUS
  <2>3. Known(g, i, m)'
    <3>1. g \in Clients /\ Known(g, i, m)
      BY <1>2, <2>1, <2>2 DEF KnownOK
    <3> QED BY <3>1
  <2>4. UNCHANGED server
    OBVIOUS
  <2> QED BY <2>2, <2>3, <2>4
<1>3. ASSUME NEW d \in Clients, NEW r \in responses[d]
      PROVE  Known(r.related_guid, Pack(r.related_sn), r.payload)'
  <2>1. r.related_guid \in Clients /\ Known(r.related_guid, Pack(r.related_sn), r.payload)
    BY DEF Types, ResponseType, KnownOK
  <2> QED BY <2>1
<1>4. ASSUME NEW d \in Clients, NEW a \in taken[d]
      PROVE  Known(a.guid, a.id, a.payload)'
  <2>1. a.guid \in Clients /\ Known(a.guid, a.id, a.payload)
    BY DEF Types, TakenType, KnownOK
  <2> QED BY <2>1
<1> QED BY <1>1, <1>2, <1>3, <1>4 DEF KnownOK

LEMMA SerializeKeeps ==
  ASSUME OwnBuffers, Types, RInv, NEW a \in Senders, NEW f \in {"publish", "request"},
         f = "publish" => a \in Publishers, f = "request" => a \in Clients, Serialize(a, f)
  PROVE  RInv'
<1> USE DEF RInv
<1>1. BuffersOK'
  BY SerializeBuffers
<1>2. UNCHANGED <<sequence, server, ids, changes, requests, responses, taken>>
  BY DEF Serialize
<1>3. /\ sender'[a].sent >= sender[a].sent
      /\ sender[a].pc = "idle" /\ sender'[a].pc # "number"
      /\ \A b \in Senders \ {a} : sender'[b] = sender[b]
  BY SerializeMoves DEF SendFunctions
<1>4. IdsOK'
  <2>1. \A b \in Senders : sender[b].sent \in Nat /\ sender'[b].sent \in Nat
    <3>1. Types'
      BY SerializeTypes DEF SendFunctions
    <3> QED BY <3>1, RequestsAssumption DEF Types, SenderType
  <2>2. ASSUME NEW c \in Clients, NEW n \in DOMAIN ids[c] PROVE n <= sender'[c].sent
    <3>1. n \in Nat /\ n <= sender[c].sent
      BY RequestsAssumption DEF IdsOK, Types
    <3>2. c \in Senders
      BY DEF Senders
    <3> QED BY <1>3, <2>1, <3>1, <3>2
  <2>3. \A c \in Clients : sender'[c].pc = "number" => sender'[c] = sender[c]
    BY <1>3 DEF Senders
  <2> QED BY <1>2, <2>2, <2>3 DEF IdsOK
<1>5. KnownOK'
  <2>1. ASSUME NEW g \in Clients, NEW i, NEW m, Known(g, i, m) PROVE Known(g, i, m)'
    <3>1. sender[g].pc = "number" => sender'[g] = sender[g]
      BY <1>3 DEF Senders
    <3> QED BY <1>2, <2>1, <3>1 DEF Known
  <2> QED BY <1>2, <2>1, KnownCarried
<1>6. PublishedIntact'
  BY <1>2 DEF PublishedIntact
<1> QED BY <1>1, <1>4, <1>5, <1>6

LEMMA NewMessageKeeps ==
  ASSUME OwnBuffers, Types, RInv, NEW p \in Publishers, NewMessage(p)
  PROVE  RInv'
<1> USE DEF RInv
<1>1. /\ p \in Senders /\ sender[p].pc = "change" /\ Sent(p)
      /\ UNCHANGED <<buffer, sequence, server, ids, requests, responses, taken>>
      /\ changes' = changes \cup {[writer |-> p, nr |-> sender[p].sent + 1,
                                   payload |-> buffer[Process[p]]["publish"]]}
  BY DEF NewMessage, Senders
<1>2. sender'[p].pc = "idle" /\ \A b \in Senders \ {p} : sender'[b] = sender[b]
  BY <1>1, SentMoves
<1>3. BuffersOK'
  <2>1. \A b \in Senders : sender'[b].pc = "change" => sender'[b] = sender[b]
    BY <1>2
  <2> QED BY <1>1, <2>1 DEF BuffersOK, Senders
<1>4. \A c \in Clients : sender'[c] = sender[c]
  BY <1>2, RequestsAssumption DEF Senders
<1>5. IdsOK'
  BY <1>1, <1>4 DEF IdsOK
<1>6. KnownOK'
  <2>1. ASSUME NEW g \in Clients, NEW i, NEW m, Known(g, i, m) PROVE Known(g, i, m)'
    BY <1>1, <1>4, <2>1 DEF Known
  <2> QED BY <1>1, <2>1, KnownCarried
<1>7. PublishedIntact'
  <2>1. buffer[Process[p]]["publish"] = <<p, sender[p].sent + 1>>
    BY <1>1 DEF BuffersOK
  <2> QED BY <1>1, <2>1 DEF PublishedIntact
<1> QED BY <1>3, <1>5, <1>6, <1>7

LEMMA NewRequestKeeps ==
  ASSUME OwnBuffers, Types, RInv, NEW c \in Clients, NewRequest(c)
  PROVE  RInv'
<1> USE DEF RInv
<1>1. /\ c \in Senders /\ sender[c].pc = "change"
      /\ UNCHANGED <<buffer, server, ids, changes, responses, taken>>
      /\ \A r \in requests' : r \in requests
            \/ r = [guid |-> c, sn |-> sequence[c], payload |-> buffer[Process[c]]["request"]]
  BY DEF NewRequest, Senders
<1>2. /\ sender'[c].pc = "number" /\ sender'[c].sn = sequence[c]
      /\ sender'[c].sent = sender[c].sent
      /\ \A b \in Senders \ {c} : sender'[b] = sender[b]
      /\ \A d \in Clients \ {c} : sequence'[d] = sequence[d]
      /\ sequence'[c] = NextNumber(sequence[c])
  BY NewRequestMoves
<1>3. Pack(sequence[c]) \in Nat /\ Pack(sequence'[c]) = Pack(sequence[c]) + 1
  BY <1>2, NextIsNext DEF Types
<1>4. BuffersOK'
  <2>1. \A b \in Senders : sender'[b].pc = "change" => sender'[b] = sender[b]
    BY <1>2
  <2> QED BY <1>1, <2>1 DEF BuffersOK, Senders
<1>5. IdsOK'
  <2>1. ASSUME NEW d \in Clients \ {c}
        PROVE  sender'[d] = sender[d] /\ sequence'[d] = sequence[d] /\ ids'[d] = ids[d]
    BY <1>1, <1>2 DEF Senders
  <2>2. PICK now, next : now = Pack(sequence[c]) /\ next = Pack(sequence'[c])
    OBVIOUS
  <2>3. \A n \in DOMAIN ids[c] : n <= sender[c].sent /\ ids[c][n] \in Nat /\ ids[c][n] < now
    BY <2>2 DEF IdsOK, Types
  <2>4. \A n \in DOMAIN ids[c] : ids[c][n] < next
    BY <1>3, <2>2, <2>3
  <2>5. Pack(sender'[c].sn) = now /\ now < next
    BY <1>2, <1>3, <2>2
  <2>6. /\ \A n \in DOMAIN ids'[c] : n <= sender'[c].sent /\ ids'[c][n] < Pack(sequence'[c])
        /\ Pack(sender'[c].sn) < Pack(sequence'[c])
        /\ \A n \in DOMAIN ids'[c] : ids'[c][n] < Pack(sender'[c].sn)
        /\ \A m, n \in DOMAIN ids'[c] : ids'[c][m] = ids'[c][n] => m = n
    BY <1>1, <1>2, <2>2, <2>3, <2>4, <2>5 DEF IdsOK
  <2> QED BY <2>1, <2>6 DEF IdsOK
<1>6. KnownOK'
  <2>1. ASSUME NEW g \in Clients, NEW i, NEW m, Known(g, i, m) PROVE Known(g, i, m)'
    <3>1. sender[g].pc = "number" => sender'[g] = sender[g]
      BY <1>1, <1>2 DEF Senders
    <3> QED BY <1>1, <2>1, <3>1 DEF Known
  <2>2. ASSUME NEW r \in requests' PROVE r \in requests \/ Known(r.guid, Pack(r.sn), r.payload)'
    <3>1. CASE r = [guid |-> c, sn |-> sequence[c], payload |-> buffer[Process[c]]["request"]]
      <4>1. buffer[Process[c]]["request"] = <<c, sender[c].sent + 1>>
        BY <1>1 DEF BuffersOK
      <4>2. r.guid = c /\ r.sn = sequence[c] /\ r.payload = <<c, sender[c].sent + 1>>
        BY <3>1, <4>1
      <4> QED BY <1>2, <4>2 DEF Known
    <3> QED BY <1>1, <3>1
  <2> QED BY <1>1, <2>1, <2>2, KnownCarried
<1>7. PublishedIntact'
  BY <1>1 DEF PublishedIntact
<1> QED BY <1>4, <1>5, <1>6, <1>7

LEMMA NumberRequestKeeps ==
  ASSUME OwnBuffers, Types, RInv, NEW c \in Clients, NumberRequest(c)
  PROVE  RInv'
<1> USE DEF RInv
<1>1. /\ c \in Senders /\ sender[c].pc = "number" /\ Sent(c)
      /\ UNCHANGED <<buffer, sequence, server, changes, requests, responses, taken>>
  BY DEF NumberRequest, Senders
<1>2. /\ sender'[c].pc = "idle" /\ sender'[c].sent = sender[c].sent + 1
      /\ \A b \in Senders \ {c} : sender'[b] = sender[b]
  BY <1>1, SentMoves
<1>3. PICK k, id, next : k = sender[c].sent + 1 /\ id = Pack(sender[c].sn) /\ next = Pack(sequence[c])
  OBVIOUS
<1>4. /\ \A n \in DOMAIN ids[c] : /\ n \in Nat /\ n < k
                                  /\ ids[c][n] \in Nat /\ ids[c][n] < id /\ ids[c][n] < next
      /\ k \in Nat /\ id \in Nat /\ id < next
  <2>1. \A n \in DOMAIN ids[c] : /\ n \in Nat /\ n <= sender[c].sent
                                 /\ ids[c][n] \in Nat /\ ids[c][n] < id /\ ids[c][n] < next
    BY <1>1, <1>3, RequestsAssumption DEF IdsOK, Types
  <2>2. sender[c].sent \in Nat /\ id \in Nat /\ id < next
    BY <1>1, <1>3, NextIsNext, RequestsAssumption DEF IdsOK, Types, SenderType
  <2> QED BY <1>3, <2>1, <2>2
<1>5. k \notin DOMAIN ids[c]
  BY <1>4
<1>6. /\ \A d \in Clients \ {c} : ids'[d] = ids[d]
      /\ DOMAIN ids'[c] = DOMAIN ids[c] \cup {k}
      /\ \A n \in DOMAIN ids[c] : ids'[c][n] = ids[c][n]
      /\ ids'[c][k] = id
  BY <1>3, <1>5, IdsAfterRequest
<1>7. BuffersOK'
  <2>1. \A b \in Senders : sender'[b].pc = "change" => sender'[b] = sender[b]
    BY <1>2
  <2> QED BY <1>1, <2>1 DEF BuffersOK, Senders
<1>8. IdsOK'
  <2>1. \A d \in Clients \ {c} : sender'[d] = sender[d] /\ sequence'[d] = sequence[d] /\ ids'[d] = ids[d]
    BY <1>1, <1>2, <1>6 DEF Senders
  <2>2. \A n \in DOMAIN ids'[c] : n <= sender'[c].sent /\ ids'[c][n] < next
    BY <1>2, <1>3, <1>4, <1>6
  <2>3. \A m, n \in DOMAIN ids'[c] : ids'[c][m] = ids'[c][n] => m = n
    <3>1. \A m, n \in DOMAIN ids[c] : ids[c][m] = ids[c][n] => m = n
      BY DEF IdsOK
    <3>2. \A n \in DOMAIN ids[c] : ids'[c][n] # ids'[c][k]
      BY <1>4, <1>6
    <3> QED BY <1>6, <3>1, <3>2
  <2>4. next = Pack(sequence'[c])
    BY <1>1, <1>3
  <2> QED BY <1>2, <2>1, <2>2, <2>3, <2>4 DEF IdsOK
<1>9. KnownOK'
  <2>1. ASSUME NEW g \in Clients, NEW i, NEW m, Known(g, i, m) PROVE Known(g, i, m)'
    <3>1. CASE g = c
      BY <1>3, <1>6, <2>1, <3>1 DEF Known
    <3>2. CASE g # c
      <4>1. sender'[g] = sender[g] /\ ids'[g] = ids[g]
        BY <1>2, <1>6, <3>2 DEF Senders
      <4> QED BY <2>1, <4>1 DEF Known
    <3> QED BY <3>1, <3>2
  <2> QED BY <1>1, <2>1, KnownCarried
<1>10. PublishedIntact'
  BY <1>1 DEF PublishedIntact
<1> QED BY <1>7, <1>8, <1>9, <1>10

LEMMA ServersKeep ==
  ASSUME OwnBuffers, Types, RInv, NEW s \in Servers,
         \/ \E r \in requests : TakeRequest(s, r)
         \/ SerializeResponse(s) \/ NewResponse(s)
  PROVE  RInv'
<1> USE DEF RInv
<1>1. UNCHANGED <<sequence, sender, ids, changes, taken>>
  BY DEF TakeRequest, SerializeResponse, NewResponse
<1>2. IdsOK' /\ PublishedIntact'
  BY <1>1 DEF IdsOK, PublishedIntact
<1>3. \A g, i, m : Known(g, i, m)' <=> Known(g, i, m)
  BY <1>1 DEF Known
<1>4. ASSUME NEW r \in requests, TakeRequest(s, r) PROVE BuffersOK' /\ KnownOK'
  <2>1. /\ server'[s] = [pc |-> "answer", guid |-> r.guid, id |-> Pack(r.sn), payload |-> r.payload]
        /\ \A u \in Servers \ {s} : server'[u] = server[u]
    BY <1>4, TakeRequestTypes
  <2>2. /\ server'[s].pc = "answer" /\ server'[s].guid = r.guid
        /\ server'[s].id = Pack(r.sn) /\ server'[s].payload = r.payload
    BY <2>1
  <2>3. /\ requests' \subseteq requests /\ UNCHANGED <<buffer, responses>>
        /\ Known(r.guid, Pack(r.sn), r.payload)
    BY <1>4 DEF TakeRequest, KnownOK
  <2>4. BuffersOK'
    BY <1>1, <2>1, <2>2, <2>3 DEF BuffersOK
  <2>5. ASSUME NEW u \in Servers, server'[u].pc # "idle"
        PROVE  Known(server[u].guid, server[u].id, server[u].payload)'
    <3>1. PICK g, i, m : g = server'[u].guid /\ i = server'[u].id /\ m = server'[u].payload
      OBVIOUS
    <3>2. CASE u = s
      BY <1>1, <2>2, <2>3, <3>2 DEF Known
    <3>3. CASE u # s
      <4>1. Known(g, i, m)
        BY <2>1, <2>5, <3>1, <3>3 DEF KnownOK
      <4> QED BY <1>1, <3>1, <4>1 DEF Known
    <3> QED BY <3>2, <3>3
  <2>6. KnownOK'
    BY <1>1, <1>3, <2>3, <2>5 DEF KnownOK
  <2> QED BY <2>4, <2>6
<1>5. CASE SerializeResponse(s)
  <2>1. /\ server[s].pc # "idle" /\ UNCHANGED <<requests, responses>>
        /\ \/ server'[s] = Idle
           \/ /\ server'[s].pc = "change" /\ server'[s].guid = server[s].guid
              /\ server'[s].id = server[s].id /\ server'[s].payload = server[s].payload
        /\ \A u \in Servers \ {s} : server'[u] = server[u]
    BY <1>5, SerializeResponseTypes DEF SerializeResponse
  <2>2. ASSUME NEW u \in Servers, server'[u].pc # "idle"
        PROVE  Known(server[u].guid, server[u].id, server[u].payload)'
    <3>1. PICK g, i, m : g = server'[u].guid /\ i = server'[u].id /\ m = server'[u].payload
      OBVIOUS
    <3>2. /\ server[u].pc # "idle"
          /\ g = server[u].guid /\ i = server[u].id /\ m = server[u].payload
      BY <2>1, <2>2, <3>1 DEF Idle
    <3>3. Known(g, i, m)
      BY <3>2 DEF KnownOK
    <3> QED BY <1>1, <3>1, <3>3 DEF Known
  <2>3. KnownOK'
    BY <1>1, <1>3, <2>1, <2>2 DEF KnownOK
  <2> QED BY <1>2, <1>5, <2>3, ResponseBuffers
<1>6. CASE NewResponse(s)
  <2>1. /\ server[s].pc = "change" /\ server'[s] = Idle
        /\ server[s] \in WorkType
        /\ \A u \in Servers \ {s} : server'[u] = server[u]
        /\ \A c \in Clients : \A r \in responses'[c] :
              \/ r \in responses[c]
              \/ /\ r.related_guid = server[s].guid
                 /\ r.related_sn = Unpack(server[s].id)
                 /\ r.payload = buffer[Process[s]]["response"]
        /\ UNCHANGED <<buffer, requests>>
    BY <1>6, NewResponseTypes DEF NewResponse
  <2>2. /\ Known(server[s].guid, server[s].id, server[s].payload)
        /\ buffer[Process[s]]["response"] = server[s].payload
        /\ Pack(Unpack(server[s].id)) = server[s].id
    BY <2>1, Halves DEF KnownOK, BuffersOK, WorkType
  <2>3. BuffersOK'
    BY <1>1, <2>1 DEF BuffersOK, Idle
  <2>4. ASSUME NEW u \in Servers, server'[u].pc # "idle"
        PROVE  Known(server[u].guid, server[u].id, server[u].payload)'
    <3>1. PICK g, i, m : g = server'[u].guid /\ i = server'[u].id /\ m = server'[u].payload
      OBVIOUS
    <3>2. /\ server[u].pc # "idle"
          /\ g = server[u].guid /\ i = server[u].id /\ m = server[u].payload
      BY <2>1, <2>4, <3>1 DEF Idle
    <3>3. Known(g, i, m)
      BY <3>2 DEF KnownOK
    <3> QED BY <1>1, <3>1, <3>3 DEF Known
  <2>5. ASSUME NEW c \in Clients, NEW r \in responses'[c]
        PROVE  Known(r.related_guid, Pack(r.related_sn), r.payload)'
    <3>1. Known(r.related_guid, Pack(r.related_sn), r.payload)
      BY <2>1, <2>2 DEF KnownOK
    <3> QED BY <1>1, <3>1 DEF Known
  <2>6. KnownOK'
    BY <1>1, <1>3, <2>1, <2>4, <2>5 DEF KnownOK
  <2> QED BY <1>2, <2>3, <2>6
<1> QED BY <1>2, <1>4, <1>5, <1>6

LEMMA TakeResponseKeeps ==
  ASSUME Types, RInv, NEW c \in Clients, NEW r \in responses[c], TakeResponse(c, r)
  PROVE  RInv'
<1> USE DEF RInv
<1>1. UNCHANGED <<buffer, sequence, sender, server, ids, changes, requests>>
  BY DEF TakeResponse
<1>2. BuffersOK' /\ IdsOK' /\ PublishedIntact'
  BY <1>1 DEF BuffersOK, IdsOK, PublishedIntact
<1>3. \A g, i, m : Known(g, i, m)' <=> Known(g, i, m)
  BY <1>1 DEF Known
<1>4. /\ \A d \in Clients : responses'[d] \subseteq responses[d]
      /\ \A d \in Clients : \A a \in taken'[d] :
            \/ a \in taken[d]
            \/ /\ d = c /\ a.guid = r.related_guid
               /\ a.id = Pack(r.related_sn) /\ a.payload = r.payload
  BY TakeResponseTypes
<1>5. ASSUME NEW d \in Clients, NEW a \in taken'[d] PROVE Known(a.guid, a.id, a.payload)
  <2>1. Known(r.related_guid, Pack(r.related_sn), r.payload)
    BY DEF KnownOK
  <2> QED BY <1>4, <2>1 DEF KnownOK
<1>6. KnownOK'
  BY <1>1, <1>3, <1>4, <1>5 DEF KnownOK
<1> QED BY <1>2, <1>6

LEMMA NextRInv ==
  ASSUME OwnBuffers, Types, RInv, [Next]_vars
  PROVE  RInv'
<1>1. CASE UNCHANGED vars
  BY <1>1 DEF vars, RInv, BuffersOK, IdsOK, KnownOK, Known, PublishedIntact
<1>2. ASSUME NEW p \in Publishers, SerializeMessage(p) \/ NewMessage(p) PROVE RInv'
  <2>1. p \in Senders
    BY DEF Senders
  <2> QED BY <1>2, <2>1, SerializeKeeps, NewMessageKeeps DEF SerializeMessage
<1>3. ASSUME NEW c \in Clients, \/ SerializeRequest(c) \/ NewRequest(c) \/ NumberRequest(c)
                                \/ \E r \in responses[c] : TakeResponse(c, r)
      PROVE RInv'
  <2>1. c \in Senders
    BY DEF Senders
  <2> QED BY <1>3, <2>1, SerializeKeeps, NewRequestKeeps, NumberRequestKeeps,
           TakeResponseKeeps DEF SerializeRequest
<1>4. ASSUME NEW s \in Servers, \/ \E r \in requests : TakeRequest(s, r)
                                \/ SerializeResponse(s) \/ NewResponse(s)
      PROVE RInv'
  BY <1>4, ServersKeep
<1> QED BY <1>1, <1>2, <1>3, <1>4 DEF Next

LEMMA AlwaysRInv == ASSUME OwnBuffers PROVE Spec => [](Types /\ RInv)
<1>1. Init => Types /\ RInv
  BY InitTypes
<1>2. Types /\ RInv /\ [Next]_vars => (Types /\ RInv)'
  BY NextTypes, NextRInv
<1> QED BY <1>1, <1>2, PTL DEF Spec

(* A response that comes with the guid of a client has a sequence_id which *)
(* this client gets for exactly one request, and is the response to that   *)
(* one: nothing that is lost, nor the order in which requests are answered *)
(* and responses taken, mixes them up, and no identity comes twice although *)
(* the lower half wraps (rmw_request.cpp:52-57, rmw_response.cpp:75).      *)
THEOREM AnswersAreMatched == ASSUME OwnBuffers PROVE Spec => []AnswersMatch
<1>1. Types /\ RInv => AnswersMatch
  <2> SUFFICES ASSUME Types, RInv, NEW c \in Clients, NEW a \in taken[c],
                      sender[a.guid].pc # "number"
               PROVE  \E n \in DOMAIN ids[a.guid] :
                         /\ \A m \in DOMAIN ids[a.guid] : ids[a.guid][m] = a.id <=> m = n
                         /\ a.payload = <<a.guid, n>>
    BY DEF AnswersMatch
  <2>1. a.guid \in Clients
    BY DEF Types, TakenType
  <2>2. PICK n \in DOMAIN ids[a.guid] : ids[a.guid][n] = a.id /\ a.payload = <<a.guid, n>>
    BY DEF RInv, KnownOK, Known
  <2>3. \A m \in DOMAIN ids[a.guid] : ids[a.guid][m] = a.id => m = n
    BY <2>1, <2>2 DEF RInv, IdsOK
  <2> QED BY <2>2, <2>3
<1> QED BY <1>1, AlwaysRInv, PTL

(* What a publisher's writer sends is what the publisher passed to         *)
(* rmw_publish, whatever clients and services of its process serialize     *)
(* between its own serialization and newChange (rmw_publish.cpp:65).       *)
THEOREM PublishedIsIntact == ASSUME OwnBuffers PROVE Spec => []PublishedIntact
<1>1. Types /\ RInv => PublishedIntact
  BY DEF RInv
<1> QED BY <1>1, AlwaysRInv, PTL
=============================================================================
