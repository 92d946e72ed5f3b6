------------------------------ MODULE Requests ------------------------------
(***************************************************************************)
(* What is sent: rmw_publish, rmw_send_request and rmw_send_response, and  *)
(* how a response finds its request.  Each of the three functions has one  *)
(* static buffer, which every thread of the process serializes into and    *)
(* which no lock protects; newChange copies it into a writer's history.    *)
(* A request is known by the guid of the client's writer and the sequence  *)
(* number that newChange gave it.  The two halves of this number travel    *)
(* in the RTPS header and are one int64_t in the interface of rmw.         *)
(*                                                                         *)
(* Clients and publishers have a thread each; the service has the threads  *)
(* Servers.  Process says who shares static storage.  What happens between *)
(* the arrival of a message and its take is in StaticBuffers: here it may  *)
(* be lost, and a take may get any message that is there.                  *)
(***************************************************************************)
EXTENDS Integers, FiniteSets, Functions

CONSTANTS
    Clients, Servers, Publishers,
    Process,        \* the process of each of them
    MaxSent,        \* bound on the messages of each client and publisher
    Half            \* 2^32: the values of the lower half of a sequence number

ASSUME RequestsAssumption ==
    /\ DOMAIN Process = Clients \cup Servers \cup Publishers
    /\ Clients \cap Publishers = {}
    /\ MaxSent \in Nat /\ Half \in Nat \ {0, 1}

VARIABLES
    buffer,         \* the static buffers of each process
    sequence,       \* the next sequence number of each client's writer
    sender,         \* the sending function each client and publisher is in,
                    \* and the sequenceNumber of its last change
    server,         \* the request each thread of the service works on
    ids,            \* sequence_id as each client got it, by number of request
    changes,        \* what the publishers' writers sent
    requests,       \* requests that wait for a take
    responses,      \* responses that wait for a take, by client
    taken           \* what rmw_take_response gave each client

vars == <<buffer, sequence, sender, server, ids, changes, requests, responses, taken>>

SendFunctions == {"publish", "request", "response"}
Nothing == <<"nothing", 0>>
Senders == Clients \cup Publishers
Idle    == [pc |-> "idle", guid |-> "none", id |-> 0, payload |-> Nothing]

-----------------------------------------------------------------------------
(* Broken on purpose: the lower half is taken for a signed number. *)
PackSigned(sn) == sn.high * Half + (IF 2 * sn.low >= Half THEN sn.low - Half ELSE sn.low)

(* (int64_t) high << 32 | (int64_t) low *)
Pack(sn) == sn.high * Half + sn.low

(* Broken on purpose: an identity of 32 bits. *)
UnpackLow(id) == [high |-> 0, low |-> id % Half]

(* sequence_number >> 32 and sequence_number & 0xFFFFFFFF *)
Unpack(id) == [high |-> id \div Half, low |-> id % Half]

(* The numbers that a writer of embeddedRTPS gives to its changes. *)
FirstNumber == [high |-> 0, low |-> 1]
NextNumber(sn) ==
    IF sn.low + 1 = Half THEN [high |-> sn.high + 1, low |-> 0]
                         ELSE [sn EXCEPT !.low = @ + 1]

Write(actor, function, payload) ==
    buffer' = [buffer EXCEPT ![Process[actor]][function] = payload]

Init ==
    /\ buffer = [p \in Range(Process) |-> [f \in SendFunctions |-> Nothing]]
    /\ sequence = [c \in Clients |-> FirstNumber]
    /\ sender = [a \in Senders |-> [pc |-> "idle", sent |-> 0, sn |-> FirstNumber]]
    /\ server = [s \in Servers |-> Idle]
    /\ ids = [c \in Clients |-> <<>>]
    /\ changes = {} /\ requests = {}
    /\ responses = [c \in Clients |-> {}]
    /\ taken = [c \in Clients |-> {}]

-----------------------------------------------------------------------------
(* cdr_serialize writes the n-th message of a publisher or a client.  When *)
(* it fails the function returns RMW_RET_ERROR with the buffer overwritten. *)
Serialize(a, function) ==
    /\ sender[a].pc = "idle" /\ sender[a].sent < MaxSent
    /\ Write(a, function, <<a, sender[a].sent + 1>>)
    /\ \/ sender' = [sender EXCEPT ![a].pc = "change"]
       \/ sender' = [sender EXCEPT ![a].sent = @ + 1]
    /\ UNCHANGED <<sequence, server, ids, changes, requests, responses, taken>>

Sent(a) == sender' = [sender EXCEPT ![a].pc = "idle", ![a].sent = @ + 1]

SerializeMessage(p) == Serialize(p, "publish")

(* Broken on purpose: requests are built in the buffer of rmw_publish. *)
SerializeRequestShares(c) == Serialize(c, "publish")

SerializeRequest(c) == Serialize(c, "request")

(* writer->newChange(ALIVE, buffer, size) in rmw_publish *)
NewMessage(p) ==
    /\ sender[p].pc = "change"
    /\ changes' = changes \cup {[writer |-> p, nr |-> sender[p].sent + 1,
                                 payload |-> buffer[Process[p]].publish]}
    /\ Sent(p)
    /\ UNCHANGED <<buffer, sequence, server, ids, requests, responses, taken>>

(* newChange in rmw_send_request.  The request reaches the service or is   *)
(* lost.                                                                   *)
NewRequest(c) ==
    /\ sender[c].pc = "change"
    /\ sequence' = [sequence EXCEPT ![c] = NextNumber(@)]
    /\ \/ requests' = requests \cup {[guid |-> c, sn |-> sequence[c],
                                      payload |-> buffer[Process[c]].request]}
       \/ UNCHANGED requests
    /\ sender' = [sender EXCEPT ![c].pc = "number", ![c].sn = sequence[c]]
    /\ UNCHANGED <<buffer, server, ids, changes, responses, taken>>

(* *sequence_id = ..., when the request may have been answered already. *)
NumberRequest(c) ==
    /\ sender[c].pc = "number"
    /\ ids' = [ids EXCEPT ![c] = [n \in DOMAIN @ \cup {sender[c].sent + 1} |->
                  IF n \in DOMAIN @ THEN @[n] ELSE Pack(sender[c].sn)]]
    /\ Sent(c)
    /\ UNCHANGED <<buffer, sequence, server, changes, requests, responses, taken>>

-----------------------------------------------------------------------------
(* rmw_take_request by a thread of the service.  The guid is copied as 16  *)
(* bytes from the 12 of its prefix on, here and in rmw_send_response: that *)
(* this is the whole guid rests on the layout of rtps::Guid_t.             *)
TakeRequest(s, r) ==
    /\ server[s].pc = "idle"
    /\ requests' = requests \ {r}
    /\ server' = [server EXCEPT ![s] = [pc |-> "answer", guid |-> r.guid,
                                        id |-> Pack(r.sn), payload |-> r.payload]]
    /\ UNCHANGED <<buffer, sequence, sender, ids, changes, responses, taken>>

(* rmw_send_response: the response to a request is told by its payload.    *)
(* When cdr_serialize fails the request stays without a response.          *)
SerializeResponse(s) ==
    /\ server[s].pc = "answer"
    /\ Write(s, "response", server[s].payload)
    /\ \/ server' = [server EXCEPT ![s].pc = "change"]
       \/ server' = [server EXCEPT ![s] = Idle]
    /\ UNCHANGED <<sequence, sender, ids, changes, requests, responses, taken>>

(* newChange with related_guid and related_sequence_no.  The readers of    *)
(* all clients of the service are on the topic, so each client gets the    *)
(* response, or loses it.                                                  *)
NewResponse(s) ==
    /\ server[s].pc = "change"
    /\ \E reached \in SUBSET Clients :
          responses' = [c \in Clients |->
              IF c \in reached
              THEN responses[c] \cup {[related_guid |-> server[s].guid,
                                       related_sn |-> Unpack(server[s].id),
                                       payload |-> buffer[Process[s]].response]}
              ELSE responses[c]]
    /\ server' = [server EXCEPT ![s] = Idle]
    /\ UNCHANGED <<buffer, sequence, sender, ids, changes, requests, taken>>

(* rmw_take_response: any response to any client of the service. *)
TakeResponse(c, r) ==
    /\ sender[c].pc = "idle"
    /\ responses' = [responses EXCEPT ![c] = @ \ {r}]
    /\ taken' = [taken EXCEPT ![c] = @ \cup
          {[guid |-> r.related_guid, id |-> Pack(r.related_sn), payload |-> r.payload]}]
    /\ UNCHANGED <<buffer, sequence, sender, server, ids, changes, requests>>

Next ==
    \/ \E p \in Publishers : SerializeMessage(p) \/ NewMessage(p)
    \/ \E c \in Clients : \/ SerializeRequest(c) \/ NewRequest(c) \/ NumberRequest(c)
                          \/ \E r \in responses[c] : TakeResponse(c, r)
    \/ \E s \in Servers : \/ \E r \in requests : TakeRequest(s, r)
                          \/ SerializeResponse(s) \/ NewResponse(s)

Spec == Init /\ [][Next]_vars

-----------------------------------------------------------------------------
Payloads == {Nothing} \cup (Senders \X (1..MaxSent))
Numbers  == [high : Nat, low : 0..(Half - 1)]

(* The values the variables range over: a lower half has 32 bits. *)
TypeOK ==
    /\ buffer \in [Range(Process) -> [SendFunctions -> Payloads]]
    /\ sequence \in [Clients -> Numbers]
    /\ sender \in [Senders -> [pc : {"idle", "change", "number"}, sent : 0..MaxSent, sn : Numbers]]
    /\ server \in [Servers -> {Idle} \cup
                      [pc : {"answer", "change"}, guid : Clients,
                       id : Nat, payload : Payloads]]
    /\ \A c \in Clients : DOMAIN ids[c] \subseteq 1..MaxSent /\ Range(ids[c]) \subseteq Nat
    /\ changes \subseteq [writer : Publishers, nr : 1..MaxSent, payload : Payloads]
    /\ requests \subseteq [guid : Clients, sn : Numbers, payload : Payloads]
    /\ \A c \in Clients :
          /\ responses[c] \subseteq [related_guid : Clients, related_sn : Numbers,
                                      payload : Payloads]
          /\ taken[c] \subseteq [guid : Clients, id : Nat, payload : Payloads]

(* Whatever was lost and in whatever order, a response that comes with the *)
(* guid of a client has a sequence_id that this client gets from           *)
(* rmw_send_request for one request only, and is the response to that one, *)
(* also when it is there before rmw_send_request has returned.             *)
AnswersMatch ==
    \A c \in Clients : \A a \in taken[c] : sender[a.guid].pc # "number" =>
        \E n \in DOMAIN ids[a.guid] :
            /\ \A m \in DOMAIN ids[a.guid] : ids[a.guid][m] = a.id <=> m = n
            /\ a.payload = <<a.guid, n>>

(* A change holds the message that its publisher passed to rmw_publish,    *)
(* whatever clients and services of the same process send meanwhile.       *)
PublishedIntact == \A m \in changes : m.payload = <<m.writer, m.nr>>
=============================================================================
