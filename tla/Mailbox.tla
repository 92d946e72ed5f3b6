------------------------------- MODULE Mailbox -------------------------------
(***************************************************************************)
(* What the receive path promises to the entities of a node: a box per     *)
(* entity, all boxes sharing one capacity.  Messages are numbered in the   *)
(* order in which their callbacks start.  A message is refused only when   *)
(* every place is taken, it gets into the box of its addressee at most     *)
(* once, and an entity opens the newest message of its box.                *)
(***************************************************************************)
EXTENDS FiniteSetsExt, Integers, Sequences

CONSTANTS Entities, Capacity

VARIABLES
    to,         \* the addressee of each message
    incoming,   \* messages being copied in
    box,        \* the messages each entity may open
    opened      \* messages being read

mailVars == <<to, incoming, box, opened>>

Boxed == UNION {box[e] : e \in Entities}

Used == Cardinality(incoming) + Cardinality(opened) + Cardinality(Boxed)

MailInit ==
    /\ to = <<>>
    /\ incoming = {} /\ opened = {}
    /\ box = [e \in Entities |-> {}]

Arrive(e) ==
    /\ Used < Capacity
    /\ to' = Append(to, e)
    /\ incoming' = incoming \cup {Len(to) + 1}
    /\ UNCHANGED <<box, opened>>

TurnAway(e) ==
    /\ Used = Capacity
    /\ to' = Append(to, e)
    /\ UNCHANGED <<incoming, box, opened>>

Store(m) ==
    /\ m \in incoming
    /\ incoming' = incoming \ {m}
    /\ box' = [box EXCEPT ![to[m]] = @ \cup {m}]
    /\ UNCHANGED <<to, opened>>

(* A message that does not fit in an item. *)
Drop(m) ==
    /\ m \in incoming
    /\ incoming' = incoming \ {m}
    /\ UNCHANGED <<to, box, opened>>

Open(e) ==
    /\ box[e] # {}
    /\ box' = [box EXCEPT ![e] = @ \ {Max(@)}]
    /\ opened' = opened \cup {Max(box[e])}
    /\ UNCHANGED <<to, incoming>>

Close(m) ==
    /\ m \in opened
    /\ opened' = opened \ {m}
    /\ UNCHANGED <<to, incoming, box>>

MailNext ==
    \/ \E e \in Entities : Arrive(e) \/ TurnAway(e) \/ Open(e)
    \/ \E m \in incoming : Store(m) \/ Drop(m)
    \/ \E m \in opened : Close(m)

MailSpec == MailInit /\ [][MailNext]_mailVars
=============================================================================
