----------------------------- MODULE MCEndpoints -----------------------------
(***************************************************************************)
(* Instances of Endpoints for TLC.                                         *)
(***************************************************************************)
EXTENDS Endpoints

CONSTANTS t1, t2

\* No two threads create entities of one kind at the same time.
KindsApart == [t \in Threads |-> IF t = t1 THEN {"publisher", "service"}
                                           ELSE {"subscription", "client"}]

\* Both threads create what has its names in static arrays.
Messagers == [t \in Threads |-> {"publisher", "subscription"}]

\* Topics that fit with their suffix, without it, and not at all; the second
\* is what the first and its suffix are together.  Of the types of the first
\* one fits, but not with what a service adds, and the other is cut to it.
ThreeLengths == {[topic |-> <<"a">>, type |-> <<"T", "x">>],
                 [topic |-> <<"a">>, type |-> <<"T", "x", "y">>],
                 [topic |-> <<"a", "Request">>, type |-> <<"T">>],
                 [topic |-> <<"a", "b", "c">>, type |-> <<"T">>]}

TwoTopics == {[topic |-> <<x>>, type |-> <<"T">>] : x \in {"a", "b"}}
=============================================================================
