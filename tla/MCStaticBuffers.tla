--------------------------- MODULE MCStaticBuffers ---------------------------
(***************************************************************************)
(* Instances of StaticBuffers for TLC.                                     *)
(***************************************************************************)
EXTENDS StaticBuffers

CONSTANTS e1, e2, t1, t2

\* Each application thread takes from an entity of its own.
OwnEntity == [t \in Takers |-> IF t = t1 THEN {e1} ELSE {e2}]

\* Every application thread takes from every entity.
AllEntities == [t \in Takers |-> Entities]
=============================================================================
