------------------------------ MODULE MCRmwWait ------------------------------
(***************************************************************************)
(* Instances of RmwWait for TLC.                                           *)
(***************************************************************************)
EXTENDS RmwWait

CONSTANTS e1, e2, t1, t2

\* Each application thread waits for an entity of its own.
OwnEntity == [t \in Takers |-> IF t = t1 THEN {e1} ELSE {e2}]

\* Every application thread waits for every entity.
AllEntities == [t \in Takers |-> Entities]
=============================================================================
