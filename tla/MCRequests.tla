----------------------------- MODULE MCRequests -----------------------------
(***************************************************************************)
(* Instances of Requests for TLC.                                          *)
(***************************************************************************)
EXTENDS Requests

CONSTANTS c1, c2, s1, p1

\* One process has a client, the service and a publisher; the other a client.
TwoProcesses == [a \in Clients \cup Servers \cup Publishers |->
                    IF a = c2 THEN "remote" ELSE "local"]
=============================================================================
