----------------------- MODULE MCDestructiveRequests -----------------------
(* Instances of DestructiveRequests for TLC. *)
EXTENDS DestructiveRequests, TLC

CONSTANTS q1, q2, k1, h, item

SameHash == [q \in Request |-> h]
OneTarget == [a \in Action |-> item]
=============================================================================
