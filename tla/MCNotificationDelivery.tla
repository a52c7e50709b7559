----------------------- MODULE MCNotificationDelivery -----------------------
(* Instances of NotificationDelivery for TLC. One tick is about 15 seconds. *)
EXTENDS NotificationDelivery, TLC

CONSTANTS d1, d2, d3, w1, w2, t1, t2, t3, k1, p1, p2

\* Two deliveries of one triple, the case the reservation exists for.
TwinDelivery == {d1, d2}
TwinDedupe == {p1}
TwinDedupeOf == (d1 :> p1) @@ (d2 :> p1)
TwinKeyOf == (p1 :> k1)

\* With a third delivery whose triple hashes to the same key.
CollidingDelivery == {d1, d2, d3}
CollidingDedupe == {p1, p2}
CollidingDedupeOf == (d1 :> p1) @@ (d2 :> p1) @@ (d3 :> p2)
CollidingKeyOf == (p1 :> k1) @@ (p2 :> k1)

OneRetry == <<2>>
NoRetry == <<>>

Symmetric == Permutations({t1, t2, t3}) \cup Permutations({w1, w2})
=============================================================================
