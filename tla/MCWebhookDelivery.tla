-------------------------- MODULE MCWebhookDelivery --------------------------
(* Instances of WebhookDelivery for TLC. One tick is about 30 seconds, and the
   24-hour windows are scaled down with the rest. *)
EXTENDS WebhookDelivery, TLC

CONSTANTS d1, d2, w1, w2, t1, t2, t3, ann, bob

TestAndRedelivery == (d1 :> "test") @@ (d2 :> "redelivery")
EventAndRedelivery == (d1 :> "event") @@ (d2 :> "redelivery")

OneRetry == <<1>>
TwoAndOne == (d1 :> 2) @@ (d2 :> 1)
ThreeEach == (d1 :> 3) @@ (d2 :> 3)

Symmetric == Permutations(Token) \cup Permutations(Worker)
=============================================================================
