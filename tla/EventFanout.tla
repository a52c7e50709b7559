----------------------------- MODULE EventFanout -----------------------------
(***************************************************************************)
(* What the parent outbox promises (EV-1, EV-2): a domain event is handed  *)
(* to all of its consumers at once, the first time it is delivered, or to  *)
(* none of them while it is pending or dead.                               *)
(***************************************************************************)
CONSTANTS
  Event,
  Wanted      \* the <<consumer, event>> pairs a consumer handles

VARIABLES
  status,     \* Event -> "unwritten", "pending", "delivered" or "dead"
  enqueued    \* the work queued for consumers, <<consumer, event>> pairs

Of(e) == {pair \in Wanted : pair[2] = e}

Init ==
  /\ status = [e \in Event |-> "unwritten"]
  /\ enqueued = {}

Write(e) ==
  /\ status[e] = "unwritten"
  /\ status' = [status EXCEPT ![e] = "pending"]
  /\ UNCHANGED enqueued

Deliver(e) ==
  /\ status[e] = "pending"
  /\ status' = [status EXCEPT ![e] = "delivered"]
  /\ enqueued' = enqueued \cup Of(e)

GiveUp(e) ==
  /\ status[e] = "pending"
  /\ status' = [status EXCEPT ![e] = "dead"]
  /\ UNCHANGED enqueued

Requeue(e) ==
  /\ status[e] = "dead"
  /\ status' = [status EXCEPT ![e] = "pending"]
  /\ UNCHANGED enqueued

Next == \E e \in Event : Write(e) \/ Deliver(e) \/ GiveUp(e) \/ Requeue(e)

Spec == Init /\ [][Next]_<<status, enqueued>>

=============================================================================
