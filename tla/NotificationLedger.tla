------------------------- MODULE NotificationLedger -------------------------
(***************************************************************************)
(* What the drain promises of immediate notifications (NO-9, NO-11), with  *)
(* no workers, leases or clock of its own: an attempt is counted before it *)
(* is made, a delivery is only recorded after one and only if no twin was  *)
(* delivered within the window, it is given up when its attempts are used  *)
(* up and not before, and what is delivered or suppressed stays so.        *)
(***************************************************************************)
EXTENDS Naturals

CONSTANTS
  Delivery,
  DedupeOf,    \* Delivery -> what it tells whom by which channel
  Limit,       \* attempts a delivery is given
  Window       \* how long a delivered twin keeps others back

VARIABLES
  state,       \* Delivery -> "pending", "delivered", "suppressed" or "dead"
  attempts,    \* Delivery -> attempts counted
  recent       \* Delivery -> what is left of the window it was delivered in

Init ==
  /\ state = [d \in Delivery |-> "pending"]
  /\ attempts = [d \in Delivery |-> 0]
  /\ recent = [d \in Delivery |-> 0]

Attempt(d) ==
  /\ state[d] = "pending" /\ attempts[d] < Limit
  /\ attempts' = [attempts EXCEPT ![d] = @ + 1]
  /\ UNCHANGED <<state, recent>>

Deliver(d) ==
  /\ state[d] = "pending" /\ attempts[d] >= 1
  /\ \A e \in Delivery \ {d} : DedupeOf[e] = DedupeOf[d] => recent[e] = 0
  /\ state' = [state EXCEPT ![d] = "delivered"]
  /\ recent' = [recent EXCEPT ![d] = Window]
  /\ UNCHANGED attempts

Suppress(d) ==
  /\ state[d] = "pending"
  /\ state' = [state EXCEPT ![d] = "suppressed"]
  /\ UNCHANGED <<attempts, recent>>

GiveUp(d) ==
  /\ state[d] = "pending" /\ attempts[d] = Limit
  /\ state' = [state EXCEPT ![d] = "dead"]
  /\ UNCHANGED <<attempts, recent>>

Requeue(d) ==
  /\ state[d] = "dead"
  /\ state' = [state EXCEPT ![d] = "pending"]
  /\ attempts' = [attempts EXCEPT ![d] = 0]
  /\ recent' = [recent EXCEPT ![d] = 0]

Age ==
  /\ recent' = [d \in Delivery |-> IF recent[d] = 0 THEN 0 ELSE recent[d] - 1]
  /\ UNCHANGED <<state, attempts>>

Next ==
  \/ \E d \in Delivery : Attempt(d) \/ Deliver(d) \/ Suppress(d) \/ GiveUp(d) \/ Requeue(d)
  \/ Age

Spec == Init /\ [][Next]_<<state, attempts, recent>>

=============================================================================
