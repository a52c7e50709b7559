---------------------------- MODULE WebhookLedger ----------------------------
(***************************************************************************)
(* What a webhook's delivery log promises (WH-4, WH-8), with no workers,   *)
(* leases or clock of its own: every try is counted, its answer is         *)
(* recorded once at most and never over an outcome, a delivery is dead     *)
(* when its tries are used up and not before, one that is not sent has its *)
(* try back, and a body that got an answer is the one sent from then on.   *)
(***************************************************************************)
EXTENDS Naturals

CONSTANTS
  Delivery,
  Body, NoBody,
  Limit        \* tries a delivery is given

VARIABLES
  state,       \* Delivery -> "none", "pending", how it ended, or "gone"
  attempt,     \* Delivery -> tries counted
  open,        \* Delivery -> whether its last try may still be recorded
  body         \* Delivery -> what is sent, once that is settled

Ends == {"delivered", "dead", "cancelled", "skipped_out_of_reach"}

Init ==
  /\ state = [d \in Delivery |-> "none"]
  /\ attempt = [d \in Delivery |-> 0]
  /\ open = [d \in Delivery |-> FALSE]
  /\ body = [d \in Delivery |-> NoBody]

Queue(d) ==
  /\ state[d] = "none"
  /\ state' = [state EXCEPT ![d] = "pending"]
  /\ \E b \in Body \cup {NoBody} : body' = [body EXCEPT ![d] = b]
  /\ UNCHANGED <<attempt, open>>

\* A try supersedes one that was not recorded.
Try(d) ==
  /\ state[d] = "pending"
  /\ attempt' = [attempt EXCEPT ![d] = attempt[d] + 1]
  /\ open' = [open EXCEPT ![d] = TRUE]
  /\ UNCHANGED <<state, body>>

\* The answer to a try is known. What was sent is what is sent from now on.
Answered(d) ==
  /\ state[d] = "pending" /\ open[d]
  /\ open' = [open EXCEPT ![d] = FALSE]
  /\ \E b \in Body : body[d] \in {NoBody, b} /\ body' = [body EXCEPT ![d] = b]
  /\ \E s \in {"delivered", IF attempt[d] < Limit THEN "pending" ELSE "dead"} :
       state' = [state EXCEPT ![d] = s]
  /\ UNCHANGED attempt

\* The try ended before anything was sent, and with it the delivery. A body that
\* nobody may see is not kept.
Withheld(d) ==
  /\ state[d] = "pending" /\ open[d]
  /\ open' = [open EXCEPT ![d] = FALSE]
  /\ attempt' = [attempt EXCEPT ![d] = attempt[d] - 1]
  /\ \/ state' = [state EXCEPT ![d] = "cancelled"] /\ UNCHANGED body
     \/ /\ state' = [state EXCEPT ![d] = "skipped_out_of_reach"]
        /\ body' = [body EXCEPT ![d] = NoBody]

\* What is over is purged in time, and everything goes with the webhook.
Forget(ds) ==
  /\ ds = Delivery \/ \A d \in ds : state[d] \in Ends
  /\ state' = [d \in Delivery |-> IF d \in ds THEN "gone" ELSE state[d]]
  /\ attempt' = [d \in Delivery |-> IF d \in ds THEN 0 ELSE attempt[d]]
  /\ open' = [d \in Delivery |-> d \notin ds /\ open[d]]
  /\ body' = [d \in Delivery |-> IF d \in ds THEN NoBody ELSE body[d]]

Next ==
  \/ \E d \in Delivery : Queue(d) \/ Try(d) \/ Answered(d) \/ Withheld(d)
  \/ \E ds \in SUBSET Delivery : Forget(ds)

Spec == Init /\ [][Next]_<<state, attempt, open, body>>

=============================================================================
