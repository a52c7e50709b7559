-------------------------- MODULE AutomationHistory --------------------------
(***************************************************************************)
(* What the run history of automations promises (AM-5, AM-6, AM-8), with   *)
(* no workers, leases or depth of its own: the runs of an event are queued *)
(* once and started together, rules act in their order and none behind one *)
(* that stops the others, and a run ends as what it did, told of in the    *)
(* same step if its actions failed. A run that is given up may still act;  *)
(* what is shown of it is not changed by that.                             *)
(***************************************************************************)
EXTENDS Naturals

CONSTANTS
  Rule, Event,
  Position,    \* Rule -> place in the order
  Stops,       \* rules behind which no other acts once they have
  Actions      \* actions of a rule

VARIABLES
  run,         \* Rule -> Event -> "none", "pending", "running", or how it ended
  told,        \* the runs whose failure was told of
  acted        \* Rule -> Event -> actions executed

Init ==
  /\ run = [r \in Rule |-> [e \in Event |-> "none"]]
  /\ told = {}
  /\ acted = [r \in Rule |-> [e \in Event |-> 0]]

\* The rules that fire are queued. Of a chain that is cut, the rules that would
\* have fired are told, and it may be shown at others too.
Queue(e, rules, cut, shown) ==
  /\ \A r \in Rule : run[r][e] = "none"
  /\ cut \subseteq shown /\ rules \cap shown = {} /\ (shown # {} => cut # {})
  /\ run' = [r \in Rule |-> [run[r] EXCEPT ![e] =
               IF r \in rules THEN "pending" ELSE IF r \in shown THEN "failed" ELSE "none"]]
  /\ told' = told \cup {<<r, e>> : r \in cut}
  /\ UNCHANGED acted

Start(e) ==
  /\ \E r \in Rule : run[r][e] = "pending"
  /\ run' = [r \in Rule |-> [run[r] EXCEPT ![e] =
               IF run[r][e] = "pending" THEN "running" ELSE run[r][e]]]
  /\ UNCHANGED <<told, acted>>

\* Those before r are over and none of them stops the others; those behind it
\* have not begun.
Turn(r, e) ==
  \A s \in Rule :
    /\ Position[s] < Position[r] =>
         run[s][e] \notin {"pending", "running"} /\ (s \in Stops => acted[s][e] = 0)
    /\ Position[s] > Position[r] => acted[s][e] = 0

Act(r, e) ==
  /\ run[r][e] \in {"running", "abandoned"} /\ acted[r][e] < Actions /\ Turn(r, e)
  /\ acted' = [acted EXCEPT ![r] = [acted[r] EXCEPT ![e] = acted[r][e] + 1]]
  /\ UNCHANGED <<run, told>>

\* How a run may be shown that acted so often.
Ends(actions) ==
  (IF actions = 0 THEN {"unmatched", "skipped", "failed"} ELSE {})
    \cup (IF actions = Actions THEN {"done", "failed"} ELSE {})

End(r, e) ==
  /\ run[r][e] = "running"
  /\ \E end \in Ends(acted[r][e]) :
       /\ run' = [run EXCEPT ![r] = [run[r] EXCEPT ![e] = end]]
       /\ told' = IF end = "failed" /\ acted[r][e] > 0 THEN told \cup {<<r, e>>} ELSE told
  /\ UNCHANGED acted

GiveUp(events) ==
  /\ run' = [r \in Rule |-> [e \in Event |->
               IF e \in events /\ run[r][e] = "running" THEN "abandoned" ELSE run[r][e]]]
  /\ UNCHANGED <<told, acted>>

Next ==
  \/ \E e \in Event : \/ \E rules, cut, shown \in SUBSET Rule : Queue(e, rules, cut, shown)
                      \/ Start(e)
                      \/ \E r \in Rule : Act(r, e) \/ End(r, e)
  \/ \E events \in SUBSET Event : GiveUp(events)

Spec == Init /\ [][Next]_<<run, told, acted>>

=============================================================================
