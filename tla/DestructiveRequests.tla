------------------------ MODULE DestructiveRequests ------------------------
(***************************************************************************)
(* A DELETE request from end to end: the idempotency middleware around the *)
(* handler that opens a pending action, retries with and without the key,  *)
(* and what the requester then makes of the action.                        *)
(***************************************************************************)
EXTENDS RequestIdempotency, PendingActions

CONSTANTS
  Prompt,      \* requests end within the lease of their reservation
  MaxFaults    \* bound on processes that die and statements that throw

VARIABLE faults

\* A request makes the id of the one action it may open; its 202 answer is
\* that id.
ASSUME OneActionEach == Request = Action /\ Body = Action /\ Prompt \in BOOLEAN /\ MaxFaults \in Nat

vars == <<keyVars, requestVars, pendingVars, faults>>

Init == IdempotencyInit /\ PendingInit /\ faults = 0

Fault == faults < MaxFaults /\ faults' = faults + 1

\* createPendingAction commits; it may still throw when it reads back what the
\* answer shows.
Open202(q) ==
  /\ Create(q)
  /\ \/ Handled(q, q) /\ UNCHANGED faults
     \/ Handled(q, "error") /\ Fault

Retry409(q) ==
  /\ Refused(q)
  /\ Handled(q, "error")
  /\ UNCHANGED faults

Handler(q) ==
  \/ Open202(q) \/ Retry409(q)
  \/ (Clash(q) \/ AskAgain(q)) /\ at[q] = "handler" /\ UNCHANGED <<keyVars, requestVars, faults>>

\* The clock waits for a prompt request before its lease ends.
OnTime == \A q \in Request : at[q] \in {"handler", "answer"} /\ Owns(q) => age[keyOf[q]] + 1 < InFlightLease

Tick ==
  /\ Prompt => OnTime
  /\ (\E k \in Key : row[k] # "none" /\ age[k] < ResponseTtl) \/ (\E a \in Action : left[a] > 0)
  /\ AgeTick /\ PendingTick
  /\ UNCHANGED <<row, token, stored, lapsed, requestVars, state, seen, asking, failing, hadLost, worldVars, faults>>

Serve(q) ==
  \/ Handler(q)
  \/ AnswerKey(q) /\ UNCHANGED <<pendingVars, faults>>

Breaks(q) ==
  \/ (Unstored(q) \/ Die(q)) /\ Fault /\ UNCHANGED pendingVars
  \/ (ApproveFails(q) \/ ForgetFailure(q)) /\ Fault /\ UNCHANGED <<keyVars, requestVars>>

Next ==
  \/ \E q \in Request : Serve(q) \/ Breaks(q)
  \/ Purge /\ UNCHANGED <<pendingVars, faults>>
  \/ \E a \in Action : Settle(a) /\ UNCHANGED <<keyVars, requestVars, faults>>
  \/ (Expire \/ World) /\ UNCHANGED <<keyVars, requestVars, faults>>
  \/ Tick

Spec == Init /\ [][Next]_vars

Fairness ==
  /\ WF_vars(Tick)
  /\ WF_vars(Expire /\ UNCHANGED <<keyVars, requestVars, faults>>)
  /\ \A q \in Request : WF_vars(Serve(q))

FairSpec == Spec /\ Fairness

-----------------------------------------------------------------------------
(* Properties *)

TypeOK == IdempotencyTypeOK /\ PendingTypeOK

\* "A repeat returns the original response": as long as no reservation or
\* answer of a key has run out, all the 202 answers given under the key name
\* one action, which was opened (docs/technical/safety-and-runtime.md:938).
RepeatsAgree ==
  \A q, s \in Request :
    /\ reply[q] \in Body => state[reply[q]] # "none"
    /\ keyOf[q] = keyOf[s] /\ keyOf[q] \in Key \ lapsed /\ reply[q] \in Body /\ reply[s] \in Body
         => reply[q] = reply[s]

\* Neither loop of a request (take over or look, insert or look) keeps it from
\* an answer, and every action comes to an end, by the expiry job at the latest.
EverythingEnds ==
  <>[](/\ \A q \in Request : at[q] = "over"
       /\ \A a \in Action : state[a] # "pending")

=============================================================================
