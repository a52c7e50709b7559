------------------------- MODULE RequestIdempotency -------------------------
(***************************************************************************)
(* Idempotency keys (middleware/idempotency.ts and its repository): a key  *)
(* is reserved for a short lease before the handler runs, the reservation  *)
(* is fenced by a token, and a 2xx answer is stored in it and replayed. A  *)
(* reservation is never extended, and one that expired may be taken over.  *)
(* The handler is left open: a module that extends this one moves a        *)
(* request from "handler" to "answer" with Handled.                        *)
(***************************************************************************)
EXTENDS Naturals

CONSTANTS
  Request,        \* requests; the token of a reservation is made for a request
  Key, NoKey,
  HashOf,         \* Request -> route and request hash
  Body,           \* bodies of 2xx answers
  Nobody, NoReply,
  InFlightLease, \* IDEMPOTENCY_IN_FLIGHT_LEASE_MS, in ticks
  ResponseTtl     \* IDEMPOTENCY_RESPONSE_TTL_MS, in ticks

Refusals == {"conflict", "mismatch", "error"}

ASSUME IdempotencyAssumption ==
  /\ NoKey \notin Key
  /\ Nobody \notin Request
  /\ Body \cap Refusals = {} /\ NoReply \notin Body \cup Refusals
  /\ InFlightLease \in Nat \ {0} /\ ResponseTtl \in Nat
  /\ InFlightLease <= ResponseTtl

VARIABLES
  row,      \* Key -> idempotency_key.state, "none" without a row
  token,    \* Key -> id of the row: the request that reserved it
  stored,   \* Key -> response_body
  age,      \* Key -> ticks since created_at, up to ResponseTtl
  keyOf,    \* Request -> the Idempotency-Key its caller sent, or NoKey
  at,       \* Request -> position
  retried,  \* requests whose reserve is in its second attempt
  reply,    \* Request -> the answer of its handler, then of the middleware
  lapsed    \* history: keys a reservation or answer of which expired and was replaced

keyVars == <<row, token, stored, age, lapsed>>
requestVars == <<keyOf, at, retried, reply>>

Positions == {"new", "look", "handler", "answer", "over"}

IdempotencyInit ==
  /\ row = [k \in Key |-> "none"]
  /\ token = [k \in Key |-> Nobody]
  /\ stored = [k \in Key |-> NoReply]
  /\ age = [k \in Key |-> 0]
  /\ keyOf \in [Request -> Key \cup {NoKey}]
  /\ at = [q \in Request |-> "new"]
  /\ retried = {}
  /\ reply = [q \in Request |-> NoReply]
  /\ lapsed = {}

-----------------------------------------------------------------------------

\* expires_at against the database clock; complete sets it to created_at + ttl.
Expired(k) == age[k] >= (IF row[k] = "done" THEN ResponseTtl ELSE InFlightLease)

RunOut == {k \in Key : row[k] # "none" /\ Expired(k)}

LiveInFlight(k) == row[k] = "in_flight" /\ ~ Expired(k)

Live(k) == row[k] # "none" /\ ~ Expired(k)

OwnsAnyToken(q) == LET k == keyOf[q] IN k \in Key /\ row[k] = "in_flight"

Owns(q) ==
  LET k == keyOf[q] IN k \in Key /\ row[k] = "in_flight" /\ token[k] = q

Answered(q, answer) ==
  /\ reply' = [reply EXCEPT ![q] = answer]
  /\ at' = [at EXCEPT ![q] = "over"]

\* A request without a key goes straight to its handler.
Unkeyed(q) ==
  /\ at[q] = "new" /\ keyOf[q] = NoKey
  /\ at' = [at EXCEPT ![q] = "handler"]
  /\ UNCHANGED <<keyVars, keyOf, retried, reply>>

\* reserve's upsert: the row is new, or expired and replaced with its token.
Reserve(q) ==
  LET k == keyOf[q]
  IN  /\ at[q] = "new" /\ k \in Key
      /\ IF Live(k)
         THEN at' = [at EXCEPT ![q] = "look"] /\ UNCHANGED keyVars
         ELSE /\ row' = [row EXCEPT ![k] = "in_flight"]
              /\ token' = [token EXCEPT ![k] = q]
              /\ stored' = [stored EXCEPT ![k] = NoReply]
              /\ age' = [age EXCEPT ![k] = 0]
              /\ lapsed' = lapsed \cup (RunOut \cap {k})
              /\ at' = [at EXCEPT ![q] = "handler"]
      /\ UNCHANGED <<keyOf, retried, reply>>

\* What the row that was in the way says; it may have run out or gone by now,
\* and then the reservation is tried once more.
Look(q) ==
  LET k == keyOf[q]
  IN  /\ at[q] = "look"
      /\ \/ /\ Live(k)
            /\ Answered(q,
                 IF HashOf[token[k]] # HashOf[q] THEN "mismatch"
                 ELSE IF row[k] = "done" THEN stored[k] ELSE "conflict")
            /\ UNCHANGED retried
         \/ /\ ~ Live(k) /\ q \in retried
            /\ Answered(q, "conflict")
            /\ UNCHANGED retried
         \/ /\ ~ Live(k) /\ q \notin retried
            /\ retried' = retried \cup {q}
            /\ at' = [at EXCEPT ![q] = "new"]
            /\ UNCHANGED reply
      /\ UNCHANGED <<keyVars, keyOf>>

\* The handler has come to an answer; a request without a key is over with it.
Handled(q, answer) ==
  /\ at[q] = "handler"
  /\ reply' = [reply EXCEPT ![q] = answer]
  /\ at' = [at EXCEPT ![q] = IF keyOf[q] = NoKey THEN "over" ELSE "answer"]
  /\ UNCHANGED <<keyVars, keyOf, retried>>

\* A 2xx answer is stored, in the reservation that is still the request's own.
Complete(q) ==
  LET k == keyOf[q]
  IN  /\ at[q] = "answer" /\ reply[q] \in Body
      /\ IF Owns(q)
         THEN /\ row' = [row EXCEPT ![k] = "done"]
              /\ stored' = [stored EXCEPT ![k] = reply[q]]
         ELSE UNCHANGED <<row, stored>>
      /\ Answered(q, reply[q])
      /\ UNCHANGED <<token, age, lapsed, keyOf, retried>>

\* The rows of these keys are deleted.
Delete(keys) ==
  /\ row' = [k \in Key |-> IF k \in keys THEN "none" ELSE row[k]]
  /\ token' = [k \in Key |-> IF k \in keys THEN Nobody ELSE token[k]]
  /\ stored' = [k \in Key |-> IF k \in keys THEN NoReply ELSE stored[k]]
  /\ age' = [k \in Key |-> IF k \in keys THEN 0 ELSE age[k]]

\* Any other answer gives the key back.
Release(q) ==
  /\ at[q] = "answer" /\ reply[q] \notin Body
  /\ Delete({k \in Key : k = keyOf[q] /\ Owns(q)})
  /\ Answered(q, reply[q])
  /\ UNCHANGED <<lapsed, keyOf, retried>>

\* complete or release fails: the reservation is left to its lease.
Unstored(q) ==
  /\ at[q] = "answer"
  /\ Answered(q, reply[q])
  /\ UNCHANGED <<keyVars, keyOf, retried>>

\* The process dies, and the caller gets no answer.
Die(q) ==
  /\ at[q] \in {"look", "handler", "answer"}
  /\ Answered(q, NoReply)
  /\ UNCHANGED <<keyVars, keyOf, retried>>

\* deleteExpiredIdempotencyKeys (scheduler/session-cleanup.ts)
Purge ==
  /\ RunOut # {} /\ Delete(RunOut)
  /\ lapsed' = lapsed \cup RunOut
  /\ UNCHANGED requestVars

AgeTick ==
  age' = [k \in Key |-> IF row[k] = "none" \/ age[k] = ResponseTtl THEN age[k] ELSE age[k] + 1]

AnswerKey(q) == Unkeyed(q) \/ Reserve(q) \/ Look(q) \/ Complete(q) \/ Release(q)

-----------------------------------------------------------------------------
(* Properties *)

\* Types, and what a row is: a request's own, with an answer when it is done.
IdempotencyTypeOK ==
  /\ row \in [Key -> {"none", "in_flight", "done"}]
  /\ token \in [Key -> Request \cup {Nobody}]
  /\ stored \in [Key -> Body \cup {NoReply}]
  /\ age \in [Key -> 0 .. ResponseTtl]
  /\ keyOf \in [Request -> Key \cup {NoKey}]
  /\ at \in [Request -> Positions] /\ retried \subseteq Request
  /\ reply \in [Request -> Body \cup Refusals \cup {NoReply}]
  /\ lapsed \subseteq Key
  /\ \A k \in Key :
       /\ row[k] # "none" => token[k] \in Request /\ keyOf[token[k]] = k
       /\ row[k] = "done" <=> stored[k] \in Body

\* The answer a key keeps is the one its own reservation's request gave: a
\* request that outlived its lease does not put its answer in the place of the
\* one that took over (the token and state in complete's condition).
StoredAnswerIsTheHolders ==
  \A k \in Key : row[k] = "done" =>
    /\ token[k] \in Request /\ keyOf[token[k]] = k
    /\ stored[k] \in Body /\ reply[token[k]] = stored[k]

=============================================================================
