---------------------- MODULE DestructiveRequestsProofs ----------------------
(* Types and safety of DestructiveRequests: whose answer a key keeps, what     *)
(* repeats are told, what becomes of the actions, and when the requests of a   *)
(* key work one at a time.                                                     *)
EXTENDS DestructiveRequests, TLAPS

KeysTyped ==
  /\ row \in [Key -> {"none", "in_flight", "done"}] /\ token \in [Key -> Request \cup {Nobody}]
  /\ stored \in [Key -> Body \cup {NoReply}] /\ age \in [Key -> 0 .. ResponseTtl]
  /\ lapsed \subseteq Key

RequestsTyped ==
  /\ keyOf \in [Request -> Key \cup {NoKey}] /\ at \in [Request -> Positions]
  /\ retried \subseteq Request /\ reply \in [Request -> Body \cup Refusals \cup {NoReply}]
  /\ \A q \in Request : at[q] = "look" => keyOf[q] \in Key

\* A row is a request's own; the answer in it is the one that request is over with.
Held ==
  \A k \in Key :
    /\ row[k] # "none" => token[k] \in Request /\ keyOf[token[k]] = k
    /\ row[k] = "done" <=> stored[k] \in Body
    /\ row[k] = "done" => at[token[k]] = "over" /\ reply[token[k]] = stored[k]

\* While nothing of a key has run out, one request at a time works under it, and
\* one that has an action to answer with keeps the row.
Undivided ==
  \A q \in Request : keyOf[q] \in Key \ lapsed =>
    /\ at[q] \in {"handler", "answer"} => row[keyOf[q]] = "in_flight" /\ token[keyOf[q]] = q
    /\ reply[q] \in Body =>
         /\ row[keyOf[q]] # "none"
         /\ row[keyOf[q]] = "done" => stored[keyOf[q]] = reply[q]
         /\ row[keyOf[q]] = "in_flight" => token[keyOf[q]] = q

Keyed == KeysTyped /\ RequestsTyped /\ Held /\ Undivided

ActionsTyped ==
  /\ state \in [Action -> Ended \cup {"none", "pending"}]
  /\ seen \in [Action -> 0 .. MaxChanges] /\ left \in [Action -> 0 .. ActionTtl]
  /\ asking \in [Action -> {"ask", "clash", "again", "clashed"}]
  /\ failing \subseteq Action /\ hadLost \subseteq Action

WorldTyped ==
  /\ live \subseteq Target /\ access \in BOOLEAN /\ active \in BOOLEAN
  /\ changes \in 0 .. MaxChanges
  /\ version \in [Target -> Nat] /\ \A t \in Target : version[t] <= changes

OnePending ==
  \A a, b \in Action :
    state[a] = "pending" /\ state[b] = "pending" /\ TargetOf[a] = TargetOf[b] => a = b

Actions == ActionsTyped /\ WorldTyped /\ OnePending /\ DeletedOnceAsShown

\* A request opens its action when it is handled, and no answer names another
\* action than one that was opened.
Opened ==
  \A q \in Request :
    /\ at[q] \in {"new", "look", "handler"} => state[q] = "none"
    /\ reply[q] \in Body => state[reply[q]] # "none"

IInv == Keyed /\ Actions /\ Opened

\* What EndIsFinal says of a step.
EndsStay == \A a \in Action : state[a] \in Ended => state'[a] = state[a]

Assumptions == IdempotencyAssumption /\ PendingAssumption /\ OneActionEach

\* The invariant gives the types of both parts.
LEMMA InvTyped == Assumptions /\ IInv => TypeOK
<1> SUFFICES ASSUME Assumptions, IInv PROVE TypeOK
  OBVIOUS
<1>1. IdempotencyTypeOK
  BY DEF IInv, Keyed, KeysTyped, RequestsTyped, Held, IdempotencyTypeOK
<1>2. version \in [Target -> 0 .. MaxChanges]
  BY DEF IInv, Actions, WorldTyped, Assumptions, PendingAssumption
<1>3. PendingTypeOK
  BY <1>2 DEF IInv, Actions, ActionsTyped, WorldTyped, OnePending, PendingTypeOK
<1> QED
  BY <1>1, <1>3 DEF TypeOK

\* The invariant gives what callers are promised.
LEMMA InvPromises ==
  ASSUME Assumptions, IInv
  PROVE  StoredAnswerIsTheHolders /\ RepeatsAgree
<1>1. StoredAnswerIsTheHolders
  BY DEF IInv, Keyed, Held, StoredAnswerIsTheHolders
<1>2. RepeatsAgree
  <2> SUFFICES ASSUME NEW q \in Request, NEW s \in Request
               PROVE  /\ reply[q] \in Body => state[reply[q]] # "none"
                      /\ keyOf[q] = keyOf[s] /\ keyOf[q] \in Key \ lapsed /\ reply[q] \in Body
                         /\ reply[s] \in Body => reply[q] = reply[s]
    BY DEF RepeatsAgree
  <2>1. reply[q] \in Body => state[reply[q]] # "none"
    BY DEF IInv, Opened
  <2>2. ASSUME keyOf[q] = keyOf[s], keyOf[q] \in Key \ lapsed, reply[q] \in Body, reply[s] \in Body
        PROVE  reply[q] = reply[s]
    <3>1. row[keyOf[q]] \in {"in_flight", "done"}
      BY <2>2 DEF IInv, Keyed, Undivided, KeysTyped
    <3>2. CASE row[keyOf[q]] = "done"
      BY <2>2, <3>2 DEF IInv, Keyed, Undivided
    <3>3. CASE row[keyOf[q]] = "in_flight"
      BY <2>2, <3>3 DEF IInv, Keyed, Undivided
    <3> QED
      BY <3>1, <3>2, <3>3
  <2> QED
    BY <2>1, <2>2
<1> QED
  BY <1>1, <1>2

-----------------------------------------------------------------------------
(* The keys *)

\* What a step of the middleware leaves of the handler's part: no answer that
\* was not given, no request back before its handler.
Passes ==
  \A q \in Request :
    /\ at'[q] \in {"new", "look", "handler"} => at[q] \in {"new", "look", "handler"}
    /\ reply'[q] \in Body => \E s \in Request : reply'[q] = reply[s]

\* Going to the handler without a key, or being tried again, touches no row.
LEMMA UnkeyedKeeps ==
  ASSUME Assumptions, Keyed, NEW q \in Request, Unkeyed(q)
  PROVE  Keyed' /\ Passes
<1> USE DEF Unkeyed, keyVars
<1>1. at' = [at EXCEPT ![q] = "handler"] /\ at[q] = "new" /\ keyOf[q] \notin Key
  BY DEF Assumptions, IdempotencyAssumption
<1>2. KeysTyped' /\ RequestsTyped'
  BY <1>1 DEF Keyed, KeysTyped, RequestsTyped, Positions
<1>3. Held'
  BY <1>1 DEF Keyed, Held, RequestsTyped
<1>4. Undivided'
  BY <1>1 DEF Keyed, Undivided, RequestsTyped
<1>5. Passes
  BY <1>1 DEF Keyed, Passes, RequestsTyped
<1> QED
  BY <1>2, <1>3, <1>4, <1>5 DEF Keyed

\* A reservation takes a row that is not there, or one that has run out: then
\* the key has lapsed.
LEMMA ReserveKeeps ==
  ASSUME Assumptions, Keyed, NEW q \in Request, Reserve(q)
  PROVE  Keyed' /\ Passes
<1> DEFINE k == keyOf[q]
<1>0. k \in Key /\ at[q] = "new" /\ keyOf' = keyOf /\ retried' = retried /\ reply' = reply
  BY DEF Reserve
<1>1. CASE Live(k)
  <2>1. at' = [at EXCEPT ![q] = "look"] /\ UNCHANGED keyVars
    BY <1>1 DEF Reserve
  <2>2. KeysTyped' /\ RequestsTyped'
    BY <1>0, <2>1 DEF Keyed, KeysTyped, RequestsTyped, Positions, keyVars
  <2>3. Held' /\ Undivided'
    BY <1>0, <2>1 DEF Keyed, Held, Undivided, RequestsTyped, keyVars
  <2>4. Passes
    BY <1>0, <2>1 DEF Keyed, Passes, RequestsTyped
  <2> QED
    BY <2>2, <2>3, <2>4 DEF Keyed
<1>2. CASE ~ Live(k)
  <2>1. /\ row' = [row EXCEPT ![k] = "in_flight"] /\ token' = [token EXCEPT ![k] = q]
        /\ stored' = [stored EXCEPT ![k] = NoReply] /\ age' = [age EXCEPT ![k] = 0]
        /\ lapsed' = lapsed \cup (RunOut \cap {k}) /\ at' = [at EXCEPT ![q] = "handler"]
    BY <1>2 DEF Reserve
  <2>2. row[k] = "none" \/ k \in lapsed'
    BY <1>0, <1>2, <2>1 DEF Live, RunOut
  <2>3. KeysTyped'
    BY <1>0, <2>1 DEF Keyed, KeysTyped, Assumptions, IdempotencyAssumption
  <2>4. RequestsTyped'
    BY <1>0, <2>1 DEF Keyed, RequestsTyped, Positions
  <2>5. Held'
    BY <1>0, <2>1 DEF Keyed, Held, KeysTyped, RequestsTyped, Assumptions, IdempotencyAssumption
  <2>6. Undivided'
    <3> SUFFICES ASSUME NEW s \in Request, keyOf[s] \in Key \ lapsed'
                 PROVE  /\ at'[s] \in {"handler", "answer"} =>
                             row'[keyOf[s]] = "in_flight" /\ token'[keyOf[s]] = s
                        /\ reply'[s] \in Body =>
                             /\ row'[keyOf[s]] # "none"
                             /\ row'[keyOf[s]] = "done" => stored'[keyOf[s]] = reply'[s]
                             /\ row'[keyOf[s]] = "in_flight" => token'[keyOf[s]] = s
      BY <1>0 DEF Undivided
    <3>1. CASE keyOf[s] = k /\ s # q
      <4>1. row[k] = "none"
        BY <3>1, <2>2
      <4> QED
        BY <1>0, <2>1, <3>1, <4>1 DEF Keyed, Undivided, RequestsTyped
    <3>2. CASE s = q
      BY <1>0, <2>1, <3>2 DEF Keyed, KeysTyped, RequestsTyped
    <3>3. CASE keyOf[s] # k
      BY <1>0, <2>1, <3>3 DEF Keyed, Undivided, KeysTyped, RequestsTyped
    <3> QED
      BY <3>1, <3>2, <3>3
  <2>7. Passes
    BY <1>0, <2>1 DEF Keyed, Passes, RequestsTyped
  <2> QED
    BY <2>3, <2>4, <2>5, <2>6, <2>7 DEF Keyed
<1> QED
  BY <1>1, <1>2

\* A repeat is told what the row says, which its own request is over with.
LEMMA LookKeeps ==
  ASSUME Assumptions, Keyed, NEW q \in Request, Look(q)
  PROVE  Keyed' /\ Passes
<1> DEFINE k == keyOf[q]
<1>0. at[q] = "look" /\ k \in Key /\ UNCHANGED keyVars /\ keyOf' = keyOf
  BY DEF Look, Keyed, RequestsTyped
<1>1. CASE q \notin retried /\ retried' = retried \cup {q} /\ at' = [at EXCEPT ![q] = "new"] /\ reply' = reply
  <2>1. KeysTyped' /\ RequestsTyped'
    BY <1>0, <1>1 DEF Keyed, KeysTyped, RequestsTyped, Positions, keyVars
  <2>2. Held' /\ Undivided'
    BY <1>0, <1>1 DEF Keyed, Held, Undivided, RequestsTyped, keyVars
  <2>3. Passes
    BY <1>0, <1>1 DEF Keyed, Passes, RequestsTyped
  <2> QED
    BY <2>1, <2>2, <2>3 DEF Keyed
<1>2. ASSUME NEW answer \in Refusals \cup Body, Answered(q, answer), retried' = retried,
             answer \in Body => row[k] = "done" /\ stored[k] = answer
      PROVE  Keyed' /\ Passes
  <2>1. reply' = [reply EXCEPT ![q] = answer] /\ at' = [at EXCEPT ![q] = "over"]
    BY <1>2 DEF Answered
  <2>2. KeysTyped' /\ RequestsTyped'
    BY <1>0, <1>2, <2>1 DEF Keyed, KeysTyped, RequestsTyped, Positions, keyVars
  <2>3. Held'
    <3>1. \A j \in Key : row[j] = "done" => token[j] # q
      BY <1>0 DEF Keyed, Held
    <3> QED
      BY <1>0, <2>1, <3>1 DEF Keyed, Held, RequestsTyped, keyVars
  <2>4. Undivided'
    BY <1>0, <1>2, <2>1 DEF Keyed, Undivided, RequestsTyped, keyVars
  <2>5. Passes
    <3>1. answer \in Body => token[k] \in Request /\ reply[token[k]] = answer
      BY <1>0, <1>2 DEF Keyed, Held
    <3> QED
      BY <1>0, <2>1, <3>1 DEF Keyed, Passes, RequestsTyped
  <2> QED
    BY <2>2, <2>3, <2>4, <2>5 DEF Keyed
<1>3. CASE Answered(q, "conflict") /\ retried' = retried
  BY <1>2, <1>3 DEF Refusals, Assumptions, IdempotencyAssumption
<1>4. CASE Answered(q, "mismatch") /\ retried' = retried
  BY <1>2, <1>4 DEF Refusals, Assumptions, IdempotencyAssumption
<1>5. CASE row[k] = "done" /\ Answered(q, stored[k]) /\ retried' = retried
  <2>1. stored[k] \in Body
    BY <1>0, <1>5 DEF Keyed, Held
  <2> QED
    BY <1>2, <1>5, <2>1
<1> QED
  BY <1>1, <1>3, <1>4, <1>5 DEF Look

\* A request that is over with its own row untouched leaves the rows as they are.
LEMMA OverKeeps ==
  ASSUME Assumptions, Keyed, NEW q \in Request, at[q] # "over", UNCHANGED <<keyVars, keyOf, retried>>,
         at' = [at EXCEPT ![q] = "over"],
         \/ reply' = reply
         \/ reply' = [reply EXCEPT ![q] = NoReply]
  PROVE  Keyed' /\ Passes
<1>1. UNCHANGED keyVars /\ keyOf' = keyOf /\ retried' = retried
  OBVIOUS
<1>2. \A s \in Request : (s # q => reply'[s] = reply[s]) /\ (reply'[s] \in Body => reply'[s] = reply[s])
  BY DEF Keyed, RequestsTyped, Assumptions, IdempotencyAssumption
<1>3. KeysTyped' /\ RequestsTyped'
  BY <1>1 DEF Keyed, KeysTyped, RequestsTyped, Positions, keyVars
<1>4. Held'
  <2>1. \A j \in Key : row[j] = "done" => token[j] # q /\ token[j] \in Request
    BY DEF Keyed, Held
  <2> QED
    BY <1>1, <1>2, <2>1 DEF Keyed, Held, RequestsTyped, keyVars
<1>5. Undivided'
  <2>1. \A s \in Request : at'[s] \in {"handler", "answer"} => at'[s] = at[s]
    BY DEF Keyed, RequestsTyped
  <2> QED
    BY <1>1, <1>2, <2>1 DEF Keyed, Undivided, keyVars
<1>6. Passes
  BY <1>2 DEF Keyed, Passes, RequestsTyped
<1> QED
  BY <1>3, <1>4, <1>5, <1>6 DEF Keyed

\* An answer is stored by the one who still holds the row, or by nobody.
LEMMA CompleteKeeps ==
  ASSUME Assumptions, Keyed, NEW q \in Request, Complete(q)
  PROVE  Keyed' /\ Passes
<1> DEFINE k == keyOf[q]
<1>0. /\ at[q] = "answer" /\ reply[q] \in Body /\ reply' = reply /\ at' = [at EXCEPT ![q] = "over"]
      /\ token' = token /\ age' = age /\ lapsed' = lapsed /\ keyOf' = keyOf /\ retried' = retried
  <2>1. reply' = [reply EXCEPT ![q] = reply[q]]
    BY DEF Complete, Answered
  <2> QED
    BY <2>1 DEF Complete, Answered, Keyed, RequestsTyped
<1>1. CASE ~ Owns(q)
  BY <1>0, <1>1, OverKeeps DEF Complete, keyVars
<1>2. CASE Owns(q)
  <2>1. k \in Key /\ row[k] = "in_flight" /\ token[k] = q
    BY <1>2 DEF Owns
  <2>2. row' = [row EXCEPT ![k] = "done"] /\ stored' = [stored EXCEPT ![k] = reply[q]]
    BY <1>2 DEF Complete
  <2>3. KeysTyped' /\ RequestsTyped'
    BY <1>0, <2>1, <2>2 DEF Keyed, KeysTyped, RequestsTyped, Positions
  <2>4. Held'
    BY <1>0, <2>1, <2>2 DEF Keyed, Held, KeysTyped, RequestsTyped
  <2>5. \A s \in Request : keyOf[s] = k /\ k \notin lapsed /\ reply[s] \in Body => s = q
    BY <2>1 DEF Keyed, Undivided
  <2>6. \A s \in Request : keyOf[s] = k /\ k \notin lapsed /\ at[s] \in {"handler", "answer"} => s = q
    BY <2>1 DEF Keyed, Undivided
  <2>7. Undivided'
    BY <1>0, <2>1, <2>2, <2>5, <2>6 DEF Keyed, Undivided, KeysTyped, RequestsTyped
  <2>8. Passes
    BY <1>0 DEF Keyed, Passes, RequestsTyped
  <2> QED
    BY <2>3, <2>4, <2>7, <2>8 DEF Keyed
<1> QED
  BY <1>1, <1>2

\* Rows that are deleted have lapsed, or were held by a request without an
\* action to answer with.
LEMMA DeleteKeeps ==
  ASSUME Assumptions, Keyed, NEW keys \in SUBSET Key, Delete(keys), keyOf' = keyOf, retried' = retried,
         reply' = reply, lapsed \subseteq lapsed', lapsed' \subseteq Key,
         \A s \in Request : at'[s] = at[s] \/ at'[s] = "over",
         at' \in [Request -> Positions],
         \A k \in keys : \/ k \in lapsed'
                         \/ /\ row[k] = "in_flight" /\ reply[token[k]] \notin Body
                            /\ at'[token[k]] = "over"
  PROVE  Keyed'
<1>1. KeysTyped' /\ RequestsTyped'
  BY DEF Delete, Keyed, KeysTyped, RequestsTyped, Positions, Assumptions, IdempotencyAssumption
<1>2. \A k \in Key : IF k \in keys THEN row'[k] = "none" /\ stored'[k] = NoReply
                     ELSE row'[k] = row[k] /\ token'[k] = token[k] /\ stored'[k] = stored[k]
  BY DEF Delete
<1>3. Held'
  <2> SUFFICES ASSUME NEW k \in Key
               PROVE  /\ row'[k] # "none" => token'[k] \in Request /\ keyOf'[token'[k]] = k
                      /\ row'[k] = "done" <=> stored'[k] \in Body
                      /\ row'[k] = "done" => at'[token'[k]] = "over" /\ reply'[token'[k]] = stored'[k]
    BY DEF Held
  <2>1. CASE k \in keys
    BY <1>2, <2>1 DEF Assumptions, IdempotencyAssumption
  <2>2. CASE k \notin keys
    BY <1>2, <2>2 DEF Keyed, Held
  <2> QED
    BY <2>1, <2>2
<1>4. Undivided'
  <2> SUFFICES ASSUME NEW s \in Request, keyOf[s] \in Key \ lapsed'
               PROVE  /\ at'[s] \in {"handler", "answer"} =>
                           row'[keyOf[s]] = "in_flight" /\ token'[keyOf[s]] = s
                      /\ reply'[s] \in Body =>
                           /\ row'[keyOf[s]] # "none"
                           /\ row'[keyOf[s]] = "done" => stored'[keyOf[s]] = reply'[s]
                           /\ row'[keyOf[s]] = "in_flight" => token'[keyOf[s]] = s
    BY DEF Undivided
  <2>1. CASE keyOf[s] \in keys
    <3>1. row[keyOf[s]] = "in_flight" /\ reply[token[keyOf[s]]] \notin Body /\ at'[token[keyOf[s]]] = "over"
      BY <2>1
    <3>2. at'[s] \notin {"handler", "answer"}
      BY <3>1 DEF Keyed, Undivided
    <3>3. reply'[s] \notin Body
      BY <3>1 DEF Keyed, Undivided
    <3> QED
      BY <3>2, <3>3
  <2>2. CASE keyOf[s] \notin keys
    BY <1>2, <2>2 DEF Keyed, Undivided
  <2> QED
    BY <2>1, <2>2
<1> QED
  BY <1>1, <1>3, <1>4 DEF Keyed

\* Only a row of its own is given back, and only without an answer.
LEMMA ReleaseKeeps ==
  ASSUME Assumptions, Keyed, NEW q \in Request, Release(q)
  PROVE  Keyed' /\ Passes
<1> DEFINE mine == {k \in Key : k = keyOf[q] /\ Owns(q)}
<1>1. /\ at[q] = "answer" /\ reply[q] \notin Body /\ Delete(mine)
      /\ lapsed' = lapsed /\ keyOf' = keyOf /\ retried' = retried
      /\ at' = [at EXCEPT ![q] = "over"] /\ reply' = reply
  <2>1. reply' = [reply EXCEPT ![q] = reply[q]]
    BY DEF Release, Answered
  <2> QED
    BY <2>1 DEF Release, Answered, Keyed, RequestsTyped
<1>2. \A k \in mine : row[k] = "in_flight" /\ token[k] = q
  BY DEF Owns
<1>3. at' \in [Request -> Positions] /\ at'[q] = "over"
      /\ \A s \in Request : at'[s] = at[s] \/ at'[s] = "over"
  BY <1>1 DEF Keyed, RequestsTyped, Positions
<1>4. mine \in SUBSET Key /\ lapsed' \subseteq Key
  BY <1>1 DEF Keyed, KeysTyped
<1> HIDE DEF mine
<1>5. Keyed'
  BY <1>1, <1>2, <1>3, <1>4, DeleteKeeps
<1>6. Passes
  BY <1>1 DEF Keyed, Passes, RequestsTyped
<1> QED
  BY <1>5, <1>6

\* The purge deletes what has lapsed.
LEMMA PurgeKeeps ==
  ASSUME Assumptions, Keyed, Purge
  PROVE  Keyed' /\ Passes
<1>1. /\ Delete(RunOut) /\ lapsed' = lapsed \cup RunOut /\ RunOut \in SUBSET Key
      /\ keyOf' = keyOf /\ retried' = retried /\ at' = at /\ reply' = reply
  BY DEF Purge, requestVars, RunOut
<1>2. at' \in [Request -> Positions] /\ lapsed' \subseteq Key /\ lapsed \subseteq lapsed'
      /\ \A k \in RunOut : k \in lapsed'
  BY <1>1 DEF Keyed, KeysTyped, RequestsTyped
<1>3. Keyed'
  BY <1>1, <1>2, DeleteKeeps
<1>4. Passes
  BY <1>1 DEF Passes
<1> QED
  BY <1>3, <1>4

\* An action is answered with by the request that holds the row, if none lapsed.
LEMMA HandledKeeps ==
  ASSUME Assumptions, Keyed, NEW q \in Request, NEW answer \in Body \cup Refusals, Handled(q, answer)
  PROVE  /\ Keyed'
         /\ \A s \in Request : /\ s # q => at'[s] = at[s] /\ reply'[s] = reply[s]
                               /\ s = q => at'[s] \in {"answer", "over"} /\ reply'[s] = answer
<1>1. /\ at[q] = "handler" /\ reply' = [reply EXCEPT ![q] = answer] /\ UNCHANGED keyVars
      /\ keyOf' = keyOf /\ retried' = retried
      /\ at' = [at EXCEPT ![q] = IF keyOf[q] = NoKey THEN "over" ELSE "answer"]
  BY DEF Handled
<1>2. \A s \in Request : /\ s # q => at'[s] = at[s] /\ reply'[s] = reply[s]
                         /\ s = q => at'[s] \in {"answer", "over"} /\ reply'[s] = answer
  BY <1>1 DEF Keyed, RequestsTyped
<1>3. KeysTyped' /\ RequestsTyped'
  BY <1>1 DEF Keyed, KeysTyped, RequestsTyped, Positions, keyVars
<1>4. Held'
  <2>1. \A j \in Key : row[j] = "done" => token[j] # q /\ token[j] \in Request
    BY <1>1 DEF Keyed, Held
  <2> QED
    BY <1>1, <1>2, <2>1 DEF Keyed, Held, keyVars
<1>5. Undivided'
  <2>1. keyOf[q] \in Key \ lapsed => row[keyOf[q]] = "in_flight" /\ token[keyOf[q]] = q
    BY <1>1 DEF Keyed, Undivided
  <2> QED
    BY <1>1, <1>2, <2>1 DEF Keyed, Undivided, keyVars
<1> QED
  BY <1>2, <1>3, <1>4, <1>5 DEF Keyed

\* Everything the middleware does, and its deaths.
LEMMA MiddlewareKeeps ==
  ASSUME Assumptions, Keyed, (\E q \in Request : AnswerKey(q) \/ Unstored(q) \/ Die(q)) \/ Purge
  PROVE  Keyed' /\ Passes
<1>1. ASSUME NEW q \in Request, AnswerKey(q) PROVE Keyed' /\ Passes
  BY <1>1, UnkeyedKeeps, ReserveKeeps, LookKeeps, CompleteKeeps, ReleaseKeeps DEF AnswerKey
<1>2. ASSUME NEW q \in Request, Unstored(q) PROVE Keyed' /\ Passes
  <2>1. reply' = [reply EXCEPT ![q] = reply[q]] /\ at[q] = "answer"
    BY <1>2 DEF Unstored, Answered
  <2>2. reply' = reply
    BY <2>1 DEF Keyed, RequestsTyped
  <2> QED
    BY <1>2, <2>1, <2>2, OverKeeps DEF Unstored, Answered
<1>3. ASSUME NEW q \in Request, Die(q) PROVE Keyed' /\ Passes
  BY <1>3, OverKeeps DEF Die, Answered
<1> QED
  BY <1>1, <1>2, <1>3, PurgeKeeps

-----------------------------------------------------------------------------
(* The actions *)

\* No action that was opened becomes one that was not.
RowsStay == \A a \in Action : state[a] # "none" => state'[a] # "none"

\* A request opens an action on a target that is there and has no other.
LEMMA CreateKeeps ==
  ASSUME Assumptions, Actions, NEW a \in Action, Create(a), state[a] = "none"
  PROVE  /\ Actions' /\ EndsStay /\ RowsStay
         /\ state'[a] # "none" /\ \A b \in Action : b # a => state'[b] = state[b]
<1> DEFINE t == TargetOf[a]
<1>1. /\ t \in live /\ t \in Target /\ Open(t) = {}
      /\ state' = [state EXCEPT ![a] = "pending"]
      /\ seen' = [seen EXCEPT ![a] = version[t]] /\ left' = [left EXCEPT ![a] = ActionTtl]
      /\ UNCHANGED <<asking, failing, hadLost>> /\ UNCHANGED worldVars
  BY DEF Create, MayAsk, Assumptions, PendingAssumption
<1>2. \A b \in Action : state'[b] = IF b = a THEN "pending" ELSE state[b]
  BY <1>1 DEF Actions, ActionsTyped
<1>3. version[t] \in 0 .. MaxChanges /\ ActionTtl \in 0 .. ActionTtl
  BY <1>1 DEF Actions, WorldTyped, Assumptions, PendingAssumption
<1>4. ActionsTyped'
  BY <1>1, <1>3 DEF Actions, ActionsTyped
<1>5. WorldTyped'
  BY <1>1 DEF Actions, WorldTyped, worldVars
<1>6. OnePending'
  BY <1>1, <1>2 DEF Actions, OnePending, Open
<1>7. DeletedOnceAsShown'
  <2>1. \A b \in Action : (state'[b] = "executed" <=> state[b] = "executed")
                          /\ (state[b] = "executed" => seen'[b] = seen[b])
    BY <1>1, <1>2 DEF Actions, ActionsTyped
  <2>2. live' = live /\ version' = version
    BY <1>1 DEF worldVars
  <2> QED
    BY <2>1, <2>2 DEF Actions, DeletedOnceAsShown
<1>8. EndsStay /\ RowsStay
  BY <1>2 DEF EndsStay, RowsStay, Ended
<1> QED
  BY <1>2, <1>4, <1>5, <1>6, <1>7, <1>8 DEF Actions

\* Actions that end otherwise than executed leave their targets alone.
LEMMA EndingKeeps ==
  ASSUME Assumptions, Actions,
         state' \in [Action -> Ended \cup {"none", "pending"}], left' \in [Action -> 0 .. ActionTtl],
         \A a \in Action :
           state'[a] = state[a] \/ (state[a] = "pending" /\ state'[a] \in Ended \ {"executed"}),
         UNCHANGED <<seen, asking, live, version>>, WorldTyped',
         failing' \subseteq Action, hadLost' \subseteq Action
  PROVE  Actions' /\ EndsStay /\ RowsStay /\ \A a \in Action : state[a] = "none" => state'[a] = "none"
<1>1. ActionsTyped'
  BY DEF Actions, ActionsTyped
<1>2. \A a \in Action : state'[a] = "pending" => state[a] = "pending"
  BY DEF Ended
<1>3. OnePending'
  BY <1>2 DEF Actions, OnePending
<1>4. \A a \in Action : state'[a] = "executed" <=> state[a] = "executed"
  BY DEF Ended
<1>5. DeletedOnceAsShown'
  BY <1>4 DEF Actions, DeletedOnceAsShown
<1>6. EndsStay /\ RowsStay /\ \A a \in Action : state[a] = "none" => state'[a] = "none"
  BY DEF EndsStay, RowsStay, Ended
<1> QED
  BY <1>1, <1>3, <1>5, <1>6 DEF Actions

\* The deletion is of the version the action was opened for, and the first.
LEMMA ApproveKeeps ==
  ASSUME Assumptions, Actions, NEW a \in Action, Approve(a)
  PROVE  Actions' /\ EndsStay /\ RowsStay /\ \A b \in Action : state[b] = "none" => state'[b] = "none"
<1> DEFINE t == TargetOf[a]
<1>0. /\ state[a] = "pending" /\ state' = [state EXCEPT ![a] = Verdict(a)]
      /\ left' = [left EXCEPT ![a] = 0] /\ t \in Target
      /\ seen' = seen /\ asking' = asking /\ failing' = failing /\ hadLost' = hadLost
      /\ version' = version /\ access' = access /\ active' = active /\ changes' = changes
  BY DEF Approve, EndAs, Assumptions, PendingAssumption
<1>1. Verdict(a) \in {"executed", "expired", "invalidated"}
  BY DEF Verdict
<1>2. left' \in [Action -> 0 .. ActionTtl]
  BY <1>0 DEF Actions, ActionsTyped, Assumptions, PendingAssumption
<1>3. \A b \in Action : state'[b] = IF b = a THEN Verdict(a) ELSE state[b]
  BY <1>0 DEF Actions, ActionsTyped
<1>4. CASE Verdict(a) # "executed"
  <2>1. live' = live
    BY <1>4 DEF Approve
  <2>2. WorldTyped'
    BY <1>0, <2>1 DEF Actions, WorldTyped
  <2>3. state' \in [Action -> Ended \cup {"none", "pending"}]
    BY <1>0, <1>1 DEF Actions, ActionsTyped, Ended
  <2>4. \A b \in Action :
          state'[b] = state[b] \/ (state[b] = "pending" /\ state'[b] \in Ended \ {"executed"})
    BY <1>0, <1>1, <1>3, <1>4 DEF Ended
  <2>5. failing' \subseteq Action /\ hadLost' \subseteq Action
    BY <1>0 DEF Actions, ActionsTyped
  <2> QED
    BY <1>0, <1>2, <2>1, <2>2, <2>3, <2>4, <2>5, EndingKeeps
<1>5. CASE Verdict(a) = "executed"
  <2>1. live' = live \ {t}
    BY <1>5 DEF Approve
  <2>2. t \in live /\ version[t] = seen[a]
    BY <1>5 DEF Verdict, Unchanged
  <2>3. ActionsTyped'
    BY <1>0, <1>2, <1>5 DEF Actions, ActionsTyped, Ended
  <2>4. WorldTyped'
    BY <1>0, <2>1 DEF Actions, WorldTyped
  <2>5. OnePending'
    BY <1>3, <1>5 DEF Actions, OnePending
  <2>6. DeletedOnceAsShown'
    <3> SUFFICES ASSUME NEW u \in Target
                 PROVE  LET executed == {b \in Action : state'[b] = "executed" /\ TargetOf[b] = u}
                        IN  /\ u \in live' => executed = {}
                            /\ u \notin live' =>
                                 \E b \in executed : executed = {b} /\ seen'[b] = version'[u]
      BY DEF DeletedOnceAsShown
    <3> DEFINE before == {b \in Action : state[b] = "executed" /\ TargetOf[b] = u}
               after == {b \in Action : state'[b] = "executed" /\ TargetOf[b] = u}
    <3>1. /\ u \in live => before = {}
          /\ u \notin live => \E b \in before : before = {b} /\ seen[b] = version[u]
      BY DEF Actions, DeletedOnceAsShown
    <3>2. CASE u = t
      <4>1. after = {a}
        BY <1>3, <1>5, <2>2, <3>1, <3>2
      <4> QED
        BY <1>0, <2>1, <2>2, <3>2, <4>1
    <3>3. CASE u # t
      <4>1. after = before
        BY <1>0, <1>3, <1>5, <3>3
      <4> QED
        BY <1>0, <2>1, <3>1, <3>3, <4>1
    <3> QED
      BY <3>2, <3>3
  <2>7. EndsStay /\ RowsStay /\ \A b \in Action : state[b] = "none" => state'[b] = "none"
    BY <1>0, <1>3, <1>5 DEF EndsStay, RowsStay, Ended
  <2> QED
    BY <2>3, <2>4, <2>5, <2>6, <2>7 DEF Actions
<1> QED
  BY <1>4, <1>5

\* A failure is recorded in an action that still waits, and decisions are on such.
LEMMA SettleKeeps ==
  ASSUME Assumptions, Actions, NEW a \in Action, Settle(a)
  PROVE  Actions' /\ EndsStay /\ RowsStay /\ \A b \in Action : state[b] = "none" => state'[b] = "none"
<1>1. ASSUME NEW end, EndAs(a, end), UNCHANGED worldVars, hadLost' = hadLost, failing' \subseteq Action,
             end = state[a] \/ (state[a] = "pending" /\ end \in Ended \ {"executed"})
      PROVE  Actions' /\ EndsStay /\ RowsStay /\ \A b \in Action : state[b] = "none" => state'[b] = "none"
  <2>1. /\ state' = [state EXCEPT ![a] = end] /\ left' = [left EXCEPT ![a] = 0]
        /\ seen' = seen /\ asking' = asking
    BY <1>1 DEF EndAs
  <2>2. state' \in [Action -> Ended \cup {"none", "pending"}] /\ left' \in [Action -> 0 .. ActionTtl]
    BY <1>1, <2>1 DEF Actions, ActionsTyped, Assumptions, PendingAssumption
  <2>3. \A b \in Action :
          state'[b] = state[b] \/ (state[b] = "pending" /\ state'[b] \in Ended \ {"executed"})
    BY <1>1, <2>1 DEF Actions, ActionsTyped
  <2>4. WorldTyped' /\ live' = live /\ version' = version /\ hadLost' \subseteq Action
    BY <1>1 DEF Actions, ActionsTyped, WorldTyped, worldVars
  <2> QED
    BY <1>1, <2>1, <2>2, <2>3, <2>4, EndingKeeps
<1>2. CASE RecordFailure(a)
  <2>1. /\ EndAs(a, RecordedFailure(a)) /\ UNCHANGED worldVars /\ hadLost' = hadLost
        /\ failing' \subseteq Action
        /\ RecordedFailure(a) = state[a]
           \/ (state[a] = "pending" /\ RecordedFailure(a) \in Ended \ {"executed"})
    BY <1>2 DEF RecordFailure, RecordedFailure, Actions, ActionsTyped, Ended
  <2> QED
    BY <1>1, <2>1
<1>3. CASE Decide(a)
  <2>1. /\ EndAs(a, IF left[a] = 0 THEN "expired" ELSE "declined") /\ UNCHANGED worldVars
        /\ hadLost' = hadLost /\ failing' \subseteq Action /\ state[a] = "pending"
        /\ (IF left[a] = 0 THEN "expired" ELSE "declined") \in Ended \ {"executed"}
    BY <1>3 DEF Decide, Actions, ActionsTyped, Ended
  <2> QED
    BY <1>1, <2>1
<1> QED
  BY <1>2, <1>3, ApproveKeeps DEF Settle

\* The expiry job ends only what waits.
LEMMA ExpireKeeps ==
  ASSUME Assumptions, Actions, Expire
  PROVE  Actions' /\ EndsStay /\ RowsStay /\ \A b \in Action : state[b] = "none" => state'[b] = "none"
<1>1. PICK batch \in SUBSET Due :
        state' = [a \in Action |-> IF a \in batch THEN "expired" ELSE state[a]]
  BY DEF Expire
<1>2. UNCHANGED <<seen, left, asking, failing, hadLost>> /\ UNCHANGED worldVars
  BY DEF Expire
<1>3. state' \in [Action -> Ended \cup {"none", "pending"}]
  BY <1>1 DEF Actions, ActionsTyped, Ended
<1>4. \A a \in Action :
        state'[a] = state[a] \/ (state[a] = "pending" /\ state'[a] \in Ended \ {"executed"})
  BY <1>1 DEF Due, Ended
<1>5. WorldTyped' /\ live' = live /\ version' = version
  BY <1>2 DEF Actions, WorldTyped, worldVars
<1>6. left' \in [Action -> 0 .. ActionTtl] /\ failing' \subseteq Action /\ hadLost' \subseteq Action
      /\ seen' = seen /\ asking' = asking
  BY <1>2 DEF Actions, ActionsTyped
<1> QED
  BY <1>3, <1>4, <1>5, <1>6, EndingKeeps

\* Losing access ends what waits; a change of a target is of one that is there.
LEMMA WorldKeeps ==
  ASSUME Assumptions, Actions, World
  PROVE  Actions' /\ EndsStay /\ RowsStay /\ \A b \in Action : state[b] = "none" => state'[b] = "none"
<1>1. CASE Deactivate \/ LoseAccess
  <2>1. PICK S \in SUBSET Pending : Invalidate(S)
    BY <1>1 DEF Deactivate, LoseAccess
  <2>2. /\ changes < MaxChanges /\ changes' = changes + 1 /\ hadLost' = hadLost \cup Pending
        /\ seen' = seen /\ asking' = asking /\ failing' = failing /\ version' = version /\ live' = live
        /\ access' \in BOOLEAN /\ active' \in BOOLEAN
    BY <1>1 DEF Deactivate, LoseAccess, Change, Actions, WorldTyped
  <2>3. WorldTyped'
    BY <2>2 DEF Actions, WorldTyped, Assumptions, PendingAssumption
  <2>4. state' \in [Action -> Ended \cup {"none", "pending"}]
    BY <2>1 DEF Invalidate, Actions, ActionsTyped, Ended
  <2>5. left' \in [Action -> 0 .. ActionTtl]
    BY <2>1 DEF Invalidate, Actions, ActionsTyped, Assumptions, PendingAssumption
  <2>6. \A a \in Action :
          state'[a] = state[a] \/ (state[a] = "pending" /\ state'[a] \in Ended \ {"executed"})
    BY <2>1 DEF Invalidate, Pending, Ended
  <2>7. failing' \subseteq Action /\ hadLost' \subseteq Action
    BY <2>2 DEF Actions, ActionsTyped, Pending
  <2> QED
    BY <2>2, <2>3, <2>4, <2>5, <2>6, <2>7, EndingKeeps
<1>2. CASE Reactivate \/ RegainAccess
  <2>1. /\ UNCHANGED <<state, seen, left, asking, failing, hadLost, version, live, changes>>
        /\ access' \in BOOLEAN /\ active' \in BOOLEAN
    BY <1>2 DEF Reactivate, RegainAccess, actionVars, Actions, WorldTyped
  <2>2. WorldTyped'
    BY <2>1 DEF Actions, WorldTyped
  <2>3. state' \in [Action -> Ended \cup {"none", "pending"}] /\ left' \in [Action -> 0 .. ActionTtl]
        /\ failing' \subseteq Action /\ hadLost' \subseteq Action
    BY <2>1 DEF Actions, ActionsTyped
  <2> QED
    BY <2>1, <2>2, <2>3, EndingKeeps
<1>3. ASSUME NEW t \in Target, Edit(t)
      PROVE  Actions' /\ EndsStay /\ RowsStay /\ \A b \in Action : state[b] = "none" => state'[b] = "none"
  <2>1. /\ changes < MaxChanges /\ changes' = changes + 1 /\ t \in live
        /\ version' = [version EXCEPT ![t] = version[t] + 1]
        /\ live' = live /\ access' = access /\ active' = active
        /\ UNCHANGED actionVars
    BY <1>3 DEF Edit, Change
  <2>2. WorldTyped'
    BY <2>1 DEF Actions, WorldTyped, Assumptions, PendingAssumption
  <2>3. ActionsTyped' /\ OnePending' /\ EndsStay /\ RowsStay
        /\ \A b \in Action : state[b] = "none" => state'[b] = "none"
    BY <2>1 DEF Actions, ActionsTyped, OnePending, EndsStay, RowsStay, actionVars
  <2>4. DeletedOnceAsShown'
    <3>1. \A u \in Target : u \notin live => version'[u] = version[u]
      BY <2>1 DEF Actions, WorldTyped
    <3>2. state' = state /\ seen' = seen
      BY <2>1 DEF actionVars
    <3> QED
      BY <2>1, <3>1, <3>2 DEF Actions, DeletedOnceAsShown
  <2> QED
    BY <2>2, <2>3, <2>4 DEF Actions
<1> QED
  BY <1>1, <1>2, <1>3 DEF World

\* Steps that leave state, targets and versions alone.
LEMMA IdleKeeps ==
  ASSUME Assumptions, Actions, UNCHANGED <<state, seen, hadLost>>, UNCHANGED worldVars,
         left' \in [Action -> 0 .. ActionTtl], asking' \in [Action -> {"ask", "clash", "again", "clashed"}],
         failing' \subseteq Action
  PROVE  Actions' /\ EndsStay /\ RowsStay /\ \A b \in Action : state[b] = "none" => state'[b] = "none"
<1>1. WorldTyped' /\ live' = live /\ version' = version
  BY DEF Actions, WorldTyped, worldVars
<1>2. ActionsTyped'
  BY DEF Actions, ActionsTyped
<1>3. OnePending' /\ DeletedOnceAsShown'
  BY <1>1 DEF Actions, OnePending, DeletedOnceAsShown
<1> QED
  BY <1>1, <1>2, <1>3 DEF Actions, EndsStay, RowsStay

-----------------------------------------------------------------------------
(* The two together *)

\* No key, no request at work, no action.
LEMMA Initially ==
  ASSUME Assumptions, Init
  PROVE  IInv
<1> USE DEF Init, Assumptions
<1>1. Keyed
  BY DEF IdempotencyInit, Keyed, KeysTyped, RequestsTyped, Held, Undivided, IdempotencyAssumption, Positions
<1>2. ActionsTyped /\ OnePending /\ DeletedOnceAsShown
  BY DEF PendingInit, ActionsTyped, OnePending, DeletedOnceAsShown, PendingAssumption
<1>3. WorldTyped
  BY DEF PendingInit, WorldTyped, PendingAssumption
<1>4. Opened
  BY DEF IdempotencyInit, PendingInit, Opened, IdempotencyAssumption, OneActionEach
<1> QED
  BY <1>1, <1>2, <1>3, <1>4 DEF IInv, Actions

\* What the middleware does alone.
LEMMA KeysAlone ==
  ASSUME Assumptions, IInv, Keyed', Passes, UNCHANGED pendingVars
  PROVE  IInv' /\ EndsStay
<1>1. state' = state /\ Actions'
  <2>1. state' = state /\ seen' = seen /\ left' = left /\ asking' = asking /\ failing' = failing
        /\ hadLost' = hadLost /\ UNCHANGED worldVars
    BY DEF pendingVars, actionVars
  <2> QED
    BY <2>1, IdleKeeps DEF IInv, Actions, ActionsTyped
<1>2. Opened'
  BY <1>1 DEF IInv, Opened, Passes, Assumptions, OneActionEach
<1> QED
  BY <1>1, <1>2 DEF IInv, EndsStay

\* What becomes of the actions alone.
LEMMA ActionsAlone ==
  ASSUME Assumptions, IInv, Actions', RowsStay, \A b \in Action : state[b] = "none" => state'[b] = "none",
         UNCHANGED <<keyVars, requestVars>>
  PROVE  IInv'
<1>1. UNCHANGED keyVars /\ UNCHANGED requestVars
  OBVIOUS
<1>2. Keyed'
  BY <1>1 DEF IInv, Keyed, KeysTyped, RequestsTyped, Held, Undivided, keyVars, requestVars
<1>3. Opened'
  <2>1. \A q \in Request : reply[q] \in Body => reply[q] \in Action
    BY DEF Assumptions, OneActionEach
  <2>2. at' = at /\ reply' = reply
    BY <1>1 DEF requestVars
  <2> QED
    BY <2>1, <2>2 DEF IInv, Opened, RowsStay, Assumptions, OneActionEach
<1> QED
  BY <1>2, <1>3 DEF IInv

\* The handler opens one action, and its answer names it.
LEMMA HandlerKeeps ==
  ASSUME Assumptions, IInv, NEW q \in Request, Handler(q)
  PROVE  IInv' /\ EndsStay
<1> USE DEF IInv
<1>0. q \in Action /\ q \in Body /\ "error" \in Refusals /\ "error" \notin Body
  BY DEF Assumptions, OneActionEach, IdempotencyAssumption, Refusals
<1>1. ASSUME NEW answer \in Body \cup Refusals, Handled(q, answer), Actions', RowsStay,
             answer \in Body => state'[answer] # "none",
             \A s \in Action : s # q /\ state[s] = "none" => state'[s] = "none"
      PROVE  IInv'
  <2>1. /\ Keyed'
        /\ \A s \in Request : /\ s # q => at'[s] = at[s] /\ reply'[s] = reply[s]
                              /\ s = q => at'[s] \in {"answer", "over"} /\ reply'[s] = answer
    BY <1>1, HandledKeeps
  <2>2. \A s \in Request : reply[s] \in Body => reply[s] \in Action
    BY DEF Assumptions, OneActionEach
  <2>3. Opened'
    BY <1>1, <2>1, <2>2 DEF Opened, RowsStay, Assumptions, OneActionEach
  <2> QED
    BY <1>1, <2>1, <2>3
<1>2. CASE Open202(q)
  <2>1. Create(q) /\ at[q] = "handler" /\ (Handled(q, q) \/ Handled(q, "error"))
    BY <1>2 DEF Open202, Handled
  <2>2. state[q] = "none"
    BY <2>1 DEF Opened
  <2>3. /\ Actions' /\ EndsStay /\ RowsStay
        /\ state'[q] # "none" /\ \A b \in Action : b # q => state'[b] = state[b]
    BY <1>0, <2>1, <2>2, CreateKeeps
  <2> QED
    BY <1>0, <1>1, <2>1, <2>3
<1>3. CASE Retry409(q)
  <2>1. UNCHANGED pendingVars /\ Handled(q, "error")
    BY <1>3 DEF Retry409, Refused
  <2>2. state' = state /\ seen' = seen /\ left' = left /\ asking' = asking /\ failing' = failing
        /\ hadLost' = hadLost /\ UNCHANGED worldVars
    BY <2>1 DEF pendingVars, actionVars
  <2>3. Actions' /\ EndsStay /\ RowsStay
    BY <2>2, IdleKeeps DEF Actions, ActionsTyped
  <2> QED
    BY <1>0, <1>1, <2>1, <2>2, <2>3
<1>4. CASE (Clash(q) \/ AskAgain(q)) /\ UNCHANGED <<keyVars, requestVars, faults>>
  <2>1. /\ UNCHANGED <<state, seen, hadLost>> /\ UNCHANGED worldVars /\ left' = left /\ failing' = failing
        /\ \E p \in {"clash", "clashed", "again"} : asking' = [asking EXCEPT ![q] = p]
    BY <1>4 DEF Clash, AskAgain
  <2>2. Actions' /\ EndsStay /\ RowsStay /\ \A b \in Action : state[b] = "none" => state'[b] = "none"
    BY <2>1, IdleKeeps DEF Actions, ActionsTyped
  <2> QED
    BY <1>4, <2>2, ActionsAlone
<1> QED
  BY <1>2, <1>3, <1>4 DEF Handler

\* Time ages rows and actions.
LEMMA TickKeeps ==
  ASSUME Assumptions, IInv, Tick
  PROVE  IInv' /\ EndsStay
<1> USE DEF IInv
<1>1. /\ AgeTick /\ PendingTick
      /\ row' = row /\ token' = token /\ stored' = stored /\ lapsed' = lapsed /\ UNCHANGED requestVars
      /\ UNCHANGED <<state, seen, asking, failing, hadLost>> /\ UNCHANGED worldVars
  BY DEF Tick
<1>2. left' \in [Action -> 0 .. ActionTtl]
  <2>1. \A a \in Action : (IF left[a] = 0 THEN 0 ELSE left[a] - 1) \in 0 .. ActionTtl
    BY DEF Actions, ActionsTyped, Assumptions, PendingAssumption
  <2> QED
    BY <1>1, <2>1 DEF PendingTick
<1>3. Actions' /\ EndsStay /\ RowsStay
  BY <1>1, <1>2, IdleKeeps DEF Actions, ActionsTyped
<1>4. KeysTyped'
  <2>1. \A k \in Key :
          (IF row[k] = "none" \/ age[k] = ResponseTtl THEN age[k] ELSE age[k] + 1) \in 0 .. ResponseTtl
    BY DEF Keyed, KeysTyped, Assumptions, IdempotencyAssumption
  <2> QED
    BY <1>1, <2>1 DEF AgeTick, Keyed, KeysTyped
<1>5. Keyed'
  BY <1>1, <1>4 DEF Keyed, RequestsTyped, Held, Undivided, requestVars
<1>6. Opened'
  BY <1>1 DEF Opened, requestVars
<1> QED
  BY <1>3, <1>5, <1>6

\* Every step keeps the invariant, and what has ended.
LEMMA Stepwise ==
  ASSUME Assumptions, IInv, [Next]_vars
  PROVE  IInv' /\ EndsStay
<1> USE DEF IInv
<1>1. ASSUME NEW q \in Request, Serve(q) PROVE IInv' /\ EndsStay
  <2>1. CASE Handler(q)
    BY <2>1, HandlerKeeps
  <2>2. CASE AnswerKey(q) /\ UNCHANGED <<pendingVars, faults>>
    BY <2>2, MiddlewareKeeps, KeysAlone
  <2> QED
    BY <1>1, <2>1, <2>2 DEF Serve
<1>2. ASSUME NEW q \in Request, Breaks(q) PROVE IInv' /\ EndsStay
  <2>1. CASE (Unstored(q) \/ Die(q)) /\ UNCHANGED pendingVars
    BY <2>1, MiddlewareKeeps, KeysAlone
  <2>2. CASE (ApproveFails(q) \/ ForgetFailure(q)) /\ UNCHANGED <<keyVars, requestVars>>
    <3>1. /\ UNCHANGED <<state, seen, hadLost>> /\ UNCHANGED worldVars /\ left' = left /\ asking' = asking
          /\ failing' \subseteq Action
      BY <2>2 DEF ApproveFails, ForgetFailure, Actions, ActionsTyped, Assumptions, OneActionEach
    <3>2. Actions' /\ EndsStay /\ RowsStay /\ \A b \in Action : state[b] = "none" => state'[b] = "none"
      BY <3>1, IdleKeeps DEF Actions, ActionsTyped
    <3> QED
      BY <2>2, <3>2, ActionsAlone
  <2> QED
    BY <1>2, <2>1, <2>2 DEF Breaks
<1>3. CASE Purge /\ UNCHANGED <<pendingVars, faults>>
  BY <1>3, MiddlewareKeeps, KeysAlone
<1>4. ASSUME NEW a \in Action, Settle(a), UNCHANGED <<keyVars, requestVars, faults>>
      PROVE  IInv' /\ EndsStay
  BY <1>4, SettleKeeps, ActionsAlone
<1>5. CASE (Expire \/ World) /\ UNCHANGED <<keyVars, requestVars, faults>>
  BY <1>5, ExpireKeeps, WorldKeeps, ActionsAlone
<1>6. CASE Tick
  BY <1>6, TickKeeps
<1>7. CASE UNCHANGED vars
  <2>1. UNCHANGED keyVars /\ UNCHANGED requestVars /\ UNCHANGED pendingVars
    BY <1>7 DEF vars
  <2>2. Keyed' /\ Passes
    BY <2>1 DEF Keyed, KeysTyped, RequestsTyped, Held, Undivided, Passes, keyVars, requestVars
  <2> QED
    BY <2>1, <2>2, KeysAlone
<1> QED
  BY <1>1, <1>2, <1>3, <1>4, <1>5, <1>6, <1>7 DEF Next

\* The invariant holds in every state that is reached.
LEMMA Invariance == ASSUME Assumptions PROVE Spec => []IInv
<1>1. Init => IInv
  BY Initially
<1>2. IInv /\ [Next]_vars => IInv'
  BY Stepwise
<1> QED
  BY <1>1, <1>2, PTL DEF Spec

-----------------------------------------------------------------------------
(* What is to be known of requests to delete *)

\* Types of both parts, and one pending action of a requester for a target.
THEOREM TypeCorrect == ASSUME Assumptions PROVE Spec => []TypeOK
<1>1. IInv => TypeOK
  BY InvTyped
<1> QED
  BY <1>1, Invariance, PTL

\* The answer a key keeps is its own request's, for any number of requests,
\* keys, take-overs and purges.
THEOREM OwnAnswers == ASSUME Assumptions PROVE Spec => []StoredAnswerIsTheHolders
<1>1. IInv => StoredAnswerIsTheHolders
  BY InvPromises
<1> QED
  BY <1>1, Invariance, PTL

\* Repeats under a key that has not lapsed name one action, which was opened.
THEOREM RepeatsTold == ASSUME Assumptions PROVE Spec => []RepeatsAgree
<1>1. IInv => RepeatsAgree
  BY InvPromises
<1> QED
  BY <1>1, Invariance, PTL

\* A target is deleted by one action, in the version it was opened for.
THEOREM DeletedOnce == ASSUME Assumptions PROVE Spec => []DeletedOnceAsShown
<1>1. IInv => DeletedOnceAsShown
  BY DEF IInv, Actions
<1> QED
  BY <1>1, Invariance, PTL

\* Of all that compete to end an action the first to commit is the only one.
THEOREM EndsAreFinal == ASSUME Assumptions PROVE Spec => EndIsFinal
<1>1. IInv /\ [Next]_vars => [EndsStay]_state
  BY Stepwise
<1> QED
  BY <1>1, Invariance, PTL DEF Spec, EndIsFinal, EndsStay

-----------------------------------------------------------------------------
(* When requests end within their reservation *)

Working(q) == at[q] \in {"handler", "answer"} /\ keyOf[q] \in Key

\* A second delivery of a key finds the first one's reservation as long as that
\* is at work, and is told so: no two requests of a key are at work at once.
OneAtWork ==
  \A q, s \in Request : Working(q) /\ Working(s) /\ keyOf[q] = keyOf[s] => q = s

\* Who is at work holds the reservation of its key, and it has not run out.
Reserved == \A q \in Request : Working(q) => Owns(q) /\ age[keyOf[q]] < InFlightLease

\* Who is not at work after a step leaves the others their rows.
LEMMA OthersReserved ==
  ASSUME Reserved, NEW q \in Request, keyOf' = keyOf,
         \A s \in Request : s # q => at'[s] = at[s],
         Working(q)' => Owns(q)' /\ age'[keyOf[q]] < InFlightLease,
         \A s \in Request : s # q /\ Working(s) =>
           /\ row'[keyOf[s]] = row[keyOf[s]] /\ token'[keyOf[s]] = token[keyOf[s]]
           /\ age'[keyOf[s]] = age[keyOf[s]]
  PROVE  Reserved'
<1> SUFFICES ASSUME NEW s \in Request
             PROVE  (Working(s) => Owns(s) /\ age[keyOf[s]] < InFlightLease)'
  BY DEF Reserved
<1>1. CASE s = q
  BY <1>1 DEF Working
<1>2. CASE s # q
  BY <1>2 DEF Reserved, Working, Owns
<1> QED BY <1>1, <1>2

\* A reservation is made where none is that has not run out: by nobody else at
\* work under the key.
LEMMA ReserveReserved ==
  ASSUME Assumptions, Keyed, Reserved, NEW q \in Request, Reserve(q)
  PROVE  Reserved'
<1> DEFINE k == keyOf[q]
<1>0. /\ k \in Key /\ keyOf' = keyOf /\ 0 < InFlightLease
      /\ \A s \in Request : s # q => at'[s] = at[s]
  BY DEF Reserve, Keyed, RequestsTyped, Assumptions, IdempotencyAssumption
<1>1. CASE Live(k)
  BY <1>0, <1>1, OthersReserved DEF Reserve, Working, keyVars, Keyed, RequestsTyped
<1>2. CASE ~ Live(k)
  <2>1. \A s \in Request : Working(s) => keyOf[s] # k
    BY <1>2 DEF Reserved, Owns, Live, Expired, Keyed, KeysTyped, Assumptions, IdempotencyAssumption
  <2>2. /\ row' = [row EXCEPT ![k] = "in_flight"] /\ token' = [token EXCEPT ![k] = q]
        /\ age' = [age EXCEPT ![k] = 0]
    BY <1>2 DEF Reserve
  <2>3. row'[k] = "in_flight" /\ token'[k] = q /\ age'[k] = 0
    BY <1>0, <2>2 DEF Keyed, KeysTyped
  <2>4. \A s \in Request : s # q /\ Working(s) =>
          /\ row'[keyOf[s]] = row[keyOf[s]] /\ token'[keyOf[s]] = token[keyOf[s]]
          /\ age'[keyOf[s]] = age[keyOf[s]]
    BY <2>1, <2>2 DEF Keyed, KeysTyped
  <2>5. Owns(q)'
    BY <1>0, <2>3 DEF Owns
  <2> QED
    BY <1>0, <2>3, <2>4, <2>5, OthersReserved
<1> QED BY <1>1, <1>2

\* A request that is done with its row touches no other's.
LEMMA DoneReserved ==
  ASSUME Assumptions, Keyed, Reserved, NEW q \in Request, Complete(q) \/ Release(q)
  PROVE  Reserved'
<1>1. /\ keyOf' = keyOf /\ ~ Working(q)'
      /\ \A s \in Request : s # q => at'[s] = at[s]
  BY DEF Complete, Release, Answered, Working, Keyed, RequestsTyped
<1>2. ASSUME NEW s \in Request, s # q, Working(s)
      PROVE  /\ row'[keyOf[s]] = row[keyOf[s]] /\ token'[keyOf[s]] = token[keyOf[s]]
             /\ age'[keyOf[s]] = age[keyOf[s]]
  <2>1. keyOf[s] \in Key /\ token[keyOf[s]] = s
    BY <1>2 DEF Reserved, Owns, Working
  <2>2. ~ (keyOf[s] = keyOf[q] /\ Owns(q))
    BY <1>2, <2>1 DEF Owns
  <2>3. CASE Complete(q)
    BY <2>1, <2>2, <2>3 DEF Complete, Keyed, KeysTyped
  <2>4. CASE Release(q)
    BY <2>1, <2>2, <2>4 DEF Release, Delete, Keyed, KeysTyped
  <2> QED BY <2>3, <2>4
<1> QED BY <1>1, <1>2, OthersReserved

\* No reservation that has run out is anybody's at work, and none of those is purged.
LEMMA PurgeReserved ==
  ASSUME Assumptions, Keyed, Reserved, Purge
  PROVE  Reserved'
<1>1. \A s \in Request : Working(s) => keyOf[s] \in Key \ RunOut
  BY DEF Reserved, Owns, Working, RunOut, Expired, Keyed, KeysTyped, Assumptions, IdempotencyAssumption
<1>2. \A k \in Key \ RunOut : row'[k] = row[k] /\ token'[k] = token[k] /\ age'[k] = age[k]
  BY DEF Purge, Delete
<1>3. at' = at /\ keyOf' = keyOf
  BY DEF Purge, requestVars
<1> QED BY <1>1, <1>2, <1>3 DEF Reserved, Working, Owns

\* A step that moves one request on, or none, and writes no row.
LEMMA MovesReserved ==
  ASSUME Reserved, UNCHANGED keyVars, keyOf' = keyOf,
         \A s \in Request : Working(s)' => Working(s)
  PROVE  Reserved'
BY DEF Reserved, Owns, keyVars

\* The clock lets a request at work finish.
LEMMA TickReserved ==
  ASSUME Assumptions, Prompt, Keyed, Reserved, Tick
  PROVE  Reserved'
<1>1. OnTime /\ AgeTick /\ row' = row /\ token' = token /\ at' = at /\ keyOf' = keyOf
  BY DEF Tick, requestVars
<1>2. ASSUME NEW q \in Request, Working(q) PROVE age'[keyOf[q]] < InFlightLease
  BY <1>1, <1>2 DEF OnTime, AgeTick, Reserved, Working, Keyed, KeysTyped, Assumptions, IdempotencyAssumption
<1> QED BY <1>1, <1>2 DEF Reserved, Working, Owns

\* Every step keeps the reservations of who is at work.
LEMMA StepReserved ==
  ASSUME Assumptions, Prompt, Keyed, Reserved, [Next]_vars
  PROVE  Reserved'
<1>1. ASSUME NEW q \in Request, Handler(q) PROVE Reserved'
  <2>1. CASE \E answer : Handled(q, answer)
    <3>1. /\ UNCHANGED keyVars /\ keyOf' = keyOf /\ at[q] = "handler"
          /\ \A s \in Request : s # q => at'[s] = at[s]
      BY <2>1 DEF Handled, Keyed, RequestsTyped
    <3> QED BY <3>1, MovesReserved DEF Working
  <2>2. CASE UNCHANGED <<keyVars, requestVars>>
    BY <2>2, MovesReserved DEF requestVars, Working
  <2> QED BY <1>1, <2>1, <2>2 DEF Handler, Open202, Retry409
<1>2. ASSUME NEW q \in Request, AnswerKey(q) PROVE Reserved'
  <2>1. CASE Unkeyed(q)
    <3>1. /\ UNCHANGED keyVars /\ keyOf' = keyOf /\ keyOf[q] \notin Key
          /\ \A s \in Request : s # q => at'[s] = at[s]
      BY <2>1 DEF Unkeyed, Keyed, RequestsTyped, Assumptions, IdempotencyAssumption
    <3> QED BY <3>1, MovesReserved DEF Working
  <2>2. CASE Look(q)
    <3>1. /\ UNCHANGED keyVars /\ keyOf' = keyOf /\ at'[q] \in {"over", "new"}
          /\ \A s \in Request : s # q => at'[s] = at[s]
      BY <2>2 DEF Look, Answered, Keyed, RequestsTyped
    <3> QED BY <3>1, MovesReserved DEF Working
  <2> QED BY <1>2, <2>1, <2>2, ReserveReserved, DoneReserved DEF AnswerKey
<1>3. ASSUME NEW q \in Request, Unstored(q) \/ Die(q) PROVE Reserved'
  <2>1. /\ UNCHANGED keyVars /\ keyOf' = keyOf /\ at'[q] = "over"
        /\ \A s \in Request : s # q => at'[s] = at[s]
    BY <1>3 DEF Unstored, Die, Answered, Keyed, RequestsTyped
  <2> QED BY <2>1, MovesReserved DEF Working
<1>4. CASE UNCHANGED <<keyVars, requestVars>>
  BY <1>4, MovesReserved DEF requestVars, Working
<1> QED
  BY <1>1, <1>2, <1>3, <1>4, PurgeReserved, TickReserved DEF Next, Serve, Breaks, vars

\* When requests end within IDEMPOTENCY_IN_FLIGHT_LEASE_MS, whatever dies or is
\* sent again, no two requests of one key are ever at work at once: the second
\* is answered with a conflict or with the stored answer.
THEOREM OneHandlerPerKey == ASSUME Assumptions, Prompt PROVE Spec => []OneAtWork
<1>1. Init => Reserved
  BY DEF Init, IdempotencyInit, Reserved, Working
<1>2. IInv /\ Reserved /\ [Next]_vars => Reserved'
  BY StepReserved DEF IInv
<1>3. Reserved => OneAtWork
  BY DEF Reserved, OneAtWork, Owns
<1> QED BY <1>1, <1>2, <1>3, Invariance, PTL DEF Spec
=============================================================================
