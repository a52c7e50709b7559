--------------------------- MODULE WebhookDelivery ---------------------------
(***************************************************************************)
(* One webhook and its delivery rows: the drain that claims, checks, posts *)
(* and records deliveries (webhook/delivery.ts), the requests that edit,   *)
(* remove or redeliver (webhook/repository.ts, webhook/index.ts) and the   *)
(* consumer that queues events (webhook/consumer.ts). Webhooks share no    *)
(* state, so one stands for all. Every step is one statement or one        *)
(* transaction of the database, or the end of a POST; workers interleave   *)
(* between them.                                                           *)
(*                                                                         *)
(* Instants are kept as ticks left or ticks passed. An instant that a      *)
(* process takes lies before the commit that stores it, and the clock it   *)
(* is taken from may be behind the database's. The comparison of a row's   *)
(* created_at with destination_changed_at is kept as the flag "older", and *)
(* what a body was addressed to as the generation of the destination it    *)
(* was built for.                                                          *)
(***************************************************************************)
EXTENDS Naturals

CONSTANTS
  Delivery,        \* ids of webhook_delivery rows
  Worker,          \* concurrent calls of processNextWebhookDelivery
  Token,           \* lease tokens (randomUUID)
  Person,          \* people who may own the webhook
  Leavers,         \* those of them who may be deactivated or leave
  NoDelivery, NoToken,
  SourceOf,        \* Delivery -> "event", "redelivery" or "test"
  Creator,         \* the person who created the webhook
  Lease,           \* WEBHOOK_LEASE_MS, in ticks
  Timeout,         \* WEBHOOK_TIMEOUT_MS, in ticks
  RetryDelay,      \* WEBHOOK_RETRY_DELAYS_MS, by attempt number
  Limit,           \* WEBHOOK_ATTEMPT_LIMIT
  DisableAfter,    \* WEBHOOK_AUTO_DISABLE_AFTER_MS, in ticks
  Skew,            \* how far a process's clock may be behind another's or the database's
  MaxLag,          \* bound on how old the instant of a result is when it is recorded
  MaxClaims,       \* Delivery -> bound on its claims
  MaxEdits,        \* bound on edits of the webhook
  MaxCrashes,      \* bound on processes that die
  Prompt           \* a drain is never slower than the clock, but for the POST

Sources == {"event", "redelivery", "test"}

ASSUME WebhookAssumption ==
  /\ NoDelivery \notin Delivery /\ NoToken \notin Token
  /\ SourceOf \in [Delivery -> Sources] /\ Creator \in Person /\ Leavers \subseteq Person
  /\ Lease \in Nat \ {0} /\ Timeout \in Nat /\ DisableAfter \in Nat \ {0}
  /\ Limit \in Nat \ {0} /\ RetryDelay \in [1 .. Limit - 1 -> Nat]
  /\ MaxLag \in 0 .. DisableAfter - 1 /\ Skew \in 0 .. MaxLag
  /\ MaxClaims \in [Delivery -> Nat] /\ MaxEdits \in Nat /\ MaxCrashes \in Nat
  /\ Prompt \in BOOLEAN

VARIABLES
  delivery,    \* Delivery -> webhook_delivery row
  webhook,     \* the webhook row
  calm,        \* ticks since the last success, new destination or re-enabling
  staff,       \* people who are still active members of the workspace
  request,     \* what a redelivery request has read and checked, or NoRequest
  editing,     \* the transaction of an edit, which holds the webhook's row lock
  pc, job,     \* Worker -> position in the drain, delivery it claimed
  got,         \* Worker -> delivery row as read after the claim
  seen,        \* Worker -> webhook row as read
  until,       \* Worker -> ticks to the deadline of its POST
  lag,         \* Worker -> ticks since the instant of the result it has
  crossed,     \* history: rows an edit overtook (see BodyStaysWithDestination)
  edits, crashes

workerVars == <<pc, job, got, seen, until, lag>>
requestVars == <<request, editing, crossed, edits>>
vars == <<delivery, webhook, calm, staff, requestVars, workerVars, crashes>>

NoBody == 0
NoRow == [state |-> "none", attempt |-> 0, due |-> 0, token |-> NoToken, ttl |-> 0,
          body |-> NoBody, older |-> FALSE, age |-> 0]
NoRequest == [from |-> NoDelivery, body |-> NoBody, gen |-> 0]
NoEdit == [open |-> FALSE, owner |-> Creator, young |-> {}]
NothingRead == [token |-> NoToken, attempt |-> 0, body |-> NoBody]
NoneSeen == [owner |-> Creator, gen |-> 0, version |-> 0]

Finished == {"delivered", "dead", "skipped_out_of_reach", "cancelled"}
FinishLabels == {"cancel", "stale", "skip"}
Results == {"succeeded", "failed"}
Labels == {"idle", "claimed", "read", "checked", "pause", "sending", "succeeded", "failed"}
            \cup FinishLabels

Init ==
  /\ delivery = [d \in Delivery |-> NoRow]
  /\ webhook = [exists |-> TRUE, active |-> TRUE, reason |-> "none", owner |-> Creator,
                gen |-> 1, version |-> 1, failing |-> FALSE, age |-> 0]
  /\ calm = 0
  /\ staff = Person
  /\ request = NoRequest /\ editing = NoEdit /\ crossed = {}
  /\ pc = [w \in Worker |-> "idle"]
  /\ job = [w \in Worker |-> NoDelivery]
  /\ got = [w \in Worker |-> NothingRead]
  /\ seen = [w \in Worker |-> NoneSeen]
  /\ until = [w \in Worker |-> 0]
  /\ lag = [w \in Worker |-> 0]
  /\ edits = 0 /\ crashes = 0

-----------------------------------------------------------------------------
(* Queueing *)

\* An insert waits for the lock of an edit: its foreign key needs the webhook's row.
Unlocked == ~ editing.open

\* A row's created_at is the start of its transaction, and the clock that dates an
\* edit may be ahead: a row inserted after an edit may still seem created before.
SeemsOlder == {older \in BOOLEAN : older => webhook.gen > 1}

Queued(d, older) == [delivery[d] EXCEPT !.state = "pending", !.older = older]

\* enqueueWebhookDeliveries: the consumer queues an event for an active webhook.
EnqueueEvent(d) ==
  /\ SourceOf[d] = "event" /\ delivery[d].state = "none"
  /\ webhook.exists /\ webhook.active /\ Unlocked
  /\ \E older \in SeemsOlder : delivery' = [delivery EXCEPT ![d] = Queued(d, older)]
  /\ UNCHANGED <<webhook, calm, staff, requestVars, workerVars, crashes>>

\* The test route: a synthetic body, for whatever destination there is.
EnqueueTest(d) ==
  /\ SourceOf[d] = "test" /\ delivery[d].state = "none"
  /\ webhook.exists /\ webhook.active /\ Unlocked
  /\ \E older \in SeemsOlder :
       delivery' = [delivery EXCEPT ![d] = [Queued(d, older) EXCEPT !.body = webhook.gen]]
  /\ UNCHANGED <<webhook, calm, staff, requestVars, workerVars, crashes>>

\* The redelivery route refuses a paused webhook and a delivery created before
\* the destination changed ...
CheckRedelivery(original) ==
  /\ request = NoRequest
  /\ delivery[original].state \in Finished \cup {"pending"}
  /\ delivery[original].body # NoBody
  /\ webhook.exists /\ webhook.active /\ ~delivery[original].older
  /\ request' = [from |-> original, body |-> delivery[original].body, gen |-> webhook.gen]
  /\ UNCHANGED <<delivery, webhook, calm, staff, editing, crossed, edits, workerVars, crashes>>

\* An edit of the destination came between the check and the insert.
Overtaken == request.gen # webhook.gen

\* ... and enqueueRedelivery then copies its body into a fresh row.
EnqueueRedelivery(d) ==
  /\ request # NoRequest /\ webhook.exists /\ Unlocked
  /\ SourceOf[d] = "redelivery" /\ delivery[d].state = "none"
  /\ \E older \in SeemsOlder :
       delivery' = [delivery EXCEPT ![d] = [Queued(d, older) EXCEPT !.body = request.body]]
  /\ request' = NoRequest
  /\ crossed' = IF Overtaken \/ request.from \in crossed THEN crossed \cup {d} ELSE crossed
  /\ UNCHANGED <<webhook, calm, staff, editing, edits, workerVars, crashes>>

-----------------------------------------------------------------------------
(* The drain: claim, read, check *)

Goto(w, label) ==
  /\ pc' = [pc EXCEPT ![w] = label]
  /\ UNCHANGED <<job, got, seen, until, lag>>

Return(w) ==
  /\ pc' = [pc EXCEPT ![w] = "idle"]
  /\ job' = [job EXCEPT ![w] = NoDelivery]
  /\ got' = [got EXCEPT ![w] = NothingRead]
  /\ seen' = [seen EXCEPT ![w] = NoneSeen]
  /\ until' = [until EXCEPT ![w] = 0]
  /\ lag' = [lag EXCEPT ![w] = 0]

Fresh(t) == /\ \A d \in Delivery : delivery[d].token # t
            /\ \A w \in Worker : got[w].token # t

ClaimableIgnoringExpiry(d) ==
  delivery[d].state = "pending" /\ delivery[d].due = 0 /\ delivery[d].token = NoToken
ClaimableIgnoringLease(d) == delivery[d].state = "pending" /\ delivery[d].due = 0

\* A due pending row without a live lease.
Claimable(d) ==
  delivery[d].state = "pending" /\ delivery[d].due = 0 /\ delivery[d].ttl = 0

\* claimDelivery, its UPDATE: the attempt is counted and a lease taken ...
Claim(w, d) ==
  /\ pc[w] = "idle"
  /\ Claimable(d)
  /\ delivery[d].attempt < MaxClaims[d]
  /\ \E t \in Token :
       /\ Fresh(t)
       /\ delivery' = [delivery EXCEPT ![d].attempt = @ + 1, ![d].token = t, ![d].ttl = Lease]
  /\ pc' = [pc EXCEPT ![w] = "claimed"]
  /\ job' = [job EXCEPT ![w] = d]
  /\ UNCHANGED <<webhook, calm, staff, requestVars, got, seen, until, lag, crashes>>

\* ... and its SELECT, a statement of its own: it reads the row as it is by then.
ReadDelivery(w) ==
  LET row == delivery[job[w]]
  IN  /\ pc[w] = "claimed"
      /\ IF row.state = "gone"
         THEN Return(w)
         ELSE /\ pc' = [pc EXCEPT ![w] = "read"]
              /\ got' = [got EXCEPT ![w] =
                           [token |-> row.token, attempt |-> row.attempt, body |-> row.body]]
              /\ UNCHANGED <<job, seen, until, lag>>
      /\ UNCHANGED <<delivery, webhook, calm, staff, requestVars, crashes>>

DestinationNeverChanged(w) == FALSE

\* A stored body was addressed to the destination and owner of its creation.
DestinationChanged(w) ==
  SourceOf[job[w]] # "test" /\ got[w].body # NoBody /\ delivery[job[w]].older

ReadWebhook(w) ==
  /\ pc[w] = "read"
  /\ IF ~webhook.exists \/ ~webhook.active
     THEN Goto(w, "cancel")
     ELSE IF DestinationChanged(w)
     THEN Goto(w, "stale")
     ELSE /\ pc' = [pc EXCEPT ![w] = "checked"]
          /\ seen' = [seen EXCEPT ![w] = [owner |-> webhook.owner, gen |-> webhook.gen,
                                          version |-> webhook.version]]
          /\ UNCHANGED <<job, got, until, lag>>
  /\ UNCHANGED <<delivery, webhook, calm, staff, requestVars, crashes>>

\* The envelope is gone, the event is no longer subscribed, or nothing of the
\* change is visible outside.
NothingToSend(w) ==
  /\ pc[w] = "checked" /\ SourceOf[job[w]] = "event"
  /\ Goto(w, "cancel")
  /\ UNCHANGED <<delivery, webhook, calm, staff, requestVars, crashes>>

OwnerGone(w) ==
  /\ pc[w] = "checked" /\ SourceOf[job[w]] # "test"
  /\ seen[w].owner \notin staff
  /\ Goto(w, "pause")
  /\ UNCHANGED <<delivery, webhook, calm, staff, requestVars, crashes>>

OutOfReach(w) ==
  /\ pc[w] = "checked" /\ SourceOf[job[w]] # "test"
  /\ seen[w].owner \in staff
  /\ Goto(w, "skip")
  /\ UNCHANGED <<delivery, webhook, calm, staff, requestVars, crashes>>

\* The body, built now if the row has none, is posted to the url that was read.
Send(w) ==
  /\ pc[w] = "checked"
  /\ SourceOf[job[w]] = "test" \/ seen[w].owner \in staff
  /\ got' = [got EXCEPT ![w].body = IF @ = NoBody THEN seen[w].gen ELSE @]
  /\ pc' = [pc EXCEPT ![w] = "sending"]
  /\ until' = [until EXCEPT ![w] = Timeout]
  /\ UNCHANGED <<delivery, webhook, calm, staff, requestVars, job, seen, lag, crashes>>

-----------------------------------------------------------------------------
(* The drain: ending without a POST *)

\* pauseWebhook writes the version it read, plus one, to any active webhook.
Pause(w) ==
  /\ pc[w] = "pause" /\ Unlocked
  /\ webhook' = IF webhook.exists /\ webhook.active
                THEN [webhook EXCEPT !.active = FALSE, !.reason = "owner_left",
                                     !.version = seen[w].version + 1]
                ELSE webhook
  /\ Goto(w, "cancel")
  /\ UNCHANGED <<delivery, calm, staff, requestVars, crashes>>

FencedByRow(w) == delivery[job[w]].state # "gone"

\* The row still carries the lease token that was read.
Fenced(w) == got[w].token # NoToken /\ delivery[job[w]].token = got[w].token

LeaseKept(row, state) == [row EXCEPT !.state = state]
Released(row, state) == [row EXCEPT !.state = state, !.token = NoToken, !.ttl = 0]

\* The row of a delivery that is not sent: its attempt is given back, and the
\* body of one out of reach is dropped.
Unsent(row, w) ==
  LET skipped == [Released(row, "skipped_out_of_reach") EXCEPT !.body = NoBody]
  IN  [IF pc[w] = "skip" THEN skipped ELSE Released(row, "cancelled")
         EXCEPT !.attempt = got[w].attempt - 1]

FinishWithoutSend(w) ==
  /\ pc[w] \in FinishLabels
  /\ delivery' = IF Fenced(w) THEN [delivery EXCEPT ![job[w]] = Unsent(@, w)] ELSE delivery
  /\ Return(w)
  /\ UNCHANGED <<webhook, calm, staff, requestVars, crashes>>

-----------------------------------------------------------------------------
(* The drain: the POST and its outcome *)

\* A 2xx answer, any other, an error, or the request deadline; the instant of the
\* result is read now, from a clock that may be behind.
Answer(w) ==
  /\ pc[w] = "sending"
  /\ \E label \in {"succeeded", "failed"} : pc' = [pc EXCEPT ![w] = label]
  /\ \E behind \in 0 .. Skew : lag' = [lag EXCEPT ![w] = behind]
  /\ until' = [until EXCEPT ![w] = 0]
  /\ UNCHANGED <<delivery, webhook, calm, staff, requestVars, job, got, seen, crashes>>

Minus(n, k) == IF n > k THEN n - k ELSE 0

\* outcomeAfterAttempt: the row after an attempt; a retry is due its delay after
\* the instant of the result.
Attempted(row, w) ==
  IF pc[w] = "succeeded" THEN Released(row, "delivered")
  ELSE IF got[w].attempt >= Limit THEN Released(row, "dead")
  ELSE [Released(row, "pending") EXCEPT !.due = Minus(RetryDelay[got[w].attempt], lag[w])]

\* nextFailureStreak and the pause it asks for, on the webhook row under its lock,
\* for a result whose instant lies "late" ticks back: a streak starts at the
\* instant of its first failure, and is long enough at the instant of a later one.
AfterFailure(late) ==
  IF webhook.failing /\ webhook.age >= DisableAfter + late /\ webhook.active
  THEN [webhook EXCEPT !.active = FALSE, !.reason = "failing_24h", !.version = @ + 1]
  ELSE [webhook EXCEPT !.failing = TRUE, !.age = IF webhook.failing THEN @ ELSE late]

StreakKeptBySuccess(success, late) == IF success THEN webhook ELSE AfterFailure(late)

AfterStreak(success, late) ==
  IF success THEN [webhook EXCEPT !.failing = FALSE, !.age = 0] ELSE AfterFailure(late)

\* recordAttempt: one transaction over both rows; nothing if the lease is lost.
Record(w) ==
  LET success == pc[w] = "succeeded"
      counts == SourceOf[job[w]] # "test" /\ webhook.exists
  IN  /\ pc[w] \in Results
      /\ IF Fenced(w)
         THEN /\ counts => Unlocked
              /\ delivery' = [delivery EXCEPT ![job[w]] =
                                [Attempted(@, w) EXCEPT !.body = got[w].body]]
              /\ webhook' = IF counts THEN AfterStreak(success, lag[w]) ELSE webhook
              /\ calm' = IF counts /\ success THEN 0 ELSE calm
         ELSE UNCHANGED <<delivery, webhook, calm>>
      /\ Return(w)
      /\ UNCHANGED <<staff, requestVars, crashes>>

-----------------------------------------------------------------------------
(* Requests and the rest of the system *)

\* A new url, or enabling, starts a fresh failure window.
FreshWindow(newUrl, act) == newUrl \/ act = "on"

\* Rows created less than this before the instant of an edit seem younger to a
\* clock that is behind.
CreatedWithin(behind) ==
  {d \in Delivery : delivery[d].state # "none" /\ delivery[d].age < behind}

\* updateWebhook takes the row lock and reads the clock, for a request that keeps the
\* owner or re-owns ...
BeginUpdate(owner) ==
  /\ webhook.exists /\ Unlocked /\ edits < MaxEdits
  /\ owner \in staff \cup {webhook.owner}
  /\ \E behind \in 0 .. Skew :
       editing' = [open |-> TRUE, owner |-> owner, young |-> CreatedWithin(behind)]
  /\ UNCHANGED <<delivery, webhook, calm, staff, request, crossed, edits, workerVars, crashes>>

\* ... is refused (a stale version, a spent proof) or dies ...
RollBackUpdate ==
  /\ editing.open
  /\ editing' = NoEdit
  /\ UNCHANGED <<delivery, webhook, calm, staff, request, crossed, edits, workerVars, crashes>>

Dated == [d \in Delivery |->
            [delivery[d] EXCEPT !.older = delivery[d].state # "none" /\ d \notin editing.young]]

\* ... or commits, under the instant it read: perhaps a new url, and the webhook
\* switched on, switched off or left as it is.
CommitUpdate(newUrl, act) ==
  LET moved == newUrl \/ editing.owner # webhook.owner
      fresh == FreshWindow(newUrl, act)
  IN  /\ editing.open
      /\ webhook' =
           [webhook EXCEPT
              !.owner = editing.owner,
              !.version = @ + 1,
              !.gen = IF moved THEN @ + 1 ELSE @,
              !.failing = @ /\ ~fresh,
              !.age = IF fresh THEN 0 ELSE @,
              !.active = act = "on" \/ (@ /\ act = "keep"),
              !.reason = CASE act = "on" -> "none"
                           [] act = "off" -> "manual" [] OTHER -> @]
      /\ delivery' = IF moved THEN Dated ELSE delivery
      /\ crossed' = IF moved THEN crossed \cup editing.young ELSE crossed
      /\ calm' = IF newUrl \/ act = "on" THEN 0 ELSE calm
      /\ editing' = NoEdit
      /\ edits' = edits + 1
      /\ UNCHANGED <<staff, request, workerVars, crashes>>

EndUpdate ==
  \/ \E newUrl \in BOOLEAN, act \in {"on", "off", "keep"} : CommitUpdate(newUrl, act)
  \/ RollBackUpdate

\* disableWebhooksWithRemovedEvents
DisableRemovedEvent ==
  /\ webhook.exists /\ webhook.active /\ Unlocked /\ edits < MaxEdits
  /\ webhook' = [webhook EXCEPT !.active = FALSE, !.reason = "event_removed", !.version = @ + 1]
  /\ edits' = edits + 1
  /\ UNCHANGED <<delivery, calm, staff, request, editing, crossed, workerVars, crashes>>

\* No row; a worker that read it still knows its created_at.
Gone(d) == [NoRow EXCEPT !.state = "gone", !.older = delivery[d].older, !.age = delivery[d].age]

\* An approved deletion removes the webhook and, by cascade, its deliveries.
Delete ==
  /\ webhook.exists /\ Unlocked /\ edits < MaxEdits
  /\ webhook' = [webhook EXCEPT !.exists = FALSE, !.failing = FALSE, !.age = 0]
  /\ delivery' = [d \in Delivery |-> Gone(d)]
  /\ edits' = edits + 1
  /\ UNCHANGED <<calm, staff, request, editing, crossed, workerVars, crashes>>

\* purgeExpiredWebhookDeliveries, once the retention of the row has passed.
Purge(d) ==
  /\ delivery[d].state \in Finished /\ delivery[d].token = NoToken
  /\ delivery' = [delivery EXCEPT ![d] = Gone(d)]
  /\ UNCHANGED <<webhook, calm, staff, requestVars, workerVars, crashes>>

\* A person is deactivated or leaves the workspace.
Leave(p) ==
  /\ p \in staff
  /\ staff' = staff \ {p}
  /\ UNCHANGED <<delivery, webhook, calm, requestVars, workerVars, crashes>>

Crash(w) ==
  /\ pc[w] # "idle" /\ crashes < MaxCrashes
  /\ crashes' = crashes + 1
  /\ Return(w)
  /\ UNCHANGED <<delivery, webhook, calm, staff, requestVars>>

Less(n) == IF n = 0 THEN 0 ELSE n - 1
More(n, most) == IF n = most THEN n ELSE n + 1

Responsive == \A w \in Worker : pc[w] = "idle" \/ (pc[w] = "sending" /\ until[w] > 0)

Older(row) == [row EXCEPT !.due = Less(@), !.ttl = Less(@),
                          !.age = IF row.state = "none" THEN @ ELSE More(@, Skew)]

Tick ==
  /\ Prompt => Responsive
  /\ \A w \in Worker : pc[w] \in Results => lag[w] < MaxLag
  /\ delivery' = [d \in Delivery |-> Older(delivery[d])]
  /\ webhook' = [webhook EXCEPT !.age = IF webhook.failing THEN More(@, DisableAfter + MaxLag) ELSE @]
  /\ calm' = More(calm, DisableAfter - MaxLag)
  /\ until' = [w \in Worker |-> Less(until[w])]
  /\ lag' = [w \in Worker |-> IF pc[w] \in Results THEN lag[w] + 1 ELSE lag[w]]
  /\ UNCHANGED <<staff, requestVars, pc, job, got, seen, crashes>>

-----------------------------------------------------------------------------

Step(w) ==
  \/ \E d \in Delivery : Claim(w, d)
  \/ ReadDelivery(w) \/ ReadWebhook(w) \/ NothingToSend(w)
  \/ OwnerGone(w) \/ OutOfReach(w) \/ Send(w)
  \/ Pause(w) \/ FinishWithoutSend(w) \/ Answer(w) \/ Record(w)

Next ==
  \/ \E w \in Worker : Step(w) \/ Crash(w)
  \/ \E d \in Delivery :
       \/ EnqueueEvent(d) \/ EnqueueTest(d)
       \/ CheckRedelivery(d) \/ EnqueueRedelivery(d) \/ Purge(d)
  \/ \E owner \in Person : BeginUpdate(owner)
  \/ EndUpdate
  \/ \E p \in Leavers : Leave(p)
  \/ DisableRemovedEvent \/ Delete \/ Tick

Spec == Init /\ [][Next]_vars

\* outbox-drain calls the drain every 30 seconds, a running drain goes on, a
\* POST ends by its deadline, a transaction ends, and the oldest due row is claimed
\* first. Nothing else is assumed of requests, edits, purges and crashes.
Fairness ==
  /\ WF_vars(Tick) /\ WF_vars(EndUpdate)
  /\ \A w \in Worker :
       WF_vars(Step(w)) /\ \A d \in Delivery : SF_vars(Claim(w, d))

FairSpec == Spec /\ Fairness

-----------------------------------------------------------------------------
(* Properties *)

\* Rows and workers keep their types; the lease fields of a row and its state
\* move together, as claimDelivery, finishWithoutSend and recordAttempt set
\* them: only a pending row is leased.
TypeOK ==
  /\ delivery \in [Delivery -> [state : Finished \cup {"none", "pending", "gone"},
                                attempt : Nat, due : Nat,
                                token : Token \cup {NoToken}, ttl : 0 .. Lease,
                                body : 0 .. webhook.gen, older : BOOLEAN, age : 0 .. Skew]]
  /\ webhook \in [exists : BOOLEAN, active : BOOLEAN, owner : Person,
                  reason : {"none", "manual", "failing_24h", "owner_left", "event_removed"},
                  gen : 1 .. MaxEdits + 1, version : Nat, failing : BOOLEAN,
                  age : 0 .. DisableAfter + MaxLag]
  /\ calm \in 0 .. DisableAfter - MaxLag /\ staff \subseteq Person
  /\ request.body \in 0 .. webhook.gen /\ editing.young \subseteq Delivery
  /\ pc \in [Worker -> Labels]
  /\ job \in [Worker -> Delivery \cup {NoDelivery}]
  /\ \A d \in Delivery : delivery[d].token # NoToken => delivery[d].state = "pending"

\* An outcome, once recorded, is never overwritten: a worker whose lease was
\* taken over, or who comes back after the winner recorded, changes nothing
\* (the lease fence of finishWithoutSend and recordAttempt).
OutcomeIsFinal ==
  [][\A d \in Delivery :
       delivery[d].state \in Finished =>
         \/ delivery'[d].state = "gone"
         \/ delivery'[d] = [delivery[d] EXCEPT !.older = delivery'[d].older,
                                               !.age = delivery'[d].age]]_vars

\* WH-4, WH-8: whatever workers, leases, edits and purges do, the rows are a log of
\* deliveries: an answer is recorded under the count of its own try, at most once
\* and never over an outcome, and a retry sends the body that was recorded.
Ledger ==
  INSTANCE WebhookLedger
    WITH Body <- 1 .. MaxEdits + 1,
         state <- [d \in Delivery |-> delivery[d].state],
         attempt <- [d \in Delivery |-> delivery[d].attempt],
         open <- [d \in Delivery |-> delivery[d].token # NoToken],
         body <- [d \in Delivery |-> delivery[d].body]
ImplementsLedger == Ledger!Spec

\* P4R1-H1: what a body was built for, a destination and an owner, is what it
\* is posted to, however edits of the webhook interleave with the drain and with
\* redeliveries. Excepted are the rows of "crossed": created so shortly before an
\* edit that a slow clock dates it earlier, or copied by a redelivery that an edit
\* overtook between its check and its insert, or copied from such a row.
BodyStaysWithDestination ==
  \A w \in Worker :
    pc[w] = "sending" /\ SourceOf[job[w]] # "test" /\ job[w] \notin crossed =>
      got[w].body = seen[w].gen

\* WH-7: a webhook is only paused for failing when no attempt was recorded as a
\* success, and neither a new destination nor a re-enabling came, for the whole
\* window, but for what the instant of its first failure lay before its recording.
DisabledOnlyAfterWindow ==
  [][webhook.active /\ ~webhook'.active /\ webhook'.reason = "failing_24h"
       => calm >= DisableAfter - MaxLag]_vars

\* A claimed delivery is posted by one worker at a time: "the HTTP deadline is
\* well inside" the lease (constants.ts).
SinglePost ==
  \A v, w \in Worker :
    v # w /\ pc[v] = "sending" /\ pc[w] = "sending" => job[v] # job[w]

\* Every queued delivery is eventually finished or removed, although workers
\* die holding leases and endpoints never answer 2xx.
EventuallyFinished ==
  \A d \in Delivery : delivery[d].state = "pending" ~> delivery[d].state # "pending"

=============================================================================
