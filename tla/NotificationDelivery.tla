------------------------ MODULE NotificationDelivery ------------------------
(***************************************************************************)
(* The drain of immediate notification deliveries of the service desk      *)
(* (notification/outbox-drain.ts) over its two tables: notification_delivery*)
(* and outbox_dedupe_reservation (notification-delivery.repository.ts).    *)
(* Every step below is one database transaction, or one event of the       *)
(* provider call, of one worker; workers interleave between transactions.  *)
(* Instants are kept as the ticks left until they pass, so Tick is the     *)
(* database clock and no clock bound is needed.                            *)
(***************************************************************************)
EXTENDS Naturals

CONSTANTS
  Delivery,          \* rows of notification_delivery with digest_id NULL
  Worker,            \* concurrent calls of processNextNotificationDelivery
  Token,             \* lease tokens (randomUUID)
  Dedupe,            \* (recipient, channel, dedupe_key) triples
  Key,               \* reservation keys, the hashes of those triples
  NoDelivery, NoToken,
  DedupeOf,          \* Delivery -> Dedupe
  KeyOf,             \* Dedupe -> Key
  Lease, Renewal, Deadline, Window, Backoff,    \* in ticks
  RetryDelay,        \* retry schedule, by attempt number
  Limit,             \* NOTIFICATION_ATTEMPT_LIMIT
  MaxDisturbances,   \* bound on crashes, deferrals, contention and requeues
  OnTime,            \* timers of a worker fire before the clock moves on
  PromptPreflight    \* a claim is decided while a renewal still fits its lease

ASSUME ConstantsAssumption ==
  /\ NoDelivery \notin Delivery /\ NoToken \notin Token
  /\ DedupeOf \in [Delivery -> Dedupe] /\ KeyOf \in [Dedupe -> Key]
  /\ Lease \in Nat \ {0} /\ Renewal \in Nat \ {0} /\ Deadline \in Nat \ {0}
  /\ Window \in Nat \ {0} /\ Backoff \in Nat \ {0}
  /\ Limit \in Nat \ {0} /\ RetryDelay \in [1 .. Limit - 1 -> Nat]
  /\ MaxDisturbances \in Nat
  /\ OnTime \in BOOLEAN /\ PromptPreflight \in BOOLEAN

VARIABLES
  state,       \* Delivery -> row state
  attempts,    \* Delivery -> provider attempts consumed
  wait,        \* Delivery -> ticks until next_attempt_at
  recent,      \* Delivery -> ticks delivered_at stays inside the window
  row,         \* Key -> reservation row, or NoRow
  reach,       \* deliveries whose recipient may currently be told
  pc,          \* Worker -> position in the drain
  job,         \* Worker -> the delivery it peeked
  held,        \* Worker -> lease token it believes it holds
  until,       \* Worker -> ticks to the instant it will write, or to its deadline
  renew,       \* Worker -> ticks to the next renewal of a running send
  disturbances

tableVars == <<state, attempts, wait, recent, row>>
workerVars == <<pc, job, held, until, renew>>
vars == <<state, attempts, wait, recent, row, reach,
          pc, job, held, until, renew, disturbances>>

RowStates == {"pending", "delivered", "suppressed", "dead"}

\* Labels of a worker before it has a reservation, while it holds one without
\* having checked the window, and from the window check on.
UnreservedLabels == {"claimed", "eligible", "defer", "suppress"}
ReservedLabels == {"acquired"}
CheckedLabels == {"checked", "authorize", "sending", "delivered"}
ReleasingLabels == {"fencedDefer", "fencedSuppress", "failed", "ambiguous"}
Labels == {"idle"} \cup UnreservedLabels \cup ReservedLabels
            \cup CheckedLabels \cup ReleasingLabels

NoRow == [owner |-> NoDelivery, token |-> NoToken, ttl |-> 0]
Rows == [owner : Delivery \cup {NoDelivery}, token : Token \cup {NoToken}, ttl : Nat]

ReservationKey(d) == KeyOf[DedupeOf[d]]

\* Slips of the fence, for the runs that show the properties notice them.
HoldsByOwner(w) ==
  LET r == row[ReservationKey(job[w])] IN r.owner = job[w] /\ r.ttl > 0

\* The reservation row of worker w's key still carries its owner, its token
\* and a lease that has not expired: the fence of every write below.
Holds(w) ==
  LET r == row[ReservationKey(job[w])]
  IN  r.owner = job[w] /\ r.token = held[w] /\ r.ttl > 0

NeverCollides(d) == FALSE

\* The key's row was written for another triple with the same hash.
Collides(d) ==
  LET r == row[ReservationKey(d)]
  IN  r.owner \in Delivery /\ DedupeOf[r.owner] # DedupeOf[d]

\* The key is unclaimed, or its claim expired, by the database clock.
Expired(d) == row[ReservationKey(d)].ttl = 0

\* A UUID nobody has seen.
Fresh(t) == /\ \A k \in Key : row[k].token # t
            /\ \A w \in Worker : held[w] # t

Init ==
  /\ state = [d \in Delivery |-> "pending"]
  /\ attempts = [d \in Delivery |-> 0]
  /\ wait = [d \in Delivery |-> 0]
  /\ recent = [d \in Delivery |-> 0]
  /\ row = [k \in Key |-> NoRow]
  /\ reach = Delivery
  /\ pc = [w \in Worker |-> "idle"]
  /\ job = [w \in Worker |-> NoDelivery]
  /\ held = [w \in Worker |-> NoToken]
  /\ until = [w \in Worker |-> 0]
  /\ renew = [w \in Worker |-> 0]
  /\ disturbances = 0

-----------------------------------------------------------------------------
(* Moves of one worker *)

Goto(w, label) ==
  /\ pc' = [pc EXCEPT ![w] = label]
  /\ UNCHANGED <<job, held, until, renew>>

\* Go to a label that will write the instant `ticks` from now.
GotoWith(w, label, ticks) ==
  /\ pc' = [pc EXCEPT ![w] = label]
  /\ until' = [until EXCEPT ![w] = ticks]
  /\ UNCHANGED <<job, held, renew>>

\* processNextNotificationDelivery returns (or the process dies).
Return(w) ==
  /\ pc' = [pc EXCEPT ![w] = "idle"]
  /\ job' = [job EXCEPT ![w] = NoDelivery]
  /\ held' = [held EXCEPT ![w] = NoToken]
  /\ until' = [until EXCEPT ![w] = 0]
  /\ renew' = [renew EXCEPT ![w] = 0]

Disturb ==
  /\ disturbances < MaxDisturbances
  /\ disturbances' = disturbances + 1

-----------------------------------------------------------------------------
(* Before the reservation *)

\* claimNextNotificationDelivery: a peek at a due pending row.
Claim(w, d) ==
  /\ pc[w] = "idle"
  /\ state[d] = "pending" /\ wait[d] = 0
  /\ job' = [job EXCEPT ![w] = d]
  /\ pc' = [pc EXCEPT ![w] = "claimed"]
  /\ UNCHANGED <<tableVars, reach, held, until, renew, disturbances>>

\* The evaluator reads current reach and preference: eligible, suppressed, or
\* deferred (quiet hours, unresolved destination, evaluator failure).
Verdict(w, eligible, suppressed, deferred) ==
  \/ /\ job[w] \in reach
     /\ Goto(w, eligible)
     /\ UNCHANGED disturbances
  \/ /\ job[w] \notin reach
     /\ Goto(w, suppressed)
     /\ UNCHANGED disturbances
  \/ /\ Disturb
     /\ GotoWith(w, deferred, Backoff)

Evaluate(w) ==
  /\ pc[w] = "claimed"
  /\ Verdict(w, "eligible", "suppress", "defer")
  /\ UNCHANGED <<tableVars, reach>>

FencedByState(d) == state[d] # "pending"
FencedByLease(d) == row[ReservationKey(d)].owner = d /\ ~Expired(d)

\* The row is terminal, or a live reservation of this very delivery exists.
Fenced(d) ==
  \/ state[d] # "pending"
  \/ row[ReservationKey(d)].owner = d /\ ~Expired(d)

\* updateUnreservedNotificationDelivery
UpdateUnreserved(w) ==
  LET d == job[w]
  IN  /\ pc[w] \in {"defer", "suppress"}
      /\ state' = IF ~Fenced(d) /\ pc[w] = "suppress"
                  THEN [state EXCEPT ![d] = "suppressed"] ELSE state
      /\ wait' = IF ~Fenced(d) /\ pc[w] = "defer"
                 THEN [wait EXCEPT ![d] = until[w]] ELSE wait
      /\ Return(w)
      /\ UNCHANGED <<attempts, recent, row, reach, disturbances>>

-----------------------------------------------------------------------------
(* Acquiring the reservation: delivery row lock, insert or lock, sample clock *)

AcquireNotPending(w) ==
  /\ pc[w] = "eligible"
  /\ state[job[w]] # "pending"
  /\ Return(w)
  /\ UNCHANGED <<tableVars, reach, disturbances>>

\* Another triple hashes to the same key: the delivery is suppressed.
AcquireCollision(w) ==
  /\ pc[w] = "eligible"
  /\ state[job[w]] = "pending"
  /\ Collides(job[w])
  /\ Goto(w, "suppress")
  /\ UNCHANGED <<tableVars, reach, disturbances>>

\* A live lease on the same triple: put off until it expires.
AcquireDeferred(w) ==
  /\ pc[w] = "eligible"
  /\ state[job[w]] = "pending"
  /\ ~Collides(job[w]) /\ ~Expired(job[w])
  /\ GotoWith(w, "defer", row[ReservationKey(job[w])].ttl)
  /\ UNCHANGED <<tableVars, reach, disturbances>>

\* No row, or an expired one of the same triple: take it under a new token.
Acquire(w) ==
  /\ pc[w] = "eligible"
  /\ state[job[w]] = "pending"
  /\ ~Collides(job[w]) /\ Expired(job[w])
  /\ \E t \in Token :
       /\ Fresh(t)
       /\ row' = [row EXCEPT ![ReservationKey(job[w])] =
                    [owner |-> job[w], token |-> t, ttl |-> Lease]]
       /\ held' = [held EXCEPT ![w] = t]
  /\ pc' = [pc EXCEPT ![w] = "acquired"]
  /\ UNCHANGED <<state, attempts, wait, recent, reach, job, until, renew, disturbances>>

\* Cleanup removed the conflicting row under each of the bounded retries.
AcquireContention(w) ==
  /\ pc[w] = "eligible"
  /\ state[job[w]] = "pending"
  /\ Expired(job[w])
  /\ Disturb
  /\ GotoWith(w, "defer", Backoff)
  /\ UNCHANGED <<tableVars, reach>>

-----------------------------------------------------------------------------
(* Under the reservation, before the provider call *)

RecentTwin(d) ==
  \E e \in Delivery \ {d} : DedupeOf[e] = DedupeOf[d] /\ recent[e] > 0

CheckRecent(w) ==
  /\ pc[w] = "acquired"
  /\ Goto(w, IF RecentTwin(job[w]) THEN "fencedSuppress" ELSE "checked")
  /\ UNCHANGED <<tableVars, reach, disturbances>>

\* The preflight transaction reads reach again; its reads take no lock, so a
\* revocation may commit between them and the authorisation.
Preflight(w) ==
  /\ pc[w] = "checked"
  /\ Verdict(w, "authorize", "fencedSuppress", "fencedDefer")
  /\ UNCHANGED <<tableVars, reach>>

\* authorizeNotificationProviderAttempt refuses without touching anything: the
\* row is terminal, the fence is lost, or the row is no longer due.
AuthorizeRefused(w) ==
  LET d == job[w]
  IN  /\ pc[w] = "authorize"
      /\ \/ state[d] # "pending"
         \/ ~Holds(w)
         \/ attempts[d] < Limit /\ wait[d] > 0
      /\ Return(w)
      /\ UNCHANGED <<tableVars, reach, disturbances>>

KeepExhausted(w) ==
  /\ pc[w] = "authorize"
  /\ state[job[w]] = "pending" /\ Holds(w)
  /\ attempts[job[w]] >= Limit
  /\ Return(w)
  /\ UNCHANGED <<tableVars, reach, disturbances>>

\* The attempt limit was reached by ambiguous attempts: dead-letter.
AuthorizeExhausted(w) ==
  LET d == job[w]
  IN  /\ pc[w] = "authorize"
      /\ state[d] = "pending" /\ Holds(w)
      /\ attempts[d] >= Limit
      /\ state' = [state EXCEPT ![d] = "dead"]
      /\ row' = [row EXCEPT ![ReservationKey(d)] = NoRow]
      /\ Return(w)
      /\ UNCHANGED <<attempts, wait, recent, reach, disturbances>>

AttemptsLeftOffByOne(d) == attempts[d] <= Limit
AttemptsLeft(d) == attempts[d] < Limit

\* One attempt is consumed, and the provider call and its renewal loop start.
Authorize(w) ==
  LET d == job[w]
  IN  /\ pc[w] = "authorize"
      /\ state[d] = "pending" /\ Holds(w)
      /\ AttemptsLeft(d) /\ wait[d] = 0
      /\ attempts' = [attempts EXCEPT ![d] = @ + 1]
      /\ pc' = [pc EXCEPT ![w] = "sending"]
      /\ until' = [until EXCEPT ![w] = Deadline]
      /\ renew' = [renew EXCEPT ![w] = Renewal]
      /\ UNCHANGED <<state, wait, recent, row, reach, job, held, disturbances>>

-----------------------------------------------------------------------------
(* The provider call *)

\* The adapter answers; failing is definite, ambiguous is not.
ProviderAnswers(w) ==
  /\ pc[w] = "sending"
  /\ \E outcome \in {"delivered", "failed", "ambiguous"} : Goto(w, outcome)
  /\ UNCHANGED <<tableVars, reach, disturbances>>

DeadlineExceeded(w) ==
  /\ pc[w] = "sending" /\ until[w] = 0
  /\ Goto(w, "ambiguous")
  /\ UNCHANGED <<tableVars, reach, disturbances>>

RenewWithoutExtending(w) ==
  /\ pc[w] = "sending" /\ renew[w] = 0
  /\ renew' = [renew EXCEPT ![w] = Renewal]
  /\ UNCHANGED <<tableVars, reach, pc, job, held, until, disturbances>>

\* renewUntilStopped: a lost fence aborts the call, whose outcome is unknown.
Renew(w) ==
  /\ pc[w] = "sending" /\ renew[w] = 0
  /\ IF Holds(w)
     THEN /\ row' = [row EXCEPT ![ReservationKey(job[w])].ttl = Lease]
          /\ renew' = [renew EXCEPT ![w] = Renewal]
          /\ UNCHANGED <<pc, job, held, until>>
     ELSE Goto(w, "ambiguous") /\ UNCHANGED row
  /\ UNCHANGED <<state, attempts, wait, recent, reach, disturbances>>

-----------------------------------------------------------------------------
(* Writing the result, fenced on a pending row and a live own lease *)

Release(d) == row' = [row EXCEPT ![ReservationKey(d)] = NoRow]

CompleteDelivered(d) ==
  /\ state' = [state EXCEPT ![d] = "delivered"]
  /\ recent' = [recent EXCEPT ![d] = Window]
  /\ Release(d)
  /\ UNCHANGED wait

CompleteSuppressed(d) ==
  /\ state' = [state EXCEPT ![d] = "suppressed"]
  /\ Release(d)
  /\ UNCHANGED <<recent, wait>>

CompleteFailed(d) ==
  /\ IF attempts[d] = Limit
     THEN state' = [state EXCEPT ![d] = "dead"] /\ UNCHANGED wait
     ELSE wait' = [wait EXCEPT ![d] = RetryDelay[attempts[d]]] /\ UNCHANGED state
  /\ Release(d)
  /\ UNCHANGED recent

\* The reservation stays until it expires; the row is not due before that.
CompleteAmbiguous(d) ==
  LET expiry == row[ReservationKey(d)].ttl
  IN  /\ wait' = [wait EXCEPT ![d] = IF @ > expiry THEN @ ELSE expiry]
      /\ UNCHANGED <<state, recent, row>>

DeferFenced(w) ==
  /\ wait' = [wait EXCEPT ![job[w]] = until[w]]
  /\ Release(job[w])
  /\ UNCHANGED <<state, recent>>

Complete(w) ==
  LET d == job[w]
  IN  /\ pc[w] \in ReleasingLabels \cup {"delivered"}
      /\ IF state[d] = "pending" /\ Holds(w)
         THEN \/ pc[w] = "delivered" /\ CompleteDelivered(d)
              \/ pc[w] = "fencedSuppress" /\ CompleteSuppressed(d)
              \/ pc[w] = "failed" /\ CompleteFailed(d)
              \/ pc[w] = "ambiguous" /\ CompleteAmbiguous(d)
              \/ pc[w] = "fencedDefer" /\ DeferFenced(w)
         ELSE UNCHANGED <<state, wait, recent, row>>
      /\ Return(w)
      /\ UNCHANGED <<attempts, reach, disturbances>>

-----------------------------------------------------------------------------
(* The rest of the system *)

\* A process dies mid-drain; committed rows stay as they are.
Crash(w) ==
  /\ pc[w] # "idle"
  /\ Disturb
  /\ Return(w)
  /\ UNCHANGED <<tableVars, reach>>

\* purgeExpiredOutboxReservations, from the session-cleanup job.
PurgeExpired ==
  /\ \E k \in Key : row[k] # NoRow /\ row[k].ttl = 0
  /\ row' = [k \in Key |-> IF row[k].ttl = 0 THEN NoRow ELSE row[k]]
  /\ UNCHANGED <<state, attempts, wait, recent, reach, workerVars, disturbances>>

\* requeueDelivery of a dead notification by an instance administrator.
Requeue(d) ==
  /\ state[d] = "dead"
  /\ ~Collides(d) /\ Expired(d)
  /\ state' = [state EXCEPT ![d] = "pending"]
  /\ attempts' = [attempts EXCEPT ![d] = 0]
  /\ wait' = [wait EXCEPT ![d] = 0]
  /\ recent' = [recent EXCEPT ![d] = 0]
  /\ Disturb
  /\ UNCHANGED <<row, reach, workerVars>>

\* The recipient loses reach of the resource or turns the channel off.
LoseReach(d) ==
  /\ d \in reach
  /\ reach' = reach \ {d}
  /\ UNCHANGED <<tableVars, workerVars, disturbances>>

Less(n) == IF n = 0 THEN 0 ELSE n - 1

\* The event loop is responsive: no due timer of a send is outstanding.
TimersServed ==
  \A w \in Worker : pc[w] = "sending" => until[w] > 0 /\ renew[w] > 0

\* A claim is decided (sent, suppressed or deferred) while its lease still has
\* room for a renewal interval: the transactions before the send are quick.
PreflightSlack ==
  \A w \in Worker :
    pc[w] \in {"acquired", "checked", "authorize", "fencedSuppress", "fencedDefer"}
      /\ Holds(w) => row[ReservationKey(job[w])].ttl > Renewal + 1

Tick ==
  /\ OnTime => TimersServed
  /\ PromptPreflight => PreflightSlack
  /\ wait' = [d \in Delivery |-> Less(wait[d])]
  /\ recent' = [d \in Delivery |-> Less(recent[d])]
  /\ row' = [k \in Key |-> [row[k] EXCEPT !.ttl = Less(@)]]
  /\ until' = [w \in Worker |-> Less(until[w])]
  /\ renew' = [w \in Worker |-> Less(renew[w])]
  /\ UNCHANGED <<state, attempts, reach, pc, job, held, disturbances>>

-----------------------------------------------------------------------------

\* The steps processNextNotificationDelivery takes on its own.
Step(w) ==
  \/ \E d \in Delivery : Claim(w, d)
  \/ Evaluate(w) \/ UpdateUnreserved(w)
  \/ AcquireNotPending(w) \/ AcquireCollision(w) \/ AcquireDeferred(w)
  \/ Acquire(w) \/ AcquireContention(w)
  \/ CheckRecent(w) \/ Preflight(w)
  \/ AuthorizeRefused(w) \/ AuthorizeExhausted(w) \/ Authorize(w)
  \/ ProviderAnswers(w) \/ DeadlineExceeded(w) \/ Renew(w)
  \/ Complete(w)

Next ==
  \/ \E w \in Worker : Step(w) \/ Crash(w)
  \/ \E d \in Delivery : Requeue(d) \/ LoseReach(d)
  \/ PurgeExpired
  \/ Tick

Spec == Init /\ [][Next]_vars

\* The scheduler calls the drain every 30 seconds and a running drain goes on;
\* the clock advances and the deadline timer of a call fires. Claims take the
\* oldest next_attempt_at first, so a row that stays due is claimed in the end.
\* Nothing is assumed of crashes, requeues, lost reach or cleanup.
Fairness ==
  /\ WF_vars(Tick)
  /\ \A w \in Worker :
       /\ WF_vars(Step(w)) /\ WF_vars(DeadlineExceeded(w))
       /\ \A d \in Delivery : SF_vars(Claim(w, d))

FairSpec == Spec /\ Fairness

-----------------------------------------------------------------------------
(* Properties *)

\* Rows and workers stay within their types, no delivery consumes more than
\* NOTIFICATION_ATTEMPT_LIMIT attempts, and a worker past claiming has a row.
TypeOK ==
  /\ state \in [Delivery -> RowStates]
  /\ attempts \in [Delivery -> 0 .. Limit]
  /\ wait \in [Delivery -> Nat]
  /\ recent \in [Delivery -> 0 .. Window]
  /\ row \in [Key -> Rows]
  /\ reach \subseteq Delivery
  /\ pc \in [Worker -> Labels]
  /\ job \in [Worker -> Delivery \cup {NoDelivery}]
  /\ held \in [Worker -> Token \cup {NoToken}]
  /\ until \in [Worker -> Nat]
  /\ renew \in [Worker -> 0 .. Renewal]
  /\ disturbances \in 0 .. MaxDisturbances
  /\ \A w \in Worker : pc[w] # "idle" => job[w] \in Delivery

\* No two notifications for one event, resource, recipient and channel are
\* recorded as delivered within the five-minute window (NO-11), whatever the
\* interleaving of workers, crashes, lease expiries and stalled event loops.
NoDuplicateWithinWindow ==
  \A d, e \in Delivery :
    d # e /\ DedupeOf[d] = DedupeOf[e] => recent[d] = 0 \/ recent[e] = 0

\* A live reservation always protects work still to be done: its owner is
\* pending, so no transaction can end a delivery from outside its fence.
LiveOwnerIsPending ==
  \A k \in Key : row[k].ttl > 0 => state[row[k].owner] = "pending"

\* Delivered and suppressed are final, and a dead row only comes back pending
\* with its attempts reset, by an administrator.
TerminalIsFinal ==
  [][\A d \in Delivery :
       /\ state[d] \in {"delivered", "suppressed"} => state'[d] = state[d]
       /\ state[d] = "dead" /\ state'[d] # "dead" =>
            state'[d] = "pending" /\ attempts'[d] = 0]_vars

\* NO-9, NO-11: whatever workers, leases, crashes and requeues do, an attempt is
\* counted before the provider is called, a delivery is recorded only after one
\* and with no twin inside the window, and a row is given up with its attempts
\* used up and not before: the drain implements NotificationLedger.
Ledger == INSTANCE NotificationLedger
ImplementsLedger == Ledger!Spec

\* A reservation row passes from one delivery to another of the same triple
\* only: a hash collision never takes over the key of somebody else.
ReservationKeepsItsTriple ==
  [][\A k \in Key :
       row[k].owner \in Delivery /\ row'[k].owner \in Delivery =>
         DedupeOf[row'[k].owner] = DedupeOf[row[k].owner]]_vars

\* At most one provider call runs for a reservation key at a time.
SingleSender ==
  \A v, w \in Worker :
    /\ v # w /\ pc[v] = "sending" /\ pc[w] = "sending"
    => ReservationKey(job[v]) # ReservationKey(job[w])

\* "Provider call deadline: half of the lease, so a send cannot outlive its
\* fence" (delivery-primitives.ts): a running call still holds its reservation.
SendWithinFence ==
  \A w \in Worker : pc[w] = "sending" => Holds(w)

\* Every pending delivery is eventually delivered, suppressed or dead: no
\* orphaned reservation, ambiguous answer or lost reach blocks it for ever.
EventuallyResolved ==
  \A d \in Delivery : state[d] = "pending" ~> state[d] # "pending"

=============================================================================
