# TaskDesk: models, model checking and proofs

TLA+ for the server of TaskDesk (`src/apps/api/src`, TypeScript on PostgreSQL):
state machines translated from the source, TLC runs on small instances, and
theorems checked by TLAPS. Paths below are relative to `src/apps/api/src` unless
they start with `docs/`.

The program is a request/response API with a large asynchronous half. A request
changes rows and writes its domain event in one transaction; everything that
follows (notifications, webhooks, automations, exports, expiries, escalations)
is done later by jobs that **every replica runs**, over tables that requests go
on changing. Nothing coordinates the replicas but PostgreSQL: row locks,
`SKIP LOCKED`, advisory locks, leases that expire by the database clock, and
writes fenced by a token. That half is where one wrong order loses or repeats an
effect, and it is what the modules here are about.

Contents: [inventory](#inventory), [plan](#plan), [modules](#modules),
[runs](#runs), [fairness](#fairness), [proofs](#proofs), [findings](#findings),
[left out](#left-out).

## Inventory

### How the parts interact

```
 request ── one transaction ──> business rows + outbox row (parent event)
                                        |
   outbox-drain, every 30 s, on every replica
                                        v
             ParentOutbox: claim, consumers in a savepoint
                 |                |                 |
   notification_delivery   webhook_delivery   automation_run        (child rows)
                 |                |                 |
   immediate / digest drain   webhook drain    automation executor ──> work items
                 |                |                                    (new events)
             provider         customer URL
```

- **Calls**: the scheduler (`scheduler/index.ts`) starts each job by cron on every
  replica; jobs that need a single runner go through the job runtime
  (`instance/jobs/runtime.ts`) and the job lease (`scheduler/leader-lock.ts`).
  `outbox-drain` has no job lease: its four drains rely on row claims alone.
- **Shared state**: the tables. A delivery row is touched by its drain on any
  replica, by the administrator's requeue, by retention jobs and, for webhooks,
  by edits of the webhook it belongs to.
- **Callbacks**: heartbeats and renewals run on timers beside the work they
  protect, in the same process, and may fire late or fail.
- **Messages**: provider calls and webhook POSTs leave the system and cannot be
  rolled back; their answer may come late or never.

### Components: state, operations, what is hard, what must hold

| component | state | operations | hard | must hold | module |
|---|---|---|---|---|---|
| parent outbox (`events/`) | `outbox` rows: state, attempts, next attempt | write with the mutation, claim, run consumers, deliver / fail / dead-letter, requeue | partial failure of consumers, several replicas, crash inside the transaction | all consumers get an event together, once, or none; every event settles | ParentOutbox |
| immediate notifications (`notification/outbox-drain.ts`) | `notification_delivery`, `outbox_dedupe_reservation` | peek, evaluate, reserve, authorise, call, renew, complete, requeue, purge | late answers, lease expiry mid-call, twins, key collisions, stalled timers | no duplicate inside the window, no overlapping calls, outcomes final, every row resolved | NotificationDelivery |
| webhooks (`webhook/`) | `webhook`, `webhook_delivery`, signing secrets | enqueue, claim, read, check, POST, record, pause, edit, redeliver, test, delete, purge, rotate | claim and read apart, edits during a delivery, lease taken over | a body goes where it was addressed, one POST at a time, outcomes final, pauses justified | WebhookDelivery |
| job runtime, scheduler | `instance_job_run`, `job_lease`, configuration | enqueue, dispatch, schedule, heartbeat, check, record, release, expire, configure | two leases with different owners and lengths, stalls, crashes | history final, a successful manual run was alone, every run settles | JobRuntime |
| automation runs (`automation/`) | `automation_run` groups with a 2-minute lease | enqueue per rule, claim a group, execute in rule order, finish, abandon | lease never renewed, abandonment of a slow group | rule order, a truthful history, loop guard, cascades end | AutomationRuns |
| request idempotency (`middleware/idempotency*`) | `idempotency` rows: token, 60 s lease, stored response | reserve, take over, replay, complete, release | crash between commit and stored response, slow request taken over | the stored answer is its holder's; a replay equals the first answer | RequestIdempotency, DestructiveRequests |
| notification digests | sealed groups + the same reservations | seal, claim, authorise twice, send, complete all members | two leases renewed together, lock order with the immediate drain | as for immediate, per member; no deadlock | planned |
| report exports (`report/export*`) | `report_export` rows, ready mail claim | request, claim a batch, render, fail, expire, notify | `worker_lost` beside a late commit; unfenced release | an expired or failed export never becomes ready again, one sender per mail | ReportExport |
| scheduled transitions | `scheduled_transition` | schedule, fire, cancel, retain | batch read, leave and re-enter | fired at most once, only from its state, never after a bounce | ItemTransitions |
| SLA clocks and escalation | clocks, escalation walks | start, pause, breach, advance, supersede | replicas advance walks while a new breach supersedes them | steps in order, once per breach | planned |
| import engine (`imports/engine/`) | run row with cursor and state | start, chunk, pause, resume, finalise | page read outside the chunk transaction | cursor monotone, no record written twice | planned |
| pending actions | `pending_action` | request, decide, execute, expire, invalidate | four actors end one row | one end per action; a target goes once and as shown | PendingActions, DestructiveRequests |
| approvals and transitions of work items | approvals, work item state | request, decide, withdraw, expire, transition | decisions beside the transition they gate | no transition past an open gate, approvals are single use | ItemTransitions |
| timers (`time-tracking/`) | one `running_timer` per person | start, stop, sweep | three closers of one row; midnight split | time is recorded exactly once; parts add up | planned |
| customer invitation delivery | invitation + delivery rows | send, resend, revoke, retry | mail inside the transaction | no mail for a revoked invitation beyond the one in flight | planned |
| audit chain (`audit/`) | hash-linked rows, head | append, purge a prefix, verify | appends of nested transactions | one chain, no fork | planned |
| rank positions | ranks per partition | move, insert, rebalance | lock order, NOWAIT | distinct ranks, order preserved | planned |
| attachments and storage | rows + object store | upload, complete, collect | two stores without a transaction | no live row without an object | late |
| realtime | LISTEN connection, generations | connect, reconnect, invalidate | reconnect beside old callbacks | a stale connection is never used | late |
| secrets and rekey | secret versions | rotate, rekey | overlap of versions | what is stored can be decrypted | late |
| intake, service management, pages | versioned rows | CRUD, life cycles | row locks only | life cycles | late |
| the rest (identity, permissions, projects, search, plugins, web application, packages) | | CRUD, pure evaluation, rendering | | | not modelled |

`PROJECT.json` lists all of them with their files and the reason where one is
left out, and the hazards of the code at the line where each bites.

## Plan

Order: what can lose or repeat an effect outside the database first, what other
parts rest on next, then what requests and background jobs do to the same rows.

1. **Done.** `NotificationDelivery`, `WebhookDelivery`, `ParentOutbox` with the
   abstract `EventFanout`, `JobRuntime`.
2. **Done.** `AutomationRuns`; `RequestIdempotency` and `PendingActions`, composed
   in `DestructiveRequests`; `ReportExport`; `ItemTransitions` (transitions,
   approvals and scheduled hops of one item). The safety of
   all these modules is proved, and four parts are shown to implement an abstract
   specification: `EventFanout`, `NotificationLedger`, `WebhookLedger`,
   `AutomationHistory`.
3. `DigestDelivery` over the reservations of `NotificationDelivery` (the
   reservation table moved to a module both use): members and immediate
   deliveries compete for one key.
4. `EscalationWalk`, `ImportRun`, `RunningTimer`, `CustomerInvitation`,
   `AuditChain`, `RankPositions`. Pure modules with reference definitions for
   the midnight split, quiet hours and the SLA calendar.
5. Compositions: `ParentOutbox` with `WebhookDelivery` (event written to POST
   recorded, end to end), and with `AutomationRuns`.
6. Refinements still worth proving: of a history of job runs by `JobRuntime` and of
   an abstract gate (one run of an edge for one approval) by `ItemTransitions`.

## Modules

In every module an action is one database transaction (or one statement outside a
transaction, or one event of a call); actors interleave between actions and keep
what they read in variables of their own, so stale reads are visible. Instants
are kept as ticks left until they pass, and `Tick`, the database clock, lowers
them together: the code only ever compares an instant with the clock or with
another instant read at the same time. Counters that the code leaves unbounded
are bounded by named constants in guards (`MaxDisturbances`, `MaxClaims`,
`MaxEdits`, `MaxCrashes`, `MaxRequeues`, `MaxChanges`, `MaxBreaks`, `MaxFaults`,
`MaxEvents`, `MaxMoves`, `MaxAsked`, `MaxRetired`).

### NotificationDelivery, NotificationLedger (`MC…`, `…Proofs`)

`processNextNotificationDelivery` (notification/outbox-drain.ts:237) and the
transactions it calls (database/repositories/notification-delivery.repository.ts).

| state | code |
|---|---|
| `state, attempts, wait, recent` | `notification_delivery`: state, attempts, next_attempt_at, delivered_at |
| `row` | `outbox_dedupe_reservation` by key: delivery, token, expires_at |
| `pc, job, held, until, renew` | locals of a running drain: where it is, its row, its token, its deadline and renewal timer |
| `reach` | what `current-eligibility.ts` computes, one revocable flag per delivery |

`Claim` is the peek (its row lock ends with its transaction), `Evaluate` and
`Preflight` the two eligibility readings, `Acquire*` the reservation in its five
outcomes, `CheckRecent` the five-minute window, `Authorize*` the last transaction
before the call, `ProviderAnswers`, `DeadlineExceeded` and `Renew` the call with
its timers, `Complete` the fenced write of the result, `UpdateUnreserved` a
deferral or suppression by somebody without a reservation, `PurgeExpired` the
cleanup job, `Requeue` the administrator.

A deferral, a crash, reservation contention and a requeue each use up one
disturbance. `OnTime` and `PromptPreflight` restrict `Tick`, not the worker: with
them the clock does not pass a due timer of a call, nor a claim whose lease has
no room left for one renewal interval. They are the assumptions under which the
code's timing argument works, and are off in the runs that do not need it.

`NotificationLedger` is what all this is for, without workers, reservations or
leases: attempts, deliveries, suppressions, giving up and requeues of a delivery,
each guarded by what it promises. `ImplementsLedger` maps it to the rows.

### WebhookDelivery, WebhookLedger (`MC…`, `…Proofs`)

`processNextWebhookDelivery` (webhook/delivery.ts), the webhook routes
(webhook/index.ts, webhook/repository.ts) and the consumer (webhook/consumer.ts),
for one webhook: webhooks share no rows.

| state | code |
|---|---|
| `delivery` | `webhook_delivery`: state, attempt, next attempt, lease token and expiry, stored body |
| `webhook` | `webhook`: active, disabled_reason, created_by, url, version, failing_since |
| `request` | a redelivery route between its check and its insert: the row it copies, the body, the destination it checked against |
| `editing` | the transaction of `updateWebhook` between reading its clock and its end: the row lock, the new owner, the rows that seem younger than the instant it read |
| `pc, job, got, seen, until` | a drain: the row as read after the claim, the webhook as read, the POST's deadline |
| `lag` | a drain: how long ago the instant was that it is about to record (`deps.now()`, read before the transaction of `recordAttempt` waits for its locks) |

The claim's `UPDATE` and its `SELECT` are two actions because they are two
statements. An edit is two for another reason: `BeginUpdate` takes the row lock and
reads the clock, `CommitUpdate` (or `RollBackUpdate`) ends the transaction, and what
others commit meanwhile falls between. What they can commit is what needs no lock on
the webhook: drains go on reading, claiming and posting, but inserting a delivery waits,
because its foreign key (drizzle/0140_webhooks.sql:55) locks the webhook's row, and so do
a pause and the recording of any result but a test's (`Unlocked`). The pause for a
removed event and the deletion store no instant that is compared, and stay one step.

Instants are where this component can go wrong. `failing_since` is an instant the drain
reads before it waits, `destination_changed_at` one the edit reads before its commit,
both from the process's clock; `created_at` is the database's, and the start of the
transaction that inserts. The model keeps them so:
- `lag` grows from the end of the POST (`Answer`) to the recording, and a streak
  begins with it as its age (`AfterFailure`): a success, a new url or an enabling that
  took the lock first may lie inside the streak. A process whose clock is behind
  starts with up to `Skew` ticks. `MaxLag` bounds both together.
- The comparison of `created_at` with `destination_changed_at` is the flag `older`,
  set at the commit (`Dated`) on the rows there are, except those in `editing.young`:
  created less before the edit than its clock is behind (`CreatedWithin`). A row
  inserted later is not older, unless its transaction began before the edit or the
  clock of the edit was ahead (`SeemsOlder`): such a row is only cancelled too often.
  A clock that is ahead needs nothing else: the fastest clock is the reference.
- A body is the generation of the destination it was built for, which is all that
  decides whether it may be posted somewhere.

`calm` and `crossed` are history, not code, written by the same steps. `calm` is the
ticks since the last success, new url or enabling, against which the auto-disable
is judged. `crossed` holds the rows the code cannot tell from those of the new
destination: the young ones of an edit, copies made by a redelivery that an edit
overtook (`Overtaken`), and copies of such rows. `BodyStaysWithDestination` excepts
exactly these (known behaviours 4 and 5).

`WebhookLedger` is the delivery log without workers, leases or clock: deliveries are
queued, tried, answered, withheld and forgotten; a try supersedes one that was not
recorded, its answer is recorded once at most, and a body that got an answer stays.
Under `ImplementsLedger` the entry's `open` is a lease token on the row.

### ParentOutbox, EventFanout (`MC…`, `…Proofs`)

`processNextParentEvent` and `registerBuiltInConsumers` (events/outbox-consumer.ts)
over `outbox-consumer.repository.ts`. A drain handles one event in one
transaction whose statements are separate actions: `written` holds what is not
committed, `locked` the row lock, so that consumer failures (`HandleFails`: the
savepoint is rolled back, the failure is recorded in the same transaction) and
crashes (`Crash`: everything is rolled back) fall between them. `Delivered` and
`Failed` commit. `children` stands for the rows consumers insert, one per
<<consumer, event>>; the unique key on the event id makes a second insert a
no-op, which is why it can be a set.

`EventFanout` is what the outbox promises: `Deliver` gives an event to all its
consumers in one step. `ParentOutbox` implements it with
`status <- state, enqueued <- children`.

### JobRuntime (`MC…`, `…Proofs`)

Scheduled and manual runs of jobs that work under `withJobLease`
(instance/jobs/runtime.ts, scheduler/leader-lock.ts).

| state | code |
|---|---|
| `row, runLeft, queue` | `instance_job_run`: state, run_lease_expires_at, the queued rows by requested_at |
| `holder, leaseLeft` | `job_lease`: owner, expires_at |
| `at, proc, outcome, lost` | an execution: position, process, how the handler ended, its ownershipLost flag |
| `enabled` | `instance_job_configuration` |
| `overlapped` | history: manual runs during which another recorded run of the job passed a check |

The abstractions: a run id stands for the runner id made for it; a scheduled run
owns the job lease under its process's id (`OwnerId`), as in the code, and that is
what known behaviour 7 turns on; the two expiries written in one transaction
(`now()` and `clock_timestamp()`) are one instant; the assertion before a handler
and its lease claim are one step, and so are a check at a work boundary and the
start of the work it admits; whether the actor of a manual run is still allowed
is a free outcome; a process that crashed does not come back, since a restart has
a new instance id and is another process; a cron tick may act on an old
configuration; the dispatcher takes the oldest queued row that no other
dispatcher has locked, so at most as many rows are skipped as there are
processes. A handler leases under its job's own name.

### AutomationRuns, AutomationHistory (`MC…`, `…Proofs`)

`enqueueAutomationRuns` (automation/consumer.ts) and `drainAutomationRuns`
(automation/executor.ts).

| state | code |
|---|---|
| `made, depth, origin, fanned` | the outbox's events with the automation part of their envelope, and those the consumer has handled |
| `run, leaseLeft` | `automation_run`: state; `lease_expires_at`, one for the group of an event |
| `told` | the `automation.run_failed` events written |
| `enabled` | `automation.enabled`, with feature and scope |
| `pc, job, todo, stopped, verdict, step, dangling` | a drain: the claimed group and where it is in it |
| `acted` | history: actions executed |

`Claim` takes all pending runs of one event, `Judge`, `JudgeRole` and `Match` are
what `executeRun` finds before it acts, `Act` and `ActFails` one action, which
commits by itself and may write an event (`Enqueue` later turns it into runs),
`RecordRuleOutcome` the disabling of a rule that names a deleted label, `Finish`
the end of a run and of what is told of it, `SkipStopped` the rest of a group
after stop_processing, `Abandon` the lapse of a group that outlived its lease.
Nothing renews that lease, so a slow worker goes on acting for runs already
abandoned: the model has it, and the properties say what still holds then.

`AutomationHistory` is the run history without workers or leases: the runs of an
event are queued once and started together, act in their turn and end as what they
did, and giving them up changes what is shown and not what they do. Events keep
neither depth nor origin there: which rules a chain may still trigger is an input.

### RequestIdempotency, PendingActions, DestructiveRequests (`MC…`, `…Proofs`)

`RequestIdempotency` is the middleware with the handler left open: `row, token,
stored, age` are an `idempotency_key` row, `at, retried, reply` a request. A
request is the token of its own reservation. `Reserve` is the upsert that takes a
new or expired row, `Look` the read of the row in the way (which may be gone by
then), `Complete`, `Release` and `Unstored` what becomes of the answer.

`PendingActions` is one requester's `pending_action` rows (`state, seen, left`),
the loop of `createPendingAction` (`asking`), the targets with their versions, and
the requester's standing. `Approve` deletes and ends in one transaction;
`ApproveFails` rolls back and `RecordFailure` is the second transaction, so
everything else may come between. `seen` is the snapshot taken with the request:
one counter stands for version, project, parent and children.

`DestructiveRequests` composes them: a DELETE request reserves its key, opens an
action (its 202 names it) or finds one in the way, stores the answer; then the
action ends in one of five ways.

### ReportExport (`MC…`, `…Proofs`)

`enqueueExport`, the job `runReportExport` and `expireExports` (report/,
scheduler/report-jobs.ts).

| state | code |
|---|---|
| `status, stored, left` | `report_export`: status, whether chunks are there, ticks until stale (running) or expired (ready) |
| `notified, claimLeft` | `notified_at`, `notify_claimed_at` |
| `pc, job, batch, owed, overdue` | a run of the job: the claimed batch, the mails still owed, the rows past the run's `now` |

Rendering and storing is one transaction (`Commit`); its answer may be lost, and
then the worker fails an export that is ready. Runs overlap when one lost its job
lease without knowing it, so `Claim` does not ask for the lease.

### ItemTransitions (`MC…`, `…Proofs`)

One work item: `transitionWorkItem` for a person and for the scheduler,
approvals, and the hops an edge schedules.

| state | code |
|---|---|
| `state, life` | `work_item`: state_id; live, deleted or archived |
| `row, waitsIn, leadsTo, dueIn` | `scheduled_transition`: state, from and to state, due_at |
| `approval, edgeOf, expiresIn, ranSince` | `approval`: state, transition_id, expires_at, and whether created_at is before the edge's last run |
| `asking, seen, target` | a request: the state read without a lock, the state it wants |
| `doing, batch, skip` | a run of the scheduler |
| `left, uses, gatedRuns` | history: rows whose item has been elsewhere or gone, runs an approval backed, runs of a gated edge |

`RunEdge` is what one run of an edge commits under the item's lock, for both
callers: the new state, hops that wait elsewhere cancelled, a new hop, requests
of the gate closed. A person may use any edge that is open or satisfied, the
scheduler needs all of them open. Any guard but the gate may refuse, so `Refuse`
and `Misfire` are free.

## Runs

A tick is about 15 seconds in NotificationDelivery (a lease is 60 s, its renewal
15 s, a call's deadline 30 s) and about 30 seconds in WebhookDelivery; the long
intervals (the five-minute window, the 24-hour failure window, retry schedules)
are scaled down to one to three ticks, which keeps the order of every pair of
instants that the code compares and makes expiry reachable between any two steps.

| run | instance | question |
|---|---|---|
| `notif_safety` | 2 workers, 2 deliveries of one triple, 3 tokens, lease 2, window 3, limit 2, 1 disturbance, no timing assumption | do the rows implement NotificationLedger, and are duplicates in the window impossible, even if timers stall and answers come late? |
| `notif_fence` | 2 workers, 3 deliveries (two twins, one with a colliding key), lease 3, deadline 2, renewal 1, prompt | do calls for one key never overlap, and does a key never pass to another triple? |
| `notif_progress` | 1 worker, 2 twins, 2 disturbances, timers may stall | is every pending delivery resolved? |
| `webhook_safety` | 2 workers, an event delivery (2 claims) and a redelivery (1), lease 1, window 2, clocks and recordings up to 1 late, 1 edit, 2 people who stay, no timing assumption | do the rows implement WebhookLedger, bodies stay with their destination, auto-disable only after the window |
| `webhook_progress` | 2 prompt workers, a test delivery and its redelivery, 3 claims each, 1 owner who may leave, 1 crash | one POST of a delivery at a time; every delivery ends |
| `parent_outbox` | 2 replicas, 2 events (one corrupt), 2 consumers, 3 attempts, 2 crashes, 1 requeue | does the outbox implement EventFanout, and does every event settle? |
| `jobs` | 2 processes, 1 manual and 1 scheduled run of one job, run lease 2, job lease 1, 1 crash, 1 configuration change | history final, a successful manual run was alone, every run settles |
| `automation` | 2 rules (the first with stop_processing, either triggering the other), 2 workers, depth 2, 4 events, lease 1, 1 edit, 1 break | does the drain implement AutomationHistory, is the history true, are failures told, loops cut and shown, rules in order, and does a cascade die out? |
| `destructive` | 2 requests (one key or none), 1 item, key lease 1, answer kept 2, action lifetime 1, 1 change, 1 fault, no timing assumption | do replays agree, is the stored answer its holder's, is the item deleted once and as shown, does every action end once, and does everything end? |
| `never_revived` | as `destructive` | refutes that a loss of access invalidates the action |
| `exports` | 2 exports of one person, 2 overlapping runs, stale after 1 tick, expiry 1, mail lease 2, 1 break, mails within their claim | ready only with its file, never back from an end, one sender per mail, everything queued ends |
| `transitions` | 2 states, 4 edges (open with a hop, open, any-gate, all-gate), 1 person's request at a time, 1 scheduler, 2 approvals, 6 moves, 3 of them asked for, 1 deletion, 1 fault | are hops never stale, approvals single use, no request left that cannot count, and does everything settle? |

Why these bounds are enough to be interesting: every property needs at most two
actors on one row to be broken, and each run has them, with a lease short enough
to expire in any gap; the attempt limits (2 or 3) are reached, so the
dead-letter branch, the retry branch and the requeue after it all occur; there
are tokens enough for every worker that remembers one, the row and the next
claimant all to differ. Each
property is also known to fail when the code is changed in one place
(`PROJECT.json`, "mutants"): a fence without its token, an update without the
duplicate check, a claim that ignores leases, a savepoint that is kept. What the
proofs cover does not depend on these numbers at all.

In `webhook_safety` the redelivery copies the event's body while the event may still be
retried, so that one delivery's success falls into the other's streak, and the one edit
comes before, between or after everything else; without the exception of `crossed` the
run finds both of its cases, the young row and the overtaken redelivery. Departures
(`Leavers`) are left to `webhook_progress`: they only add pauses, as edits do. `MaxLag`
bounds how late a result is recorded; it stays below the window, as seconds do below
24 hours.

In `automation` the bound of four events is not what ends a cascade: `CascadeEnds`
asks that fewer were made. In `transitions` a person and one run of the scheduler
already interleave at every statement; two requests of people differ from one only
in that the second reads later, which the next request does.

`CHECK_DEADLOCK` is off where the finite set of runs, requests or moves is used
up: `jobs`, `automation`, `destructive`, `never_revived`, `exports`, `transitions`. Worker and token symmetry is used in
safety runs, never in liveness runs.

## Fairness

Weak fairness of `Tick`: the database clock advances. Weak fairness of each
actor's `Step`: `outbox-drain` is started every 30 seconds on each replica, a
drain takes rows until nothing is due or its budget is spent, and a started one
goes on (every await is a query, a bounded call or a timer). Weak fairness of
`DeadlineExceeded`: the deadline of a provider call is a timer the drain itself
awaits. Weak fairness of `EndUpdate`: a transaction ends. Strong fairness of `Claim(w, d)`: the claim orders by next_attempt_at, so
a row that is due again and again becomes the oldest. In JobRuntime, weak fairness
of the workers' poll (every second) and strong fairness of `Complete`: a handler
works through a bounded batch, checking the lease before each unit, and ends.

The later modules assume the same: the clock, each worker's `Step`, requests that
are served (`Serve`), the outbox handing events to its consumers (`Enqueue` of
AutomationRuns), the expiry jobs (`Expire`). `Abandon` has strong fairness: a drain
starts with it every 30 seconds on any process that is not busy at the time.

Nothing is assumed of crashes, requeues, edits, purges, deletions, heartbeats,
cron, lost reach or administrators: they may happen or not. Where the code does
not guarantee progress the property says so: a queued manual run behind a disabled
job waits until the job is enabled (`EventuallySettled` of JobRuntime).

## Proofs

Checked by TLAPS for all values of the constants that satisfy the module's named
assumption (`ConstantsAssumption`, `WebhookAssumption`, `OutboxAssumption`,
`JobAssumption`, `AutomationAssumption`, `IdempotencyAssumption` with
`PendingAssumption` and `OneActionEach`, `ExportAssumption`,
`TransitionsAssumption`): the types of the parameters, intervals and limits
positive, retry schedules as long as the attempts, distinct positions of rules, a
finite set of approvals. TLC evaluates each on its instance. A theorem that needs a
timing assumption besides says so in its `ASSUME`.

Others restrict behaviours: `Spec /\ [][C]_vars => ...`, where `C` rules
out one kind of step (a clock that passes a lease in use, an edit between two
statements). These mark a boundary: the code does not enforce `C`, the promise
fails with such steps (known behaviours 2, 4, 5, 7, 8, 9 and 10 below; in the last row a second
request takes over the row of one that outlives its lease), and the theorem shows that
nothing else, among all the interleavings, crashes and late answers the model has, can
break it.

| Promise | Boundary | Theorem |
| --- | --- | --- |
| no row is excepted from `BodiesStay` | no clock is behind (`Skew = 0`), no edit of the destination between a redelivery's check and its insert (`NotInBetween`) | `NoneCrossed` |
| a webhook is paused for the owner it has | its row does not change while a worker judges it (`FreshReads`) | `PausesAreJustified` |
| a webhook delivery has as many attempts as the limit | drains that died add one each; drains are prompt | `AttemptsAreCounted` |
| a job is executed once at a time | no lease runs out under its run (`LeasesOutlast`) | `JobsRunAlone` |
| an abandoned automation run is in nobody's hands | a group ends within its lease (`GroupsPrompt`) | `AbandonedMeansBroken` |
| an export failed as lost has no worker | it is rendered within the stale interval (`RendersPrompt`) | `LostMeansBroken` |
| one request of a key at a time | requests end within their lease (`Prompt`) | `OneHandlerPerKey` |

**NotificationDeliveryProofs.** `TypeCorrect`, `NoDuplicates`,
`FenceProtectsPending`, `Finality`, `FenceHolds`, `KeysKeepTriples` and
`ImplementsTheLedger`.

The type invariant and the window property are not inductive. `IInv` adds what
they rest on:
- a reservation row with time left lies under its owner's own key, and its owner
  is pending, so a delivery with a live reservation can only be ended by a
  transaction that passed that fence;
- a worker in a call, or writing its result, that still holds its lease has
  consumed an attempt (the retry schedule is undefined at attempt zero, and a
  requeue can reset the count only after the lease is gone);
- a worker past `CheckRecent` whose lease is still live has no twin inside the
  window. This is the heart: to complete a twin one has to hold the same key's
  reservation, which a live lease excludes, and time passing only shrinks the
  window.

With these, `CompleteDelivered` for `d` finds `Holds(w)` and therefore no recent
twin. No timing assumption is used: `NoDuplicates` holds with stalled event loops
and arbitrarily late answers, because only the completion is promised. That calls
do not overlap needs more. `FenceHolds` proves `SendWithinFence` and
`SingleSender` from `OnTime`, `PromptPreflight` and `Renewal < Lease`, with two
more invariants: no two workers hold one token (`TokensDiffer`), and a call's
reservation has more time left than its next renewal (`RenewalInTime`): it starts
so because the claim was prompt, and each renewal restores it before the clock
can use it up. `KeysKeepTriples` goes through the statements that write the
reservation table: only acquisition writes an owner, and it refuses a key whose row
belongs to another triple. `ImplementsTheLedger` maps every step to a step of
`NotificationLedger` or to a stutter, again without a timing assumption; the cases that
carry weight are the four ways to write a result, where what the worker saw before
its call (an attempt counted, no recent twin) has to hold still, which is what the fence
and the parts of `IInv` above give.

**WebhookDeliveryProofs.** `TypeCorrect`, `Finality`, `OnePost`,
`PausedAfterWindow`, `BodiesStay`, `NoneCrossed`, `AttemptsAreCounted`,
`ImplementsTheLog` and `PausesAreJustified`. `IInv` types the locals a worker carries along and says what
claiming and recording keep of a row: a leased row is pending, due and has a
counted attempt; a finished row waits for nothing. Finality follows because a
worker whose fence holds works on a leased row, hence on no finished one, however
late it comes. `OnePost` assumes `Prompt` (the clock waits for a drain except
during its POST) and `Timeout < Lease`, the relation of the two constants of
webhook/constants.ts, and rests on `Exclusive`: the lease of a row in work is
whole before the POST and longer than the rest of the POST during it, so no second
worker can claim. `PausedAfterWindow` rests on the streak of failures being older than the calm since the
last success, new url or enabling by no more than `MaxLag` (`StreakIsYoung`), because
that is how far before its recording the instant of a failure can lie.
`BodiesStay` assumes nothing: it holds with slow clocks and overtaken redeliveries, for
every row that is not `crossed`. Its invariant (`Addressed`) follows the body through
the request of a redelivery and the worker's copies: a row that is neither older nor
crossed has no body or one for the destination there is; a worker that read the webhook
found either no such row or the destination its copy is for, and an edit in between
turns every row into an older or a crossed one. `NoneCrossed` says what the exception
amounts to: nothing, when no clock is behind and no edit of the destination falls
between a redelivery's check and its insert. `AttemptsAreCounted` assumes what `OnePost`
does: `Counted` says that a row which waits for a claim has an attempt left, or a
drain died on it.

`ImplementsTheLog` (of the abstract `WebhookLedger`) needs no timing assumption, though
without one several workers may POST the same delivery and a worker may even read the
token of a claim that came after its own. `InSync` is what saves the record: a worker
whose token is the row's knows the row's count and its body, whichever claim the token is
from. `PausesAreJustified` has two halves. Every change an administrator could see takes
the next version, always; that a pause finds the owner gone (`Judged`) holds as long as
the row does not change under a worker between its read and its pause (`FreshReads`)
(in the model a person who left does not come back).

**ParentOutboxProofs.** `TypeCorrect` and `Implements`. The type invariant splits
into named parts: the locks match the jobs of replicas, a claimed event is
pending, uncommitted rows are only those of the claimed event and of registered
consumers, a pending event has an attempt left; there is one lemma per group of
actions. `Implements` shows that each step
is a step of `EventFanout` or stutters. Two cases carry the weight: `Delivered`, where
nothing left to handle and a full registry give that `written` is exactly the
event's pairs (`AllWritten`), and `Failed`, where the rolled-back savepoint leaves
nothing to commit.

**JobRuntimeProofs.** `TypeCorrect`, `OutcomesFinal`, `SuccessIsExclusive` and
`JobsRunAlone`. The
type invariant counts the queued rows, so `QueueRight` keeps the queue without
repetitions. `ManualSuccessIsExclusive` is not inductive: recording the success of a
manual run looks at the run's own lease and never at the job's. `HoldsJob` says why
that is enough: a manual run that still works, was not told that it lost its lease and
whose row's lease is good holds the job's lease, for at least as long, because both
begin together, are renewed together and wear alike. Hence a run that passes its check
beside it owns the job under the same id, and `OnlyItself` shows that it is the same
run. `Spoiled` carries the rest: a run another got in the way of is out of work, knows
that it lost, or has a dead row. `OngoingKeeps` is the frame of all steps that start no
run; each handler's lemma shows its hypotheses. `JobsRunAlone` is the promise behind
the leases: `EachItsOwn` (whoever works under a lease holds it himself) is inductive as
long as no lease runs out under its run (`LeasesOutlast`), although all scheduled runs of
a process own leases under one id.

**AutomationRunsProofs.** `TypeCorrect`, `Truthful`, `Told`, `LoopsCut`, `Ordered`,
`OutcomesFinal`, `AbandonedMeansBroken` and `ImplementsTheHistory`. What a worker counts in its locals and what the history says are tied
together in `AtWork`: the rule in work has acted as often as the worker counted, those
behind it never, and while nothing stopped the group no rule before it that stops has
acted. A row is untouched until the event is handed out (`Unfanned`, `Fresh`), and a
chain cut at the limit is shown (`Cut`). `Apart` (no two workers on one event) comes
from claiming pending rows only: a claimed group has none left, lease or no lease. That
is why a slow worker whose group was abandoned cannot meet another in it. That a worker
takes its rules in order needs a least position (`LeastElement`), taken from the
library's well-foundedness of finite subsets. `ImplementsTheHistory` (of the abstract
`AutomationHistory`) adds `ClaimedTogether`: the runs of an event are claimed in one
statement, so none is pending while another runs. `AbandonedMeansBroken` rests on `Held`:
without a death a run that is running is in a worker's hands, and with `GroupsPrompt`
those are leased.

**DestructiveRequestsProofs.** `TypeCorrect`, `OwnAnswers`, `RepeatsTold`, `DeletedOnce`,
`EndsAreFinal` and `OneHandlerPerKey`, of the composition. `Held`: a row is its token's, and an answer
stored in it is the one its request ended with. `Undivided`: while nothing of a key has
run out, whoever is in the handler owns the row, and an answer that names an action
keeps it; after that, repeats may differ, which is what the ghost `lapsed` marks.
`Opened` joins the two parts: a request opens its action when it is handled. On the
other side there is one pending action of a target (`OnePending`), and approval compares
what it saw in the commit that deletes. `OneHandlerPerKey` assumes `Prompt` (requests end
within the in-flight lease): whoever is at work owns its key's row, and its reservation
is good (`Reserved`), so the row is neither taken over nor purged.

**ReportExportProofs.** `TypeCorrect`, `WholeFiles` and `EndsAreFinal` without timing
assumption; `LostMeansBroken` from `RendersPrompt`; `SendersApart` from `Prompt` (the clock does not pass a mail's claim). What
is in the hands of a worker was claimed (`HandsClaimed`), so no second one claims it, and
`Commit` writes only a row that is still running, which is all that stands between a
worker given up as lost and an export coming back. `SendersApart` adds that a sender's
claim is good: neither writing the outcome nor giving up the claim looks at who holds it.
`LostMeansBroken` rests on `WellInHand`: what a worker has still to render is running and
inside the stale interval, and what is running is in a worker's hands unless one died.

**ItemTransitionsProofs.** `TypeCorrect`, `HopsWait`, `FreshHops`, `RequestsCount` and
`SingleUse`. `FreshHops` rests on `HopsWaitHere`, which every commit that moves, deletes
or archives the item restores by cancelling, and on `LeftAreOver`. For the gates, an
approval has been of use once at most and then lies before its edge's last run (`Spent`),
and the runs of an edge are no more than the approvals that backed one (`Backed`, by
cardinality). `RunEdge` is proved once (lemmas `RunKeeps…`) for a person's request and for
the scheduler, which differ in the rows they hand over (`Handed`).

**Only model-checked**: liveness (EventuallyResolved, EventuallyFinished, both
EventuallySettled, CascadeEnds, ExportsEnd, EverythingEnds, EverythingSettles), which is
out of the prover's reach under fairness. That a right which was lost does not end a deletion request is
refuted, not proved.

## Findings

**A lost right does not end a deletion request** (`never_revived`). The rule is that
a pending action becomes invalidated when the requester loses reach or capability
and that restoring them revives nothing
(`docs/technical/safety-and-runtime.md:2560`). The code looks at pending actions on
a change of role or membership only for service calendars and saved views; a work
item's deletion stays pending meanwhile and can be executed once access is back.

### Known behaviours

The models have these, and the properties are stated so as not to exclude them;
each contradicts something a comment or a document says, and can be seen by
writing the quoted sentence as an invariant.

1. **A call can outlive its reservation.** Authorisation
   (`database/repositories/notification-delivery.repository.ts:393`) does not extend
   the lease, and the first renewal comes 15 s after the call starts; a call
   authorised with less than that left runs unfenced while another worker may call
   for the same key. The recorded outcome stays unique (NoDuplicates), the message
   may be sent twice. `FenceHolds` proves that it takes a claim that dawdles or a
   renewal that is late.
2. **Webhook attempts are not bounded.** The claim (`webhook/delivery.ts:104`) counts,
   only recording looks at the limit; a process killed in the sixth POST leads to a
   seventh. `AttemptsAreCounted` proves that each death buys one attempt at most, and
   nothing else does.
3. **A webhook retry to the right destination is cancelled.** The check
   (`webhook/delivery.ts:396`) compares when the row was queued with when the
   destination changed, not when the body was built.
4. **A redelivery crosses an edit.** The route (`webhook/index.ts:675`) checks and
   inserts in two statements; a change of url in between leaves a young row with
   the old body, which is then posted to the new destination, though "it is never
   replayed to the new destination" (`webhook/index.ts:669`). The run has this step;
   `BodyStaysWithDestination` excepts the copies it makes, by name (`crossed`).
5. **An edit under a slow clock leaves old bodies deliverable.** The check of a drain
   (`webhook/delivery.ts:396`) and the one of the route (`webhook/index.ts:672`) compare
   the database's `created_at` with an instant of the process that edits
   (`webhook/repository.ts:278`). Rows created before the edit by less than that
   process's clock is behind are not stopped; "it is never replayed to the new one"
   (`webhook/delivery.ts:391`) needs clocks that agree. They are the other part of
   `crossed`; `NoneCrossed` proves that there is no third. The opposite happens as well:
   a row inserted by a transaction that began before the edit counts as older, and its
   retries are cancelled although its body was built for the new destination.
6. **A failure window can start before what should have restarted it.** A failure takes
   its instant before it waits for the webhook's row (`webhook/delivery.ts:487`); a
   success, a new url or an enabling that holds the lock at that moment ends the old
   streak, and the failure then starts one that is older than they are.
   `DisabledOnlyAfterWindow` allows for that difference and `PausedAfterWindow` proves
   that it is the only one.
7. **A stale run goes on under the next run's lease** (`scheduler/leader-lock.ts:88`).
   All scheduled runs of a process own leases under one id, so a run whose lease
   expired passes its checks again once the next tick has claimed. It takes a batch
   longer than its lease (`JobsRunAlone`).
8. **A webhook handed to a new owner can still be paused for the old one** (`Pause`
   uses the row read earlier), and reach revoked between the preflight and the call
   does not stop a notification; nothing promises otherwise. The pause is right when
   the row stays as it was read (`PausesAreJustified`).
9. **A slow automation group is abandoned and acts on** (`automation/executor.ts:79`):
   its lease is not renewed, so the history says abandoned of rules that did all
   they do. `HistoryIsTruthful` excepts that state; `AbandonedMeansBroken` proves that
   prompt groups never reach it.
10. **A slow export is failed while its worker renders on** (`report/export.service.ts:598`):
   the sweep goes by the time of the claim, so `worker_lost` may be said of a worker
   that is not lost. `LostMeansBroken` proves that it takes a rendering longer than the
   stale interval.
11. **A refused scheduled hop is cancelled, not retried.** The header comment of
   `scheduler/scheduled-transition.ts` (lines 20 to 23) says in one half that a refused
   or blocked hop stays pending and in the other that it is cancelled when refused; the
   code (lines 174 to 180) and `docs/technical/background-jobs.md` cancel it, and only an
   unexpected error leaves it pending. `GiveUp` follows the code.

## Left out

- Inside the modelled parts: what eligibility, projection and rendering compute
  (verdicts are inputs); signing secrets and their rotation; the HTTP client's
  address checks; legal holds on purges; deliveries that automations queue (they
  behave as redeliveries do); cron patterns and the poll of the job
  configuration; pruning of job history; jobs without a lease; what a rule's action
  or a transition's field effect changes; reminders of approvals and who may decide
  them; moves of an item to another project (they delete its scheduled rows); pending
  actions on other targets and their confirmations; what a report contains, its
  download stream and the deletion of old exports.
- Parts marked "planned" or "late" above: not modelled yet.
- Parts that will stay out: identity (the library better-auth keeps most of the
  state), permissions (pure evaluation, taken as inputs), CRUD under version
  checks, search, the web application, packages of UI and mail templates,
  deployment: no protocol of their own, or no state.
