---------------------------- MODULE ParentOutbox ----------------------------
(***************************************************************************)
(* The parent event outbox: events written by mutations (events/outbox.ts) *)
(* and the drain that hands each to the registered consumers               *)
(* (events/outbox-consumer.ts, outbox-consumer.repository.ts). A drain     *)
(* runs one transaction per event; its statements are steps here, and what *)
(* it has written but not committed is kept apart from the tables, so that *)
(* failures, crashes and other replicas fall between any two of them.      *)
(***************************************************************************)
EXTENDS Naturals

CONSTANTS
  Event,
  Replica,          \* processes that run outbox-drain
  Consumer,         \* names of the built-in parent consumers
  Handles,          \* <<consumer, event>> pairs: the event kinds a consumer handles
  Corrupt,          \* events whose stored payload is not their envelope
  NoEvent, NoReplica,
  RetryDelay,       \* notificationRetryDelayMs by attempt number, in ticks
  Limit,            \* PARENT_EVENT_ATTEMPT_LIMIT
  MaxCrashes, MaxRequeues      \* bounds on crashes and on requeues

ASSUME OutboxAssumption ==
  /\ NoEvent \notin Event /\ NoReplica \notin Replica
  /\ Handles \subseteq Consumer \X Event /\ Corrupt \subseteq Event
  /\ Limit \in Nat \ {0} /\ RetryDelay \in [1 .. Limit - 1 -> Nat]
  /\ MaxCrashes \in Nat /\ MaxRequeues \in Nat

VARIABLES
  state,        \* Event -> outbox.state, "unwritten" before the mutation commits
  attempts,     \* Event -> outbox.attempts
  wait,         \* Event -> ticks until outbox.next_attempt_at
  children,     \* committed child rows: <<consumer, event>> pairs
  locked,       \* Event -> replica whose transaction holds the row lock
  registry,     \* Replica -> consumers registered in the process
  pc,           \* Replica -> position in the drain
  job,          \* Replica -> event it claimed
  written,      \* Replica -> child rows of its open transaction
  crashes, requeues

tableVars == <<state, attempts, wait, children, locked>>
vars == <<state, attempts, wait, children, locked, registry, pc, job, written,
          crashes, requeues>>

Labels == {"idle", "ready", "handling", "failed"}

Init ==
  /\ state = [e \in Event |-> "unwritten"]
  /\ attempts = [e \in Event |-> 0]
  /\ wait = [e \in Event |-> 0]
  /\ children = {}
  /\ locked = [e \in Event |-> NoReplica]
  /\ registry = [r \in Replica |-> {}]
  /\ pc = [r \in Replica |-> "idle"]
  /\ job = [r \in Replica |-> NoEvent]
  /\ written = [r \in Replica |-> {}]
  /\ crashes = 0 /\ requeues = 0

\* enqueueOutboxEvent, committed with the change it tells of.
Produce(e) ==
  /\ state[e] = "unwritten"
  /\ state' = [state EXCEPT ![e] = "pending"]
  /\ UNCHANGED <<attempts, wait, children, locked, registry, pc, job, written, crashes, requeues>>

RegisterOrGoOn(r) ==
  /\ pc[r] = "idle"
  /\ \E loaded \in {registry[r], Consumer} : registry' = [registry EXCEPT ![r] = loaded]
  /\ pc' = [pc EXCEPT ![r] = "ready"]
  /\ UNCHANGED <<tableVars, job, written, crashes, requeues>>

\* registerBuiltInConsumers: all consumers are registered before the drain goes
\* on; a load that fails throws, and the next drain tries again.
Register(r) ==
  /\ pc[r] = "idle"
  /\ registry' = [registry EXCEPT ![r] = Consumer]
  /\ pc' = [pc EXCEPT ![r] = "ready"]
  /\ UNCHANGED <<tableVars, job, written, crashes, requeues>>

\* claimNextPendingParentEvent: a due pending row nobody holds (SKIP LOCKED).
\* A payload that is not the envelope of its row fails at once.
Claim(r, e) ==
  /\ pc[r] = "ready"
  /\ state[e] = "pending" /\ wait[e] = 0 /\ locked[e] = NoReplica
  /\ locked' = [locked EXCEPT ![e] = r]
  /\ job' = [job EXCEPT ![r] = e]
  /\ pc' = [pc EXCEPT ![r] = IF e \in Corrupt THEN "failed" ELSE "handling"]
  /\ UNCHANGED <<state, attempts, wait, children, registry, written, crashes, requeues>>

ToHandle(r) ==
  {c \in registry[r] : <<c, job[r]>> \in Handles /\ <<c, job[r]>> \notin written[r]}

\* A consumer inserts its rows in the savepoint; the unique key on the event id
\* leaves rows that are already there alone.
Handle(r) ==
  /\ pc[r] = "handling"
  /\ \E c \in ToHandle(r) : written' = [written EXCEPT ![r] = @ \cup {<<c, job[r]>>}]
  /\ UNCHANGED <<tableVars, registry, pc, job, crashes, requeues>>

SavepointKept(r) == written[r]

\* What is left of the transaction when the savepoint is rolled back.
AfterRollback(r) == {}

HandleFails(r) ==
  /\ pc[r] = "handling" /\ ToHandle(r) # {}
  /\ written' = [written EXCEPT ![r] = AfterRollback(r)]
  /\ pc' = [pc EXCEPT ![r] = "failed"]
  /\ UNCHANGED <<tableVars, registry, job, crashes, requeues>>

\* Commit, or the end of the connection: the row lock goes with the transaction.
EndTransaction(r) ==
  /\ locked' = [locked EXCEPT ![job[r]] = NoReplica]
  /\ pc' = [pc EXCEPT ![r] = "idle"]
  /\ job' = [job EXCEPT ![r] = NoEvent]
  /\ written' = [written EXCEPT ![r] = {}]

\* markParentEventDelivered
Delivered(r) ==
  /\ pc[r] = "handling" /\ ToHandle(r) = {}
  /\ state' = [state EXCEPT ![job[r]] = "delivered"]
  /\ attempts' = [attempts EXCEPT ![job[r]] = @ + 1]
  /\ children' = children \cup written[r]
  /\ EndTransaction(r)
  /\ UNCHANGED <<wait, registry, crashes, requeues>>

FirstAttempt(attemptsBefore) == 1

\* The count a failed attempt leaves; the last one dead-letters the parent.
AttemptsAfter(attemptsBefore) ==
  IF attemptsBefore + 1 <= Limit THEN attemptsBefore + 1 ELSE Limit

\* parentFailureOutcome and markParentEventFailed, after the savepoint is gone.
Failed(r) ==
  LET e == job[r]
      count == AttemptsAfter(attempts[e])
  IN  /\ pc[r] = "failed"
      /\ attempts' = [attempts EXCEPT ![e] = count]
      /\ IF count >= Limit
         THEN state' = [state EXCEPT ![e] = "dead"] /\ UNCHANGED wait
         ELSE wait' = [wait EXCEPT ![e] = RetryDelay[count]] /\ UNCHANGED state
      /\ children' = children \cup written[r]
      /\ EndTransaction(r)
      /\ UNCHANGED <<registry, crashes, requeues>>

\* The drain finds nothing due, or its budget is spent.
Idle(r) ==
  /\ pc[r] = "ready"
  /\ pc' = [pc EXCEPT ![r] = "idle"]
  /\ UNCHANGED <<tableVars, registry, job, written, crashes, requeues>>

\* The process, or its database connection, dies: the transaction rolls back.
Crash(r) ==
  /\ pc[r] \in {"handling", "failed"} /\ crashes < MaxCrashes
  /\ crashes' = crashes + 1
  /\ registry' = [registry EXCEPT ![r] = {}]
  /\ EndTransaction(r)
  /\ UNCHANGED <<state, attempts, wait, children, requeues>>

\* requeueDelivery of a dead event, by an instance administrator.
Requeue(e) ==
  /\ state[e] = "dead" /\ requeues < MaxRequeues
  /\ requeues' = requeues + 1
  /\ state' = [state EXCEPT ![e] = "pending"]
  /\ attempts' = [attempts EXCEPT ![e] = 0]
  /\ wait' = [wait EXCEPT ![e] = 0]
  /\ UNCHANGED <<children, locked, registry, pc, job, written, crashes>>

Tick ==
  /\ \E e \in Event : wait[e] > 0
  /\ wait' = [e \in Event |-> IF wait[e] = 0 THEN 0 ELSE wait[e] - 1]
  /\ UNCHANGED <<state, attempts, children, locked, registry, pc, job, written, crashes, requeues>>

Step(r) ==
  \/ Register(r) \/ \E e \in Event : Claim(r, e)
  \/ Handle(r) \/ HandleFails(r) \/ Delivered(r) \/ Failed(r) \/ Idle(r)

Next ==
  \/ \E r \in Replica : Step(r) \/ Crash(r)
  \/ \E e \in Event : Produce(e) \/ Requeue(e)
  \/ Tick

Spec == Init /\ [][Next]_vars

\* The scheduler starts outbox-drain every 30 seconds on every replica, a drain
\* goes on to its end, and takes the row that has been due longest. Nothing is
\* assumed of mutations, crashes and requeues.
Fairness ==
  /\ WF_vars(Tick)
  /\ \A r \in Replica :
       WF_vars(Step(r)) /\ \A e \in Event : SF_vars(Claim(r, e))

FairSpec == Spec /\ Fairness

-----------------------------------------------------------------------------
(* Properties *)

\* Types, and the two sides of a claim: the replica that holds the row lock is
\* the one working on the event, which stays pending while it is held, and
\* only then does it have uncommitted rows. A pending event has an attempt left.
TypeOK ==
  /\ state \in [Event -> {"unwritten", "pending", "delivered", "dead"}]
  /\ attempts \in [Event -> 0 .. Limit]
  /\ wait \in [Event -> Nat]
  /\ children \subseteq Handles
  /\ locked \in [Event -> Replica \cup {NoReplica}]
  /\ registry \in [Replica -> SUBSET Consumer]
  /\ pc \in [Replica -> Labels]
  /\ job \in [Replica -> Event \cup {NoEvent}]
  /\ written \in [Replica -> SUBSET Handles]
  /\ \A e \in Event :
       /\ state[e] = "pending" => attempts[e] < Limit
       /\ state[e] = "unwritten" => attempts[e] = 0
  /\ \A r \in Replica : \A e \in Event :
       job[r] = e <=> locked[e] = r
  /\ \A r \in Replica :
       /\ job[r] \in Event <=> pc[r] \in {"handling", "failed"}
       /\ pc[r] \in {"handling", "failed"} => state[job[r]] = "pending"
       /\ pc[r] # "handling" => written[r] = {}
       /\ written[r] \subseteq registry[r] \X {job[r]}
       /\ pc[r] # "idle" => registry[r] = Consumer
  /\ crashes \in 0 .. MaxCrashes /\ requeues \in 0 .. MaxRequeues

\* EV-2: whatever replicas, failures, crashes and requeues do, an event's
\* consumers are given their work all together when it is delivered, once, and
\* not before: the outbox implements EventFanout.
Fanout == INSTANCE EventFanout WITH status <- state, enqueued <- children, Wanted <- Handles
ImplementsFanout == Fanout!Spec

\* Every event that was written is eventually delivered, or dead after its
\* attempts, also when its payload is corrupt or a consumer keeps failing.
EventuallySettled ==
  \A e \in Event : state[e] = "pending" ~> state[e] \in {"delivered", "dead"}

=============================================================================
