------------------------- MODULE ParentOutboxProofs -------------------------
(* Type correctness of ParentOutbox, and that it implements EventFanout. *)
EXTENDS ParentOutbox, TLAPS

\* The conjuncts of TypeOK, by what they speak of.
Counters == crashes \in 0 .. MaxCrashes /\ requeues \in 0 .. MaxRequeues

Tables ==
  /\ state \in [Event -> {"unwritten", "pending", "delivered", "dead"}]
  /\ attempts \in [Event -> 0 .. Limit]
  /\ wait \in [Event -> Nat]
  /\ children \subseteq Handles
  /\ locked \in [Event -> Replica \cup {NoReplica}]

Replicas ==
  /\ registry \in [Replica -> SUBSET Consumer]
  /\ pc \in [Replica -> Labels]
  /\ job \in [Replica -> Event \cup {NoEvent}]
  /\ written \in [Replica -> SUBSET Handles]

AttemptsLeft ==
  \A e \in Event :
    /\ state[e] = "pending" => attempts[e] < Limit
    /\ state[e] = "unwritten" => attempts[e] = 0

LocksMatch == \A r \in Replica : \A e \in Event : job[r] = e <=> locked[e] = r

Claimed(r) ==
  /\ job[r] \in Event <=> pc[r] \in {"handling", "failed"}
  /\ pc[r] \in {"handling", "failed"} => state[job[r]] = "pending"
  /\ pc[r] # "handling" => written[r] = {}
  /\ written[r] \subseteq registry[r] \X {job[r]}
  /\ pc[r] # "idle" => registry[r] = Consumer

Parts ==
  /\ Tables /\ Replicas /\ AttemptsLeft /\ LocksMatch
  /\ \A r \in Replica : Claimed(r)
  /\ Counters

\* TypeOK is the conjunction of its parts.
LEMMA TypeParts == TypeOK <=> Parts
BY DEF TypeOK, Parts, Tables, Replicas, AttemptsLeft, LocksMatch, Claimed, Counters

-----------------------------------------------------------------------------

\* The start is well typed.
LEMMA InitParts == ASSUME OutboxAssumption, Init PROVE Parts
<1>1. Tables
  BY DEF OutboxAssumption, Init, Tables
<1>2. Replicas
  BY DEF OutboxAssumption, Init, Replicas, Labels
<1>3. LocksMatch
  BY DEF OutboxAssumption, Init, LocksMatch
<1>4. \A r \in Replica : Claimed(r)
  BY DEF OutboxAssumption, Init, Claimed
<1>5. Counters
  BY DEF OutboxAssumption, Init, Counters
<1>6. AttemptsLeft
  BY DEF OutboxAssumption, Init, AttemptsLeft
<1> QED
  BY <1>1, <1>2, <1>3, <1>4, <1>5, <1>6 DEF Parts

\* Steps that leave every claim as it is: producing, requeueing, the clock.
LEMMA TableSteps ==
  ASSUME OutboxAssumption, Parts,
         \/ \E e \in Event : Produce(e) \/ Requeue(e)
         \/ Tick
  PROVE  Parts'
<1> USE DEF Parts
<1>1. CASE \E e \in Event : Produce(e)
  <2> PICK e \in Event : Produce(e)
    BY <1>1
  <2>1. Tables' /\ Replicas' /\ LocksMatch' /\ Counters'
    BY DEF Produce, Tables, Replicas, LocksMatch, Counters
  <2>2. \A r \in Replica : Claimed(r)'
    BY DEF Produce, Tables, Replicas, Claimed
  <2>3. AttemptsLeft'
    BY DEF Produce, Tables, AttemptsLeft, OutboxAssumption
  <2> QED
    BY <2>1, <2>2, <2>3
<1>2. CASE \E e \in Event : Requeue(e)
  <2> PICK e \in Event : Requeue(e)
    BY <1>2
  <2>1. Tables'
    BY DEF Requeue, Tables, OutboxAssumption
  <2>2. Replicas' /\ LocksMatch'
    BY DEF Requeue, Replicas, LocksMatch
  <2>3. Counters'
    BY DEF Requeue, Counters, OutboxAssumption
  <2>4. \A r \in Replica : Claimed(r)'
    BY DEF Requeue, Tables, Replicas, Claimed
  <2>5. AttemptsLeft'
    BY DEF Requeue, Tables, AttemptsLeft, OutboxAssumption
  <2> QED
    BY <2>1, <2>2, <2>3, <2>4, <2>5
<1>3. CASE Tick
  <2>1. wait' \in [Event -> Nat]
    BY <1>3 DEF Tick, Tables
  <2>2. Tables' /\ Replicas' /\ LocksMatch' /\ Counters'
    BY <1>3, <2>1 DEF Tick, Tables, Replicas, LocksMatch, Counters
  <2>4. AttemptsLeft'
    BY <1>3 DEF Tick, AttemptsLeft
  <2>3. \A r \in Replica : Claimed(r)'
    BY <1>3 DEF Tick, Claimed
  <2> QED
    BY <2>2, <2>3, <2>4
<1> QED
  BY <1>1, <1>2, <1>3

\* Registering, and finding nothing to do.
LEMMA IdleSteps ==
  ASSUME OutboxAssumption, Parts, NEW r \in Replica, Register(r) \/ Idle(r)
  PROVE  Parts'
<1> USE DEF Parts
<1>1. Tables' /\ Counters' /\ AttemptsLeft'
  BY DEF Register, Idle, tableVars, Tables, Counters, AttemptsLeft
<1>2. Replicas'
  BY DEF Register, Idle, Replicas, Labels
<1>3. LocksMatch'
  BY DEF Register, Idle, tableVars, LocksMatch
<1>4. \A q \in Replica : Claimed(q)'
  BY DEF Register, Idle, tableVars, Replicas, Claimed
<1> QED
  BY <1>1, <1>2, <1>3, <1>4

\* A claim takes the lock and the job together.
LEMMA ClaimStep ==
  ASSUME OutboxAssumption, Parts, NEW r \in Replica, NEW e \in Event, Claim(r, e)
  PROVE  Parts'
<1> USE DEF Parts
<1>1. Tables' /\ Counters' /\ AttemptsLeft'
  BY DEF Claim, Tables, Counters, AttemptsLeft
<1>2. Replicas'
  BY DEF Claim, Replicas, Labels
<1>3. job[r] = NoEvent
  BY DEF Claim, Claimed, Replicas
<1>4. LocksMatch'
  <2> SUFFICES ASSUME NEW q \in Replica, NEW f \in Event
               PROVE  (job[q] = f <=> locked[f] = q)'
    BY DEF LocksMatch
  <2>1. CASE q = r
    BY <1>3, <2>1 DEF Claim, LocksMatch, Tables, Replicas, OutboxAssumption
  <2>2. CASE q # r
    BY <2>2 DEF Claim, LocksMatch, Tables, Replicas, OutboxAssumption
  <2> QED
    BY <2>1, <2>2
<1>5. \A q \in Replica : Claimed(q)'
  <2> SUFFICES ASSUME NEW q \in Replica PROVE Claimed(q)'
    OBVIOUS
  <2>1. CASE q = r
    <3>1. /\ job'[q] = e /\ pc'[q] \in {"handling", "failed"} /\ state'[e] = "pending"
          /\ written'[q] = {} /\ registry'[q] = Consumer
      BY <2>1 DEF Claim, Replicas, Claimed
    <3> QED
      BY <3>1 DEF Claimed
  <2>2. CASE q # r
    BY <2>2 DEF Claim, Replicas, Claimed
  <2> QED
    BY <2>1, <2>2
<1> QED
  BY <1>1, <1>2, <1>4, <1>5

\* Handling writes rows of the claimed event only, failing leaves none.
LEMMA HandleSteps ==
  ASSUME OutboxAssumption, Parts, NEW r \in Replica, Handle(r) \/ HandleFails(r)
  PROVE  Parts'
<1> USE DEF Parts
<1>1. Tables' /\ Counters' /\ LocksMatch' /\ AttemptsLeft'
  BY DEF Handle, HandleFails, tableVars, Tables, Counters, LocksMatch, AttemptsLeft
<1>2. CASE Handle(r)
  <2> PICK c \in ToHandle(r) : written' = [written EXCEPT ![r] = @ \cup {<<c, job[r]>>}]
    BY <1>2 DEF Handle
  <2>1. c \in registry[r] /\ <<c, job[r]>> \in Handles
    BY DEF ToHandle
  <2>2. written'[r] = written[r] \cup {<<c, job[r]>>}
    BY DEF Replicas
  <2>3. Replicas'
    BY <1>2, <2>1 DEF Handle, Replicas
  <2>4. Claimed(r)'
    BY <1>2, <2>1, <2>2 DEF Handle, tableVars, Claimed
  <2>5. \A q \in Replica \ {r} : Claimed(q)'
    BY <1>2 DEF Handle, tableVars, Replicas, Claimed
  <2> QED
    BY <1>1, <2>3, <2>4, <2>5
<1>3. CASE HandleFails(r)
  <2>1. Replicas'
    BY <1>3 DEF HandleFails, AfterRollback, Replicas, Labels
  <2>2. Claimed(r)'
    BY <1>3 DEF HandleFails, AfterRollback, tableVars, Replicas, Claimed
  <2>3. \A q \in Replica \ {r} : Claimed(q)'
    BY <1>3 DEF HandleFails, tableVars, Replicas, Claimed
  <2> QED
    BY <1>1, <2>1, <2>2, <2>3
<1> QED
  BY <1>2, <1>3

\* The end of a transaction frees the row and the replica.
LEMMA EndStep ==
  ASSUME OutboxAssumption, Parts, NEW r \in Replica, EndTransaction(r), job[r] \in Event,
         registry' \in [Replica -> SUBSET Consumer],
         \A q \in Replica \ {r} : registry'[q] = registry[q],
         \A f \in Event \ {job[r]} : state'[f] = state[f]
  PROVE  /\ locked' \in [Event -> Replica \cup {NoReplica}]
         /\ Replicas' /\ LocksMatch' /\ \A q \in Replica : Claimed(q)'
<1> USE DEF Parts
<1>1. locked' \in [Event -> Replica \cup {NoReplica}]
  BY DEF EndTransaction, Tables
<1>2. Replicas'
  BY DEF EndTransaction, Replicas, Labels
<1>3. LocksMatch'
  <2> SUFFICES ASSUME NEW q \in Replica, NEW f \in Event
               PROVE  (job[q] = f <=> locked[f] = q)'
    BY DEF LocksMatch
  <2>1. locked[job[r]] = r
    BY DEF LocksMatch
  <2>2. CASE f = job[r]
    BY <2>1, <2>2 DEF EndTransaction, LocksMatch, Tables, Replicas, OutboxAssumption
  <2>3. CASE f # job[r]
    BY <2>1, <2>3 DEF EndTransaction, LocksMatch, Tables, Replicas, OutboxAssumption
  <2> QED
    BY <2>2, <2>3
<1>4. Claimed(r)'
  <2>1. job'[r] = NoEvent /\ pc'[r] = "idle" /\ written'[r] = {}
    BY DEF EndTransaction, Replicas
  <2> QED
    BY <2>1 DEF Claimed, OutboxAssumption
<1>5. \A q \in Replica \ {r} : Claimed(q)'
  <2> SUFFICES ASSUME NEW q \in Replica \ {r} PROVE Claimed(q)'
    OBVIOUS
  <2>1. /\ job'[q] = job[q] /\ pc'[q] = pc[q] /\ written'[q] = written[q]
        /\ registry'[q] = registry[q]
    BY DEF EndTransaction, Replicas
  <2>2. job[q] \in Event => job[q] # job[r]
    BY DEF LocksMatch
  <2> QED
    BY <2>1, <2>2 DEF Claimed
<1> QED
  BY <1>1, <1>2, <1>3, <1>4, <1>5

\* A crash ends the transaction and leaves the tables alone.
LEMMA CrashStep ==
  ASSUME OutboxAssumption, Parts, NEW r \in Replica, Crash(r)
  PROVE  Parts'
<1> USE DEF Parts
<1>1. job[r] \in Event
  BY DEF Crash, Claimed
<1>2. /\ locked' \in [Event -> Replica \cup {NoReplica}]
      /\ Replicas' /\ LocksMatch' /\ \A q \in Replica : Claimed(q)'
  <2>1. registry' \in [Replica -> SUBSET Consumer]
    BY DEF Crash, Replicas
  <2>2. \A q \in Replica \ {r} : registry'[q] = registry[q]
    BY DEF Crash, Replicas
  <2>3. EndTransaction(r) /\ state' = state
    BY DEF Crash
  <2> QED
    BY <1>1, <2>1, <2>2, <2>3, EndStep
<1>3. Tables' /\ AttemptsLeft' /\ Counters'
  BY <1>2 DEF Crash, Tables, AttemptsLeft, Counters, OutboxAssumption
<1> QED
  BY <1>2, <1>3

\* Marking delivered.
LEMMA DeliveredStep ==
  ASSUME OutboxAssumption, Parts, NEW r \in Replica, Delivered(r)
  PROVE  Parts'
<1> USE DEF Parts
<1>1. job[r] \in Event /\ state[job[r]] = "pending"
  BY DEF Delivered, Claimed
<1>2. /\ locked' \in [Event -> Replica \cup {NoReplica}]
      /\ Replicas' /\ LocksMatch' /\ \A q \in Replica : Claimed(q)'
  <2>1. EndTransaction(r) /\ registry' = registry
    BY DEF Delivered
  <2>2. \A f \in Event \ {job[r]} : state'[f] = state[f]
    BY DEF Delivered, Tables
  <2> QED
    BY <1>1, <2>1, <2>2, EndStep DEF Replicas
<1>3. attempts[job[r]] + 1 \in 0 .. Limit
  BY <1>1 DEF Tables, AttemptsLeft, OutboxAssumption
<1>4. state' \in [Event -> {"unwritten", "pending", "delivered", "dead"}]
  BY <1>1 DEF Delivered, Tables
<1>5. attempts' \in [Event -> 0 .. Limit] /\ wait' \in [Event -> Nat]
  BY <1>1, <1>3 DEF Delivered, Tables
<1>6. children' \subseteq Handles
  <2>1. written[r] \subseteq Handles
    BY DEF Replicas
  <2> QED
    BY <2>1 DEF Delivered, Tables
<1>7. AttemptsLeft'
  <2> SUFFICES ASSUME NEW f \in Event
               PROVE  /\ state'[f] = "pending" => attempts'[f] < Limit
                      /\ state'[f] = "unwritten" => attempts'[f] = 0
    BY DEF AttemptsLeft
  <2>1. CASE f = job[r]
    BY <2>1 DEF Delivered, Tables
  <2>2. CASE f # job[r]
    BY <2>2 DEF Delivered, Tables, AttemptsLeft
  <2> QED
    BY <2>1, <2>2
<1>8. Counters'
  BY DEF Delivered, Counters
<1> QED
  BY <1>2, <1>4, <1>5, <1>6, <1>7, <1>8 DEF Tables

\* Marking failed: another attempt after a wait, or dead after the last one.
LEMMA FailedStep ==
  ASSUME OutboxAssumption, Parts, NEW r \in Replica, Failed(r)
  PROVE  Parts' /\ children' = children
<1> USE DEF Parts
<1>1. job[r] \in Event /\ state[job[r]] = "pending" /\ written[r] = {}
  BY DEF Failed, Claimed
<1> DEFINE count == AttemptsAfter(attempts[job[r]])
<1>2. count \in 1 .. Limit
  BY <1>1 DEF Tables, AttemptsAfter, OutboxAssumption
<1>3. attempts' = [attempts EXCEPT ![job[r]] = count]
  BY DEF Failed
<1>4. \/ count = Limit /\ state' = [state EXCEPT ![job[r]] = "dead"] /\ wait' = wait
      \/ count < Limit /\ state' = state /\ wait' = [wait EXCEPT ![job[r]] = RetryDelay[count]]
  <2>1. CASE count >= Limit
    <3>1. count = Limit
      BY <1>2, <2>1 DEF OutboxAssumption
    <3> QED
      BY <2>1, <3>1 DEF Failed
  <2>2. CASE ~ (count >= Limit)
    <3>1. count < Limit
      BY <1>2, <2>2 DEF OutboxAssumption
    <3> QED
      BY <2>2, <3>1 DEF Failed
  <2> QED
    BY <2>1, <2>2
<1>5. state' \in [Event -> {"unwritten", "pending", "delivered", "dead"}]
  BY <1>1, <1>4 DEF Tables
<1>6. /\ locked' \in [Event -> Replica \cup {NoReplica}]
      /\ Replicas' /\ LocksMatch' /\ \A q \in Replica : Claimed(q)'
  <2>1. EndTransaction(r) /\ registry' = registry
    BY DEF Failed
  <2>2. \A f \in Event \ {job[r]} : state'[f] = state[f]
    BY <1>4 DEF Tables
  <2> QED
    BY <1>1, <2>1, <2>2, EndStep DEF Replicas
<1>7. attempts' \in [Event -> 0 .. Limit]
  BY <1>2, <1>3, <1>1 DEF Tables
<1>8. wait' \in [Event -> Nat]
  <2>1. count < Limit => RetryDelay[count] \in Nat
    <3>1. count < Limit => count \in 1 .. Limit - 1
      BY <1>2 DEF OutboxAssumption
    <3> QED
      BY <3>1 DEF OutboxAssumption
  <2> QED
    BY <1>1, <1>4, <2>1 DEF Tables
<1>9. children' = children
  BY <1>1 DEF Failed
<1>10. AttemptsLeft'
  <2> SUFFICES ASSUME NEW f \in Event
               PROVE  /\ state'[f] = "pending" => attempts'[f] < Limit
                      /\ state'[f] = "unwritten" => attempts'[f] = 0
    BY DEF AttemptsLeft
  <2>1. CASE f = job[r]
    <3>1. attempts'[f] = count
      BY <1>1, <1>3, <2>1 DEF Tables
    <3>2. \/ count = Limit /\ state'[f] = "dead"
          \/ count < Limit /\ state'[f] = "pending"
      BY <1>1, <1>4, <2>1 DEF Tables
    <3> QED
      BY <3>1, <3>2
  <2>2. CASE f # job[r]
    <3>1. attempts'[f] = attempts[f] /\ state'[f] = state[f]
      BY <1>3, <1>4, <2>2 DEF Tables
    <3> QED
      BY <3>1 DEF AttemptsLeft
  <2> QED
    BY <2>1, <2>2
<1>11. Counters'
  BY DEF Failed, Counters
<1> QED
  BY <1>5, <1>6, <1>7, <1>8, <1>9, <1>10, <1>11 DEF Tables

-----------------------------------------------------------------------------

\* Every step of Next, and stuttering, keeps the parts of TypeOK.
LEMMA Invariance ==
  ASSUME OutboxAssumption, Parts, [Next]_vars
  PROVE  Parts'
<1>1. CASE Next
  <2>1. ASSUME NEW r \in Replica, Step(r) \/ Crash(r) PROVE Parts'
    <3>1. CASE Register(r) \/ Idle(r)
      BY <3>1, IdleSteps
    <3>2. CASE \E e \in Event : Claim(r, e)
      BY <3>2, ClaimStep
    <3>3. CASE Handle(r) \/ HandleFails(r)
      BY <3>3, HandleSteps
    <3>4. CASE Delivered(r)
      BY <3>4, DeliveredStep
    <3>5. CASE Failed(r)
      BY <3>5, FailedStep
    <3>6. CASE Crash(r)
      BY <3>6, CrashStep
    <3> QED
      BY <2>1, <3>1, <3>2, <3>3, <3>4, <3>5, <3>6 DEF Step
  <2>2. CASE (\E e \in Event : Produce(e) \/ Requeue(e)) \/ Tick
    BY <2>2, TableSteps
  <2> QED
    BY <1>1, <2>1, <2>2 DEF Next
<1>2. CASE UNCHANGED vars
  BY <1>2 DEF vars, tableVars, Parts, Tables, Replicas, AttemptsLeft, LocksMatch, Claimed,
              Counters
<1> QED
  BY <1>1, <1>2

\* However many events, replicas, consumers, crashes and requeues there are:
\* the state of the outbox is well typed, a replica works on the event whose
\* row it has locked and no other, that event stays pending meanwhile, and no
\* pending event has used its attempts up (outbox-consumer.repository.ts).
THEOREM TypeCorrect == ASSUME OutboxAssumption PROVE Spec => []TypeOK
<1>1. Init => Parts
  BY InitParts
<1>2. Parts /\ [Next]_vars => Parts'
  BY Invariance
<1>3. Parts => TypeOK
  BY TypeParts
<1> QED
  BY <1>1, <1>2, <1>3, PTL DEF Spec

-----------------------------------------------------------------------------

\* What a transaction has written when no consumer is left to call is all the
\* work its event is worth.
LEMMA AllWritten ==
  ASSUME OutboxAssumption, Parts, NEW r \in Replica, Delivered(r)
  PROVE  written[r] = Fanout!Of(job[r])
<1>1. job[r] \in Event /\ registry[r] = Consumer
  BY DEF Delivered, Parts, Claimed
<1>2. written[r] \subseteq Handles /\ written[r] \subseteq Consumer \X {job[r]}
  BY <1>1 DEF Parts, Claimed, Replicas
<1>3. \A c \in Consumer : <<c, job[r]>> \in Handles => <<c, job[r]>> \in written[r]
  BY <1>1 DEF Delivered, ToHandle
<1>4. Handles \subseteq Consumer \X Event
  BY DEF OutboxAssumption
<1>5. ASSUME NEW pair \in written[r] PROVE pair \in Fanout!Of(job[r])
  BY <1>2, <1>5 DEF Fanout!Of
<1>6. ASSUME NEW pair \in Fanout!Of(job[r]) PROVE pair \in written[r]
  <2>1. pair \in Handles /\ pair[2] = job[r]
    BY <1>6 DEF Fanout!Of
  <2>2. PICK c \in Consumer, e \in Event : pair = <<c, e>>
    BY <1>4, <2>1
  <2>3. e = job[r]
    BY <2>1, <2>2
  <2> QED
    BY <1>3, <2>1, <2>2, <2>3
<1> QED
  BY <1>5, <1>6

\* A step of the outbox is a step of EventFanout, or changes nothing it sees.
LEMMA StepRefines ==
  ASSUME OutboxAssumption, Parts, [Next]_vars
  PROVE  [Fanout!Next]_<<state, children>>
<1> SUFFICES ASSUME ~ UNCHANGED <<state, children>> PROVE Fanout!Next
  OBVIOUS
<1>1. CASE \E e \in Event : Produce(e)
  <2> PICK e \in Event : Produce(e)
    BY <1>1
  <2>1. Fanout!Write(e)
    BY DEF Produce, Fanout!Write
  <2> QED
    BY <2>1 DEF Fanout!Next
<1>2. CASE \E e \in Event : Requeue(e)
  <2> PICK e \in Event : Requeue(e)
    BY <1>2
  <2>1. Fanout!Requeue(e)
    BY DEF Requeue, Fanout!Requeue
  <2> QED
    BY <2>1 DEF Fanout!Next
<1>3. CASE \E r \in Replica : Delivered(r)
  <2> PICK r \in Replica : Delivered(r)
    BY <1>3
  <2>1. job[r] \in Event /\ state[job[r]] = "pending"
    BY DEF Delivered, Parts, Claimed
  <2>2. children' = children \cup Fanout!Of(job[r])
    BY AllWritten DEF Delivered
  <2>3. Fanout!Deliver(job[r])
    BY <2>1, <2>2 DEF Delivered, Fanout!Deliver
  <2> QED
    BY <2>1, <2>3 DEF Fanout!Next
<1>4. CASE \E r \in Replica : Failed(r)
  <2> PICK r \in Replica : Failed(r)
    BY <1>4
  <2>1. job[r] \in Event /\ state[job[r]] = "pending"
    BY DEF Failed, Parts, Claimed
  <2>2. children' = children
    BY FailedStep
  <2>3. state' = [state EXCEPT ![job[r]] = "dead"]
    BY <2>2 DEF Failed
  <2>4. Fanout!GiveUp(job[r])
    BY <2>1, <2>2, <2>3 DEF Fanout!GiveUp
  <2> QED
    BY <2>1, <2>4 DEF Fanout!Next
<1>5. ~ UNCHANGED vars
  BY DEF vars
<1>6. ASSUME NEW r \in Replica PROVE ~ (Register(r) \/ Idle(r) \/ Handle(r) \/ HandleFails(r))
  BY DEF Register, Idle, Handle, HandleFails, tableVars
<1>7. ASSUME NEW r \in Replica PROVE ~ ((\E e \in Event : Claim(r, e)) \/ Crash(r))
  BY DEF Claim, Crash
<1>8. ~ Tick
  BY DEF Tick
<1> QED
  BY <1>1, <1>2, <1>3, <1>4, <1>5, <1>6, <1>7, <1>8 DEF Next, Step

\* EV-2 for any number of events, replicas and consumers: an event's consumers
\* are given their work all at once, on delivery, and never while the event is
\* pending or dead (outbox-consumer.ts, processNextParentEvent).
THEOREM Implements == ASSUME OutboxAssumption PROVE Spec => ImplementsFanout
<1>1. Init => Parts
  BY InitParts
<1>2. Parts /\ [Next]_vars => Parts'
  BY Invariance
<1>3. Init => Fanout!Init
  BY DEF Init, Fanout!Init
<1>4. Parts /\ [Next]_vars => [Fanout!Next]_<<state, children>>
  BY StepRefines
<1> QED
  BY <1>1, <1>2, <1>3, <1>4, PTL DEF Spec, ImplementsFanout, Fanout!Spec
=============================================================================
