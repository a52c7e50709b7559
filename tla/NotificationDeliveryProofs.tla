--------------------- MODULE NotificationDeliveryProofs ---------------------
(***************************************************************************)
(* Safety of the notification drain for every set of deliveries, workers   *)
(* and tokens and every choice of the timing constants, and that the drain *)
(* implements the ledger of attempts and outcomes.                         *)
(***************************************************************************)
EXTENDS NotificationDelivery, TLAPS

\* A live reservation names a delivery, and lies on that delivery's key.
LiveRowOnItsKey ==
  \A k \in Key : row[k].ttl > 0 =>
    row[k].owner \in Delivery /\ ReservationKey(row[k].owner) = k

\* Past the window check, a worker that still holds its lease has no recently
\* delivered twin: nobody else can have completed one meanwhile.
CheckedHasNoTwin ==
  \A w \in Worker :
    pc[w] \in CheckedLabels /\ Holds(w) =>
      \A e \in Delivery \ {job[w]} :
        DedupeOf[e] = DedupeOf[job[w]] => recent[e] = 0

CallLabels == {"sending", "delivered", "failed", "ambiguous"}

\* A call that runs, or whose result is being written, consumed an attempt of
\* the delivery as it now stands: a requeue resets the count only after the
\* lease is gone. The retry schedule is undefined at attempt zero.
AttemptConsumed ==
  \A w \in Worker : pc[w] \in CallLabels /\ Holds(w) => attempts[job[w]] >= 1

IInv ==
  /\ TypeOK
  /\ AttemptConsumed
  /\ LiveRowOnItsKey
  /\ LiveOwnerIsPending
  /\ CheckedHasNoTwin
  /\ NoDuplicateWithinWindow

\* Every row a transaction names lies in the reservation table: the key a
\* delivery hashes to is a key.
LEMMA KeyOfDelivery ==
  ASSUME NEW d \in Delivery
  PROVE  ReservationKey(d) \in Key
BY ConstantsAssumption DEF ReservationKey

\* Counting down never goes below zero, and only reaches a positive number
\* from a positive number.
LEMMA LessFacts ==
  ASSUME NEW n \in Nat
  PROVE  Less(n) \in Nat /\ Less(n) <= n
BY DEF Less

\* The clock shortens every lease and leaves owner and token.
LEMMA TickRows ==
  ASSUME row \in [Key -> Rows], Tick
  PROVE  /\ row' \in [Key -> Rows]
         /\ \A k \in Key : /\ row'[k].owner = row[k].owner /\ row'[k].token = row[k].token
                          /\ row'[k].ttl = Less(row[k].ttl) /\ row[k].ttl \in Nat
<1>1. \A r \in Rows : /\ r.ttl \in Nat /\ [r EXCEPT !.ttl = Less(@)] \in Rows
                     /\ [r EXCEPT !.ttl = Less(@)].owner = r.owner
                     /\ [r EXCEPT !.ttl = Less(@)].token = r.token
                     /\ [r EXCEPT !.ttl = Less(@)].ttl = Less(r.ttl)
  BY LessFacts DEF Rows
<1>2. row' = [k \in Key |-> [row[k] EXCEPT !.ttl = Less(@)]]
  BY DEF Tick
<1> QED BY <1>1, <1>2

\* A renewal makes one lease whole and leaves owner and token.
LEMMA RenewedRows ==
  ASSUME row \in [Key -> Rows], NEW q \in Key,
         row' = [row EXCEPT ![q].ttl = Lease]
  PROVE  /\ row' \in [Key -> Rows]
         /\ \A k \in Key : /\ row'[k].owner = row[k].owner /\ row'[k].token = row[k].token
                          /\ row'[k].ttl = IF k = q THEN Lease ELSE row[k].ttl
<1>1. \A r \in Rows : /\ [r EXCEPT !.ttl = Lease] \in Rows
                     /\ [r EXCEPT !.ttl = Lease].owner = r.owner
                     /\ [r EXCEPT !.ttl = Lease].token = r.token
                     /\ [r EXCEPT !.ttl = Lease].ttl = Lease
  BY ConstantsAssumption DEF Rows
<1>2. row' = [row EXCEPT ![q] = [row[q] EXCEPT !.ttl = Lease]]
  OBVIOUS
<1> QED BY <1>1, <1>2

\* The empty tables satisfy the invariant: nothing is reserved or delivered.
LEMMA InitIInv == Init => IInv
<1> SUFFICES ASSUME Init PROVE IInv
  OBVIOUS
<1> USE ConstantsAssumption DEF Init
<1>1. TypeOK
  BY DEF TypeOK, RowStates, Labels, Rows, NoRow
<1>2. LiveRowOnItsKey /\ LiveOwnerIsPending
  BY DEF LiveRowOnItsKey, LiveOwnerIsPending, NoRow
<1>3. CheckedHasNoTwin
  BY DEF CheckedHasNoTwin, CheckedLabels
<1>4. NoDuplicateWithinWindow
  BY DEF NoDuplicateWithinWindow
<1>5. AttemptConsumed
  BY DEF AttemptConsumed, CallLabels
<1> QED BY <1>1, <1>2, <1>3, <1>4, <1>5 DEF IInv

-----------------------------------------------------------------------------
(* Type correctness *)

\* The verdict of an evaluation only moves a worker between labels.
LEMMA VerdictType ==
  ASSUME TypeOK, NEW w \in Worker, pc[w] # "idle",
         NEW a \in Labels \ {"idle"}, NEW b \in Labels \ {"idle"},
         NEW c \in Labels \ {"idle"}, Verdict(w, a, b, c)
  PROVE  /\ pc' \in [Worker -> Labels]
         /\ job' = job /\ held' = held /\ renew' = renew
         /\ until' \in [Worker -> Nat]
         /\ disturbances' \in 0 .. MaxDisturbances
         /\ \A v \in Worker : pc'[v] # "idle" => pc[v] # "idle"
<1> USE ConstantsAssumption DEF TypeOK
<1>1. CASE job[w] \in reach /\ Goto(w, a) /\ UNCHANGED disturbances
  BY <1>1 DEF Goto
<1>2. CASE job[w] \notin reach /\ Goto(w, b) /\ UNCHANGED disturbances
  BY <1>2 DEF Goto
<1>3. CASE Disturb /\ GotoWith(w, c, Backoff)
  BY <1>3 DEF GotoWith, Disturb
<1> QED BY <1>1, <1>2, <1>3 DEF Verdict

\* A returning worker is idle, whatever it was doing.
LEMMA ReturnType ==
  ASSUME TypeOK, NEW w \in Worker, Return(w)
  PROVE  /\ pc' \in [Worker -> Labels]
         /\ job' \in [Worker -> Delivery \cup {NoDelivery}]
         /\ held' \in [Worker -> Token \cup {NoToken}]
         /\ until' \in [Worker -> Nat] /\ renew' \in [Worker -> 0 .. Renewal]
         /\ \A v \in Worker : pc'[v] # "idle" => job'[v] \in Delivery
BY ConstantsAssumption DEF TypeOK, Return, Labels

\* The absent row has the type of a row.
LEMMA NoRowType == NoRow \in Rows
BY DEF NoRow, Rows

\* Each step keeps every variable in its type and the attempt limit.
LEMMA NextType == TypeOK /\ AttemptConsumed /\ [Next]_vars => TypeOK'
<1> SUFFICES ASSUME TypeOK, AttemptConsumed, [Next]_vars PROVE TypeOK'
  OBVIOUS
<1> USE ConstantsAssumption
<1>1. ASSUME NEW w \in Worker, Step(w) PROVE TypeOK'
  <2>1. ASSUME NEW d \in Delivery, Claim(w, d) PROVE TypeOK'
    BY <2>1 DEF TypeOK, Claim, tableVars, Labels, UnreservedLabels
  <2>2. CASE Evaluate(w)
    <3>1. pc[w] # "idle" /\ Verdict(w, "eligible", "suppress", "defer")
      BY <2>2 DEF Evaluate
    <3>2. {"eligible", "suppress", "defer"} \subseteq Labels \ {"idle"}
      BY DEF Labels, UnreservedLabels
    <3> QED BY <2>2, <3>1, <3>2, VerdictType DEF TypeOK, Evaluate, tableVars
  <2>3. CASE UpdateUnreserved(w)
    <3>1. pc[w] # "idle" /\ Return(w)
      BY <2>3 DEF UpdateUnreserved
    <3>2. state' \in [Delivery -> RowStates] /\ wait' \in [Delivery -> Nat]
      BY <2>3 DEF UpdateUnreserved, TypeOK, RowStates
    <3> QED BY <2>3, <3>1, <3>2, ReturnType DEF TypeOK, UpdateUnreserved
  <2>4. CASE AcquireNotPending(w)
    BY <2>4, ReturnType DEF TypeOK, AcquireNotPending, tableVars
  <2>5. CASE AcquireCollision(w)
    BY <2>5 DEF TypeOK, AcquireCollision, Goto, tableVars, Labels, UnreservedLabels
  <2>6. CASE AcquireDeferred(w)
    <3>1. ReservationKey(job[w]) \in Key
      BY <2>6, KeyOfDelivery DEF TypeOK, AcquireDeferred
    <3>2. row[ReservationKey(job[w])].ttl \in Nat
      BY <3>1 DEF TypeOK, Rows
    <3> QED BY <2>6, <3>2 DEF TypeOK, AcquireDeferred, GotoWith, tableVars,
                              Labels, UnreservedLabels
  <2>7. CASE Acquire(w)
    <3>1. job[w] \in Delivery
      BY <2>7 DEF TypeOK, Acquire
    <3>2. PICK t \in Token :
            /\ row' = [row EXCEPT ![ReservationKey(job[w])] =
                         [owner |-> job[w], token |-> t, ttl |-> Lease]]
            /\ held' = [held EXCEPT ![w] = t]
      BY <2>7 DEF Acquire
    <3>3. [owner |-> job[w], token |-> t, ttl |-> Lease] \in Rows
      BY <3>1 DEF Rows
    <3>4. row' \in [Key -> Rows]
      BY <3>2, <3>3 DEF TypeOK
    <3> QED BY <2>7, <3>2, <3>4 DEF TypeOK, Acquire, Labels, ReservedLabels
  <2>8. CASE AcquireContention(w)
    <3>1. "defer" \in Labels \ {"idle"} /\ pc[w] # "idle" /\ Backoff \in Nat
      BY <2>8 DEF AcquireContention, Labels, UnreservedLabels
    <3>2. /\ UNCHANGED <<tableVars, reach, job, held, renew>>
          /\ pc' = [pc EXCEPT ![w] = "defer"] /\ until' = [until EXCEPT ![w] = Backoff]
      BY <2>8 DEF AcquireContention, GotoWith
    <3>3. disturbances' \in 0 .. MaxDisturbances
      BY <2>8 DEF AcquireContention, Disturb, TypeOK
    <3> QED BY <3>1, <3>2, <3>3 DEF TypeOK, tableVars
  <2>9. CASE CheckRecent(w)
    BY <2>9 DEF TypeOK, CheckRecent, Goto, tableVars, Labels, CheckedLabels,
                ReleasingLabels
  <2>10. CASE Preflight(w)
    <3>1. pc[w] # "idle" /\ Verdict(w, "authorize", "fencedSuppress", "fencedDefer")
      BY <2>10 DEF Preflight
    <3>2. {"authorize", "fencedSuppress", "fencedDefer"} \subseteq Labels \ {"idle"}
      BY DEF Labels, CheckedLabels, ReleasingLabels
    <3> QED BY <2>10, <3>1, <3>2, VerdictType DEF TypeOK, Preflight, tableVars
  <2>11. CASE AuthorizeRefused(w)
    BY <2>11, ReturnType DEF TypeOK, AuthorizeRefused, tableVars
  <2>12. CASE AuthorizeExhausted(w)
    <3>1. Return(w) /\ pc[w] # "idle"
      BY <2>12 DEF AuthorizeExhausted
    <3>2. state' \in [Delivery -> RowStates] /\ row' \in [Key -> Rows]
      BY <2>12, NoRowType DEF AuthorizeExhausted, TypeOK, RowStates
    <3> QED BY <2>12, <3>1, <3>2, ReturnType DEF TypeOK, AuthorizeExhausted
  <2>13. CASE Authorize(w)
    <3>1. attempts' \in [Delivery -> 0 .. Limit]
      BY <2>13 DEF Authorize, AttemptsLeft, TypeOK
    <3>2. "sending" \in Labels /\ pc[w] # "idle"
      BY <2>13 DEF Authorize, Labels, CheckedLabels
    <3>3. /\ pc' = [pc EXCEPT ![w] = "sending"] /\ until' = [until EXCEPT ![w] = Deadline]
          /\ renew' = [renew EXCEPT ![w] = Renewal]
          /\ UNCHANGED <<state, wait, recent, row, reach, job, held, disturbances>>
      BY <2>13 DEF Authorize
    <3>4. /\ pc' \in [Worker -> Labels] /\ until' \in [Worker -> Nat]
          /\ renew' \in [Worker -> 0 .. Renewal]
      BY <3>2, <3>3 DEF TypeOK
    <3>5. \A v \in Worker : pc'[v] # "idle" => job'[v] \in Delivery
      BY <3>2, <3>3 DEF TypeOK
    <3> QED BY <3>1, <3>3, <3>4, <3>5 DEF TypeOK
  <2>14. CASE ProviderAnswers(w)
    BY <2>14 DEF TypeOK, ProviderAnswers, Goto, tableVars, Labels, CheckedLabels,
                 ReleasingLabels
  <2>15. CASE DeadlineExceeded(w)
    BY <2>15 DEF TypeOK, DeadlineExceeded, Goto, tableVars, Labels, ReleasingLabels
  <2>16. CASE Renew(w)
    <3>1. CASE Holds(w)
      <4>1. row' = [row EXCEPT ![ReservationKey(job[w])].ttl = Lease]
        BY <2>16, <3>1 DEF Renew
      <4>2. row' \in [Key -> Rows]
        <5>1. ReservationKey(job[w]) \in Key
          BY <2>16, KeyOfDelivery DEF Renew, TypeOK
        <5> QED BY <4>1, <5>1, RenewedRows DEF TypeOK
      <4>3. renew' \in [Worker -> 0 .. Renewal]
        <5>1. Renewal \in 0 .. Renewal /\ renew' = [renew EXCEPT ![w] = Renewal]
          BY <2>16, <3>1 DEF Renew
        <5> QED BY <5>1 DEF TypeOK
      <4> QED BY <2>16, <3>1, <4>2, <4>3 DEF TypeOK, Renew
    <3>2. CASE ~Holds(w)
      BY <2>16, <3>2 DEF TypeOK, Renew, Goto, Labels, ReleasingLabels
    <3> QED BY <3>1, <3>2
  <2>17. CASE Complete(w)
    <3>1. Return(w) /\ job[w] \in Delivery
      BY <2>17 DEF Complete, TypeOK, ReleasingLabels
    <3>2. ReservationKey(job[w]) \in Key
      BY <3>1, KeyOfDelivery
    <3>3. row[ReservationKey(job[w])].ttl \in Nat
      BY <3>2 DEF TypeOK, Rows
    <3>4. attempts[job[w]] # Limit => attempts[job[w]] \in 0 .. Limit - 1
      BY <3>1 DEF TypeOK
    <3>5. /\ state' \in [Delivery -> RowStates] /\ wait' \in [Delivery -> Nat]
          /\ recent' \in [Delivery -> 0 .. Window] /\ row' \in [Key -> Rows]
      <4>1. CASE CompleteDelivered(job[w])
        <5>1. row' \in [Key -> Rows]
          BY <4>1, NoRowType DEF CompleteDelivered, Release, TypeOK
        <5>2. state' \in [Delivery -> RowStates]
          BY <4>1 DEF CompleteDelivered, TypeOK, RowStates
        <5>3. recent' \in [Delivery -> 0 .. Window]
          <6>1. Window \in 0 .. Window
            OBVIOUS
          <6>2. recent' = [recent EXCEPT ![job[w]] = Window]
            BY <4>1 DEF CompleteDelivered
          <6> QED BY <6>1, <6>2 DEF TypeOK
        <5> QED BY <4>1, <5>1, <5>2, <5>3 DEF CompleteDelivered, TypeOK
      <4>2. CASE CompleteSuppressed(job[w])
        BY <4>2, NoRowType DEF CompleteSuppressed, Release, TypeOK, RowStates
      <4>3. CASE pc[w] = "failed" /\ Holds(w) /\ CompleteFailed(job[w])
        <5>1. row' \in [Key -> Rows]
          BY <4>3, NoRowType DEF CompleteFailed, Release, TypeOK
        <5>2. state' \in [Delivery -> RowStates]
          BY <4>3 DEF CompleteFailed, TypeOK, RowStates
        <5>3. wait' \in [Delivery -> Nat]
          <6>1. attempts[job[w]] # Limit => attempts[job[w]] \in 1 .. Limit - 1
            BY <3>4, <4>3 DEF AttemptConsumed, CallLabels
          <6>2. attempts[job[w]] # Limit => RetryDelay[attempts[job[w]]] \in Nat
            BY <6>1
          <6>3. \/ wait' = wait
                \/ /\ attempts[job[w]] # Limit
                   /\ wait' = [wait EXCEPT ![job[w]] = RetryDelay[attempts[job[w]]]]
            BY <4>3 DEF CompleteFailed
          <6> QED BY <6>2, <6>3 DEF TypeOK
        <5> QED BY <4>3, <5>1, <5>2, <5>3 DEF CompleteFailed, TypeOK
      <4>4. CASE CompleteAmbiguous(job[w])
        BY <3>3, <4>4 DEF CompleteAmbiguous, TypeOK
      <4>5. CASE DeferFenced(w)
        BY <4>5, NoRowType DEF DeferFenced, Release, TypeOK
      <4>6. CASE UNCHANGED <<state, wait, recent, row>>
        BY <4>6 DEF TypeOK
      <4> QED BY <2>17, <4>1, <4>2, <4>3, <4>4, <4>5, <4>6 DEF Complete
    <3> QED BY <2>17, <3>1, <3>5, ReturnType DEF TypeOK, Complete
  <2> QED BY <1>1, <2>1, <2>2, <2>3, <2>4, <2>5, <2>6, <2>7, <2>8, <2>9, <2>10,
             <2>11, <2>12, <2>13, <2>14, <2>15, <2>16, <2>17 DEF Step
<1>2. ASSUME NEW w \in Worker, Crash(w) PROVE TypeOK'
  <2>1. Return(w) /\ UNCHANGED <<tableVars, reach>>
    BY <1>2 DEF Crash
  <2>2. disturbances' \in 0 .. MaxDisturbances
    BY <1>2 DEF Crash, Disturb, TypeOK
  <2> QED BY <2>1, <2>2, ReturnType DEF TypeOK, tableVars
<1>3. ASSUME NEW d \in Delivery, Requeue(d) PROVE TypeOK'
  BY <1>3 DEF TypeOK, Requeue, Disturb, workerVars, RowStates
<1>4. ASSUME NEW d \in Delivery, LoseReach(d) PROVE TypeOK'
  BY <1>4 DEF TypeOK, LoseReach, workerVars, tableVars
<1>5. CASE PurgeExpired
  BY <1>5, NoRowType DEF TypeOK, PurgeExpired, workerVars
<1>6. CASE Tick
  <2>1. row' \in [Key -> Rows]
    BY <1>6, TickRows DEF TypeOK
  <2>2. \A m \in Nat : \A n \in 0 .. m : Less(n) \in 0 .. m
    BY DEF Less
  <2>3. wait' \in [Delivery -> Nat] /\ until' \in [Worker -> Nat]
    BY <1>6, LessFacts DEF Tick, TypeOK
  <2>4. recent' \in [Delivery -> 0 .. Window] /\ renew' \in [Worker -> 0 .. Renewal]
    <3>1. Window \in Nat /\ Renewal \in Nat
      OBVIOUS
    <3> QED BY <1>6, <2>2, <3>1 DEF Tick, TypeOK
  <2> QED BY <1>6, <2>1, <2>3, <2>4 DEF TypeOK, Tick
<1>7. CASE UNCHANGED vars
  BY <1>7 DEF TypeOK, vars
<1> QED BY <1>1, <1>2, <1>3, <1>4, <1>5, <1>6, <1>7 DEF Next

-----------------------------------------------------------------------------
(* Which steps write the tables *)

TableWriter(w) ==
  \/ UpdateUnreserved(w) \/ Acquire(w) \/ AuthorizeExhausted(w)
  \/ Renew(w) \/ Complete(w)

\* Every other step of a worker leaves row states, delivery times and
\* reservations alone.
LEMMA OtherStepsWriteNothing ==
  ASSUME NEW w \in Worker, Step(w), ~TableWriter(w)
  PROVE  UNCHANGED <<state, recent, row>>
<1>1. ASSUME NEW d \in Delivery, Claim(w, d) PROVE UNCHANGED tableVars
  BY <1>1 DEF Claim
<1>2. CASE Evaluate(w) \/ AcquireNotPending(w) \/ AcquireCollision(w)
             \/ AcquireDeferred(w) \/ AcquireContention(w)
  BY <1>2 DEF Evaluate, AcquireNotPending, AcquireCollision, AcquireDeferred,
              AcquireContention, tableVars
<1>3. CASE CheckRecent(w) \/ Preflight(w) \/ AuthorizeRefused(w)
  BY <1>3 DEF CheckRecent, Preflight, AuthorizeRefused, tableVars
<1>4. CASE Authorize(w)
  BY <1>4 DEF Authorize
<1>5. CASE ProviderAnswers(w) \/ DeadlineExceeded(w)
  BY <1>5 DEF ProviderAnswers, DeadlineExceeded, tableVars
<1> QED BY <1>1, <1>2, <1>3, <1>4, <1>5 DEF Step, TableWriter, tableVars

-----------------------------------------------------------------------------
(* Live reservations protect pending deliveries *)

Fence == LiveRowOnItsKey /\ LiveOwnerIsPending

\* Ending one delivery together with the reservation of its key keeps every
\* other live reservation as it was.
LEMMA ReleaseKeepsFence ==
  ASSUME TypeOK, Fence, NEW d \in Delivery, Release(d),
         \A e \in Delivery : e # d => state'[e] = state[e]
  PROVE  Fence'
BY KeyOfDelivery, ConstantsAssumption
   DEF TypeOK, Fence, Release, LiveRowOnItsKey, LiveOwnerIsPending, NoRow, ReservationKey

\* Every step keeps live reservations on their key and their owner pending.
LEMMA NextFence == TypeOK /\ Fence /\ [Next]_vars => Fence'
<1> SUFFICES ASSUME TypeOK, Fence, [Next]_vars PROVE Fence'
  OBVIOUS
<1> USE ConstantsAssumption
<1>1. CASE UNCHANGED <<state, row>>
  BY <1>1 DEF Fence, LiveRowOnItsKey, LiveOwnerIsPending, ReservationKey
<1>2. ASSUME NEW w \in Worker, Step(w) PROVE Fence'
  <2>1. CASE UpdateUnreserved(w)
    <3> DEFINE d == job[w]
    <3>1. d \in Delivery /\ row' = row
      BY <2>1 DEF UpdateUnreserved, TypeOK
    <3>2. CASE state' = state
      BY <1>1, <3>1, <3>2
    <3>3. CASE ~Fenced(d) /\ state' = [state EXCEPT ![d] = "suppressed"]
      <4>1. \A k \in Key : row[k].ttl > 0 => row[k].owner # d
        BY <3>1, <3>3 DEF Fenced, Expired, Fence, LiveRowOnItsKey, TypeOK, Rows
      <4> QED BY <3>1, <3>3, <4>1
              DEF Fence, LiveRowOnItsKey, LiveOwnerIsPending, ReservationKey, TypeOK
    <3> QED BY <2>1, <3>2, <3>3 DEF UpdateUnreserved
  <2>2. CASE Acquire(w)
    <3>1. PICK t \in Token :
            row' = [row EXCEPT ![ReservationKey(job[w])] =
                     [owner |-> job[w], token |-> t, ttl |-> Lease]]
      BY <2>2 DEF Acquire
    <3>2. job[w] \in Delivery /\ state[job[w]] = "pending" /\ state' = state
      BY <2>2 DEF Acquire, TypeOK
    <3> QED BY <3>1, <3>2, KeyOfDelivery
            DEF Fence, LiveRowOnItsKey, LiveOwnerIsPending, ReservationKey, TypeOK
  <2>3. CASE AuthorizeExhausted(w)
    <3>1. /\ job[w] \in Delivery /\ Release(job[w])
          /\ \A e \in Delivery : e # job[w] => state'[e] = state[e]
      BY <2>3 DEF AuthorizeExhausted, Release, TypeOK
    <3> QED BY <3>1, ReleaseKeepsFence
  <2>4. CASE Renew(w)
    <3>1. CASE Holds(w)
      <4>1. state' = state /\ row' = [row EXCEPT ![ReservationKey(job[w])].ttl = Lease]
        BY <2>4, <3>1 DEF Renew
      <4>2. /\ \A k \in Key : row'[k].owner = row[k].owner
            /\ \A k \in Key : row'[k].ttl > 0 => row[k].ttl > 0
        BY <3>1, <4>1 DEF Holds, TypeOK, Rows
      <4> QED BY <4>1, <4>2
              DEF Fence, LiveRowOnItsKey, LiveOwnerIsPending, ReservationKey
    <3>2. CASE ~Holds(w)
      BY <1>1, <2>4, <3>2 DEF Renew
    <3> QED BY <3>1, <3>2
  <2>5. CASE Complete(w)
    <3>1. job[w] \in Delivery
      BY <2>5 DEF Complete, TypeOK, ReleasingLabels
    <3>2. CASE UNCHANGED <<state, row>>
      BY <1>1, <3>2
    <3>3. CASE Release(job[w]) /\ \A e \in Delivery : e # job[w] => state'[e] = state[e]
      BY <3>1, <3>3, ReleaseKeepsFence
    <3>4. UNCHANGED <<state, row>> \/
            (Release(job[w]) /\ \A e \in Delivery : e # job[w] => state'[e] = state[e])
      BY <2>5 DEF Complete, CompleteDelivered, CompleteSuppressed, CompleteFailed,
                  CompleteAmbiguous, DeferFenced, TypeOK
    <3> QED BY <3>2, <3>3, <3>4
  <2> QED BY <1>1, <1>2, <2>1, <2>2, <2>3, <2>4, <2>5, OtherStepsWriteNothing
          DEF TableWriter
<1>3. ASSUME NEW w \in Worker, Crash(w) PROVE Fence'
  BY <1>1, <1>3 DEF Crash, tableVars
<1>4. ASSUME NEW d \in Delivery, Requeue(d) PROVE Fence'
  BY <1>4 DEF Requeue, Fence, LiveRowOnItsKey, LiveOwnerIsPending, ReservationKey, TypeOK
<1>5. ASSUME NEW d \in Delivery, LoseReach(d) PROVE Fence'
  BY <1>1, <1>5 DEF LoseReach, tableVars
<1>6. CASE PurgeExpired
  <2>1. state' = state /\ \A k \in Key : row'[k].ttl > 0 => row'[k] = row[k]
    BY <1>6 DEF PurgeExpired, NoRow
  <2> QED BY <2>1 DEF Fence, LiveRowOnItsKey, LiveOwnerIsPending, ReservationKey
<1>7. CASE Tick
  <2>1. /\ state' = state
        /\ \A k \in Key : row'[k].owner = row[k].owner
        /\ \A k \in Key : row'[k].ttl > 0 => row[k].ttl > 0
    BY <1>7, LessFacts DEF Tick, TypeOK, Rows, Less
  <2> QED BY <2>1 DEF Fence, LiveRowOnItsKey, LiveOwnerIsPending, ReservationKey
<1>8. CASE UNCHANGED vars
  BY <1>1, <1>8 DEF vars
<1> QED BY <1>2, <1>3, <1>4, <1>5, <1>6, <1>7, <1>8 DEF Next

-----------------------------------------------------------------------------
(* Holding a lease: it is never regained once lost, and never by accident *)

\* A step of one worker leaves the position, the row and the token of the
\* others alone.
LEMMA OnlyMovesItself ==
  ASSUME TypeOK, NEW w \in Worker, Step(w) \/ Crash(w),
         NEW v \in Worker, v # w
  PROVE  pc'[v] = pc[v] /\ job'[v] = job[v] /\ held'[v] = held[v] /\ renew'[v] = renew[v]
<1> USE DEF TypeOK
<1>1. ASSUME NEW d \in Delivery, Claim(w, d)
      PROVE  pc'[v] = pc[v] /\ job'[v] = job[v] /\ held'[v] = held[v] /\ renew'[v] = renew[v]
  BY <1>1 DEF Claim
<1>2. ASSUME NEW l, Goto(w, l)
      PROVE  pc'[v] = pc[v] /\ job'[v] = job[v] /\ held'[v] = held[v] /\ renew'[v] = renew[v]
  BY <1>2 DEF Goto
<1>3. ASSUME NEW l, NEW n, GotoWith(w, l, n)
      PROVE  pc'[v] = pc[v] /\ job'[v] = job[v] /\ held'[v] = held[v] /\ renew'[v] = renew[v]
  BY <1>3 DEF GotoWith
<1>4. CASE Return(w)
  BY <1>4 DEF Return
<1>5. CASE Acquire(w)
  BY <1>5 DEF Acquire
<1>6. CASE Authorize(w)
  BY <1>6 DEF Authorize
<1>7. CASE Renew(w)
  BY <1>7, <1>2 DEF Renew
<1>8. CASE Evaluate(w) \/ Preflight(w)
  BY <1>8, <1>2, <1>3 DEF Evaluate, Preflight, Verdict
<1> QED BY <1>1, <1>2, <1>3, <1>4, <1>5, <1>6, <1>7, <1>8
        DEF Step, Crash, UpdateUnreserved, AcquireNotPending, AcquireCollision,
            AcquireDeferred, AcquireContention, CheckRecent, AuthorizeRefused,
            AuthorizeExhausted, ProviderAnswers, DeadlineExceeded, Complete

PastCheck == CheckedLabels \cup CallLabels

\* Where a worker past the window check, or in or after its call, comes from.
LEMMA OwnMoves ==
  ASSUME TypeOK, NEW w \in Worker, Step(w) \/ Crash(w), pc'[w] \in PastCheck
  PROVE  /\ job'[w] = job[w] /\ held'[w] = held[w]
         /\ \/ CheckRecent(w) /\ ~RecentTwin(job[w]) /\ pc'[w] = "checked"
            \/ Authorize(w)
            \/ /\ pc'[w] \in CheckedLabels => pc[w] \in CheckedLabels
               /\ pc'[w] \in CallLabels => pc[w] \in CallLabels
<1> USE DEF TypeOK, PastCheck, CheckedLabels, CallLabels
<1>1. ASSUME NEW d \in Delivery PROVE ~Claim(w, d)
  BY DEF Claim
<1>2. ~Evaluate(w)
  BY DEF Evaluate, Verdict, Goto, GotoWith
<1>3. ~Return(w)
  BY DEF Return
<1>4. ~AcquireCollision(w) /\ ~AcquireDeferred(w) /\ ~AcquireContention(w)
  BY DEF AcquireCollision, AcquireDeferred, AcquireContention, Goto, GotoWith
<1>5. ~Acquire(w)
  BY DEF Acquire
<1>6. CASE CheckRecent(w)
  BY <1>6 DEF CheckRecent, Goto
<1>7. CASE Preflight(w)
  BY <1>7 DEF Preflight, Verdict, Goto, GotoWith
<1>8. CASE Authorize(w)
  BY <1>8 DEF Authorize
<1>9. CASE ProviderAnswers(w) \/ DeadlineExceeded(w)
  BY <1>9 DEF ProviderAnswers, DeadlineExceeded, Goto
<1>10. CASE Renew(w)
  BY <1>10 DEF Renew, Goto
<1> QED BY <1>1, <1>2, <1>3, <1>4, <1>5, <1>6, <1>7, <1>8, <1>9, <1>10
        DEF Step, Crash, UpdateUnreserved, AcquireNotPending, AuthorizeRefused,
            AuthorizeExhausted, Complete

\* No step hands a worker a lease it did not hold: tokens are fresh, and a row
\* that changes otherwise loses its lease or keeps its owner and token.
LEMMA NoLeaseRegained ==
  ASSUME TypeOK, [Next]_vars, NEW v \in Worker,
         job'[v] = job[v], held'[v] = held[v], job[v] \in Delivery, Holds(v)'
  PROVE  Holds(v)
<1> DEFINE k == ReservationKey(job[v])
<1> USE ConstantsAssumption
<1>1. k \in Key
  BY KeyOfDelivery
<1>2. row'[k].owner = job[v] /\ row'[k].token = held[v] /\ row'[k].ttl > 0
  BY DEF Holds, ReservationKey
<1>3. CASE row' = row
  BY <1>2, <1>3 DEF Holds
<1>4. ASSUME NEW w \in Worker, Step(w) PROVE Holds(v)
  <2>1. CASE UpdateUnreserved(w)
    BY <1>3, <2>1 DEF UpdateUnreserved
  <2>2. CASE Acquire(w)
    <3>1. PICK t \in Token :
            /\ Fresh(t)
            /\ row' = [row EXCEPT ![ReservationKey(job[w])] =
                         [owner |-> job[w], token |-> t, ttl |-> Lease]]
      BY <2>2 DEF Acquire
    <3>2. held[v] # t
      BY <3>1 DEF Fresh
    <3>3. k # ReservationKey(job[w])
      BY <1>1, <1>2, <3>1, <3>2 DEF TypeOK
    <3> QED BY <1>1, <1>2, <3>1, <3>3 DEF Holds, TypeOK
  <2>3. CASE AuthorizeExhausted(w)
    BY <1>1, <1>2, <2>3 DEF AuthorizeExhausted, Holds, NoRow, TypeOK
  <2>4. CASE Renew(w)
    <3>1. CASE Holds(w)
      <4>1. row' = [row EXCEPT ![ReservationKey(job[w])].ttl = Lease]
        BY <2>4, <3>1 DEF Renew
      <4>2. row'[k].owner = row[k].owner /\ row'[k].token = row[k].token
            /\ (row'[k].ttl > 0 => row[k].ttl > 0)
        <5>1. row[ReservationKey(job[w])].ttl > 0 /\ ReservationKey(job[w]) \in Key
          BY <2>4, <3>1, KeyOfDelivery DEF Holds, Renew, TypeOK
        <5> QED BY <1>1, <4>1, <5>1, RenewedRows DEF TypeOK
      <4> QED BY <1>2, <4>2 DEF Holds
    <3>2. CASE ~Holds(w)
      BY <1>3, <2>4, <3>2 DEF Renew
    <3> QED BY <3>1, <3>2
  <2>5. CASE Complete(w)
    <3>1. CASE Release(job[w])
      BY <1>1, <1>2, <3>1 DEF Release, Holds, NoRow, TypeOK
    <3> QED BY <1>3, <2>5, <3>1
            DEF Complete, CompleteDelivered, CompleteSuppressed, CompleteFailed,
                CompleteAmbiguous, DeferFenced
  <2> QED BY <1>3, <1>4, <2>1, <2>2, <2>3, <2>4, <2>5, OtherStepsWriteNothing
          DEF TableWriter
<1>5. ASSUME NEW w \in Worker, Crash(w) PROVE Holds(v)
  BY <1>3, <1>5 DEF Crash, tableVars
<1>6. ASSUME NEW d \in Delivery, Requeue(d) \/ LoseReach(d) PROVE Holds(v)
  BY <1>3, <1>6 DEF Requeue, LoseReach, tableVars
<1>7. CASE PurgeExpired
  BY <1>1, <1>2, <1>7 DEF PurgeExpired, Holds, NoRow
<1>8. CASE Tick
  <2>1. /\ row'[k].owner = row[k].owner /\ row'[k].token = row[k].token
        /\ row'[k].ttl = Less(row[k].ttl) /\ row[k].ttl \in Nat
    BY <1>1, <1>8, TickRows DEF TypeOK
  <2> QED BY <1>2, <2>1 DEF Holds, Less
<1>9. CASE UNCHANGED vars
  BY <1>3, <1>9 DEF vars
<1> QED BY <1>4, <1>5, <1>6, <1>7, <1>8, <1>9 DEF Next

\* A worker that holds its lease past the check held it before the step, and
\* came there by the check, by an authorisation, or from the same part of the
\* drain.
LEMMA HolderStep ==
  ASSUME TypeOK, [Next]_vars, NEW v \in Worker, pc'[v] \in PastCheck, Holds(v)'
  PROVE  /\ job[v] \in Delivery /\ job'[v] = job[v] /\ Holds(v)
         /\ \/ CheckRecent(v) /\ ~RecentTwin(job[v]) /\ pc'[v] = "checked"
            \/ Authorize(v)
            \/ /\ pc'[v] \in CheckedLabels => pc[v] \in CheckedLabels
               /\ pc'[v] \in CallLabels => pc[v] \in CallLabels
<1> DEFINE Origin ==
      \/ CheckRecent(v) /\ ~RecentTwin(job[v]) /\ pc'[v] = "checked"
      \/ Authorize(v)
      \/ /\ pc'[v] \in CheckedLabels => pc[v] \in CheckedLabels
         /\ pc'[v] \in CallLabels => pc[v] \in CallLabels
<1>1. job'[v] = job[v] /\ held'[v] = held[v] /\ Origin
  <2>1. ASSUME NEW w \in Worker, Step(w) \/ Crash(w)
        PROVE  job'[v] = job[v] /\ held'[v] = held[v] /\ Origin
    <3>1. CASE v = w
      BY <2>1, <3>1, OwnMoves
    <3>2. CASE v # w
      BY <2>1, <3>2, OnlyMovesItself
    <3> QED BY <3>1, <3>2
  <2>2. ASSUME NEW d \in Delivery, Requeue(d) \/ LoseReach(d)
        PROVE  job'[v] = job[v] /\ held'[v] = held[v] /\ Origin
    BY <2>2 DEF Requeue, LoseReach, workerVars
  <2>3. CASE PurgeExpired \/ Tick \/ UNCHANGED vars
    BY <2>3 DEF PurgeExpired, Tick, workerVars, vars
  <2> QED BY <2>1, <2>2, <2>3 DEF Next
<1>2. pc[v] # "idle"
  BY <1>1 DEF CheckRecent, Authorize, PastCheck, CheckedLabels, CallLabels
<1>3. job[v] \in Delivery
  BY <1>2 DEF TypeOK
<1> QED BY <1>1, <1>3, NoLeaseRegained

\* Deliveries become recent one at a time, by a worker that was past the check,
\* held its lease, and gives the reservation up in the same transaction.
LEMMA RecentGrows ==
  ASSUME TypeOK, [Next]_vars, NEW e \in Delivery, recent[e] = 0, recent'[e] # 0
  PROVE  /\ \E w \in Worker : pc[w] = "delivered" /\ job[w] = e /\ Holds(w)
         /\ Release(e)
         /\ \A d \in Delivery \ {e} : recent'[d] = recent[d]
<1>1. recent' # recent
  OBVIOUS
<1>2. ASSUME NEW w \in Worker, Step(w)
      PROVE  pc[w] = "delivered" /\ Holds(w) /\ CompleteDelivered(job[w])
  <2>1. TableWriter(w)
    BY <1>1, <1>2, OtherStepsWriteNothing
  <2>2. Complete(w)
    BY <1>1, <2>1 DEF TableWriter, UpdateUnreserved, Acquire, AuthorizeExhausted, Renew
  <2> QED BY <1>1, <2>2 DEF Complete, CompleteSuppressed, CompleteFailed,
                            CompleteAmbiguous, DeferFenced
<1>3. ASSUME NEW w \in Worker PROVE ~Crash(w)
  BY <1>1 DEF Crash, tableVars
<1>4. ASSUME NEW d \in Delivery PROVE ~Requeue(d) /\ ~LoseReach(d)
  BY <1>1 DEF Requeue, LoseReach, tableVars, TypeOK
<1>5. ~PurgeExpired /\ ~Tick /\ ~UNCHANGED vars
  BY <1>1 DEF PurgeExpired, Tick, vars, Less
<1>6. PICK w \in Worker : Step(w)
  BY <1>3, <1>4, <1>5 DEF Next
<1>7. recent' = [recent EXCEPT ![job[w]] = Window] /\ Release(job[w])
  BY <1>2, <1>6 DEF CompleteDelivered
<1>8. job[w] = e
  BY <1>7 DEF TypeOK
<1> QED BY <1>2, <1>6, <1>7, <1>8 DEF TypeOK

\* Attempts are only reset when no live lease is left on the delivery's key.
LEMMA AttemptsKept ==
  ASSUME TypeOK, [Next]_vars, NEW d \in Delivery, ~Expired(d)
  PROVE  attempts'[d] >= attempts[d]
<1> USE DEF TypeOK
<1>1. CASE attempts' = attempts
  BY <1>1
<1>2. ASSUME NEW w \in Worker, Step(w) PROVE attempts'[d] >= attempts[d]
  <2>1. CASE Authorize(w)
    BY <2>1 DEF Authorize
  <2>2. CASE ~Authorize(w)
    BY <1>1, <1>2, <2>2
       DEF Step, Claim, Evaluate, UpdateUnreserved, AcquireNotPending,
           AcquireCollision, AcquireDeferred, Acquire, AcquireContention,
           CheckRecent, Preflight, AuthorizeRefused, AuthorizeExhausted,
           ProviderAnswers, DeadlineExceeded, Renew, Complete, tableVars
  <2> QED BY <2>1, <2>2
<1>3. ASSUME NEW w \in Worker, Crash(w) PROVE attempts' = attempts
  BY <1>3 DEF Crash, tableVars
<1>4. ASSUME NEW e \in Delivery, Requeue(e) PROVE attempts'[d] >= attempts[d]
  BY <1>4 DEF Requeue
<1>5. ASSUME NEW e \in Delivery, LoseReach(e) PROVE attempts' = attempts
  BY <1>5 DEF LoseReach, tableVars
<1>6. CASE PurgeExpired \/ Tick \/ UNCHANGED vars
  BY <1>1, <1>6 DEF PurgeExpired, Tick, vars
<1> QED BY <1>1, <1>2, <1>3, <1>4, <1>5, <1>6 DEF Next

-----------------------------------------------------------------------------
(* The inductive step *)

\* A call that runs has consumed an attempt, after every step.
LEMMA NextAttemptConsumed == TypeOK /\ AttemptConsumed /\ [Next]_vars => AttemptConsumed'
<1> SUFFICES ASSUME TypeOK, AttemptConsumed, [Next]_vars,
                    NEW v \in Worker, pc'[v] \in CallLabels, Holds(v)'
             PROVE  attempts'[job'[v]] >= 1
  BY DEF AttemptConsumed
<1>1. /\ job[v] \in Delivery /\ job'[v] = job[v] /\ Holds(v)
      /\ Authorize(v) \/ pc[v] \in CallLabels
  BY HolderStep DEF PastCheck, CallLabels
<1>2. CASE Authorize(v)
  BY <1>1, <1>2 DEF Authorize, TypeOK
<1>3. CASE pc[v] \in CallLabels
  <2>1. attempts[job[v]] >= 1 /\ ~Expired(job[v])
    BY <1>1, <1>3 DEF AttemptConsumed, Holds, Expired
  <2>2. attempts'[job[v]] \in Nat
    BY <1>1, NextType DEF TypeOK
  <2> QED BY <1>1, <2>1, <2>2, AttemptsKept DEF TypeOK
<1> QED BY <1>1, <1>2, <1>3

\* A twin that becomes recent takes the reservation of the common key with it.
LEMMA NextCheckedHasNoTwin ==
  TypeOK /\ CheckedHasNoTwin /\ [Next]_vars => CheckedHasNoTwin'
<1> SUFFICES ASSUME TypeOK, CheckedHasNoTwin, [Next]_vars,
                    NEW v \in Worker, pc'[v] \in CheckedLabels, Holds(v)',
                    NEW e \in Delivery, e # job'[v], DedupeOf[e] = DedupeOf[job'[v]]
             PROVE  recent'[e] = 0
  BY DEF CheckedHasNoTwin
<1>1. /\ job[v] \in Delivery /\ job'[v] = job[v] /\ Holds(v)
      /\ \/ CheckRecent(v) /\ ~RecentTwin(job[v])
         \/ Authorize(v)
         \/ pc[v] \in CheckedLabels
  BY HolderStep DEF PastCheck
<1>2. recent[e] = 0
  <2>1. CASE ~RecentTwin(job[v])
    BY <1>1, <2>1 DEF RecentTwin, TypeOK
  <2>2. CASE Authorize(v) \/ pc[v] \in CheckedLabels
    BY <1>1, <2>2 DEF CheckedHasNoTwin, Authorize, CheckedLabels
  <2> QED BY <1>1, <2>1, <2>2
<1>3. ASSUME recent'[e] # 0 PROVE FALSE
  <2>1. Release(e)
    BY <1>2, <1>3, RecentGrows
  <2>2. ReservationKey(e) = ReservationKey(job[v]) /\ ReservationKey(e) \in Key
    BY <1>1, KeyOfDelivery DEF ReservationKey
  <2> QED BY <1>1, <2>1, <2>2 DEF Release, Holds, NoRow, TypeOK, ReservationKey
<1> QED BY <1>3

\* Only a completion enlarges the window, and it found no twin in it.
LEMMA NextNoDuplicate ==
  TypeOK /\ CheckedHasNoTwin /\ NoDuplicateWithinWindow /\ [Next]_vars
    => NoDuplicateWithinWindow'
<1> SUFFICES ASSUME TypeOK, CheckedHasNoTwin, NoDuplicateWithinWindow, [Next]_vars,
                    NEW d \in Delivery, NEW e \in Delivery, d # e,
                    DedupeOf[d] = DedupeOf[e], recent[d] = 0, recent'[d] # 0
             PROVE  recent'[e] = 0
  BY DEF NoDuplicateWithinWindow
<1>1. /\ \E w \in Worker : pc[w] = "delivered" /\ job[w] = d /\ Holds(w)
      /\ recent'[e] = recent[e]
  BY RecentGrows
<1> QED BY <1>1 DEF CheckedHasNoTwin, CheckedLabels

\* The invariant is inductive.
LEMMA NextIInv == IInv /\ [Next]_vars => IInv'
BY NextType, NextFence, NextAttemptConsumed, NextCheckedHasNoTwin, NextNoDuplicate
   DEF IInv, Fence

-----------------------------------------------------------------------------
(* The theorems *)

\* Hence it holds throughout.
THEOREM Invariance == Spec => []IInv
BY InitIInv, NextIInv, PTL DEF Spec

\* Rows and workers stay in their types, and no delivery ever consumes more
\* than NOTIFICATION_ATTEMPT_LIMIT attempts between requeues.
THEOREM TypeCorrect == Spec => []TypeOK
<1>1. IInv => TypeOK
  BY DEF IInv
<1> QED BY <1>1, Invariance, PTL

\* Two deliveries for the same event, resource, recipient and channel are never
\* both recorded as delivered within the window, for any number of workers,
\* any timing of their leases, and any crashes.
THEOREM NoDuplicates == Spec => []NoDuplicateWithinWindow
<1>1. IInv => NoDuplicateWithinWindow
  BY DEF IInv
<1> QED BY <1>1, Invariance, PTL

\* A live reservation always belongs to a pending delivery.
THEOREM FenceProtectsPending == Spec => []LiveOwnerIsPending
<1>1. IInv => LiveOwnerIsPending
  BY DEF IInv
<1> QED BY <1>1, Invariance, PTL

\* Only fenced transactions end a delivery, only a pending one, and only the
\* administrator's requeue of a dead one brings it back.
LEMMA StateChanges ==
  ASSUME TypeOK, [Next]_vars, NEW d \in Delivery, state'[d] # state[d]
  PROVE  \/ state[d] = "pending"
         \/ state[d] = "dead" /\ state'[d] = "pending" /\ attempts'[d] = 0
<1> USE DEF TypeOK
<1>1. state' # state
  OBVIOUS
<1>2. ASSUME NEW w \in Worker, Step(w) PROVE state[d] = "pending"
  <2>1. UpdateUnreserved(w) \/ AuthorizeExhausted(w) \/ Complete(w)
    BY <1>1, <1>2, OtherStepsWriteNothing DEF TableWriter, Acquire, Renew
  <2>2. CASE UpdateUnreserved(w)
    BY <2>2 DEF UpdateUnreserved, Fenced
  <2>3. CASE AuthorizeExhausted(w)
    BY <2>3 DEF AuthorizeExhausted
  <2>4. CASE Complete(w)
    BY <2>4 DEF Complete, CompleteDelivered, CompleteSuppressed, CompleteFailed,
                CompleteAmbiguous, DeferFenced
  <2> QED BY <2>1, <2>2, <2>3, <2>4
<1>3. ASSUME NEW w \in Worker PROVE ~Crash(w)
  BY <1>1 DEF Crash, tableVars
<1>4. ASSUME NEW e \in Delivery, Requeue(e)
      PROVE  state[d] = "dead" /\ state'[d] = "pending" /\ attempts'[d] = 0
  BY <1>4 DEF Requeue
<1>5. ASSUME NEW e \in Delivery PROVE ~LoseReach(e)
  BY <1>1 DEF LoseReach, tableVars
<1>6. ~PurgeExpired /\ ~Tick /\ ~UNCHANGED vars
  BY <1>1 DEF PurgeExpired, Tick, vars
<1> QED BY <1>2, <1>3, <1>4, <1>5, <1>6 DEF Next

\* A delivered or suppressed row never changes state again, whichever workers
\* still hold it from before.
THEOREM Finality == Spec => TerminalIsFinal
<1>1. TypeOK /\ [Next]_vars =>
        [\A d \in Delivery :
           /\ state[d] \in {"delivered", "suppressed"} => state'[d] = state[d]
           /\ state[d] = "dead" /\ state'[d] # "dead" =>
                state'[d] = "pending" /\ attempts'[d] = 0]_vars
  BY StateChanges
<1> QED BY <1>1, TypeCorrect, PTL DEF Spec, TerminalIsFinal

-----------------------------------------------------------------------------
(* The drain implements NotificationLedger *)

ledgerVars == <<state, attempts, recent>>

\* Writing the result of a call or of a fenced decision is a step of the ledger,
\* or changes nothing it sees: a delivery whose call held its lease counted an
\* attempt and has no recent twin.
LEMMA CompleteRefines ==
  ASSUME IInv, NEW w \in Worker, Complete(w)
  PROVE  Ledger!Next \/ UNCHANGED ledgerVars
<1> DEFINE d == job[w]
<1>1. d \in Delivery /\ attempts' = attempts
  BY DEF Complete, IInv, TypeOK, ReleasingLabels
<1>2. CASE ~ (state[d] = "pending" /\ Holds(w))
  BY <1>2 DEF Complete, ledgerVars
<1>3. CASE state[d] = "pending" /\ Holds(w) /\ pc[w] = "delivered"
  <2>1. CompleteDelivered(d)
    BY <1>3 DEF Complete
  <2>2. attempts[d] >= 1
    BY <1>3 DEF IInv, AttemptConsumed, CallLabels
  <2>3. \A e \in Delivery \ {d} : DedupeOf[e] = DedupeOf[d] => recent[e] = 0
    BY <1>3 DEF IInv, CheckedHasNoTwin, CheckedLabels
  <2>4. Ledger!Deliver(d)
    BY <1>1, <1>3, <2>1, <2>2, <2>3 DEF CompleteDelivered, Ledger!Deliver
  <2> QED BY <1>1, <2>4 DEF Ledger!Next
<1>4. CASE state[d] = "pending" /\ Holds(w) /\ pc[w] = "fencedSuppress"
  <2>1. Ledger!Suppress(d)
    BY <1>1, <1>4 DEF Complete, CompleteSuppressed, Ledger!Suppress
  <2> QED BY <1>1, <2>1 DEF Ledger!Next
<1>5. CASE state[d] = "pending" /\ Holds(w) /\ pc[w] = "failed"
  <2>1. CompleteFailed(d)
    BY <1>5 DEF Complete
  <2>2. CASE attempts[d] = Limit
    <3>1. Ledger!GiveUp(d)
      BY <1>1, <1>5, <2>1, <2>2 DEF CompleteFailed, Ledger!GiveUp
    <3> QED BY <1>1, <3>1 DEF Ledger!Next
  <2>3. CASE attempts[d] # Limit
    BY <1>1, <2>1, <2>3 DEF CompleteFailed, ledgerVars
  <2> QED BY <2>2, <2>3
<1>6. CASE state[d] = "pending" /\ Holds(w) /\ pc[w] \in {"ambiguous", "fencedDefer"}
  BY <1>1, <1>6 DEF Complete, CompleteAmbiguous, DeferFenced, ledgerVars
<1> QED BY <1>2, <1>3, <1>4, <1>5, <1>6 DEF Complete, ReleasingLabels

\* A step of the drain, or of what goes on around it, is a step of the ledger or
\* changes nothing it sees.
LEMMA StepRefines ==
  ASSUME IInv, [Next]_vars
  PROVE  [Ledger!Next]_ledgerVars
<1>1. CASE \E w \in Worker : Complete(w)
  BY <1>1, CompleteRefines
<1>2. CASE \E w \in Worker : Authorize(w)
  <2> PICK w \in Worker : Authorize(w)
    BY <1>2
  <2>1. Ledger!Attempt(job[w])
    BY DEF Authorize, AttemptsLeft, Ledger!Attempt
  <2>2. job[w] \in Delivery
    BY DEF Authorize, IInv, TypeOK
  <2> QED BY <2>1, <2>2 DEF Ledger!Next
<1>3. CASE \E w \in Worker : AuthorizeExhausted(w)
  <2> PICK w \in Worker : AuthorizeExhausted(w)
    BY <1>3
  <2>1. job[w] \in Delivery
    BY DEF AuthorizeExhausted, IInv, TypeOK
  <2>2. attempts[job[w]] \in 0 .. Limit /\ attempts[job[w]] >= Limit /\ Limit \in Nat
    BY <2>1, ConstantsAssumption DEF AuthorizeExhausted, IInv, TypeOK
  <2>3. Ledger!GiveUp(job[w])
    BY <2>2 DEF AuthorizeExhausted, Ledger!GiveUp
  <2> QED BY <2>1, <2>3 DEF Ledger!Next
<1>4. CASE \E w \in Worker : UpdateUnreserved(w)
  <2> PICK w \in Worker : UpdateUnreserved(w)
    BY <1>4
  <2>1. job[w] \in Delivery
    BY DEF UpdateUnreserved, IInv, TypeOK
  <2>2. CASE ~ Fenced(job[w]) /\ pc[w] = "suppress"
    <3>1. Ledger!Suppress(job[w])
      BY <2>2 DEF UpdateUnreserved, Fenced, Ledger!Suppress
    <3> QED BY <2>1, <3>1 DEF Ledger!Next
  <2>3. CASE ~ (~ Fenced(job[w]) /\ pc[w] = "suppress")
    BY <2>3 DEF UpdateUnreserved, ledgerVars
  <2> QED BY <2>2, <2>3
<1>5. ASSUME NEW w \in Worker, Step(w),
             ~ (Complete(w) \/ Authorize(w) \/ AuthorizeExhausted(w) \/ UpdateUnreserved(w))
      PROVE  UNCHANGED ledgerVars
  BY <1>5 DEF Step, Claim, Evaluate, AcquireNotPending, AcquireCollision, AcquireDeferred,
     Acquire, AcquireContention, CheckRecent, Preflight, AuthorizeRefused, ProviderAnswers,
     DeadlineExceeded, Renew, tableVars, ledgerVars
<1>6. CASE \E d \in Delivery : Requeue(d)
  <2> PICK d \in Delivery : Requeue(d)
    BY <1>6
  <2>1. Ledger!Requeue(d)
    BY DEF Requeue, Ledger!Requeue
  <2> QED BY <2>1 DEF Ledger!Next
<1>7. CASE Tick
  <2>1. Ledger!Age
    BY <1>7 DEF Tick, Less, Ledger!Age
  <2> QED BY <2>1 DEF Ledger!Next
<1>8. CASE \/ \E w \in Worker : Crash(w)
           \/ \E d \in Delivery : LoseReach(d)
           \/ PurgeExpired \/ UNCHANGED vars
  BY <1>8 DEF Crash, LoseReach, PurgeExpired, tableVars, vars, ledgerVars
<1> QED BY <1>1, <1>2, <1>3, <1>4, <1>5, <1>6, <1>7, <1>8 DEF Next

\* NO-9, NO-11 for every set of deliveries, workers and tokens and every timing:
\* the drain implements NotificationLedger. What a worker found before its call
\* (an attempt counted, no recent twin) still holds when it writes the result,
\* because the lease it fences with kept everybody else out.
THEOREM ImplementsTheLedger == Spec => ImplementsLedger
<1>1. Init => Ledger!Init
  BY DEF Init, Ledger!Init
<1>2. IInv /\ [Next]_vars => [Ledger!Next]_ledgerVars
  BY StepRefines
<1> QED
  BY <1>1, <1>2, Invariance, PTL DEF Spec, ImplementsLedger, Ledger!Spec, ledgerVars

-----------------------------------------------------------------------------
(* A key and its triple *)

\* The row of a key stays its owner's, passes to the same triple, or is let go.
TripleKept(k) ==
  row[k].owner \in Delivery /\ row'[k].owner \in Delivery =>
    DedupeOf[row'[k].owner] = DedupeOf[row[k].owner]

\* Only a reservation under a key that does not collide names a new owner.
LEMMA NextTripleKept ==
  ASSUME TypeOK, [Next]_vars, NEW k \in Key
  PROVE  TripleKept(k)
<1> USE DEF TypeOK
<1>1. ASSUME NEW w \in Worker, Acquire(w) PROVE TripleKept(k)
  <2>1. PICK t \in Token :
          row' = [row EXCEPT ![ReservationKey(job[w])] = [owner |-> job[w], token |-> t, ttl |-> Lease]]
    BY <1>1 DEF Acquire
  <2>2. CASE k = ReservationKey(job[w])
    <3>1. row'[k].owner = job[w]
      BY <2>1, <2>2
    <3> QED BY <1>1, <2>2, <3>1 DEF Acquire, Collides, TripleKept
  <2>3. CASE k # ReservationKey(job[w])
    BY <2>1, <2>3 DEF TripleKept
  <2> QED BY <2>2, <2>3
<1>2. ASSUME NEW d, row' = [row EXCEPT ![ReservationKey(d)] = NoRow] PROVE TripleKept(k)
  BY <1>2, ConstantsAssumption DEF NoRow, TripleKept
<1>3. ASSUME NEW w \in Worker, Renew(w) PROVE TripleKept(k)
  <2>1. row'[k].owner = row[k].owner
    BY <1>3 DEF Renew, Rows
  <2> QED BY <2>1 DEF TripleKept
<1>4. ASSUME row' = row PROVE TripleKept(k)
  BY <1>4 DEF TripleKept
<1>5. ASSUME NEW w \in Worker, Step(w) PROVE TripleKept(k)
  <2>1. CASE ~ TableWriter(w)
    BY <1>4, <1>5, <2>1, OtherStepsWriteNothing
  <2>2. CASE UpdateUnreserved(w)
    BY <1>4, <2>2 DEF UpdateUnreserved
  <2>3. CASE AuthorizeExhausted(w)
    BY <1>2, <2>3 DEF AuthorizeExhausted
  <2>4. CASE Complete(w)
    BY <1>2, <1>4, <2>4 DEF Complete, CompleteDelivered, CompleteSuppressed, CompleteFailed,
                            CompleteAmbiguous, DeferFenced, Release
  <2> QED BY <1>1, <1>3, <2>1, <2>2, <2>3, <2>4 DEF TableWriter
<1>6. CASE PurgeExpired
  BY <1>6, ConstantsAssumption DEF PurgeExpired, NoRow, TripleKept
<1>7. CASE Tick
  <2>1. row'[k].owner = row[k].owner
    BY <1>7 DEF Tick, Rows
  <2> QED BY <2>1 DEF TripleKept
<1>8. ASSUME NEW w \in Worker, Crash(w) PROVE row' = row
  BY <1>8 DEF Crash, tableVars
<1>9. ASSUME NEW d \in Delivery, Requeue(d) \/ LoseReach(d) PROVE row' = row
  BY <1>9 DEF Requeue, LoseReach, tableVars
<1>10. CASE UNCHANGED vars
  BY <1>4, <1>10 DEF vars
<1> QED BY <1>4, <1>5, <1>6, <1>7, <1>8, <1>9, <1>10 DEF Next

\* A colliding triple never takes over a key, whatever expires, is purged or
\* comes back late.
THEOREM KeysKeepTriples == Spec => ReservationKeepsItsTriple
<1>1. TypeOK /\ [Next]_vars =>
        [\A k \in Key :
           row[k].owner \in Delivery /\ row'[k].owner \in Delivery =>
             DedupeOf[row'[k].owner] = DedupeOf[row[k].owner]]_vars
  BY NextTripleKept DEF TripleKept
<1> QED BY <1>1, TypeCorrect, PTL DEF Spec, ReservationKeepsItsTriple

-----------------------------------------------------------------------------
(* One provider call per key, when timers and preflights are on time *)

\* Two workers never believe in one token.
TokensDiffer ==
  \A v, w \in Worker : held[v] \in Token /\ held[v] = held[w] => v = w

ClaimLabels == {"acquired", "checked", "authorize"}

\* A claim keeps room for a renewal until its call starts, and from then on the
\* next renewal comes before the lease runs out.
RenewalInTime ==
  \A w \in Worker :
    /\ pc[w] \in ClaimLabels \cup {"sending"} => held[w] \in Token
    /\ pc[w] \in ClaimLabels /\ Holds(w) =>
         row[ReservationKey(job[w])].ttl > Renewal
    /\ pc[w] = "sending" =>
         Holds(w) /\ row[ReservationKey(job[w])].ttl > renew[w]

\* A fresh token is new, and no step copies one.
LEMMA NextTokensDiffer == TypeOK /\ TokensDiffer /\ [Next]_vars => TokensDiffer'
<1> SUFFICES ASSUME TypeOK, TokensDiffer, [Next]_vars PROVE TokensDiffer'
  OBVIOUS
<1> USE DEF TypeOK
<1>1. CASE held' = held
  BY <1>1 DEF TokensDiffer
<1>2. ASSUME NEW w \in Worker, Return(w) PROVE TokensDiffer'
  BY <1>2, ConstantsAssumption DEF TokensDiffer, Return
<1>3. ASSUME NEW w \in Worker, Acquire(w) PROVE TokensDiffer'
  BY <1>3 DEF TokensDiffer, Acquire, Fresh
<1>4. ASSUME NEW w \in Worker, Step(w) PROVE held' = held \/ Return(w) \/ Acquire(w)
  BY <1>4 DEF Step, Claim, Evaluate, UpdateUnreserved, AcquireNotPending,
       AcquireCollision, AcquireDeferred, AcquireContention, CheckRecent,
       Preflight, Verdict, AuthorizeRefused, AuthorizeExhausted, Authorize,
       ProviderAnswers, DeadlineExceeded, Renew, Complete, Goto, GotoWith
<1>5. ASSUME NEW w \in Worker, Crash(w) PROVE Return(w)
  BY <1>5 DEF Crash
<1>6. ASSUME NEW d \in Delivery, Requeue(d) \/ LoseReach(d) PROVE held' = held
  BY <1>6 DEF Requeue, LoseReach, workerVars
<1>7. CASE PurgeExpired \/ Tick \/ UNCHANGED vars
  BY <1>1, <1>7 DEF PurgeExpired, Tick, workerVars, vars
<1> QED BY <1>1, <1>2, <1>3, <1>4, <1>5, <1>6, <1>7 DEF Next

\* Another worker's step leaves a live, held reservation alone.
LEMMA OthersRespectLease ==
  ASSUME TypeOK, TokensDiffer, NEW w \in Worker, Step(w) \/ Crash(w),
         NEW v \in Worker, v # w, job[v] \in Delivery, held[v] \in Token, Holds(v)
  PROVE  row'[ReservationKey(job[v])] = row[ReservationKey(job[v])]
<1> DEFINE k == ReservationKey(job[v])
<1> USE DEF TypeOK
<1>1. k \in Key /\ row[k].ttl > 0 /\ row[k].token = held[v]
  BY KeyOfDelivery DEF Holds
<1>2. Holds(w) /\ job[w] \in Delivery => ReservationKey(job[w]) # k
  BY <1>1 DEF Holds, TokensDiffer
<1>3. CASE row' = row
  BY <1>3
<1>4. CASE Acquire(w)
  <2>1. ReservationKey(job[w]) # k
    BY <1>1, <1>4 DEF Acquire, Expired
  <2> QED BY <1>1, <1>4, <2>1 DEF Acquire
<1>5. CASE AuthorizeExhausted(w)
  <2>1. ReservationKey(job[w]) # k
    BY <1>2, <1>5 DEF AuthorizeExhausted
  <2> QED BY <1>1, <1>5, <2>1 DEF AuthorizeExhausted
<1>6. CASE Renew(w)
  <2>1. Holds(w) => ReservationKey(job[w]) # k
    BY <1>2, <1>6 DEF Renew
  <2> QED BY <1>1, <1>3, <1>6, <2>1 DEF Renew
<1>7. CASE Complete(w)
  <2>1. Holds(w) => ReservationKey(job[w]) # k
    BY <1>2, <1>7 DEF Complete, ReleasingLabels
  <2> QED BY <1>1, <1>3, <1>7, <2>1
          DEF Complete, CompleteDelivered, CompleteSuppressed, CompleteFailed,
              CompleteAmbiguous, DeferFenced, Release
<1>8. CASE UpdateUnreserved(w) \/ Crash(w)
  BY <1>3, <1>8 DEF UpdateUnreserved, Crash, tableVars
<1> QED BY <1>3, <1>4, <1>5, <1>6, <1>7, <1>8, OtherStepsWriteNothing DEF TableWriter

\* Where the labels that need the lease come from.
LEMMA OwnLeaseMoves ==
  ASSUME TypeOK, NEW w \in Worker, Step(w) \/ Crash(w),
         pc'[w] \in ClaimLabels \cup {"sending"}
  PROVE  \/ Acquire(w)
         \/ Authorize(w)
         \/ Renew(w) /\ Holds(w)
         \/ /\ pc[w] \in ClaimLabels /\ pc'[w] \in ClaimLabels
            /\ UNCHANGED <<row, job, held>>
<1> USE DEF TypeOK, ClaimLabels
<1>1. ASSUME NEW d \in Delivery PROVE ~Claim(w, d)
  BY DEF Claim
<1>2. ~Return(w)
  BY DEF Return
<1>3. ~Evaluate(w)
  BY DEF Evaluate, Verdict, Goto, GotoWith
<1>4. ~AcquireCollision(w) /\ ~AcquireDeferred(w) /\ ~AcquireContention(w)
  BY DEF AcquireCollision, AcquireDeferred, AcquireContention, Goto, GotoWith
<1>5. ~ProviderAnswers(w) /\ ~DeadlineExceeded(w)
  BY DEF ProviderAnswers, DeadlineExceeded, Goto
<1>6. CASE CheckRecent(w)
  BY <1>6 DEF CheckRecent, Goto, tableVars
<1>7. CASE Preflight(w)
  BY <1>7 DEF Preflight, Verdict, Goto, GotoWith, tableVars
<1>8. CASE Renew(w)
  BY <1>8 DEF Renew, Goto
<1> QED BY <1>1, <1>2, <1>3, <1>4, <1>5, <1>6, <1>7, <1>8
        DEF Step, Crash, UpdateUnreserved, AcquireNotPending, AuthorizeRefused,
            AuthorizeExhausted, Complete

\* A lease never runs out under a call: authorisation leaves room for one
\* renewal, the clock waits for due timers, and a renewal restores the lease.
LEMMA NextRenewalInTime ==
  ASSUME OnTime, PromptPreflight, Renewal < Lease
  PROVE  TypeOK /\ TokensDiffer /\ RenewalInTime /\ [Next]_vars => RenewalInTime'
<1> DEFINE InTime(v) ==
      /\ pc[v] \in ClaimLabels \cup {"sending"} => held[v] \in Token
      /\ pc[v] \in ClaimLabels /\ Holds(v) => row[ReservationKey(job[v])].ttl > Renewal
      /\ pc[v] = "sending" => Holds(v) /\ row[ReservationKey(job[v])].ttl > renew[v]
<1> SUFFICES ASSUME TypeOK, TokensDiffer, RenewalInTime, [Next]_vars,
                    NEW v \in Worker, pc'[v] \in ClaimLabels \cup {"sending"}
             PROVE  InTime(v)'
  BY DEF RenewalInTime
<1> USE ConstantsAssumption
<1>0. /\ pc[v] \in ClaimLabels \cup {"sending"} => job[v] \in Delivery
      /\ InTime(v)
  BY DEF TypeOK, RenewalInTime, ClaimLabels
<1>1. ASSUME UNCHANGED <<pc, job, held, renew>>,
             row'[ReservationKey(job[v])] = row[ReservationKey(job[v])]
      PROVE  InTime(v)'
  BY <1>0, <1>1 DEF Holds, ReservationKey
<1>2. ASSUME NEW w \in Worker, Step(w) \/ Crash(w) PROVE InTime(v)'
  <2>1. CASE v # w
    <3>1. pc'[v] = pc[v] /\ job'[v] = job[v] /\ held'[v] = held[v] /\ renew'[v] = renew[v]
      BY <1>2, <2>1, OnlyMovesItself
    <3>2. job[v] \in Delivery /\ held[v] \in Token
      BY <1>0, <3>1
    <3>3. Holds(v)' => Holds(v)
      BY <3>1, <3>2, NoLeaseRegained
    <3>4. Holds(v) => row'[ReservationKey(job[v])] = row[ReservationKey(job[v])]
      BY <1>2, <2>1, <3>2, OthersRespectLease
    <3> QED BY <1>0, <3>1, <3>3, <3>4 DEF Holds, ReservationKey
  <2>2. CASE v = w
    <3>1. CASE Acquire(w)
      <4>1. PICK t \in Token :
              /\ row' = [row EXCEPT ![ReservationKey(job[w])] =
                           [owner |-> job[w], token |-> t, ttl |-> Lease]]
              /\ held' = [held EXCEPT ![w] = t]
        BY <3>1 DEF Acquire
      <4>2. pc'[w] = "acquired" /\ job' = job /\ job[w] \in Delivery
        BY <3>1 DEF Acquire, TypeOK
      <4>3. row'[ReservationKey(job[w])].ttl = Lease
        BY <4>1, <4>2, KeyOfDelivery DEF TypeOK
      <4>4. held'[w] = t
        BY <4>1 DEF TypeOK
      <4> QED BY <2>2, <4>2, <4>3, <4>4 DEF ReservationKey
    <3>2. CASE Authorize(w)
      <4>1. /\ pc[w] = "authorize" /\ Holds(w) /\ UNCHANGED <<row, job, held>>
            /\ pc'[w] = "sending" /\ renew'[w] = Renewal
        BY <3>2 DEF Authorize, TypeOK
      <4> QED BY <1>0, <2>2, <4>1 DEF Holds, ReservationKey, ClaimLabels
    <3>3. CASE Renew(w) /\ Holds(w)
      <4>1. /\ row' = [row EXCEPT ![ReservationKey(job[w])].ttl = Lease]
            /\ renew'[w] = Renewal /\ UNCHANGED <<pc, job, held>> /\ pc[w] = "sending"
        BY <3>3 DEF Renew, TypeOK
      <4>2. ReservationKey(job[w]) \in Key
        BY <1>0, <2>2, <4>1, KeyOfDelivery
      <4>3. /\ row'[ReservationKey(job[w])].ttl = Lease
            /\ row'[ReservationKey(job[w])].owner = row[ReservationKey(job[w])].owner
            /\ row'[ReservationKey(job[w])].token = row[ReservationKey(job[w])].token
        BY <4>1, <4>2, RenewedRows DEF TypeOK
      <4> QED BY <1>0, <2>2, <3>3, <4>1, <4>3 DEF Holds, ReservationKey, ClaimLabels
    <3>4. CASE /\ pc[w] \in ClaimLabels /\ pc'[w] \in ClaimLabels
               /\ UNCHANGED <<row, job, held>>
      BY <1>0, <2>2, <3>4 DEF Holds, ReservationKey, ClaimLabels
    <3> QED BY <1>2, <2>2, <3>1, <3>2, <3>3, <3>4, OwnLeaseMoves
  <2> QED BY <2>1, <2>2
<1>3. ASSUME NEW d \in Delivery, Requeue(d) \/ LoseReach(d) PROVE InTime(v)'
  BY <1>1, <1>3 DEF Requeue, LoseReach, workerVars, tableVars
<1>4. CASE PurgeExpired
  <2>1. UNCHANGED workerVars
    BY <1>4 DEF PurgeExpired
  <2>2. job[v] \in Delivery /\ ReservationKey(job[v]) \in Key
    BY <1>0, <2>1, KeyOfDelivery DEF workerVars
  <2>3. row[ReservationKey(job[v])].ttl > 0 \/ row'[ReservationKey(job[v])].ttl = 0
    BY <1>4, <2>2 DEF PurgeExpired, TypeOK, Rows, NoRow
  <2>4. CASE row[ReservationKey(job[v])].ttl > 0
    BY <1>1, <1>4, <2>1, <2>2, <2>4 DEF PurgeExpired, workerVars
  <2>5. CASE row[ReservationKey(job[v])].ttl = 0
    <3>1. pc[v] # "sending"
      BY <1>0, <2>5 DEF Holds
    <3>2. row'[ReservationKey(job[v])].ttl = 0
      BY <1>4, <2>2, <2>5 DEF PurgeExpired, NoRow
    <3> QED BY <1>0, <2>1, <3>1, <3>2 DEF Holds, ReservationKey, workerVars
  <2> QED BY <2>2, <2>4, <2>5 DEF TypeOK, Rows
<1>5. CASE Tick
  <2> DEFINE k == ReservationKey(job[v])
  <2>1. UNCHANGED <<pc, job, held>> /\ renew'[v] = Less(renew[v])
    BY <1>5 DEF Tick
  <2>2. job[v] \in Delivery /\ k \in Key
    BY <1>0, <2>1, KeyOfDelivery
  <2>3. /\ row'[k].owner = row[k].owner /\ row'[k].token = row[k].token
        /\ row'[k].ttl = Less(row[k].ttl)
    BY <1>5, <2>2, TickRows DEF TypeOK
  <2>4. row[k].ttl \in Nat /\ renew[v] \in Nat
    BY <2>2 DEF TypeOK, Rows
  <2>5. CASE pc[v] = "sending"
    <3>1. renew[v] > 0
      BY <1>5, <2>5 DEF Tick, TimersServed
    <3>2. Holds(v) /\ row[k].ttl > renew[v]
      BY <1>0, <2>5
    <3> QED BY <1>0, <2>1, <2>3, <2>4, <2>5, <3>1, <3>2
            DEF Holds, ReservationKey, Less, ClaimLabels
  <2>6. CASE pc[v] \in ClaimLabels
    <3>1. Holds(v)' => Holds(v)
      BY <2>1, <2>2, NoLeaseRegained
    <3>2. Holds(v) => row[k].ttl > Renewal + 1
      BY <1>5, <2>6 DEF Tick, PreflightSlack, ClaimLabels
    <3> QED BY <1>0, <2>1, <2>3, <2>4, <2>6, <3>1, <3>2
            DEF ReservationKey, Less, ClaimLabels
  <2> QED BY <2>1, <2>5, <2>6
<1>6. CASE UNCHANGED vars
  BY <1>1, <1>6 DEF vars
<1> QED BY <1>2, <1>3, <1>4, <1>5, <1>6 DEF Next

\* Two running calls for one key would hold one row, hence one token.
LEMMA OneHolderPerKey ==
  TypeOK /\ TokensDiffer /\ RenewalInTime => SingleSender /\ SendWithinFence
<1> SUFFICES ASSUME TypeOK, TokensDiffer, RenewalInTime
             PROVE  SingleSender /\ SendWithinFence
  OBVIOUS
<1>1. \A w \in Worker : pc[w] = "sending" => Holds(w) /\ held[w] \in Token
  BY DEF RenewalInTime
<1> QED BY <1>1 DEF SingleSender, SendWithinFence, TokensDiffer, Holds

\* When due timers fire before the clock moves on, preflights are prompt and a
\* renewal fits a lease, no provider call outlives its reservation, and calls
\* for one key never overlap.
THEOREM FenceHolds ==
  ASSUME OnTime, PromptPreflight, Renewal < Lease
  PROVE  Spec => [](SingleSender /\ SendWithinFence)
<1> DEFINE FInv == TypeOK /\ TokensDiffer /\ RenewalInTime
<1>1. Init => TokensDiffer /\ RenewalInTime
  BY ConstantsAssumption DEF Init, TokensDiffer, RenewalInTime, ClaimLabels
<1>2. IInv /\ FInv /\ [Next]_vars => FInv'
  BY NextType, NextTokensDiffer, NextRenewalInTime DEF IInv
<1>3. Init => FInv
  BY <1>1, InitIInv DEF IInv
<1>4. FInv => SingleSender /\ SendWithinFence
  BY OneHolderPerKey
<1> QED BY <1>2, <1>3, <1>4, Invariance, PTL DEF Spec

=============================================================================
