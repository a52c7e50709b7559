----------------------- MODULE WebhookDeliveryProofs -----------------------
(* Type correctness of WebhookDelivery, that an outcome once recorded is    *)
(* final, that a prompt drain posts a delivery from one worker at a time,   *)
(* that a pause for failing has its window, that a body stays with the      *)
(* destination it was built for, how many attempts a delivery can have,     *)
(* that the rows implement the delivery log of WebhookLedger, and what a    *)
(* pause for an owner who left rests on.                                    *)
EXTENDS WebhookDelivery, TLAPS

RowStates == Finished \cup {"none", "pending", "gone"}

\* Delivery rows when the destination has reached generation g.
RowType(g) == [state : RowStates, attempt : Nat, due : Nat,
               token : Token \cup {NoToken}, ttl : 0 .. Lease,
               body : 0 .. g, older : BOOLEAN, age : 0 .. Skew]

\* What claiming and recording keep of a row: a lease is on a pending, due row
\* with a counted attempt, and a finished row waits for nothing.
RowInv(r) ==
  /\ r.token # NoToken => r.state = "pending" /\ r.due = 0 /\ r.attempt >= 1
  /\ r.state \in Finished => r.due = 0 /\ r.ttl = 0

Rows == /\ delivery \in [Delivery -> RowType(webhook.gen)]
        /\ \A d \in Delivery : RowInv(delivery[d])

WebhookType ==
  /\ webhook \in [exists : BOOLEAN, active : BOOLEAN, owner : Person,
                  reason : {"none", "manual", "failing_24h", "owner_left", "event_removed"},
                  gen : 1 .. MaxEdits + 1, version : Nat, failing : BOOLEAN,
                  age : 0 .. DisableAfter + MaxLag]
  /\ edits \in 0 .. MaxEdits /\ webhook.gen <= edits + 1

Locals ==
  /\ pc \in [Worker -> Labels]
  /\ job \in [Worker -> Delivery \cup {NoDelivery}]
  /\ got \in [Worker -> [token : Token \cup {NoToken}, attempt : Nat,
                         body : 0 .. webhook.gen]]
  /\ seen \in [Worker -> [owner : Person, gen : 0 .. webhook.gen, version : Nat]]
  /\ until \in [Worker -> Nat] /\ lag \in [Worker -> 0 .. MaxLag]
  /\ \A w \in Worker :
       /\ pc[w] # "idle" => job[w] \in Delivery
       /\ got[w].token # NoToken => got[w].attempt >= 1

Rest ==
  /\ calm \in 0 .. DisableAfter - MaxLag /\ staff \subseteq Person
  /\ request \in [from : Delivery \cup {NoDelivery}, body : 0 .. webhook.gen,
                  gen : 0 .. webhook.gen]
  /\ editing \in [open : BOOLEAN, owner : Person, young : SUBSET Delivery]
  /\ editing.open => edits < MaxEdits

\* The inductive invariant: TypeOK, with the locals of the workers typed.
IInv == Rows /\ WebhookType /\ Locals /\ Rest

\* The invariant implies the type invariant of the runs.
LEMMA IInvType == IInv => TypeOK
BY DEF IInv, Rows, RowType, RowInv, RowStates, WebhookType, Locals, Rest, TypeOK

-----------------------------------------------------------------------------

\* The start satisfies the invariant.
LEMMA InitIInv == Init => IInv
<1> SUFFICES ASSUME Init PROVE IInv
  OBVIOUS
<1> USE WebhookAssumption DEF Init
<1>1. WebhookType
  BY DEF WebhookType
<1>2. NoRow \in RowType(webhook.gen) /\ RowInv(NoRow)
  BY DEF NoRow, RowType, RowInv, RowStates, Finished, NoBody
<1>3. Rows
  BY <1>2 DEF Rows
<1>4. Locals
  BY DEF Locals, Labels, NothingRead, NoneSeen, NoBody
<1>5. Rest
  BY DEF Rest, NoBody, NoRequest, NoEdit
<1> QED BY <1>1, <1>3, <1>4, <1>5 DEF IInv

\* The bounds and lengths are natural numbers.
LEMMA Lengths ==
  /\ Lease \in Nat \ {0} /\ Timeout \in Nat /\ DisableAfter \in Nat \ {0} /\ MaxEdits \in Nat
  /\ MaxLag \in Nat /\ MaxLag < DisableAfter /\ Skew \in Nat /\ Skew <= MaxLag
BY WebhookAssumption

\* What the counters of the webhook are, for the arithmetic below.
LEMMA Counters ==
  ASSUME IInv
  PROVE  /\ webhook.gen \in Nat /\ 1 <= webhook.gen /\ webhook.gen <= edits + 1
         /\ webhook.version \in Nat /\ edits \in Nat /\ edits <= MaxEdits
         /\ webhook.age \in 0 .. DisableAfter + MaxLag
BY Lengths DEF IInv, WebhookType

\* A worker that returns, or only changes its label, keeps its locals typed.
LEMMA ReturnLocals ==
  ASSUME Locals, NEW w \in Worker, Return(w), webhook.gen \in Nat, webhook'.gen = webhook.gen
  PROVE  Locals'
BY WebhookAssumption DEF Locals, Return, Labels, NothingRead, NoneSeen, NoBody

\* So does a worker that only changes its label.
LEMMA GotoLocals ==
  ASSUME Locals, NEW w \in Worker, pc[w] # "idle", NEW label \in Labels, Goto(w, label),
         webhook'.gen = webhook.gen
  PROVE  Locals'
BY DEF Locals, Goto

\* Writing one row well keeps all rows.
LEMMA OneRow ==
  ASSUME Rows, webhook'.gen = webhook.gen, NEW d \in Delivery, NEW r,
         r \in RowType(webhook.gen), RowInv(r), delivery' = [delivery EXCEPT ![d] = r]
  PROVE  Rows'
<1>1. delivery' \in [Delivery -> RowType(webhook'.gen)]
  BY DEF Rows
<1>2. \A e \in Delivery : delivery'[e] = IF e = d THEN r ELSE delivery[e]
  BY DEF Rows
<1>3. \A e \in Delivery : RowInv(delivery'[e])
  BY <1>2 DEF Rows
<1> QED BY <1>1, <1>3 DEF Rows

-----------------------------------------------------------------------------
(* The steps of the routes and of the consumer that queue a delivery *)

\* Queueing an event, a test or a redelivery keeps the invariant.
LEMMA QueueSteps ==
  ASSUME IInv, NEW d \in Delivery,
         EnqueueEvent(d) \/ EnqueueTest(d) \/ CheckRedelivery(d) \/ EnqueueRedelivery(d)
  PROVE  IInv'
<1> DEFINE r == delivery[d]
<1>0. r \in RowType(webhook.gen) /\ RowInv(r) /\ webhook.gen \in Nat
  BY WebhookAssumption DEF IInv, Rows, WebhookType
<1> DEFINE queued(older) == Queued(d, older)
<1>q. \A older \in SeemsOlder :
        /\ older \in BOOLEAN
        /\ r.state = "none" => queued(older) \in RowType(webhook.gen) /\ RowInv(queued(older))
  <2> TAKE older \in SeemsOlder
  <2>1. older \in BOOLEAN
    BY DEF SeemsOlder
  <2>2. queued(older) = [r EXCEPT !.state = "pending", !.older = older]
    BY DEF Queued
  <2> HIDE DEF r, queued
  <2>3. r.state = "none" => queued(older) \in RowType(webhook.gen)
    BY <1>0, <2>1, <2>2 DEF RowType, RowStates
  <2>4. r.state = "none" => RowInv(queued(older))
    BY <1>0, <2>2 DEF RowInv, RowType, Finished
  <2> QED BY <2>1, <2>3, <2>4
<1>1. CASE EnqueueEvent(d)
  <2> PICK older \in SeemsOlder : delivery' = [delivery EXCEPT ![d] = queued(older)]
    BY <1>1 DEF EnqueueEvent
  <2>1. Rows'
    BY <1>1, <1>q, OneRow DEF EnqueueEvent, IInv
  <2> QED BY <1>1, <2>1
          DEF EnqueueEvent, IInv, WebhookType, Locals, Rest, workerVars, requestVars
<1>2. CASE EnqueueTest(d)
  <2> PICK older \in SeemsOlder :
        delivery' = [delivery EXCEPT ![d] = [queued(older) EXCEPT !.body = webhook.gen]]
    BY <1>2 DEF EnqueueTest
  <2> DEFINE q == queued(older)
             new == [q EXCEPT !.body = webhook.gen]
  <2>1. q \in RowType(webhook.gen) /\ RowInv(q) /\ webhook.gen \in 0 .. webhook.gen
    BY <1>0, <1>2, <1>q DEF EnqueueTest
  <2> HIDE DEF q
  <2>2. new \in RowType(webhook.gen) /\ RowInv(new)
    BY <2>1 DEF RowType, RowInv
  <2>3. Rows'
    BY <1>2, <2>2, OneRow DEF EnqueueTest, IInv, q
  <2> QED BY <1>2, <2>3
          DEF EnqueueTest, IInv, WebhookType, Locals, Rest, workerVars, requestVars
<1>3. CASE CheckRedelivery(d)
  <2>1. /\ request' = [from |-> d, body |-> r.body, gen |-> webhook.gen]
        /\ webhook.gen \in 0 .. webhook.gen /\ r.body \in 0 .. webhook.gen
    BY <1>0, <1>3 DEF CheckRedelivery, RowType
  <2>2. Rest'
    BY <1>3, <2>1 DEF CheckRedelivery, IInv, Rest
  <2> QED BY <1>3, <2>2 DEF CheckRedelivery, IInv, Rows, WebhookType, Locals, workerVars
<1>4. CASE EnqueueRedelivery(d)
  <2> PICK older \in SeemsOlder :
        delivery' = [delivery EXCEPT ![d] = [queued(older) EXCEPT !.body = request.body]]
    BY <1>4 DEF EnqueueRedelivery
  <2> DEFINE q == queued(older)
             new == [q EXCEPT !.body = request.body]
  <2>1. q \in RowType(webhook.gen) /\ RowInv(q) /\ request.body \in 0 .. webhook.gen
    BY <1>0, <1>4, <1>q DEF EnqueueRedelivery, IInv, Rest
  <2> HIDE DEF q
  <2>2. new \in RowType(webhook.gen) /\ RowInv(new)
    BY <2>1 DEF RowType, RowInv
  <2>3. Rows'
    BY <1>4, <2>2, OneRow DEF EnqueueRedelivery, IInv, q
  <2>4. Rest'
    BY <1>0, <1>4 DEF EnqueueRedelivery, IInv, Rest, NoRequest, NoBody
  <2> QED BY <1>4, <2>3, <2>4 DEF EnqueueRedelivery, IInv, WebhookType, Locals, workerVars
<1> QED BY <1>1, <1>2, <1>3, <1>4

\* What a queued row is: the empty row there was, now pending, perhaps with a body.
LEMMA QueuedRow ==
  ASSUME IInv, NEW d \in Delivery, EnqueueEvent(d) \/ EnqueueTest(d) \/ EnqueueRedelivery(d)
  PROVE  /\ delivery[d].state = "none" /\ delivery'[d].state = "pending"
         /\ delivery'[d].attempt = delivery[d].attempt /\ delivery'[d].token = delivery[d].token
         /\ delivery'[d].ttl = delivery[d].ttl
         /\ EnqueueEvent(d) => delivery'[d].body = delivery[d].body
         /\ EnqueueTest(d) => delivery'[d].body = webhook.gen
         /\ EnqueueRedelivery(d) => delivery'[d].body = request.body
         /\ \A e \in Delivery \ {d} : delivery'[e] = delivery[e]
<1> DEFINE r == delivery[d]
<1>1. /\ r \in RowType(webhook.gen) /\ r.state = "none"
      /\ \A e \in Delivery \ {d} : delivery'[e] = delivery[e]
  BY DEF EnqueueEvent, EnqueueTest, EnqueueRedelivery, IInv, Rows
<1>2. PICK older \in SeemsOlder :
        /\ EnqueueEvent(d) => delivery'[d] = [r EXCEPT !.state = "pending", !.older = older]
        /\ EnqueueTest(d) => delivery'[d] = [r EXCEPT !.state = "pending", !.older = older,
                                                     !.body = webhook.gen]
        /\ EnqueueRedelivery(d) => delivery'[d] = [r EXCEPT !.state = "pending", !.older = older,
                                                           !.body = request.body]
  <2>1. CASE EnqueueEvent(d)
    BY <2>1 DEF EnqueueEvent, EnqueueTest, EnqueueRedelivery, IInv, Rows, RowType, Queued
  <2>2. CASE EnqueueTest(d)
    BY <2>2 DEF EnqueueEvent, EnqueueTest, EnqueueRedelivery, IInv, Rows, RowType, Queued
  <2>3. CASE EnqueueRedelivery(d)
    BY <2>3 DEF EnqueueEvent, EnqueueTest, EnqueueRedelivery, IInv, Rows, RowType, Queued
  <2> QED BY <2>1, <2>2, <2>3
<1> HIDE DEF r
<1>3. /\ delivery'[d].state = "pending"
      /\ delivery'[d].attempt = r.attempt /\ delivery'[d].token = r.token
      /\ delivery'[d].ttl = r.ttl
      /\ EnqueueEvent(d) => delivery'[d].body = r.body
      /\ EnqueueTest(d) => delivery'[d].body = webhook.gen
      /\ EnqueueRedelivery(d) => delivery'[d].body = request.body
  <2>0. /\ EnqueueEvent(d) => ~ EnqueueTest(d) /\ ~ EnqueueRedelivery(d)
        /\ EnqueueTest(d) => ~ EnqueueRedelivery(d)
    BY DEF EnqueueEvent, EnqueueTest, EnqueueRedelivery
  <2>1. CASE EnqueueEvent(d)
    BY <1>1, <1>2, <2>0, <2>1 DEF RowType
  <2>2. CASE EnqueueTest(d)
    BY <1>1, <1>2, <2>0, <2>2 DEF RowType
  <2>3. CASE EnqueueRedelivery(d)
    BY <1>1, <1>2, <2>0, <2>3 DEF RowType
  <2> QED BY <2>1, <2>2, <2>3
<1> QED BY <1>1, <1>3 DEF r

-----------------------------------------------------------------------------
(* The drain, up to the POST *)

\* A claim counts an attempt and leases the row.
LEMMA ClaimStep ==
  ASSUME IInv, NEW w \in Worker, NEW d \in Delivery, Claim(w, d)
  PROVE  IInv'
<1> PICK t \in Token :
      delivery' = [delivery EXCEPT ![d].attempt = @ + 1, ![d].token = t, ![d].ttl = Lease]
  BY DEF Claim
<1> DEFINE r == delivery[d]
           new == [r EXCEPT !.attempt = @ + 1, !.token = t, !.ttl = Lease]
<1>1. r \in RowType(webhook.gen) /\ RowInv(r) /\ Claimable(d)
  BY DEF IInv, Rows, Claim
<1>2. new \in RowType(webhook.gen)
  <2>1. r.attempt + 1 \in Nat /\ Lease \in 0 .. Lease
    <3>1. r.attempt \in Nat
      BY <1>1 DEF RowType
    <3> HIDE DEF r
    <3> QED BY <3>1, Lengths
  <2> QED BY <1>1, <2>1 DEF RowType
<1>3. RowInv(new)
  <2>1. r.attempt \in Nat /\ r.state = "pending" /\ r.due = 0
    BY <1>1 DEF RowType, Claimable
  <2>2. new.state = r.state /\ new.due = r.due /\ new.attempt = r.attempt + 1
    <3> HIDE DEF r
    <3> QED BY <1>1 DEF RowType
  <2>3. r.attempt + 1 >= 1 /\ r.state \notin Finished
    BY <2>1 DEF Finished
  <2> HIDE DEF r, new
  <2> QED BY <2>1, <2>2, <2>3 DEF RowInv
<1>4. delivery' = [delivery EXCEPT ![d] = new]
  BY DEF IInv, Rows
<1>5. Rows'
  BY <1>2, <1>3, <1>4, OneRow DEF IInv, Claim
<1>6. Locals'
  BY DEF Claim, IInv, Locals, Labels
<1> QED BY <1>5, <1>6 DEF Claim, IInv, WebhookType, Rest, requestVars

\* Reading, checking and posting write nothing but locals.
LEMMA ReadingSteps ==
  ASSUME IInv, NEW w \in Worker,
         ReadDelivery(w) \/ ReadWebhook(w) \/ NothingToSend(w) \/ OwnerGone(w)
           \/ OutOfReach(w) \/ Send(w) \/ Answer(w)
  PROVE  IInv'
<1>0. webhook.gen \in Nat /\ job[w] \in Delivery /\ pc[w] # "idle"
  <2>1. pc[w] # "idle"
    BY DEF ReadDelivery, ReadWebhook, NothingToSend, OwnerGone, OutOfReach, Send, Answer
  <2> QED BY <2>1, Counters DEF IInv, Locals
<1>1. UNCHANGED <<delivery, webhook, calm, staff, requestVars>>
  BY DEF ReadDelivery, ReadWebhook, NothingToSend, OwnerGone, OutOfReach, Send, Answer
<1>2. Locals'
  <2>1. CASE ReadDelivery(w)
    <3>1. CASE Return(w)
      BY <1>0, <1>1, <3>1, ReturnLocals DEF IInv
    <3>2. CASE ~ Return(w)
      <4> DEFINE r == delivery[job[w]]
                 read == [token |-> r.token, attempt |-> r.attempt, body |-> r.body]
      <4>1. r \in RowType(webhook.gen) /\ RowInv(r)
        BY <1>0 DEF IInv, Rows
      <4>2. /\ read \in [token : Token \cup {NoToken}, attempt : Nat,
                         body : 0 .. webhook.gen]
            /\ read.token # NoToken => read.attempt >= 1
        BY <4>1 DEF RowType, RowInv
      <4>3. /\ pc' = [pc EXCEPT ![w] = "read"] /\ got' = [got EXCEPT ![w] = read]
            /\ UNCHANGED <<job, seen, until, lag>>
        BY <2>1, <3>2 DEF ReadDelivery
      <4> QED BY <1>0, <1>1, <4>2, <4>3 DEF IInv, Locals, Labels
    <3> QED BY <3>1, <3>2
  <2>2. CASE ReadWebhook(w)
    <3>1. CASE Goto(w, "cancel") \/ Goto(w, "stale")
      BY <1>0, <1>1, <3>1, GotoLocals DEF IInv, Labels, FinishLabels
    <3>2. CASE ~ (Goto(w, "cancel") \/ Goto(w, "stale"))
      <4> DEFINE read == [owner |-> webhook.owner, gen |-> webhook.gen,
                          version |-> webhook.version]
      <4>1. read \in [owner : Person, gen : 0 .. webhook.gen, version : Nat]
        BY <1>0 DEF IInv, WebhookType
      <4>2. /\ pc' = [pc EXCEPT ![w] = "checked"] /\ seen' = [seen EXCEPT ![w] = read]
            /\ UNCHANGED <<job, got, until, lag>>
        BY <2>2, <3>2 DEF ReadWebhook
      <4> QED BY <1>0, <1>1, <4>1, <4>2 DEF IInv, Locals, Labels
    <3> QED BY <3>1, <3>2
  <2>3. CASE NothingToSend(w)
    BY <1>0, <1>1, <2>3, GotoLocals DEF NothingToSend, IInv, Labels, FinishLabels
  <2>4. CASE OwnerGone(w)
    BY <1>0, <1>1, <2>4, GotoLocals DEF OwnerGone, IInv, Labels, FinishLabels
  <2>5. CASE OutOfReach(w)
    BY <1>0, <1>1, <2>5, GotoLocals DEF OutOfReach, IInv, Labels, FinishLabels
  <2>6. CASE Send(w)
    <3> DEFINE body == IF got[w].body = NoBody THEN seen[w].gen ELSE got[w].body
               built == [got[w] EXCEPT !.body = body]
    <3>1. /\ got[w] \in [token : Token \cup {NoToken}, attempt : Nat,
                         body : 0 .. webhook.gen]
          /\ seen[w].gen \in 0 .. webhook.gen
          /\ got[w].token # NoToken => got[w].attempt >= 1
      BY DEF IInv, Locals
    <3>2. /\ built \in [token : Token \cup {NoToken}, attempt : Nat,
                        body : 0 .. webhook.gen]
          /\ built.token # NoToken => built.attempt >= 1
      BY <3>1
    <3>3. /\ pc' = [pc EXCEPT ![w] = "sending"] /\ got' = [got EXCEPT ![w] = built]
          /\ until' = [until EXCEPT ![w] = Timeout] /\ UNCHANGED <<job, seen, lag>>
      BY <2>6 DEF Send, IInv, Locals
    <3> HIDE DEF built
    <3> QED BY <1>0, <1>1, <3>2, <3>3, Lengths DEF IInv, Locals, Labels
  <2>7. CASE Answer(w)
    <3> PICK label \in {"succeeded", "failed"}, behind \in 0 .. Skew :
          pc' = [pc EXCEPT ![w] = label] /\ lag' = [lag EXCEPT ![w] = behind]
      BY <2>7 DEF Answer
    <3>1. behind \in 0 .. MaxLag /\ 0 \in Nat /\ label \in Labels
      BY Lengths DEF Labels
    <3>2. until' = [until EXCEPT ![w] = 0] /\ UNCHANGED <<job, got, seen>>
      BY <2>7 DEF Answer
    <3> QED BY <1>0, <1>1, <3>1, <3>2 DEF IInv, Locals
  <2> QED BY <2>1, <2>2, <2>3, <2>4, <2>5, <2>6, <2>7
<1> QED BY <1>1, <1>2 DEF IInv, Rows, WebhookType, Rest, requestVars

-----------------------------------------------------------------------------
(* The drain, recording an outcome *)

\* Pausing writes the webhook only, and no generation.
LEMMA PauseStep ==
  ASSUME IInv, NEW w \in Worker, Pause(w)
  PROVE  IInv'
<1>1. WebhookType' /\ webhook'.gen = webhook.gen
  <2>1. seen[w].version + 1 \in Nat
    BY DEF IInv, Locals
  <2> QED BY <2>1 DEF Pause, IInv, WebhookType, requestVars
<1>2. Locals'
  BY <1>1, GotoLocals DEF Pause, IInv, Labels, FinishLabels
<1> QED BY <1>1, <1>2 DEF Pause, IInv, Rows, Rest, requestVars

\* A worker whose fence holds works on a leased row, hence a pending one.
LEMMA FenceMeansPending ==
  ASSUME IInv, NEW w \in Worker, pc[w] # "idle", Fenced(w)
  PROVE  /\ job[w] \in Delivery /\ delivery[job[w]].state = "pending"
         /\ delivery[job[w]].due = 0 /\ got[w].attempt >= 1
BY DEF IInv, Locals, Rows, RowInv, Fenced

\* A released row with a new state is well formed.
LEMMA ReleasedRow ==
  ASSUME NEW g \in Nat, NEW r, r \in RowType(g), r.due = 0, NEW s \in RowStates
  PROVE  /\ Released(r, s) \in RowType(g) /\ RowInv(Released(r, s))
         /\ Released(r, s).due = 0 /\ Released(r, s).token = NoToken
         /\ Released(r, s).ttl = 0 /\ Released(r, s).state = s
<1>1. 0 \in 0 .. Lease
  BY WebhookAssumption
<1> QED BY <1>1 DEF Released, RowType, RowInv

\* The row of a delivery that is not sent is well formed.
LEMMA UnsentRow ==
  ASSUME NEW g \in Nat, NEW r \in RowType(g), r.due = 0, NEW w \in Worker,
         got[w].attempt - 1 \in Nat
  PROVE  Unsent(r, w) \in RowType(g) /\ RowInv(Unsent(r, w))
<1> DEFINE skip == Released(r, "skipped_out_of_reach")
           skipped == [skip EXCEPT !.body = NoBody]
           cancelled == Released(r, "cancelled")
           kept == IF pc[w] = "skip" THEN skipped ELSE cancelled
<1>1. /\ skip \in RowType(g) /\ RowInv(skip) /\ skip.due = 0 /\ skip.token = NoToken
      /\ cancelled \in RowType(g) /\ RowInv(cancelled)
      /\ cancelled.due = 0 /\ cancelled.token = NoToken /\ cancelled.ttl = 0 /\ skip.ttl = 0
  BY ReleasedRow DEF RowStates, Finished
<1>2. NoBody \in 0 .. g
  BY DEF NoBody
<1> HIDE DEF skip, cancelled
<1>3. skipped \in RowType(g) /\ skipped.due = 0 /\ skipped.token = NoToken /\ skipped.ttl = 0
  BY <1>1, <1>2 DEF RowType
<1>4. kept \in RowType(g) /\ kept.due = 0 /\ kept.token = NoToken /\ kept.ttl = 0
  BY <1>1, <1>3
<1>5. Unsent(r, w) = [kept EXCEPT !.attempt = got[w].attempt - 1]
  BY DEF Unsent, skip, cancelled
<1> HIDE DEF kept
<1>6. Unsent(r, w) \in RowType(g)
  BY <1>4, <1>5 DEF RowType
<1>7. Unsent(r, w).due = 0 /\ Unsent(r, w).token = NoToken /\ Unsent(r, w).ttl = 0
  BY <1>4, <1>5 DEF RowType
<1> QED BY <1>6, <1>7 DEF RowInv

\* Finishing without a POST writes a leased row or nothing.
LEMMA FinishStep ==
  ASSUME IInv, NEW w \in Worker, FinishWithoutSend(w)
  PROVE  IInv'
<1>0. pc[w] # "idle" /\ webhook.gen \in Nat
  BY WebhookAssumption DEF FinishWithoutSend, FinishLabels, IInv, WebhookType
<1>1. Rows'
  <2>1. CASE ~ Fenced(w)
    BY <2>1 DEF FinishWithoutSend, IInv, Rows
  <2>2. CASE Fenced(w)
    <3>1. /\ job[w] \in Delivery /\ delivery[job[w]].due = 0
          /\ got[w].attempt - 1 \in Nat
      <4>1. /\ job[w] \in Delivery /\ delivery[job[w]].due = 0
            /\ got[w].attempt >= 1
        BY <1>0, <2>2, FenceMeansPending
      <4>2. got[w].attempt \in Nat
        BY DEF IInv, Locals
      <4> QED BY <4>1, <4>2, Lengths
    <3>2. delivery[job[w]] \in RowType(webhook.gen)
      BY <3>1 DEF IInv, Rows
    <3>3. /\ Unsent(delivery[job[w]], w) \in RowType(webhook.gen)
          /\ RowInv(Unsent(delivery[job[w]], w))
      BY <1>0, <3>1, <3>2, UnsentRow
    <3> QED BY <2>2, <3>1, <3>3, OneRow DEF FinishWithoutSend, IInv
  <2> QED BY <2>1, <2>2
<1>2. Locals'
  BY <1>0, ReturnLocals DEF FinishWithoutSend, IInv
<1> QED BY <1>1, <1>2 DEF FinishWithoutSend, IInv, WebhookType, Rest, requestVars

\* The row after an attempt, and its failure streak on the webhook.
LEMMA AttemptedRow ==
  ASSUME IInv, NEW w \in Worker, pc[w] \in {"succeeded", "failed"}, Fenced(w)
  PROVE  LET r == delivery[job[w]]
             new == [Attempted(r, w) EXCEPT !.body = got[w].body]
         IN  new \in RowType(webhook.gen) /\ RowInv(new)
<1> DEFINE r == delivery[job[w]]
           a == Attempted(r, w)
<1>1. /\ job[w] \in Delivery /\ r.due = 0 /\ got[w].attempt >= 1
      /\ webhook.gen \in Nat
  BY FenceMeansPending, WebhookAssumption DEF IInv, WebhookType
<1>2. r \in RowType(webhook.gen)
  BY <1>1 DEF IInv, Rows
<1>3. got[w].body \in 0 .. webhook.gen /\ got[w].attempt \in Nat
  BY DEF IInv, Locals
<1>4. a \in RowType(webhook.gen) /\ RowInv(a) /\ a.token = NoToken
  <2>1. CASE pc[w] = "succeeded"
    BY <1>1, <1>2, <2>1, ReleasedRow DEF Attempted, RowStates, Finished
  <2>2. CASE pc[w] = "failed" /\ got[w].attempt >= Limit
    BY <1>1, <1>2, <2>2, ReleasedRow DEF Attempted, RowStates, Finished
  <2>3. CASE pc[w] = "failed" /\ ~ (got[w].attempt >= Limit)
    <3> DEFINE rel == Released(r, "pending")
    <3> DEFINE due == Minus(RetryDelay[got[w].attempt], lag[w])
    <3>1. due \in Nat
      <4>1. RetryDelay[got[w].attempt] \in Nat
        BY <1>1, <1>3, <2>3, WebhookAssumption
      <4>2. lag[w] \in Nat
        BY Lengths DEF IInv, Locals
      <4> QED BY <4>1, <4>2 DEF Minus
    <3>2. /\ rel \in RowType(webhook.gen) /\ RowInv(rel)
          /\ rel.token = NoToken /\ rel.state = "pending"
      BY <1>1, <1>2, ReleasedRow DEF RowStates
    <3>3. a = [rel EXCEPT !.due = due]
      BY <2>3 DEF Attempted
    <3> HIDE DEF rel, a, due
    <3>4. a \in RowType(webhook.gen) /\ a.token = NoToken /\ a.state = "pending"
      BY <3>1, <3>2, <3>3 DEF RowType
    <3> QED BY <3>4 DEF RowInv, Finished
  <2> QED BY <2>1, <2>2, <2>3
<1> HIDE DEF a
<1>5. [a EXCEPT !.body = got[w].body] \in RowType(webhook.gen)
  BY <1>3, <1>4 DEF RowType
<1>6. RowInv([a EXCEPT !.body = got[w].body])
  BY <1>4 DEF RowInv, RowType
<1> QED BY <1>5, <1>6 DEF a

\* The failure streak keeps the webhook typed.
LEMMA StreakType ==
  ASSUME WebhookType, NEW success \in BOOLEAN, NEW late \in 0 .. MaxLag
  PROVE  LET after == AfterStreak(success, late)
         IN  /\ after.gen = webhook.gen
             /\ after \in [exists : BOOLEAN, active : BOOLEAN, owner : Person,
                  reason : {"none", "manual", "failing_24h", "owner_left", "event_removed"},
                  gen : 1 .. MaxEdits + 1, version : Nat, failing : BOOLEAN,
                  age : 0 .. DisableAfter + MaxLag]
<1>1. /\ {0, late} \subseteq 0 .. DisableAfter + MaxLag
      /\ webhook.version + 1 \in Nat
  BY Lengths DEF WebhookType
<1> QED BY <1>1 DEF AfterStreak, AfterFailure, WebhookType

\* Recording an attempt writes a leased row and the webhook, or nothing.
LEMMA RecordStep ==
  ASSUME IInv, NEW w \in Worker, Record(w)
  PROVE  IInv'
<1>0. pc[w] \in {"succeeded", "failed"} /\ webhook.gen \in Nat
  BY WebhookAssumption DEF Record, Results, IInv, WebhookType
<1>1. WebhookType' /\ webhook'.gen = webhook.gen
  <2>1. lag[w] \in 0 .. MaxLag
    BY DEF IInv, Locals
  <2>2. edits' = edits
    BY DEF Record, requestVars
  <2>3. webhook' = webhook \/ \E success \in BOOLEAN : webhook' = AfterStreak(success, lag[w])
    BY DEF Record
  <2>4. ASSUME NEW success \in BOOLEAN, webhook' = AfterStreak(success, lag[w])
        PROVE  WebhookType' /\ webhook'.gen = webhook.gen
    <3>1. WebhookType
      BY DEF IInv
    <3> QED BY <2>1, <2>2, <2>4, <3>1, StreakType DEF WebhookType
  <2> QED BY <2>2, <2>3, <2>4 DEF IInv, WebhookType
<1>2. Rows'
  <2>1. CASE ~ Fenced(w)
    BY <1>1, <2>1 DEF Record, IInv, Rows
  <2>2. CASE Fenced(w)
    BY <1>0, <1>1, <2>2, AttemptedRow, FenceMeansPending, OneRow DEF Record, IInv
  <2> QED BY <2>1, <2>2
<1>3. Locals'
  BY <1>0, <1>1, ReturnLocals DEF Record, IInv
<1>4. Rest'
  BY <1>0, <1>1, Lengths DEF Record, IInv, Rest, requestVars
<1> QED BY <1>1, <1>2, <1>3, <1>4 DEF IInv

-----------------------------------------------------------------------------
(* Requests and the rest of the system *)

\* A row typed for one generation is typed for a later one.
LEMMA LaterGeneration ==
  ASSUME NEW g \in Nat, NEW h \in Nat, g <= h
  PROVE  RowType(g) \subseteq RowType(h) /\ 0 .. g \subseteq 0 .. h
<1>1. 0 .. g \subseteq 0 .. h
  OBVIOUS
<1> QED BY <1>1 DEF RowType

\* An edit that has begun, or ends without having been committed.
EditWaits == (\E owner \in Person : BeginUpdate(owner)) \/ RollBackUpdate

\* It writes nothing that anyone else sees.
LEMMA WaitsUnseen ==
  ASSUME EditWaits
  PROVE  UNCHANGED <<delivery, webhook, calm, staff, request, crossed, edits, workerVars, crashes>>
BY DEF EditWaits, BeginUpdate, RollBackUpdate

\* Nor does it lose its type.
LEMMA WaitsStep ==
  ASSUME IInv, EditWaits
  PROVE  IInv'
<1>1. editing' \in [open : BOOLEAN, owner : Person, young : SUBSET Delivery]
  <2>1. CASE RollBackUpdate
    BY <2>1, WebhookAssumption DEF RollBackUpdate, NoEdit
  <2>2. ASSUME NEW owner \in Person, NEW behind \in 0 .. Skew,
               editing' = [open |-> TRUE, owner |-> owner, young |-> CreatedWithin(behind)]
        PROVE  editing' \in [open : BOOLEAN, owner : Person, young : SUBSET Delivery]
    <3>1. CreatedWithin(behind) \in SUBSET Delivery
      BY DEF CreatedWithin
    <3> QED BY <2>2, <3>1
  <2> QED BY <2>1, <2>2 DEF EditWaits, BeginUpdate
<1>2. editing'.open => edits < MaxEdits
  BY DEF EditWaits, BeginUpdate, RollBackUpdate, NoEdit
<1> QED BY <1>1, <1>2, WaitsUnseen DEF IInv, Rows, WebhookType, Locals, Rest, workerVars

\* A committed edit dates the rows and may start a generation.
LEMMA CommitStep ==
  ASSUME IInv, NEW newUrl \in BOOLEAN, NEW act \in {"on", "off", "keep"},
         CommitUpdate(newUrl, act)
  PROVE  IInv'
<1> DEFINE owner == editing.owner
           moved == newUrl \/ owner # webhook.owner
<1>0. /\ webhook.gen \in Nat /\ edits + 1 \in 0 .. MaxEdits
      /\ webhook.version + 1 \in Nat /\ 0 \in 0 .. DisableAfter + MaxLag
      /\ edits < MaxEdits
  <2>1. edits < MaxEdits
    BY DEF CommitUpdate, IInv, Rest
  <2> QED BY <2>1, Counters, Lengths
<1>1. /\ webhook'.gen = IF moved THEN webhook.gen + 1 ELSE webhook.gen
      /\ webhook' \in [exists : BOOLEAN, active : BOOLEAN, owner : Person,
                  reason : {"none", "manual", "failing_24h", "owner_left", "event_removed"},
                  gen : Nat, version : Nat, failing : BOOLEAN,
                  age : 0 .. DisableAfter + MaxLag]
  <2> DEFINE fresh == FreshWindow(newUrl, act)
             gen == IF moved THEN webhook.gen + 1 ELSE webhook.gen
             failing == webhook.failing /\ ~ fresh
             age == IF fresh THEN 0 ELSE webhook.age
             active == act = "on" \/ (webhook.active /\ act = "keep")
             reason == CASE act = "on" -> "none" [] act = "off" -> "manual"
                         [] OTHER -> webhook.reason
  <2>1. webhook' = [webhook EXCEPT !.owner = owner, !.version = webhook.version + 1,
                      !.gen = gen, !.failing = failing, !.age = age, !.active = active,
                      !.reason = reason]
    BY DEF CommitUpdate
  <2>2. gen \in Nat /\ age \in 0 .. DisableAfter + MaxLag
    BY <1>0 DEF IInv, WebhookType
  <2>3. failing \in BOOLEAN /\ active \in BOOLEAN
    OBVIOUS
  <2>4. reason \in {"none", "manual", "failing_24h", "owner_left", "event_removed"}
    <3>1. webhook.reason \in {"none", "manual", "failing_24h", "owner_left", "event_removed"}
      BY DEF IInv, WebhookType
    <3> QED BY <3>1
  <2>5. owner \in Person
    BY DEF IInv, Rest
  <2> HIDE DEF gen, failing, age, active, reason, owner
  <2>6. /\ webhook'.gen = gen
        /\ webhook' \in [exists : BOOLEAN, active : BOOLEAN, owner : Person,
                  reason : {"none", "manual", "failing_24h", "owner_left", "event_removed"},
                  gen : Nat, version : Nat, failing : BOOLEAN,
                  age : 0 .. DisableAfter + MaxLag]
    BY <1>0, <2>1, <2>2, <2>3, <2>4, <2>5 DEF IInv, WebhookType
  <2> QED BY <2>6 DEF gen
<1>2. webhook.gen <= webhook'.gen /\ webhook'.gen \in Nat /\ webhook'.gen <= webhook.gen + 1
  BY <1>0, <1>1
<1>3. WebhookType'
  <2>1. /\ webhook.gen <= edits + 1 /\ 1 <= webhook.gen
        /\ edits \in Nat /\ MaxEdits \in Nat /\ edits < MaxEdits /\ edits' = edits + 1
    BY <1>0, Counters, Lengths DEF CommitUpdate
  <2>2. webhook'.gen \in 1 .. MaxEdits + 1 /\ webhook'.gen <= edits' + 1
    BY <1>0, <1>2, <2>1
  <2> QED BY <1>0, <1>1, <2>1, <2>2 DEF WebhookType
<1>4. \A d \in Delivery :
        /\ delivery'[d] \in RowType(webhook.gen) /\ RowInv(delivery'[d])
        /\ delivery' = [e \in Delivery |-> delivery'[e]]
  <2>1. CASE moved
    <3>1. delivery' = Dated
      BY <2>1 DEF CommitUpdate
    <3>2. ASSUME NEW d \in Delivery
          PROVE  delivery'[d] \in RowType(webhook.gen) /\ RowInv(delivery'[d])
      <4> DEFINE r == delivery[d]
                 older == delivery[d].state # "none" /\ d \notin editing.young
      <4>1. /\ r \in RowType(webhook.gen) /\ RowInv(r) /\ older \in BOOLEAN
            /\ delivery'[d] = [r EXCEPT !.older = older]
        BY <3>1 DEF IInv, Rows, Dated
      <4> HIDE DEF r, older
      <4>2. delivery'[d] \in RowType(webhook.gen)
        BY <4>1 DEF RowType
      <4>3. RowInv(delivery'[d])
        BY <4>1 DEF RowType, RowInv
      <4> QED BY <4>2, <4>3
    <3> QED BY <3>1, <3>2 DEF Dated
  <2>2. CASE ~ moved
    BY <2>2 DEF CommitUpdate, IInv, Rows
  <2> QED BY <2>1, <2>2
<1>5. Rows'
  <2>1. \A d \in Delivery : delivery'[d] \in RowType(webhook'.gen)
    BY <1>0, <1>2, <1>4, LaterGeneration
  <2> QED BY <1>4, <2>1 DEF Rows, IInv, CommitUpdate, Dated
<1>6. 0 .. webhook.gen \subseteq 0 .. webhook'.gen
  BY <1>0, <1>2
<1>7. Locals'
  BY <1>6 DEF CommitUpdate, workerVars, IInv, Locals
<1>8. Rest'
  <2>1. /\ request' = request /\ staff' = staff /\ editing' = NoEdit
        /\ calm' = calm \/ calm' = 0
    BY DEF CommitUpdate
  <2>2. NoEdit \in [open : BOOLEAN, owner : Person, young : SUBSET Delivery] /\ ~ NoEdit.open
    BY WebhookAssumption DEF NoEdit
  <2>3. calm' \in 0 .. DisableAfter - MaxLag
    <3>1. calm \in 0 .. DisableAfter - MaxLag /\ 0 \in 0 .. DisableAfter - MaxLag
      BY Lengths DEF IInv, Rest
    <3> QED BY <2>1, <3>1
  <2>4. request' \in [from : Delivery \cup {NoDelivery}, body : 0 .. webhook'.gen,
                      gen : 0 .. webhook'.gen]
    BY <1>6, <2>1 DEF IInv, Rest
  <2> QED BY <2>1, <2>2, <2>3, <2>4 DEF IInv, Rest
<1> QED BY <1>3, <1>5, <1>7, <1>8 DEF IInv

\* A row that is gone is well formed.
LEMMA GoneRow ==
  ASSUME IInv, NEW d \in Delivery
  PROVE  Gone(d) \in RowType(webhook.gen) /\ RowInv(Gone(d))
<1>1. delivery[d].older \in BOOLEAN /\ delivery[d].age \in 0 .. Skew /\ webhook.gen \in Nat
  BY Counters DEF IInv, Rows, RowType
<1>2. 0 \in 0 .. Lease /\ 0 \in 0 .. webhook.gen /\ 0 \in 0 .. Skew
  BY <1>1, Lengths
<1>3. NoRow \in RowType(webhook.gen) /\ NoRow.token = NoToken
  BY <1>2 DEF NoRow, NoBody, RowType, RowStates
<1>4. Gone(d) = [NoRow EXCEPT !.state = "gone", !.older = delivery[d].older,
                              !.age = delivery[d].age]
  BY DEF Gone
<1> QED BY <1>1, <1>3, <1>4 DEF RowType, RowInv, RowStates, Finished

\* A removed event kind pauses the webhook, a deletion takes all its rows.
LEMMA RemovalSteps ==
  ASSUME IInv, DisableRemovedEvent \/ Delete
  PROVE  IInv'
<1>0. webhook.version + 1 \in Nat /\ webhook.gen \in Nat
  BY WebhookAssumption DEF IInv, WebhookType
<1>1. webhook'.gen = webhook.gen /\ WebhookType'
  <2>1. CASE DisableRemovedEvent
    <3>1. /\ webhook' = [webhook EXCEPT !.active = FALSE, !.reason = "event_removed",
                                       !.version = webhook.version + 1]
          /\ edits < MaxEdits /\ edits' = edits + 1
      BY <2>1 DEF DisableRemovedEvent
    <3>2. edits' \in 0 .. MaxEdits /\ webhook.gen <= edits' + 1
      BY <3>1, Counters, Lengths
    <3> QED BY <1>0, <3>1, <3>2 DEF IInv, WebhookType
  <2>2. CASE Delete
    <3>1. /\ webhook' = [webhook EXCEPT !.exists = FALSE, !.failing = FALSE, !.age = 0]
          /\ edits < MaxEdits /\ edits' = edits + 1
      BY <2>2 DEF Delete
    <3>2. edits' \in 0 .. MaxEdits /\ webhook.gen <= edits' + 1
      BY <3>1, Counters, Lengths
    <3>3. 0 \in 0 .. DisableAfter + MaxLag
      BY Lengths
    <3> QED BY <3>1, <3>2, <3>3 DEF IInv, WebhookType
  <2> QED BY <2>1, <2>2
<1>2. Rows'
  <2>1. CASE DisableRemovedEvent
    BY <1>1, <2>1 DEF DisableRemovedEvent, IInv, Rows
  <2>2. CASE Delete
    <3>1. delivery' = [e \in Delivery |-> Gone(e)]
      BY <2>2 DEF Delete
    <3> QED BY <1>1, <3>1, GoneRow DEF Rows
  <2> QED BY <2>1, <2>2
<1>3. Rest'
  BY <1>1 DEF DisableRemovedEvent, Delete, Unlocked, IInv, Rest
<1> QED BY <1>1, <1>2, <1>3 DEF DisableRemovedEvent, Delete, workerVars, IInv, Locals

\* Retention removes one finished row.
LEMMA PurgeStep ==
  ASSUME IInv, NEW d \in Delivery, Purge(d)
  PROVE  IInv'
<1>1. Rows'
  BY GoneRow, OneRow DEF Purge, IInv
<1> QED BY <1>1 DEF Purge, workerVars, requestVars, IInv, WebhookType, Locals, Rest

\* Time only lowers what is left of a lease or a delay.
LEMMA TickStep ==
  ASSUME IInv, Tick
  PROVE  IInv'
<1>1. \A n \in Nat : Less(n) \in Nat /\ Less(n) <= n
  BY DEF Less
<1>2. \A m \in Nat : \A n \in 0 .. m : More(n, m) \in 0 .. m
  BY DEF More
<1>3. WebhookType' /\ webhook'.gen = webhook.gen
  <2>1. More(webhook.age, DisableAfter + MaxLag) \in 0 .. DisableAfter + MaxLag
    <3>1. DisableAfter + MaxLag \in Nat
      BY Lengths
    <3> QED BY <1>2, <3>1, Counters
  <2> QED BY <2>1 DEF Tick, IInv, WebhookType, requestVars
<1>4. Rows'
  <2>1. ASSUME NEW d \in Delivery
        PROVE  /\ delivery'[d] \in RowType(webhook.gen) /\ RowInv(delivery'[d])
    <3> DEFINE r == delivery[d]
               age == IF r.state = "none" THEN r.age ELSE More(r.age, Skew)
    <3>1. r \in RowType(webhook.gen) /\ RowInv(r)
      BY DEF IInv, Rows
    <3>2. Less(r.due) \in Nat /\ Less(r.ttl) \in 0 .. Lease
      <4>1. r.due \in Nat /\ r.ttl \in 0 .. Lease /\ Lease \in Nat
        BY <3>1, WebhookAssumption DEF RowType
      <4> HIDE DEF r
      <4> QED BY <4>1 DEF Less
    <3>3. (r.due = 0 => Less(r.due) = 0) /\ (r.ttl = 0 => Less(r.ttl) = 0)
      BY DEF Less
    <3>4. age \in 0 .. Skew
      <4>1. r.age \in 0 .. Skew
        BY <3>1 DEF RowType
      <4> HIDE DEF r
      <4> QED BY <1>2, <4>1, Lengths DEF r
    <3>5. delivery'[d] = [r EXCEPT !.due = Less(r.due), !.ttl = Less(r.ttl), !.age = age]
      BY DEF Tick, Older
    <3> HIDE DEF r, age
    <3> QED BY <3>1, <3>2, <3>3, <3>4, <3>5 DEF RowType, RowInv
  <2> QED BY <1>3, <2>1 DEF Tick, Rows
<1>5. Locals'
  <2>1. lag' \in [Worker -> 0 .. MaxLag]
    <3>1. \A w \in Worker : lag[w] \in 0 .. MaxLag /\ (pc[w] \in Results => lag[w] < MaxLag)
      BY DEF Tick, IInv, Locals
    <3>2. \A w \in Worker : pc[w] \in Results => lag[w] + 1 \in 0 .. MaxLag
      BY <3>1, Lengths
    <3> QED BY <3>1, <3>2 DEF Tick
  <2> QED BY <1>1, <1>3, <2>1 DEF Tick, IInv, Locals
<1>6. Rest'
  <2>1. More(calm, DisableAfter - MaxLag) \in 0 .. DisableAfter - MaxLag
    <3>1. DisableAfter - MaxLag \in Nat
      BY Lengths
    <3> QED BY <1>2, <3>1 DEF IInv, Rest
  <2> QED BY <1>3, <2>1 DEF Tick, IInv, Rest, requestVars
<1> QED BY <1>3, <1>4, <1>5, <1>6 DEF IInv

\* The invariant is inductive.
LEMMA NextIInv == IInv /\ [Next]_vars => IInv'
<1> SUFFICES ASSUME IInv, [Next]_vars PROVE IInv'
  OBVIOUS
<1>1. ASSUME NEW w \in Worker, Step(w) PROVE IInv'
  BY <1>1, ClaimStep, ReadingSteps, PauseStep, FinishStep, RecordStep DEF Step
<1>2. ASSUME NEW w \in Worker, Crash(w) PROVE IInv'
  <2>1. webhook.gen \in Nat /\ webhook' = webhook
    BY <1>2, WebhookAssumption DEF Crash, IInv, WebhookType
  <2>2. Locals'
    BY <1>2, <2>1, ReturnLocals DEF Crash, IInv
  <2> QED BY <1>2, <2>2 DEF Crash, IInv, Rows, WebhookType, Rest, requestVars
<1>3. ASSUME NEW p \in Leavers, Leave(p) PROVE IInv'
  BY <1>3 DEF Leave, workerVars, requestVars, IInv, Rows, WebhookType, Locals, Rest
<1>4. CASE EditWaits
  BY <1>4, WaitsStep
<1>5. CASE UNCHANGED vars
  BY <1>5 DEF vars, workerVars, requestVars, IInv, Rows, WebhookType, Locals, Rest
<1> QED BY <1>1, <1>2, <1>3, <1>4, <1>5, QueueSteps, CommitStep, RemovalSteps, PurgeStep, TickStep
        DEF Next, EndUpdate, EditWaits

-----------------------------------------------------------------------------
(* Type correctness and finality *)

\* Hence the invariant holds throughout.
LEMMA Invariance == Spec => []IInv
BY InitIInv, NextIInv, PTL DEF Spec

\* The type invariant of the run: rows, the webhook and workers keep their
\* types, and only a pending row is leased (claimDelivery, finishWithoutSend,
\* recordAttempt).
THEOREM TypeCorrect == Spec => []TypeOK
BY Invariance, IInvType, PTL

\* What may become of a finished row.
Kept(d) ==
  \/ delivery'[d].state = "gone"
  \/ delivery'[d] = [delivery[d] EXCEPT !.older = delivery'[d].older, !.age = delivery'[d].age]

\* A row left alone is kept.
LEMMA SameRow ==
  ASSUME IInv, NEW d \in Delivery, delivery'[d] = delivery[d]
  PROVE  Kept(d)
BY DEF IInv, Rows, RowType, Kept

\* A step of a worker writes leased rows only, so no finished one.
LEMMA WorkerKeeps ==
  ASSUME IInv, NEW w \in Worker, Step(w), NEW d \in Delivery, delivery[d].state \in Finished
  PROVE  delivery'[d] = delivery[d]
<1>1. ASSUME NEW e \in Delivery, Claim(w, e) PROVE delivery'[d] = delivery[d]
  <2>1. d # e
    BY <1>1 DEF Claim, Claimable, Finished
  <2> QED BY <1>1, <2>1 DEF Claim, IInv, Rows
<1>2. CASE FinishWithoutSend(w)
  <2>1. Fenced(w) => d # job[w] /\ job[w] \in Delivery
    BY <1>2, FenceMeansPending DEF FinishWithoutSend, FinishLabels, Finished
  <2> QED BY <1>2, <2>1 DEF FinishWithoutSend, IInv, Rows
<1>3. CASE Record(w)
  <2>1. Fenced(w) => d # job[w] /\ job[w] \in Delivery
    BY <1>3, FenceMeansPending DEF Record, Results, Finished
  <2> QED BY <1>3, <2>1 DEF Record, IInv, Rows
<1> QED BY <1>1, <1>2, <1>3 DEF Step, ReadDelivery, ReadWebhook, NothingToSend, OwnerGone,
        OutOfReach, Send, Pause, Answer

\* No step at all makes more of a finished row than an older or a removed one.
LEMMA FinishedKept ==
  ASSUME IInv, [Next]_vars, NEW d \in Delivery, delivery[d].state \in Finished
  PROVE  Kept(d)
<1>0. delivery[d] \in RowType(webhook.gen) /\ RowInv(delivery[d])
  BY DEF IInv, Rows
<1>1. ASSUME NEW w \in Worker, Step(w) \/ Crash(w) PROVE Kept(d)
  BY <1>1, WorkerKeeps, SameRow DEF Crash
<1>2. ASSUME NEW e \in Delivery,
             EnqueueEvent(e) \/ EnqueueTest(e) \/ CheckRedelivery(e) \/ EnqueueRedelivery(e)
      PROVE  Kept(d)
  <2>1. delivery'[d] = delivery[d]
    BY <1>2 DEF EnqueueEvent, EnqueueTest, CheckRedelivery, EnqueueRedelivery, Finished,
       IInv, Rows
  <2> QED BY <2>1, SameRow
<1>3. ASSUME NEW e \in Delivery, Purge(e) PROVE Kept(d)
  <2>1. CASE e = d
    <3>1. delivery'[d] = Gone(d)
      BY <1>3, <2>1 DEF Purge, IInv, Rows
    <3> QED BY <3>1 DEF Gone, NoRow, Kept
  <2>2. CASE e # d
    BY <1>3, <2>2, SameRow DEF Purge, IInv, Rows
  <2> QED BY <2>1, <2>2
<1>4. ASSUME NEW newUrl \in BOOLEAN, NEW act \in {"on", "off", "keep"}, CommitUpdate(newUrl, act)
      PROVE  Kept(d)
  <2>1. CASE delivery' = delivery
    BY <2>1, SameRow
  <2>2. CASE delivery' = Dated
    <3>1. PICK older \in BOOLEAN : delivery'[d] = [delivery[d] EXCEPT !.older = older]
      BY <2>2 DEF Dated
    <3> QED BY <1>0, <3>1 DEF Kept, RowType
  <2> QED BY <1>4, <2>1, <2>2 DEF CommitUpdate
<1>5. CASE Delete
  <2>1. delivery'[d] = Gone(d)
    BY <1>5 DEF Delete
  <2> QED BY <2>1 DEF Gone, NoRow, Kept
<1>6. CASE Tick
  <2> DEFINE r == delivery[d]
  <2>1. r \in RowType(webhook.gen) /\ r.due = 0 /\ r.ttl = 0
    BY <1>0 DEF RowInv
  <2>2. PICK age : delivery'[d] = [r EXCEPT !.due = 0, !.ttl = 0, !.age = age]
    BY <1>6, <2>1 DEF Tick, Older, Less
  <2> HIDE DEF r
  <2>3. delivery'[d] = [r EXCEPT !.older = delivery'[d].older, !.age = delivery'[d].age]
    BY <2>1, <2>2 DEF RowType
  <2> QED BY <2>3 DEF Kept, r
<1>7. CASE DisableRemovedEvent \/ (\E p \in Leavers : Leave(p)) \/ EditWaits \/ UNCHANGED vars
  BY <1>7, SameRow, WaitsUnseen DEF DisableRemovedEvent, Leave, vars
<1> QED BY <1>1, <1>2, <1>3, <1>4, <1>5, <1>6, <1>7 DEF Next, EndUpdate, EditWaits

\* An outcome, once recorded, is never overwritten, whatever worker comes back
\* late: the fence of finishWithoutSend and recordAttempt, for any number of
\* deliveries, workers and edits, and without an assumption on timing.
THEOREM Finality == Spec => OutcomeIsFinal
<1>1. IInv /\ [Next]_vars =>
        [\A d \in Delivery :
           delivery[d].state \in Finished =>
             \/ delivery'[d].state = "gone"
             \/ delivery'[d] = [delivery[d] EXCEPT !.older = delivery'[d].older,
                                                   !.age = delivery'[d].age]]_vars
  BY FinishedKept DEF Kept
<1> QED BY <1>1, Invariance, PTL DEF Spec, OutcomeIsFinal

-----------------------------------------------------------------------------
(* One POST of a delivery at a time, when a drain is prompt *)

BeforePost == {"claimed", "read", "checked"}

\* The row of a delivery in work is gone, or its lease is alive: whole before
\* the POST, and longer than what is left of the POST during it.
Leased(w) ==
  LET r == delivery[job[w]]
  IN  \/ r.state = "gone"
      \/ /\ r.ttl > 0
         /\ pc[w] \in BeforePost => r.ttl = Lease
         /\ pc[w] = "sending" => r.ttl > until[w]

Exclusive ==
  /\ \A w \in Worker : pc[w] # "idle" => Leased(w)
  /\ \A v, w \in Worker : v # w /\ pc[v] # "idle" /\ pc[w] # "idle" => job[v] # job[w]

\* The row is gone, or its lease has as long to go as before.
TtlKept(d) ==
  \/ delivery'[d].state = "gone"
  \/ delivery[d].state # "gone" /\ delivery'[d].ttl = delivery[d].ttl

\* A worker whose position and row are left alone stays leased.
LEMMA StaysLeased ==
  ASSUME IInv, NEW w \in Worker, pc[w] # "idle", Leased(w), TtlKept(job[w]),
         pc'[w] = pc[w], job'[w] = job[w], until'[w] = until[w]
  PROVE  Leased(w)'
BY DEF Leased, TtlKept

\* A row left alone keeps its lease.
LEMMA SameRowTtl ==
  ASSUME NEW d, delivery'[d] = delivery[d]
  PROVE  TtlKept(d)
BY DEF TtlKept

\* Steps that leave the workers alone.
LEMMA OutsideSteps ==
  ASSUME IInv, Exclusive, UNCHANGED workerVars, \A d \in Delivery : TtlKept(d)
  PROVE  Exclusive'
<1>1. ASSUME NEW w \in Worker, pc[w] # "idle" PROVE Leased(w)'
  BY <1>1, StaysLeased DEF IInv, Locals, Exclusive, workerVars
<1> QED BY <1>1 DEF Exclusive, workerVars

\* Steps of one worker that write at most the row it works on, and by which it
\* goes on with that row or returns.
LEMMA InsideSteps ==
  ASSUME IInv, Exclusive, NEW w \in Worker, pc[w] # "idle",
         \A v \in Worker \ {w} : pc'[v] = pc[v] /\ job'[v] = job[v] /\ until'[v] = until[v],
         \A d \in Delivery \ {job[w]} : delivery'[d] = delivery[d],
         pc'[w] = "idle" \/ (job'[w] = job[w] /\ Leased(w)')
  PROVE  Exclusive'
<1>1. ASSUME NEW v \in Worker, v # w, pc[v] # "idle" PROVE Leased(v)'
  <2>1. job[v] \in Delivery /\ job[v] # job[w] /\ Leased(v)
    BY <1>1 DEF IInv, Locals, Exclusive
  <2>2. TtlKept(job[v])
    BY <2>1, SameRowTtl
  <2> QED BY <1>1, <2>1, <2>2, StaysLeased
<1> QED BY <1>1 DEF Exclusive

\* A claim needs an expired lease, so nobody works on the row it takes.
LEMMA ClaimExclusive ==
  ASSUME IInv, Exclusive, NEW w \in Worker, NEW d \in Delivery, Claim(w, d)
  PROVE  Exclusive'
<1>1. \A v \in Worker : pc[v] # "idle" => job[v] \in Delivery /\ job[v] # d
  <2>1. delivery[d].state = "pending" /\ delivery[d].ttl = 0
    BY DEF Claim, Claimable
  <2>2. \A v \in Worker : pc[v] # "idle" => job[v] \in Delivery /\ Leased(v)
    BY DEF IInv, Locals, Exclusive
  <2>3. \A v \in Worker :
          pc[v] # "idle" => delivery[job[v]].state = "gone" \/ delivery[job[v]].ttl > 0
    BY <2>2 DEF Leased
  <2> QED BY <2>1, <2>2, <2>3
<1>2. \A e \in Delivery \ {d} : delivery'[e] = delivery[e]
  BY DEF Claim, IInv, Rows
<1>3. delivery'[d].ttl = Lease
  BY DEF Claim, IInv, Rows, RowType
<1>4. ASSUME NEW v \in Worker, v # w
      PROVE  pc'[v] = pc[v] /\ job'[v] = job[v] /\ until'[v] = until[v]
  BY <1>4 DEF Claim, IInv, Locals
<1>5. pc'[w] = "claimed" /\ job'[w] = d
  BY DEF Claim, IInv, Locals
<1>6. Leased(w)'
  BY <1>3, <1>5, WebhookAssumption DEF Leased
<1>7. ASSUME NEW v \in Worker, v # w, pc[v] # "idle" PROVE Leased(v)'
  BY <1>1, <1>2, <1>4, <1>7, SameRowTtl, StaysLeased DEF Exclusive
<1> QED BY <1>1, <1>4, <1>5, <1>6, <1>7 DEF Exclusive

\* A worker goes on under its lease, which is longer than the POST it starts.
LEMMA DrainExclusive ==
  ASSUME Timeout < Lease, IInv, Exclusive, NEW w \in Worker,
         \/ ReadDelivery(w) \/ ReadWebhook(w) \/ NothingToSend(w) \/ OwnerGone(w)
         \/ OutOfReach(w) \/ Send(w) \/ Answer(w) \/ Pause(w)
         \/ FinishWithoutSend(w) \/ Record(w) \/ Crash(w)
  PROVE  Exclusive'
<1>1. pc[w] # "idle" /\ job[w] \in Delivery /\ Leased(w)
  BY DEF ReadDelivery, ReadWebhook, NothingToSend, OwnerGone, OutOfReach, Send, Answer, Pause,
     FinishWithoutSend, FinishLabels, Record, Results, Crash, IInv, Locals, Exclusive
<1>2. \A v \in Worker \ {w} : pc'[v] = pc[v] /\ job'[v] = job[v] /\ until'[v] = until[v]
  BY DEF ReadDelivery, ReadWebhook, NothingToSend, OwnerGone, OutOfReach, Send, Answer, Pause,
     FinishWithoutSend, Record, Crash, Return, Goto, IInv, Locals
<1>3. \A d \in Delivery \ {job[w]} : delivery'[d] = delivery[d]
  BY DEF ReadDelivery, ReadWebhook, NothingToSend, OwnerGone, OutOfReach, Send, Answer, Pause,
     FinishWithoutSend, Record, Crash, IInv, Rows
<1>4. pc'[w] = "idle" \/ (job'[w] = job[w] /\ Leased(w)')
  <2>1. CASE FinishWithoutSend(w) \/ Record(w) \/ Crash(w)
    <3>1. Return(w)
      BY <2>1 DEF FinishWithoutSend, Record, Crash
    <3>2. pc'[w] = "idle"
      BY <3>1 DEF Return, IInv, Locals
    <3> QED BY <3>2
  <2>2. CASE ReadDelivery(w)
    <3>1. CASE Return(w)
      <4>1. pc'[w] = "idle"
        BY <3>1 DEF Return, IInv, Locals
      <4> QED BY <4>1
    <3>2. CASE ~ Return(w)
      <4>1. /\ pc' = [pc EXCEPT ![w] = "read"] /\ UNCHANGED <<job, until, delivery>>
            /\ pc[w] = "claimed"
        BY <2>2, <3>2 DEF ReadDelivery
      <4> QED BY <1>1, <4>1 DEF IInv, Locals, Leased, BeforePost
    <3> QED BY <3>1, <3>2
  <2>3. CASE ReadWebhook(w)
    BY <1>1, <2>3 DEF ReadWebhook, Goto, IInv, Locals, Leased, BeforePost
  <2>4. CASE NothingToSend(w) \/ OwnerGone(w) \/ OutOfReach(w)
    BY <1>1, <2>4 DEF NothingToSend, OwnerGone, OutOfReach, Goto, IInv, Locals, Leased,
       BeforePost
  <2>5. CASE Send(w)
    BY <1>1, <2>5, WebhookAssumption DEF Send, IInv, Locals, Leased, BeforePost
  <2>6. CASE Answer(w)
    BY <1>1, <2>6 DEF Answer, IInv, Locals, Leased, BeforePost
  <2>7. CASE Pause(w)
    BY <1>1, <2>7 DEF Pause, Goto, IInv, Locals, Leased, BeforePost
  <2> QED BY <2>1, <2>2, <2>3, <2>4, <2>5, <2>6, <2>7
<1> QED BY <1>1, <1>2, <1>3, <1>4, InsideSteps

\* Time passes only during a POST, and takes as much of the lease as of it.
LEMMA TickExclusive ==
  ASSUME Prompt, IInv, Exclusive, Tick
  PROVE  Exclusive'
<1>1. ASSUME NEW w \in Worker, pc[w] # "idle" PROVE Leased(w)'
  <2>1. pc[w] = "sending" /\ until[w] > 0 /\ until[w] \in Nat /\ job[w] \in Delivery
    BY <1>1 DEF Tick, Responsive, IInv, Locals
  <2>2. pc'[w] = pc[w] /\ job'[w] = job[w] /\ until'[w] = until[w] - 1
    <3>1. until' = [v \in Worker |-> Less(until[v])] /\ UNCHANGED <<pc, job>>
      BY DEF Tick
    <3> QED BY <2>1, <3>1 DEF Less
  <2> DEFINE r == delivery[job[w]]
  <2>3. r \in RowType(webhook.gen) /\ r.ttl \in Nat
    BY <2>1, WebhookAssumption DEF IInv, Rows, RowType
  <2>4. PICK age :
          delivery'[job[w]] = [r EXCEPT !.due = Less(r.due), !.ttl = Less(r.ttl), !.age = age]
    BY <2>1 DEF Tick, Older
  <2>5. delivery'[job[w]].state = r.state /\ delivery'[job[w]].ttl = Less(r.ttl)
    BY <2>3, <2>4 DEF RowType
  <2>6. r.state = "gone" \/ r.ttl > until[w]
    BY <1>1, <2>1 DEF Exclusive, Leased
  <2> QED BY <2>1, <2>2, <2>3, <2>5, <2>6 DEF Leased, Less, BeforePost
<1> QED BY <1>1 DEF Exclusive, Tick

\* No step lets two workers into one delivery.
LEMMA NextExclusive ==
  Prompt /\ Timeout < Lease /\ IInv /\ Exclusive /\ [Next]_vars => Exclusive'
<1> SUFFICES ASSUME Prompt, Timeout < Lease, IInv, Exclusive, [Next]_vars PROVE Exclusive'
  OBVIOUS
<1>1. ASSUME NEW w \in Worker, Step(w) \/ Crash(w) PROVE Exclusive'
  BY <1>1, ClaimExclusive, DrainExclusive DEF Step
<1>2. ASSUME NEW e \in Delivery,
             \/ EnqueueEvent(e) \/ EnqueueTest(e) \/ CheckRedelivery(e)
             \/ EnqueueRedelivery(e) \/ Purge(e)
      PROVE  Exclusive'
  <2>1. ASSUME NEW d \in Delivery PROVE TtlKept(d)
    <3>1. CASE d # e
      <4>1. delivery'[d] = delivery[d]
        BY <1>2, <3>1 DEF EnqueueEvent, EnqueueTest, CheckRedelivery, EnqueueRedelivery,
           Purge, IInv, Rows
      <4> QED BY <4>1, SameRowTtl
    <3>2. CASE d = e /\ Purge(e)
      BY <3>2 DEF Purge, Gone, NoRow, TtlKept, IInv, Rows
    <3>3. CASE d = e /\ CheckRedelivery(e)
      BY <3>3, SameRowTtl DEF CheckRedelivery
    <3>4. CASE d = e /\ (EnqueueEvent(e) \/ EnqueueTest(e) \/ EnqueueRedelivery(e))
      <4> DEFINE r == delivery[d]
      <4>1. r \in RowType(webhook.gen) /\ r.state = "none"
        BY <3>4 DEF EnqueueEvent, EnqueueTest, EnqueueRedelivery, IInv, Rows
      <4>2. delivery'[d].ttl = r.ttl
        BY <3>4, <4>1, QueuedRow
      <4> QED BY <4>1, <4>2 DEF TtlKept
    <3> QED BY <1>2, <3>1, <3>2, <3>3, <3>4
  <2> QED BY <1>2, <2>1, OutsideSteps DEF EnqueueEvent, EnqueueTest, CheckRedelivery,
          EnqueueRedelivery, Purge
<1>3. ASSUME NEW newUrl \in BOOLEAN, NEW act \in {"on", "off", "keep"}, CommitUpdate(newUrl, act)
      PROVE  Exclusive'
  <2>1. ASSUME NEW d \in Delivery PROVE TtlKept(d)
    <3>1. CASE delivery' = delivery
      BY <3>1, SameRowTtl
    <3>2. CASE delivery' = Dated
      BY <3>2 DEF Dated, TtlKept, IInv, Rows, RowType
    <3> QED BY <1>3, <3>1, <3>2 DEF CommitUpdate
  <2> QED BY <1>3, <2>1, OutsideSteps DEF CommitUpdate
<1>4. CASE Delete
  <2>1. ASSUME NEW d \in Delivery PROVE TtlKept(d)
    BY <1>4 DEF Delete, Gone, NoRow, TtlKept
  <2> QED BY <1>4, <2>1, OutsideSteps DEF Delete
<1>5. CASE DisableRemovedEvent \/ (\E p \in Leavers : Leave(p)) \/ EditWaits \/ UNCHANGED vars
  <2>1. delivery' = delivery /\ UNCHANGED workerVars
    BY <1>5, WaitsUnseen DEF DisableRemovedEvent, Leave, vars
  <2> QED BY <2>1, SameRowTtl, OutsideSteps
<1> QED BY <1>1, <1>2, <1>3, <1>4, <1>5, TickExclusive DEF Next, EndUpdate, EditWaits

\* A delivery is posted by one worker at a time if a drain is never slower than
\* the clock but for its POST and the POST's deadline is shorter than the
\* lease, as constants.ts has it, for any number of workers, crashes and edits.
THEOREM OnePost ==
  ASSUME Prompt, Timeout < Lease
  PROVE  Spec => []SinglePost
<1>1. Init => Exclusive
  BY DEF Init, Exclusive
<1>2. IInv /\ Exclusive /\ [Next]_vars => Exclusive'
  BY NextExclusive
<1>3. Exclusive => SinglePost
  BY DEF Exclusive, SinglePost
<1> QED BY <1>1, <1>2, <1>3, Invariance, PTL DEF Spec

-----------------------------------------------------------------------------
(* Attempts past the limit are those of drains that died *)

Busy(d) == \E w \in Worker : pc[w] # "idle" /\ job[w] = d

\* A worker holds the lease of the row it claimed, and from its read on knows the
\* attempt counted for it, unless the row is gone.
Holds(w) ==
  LET r == delivery[job[w]]
  IN  \/ r.state = "gone"
      \/ /\ r.state = "pending" /\ r.token # NoToken
         /\ pc[w] # "claimed" => got[w].token = r.token /\ got[w].attempt = r.attempt

\* WEBHOOK_ATTEMPT_LIMIT, but for the attempts of drains that died.
AttemptsBounded == \A d \in Delivery : delivery[d].attempt <= Limit + crashes

\* A row that waits for a claim has an attempt left.
Counted ==
  /\ crashes \in Nat
  /\ \A w \in Worker : pc[w] # "idle" => Holds(w)
  /\ AttemptsBounded
  /\ \A d \in Delivery :
       delivery[d].state \in {"none", "pending"} /\ ~ Busy(d) =>
         delivery[d].attempt < Limit + crashes

\* The row is gone, or keeps its lease and its attempts, and is queued at most.
CountKept(d) ==
  \/ delivery'[d].state = "gone" /\ delivery'[d].attempt = 0
  \/ /\ delivery'[d].attempt = delivery[d].attempt /\ delivery'[d].token = delivery[d].token
     /\ \/ delivery'[d].state = delivery[d].state
        \/ delivery[d].state = "none" /\ delivery'[d].state = "pending"

\* A worker whose position and row are left alone still holds it.
LEMMA StillHolds ==
  ASSUME NEW w \in Worker, pc[w] # "idle", Holds(w), CountKept(job[w]),
         pc'[w] = pc[w], job'[w] = job[w], got'[w] = got[w]
  PROVE  Holds(w)'
BY DEF Holds, CountKept

\* The bound on attempts as a number.
LEMMA CountBound ==
  ASSUME IInv, Counted
  PROVE  /\ Limit + crashes \in Nat /\ Limit + crashes >= 1
         /\ \A d \in Delivery : delivery[d].attempt \in Nat
BY WebhookAssumption DEF Counted, IInv, Rows, RowType

\* Steps that leave the workers alone, and the counts.
LEMMA OutsideCounted ==
  ASSUME IInv, Counted, UNCHANGED <<workerVars, crashes>>, \A d \in Delivery : CountKept(d)
  PROVE  Counted'
<1>1. ASSUME NEW w \in Worker, pc[w] # "idle" PROVE Holds(w)'
  BY <1>1, StillHolds DEF IInv, Locals, Counted, workerVars
<1>2. \A d \in Delivery : Busy(d)' <=> Busy(d)
  BY DEF Busy, workerVars
<1>3. ASSUME NEW d \in Delivery
      PROVE  /\ delivery'[d].attempt <= Limit + crashes
             /\ delivery'[d].state \in {"none", "pending"} /\ ~ Busy(d) =>
                  delivery'[d].attempt < Limit + crashes
  BY CountBound DEF Counted, AttemptsBounded, CountKept
<1> QED BY <1>1, <1>2, <1>3 DEF Counted, AttemptsBounded, workerVars

\* A worker that goes on with its row writes no count.
LEMMA GoesOnCounted ==
  ASSUME IInv, Counted, NEW w \in Worker, pc[w] # "idle",
         \A v \in Worker \ {w} : pc'[v] = pc[v] /\ job'[v] = job[v] /\ got'[v] = got[v],
         delivery' = delivery, crashes' = crashes,
         pc'[w] # "idle", job'[w] = job[w], Holds(w)'
  PROVE  Counted'
<1>1. \A d \in Delivery : CountKept(d)
  BY DEF CountKept
<1>2. ASSUME NEW v \in Worker, v # w, pc'[v] # "idle" PROVE Holds(v)'
  BY <1>1, <1>2, StillHolds DEF IInv, Locals, Counted
<1>3. \A d \in Delivery : Busy(d)' <=> Busy(d)
  BY DEF Busy
<1> QED BY <1>2, <1>3 DEF Counted, AttemptsBounded

\* A worker that returns leaves a row that is gone, one that is finished, or one
\* with an attempt left.
LEMMA ReturnsCounted ==
  ASSUME IInv, Exclusive, Counted, NEW w \in Worker, pc[w] # "idle", Return(w),
         crashes' \in Nat, crashes' >= crashes,
         \A d \in Delivery \ {job[w]} : delivery'[d] = delivery[d],
         delivery'[job[w]].attempt <= Limit + crashes',
         delivery'[job[w]].state \in {"none", "pending"} =>
           delivery'[job[w]].attempt < Limit + crashes'
  PROVE  Counted'
<1>1. /\ pc'[w] = "idle"
      /\ \A v \in Worker \ {w} : pc'[v] = pc[v] /\ job'[v] = job[v] /\ got'[v] = got[v]
  BY DEF Return, IInv, Locals
<1>2. ASSUME NEW v \in Worker, pc'[v] # "idle" PROVE Holds(v)'
  <2>1. v # w /\ pc[v] # "idle" /\ job[v] \in Delivery \ {job[w]} /\ Holds(v)
    BY <1>1, <1>2 DEF IInv, Locals, Exclusive, Counted
  <2>2. CountKept(job[v])
    BY <2>1 DEF CountKept
  <2> QED BY <1>1, <2>1, <2>2, StillHolds
<1>3. ASSUME NEW d \in Delivery
      PROVE  /\ delivery'[d].attempt <= Limit + crashes'
             /\ delivery'[d].state \in {"none", "pending"} /\ ~ Busy(d)' =>
                  delivery'[d].attempt < Limit + crashes'
  <2>1. CASE d = job[w]
    BY <2>1
  <2>2. CASE d # job[w]
    <3>1. Busy(d) => Busy(d)'
      BY <1>1, <2>2 DEF Busy
    <3> QED BY <2>2, <3>1, CountBound, WebhookAssumption DEF Counted, AttemptsBounded
  <2> QED BY <2>1, <2>2
<1> QED BY <1>2, <1>3 DEF Counted, AttemptsBounded

\* A claim counts an attempt of a row nobody works on, which has one left.
LEMMA ClaimCounted ==
  ASSUME IInv, Exclusive, Counted, NEW w \in Worker, NEW d \in Delivery, Claim(w, d)
  PROVE  Counted'
<1> PICK t \in Token :
      delivery' = [delivery EXCEPT ![d].attempt = @ + 1, ![d].token = t, ![d].ttl = Lease]
  BY DEF Claim
<1>1. /\ \A e \in Delivery \ {d} : delivery'[e] = delivery[e]
      /\ delivery'[d].attempt = delivery[d].attempt + 1 /\ delivery'[d].token = t
      /\ delivery'[d].state = "pending" /\ delivery[d].state = "pending"
  BY DEF Claim, Claimable, IInv, Rows, RowType
<1>2. /\ pc[w] = "idle" /\ pc'[w] = "claimed" /\ job'[w] = d /\ crashes' = crashes
      /\ \A v \in Worker \ {w} : pc'[v] = pc[v] /\ job'[v] = job[v] /\ got'[v] = got[v]
  BY DEF Claim, IInv, Locals
<1>3. ~ Busy(d)
  <2>1. \A v \in Worker : pc[v] # "idle" => Leased(v)
    BY DEF Exclusive
  <2> QED BY <2>1 DEF Busy, Leased, Claim, Claimable
<1>4. delivery[d].attempt < Limit + crashes
  BY <1>1, <1>3 DEF Counted
<1>5. Holds(w)'
  BY <1>1, <1>2, WebhookAssumption DEF Holds
<1>6. ASSUME NEW v \in Worker, v # w, pc[v] # "idle" PROVE Holds(v)'
  <2>1. job[v] \in Delivery \ {d} /\ Holds(v)
    BY <1>3, <1>6 DEF Busy, IInv, Locals, Counted
  <2>2. CountKept(job[v])
    BY <1>1, <2>1 DEF CountKept
  <2> QED BY <1>2, <1>6, <2>1, <2>2, StillHolds
<1>7. ASSUME NEW e \in Delivery
      PROVE  /\ delivery'[e].attempt <= Limit + crashes
             /\ delivery'[e].state \in {"none", "pending"} /\ ~ Busy(e)' =>
                  delivery'[e].attempt < Limit + crashes
  <2>1. CASE e = d
    BY <1>1, <1>2, <1>4, <2>1, CountBound DEF Busy
  <2>2. CASE e # d
    <3>1. Busy(e) => Busy(e)'
      BY <1>2, <2>2 DEF Busy
    <3> QED BY <1>1, <2>2, <3>1 DEF Counted, AttemptsBounded
  <2> QED BY <2>1, <2>2
<1> QED BY <1>2, <1>5, <1>6, <1>7 DEF Counted, AttemptsBounded

\* What a worker writes at its end: an outcome, or a retry below the limit.
LEMMA EndCounted ==
  ASSUME IInv, Exclusive, Counted, NEW w \in Worker, FinishWithoutSend(w) \/ Record(w)
  PROVE  Counted'
<1> DEFINE r == delivery[job[w]]
<1>1. /\ pc[w] \notin {"idle", "claimed"} /\ job[w] \in Delivery /\ Return(w) /\ crashes' = crashes
      /\ r \in RowType(webhook.gen)
  BY DEF FinishWithoutSend, FinishLabels, Record, Results, IInv, Locals, Rows
<1>2. Holds(w) /\ crashes \in Nat
  BY <1>1 DEF Counted
<1>3. CASE ~ Fenced(w)
  <2>1. delivery' = delivery
    BY <1>3 DEF FinishWithoutSend, Record
  <2>2. r.state = "gone"
    BY <1>1, <1>2, <1>3 DEF Holds, Fenced
  <2> QED BY <1>1, <1>2, <2>1, <2>2, ReturnsCounted DEF Counted, AttemptsBounded
<1>4. CASE Fenced(w) /\ FinishWithoutSend(w)
  <2>1. delivery' = [delivery EXCEPT ![job[w]] = Unsent(r, w)]
    BY <1>4 DEF FinishWithoutSend
  <2>2. r.state # "gone" /\ got[w].attempt = r.attempt /\ got[w].attempt >= 1
    <3>1. r.state = "pending" /\ got[w].attempt >= 1
      BY <1>1, <1>4, FenceMeansPending
    <3> QED BY <1>1, <1>2, <3>1 DEF Holds
  <2>3. r.attempt \in Nat /\ r.attempt <= Limit + crashes /\ Limit + crashes \in Nat
    BY <1>1, CountBound DEF Counted, AttemptsBounded
  <2> DEFINE u == Unsent(r, w)
  <2>4. u.attempt = got[w].attempt - 1 /\ u.state \in Finished
    BY <1>1 DEF Unsent, Released, RowType, Finished
  <2>5. delivery'[job[w]] = u /\ \A d \in Delivery \ {job[w]} : delivery'[d] = delivery[d]
    BY <1>1, <2>1 DEF IInv, Rows
  <2> HIDE DEF u, r
  <2>6. u.attempt <= Limit + crashes
    BY <2>2, <2>3, <2>4
  <2> QED BY <1>1, <1>2, <2>4, <2>5, <2>6, ReturnsCounted DEF Finished
<1>5. CASE Fenced(w) /\ Record(w)
  <2> DEFINE u == [Attempted(r, w) EXCEPT !.body = got[w].body]
  <2>1. delivery'[job[w]] = u /\ \A d \in Delivery \ {job[w]} : delivery'[d] = delivery[d]
    BY <1>1, <1>5 DEF Record, IInv, Rows
  <2>2. got[w].attempt = r.attempt
    <3>1. r.state = "pending"
      BY <1>1, <1>5, FenceMeansPending
    <3> QED BY <1>1, <1>2, <3>1 DEF Holds
  <2>3. r.attempt \in Nat /\ r.attempt <= Limit + crashes /\ Limit + crashes \in Nat
    BY <1>1, CountBound DEF Counted, AttemptsBounded
  <2>4. u.attempt = r.attempt
    BY <1>1 DEF Attempted, Released, RowType
  <2>5. u.state \in {"none", "pending"} => got[w].attempt < Limit
    <3>1. got[w].attempt \in Nat /\ Limit \in Nat
      BY <2>2, <2>3, WebhookAssumption
    <3>2. ~ (got[w].attempt >= Limit) => got[w].attempt < Limit
      BY <3>1
    <3>3. pc[w] = "succeeded" \/ got[w].attempt >= Limit => u.state \in {"delivered", "dead"}
      BY <1>1 DEF Attempted, Released, RowType
    <3> QED BY <3>2, <3>3
  <2> HIDE DEF u, r
  <2>6. u.state \in {"none", "pending"} => u.attempt < Limit + crashes
    BY <1>2, <2>2, <2>3, <2>4, <2>5, WebhookAssumption
  <2> QED BY <1>1, <1>2, <2>1, <2>3, <2>4, <2>6, ReturnsCounted
<1> QED BY <1>3, <1>4, <1>5

\* Steps of a worker between its claim and its end.
LEMMA DrainCounted ==
  ASSUME IInv, Exclusive, Counted, NEW w \in Worker,
         \/ ReadDelivery(w) \/ ReadWebhook(w) \/ NothingToSend(w) \/ OwnerGone(w)
         \/ OutOfReach(w) \/ Send(w) \/ Answer(w) \/ Pause(w)
  PROVE  Counted'
<1> DEFINE r == delivery[job[w]]
<1>1. pc[w] # "idle" /\ job[w] \in Delivery /\ Holds(w)
  BY DEF ReadDelivery, ReadWebhook, NothingToSend, OwnerGone, OutOfReach, Send, Answer, Pause,
     IInv, Locals, Counted
<1>2. delivery' = delivery /\ crashes' = crashes
  BY DEF ReadDelivery, ReadWebhook, NothingToSend, OwnerGone, OutOfReach, Send, Answer, Pause
<1>3. \A v \in Worker \ {w} : pc'[v] = pc[v] /\ job'[v] = job[v] /\ got'[v] = got[v]
  BY DEF ReadDelivery, ReadWebhook, NothingToSend, OwnerGone, OutOfReach, Send, Answer, Pause,
     Return, Goto, IInv, Locals
<1>4. CASE ReadDelivery(w) /\ r.state = "gone"
  <2>1. Return(w)
    BY <1>4 DEF ReadDelivery
  <2> QED BY <1>1, <1>2, <1>4, <2>1, ReturnsCounted, CountBound DEF Counted, AttemptsBounded
<1>5. CASE ReadDelivery(w) /\ r.state # "gone"
  <2>1. /\ pc'[w] = "read" /\ job'[w] = job[w]
        /\ got'[w].token = r.token /\ got'[w].attempt = r.attempt
    BY <1>5 DEF ReadDelivery, IInv, Locals
  <2> QED BY <1>1, <1>2, <1>3, <1>5, <2>1, GoesOnCounted DEF Holds
<1>6. CASE ~ ReadDelivery(w)
  <2>1. /\ pc[w] # "claimed" /\ pc'[w] \notin {"idle", "claimed"} /\ job'[w] = job[w]
        /\ got'[w].token = got[w].token /\ got'[w].attempt = got[w].attempt
    <3>1. CASE Send(w)
      BY <3>1 DEF Send, IInv, Locals
    <3>2. CASE ~ Send(w)
      BY <1>6, <3>2 DEF ReadWebhook, NothingToSend, OwnerGone, OutOfReach, Answer, Pause, Goto,
         IInv, Locals
    <3> QED BY <3>1, <3>2
  <2> QED BY <1>1, <1>2, <1>3, <2>1, GoesOnCounted DEF Holds
<1> QED BY <1>4, <1>5, <1>6

\* A drain that dies leaves the attempt it counted on the row.
LEMMA CrashCounted ==
  ASSUME IInv, Exclusive, Counted, NEW w \in Worker, Crash(w)
  PROVE  Counted'
<1>1. /\ pc[w] # "idle" /\ job[w] \in Delivery /\ Return(w) /\ crashes' = crashes + 1
      /\ crashes \in Nat /\ delivery' = delivery
  BY DEF Crash, IInv, Locals, Counted
<1>2. delivery[job[w]].attempt \in Nat /\ delivery[job[w]].attempt < Limit + crashes'
  BY <1>1, CountBound, WebhookAssumption DEF Counted, AttemptsBounded
<1>3. delivery'[job[w]].attempt <= Limit + crashes' /\ crashes' \in Nat /\ crashes' >= crashes
  BY <1>1, <1>2, WebhookAssumption
<1> QED BY <1>1, <1>2, <1>3, ReturnsCounted

\* What goes on around the workers counts no attempt.
LEMMA NextCounted == IInv /\ Exclusive /\ Counted /\ [Next]_vars => Counted'
<1> SUFFICES ASSUME IInv, Exclusive, Counted, [Next]_vars PROVE Counted'
  OBVIOUS
<1>0. \A d \in Delivery : delivery[d] \in RowType(webhook.gen)
  BY DEF IInv, Rows
<1>1. ASSUME NEW w \in Worker, Step(w) \/ Crash(w) PROVE Counted'
  BY <1>1, ClaimCounted, DrainCounted, EndCounted, CrashCounted DEF Step
<1>2. ASSUME NEW e \in Delivery,
             \/ EnqueueEvent(e) \/ EnqueueTest(e) \/ CheckRedelivery(e)
             \/ EnqueueRedelivery(e) \/ Purge(e)
      PROVE  Counted'
  <2>1. UNCHANGED <<workerVars, crashes>>
    BY <1>2 DEF EnqueueEvent, EnqueueTest, CheckRedelivery, EnqueueRedelivery, Purge
  <2>2. ASSUME NEW d \in Delivery PROVE CountKept(d)
    <3>1. CASE d # e \/ CheckRedelivery(e)
      <4>1. delivery'[d] = delivery[d]
        BY <1>2, <3>1 DEF EnqueueEvent, EnqueueTest, CheckRedelivery, EnqueueRedelivery,
           Purge, IInv, Rows
      <4> QED BY <4>1 DEF CountKept
    <3>2. CASE d = e /\ Purge(e)
      BY <3>2 DEF Purge, Gone, NoRow, CountKept, IInv, Rows
    <3>3. CASE d = e /\ (EnqueueEvent(e) \/ EnqueueTest(e) \/ EnqueueRedelivery(e))
      <4> DEFINE r == delivery[d]
      <4>1. r \in RowType(webhook.gen) /\ r.state = "none"
        BY <1>0, <3>3 DEF EnqueueEvent, EnqueueTest, EnqueueRedelivery
      <4>2. /\ delivery'[d].attempt = r.attempt /\ delivery'[d].token = r.token
            /\ delivery'[d].state = "pending"
        BY <3>3, <4>1, QueuedRow
      <4> QED BY <4>1, <4>2 DEF CountKept
    <3> QED BY <1>2, <3>1, <3>2, <3>3
  <2> QED BY <2>1, <2>2, OutsideCounted
<1>3. CASE \/ EndUpdate \/ EditWaits
           \/ Delete \/ DisableRemovedEvent \/ (\E p \in Leavers : Leave(p)) \/ UNCHANGED vars
  <2>1. delivery' = delivery \/ delivery' = Dated \/ delivery' = [d \in Delivery |-> Gone(d)]
    BY <1>3, WaitsUnseen DEF EndUpdate, EditWaits, CommitUpdate, Delete, DisableRemovedEvent, Leave, vars
  <2>2. ASSUME NEW d \in Delivery PROVE CountKept(d)
    <3>1. CASE delivery' = delivery
      BY <3>1 DEF CountKept
    <3>2. CASE delivery' = Dated
      BY <1>0, <3>2 DEF CountKept, Dated, RowType
    <3>3. CASE delivery' = [e \in Delivery |-> Gone(e)]
      <4>1. delivery'[d] = Gone(d)
        BY <3>3
      <4> QED BY <4>1 DEF CountKept, Gone, NoRow
    <3> QED BY <2>1, <3>1, <3>2, <3>3
  <2>3. UNCHANGED <<workerVars, crashes>>
    BY <1>3, WaitsUnseen DEF EndUpdate, EditWaits, CommitUpdate, Delete, DisableRemovedEvent, Leave, vars
  <2> QED BY <2>2, <2>3, OutsideCounted
<1>4. CASE Tick
  <2>1. ASSUME NEW d \in Delivery PROVE CountKept(d)
    BY <1>0, <1>4 DEF Tick, Older, CountKept, RowType
  <2>2. /\ UNCHANGED <<pc, job, got, crashes>>
    BY <1>4 DEF Tick
  <2>3. \A w \in Worker : pc[w] # "idle" => Holds(w)'
    BY <2>1, <2>2, StillHolds DEF IInv, Locals, Counted
  <2>4. \A d \in Delivery : Busy(d)' <=> Busy(d)
    BY <2>2 DEF Busy
  <2>5. \A d \in Delivery :
          /\ delivery'[d].attempt = delivery[d].attempt /\ delivery'[d].state = delivery[d].state
    BY <1>0, <1>4 DEF Tick, Older, RowType
  <2> QED BY <2>2, <2>3, <2>4, <2>5 DEF Counted, AttemptsBounded
<1> QED BY <1>1, <1>2, <1>3, <1>4 DEF Next, EditWaits

\* A delivery is attempted WEBHOOK_ATTEMPT_LIMIT times and no more, but for one
\* attempt per drain that died after counting it: the limit is compared when an
\* attempt is recorded, never when it is claimed. A prompt drain is assumed, as
\* for OnePost.
THEOREM AttemptsAreCounted ==
  ASSUME Prompt, Timeout < Lease
  PROVE  Spec => []AttemptsBounded
<1>1. Init => Exclusive
  BY DEF Init, Exclusive
<1>2. Init => Counted
  BY WebhookAssumption DEF Init, Counted, AttemptsBounded, NoRow
<1>3. IInv /\ Exclusive /\ [Next]_vars => Exclusive'
  BY NextExclusive
<1>4. Counted => AttemptsBounded
  BY DEF Counted
<1> QED BY <1>1, <1>2, <1>3, <1>4, NextCounted, Invariance, PTL DEF Spec

-----------------------------------------------------------------------------
(* A webhook is paused for failing after a whole window only *)

\* The failure streak is older than the last thing that would have ended it by no
\* more than an instant lies before its recording, or that is a window ago.
StreakIsYoung ==
  webhook.failing => webhook.age <= calm + MaxLag \/ calm = DisableAfter - MaxLag

\* What a step does to the streak and to the switch, if anything.
StreakKept ==
  /\ webhook'.failing = webhook.failing /\ webhook'.age = webhook.age /\ calm' = calm
  /\ webhook.active /\ ~ webhook'.active => webhook'.reason # "failing_24h"

\* Only recording, edits, a deletion and time touch the streak, or pause for failing.
LEMMA StreakSteps ==
  ASSUME IInv, [Next]_vars
  PROVE  \/ StreakKept
         \/ \E w \in Worker : Record(w)
         \/ \E newUrl \in BOOLEAN, act \in {"on", "off", "keep"} : CommitUpdate(newUrl, act)
         \/ Delete \/ Tick
<1>1. ASSUME NEW w \in Worker, Step(w) \/ Crash(w), ~ Record(w) PROVE StreakKept
  <2>1. CASE Pause(w)
    BY <2>1 DEF Pause, IInv, WebhookType, StreakKept
  <2>2. CASE ~ Pause(w)
    BY <1>1, <2>2 DEF Step, Claim, ReadDelivery, ReadWebhook, NothingToSend, OwnerGone,
       OutOfReach, Send, FinishWithoutSend, Answer, Crash, StreakKept
  <2> QED BY <2>1, <2>2
<1>2. ASSUME NEW d \in Delivery,
             \/ EnqueueEvent(d) \/ EnqueueTest(d) \/ CheckRedelivery(d)
             \/ EnqueueRedelivery(d) \/ Purge(d)
      PROVE  StreakKept
  BY <1>2 DEF EnqueueEvent, EnqueueTest, CheckRedelivery, EnqueueRedelivery, Purge, StreakKept
<1>3. CASE DisableRemovedEvent
  BY <1>3 DEF DisableRemovedEvent, IInv, WebhookType, StreakKept
<1>4. CASE (\E p \in Leavers : Leave(p)) \/ EditWaits \/ UNCHANGED vars
  BY <1>4, WaitsUnseen DEF Leave, vars, StreakKept
<1> QED BY <1>1, <1>2, <1>3, <1>4 DEF Next, EndUpdate, EditWaits

\* The numbers the streak is compared with.
LEMMA StreakNumbers ==
  ASSUME IInv
  PROVE  /\ webhook.age \in 0 .. DisableAfter + MaxLag /\ calm \in 0 .. DisableAfter - MaxLag
         /\ DisableAfter \in Nat /\ MaxLag \in Nat /\ MaxLag < DisableAfter
         /\ \A w \in Worker : lag[w] \in 0 .. MaxLag
BY Lengths DEF IInv, WebhookType, Locals, Rest

\* Recording an attempt: a success ends the streak, a failure begins one that is as
\* old as its instant, and only a streak that is a window old pauses the webhook.
LEMMA RecordStreak ==
  ASSUME IInv, StreakIsYoung, NEW w \in Worker, Record(w)
  PROVE  /\ StreakIsYoung'
         /\ webhook.active /\ ~ webhook'.active /\ webhook'.reason = "failing_24h"
              => calm >= DisableAfter - MaxLag
<1>1. /\ webhook.age \in 0 .. DisableAfter + MaxLag /\ calm \in 0 .. DisableAfter - MaxLag
      /\ DisableAfter \in Nat /\ MaxLag \in Nat /\ MaxLag < DisableAfter /\ lag[w] \in 0 .. MaxLag
  BY StreakNumbers
<1>2. CASE webhook' = webhook /\ calm' = calm
  BY <1>2 DEF StreakIsYoung
<1>3. CASE webhook' = AfterStreak(TRUE, lag[w]) /\ calm' = 0
  BY <1>3 DEF AfterStreak, StreakIsYoung, IInv, WebhookType
<1>4. CASE webhook' = AfterStreak(FALSE, lag[w]) /\ calm' = calm
  <2>1. CASE webhook.failing /\ webhook.age >= DisableAfter + lag[w] /\ webhook.active
    <3>1. webhook'.failing = webhook.failing /\ webhook'.age = webhook.age
      BY <1>4, <2>1 DEF AfterStreak, AfterFailure, IInv, WebhookType
    <3>2. webhook.age <= calm + MaxLag \/ calm = DisableAfter - MaxLag
      BY <2>1 DEF StreakIsYoung
    <3>3. StreakIsYoung'
      BY <1>4, <3>1, <3>2 DEF StreakIsYoung
    <3>4. calm >= DisableAfter - MaxLag
      BY <1>1, <2>1, <3>2
    <3> QED BY <3>3, <3>4
  <2>2. CASE ~ (webhook.failing /\ webhook.age >= DisableAfter + lag[w] /\ webhook.active)
    <3>1. /\ webhook'.active = webhook.active
          /\ webhook'.age = IF webhook.failing THEN webhook.age ELSE lag[w]
      BY <1>4, <2>2 DEF AfterStreak, AfterFailure, IInv, WebhookType
    <3>2. lag[w] <= calm + MaxLag
      BY <1>1
    <3>3. StreakIsYoung'
      BY <1>4, <3>1, <3>2 DEF StreakIsYoung
    <3> QED BY <3>1, <3>3
  <2> QED BY <2>1, <2>2
<1> QED BY <1>2, <1>3, <1>4 DEF Record

\* An edit clears the streak whenever it starts a calm period, and pauses by hand only.
LEMMA CommitStreak ==
  ASSUME IInv, StreakIsYoung, NEW newUrl \in BOOLEAN, NEW act \in {"on", "off", "keep"},
         CommitUpdate(newUrl, act)
  PROVE  /\ StreakIsYoung'
         /\ webhook.active /\ ~ webhook'.active => webhook'.reason # "failing_24h"
<1> DEFINE fresh == newUrl \/ act = "on"
<1>1. /\ webhook'.failing = (webhook.failing /\ ~ fresh)
      /\ webhook'.age = IF fresh THEN 0 ELSE webhook.age
      /\ calm' = IF fresh THEN 0 ELSE calm
  BY DEF CommitUpdate, FreshWindow, IInv, WebhookType
<1>2. /\ webhook'.active = (act = "on" \/ (webhook.active /\ act = "keep"))
      /\ act = "off" => webhook'.reason = "manual"
  BY DEF CommitUpdate, IInv, WebhookType
<1> QED BY <1>1, <1>2 DEF StreakIsYoung

\* Streak and calm age together, until the calm has lasted.
LEMMA TickStreak ==
  ASSUME IInv, StreakIsYoung, Tick
  PROVE  StreakIsYoung' /\ webhook'.active = webhook.active
<1>1. /\ webhook.age \in 0 .. DisableAfter + MaxLag /\ calm \in 0 .. DisableAfter - MaxLag
      /\ DisableAfter \in Nat /\ MaxLag \in Nat /\ MaxLag < DisableAfter
  BY StreakNumbers
<1>2. /\ webhook'.active = webhook.active /\ webhook'.failing = webhook.failing
      /\ webhook'.age = IF webhook.failing THEN More(webhook.age, DisableAfter + MaxLag)
                                           ELSE webhook.age
      /\ calm' = More(calm, DisableAfter - MaxLag)
  BY DEF Tick, IInv, WebhookType
<1>3. CASE webhook.failing
  <2>1. CASE calm = DisableAfter - MaxLag
    BY <1>2, <2>1 DEF StreakIsYoung, More
  <2>2. CASE calm # DisableAfter - MaxLag
    <3>1. webhook.age <= calm + MaxLag
      BY <1>3, <2>2 DEF StreakIsYoung
    <3>2. calm' = calm + 1
      BY <1>2, <2>2 DEF More
    <3>3. webhook'.age <= webhook.age + 1
      BY <1>1, <1>2, <1>3 DEF More
    <3>4. webhook'.age \in Nat
      BY <1>1, <1>2, <1>3 DEF More
    <3>5. webhook'.age <= calm' + MaxLag
      BY <1>1, <3>1, <3>2, <3>3, <3>4
    <3> QED BY <1>2, <3>5 DEF StreakIsYoung
  <2> QED BY <2>1, <2>2
<1> QED BY <1>2, <1>3 DEF StreakIsYoung

\* WH-7: the auto-disable only pauses a webhook of which no attempt was recorded as
\* a success, and that got neither a new url nor a re-enabling, for the whole window
\* but for MaxLag, however long that is: the instant of a result is read before the
\* row locks are waited for and from whatever clock, so a success or an edit that
\* commits meanwhile lies inside the window that is measured.
THEOREM PausedAfterWindow == Spec => DisabledOnlyAfterWindow
<1> DEFINE A == webhook.active /\ ~ webhook'.active /\ webhook'.reason = "failing_24h"
                  => calm >= DisableAfter - MaxLag
<1>1. Init => StreakIsYoung
  BY DEF Init, StreakIsYoung
<1>2. IInv /\ StreakIsYoung /\ [Next]_vars => StreakIsYoung' /\ A
  <2> SUFFICES ASSUME IInv, StreakIsYoung, [Next]_vars PROVE StreakIsYoung' /\ A
    OBVIOUS
  <2>1. CASE StreakKept
    BY <2>1 DEF StreakKept, StreakIsYoung
  <2>2. CASE Delete
    BY <2>2 DEF Delete, StreakIsYoung, IInv, WebhookType
  <2> QED BY <2>1, <2>2, StreakSteps, RecordStreak, CommitStreak, TickStreak
<1>3. IInv /\ StreakIsYoung /\ [Next]_vars => StreakIsYoung' /\ [A]_vars
  BY <1>2
<1> HIDE DEF A
<1>4. Spec => [][A]_vars
  BY <1>1, <1>3, Invariance, PTL DEF Spec
<1> QED BY <1>4 DEF DisabledOnlyAfterWindow, A

-----------------------------------------------------------------------------
(* What a body was built for is what it is posted to, crossed rows apart *)

\* What a redelivery request carries, unless an edit has overtaken it.
RequestAddressed ==
  request.gen = webhook.gen /\ request.from \notin crossed =>
    request.body \in {NoBody, webhook.gen}

\* A row that is not crossed has no body, or one for the destination there is, unless
\* it is older than that destination.
RowsAddressed ==
  \A d \in Delivery :
    /\ delivery[d].state = "none" => delivery[d].body = NoBody
    /\ d \notin crossed /\ ~ delivery[d].older => delivery[d].body \in {NoBody, webhook.gen}

AfterPost == {"sending", "succeeded", "failed"}

\* So have the copies a worker made of them, and the url it read: together if
\* the row is not older than the destination, and with each other in any case,
\* once the two were compared (which a test is spared).
WorkerAddressed(w) ==
  LET current == job[w] \notin crossed /\ ~ delivery[job[w]].older
  IN  pc[w] # "idle" =>
        /\ delivery[job[w]].state # "none"
        /\ current =>
             /\ pc[w] \in {"read", "checked"} => got[w].body \in {NoBody, webhook.gen}
             /\ pc[w] \in AfterPost => got[w].body = webhook.gen
             /\ pc[w] \in {"checked"} \cup AfterPost => seen[w].gen = webhook.gen
        /\ SourceOf[job[w]] # "test" /\ job[w] \notin crossed =>
             /\ pc[w] = "checked" => got[w].body \in {NoBody, seen[w].gen}
             /\ pc[w] \in AfterPost => got[w].body = seen[w].gen

Addressed ==
  RequestAddressed /\ RowsAddressed /\ \A w \in Worker : WorkerAddressed(w)

\* A step that moves no destination, in terms of what it does to the rows.
DestinationsStay ==
  /\ webhook'.gen = webhook.gen
  /\ crossed \subseteq crossed'
  /\ request' = request \/ RequestAddressed'
  /\ \A d \in Delivery :
       /\ delivery'[d].state = "none" => delivery[d].state = "none" /\ delivery'[d].body = delivery[d].body
       /\ delivery[d].state # "none" => delivery'[d].older = delivery[d].older
       /\ d \notin crossed' /\ (delivery[d].state = "none" \/ ~ delivery[d].older) =>
            delivery'[d].body \in {delivery[d].body, NoBody, webhook.gen}

SameLocals(w) == pc'[w] = pc[w] /\ job'[w] = job[w] /\ got'[w] = got[w] /\ seen'[w] = seen[w]

\* Rows stay addressed, and workers whose locals are left alone.
LEMMA StaysAddressed ==
  ASSUME IInv, Addressed, DestinationsStay
  PROVE  /\ RequestAddressed' /\ RowsAddressed'
         /\ \A w \in Worker : SameLocals(w) => WorkerAddressed(w)'
<1>0. RequestAddressed'
  BY DEF Addressed, RequestAddressed, DestinationsStay
<1>1. RowsAddressed'
  BY DEF Addressed, RowsAddressed, DestinationsStay
<1>2. ASSUME NEW w \in Worker, SameLocals(w) PROVE WorkerAddressed(w)'
  <2>1. pc[w] # "idle" => job[w] \in Delivery
    BY DEF IInv, Locals
  <2>2. pc[w] # "idle" /\ delivery[job[w]].state # "none" =>
          delivery'[job[w]].older = delivery[job[w]].older /\ delivery'[job[w]].state # "none"
    BY <2>1 DEF DestinationsStay
  <2>3. WorkerAddressed(w)
    BY DEF Addressed
  <2>4. webhook'.gen = webhook.gen /\ crossed \subseteq crossed'
    BY DEF DestinationsStay
  <2> QED BY <1>2, <2>2, <2>3, <2>4 DEF WorkerAddressed, SameLocals
<1> QED BY <1>0, <1>1, <1>2

\* Rows left alone stay with their destination.
LEMMA RowsAlone ==
  ASSUME delivery' = delivery, webhook'.gen = webhook.gen, request' = request,
         crossed' = crossed
  PROVE  DestinationsStay
BY DEF DestinationsStay

\* A worker's step writes one row at most, and a body only that the row's
\* destination is the one it read.
LEMMA StepStays ==
  ASSUME IInv, Addressed, NEW w \in Worker, Step(w)
  PROVE  DestinationsStay
<1> USE DEF IInv, Rows
<1>1. ASSUME NEW d \in Delivery, Claim(w, d) PROVE DestinationsStay
  BY <1>1 DEF Claim, Claimable, DestinationsStay, RowType, requestVars
<1>2. CASE FinishWithoutSend(w)
  <2>1. job[w] \in Delivery
    BY <1>2 DEF FinishWithoutSend, FinishLabels, Locals
  <2>2. CASE delivery' = delivery
    BY <1>2, <2>2, RowsAlone DEF FinishWithoutSend, requestVars
  <2>3. CASE delivery' = [delivery EXCEPT ![job[w]] = Unsent(delivery[job[w]], w)]
    <3> DEFINE r == delivery[job[w]]  u == Unsent(r, w)
    <3>1. r \in RowType(webhook.gen)
      BY <2>1
    <3> HIDE DEF r
    <3>2. u.older = r.older /\ u.state # "none" /\ u.body \in {r.body, NoBody}
      BY <3>1 DEF Unsent, Released, RowType
    <3> HIDE DEF u
    <3>3. \A d \in Delivery : delivery'[d] = IF d = job[w] THEN u ELSE delivery[d]
      BY <2>3 DEF u, r
    <3>4. webhook' = webhook /\ request' = request /\ crossed' = crossed
      BY <1>2 DEF FinishWithoutSend, requestVars
    <3> QED BY <3>2, <3>3, <3>4 DEF DestinationsStay, r
  <2> QED BY <1>2, <2>2, <2>3 DEF FinishWithoutSend
<1>3. CASE Record(w)
  <2>1. job[w] \in Delivery /\ pc[w] \in {"succeeded", "failed"}
    BY <1>3 DEF Record, Results, Locals
  <2>2. webhook'.gen = webhook.gen /\ request' = request /\ crossed' = crossed
    BY <1>3 DEF Record, AfterStreak, AfterFailure, WebhookType, requestVars
  <2>3. CASE delivery' = delivery
    BY <2>2, <2>3, RowsAlone
  <2>4. CASE delivery' = [delivery EXCEPT ![job[w]] =
                            [Attempted(delivery[job[w]], w) EXCEPT !.body = got[w].body]]
    <3> DEFINE r == delivery[job[w]]  u == [Attempted(r, w) EXCEPT !.body = got[w].body]
    <3>1. r \in RowType(webhook.gen)
      BY <2>1
    <3> HIDE DEF r
    <3>2. u.older = r.older /\ u.state # "none" /\ u.body = got[w].body
      BY <3>1 DEF Attempted, Released, RowType
    <3> HIDE DEF u
    <3>3. \A d \in Delivery : delivery'[d] = IF d = job[w] THEN u ELSE delivery[d]
      BY <2>4 DEF u, r
    <3>4. /\ r.state # "none"
          /\ job[w] \notin crossed /\ ~ r.older => got[w].body = webhook.gen
      BY <2>1 DEF Addressed, WorkerAddressed, AfterPost, r
    <3> QED BY <2>2, <3>2, <3>3, <3>4 DEF DestinationsStay, r
  <2> QED BY <1>3, <2>3, <2>4 DEF Record
<1>4. CASE Pause(w)
  <2>1. webhook'.gen = webhook.gen /\ delivery' = delivery /\ request' = request /\ crossed' = crossed
    BY <1>4 DEF Pause, WebhookType, requestVars
  <2> QED BY <2>1, RowsAlone
<1>5. CASE \/ ReadDelivery(w) \/ ReadWebhook(w) \/ NothingToSend(w) \/ OwnerGone(w)
           \/ OutOfReach(w) \/ Send(w) \/ Answer(w)
  BY <1>5, RowsAlone DEF ReadDelivery, ReadWebhook, NothingToSend, OwnerGone, OutOfReach, Send, Answer,
     requestVars
<1> QED BY <1>1, <1>2, <1>3, <1>4, <1>5 DEF Step

\* What the worker itself knows after its step.
LEMMA StepAddresses ==
  ASSUME IInv, Addressed, NEW w \in Worker, Step(w) \/ Crash(w), DestinationsStay
  PROVE  /\ WorkerAddressed(w)'
         /\ \A v \in Worker \ {w} : SameLocals(v)
<1> USE DEF IInv, Rows, Locals
<1>0. /\ webhook'.gen = webhook.gen /\ crossed' = crossed
      /\ \A d \in Delivery : delivery[d].state # "none" => delivery'[d].older = delivery[d].older
      /\ \A d \in Delivery : delivery'[d].state = "none" => delivery[d].state = "none"
      /\ pc[w] # "idle" => job[w] \in Delivery /\ delivery[job[w]].state # "none"
  <2>1. crossed' = crossed
    BY DEF Step, Claim, ReadDelivery, ReadWebhook, NothingToSend, OwnerGone, OutOfReach, Send, Pause,
       FinishWithoutSend, Answer, Record, Crash, requestVars
  <2> QED BY <2>1 DEF DestinationsStay, Addressed, WorkerAddressed
<1>1. ASSUME Return(w) PROVE WorkerAddressed(w)' /\ \A v \in Worker \ {w} : SameLocals(v)
  BY <1>1 DEF Return, WorkerAddressed, SameLocals
<1>2. ASSUME NEW label \in {"cancel", "stale", "pause", "skip"}, Goto(w, label), pc[w] # "idle"
      PROVE  WorkerAddressed(w)' /\ \A v \in Worker \ {w} : SameLocals(v)
  BY <1>0, <1>2 DEF Goto, WorkerAddressed, AfterPost, SameLocals
<1>3. ASSUME NEW d \in Delivery, Claim(w, d)
      PROVE  WorkerAddressed(w)' /\ \A v \in Worker \ {w} : SameLocals(v)
  <2>1. delivery[d].state # "none" /\ pc'[w] = "claimed" /\ job'[w] = d
    BY <1>3 DEF Claim, Claimable
  <2>2. \A v \in Worker \ {w} : SameLocals(v)
    BY <1>3 DEF Claim, SameLocals
  <2> QED BY <1>0, <2>1, <2>2 DEF WorkerAddressed, AfterPost
<1>4. CASE ReadDelivery(w)
  <2>1. CASE Return(w)
    BY <1>1, <2>1
  <2>2. CASE ~ Return(w)
    <3>1. /\ pc' = [pc EXCEPT ![w] = "read"] /\ job' = job /\ seen' = seen
          /\ got' = [got EXCEPT ![w] = [token |-> delivery[job[w]].token,
                                        attempt |-> delivery[job[w]].attempt,
                                        body |-> delivery[job[w]].body]]
          /\ pc[w] # "idle"
      BY <1>4, <2>2 DEF ReadDelivery
    <3>2. pc'[w] = "read" /\ job'[w] = job[w] /\ got'[w].body = delivery[job[w]].body
      BY <3>1
    <3>3. \A v \in Worker \ {w} : SameLocals(v)
      BY <3>1 DEF SameLocals
    <3> QED BY <1>0, <3>1, <3>2, <3>3 DEF WorkerAddressed, AfterPost, Addressed, RowsAddressed
  <2> QED BY <2>1, <2>2
<1>5. CASE ReadWebhook(w)
  <2>1. CASE Goto(w, "cancel") \/ Goto(w, "stale")
    BY <1>2, <1>5, <2>1 DEF ReadWebhook
  <2>2. CASE ~ (Goto(w, "cancel") \/ Goto(w, "stale"))
    <3>1. /\ pc[w] = "read" /\ ~ DestinationChanged(w)
          /\ pc' = [pc EXCEPT ![w] = "checked"] /\ job' = job /\ got' = got
          /\ seen' = [seen EXCEPT ![w] = [owner |-> webhook.owner, gen |-> webhook.gen,
                                          version |-> webhook.version]]
      BY <1>5, <2>2 DEF ReadWebhook
    <3>2. pc'[w] = "checked" /\ job'[w] = job[w] /\ got'[w] = got[w] /\ seen'[w].gen = webhook.gen
      BY <3>1
    <3>3. \A v \in Worker \ {w} : SameLocals(v)
      BY <3>1 DEF SameLocals
    <3>4. job[w] \notin crossed /\ (SourceOf[job[w]] # "test" \/ ~ delivery[job[w]].older) =>
            got[w].body \in {NoBody, webhook.gen}
      BY <3>1 DEF DestinationChanged, Addressed, WorkerAddressed
    <3> QED BY <1>0, <3>1, <3>2, <3>3, <3>4 DEF WorkerAddressed, AfterPost
  <2> QED BY <2>1, <2>2
<1>6. CASE NothingToSend(w) \/ OwnerGone(w) \/ OutOfReach(w)
  BY <1>2, <1>6 DEF NothingToSend, OwnerGone, OutOfReach
<1>7. CASE Send(w)
  <2>1. /\ pc[w] = "checked" /\ job' = job /\ seen' = seen /\ pc' = [pc EXCEPT ![w] = "sending"]
        /\ got' = [got EXCEPT ![w].body = IF got[w].body = NoBody THEN seen[w].gen ELSE got[w].body]
    BY <1>7 DEF Send
  <2>2. /\ pc'[w] = "sending" /\ job'[w] = job[w] /\ seen'[w] = seen[w]
        /\ got'[w].body = IF got[w].body = NoBody THEN seen[w].gen ELSE got[w].body
    BY <2>1
  <2>3. \A v \in Worker \ {w} : SameLocals(v)
    BY <2>1 DEF SameLocals
  <2>4. job[w] \notin crossed =>
          /\ SourceOf[job[w]] # "test" => got[w].body \in {NoBody, seen[w].gen}
          /\ ~ delivery[job[w]].older => /\ got[w].body \in {NoBody, webhook.gen}
                                         /\ seen[w].gen = webhook.gen
    BY <2>1 DEF Addressed, WorkerAddressed
  <2> QED BY <1>0, <2>1, <2>2, <2>3, <2>4 DEF WorkerAddressed, AfterPost
<1>8. CASE Pause(w)
  BY <1>2, <1>8 DEF Pause
<1>9. CASE Answer(w)
  <2>1. PICK label \in {"succeeded", "failed"} :
          /\ pc[w] = "sending" /\ pc' = [pc EXCEPT ![w] = label]
          /\ UNCHANGED <<job, got, seen>>
    BY <1>9 DEF Answer
  <2>2. /\ pc'[w] = label /\ job'[w] = job[w] /\ got'[w] = got[w] /\ seen'[w] = seen[w]
        /\ \A v \in Worker \ {w} : SameLocals(v)
    BY <2>1 DEF SameLocals
  <2>3. job[w] \notin crossed =>
          /\ SourceOf[job[w]] # "test" => got[w].body = seen[w].gen
          /\ ~ delivery[job[w]].older => got[w].body = webhook.gen /\ seen[w].gen = webhook.gen
    BY <2>1 DEF Addressed, WorkerAddressed, AfterPost
  <2> QED BY <1>0, <2>1, <2>2, <2>3 DEF WorkerAddressed, AfterPost
<1>10. CASE FinishWithoutSend(w) \/ Record(w) \/ Crash(w)
  BY <1>1, <1>10 DEF FinishWithoutSend, Record, Crash
<1> QED BY <1>3, <1>4, <1>5, <1>6, <1>7, <1>8, <1>9, <1>10 DEF Step

\* What goes on around the workers.
LEMMA OutsideStays ==
  ASSUME IInv, Addressed, [Next]_vars, ~ \E w \in Worker : Step(w) \/ Crash(w),
         ~ \E newUrl \in BOOLEAN, act \in {"on", "off", "keep"} : CommitUpdate(newUrl, act)
  PROVE  DestinationsStay /\ \A w \in Worker : SameLocals(w)
<1> USE DEF IInv, Rows, SameLocals, workerVars
<1>1. ASSUME NEW d \in Delivery, EnqueueEvent(d) \/ EnqueueTest(d)
      PROVE  DestinationsStay /\ \A w \in Worker : SameLocals(w)
  <2>1. UNCHANGED <<webhook, requestVars, workerVars>>
    BY <1>1 DEF EnqueueEvent, EnqueueTest
  <2> QED BY <1>1, <2>1, QueuedRow DEF DestinationsStay, requestVars
<1>2. ASSUME NEW d \in Delivery, CheckRedelivery(d)
      PROVE  DestinationsStay /\ \A w \in Worker : SameLocals(w)
  <2>1. /\ UNCHANGED <<delivery, webhook, crossed, workerVars>> /\ ~ delivery[d].older
        /\ request' = [from |-> d, body |-> delivery[d].body, gen |-> webhook.gen]
    BY <1>2 DEF CheckRedelivery
  <2>2. RequestAddressed'
    BY <2>1 DEF RequestAddressed, Addressed, RowsAddressed
  <2> QED BY <2>1, <2>2 DEF DestinationsStay
<1>3. ASSUME NEW d \in Delivery, EnqueueRedelivery(d)
      PROVE  DestinationsStay /\ \A w \in Worker : SameLocals(w)
  <2>1. /\ UNCHANGED <<webhook, workerVars>> /\ request' = NoRequest
        /\ crossed' = IF Overtaken \/ request.from \in crossed THEN crossed \cup {d} ELSE crossed
    BY <1>3 DEF EnqueueRedelivery
  <2>2. RequestAddressed'
    BY <2>1 DEF RequestAddressed, NoRequest, NoBody
  <2>3. d \notin crossed' => request.body \in {NoBody, webhook.gen}
    BY <2>1 DEF Overtaken, Addressed, RequestAddressed
  <2> QED BY <1>3, <2>1, <2>2, <2>3, QueuedRow DEF DestinationsStay
<1>4. ASSUME NEW d \in Delivery, Purge(d)
      PROVE  DestinationsStay /\ \A w \in Worker : SameLocals(w)
  <2>1. delivery[d].state # "none"
    BY <1>4 DEF Purge, Finished
  <2> QED BY <1>4, <2>1 DEF Purge, Gone, NoRow, DestinationsStay, requestVars
<1>5. CASE Delete
  <2>1. webhook'.gen = webhook.gen
    BY <1>5 DEF Delete, WebhookType
  <2> QED BY <1>5, <2>1 DEF Delete, Gone, NoRow, DestinationsStay
<1>6. CASE DisableRemovedEvent
  <2>1. webhook'.gen = webhook.gen
    BY <1>6 DEF DisableRemovedEvent, WebhookType
  <2> QED BY <1>6, <2>1, RowsAlone DEF DisableRemovedEvent
<1>7. CASE Tick
  <2>1. webhook'.gen = webhook.gen
    BY <1>7 DEF Tick, WebhookType
  <2>2. \A d \in Delivery : /\ delivery'[d].state = delivery[d].state
                            /\ delivery'[d].body = delivery[d].body
                            /\ delivery'[d].older = delivery[d].older
    BY <1>7 DEF Tick, Older, RowType
  <2> QED BY <1>7, <2>1, <2>2 DEF Tick, DestinationsStay, requestVars
<1>8. CASE (\E p \in Leavers : Leave(p)) \/ EditWaits \/ UNCHANGED vars
  <2>1. UNCHANGED <<delivery, webhook, request, crossed, workerVars>>
    BY <1>8, WaitsUnseen DEF Leave, vars, requestVars
  <2> QED BY <2>1, RowsAlone
<1> QED BY <1>1, <1>2, <1>3, <1>4, <1>5, <1>6, <1>7, <1>8 DEF Next, EndUpdate, EditWaits

\* An edit that moves the destination makes every row there is an older one, or a
\* crossed one, and overtakes a redelivery that has been checked.
LEMMA CommitAddresses ==
  ASSUME IInv, Addressed, NEW newUrl \in BOOLEAN, NEW act \in {"on", "off", "keep"},
         CommitUpdate(newUrl, act)
  PROVE  Addressed'
<1> USE DEF IInv, Rows
<1>1. \A w \in Worker : SameLocals(w)
  BY DEF CommitUpdate, SameLocals, workerVars
<1>2. CASE delivery' = delivery /\ webhook'.gen = webhook.gen /\ crossed' = crossed
  BY <1>1, <1>2, RowsAlone, StaysAddressed DEF Addressed, CommitUpdate
<1>3. CASE delivery' = Dated /\ webhook'.gen = webhook.gen + 1 /\ crossed' = crossed \cup editing.young
  <2>1. \A d \in Delivery :
          /\ delivery'[d].older = (delivery[d].state # "none" /\ d \notin editing.young)
          /\ delivery'[d].state = delivery[d].state
          /\ delivery'[d].body = delivery[d].body
    BY <1>3 DEF Dated, RowType
  <2>2. RowsAddressed'
    BY <1>3, <2>1 DEF Addressed, RowsAddressed
  <2>3. RequestAddressed'
    <3>1. request.gen \in 0 .. webhook.gen /\ webhook.gen \in Nat /\ request' = request
      BY Counters DEF Rest, CommitUpdate
    <3>2. request'.gen # webhook'.gen
      BY <1>3, <3>1
    <3> QED BY <3>2 DEF RequestAddressed
  <2>4. ASSUME NEW w \in Worker PROVE WorkerAddressed(w)'
    <3>1. pc'[w] = pc[w] /\ job'[w] = job[w] /\ got'[w] = got[w] /\ seen'[w] = seen[w]
      BY <1>1 DEF SameLocals
    <3>2. CASE pc[w] = "idle"
      BY <3>1, <3>2 DEF WorkerAddressed
    <3>3. CASE pc[w] # "idle"
      <4>1. job[w] \in Delivery
        BY <3>3 DEF Locals
      <4>2. delivery[job[w]].state # "none" /\ WorkerAddressed(w)
        BY <3>3 DEF Addressed, WorkerAddressed
      <4>3. /\ job[w] \notin crossed' => delivery'[job[w]].older /\ job[w] \notin crossed
            /\ delivery'[job[w]].state # "none"
        BY <1>3, <2>1, <4>1, <4>2
      <4> QED BY <3>1, <3>3, <4>2, <4>3 DEF WorkerAddressed, AfterPost
    <3> QED BY <3>2, <3>3
  <2> QED BY <2>2, <2>3, <2>4 DEF Addressed
<1>4. \/ /\ delivery' = Dated /\ webhook'.gen = webhook.gen + 1
         /\ crossed' = crossed \cup editing.young
      \/ delivery' = delivery /\ webhook'.gen = webhook.gen /\ crossed' = crossed
  BY DEF CommitUpdate, WebhookType
<1> QED BY <1>2, <1>3, <1>4

\* Every step keeps bodies with their destination.
LEMMA NextAddressed == IInv /\ Addressed /\ [Next]_vars => Addressed'
<1> SUFFICES ASSUME IInv, Addressed, [Next]_vars PROVE Addressed'
  OBVIOUS
<1>1. ASSUME NEW w \in Worker, Step(w) \/ Crash(w) PROVE Addressed'
  <2>1. DestinationsStay
    BY <1>1, StepStays, RowsAlone DEF Crash, requestVars
  <2>2. WorkerAddressed(w)' /\ \A v \in Worker \ {w} : SameLocals(v)
    BY <1>1, <2>1, StepAddresses
  <2> QED BY <2>1, <2>2, StaysAddressed DEF Addressed
<1>2. ASSUME NEW newUrl \in BOOLEAN, NEW act \in {"on", "off", "keep"}, CommitUpdate(newUrl, act)
      PROVE  Addressed'
  BY <1>2, CommitAddresses
<1>3. CASE DestinationsStay /\ \A w \in Worker : SameLocals(w)
  BY <1>3, StaysAddressed DEF Addressed
<1> QED BY <1>1, <1>2, <1>3, OutsideStays

\* P4R1-H1: a body is posted to the destination and under the owner it was built
\* for, however edits, redeliveries and stalled workers interleave, whatever the
\* clocks say within Skew and whenever the transaction of a row began, but for the
\* crossed rows: those so young at an edit that its clock dates it before them, and
\* copies made by a redelivery that an edit overtook, or made of such a row.
THEOREM BodiesStay == Spec => []BodyStaysWithDestination
<1>1. Init => Addressed
  BY DEF Init, Addressed, RequestAddressed, RowsAddressed, WorkerAddressed, NoRow, NoRequest, NoBody
<1>2. IInv /\ Addressed => BodyStaysWithDestination
  BY DEF IInv, Locals, Addressed, WorkerAddressed, AfterPost, BodyStaysWithDestination
<1> QED BY <1>1, <1>2, NextAddressed, Invariance, PTL DEF Spec

\* No edit moves the destination while a redelivery request is between checking
\* the row it copies and inserting the copy.
NotInBetween == webhook'.gen = webhook.gen \/ request = NoRequest

\* Nothing is crossed, nor about to be.
NothingCrosses ==
  crossed = {} /\ editing.young = {} /\ (request # NoRequest => request.gen = webhook.gen)

\* Those are the only two ways a row is crossed: with clocks that are never behind
\* and no edit between a redelivery's check and its insert, BodiesStay excepts none.
THEOREM NoneCrossed ==
  ASSUME Skew = 0
  PROVE  Spec /\ [][NotInBetween]_vars => [](crossed = {})
<1>1. Init => NothingCrosses
  BY DEF Init, NothingCrosses, NoEdit
<1>2. IInv /\ NothingCrosses /\ [Next]_vars /\ [NotInBetween]_vars => NothingCrosses'
  <2> SUFFICES ASSUME IInv, NothingCrosses, [Next]_vars, [NotInBetween]_vars PROVE NothingCrosses'
    OBVIOUS
  <2> USE DEF NothingCrosses, requestVars
  <2>1. ASSUME UNCHANGED requestVars, webhook'.gen = webhook.gen PROVE NothingCrosses'
    BY <2>1
  <2>2. ASSUME NEW w \in Worker, Step(w) \/ Crash(w) PROVE NothingCrosses'
    <3>1. UNCHANGED requestVars
      BY <2>2 DEF Step, Claim, ReadDelivery, ReadWebhook, NothingToSend, OwnerGone, OutOfReach,
         Send, Pause, FinishWithoutSend, Answer, Record, Crash
    <3>2. webhook'.gen = webhook.gen
      <4>1. CASE Record(w) \/ Pause(w)
        BY <4>1 DEF Record, Pause, AfterStreak, AfterFailure, IInv, WebhookType
      <4> QED BY <2>2, <4>1 DEF Step, Claim, ReadDelivery, ReadWebhook, NothingToSend, OwnerGone,
           OutOfReach, Send, FinishWithoutSend, Answer, Crash
    <3> QED BY <2>1, <3>1, <3>2
  <2>3. ASSUME NEW d \in Delivery, CheckRedelivery(d) \/ EnqueueRedelivery(d) PROVE NothingCrosses'
    <3>1. CASE CheckRedelivery(d)
      BY <3>1 DEF CheckRedelivery
    <3>2. CASE EnqueueRedelivery(d)
      BY <3>2 DEF EnqueueRedelivery, Overtaken
    <3> QED BY <2>3, <3>1, <3>2
  <2>4. ASSUME NEW owner \in Person, BeginUpdate(owner) PROVE NothingCrosses'
    <3>1. PICK behind \in 0 .. Skew :
            editing' = [open |-> TRUE, owner |-> owner, young |-> CreatedWithin(behind)]
      BY <2>4 DEF BeginUpdate
    <3>2. CreatedWithin(behind) = {}
      <4>1. behind = 0
        OBVIOUS
      <4>2. \A d \in Delivery : ~ (delivery[d].age < 0)
        BY DEF IInv, Rows, RowType
      <4> QED BY <4>1, <4>2 DEF CreatedWithin
    <3>3. UNCHANGED <<webhook, request, crossed>>
      BY <2>4 DEF BeginUpdate
    <3> QED BY <3>1, <3>2, <3>3
  <2>5. ASSUME NEW newUrl \in BOOLEAN, NEW act \in {"on", "off", "keep"}, CommitUpdate(newUrl, act)
        PROVE  NothingCrosses'
    <3>1. crossed' = {} /\ editing'.young = {} /\ request' = request
      BY <2>5 DEF CommitUpdate, NoEdit
    <3>2. request # NoRequest => webhook'.gen = webhook.gen
      BY DEF NotInBetween, vars
    <3> QED BY <3>1, <3>2
  <2>6. CASE RollBackUpdate
    BY <2>6 DEF RollBackUpdate, NoEdit
  <2>7. ASSUME NEW d \in Delivery, EnqueueEvent(d) \/ EnqueueTest(d) \/ Purge(d)
        PROVE  NothingCrosses'
    BY <2>1, <2>7 DEF EnqueueEvent, EnqueueTest, Purge
  <2>8. CASE Delete \/ DisableRemovedEvent \/ Tick
    <3>1. webhook'.gen = webhook.gen
      BY <2>8 DEF Delete, DisableRemovedEvent, Tick, IInv, WebhookType
    <3> QED BY <2>8, <3>1 DEF Delete, DisableRemovedEvent, Tick
  <2>9. CASE (\E p \in Leavers : Leave(p)) \/ UNCHANGED vars
    BY <2>1, <2>9 DEF Leave, vars
  <2> QED BY <2>2, <2>3, <2>4, <2>5, <2>6, <2>7, <2>8, <2>9 DEF Next, EndUpdate
<1>3. NothingCrosses => crossed = {}
  BY DEF NothingCrosses
<1> QED BY <1>1, <1>2, <1>3, Invariance, PTL DEF Spec

-----------------------------------------------------------------------------
(* The rows are a delivery log *)

\* What a worker remembers of a row whose token it carries is what the row says,
\* though the worker may have read the token of a later claim: the count is that of
\* the claim, and the body is the row's or the one built for a row that had none.
InSync(w) ==
  /\ pc[w] \in {"idle", "claimed"} => got[w] = NothingRead
  /\ pc[w] = "checked" => seen[w].gen # 0
  /\ pc[w] \in AfterPost => got[w].body # NoBody
  /\ Fenced(w) => /\ got[w].attempt = delivery[job[w]].attempt
                  /\ delivery[job[w]].body \in {NoBody, got[w].body}

\* A row keeps its token with its count and body, or nobody has read its token.
EntryKept(d) ==
  \/ delivery'[d].token = NoToken
  \/ \A w \in Worker : got[w].token # delivery'[d].token
  \/ /\ delivery'[d].token = delivery[d].token
     /\ delivery'[d].attempt = delivery[d].attempt /\ delivery'[d].body = delivery[d].body

\* A worker that is left alone stays in line with such rows.
LEMMA StaysInSync ==
  ASSUME IInv, \A d \in Delivery : EntryKept(d),
         NEW w \in Worker, SameLocals(w), InSync(w)
  PROVE  InSync(w)'
<1>1. got[w].token # NoToken => job[w] \in Delivery
  BY DEF IInv, Locals, InSync, NothingRead
<1> QED BY <1>1 DEF InSync, SameLocals, Fenced, EntryKept

\* Every step leaves rows that way: a claim takes a token nobody has, and an
\* outcome takes the token off.
LEMMA EntriesKept ==
  ASSUME IInv, [Next]_vars, NEW d \in Delivery
  PROVE  EntryKept(d)
<1> USE DEF IInv, Rows
<1>1. ASSUME delivery'[d] = delivery[d] PROVE EntryKept(d)
  BY <1>1 DEF EntryKept
<1>2. ASSUME NEW w \in Worker, NEW e \in Delivery, Claim(w, e) PROVE EntryKept(d)
  <2>1. PICK t \in Token :
          /\ Fresh(t)
          /\ delivery' = [delivery EXCEPT ![e].attempt = @ + 1, ![e].token = t, ![e].ttl = Lease]
    BY <1>2 DEF Claim
  <2>2. d # e => delivery'[d] = delivery[d]
    BY <2>1
  <2>3. d = e => delivery'[d].token = t
    BY <2>1 DEF RowType
  <2> QED BY <1>1, <2>1, <2>2, <2>3 DEF Fresh, EntryKept
<1>3. ASSUME NEW w \in Worker, FinishWithoutSend(w) PROVE EntryKept(d)
  <2>1. job[w] \in Delivery
    BY <1>3 DEF FinishWithoutSend, FinishLabels, Locals
  <2>2. Unsent(delivery[job[w]], w).token = NoToken
    <3> DEFINE r == delivery[job[w]]
    <3>1. r \in RowType(webhook.gen)
      BY <2>1
    <3> HIDE DEF r
    <3>2. Unsent(r, w).token = NoToken
      BY <3>1 DEF Unsent, Released, RowType
    <3> QED BY <3>2 DEF r
  <2> QED BY <1>1, <1>3, <2>1, <2>2 DEF FinishWithoutSend, EntryKept
<1>4. ASSUME NEW w \in Worker, Record(w) PROVE EntryKept(d)
  <2>1. job[w] \in Delivery
    BY <1>4 DEF Record, Results, Locals
  <2>2. [Attempted(delivery[job[w]], w) EXCEPT !.body = got[w].body].token = NoToken
    <3> DEFINE r == delivery[job[w]]
    <3>1. r \in RowType(webhook.gen)
      BY <2>1
    <3> HIDE DEF r
    <3>2. [Attempted(r, w) EXCEPT !.body = got[w].body].token = NoToken
      BY <3>1 DEF Attempted, Released, RowType
    <3> QED BY <3>2 DEF r
  <2> QED BY <1>1, <1>4, <2>1, <2>2 DEF Record, EntryKept
<1>5. ASSUME NEW w \in Worker, Step(w) \/ Crash(w) PROVE EntryKept(d)
  BY <1>1, <1>2, <1>3, <1>4, <1>5 DEF Step, ReadDelivery, ReadWebhook, NothingToSend,
     OwnerGone, OutOfReach, Send, Pause, Answer, Crash
<1>6. ASSUME NEW e \in Delivery,
             EnqueueEvent(e) \/ EnqueueTest(e) \/ CheckRedelivery(e) \/ EnqueueRedelivery(e)
      PROVE  EntryKept(d)
  <2>1. delivery[d].state = "none" => delivery[d].token = NoToken
    BY DEF RowInv
  <2>2. CASE CheckRedelivery(e)
    BY <1>1, <2>2 DEF CheckRedelivery
  <2>3. CASE ~ CheckRedelivery(e)
    <3>1. delivery'[d] = delivery[d] \/ (delivery[d].state = "none" /\ delivery'[d].token = delivery[d].token)
      BY <1>6, <2>3, QueuedRow
    <3> QED BY <1>1, <2>1, <3>1 DEF EntryKept
  <2> QED BY <2>2, <2>3
<1>7. ASSUME NEW e \in Delivery, Purge(e) PROVE EntryKept(d)
  <2>1. Gone(e).token = NoToken
    BY DEF Gone, NoRow
  <2> QED BY <1>1, <1>7, <2>1 DEF Purge, EntryKept
<1>8. ASSUME NEW newUrl \in BOOLEAN, NEW act \in {"on", "off", "keep"}, CommitUpdate(newUrl, act)
      PROVE  EntryKept(d)
  BY <1>1, <1>8 DEF CommitUpdate, Dated, EntryKept, RowType
<1>9. CASE Delete
  BY <1>9 DEF Delete, Gone, NoRow, EntryKept
<1>10. CASE Tick
  BY <1>10 DEF Tick, Older, EntryKept, RowType
<1>11. CASE DisableRemovedEvent \/ (\E p \in Leavers : Leave(p)) \/ EditWaits \/ UNCHANGED vars
  BY <1>1, <1>11, WaitsUnseen DEF DisableRemovedEvent, Leave, vars
<1> QED BY <1>5, <1>6, <1>7, <1>8, <1>9, <1>10, <1>11 DEF Next, EndUpdate, EditWaits

\* What a worker knows of its row after its own step.
LEMMA StepInSync ==
  ASSUME IInv, NEW w \in Worker, Step(w) \/ Crash(w), InSync(w)
  PROVE  /\ InSync(w)'
         /\ \A v \in Worker \ {w} : SameLocals(v)
<1> USE DEF IInv, Locals
<1>1. ASSUME Return(w) PROVE InSync(w)' /\ \A v \in Worker \ {w} : SameLocals(v)
  BY <1>1 DEF Return, InSync, SameLocals, Fenced, NothingRead, AfterPost
<1>2. ASSUME NEW label \in Labels \ {"idle", "claimed", "checked"}, Goto(w, label),
             label \in AfterPost => pc[w] \in AfterPost, delivery' = delivery
      PROVE  InSync(w)' /\ \A v \in Worker \ {w} : SameLocals(v)
  BY <1>2 DEF Goto, InSync, SameLocals, Fenced, AfterPost
<1>3. ASSUME NEW d \in Delivery, Claim(w, d)
      PROVE  InSync(w)' /\ \A v \in Worker \ {w} : SameLocals(v)
  BY <1>3 DEF Claim, InSync, SameLocals, Fenced, AfterPost, NothingRead
<1>4. CASE ReadDelivery(w)
  <2>1. CASE Return(w)
    BY <1>1, <2>1
  <2>2. CASE ~ Return(w)
    <3> DEFINE r == delivery[job[w]]
               mine == [token |-> r.token, attempt |-> r.attempt, body |-> r.body]
    <3>1. /\ pc' = [pc EXCEPT ![w] = "read"] /\ got' = [got EXCEPT ![w] = mine]
          /\ job' = job /\ seen' = seen /\ delivery' = delivery
      BY <1>4, <2>2 DEF ReadDelivery
    <3>2. pc'[w] = "read" /\ got'[w] = mine
      BY <3>1
    <3>3. \A v \in Worker \ {w} : SameLocals(v)
      BY <3>1 DEF SameLocals
    <3> QED BY <3>1, <3>2, <3>3 DEF InSync, Fenced, AfterPost
  <2> QED BY <2>1, <2>2
<1>5. CASE ReadWebhook(w)
  <2>1. CASE \E label \in {"cancel", "stale"} : Goto(w, label)
    BY <1>2, <1>5, <2>1 DEF ReadWebhook, Labels, FinishLabels, AfterPost
  <2>2. CASE ~ \E label \in {"cancel", "stale"} : Goto(w, label)
    <3>1. /\ pc' = [pc EXCEPT ![w] = "checked"]
          /\ seen' = [seen EXCEPT ![w] = [owner |-> webhook.owner, gen |-> webhook.gen,
                                          version |-> webhook.version]]
          /\ job' = job /\ got' = got /\ delivery' = delivery /\ pc[w] = "read"
      BY <1>5, <2>2 DEF ReadWebhook
    <3>2. pc'[w] = "checked" /\ seen'[w].gen = webhook.gen /\ webhook.gen # 0
      BY <3>1, Counters
    <3>3. \A v \in Worker \ {w} : SameLocals(v)
      BY <3>1 DEF SameLocals
    <3> QED BY <3>1, <3>2, <3>3 DEF InSync, Fenced, AfterPost
  <2> QED BY <2>1, <2>2
<1>6. CASE NothingToSend(w) \/ OwnerGone(w) \/ OutOfReach(w) \/ Pause(w)
  <2>1. PICK label \in {"cancel", "pause", "skip"} : Goto(w, label) /\ delivery' = delivery
    BY <1>6 DEF NothingToSend, OwnerGone, OutOfReach, Pause
  <2> QED BY <1>2, <2>1 DEF Labels, FinishLabels, AfterPost
<1>7. CASE Send(w)
  <2>1. /\ pc[w] = "checked" /\ pc'[w] = "sending" /\ job' = job /\ delivery' = delivery
        /\ got'[w] = [got[w] EXCEPT !.body = IF got[w].body = NoBody THEN seen[w].gen ELSE got[w].body]
    BY <1>7 DEF Send
  <2>2. \A v \in Worker \ {w} : SameLocals(v)
    BY <1>7 DEF Send, SameLocals
  <2>3. /\ got'[w].token = got[w].token /\ got'[w].attempt = got[w].attempt
        /\ got'[w].body # NoBody /\ got[w].body \in {NoBody, got'[w].body}
    BY <2>1 DEF InSync, NoBody
  <2> QED BY <2>1, <2>2, <2>3 DEF InSync, Fenced, AfterPost
<1>8. CASE Answer(w)
  <2>1. PICK label \in Results :
          /\ pc' = [pc EXCEPT ![w] = label] /\ pc[w] = "sending"
          /\ job' = job /\ got' = got /\ seen' = seen /\ delivery' = delivery
    BY <1>8 DEF Answer, Results
  <2>2. pc'[w] \in Results /\ \A v \in Worker \ {w} : SameLocals(v)
    BY <2>1 DEF SameLocals
  <2> QED BY <2>1, <2>2 DEF InSync, Fenced, AfterPost, Results
<1>9. CASE FinishWithoutSend(w) \/ Record(w) \/ Crash(w)
  BY <1>1, <1>9 DEF FinishWithoutSend, Record, Crash
<1> QED BY <1>3, <1>4, <1>5, <1>6, <1>7, <1>8, <1>9 DEF Step

\* All workers stay in line with their rows.
LEMMA NextInSync ==
  ASSUME IInv, \A w \in Worker : InSync(w), [Next]_vars
  PROVE  \A w \in Worker : InSync(w)'
<1>1. ASSUME NEW w \in Worker, Step(w) \/ Crash(w) PROVE \A v \in Worker : InSync(v)'
  <2>1. InSync(w)' /\ \A v \in Worker \ {w} : SameLocals(v)
    BY <1>1, StepInSync
  <2> QED BY <2>1, EntriesKept, StaysInSync
<1>2. ASSUME \A w \in Worker : SameLocals(w) PROVE \A w \in Worker : InSync(w)'
  BY <1>2, EntriesKept, StaysInSync
<1>3. CASE EditWaits
  BY <1>2, <1>3, WaitsUnseen DEF SameLocals, workerVars
<1>4. CASE ~ EditWaits /\ ~ \E w \in Worker : Step(w) \/ Crash(w)
  BY <1>2, <1>4 DEF Next, EndUpdate, EditWaits, EnqueueEvent, EnqueueTest, CheckRedelivery,
     EnqueueRedelivery, Purge, CommitUpdate, Leave, DisableRemovedEvent, Delete, Tick, SameLocals,
     workerVars, vars
<1> QED BY <1>1, <1>3, <1>4

\* The rows as the log has them.
LogState == [d \in Delivery |-> delivery[d].state]
LogAttempt == [d \in Delivery |-> delivery[d].attempt]
LogOpen == [d \in Delivery |-> delivery[d].token # NoToken]
LogBody == [d \in Delivery |-> delivery[d].body]
logVars == <<LogState, LogAttempt, LogOpen, LogBody>>

\* A step of the drain shows as one of the log, or not at all.
Shows == Ledger!Next \/ UNCHANGED logVars

\* Rows that keep what the log has of them change nothing there.
LEMMA SameLog ==
  ASSUME \A d \in Delivery :
           /\ delivery'[d].state = delivery[d].state /\ delivery'[d].attempt = delivery[d].attempt
           /\ delivery'[d].token = delivery[d].token /\ delivery'[d].body = delivery[d].body
  PROVE  Shows
BY DEF Shows, logVars, LogState, LogAttempt, LogOpen, LogBody

\* One row written is one entry written, as far as the log sees it.
LEMMA OneEntry ==
  ASSUME NEW d \in Delivery, \A e \in Delivery \ {d} : delivery'[e] = delivery[e]
  PROVE  /\ LogState' = [LogState EXCEPT ![d] = delivery'[d].state]
         /\ LogAttempt' = [LogAttempt EXCEPT ![d] = delivery'[d].attempt]
         /\ LogBody' = [LogBody EXCEPT ![d] = delivery'[d].body]
         /\ delivery'[d].token = NoToken => LogOpen' = [LogOpen EXCEPT ![d] = FALSE]
         /\ delivery'[d].token # NoToken => LogOpen' = [LogOpen EXCEPT ![d] = TRUE]
         /\ delivery'[d].state = delivery[d].state => LogState' = LogState
         /\ delivery'[d].attempt = delivery[d].attempt => LogAttempt' = LogAttempt
         /\ delivery'[d].body = delivery[d].body => LogBody' = LogBody
         /\ delivery'[d].token = delivery[d].token => LogOpen' = LogOpen
<1>1. LogState' = [LogState EXCEPT ![d] = delivery'[d].state]
  BY DEF LogState
<1>2. LogAttempt' = [LogAttempt EXCEPT ![d] = delivery'[d].attempt]
  BY DEF LogAttempt
<1>3. LogBody' = [LogBody EXCEPT ![d] = delivery'[d].body]
  BY DEF LogBody
<1>4. delivery'[d].token = NoToken => LogOpen' = [LogOpen EXCEPT ![d] = FALSE]
  BY DEF LogOpen
<1>5. delivery'[d].token # NoToken => LogOpen' = [LogOpen EXCEPT ![d] = TRUE]
  BY DEF LogOpen
<1>6. /\ delivery'[d].state = delivery[d].state => LogState' = LogState
      /\ delivery'[d].attempt = delivery[d].attempt => LogAttempt' = LogAttempt
      /\ delivery'[d].body = delivery[d].body => LogBody' = LogBody
      /\ delivery'[d].token = delivery[d].token => LogOpen' = LogOpen
  BY DEF LogState, LogAttempt, LogBody, LogOpen
<1> QED BY <1>1, <1>2, <1>3, <1>4, <1>5, <1>6

\* The routes and the consumer queue.
LEMMA QueueShows ==
  ASSUME IInv, NEW d \in Delivery,
         EnqueueEvent(d) \/ EnqueueTest(d) \/ CheckRedelivery(d) \/ EnqueueRedelivery(d)
  PROVE  Shows
<1>1. CASE CheckRedelivery(d)
  BY <1>1, SameLog DEF CheckRedelivery
<1>2. CASE EnqueueEvent(d) \/ EnqueueTest(d) \/ EnqueueRedelivery(d)
  <2> DEFINE r == delivery'[d]
  <2>1. /\ delivery[d].state = "none" /\ r.state = "pending"
        /\ r.attempt = delivery[d].attempt /\ r.token = delivery[d].token
        /\ \A e \in Delivery \ {d} : delivery'[e] = delivery[e]
    BY <1>2, QueuedRow
  <2>2. r.body \in 1 .. MaxEdits + 1 \cup {NoBody}
    <3>1. webhook.gen \in 1 .. MaxEdits + 1 /\ request.body \in 0 .. webhook.gen
          /\ delivery[d].body \in 0 .. webhook.gen
      BY DEF IInv, WebhookType, Rest, Rows, RowType
    <3>2. r.body \in {delivery[d].body, webhook.gen, request.body}
      BY <1>2, QueuedRow
    <3> QED BY <3>1, <3>2, Lengths DEF NoBody
  <2>3. /\ LogState' = [LogState EXCEPT ![d] = "pending"]
        /\ LogBody' = [LogBody EXCEPT ![d] = r.body]
        /\ LogAttempt' = LogAttempt /\ LogOpen' = LogOpen /\ LogState[d] = "none"
    BY <2>1, OneEntry DEF LogState
  <2>4. Ledger!Queue(d)
    BY <2>2, <2>3 DEF Ledger!Queue, LogState, LogAttempt, LogOpen, LogBody
  <2> QED BY <2>4 DEF Shows, Ledger!Next
<1> QED BY <1>1, <1>2

\* A claim is a try.
LEMMA ClaimShows ==
  ASSUME IInv, NEW w \in Worker, NEW d \in Delivery, Claim(w, d)
  PROVE  Shows
<1>1. PICK t \in Token :
        delivery' = [delivery EXCEPT ![d].attempt = @ + 1, ![d].token = t, ![d].ttl = Lease]
  BY DEF Claim
<1> DEFINE r == delivery'[d]
<1>2. /\ r.state = delivery[d].state /\ r.state = "pending"
      /\ r.attempt = delivery[d].attempt + 1 /\ r.token = t /\ r.body = delivery[d].body
      /\ \A e \in Delivery \ {d} : delivery'[e] = delivery[e]
  BY <1>1 DEF Claim, Claimable, IInv, Rows, RowType
<1>3. t # NoToken
  BY WebhookAssumption
<1>4. /\ LogState' = LogState /\ LogBody' = LogBody /\ LogState[d] = "pending"
      /\ LogAttempt' = [LogAttempt EXCEPT ![d] = LogAttempt[d] + 1]
      /\ LogOpen' = [LogOpen EXCEPT ![d] = TRUE]
  BY <1>2, <1>3, OneEntry DEF LogState, LogAttempt
<1>5. Ledger!Try(d)
  BY <1>4 DEF Ledger!Try, LogState, LogAttempt, LogOpen, LogBody
<1> QED BY <1>5 DEF Shows, Ledger!Next

\* The row of a delivery that is not sent is withheld, its own try given back.
LEMMA FinishShows ==
  ASSUME IInv, NEW w \in Worker, InSync(w), FinishWithoutSend(w)
  PROVE  Shows
<1>1. CASE ~ Fenced(w)
  BY <1>1, SameLog DEF FinishWithoutSend
<1>2. CASE Fenced(w)
  <2>0. PICK d \in Delivery : d = job[w]
    BY DEF FinishWithoutSend, FinishLabels, IInv, Locals
  <2> DEFINE old == delivery[d]
             r == Unsent(old, w)
  <2>1. /\ old.state = "pending" /\ old.token # NoToken
        /\ old.attempt = got[w].attempt /\ old \in RowType(webhook.gen)
    BY <1>2, <2>0, FenceMeansPending DEF FinishWithoutSend, FinishLabels, Fenced, InSync, IInv, Rows
  <2>2. delivery'[d] = r /\ \A e \in Delivery \ {d} : delivery'[e] = delivery[e]
    BY <1>2, <2>0 DEF IInv, Rows, FinishWithoutSend
  <2>3. /\ r.token = NoToken /\ r.attempt = got[w].attempt - 1
        /\ \/ r.state = "cancelled" /\ r.body = old.body
           \/ r.state = "skipped_out_of_reach" /\ r.body = NoBody
    <3> HIDE DEF old
    <3> QED BY <2>1 DEF Unsent, Released, RowType
  <2> HIDE DEF r
  <2>4. /\ LogState[d] = "pending" /\ LogOpen[d] /\ LogAttempt[d] = got[w].attempt
        /\ LogBody[d] = old.body
    BY <2>1 DEF LogState, LogOpen, LogAttempt, LogBody
  <2>5. /\ LogOpen' = [LogOpen EXCEPT ![d] = FALSE]
        /\ LogAttempt' = [LogAttempt EXCEPT ![d] = LogAttempt[d] - 1]
        /\ \/ LogState' = [LogState EXCEPT ![d] = "cancelled"] /\ LogBody' = LogBody
           \/ /\ LogState' = [LogState EXCEPT ![d] = "skipped_out_of_reach"]
              /\ LogBody' = [LogBody EXCEPT ![d] = NoBody]
    BY <2>1, <2>2, <2>3, <2>4, OneEntry
  <2>6. Ledger!Withheld(d)
    BY <2>4, <2>5 DEF Ledger!Withheld, LogState, LogAttempt, LogOpen, LogBody
  <2> QED BY <2>1, <2>6 DEF Shows, Ledger!Next
<1> QED BY <1>1, <1>2

\* The answer to a try is recorded under its own count, with the body that was sent.
LEMMA RecordShows ==
  ASSUME IInv, NEW w \in Worker, InSync(w), Record(w)
  PROVE  Shows
<1>1. CASE ~ Fenced(w)
  BY <1>1, SameLog DEF Record
<1>2. CASE Fenced(w)
  <2>0. PICK d \in Delivery : d = job[w]
    BY DEF Record, Results, IInv, Locals
  <2> DEFINE old == delivery[d]
             r == [Attempted(old, w) EXCEPT !.body = got[w].body]
             end == IF got[w].attempt < Limit THEN "pending" ELSE "dead"
  <2>1. /\ old.state = "pending" /\ old.token # NoToken
        /\ old.attempt = got[w].attempt /\ old \in RowType(webhook.gen)
        /\ got[w].body # NoBody /\ old.body \in {NoBody, got[w].body}
    BY <1>2, <2>0, FenceMeansPending DEF Record, Results, AfterPost, Fenced, InSync, IInv, Rows
  <2>2. delivery'[d] = r /\ \A e \in Delivery \ {d} : delivery'[e] = delivery[e]
    BY <1>2, <2>0 DEF IInv, Rows, Record
  <2>3. got[w].attempt \in Nat /\ Limit \in Nat
    BY WebhookAssumption DEF IInv, Locals
  <2>4. /\ r.token = NoToken /\ r.attempt = old.attempt /\ r.body = got[w].body
        /\ r.state \in {"delivered", end}
    <3> HIDE DEF old
    <3> QED BY <2>1, <2>3 DEF Attempted, Released, RowType
  <2>5. got[w].body \in 1 .. MaxEdits + 1
    <3>1. got[w].body \in 0 .. webhook.gen /\ webhook.gen \in 1 .. MaxEdits + 1
      BY DEF IInv, Locals, WebhookType
    <3> QED BY <2>1, <3>1, Lengths DEF NoBody
  <2> HIDE DEF r
  <2>6. /\ LogState[d] = "pending" /\ LogOpen[d] /\ LogAttempt[d] = got[w].attempt
        /\ LogBody[d] \in {NoBody, got[w].body}
    BY <2>1 DEF LogState, LogOpen, LogAttempt, LogBody
  <2>7. /\ LogOpen' = [LogOpen EXCEPT ![d] = FALSE]
        /\ LogAttempt' = LogAttempt
        /\ LogBody' = [LogBody EXCEPT ![d] = got[w].body]
        /\ \E s \in {"delivered", end} : LogState' = [LogState EXCEPT ![d] = s]
    BY <2>1, <2>2, <2>4, OneEntry
  <2>8. Ledger!Answered(d)
    BY <2>5, <2>6, <2>7 DEF Ledger!Answered, LogState, LogAttempt, LogOpen, LogBody
  <2> QED BY <2>1, <2>8 DEF Shows, Ledger!Next
<1> QED BY <1>1, <1>2

\* The purge forgets a row that is over, a deletion all of them.
LEMMA RemovalShows ==
  ASSUME IInv, Delete \/ \E d \in Delivery : Purge(d)
  PROVE  Shows
<1>1. \A d \in Delivery : /\ Gone(d).state = "gone" /\ Gone(d).attempt = 0
                          /\ Gone(d).token = NoToken /\ Gone(d).body = NoBody
  BY DEF Gone, NoRow
<1>2. CASE Delete
  <2>1. \A d \in Delivery : delivery'[d] = Gone(d)
    BY <1>2 DEF Delete
  <2>2. Ledger!Forget(Delivery)
    BY <1>1, <2>1 DEF Ledger!Forget
  <2> QED BY <2>2 DEF Shows, Ledger!Next
<1>3. ASSUME NEW d \in Delivery, Purge(d) PROVE Shows
  <2>1. /\ \A e \in Delivery : delivery'[e] = IF e = d THEN Gone(d) ELSE delivery[e]
        /\ delivery[d].state \in Finished
    BY <1>3 DEF Purge, IInv, Rows
  <2>2. Ledger!Forget({d})
    BY <1>1, <2>1 DEF Ledger!Forget, Ledger!Ends, Finished
  <2> QED BY <2>2 DEF Shows, Ledger!Next
<1> QED BY <1>2, <1>3

\* Every step of the drain and of what goes on around it is one of the log.
LEMMA StepShows ==
  ASSUME IInv, \A w \in Worker : InSync(w), [Next]_vars
  PROVE  Shows
<1> USE DEF IInv, Rows, RowType
<1>1. ASSUME NEW w \in Worker, Step(w) \/ Crash(w) PROVE Shows
  BY <1>1, ClaimShows, FinishShows, RecordShows, SameLog DEF Step, ReadDelivery, ReadWebhook,
     NothingToSend, OwnerGone, OutOfReach, Send, Pause, Answer, Crash
<1>2. ASSUME NEW d \in Delivery,
             EnqueueEvent(d) \/ EnqueueTest(d) \/ CheckRedelivery(d) \/ EnqueueRedelivery(d)
      PROVE  Shows
  BY <1>2, QueueShows
<1>3. CASE Delete \/ \E d \in Delivery : Purge(d)
  BY <1>3, RemovalShows
<1>4. ASSUME NEW newUrl \in BOOLEAN, NEW act \in {"on", "off", "keep"}, CommitUpdate(newUrl, act)
      PROVE  Shows
  <2>1. delivery' \in {delivery, Dated}
    BY <1>4 DEF CommitUpdate
  <2> QED BY <2>1, SameLog DEF Dated
<1>5. CASE Tick
  BY <1>5, SameLog DEF Tick, Older
<1>6. CASE DisableRemovedEvent \/ (\E p \in Leavers : Leave(p)) \/ EditWaits \/ UNCHANGED vars
  BY <1>6, SameLog, WaitsUnseen DEF DisableRemovedEvent, Leave, vars
<1> QED BY <1>1, <1>2, <1>3, <1>4, <1>5, <1>6 DEF Next, EndUpdate, EditWaits

\* WH-4, WH-8: for any workers, leases, edits, purges and crashes, and without an
\* assumption on timing, the rows are a delivery log: a try supersedes one that was
\* not recorded, its answer is recorded at most once and under its own count, an
\* outcome is never rewritten, and a body that got an answer is the one retried.
THEOREM ImplementsTheLog == Spec => ImplementsLedger
<1>1. Init => Ledger!Init
  <2> SUFFICES ASSUME Init PROVE Ledger!Init
    OBVIOUS
  <2>1. \A d \in Delivery : /\ delivery[d].state = "none" /\ delivery[d].attempt = 0
                            /\ (delivery[d].token # NoToken) = FALSE
                            /\ delivery[d].body = NoBody
    BY DEF Init, NoRow
  <2> QED BY <2>1 DEF Ledger!Init
<1>2. Init => \A w \in Worker : InSync(w)
  BY DEF Init, InSync, Fenced, NothingRead, AfterPost
<1>3. IInv /\ (\A w \in Worker : InSync(w)) /\ [Next]_vars =>
        (\A w \in Worker : InSync(w))' /\ [Ledger!Next]_logVars
  BY NextInSync, StepShows DEF Shows
<1> QED
  BY <1>1, <1>2, <1>3, Invariance, PTL
     DEF Spec, ImplementsLedger, Ledger!Spec, logVars, LogState, LogAttempt, LogOpen, LogBody

-----------------------------------------------------------------------------
(* What a pause for an owner who left rests on *)

\* The row of the webhook does not change under a worker that has read it and has
\* yet to judge its owner or to write the pause.
FreshReads ==
  \A w \in Worker :
    pc[w] \in {"checked", "pause"} /\ pc'[w] \in {"checked", "pause"} =>
      webhook'.version = webhook.version

\* Such a worker knows the row as it is; who is to be paused has left.
Judged ==
  \A w \in Worker :
    /\ pc[w] \in {"checked", "pause"} =>
         seen[w].owner = webhook.owner /\ seen[w].version = webhook.version
    /\ pc[w] = "pause" => webhook.owner \notin staff

\* A change of what an administrator sees and edits takes the next version.
EditCounted ==
  \/ webhook'.version = webhook.version + 1
  \/ /\ webhook'.version = webhook.version /\ webhook'.owner = webhook.owner
     /\ webhook'.gen = webhook.gen /\ webhook'.active = webhook.active
     /\ webhook'.reason = webhook.reason

PausedRightly ==
  webhook.active /\ ~ webhook'.active /\ webhook'.reason = "owner_left" =>
    webhook.owner \notin staff

\* Nothing but the pause is in doubt.
LEMMA EditsCounted ==
  ASSUME IInv, Judged, [Next]_vars
  PROVE  EditCounted /\ PausedRightly
<1> USE DEF IInv, WebhookType
<1>1. ASSUME webhook' = webhook PROVE EditCounted /\ PausedRightly
  BY <1>1 DEF EditCounted, PausedRightly
<1>2. ASSUME NEW w \in Worker, Pause(w) PROVE EditCounted /\ PausedRightly
  <2>1. seen[w].version = webhook.version /\ webhook.owner \notin staff
    BY <1>2 DEF Pause, Judged
  <2> QED BY <1>1, <1>2, <2>1 DEF Pause, EditCounted, PausedRightly
<1>3. ASSUME NEW w \in Worker, Record(w) PROVE EditCounted /\ PausedRightly
  <2>1. ASSUME NEW success \in BOOLEAN, webhook' = AfterStreak(success, lag[w])
        PROVE  EditCounted /\ PausedRightly
    BY <2>1 DEF AfterStreak, AfterFailure, EditCounted, PausedRightly
  <2>2. webhook' = webhook \/ \E success \in BOOLEAN : webhook' = AfterStreak(success, lag[w])
    BY <1>3 DEF Record
  <2> QED BY <1>1, <2>1, <2>2
<1>4. ASSUME NEW newUrl \in BOOLEAN, NEW act \in {"on", "off", "keep"}, CommitUpdate(newUrl, act)
      PROVE  EditCounted /\ PausedRightly
  BY <1>4 DEF CommitUpdate, EditCounted, PausedRightly
<1>5. CASE DisableRemovedEvent
  BY <1>5 DEF DisableRemovedEvent, EditCounted, PausedRightly
<1>6. CASE Delete \/ Tick
  BY <1>6 DEF Delete, Tick, EditCounted, PausedRightly
<1>7. ASSUME NEW w \in Worker, Step(w) \/ Crash(w) PROVE EditCounted /\ PausedRightly
  BY <1>1, <1>2, <1>3, <1>7 DEF Step, Claim, ReadDelivery, ReadWebhook, NothingToSend, OwnerGone,
     OutOfReach, Send, FinishWithoutSend, Answer, Crash
<1>8. ASSUME NEW d \in Delivery, EnqueueEvent(d) \/ EnqueueTest(d) \/ CheckRedelivery(d)
                                   \/ EnqueueRedelivery(d) \/ Purge(d)
      PROVE  EditCounted /\ PausedRightly
  BY <1>1, <1>8 DEF EnqueueEvent, EnqueueTest, CheckRedelivery, EnqueueRedelivery, Purge
<1>9. CASE (\E p \in Leavers : Leave(p)) \/ EditWaits \/ UNCHANGED vars
  BY <1>1, <1>9, WaitsUnseen DEF Leave, vars
<1> QED BY <1>4, <1>5, <1>6, <1>7, <1>8, <1>9 DEF Next, EndUpdate, EditWaits

\* Where the labels come from at which a worker relies on the row it read.
LEMMA JudgingMoves ==
  ASSUME IInv, [Next]_vars, NEW w \in Worker, pc'[w] \in {"checked", "pause"}
  PROVE  /\ staff' \subseteq staff
         /\ \/ /\ pc[w] \in {"checked", "pause"} /\ seen'[w] = seen[w]
               /\ \/ pc'[w] = pc[w]
                  \/ pc'[w] = "pause" /\ seen[w].owner \notin staff /\ staff' = staff
            \/ /\ pc'[w] = "checked" /\ webhook' = webhook
               /\ seen'[w] = [owner |-> webhook.owner, gen |-> webhook.gen,
                              version |-> webhook.version]
<1> USE DEF IInv, Locals
<1>1. ASSUME NEW v \in Worker, Step(v) \/ Crash(v), v # w
      PROVE  pc'[w] = pc[w] /\ seen'[w] = seen[w] /\ staff' = staff
  <2>1. \A label : Goto(v, label) => pc'[w] = pc[w] /\ seen'[w] = seen[w]
    BY <1>1 DEF Goto
  <2>2. Return(v) => pc'[w] = pc[w] /\ seen'[w] = seen[w]
    BY <1>1 DEF Return
  <2>3. ASSUME ReadDelivery(v) \/ ReadWebhook(v)
        PROVE  pc'[w] = pc[w] /\ seen'[w] = seen[w] /\ staff' = staff
    BY <1>1, <2>1, <2>2, <2>3 DEF ReadDelivery, ReadWebhook
  <2>4. ASSUME NEW d \in Delivery, Claim(v, d)
        PROVE  pc'[w] = pc[w] /\ seen'[w] = seen[w] /\ staff' = staff
    BY <1>1, <2>4 DEF Claim
  <2>5. ASSUME Send(v) \/ Answer(v) \/ NothingToSend(v) \/ OwnerGone(v) \/ OutOfReach(v) \/ Pause(v)
        PROVE  pc'[w] = pc[w] /\ seen'[w] = seen[w] /\ staff' = staff
    BY <1>1, <2>1, <2>5 DEF Send, Answer, NothingToSend, OwnerGone, OutOfReach, Pause
  <2> QED BY <1>1, <2>2, <2>3, <2>4, <2>5 DEF Step, FinishWithoutSend, Record, Crash
<1>2. ASSUME Step(w) \/ Crash(w)
      PROVE  ReadWebhook(w) \/ OwnerGone(w)
  <2>1. ~ Return(w)
    BY DEF Return
  <2> QED BY <1>2, <2>1 DEF Step, Claim, ReadDelivery, NothingToSend, OutOfReach, Send, Pause,
        FinishWithoutSend, Answer, Record, Crash, Goto, FinishLabels, Results
<1>3. ASSUME ReadWebhook(w)
      PROVE  /\ pc'[w] = "checked" /\ webhook' = webhook /\ staff' = staff
             /\ seen'[w] = [owner |-> webhook.owner, gen |-> webhook.gen,
                            version |-> webhook.version]
  BY <1>3 DEF ReadWebhook, Goto
<1>4. ASSUME OwnerGone(w)
      PROVE  /\ pc[w] = "checked" /\ pc'[w] = "pause" /\ seen'[w] = seen[w] /\ staff' = staff
             /\ seen[w].owner \notin staff
  BY <1>4 DEF OwnerGone, Goto
<1>5. CASE ~ \E v \in Worker : Step(v) \/ Crash(v)
  <2>1. EditWaits => UNCHANGED <<pc, seen>> /\ staff' \subseteq staff
    BY WaitsUnseen DEF workerVars
  <2>2. ~ EditWaits => UNCHANGED <<pc, seen>> /\ staff' \subseteq staff
    BY <1>5 DEF Next, EndUpdate, EditWaits, EnqueueEvent, EnqueueTest, CheckRedelivery,
       EnqueueRedelivery, Purge, CommitUpdate, Leave, DisableRemovedEvent, Delete, Tick, workerVars,
       vars
  <2> QED BY <2>1, <2>2
<1> QED BY <1>1, <1>2, <1>3, <1>4, <1>5

\* Workers go on judging the row as it is.
LEMMA NextJudged == IInv /\ Judged /\ [Next]_vars /\ FreshReads => Judged'
<1> SUFFICES ASSUME IInv, Judged, [Next]_vars, FreshReads, NEW w \in Worker,
                    pc'[w] \in {"checked", "pause"}
             PROVE  /\ seen'[w].owner = webhook'.owner /\ seen'[w].version = webhook'.version
                    /\ pc'[w] = "pause" => webhook'.owner \notin staff'
  BY DEF Judged
<1>1. CASE pc[w] \in {"checked", "pause"} /\ seen'[w] = seen[w]
  <2>1. webhook'.version = webhook.version
    BY <1>1 DEF FreshReads
  <2>2. webhook'.owner = webhook.owner
    BY <2>1, EditsCounted, Counters DEF EditCounted
  <2> QED BY <1>1, <2>1, <2>2, JudgingMoves DEF Judged
<1>2. CASE /\ pc'[w] = "checked" /\ webhook' = webhook
           /\ seen'[w] = [owner |-> webhook.owner, gen |-> webhook.gen,
                          version |-> webhook.version]
  BY <1>2
<1> QED BY <1>1, <1>2, JudgingMoves

\* WH-14 and the version fence of edits: as long as no edit commits between the
\* reading of a webhook and its pause, only a webhook whose owner has left is
\* paused as owner_left, and every change of the row takes the next version, so
\* that an edit made on sight of one content cannot overwrite another. (The pause
\* looks at neither again, so an edit in between breaks both.)
THEOREM PausesAreJustified ==
  Spec /\ [][FreshReads]_vars => [][EditCounted /\ PausedRightly]_vars
<1>1. Init => Judged
  BY DEF Init, Judged
<1>2. IInv /\ Judged /\ [Next]_vars /\ [FreshReads]_vars => Judged'
  <2>1. UNCHANGED vars => FreshReads
    BY DEF FreshReads, vars
  <2> QED BY <2>1, NextJudged
<1>3. IInv /\ Judged /\ [Next]_vars => [EditCounted /\ PausedRightly]_vars
  BY EditsCounted
<1> QED BY <1>1, <1>2, <1>3, Invariance, PTL DEF Spec
=============================================================================
