---------------------------- MODULE ItemTransitions ----------------------------
(***************************************************************************)
(* Transitions of one work item (work-item/controllers/                    *)
(* transition-work-item.ts), the approvals that gate them (approval/) and  *)
(* the hops they schedule (scheduler/scheduled-transition.ts).  Whoever    *)
(* moves the item reads it unlocked first and again under its row lock;    *)
(* approvals are decided under the same lock, expired without it.  Each    *)
(* step is one statement or transaction.                                   *)
(***************************************************************************)
EXTENDS Naturals, FiniteSets

CONSTANTS
  State, Start,
  Edge, From, To,
  Gate,          \* Edge -> "open", or the policy of its approval gate
  Hop, NoHop,    \* Edge -> target of its schedule_transition effect
  NoEdge,
  Requested,     \* edges approvals are requested for
  Request, Worker, Approval,
  Expiry, Delay, \* ticks: expires_at of an approval, after_minutes of a hop
  MaxMoves,      \* bound on transitions, scheduled ones included
  MaxAsked,      \* bound on transitions people ask for
  MaxRetired,    \* bound on deletions and archivings
  MaxFaults      \* bound on failing transactions and dying workers

ASSUME TransitionsAssumption ==
  /\ Start \in State /\ NoHop \notin State /\ NoEdge \notin Edge
  /\ From \in [Edge -> State] /\ To \in [Edge -> State]
  /\ Gate \in [Edge -> {"open", "any", "all"}]
  /\ Hop \in [Edge -> State \cup {NoHop}]
  /\ Requested \subseteq Edge /\ IsFiniteSet(Approval)
  /\ Expiry \in Nat /\ Delay \in Nat /\ MaxMoves \in Nat /\ MaxAsked \in Nat
  /\ MaxRetired \in Nat /\ MaxFaults \in Nat

Row == 1 .. MaxMoves

VARIABLES
  state, life,                       \* the work item
  row, waitsIn, leadsTo, dueIn,      \* scheduled_transition
  approval, edgeOf, expiresIn,       \* approval
  ranSince,                          \* Approval -> its edge ran after created_at
  asking, seen, target,              \* Request -> what it read and wants
  doing, batch, skip,                \* Worker -> position, rows read, rows given up
  moves, asked, retired, faults,
  left,                              \* history: rows whose item was elsewhere or gone since
  uses, gatedRuns                    \* history: runs an approval backed, runs of a gated edge

itemVars == <<state, life>>
rowVars == <<row, waitsIn, leadsTo, dueIn>>
approvalVars == <<approval, edgeOf, expiresIn, ranSince>>
requestVars == <<asking, seen, target>>
workerVars == <<doing, batch, skip>>
history == <<left, uses, gatedRuns>>
vars == <<itemVars, rowVars, approvalVars, requestVars, workerVars,
          moves, asked, retired, faults, history>>

Init ==
  /\ state = Start /\ life = "live"
  /\ row = [r \in Row |-> "none"]
  /\ waitsIn = [r \in Row |-> Start] /\ leadsTo = [r \in Row |-> Start]
  /\ dueIn = [r \in Row |-> 0]
  /\ approval = [a \in Approval |-> "none"]
  /\ edgeOf = [a \in Approval |-> NoEdge]
  /\ expiresIn = [a \in Approval |-> 0]
  /\ ranSince = [a \in Approval |-> FALSE]
  /\ asking = [q \in Request |-> FALSE]
  /\ seen = [q \in Request |-> Start] /\ target = [q \in Request |-> Start]
  /\ doing = [w \in Worker |-> "idle"]
  /\ batch = [w \in Worker |-> {}] /\ skip = [w \in Worker |-> {}]
  /\ moves = 0 /\ asked = 0 /\ retired = 0 /\ faults = 0
  /\ left = {}
  /\ uses = [a \in Approval |-> 0] /\ gatedRuns = [e \in Edge |-> 0]

-----------------------------------------------------------------------------
(* Gates *)

CountingEvenSpent(e) ==
  {a \in Approval : edgeOf[a] = e /\ approval[a] \in {"pending", "approved", "rejected"}}

\* countingApprovalClause and approvalsMatchingGate: of this edge, not withdrawn
\* or expired, and requested after the edge last ran.
Counting(e) == {a \in CountingEvenSpent(e) : ~ ranSince[a]}

Approved(approvals) == {a \in approvals : approval[a] = "approved"}

\* isGateSatisfied
GateSatisfied(e) ==
  \/ Gate[e] = "open"
  \/ Gate[e] = "any" /\ Approved(Counting(e)) # {}
  \/ Gate[e] = "all" /\ Counting(e) # {} /\ Approved(Counting(e)) = Counting(e)

Matching(from, to) == {e \in Edge : From[e] = from /\ To[e] = to}

\* A person holds the union of the edges: an open one before a gated one.
Available(from, to) ==
  LET open == {e \in Matching(from, to) : Gate[e] = "open"}
  IN  IF open # {} THEN open ELSE {e \in Matching(from, to) : GateSatisfied(e)}

\* The scheduler takes the most restrictive edge and cannot satisfy a gate; the
\* stored hop needs no edge of the current version (inertEdge).
SystemEdges(from, to) ==
  IF Matching(from, to) = {} THEN {NoEdge}
  ELSE IF \A e \in Matching(from, to) : Gate[e] = "open" THEN Matching(from, to) ELSE {}

-----------------------------------------------------------------------------
(* What one run of an edge commits, under the lock of the item *)

Ends(rows) == [r \in Row |-> IF r \in rows /\ row[r] = "pending" THEN "cancelled" ELSE row[r]]

\* cancelPendingScheduledTransitions with exceptFromStateId
Elsewhere(to) == {r \in Row : waitsIn[r] # to}

\* schedule_transition: a row waiting in the state the item is in now.
Schedules(e, to, rows) ==
  LET r == moves + 1
  IN  IF e \in Edge /\ Hop[e] # NoHop
      THEN /\ row' = [rows EXCEPT ![r] = "pending"]
           /\ waitsIn' = [waitsIn EXCEPT ![r] = to]
           /\ leadsTo' = [leadsTo EXCEPT ![r] = Hop[e]]
           /\ dueIn' = [dueIn EXCEPT ![r] = Delay]
      ELSE row' = rows /\ UNCHANGED <<waitsIn, leadsTo, dueIn>>

LeftOpen(e) == approval

\* closePendingApprovalsOnTransition, for a gated edge only.
Closed(e) ==
  [a \in Approval |-> IF edgeOf[a] = e /\ approval[a] = "pending" THEN "expired" ELSE approval[a]]

RunEdge(e, to, rows) ==
  /\ life = "live" /\ moves < MaxMoves
  /\ state' = to
  /\ moves' = moves + 1
  /\ Schedules(e, to, rows)
  /\ left' = left \cup {r \in Row : row[r] # "none" /\ waitsIn[r] # to}
  /\ ranSince' = [a \in Approval |-> ranSince[a] \/ (edgeOf[a] = e /\ approval[a] # "none")]
  /\ IF e \in Edge /\ Gate[e] # "open"
     THEN /\ approval' = Closed(e)
          /\ expiresIn' = [a \in Approval |-> IF edgeOf[a] = e THEN 0 ELSE expiresIn[a]]
          /\ uses' = [a \in Approval |-> IF a \in Approved(Counting(e)) THEN uses[a] + 1 ELSE uses[a]]
          /\ gatedRuns' = [gatedRuns EXCEPT ![e] = @ + 1]
     ELSE UNCHANGED <<approval, expiresIn, uses, gatedRuns>>
  /\ UNCHANGED <<life, edgeOf, retired>>

-----------------------------------------------------------------------------
(* A person's (or automation's) transition *)

\* loadWorkflowTransitionContext, unlocked.
Ask(q, to) ==
  /\ ~ asking[q] /\ asked < MaxAsked /\ life = "live" /\ Matching(state, to) # {}
  /\ asked' = asked + 1
  /\ asking' = [asking EXCEPT ![q] = TRUE]
  /\ seen' = [seen EXCEPT ![q] = state]
  /\ target' = [target EXCEPT ![q] = to]
  /\ UNCHANGED <<itemVars, rowVars, approvalVars, workerVars, moves, retired, faults, history>>

\* What the request read is forgotten with it.
Answered(q) ==
  /\ asking' = [asking EXCEPT ![q] = FALSE]
  /\ seen' = [seen EXCEPT ![q] = Start] /\ target' = [target EXCEPT ![q] = Start]

\* The transaction: the locked item must still be where it was read.
Transition(q) ==
  /\ asking[q] /\ state = seen[q]
  /\ \E e \in Available(seen[q], target[q]) :
       RunEdge(e, target[q], Ends(Elsewhere(target[q])))
  /\ Answered(q)
  /\ UNCHANGED <<workerVars, asked, faults>>

\* 409 when the item moved or is gone, 409 with the blockers otherwise; any other
\* guard may refuse too.
Refuse(q) ==
  /\ asking[q]
  /\ Answered(q)
  /\ UNCHANGED <<itemVars, rowVars, approvalVars, workerVars,
                 moves, asked, retired, faults, history>>

-----------------------------------------------------------------------------
(* Approvals *)

\* createApproval, under the lock of the item and from any state of it.
RequestApproval(a, e) ==
  /\ life = "live" /\ approval[a] = "none" /\ e \in Requested
  /\ approval' = [approval EXCEPT ![a] = "pending"]
  /\ edgeOf' = [edgeOf EXCEPT ![a] = e]
  /\ expiresIn' = [expiresIn EXCEPT ![a] = Expiry]
  /\ UNCHANGED <<itemVars, rowVars, ranSince, requestVars, workerVars,
                 moves, asked, retired, faults, history>>

\* Nothing reads the expiry of an approval that is not pending.
Conclude(a, outcome) ==
  /\ approval' = [approval EXCEPT ![a] = outcome]
  /\ expiresIn' = [expiresIn EXCEPT ![a] = 0]
  /\ UNCHANGED <<itemVars, rowVars, edgeOf, ranSince, requestVars, workerVars,
                 moves, asked, retired, faults, history>>

\* decideApproval: an approval past its expiry is refused although the scan has
\* not reached it.
Decide(a) ==
  /\ life = "live" /\ approval[a] = "pending" /\ expiresIn[a] > 0
  /\ \E outcome \in {"approved", "rejected"} : Conclude(a, outcome)

\* withdrawApproval
Withdraw(a) ==
  /\ life = "live" /\ approval[a] = "pending"
  /\ Conclude(a, "withdrawn")

\* selectDueApprovalRows
Overdue(a) == approval[a] = "pending" /\ expiresIn[a] = 0

\* scanApprovalReminders: the item is not locked and need not be live.
Expire(a) == Overdue(a) /\ Conclude(a, "expired")

-----------------------------------------------------------------------------
(* The scheduler: runScheduledTransitions *)

WGoto(w, label) == doing' = [doing EXCEPT ![w] = label]

\* cancelStaleScheduledTransitions
CancelStale(w) ==
  /\ doing[w] = "idle"
  /\ row' = Ends(IF life = "live" THEN Elsewhere(state) ELSE Row)
  /\ WGoto(w, "read")
  /\ UNCHANGED <<itemVars, waitsIn, leadsTo, dueIn, approvalVars, requestVars, batch, skip,
                 moves, asked, retired, faults, history>>

LongDue(r) == row[r] = "pending" /\ dueIn[r] > Delay

Due(r) == row[r] = "pending" /\ dueIn[r] = 0

\* A batch of due rows; an empty one ends the run.
ReadDue(w) ==
  LET rows == {r \in Row : Due(r)} \ skip[w]
  IN  /\ doing[w] = "read"
      /\ batch' = [batch EXCEPT ![w] = rows]
      /\ WGoto(w, IF rows = {} THEN "idle" ELSE "look")
      /\ skip' = [skip EXCEPT ![w] = IF rows = {} THEN {} ELSE @]
      /\ UNCHANGED <<itemVars, rowVars, approvalVars, requestVars,
                     moves, asked, retired, faults, history>>

\* ORDER BY due_at: rows are numbered as they are inserted, with one delay.
Head(w) == CHOOSE r \in batch[w] : \A s \in batch[w] : r <= s

\* The unlocked read of executeSystemTransition.
Look(w) ==
  LET r == Head(w)
  IN  /\ doing[w] = "look"
      /\ WGoto(w, IF state = waitsIn[r] /\ SystemEdges(state, leadsTo[r]) # {}
                  THEN "fire" ELSE "cancel")
      /\ UNCHANGED <<itemVars, rowVars, approvalVars, requestVars, batch, skip,
                     moves, asked, retired, faults, history>>

\* The next row of the batch, or the next batch.
Proceed(w) ==
  /\ batch' = [batch EXCEPT ![w] = @ \ {Head(w)}]
  /\ WGoto(w, IF batch[w] = {Head(w)} THEN "read" ELSE "look")

StillIn(r) == life = "live" /\ state = waitsIn[r]

\* The locked item is where the row waits, and the row is claimed: UPDATE ... SET
\* state = 'fired' WHERE state = 'pending'.
Claimed(r) == StillIn(r) /\ row[r] = "pending"

Fire(w) ==
  LET r == Head(w)
  IN  /\ doing[w] = "fire" /\ Claimed(r)
      /\ \E e \in SystemEdges(waitsIn[r], leadsTo[r]) :
           RunEdge(e, leadsTo[r], [Ends(Elsewhere(leadsTo[r])) EXCEPT ![r] = "fired"])
      /\ Proceed(w)
      /\ UNCHANGED <<skip, requestVars, asked, faults>>

\* The item or the row is not what was read, or a guard refuses the hop.
Misfire(w) ==
  /\ doing[w] = "fire"
  /\ WGoto(w, "cancel")
  /\ UNCHANGED <<itemVars, rowVars, approvalVars, requestVars, batch, skip,
                 moves, asked, retired, faults, history>>

GiveUp(w) ==
  /\ skip' = [skip EXCEPT ![w] = @ \cup {Head(w)}]
  /\ Proceed(w)

\* A deadlock or a lost connection: the row stays pending for the next run.
Throw(w) ==
  /\ doing[w] = "fire" /\ faults < MaxFaults
  /\ faults' = faults + 1
  /\ GiveUp(w)
  /\ UNCHANGED <<itemVars, rowVars, approvalVars, requestVars, moves, asked, retired, history>>

\* cancelUnappliableRow
CancelRow(w) ==
  /\ doing[w] = "cancel"
  /\ row' = Ends({Head(w)})
  /\ GiveUp(w)
  /\ UNCHANGED <<itemVars, waitsIn, leadsTo, dueIn, approvalVars, requestVars,
                 moves, asked, retired, faults, history>>

\* The worker dies or loses its job lease.
Crash(w) ==
  /\ doing[w] # "idle" /\ faults < MaxFaults
  /\ faults' = faults + 1
  /\ batch' = [batch EXCEPT ![w] = {}]
  /\ skip' = [skip EXCEPT ![w] = {}]
  /\ WGoto(w, "idle")
  /\ UNCHANGED <<itemVars, rowVars, approvalVars, requestVars, moves, asked, retired, history>>

-----------------------------------------------------------------------------
(* What happens to the item *)

\* deleteWorkItemInTransaction and archiveWorkItem: every pending row goes.
Retire ==
  /\ life = "live" /\ retired < MaxRetired
  /\ retired' = retired + 1
  /\ life' \in {"deleted", "archived"}
  /\ row' = Ends(Row)
  /\ left' = left \cup {r \in Row : row[r] # "none"}
  /\ UNCHANGED <<state, waitsIn, leadsTo, dueIn, approvalVars, requestVars, workerVars,
                 moves, asked, faults, uses, gatedRuns>>

\* restoreWorkItem
Restore ==
  /\ life = "deleted"
  /\ life' = "live"
  /\ UNCHANGED <<state, rowVars, approvalVars, requestVars, workerVars,
                 moves, asked, retired, faults, history>>

Tick ==
  /\ \/ \E r \in Row : dueIn[r] > 0
     \/ \E a \in Approval : expiresIn[a] > 0
  /\ dueIn' = [r \in Row |-> IF dueIn[r] = 0 THEN 0 ELSE dueIn[r] - 1]
  /\ expiresIn' = [a \in Approval |-> IF expiresIn[a] = 0 THEN 0 ELSE expiresIn[a] - 1]
  /\ UNCHANGED <<itemVars, row, waitsIn, leadsTo, approval, edgeOf, ranSince, requestVars,
                 workerVars, moves, asked, retired, faults, history>>

-----------------------------------------------------------------------------

WorkerStep(w) ==
  \/ CancelStale(w) \/ ReadDue(w) \/ Look(w) \/ Fire(w) \/ Misfire(w) \/ CancelRow(w)

Next ==
  \/ \E q \in Request : (\E to \in State : Ask(q, to)) \/ Transition(q) \/ Refuse(q)
  \/ \E a \in Approval :
       (\E e \in Edge : RequestApproval(a, e)) \/ Decide(a) \/ Withdraw(a) \/ Expire(a)
  \/ \E w \in Worker : WorkerStep(w) \/ Throw(w) \/ Crash(w)
  \/ Retire \/ Restore \/ Tick

Spec == Init /\ [][Next]_vars

\* Both jobs run on a schedule and the clock advances; nothing is assumed of
\* people, nor of failures.
Fairness ==
  /\ WF_vars(Tick)
  /\ \A a \in Approval : WF_vars(Expire(a))
  /\ \A w \in Worker : WF_vars(WorkerStep(w))

FairSpec == Spec /\ Fairness

-----------------------------------------------------------------------------
(* Properties *)

\* Types, and what the bounds rest on: a worker that looks at a row has one, and
\* rows not inserted yet are the ones above moves.
TypeOK ==
  /\ state \in State /\ life \in {"live", "deleted", "archived"}
  /\ row \in [Row -> {"none", "pending", "fired", "cancelled"}]
  /\ waitsIn \in [Row -> State] /\ leadsTo \in [Row -> State] /\ dueIn \in [Row -> 0 .. Delay]
  /\ approval \in [Approval -> {"none", "pending", "approved", "rejected", "withdrawn", "expired"}]
  /\ edgeOf \in [Approval -> Edge \cup {NoEdge}] /\ expiresIn \in [Approval -> 0 .. Expiry]
  /\ ranSince \in [Approval -> BOOLEAN]
  /\ asking \in [Request -> BOOLEAN] /\ seen \in [Request -> State] /\ target \in [Request -> State]
  /\ doing \in [Worker -> {"idle", "read", "look", "fire", "cancel"}]
  /\ batch \in [Worker -> SUBSET Row] /\ skip \in [Worker -> SUBSET Row]
  /\ moves \in 0 .. MaxMoves /\ asked \in 0 .. MaxAsked
  /\ retired \in 0 .. MaxRetired /\ faults \in 0 .. MaxFaults
  /\ left \subseteq Row /\ uses \in [Approval -> Nat] /\ gatedRuns \in [Edge -> Nat]
  /\ \A r \in Row : r > moves => row[r] = "none"
  /\ \A w \in Worker :
       /\ doing[w] \in {"look", "fire", "cancel"} => batch[w] # {}
       /\ \A r \in batch[w] : row[r] # "none"

\* A pending hop waits in the state the item is in, and the item is there to be
\* moved: leaving a state, deletion and archiving cancel in their own commit, so
\* that the sweep of the scheduler is a safety net only.
HopsWaitHere ==
  \A r \in Row : row[r] = "pending" => life = "live" /\ waitsIn[r] = state

\* An A -> B -> A bounce, or a deletion and a restore, never fires a stale row
\* early, whatever the scheduler read before (transition-work-item.ts:1138).
HopsAreNeverStale ==
  [][\A r \in Row : row[r] # "fired" /\ row'[r] = "fired" =>
       r \notin left /\ state = waitsIn[r] /\ state' = leadsTo[r]]_vars

\* Approvals are single use and no gate is passed without one: an approval backs
\* one run at most, and every run of a gated edge had an approval of its own (AP-5).
ApprovalsAreSingleUse ==
  /\ \A a \in Approval : uses[a] <= 1
  /\ \A e \in Edge :
       gatedRuns[e] <= Cardinality({a \in Approval : edgeOf[a] = e /\ uses[a] = 1})

\* Nobody is asked for what can no longer count: a pending approval of a gated
\* edge is always one the gate looks at (AP-5, closed on transition).
NoDeadRequests ==
  \A a \in Approval :
    approval[a] = "pending" /\ Gate[edgeOf[a]] # "open" => ~ ranSince[a]

\* Every hop is fired or cancelled and every request for approval is answered or
\* expires, whatever fails on the way.
EverythingSettles ==
  <>[](/\ \A r \in Row : row[r] # "pending"
       /\ \A a \in Approval : approval[a] # "pending")

=============================================================================
