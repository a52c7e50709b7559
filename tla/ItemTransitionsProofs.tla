------------------------ MODULE ItemTransitionsProofs ------------------------
(* Types and safety of ItemTransitions: hops are never stale, approvals back  *)
(* one run each, and nobody is asked for what cannot count.                   *)
EXTENDS ItemTransitions, TLAPS, FiniteSetTheorems

\* The conjuncts of TypeOK, by what they speak of.
ItemTyped == state \in State /\ life \in {"live", "deleted", "archived"}

RowStates == {"none", "pending", "fired", "cancelled"}

RowsTyped ==
  /\ row \in [Row -> RowStates]
  /\ waitsIn \in [Row -> State] /\ leadsTo \in [Row -> State] /\ dueIn \in [Row -> 0 .. Delay]

ApprovalsTyped ==
  /\ approval \in [Approval -> {"none", "pending", "approved", "rejected", "withdrawn", "expired"}]
  /\ edgeOf \in [Approval -> Edge \cup {NoEdge}] /\ expiresIn \in [Approval -> 0 .. Expiry]
  /\ ranSince \in [Approval -> BOOLEAN]

RequestsTyped ==
  asking \in [Request -> BOOLEAN] /\ seen \in [Request -> State] /\ target \in [Request -> State]

WorkersTyped ==
  /\ doing \in [Worker -> {"idle", "read", "look", "fire", "cancel"}]
  /\ batch \in [Worker -> SUBSET Row] /\ skip \in [Worker -> SUBSET Row]

BoundsTyped ==
  /\ asked \in 0 .. MaxAsked /\ retired \in 0 .. MaxRetired /\ faults \in 0 .. MaxFaults

HistoryTyped == left \subseteq Row /\ uses \in [Approval -> Nat] /\ gatedRuns \in [Edge -> Nat]

Numbered == moves \in 0 .. MaxMoves /\ \A r \in Row : r > moves => row[r] = "none"

BatchesStand ==
  \A w \in Worker :
    /\ doing[w] \in {"look", "fire", "cancel"} => batch[w] # {}
    /\ \A r \in batch[w] : row[r] # "none"

Parts ==
  /\ ItemTyped /\ RowsTyped /\ ApprovalsTyped /\ RequestsTyped /\ WorkersTyped
  /\ BoundsTyped /\ HistoryTyped /\ Numbered /\ BatchesStand

\* TypeOK is the conjunction of its parts.
LEMMA TypeParts == TypeOK <=> Parts
BY DEF TypeOK, Parts, ItemTyped, RowsTyped, RowStates, ApprovalsTyped, RequestsTyped, WorkersTyped,
       BoundsTyped, HistoryTyped, Numbered, BatchesStand

\* What the hops rest on: a row that has seen its item leave is over.
LeftAreOver == \A r \in left : row[r] # "none" /\ row[r] # "pending"

\* What the approvals rest on: one is of an edge, has been of use once at most,
\* and then the edge has run since.
Spent ==
  \A a \in Approval :
    /\ approval[a] = "none" => ~ ranSince[a]
    /\ approval[a] # "none" => edgeOf[a] \in Edge
    /\ uses[a] = 0 \/ (uses[a] = 1 /\ ranSince[a])

Backing(e) == {a \in Approval : edgeOf[a] = e /\ uses[a] = 1}

Backed == \A e \in Edge : gatedRuns[e] <= Cardinality(Backing(e))

Gates == NoDeadRequests /\ Spent /\ Backed

Hops == HopsWaitHere /\ LeftAreOver

IInv == Parts /\ Hops /\ Gates

\* What HopsAreNeverStale says of a step.
HopsAreFresh ==
  \A r \in Row : row[r] # "fired" /\ row'[r] = "fired" =>
    r \notin left /\ state = waitsIn[r] /\ state' = leadsTo[r]

-----------------------------------------------------------------------------

\* A set of numbers that has an element has a least one.
LEMMA LeastElement ==
  ASSUME NEW S \in SUBSET Nat, S # {}
  PROVE  \E x \in S : \A y \in S : x <= y
<1> DEFINE T == {1 .. x : x \in S}
<1>1. T \subseteq FiniteSubsetsOf(Nat)
  BY FS_Interval DEF FiniteSubsetsOf
<1>2. PICK t \in T : \A u \in T : ~ (<<u, t>> \in StrictSubsetOrdering(Nat))
  <2>1. T # {}
    BY Zenon
  <2> QED
    BY <1>1, <2>1, WFMin, FS_StrictSubsetOrderingWellFounded, Zenon
<1>3. PICK x \in S : t = 1 .. x
  BY <1>2
<1>4. ASSUME NEW y \in S, y < x PROVE FALSE
  <2>1. 1 .. y \in T /\ 1 .. y \subseteq 1 .. x
    BY <1>4
  <2>2. 1 .. y # 1 .. x
    BY <1>4
  <2>3. 1 .. y \in SUBSET Nat /\ 1 .. x \in SUBSET Nat
    OBVIOUS
  <2>4. <<1 .. y, 1 .. x>> \in StrictSubsetOrdering(Nat)
    BY <2>1, <2>2, <2>3, Zenon DEF StrictSubsetOrdering
  <2> QED
    BY <2>1, <2>4, <1>2, <1>3
<1> QED
  BY <1>4

\* The row in work is one of the batch.
LEMMA HeadInBatch ==
  ASSUME WorkersTyped, NEW w \in Worker, batch[w] # {}
  PROVE  Head(w) \in batch[w] /\ Head(w) \in Row
<1>1. batch[w] \in SUBSET Nat /\ batch[w] \subseteq Row
  BY DEF WorkersTyped, Row
<1>2. \E r \in batch[w] : \A s \in batch[w] : r <= s
  BY <1>1, LeastElement
<1> QED
  BY <1>1, <1>2 DEF Head

\* Cancelling ends pending rows of the set and touches no other.
LEMMA EndsRows ==
  ASSUME RowsTyped, NEW S
  PROVE  /\ Ends(S) \in [Row -> RowStates]
         /\ \A r \in Row :
              /\ Ends(S)[r] = "none" <=> row[r] = "none"
              /\ Ends(S)[r] = "pending" => row[r] = "pending" /\ r \notin S
              /\ Ends(S)[r] = "fired" <=> row[r] = "fired"
BY DEF Ends, RowsTyped, RowStates

\* An edge between known states leads to one, for a person and for the scheduler.
LEMMA EdgesOffered ==
  ASSUME TransitionsAssumption, NEW from, NEW to
  PROVE  /\ Available(from, to) \subseteq Edge
         /\ SystemEdges(from, to) \subseteq Edge \cup {NoEdge}
         /\ \A e \in Available(from, to) : Gate[e] # "open" => GateSatisfied(e)
         /\ \A e \in SystemEdges(from, to) : e \in Edge => Gate[e] = "open"
BY DEF TransitionsAssumption, Available, SystemEdges, Matching

\* A gate that is passed has an approval that counts.
LEMMA GateHasApproval ==
  ASSUME NEW e \in Edge, GateSatisfied(e), Gate[e] # "open"
  PROVE  Approved(Counting(e)) # {}
BY DEF GateSatisfied

-----------------------------------------------------------------------------
(* One run of an edge, whoever runs it *)

\* What both callers of RunEdge give it.
Handed(e, to, rows) ==
  /\ e \in Edge \cup {NoEdge} /\ to \in State
  /\ rows \in [Row -> RowStates]
  /\ \A r \in Row : /\ rows[r] = "none" <=> row[r] = "none"
                    /\ rows[r] = "pending" => row[r] = "pending" /\ waitsIn[r] = to
  /\ e \in Edge /\ Gate[e] # "open" => GateSatisfied(e)

\* A run of an edge keeps types, and no row is taken back.
LEMMA RunKeepsTypes ==
  ASSUME TransitionsAssumption, Parts, NEW e, NEW to, NEW rows,
         Handed(e, to, rows), RunEdge(e, to, rows)
  PROVE  /\ ItemTyped' /\ RowsTyped' /\ ApprovalsTyped' /\ HistoryTyped' /\ Numbered'
         /\ retired' = retired
         /\ \A r \in Row : row[r] # "none" => row'[r] # "none"
         /\ \A r \in Row : row'[r] = "fired" => rows[r] = "fired"
<1> USE DEF Parts
<1>0. moves \in Nat /\ MaxMoves \in Nat /\ moves + 1 \in Row /\ moves' = moves + 1
  BY DEF RunEdge, Numbered, Row, TransitionsAssumption
<1>1. ItemTyped' /\ retired' = retired
  BY DEF RunEdge, Handed, ItemTyped
<1>2. RowsTyped'
  <2>1. CASE e \in Edge /\ Hop[e] # NoHop
    BY <2>1, <1>0 DEF RunEdge, Schedules, Handed, RowsTyped, RowStates, TransitionsAssumption
  <2>2. CASE ~ (e \in Edge /\ Hop[e] # NoHop)
    BY <2>2 DEF RunEdge, Schedules, Handed, RowsTyped
  <2> QED
    BY <2>1, <2>2
<1>3. \A r \in Row : /\ row[r] # "none" => row'[r] # "none"
                     /\ row'[r] = "fired" => rows[r] = "fired"
                     /\ r # moves + 1 => row'[r] = rows[r]
  BY <1>0 DEF RunEdge, Schedules, Handed, RowsTyped
<1>4. Numbered'
  BY <1>0, <1>3 DEF RunEdge, Numbered, Handed, Row
<1>5. ApprovalsTyped'
  BY DEF RunEdge, ApprovalsTyped, Closed, TransitionsAssumption
<1>6. HistoryTyped'
  BY DEF RunEdge, HistoryTyped
<1> QED
  BY <1>1, <1>2, <1>3, <1>4, <1>5, <1>6

\* The item is where the pending hops wait: those that wait elsewhere went in
\* the same commit, and the new one waits in the new state.
LEMMA RunKeepsHops ==
  ASSUME TransitionsAssumption, Parts, Hops, NEW e, NEW to, NEW rows,
         Handed(e, to, rows), RunEdge(e, to, rows)
  PROVE  Hops'
<1> USE DEF Parts
<1>0. moves \in Nat /\ moves + 1 \in Row /\ row[moves + 1] = "none"
  BY DEF RunEdge, Numbered, Row, TransitionsAssumption
<1>1. HopsWaitHere'
  <2>1. life' = "live" /\ state' = to
    BY DEF RunEdge
  <2>2. \A r \in Row : row'[r] = "pending" => waitsIn'[r] = to
    BY <1>0 DEF RunEdge, Schedules, Handed, RowsTyped
  <2> QED
    BY <2>1, <2>2 DEF HopsWaitHere
<1>2. LeftAreOver'
  <2>1. \A r \in left' : r \in Row /\ row[r] # "none" /\ (r \in left \/ waitsIn[r] # to)
    BY DEF RunEdge, Hops, LeftAreOver, HistoryTyped
  <2>2. \A r \in left' : r # moves + 1 /\ rows[r] # "none" /\ rows[r] # "pending"
    BY <1>0, <2>1 DEF Handed, Hops, LeftAreOver
  <2>3. \A r \in Row : r # moves + 1 => row'[r] = rows[r]
    BY DEF RunEdge, Schedules, Handed
  <2> QED
    BY <2>1, <2>2, <2>3 DEF LeftAreOver
<1> QED
  BY <1>1, <1>2 DEF Hops

\* The run of a gated edge spends the approvals that counted, of which there is
\* one, and closes the requests that can no longer count.
LEMMA RunKeepsGates ==
  ASSUME TransitionsAssumption, Parts, Gates, NEW e, NEW to, NEW rows,
         Handed(e, to, rows), RunEdge(e, to, rows)
  PROVE  Gates'
<1> USE DEF Parts
<1>1. edgeOf' = edgeOf
      /\ ranSince' = [a \in Approval |-> ranSince[a] \/ (edgeOf[a] = e /\ approval[a] # "none")]
  BY DEF RunEdge
<1>2. CASE e \in Edge /\ Gate[e] # "open"
  <2>1. approval' = Closed(e)
    BY <1>2 DEF RunEdge
  <2>2. uses' = [a \in Approval |-> IF a \in Approved(Counting(e)) THEN uses[a] + 1 ELSE uses[a]]
    BY <1>2 DEF RunEdge
  <2>3. gatedRuns' = [gatedRuns EXCEPT ![e] = @ + 1]
    BY <1>2 DEF RunEdge
  <2>4. NoDeadRequests'
    BY <1>1, <1>2, <2>1 DEF NoDeadRequests, Gates, Closed, ApprovalsTyped
  <2>5. \A a \in Approval : a \in Approved(Counting(e)) =>
          edgeOf[a] = e /\ ~ ranSince[a] /\ approval[a] = "approved" /\ uses[a] = 0
    BY DEF Approved, Counting, CountingEvenSpent, Gates, Spent
  <2>6. Spent'
    <3> SUFFICES ASSUME NEW a \in Approval
                 PROVE  /\ approval'[a] = "none" => ~ ranSince'[a]
                        /\ approval'[a] # "none" => edgeOf'[a] \in Edge
                        /\ uses'[a] = 0 \/ (uses'[a] = 1 /\ ranSince'[a])
      BY DEF Spent
    <3>1. (approval'[a] = "none" <=> approval[a] = "none") /\ edgeOf'[a] = edgeOf[a]
      BY <1>1, <2>1 DEF Closed
    <3>2. CASE a \in Approved(Counting(e))
      <4>1. uses'[a] = 1
        BY <3>2, <2>2, <2>5
      <4>2. edgeOf[a] = e /\ approval[a] = "approved"
        BY <3>2, <2>5
      <4>3. ranSince'[a] = (ranSince[a] \/ (edgeOf[a] = e /\ approval[a] # "none"))
        BY <1>1, Zenon
      <4>4. ranSince'[a]
        BY <4>2, <4>3
      <4> QED
        BY <3>1, <4>1, <4>2, <4>4 DEF Gates, Spent
    <3>3. CASE a \notin Approved(Counting(e))
      BY <3>1, <3>3, <2>2, <1>1 DEF Gates, Spent
    <3> QED
      BY <3>2, <3>3
  <2>7. Backed'
    <3> SUFFICES ASSUME NEW f \in Edge
                 PROVE  gatedRuns'[f] <= Cardinality(Backing(f)')
      BY DEF Backed
    <3>1. Backing(f) \subseteq Backing(f)'
      BY <1>1, <2>2, <2>5 DEF Backing, HistoryTyped
    <3>2. IsFiniteSet(Backing(f)') /\ IsFiniteSet(Backing(f))
      BY FS_Subset DEF Backing, TransitionsAssumption
    <3>3. /\ Cardinality(Backing(f)) \in Nat /\ Cardinality(Backing(f)') \in Nat
          /\ Cardinality(Backing(f)) <= Cardinality(Backing(f)')
      BY <3>1, <3>2, FS_Subset, FS_CardinalityType
    <3>4. CASE f # e
      BY <3>3, <3>4, <2>3 DEF Gates, Backed, HistoryTyped
    <3>5. CASE f = e
      <4>1. PICK a \in Approved(Counting(e)) : TRUE
        BY <1>2, GateHasApproval DEF Handed
      <4>2. a \in Approval /\ a \in Backing(f)' /\ a \notin Backing(f)
        BY <3>5, <4>1, <1>1, <2>2, <2>5 DEF Backing, Approved, Counting, CountingEvenSpent
      <4>3. Cardinality(Backing(f)) # Cardinality(Backing(f)')
        BY <3>1, <3>2, <4>2, FS_Subset
      <4>4. gatedRuns'[f] = gatedRuns[f] + 1 /\ gatedRuns[f] <= Cardinality(Backing(f))
            /\ gatedRuns[f] \in Nat
        BY <3>5, <2>3, <1>2 DEF Gates, Backed, HistoryTyped
      <4> QED
        BY <3>3, <4>3, <4>4
    <3> QED
      BY <3>4, <3>5
  <2> QED
    BY <2>4, <2>6, <2>7 DEF Gates
<1>3. CASE ~ (e \in Edge /\ Gate[e] # "open")
  <2>1. UNCHANGED <<approval, uses, gatedRuns, edgeOf>>
    BY <1>1, <1>3 DEF RunEdge
  <2>2. NoDeadRequests'
    BY <1>1, <1>3, <2>1 DEF NoDeadRequests, Gates, Spent
  <2>3. Spent'
    BY <1>1, <2>1 DEF Gates, Spent
  <2>4. Backed'
    BY <2>1 DEF Gates, Backed, Backing
  <2> QED
    BY <2>2, <2>3, <2>4 DEF Gates
<1> QED
  BY <1>2, <1>3

-----------------------------------------------------------------------------
(* What a step that leaves something alone keeps *)

\* Hops are about the item, its rows and the rows it left.
LEMMA HopsStand ==
  ASSUME Hops, UNCHANGED <<state, life, row, waitsIn, left>>
  PROVE  Hops'
BY DEF Hops, HopsWaitHere, LeftAreOver

\* Gates are about approvals and their history.
LEMMA GatesStand ==
  ASSUME Gates, UNCHANGED <<approval, edgeOf, ranSince, uses, gatedRuns>>
  PROVE  Gates'
BY DEF Gates, NoDeadRequests, Spent, Backed, Backing

\* Cancelling rows keeps what is known of rows.
LEMMA RowsEnd ==
  ASSUME Parts, Hops, NEW S, row' = Ends(S),
         UNCHANGED <<state, life, waitsIn, leadsTo, dueIn, left, moves>>
  PROVE  RowsTyped' /\ Numbered' /\ Hops' /\ \A r \in Row : row[r] # "none" => row'[r] # "none"
<1> USE DEF Parts
<1>1. \A r \in Row : /\ row'[r] = "none" <=> row[r] = "none"
                     /\ row'[r] = "pending" => row[r] = "pending"
  BY EndsRows
<1>2. RowsTyped'
  BY EndsRows DEF RowsTyped
<1>3. Numbered'
  BY <1>1 DEF Numbered
<1>4. Hops'
  BY <1>1 DEF Hops, HopsWaitHere, LeftAreOver, HistoryTyped
<1> QED
  BY <1>1, <1>2, <1>3, <1>4

-----------------------------------------------------------------------------
(* Initially, and step by step *)

\* The start: no rows, no approvals, nobody at work.
LEMMA InitInv == ASSUME TransitionsAssumption, Init PROVE IInv
<1>1. ItemTyped /\ RowsTyped /\ ApprovalsTyped /\ RequestsTyped
  BY DEF TransitionsAssumption, Init, ItemTyped, RowsTyped, RowStates, ApprovalsTyped, RequestsTyped
<1>2. WorkersTyped /\ BoundsTyped /\ HistoryTyped
  BY DEF TransitionsAssumption, Init, WorkersTyped, BoundsTyped, HistoryTyped
<1>3. Numbered /\ BatchesStand
  BY DEF TransitionsAssumption, Init, Numbered, BatchesStand
<1>4. Hops
  BY DEF Init, Hops, HopsWaitHere, LeftAreOver
<1>5. NoDeadRequests /\ Spent
  BY DEF Init, NoDeadRequests, Spent
<1>6. Backed
  <2> SUFFICES ASSUME NEW e \in Edge PROVE gatedRuns[e] <= Cardinality(Backing(e))
    BY DEF Backed
  <2>1. Cardinality(Backing(e)) \in Nat
    BY FS_Subset, FS_CardinalityType DEF Backing, TransitionsAssumption
  <2> QED
    BY <2>1 DEF Init
<1> QED
  BY <1>1, <1>2, <1>3, <1>4, <1>5, <1>6 DEF IInv, Parts, Gates

\* What a request hands to the run of its edge.
LEMMA TransitionHands ==
  ASSUME TransitionsAssumption, IInv, NEW q \in Request,
         NEW e \in Available(seen[q], target[q])
  PROVE  Handed(e, target[q], Ends(Elsewhere(target[q])))
<1>1. RowsTyped /\ target[q] \in State
  BY DEF IInv, Parts, RequestsTyped
<1>2. \A r \in Row : Ends(Elsewhere(target[q]))[r] = "pending" => row[r] = "pending" /\ waitsIn[r] = target[q]
  BY <1>1, EndsRows DEF Elsewhere
<1> QED
  BY <1>1, <1>2, EndsRows, EdgesOffered DEF Handed

\* A person's transition.
LEMMA TransitionStep ==
  ASSUME TransitionsAssumption, IInv, NEW q \in Request, Transition(q)
  PROVE  IInv' /\ HopsAreFresh
<1> USE DEF IInv
<1>1. PICK e \in Available(seen[q], target[q]) :
        RunEdge(e, target[q], Ends(Elsewhere(target[q])))
  BY DEF Transition
<1>2. Handed(e, target[q], Ends(Elsewhere(target[q])))
  BY TransitionHands
<1>3. /\ ItemTyped' /\ RowsTyped' /\ ApprovalsTyped' /\ HistoryTyped' /\ Numbered'
      /\ retired' = retired
      /\ \A r \in Row : row[r] # "none" => row'[r] # "none"
      /\ \A r \in Row : row'[r] = "fired" => Ends(Elsewhere(target[q]))[r] = "fired"
  BY <1>1, <1>2, RunKeepsTypes
<1>4. Hops' /\ Gates'
  BY <1>1, <1>2, RunKeepsHops, RunKeepsGates
<1>5. RequestsTyped' /\ BoundsTyped'
  BY <1>3 DEF Transition, Answered, Parts, RequestsTyped, BoundsTyped, TransitionsAssumption
<1>6. WorkersTyped' /\ BatchesStand'
  BY <1>3 DEF Transition, workerVars, Parts, WorkersTyped, BatchesStand
<1>7. HopsAreFresh
  BY <1>3, EndsRows DEF HopsAreFresh, Parts
<1> QED
  BY <1>3, <1>4, <1>5, <1>6, <1>7 DEF Parts

\* The next row of a batch, or the next batch: what Proceed leaves of a worker.
LEMMA ProceedKeeps ==
  ASSUME WorkersTyped, BatchesStand, NEW w \in Worker, batch[w] # {}, Proceed(w),
         \A r \in Row : row[r] # "none" => row'[r] # "none"
  PROVE  /\ doing' \in [Worker -> {"idle", "read", "look", "fire", "cancel"}]
         /\ batch' \in [Worker -> SUBSET Row] /\ BatchesStand'
<1>1. doing' = [doing EXCEPT ![w] = IF batch[w] = {Head(w)} THEN "read" ELSE "look"]
  BY DEF Proceed, WGoto
<1>2. batch' = [batch EXCEPT ![w] = batch[w] \ {Head(w)}]
  BY DEF Proceed
<1>3. doing' \in [Worker -> {"idle", "read", "look", "fire", "cancel"}]
      /\ batch' \in [Worker -> SUBSET Row]
  BY <1>1, <1>2 DEF WorkersTyped
<1>4. BatchesStand'
  <2> SUFFICES ASSUME NEW v \in Worker
               PROVE  /\ doing'[v] \in {"look", "fire", "cancel"} => batch'[v] # {}
                      /\ \A r \in batch'[v] : row'[r] # "none"
    BY DEF BatchesStand
  <2>1. batch'[v] \subseteq batch[v] /\ batch[v] \subseteq Row
    BY <1>2 DEF WorkersTyped
  <2>2. CASE v = w
    BY <2>2, <1>1, <1>2, <2>1 DEF WorkersTyped, BatchesStand
  <2>3. CASE v # w
    BY <2>3, <1>1, <1>2, <2>1 DEF WorkersTyped, BatchesStand
  <2> QED
    BY <2>2, <2>3
<1> QED
  BY <1>3, <1>4

\* The scheduler fires a row it has claimed.
LEMMA FireStep ==
  ASSUME TransitionsAssumption, IInv, NEW w \in Worker, Fire(w)
  PROVE  IInv' /\ HopsAreFresh
<1> USE DEF IInv
<1> DEFINE r == Head(w)
           to == leadsTo[r]
           rows == [Ends(Elsewhere(to)) EXCEPT ![r] = "fired"]
<1>0. batch[w] # {} /\ r \in Row /\ row[r] = "pending" /\ state = waitsIn[r]
  BY HeadInBatch DEF Fire, Claimed, StillIn, Parts, BatchesStand
<1>1. PICK e \in SystemEdges(waitsIn[r], to) : RunEdge(e, to, rows)
  BY DEF Fire
<1>2. Handed(e, to, rows)
  <2>1. RowsTyped /\ to \in State
    BY <1>0 DEF Parts, RowsTyped
  <2>2. \A s \in Row : Ends(Elsewhere(to))[s] = "pending" => row[s] = "pending" /\ waitsIn[s] = to
    BY <2>1, EndsRows DEF Elsewhere
  <2>3. rows \in [Row -> RowStates]
    BY <2>1, EndsRows DEF RowStates
  <2>4. \A s \in Row : /\ rows[s] = "none" <=> row[s] = "none"
                       /\ rows[s] = "pending" => row[s] = "pending" /\ waitsIn[s] = to
    BY <2>1, <2>2, <1>0, EndsRows
  <2>5. e \in Edge \cup {NoEdge} /\ (e \in Edge /\ Gate[e] # "open" => GateSatisfied(e))
    BY EdgesOffered
  <2> QED
    BY <2>1, <2>3, <2>4, <2>5 DEF Handed
<1>3. /\ ItemTyped' /\ RowsTyped' /\ ApprovalsTyped' /\ HistoryTyped' /\ Numbered'
      /\ retired' = retired
      /\ \A s \in Row : row[s] # "none" => row'[s] # "none"
      /\ \A s \in Row : row'[s] = "fired" => rows[s] = "fired"
  BY <1>1, <1>2, RunKeepsTypes
<1>4. Hops' /\ Gates'
  BY <1>1, <1>2, RunKeepsHops, RunKeepsGates
<1>5. RequestsTyped' /\ BoundsTyped'
  BY <1>3 DEF Fire, requestVars, Parts, RequestsTyped, BoundsTyped
<1>6. WorkersTyped' /\ BatchesStand'
  BY <1>0, <1>3, ProceedKeeps DEF Fire, Parts, WorkersTyped
<1>7. HopsAreFresh
  <2>1. \A s \in Row : row'[s] = "fired" => row[s] = "fired" \/ s = r
    BY <1>3, EndsRows DEF Parts
  <2>2. r \notin left
    BY <1>0 DEF Hops, LeftAreOver
  <2>3. state' = to
    BY <1>1 DEF RunEdge
  <2> QED
    BY <1>0, <2>1, <2>2, <2>3 DEF HopsAreFresh
<1> QED
  BY <1>3, <1>4, <1>5, <1>6, <1>7 DEF Parts

\* Requests that ask or are refused touch nothing else.
LEMMA RequestSteps ==
  ASSUME TransitionsAssumption, IInv,
         NEW q \in Request, (\E to \in State : Ask(q, to)) \/ Refuse(q)
  PROVE  IInv' /\ HopsAreFresh
<1> USE DEF IInv
<1>1. UNCHANGED <<itemVars, rowVars, approvalVars, workerVars, moves, retired, faults, history>>
  BY DEF Ask, Refuse
<1>2. Hops' /\ Gates'
  BY <1>1, HopsStand, GatesStand DEF itemVars, rowVars, approvalVars, history
<1>3. RequestsTyped' /\ BoundsTyped'
  <2>1. CASE \E to \in State : Ask(q, to)
    BY <2>1, <1>1 DEF Ask, Parts, ItemTyped, RequestsTyped, BoundsTyped, TransitionsAssumption
  <2>2. CASE Refuse(q)
    BY <2>2, <1>1 DEF Refuse, Answered, Parts, RequestsTyped, BoundsTyped, TransitionsAssumption
  <2> QED
    BY <2>1, <2>2
<1>4. ItemTyped' /\ RowsTyped' /\ ApprovalsTyped' /\ WorkersTyped'
  BY <1>1 DEF Parts, ItemTyped, RowsTyped, ApprovalsTyped, WorkersTyped,
              itemVars, rowVars, approvalVars, workerVars
<1>5. HistoryTyped' /\ Numbered' /\ BatchesStand' /\ HopsAreFresh
  BY <1>1 DEF Parts, HistoryTyped, Numbered, BatchesStand, HopsAreFresh, history, workerVars, rowVars
<1> QED
  BY <1>2, <1>3, <1>4, <1>5 DEF Parts

\* Requests for approval and their ends touch approvals only.
LEMMA ApprovalSteps ==
  ASSUME TransitionsAssumption, IInv, NEW a \in Approval,
         \/ \E e \in Edge : RequestApproval(a, e)
         \/ Decide(a) \/ Withdraw(a) \/ Expire(a)
  PROVE  IInv' /\ HopsAreFresh
<1> USE DEF IInv
<1>1. UNCHANGED <<itemVars, rowVars, ranSince, requestVars, workerVars,
                  moves, asked, retired, faults, history>>
  BY DEF RequestApproval, Decide, Withdraw, Expire, Conclude
<1>2. Hops'
  BY <1>1, HopsStand DEF itemVars, rowVars, history
<1>3. ItemTyped' /\ RowsTyped' /\ RequestsTyped' /\ WorkersTyped' /\ BoundsTyped'
  BY <1>1 DEF Parts, ItemTyped, RowsTyped, RequestsTyped, WorkersTyped, BoundsTyped,
              itemVars, rowVars, requestVars, workerVars
<1>4. HistoryTyped' /\ Numbered' /\ BatchesStand' /\ HopsAreFresh
  BY <1>1 DEF Parts, HistoryTyped, Numbered, BatchesStand, HopsAreFresh, history, workerVars, rowVars
<1>5. CASE \E e \in Edge : RequestApproval(a, e)
  <2>1. PICK e \in Edge : RequestApproval(a, e)
    BY <1>5
  <2>2. ApprovalsTyped'
    BY <2>1 DEF RequestApproval, Parts, ApprovalsTyped, TransitionsAssumption
  <2>3. approval[a] = "none" /\ ~ ranSince[a] /\ uses[a] = 0
    BY <2>1, Zenon DEF RequestApproval, Gates, Spent
  <2>4. NoDeadRequests' /\ Spent'
    BY <2>1, <2>3, <1>1 DEF RequestApproval, Gates, NoDeadRequests, Spent, Parts, ApprovalsTyped, history
  <2>5. \A f \in Edge : Backing(f)' = Backing(f)
    BY <2>1, <2>3, <1>1 DEF RequestApproval, Backing, Parts, ApprovalsTyped, history
  <2> QED
    BY <2>2, <2>4, <2>5, <1>1, <1>2, <1>3, <1>4 DEF Parts, Gates, Backed, history
<1>6. CASE Decide(a) \/ Withdraw(a) \/ Expire(a)
  <2>1. PICK outcome \in {"approved", "rejected", "withdrawn", "expired"} : Conclude(a, outcome)
    BY <1>6 DEF Decide, Withdraw, Expire
  <2>2. approval[a] = "pending"
    BY <1>6 DEF Decide, Withdraw, Expire, Overdue
  <2>3. ApprovalsTyped'
    BY <2>1 DEF Conclude, Parts, ApprovalsTyped, TransitionsAssumption
  <2>4. NoDeadRequests' /\ Spent'
    BY <2>1, <2>2, <1>1 DEF Conclude, Gates, NoDeadRequests, Spent, Parts, ApprovalsTyped, history
  <2>5. Backed'
    BY <2>1, <1>1 DEF Conclude, Gates, Backed, Backing, history
  <2> QED
    BY <2>3, <2>4, <2>5, <1>2, <1>3, <1>4 DEF Parts, Gates
<1> QED
  BY <1>5, <1>6

\* What no step of the scheduler but Fire touches.
Untouched ==
  UNCHANGED <<itemVars, waitsIn, leadsTo, dueIn, approvalVars, requestVars,
              moves, asked, retired, history>>

\* Then only rows, workers and faults are left to look at.
LEMMA UntouchedKeeps ==
  ASSUME IInv, Untouched, RowsTyped', Numbered', Hops', WorkersTyped', BatchesStand',
         faults' \in 0 .. MaxFaults
  PROVE  IInv'
<1>1. Gates'
  BY GatesStand DEF IInv, Untouched, approvalVars, history
<1>2. ItemTyped' /\ ApprovalsTyped' /\ RequestsTyped' /\ BoundsTyped' /\ HistoryTyped'
  BY DEF IInv, Parts, Untouched, ItemTyped, ApprovalsTyped, RequestsTyped, BoundsTyped, HistoryTyped,
         itemVars, approvalVars, requestVars, history
<1> QED
  BY <1>1, <1>2 DEF IInv, Parts

\* The scheduler's steps that end rows.
LEMMA CancelSteps ==
  ASSUME TransitionsAssumption, IInv, NEW w \in Worker, CancelStale(w) \/ CancelRow(w)
  PROVE  IInv' /\ HopsAreFresh
<1> USE DEF IInv
<1>1. Untouched /\ faults' \in 0 .. MaxFaults
  BY DEF CancelStale, CancelRow, Untouched, Parts, BoundsTyped
<1>2. PICK S : row' = Ends(S)
  BY DEF CancelStale, CancelRow
<1>3. RowsTyped' /\ Numbered' /\ Hops' /\ \A r \in Row : row[r] # "none" => row'[r] # "none"
  BY <1>1, <1>2, RowsEnd DEF Untouched, itemVars, history
<1>4. HopsAreFresh
  BY <1>2, EndsRows DEF HopsAreFresh, Parts
<1>5. CASE CancelStale(w)
  <2>1. WorkersTyped' /\ BatchesStand'
    BY <1>5, <1>3 DEF CancelStale, WGoto, Parts, WorkersTyped, BatchesStand
  <2> QED
    BY <1>1, <1>3, <1>4, <2>1, UntouchedKeeps
<1>6. CASE CancelRow(w)
  <2>1. batch[w] # {} /\ Head(w) \in Row
    BY <1>6, HeadInBatch DEF CancelRow, Parts, BatchesStand
  <2>2. doing' \in [Worker -> {"idle", "read", "look", "fire", "cancel"}]
        /\ batch' \in [Worker -> SUBSET Row] /\ BatchesStand'
    BY <1>6, <1>3, <2>1, ProceedKeeps DEF CancelRow, GiveUp, Parts
  <2>3. skip' \in [Worker -> SUBSET Row]
    BY <1>6, <2>1 DEF CancelRow, GiveUp, Parts, WorkersTyped
  <2> QED
    BY <1>1, <1>3, <1>4, <2>2, <2>3, UntouchedKeeps DEF WorkersTyped
<1> QED
  BY <1>5, <1>6

\* The scheduler's steps that only look, and the ways it is broken off.
LEMMA LookSteps ==
  ASSUME TransitionsAssumption, IInv, NEW w \in Worker,
         ReadDue(w) \/ Look(w) \/ Misfire(w) \/ Throw(w) \/ Crash(w)
  PROVE  IInv' /\ HopsAreFresh
<1> USE DEF IInv
<1>1. Untouched /\ row' = row /\ faults' \in 0 .. MaxFaults
  BY DEF ReadDue, Look, Misfire, Throw, Crash, Untouched, rowVars, Parts, BoundsTyped, TransitionsAssumption
<1>2. RowsTyped' /\ Numbered' /\ HopsAreFresh
  BY <1>1 DEF Untouched, Parts, RowsTyped, Numbered, HopsAreFresh
<1>3. Hops'
  BY <1>1, HopsStand DEF Untouched, itemVars, history
<1>4. WorkersTyped' /\ BatchesStand'
  <2>1. CASE ReadDue(w)
    <3> DEFINE rows == {r \in Row : Due(r)} \ skip[w]
    <3>1. rows \subseteq Row /\ \A r \in rows : row[r] # "none"
      BY DEF Due
    <3>2. batch' = [batch EXCEPT ![w] = rows]
          /\ doing' = [doing EXCEPT ![w] = IF rows = {} THEN "idle" ELSE "look"]
          /\ skip' = [skip EXCEPT ![w] = IF rows = {} THEN {} ELSE skip[w]]
      BY <2>1 DEF ReadDue, WGoto
    <3> HIDE DEF rows
    <3> QED
      BY <1>1, <3>1, <3>2 DEF Parts, WorkersTyped, BatchesStand
  <2>2. CASE Look(w)
    BY <1>1, <2>2 DEF Look, WGoto, Parts, WorkersTyped, BatchesStand
  <2>3. CASE Misfire(w)
    BY <1>1, <2>3 DEF Misfire, WGoto, Parts, WorkersTyped, BatchesStand
  <2>4. CASE Throw(w)
    <3>1. batch[w] # {} /\ Head(w) \in Row
      BY <2>4, HeadInBatch DEF Throw, Parts, BatchesStand
    <3>2. doing' \in [Worker -> {"idle", "read", "look", "fire", "cancel"}]
          /\ batch' \in [Worker -> SUBSET Row] /\ BatchesStand'
      BY <2>4, <1>1, <3>1, ProceedKeeps DEF Throw, GiveUp, Parts
    <3>3. skip' \in [Worker -> SUBSET Row]
      BY <2>4, <3>1 DEF Throw, GiveUp, Parts, WorkersTyped
    <3> QED
      BY <3>2, <3>3 DEF WorkersTyped
  <2>5. CASE Crash(w)
    BY <1>1, <2>5 DEF Crash, WGoto, Parts, WorkersTyped, BatchesStand
  <2> QED
    BY <2>1, <2>2, <2>3, <2>4, <2>5
<1> QED
  BY <1>1, <1>2, <1>3, <1>4, UntouchedKeeps

\* Deletion, archiving, restoring, and the clock.
LEMMA WorldSteps ==
  ASSUME TransitionsAssumption, IInv, Retire \/ Restore \/ Tick
  PROVE  IInv' /\ HopsAreFresh
<1> USE DEF IInv
<1>1. UNCHANGED <<approval, edgeOf, ranSince, requestVars, workerVars, uses, gatedRuns,
                  waitsIn, leadsTo, moves, asked, faults>>
  BY DEF Retire, Restore, Tick, approvalVars, rowVars, history
<1>2. Gates' /\ RequestsTyped' /\ WorkersTyped'
  BY <1>1, GatesStand DEF Parts, RequestsTyped, WorkersTyped, requestVars, workerVars
<1>3. CASE Retire
  <2>1. row' = Ends(Row) /\ life' \in {"deleted", "archived"} /\ retired' \in 0 .. MaxRetired
        /\ UNCHANGED <<state, dueIn, expiresIn>>
        /\ left' = left \cup {r \in Row : row[r] # "none"}
    BY <1>3 DEF Retire, approvalVars, Parts, BoundsTyped, TransitionsAssumption
  <2>2. \A r \in Row : (row'[r] = "none" <=> row[r] = "none") /\ row'[r] # "pending"
                       /\ (row'[r] = "fired" <=> row[r] = "fired")
    BY <2>1, EndsRows DEF Parts
  <2>3. RowsTyped'
    BY <1>1, <2>1, EndsRows DEF Parts, RowsTyped
  <2>4. Numbered' /\ BatchesStand'
    BY <1>1, <2>2 DEF Parts, Numbered, BatchesStand, WorkersTyped, workerVars
  <2>5. Hops'
    BY <1>1, <2>1, <2>2 DEF Hops, HopsWaitHere, LeftAreOver, Parts, HistoryTyped
  <2>6. ItemTyped' /\ ApprovalsTyped' /\ BoundsTyped' /\ HistoryTyped' /\ HopsAreFresh
    BY <1>1, <2>1, <2>2 DEF Parts, ItemTyped, ApprovalsTyped, BoundsTyped, HistoryTyped, HopsAreFresh
  <2> QED
    BY <1>2, <2>3, <2>4, <2>5, <2>6 DEF Parts
<1>4. CASE Restore
  <2>1. life = "deleted" /\ life' = "live"
        /\ UNCHANGED <<state, row, dueIn, expiresIn, retired, left>>
    BY <1>4 DEF Restore, rowVars, approvalVars, history
  <2>2. Hops'
    BY <1>1, <2>1 DEF Hops, HopsWaitHere, LeftAreOver
  <2>3. ItemTyped' /\ RowsTyped' /\ ApprovalsTyped' /\ BoundsTyped' /\ HistoryTyped' /\ HopsAreFresh
    BY <1>1, <2>1 DEF Parts, ItemTyped, RowsTyped, ApprovalsTyped, BoundsTyped, HistoryTyped, HopsAreFresh
  <2>4. Numbered' /\ BatchesStand'
    BY <1>1, <2>1 DEF Parts, Numbered, BatchesStand, workerVars
  <2> QED
    BY <1>2, <2>2, <2>3, <2>4 DEF Parts
<1>5. CASE Tick
  <2>1. UNCHANGED <<state, life, row, retired, left>>
    BY <1>5 DEF Tick, itemVars, history
  <2>2. Hops'
    BY <1>1, <2>1, HopsStand
  <2>3. dueIn' \in [Row -> 0 .. Delay]
    BY <1>5 DEF Tick, Parts, RowsTyped, TransitionsAssumption
  <2>4. expiresIn' \in [Approval -> 0 .. Expiry]
    BY <1>5 DEF Tick, Parts, ApprovalsTyped, TransitionsAssumption
  <2>5. ItemTyped' /\ RowsTyped' /\ ApprovalsTyped' /\ BoundsTyped' /\ HistoryTyped' /\ HopsAreFresh
    BY <1>1, <2>1, <2>3, <2>4
       DEF Parts, ItemTyped, RowsTyped, ApprovalsTyped, BoundsTyped, HistoryTyped, HopsAreFresh
  <2>6. Numbered' /\ BatchesStand'
    BY <1>1, <2>1 DEF Parts, Numbered, BatchesStand, workerVars
  <2> QED
    BY <1>2, <2>2, <2>5, <2>6 DEF Parts
<1> QED
  BY <1>3, <1>4, <1>5

\* Every step keeps the invariant and fires fresh hops only.
LEMMA NextStep ==
  ASSUME TransitionsAssumption, IInv, [Next]_vars
  PROVE  IInv' /\ HopsAreFresh
<1>1. CASE \E q \in Request : (\E to \in State : Ask(q, to)) \/ Transition(q) \/ Refuse(q)
  BY <1>1, RequestSteps, TransitionStep
<1>2. CASE \E a \in Approval :
             (\E e \in Edge : RequestApproval(a, e)) \/ Decide(a) \/ Withdraw(a) \/ Expire(a)
  BY <1>2, ApprovalSteps
<1>3. CASE \E w \in Worker : WorkerStep(w) \/ Throw(w) \/ Crash(w)
  BY <1>3, CancelSteps, LookSteps, FireStep DEF WorkerStep
<1>4. CASE Retire \/ Restore \/ Tick
  BY <1>4, WorldSteps
<1>5. CASE UNCHANGED vars
  <2>1. Untouched /\ row' = row /\ faults' = faults /\ UNCHANGED workerVars
    BY <1>5 DEF vars, Untouched, rowVars
  <2>2. RowsTyped' /\ Numbered' /\ WorkersTyped' /\ BatchesStand' /\ faults' \in 0 .. MaxFaults
    BY <2>1 DEF Untouched, IInv, Parts, RowsTyped, Numbered, WorkersTyped, BatchesStand, BoundsTyped, workerVars
  <2>3. Hops'
    BY <2>1, HopsStand DEF Untouched, itemVars, history, IInv
  <2> QED
    BY <2>1, <2>2, <2>3, UntouchedKeeps DEF HopsAreFresh
<1> QED
  BY <1>1, <1>2, <1>3, <1>4, <1>5 DEF Next

\* The invariant of every behaviour.
LEMMA Invariant == ASSUME TransitionsAssumption PROVE Spec => []IInv
<1>1. Init => IInv
  BY InitInv
<1>2. IInv /\ [Next]_vars => IInv'
  BY NextStep
<1> QED
  BY <1>1, <1>2, PTL DEF Spec

-----------------------------------------------------------------------------

\* Every reachable state is well typed; a worker that looks at a row has one.
THEOREM TypeCorrect == ASSUME TransitionsAssumption PROVE Spec => []TypeOK
<1>1. IInv => TypeOK
  BY TypeParts DEF IInv
<1> QED
  BY <1>1, Invariant, PTL

\* Pending hops wait in the state of a live item: what leaving a state, deleting
\* and archiving do in their own commit, with any number of schedulers.
THEOREM HopsWait == ASSUME TransitionsAssumption PROVE Spec => []HopsWaitHere
<1>1. IInv => HopsWaitHere
  BY DEF IInv, Hops
<1> QED
  BY <1>1, Invariant, PTL

\* No bounce, deletion and restore, stale batch or second scheduler fires a row
\* whose item has been elsewhere since the row was made.
THEOREM FreshHops == ASSUME TransitionsAssumption PROVE Spec => HopsAreNeverStale
<1>1. IInv /\ [Next]_vars => [HopsAreFresh]_vars
  BY NextStep
<1>2. HopsAreFresh <=> (\A r \in Row : row[r] # "fired" /\ row'[r] = "fired" =>
                         r \notin left /\ state = waitsIn[r] /\ state' = leadsTo[r])
  BY DEF HopsAreFresh
<1>3. IInv /\ [Next]_vars =>
        [\A r \in Row : row[r] # "fired" /\ row'[r] = "fired" =>
           r \notin left /\ state = waitsIn[r] /\ state' = leadsTo[r]]_vars
  BY <1>1, <1>2
<1> QED
  BY <1>3, Invariant, PTL DEF Spec, HopsAreNeverStale

\* Nobody is asked for an approval that can no longer count.
THEOREM RequestsCount == ASSUME TransitionsAssumption PROVE Spec => []NoDeadRequests
<1>1. IInv => NoDeadRequests
  BY DEF IInv, Gates
<1> QED
  BY <1>1, Invariant, PTL

\* Every approval backs one run of its gated edge at most, and every run of a
\* gated edge had one of its own, whatever the policy and the number of people.
THEOREM SingleUse == ASSUME TransitionsAssumption PROVE Spec => []ApprovalsAreSingleUse
<1>1. IInv => ApprovalsAreSingleUse
  <2> SUFFICES ASSUME IInv PROVE ApprovalsAreSingleUse
    OBVIOUS
  <2>1. \A a \in Approval : uses[a] <= 1
    BY DEF IInv, Gates, Spent
  <2>2. \A e \in Edge : gatedRuns[e] <= Cardinality({a \in Approval : edgeOf[a] = e /\ uses[a] = 1})
    BY DEF IInv, Gates, Backed, Backing
  <2> QED
    BY <2>1, <2>2 DEF ApprovalsAreSingleUse
<1> QED
  BY <1>1, Invariant, PTL
=============================================================================
