------------------------- MODULE AutomationRunsProofs -------------------------
(* Types and safety of AutomationRuns: true histories, failures told, chains   *)
(* cut, order, final outcomes, when an abandoned run is a broken one, and that *)
(* the drain implements the run history of AutomationHistory.                  *)
EXTENDS AutomationRuns, TLAPS, FiniteSetTheorems

\* The typing conjuncts of TypeOK, by what they speak of.
RulesTyped == enabled \in [Rule -> BOOLEAN]

EventsTyped ==
  /\ made \in 0 .. MaxEvents /\ fanned \subseteq 1 .. made
  /\ depth \in [Event -> Nat] /\ origin \in [Event -> Rule \cup {NoRule}]

RunsTyped ==
  /\ run \in [Rule -> [Event -> States]] /\ leaseLeft \in [Event -> 0 .. Lease]
  /\ told \subseteq Rule \X Event

LoopsTyped ==
  /\ pc \in [Worker -> {"idle", "judge", "act", "finish"}]
  /\ job \in [Worker -> 0 .. MaxEvents] /\ todo \in [Worker -> SUBSET Rule]
  /\ verdict \in [Worker -> Verdicts] /\ step \in [Worker -> 0 .. Actions]

FlagsTyped == stopped \in [Worker -> BOOLEAN] /\ dangling \in [Worker -> BOOLEAN]

ActedTyped == acted \in [Rule -> [Event -> 0 .. Actions]]

Typed == RulesTyped /\ EventsTyped /\ RunsTyped /\ LoopsTyped /\ FlagsTyped /\ ActedTyped

\* What a worker that has claimed the runs of an event can rely on: the rule in
\* work counts its actions, those behind it have not acted, and while nothing
\* stopped the group no rule before it that stops has.
AtWork(w) ==
  LET r == Current(w)  e == job[w]
  IN  /\ e \in fanned
      /\ \A s \in Rule : run[s][e] # "pending"
      /\ \A s \in todo[w] : run[s][e] \in {"running", "abandoned"}
      /\ acted[r][e] = step[w]
      /\ pc[w] = "judge" \/ ~ stopped[w]
      /\ pc[w] = "act" => verdict[w] \in {"done", "failed"} /\ Guard(r, e) = "ok"
      /\ pc[w] = "finish" =>
           /\ step[w] \in {0, Actions}
           /\ verdict[w] = "done" => step[w] = Actions
           /\ verdict[w] \in {"skipped", "unmatched"} => step[w] = 0
      /\ \A s \in Rule : Position[s] > Position[r] => acted[s][e] = 0
      /\ ~ stopped[w] => \A s \in Stops : Position[s] < Position[r] => acted[s][e] = 0

Right(w) ==
  /\ pc[w] = "idle" <=> todo[w] = {}
  /\ pc[w] \in {"idle", "judge"} => step[w] = 0
  /\ pc[w] # "idle" => AtWork(w)

Workers == \A w \in Worker : Right(w)

Apart ==
  \A w, x \in Worker : w # x /\ pc[w] # "idle" /\ pc[x] # "idle" => job[w] # job[x]

\* An event gets its runs once, and their actions begin with the claim.
Unfanned == \A r \in Rule, e \in Event : e \notin fanned => run[r][e] = "none"

Fresh ==
  \A r \in Rule, e \in Event : run[r][e] = "pending" => \A s \in Rule : acted[s][e] = 0

\* At the limit nothing is queued.
Cut == \A r \in Rule, e \in Event : depth[e] >= MaxDepth => run[r][e] \in {"none", "failed"}

Rows == Unfanned /\ Fresh /\ Cut /\ HistoryIsTruthful /\ FailuresAreTold /\ LoopsAreCutAndShown

IInv == Typed /\ Workers /\ Apart /\ Rows

\* What OutcomeIsFinal and RulesActInOrder say of a step.
OutcomesStay == \A r \in Rule, e \in Event : run[r][e] \in Over => run'[r][e] = run[r][e]

InOrder ==
  \A r \in Rule, e \in Event : acted'[r][e] # acted[r][e] =>
    \A s \in Rule :
      /\ Position[s] > Position[r] => acted[s][e] = 0
      /\ s \in Stops /\ Position[s] < Position[r] => acted[s][e] = 0

Kept == IInv' /\ OutcomesStay /\ InOrder

\* The invariant gives TypeOK.
LEMMA InvTyped == IInv => TypeOK
BY DEF IInv, TypeOK, Typed, RulesTyped, EventsTyped, RunsTyped, LoopsTyped, FlagsTyped, ActedTyped,
       Workers, Right, AtWork, Apart

-----------------------------------------------------------------------------
(* The order of the rules *)

\* A set of numbers that has an element has a least one.
LEMMA LeastElement ==
  ASSUME NEW S \in SUBSET Nat, S # {}
  PROVE  \E x \in S : \A y \in S : x <= y
<1> DEFINE T == {1 .. x : x \in S}
<1>1. T \subseteq FiniteSubsetsOf(Nat)
  BY FS_Interval DEF FiniteSubsetsOf
<1>2. PICK t \in T : \A u \in T : ~ (<<u, t>> \in StrictSubsetOrdering(Nat))
  <2>1. T # {}
    BY Zenon
  <2> QED
    BY <1>1, <2>1, WFMin, FS_StrictSubsetOrderingWellFounded, Zenon
<1>3. PICK x \in S : t = 1 .. x
  BY <1>2
<1>4. ASSUME NEW y \in S, y < x PROVE FALSE
  <2>0. y \in Nat /\ x \in Nat /\ 1 .. y \in T
    OBVIOUS
  <2>1. 1 .. y \in T /\ 1 .. y \subseteq 1 .. x
    BY <2>0, <1>4
  <2>2. 1 .. y # 1 .. x
    BY <1>4
  <2>3. 1 .. y \in SUBSET Nat /\ 1 .. x \in SUBSET Nat
    OBVIOUS
  <2>4. <<1 .. y, 1 .. x>> \in StrictSubsetOrdering(Nat)
    BY <2>1, <2>2, <2>3, Zenon DEF StrictSubsetOrdering
  <2> QED
    BY <2>1, <2>4, <1>2, <1>3
<1> QED
  BY <1>4

\* Of the rules a worker has to do, the one in work is the first.
LEMMA FirstRule ==
  ASSUME AutomationAssumption, NEW rules \in SUBSET Rule, rules # {}
  PROVE  FirstOf(rules) \in rules /\ \A s \in rules : Position[FirstOf(rules)] <= Position[s]
<1>1. {Position[r] : r \in rules} \in SUBSET Nat /\ {Position[r] : r \in rules} # {}
  BY DEF AutomationAssumption
<1>2. PICK n \in {Position[r] : r \in rules} : \A m \in {Position[r] : r \in rules} : n <= m
  BY <1>1, LeastElement
<1>3. \E r \in rules : \A s \in rules : Position[r] <= Position[s]
  BY <1>2
<1> QED
  BY <1>3 DEF FirstOf

\* A worker that is not idle has a rule in work.
LEMMA CurrentRule ==
  ASSUME AutomationAssumption, Typed, NEW w \in Worker, todo[w] # {}
  PROVE  /\ Current(w) \in todo[w] /\ Current(w) \in Rule
         /\ \A s \in todo[w] : s # Current(w) => Position[Current(w)] < Position[s]
<1>1. todo[w] \in SUBSET Rule
  BY DEF Typed, LoopsTyped
<1>2. Current(w) \in todo[w] /\ \A s \in todo[w] : Position[Current(w)] <= Position[s]
  BY <1>1, FirstRule DEF Current
<1> QED
  BY <1>1, <1>2 DEF AutomationAssumption

\* What has been handed out is an event.
LEMMA FannedAreEvents == ASSUME AutomationAssumption, Typed PROVE fanned \subseteq Event
<1>1. made \in Nat /\ MaxEvents \in Nat /\ made <= MaxEvents /\ fanned \subseteq 1 .. made
  BY DEF AutomationAssumption, Typed, EventsTyped
<1> QED
  BY <1>1 DEF Event

-----------------------------------------------------------------------------
(* Frames *)

SameLoop(w) ==
  /\ pc'[w] = pc[w] /\ job'[w] = job[w] /\ todo'[w] = todo[w]
  /\ stopped'[w] = stopped[w] /\ verdict'[w] = verdict[w] /\ step'[w] = step[w]

SameEvents == fanned \subseteq fanned' /\ \A e \in fanned : depth'[e] = depth[e] /\ origin'[e] = origin[e]

\* A worker's own rows change under its hands only in being abandoned.
SameRuns(e) ==
  /\ \A s \in Rule : acted'[s][e] = acted[s][e]
  /\ \A s \in Rule : \/ run'[s][e] = run[s][e]
                     \/ run[s][e] = "running" /\ run'[s][e] = "abandoned"

\* What others do on other events, and time, leave a worker right.
LEMMA StaysRight ==
  ASSUME AutomationAssumption, Typed, NEW w \in Worker, Right(w), SameLoop(w), SameEvents,
         pc[w] # "idle" => SameRuns(job[w])
  PROVE  Right(w)'
<1>1. CASE pc[w] = "idle"
  BY <1>1 DEF Right, SameLoop
<1>2. CASE pc[w] # "idle"
  <2> DEFINE r == Current(w)  e == job[w]
  <2>1. r \in Rule /\ todo[w] \subseteq Rule /\ Current(w)' = r /\ job'[w] = e
    BY <1>2, CurrentRule DEF Right, SameLoop, Current, Typed, LoopsTyped
  <2>2. e \in fanned /\ e \in fanned' /\ Guard(r, e)' = Guard(r, e)
    BY <1>2, <2>1 DEF Right, AtWork, SameEvents, Guard
  <2>3. (stopped'[w] <=> stopped[w]) /\ verdict'[w] = verdict[w] /\ step'[w] = step[w] /\ pc'[w] = pc[w]
        /\ todo'[w] = todo[w]
    BY Zenon DEF SameLoop
  <2>4. \A s \in Rule : run[s][e] # "pending" => run'[s][e] # "pending"
    BY <1>2 DEF SameRuns
  <2>5. \A s \in Rule : run[s][e] \in {"running", "abandoned"} => run'[s][e] \in {"running", "abandoned"}
    BY <1>2 DEF SameRuns
  <2>6. \A s \in Rule : acted'[s][e] = acted[s][e]
    BY <1>2 DEF SameRuns
  <2>7. Stops \subseteq Rule
    BY DEF AutomationAssumption
  <2>8. AtWork(w)
    BY <1>2 DEF Right
  <2>9. AtWork(w)'
    BY <2>1, <2>2, <2>3, <2>4, <2>5, <2>6, <2>7, <2>8 DEF AtWork
  <2> QED
    BY <1>2, <2>3, <2>9 DEF Right
<1> QED
  BY <1>1, <1>2

\* What a worker does on its own event leaves the others right.
LEMMA OthersStayRight ==
  ASSUME AutomationAssumption, Typed, Workers, Apart, NEW w \in Worker, pc[w] # "idle",
         \A x \in Worker : x # w => SameLoop(x),
         SameEvents, \A e \in Event : e # job[w] => SameRuns(e)
  PROVE  /\ \A x \in Worker : x # w => Right(x)'
         /\ job'[w] = job[w] => Apart'
<1>1. ASSUME NEW x \in Worker, x # w PROVE Right(x)'
  <2>0. pc[x] # "idle" => job[x] \in fanned /\ job[x] # job[w]
    BY <1>1 DEF Apart, Workers, Right, AtWork
  <2>1. pc[x] # "idle" => job[x] \in Event /\ job[x] # job[w]
    BY <2>0, FannedAreEvents
  <2> QED
    BY <1>1, <2>1, StaysRight DEF Workers
<1>2. job'[w] = job[w] => Apart'
  BY DEF Apart, SameLoop
<1> QED
  BY <1>1, <1>2

\* Rows that are as they were are right, as new events have no runs.
LEMMA RowsStayRight ==
  ASSUME Typed, Rows, EventsTyped', SameEvents, UNCHANGED <<run, told, acted, fanned>>
  PROVE  Rows' /\ OutcomesStay /\ InOrder
<1>1. Unfanned' /\ Fresh' /\ HistoryIsTruthful' /\ FailuresAreTold'
  BY DEF Rows, Unfanned, Fresh, HistoryIsTruthful, FailuresAreTold
<1>2. \A r \in Rule, e \in Event : e \in fanned \/ (run[r][e] = "none" /\ acted[r][e] = 0)
  BY DEF Rows, Unfanned, HistoryIsTruthful
<1>3. Cut'
  BY <1>2 DEF Rows, Cut, SameEvents
<1>4. LoopsAreCutAndShown'
  BY <1>2 DEF Rows, LoopsAreCutAndShown, SameEvents, Typed, ActedTyped
<1> QED
  BY <1>1, <1>3, <1>4 DEF Rows, OutcomesStay, InOrder

-----------------------------------------------------------------------------

\* No event is handed out and nobody is at work.
LEMMA Initially ==
  ASSUME AutomationAssumption, Init
  PROVE  IInv
<1>1. RulesTyped /\ FlagsTyped
  BY DEF Init, RulesTyped, FlagsTyped
<1>2. EventsTyped /\ RunsTyped /\ LoopsTyped /\ ActedTyped
  BY DEF Init, EventsTyped, RunsTyped, LoopsTyped, ActedTyped, AutomationAssumption, States, Verdicts, Event
<1>3. Workers /\ Apart
  BY DEF Init, Workers, Apart, Right
<1>4. Rows
  BY DEF Init, Rows, Unfanned, Fresh, Cut, HistoryIsTruthful, FailuresAreTold, LoopsAreCutAndShown
<1> QED
  BY <1>1, <1>2, <1>3, <1>4 DEF IInv, Typed

-----------------------------------------------------------------------------
(* The consumer and the claim *)

\* An event that is handed out has no runs yet, and so no worker.
LEMMA EnqueueKeeps ==
  ASSUME AutomationAssumption, IInv, NEW e \in Event, Enqueue(e)
  PROVE  Kept
<1> USE DEF IInv
<1>0. /\ e \notin fanned /\ fanned' = fanned \cup {e} /\ e \in 1 .. made
      /\ UNCHANGED <<made, depth, origin, leaseLeft, acted>> /\ UNCHANGED workVars
  BY DEF Enqueue
<1>a. acted' = acted /\ depth' = depth /\ origin' = origin
  BY <1>0
<1>1. \A r \in Rule : run[r][e] = "none" /\ acted[r][e] = 0 /\ <<r, e>> \notin told
  BY <1>0 DEF Rows, Unfanned, HistoryIsTruthful, FailuresAreTold
<1>b. \A r \in Rule : acted[r][e] = 0
  BY <1>1, Zenon
<1>2. \A r \in Rule, f \in Event :
        run'[r][f] = IF f # e THEN run[r][f]
                     ELSE IF r \in Triggered(e, "ok") THEN "pending"
                     ELSE IF r \in Surfaced(e) THEN "failed" ELSE "none"
  BY <1>1 DEF Enqueue, Typed, RunsTyped
<1>3. run' \in [Rule -> [Event -> States]]
  BY DEF Enqueue, Typed, RunsTyped, States, Over
<1>4. \A r \in Rule : r \in Triggered(e, "depth_exceeded") => <<r, e>> \in told'
  BY DEF Enqueue
<1>5. \A r \in Rule, f \in Event :
        <<r, f>> \in told' => <<r, f>> \in told \/ (f = e /\ r \in Triggered(e, "depth_exceeded"))
  BY DEF Enqueue
<1>6. told \subseteq told' /\ told' \subseteq Rule \X Event
  BY DEF Enqueue, Typed, RunsTyped, Triggered
<1>7. Typed'
  <2>1. RulesTyped'
    BY DEF Enqueue, ruleVars, Typed, RulesTyped
  <2>2. EventsTyped' /\ LoopsTyped' /\ ActedTyped'
    BY <1>0 DEF Typed, EventsTyped, LoopsTyped, ActedTyped, workVars
  <2>3. RunsTyped'
    BY <1>0, <1>3, <1>6 DEF Typed, RunsTyped
  <2>4. FlagsTyped'
    BY <1>0, Zenon DEF Typed, FlagsTyped, workVars
  <2> QED
    BY <2>1, <2>2, <2>3, <2>4 DEF Typed
<1>8. Workers' /\ Apart'
  <2>1. \A x \in Worker : SameLoop(x)
    BY <1>0, Zenon DEF SameLoop, workVars
  <2>2. SameEvents
    BY <1>0 DEF SameEvents
  <2>3. \A x \in Worker : pc[x] # "idle" => job[x] \in Event /\ job[x] # e
    BY <1>0, FannedAreEvents DEF Workers, Right, AtWork
  <2>4. \A x \in Worker : pc[x] # "idle" => SameRuns(job[x])
    BY <1>0, <1>2, <2>3 DEF SameRuns
  <2>5. Workers'
    BY <2>1, <2>2, <2>4, StaysRight DEF Workers
  <2>6. Apart'
    BY <2>1 DEF Apart, SameLoop
  <2> QED
    BY <2>5, <2>6
<1>9. Rows'
  <2>1. depth[e] >= MaxDepth => Triggered(e, "ok") = {}
    BY DEF Triggered, Guard
  <2>2. Triggered(e, "ok") \cap Triggered(e, "depth_exceeded") = {}
    BY DEF Triggered
  <2>3. Triggered(e, "depth_exceeded") \subseteq Surfaced(e)
    BY DEF Surfaced
  <2>4. \A r \in Surfaced(e) : origin[e] \in Rule => origin[e] \in Surfaced(e)
    BY DEF Surfaced, AutomationAssumption
  <2>5. Unfanned' /\ Fresh'
    <3>1. Unfanned'
      BY <1>0, <1>2 DEF Rows, Unfanned
    <3>2. \A r \in Rule, f \in Event : f # e => run'[r][f] = run[r][f]
      BY <1>2
    <3>3. Fresh'
      BY <1>a, <1>b, <3>2 DEF Rows, Fresh
    <3> QED
      BY <3>1, <3>3
  <2>6. Cut'
    BY <1>0, <1>2, <2>1 DEF Rows, Cut
  <2>7. HistoryIsTruthful'
    <3>1. \A r \in Rule, f \in Event : run'[r][f] = run[r][f] \/ (f = e /\ run'[r][f] # "done")
      BY <1>2
    <3> QED
      BY <1>a, <1>b, <3>1 DEF Rows, HistoryIsTruthful
  <2>8. FailuresAreTold'
    <3> SUFFICES ASSUME NEW r \in Rule, NEW f \in Event
                 PROVE  /\ run'[r][f] = "failed" /\ acted'[r][f] > 0 => <<r, f>> \in told'
                        /\ <<r, f>> \in told' => run'[r][f] = "failed"
      BY DEF FailuresAreTold
    <3>1. CASE f = e
      BY <3>1, <1>0, <1>1, <1>2, <1>5, <2>2, <2>3
    <3>2. CASE f # e
      BY <3>2, <1>0, <1>2, <1>5, <1>6 DEF Rows, FailuresAreTold
    <3> QED
      BY <3>1, <3>2
  <2>9. LoopsAreCutAndShown'
    <3> SUFFICES ASSUME NEW r \in Rule, NEW f \in Event
                 PROVE  /\ acted'[r][f] > 0 => origin'[f] # r /\ depth'[f] < MaxDepth
                        /\ run'[r][f] = "failed" /\ depth'[f] >= MaxDepth /\ origin'[f] \in Rule
                             => run'[origin'[f]][f] = "failed"
      BY DEF LoopsAreCutAndShown
    <3>1. CASE f = e
      <4>1. ASSUME run'[r][e] = "failed", depth[e] >= MaxDepth, origin[e] \in Rule
            PROVE  run'[origin[e]][e] = "failed"
        <5>1. r \in Surfaced(e)
          BY <4>1, <1>2, <2>1
        <5> QED
          BY <4>1, <5>1, <1>2, <2>1, <2>4
      <4> QED
        BY <3>1, <4>1, <1>a, <1>b
    <3>2. CASE f # e
      BY <3>2, <1>0, <1>2 DEF Rows, LoopsAreCutAndShown
    <3> QED
      BY <3>1, <3>2
  <2> QED
    BY <2>5, <2>6, <2>7, <2>8, <2>9 DEF Rows
<1>10. OutcomesStay /\ InOrder
  <2>1. \A r \in Rule, f \in Event : run'[r][f] = run[r][f] \/ run[r][f] = "none"
    BY <1>1, <1>2
  <2>2. OutcomesStay
    BY <2>1 DEF OutcomesStay, Over
  <2> QED
    BY <1>a, <2>2 DEF InOrder
<1> QED
  BY <1>7, <1>8, <1>9, <1>10 DEF Kept

\* A claim takes all pending runs of an event, whose rules have not acted.
LEMMA ClaimKeeps ==
  ASSUME AutomationAssumption, IInv, NEW w \in Worker, NEW e \in Event, Claim(w, e)
  PROVE  Kept
<1> USE DEF IInv
<1>0. /\ pc[w] = "idle" /\ Claimable(e) # {} /\ Claimable(e) \subseteq Rule
      /\ UNCHANGED <<made, depth, origin, fanned, told, acted>>
  BY DEF Claim, eventVars, Claimable
<1>1. \A r \in Rule, f \in Event :
        run'[r][f] = IF f = e /\ run[r][e] = "pending" THEN "running" ELSE run[r][f]
  BY DEF Claim, Claimable, Typed, RunsTyped
<1>2. /\ pc'[w] = "judge" /\ job'[w] = e /\ todo'[w] = Claimable(e)
      /\ step'[w] = 0 /\ verdict' = verdict
  BY <1>0 DEF Claim, Typed, LoopsTyped, Workers, Right
<1>3. ~ stopped'[w]
  BY Zenon DEF Claim, Typed, FlagsTyped
<1>4. \A x \in Worker : x # w => SameLoop(x)
  <2>1. \A x \in Worker : x # w => pc'[x] = pc[x] /\ job'[x] = job[x] /\ todo'[x] = todo[x]
                                   /\ step'[x] = step[x] /\ verdict'[x] = verdict[x]
    BY DEF Claim, Typed, LoopsTyped
  <2>2. \A x \in Worker : x # w => stopped'[x] = stopped[x]
    BY Zenon DEF Claim, Typed, FlagsTyped
  <2> QED
    BY <2>1, <2>2, Zenon DEF SameLoop
<1>5. Typed'
  <2>1. RulesTyped'
    BY DEF Claim, ruleVars, Typed, RulesTyped
  <2>2. EventsTyped' /\ ActedTyped'
    BY <1>0 DEF Typed, EventsTyped, ActedTyped
  <2>3. RunsTyped'
    BY <1>0 DEF Claim, Typed, RunsTyped, States, AutomationAssumption
  <2>4. LoopsTyped'
    <3>1. e \in 0 .. MaxEvents
      BY DEF Event, AutomationAssumption
    <3> QED
      BY <1>0, <3>1 DEF Claim, Typed, LoopsTyped
  <2>5. FlagsTyped'
    BY Zenon DEF Claim, Typed, FlagsTyped
  <2> QED
    BY <2>1, <2>2, <2>3, <2>4, <2>5 DEF Typed
<1>6. \A x \in Worker : x # w /\ pc[x] # "idle" => job[x] \in Event /\ job[x] # e
  <2>1. \E r \in Rule : run[r][e] = "pending"
    BY <1>0 DEF Claimable
  <2> QED
    BY <2>1, FannedAreEvents DEF Workers, Right, AtWork
<1>7. \A x \in Worker : x # w => Right(x)'
  <2>1. \A x \in Worker : x # w /\ pc[x] # "idle" => SameRuns(job[x])
    BY <1>0, <1>1, <1>6 DEF SameRuns
  <2>2. SameEvents
    BY <1>0 DEF SameEvents
  <2> QED
    BY <1>4, <2>1, <2>2, StaysRight DEF Workers
<1>8. Right(w)'
  <2>1. \A s \in Rule : acted'[s][e] = 0
    BY <1>0 DEF Claimable, Rows, Fresh
  <2>2. Current(w)' \in Rule
    BY <1>0, <1>2, <1>5, FirstRule DEF Current
  <2>3. Stops \subseteq Rule
    BY DEF AutomationAssumption
  <2>4. e \in fanned'
    BY <1>0 DEF Claimable, Rows, Unfanned
  <2>5. \A s \in Rule : run'[s][e] # "pending" /\ (s \in Claimable(e) => run'[s][e] = "running")
    BY <1>1 DEF Claimable
  <2>6. AtWork(w)'
    BY <1>0, <1>2, <1>3, <2>1, <2>2, <2>3, <2>4, <2>5 DEF AtWork
  <2> QED
    BY <1>0, <1>2, <2>6 DEF Right
<1>9. Workers' /\ Apart'
  <2>1. Apart'
    BY <1>2, <1>4, <1>6 DEF Apart, SameLoop
  <2> QED
    BY <2>1, <1>7, <1>8 DEF Workers
<1>10. Rows'
  <2>1. Unfanned' /\ Fresh' /\ Cut'
    BY <1>0, <1>1 DEF Rows, Unfanned, Fresh, Cut
  <2>2. HistoryIsTruthful' /\ FailuresAreTold'
    BY <1>0, <1>1 DEF Rows, HistoryIsTruthful, FailuresAreTold
  <2>3. LoopsAreCutAndShown'
    BY <1>0, <1>1 DEF Rows, LoopsAreCutAndShown
  <2> QED
    BY <2>1, <2>2, <2>3 DEF Rows
<1>11. OutcomesStay /\ InOrder
  BY <1>0, <1>1 DEF OutcomesStay, InOrder, Over
<1> QED
  BY <1>5, <1>9, <1>10, <1>11 DEF Kept

-----------------------------------------------------------------------------
(* The executor *)

\* A worker that goes on with its rule, and writes no row, stays right.
LEMMA MovesOn ==
  ASSUME AutomationAssumption, IInv, NEW w \in Worker, pc[w] # "idle", ~ stopped[w],
         \A x \in Worker : x # w => SameLoop(x),
         job' = job, todo' = todo, stopped' = stopped, step'[w] = step[w],
         run' = run, told' = told, acted' = acted, fanned' = fanned,
         made' = made, depth' = depth, origin' = origin, Typed',
         pc'[w] \in {"act", "finish"},
         pc'[w] = "act" => verdict'[w] \in {"done", "failed"} /\ Guard(Current(w), job[w]) = "ok",
         pc'[w] = "finish" =>
           /\ step[w] \in {0, Actions}
           /\ verdict'[w] = "done" => step[w] = Actions
           /\ verdict'[w] \in {"skipped", "unmatched"} => step[w] = 0
  PROVE  Kept
<1> USE DEF IInv
<1>1. SameEvents /\ \A e \in Event : SameRuns(e)
  BY DEF SameEvents, SameRuns
<1>2. (\A x \in Worker : x # w => Right(x)') /\ Apart'
  BY <1>1, OthersStayRight
<1>3. todo[w] # {} /\ AtWork(w)
  BY DEF Workers, Right
<1>4. Current(w)' = Current(w) /\ Guard(Current(w), job[w])' = Guard(Current(w), job[w])
  BY DEF Current, Guard
<1>5. ~ stopped'[w]
  BY Zenon
<1>6. AtWork(w)'
  BY <1>3, <1>4, <1>5 DEF AtWork
<1>7. Right(w)'
  BY <1>3, <1>6 DEF Right
<1>8. Rows' /\ OutcomesStay /\ InOrder
  BY <1>1, RowsStayRight DEF Typed
<1> QED
  BY <1>2, <1>7, <1>8 DEF Kept, Workers

\* Only what w does for itself changes loops.
LEMMA OnlyOwnLoop ==
  ASSUME Typed, NEW w \in Worker,
         \/ Judge(w) \/ JudgeRole(w) \/ Match(w) \/ Act(w) \/ ActFails(w)
         \/ RecordRuleOutcome(w) \/ Finish(w) \/ SkipStopped(w) \/ Break(w)
  PROVE  \A x \in Worker : x # w => SameLoop(x)
<1> USE DEF Judge, JudgeRole, Match, Act, ActFails, RecordRuleOutcome, Finish, SkipStopped, Break,
            NextRule, CountAction, Goto
<1>1. \A x \in Worker : x # w => pc'[x] = pc[x]
  BY DEF Typed, LoopsTyped
<1>2. \A x \in Worker : x # w => todo'[x] = todo[x] /\ job'[x] = job[x]
  BY DEF Typed, LoopsTyped
<1>3. \A x \in Worker : x # w => verdict'[x] = verdict[x] /\ step'[x] = step[x]
  BY DEF Typed, LoopsTyped
<1>4. \A x \in Worker : x # w => stopped'[x] = stopped[x]
  BY Zenon DEF Typed, FlagsTyped
<1> QED
  BY <1>1, <1>2, <1>3, <1>4, Zenon DEF SameLoop

\* What executeRun finds before it acts executes nothing.
LEMMA JudgeKeeps ==
  ASSUME AutomationAssumption, IInv, NEW w \in Worker, Judge(w) \/ JudgeRole(w)
  PROVE  Kept
<1> USE DEF IInv
<1>1. /\ pc[w] = "judge" /\ ~ stopped[w] /\ step[w] = 0 /\ step' = step
      /\ job' = job /\ todo' = todo /\ stopped' = stopped /\ run' = run /\ told' = told /\ acted' = acted
      /\ made' = made /\ depth' = depth /\ origin' = origin /\ fanned' = fanned
      /\ dangling' = dangling /\ leaseLeft' = leaseLeft
  BY DEF Judge, JudgeRole, eventVars, runVars, Workers, Right
<1>2. pc' = [pc EXCEPT ![w] = "finish"]
      /\ \E v \in {"skipped", "failed", "unmatched"} : verdict' = [verdict EXCEPT ![w] = v]
  BY DEF Judge, JudgeRole, Findings, Goto
<1>3. enabled' = enabled \/ enabled' = [enabled EXCEPT ![Current(w)] = FALSE]
  BY DEF Judge, JudgeRole, ruleVars
<1>4. Typed'
  <2>1. EventsTyped' /\ RunsTyped' /\ ActedTyped'
    BY <1>1 DEF Typed, EventsTyped, RunsTyped, ActedTyped
  <2>2. LoopsTyped'
    BY <1>1, <1>2 DEF Typed, LoopsTyped, Verdicts
  <2>3. RulesTyped' /\ FlagsTyped'
    BY <1>1, <1>3 DEF Typed, RulesTyped, FlagsTyped
  <2> QED
    BY <2>1, <2>2, <2>3 DEF Typed
<1>5. pc'[w] = "finish" /\ verdict'[w] \in {"skipped", "failed", "unmatched"}
  BY <1>2 DEF Typed, LoopsTyped
<1> QED
  BY <1>1, <1>4, <1>5, OnlyOwnLoop, MovesOn

\* A rule acts only where the loop guard lets it.
LEMMA MatchKeeps ==
  ASSUME AutomationAssumption, IInv, NEW w \in Worker, Match(w)
  PROVE  Kept
<1> USE DEF IInv
<1>1. /\ pc[w] = "judge" /\ ~ stopped[w] /\ step[w] = 0 /\ step' = [step EXCEPT ![w] = 0]
      /\ job' = job /\ todo' = todo /\ stopped' = stopped /\ run' = run /\ told' = told /\ acted' = acted
      /\ made' = made /\ depth' = depth /\ origin' = origin /\ fanned' = fanned
      /\ leaseLeft' = leaseLeft /\ enabled' = enabled
  BY DEF Match, eventVars, runVars, ruleVars, Workers, Right
<1>2. pc' = [pc EXCEPT ![w] = "act"] /\ verdict' = [verdict EXCEPT ![w] = "done"]
      /\ dangling' = [dangling EXCEPT ![w] = FALSE]
  BY DEF Match, Goto
<1>3. Guard(Current(w), job[w]) = "ok"
  BY DEF Match, Findings, Guard
<1>4. Typed'
  <2>1. EventsTyped' /\ RunsTyped' /\ ActedTyped'
    BY <1>1 DEF Typed, EventsTyped, RunsTyped, ActedTyped
  <2>2. LoopsTyped'
    BY <1>1, <1>2 DEF Typed, LoopsTyped, Verdicts, AutomationAssumption
  <2>3. RulesTyped' /\ FlagsTyped'
    BY <1>1, <1>2 DEF Typed, RulesTyped, FlagsTyped
  <2> QED
    BY <2>1, <2>2, <2>3 DEF Typed
<1>5. pc'[w] = "act" /\ verdict'[w] = "done" /\ step'[w] = step[w]
  BY <1>1, <1>2 DEF Typed, LoopsTyped
<1> QED
  BY <1>1, <1>3, <1>4, <1>5, OnlyOwnLoop, MovesOn

\* All actions of a matched rule were executed when its outcome is recorded.
LEMMA RecordKeeps ==
  ASSUME AutomationAssumption, IInv, NEW w \in Worker, RecordRuleOutcome(w)
  PROVE  Kept
<1> USE DEF IInv
<1>1. /\ pc[w] = "act" /\ step[w] = Actions /\ step' = step /\ verdict' = verdict
      /\ job' = job /\ todo' = todo /\ stopped' = stopped /\ run' = run /\ told' = told /\ acted' = acted
      /\ made' = made /\ depth' = depth /\ origin' = origin /\ fanned' = fanned
      /\ leaseLeft' = leaseLeft /\ dangling' = dangling
      /\ pc' = [pc EXCEPT ![w] = "finish"]
  BY DEF RecordRuleOutcome, eventVars, runVars, Goto
<1>2. ~ stopped[w] /\ verdict[w] \in {"done", "failed"}
  BY <1>1 DEF Workers, Right, AtWork
<1>3. enabled' = enabled \/ enabled' = [enabled EXCEPT ![Current(w)] = FALSE]
  BY DEF RecordRuleOutcome
<1>4. Typed'
  <2>1. EventsTyped' /\ RunsTyped' /\ ActedTyped'
    BY <1>1 DEF Typed, EventsTyped, RunsTyped, ActedTyped
  <2>2. LoopsTyped'
    BY <1>1 DEF Typed, LoopsTyped
  <2>3. RulesTyped' /\ FlagsTyped'
    BY <1>1, <1>3 DEF Typed, RulesTyped, FlagsTyped
  <2> QED
    BY <2>1, <2>2, <2>3 DEF Typed
<1>5. pc'[w] = "finish"
  BY <1>1 DEF Typed, LoopsTyped
<1> QED
  BY <1>1, <1>2, <1>4, <1>5, OnlyOwnLoop, MovesOn

\* An action counts for the rule and event in work and for no other, and an
\* event it writes is one nobody has handed out.
LEMMA Counted ==
  ASSUME AutomationAssumption, IInv, NEW w \in Worker, Act(w) \/ ActFails(w)
  PROVE  /\ pc[w] = "act" /\ step[w] < Actions
         /\ \A r \in Rule, e \in Event :
              acted'[r][e] = IF r = Current(w) /\ e = job[w] THEN acted[r][e] + 1 ELSE acted[r][e]
         /\ acted[Current(w)][job[w]] = step[w] /\ step'[w] = step[w] + 1
         /\ Current(w) \in todo[w] /\ Current(w) \in Rule
         /\ job[w] \in fanned /\ job[w] \in Event
         /\ Typed' /\ SameEvents
         /\ verdict'[w] \in {"done", "failed"}
<1> USE DEF IInv
<1>1. pc[w] = "act" /\ step[w] < Actions /\ CountAction(w)
  BY DEF Act, ActFails
<1>2. AtWork(w) /\ todo[w] # {}
  BY <1>1 DEF Workers, Right
<1>3. Current(w) \in todo[w] /\ Current(w) \in Rule
  BY <1>2, CurrentRule
<1>4. job[w] \in fanned /\ job[w] \in Event /\ acted[Current(w)][job[w]] = step[w]
      /\ verdict[w] \in {"done", "failed"}
  BY <1>1, <1>2, FannedAreEvents DEF AtWork
<1>5. step' = [step EXCEPT ![w] = step[w] + 1] /\ step[w] + 1 \in 0 .. Actions
  BY <1>1 DEF CountAction, Typed, LoopsTyped, AutomationAssumption
<1>6. ActedTyped' /\ \A r \in Rule, e \in Event :
        acted'[r][e] = IF r = Current(w) /\ e = job[w] THEN acted[r][e] + 1 ELSE acted[r][e]
  BY <1>1, <1>3, <1>4, <1>5 DEF CountAction, Typed, ActedTyped
<1>7. EventsTyped' /\ SameEvents
  <2>1. made \in Nat /\ MaxEvents \in Nat /\ fanned \subseteq 1 .. made
    BY DEF Typed, EventsTyped, AutomationAssumption
  <2>2. CASE UNCHANGED eventVars
    BY <2>2 DEF eventVars, Typed, EventsTyped, SameEvents
  <2>3. CASE ~ UNCHANGED eventVars
    <3>1. /\ made < MaxEvents /\ made' = made + 1 /\ fanned' = fanned
          /\ depth' = [depth EXCEPT ![made + 1] = depth[job[w]] + 1]
          /\ origin' = [origin EXCEPT ![made + 1] = Current(w)]
      BY <2>3 DEF Act, ActFails, eventVars
    <3>2. depth[job[w]] + 1 \in Nat
      BY <1>4 DEF Typed, EventsTyped
    <3>3. depth' \in [Event -> Nat] /\ origin' \in [Event -> Rule \cup {NoRule}]
      BY <1>3, <3>1, <3>2 DEF Typed, EventsTyped
    <3>4. made' \in 0 .. MaxEvents /\ fanned' \subseteq 1 .. made'
      BY <2>1, <3>1
    <3>5. \A e \in fanned : e # made + 1 /\ e \in Event
      BY <2>1, FannedAreEvents
    <3>6. SameEvents
      BY <3>1, <3>5 DEF SameEvents, Typed, EventsTyped
    <3> QED
      BY <3>3, <3>4, <3>6 DEF EventsTyped
  <2> QED
    BY <2>2, <2>3
<1>8. RunsTyped' /\ LoopsTyped' /\ verdict'[w] \in {"done", "failed"}
  BY <1>4, <1>5 DEF Act, ActFails, runVars, Typed, RunsTyped, LoopsTyped, Verdicts
<1>9. RulesTyped' /\ FlagsTyped'
  BY DEF Act, ActFails, ruleVars, Typed, RulesTyped, FlagsTyped
<1>10. step'[w] = step[w] + 1
  BY <1>5 DEF Typed, LoopsTyped
<1> QED
  BY <1>1, <1>3, <1>4, <1>6, <1>7, <1>8, <1>9, <1>10 DEF Typed

\* An action is executed in its rule's turn, on an event it may act on.
LEMMA ActKeeps ==
  ASSUME AutomationAssumption, IInv, NEW w \in Worker, Act(w) \/ ActFails(w)
  PROVE  Kept
<1> USE DEF IInv
<1> DEFINE r == Current(w)  e == job[w]
<1>1. /\ pc[w] = "act" /\ step[w] < Actions
      /\ \A s \in Rule, f \in Event :
           acted'[s][f] = IF s = r /\ f = e THEN acted[s][f] + 1 ELSE acted[s][f]
      /\ acted[r][e] = step[w] /\ step'[w] = step[w] + 1
      /\ r \in todo[w] /\ r \in Rule /\ e \in fanned /\ e \in Event
      /\ Typed' /\ SameEvents /\ verdict'[w] \in {"done", "failed"}
  BY Counted
<1>2. /\ run' = run /\ told' = told /\ fanned' = fanned /\ pc' = pc /\ job' = job /\ todo' = todo
      /\ stopped' = stopped
  BY DEF Act, ActFails, runVars, eventVars
<1>3. AtWork(w) /\ ~ stopped[w]
  BY <1>1 DEF Workers, Right, AtWork
<1>4. Guard(r, e) = "ok" /\ \A s \in Rule : run[s][e] # "pending"
  BY <1>1, <1>3 DEF AtWork
<1>5. run[r][e] \in {"running", "abandoned"}
  BY <1>1, <1>3 DEF AtWork
<1>6. (\A x \in Worker : x # w => Right(x)') /\ Apart'
  <2>1. \A f \in Event : f # e => SameRuns(f)
    BY <1>1, <1>2 DEF SameRuns
  <2> QED
    BY <1>1, <1>2, <2>1, OnlyOwnLoop, OthersStayRight
<1>7. Right(w)'
  <2>1. Current(w)' = r /\ job'[w] = e /\ Guard(r, e)' = "ok" /\ e \in fanned'
    BY <1>1, <1>2, <1>4 DEF Current, SameEvents, Guard
  <2>2. acted'[r][e] = step'[w]
    BY <1>1
  <2>3. \A s \in Rule : s # r => acted'[s][e] = acted[s][e]
    BY <1>1
  <2>4. Stops \subseteq Rule /\ Position \in [Rule -> Nat]
    BY DEF AutomationAssumption
  <2>5. ~ stopped'[w]
    BY <1>2, <1>3, Zenon
  <2>6. \A s \in Rule : Position[s] > Position[r] => acted'[s][e] = 0
    BY <1>1, <1>3, <2>3, <2>4 DEF AtWork
  <2>7. \A s \in Stops : Position[s] < Position[r] => acted'[s][e] = 0
    BY <1>1, <1>3, <2>3, <2>4 DEF AtWork
  <2>8. AtWork(w)'
    BY <1>1, <1>2, <1>3, <2>1, <2>2, <2>5, <2>6, <2>7 DEF AtWork
  <2> QED
    BY <1>1, <1>2, <2>8 DEF Right
<1>8. Rows'
  <2>1. Unfanned'
    BY <1>2 DEF Rows, Unfanned
  <2>2. Fresh'
    <3>1. \A s \in Rule, f \in Event : f # e => acted'[s][f] = acted[s][f]
      BY <1>1
    <3> QED
      BY <1>2, <1>4, <3>1 DEF Rows, Fresh
  <2>3. \A s \in Rule, f \in Event : run[s][f] # "none" => f \in fanned
    BY DEF Rows, Unfanned
  <2>4. Cut'
    BY <1>1, <1>2, <2>3 DEF Rows, Cut, SameEvents
  <2>5. HistoryIsTruthful'
    BY <1>1, <1>2, <1>5 DEF Rows, HistoryIsTruthful
  <2>6. FailuresAreTold'
    <3>1. \A s \in Rule, f \in Event : run[s][f] = "failed" => acted'[s][f] = acted[s][f]
      BY <1>1, <1>5
    <3> QED
      BY <1>2, <3>1 DEF Rows, FailuresAreTold
  <2>7. LoopsAreCutAndShown'
    <3>1. ASSUME NEW s \in Rule, NEW f \in Event, acted'[s][f] > 0
          PROVE  origin'[f] # s /\ depth'[f] < MaxDepth
      <4>1. CASE s = r /\ f = e
        <5>1. origin[e] # r /\ ~ (depth[e] >= MaxDepth)
          BY <1>4 DEF Guard
        <5>2. depth[e] \in Nat /\ MaxDepth \in Nat
          BY <1>1 DEF Typed, EventsTyped, AutomationAssumption
        <5> QED
          BY <1>1, <4>1, <5>1, <5>2 DEF SameEvents
      <4>2. CASE ~ (s = r /\ f = e)
        <5>1. acted[s][f] > 0
          BY <1>1, <3>1, <4>2
        <5>2. f \in fanned
          BY <2>3, <5>1 DEF Rows, HistoryIsTruthful
        <5> QED
          BY <1>1, <5>1, <5>2 DEF Rows, LoopsAreCutAndShown, SameEvents
      <4> QED
        BY <4>1, <4>2
    <3>2. ASSUME NEW s \in Rule, NEW f \in Event, run'[s][f] = "failed", depth'[f] >= MaxDepth,
                 origin'[f] \in Rule
          PROVE  run'[origin'[f]][f] = "failed"
      <4>1. f \in fanned
        BY <1>2, <2>3, <3>2
      <4> QED
        BY <1>1, <1>2, <3>2, <4>1 DEF Rows, LoopsAreCutAndShown, SameEvents
    <3> QED
      BY <3>1, <3>2 DEF LoopsAreCutAndShown
  <2> QED
    BY <2>1, <2>2, <2>4, <2>5, <2>6, <2>7 DEF Rows
<1>9. OutcomesStay
  BY <1>2 DEF OutcomesStay
<1>10. InOrder
  <2>1. ASSUME NEW s \in Rule, NEW f \in Event, acted'[s][f] # acted[s][f] PROVE s = r /\ f = e
    BY <1>1, <2>1
  <2>2. \A s \in Rule : Position[s] > Position[r] => acted[s][e] = 0
    BY <1>3 DEF AtWork
  <2>3. \A s \in Stops : Position[s] < Position[r] => acted[s][e] = 0
    BY <1>3 DEF AtWork
  <2> QED
    BY <2>1, <2>2, <2>3 DEF InOrder
<1> QED
  BY <1>1, <1>6, <1>7, <1>8, <1>9, <1>10 DEF Kept, Workers

\* The loop over the group goes on with the next rule, which has not acted, and
\* behind rules that, when nothing stopped the group, do not stop it.
LEMMA NextRight ==
  ASSUME AutomationAssumption, IInv, NEW w \in Worker, pc[w] # "idle", NextRule(w),
         \A x \in Worker : x # w => SameLoop(x),
         job' = job, acted' = acted, fanned' = fanned, depth' = depth, origin' = origin,
         \A s \in Rule, f \in Event :
           \/ run'[s][f] = run[s][f]
           \/ s = Current(w) /\ f = job[w] /\ run'[s][f] # "pending",
         ~ stopped'[w] => ~ stopped[w] /\ (Current(w) \in Stops => acted[Current(w)][job[w]] = 0)
  PROVE  Workers' /\ Apart'
<1> USE DEF IInv
<1> DEFINE r == Current(w)  e == job[w]
<1>1. AtWork(w) /\ todo[w] # {} /\ e \in fanned /\ e \in Event
  BY FannedAreEvents DEF Workers, Right, AtWork
<1>2. r \in todo[w] /\ r \in Rule /\ \A s \in todo[w] : s # r => Position[r] < Position[s]
  BY <1>1, CurrentRule
<1>3. (\A x \in Worker : x # w => Right(x)') /\ Apart'
  <2>1. SameEvents /\ \A f \in Event : f # e => SameRuns(f)
    BY DEF SameEvents, SameRuns
  <2> QED
    BY <2>1, OthersStayRight
<1>4. /\ todo'[w] = todo[w] \ {r} /\ step'[w] = 0 /\ todo[w] \subseteq Rule
      /\ pc'[w] = IF todo[w] = {r} THEN "idle" ELSE "judge"
  BY DEF NextRule, Goto, Typed, LoopsTyped
<1>5. ASSUME todo'[w] # {} PROVE AtWork(w)'
  <2> DEFINE n == Current(w)'
  <2>1. n = FirstOf(todo'[w]) /\ todo'[w] \in SUBSET Rule
    BY <1>4 DEF Current
  <2>2. n \in todo'[w]
    BY <1>5, <2>1, FirstRule
  <2>3. n \in Rule /\ Position[n] \in Nat /\ Position[r] \in Nat /\ Position[r] < Position[n]
    BY <1>2, <1>4, <2>2 DEF AutomationAssumption
  <2> HIDE DEF n
  <2>4. \A s \in Rule : Position[s] \in Nat /\ (Position[s] > Position[r] => acted[s][e] = 0)
    BY <1>1 DEF AtWork, AutomationAssumption
  <2>5. acted[n][e] = 0 /\ \A s \in Rule : Position[s] > Position[n] => acted[s][e] = 0
    BY <2>3, <2>4
  <2>6. ASSUME ~ stopped'[w], NEW s \in Stops, Position[s] < Position[n] PROVE acted[s][e] = 0
    <3>1. s \in Rule /\ (Position[s] = Position[r] => s = r)
      BY <1>2 DEF AutomationAssumption
    <3>2. Position[s] < Position[r] => acted[s][e] = 0
      BY <1>1, <2>6 DEF AtWork
    <3>3. s = r => acted[s][e] = 0
      BY <2>6
    <3> QED
      BY <2>3, <2>4, <3>1, <3>2, <3>3
  <2>7. \A s \in Rule : run'[s][e] # "pending"
    BY <1>1 DEF AtWork
  <2>8. \A s \in todo'[w] : run'[s][e] \in {"running", "abandoned"}
    BY <1>1, <1>4 DEF AtWork
  <2>9. pc'[w] = "judge"
    BY <1>4, <1>5
  <2> QED
    BY <1>1, <1>4, <2>5, <2>6, <2>7, <2>8, <2>9 DEF AtWork, n
<1>6. Right(w)'
  BY <1>2, <1>4, <1>5 DEF Right
<1> QED
  BY <1>3, <1>6 DEF Workers

\* Recording the end of a run touches that run only, and only if it still runs.
LEMMA FinishedRow ==
  ASSUME Typed, NEW r \in Rule, NEW e \in Event, NEW v \in Verdicts, run' = Finished(r, e, v)
  PROVE  /\ run' \in [Rule -> [Event -> States]]
         /\ \A s \in Rule, f \in Event :
              run'[s][f] = IF s = r /\ f = e /\ run[r][e] = "running" THEN v ELSE run[s][f]
<1>1. v \in States
  BY DEF Verdicts, States, Over
<1> QED
  BY <1>1 DEF Finished, Typed, RunsTyped

\* A run ends as what its rule came to, and a failure is told with it.
LEMMA FinishKeeps ==
  ASSUME AutomationAssumption, IInv, NEW w \in Worker, Finish(w) \/ SkipStopped(w)
  PROVE  Kept
<1> USE DEF IInv
<1> DEFINE r == Current(w)  e == job[w]
           v == IF Finish(w) THEN verdict[w] ELSE "skipped"
<1>1. /\ pc[w] \in {"judge", "finish"} /\ NextRule(w)
      /\ job' = job /\ acted' = acted /\ fanned' = fanned /\ depth' = depth /\ origin' = origin
      /\ made' = made /\ leaseLeft' = leaseLeft /\ verdict' = verdict /\ dangling' = dangling
      /\ enabled' = enabled
  BY DEF Finish, SkipStopped, eventVars, ruleVars
<1>2. AtWork(w) /\ todo[w] # {} /\ e \in fanned /\ e \in Event
  BY <1>1, FannedAreEvents DEF Workers, Right, AtWork
<1>3. r \in todo[w] /\ r \in Rule /\ run[r][e] \in {"running", "abandoned"} /\ acted[r][e] = step[w]
  BY <1>2, CurrentRule DEF AtWork
<1>4. /\ v \in Verdicts
      /\ v = "done" => acted[r][e] = Actions
      /\ v \in {"skipped", "unmatched"} => acted[r][e] = 0
      /\ acted[r][e] > 0 /\ v = "failed" => Finish(w) /\ Matched(w) /\ verdict[w] = "failed"
  <2>1. CASE Finish(w)
    BY <2>1, <1>2, <1>3 DEF Finish, AtWork, Matched, Typed, LoopsTyped
  <2>2. CASE ~ Finish(w)
    <3>1. step[w] = 0
      BY <2>2 DEF SkipStopped, Workers, Right
    <3> QED
      BY <2>2, <1>3, <3>1 DEF Verdicts
  <2> QED
    BY <2>1, <2>2
<1>5. run' = Finished(r, e, v)
  BY DEF Finish, SkipStopped
<1> HIDE DEF v
<1>6. /\ run' \in [Rule -> [Event -> States]]
      /\ \A s \in Rule, f \in Event :
           run'[s][f] = IF s = r /\ f = e /\ run[r][e] = "running" THEN v ELSE run[s][f]
  BY <1>2, <1>3, <1>4, <1>5, FinishedRow
<1>7. told' = told \/ (told' = told \cup {<<r, e>>} /\ run[r][e] = "running" /\ v = "failed")
  BY DEF Finish, SkipStopped, v
<1>8. run[r][e] = "running" /\ v = "failed" /\ acted[r][e] > 0 => <<r, e>> \in told'
  BY <1>4 DEF Finish
<1>9. Typed'
  <2>1. EventsTyped' /\ ActedTyped' /\ RulesTyped'
    BY <1>1 DEF Typed, EventsTyped, ActedTyped, RulesTyped
  <2>2. RunsTyped'
    BY <1>1, <1>2, <1>3, <1>6, <1>7 DEF Typed, RunsTyped
  <2>3. LoopsTyped'
    BY <1>1 DEF NextRule, Goto, Typed, LoopsTyped, AutomationAssumption
  <2>4. stopped' \in [Worker -> BOOLEAN]
    BY DEF Finish, SkipStopped, Typed, FlagsTyped
  <2> QED
    BY <1>1, <2>1, <2>2, <2>3, <2>4 DEF Typed, FlagsTyped
<1>10. ~ stopped'[w] => ~ stopped[w] /\ (r \in Stops => acted[r][e] = 0)
  <2>1. CASE Finish(w)
    <3>1. ~ stopped[w]
      BY <2>1, <1>2 DEF Finish, AtWork
    <3>2. stopped'[w] = (Matched(w) /\ r \in Stops)
      BY <2>1, Zenon DEF Finish, Typed, FlagsTyped
    <3>3. step[w] = 0 \/ Matched(w)
      BY <2>1, <1>2 DEF Finish, AtWork, Matched
    <3> QED
      BY <1>3, <3>1, <3>2, <3>3
  <2>2. CASE SkipStopped(w)
    BY <2>2, Zenon DEF SkipStopped
  <2> QED
    BY <2>1, <2>2
<1>11. Workers' /\ Apart'
  <2>1. \A s \in Rule, f \in Event :
          \/ run'[s][f] = run[s][f]
          \/ s = r /\ f = e /\ run'[s][f] # "pending"
    BY <1>4, <1>6 DEF Verdicts
  <2> QED
    BY <1>1, <1>10, <2>1, OnlyOwnLoop, NextRight
<1>12. Rows'
  <2>1. Unfanned'
    BY <1>1, <1>2, <1>6 DEF Rows, Unfanned
  <2>2. \A s \in Rule, f \in Event : run'[s][f] = "pending" => run[s][f] = "pending"
    BY <1>4, <1>6 DEF Verdicts
  <2>3. Fresh'
    BY <1>1, <2>2 DEF Rows, Fresh
  <2>4. run[r][e] = "running" => ~ (depth[e] >= MaxDepth)
    BY <1>2, <1>3 DEF Rows, Cut
  <2>5. Cut'
    BY <1>1, <1>6, <2>4 DEF Rows, Cut
  <2>6. HistoryIsTruthful'
    <3>1. v # "none" /\ v # "pending"
      BY <1>4 DEF Verdicts
    <3>2. /\ v = "done" => acted[r][e] = Actions
          /\ v \in {"none", "pending", "skipped", "unmatched"} => acted[r][e] = 0
      BY <1>4, <3>1
    <3>3. \A s \in Rule, f \in Event : run'[s][f] = run[s][f] \/ (s = r /\ f = e /\ run'[s][f] = v)
      BY <1>6
    <3>4. acted' = acted
      BY <1>1
    <3> QED
      BY <3>2, <3>3, <3>4 DEF Rows, HistoryIsTruthful
  <2>7. FailuresAreTold'
    <3> SUFFICES ASSUME NEW s \in Rule, NEW f \in Event
                 PROVE  /\ run'[s][f] = "failed" /\ acted'[s][f] > 0 => <<s, f>> \in told'
                        /\ <<s, f>> \in told' => run'[s][f] = "failed"
      BY DEF FailuresAreTold
    <3>1. CASE s = r /\ f = e /\ run[r][e] = "running"
      <4>1. <<r, e>> \notin told /\ run'[r][e] = v
        BY <1>2, <1>3, <1>6, <3>1 DEF Rows, FailuresAreTold
      <4> QED
        BY <1>1, <1>7, <1>8, <3>1, <4>1
    <3>2. CASE ~ (s = r /\ f = e /\ run[r][e] = "running")
      <4>1. run'[s][f] = run[s][f] /\ (<<s, f>> \in told' <=> <<s, f>> \in told)
        BY <1>6, <1>7, <3>2
      <4> QED
        BY <1>1, <4>1 DEF Rows, FailuresAreTold
    <3> QED
      BY <3>1, <3>2
  <2>8. LoopsAreCutAndShown'
    <3> SUFFICES ASSUME NEW s \in Rule, NEW f \in Event
                 PROVE  /\ acted'[s][f] > 0 => origin'[f] # s /\ depth'[f] < MaxDepth
                        /\ run'[s][f] = "failed" /\ depth'[f] >= MaxDepth /\ origin'[f] \in Rule
                             => run'[origin'[f]][f] = "failed"
      BY DEF LoopsAreCutAndShown
    <3>1. acted'[s][f] > 0 => origin'[f] # s /\ depth'[f] < MaxDepth
      BY <1>1 DEF Rows, LoopsAreCutAndShown
    <3>2. ASSUME run'[s][f] = "failed", depth[f] >= MaxDepth, origin[f] \in Rule
          PROVE  run'[origin[f]][f] = "failed"
      <4>1. run[s][f] = "failed"
        BY <1>6, <2>4, <3>2
      <4>2. run[origin[f]][f] = "failed"
        BY <3>2, <4>1 DEF Rows, LoopsAreCutAndShown
      <4> QED
        BY <1>6, <3>2, <4>2
    <3> QED
      BY <1>1, <3>1, <3>2
  <2> QED
    BY <2>1, <2>3, <2>5, <2>6, <2>7, <2>8 DEF Rows
<1>13. OutcomesStay /\ InOrder
  BY <1>1, <1>6 DEF OutcomesStay, InOrder, Over
<1> QED
  BY <1>9, <1>11, <1>12, <1>13 DEF Kept

-----------------------------------------------------------------------------
(* What happens around it *)

\* Stale runs are abandoned under the hands of whoever still executes them.
LEMMA AbandonKeeps ==
  ASSUME AutomationAssumption, IInv, NEW w \in Worker, Abandon(w)
  PROVE  Kept
<1> USE DEF IInv
<1>1. \A s \in Rule, f \in Event :
        \/ run'[s][f] = run[s][f]
        \/ run[s][f] = "running" /\ run'[s][f] = "abandoned"
  BY DEF Abandon
<1>2. /\ made' = made /\ depth' = depth /\ origin' = origin /\ fanned' = fanned /\ told' = told
      /\ leaseLeft' = leaseLeft /\ acted' = acted /\ enabled' = enabled
      /\ UNCHANGED <<pc, job, todo, stopped, verdict, step, dangling>>
  BY DEF Abandon, eventVars, ruleVars, workVars
<1>3. Typed'
  <2>1. run' \in [Rule -> [Event -> States]]
    BY DEF Abandon, Typed, RunsTyped, States, Over
  <2>2. RulesTyped' /\ EventsTyped' /\ RunsTyped' /\ ActedTyped'
    BY <1>2, <2>1 DEF Typed, RulesTyped, EventsTyped, RunsTyped, ActedTyped
  <2>3. LoopsTyped' /\ FlagsTyped'
    BY <1>2 DEF Typed, LoopsTyped, FlagsTyped
  <2> QED
    BY <2>2, <2>3 DEF Typed
<1>4. Workers' /\ Apart'
  <2>1. SameEvents /\ \A x \in Worker : SameLoop(x)
    BY <1>2, Zenon DEF SameEvents, SameLoop
  <2>2. \A x \in Worker : pc[x] # "idle" => SameRuns(job[x])
    <3>1. \A x \in Worker : pc[x] # "idle" => job[x] \in Event
      BY FannedAreEvents DEF Workers, Right, AtWork
    <3> QED
      BY <1>1, <1>2, <3>1 DEF SameRuns
  <2>3. Workers'
    BY <2>1, <2>2, StaysRight DEF Workers
  <2> QED
    BY <1>2, <2>3 DEF Apart
<1>5. Rows'
  <2>1. Unfanned' /\ Fresh' /\ Cut'
    BY <1>1, <1>2 DEF Rows, Unfanned, Fresh, Cut
  <2>2. HistoryIsTruthful' /\ FailuresAreTold'
    BY <1>1, <1>2 DEF Rows, HistoryIsTruthful, FailuresAreTold
  <2>3. LoopsAreCutAndShown'
    BY <1>1, <1>2 DEF Rows, LoopsAreCutAndShown
  <2> QED
    BY <2>1, <2>2, <2>3 DEF Rows
<1>6. OutcomesStay /\ InOrder
  BY <1>1, <1>2 DEF OutcomesStay, InOrder, Over
<1> QED
  BY <1>3, <1>4, <1>5, <1>6 DEF Kept

\* A drain that breaks leaves its runs as they are.
LEMMA BreakKeeps ==
  ASSUME AutomationAssumption, IInv, NEW w \in Worker, Break(w)
  PROVE  Kept
<1> USE DEF IInv
<1>1. /\ made' = made /\ depth' = depth /\ origin' = origin /\ fanned' = fanned /\ told' = told
      /\ run' = run /\ leaseLeft' = leaseLeft /\ acted' = acted /\ enabled' = enabled
      /\ job' = job /\ stopped' = stopped /\ verdict' = verdict /\ dangling' = dangling
      /\ pc[w] # "idle"
  BY DEF Break, eventVars, ruleVars, runVars
<1>2. pc'[w] = "idle" /\ todo'[w] = {} /\ step'[w] = 0
  BY DEF Break, Goto, Typed, LoopsTyped
<1>3. Typed'
  <2>1. RulesTyped' /\ EventsTyped' /\ RunsTyped' /\ ActedTyped'
    BY <1>1 DEF Typed, RulesTyped, EventsTyped, RunsTyped, ActedTyped
  <2>2. LoopsTyped'
    BY <1>1 DEF Break, Goto, Typed, LoopsTyped, AutomationAssumption
  <2>3. FlagsTyped'
    BY <1>1 DEF Typed, FlagsTyped
  <2> QED
    BY <2>1, <2>2, <2>3 DEF Typed
<1>4. SameEvents /\ \A f \in Event : SameRuns(f)
  BY <1>1 DEF SameEvents, SameRuns
<1>5. (\A x \in Worker : x # w => Right(x)') /\ Apart'
  BY <1>1, <1>4, OnlyOwnLoop, OthersStayRight
<1>6. Right(w)'
  BY <1>2 DEF Right
<1>7. Rows' /\ OutcomesStay /\ InOrder
  BY <1>1, <1>3, <1>4, RowsStayRight DEF Typed
<1> QED
  BY <1>3, <1>5, <1>6, <1>7 DEF Kept, Workers

\* People, time and stuttering change nothing a run rests on.
LEMMA AroundKeeps ==
  ASSUME AutomationAssumption, IInv,
         (\E r \in Rule : SetEnabled(r)) \/ Tick \/ UNCHANGED vars
  PROVE  Kept
<1> USE DEF IInv
<1>1. /\ made' = made /\ depth' = depth /\ origin' = origin /\ fanned' = fanned /\ told' = told
      /\ run' = run /\ acted' = acted
      /\ UNCHANGED <<pc, job, todo, stopped, verdict, step, dangling>>
  BY DEF SetEnabled, Tick, vars, eventVars, runVars, workVars
<1>2. Typed'
  <2>1. leaseLeft' \in [Event -> 0 .. Lease]
    <3>1. CASE Tick
      <4>1. \A f \in Event :
              (IF leaseLeft[f] = 0 THEN 0 ELSE leaseLeft[f] - 1) \in 0 .. Lease
        BY DEF Typed, RunsTyped, AutomationAssumption
      <4> QED
        BY <3>1, <4>1 DEF Tick
    <3>2. CASE ~ Tick
      BY <3>2 DEF SetEnabled, vars, runVars, Typed, RunsTyped
    <3> QED
      BY <3>1, <3>2
  <2>2. RulesTyped'
    <3>1. CASE Tick \/ UNCHANGED vars
      BY <3>1 DEF Tick, vars, ruleVars, Typed, RulesTyped
    <3>2. ASSUME NEW r \in Rule, SetEnabled(r) PROVE RulesTyped'
      BY <3>2 DEF SetEnabled, Typed, RulesTyped
    <3> QED
      BY <3>1, <3>2
  <2>3. EventsTyped' /\ RunsTyped' /\ ActedTyped'
    BY <1>1, <2>1 DEF Typed, EventsTyped, RunsTyped, ActedTyped
  <2>4. LoopsTyped' /\ FlagsTyped'
    BY <1>1 DEF Typed, LoopsTyped, FlagsTyped
  <2> QED
    BY <2>2, <2>3, <2>4 DEF Typed
<1>3. SameEvents /\ (\A f \in Event : SameRuns(f)) /\ \A x \in Worker : SameLoop(x)
  BY <1>1, Zenon DEF SameEvents, SameRuns, SameLoop
<1>4. Workers'
  <2>1. \A x \in Worker : pc[x] # "idle" => job[x] \in Event
    BY FannedAreEvents DEF Workers, Right, AtWork
  <2> QED
    BY <1>3, <2>1, StaysRight DEF Workers
<1>5. Apart'
  BY <1>1 DEF Apart
<1>6. Rows' /\ OutcomesStay /\ InOrder
  BY <1>1, <1>2, <1>3, RowsStayRight DEF Typed
<1> QED
  BY <1>2, <1>4, <1>5, <1>6 DEF Kept

\* Every step keeps the invariant, ended runs and the order.
LEMMA Stepwise ==
  ASSUME AutomationAssumption, IInv, [Next]_vars
  PROVE  Kept
<1>1. ASSUME NEW e \in Event, Enqueue(e) PROVE Kept
  BY <1>1, EnqueueKeeps
<1>2. ASSUME NEW w \in Worker, NEW e \in Event, Claim(w, e) PROVE Kept
  BY <1>2, ClaimKeeps
<1>3. ASSUME NEW w \in Worker,
             \/ Judge(w) \/ JudgeRole(w) \/ Match(w) \/ Act(w) \/ ActFails(w)
             \/ RecordRuleOutcome(w) \/ Finish(w) \/ SkipStopped(w)
      PROVE  Kept
  BY <1>3, JudgeKeeps, MatchKeeps, ActKeeps, RecordKeeps, FinishKeeps
<1>4. ASSUME NEW w \in Worker, Abandon(w) \/ Break(w) PROVE Kept
  BY <1>4, AbandonKeeps, BreakKeeps
<1>5. CASE (\E r \in Rule : SetEnabled(r)) \/ Tick \/ UNCHANGED vars
  BY <1>5, AroundKeeps
<1> QED
  BY <1>1, <1>2, <1>3, <1>4, <1>5 DEF Next, Step

\* The invariant holds in every state that is reached.
LEMMA Invariance == ASSUME AutomationAssumption PROVE Spec => []IInv
<1>1. Init => IInv
  BY Initially
<1>2. IInv /\ [Next]_vars => IInv'
  BY Stepwise DEF Kept
<1> QED
  BY <1>1, <1>2, PTL DEF Spec

-----------------------------------------------------------------------------
(* What is to be known of automations *)

\* Types, and how rows and workers agree; no two workers share an event.
THEOREM TypeCorrect == ASSUME AutomationAssumption PROVE Spec => []TypeOK
BY Invariance, InvTyped, PTL

\* What the history of a rule says a run did, it did.
THEOREM Truthful == ASSUME AutomationAssumption PROVE Spec => []HistoryIsTruthful
<1>1. IInv => HistoryIsTruthful
  BY DEF IInv, Rows
<1> QED
  BY <1>1, Invariance, PTL

\* Runs that failed on their actions have told so, and no others have.
THEOREM Told == ASSUME AutomationAssumption PROVE Spec => []FailuresAreTold
<1>1. IInv => FailuresAreTold
  BY DEF IInv, Rows
<1> QED
  BY <1>1, Invariance, PTL

\* No rule acts on its own event or at the limit, and a cut chain is shown.
THEOREM LoopsCut == ASSUME AutomationAssumption PROVE Spec => []LoopsAreCutAndShown
<1>1. IInv => LoopsAreCutAndShown
  BY DEF IInv, Rows
<1> QED
  BY <1>1, Invariance, PTL

\* Rules act in their order, for any number of rules, events and workers.
THEOREM Ordered == ASSUME AutomationAssumption PROVE Spec => RulesActInOrder
<1>1. IInv /\ [Next]_vars => [InOrder]_vars
  BY Stepwise DEF Kept
<1> QED
  BY <1>1, Invariance, PTL DEF Spec, RulesActInOrder, InOrder

\* A run that is over stays as it is.
THEOREM OutcomesFinal == ASSUME AutomationAssumption PROVE Spec => OutcomeIsFinal
<1>1. IInv /\ [Next]_vars => [OutcomesStay]_vars
  BY Stepwise DEF Kept
<1> QED
  BY <1>1, Invariance, PTL DEF Spec, OutcomeIsFinal, OutcomesStay

-----------------------------------------------------------------------------
(* Abandoned runs, when groups end within their lease *)

\* No group outlives the lease its runs were claimed with.
GroupsPrompt == Tick => \A w \in Worker : pc[w] # "idle" => leaseLeft[job[w]] > 1

InHand(r, e) == \E w \in Worker : pc[w] # "idle" /\ job[w] = e /\ r \in todo[w]

\* An abandoned run is in nobody's hands, and there are none unless a drain died
\* or threw: what the history says of them is then true.
OnlyTheBroken ==
  /\ \A w \in Worker : \A r \in todo[w] : run[r][job[w]] = "running"
  /\ breaks = 0 => \A r \in Rule, e \in Event : run[r][e] # "abandoned"

Held ==
  /\ breaks \in Nat
  /\ \A w \in Worker : pc[w] # "idle" => leaseLeft[job[w]] > 0
  /\ OnlyTheBroken
  /\ breaks = 0 => \A r \in Rule, e \in Event : run[r][e] = "running" => InHand(r, e)

\* A step that leaves the groups in hand alone: their runs stay running and
\* leased, and no other run is running or abandoned that was not.
LEMMA GroupsAlone ==
  ASSUME Held, breaks' = breaks, UNCHANGED <<job, todo>>,
         \A w \in Worker : pc'[w] = "idle" <=> pc[w] = "idle",
         \A w \in Worker : pc[w] # "idle" => leaseLeft'[job[w]] > 0,
         \A w \in Worker : \A r \in todo[w] : run'[r][job[w]] = run[r][job[w]],
         \A r \in Rule, e \in Event :
           run'[r][e] \in {"running", "abandoned"} => run'[r][e] = run[r][e]
  PROVE  Held'
<1>1. \A r \in Rule, e \in Event : InHand(r, e) => InHand(r, e)'
  BY DEF InHand
<1> QED BY <1>1 DEF Held, OnlyTheBroken

\* Handling an event touches no run in hand.
LEMMA EnqueueHeld ==
  ASSUME AutomationAssumption, IInv, Held, NEW e \in Event, Enqueue(e)
  PROVE  Held'
<1>1. /\ UNCHANGED <<leaseLeft, pc, job, todo, breaks>>
      /\ \A r \in Rule, f \in Event :
           run'[r][f] = IF f = e
                        THEN IF r \in Triggered(e, "ok") THEN "pending"
                             ELSE IF r \in Surfaced(e) THEN "failed" ELSE run[r][e]
                        ELSE run[r][f]
  BY DEF Enqueue, workVars, IInv, Typed, RunsTyped
<1>2. ASSUME NEW w \in Worker, NEW r \in todo[w]
      PROVE  job[w] \in Event \ {e} /\ r \in Rule
  <2>1. job[w] \in fanned /\ e \notin fanned /\ r \in Rule
    BY <1>2 DEF Enqueue, IInv, Typed, LoopsTyped, Workers, Right, AtWork
  <2> QED BY <2>1, FannedAreEvents DEF IInv
<1> QED BY <1>1, <1>2, GroupsAlone DEF Held

\* A claim takes pending runs, so it is of an event nobody has in hand.
LEMMA ClaimHeld ==
  ASSUME AutomationAssumption, IInv, Held, NEW w \in Worker, NEW e \in Event, Claim(w, e)
  PROVE  Held'
<1> USE DEF IInv, Typed, RunsTyped, LoopsTyped
<1>1. /\ pc[w] = "idle" /\ pc'[w] = "judge" /\ job'[w] = e /\ todo'[w] = Claimable(e)
      /\ leaseLeft'[e] = Lease /\ breaks' = breaks
      /\ \A x \in Worker \ {w} : pc'[x] = pc[x] /\ job'[x] = job[x] /\ todo'[x] = todo[x]
      /\ \A f \in Event \ {e} : leaseLeft'[f] = leaseLeft[f]
      /\ \A r \in Rule, f \in Event :
           run'[r][f] = IF f = e /\ r \in Claimable(e) THEN "running" ELSE run[r][f]
  BY DEF Claim, Claimable
<1>2. PICK p \in Rule : run[p][e] = "pending"
  BY DEF Claim, Claimable
<1>3. ASSUME NEW x \in Worker, pc[x] # "idle" PROVE x # w /\ job[x] \in Event \ {e}
  <2>1. AtWork(x)
    BY <1>3 DEF Workers, Right
  <2>2. job[x] \in Event /\ job[x] # e
    BY <1>2, <2>1, FannedAreEvents DEF AtWork
  <2> QED BY <1>1, <1>3, <2>2
<1>4. \A x \in Worker : todo[x] # {} => pc[x] # "idle"
  BY DEF Workers, Right
<1>5. \A x \in Worker : pc'[x] # "idle" => leaseLeft'[job'[x]] > 0
  BY <1>1, <1>3 DEF Held, AutomationAssumption
<1>6. ASSUME NEW x \in Worker, NEW r \in todo'[x] PROVE run'[r][job'[x]] = "running"
  <2>1. CASE x = w
    BY <1>1, <1>6, <2>1 DEF Claimable
  <2>2. CASE x # w
    <3>1. r \in todo[x] /\ job[x] \in Event \ {e} /\ r \in Rule
      BY <1>1, <1>3, <1>4, <1>6, <2>2
    <3> QED BY <1>1, <2>2, <3>1 DEF Held, OnlyTheBroken
  <2> QED BY <2>1, <2>2
<1>7. \A r \in Rule, f \in Event : run'[r][f] = "abandoned" => run[r][f] = "abandoned"
  BY <1>1
<1>8. ASSUME breaks = 0, NEW r \in Rule, NEW f \in Event, run'[r][f] = "running"
      PROVE  InHand(r, f)'
  <2>1. CASE f = e /\ r \in Claimable(e)
    BY <1>1, <2>1 DEF InHand
  <2>2. CASE ~ (f = e /\ r \in Claimable(e))
    <3>1. PICK x \in Worker : pc[x] # "idle" /\ job[x] = f /\ r \in todo[x]
      BY <1>1, <1>8, <2>2 DEF Held, InHand
    <3> QED BY <1>1, <1>3, <3>1 DEF InHand
  <2> QED BY <2>1, <2>2
<1> QED BY <1>1, <1>5, <1>6, <1>7, <1>8 DEF Held, OnlyTheBroken

\* Judging and acting leave the rows alone.
LEMMA WorkHeld ==
  ASSUME AutomationAssumption, IInv, Held, NEW w \in Worker,
         Judge(w) \/ JudgeRole(w) \/ Match(w) \/ Act(w) \/ ActFails(w) \/ RecordRuleOutcome(w)
  PROVE  Held'
<1>1. UNCHANGED <<run, leaseLeft, job, todo, breaks>>
  BY DEF Judge, JudgeRole, Match, Act, ActFails, RecordRuleOutcome, runVars
<1>2. /\ pc[w] # "idle"
      /\ pc' = pc \/ \E label \in {"finish", "act"} : Goto(w, label)
  BY DEF Judge, JudgeRole, Match, Act, ActFails, RecordRuleOutcome
<1>3. \A x \in Worker : pc'[x] = "idle" <=> pc[x] = "idle"
  BY <1>2 DEF Goto, IInv, Typed, LoopsTyped
<1> QED BY <1>1, <1>3, GroupsAlone DEF Held

\* A rule that is finished leaves the group as what it came to, not abandoned.
LEMMA FinishHeld ==
  ASSUME AutomationAssumption, IInv, Held, NEW w \in Worker, Finish(w) \/ SkipStopped(w)
  PROVE  Held'
<1> USE DEF IInv
<1> DEFINE r == Current(w)  e == job[w]
           v == IF Finish(w) THEN verdict[w] ELSE "skipped"
<1>1. /\ pc[w] # "idle" /\ NextRule(w) /\ UNCHANGED <<leaseLeft, job, breaks>>
  BY DEF Finish, SkipStopped
<1>2. AtWork(w) /\ todo[w] # {} /\ e \in Event
  BY <1>1, FannedAreEvents DEF Workers, Right, AtWork
<1>3. r \in todo[w] /\ r \in Rule /\ run[r][e] = "running"
  BY <1>2, CurrentRule DEF Held, OnlyTheBroken
<1>4. v \in Verdicts /\ run' = Finished(r, e, v)
  BY DEF Finish, SkipStopped, Typed, LoopsTyped, Verdicts
<1> HIDE DEF v
<1>5. \A s \in Rule, f \in Event :
        run'[s][f] = IF s = r /\ f = e THEN v ELSE run[s][f]
  BY <1>2, <1>3, <1>4, FinishedRow
<1>6. v \notin {"running", "abandoned"}
  BY <1>4 DEF Verdicts
<1>7. /\ todo'[w] = todo[w] \ {r} /\ (pc'[w] = "idle" <=> todo'[w] = {})
      /\ \A x \in Worker \ {w} : pc'[x] = pc[x] /\ todo'[x] = todo[x]
  BY <1>1, <1>3 DEF NextRule, Goto, Typed, LoopsTyped
<1>8. \A x \in Worker \ {w} : pc[x] # "idle" => job[x] # e
  BY <1>1 DEF Apart
<1>9. \A x \in Worker : todo[x] # {} => pc[x] # "idle" /\ job[x] \in Event
  BY FannedAreEvents DEF Workers, Right, AtWork
<1>10. ASSUME NEW x \in Worker, NEW s \in todo'[x] PROVE run'[s][job[x]] = "running"
  <2>1. s \in todo[x] /\ s \in Rule /\ job[x] \in Event /\ (x = w => s # r)
    BY <1>7, <1>9, <1>10 DEF Typed, LoopsTyped
  <2>2. run'[s][job[x]] = run[s][job[x]]
    BY <1>5, <1>8, <1>9, <2>1
  <2> QED BY <2>1, <2>2 DEF Held, OnlyTheBroken
<1>11. \A x \in Worker : pc'[x] # "idle" => leaseLeft'[job'[x]] > 0
  BY <1>1, <1>7 DEF Held
<1>12. ASSUME breaks = 0, NEW s \in Rule, NEW f \in Event, run'[s][f] = "running"
       PROVE  InHand(s, f)'
  <2>1. run[s][f] = "running" /\ ~ (s = r /\ f = e)
    BY <1>5, <1>6, <1>12
  <2>2. PICK x \in Worker : pc[x] # "idle" /\ job[x] = f /\ s \in todo[x]
    BY <1>12, <2>1 DEF Held, InHand
  <2>3. s \in todo'[x] /\ pc'[x] # "idle" /\ job'[x] = f
    BY <1>1, <1>7, <2>1, <2>2
  <2> QED BY <2>3 DEF InHand
<1>13. \A s \in Rule, f \in Event : run'[s][f] = "abandoned" => run[s][f] = "abandoned"
  BY <1>5, <1>6
<1> QED BY <1>1, <1>10, <1>11, <1>12, <1>13 DEF Held, OnlyTheBroken

\* What is abandoned has a lease that ran out, so nobody has it in hand.
LEMMA AbandonHeld ==
  ASSUME AutomationAssumption, IInv, Held, NEW w \in Worker, Abandon(w)
  PROVE  Held'
<1>1. /\ UNCHANGED <<leaseLeft, pc, job, todo, breaks>>
      /\ \A r \in Rule, e \in Event :
           run'[r][e] = IF run[r][e] = "running" /\ leaseLeft[e] = 0 THEN "abandoned" ELSE run[r][e]
  BY DEF Abandon, workVars
<1>2. ASSUME NEW x \in Worker, NEW r \in todo[x] PROVE run'[r][job[x]] = "running"
  <2>1. pc[x] # "idle" /\ job[x] \in Event /\ r \in Rule
    BY <1>2, FannedAreEvents DEF IInv, Typed, LoopsTyped, Workers, Right, AtWork
  <2> QED BY <1>1, <2>1 DEF Held, OnlyTheBroken
<1>3. ASSUME breaks = 0, NEW r \in Rule, NEW e \in Event
      PROVE  run'[r][e] = run[r][e] /\ (InHand(r, e) => InHand(r, e)')
  <2>1. run[r][e] = "running" => leaseLeft[e] > 0
    BY <1>3 DEF Held, InHand
  <2> QED BY <1>1, <2>1 DEF InHand
<1> QED BY <1>1, <1>2, <1>3 DEF Held, OnlyTheBroken

\* A drain that breaks has its runs in hand no longer.
LEMMA BreakHeld ==
  ASSUME AutomationAssumption, IInv, Held, NEW w \in Worker, Break(w)
  PROVE  Held'
<1>1. /\ UNCHANGED <<run, leaseLeft, job>> /\ breaks' = breaks + 1
      /\ todo'[w] = {} /\ pc'[w] = "idle"
      /\ \A x \in Worker \ {w} : pc'[x] = pc[x] /\ todo'[x] = todo[x]
  BY DEF Break, Goto, runVars, IInv, Typed, LoopsTyped
<1>2. breaks' \in Nat /\ breaks' # 0
  BY <1>1 DEF Held
<1>3. ASSUME NEW x \in Worker, NEW r \in todo'[x] PROVE run'[r][job'[x]] = "running"
  <2>1. x # w /\ r \in todo[x]
    BY <1>1, <1>3
  <2> QED BY <1>1, <2>1 DEF Held, OnlyTheBroken
<1> QED BY <1>1, <1>2, <1>3 DEF Held, OnlyTheBroken

\* Every step keeps the groups in hand, and time by assumption.
LEMMA NextHeld ==
  ASSUME AutomationAssumption, IInv, Held, [Next]_vars, GroupsPrompt
  PROVE  Held'
<1>1. ASSUME NEW e \in Event, Enqueue(e) PROVE Held'
  BY <1>1, EnqueueHeld
<1>2. ASSUME NEW w \in Worker, Step(w) PROVE Held'
  BY <1>2, ClaimHeld, WorkHeld, FinishHeld DEF Step
<1>3. ASSUME NEW w \in Worker, Abandon(w) \/ Break(w) PROVE Held'
  BY <1>3, AbandonHeld, BreakHeld
<1>4. ASSUME NEW r \in Rule, SetEnabled(r) PROVE Held'
  BY <1>4, GroupsAlone DEF SetEnabled, runVars, workVars, Held
<1>5. CASE Tick
  <2>1. UNCHANGED <<run, pc, job, todo, breaks>>
    BY <1>5 DEF Tick, workVars
  <2>2. ASSUME NEW w \in Worker, pc[w] # "idle" PROVE leaseLeft'[job[w]] > 0
    <3>1. job[w] \in Event
      BY <2>2, FannedAreEvents DEF IInv, Workers, Right, AtWork
    <3>2. leaseLeft[job[w]] > 1 /\ leaseLeft[job[w]] \in Nat
      BY <1>5, <2>2, <3>1 DEF GroupsPrompt, IInv, Typed, RunsTyped, AutomationAssumption
    <3>3. leaseLeft'[job[w]] = leaseLeft[job[w]] - 1
      BY <1>5, <3>1, <3>2 DEF Tick
    <3> QED BY <3>2, <3>3
  <2> QED BY <2>1, <2>2, GroupsAlone
<1>6. CASE UNCHANGED vars
  BY <1>6, GroupsAlone DEF vars, runVars, workVars, Held
<1> QED BY <1>1, <1>2, <1>3, <1>4, <1>5, <1>6 DEF Next

\* What "abandoned" should mean, and does as long as every group of runs ends
\* within its lease: the drain that had the run died or threw, and no worker
\* still acts on it. (The lease is not renewed, so a group with slow actions
\* breaks the hypothesis: executor.ts then abandons runs that go on.)
THEOREM AbandonedMeansBroken ==
  ASSUME AutomationAssumption
  PROVE  Spec /\ [][GroupsPrompt]_vars => []OnlyTheBroken
<1>1. Init => Held
  BY DEF Init, Held, OnlyTheBroken, InHand
<1>2. IInv /\ Held /\ [Next]_vars /\ [GroupsPrompt]_vars => Held'
  <2>1. CASE GroupsPrompt
    BY <2>1, NextHeld
  <2>2. CASE UNCHANGED vars
    BY <2>2, GroupsAlone DEF vars, runVars, workVars, Held
  <2> QED BY <2>1, <2>2
<1>3. Held => OnlyTheBroken
  BY DEF Held
<1> QED
  BY <1>1, <1>2, <1>3, Invariance, PTL DEF Spec

-----------------------------------------------------------------------------
(* The history the executor shows is an AutomationHistory *)

\* The runs of an event are claimed together: while one is pending none runs, and
\* what runs of a worker's event is what it has still to do.
ClaimedTogether ==
  /\ \A e \in Event, r, s \in Rule : run[r][e] = "pending" => run[s][e] # "running"
  /\ \A w \in Worker : pc[w] # "idle" =>
       \A s \in Rule \ todo[w] : run[s][job[w]] # "running"

\* A step that queues and starts nothing, and lets go only of what is over.
LEMMA TogetherStays ==
  ASSUME AutomationAssumption, IInv, ClaimedTogether,
         \A r \in Rule, e \in Event :
           run'[r][e] \in {"pending", "running"} => run'[r][e] = run[r][e],
         \A w \in Worker : pc'[w] # "idle" =>
           /\ pc[w] # "idle" /\ job'[w] = job[w]
           /\ \A s \in todo[w] \ todo'[w] : run'[s][job[w]] # "running"
  PROVE  ClaimedTogether'
<1>1. \A w \in Worker : pc[w] # "idle" => job[w] \in Event
  BY FannedAreEvents DEF IInv, Workers, Right, AtWork
<1> QED BY <1>1 DEF ClaimedTogether

\* The runs of an event are queued when it has none, and of a chain that is cut
\* those are told that would have fired.
LEMMA EnqueueShows ==
  ASSUME AutomationAssumption, IInv, ClaimedTogether, NEW e \in Event, Enqueue(e)
  PROVE  ClaimedTogether' /\ History!Next
<1> DEFINE rules == Triggered(e, "ok")
           cut == Triggered(e, "depth_exceeded")
           shown == Surfaced(e) \ rules
<1>1. \A r \in Rule : run[r][e] = "none"
  BY DEF Enqueue, IInv, Rows, Unfanned
<1>2. rules \in SUBSET Rule /\ cut \in SUBSET Rule /\ shown \in SUBSET Rule
  BY DEF Triggered, Surfaced, IInv, Typed, EventsTyped
<1>3. cut \subseteq shown /\ rules \cap shown = {} /\ (shown # {} => cut # {})
  BY DEF Triggered, Surfaced
<1>4. /\ run' = [r \in Rule |-> [run[r] EXCEPT ![e] =
                   IF r \in rules THEN "pending" ELSE IF r \in shown THEN "failed" ELSE "none"]]
      /\ told' = told \cup {<<r, e>> : r \in cut} /\ acted' = acted
  BY <1>1 DEF Enqueue
<1>5. History!Queue(e, rules, cut, shown)
  BY <1>1, <1>3, <1>4 DEF History!Queue
<1>6. \A r \in Rule, f \in Event :
        run'[r][f] = IF f # e THEN run[r][f]
                     ELSE IF r \in rules THEN "pending" ELSE IF r \in shown THEN "failed" ELSE "none"
  BY <1>4 DEF IInv, Typed, RunsTyped
<1>7. \A w \in Worker : pc[w] # "idle" => job[w] \in Event /\ job[w] # e
  BY FannedAreEvents DEF Enqueue, IInv, Workers, Right, AtWork
<1>8. UNCHANGED <<pc, job, todo>>
  BY DEF Enqueue, workVars
<1>9. ClaimedTogether'
  BY <1>6, <1>7, <1>8 DEF ClaimedTogether
<1> QED BY <1>2, <1>5, <1>9 DEF History!Next

\* A claim starts all that is pending of the event.
LEMMA ClaimShows ==
  ASSUME AutomationAssumption, IInv, ClaimedTogether, NEW w \in Worker, NEW e \in Event, Claim(w, e)
  PROVE  ClaimedTogether' /\ History!Next
<1>1. /\ run' = [r \in Rule |-> [run[r] EXCEPT ![e] =
                   IF run[r][e] = "pending" THEN "running" ELSE run[r][e]]]
      /\ (\E r \in Rule : run[r][e] = "pending") /\ told' = told /\ acted' = acted
  BY DEF Claim, Claimable
<1>2. History!Start(e)
  BY <1>1 DEF History!Start
<1>3. \A r \in Rule, f \in Event :
        run'[r][f] = IF f = e /\ run[r][e] = "pending" THEN "running" ELSE run[r][f]
  BY <1>1 DEF IInv, Typed, RunsTyped
<1>4. /\ job'[w] = e /\ todo'[w] = {r \in Rule : run[r][e] = "pending"}
      /\ \A x \in Worker \ {w} : pc'[x] = pc[x] /\ job'[x] = job[x] /\ todo'[x] = todo[x]
  BY DEF Claim, Claimable, IInv, Typed, LoopsTyped
<1>5. \A x \in Worker : pc[x] # "idle" => job[x] \in Event /\ job[x] # e
  BY <1>1, FannedAreEvents DEF IInv, Workers, Right, AtWork
<1>6. ClaimedTogether'
  BY <1>1, <1>3, <1>4, <1>5 DEF ClaimedTogether
<1> QED BY <1>2, <1>6 DEF History!Next

\* A rule acts when those before it are over.
LEMMA ActShows ==
  ASSUME AutomationAssumption, IInv, ClaimedTogether, NEW w \in Worker, Act(w) \/ ActFails(w)
  PROVE  ClaimedTogether' /\ History!Next
<1> DEFINE r == Current(w)  e == job[w]
<1>1. /\ pc[w] = "act" /\ step[w] < Actions /\ acted[r][e] = step[w]
      /\ r \in todo[w] /\ r \in Rule /\ e \in Event
  BY Counted
<1>2. UNCHANGED <<run, told, pc, job, todo>>
      /\ acted' = [acted EXCEPT ![r] = [acted[r] EXCEPT ![e] = acted[r][e] + 1]]
  BY DEF Act, ActFails, CountAction, runVars
<1>3. AtWork(w) /\ ~ stopped[w] /\ todo[w] # {}
  BY <1>1 DEF IInv, Workers, Right, AtWork
<1>4. \A s \in Rule : Position[s] < Position[r] => s \notin todo[w]
  BY <1>3, CurrentRule DEF IInv, AutomationAssumption
<1>5. History!Turn(r, e)
  BY <1>1, <1>3, <1>4 DEF History!Turn, AtWork, ClaimedTogether
<1>6. History!Act(r, e)
  BY <1>1, <1>2, <1>3, <1>5 DEF History!Act, AtWork
<1>7. ClaimedTogether'
  BY <1>2 DEF ClaimedTogether
<1> QED BY <1>1, <1>6, <1>7 DEF History!Next

\* A run ends as what its rule did, or was given up before and stays as it is.
LEMMA FinishShows ==
  ASSUME AutomationAssumption, IInv, ClaimedTogether, NEW w \in Worker, Finish(w) \/ SkipStopped(w)
  PROVE  ClaimedTogether' /\ (History!Next \/ UNCHANGED <<run, told, acted>>)
<1> USE DEF IInv
<1> DEFINE r == Current(w)  e == job[w]
           v == IF Finish(w) THEN verdict[w] ELSE "skipped"
<1>1. pc[w] # "idle" /\ NextRule(w) /\ job' = job /\ acted' = acted
  BY DEF Finish, SkipStopped
<1>2. AtWork(w) /\ todo[w] # {} /\ e \in Event
  BY <1>1, FannedAreEvents DEF Workers, Right, AtWork
<1>3. r \in todo[w] /\ r \in Rule /\ acted[r][e] = step[w] /\ run[r][e] \in {"running", "abandoned"}
  BY <1>2, CurrentRule DEF AtWork
<1>4. v \in Verdicts /\ run' = Finished(r, e, v) /\ v \in History!Ends(acted[r][e])
  <2>1. CASE Finish(w)
    BY <2>1, <1>2, <1>3 DEF Finish, AtWork, Typed, LoopsTyped, Verdicts, History!Ends
  <2>2. CASE ~ Finish(w)
    <3>1. step[w] = 0 /\ SkipStopped(w)
      BY <2>2 DEF SkipStopped, Workers, Right
    <3> QED
      BY <2>2, <1>3, <3>1 DEF SkipStopped, Verdicts, History!Ends
  <2> QED BY <2>1, <2>2
<1>5. run[r][e] = "running" =>
        told' = IF v = "failed" /\ acted[r][e] > 0 THEN told \cup {<<r, e>>} ELSE told
  <2>1. CASE Finish(w)
    <3>1. acted[r][e] > 0 <=> Matched(w)
      BY <2>1, <1>2, <1>3 DEF Finish, AtWork, Matched, AutomationAssumption
    <3> QED BY <2>1, <3>1 DEF Finish
  <2>2. CASE ~ Finish(w)
    BY <2>2 DEF SkipStopped
  <2> QED BY <2>1, <2>2
<1>6. run[r][e] # "running" => UNCHANGED <<run, told, acted>>
  BY <1>1, <1>4 DEF Finish, SkipStopped, Finished
<1> HIDE DEF v
<1>7. run[r][e] = "running" => History!End(r, e)
  BY <1>1, <1>4, <1>5 DEF History!End, Finished
<1>8. \A s \in Rule, f \in Event :
        run'[s][f] = IF s = r /\ f = e /\ run[r][e] = "running" THEN v ELSE run[s][f]
  BY <1>2, <1>3, <1>4, FinishedRow
<1>9. todo'[w] = todo[w] \ {r} /\ \A x \in Worker \ {w} : pc'[x] = pc[x] /\ todo'[x] = todo[x]
  BY <1>1 DEF NextRule, Goto, Typed, LoopsTyped
<1>10. ClaimedTogether'
  <2>1. v \notin {"pending", "running"}
    BY <1>4 DEF Verdicts
  <2>2. run'[r][e] # "running"
    BY <1>2, <1>3, <1>8, <2>1
  <2> QED BY <1>1, <1>8, <1>9, <2>1, <2>2, TogetherStays
<1> QED BY <1>2, <1>3, <1>6, <1>7, <1>10 DEF History!Next

\* What is given up was running; all else shows nothing.
LEMMA OtherStepsShow ==
  ASSUME AutomationAssumption, IInv, ClaimedTogether,
         \/ \E w \in Worker : \/ Judge(w) \/ JudgeRole(w) \/ Match(w) \/ RecordRuleOutcome(w)
                              \/ Abandon(w) \/ Break(w)
         \/ (\E r \in Rule : SetEnabled(r)) \/ Tick \/ UNCHANGED vars
  PROVE  ClaimedTogether' /\ (History!Next \/ UNCHANGED <<run, told, acted>>)
<1>1. ASSUME NEW w \in Worker, Abandon(w) PROVE ClaimedTogether' /\ History!Next
  <2> DEFINE stale == {e \in Event : leaseLeft[e] = 0}
  <2>1. /\ run' = [r \in Rule |-> [e \in Event |->
                     IF e \in stale /\ run[r][e] = "running" THEN "abandoned" ELSE run[r][e]]]
        /\ UNCHANGED <<told, acted, pc, job, todo>>
    BY <1>1, Zenon DEF Abandon, workVars
  <2>2. History!GiveUp(stale) /\ stale \in SUBSET Event
    BY <2>1 DEF History!GiveUp
  <2>3. ClaimedTogether'
    BY <2>1, TogetherStays
  <2> QED BY <2>2, <2>3 DEF History!Next
<1>2. ASSUME NEW w \in Worker, Judge(w) \/ JudgeRole(w) \/ Match(w) \/ RecordRuleOutcome(w) \/ Break(w)
      PROVE  ClaimedTogether' /\ UNCHANGED <<run, told, acted>>
  <2>1. UNCHANGED <<run, told, acted, job>> /\ pc[w] # "idle"
    BY <1>2 DEF Judge, JudgeRole, Match, RecordRuleOutcome, Break, runVars
  <2>2. /\ \A x \in Worker : pc'[x] # "idle" => pc[x] # "idle"
        /\ \A x \in Worker : pc'[x] # "idle" => todo'[x] = todo[x]
    BY <1>2, <2>1 DEF Judge, JudgeRole, Match, RecordRuleOutcome, Break, Goto, IInv, Typed, LoopsTyped
  <2> QED BY <2>1, <2>2, TogetherStays
<1>3. ASSUME (\E r \in Rule : SetEnabled(r)) \/ Tick \/ UNCHANGED vars
      PROVE  ClaimedTogether' /\ UNCHANGED <<run, told, acted>>
  <2>1. UNCHANGED <<run, told, acted, pc, job, todo>>
    BY <1>3 DEF SetEnabled, Tick, vars, runVars, workVars
  <2> QED BY <2>1 DEF ClaimedTogether
<1> QED BY <1>1, <1>2, <1>3

\* Whatever workers, leases and cut chains do, what is shown of automations is a
\* history as AutomationHistory describes it: the executor and the consumer
\* implement it, for any rules, depth, lease and number of workers.
THEOREM ImplementsTheHistory == ASSUME AutomationAssumption PROVE Spec => ImplementsHistory
<1>1. Init => History!Init /\ ClaimedTogether
  BY DEF Init, History!Init, ClaimedTogether
<1>2. IInv /\ ClaimedTogether /\ [Next]_vars =>
        ClaimedTogether' /\ [History!Next]_<<run, told, acted>>
  BY EnqueueShows, ClaimShows, ActShows, FinishShows, OtherStepsShow DEF Next, Step
<1> QED BY <1>1, <1>2, Invariance, PTL DEF Spec, ImplementsHistory, History!Spec
=============================================================================
