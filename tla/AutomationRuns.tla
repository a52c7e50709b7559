---------------------------- MODULE AutomationRuns ----------------------------
(***************************************************************************)
(* Automations (automation/consumer.ts, automation/executor.ts): an event  *)
(* becomes one run for each rule it triggers, a worker claims the runs of  *)
(* an event together and executes them in rule order, and the actions of a *)
(* rule write events of their own. An action commits by itself, so a run   *)
(* whose worker is late is abandoned and never claimed again. Each step is *)
(* one statement or transaction, or one action of a rule.                  *)
(***************************************************************************)
EXTENDS Naturals, FiniteSets

CONSTANTS
  Rule, Worker, NoRule,
  Position,      \* automation.position
  Stops,         \* the rules with stop_processing
  Actions,       \* actions of a rule
  Roots,         \* events written by people's changes
  MaxDepth,      \* AUTOMATION_MAX_DEPTH
  MaxEvents,     \* bound on events
  Lease,         \* AUTOMATION_RUN_LEASE_MS, in ticks
  MaxEdits,      \* bound on enabling and disabling of rules
  MaxBreaks      \* bound on drains that die or throw

ASSUME AutomationAssumption ==
  /\ NoRule \notin Rule /\ Stops \subseteq Rule
  /\ Position \in [Rule -> Nat]
  /\ \A r, s \in Rule : Position[r] = Position[s] => r = s
  /\ Actions \in Nat \ {0} /\ MaxDepth \in Nat \ {0} /\ Lease \in Nat \ {0}
  /\ Roots \in Nat /\ MaxEvents \in Nat /\ Roots <= MaxEvents
  /\ MaxEdits \in Nat /\ MaxBreaks \in Nat

Event == 1 .. MaxEvents

VARIABLES
  enabled,        \* Rule -> automation.enabled and the feature is on in its scope
  made,           \* the events 1 .. made are in the outbox
  depth, origin,  \* the loop guard's part of an event's envelope
  fanned,         \* events the consumer has handled
  run,            \* Rule -> Event -> automation_run.state, "none" without a row
  leaseLeft,      \* Event -> ticks until lease_expires_at of its runs
  told,           \* the runs an automation.run_failed event was written for
  pc, job, todo,  \* Worker -> position, event in work, rules not finished yet
  stopped,        \* Worker -> an earlier rule stopped the group
  verdict,        \* Worker -> what the rule in work came to
  step,           \* Worker -> actions of the rule in work executed so far
  dangling,       \* Worker -> an action named a deleted label
  acted,          \* history: Rule -> Event -> actions executed
  edits, breaks

ruleVars == <<enabled, edits>>
eventVars == <<made, depth, origin, fanned>>
runVars == <<run, leaseLeft, told>>
workVars == <<pc, job, todo, stopped, verdict, step, dangling>>
vars == <<ruleVars, eventVars, runVars, workVars, acted, breaks>>

Over == {"done", "unmatched", "failed", "skipped", "abandoned"}
States == Over \cup {"none", "pending", "running"}
Verdicts == {"done", "unmatched", "failed", "skipped"}

Init ==
  /\ enabled = [r \in Rule |-> TRUE]
  /\ made = Roots /\ fanned = {}
  /\ depth = [e \in Event |-> 0]
  /\ origin = [e \in Event |-> NoRule]
  /\ run = [r \in Rule |-> [e \in Event |-> "none"]]
  /\ leaseLeft = [e \in Event |-> 0]
  /\ told = {}
  /\ pc = [w \in Worker |-> "idle"]
  /\ job = [w \in Worker |-> 0]
  /\ todo = [w \in Worker |-> {}]
  /\ stopped = [w \in Worker |-> FALSE]
  /\ verdict = [w \in Worker |-> "skipped"]
  /\ step = [w \in Worker |-> 0]
  /\ dangling = [w \in Worker |-> FALSE]
  /\ acted = [r \in Rule |-> [e \in Event |-> 0]]
  /\ edits = 0 /\ breaks = 0

-----------------------------------------------------------------------------
(* The consumer: from an event to its runs *)

GuardOneDeeper(r, e) ==
  IF origin[e] = r THEN "self_origin" ELSE IF depth[e] > MaxDepth THEN "depth_exceeded" ELSE "ok"

\* guardAutomationTrigger
Guard(r, e) ==
  IF origin[e] = r THEN "self_origin" ELSE IF depth[e] >= MaxDepth THEN "depth_exceeded" ELSE "ok"

Triggered(e, answer) == {r \in Rule : enabled[r] /\ Guard(r, e) = answer}

OnlyTheFiredRule(e) == Triggered(e, "depth_exceeded")

\* The rules whose history shows that a chain was abandoned: those that would
\* have fired, and through surfaceLoopOnOrigin the one whose action wrote e.
Surfaced(e) ==
  LET cut == Triggered(e, "depth_exceeded")
  IN  IF cut = {} THEN {} ELSE cut \cup ({origin[e]} \ {NoRule})

\* enqueueAutomationRuns, once for an event (EventFanout), in one transaction.
Enqueue(e) ==
  /\ e \in 1 .. made /\ e \notin fanned
  /\ fanned' = fanned \cup {e}
  /\ run' = [r \in Rule |-> [run[r] EXCEPT ![e] =
               IF r \in Triggered(e, "ok") THEN "pending"
               ELSE IF r \in Surfaced(e) THEN "failed" ELSE run[r][e]]]
  /\ told' = told \cup {<<r, e>> : r \in Triggered(e, "depth_exceeded")}
  /\ UNCHANGED <<ruleVars, made, depth, origin, leaseLeft, workVars, acted, breaks>>

-----------------------------------------------------------------------------
(* The executor *)

ClaimableOrStale(e) ==
  {r \in Rule : run[r][e] = "pending" \/ (run[r][e] = "running" /\ leaseLeft[e] = 0)}

Claimable(e) == {r \in Rule : run[r][e] = "pending"}

\* claimNextAutomationEvent: every pending run of one event, under its advisory
\* lock. An older event that another claim holds is passed over.
Claim(w, e) ==
  /\ pc[w] = "idle" /\ Claimable(e) # {}
  /\ run' = [r \in Rule |-> [run[r] EXCEPT ![e] =
               IF r \in Claimable(e) THEN "running" ELSE run[r][e]]]
  /\ leaseLeft' = [leaseLeft EXCEPT ![e] = Lease]
  /\ job' = [job EXCEPT ![w] = e]
  /\ todo' = [todo EXCEPT ![w] = Claimable(e)]
  /\ stopped' = [stopped EXCEPT ![w] = FALSE]
  /\ pc' = [pc EXCEPT ![w] = "judge"]
  /\ UNCHANGED <<ruleVars, eventVars, told, verdict, step, dangling, acted, breaks>>

LastOf(rules) == CHOOSE r \in rules : \A s \in rules : Position[s] <= Position[r]

\* The group is sorted by position.
FirstOf(rules) == CHOOSE r \in rules : \A s \in rules : Position[r] <= Position[s]

Current(w) == FirstOf(todo[w])

Goto(w, label) == pc' = [pc EXCEPT ![w] = label]

\* What executeRun finds before it acts: rule, event, loop guard, conditions.
Findings(r, e) ==
  IF ~ enabled[r] THEN {"skipped"}
  ELSE IF Guard(r, e) = "self_origin" THEN {"skipped"}
  ELSE IF Guard(r, e) = "depth_exceeded" THEN {"failed"}
  ELSE {"failed", "unmatched"}

Judge(w) ==
  /\ pc[w] = "judge" /\ ~ stopped[w]
  /\ \E v \in Findings(Current(w), job[w]) : verdict' = [verdict EXCEPT ![w] = v]
  /\ Goto(w, "finish")
  /\ UNCHANGED <<ruleVars, eventVars, runVars, job, todo, stopped, step, dangling, acted, breaks>>

\* An effective role that is gone disables the rule and fails the run.
JudgeRole(w) ==
  /\ pc[w] = "judge" /\ ~ stopped[w] /\ "unmatched" \in Findings(Current(w), job[w])
  /\ enabled' = [enabled EXCEPT ![Current(w)] = FALSE]
  /\ verdict' = [verdict EXCEPT ![w] = "failed"]
  /\ Goto(w, "finish")
  /\ UNCHANGED <<edits, eventVars, runVars, job, todo, stopped, step, dangling, acted, breaks>>

\* The conditions match; nothing is written before the first action.
Match(w) ==
  /\ pc[w] = "judge" /\ ~ stopped[w] /\ "unmatched" \in Findings(Current(w), job[w])
  /\ verdict' = [verdict EXCEPT ![w] = "done"]
  /\ step' = [step EXCEPT ![w] = 0]
  /\ dangling' = [dangling EXCEPT ![w] = FALSE]
  /\ Goto(w, "act")
  /\ UNCHANGED <<ruleVars, eventVars, runVars, job, todo, stopped, acted, breaks>>

CountAction(w) ==
  /\ step' = [step EXCEPT ![w] = @ + 1]
  /\ acted' = [acted EXCEPT ![Current(w)] =
                 [acted[Current(w)] EXCEPT ![job[w]] = acted[Current(w)][job[w]] + 1]]

\* executeAction commits by itself, with the event of the change if it has one;
\* runAsAutomation puts depth and origin on it. The run is not looked at.
Act(w) ==
  /\ pc[w] = "act" /\ step[w] < Actions
  /\ CountAction(w)
  /\ \/ /\ made < MaxEvents
        /\ made' = made + 1
        /\ depth' = [depth EXCEPT ![made + 1] = depth[job[w]] + 1]
        /\ origin' = [origin EXCEPT ![made + 1] = Current(w)]
     \/ UNCHANGED <<made, depth, origin>>
  /\ UNCHANGED <<ruleVars, fanned, runVars, pc, job, todo, stopped, verdict, dangling, breaks>>

\* A failing action does not keep the next ones from being executed.
ActFails(w) ==
  /\ pc[w] = "act" /\ step[w] < Actions
  /\ CountAction(w)
  /\ verdict' = [verdict EXCEPT ![w] = "failed"]
  /\ \/ dangling' = [dangling EXCEPT ![w] = TRUE]
     \/ UNCHANGED dangling
  /\ UNCHANGED <<ruleVars, eventVars, runVars, pc, job, todo, stopped, breaks>>

\* recordRuleOutcome disables a rule that names a deleted label.
RecordRuleOutcome(w) ==
  /\ pc[w] = "act" /\ step[w] = Actions
  /\ enabled' = IF dangling[w] THEN [enabled EXCEPT ![Current(w)] = FALSE] ELSE enabled
  /\ Goto(w, "finish")
  /\ UNCHANGED <<edits, eventVars, runVars, job, todo, stopped, verdict, step, dangling, acted, breaks>>

Matched(w) == step[w] = Actions

\* The loop over the group goes on with the next rule.
NextRule(w) ==
  /\ todo' = [todo EXCEPT ![w] = @ \ {Current(w)}]
  /\ step' = [step EXCEPT ![w] = 0]
  /\ Goto(w, IF todo[w] = {Current(w)} THEN "idle" ELSE "judge")

FinishedUnfenced(r, e, state) == [run EXCEPT ![r] = [run[r] EXCEPT ![e] = state]]

\* finishRun: only a run that is still running.
Finished(r, e, state) ==
  IF run[r][e] = "running" THEN [run EXCEPT ![r] = [run[r] EXCEPT ![e] = state]] ELSE run

\* The end of a run, and with it automation.run_failed when actions failed: one
\* transaction, nothing is told of a run that was not running any more.
Finish(w) ==
  LET r == Current(w)  e == job[w]
  IN  /\ pc[w] = "finish"
      /\ run' = Finished(r, e, verdict[w])
      /\ told' = IF Matched(w) /\ verdict[w] = "failed" /\ run[r][e] = "running"
                 THEN told \cup {<<r, e>>} ELSE told
      /\ stopped' = [stopped EXCEPT ![w] = Matched(w) /\ r \in Stops]
      /\ NextRule(w)
      /\ UNCHANGED <<ruleVars, eventVars, leaseLeft, job, verdict, dangling, acted, breaks>>

\* The rest of a group after a matched rule with stop_processing.
SkipStopped(w) ==
  /\ pc[w] = "judge" /\ stopped[w]
  /\ run' = Finished(Current(w), job[w], "skipped")
  /\ NextRule(w)
  /\ UNCHANGED <<ruleVars, eventVars, leaseLeft, told, job, stopped, verdict, dangling, acted, breaks>>

\* abandonStaleRuns, at the start of a drain.
Abandon(w) ==
  /\ pc[w] = "idle"
  /\ \E r \in Rule, e \in Event : run[r][e] = "running" /\ leaseLeft[e] = 0
  /\ run' = [r \in Rule |-> [e \in Event |->
               IF run[r][e] = "running" /\ leaseLeft[e] = 0 THEN "abandoned" ELSE run[r][e]]]
  /\ UNCHANGED <<ruleVars, eventVars, leaseLeft, told, workVars, acted, breaks>>

-----------------------------------------------------------------------------
(* What happens around it *)

\* The process dies, or a statement throws and the drain gives the group up.
Break(w) ==
  /\ pc[w] # "idle" /\ breaks < MaxBreaks
  /\ breaks' = breaks + 1
  /\ todo' = [todo EXCEPT ![w] = {}]
  /\ step' = [step EXCEPT ![w] = 0]
  /\ Goto(w, "idle")
  /\ UNCHANGED <<ruleVars, eventVars, runVars, job, stopped, verdict, dangling, acted>>

\* setAutomationEnabled
SetEnabled(r) ==
  /\ edits < MaxEdits
  /\ edits' = edits + 1
  /\ enabled' = [enabled EXCEPT ![r] = ~ @]
  /\ UNCHANGED <<eventVars, runVars, workVars, acted, breaks>>

Tick ==
  /\ \E e \in Event : leaseLeft[e] > 0
  /\ leaseLeft' = [e \in Event |-> IF leaseLeft[e] = 0 THEN 0 ELSE leaseLeft[e] - 1]
  /\ UNCHANGED <<ruleVars, eventVars, run, told, workVars, acted, breaks>>

-----------------------------------------------------------------------------

Step(w) ==
  \/ \E e \in Event : Claim(w, e)
  \/ Judge(w) \/ JudgeRole(w) \/ Match(w) \/ Act(w) \/ ActFails(w)
  \/ RecordRuleOutcome(w) \/ Finish(w) \/ SkipStopped(w)

Next ==
  \/ \E e \in Event : Enqueue(e)
  \/ \E w \in Worker : Step(w) \/ Abandon(w) \/ Break(w)
  \/ \E r \in Rule : SetEnabled(r)
  \/ Tick

Spec == Init /\ [][Next]_vars

\* The outbox hands every event to its consumers, workers go on, drains start
\* every 30 seconds on a process that is not busy, the clock advances. Nothing
\* is assumed of people or of drains that break.
Fairness ==
  /\ WF_vars(Tick)
  /\ WF_vars(\E e \in Event : Enqueue(e))
  /\ \A w \in Worker : WF_vars(Step(w))
  /\ SF_vars(\E w \in Worker : Abandon(w))

FairSpec == Spec /\ Fairness

-----------------------------------------------------------------------------
(* Properties *)

\* Types, and how rows and workers agree: a worker has rules to do exactly when
\* it is not idle, no two workers share an event, runs in work were claimed.
TypeOK ==
  /\ enabled \in [Rule -> BOOLEAN]
  /\ made \in 0 .. MaxEvents /\ fanned \subseteq 1 .. made
  /\ depth \in [Event -> Nat] /\ origin \in [Event -> Rule \cup {NoRule}]
  /\ run \in [Rule -> [Event -> States]]
  /\ leaseLeft \in [Event -> 0 .. Lease]
  /\ told \subseteq Rule \X Event
  /\ pc \in [Worker -> {"idle", "judge", "act", "finish"}]
  /\ job \in [Worker -> 0 .. MaxEvents] /\ todo \in [Worker -> SUBSET Rule]
  /\ stopped \in [Worker -> BOOLEAN] /\ verdict \in [Worker -> Verdicts]
  /\ step \in [Worker -> 0 .. Actions] /\ dangling \in [Worker -> BOOLEAN]
  /\ acted \in [Rule -> [Event -> 0 .. Actions]]
  /\ \A w \in Worker :
       /\ pc[w] = "idle" <=> todo[w] = {}
       /\ pc[w] # "idle" => job[w] \in fanned
       /\ \A r \in todo[w] : run[r][job[w]] \in {"running", "abandoned"}
  /\ \A w, x \in Worker :
       w # x /\ pc[w] # "idle" /\ pc[x] # "idle" => job[w] # job[x]

\* The history tells the truth: a run shown as done executed every action of
\* its rule exactly once, one shown as skipped or not matched, or still pending,
\* executed none. Only an abandoned run leaves open what it did (AM-8).
HistoryIsTruthful ==
  \A r \in Rule, e \in Event :
    /\ run[r][e] = "done" => acted[r][e] = Actions
    /\ run[r][e] \in {"none", "pending", "skipped", "unmatched"} => acted[r][e] = 0

\* A run that failed on its actions has told so, in the same commit, and nobody
\* is told of a run whose history does not show a failure (the comment at
\* executor.ts:291).
FailuresAreTold ==
  \A r \in Rule, e \in Event :
    /\ run[r][e] = "failed" /\ acted[r][e] > 0 => <<r, e>> \in told
    /\ <<r, e>> \in told => run[r][e] = "failed"

\* A chain cut at the depth limit shows in the history of both rules: of the
\* one that would have fired and of the one whose action wrote the event; and
\* no rule acts on an event its own action wrote, nor at the limit (AM-5).
LoopsAreCutAndShown ==
  \A r \in Rule, e \in Event :
    /\ acted[r][e] > 0 => origin[e] # r /\ depth[e] < MaxDepth
    /\ run[r][e] = "failed" /\ depth[e] >= MaxDepth /\ origin[e] \in Rule
         => run[origin[e]][e] = "failed"

\* Whatever people, drains and late workers do, rules act on an event in their
\* order, each after the ones before it and none behind a matched rule with
\* stop_processing (AM-6).
RulesActInOrder ==
  [][\A r \in Rule, e \in Event : acted'[r][e] # acted[r][e] =>
       \A s \in Rule :
         /\ Position[s] > Position[r] => acted[s][e] = 0
         /\ s \in Stops /\ Position[s] < Position[r] => acted[s][e] = 0]_vars

\* A run that is over stays as it is: a late worker neither revives nor renames
\* a run that was abandoned (finishRun's condition).
OutcomeIsFinal ==
  [][\A r \in Rule, e \in Event : run[r][e] \in Over => run'[r][e] = run[r][e]]_vars

\* Late workers, drains that die, abandonment and cut chains together show a
\* history of that kind: runs queued once and started together, acting in order,
\* each ended once, as what it did, and told of in that commit when it failed.
History == INSTANCE AutomationHistory
ImplementsHistory == History!Spec

\* A cascade comes to an end by itself: fewer events are written than the model
\* allows, every event is handed out, and every run ends.
CascadeEnds ==
  <>[](/\ made < MaxEvents /\ fanned = 1 .. made
       /\ \A r \in Rule, e \in Event : run[r][e] \in Over \cup {"none"})

=============================================================================
