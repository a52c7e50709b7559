--------------------------- MODULE PendingActions ---------------------------
(***************************************************************************)
(* Pending actions (pending-action/): the request to delete a work item,   *)
(* and its end by approval, decision, expiry or invalidation. Each action  *)
(* below is one transaction; those that begin under the lifecycle lock     *)
(* serialise on it, the expiry job on the row. A failed execution is rolled *)
(* back first and recorded in a transaction of its own.                    *)
(***************************************************************************)
EXTENDS Naturals, FiniteSets

CONSTANTS
  Action,       \* pending actions of one requester, by id
  Target,       \* targets to delete
  TargetOf,     \* Action -> Target
  Watched,      \* targets whose actions a loss of access ends at once (views, calendars)
  ActionTtl,    \* ACTION_TTL_MS, in ticks
  MaxChanges    \* bound on edits of targets and on losses of the requester's rights

ASSUME PendingAssumption ==
  /\ TargetOf \in [Action -> Target] /\ Watched \subseteq Target
  /\ ActionTtl \in Nat \ {0} /\ MaxChanges \in Nat

VARIABLES
  state,     \* Action -> pending_action.state, "none" without a row
  seen,      \* Action -> target_versions
  left,      \* Action -> ticks until expires_at
  asking,    \* Action -> position of createPendingAction's loop
  failing,   \* actions whose execution was rolled back, to be recorded as failed
  version,   \* Target -> version and scope of the target
  live,      \* targets that are there
  access,    \* the requester's reach and capability
  active,    \* the requester is an active, unbanned member of staff
  hadLost,   \* history: actions that waited when access was lost
  changes

actionVars == <<state, seen, left, asking, failing, hadLost>>
worldVars == <<version, live, access, active, changes>>
pendingVars == <<actionVars, worldVars>>

Ended == {"executed", "failed", "declined", "expired", "invalidated"}

PendingInit ==
  /\ state = [a \in Action |-> "none"]
  /\ seen = [a \in Action |-> 0]
  /\ left = [a \in Action |-> 0]
  /\ asking = [a \in Action |-> "ask"]
  /\ failing = {} /\ hadLost = {}
  /\ version = [t \in Target |-> 0]
  /\ live = Target
  /\ access = TRUE /\ active = TRUE /\ changes = 0

-----------------------------------------------------------------------------
(* Asking *)

OpenInTime(t) ==
  {a \in Action : state[a] = "pending" /\ left[a] > 0 /\ TargetOf[a] = t}

Open(t) == {a \in Action : state[a] = "pending" /\ TargetOf[a] = t}

MayAsk(a) == active /\ access /\ TargetOf[a] \in live

\* resolveRequestScope and the insert, with the versions it read.
Create(a) ==
  /\ asking[a] \in {"ask", "again"} /\ MayAsk(a) /\ Open(TargetOf[a]) = {}
  /\ state' = [state EXCEPT ![a] = "pending"]
  /\ seen' = [seen EXCEPT ![a] = version[TargetOf[a]]]
  /\ left' = [left EXCEPT ![a] = ActionTtl]
  /\ UNCHANGED <<asking, failing, hadLost, worldVars>>

\* The partial unique index refuses a second pending row; it is looked up after
\* the rollback.
Clash(a) ==
  /\ asking[a] \in {"ask", "again"} /\ MayAsk(a) /\ Open(TargetOf[a]) # {}
  /\ asking' = [asking EXCEPT ![a] = IF asking[a] = "ask" THEN "clash" ELSE "clashed"]
  /\ UNCHANGED <<state, seen, left, failing, hadLost, worldVars>>

\* It may have ended meanwhile: then the request is tried once more.
AskAgain(a) ==
  /\ asking[a] = "clash" /\ Open(TargetOf[a]) = {}
  /\ asking' = [asking EXCEPT ![a] = "again"]
  /\ UNCHANGED <<state, seen, left, failing, hadLost, worldVars>>

\* 409 pending_approval, an error after the second attempt, or a request the
\* caller may not make.
Refused(a) ==
  /\ \/ asking[a] \in {"clash", "clashed"} /\ Open(TargetOf[a]) # {}
     \/ asking[a] = "clashed" /\ Open(TargetOf[a]) = {}
     \/ asking[a] \in {"ask", "again"} /\ ~ MayAsk(a)
  /\ UNCHANGED pendingVars

-----------------------------------------------------------------------------
(* Ending *)

\* left is of no use any more: it is zero in every row that has ended.
EndAs(a, end) ==
  /\ state' = [state EXCEPT ![a] = end]
  /\ left' = [left EXCEPT ![a] = 0]
  /\ UNCHANGED <<seen, asking>>

UncheckedVersion(a) == TargetOf[a] \in live

\* The target is there in the version and scope the request was made for.
Unchanged(a) == TargetOf[a] \in live /\ version[TargetOf[a]] = seen[a]

\* approveClickDeletion up to the execution: what it finds instead.
Verdict(a) ==
  IF ~ active THEN "invalidated"
  ELSE IF left[a] = 0 THEN "expired"
  ELSE IF ~ access \/ ~ Unchanged(a) THEN "invalidated"
  ELSE "executed"

\* Approval and deletion commit together.
Approve(a) ==
  /\ state[a] = "pending"
  /\ EndAs(a, Verdict(a))
  /\ live' = IF Verdict(a) = "executed" THEN live \ {TargetOf[a]} ELSE live
  /\ UNCHANGED <<failing, hadLost, version, access, active, changes>>

\* The deletion throws: everything is rolled back, and what is left is the
\* caller's intention to record it. (A transient error leaves not even that.)
ApproveFails(a) ==
  /\ state[a] = "pending" /\ Verdict(a) = "executed"
  /\ failing' = failing \cup {a}
  /\ UNCHANGED <<state, seen, left, asking, hadLost, worldVars>>

RecordedAnyway(a) == "failed"

RecordedFailure(a) == IF state[a] = "pending" THEN "failed" ELSE state[a]

\* recordPendingActionExecutionFailure
RecordFailure(a) ==
  /\ a \in failing /\ failing' = failing \ {a}
  /\ EndAs(a, RecordedFailure(a))
  /\ UNCHANGED <<hadLost, worldVars>>

\* The process dies between the two transactions.
ForgetFailure(a) ==
  /\ a \in failing /\ failing' = failing \ {a}
  /\ UNCHANGED <<state, seen, left, asking, hadLost, worldVars>>

\* decideOwnPendingAction: denied or cancelled, unless it has run out.
Decide(a) ==
  /\ state[a] = "pending"
  /\ EndAs(a, IF left[a] = 0 THEN "expired" ELSE "declined")
  /\ UNCHANGED <<failing, hadLost, worldVars>>

NotYetDue == {a \in Action : state[a] = "pending" /\ left[a] > 0}

Due == {a \in Action : state[a] = "pending" /\ left[a] = 0}

\* expirePendingActions takes the due rows nobody has locked, and looks at the
\* clock again for each.
Expire ==
  /\ \E batch \in SUBSET Due :
       /\ batch # {}
       /\ state' = [a \in Action |-> IF a \in batch THEN "expired" ELSE state[a]]
  /\ UNCHANGED <<seen, left, asking, failing, hadLost, worldVars>>

Pending == {a \in Action : state[a] = "pending"}

Invalidate(actions) ==
  /\ state' = [a \in Action |-> IF a \in actions THEN "invalidated" ELSE state[a]]
  /\ left' = [a \in Action |-> IF a \in actions THEN 0 ELSE left[a]]

-----------------------------------------------------------------------------
(* The world around *)

Change == changes < MaxChanges /\ changes' = changes + 1

\* Deactivation ends every request of the person in its own transaction.
Deactivate ==
  /\ Change /\ active /\ active' = FALSE
  /\ Invalidate(Pending)
  /\ hadLost' = hadLost \cup Pending
  /\ UNCHANGED <<seen, asking, failing, version, live, access>>

\* Restoring a person or their access revives nothing.
Reactivate ==
  /\ ~ active /\ active' = TRUE
  /\ UNCHANGED <<actionVars, version, live, access, changes>>

\* A role or membership is taken away: the requests for watched targets end
\* with it, the others are looked at when they are approved.
LoseAccess ==
  /\ Change /\ access /\ access' = FALSE
  /\ Invalidate({a \in Pending : TargetOf[a] \in Watched})
  /\ hadLost' = hadLost \cup Pending
  /\ UNCHANGED <<seen, asking, failing, version, live, active>>

RegainAccess ==
  /\ ~ access /\ access' = TRUE
  /\ UNCHANGED <<actionVars, version, live, active, changes>>

\* An edit, a move, a new child: all change what the snapshot compares.
Edit(t) ==
  /\ Change /\ t \in live /\ version' = [version EXCEPT ![t] = @ + 1]
  /\ UNCHANGED <<actionVars, live, access, active>>

PendingTick ==
  left' = [a \in Action |-> IF left[a] = 0 THEN 0 ELSE left[a] - 1]

Settle(a) == Approve(a) \/ RecordFailure(a) \/ Decide(a)

World == Deactivate \/ Reactivate \/ LoseAccess \/ RegainAccess \/ \E t \in Target : Edit(t)

-----------------------------------------------------------------------------
(* Properties *)

\* Types, and the unique index: one pending action of a requester for a target.
PendingTypeOK ==
  /\ state \in [Action -> Ended \cup {"none", "pending"}]
  /\ seen \in [Action -> 0 .. MaxChanges] /\ left \in [Action -> 0 .. ActionTtl]
  /\ asking \in [Action -> {"ask", "clash", "again", "clashed"}]
  /\ failing \subseteq Action /\ hadLost \subseteq Action
  /\ version \in [Target -> 0 .. MaxChanges] /\ live \subseteq Target
  /\ access \in BOOLEAN /\ active \in BOOLEAN /\ changes \in 0 .. MaxChanges
  /\ \A a, b \in Action :
       state[a] = "pending" /\ state[b] = "pending" /\ TargetOf[a] = TargetOf[b] => a = b

\* A target is gone exactly when one action on it was executed, and only one
\* was; it is gone in the version that action's summary showed (PA-7, PA-6 3a).
DeletedOnceAsShown ==
  \A t \in Target :
    LET executed == {a \in Action : state[a] = "executed" /\ TargetOf[a] = t}
    IN  /\ t \in live => executed = {}
        /\ t \notin live => \E a \in executed : executed = {a} /\ seen[a] = version[t]

\* "None of these terminal outcomes can later be approved" (PA-9): approval,
\* decision, expiry, invalidation and the late record of a failure compete for
\* a pending row, and the first one to commit is the only one.
EndIsFinal ==
  [][\A a \in Action : state[a] \in Ended => state'[a] = state[a]]_state

\* An action becomes invalidated when the requester loses the reach or the
\* capability it needs, and restoring them never revives it (PA-9,
\* docs/technical/safety-and-runtime.md:2560).
NeverRevived ==
  \A a \in hadLost : state[a] # "executed"

=============================================================================
