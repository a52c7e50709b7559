----------------------------- MODULE JobRuntime -----------------------------
(***************************************************************************)
(* The job runtime (instance/jobs/runtime.ts, scheduler/leader-lock.ts):   *)
(* scheduled and manual runs of leased jobs on several processes. A run has *)
(* a row with a run lease, which a heartbeat extends, and works under the   *)
(* job's lease, which only a manual run's heartbeat extends. Before every   *)
(* unit of work it checks both. Each step is one transaction; processes     *)
(* stall, die and lose their connection between any two.                    *)
(***************************************************************************)
EXTENDS Naturals, Sequences, FiniteSets

CONSTANTS
  Job, Process,
  Run,            \* run ids; a runner_id is fresh for each run, so the run stands for it
  JobOf,          \* Run -> Job
  Manual,         \* the runs an administrator asks for; the others are started by cron
  Nobody, NoProcess,
  RunLease,       \* RUN_LEASE_SECONDS, in ticks
  JobLease,       \* the lease a scheduled handler takes, in ticks
  MaxChanges,     \* bound on configuration changes
  MaxCrashes      \* bound on processes that die; a restart is another process

ASSUME JobAssumption ==
  /\ Nobody \notin Run /\ NoProcess \notin Process /\ Run \cap Process = {}
  /\ JobOf \in [Run -> Job] /\ Manual \subseteq Run
  /\ RunLease \in Nat \ {0} /\ JobLease \in Nat \ {0}
  /\ MaxChanges \in Nat /\ MaxCrashes \in Nat

VARIABLES
  enabled,      \* Job -> instance_job_configuration.enabled
  row,          \* Run -> instance_job_run.state, "none" without a row
  runLeft,      \* Run -> ticks until run_lease_expires_at
  queue,        \* the queued rows by requested_at
  holder,       \* Job -> the run that claimed job_lease last, Nobody without a row
  leaseLeft,    \* Job -> ticks until job_lease.expires_at
  at,           \* Run -> position of its execution
  proc,         \* Run -> process that executes it
  outcome,      \* Run -> how its handler ended
  lost,         \* runs whose ownershipLost flag is set
  overlapped,   \* history: manual runs during which another run began work
  down, changes

rowVars == <<row, runLeft, queue>>
leaseVars == <<holder, leaseLeft>>
execVars == <<at, proc, outcome, lost, overlapped>>
envVars == <<enabled, down, changes>>
vars == <<rowVars, leaseVars, execVars, envVars>>

Terminal == {"succeeded", "failed", "lease_lost"}
Labels == {"none", "authorise", "entry", "check", "work", "finish", "release", "done"}

Init ==
  /\ enabled = [j \in Job |-> TRUE]
  /\ row = [r \in Run |-> "none"]
  /\ runLeft = [r \in Run |-> 0]
  /\ queue = <<>>
  /\ holder = [j \in Job |-> Nobody]
  /\ leaseLeft = [j \in Job |-> 0]
  /\ at = [r \in Run |-> "none"]
  /\ proc = [r \in Run |-> NoProcess]
  /\ outcome = [r \in Run |-> "succeeded"]
  /\ lost = {} /\ overlapped = {} /\ down = {} /\ changes = 0

-----------------------------------------------------------------------------
(* The two leases *)

\* A process claims for its scheduled runs under one INSTANCE_ID, a manual run
\* under its own runner id.
OwnerId(r) == IF r \in Manual THEN r ELSE proc[r]

Recorded(r) == row[r] # "none"

\* runReservationOwned
Live(r) == row[r] = "running" /\ runLeft[r] > 0

ClaimableOnlyReleased(j) == holder[j] = Nobody

\* claimJobLease's condition on the row that is there.
Claimable(j) == holder[j] = Nobody \/ leaseLeft[j] = 0

OwnsRow(r) ==
  LET j == JobOf[r] IN holder[j] # Nobody /\ OwnerId(holder[j]) = OwnerId(r)

\* ownsJobLease
OwnsLease(r) == OwnsRow(r) /\ leaseLeft[JobOf[r]] > 0

\* assertJobExecutionOwned inside the handler; a run without a row has no
\* reservation, and nothing is asserted of it.
Owned(r) == Recorded(r) => Live(r) /\ OwnsLease(r)

ClaimLease(r, ticks) ==
  /\ holder' = [holder EXCEPT ![JobOf[r]] = r]
  /\ leaseLeft' = [leaseLeft EXCEPT ![JobOf[r]] = ticks]

-----------------------------------------------------------------------------
(* Asking for a manual run, and dispatching it *)

\* enqueueManualJobRun, under the job's advisory lock.
Enqueue(r) ==
  /\ r \in Manual /\ row[r] = "none" /\ enabled[JobOf[r]]
  /\ ~ \E m \in Manual : JobOf[m] = JobOf[r] /\ row[m] \in {"queued", "running"}
  /\ row' = [row EXCEPT ![r] = "queued"]
  /\ queue' = Append(queue, r)
  /\ UNCHANGED <<runLeft, leaseVars, execVars, envVars>>

\* A process's worker runs one manual run at a time, and does nothing else
\* meanwhile.
Busy(p) == \E m \in Manual : proc[m] = p /\ at[m] # "done"

StillQueued(i) == queue
Dequeued(i) == SubSeq(queue, 1, i - 1) \o SubSeq(queue, i + 1, Len(queue))

\* dispatchOneManualRun takes the oldest queued row another dispatcher has not
\* locked, and leaves it when its job is disabled or leased.
Dispatch(p, i) ==
  /\ p \notin down /\ ~ Busy(p)
  /\ i \in 1 .. Len(queue) /\ i <= Cardinality(Process \ down)
  /\ LET r == queue[i]
     IN  /\ enabled[JobOf[r]] /\ Claimable(JobOf[r])
         /\ ClaimLease(r, RunLease)
         /\ row' = [row EXCEPT ![r] = "running"]
         /\ runLeft' = [runLeft EXCEPT ![r] = RunLease]
         /\ at' = [at EXCEPT ![r] = "authorise"]
         /\ proc' = [proc EXCEPT ![r] = p]
  /\ queue' = Dequeued(i)
  /\ UNCHANGED <<outcome, lost, overlapped, envVars>>

\* Rows that are over have no lease.
Record(states) ==
  /\ row' = states
  /\ runLeft' = [r \in Run |-> IF states[r] \in Terminal THEN 0 ELSE runLeft[r]]

\* The handler ends: a scheduled run gives up the job lease and then records
\* its outcome, a manual run records first.
End(r, how) ==
  /\ outcome' = [outcome EXCEPT ![r] = how]
  /\ at' = [at EXCEPT ![r] = IF r \in Manual THEN "finish" ELSE "release"]

\* startClaimedManualRun: the actor may have lost the right to run jobs, and a
\* process may have no such handler.
Authorise(r) ==
  /\ at[r] = "authorise"
  /\ \/ at' = [at EXCEPT ![r] = "check"] /\ UNCHANGED <<row, runLeft, outcome>>
     \/ End(r, "failed") /\ UNCHANGED <<row, runLeft>>
     \/ /\ Record([row EXCEPT ![r] = IF Live(r) THEN "failed" ELSE @])
        /\ at' = [at EXCEPT ![r] = "release"]
        /\ UNCHANGED outcome
  /\ UNCHANGED <<queue, leaseVars, proc, lost, overlapped, envVars>>

-----------------------------------------------------------------------------
(* Scheduled runs *)

\* A cron tick, which looks at its process's copy of the configuration only:
\* it may be older than enabled, and nothing stops a tick while the run of an
\* earlier one goes on. A row that cannot be inserted does not stop the job.
Schedule(r, p) ==
  /\ r \notin Manual /\ at[r] = "none" /\ p \notin down
  /\ \/ /\ row' = [row EXCEPT ![r] = "running"]
        /\ runLeft' = [runLeft EXCEPT ![r] = RunLease]
     \/ UNCHANGED <<row, runLeft>>
  /\ at' = [at EXCEPT ![r] = "entry"]
  /\ proc' = [proc EXCEPT ![r] = p]
  /\ UNCHANGED <<queue, leaseVars, outcome, lost, overlapped, envVars>>

\* The check of the run's row before the handler, and withJobLease; a job
\* leased elsewhere is a run with nothing to do. (A row that expires between
\* the two is as one that expires after them.)
TakeLease(r) ==
  /\ at[r] = "entry"
  /\ \/ /\ Recorded(r) /\ ~ Live(r)
        /\ at' = [at EXCEPT ![r] = "finish"]
        /\ outcome' = [outcome EXCEPT ![r] = "lease_lost"]
        /\ UNCHANGED leaseVars
     \/ /\ Recorded(r) => Live(r)
        /\ IF Claimable(JobOf[r])
           THEN ClaimLease(r, JobLease) /\ at' = [at EXCEPT ![r] = "check"]
           ELSE at' = [at EXCEPT ![r] = "finish"] /\ UNCHANGED leaseVars
        /\ UNCHANGED outcome
  /\ UNCHANGED <<rowVars, proc, lost, overlapped, envVars>>

-----------------------------------------------------------------------------
(* Work under the lease *)

DuringManual(r) ==
  {m \in Manual \ {r} : JobOf[m] = JobOf[r] /\ at[m] \in {"authorise", "check", "work", "finish"}}

\* The check at a work boundary, and the unit of work it admits.
Begin(r) ==
  /\ at[r] = "check" /\ Owned(r)
  /\ at' = [at EXCEPT ![r] = "work"]
  /\ overlapped' = IF Recorded(r) THEN overlapped \cup DuringManual(r) ELSE overlapped
  /\ UNCHANGED <<rowVars, leaseVars, proc, outcome, lost, envVars>>

Stop(r) ==
  /\ at[r] = "check" /\ ~ Owned(r)
  /\ End(r, "lease_lost")
  /\ UNCHANGED <<rowVars, leaseVars, proc, lost, overlapped, envVars>>

GoOn(r) ==
  /\ at[r] = "work"
  /\ at' = [at EXCEPT ![r] = "check"]
  /\ UNCHANGED <<rowVars, leaseVars, proc, outcome, lost, overlapped, envVars>>

Complete(r) ==
  /\ at[r] = "work"
  /\ \E how \in {"succeeded", "failed"} : End(r, how)
  /\ UNCHANGED <<rowVars, leaseVars, proc, lost, overlapped, envVars>>

-----------------------------------------------------------------------------
(* The end of a run *)

UnfencedOutcome(r) == IF Recorded(r) /\ r \notin lost THEN outcome[r] ELSE row[r]

\* finishRun is fenced by the run's lease, markRunLeaseLost by its runner only.
RecordedOutcome(r) ==
  IF outcome[r] = "lease_lost"
  THEN IF row[r] = "running" THEN "lease_lost" ELSE row[r]
  ELSE IF r \notin lost /\ Live(r) THEN outcome[r] ELSE row[r]

\* Executions that are over, and their local variables with them.
Return(over) ==
  /\ at' = [r \in Run |-> IF r \in over THEN "done" ELSE at[r]]
  /\ outcome' = [r \in Run |-> IF r \in over THEN "succeeded" ELSE outcome[r]]
  /\ lost' = lost \ over

\* A statement that fails leaves the row to markExpiredRunsLeaseLost.
Finish(r) ==
  /\ at[r] = "finish"
  /\ \/ Record([row EXCEPT ![r] = RecordedOutcome(r)])
     \/ UNCHANGED <<row, runLeft>>
  /\ IF r \in Manual THEN at' = [at EXCEPT ![r] = "release"] /\ UNCHANGED <<outcome, lost>>
                     ELSE Return({r})
  /\ UNCHANGED <<queue, leaseVars, proc, overlapped, envVars>>

\* releaseJobLease deletes the row of its owner; it may fail, which is logged.
Release(r) ==
  /\ at[r] = "release"
  /\ \/ /\ OwnsRow(r)
        /\ holder' = [holder EXCEPT ![JobOf[r]] = Nobody]
        /\ leaseLeft' = [leaseLeft EXCEPT ![JobOf[r]] = 0]
     \/ UNCHANGED leaseVars
  /\ IF r \in Manual THEN Return({r})
                     ELSE at' = [at EXCEPT ![r] = "finish"] /\ UNCHANGED <<outcome, lost>>
  /\ UNCHANGED <<rowVars, proc, overlapped, envVars>>

-----------------------------------------------------------------------------
(* Heartbeats, expiry, time, and what happens around runs *)

Beating(r) ==
  /\ Recorded(r) /\ at[r] \notin {"none", "done"}
  /\ ~ (r \in Manual /\ at[r] = "release")

NotRenewed(r) == leaseLeft

\* What a heartbeat makes of the job lease: a manual run's is renewed with its
\* row, a scheduled run's is not.
Renewed(r) ==
  IF r \in Manual /\ OwnsLease(r) THEN [leaseLeft EXCEPT ![JobOf[r]] = RunLease] ELSE leaseLeft

\* heartbeatRun, one transaction; an answer of false sets ownershipLost.
Heartbeat(r) ==
  /\ Beating(r)
  /\ IF Live(r)
     THEN /\ runLeft' = [runLeft EXCEPT ![r] = RunLease]
          /\ leaseLeft' = Renewed(r)
          /\ lost' = IF r \in Manual /\ ~ OwnsLease(r) THEN lost \cup {r} ELSE lost
     ELSE lost' = lost \cup {r} /\ UNCHANGED <<runLeft, leaseLeft>>
  /\ UNCHANGED <<row, queue, holder, at, proc, outcome, overlapped, envVars>>

HeartbeatFails(r) ==
  /\ Beating(r) /\ lost' = lost \cup {r}
  /\ UNCHANGED <<rowVars, leaseVars, at, proc, outcome, overlapped, envVars>>

\* markExpiredRunsLeaseLost, by the worker of a process without a manual run.
MarkExpired(p) ==
  /\ p \notin down /\ ~ Busy(p)
  /\ \E r \in Run : row[r] = "running" /\ runLeft[r] = 0
  /\ Record([r \in Run |-> IF row[r] = "running" /\ runLeft[r] = 0 THEN "lease_lost" ELSE row[r]])
  /\ UNCHANGED <<queue, leaseVars, execVars, envVars>>

\* writeJobConfiguration
Configure(j) ==
  /\ changes < MaxChanges
  /\ changes' = changes + 1
  /\ enabled' = [enabled EXCEPT ![j] = ~ @]
  /\ UNCHANGED <<down, rowVars, leaseVars, execVars>>

\* A process dies with the runs it executes; one is always left.
Crash(p) ==
  /\ p \notin down /\ Cardinality(down) < MaxCrashes /\ down \cup {p} # Process
  /\ down' = down \cup {p}
  /\ Return({r \in Run : proc[r] = p})
  /\ UNCHANGED <<enabled, changes, rowVars, leaseVars, proc, overlapped>>

Tick ==
  /\ (\E r \in Run : runLeft[r] > 0) \/ (\E j \in Job : leaseLeft[j] > 0)
  /\ runLeft' = [r \in Run |-> IF runLeft[r] = 0 THEN 0 ELSE runLeft[r] - 1]
  /\ leaseLeft' = [j \in Job |-> IF leaseLeft[j] = 0 THEN 0 ELSE leaseLeft[j] - 1]
  /\ UNCHANGED <<row, queue, holder, execVars, envVars>>

-----------------------------------------------------------------------------

Step(r) ==
  \/ Authorise(r) \/ TakeLease(r) \/ Begin(r) \/ Stop(r) \/ GoOn(r)
  \/ Complete(r) \/ Finish(r) \/ Release(r)

Next ==
  \/ \E r \in Run :
       \/ Enqueue(r) \/ Step(r) \/ Heartbeat(r) \/ HeartbeatFails(r)
       \/ \E p \in Process : Schedule(r, p)
  \/ \E p \in Process :
       \/ MarkExpired(p) \/ Crash(p)
       \/ \E i \in 1 .. Len(queue) : Dispatch(p, i)
  \/ \E j \in Job : Configure(j)
  \/ Tick

Spec == Init /\ [][Next]_vars

\* Time passes, handlers work through a bounded batch to its end, and the
\* workers of the processes that are up poll every second. Nothing is assumed of
\* cron, heartbeats, administrators or crashes.
Fairness ==
  /\ WF_vars(Tick)
  /\ \A r \in Run : WF_vars(Step(r)) /\ SF_vars(Complete(r))
  /\ WF_vars(\E p \in Process : MarkExpired(p))
  /\ WF_vars(\E p \in Process : \E i \in 1 .. Len(queue) : Dispatch(p, i))

FairSpec == Spec /\ Fairness

-----------------------------------------------------------------------------
(* Properties *)

\* Types, and how the tables and executions agree: the queue holds the queued
\* rows, each once, and they are manual; a run with a process was started; the
\* lease of a job is held by a run of that job that was started.
TypeOK ==
  /\ enabled \in [Job -> BOOLEAN]
  /\ row \in [Run -> Terminal \cup {"none", "queued", "running"}]
  /\ runLeft \in [Run -> 0 .. RunLease]
  /\ leaseLeft \in [Job -> 0 .. RunLease] \/ leaseLeft \in [Job -> 0 .. JobLease]
  /\ holder \in [Job -> Run \cup {Nobody}]
  /\ at \in [Run -> Labels] /\ proc \in [Run -> Process \cup {NoProcess}]
  /\ outcome \in [Run -> Terminal]
  /\ lost \subseteq Run /\ overlapped \subseteq Manual /\ down \subseteq Process
  /\ changes \in 0 .. MaxChanges
  /\ {queue[i] : i \in DOMAIN queue} = {r \in Manual : row[r] = "queued"}
  /\ Len(queue) = Cardinality({r \in Run : row[r] = "queued"})
  /\ \A r \in Run : at[r] = "none" <=> proc[r] = NoProcess
  /\ \A j \in Job : holder[j] # Nobody => JobOf[holder[j]] = j /\ at[holder[j]] # "none"

\* The history of a run is final: no late answer, sweep, heartbeat or second
\* process changes a run that is over (finishRun, markExpiredRunsLeaseLost).
OutcomeIsFinal ==
  [][\A r \in Run : row[r] \in Terminal => row'[r] = row[r]]_vars

\* A manual run recorded as succeeded had the job for itself from its dispatch
\* to its end: no recorded run of the job passed a check meanwhile, although
\* finishRun looks at the run's lease and never at the job's.
ManualSuccessIsExclusive ==
  \A r \in Manual : row[r] = "succeeded" => r \notin overlapped

\* Every run that is queued or running is recorded as over in the end, whatever
\* dies; only a queued one may be kept by a disabled job, its own or that of a
\* run queued before it.
EventuallySettled ==
  \A r \in Run :
    row[r] \in {"queued", "running"} ~>
      (row[r] \in Terminal \/ (row[r] = "queued" /\ \E j \in Job : ~ enabled[j]))

=============================================================================
