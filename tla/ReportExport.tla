----------------------------- MODULE ReportExport -----------------------------
(***************************************************************************)
(* Report exports (report/export.service.ts, report/export-notify.ts,      *)
(* scheduler/report-jobs.ts): a request queues an export, a run of the job *)
(* claims what is queued, renders one after the other in a transaction     *)
(* each, mails the requester, and then expires, fails and cleans up what   *)
(* is old. Runs of two replicas can overlap, when one has lost its job     *)
(* lease without knowing it.                                               *)
(***************************************************************************)
EXTENDS Naturals, FiniteSets

CONSTANTS
  Export, Worker,
  NoExport,
  MaxActive,     \* EXPORT_MAX_ACTIVE_PER_PERSON; the exports are one person's
  StaleRunning,  \* EXPORT_STALE_RUNNING_MINUTES, in ticks
  Ttl,           \* EXPORT_TTL_HOURS, in ticks
  NotifyLease,   \* exportNotifyLease, in ticks
  Prompt,        \* mails are sent or given up within the lease of their claim
  MaxBreaks      \* bound on runs that die, throw or lose their job lease

ASSUME ExportAssumption ==
  /\ NoExport \notin Export
  /\ MaxActive \in Nat \ {0}
  /\ StaleRunning \in Nat \ {0} /\ Ttl \in Nat \ {0} /\ NotifyLease \in Nat \ {0}
  /\ Prompt \in BOOLEAN /\ MaxBreaks \in Nat

VARIABLES
  status,     \* Export -> report_export.status, "none" without a row
  stored,     \* the exports with report_export_chunk rows
  left,       \* Export -> ticks until it is stale (running) or expires (ready)
  notified,   \* the exports with notified_at
  claimLeft,  \* Export -> ticks until notify_claimed_at is free again
  pc, job,    \* Worker -> position, export in work
  batch,      \* Worker -> the claimed exports still to render
  owed,       \* Worker -> exportsAwaitingEmail still to mail
  overdue,    \* Worker -> rows past their time when the run began (its now)
  breaks

rowVars == <<status, stored, left>>
mailVars == <<notified, claimLeft>>
workVars == <<pc, job, batch, owed, overdue>>
vars == <<rowVars, mailVars, workVars, breaks>>

Ended == {"failed", "expired"}
Positions == {"idle", "batch", "render", "fail", "mail", "authorize", "send",
              "decide", "release", "expire", "lose", "drop"}

Init ==
  /\ status = [x \in Export |-> "none"]
  /\ stored = {}
  /\ left = [x \in Export |-> 0]
  /\ notified = {}
  /\ claimLeft = [x \in Export |-> 0]
  /\ pc = [w \in Worker |-> "idle"]
  /\ job = [w \in Worker |-> NoExport]
  /\ batch = [w \in Worker |-> {}]
  /\ owed = [w \in Worker |-> {}]
  /\ overdue = [w \in Worker |-> {}]
  /\ breaks = 0

With(s) == {x \in Export : status[x] = s}

-----------------------------------------------------------------------------
(* The request *)

Active == With("queued") \cup With("running")

\* enqueueExport: counted and inserted under the person's advisory lock.
Enqueue(x) ==
  /\ status[x] = "none"
  /\ Cardinality(Active) < MaxActive
  /\ status' = [status EXCEPT ![x] = "queued"]
  /\ UNCHANGED <<stored, left, mailVars, workVars, breaks>>

-----------------------------------------------------------------------------
(* A run of the job *)

Goto(w, label) == pc' = [pc EXCEPT ![w] = label]

OverdueReady == {x \in Export : status[x] = "ready" /\ left[x] = 0}

Overdue == {x \in Export : status[x] \in {"running", "ready"} /\ left[x] = 0}

QueuedOrStale == With("queued") \cup {x \in With("running") : left[x] = 0}

Claimable == With("queued")

\* claimExports; the oldest five, which is all of them here.
Claim(w) ==
  /\ pc[w] = "idle"
  /\ batch' = [batch EXCEPT ![w] = Claimable]
  /\ overdue' = [overdue EXCEPT ![w] = Overdue]
  /\ status' = [x \in Export |-> IF x \in Claimable THEN "running" ELSE status[x]]
  /\ left' = [x \in Export |-> IF x \in Claimable THEN StaleRunning ELSE left[x]]
  /\ Goto(w, "batch")
  /\ UNCHANGED <<stored, mailVars, job, owed, breaks>>

\* processExport before its transaction: feature, requester, rights and query
\* are looked at again, whatever has become of the row.
Take(w) ==
  /\ pc[w] = "batch"
  /\ \E x \in batch[w] :
       /\ job' = [job EXCEPT ![w] = x]
       /\ batch' = [batch EXCEPT ![w] = @ \ {x}]
  /\ \E label \in {"render", "fail"} : Goto(w, label)
  /\ UNCHANGED <<rowVars, mailVars, owed, overdue, breaks>>

FinishesAnyway(x) == TRUE

MayFinish(x) == status[x] = "running"

\* The end of the transaction: chunks and ready commit together, and only for a
\* row that still runs. (At repeatable read, a row changed since is an error.)
Commit(w) ==
  /\ pc[w] = "render" /\ MayFinish(job[w])
  /\ status' = [status EXCEPT ![job[w]] = "ready"]
  /\ stored' = stored \cup {job[w]}
  /\ left' = [left EXCEPT ![job[w]] = Ttl]
  /\ \/ Goto(w, "mail") /\ UNCHANGED breaks
     \/ Goto(w, "fail") /\ breaks < MaxBreaks /\ breaks' = breaks + 1  \* its answer is lost
  /\ UNCHANGED <<mailVars, job, batch, owed, overdue>>

\* Too large, an error, or no longer running: rolled back.
Rollback(w) ==
  /\ pc[w] = "render"
  /\ Goto(w, "fail")
  /\ UNCHANGED <<rowVars, mailVars, job, batch, owed, overdue, breaks>>

FailKeepingChunks(w) ==
  /\ pc[w] = "fail"
  /\ status' = [status EXCEPT ![job[w]] = "failed"]
  /\ Goto(w, "batch")
  /\ UNCHANGED <<stored, left, mailVars, job, batch, owed, overdue, breaks>>

\* failExport, whatever the status is.
Fail(w) ==
  /\ pc[w] = "fail"
  /\ status' = [status EXCEPT ![job[w]] = "failed"]
  /\ stored' = stored \ {job[w]}
  /\ Goto(w, "batch")
  /\ UNCHANGED <<left, mailVars, job, batch, owed, overdue, breaks>>

ClaimFreeAlways(x) == TRUE

ClaimFree(x) == claimLeft[x] = 0

Owed(x) == status[x] = "ready" /\ left[x] > 0 /\ x \notin notified /\ ClaimFree(x)

\* The batch is rendered: exportsAwaitingEmail.
ReadOwed(w) ==
  /\ pc[w] = "batch" /\ batch[w] = {} /\ owed[w] = {}
  /\ owed' = [owed EXCEPT ![w] = {x \in Export : Owed(x)}]
  /\ Goto(w, IF owed'[w] = {} THEN "expire" ELSE "mail")
  /\ job' = [job EXCEPT ![w] = NoExport]
  /\ UNCHANGED <<rowVars, mailVars, batch, overdue, breaks>>

-----------------------------------------------------------------------------
(* The mail: notifyExportReady *)

\* After a mail the loop it came from goes on.
Mailed(w) ==
  /\ owed' = [owed EXCEPT ![w] = @ \ {job[w]}]
  /\ Goto(w, IF owed[w] = {} THEN "batch" ELSE IF owed'[w] = {} THEN "expire" ELSE "mail")

\* The owed mails are taken one after the other.
NextOwed(w) ==
  /\ pc[w] = "mail" /\ owed[w] # {} /\ job[w] \notin owed[w]
  /\ \E x \in owed[w] : job' = [job EXCEPT ![w] = x]
  /\ UNCHANGED <<rowVars, mailVars, pc, batch, owed, overdue, breaks>>

\* The claim; channel, preference and address decide if there is anything to send.
ClaimMail(w) ==
  /\ pc[w] = "mail" /\ (owed[w] = {} \/ job[w] \in owed[w])
  /\ IF Owed(job[w])
     THEN /\ claimLeft' = [claimLeft EXCEPT ![job[w]] = NotifyLease]
          /\ \E label \in {"authorize", "decide"} : Goto(w, label)
          /\ UNCHANGED owed
     ELSE Mailed(w) /\ UNCHANGED claimLeft
  /\ UNCHANGED <<rowVars, notified, job, batch, overdue, breaks>>

\* stillReady, called by the mailer; refusing is a decided outcome.
Authorize(w) ==
  /\ pc[w] = "authorize"
  /\ Goto(w, IF status[job[w]] = "ready" /\ left[job[w]] > 0 THEN "send" ELSE "decide")
  /\ UNCHANGED <<rowVars, mailVars, job, batch, owed, overdue, breaks>>

\* The mail server answers, or the transport fails.
Send(w) ==
  /\ pc[w] = "send"
  /\ \E label \in {"decide", "release"} : Goto(w, label)
  /\ UNCHANGED <<rowVars, mailVars, job, batch, owed, overdue, breaks>>

\* markDecided, whoever holds the claim by now.
Decide(w) ==
  /\ pc[w] = "decide"
  /\ notified' = notified \cup {job[w]}
  /\ claimLeft' = [claimLeft EXCEPT ![job[w]] = 0]
  /\ Mailed(w)
  /\ UNCHANGED <<rowVars, job, batch, overdue, breaks>>

\* The claim is given up, whoever holds it by now.
ReleaseMail(w) ==
  /\ pc[w] = "release"
  /\ claimLeft' = [claimLeft EXCEPT ![job[w]] = IF job[w] \in notified THEN @ ELSE 0]
  /\ Mailed(w)
  /\ UNCHANGED <<rowVars, notified, job, batch, overdue, breaks>>

-----------------------------------------------------------------------------
(* The end of the run: expireExports, statement by statement *)

ExpireReady(w) ==
  /\ pc[w] = "expire"
  /\ status' = [x \in Export |->
       IF x \in overdue[w] \cap Overdue /\ status[x] = "ready" THEN "expired" ELSE status[x]]
  /\ Goto(w, "lose")
  /\ UNCHANGED <<stored, left, mailVars, job, batch, owed, overdue, breaks>>

\* worker_lost
LoseRunning(w) ==
  /\ pc[w] = "lose"
  /\ status' = [x \in Export |->
       IF x \in overdue[w] \cap Overdue /\ status[x] = "running" THEN "failed" ELSE status[x]]
  /\ overdue' = [overdue EXCEPT ![w] = {}]
  /\ Goto(w, "drop")
  /\ UNCHANGED <<stored, left, mailVars, job, batch, owed, breaks>>

\* (Rows are deleted after two weeks; the model ends before.)
DropFiles(w) ==
  /\ pc[w] = "drop"
  /\ stored' = {x \in stored : status[x] \notin Ended}
  /\ Goto(w, "idle")
  /\ UNCHANGED <<status, left, mailVars, job, batch, owed, overdue, breaks>>

\* The process dies, a statement throws, or assertJobExecutionOwned does: what
\* is left of the run is dropped.
Break(w) ==
  /\ pc[w] # "idle" /\ breaks < MaxBreaks
  /\ breaks' = breaks + 1
  /\ Goto(w, "idle")
  /\ job' = [job EXCEPT ![w] = NoExport]
  /\ batch' = [batch EXCEPT ![w] = {}]
  /\ owed' = [owed EXCEPT ![w] = {}]
  /\ overdue' = [overdue EXCEPT ![w] = {}]
  /\ UNCHANGED <<rowVars, mailVars>>

-----------------------------------------------------------------------------

\* A claim on a mail, and a worker that mails under it.
Mailing == {"authorize", "send", "decide", "release"}

OnTime == \A w \in Worker : pc[w] \in Mailing => claimLeft[job[w]] > 1

Down(f) == [x \in Export |-> IF f[x] = 0 THEN 0 ELSE f[x] - 1]

Tick ==
  /\ Prompt => OnTime
  /\ \E x \in Export : left[x] > 0 \/ claimLeft[x] > 0
  /\ left' = Down(left) /\ claimLeft' = Down(claimLeft)
  /\ UNCHANGED <<status, stored, notified, workVars, breaks>>

Step(w) ==
  \/ Claim(w) \/ Take(w) \/ Commit(w) \/ Rollback(w) \/ Fail(w) \/ ReadOwed(w)
  \/ NextOwed(w) \/ ClaimMail(w) \/ Authorize(w) \/ Send(w)
  \/ Decide(w) \/ ReleaseMail(w)
  \/ ExpireReady(w) \/ LoseRunning(w) \/ DropFiles(w)

Next ==
  \/ \E x \in Export : Enqueue(x)
  \/ \E w \in Worker : Step(w) \/ Break(w)
  \/ Tick

Spec == Init /\ [][Next]_vars

\* The job is polled every minute and a run goes on; the clock advances.
FairSpec == Spec /\ WF_vars(Tick) /\ \A w \in Worker : WF_vars(Step(w))

-----------------------------------------------------------------------------
(* Properties *)

InHand(w) == batch[w] \cup IF pc[w] \in {"render", "fail"} THEN {job[w]} ELSE {}

\* Types, the limit of a person, and that an export is in the hands of one
\* worker, which it was claimed by, until it is rendered.
TypeOK ==
  /\ status \in [Export -> Ended \cup {"none", "queued", "running", "ready"}]
  /\ stored \subseteq Export
  /\ left \in [Export -> Nat] /\ claimLeft \in [Export -> 0 .. NotifyLease]
  /\ notified \subseteq Export
  /\ pc \in [Worker -> Positions] /\ job \in [Worker -> Export \cup {NoExport}]
  /\ batch \in [Worker -> SUBSET Export] /\ owed \in [Worker -> SUBSET Export]
  /\ overdue \in [Worker -> SUBSET Export]
  /\ breaks \in 0 .. MaxBreaks
  /\ Cardinality(Active) <= MaxActive
  /\ \A w \in Worker : pc[w] \in Mailing \cup {"render", "fail"} => job[w] \in Export
  /\ \A w, v \in Worker : w # v => InHand(w) \cap InHand(v) = {}

\* An export is ready with its whole file or not at all, and no file outlives
\* its export but the one an expiry is just dropping.
ReadyIsWhole ==
  \A x \in Export :
    /\ status[x] = "ready" => x \in stored
    /\ x \in stored => status[x] \in {"ready", "expired"}

\* An export that has ended never comes back: a worker that was given up while
\* it rendered makes no failed or expired export ready, or run again.
NeverReadyAgain ==
  [][\A x \in Export : status[x] \in Ended =>
       status'[x] \in Ended]_vars

\* "Two workers or a re-run never send concurrently" (export-notify.ts:90), and
\* nobody sends what has been decided, when no mail outlasts its claim.
OneSender ==
  \A w \in Worker :
    pc[w] \in Mailing =>
      /\ \A v \in Worker : pc[v] \in Mailing /\ job[w] = job[v] => w = v
      /\ job[w] \notin notified

\* A queued export is rendered or failed, and in the end expires, whatever breaks.
ExportsEnd ==
  \A x \in Export : status[x] = "queued" ~> status[x] \in Ended

=============================================================================
