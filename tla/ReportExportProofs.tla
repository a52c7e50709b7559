-------------------------- MODULE ReportExportProofs --------------------------
(* Types and safety of ReportExport: whole files, final ends, one sender, and  *)
(* when an export given up as lost is one whose run broke.                     *)
EXTENDS ReportExport, TLAPS, FiniteSetTheorems

\* The conjuncts of TypeOK, by what they speak of.
RowsTyped ==
  /\ status \in [Export -> Ended \cup {"none", "queued", "running", "ready"}]
  /\ stored \subseteq Export /\ left \in [Export -> Nat]

MailsTyped == notified \subseteq Export /\ claimLeft \in [Export -> 0 .. NotifyLease]

WorkersTyped ==
  /\ pc \in [Worker -> Positions] /\ job \in [Worker -> Export \cup {NoExport}]
  /\ batch \in [Worker -> SUBSET Export] /\ owed \in [Worker -> SUBSET Export]
  /\ overdue \in [Worker -> SUBSET Export]

BreaksTyped == breaks \in 0 .. MaxBreaks

Typed == RowsTyped /\ MailsTyped /\ WorkersTyped /\ BreaksTyped

WithinLimit == IsFiniteSet(Active) /\ Cardinality(Active) <= MaxActive

\* A worker that is about to mail has an export to mail.
JobsKnown ==
  \A w \in Worker :
    /\ pc[w] \in Mailing \cup {"render", "fail"} => job[w] \in Export
    /\ pc[w] = "mail" => job[w] \in Export \/ owed[w] # {}

Apart == \A w, v \in Worker : w # v => InHand(w) \cap InHand(v) = {}

\* What is in a worker's hands can be claimed by no other.
HandsClaimed == \A w \in Worker : \A x \in InHand(w) : status[x] \notin {"none", "queued"}

Hands == JobsKnown /\ Apart /\ HandsClaimed

\* A sender works under a claim that is still good, which keeps others away.
Mails == OneSender /\ \A w \in Worker : pc[w] \in Mailing => claimLeft[job[w]] > 0

IInv == Typed /\ WithinLimit /\ Hands /\ ReadyIsWhole /\ (Prompt => Mails)

\* What NeverReadyAgain says of a step.
EndedStay == \A x \in Export : status[x] \in Ended => status'[x] \in Ended

\* The invariant gives TypeOK.
LEMMA InvTyped == IInv => TypeOK
BY DEF IInv, TypeOK, Typed, RowsTyped, MailsTyped, WorkersTyped, BreaksTyped, WithinLimit, Hands,
       JobsKnown, Apart

\* A step that queues nothing keeps a person within the limit.
LEMMA NothingQueued ==
  ASSUME ExportAssumption, WithinLimit, Active' \subseteq Active
  PROVE  WithinLimit'
<1>1. Active' \in SUBSET Active
  OBVIOUS
<1>2. IsFiniteSet(Active') /\ Cardinality(Active') <= Cardinality(Active)
  BY <1>1, FS_Subset, Zenon DEF WithinLimit
<1>3. Cardinality(Active) \in Nat /\ Cardinality(Active') \in Nat /\ MaxActive \in Nat
  BY <1>2, FS_CardinalityType DEF WithinLimit, ExportAssumption
<1> QED
  BY <1>2, <1>3 DEF WithinLimit

-----------------------------------------------------------------------------

\* No export, no worker at work.
LEMMA Initially ==
  ASSUME ExportAssumption, Init
  PROVE  IInv
<1>1. Typed
  BY DEF Init, Typed, RowsTyped, MailsTyped, WorkersTyped, BreaksTyped, ExportAssumption, Positions
<1>2. Active = {}
  BY DEF Init, Active, With
<1>3. WithinLimit
  BY <1>2, FS_EmptySet DEF WithinLimit, ExportAssumption
<1>4. Hands
  BY DEF Init, Hands, JobsKnown, Apart, HandsClaimed, InHand, Mailing
<1>5. ReadyIsWhole /\ Mails
  BY DEF Init, ReadyIsWhole, Mails, OneSender, Mailing
<1> QED
  BY <1>1, <1>3, <1>4, <1>5 DEF IInv

\* The request counts what is active before it adds one.
LEMMA EnqueueKeeps ==
  ASSUME ExportAssumption, IInv, NEW x \in Export, Enqueue(x)
  PROVE  IInv' /\ EndedStay
<1> USE DEF Enqueue, IInv
<1>1. Typed'
  BY DEF Typed, RowsTyped, MailsTyped, WorkersTyped, BreaksTyped, mailVars, workVars
<1>2. WithinLimit'
  <2>1. Active' = Active \cup {x} /\ x \notin Active
    BY DEF Active, With, Typed, RowsTyped
  <2>2. IsFiniteSet(Active') /\ Cardinality(Active') = Cardinality(Active) + 1
    BY <2>1, FS_AddElement, Zenon DEF WithinLimit
  <2> QED
    BY <2>2, FS_CardinalityType DEF WithinLimit, ExportAssumption
<1>3. Hands'
  BY DEF Hands, JobsKnown, Apart, HandsClaimed, InHand, workVars, Typed, RowsTyped
<1>4. ReadyIsWhole'
  BY DEF ReadyIsWhole, Typed, RowsTyped
<1>5. Mails => Mails'
  BY DEF Mails, OneSender, mailVars, workVars
<1> QED
  BY <1>1, <1>2, <1>3, <1>4, <1>5 DEF EndedStay, Ended, Typed, RowsTyped

\* A worker takes what is queued, and so what no other has in hand.
LEMMA ClaimKeeps ==
  ASSUME ExportAssumption, IInv, NEW w \in Worker, Claim(w)
  PROVE  IInv' /\ EndedStay
<1> USE DEF Claim, IInv, Goto, Claimable, With
<1>1. Typed'
  BY DEF Typed, RowsTyped, MailsTyped, WorkersTyped, BreaksTyped, mailVars, ExportAssumption,
         Positions, Overdue
<1>2. Active' \subseteq Active
  BY DEF Active, Typed, RowsTyped
<1>3. JobsKnown'
  BY DEF Hands, JobsKnown, Mailing, Typed, WorkersTyped
<1>4. \A v \in Worker : InHand(v)' = IF v = w THEN Claimable ELSE InHand(v)
  BY DEF InHand, Typed, WorkersTyped
<1>5. Apart' /\ HandsClaimed'
  <2>1. \A v \in Worker : \A x \in InHand(v) : x \in Export /\ x \notin Claimable
    BY DEF Hands, HandsClaimed, InHand, JobsKnown, Typed, WorkersTyped
  <2>2. \A v \in Worker : \A x \in InHand(v) : status'[x] = status[x]
    BY <2>1 DEF Typed, RowsTyped
  <2>3. \A x \in Claimable : status'[x] = "running"
    BY DEF Typed, RowsTyped
  <2>4. HandsClaimed'
    BY <1>4, <2>2, <2>3 DEF Hands, HandsClaimed
  <2>5. Apart'
    BY <1>4, <2>1 DEF Hands, Apart
  <2> QED
    BY <2>4, <2>5
<1>6. ReadyIsWhole'
  BY DEF ReadyIsWhole, Typed, RowsTyped
<1>7. Mails => Mails'
  BY DEF Mails, OneSender, Mailing, mailVars, Typed, WorkersTyped
<1>8. EndedStay
  BY DEF EndedStay, Ended, Typed, RowsTyped
<1> QED
  BY <1>1, <1>2, <1>3, <1>5, <1>6, <1>7, <1>8, NothingQueued DEF Hands

\* The export in work stays in hand.
LEMMA TakeKeeps ==
  ASSUME ExportAssumption, IInv, NEW w \in Worker, Take(w)
  PROVE  IInv' /\ EndedStay
<1> USE DEF Take, IInv, Goto
<1>0. PICK x \in batch[w] :
        /\ job' = [job EXCEPT ![w] = x] /\ batch' = [batch EXCEPT ![w] = @ \ {x}]
  OBVIOUS
<1>1. Typed'
  BY <1>0 DEF Typed, RowsTyped, MailsTyped, WorkersTyped, BreaksTyped, rowVars, mailVars, Positions
<1>2. Active' \subseteq Active
  BY DEF Active, With, rowVars
<1>3. JobsKnown'
  BY <1>0 DEF Hands, JobsKnown, Mailing, Typed, WorkersTyped
<1>4. \A v \in Worker : InHand(v)' = InHand(v)
  BY <1>0 DEF InHand, Typed, WorkersTyped
<1>5. Apart' /\ HandsClaimed'
  BY <1>4 DEF Hands, Apart, HandsClaimed, rowVars
<1>6. ReadyIsWhole' /\ EndedStay
  BY DEF ReadyIsWhole, EndedStay, rowVars
<1>7. Mails => Mails'
  BY <1>0 DEF Mails, OneSender, Mailing, mailVars, Typed, WorkersTyped
<1> QED
  BY <1>1, <1>2, <1>3, <1>5, <1>6, <1>7, NothingQueued DEF Hands

\* A file and its row become visible together, and only for a row that runs.
LEMMA CommitKeeps ==
  ASSUME ExportAssumption, IInv, NEW w \in Worker, Commit(w)
  PROVE  IInv' /\ EndedStay
<1> USE DEF Commit, IInv, Goto, MayFinish
<1>0. job[w] \in Export
  BY DEF Hands, JobsKnown
<1>1. Typed'
  BY <1>0 DEF Typed, RowsTyped, MailsTyped, WorkersTyped, BreaksTyped, mailVars, Positions,
              ExportAssumption
<1>2. Active' \subseteq Active
  BY DEF Active, With, Typed, RowsTyped
<1>3. JobsKnown'
  BY <1>0 DEF Hands, JobsKnown, Mailing, Typed, WorkersTyped
<1>4. \A v \in Worker : InHand(v)' \subseteq InHand(v)
  BY DEF InHand, Typed, WorkersTyped
<1>5. Apart' /\ HandsClaimed'
  BY <1>4 DEF Hands, Apart, HandsClaimed, Typed, RowsTyped
<1>6. ReadyIsWhole' /\ EndedStay
  BY <1>0 DEF ReadyIsWhole, EndedStay, Ended, Typed, RowsTyped
<1>7. Mails => Mails'
  BY DEF Mails, OneSender, Mailing, mailVars, Typed, WorkersTyped
<1> QED
  BY <1>1, <1>2, <1>3, <1>5, <1>6, <1>7, NothingQueued DEF Hands

\* Nothing of a transaction that is rolled back stays.
LEMMA RollbackKeeps ==
  ASSUME ExportAssumption, IInv, NEW w \in Worker, Rollback(w)
  PROVE  IInv' /\ EndedStay
<1> USE DEF Rollback, IInv, Goto
<1>1. Typed'
  BY DEF Typed, RowsTyped, MailsTyped, WorkersTyped, BreaksTyped, rowVars, mailVars, Positions
<1>2. Active' \subseteq Active
  BY DEF Active, With, rowVars
<1>3. JobsKnown'
  BY DEF Hands, JobsKnown, Mailing, Typed, WorkersTyped
<1>4. \A v \in Worker : InHand(v)' = InHand(v)
  BY DEF InHand, Typed, WorkersTyped
<1>5. Apart' /\ HandsClaimed'
  BY <1>4 DEF Hands, Apart, HandsClaimed, rowVars
<1>6. ReadyIsWhole' /\ EndedStay
  BY DEF ReadyIsWhole, EndedStay, rowVars
<1>7. Mails => Mails'
  BY DEF Mails, OneSender, Mailing, mailVars, Typed, WorkersTyped
<1> QED
  BY <1>1, <1>2, <1>3, <1>5, <1>6, <1>7, NothingQueued DEF Hands

\* A failed export loses its file with its status, whatever that was.
LEMMA FailKeeps ==
  ASSUME ExportAssumption, IInv, NEW w \in Worker, Fail(w)
  PROVE  IInv' /\ EndedStay
<1> USE DEF Fail, IInv, Goto
<1>0. job[w] \in Export
  BY DEF Hands, JobsKnown
<1>1. Typed'
  BY DEF Typed, RowsTyped, MailsTyped, WorkersTyped, BreaksTyped, mailVars, Positions, Ended
<1>2. Active' \subseteq Active
  BY DEF Active, With, Typed, RowsTyped
<1>3. JobsKnown'
  BY DEF Hands, JobsKnown, Mailing, Typed, WorkersTyped
<1>4. \A v \in Worker : InHand(v)' \subseteq InHand(v)
  BY DEF InHand, Typed, WorkersTyped
<1>5. Apart' /\ HandsClaimed'
  BY <1>4 DEF Hands, Apart, HandsClaimed, Typed, RowsTyped
<1>6. ReadyIsWhole' /\ EndedStay
  BY <1>0 DEF ReadyIsWhole, EndedStay, Ended, Typed, RowsTyped
<1>7. Mails => Mails'
  BY DEF Mails, OneSender, Mailing, mailVars, Typed, WorkersTyped
<1> QED
  BY <1>1, <1>2, <1>3, <1>5, <1>6, <1>7, NothingQueued DEF Hands

-----------------------------------------------------------------------------
(* The mails, which change no row *)

\* What a step that leaves rows and hands alone keeps.
LEMMA RowsAlone ==
  ASSUME ExportAssumption, IInv, UNCHANGED rowVars,
         \A v \in Worker : InHand(v)' \subseteq InHand(v)
  PROVE  WithinLimit' /\ Apart' /\ HandsClaimed' /\ ReadyIsWhole' /\ EndedStay
<1>1. Active' \subseteq Active
  BY DEF Active, With, rowVars
<1>2. Apart' /\ HandsClaimed'
  BY DEF IInv, Hands, Apart, HandsClaimed, rowVars
<1>3. ReadyIsWhole' /\ EndedStay
  BY DEF IInv, ReadyIsWhole, EndedStay, rowVars
<1> QED
  BY <1>1, <1>2, <1>3, NothingQueued DEF IInv

\* Reading and choosing what is owed starts no mail.
LEMMA OwedKeeps ==
  ASSUME ExportAssumption, IInv, NEW w \in Worker, ReadOwed(w) \/ NextOwed(w)
  PROVE  IInv' /\ EndedStay
<1> USE DEF ReadOwed, NextOwed, IInv, Goto
<1>0. owed \in [Worker -> SUBSET Export] /\ owed' \in [Worker -> SUBSET Export]
  BY DEF Typed, WorkersTyped
<1>1. Typed'
  BY <1>0 DEF Typed, RowsTyped, MailsTyped, WorkersTyped, BreaksTyped, rowVars, mailVars, Positions
<1>2. JobsKnown'
  BY <1>0 DEF Hands, JobsKnown, Mailing, Typed, WorkersTyped
<1>3. \A v \in Worker : InHand(v)' \subseteq InHand(v)
  BY DEF InHand, Typed, WorkersTyped
<1>4. Mails => Mails'
  BY DEF Mails, OneSender, Mailing, mailVars, Typed, WorkersTyped
<1> QED
  BY <1>1, <1>2, <1>3, <1>4, RowsAlone DEF Hands

\* What a mail that is decided or given up leaves to do.
LEMMA AfterMail ==
  ASSUME IInv, NEW w \in Worker, Mailed(w), UNCHANGED <<job, batch, overdue>>, pc[w] \in Mailing \cup {"mail"}
  PROVE  /\ WorkersTyped' /\ pc'[w] \in {"batch", "expire", "mail"}
         /\ JobsKnown'
         /\ \A v \in Worker : InHand(v)' \subseteq InHand(v)
<1> USE DEF Mailed, Goto, IInv, Typed, WorkersTyped
<1>1. owed' \in [Worker -> SUBSET Export]
  OBVIOUS
<1>2. WorkersTyped' /\ pc'[w] \in {"batch", "expire", "mail"}
  BY <1>1 DEF Positions
<1>3. pc'[w] = "mail" => owed'[w] # {}
  OBVIOUS
<1>4. JobsKnown'
  BY <1>3 DEF Hands, JobsKnown, Mailing
<1>5. \A v \in Worker : InHand(v)' \subseteq InHand(v)
  BY DEF InHand
<1> QED
  BY <1>2, <1>4, <1>5

\* A mail is claimed only when its claim is free and nothing was decided.
LEMMA ClaimMailKeeps ==
  ASSUME ExportAssumption, IInv, NEW w \in Worker, ClaimMail(w)
  PROVE  IInv' /\ EndedStay
<1> USE DEF ClaimMail, IInv
<1>0. job[w] \in Export
  BY DEF Hands, JobsKnown, Typed, WorkersTyped
<1>1. CASE Owed(job[w])
  <2> USE <1>1 DEF Goto
  <2>1. Typed'
    BY DEF Typed, RowsTyped, MailsTyped, WorkersTyped, BreaksTyped, rowVars, Positions,
           ExportAssumption
  <2>2. JobsKnown'
    BY <1>0 DEF Hands, JobsKnown, Mailing, Typed, WorkersTyped
  <2>3. \A v \in Worker : InHand(v)' \subseteq InHand(v)
    BY DEF InHand, Typed, WorkersTyped
  <2>4. ASSUME Mails PROVE Mails'
    <3>1. \A v \in Worker : pc[v] \in Mailing => job[v] # job[w]
      BY <2>4 DEF Mails, Owed, ClaimFree
    <3>2. job[w] \notin notified /\ notified' = notified /\ job' = job
      BY DEF Owed
    <3>3. \A v \in Worker : v # w => pc'[v] = pc[v]
      BY DEF Typed, WorkersTyped
    <3>4. OneSender'
      BY <2>4, <3>1, <3>2, <3>3 DEF Mails, OneSender
    <3>5. \A v \in Worker : pc'[v] \in Mailing => claimLeft'[job'[v]] > 0
      BY <2>4, <1>0, <3>1, <3>2, <3>3 DEF Mails, Typed, MailsTyped, ExportAssumption, Hands, JobsKnown
    <3> QED
      BY <3>4, <3>5 DEF Mails
  <2> QED
    BY <2>1, <2>2, <2>3, <2>4, RowsAlone DEF Hands
<1>2. CASE ~ Owed(job[w])
  <2> USE <1>2
  <2>1. WorkersTyped' /\ pc'[w] \notin Mailing /\ JobsKnown'
        /\ \A v \in Worker : InHand(v)' \subseteq InHand(v)
    BY AfterMail DEF Mailing
  <2>2. Typed'
    BY <2>1 DEF Typed, RowsTyped, MailsTyped, BreaksTyped, rowVars
  <2>3. Mails => Mails'
    BY <2>1 DEF Mails, OneSender, Mailed, Goto, Typed, WorkersTyped
  <2> QED
    BY <2>1, <2>2, <2>3, RowsAlone DEF Hands
<1> QED
  BY <1>1, <1>2

\* A sender goes from one step of its mail to the next.
LEMMA SendKeeps ==
  ASSUME ExportAssumption, IInv, NEW w \in Worker, Authorize(w) \/ Send(w)
  PROVE  IInv' /\ EndedStay
<1> USE DEF Authorize, Send, IInv, Goto
<1>1. Typed'
  BY DEF Typed, RowsTyped, MailsTyped, WorkersTyped, BreaksTyped, rowVars, mailVars, Positions
<1>2. JobsKnown'
  BY DEF Hands, JobsKnown, Mailing, Typed, WorkersTyped
<1>3. \A v \in Worker : InHand(v)' \subseteq InHand(v)
  BY DEF InHand, Typed, WorkersTyped
<1>4. \A v \in Worker : pc'[v] \in Mailing => pc[v] \in Mailing
  BY DEF Mailing, Typed, WorkersTyped
<1>5. Mails => Mails'
  BY <1>4, Zenon DEF Mails, OneSender, mailVars
<1> QED
  BY <1>1, <1>2, <1>3, <1>5, RowsAlone DEF Hands

\* Deciding and giving up look at no token, and are right while the one who does
\* it is the only sender.
LEMMA DecideKeeps ==
  ASSUME ExportAssumption, IInv, NEW w \in Worker, Decide(w) \/ ReleaseMail(w)
  PROVE  IInv' /\ EndedStay
<1> USE DEF IInv
<1>0. pc[w] \in Mailing /\ job[w] \in Export /\ Mailed(w)
      /\ UNCHANGED <<job, batch, overdue>> /\ UNCHANGED rowVars /\ UNCHANGED breaks
  BY DEF Decide, ReleaseMail, Mailing, Hands, JobsKnown
<1>1. WorkersTyped' /\ pc'[w] \notin Mailing /\ JobsKnown'
      /\ \A v \in Worker : InHand(v)' \subseteq InHand(v)
  BY <1>0, AfterMail DEF Mailing
<1>2. MailsTyped' /\ notified' \subseteq notified \cup {job[w]}
  <2>1. CASE Decide(w)
    BY <1>0, <2>1 DEF Decide, Typed, MailsTyped, ExportAssumption
  <2>2. CASE ReleaseMail(w)
    BY <1>0, <2>2 DEF ReleaseMail, Typed, MailsTyped, ExportAssumption
  <2> QED
    BY <2>1, <2>2
<1>3. Typed'
  BY <1>0, <1>1, <1>2 DEF Typed, RowsTyped, BreaksTyped, rowVars
<1>4. ASSUME Mails PROVE Mails'
  <2>1. \A v \in Worker : v # w => pc'[v] = pc[v] /\ job'[v] = job[v]
    BY <1>0 DEF Mailed, Goto, Typed, WorkersTyped
  <2>2. \A v \in Worker : v # w /\ pc[v] \in Mailing => job[v] # job[w]
    BY <1>0, <1>4 DEF Mails, OneSender
  <2>3. \A x \in Export : x # job[w] => claimLeft'[x] = claimLeft[x]
    BY DEF Decide, ReleaseMail, Typed, MailsTyped
  <2>4. OneSender'
    BY <1>1, <1>2, <1>4, <2>1, <2>2 DEF Mails, OneSender
  <2>5. \A v \in Worker : pc'[v] \in Mailing => claimLeft'[job'[v]] > 0
    BY <1>1, <1>4, <2>1, <2>2, <2>3 DEF Mails, Hands, JobsKnown
  <2> QED
    BY <2>4, <2>5 DEF Mails
<1> QED
  BY <1>0, <1>1, <1>3, <1>4, RowsAlone DEF Hands

-----------------------------------------------------------------------------
(* The end of a run, broken runs, time *)

\* Only running and ready exports are ended, and only files of ended ones go.
LEMMA EndingKeeps ==
  ASSUME ExportAssumption, IInv, NEW w \in Worker, ExpireReady(w) \/ LoseRunning(w) \/ DropFiles(w)
  PROVE  IInv' /\ EndedStay
<1> USE DEF ExpireReady, LoseRunning, DropFiles, IInv, Goto
<1>0. \A x \in Export :
        \/ status'[x] = status[x]
        \/ status[x] = "ready" /\ status'[x] = "expired"
        \/ status[x] = "running" /\ status'[x] = "failed"
  BY DEF Typed, RowsTyped
<1>1. Typed'
  <2>1. RowsTyped'
    <3>1. status' \in [Export -> Ended \cup {"none", "queued", "running", "ready"}]
      BY <1>0 DEF Typed, RowsTyped, Ended
    <3> QED
      BY <3>1 DEF Typed, RowsTyped
  <2> QED
    BY <2>1 DEF Typed, MailsTyped, WorkersTyped, BreaksTyped, mailVars, Positions
<1>2. Active' \subseteq Active
  BY <1>0 DEF Active, With
<1>3. JobsKnown'
  BY DEF Hands, JobsKnown, Mailing, Typed, WorkersTyped
<1>4. \A v \in Worker : InHand(v)' \subseteq InHand(v)
  BY DEF InHand, Typed, WorkersTyped
<1>5. \A v \in Worker : InHand(v) \subseteq Export
  BY DEF InHand, Hands, JobsKnown, Typed, WorkersTyped
<1>6. Apart' /\ HandsClaimed'
  BY <1>0, <1>4, <1>5 DEF Hands, Apart, HandsClaimed
<1>7. ReadyIsWhole' /\ EndedStay
  BY <1>0 DEF ReadyIsWhole, EndedStay, Ended, Typed, RowsTyped
<1>8. Mails => Mails'
  BY DEF Mails, OneSender, Mailing, mailVars, Typed, WorkersTyped
<1> QED
  BY <1>1, <1>2, <1>3, <1>6, <1>7, <1>8, NothingQueued DEF Hands

\* A run that breaks leaves the tables as they are.
LEMMA BreakKeeps ==
  ASSUME ExportAssumption, IInv, NEW w \in Worker, Break(w)
  PROVE  IInv' /\ EndedStay
<1> USE DEF Break, IInv, Goto
<1>1. Typed'
  BY DEF Typed, RowsTyped, MailsTyped, WorkersTyped, BreaksTyped, rowVars, mailVars, Positions,
         ExportAssumption
<1>2. JobsKnown'
  BY DEF Hands, JobsKnown, Mailing, Typed, WorkersTyped
<1>3. \A v \in Worker : InHand(v)' \subseteq InHand(v)
  BY DEF InHand, Typed, WorkersTyped
<1>4. Mails => Mails'
  BY DEF Mails, OneSender, Mailing, mailVars, Typed, WorkersTyped
<1> QED
  BY <1>1, <1>2, <1>3, <1>4, RowsAlone DEF Hands

\* Prompt mails are decided before their claim runs out.
LEMMA TickKeeps ==
  ASSUME ExportAssumption, IInv, Tick
  PROVE  IInv' /\ EndedStay
<1> USE DEF Tick, IInv, Down
<1>1. Typed'
  BY DEF Typed, RowsTyped, MailsTyped, WorkersTyped, BreaksTyped, workVars, ExportAssumption
<1>2. Active' \subseteq Active
  BY DEF Active, With
<1>3. Hands'
  BY DEF Hands, JobsKnown, Apart, HandsClaimed, InHand, workVars
<1>4. ReadyIsWhole' /\ EndedStay
  BY DEF ReadyIsWhole, EndedStay
<1>5. ASSUME Prompt, Mails PROVE Mails'
  <2>1. \A v \in Worker : pc[v] \in Mailing => job[v] \in Export /\ claimLeft[job[v]] > 1
    BY <1>5 DEF OnTime, Hands, JobsKnown
  <2>2. \A v \in Worker : pc[v] \in Mailing => claimLeft'[job[v]] > 0
    BY <2>1 DEF Typed, MailsTyped
  <2> QED
    BY <1>5, <2>2 DEF Mails, OneSender, workVars
<1> QED
  BY <1>1, <1>2, <1>3, <1>4, <1>5, NothingQueued

\* Every step keeps the invariant and what has ended.
LEMMA Stepwise ==
  ASSUME ExportAssumption, IInv, [Next]_vars
  PROVE  IInv' /\ EndedStay
<1>1. CASE UNCHANGED vars
  <2>1. Typed' /\ ReadyIsWhole' /\ EndedStay
    BY <1>1 DEF IInv, Typed, RowsTyped, MailsTyped, WorkersTyped, BreaksTyped, ReadyIsWhole,
                EndedStay, vars, rowVars, mailVars, workVars
  <2>2. WithinLimit'
    BY <1>1, NothingQueued DEF IInv, Active, With, vars, rowVars
  <2>3. Hands' /\ (Mails => Mails')
    BY <1>1 DEF IInv, Hands, JobsKnown, Apart, HandsClaimed, InHand, Mails, OneSender,
                vars, rowVars, mailVars, workVars
  <2> QED
    BY <2>1, <2>2, <2>3 DEF IInv
<1>2. ASSUME NEW x \in Export, Enqueue(x) PROVE IInv' /\ EndedStay
  BY <1>2, EnqueueKeeps
<1>3. ASSUME NEW w \in Worker, Step(w) \/ Break(w) PROVE IInv' /\ EndedStay
  BY <1>3, ClaimKeeps, TakeKeeps, CommitKeeps, RollbackKeeps, FailKeeps, OwedKeeps, ClaimMailKeeps,
     SendKeeps, DecideKeeps, EndingKeeps, BreakKeeps DEF Step
<1>4. CASE Tick
  BY <1>4, TickKeeps
<1> QED
  BY <1>1, <1>2, <1>3, <1>4 DEF Next

\* The invariant holds in every state that is reached.
LEMMA Invariance == ASSUME ExportAssumption PROVE Spec => []IInv
<1>1. Init => IInv
  BY Initially
<1>2. IInv /\ [Next]_vars => IInv'
  BY Stepwise
<1> QED
  BY <1>1, <1>2, PTL DEF Spec

-----------------------------------------------------------------------------
(* What is to be known of report exports *)

\* The tables and the runs have their types; a person has no more exports under
\* way than the limit, and no two runs have the same export in hand.
THEOREM TypeCorrect == ASSUME ExportAssumption PROVE Spec => []TypeOK
BY Invariance, InvTyped, PTL

\* A ready export has its file, and a file has a ready or just expired export.
THEOREM WholeFiles == ASSUME ExportAssumption PROVE Spec => []ReadyIsWhole
<1>1. IInv => ReadyIsWhole
  BY DEF IInv
<1> QED
  BY <1>1, Invariance, PTL

\* Exports that ended stay ended, whatever a worker does that was given up.
THEOREM EndsAreFinal == ASSUME ExportAssumption PROVE Spec => NeverReadyAgain
<1>1. IInv /\ [Next]_vars => [EndedStay]_vars
  BY Stepwise
<1> QED
  BY <1>1, Invariance, PTL DEF Spec, NeverReadyAgain, EndedStay

\* When mails are prompt, an export has one sender at a time and none when its
\* mail is decided, although neither outcome looks at who holds the claim.
THEOREM SendersApart == ASSUME ExportAssumption, Prompt PROVE Spec => []OneSender
<1>1. IInv => OneSender
  BY DEF IInv, Mails
<1> QED
  BY <1>1, Invariance, PTL

-----------------------------------------------------------------------------
(* When only what broke is given up as lost *)

\* No export outlasts EXPORT_STALE_RUNNING_MINUTES in the hands of its run.
RendersPrompt ==
  Tick => \A w \in Worker : \A x \in InHand(w) : status[x] = "running" => left[x] > 1

ToRender(w) == batch[w] \cup IF pc[w] = "render" THEN {job[w]} ELSE {}

\* What a run has still to render was not given up meanwhile, and the sweep for
\* worker_lost finds nothing unless a run died or lost its lease.
OnlyTheLost ==
  /\ \A w \in Worker : \A x \in ToRender(w) : status[x] = "running"
  /\ breaks = 0 => \A x \in Export : status[x] = "running" => left[x] > 0

\* A batch is empty once what is owed was read, and at the end of the run; what is
\* in work was taken from it.
Tidy ==
  \A w \in Worker :
    /\ pc[w] \in {"idle", "expire", "lose", "drop"} => batch[w] = {}
    /\ owed[w] # {} => pc[w] \in Mailing \cup {"mail"} /\ batch[w] = {}
    /\ pc[w] \in {"render", "fail"} => job[w] \notin batch[w]

\* What runs is fresh while it is in somebody's hands, and it leaves them only
\* with its outcome or by a break.
WellInHand ==
  /\ Tidy
  /\ \A w \in Worker : \A x \in ToRender(w) : status[x] = "running"
  /\ \A w \in Worker : \A x \in InHand(w) : status[x] = "running" => left[x] > 0
  /\ breaks = 0 => \A x \in Export : status[x] = "running" => \E w \in Worker : x \in InHand(w)

\* What is in a worker's hands is an export.
LEMMA HandsAreExports == ASSUME IInv PROVE \A w \in Worker : InHand(w) \subseteq Export
BY DEF IInv, Hands, JobsKnown, InHand, Typed, WorkersTyped

\* A step that moves nothing from hand to hand keeps what is in them.
LEMMA HandsAlone ==
  ASSUME WellInHand, UNCHANGED rowVars, breaks' = breaks,
         \A w \in Worker : InHand(w)' = InHand(w) /\ ToRender(w)' \subseteq ToRender(w)
  PROVE  Tidy' => WellInHand'
BY DEF WellInHand, rowVars

\* A request puts nothing into hands.
LEMMA EnqueueInHand ==
  ASSUME IInv, WellInHand, NEW x \in Export, Enqueue(x)
  PROVE  WellInHand'
<1> USE DEF Enqueue, IInv
<1>1. \A w \in Worker : InHand(w)' = InHand(w) /\ ToRender(w)' = ToRender(w)
  BY DEF InHand, ToRender, workVars
<1>2. \A w \in Worker : ToRender(w) \subseteq InHand(w)
  BY DEF InHand, ToRender
<1>3. \A w \in Worker : x \notin InHand(w)
  BY DEF Hands, HandsClaimed
<1>4. \A y \in Export : y # x => status'[y] = status[y]
  BY DEF Typed, RowsTyped
<1>5. status'[x] = "queued"
  BY DEF Typed, RowsTyped
<1>6. Tidy'
  BY DEF WellInHand, Tidy, workVars
<1> QED
  BY <1>1, <1>2, <1>3, <1>4, <1>5, <1>6, HandsAreExports DEF WellInHand

\* What is claimed is fresh, and in hand.
LEMMA ClaimInHand ==
  ASSUME ExportAssumption, IInv, WellInHand, NEW w \in Worker, Claim(w)
  PROVE  WellInHand'
<1> USE DEF Claim, IInv, Goto, Claimable, With
<1>1. \A v \in Worker : InHand(v)' = IF v = w THEN Claimable ELSE InHand(v)
  BY DEF InHand, Typed, WorkersTyped
<1>2. \A v \in Worker : ToRender(v)' = IF v = w THEN Claimable ELSE ToRender(v)
  BY DEF ToRender, Typed, WorkersTyped
<1>3. \A v \in Worker : ToRender(v) \subseteq InHand(v)
  BY DEF InHand, ToRender
<1>4. \A v \in Worker : \A x \in InHand(v) : x \in Export /\ x \notin Claimable
  BY HandsAreExports DEF Hands, HandsClaimed
<1>5. \A x \in Export :
        IF x \in Claimable THEN status'[x] = "running" /\ left'[x] = StaleRunning
                           ELSE status'[x] = status[x] /\ left'[x] = left[x]
  BY DEF Typed, RowsTyped
<1>6. StaleRunning > 0 /\ InHand(w) = {}
  BY DEF ExportAssumption, WellInHand, Tidy, InHand
<1>7. Tidy'
  BY DEF WellInHand, Tidy, Mailing, Typed, WorkersTyped
<1>8. ASSUME NEW v \in Worker, NEW x \in InHand(v)', status'[x] = "running" PROVE left'[x] > 0
  <2>1. CASE x \in Claimable
    BY <1>5, <1>6, <2>1
  <2>2. CASE x \notin Claimable
    BY <1>1, <1>4, <1>5, <1>8, <2>2 DEF WellInHand
  <2> QED BY <2>1, <2>2
<1>9. \A v \in Worker : \A x \in ToRender(v)' : status'[x] = "running"
  BY <1>2, <1>3, <1>4, <1>5 DEF WellInHand
<1>10. ASSUME breaks = 0, NEW x \in Export, status'[x] = "running"
       PROVE  \E v \in Worker : x \in InHand(v)'
  BY <1>1, <1>5, <1>6, <1>10 DEF WellInHand
<1> QED
  BY <1>7, <1>8, <1>9, <1>10 DEF WellInHand

\* What is taken from the batch is rendered or failed, and still in hand.
LEMMA TakeInHand ==
  ASSUME IInv, WellInHand, NEW w \in Worker, Take(w)
  PROVE  WellInHand'
<1> USE DEF Take, IInv, Goto
<1>1. PICK x \in batch[w] :
        /\ job' = [job EXCEPT ![w] = x] /\ batch' = [batch EXCEPT ![w] = @ \ {x}]
  OBVIOUS
<1>2. \A v \in Worker : InHand(v)' = InHand(v) /\ ToRender(v)' \subseteq ToRender(v)
  BY <1>1 DEF InHand, ToRender, Typed, WorkersTyped
<1>3. Tidy'
  BY <1>1 DEF WellInHand, Tidy, Mailing, Typed, WorkersTyped
<1> QED
  BY <1>2, <1>3, HandsAlone

\* A row leaves the hands of its run with its outcome; it was nobody else's.
LEMMA OutcomeInHand ==
  ASSUME ExportAssumption, IInv, WellInHand, NEW w \in Worker, Commit(w) \/ Rollback(w) \/ Fail(w)
  PROVE  WellInHand'
<1> USE DEF Commit, Rollback, Fail, IInv, Goto
<1>1. job[w] \in Export /\ job[w] \in InHand(w)
  BY DEF Hands, JobsKnown, InHand
<1>2. \A v \in Worker : v # w =>
        InHand(v)' = InHand(v) /\ ToRender(v)' = ToRender(v) /\ job[w] \notin InHand(v)
  BY <1>1 DEF InHand, ToRender, Hands, Apart, Typed, WorkersTyped
<1>3. ToRender(w)' = batch[w] /\ InHand(w)' \subseteq InHand(w)
      /\ \A x \in InHand(w) : x # job[w] => x \in InHand(w)'
  BY DEF InHand, ToRender, Typed, WorkersTyped
<1>4. \A x \in Export : x # job[w] => status'[x] = status[x] /\ left'[x] = left[x]
  BY DEF Typed, RowsTyped, rowVars
<1>5. \/ status' = status /\ left' = left /\ InHand(w)' = InHand(w)
      \/ status'[job[w]] # "running" /\ job[w] \notin batch[w]
  <2>1. CASE Commit(w)
    BY <1>1, <2>1 DEF Typed, RowsTyped, WellInHand, Tidy
  <2>2. CASE Rollback(w)
    BY <2>2 DEF InHand, rowVars, Typed, WorkersTyped
  <2>3. CASE Fail(w)
    BY <1>1, <2>3 DEF Typed, RowsTyped, WellInHand, Tidy
  <2> QED BY <2>1, <2>2, <2>3
<1>6. Tidy'
  BY DEF WellInHand, Tidy, Mailing, Typed, WorkersTyped
<1>7. \A v \in Worker : ToRender(v) \subseteq InHand(v)
  BY DEF InHand, ToRender
<1>8. breaks' = 0 => breaks = 0
  BY DEF Typed, BreaksTyped
<1>9. ASSUME NEW v \in Worker, NEW x \in ToRender(v)' PROVE status'[x] = "running"
  <2>1. x \in ToRender(v) /\ x \in Export /\ status[x] = "running"
    BY <1>2, <1>3, <1>7, <1>9, HandsAreExports DEF WellInHand, ToRender
  <2>2. CASE status' = status
    BY <2>1, <2>2
  <2>3. CASE job[w] \notin batch[w]
    BY <1>1, <1>2, <1>3, <1>4, <1>7, <1>9, <2>1, <2>3
  <2> QED BY <1>5, <2>2, <2>3
<1>10. \A v \in Worker : \A x \in InHand(v)' : status'[x] = "running" => left'[x] > 0
  BY <1>1, <1>2, <1>3, <1>4, <1>5, HandsAreExports DEF WellInHand
<1>11. ASSUME breaks' = 0, NEW x \in Export, status'[x] = "running"
       PROVE  \E v \in Worker : x \in InHand(v)'
  BY <1>2, <1>3, <1>4, <1>5, <1>8, <1>11 DEF WellInHand
<1> QED
  BY <1>6, <1>9, <1>10, <1>11 DEF WellInHand

\* Mails and the reading of what is owed leave exports in hand as they are.
LEMMA MailInHand ==
  ASSUME IInv, WellInHand, NEW w \in Worker,
         \/ ReadOwed(w) \/ NextOwed(w) \/ ClaimMail(w) \/ Authorize(w) \/ Send(w)
         \/ Decide(w) \/ ReleaseMail(w)
  PROVE  WellInHand'
<1> USE DEF IInv, Typed, WorkersTyped
<1>1. /\ UNCHANGED <<rowVars, batch, breaks>>
      /\ pc[w] \in {"batch", "mail"} \cup Mailing
      /\ pc' = [pc EXCEPT ![w] = pc'[w]]
      /\ pc'[w] \in {"batch", "expire", "mail"} \cup Mailing
      /\ \A v \in Worker : v # w => job'[v] = job[v] /\ owed'[v] = owed[v]
  BY DEF ReadOwed, NextOwed, ClaimMail, Authorize, Send, Decide, ReleaseMail, Mailed, Goto, Mailing
<1>2. \A v \in Worker : InHand(v)' = InHand(v) /\ ToRender(v)' = ToRender(v)
  BY <1>1 DEF InHand, ToRender, Mailing
<1>3. /\ pc'[w] = "expire" => batch[w] = {}
      /\ owed'[w] # {} => pc'[w] \in Mailing \cup {"mail"} /\ batch[w] = {}
  BY DEF ReadOwed, NextOwed, ClaimMail, Authorize, Send, Decide, ReleaseMail, Mailed, Goto, Mailing,
         WellInHand, Tidy
<1>4. Tidy'
  BY <1>1, <1>3 DEF WellInHand, Tidy, Mailing
<1> QED
  BY <1>1, <1>2, <1>4, HandsAlone

\* The end of a run gives up only what is stale, and so in nobody's hands.
LEMMA EndingInHand ==
  ASSUME IInv, WellInHand, NEW w \in Worker, ExpireReady(w) \/ LoseRunning(w) \/ DropFiles(w)
  PROVE  WellInHand'
<1> USE DEF ExpireReady, LoseRunning, DropFiles, IInv, Goto
<1>1. \A v \in Worker : InHand(v)' = InHand(v) /\ ToRender(v)' = ToRender(v)
  BY DEF InHand, ToRender, Typed, WorkersTyped
<1>2. \A x \in Export :
        /\ left'[x] = left[x]
        /\ status'[x] = "running" => status[x] = "running"
        /\ status[x] = "running" /\ left[x] > 0 => status'[x] = "running"
  BY DEF Typed, RowsTyped, Overdue
<1>3. \A v \in Worker : ToRender(v) \subseteq InHand(v)
  BY DEF InHand, ToRender
<1>4. Tidy' /\ breaks' = breaks
  BY DEF WellInHand, Tidy, Mailing, Typed, WorkersTyped
<1> QED
  BY <1>1, <1>2, <1>3, <1>4, HandsAreExports DEF WellInHand

\* A run that breaks drops what it had in hand, which from then on may be lost.
LEMMA BreakInHand ==
  ASSUME IInv, WellInHand, NEW w \in Worker, Break(w)
  PROVE  WellInHand'
<1> USE DEF Break, IInv, Goto
<1>1. \A v \in Worker : InHand(v)' \subseteq InHand(v) /\ ToRender(v)' \subseteq ToRender(v)
  BY DEF InHand, ToRender, Typed, WorkersTyped
<1>2. Tidy'
  BY DEF WellInHand, Tidy, Mailing, Typed, WorkersTyped
<1>3. breaks' # 0
  BY DEF Typed, BreaksTyped
<1> QED
  BY <1>1, <1>2, <1>3 DEF WellInHand, rowVars

\* The clock takes no export from the hands of a prompt run.
LEMMA TickInHand ==
  ASSUME IInv, WellInHand, RendersPrompt, Tick
  PROVE  WellInHand'
<1> USE DEF Tick, IInv
<1>1. \A v \in Worker : InHand(v)' = InHand(v) /\ ToRender(v)' = ToRender(v)
  BY DEF InHand, ToRender, workVars
<1>2. \A x \in Export : left[x] > 1 => left'[x] > 0
  BY DEF Down, Typed, RowsTyped
<1>3. Tidy'
  BY DEF WellInHand, Tidy, workVars
<1> QED
  BY <1>1, <1>2, <1>3, HandsAreExports DEF WellInHand, RendersPrompt

\* "Abandoned meanwhile (worker_lost)" (export.service.ts) does not happen to a run
\* that keeps within the stale interval: what it has to render still runs, and
\* without a death or a lost lease the sweep finds nothing to give up.
THEOREM LostMeansBroken ==
  ASSUME ExportAssumption
  PROVE  Spec /\ [][RendersPrompt]_vars => []OnlyTheLost
<1>1. Init => WellInHand
  BY DEF Init, WellInHand, Tidy, InHand, ToRender
<1>2. ASSUME IInv, WellInHand, [Next]_vars, [RendersPrompt]_vars PROVE WellInHand'
  <2>1. CASE UNCHANGED vars
    BY <1>2, <2>1 DEF WellInHand, Tidy, InHand, ToRender, vars, rowVars, workVars
  <2>2. CASE Next /\ ~ UNCHANGED vars
    BY <1>2, <2>2, EnqueueInHand, ClaimInHand, TakeInHand, OutcomeInHand, MailInHand, EndingInHand,
       BreakInHand, TickInHand DEF Next, Step
  <2> QED BY <1>2, <2>1, <2>2
<1>3. IInv /\ WellInHand => OnlyTheLost
  BY HandsAreExports DEF WellInHand, OnlyTheLost
<1> QED BY <1>1, <1>2, <1>3, Invariance, PTL DEF Spec
=============================================================================
