--------------------------- MODULE JobRuntimeProofs ---------------------------
(* Types and safety of JobRuntime: final outcomes, manual runs that succeeded  *)
(* only alone, and jobs executed once at a time while their leases last.       *)
EXTENDS JobRuntime, TLAPS, FiniteSetTheorems

Longest == IF RunLease < JobLease THEN JobLease ELSE RunLease

RowsTyped ==
  /\ row \in [Run -> Terminal \cup {"none", "queued", "running"}] /\ runLeft \in [Run -> 0 .. RunLease]

LeasesTyped == holder \in [Job -> Run \cup {Nobody}] /\ leaseLeft \in [Job -> 0 .. Longest]

RunsTyped ==
  /\ at \in [Run -> Labels] /\ proc \in [Run -> Process \cup {NoProcess}]
  /\ outcome \in [Run -> Terminal] /\ lost \subseteq Run /\ overlapped \subseteq Manual

EnvTyped == enabled \in [Job -> BOOLEAN] /\ down \subseteq Process /\ changes \in 0 .. MaxChanges

Typed == RowsTyped /\ LeasesTyped /\ RunsTyped /\ EnvTyped

\* The queue holds the queued rows, each once.
Queued == {r \in Run : row[r] = "queued"}

QueueRight ==
  /\ queue \in Seq(Run) /\ Queued \subseteq Manual
  /\ \A i, k \in 1 .. Len(queue) : queue[i] = queue[k] => i = k
  /\ \A r \in Run : r \in Queued <=> \E i \in 1 .. Len(queue) : queue[i] = r
  /\ IsFiniteSet(Queued) /\ Len(queue) = Cardinality(Queued)

\* The positions a manual run is in when it may still succeed.
Working == {"authorise", "check", "work", "finish"}

Started ==
  /\ \A r \in Run :
       /\ at[r] = "none" <=> proc[r] = NoProcess
       /\ at[r] = "none" => row[r] \in {"none", "queued"}
       /\ row[r] = "queued" => at[r] = "none"
  /\ \A r \in Manual :
       /\ at[r] # "entry" /\ (row[r] = "succeeded" => at[r] \in {"release", "done"})
       /\ row[r] = "none" => at[r] = "none"

Holders == \A j \in Job : holder[j] # Nobody => JobOf[holder[j]] = j /\ at[holder[j]] # "none"

\* What finishRun does not look at but can rely on: a manual run whose own lease
\* is good, and that was not told otherwise, holds the job for as long.
HoldsJob ==
  \A r \in Manual : at[r] \in Working /\ r \notin lost /\ Live(r) =>
    holder[JobOf[r]] = r /\ leaseLeft[JobOf[r]] >= runLeft[r]

\* A run another one got in the way of is not going to succeed.
Spoiled ==
  \A r \in overlapped :
    /\ row[r] # "succeeded" /\ at[r] # "none"
    /\ at[r] \in Working => r \in lost \/ ~ Live(r)

IInv == Typed /\ QueueRight /\ Started /\ Holders /\ HoldsJob /\ Spoiled

\* What OutcomeIsFinal says of a step.
OutcomesStay == \A r \in Run : row[r] \in Terminal => row'[r] = row[r]

Kept == IInv' /\ OutcomesStay

\* The invariant gives TypeOK and ManualSuccessIsExclusive.
LEMMA InvGives ==
  ASSUME JobAssumption, IInv
  PROVE  TypeOK /\ ManualSuccessIsExclusive
<1>1. leaseLeft \in [Job -> 0 .. RunLease] \/ leaseLeft \in [Job -> 0 .. JobLease]
  BY DEF IInv, Typed, LeasesTyped, Longest
<1>2. {queue[i] : i \in DOMAIN queue} = {r \in Manual : row[r] = "queued"}
  <2>1. DOMAIN queue = 1 .. Len(queue) /\ \A i \in 1 .. Len(queue) : queue[i] \in Run
    BY DEF IInv, QueueRight
  <2>2. Manual \subseteq Run
    BY DEF JobAssumption
  <2> QED
    BY <2>1, <2>2 DEF IInv, QueueRight, Queued
<1>3. Len(queue) = Cardinality({r \in Run : row[r] = "queued"})
  BY DEF IInv, QueueRight, Queued
<1>4. TypeOK
  BY <1>1, <1>2, <1>3 DEF IInv, Typed, RowsTyped, LeasesTyped, RunsTyped, EnvTyped, Started, Holders, TypeOK
<1>5. ManualSuccessIsExclusive
  BY DEF IInv, Spoiled, ManualSuccessIsExclusive
<1> QED
  BY <1>4, <1>5

-----------------------------------------------------------------------------

\* While a manual run holds the job no other owns its lease: the owner ids of
\* manual runs are their own.
LEMMA OnlyItself ==
  ASSUME JobAssumption, IInv, NEW r \in Manual, NEW s \in Run, at[s] # "none",
         JobOf[s] = JobOf[r], holder[JobOf[r]] = r, OwnsRow(s)
  PROVE  s = r
<1>1. OwnerId(s) = r
  BY DEF OwnsRow, OwnerId
<1>2. s \notin Manual => proc[s] \in Process /\ OwnerId(s) = proc[s]
  BY DEF OwnerId, IInv, Started, Typed, RunsTyped
<1>3. s \in Manual => OwnerId(s) = s
  BY DEF OwnerId
<1>4. r \in Run /\ Run \cap Process = {}
  BY DEF JobAssumption
<1> QED
  BY <1>1, <1>2, <1>3, <1>4

\* A step that starts no run, in terms of what it may do to each.
LEMMA OngoingKeeps ==
  ASSUME JobAssumption, IInv, Typed', queue' = queue, proc' = proc,
         \A r \in Run : at'[r] = "none" <=> at[r] = "none",
         \A r \in Run :
           \/ row'[r] = row[r]
           \/ /\ row[r] = "running" /\ row'[r] \in Terminal
              /\ row'[r] = "succeeded" /\ r \in Manual =>
                   at[r] = "finish" /\ at'[r] = "release" /\ r \notin lost /\ Live(r),
         \A r \in Run : runLeft'[r] <= runLeft[r] \/ Live(r),
         \A r \in Manual :
           /\ at'[r] \in Working => at[r] \in Working /\ (r \in lost => r \in lost')
           /\ at[r] \in {"release", "done"} => at'[r] \in {"release", "done"}
           /\ at'[r] # "entry",
         \A r \in Manual :
           /\ at'[r] \in Working /\ r \notin lost' /\ Live(r)'
           /\ holder[JobOf[r]] = r /\ leaseLeft[JobOf[r]] >= runLeft[r]
           => holder'[JobOf[r]] = r /\ leaseLeft'[JobOf[r]] >= runLeft'[r],
         \A j \in Job :
           \/ holder'[j] = holder[j] \/ holder'[j] = Nobody
           \/ JobOf[holder'[j]] = j /\ at[holder'[j]] # "none" /\ holder'[j] \in Run,
         \A r \in overlapped' :
           r \in overlapped \/ (r \in Manual /\ at[r] \in Working /\ (r \in lost \/ ~ Live(r)))
  PROVE  Kept
<1> USE DEF IInv
<1>0. Manual \subseteq Run /\ Nobody \notin Run
  BY DEF JobAssumption
<1>1. OutcomesStay
  BY DEF OutcomesStay, Terminal
<1>2. QueueRight'
  <2>1. \A r \in Run : row'[r] = "queued" <=> row[r] = "queued"
    BY DEF Terminal
  <2>2. Queued' = Queued
    BY <2>1 DEF Queued
  <2> QED
    BY <2>2 DEF QueueRight
<1>3. Started'
  <2>1. \A r \in Run : row'[r] \in {"none", "queued"} <=> row[r] \in {"none", "queued"}
    BY DEF Terminal
  <2>2. \A r \in Run : row'[r] = "queued" <=> row[r] = "queued"
    BY DEF Terminal
  <2>3. \A r \in Run : /\ at'[r] = "none" <=> proc'[r] = NoProcess
                       /\ at'[r] = "none" => row'[r] \in {"none", "queued"}
                       /\ row'[r] = "queued" => at'[r] = "none"
    BY <2>1, <2>2 DEF Started
  <2>5. \A r \in Run : row'[r] = "none" <=> row[r] = "none"
    BY DEF Terminal
  <2>4. \A r \in Manual :
          /\ at'[r] # "entry" /\ (row'[r] = "succeeded" => at'[r] \in {"release", "done"})
          /\ row'[r] = "none" => at'[r] = "none"
    BY <1>0, <2>5 DEF Started
  <2> QED
    BY <2>3, <2>4 DEF Started
<1>4. Holders'
  BY <1>0 DEF Holders, Typed, LeasesTyped
<1>5. \A r \in Run : Live(r)' => Live(r)
  BY DEF Live, Terminal, Typed, RowsTyped
<1>6. HoldsJob'
  BY <1>0, <1>5 DEF HoldsJob
<1>7. Spoiled'
  <2> SUFFICES ASSUME NEW r \in overlapped'
               PROVE  /\ row'[r] # "succeeded" /\ at'[r] # "none"
                      /\ at'[r] \in Working => r \in lost' \/ ~ Live(r)'
    BY DEF Spoiled
  <2>1. r \in Manual /\ r \in Run
    BY <1>0 DEF Typed, RunsTyped
  <2>2. row[r] # "succeeded" /\ at[r] # "none" /\ (at[r] \in Working => r \in lost \/ ~ Live(r))
    BY <2>1 DEF Spoiled, Started, Working
  <2>3. row'[r] # "succeeded"
    BY <2>1, <2>2 DEF Working
  <2> QED
    BY <1>5, <2>1, <2>2, <2>3
<1> QED
  BY <1>1, <1>2, <1>3, <1>4, <1>6, <1>7 DEF Kept

-----------------------------------------------------------------------------
(* Runs that start *)

\* Nothing is queued and nobody is at work.
LEMMA Initially ==
  ASSUME JobAssumption, Init
  PROVE  IInv
<1> USE DEF Init
<1>1. Typed
  BY DEF Typed, RowsTyped, LeasesTyped, RunsTyped, EnvTyped, Terminal, Labels, Longest, JobAssumption
<1>2. QueueRight
  <2>1. Queued = {} /\ Len(queue) = 0 /\ queue \in Seq(Run)
    BY DEF Queued
  <2> QED
    BY <2>1, FS_EmptySet DEF QueueRight
<1>3. Started /\ Holders /\ HoldsJob /\ Spoiled
  BY DEF Started, Holders, HoldsJob, Spoiled, Working, JobAssumption
<1> QED
  BY <1>1, <1>2, <1>3 DEF IInv

\* What is asked for goes to the end of the queue.
LEMMA EnqueueKeeps ==
  ASSUME JobAssumption, IInv, NEW r \in Run, Enqueue(r)
  PROVE  Kept
<1> USE DEF IInv
<1>1. /\ r \in Manual /\ row[r] = "none" /\ row' = [row EXCEPT ![r] = "queued"]
      /\ queue' = Append(queue, r) /\ runLeft' = runLeft
      /\ holder' = holder /\ leaseLeft' = leaseLeft
      /\ at' = at /\ proc' = proc /\ outcome' = outcome /\ lost' = lost /\ overlapped' = overlapped
      /\ enabled' = enabled /\ down' = down /\ changes' = changes
  BY DEF Enqueue, leaseVars, execVars, envVars
<1>2. \A s \in Run : row'[s] = IF s = r THEN "queued" ELSE row[s]
  BY <1>1 DEF Typed, RowsTyped
<1>3. Typed'
  <2>1. RowsTyped'
    BY <1>1 DEF Typed, RowsTyped
  <2> QED
    BY <1>1, <2>1 DEF Typed, LeasesTyped, RunsTyped, EnvTyped
<1>4. QueueRight'
  <2>1. Queued' = Queued \cup {r} /\ r \notin Queued
    BY <1>1, <1>2 DEF Queued
  <2>2. IsFiniteSet(Queued') /\ Cardinality(Queued') = Cardinality(Queued) + 1
    BY <2>1, FS_AddElement, Zenon DEF QueueRight
  <2>3. /\ queue' \in Seq(Run) /\ Len(queue') = Len(queue) + 1 /\ Len(queue) \in Nat
        /\ \A i \in 1 .. Len(queue) : queue'[i] = queue[i]
        /\ queue'[Len(queue) + 1] = r
    BY <1>1 DEF QueueRight
  <2>4. \A i \in 1 .. Len(queue) : queue[i] # r
    BY <2>1 DEF QueueRight
  <2>5. \A i, k \in 1 .. Len(queue') : queue'[i] = queue'[k] => i = k
    BY <2>3, <2>4 DEF QueueRight
  <2>6. \A s \in Run : s \in Queued' <=> \E i \in 1 .. Len(queue') : queue'[i] = s
    <3>1. \A s \in Run : s \in Queued => \E i \in 1 .. Len(queue') : queue'[i] = s
      BY <2>3 DEF QueueRight
    <3>2. \E i \in 1 .. Len(queue') : queue'[i] = r
      BY <2>3
    <3>3. \A i \in 1 .. Len(queue') : queue'[i] \in Queued \cup {r}
      BY <2>3 DEF QueueRight
    <3> QED
      BY <2>1, <3>1, <3>2, <3>3
  <2> QED
    BY <1>1, <2>1, <2>2, <2>3, <2>5, <2>6 DEF QueueRight
<1>5. Started'
  <2>1. \A s \in Run : /\ at'[s] = at[s] /\ proc'[s] = proc[s]
                       /\ row'[s] = row[s] \/ (s = r /\ row'[s] = "queued" /\ at[s] = "none")
    BY <1>1, <1>2 DEF Started
  <2> QED
    BY <2>1 DEF Started, JobAssumption
<1>6. Holders'
  BY <1>1 DEF Holders
<1>7. HoldsJob' /\ Spoiled'
  BY <1>1, <1>2 DEF HoldsJob, Spoiled, Live, JobAssumption, Started, Working
<1>8. OutcomesStay
  BY <1>1, <1>2 DEF OutcomesStay, Terminal
<1> QED
  BY <1>3, <1>4, <1>5, <1>6, <1>7, <1>8 DEF Kept

\* Taking a row out of the queue leaves the others in it.
LEMMA DequeuedRows ==
  ASSUME NEW q \in Seq(Run), NEW i \in 1 .. Len(q), q = queue
  PROVE  /\ Dequeued(i) \in Seq(Run) /\ Len(Dequeued(i)) = Len(q) - 1
         /\ \A k \in 1 .. Len(q) - 1 : Dequeued(i)[k] = q[IF k < i THEN k ELSE k + 1]
<1> DEFINE f == SubSeq(q, 1, i - 1)  b == SubSeq(q, i + 1, Len(q))
<1>1. f \in Seq(Run) /\ Len(f) = i - 1 /\ \A k \in 1 .. i - 1 : f[k] = q[k]
  OBVIOUS
<1>2. b \in Seq(Run) /\ Len(b) = Len(q) - i /\ \A k \in 1 .. Len(q) - i : b[k] = q[k + i]
  OBVIOUS
<1>3. Dequeued(i) = f \o b
  BY DEF Dequeued
<1> HIDE DEF f, b
<1>4. Dequeued(i) \in Seq(Run) /\ Len(Dequeued(i)) = Len(q) - 1
  BY <1>1, <1>2, <1>3
<1>5. ASSUME NEW k \in 1 .. Len(q) - 1, k < i PROVE Dequeued(i)[k] = q[k]
  BY <1>1, <1>2, <1>3, <1>5
<1>6. ASSUME NEW k \in 1 .. Len(q) - 1, ~ (k < i) PROVE Dequeued(i)[k] = q[k + 1]
  <2>1. k \in 1 .. Len(f) + Len(b) /\ k > Len(f)
    BY <1>1, <1>2, <1>6
  <2>2. (f \o b)[k] = b[k - Len(f)]
    BY <1>1, <1>2, <2>1
  <2> QED
    BY <1>1, <1>2, <1>3, <1>6, <2>2
<1> QED
  BY <1>4, <1>5, <1>6

\* A queued run is dispatched when nobody holds its job: its row's lease and the
\* job's begin together, and no other run can still count on the job.
LEMMA DispatchKeeps ==
  ASSUME JobAssumption, IInv, NEW p \in Process, NEW i \in 1 .. Len(queue), Dispatch(p, i)
  PROVE  Kept
<1> USE DEF IInv
<1> DEFINE r == queue[i]  j == JobOf[r]
<1>0. Manual \subseteq Run /\ Nobody \notin Run /\ NoProcess \notin Process /\ RunLease \in Nat \ {0}
  BY DEF JobAssumption
<1>1. /\ r \in Run /\ r \in Manual /\ row[r] = "queued" /\ at[r] = "none" /\ j \in Job /\ r \notin overlapped
  <2>1. r \in Queued
    BY DEF QueueRight
  <2>2. r \in Run /\ r \in Manual /\ row[r] = "queued" /\ at[r] = "none"
    BY <2>1 DEF QueueRight, Queued, Started
  <2> QED
    BY <2>2 DEF JobAssumption, Spoiled
<1>2. /\ Claimable(j)
      /\ holder' = [holder EXCEPT ![j] = r] /\ leaseLeft' = [leaseLeft EXCEPT ![j] = RunLease]
      /\ row' = [row EXCEPT ![r] = "running"] /\ runLeft' = [runLeft EXCEPT ![r] = RunLease]
      /\ at' = [at EXCEPT ![r] = "authorise"] /\ proc' = [proc EXCEPT ![r] = p]
      /\ queue' = Dequeued(i)
      /\ outcome' = outcome /\ lost' = lost /\ overlapped' = overlapped
      /\ enabled' = enabled /\ down' = down /\ changes' = changes
  BY DEF Dispatch, ClaimLease, envVars
<1> HIDE DEF r, j
<1>3. \A s \in Run : /\ row'[s] = IF s = r THEN "running" ELSE row[s]
                     /\ runLeft'[s] = IF s = r THEN RunLease ELSE runLeft[s]
                     /\ at'[s] = IF s = r THEN "authorise" ELSE at[s]
                     /\ proc'[s] = IF s = r THEN p ELSE proc[s]
  BY <1>2 DEF Typed, RowsTyped, RunsTyped
<1>4. \A k \in Job : /\ holder'[k] = IF k = j THEN r ELSE holder[k]
                     /\ leaseLeft'[k] = IF k = j THEN RunLease ELSE leaseLeft[k]
  BY <1>2 DEF Typed, LeasesTyped
<1>5. Typed'
  <2>4. row' \in [Run -> Terminal \cup {"none", "queued", "running"}]
    BY <1>2 DEF Typed, RowsTyped
  <2>5. runLeft' \in [Run -> 0 .. RunLease]
    <3>1. runLeft \in [Run -> 0 .. RunLease] /\ RunLease \in 0 .. RunLease
      BY <1>0 DEF Typed, RowsTyped
    <3>2. runLeft' = [runLeft EXCEPT ![r] = RunLease]
      BY <1>2
    <3> QED
      BY <3>1, <3>2
  <2>1. RowsTyped'
    BY <2>4, <2>5 DEF RowsTyped
  <2>2. LeasesTyped'
    BY <1>0, <1>1, <1>2 DEF Typed, LeasesTyped, Longest, JobAssumption
  <2>3. RunsTyped'
    BY <1>2 DEF Typed, RunsTyped, Labels
  <2> QED
    BY <1>2, <2>1, <2>2, <2>3 DEF Typed, EnvTyped
<1>6. QueueRight'
  <2>1. Queued' = Queued \ {r} /\ r \in Queued
    BY <1>1, <1>3 DEF Queued
  <2>2. IsFiniteSet(Queued') /\ Cardinality(Queued') = Cardinality(Queued) - 1
    BY <2>1, FS_RemoveElement, Zenon DEF QueueRight
  <2>3. /\ queue' \in Seq(Run) /\ Len(queue') = Len(queue) - 1 /\ Len(queue) \in Nat
        /\ \A k \in 1 .. Len(queue) - 1 : queue'[k] = queue[IF k < i THEN k ELSE k + 1]
    <3>1. queue \in Seq(Run)
      BY DEF QueueRight
    <3>2. Len(queue) \in Nat
      BY <3>1
    <3> QED
      BY <1>2, <3>1, <3>2, DequeuedRows
  <2>7. \A k \in 1 .. Len(queue') :
          \E m \in 1 .. Len(queue) : queue'[k] = queue[m] /\ m # i /\ m = IF k < i THEN k ELSE k + 1
    <3> TAKE k \in 1 .. Len(queue')
    <3>1. k \in 1 .. Len(queue) - 1 /\ (IF k < i THEN k ELSE k + 1) \in 1 .. Len(queue)
          /\ (IF k < i THEN k ELSE k + 1) # i
      BY <2>3
    <3> QED
      BY <2>3, <3>1
  <2>4. \A m, k \in 1 .. Len(queue') : queue'[m] = queue'[k] => m = k
    <3> SUFFICES ASSUME NEW m \in 1 .. Len(queue'), NEW k \in 1 .. Len(queue'), queue'[m] = queue'[k]
                 PROVE  m = k
      OBVIOUS
    <3>1. PICK a \in 1 .. Len(queue) : queue'[m] = queue[a] /\ a = IF m < i THEN m ELSE m + 1
      BY <2>7
    <3>2. PICK b \in 1 .. Len(queue) : queue'[k] = queue[b] /\ b = IF k < i THEN k ELSE k + 1
      BY <2>7
    <3>3. a = b
      BY <3>1, <3>2 DEF QueueRight
    <3> QED
      BY <3>1, <3>2, <3>3
  <2>5. ASSUME NEW k \in 1 .. Len(queue') PROVE queue'[k] \in Queued'
    <3>1. PICK m \in 1 .. Len(queue) : queue'[k] = queue[m] /\ m # i
      BY <2>7
    <3>2. queue[m] # r /\ queue[m] \in Queued
      BY <3>1 DEF QueueRight, r
    <3> QED
      BY <2>1, <3>1, <3>2
  <2>6. ASSUME NEW s \in Queued' PROVE \E k \in 1 .. Len(queue') : queue'[k] = s
    <3>1. PICK m \in 1 .. Len(queue) : queue[m] = s
      BY <2>1 DEF QueueRight, Queued
    <3>2. m # i
      BY <2>1, <3>1 DEF r
    <3>3. CASE m < i
      BY <2>3, <3>1, <3>3
    <3>4. CASE m > i
      <4>1. m - 1 \in 1 .. Len(queue') /\ ~ (m - 1 < i)
        BY <2>3, <3>4
      <4>2. queue'[m - 1] = queue[m]
        BY <2>3, <4>1
      <4> QED
        BY <3>1, <4>1, <4>2
    <3> QED
      BY <3>2, <3>3, <3>4
  <2> QED
    BY <2>1, <2>2, <2>3, <2>4, <2>5, <2>6 DEF QueueRight
<1>7. Started'
  BY <1>0, <1>3 DEF Started
<1>8. Holders'
  <2> SUFFICES ASSUME NEW k \in Job, holder'[k] # Nobody
               PROVE  JobOf[holder'[k]] = k /\ at'[holder'[k]] # "none"
    BY DEF Holders
  <2>1. CASE k = j
    BY <1>1, <1>3, <1>4, <2>1 DEF j
  <2>2. CASE k # j
    <3>1. holder'[k] = holder[k] /\ holder[k] \in Run
      BY <1>4, <2>2 DEF Typed, LeasesTyped
    <3> QED
      BY <1>3, <3>1 DEF Holders
  <2> QED
    BY <2>1, <2>2
<1>9. HoldsJob'
  <2> SUFFICES ASSUME NEW m \in Manual, at'[m] \in Working, m \notin lost, Live(m)'
               PROVE  holder'[JobOf[m]] = m /\ leaseLeft'[JobOf[m]] >= runLeft'[m]
    BY <1>2 DEF HoldsJob
  <2>1. CASE m = r
    BY <1>0, <1>1, <1>3, <1>4, <2>1 DEF j
  <2>2. CASE m # r
    <3>1. m \in Run /\ JobOf[m] \in Job /\ at[m] \in Working /\ Live(m)
      BY <1>0, <1>3, <2>2 DEF JobAssumption, Live
    <3>2. holder[JobOf[m]] = m /\ leaseLeft[JobOf[m]] >= runLeft[m] /\ runLeft[m] > 0
      BY <3>1 DEF HoldsJob, Live
    <3>3. JobOf[m] # j
      BY <1>0, <1>2, <3>1, <3>2 DEF Claimable, Typed, RowsTyped, LeasesTyped
    <3> QED
      BY <1>3, <1>4, <2>2, <3>1, <3>2, <3>3
  <2> QED
    BY <2>1, <2>2
<1>10. Spoiled'
  <2> SUFFICES ASSUME NEW m \in overlapped
               PROVE  /\ row'[m] # "succeeded" /\ at'[m] # "none"
                      /\ at'[m] \in Working => m \in lost \/ ~ Live(m)'
    BY <1>2 DEF Spoiled
  <2>1. m \in Run /\ m # r
    BY <1>0, <1>1 DEF Typed, RunsTyped
  <2>2. row'[m] = row[m] /\ runLeft'[m] = runLeft[m] /\ at'[m] = at[m]
    BY <1>3, <2>1
  <2> QED
    BY <2>2 DEF Spoiled, Live
<1>11. OutcomesStay
  BY <1>1, <1>3 DEF OutcomesStay, Terminal
<1> QED
  BY <1>5, <1>6, <1>7, <1>8, <1>9, <1>10, <1>11 DEF Kept

\* A cron tick starts a run that no lease, queue or manual run knows of yet.
LEMMA ScheduleKeeps ==
  ASSUME JobAssumption, IInv, NEW r \in Run, NEW p \in Process, Schedule(r, p)
  PROVE  Kept
<1> USE DEF IInv
<1>0. Manual \subseteq Run /\ NoProcess \notin Process /\ RunLease \in Nat \ {0}
  BY DEF JobAssumption
<1>1. /\ r \notin Manual /\ at[r] = "none" /\ row[r] = "none"
      /\ \/ row' = [row EXCEPT ![r] = "running"] /\ runLeft' = [runLeft EXCEPT ![r] = RunLease]
         \/ row' = row /\ runLeft' = runLeft
      /\ at' = [at EXCEPT ![r] = "entry"] /\ proc' = [proc EXCEPT ![r] = p]
      /\ queue' = queue /\ holder' = holder /\ leaseLeft' = leaseLeft
      /\ outcome' = outcome /\ lost' = lost /\ overlapped' = overlapped
      /\ enabled' = enabled /\ down' = down /\ changes' = changes
  BY DEF Schedule, leaseVars, envVars, Started, QueueRight, Queued
<1>2. \A s \in Run : /\ s # r => row'[s] = row[s] /\ runLeft'[s] = runLeft[s]
                     /\ at'[s] = IF s = r THEN "entry" ELSE at[s]
                     /\ proc'[s] = IF s = r THEN p ELSE proc[s]
  BY <1>1 DEF Typed, RowsTyped, RunsTyped
<1>3. row'[r] \in {"none", "running"}
  BY <1>1 DEF Typed, RowsTyped
<1>4. Typed'
  <2>1. RowsTyped'
    BY <1>0, <1>1 DEF Typed, RowsTyped
  <2>2. RunsTyped'
    BY <1>1 DEF Typed, RunsTyped, Labels
  <2> QED
    BY <1>1, <2>1, <2>2 DEF Typed, LeasesTyped, EnvTyped
<1>5. QueueRight'
  <2>1. Queued' = Queued
    BY <1>1, <1>2, <1>3 DEF Queued
  <2> QED
    BY <1>1, <2>1 DEF QueueRight
<1>6. Started'
  BY <1>0, <1>1, <1>2, <1>3 DEF Started
<1>7. Holders'
  BY <1>1, <1>2 DEF Holders, Typed, LeasesTyped
<1>8. \A m \in Manual : m \in Run /\ row'[m] = row[m] /\ runLeft'[m] = runLeft[m] /\ at'[m] = at[m]
  BY <1>0, <1>1, <1>2
<1>9. HoldsJob' /\ Spoiled'
  BY <1>1, <1>8 DEF HoldsJob, Spoiled, Live, Typed, RunsTyped
<1>10. OutcomesStay
  BY <1>1, <1>2 DEF OutcomesStay, Terminal
<1> QED
  BY <1>4, <1>5, <1>6, <1>7, <1>9, <1>10 DEF Kept

-----------------------------------------------------------------------------
(* Runs at work *)

\* A step of one run that leaves the leases and what others made of it alone, and
\* does not give it back a right it lost.
LEMMA MovesKeep ==
  ASSUME JobAssumption, IInv, NEW r \in Run, NEW to \in Labels,
         at[r] # "none", at' = [at EXCEPT ![r] = to],
         to # "none", r \in Manual => to # "entry", to \in Working /\ r \in Manual => at[r] \in Working,
         at[r] \in {"release", "done"} /\ r \in Manual => to \in {"release", "done"},
         UNCHANGED <<row, runLeft, queue, holder, leaseLeft, proc, overlapped, enabled, down, changes>>,
         outcome' \in [Run -> Terminal], lost \subseteq lost', lost' \subseteq Run
  PROVE  Kept
<1> USE DEF IInv
<1>0. Manual \subseteq Run
  BY DEF JobAssumption
<1>1. \A s \in Run : at'[s] = IF s = r THEN to ELSE at[s]
  BY DEF Typed, RunsTyped
<1>2. Typed'
  <2>1. at' \in [Run -> Labels]
    BY DEF Typed, RunsTyped
  <2> QED
    BY <2>1 DEF Typed, RowsTyped, LeasesTyped, RunsTyped, EnvTyped
<1>3. \A s \in Run : at'[s] = "none" <=> at[s] = "none"
  BY <1>1
<1>4. \A s \in Manual :
        /\ at'[s] \in Working => at[s] \in Working /\ (s \in lost => s \in lost')
        /\ at[s] \in {"release", "done"} => at'[s] \in {"release", "done"}
        /\ at'[s] # "entry"
  BY <1>0, <1>1 DEF Started
<1>5. \A s \in Run : row'[s] = row[s] /\ runLeft'[s] <= runLeft[s]
  BY DEF Typed, RowsTyped
<1>6. \A s \in Manual : holder'[JobOf[s]] = holder[JobOf[s]] /\ leaseLeft'[JobOf[s]] = leaseLeft[JobOf[s]]
                        /\ runLeft'[s] = runLeft[s]
  OBVIOUS
<1>7. queue' = queue /\ proc' = proc /\ overlapped' = overlapped /\ holder' = holder
  OBVIOUS
<1> QED
  BY <1>2, <1>3, <1>4, <1>5, <1>6, <1>7, OngoingKeeps

\* What a statement that closes rows does to them.
LEMMA RecordedRows ==
  ASSUME JobAssumption, IInv, NEW states \in [Run -> Terminal \cup {"none", "queued", "running"}],
         Record(states)
  PROVE  /\ RowsTyped'
         /\ \A r \in Run : row'[r] = states[r] /\ runLeft'[r] <= runLeft[r]
<1>1. row' = states /\ runLeft' = [r \in Run |-> IF states[r] \in Terminal THEN 0 ELSE runLeft[r]]
  BY DEF Record
<1>2. runLeft \in [Run -> 0 .. RunLease] /\ RunLease \in Nat
  BY DEF IInv, Typed, RowsTyped, JobAssumption
<1>3. runLeft' \in [Run -> 0 .. RunLease]
  BY <1>1, <1>2
<1>4. \A r \in Run : runLeft'[r] <= runLeft[r]
  BY <1>1, <1>2
<1> QED
  BY <1>1, <1>3, <1>4 DEF RowsTyped

\* The first step of a dispatched run: it goes on, fails, or is failed in its row.
LEMMA AuthoriseKeeps ==
  ASSUME JobAssumption, IInv, NEW r \in Run, Authorise(r)
  PROVE  Kept
<1> USE DEF IInv
<1>0. Manual \subseteq Run /\ at[r] = "authorise" /\ outcome \in [Run -> Terminal] /\ lost \subseteq Run
  BY DEF JobAssumption, Authorise, Typed, RunsTyped
<1>1. /\ queue' = queue /\ holder' = holder /\ leaseLeft' = leaseLeft /\ proc' = proc
      /\ lost' = lost /\ overlapped' = overlapped /\ enabled' = enabled /\ down' = down /\ changes' = changes
  BY DEF Authorise, leaseVars, envVars
<1>2. CASE at' = [at EXCEPT ![r] = "check"] /\ row' = row /\ runLeft' = runLeft /\ outcome' = outcome
  BY <1>0, <1>1, <1>2, MovesKeep DEF Labels, Working
<1>3. CASE End(r, "failed") /\ row' = row /\ runLeft' = runLeft
  <2>1. outcome' \in [Run -> Terminal]
    BY <1>0, <1>3 DEF End, Terminal
  <2>2. PICK to \in {"finish", "release"} : at' = [at EXCEPT ![r] = to]
    BY <1>3 DEF End
  <2> QED
    BY <1>0, <1>1, <1>3, <2>1, <2>2, MovesKeep DEF Labels, Working
<1>4. CASE /\ Record([row EXCEPT ![r] = IF Live(r) THEN "failed" ELSE row[r]])
           /\ at' = [at EXCEPT ![r] = "release"] /\ outcome' = outcome
  <2> DEFINE states == [row EXCEPT ![r] = IF Live(r) THEN "failed" ELSE row[r]]
  <2>1. states \in [Run -> Terminal \cup {"none", "queued", "running"}]
    BY DEF Typed, RowsTyped, Terminal
  <2>2. \A s \in Run : states[s] = row[s] \/ (row[s] = "running" /\ states[s] = "failed")
    BY DEF Typed, RowsTyped, Live
  <2> HIDE DEF states
  <2>3. RowsTyped' /\ \A s \in Run : row'[s] = states[s] /\ runLeft'[s] <= runLeft[s]
    BY <1>4, <2>1, RecordedRows DEF states
  <2>4. \A s \in Run : at'[s] = IF s = r THEN "release" ELSE at[s]
    BY <1>4 DEF Typed, RunsTyped
  <2>5. Typed'
    <3>1. at' \in [Run -> Labels]
      BY <1>4 DEF Typed, RunsTyped, Labels
    <3> QED
      BY <1>1, <1>4, <2>3, <3>1 DEF Typed, LeasesTyped, RunsTyped, EnvTyped
  <2>6. \A s \in Run : /\ at'[s] = "none" <=> at[s] = "none"
                       /\ row'[s] = row[s] \/ (row[s] = "running" /\ row'[s] = "failed")
    BY <1>0, <2>2, <2>3, <2>4
  <2>7. \A s \in Manual :
          /\ at'[s] \in Working => at[s] \in Working /\ (s \in lost => s \in lost')
          /\ at[s] \in {"release", "done"} => at'[s] \in {"release", "done"}
          /\ at'[s] # "entry"
    BY <1>0, <1>1, <2>4 DEF Started, Working
  <2>8. \A s \in Manual : holder'[JobOf[s]] = holder[JobOf[s]] /\ leaseLeft'[JobOf[s]] = leaseLeft[JobOf[s]]
                          /\ leaseLeft[JobOf[s]] \in Nat /\ runLeft[s] \in Nat /\ runLeft'[s] \in Nat
                          /\ runLeft'[s] <= runLeft[s]
    BY <1>0, <1>1, <2>3, <2>5 DEF Typed, RowsTyped, LeasesTyped, JobAssumption, Longest
  <2> QED
    BY <1>0, <1>1, <2>3, <2>5, <2>6, <2>7, <2>8, OngoingKeeps DEF Terminal
<1> QED
  BY <1>2, <1>3, <1>4 DEF Authorise

\* A scheduled run takes the job's lease only when no manual run can count on it.
LEMMA TakeLeaseKeeps ==
  ASSUME JobAssumption, IInv, NEW r \in Run, TakeLease(r)
  PROVE  Kept
<1> USE DEF IInv
<1>0. /\ Manual \subseteq Run /\ Nobody \notin Run /\ at[r] = "entry" /\ r \notin Manual
      /\ outcome \in [Run -> Terminal] /\ lost \subseteq Run /\ JobLease \in Nat \ {0}
  BY DEF JobAssumption, TakeLease, Typed, RunsTyped, Started
<1>1. /\ row' = row /\ runLeft' = runLeft /\ queue' = queue /\ proc' = proc
      /\ lost' = lost /\ overlapped' = overlapped /\ enabled' = enabled /\ down' = down /\ changes' = changes
  BY DEF TakeLease, rowVars, envVars
<1>2. CASE /\ at' = [at EXCEPT ![r] = "finish"] /\ outcome' \in [Run -> Terminal]
           /\ holder' = holder /\ leaseLeft' = leaseLeft
  BY <1>0, <1>1, <1>2, MovesKeep DEF Labels, Working
<1>3. CASE /\ Claimable(JobOf[r]) /\ ClaimLease(r, JobLease) /\ at' = [at EXCEPT ![r] = "check"]
           /\ outcome' = outcome
  <2> DEFINE j == JobOf[r]
  <2>0. j \in Job
    BY DEF JobAssumption
  <2>1. \A k \in Job : /\ holder'[k] = IF k = j THEN r ELSE holder[k]
                       /\ leaseLeft'[k] = IF k = j THEN JobLease ELSE leaseLeft[k]
    BY <1>3 DEF ClaimLease, Typed, LeasesTyped
  <2>2. \A s \in Run : at'[s] = IF s = r THEN "check" ELSE at[s]
    BY <1>3 DEF Typed, RunsTyped
  <2>3. Typed'
    <3>1. LeasesTyped'
      BY <1>0, <1>3, <2>0 DEF ClaimLease, Typed, LeasesTyped, Longest, JobAssumption
    <3>2. at' \in [Run -> Labels]
      BY <1>3 DEF Typed, RunsTyped, Labels
    <3> QED
      BY <1>1, <1>3, <3>1, <3>2 DEF Typed, RowsTyped, RunsTyped, EnvTyped
  <2>4. ASSUME NEW m \in Manual, Live(m)', holder[JobOf[m]] = m, leaseLeft[JobOf[m]] >= runLeft[m]
        PROVE  holder'[JobOf[m]] = m /\ leaseLeft'[JobOf[m]] >= runLeft'[m]
    <3>1. JobOf[m] \in Job /\ m \in Run /\ runLeft[m] > 0
      BY <1>0, <1>1, <2>4 DEF JobAssumption, Live
    <3>2. JobOf[m] # j
      BY <1>0, <1>3, <2>4, <3>1 DEF Claimable, Typed, RowsTyped, LeasesTyped
    <3> QED
      BY <1>1, <2>1, <2>4, <3>1, <3>2
  <2>5. \A k \in Job : holder'[k] = holder[k] \/ (JobOf[holder'[k]] = k /\ at[holder'[k]] # "none" /\ holder'[k] \in Run)
    BY <1>0, <2>1
  <2>6. \A s \in Run : at'[s] = "none" <=> at[s] = "none"
    BY <1>0, <2>2
  <2>7. \A s \in Manual :
          /\ at'[s] \in Working => at[s] \in Working /\ (s \in lost => s \in lost')
          /\ at[s] \in {"release", "done"} => at'[s] \in {"release", "done"}
          /\ at'[s] # "entry"
    BY <1>0, <1>1, <2>2 DEF Started
  <2>8. \A s \in Run : row'[s] = row[s] /\ runLeft'[s] <= runLeft[s]
    BY <1>1 DEF Typed, RowsTyped
  <2> QED
    BY <1>1, <2>3, <2>4, <2>5, <2>6, <2>7, <2>8, OngoingKeeps
<1> QED
  BY <1>0, <1>2, <1>3 DEF TakeLease, leaseVars, Terminal

\* A run that passes its check owns the job: what goes on beside it has lost it.
LEMMA BeginKeeps ==
  ASSUME JobAssumption, IInv, NEW r \in Run, Begin(r)
  PROVE  Kept
<1> USE DEF IInv
<1>0. Manual \subseteq Run /\ at[r] = "check" /\ Owned(r)
  BY DEF JobAssumption, Begin
<1>1. /\ row' = row /\ runLeft' = runLeft /\ queue' = queue /\ holder' = holder /\ leaseLeft' = leaseLeft
      /\ at' = [at EXCEPT ![r] = "work"] /\ proc' = proc /\ outcome' = outcome /\ lost' = lost
      /\ enabled' = enabled /\ down' = down /\ changes' = changes
      /\ overlapped' = IF Recorded(r) THEN overlapped \cup DuringManual(r) ELSE overlapped
  BY DEF Begin, rowVars, leaseVars, envVars
<1>2. \A s \in Run : at'[s] = IF s = r THEN "work" ELSE at[s]
  BY <1>1 DEF Typed, RunsTyped
<1>3. ASSUME NEW m \in DuringManual(r), Recorded(r)
      PROVE  m \in Manual /\ at[m] \in Working /\ (m \in lost \/ ~ Live(m))
  <2>1. m \in Manual /\ m # r /\ JobOf[m] = JobOf[r] /\ at[m] \in Working
    BY DEF DuringManual, Working
  <2>2. OwnsRow(r)
    BY <1>0, <1>3 DEF Owned, OwnsLease
  <2>3. holder[JobOf[m]] # m
    BY <1>0, <2>1, <2>2, OnlyItself
  <2> QED
    BY <2>1, <2>3 DEF HoldsJob
<1>4. Typed'
  <2>1. at' \in [Run -> Labels]
    BY <1>1 DEF Typed, RunsTyped, Labels
  <2>2. overlapped' \subseteq Manual
    BY <1>1 DEF Typed, RunsTyped, DuringManual
  <2> QED
    BY <1>1, <2>1, <2>2 DEF Typed, RowsTyped, LeasesTyped, RunsTyped, EnvTyped
<1>5. \A s \in Run : at'[s] = "none" <=> at[s] = "none"
  BY <1>0, <1>2
<1>6. \A s \in Manual :
        /\ at'[s] \in Working => at[s] \in Working /\ (s \in lost => s \in lost')
        /\ at[s] \in {"release", "done"} => at'[s] \in {"release", "done"}
        /\ at'[s] # "entry"
  BY <1>0, <1>1, <1>2 DEF Started, Working
<1>7. \A s \in Run : row'[s] = row[s] /\ runLeft'[s] <= runLeft[s] /\ runLeft'[s] = runLeft[s]
  BY <1>1 DEF Typed, RowsTyped
<1>8. \A m \in overlapped' : m \in overlapped \/ (m \in Manual /\ at[m] \in Working /\ (m \in lost \/ ~ Live(m)))
  BY <1>1, <1>3
<1> QED
  BY <1>0, <1>1, <1>4, <1>5, <1>6, <1>7, <1>8, OngoingKeeps

\* The rest of the work loop moves one run on.
LEMMA WorkKeeps ==
  ASSUME JobAssumption, IInv, NEW r \in Run, Stop(r) \/ GoOn(r) \/ Complete(r)
  PROVE  Kept
<1>0. at[r] \in {"check", "work"} /\ outcome \in [Run -> Terminal] /\ lost \subseteq Run
  BY DEF Stop, GoOn, Complete, IInv, Typed, RunsTyped
<1>1. /\ row' = row /\ runLeft' = runLeft /\ queue' = queue /\ holder' = holder /\ leaseLeft' = leaseLeft
      /\ proc' = proc /\ lost' = lost /\ overlapped' = overlapped
      /\ enabled' = enabled /\ down' = down /\ changes' = changes
  BY DEF Stop, GoOn, Complete, rowVars, leaseVars, envVars
<1>2. outcome' \in [Run -> Terminal]
  BY <1>0 DEF Stop, GoOn, Complete, End, Terminal
<1>3. \E to \in {"check", "finish", "release"} : at' = [at EXCEPT ![r] = to]
  BY DEF Stop, GoOn, Complete, End
<1> QED
  BY <1>0, <1>1, <1>2, <1>3, MovesKeep DEF Labels, Working

-----------------------------------------------------------------------------
(* The end of a run *)

\* An outcome is written over a running row only, success by a run in good order.
LEMMA OutcomeRecorded ==
  ASSUME JobAssumption, IInv, NEW r \in Run
  PROVE  \/ RecordedOutcome(r) = row[r]
         \/ /\ row[r] = "running" /\ RecordedOutcome(r) \in Terminal
            /\ RecordedOutcome(r) = "succeeded" => r \notin lost /\ Live(r)
<1>1. outcome[r] \in Terminal
  BY DEF IInv, Typed, RunsTyped
<1> QED
  BY <1>1 DEF RecordedOutcome, Live, Terminal

\* A run's last statement on its row; a scheduled run is over with it.
LEMMA FinishKeeps ==
  ASSUME JobAssumption, IInv, NEW r \in Run, Finish(r)
  PROVE  Kept
<1> USE DEF IInv
<1>0. /\ Manual \subseteq Run /\ at[r] = "finish" /\ outcome \in [Run -> Terminal] /\ lost \subseteq Run
      /\ at \in [Run -> Labels]
  BY DEF JobAssumption, Finish, Typed, RunsTyped
<1>1. /\ queue' = queue /\ holder' = holder /\ leaseLeft' = leaseLeft /\ proc' = proc
      /\ overlapped' = overlapped /\ enabled' = enabled /\ down' = down /\ changes' = changes
  BY DEF Finish, leaseVars, envVars
<1>2. /\ RowsTyped'
      /\ \A s \in Run : runLeft'[s] <= runLeft[s]
      /\ \A s \in Run : row'[s] = row[s] \/ (s = r /\ row'[s] = RecordedOutcome(r))
  <2>1. CASE row' = row /\ runLeft' = runLeft
    BY <2>1 DEF Typed, RowsTyped
  <2>2. CASE Record([row EXCEPT ![r] = RecordedOutcome(r)])
    <3> DEFINE states == [row EXCEPT ![r] = RecordedOutcome(r)]
    <3>1. states \in [Run -> Terminal \cup {"none", "queued", "running"}]
      BY OutcomeRecorded DEF Typed, RowsTyped
    <3>2. \A s \in Run : states[s] = IF s = r THEN RecordedOutcome(r) ELSE row[s]
      BY DEF Typed, RowsTyped
    <3> HIDE DEF states
    <3>3. RowsTyped' /\ \A s \in Run : row'[s] = states[s] /\ runLeft'[s] <= runLeft[s]
      BY <2>2, <3>1, RecordedRows DEF states
    <3> QED
      BY <3>2, <3>3
  <2> QED
    BY <2>1, <2>2 DEF Finish
<1>3. /\ outcome' \in [Run -> Terminal] /\ lost' \subseteq Run /\ at' \in [Run -> Labels]
      /\ \A s \in Run : at'[s] = IF s # r THEN at[s] ELSE IF r \in Manual THEN "release" ELSE "done"
      /\ \A s \in Manual : s \in lost => s \in lost'
  <2>1. CASE r \in Manual
    BY <1>0, <2>1 DEF Finish, Labels
  <2>2. CASE r \notin Manual
    <3>1. Return({r})
      BY <2>2 DEF Finish
    <3>2. at' \in [Run -> Labels] /\ \A s \in Run : at'[s] = IF s # r THEN at[s] ELSE "done"
      BY <1>0, <3>1 DEF Return, Labels
    <3>3. outcome' \in [Run -> Terminal]
      BY <1>0, <3>1 DEF Return, Terminal
    <3>4. lost' = lost \ {r}
      BY <3>1 DEF Return
    <3> QED
      BY <1>0, <2>2, <3>2, <3>3, <3>4
  <2> QED
    BY <2>1, <2>2
<1>4. Typed'
  BY <1>1, <1>2, <1>3 DEF Typed, LeasesTyped, RunsTyped, EnvTyped
<1>5. \A s \in Run : at'[s] = "none" <=> at[s] = "none"
  BY <1>0, <1>3
<1>6. \A s \in Run :
        \/ row'[s] = row[s]
        \/ /\ row[s] = "running" /\ row'[s] \in Terminal
           /\ row'[s] = "succeeded" /\ s \in Manual =>
                at[s] = "finish" /\ at'[s] = "release" /\ s \notin lost /\ Live(s)
  BY <1>0, <1>2, <1>3, OutcomeRecorded
<1>7. \A s \in Manual :
        /\ at'[s] \in Working => at[s] \in Working /\ (s \in lost => s \in lost')
        /\ at[s] \in {"release", "done"} => at'[s] \in {"release", "done"}
        /\ at'[s] # "entry"
  BY <1>0, <1>3 DEF Started, Working
<1>8. \A s \in Manual : holder'[JobOf[s]] = holder[JobOf[s]] /\ leaseLeft'[JobOf[s]] = leaseLeft[JobOf[s]]
                        /\ leaseLeft[JobOf[s]] \in Nat /\ runLeft[s] \in Nat /\ runLeft'[s] \in Nat
                        /\ runLeft'[s] <= runLeft[s]
  BY <1>0, <1>1, <1>2 DEF Typed, RowsTyped, LeasesTyped, JobAssumption, Longest
<1> QED
  BY <1>0, <1>1, <1>2, <1>4, <1>5, <1>6, <1>7, <1>8, OngoingKeeps

\* The lease a run gives up is no working manual run's.
LEMMA ReleaseKeeps ==
  ASSUME JobAssumption, IInv, NEW r \in Run, Release(r)
  PROVE  Kept
<1> USE DEF IInv
<1>0. /\ Manual \subseteq Run /\ at[r] = "release" /\ outcome \in [Run -> Terminal] /\ lost \subseteq Run
      /\ at \in [Run -> Labels] /\ JobOf[r] \in Job
  BY DEF JobAssumption, Release, Typed, RunsTyped
<1>1. /\ row' = row /\ runLeft' = runLeft /\ queue' = queue /\ proc' = proc
      /\ overlapped' = overlapped /\ enabled' = enabled /\ down' = down /\ changes' = changes
  BY DEF Release, rowVars, envVars
<1>2. /\ outcome' \in [Run -> Terminal] /\ lost' \subseteq Run /\ at' \in [Run -> Labels]
      /\ \A s \in Run : at'[s] = IF s # r THEN at[s] ELSE IF r \in Manual THEN "done" ELSE "finish"
      /\ \A s \in Run \ {r} : s \in lost => s \in lost'
  <2>1. CASE r \notin Manual
    BY <1>0, <2>1 DEF Release, Labels
  <2>2. CASE r \in Manual
    <3>1. Return({r})
      BY <2>2 DEF Release
    <3>2. at' \in [Run -> Labels] /\ \A s \in Run : at'[s] = IF s # r THEN at[s] ELSE "done"
      BY <1>0, <3>1 DEF Return, Labels
    <3>3. outcome' \in [Run -> Terminal]
      BY <1>0, <3>1 DEF Return, Terminal
    <3>4. lost' = lost \ {r}
      BY <3>1 DEF Return
    <3> QED
      BY <1>0, <2>2, <3>2, <3>3, <3>4
  <2> QED
    BY <2>1, <2>2
<1>3. /\ LeasesTyped'
      /\ \A j \in Job : \/ holder'[j] = holder[j] /\ leaseLeft'[j] = leaseLeft[j]
                        \/ holder'[j] = Nobody /\ j = JobOf[r] /\ OwnsRow(r)
  <2>1. CASE holder' = holder /\ leaseLeft' = leaseLeft
    BY <2>1 DEF Typed, LeasesTyped
  <2>2. CASE /\ OwnsRow(r) /\ holder' = [holder EXCEPT ![JobOf[r]] = Nobody]
             /\ leaseLeft' = [leaseLeft EXCEPT ![JobOf[r]] = 0]
    <3>1. 0 \in 0 .. Longest
      BY DEF Longest, JobAssumption
    <3> QED
      BY <2>2, <3>1 DEF Typed, LeasesTyped
  <2> QED
    BY <2>1, <2>2 DEF Release, leaseVars
<1>4. Typed'
  BY <1>1, <1>2, <1>3 DEF Typed, RowsTyped, RunsTyped, EnvTyped
<1>5. \A s \in Run : /\ at'[s] = "none" <=> at[s] = "none"
                     /\ row'[s] = row[s] /\ runLeft'[s] <= runLeft[s] /\ runLeft'[s] = runLeft[s]
  BY <1>0, <1>1, <1>2 DEF Typed, RowsTyped
<1>6. \A s \in Manual :
        /\ at'[s] \in Working => at[s] \in Working /\ (s \in lost => s \in lost')
        /\ at[s] \in {"release", "done"} => at'[s] \in {"release", "done"}
        /\ at'[s] # "entry"
  BY <1>0, <1>2 DEF Started, Working
<1>7. ASSUME NEW m \in Manual, at'[m] \in Working, holder[JobOf[m]] = m
      PROVE  holder'[JobOf[m]] = holder[JobOf[m]] /\ leaseLeft'[JobOf[m]] = leaseLeft[JobOf[m]]
  <2>1. JobOf[m] \in Job /\ m # r
    BY <1>0, <1>2, <1>7 DEF JobAssumption, Working
  <2>2. ~ (JobOf[m] = JobOf[r] /\ OwnsRow(r))
    BY <1>0, <1>7, <2>1, OnlyItself
  <2> QED
    BY <1>3, <2>1, <2>2
<1>8. \A m \in Manual :
        /\ at'[m] \in Working /\ m \notin lost' /\ Live(m)'
        /\ holder[JobOf[m]] = m /\ leaseLeft[JobOf[m]] >= runLeft[m]
        => holder'[JobOf[m]] = m /\ leaseLeft'[JobOf[m]] >= runLeft'[m]
  BY <1>0, <1>5, <1>7
<1>9. \A j \in Job : holder'[j] = holder[j] \/ holder'[j] = Nobody
  BY <1>3
<1>10. \A m \in overlapped' : m \in overlapped
  BY <1>1
<1> QED
  BY <1>1, <1>4, <1>5, <1>6, <1>8, <1>9, <1>10, OngoingKeeps

-----------------------------------------------------------------------------
(* Heartbeats, expiry, time, and what happens around runs *)

\* A manual run's heartbeat renews both leases or tells the run that it lost one.
LEMMA HeartbeatKeeps ==
  ASSUME JobAssumption, IInv, NEW r \in Run, Heartbeat(r)
  PROVE  Kept
<1> USE DEF IInv
<1>0. Manual \subseteq Run /\ RunLease \in Nat \ {0} /\ JobOf[r] \in Job /\ lost \subseteq Run
  BY DEF JobAssumption, Typed, RunsTyped
<1>1. /\ row' = row /\ queue' = queue /\ holder' = holder /\ at' = at /\ proc' = proc
      /\ outcome' = outcome /\ overlapped' = overlapped
      /\ enabled' = enabled /\ down' = down /\ changes' = changes
  BY DEF Heartbeat, envVars
<1>2. /\ runLeft' \in [Run -> 0 .. RunLease]
      /\ \A s \in Run : runLeft'[s] = IF s = r /\ Live(r) THEN RunLease ELSE runLeft[s]
  <2>1. runLeft \in [Run -> 0 .. RunLease] /\ RunLease \in 0 .. RunLease
    BY <1>0 DEF Typed, RowsTyped
  <2> QED
    BY <2>1 DEF Heartbeat
<1>3. /\ leaseLeft' \in [Job -> 0 .. Longest]
      /\ \A j \in Job : \/ leaseLeft'[j] = leaseLeft[j]
                        \/ leaseLeft'[j] = RunLease
      /\ r \in Manual /\ OwnsLease(r) /\ Live(r) => leaseLeft'[JobOf[r]] = RunLease
  <2>1. leaseLeft \in [Job -> 0 .. Longest] /\ RunLease \in 0 .. Longest
    BY DEF Typed, LeasesTyped, Longest, JobAssumption
  <2>2. CASE leaseLeft' = leaseLeft /\ ~ (r \in Manual /\ OwnsLease(r) /\ Live(r))
    BY <2>1, <2>2
  <2>3. CASE leaseLeft' = [leaseLeft EXCEPT ![JobOf[r]] = RunLease]
    BY <1>0, <2>1, <2>3
  <2> QED
    BY <2>2, <2>3 DEF Heartbeat, Renewed
<1>4. /\ lost \subseteq lost' /\ lost' \subseteq Run
      /\ r \in Manual /\ r \notin lost' /\ Live(r) => OwnsLease(r)
  BY <1>0 DEF Heartbeat
<1>5. Typed'
  BY <1>1, <1>2, <1>3, <1>4 DEF Typed, RowsTyped, LeasesTyped, RunsTyped, EnvTyped
<1>6. \A s \in Run : at'[s] = at[s] /\ row'[s] = row[s] /\ (runLeft'[s] <= runLeft[s] \/ Live(s))
  BY <1>1, <1>2 DEF Typed, RowsTyped
<1>7. \A s \in Manual : at'[s] # "entry" /\ (s \in lost => s \in lost')
  BY <1>1, <1>4 DEF Started
<1>8. ASSUME NEW m \in Manual, m \notin lost', Live(m)', holder[JobOf[m]] = m, leaseLeft[JobOf[m]] >= runLeft[m]
      PROVE  holder'[JobOf[m]] = m /\ leaseLeft'[JobOf[m]] >= runLeft'[m]
  <2>1. m \in Run /\ JobOf[m] \in Job /\ runLeft[m] \in 0 .. RunLease
    BY <1>0 DEF JobAssumption, Typed, RowsTyped
  <2>2. CASE m = r /\ Live(r)
    BY <1>0, <1>1, <1>2, <1>3, <1>4, <1>8, <2>2
  <2>3. CASE ~ (m = r /\ Live(r))
    <3>1. runLeft'[m] = runLeft[m]
      BY <1>2, <2>1, <2>3
    <3> QED
      BY <1>0, <1>1, <1>3, <1>8, <2>1, <3>1
  <2> QED
    BY <2>2, <2>3
<1> QED
  BY <1>1, <1>5, <1>6, <1>7, <1>8, OngoingKeeps

\* A heartbeat that fails tells the run that it lost its lease, and no more.
LEMMA HeartbeatFailsKeeps ==
  ASSUME JobAssumption, IInv, NEW r \in Run, HeartbeatFails(r)
  PROVE  Kept
<1>1. /\ row' = row /\ runLeft' = runLeft /\ queue' = queue /\ holder' = holder /\ leaseLeft' = leaseLeft
      /\ at' = at /\ proc' = proc /\ outcome' = outcome /\ overlapped' = overlapped
      /\ enabled' = enabled /\ down' = down /\ changes' = changes
      /\ lost' = lost \cup {r} /\ at[r] # "none"
  BY DEF HeartbeatFails, Beating, rowVars, leaseVars, envVars
<1>2. /\ at[r] \in Labels /\ at' = [at EXCEPT ![r] = at[r]] /\ outcome' \in [Run -> Terminal]
      /\ lost \subseteq lost' /\ lost' \subseteq Run /\ (r \in Manual => at[r] # "entry")
  BY <1>1 DEF IInv, Typed, RunsTyped, Started
<1> QED
  BY <1>1, <1>2, MovesKeep

\* The sweep closes rows whose lease is over.
LEMMA MarkExpiredKeeps ==
  ASSUME JobAssumption, IInv, NEW p \in Process, MarkExpired(p)
  PROVE  Kept
<1> USE DEF IInv
<1> DEFINE states == [r \in Run |-> IF row[r] = "running" /\ runLeft[r] = 0 THEN "lease_lost" ELSE row[r]]
<1>0. Manual \subseteq Run
  BY DEF JobAssumption
<1>1. /\ Record(states) /\ queue' = queue /\ holder' = holder /\ leaseLeft' = leaseLeft
      /\ at' = at /\ proc' = proc /\ outcome' = outcome /\ lost' = lost /\ overlapped' = overlapped
      /\ enabled' = enabled /\ down' = down /\ changes' = changes
  BY DEF MarkExpired, leaseVars, execVars, envVars
<1>2. states \in [Run -> Terminal \cup {"none", "queued", "running"}]
  BY DEF Typed, RowsTyped, Terminal
<1>3. \A s \in Run : states[s] = row[s] \/ (row[s] = "running" /\ states[s] = "lease_lost")
  OBVIOUS
<1> HIDE DEF states
<1>4. RowsTyped' /\ \A s \in Run : row'[s] = states[s] /\ runLeft'[s] <= runLeft[s]
  BY <1>1, <1>2, RecordedRows
<1>5. Typed'
  BY <1>1, <1>4 DEF Typed, LeasesTyped, RunsTyped, EnvTyped
<1>6. \A s \in Run : row'[s] = row[s] \/ (row[s] = "running" /\ row'[s] = "lease_lost")
  BY <1>3, <1>4
<1>7. \A s \in Manual : holder'[JobOf[s]] = holder[JobOf[s]] /\ leaseLeft'[JobOf[s]] = leaseLeft[JobOf[s]]
                        /\ leaseLeft[JobOf[s]] \in Nat /\ runLeft[s] \in Nat /\ runLeft'[s] \in Nat
                        /\ runLeft'[s] <= runLeft[s] /\ at[s] # "entry"
  BY <1>0, <1>1, <1>4, <1>5 DEF Typed, RowsTyped, LeasesTyped, JobAssumption, Longest, Started
<1> QED
  BY <1>1, <1>4, <1>5, <1>6, <1>7, OngoingKeeps DEF Terminal

\* A process takes its runs with it, and what they knew.
LEMMA CrashKeeps ==
  ASSUME JobAssumption, IInv, NEW p \in Process, Crash(p)
  PROVE  Kept
<1> USE DEF IInv
<1> DEFINE over == {r \in Run : proc[r] = p}
<1>0. /\ Manual \subseteq Run /\ NoProcess \notin Process /\ outcome \in [Run -> Terminal]
      /\ lost \subseteq Run /\ at \in [Run -> Labels]
  BY DEF JobAssumption, Typed, RunsTyped
<1>1. /\ row' = row /\ runLeft' = runLeft /\ queue' = queue /\ holder' = holder /\ leaseLeft' = leaseLeft
      /\ proc' = proc /\ overlapped' = overlapped /\ enabled' = enabled /\ changes' = changes
      /\ down' = down \cup {p} /\ Return(over)
  BY DEF Crash, rowVars, leaseVars
<1>2. \A r \in over : at[r] # "none"
  BY <1>0 DEF Started
<1> HIDE DEF over
<1>3. at' \in [Run -> Labels] /\ \A s \in Run : at'[s] = IF s \in over THEN "done" ELSE at[s]
  BY <1>0, <1>1 DEF Return, Labels
<1>4. outcome' \in [Run -> Terminal] /\ lost' = lost \ over
  BY <1>0, <1>1 DEF Return, Terminal
<1>5. Typed'
  BY <1>0, <1>1, <1>3, <1>4 DEF Typed, RowsTyped, LeasesTyped, RunsTyped, EnvTyped
<1>6. \A s \in Run : /\ at'[s] = "none" <=> at[s] = "none"
                     /\ row'[s] = row[s] /\ runLeft'[s] <= runLeft[s]
  BY <1>1, <1>2, <1>3 DEF Typed, RowsTyped
<1>7. \A s \in Manual :
        /\ at'[s] \in Working => at[s] \in Working /\ (s \in lost => s \in lost')
        /\ at[s] \in {"release", "done"} => at'[s] \in {"release", "done"}
        /\ at'[s] # "entry"
  BY <1>0, <1>3, <1>4 DEF Started, Working
<1> QED
  BY <1>1, <1>5, <1>6, <1>7, OngoingKeeps

\* Time wears both leases alike.
LEMMA TickKeeps ==
  ASSUME JobAssumption, IInv, Tick
  PROVE  Kept
<1> USE DEF IInv
<1>0. Manual \subseteq Run
  BY DEF JobAssumption
<1>1. /\ row' = row /\ queue' = queue /\ holder' = holder /\ at' = at /\ proc' = proc
      /\ outcome' = outcome /\ lost' = lost /\ overlapped' = overlapped
      /\ enabled' = enabled /\ down' = down /\ changes' = changes
      /\ runLeft' = [r \in Run |-> IF runLeft[r] = 0 THEN 0 ELSE runLeft[r] - 1]
      /\ leaseLeft' = [j \in Job |-> IF leaseLeft[j] = 0 THEN 0 ELSE leaseLeft[j] - 1]
  BY DEF Tick, execVars, envVars
<1>2. runLeft' \in [Run -> 0 .. RunLease] /\ \A s \in Run : runLeft'[s] <= runLeft[s]
  BY <1>1 DEF Typed, RowsTyped, JobAssumption
<1>3. leaseLeft' \in [Job -> 0 .. Longest]
  BY <1>1 DEF Typed, LeasesTyped, JobAssumption, Longest
<1>4. Typed'
  BY <1>1, <1>2, <1>3 DEF Typed, RowsTyped, LeasesTyped, RunsTyped, EnvTyped
<1>5. ASSUME NEW m \in Manual, leaseLeft[JobOf[m]] >= runLeft[m]
      PROVE  leaseLeft'[JobOf[m]] >= runLeft'[m]
  <2>1. /\ m \in Run /\ JobOf[m] \in Job /\ runLeft[m] \in Nat /\ leaseLeft[JobOf[m]] \in Nat
    BY <1>0 DEF JobAssumption, Typed, RowsTyped, LeasesTyped, Longest
  <2>2. /\ runLeft'[m] = IF runLeft[m] = 0 THEN 0 ELSE runLeft[m] - 1
        /\ leaseLeft'[JobOf[m]] = IF leaseLeft[JobOf[m]] = 0 THEN 0 ELSE leaseLeft[JobOf[m]] - 1
    BY <1>1, <2>1
  <2> QED
    BY <1>5, <2>1, <2>2
<1>6. \A s \in Manual : at'[s] # "entry"
  BY <1>1 DEF Started
<1> QED
  BY <1>1, <1>2, <1>4, <1>5, <1>6, OngoingKeeps

\* A step that touches no row, lease or execution.
LEMMA RunsUntouched ==
  ASSUME IInv,
         row' = row, runLeft' = runLeft, queue' = queue, holder' = holder, leaseLeft' = leaseLeft,
         at' = at, proc' = proc, outcome' = outcome, lost' = lost, overlapped' = overlapped,
         down' \subseteq Process, changes' \in 0 .. MaxChanges, enabled' \in [Job -> BOOLEAN]
  PROVE  Kept
<1> USE DEF IInv
<1>1. Typed'
  BY DEF Typed, RowsTyped, LeasesTyped, RunsTyped, EnvTyped
<1>2. QueueRight'
  BY DEF QueueRight, Queued
<1>3. Started' /\ Holders'
  BY DEF Started, Holders
<1>4. HoldsJob' /\ Spoiled'
  BY DEF HoldsJob, Spoiled, Live
<1>5. OutcomesStay
  BY DEF OutcomesStay
<1> QED
  BY <1>1, <1>2, <1>3, <1>4, <1>5 DEF Kept

\* Enabling a job and disabling it touch no run.
LEMMA ConfigureKeeps ==
  ASSUME JobAssumption, IInv, NEW j \in Job, Configure(j)
  PROVE  Kept
<1>1. /\ row' = row /\ runLeft' = runLeft /\ queue' = queue /\ holder' = holder /\ leaseLeft' = leaseLeft
      /\ at' = at /\ proc' = proc /\ outcome' = outcome /\ lost' = lost /\ overlapped' = overlapped
      /\ down' \subseteq Process /\ changes' \in 0 .. MaxChanges /\ enabled' \in [Job -> BOOLEAN]
  BY DEF Configure, rowVars, leaseVars, execVars, IInv, Typed, EnvTyped, JobAssumption
<1> QED
  BY <1>1, RunsUntouched

\* Nothing happens.
LEMMA NothingKeeps ==
  ASSUME IInv, UNCHANGED vars
  PROVE  Kept
<1>1. /\ row' = row /\ runLeft' = runLeft /\ queue' = queue /\ holder' = holder /\ leaseLeft' = leaseLeft
      /\ at' = at /\ proc' = proc /\ outcome' = outcome /\ lost' = lost /\ overlapped' = overlapped
      /\ enabled' = enabled /\ down' = down /\ changes' = changes
  BY DEF vars, rowVars, leaseVars, execVars, envVars
<1>2. down' \in SUBSET Process /\ changes' \in 0 .. MaxChanges /\ enabled' \in [Job -> BOOLEAN]
  BY <1>1 DEF IInv, Typed, EnvTyped
<1> QED
  BY <1>1, <1>2, RunsUntouched

-----------------------------------------------------------------------------
(* The theorems *)

\* Every step keeps the invariant and the outcomes there are.
LEMMA Stepwise ==
  ASSUME JobAssumption, IInv, [Next]_vars
  PROVE  Kept
<1>1. ASSUME NEW r \in Run, Enqueue(r) PROVE Kept
  BY <1>1, EnqueueKeeps
<1>2. ASSUME NEW r \in Run, Step(r) PROVE Kept
  <2>1. CASE Authorise(r)
    BY <2>1, AuthoriseKeeps
  <2>2. CASE TakeLease(r)
    BY <2>2, TakeLeaseKeeps
  <2>3. CASE Begin(r)
    BY <2>3, BeginKeeps
  <2>4. CASE Stop(r) \/ GoOn(r) \/ Complete(r)
    BY <2>4, WorkKeeps
  <2>5. CASE Finish(r)
    BY <2>5, FinishKeeps
  <2>6. CASE Release(r)
    BY <2>6, ReleaseKeeps
  <2> QED
    BY <1>2, <2>1, <2>2, <2>3, <2>4, <2>5, <2>6 DEF Step
<1>3. ASSUME NEW r \in Run, Heartbeat(r) PROVE Kept
  BY <1>3, HeartbeatKeeps
<1>4. ASSUME NEW r \in Run, HeartbeatFails(r) PROVE Kept
  BY <1>4, HeartbeatFailsKeeps
<1>5. ASSUME NEW r \in Run, NEW p \in Process, Schedule(r, p) PROVE Kept
  BY <1>5, ScheduleKeeps
<1>6. ASSUME NEW p \in Process, MarkExpired(p) PROVE Kept
  BY <1>6, MarkExpiredKeeps
<1>7. ASSUME NEW p \in Process, Crash(p) PROVE Kept
  BY <1>7, CrashKeeps
<1>8. ASSUME NEW p \in Process, NEW i \in 1 .. Len(queue), Dispatch(p, i) PROVE Kept
  BY <1>8, DispatchKeeps
<1>9. ASSUME NEW j \in Job, Configure(j) PROVE Kept
  BY <1>9, ConfigureKeeps
<1>10. CASE Tick
  BY <1>10, TickKeeps
<1>11. CASE UNCHANGED vars
  BY <1>11, NothingKeeps
<1> QED
  BY <1>1, <1>2, <1>3, <1>4, <1>5, <1>6, <1>7, <1>8, <1>9, <1>10, <1>11 DEF Next

\* The invariant holds throughout.
LEMMA Invariance ==
  ASSUME JobAssumption
  PROVE  Spec => []IInv
<1>1. Init => IInv
  BY Initially
<1>2. IInv /\ [Next]_vars => IInv'
  BY Stepwise DEF Kept
<1> QED
  BY <1>1, <1>2, PTL DEF Spec

\* The rows, leases and executions of the job runtime have their types, the
\* queue holds the queued rows once, and a lease is a started run's of its job,
\* for any jobs, processes, runs and lease lengths.
THEOREM TypeCorrect ==
  ASSUME JobAssumption
  PROVE  Spec => []TypeOK
<1>1. IInv => TypeOK
  BY InvGives
<1> QED
  BY <1>1, Invariance, PTL

\* No sweep, late answer or second process rewrites the outcome of a run
\* (finishRun and markExpiredRunsLeaseLost).
THEOREM OutcomesFinal ==
  ASSUME JobAssumption
  PROVE  Spec => OutcomeIsFinal
<1>1. IInv /\ [Next]_vars => [\A r \in Run : row[r] \in Terminal => row'[r] = row[r]]_vars
  BY Stepwise DEF Kept, OutcomesStay
<1> QED
  BY <1>1, Invariance, PTL DEF Spec, OutcomeIsFinal

\* A manual run that is recorded as succeeded had its job to itself, whatever
\* expires, fails to be released or is dispatched meanwhile.
THEOREM SuccessIsExclusive ==
  ASSUME JobAssumption
  PROVE  Spec => []ManualSuccessIsExclusive
<1>1. IInv => ManualSuccessIsExclusive
  BY InvGives
<1> QED
  BY <1>1, Invariance, PTL

-----------------------------------------------------------------------------
(* One execution of a job at a time, while no lease runs out under one *)

\* The positions in which a run relies on the job's lease: a manual run from its
\* dispatch on, and a scheduled one from its claim to the release.
UnderLease(r) ==
  at[r] \in {"authorise", "check", "work"} \/ (at[r] = "release" /\ r \notin Manual)

\* Time never takes the lease of a job from under an execution.
LeasesOutlast == Tick => \A r \in Run : UnderLease(r) => leaseLeft[JobOf[r]] > 1

\* Whoever is under a lease holds it himself.
EachItsOwn == \A r \in Run : UnderLease(r) => holder[JobOf[r]] = r /\ leaseLeft[JobOf[r]] > 0

\* "A second replica takes it over while the first is running" does not happen
\* (leader-lock.ts): a job is executed once at a time.
OneAtATime ==
  \A r, s \in Run : UnderLease(r) /\ UnderLease(s) /\ JobOf[r] = JobOf[s] => r = s

\* Every run that goes on under a lease was under it, and its lease was left
\* alone or made longer.
LEMMA GoesOnUnder ==
  ASSUME EachItsOwn,
         \A r \in Run : UnderLease(r)' =>
           /\ UnderLease(r) /\ holder'[JobOf[r]] = holder[JobOf[r]]
           /\ leaseLeft[JobOf[r]] > 0 => leaseLeft'[JobOf[r]] > 0
  PROVE  EachItsOwn'
BY DEF EachItsOwn

\* A claim is of a lease nobody is under.
LEMMA ClaimUnder ==
  ASSUME JobAssumption, IInv, EachItsOwn, NEW r \in Run, NEW ticks \in Nat \ {0},
         Claimable(JobOf[r]), ClaimLease(r, ticks),
         \A s \in Run \ {r} : at'[s] = at[s]
  PROVE  EachItsOwn'
<1>1. JobOf[r] \in Job /\ \A s \in Run : JobOf[s] \in Job
  BY DEF JobAssumption
<1>2. \A s \in Run : JobOf[s] = JobOf[r] => ~ UnderLease(s)
  BY DEF EachItsOwn, Claimable, JobAssumption
<1>3. /\ holder'[JobOf[r]] = r /\ leaseLeft'[JobOf[r]] = ticks
      /\ \A j \in Job \ {JobOf[r]} : holder'[j] = holder[j] /\ leaseLeft'[j] = leaseLeft[j]
  BY <1>1 DEF ClaimLease, IInv, Typed, LeasesTyped
<1>4. \A s \in Run \ {r} : UnderLease(s)' <=> UnderLease(s)
  BY DEF UnderLease
<1>5. ASSUME NEW s \in Run, UnderLease(s)'
      PROVE  holder'[JobOf[s]] = s /\ leaseLeft'[JobOf[s]] > 0
  <2>1. CASE s = r
    BY <1>3, <2>1
  <2>2. CASE s # r
    <3>1. UnderLease(s) /\ JobOf[s] \in Job \ {JobOf[r]}
      BY <1>1, <1>2, <1>4, <1>5, <2>2
    <3> QED BY <1>3, <3>1 DEF EachItsOwn
  <2> QED BY <2>1, <2>2
<1> QED BY <1>5 DEF EachItsOwn

\* What a run gives up at its end is its own lease, or a lease nobody is under.
LEMMA ReleaseUnder ==
  ASSUME JobAssumption, IInv, EachItsOwn, NEW r \in Run, Release(r)
  PROVE  EachItsOwn'
<1>1. JobOf[r] \in Job /\ at[r] = "release" /\ \A s \in Run : JobOf[s] \in Job
  BY DEF Release, JobAssumption
<1>2. \A s \in Run : UnderLease(s)' => s # r /\ UnderLease(s)
  <2>1. at' \in [Run -> Labels] /\ at'[r] \in {"finish", "done"}
        /\ \A s \in Run \ {r} : at'[s] = at[s]
    BY <1>1 DEF Release, Return, IInv, Typed, RunsTyped, Labels
  <2> QED BY <2>1 DEF UnderLease
<1>3. CASE UNCHANGED leaseVars
  BY <1>2, <1>3, GoesOnUnder DEF leaseVars
<1>4. CASE OwnsRow(r) /\ holder' = [holder EXCEPT ![JobOf[r]] = Nobody]
             /\ leaseLeft' = [leaseLeft EXCEPT ![JobOf[r]] = 0]
  <2>1. ASSUME NEW s \in Run, UnderLease(s)' PROVE JobOf[s] # JobOf[r]
    <3> SUFFICES ASSUME JobOf[s] = JobOf[r] PROVE FALSE
      OBVIOUS
    <3>1. s # r /\ UnderLease(s) /\ holder[JobOf[r]] = s /\ at[s] # "none"
      BY <1>2, <2>1 DEF EachItsOwn, UnderLease
    <3>2. CASE r \notin Manual
      BY <1>1, <3>1, <3>2 DEF EachItsOwn, UnderLease
    <3>3. CASE r \in Manual
      <4>1. OwnerId(s) = r
        BY <1>4, <3>1, <3>3 DEF OwnsRow, OwnerId
      <4>2. s \notin Manual => OwnerId(s) \in Process
        BY <3>1 DEF OwnerId, IInv, Started, Typed, RunsTyped
      <4> QED BY <3>1, <4>1, <4>2 DEF OwnerId, JobAssumption
    <3> QED BY <3>2, <3>3
  <2>2. \A j \in Job \ {JobOf[r]} : holder'[j] = holder[j] /\ leaseLeft'[j] = leaseLeft[j]
    BY <1>4 DEF IInv, Typed, LeasesTyped
  <2> QED BY <1>1, <1>2, <2>1, <2>2, GoesOnUnder
<1> QED BY <1>3, <1>4 DEF Release

\* Every other step of a run leaves the leases alone, and puts no run under one
\* that was not.
LEMMA StepUnder ==
  ASSUME JobAssumption, IInv, EachItsOwn, NEW r \in Run, Step(r)
  PROVE  EachItsOwn'
<1> USE DEF IInv, Typed, RunsTyped
<1>1. CASE TakeLease(r)
  <2>1. \A s \in Run \ {r} : at'[s] = at[s]
    BY <1>1 DEF TakeLease
  <2>2. CASE ClaimLease(r, JobLease) /\ Claimable(JobOf[r])
    BY <2>1, <2>2, ClaimUnder DEF JobAssumption
  <2>3. CASE UNCHANGED leaseVars /\ at' = [at EXCEPT ![r] = "finish"]
    BY <2>1, <2>3, GoesOnUnder DEF UnderLease, leaseVars
  <2> QED BY <1>1, <2>2, <2>3 DEF TakeLease
<1>2. CASE Release(r)
  BY <1>2, ReleaseUnder
<1>3. CASE Authorise(r) \/ Begin(r) \/ Stop(r) \/ GoOn(r) \/ Complete(r) \/ Finish(r)
  <2>1. UNCHANGED leaseVars /\ \A s \in Run \ {r} : at'[s] = at[s]
    BY <1>3 DEF Authorise, Begin, Stop, GoOn, Complete, Finish, End, Return
  <2>2. UnderLease(r)' => UnderLease(r)
    <3>1. CASE at[r] \in {"authorise", "check", "work"}
      BY <3>1 DEF UnderLease
    <3>2. CASE Finish(r)
      BY <3>2 DEF Finish, Return, UnderLease
    <3> QED BY <1>3, <3>1, <3>2 DEF Authorise, Begin, Stop, GoOn, Complete
  <2>3. \A s \in Run : UnderLease(s)' => UnderLease(s)
    BY <2>1, <2>2 DEF UnderLease
  <2> QED BY <2>1, <2>3, GoesOnUnder DEF leaseVars
<1> QED BY <1>1, <1>2, <1>3 DEF Step

\* So does everything else, and time by assumption.
LEMMA NextUnder ==
  ASSUME JobAssumption, IInv, EachItsOwn, [Next]_vars, LeasesOutlast
  PROVE  EachItsOwn'
<1> USE DEF IInv, Typed, RunsTyped, LeasesTyped
<1>1. ASSUME NEW r \in Run, Step(r) PROVE EachItsOwn'
  BY <1>1, StepUnder
<1>2. ASSUME NEW p \in Process, NEW i \in 1 .. Len(queue), Dispatch(p, i) PROVE EachItsOwn'
  <2>1. queue[i] \in Run
    BY DEF QueueRight
  <2> QED BY <1>2, <2>1, ClaimUnder DEF Dispatch, JobAssumption
<1>3. ASSUME NEW r \in Run, Heartbeat(r) PROVE EachItsOwn'
  <2>1. holder' = holder /\ at' = at
    BY <1>3 DEF Heartbeat
  <2>2. ASSUME NEW j \in Job, leaseLeft[j] > 0 PROVE leaseLeft'[j] > 0
    BY <1>3, <2>2 DEF Heartbeat, Renewed, JobAssumption
  <2>3. \A s \in Run : JobOf[s] \in Job
    BY DEF JobAssumption
  <2> QED BY <2>1, <2>2, <2>3, GoesOnUnder DEF UnderLease
<1>4. ASSUME NEW r \in Run, NEW p \in Process, Schedule(r, p) PROVE EachItsOwn'
  <2>1. UNCHANGED leaseVars /\ at' = [at EXCEPT ![r] = "entry"]
    BY <1>4 DEF Schedule
  <2>2. \A s \in Run : UnderLease(s)' => UnderLease(s)
    BY <2>1 DEF UnderLease
  <2> QED BY <2>1, <2>2, GoesOnUnder DEF leaseVars
<1>5. ASSUME NEW p \in Process, Crash(p) PROVE EachItsOwn'
  <2>1. UNCHANGED leaseVars /\ \A s \in Run : at'[s] \in {at[s], "done"}
    BY <1>5 DEF Crash, Return
  <2>2. \A s \in Run : UnderLease(s)' => UnderLease(s)
    BY <2>1 DEF UnderLease
  <2> QED BY <2>1, <2>2, GoesOnUnder DEF leaseVars
<1>6. CASE Tick
  <2>1. holder' = holder /\ at' = at
    BY <1>6 DEF Tick, execVars
  <2>2. ASSUME NEW s \in Run, UnderLease(s) PROVE leaseLeft'[JobOf[s]] > 0
    <3>1. leaseLeft[JobOf[s]] > 1 /\ JobOf[s] \in Job
      BY <1>6, <2>2 DEF LeasesOutlast, JobAssumption
    <3>2. leaseLeft'[JobOf[s]] = leaseLeft[JobOf[s]] - 1 /\ leaseLeft[JobOf[s]] \in Nat
      BY <1>6, <3>1 DEF Tick, Longest, JobAssumption
    <3> QED BY <3>1, <3>2
  <2> QED BY <2>1, <2>2, GoesOnUnder DEF UnderLease
<1>7. ASSUME UNCHANGED <<at, leaseVars>> PROVE EachItsOwn'
  BY <1>7, GoesOnUnder DEF UnderLease, leaseVars
<1>8. ASSUME NEW r \in Run, Enqueue(r) \/ HeartbeatFails(r) PROVE EachItsOwn'
  BY <1>7, <1>8 DEF Enqueue, HeartbeatFails, execVars
<1>9. ASSUME NEW p \in Process, MarkExpired(p) PROVE EachItsOwn'
  BY <1>7, <1>9 DEF MarkExpired, execVars
<1>10. ASSUME NEW j \in Job, Configure(j) PROVE EachItsOwn'
  BY <1>7, <1>10 DEF Configure, execVars
<1>11. CASE UNCHANGED vars
  BY <1>7, <1>11 DEF vars, execVars
<1> QED
  BY <1>1, <1>2, <1>3, <1>4, <1>5, <1>6, <1>8, <1>9, <1>10, <1>11 DEF Next

\* What the leases of jobs are for: no two runs of a job are executed at once, on
\* whatever processes, scheduled or manual, although all scheduled runs of a
\* process own leases under one id, as long as no lease runs out under the run
\* that took it. (A scheduled run's lease is never renewed: a batch longer than
\* its lease breaks the hypothesis, and then the conclusion.)
THEOREM JobsRunAlone ==
  ASSUME JobAssumption
  PROVE  Spec /\ [][LeasesOutlast]_vars => []OneAtATime
<1>1. Init => EachItsOwn
  BY DEF Init, EachItsOwn, UnderLease
<1>2. IInv /\ EachItsOwn /\ [Next]_vars /\ [LeasesOutlast]_vars => EachItsOwn'
  <2>1. CASE LeasesOutlast
    BY <2>1, NextUnder
  <2>2. CASE UNCHANGED vars
    BY <2>2 DEF EachItsOwn, UnderLease, vars, execVars, leaseVars
  <2> QED BY <2>1, <2>2
<1>3. EachItsOwn => OneAtATime
  BY DEF EachItsOwn, OneAtATime
<1> QED
  BY <1>1, <1>2, <1>3, Invariance, PTL DEF Spec

=============================================================================
