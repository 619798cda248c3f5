--------------------------- MODULE JobQueueProofs ---------------------------
(***************************************************************************)
(* Theorems about JobQueue for every set of jobs and runners, every limit, *)
(* lease length and failure behaviour.                                     *)
(***************************************************************************)
EXTENDS JobQueue, FiniteSetTheorems, TLAPS

\* The assumptions about the parameters, as every step needs them.
LEMMA Parameters ==
  /\ None \notin Runners
  /\ \A f \in Failures : f \in Failure
  /\ LeaseTicks \in Nat /\ LeaseTicks > 0
  /\ MaxAttempts \in Nat /\ MaxAttempts > 0
  /\ AuthFailureThreshold \in Nat /\ AuthFailureThreshold > 0
BY ScopeAssumption, LimitAssumption

-----------------------------------------------------------------------------
(* Operators.                                                              *)

\* Time left is never negative.
LEMMA TimeLeftType == ASSUME NEW t \in Nat PROVE TimeLeft(t) \in Nat
BY DEF TimeLeft

\* Giving a lease back keeps everything else of a row.
LEMMA ReleaseType ==
  ASSUME NEW row \in Job, NEW st \in JobStatus
  PROVE  /\ Release(row, st) \in Job
         /\ Release(row, st).status = st
         /\ Release(row, st).owner = None
         /\ Release(row, st).lease = 0
         /\ Release(row, st).wait = row.wait
         /\ Release(row, st).attemptCount = row.attemptCount
         /\ Release(row, st).maxAttempts = row.maxAttempts
         /\ Release(row, st).cancelRequested = row.cancelRequested
BY DEF Release, Job

\* The other row updates, field by field.
LEMMA RowUpdates ==
  ASSUME NEW row \in Job
  PROVE  /\ Submitted(row) \in Job
         /\ Reopened(row) \in Job
         /\ Withdrawn(row) \in Job
         /\ Orphaned(row) \in Job
         /\ Elapsed(row) \in Job
         /\ [row EXCEPT !.cancelRequested = TRUE] \in Job
         /\ [row EXCEPT !.lease = LeaseTicks] \in Job
         /\ \A w \in Runners : Claimed(row, w) \in Job
<1> USE Parameters
<1>0. {"pending", "running", "cancelled", "failed"} \subseteq JobStatus
  BY DEF JobStatus
<1>z. PICK z \in Int : z = 0   \* a name for 0 of which the provers know z \in Int
  OBVIOUS
<1>1. Submitted(row) \in Job
  <2>1. [row EXCEPT !.status = "pending", !.wait = z] \in Job
    BY <1>0 DEF Job
  <2> QED
    BY <2>1, <1>z DEF Submitted
<1>2. Reopened(row) \in Job
  <2>1. PICK n \in Nat : n = Later(row.maxAttempts, row.attemptCount + 1)
    BY DEF Job, Later
  <2>2. [row EXCEPT !.status = "pending", !.wait = z, !.cancelRequested = FALSE,
                    !.maxAttempts = n] \in Job
    BY <1>0 DEF Job
  <2> QED
    BY <2>1, <2>2, <1>z DEF Reopened
<1>3. Withdrawn(row) \in Job
  <2>1. [row EXCEPT !.status = "cancelled", !.wait = z, !.cancelRequested = TRUE] \in Job
    BY <1>0 DEF Job
  <2> QED
    BY <2>1, <1>z DEF Withdrawn
<1>4. Orphaned(row) \in Job
  <2>1. [row EXCEPT !.status = "failed", !.wait = z] \in Job
    BY <1>0 DEF Job
  <2> QED
    BY <2>1, <1>z DEF Orphaned
<1>5. Elapsed(row) \in Job
  <2>1. TimeLeft(row.lease) \in Nat
    BY TimeLeftType DEF Job
  <2>2. (IF row.status \in Waiting /\ row.wait > -AgeBound
         THEN row.wait - 1 ELSE row.wait) \in Int
    BY DEF Job
  <2> QED
    BY <2>1, <2>2 DEF Elapsed, Job
<1>6. ASSUME NEW w \in Runners PROVE Claimed(row, w) \in Job
  <2>1. row.attemptCount + 1 \in Nat
    BY DEF Job
  <2>2. [row EXCEPT !.status = "running", !.attemptCount = row.attemptCount + 1,
                    !.owner = w, !.lease = LeaseTicks, !.wait = z] \in Job
    BY <1>0, <2>1 DEF Job
  <2> QED
    BY <2>2, <1>z DEF Claimed
<1>7. /\ [row EXCEPT !.cancelRequested = TRUE] \in Job
      /\ [row EXCEPT !.lease = LeaseTicks] \in Job
  BY DEF Job
<1> QED
  BY <1>1, <1>2, <1>3, <1>4, <1>5, <1>6, <1>7

\* Closing attempt rows keeps their number and touches only open rows of the
\* given owners.
LEMMA CloseAttemptsType ==
  ASSUME attempts \in [Jobs -> Seq(AttemptRow)], NEW j \in Jobs, NEW owners,
         NEW st \in {"succeeded", "failed", "cancelled"}
  PROVE  /\ CloseAttempts(j, owners, st) \in Seq(AttemptRow)
         /\ Len(CloseAttempts(j, owners, st)) = Len(attempts[j])
         /\ \A n \in 1..Len(attempts[j]) :
              CloseAttempts(j, owners, st)[n] =
                IF attempts[j][n].status = "running" /\ attempts[j][n].owner \in owners
                THEN [attempts[j][n] EXCEPT !.status = st]
                ELSE attempts[j][n]
<1>1. attempts[j] \in Seq(AttemptRow)
  OBVIOUS
<1>2. \A n \in 1..Len(attempts[j]) : attempts[j][n] \in AttemptRow
  BY <1>1
<1>3. \A n \in 1..Len(attempts[j]) :
        [attempts[j][n] EXCEPT !.status = st] \in AttemptRow
  BY <1>2 DEF AttemptRow
<1>4. Len(attempts[j]) \in Nat
  BY <1>1
<1> QED
  BY <1>2, <1>3, <1>4 DEF CloseAttempts


\* Recovery of expired leases is well typed.
LEMMA RecoverType ==
  ASSUME TypeOK, RecoverExpiredLeases
  PROVE  jobs' \in [Jobs -> Job] /\ attempts' \in [Jobs -> Seq(AttemptRow)]
<1>1. \A j \in Jobs : Release(jobs[j], RecoveredStatus(j)) \in Job
  <2> TAKE j \in Jobs
  <2>1. RecoveredStatus(j) \in JobStatus
    BY DEF RecoveredStatus, JobStatus
  <2> QED
    BY <2>1, ReleaseType DEF TypeOK
<1>2. \A j \in Jobs : \A st \in {"succeeded", "failed", "cancelled"} :
        CloseAttempts(j, Runners, st) \in Seq(AttemptRow)
  BY CloseAttemptsType DEF TypeOK
<1>3. jobs' \in [Jobs -> Job]
  BY <1>1 DEF TypeOK, RecoverExpiredLeases
<1>4. attempts' \in [Jobs -> Seq(AttemptRow)]
  <2>1. \A j \in Jobs : CloseAttempts(j, Runners,
          IF jobs[j].cancelRequested THEN "cancelled" ELSE "failed") \in Seq(AttemptRow)
    BY <1>2
  <2> QED
    BY <2>1 DEF TypeOK, RecoverExpiredLeases
<1> QED
  BY <1>3, <1>4

\* Type correctness is inductive, one step per action.
LEMMA TypeStep == TypeOK /\ [Next]_vars => TypeOK'
<1> SUFFICES ASSUME TypeOK, [Next]_vars PROVE TypeOK'
  OBVIOUS
<1> USE Parameters
<1>1. ASSUME NEW j \in Jobs, Enqueue(j) PROVE TypeOK'
  <2>1. jobs' \in [Jobs -> Job]
    BY <1>1, RowUpdates DEF TypeOK, Enqueue
  <2> QED
    BY <1>1, <2>1 DEF TypeOK, Enqueue, controlVars, processVars
<1>2. ASSUME NEW j \in Jobs, RequestCancellation(j) PROVE TypeOK'
  <2>1. jobs' \in [Jobs -> Job]
    <3>1. /\ jobs[j] \in Job
          /\ Withdrawn(jobs[j]) \in Job
          /\ [jobs[j] EXCEPT !.cancelRequested = TRUE] \in Job
      BY RowUpdates DEF TypeOK
    <3>2. \/ jobs' = [jobs EXCEPT ![j] = Withdrawn(jobs[j])]
          \/ jobs' = [jobs EXCEPT ![j] = [jobs[j] EXCEPT !.cancelRequested = TRUE]]
      BY <1>2 DEF RequestCancellation
    <3> QED
      BY <3>1, <3>2 DEF TypeOK
  <2>2. UNCHANGED <<attempts, controlVars, processVars>>
    BY <1>2 DEF RequestCancellation
  <2> QED
    BY <2>1, <2>2 DEF TypeOK, controlVars, processVars
<1>3. ASSUME NEW j \in Jobs, Retry(j) PROVE TypeOK'
  <2>1. jobs' \in [Jobs -> Job]
    BY <1>3, RowUpdates DEF TypeOK, Retry
  <2> QED
    BY <1>3, <2>1 DEF TypeOK, Retry, controlVars, processVars
<1>4. ASSUME NEW m \in {"running", "paused", "draining"}, SetQueueMode(m) PROVE TypeOK'
  BY <1>4 DEF TypeOK, SetQueueMode, processVars
<1>5. ASSUME NEW a \in Accounts, ResumeAccount(a) PROVE TypeOK'
  BY <1>5 DEF TypeOK, ResumeAccount, processVars, AccountRow
<1>6. ASSUME NEW w \in Runners, Start(w) PROVE TypeOK'
  <2>1. jobs' \in [Jobs -> Job] /\ attempts' \in [Jobs -> Seq(AttemptRow)]
    BY <1>6, RecoverType DEF Start
  <2> QED
    BY <1>6, <2>1 DEF TypeOK, Start, controlVars
<1>7. ASSUME NEW w \in Runners, Poll(w) PROVE TypeOK'
  <2>1. jobs' \in [Jobs -> Job] /\ attempts' \in [Jobs -> Seq(AttemptRow)]
    BY <1>7, RecoverType DEF Poll
  <2> QED
    BY <1>7, <2>1 DEF TypeOK, Poll, controlVars
<1>8. ASSUME NEW w \in Runners, NEW j \in Jobs, Claim(w, j) PROVE TypeOK'
  <2>1. \A k \in Jobs : Cascaded(k) \in Job
    BY RowUpdates DEF TypeOK, Cascaded
  <2>2. Claimed(jobs[j], w) \in Job
    BY RowUpdates DEF TypeOK
  <2>3. jobs' \in [Jobs -> Job]
    BY <1>8, <2>1, <2>2 DEF Claim
  <2>4. attempts' \in [Jobs -> Seq(AttemptRow)]
    <3>1. [status |-> "running", owner |-> w] \in AttemptRow
      BY DEF AttemptRow
    <3>2. Append(attempts[j], [status |-> "running", owner |-> w]) \in Seq(AttemptRow)
      BY <3>1 DEF TypeOK
    <3> QED
      BY <1>8, <3>2 DEF Claim, TypeOK
  <2>5. executions' \subseteq Execution
    <3>1. jobs[j].attemptCount + 1 \in Nat /\ jobs[j].maxAttempts \in Nat
      BY DEF TypeOK, Job
    <3>2. [runner |-> w, job |-> j, attempt |-> jobs[j].attemptCount + 1,
           maxAttempts |-> jobs[j].maxAttempts, phase |-> "handler",
           failure |-> None, aborted |-> FALSE] \in Execution
      BY <3>1 DEF Execution
    <3> QED
      BY <1>8, <3>2 DEF TypeOK, Claim
  <2> QED
    BY <1>8, <2>3, <2>4, <2>5 DEF TypeOK, Claim, controlVars
<1>9. ASSUME NEW w \in Runners, FillEnds(w) PROVE TypeOK'
  <2>1. \A k \in Jobs : Cascaded(k) \in Job
    BY RowUpdates DEF TypeOK, Cascaded
  <2>2. jobs' \in [Jobs -> Job]
    BY <1>9, <2>1 DEF FillEnds, TypeOK
  <2> QED
    BY <1>9, <2>2 DEF TypeOK, FillEnds, controlVars
<1>10. ASSUME NEW e \in executions, Heartbeat(e) PROVE TypeOK'
  <2>1. e \in Execution
    BY DEF TypeOK
  <2>2. jobs' \in [Jobs -> Job]
    BY <1>10, <2>1, RowUpdates DEF TypeOK, Heartbeat, Execution
  <2>3. \A b \in BOOLEAN : [e EXCEPT !.aborted = b] \in Execution
    BY <2>1 DEF Execution
  <2>4. executions' \subseteq Execution
    <3>1. (e.aborted \/ jobs[e.job].cancelRequested \/ ~OwnsLease(e)) \in BOOLEAN
      OBVIOUS
    <3> QED
      BY <1>10, <2>3, <3>1 DEF TypeOK, Heartbeat, Replace
  <2> QED
    BY <1>10, <2>2, <2>4 DEF TypeOK, Heartbeat, controlVars
<1>11. ASSUME NEW e \in executions, NEW f \in Failures \cup {None}, HandlerReturns(e, f)
       PROVE TypeOK'
  <2>1. e \in Execution
    BY DEF TypeOK
  <2>2. /\ [e EXCEPT !.phase = "cancel"] \in Execution
        /\ [e EXCEPT !.phase = IF f = None THEN "complete" ELSE "fail", !.failure = f]
             \in Execution
    BY <2>1 DEF Execution
  <2>3. executions' \subseteq Execution
    BY <1>11, <2>2 DEF TypeOK, HandlerReturns, Replace
  <2> QED
    BY <1>11, <2>3 DEF TypeOK, HandlerReturns, controlVars
<1>12. ASSUME NEW e \in executions, Complete(e) PROVE TypeOK'
  <2>1. e \in Execution /\ e.job \in Jobs
    BY DEF TypeOK, Execution
  <2>2. Release(jobs[e.job], "succeeded") \in Job
    BY <2>1, ReleaseType DEF TypeOK, JobStatus
  <2>3. CloseAttempts(e.job, {e.runner}, "succeeded") \in Seq(AttemptRow)
    BY <2>1, CloseAttemptsType DEF TypeOK
  <2>4. [e EXCEPT !.phase = "cancel"] \in Execution
    BY <2>1 DEF Execution
  <2>5. \A a \in Accounts : AccountAfterSuccess(accounts[a]) \in AccountRow
    BY DEF TypeOK, AccountAfterSuccess, AccountRow
  <2>6. jobs' \in [Jobs -> Job] /\ attempts' \in [Jobs -> Seq(AttemptRow)]
    <3>1. \/ jobs' = jobs
          \/ jobs' = [jobs EXCEPT ![e.job] = Release(jobs[e.job], "succeeded")]
      BY <1>12 DEF Complete
    <3>2. \/ attempts' = attempts
          \/ attempts' = [attempts EXCEPT
               ![e.job] = CloseAttempts(e.job, {e.runner}, "succeeded")]
      BY <1>12 DEF Complete
    <3>3. jobs' \in [Jobs -> Job]
      BY <2>1, <2>2, <3>1 DEF TypeOK
    <3>4. attempts' \in [Jobs -> Seq(AttemptRow)]
      BY <2>1, <2>3, <3>2 DEF TypeOK
    <3> QED
      BY <3>3, <3>4
  <2>7. accounts' \in [Accounts -> AccountRow]
    BY <1>12, <2>5 DEF TypeOK, Complete
  <2>8. executions' \subseteq Execution
    BY <1>12, <2>4 DEF TypeOK, Complete, Replace
  <2> QED
    BY <1>12, <2>6, <2>7, <2>8 DEF TypeOK, Complete
<1>13. ASSUME NEW e \in executions, CancelRunning(e) PROVE TypeOK'
  <2>1. e \in Execution /\ e.job \in Jobs
    BY DEF TypeOK, Execution
  <2>2. Release(jobs[e.job], "cancelled") \in Job
    BY <2>1, ReleaseType DEF TypeOK, JobStatus
  <2>3. CloseAttempts(e.job, {e.runner}, "cancelled") \in Seq(AttemptRow)
    BY <2>1, CloseAttemptsType DEF TypeOK
  <2>4. jobs' \in [Jobs -> Job] /\ attempts' \in [Jobs -> Seq(AttemptRow)]
    <3>1. \/ jobs' = jobs
          \/ jobs' = [jobs EXCEPT ![e.job] = Release(jobs[e.job], "cancelled")]
      BY <1>13 DEF CancelRunning
    <3>2. \/ attempts' = attempts
          \/ attempts' = [attempts EXCEPT
               ![e.job] = CloseAttempts(e.job, {e.runner}, "cancelled")]
      BY <1>13 DEF CancelRunning
    <3>3. jobs' \in [Jobs -> Job]
      BY <2>1, <2>2, <3>1 DEF TypeOK
    <3>4. attempts' \in [Jobs -> Seq(AttemptRow)]
      BY <2>1, <2>3, <3>2 DEF TypeOK
    <3> QED
      BY <3>3, <3>4
  <2> QED
    BY <1>13, <2>4 DEF TypeOK, CancelRunning, controlVars
<1>14. ASSUME NEW e \in executions, NEW delay, Fail(e, delay) PROVE TypeOK'
  <2>1. e \in Execution /\ e.job \in Jobs
    BY DEF TypeOK, Execution
  <2>2. CASE ~OwnsLease(e)
    BY <1>14, <2>2 DEF TypeOK, Fail
  <2>3. CASE OwnsLease(e)
    <3>1. /\ e.failure \in Failure
          /\ e.failure.retryAfter \in Nat
          /\ e.failure.auth \in BOOLEAN
      BY <1>14, <2>1 DEF Fail, Execution, Failure
    <3>2. delay \in Int
      <4>1. \A d \in RetryDelays(e) : d \in Int
        BY <3>1 DEF RetryDelays, Later
      <4> QED
        BY <1>14, <2>3, <4>1 DEF Fail
    <3>3. [Release(jobs[e.job], IF CanRetry(e) THEN "retrying" ELSE "failed")
             EXCEPT !.wait = delay] \in Job
      <4>1. ASSUME NEW st \in JobStatus
            PROVE  [Release(jobs[e.job], st) EXCEPT !.wait = delay] \in Job
        <5>1. Release(jobs[e.job], st) \in Job
          BY <2>1, ReleaseType DEF TypeOK
        <5> QED
          BY <5>1, <3>2 DEF Job
      <4> QED
        BY <4>1 DEF JobStatus
    <3>4. CloseAttempts(e.job, {e.runner}, "failed") \in Seq(AttemptRow)
      BY <2>1, CloseAttemptsType DEF TypeOK
    <3>5. \A a \in Accounts : AccountAfterFailure(accounts[a], e.failure) \in AccountRow
      <4> TAKE a \in Accounts
      <4>1. accounts[a] \in AccountRow
        BY DEF TypeOK
      <4>2. Later(accounts[a].cooldown, e.failure.retryAfter) \in Nat
        BY <3>1, <4>1 DEF AccountRow, Later
      <4>3. accounts[a].authFailures + (IF e.failure.auth THEN 1 ELSE 0) \in Nat
        BY <3>1, <4>1 DEF AccountRow
      <4> QED
        BY <4>2, <4>3 DEF AccountAfterFailure, AccountRow
    <3>6. \A p \in Platforms : Later(platformCooldown[p], e.failure.retryAfter) \in Nat
      BY <3>1 DEF TypeOK, Later
    <3>7. jobs' \in [Jobs -> Job] /\ attempts' \in [Jobs -> Seq(AttemptRow)]
      <4>1. /\ jobs' = [jobs EXCEPT ![e.job] =
                 [Release(jobs[e.job], IF CanRetry(e) THEN "retrying" ELSE "failed")
                    EXCEPT !.wait = delay]]
            /\ attempts' = [attempts EXCEPT
                 ![e.job] = CloseAttempts(e.job, {e.runner}, "failed")]
        BY <1>14, <2>3 DEF Fail
      <4> QED
        BY <2>1, <3>3, <3>4, <4>1 DEF TypeOK
    <3>8. accounts' \in [Accounts -> AccountRow]
      <4>1. accounts' = [a \in Accounts |->
              IF a = AccountOf[e.job] THEN AccountAfterFailure(accounts[a], e.failure)
                                      ELSE accounts[a]]
        BY <1>14, <2>3 DEF Fail
      <4> QED
        BY <3>5, <4>1 DEF TypeOK
    <3>9. platformCooldown' \in [Platforms -> Nat]
      BY <1>14, <2>3, <3>6 DEF TypeOK, Fail
    <3> QED
      BY <1>14, <3>7, <3>8, <3>9 DEF TypeOK, Fail
  <2> QED
    BY <2>2, <2>3
<1>15. ASSUME NEW w \in Runners, Drain(w) PROVE TypeOK'
  BY <1>15 DEF TypeOK, Drain
<1>16. ASSUME NEW w \in Runners, DrainTurn(w) PROVE TypeOK'
  <2>1. jobs' \in [Jobs -> Job] /\ attempts' \in [Jobs -> Seq(AttemptRow)]
    BY <1>16, RecoverType DEF DrainTurn
  <2> QED
    BY <1>16, <2>1 DEF TypeOK, DrainTurn, controlVars
<1>17. ASSUME NEW w \in Runners, Stop(w) PROVE TypeOK'
  BY <1>17 DEF TypeOK, Stop, controlVars
<1>18. ASSUME NEW w \in Runners, Gone(w) PROVE TypeOK'
  BY <1>18 DEF TypeOK, Gone, controlVars
<1>19. CASE Tick
  <2>1. jobs' \in [Jobs -> Job]
    BY <1>19, RowUpdates DEF TypeOK, Tick
  <2>2. accounts' \in [Accounts -> AccountRow]
    BY <1>19, TimeLeftType DEF TypeOK, Tick, AccountRow
  <2>3. platformCooldown' \in [Platforms -> Nat]
    BY <1>19, TimeLeftType DEF TypeOK, Tick
  <2> QED
    BY <1>19, <2>1, <2>2, <2>3 DEF TypeOK, Tick, processVars
<1>20. CASE UNCHANGED vars
  BY <1>20 DEF TypeOK, vars, controlVars, processVars
<1> QED
  BY <1>1, <1>2, <1>3, <1>4, <1>5, <1>6, <1>7, <1>8, <1>9, <1>10, <1>11, <1>12,
     <1>13, <1>14, <1>15, <1>16, <1>17, <1>18, <1>19, <1>20
     DEF Next, Command, Settle, ProcessStep, Fill, Return, Stopped, Crash

\* The types at the start.
LEMMA TypeInit == Init => TypeOK
<1> SUFFICES ASSUME Init PROVE TypeOK
  OBVIOUS
<1> USE Parameters
<1>1. jobs \in [Jobs -> Job]
  BY DEF Init, Job, JobStatus
<1>2. attempts \in [Jobs -> Seq(AttemptRow)]
  BY DEF Init
<1>3. accounts \in [Accounts -> AccountRow]
  BY DEF Init, AccountRow
<1> QED
  BY <1>1, <1>2, <1>3 DEF Init, TypeOK

\* Every variable keeps its type, for every value of the parameters.
THEOREM TypeCorrect == Spec => []TypeOK
BY TypeInit, TypeStep, PTL DEF Spec

-----------------------------------------------------------------------------
(* The attempt history.                                                    *)

\* What the row updates do to the fields the history looks at.
LEMMA RowFields ==
  ASSUME NEW row \in Job
  PROVE  /\ Submitted(row).status = "pending"
         /\ Submitted(row).owner = row.owner
         /\ Submitted(row).attemptCount = row.attemptCount
         /\ Reopened(row).status = "pending"
         /\ Reopened(row).owner = row.owner
         /\ Reopened(row).attemptCount = row.attemptCount
         /\ Withdrawn(row).status = "cancelled"
         /\ Withdrawn(row).owner = row.owner
         /\ Withdrawn(row).attemptCount = row.attemptCount
         /\ Orphaned(row).status = "failed"
         /\ Orphaned(row).owner = row.owner
         /\ Orphaned(row).attemptCount = row.attemptCount
         /\ Elapsed(row).status = row.status
         /\ Elapsed(row).owner = row.owner
         /\ Elapsed(row).attemptCount = row.attemptCount
BY DEF Submitted, Reopened, Withdrawn, Orphaned, Elapsed, Job

\* What a claim sets.
LEMMA ClaimedFields ==
  ASSUME NEW row \in Job, NEW w \in Runners
  PROVE  /\ Claimed(row, w).status = "running"
         /\ Claimed(row, w).owner = w
         /\ Claimed(row, w).attemptCount = row.attemptCount + 1
         /\ Claimed(row, w).maxAttempts = row.maxAttempts
         /\ Claimed(row, w).lease = LeaseTicks
BY DEF Claimed, Job

\* An update that keeps owner and attempt count, and neither starts nor ends a
\* run nor changes whether the job succeeded, keeps the history right.
LEMMA SameHistory ==
  ASSUME NEW row \in Job, NEW row2 \in Job, NEW rows,
         RowHistory(row, rows),
         row2.owner = row.owner, row2.attemptCount = row.attemptCount,
         row2.status = "running" <=> row.status = "running",
         row2.status = "succeeded" <=> row.status = "succeeded"
  PROVE  RowHistory(row2, rows)
BY DEF RowHistory

\* None of the row updates outside a run disturbs the history.
LEMMA IdleUpdates ==
  ASSUME NEW row \in Job, NEW rows, RowHistory(row, rows)
  PROVE  /\ row.status \in {"absent", "pending", "retrying", "failed", "cancelled"}
              => /\ RowHistory(Submitted(row), rows)
                 /\ RowHistory(Reopened(row), rows)
                 /\ RowHistory(Withdrawn(row), rows)
                 /\ RowHistory(Orphaned(row), rows)
         /\ RowHistory(Elapsed(row), rows)
<1> DEFINE idle == row.status \in {"absent", "pending", "retrying", "failed", "cancelled"}
<1>1. ASSUME idle PROVE RowHistory(Submitted(row), rows)
  <2>1. PICK r \in Job : r = Submitted(row)
    BY RowUpdates
  <2>2. /\ r.owner = row.owner /\ r.attemptCount = row.attemptCount
        /\ r.status \in {"pending", "failed", "cancelled"}
    BY <2>1, RowFields
  <2>3. RowHistory(r, rows)
    BY <1>1, <2>2, SameHistory
  <2> QED
    BY <2>1, <2>3
<1>2. ASSUME idle PROVE RowHistory(Reopened(row), rows)
  <2>1. PICK r \in Job : r = Reopened(row)
    BY RowUpdates
  <2>2. /\ r.owner = row.owner /\ r.attemptCount = row.attemptCount
        /\ r.status \in {"pending", "failed", "cancelled"}
    BY <2>1, RowFields
  <2>3. RowHistory(r, rows)
    BY <1>2, <2>2, SameHistory
  <2> QED
    BY <2>1, <2>3
<1>3. ASSUME idle PROVE RowHistory(Withdrawn(row), rows)
  <2>1. PICK r \in Job : r = Withdrawn(row)
    BY RowUpdates
  <2>2. /\ r.owner = row.owner /\ r.attemptCount = row.attemptCount
        /\ r.status \in {"pending", "failed", "cancelled"}
    BY <2>1, RowFields
  <2>3. RowHistory(r, rows)
    BY <1>3, <2>2, SameHistory
  <2> QED
    BY <2>1, <2>3
<1>4. ASSUME idle PROVE RowHistory(Orphaned(row), rows)
  <2>1. PICK r \in Job : r = Orphaned(row)
    BY RowUpdates
  <2>2. /\ r.owner = row.owner /\ r.attemptCount = row.attemptCount
        /\ r.status \in {"pending", "failed", "cancelled"}
    BY <2>1, RowFields
  <2>3. RowHistory(r, rows)
    BY <1>4, <2>2, SameHistory
  <2> QED
    BY <2>1, <2>3
<1>5. RowHistory(Elapsed(row), rows)
  <2>1. PICK r \in Job : r = Elapsed(row)
    BY RowUpdates
  <2>2. /\ r.owner = row.owner /\ r.attemptCount = row.attemptCount
        /\ r.status = row.status
    BY <2>1, RowFields
  <2>3. RowHistory(r, rows)
    BY <2>2, SameHistory
  <2> QED
    BY <2>1, <2>3
<1> QED
  BY <1>1, <1>2, <1>3, <1>4, <1>5

\* A run that ends closes its attempt row the same way.
LEMMA ClosedHistory ==
  ASSUME TypeOK, NEW j \in Jobs, RowHistory(jobs[j], attempts[j]),
         jobs[j].status = "running",
         NEW owners, jobs[j].owner \in owners,
         NEW st \in {"succeeded", "failed", "cancelled"},
         NEW row \in Job, row.owner = None, row.status # "running",
         row.attemptCount = jobs[j].attemptCount,
         row.status = "succeeded" <=> st = "succeeded"
  PROVE  RowHistory(row, CloseAttempts(j, owners, st))
<1> DEFINE c == jobs[j].attemptCount
           rows == CloseAttempts(j, owners, st)
<1>1. c \in Nat /\ c > 0 /\ Len(attempts[j]) = c
  BY DEF RowHistory, TypeOK, Job
<1>2. \A n \in 1..c : attempts[j][n] \in AttemptRow
  BY <1>1 DEF TypeOK
<1>3. Len(rows) = c
  BY <1>1, CloseAttemptsType DEF TypeOK
<1>4. \A n \in 1..c : rows[n] = IF attempts[j][n].status = "running"
                                     /\ attempts[j][n].owner \in owners
                                  THEN [attempts[j][n] EXCEPT !.status = st]
                                  ELSE attempts[j][n]
  BY <1>1 DEF CloseAttempts
<1>5. \A n \in 1..c : n # c => rows[n] = attempts[j][n]
  BY <1>4 DEF RowHistory
<1>6. rows[c] = [attempts[j][c] EXCEPT !.status = st]
  BY <1>1, <1>4 DEF RowHistory
<1>7. rows[c].status = st
  BY <1>1, <1>2, <1>6 DEF AttemptRow
<1>8. \A n \in 1..c : rows[n].status # "running"
  BY <1>5, <1>7 DEF RowHistory
<1>9. (\E n \in 1..c : rows[n].status = "succeeded") <=> st = "succeeded"
  BY <1>1, <1>5, <1>7 DEF RowHistory
<1> QED
  BY <1>3, <1>8, <1>9 DEF RowHistory

\* A claim opens a new newest row.
LEMMA ClaimedHistory ==
  ASSUME NEW row \in Job, NEW rows \in Seq(AttemptRow), RowHistory(row, rows),
         row.status \in Waiting, NEW w \in Runners
  PROVE  RowHistory(Claimed(row, w), Append(rows, [status |-> "running", owner |-> w]))
<1> DEFINE r2 == Append(rows, [status |-> "running", owner |-> w])
           c == row.attemptCount
<1>1. c \in Nat /\ Len(rows) = c /\ row.status # "running" /\ row.status # "succeeded"
  BY DEF RowHistory, Job, Waiting
<1>2. Len(r2) = c + 1 /\ r2[c + 1] = [status |-> "running", owner |-> w]
  BY <1>1
<1>3. \A n \in 1..c : r2[n] = rows[n]
  BY <1>1
<1>4. \A n \in 1..(c + 1) : n = c + 1 \/ n \in 1..c
  BY <1>1
<1>5. \A n \in 1..c : rows[n].status # "running" /\ rows[n].status # "succeeded"
  BY <1>1 DEF RowHistory
<1>6. PICK q : q = Claimed(row, w)
  OBVIOUS
<1>7. /\ q.status = "running" /\ q.owner = w /\ w # None /\ q.attemptCount = c + 1
  BY <1>6, ClaimedFields, Parameters
<1> HIDE DEF r2
<1>8. \A n \in 1..(c + 1) : r2[n].status = "running" <=> n = c + 1
  BY <1>1, <1>2, <1>3, <1>4, <1>5
<1>9. \A n \in 1..(c + 1) : r2[n].status # "succeeded"
  BY <1>1, <1>2, <1>3, <1>4, <1>5
<1> QED
  BY <1>1, <1>2, <1>6, <1>7, <1>8, <1>9 DEF RowHistory, r2

\* Recovery ends every expired run and closes its row.
LEMMA RecoverHistory ==
  ASSUME TypeOK, AttemptHistory, RecoverExpiredLeases
  PROVE  AttemptHistory'
<1> SUFFICES ASSUME NEW j \in Jobs PROVE RowHistory(jobs'[j], attempts'[j])
  BY DEF AttemptHistory
<1>1. CASE ~Expired(j)
  BY <1>1 DEF RecoverExpiredLeases, AttemptHistory
<1>2. CASE Expired(j)
  <2> DEFINE st == IF jobs[j].cancelRequested THEN "cancelled" ELSE "failed"
             row == Release(jobs[j], RecoveredStatus(j))
  <2>1. jobs'[j] = row /\ attempts'[j] = CloseAttempts(j, Runners, st)
    BY <1>2 DEF RecoverExpiredLeases
  <2>2. RecoveredStatus(j) \in {"cancelled", "retrying", "failed"}
    BY DEF RecoveredStatus
  <2>3. /\ row \in Job /\ row.owner = None /\ row.status = RecoveredStatus(j)
        /\ row.attemptCount = jobs[j].attemptCount
    BY <2>2, ReleaseType DEF TypeOK, JobStatus
  <2>4. jobs[j].status = "running" /\ jobs[j].owner \in Runners
    BY <1>2, Parameters DEF Expired, AttemptHistory, RowHistory, TypeOK, Job
  <2> HIDE DEF row
  <2> QED
    BY <2>1, <2>2, <2>3, <2>4, ClosedHistory DEF AttemptHistory
<1> QED
  BY <1>1, <1>2

\* The history is inductive, one step per action that touches the two tables.
LEMMA HistoryStep == TypeOK /\ TypeOK' /\ AttemptHistory /\ [Next]_vars => AttemptHistory'
<1> SUFFICES ASSUME TypeOK, TypeOK', AttemptHistory, [Next]_vars PROVE AttemptHistory'
  OBVIOUS
<1>j. ASSUME NEW j \in Jobs PROVE jobs[j] \in Job /\ RowHistory(jobs[j], attempts[j])
                                  /\ jobs'[j] \in Job
  BY DEF TypeOK, AttemptHistory
<1>a. ASSUME UNCHANGED <<jobs, attempts>> PROVE AttemptHistory'
  BY <1>a DEF AttemptHistory
<1>1. ASSUME NEW j \in Jobs, Enqueue(j) PROVE AttemptHistory'
  <2>1. jobs' = [jobs EXCEPT ![j] = Submitted(jobs[j])] /\ attempts' = attempts
    BY <1>1 DEF Enqueue
  <2>2. RowHistory(Submitted(jobs[j]), attempts[j])
    BY <1>1, <1>j, IdleUpdates DEF Enqueue
  <2> QED
    BY <2>1, <2>2, <1>j DEF AttemptHistory, TypeOK
<1>2. ASSUME NEW j \in Jobs, RequestCancellation(j) PROVE AttemptHistory'
  <2>1. CASE jobs[j].status \in Waiting /\ jobs' = [jobs EXCEPT ![j] = Withdrawn(jobs[j])]
    <3>1. RowHistory(Withdrawn(jobs[j]), attempts[j])
      BY <2>1, <1>j, IdleUpdates DEF Waiting
    <3>2. attempts' = attempts
      BY <1>2 DEF RequestCancellation
    <3> QED
      BY <2>1, <3>1, <3>2, <1>j DEF AttemptHistory, TypeOK
  <2>2. CASE jobs' = [jobs EXCEPT ![j] = [jobs[j] EXCEPT !.cancelRequested = TRUE]]
    <3>1. RowHistory([jobs[j] EXCEPT !.cancelRequested = TRUE], attempts[j])
      <4> DEFINE row == [jobs[j] EXCEPT !.cancelRequested = TRUE]
      <4>1. row.status = jobs[j].status /\ row.owner = jobs[j].owner
            /\ row.attemptCount = jobs[j].attemptCount
        BY <1>j DEF Job
      <4> QED
        BY <4>1, <1>j DEF RowHistory
    <3>2. attempts' = attempts
      BY <1>2 DEF RequestCancellation
    <3> QED
      BY <2>2, <3>1, <3>2, <1>j DEF AttemptHistory, TypeOK
  <2> QED
    BY <1>2, <2>1, <2>2 DEF RequestCancellation
<1>3. ASSUME NEW j \in Jobs, Retry(j) PROVE AttemptHistory'
  <2>1. jobs' = [jobs EXCEPT ![j] = Reopened(jobs[j])] /\ attempts' = attempts
    BY <1>3 DEF Retry
  <2>2. RowHistory(Reopened(jobs[j]), attempts[j])
    BY <1>3, <1>j, IdleUpdates DEF Retry, Retryable
  <2> QED
    BY <2>1, <2>2, <1>j DEF AttemptHistory, TypeOK
<1>4. ASSUME RecoverExpiredLeases PROVE AttemptHistory'
  BY <1>4, RecoverHistory
<1>5. ASSUME NEW k \in Jobs PROVE RowHistory(Cascaded(k), attempts[k])
  BY <1>j, IdleUpdates DEF Cascaded, Doomed, Waiting
<1>6. ASSUME NEW w \in Runners, NEW j \in Jobs, Claim(w, j) PROVE AttemptHistory'
  <2>1. /\ jobs' = [k \in Jobs |-> IF k = j THEN Claimed(jobs[j], w) ELSE Cascaded(k)]
        /\ attempts' = [attempts EXCEPT
             ![j] = Append(attempts[j], [status |-> "running", owner |-> w])]
        /\ jobs[j].status \in Waiting
    BY <1>6 DEF Claim, Claimable
  <2>2. RowHistory(Claimed(jobs[j], w),
                   Append(attempts[j], [status |-> "running", owner |-> w]))
    BY <2>1, <1>j, ClaimedHistory DEF TypeOK
  <2>3. attempts'[j] = Append(attempts[j], [status |-> "running", owner |-> w])
        /\ \A k \in Jobs \ {j} : attempts'[k] = attempts[k]
    BY <2>1 DEF TypeOK
  <2> QED
    BY <2>1, <2>2, <2>3, <1>5 DEF AttemptHistory
<1>7. ASSUME NEW w \in Runners, FillEnds(w) PROVE AttemptHistory'
  <2>1. attempts' = attempts /\ (jobs' = jobs \/ jobs' = [j \in Jobs |-> Cascaded(j)])
    BY <1>7 DEF FillEnds
  <2> QED
    BY <2>1, <1>5, <1>j DEF AttemptHistory
<1>8. ASSUME NEW e \in executions, Heartbeat(e) PROVE AttemptHistory'
  <2>1. e.job \in Jobs /\ attempts' = attempts
    BY <1>8 DEF Heartbeat, TypeOK, Execution
  <2>2. jobs' = jobs \/ jobs' = [jobs EXCEPT ![e.job] = [jobs[e.job] EXCEPT !.lease = LeaseTicks]]
    BY <1>8 DEF Heartbeat
  <2>3. RowHistory([jobs[e.job] EXCEPT !.lease = LeaseTicks], attempts[e.job])
    <3> DEFINE row == [jobs[e.job] EXCEPT !.lease = LeaseTicks]
    <3>1. row.status = jobs[e.job].status /\ row.owner = jobs[e.job].owner
          /\ row.attemptCount = jobs[e.job].attemptCount
      BY <2>1, <1>j DEF Job
    <3> QED
      BY <3>1, <2>1, <1>j DEF RowHistory
  <2> QED
    BY <2>1, <2>2, <2>3, <1>j DEF AttemptHistory, TypeOK
<1>9. ASSUME NEW e \in executions, OwnsLease(e),
             NEW st \in {"succeeded", "failed", "cancelled"},
             NEW row \in Job, row.owner = None, row.status # "running",
             row.attemptCount = jobs[e.job].attemptCount,
             row.status = "succeeded" <=> st = "succeeded",
             jobs' = [jobs EXCEPT ![e.job] = row],
             attempts' = [attempts EXCEPT ![e.job] = CloseAttempts(e.job, {e.runner}, st)]
      PROVE  AttemptHistory'
  <2>1. e.job \in Jobs /\ jobs[e.job].status = "running" /\ jobs[e.job].owner \in {e.runner}
    BY <1>9 DEF OwnsLease, TypeOK, Execution
  <2>2. RowHistory(row, CloseAttempts(e.job, {e.runner}, st))
    BY <1>9, <2>1, <1>j, ClosedHistory
  <2>3. /\ jobs'[e.job] = row /\ attempts'[e.job] = CloseAttempts(e.job, {e.runner}, st)
        /\ \A k \in Jobs \ {e.job} : jobs'[k] = jobs[k] /\ attempts'[k] = attempts[k]
    BY <1>9, <2>1 DEF TypeOK
  <2> QED
    BY <2>2, <2>3, <1>j DEF AttemptHistory
<1>10. ASSUME NEW e \in executions, Complete(e) PROVE AttemptHistory'
  <2>1. CASE UNCHANGED <<jobs, attempts>>
    BY <2>1, <1>a
  <2>2. CASE ~UNCHANGED <<jobs, attempts>>
    <3>1. /\ OwnsLease(e)
          /\ jobs' = [jobs EXCEPT ![e.job] = Release(jobs[e.job], "succeeded")]
          /\ attempts' = [attempts EXCEPT
               ![e.job] = CloseAttempts(e.job, {e.runner}, "succeeded")]
      BY <1>10, <2>2 DEF Complete, CanComplete
    <3>2. jobs[e.job] \in Job
      BY DEF TypeOK, Execution
    <3> QED
      BY <3>1, <3>2, <1>9, ReleaseType DEF JobStatus
  <2> QED
    BY <2>1, <2>2
<1>11. ASSUME NEW e \in executions, CancelRunning(e) PROVE AttemptHistory'
  <2>1. CASE UNCHANGED <<jobs, attempts>>
    BY <2>1, <1>a
  <2>2. CASE ~UNCHANGED <<jobs, attempts>>
    <3>1. /\ OwnsLease(e)
          /\ jobs' = [jobs EXCEPT ![e.job] = Release(jobs[e.job], "cancelled")]
          /\ attempts' = [attempts EXCEPT
               ![e.job] = CloseAttempts(e.job, {e.runner}, "cancelled")]
      BY <1>11, <2>2 DEF CancelRunning
    <3>2. jobs[e.job] \in Job
      BY DEF TypeOK, Execution
    <3> QED
      BY <3>1, <3>2, <1>9, ReleaseType DEF JobStatus
  <2> QED
    BY <2>1, <2>2
<1>12. ASSUME NEW e \in executions, NEW delay, Fail(e, delay) PROVE AttemptHistory'
  <2>1. CASE UNCHANGED <<jobs, attempts>>
    BY <2>1, <1>a
  <2>2. CASE ~UNCHANGED <<jobs, attempts>>
    <3> DEFINE st == IF CanRetry(e) THEN "retrying" ELSE "failed"
               row == [Release(jobs[e.job], st) EXCEPT !.wait = delay]
    <3>1. /\ OwnsLease(e)
          /\ jobs' = [jobs EXCEPT ![e.job] = row]
          /\ attempts' = [attempts EXCEPT
               ![e.job] = CloseAttempts(e.job, {e.runner}, "failed")]
      BY <1>12, <2>2 DEF Fail
    <3>2. jobs[e.job] \in Job /\ e.job \in Jobs /\ st \in JobStatus
      BY DEF TypeOK, Execution, JobStatus
    <3>3. row = jobs'[e.job] /\ row \in Job
      BY <3>1, <3>2, <1>j DEF TypeOK
    <3>4. /\ row.owner = None /\ row.status = st
          /\ row.attemptCount = jobs[e.job].attemptCount
      <4>1. Release(jobs[e.job], st) \in Job
        BY <3>2, ReleaseType
      <4>2. /\ row.owner = Release(jobs[e.job], st).owner
            /\ row.status = Release(jobs[e.job], st).status
            /\ row.attemptCount = Release(jobs[e.job], st).attemptCount
        BY <4>1 DEF Job
      <4> QED
        BY <4>2, <3>2, ReleaseType
    <3>5. st # "running" /\ st # "succeeded"
      OBVIOUS
    <3> HIDE DEF row, st
    <3> QED
      BY <3>1, <3>3, <3>4, <3>5, <1>9
  <2> QED
    BY <2>1, <2>2
<1>13. CASE Tick
  <2>1. attempts' = attempts /\ jobs' = [j \in Jobs |-> Elapsed(jobs[j])]
    BY <1>13 DEF Tick
  <2>2. \A j \in Jobs : RowHistory(Elapsed(jobs[j]), attempts[j])
    BY <1>j, IdleUpdates
  <2> QED
    BY <2>1, <2>2 DEF AttemptHistory
<1>14. CASE UNCHANGED vars
  BY <1>14, <1>a DEF vars
<1>15. ASSUME NEW w \in Runners, Start(w) \/ Poll(w) \/ DrainTurn(w) PROVE AttemptHistory'
  BY <1>15, <1>4 DEF Start, Poll, DrainTurn
<1>16. ASSUME NEW w \in Runners, Stop(w) \/ Stopped(w) \/ Crash(w) \/ Drain(w)
       PROVE AttemptHistory'
  BY <1>16, <1>a DEF Stop, Stopped, Crash, Gone, Drain
<1>17. ASSUME NEW e \in executions, NEW f, HandlerReturns(e, f) PROVE AttemptHistory'
  BY <1>17, <1>a DEF HandlerReturns
<1>18. ASSUME NEW m, SetQueueMode(m) PROVE AttemptHistory'
  BY <1>18, <1>a DEF SetQueueMode
<1>19. ASSUME NEW a, ResumeAccount(a) PROVE AttemptHistory'
  BY <1>19, <1>a DEF ResumeAccount
<1> QED
  BY <1>1, <1>2, <1>3, <1>6, <1>7, <1>8, <1>10, <1>11, <1>12, <1>13, <1>14, <1>15,
     <1>16, <1>17, <1>18, <1>19
     DEF Next, Command, Settle, ProcessStep, Fill, Return

\* For every number of jobs and runners and every failure pattern the jobs and
\* job_attempts tables agree: leases, open attempts and outcomes never diverge,
\* stalled event loops and concurrent commands included.
THEOREM AttemptHistoryHolds == Spec => []AttemptHistory
<1>1. Init => AttemptHistory
  BY Parameters DEF Init, AttemptHistory, RowHistory
<1> QED
  BY <1>1, TypeCorrect, HistoryStep, PTL DEF Spec

-----------------------------------------------------------------------------
(* Leases and the attempt budget, when heartbeats are timely.               *)

\* A job row within its attempt budget: a job that can still be claimed has an
\* attempt left.
WithinBudget(row) ==
  /\ row.attemptCount <= row.maxAttempts
  /\ row.status \in {"absent"} \cup Waiting => row.attemptCount < row.maxAttempts

\* Execution e holds the unexpired lease of its job, for its own attempt, and
\* the snapshot it took at the claim is still right.
Holds(e) ==
  /\ OwnsLease(e)
  /\ jobs[e.job].lease > 0
  /\ jobs[e.job].attemptCount = e.attempt
  /\ jobs[e.job].maxAttempts = e.maxAttempts

\* The inductive strengthening of ExecutionHoldsLease and AttemptsBounded.
LeaseInv ==
  /\ \A e \in executions : Holds(e)
  /\ \A e, f \in executions : e.job = f.job => e = f
  /\ \A j \in Jobs : WithinBudget(jobs[j])

\* What the row updates do to the budget.
LEMMA Budget ==
  ASSUME NEW row \in Job, WithinBudget(row)
  PROVE  /\ row.status \in {"absent"} \cup Waiting => WithinBudget(Submitted(row))
         /\ WithinBudget(Reopened(row))
         /\ WithinBudget(Withdrawn(row))
         /\ WithinBudget(Orphaned(row))
         /\ WithinBudget(Elapsed(row))
         /\ \A w \in Runners : row.status \in Waiting => WithinBudget(Claimed(row, w))
<1>0. row.attemptCount \in Nat /\ row.maxAttempts \in Nat
  BY DEF Job
<1>1. /\ Submitted(row).maxAttempts = row.maxAttempts
      /\ Withdrawn(row).maxAttempts = row.maxAttempts
      /\ Orphaned(row).maxAttempts = row.maxAttempts
      /\ Elapsed(row).maxAttempts = row.maxAttempts
      /\ Reopened(row).maxAttempts = Later(row.maxAttempts, row.attemptCount + 1)
  BY DEF Submitted, Withdrawn, Orphaned, Elapsed, Reopened, Job
<1>2. row.status \in {"absent"} \cup Waiting => WithinBudget(Submitted(row))
  BY <1>0, <1>1, RowFields DEF WithinBudget
<1>3. WithinBudget(Reopened(row))
  BY <1>0, <1>1, RowFields DEF WithinBudget, Later
<1>4. WithinBudget(Withdrawn(row))
  BY <1>0, <1>1, RowFields DEF WithinBudget, Waiting
<1>5. WithinBudget(Orphaned(row))
  BY <1>0, <1>1, RowFields DEF WithinBudget, Waiting
<1>6. WithinBudget(Elapsed(row))
  BY <1>0, <1>1, RowFields DEF WithinBudget
<1>7. ASSUME NEW w \in Runners, row.status \in Waiting PROVE WithinBudget(Claimed(row, w))
  BY <1>0, <1>7, ClaimedFields DEF WithinBudget, Waiting
<1> QED
  BY <1>2, <1>3, <1>4, <1>5, <1>6, <1>7

\* A step that only removes executions, and leaves the rows of the others as
\* they were, keeps the executions in order.
LEMMA FewerExecutions ==
  ASSUME TypeOK, LeaseInv, executions' \subseteq executions,
         \A e \in executions' : jobs'[e.job] = jobs[e.job],
         \A j \in Jobs : WithinBudget(jobs'[j])
  PROVE  LeaseInv'
<1>1. \A e \in executions' : e \in executions /\ jobs'[e.job] = jobs[e.job]
  OBVIOUS
<1>2. \A e \in executions' : Holds(e)'
  BY <1>1 DEF LeaseInv, Holds, OwnsLease
<1>3. \A e, f \in executions' : e.job = f.job => e = f
  BY <1>1 DEF LeaseInv
<1> QED
  BY <1>2, <1>3 DEF LeaseInv, WithinBudget

\* Recovery leaves every execution its lease: a held lease has not expired.
LEMMA RecoverLease ==
  ASSUME TypeOK, LeaseInv, RecoverExpiredLeases, executions' = executions
  PROVE  LeaseInv'
<1>1. \A e \in executions : e.job \in Jobs /\ ~Expired(e.job)
  BY DEF LeaseInv, Holds, Expired, TypeOK, Execution
<1>2. \A e \in executions : jobs'[e.job] = jobs[e.job]
  BY <1>1 DEF RecoverExpiredLeases
<1>3. ASSUME NEW j \in Jobs PROVE WithinBudget(jobs'[j])
  <2>1. CASE ~Expired(j)
    BY <2>1 DEF RecoverExpiredLeases, LeaseInv
  <2>2. CASE Expired(j)
    <3>1. PICK st \in JobStatus : st = RecoveredStatus(j)
      BY DEF RecoveredStatus, JobStatus
    <3>2. jobs'[j] = Release(jobs[j], st)
      BY <2>2, <3>1 DEF RecoverExpiredLeases
    <3>3. jobs[j] \in Job /\ WithinBudget(jobs[j])
      BY DEF TypeOK, LeaseInv
    <3>4. st \in {"absent"} \cup Waiting => jobs[j].attemptCount < jobs[j].maxAttempts
      BY <3>1 DEF RecoveredStatus, Waiting
    <3>5. /\ jobs'[j].status = st
          /\ jobs'[j].attemptCount = jobs[j].attemptCount
          /\ jobs'[j].maxAttempts = jobs[j].maxAttempts
      BY <3>2, <3>3, ReleaseType
    <3> QED
      BY <3>3, <3>4, <3>5 DEF WithinBudget
  <2> QED
    BY <2>1, <2>2
<1> QED
  BY <1>2, <1>3, FewerExecutions

\* The update of one row that no execution works on.
LEMMA IdleRow ==
  ASSUME TypeOK, LeaseInv, NEW j \in Jobs, jobs[j].status # "running",
         NEW row \in Job, WithinBudget(row), jobs' = [jobs EXCEPT ![j] = row],
         executions' = executions
  PROVE  LeaseInv'
<1>1. \A e \in executions : e.job \in Jobs /\ e.job # j
  BY DEF LeaseInv, Holds, OwnsLease, TypeOK, Execution
<1>2. jobs'[j] = row /\ \A k \in Jobs \ {j} : jobs'[k] = jobs[k]
  BY DEF TypeOK
<1>3. \A e \in executions' : jobs'[e.job] = jobs[e.job]
  BY <1>1, <1>2
<1>4. \A k \in Jobs : WithinBudget(jobs'[k])
  BY <1>2 DEF LeaseInv
<1> QED
  BY <1>3, <1>4, FewerExecutions

\* The end of one run: its execution is over and its row given back.
LEMMA EndedRun ==
  ASSUME TypeOK, LeaseInv, NEW e \in executions, executions' = executions \ {e},
         NEW row \in Job, WithinBudget(row), jobs' = [jobs EXCEPT ![e.job] = row]
  PROVE  LeaseInv'
<1>1. e.job \in Jobs /\ \A f \in executions' : f \in executions /\ f.job \in Jobs
  BY DEF TypeOK, Execution
<1>2. \A f \in executions' : f.job # e.job
  BY DEF LeaseInv
<1>3. jobs'[e.job] = row /\ \A k \in Jobs \ {e.job} : jobs'[k] = jobs[k]
  BY <1>1 DEF TypeOK
<1>4. \A f \in executions' : jobs'[f.job] = jobs[f.job]
  BY <1>1, <1>2, <1>3
<1>5. \A k \in Jobs : WithinBudget(jobs'[k])
  BY <1>3 DEF LeaseInv
<1> QED
  BY <1>4, <1>5, FewerExecutions

\* An execution that only changes its phase, failure or abort signal, while
\* its row keeps everything but its lease and cancellation request.
LEMMA SameRun ==
  ASSUME TypeOK, LeaseInv, NEW e \in executions, NEW f,
         f.runner = e.runner, f.job = e.job, f.attempt = e.attempt,
         f.maxAttempts = e.maxAttempts,
         executions' = Replace(e, f),
         \A j \in Jobs : /\ jobs'[j].status = jobs[j].status
                         /\ jobs'[j].owner = jobs[j].owner
                         /\ jobs'[j].attemptCount = jobs[j].attemptCount
                         /\ jobs'[j].maxAttempts = jobs[j].maxAttempts
                         /\ jobs[j].lease > 0 => jobs'[j].lease > 0
  PROVE  LeaseInv'
<1>1. \A g \in executions : g.job \in Jobs /\ Holds(g)
  BY DEF TypeOK, Execution, LeaseInv
<1>2. \A g \in executions' : \E h \in executions :
        /\ g.runner = h.runner /\ g.job = h.job
        /\ g.attempt = h.attempt /\ g.maxAttempts = h.maxAttempts
  BY DEF Replace
<1>3. \A g \in executions' : Holds(g)'
  BY <1>1, <1>2 DEF Holds, OwnsLease
<1>4. \A g, h \in executions' : g.job = h.job => g = h
  BY DEF Replace, LeaseInv
<1>5. \A j \in Jobs : WithinBudget(jobs'[j])
  BY DEF LeaseInv, WithinBudget
<1> QED
  BY <1>3, <1>4, <1>5 DEF LeaseInv, WithinBudget

\* A run given back with a final status, or retried with an attempt left, stays
\* within the budget.
LEMMA ReleaseBudget ==
  ASSUME NEW row \in Job, WithinBudget(row), NEW st \in JobStatus,
         st \in Terminal \/ row.attemptCount < row.maxAttempts
  PROVE  WithinBudget(Release(row, st))
<1>1. /\ Release(row, st).status = st
      /\ Release(row, st).attemptCount = row.attemptCount
      /\ Release(row, st).maxAttempts = row.maxAttempts
  BY ReleaseType
<1>2. st \in Terminal => st \notin {"absent"} \cup Waiting
  BY DEF Terminal, Waiting
<1> QED
  BY <1>1, <1>2 DEF WithinBudget

\* LeaseInv is inductive, one step per action that touches jobs or executions.
LEMMA LeaseStep ==
  TimelyHeartbeats /\ TypeOK /\ TypeOK' /\ LeaseInv /\ [Next]_vars => LeaseInv'
<1> SUFFICES ASSUME TimelyHeartbeats, TypeOK, TypeOK', LeaseInv, [Next]_vars
             PROVE  LeaseInv'
  OBVIOUS
<1>j. ASSUME NEW j \in Jobs PROVE jobs[j] \in Job /\ WithinBudget(jobs[j])
  BY DEF TypeOK, LeaseInv
<1>e. ASSUME NEW e \in executions
      PROVE  /\ e \in Execution /\ e.job \in Jobs /\ e.runner \in Runners
             /\ Holds(e) /\ jobs[e.job].status = "running"
  BY DEF TypeOK, Execution, LeaseInv, Holds, OwnsLease
<1>a. ASSUME jobs' = jobs, executions' \subseteq executions PROVE LeaseInv'
  BY <1>a, FewerExecutions DEF LeaseInv
<1>1. ASSUME NEW j \in Jobs, Enqueue(j) PROVE LeaseInv'
  <2>1. /\ jobs[j].status = "absent" /\ executions' = executions
        /\ jobs' = [jobs EXCEPT ![j] = Submitted(jobs[j])]
    BY <1>1 DEF Enqueue, processVars
  <2>2. PICK row \in Job : row = Submitted(jobs[j]) /\ WithinBudget(row)
    BY <2>1, <1>j, RowUpdates, Budget
  <2> QED
    BY <2>1, <2>2, IdleRow
<1>2. ASSUME NEW j \in Jobs, RequestCancellation(j) PROVE LeaseInv'
  <2>0. executions' = executions
    BY <1>2 DEF RequestCancellation, processVars
  <2>1. CASE jobs[j].status \in Waiting /\ jobs' = [jobs EXCEPT ![j] = Withdrawn(jobs[j])]
    <3>1. PICK row \in Job : row = Withdrawn(jobs[j]) /\ WithinBudget(row)
      BY <1>j, RowUpdates, Budget
    <3>2. jobs[j].status # "running"
      BY <2>1 DEF Waiting
    <3> QED
      BY <2>0, <2>1, <3>1, <3>2, IdleRow
  <2>2. CASE jobs' = [jobs EXCEPT ![j] = [jobs[j] EXCEPT !.cancelRequested = TRUE]]
    <3> DEFINE row == [jobs[j] EXCEPT !.cancelRequested = TRUE]
    <3>1. /\ row.status = jobs[j].status /\ row.owner = jobs[j].owner
          /\ row.attemptCount = jobs[j].attemptCount
          /\ row.maxAttempts = jobs[j].maxAttempts /\ row.lease = jobs[j].lease
      BY <1>j DEF Job
    <3>2. jobs'[j] = row /\ \A k \in Jobs \ {j} : jobs'[k] = jobs[k]
      BY <2>2 DEF TypeOK
    <3> HIDE DEF row
    <3>3. \A e \in executions : Holds(e)'
      BY <1>e, <3>1, <3>2 DEF Holds, OwnsLease
    <3>4. \A k \in Jobs : WithinBudget(jobs'[k])
      BY <1>j, <3>1, <3>2 DEF WithinBudget
    <3> QED
      BY <2>0, <3>3, <3>4 DEF LeaseInv, WithinBudget
  <2> QED
    BY <1>2, <2>1, <2>2 DEF RequestCancellation
<1>3. ASSUME NEW j \in Jobs, Retry(j) PROVE LeaseInv'
  <2>1. /\ jobs[j].status = "failed" /\ executions' = executions
        /\ jobs' = [jobs EXCEPT ![j] = Reopened(jobs[j])]
    BY <1>3 DEF Retry, Retryable, processVars
  <2>2. PICK row \in Job : row = Reopened(jobs[j]) /\ WithinBudget(row)
    BY <1>j, RowUpdates, Budget
  <2> QED
    BY <2>1, <2>2, IdleRow
<1>4. ASSUME NEW w \in Runners, Start(w) \/ Poll(w) \/ DrainTurn(w) PROVE LeaseInv'
  BY <1>4, RecoverLease DEF Start, Poll, DrainTurn
<1>5. ASSUME NEW k \in Jobs PROVE WithinBudget(Cascaded(k))
  BY <1>j, Budget DEF Cascaded
<1>6. ASSUME NEW k \in Jobs, jobs[k].status = "running" PROVE Cascaded(k) = jobs[k]
  BY <1>6 DEF Cascaded, Doomed, Waiting
<1>7. ASSUME NEW w \in Runners, NEW j \in Jobs, Claim(w, j) PROVE LeaseInv'
  <2>0. PICK x : /\ x = [runner |-> w, job |-> j, attempt |-> jobs[j].attemptCount + 1,
                         maxAttempts |-> jobs[j].maxAttempts, phase |-> "handler",
                         failure |-> None, aborted |-> FALSE]
    OBVIOUS
  <2>1. /\ jobs[j].status \in Waiting
        /\ executions' = executions \cup {x}
        /\ jobs' = [k \in Jobs |-> IF k = j THEN Claimed(jobs[j], w) ELSE Cascaded(k)]
    BY <1>7, <2>0 DEF Claim, Claimable
  <2>2. jobs'[j] = Claimed(jobs[j], w) /\ \A k \in Jobs \ {j} : jobs'[k] = Cascaded(k)
    BY <2>1
  <2>3. \A e \in executions : e.job # j
    BY <2>1, <1>e DEF Waiting
  <2>4. \A e \in executions : jobs'[e.job] = jobs[e.job]
    BY <2>2, <2>3, <1>e, <1>6
  <2>5. \A e \in executions : Holds(e)'
    BY <2>4, <1>e DEF Holds, OwnsLease
  <2>6. /\ jobs'[x.job].status = "running" /\ jobs'[x.job].owner = x.runner
        /\ jobs'[x.job].lease > 0 /\ jobs'[x.job].attemptCount = x.attempt
        /\ jobs'[x.job].maxAttempts = x.maxAttempts
    <3>1. /\ jobs'[j].status = "running" /\ jobs'[j].owner = w
          /\ jobs'[j].attemptCount = jobs[j].attemptCount + 1
          /\ jobs'[j].maxAttempts = jobs[j].maxAttempts
          /\ jobs'[j].lease = LeaseTicks
      BY <2>2, <1>j, ClaimedFields
    <3> QED
      BY <3>1, <2>0, Parameters
  <2>7. x.job = j
    BY <2>0
  <2>8. WithinBudget(Claimed(jobs[j], w))
    BY <2>1, <1>j, Budget
  <2>9. \A k \in Jobs : WithinBudget(jobs'[k])
    BY <2>2, <2>8, <1>5
  <2>10. \A e \in executions' : Holds(e)'
    BY <2>1, <2>5, <2>6 DEF Holds, OwnsLease
  <2>11. \A e, f \in executions' : e.job = f.job => e = f
    BY <2>1, <2>3, <2>7 DEF LeaseInv
  <2> QED
    BY <2>9, <2>10, <2>11 DEF LeaseInv, WithinBudget
<1>8. ASSUME NEW w \in Runners, FillEnds(w) PROVE LeaseInv'
  <2>1. executions' = executions /\ (jobs' = jobs \/ jobs' = [k \in Jobs |-> Cascaded(k)])
    BY <1>8 DEF FillEnds
  <2>2. \A k \in Jobs : WithinBudget(jobs'[k])
    BY <2>1, <1>j, <1>5
  <2>3. \A e \in executions : jobs'[e.job] = jobs[e.job]
    BY <2>1, <1>e, <1>6
  <2> QED
    BY <2>1, <2>2, <2>3, FewerExecutions
<1>9. ASSUME NEW e \in executions, Heartbeat(e) PROVE LeaseInv'
  <2>1. PICK f : /\ executions' = Replace(e, f)
                 /\ f.runner = e.runner /\ f.job = e.job
                 /\ f.attempt = e.attempt /\ f.maxAttempts = e.maxAttempts
    <3> DEFINE f == [e EXCEPT !.aborted = @ \/ jobs[e.job].cancelRequested \/ ~OwnsLease(e)]
    <3>1. executions' = Replace(e, f)
      BY <1>9 DEF Heartbeat
    <3>2. f.runner = e.runner /\ f.job = e.job
          /\ f.attempt = e.attempt /\ f.maxAttempts = e.maxAttempts
      BY <1>e DEF Execution
    <3> QED
      BY <3>1, <3>2
  <2>2. jobs' = [jobs EXCEPT ![e.job] = [jobs[e.job] EXCEPT !.lease = LeaseTicks]]
    BY <1>9, <1>e DEF Heartbeat, Holds
  <2> DEFINE row == [jobs[e.job] EXCEPT !.lease = LeaseTicks]
  <2>3. /\ row.status = jobs[e.job].status /\ row.owner = jobs[e.job].owner
        /\ row.attemptCount = jobs[e.job].attemptCount
        /\ row.maxAttempts = jobs[e.job].maxAttempts /\ row.lease > 0
    BY <1>e, <1>j, Parameters DEF Job
  <2>4. jobs'[e.job] = row /\ \A k \in Jobs \ {e.job} : jobs'[k] = jobs[k]
    BY <2>2, <1>e DEF TypeOK
  <2> HIDE DEF row
  <2>5. \A k \in Jobs : /\ jobs'[k].status = jobs[k].status
                        /\ jobs'[k].owner = jobs[k].owner
                        /\ jobs'[k].attemptCount = jobs[k].attemptCount
                        /\ jobs'[k].maxAttempts = jobs[k].maxAttempts
                        /\ jobs[k].lease > 0 => jobs'[k].lease > 0
    BY <2>3, <2>4
  <2> QED
    BY <2>1, <2>5, SameRun
<1>10. ASSUME NEW e \in executions, NEW f, HandlerReturns(e, f) PROVE LeaseInv'
  <2>1. PICK g : /\ executions' = Replace(e, g)
                 /\ g.runner = e.runner /\ g.job = e.job
                 /\ g.attempt = e.attempt /\ g.maxAttempts = e.maxAttempts
    <3> DEFINE p == [e EXCEPT !.phase = "cancel"]
               q == [e EXCEPT !.phase = IF f = None THEN "complete" ELSE "fail", !.failure = f]
    <3>1. executions' = Replace(e, p) \/ executions' = Replace(e, q)
      BY <1>10 DEF HandlerReturns
    <3>2. /\ p.runner = e.runner /\ p.job = e.job
          /\ p.attempt = e.attempt /\ p.maxAttempts = e.maxAttempts
          /\ q.runner = e.runner /\ q.job = e.job
          /\ q.attempt = e.attempt /\ q.maxAttempts = e.maxAttempts
      BY <1>e DEF Execution
    <3> QED
      BY <3>1, <3>2
  <2>2. jobs' = jobs
    BY <1>10 DEF HandlerReturns
  <2> QED
    BY <2>1, <2>2, SameRun
<1>11. ASSUME NEW e \in executions, NEW st \in JobStatus,
              st \in Terminal \/ e.attempt < e.maxAttempts,
              executions' = executions \ {e},
              jobs' = [jobs EXCEPT ![e.job] = Release(jobs[e.job], st)]
       PROVE  LeaseInv'
  <2>1. PICK row \in Job : row = Release(jobs[e.job], st)
    BY <1>e, <1>j, ReleaseType
  <2>2. WithinBudget(row)
    BY <2>1, <1>e, <1>j, <1>11, ReleaseBudget DEF Holds
  <2> QED
    BY <2>1, <2>2, <1>11, EndedRun
<1>12. ASSUME NEW e \in executions, Complete(e) PROVE LeaseInv'
  <2>1. CASE CanComplete(e)
    <3>1. /\ executions' = executions \ {e}
          /\ jobs' = [jobs EXCEPT ![e.job] = Release(jobs[e.job], "succeeded")]
      BY <1>12, <2>1 DEF Complete
    <3> QED
      BY <3>1, <1>11 DEF JobStatus, Terminal
  <2>2. CASE ~CanComplete(e)
    <3> DEFINE f == [e EXCEPT !.phase = "cancel"]
    <3>1. executions' = Replace(e, f) /\ jobs' = jobs
      BY <1>12, <2>2 DEF Complete
    <3>2. /\ f.runner = e.runner /\ f.job = e.job
          /\ f.attempt = e.attempt /\ f.maxAttempts = e.maxAttempts
      BY <1>e DEF Execution
    <3> HIDE DEF f
    <3> QED
      BY <3>1, <3>2, SameRun
  <2> QED
    BY <2>1, <2>2
<1>13. ASSUME NEW e \in executions, CancelRunning(e) PROVE LeaseInv'
  <2>1. /\ executions' = executions \ {e}
        /\ jobs' = [jobs EXCEPT ![e.job] = Release(jobs[e.job], "cancelled")]
    BY <1>13, <1>e DEF CancelRunning, Holds
  <2> QED
    BY <2>1, <1>11 DEF JobStatus, Terminal
<1>14. ASSUME NEW e \in executions, NEW delay, Fail(e, delay) PROVE LeaseInv'
  <2> DEFINE st == IF CanRetry(e) THEN "retrying" ELSE "failed"
             row == [Release(jobs[e.job], st) EXCEPT !.wait = delay]
  <2>1. /\ executions' = executions \ {e}
        /\ jobs' = [jobs EXCEPT ![e.job] = row]
    BY <1>14, <1>e DEF Fail, Holds
  <2>2. st \in JobStatus /\ (st \in Terminal \/ e.attempt < e.maxAttempts)
    BY DEF JobStatus, Terminal, CanRetry
  <2>3. /\ Release(jobs[e.job], st) \in Job
        /\ WithinBudget(Release(jobs[e.job], st))
    BY <2>2, <1>e, <1>j, ReleaseType, ReleaseBudget DEF Holds
  <2>4. row \in Job
    BY <2>1, <1>e DEF TypeOK
  <2>5. WithinBudget(row)
    <3>1. /\ row.status = Release(jobs[e.job], st).status
          /\ row.attemptCount = Release(jobs[e.job], st).attemptCount
          /\ row.maxAttempts = Release(jobs[e.job], st).maxAttempts
      BY <2>3 DEF Job
    <3> QED
      BY <3>1, <2>3 DEF WithinBudget
  <2> HIDE DEF row, st
  <2> QED
    BY <2>1, <2>4, <2>5, EndedRun
<1>15. CASE Tick
  <2>1. /\ executions' = executions
        /\ \A e \in executions : jobs[e.job].lease > 1
        /\ jobs' = [j \in Jobs |-> Elapsed(jobs[j])]
    BY <1>15 DEF Tick, processVars
  <2>2. ASSUME NEW j \in Jobs
        PROVE  /\ jobs'[j] = Elapsed(jobs[j])
               /\ Elapsed(jobs[j]).maxAttempts = jobs[j].maxAttempts
               /\ Elapsed(jobs[j]).lease = TimeLeft(jobs[j].lease)
    BY <2>1, <1>j DEF Elapsed, Job
  <2>3. ASSUME NEW e \in executions PROVE Holds(e)'
    <3>1. jobs'[e.job].lease > 0
      BY <2>1, <2>2, <1>e, <1>j DEF TimeLeft, Job
    <3> QED
      BY <3>1, <2>2, <1>e, <1>j, RowFields DEF Holds, OwnsLease
  <2>4. \A j \in Jobs : WithinBudget(jobs'[j])
    BY <2>2, <1>j, Budget
  <2> QED
    BY <2>1, <2>3, <2>4 DEF LeaseInv, WithinBudget
<1>16. CASE UNCHANGED vars
  BY <1>16, <1>a DEF vars, processVars
<1>17. ASSUME NEW w \in Runners, Stop(w) \/ Stopped(w) \/ Crash(w) \/ Drain(w)
       PROVE LeaseInv'
  BY <1>17, <1>a DEF Stop, Stopped, Crash, Gone, Drain
<1>18. ASSUME NEW m, SetQueueMode(m) PROVE LeaseInv'
  BY <1>18, <1>a DEF SetQueueMode, processVars
<1>19. ASSUME NEW a, ResumeAccount(a) PROVE LeaseInv'
  BY <1>19, <1>a DEF ResumeAccount, processVars
<1> QED
  BY <1>1, <1>2, <1>3, <1>4, <1>7, <1>8, <1>9, <1>10, <1>12, <1>13, <1>14, <1>15,
     <1>16, <1>17, <1>18, <1>19
     DEF Next, Command, Settle, ProcessStep, Fill, Return

\* At the start nothing runs and every job has its whole budget.
LEMMA LeaseInit == Init => LeaseInv
BY Parameters DEF Init, LeaseInv, WithinBudget

\* With timely heartbeats every handler in flight holds the unexpired lease of
\* its job: no job is executed twice at a time, over any number of servers,
\* crashes, recoveries, cancellations and retries.
THEOREM LeaseHeld == ASSUME TimelyHeartbeats PROVE Spec => []ExecutionHoldsLease
<1>1. LeaseInv => ExecutionHoldsLease
  BY DEF LeaseInv, Holds, ExecutionHoldsLease
<1>2. TypeOK /\ TypeOK' /\ LeaseInv /\ [Next]_vars => LeaseInv'
  BY LeaseStep
<1> QED
  BY <1>1, <1>2, LeaseInit, TypeCorrect, PTL DEF Spec

\* With timely heartbeats no job is ever started more often than max_attempts
\* allows, whoever retries or recovers it.
THEOREM AttemptsStayBounded == ASSUME TimelyHeartbeats PROVE Spec => []AttemptsBounded
<1>1. LeaseInv => AttemptsBounded
  BY DEF LeaseInv, WithinBudget, AttemptsBounded
<1>2. TypeOK /\ TypeOK' /\ LeaseInv /\ [Next]_vars => LeaseInv'
  BY LeaseStep
<1> QED
  BY <1>1, <1>2, LeaseInit, TypeCorrect, PTL DEF Spec

-----------------------------------------------------------------------------
(* What JobQueue lets happen to its rows: prerequisites, the limits of the *)
(* concurrency scopes, and the abstract life of a job.  It rests on one    *)
(* lemma, RowsMove, which says what a step of the queue can do to a row.   *)

\* The assumptions about scopes and prerequisites.
LEMMA Scopes ==
  /\ \A j \in Jobs : PrerequisiteOf[j] # None => PrerequisiteOf[j] \in Jobs
  /\ \A j, k \in Jobs : AccountOf[j] = AccountOf[k] /\ AccountOf[j] # None
                          => PlatformOf[j] = PlatformOf[k]
  /\ \A j \in Jobs : AccountOf[j] # None => PlatformOf[j] # None
  /\ None \notin Platforms /\ None \notin Accounts
  /\ Concurrency \in Nat /\ Concurrency > 0
  /\ PlatformConcurrency \in Nat /\ PlatformConcurrency > 0
  /\ AccountConcurrency \in Nat /\ AccountConcurrency > 0
BY ScopeAssumption, LimitAssumption

-----------------------------------------------------------------------------
(* What a step does to the rows.                                           *)

\* Row new differs from row in its status and its deadlines only.
SameCounts(row, new) ==
  new.attemptCount = row.attemptCount /\ new.maxAttempts = row.maxAttempts

\* The moves of a row that start no attempt.  A run is parked only by recovery,
\* which looks at the row, or by its own execution, which looks at its snapshot.
Moves(j, new) ==
  \/ SameCounts(jobs[j], new) /\ new.status = jobs[j].status
  \/ SameCounts(jobs[j], new) /\ jobs[j].status = "absent" /\ new.status = "pending"
  \/ /\ SameCounts(jobs[j], new) /\ jobs[j].status \in Waiting
     /\ new.status \in {"failed", "cancelled"}
  \/ /\ SameCounts(jobs[j], new) /\ jobs[j].status = "running"
     /\ new.status \in Terminal
  \/ /\ SameCounts(jobs[j], new) /\ jobs[j].status = "running"
     /\ new.status = "retrying"
     /\ \/ jobs[j].attemptCount < jobs[j].maxAttempts
        \/ \E e \in executions : e.job = j /\ e.attempt < e.maxAttempts
  \/ /\ jobs[j].status = "failed" /\ new.status = "pending"
     /\ new.attemptCount = jobs[j].attemptCount
     /\ new.maxAttempts = Later(jobs[j].maxAttempts, jobs[j].attemptCount + 1)

\* Job j is claimed: it may be, and its row counts the attempt.
Starts(j, new) ==
  /\ QueueHasRoom /\ j \in Claimable
  /\ new.status = "running"
  /\ new.attemptCount = jobs[j].attemptCount + 1
  /\ new.maxAttempts = jobs[j].maxAttempts

\* A step starts at most one job.
RowsMoved ==
  \/ \A j \in Jobs : Moves(j, jobs'[j])
  \/ \E j \in Jobs : Starts(j, jobs'[j]) /\ \A k \in Jobs \ {j} : Moves(k, jobs'[k])

\* maxAttempts is kept by every update of a row but the reopening.
LEMMA KeptBudgets ==
  ASSUME NEW row \in Job
  PROVE  /\ Submitted(row).maxAttempts = row.maxAttempts
         /\ Withdrawn(row).maxAttempts = row.maxAttempts
         /\ Orphaned(row).maxAttempts = row.maxAttempts
         /\ Elapsed(row).maxAttempts = row.maxAttempts
         /\ Reopened(row).maxAttempts = Later(row.maxAttempts, row.attemptCount + 1)
BY DEF Submitted, Withdrawn, Orphaned, Elapsed, Reopened, Job

\* A step that updates one row, and that row by a move.
LEMMA OneRowMoves ==
  ASSUME TypeOK, NEW j \in Jobs, NEW row, Moves(j, row), jobs' = [jobs EXCEPT ![j] = row]
  PROVE  RowsMoved
<1>1. jobs'[j] = row /\ \A k \in Jobs \ {j} : jobs'[k] = jobs[k]
  BY DEF TypeOK
<1>2. \A k \in Jobs \ {j} : Moves(k, jobs'[k])
  BY <1>1 DEF Moves, SameCounts
<1> QED
  BY <1>1, <1>2 DEF RowsMoved

\* A row that is given back moves to its new status.
LEMMA GivenBack ==
  ASSUME TypeOK, NEW j \in Jobs, jobs[j].status = "running",
         NEW st \in Terminal \cup {"retrying"}, NEW delay,
         \/ st \in Terminal
         \/ jobs[j].attemptCount < jobs[j].maxAttempts
         \/ \E e \in executions : e.job = j /\ e.attempt < e.maxAttempts
  PROVE  /\ Moves(j, Release(jobs[j], st))
         /\ Moves(j, [Release(jobs[j], st) EXCEPT !.wait = delay])
<1>1. jobs[j] \in Job /\ st \in JobStatus
  BY DEF TypeOK, Terminal, JobStatus
<1>2. PICK row \in Job : row = Release(jobs[j], st)
  BY <1>1, ReleaseType
<1>3. row.status = st /\ SameCounts(jobs[j], row)
  BY <1>1, <1>2, ReleaseType DEF SameCounts
<1>4. PICK parked : parked = [row EXCEPT !.wait = delay]
  OBVIOUS
<1>5. parked.status = st /\ SameCounts(jobs[j], parked)
  BY <1>2, <1>3, <1>4 DEF SameCounts, Job
<1>6. Moves(j, row) /\ Moves(j, parked)
  BY <1>3, <1>5 DEF Moves
<1> QED
  BY <1>2, <1>4, <1>6

\* Recovery moves the rows whose lease is over.
LEMMA RecoveryMoves == ASSUME TypeOK, RecoverExpiredLeases PROVE RowsMoved
<1> SUFFICES ASSUME NEW j \in Jobs PROVE Moves(j, jobs'[j])
  BY DEF RowsMoved
<1>1. CASE ~Expired(j)
  BY <1>1 DEF RecoverExpiredLeases, Moves, SameCounts
<1>2. CASE Expired(j)
  <2>1. jobs'[j] = Release(jobs[j], RecoveredStatus(j)) /\ jobs[j].status = "running"
    BY <1>2 DEF RecoverExpiredLeases, Expired
  <2>2. /\ RecoveredStatus(j) \in Terminal \cup {"retrying"}
        /\ RecoveredStatus(j) \in Terminal \/ jobs[j].attemptCount < jobs[j].maxAttempts
    BY DEF RecoveredStatus, Terminal
  <2> QED
    BY <2>1, <2>2, GivenBack
<1> QED
  BY <1>1, <1>2

\* The cascade of a claim fails the rows that wait in vain.
LEMMA CascadeMoves == ASSUME TypeOK, NEW j \in Jobs PROVE Moves(j, Cascaded(j))
<1>1. jobs[j] \in Job
  BY DEF TypeOK
<1> QED
  BY <1>1, RowFields, KeptBudgets DEF Cascaded, Doomed, Moves, SameCounts

\* Whatever the queue does, rows make only these moves.
LEMMA RowsMove == TypeOK /\ [Next]_vars => RowsMoved
<1> SUFFICES ASSUME TypeOK, [Next]_vars PROVE RowsMoved
  OBVIOUS
<1>j. ASSUME NEW j \in Jobs PROVE jobs[j] \in Job
  BY DEF TypeOK
<1>e. ASSUME NEW e \in executions PROVE e.job \in Jobs
  BY DEF TypeOK, Execution
<1>a. ASSUME jobs' = jobs PROVE RowsMoved
  BY <1>a DEF RowsMoved, Moves, SameCounts
<1>1. ASSUME NEW j \in Jobs, Enqueue(j) PROVE RowsMoved
  <2>1. Moves(j, Submitted(jobs[j]))
    BY <1>1, <1>j, RowFields, KeptBudgets DEF Enqueue, Moves, SameCounts
  <2> QED
    BY <1>1, <2>1, OneRowMoves DEF Enqueue
<1>2. ASSUME NEW j \in Jobs, RequestCancellation(j) PROVE RowsMoved
  <2>1. CASE jobs[j].status \in Waiting /\ jobs' = [jobs EXCEPT ![j] = Withdrawn(jobs[j])]
    <3>1. Moves(j, Withdrawn(jobs[j]))
      BY <2>1, <1>j, RowFields, KeptBudgets DEF Moves, SameCounts
    <3> QED
      BY <2>1, <3>1, OneRowMoves
  <2>2. CASE jobs' = [jobs EXCEPT ![j] = [jobs[j] EXCEPT !.cancelRequested = TRUE]]
    <3>1. Moves(j, [jobs[j] EXCEPT !.cancelRequested = TRUE])
      BY <1>j DEF Moves, SameCounts, Job
    <3> QED
      BY <2>2, <3>1, OneRowMoves
  <2> QED
    BY <1>2, <2>1, <2>2 DEF RequestCancellation
<1>3. ASSUME NEW j \in Jobs, Retry(j) PROVE RowsMoved
  <2>1. Moves(j, Reopened(jobs[j]))
    BY <1>3, <1>j, RowFields, KeptBudgets DEF Retry, Retryable, Moves
  <2> QED
    BY <1>3, <2>1, OneRowMoves DEF Retry
<1>4. ASSUME NEW w \in Runners, Start(w) \/ Poll(w) \/ DrainTurn(w) PROVE RowsMoved
  BY <1>4, RecoveryMoves DEF Start, Poll, DrainTurn
<1>5. ASSUME NEW w \in Runners, NEW j \in Jobs, Claim(w, j) PROVE RowsMoved
  <2>1. /\ QueueHasRoom /\ j \in Claimable
        /\ jobs'[j] = Claimed(jobs[j], w)
        /\ \A k \in Jobs \ {j} : jobs'[k] = Cascaded(k)
    BY <1>5 DEF Claim
  <2>2. Starts(j, jobs'[j])
    BY <2>1, <1>j, ClaimedFields DEF Starts
  <2> QED
    BY <2>1, <2>2, CascadeMoves DEF RowsMoved
<1>6. ASSUME NEW w \in Runners, FillEnds(w) PROVE RowsMoved
  <2>1. CASE jobs' = [j \in Jobs |-> Cascaded(j)]
    BY <2>1, CascadeMoves DEF RowsMoved
  <2> QED
    BY <1>6, <1>a, <2>1 DEF FillEnds
<1>7. ASSUME NEW e \in executions, Heartbeat(e) PROVE RowsMoved
  <2>1. CASE jobs' = [jobs EXCEPT ![e.job] = [jobs[e.job] EXCEPT !.lease = LeaseTicks]]
    <3>1. Moves(e.job, [jobs[e.job] EXCEPT !.lease = LeaseTicks])
      BY <1>e, <1>j DEF Moves, SameCounts, Job
    <3> QED
      BY <2>1, <3>1, <1>e, OneRowMoves
  <2> QED
    BY <1>7, <1>a, <2>1 DEF Heartbeat
<1>8. ASSUME NEW e \in executions, Complete(e) PROVE RowsMoved
  <2>1. CASE CanComplete(e)
    <3>1. /\ jobs' = [jobs EXCEPT ![e.job] = Release(jobs[e.job], "succeeded")]
          /\ jobs[e.job].status = "running"
      BY <1>8, <2>1 DEF Complete, CanComplete, OwnsLease
    <3>2. Moves(e.job, Release(jobs[e.job], "succeeded"))
      BY <3>1, <1>e, GivenBack DEF Terminal
    <3> QED
      BY <3>1, <3>2, <1>e, OneRowMoves
  <2> QED
    BY <1>8, <1>a, <2>1 DEF Complete
<1>9. ASSUME NEW e \in executions, CancelRunning(e) PROVE RowsMoved
  <2>1. CASE OwnsLease(e)
    <3>1. /\ jobs' = [jobs EXCEPT ![e.job] = Release(jobs[e.job], "cancelled")]
          /\ jobs[e.job].status = "running"
      BY <1>9, <2>1 DEF CancelRunning, OwnsLease
    <3>2. Moves(e.job, Release(jobs[e.job], "cancelled"))
      BY <3>1, <1>e, GivenBack DEF Terminal
    <3> QED
      BY <3>1, <3>2, <1>e, OneRowMoves
  <2> QED
    BY <1>9, <1>a, <2>1 DEF CancelRunning
<1>10. ASSUME NEW e \in executions, NEW delay, Fail(e, delay) PROVE RowsMoved
  <2>1. CASE OwnsLease(e)
    <3> DEFINE st == IF CanRetry(e) THEN "retrying" ELSE "failed"
    <3>1. /\ jobs' = [jobs EXCEPT ![e.job] = [Release(jobs[e.job], st) EXCEPT !.wait = delay]]
          /\ jobs[e.job].status = "running"
      BY <1>10, <2>1 DEF Fail, OwnsLease
    <3>2. st \in Terminal \/ (st = "retrying" /\ e.attempt < e.maxAttempts)
      BY DEF Terminal, CanRetry
    <3> HIDE DEF st
    <3>3. Moves(e.job, [Release(jobs[e.job], st) EXCEPT !.wait = delay])
      BY <3>1, <3>2, <1>e, GivenBack
    <3> QED
      BY <3>1, <3>3, <1>e, OneRowMoves
  <2> QED
    BY <1>10, <1>a, <2>1 DEF Fail
<1>11. CASE Tick
  <2> SUFFICES ASSUME NEW j \in Jobs PROVE Moves(j, jobs'[j])
    BY DEF RowsMoved
  <2>1. jobs'[j] = Elapsed(jobs[j])
    BY <1>11 DEF Tick
  <2> QED
    BY <2>1, <1>j, RowFields, KeptBudgets DEF Moves, SameCounts
<1>12. CASE UNCHANGED vars
  BY <1>12, <1>a DEF vars
<1>13. ASSUME NEW w \in Runners, Stop(w) \/ Stopped(w) \/ Crash(w) \/ Drain(w) PROVE RowsMoved
  BY <1>13, <1>a DEF Stop, Stopped, Crash, Gone, Drain
<1>14. ASSUME NEW e \in executions, NEW f, HandlerReturns(e, f) PROVE RowsMoved
  BY <1>14, <1>a DEF HandlerReturns
<1>15. ASSUME NEW m, SetQueueMode(m) PROVE RowsMoved
  BY <1>15, <1>a DEF SetQueueMode
<1>16. ASSUME NEW a, ResumeAccount(a) PROVE RowsMoved
  BY <1>16, <1>a DEF ResumeAccount
<1> QED
  BY <1>1, <1>2, <1>3, <1>4, <1>5, <1>6, <1>7, <1>8, <1>9, <1>10, <1>11, <1>12, <1>13,
     <1>14, <1>15, <1>16
     DEF Next, Command, Settle, ProcessStep, Fill, Return

-----------------------------------------------------------------------------
(* Prerequisites.                                                          *)

\* What succeeded stays so, and an attempt starts only when the prerequisite has.
LEMMA PrerequisiteStep ==
  TypeOK /\ PrerequisiteHonoured /\ [Next]_vars => PrerequisiteHonoured'
<1> SUFFICES ASSUME TypeOK, PrerequisiteHonoured, [Next]_vars,
                    NEW j \in Jobs, jobs'[j].attemptCount > 0, PrerequisiteOf[j] # None
             PROVE  jobs'[PrerequisiteOf[j]].status = "succeeded"
  BY DEF PrerequisiteHonoured
<1>1. RowsMoved
  BY RowsMove
<1>2. PrerequisiteOf[j] \in Jobs
  BY Scopes
<1>3. ASSUME NEW k \in Jobs, jobs[k].status = "succeeded"
      PROVE  jobs'[k].status = "succeeded"
  BY <1>1, <1>3 DEF RowsMoved, Moves, Starts, Claimable, Waiting
<1>4. jobs[j].attemptCount > 0 \/ PrerequisiteMet(j)
  BY <1>1 DEF RowsMoved, Moves, Starts, Claimable, SameCounts
<1> QED
  BY <1>2, <1>3, <1>4 DEF PrerequisiteHonoured, PrerequisiteMet

\* A job that was ever started has a prerequisite that succeeded and stays so,
\* for any jobs, servers, stalls, crashes and commands (claimNext and the
\* cascade of packages/db/src/index.ts).
THEOREM PrerequisitesHonoured == Spec => []PrerequisiteHonoured
<1>1. Init => PrerequisiteHonoured
  BY DEF Init, PrerequisiteHonoured
<1> QED
  BY <1>1, PrerequisiteStep, TypeCorrect, PTL DEF Spec

-----------------------------------------------------------------------------
(* Runs and handlers within the limits.                                    *)

\* A finite set below a bound stays within it when one element comes in.
LEMMA OneMore ==
  ASSUME NEW S, NEW T, NEW x, T \subseteq S \cup {x}, IsFiniteSet(S),
         NEW n \in Nat, Cardinality(S) < n
  PROVE  IsFiniteSet(T) /\ Cardinality(T) <= n
<1>1. /\ IsFiniteSet(S \cup {x})
      /\ Cardinality(S \cup {x}) = IF x \in S THEN Cardinality(S) ELSE Cardinality(S) + 1
  BY FS_AddElement
<1>2. Cardinality(S) \in Nat
  BY FS_CardinalityType
<1>3. Cardinality(S \cup {x}) <= n
  BY <1>1, <1>2
<1>4. IsFiniteSet(T) /\ Cardinality(T) <= Cardinality(S \cup {x})
  BY <1>1, FS_Subset
<1>5. Cardinality(T) \in Nat /\ Cardinality(S \cup {x}) \in Nat
  BY <1>1, <1>4, FS_CardinalityType
<1> QED
  BY <1>3, <1>4, <1>5

\* A smaller set stays within its limit.
LEMMA NoMore ==
  ASSUME NEW S, NEW T, T \subseteq S, IsFiniteSet(S), NEW n \in Nat, Cardinality(S) <= n
  PROVE  IsFiniteSet(T) /\ Cardinality(T) <= n
<1>1. /\ IsFiniteSet(T) /\ Cardinality(T) <= Cardinality(S)
      /\ Cardinality(T) \in Nat /\ Cardinality(S) \in Nat
  BY FS_Subset, FS_CardinalityType
<1> QED
  BY <1>1

RunningOn(p) == {j \in RunningJobs : PlatformOf[j] = p}
RunningFor(a) == {j \in RunningJobs : AccountOf[j] = a}

\* What the store counts when it claims: the rows that run, of all, of a
\* platform and of an account, are within their limits.
RunsWithinLimits ==
  /\ IsFiniteSet(RunningJobs) /\ Cardinality(RunningJobs) <= Concurrency
  /\ \A p \in Platforms : Cardinality(RunningOn(p)) <= PlatformConcurrency
  /\ \A a \in Accounts : Cardinality(RunningFor(a)) <= AccountConcurrency

\* A job that is claimed is within the limits; no other step adds a run.
LEMMA RunsStep == TypeOK /\ RunsWithinLimits /\ [Next]_vars => RunsWithinLimits'
<1> SUFFICES ASSUME TypeOK, RunsWithinLimits, [Next]_vars PROVE RunsWithinLimits'
  OBVIOUS
<1> USE Scopes
<1>0. ASSUME NEW x \in SUBSET RunningJobs
      PROVE  IsFiniteSet(x) /\ Cardinality(x) \in Nat
  BY FS_Subset, FS_CardinalityType DEF RunsWithinLimits
<1>1. CASE \A j \in Jobs : Moves(j, jobs'[j])
  <2>1. \A j \in Jobs : jobs'[j].status = "running" => jobs[j].status = "running"
    BY <1>1 DEF Moves, Terminal
  <2>2. /\ RunningJobs' \subseteq RunningJobs
        /\ \A p : RunningOn(p)' \subseteq RunningOn(p)
        /\ \A a : RunningFor(a)' \subseteq RunningFor(a)
    BY <2>1 DEF RunningJobs, RunningOn, RunningFor
  <2>3. IsFiniteSet(RunningJobs') /\ Cardinality(RunningJobs') <= Concurrency
    BY <2>2, NoMore DEF RunsWithinLimits
  <2>4. ASSUME NEW p \in Platforms PROVE Cardinality(RunningOn(p)') <= PlatformConcurrency
    <3>1. IsFiniteSet(RunningOn(p))
      BY <1>0 DEF RunningOn
    <3> QED
      BY <2>2, <3>1, NoMore DEF RunsWithinLimits
  <2>5. ASSUME NEW a \in Accounts PROVE Cardinality(RunningFor(a)') <= AccountConcurrency
    <3>1. IsFiniteSet(RunningFor(a))
      BY <1>0 DEF RunningFor
    <3> QED
      BY <2>2, <3>1, NoMore DEF RunsWithinLimits
  <2> QED
    BY <2>3, <2>4, <2>5 DEF RunsWithinLimits
<1>2. ASSUME NEW j \in Jobs, Starts(j, jobs'[j]), \A k \in Jobs \ {j} : Moves(k, jobs'[k])
      PROVE  RunsWithinLimits'
  <2>1. \A k \in Jobs \ {j} : jobs'[k].status = "running" => jobs[k].status = "running"
    BY <1>2 DEF Moves, Terminal
  <2>2. /\ RunningJobs' \subseteq RunningJobs \cup {j}
        /\ \A p : RunningOn(p)' \subseteq RunningOn(p) \cup {j}
        /\ \A p : PlatformOf[j] # p => RunningOn(p)' \subseteq RunningOn(p)
        /\ \A a : RunningFor(a)' \subseteq RunningFor(a) \cup {j}
        /\ \A a : AccountOf[j] # a => RunningFor(a)' \subseteq RunningFor(a)
    BY <2>1 DEF RunningJobs, RunningOn, RunningFor
  <2>3. Cardinality(RunningJobs) < Concurrency /\ ScopeCanRun(j)
    BY <1>2 DEF Starts, QueueHasRoom, Claimable
  <2>4. IsFiniteSet(RunningJobs') /\ Cardinality(RunningJobs') <= Concurrency
    BY <2>2, <2>3, OneMore DEF RunsWithinLimits
  <2>5. ASSUME NEW p \in Platforms PROVE Cardinality(RunningOn(p)') <= PlatformConcurrency
    <3>1. IsFiniteSet(RunningOn(p))
      BY <1>0 DEF RunningOn
    <3>2. CASE PlatformOf[j] # p
      BY <2>2, <3>1, <3>2, NoMore DEF RunsWithinLimits
    <3>3. CASE PlatformOf[j] = p
      <4>1. RunningOn(p) = {k \in RunningJobs : PlatformOf[k] = PlatformOf[j]}
        BY <3>3 DEF RunningOn
      <4>2. Cardinality(RunningOn(p)) < PlatformConcurrency
        BY <2>3, <3>3, <4>1 DEF ScopeCanRun
      <4> QED
        BY <2>2, <3>1, <4>2, OneMore
    <3> QED
      BY <3>2, <3>3
  <2>6. ASSUME NEW a \in Accounts PROVE Cardinality(RunningFor(a)') <= AccountConcurrency
    <3>1. IsFiniteSet(RunningFor(a))
      BY <1>0 DEF RunningFor
    <3>2. CASE AccountOf[j] # a
      BY <2>2, <3>1, <3>2, NoMore DEF RunsWithinLimits
    <3>3. CASE AccountOf[j] = a
      <4>1. AccountOf[j] # None /\ PlatformOf[j] # None
        BY <3>3
      <4>2. RunningFor(a) = {k \in RunningJobs : PlatformOf[k] = PlatformOf[j]
                                                  /\ AccountOf[k] = AccountOf[j]}
        BY <3>3, <4>1 DEF RunningFor, RunningJobs
      <4>3. Cardinality(RunningFor(a)) < AccountConcurrency
        BY <2>3, <4>1, <4>2 DEF ScopeCanRun
      <4> QED
        BY <2>2, <3>1, <4>3, OneMore
    <3> QED
      BY <3>2, <3>3
  <2> QED
    BY <2>4, <2>5, <2>6 DEF RunsWithinLimits
<1> QED
  BY <1>1, <1>2, RowsMove DEF RowsMoved

\* Nothing runs yet.
LEMMA RunsInit == Init => RunsWithinLimits
<1> SUFFICES ASSUME Init PROVE RunsWithinLimits
  OBVIOUS
<1>1. /\ RunningJobs = {}
      /\ \A p : RunningOn(p) = {} /\ \A a : RunningFor(a) = {}
  BY DEF Init, RunningJobs, RunningOn, RunningFor
<1> QED
  BY <1>1, Scopes, FS_EmptySet DEF RunsWithinLimits

\* Handlers that hold their leases are no more than the rows they run for.
LEMMA HandlersAreRuns ==
  ASSUME TypeOK, LeaseInv, NEW E \in SUBSET executions, NEW R, IsFiniteSet(R),
         \A e \in E : e.job \in R, NEW n \in Nat, Cardinality(R) <= n
  PROVE  Cardinality(E) <= n
<1> DEFINE f == [e \in E |-> e.job]
<1>1. f \in Injection(E, R)
  BY DEF Injection, IsInjective, LeaseInv
<1>2. Cardinality(E) <= Cardinality(R) /\ IsFiniteSet(E)
  BY <1>1, FS_Injection
<1>3. Cardinality(E) \in Nat /\ Cardinality(R) \in Nat
  BY <1>2, FS_CardinalityType
<1> QED
  BY <1>2, <1>3

\* A handler has a job that runs.
LEMMA HandlersLimited == TypeOK /\ LeaseInv /\ RunsWithinLimits => HandlersWithinLimits
<1> SUFFICES ASSUME TypeOK, LeaseInv, RunsWithinLimits PROVE HandlersWithinLimits
  OBVIOUS
<1> USE Scopes
<1>1. \A e \in executions : e.job \in RunningJobs
  BY DEF TypeOK, Execution, LeaseInv, Holds, OwnsLease, RunningJobs
<1>2. Cardinality(executions) <= Concurrency
  BY <1>1, HandlersAreRuns DEF RunsWithinLimits
<1>3. ASSUME NEW p \in Platforms
      PROVE  Cardinality({e \in executions : PlatformOf[e.job] = p}) <= PlatformConcurrency
  <2> DEFINE E == {e \in executions : PlatformOf[e.job] = p}
  <2>1. IsFiniteSet(RunningOn(p)) /\ \A e \in E : e.job \in RunningOn(p)
    BY <1>1, FS_Subset DEF RunningOn, RunsWithinLimits
  <2> HIDE DEF E
  <2>2. E \in SUBSET executions
    BY DEF E
  <2>3. Cardinality(E) <= PlatformConcurrency
    BY <2>1, <2>2, HandlersAreRuns DEF RunsWithinLimits
  <2> QED
    BY <2>3 DEF E
<1>4. ASSUME NEW a \in Accounts
      PROVE  Cardinality({e \in executions : AccountOf[e.job] = a}) <= AccountConcurrency
  <2> DEFINE E == {e \in executions : AccountOf[e.job] = a}
  <2>1. IsFiniteSet(RunningFor(a)) /\ \A e \in E : e.job \in RunningFor(a)
    BY <1>1, FS_Subset DEF RunningFor, RunsWithinLimits
  <2> HIDE DEF E
  <2>2. E \in SUBSET executions
    BY DEF E
  <2>3. Cardinality(E) <= AccountConcurrency
    BY <2>1, <2>2, HandlersAreRuns DEF RunsWithinLimits
  <2> QED
    BY <2>3 DEF E
<1> QED
  BY <1>2, <1>3, <1>4 DEF HandlersWithinLimits

-----------------------------------------------------------------------------
(* The circuit of an account.                                              *)

\* An account row whose circuit is open exactly when its failures say so.
Matches(row) == row.paused <=> row.authFailures >= AuthFailureThreshold

\* Success and failure keep the count of an account and its pause together.
LEMMA CircuitUpdates ==
  ASSUME NEW row \in AccountRow, Matches(row)
  PROVE  /\ Matches(AccountAfterSuccess(row))
         /\ \A f \in Failure : Matches(AccountAfterFailure(row, f))
<1> USE Parameters
<1>1. /\ row.authFailures \in Nat
      /\ row.paused <=> row.authFailures >= AuthFailureThreshold
  BY DEF AccountRow, Matches
<1>2. Matches(AccountAfterSuccess(row))
  <2>1. CASE row.paused
    BY <2>1 DEF AccountAfterSuccess
  <2>2. CASE ~row.paused
    <3>1. PICK new : new = AccountAfterSuccess(row)
      OBVIOUS
    <3>2. new.authFailures = 0 /\ new.paused = FALSE
      BY <2>2, <3>1, <1>1 DEF AccountAfterSuccess, AccountRow
    <3>3. Matches(new)
      BY <3>2 DEF Matches
    <3> QED
      BY <3>1, <3>3
  <2> QED
    BY <2>1, <2>2
<1>3. ASSUME NEW f \in Failure PROVE Matches(AccountAfterFailure(row, f))
  <2>1. f.auth \in BOOLEAN
    BY DEF Failure
  <2>2. PICK new : new = AccountAfterFailure(row, f)
    OBVIOUS
  <2>3. CASE f.auth
    <3>1. /\ new.authFailures = row.authFailures + 1
          /\ new.paused <=> (row.paused \/ row.authFailures + 1 >= AuthFailureThreshold)
      BY <2>2, <2>3 DEF AccountAfterFailure
    <3>2. row.authFailures >= AuthFailureThreshold
            => row.authFailures + 1 >= AuthFailureThreshold
      BY <1>1
    <3>3. Matches(new)
      BY <3>1, <3>2, <1>1 DEF Matches
    <3> QED
      BY <3>3, <2>2
  <2>4. CASE ~f.auth
    <3>1. new.authFailures = row.authFailures + 0 /\ (new.paused <=> row.paused)
      BY <2>2, <2>4 DEF AccountAfterFailure
    <3>2. Matches(new)
      BY <3>1, <1>1 DEF Matches
    <3> QED
      BY <3>2, <2>2
  <2> QED
    BY <2>3, <2>4
<1> QED
  BY <1>2, <1>3

\* No step lets the count of an account and its pause differ.
LEMMA CircuitStep ==
  TypeOK /\ CircuitMatchesFailures /\ [Next]_vars => CircuitMatchesFailures'
<1> SUFFICES ASSUME TypeOK, CircuitMatchesFailures, [Next]_vars
             PROVE  CircuitMatchesFailures'
  OBVIOUS
<1>a. ASSUME NEW a \in Accounts PROVE accounts[a] \in AccountRow /\ Matches(accounts[a])
  BY DEF TypeOK, CircuitMatchesFailures, Matches
<1> SUFFICES ASSUME NEW a \in Accounts PROVE Matches(accounts'[a])
  BY DEF CircuitMatchesFailures, Matches
<1>0. ASSUME accounts' = accounts PROVE Matches(accounts'[a])
  BY <1>0, <1>a
<1>1. ASSUME NEW b \in Accounts, ResumeAccount(b) PROVE Matches(accounts'[a])
  <2>1. accounts' = [accounts EXCEPT
                       ![b] = [authFailures |-> 0, paused |-> FALSE, cooldown |-> 0]]
    BY <1>1 DEF ResumeAccount
  <2>2. CASE a = b
    BY <2>1, <2>2, Parameters DEF TypeOK, Matches
  <2>3. CASE a # b
    BY <2>1, <2>3, <1>a DEF TypeOK
  <2> QED
    BY <2>2, <2>3
<1>2. ASSUME NEW e \in executions, Complete(e) PROVE Matches(accounts'[a])
  BY <1>2, <1>a, CircuitUpdates DEF Complete
<1>3. ASSUME NEW e \in executions, NEW delay, Fail(e, delay) PROVE Matches(accounts'[a])
  <2>1. e.failure \in Failure
    BY <1>3, Parameters DEF Fail, TypeOK, Execution
  <2> QED
    BY <1>3, <2>1, <1>a, CircuitUpdates DEF Fail
<1>4. CASE Tick
  <2>1. accounts'[a] = [accounts[a] EXCEPT !.cooldown = TimeLeft(accounts[a].cooldown)]
    BY <1>4 DEF Tick
  <2>2. accounts'[a].paused = accounts[a].paused
        /\ accounts'[a].authFailures = accounts[a].authFailures
    BY <2>1, <1>a DEF AccountRow
  <2> QED
    BY <2>2, <1>a DEF Matches
<1> QED
  BY <1>0, <1>1, <1>2, <1>3, <1>4
     DEF Next, Command, Settle, ProcessStep, Fill, Return, vars, controlVars, Enqueue,
         RequestCancellation, Retry, SetQueueMode, Start, Poll, Claim, FillEnds, Heartbeat,
         HandlerReturns, CancelRunning, Drain, DrainTurn, Stop, Stopped, Crash, Gone

\* With timely heartbeats the handlers in flight over all processes are within
\* the global, the platform and the account limit, and an account is paused
\* exactly while its failures reach the threshold, for any number of servers and
\* whatever is recovered, settled late or resumed in between (claimNext and
\* recordScopeFailure of packages/db/src/index.ts).
THEOREM ScopesHeld == ASSUME TimelyHeartbeats PROVE Spec => []ScopesHold
<1>1. Init => CircuitMatchesFailures
  <2> SUFFICES ASSUME Init, NEW a \in Accounts PROVE Matches(accounts[a])
    BY DEF CircuitMatchesFailures, Matches
  <2> QED
    BY Parameters DEF Init, Matches
<1>2. TypeOK /\ TypeOK' /\ LeaseInv /\ [Next]_vars => LeaseInv'
  BY LeaseStep
<1>3. TypeOK /\ LeaseInv /\ RunsWithinLimits /\ CircuitMatchesFailures => ScopesHold
  BY HandlersLimited DEF ScopesHold
<1> QED
  BY <1>1, <1>2, <1>3, LeaseInit, RunsInit, RunsStep, CircuitStep, TypeCorrect, PTL DEF Spec

-----------------------------------------------------------------------------
(* The abstract life of a job.                                             *)

\* A move of a row is a step of its life, a start begins one.
LEMMA MovesAreSteps ==
  ASSUME TypeOK, LeaseInv, NEW j \in Jobs
  PROVE  /\ Moves(j, jobs'[j]) => Lifecycle!JobStep(j)
         /\ Starts(j, jobs'[j]) => Lifecycle!JobStep(j)
<1>0. /\ jobs[j].status \in JobStatus
      /\ jobs[j].attemptCount \in Nat /\ jobs[j].maxAttempts \in Nat
      /\ jobs[j].attemptCount <= jobs[j].maxAttempts
      /\ jobs[j].status \in Waiting => jobs[j].attemptCount < jobs[j].maxAttempts
  BY DEF TypeOK, Job, LeaseInv, WithinBudget
<1>1. ASSUME Moves(j, jobs'[j]) PROVE Lifecycle!JobStep(j)
  <2>1. CASE SameCounts(jobs[j], jobs'[j]) /\ jobs'[j].status = jobs[j].status
    BY <2>1 DEF SameCounts, Lifecycle!JobStep, Lifecycle!Keep
  <2>2. CASE /\ SameCounts(jobs[j], jobs'[j])
             /\ jobs[j].status = "absent" /\ jobs'[j].status = "pending"
    BY <2>2 DEF SameCounts, Lifecycle!JobStep, Lifecycle!Move, LifeOf, Waiting
  <2>3. CASE /\ SameCounts(jobs[j], jobs'[j]) /\ jobs[j].status \in Waiting
             /\ jobs'[j].status \in {"failed", "cancelled"}
    BY <2>3 DEF SameCounts, Lifecycle!JobStep, Lifecycle!Move, LifeOf, Waiting
  <2>4. CASE /\ SameCounts(jobs[j], jobs'[j]) /\ jobs[j].status = "running"
             /\ jobs'[j].status \in Terminal
    BY <2>4 DEF SameCounts, Lifecycle!JobStep, Lifecycle!Move, Lifecycle!Outcome, LifeOf,
                Waiting, Terminal
  <2>5. CASE /\ SameCounts(jobs[j], jobs'[j]) /\ jobs[j].status = "running"
             /\ jobs'[j].status = "retrying"
             /\ \/ jobs[j].attemptCount < jobs[j].maxAttempts
                \/ \E e \in executions : e.job = j /\ e.attempt < e.maxAttempts
    <3>1. jobs[j].attemptCount < jobs[j].maxAttempts
      BY <2>5 DEF LeaseInv, Holds
    <3> QED
      BY <2>5, <3>1 DEF SameCounts, Lifecycle!JobStep, Lifecycle!Yield, Lifecycle!Move,
                        LifeOf, Waiting
  <2>6. CASE /\ jobs[j].status = "failed" /\ jobs'[j].status = "pending"
             /\ jobs'[j].attemptCount = jobs[j].attemptCount
             /\ jobs'[j].maxAttempts = Later(jobs[j].maxAttempts, jobs[j].attemptCount + 1)
    <3>1. jobs'[j].maxAttempts >= jobs[j].maxAttempts
          /\ jobs[j].attemptCount < jobs'[j].maxAttempts
      BY <2>6, <1>0 DEF Later
    <3> QED
      BY <2>6, <3>1 DEF Lifecycle!JobStep, Lifecycle!Reopen, LifeOf, Waiting
  <2> QED
    BY <1>1, <2>1, <2>2, <2>3, <2>4, <2>5, <2>6 DEF Moves
<1>2. ASSUME Starts(j, jobs'[j]) PROVE Lifecycle!JobStep(j)
  <2>1. /\ jobs[j].status \in Waiting /\ jobs'[j].status = "running"
        /\ jobs'[j].attemptCount = jobs[j].attemptCount + 1
        /\ jobs'[j].maxAttempts = jobs[j].maxAttempts
    BY <1>2 DEF Starts, Claimable
  <2> QED
    BY <2>1, <1>0 DEF Lifecycle!JobStep, Lifecycle!Begin, LifeOf, Waiting
<1> QED
  BY <1>1, <1>2

\* Counting is the same in both modules.
LEMMA SameCardinality == \A S : Lifecycle!Cardinality(S) = Cardinality(S)
BY DEF Cardinality, Lifecycle!Cardinality

\* Every step of the queue is a step of the abstract lives.
LEMMA LifecycleStep ==
  TypeOK /\ TypeOK' /\ LeaseInv /\ RunsWithinLimits' /\ [Next]_vars => Lifecycle!Next
<1> SUFFICES ASSUME TypeOK, TypeOK', LeaseInv, RunsWithinLimits', [Next]_vars
             PROVE  Lifecycle!Next
  OBVIOUS
<1>1. \A j \in Jobs : Lifecycle!JobStep(j)
  BY RowsMove, MovesAreSteps DEF RowsMoved
<1>2. ASSUME NEW j \in Jobs
      PROVE  LifeOf(jobs'[j].status) = "active" <=> jobs'[j].status = "running"
  <2>1. jobs'[j].status \in JobStatus
    BY DEF TypeOK, Job
  <2> QED
    BY <2>1 DEF LifeOf, JobStatus, Waiting
<1>3. Cardinality(RunningJobs') <= Concurrency
  BY DEF RunsWithinLimits
<1>4. {j \in Jobs : [k \in Jobs |-> LifeOf(jobs'[k].status)][j] = "active"} = RunningJobs'
  BY <1>2 DEF RunningJobs
<1>5. Lifecycle!Cardinality({j \in Jobs : [k \in Jobs |-> LifeOf(jobs'[k].status)][j] = "active"})
        <= Concurrency
  BY <1>3, <1>4, SameCardinality
<1> QED
  BY <1>1, <1>5 DEF Lifecycle!Next

\* With timely heartbeats the queue implements the abstract life of its jobs:
\* through claims, recoveries, late settlements, cascades and commands of any
\* number of processes, a job makes only the moves a caller of JobService is
\* promised, within its budget, and at most Concurrency jobs are active.
THEOREM LifecycleImplemented == ASSUME TimelyHeartbeats PROVE Spec => ImplementsLifecycle
<1>1. Init => Lifecycle!Init
  BY DEF Init, Lifecycle!Init, LifeOf, Waiting
<1>2. TypeOK /\ TypeOK' /\ LeaseInv /\ [Next]_vars => LeaseInv'
  BY LeaseStep
<1> QED
  BY <1>1, <1>2, LeaseInit, RunsInit, RunsStep, LifecycleStep, TypeCorrect, PTL
     DEF Spec, ImplementsLifecycle, Lifecycle!Spec

-----------------------------------------------------------------------------
(* Drain.                                                                  *)

\* Only a turn of its loop lets a drain return, and then no row is running but
\* with an expired lease, which no handler holds.
LEMMA DrainStep ==
  TypeOK /\ LeaseInv /\ [Next]_vars
    => \A w \in drains \ drains' : runner'[w] # "gone" => executions' = {}
<1> SUFFICES ASSUME TypeOK, LeaseInv, [Next]_vars,
                    NEW w \in drains, w \notin drains', runner'[w] # "gone"
             PROVE  executions' = {}
  OBVIOUS
<1>1. w \in Runners
  BY DEF TypeOK
<1>2. ASSUME NEW v \in Runners, DrainTurn(v) PROVE executions' = {}
  <2>1. Drained(v) /\ executions' = executions
    BY <1>2 DEF DrainTurn
  <2>2. \A e \in executions : e.job \in RunningJobs /\ ~Expired(e.job)
    BY DEF TypeOK, Execution, LeaseInv, Holds, OwnsLease, RunningJobs, Expired
  <2> QED
    BY <2>1, <2>2 DEF Drained
<1>3. ASSUME NEW v \in Runners, Gone(v) PROVE FALSE
  BY <1>1, <1>3 DEF Gone, TypeOK
<1>4. ASSUME NEW v \in Runners, Drain(v) PROVE FALSE
  BY <1>4 DEF Drain
<1>5. ASSUME drains' = drains PROVE FALSE
  BY <1>5
<1> QED
  BY <1>2, <1>3, <1>4, <1>5
     DEF Next, Command, Settle, ProcessStep, Fill, Return, vars, processVars, Enqueue,
         RequestCancellation, Retry, SetQueueMode, ResumeAccount, Start, Poll, Claim,
         FillEnds, Heartbeat, HandlerReturns, Complete, CancelRunning, Fail, Stop,
         Stopped, Crash, Tick

\* With timely heartbeats drain returns to its caller only when no handler is in
\* flight in any process (JobRunner.drain of packages/core/src/index.ts).
THEOREM DrainReturnsQuietly == ASSUME TimelyHeartbeats PROVE Spec => DrainReturnsIdle
<1>1. TypeOK /\ TypeOK' /\ LeaseInv /\ [Next]_vars => LeaseInv'
  BY LeaseStep
<1>2. TypeOK /\ LeaseInv /\ [Next]_vars
        => [\A w \in drains \ drains' : runner'[w] # "gone" => executions' = {}]_vars
  BY DrainStep
<1> QED
  BY <1>1, <1>2, LeaseInit, TypeCorrect, PTL DEF Spec, DrainReturnsIdle
=============================================================================
