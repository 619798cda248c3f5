------------------------------ MODULE JobQueue ------------------------------
(***************************************************************************)
(* The persistent job queue: the SQLite job store (SqliteJobRepository in  *)
(* packages/db/src/index.ts) together with the JobRunner processes that    *)
(* claim, execute and settle jobs (packages/core/src/index.ts) and the     *)
(* commands an operator sends over HTTP or from the CLI (JobService).      *)
(*                                                                         *)
(* Every store method is one BEGIN IMMEDIATE transaction, so it is one     *)
(* action.  Inside one server process JavaScript runs to the next await:   *)
(* between a handler's return and the last store call of its settlement,   *)
(* and between the first and the last claim of one polling pass, no other  *)
(* callback of that process runs.  Other processes (the CLI, the MCP       *)
(* server, a second server on the same database) interleave anywhere.      *)
(*                                                                         *)
(* Deadlines are kept as the time left to them: lease is lease_expires_at  *)
(* minus now while a job runs, wait is available_at minus now while it     *)
(* waits, and Tick moves all of them.                                      *)
(***************************************************************************)
EXTENDS Integers, Sequences, FiniteSets

CONSTANTS
  Jobs,                 \* job rows that may be enqueued
  Runners,              \* JobRunner incarnations; each has a fresh workerId
  None,                 \* SQL NULL / undefined
  Platforms, Accounts,  \* concurrency scopes
  PlatformOf,           \* jobs.platform_id
  AccountOf,            \* jobs.account_id; an account here is one on its platform,
                        \* the key (platform_id, account_id) of job_account_controls
  PrerequisiteOf,       \* jobs.depends_on_job_id
  Failures,             \* what a handler may throw
  MaxAttempts,          \* max_attempts given at enqueue
  Concurrency, PlatformConcurrency, AccountConcurrency,
  AuthFailureThreshold,
  LeaseTicks,           \* leaseDurationMs, in ticks of one heartbeat interval
  BaseDelay, MaxDelay,  \* baseRetryDelayMs and maxRetryDelayMs, in ticks
  MaxServers,           \* server processes alive at the same time
  TimelyHeartbeats,     \* no event loop stalls for a whole lease
  CliCommands,          \* commands may come from another process
  AttemptBound,         \* bound: no manual retry past this many attempts
  AgeBound              \* bound: how long an overdue job's age is remembered

Failure == [retryable : BOOLEAN, auth : BOOLEAN, retryAfter : Nat]

ASSUME ScopeAssumption ==
  /\ PlatformOf \in [Jobs -> Platforms \cup {None}]
  /\ AccountOf \in [Jobs -> Accounts \cup {None}]
  /\ PrerequisiteOf \in [Jobs -> Jobs \cup {None}]
  /\ None \notin Platforms \cup Accounts \cup Jobs \cup Runners \cup Failures
  /\ \A j \in Jobs : AccountOf[j] # None => PlatformOf[j] # None
  /\ \A j, k \in Jobs : AccountOf[j] = AccountOf[k] /\ AccountOf[j] # None
                        => PlatformOf[j] = PlatformOf[k]
  /\ Failures \subseteq Failure

ASSUME LimitAssumption ==
  /\ {MaxAttempts, Concurrency, PlatformConcurrency, AccountConcurrency,
      AuthFailureThreshold, LeaseTicks} \subseteq Nat \ {0}
  /\ {BaseDelay, MaxDelay, MaxServers, AttemptBound, AgeBound} \subseteq Nat
  /\ {TimelyHeartbeats, CliCommands} \subseteq BOOLEAN

VARIABLES
  jobs,              \* the jobs table
  attempts,          \* the job_attempts rows of each job, by attempt_number
  mode,              \* job_queue_control.mode
  accounts,          \* job_account_controls
  platformCooldown,  \* job_platform_controls.cooldown_until, as time left
  runner,            \* the life of each JobRunner
  filling,           \* JobRunner.filling: a claiming pass is under way
  executions,        \* JobRunner.execute calls in flight (lost in a crash)
  drains             \* runners with a JobRunner.drain call waiting

processVars == <<runner, filling, executions, drains>>
controlVars == <<mode, accounts, platformCooldown>>
vars == <<jobs, attempts, controlVars, processVars>>

JobStatus == {"absent", "pending", "running", "retrying",
              "succeeded", "failed", "cancelled"}
Job == [status : JobStatus, attemptCount : Nat, maxAttempts : Nat,
        owner : Runners \cup {None}, lease : Nat, wait : Int,
        cancelRequested : BOOLEAN]
AttemptRow == [status : {"running", "succeeded", "failed", "cancelled"},
               owner : Runners]
AccountRow == [authFailures : Nat, paused : BOOLEAN, cooldown : Nat]
\* attempt and maxAttempts are the job snapshot taken at the claim; failure is
\* the classified error the handler threw.
Execution ==
  {e \in [runner : Runners, job : Jobs, attempt : Nat, maxAttempts : Nat,
          phase : {"handler", "complete", "fail", "cancel"},
          failure : Failures \cup {None}, aborted : BOOLEAN] :
     e.phase = "fail" => e.failure # None}

Waiting == {"pending", "retrying"}
Terminal == {"succeeded", "failed", "cancelled"}

Later(a, b) == IF a >= b THEN a ELSE b

-----------------------------------------------------------------------------
(* Who may move: one JavaScript thread per process.                        *)

Alive(w) == runner[w] \in {"up", "stopping"}

\* The event loop of w is inside a synchronous stretch.
Busy(w) == filling[w] \/ \E e \in executions : e.runner = w /\ e.phase # "handler"

\* Turn for a command: the CLI may run at any time, an HTTP request only when
\* the event loop of the server is free.
CommandTurn == CliCommands \/ \E w \in Runners : Alive(w) /\ ~Busy(w)

Active(w) == {e \in executions : e.runner = w}

Replace(e, f) == (executions \ {e}) \cup {f}

-----------------------------------------------------------------------------
(* The store.                                                              *)

RunningJobs == {j \in Jobs : jobs[j].status = "running"}

OwnsLease(e) ==
  jobs[e.job].status = "running" /\ jobs[e.job].owner = e.runner

CanComplete(e) == OwnsLease(e) /\ ~jobs[e.job].cancelRequested

\* A row leaving 'running' gives its lease back.
Release(row, status) == [row EXCEPT !.status = status, !.owner = None, !.lease = 0]

\* The row as each UPDATE leaves it.
Submitted(row) == [row EXCEPT !.status = "pending", !.wait = 0]
Reopened(row) ==
  [row EXCEPT !.status = "pending", !.wait = 0, !.cancelRequested = FALSE,
              !.maxAttempts = Later(row.maxAttempts, row.attemptCount + 1)]
Withdrawn(row) == [row EXCEPT !.status = "cancelled", !.wait = 0, !.cancelRequested = TRUE]
Claimed(row, w) ==
  [row EXCEPT !.status = "running", !.attemptCount = row.attemptCount + 1,
              !.owner = w, !.lease = LeaseTicks, !.wait = 0]
Orphaned(row) == [row EXCEPT !.status = "failed", !.wait = 0]

\* UPDATE job_attempts ... WHERE job_id = ? AND status = 'running' AND lease_owner = ?
CloseAttempts(j, owners, status) ==
  [n \in 1..Len(attempts[j]) |->
     IF attempts[j][n].status = "running" /\ attempts[j][n].owner \in owners
     THEN [attempts[j][n] EXCEPT !.status = status]
     ELSE attempts[j][n]]

\* Seeded fault: recovery takes leases that are still held.
ExpiredEagerly(j) == jobs[j].status = "running" /\ jobs[j].lease <= 1

\* Seeded fault: recovery skips the jobs whose cancellation was requested.
ExpiredUncancelled(j) ==
  jobs[j].status = "running" /\ jobs[j].lease = 0 /\ ~jobs[j].cancelRequested

Expired(j) == jobs[j].status = "running" /\ jobs[j].lease = 0

RecoveredStatus(j) ==
  IF jobs[j].cancelRequested THEN "cancelled"
  ELSE IF jobs[j].attemptCount < jobs[j].maxAttempts THEN "retrying" ELSE "failed"

\* Seeded fault: recovery leaves the attempt row of the lost worker open.
RecoverJobsOnly ==
  /\ jobs' = [j \in Jobs |-> IF Expired(j) THEN Release(jobs[j], RecoveredStatus(j))
                                          ELSE jobs[j]]
  /\ attempts' = attempts

RecoverExpiredLeases ==
  /\ jobs' = [j \in Jobs |-> IF Expired(j) THEN Release(jobs[j], RecoveredStatus(j))
                                          ELSE jobs[j]]
  /\ attempts' = [j \in Jobs |->
       IF Expired(j)
       THEN CloseAttempts(j, Runners,
                          IF jobs[j].cancelRequested THEN "cancelled" ELSE "failed")
       ELSE attempts[j]]

\* Seeded fault: a claim waits only for a prerequisite that is still running.
PrerequisiteNotFailed(j) ==
  \/ PrerequisiteOf[j] = None
  \/ jobs[PrerequisiteOf[j]].status \notin {"running", "failed", "cancelled"}

PrerequisiteMet(j) ==
  \/ PrerequisiteOf[j] = None
  \/ jobs[PrerequisiteOf[j]].status = "succeeded"

\* Seeded fault: the cascade never fires, dependants of a lost job keep waiting.
DoomedNever(j) == FALSE

\* The prerequisite ended without success, so the job is failed with
\* JOB_DEPENDENCY_FAILED by the next claim transaction.
Doomed(j) ==
  /\ jobs[j].status \in Waiting
  /\ PrerequisiteOf[j] # None
  /\ jobs[PrerequisiteOf[j]].status \in {"failed", "cancelled"}

\* Seeded fault: the account limit admits one job too many.
ScopeOffByOne(j) ==
  \/ AccountOf[j] = None
  \/ Cardinality({k \in RunningJobs : AccountOf[k] = AccountOf[j]}) <= AccountConcurrency

ScopeCanRun(j) ==
  \/ PlatformOf[j] = None
  \/ /\ platformCooldown[PlatformOf[j]] = 0
     /\ Cardinality({k \in RunningJobs : PlatformOf[k] = PlatformOf[j]})
          < PlatformConcurrency
     /\ \/ AccountOf[j] = None
        \/ /\ ~accounts[AccountOf[j]].paused
           /\ accounts[AccountOf[j]].cooldown = 0
           /\ Cardinality({k \in RunningJobs : PlatformOf[k] = PlatformOf[j]
                                               /\ AccountOf[k] = AccountOf[j]})
                < AccountConcurrency

Claimable ==
  {j \in Jobs : /\ jobs[j].status \in Waiting
                /\ jobs[j].wait <= 0
                /\ ~jobs[j].cancelRequested
                /\ PrerequisiteMet(j)
                /\ ScopeCanRun(j)}

\* claimNext goes past its early returns.
QueueHasRoom == mode = "running" /\ Cardinality(RunningJobs) < Concurrency

-----------------------------------------------------------------------------
Init ==
  /\ jobs = [j \in Jobs |-> [status |-> "absent", attemptCount |-> 0,
                             maxAttempts |-> MaxAttempts, owner |-> None,
                             lease |-> 0, wait |-> 0, cancelRequested |-> FALSE]]
  /\ attempts = [j \in Jobs |-> <<>>]
  /\ mode = "running"
  /\ accounts = [a \in Accounts |-> [authFailures |-> 0, paused |-> FALSE, cooldown |-> 0]]
  /\ platformCooldown = [p \in Platforms |-> 0]
  /\ runner = [w \in Runners |-> "off"]
  /\ filling = [w \in Runners |-> FALSE]
  /\ executions = {}
  /\ drains = {}

(* Commands: HTTP routes, CLI, MCP and the handlers that enqueue work.     *)

\* enqueue: an idempotency key that is already there changes nothing; a
\* prerequisite is a foreign key, so its row exists.
Enqueue(j) ==
  /\ CommandTurn
  /\ jobs[j].status = "absent"
  /\ PrerequisiteOf[j] # None => jobs[PrerequisiteOf[j]].status # "absent"
  /\ jobs' = [jobs EXCEPT ![j] = Submitted(@)]
  /\ UNCHANGED <<attempts, controlVars, processVars>>

RequestCancellation(j) ==
  /\ CommandTurn
  /\ \/ /\ jobs[j].status \in Waiting
        /\ jobs' = [jobs EXCEPT ![j] = Withdrawn(@)]
     \/ /\ jobs[j].status = "running" /\ ~jobs[j].cancelRequested
        /\ jobs' = [jobs EXCEPT ![j] = [@ EXCEPT !.cancelRequested = TRUE]]
  /\ UNCHANGED <<attempts, controlVars, processVars>>

Retryable(j) == jobs[j].status = "failed"

\* Manual retry of a failed job.  AttemptBound caps the number of retries.
Retry(j) ==
  /\ CommandTurn
  /\ Retryable(j)
  /\ jobs[j].attemptCount < AttemptBound
  /\ jobs' = [jobs EXCEPT ![j] = Reopened(@)]
  /\ UNCHANGED <<attempts, controlVars, processVars>>

SetQueueMode(m) ==
  /\ CommandTurn
  /\ mode' = m
  /\ UNCHANGED <<jobs, attempts, accounts, platformCooldown, processVars>>

ResumeAccount(a) ==
  /\ CommandTurn
  /\ accounts' = [accounts EXCEPT
       ![a] = [authFailures |-> 0, paused |-> FALSE, cooldown |-> 0]]
  /\ UNCHANGED <<jobs, attempts, mode, platformCooldown, processVars>>

-----------------------------------------------------------------------------
(* The runner: polling and claiming.                                       *)

\* JobRunner.start: recover expired leases and begin the first pass.
Start(w) ==
  /\ runner[w] = "off"
  /\ Cardinality({v \in Runners : Alive(v)}) < MaxServers
  /\ runner' = [runner EXCEPT ![w] = "up"]
  /\ filling' = [filling EXCEPT ![w] = TRUE]
  /\ RecoverExpiredLeases
  /\ UNCHANGED <<controlVars, executions, drains>>

\* The poll timer: runOnce up to its claiming loop.
Poll(w) ==
  /\ runner[w] = "up"
  /\ ~Busy(w)
  /\ filling' = [filling EXCEPT ![w] = TRUE]
  /\ RecoverExpiredLeases
  /\ UNCHANGED <<controlVars, runner, executions, drains>>

\* The rows after the dependency cascade of one claim transaction.
Cascaded(j) ==
  IF Doomed(j) THEN Orphaned(jobs[j]) ELSE jobs[j]

\* claimNext returns job j, and execute starts its handler.
Claim(w, j) ==
  /\ filling[w]
  /\ Cardinality(Active(w)) < Concurrency
  /\ QueueHasRoom
  /\ j \in Claimable
  /\ \A k \in Claimable : jobs[j].wait <= jobs[k].wait
  /\ jobs' = [k \in Jobs |->
       IF k = j THEN Claimed(jobs[j], w) ELSE Cascaded(k)]
  /\ attempts' = [attempts EXCEPT ![j] = Append(@, [status |-> "running", owner |-> w])]
  /\ executions' = executions \cup
       {[runner |-> w, job |-> j, attempt |-> jobs[j].attemptCount + 1,
         maxAttempts |-> jobs[j].maxAttempts, phase |-> "handler",
         failure |-> None, aborted |-> FALSE]}
  /\ UNCHANGED <<controlVars, runner, filling, drains>>

\* The claiming loop ends: no free slot in this process, or claimNext found
\* nothing.  A claim that finds no candidate still commits its cascade.
FillEnds(w) ==
  /\ filling[w]
  /\ filling' = [filling EXCEPT ![w] = FALSE]
  /\ \/ /\ Cardinality(Active(w)) >= Concurrency \/ ~QueueHasRoom
        /\ jobs' = jobs
     \/ /\ Cardinality(Active(w)) < Concurrency
        /\ QueueHasRoom
        /\ Claimable = {}
        /\ jobs' = [j \in Jobs |-> Cascaded(j)]
  /\ UNCHANGED <<attempts, controlVars, runner, executions, drains>>

-----------------------------------------------------------------------------
(* The runner: one execution, from claim to settlement.                    *)

\* The heartbeat interval of one execution.
Heartbeat(e) ==
  /\ ~Busy(e.runner)
  /\ jobs' = IF OwnsLease(e) THEN [jobs EXCEPT ![e.job] = [@ EXCEPT !.lease = LeaseTicks]]
                             ELSE jobs
  /\ executions' = Replace(e, [e EXCEPT
       !.aborted = @ \/ jobs[e.job].cancelRequested \/ ~OwnsLease(e)])
  /\ UNCHANGED <<attempts, controlVars, runner, filling, drains>>

\* handler.execute returns (failure = None) or throws, and the runner reads
\* the abort signal and isCancellationRequested to choose the settlement.
HandlerReturns(e, failure) ==
  /\ ~Busy(e.runner)
  /\ e.phase = "handler"
  /\ executions' = Replace(e,
       IF e.aborted \/ jobs[e.job].cancelRequested
       THEN [e EXCEPT !.phase = "cancel"]
       ELSE [e EXCEPT !.phase = IF failure = None THEN "complete" ELSE "fail",
                      !.failure = failure])
  /\ UNCHANGED <<jobs, attempts, controlVars, runner, filling, drains>>

\* A success clears the failure count of an account that is still active.
AccountAfterSuccess(row) ==
  IF row.paused THEN row ELSE [row EXCEPT !.authFailures = 0]

\* complete: settles the job as succeeded.  When the row no longer qualifies
\* the runner goes on to cancelRunning.
Complete(e) ==
  /\ e.phase = "complete"
  /\ \/ /\ CanComplete(e)
        /\ jobs' = [jobs EXCEPT ![e.job] = Release(@, "succeeded")]
        /\ attempts' = [attempts EXCEPT
             ![e.job] = CloseAttempts(e.job, {e.runner}, "succeeded")]
        /\ accounts' = [a \in Accounts |->
             IF a = AccountOf[e.job] THEN AccountAfterSuccess(accounts[a])
                                     ELSE accounts[a]]
        /\ executions' = executions \ {e}
     \/ /\ ~CanComplete(e)
        /\ executions' = Replace(e, [e EXCEPT !.phase = "cancel"])
        /\ UNCHANGED <<jobs, attempts, accounts>>
  /\ UNCHANGED <<mode, platformCooldown, runner, filling, drains>>

CancelRunning(e) ==
  /\ e.phase = "cancel"
  /\ executions' = executions \ {e}
  /\ \/ /\ OwnsLease(e)
        /\ jobs' = [jobs EXCEPT ![e.job] = Release(@, "cancelled")]
        /\ attempts' = [attempts EXCEPT
             ![e.job] = CloseAttempts(e.job, {e.runner}, "cancelled")]
     \/ /\ ~OwnsLease(e)
        /\ UNCHANGED <<jobs, attempts>>
  /\ UNCHANGED <<controlVars, runner, filling, drains>>

\* Seeded fault: one retry too many.
CanRetryOnceMore(e) == e.failure.retryable /\ e.attempt <= e.maxAttempts

\* canRetry in JobRunner.execute: it compares the snapshot taken at the claim.
CanRetry(e) == e.failure.retryable /\ e.attempt < e.maxAttempts

\* retryAt: exponential backoff, half of it jittered, never before Retry-After.
RetryDelays(e) ==
  LET exponential == BaseDelay * 2^(e.attempt - 1)
      backoff == IF exponential < MaxDelay THEN exponential ELSE MaxDelay
  IN {Later(d, e.failure.retryAfter) : d \in ((backoff + 1) \div 2)..backoff}

\* recordScopeFailure for the account of the failed job.
AccountAfterFailure(row, failure) ==
  LET failures == row.authFailures + (IF failure.auth THEN 1 ELSE 0)
  IN [authFailures |-> failures,
      paused |-> row.paused \/ (failure.auth /\ failures >= AuthFailureThreshold),
      cooldown |-> Later(row.cooldown, failure.retryAfter)]

\* fail: the job is failed or parked until retryAt.  The row is not checked
\* for a cancellation request.
Fail(e, delay) ==
  /\ e.phase = "fail"
  /\ executions' = executions \ {e}
  /\ \/ /\ OwnsLease(e)
        /\ delay \in IF CanRetry(e) THEN RetryDelays(e) ELSE {0}
        /\ jobs' = [jobs EXCEPT ![e.job] =
             [Release(@, IF CanRetry(e) THEN "retrying" ELSE "failed")
                EXCEPT !.wait = delay]]
        /\ attempts' = [attempts EXCEPT
             ![e.job] = CloseAttempts(e.job, {e.runner}, "failed")]
        /\ accounts' = [a \in Accounts |->
             IF a = AccountOf[e.job] THEN AccountAfterFailure(accounts[a], e.failure)
                                     ELSE accounts[a]]
        /\ platformCooldown' = [p \in Platforms |->
             IF p = PlatformOf[e.job] THEN Later(platformCooldown[p], e.failure.retryAfter)
                                      ELSE platformCooldown[p]]
     \/ /\ ~OwnsLease(e)
        /\ delay = 0
        /\ UNCHANGED <<jobs, attempts, accounts, platformCooldown>>
  /\ UNCHANGED <<mode, runner, filling, drains>>

-----------------------------------------------------------------------------
(* Drain, shutdown, crash and time.                                        *)

\* JobRunner.drain is called: it persists the mode and waits.
Drain(w) ==
  /\ runner[w] = "up"
  /\ ~Busy(w)
  /\ mode' = "draining"
  /\ drains' = drains \cup {w}
  /\ UNCHANGED <<jobs, attempts, accounts, platformCooldown, runner, filling, executions>>

\* No row is left running once the expired leases are recovered.
Drained(w) == \A j \in RunningJobs : Expired(j)

\* One turn of drain's loop: recover expired leases, return if nothing runs.
DrainTurn(w) ==
  /\ w \in drains
  /\ ~Busy(w)
  /\ RecoverExpiredLeases
  /\ drains' = IF Drained(w) THEN drains \ {w} ELSE drains
  /\ UNCHANGED <<controlVars, runner, filling, executions>>

\* JobRunner.stop: no more claims, in-flight handlers are awaited.
Stop(w) ==
  /\ runner[w] = "up"
  /\ ~Busy(w)
  /\ \E v \in Runners : runner[v] = "off"
  /\ runner' = [runner EXCEPT ![w] = "stopping"]
  /\ UNCHANGED <<jobs, attempts, controlVars, filling, executions, drains>>

\* The process is gone and its memory with it.
Gone(w) ==
  /\ runner' = [runner EXCEPT ![w] = "gone"]
  /\ filling' = [filling EXCEPT ![w] = FALSE]
  /\ executions' = executions \ Active(w)
  /\ drains' = drains \ {w}
  /\ UNCHANGED <<jobs, attempts, controlVars>>

\* stop resolves once no handler of this runner is in flight.
Stopped(w) == runner[w] = "stopping" /\ Active(w) = {} /\ Gone(w)

\* A crash at any point.  The last incarnation in Runners stays up.
Crash(w) == Alive(w) /\ (\E v \in Runners : runner[v] = "off") /\ Gone(w)

\* Seeded fault: a deadline that has passed keeps counting down.
TimeLeftUnclamped(t) == t - 1

TimeLeft(t) == IF t > 0 THEN t - 1 ELSE 0

\* A tick for one row: leases run down, waits too, and an overdue job ages.
Elapsed(row) ==
  [row EXCEPT !.lease = TimeLeft(row.lease),
              !.wait = IF row.status \in Waiting /\ row.wait > -AgeBound
                       THEN row.wait - 1 ELSE row.wait]

\* Time passes.  With TimelyHeartbeats no execution of a live process is a
\* whole lease behind: its interval has fired before the lease runs out.
Tick ==
  /\ TimelyHeartbeats => \A e \in executions : jobs[e.job].lease > 1
  /\ jobs' = [j \in Jobs |-> Elapsed(jobs[j])]
  /\ accounts' = [a \in Accounts |-> [accounts[a] EXCEPT
       !.cooldown = TimeLeft(@)]]
  /\ platformCooldown' = [p \in Platforms |-> TimeLeft(platformCooldown[p])]
  /\ UNCHANGED <<attempts, mode, processVars>>

-----------------------------------------------------------------------------
Command ==
  \/ \E j \in Jobs : Enqueue(j) \/ RequestCancellation(j) \/ Retry(j)
  \/ \E m \in {"running", "paused", "draining"} : SetQueueMode(m)
  \/ \E a \in Accounts : ResumeAccount(a)

Settle(e) ==
  \/ Complete(e)
  \/ CancelRunning(e)
  \/ \E delay \in {0} \cup (IF e.phase = "fail" THEN RetryDelays(e) ELSE {}) : Fail(e, delay)

ProcessStep(w) == Start(w) \/ Stop(w) \/ Stopped(w) \/ Crash(w) \/ Drain(w) \/ DrainTurn(w)

Fill(w) == (\E j \in Jobs : Claim(w, j)) \/ FillEnds(w)

Return(e) == \E failure \in Failures \cup {None} : HandlerReturns(e, failure)

Next ==
  \/ Command
  \/ Tick
  \/ \E w \in Runners : ProcessStep(w) \/ Poll(w) \/ Fill(w)
  \/ \E e \in executions : Heartbeat(e) \/ Return(e) \/ Settle(e)

Spec == Init /\ [][Next]_vars

\* A runner that has something to do at once: starting, a synchronous stretch
\* to bring to its end, or a shutdown that is through.
Proceed(w) ==
  Start(w) \/ Fill(w) \/ (\E e \in Active(w) : Settle(e)) \/ Stopped(w)

\* What the scheduling of the code provides: time passes, a synchronous
\* stretch runs to its end, and the event loop serves every due timer and
\* every settled promise (strong fairness: each waits while the loop is busy).
\* Assumed of the outside: a handler eventually returns, and a server that
\* went down is started again.
Fairness ==
  /\ WF_vars(Tick)
  /\ \A w \in Runners :
       /\ WF_vars(Proceed(w))
       /\ SF_vars(Poll(w))
       /\ SF_vars(DrainTurn(w))
       /\ SF_vars(\E e \in Active(w) : Return(e))

FairSpec == Spec /\ Fairness

-----------------------------------------------------------------------------
(* Safety.                                                                 *)

\* Every variable has its type.
TypeOK ==
  /\ jobs \in [Jobs -> Job]
  /\ attempts \in [Jobs -> Seq(AttemptRow)]
  /\ mode \in {"running", "paused", "draining"}
  /\ accounts \in [Accounts -> AccountRow]
  /\ platformCooldown \in [Platforms -> Nat]
  /\ runner \in [Runners -> {"off", "up", "stopping", "gone"}]
  /\ filling \in [Runners -> BOOLEAN]
  /\ executions \subseteq Execution
  /\ drains \subseteq Runners

\* One job and its attempt rows.
RowHistory(row, rows) ==
  /\ row.status = "running" <=> row.owner # None
  /\ Len(rows) = row.attemptCount
  /\ \A n \in 1..row.attemptCount :
       rows[n].status = "running" <=> row.status = "running" /\ n = row.attemptCount
  /\ row.status = "running"
       => row.attemptCount > 0 /\ rows[row.attemptCount].owner = row.owner
  /\ row.status = "succeeded"
       <=> \E n \in 1..row.attemptCount : rows[n].status = "succeeded"

\* The two tables agree: a job holds a lease exactly while it runs; it has one
\* attempt row per claim; only the newest can be open, and is exactly while the
\* job runs, with the same owner; a job succeeded exactly when some attempt did.
AttemptHistory == \A j \in Jobs : RowHistory(jobs[j], attempts[j])

\* A handler in flight holds the unexpired lease of its job, for the attempt
\* it was started for: no job is executed twice at a time, and nobody takes a
\* job from a live handler.
ExecutionHoldsLease ==
  \A e \in executions : /\ OwnsLease(e)
                        /\ jobs[e.job].attemptCount = e.attempt
                        /\ jobs[e.job].lease > 0

\* Attempts are bounded: leases, recoveries, retries and manual retries
\* together never start more attempts than max_attempts allows.
AttemptsBounded == \A j \in Jobs : jobs[j].attemptCount <= jobs[j].maxAttempts

\* The handlers in flight over all processes stay within the global, platform
\* and account limits, through crashes, recoveries and restarts.
HandlersWithinLimits ==
  /\ Cardinality(executions) <= Concurrency
  /\ \A p \in Platforms :
       Cardinality({e \in executions : PlatformOf[e.job] = p}) <= PlatformConcurrency
  /\ \A a \in Accounts :
       Cardinality({e \in executions : AccountOf[e.job] = a}) <= AccountConcurrency

\* A job that was ever started has a prerequisite that succeeded, and it stays
\* so whatever is cancelled, retried or recovered later.
PrerequisiteHonoured ==
  \A j \in Jobs : jobs[j].attemptCount > 0 /\ PrerequisiteOf[j] # None
                    => jobs[PrerequisiteOf[j]].status = "succeeded"

\* An account is paused exactly while its consecutive authentication failures
\* reach the threshold: late successes and failures of jobs claimed before the
\* pause do not close the circuit again.
CircuitMatchesFailures ==
  \A a \in Accounts : accounts[a].paused
                        <=> accounts[a].authFailures >= AuthFailureThreshold

\* What a scope was allowed and what it did agree, over all processes.
ScopesHold == HandlersWithinLimits /\ CircuitMatchesFailures

-----------------------------------------------------------------------------
(* Action properties.                                                      *)

\* An attempt succeeds only by the settlement of the execution that was started
\* for it: what docs/progress/v0.1.md says of stale workers.  The guards compare
\* the worker and not the attempt, so a worker that stalls past its lease and
\* takes its own job back breaks it.
SettlesOwn ==
  \A j \in Jobs : \A n \in DOMAIN attempts[j] :
    attempts[j][n].status = "running" /\ attempts'[j][n].status = "succeeded"
      => \E e \in executions : e.job = j /\ e.attempt = n /\ e.phase = "complete"

SettledByOwnExecution == [][SettlesOwn]_vars

\* When drain returns to its caller no handler is in flight in any process.
DrainReturnsIdle ==
  [][\A w \in drains \ drains' : runner'[w] # "gone" => executions' = {}]_vars

-----------------------------------------------------------------------------
(* The refinement mapping to JobLifecycle: pending and retrying rows are   *)
(* open jobs, a running row is an active one, whoever holds its lease.     *)

LifeOf(status) ==
  CASE status = "absent" -> "new"
    [] status \in Waiting -> "open"
    [] status = "running" -> "active"
    [] OTHER -> status

Lifecycle == INSTANCE JobLifecycle WITH
  Limit <- Concurrency,
  Budget <- MaxAttempts,
  life <- [j \in Jobs |-> LifeOf(jobs[j].status)],
  tries <- [j \in Jobs |-> jobs[j].attemptCount],
  allowed <- [j \in Jobs |-> jobs[j].maxAttempts]

\* The queue implements the abstract life of its jobs: through claims, crashes,
\* lease recovery, cascades and commands every row makes only the moves a
\* caller of JobService is promised.
ImplementsLifecycle == Lifecycle!Spec

-----------------------------------------------------------------------------
(* Liveness, under FairSpec.                                               *)

\* While the queue is left running and no account stays paused, every job that
\* was enqueued reaches a final status, through crashes, retries, cooldowns and
\* failed prerequisites.
JobsSettle ==
  <>[](mode = "running") /\ (\A a \in Accounts : []<>~accounts[a].paused)
    => \A j \in Jobs : jobs[j].status # "absent" ~> jobs[j].status \in Terminal

\* A cancellation request on a running job ends its run.
CancellationEndsRun ==
  \A j \in Jobs : jobs[j].status = "running" /\ jobs[j].cancelRequested
                    ~> jobs[j].status # "running"

\* drain returns, unless somebody resumes the queue or the process goes away.
DrainReturns ==
  \A w \in Runners : w \in drains ~> w \notin drains \/ mode = "running"

\* The commands of the API do what they say: cancel ends a run, drain comes
\* back, and not before everything in flight has ended.
CommandsTakeEffect == CancellationEndsRun /\ DrainReturns /\ DrainReturnsIdle
=============================================================================
