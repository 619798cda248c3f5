--------------------------- MODULE ServerLifetime ---------------------------
(***************************************************************************)
(* Starting and closing the server while FFmpeg and whisper.cpp children   *)
(* are running: close() of the server, the two process runners, the start  *)
(* and stop of the job runner and of the polling runner, and the scans of  *)
(* watched folders, which nobody waits for.  A child                       *)
(* that is asked to stop gets SIGTERM and, after a grace period, SIGKILL;  *)
(* the first reason it is stopped for is the error of the run.             *)
(* A job of this module is one that starts a child.                        *)
(***************************************************************************)
EXTENDS Integers, FiniteSets

CONSTANTS
  ChildJobs,        \* the jobs
  Transcriptions,   \* those that start whisper.cpp; the others start FFmpeg
  Concurrency,      \* handlers executing at a time
  ChildAttempts,    \* max_attempts of each job
  CloseBound        \* bound: times the server is closed

VARIABLES
  closing,           \* the step of close()
  work,              \* the job rows
  handlers,          \* where the handler of each job is
  child,             \* its child process, and what it was stopped for
  awaited,           \* the runs FfmpegProcessRunner.stop() waits for
  polling,           \* is a poll under way
  scanning,          \* is a scan of the watched folders under way
  closes

lifetimeVars == <<closing, work, handlers, child, awaited, polling, scanning, closes>>

Transforms == ChildJobs \ Transcriptions
Reasons == {"none", "cancelled", "timeout", "shutdown"}
NoChild == [state |-> "none", reason |-> "none"]

LifetimeTypeOK ==
  /\ closing \in {"serving", "transforms", "jobs", "polls", "connections", "closed"}
  /\ work \in [ChildJobs ->
       [status : {"queued", "waiting", "running", "succeeded", "failed", "cancelled"},
        attempts : 0..ChildAttempts, cancelRequested : BOOLEAN]]
  /\ handlers \in [ChildJobs -> {"none", "preparing", "running"}]
  /\ child \in [ChildJobs -> [state : {"none", "running", "terminating", "killed"},
                              reason : Reasons]]
  /\ awaited \subseteq Transforms
  /\ {polling, scanning} \subseteq BOOLEAN /\ closes \in 0..CloseBound

LifetimeInit ==
  /\ closing = "serving"
  /\ work = [j \in ChildJobs |-> [status |-> "queued", attempts |-> 0,
                                  cancelRequested |-> FALSE]]
  /\ handlers = [j \in ChildJobs |-> "none"]
  /\ child = [j \in ChildJobs |-> NoChild]
  /\ awaited = {} /\ polling = FALSE /\ scanning = FALSE /\ closes = 0

-----------------------------------------------------------------------------
Executing == {j \in ChildJobs : handlers[j] # "none"}
RunnerClaims == closing \in {"serving", "transforms"}
\* Nothing is awaited: close() goes on before a timer can fire.
TimePasses == closing # "closed" /\ ~(closing = "transforms" /\ awaited = {})

\* How the runner settles job j; a requested cancellation wins.
SettleChild(j, error) ==
  LET retryable == error \in {"timeout", "shutdown"} IN
  /\ work' = [work EXCEPT ![j].status =
       IF work[j].cancelRequested \/ error = "cancelled" THEN "cancelled"
       ELSE IF error = "none" THEN "succeeded"
       ELSE IF retryable /\ work[j].attempts < ChildAttempts THEN "waiting" ELSE "failed"]
  /\ handlers' = [handlers EXCEPT ![j] = "none"]

\* The runner claims up to its capacity, until its stop() is called.
ClaimJob(j) ==
  /\ RunnerClaims /\ TimePasses /\ work[j].status = "queued" /\ Cardinality(Executing) < Concurrency
  /\ work' = [work EXCEPT ![j].status = "running", ![j].attempts = @ + 1]
  /\ handlers' = [handlers EXCEPT ![j] = "preparing"]
  /\ UNCHANGED <<closing, child, awaited, polling, scanning, closes>>
\* The retry delay, a second or two, is over.
DelayOver(j) ==
  /\ work[j].status = "waiting" /\ TimePasses
  /\ work' = [work EXCEPT ![j].status = "queued"]
  /\ UNCHANGED <<closing, handlers, child, awaited, polling, scanning, closes>>
CancelJob(j) ==
  /\ work[j].status \in {"queued", "waiting", "running"} /\ ~work[j].cancelRequested
  /\ closing # "closed"
  /\ work' = [work EXCEPT ![j].cancelRequested = TRUE,
                          ![j].status = IF @ = "running" THEN @ ELSE "cancelled"]
  /\ UNCHANGED <<closing, handlers, child, awaited, polling, scanning, closes>>

\* run(): refused once the runner is stopping or the signal aborted
StartChild(j) ==
  /\ handlers[j] = "preparing"
  /\ IF j \in Transforms /\ closing # "serving"
     THEN SettleChild(j, "shutdown") /\ UNCHANGED child
     ELSE \/ /\ work[j].cancelRequested
             /\ SettleChild(j, "cancelled") /\ UNCHANGED child
          \/ /\ handlers' = [handlers EXCEPT ![j] = "running"]
             /\ child' = [child EXCEPT ![j].state = "running"]
             /\ UNCHANGED work
  /\ UNCHANGED <<closing, awaited, polling, scanning, closes>>

\* requestStop: the first reason counts.
StopRequested(c, j, reason) ==
  IF c[j].state = "running" THEN [c EXCEPT ![j] = [state |-> "terminating", reason |-> reason]]
  ELSE c
\* The time limit, or no progress for too long; and the heartbeat that finds
\* the job cancelled.
TimesOut(j) ==
  /\ child[j].state = "running"
  /\ child' = StopRequested(child, j, "timeout")
  /\ UNCHANGED <<closing, work, handlers, awaited, polling, scanning, closes>>
Aborted(j) ==
  /\ child[j].state = "running" /\ work[j].cancelRequested
  /\ child' = StopRequested(child, j, "cancelled")
  /\ UNCHANGED <<closing, work, handlers, awaited, polling, scanning, closes>>

\* The grace period is over: SIGKILL.
ForceKill(j) ==
  /\ child[j].state = "terminating"
  /\ child' = [child EXCEPT ![j].state = "killed"]
  /\ UNCHANGED <<closing, work, handlers, awaited, polling, scanning, closes>>

\* 'close': the child is gone, the run settles, and with it the job.
ChildExits(j) ==
  /\ child[j].state # "none"
  /\ child' = [child EXCEPT ![j] = NoChild]
  /\ awaited' = awaited \ {j}
  /\ IF child[j].reason # "none" THEN SettleChild(j, child[j].reason)
     ELSE \E error \in {"none", "exit"} : SettleChild(j, error)
  /\ UNCHANGED <<closing, polling, scanning, closes>>

PollStarts ==
  /\ closing \in {"serving", "transforms", "jobs"} /\ ~polling /\ polling' = TRUE
  /\ UNCHANGED <<closing, work, handlers, child, awaited, scanning, closes>>
PollEnds ==
  /\ polling /\ polling' = FALSE
  /\ UNCHANGED <<closing, work, handlers, child, awaited, scanning, closes>>

\* scan() of WatchedFolderRunner, by its timer or by a late event of OBS, one
\* at a time.  One that begins after the database was closed fails at once; one
\* that was under way then goes on to its next statement.
ScanStarts ==
  /\ closing # "closed" /\ ~scanning /\ scanning' = TRUE
  /\ UNCHANGED <<closing, work, handlers, child, awaited, polling, closes>>
ScanEnds ==
  /\ scanning /\ scanning' = FALSE
  /\ UNCHANGED <<closing, work, handlers, child, awaited, polling, closes>>

-----------------------------------------------------------------------------
(* close(): the transforms, then the jobs, then the polls, then OBS and    *)
(* the listener, then the database.  The job runner is still claiming      *)
(* while transforms stop; of the scheduler, whose turns await nothing, and *)
(* of the watched folders only the timers are cleared.                     *)

Close ==
  /\ closing = "serving" /\ closes < CloseBound
  /\ closes' = closes + 1
  /\ closing' = "transforms"
  /\ awaited' = {j \in Transforms : child[j].state # "none"}
  /\ child' = [j \in ChildJobs |->
       IF j \in Transforms THEN StopRequested(child, j, "shutdown")[j] ELSE child[j]]
  /\ UNCHANGED <<work, handlers, polling, scanning>>
TransformsStopped ==
  /\ closing = "transforms" /\ awaited = {}
  /\ closing' = "jobs"
  /\ UNCHANGED <<work, handlers, child, awaited, polling, scanning, closes>>

\* Seeded fault: stop() of the job runner does not wait for its handlers.
JobsStoppedAtOnce ==
  /\ closing = "jobs"
  /\ closing' = "polls"
  /\ UNCHANGED <<work, handlers, child, awaited, polling, scanning, closes>>

\* JobRunner.stop() aborts nothing: it waits.
JobsStopped ==
  /\ closing = "jobs" /\ Executing = {}
  /\ closing' = "polls"
  /\ UNCHANGED <<work, handlers, child, awaited, polling, scanning, closes>>
PollsStopped ==
  /\ closing = "polls" /\ ~polling
  /\ closing' = "connections"
  /\ UNCHANGED <<work, handlers, child, awaited, polling, scanning, closes>>
\* OBS is disconnected, the watcher's timer cleared and the listener closed; a
\* scan is not waited for.
ConnectionsClosed ==
  /\ closing = "connections"
  /\ closing' = "closed"
  /\ UNCHANGED <<work, handlers, child, awaited, polling, scanning, closes>>
\* Another process; a scan that is left of the old one cannot reach the rows.
StartServer ==
  /\ closing = "closed" /\ closes < CloseBound
  /\ closing' = "serving" /\ scanning' = FALSE
  /\ UNCHANGED <<work, handlers, child, awaited, polling, closes>>

LifetimeNext ==
  \/ \E j \in ChildJobs :
       ClaimJob(j) \/ DelayOver(j) \/ CancelJob(j) \/ StartChild(j) \/ TimesOut(j)
       \/ Aborted(j) \/ ForceKill(j) \/ ChildExits(j)
  \/ PollStarts \/ PollEnds \/ ScanStarts \/ ScanEnds
  \/ Close \/ TransformsStopped \/ JobsStopped \/ PollsStopped \/ ConnectionsClosed
  \/ StartServer

\* Timers fire, a killed child is gone, a poll whose signal is aborted ends;
\* whether a child that got SIGTERM goes by itself is its own affair, and so
\* is when a scan ends.
ChildEnds(j) == StartChild(j) \/ TimesOut(j) \/ ForceKill(j)
                \/ (child[j].state = "killed" /\ ChildExits(j))
CloseProceeds == TransformsStopped \/ JobsStopped \/ PollsStopped \/ ConnectionsClosed
LifetimeFairness ==
  /\ \A j \in ChildJobs : WF_lifetimeVars(ChildEnds(j))
  /\ WF_lifetimeVars(CloseProceeds) /\ WF_lifetimeVars(PollEnds)
LifetimeSpec == LifetimeInit /\ [][LifetimeNext]_lifetimeVars /\ LifetimeFairness

-----------------------------------------------------------------------------
\* close() ends, whatever the children and a scan do, and when the database is
\* closed no handler, child or poll that would still use it is left.  A scan of
\* the watched folders may be left: WatchedFolderRunner.stop() clears its timer
\* only, and the scan fails at the statement that finds the database closed.
CloseIsClean ==
  /\ [](closing = "closed" => Executing = {} /\ ~polling
                              /\ \A j \in ChildJobs : child[j].state = "none")
  /\ closing = "transforms" ~> closing = "closed"
=============================================================================
