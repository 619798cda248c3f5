-------------------------- MODULE SourceExecution --------------------------
(***************************************************************************)
(* The life of one remote source item: the workflow executions observed    *)
(* for it, the resolution of their media, the publish jobs of their        *)
(* destinations and the cleanup of managed files.                          *)
(* SourceWorkflowCoordinator, MediaResolutionService and                   *)
(* SourceMediaCleanupService (packages/core/src/index.ts) run as handlers  *)
(* of the persistent job queue; the aggregation of destination results is  *)
(* done by SQLite triggers (packages/db/src/migrations/0011, 0013).        *)
(*                                                                         *)
(* Jobs move as the job queue promises (JobLifecycle, which JobQueue       *)
(* implements); a handler in flight holds its job (JobQueue's              *)
(* ExecutionHoldsLease).  Every statement or transaction of a handler is   *)
(* an action, so a crash may fall between any two; other handlers of the   *)
(* server run only while a handler awaits.                                 *)
(***************************************************************************)
EXTENDS Naturals, FiniteSets

CONSTANTS
  Executions,        \* one per workflow that matches the item
  Destinations,      \* source_execution_destinations of all executions
  ExecutionOf,       \* the execution of a destination
  Retention,         \* retention_policy of an execution
  Originals,         \* local files of the user, registered as media
  Hints,             \* the media an execution's local-original hints match
  None,
  MaxAttempts,       \* max_attempts of the jobs
  AttemptBound,      \* bound: no manual retry past this many attempts
  CrashBound,        \* bound: how often the server crashes
  Cancellations,     \* cancellation requests are sent
  Overlap            \* a second server process works on publish jobs

Policies == {"delete_after_success", "keep_for_duration", "keep_forever"}

ASSUME SourceAssumption ==
  /\ ExecutionOf \in [Destinations -> Executions]
  /\ Retention \in [Executions -> Policies]
  /\ \A e \in Executions : \E d \in Destinations : ExecutionOf[d] = e
  /\ Hints \in [Executions -> SUBSET (Originals \cup Executions)]
  /\ Originals \cap Executions = {}
  /\ None \notin Executions \cup Destinations \cup Originals
  /\ {MaxAttempts, AttemptBound, CrashBound} \subseteq Nat
  /\ MaxAttempts > 0
  /\ {Cancellations, Overlap} \subseteq BOOLEAN

VARIABLES
  jobs,          \* the jobs of this item: observe, run, publish, cleanup
  item,          \* source_items.lifecycle_status
  executions,    \* source_workflow_executions
  destinations,  \* source_execution_destinations
  resolution,    \* source_media_resolutions.status of each execution
  artifacts,     \* source_media_artifacts of each execution
  file,          \* the originals and the managed file of each execution on disk
  up,            \* the server process runs
  crashes,       \* crashes so far
  recovering,    \* SourceWorkflowCoordinator.recover is under way
  handler,       \* where the handler of each job is
  outcome,       \* what the handler is going to report
  visit,         \* observe: workflows to visit, and the one being enqueued
  created        \* run: publish jobs created but not attached, as returned

rowVars == <<executions, destinations, artifacts, item>>
storeVars == <<jobs, rowVars, resolution>>
processVars == <<up, crashes, recovering, handler, outcome, visit, created>>
vars == <<storeVars, file, processVars>>

Observe == <<"observe">>
Run(e) == <<"run", e>>
Publish(d) == <<"publish", d>>
Cleanup(e) == <<"cleanup", e>>
JobIds == {Observe} \cup {Run(e) : e \in Executions} \cup {Cleanup(e) : e \in Executions}
            \cup {Publish(d) : d \in Destinations}

\* None also stands for "no job" in Turn.
ASSUME NoneIsNoJob == None \notin JobIds

Waiting == {"pending", "retrying"}
JobRow == [status : {"absent", "pending", "running", "retrying",
                     "succeeded", "failed", "cancelled"},
           tries : Nat, max : Nat, cancel : BOOLEAN]
NewJob == [status |-> "pending", tries |-> 0, max |-> MaxAttempts, cancel |-> FALSE]

ExecutionRow ==
  [status : {"absent", "pending", "running", "retrying", "succeeded", "failed"},
   cleanup : {"not_eligible", "eligible", "running", "completed", "failed", "retained"},
   due : {"never", "later", "now"}]    \* cleanup_eligible_at
DestinationRow ==
  [status : {"pending", "running", "retrying", "succeeded", "failed", "cancelled"},
   attached : BOOLEAN]                 \* job_id is set
Media == Originals \cup Executions   \* an execution stands for its managed path
Artifact ==
  [ownership : {"none", "user_owned_original", "openrepurpose_temporary"},
   path : Media \cup {None},
   cleanup : {"protected", "not_eligible", "eligible", "running", "completed",
              "failed", "retained"},
   deleted : BOOLEAN]
NoArtifact ==
  [ownership |-> "none", path |-> None, cleanup |-> "not_eligible", deleted |-> FALSE]

Members(e) == {d \in Destinations : ExecutionOf[d] = e}
-----------------------------------------------------------------------------
(* One JavaScript thread.  In an awaiting phase other handlers may run.    *)

Awaiting == {"idle", "match", "acquire", "import", "discard", "publish", "delete"}

Turn(k) == up /\ ~recovering /\ \A o \in JobIds \ {k} : handler[o] \in Awaiting

\* A publish job may be handled by the other server at any time.
Free(k) == Turn(k) \/ (Overlap /\ \E d \in Destinations : k = Publish(d))

\* A command comes over HTTP, or from the CLI of another process.
CommandTurn == Turn(None) \/ Overlap

At(k, phase) == Turn(k) /\ handler[k] = phase
Goto(k, phase) == handler' = [handler EXCEPT ![k] = phase]
Outcome(k, o) == outcome' = [outcome EXCEPT ![k] = o]

-----------------------------------------------------------------------------
(* The triggers.                                                           *)

Some(e, rows, status) == \E d \in Members(e) : rows[d].status = status
AllSucceeded(e, rows) == \A d \in Members(e) : rows[d].status = "succeeded"

Aggregate(e, rows, failed, retrying, otherwise) ==
  IF Some(e, rows, "failed") THEN failed
  ELSE IF Some(e, rows, "retrying") THEN retrying ELSE otherwise

\* Seeded fault: success makes the cleanup eligible without a date.
EligibleWithoutDate(e, row) ==
  [status |-> "succeeded",
   cleanup |-> IF Retention[e] = "keep_forever" THEN "retained" ELSE "eligible",
   due |-> "never"]

Eligible(e, row) ==
  [status |-> "succeeded",
   cleanup |-> IF Retention[e] = "keep_forever" THEN "retained" ELSE "eligible",
   due |-> CASE Retention[e] = "delete_after_success" -> "now"
             [] Retention[e] = "keep_for_duration" -> "later"
             [] OTHER -> "never"]

\* source_execution_after_destination_update and its incomplete twin.
ExecutionAfter(e, row, rows) ==
  IF AllSucceeded(e, rows) THEN Eligible(e, row)
  ELSE [row EXCEPT !.status = Aggregate(e, rows, "failed", "retrying", "running")]

\* Seeded fault: the item is completed without looking at its other executions.
ItemFinishedAlone(exs) == TRUE

ItemFinished(exs) ==
  \A e \in Executions : exs[e].status # "absent" => exs[e].cleanup \in {"completed", "retained"}

ItemAfter(e, exs, rows) ==
  IF AllSucceeded(e, rows) THEN IF ItemFinished(exs) THEN "completed" ELSE "cleanup_pending"
  ELSE IF item = "completed" THEN item
  ELSE Aggregate(e, rows, "partial_failure", "retrying", "publishing")

\* UPDATE OF status on one destination row, with everything it triggers.
DestinationUpdate(d, row) ==
  LET e == ExecutionOf[d] IN
  /\ destinations' = [destinations EXCEPT ![d] = row]
  /\ executions' = [executions EXCEPT ![e] = ExecutionAfter(e, @, destinations')]
  /\ item' = ItemAfter(e, executions', destinations')
  /\ artifacts' =
       IF AllSucceeded(e, destinations') /\ artifacts[e].ownership = "openrepurpose_temporary"
       THEN [artifacts EXCEPT ![e].cleanup =
               IF Retention[e] = "keep_forever" THEN "retained" ELSE "eligible"]
       ELSE artifacts

\* The destination row a job's update reaches; a success is never overwritten.
Followers(k) ==
  {d \in Destinations : /\ k = Publish(d)
                        /\ destinations[d].attached
                        /\ destinations[d].status # "succeeded"}

\* Seeded fault: the sync trigger does not watch jobs.status.
JobUpdateUnwatched(k, row) == jobs' = [jobs EXCEPT ![k] = row] /\ UNCHANGED rowVars

\* UPDATE of one job row, with source_destination_sync_after_job_update.
JobUpdate(k, row) ==
  /\ jobs' = [jobs EXCEPT ![k] = row]
  /\ \/ /\ Followers(k) = {}
        /\ UNCHANGED rowVars
     \/ \E d \in Followers(k) :
          DestinationUpdate(d, [status |-> row.status, attached |-> TRUE])

\* JobService.create: a known idempotency key returns the existing row.
Create(k) == jobs' = IF jobs[k].status = "absent" THEN [jobs EXCEPT ![k] = NewJob] ELSE jobs

-----------------------------------------------------------------------------
Init ==
  /\ jobs = [k \in JobIds |-> IF k = Observe THEN NewJob ELSE [NewJob EXCEPT !.status = "absent"]]
  /\ item = "observed"
  /\ executions = [e \in Executions |->
       [status |-> "absent", cleanup |-> "not_eligible", due |-> "never"]]
  /\ destinations = [d \in Destinations |-> [status |-> "pending", attached |-> FALSE]]
  /\ resolution = [e \in Executions |-> "none"]
  /\ artifacts = [e \in Executions |-> NoArtifact]
  /\ file = [m \in Media |-> m \in Originals]
  /\ up = FALSE
  /\ crashes = 0
  /\ recovering = FALSE
  /\ handler = [k \in JobIds |-> "idle"]
  /\ outcome = [k \in JobIds |-> "ok"]
  /\ visit = [todo |-> {}, current |-> None]
  /\ created = [d \in Destinations |-> "none"]

(* The server: boot, recovery, crash; the queue: claim, settle, lost lease. *)

Boot ==
  /\ ~up
  /\ up' = TRUE
  /\ recovering' = TRUE
  /\ UNCHANGED <<storeVars, file, crashes, handler, outcome, visit, created>>

\* Everything in memory is lost.
Crash ==
  /\ up
  /\ crashes < CrashBound
  /\ up' = FALSE
  /\ crashes' = crashes + 1
  /\ recovering' = FALSE
  /\ handler' = [k \in JobIds |-> "idle"]
  /\ outcome' = [k \in JobIds |-> "ok"]
  /\ visit' = [todo |-> {}, current |-> None]
  /\ created' = [d \in Destinations |-> "none"]
  /\ UNCHANGED <<storeVars, file>>

\* Seeded fault: recovery does not look for executions without a run job.
NeedingJobCleanupOnly ==
  {Cleanup(e) : e \in {x \in Executions : /\ executions[x].cleanup \in {"eligible", "failed"}
                                          /\ executions[x].due = "now"}}

\* The jobs recover asks for: listNeedingRun and listDueCleanup.
NeedingJob ==
  {Run(e) : e \in {x \in Executions : executions[x].status = "pending"}}
    \cup {Cleanup(e) : e \in {x \in Executions :
            executions[x].cleanup \in {"eligible", "failed"} /\ executions[x].due = "now"}}

\* recover enqueues them one by one; for known keys that changes nothing.
Recover ==
  /\ recovering
  /\ \/ /\ \E k \in NeedingJob : jobs[k].status = "absent" /\ Create(k)
        /\ recovering' = TRUE
     \/ /\ \A k \in NeedingJob : jobs[k].status # "absent"
        /\ recovering' = FALSE
        /\ jobs' = jobs
  /\ UNCHANGED <<rowVars, resolution, file, up, crashes, handler, outcome, visit, created>>

Claim(k) ==
  /\ Free(k)
  /\ handler[k] = "idle"
  /\ jobs[k].status \in Waiting /\ ~jobs[k].cancel
  /\ JobUpdate(k, [jobs[k] EXCEPT !.status = "running", !.tries = @ + 1])
  /\ Goto(k, IF \E d \in Destinations : k = Publish(d) THEN "publish" ELSE "start")
  /\ Outcome(k, "ok")
  /\ visit' = IF k = Observe THEN [todo |-> Executions, current |-> None] ELSE visit
  /\ UNCHANGED <<resolution, file, up, crashes, recovering, created>>

\* A running job whose handler is gone: its lease expires and is recovered.
LeaseExpires(k) ==
  /\ Turn(k)
  /\ jobs[k].status = "running" /\ handler[k] = "idle"
  /\ JobUpdate(k, [jobs[k] EXCEPT !.status =
       IF jobs[k].cancel THEN "cancelled"
       ELSE IF jobs[k].tries < jobs[k].max THEN "retrying" ELSE "failed"])
  /\ UNCHANGED <<resolution, file, processVars>>

\* The handler is through: JobRunner settles the job, then onJobSettled runs
\* recover.
Settle(k) ==
  /\ Free(k)
  /\ handler[k] = "settle"
  /\ JobUpdate(k, [jobs[k] EXCEPT !.status =
       IF jobs[k].cancel THEN "cancelled"
       ELSE IF outcome[k] = "ok" THEN "succeeded"
       ELSE IF outcome[k] = "retry" /\ jobs[k].tries < jobs[k].max THEN "retrying"
       ELSE "failed"])
  /\ Goto(k, "idle")
  /\ Outcome(k, "ok")
  /\ recovering' = TRUE
  /\ UNCHANGED <<resolution, file, up, crashes, visit, created>>

RequestCancellation(k) ==
  /\ Cancellations
  /\ CommandTurn
  /\ \/ /\ jobs[k].status \in Waiting
        /\ JobUpdate(k, [jobs[k] EXCEPT !.status = "cancelled", !.cancel = TRUE])
     \/ /\ jobs[k].status = "running" /\ ~jobs[k].cancel
        /\ jobs' = [jobs EXCEPT ![k].cancel = TRUE]
        /\ UNCHANGED rowVars
  /\ UNCHANGED <<resolution, file, processVars>>

\* JobService.retry.
Retry(k) ==
  /\ Turn(None)
  /\ jobs[k].status = "failed" /\ jobs[k].tries < AttemptBound
  /\ JobUpdate(k, [status |-> "pending", tries |-> jobs[k].tries, cancel |-> FALSE,
                   max |-> IF jobs[k].tries < jobs[k].max THEN jobs[k].max
                           ELSE jobs[k].tries + 1])
  /\ UNCHANGED <<resolution, file, processVars>>

-----------------------------------------------------------------------------
(* The handler of source.item.observed: SourceWorkflowCoordinator.observe.  *)

ObserveStart ==
  /\ At(Observe, "start")
  /\ Goto(Observe, "visit")
  /\ UNCHANGED <<storeVars, file, up, crashes, recovering, outcome, visit, created>>

\* create: the execution with its destinations, or the one that is there.
ObserveCreate(e) ==
  /\ At(Observe, "visit")
  /\ visit.current = None /\ e \in visit.todo
  /\ visit' = [todo |-> visit.todo \ {e}, current |-> e]
  /\ \/ /\ executions[e].status = "absent"
        /\ executions' = [executions EXCEPT ![e].status = "pending"]
        /\ item' = IF item = "observed" THEN "queued" ELSE item
     \/ /\ executions[e].status # "absent"
        /\ UNCHANGED <<executions, item>>
  /\ UNCHANGED <<jobs, destinations, artifacts, resolution, file,
                 up, crashes, recovering, handler, outcome, created>>

ObserveEnqueue ==
  /\ At(Observe, "visit")
  /\ visit.current # None
  /\ Create(Run(visit.current))
  /\ visit' = [visit EXCEPT !.current = None]
  /\ UNCHANGED <<rowVars, resolution, file, up, crashes, recovering, handler, outcome, created>>

ObserveEnds ==
  /\ At(Observe, "visit")
  /\ visit = [todo |-> {}, current |-> None]
  /\ Goto(Observe, "settle")
  /\ UNCHANGED <<storeVars, file, up, crashes, recovering, outcome, visit, created>>

ObserveStep == ObserveStart \/ (\E e \in Executions : ObserveCreate(e)) \/ ObserveEnqueue \/ ObserveEnds

-----------------------------------------------------------------------------
(* The handler of source.execution.run: resolution of the media.           *)

HandlerMoves == UNCHANGED <<jobs, up, crashes, recovering, visit>>

\* Seeded fault: the media is resolved again by every attempt.
CheckpointIgnored(e) == FALSE

\* A checkpoint that is ready is used as it is.
Checkpoint(e) == resolution[e] = "ready"

RunStart(e) ==
  /\ At(Run(e), "start")
  /\ Goto(Run(e), IF Checkpoint(e) THEN "fanout" ELSE "match")
  /\ UNCHANGED <<rowVars, resolution, file, outcome, created>> /\ HandlerMoves

\* RegisteredLocalOriginalMatcher.find: registered media that a hint names.
\* The managed file of another execution is registered too, and its media row
\* stays 'available' after the file is gone.
Matches(e) == {m \in Hints[e] : m \in Originals \/ artifacts[m].path = m}

\* begin, first statement: the checkpoint.  A match always wins over a
\* download; without one the item is downloaded or refused (no resolver, no
\* rights confirmation, aborted).
RunBegin(e) ==
  /\ At(Run(e), "match")
  /\ \E phase \in (IF Matches(e) # {} THEN {"item_original", "item_refuse"}
                   ELSE {"item_download", "item_refuse"}) : Goto(Run(e), phase)
  /\ resolution' = [resolution EXCEPT ![e] = "resolving"]
  /\ UNCHANGED <<rowVars, file, outcome, created>> /\ HandlerMoves

AfterBegin ==
  [item_original |-> "original", item_download |-> "acquire", item_refuse |-> "fail_resolution"]

\* A statement or a call throws something else than a MediaResolutionError: the
\* runner classifies it as UNEXPECTED_JOB_ERROR, which is not retried, and the
\* execution row keeps its status.
Unexpected(e, o) == Goto(Run(e), "settle") /\ Outcome(Run(e), o)

\* begin, second statement: the item row.  A completed item keeps its
\* completed_at, so the CHECK of source_items rejects the update.
RunBeginItem(e) ==
  /\ \E phase \in DOMAIN AfterBegin :
       /\ At(Run(e), phase)
       /\ \/ /\ item # "completed"
             /\ item' = "resolving"
             /\ Goto(Run(e), AfterBegin[phase])
             /\ Outcome(Run(e), IF phase = "item_refuse" THEN "fail" ELSE "ok")
          \/ /\ item = "completed"
             /\ item' = item
             /\ Unexpected(e, "constraint")
  /\ UNCHANGED <<executions, destinations, artifacts, resolution, file, created>> /\ HandlerMoves

\* Matching, preparing the directory or discarding the file throws.
RunBreaks(e) ==
  /\ At(Run(e), "match") \/ At(Run(e), "discard")
  /\ Unexpected(e, "fail")
  /\ UNCHANGED <<rowVars, resolution, file, created>> /\ HandlerMoves

\* The managed file: a usable one is kept, else the partial download is
\* renamed to it.
Acquired(e) == [file EXCEPT ![e] = TRUE]

\* The file is downloaded and renamed to its final path, or already there.
RunAcquire(e) ==
  /\ At(Run(e), "acquire")
  /\ file' = Acquired(e)
  /\ Goto(Run(e), "import")
  /\ UNCHANGED <<rowVars, resolution, outcome, created>> /\ HandlerMoves

\* Download, rename or import fails, or the run is aborted.
RunAcquireFails(e) ==
  /\ At(Run(e), "acquire") \/ At(Run(e), "import")
  /\ Goto(Run(e), "discard")
  /\ \E o \in {"retry", "fail"} : Outcome(Run(e), o)
  /\ UNCHANGED <<rowVars, resolution, file, created>> /\ HandlerMoves

RunDiscard(e) ==
  /\ At(Run(e), "discard")
  /\ file' = [file EXCEPT ![e] = FALSE]
  /\ Goto(Run(e), "fail_resolution")
  /\ UNCHANGED <<rowVars, resolution, outcome, created>> /\ HandlerMoves

\* markReady: checkpoint, item and artifact in one transaction.  Two artifacts
\* of one item may not have the same path and ownership.
Ready(e, ownership, path, cleanup) ==
  \/ /\ \A x \in Executions \ {e} :
          <<artifacts[x].path, artifacts[x].ownership>> # <<path, ownership>>
     /\ resolution' = [resolution EXCEPT ![e] = "ready"]
     /\ item' = "media_ready"
     /\ artifacts' = [artifacts EXCEPT ![e] =
          IF @ # NoArtifact THEN [@ EXCEPT !.deleted = FALSE]
          ELSE [ownership |-> ownership, path |-> path, cleanup |-> cleanup, deleted |-> FALSE]]
     /\ Goto(Run(e), "fanout")
     /\ UNCHANGED <<executions, destinations, outcome>>
  \/ /\ \E x \in Executions \ {e} :
          <<artifacts[x].path, artifacts[x].ownership>> = <<path, ownership>>
     /\ Unexpected(e, "constraint")
     /\ UNCHANGED <<resolution, rowVars>>

RunReady(e) ==
  /\ \/ /\ At(Run(e), "original")
        /\ \E m \in Matches(e) : Ready(e, "user_owned_original", m, "protected")
     \/ /\ At(Run(e), "import")
        /\ Ready(e, "openrepurpose_temporary", e, "not_eligible")
  /\ UNCHANGED <<file, created>> /\ HandlerMoves

\* markFailed in two statements, then markRunFailed.
RunFailResolution(e) ==
  /\ At(Run(e), "fail_resolution")
  /\ resolution' = [resolution EXCEPT ![e] = "failed"]
  /\ Goto(Run(e), "fail_item")
  /\ UNCHANGED <<rowVars, file, outcome, created>> /\ HandlerMoves

RunFailItem(e) ==
  /\ At(Run(e), "fail_item")
  /\ item' = "failed"
  /\ Goto(Run(e), "fail_run")
  /\ UNCHANGED <<executions, destinations, artifacts, resolution, file, outcome, created>>
  /\ HandlerMoves

MarkRunFailed(e) ==
  /\ At(Run(e), "fail_run")
  /\ executions' = [executions EXCEPT ![e].status =
       IF outcome[Run(e)] = "retry" THEN "retrying" ELSE "failed"]
  /\ Goto(Run(e), "settle")
  /\ UNCHANGED <<destinations, artifacts, item, resolution, file, outcome, created>>
  /\ HandlerMoves

-----------------------------------------------------------------------------
(* The handler of source.execution.run: the destinations.                  *)

\* sourceDestinationNeedsWork
NeedsWork(row) == row.status \notin {"succeeded", "cancelled"}

\* executeSourceMedia: one publish job for each unfinished destination; what
\* create returns is kept for the attach.
FanOut(e, d) ==
  /\ At(Run(e), "fanout")
  /\ d \in Members(e) /\ NeedsWork(destinations[d]) /\ created[d] = "none"
  /\ Create(Publish(d))
  /\ created' = [created EXCEPT ![d] = jobs'[Publish(d)].status]
  /\ UNCHANGED <<rowVars, resolution, file, up, crashes, recovering, handler, outcome, visit>>

\* The plan cannot be executed (an empty title, a missing transform runner).
FanOutFails(e) ==
  /\ At(Run(e), "fanout")
  /\ \A d \in Members(e) : created[d] = "none"
  /\ Unexpected(e, "fail")
  /\ UNCHANGED <<rowVars, resolution, file, created>> /\ HandlerMoves

FanOutEnds(e) ==
  /\ At(Run(e), "fanout")
  /\ \A d \in Members(e) : NeedsWork(destinations[d]) => created[d] # "none"
  /\ Goto(Run(e), "attach")
  /\ UNCHANGED <<rowVars, resolution, file, outcome, created>> /\ HandlerMoves

RunningUnlessDone(status) == IF status = "succeeded" THEN status ELSE "running"

\* attachDestinationJob: the destination (unless it succeeded) takes the job
\* and the status create returned; then execution and item are running, unless
\* the update, through the triggers, made the execution succeed.
Attach(e, d) ==
  LET row == [status |-> created[d], attached |-> TRUE] IN
  /\ At(Run(e), "attach")
  /\ d \in Members(e) /\ created[d] # "none"
  /\ \/ /\ destinations[d].status # "succeeded"
        /\ AllSucceeded(e, [destinations EXCEPT ![d] = row])
        /\ DestinationUpdate(d, row)
     \/ /\ destinations[d].status # "succeeded"
        /\ ~AllSucceeded(e, [destinations EXCEPT ![d] = row])
        /\ destinations' = [destinations EXCEPT ![d] = row]
        /\ executions' = [executions EXCEPT ![e].status = RunningUnlessDone(@)]
        /\ item' = IF item = "completed" THEN item ELSE "publishing"
        /\ artifacts' = artifacts
     \/ /\ destinations[d].status = "succeeded"
        /\ executions' = [executions EXCEPT ![e].status = RunningUnlessDone(@)]
        /\ item' = IF item \in {"cleanup_pending", "completed"} THEN item ELSE "publishing"
        /\ UNCHANGED <<destinations, artifacts>>
  /\ created' = [created EXCEPT ![d] = "none"]
  /\ UNCHANGED <<resolution, file, handler, outcome>> /\ HandlerMoves

RunEnds(e) ==
  /\ At(Run(e), "attach")
  /\ \A d \in Members(e) : created[d] = "none"
  /\ Goto(Run(e), "settle")
  /\ UNCHANGED <<rowVars, resolution, file, outcome, created>> /\ HandlerMoves

RunStep(e) ==
  \/ RunStart(e) \/ RunBegin(e) \/ RunBeginItem(e) \/ RunAcquire(e) \/ RunAcquireFails(e)
  \/ RunDiscard(e) \/ RunReady(e) \/ RunFailResolution(e) \/ RunFailItem(e) \/ MarkRunFailed(e)
  \/ RunBreaks(e) \/ FanOutFails(e) \/ FanOutEnds(e) \/ RunEnds(e)
  \/ \E d \in Destinations : FanOut(e, d) \/ Attach(e, d)

-----------------------------------------------------------------------------
(* Publishing, cleanup and time.                                           *)

\* A destination handler returns or throws.
PublishEnds(d) ==
  /\ Free(Publish(d))
  /\ handler[Publish(d)] = "publish"
  /\ \E o \in {"ok", "retry", "fail"} : Outcome(Publish(d), o)
  /\ Goto(Publish(d), "settle")
  /\ UNCHANGED <<storeVars, file, up, crashes, recovering, visit, created>>

\* cleanupExecution up to its first artifact: markCleanupRunning.
CleanupStart(e) ==
  /\ At(Cleanup(e), "start")
  /\ \/ /\ executions[e].cleanup \in {"completed", "retained"}
        /\ Goto(Cleanup(e), "settle")
        /\ executions' = executions
     \/ /\ executions[e].cleanup \in {"eligible", "failed", "running"}
        /\ Goto(Cleanup(e), "artifact")
        /\ executions' = [executions EXCEPT ![e].cleanup = "running"]
  /\ UNCHANGED <<destinations, artifacts, item, resolution, file, outcome, created>>
  /\ HandlerMoves

\* Seeded fault: the file of a local original is cleaned up too.
DeletableWhoever(a) == a.ownership # "none" /\ a.cleanup # "completed"

\* cleanupArtifact acts on managed files that are not yet cleaned up.
Deletable(a) == a.ownership = "openrepurpose_temporary" /\ a.cleanup # "completed"

CleanupArtifact(e) ==
  /\ At(Cleanup(e), "artifact")
  /\ \/ /\ Deletable(artifacts[e])
        /\ artifacts' = [artifacts EXCEPT ![e].cleanup = "running"]
        /\ Goto(Cleanup(e), "delete")
     \/ /\ ~Deletable(artifacts[e])
        /\ artifacts' = artifacts
        /\ Goto(Cleanup(e), "complete")
  /\ UNCHANGED <<executions, destinations, item, resolution, file, outcome, created>>
  /\ HandlerMoves

\* storage.cleanup removes the file; the artifact row follows.
CleanupDelete(e) ==
  /\ At(Cleanup(e), "delete")
  /\ file' = [file EXCEPT ![artifacts[e].path] = FALSE]
  /\ Goto(Cleanup(e), "deleted")
  /\ UNCHANGED <<rowVars, resolution, outcome, created>> /\ HandlerMoves

CleanupDeleted(e) ==
  /\ At(Cleanup(e), "deleted")
  /\ artifacts' = [artifacts EXCEPT ![e].cleanup = "completed", ![e].deleted = TRUE]
  /\ Goto(Cleanup(e), "complete")
  /\ UNCHANGED <<executions, destinations, item, resolution, file, outcome, created>>
  /\ HandlerMoves

\* storage.cleanup throws: markCleanupFailed on the execution, then the artifact.
CleanupFails(e) ==
  /\ At(Cleanup(e), "delete")
  /\ executions' = [executions EXCEPT ![e].cleanup = "failed"]
  /\ Goto(Cleanup(e), "artifact_failed")
  /\ Outcome(Cleanup(e), "retry")
  /\ UNCHANGED <<destinations, artifacts, item, resolution, file, created>>
  /\ HandlerMoves

CleanupArtifactFailed(e) ==
  /\ At(Cleanup(e), "artifact_failed")
  /\ artifacts' = [artifacts EXCEPT ![e].cleanup = "failed"]
  /\ Goto(Cleanup(e), "settle")
  /\ UNCHANGED <<executions, destinations, item, resolution, file, outcome, created>>
  /\ HandlerMoves

\* markCleanupCompleted: the execution, and the item when it was the last.
CleanupCompleted(e) ==
  /\ At(Cleanup(e), "complete")
  /\ executions' = [executions EXCEPT ![e].cleanup = "completed"]
  /\ item' = IF ItemFinished(executions') THEN "completed" ELSE item
  /\ Goto(Cleanup(e), "settle")
  /\ UNCHANGED <<destinations, artifacts, resolution, file, outcome, created>>
  /\ HandlerMoves

CleanupStep(e) ==
  \/ CleanupStart(e) \/ CleanupArtifact(e) \/ CleanupDelete(e) \/ CleanupDeleted(e)
  \/ CleanupFails(e) \/ CleanupArtifactFailed(e) \/ CleanupCompleted(e)

\* The retention period passes.
RetentionPasses(e) ==
  /\ executions[e].due = "later"
  /\ executions' = [executions EXCEPT ![e].due = "now"]
  /\ UNCHANGED <<jobs, destinations, artifacts, item, resolution, file, processVars>>

FailedDestinations(e) ==
  {d \in Members(e) : destinations[d].attached /\ destinations[d].status = "failed"}

\* retryFailedDestinations: the jobs of the failed destinations are reopened
\* (with all the triggers), the execution is retrying, and recover runs.
RetryFailedDestinations(e) ==
  LET failed == FailedDestinations(e) IN
  /\ Turn(None)
  /\ failed # {}
  /\ \A d \in failed : jobs[Publish(d)].tries < AttemptBound
  /\ jobs' = [k \in JobIds |->
       IF \E d \in failed : k = Publish(d)
       THEN [jobs[k] EXCEPT !.status = "pending",
               !.max = IF jobs[k].tries + 3 > jobs[k].max THEN jobs[k].tries + 3 ELSE jobs[k].max]
       ELSE jobs[k]]
  /\ destinations' = [d \in Destinations |->
       IF d \in failed THEN [status |-> "pending", attached |-> TRUE] ELSE destinations[d]]
  /\ executions' = [executions EXCEPT ![e].status = "retrying"]
  /\ item' = IF item = "completed" THEN item
             ELSE Aggregate(e, destinations', "partial_failure", "retrying", "publishing")
  /\ recovering' = TRUE
  /\ UNCHANGED <<artifacts, resolution, file, up, crashes, handler, outcome, visit, created>>

-----------------------------------------------------------------------------
Next ==
  \/ Boot \/ Crash \/ Recover \/ ObserveStep
  \/ \E k \in JobIds : Claim(k) \/ LeaseExpires(k) \/ Settle(k)
                         \/ RequestCancellation(k) \/ Retry(k)
  \/ \E e \in Executions : RunStep(e) \/ CleanupStep(e) \/ RetentionPasses(e)
                             \/ RetryFailedDestinations(e)
  \/ \E d \in Destinations : PublishEnds(d)

Spec == Init /\ [][Next]_vars

\* What the server does on its own: commands, crashes and time are left out.
ServerStep ==
  \/ Boot \/ Recover \/ ObserveStep
  \/ \E k \in JobIds : Claim(k) \/ LeaseExpires(k) \/ Settle(k)
  \/ \E e \in Executions : RunStep(e) \/ CleanupStep(e)
  \/ \E d \in Destinations : PublishEnds(d)

\* A server that has something to do does something: it is started again, its
\* poll timer claims what is ready, handlers return, lost leases run out.
\* Attempts are bounded, so nothing stronger is needed.
Fairness == WF_vars(ServerStep)

FairSpec == Spec /\ Fairness

-----------------------------------------------------------------------------
(* Invariants.                                                             *)

\* Every row and every handler position is one the program knows, and the rows
\* pass the CHECK constraints of their tables.
TypeOK ==
  /\ jobs \in [JobIds -> JobRow]
  /\ item \in {"observed", "queued", "resolving", "media_ready", "publishing", "retrying",
              "partial_failure", "cleanup_pending", "completed", "failed"}
  /\ executions \in [Executions -> ExecutionRow]
  /\ destinations \in [Destinations -> DestinationRow]
  /\ resolution \in [Executions -> {"none", "resolving", "ready", "failed"}]
  /\ artifacts \in [Executions -> Artifact]
  /\ \A e \in Executions :
       /\ executions[e].cleanup \in {"not_eligible", "retained"} <=> executions[e].due = "never"
       /\ Retention[e] = "keep_forever" => executions[e].cleanup \in {"not_eligible", "retained"}
       /\ artifacts[e].ownership = "user_owned_original" =>
            artifacts[e].cleanup = "protected" /\ ~artifacts[e].deleted
  /\ file \in [Media -> BOOLEAN]
  /\ up \in BOOLEAN /\ crashes \in 0..CrashBound /\ recovering \in BOOLEAN
  /\ handler \in [JobIds -> Awaiting \cup DOMAIN AfterBegin \cup {"start", "visit", "original",
       "fail_resolution", "fail_item", "fail_run", "fanout", "attach", "artifact", "deleted",
       "artifact_failed", "complete", "settle"}]
  /\ outcome \in [JobIds -> {"ok", "retry", "fail", "constraint"}]
  /\ visit \in [todo : SUBSET Executions, current : Executions \cup {None}]
  /\ created \in [Destinations -> {"none", "pending", "running", "retrying",
                                  "succeeded", "failed", "cancelled"}]

\* Each attached destination shows the status of its publish job, whatever is
\* claimed, retried, cancelled or recovered, and wherever the server stops.
MirrorsJob ==
  \A d \in Destinations :
    destinations[d].attached => destinations[d].status = jobs[Publish(d)].status

\* An execution is reported as succeeded exactly when every destination was
\* published: no failure of the run job and no late attach hides or invents a
\* success.
SuccessMeansPublished ==
  \A e \in Executions :
    /\ executions[e].status = "succeeded" <=> AllSucceeded(e, destinations)
    /\ executions[e].status = "succeeded"
         => \A d \in Members(e) : jobs[Publish(d)].status = "succeeded"

\* The tables tell the truth about the publish jobs.
OutcomesHold == MirrorsJob /\ SuccessMeansPublished

\* The media of a publish job that still has to run is on disk: retries of the
\* run job, cleanup and the other executions of the item do not remove it.
MediaAvailable ==
  \A d \in Destinations :
    LET path == artifacts[ExecutionOf[d]].path IN
    destinations[d].attached /\ destinations[d].status \notin {"succeeded", "cancelled"}
      => path # None /\ file[path]

\* No step of a run is rejected by a constraint of the database.
RowsAccepted == \A e \in Executions : outcome[Run(e)] # "constraint"

-----------------------------------------------------------------------------
(* Action properties.                                                      *)

\* A file disappears only if it is a managed one, and then either before it
\* became the media of its execution or after every destination was published
\* and the retention policy allows it.
CleanupIsDue ==
  [][\A m \in Media : file[m] /\ ~file'[m] =>
       /\ m \in Executions
       /\ \/ artifacts[m] = NoArtifact
          \/ /\ \A d \in Members(m) : jobs[Publish(d)].status = "succeeded"
             /\ Retention[m] # "keep_forever" /\ executions[m].due = "now"]_vars

\* The item is completed by the last of its executions: all of them are cleaned
\* up then, with their managed files, and it stays completed.
ItemCompletedLast ==
  [][/\ item # "completed" /\ item' = "completed" =>
          \A e \in Executions : executions'[e].status # "absent" =>
            /\ executions'[e].cleanup \in {"completed", "retained"}
            /\ executions'[e].cleanup = "completed" => ~file'[e]
     /\ item = "completed" =>
          /\ item' = "completed"
          /\ \A e \in Executions : executions'[e].status = "succeeded"
                                     => executions[e].status = "succeeded"]_vars

-----------------------------------------------------------------------------
(* Liveness, under FairSpec.                                               *)

\* Every execution row gets its run job, also when the server stops between
\* the two transactions, and succeeds, unless one of its jobs ends without
\* success.
ExecutionsEnd ==
  \A e \in Executions :
    executions[e].status # "absent" ~>
      \/ executions[e].status = "succeeded"
      \/ \E k \in {Run(e)} \cup {Publish(d) : d \in Members(e)} :
           jobs[k].status \in {"failed", "cancelled"}

\* The managed file of a succeeded execution is deleted under the default
\* policy, unless its cleanup job ends without success.
FilesGo ==
  \A e \in Executions :
    executions[e].status = "succeeded" /\ Retention[e] = "delete_after_success" ~>
      ~file[e] \/ jobs[Cleanup(e)].status \in {"failed", "cancelled"}

\* An execution goes all the way, from its row to the deletion of its file.
ExecutionsProgress == ExecutionsEnd /\ FilesGo
=============================================================================
