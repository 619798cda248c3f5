------------------------- MODULE DestinationPublish -------------------------
(***************************************************************************)
(* What the four publish handlers have in common: one publish job, its row *)
(* in destination_job_records (the checkpoint), the signed upload URL in   *)
(* the secret store, and the service the video is published to.            *)
(*                                                                         *)
(* A request is two steps.  In the first one the service does what it was  *)
(* asked, or not, and an answer is chosen; in the second one the handler   *)
(* reads the answer and runs to its next await, saves included.  Crash may *)
(* fall between them, so the service may have acted without a checkpoint   *)
(* saying so.  A file is Size chunks.                                      *)
(*                                                                         *)
(* How jobs are claimed, leased and retried in detail is JobQueue; here a  *)
(* job is claimed, settles, or is claimed again after a crash.             *)
(***************************************************************************)
EXTENDS Integers, FiniteSets

CONSTANTS
  Size,               \* chunks of the media file
  MaxAttempts,        \* max_attempts given at enqueue
  RetryBound,         \* bound: no manual retry past this many attempts
  RemoteBound,        \* bound: upload sessions or containers ever created
  CrashBound,         \* bound: crashes of the server
  ForgetsInserted     \* the service may forget a session that took the file

ASSUME PublishAssumption ==
  /\ {Size, MaxAttempts, RetryBound, RemoteBound} \subseteq Nat \ {0}
  /\ MaxAttempts <= RetryBound
  /\ CrashBound \in Nat
  /\ ForgetsInserted \in BOOLEAN

VARIABLES
  job,         \* the publish job
  handler,     \* where execute() is, and the answer it has not read yet
  checkpoint,  \* the job's row of destination_job_records, or the default
  uploadUrl,   \* the signed upload URL in the secret store
  account,     \* may the account (or the Meta target) be used
  remote,      \* the upload sessions, containers or posts at the service
  crashes

vars == <<job, handler, checkpoint, uploadUrl, account, remote, crashes>>

Objects == 1..RemoteBound
NoObject == 0
Exists(r) == remote[r].state # "absent"
Newest == Cardinality({r \in Objects : Exists(r)})
Posted == {r \in Objects : remote[r].state = "posted"}

Answers == {"none", "ok", "lost", "unavailable", "rejected", "invalid",
            "more", "inserted", "gone", "processing", "published", "failed",
            "finished", "unknown", "uploading", "publishing", "ready"}
Statuses == {"validating", "uploading", "upload_retryable", "uploaded",
             "processing", "publishing", "verifying", "ready", "published", "failed"}
Phases == {"idle", "start", "authorize", "create", "resume", "storeUrl",
           "transfer", "upload", "forgetUrl", "poll", "publish"}

TypeOK ==
  /\ job \in [status : {"queued", "running", "succeeded", "failed", "cancelled"},
              attempts : 0..RetryBound, budget : 1..RetryBound,
              cancelRequested : BOOLEAN]
  /\ handler \in [phase : Phases, answer : Answers]
  /\ checkpoint \in [remote : Objects \cup {NoObject}, session : Objects \cup {NoObject},
                     status : Statuses, uploaded : 0..Size]
  /\ uploadUrl \in {"none", "valid", "expired"}
  /\ account \in {"connected", "reauthorization_required", "unavailable"}
  /\ remote \in [Objects -> [state : {"absent", "open", "uploaded", "ready",
                                      "publishing", "posted", "failed"},
                             received : 0..Size, forgotten : BOOLEAN]]
  /\ crashes \in 0..CrashBound

Idle == [phase |-> "idle", answer |-> "none"]

Init ==
  /\ job = [status |-> "queued", attempts |-> 0, budget |-> MaxAttempts,
            cancelRequested |-> FALSE]
  /\ handler = Idle
  /\ checkpoint = [remote |-> NoObject, session |-> NoObject,
                   status |-> "uploading", uploaded |-> 0]
  /\ uploadUrl = "none"
  /\ account = "connected"
  /\ remote = [r \in Objects |-> [state |-> "absent", received |-> 0,
                                  forgotten |-> FALSE]]
  /\ crashes = 0

-----------------------------------------------------------------------------
(* Building blocks of the handlers.                                        *)

At(phase, answer) == handler = [phase |-> phase, answer |-> answer]
GoTo(phase) == handler' = [phase |-> phase, answer |-> "none"] /\ UNCHANGED job

\* How the runner settles a handler that threw; a requested cancellation wins.
Settled(retryable) ==
  IF job.cancelRequested THEN "cancelled"
  ELSE IF retryable /\ job.attempts < job.budget THEN "queued" ELSE "failed"
Throw(retryable) ==
  /\ job' = [job EXCEPT !.status = Settled(retryable)]
  /\ handler' = Idle
Return ==
  /\ job' = [job EXCEPT !.status = IF job.cancelRequested THEN "cancelled" ELSE "succeeded"]
  /\ handler' = Idle

Save(row) == checkpoint' = row

\* The object an answered request created.
WithObject(status) == [checkpoint EXCEPT !.remote = Newest, !.status = status]

Created ==
  [remote EXCEPT ![Newest + 1] = [state |-> "open", received |-> 0, forgotten |-> FALSE]]
\* Object r has received n chunks; it is complete with the last one.
Received(r, n) ==
  [remote EXCEPT ![r].received = n,
                 ![r].state = IF n = Size /\ remote[r].state = "open"
                              THEN "uploaded" ELSE remote[r].state]

Creation == IF Newest < RemoteBound THEN {[answer |-> "ok", remote |-> Created]} ELSE {}
Unchanged(answers) == {[answer |-> a, remote |-> remote] : a \in answers}

\* One request: an outcome whose answer may be lost or garbled, or no outcome
\* at all.  An aborted request is a lost one.
Ask(phase, outcomes) ==
  /\ At(phase, "none")
  /\ \/ \E o \in outcomes : \E a \in {o.answer, "lost", "invalid", "unavailable"} :
          handler' = [handler EXCEPT !.answer = a] /\ remote' = o.remote
     \/ \E a \in {"lost", "unavailable", "rejected"} :
          handler' = [handler EXCEPT !.answer = a] /\ UNCHANGED remote
  /\ UNCHANGED <<job, checkpoint, uploadUrl, account, crashes>>

\* The usual classification: only a definite refusal is permanent.
CallFailed(phase) ==
  /\ handler.phase = phase
  /\ handler.answer \in {"lost", "unavailable", "rejected", "invalid"}
  /\ Throw(handler.answer # "rejected")
  /\ UNCHANGED <<checkpoint, uploadUrl, account, remote, crashes>>

\* secrets.set and secrets.delete: an error of the store is not classified, so
\* it is permanent.
StoreUrl(next) ==
  /\ At("storeUrl", "none")
  /\ \/ uploadUrl' = "valid" /\ GoTo(next)
     \/ UNCHANGED uploadUrl /\ Throw(FALSE)
  /\ UNCHANGED <<checkpoint, account, remote, crashes>>
UrlForgotten == uploadUrl' = "none"

-----------------------------------------------------------------------------
(* The job around the handler.                                             *)

\* Seeded fault: the attempt is not counted.
ClaimUncounted ==
  /\ job.status = "queued"
  /\ job' = [job EXCEPT !.status = "running"]
  /\ handler' = [phase |-> "start", answer |-> "none"]
  /\ UNCHANGED <<checkpoint, uploadUrl, account, remote, crashes>>

Claim ==
  /\ job.status = "queued"
  /\ job' = [job EXCEPT !.status = "running", !.attempts = @ + 1]
  /\ handler' = [phase |-> "start", answer |-> "none"]
  /\ UNCHANGED <<checkpoint, uploadUrl, account, remote, crashes>>

Cancel ==
  /\ job.status \in {"queued", "running"} /\ ~job.cancelRequested
  /\ job' = [job EXCEPT !.cancelRequested = TRUE,
                        !.status = IF @ = "queued" THEN "cancelled" ELSE @]
  /\ UNCHANGED <<handler, checkpoint, uploadUrl, account, remote, crashes>>

\* JobService.retry of a failed job
Retry ==
  /\ job.status = "failed" /\ job.attempts < RetryBound
  /\ job' = [job EXCEPT !.status = "queued",
                        !.budget = IF @ > job.attempts THEN @ ELSE job.attempts + 1]
  /\ UNCHANGED <<handler, checkpoint, uploadUrl, account, remote, crashes>>

\* The server dies; once the lease is over the job is recovered.
Crash ==
  /\ job.status = "running" /\ crashes < CrashBound
  /\ crashes' = crashes + 1
  /\ Throw(TRUE)
  /\ UNCHANGED <<checkpoint, uploadUrl, account, remote>>

\* The operator reconnects the account and enables the target again.
Reconnect ==
  /\ account # "connected" /\ account' = "connected"
  /\ UNCHANGED <<job, handler, checkpoint, uploadUrl, remote, crashes>>

\* An hour passes: tiktok's upload URL is over.
UrlExpires ==
  /\ uploadUrl = "valid" /\ uploadUrl' = "expired"
  /\ UNCHANGED <<job, handler, checkpoint, account, remote, crashes>>

RunnerStep == Claim \/ Cancel \/ Retry \/ Crash

-----------------------------------------------------------------------------
(* What publishing promises, whatever the service.                         *)

\* The checkpoint never claims more than the service has: resuming from it
\* (save() of the four handlers) skips no byte, and a published status stands
\* for a post.
CheckpointIsTrue ==
  LET o == IF checkpoint.remote # NoObject THEN checkpoint.remote ELSE checkpoint.session IN
  /\ o = NoObject => checkpoint.uploaded = 0
  /\ o # NoObject => /\ Exists(o)
                     /\ checkpoint.uploaded <= remote[o].received
  /\ checkpoint.status = "published" => checkpoint.remote \in Posted

\* No handler starts another upload when one it started before has taken the
\* whole file: that one may still be published on its own.
NoSecondUpload ==
  [][Newest' > Newest => \A r \in 1..Newest : remote[r].received < Size]_vars
=============================================================================
