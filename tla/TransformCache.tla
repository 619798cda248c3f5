--------------------------- MODULE TransformCache ---------------------------
(***************************************************************************)
(* One transform derivative: the row of its cache key, the media.transform *)
(* job keyed by it, the directory its output is written to, and the        *)
(* executions of TransformJobHandler in the one server process.  The job   *)
(* runner is reduced to what it does to this job; a lease belongs to the   *)
(* process, so two executions of one process hold it together.             *)
(***************************************************************************)
EXTENDS Integers, FiniteSets

CONSTANTS
  TransformAttempts,    \* maxAttempts of the job
  ClaimBound,           \* bound: claims of the job
  TransformCrashBound,  \* bound: crashes of the server
  Meddling              \* may files or the source be removed from outside

VARIABLES
  derivative,  \* status of the row, "none" before it is reserved
  transform,   \* the job row
  claims,      \* how often the job was claimed
  files,       \* which of "partial" and "final" are in the directory
  source,      \* the source media still matches the recorded fingerprint
  works,       \* the executions of the handler
  serving,     \* the server is up
  deaths,      \* crashes so far
  removed      \* somebody removed the output of a succeeded derivative

transformVars ==
  <<derivative, transform, claims, files, source, works, serving, deaths, removed>>

Waits == {"pending", "retrying"}
Ended == {"succeeded", "failed", "cancelled"}
Phases == {"verify", "prepare", "ffmpeg", "probe", "finalize", "record", "discard"}
Work == [claim : 1..ClaimBound, at : Phases, aborted : BOOLEAN,
         failure : {"none", "cancelled", "transient", "permanent"}]

TransformTypeOK ==
  /\ derivative \in {"none", "pending", "running"} \cup Ended
  /\ transform \in [status : {"absent", "running"} \cup Waits \cup Ended,
                    attempt : 0..ClaimBound, max : Nat, cancel : BOOLEAN, live : BOOLEAN]
  /\ claims \in 0..ClaimBound
  /\ files \subseteq {"partial", "final"}
  /\ works \subseteq Work
  /\ {source, serving, removed} \subseteq BOOLEAN /\ deaths \in 0..TransformCrashBound

TransformInit ==
  /\ derivative = "none"
  /\ transform = [status |-> "absent", attempt |-> 0, max |-> TransformAttempts,
                  cancel |-> FALSE, live |-> FALSE]
  /\ claims = 0 /\ files = {} /\ source = TRUE /\ works = {}
  /\ serving = TRUE /\ deaths = 0 /\ removed = FALSE

-----------------------------------------------------------------------------
(* The row (SqliteTransformDerivativeRepository): each change names the    *)
(* statuses it starts from and is refused in any other.                    *)

CanFinish == derivative \in {"pending", "running"}   \* fail, markCancelled

\* Seeded fault: a second execution may enter.
CanEnter == derivative \in {"pending", "failed", "running"}

CanRun == derivative \in {"pending", "failed"}       \* markRunning
CanComplete == derivative = "running"                \* complete

\* reserve: the row that is there is taken.
Reserved == IF derivative = "none" THEN "pending" ELSE derivative

\* invalidateSucceeded and markRunning, of a row that still is succeeded.
Invalidated == derivative = "succeeded" /\ derivative' = "running" /\ removed' = FALSE

\* recoverRunning
Recovered == IF derivative = "running" THEN "failed" ELSE derivative

(* The directory (LocalTransformOutputStorage).                            *)

\* isUsableFile: the recorded file is there, whole.
Usable == "final" \in files

\* discard: the directory is removed, or cannot be.
Discarded == {{}, files}

\* reconcileStale: the directory of a row that is not succeeded is old enough.
StaleRemoved == derivative # "succeeded" /\ files' = {}

(* The job: what the runner does when the handler is through.              *)

Owned == transform.status = "running" /\ transform.live
Left(status) == [transform EXCEPT !.status = status, !.live = FALSE]
Retried == IF transform.attempt < transform.max THEN "retrying" ELSE "failed"

\* The handler returned (failure "none") or threw.
JobAfter(w, failure) ==
  IF ~Owned THEN transform
  ELSE IF w.aborted \/ transform.cancel THEN Left("cancelled")
  ELSE IF failure = "none" THEN Left("succeeded")
  ELSE Left(IF failure = "transient" /\ w.claim < transform.max THEN "retrying" ELSE "failed")

Moves(w, at) == works' = (works \ {w}) \cup {[w EXCEPT !.at = at]}
\* The catch block: the directory is discarded before the row is touched.
Throws(w, failure) ==
  works' = (works \ {w}) \cup {[w EXCEPT !.at = "discard",
                                         !.failure = IF w.aborted THEN "cancelled" ELSE failure]}
Leaves(w, failure) == works' = works \ {w} /\ transform' = JobAfter(w, failure)

-----------------------------------------------------------------------------
\* TransformService.run: a succeeded derivative is a cache hit; otherwise the
\* row is reserved and its job created, unless they exist.
Prepare ==
  /\ serving /\ source /\ derivative # "succeeded"
  /\ derivative' = Reserved
  /\ transform' = IF transform.status = "absent"
                  THEN [transform EXCEPT !.status = "pending"] ELSE transform
  /\ UNCHANGED <<claims, files, source, works, serving, deaths, removed>>

\* The runner claims the job and the handler runs up to its first await.
Claim ==
  LET w == [claim |-> transform.attempt + 1, at |-> "prepare", aborted |-> FALSE,
            failure |-> "none"]
      claimed == [transform EXCEPT !.status = "running", !.attempt = @ + 1, !.live = TRUE]
  IN
  /\ serving /\ transform.status \in Waits /\ ~transform.cancel
  /\ claims < ClaimBound
  /\ claims' = claims + 1
  /\ \/ /\ derivative = "succeeded"
        /\ works' = works \cup {[w EXCEPT !.at = "verify"]}
        /\ transform' = claimed
        /\ UNCHANGED derivative
     \/ /\ CanRun
        /\ derivative' = "running"
        /\ works' = works \cup {IF source THEN w
                                ELSE [w EXCEPT !.at = "discard", !.failure = "permanent"]}
        /\ transform' = claimed
     \/ \* TRANSFORM_CANCELLED, or the row is running: thrown before the try
        /\ ~CanRun /\ derivative # "succeeded"
        /\ transform' = [claimed EXCEPT !.status = "failed", !.live = FALSE]
        /\ UNCHANGED <<derivative, works>>
  /\ UNCHANGED <<files, source, serving, deaths, removed>>

\* Seeded fault: a finalized file is taken for granted.
VerifyBlindly(w) ==
  /\ w.at = "verify"
  /\ Leaves(w, "none")
  /\ UNCHANGED <<derivative, claims, files, source, serving, deaths, removed>>

\* A succeeded derivative is run again: its source and its file are checked,
\* and it is invalidated and transformed anew when one is gone.
Verify(w) ==
  /\ w.at = "verify"
  /\ IF source /\ Usable
     THEN Leaves(w, "none") /\ UNCHANGED <<derivative, removed>>
     ELSE \/ /\ Invalidated
             /\ IF source THEN Moves(w, "prepare") ELSE Throws(w, "permanent")
             /\ UNCHANGED transform
          \/ /\ derivative # "succeeded" /\ Leaves(w, "permanent")
             /\ UNCHANGED <<derivative, removed>>
  /\ UNCHANGED <<claims, files, source, serving, deaths>>

\* storage.prepare empties the directory; a full disk is an error.
PrepareOutput(w) ==
  /\ w.at = "prepare"
  /\ files' = {}
  /\ Moves(w, "ffmpeg") \/ Throws(w, "permanent")
  /\ UNCHANGED <<derivative, transform, claims, source, serving, deaths, removed>>

\* FFmpeg ends: it wrote the partial file, stalled or was shut down (retried),
\* or failed; an abort kills it.
Ffmpeg(w) ==
  /\ w.at = "ffmpeg"
  /\ \/ ~w.aborted /\ files' = files \cup {"partial"} /\ Moves(w, "probe")
     \/ files' \in {files, files \cup {"partial"}} /\ Throws(w, "transient")
     \/ files' \in {files, files \cup {"partial"}} /\ Throws(w, "permanent")
  /\ UNCHANGED <<derivative, transform, claims, source, serving, deaths, removed>>

\* The partial file is probed and checked against the plan.
Probe(w) ==
  /\ w.at = "probe"
  /\ IF w.aborted THEN Throws(w, "cancelled")
     ELSE ("partial" \in files /\ Moves(w, "finalize")) \/ Throws(w, "permanent")
  /\ UNCHANGED <<derivative, transform, claims, files, source, serving, deaths, removed>>

\* storage.finalize: partial is renamed to final.
Finalize(w) ==
  /\ w.at = "finalize"
  /\ \/ "partial" \in files /\ files' = {"final"} /\ Moves(w, "record")
     \/ UNCHANGED files /\ Throws(w, "permanent")
  /\ UNCHANGED <<derivative, transform, claims, source, serving, deaths, removed>>

\* The sidecar is in place; the row is completed, or refuses.
Record(w) ==
  /\ w.at = "record"
  /\ IF w.aborted \/ ~CanComplete
     THEN Throws(w, "permanent") /\ UNCHANGED <<derivative, transform>>
     ELSE derivative' = "succeeded" /\ Leaves(w, "none")
  /\ UNCHANGED <<claims, files, source, serving, deaths, removed>>

\* The directory is gone; the row is cancelled or failed.  A row that refuses
\* turns the failure into an unexpected one, which is not retried.
Discard(w) ==
  LET failure == IF w.aborted THEN "cancelled" ELSE w.failure IN
  /\ w.at = "discard"
  /\ files' \in Discarded
  /\ derivative' = IF ~CanFinish THEN derivative
                   ELSE IF failure = "cancelled" THEN "cancelled" ELSE "failed"
  /\ Leaves(w, IF CanFinish /\ failure = "transient" THEN "transient" ELSE "permanent")
  /\ UNCHANGED <<claims, source, serving, deaths, removed>>

HandlerStep ==
  \E w \in works :
    Verify(w) \/ PrepareOutput(w) \/ Ffmpeg(w) \/ Probe(w) \/ Finalize(w) \/ Record(w) \/ Discard(w)

-----------------------------------------------------------------------------
\* The heartbeat of an execution: aborted when cancellation is requested or the
\* lease is not the process's any more.
Heartbeat(w) ==
  /\ ~w.aborted /\ (transform.cancel \/ ~Owned)
  /\ works' = (works \ {w}) \cup {[w EXCEPT !.aborted = TRUE]}
  /\ UNCHANGED <<derivative, transform, claims, files, source, serving, deaths, removed>>

\* The lease ran out: the process stalled or died.
ExpireLease ==
  /\ serving /\ transform.status = "running"
  /\ transform' = Left(IF transform.cancel THEN "cancelled" ELSE Retried)
  /\ UNCHANGED <<derivative, claims, files, source, works, serving, deaths, removed>>

\* The MCP tool cancel_job cancels the job and leaves the row as it is.
CancelOverMcp ==
  /\ transform.status \in Waits \cup {"running"}
  /\ transform' = IF transform.status = "running" THEN [transform EXCEPT !.cancel = TRUE]
                  ELSE [transform EXCEPT !.status = "cancelled", !.cancel = TRUE]
  /\ UNCHANGED <<derivative, claims, files, source, works, serving, deaths, removed>>

\* TransformService.cancelJob: a waiting job is cancelled with its row, of a
\* running one cancellation is requested.
CancelTransform ==
  /\ transform.status \in Waits \cup {"running"}
  /\ IF transform.status = "running"
     THEN transform' = [transform EXCEPT !.cancel = TRUE] /\ UNCHANGED derivative
     ELSE /\ transform' = [transform EXCEPT !.status = "cancelled", !.cancel = TRUE]
          /\ derivative' = IF CanFinish THEN "cancelled" ELSE derivative
  /\ UNCHANGED <<claims, files, source, works, serving, deaths, removed>>

\* jobs.retry
RetryTransform ==
  /\ transform.status \in {"failed", "cancelled"}
  /\ transform.attempt < ClaimBound
  /\ transform' = [transform EXCEPT !.status = "pending", !.cancel = FALSE,
                     !.max = IF @ > transform.attempt THEN @ ELSE transform.attempt + 1]
  /\ UNCHANGED <<derivative, claims, files, source, works, serving, deaths, removed>>

\* The operator removes the finished file, or the source changes.
RemoveOutput ==
  /\ Meddling /\ derivative = "succeeded" /\ "final" \in files
  /\ files' = {} /\ removed' = TRUE
  /\ UNCHANGED <<derivative, transform, claims, source, works, serving, deaths>>
ChangeSource ==
  /\ Meddling /\ source /\ source' = FALSE
  /\ UNCHANGED <<derivative, transform, claims, files, works, serving, deaths, removed>>

CrashServer ==
  /\ serving /\ deaths < TransformCrashBound /\ works # {}
  /\ serving' = FALSE /\ deaths' = deaths + 1 /\ works' = {}
  /\ transform' = [transform EXCEPT !.live = FALSE]
  /\ UNCHANGED <<derivative, claims, files, source, removed>>

\* Seeded fault: a boot leaves interrupted rows alone.
BootWithoutRecovery ==
  /\ ~serving /\ serving' = TRUE
  /\ UNCHANGED <<derivative, transform, claims, files, source, works, deaths, removed>>

\* Boot: TransformRecoveryService.recover fails interrupted rows, discards their
\* directories, and removes stale ones that belong to no succeeded row; all
\* before the runner starts.
Boot ==
  /\ ~serving /\ serving' = TRUE
  /\ derivative' = Recovered
  /\ \/ files' = IF derivative = "running" THEN {} ELSE files
     \/ StaleRemoved
  /\ UNCHANGED <<transform, claims, source, works, deaths, removed>>

TransformNext ==
  \/ Prepare \/ Claim \/ HandlerStep
  \/ \E w \in works : Heartbeat(w)
  \/ ExpireLease \/ CancelTransform \/ CancelOverMcp \/ RetryTransform
  \/ RemoveOutput \/ ChangeSource \/ CrashServer \/ Boot

\* The handler's awaits end (FFmpeg has a stall and a total deadline), the
\* heartbeat fires, a dead server is started again.
TransformSpec ==
  /\ TransformInit /\ [][TransformNext]_transformVars
  /\ WF_transformVars(HandlerStep)
  /\ WF_transformVars(\E w \in works : Heartbeat(w))
  /\ WF_transformVars(Boot)

-----------------------------------------------------------------------------
\* Publish handlers resolve a derivative by its succeeded row alone: the file
\* is there then, whatever executions, cancellations, lost leases and crashes
\* came before (unless somebody removed it by hand).
OutputIsThere == derivative = "succeeded" /\ ~removed => "final" \in files

\* A job that releases the publish jobs waiting for it has left a finished
\* derivative of a file that is there; only when another execution, which lost
\* its lease, is still writing, may the two disagree.
ReleasedWithOutput ==
  [][transform.status = "running" /\ transform'.status = "succeeded" /\ works' = {}
       => derivative' = "succeeded" /\ "final" \in files']_transformVars

\* A row does not stay running: not after a crash, not after a cancellation,
\* not when the job was given to somebody else.
DerivativeSettles == derivative = "running" ~> derivative # "running"
=============================================================================
