--------------------------- MODULE FacebookPublish --------------------------
(***************************************************************************)
(* FacebookReelsJobHandler: start an upload session, send the file from    *)
(* the offset the service confirms, finish it, and reconcile the status.   *)
(***************************************************************************)
EXTENDS DestinationPublish

Start ==
  /\ At("start", "none")
  /\ \/ Throw(FALSE) /\ UNCHANGED <<checkpoint, account>>
     \/ /\ account = "connected"
        /\ Throw(FALSE)
        /\ account' = "reauthorization_required"
        /\ UNCHANGED checkpoint
     \/ /\ account = "connected"
        /\ IF checkpoint.status = "uploading" /\ checkpoint.remote = NoObject
           THEN Save([checkpoint EXCEPT !.status = "validating"]) ELSE UNCHANGED checkpoint
        /\ GoTo(IF checkpoint.remote = NoObject THEN "create" ELSE "transfer")
        /\ UNCHANGED account
  /\ UNCHANGED <<uploadUrl, remote, crashes>>

\* start(): the video id is checkpointed before its upload URL.
SessionStarted ==
  /\ At("create", "ok")
  /\ Save(WithObject("uploading"))
  /\ GoTo("storeUrl")
  /\ UNCHANGED <<uploadUrl, account, remote, crashes>>

\* What is left to do, from the checkpoint.  Between the first save of
\* 'publishing' and the finish request nothing is awaited.
Transfer ==
  /\ At("transfer", "none")
  /\ CASE checkpoint.status = "published" -> Return
       [] checkpoint.status # "published" /\ checkpoint.uploaded < Size ->
            IF job.attempts > 1 THEN GoTo("resume") ELSE GoTo("upload")
       [] OTHER -> GoTo("publish")
  /\ UNCHANGED <<checkpoint, uploadUrl, account, remote, crashes>>

\* recoverOffset(): bytes_transfered of the status.
OffsetRecovered ==
  /\ At("resume", "more")
  /\ Save([checkpoint EXCEPT !.status = "uploading",
                             !.uploaded = remote[checkpoint.remote].received])
  /\ GoTo(IF remote[checkpoint.remote].received < Size THEN "upload" ELSE "publish")
  /\ UNCHANGED <<uploadUrl, account, remote, crashes>>

UrlMissing ==
  /\ At("upload", "none") /\ uploadUrl # "valid"
  /\ Throw(FALSE)
  /\ UNCHANGED <<checkpoint, uploadUrl, account, remote, crashes>>

Uploaded ==
  /\ At("upload", "ok")
  /\ Save([checkpoint EXCEPT !.status = "uploaded", !.uploaded = Size])
  /\ GoTo("publish")
  /\ UNCHANGED <<uploadUrl, account, remote, crashes>>

\* A finish that was begun, or is known, is not asked for again.
FinishBegun == checkpoint.status \in {"verifying", "processing", "publishing"}

BeginFinish ==
  /\ At("publish", "none") /\ checkpoint.status # "publishing" /\ ~FinishBegun
  /\ Save([checkpoint EXCEPT !.status = "publishing"])
  /\ handler' = [phase |-> "publish", answer |-> "ready"]
  /\ UNCHANGED <<job, uploadUrl, account, remote, crashes>>
FinishKnown ==
  /\ At("publish", "none") /\ FinishBegun
  /\ GoTo("poll")
  /\ UNCHANGED <<checkpoint, uploadUrl, account, remote, crashes>>

Finished ==
  /\ At("publish", "ok")
  /\ Save([checkpoint EXCEPT !.status = "verifying"])
  /\ GoTo("poll")
  /\ UNCHANGED <<uploadUrl, account, remote, crashes>>

\* A lost answer is permanent: it is not known whether the reel is finished.
FinishFailed ==
  /\ handler.phase = "publish"
  /\ handler.answer \in {"lost", "unavailable", "rejected"}
  /\ Throw(handler.answer = "unavailable")
  /\ UNCHANGED <<checkpoint, uploadUrl, account, remote, crashes>>

\* Seeded fault: a finished upload passes for a published reel.
ReconciledReadyAsPublished ==
  /\ handler.phase = "poll" /\ handler.answer \in {"published", "ready"}
  /\ Save([checkpoint EXCEPT !.status = "published"])
  /\ GoTo("forgetUrl")
  /\ UNCHANGED <<uploadUrl, account, remote, crashes>>

\* reconcile()
Reconciled ==
  /\ At("poll", "published")
  /\ Save([checkpoint EXCEPT !.status = "published"])
  /\ GoTo("forgetUrl")
  /\ UNCHANGED <<uploadUrl, account, remote, crashes>>
StillProcessing ==
  /\ handler.phase = "poll"
  /\ \/ /\ handler.answer \in {"uploading", "processing", "publishing", "ready"}
        /\ Save([checkpoint EXCEPT !.status = handler.answer])
        /\ Throw(TRUE)
     \/ /\ handler.answer = "failed"
        /\ Save([checkpoint EXCEPT !.status = "failed"])
        /\ Throw(FALSE)
  /\ UNCHANGED <<uploadUrl, account, remote, crashes>>
ForgetUrl ==
  /\ At("forgetUrl", "none")
  /\ \/ UrlForgotten /\ Return
     \/ UNCHANGED uploadUrl /\ Throw(FALSE)
  /\ UNCHANGED <<checkpoint, account, remote, crashes>>

\* A revoked token or a denied permission blocks the account or the target.
AccessRefused ==
  /\ handler.phase \in {"create", "resume", "upload", "publish", "poll"}
  /\ handler.answer = "rejected"
  /\ Throw(FALSE)
  /\ account' \in {"reauthorization_required", "unavailable"}
  /\ UNCHANGED <<checkpoint, uploadUrl, remote, crashes>>

-----------------------------------------------------------------------------
(* The service.                                                            *)

Video == remote[checkpoint.remote]
UploadOutcomes ==
  IF uploadUrl # "valid" \/ Video.received # checkpoint.uploaded THEN {}
  ELSE {[answer |-> IF n = Size THEN "ok" ELSE "lost", remote |-> Received(checkpoint.remote, n)] :
          n \in {Size} \cup {Video.received + 1}}
FinishOutcomes ==
  {[answer |-> "ok",
    remote |-> IF Video.state = "uploaded"
               THEN [remote EXCEPT ![checkpoint.remote].state = "publishing"] ELSE remote]}
PollOutcomes ==
  Unchanged(CASE Video.state = "posted" -> {"published"}
              [] Video.state = "failed" -> {"failed"}
              [] Video.state = "publishing" -> {"processing", "publishing", "ready"}
              [] Video.state = "uploaded" -> {"uploading", "ready"}
              [] OTHER -> {"uploading"})
ServiceStep ==
  /\ \E r \in Objects, s \in {"posted", "failed"} :
       remote[r].state = "publishing" /\ remote' = [remote EXCEPT ![r].state = s]
  /\ UNCHANGED <<job, handler, checkpoint, uploadUrl, account, crashes>>

\* The finish request is sent once 'publishing' is saved.
AskFinish ==
  /\ At("publish", "ready")
  /\ \/ \E o \in FinishOutcomes : \E a \in {o.answer, "lost", "unavailable"} :
          handler' = [handler EXCEPT !.answer = a] /\ remote' = o.remote
     \/ \E a \in {"lost", "unavailable", "rejected"} :
          handler' = [handler EXCEPT !.answer = a] /\ UNCHANGED remote
  /\ UNCHANGED <<job, checkpoint, uploadUrl, account, crashes>>
Call ==
  \/ Ask("create", Creation)
  \/ Ask("resume", Unchanged({"more"}))
  \/ uploadUrl = "valid" /\ Ask("upload", UploadOutcomes)
  \/ Ask("poll", PollOutcomes)
  \/ AskFinish

HandlerStep ==
  \/ Start \/ SessionStarted \/ StoreUrl("transfer") \/ Transfer \/ OffsetRecovered
  \/ UrlMissing \/ Uploaded \/ BeginFinish \/ FinishKnown \/ Finished \/ FinishFailed
  \/ Reconciled \/ StillProcessing \/ ForgetUrl \/ AccessRefused \/ Call
  \/ \E p \in {"create", "resume", "upload", "poll"} : CallFailed(p)

Next == RunnerStep \/ HandlerStep \/ Reconnect \/ ServiceStep
=============================================================================
