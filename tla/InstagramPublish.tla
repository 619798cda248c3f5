-------------------------- MODULE InstagramPublish --------------------------
(***************************************************************************)
(* InstagramReelsJobHandler: create a container, send the whole file in    *)
(* one request, wait for the container, publish it.  An interrupted        *)
(* upload or publication is never repeated.                                *)
(***************************************************************************)
EXTENDS DestinationPublish

\* Media and input are checked, then the target, then the credential's expiry.
Start ==
  /\ At("start", "none")
  /\ \/ Throw(FALSE) /\ UNCHANGED <<checkpoint, account>>
     \/ /\ account = "connected"
        /\ Throw(FALSE)
        /\ account' = "reauthorization_required"
        /\ UNCHANGED checkpoint
     \/ /\ account = "connected"
        /\ IF checkpoint.status = "uploading" /\ checkpoint.remote = NoObject
           THEN Save([checkpoint EXCEPT !.status = "validating"]) ELSE UNCHANGED checkpoint
        /\ GoTo(IF checkpoint.remote = NoObject THEN "create" ELSE "transfer")
        /\ UNCHANGED account
  /\ UNCHANGED <<uploadUrl, remote, crashes>>

\* createContainer(): the container is checkpointed before its upload URI.
ContainerCreated ==
  /\ At("create", "ok")
  /\ Save(WithObject("uploading"))
  /\ GoTo("storeUrl")
  /\ UNCHANGED <<uploadUrl, account, remote, crashes>>

\* An upload that may have been interrupted before is not repeated.
Interrupted == job.attempts > 1 /\ checkpoint.status # "upload_retryable"

RefusesToReplay ==
  /\ At("transfer", "none")
  /\ checkpoint.uploaded < Size
  /\ Interrupted
  /\ Throw(FALSE)
  /\ UNCHANGED <<checkpoint, uploadUrl, account, remote, crashes>>

Transfer ==
  /\ At("transfer", "none")
  /\ \/ checkpoint.uploaded >= Size /\ GoTo("poll")
     \/ checkpoint.uploaded < Size /\ ~Interrupted /\ uploadUrl = "valid" /\ GoTo("upload")
     \/ checkpoint.uploaded < Size /\ ~Interrupted /\ uploadUrl # "valid" /\ Throw(FALSE)
  /\ UNCHANGED <<checkpoint, uploadUrl, account, remote, crashes>>

Uploaded ==
  /\ At("upload", "ok")
  /\ Save([checkpoint EXCEPT !.status = "processing", !.uploaded = Size])
  /\ GoTo("forgetUrl")
  /\ UNCHANGED <<uploadUrl, account, remote, crashes>>

\* Only an answer that says "later" lets the upload be retried.
UploadFailed ==
  /\ handler.phase = "upload"
  /\ \/ /\ handler.answer = "unavailable"
        /\ Save([checkpoint EXCEPT !.status = "upload_retryable"])
        /\ Throw(TRUE)
     \/ /\ handler.answer \in {"lost", "rejected", "invalid"}
        /\ UNCHANGED checkpoint
        /\ Throw(FALSE)
  /\ UNCHANGED <<uploadUrl, account, remote, crashes>>

ForgetUrl ==
  /\ At("forgetUrl", "none")
  /\ \/ UrlForgotten /\ GoTo("poll")
     \/ UNCHANGED uploadUrl /\ Throw(FALSE)
  /\ UNCHANGED <<checkpoint, account, remote, crashes>>

\* FINISHED: published once, and not again when it is unknown whether it was.
Finished ==
  /\ At("poll", "finished")
  /\ \/ checkpoint.status = "publishing" /\ Throw(FALSE) /\ UNCHANGED checkpoint
     \/ checkpoint.status = "published" /\ Return /\ UNCHANGED checkpoint
     \/ /\ checkpoint.status \notin {"publishing", "published"}
        /\ Save([checkpoint EXCEPT !.status = "publishing"])
        /\ GoTo("publish")
  /\ UNCHANGED <<uploadUrl, account, remote, crashes>>

\* IN_PROGRESS, PUBLISHED, ERROR or EXPIRED, and anything else.
Polled ==
  /\ handler.phase = "poll"
  /\ \/ handler.answer \in {"processing", "unknown"} /\ Throw(TRUE) /\ UNCHANGED checkpoint
     \/ /\ handler.answer \in {"published", "failed"}
        /\ Save([checkpoint EXCEPT !.status = handler.answer])
        /\ IF handler.answer = "published" THEN Return ELSE Throw(FALSE)
  /\ UNCHANGED <<uploadUrl, account, remote, crashes>>

\* From here on the checkpoint names the media, no longer the container.
Published ==
  /\ At("publish", "ok")
  /\ Save([checkpoint EXCEPT !.status = "published"])
  /\ Return
  /\ UNCHANGED <<uploadUrl, account, remote, crashes>>

PublishFailed ==
  /\ handler.phase = "publish"
  /\ handler.answer \in {"lost", "unavailable", "rejected", "invalid"}
  /\ Throw(handler.answer \in {"unavailable", "invalid"})
  /\ UNCHANGED <<checkpoint, uploadUrl, account, remote, crashes>>

\* A revoked token or a denied permission blocks the account or the target.
AccessRefused ==
  /\ handler.phase \in {"create", "poll", "publish"} /\ handler.answer = "rejected"
  /\ Throw(FALSE)
  /\ account' \in {"reauthorization_required", "unavailable"}
  /\ UNCHANGED <<checkpoint, uploadUrl, remote, crashes>>

-----------------------------------------------------------------------------
(* The service.                                                            *)

Container == remote[checkpoint.remote]
UploadOutcomes ==
  IF Container.received = Size THEN {} ELSE
  {[answer |-> IF n = Size THEN "ok" ELSE "lost", remote |-> Received(checkpoint.remote, n)] :
     n \in {Size} \cup {Container.received + 1}}
\* What is asked once the publication is checkpointed is the status of the
\* media, and what Graph answers to that is not known.
PollOutcomes ==
  Unchanged(
    IF checkpoint.status = "published" THEN {"published", "finished", "unknown"}
    ELSE {CASE Container.state = "posted" -> "published"
            [] Container.state = "failed" -> "failed"
            [] Container.state = "ready" -> "finished"
            [] OTHER -> "processing"})
PublishOutcomes ==
  IF Container.state = "ready"
  THEN {[answer |-> "ok", remote |-> [remote EXCEPT ![checkpoint.remote].state = "posted"]]}
  ELSE {}
ServiceStep ==
  /\ \E r \in Objects, s \in {"ready", "failed"} :
       remote[r].state = "uploaded" /\ remote' = [remote EXCEPT ![r].state = s]
  /\ UNCHANGED <<job, handler, checkpoint, uploadUrl, account, crashes>>

Call ==
  \/ Ask("create", Creation)
  \/ Ask("upload", UploadOutcomes)
  \/ Ask("poll", PollOutcomes)
  \/ Ask("publish", PublishOutcomes)

HandlerStep ==
  \/ Start \/ ContainerCreated \/ StoreUrl("transfer") \/ RefusesToReplay \/ Transfer
  \/ Uploaded \/ UploadFailed \/ ForgetUrl \/ Finished \/ Polled \/ Published
  \/ PublishFailed \/ AccessRefused \/ Call \/ CallFailed("create") \/ CallFailed("poll")

Next == RunnerStep \/ HandlerStep \/ Reconnect \/ ServiceStep

=============================================================================
