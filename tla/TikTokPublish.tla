---------------------------- MODULE TikTokPublish ---------------------------
(***************************************************************************)
(* TikTokDirectPostJobHandler: initialize a direct post, send the chunks   *)
(* to its short-lived upload URL, poll until it is published.              *)
(***************************************************************************)
EXTENDS DestinationPublish

\* Media, metadata or input that can never be posted is refused for good.
Start ==
  /\ At("start", "none")
  /\ \/ Throw(FALSE)
     \/ GoTo(IF checkpoint.remote # NoObject /\ checkpoint.uploaded >= Size
             THEN "poll" ELSE "authorize")
  /\ UNCHANGED <<checkpoint, uploadUrl, account, remote, crashes>>

\* Creator capabilities and an access token; the post must fit the former.
Authorized ==
  /\ At("authorize", "ok")
  /\ \/ Throw(FALSE)
     \/ GoTo(IF checkpoint.remote = NoObject THEN "create" ELSE "transfer")
  /\ UNCHANGED <<checkpoint, uploadUrl, account, remote, crashes>>

\* initialize(): the publish id is checkpointed before the URL is stored.
Initialized ==
  /\ At("create", "ok")
  /\ Save(WithObject("uploading"))
  /\ GoTo("storeUrl")
  /\ UNCHANGED <<uploadUrl, account, remote, crashes>>

\* The head of the chunk loop; the lease was read from the secret store.
NextChunk ==
  /\ At("transfer", "none")
  /\ \/ uploadUrl = "valid" /\ GoTo("upload")
     \/ (job.cancelRequested \/ uploadUrl # "valid") /\ Throw(FALSE)
  /\ UNCHANGED <<checkpoint, uploadUrl, account, remote, crashes>>

\* Seeded fault: a chunk is counted when its answer is lost.
ChunkSentUnchecked ==
  /\ handler.phase = "upload" /\ handler.answer \in {"more", "lost"}
  /\ Save([checkpoint EXCEPT !.uploaded = @ + 1])
  /\ GoTo("transfer")
  /\ UNCHANGED <<uploadUrl, account, remote, crashes>>

ChunkSent ==
  /\ At("upload", "more")
  /\ Save([checkpoint EXCEPT !.uploaded = @ + 1])
  /\ GoTo("transfer")
  /\ UNCHANGED <<uploadUrl, account, remote, crashes>>

LastChunkSent ==
  /\ At("upload", "ok")
  /\ Save([checkpoint EXCEPT !.uploaded = Size, !.status = "processing"])
  /\ GoTo("forgetUrl")
  /\ UNCHANGED <<uploadUrl, account, remote, crashes>>

ForgetUrl ==
  /\ At("forgetUrl", "none")
  /\ \/ UrlForgotten /\ GoTo("poll")
     \/ UNCHANGED uploadUrl /\ Throw(FALSE)
  /\ UNCHANGED <<checkpoint, account, remote, crashes>>

Polled ==
  /\ handler.phase = "poll" /\ handler.answer \in {"processing", "published", "failed"}
  /\ Save([checkpoint EXCEPT !.status = handler.answer])
  /\ CASE handler.answer = "processing" -> Throw(TRUE)
       [] handler.answer = "published" -> Return
       [] handler.answer = "failed" -> \E internal \in BOOLEAN : Throw(internal)
  /\ UNCHANGED <<uploadUrl, account, remote, crashes>>

\* The service: a chunk is taken once, by an upload URL that is not over.
ChunkOutcomes ==
  IF uploadUrl # "valid" \/ remote[checkpoint.remote].received > checkpoint.uploaded THEN {}
  ELSE {[answer |-> IF checkpoint.uploaded + 1 = Size THEN "ok" ELSE "more",
         remote |-> Received(checkpoint.remote, checkpoint.uploaded + 1)]}
PollOutcomes ==
  Unchanged({CASE remote[checkpoint.remote].state = "posted" -> "published"
               [] remote[checkpoint.remote].state = "failed" -> "failed"
               [] OTHER -> "processing"})
ServiceStep ==
  /\ \E r \in Objects, s \in {"posted", "failed"} :
       remote[r].state = "uploaded" /\ remote' = [remote EXCEPT ![r].state = s]
  /\ UNCHANGED <<job, handler, checkpoint, uploadUrl, account, crashes>>

Call ==
  \/ Ask("authorize", Unchanged({"ok"}))
  \/ Ask("create", Creation)
  \/ Ask("upload", ChunkOutcomes)
  \/ Ask("poll", PollOutcomes)

HandlerStep ==
  \/ Start \/ Authorized \/ Initialized \/ StoreUrl("transfer")
  \/ NextChunk \/ ChunkSent \/ LastChunkSent \/ ForgetUrl \/ Polled
  \/ Call \/ \E p \in {"authorize", "create", "upload", "poll"} : CallFailed(p)

Next == RunnerStep \/ HandlerStep \/ UrlExpires \/ ServiceStep
=============================================================================
