--------------------------- MODULE YouTubePublish ---------------------------
(***************************************************************************)
(* YouTubeUploadJobHandler: a resumable upload session whose URL is kept   *)
(* in the checkpoint, resumed after an interruption from the offset the    *)
(* service confirms; then the processing status is polled.                 *)
(***************************************************************************)
EXTENDS DestinationPublish

Start ==
  /\ At("start", "none")
  /\ \/ Throw(FALSE)
     \/ GoTo(IF checkpoint.remote # NoObject THEN "poll" ELSE "authorize")
  /\ UNCHANGED <<checkpoint, uploadUrl, account, remote, crashes>>

\* Seeded fault: a retry starts over instead of resuming.
AuthorizedAnew ==
  /\ At("authorize", "ok")
  /\ GoTo("create")
  /\ UNCHANGED <<checkpoint, uploadUrl, account, remote, crashes>>

Authorized ==
  /\ At("authorize", "ok")
  /\ GoTo(IF checkpoint.session = NoObject THEN "create" ELSE "resume")
  /\ UNCHANGED <<checkpoint, uploadUrl, account, remote, crashes>>

\* startSession(): the session is checkpointed before any byte is sent.
SessionStarted ==
  /\ At("create", "ok")
  /\ Save([checkpoint EXCEPT !.session = Newest, !.uploaded = 0])
  /\ GoTo("transfer")
  /\ UNCHANGED <<uploadUrl, account, remote, crashes>>

\* resumeOffset(): 404, the session is replaced.
SessionGone ==
  /\ At("resume", "gone")
  /\ Save([checkpoint EXCEPT !.session = NoObject, !.uploaded = 0])
  /\ GoTo("create")
  /\ UNCHANGED <<uploadUrl, account, remote, crashes>>

\* Seeded fault: the offset is the old one plus what the service has.
OffsetAdded ==
  /\ handler.phase \in {"resume", "upload"} /\ handler.answer = "more"
  /\ Save([checkpoint EXCEPT !.uploaded = @ + remote[checkpoint.session].received])
  /\ GoTo("transfer")
  /\ UNCHANGED <<uploadUrl, account, remote, crashes>>

\* 308: the Range header says what the session has (parseRange).
OffsetConfirmed ==
  /\ handler.phase \in {"resume", "upload"} /\ handler.answer = "more"
  /\ Save([checkpoint EXCEPT !.uploaded = remote[checkpoint.session].received])
  /\ GoTo("transfer")
  /\ UNCHANGED <<uploadUrl, account, remote, crashes>>

\* The video id ends the session, found while resuming or by the last chunk.
Inserted ==
  /\ handler.phase \in {"resume", "upload"} /\ handler.answer = "inserted"
  /\ Save([remote |-> checkpoint.session, session |-> NoObject,
           status |-> "processing", uploaded |-> Size])
  /\ GoTo("poll")
  /\ UNCHANGED <<uploadUrl, account, remote, crashes>>

NextChunk ==
  /\ At("transfer", "none")
  /\ \/ GoTo("upload")
     \/ job.cancelRequested /\ Throw(FALSE)
  /\ UNCHANGED <<checkpoint, uploadUrl, account, remote, crashes>>

\* processingStatus; 'terminated' is a failure too.
Polled ==
  /\ handler.phase = "poll" /\ handler.answer \in {"processing", "published", "failed"}
  /\ Save([checkpoint EXCEPT !.status = handler.answer])
  /\ CASE handler.answer = "processing" -> Throw(TRUE)
       [] handler.answer = "published" -> Return
       [] handler.answer = "failed" -> Throw(FALSE)
  /\ UNCHANGED <<uploadUrl, account, remote, crashes>>

-----------------------------------------------------------------------------
(* The service.  It stores every chunk it acknowledges.                    *)

Session == remote[checkpoint.session]
ResumeOutcomes ==
  Unchanged({IF Session.forgotten THEN "gone"
             ELSE IF Session.received = Size THEN "inserted" ELSE "more"})
ChunkOutcomes ==
  IF Session.forgotten \/ Session.received # checkpoint.uploaded THEN {}
  ELSE {[answer |-> IF checkpoint.uploaded + 1 = Size THEN "inserted" ELSE "more",
         remote |-> Received(checkpoint.session, checkpoint.uploaded + 1)]}
PollOutcomes ==
  Unchanged({CASE remote[checkpoint.remote].state = "posted" -> "published"
               [] remote[checkpoint.remote].state = "failed" -> "failed"
               [] OTHER -> "processing"})
ServiceStep ==
  /\ \E r \in Objects :
       \/ \E s \in {"posted", "failed"} :
            remote[r].state = "uploaded" /\ remote' = [remote EXCEPT ![r].state = s]
       \/ /\ Exists(r) /\ ~remote[r].forgotten
          /\ remote[r].received < Size \/ ForgetsInserted
          /\ remote' = [remote EXCEPT ![r].forgotten = TRUE]
  /\ UNCHANGED <<job, handler, checkpoint, uploadUrl, account, crashes>>

Call ==
  \/ Ask("authorize", Unchanged({"ok"}))
  \/ Ask("create", Creation)
  \/ Ask("resume", ResumeOutcomes)
  \/ Ask("upload", ChunkOutcomes)
  \/ Ask("poll", PollOutcomes)

HandlerStep ==
  \/ Start \/ Authorized \/ SessionStarted \/ SessionGone \/ OffsetConfirmed
  \/ Inserted \/ NextChunk \/ Polled \/ Call
  \/ \E p \in {"authorize", "create", "resume", "upload", "poll"} : CallFailed(p)

Next == RunnerStep \/ HandlerStep \/ ServiceStep
=============================================================================
