---------------------------- MODULE Transcription ---------------------------
(***************************************************************************)
(* One transcript (one cache key) and those who use it: executions of      *)
(* workflows with a transcription step on the same media, the              *)
(* workflow.transcribe job keyed by the cache key, its handler, and        *)
(* editors of the cues.  An execution goes on to its publish jobs when the *)
(* transcript is usable; otherwise its continuation is stored in the job.  *)
(***************************************************************************)
EXTENDS Integers, FiniteSets

CONSTANTS
  Executions,       \* executions of transcribing workflows on the media
  Captioning,       \* those whose workflow renders the captions
  Outputs,          \* publish jobs of an execution
  Editors,          \* editors of the transcript
  EditBound,        \* bound: revisions of the transcript
  TranscribeFaults  \* bound: crashes, failures, cancellations

VARIABLES
  transcript,  \* the transcripts row with its cues
  opened,      \* the revision each editor has on the screen, or -1
  transcribe,  \* the job: status and continuation
  inference,   \* the handler
  execution,   \* how far each execution is
  outputs,     \* publish jobs made: <<execution, destination>>
  captions,    \* the cues an execution rendered
  troubles

transcriptionVars ==
  <<transcript, opened, transcribe, inference, execution, outputs, captions, troubles>>

NoCues == "none"
Generated == "generated"
Texts == Editors \cup {NoCues, Generated}
NoOne == "nobody"

TranscriptionTypeOK ==
  /\ transcript \in [reserved : BOOLEAN, cues : Texts, edited : BOOLEAN, revision : 0..EditBound]
  /\ opened \in [Editors -> -1..EditBound]
  /\ transcribe \in [status : {"absent", "pending", "running", "succeeded", "failed", "cancelled"},
                     for : Executions \cup {NoOne}]
  /\ inference \in {"idle", "infer", "resume"}
  /\ execution \in [Executions -> {"new", "waiting", "dispatched"}]
  /\ outputs \subseteq Executions \X Outputs
  /\ captions \in [Executions -> Texts]
  /\ troubles \in 0..TranscribeFaults

TranscriptionInit ==
  /\ transcript = [reserved |-> FALSE, cues |-> NoCues, edited |-> FALSE, revision |-> 0]
  /\ opened = [e \in Editors |-> -1]
  /\ transcribe = [status |-> "absent", for |-> NoOne]
  /\ inference = "idle"
  /\ execution = [x \in Executions |-> "new"]
  /\ outputs = {} /\ captions = [x \in Executions |-> NoCues]
  /\ troubles = 0

-----------------------------------------------------------------------------
\* A generated or an edited transcript is reused.
Usable == transcript.cues # NoCues

\* createCaptionRenderStep keeps the cues of the moment.
CaptionStep == transcript.cues
\* SqliteTranscriptRepository.reserve keeps a row that is there.
Reserved == [transcript EXCEPT !.reserved = TRUE]

\* executeMedia past the transcription step: the captions are rendered from the
\* cues of the moment, every publish job is created by its key.
Dispatch(x) ==
  /\ captions' = IF x \in Captioning /\ outputs \cap ({x} \X Outputs) = {}
                 THEN [captions EXCEPT ![x] = CaptionStep] ELSE captions
  /\ outputs' = outputs \cup ({x} \X Outputs)
  /\ execution' = [execution EXCEPT ![x] = "dispatched"]

\* executeMedia: prepare reserves the transcript; while it is not usable the
\* job is created with the continuation, or the existing one is returned.
Execute(x) ==
  /\ execution[x] = "new"
  /\ transcript' = Reserved
  /\ IF Usable THEN Dispatch(x) /\ UNCHANGED transcribe
     ELSE /\ transcribe' = IF transcribe.status = "absent"
                           THEN [status |-> "pending", for |-> x] ELSE transcribe
          /\ execution' = [execution EXCEPT ![x] = "waiting"]
          /\ UNCHANGED <<outputs, captions>>
  /\ UNCHANGED <<opened, inference, troubles>>

-----------------------------------------------------------------------------
(* WorkflowTranscriptionJobHandler                                         *)

Claim ==
  /\ transcribe.status = "pending"
  /\ transcribe' = [transcribe EXCEPT !.status = "running"]
  /\ inference' = "infer"
  /\ UNCHANGED <<transcript, opened, execution, outputs, captions, troubles>>

\* The row without user edits takes generated cues (replaceGeneratedCues).
MayGenerate == ~transcript.edited

\* The provider answered: the cues are stored, unless somebody edited them
\* meanwhile.
Infer ==
  /\ inference = "infer"
  /\ MayGenerate => transcript.revision < EditBound
  /\ transcript' = IF MayGenerate
                   THEN [transcript EXCEPT !.cues = Generated, !.revision = @ + 1]
                   ELSE transcript
  /\ inference' = "resume"
  /\ UNCHANGED <<opened, transcribe, execution, outputs, captions, troubles>>

\* Seeded fault: the job is settled before the workflow is resumed.
ResumeLater ==
  /\ inference = "resume"
  /\ transcribe' = [transcribe EXCEPT !.status = "succeeded"]
  /\ UNCHANGED <<transcript, opened, execution, inference, outputs, captions, troubles>>

\* The stored continuation is resumed through executeMedia, and the job done.
Resume ==
  /\ inference = "resume"
  /\ Dispatch(transcribe.for)
  /\ transcribe' = [transcribe EXCEPT !.status = "succeeded"]
  /\ inference' = "idle"
  /\ UNCHANGED <<transcript, opened, troubles>>

\* The media is gone, whisper.cpp failed, was cancelled or heard nothing: none
\* of these is a JobExecutionError, so the job fails for good.
InferenceFails ==
  /\ inference = "infer" /\ troubles < TranscribeFaults
  /\ troubles' = troubles + 1
  /\ transcribe' \in {[transcribe EXCEPT !.status = s] : s \in {"failed", "cancelled"}}
  /\ inference' = "idle"
  /\ UNCHANGED <<transcript, opened, execution, outputs, captions>>

\* The server dies, also after the first of the publish jobs; the lease of the
\* job expires and it is claimed again.
Die ==
  /\ inference # "idle" /\ troubles < TranscribeFaults
  /\ troubles' = troubles + 1
  /\ \/ inference = "resume" /\ \E made \in SUBSET Outputs :
          /\ outputs' = outputs \cup ({transcribe.for} \X made)
          /\ captions' = IF /\ made # {} /\ transcribe.for \in Captioning
                            /\ outputs \cap ({transcribe.for} \X Outputs) = {}
                         THEN [captions EXCEPT ![transcribe.for] = CaptionStep] ELSE captions
     \/ UNCHANGED <<outputs, captions>>
  /\ inference' = "idle"
  /\ UNCHANGED <<transcript, opened, transcribe, execution>>
RecoverLease ==
  /\ transcribe.status = "running" /\ inference = "idle"
  /\ transcribe' = [transcribe EXCEPT !.status = "pending"]
  /\ UNCHANGED <<transcript, opened, inference, execution, outputs, captions, troubles>>

\* jobs.retry, jobs.cancel of a waiting job
Retry ==
  /\ transcribe.status \in {"failed", "cancelled"}
  /\ transcribe' = [transcribe EXCEPT !.status = "pending"]
  /\ UNCHANGED <<transcript, opened, inference, execution, outputs, captions, troubles>>
Cancel ==
  /\ transcribe.status = "pending" /\ troubles < TranscribeFaults
  /\ troubles' = troubles + 1
  /\ transcribe' = [transcribe EXCEPT !.status = "cancelled"]
  /\ UNCHANGED <<transcript, opened, inference, execution, outputs, captions>>

-----------------------------------------------------------------------------
(* TranscriptService                                                       *)

Open(e) ==
  /\ transcript.reserved /\ opened[e] # transcript.revision
  /\ opened' = [opened EXCEPT ![e] = transcript.revision]
  /\ UNCHANGED <<transcript, transcribe, inference, execution, outputs, captions, troubles>>

\* Seeded fault: whoever saves last wins.
Current(e) == opened[e] # -1

\* The revision the editor was opened at is still the row's.
Unchanged(e) == opened[e] = transcript.revision

\* save: a conflict leaves everything as it is
Save(e) ==
  /\ Unchanged(e) /\ transcript.revision < EditBound
  /\ transcript' = [transcript EXCEPT !.cues = e, !.edited = TRUE, !.revision = @ + 1]
  /\ opened' = [opened EXCEPT ![e] = transcript.revision + 1]
  /\ UNCHANGED <<transcribe, inference, execution, outputs, captions, troubles>>

HandlerStep == Claim \/ Infer \/ Resume
TranscriptionNext ==
  \/ \E x \in Executions : Execute(x)
  \/ HandlerStep \/ InferenceFails \/ Die \/ RecoverLease \/ Retry \/ Cancel
  \/ \E e \in Editors : Open(e) \/ Save(e)

\* The job is claimed and inference ends (it has a deadline); leases expire.
TranscriptionSpec ==
  /\ TranscriptionInit /\ [][TranscriptionNext]_transcriptionVars
  /\ WF_transcriptionVars(HandlerStep) /\ WF_transcriptionVars(RecoverLease)

-----------------------------------------------------------------------------
\* Cues somebody saved are replaced only by somebody who had them on the
\* screen: not by an inference under way, repeated or retried, and not by an
\* editor opened earlier.
EditsSurvive ==
  [][transcript.cues \in Editors /\ transcript'.cues # transcript.cues
       => \E e \in Editors : opened[e] = transcript.revision /\ transcript'.cues = e]_transcriptionVars

\* A transcription that succeeded has resumed its workflow with every publish
\* job, also when the server died between the cues and the publish jobs; the
\* captions were rendered from cues, never from an empty transcript.
SuccessResumed ==
  transcribe.status = "succeeded" =>
    /\ {transcribe.for} \X Outputs \subseteq outputs
    /\ transcribe.for \in Captioning => captions[transcribe.for] # NoCues

\* The execution whose continuation the job holds is dispatched, unless the
\* transcription fails or is cancelled.
ContinuationResumes ==
  \A x \in Executions :
    transcribe.for = x ~> execution[x] = "dispatched"
                          \/ transcribe.status \in {"failed", "cancelled"}

\* "A workflow snapshots its continuation into a durable transcription job, then
\* resumes the same immutable plan" (docs/progress/v0.7.md): so does every
\* workflow that waits for the transcript.
EveryWaiterResumes ==
  \A x \in Executions :
    execution[x] = "waiting" ~> execution[x] = "dispatched"
                               \/ transcribe.status \in {"failed", "cancelled"}
=============================================================================
