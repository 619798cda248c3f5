------------------------------- MODULE MCLocal ------------------------------
(***************************************************************************)
(* Small instances, for TLC, of what goes on on the machine itself: media  *)
(* files and the children that make them, the folders and listings they    *)
(* come from, workflows, secrets and the database file.  The components    *)
(* share no state here, so in a behaviour one of them goes on and the      *)
(* others stay as they begin.                                              *)
(***************************************************************************)
EXTENDS Integers, Sequences, FiniteSetsExt

CONSTANTS
  Components,                         \* those that may be the one that goes on
  w1, f1, f2, c1, t1, t2, x1, x2, o1, o2, e1, e2, n1, n2, n3, r1, r2, p1, p2, j1,
  TransformAttempts, ClaimBound, TransformCrashBound, Meddling,
  Watchers, Recordings, Contents, Targets, Settle, WriteBound, ImportFaults, ManualImports,
  Executions, Captioning, Outputs, Editors, EditBound, TranscribeFaults,
  VaultCalls, ServerCalls, References, CallBound, KeyBound, VaultCrashBound,
  Migrators, Latest, RowBound, UpgradeCrashBound,
  CommitBound, RestoreBound, RestoreCrashBound,
  ChildJobs, Transcriptions, Concurrency, ChildAttempts, CloseBound,
  Drafts, Offers, Requests, ActBound,
  ModelCalls, ModelFaults,
  Clips, ClipPage, Overlap, Latency, CallTicks, Horizon,
  StepTypes, OutputTypes, SourceTypes, Images, StepBound,
  ObsFaults, HintBound,
  Installers, Versions, MayRefuse, InstallFaults

VARIABLES
  component,  \* the one that goes on
  derivative, transform, claims, files, source, works, serving, deaths, removed,
  disk, cursors, assets, jobsMade, enabled, scan, manual, faults, imports, overlapped,
  transcript, opened, transcribe, inference, execution, outputs, captions, troubles,
  vault, keyFile, legacyCopy, calls, memo, asked, values, keys, recovering, vaultCrashes,
  applied, rows, file, copies, migrator, initial, upgradeCrashes,
  damaged, old, new, fresh, copy, export, server, command, displaced, due, restores,
  restoreCrashes,
  closing, work, handlers, child, awaited, polling, scanning, closes,
  draft, workflow, planRun, published,
  form, touched, loaded, applying, sending, workflows, acts,
  target, manifest, downloading, partial, modelCalls, installed, modelFaults,
  now, created, cursor, request, seen, polled,
  plan, media,
  sockets, current, connecting, reconnect, stopped, refused, requested, running, unseen, hints,
  targets, currentManifest, installs, activated, moving, installFaults

Transforms == INSTANCE TransformCache
Watching == INSTANCE WatchedFolder
Captions == INSTANCE Transcription
Vault == INSTANCE SecretVault
Upgrade == INSTANCE SchemaUpgrade
Restore == INSTANCE DatabaseRestore
Lifetime == INSTANCE ServerLifetime
Workflows == INSTANCE WorkflowPlan WITH execution <- planRun
Forms == INSTANCE WorkflowForm
Models == INSTANCE ModelManager WITH calls <- modelCalls
ClipSource == INSTANCE ClipPolling
Recipes == INSTANCE TransformPlan
Parts == INSTANCE TransformPlan WITH StepTypes <- {}, OutputTypes <- {}, SourceTypes <- {}
Obs == INSTANCE ObsTrigger
Whisper == INSTANCE WhisperInstallation WITH manifest <- currentManifest

transformVars == <<derivative, transform, claims, files, source, works, serving, deaths, removed>>
watchVars == <<disk, cursors, assets, jobsMade, enabled, scan, manual, faults, imports, overlapped>>
transcriptionVars ==
  <<transcript, opened, transcribe, inference, execution, outputs, captions, troubles>>
vaultVars ==
  <<vault, keyFile, legacyCopy, calls, memo, asked, values, keys, recovering, vaultCrashes>>
upgradeVars == <<applied, rows, file, copies, migrator, initial, upgradeCrashes>>
restoreVars == <<damaged, old, new, fresh, copy, export, server, command, displaced, due,
                 restores, restoreCrashes>>
lifetimeVars == <<closing, work, handlers, child, awaited, polling, scanning, closes>>
workflowVars == <<draft, workflow, planRun, published>>
formVars == <<form, touched, loaded, applying, sending, workflows, acts>>
modelVars == <<target, manifest, downloading, partial, modelCalls, installed, modelFaults>>
clipVars == <<now, created, cursor, request, seen, polled>>
recipeVars == <<plan, media>>
obsVars == <<sockets, current, connecting, reconnect, stopped, refused, requested, running,
             unseen, hints>>
whisperVars == <<targets, currentManifest, installs, activated, moving, installFaults>>
mediaVars == <<transformVars, watchVars, transcriptionVars, lifetimeVars, obsVars>>
storageVars == <<vaultVars, upgradeVars, restoreVars, whisperVars>>
otherVars == <<workflowVars, formVars, modelVars, clipVars, recipeVars>>
localVars == <<component, mediaVars, storageVars, otherVars>>

\* Definitions with every set of at most four edges, three where no diamond
\* fits.
Diamond == <<"source", "transform", "transform", "destination">>
StepLists == {
  <<"source", "transform", "destination", "destination">>,
  <<"destination", "filter", "source">>,
  <<"captions", "source", "destination", "transcription">>}
Edges == {e \in (1..4) \X (1..4) : e[1] # e[2]}
EdgeSets(n) == UNION {kSubset(k, Edges) : k \in 0..n}
AllDrafts ==
  [steps : {Diamond}, edges : EdgeSets(4)] \cup [steps : StepLists, edges : EdgeSets(3)]
\* What an installation may offer to a preset, and the requests of a script.
AllOffers == {
  [destinations |-> {"youtube", "instagram"}, clips |-> TRUE, ffmpeg |-> TRUE],
  [destinations |-> {"tiktok"}, clips |-> FALSE, ffmpeg |-> TRUE]}
Filtered(rights) == [retention |-> "keep_forever", duration |-> "absent", filter |-> TRUE, rights |-> rights]
Script(account, destinations, remote, definition) ==
  [folder |-> remote = {}, account |-> account, title |-> "source", destinations |-> destinations,
   remote |-> remote, definition |-> definition]
On(to) == [to |-> to, chosen |-> TRUE, feed |-> "absent"]
Wrong == [steps |-> <<[kind |-> "source", remote |-> TRUE, folder |-> {}], [kind |-> "filter"],
                      [kind |-> "destination", destination |-> On("tiktok")]>>,
          edges |-> {<<1, 2>>}]
AllRequests == {
  Script(TRUE, {}, {}, {}), Script(TRUE, {}, {Filtered("no")}, {}),
  Script(TRUE, {<<On("tiktok")>>}, {}, {}), Script(FALSE, {<<On("tiktok")>>}, {Filtered("absent")}, {}),
  Script(FALSE, {<<On("youtube"), On("tiktok")>>}, {}, {}), Script(FALSE, {}, {}, {}),
  Script(FALSE, {<<On("tiktok")>>}, {Filtered("yes")}, {Wrong})}
AnyDraft == [steps |-> <<"destination", "filter", "source">>, edges |-> {}]

\* Steps of a recipe, one of them refused, and media with and without sound.
Steps == {
  Parts!Trim(1, "end", 3), Parts!Trim(0, "duration", 2), Parts!Fit("contain", 4, 2),
  Parts!Fit("crop", 2, 3), Parts!Audio("normalize"), Parts!Audio("remove"),
  Parts!Watermark(n1), Parts!Watermark(n2),
  Parts!Caption(t1, "burn-in"), Parts!Caption(t2, "sidecar")}
Profiles == {Parts!Output(TRUE, {}, {}, {}), Parts!Output(FALSE, {2}, {4}, {1})}
Sources == {[width |-> 6, height |-> 3, audio |-> TRUE, rate |-> 2, length |-> 3],
            [width |-> 2, height |-> 4, audio |-> FALSE, rate |-> 1, length |-> 5]}
OtherRecipe == <<Parts!Output(TRUE, {}, {}, {}),
                 [width |-> 2, height |-> 4, audio |-> FALSE, rate |-> 1, length |-> 5]>>

-----------------------------------------------------------------------------
(* What the proofs of LocalProofs assume of the bounds and the sets.  The   *)
(* bounds cap counters, so they are numbers; the rest is said of the code.  *)

ASSUME TransformsAssumption ==
  TransformAttempts \in Nat /\ ClaimBound \in Nat /\ TransformCrashBound \in Nat

\* The texts of a transcript that no editor wrote have names of their own.
ASSUME CaptionsAssumption ==
  EditBound \in Nat /\ TranscribeFaults \in Nat /\ {"none", "generated"} \cap Editors = {}

\* A job may be attempted at all (maxAttempts is at least 1).
ASSUME LifetimeAssumption == ChildAttempts \in Nat \ {0} /\ CloseBound \in Nat

\* Somebody opens the database, there is a migration to apply, and the tables
\* that a migration rewrites can have rows.
ASSUME UpgradeAssumption ==
  /\ IsFiniteSet(Migrators) /\ Migrators # {}
  /\ Latest \in Nat \ {0} /\ RowBound \in Nat \ {0} /\ UpgradeCrashBound \in Nat

\* The two commits that a database begins with are within the bound.
ASSUME RestoreAssumption ==
  CommitBound \in Nat \ {0, 1} /\ RestoreBound \in Nat /\ RestoreCrashBound \in Nat

ASSUME ModelsAssumption == ModelFaults \in Nat

\* A clip is listed, and asked for, within the overlap of two windows:
\* TwitchSourceAdapter relies on it.
ASSUME ClipsAssumption ==
  /\ ClipPage \in Nat
  /\ Latency \in Nat /\ CallTicks \in Nat /\ Overlap \in Nat /\ Horizon \in Nat
  /\ Latency + CallTicks <= Overlap

ASSUME ObsAssumption == ObsFaults \in Nat /\ HintBound \in Nat

\* "none" stands for a current.json that is not there.
ASSUME WhisperAssumption == InstallFaults \in Nat /\ "none" \notin Versions

ASSUME WatchingAssumption ==
  Settle \in Nat /\ WriteBound \in Nat /\ ImportFaults \in Nat /\ ManualImports \in Nat

\* A vault is opened with some key.
ASSUME VaultAssumption ==
  /\ IsFiniteSet(VaultCalls)
  /\ CallBound \in Nat /\ KeyBound \in Nat \ {0} /\ VaultCrashBound \in Nat

\* What the schema of a recipe lets pass, and what ffprobe tells of the media.  A
\* limit is at most one value, and a picture has a size.
ASSUME RecipesAssumption ==
  /\ StepBound \in Nat
  /\ \A s \in StepTypes :
       \/ /\ s.type = "trim" /\ s.until \in {"none", "end", "duration"}
          /\ s.start \in Nat /\ s.ms \in Nat
       \/ s.type = "fit" /\ s.width \in Nat /\ s.height \in Nat
       \/ s.type \in {"audio", "watermark", "captions"}
  /\ \A o \in OutputTypes :
       /\ o.aac \in BOOLEAN
       /\ \A limit \in {o.width, o.height, o.rate} :
            limit \subseteq Nat /\ \A m, n \in limit : m = n
  /\ SourceTypes \subseteq [width : Nat \ {0}, height : Nat \ {0}, audio : BOOLEAN,
                             rate : Nat, length : Nat]

\* The steps of a definition are of the kinds that the schema knows, in any order
\* and number.
ASSUME WorkflowsAssumption == \A d \in Drafts : d.steps \in Seq(Workflows!Kinds)

\* What a script posts has passed the schema of the request.
ASSUME FormsAssumption ==
  /\ ActBound \in Nat
  /\ \A v \in Requests :
       /\ v.destinations \subseteq Seq(Forms!Destination)
       /\ v.remote \subseteq [retention : Forms!Retentions, duration : Forms!Durations \cup {"absent"},
                              filter : BOOLEAN, rights : {"yes", "no", "absent"}]

-----------------------------------------------------------------------------
\* A component that does not go on has one beginning.
LocalInit ==
  /\ component \in Components
  /\ Transforms!TransformInit /\ Watching!WatchInit /\ Captions!TranscriptionInit
  /\ Lifetime!LifetimeInit /\ Models!ModelInit /\ ClipSource!ClipInit
  /\ Vault!VaultInit /\ (component # "vault" => keys = 0)
  /\ IF component = "upgrade" THEN Upgrade!UpgradeInit
     ELSE Upgrade!UpgradeInit /\ applied[1] = 0
  /\ Restore!RestoreInit /\ (component # "restore" => ~damaged /\ export.file = "none")
  /\ IF component = "workflow" THEN Workflows!WorkflowInit
     ELSE Workflows!WorkflowInitOf(AnyDraft)
  /\ Forms!FormInit /\ Obs!ObsInit /\ Whisper!InstallInit
  /\ component # "form" => workflows = <<>>
  /\ IF component = "recipe" THEN Recipes!PlanInit
     ELSE Recipes!PlanInit /\ <<plan.output, media>> = OtherRecipe

Media ==
  /\ UNCHANGED <<component, storageVars, otherVars>>
  /\ \/ component = "transform" /\ Transforms!TransformNext
        /\ UNCHANGED <<watchVars, transcriptionVars, lifetimeVars, obsVars>>
     \/ component = "watch" /\ Watching!WatchNext
        /\ UNCHANGED <<transformVars, transcriptionVars, lifetimeVars, obsVars>>
     \/ component = "transcription" /\ Captions!TranscriptionNext
        /\ UNCHANGED <<transformVars, watchVars, lifetimeVars, obsVars>>
     \/ component = "lifetime" /\ Lifetime!LifetimeNext
        /\ UNCHANGED <<transformVars, watchVars, transcriptionVars, obsVars>>
     \/ component = "obs" /\ Obs!ObsNext
        /\ UNCHANGED <<transformVars, watchVars, transcriptionVars, lifetimeVars>>
Storage ==
  /\ UNCHANGED <<component, mediaVars, otherVars>>
  /\ \/ component = "vault" /\ Vault!VaultNext
        /\ UNCHANGED <<upgradeVars, restoreVars, whisperVars>>
     \/ component = "upgrade" /\ Upgrade!UpgradeNext
        /\ UNCHANGED <<vaultVars, restoreVars, whisperVars>>
     \/ component = "restore" /\ Restore!RestoreNext
        /\ UNCHANGED <<vaultVars, upgradeVars, whisperVars>>
     \/ component = "whisper" /\ Whisper!InstallNext
        /\ UNCHANGED <<vaultVars, upgradeVars, restoreVars>>
Other ==
  /\ UNCHANGED <<component, mediaVars, storageVars>>
  /\ \/ component = "workflow" /\ Workflows!WorkflowNext
        /\ UNCHANGED <<formVars, modelVars, clipVars, recipeVars>>
     \/ component = "form" /\ Forms!FormNext
        /\ UNCHANGED <<workflowVars, modelVars, clipVars, recipeVars>>
     \/ component = "models" /\ Models!ModelNext
        /\ UNCHANGED <<workflowVars, formVars, clipVars, recipeVars>>
     \/ component = "clips" /\ ClipSource!ClipNext
        /\ UNCHANGED <<workflowVars, formVars, modelVars, recipeVars>>
     \/ component = "recipe" /\ Recipes!PlanNext
        /\ UNCHANGED <<workflowVars, formVars, modelVars, clipVars>>
LocalNext == Media \/ Storage \/ Other

\* The fairness of TransformSpec, WatchSpec, TranscriptionSpec, LifetimeSpec
\* and ObsSpec, of the component that goes on.
LocalFairness ==
  /\ WF_transformVars(component = "transform" /\ Transforms!HandlerStep)
  /\ WF_transformVars(component = "transform" /\ \E v \in works : Transforms!Heartbeat(v))
  /\ WF_transformVars(component = "transform" /\ Transforms!Boot)
  /\ WF_watchVars(component = "watch" /\ Watching!ScanStep)
  /\ WF_watchVars(component = "watch" /\ Watching!Tick)
  /\ WF_transcriptionVars(component = "transcription" /\ Captions!HandlerStep)
  /\ WF_transcriptionVars(component = "transcription" /\ Captions!RecoverLease)
  /\ \A j \in ChildJobs : WF_lifetimeVars(component = "lifetime" /\ Lifetime!ChildEnds(j))
  /\ WF_lifetimeVars(component = "lifetime" /\ Lifetime!CloseProceeds)
  /\ WF_lifetimeVars(component = "lifetime" /\ Lifetime!PollEnds)
  /\ WF_obsVars(component = "obs" /\ Obs!ObsSettles)
  /\ WF_obsVars(component = "obs" /\ Obs!ScanDone)
  /\ WF_obsVars(component = "obs" /\ Obs!TimerScan)
  /\ WF_obsVars(component = "obs" /\ Obs!TimerScanDone)
LocalSpec == LocalInit /\ [][LocalNext]_localVars /\ LocalFairness

-----------------------------------------------------------------------------
\* Every variable of the component that goes on has its type.
LocalTypeOK ==
  /\ component \in Components
  /\ (component = "transform" => Transforms!TransformTypeOK)
  /\ (component = "watch" => Watching!WatchTypeOK)
  /\ (component = "transcription" => Captions!TranscriptionTypeOK)
  /\ (component = "lifetime" => Lifetime!LifetimeTypeOK)
  /\ (component = "vault" => Vault!VaultTypeOK)
  /\ (component = "upgrade" => Upgrade!UpgradeTypeOK)
  /\ (component = "restore" => Restore!RestoreTypeOK)
  /\ (component = "workflow" => Workflows!WorkflowTypeOK)
  /\ (component = "form" => Forms!FormTypeOK)
  /\ (component = "models" => Models!ModelTypeOK)
  /\ (component = "clips" => ClipSource!ClipTypeOK)
  /\ (component = "recipe" => Recipes!PlanTypeOK)
  /\ (component = "obs" => Obs!ObsTypeOK)
  /\ (component = "whisper" => Whisper!InstallTypeOK)

\* What is said to be on the disk is there: the output of a succeeded
\* derivative (TransformService), the file of an installed model
\* (WhisperModelManager), the whisper.cpp build that current.json names
\* (LocalWhisperCppInstallationStore).
FilesAreThere ==
  /\ Transforms!OutputIsThere /\ Models!InstalledStays
  /\ Whisper!InstallationStays /\ Whisper!PlacesAreWhole

\* Nobody's data is overwritten by somebody who has not seen it: cues that an
\* editor saved (replaceUserEditedCues), secrets beside the one that is set
\* (LocalSecretStore.set and delete).
NothingOverwritten == Captions!EditsSurvive /\ Vault!OtherSecretsKept

\* Work that was begun is finished: a running derivative settles
\* (TransformService), a recording is dispatched (WatchedFolderRunner), a
\* workflow goes on after its transcription (resumeAfterTranscription), the
\* trigger comes back to OBS and its events are followed by scans
\* (ObsWebSocketFolderScanTrigger).
WorkGoesOn ==
  /\ Transforms!DerivativeSettles
  /\ Watching!RecordingsAreDispatched
  /\ Captions!ContinuationResumes
  /\ (component = "obs" => Obs!Reconnects)
  /\ Obs!HintsAreScanned

\* A source is taken in whole and once: no clip of an overlapping window is
\* missed that fits in a page (TwitchSourceAdapter), no recording is dispatched twice
\* (WatchedFolderRunner).
IntakeIsExact == ClipSource!ClipsArrive /\ Watching!DispatchedOnce

\* A job that succeeds has done what the jobs it releases rely on: a transform job
\* has left its file for the publish jobs that wait for it (transform handler of
\* media/transform-runner.ts), a transcription that succeeded has resumed its
\* workflow (resumeAfterTranscription).
SuccessIsEarned == Transforms!ReleasedWithOutput /\ []Captions!SuccessResumed

\* close() ends and leaves nothing behind that uses the database but, perhaps, a
\* scan of the watched folders (apps/server/src/index.ts), nor a connection to
\* OBS (ObsWebSocketFolderScanTrigger.stop).
CloseIsClean == Lifetime!CloseIsClean /\ []Obs!StoppedIsQuiet

\* The files the program cannot rebuild stay readable through crashes: the
\* secret vault with its key, the database through upgrades and restores, unless
\* a server wrote its log while a restore copied the file (copyFile).
DataIsRecoverable ==
  /\ Vault!VaultReadable
  /\ Upgrade!UpgradeIsRecoverable
  /\ Restore!RestoreIsRecoverable

\* What a user defines is what is stored: a workflow is a route from its source to
\* its destinations (validateWorkflowDefinition); what the editor makes of a form
\* is accepted, stored and read back as it was shown (workflow-editor.tsx,
\* WorkflowService, SqliteWorkflowRepository).
DefinitionsHold ==
  /\ (component = "workflow" => Workflows!StoredIsRoute)
  /\ (component = "form" => Forms!FormIsStored)

\* A recipe compiles to a command that renders its steps in their order and
\* passes the handler's examination, unless its trims leave nothing
\* (compileTransformCommand, TransformJobHandler).
RecipesRender == component = "recipe" => Recipes!PlanRenders

-----------------------------------------------------------------------------
(* What the documentation says and the code does not do.                   *)

\* "A workflow snapshots its continuation into a durable transcription job,
\* then resumes the same immutable plan" (docs/progress/v0.7.md).
EveryWaiterResumes == Captions!EveryWaiterResumes
=============================================================================
