---------------------------- MODULE ModelManager ----------------------------
(***************************************************************************)
(* LocalWhisperModelManager: downloading, verifying and deleting one model *)
(* of the catalog, in one process.  A download fills a partial file under  *)
(* a random name and renames it once its checksum is right; the manifest   *)
(* next to the model follows.  Every step is one stretch between awaits.   *)
(***************************************************************************)
EXTENDS Naturals

CONSTANTS
  ModelCalls,     \* bound: calls in flight
  ModelFaults     \* bound: restarts, and damage done to the file from outside

VARIABLES
  target,      \* ggml-model.bin
  manifest,    \* is there a model.json
  downloading, \* the entry of the model in 'active'
  partial,     \* is the partial file of the download there
  calls,       \* what each call does next
  installed,   \* the last answer was an installed model, and nobody deleted it
  modelFaults

modelVars == <<target, manifest, downloading, partial, calls, installed, modelFaults>>

ModelTypeOK ==
  /\ target \in {"none", "good", "bad"}
  /\ {manifest, downloading, partial, installed} \subseteq BOOLEAN
  /\ calls \in [ModelCalls -> {"idle", "check", "clear", "clearManifest", "fetch", "rename",
                               "describe", "verify", "describeVerified", "remove"}]
  /\ modelFaults \in 0..ModelFaults

ModelInit ==
  /\ target = "none" /\ manifest = FALSE
  /\ downloading = FALSE /\ partial = FALSE
  /\ calls = [c \in ModelCalls |-> "idle"]
  /\ installed = FALSE /\ modelFaults = 0

Step(c, next) == calls' = [calls EXCEPT ![c] = next]
Fails(c) ==
  /\ Step(c, "idle") /\ downloading' = FALSE /\ partial' = FALSE
  /\ UNCHANGED <<target, manifest, installed, modelFaults>>

-----------------------------------------------------------------------------
\* download(): a second call gets the promise of the first.
Download(c) ==
  /\ calls[c] = "idle" /\ ~downloading
  /\ downloading' = TRUE /\ Step(c, "check")
  /\ UNCHANGED <<target, manifest, partial, installed, modelFaults>>

\* performDownload: a model that is there is checked, and a bad one removed.
CheckTarget(c) ==
  /\ calls[c] = "check"
  /\ Step(c, CASE target = "none" -> "fetch" [] target = "good" -> "describe"
               [] target = "bad" -> "clear")
  /\ UNCHANGED <<target, manifest, downloading, partial, installed, modelFaults>>
ClearTarget(c) ==
  /\ calls[c] = "clear"
  /\ target' = "none" /\ Step(c, "clearManifest")
  /\ UNCHANGED <<manifest, downloading, partial, installed, modelFaults>>
ClearManifest(c) ==
  /\ calls[c] = "clearManifest"
  /\ manifest' = FALSE /\ Step(c, "fetch")
  /\ UNCHANGED <<target, downloading, partial, installed, modelFaults>>
\* Every byte is there and the checksum is right.
Fetched(c) ==
  /\ calls[c] = "fetch"
  /\ partial' = TRUE /\ Step(c, "rename")
  /\ UNCHANGED <<target, manifest, downloading, installed, modelFaults>>
\* No disk space, no answer, a broken transfer, a wrong checksum.
DownloadFails(c) == calls[c] \in {"check", "fetch"} /\ Fails(c)
\* The rename fails when the directory was deleted meanwhile.
Install(c) ==
  /\ calls[c] = "rename"
  /\ \/ /\ partial
        /\ target' = "good" /\ partial' = FALSE /\ Step(c, "describe")
        /\ UNCHANGED <<manifest, downloading, installed, modelFaults>>
     \/ ~partial /\ Fails(c)
\* writeManifest, and the view the caller gets.
Describe(c) ==
  /\ calls[c] \in {"describe", "describeVerified"}
  /\ manifest' = TRUE
  /\ installed' = (target # "none")
  /\ downloading' = (downloading /\ calls[c] # "describe") /\ Step(c, "idle")
  /\ UNCHANGED <<target, partial, modelFaults>>

\* verify(): the checksum of what is there
VerifyModel(c) ==
  /\ calls[c] = "idle" /\ target # "none"
  /\ Step(c, IF target = "good" THEN "describeVerified" ELSE "idle")
  /\ UNCHANGED <<target, manifest, downloading, partial, installed, modelFaults>>

\* delete(): refused while a download is under way, as far as it is known yet
DeleteModel(c) ==
  /\ calls[c] = "idle" /\ ~downloading
  /\ Step(c, "remove")
  /\ UNCHANGED <<target, manifest, downloading, partial, installed, modelFaults>>
RemoveModel(c) ==
  /\ calls[c] = "remove"
  /\ target' = "none" /\ manifest' = FALSE /\ partial' = FALSE /\ installed' = FALSE
  /\ Step(c, "idle")
  /\ UNCHANGED <<downloading, modelFaults>>

\* The process restarts; the file is damaged on disk.
RestartManager ==
  /\ modelFaults < ModelFaults /\ modelFaults' = modelFaults + 1
  /\ calls' = [c \in ModelCalls |-> "idle"] /\ downloading' = FALSE /\ partial' = FALSE
  /\ UNCHANGED <<target, manifest, installed>>
DamageModel ==
  /\ modelFaults < ModelFaults /\ modelFaults' = modelFaults + 1
  /\ target # "none" /\ target' = "bad" /\ installed' = FALSE
  /\ \A c \in ModelCalls : calls[c] \notin {"describe", "describeVerified"}
  /\ UNCHANGED <<manifest, downloading, partial, calls>>

ModelNext ==
  \/ \E c \in ModelCalls :
       \/ Download(c) \/ CheckTarget(c) \/ ClearTarget(c) \/ ClearManifest(c) \/ Fetched(c)
       \/ DownloadFails(c) \/ Install(c) \/ Describe(c) \/ VerifyModel(c)
       \/ DeleteModel(c) \/ RemoveModel(c)
  \/ RestartManager \/ DamageModel
ModelSpec == ModelInit /\ [][ModelNext]_modelVars

-----------------------------------------------------------------------------
\* A model the caller was told is installed has the published checksum until
\* somebody deletes or damages it: no download or verification under way
\* replaces it by less, whatever they found when they began.
InstalledStays == installed => target = "good"
=============================================================================
