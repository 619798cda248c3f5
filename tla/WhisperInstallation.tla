------------------------ MODULE WhisperInstallation -------------------------
(***************************************************************************)
(* LocalWhisperCppInstallationStore.install: a prepared whisper.cpp build  *)
(* is copied into the directory of its version and current.json is made to *)
(* name it, by several calls that may run at once; and                     *)
(* discoverWhisperCppExecutable, which a server asks when it starts.       *)
(* Where a file that is in use cannot be replaced, current.json is moved   *)
(* aside first.                                                            *)
(***************************************************************************)
EXTENDS Integers, FiniteSets

CONSTANTS
  Installers,      \* calls of install
  Versions,        \* versions to install
  MayRefuse,       \* a rename may be refused because its target exists
  InstallFaults    \* bound: failed copies, refused renames, crashes

VARIABLES
  targets,     \* what is in installations/<version>
  manifest,    \* the version current.json names
  installs,    \* the calls: version and next step
  activated,   \* the version of the last call that returned
  moving,      \* a process died while current.json was moved aside
  installFaults

installVars == <<targets, manifest, installs, activated, moving, installFaults>>

NoVersion == "none"
Steps == {"idle", "look", "copy", "place", "probe", "activate", "aside", "replace", "putback"}

InstallTypeOK ==
  /\ targets \in [Versions -> {"none", "partial", "complete"}]
  /\ {manifest, activated} \subseteq Versions \cup {NoVersion}
  /\ installs \in [Installers ->
       [at : Steps, version : Versions \cup {NoVersion}, previous : Versions \cup {NoVersion}]]
  /\ moving \in BOOLEAN /\ installFaults \in 0..InstallFaults

Resting == [at |-> "idle", version |-> NoVersion, previous |-> NoVersion]

InstallInit ==
  /\ targets = [v \in Versions |-> "none"]
  /\ manifest = NoVersion /\ activated = NoVersion /\ moving = FALSE
  /\ installs = [i \in Installers |-> Resting]
  /\ installFaults = 0

-----------------------------------------------------------------------------
At(i, step) == installs[i].at = step
Goes(i, step) == installs' = [installs EXCEPT ![i].at = step]
Throws(i) == installs' = [installs EXCEPT ![i] = Resting]
Fault == installFaults < InstallFaults /\ installFaults' = installFaults + 1
NoFault == UNCHANGED installFaults

\* A build whose executable works is handed in.
Begin(i, v) ==
  /\ At(i, "idle")
  /\ installs' = [installs EXCEPT ![i] = [Resting EXCEPT !.at = "look", !.version = v]]
  /\ NoFault /\ UNCHANGED <<targets, manifest, activated, moving>>

\* A version that has a directory is not copied again.
Look(i) ==
  /\ At(i, "look")
  /\ Goes(i, IF targets[installs[i].version] = "none" THEN "copy" ELSE "probe")
  /\ NoFault /\ UNCHANGED <<targets, manifest, activated, moving>>

\* Seeded fault: the build is copied to where it belongs, file by file.
CopyInPlace(i) ==
  /\ At(i, "copy")
  /\ targets' = [targets EXCEPT ![installs[i].version] = "partial"]
  /\ Goes(i, "place")
  /\ NoFault /\ UNCHANGED <<manifest, activated, moving>>

\* The build is copied into a staging directory of the call and tried there.
Copy(i) ==
  /\ At(i, "copy")
  /\ \/ Goes(i, "place") /\ NoFault
     \/ Throws(i) /\ Fault
  /\ UNCHANGED <<targets, manifest, activated, moving>>

\* The copy is renamed to its place, which another call may have taken.
Place(i) ==
  LET v == installs[i].version IN
  /\ At(i, "place")
  /\ \/ targets[v] = "complete" /\ Throws(i) /\ UNCHANGED targets
     \/ /\ targets[v] # "complete"
        /\ targets' = [targets EXCEPT ![v] = "complete"] /\ Goes(i, "probe")
  /\ NoFault /\ UNCHANGED <<manifest, activated, moving>>

\* The executable in its place is tried; a partial build does not start.
Probe(i) ==
  /\ At(i, "probe")
  /\ IF targets[installs[i].version] = "complete" THEN Goes(i, "activate") ELSE Throws(i)
  /\ NoFault /\ UNCHANGED <<targets, manifest, activated, moving>>

\* current.json names the version of call i, and the call returns.
Activated(i) ==
  /\ manifest' = installs[i].version /\ activated' = installs[i].version
  /\ installs' = [installs EXCEPT ![i] = Resting]

\* The new manifest is renamed to current.json, unless that is refused
\* because of the file that is there, or fails.
Activate(i) ==
  /\ At(i, "activate")
  /\ \/ Activated(i) /\ NoFault
     \/ /\ MayRefuse /\ manifest # NoVersion /\ Fault
        /\ Goes(i, "aside") /\ UNCHANGED <<manifest, activated>>
     \/ Throws(i) /\ Fault /\ UNCHANGED <<manifest, activated>>
  /\ UNCHANGED <<targets, moving>>

\* current.json is moved aside; it may be gone by now, or kept in use.
SetAside(i) ==
  /\ At(i, "aside")
  /\ \/ manifest = NoVersion /\ Throws(i) /\ NoFault /\ UNCHANGED manifest
     \/ /\ manifest # NoVersion /\ NoFault
        /\ installs' = [installs EXCEPT ![i].at = "replace", ![i].previous = manifest]
        /\ manifest' = NoVersion
     \/ manifest # NoVersion /\ Throws(i) /\ Fault /\ UNCHANGED manifest
  /\ UNCHANGED <<targets, activated, moving>>

Replace(i) ==
  /\ At(i, "replace")
  /\ \/ Activated(i) /\ NoFault
     \/ Fault /\ Goes(i, "putback") /\ UNCHANGED <<manifest, activated>>
  /\ UNCHANGED <<targets, moving>>

\* The manifest that was moved aside is put back; refused, it is lost.
PutBack(i) ==
  /\ At(i, "putback")
  /\ \/ manifest' = installs[i].previous /\ NoFault
     \/ MayRefuse /\ manifest # NoVersion /\ Fault /\ UNCHANGED manifest
  /\ Throws(i)
  /\ UNCHANGED <<targets, activated, moving>>

\* The process dies with all its calls.
InstallerDies ==
  /\ \E i \in Installers : ~At(i, "idle")
  /\ Fault
  /\ moving' = (moving \/ \E i \in Installers : installs[i].at \in {"replace", "putback"})
  /\ installs' = [i \in Installers |-> Resting]
  /\ UNCHANGED <<targets, manifest, activated>>

InstallStep(i) ==
  \/ Look(i) \/ Copy(i) \/ Place(i) \/ Probe(i) \/ Activate(i)
  \/ SetAside(i) \/ Replace(i) \/ PutBack(i)
InstallNext ==
  \/ \E i \in Installers : InstallStep(i) \/ \E v \in Versions : Begin(i, v)
  \/ InstallerDies

-----------------------------------------------------------------------------
\* discoverWhisperCppExecutable: the managed candidate, the version that is
\* recorded, if its executable works.
Discovered ==
  IF manifest # NoVersion /\ targets[manifest] = "complete" THEN manifest ELSE NoVersion

\* Once an installation was activated, a server that starts finds one, whole,
\* whatever installs ran side by side or were broken off: only while
\* current.json is moved aside, and after a process died in that moment, is
\* there none.
InstallationStays ==
  activated # NoVersion =>
    \/ Discovered # NoVersion
    \/ moving \/ \E i \in Installers : installs[i].at \in {"replace", "putback"}

\* An interrupted install can be repeated: what is in place is whole, so no
\* version is refused as corrupt for good.
PlacesAreWhole == \A v \in Versions : targets[v] # "partial"
=============================================================================
