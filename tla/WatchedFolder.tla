--------------------------- MODULE WatchedFolder ----------------------------
(***************************************************************************)
(* Local ingestion: WatchedFolderRunner scans the folders of the enabled   *)
(* workflows and keeps a cursor per workflow and file, MediaImportService  *)
(* registers the media by content, WorkflowService.executeWatchedMedia     *)
(* creates a publish job per destination.  An import over HTTP may run     *)
(* between the awaits of a scan.  A file is known by what it contains and  *)
(* by its signature (size and modification time), which every write        *)
(* changes.  Scans are asked for by a timer and by OBS.                    *)
(***************************************************************************)
EXTENDS Integers, FiniteSets

CONSTANTS
  Watchers,       \* workflows watching the one folder
  Recordings,     \* files in the folder
  Contents,       \* what a file can contain
  Targets,        \* destinations of each workflow
  Settle,         \* ticks a file must stay unchanged (settleMs)
  WriteBound,     \* bound: writes into the folder
  ImportFaults,   \* bound: scans that fail to import a file, and crashes
  ManualImports   \* bound: imports over HTTP

VARIABLES
  disk,      \* what each file contains and its signature
  cursors,   \* source_cursors: by workflow and file
  assets,    \* media_assets: number and content
  jobsMade,  \* publish jobs: <<workflow, media, destination>>
  enabled,   \* enabled workflows
  scan,      \* the scan under way
  manual,    \* the import over HTTP under way
  faults, imports, overlapped

watchVars ==
  <<disk, cursors, assets, jobsMade, enabled, scan, manual, faults, imports, overlapped>>

NoContent == "none"
NoCursor == [state |-> "none", signature |-> 0, age |-> 0]
NoScan == [at |-> "idle"]
NoImport == [at |-> "idle"]
Visits == Watchers \X Recordings

WatchTypeOK ==
  /\ disk \in [Recordings -> [content : Contents \cup {NoContent}, signature : 0..WriteBound]]
  /\ cursors \in [Visits -> [state : {"none", "pending", "processed"},
                             signature : 0..WriteBound, age : 0..Settle]]
  /\ \A a \in assets : a[1] \in 1..Cardinality(assets) /\ a[2] \in Contents
  /\ jobsMade \subseteq Watchers \X (1..Cardinality(assets)) \X Targets
  /\ enabled \subseteq Watchers
  /\ scan.at \in {"idle", "stat", "inspect", "probe", "metadata"}
  /\ manual.at \in {"idle", "probe"}
  /\ faults \in 0..ImportFaults /\ imports \in 0..ManualImports /\ overlapped \in BOOLEAN

WatchInit ==
  /\ disk = [f \in Recordings |-> [content |-> NoContent, signature |-> 0]]
  /\ cursors = [v \in Visits |-> NoCursor]
  /\ assets = {} /\ jobsMade = {} /\ enabled = Watchers
  /\ scan = NoScan /\ manual = NoImport
  /\ faults = 0 /\ imports = 0 /\ overlapped = FALSE

-----------------------------------------------------------------------------
(* MediaImportService.import                                               *)

\* Seeded fault: findByFingerprint is not asked.
NothingKnown(c) == {}

\* findByFingerprint: one of the rows of that content
Known(c) == {a[1] : a \in {b \in assets : b[2] = c}}

NewAsset == Cardinality(assets) + 1
Created(c) == assets' = assets \cup {<<NewAsset, c>>}

ManualImport(c) ==
  /\ manual = NoImport /\ imports < ManualImports
  /\ imports' = imports + 1
  /\ \E f \in Recordings : disk[f].content = c
  /\ IF Known(c) # {} THEN UNCHANGED <<manual, overlapped>>
     ELSE /\ manual' = [at |-> "probe", content |-> c]
          /\ overlapped' = (overlapped \/ (scan.at = "probe" /\ scan.content = c))
  /\ UNCHANGED <<disk, cursors, assets, jobsMade, enabled, scan, faults>>
ManualImported ==
  /\ manual.at = "probe"
  /\ Created(manual.content)
  /\ manual' = NoImport
  /\ UNCHANGED <<disk, cursors, jobsMade, enabled, scan, faults, imports, overlapped>>

-----------------------------------------------------------------------------
(* WatchedFolderRunner.scan.  At most one scan runs; every visit reads the *)
(* file anew.                                                              *)

Scanned == IF scan.todo = {} THEN NoScan ELSE [at |-> "stat", todo |-> scan.todo]
CursorOf(v, state, signature, age) ==
  cursors' = [cursors EXCEPT ![v] = [state |-> state, signature |-> signature, age |-> age]]

\* The poll timer, or a hint of OBS; at most one scan at a time.
BeginScan ==
  /\ scan = NoScan /\ enabled # {}
  /\ scan' = [at |-> "stat", todo |-> enabled \X Recordings]
  /\ UNCHANGED <<disk, cursors, assets, jobsMade, enabled, manual, faults, imports, overlapped>>

Settled(v) == cursors[v].age >= Settle

\* stat and the cursor: a changed file is observed anew, a processed or an
\* unsettled one is passed over, the others are imported.
Stat(v) ==
  LET d == disk[v[2]]
      left == scan.todo \ {v}
      next == IF left = {} THEN NoScan ELSE [at |-> "stat", todo |-> left]
  IN
  /\ scan.at = "stat" /\ v \in scan.todo
  /\ IF d.content = NoContent THEN scan' = next /\ UNCHANGED cursors
     ELSE IF cursors[v].state = "none" \/ cursors[v].signature # d.signature
     THEN scan' = next /\ CursorOf(v, "pending", d.signature, 0)
     ELSE IF cursors[v].state = "processed" \/ ~Settled(v)
     THEN scan' = next /\ UNCHANGED cursors
     ELSE /\ scan' = [at |-> "inspect", todo |-> left, visit |-> v, signature |-> d.signature]
          /\ UNCHANGED cursors
  /\ UNCHANGED <<disk, assets, jobsMade, enabled, manual, faults, imports, overlapped>>

\* The file is hashed and looked up; only unknown content is probed.
Inspect ==
  LET c == disk[scan.visit[2]].content IN
  /\ scan.at = "inspect"
  /\ \/ /\ c # NoContent /\ Known(c) # {}
        /\ \E a \in Known(c) :
             scan' = [at |-> "metadata", todo |-> scan.todo, visit |-> scan.visit,
                      signature |-> scan.signature, media |-> a]
        /\ UNCHANGED overlapped
     \/ /\ c # NoContent /\ Known(c) = {}
        /\ scan' = [at |-> "probe", todo |-> scan.todo, visit |-> scan.visit,
                    signature |-> scan.signature, content |-> c]
        /\ overlapped' = (overlapped \/ (manual.at = "probe" /\ manual.content = c))
     \/ c = NoContent /\ scan' = Scanned /\ UNCHANGED overlapped
  /\ UNCHANGED <<disk, cursors, assets, jobsMade, enabled, manual, faults, imports>>

Probe ==
  /\ scan.at = "probe"
  /\ Created(scan.content)
  /\ scan' = [at |-> "metadata", todo |-> scan.todo, visit |-> scan.visit,
              signature |-> scan.signature, media |-> NewAsset]
  /\ UNCHANGED <<disk, cursors, jobsMade, enabled, manual, faults, imports, overlapped>>

\* Locked, unreadable or no media: the cursor stays pending.
ImportFails ==
  /\ scan.at \in {"inspect", "probe", "metadata"} /\ faults < ImportFaults
  /\ faults' = faults + 1
  /\ scan' = Scanned
  /\ UNCHANGED <<disk, cursors, assets, jobsMade, enabled, manual, imports, overlapped>>

\* executeWatchedMedia: jobs.create for each destination, by its idempotency
\* key; nothing for a workflow that is disabled by now.
Dispatched(w, media, targets) ==
  jobsMade' = IF w \in enabled THEN jobsMade \cup ({w} \X {media} \X targets) ELSE jobsMade

\* The workflow is executed and the file is done with.
Execute ==
  LET v == scan.visit IN
  /\ scan.at = "metadata"
  /\ Dispatched(v[1], scan.media, Targets)
  /\ CursorOf(v, "processed", scan.signature, cursors[v].age)
  /\ scan' = Scanned
  /\ UNCHANGED <<disk, assets, enabled, manual, faults, imports, overlapped>>

-----------------------------------------------------------------------------
(* Around it: files are written, time passes, workflows are switched, the  *)
(* server dies, also between two of the statements of Execute.             *)

\* The signature of the last write.
writes == CHOOSE n \in 0..WriteBound : /\ \E f \in Recordings : disk[f].signature = n
                                      /\ \A f \in Recordings : disk[f].signature <= n
Write(f, c) ==
  /\ writes < WriteBound /\ (c = NoContent => disk[f].content # NoContent)
  /\ disk' = [disk EXCEPT ![f] = [content |-> c, signature |-> writes + 1]]
  /\ UNCHANGED <<cursors, assets, jobsMade, enabled, scan, manual, faults, imports,
                 overlapped>>
Tick ==
  /\ \E v \in Visits : cursors[v].state = "pending" /\ cursors[v].age < Settle
  /\ cursors' = [v \in Visits |->
       IF cursors[v].state = "pending" /\ cursors[v].age < Settle
       THEN [cursors[v] EXCEPT !.age = @ + 1] ELSE cursors[v]]
  /\ UNCHANGED <<disk, assets, jobsMade, enabled, scan, manual, faults, imports, overlapped>>
Switch(w) ==
  /\ enabled' = IF w \in enabled THEN enabled \ {w} ELSE enabled \cup {w}
  /\ UNCHANGED <<disk, cursors, assets, jobsMade, scan, manual, faults, imports, overlapped>>
Die ==
  /\ faults < ImportFaults /\ faults' = faults + 1
  /\ \/ scan.at = "metadata"
        /\ \E made \in SUBSET Targets : Dispatched(scan.visit[1], scan.media, made)
     \/ UNCHANGED jobsMade
  /\ scan' = NoScan /\ manual' = NoImport
  /\ UNCHANGED <<disk, cursors, assets, enabled, imports, overlapped>>

ScanStep == BeginScan \/ (\E v \in Visits : Stat(v)) \/ Inspect \/ Probe \/ Execute

WatchNext ==
  \/ ScanStep \/ ImportFails \/ Tick \/ Die
  \/ \E c \in Contents : ManualImport(c)
  \/ \E f \in Recordings : \E c \in Contents \cup {NoContent} : Write(f, c)
  \/ ManualImported
  \/ \E w \in Watchers : Switch(w)

\* The poll timer fires, the awaits of a scan end, time passes.
WatchSpec == WatchInit /\ [][WatchNext]_watchVars /\ WF_watchVars(ScanStep) /\ WF_watchVars(Tick)

-----------------------------------------------------------------------------
JobsFor(w, c) == {j \in jobsMade : j[1] = w /\ <<j[2], c>> \in assets}

\* A recording that stays in the folder of a workflow that stays enabled gets
\* its publish jobs, all of them, through failed imports and crashes between
\* import, dispatch and cursor ("cursor rows make restarts idempotent").
RecordingsAreDispatched ==
  \A w \in Watchers : \A f \in Recordings : \A c \in Contents :
    [](w \in enabled) /\ <>[](disk[f].content = c)
      => <>({j[3] : j \in JobsFor(w, c)} = Targets)

\* One content is dispatched once per workflow and destination, under whatever
\* file names and however often a scan is repeated; only a manual import of the
\* very content while a scan probes it registers a second medium.
DispatchedOnce ==
  overlapped \/ \A w \in Watchers : \A c \in Contents : \A t \in Targets :
    Cardinality({j \in JobsFor(w, c) : j[3] = t}) <= 1
=============================================================================
