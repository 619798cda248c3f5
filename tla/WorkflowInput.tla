---------------------------- MODULE WorkflowInput ----------------------------
(***************************************************************************)
(* What WorkflowService accepts as the definition of a workflow, what it   *)
(* makes of a request to store one, the rows that becomes, and what is     *)
(* read back from them.  The name is there.  An optional field is a set of *)
(* at most one value.                                                      *)
(***************************************************************************)
EXTENDS Naturals, Sequences, FiniteSets

(* A definition is a sequence of steps and the edges between their         *)
(* positions; a step is its kind, which is all the validation orders by.   *)
(* Duplicate step ids and duplicate edges have no counterpart here.        *)

\* workflowStepOrder
StepOrder == [source |-> 0, filter |-> 1, transform |-> 2, transcription |-> 3,
              captions |-> 4, schedule |-> 5, destination |-> 6]
Kinds == DOMAIN StepOrder

Positions(d) == 1..Len(d.steps)
OfKind(d, kind) == {i \in Positions(d) : d.steps[i] = kind}
Into(d, i) == {e \in d.edges : e[2] = i}
OutOf(d, i) == {e \in d.edges : e[1] = i}

-----------------------------------------------------------------------------
(* validateWorkflowDefinition                                              *)

\* Seeded fault: steps of the same kind may follow each other.
OrderedWeakly(d) ==
  \A e \in d.edges : e[1] # e[2] /\ StepOrder[d.steps[e[1]]] <= StepOrder[d.steps[e[2]]]

Ordered(d) ==
  \A e \in d.edges : e[1] # e[2] /\ StepOrder[d.steps[e[1]]] < StepOrder[d.steps[e[2]]]

\* visit(): the steps a walk along the edges finds.
Reachable(d, root) ==
  LET Found[n \in 0..Len(d.steps)] ==
        IF n = 0 THEN {root}
        ELSE Found[n - 1] \cup {e[2] : e \in {x \in d.edges : x[1] \in Found[n - 1]}}
  IN  Found[Len(d.steps)]

Valid(d) ==
  LET Sources == OfKind(d, "source")
      Captions == OfKind(d, "captions")
      Transcribing == OfKind(d, "transcription")
  IN
  /\ Cardinality(Sources) = 1
  /\ OfKind(d, "destination") # {}
  /\ d.edges \subseteq Positions(d) \X Positions(d)
  /\ Ordered(d)
  /\ \A s \in Sources : Into(d, s) = {} /\ Reachable(d, s) = Positions(d)
  /\ \A i \in OfKind(d, "destination") : OutOf(d, i) = {}
  /\ Cardinality(Transcribing) <= 1 /\ Cardinality(Captions) <= 1
  /\ Captions # {} => Transcribing # {}

-----------------------------------------------------------------------------
(* Requests.                                                               *)

Platforms == {"youtube", "tiktok", "instagram", "facebook"}
FolderKinds == {"standard", "obs_recording", "obs_replay_buffer"}
Retentions == {"delete_after_success", "keep_for_duration", "keep_forever"}
\* A duration: shorter than the editor allows, whole seconds, a fraction of one.
Durations == {"short", "whole", "fraction"}
\* A title template: the file's name, the source's title, a variable there is
\* not, or blanks.
Titles == {"file", "source", "unknown", "blank"}

\* One account (or target) of each platform; feed is Instagram's shareToFeed,
\* the other settings go the same way.
Destination == [to : Platforms, chosen : BOOLEAN, feed : {"absent", "yes"}]

\* Steps with what their validation looks at.
SourceStep(remote, kind) ==
  [kind |-> "source", remote |-> remote, folder |-> IF kind = "standard" THEN {} ELSE {kind}]
FilterStep == [kind |-> "filter"]
TransformStep(size, even, fit) == [kind |-> "transform", size |-> size, even |-> even, fit |-> fit]
ScheduleStep(given) == [kind |-> "schedule", given |-> given]
DestinationStep(d) == [kind |-> "destination", destination |-> d]

DestinationSteps(ds) == [i \in DOMAIN ds |-> DestinationStep(ds[i])]
StepsOf(definition, kind) == {s \in {definition.steps[i] : i \in DOMAIN definition.steps} : s.kind = kind}
KindsOf(definition) ==
  [steps |-> [i \in DOMAIN definition.steps |-> definition.steps[i].kind], edges |-> definition.edges]

\* A chain of steps and the destinations after its end.
Fan(chain, destinations) ==
  [steps |-> chain \o DestinationSteps(destinations),
   edges |-> {<<i, i + 1>> : i \in 1..(Len(chain) - 1)}
             \cup {<<Len(chain), Len(chain) + i>> : i \in DOMAIN destinations}]

\* legacyWorkflowDefinition
LegacyDefinition(remote, filter, destinations) ==
  Fan(<<SourceStep(remote, "standard")>> \o (IF filter THEN <<FilterStep>> ELSE <<>>), destinations)

-----------------------------------------------------------------------------
(* validateAndBuild                                                        *)

\* One account of the fields that came before destinations.
LegacyYouTubeDestination == <<[to |-> "youtube", chosen |-> TRUE, feed |-> "absent"]>>
DestinationsOf(v) ==
  IF v.destinations # {} THEN CHOOSE ds \in v.destinations : TRUE
  ELSE IF v.account THEN LegacyYouTubeDestination ELSE <<>>
RemoteFilter(v) == \E r \in v.remote : r.filter
DefinitionOf(v) ==
  IF v.definition # {} THEN CHOOSE d \in v.definition : TRUE
  ELSE LegacyDefinition(v.remote # {}, RemoteFilter(v), DestinationsOf(v))

\* The destination steps of a definition, in their order.
DestinationsAmong(steps) ==
  LET Among[n \in 0..Len(steps)] ==
        IF n = 0 THEN <<>>
        ELSE IF steps[n].kind = "destination" THEN Append(Among[n - 1], steps[n])
        ELSE Among[n - 1]
  IN  Among[Len(steps)]

Duplicates(ds) == \E i, j \in DOMAIN ds : i # j /\ ds[i].to = ds[j].to
\* validateRemoteSource and retentionCleanupAt
BadRetention(r) == r.retention = "keep_for_duration" /\ r.duration = "fraction"
\* The settings of one step, as validateWorkflowDefinition takes them.
BadStep(s) ==
  CASE s.kind = "source" -> s.remote /\ s.folder # {}
    [] s.kind = "transform" -> ~s.even
    [] s.kind = "schedule" -> ~s.given
    [] OTHER -> FALSE

\* Why a request is refused; all that would be, not only what is said first.
Refusals(v) ==
  LET ds == DestinationsOf(v)
      definition == DefinitionOf(v)
      reasons ==
        [source |-> (v.remote = {}) = ~v.folder,
         title |-> v.title = "blank",
         template |-> v.title = "unknown",
         fields |-> v.destinations # {} /\ v.account,
         destinations |-> ds = <<>> \/ \E i \in DOMAIN ds : ~ds[i].chosen,
         duplicate |-> Duplicates(ds),
         retention |-> \E r \in v.remote : BadRetention(r),
         mismatch |-> \/ \A s \in StepsOf(definition, "source") : s.remote # (v.remote # {})
                      \/ DestinationSteps(ds) # DestinationsAmong(definition.steps),
         step |-> \E i \in DOMAIN definition.steps : BadStep(definition.steps[i]),
         route |-> ~Valid(KindsOf(definition))]
  IN {r \in DOMAIN reasons : reasons[r]}

\* The workflow create() answers with.
Built(v) ==
  [folder |-> v.folder, remote |-> v.remote, title |-> v.title,
   destinations |-> DestinationsOf(v), definition |-> DefinitionOf(v)]

-----------------------------------------------------------------------------
(* SqliteWorkflowRepository                                                *)

Row(w) ==
  [folder |-> w.folder, title |-> w.title, definition |-> w.definition,
   destinations |-> w.destinations,
   remote |-> {[retention |-> r.retention, duration |-> r.duration, filter |-> r.filter,
                rights |-> r.rights = "yes"] : r \in w.remote}]
\* workflowFromRow: the destinations and the remote source are rows of their
\* own, the definition is what was stored.
Read(row) ==
  [folder |-> row.folder, title |-> row.title, definition |-> row.definition,
   destinations |-> row.destinations,
   remote |-> {[retention |-> r.retention, duration |-> r.duration, filter |-> r.filter,
                rights |-> IF r.rights THEN "yes" ELSE "absent"] : r \in row.remote}]

\* What the migration 0017 made of a workflow that had no definition: without
\* its filter.
Migrated(row) ==
  [row EXCEPT !.definition = LegacyDefinition(row.remote # {}, FALSE, row.destinations)]

\* compileWorkflowExecutionPlan, which is run on every row that is read.
Compiles(w) ==
  /\ Valid(KindsOf(w.definition))
  /\ \A i \in DOMAIN w.definition.steps : ~BadStep(w.definition.steps[i])
=============================================================================
