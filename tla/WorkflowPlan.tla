---------------------------- MODULE WorkflowPlan ----------------------------
(***************************************************************************)
(* A workflow definition is submitted, compiled to a plan, and the plan is *)
(* executed: which steps the media of each destination goes through.  The  *)
(* settings of the steps are in WorkflowForm.                              *)
(***************************************************************************)
EXTENDS WorkflowInput

CONSTANTS Drafts   \* the definitions submitted

VARIABLES
  draft,       \* the definition in the request
  workflow,    \* the stored workflow
  execution,   \* the execution of its plan
  published    \* per destination, the steps its media went through

workflowVars == <<draft, workflow, execution, published>>

WorkflowTypeOK ==
  /\ draft \in Drafts
  /\ workflow \in {"none", "refused", "stored"}
  /\ execution \in {"none", "transcribing", "failed", "done"}
  /\ published \in [OfKind(draft, "destination") -> SUBSET Kinds]

WorkflowInitOf(d) ==
  /\ draft = d
  /\ workflow = "none" /\ execution = "none"
  /\ published = [i \in OfKind(d, "destination") |-> {}]
WorkflowInit == \E d \in Drafts : WorkflowInitOf(d)

-----------------------------------------------------------------------------
\* create(): compileWorkflowExecutionPlan keeps the steps as they were given.
Submit ==
  /\ workflow = "none"
  /\ workflow' = IF Valid(draft) THEN "stored" ELSE "refused"
  /\ UNCHANGED <<draft, execution, published>>
PlanSteps == draft.steps

-----------------------------------------------------------------------------
(* executeMedia                                                            *)

Has(kind) == \E i \in DOMAIN PlanSteps : PlanSteps[i] = kind
Transforms == {i \in DOMAIN PlanSteps : PlanSteps[i] = "transform"}

\* The transform and the captions of the plan apply to every destination; two
\* transforms are refused only here.
FanOut ==
  IF Cardinality(Transforms) > 1 THEN execution' = "failed" /\ UNCHANGED published
  ELSE /\ execution' = "done"
       /\ published' = [i \in OfKind(draft, "destination") |->
            {kind \in {"transform", "transcription", "captions", "destination"} : Has(kind)}]

\* Media arrives; with a transcription step the plan waits for its transcript,
\* unless the cache has one.
Execute ==
  /\ workflow = "stored" /\ execution = "none"
  /\ \/ /\ Has("transcription")
        /\ execution' = "transcribing" /\ UNCHANGED published
     \/ FanOut
  /\ UNCHANGED <<draft, workflow>>

\* resumeAfterTranscription
Resume ==
  /\ execution = "transcribing"
  /\ FanOut
  /\ UNCHANGED <<draft, workflow>>

WorkflowNext == Submit \/ Execute \/ Resume
WorkflowSpec == WorkflowInit /\ [][WorkflowNext]_workflowVars

-----------------------------------------------------------------------------
(* A stored workflow, against what a route is, without walking it: a set   *)
(* of steps that has no way in from outside would be off the route, and    *)
(* one where every step has a predecessor within would be a cycle.         *)

OnTheRoute(d) ==
  \A S \in SUBSET (Positions(d) \ OfKind(d, "source")) :
    S # {} => \E e \in d.edges : e[1] \notin S /\ e[2] \in S
Acyclic(d) ==
  \A S \in SUBSET Positions(d) :
    S # {} => \E i \in S : \A e \in Into(d, i) : e[1] \notin S
\* A captions step that is executed has a transcript (Error "A workflow
\* caption step requires a completed transcription", executeMedia).
CaptionsAreTranscribed ==
  \A i \in DOMAIN published :
    "captions" \in published[i] => "transcription" \in published[i]

\* What is stored is a route: no cycle, no step beside it, and every
\* destination is published through it, captioned only with a transcript.
StoredIsRoute ==
  /\ workflow = "stored" => OnTheRoute(draft) /\ Acyclic(draft)
  /\ CaptionsAreTranscribed
  /\ execution = "done" => \A i \in DOMAIN published : published[i] # {}
=============================================================================
