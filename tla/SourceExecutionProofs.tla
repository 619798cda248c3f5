----------------------- MODULE SourceExecutionProofs -----------------------
(***************************************************************************)
(* Theorems about the executions of one source item, for every number of   *)
(* executions, destinations, attempts and crashes: the tables tell the     *)
(* truth about the publish jobs, the media of a job that still has to run  *)
(* is on disk, only due files are deleted, and the item is completed last. *)
(***************************************************************************)
EXTENDS SourceExecution, TLAPS

(* The inductive invariant.  Its parts about rows do not mention the        *)
(* handlers; RunFits and CleanupFits say what a handler relies on where it  *)
(* waits, and so what may not change under it.                              *)

ItemStates == {"observed", "queued", "resolving", "media_ready", "publishing", "retrying",
               "partial_failure", "cleanup_pending", "completed", "failed"}
Phases == Awaiting \cup DOMAIN AfterBegin \cup {"start", "visit", "original",
            "fail_resolution", "fail_item", "fail_run", "fanout", "attach", "artifact", "deleted",
            "artifact_failed", "complete", "settle"}

\* TypeOK in three parts: the execution rows, the artifact rows, the rest.
ExecutionTypes ==
  /\ executions \in [Executions -> ExecutionRow]
  /\ \A e \in Executions :
       /\ executions[e].cleanup \in {"not_eligible", "retained"} <=> executions[e].due = "never"
       /\ Retention[e] = "keep_forever" => executions[e].cleanup \in {"not_eligible", "retained"}
ArtifactTypes ==
  /\ artifacts \in [Executions -> Artifact]
  /\ \A e \in Executions : artifacts[e].ownership = "user_owned_original" =>
       artifacts[e].cleanup = "protected" /\ ~artifacts[e].deleted
DestinationTypes == destinations \in [Destinations -> DestinationRow]
JobTypes == jobs \in [JobIds -> JobRow]
ItemType == item \in ItemStates
ProcessTypes ==
  /\ resolution \in [Executions -> {"none", "resolving", "ready", "failed"}]
  /\ file \in [Media -> BOOLEAN]
  /\ up \in BOOLEAN /\ crashes \in 0..CrashBound /\ recovering \in BOOLEAN
  /\ handler \in [JobIds -> Phases]
  /\ outcome \in [JobIds -> {"ok", "retry", "fail", "constraint"}]
  /\ visit \in [todo : SUBSET Executions, current : Executions \cup {None}]
  /\ created \in [Destinations -> {"none", "pending", "running", "retrying",
                                  "succeeded", "failed", "cancelled"}]

Done(d) == destinations[d].status = "succeeded"
AllDone(e) == AllSucceeded(e, destinations)

\* A handler is in flight exactly for a running job.
HandlerInv == \A k \in JobIds : handler[k] # "idle" => jobs[k].status = "running"

\* Nothing exists of an execution before its row, and its cleanup job is
\* created only once the cleanup is due.
ExecutionInv ==
  \A e \in Executions :
    /\ executions[e].status = "absent" => /\ jobs[Run(e)].status = "absent"
                                          /\ resolution[e] = "none"
                                          /\ visit.current # e
    /\ jobs[Cleanup(e)].status # "absent" => executions[e].due = "now"

\* A destination gets its job only when the media is ready; a success or failure
\* shown, or about to be attached, is the job's.
DestinationInv ==
  \A d \in Destinations :
    /\ destinations[d].attached \/ created[d] # "none" =>
         resolution[ExecutionOf[d]] = "ready" /\ jobs[Publish(d)].status # "absent"
    /\ ~destinations[d].attached => destinations[d].status = "pending"
    /\ destinations[d].status \in {"succeeded", "failed"} =>
         jobs[Publish(d)].status = destinations[d].status
    /\ created[d] \in {"succeeded", "failed"} => jobs[Publish(d)].status = created[d]

\* An execution is succeeded, and its cleanup decided, exactly when all its
\* destinations are.
OutcomeInv ==
  \A e \in Executions :
    /\ executions[e].status = "succeeded" <=> AllDone(e)
    /\ executions[e].cleanup # "not_eligible" <=> AllDone(e)

\* With one process nothing moves a publish job between its creation and its
\* attachment.
MirrorInv ==
  ~Overlap =>
    \A d \in Destinations :
      /\ destinations[d].attached => destinations[d].status = jobs[Publish(d)].status
      /\ created[d] # "none" => created[d] = jobs[Publish(d)].status

\* An execution has an artifact exactly when its media is ready; the managed
\* file is there until every destination was published.
ArtifactInv ==
  /\ \A e \in Executions :
       /\ artifacts[e].ownership = "none" <=> artifacts[e] = NoArtifact
       /\ artifacts[e] # NoArtifact <=> resolution[e] = "ready"
       /\ artifacts[e].path = None <=> artifacts[e] = NoArtifact
       /\ artifacts[e].ownership = "openrepurpose_temporary" =>
            /\ artifacts[e].path = e
            /\ file[e] \/ AllDone(e)
            /\ artifacts[e].cleanup = "completed" => ~file[e]
  /\ \A m \in Originals : file[m]

\* The hints of the executions match local originals of the user only, and not
\* the managed file of another execution.
HintsAreOriginals == \A e \in Executions : Hints[e] \subseteq Originals

\* Then an execution uses an original or downloads a file, never one after the
\* other.
HintInv ==
  HintsAreOriginals =>
    \A e \in Executions :
      /\ artifacts[e].ownership = "user_owned_original" =>
           artifacts[e].path \in Originals /\ Hints[e] # {}
      /\ file[e] => Hints[e] = {}
      /\ executions[e].cleanup = "completed" => ~file[e]

\* An execution that is late for the completed item gets no media.
ItemInv ==
  item = "completed" => \A e \in Executions : AllDone(e) \/ resolution[e] # "ready"

Resolving == {"match", "item_original", "item_download", "item_refuse", "original", "acquire",
              "import", "discard", "fail_resolution", "fail_item", "fail_run"}
ItemTaken == {"original", "acquire", "import", "discard",
              "fail_resolution", "fail_item", "fail_run"}
FanningOut == {"fanout", "attach"}

\* What the handler of Run(e) relies on in each phase.
RunFits(e, phase) ==
  /\ phase \in Resolving => resolution[e] # "ready"
  /\ phase \in ItemTaken => item # "completed"
  /\ phase \in FanningOut => resolution[e] = "ready"
  /\ phase \notin FanningOut => \A d \in Members(e) : created[d] = "none"
  /\ phase = "import" => file[e]
  /\ HintsAreOriginals /\ phase \in {"item_download", "acquire", "import"} => Hints[e] = {}
RunInv == \A e \in Executions : RunFits(e, handler[Run(e)])

\* What the handler of Cleanup(e) relies on in each phase.
CleanupFits(e, phase) ==
  /\ phase \in {"delete", "deleted", "artifact_failed"} =>
       artifacts[e].ownership = "openrepurpose_temporary"
  /\ phase = "deleted" => ~file[e]
  /\ HintsAreOriginals /\ phase = "complete" => ~file[e]
CleanupInv == \A e \in Executions : CleanupFits(e, handler[Cleanup(e)])

Types == /\ ExecutionTypes /\ ArtifactTypes /\ DestinationTypes
         /\ JobTypes /\ ItemType /\ ProcessTypes
SourceInv ==
  /\ Types /\ HandlerInv /\ ExecutionInv /\ DestinationInv /\ OutcomeInv /\ MirrorInv
  /\ ArtifactInv /\ HintInv /\ ItemInv /\ RunInv /\ CleanupInv

-----------------------------------------------------------------------------
(* Facts about names, members and rows.                                    *)

\* The jobs of an item have different names, and they are all there are.
LEMMA JobNames ==
  /\ Observe \in JobIds
  /\ \A e \in Executions : /\ Run(e) \in JobIds /\ Cleanup(e) \in JobIds
                           /\ Run(e) # Observe /\ Cleanup(e) # Observe
  /\ \A d \in Destinations : Publish(d) \in JobIds /\ Publish(d) # Observe
  /\ \A e, f \in Executions : /\ Run(e) = Run(f) => e = f
                              /\ Cleanup(e) = Cleanup(f) => e = f
                              /\ Run(e) # Cleanup(f)
  /\ \A d, c \in Destinations : Publish(d) = Publish(c) => d = c
  /\ \A d \in Destinations, e \in Executions : Publish(d) # Run(e) /\ Publish(d) # Cleanup(e)
<1>1. \A x, y : <<"run", x>> = <<"run", y>> => x = y
  OBVIOUS
<1>2. \A x, y : <<"cleanup", x>> = <<"cleanup", y>> => x = y
  OBVIOUS
<1>3. \A x, y : <<"publish", x>> = <<"publish", y>> => x = y
  OBVIOUS
<1>4. \A x, y : /\ <<"run", x>> # <<"cleanup", y>>
                /\ <<"publish", x>> # <<"cleanup", y>>
                /\ <<"publish", x>> # <<"run", y>>
  OBVIOUS
<1>5. \A x : /\ <<"run", x>> # <<"observe">>
             /\ <<"publish", x>> # <<"observe">>
             /\ <<"cleanup", x>> # <<"observe">>
  OBVIOUS
<1>6. /\ Observe \in JobIds
      /\ \A e \in Executions : Run(e) \in JobIds /\ Cleanup(e) \in JobIds
      /\ \A d \in Destinations : Publish(d) \in JobIds
  BY DEF JobIds
<1> QED
  BY <1>1, <1>2, <1>3, <1>4, <1>5, <1>6 DEF Run, Cleanup, Publish, Observe

\* Every execution has destinations, each destination one execution.
LEMMA HasMembers ==
  /\ \A d \in Destinations : ExecutionOf[d] \in Executions /\ d \in Members(ExecutionOf[d])
  /\ \A e \in Executions : \E d \in Destinations : ExecutionOf[d] = e /\ d \in Members(e)
  /\ \A e \in Executions : \A d : d \in Members(e) <=> d \in Destinations /\ ExecutionOf[d] = e
BY SourceAssumption DEF Members

\* The phases after RunBeginItem.
LEMMA Begun ==
  /\ DOMAIN AfterBegin = {"item_original", "item_download", "item_refuse"}
  /\ AfterBegin["item_original"] = "original"
  /\ AfterBegin["item_download"] = "acquire"
  /\ AfterBegin["item_refuse"] = "fail_resolution"
BY DEF AfterBegin

\* The parts are TypeOK.
LEMMA TypesAreTypeOK == Types <=> TypeOK
BY DEF Types, TypeOK, ExecutionTypes, ArtifactTypes, DestinationTypes, JobTypes, ItemType,
       ProcessTypes, ItemStates, Phases

\* Only ready media is published.
LEMMA DoneIsReady ==
  ASSUME DestinationInv, NEW e \in Executions, AllDone(e)
  PROVE  resolution[e] = "ready"
BY HasMembers DEF DestinationInv, AllDone, AllSucceeded, Done

\* While a run handler is between the creation and the attachment of a job, no
\* other handler of the process has the turn.
LEMMA Alone ==
  ASSUME RunInv, NEW k, Turn(k), NEW d \in Destinations, created[d] # "none"
  PROVE  k = Run(ExecutionOf[d])
<1>1. handler[Run(ExecutionOf[d])] \in FanningOut
  BY HasMembers DEF RunInv, RunFits
<1>2. handler[Run(ExecutionOf[d])] \notin Awaiting
  BY <1>1 DEF FanningOut, Awaiting
<1> QED
  BY <1>2, HasMembers, JobNames DEF Turn

\* No command of the process does either.
LEMMA AloneForCommands ==
  ASSUME RunInv, Turn(None)
  PROVE  \A d \in Destinations : created[d] = "none"
BY Alone, NoneIsNoJob, JobNames, HasMembers

-----------------------------------------------------------------------------
(* The initial state, and steps that move one handler only.                *)

\* The server has started nothing yet.
LEMMA SourceInit == Init => SourceInv
<1> SUFFICES ASSUME Init PROVE SourceInv
  OBVIOUS
<1>1. ExecutionTypes
  BY SourceAssumption DEF Init, ExecutionTypes, ExecutionRow, Policies
<1>2. ArtifactTypes /\ DestinationTypes /\ ItemType
  BY DEF Init, ArtifactTypes, DestinationTypes, ItemType, Artifact, NoArtifact, DestinationRow,
         ItemStates
<1>3. JobTypes
  BY SourceAssumption DEF Init, JobTypes, JobRow, NewJob
<1>4. ProcessTypes
  <2>1. 0 \in 0..CrashBound
    BY SourceAssumption
  <2>2. handler \in [JobIds -> Phases]
    BY DEF Init, Phases, Awaiting
  <2>3. file \in [Media -> BOOLEAN]
    BY DEF Init
  <2> QED
    BY <2>1, <2>2, <2>3 DEF Init, ProcessTypes
<1>5. HandlerInv
  <2>1. \A k \in JobIds : handler[k] = "idle"
    BY DEF Init
  <2> QED
    BY <2>1 DEF HandlerInv
<1>6. ExecutionInv
  BY JobNames, SourceAssumption DEF Init, ExecutionInv, NewJob
<1>7. DestinationInv
  BY DEF Init, DestinationInv, Done
<1>8. OutcomeInv
  BY HasMembers DEF Init, OutcomeInv, AllDone, AllSucceeded
<1>9. MirrorInv
  BY DEF Init, MirrorInv
<1>10. ArtifactInv
  <2>1. \A m \in Originals : file[m]
    BY DEF Init, Media
  <2>2. \A e \in Executions : artifacts[e] = NoArtifact /\ resolution[e] = "none"
    BY DEF Init
  <2>3. NoArtifact.ownership = "none" /\ NoArtifact.path = None
    BY DEF NoArtifact
  <2> QED
    BY <2>1, <2>2, <2>3 DEF ArtifactInv
<1>11. HintInv
  BY SourceAssumption DEF Init, HintInv, NoArtifact, Media
<1>12. ItemInv
  BY DEF Init, ItemInv
<1>13. RunInv
  BY HasMembers, JobNames DEF Init, RunInv, RunFits, Resolving, ItemTaken, FanningOut
<1>14. CleanupInv
  BY JobNames DEF Init, CleanupInv, CleanupFits
<1> QED
  BY <1>1, <1>2, <1>3, <1>4, <1>5, <1>6, <1>7, <1>8, <1>9, <1>10, <1>11, <1>12, <1>13, <1>14
  DEF SourceInv, Types

\* Rows that nothing touches keep what is said of them.
LEMMA StoreKept ==
  ASSUME SourceInv, UNCHANGED <<storeVars, file, created>>, visit'.current \in {visit.current, None}
  PROVE  /\ (ExecutionTypes /\ ArtifactTypes /\ DestinationTypes /\ JobTypes /\ ItemType)'
         /\ (ExecutionInv /\ DestinationInv /\ OutcomeInv /\ MirrorInv)'
         /\ (ArtifactInv /\ HintInv /\ ItemInv)'
<1> USE DEF SourceInv, Types, storeVars, rowVars
<1>1. (ExecutionTypes /\ ArtifactTypes /\ DestinationTypes /\ JobTypes /\ ItemType)'
  BY DEF ExecutionTypes, ArtifactTypes, DestinationTypes, JobTypes, ItemType
<1>2. (ExecutionInv /\ DestinationInv /\ OutcomeInv /\ MirrorInv)'
  BY SourceAssumption
  DEF ExecutionInv, DestinationInv, OutcomeInv, MirrorInv, AllDone, Done
<1>3. (ArtifactInv /\ HintInv /\ ItemInv)'
  BY DEF ArtifactInv, HintInv, ItemInv, AllDone
<1> QED
  BY <1>1, <1>2, <1>3

\* A handler that only goes on, to a phase whose needs are met.
LEMMA HandlerMove ==
  ASSUME SourceInv,
         NEW k \in JobIds, handler[k] # "idle",
         NEW phase \in Phases, Goto(k, phase),
         \A e \in Executions : /\ k = Run(e) => RunFits(e, phase)
                               /\ k = Cleanup(e) => CleanupFits(e, phase),
         outcome' \in [JobIds -> {"ok", "retry", "fail", "constraint"}],
         UNCHANGED <<storeVars, file, up, crashes, recovering, visit, created>>
  PROVE  SourceInv'
<1> USE DEF SourceInv, Types, Goto
<1>1. /\ (ExecutionTypes /\ ArtifactTypes /\ DestinationTypes /\ JobTypes /\ ItemType)'
      /\ (ExecutionInv /\ DestinationInv /\ OutcomeInv /\ MirrorInv)'
      /\ (ArtifactInv /\ HintInv /\ ItemInv)'
  BY StoreKept
<1>2. ProcessTypes'
  BY DEF ProcessTypes, storeVars
<1>3. HandlerInv'
  BY DEF HandlerInv, storeVars, ProcessTypes
<1>4. RunInv'
  <2> SUFFICES ASSUME NEW e \in Executions PROVE RunFits(e, handler[Run(e)])'
    BY DEF RunInv
  <2>1. RunFits(e, handler'[Run(e)])
    BY JobNames DEF RunInv, ProcessTypes
  <2> QED
    BY <2>1 DEF RunFits, storeVars, rowVars
<1>5. CleanupInv'
  <2> SUFFICES ASSUME NEW e \in Executions PROVE CleanupFits(e, handler[Cleanup(e)])'
    BY DEF CleanupInv
  <2>1. CleanupFits(e, handler'[Cleanup(e)])
    BY JobNames DEF CleanupInv, ProcessTypes
  <2> QED
    BY <2>1 DEF CleanupFits, storeVars, rowVars
<1> QED
  BY <1>1, <1>2, <1>3, <1>4, <1>5

\* The handlers' steps that do no more than that.
LEMMA HandlersGoOn ==
  ASSUME SourceInv
  PROVE  /\ ObserveStart \/ ObserveEnds => SourceInv'
         /\ \A e \in Executions :
              RunStart(e) \/ RunBreaks(e) \/ RunAcquireFails(e) \/ FanOutFails(e) \/ FanOutEnds(e)
                \/ RunEnds(e) => SourceInv'
         /\ \A d \in Destinations : PublishEnds(d) => SourceInv'
<1> USE DEF At, Goto, Outcome, HandlerMoves, storeVars, rowVars, Unexpected
<1>1. outcome \in [JobIds -> {"ok", "retry", "fail", "constraint"}]
  BY DEF SourceInv, Types, ProcessTypes
<1>2. \A e \in Executions : RunFits(e, handler[Run(e)])
  BY DEF SourceInv, RunInv
<1>3. /\ {"start", "visit", "settle", "match", "fanout", "attach", "discard", "publish"} \subseteq Phases
      /\ \A e \in Executions : RunFits(e, "settle") => RunFits(e, "start")
  BY DEF Phases, Awaiting, RunFits, Resolving, ItemTaken, FanningOut
<1>4. ASSUME ObserveStart \/ ObserveEnds PROVE SourceInv'
  <2>1. PICK phase \in {"visit", "settle"} :
           handler[Observe] # "idle" /\ Goto(Observe, phase)
    BY <1>4 DEF ObserveStart, ObserveEnds
  <2>2. UNCHANGED <<storeVars, file, up, crashes, recovering, visit, created, outcome>>
    BY <1>4 DEF ObserveStart, ObserveEnds
  <2>3. phase \in Phases /\ outcome' \in [JobIds -> {"ok", "retry", "fail", "constraint"}]
    BY <2>2, <1>1, <1>3
  <2>4. Observe \in JobIds /\ \A e \in Executions : Observe # Run(e) /\ Observe # Cleanup(e)
    BY JobNames
  <2> QED
    BY <2>1, <2>2, <2>3, <2>4, HandlerMove
<1>5. ASSUME NEW e \in Executions, NEW phase \in {"settle", "match", "fanout", "attach", "discard"},
             handler[Run(e)] # "idle", Goto(Run(e), phase), RunFits(e, phase),
             outcome' = outcome \/ (\E o \in {"retry", "fail"} : Outcome(Run(e), o)),
             UNCHANGED <<storeVars, file, up, crashes, recovering, visit, created>>
      PROVE  SourceInv'
  <2>1. phase \in Phases
    BY <1>3
  <2>2. outcome' \in [JobIds -> {"ok", "retry", "fail", "constraint"}]
    BY <1>1, <1>5
  <2>3. \A f \in Executions : /\ Run(e) = Run(f) => RunFits(f, phase)
                              /\ Run(e) = Cleanup(f) => CleanupFits(f, phase)
    BY <1>5, JobNames
  <2>4. Run(e) \in JobIds
    BY JobNames
  <2> QED
    BY <1>5, <2>1, <2>2, <2>3, <2>4, HandlerMove
<1>6. ASSUME NEW e \in Executions,
             RunStart(e) \/ RunBreaks(e) \/ RunAcquireFails(e) \/ FanOutFails(e) \/ FanOutEnds(e)
               \/ RunEnds(e)
      PROVE  SourceInv'
  <2>1. UNCHANGED <<storeVars, file, up, crashes, recovering, visit, created>>
    BY <1>6 DEF RunStart, RunBreaks, RunAcquireFails, FanOutFails, FanOutEnds, RunEnds
  <2>2. CASE RunStart(e)
    <3>1. /\ RunFits(e, "start")
          /\ outcome' = outcome
          /\ handler[Run(e)] = "start"
          /\ Goto(Run(e), IF Checkpoint(e) THEN "fanout" ELSE "match")
      BY <2>2, <1>2 DEF RunStart
    <3>2. CASE Checkpoint(e)
      <4>1. RunFits(e, "fanout")
        BY <3>1, <3>2 DEF RunFits, Resolving, ItemTaken, FanningOut, Checkpoint
      <4> QED
        BY <2>1, <3>1, <3>2, <4>1, <1>5
    <3>3. CASE ~Checkpoint(e)
      <4>1. RunFits(e, "match")
        BY <3>1, <3>3 DEF RunFits, Resolving, ItemTaken, FanningOut, Checkpoint
      <4> QED
        BY <2>1, <3>1, <3>3, <4>1, <1>5
    <3> QED
      BY <3>2, <3>3
  <2>3. CASE RunBreaks(e)
    <3>1. RunFits(e, "settle")
      BY <2>3, <1>2 DEF RunBreaks, RunFits, Resolving, ItemTaken, FanningOut
    <3> QED
      BY <2>1, <2>3, <3>1, <1>5 DEF RunBreaks
  <2>4. CASE RunAcquireFails(e)
    <3>1. RunFits(e, "discard")
      BY <2>4, <1>2 DEF RunAcquireFails, RunFits, Resolving, ItemTaken, FanningOut
    <3> QED
      BY <2>1, <2>4, <3>1, <1>5 DEF RunAcquireFails
  <2>5. CASE FanOutFails(e)
    <3>1. RunFits(e, "settle")
      BY <2>5 DEF FanOutFails, RunFits, Resolving, ItemTaken, FanningOut
    <3> QED
      BY <2>1, <2>5, <3>1, <1>5 DEF FanOutFails
  <2>6. CASE FanOutEnds(e)
    <3>1. RunFits(e, "attach")
      BY <2>6, <1>2 DEF FanOutEnds, RunFits, Resolving, ItemTaken, FanningOut
    <3> QED
      BY <2>1, <2>6, <3>1, <1>5 DEF FanOutEnds
  <2>7. CASE RunEnds(e)
    <3>1. RunFits(e, "settle")
      BY <2>7 DEF RunEnds, RunFits, Resolving, ItemTaken, FanningOut
    <3> QED
      BY <2>1, <2>7, <3>1, <1>5 DEF RunEnds
  <2> QED
    BY <1>6, <2>2, <2>3, <2>4, <2>5, <2>6, <2>7
<1>7. ASSUME NEW d \in Destinations, PublishEnds(d) PROVE SourceInv'
  <2>1. /\ handler[Publish(d)] # "idle"
        /\ Goto(Publish(d), "settle")
        /\ outcome' \in [JobIds -> {"ok", "retry", "fail", "constraint"}]
    BY <1>1, <1>7 DEF PublishEnds
  <2>2. UNCHANGED <<storeVars, file, up, crashes, recovering, visit, created>>
    BY <1>7 DEF PublishEnds
  <2>3. Publish(d) \in JobIds /\ "settle" \in Phases
    BY <1>3, JobNames
  <2> QED
    BY <2>1, <2>2, <2>3, HandlerMove, JobNames
<1> QED
  BY <1>4, <1>6, <1>7

-----------------------------------------------------------------------------
(* The triggers.                                                           *)

\* What no statement undoes: an execution that is there stays, a due cleanup
\* stays due, and nothing but the cleanup itself completes it.
RowsGrow ==
  \A e \in Executions :
    /\ executions'[e].status = "absent" <=> executions[e].status = "absent"
    /\ executions[e].due = "now" => executions'[e].due = "now"
    /\ AllDone(e) => AllDone(e)'
    /\ artifacts'[e] = NoArtifact <=> artifacts[e] = NoArtifact
    /\ artifacts'[e].ownership = artifacts[e].ownership
    /\ artifacts'[e].path = artifacts[e].path
    /\ artifacts'[e].cleanup = "completed" => artifacts[e].cleanup = "completed"
    /\ executions'[e].cleanup = "completed" => executions[e].cleanup = "completed"

\* A destination that changes before it succeeded leaves consistent rows; when
\* it was the last one, its execution succeeds and its cleanup is decided.
LEMMA RowsFollow ==
  ASSUME ExecutionTypes, ArtifactTypes, DestinationTypes, ItemType, OutcomeInv, ArtifactInv,
         NEW d \in Destinations, ~Done(d), NEW row \in DestinationRow,
         executions[ExecutionOf[d]].status # "absent", item # "completed",
         DestinationUpdate(d, row)
  PROVE  /\ (ExecutionTypes /\ ArtifactTypes /\ DestinationTypes /\ ItemType /\ OutcomeInv)'
         /\ RowsGrow
         /\ item' = "completed" => ItemFinished(executions')
<1> DEFINE e0 == ExecutionOf[d]
           done == AllSucceeded(e0, destinations')
<1>1. e0 \in Executions /\ d \in Members(e0) /\ ~AllDone(e0)
  BY HasMembers DEF AllDone, AllSucceeded, Done
<1>2. /\ destinations' = [destinations EXCEPT ![d] = row]
      /\ executions' = [executions EXCEPT ![e0] = ExecutionAfter(e0, executions[e0], destinations')]
      /\ item' = ItemAfter(e0, executions', destinations')
      /\ artifacts' = IF done /\ artifacts[e0].ownership = "openrepurpose_temporary"
                      THEN [artifacts EXCEPT ![e0].cleanup =
                              IF Retention[e0] = "keep_forever" THEN "retained" ELSE "eligible"]
                      ELSE artifacts
  BY DEF DestinationUpdate
<1>3. \A e \in Executions \ {e0} : AllDone(e)' <=> AllDone(e)
  BY <1>2, HasMembers DEF AllDone, AllSucceeded, DestinationTypes
<1>4. AllDone(e0)' <=> done
  BY DEF AllDone
<1>5. /\ executions[e0].status # "succeeded"
      /\ executions[e0].cleanup = "not_eligible" /\ executions[e0].due = "never"
  BY <1>1 DEF OutcomeInv, ExecutionTypes
<1>6. executions[e0] \in ExecutionRow /\ artifacts[e0] \in Artifact
  BY <1>1 DEF ExecutionTypes, ArtifactTypes
<1>7. Retention[e0] \in Policies
  BY <1>1, SourceAssumption
<1> DEFINE new == ExecutionAfter(e0, executions[e0], destinations')
<1>8. CASE done
  <2>1. new = [status |-> "succeeded",
               cleanup |-> IF Retention[e0] = "keep_forever" THEN "retained" ELSE "eligible",
               due |-> CASE Retention[e0] = "delete_after_success" -> "now"
                         [] Retention[e0] = "keep_for_duration" -> "later"
                         [] OTHER -> "never"]
    BY <1>8 DEF ExecutionAfter, Eligible
  <2>2. /\ new.status = "succeeded"
        /\ Retention[e0] = "keep_forever" => new.cleanup = "retained" /\ new.due = "never"
        /\ Retention[e0] # "keep_forever" => new.cleanup = "eligible" /\ new.due \in {"later", "now"}
        /\ new \in ExecutionRow
    BY <2>1, <1>7 DEF ExecutionRow, Policies
  <2> HIDE DEF new
  <2>3. \A e \in Executions : executions'[e] = IF e = e0 THEN new ELSE executions[e]
    BY <1>1, <1>2 DEF ExecutionTypes, new
  <2>4. ExecutionTypes'
    <3>1. executions' \in [Executions -> ExecutionRow]
      BY <1>1, <1>2, <2>2 DEF ExecutionTypes, new
    <3> QED
      BY <3>1, <2>2, <2>3, <1>7 DEF ExecutionTypes, Policies
  <2>5. OutcomeInv'
    BY <1>3, <1>4, <1>8, <2>2, <2>3 DEF OutcomeInv
  <2>6. item' = IF ItemFinished(executions') THEN "completed" ELSE "cleanup_pending"
    BY <1>2, <1>8 DEF ItemAfter
  <2>7. \A e \in Executions \ {e0} : artifacts'[e] = artifacts[e]
    BY <1>1, <1>2 DEF ArtifactTypes
  <2>8. /\ artifacts'[e0].ownership = artifacts[e0].ownership
        /\ artifacts'[e0].path = artifacts[e0].path
        /\ artifacts'[e0].cleanup = "completed" => artifacts[e0].cleanup = "completed"
        /\ artifacts'[e0] \in Artifact
        /\ artifacts'[e0].ownership = "user_owned_original" => artifacts'[e0] = artifacts[e0]
    <3>1. CASE artifacts[e0].ownership = "openrepurpose_temporary"
      <4>1. artifacts'[e0] = [artifacts[e0] EXCEPT !.cleanup =
                                IF Retention[e0] = "keep_forever" THEN "retained" ELSE "eligible"]
        BY <1>1, <1>2, <1>8, <3>1 DEF ArtifactTypes
      <4> QED
        BY <4>1, <1>6, <3>1 DEF Artifact
    <3>2. CASE artifacts[e0].ownership # "openrepurpose_temporary"
      BY <1>2, <1>6, <3>2
    <3> QED
      BY <3>1, <3>2
  <2>9. ArtifactTypes'
    <3>1. artifacts' \in [Executions -> Artifact]
      <4>1. DOMAIN artifacts' = Executions /\ artifacts' = [e \in Executions |-> artifacts'[e]]
        BY <1>2 DEF ArtifactTypes
      <4> QED
        BY <4>1, <2>7, <2>8 DEF ArtifactTypes
    <3> QED
      BY <3>1, <2>7, <2>8 DEF ArtifactTypes
  <2>10. artifacts'[e0] = NoArtifact <=> artifacts[e0] = NoArtifact
    <3>1. artifacts'[e0].ownership = artifacts[e0].ownership
      BY <2>8
    <3>2. artifacts[e0] = NoArtifact => artifacts' = artifacts
      BY <1>2 DEF NoArtifact
    <3>3. NoArtifact.ownership = "none"
      BY DEF NoArtifact
    <3> QED
      BY <3>1, <3>2, <3>3, <1>1 DEF ArtifactInv
  <2>11. RowsGrow
    BY <1>1, <1>3, <1>4, <1>5, <1>8, <2>2, <2>3, <2>7, <2>8, <2>10 DEF RowsGrow
  <2> QED
    BY <2>4, <2>5, <2>6, <2>9, <2>11, <1>2 DEF DestinationTypes, ItemType, ItemStates
<1>9. CASE ~done
  <2>1. PICK s \in {"failed", "retrying", "running"} : new = [executions[e0] EXCEPT !.status = s]
    BY <1>9 DEF ExecutionAfter, Aggregate
  <2>2. /\ new \in ExecutionRow /\ new.status = s
        /\ new.cleanup = "not_eligible" /\ new.due = "never"
    BY <2>1, <1>5, <1>6 DEF ExecutionRow
  <2> HIDE DEF new
  <2>3. \A e \in Executions : executions'[e] = IF e = e0 THEN new ELSE executions[e]
    BY <1>1, <1>2 DEF ExecutionTypes, new
  <2>4. executions' \in [Executions -> ExecutionRow]
    BY <1>1, <1>2, <2>2 DEF ExecutionTypes, new
  <2>5. ExecutionTypes'
    BY <2>2, <2>3, <2>4 DEF ExecutionTypes
  <2>6. OutcomeInv'
    BY <1>3, <1>4, <1>9, <2>2, <2>3 DEF OutcomeInv
  <2>7. artifacts' = artifacts
    BY <1>2, <1>9
  <2>8. item' \in {"partial_failure", "retrying", "publishing"}
    BY <1>2, <1>9 DEF ItemAfter, Aggregate
  <2>9. RowsGrow
    BY <1>1, <1>3, <1>4, <1>5, <2>2, <2>3, <2>7 DEF RowsGrow
  <2> QED
    BY <2>5, <2>6, <2>7, <2>8, <2>9, <1>2 DEF DestinationTypes, ArtifactTypes, ItemType, ItemStates
<1> QED
  BY <1>8, <1>9

\* What that leaves true of media, item and handlers.
LEMMA GrowthKeeps ==
  ASSUME SourceInv, RowsGrow, OutcomeInv', DestinationInv', UNCHANGED <<resolution, file>>,
         item' = "completed" => item = "completed" \/ ItemFinished(executions')
  PROVE  /\ (ArtifactInv /\ HintInv /\ ItemInv)'
         /\ \A e \in Executions, phase \in Phases : CleanupFits(e, phase) => CleanupFits(e, phase)'
         /\ \A e \in Executions : handler[Run(e)] \in ItemTaken => item' # "completed"
<1> USE DEF SourceInv
<1>1. ArtifactInv'
  BY DEF ArtifactInv, RowsGrow
<1>2. HintInv'
  BY DEF HintInv, RowsGrow
<1>3. \A e \in Executions : AllDone(e)' => resolution[e] = "ready"
  BY HasMembers DEF DestinationInv, AllDone, AllSucceeded, Done
<1>4. ASSUME ItemFinished(executions'), NEW e \in Executions
      PROVE  executions[e].status = "absent" \/ resolution[e] = "ready"
  BY <1>3, <1>4 DEF ItemFinished, OutcomeInv, RowsGrow
<1>5. ItemInv'
  <2> SUFFICES ASSUME item' = "completed", NEW e \in Executions
               PROVE  AllDone(e)' \/ resolution[e] # "ready"
    BY DEF ItemInv
  <2>1. CASE item = "completed"
    BY <2>1 DEF ItemInv, RowsGrow
  <2>2. CASE ItemFinished(executions')
    BY <2>2 DEF ItemFinished, OutcomeInv, RowsGrow, ExecutionInv
  <2> QED
    BY <2>1, <2>2
<1>6. \A e \in Executions, phase \in Phases : CleanupFits(e, phase) => CleanupFits(e, phase)'
  BY DEF CleanupFits, RowsGrow
<1>7. ASSUME NEW e \in Executions, handler[Run(e)] \in ItemTaken PROVE item' # "completed"
  <2>1. item # "completed" /\ resolution[e] # "ready"
    BY <1>7 DEF RunInv, RunFits, ItemTaken, Resolving
  <2>2. handler[Run(e)] # "idle" /\ Run(e) \in JobIds
    BY <1>7, JobNames DEF ItemTaken
  <2>3. executions[e].status # "absent"
    BY <2>2 DEF HandlerInv, ExecutionInv
  <2> QED
    BY <2>1, <2>3, <1>4
<1> QED
  BY <1>1, <1>2, <1>5, <1>6, <1>7

\* A job that is there and did not succeed moves, with the destination that
\* follows it.
LEMMA JobStep ==
  ASSUME SourceInv,
         NEW k \in JobIds, NEW row \in JobRow, JobUpdate(k, row),
         row.status # "absent", jobs[k].status \notin {"absent", "succeeded"},
         \/ handler' = handler /\ (handler[k] = "idle" \/ row.status = "running")
         \/ /\ handler[k] \in {"idle", "settle"}
            /\ \E phase \in {"idle", "start", "publish"} :
                 Goto(k, phase) /\ (phase # "idle" => row.status = "running"),
         ~Overlap \/ jobs[k].status = "failed" =>
           \A d \in Destinations : k = Publish(d) => created[d] = "none",
         recovering' \in BOOLEAN,
         outcome' \in [JobIds -> {"ok", "retry", "fail", "constraint"}],
         visit' \in [todo : SUBSET Executions, current : Executions \cup {None}],
         visit'.current \in {visit.current, None},
         UNCHANGED <<resolution, file, up, crashes, created>>
  PROVE  SourceInv'
<1> USE DEF SourceInv, Types
<1>1. jobs' = [jobs EXCEPT ![k] = row]
  BY DEF JobUpdate
<1>2. \A c \in Destinations : k = Publish(c) => ~Done(c)
  BY DEF DestinationInv, Done
<1> DEFINE shown == [status |-> row.status, attached |-> TRUE]
<1>3. shown \in DestinationRow /\ shown.status = row.status /\ shown.attached
  BY DEF DestinationRow, JobRow
<1> HIDE DEF shown
<1>4. /\ (ExecutionTypes /\ ArtifactTypes /\ DestinationTypes /\ ItemType /\ OutcomeInv)'
      /\ RowsGrow
      /\ item' = "completed" => item = "completed" \/ ItemFinished(executions')
      /\ \A c \in Destinations :
           destinations'[c] = IF k = Publish(c) /\ destinations[c].attached
                              THEN shown ELSE destinations[c]
  <2>1. CASE Followers(k) = {} /\ UNCHANGED rowVars
    <3>1. \A c \in Destinations : ~(k = Publish(c) /\ destinations[c].attached)
      BY <1>2, <2>1 DEF Followers, Done
    <3> QED
      BY <2>1, <3>1
      DEF rowVars, ExecutionTypes, ArtifactTypes, DestinationTypes, ItemType, OutcomeInv, RowsGrow,
          AllDone
  <2>2. CASE \E d \in Followers(k) : DestinationUpdate(d, shown)
    <3> PICK d \in Followers(k) : DestinationUpdate(d, shown)
      BY <2>2
    <3>1. /\ d \in Destinations /\ ~Done(d)
          /\ k = Publish(d) /\ destinations[d].attached
      BY DEF Followers, Done
    <3>2. ExecutionOf[d] \in Executions /\ resolution[ExecutionOf[d]] = "ready"
      BY <3>1, HasMembers DEF DestinationInv
    <3>3. executions[ExecutionOf[d]].status # "absent"
      BY <3>2 DEF ExecutionInv
    <3>4. ~AllDone(ExecutionOf[d])
      BY <3>1, HasMembers DEF AllDone, AllSucceeded, Done
    <3>5. item # "completed"
      BY <3>2, <3>4 DEF ItemInv
    <3>6. /\ (ExecutionTypes /\ ArtifactTypes /\ DestinationTypes /\ ItemType /\ OutcomeInv)'
          /\ RowsGrow
          /\ item' = "completed" => ItemFinished(executions')
      BY <1>3, <3>1, <3>3, <3>5, RowsFollow
    <3>7. destinations' = [destinations EXCEPT ![d] = shown]
      BY DEF DestinationUpdate
    <3>8. \A c \in Destinations : k = Publish(c) <=> c = d
      BY <3>1, JobNames
    <3> QED
      BY <3>1, <3>6, <3>7, <3>8 DEF DestinationTypes
  <2> QED
    BY <2>1, <2>2 DEF JobUpdate, shown
<1>5. JobTypes' /\ \A j \in JobIds : jobs'[j] = IF j = k THEN row ELSE jobs[j]
  BY <1>1 DEF JobTypes
<1>6. /\ handler' \in [JobIds -> Phases]
      /\ \A j \in JobIds \ {k} : handler'[j] = handler[j]
      /\ handler'[k] # "idle" => row.status = "running"
      /\ handler'[k] = handler[k] \/ handler'[k] \in {"idle", "start", "publish"}
  <2>1. {"idle", "start", "publish"} \subseteq Phases
    BY DEF Phases, Awaiting
  <2> QED
    BY <2>1 DEF Goto, ProcessTypes
<1>7. ProcessTypes'
  BY <1>6 DEF ProcessTypes
<1>8. HandlerInv'
  BY <1>5, <1>6 DEF HandlerInv
<1>9. ExecutionInv'
  <2>1. \A j \in JobIds : jobs'[j].status = "absent" <=> jobs[j].status = "absent"
    BY <1>5
  <2>2. \A e \in Executions : visit'.current = e => visit.current = e
    BY SourceAssumption
  <2> QED
    BY <1>4, <2>1, <2>2, JobNames DEF ExecutionInv, RowsGrow
<1>10. DestinationInv'
  <2> SUFFICES ASSUME NEW c \in Destinations
               PROVE  /\ destinations'[c].attached \/ created[c] # "none" =>
                           /\ resolution[ExecutionOf[c]] = "ready"
                           /\ jobs'[Publish(c)].status # "absent"
                      /\ ~destinations'[c].attached => destinations'[c].status = "pending"
                      /\ destinations'[c].status \in {"succeeded", "failed"} =>
                           jobs'[Publish(c)].status = destinations'[c].status
                      /\ created[c] \in {"succeeded", "failed"} =>
                           jobs'[Publish(c)].status = created[c]
    BY DEF DestinationInv
  <2>1. Publish(c) \in JobIds
    BY JobNames
  <2>2. CASE k = Publish(c)
    BY <1>3, <1>4, <1>5, <2>1, <2>2 DEF DestinationInv, Done
  <2>3. CASE k # Publish(c)
    BY <1>4, <1>5, <2>1, <2>3 DEF DestinationInv, Done
  <2> QED
    BY <2>2, <2>3
<1>11. MirrorInv'
  <2> SUFFICES ASSUME ~Overlap, NEW c \in Destinations
               PROVE  /\ destinations'[c].attached =>
                           destinations'[c].status = jobs'[Publish(c)].status
                      /\ created[c] # "none" => created[c] = jobs'[Publish(c)].status
    BY DEF MirrorInv
  <2>1. Publish(c) \in JobIds
    BY JobNames
  <2>2. CASE k = Publish(c)
    BY <1>3, <1>4, <1>5, <2>1, <2>2
  <2>3. CASE k # Publish(c)
    BY <1>4, <1>5, <2>1, <2>3 DEF MirrorInv
  <2> QED
    BY <2>2, <2>3
<1>12. /\ (ArtifactInv /\ HintInv /\ ItemInv)'
       /\ \A e \in Executions, phase \in Phases : CleanupFits(e, phase) => CleanupFits(e, phase)'
       /\ \A e \in Executions : handler[Run(e)] \in ItemTaken => item' # "completed"
  BY <1>4, <1>10, GrowthKeeps
<1>13. RunInv'
  <2> SUFFICES ASSUME NEW e \in Executions PROVE RunFits(e, handler[Run(e)])'
    BY DEF RunInv
  <2>1. Run(e) \in JobIds /\ RunFits(e, handler[Run(e)])
    BY JobNames DEF RunInv
  <2>2. CASE handler'[Run(e)] = handler[Run(e)]
    BY <1>12, <2>1, <2>2 DEF RunFits
  <2>3. CASE handler'[Run(e)] # handler[Run(e)]
    <3>1. Run(e) = k /\ handler[k] \in {"idle", "settle"}
          /\ handler'[Run(e)] \in {"idle", "start", "publish"}
      BY <1>6, <2>1, <2>3
    <3> QED
      BY <2>1, <3>1 DEF RunFits, Resolving, ItemTaken, FanningOut
  <2> QED
    BY <2>2, <2>3
<1>14. CleanupInv'
  <2> SUFFICES ASSUME NEW e \in Executions PROVE CleanupFits(e, handler[Cleanup(e)])'
    BY DEF CleanupInv
  <2>1. /\ Cleanup(e) \in JobIds /\ CleanupFits(e, handler[Cleanup(e)])
        /\ handler[Cleanup(e)] \in Phases
    BY JobNames DEF CleanupInv, ProcessTypes
  <2>2. CASE handler'[Cleanup(e)] = handler[Cleanup(e)]
    BY <1>12, <2>1, <2>2 DEF CleanupFits
  <2>3. CASE handler'[Cleanup(e)] # handler[Cleanup(e)]
    <3>1. handler'[Cleanup(e)] \in {"idle", "start", "publish"}
      BY <1>6, <2>1, <2>3
    <3> QED
      BY <3>1 DEF CleanupFits
  <2> QED
    BY <2>2, <2>3
<1> QED
  BY <1>4, <1>5, <1>7, <1>8, <1>9, <1>10, <1>11, <1>12, <1>13, <1>14

\* The job queue's steps.
LEMMA QueueSteps ==
  ASSUME SourceInv, NEW k \in JobIds
  PROVE  /\ Claim(k) => SourceInv'
         /\ LeaseExpires(k) => SourceInv'
         /\ Settle(k) => SourceInv'
         /\ Retry(k) => SourceInv'
<1> USE DEF SourceInv, Types
<1>1. /\ jobs[k] \in JobRow
      /\ recovering \in BOOLEAN /\ outcome \in [JobIds -> {"ok", "retry", "fail", "constraint"}]
      /\ visit \in [todo : SUBSET Executions, current : Executions \cup {None}]
  BY DEF JobTypes, ProcessTypes
<1>2. ASSUME Free(k), handler[k] \in Awaiting \cup {"settle"}
      PROVE  ~Overlap => \A d \in Destinations : k = Publish(d) => created[d] = "none"
  <2>1. \A d \in Destinations, e \in Executions : Publish(d) # Run(e)
    BY JobNames
  <2> QED
    BY <1>2, <2>1, Alone, HasMembers DEF Free
<1>3. ASSUME Claim(k) PROVE SourceInv'
  <2> DEFINE row == [jobs[k] EXCEPT !.status = "running", !.tries = @ + 1]
  <2>1. row \in JobRow /\ row.status = "running"
    <3>1. jobs[k].tries + 1 \in Nat
      BY <1>1 DEF JobRow
    <3>2. \A n \in Nat : [jobs[k] EXCEPT !.status = "running", !.tries = n] \in JobRow
      BY <1>1 DEF JobRow
    <3>3. row = [jobs[k] EXCEPT !.status = "running", !.tries = jobs[k].tries + 1]
      BY <1>1 DEF JobRow
    <3>4. row.status = "running"
      BY <1>1 DEF JobRow
    <3> HIDE DEF row
    <3> QED
      BY <3>1, <3>2, <3>3, <3>4
  <2>2. JobUpdate(k, row) /\ jobs[k].status \in Waiting
    BY <1>3 DEF Claim
  <2>3. /\ handler[k] = "idle"
        /\ \E phase \in {"idle", "start", "publish"} :
             Goto(k, phase) /\ (phase # "idle" => row.status = "running")
    BY <1>3, <2>1 DEF Claim
  <2>4. ~Overlap => \A d \in Destinations : k = Publish(d) => created[d] = "none"
    BY <1>2, <1>3 DEF Claim, Awaiting
  <2>5. /\ recovering' \in BOOLEAN
        /\ outcome' \in [JobIds -> {"ok", "retry", "fail", "constraint"}]
        /\ visit' \in [todo : SUBSET Executions, current : Executions \cup {None}]
        /\ visit'.current \in {visit.current, None}
    BY <1>1, <1>3 DEF Claim, Outcome
  <2>6. UNCHANGED <<resolution, file, up, crashes, created>>
    BY <1>3 DEF Claim
  <2> HIDE DEF row
  <2> QED
    BY <2>1, <2>2, <2>3, <2>4, <2>5, <2>6, JobStep DEF Waiting
<1>4. ASSUME LeaseExpires(k) PROVE SourceInv'
  <2> DEFINE row == [jobs[k] EXCEPT !.status =
                       IF jobs[k].cancel THEN "cancelled"
                       ELSE IF jobs[k].tries < jobs[k].max THEN "retrying" ELSE "failed"]
  <2>1. row \in JobRow /\ row.status # "absent"
    BY <1>1 DEF JobRow
  <2>2. /\ JobUpdate(k, row) /\ jobs[k].status = "running"
        /\ handler[k] = "idle" /\ handler' = handler
    BY <1>4 DEF LeaseExpires, processVars
  <2>3. ~Overlap => \A d \in Destinations : k = Publish(d) => created[d] = "none"
    BY <1>2, <1>4 DEF LeaseExpires, Free, Awaiting
  <2>4. UNCHANGED <<resolution, file, up, crashes, created, recovering, outcome, visit>>
    BY <1>4 DEF LeaseExpires, processVars
  <2> HIDE DEF row
  <2> QED
    BY <1>1, <2>1, <2>2, <2>3, <2>4, JobStep
<1>5. ASSUME Settle(k) PROVE SourceInv'
  <2> DEFINE row == [jobs[k] EXCEPT !.status =
                       IF jobs[k].cancel THEN "cancelled"
                       ELSE IF outcome[k] = "ok" THEN "succeeded"
                       ELSE IF outcome[k] = "retry" /\ jobs[k].tries < jobs[k].max
                            THEN "retrying" ELSE "failed"]
  <2>1. row \in JobRow /\ row.status # "absent"
    BY <1>1 DEF JobRow
  <2>2. JobUpdate(k, row) /\ handler[k] = "settle" /\ Goto(k, "idle")
    BY <1>5 DEF Settle
  <2>3. jobs[k].status = "running"
    BY <2>2 DEF HandlerInv
  <2>4. ~Overlap => \A d \in Destinations : k = Publish(d) => created[d] = "none"
    BY <1>2, <1>5, <2>2 DEF Settle
  <2>5. /\ recovering' \in BOOLEAN
        /\ outcome' \in [JobIds -> {"ok", "retry", "fail", "constraint"}]
        /\ UNCHANGED <<resolution, file, up, crashes, created, visit>>
    BY <1>1, <1>5 DEF Settle, Outcome
  <2> HIDE DEF row
  <2> QED
    BY <1>1, <2>1, <2>2, <2>3, <2>4, <2>5, JobStep
<1>6. ASSUME Retry(k) PROVE SourceInv'
  <2> DEFINE row == [status |-> "pending", tries |-> jobs[k].tries, cancel |-> FALSE,
                     max |-> IF jobs[k].tries < jobs[k].max THEN jobs[k].max
                             ELSE jobs[k].tries + 1]
  <2>1. row \in JobRow /\ row.status # "absent"
    BY <1>1 DEF JobRow
  <2>2. JobUpdate(k, row) /\ jobs[k].status = "failed" /\ handler' = handler
    BY <1>6 DEF Retry, processVars
  <2>3. handler[k] = "idle"
    BY <2>2 DEF HandlerInv
  <2>4. \A d \in Destinations : created[d] = "none"
    BY <1>6, AloneForCommands DEF Retry
  <2>5. UNCHANGED <<resolution, file, up, crashes, created, recovering, outcome, visit>>
    BY <1>6 DEF Retry, processVars
  <2> HIDE DEF row
  <2> QED
    BY <1>1, <2>1, <2>2, <2>3, <2>4, <2>5, JobStep
<1> QED
  BY <1>3, <1>4, <1>5, <1>6

\* A cancellation ends a waiting job and marks a running one.
LEMMA CancellationStep ==
  ASSUME SourceInv, NEW k \in JobIds, RequestCancellation(k)
  PROVE  SourceInv'
<1> USE DEF SourceInv, Types
<1>1. jobs[k] \in JobRow /\ UNCHANGED <<resolution, processVars, file>>
  BY DEF JobTypes, RequestCancellation
<1>2. CASE /\ jobs[k].status \in Waiting
           /\ JobUpdate(k, [jobs[k] EXCEPT !.status = "cancelled", !.cancel = TRUE])
  <2> DEFINE row == [jobs[k] EXCEPT !.status = "cancelled", !.cancel = TRUE]
  <2>1. row \in JobRow /\ row.status # "absent"
    BY <1>1 DEF JobRow
  <2>2. handler[k] = "idle"
    BY <1>2 DEF HandlerInv, Waiting
  <2>3. ~Overlap => \A d \in Destinations : created[d] = "none"
    BY AloneForCommands DEF RequestCancellation, CommandTurn
  <2>4. /\ recovering \in BOOLEAN /\ outcome \in [JobIds -> {"ok", "retry", "fail", "constraint"}]
        /\ visit \in [todo : SUBSET Executions, current : Executions \cup {None}]
    BY DEF ProcessTypes
  <2>5. JobUpdate(k, row)
    BY <1>2
  <2> HIDE DEF row
  <2> QED
    BY <1>1, <1>2, <2>1, <2>2, <2>3, <2>4, <2>5, JobStep DEF Waiting, processVars
<1>3. CASE jobs' = [jobs EXCEPT ![k].cancel = TRUE] /\ UNCHANGED rowVars
  <2>1. jobs' \in [JobIds -> JobRow] /\ \A j \in JobIds : jobs'[j].status = jobs[j].status
    <3>1. [jobs[k] EXCEPT !.cancel = TRUE] \in JobRow
          /\ [jobs[k] EXCEPT !.cancel = TRUE].status = jobs[k].status
      BY <1>1 DEF JobRow
    <3> QED
      BY <1>3, <3>1 DEF JobTypes
  <2>2. (ExecutionTypes /\ ArtifactTypes /\ DestinationTypes /\ JobTypes /\ ItemType /\ ProcessTypes)'
    BY <1>1, <1>3, <2>1
    DEF ExecutionTypes, ArtifactTypes, DestinationTypes, JobTypes, ItemType, ProcessTypes, rowVars,
        processVars
  <2>3. (HandlerInv /\ ExecutionInv /\ DestinationInv /\ OutcomeInv /\ MirrorInv)'
    BY <1>1, <1>3, <2>1, JobNames
    DEF HandlerInv, ExecutionInv, DestinationInv, OutcomeInv, MirrorInv, rowVars, processVars,
        AllDone, Done
  <2>4. (ArtifactInv /\ HintInv /\ ItemInv /\ RunInv /\ CleanupInv)'
    BY <1>1, <1>3
    DEF ArtifactInv, HintInv, ItemInv, RunInv, CleanupInv, RunFits, CleanupFits, rowVars,
        processVars, AllDone
  <2> QED
    BY <2>2, <2>3, <2>4
<1> QED
  BY <1>2, <1>3 DEF RequestCancellation

-----------------------------------------------------------------------------
(* The server and the observation of the item.                             *)

\* Only a job that is not there is created.
LEMMA JobsCreated ==
  ASSUME JobTypes, NEW k \in JobIds, Create(k)
  PROVE  /\ JobTypes'
         /\ \A j \in JobIds : jobs'[j].status = IF j = k /\ jobs[j].status = "absent"
                                                THEN "pending" ELSE jobs[j].status
<1>1. NewJob \in JobRow /\ NewJob.status = "pending"
  BY SourceAssumption DEF NewJob, JobRow
<1>2. CASE jobs[k].status = "absent"
  BY <1>1, <1>2 DEF Create, JobTypes
<1>3. CASE jobs[k].status # "absent"
  BY <1>3 DEF Create, JobTypes
<1> QED
  BY <1>2, <1>3

\* A run job of an execution that is there, or a cleanup job that is due, may
\* be created at any time.
LEMMA CreateStep ==
  ASSUME SourceInv, NEW k \in JobIds, Create(k) \/ jobs' = jobs,
         \A e \in Executions : /\ k = Run(e) => executions[e].status # "absent"
                               /\ k = Cleanup(e) => executions[e].due = "now",
         \A d \in Destinations : k # Publish(d),
         recovering' \in BOOLEAN,
         visit' \in [todo : SUBSET Executions, current : Executions \cup {None}],
         visit'.current \in {visit.current, None},
         UNCHANGED <<rowVars, resolution, file, up, crashes, handler, outcome, created>>
  PROVE  SourceInv'
<1> USE DEF SourceInv, Types, rowVars
<1>1. JobTypes' /\ \A j \in JobIds : /\ j # k => jobs'[j].status = jobs[j].status
                                     /\ jobs[j].status # "absent" => jobs'[j].status = jobs[j].status
  BY JobsCreated DEF JobTypes
<1>2. (ExecutionTypes /\ ArtifactTypes /\ DestinationTypes /\ ItemType /\ ProcessTypes)'
  BY DEF ExecutionTypes, ArtifactTypes, DestinationTypes, ItemType, ProcessTypes
<1>3. HandlerInv'
  BY <1>1 DEF HandlerInv
<1>4. ExecutionInv'
  <2> SUFFICES ASSUME NEW e \in Executions
               PROVE  /\ executions[e].status = "absent" =>
                           /\ jobs'[Run(e)].status = "absent"
                           /\ resolution[e] = "none"
                           /\ visit'.current # e
                      /\ jobs'[Cleanup(e)].status # "absent" => executions[e].due = "now"
    BY DEF ExecutionInv
  <2>1. Run(e) \in JobIds /\ Cleanup(e) \in JobIds /\ e # None
    BY JobNames, SourceAssumption
  <2> QED
    BY <1>1, <2>1 DEF ExecutionInv
<1>5. (DestinationInv /\ OutcomeInv /\ MirrorInv)'
  BY <1>1, JobNames DEF DestinationInv, OutcomeInv, MirrorInv, AllDone, Done
<1>6. (ArtifactInv /\ HintInv /\ ItemInv /\ RunInv /\ CleanupInv)'
  BY DEF ArtifactInv, HintInv, ItemInv, RunInv, CleanupInv, RunFits, CleanupFits, AllDone
<1> QED
  BY <1>1, <1>2, <1>3, <1>4, <1>5, <1>6

\* recover creates the jobs that are missing.
LEMMA RecoverStep ==
  ASSUME SourceInv, Recover
  PROVE  SourceInv'
<1> USE DEF SourceInv, Types
<1>1. \E k \in NeedingJob \cup {Observe} : Create(k) \/ jobs' = jobs
  BY DEF Recover
<1>2. PICK k \in NeedingJob \cup {Observe} : Create(k) \/ jobs' = jobs
  BY <1>1
<1>3. /\ k \in JobIds
      /\ \A e \in Executions : /\ k = Run(e) => executions[e].status # "absent"
                               /\ k = Cleanup(e) => executions[e].due = "now"
      /\ \A d \in Destinations : k # Publish(d)
  <2>1. CASE k = Observe
    BY <2>1, JobNames
  <2>2. CASE \E e \in Executions : k = Run(e) /\ executions[e].status = "pending"
    BY <2>2, JobNames
  <2>3. CASE \E e \in Executions : k = Cleanup(e) /\ executions[e].due = "now"
    BY <2>3, JobNames
  <2> QED
    BY <2>1, <2>2, <2>3 DEF NeedingJob
<1>4. UNCHANGED <<rowVars, resolution, file, up, crashes, handler, outcome, created, visit>>
  BY DEF Recover
<1>5. /\ visit \in [todo : SUBSET Executions, current : Executions \cup {None}]
      /\ recovering' \in BOOLEAN
  BY DEF Recover, ProcessTypes
<1> QED
  BY <1>2, <1>3, <1>4, <1>5, CreateStep

\* The server starts, or dies with its handlers.
LEMMA ServerStarts ==
  ASSUME SourceInv, Boot \/ Crash
  PROVE  SourceInv'
<1> USE DEF SourceInv, Types
<1>1. CASE Boot
  <2>1. UNCHANGED <<storeVars, file, crashes, handler, outcome, visit, created>>
    BY <1>1 DEF Boot
  <2>2. /\ (ExecutionTypes /\ ArtifactTypes /\ DestinationTypes /\ JobTypes /\ ItemType)'
        /\ (ExecutionInv /\ DestinationInv /\ OutcomeInv /\ MirrorInv)'
        /\ (ArtifactInv /\ HintInv /\ ItemInv)'
    BY <2>1, StoreKept
  <2>3. ProcessTypes'
    BY <1>1, <2>1 DEF Boot, ProcessTypes, storeVars
  <2>4. (HandlerInv /\ RunInv /\ CleanupInv)'
    BY <2>1 DEF HandlerInv, RunInv, CleanupInv, RunFits, CleanupFits, storeVars, rowVars
  <2> QED
    BY <2>2, <2>3, <2>4
<1>2. CASE Crash
  <2>1. /\ UNCHANGED <<storeVars, file>> /\ crashes' = crashes + 1 /\ crashes < CrashBound
        /\ up' = FALSE /\ recovering' = FALSE
        /\ handler' = [k \in JobIds |-> "idle"]
        /\ outcome' = [k \in JobIds |-> "ok"]
        /\ visit' = [todo |-> {}, current |-> None]
        /\ created' = [d \in Destinations |-> "none"]
    BY <1>2 DEF Crash
  <2>2. (ExecutionTypes /\ ArtifactTypes /\ DestinationTypes /\ JobTypes /\ ItemType)'
    BY <2>1
    DEF ExecutionTypes, ArtifactTypes, DestinationTypes, JobTypes, ItemType, storeVars, rowVars
  <2>3. ProcessTypes'
    <3>1. crashes' \in 0..CrashBound
      BY <2>1, SourceAssumption DEF ProcessTypes
    <3>2. handler' \in [JobIds -> Phases]
      BY <2>1 DEF Phases, Awaiting
    <3> QED
      BY <2>1, <3>1, <3>2 DEF ProcessTypes, storeVars
  <2>4. (HandlerInv /\ ExecutionInv /\ DestinationInv /\ OutcomeInv /\ MirrorInv)'
    <3>1. \A d \in Destinations : created'[d] = "none"
      BY <2>1
    <3>2. (DestinationInv /\ OutcomeInv /\ MirrorInv)'
      BY <2>1, <3>1
      DEF DestinationInv, OutcomeInv, MirrorInv, AllDone, Done, storeVars, rowVars
    <3>3. (HandlerInv /\ ExecutionInv)'
      BY <2>1, SourceAssumption DEF HandlerInv, ExecutionInv, storeVars, rowVars
    <3> QED
      BY <3>2, <3>3
  <2>5. (ArtifactInv /\ HintInv /\ ItemInv)'
    BY <2>1 DEF ArtifactInv, HintInv, ItemInv, AllDone, storeVars, rowVars
  <2>6. RunInv'
    BY <2>1, JobNames, HasMembers DEF RunInv, RunFits, Resolving, ItemTaken, FanningOut
  <2>7. CleanupInv'
    BY <2>1, JobNames DEF CleanupInv, CleanupFits
  <2> QED
    BY <2>2, <2>3, <2>4, <2>5, <2>6, <2>7
<1> QED
  BY <1>1, <1>2

\* The visits of the observer, which make the executions of new items.
LEMMA ObserveSteps ==
  ASSUME SourceInv, ObserveStep
  PROVE  SourceInv'
<1> USE DEF SourceInv, Types
<1>1. ASSUME NEW e0 \in Executions, ObserveCreate(e0) PROVE SourceInv'
  <2>1. /\ visit.current = None /\ visit' = [todo |-> visit.todo \ {e0}, current |-> e0]
        /\ UNCHANGED <<jobs, destinations, artifacts, resolution, file,
                       up, crashes, recovering, handler, outcome, created>>
    BY <1>1 DEF ObserveCreate
  <2>2. /\ \A e \in Executions \ {e0} : executions'[e] = executions[e]
        /\ executions'[e0].status # "absent"
        /\ executions[e0].status # "absent" => executions'[e0] = executions[e0]
        /\ executions[e0].status = "absent" => executions'[e0].status = "pending"
        /\ executions'[e0].cleanup = executions[e0].cleanup
        /\ executions'[e0].due = executions[e0].due
        /\ executions' \in [Executions -> ExecutionRow]
    <3>1. [executions[e0] EXCEPT !.status = "pending"] \in ExecutionRow
      BY DEF ExecutionTypes, ExecutionRow
    <3>2. executions[e0] \in ExecutionRow
      BY DEF ExecutionTypes
    <3>3. /\ [executions[e0] EXCEPT !.status = "pending"].cleanup = executions[e0].cleanup
          /\ [executions[e0] EXCEPT !.status = "pending"].due = executions[e0].due
          /\ [executions[e0] EXCEPT !.status = "pending"].status = "pending"
      BY <3>2 DEF ExecutionRow
    <3> QED
      BY <1>1, <3>1, <3>3 DEF ObserveCreate, ExecutionTypes
  <2>3. /\ item' \in ItemStates
        /\ item' = "completed" <=> item = "completed"
    BY <1>1 DEF ObserveCreate, ItemType, ItemStates
  <2>4. ExecutionTypes'
    BY <2>2 DEF ExecutionTypes
  <2>5. (ArtifactTypes /\ DestinationTypes /\ JobTypes /\ ItemType)'
    BY <2>1, <2>3 DEF ArtifactTypes, DestinationTypes, JobTypes, ItemType
  <2>6. ProcessTypes'
    BY <2>1 DEF ProcessTypes
  <2>7. (HandlerInv /\ DestinationInv /\ MirrorInv)'
    BY <2>1 DEF HandlerInv, DestinationInv, MirrorInv, Done
  <2>8. ExecutionInv'
    BY <2>1, <2>2 DEF ExecutionInv
  <2>9. OutcomeInv'
    <3>1. executions[e0].status = "absent" => ~AllDone(e0)
      BY DEF OutcomeInv
    <3>2. \A e \in Executions : AllDone(e)' <=> AllDone(e)
      BY <2>1 DEF AllDone
    <3> QED
      BY <2>2, <3>1, <3>2 DEF OutcomeInv
  <2>10. (ArtifactInv /\ HintInv /\ ItemInv)'
    <3>1. \A e \in Executions : AllDone(e)' <=> AllDone(e)
      BY <2>1 DEF AllDone
    <3> QED
      BY <2>1, <2>2, <2>3, <3>1 DEF ArtifactInv, HintInv, ItemInv
  <2>11. (RunInv /\ CleanupInv)'
    BY <2>1, <2>3 DEF RunInv, CleanupInv, RunFits, CleanupFits
  <2> QED
    BY <2>4, <2>5, <2>6, <2>7, <2>8, <2>9, <2>10, <2>11
<1>2. ASSUME ObserveEnqueue PROVE SourceInv'
  <2>1. /\ Create(Run(visit.current)) /\ visit.current # None
        /\ visit' = [visit EXCEPT !.current = None]
        /\ UNCHANGED <<rowVars, resolution, file, up, crashes, recovering, handler, outcome, created>>
    BY <1>2 DEF ObserveEnqueue
  <2>2. /\ visit.current \in Executions /\ executions[visit.current].status # "absent"
        /\ visit' \in [todo : SUBSET Executions, current : Executions \cup {None}]
        /\ visit'.current = None
    BY <2>1 DEF ProcessTypes, ExecutionInv
  <2>3. \A e \in Executions : Run(visit.current) = Run(e) => e = visit.current
    BY <2>2, JobNames
  <2>4. /\ Run(visit.current) \in JobIds
        /\ \A e \in Executions : Run(visit.current) # Cleanup(e)
        /\ \A d \in Destinations : Run(visit.current) # Publish(d)
    BY <2>2, JobNames
  <2>5. recovering' \in BOOLEAN
    BY <2>1 DEF ProcessTypes
  <2> QED
    BY <2>1, <2>2, <2>3, <2>4, <2>5, CreateStep
<1> QED
  BY <1>1, <1>2, HandlersGoOn DEF ObserveStep

-----------------------------------------------------------------------------
(* The resolution of the media.                                            *)

\* A cleanup handler is at work only when everything was published.
LEMMA CleanedIsDone ==
  ASSUME SourceInv, NEW e \in Executions, handler[Cleanup(e)] # "idle"
  PROVE  AllDone(e) /\ executions[e].due = "now"
<1>1. executions[e].due = "now"
  BY JobNames DEF SourceInv, HandlerInv, ExecutionInv
<1> QED
  BY <1>1 DEF SourceInv, Types, ExecutionTypes, OutcomeInv

\* A step of a run handler whose media is not ready, and is not by this step.
LEMMA ResolvingStep ==
  ASSUME SourceInv,
         NEW e0 \in Executions, handler[Run(e0)] \in Resolving,
         NEW phase \in Phases, Goto(Run(e0), phase), RunFits(e0, phase)',
         UNCHANGED <<jobs, executions, destinations, artifacts, up, crashes, recovering, visit,
                     created>>,
         \/ resolution' = resolution
         \/ \E r \in {"resolving", "failed"} : resolution' = [resolution EXCEPT ![e0] = r],
         \/ file' = file
         \/ \E there \in BOOLEAN : /\ file' = [file EXCEPT ![e0] = there]
                                   /\ there /\ HintsAreOriginals => Hints[e0] = {},
         item' \in ItemStates, item' = "completed" <=> item = "completed",
         outcome' \in [JobIds -> {"ok", "retry", "fail", "constraint"}]
  PROVE  SourceInv'
<1> USE DEF SourceInv, Types
<1>1. resolution[e0] # "ready" /\ Run(e0) \in JobIds /\ handler[Run(e0)] # "idle"
  BY JobNames DEF RunInv, RunFits, Resolving
<1>2. ~AllDone(e0) /\ artifacts[e0] = NoArtifact /\ artifacts[e0].ownership = "none"
  BY <1>1, DoneIsReady DEF ArtifactInv
<1>3. executions[e0].cleanup = "not_eligible" /\ handler[Cleanup(e0)] = "idle"
  BY <1>2, CleanedIsDone DEF OutcomeInv
<1>4. /\ resolution' \in [Executions -> {"none", "resolving", "ready", "failed"}]
      /\ \A e \in Executions \ {e0} : resolution'[e] = resolution[e]
      /\ resolution'[e0] # "ready"
      /\ resolution[e0] # "none" => resolution'[e0] # "none"
  BY <1>1 DEF ProcessTypes
<1>5. /\ file' \in [Media -> BOOLEAN]
      /\ \A m \in Media \ {e0} : file'[m] = file[m]
      /\ HintsAreOriginals /\ file'[e0] => Hints[e0] = {}
  <2>1. e0 \in Media
    BY DEF Media
  <2>2. CASE file' = file
    BY <2>2 DEF ProcessTypes, HintInv
  <2>3. CASE \E there \in BOOLEAN : /\ file' = [file EXCEPT ![e0] = there]
                                    /\ there /\ HintsAreOriginals => Hints[e0] = {}
    BY <2>1, <2>3 DEF ProcessTypes
  <2> QED
    BY <2>2, <2>3
<1>6. executions[e0].status # "absent"
  BY <1>1 DEF HandlerInv, ExecutionInv
<1>7. /\ handler' \in [JobIds -> Phases] /\ handler'[Run(e0)] = phase
      /\ \A j \in JobIds \ {Run(e0)} : handler'[j] = handler[j]
  BY <1>1 DEF Goto, ProcessTypes
<1>8. Types'
  BY <1>4, <1>5, <1>7
  DEF ExecutionTypes, ArtifactTypes, DestinationTypes, JobTypes, ItemType, ProcessTypes
<1>9. HandlerInv'
  BY <1>1, <1>7 DEF HandlerInv
<1>10. (ExecutionInv /\ DestinationInv)'
  BY <1>4, <1>6, <1>1, HasMembers DEF ExecutionInv, DestinationInv, Done
<1>11. (OutcomeInv /\ MirrorInv)'
  BY DEF OutcomeInv, MirrorInv, AllDone
<1>12. \A e \in Executions : AllDone(e)' <=> AllDone(e)
  BY DEF AllDone
<1>13. ArtifactInv'
  <2>1. \A m \in Originals : file'[m]
    BY <1>5, SourceAssumption DEF ArtifactInv, Media
  <2>2. \A e \in Executions \ {e0} : file'[e] = file[e]
    BY <1>5 DEF Media
  <2> QED
    BY <1>1, <1>2, <1>4, <1>12, <2>1, <2>2 DEF ArtifactInv
<1>14. HintInv'
  <2>1. \A e \in Executions \ {e0} : file'[e] = file[e]
    BY <1>5 DEF Media
  <2> QED
    BY <1>3, <1>5, <2>1 DEF HintInv
<1>15. ItemInv'
  BY <1>4, <1>12 DEF ItemInv
<1>16. RunInv'
  <2> SUFFICES ASSUME NEW e \in Executions PROVE RunFits(e, handler[Run(e)])'
    BY DEF RunInv
  <2>1. CASE e = e0
    BY <1>7, <2>1 DEF RunFits
  <2>2. CASE e # e0
    <3>1. handler'[Run(e)] = handler[Run(e)] /\ file'[e] = file[e]
      BY <1>5, <1>7, <2>2, JobNames DEF Media
    <3> QED
      BY <1>4, <2>2, <3>1 DEF RunInv, RunFits
  <2> QED
    BY <2>1, <2>2
<1>17. CleanupInv'
  <2> SUFFICES ASSUME NEW e \in Executions PROVE CleanupFits(e, handler[Cleanup(e)])'
    BY DEF CleanupInv
  <2>1. handler'[Cleanup(e)] = handler[Cleanup(e)]
    BY <1>7, JobNames
  <2>2. CASE e = e0
    BY <1>3, <2>1, <2>2 DEF CleanupFits
  <2>3. CASE e # e0
    <3>1. file'[e] = file[e]
      BY <1>5, <2>3 DEF Media
    <3> QED
      BY <2>1, <3>1 DEF CleanupInv, CleanupFits
  <2> QED
    BY <2>2, <2>3
<1> QED
  BY <1>8, <1>9, <1>10, <1>11, <1>13, <1>14, <1>15, <1>16, <1>17

\* A run from its claim to the resolution of its media, or its failure.
LEMMA ResolvingSteps ==
  ASSUME SourceInv, NEW e0 \in Executions,
         RunBegin(e0) \/ RunBeginItem(e0) \/ RunAcquire(e0) \/ RunDiscard(e0)
           \/ RunFailResolution(e0) \/ RunFailItem(e0)
  PROVE  SourceInv'
<1> USE DEF SourceInv, Types, At, HandlerMoves, rowVars, Unexpected, Outcome
<1>1. /\ outcome \in [JobIds -> {"ok", "retry", "fail", "constraint"}]
      /\ resolution \in [Executions -> {"none", "resolving", "ready", "failed"}]
      /\ item \in ItemStates /\ Run(e0) \in JobIds
  BY JobNames DEF ProcessTypes, ItemType
<1>2. RunFits(e0, handler[Run(e0)])
  BY DEF RunInv
<1>3. /\ {"item_original", "item_refuse", "item_download", "settle", "import", "fail_resolution",
          "fail_item", "fail_run", "original", "acquire"} \subseteq Phases
      /\ {"resolving", "failed"} \subseteq ItemStates
  BY DEF Phases, Awaiting, AfterBegin, ItemStates
<1>4. CASE RunBegin(e0)
  <2>1. PICK phase \in {"item_original", "item_refuse", "item_download"} :
          /\ phase = "item_download" => Matches(e0) = {}
          /\ Goto(Run(e0), phase)
    BY <1>4 DEF RunBegin
  <2>2. /\ handler[Run(e0)] = "match"
        /\ resolution' = [resolution EXCEPT ![e0] = "resolving"]
        /\ UNCHANGED <<rowVars, file, outcome, created, jobs, up, crashes, recovering, visit>>
    BY <1>4 DEF RunBegin
  <2>3. HintsAreOriginals /\ phase = "item_download" => Hints[e0] = {}
    BY <2>1 DEF HintsAreOriginals, Matches
  <2>4. RunFits(e0, phase)'
    BY <1>1, <1>2, <2>2, <2>3 DEF RunFits, Resolving, ItemTaken, FanningOut, HintsAreOriginals
  <2>5. phase \in Phases /\ handler[Run(e0)] \in Resolving
    BY <1>3, <2>2 DEF Resolving
  <2> QED
    BY <1>1, <2>1, <2>2, <2>4, <2>5, ResolvingStep
<1>5. CASE RunBeginItem(e0)
  <2>1. PICK at \in DOMAIN AfterBegin :
          /\ handler[Run(e0)] = at
          /\ \/ /\ item # "completed"
                /\ item' = "resolving"
                /\ Goto(Run(e0), AfterBegin[at])
                /\ Outcome(Run(e0), IF at = "item_refuse" THEN "fail" ELSE "ok")
             \/ /\ item = "completed"
                /\ item' = item
                /\ Unexpected(e0, "constraint")
    BY <1>5 DEF RunBeginItem
  <2>2. UNCHANGED <<executions, destinations, artifacts, resolution, file, created,
                    jobs, up, crashes, recovering, visit>>
    BY <1>5 DEF RunBeginItem
  <2>3. handler[Run(e0)] \in Resolving
    BY <2>1, Begun DEF Resolving
  <2>4. CASE item = "completed"
    <3>1. RunFits(e0, "settle")'
      BY <1>2, <2>1, <2>2, Begun DEF RunFits, Resolving, ItemTaken, FanningOut
    <3>2. item' = item /\ Goto(Run(e0), "settle") /\ outcome' \in [JobIds -> {"ok", "retry", "fail", "constraint"}]
      BY <1>1, <2>1, <2>4
    <3> QED
      BY <1>1, <1>3, <2>2, <2>3, <3>1, <3>2, ResolvingStep
  <2>5. CASE item # "completed"
    <3>1. /\ item' = "resolving" /\ Goto(Run(e0), AfterBegin[at])
          /\ outcome' \in [JobIds -> {"ok", "retry", "fail", "constraint"}]
      <4>1. Outcome(Run(e0), IF at = "item_refuse" THEN "fail" ELSE "ok")
        BY <2>1, <2>5
      <4> QED
        BY <1>1, <2>1, <2>5, <4>1
    <3>2. AfterBegin[at] \in {"original", "acquire", "fail_resolution"}
          /\ (AfterBegin[at] = "acquire" => at = "item_download")
      BY Begun
    <3>3. PICK phase \in {"original", "acquire", "fail_resolution"} :
            phase = AfterBegin[at]
      BY <3>2
    <3>4. RunFits(e0, phase)'
      BY <1>2, <2>1, <2>2, <2>3, <3>1, <3>2, <3>3, Begun
      DEF RunFits, Resolving, ItemTaken, FanningOut, HintsAreOriginals
    <3>5. phase \in Phases
      BY <1>3
    <3> QED
      BY <1>3, <2>2, <2>3, <2>5, <3>1, <3>3, <3>4, <3>5, ResolvingStep
  <2> QED
    BY <2>4, <2>5
<1>6. CASE RunAcquire(e0)
  <2>1. /\ handler[Run(e0)] = "acquire" /\ Goto(Run(e0), "import")
        /\ file' = [file EXCEPT ![e0] = TRUE]
        /\ UNCHANGED <<rowVars, resolution, outcome, created, jobs, up, crashes, recovering, visit>>
    BY <1>6 DEF RunAcquire, Acquired
  <2>2. HintsAreOriginals => Hints[e0] = {}
    BY <1>2, <2>1 DEF RunFits
  <2>3. file'[e0]
    BY <2>1 DEF ProcessTypes, Media
  <2>4. RunFits(e0, "import")'
    BY <1>2, <2>1, <2>2, <2>3 DEF RunFits, Resolving, ItemTaken, FanningOut
  <2> QED
    BY <1>1, <1>3, <2>1, <2>2, <2>4, ResolvingStep DEF Resolving
<1>7. CASE RunDiscard(e0)
  <2>1. /\ handler[Run(e0)] = "discard" /\ Goto(Run(e0), "fail_resolution")
        /\ file' = [file EXCEPT ![e0] = FALSE]
        /\ UNCHANGED <<rowVars, resolution, outcome, created, jobs, up, crashes, recovering, visit>>
    BY <1>7 DEF RunDiscard
  <2>2. RunFits(e0, "fail_resolution")'
    BY <1>2, <2>1 DEF RunFits, Resolving, ItemTaken, FanningOut
  <2> QED
    BY <1>1, <1>3, <2>1, <2>2, ResolvingStep DEF Resolving
<1>8. CASE RunFailResolution(e0)
  <2>1. /\ handler[Run(e0)] = "fail_resolution" /\ Goto(Run(e0), "fail_item")
        /\ resolution' = [resolution EXCEPT ![e0] = "failed"]
        /\ UNCHANGED <<rowVars, file, outcome, created, jobs, up, crashes, recovering, visit>>
    BY <1>8 DEF RunFailResolution
  <2>2. RunFits(e0, "fail_item")'
    BY <1>1, <1>2, <2>1 DEF RunFits, Resolving, ItemTaken, FanningOut
  <2> QED
    BY <1>1, <1>3, <2>1, <2>2, ResolvingStep DEF Resolving
<1>9. CASE RunFailItem(e0)
  <2>1. /\ handler[Run(e0)] = "fail_item" /\ Goto(Run(e0), "fail_run")
        /\ item' = "failed"
        /\ UNCHANGED <<executions, destinations, artifacts, resolution, file, outcome, created,
                       jobs, up, crashes, recovering, visit>>
    BY <1>9 DEF RunFailItem
  <2>2. RunFits(e0, "fail_run")' /\ item # "completed"
    BY <1>2, <2>1 DEF RunFits, Resolving, ItemTaken, FanningOut
  <2> QED
    BY <1>1, <1>3, <2>1, <2>2, ResolvingStep DEF Resolving
<1> QED
  BY <1>4, <1>5, <1>6, <1>7, <1>8, <1>9

\* The media becomes ready: the execution gets its artifact.
LEMMA MadeReady ==
  ASSUME SourceInv,
         NEW e0 \in Executions, handler[Run(e0)] \in ItemTaken,
         NEW ownership \in {"user_owned_original", "openrepurpose_temporary"},
         NEW path \in Media, NEW cleanup \in {"protected", "not_eligible"},
         ownership = "user_owned_original" =>
           /\ cleanup = "protected" /\ path \in Hints[e0],
         ownership = "openrepurpose_temporary" =>
           path = e0 /\ file[e0] /\ cleanup = "not_eligible",
         Ready(e0, ownership, path, cleanup),
         UNCHANGED <<file, created>>, HandlerMoves
  PROVE  SourceInv'
<1> USE DEF SourceInv, Types, HandlerMoves, rowVars
<1>1. /\ resolution[e0] # "ready" /\ item # "completed" /\ RunFits(e0, handler[Run(e0)])
      /\ Run(e0) \in JobIds /\ handler[Run(e0)] # "idle"
  BY JobNames DEF RunInv, RunFits, Resolving, ItemTaken
<1>2. ~AllDone(e0) /\ artifacts[e0] = NoArtifact
  BY <1>1, DoneIsReady DEF ArtifactInv
<1>3. executions[e0].cleanup = "not_eligible" /\ handler[Cleanup(e0)] = "idle"
  BY <1>2, CleanedIsDone DEF OutcomeInv
<1>4. executions[e0].status # "absent"
  BY <1>1 DEF HandlerInv, ExecutionInv
<1>5. {"fanout", "settle"} \subseteq Phases
  BY DEF Phases
<1>6. CASE Unexpected(e0, "constraint") /\ UNCHANGED <<resolution, rowVars>>
  <2>1. /\ Goto(Run(e0), "settle")
        /\ outcome' \in [JobIds -> {"ok", "retry", "fail", "constraint"}]
    BY <1>6 DEF Unexpected, Outcome, ProcessTypes
  <2>2. RunFits(e0, "settle")
    BY <1>1 DEF RunFits, Resolving, ItemTaken, FanningOut
  <2> QED
    BY <1>1, <1>5, <1>6, <2>1, <2>2, HandlerMove, JobNames DEF storeVars
<1>7. CASE /\ resolution' = [resolution EXCEPT ![e0] = "ready"]
           /\ item' = "media_ready"
           /\ artifacts' = [artifacts EXCEPT ![e0] =
                IF @ # NoArtifact THEN [@ EXCEPT !.deleted = FALSE]
                ELSE [ownership |-> ownership, path |-> path, cleanup |-> cleanup,
                      deleted |-> FALSE]]
           /\ Goto(Run(e0), "fanout")
           /\ UNCHANGED <<executions, destinations, outcome>>
  <2> DEFINE new == [ownership |-> ownership, path |-> path, cleanup |-> cleanup, deleted |-> FALSE]
  <2>1. /\ new \in Artifact /\ new.ownership = ownership /\ new.path = path
        /\ new.cleanup = cleanup /\ ~new.deleted
    BY DEF Artifact
  <2>2. new # NoArtifact
    BY <2>1 DEF NoArtifact
  <2>3. artifacts' = [artifacts EXCEPT ![e0] = new]
    BY <1>2, <1>7
  <2> HIDE DEF new
  <2>4. \A e \in Executions : artifacts'[e] = IF e = e0 THEN new ELSE artifacts[e]
    BY <2>3 DEF ArtifactTypes
  <2>5. ArtifactTypes'
    BY <2>1, <2>3, <2>4 DEF ArtifactTypes
  <2>6. /\ resolution' \in [Executions -> {"none", "resolving", "ready", "failed"}]
        /\ \A e \in Executions : resolution'[e] = IF e = e0 THEN "ready" ELSE resolution[e]
    BY <1>7 DEF ProcessTypes
  <2>7. /\ handler' \in [JobIds -> Phases] /\ handler'[Run(e0)] = "fanout"
        /\ \A j \in JobIds \ {Run(e0)} : handler'[j] = handler[j]
    BY <1>1, <1>5, <1>7 DEF Goto, ProcessTypes
  <2>8. Types'
    BY <1>7, <2>5, <2>6, <2>7
    DEF ExecutionTypes, DestinationTypes, JobTypes, ItemType, ItemStates, ProcessTypes
  <2>9. HandlerInv'
    BY <1>1, <2>7 DEF HandlerInv
  <2>10. (ExecutionInv /\ DestinationInv)'
    BY <1>1, <1>4, <1>7, <2>6, HasMembers DEF ExecutionInv, DestinationInv, Done
  <2>11. (OutcomeInv /\ MirrorInv)' /\ \A e \in Executions : AllDone(e)' <=> AllDone(e)
    BY <1>7 DEF OutcomeInv, MirrorInv, AllDone
  <2>12. ArtifactInv'
    BY <2>1, <2>2, <2>4, <2>6, <2>11, SourceAssumption DEF ArtifactInv, Media
  <2>13. HintInv'
    <3>1. HintsAreOriginals /\ ownership = "user_owned_original" => path \in Originals /\ Hints[e0] # {}
      BY DEF HintsAreOriginals
    <3> QED
      BY <1>7, <2>1, <2>4, <3>1 DEF HintInv
  <2>14. ItemInv'
    BY <1>7 DEF ItemInv
  <2>15. RunInv'
    <3> SUFFICES ASSUME NEW e \in Executions PROVE RunFits(e, handler[Run(e)])'
      BY DEF RunInv
    <3>1. CASE e = e0
      BY <2>6, <2>7, <3>1 DEF RunFits, Resolving, ItemTaken, FanningOut
    <3>2. CASE e # e0
      <4>1. handler'[Run(e)] = handler[Run(e)]
        BY <2>7, <3>2, JobNames
      <4> QED
        BY <1>7, <2>6, <3>2, <4>1 DEF RunInv, RunFits
    <3> QED
      BY <3>1, <3>2
  <2>16. CleanupInv'
    <3> SUFFICES ASSUME NEW e \in Executions PROVE CleanupFits(e, handler[Cleanup(e)])'
      BY DEF CleanupInv
    <3>1. handler'[Cleanup(e)] = handler[Cleanup(e)]
      BY <2>7, JobNames
    <3> QED
      BY <1>3, <2>4, <3>1 DEF CleanupInv, CleanupFits
  <2> QED
    BY <2>8, <2>9, <2>10, <2>11, <2>12, <2>13, <2>14, <2>15, <2>16
<1> QED
  BY <1>6, <1>7 DEF Ready

\* A run whose media is there: it goes on to its destinations.
LEMMA RunReadyStep ==
  ASSUME SourceInv, NEW e0 \in Executions, RunReady(e0)
  PROVE  SourceInv'
<1>1. HandlerMoves /\ UNCHANGED <<file, created>>
  BY DEF RunReady
<1>2. CASE At(Run(e0), "original") /\ \E m \in Matches(e0) : Ready(e0, "user_owned_original", m, "protected")
  <2>1. PICK m \in Matches(e0) : Ready(e0, "user_owned_original", m, "protected")
    BY <1>2
  <2>2. m \in Hints[e0] /\ m \in Media
    BY SourceAssumption DEF Matches, Media
  <2>3. handler[Run(e0)] \in ItemTaken
    BY <1>2 DEF At, ItemTaken
  <2> QED
    BY <1>1, <2>1, <2>2, <2>3, MadeReady
<1>3. CASE At(Run(e0), "import") /\ Ready(e0, "openrepurpose_temporary", e0, "not_eligible")
  <2>1. handler[Run(e0)] \in ItemTaken /\ file[e0] /\ e0 \in Media
    BY <1>3 DEF At, ItemTaken, SourceInv, RunInv, RunFits, Media
  <2> QED
    BY <1>1, <1>3, <2>1, MadeReady
<1> QED
  BY <1>2, <1>3 DEF RunReady

\* A run that fails before its media is ready takes no success away.
LEMMA MarkRunFailedStep ==
  ASSUME SourceInv, NEW e0 \in Executions, MarkRunFailed(e0)
  PROVE  SourceInv'
<1> USE DEF SourceInv, Types
<1>1. /\ handler[Run(e0)] = "fail_run" /\ Goto(Run(e0), "settle")
      /\ UNCHANGED <<destinations, artifacts, item, resolution, file, outcome, created,
                     jobs, up, crashes, recovering, visit>>
  BY DEF MarkRunFailed, At, HandlerMoves
<1>2. PICK s \in {"retrying", "failed"} : executions' = [executions EXCEPT ![e0].status = s]
  BY DEF MarkRunFailed
<1>3. RunFits(e0, "fail_run") /\ Run(e0) \in JobIds /\ jobs[Run(e0)].status = "running"
  BY <1>1, JobNames DEF RunInv, HandlerInv
<1>4. ~AllDone(e0) /\ executions[e0].status # "absent"
  BY <1>3, DoneIsReady DEF RunFits, Resolving, ExecutionInv
<1>5. /\ executions' \in [Executions -> ExecutionRow]
      /\ \A e \in Executions \ {e0} : executions'[e] = executions[e]
      /\ executions'[e0].status = s
      /\ executions'[e0].cleanup = executions[e0].cleanup
      /\ executions'[e0].due = executions[e0].due
  <2>1. /\ [executions[e0] EXCEPT !.status = s] \in ExecutionRow
        /\ [executions[e0] EXCEPT !.status = s].status = s
        /\ [executions[e0] EXCEPT !.status = s].cleanup = executions[e0].cleanup
        /\ [executions[e0] EXCEPT !.status = s].due = executions[e0].due
    BY DEF ExecutionTypes, ExecutionRow
  <2> QED
    BY <1>2, <2>1 DEF ExecutionTypes
<1>6. "settle" \in Phases
  BY DEF Phases
<1>7. /\ handler' \in [JobIds -> Phases] /\ handler'[Run(e0)] = "settle"
      /\ \A j \in JobIds \ {Run(e0)} : handler'[j] = handler[j]
  BY <1>1, <1>3, <1>6 DEF Goto, ProcessTypes
<1>8. Types'
  <2>1. ExecutionTypes'
    BY <1>5 DEF ExecutionTypes
  <2> QED
    BY <1>1, <1>7, <2>1 DEF ArtifactTypes, DestinationTypes, JobTypes, ItemType, ProcessTypes
<1>9. HandlerInv'
  BY <1>1, <1>3, <1>7 DEF HandlerInv
<1>10. (ExecutionInv /\ DestinationInv /\ MirrorInv)'
  BY <1>1, <1>4, <1>5 DEF ExecutionInv, DestinationInv, MirrorInv, Done
<1>11. \A e \in Executions : AllDone(e)' <=> AllDone(e)
  BY <1>1 DEF AllDone
<1>12. OutcomeInv'
  BY <1>4, <1>5, <1>11 DEF OutcomeInv
<1>13. (ArtifactInv /\ HintInv /\ ItemInv)'
  BY <1>1, <1>5, <1>11 DEF ArtifactInv, HintInv, ItemInv
<1>14. RunInv'
  <2> SUFFICES ASSUME NEW e \in Executions PROVE RunFits(e, handler[Run(e)])'
    BY DEF RunInv
  <2>1. CASE e = e0
    BY <1>1, <1>3, <1>7, <2>1 DEF RunFits, Resolving, ItemTaken, FanningOut
  <2>2. CASE e # e0
    <3>1. handler'[Run(e)] = handler[Run(e)]
      BY <1>7, <2>2, JobNames
    <3> QED
      BY <1>1, <3>1 DEF RunInv, RunFits
  <2> QED
    BY <2>1, <2>2
<1>15. CleanupInv'
  BY <1>1, <1>7, JobNames DEF CleanupInv, CleanupFits
<1> QED
  BY <1>8, <1>9, <1>10, <1>12, <1>13, <1>14, <1>15

-----------------------------------------------------------------------------
(* The destinations of a run.                                              *)

\* A publish job is created for one destination,
LEMMA FanOutStep ==
  ASSUME SourceInv, NEW e0 \in Executions, NEW d \in Destinations, FanOut(e0, d)
  PROVE  SourceInv'
<1> USE DEF SourceInv, Types
<1>1. /\ handler[Run(e0)] = "fanout" /\ ExecutionOf[d] = e0 /\ created[d] = "none"
      /\ Create(Publish(d))
      /\ created' = [created EXCEPT ![d] = jobs'[Publish(d)].status]
      /\ UNCHANGED <<rowVars, resolution, file, up, crashes, recovering, handler, outcome, visit>>
  BY DEF FanOut, At, Members
<1>2. Publish(d) \in JobIds
  BY JobNames
<1>3. /\ JobTypes'
      /\ \A j \in JobIds : jobs'[j].status = IF j = Publish(d) /\ jobs[j].status = "absent"
                                             THEN "pending" ELSE jobs[j].status
  BY <1>1, <1>2, JobsCreated
<1>4. /\ created'[d] = jobs'[Publish(d)].status
      /\ created'[d] \in {"pending", "running", "retrying", "succeeded", "failed", "cancelled"}
      /\ \A c \in Destinations \ {d} : created'[c] = created[c]
  <2>1. jobs'[Publish(d)] \in JobRow /\ jobs'[Publish(d)].status # "absent"
    BY <1>2, <1>3 DEF JobTypes
  <2> QED
    BY <1>1, <2>1 DEF ProcessTypes, JobRow
<1>5. (ExecutionTypes /\ ArtifactTypes /\ DestinationTypes /\ ItemType)'
  BY <1>1 DEF ExecutionTypes, ArtifactTypes, DestinationTypes, ItemType, rowVars
<1>6. ProcessTypes'
  BY <1>1, <1>4 DEF ProcessTypes
<1>7. (HandlerInv /\ ExecutionInv)'
  BY <1>1, <1>3, JobNames DEF HandlerInv, ExecutionInv, rowVars
<1>8. resolution[e0] = "ready"
  BY <1>1 DEF RunInv, RunFits, FanningOut
<1>9. \A c \in Destinations : Publish(c) \in JobIds /\ (Publish(c) = Publish(d) => c = d)
  BY JobNames
<1>10. DestinationInv'
  BY <1>1, <1>3, <1>4, <1>8, <1>9 DEF DestinationInv, Done, rowVars
<1>11. MirrorInv'
  <2> SUFFICES ASSUME ~Overlap, NEW c \in Destinations
               PROVE  /\ destinations[c].attached =>
                           destinations[c].status = jobs'[Publish(c)].status
                      /\ created'[c] # "none" => created'[c] = jobs'[Publish(c)].status
    BY <1>1 DEF MirrorInv, rowVars
  <2>1. CASE c = d
    BY <1>3, <1>4, <1>9, <2>1 DEF MirrorInv, DestinationInv
  <2>2. CASE c # d
    BY <1>3, <1>4, <1>9, <2>2 DEF MirrorInv
  <2> QED
    BY <2>1, <2>2
<1>12. (OutcomeInv /\ ArtifactInv /\ HintInv /\ ItemInv /\ CleanupInv)'
  BY <1>1 DEF OutcomeInv, ArtifactInv, HintInv, ItemInv, CleanupInv, CleanupFits, AllDone, rowVars
<1>13. RunInv'
  <2> SUFFICES ASSUME NEW e \in Executions PROVE RunFits(e, handler[Run(e)])'
    BY DEF RunInv
  <2>1. handler'[Run(e)] \notin FanningOut => \A c \in Members(e) : created'[c] = "none"
    BY <1>1, <1>4, HasMembers DEF RunInv, RunFits, FanningOut
  <2> QED
    BY <1>1, <2>1 DEF RunInv, RunFits, rowVars
<1> QED
  BY <1>3, <1>5, <1>6, <1>7, <1>10, <1>11, <1>12, <1>13

\* The row of the execution while its destinations are attached.
LEMMA ExecutionRuns ==
  ASSUME ExecutionTypes, NEW e0 \in Executions, executions[e0].status # "absent",
         executions' = [executions EXCEPT ![e0].status = RunningUnlessDone(@)]
  PROVE  /\ ExecutionTypes'
         /\ \A e \in Executions :
              /\ executions'[e].status = "absent" <=> executions[e].status = "absent"
              /\ executions'[e].status = "succeeded" <=> executions[e].status = "succeeded"
              /\ executions'[e].cleanup = executions[e].cleanup
              /\ executions'[e].due = executions[e].due
<1> DEFINE new == [executions[e0] EXCEPT !.status = RunningUnlessDone(executions[e0].status)]
<1>1. executions[e0] \in ExecutionRow
  BY DEF ExecutionTypes
<1>2. RunningUnlessDone(executions[e0].status) \in {"succeeded", "running"}
      /\ (RunningUnlessDone(executions[e0].status) = "succeeded" <=> executions[e0].status = "succeeded")
  BY DEF RunningUnlessDone
<1>3. /\ new \in ExecutionRow
      /\ new.status = RunningUnlessDone(executions[e0].status)
      /\ new.cleanup = executions[e0].cleanup /\ new.due = executions[e0].due
  BY <1>1, <1>2 DEF ExecutionRow
<1>4. executions' = [executions EXCEPT ![e0] = new]
  OBVIOUS
<1> HIDE DEF new
<1>5. \A e \in Executions : executions'[e] = IF e = e0 THEN new ELSE executions[e]
  BY <1>4 DEF ExecutionTypes
<1>6. executions' \in [Executions -> ExecutionRow]
  BY <1>3, <1>4 DEF ExecutionTypes
<1>7. \A e \in Executions :
        /\ executions'[e].status = "absent" <=> executions[e].status = "absent"
        /\ executions'[e].status = "succeeded" <=> executions[e].status = "succeeded"
        /\ executions'[e].cleanup = executions[e].cleanup
        /\ executions'[e].due = executions[e].due
  BY <1>2, <1>3, <1>5
<1> QED
  BY <1>6, <1>7 DEF ExecutionTypes

\* and the destination comes to have it.
LEMMA AttachStep ==
  ASSUME SourceInv, NEW e0 \in Executions, NEW d \in Destinations, Attach(e0, d)
  PROVE  SourceInv'
<1> USE DEF SourceInv, Types
<1> DEFINE row == [status |-> created[d], attached |-> TRUE]
<1>1. /\ handler[Run(e0)] = "attach" /\ ExecutionOf[d] = e0 /\ created[d] # "none"
      /\ created' = [created EXCEPT ![d] = "none"]
      /\ UNCHANGED <<resolution, file, handler, outcome, jobs, up, crashes, recovering, visit>>
  BY DEF Attach, At, Members, HandlerMoves
<1>2. /\ row \in DestinationRow /\ row.status = created[d] /\ row.attached
  BY <1>1 DEF DestinationRow, ProcessTypes
<1>3. resolution[e0] = "ready"
  BY <1>1 DEF RunInv, RunFits, FanningOut
<1>4. executions[e0].status # "absent"
  BY <1>3 DEF ExecutionInv
<1>5. d \in Members(e0)
  BY <1>1, HasMembers
<1>6. ~Done(d) => ~AllDone(e0) /\ item # "completed"
  BY <1>3, <1>5 DEF AllDone, AllSucceeded, Done, ItemInv
<1>7. /\ (ExecutionTypes /\ ArtifactTypes /\ DestinationTypes /\ ItemType /\ OutcomeInv)'
      /\ RowsGrow
      /\ item' = "completed" => item = "completed" \/ ItemFinished(executions')
      /\ destinations' = IF Done(d) THEN destinations ELSE [destinations EXCEPT ![d] = row]
  <2>1. CASE ~Done(d) /\ DestinationUpdate(d, row)
    <3> HIDE DEF row
    <3> QED
      BY <1>1, <1>2, <1>4, <1>6, <2>1, RowsFollow DEF DestinationUpdate
  <2>2. CASE /\ ~Done(d)
             /\ ~AllSucceeded(e0, [destinations EXCEPT ![d] = row])
             /\ destinations' = [destinations EXCEPT ![d] = row]
             /\ executions' = [executions EXCEPT ![e0].status = RunningUnlessDone(@)]
             /\ item' = IF item = "completed" THEN item ELSE "publishing"
             /\ artifacts' = artifacts
    <3> HIDE DEF row
    <3>1. /\ ExecutionTypes'
          /\ \A e \in Executions :
               /\ executions'[e].status = "absent" <=> executions[e].status = "absent"
               /\ executions'[e].status = "succeeded" <=> executions[e].status = "succeeded"
               /\ executions'[e].cleanup = executions[e].cleanup
               /\ executions'[e].due = executions[e].due
      BY <1>4, <2>2, ExecutionRuns
    <3>2. \A e \in Executions : AllDone(e)' <=> AllDone(e)
      <4>1. \A e \in Executions \ {e0} : AllDone(e)' <=> AllDone(e)
        BY <1>1, <2>2, HasMembers DEF AllDone, AllSucceeded, DestinationTypes
      <4>2. ~AllDone(e0)' /\ ~AllDone(e0)
        BY <1>6, <2>2 DEF AllDone
      <4> QED
        BY <4>1, <4>2
    <3>3. (ArtifactTypes /\ DestinationTypes /\ ItemType)'
      BY <1>2, <2>2 DEF ArtifactTypes, DestinationTypes, ItemType, ItemStates
    <3>4. OutcomeInv' /\ RowsGrow
      BY <2>2, <3>1, <3>2 DEF OutcomeInv, RowsGrow
    <3> QED
      BY <2>2, <3>1, <3>3, <3>4
  <2>3. CASE /\ Done(d)
             /\ executions' = [executions EXCEPT ![e0].status = RunningUnlessDone(@)]
             /\ item' = IF item \in {"cleanup_pending", "completed"} THEN item ELSE "publishing"
             /\ UNCHANGED <<destinations, artifacts>>
    <3>1. /\ ExecutionTypes'
          /\ \A e \in Executions :
               /\ executions'[e].status = "absent" <=> executions[e].status = "absent"
               /\ executions'[e].status = "succeeded" <=> executions[e].status = "succeeded"
               /\ executions'[e].cleanup = executions[e].cleanup
               /\ executions'[e].due = executions[e].due
      BY <1>4, <2>3, ExecutionRuns
    <3>2. \A e \in Executions : AllDone(e)' <=> AllDone(e)
      BY <2>3 DEF AllDone
    <3>3. (ArtifactTypes /\ DestinationTypes /\ ItemType)'
      BY <2>3 DEF ArtifactTypes, DestinationTypes, ItemType, ItemStates
    <3>4. OutcomeInv' /\ RowsGrow
      BY <2>3, <3>1, <3>2 DEF OutcomeInv, RowsGrow
    <3> QED
      BY <2>3, <3>1, <3>3, <3>4
  <2> QED
    BY <2>1, <2>2, <2>3 DEF Attach, Done
<1> HIDE DEF row
<1>8. /\ \A c \in Destinations \ {d} : destinations'[c] = destinations[c] /\ created'[c] = created[c]
      /\ ~Done(d) => destinations'[d] = row
      /\ Done(d) => destinations'[d] = destinations[d]
      /\ created'[d] = "none"
  BY <1>1, <1>7 DEF DestinationTypes, ProcessTypes
<1>9. JobTypes' /\ ProcessTypes'
  BY <1>1 DEF JobTypes, ProcessTypes
<1>10. (HandlerInv /\ ExecutionInv)'
  BY <1>1, <1>7 DEF HandlerInv, ExecutionInv, RowsGrow
<1>11. DestinationInv'
  BY <1>1, <1>2, <1>3, <1>8 DEF DestinationInv, Done
<1>12. MirrorInv'
  BY <1>1, <1>2, <1>8 DEF MirrorInv
<1>13. /\ (ArtifactInv /\ HintInv /\ ItemInv)'
       /\ \A e \in Executions, phase \in Phases : CleanupFits(e, phase) => CleanupFits(e, phase)'
       /\ \A e \in Executions : handler[Run(e)] \in ItemTaken => item' # "completed"
  BY <1>1, <1>7, <1>11, GrowthKeeps
<1>14. RunInv'
  <2> SUFFICES ASSUME NEW e \in Executions PROVE RunFits(e, handler[Run(e)])'
    BY DEF RunInv
  <2>1. handler'[Run(e)] \notin FanningOut => \A c \in Members(e) : created'[c] = "none"
    BY <1>1, <1>8, HasMembers DEF RunInv, RunFits
  <2> QED
    BY <1>1, <1>13, <2>1 DEF RunInv, RunFits
<1>15. CleanupInv'
  <2> SUFFICES ASSUME NEW e \in Executions PROVE CleanupFits(e, handler[Cleanup(e)])'
    BY DEF CleanupInv
  <2>1. handler[Cleanup(e)] \in Phases /\ CleanupFits(e, handler[Cleanup(e)])
    BY JobNames DEF CleanupInv, ProcessTypes
  <2> QED
    BY <1>1, <1>13, <2>1 DEF CleanupFits
<1> QED
  BY <1>7, <1>9, <1>10, <1>11, <1>12, <1>13, <1>14, <1>15

-----------------------------------------------------------------------------
(* Cleanup and time.                                                       *)

\* What a cleanup handler may do to its execution, its managed file and the
\* item.
LEMMA CleaningStep ==
  ASSUME SourceInv,
         NEW e0 \in Executions, handler[Cleanup(e0)] # "idle",
         NEW phase \in Phases, Goto(Cleanup(e0), phase), CleanupFits(e0, phase)',
         UNCHANGED <<jobs, destinations, resolution, up, crashes, recovering, visit, created>>,
         \/ executions' = executions
         \/ \E c \in {"running", "failed", "completed"} :
              /\ executions' = [executions EXCEPT ![e0].cleanup = c]
              /\ HintsAreOriginals /\ c = "completed" => ~file'[e0],
         \/ artifacts' = artifacts
         \/ /\ artifacts[e0].ownership = "openrepurpose_temporary"
            /\ \E a \in Artifact :
                 /\ artifacts' = [artifacts EXCEPT ![e0] = a]
                 /\ a.ownership = "openrepurpose_temporary" /\ a.path = e0
                 /\ a.cleanup = "completed" => ~file'[e0],
         file' = file \/ file' = [file EXCEPT ![e0] = FALSE],
         item' = item \/ (item' = "completed" /\ ItemFinished(executions')),
         outcome' \in [JobIds -> {"ok", "retry", "fail", "constraint"}]
  PROVE  SourceInv'
<1> USE DEF SourceInv, Types
<1>1. /\ AllDone(e0) /\ executions[e0].due = "now" /\ executions[e0].status = "succeeded"
      /\ executions[e0].cleanup \notin {"not_eligible", "retained"}
      /\ resolution[e0] = "ready" /\ artifacts[e0] # NoArtifact
      /\ Retention[e0] # "keep_forever"
      /\ handler[Run(e0)] \notin Resolving
  BY CleanedIsDone, DoneIsReady DEF ExecutionTypes, OutcomeInv, ArtifactInv, RunInv, RunFits
<1>2. \A e \in Executions : AllDone(e)' <=> AllDone(e)
  BY DEF AllDone
<1>3. /\ executions' \in [Executions -> ExecutionRow]
      /\ \A e \in Executions \ {e0} : executions'[e] = executions[e]
      /\ executions'[e0].status = executions[e0].status
      /\ executions'[e0].due = executions[e0].due
      /\ executions'[e0].cleanup \notin {"not_eligible", "retained"}
      /\ executions'[e0].cleanup = "completed" =>
           \/ executions[e0].cleanup = "completed"
           \/ HintsAreOriginals => ~file'[e0]
  <2>1. CASE executions' = executions
    BY <1>1, <2>1 DEF ExecutionTypes
  <2>2. CASE executions' # executions
    <3> PICK c \in {"running", "failed", "completed"} :
               /\ executions' = [executions EXCEPT ![e0].cleanup = c]
               /\ HintsAreOriginals /\ c = "completed" => ~file'[e0]
      BY <2>2
    <3> DEFINE new == [executions[e0] EXCEPT !.cleanup = c]
    <3>1. /\ new \in ExecutionRow /\ new.cleanup = c
          /\ new.status = executions[e0].status /\ new.due = executions[e0].due
      BY DEF ExecutionTypes, ExecutionRow
    <3>2. executions' = [executions EXCEPT ![e0] = new]
      OBVIOUS
    <3> HIDE DEF new
    <3> QED
      BY <3>1, <3>2 DEF ExecutionTypes
  <2> QED
    BY <2>1, <2>2
<1>4. /\ artifacts' \in [Executions -> Artifact]
      /\ \A e \in Executions \ {e0} : artifacts'[e] = artifacts[e]
      /\ artifacts'[e0].ownership = artifacts[e0].ownership
      /\ artifacts'[e0].path = artifacts[e0].path
      /\ artifacts'[e0].ownership = "user_owned_original" => artifacts'[e0] = artifacts[e0]
      /\ artifacts'[e0].cleanup = "completed" => artifacts[e0].cleanup = "completed" \/ ~file'[e0]
  BY DEF ArtifactTypes, ArtifactInv
<1>5. artifacts'[e0] # NoArtifact
  BY <1>1, <1>4 DEF NoArtifact, ArtifactInv
<1>6. /\ file' \in [Media -> BOOLEAN]
      /\ \A m \in Media \ {e0} : file'[m] = file[m]
      /\ file'[e0] => file[e0]
  BY DEF ProcessTypes, Media
<1>7. /\ handler' \in [JobIds -> Phases] /\ handler'[Cleanup(e0)] = phase
      /\ \A j \in JobIds \ {Cleanup(e0)} : handler'[j] = handler[j]
  BY JobNames DEF Goto, ProcessTypes
<1>8. Types'
  <2>1. (ExecutionTypes /\ ArtifactTypes)'
    BY <1>1, <1>3, <1>4 DEF ExecutionTypes, ArtifactTypes
  <2>2. ItemType'
    BY DEF ItemType, ItemStates
  <2> QED
    BY <1>6, <1>7, <2>1, <2>2 DEF DestinationTypes, JobTypes, ProcessTypes
<1>9. HandlerInv'
  BY <1>7, JobNames DEF HandlerInv
<1>10. (ExecutionInv /\ DestinationInv /\ MirrorInv)'
  BY <1>1, <1>3 DEF ExecutionInv, DestinationInv, MirrorInv, Done
<1>11. OutcomeInv'
  BY <1>1, <1>2, <1>3 DEF OutcomeInv
<1>12. ArtifactInv'
  <2>1. \A m \in Originals : file'[m]
    BY <1>6, SourceAssumption DEF ArtifactInv, Media
  <2>2. \A e \in Executions \ {e0} : file'[e] = file[e]
    BY <1>6 DEF Media
  <2> QED
    BY <1>1, <1>2, <1>4, <1>5, <1>6, <2>1, <2>2 DEF ArtifactInv
<1>13. HintInv'
  <2>1. \A e \in Executions \ {e0} : file'[e] = file[e]
    BY <1>6 DEF Media
  <2> QED
    BY <1>3, <1>4, <1>6, <2>1 DEF HintInv
<1>14. ASSUME item' = "completed", item # "completed", NEW e \in Executions
       PROVE  executions[e].status = "absent" \/ AllDone(e)
  BY <1>1, <1>3, <1>14 DEF ItemFinished, OutcomeInv
<1>15. ItemInv'
  BY <1>2, <1>14 DEF ItemInv, ExecutionInv
<1>16. RunInv'
  <2> SUFFICES ASSUME NEW e \in Executions PROVE RunFits(e, handler[Run(e)])'
    BY DEF RunInv
  <2>1. handler'[Run(e)] = handler[Run(e)] /\ Run(e) \in JobIds
    BY <1>7, JobNames
  <2>2. handler[Run(e)] \in ItemTaken => item' # "completed"
    <3> SUFFICES ASSUME handler[Run(e)] \in ItemTaken, item' = "completed" PROVE FALSE
      OBVIOUS
    <3>1. item # "completed" /\ resolution[e] # "ready" /\ executions[e].status # "absent"
      BY <2>1 DEF RunInv, RunFits, ItemTaken, Resolving, HandlerInv, ExecutionInv
    <3> QED
      BY <1>14, <3>1, DoneIsReady
  <2>3. handler[Run(e)] = "import" => file'[e]
    <3>1. CASE e = e0
      BY <1>1, <3>1 DEF Resolving
    <3>2. CASE e # e0
      BY <1>6, <3>2 DEF Media, RunInv, RunFits
    <3> QED
      BY <3>1, <3>2
  <2> QED
    BY <2>1, <2>2, <2>3 DEF RunInv, RunFits
<1>17. CleanupInv'
  <2> SUFFICES ASSUME NEW e \in Executions PROVE CleanupFits(e, handler[Cleanup(e)])'
    BY DEF CleanupInv
  <2>1. CASE e = e0
    BY <1>7, <2>1 DEF CleanupFits
  <2>2. CASE e # e0
    <3>1. handler'[Cleanup(e)] = handler[Cleanup(e)] /\ file'[e] = file[e]
      BY <1>6, <1>7, <2>2, JobNames DEF Media
    <3> QED
      BY <1>4, <2>2, <3>1 DEF CleanupInv, CleanupFits
  <2> QED
    BY <2>1, <2>2
<1> QED
  BY <1>8, <1>9, <1>10, <1>11, <1>12, <1>13, <1>15, <1>16, <1>17


\* The cleanup of an execution, up to the file it deletes.
LEMMA CleanupSteps ==
  ASSUME SourceInv, NEW e0 \in Executions, CleanupStep(e0)
  PROVE  SourceInv'
<1> USE DEF SourceInv, Types, At, HandlerMoves, rowVars, Outcome
<1>1. /\ outcome \in [JobIds -> {"ok", "retry", "fail", "constraint"}]
      /\ Cleanup(e0) \in JobIds /\ \A e \in Executions : Cleanup(e0) # Run(e)
      /\ \A e \in Executions : Cleanup(e0) = Cleanup(e) => e = e0
      /\ CleanupFits(e0, handler[Cleanup(e0)])
      /\ artifacts[e0] \in Artifact
  BY JobNames DEF ProcessTypes, CleanupInv, ArtifactTypes
<1>2. {"settle", "artifact", "delete", "complete", "deleted", "artifact_failed"} \subseteq Phases
  BY DEF Phases, Awaiting
<1>3. CASE CleanupStart(e0)
  <2>1. /\ handler[Cleanup(e0)] = "start"
        /\ UNCHANGED <<destinations, artifacts, item, resolution, file, outcome, created,
                       jobs, up, crashes, recovering, visit>>
    BY <1>3 DEF CleanupStart
  <2>2. CASE Goto(Cleanup(e0), "settle") /\ executions' = executions
    <3>1. CleanupFits(e0, "settle")'
      BY DEF CleanupFits
    <3> QED
      BY <1>1, <1>2, <2>1, <2>2, <3>1, CleaningStep
  <2>3. CASE /\ Goto(Cleanup(e0), "artifact")
             /\ executions' = [executions EXCEPT ![e0].cleanup = "running"]
    <3>1. CleanupFits(e0, "artifact")'
      BY DEF CleanupFits
    <3> QED
      BY <1>1, <1>2, <2>1, <2>3, <3>1, CleaningStep
  <2> QED
    BY <1>3, <2>2, <2>3 DEF CleanupStart
<1>4. CASE CleanupArtifact(e0)
  <2>1. /\ handler[Cleanup(e0)] = "artifact"
        /\ UNCHANGED <<executions, destinations, item, resolution, file, outcome, created,
                       jobs, up, crashes, recovering, visit>>
    BY <1>4 DEF CleanupArtifact
  <2>2. resolution[e0] = "ready" /\ artifacts[e0] # NoArtifact
    BY <2>1, CleanedIsDone, DoneIsReady DEF ArtifactInv
  <2>3. CASE /\ Deletable(artifacts[e0])
             /\ artifacts' = [artifacts EXCEPT ![e0].cleanup = "running"]
             /\ Goto(Cleanup(e0), "delete")
    <3> DEFINE a == [artifacts[e0] EXCEPT !.cleanup = "running"]
    <3>1. /\ artifacts[e0].ownership = "openrepurpose_temporary" /\ artifacts[e0].path = e0
          /\ a \in Artifact /\ a.ownership = artifacts[e0].ownership
          /\ a.path = artifacts[e0].path /\ a.cleanup = "running"
      BY <1>1, <2>3 DEF Deletable, Artifact, ArtifactInv
    <3>2. artifacts' = [artifacts EXCEPT ![e0] = a]
      BY <2>3
    <3> HIDE DEF a
    <3>3. CleanupFits(e0, "delete")'
      BY <3>1, <3>2 DEF CleanupFits, ArtifactTypes
    <3> QED
      BY <1>1, <1>2, <2>1, <2>3, <3>1, <3>2, <3>3, CleaningStep
  <2>4. CASE /\ ~Deletable(artifacts[e0])
             /\ artifacts' = artifacts
             /\ Goto(Cleanup(e0), "complete")
    <3>1. \/ artifacts[e0].ownership = "user_owned_original"
          \/ /\ artifacts[e0].ownership = "openrepurpose_temporary"
             /\ artifacts[e0].cleanup = "completed"
      BY <1>1, <2>2, <2>4 DEF Deletable, Artifact, ArtifactInv
    <3>2. HintsAreOriginals => ~file[e0]
      BY <3>1 DEF HintInv, ArtifactInv
    <3>3. CleanupFits(e0, "complete")'
      BY <2>1, <3>2 DEF CleanupFits, HintsAreOriginals
    <3> QED
      BY <1>1, <1>2, <2>1, <2>4, <3>3, CleaningStep
  <2> QED
    BY <1>4, <2>3, <2>4 DEF CleanupArtifact
<1>5. CASE CleanupDelete(e0)
  <2>1. /\ handler[Cleanup(e0)] = "delete" /\ Goto(Cleanup(e0), "deleted")
        /\ file' = [file EXCEPT ![artifacts[e0].path] = FALSE]
        /\ UNCHANGED <<executions, destinations, artifacts, item, resolution, outcome, created,
                       jobs, up, crashes, recovering, visit>>
    BY <1>5 DEF CleanupDelete
  <2>2. artifacts[e0].ownership = "openrepurpose_temporary" /\ artifacts[e0].path = e0
    BY <1>1, <2>1 DEF CleanupFits, ArtifactInv
  <2>3. file' = [file EXCEPT ![e0] = FALSE] /\ ~file'[e0]
    BY <2>1, <2>2 DEF ProcessTypes, Media
  <2>4. CleanupFits(e0, "deleted")'
    BY <2>1, <2>2, <2>3 DEF CleanupFits
  <2> QED
    BY <1>1, <1>2, <2>1, <2>3, <2>4, CleaningStep
<1>6. CASE CleanupDeleted(e0)
  <2>1. /\ handler[Cleanup(e0)] = "deleted" /\ Goto(Cleanup(e0), "complete")
        /\ artifacts' = [artifacts EXCEPT ![e0].cleanup = "completed", ![e0].deleted = TRUE]
        /\ UNCHANGED <<executions, destinations, item, resolution, file, outcome, created,
                       jobs, up, crashes, recovering, visit>>
    BY <1>6 DEF CleanupDeleted
  <2>2. /\ artifacts[e0].ownership = "openrepurpose_temporary" /\ artifacts[e0].path = e0
        /\ ~file[e0]
    BY <1>1, <2>1 DEF CleanupFits, ArtifactInv
  <2> DEFINE a == [artifacts[e0] EXCEPT !.cleanup = "completed", !.deleted = TRUE]
  <2>3. a \in Artifact /\ a.ownership = artifacts[e0].ownership /\ a.path = artifacts[e0].path
    BY <1>1 DEF Artifact
  <2>4. artifacts' = [artifacts EXCEPT ![e0] = a]
    BY <2>1 DEF ArtifactTypes
  <2> HIDE DEF a
  <2>5. CleanupFits(e0, "complete")'
    BY <2>1, <2>2 DEF CleanupFits
  <2> QED
    BY <1>1, <1>2, <2>1, <2>2, <2>3, <2>4, <2>5, CleaningStep
<1>7. CASE CleanupFails(e0)
  <2>1. /\ handler[Cleanup(e0)] = "delete" /\ Goto(Cleanup(e0), "artifact_failed")
        /\ executions' = [executions EXCEPT ![e0].cleanup = "failed"]
        /\ Outcome(Cleanup(e0), "retry")
        /\ UNCHANGED <<destinations, artifacts, item, resolution, file, created,
                       jobs, up, crashes, recovering, visit>>
    BY <1>7 DEF CleanupFails
  <2>2. CleanupFits(e0, "artifact_failed")'
    BY <1>1, <2>1 DEF CleanupFits
  <2> QED
    BY <1>1, <1>2, <2>1, <2>2, CleaningStep
<1>8. CASE CleanupArtifactFailed(e0)
  <2>1. /\ handler[Cleanup(e0)] = "artifact_failed" /\ Goto(Cleanup(e0), "settle")
        /\ artifacts' = [artifacts EXCEPT ![e0].cleanup = "failed"]
        /\ UNCHANGED <<executions, destinations, item, resolution, file, outcome, created,
                       jobs, up, crashes, recovering, visit>>
    BY <1>8 DEF CleanupArtifactFailed
  <2>2. artifacts[e0].ownership = "openrepurpose_temporary" /\ artifacts[e0].path = e0
    BY <1>1, <2>1 DEF CleanupFits, ArtifactInv
  <2> DEFINE a == [artifacts[e0] EXCEPT !.cleanup = "failed"]
  <2>3. /\ a \in Artifact /\ a.ownership = artifacts[e0].ownership
        /\ a.path = artifacts[e0].path /\ a.cleanup = "failed"
    BY <1>1 DEF Artifact
  <2>4. artifacts' = [artifacts EXCEPT ![e0] = a]
    BY <2>1
  <2> HIDE DEF a
  <2>5. CleanupFits(e0, "settle")'
    BY DEF CleanupFits
  <2> QED
    BY <1>1, <1>2, <2>1, <2>2, <2>3, <2>4, <2>5, CleaningStep
<1>9. CASE CleanupCompleted(e0)
  <2>1. /\ handler[Cleanup(e0)] = "complete" /\ Goto(Cleanup(e0), "settle")
        /\ executions' = [executions EXCEPT ![e0].cleanup = "completed"]
        /\ item' = IF ItemFinished(executions') THEN "completed" ELSE item
        /\ UNCHANGED <<destinations, artifacts, resolution, file, outcome, created,
                       jobs, up, crashes, recovering, visit>>
    BY <1>9 DEF CleanupCompleted
  <2>2. HintsAreOriginals => ~file'[e0]
    BY <1>1, <2>1 DEF CleanupFits
  <2>3. CleanupFits(e0, "settle")'
    BY DEF CleanupFits
  <2>4. item' = item \/ (item' = "completed" /\ ItemFinished(executions'))
    BY <2>1
  <2> QED
    BY <1>1, <1>2, <2>1, <2>2, <2>3, <2>4, CleaningStep
<1> QED
  BY <1>3, <1>4, <1>5, <1>6, <1>7, <1>8, <1>9 DEF CleanupStep

\* The retention of an artifact passes.
LEMMA RetentionStep ==
  ASSUME SourceInv, NEW e0 \in Executions, RetentionPasses(e0)
  PROVE  SourceInv'
<1> USE DEF SourceInv, Types, processVars
<1>1. /\ executions[e0].due = "later"
      /\ executions' = [executions EXCEPT ![e0].due = "now"]
      /\ UNCHANGED <<jobs, destinations, artifacts, item, resolution, file, processVars>>
  BY DEF RetentionPasses
<1>2. /\ executions' \in [Executions -> ExecutionRow]
      /\ \A e \in Executions \ {e0} : executions'[e] = executions[e]
      /\ executions'[e0].status = executions[e0].status
      /\ executions'[e0].cleanup = executions[e0].cleanup
      /\ executions'[e0].due = "now"
  <2> DEFINE new == [executions[e0] EXCEPT !.due = "now"]
  <2>1. /\ new \in ExecutionRow /\ new.cleanup = executions[e0].cleanup
        /\ new.status = executions[e0].status /\ new.due = "now"
    BY DEF ExecutionTypes, ExecutionRow
  <2>2. executions' = [executions EXCEPT ![e0] = new]
    BY <1>1
  <2> HIDE DEF new
  <2> QED
    BY <2>1, <2>2 DEF ExecutionTypes
<1>3. Types'
  <2>1. ExecutionTypes'
    BY <1>1, <1>2 DEF ExecutionTypes
  <2> QED
    BY <1>1, <2>1 DEF ArtifactTypes, DestinationTypes, JobTypes, ItemType, ProcessTypes
<1>4. (HandlerInv /\ ExecutionInv /\ DestinationInv /\ MirrorInv)'
  BY <1>1, <1>2 DEF HandlerInv, ExecutionInv, DestinationInv, MirrorInv, Done
<1>5. \A e \in Executions : AllDone(e)' <=> AllDone(e)
  BY <1>1 DEF AllDone
<1>6. (OutcomeInv /\ ArtifactInv /\ HintInv /\ ItemInv)'
  BY <1>1, <1>2, <1>5 DEF OutcomeInv, ArtifactInv, HintInv, ItemInv
<1>7. (RunInv /\ CleanupInv)'
  BY <1>1 DEF RunInv, CleanupInv, RunFits, CleanupFits
<1> QED
  BY <1>3, <1>4, <1>6, <1>7


\* The failed destinations of an execution are reopened with their jobs.
LEMMA RetryStep ==
  ASSUME SourceInv, NEW e0 \in Executions, RetryFailedDestinations(e0)
  PROVE  SourceInv'
<1> USE DEF SourceInv, Types
<1> DEFINE failed == FailedDestinations(e0)
           again(k) == [jobs[k] EXCEPT !.status = "pending",
                          !.max = IF jobs[k].tries + 3 > jobs[k].max THEN jobs[k].tries + 3
                                  ELSE jobs[k].max]
<1>1. /\ Turn(None) /\ failed # {} /\ recovering' = TRUE
      /\ jobs' = [k \in JobIds |-> IF \E d \in failed : k = Publish(d) THEN again(k) ELSE jobs[k]]
      /\ destinations' = [d \in Destinations |->
           IF d \in failed THEN [status |-> "pending", attached |-> TRUE] ELSE destinations[d]]
      /\ executions' = [executions EXCEPT ![e0].status = "retrying"]
      /\ item' = IF item = "completed" THEN item
                 ELSE Aggregate(e0, destinations', "partial_failure", "retrying", "publishing")
      /\ UNCHANGED <<artifacts, resolution, file, up, crashes, handler, outcome, visit, created>>
  BY DEF RetryFailedDestinations
<1>2. \A d \in failed : /\ d \in Destinations /\ ExecutionOf[d] = e0
                        /\ destinations[d].attached /\ destinations[d].status = "failed"
                        /\ jobs[Publish(d)].status = "failed"
  BY DEF FailedDestinations, Members, DestinationInv
<1>3. \A d \in Destinations : created[d] = "none"
  BY <1>1, AloneForCommands
<1>4. resolution[e0] = "ready" /\ executions[e0].status # "absent" /\ ~AllDone(e0) /\ ~AllDone(e0)'
  <2> PICK d \in failed : TRUE
    BY <1>1
  <2>1. d \in Members(e0) /\ ~Done(d) /\ destinations'[d].status = "pending"
    BY <1>1, <1>2, HasMembers DEF Done
  <2>2. resolution[e0] = "ready"
    BY <1>2 DEF DestinationInv
  <2> QED
    BY <2>1, <2>2 DEF ExecutionInv, AllDone, AllSucceeded, Done
<1>5. /\ JobTypes'
      /\ \A k \in JobIds : /\ (\E d \in failed : k = Publish(d)) => jobs'[k].status = "pending"
                           /\ ~(\E d \in failed : k = Publish(d)) => jobs'[k] = jobs[k]
  <2>1. ASSUME NEW k \in JobIds PROVE again(k) \in JobRow /\ again(k).status = "pending"
    <3>1. jobs[k] \in JobRow
      BY DEF JobTypes
    <3>2. PICK n \in Nat : again(k) = [jobs[k] EXCEPT !.status = "pending", !.max = n]
      <4>1. jobs[k].tries + 3 \in Nat /\ jobs[k].max \in Nat
        BY <3>1 DEF JobRow
      <4>2. CASE jobs[k].tries + 3 > jobs[k].max
        BY <4>1, <4>2
      <4>3. CASE ~(jobs[k].tries + 3 > jobs[k].max)
        BY <4>1, <4>3
      <4> QED
        BY <4>2, <4>3
    <3> HIDE DEF again
    <3> QED
      BY <3>1, <3>2 DEF JobRow
  <2> HIDE DEF again, failed
  <2> QED
    BY <1>1, <2>1 DEF JobTypes
<1>6. /\ DestinationTypes'
      /\ \A d \in Destinations :
           /\ d \in failed => destinations'[d].status = "pending" /\ destinations'[d].attached
           /\ d \notin failed => destinations'[d] = destinations[d]
  BY <1>1 DEF DestinationTypes, DestinationRow
<1>7. /\ executions' \in [Executions -> ExecutionRow]
      /\ \A e \in Executions \ {e0} : executions'[e] = executions[e]
      /\ executions'[e0].status = "retrying"
      /\ executions'[e0].cleanup = executions[e0].cleanup
      /\ executions'[e0].due = executions[e0].due
  <2> DEFINE new == [executions[e0] EXCEPT !.status = "retrying"]
  <2>1. /\ new \in ExecutionRow /\ new.cleanup = executions[e0].cleanup
        /\ new.status = "retrying" /\ new.due = executions[e0].due
    BY DEF ExecutionTypes, ExecutionRow
  <2>2. executions' = [executions EXCEPT ![e0] = new]
    BY <1>1
  <2> HIDE DEF new
  <2> QED
    BY <2>1, <2>2 DEF ExecutionTypes
<1>8. /\ item' \in ItemStates
      /\ item' = "completed" <=> item = "completed"
  BY <1>1 DEF ItemType, ItemStates, Aggregate
<1> HIDE DEF failed, again
<1>9. \A d \in Destinations : Publish(d) \in JobIds /\ \A c \in Destinations : Publish(d) = Publish(c) => c = d
  BY JobNames
<1>10. Types'
  <2>1. ExecutionTypes'
    BY <1>7 DEF ExecutionTypes
  <2> QED
    BY <1>1, <1>5, <1>6, <1>8, <2>1 DEF ArtifactTypes, ItemType, ProcessTypes
<1>11. HandlerInv'
  BY <1>1, <1>2, <1>5 DEF HandlerInv
<1>12. ExecutionInv'
  <2>1. \A e \in Executions : /\ Run(e) \in JobIds /\ Cleanup(e) \in JobIds
                              /\ \A d \in failed : Run(e) # Publish(d) /\ Cleanup(e) # Publish(d)
    BY <1>2, JobNames
  <2> QED
    BY <1>1, <1>4, <1>5, <1>7, <2>1 DEF ExecutionInv
<1>13. DestinationInv'
  <2> SUFFICES ASSUME NEW c \in Destinations
               PROVE  /\ destinations'[c].attached \/ created'[c] # "none" =>
                           /\ resolution'[ExecutionOf[c]] = "ready"
                           /\ jobs'[Publish(c)].status # "absent"
                      /\ ~destinations'[c].attached => destinations'[c].status = "pending"
                      /\ destinations'[c].status \in {"succeeded", "failed"} =>
                           jobs'[Publish(c)].status = destinations'[c].status
                      /\ created'[c] \in {"succeeded", "failed"} =>
                           jobs'[Publish(c)].status = created'[c]
    BY DEF DestinationInv
  <2>1. CASE c \in failed
    BY <1>1, <1>2, <1>3, <1>5, <1>6, <1>9, <2>1 DEF DestinationInv
  <2>2. CASE c \notin failed
    BY <1>1, <1>2, <1>3, <1>5, <1>6, <1>9, <2>2 DEF DestinationInv
  <2> QED
    BY <2>1, <2>2
<1>14. MirrorInv'
  <2> SUFFICES ASSUME ~Overlap, NEW c \in Destinations
               PROVE  /\ destinations'[c].attached =>
                           destinations'[c].status = jobs'[Publish(c)].status
                      /\ created'[c] = "none"
    BY DEF MirrorInv
  <2>1. CASE c \in failed
    BY <1>1, <1>3, <1>5, <1>6, <1>9, <2>1
  <2>2. CASE c \notin failed
    BY <1>1, <1>2, <1>3, <1>5, <1>6, <1>9, <2>2 DEF MirrorInv
  <2> QED
    BY <2>1, <2>2
<1>15. \A e \in Executions : AllDone(e)' <=> AllDone(e)
  <2>1. \A e \in Executions \ {e0} : AllDone(e)' <=> AllDone(e)
    BY <1>2, <1>6, HasMembers DEF AllDone, AllSucceeded
  <2> QED
    BY <1>4, <2>1
<1>16. OutcomeInv'
  BY <1>4, <1>7, <1>15 DEF OutcomeInv
<1>17. (ArtifactInv /\ HintInv /\ ItemInv)'
  BY <1>1, <1>7, <1>8, <1>15 DEF ArtifactInv, HintInv, ItemInv
<1>18. (RunInv /\ CleanupInv)'
  BY <1>1, <1>8 DEF RunInv, CleanupInv, RunFits, CleanupFits
<1> QED
  BY <1>10, <1>11, <1>12, <1>13, <1>14, <1>16, <1>17, <1>18


-----------------------------------------------------------------------------
(* Every step, and the theorems.                                           *)

\* Every step keeps the invariant.
LEMMA SourceStep == SourceInv /\ [Next]_vars => SourceInv'
<1> SUFFICES ASSUME SourceInv, [Next]_vars PROVE SourceInv'
  OBVIOUS
<1>1. CASE UNCHANGED vars
  <2>1. UNCHANGED <<storeVars, file, up, crashes, recovering, handler, outcome, visit, created>>
    BY <1>1 DEF vars, processVars
  <2>2. /\ (ExecutionTypes /\ ArtifactTypes /\ DestinationTypes /\ JobTypes /\ ItemType)'
        /\ (ExecutionInv /\ DestinationInv /\ OutcomeInv /\ MirrorInv)'
        /\ (ArtifactInv /\ HintInv /\ ItemInv)'
    BY <2>1, StoreKept
  <2>3. (ProcessTypes /\ HandlerInv /\ RunInv /\ CleanupInv)'
    BY <2>1
    DEF SourceInv, Types, ProcessTypes, HandlerInv, RunInv, CleanupInv, RunFits, CleanupFits,
        storeVars, rowVars
  <2> QED
    BY <2>2, <2>3 DEF SourceInv, Types
<1>2. CASE Boot \/ Crash
  BY <1>2, ServerStarts
<1>3. CASE Recover
  BY <1>3, RecoverStep
<1>4. CASE ObserveStep
  BY <1>4, ObserveSteps
<1>5. ASSUME NEW k \in JobIds,
             Claim(k) \/ LeaseExpires(k) \/ Settle(k) \/ RequestCancellation(k) \/ Retry(k)
      PROVE  SourceInv'
  BY <1>5, QueueSteps, CancellationStep
<1>6. ASSUME NEW e \in Executions, RunStep(e) PROVE SourceInv'
  <2>1. CASE \E d \in Destinations : FanOut(e, d) \/ Attach(e, d)
    BY <2>1, FanOutStep, AttachStep
  <2>2. CASE RunStart(e) \/ RunBreaks(e) \/ RunAcquireFails(e) \/ FanOutFails(e) \/ FanOutEnds(e)
               \/ RunEnds(e)
    BY <2>2, HandlersGoOn
  <2>3. CASE RunBegin(e) \/ RunBeginItem(e) \/ RunAcquire(e) \/ RunDiscard(e)
               \/ RunFailResolution(e) \/ RunFailItem(e)
    BY <2>3, ResolvingSteps
  <2>4. CASE RunReady(e)
    BY <2>4, RunReadyStep
  <2>5. CASE MarkRunFailed(e)
    BY <2>5, MarkRunFailedStep
  <2> QED
    BY <1>6, <2>1, <2>2, <2>3, <2>4, <2>5 DEF RunStep
<1>7. ASSUME NEW e \in Executions,
             CleanupStep(e) \/ RetentionPasses(e) \/ RetryFailedDestinations(e)
      PROVE  SourceInv'
  BY <1>7, CleanupSteps, RetentionStep, RetryStep
<1>8. ASSUME NEW d \in Destinations, PublishEnds(d) PROVE SourceInv'
  BY <1>8, HandlersGoOn
<1> QED
  BY <1>1, <1>2, <1>3, <1>4, <1>5, <1>6, <1>7, <1>8 DEF Next

\* The inductive invariant holds in every reachable state.
THEOREM SourceInvHolds == Spec => []SourceInv
BY SourceInit, SourceStep, PTL DEF Spec

\* Rows, handlers and outcomes stay within what the program and the CHECK
\* constraints of the tables know: TypeOK.
THEOREM RowsAreTyped == Spec => []TypeOK
<1>1. SourceInv => TypeOK
  BY TypesAreTypeOK DEF SourceInv
<1> QED
  BY <1>1, SourceInvHolds, PTL

\* An execution is succeeded exactly when all its publish jobs are, also while a
\* second process works on publish jobs: SuccessMeansPublished.
THEOREM SuccessIsTrue == Spec => []SuccessMeansPublished
<1>1. SourceInv => SuccessMeansPublished
  BY HasMembers
  DEF SourceInv, SuccessMeansPublished, OutcomeInv, DestinationInv, AllDone, AllSucceeded
<1> QED
  BY <1>1, SourceInvHolds, PTL

\* With one process every attached destination shows the status of its job, and
\* an execution that of its destinations: OutcomesHold.
THEOREM OutcomesTrue ==
  ASSUME ~Overlap
  PROVE  Spec => []OutcomesHold
<1>1. SourceInv => MirrorsJob
  BY DEF SourceInv, MirrorInv, MirrorsJob
<1> QED
  BY <1>1, SourceInvHolds, SuccessIsTrue, PTL DEF OutcomesHold

\* The media of a publish job that still has to run is on disk, whichever other
\* executions are resolved, retried or cleaned up: MediaAvailable.
THEOREM MediaStays ==
  ASSUME HintsAreOriginals
  PROVE  Spec => []MediaAvailable
<1>1. ASSUME SourceInv, NEW d \in Destinations, destinations[d].attached, ~Done(d)
      PROVE  /\ artifacts[ExecutionOf[d]].path # None
             /\ file[artifacts[ExecutionOf[d]].path]
  <2> DEFINE e == ExecutionOf[d]
  <2>1. e \in Executions /\ artifacts[e] \in Artifact
    BY <1>1, HasMembers DEF SourceInv, Types, ArtifactTypes
  <2>2. artifacts[e] # NoArtifact /\ artifacts[e].path # None /\ artifacts[e].ownership # "none"
    BY <1>1, <2>1 DEF SourceInv, DestinationInv, ArtifactInv
  <2>3. ~AllDone(e)
    BY <1>1, HasMembers DEF AllDone, AllSucceeded, Done
  <2>4. CASE artifacts[e].ownership = "openrepurpose_temporary"
    BY <1>1, <2>1, <2>2, <2>3, <2>4 DEF SourceInv, ArtifactInv
  <2>5. CASE artifacts[e].ownership = "user_owned_original"
    BY <1>1, <2>1, <2>2, <2>5 DEF SourceInv, ArtifactInv, HintInv
  <2> QED
    BY <2>1, <2>2, <2>4, <2>5 DEF Artifact
<1>2. SourceInv => MediaAvailable
  BY <1>1 DEF MediaAvailable, Done
<1> QED
  BY <1>2, SourceInvHolds, PTL


\* The steps that touch a file.
LEMMA FileSteps ==
  ASSUME [Next]_vars, file' # file
  PROVE  \E e \in Executions : RunAcquire(e) \/ RunDiscard(e) \/ CleanupDelete(e)
<1>1. CASE UNCHANGED vars
  BY <1>1 DEF vars
<1>2. CASE Boot \/ Crash \/ Recover
  BY <1>2 DEF Boot, Crash, Recover
<1>3. CASE ObserveStep
  BY <1>3 DEF ObserveStep, ObserveStart, ObserveCreate, ObserveEnqueue, ObserveEnds
<1>4. ASSUME NEW k \in JobIds,
             Claim(k) \/ LeaseExpires(k) \/ Settle(k) \/ RequestCancellation(k) \/ Retry(k)
      PROVE  FALSE
  BY <1>4 DEF Claim, LeaseExpires, Settle, RequestCancellation, Retry
<1>5. ASSUME NEW e \in Executions, RunStep(e)
      PROVE  RunAcquire(e) \/ RunDiscard(e)
  <2>1. ASSUME NEW d \in Destinations, FanOut(e, d) \/ Attach(e, d) PROVE FALSE
    BY <2>1 DEF FanOut, Attach
  <2>2. CASE RunStart(e) \/ RunBreaks(e) \/ RunAcquireFails(e) \/ FanOutFails(e) \/ FanOutEnds(e)
               \/ RunEnds(e)
    BY <2>2 DEF RunStart, RunBreaks, RunAcquireFails, FanOutFails, FanOutEnds, RunEnds
  <2>3. CASE RunBegin(e) \/ RunBeginItem(e) \/ RunFailResolution(e) \/ RunFailItem(e)
               \/ RunReady(e) \/ MarkRunFailed(e)
    BY <2>3 DEF RunBegin, RunBeginItem, RunFailResolution, RunFailItem, RunReady, MarkRunFailed
  <2> QED
    BY <1>5, <2>1, <2>2, <2>3 DEF RunStep
<1>6. ASSUME NEW e \in Executions, CleanupStep(e) PROVE CleanupDelete(e)
  BY <1>6
  DEF CleanupStep, CleanupStart, CleanupArtifact, CleanupDeleted, CleanupFails,
      CleanupArtifactFailed, CleanupCompleted
<1>7. ASSUME NEW e \in Executions, RetentionPasses(e) \/ RetryFailedDestinations(e) PROVE FALSE
  BY <1>7 DEF RetentionPasses, RetryFailedDestinations
<1>8. ASSUME NEW d \in Destinations, PublishEnds(d) PROVE FALSE
  BY <1>8 DEF PublishEnds
<1> QED
  BY <1>1, <1>2, <1>3, <1>4, <1>5, <1>6, <1>7, <1>8 DEF Next

\* A file disappears only if it is managed, and then before it became the media
\* of its execution, or after every destination was published and its date came:
\* CleanupIsDue.
THEOREM DeletedOnlyWhenDue == Spec => CleanupIsDue
<1> DEFINE Due(m) ==
      /\ m \in Executions
      /\ \/ artifacts[m] = NoArtifact
         \/ /\ \A d \in Members(m) : jobs[Publish(d)].status = "succeeded"
            /\ Retention[m] # "keep_forever" /\ executions[m].due = "now"
<1>1. ASSUME SourceInv, [Next]_vars, NEW m \in Media, file[m], ~file'[m] PROVE Due(m)
  <2> USE DEF SourceInv, Types
  <2>1. PICK e \in Executions : RunAcquire(e) \/ RunDiscard(e) \/ CleanupDelete(e)
    BY <1>1, FileSteps
  <2>2. file \in [Media -> BOOLEAN]
    BY <1>1 DEF ProcessTypes
  <2>3. CASE RunAcquire(e)
    <3>1. file' = [file EXCEPT ![e] = TRUE]
      BY <2>3 DEF RunAcquire, Acquired
    <3> QED
      BY <1>1, <2>2, <3>1
  <2>4. CASE RunDiscard(e)
    <3>1. file' = [file EXCEPT ![e] = FALSE] /\ handler[Run(e)] = "discard"
      BY <2>4 DEF RunDiscard, At
    <3>2. m = e
      BY <1>1, <2>2, <3>1
    <3>3. resolution[e] # "ready"
      BY <1>1, <3>1 DEF RunInv, RunFits, Resolving
    <3> QED
      BY <1>1, <3>2, <3>3 DEF ArtifactInv
  <2>5. CASE CleanupDelete(e)
    <3>1. file' = [file EXCEPT ![artifacts[e].path] = FALSE] /\ handler[Cleanup(e)] = "delete"
      BY <2>5 DEF CleanupDelete, At
    <3>2. artifacts[e].path = e
      BY <1>1, <3>1 DEF CleanupInv, CleanupFits, ArtifactInv
    <3>3. m = e
      BY <1>1, <2>2, <3>1, <3>2
    <3>4. AllDone(e) /\ executions[e].due = "now"
      BY <1>1, <3>1, CleanedIsDone
    <3>5. \A d \in Members(e) : jobs[Publish(d)].status = "succeeded"
      BY <1>1, <3>4, HasMembers DEF AllDone, AllSucceeded, DestinationInv
    <3>6. Retention[e] # "keep_forever"
      BY <1>1, <3>4 DEF ExecutionTypes
    <3> QED
      BY <3>3, <3>4, <3>5, <3>6
  <2> QED
    BY <2>1, <2>3, <2>4, <2>5
<1>2. SourceInv /\ [Next]_vars
        => [\A m \in Media : file[m] /\ ~file'[m] => Due(m)]_vars
  BY <1>1
<1> QED
  BY <1>2, SourceInvHolds, PTL DEF Spec, CleanupIsDue

\* What a step does to the item once it is completed, and when it completes it.
ItemMoves ==
  /\ item = "completed" => item' = "completed"
  /\ item # "completed" /\ item' = "completed" => ItemFinished(executions')

\* A job that is updated moves the item with its destinations.
LEMMA JobMovesItem ==
  ASSUME SourceInv, NEW k \in JobIds, NEW row, JobUpdate(k, row)
  PROVE  ItemMoves
<1>1. CASE UNCHANGED rowVars
  BY <1>1 DEF rowVars, ItemMoves
<1>2. CASE \E d \in Followers(k) :
             DestinationUpdate(d, [status |-> row.status, attached |-> TRUE])
  <2> PICK d \in Followers(k) : DestinationUpdate(d, [status |-> row.status, attached |-> TRUE])
    BY <1>2
  <2>1. item # "completed"
    <3>1. /\ ExecutionOf[d] \in Executions /\ d \in Members(ExecutionOf[d])
          /\ resolution[ExecutionOf[d]] = "ready" /\ ~Done(d)
      BY HasMembers DEF Followers, SourceInv, DestinationInv, Done
    <3>2. ~AllDone(ExecutionOf[d])
      BY <3>1 DEF AllDone, AllSucceeded, Done
    <3> QED
      BY <3>1, <3>2 DEF SourceInv, ItemInv
  <2>2. item' = ItemAfter(ExecutionOf[d], executions', destinations')
    BY DEF DestinationUpdate
  <2> QED
    BY <2>1, <2>2 DEF ItemAfter, Aggregate, ItemMoves
<1> QED
  BY <1>1, <1>2 DEF JobUpdate

\* Every step moves the item in the order it may take.
LEMMA ItemSteps == SourceInv /\ [Next]_vars => ItemMoves
<1> SUFFICES ASSUME SourceInv, [Next]_vars PROVE ItemMoves
  OBVIOUS
<1> USE DEF rowVars, storeVars
<1>1. CASE UNCHANGED item
  BY <1>1 DEF ItemMoves
<1>2. CASE UNCHANGED vars \/ Boot \/ Crash \/ Recover
  BY <1>1, <1>2 DEF vars, Boot, Crash, Recover
<1>3. CASE ObserveStep
  <2>1. ASSUME NEW e \in Executions, ObserveCreate(e) PROVE ItemMoves
    BY <2>1 DEF ObserveCreate, ItemMoves
  <2> QED
    BY <1>1, <1>3, <2>1 DEF ObserveStep, ObserveStart, ObserveEnqueue, ObserveEnds
<1>4. ASSUME NEW k \in JobIds,
             Claim(k) \/ LeaseExpires(k) \/ Settle(k) \/ RequestCancellation(k) \/ Retry(k)
      PROVE  ItemMoves
  BY <1>1, <1>4, JobMovesItem DEF Claim, LeaseExpires, Settle, RequestCancellation, Retry
<1>5. ASSUME NEW e \in Executions, RunStep(e) PROVE ItemMoves
  <2>1. handler[Run(e)] \in ItemTaken => item # "completed"
    BY DEF SourceInv, RunInv, RunFits
  <2>2. ASSUME NEW d \in Destinations, FanOut(e, d) PROVE ItemMoves
    BY <1>1, <2>2 DEF FanOut
  <2>3. ASSUME NEW d \in Destinations, Attach(e, d) PROVE ItemMoves
    <3>1. d \in Members(e) /\ resolution[e] = "ready"
      BY <2>3 DEF Attach, At, SourceInv, RunInv, RunFits, FanningOut
    <3>2. ~Done(d) => item # "completed"
      BY <3>1 DEF SourceInv, ItemInv, AllDone, AllSucceeded, Done
    <3>3. ExecutionOf[d] = e
      BY <3>1 DEF Members
    <3>4. \/ item' = ItemAfter(e, executions', destinations') /\ ~Done(d)
          \/ item' = IF item = "completed" THEN item ELSE "publishing"
          \/ item' = IF item \in {"cleanup_pending", "completed"} THEN item ELSE "publishing"
      BY <2>3, <3>3 DEF Attach, DestinationUpdate, Done
    <3> QED
      BY <3>2, <3>4 DEF ItemMoves, ItemAfter, Aggregate
  <2>4. CASE RunStart(e) \/ RunBreaks(e) \/ RunAcquireFails(e) \/ FanOutFails(e) \/ FanOutEnds(e)
               \/ RunEnds(e) \/ RunBegin(e) \/ RunAcquire(e) \/ RunDiscard(e)
               \/ RunFailResolution(e) \/ MarkRunFailed(e)
    BY <1>1, <2>4
    DEF RunStart, RunBreaks, RunAcquireFails, FanOutFails, FanOutEnds, RunEnds, RunBegin,
        RunAcquire, RunDiscard, RunFailResolution, MarkRunFailed
  <2>5. CASE RunBeginItem(e)
    BY <2>5 DEF RunBeginItem, ItemMoves
  <2>6. CASE RunReady(e)
    <3>1. item' = item \/ item' = "media_ready"
      BY <2>6 DEF RunReady, Ready
    <3>2. item # "completed"
      BY <2>1, <2>6 DEF RunReady, At, ItemTaken
    <3> QED
      BY <3>1, <3>2 DEF ItemMoves
  <2>7. CASE RunFailItem(e)
    BY <2>1, <2>7 DEF RunFailItem, At, ItemTaken, ItemMoves
  <2> QED
    BY <1>5, <2>2, <2>3, <2>4, <2>5, <2>6, <2>7 DEF RunStep
<1>6. ASSUME NEW e \in Executions, CleanupStep(e) PROVE ItemMoves
  <2>1. CASE CleanupCompleted(e)
    BY <2>1 DEF CleanupCompleted, ItemMoves
  <2>2. CASE ~CleanupCompleted(e)
    BY <1>1, <1>6, <2>2
    DEF CleanupStep, CleanupStart, CleanupArtifact, CleanupDelete, CleanupDeleted, CleanupFails,
        CleanupArtifactFailed
  <2> QED
    BY <2>1, <2>2
<1>7. ASSUME NEW e \in Executions, RetentionPasses(e) \/ RetryFailedDestinations(e) PROVE ItemMoves
  BY <1>1, <1>7 DEF RetentionPasses, RetryFailedDestinations, Aggregate, ItemMoves
<1>8. ASSUME NEW d \in Destinations, PublishEnds(d) PROVE ItemMoves
  BY <1>1, <1>8 DEF PublishEnds
<1> QED
  BY <1>2, <1>3, <1>4, <1>5, <1>6, <1>7, <1>8 DEF Next


\* A completed item makes no media ready any more.
LEMMA ReadyBefore ==
  ASSUME SourceInv, [Next]_vars, item = "completed",
         NEW e \in Executions, resolution'[e] = "ready"
  PROVE  resolution[e] = "ready"
<1> USE DEF rowVars, storeVars
<1>1. CASE UNCHANGED resolution
  BY <1>1
<1>2. CASE UNCHANGED vars \/ Boot \/ Crash \/ Recover \/ ObserveStep
  BY <1>1, <1>2
  DEF vars, Boot, Crash, Recover, ObserveStep, ObserveStart, ObserveCreate, ObserveEnqueue,
      ObserveEnds
<1>3. ASSUME NEW k \in JobIds,
             Claim(k) \/ LeaseExpires(k) \/ Settle(k) \/ RequestCancellation(k) \/ Retry(k)
      PROVE  resolution[e] = "ready"
  BY <1>1, <1>3 DEF Claim, LeaseExpires, Settle, RequestCancellation, Retry
<1>4. ASSUME NEW x \in Executions, RunStep(x) PROVE resolution[e] = "ready"
  <2>1. ASSUME NEW d \in Destinations, FanOut(x, d) \/ Attach(x, d) PROVE resolution[e] = "ready"
    BY <1>1, <2>1 DEF FanOut, Attach
  <2>2. CASE RunStart(x) \/ RunBreaks(x) \/ RunAcquireFails(x) \/ FanOutFails(x) \/ FanOutEnds(x)
               \/ RunEnds(x) \/ RunBeginItem(x) \/ RunAcquire(x) \/ RunDiscard(x)
               \/ RunFailItem(x) \/ MarkRunFailed(x)
    BY <1>1, <2>2
    DEF RunStart, RunBreaks, RunAcquireFails, FanOutFails, FanOutEnds, RunEnds, RunBeginItem,
        RunAcquire, RunDiscard, RunFailItem, MarkRunFailed
  <2>3. CASE RunBegin(x) \/ RunFailResolution(x)
    BY <2>3 DEF RunBegin, RunFailResolution, SourceInv, Types, ProcessTypes
  <2>4. CASE RunReady(x)
    <3>1. handler[Run(x)] \in ItemTaken
      BY <2>4 DEF RunReady, At, ItemTaken
    <3> QED
      BY <3>1 DEF SourceInv, RunInv, RunFits
  <2> QED
    BY <1>4, <2>1, <2>2, <2>3, <2>4 DEF RunStep
<1>5. ASSUME NEW x \in Executions,
             CleanupStep(x) \/ RetentionPasses(x) \/ RetryFailedDestinations(x)
      PROVE  resolution[e] = "ready"
  BY <1>1, <1>5
  DEF RetentionPasses, RetryFailedDestinations, CleanupStep, CleanupStart, CleanupArtifact,
      CleanupDelete, CleanupDeleted, CleanupFails, CleanupArtifactFailed, CleanupCompleted
<1>6. ASSUME NEW d \in Destinations, PublishEnds(d) PROVE resolution[e] = "ready"
  BY <1>1, <1>6 DEF PublishEnds
<1> QED
  BY <1>2, <1>3, <1>4, <1>5, <1>6 DEF Next

\* The item is completed by the last of its executions, when all of them are
\* cleaned up, and then it stays completed and no execution succeeds any more:
\* ItemCompletedLast.
THEOREM CompletedLast ==
  ASSUME HintsAreOriginals
  PROVE  Spec => ItemCompletedLast
<1> DEFINE
      Last == item # "completed" /\ item' = "completed" =>
        \A e \in Executions : executions'[e].status # "absent" =>
          /\ executions'[e].cleanup \in {"completed", "retained"}
          /\ executions'[e].cleanup = "completed" => ~file'[e]
      Stays == item = "completed" =>
        /\ item' = "completed"
        /\ \A e \in Executions : executions'[e].status = "succeeded"
                                   => executions[e].status = "succeeded"
<1>1. ASSUME SourceInv, SourceInv', [Next]_vars PROVE Last /\ Stays
  <2>1. ItemMoves
    BY <1>1, ItemSteps
  <2>2. \A e \in Executions : executions'[e].cleanup = "completed" => ~file'[e]
    BY <1>1 DEF SourceInv, HintInv
  <2>3. Last
    BY <2>1, <2>2 DEF ItemMoves, ItemFinished
  <2>4. ASSUME item = "completed", NEW e \in Executions, executions'[e].status = "succeeded"
        PROVE  executions[e].status = "succeeded"
    <3>1. resolution'[e] = "ready"
      <4>1. AllDone(e)' /\ DestinationInv'
        BY <1>1, <2>4 DEF SourceInv, OutcomeInv
      <4> QED
        BY <4>1, HasMembers DEF DestinationInv, AllDone, AllSucceeded
    <3>2. resolution[e] = "ready"
      BY <1>1, <2>4, <3>1, ReadyBefore
    <3> QED
      BY <1>1, <2>4, <3>2 DEF SourceInv, ItemInv, OutcomeInv
  <2> QED
    BY <2>1, <2>3, <2>4 DEF ItemMoves
<1>2. SourceInv /\ SourceInv' /\ [Next]_vars => [Last /\ Stays]_vars
  BY <1>1
<1> QED
  BY <1>2, SourceInvHolds, PTL DEF Spec, ItemCompletedLast

=============================================================================
