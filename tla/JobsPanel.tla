----------------------------- MODULE JobsPanel ------------------------------
(***************************************************************************)
(* The jobs page of the web interface (JobsRoute): the list of jobs, the   *)
(* details of the selected one, the polls that follow the transforms that  *)
(* are under way, and cancellations.  The requests of one page are         *)
(* answered and delivered in any order; what is done with an answer was    *)
(* fixed when its request was sent.  Left out are jobs that are retried    *)
(* elsewhere, which a page whose list shows them ended does not notice.    *)
(***************************************************************************)
EXTENDS Integers, FiniteSets

CONSTANTS
  PanelJobs,        \* jobs of the server
  TransformJobs,    \* those whose progress the page follows
  PanelSlots,       \* 1..n: requests that may be under way at once
  PanelClicks,      \* bound: clicks of the user
  PanelFaults       \* bound: requests that fail

VARIABLES
  real,         \* the jobs as the server has them
  listed,       \* setJobs: the jobs as the list shows them
  listing,      \* isLoading: the list is replaced by a spinner
  failed,       \* an error is shown, with a button that loads the list again
  selected,     \* selectedJobId
  shown,        \* selectedJob: nothing, or one job and its status
  cancelling,   \* activeAction
  asked,        \* requests: what for, with the selection they were sent under
  chosen,       \* the selection the user made last
  overtaken,    \* a selection was made while the answer for another was due
  panelClicks, panelFaults

panelCounts == <<panelClicks, panelFaults>>
panelVars == <<real, listed, listing, failed, selected, shown, cancelling, asked,
               chosen, overtaken, panelCounts>>

NoJob == "none"
\* Active is pending, retrying or running.
Statuses == {"active", "ended"}
Listings == [PanelJobs -> Statuses]
\* An answer says how the server had all jobs, one or none.
Lists == {"list", "poll", "relist"}
Details == {"follow", "detail"}
Answered(kind, job) == IF kind \in Lists THEN PanelJobs ELSE IF kind \in Details THEN {job} ELSE {}
Request == [kind : Lists \cup Details \cup {"cancel"}, job : PanelJobs \cup {NoJob},
            again : BOOLEAN,
            answer : {{}} \cup {{l} : l \in UNION {[js -> Statuses] : js \in SUBSET PanelJobs}}]

PanelTypeOK ==
  /\ real \in Listings
  /\ Cardinality(listed) <= 1 /\ listed \subseteq Listings
  /\ {listing, failed, overtaken} \subseteq BOOLEAN
  /\ {selected, chosen, cancelling} \subseteq PanelJobs \cup {NoJob}
  /\ Cardinality(shown) <= 1 /\ shown \subseteq PanelJobs \X Statuses
  /\ \A s \in PanelSlots : asked[s] = {} \/ \E r \in asked[s] : asked[s] = {r} /\ r \in Request
  /\ panelClicks \in 0..PanelClicks /\ panelFaults \in 0..PanelFaults

Sent(kind, job, again) == {[kind |-> kind, job |-> job, again |-> again, answer |-> {}]}
\* The first that is free, since they are alike.
Free(s) == asked[s] = {} /\ \A t \in PanelSlots : asked[t] = {} => s <= t
UnderWay == UNION {asked[s] : s \in PanelSlots}
Sends(s, request) == asked' = [asked EXCEPT ![s] = request]

\* The page opens: retryJobs.
PanelInit ==
  /\ real \in [PanelJobs -> {"active"}]
  /\ listed = {} /\ listing = TRUE /\ failed = FALSE
  /\ selected = NoJob /\ shown = {} /\ cancelling = NoJob
  /\ asked = [s \in PanelSlots |-> IF s = 1 THEN Sent("list", NoJob, FALSE) ELSE {}]
  /\ chosen = NoJob /\ overtaken = FALSE
  /\ panelClicks = 0 /\ panelFaults = 0

-----------------------------------------------------------------------------
(* The server                                                              *)

JobEnds(j) ==
  /\ real[j] # "ended" /\ real' = [real EXCEPT ![j] = "ended"]
  /\ UNCHANGED <<listed, listing, failed, selected, shown, cancelling, asked, chosen, overtaken,
                 panelCounts>>

\* GET /api/jobs, GET /api/jobs/:id, and POST /api/jobs/:id/cancel, which ends
\* a job that waits and leaves it to a running one to stop.
Answers(s) ==
  /\ \E r \in asked[s] :
       /\ r.answer = {}
       /\ IF r.kind # "cancel" \/ real[r.job] = "ended" THEN UNCHANGED real
          ELSE \E status \in Statuses : real' = [real EXCEPT ![r.job] = status]
       /\ Sends(s, {[r EXCEPT !.answer = {[j \in Answered(r.kind, r.job) |-> real'[j]]}]})
  /\ UNCHANGED <<listed, listing, failed, selected, shown, cancelling, chosen, overtaken, panelCounts>>

-----------------------------------------------------------------------------
(* The page                                                                *)

Arrived(s, kinds) ==
  \E r \in asked[s] : r.kind \in kinds /\ r.answer # {}
TheRequest(s) == CHOOSE r \in asked[s] : TRUE
TheAnswer(s) == CHOOSE l \in TheRequest(s).answer : TRUE

\* showAttempts, up to its request: the job is shown as the list has it.
Opened(s, j, list, again) ==
  /\ selected' = j
  /\ shown' = {<<j, l[j]>> : l \in list}
  /\ failed' = FALSE
  /\ Sends(s, Sent("detail", j, again))

\* What is still to come for the details of another job.
Due(j) ==
  \E r \in UnderWay :
    r.job \notin {j, NoJob} /\ (r.kind \in {"poll", "follow", "detail"} \/ r.again)

Click == ~listing /\ listed # {} /\ panelClicks < PanelClicks /\ panelClicks' = panelClicks + 1

\* Seeded fault: what was shown stays until the details arrive.
SelectJobKeepingDetails(s, j) ==
  /\ Click /\ Free(s)
  /\ selected' = j /\ failed' = FALSE /\ Sends(s, Sent("detail", j, FALSE)) /\ chosen' = j
  /\ overtaken' = (overtaken \/ Due(j))
  /\ UNCHANGED <<real, listed, listing, shown, cancelling, panelFaults>>

\* onSelectJob
SelectJob(s, j) ==
  /\ Click /\ Free(s)
  /\ Opened(s, j, listed, FALSE) /\ chosen' = j
  /\ overtaken' = (overtaken \/ Due(j))
  /\ UNCHANGED <<real, listed, listing, cancelling, panelFaults>>

\* onCloseDetails
CloseDetails ==
  /\ Click /\ selected # NoJob
  /\ selected' = NoJob /\ chosen' = NoJob /\ shown' = {}
  /\ overtaken' = (overtaken \/ Due(NoJob))
  /\ UNCHANGED <<real, listed, listing, failed, cancelling, asked, panelFaults>>

\* cancelJob, for a job that is shown as active; again: its details are to be
\* loaded again.
CancelJob(s, j) ==
  /\ Click /\ Free(s) /\ cancelling # j
  /\ (\E l \in listed : l[j] = "active") \/ <<j, "active">> \in shown
  /\ failed' = FALSE /\ cancelling' = j
  /\ Sends(s, Sent("cancel", j, selected = j))
  /\ UNCHANGED <<real, listed, listing, selected, shown, chosen, overtaken, panelFaults>>
\* Its answer has the list loaded,
Cancelled(s) ==
  /\ Arrived(s, {"cancel"})
  /\ Sends(s, Sent("relist", TheRequest(s).job, TheRequest(s).again))
  /\ UNCHANGED <<real, listed, listing, failed, selected, shown, cancelling, chosen, overtaken,
                 panelCounts>>
\* and then the details, if they were shown when the button was pressed.
Relisted(s) ==
  /\ Arrived(s, {"relist"})
  /\ listed' = TheRequest(s).answer
  /\ IF TheRequest(s).again THEN Opened(s, TheRequest(s).job, TheRequest(s).answer, TRUE)
     ELSE Sends(s, {}) /\ UNCHANGED <<failed, selected, shown>>
  /\ cancelling' = IF TheRequest(s).again THEN cancelling ELSE NoJob
  /\ UNCHANGED <<real, listing, chosen, overtaken, panelCounts>>

\* retryJobs
Reload(s) ==
  /\ failed /\ Free(s) /\ panelClicks < PanelClicks /\ panelClicks' = panelClicks + 1
  /\ failed' = FALSE /\ listing' = TRUE
  /\ Sends(s, Sent("list", NoJob, FALSE))
  /\ UNCHANGED <<real, listed, selected, shown, cancelling, chosen, overtaken, panelFaults>>
Listed(s) ==
  /\ Arrived(s, {"list"})
  /\ listed' = TheRequest(s).answer /\ listing' = FALSE /\ Sends(s, {})
  /\ UNCHANGED <<real, failed, selected, shown, cancelling, chosen, overtaken, panelCounts>>

\* The details of a job, asked for by a selection or by a poll, are shown,
\* whatever is selected.
Detailed(s) ==
  /\ Arrived(s, Details)
  /\ shown' = {<<TheRequest(s).job, TheAnswer(s)[TheRequest(s).job]>>}
  /\ Sends(s, {})
  /\ cancelling' = IF TheRequest(s).again THEN NoJob ELSE cancelling
  /\ UNCHANGED <<real, listed, listing, failed, selected, chosen, overtaken, panelCounts>>

\* The timer runs while the list shows a transform under way.
PollJobs(s) ==
  /\ Free(s) /\ \E l \in listed : \E j \in TransformJobs : l[j] # "ended"
  /\ Sends(s, Sent("poll", selected, FALSE))
  /\ UNCHANGED <<real, listed, listing, failed, selected, shown, cancelling, chosen, overtaken,
                 panelCounts>>

\* Seeded fault: the list is left alone when no transform is selected.
PolledForSelection(s) ==
  /\ Arrived(s, {"poll"})
  /\ IF TheRequest(s).job \in TransformJobs
     THEN listed' = TheRequest(s).answer /\ Sends(s, Sent("follow", TheRequest(s).job, FALSE))
     ELSE Sends(s, {}) /\ UNCHANGED listed
  /\ UNCHANGED <<real, listing, failed, selected, shown, cancelling, chosen, overtaken, panelCounts>>

\* The list is shown; the details of the transform that was selected when the
\* timer was set are asked for.
Polled(s) ==
  /\ Arrived(s, {"poll"})
  /\ listed' = TheRequest(s).answer
  /\ Sends(s, IF TheRequest(s).job \in TransformJobs THEN Sent("follow", TheRequest(s).job, FALSE)
              ELSE {})
  /\ UNCHANGED <<real, listing, failed, selected, shown, cancelling, chosen, overtaken, panelCounts>>

\* A request fails: nothing is changed but the error, which polls keep quiet,
\* and what it was waited for with.
Fails(s) ==
  /\ asked[s] # {} /\ panelFaults < PanelFaults /\ panelFaults' = panelFaults + 1
  /\ LET kind == TheRequest(s).kind IN
     /\ failed' = (failed \/ kind \notin {"poll", "follow"})
     /\ listing' = (listing /\ kind # "list")
     /\ cancelling' = IF kind \in {"cancel", "relist"} \/ TheRequest(s).again THEN NoJob ELSE cancelling
  /\ Sends(s, {})
  /\ UNCHANGED <<real, listed, selected, shown, chosen, overtaken, panelClicks>>

Delivers(s) == Cancelled(s) \/ Relisted(s) \/ Listed(s) \/ Detailed(s) \/ Polled(s)
Proceeds == \E s \in PanelSlots : Answers(s) \/ Delivers(s) \/ PollJobs(s)
PanelNext ==
  \/ \E j \in PanelJobs : JobEnds(j)
  \/ CloseDetails
  \/ \E s \in PanelSlots :
       \/ Answers(s) \/ Delivers(s) \/ Fails(s) \/ PollJobs(s) \/ Reload(s)
       \/ \E j \in PanelJobs : SelectJob(s, j) \/ CancelJob(s, j)

\* The server answers, the browser delivers, the timer fires; one request may
\* be passed over by others.
PanelSpec == PanelInit /\ [][PanelNext]_panelVars /\ WF_panelVars(Proceeds)

-----------------------------------------------------------------------------
\* The details that are shown are those of the job the user selected last; but
\* showAttempts, the polls and cancelJob do not look whether the selection is
\* still theirs, so that may fail once a selection was made while the answer
\* for another job was due.
DetailsAreChosen ==
  overtaken \/ (selected = chosen /\ \A d \in shown : d[1] = chosen)

\* A transform that ended is not shown as under way for ever, in whatever
\* order overlapping polls, reloads and cancellations are delivered.
ProgressIsFollowed ==
  \A j \in TransformJobs :
    (\E l \in listed : l[j] # "ended" /\ real[j] = "ended")
      ~> (\E l \in listed : l[j] = "ended" \/ real[j] # "ended")
=============================================================================
