----------------------------- MODULE MCServices -----------------------------
(***************************************************************************)
(* Small instances, for TLC, of what the server does with other services:  *)
(* publishing, the accounts it publishes with, webhooks, the requests of   *)
(* its own API and those of its media and jobs pages.  They share no       *)
(* state, so in a behaviour one of them goes on and the others stay as     *)
(* they begin.                                                             *)
(***************************************************************************)
EXTENDS Publishing, Sequences, FiniteSets

CONSTANTS
  s1, s2, d1, d2, t1, k1, k2, b1, b2, b3,   \* the values of the sets below
  Groups, Slots, RequestBound, IdBound, AccountCrashBound,
  Destinations, DeliveryAttempts, WebhookRestartBound, WebhookRetryBound,
  MetaTargetIds, DiscoverySlots, DiscoveryBound,
  ApiTokens, PublishKeys, CreateKeys, Bodies, WorkOf, RequestSlots, ApiFaultBound,
  Assets, Originals, TypedTimes, TypedTexts, Inferred, PostBound, ClickBound,
  PanelJobs, TransformJobs, PanelSlots, PanelClicks, PanelFaults

VARIABLES
  component,  \* the one that goes on
  active, connection, tokens, requests, verifiers, begun, ids, flow, serverCrashes,
  server, configured, destinations, signingKeys, publishTo, delivery, deliveryJob,
  sending, accepted, starts,
  targets, pageTokens, writes, discovery, discoveries, tokenless, choice,
  apiToken, reservation, request, effects, apiCrashes, storeFailures, releaseFailures,
  stored, recency, workspace, typed, dirty, guarded, publishing, busy, posted, crossed, clicks,
  real, listed, listing, failed, selected, shown, cancelling, asked, chosen, overtaken,
  panelClicks, panelFaults

Accounts == INSTANCE AccountConnection WITH account <- connection
Targets == INSTANCE MetaTargets
Webhooks == INSTANCE WebhookDelivery
Api == INSTANCE ApiRequests
Page == INSTANCE TranscriptWorkspace
Jobs == INSTANCE JobsPanel

accountVars == <<active, connection, tokens, requests, verifiers, begun, ids, flow, serverCrashes>>
targetVars == <<targets, pageTokens, writes, discovery, discoveries, tokenless, choice>>
webhookVars == <<server, configured, destinations, signingKeys, publishTo, delivery, deliveryJob,
                 sending, accepted, starts>>
apiVars ==
  <<apiToken, reservation, request, effects, apiCrashes, storeFailures, releaseFailures>>
pageVars ==
  <<stored, recency, workspace, typed, dirty, guarded, publishing, busy, posted, crossed, clicks>>
jobsVars == <<real, listed, listing, failed, selected, shown, cancelling, asked, chosen,
              overtaken, panelClicks, panelFaults>>
servicesVars ==
  <<component, allVars, accountVars, targetVars, webhookVars, apiVars, pageVars, jobsVars>>

\* A delivery is attempted at all; bounds.
ASSUME WebhookAssumption ==
  /\ WebhookRestartBound \in Nat /\ WebhookRetryBound \in Nat
  /\ DeliveryAttempts \in Nat \ {0}
\* Bounds of what may happen; a body names its platform or its file.
ASSUME TargetsAssumption == DiscoveryBound \in Nat
ASSUME ApiAssumption == ApiFaultBound \in Nat /\ WorkOf \in [Bodies -> Bodies]
\* A connection is of a provider that there is.
ASSUME AccountAssumption ==
  /\ Groups \subseteq SUBSET Accounts!Providers
  /\ RequestBound \in Nat /\ IdBound \in Nat /\ AccountCrashBound \in Nat
\* No job has the name that stands for none.
ASSUME PanelAssumption ==
  /\ TransformJobs \subseteq PanelJobs /\ Jobs!NoJob \notin PanelJobs
  /\ PanelClicks \in Nat /\ PanelFaults \in Nat
\* A transcript has no cues yet or those that the schema takes, as those of a
\* transcription (replaceGeneratedCues parses them); a user types anything.
ASSUME PageAssumption ==
  /\ IsFiniteSet(Page!Ids)
  /\ \A id \in Page!Ids :
       /\ Originals[id].asset \in Assets /\ Originals[id].cues \in Seq(Page!CueRow)
       /\ Originals[id].cues = <<>> \/ Page!ValidCues(Originals[id].cues)
  /\ Inferred \in Seq(Page!CueRow) /\ Page!ValidCues(Inferred)
  /\ TypedTimes \subseteq Nat \X Nat \X Nat \X Nat /\ TypedTexts \subseteq STRING
  /\ PostBound \in Nat /\ ClickBound \in Nat

\* Each provider alone, and the two that keep a PKCE verifier differently.
ProviderGroups ==
  {{"youtube"}, {"tiktok"}, {"twitch"}, {"kick"}, {"meta"}, {"youtube", "meta"}}

\* Two bodies name one platform, the third another.
NamedWork == [b \in {b1, b2, b3} |-> IF b = b3 THEN b3 ELSE b1]

\* Two transcripts of one media, one of them not generated yet; times at the
\* borders of a minute, of an hour and of a hundred hours.
Cue(from, to, text, words) == [start |-> from, end |-> to, text |-> text, words |-> words]
Transcripts == [id \in {s1, s2} |->
  [asset |-> d1,
   cues |-> IF id = s1 THEN <<Cue(0, 61500, "one", {<<500, 61500>>}),
                              Cue(3599999, 360000000, "two", {})>>
            ELSE <<>>]]
Spoken == <<Cue(1000, 2000, "one", {<<1000, 2000>>})>>
Times == {<<0, 0, 1, 0>>, <<0, 60, 0, 0>>}

ServicesInit ==
  /\ component \in {"publishing", "accounts", "targets", "webhooks", "api", "page", "jobs"}
  /\ PublishInit /\ (component # "publishing" => platform = "tiktok")
  /\ Accounts!AccountInit /\ (component # "accounts" => active = {"tiktok"})
  /\ Targets!TargetsInit
  /\ Webhooks!WebhookInit
  /\ Api!ApiInit
  /\ Page!WorkspaceInit
  /\ Jobs!PanelInit

Publish ==
  /\ component = "publishing" /\ PublishNext
  /\ UNCHANGED <<component, accountVars, targetVars, webhookVars, apiVars, pageVars, jobsVars>>
Connect ==
  /\ component = "accounts" /\ Accounts!AccountNext
  /\ UNCHANGED <<component, allVars, targetVars, webhookVars, apiVars, pageVars, jobsVars>>
Find ==
  /\ component = "targets" /\ Targets!TargetsNext
  /\ UNCHANGED <<component, allVars, accountVars, webhookVars, apiVars, pageVars, jobsVars>>
Deliver ==
  /\ component = "webhooks" /\ Webhooks!WebhookNext
  /\ UNCHANGED <<component, allVars, accountVars, targetVars, apiVars, pageVars, jobsVars>>
Answer ==
  /\ component = "api" /\ Api!ApiNext
  /\ UNCHANGED <<component, allVars, accountVars, targetVars, webhookVars, pageVars, jobsVars>>
Edit ==
  /\ component = "page" /\ Page!WorkspaceNext
  /\ UNCHANGED <<component, allVars, accountVars, targetVars, webhookVars, apiVars, jobsVars>>
Watch ==
  /\ component = "jobs" /\ Jobs!PanelNext
  /\ UNCHANGED <<component, allVars, accountVars, targetVars, webhookVars, apiVars, pageVars>>
ServicesNext == Publish \/ Connect \/ Find \/ Deliver \/ Answer \/ Edit \/ Watch

\* PublishFairness, WebhookFairness and that of PanelSpec, of the component
\* that goes on.
ServicesFairness ==
  /\ WF_allVars(component = "publishing" /\ Handle)
  /\ WF_allVars(component = "publishing" /\ Claim /\ UNCHANGED platform)
  /\ WF_webhookVars(component = "webhooks" /\ Webhooks!StartAny)
  /\ WF_webhookVars(component = "webhooks" /\ Webhooks!Starting)
  /\ WF_webhookVars(component = "webhooks" /\ Webhooks!PersistDelivery)
  /\ WF_jobsVars(component = "jobs" /\ Jobs!Proceeds)
ServicesSpec == ServicesInit /\ [][ServicesNext]_servicesVars /\ ServicesFairness

-----------------------------------------------------------------------------
\* Every variable has its type, in whatever component goes on.
ServicesTypeOK ==
  /\ TypeOK
  /\ Accounts!AccountTypeOK
  /\ Targets!TargetsTypeOK
  /\ Webhooks!WebhookTypeOK
  /\ Api!ApiTypeOK
  /\ Page!WorkspaceTypeOK
  /\ Jobs!PanelTypeOK

\* A connection can be used and is made once (OAuth services of the
\* integrations): a callback is answered once, a request that can come back
\* has its verifier, a connected account has its token, an outage of the token
\* endpoint keeps it.
\* A target of Meta that may be published to has its token and was not
\* switched off.
ConnectionsHold ==
  /\ Accounts!StateUsedOnce
  /\ Accounts!LiveRequestHasVerifier
  /\ Accounts!ConnectedHasToken
  /\ Accounts!TokenOutageKeepsAccount
  /\ Targets!SwitchedOffStaysOff
  /\ Targets!PublishableHasToken

\* What the webhook tables say is so (core/webhooks.ts): a success was
\* accepted by its endpoint, and a destination that may be sent to has a key.
WebhookTablesHold == Webhooks!SucceededWasAccepted /\ Webhooks!KeysMatchAllowlist

\* Nothing is lost unasked: a delivery, once persisted, comes to have its job
\* (recover of core/webhooks.ts); edits of a transcript are discarded after a
\* warning or stored (media-route.tsx); a transform that ended comes to be
\* shown as ended (jobs-route.tsx).
NothingForgotten ==
  /\ Webhooks!NoDeliveryForgotten
  /\ Page!EditsVanishAsked
  /\ Jobs!ProgressIsFollowed

\* Idempotent requests (api-v1.ts, idempotent) are done once, answered with
\* their own work, and free to be sent again when they failed; what a failed
\* write of the record or a crash changes of that, the three conjuncts of
\* ApiRequests name.  The requests of the media page (media-route.tsx,
\* transcript-editor.tsx) save what was edited and nothing else, and are not
\* refused as invalid; the jobs page (jobs-route.tsx) shows the job that was
\* selected.
RequestsHold ==
  /\ Api!DoneOnce
  /\ Api!AnswerIsOwn
  /\ Api!PendingIsUnderWay
  /\ Page!SavesAreFaithful
  /\ Page!EditsAreGuarded
  /\ Jobs!DetailsAreChosen
=============================================================================
