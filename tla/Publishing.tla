----------------------------- MODULE Publishing -----------------------------
(***************************************************************************)
(* The publish handlers side by side: a publish job belongs to one         *)
(* platform, and only that platform's handler runs it.                     *)
(***************************************************************************)
EXTENDS DestinationPublish

CONSTANT Platforms
ASSUME PlatformAssumption == Platforms \subseteq {"tiktok", "youtube", "instagram", "facebook"}

VARIABLE platform  \* the job type

TikTok == INSTANCE TikTokPublish
YouTube == INSTANCE YouTubePublish
Instagram == INSTANCE InstagramPublish
Facebook == INSTANCE FacebookPublish

allVars == <<vars, platform>>

PublishInit == Init /\ platform \in Platforms

Handle ==
  /\ UNCHANGED platform
  /\ \/ platform = "tiktok" /\ TikTok!HandlerStep
     \/ platform = "youtube" /\ YouTube!HandlerStep
     \/ platform = "instagram" /\ Instagram!HandlerStep
     \/ platform = "facebook" /\ Facebook!HandlerStep
ServiceStep ==
  /\ UNCHANGED platform
  /\ \/ platform = "tiktok" /\ (TikTok!ServiceStep \/ UrlExpires)
     \/ platform = "youtube" /\ YouTube!ServiceStep
     \/ platform = "instagram" /\ (Instagram!ServiceStep \/ Reconnect)
     \/ platform = "facebook" /\ (Facebook!ServiceStep \/ Reconnect)
Manage == RunnerStep /\ UNCHANGED platform

PublishNext == Handle \/ ServiceStep \/ Manage

\* The runner claims what is queued, and a handler that was claimed goes on:
\* every request is answered or fails.
PublishFairness == WF_allVars(Handle) /\ WF_allVars(Claim /\ UNCHANGED platform)
PublishSpec == PublishInit /\ [][PublishNext]_allVars /\ PublishFairness

\* Every publish job is a publication: posted at most once, and successful
\* only when posted (checkpoints of the four handlers, class comments).
P == INSTANCE Publication WITH
       posts <- Cardinality(Posted),
       outcome <- IF job.status \in {"queued", "running"} THEN "open" ELSE job.status
ImplementsPublication == P!Spec

\* A publish job does not stay under way for ever, whatever the service
\* answers: every retry is counted.
PublishJobSettles == job.status = "running" ~> job.status \in {"succeeded", "failed", "cancelled"}
=============================================================================
