--------------------------- MODULE WebhookDelivery --------------------------
(***************************************************************************)
(* Outbound webhooks: the allowlist that is reconciled at every start, the *)
(* delivery row written for each enabled destination of an event, its job, *)
(* and the handler that signs and sends it.  One event is followed; every  *)
(* destination subscribed to it has at most one delivery.                  *)
(*                                                                         *)
(* publish() is synchronous, so nothing else of the server runs between    *)
(* its statements, but each one commits by itself and the process may die  *)
(* between them.                                                           *)
(***************************************************************************)
EXTENDS Integers, FiniteSets

CONSTANTS
  Destinations,        \* every destination any configuration names
  DeliveryAttempts,    \* webhooks.maxAttempts
  WebhookRestartBound, \* bound: starts of the server
  WebhookRetryBound    \* bound: attempts, with those of manual retries and of jobs
                       \* that a late answer puts back

VARIABLES
  server,        \* down, or how far its start came, or up, or in publish()
  configured,    \* WEBHOOK_DESTINATIONS_JSON of the latest start
  destinations,  \* webhook_destinations: its rows and which are enabled
  signingKeys,   \* destinations whose signing key is in the secret store
  publishTo,     \* what publish() has still to go through
  delivery,      \* webhook_deliveries
  deliveryJob,   \* the webhook.deliver job of a delivery
  sending,       \* executions of the handler past the start of the attempt
  accepted,      \* destinations whose endpoint answered 2xx
  starts

webhookVars == <<server, configured, destinations, signingKeys, publishTo, delivery,
                 deliveryJob, sending, accepted, starts>>

NoDelivery == [status |-> "none", job |-> FALSE]
NoJob == [status |-> "none", attempts |-> 0, cancel |-> FALSE]
Execution == [to : Destinations, attempt : 1..WebhookRetryBound,
              phase : {"secret", "send", "answered"},
              answer : {"none", "ok", "retryable", "rejected", "aborted"}]

WebhookTypeOK ==
  /\ server \in {"down", "secrets", "reconcile", "forget", "recover", "up", "publish"}
  /\ configured \subseteq Destinations
  /\ destinations \in [Destinations -> {"unknown", "enabled", "disabled"}]
  /\ signingKeys \subseteq Destinations /\ accepted \subseteq Destinations
  /\ publishTo \subseteq Destinations
  /\ delivery \in [Destinations ->
       [status : {"none", "pending", "running", "retrying", "succeeded", "failed"},
        job : BOOLEAN]]
  /\ deliveryJob \in [Destinations ->
       [status : {"none", "queued", "running", "succeeded", "failed", "cancelled"},
        attempts : 0..WebhookRetryBound, cancel : BOOLEAN]]
  /\ sending \subseteq Execution
  /\ starts \in 0..WebhookRestartBound

WebhookInit ==
  /\ server = "down" /\ configured = {} /\ starts = 0
  /\ destinations = [d \in Destinations |-> "unknown"]
  /\ signingKeys = {} /\ publishTo = {} /\ accepted = {}
  /\ delivery = [d \in Destinations |-> NoDelivery]
  /\ deliveryJob = [d \in Destinations |-> NoJob]
  /\ sending = {}

-----------------------------------------------------------------------------
(* The start of the server: WebhookService.configure, then recover.        *)

\* The URL policy validated every destination; otherwise nothing starts.
Start(config) ==
  /\ server = "down" /\ starts < WebhookRestartBound
  /\ server' = "secrets" /\ configured' = config /\ starts' = starts + 1
  /\ UNCHANGED <<destinations, signingKeys, publishTo, delivery, deliveryJob, sending, accepted>>

SetSecret ==
  /\ server = "secrets"
  /\ IF configured \subseteq signingKeys
     THEN server' = "reconcile" /\ UNCHANGED signingKeys
     ELSE /\ \E d \in configured \ signingKeys : signingKeys' = signingKeys \cup {d}
          /\ UNCHANGED server
  /\ UNCHANGED <<configured, destinations, publishTo, delivery, deliveryJob, sending,
                 accepted, starts>>

\* reconcileDestinations: one transaction
Reconcile ==
  /\ server = "reconcile"
  /\ destinations' = [d \in Destinations |->
       IF d \in configured THEN "enabled"
       ELSE IF destinations[d] = "enabled" THEN "disabled" ELSE destinations[d]]
  /\ server' = "forget"
  /\ UNCHANGED <<configured, signingKeys, publishTo, delivery, deliveryJob, sending,
                 accepted, starts>>

\* The keys of known destinations that are not configured any more.
Forgettable == {d \in signingKeys \ configured : destinations[d] # "unknown"}

\* Seeded fault: what an earlier start left behind is not looked for.
ForgetOneSecret ==
  /\ server = "forget"
  /\ server' = "recover"
  /\ IF Forgettable = {} THEN UNCHANGED signingKeys
     ELSE \E d \in Forgettable : signingKeys' = signingKeys \ {d}
  /\ UNCHANGED <<configured, destinations, publishTo, delivery, deliveryJob, sending,
                 accepted, starts>>

ForgetSecret ==
  /\ server = "forget"
  /\ IF Forgettable = {}
     THEN server' = "recover" /\ UNCHANGED signingKeys
     ELSE (\E d \in Forgettable : signingKeys' = signingKeys \ {d}) /\ UNCHANGED server
  /\ UNCHANGED <<configured, destinations, publishTo, delivery, deliveryJob, sending,
                 accepted, starts>>

Enqueued(d) == [deliveryJob EXCEPT ![d].status = IF @ = "none" THEN "queued" ELSE @]
Attached(d) == [delivery EXCEPT ![d].job = TRUE]
Unqueued == {d \in Destinations : delivery[d].status = "pending" /\ ~delivery[d].job}

\* Seeded fault: only deliveries whose job exists are recovered.
RecoverKnownJobs ==
  /\ server = "recover"
  /\ LET found == {d \in Unqueued : deliveryJob[d].status # "none"}
     IN  IF found = {} THEN server' = "up" /\ UNCHANGED delivery
         ELSE (\E d \in found : delivery' = Attached(d)) /\ UNCHANGED server
  /\ UNCHANGED <<configured, destinations, signingKeys, publishTo, deliveryJob, sending,
                 accepted, starts>>

\* recover(): enqueue() finds the job when it had been created already.
RecoverUnqueued ==
  /\ server = "recover"
  /\ IF Unqueued = {} THEN server' = "up" /\ UNCHANGED <<delivery, deliveryJob>>
     ELSE \E d \in Unqueued :
            /\ deliveryJob' = Enqueued(d) /\ delivery' = Attached(d) /\ UNCHANGED server
  /\ UNCHANGED <<configured, destinations, signingKeys, publishTo, sending, accepted, starts>>

\* recoverExpiredLeases
Recovered(j) ==
  [j EXCEPT !.status = IF j.cancel THEN "cancelled"
                       ELSE IF j.attempts < DeliveryAttempts THEN "queued" ELSE "failed"]

\* The process dies; leases of running jobs run out before it is up again.
WebhookCrash ==
  /\ server # "down" /\ starts < WebhookRestartBound
  /\ server' = "down" /\ publishTo' = {} /\ sending' = {}
  /\ deliveryJob' = [d \in Destinations |->
       IF deliveryJob[d].status = "running" THEN Recovered(deliveryJob[d]) ELSE deliveryJob[d]]
  /\ UNCHANGED <<configured, destinations, signingKeys, delivery, accepted, starts>>

-----------------------------------------------------------------------------
(* publish(event), for every enabled destination that subscribes to it.    *)

Publish ==
  /\ server = "up" /\ \A d \in Destinations : delivery[d].status = "none"
  /\ server' = "publish"
  /\ publishTo' \in SUBSET {d \in Destinations : destinations[d] = "enabled"}
  /\ UNCHANGED <<configured, destinations, signingKeys, delivery, deliveryJob, sending,
                 accepted, starts>>

CreateDelivery(d) ==
  /\ server = "publish" /\ d \in publishTo /\ Unqueued = {}
  /\ delivery[d].status = "none"
  /\ delivery' = [delivery EXCEPT ![d].status = "pending"]
  /\ UNCHANGED <<server, configured, destinations, signingKeys, publishTo, deliveryJob,
                 sending, accepted, starts>>
CreateJob(d) ==
  /\ server = "publish" /\ d \in Unqueued /\ deliveryJob[d].status = "none"
  /\ deliveryJob' = Enqueued(d)
  /\ UNCHANGED <<server, configured, destinations, signingKeys, publishTo, delivery,
                 sending, accepted, starts>>
AttachJob(d) ==
  /\ server = "publish" /\ d \in Unqueued /\ deliveryJob[d].status # "none"
  /\ delivery' = Attached(d) /\ publishTo' = publishTo \ {d}
  /\ UNCHANGED <<server, configured, destinations, signingKeys, deliveryJob, sending,
                 accepted, starts>>
PublishDone ==
  /\ server = "publish" /\ publishTo = {}
  /\ server' = "up"
  /\ UNCHANGED <<configured, destinations, signingKeys, publishTo, delivery, deliveryJob,
                 sending, accepted, starts>>

-----------------------------------------------------------------------------
(* WebhookDeliveryJobHandler.execute.                                      *)

Recorded(d, status) == delivery' = [delivery EXCEPT ![d].status = status]
\* How the runner settles the job: complete, fail and cancelRunning want it to be
\* running and owned by the worker.  All executions are of the one worker, so one
\* whose lease is over settles the attempt that has been claimed since.
SettledJob(e, status) ==
  LET j == deliveryJob[e.to] IN
  IF j.status = "running"
  THEN [deliveryJob EXCEPT ![e.to].status = IF j.cancel THEN "cancelled" ELSE status]
  ELSE deliveryJob
Ends(e) == sending' = sending \ {e}
Goes(e, phase, answer) ==
  sending' = (sending \ {e}) \cup {[e EXCEPT !.phase = phase, !.answer = answer]}

\* The claim, and the handler as far as the read of the signing key: a settled
\* delivery is not reopened, and the destination must still be allowed.
StartAttempt(d) ==
  LET j == deliveryJob[d] IN
  /\ server = "up" /\ j.status = "queued" /\ j.attempts < WebhookRetryBound
  /\ IF destinations[d] = "enabled"
     THEN /\ deliveryJob' = [deliveryJob EXCEPT ![d].status = "running", ![d].attempts = @ + 1]
          /\ Recorded(d, IF delivery[d].status \in {"succeeded", "failed"}
                         THEN delivery[d].status ELSE "running")
          /\ sending' = sending \cup
               {[to |-> d, attempt |-> j.attempts + 1, phase |-> "secret", answer |-> "none"]}
     ELSE /\ deliveryJob' = [deliveryJob EXCEPT ![d].status = "failed", ![d].attempts = @ + 1]
          /\ Recorded(d, "failed") /\ UNCHANGED sending
  /\ UNCHANGED <<server, configured, destinations, signingKeys, publishTo, accepted, starts>>

SecretRead(e) ==
  /\ e.phase = "secret"
  /\ IF e.to \in signingKeys
     THEN Goes(e, "send", "none") /\ UNCHANGED <<delivery, deliveryJob>>
     ELSE Ends(e) /\ Recorded(e.to, "failed") /\ deliveryJob' = SettledJob(e, "failed")
  /\ UNCHANGED <<server, configured, destinations, signingKeys, publishTo, accepted, starts>>

\* The transport: the endpoint took the event and answered 2xx, or took it and
\* the answer was lost, or there was none, or the signal aborted the request.
Sent(e) ==
  /\ e.phase = "send"
  /\ \/ \E a \in {"ok", "retryable"} : Goes(e, "answered", a) /\ accepted' = accepted \cup {e.to}
     \/ \E a \in {"retryable", "rejected"} : Goes(e, "answered", a) /\ UNCHANGED accepted
     \/ deliveryJob[e.to].cancel /\ Goes(e, "answered", "aborted") /\ UNCHANGED accepted
  /\ UNCHANGED <<server, configured, destinations, signingKeys, publishTo, delivery,
                 deliveryJob, starts>>

\* recordAttemptResult writes whatever the delivery's status is by now.
Answered(e) ==
  LET retry == e.answer = "retryable" /\ e.attempt < DeliveryAttempts IN
  /\ e.phase = "answered" /\ Ends(e)
  /\ Recorded(e.to, IF e.answer = "ok" THEN "succeeded" ELSE IF retry THEN "retrying" ELSE "failed")
  /\ deliveryJob' = SettledJob(e, IF e.answer = "ok" THEN "succeeded"
                                  ELSE IF retry THEN "queued" ELSE "failed")
  /\ UNCHANGED <<server, configured, destinations, signingKeys, publishTo, accepted, starts>>

\* The process stalled past the lease of e; its job is recovered while e is
\* still to go on.
LeaseOver(e) ==
  LET j == deliveryJob[e.to] IN
  /\ server = "up" /\ Cardinality(sending) = 1
  /\ j.status = "running"
  /\ deliveryJob' = [deliveryJob EXCEPT ![e.to] = Recovered(j)]
  /\ UNCHANGED <<server, configured, destinations, signingKeys, publishTo, delivery, sending,
                 accepted, starts>>

\* Job commands.
CancelDelivery(d) ==
  LET j == deliveryJob[d] IN
  /\ server = "up" /\ j.status \in {"queued", "running"} /\ ~j.cancel
  /\ deliveryJob' = [deliveryJob EXCEPT ![d].cancel = TRUE,
                       ![d].status = IF @ = "queued" THEN "cancelled" ELSE @]
  /\ UNCHANGED <<server, configured, destinations, signingKeys, publishTo, delivery, sending,
                 accepted, starts>>
RetryDelivery(d) ==
  /\ server = "up" /\ deliveryJob[d].status = "failed"
  /\ deliveryJob[d].attempts < WebhookRetryBound
  /\ deliveryJob' = [deliveryJob EXCEPT ![d].status = "queued"]
  /\ UNCHANGED <<server, configured, destinations, signingKeys, publishTo, delivery, sending,
                 accepted, starts>>

-----------------------------------------------------------------------------
Starting == SetSecret \/ Reconcile \/ ForgetSecret \/ RecoverUnqueued
\* What publish() has still to do for a destination.
PersistDelivery == \E d \in Destinations : CreateDelivery(d) \/ CreateJob(d) \/ AttachJob(d)
Publishing == Publish \/ PublishDone \/ PersistDelivery
Delivering ==
  \/ \E d \in Destinations : StartAttempt(d) \/ CancelDelivery(d) \/ RetryDelivery(d)
  \/ server = "up" /\ \E e \in sending : SecretRead(e) \/ Sent(e) \/ Answered(e) \/ LeaseOver(e)
StartAny == \E config \in SUBSET Destinations : Start(config)
WebhookNext == StartAny \/ Starting \/ Publishing \/ Delivering \/ WebhookCrash

\* The operator starts a server that died, and a start goes on; so does
\* publish(), which is synchronous.
WebhookFairness ==
  /\ WF_webhookVars(StartAny) /\ WF_webhookVars(Starting)
  /\ WF_webhookVars(PersistDelivery)
WebhookSpec == WebhookInit /\ [][WebhookNext]_webhookVars /\ WebhookFairness

-----------------------------------------------------------------------------
\* An enabled destination has its signing key, also when the server died in the
\* middle of configure(); and "removing it disables the persisted destination
\* and deletes its signing key" (docs/progress/v0.9.md), when an earlier start
\* that should have done so died as well.
KeysMatchAllowlist ==
  \A d \in Destinations :
    /\ destinations[d] = "enabled" => d \in signingKeys
    /\ (server \in {"recover", "up", "publish"} /\ d \notin configured)
         => (destinations[d] # "enabled" /\ (destinations[d] = "disabled" => d \notin signingKeys))

\* A delivery said to have succeeded was answered 2xx, and so was one whose job
\* succeeded, with late answers of attempts whose lease was over included.
SucceededWasAccepted ==
  \A d \in Destinations :
    delivery[d].status = "succeeded" \/ deliveryJob[d].status = "succeeded" => d \in accepted

\* Whatever instant the server dies at, a persisted delivery comes to have its
\* job ("Repairs the narrow crash window", recover()).
NoDeliveryForgotten == \A d \in Destinations : d \in Unqueued ~> delivery[d].job
=============================================================================
