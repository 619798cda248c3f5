---------------------------- MODULE ApiRequests -----------------------------
(***************************************************************************)
(* The /api/v1 requests that change something: bearer tokens, and the      *)
(* idempotency record that makes a request with an Idempotency-Key safe to *)
(* send again.  A request is authorized, reserves its key, runs, and its   *)
(* answer is recorded; between two awaits nothing else of the server runs, *)
(* and the process may die between any two steps.                          *)
(***************************************************************************)
EXTENDS Integers, FiniteSets

CONSTANTS
  ApiTokens,        \* api_tokens, by id
  PublishKeys,      \* (subject, operation, key) of publish and import requests
  CreateKeys,       \* of requests that create a workflow, source or schedule
  Bodies,           \* request bodies, told apart by their hash
  WorkOf,           \* the job of its platform or the file that a body names, as a
                    \* body that names it: [Bodies -> Bodies]
  RequestSlots,     \* bound: requests under way at once
  ApiFaultBound     \* bound: crashes and failed writes of a record; a release may
                    \* fail after a record that could not be completed, too

VARIABLES
  apiToken,      \* the tokens: their permissions and whether they are revoked
  reservation,   \* api_idempotency_records
  request,       \* the request in each slot
  effects,       \* how often requests of each key have done what a body asks for
  apiCrashes,
  storeFailures, releaseFailures   \* of complete and of release

Faults == apiCrashes + storeFailures + releaseFailures
faultVars == <<apiCrashes, storeFailures, releaseFailures>>
apiVars == <<apiToken, reservation, request, effects, faultVars>>

Keys == PublishKeys \cup CreateKeys
NoRequest == [phase |-> "none"]
NoRecord == [status |-> "none"]
Record == {NoRecord} \cup [status : {"pending"}, body : Bodies]
            \cup [status : {"completed"}, body : Bodies, response : Bodies]

ApiTypeOK ==
  /\ apiToken \in [ApiTokens -> {"none", "read", "control", "revoked"}]
  /\ reservation \in [Keys -> Record]
  /\ request \in [RequestSlots -> {NoRequest} \cup
       [phase : {"authorized", "running"}, key : Keys, body : Bodies] \cup
       [phase : {"done"}, key : Keys, body : Bodies, response : Bodies] \cup
       [phase : {"failed"}, key : Keys, body : Bodies] \cup
       [phase : {"answered"}, key : Keys, body : Bodies, response : Bodies]]
  /\ effects \in [Keys -> [Bodies -> Nat]]
  /\ {apiCrashes, storeFailures, releaseFailures} \subseteq 0..ApiFaultBound

ApiInit ==
  /\ apiToken = [t \in ApiTokens |-> "none"]
  /\ reservation = [k \in Keys |-> NoRecord]
  /\ request = [s \in RequestSlots |-> NoRequest]
  /\ effects = [k \in Keys |-> [b \in Bodies |-> 0]]
  /\ apiCrashes = 0 /\ storeFailures = 0 /\ releaseFailures = 0

-----------------------------------------------------------------------------
\* ApiTokenService.create and revoke; control implies read.
CreateToken(t) ==
  /\ apiToken[t] = "none"
  /\ \E permission \in {"read", "control"} : apiToken' = [apiToken EXCEPT ![t] = permission]
  /\ UNCHANGED <<reservation, request, effects, faultVars>>
RevokeToken(t) ==
  /\ apiToken[t] \in {"read", "control"}
  /\ apiToken' = [apiToken EXCEPT ![t] = "revoked"]
  /\ UNCHANGED <<reservation, request, effects, faultVars>>

\* authorize(): an unrevoked token with the permission; the route has validated
\* the body and the key.  The requests of a key come from its own subject.
Authorize(s, k, body) ==
  /\ request[s] = NoRequest
  /\ \E t \in ApiTokens : apiToken[t] = "control"
  /\ request' = [request EXCEPT ![s] = [phase |-> "authorized", key |-> k, body |-> body]]
  /\ UNCHANGED <<apiToken, reservation, effects, faultVars>>

Answer(s, response) ==
  request' = [request EXCEPT ![s] = [phase |-> "answered", key |-> request[s].key,
                                     body |-> request[s].body, response |-> response]]
Refuse(s) == request' = [request EXCEPT ![s] = NoRequest]

\* Seeded fault: a record that is pending is taken over.
BeginTakesOver(s) ==
  LET r == request[s]  record == reservation[r.key] IN
  /\ r.phase = "authorized"
  /\ IF record.status # "completed"
     THEN /\ reservation' = [reservation EXCEPT ![r.key] = [status |-> "pending", body |-> r.body]]
          /\ request' = [request EXCEPT ![s].phase = "running"]
     ELSE /\ IF record.body = r.body THEN Answer(s, record.response) ELSE Refuse(s)
          /\ UNCHANGED reservation
  /\ UNCHANGED <<apiToken, effects, faultVars>>

\* begin(): INSERT OR IGNORE.  A key in use with another body is refused, one
\* whose request is not over is too, and the answer of one that is, replayed.
Begin(s) ==
  LET r == request[s]  record == reservation[r.key] IN
  /\ r.phase = "authorized"
  /\ IF record.status = "none"
     THEN /\ reservation' = [reservation EXCEPT ![r.key] = [status |-> "pending", body |-> r.body]]
          /\ request' = [request EXCEPT ![s].phase = "running"]
     ELSE /\ IF record.status = "completed" /\ record.body = r.body
             THEN Answer(s, record.response) ELSE Refuse(s)
          /\ UNCHANGED reservation
  /\ UNCHANGED <<apiToken, effects, faultVars>>

\* What requests of a key have done; and the part of it that a request of this
\* body finds: the job of a publish request has a key of the request's and its
\* platform's (api:<subject>:<platform>:<key>) and keeps the input it was made
\* with, and a file is imported once.  Other requests find nothing.
Done(k) == {b \in Bodies : effects[k][b] # 0}
Found(k, body) == {b \in Done(k) : k \in PublishKeys /\ WorkOf[b] = WorkOf[body]}

\* The action ran: it found its work or did it.
Run(s) ==
  LET r == request[s]
      found == Found(r.key, r.body)
      made == IF found = {} THEN r.body ELSE CHOOSE b \in found : TRUE IN
  /\ r.phase = "running"
  /\ effects' = [effects EXCEPT ![r.key][made] = IF found = {} THEN @ + 1 ELSE @]
  /\ request' = [request EXCEPT ![s] = [phase |-> "done", key |-> r.key, body |-> r.body,
                                        response |-> made]]
  /\ UNCHANGED <<apiToken, reservation, faultVars>>
\* It threw before anything was done: options or an invalid workflow.
RunFailed(s) ==
  /\ request[s].phase = "running"
  /\ request' = [request EXCEPT ![s].phase = "failed"]
  /\ UNCHANGED <<apiToken, reservation, effects, faultVars>>

\* complete(): only a pending record; the database may refuse it.
Complete(s) ==
  LET r == request[s] IN
  /\ r.phase = "done"
  /\ \/ /\ reservation' = [reservation EXCEPT ![r.key] =
             [status |-> "completed", body |-> @.body, response |-> r.response]]
        /\ Answer(s, r.response)
        /\ UNCHANGED storeFailures
     \/ /\ Faults < ApiFaultBound /\ storeFailures' = storeFailures + 1
        /\ request' = [request EXCEPT ![s] = [phase |-> "failed", key |-> r.key, body |-> r.body]]
        /\ UNCHANGED reservation
  /\ UNCHANGED <<apiToken, effects, apiCrashes, releaseFailures>>

\* release(): a failed request gives its pending key back; the database may
\* refuse that too, and the key stays pending.
Release(s) ==
  /\ request[s].phase = "failed"
  /\ \/ /\ reservation' = [reservation EXCEPT ![request[s].key] = NoRecord]
        /\ UNCHANGED releaseFailures
     \/ /\ apiCrashes + releaseFailures < ApiFaultBound
        /\ releaseFailures' = releaseFailures + 1
        /\ UNCHANGED reservation
  /\ Refuse(s)
  /\ UNCHANGED <<apiToken, effects, apiCrashes, storeFailures>>

\* The answer reached the client, or not: it may send the request again.
AnswerSent(s) ==
  /\ request[s].phase = "answered"
  /\ Refuse(s)
  /\ UNCHANGED <<apiToken, reservation, effects, faultVars>>

ApiCrash ==
  /\ Faults < ApiFaultBound /\ \E s \in RequestSlots : request[s] # NoRequest
  /\ apiCrashes' = apiCrashes + 1
  /\ request' = [s \in RequestSlots |-> NoRequest]
  /\ UNCHANGED <<apiToken, reservation, effects, storeFailures, releaseFailures>>

ApiNext ==
  \/ \E t \in ApiTokens : CreateToken(t) \/ RevokeToken(t)
  \/ \E s \in RequestSlots :
       \/ \E k \in Keys, body \in Bodies : Authorize(s, k, body)
       \/ Begin(s) \/ Run(s) \/ RunFailed(s) \/ Complete(s) \/ Release(s) \/ AnswerSent(s)
  \/ ApiCrash

ApiSpec == ApiInit /\ [][ApiNext]_apiVars

-----------------------------------------------------------------------------
\* "Idempotency-Key so safe retries do not duplicate work" (docs/mcp-api.md):
\* however often a request is sent, whatever overtakes it and wherever the
\* server died, its work is done once.  After a record that could not be
\* completed, a create request is done again, and a publish or import request
\* only for another platform or another file.
DoneOnce ==
  \A k \in Keys : \A a, b \in Done(k) :
    \/ a = b /\ effects[k][a] = 1
    \/ storeFailures > 0 /\ k \in CreateKeys
    \/ storeFailures > 0 /\ effects[k][a] = 1 /\ WorkOf[a] # WorkOf[b]

\* A client is told of work that was done, on the platform or of the file that
\* its own body names, when a retry found it done too.  The work is that of its
\* body, but for a publish key whose record could not be completed: then it may
\* be that of the body sent before.
AnswerIsOwn ==
  \A s \in RequestSlots :
    request[s].phase = "answered" =>
      /\ request[s].response \in Done(request[s].key)
      /\ WorkOf[request[s].response] = WorkOf[request[s].body]
      /\ request[s].response = request[s].body
           \/ (storeFailures > 0 /\ request[s].key \in PublishKeys)

\* Unless the server died in between or the key could not be given back, a key
\* is pending only for a request that is under way: a request that failed may
\* be corrected and sent again.
PendingIsUnderWay ==
  (apiCrashes = 0 /\ releaseFailures = 0) =>
    \A k \in Keys : reservation[k].status = "pending" =>
      Cardinality({s \in RequestSlots :
        request[s].phase \in {"running", "done", "failed"} /\ request[s].key = k}) = 1
=============================================================================
