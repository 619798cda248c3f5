--------------------------- MODULE RequestsProofs ---------------------------
(***************************************************************************)
(* Theorems about the requests of the API, of the jobs page and of the     *)
(* media page, for every number of jobs, transcripts and requests; and the *)
(* types of all of MCServices.                                             *)
(***************************************************************************)
EXTENDS ConnectionsProofs, PublishingProofs, SequenceTheorems

-----------------------------------------------------------------------------
(* Requests of the API.                                                    *)

\* The request in slot s holds its key.
Working(s) == request[s].phase \in {"running", "done", "failed"}
Pending(k) == reservation[k].status = "pending"

\* A key that is pending is held by one request, or was when the server died
\* or could not give it back.
KeysHeld ==
  /\ \A s \in RequestSlots : Working(s) => Pending(request[s].key)
  /\ \A s, t \in RequestSlots : Working(s) /\ Working(t) /\ request[s].key = request[t].key => s = t
  /\ apiCrashes = 0 /\ releaseFailures = 0 =>
       \A k \in Api!Keys : Pending(k) => \E s \in RequestSlots : Working(s) /\ request[s].key = k

\* The response is work of this key, done, and what the body names; it is that
\* of another body only for a publish key, after a record that was not written.
Told(k, body, response) ==
  /\ response \in Api!Done(k)
  /\ WorkOf[response] = WorkOf[body]
  /\ response = body \/ (storeFailures # 0 /\ k \in PublishKeys)

\* A publish or import request finds the work of its platform or its file, and
\* does it once.  While every record could be written, what was done stays
\* reserved and was done once for any request.
KeySound(k) ==
  /\ k \in PublishKeys =>
       \A a, b \in Api!Done(k) : effects[k][a] = 1 /\ (WorkOf[a] = WorkOf[b] => a = b)
  /\ storeFailures = 0 =>
       /\ \A a, b \in Api!Done(k) : effects[k][a] = 1 /\ a = b
       /\ Api!Done(k) # {} => reservation[k].status # "none"
  /\ reservation[k].status = "completed" => Told(k, reservation[k].body, reservation[k].response)

\* A key is pending for the body of the request that holds it.
RequestSound(s) ==
  /\ Working(s) => request[s].body = reservation[request[s].key].body
  /\ request[s].phase \in {"running", "failed"} /\ storeFailures = 0 => Api!Done(request[s].key) = {}
  /\ request[s].phase \in {"done", "answered"} =>
       Told(request[s].key, request[s].body, request[s].response)

ApiInv ==
  /\ Api!ApiTypeOK
  /\ KeysHeld
  /\ \A k \in Api!Keys : KeySound(k)
  /\ \A s \in RequestSlots : RequestSound(s)

ApiRow ==
  {Api!NoRequest} \cup [phase : {"authorized", "running", "failed"}, key : Api!Keys, body : Bodies]
    \cup [phase : {"done", "answered"}, key : Api!Keys, body : Bodies, response : Bodies]

\* The types that the steps need, apart.
LEMMA ApiTypes ==
  Api!ApiTypeOK <=>
    /\ apiToken \in [ApiTokens -> {"none", "read", "control", "revoked"}]
    /\ reservation \in [Api!Keys -> Api!Record]
    /\ request \in [RequestSlots -> ApiRow]
    /\ effects \in [Api!Keys -> [Bodies -> Nat]]
    /\ {apiCrashes, storeFailures, releaseFailures} \subseteq 0..ApiFaultBound
<1>1. ApiRow = {Api!NoRequest} \cup
       [phase : {"authorized", "running"}, key : Api!Keys, body : Bodies] \cup
       [phase : {"done"}, key : Api!Keys, body : Bodies, response : Bodies] \cup
       [phase : {"failed"}, key : Api!Keys, body : Bodies] \cup
       [phase : {"answered"}, key : Api!Keys, body : Bodies, response : Bodies]
  BY DEF ApiRow
<1> QED
  BY <1>1 DEF Api!ApiTypeOK

\* What a request is,
LEMMA ApiRows ==
  ASSUME Api!ApiTypeOK, NEW s \in RequestSlots
  PROVE  /\ request[s] = Api!NoRequest <=> request[s].phase = "none"
         /\ request[s].phase # "none" => request[s].key \in Api!Keys /\ request[s].body \in Bodies
         /\ request[s].phase \in {"none", "authorized", "running", "done", "failed", "answered"}
         /\ request[s].phase \in {"done", "answered"} => request[s].response \in Bodies
         /\ request[s].phase \in {"authorized", "running", "failed"} =>
              request[s] \in [phase : {"authorized", "running", "failed"}, key : Api!Keys, body : Bodies]
BY ApiTypes DEF ApiRow, Api!NoRequest

\* and a reservation.
LEMMA ApiRecords ==
  ASSUME Api!ApiTypeOK, NEW k \in Api!Keys
  PROVE  /\ reservation[k].status \in {"none", "pending", "completed"}
         /\ reservation[k].status # "none" => reservation[k].body \in Bodies
         /\ reservation[k].status = "completed" => reservation[k].response \in Bodies
BY ApiTypes DEF Api!Record, Api!NoRecord

\* No request was made yet.
LEMMA ApiBegins == Api!ApiInit => ApiInv
<1> SUFFICES ASSUME Api!ApiInit PROVE ApiInv
  OBVIOUS
<1>1. 0 \in 0..ApiFaultBound
  BY ApiAssumption
<1>2. Api!ApiTypeOK
  BY <1>1, ApiTypes DEF Api!ApiInit, Api!Record, ApiRow
<1>3. \A k \in Api!Keys : Api!Done(k) = {} /\ reservation[k].status = "none"
  BY DEF Api!ApiInit, Api!Done, Api!NoRecord
<1>4. \A s \in RequestSlots : request[s].phase = "none"
  BY DEF Api!ApiInit, Api!NoRequest
<1> QED
  BY <1>2, <1>3, <1>4 DEF ApiInv, KeysHeld, KeySound, RequestSound, Working, Pending

\* A step of the request in slot s that leaves the other requests and the other
\* keys alone, and keeps the failures counted.
LEMMA SlotMoves ==
  ASSUME ApiInv, NEW s \in RequestSlots, NEW row \in ApiRow, NEW k \in Api!Keys,
         NEW new \in Api!Record,
         \A t \in RequestSlots \ {s} : Working(t) => request[t].key # k,
         row.phase \in {"running", "done", "failed"} => row.key = k /\ new.status = "pending",
         new.status = "pending" =>
           \/ row.phase \in {"running", "done", "failed"}
           \/ ~Working(s) /\ new = reservation[k]
           \/ releaseFailures' # 0,
         Working(s) => request[s].key = k,
         request' = [request EXCEPT ![s] = row],
         reservation' = [reservation EXCEPT ![k] = new],
         effects' \in [Api!Keys -> [Bodies -> Nat]],
         \A l \in Api!Keys \ {k} : effects'[l] = effects[l],
         {storeFailures', releaseFailures'} \subseteq 0..ApiFaultBound,
         storeFailures' >= storeFailures, releaseFailures' >= releaseFailures,
         UNCHANGED <<apiToken, apiCrashes>>,
         Api!Done(k) \subseteq Api!Done(k)',
         KeySound(k)', RequestSound(s)'
  PROVE  ApiInv'
<1>1. Api!ApiTypeOK'
  <2>1. request' \in [RequestSlots -> ApiRow] /\ reservation' \in [Api!Keys -> Api!Record]
    BY ApiTypes DEF ApiInv
  <2>2. {apiCrashes', storeFailures', releaseFailures'} \subseteq 0..ApiFaultBound
    BY ApiTypes DEF ApiInv
  <2> QED
    BY <2>1, <2>2, ApiTypes DEF ApiInv, Api!ApiTypeOK, ApiRow
<1>2. /\ request'[s] = row /\ reservation'[k] = new
      /\ \A t \in RequestSlots \ {s} : request'[t] = request[t]
      /\ \A l \in Api!Keys \ {k} : reservation'[l] = reservation[l]
  BY ApiTypes DEF ApiInv
<1>3. /\ storeFailures' = 0 => storeFailures = 0
      /\ releaseFailures' = 0 => releaseFailures = 0
  BY ApiTypes, ApiAssumption DEF ApiInv
<1>4. \A l \in Api!Keys : Api!Done(l) \subseteq Api!Done(l)'
  BY DEF Api!Done
<1>5. \A l \in Api!Keys \ {k} : Api!Done(l) = Api!Done(l)'
  BY DEF Api!Done
<1>6. KeysHeld'
  <2>1. \A t \in RequestSlots : Working(t) => request[t].key \in Api!Keys
    BY ApiRows DEF ApiInv, Working
  <2>2. \A t \in RequestSlots : Working(t)' => Pending(request[t].key)'
    BY <1>2, <2>1 DEF ApiInv, KeysHeld, Working, Pending
  <2>3. \A t, u \in RequestSlots :
          Working(t)' /\ Working(u)' /\ request'[t].key = request'[u].key => t = u
    BY <1>2, <2>1 DEF ApiInv, KeysHeld, Working
  <2>4. ASSUME apiCrashes = 0, releaseFailures' = 0, NEW l \in Api!Keys, Pending(l)'
        PROVE  \E t \in RequestSlots : Working(t)' /\ request'[t].key = l
    <3>1. CASE l = k
      <4>1. CASE row.phase \in {"running", "done", "failed"}
        BY <1>2, <3>1, <4>1 DEF Working
      <4>2. CASE ~Working(s) /\ new = reservation[k]
        <5>1. PICK t \in RequestSlots : Working(t) /\ request[t].key = l
          BY <1>2, <1>3, <2>4, <3>1, <4>2 DEF ApiInv, KeysHeld, Pending
        <5> QED
          BY <1>2, <4>2, <5>1 DEF Working
      <4> QED
        BY <1>2, <2>4, <3>1, <4>1, <4>2 DEF Pending
    <3>2. CASE l # k
      <4>1. PICK t \in RequestSlots : Working(t) /\ request[t].key = l
        BY <1>2, <1>3, <2>4, <3>2 DEF ApiInv, KeysHeld, Pending
      <4>2. t # s
        BY <3>2, <4>1
      <4> QED
        BY <1>2, <4>1, <4>2 DEF Working
    <3> QED
      BY <3>1, <3>2
  <2> QED
    BY <2>2, <2>3, <2>4 DEF KeysHeld
<1>7. ASSUME NEW l \in Api!Keys PROVE KeySound(l)'
  <2>1. CASE l # k
    BY <1>2, <1>3, <1>5, <2>1 DEF ApiInv, KeySound, Told
  <2> QED
    BY <2>1
<1>8. ASSUME NEW t \in RequestSlots PROVE RequestSound(t)'
  <2>1. CASE t # s
    <3>1. request[t].phase # "none" => request[t].key \in Api!Keys
      BY ApiRows DEF ApiInv
    <3>2. CASE request[t].phase = "none"
      BY <1>2, <2>1, <3>2 DEF RequestSound, Working
    <3>3. ASSUME NEW l \in Api!Keys, request[t].key = l PROVE RequestSound(t)'
      <4>1. request'[t] = request[t] /\ RequestSound(t)
        BY <1>2, <2>1 DEF ApiInv
      <4>2. Working(t) => reservation'[l] = reservation[l] /\ Api!Done(l) = Api!Done(l)'
        BY <1>2, <1>5, <2>1, <3>3
      <4>3. Api!Done(l) \subseteq Api!Done(l)'
        BY <1>4
      <4> QED
        BY <1>3, <3>3, <4>1, <4>2, <4>3 DEF RequestSound, Told, Working
    <3> QED
      BY <3>1, <3>2, <3>3
  <2> QED
    BY <2>1
<1> QED
  BY <1>1, <1>6, <1>7, <1>8 DEF ApiInv

\* A slot without a key is freed, takes a request or gets an answer.
LEMMA SlotAnswered ==
  ASSUME ApiInv, NEW s \in RequestSlots, ~Working(s), NEW row \in ApiRow,
         row.phase \in {"none", "authorized", "answered"},
         row.phase = "answered" => Told(row.key, row.body, row.response),
         request' = [request EXCEPT ![s] = row],
         UNCHANGED <<apiToken, reservation, effects, apiCrashes, storeFailures, releaseFailures>>
  PROVE  ApiInv'
<1>1. request' \in [RequestSlots -> ApiRow]
  BY ApiTypes DEF ApiInv
<1>2. request'[s] = row /\ \A t \in RequestSlots \ {s} : request'[t] = request[t]
  BY ApiTypes DEF ApiInv
<1>3. Api!ApiTypeOK'
  BY <1>1, ApiTypes DEF ApiInv, Api!ApiTypeOK, ApiRow
<1>4. KeysHeld'
  BY <1>2 DEF ApiInv, KeysHeld, Working, Pending
<1>5. \A k \in Api!Keys : KeySound(k)'
  BY DEF ApiInv, KeySound, Told, Api!Done
<1>6. \A t \in RequestSlots : RequestSound(t)'
  BY <1>2 DEF ApiInv, RequestSound, Told, Api!Done, Working
<1> QED
  BY <1>3, <1>4, <1>5, <1>6 DEF ApiInv

\* A slot without a key is freed.
LEMMA SlotFreed ==
  ASSUME ApiInv, NEW s \in RequestSlots, ~Working(s),
         request' = [request EXCEPT ![s] = Api!NoRequest],
         UNCHANGED <<apiToken, reservation, effects, apiCrashes, storeFailures, releaseFailures>>
  PROVE  ApiInv'
<1>1. Api!NoRequest \in ApiRow /\ Api!NoRequest.phase = "none"
  BY DEF ApiRow, Api!NoRequest
<1> QED
  BY <1>1, SlotAnswered

\* Tokens, authorization, and the crash.
LEMMA ApiArrives ==
  ASSUME ApiInv,
         \/ \E t \in ApiTokens : Api!CreateToken(t) \/ Api!RevokeToken(t)
         \/ \E s \in RequestSlots, k \in Api!Keys, body \in Bodies : Api!Authorize(s, k, body)
         \/ \E s \in RequestSlots : Api!AnswerSent(s)
         \/ Api!ApiCrash
  PROVE  ApiInv'
<1>1. CASE \E t \in ApiTokens : Api!CreateToken(t) \/ Api!RevokeToken(t)
  <2>1. apiToken' \in [ApiTokens -> {"none", "read", "control", "revoked"}]
    BY <1>1, ApiTypes DEF Api!CreateToken, Api!RevokeToken, ApiInv
  <2>2. UNCHANGED <<reservation, request, effects, apiCrashes, storeFailures, releaseFailures>>
    BY <1>1 DEF Api!CreateToken, Api!RevokeToken, Api!faultVars
  <2> QED
    BY <2>1, <2>2
    DEF ApiInv, Api!ApiTypeOK, KeysHeld, KeySound, RequestSound, Told, Api!Done, Working, Pending
<1>2. ASSUME NEW s \in RequestSlots, NEW k \in Api!Keys, NEW body \in Bodies,
             Api!Authorize(s, k, body)
      PROVE  ApiInv'
  <2> DEFINE row == [phase |-> "authorized", key |-> k, body |-> body]
  <2>1. /\ request' = [request EXCEPT ![s] = row] /\ row \in ApiRow /\ row.phase = "authorized"
        /\ UNCHANGED <<apiToken, reservation, effects, apiCrashes, storeFailures, releaseFailures>>
    BY <1>2 DEF Api!Authorize, ApiRow, Api!faultVars
  <2> HIDE DEF row
  <2>2. ~Working(s)
    BY <1>2 DEF Api!Authorize, Working, Api!NoRequest
  <2> QED
    BY <2>1, <2>2, SlotAnswered
<1>3. ASSUME NEW s \in RequestSlots, Api!AnswerSent(s) PROVE ApiInv'
  <2>1. /\ request' = [request EXCEPT ![s] = Api!NoRequest]
        /\ UNCHANGED <<apiToken, reservation, effects, apiCrashes, storeFailures, releaseFailures>>
    BY <1>3 DEF Api!AnswerSent, Api!Refuse, Api!faultVars
  <2>2. ~Working(s)
    BY <1>3 DEF Api!AnswerSent, Working
  <2> QED
    BY <2>1, <2>2, SlotFreed
<1>4. CASE Api!ApiCrash
  <2>0. {apiCrashes, storeFailures, releaseFailures} \subseteq Nat
    BY ApiTypes, ApiAssumption DEF ApiInv
  <2>1. /\ apiCrashes' \in 0..ApiFaultBound /\ apiCrashes' # 0
        /\ request' = [s \in RequestSlots |-> Api!NoRequest]
        /\ UNCHANGED <<apiToken, reservation, effects, storeFailures, releaseFailures>>
    BY <1>4, <2>0, ApiTypes, ApiAssumption DEF Api!ApiCrash, Api!Faults, ApiInv
  <2>2. \A s \in RequestSlots : request'[s].phase = "none"
    BY <2>1 DEF Api!NoRequest
  <2>3. request' \in [RequestSlots -> ApiRow]
    BY <2>1 DEF ApiRow
  <2>4. Api!ApiTypeOK'
    BY <2>1, <2>3, ApiTypes DEF ApiInv, Api!ApiTypeOK, ApiRow
  <2>5. \A k \in Api!Keys : KeySound(k)'
    BY <2>1 DEF ApiInv, KeySound, Told, Api!Done
  <2> QED
    BY <2>1, <2>2, <2>4, <2>5 DEF ApiInv, KeysHeld, RequestSound, Working
<1> QED
  BY <1>1, <1>2, <1>3, <1>4

\* A key is reserved, or the request refused or answered from the record.
LEMMA ApiReserves == ASSUME ApiInv, NEW s \in RequestSlots, Api!Begin(s) PROVE ApiInv'
<1> DEFINE r == request[s]
<1>0. PICK k \in Api!Keys, body \in Bodies : k = r.key /\ body = r.body
  BY ApiRows DEF Api!Begin, ApiInv
<1> DEFINE record == reservation[k]
<1>1. /\ r.phase = "authorized" /\ k \in Api!Keys /\ body \in Bodies /\ ~Working(s)
      /\ k = r.key /\ body = r.body
      /\ UNCHANGED <<apiToken, effects, apiCrashes, storeFailures, releaseFailures>>
  BY <1>0 DEF Api!Begin, Working, Api!faultVars
<1>2. CASE record.status = "none"
  <2> DEFINE new == [status |-> "pending", body |-> body]
             row == [r EXCEPT !.phase = "running"]
  <2>1. /\ reservation' = [reservation EXCEPT ![k] = new]
        /\ request' = [request EXCEPT ![s] = row]
    BY <1>1, <1>2, ApiTypes DEF Api!Begin, ApiInv
  <2>2. new \in Api!Record /\ new.status = "pending" /\ new.body = body
    BY <1>1 DEF Api!Record
  <2>3. row \in ApiRow /\ row.phase = "running" /\ row.key = k /\ row.body = body
    BY <1>1, ApiRows DEF ApiRow, ApiInv
  <2> HIDE DEF new, row
  <2>4. reservation'[k] = new /\ request'[s] = row
    BY <1>1, <2>1, ApiTypes DEF ApiInv
  <2>5. \A t \in RequestSlots : Working(t) => request[t].key # k
    BY <1>2 DEF ApiInv, KeysHeld, Pending
  <2>6. Api!Done(k)' = Api!Done(k)
    BY <1>1 DEF Api!Done
  <2>7. KeySound(k)'
    BY <1>1, <1>2, <2>2, <2>4, <2>6 DEF ApiInv, KeySound
  <2>8. storeFailures = 0 => Api!Done(k) = {}
    BY <1>1, <1>2 DEF ApiInv, KeySound
  <2>9. RequestSound(s)'
    BY <1>1, <2>2, <2>3, <2>4, <2>6, <2>8 DEF RequestSound
  <2>10. /\ effects' \in [Api!Keys -> [Bodies -> Nat]]
         /\ {storeFailures', releaseFailures'} \subseteq 0..ApiFaultBound
         /\ storeFailures' >= storeFailures /\ releaseFailures' >= releaseFailures
    BY <1>1, ApiTypes, ApiAssumption DEF ApiInv
  <2> QED
    BY <1>1, <2>1, <2>2, <2>3, <2>5, <2>6, <2>7, <2>9, <2>10, SlotMoves
<1>3. CASE record.status # "none"
  <2>1. CASE record.status = "completed" /\ record.body = body
    <3> DEFINE row == [phase |-> "answered", key |-> k, body |-> body,
                       response |-> record.response]
    <3>1. request' = [request EXCEPT ![s] = row] /\ reservation' = reservation
      BY <1>1, <1>3, <2>1 DEF Api!Begin, Api!Answer
    <3>2. /\ row \in ApiRow /\ row.phase = "answered" /\ row.key = k /\ row.body = body
          /\ row.response = record.response
      BY <1>1, <2>1, ApiRecords DEF ApiRow, ApiInv
    <3> HIDE DEF row
    <3>3. Told(row.key, row.body, row.response)
      BY <1>1, <2>1, <3>2 DEF ApiInv, KeySound
    <3> QED
      BY <1>1, <3>1, <3>2, <3>3, SlotAnswered
  <2>2. CASE ~(record.status = "completed" /\ record.body = body)
    <3>1. /\ request' = [request EXCEPT ![s] = Api!NoRequest]
          /\ reservation' = reservation
      BY <1>1, <1>3, <2>2 DEF Api!Begin, Api!Refuse
    <3> QED
      BY <1>1, <3>1, SlotFreed
  <2> QED
    BY <2>1, <2>2
<1> QED
  BY <1>2, <1>3

\* A request that holds its key goes on: its key is its own, and pending.
LEMMA SlotHolds ==
  ASSUME ApiInv, NEW s \in RequestSlots, Working(s)
  PROVE  /\ request[s].key \in Api!Keys /\ request[s].body \in Bodies
         /\ reservation[request[s].key].status = "pending"
         /\ reservation[request[s].key].body = request[s].body
         /\ reservation[request[s].key] \in Api!Record
         /\ reservation = [reservation EXCEPT ![request[s].key] = reservation[request[s].key]]
         /\ \A t \in RequestSlots \ {s} : Working(t) => request[t].key # request[s].key
<1>1. request[s].key \in Api!Keys /\ request[s].body \in Bodies
  BY ApiRows DEF ApiInv, Working
<1> QED
  BY <1>1, ApiTypes DEF ApiInv, KeysHeld, RequestSound, Pending

\* The failures that are counted stay counted.
LEMMA FailuresStay ==
  ASSUME ApiInv
  PROVE  /\ {storeFailures, releaseFailures} \subseteq 0..ApiFaultBound
         /\ storeFailures >= storeFailures /\ releaseFailures >= releaseFailures
         /\ Api!Faults < ApiFaultBound =>
              storeFailures + 1 \in 0..ApiFaultBound /\ storeFailures + 1 >= storeFailures
         /\ apiCrashes + releaseFailures < ApiFaultBound =>
              releaseFailures + 1 \in 0..ApiFaultBound /\ releaseFailures + 1 >= releaseFailures
         /\ storeFailures + 1 # 0 /\ releaseFailures + 1 # 0
BY ApiTypes, ApiAssumption DEF ApiInv, Api!Faults

\* The work is found or done,
LEMMA ApiRuns == ASSUME ApiInv, NEW s \in RequestSlots, Api!Run(s) PROVE ApiInv'
<1> DEFINE r == request[s]
<1>1. r.phase = "running" /\ Working(s)
  BY DEF Api!Run, Working
<1>3. PICK k \in Api!Keys, body \in Bodies : k = r.key /\ body = r.body
  BY <1>1, SlotHolds
<1>0. PICK found \in SUBSET Bodies, made \in Bodies, times \in Nat :
        /\ found = Api!Found(k, body)
        /\ made = IF found = {} THEN body ELSE CHOOSE b \in found : TRUE
        /\ times = IF found = {} THEN effects[k][made] + 1 ELSE effects[k][made]
  <2> DEFINE f == Api!Found(k, body)
             m == IF f = {} THEN body ELSE CHOOSE b \in f : TRUE
             n == IF f = {} THEN effects[k][m] + 1 ELSE effects[k][m]
  <2>1. f \in SUBSET Bodies
    BY DEF Api!Found, Api!Done
  <2>2. m \in Bodies
    BY <1>3, <2>1
  <2>3. effects[k][m] \in Nat
    BY <1>3, <2>2, ApiTypes DEF ApiInv
  <2>4. n \in Nat
    BY <2>3
  <2> WITNESS f \in SUBSET Bodies, m \in Bodies, n \in Nat
  <2> QED
    OBVIOUS
<1> DEFINE row == [phase |-> "done", key |-> k, body |-> body, response |-> made]
<1>2. /\ UNCHANGED <<apiToken, reservation, apiCrashes, storeFailures, releaseFailures>>
      /\ effects' = [effects EXCEPT ![k][made] = IF found = {} THEN @ + 1 ELSE @]
      /\ request' = [request EXCEPT ![s] = row]
  BY <1>0, <1>3 DEF Api!Run, Api!faultVars
<1>4. /\ made \in Bodies /\ WorkOf[made] = WorkOf[body]
      /\ found = {} => made = body
      /\ found # {} => made \in Api!Done(k) /\ k \in PublishKeys
  BY <1>0, <1>3 DEF Api!Found, Api!Done
<1>5. storeFailures = 0 => Api!Done(k) = {}
  BY <1>1, <1>3 DEF ApiInv, RequestSound
<1>6. storeFailures = 0 => found = {}
  BY <1>0, <1>5 DEF Api!Found
<1>7. row \in ApiRow /\ row.phase = "done" /\ row.key = k /\ row.body = body
      /\ row.response = made
  BY <1>3, <1>4 DEF ApiRow
<1>8. k \in PublishKeys /\ found = {} =>
        \A b \in Api!Done(k) : WorkOf[b] # WorkOf[body]
  BY <1>0 DEF Api!Found
<1>9. effects[k] \in [Bodies -> Nat] /\ effects[k][made] \in Nat
  BY <1>3, <1>4, ApiTypes DEF ApiInv
<1>10. times \in Nat /\ times # 0
  BY <1>0, <1>4, <1>9 DEF Api!Done
<1>11. found = {} /\ body \notin Api!Done(k) => times = 1
  BY <1>0, <1>3, <1>4, <1>9 DEF Api!Done
<1>12. found # {} => times = effects[k][made] /\ times = 1
  BY <1>0, <1>3, <1>4, <1>9 DEF ApiInv, KeySound
<1>13. /\ effects' = [effects EXCEPT ![k] = [effects[k] EXCEPT ![made] = times]]
       /\ effects'[k] = [effects[k] EXCEPT ![made] = times]
  BY <1>0, <1>2, <1>3, <1>4, <1>9, ApiTypes DEF ApiInv
<1> HIDE DEF row
<1>14. /\ effects' \in [Api!Keys -> [Bodies -> Nat]]
       /\ effects'[k][made] = times
       /\ \A b \in Bodies \ {made} : effects'[k][b] = effects[k][b]
       /\ \A l \in Api!Keys \ {k} : effects'[l] = effects[l]
  BY <1>3, <1>4, <1>9, <1>10, <1>13, ApiTypes DEF ApiInv
<1>15. Api!Done(k)' = Api!Done(k) \cup {made}
  BY <1>4, <1>10, <1>14 DEF Api!Done
<1>16. request'[s] = row
  BY <1>2, ApiTypes DEF ApiInv
<1>17. KeySound(k)'
  <2>1. reservation'[k].status = "pending"
    BY <1>1, <1>2, <1>3, SlotHolds
  <2>2. ASSUME k \in PublishKeys, NEW a \in Api!Done(k)', NEW b \in Api!Done(k)'
        PROVE  effects'[k][a] = 1 /\ (WorkOf[a] = WorkOf[b] => a = b)
    <3>1. \A c, d \in Api!Done(k) :
            effects[k][c] = 1 /\ (WorkOf[c] = WorkOf[d] => c = d)
      BY <1>3, <2>2 DEF ApiInv, KeySound
    <3>2. CASE found = {}
      <4>1. body \notin Api!Done(k) /\ made = body /\ times = 1
        BY <1>4, <1>8, <1>11, <2>2, <3>2
      <4>2. effects'[k][a] = 1
        BY <1>14, <1>15, <2>2, <3>1, <4>1 DEF Api!Done
      <4> QED
        BY <1>8, <1>15, <2>2, <3>1, <3>2, <4>1, <4>2
    <3>3. CASE found # {}
      <4>1. made \in Api!Done(k) /\ times = 1
        BY <1>4, <1>12, <3>3
      <4>2. effects'[k][a] = 1
        BY <1>14, <1>15, <2>2, <3>1, <4>1 DEF Api!Done
      <4> QED
        BY <1>15, <2>2, <3>1, <4>1, <4>2
    <3> QED
      BY <3>2, <3>3
  <2>3. storeFailures = 0 =>
          \A a, b \in Api!Done(k)' : effects'[k][a] = 1 /\ a = b
    BY <1>4, <1>5, <1>6, <1>11, <1>14, <1>15
  <2> QED
    BY <1>2, <2>1, <2>2, <2>3 DEF KeySound
<1>18. RequestSound(s)'
  <2>1. Told(k, body, made)'
    BY <1>2, <1>4, <1>6, <1>15 DEF Told
  <2>2. reservation'[k].body = body
    BY <1>1, <1>2, <1>3, SlotHolds
  <2> QED
    BY <1>7, <1>16, <2>1, <2>2 DEF RequestSound, Told
<1>19. /\ {storeFailures', releaseFailures'} \subseteq 0..ApiFaultBound
       /\ storeFailures' >= storeFailures /\ releaseFailures' >= releaseFailures
  BY <1>2, FailuresStay
<1> DEFINE new == reservation[k]
<1>20. /\ new \in Api!Record /\ new.status = "pending"
       /\ reservation' = [reservation EXCEPT ![k] = new]
       /\ \A t \in RequestSlots \ {s} : Working(t) => request[t].key # k
  BY <1>1, <1>2, <1>3, SlotHolds
<1> HIDE DEF new
<1> QED
  BY <1>2, <1>3, <1>7, <1>14, <1>15, <1>17, <1>18, <1>19, <1>20, SlotMoves

\* or fails; the record cannot be completed.
LEMMA ApiFails ==
  ASSUME ApiInv, NEW s \in RequestSlots,
         Api!RunFailed(s) \/ (Api!Complete(s) /\ storeFailures' # storeFailures)
  PROVE  ApiInv'
<1> DEFINE r == request[s]
<1>1. r.phase \in {"running", "done"} /\ Working(s)
  BY DEF Api!RunFailed, Api!Complete, Working
<1>0. PICK k \in Api!Keys, body \in Bodies : k = r.key /\ body = r.body
  BY <1>1, SlotHolds
<1> DEFINE row == [phase |-> "failed", key |-> k, body |-> body]
           new == reservation[k]
<1>2. /\ new \in Api!Record /\ new.status = "pending" /\ new.body = body
      /\ k \in Api!Keys /\ body \in Bodies /\ k = r.key /\ body = r.body
      /\ reservation = [reservation EXCEPT ![k] = new]
      /\ \A t \in RequestSlots \ {s} : Working(t) => request[t].key # k
  BY <1>0, <1>1, SlotHolds
<1>3. /\ request' = [request EXCEPT ![s] = row]
      /\ UNCHANGED <<apiToken, reservation, effects, apiCrashes, releaseFailures>>
      /\ {storeFailures', releaseFailures'} \subseteq 0..ApiFaultBound
      /\ storeFailures' >= storeFailures /\ releaseFailures' >= releaseFailures
      /\ storeFailures' = 0 => storeFailures = 0 /\ r.phase = "running"
  <2>1. CASE Api!RunFailed(s)
    <3>1. r.phase = "running" /\ [r EXCEPT !.phase = "failed"] = row
      BY <1>0, <2>1, ApiRows DEF Api!RunFailed, ApiInv
    <3> QED
      BY <2>1, <3>1, FailuresStay, ApiTypes DEF Api!RunFailed, Api!faultVars, ApiInv
  <2>2. CASE Api!Complete(s) /\ storeFailures' # storeFailures
    BY <1>0, <2>2, FailuresStay DEF Api!Complete
  <2> QED
    BY <2>1, <2>2
<1>4. row \in ApiRow /\ row.phase = "failed" /\ row.key = k /\ row.body = body
  BY <1>2 DEF ApiRow
<1> HIDE DEF row, new
<1>5. request'[s] = row /\ reservation'[k] = new
  BY <1>3, ApiTypes DEF ApiInv, new
<1>6. Api!Done(k)' = Api!Done(k)
  BY <1>3 DEF Api!Done
<1>7. KeySound(k)'
  BY <1>2, <1>3, <1>5, <1>6 DEF ApiInv, KeySound
<1>8. RequestSound(s)'
  BY <1>2, <1>3, <1>4, <1>5, <1>6 DEF ApiInv, RequestSound
<1>9. effects' \in [Api!Keys -> [Bodies -> Nat]]
  BY <1>3, ApiTypes DEF ApiInv
<1>10. reservation' = [reservation EXCEPT ![k] = new]
  BY <1>2, <1>3
<1> QED
  BY <1>1, <1>2, <1>3, <1>4, <1>6, <1>7, <1>8, <1>9, <1>10, SlotMoves

\* The record is completed, or given back, or cannot be.
LEMMA ApiCloses ==
  ASSUME ApiInv, NEW s \in RequestSlots,
         (Api!Complete(s) /\ storeFailures' = storeFailures) \/ Api!Release(s)
  PROVE  ApiInv'
<1> DEFINE r == request[s]
<1>1. r.phase \in {"done", "failed"} /\ Working(s)
  BY DEF Api!Complete, Api!Release, Working
<1>0. PICK k \in Api!Keys, body \in Bodies : k = r.key /\ body = r.body
  BY <1>1, SlotHolds
<1>2. /\ reservation[k] \in Api!Record /\ reservation[k].status = "pending"
      /\ reservation[k].body = body /\ k \in Api!Keys /\ body \in Bodies
      /\ k = r.key /\ body = r.body
      /\ reservation = [reservation EXCEPT ![k] = reservation[k]]
      /\ \A t \in RequestSlots \ {s} : Working(t) => request[t].key # k
  BY <1>0, <1>1, SlotHolds
<1>3. /\ UNCHANGED <<apiToken, effects, apiCrashes, storeFailures>>
      /\ effects' \in [Api!Keys -> [Bodies -> Nat]]
      /\ Api!Done(k)' = Api!Done(k)
  BY ApiTypes DEF Api!Complete, Api!Release, ApiInv, Api!Done
<1>4. CASE Api!Complete(s) /\ storeFailures' = storeFailures
  <2> DEFINE new == [status |-> "completed", body |-> body, response |-> r.response]
             row == [phase |-> "answered", key |-> k, body |-> body,
                     response |-> r.response]
  <2>0. storeFailures # storeFailures + 1
    BY ApiTypes, ApiAssumption DEF ApiInv
  <2>1. /\ reservation' = [reservation EXCEPT ![k] = new]
        /\ request' = [request EXCEPT ![s] = row] /\ r.phase = "done"
        /\ UNCHANGED releaseFailures
    BY <1>2, <1>4, <2>0, ApiTypes DEF Api!Complete, Api!Answer, ApiInv
  <2>2. PICK response \in Bodies : response = r.response /\ Told(k, body, response)
    BY <1>2, <2>1, ApiRows DEF ApiInv, RequestSound
  <2>3. /\ new \in Api!Record /\ new.status = "completed"
        /\ new.body = body /\ new.response = response
    BY <1>2, <2>2 DEF Api!Record
  <2>4. /\ row \in ApiRow /\ row.phase = "answered" /\ row.key = k
        /\ row.body = body /\ row.response = response
    BY <1>2, <2>2 DEF ApiRow
  <2> HIDE DEF new, row
  <2>5. request'[s] = row /\ reservation'[k] = new
    BY <1>2, <2>1, ApiTypes DEF ApiInv
  <2>6. Told(k, body, response)'
    BY <1>3, <2>2 DEF Told
  <2>7. KeySound(k)'
    BY <1>2, <1>3, <2>3, <2>5, <2>6 DEF ApiInv, KeySound, Told
  <2>8. RequestSound(s)'
    BY <2>4, <2>5, <2>6 DEF RequestSound, Working, Told
  <2>9. /\ {storeFailures', releaseFailures'} \subseteq 0..ApiFaultBound
        /\ storeFailures' >= storeFailures /\ releaseFailures' >= releaseFailures
    BY <1>3, <2>1, FailuresStay
  <2> QED
    BY <1>1, <1>2, <1>3, <2>1, <2>3, <2>4, <2>7, <2>8, <2>9, SlotMoves
<1>5. ASSUME Api!Release(s) PROVE ApiInv'
  <2>1. PICK new \in {Api!NoRecord, reservation[k]} :
          /\ reservation' = [reservation EXCEPT ![k] = new]
          /\ {storeFailures', releaseFailures'} \subseteq 0..ApiFaultBound
          /\ storeFailures' >= storeFailures /\ releaseFailures' >= releaseFailures
          /\ new.status = "none" \/ releaseFailures' # 0
          /\ new.status \in {"none", "pending"}
          /\ new \in Api!Record
    <3>1. Api!NoRecord \in Api!Record /\ Api!NoRecord.status = "none"
      BY DEF Api!Record, Api!NoRecord
    <3> QED
      BY <1>2, <1>3, <1>5, <3>1, FailuresStay DEF Api!Release
  <2> DEFINE row == Api!NoRequest
  <2>2. request' = [request EXCEPT ![s] = row] /\ r.phase = "failed"
    BY <1>5 DEF Api!Release, Api!Refuse
  <2>3. row \in ApiRow /\ row.phase = "none"
    BY DEF ApiRow, Api!NoRequest
  <2> HIDE DEF row
  <2>4. request'[s] = row /\ reservation'[k] = new
    BY <1>2, <2>1, <2>2, ApiTypes DEF ApiInv
  <2>5. storeFailures = 0 => Api!Done(k) = {}
    BY <1>2, <2>2 DEF ApiInv, RequestSound
  <2>6. KeySound(k)'
    BY <1>2, <1>3, <2>1, <2>4, <2>5 DEF ApiInv, KeySound
  <2>7. RequestSound(s)'
    BY <2>3, <2>4 DEF RequestSound, Working
  <2> QED
    BY <1>1, <1>2, <1>3, <2>1, <2>2, <2>3, <2>6, <2>7, SlotMoves
<1> QED
  BY <1>4, <1>5

\* Every step of the API.
LEMMA ApiStep ==
  ASSUME ApiInv, [Api!ApiNext]_apiVars
  PROVE  ApiInv'
<1>1. CASE UNCHANGED apiVars
  BY <1>1
  DEF apiVars, ApiInv, Api!ApiTypeOK, KeysHeld, KeySound, RequestSound, Told, Api!Done, Working,
      Pending
<1> QED
  BY <1>1, ApiArrives, ApiReserves, ApiRuns, ApiFails, ApiCloses DEF Api!ApiNext

\* One element, in the cardinality of ApiRequests.
LEMMA OneRequest == \A x : Api!Cardinality({x}) = 1
<1>1. \A S : Api!Cardinality(S) = Cardinality(S)
  BY DEF Cardinality, Api!Cardinality
<1> QED
  BY <1>1, FS_Singleton

\* What the properties say.
LEMMA ApiHolds == ApiInv => Api!DoneOnce /\ Api!AnswerIsOwn /\ Api!PendingIsUnderWay
<1> SUFFICES ASSUME ApiInv PROVE Api!DoneOnce /\ Api!AnswerIsOwn /\ Api!PendingIsUnderWay
  OBVIOUS
<1>0. storeFailures # 0 => storeFailures > 0
  BY ApiTypes, ApiAssumption DEF ApiInv
<1>1. Api!DoneOnce
  BY <1>0 DEF ApiInv, KeySound, Api!DoneOnce, Api!Keys
<1>2. Api!AnswerIsOwn
  BY <1>0 DEF ApiInv, RequestSound, Told, Api!AnswerIsOwn
<1>3. Api!PendingIsUnderWay
  <2> SUFFICES ASSUME apiCrashes = 0, releaseFailures = 0, NEW k \in Api!Keys, Pending(k)
               PROVE  Api!Cardinality({s \in RequestSlots : Working(s) /\ request[s].key = k}) = 1
    BY DEF Api!PendingIsUnderWay, Pending, Working
  <2>1. PICK s \in RequestSlots : Working(s) /\ request[s].key = k
    BY DEF ApiInv, KeysHeld
  <2>2. {t \in RequestSlots : Working(t) /\ request[t].key = k} = {s}
    BY <2>1 DEF ApiInv, KeysHeld
  <2> QED
    BY <2>2, OneRequest
<1> QED
  BY <1>1, <1>2, <1>3

-----------------------------------------------------------------------------
(* The jobs page.                                                          *)

AtMostOne(S, T) == S = {} \/ \E x \in T : S = {x}

PanelTypes ==
  /\ real \in Jobs!Listings /\ AtMostOne(listed, Jobs!Listings)
  /\ listing \in BOOLEAN /\ failed \in BOOLEAN /\ overtaken \in BOOLEAN
  /\ {selected, chosen, cancelling} \subseteq PanelJobs \cup {Jobs!NoJob}
  /\ AtMostOne(shown, PanelJobs \X Jobs!Statuses)
  /\ asked \in [PanelSlots -> SUBSET Jobs!Request]
  /\ \A s \in PanelSlots : AtMostOne(asked[s], Jobs!Request)
  /\ panelClicks \in 0..PanelClicks /\ panelFaults \in 0..PanelFaults

\* A request that is about a job names one, and its answer says how the server
\* had what was asked for.
Sound(r) ==
  /\ r \in Jobs!Request
  /\ r.kind \in Jobs!Details \cup {"cancel", "relist"} \/ r.again => r.job \in PanelJobs
  /\ AtMostOne(r.answer, [Jobs!Answered(r.kind, r.job) -> Jobs!Statuses])

\* The request r is not for the details of a job other than the one chosen.
ForChosen(r) ==
  r.kind \in {"poll", "follow", "detail"} \/ r.again => r.job \in {chosen, Jobs!NoJob}

\* Until a selection overtakes an answer, what is shown and what is asked for
\* is that of the job chosen last.
PanelInv ==
  /\ PanelTypes
  /\ \A r \in Jobs!UnderWay : Sound(r)
  /\ ~overtaken =>
       /\ selected = chosen /\ \A d \in shown : d[1] = chosen
       /\ \A r \in Jobs!UnderWay : ForChosen(r)

\* A request as it is sent.
LEMMA SentSound ==
  ASSUME NEW kind \in Jobs!Lists \cup Jobs!Details \cup {"cancel"},
         NEW j \in PanelJobs \cup {Jobs!NoJob}, NEW again \in BOOLEAN,
         kind \in Jobs!Details \cup {"cancel", "relist"} \/ again => j \in PanelJobs
  PROVE  \E r : /\ Jobs!Sent(kind, j, again) = {r} /\ Sound(r)
               /\ r.kind = kind /\ r.job = j /\ r.again = again
<1> DEFINE r == [kind |-> kind, job |-> j, again |-> again, answer |-> {}]
<1>1. Sound(r)
  BY DEF Sound, Jobs!Request, AtMostOne
<1> QED
  BY <1>1 DEF Jobs!Sent

\* One that is not sent again.
LEMMA SentOnce ==
  ASSUME NEW kind \in Jobs!Lists \cup Jobs!Details \cup {"cancel"},
         NEW j \in PanelJobs \cup {Jobs!NoJob},
         kind \in Jobs!Details \cup {"cancel", "relist"} => j \in PanelJobs
  PROVE  \E r : /\ Jobs!Sent(kind, j, FALSE) = {r} /\ Sound(r)
               /\ r.kind = kind /\ r.job = j /\ ~r.again
<1> DEFINE r == [kind |-> kind, job |-> j, again |-> FALSE, answer |-> {}]
<1>1. Sound(r)
  BY DEF Sound, Jobs!Request, AtMostOne
<1>2. Jobs!Sent(kind, j, FALSE) = {r}
  BY DEF Jobs!Sent
<1>3. r.kind = kind /\ r.job = j /\ r.again = FALSE
  OBVIOUS
<1> HIDE DEF r
<1> QED
  BY <1>1, <1>2, <1>3

\* The page opens.
LEMMA PanelBegins == Jobs!PanelInit => PanelInv
<1> SUFFICES ASSUME Jobs!PanelInit PROVE PanelInv
  OBVIOUS
<1>1. PICK r : /\ Jobs!Sent("list", Jobs!NoJob, FALSE) = {r} /\ Sound(r)
               /\ r.kind = "list" /\ ~r.again
  <2>1. "list" \in Jobs!Lists \cup Jobs!Details \cup {"cancel"}
        /\ Jobs!NoJob \in PanelJobs \cup {Jobs!NoJob}
        /\ "list" \notin Jobs!Details \cup {"cancel", "relist"}
    BY DEF Jobs!Lists, Jobs!Details
  <2> QED
    BY <2>1, SentOnce
<1>2. asked \in [PanelSlots -> SUBSET Jobs!Request] /\ \A s \in PanelSlots : asked[s] \in {{}, {r}}
  BY <1>1 DEF Jobs!PanelInit, Sound
<1>3. \A s \in PanelSlots : AtMostOne(asked[s], Jobs!Request)
  BY <1>1, <1>2 DEF AtMostOne, Sound
<1>4. 0 \in 0..PanelClicks /\ 0 \in 0..PanelFaults
  BY PanelAssumption
<1>5. PanelTypes
  BY <1>2, <1>3, <1>4
  DEF Jobs!PanelInit, PanelTypes, AtMostOne, Jobs!Listings, Jobs!Statuses
<1>6. \A q \in Jobs!UnderWay : q = r
  BY <1>2 DEF Jobs!UnderWay
<1> QED
  BY <1>1, <1>5, <1>6 DEF Jobs!PanelInit, PanelInv, ForChosen

\* A request that is under way.
LEMMA RequestAt ==
  ASSUME PanelInv, NEW s \in PanelSlots, asked[s] # {}
  PROVE  LET r == Jobs!TheRequest(s)
         IN /\ asked[s] = {r} /\ Sound(r) /\ r \in Jobs!UnderWay
            /\ ~overtaken => ForChosen(r)
            /\ r.answer # {} => /\ r.answer = {Jobs!TheAnswer(s)}
                                /\ Jobs!TheAnswer(s) \in [Jobs!Answered(r.kind, r.job) -> Jobs!Statuses]
<1> DEFINE r == Jobs!TheRequest(s)
<1>1. asked[s] = {r}
  BY DEF PanelInv, PanelTypes, AtMostOne, Jobs!TheRequest
<1>2. r \in Jobs!UnderWay
  BY <1>1 DEF Jobs!UnderWay
<1>3. Sound(r) /\ (~overtaken => ForChosen(r))
  BY <1>2 DEF PanelInv
<1>4. Jobs!TheAnswer(s) = CHOOSE l \in r.answer : TRUE
  BY DEF Jobs!TheAnswer
<1> HIDE DEF r
<1>5. r.answer # {} => /\ r.answer = {Jobs!TheAnswer(s)}
                       /\ Jobs!TheAnswer(s) \in [Jobs!Answered(r.kind, r.job) -> Jobs!Statuses]
  BY <1>3, <1>4 DEF Sound, AtMostOne
<1> QED
  BY <1>1, <1>2, <1>3, <1>5 DEF r

\* What is under way once slot s has another request, or none.
LEMMA SlotSent ==
  ASSUME PanelInv, NEW s \in PanelSlots, NEW q,
         q = {} \/ \E r : q = {r} /\ Sound(r),
         Jobs!Sends(s, q)
  PROVE  /\ asked' \in [PanelSlots -> SUBSET Jobs!Request]
         /\ \A t \in PanelSlots : AtMostOne(asked'[t], Jobs!Request)
         /\ \A r \in Jobs!UnderWay' : r \in Jobs!UnderWay \/ r \in q
         /\ \A r \in Jobs!UnderWay' : Sound(r)
<1>1. q \subseteq Jobs!Request /\ AtMostOne(q, Jobs!Request)
  BY DEF Sound, AtMostOne
<1>2. /\ asked \in [PanelSlots -> SUBSET Jobs!Request]
      /\ \A t \in PanelSlots : AtMostOne(asked[t], Jobs!Request)
      /\ asked' = [asked EXCEPT ![s] = q]
  BY DEF PanelInv, PanelTypes, Jobs!Sends
<1>3. \A r \in Jobs!UnderWay' : r \in Jobs!UnderWay \/ r \in q
  BY <1>2 DEF Jobs!UnderWay
<1> QED
  BY <1>1, <1>2, <1>3 DEF PanelInv

\* Only slot s and what is not about the selection change.
LEMMA SelectionKept ==
  ASSUME PanelInv, NEW s \in PanelSlots, NEW q,
         q = {} \/ \E r : q = {r} /\ Sound(r) /\ (~overtaken => ForChosen(r)),
         Jobs!Sends(s, q), UNCHANGED <<selected, shown, chosen, overtaken>>,
         real' \in Jobs!Listings, AtMostOne(listed', Jobs!Listings),
         listing' \in BOOLEAN, failed' \in BOOLEAN,
         cancelling' \in PanelJobs \cup {Jobs!NoJob},
         panelClicks' \in 0..PanelClicks, panelFaults' \in 0..PanelFaults
  PROVE  PanelInv'
<1>1. /\ asked' \in [PanelSlots -> SUBSET Jobs!Request]
      /\ \A t \in PanelSlots : AtMostOne(asked'[t], Jobs!Request)
      /\ \A r \in Jobs!UnderWay' : r \in Jobs!UnderWay \/ r \in q
      /\ \A r \in Jobs!UnderWay' : Sound(r)
  BY SlotSent
<1>2. PanelTypes'
  BY <1>1 DEF PanelInv, PanelTypes
<1> QED
  BY <1>1, <1>2 DEF PanelInv, ForChosen

\* What the server does.
LEMMA ServerAnswers ==
  ASSUME PanelInv,
         \/ \E j \in PanelJobs : Jobs!JobEnds(j)
         \/ \E s \in PanelSlots : Jobs!Answers(s)
  PROVE  PanelInv'
<1>1. ASSUME NEW j \in PanelJobs, Jobs!JobEnds(j) PROVE PanelInv'
  BY <1>1 DEF Jobs!JobEnds, Jobs!panelCounts, PanelInv, PanelTypes, ForChosen, Jobs!UnderWay,
              Jobs!Listings, Jobs!Statuses
<1>2. ASSUME NEW s \in PanelSlots, Jobs!Answers(s) PROVE PanelInv'
  <2>1. PICK r \in asked[s] :
          /\ r.answer = {}
          /\ \/ real' = real
             \/ \E status \in Jobs!Statuses : real' = [real EXCEPT ![r.job] = status]
          /\ Jobs!Sends(s, {[r EXCEPT !.answer = {[j \in Jobs!Answered(r.kind, r.job) |-> real'[j]]}]})
    BY <1>2 DEF Jobs!Answers
  <2> DEFINE l == [j \in Jobs!Answered(r.kind, r.job) |-> real'[j]]
             new == [r EXCEPT !.answer = {l}]
  <2>2. r \in Jobs!UnderWay /\ Sound(r) /\ (~overtaken => ForChosen(r))
    BY <2>1, RequestAt
  <2>3. real' \in Jobs!Listings
    BY <2>1 DEF PanelInv, PanelTypes, Jobs!Listings
  <2>4. Jobs!Answered(r.kind, r.job) \subseteq PanelJobs
    BY <2>2 DEF Sound, Jobs!Answered
  <2>5. l \in [Jobs!Answered(r.kind, r.job) -> Jobs!Statuses]
    BY <2>3, <2>4 DEF Jobs!Listings
  <2> HIDE DEF l
  <2>6. /\ new.kind = r.kind /\ new.job = r.job /\ new.again = r.again /\ new.answer = {l}
        /\ new \in Jobs!Request
    <3>1. {l} \in {{x} : x \in UNION {[js -> Jobs!Statuses] : js \in SUBSET PanelJobs}}
      BY <2>4, <2>5
    <3> QED
      BY <2>2, <3>1 DEF Sound, Jobs!Request
  <2> HIDE DEF new
  <2>7. Sound(new) /\ (~overtaken => ForChosen(new))
    BY <2>2, <2>5, <2>6 DEF Sound, ForChosen, AtMostOne
  <2>8. UNCHANGED <<listed, listing, failed, selected, shown, cancelling, chosen, overtaken,
                    panelClicks, panelFaults>>
    BY <1>2 DEF Jobs!Answers, Jobs!panelCounts
  <2> QED
    BY <2>1, <2>3, <2>7, <2>8, SelectionKept DEF new, l, PanelInv, PanelTypes
<1> QED
  BY <1>1, <1>2

\* The steps that do not change the selection.
LEMMA PageFollows ==
  ASSUME PanelInv, NEW s \in PanelSlots,
         \/ Jobs!Cancelled(s) \/ Jobs!Listed(s) \/ Jobs!Polled(s) \/ Jobs!Fails(s)
         \/ Jobs!PollJobs(s) \/ Jobs!Reload(s) \/ \E j \in PanelJobs : Jobs!CancelJob(s, j)
  PROVE  PanelInv'
<1> DEFINE r == Jobs!TheRequest(s)
<1> USE DEF Jobs!Lists, Jobs!Details, Jobs!panelCounts
<1>1. CASE Jobs!Cancelled(s)
  <2>1. asked[s] # {} /\ r.kind = "cancel"
    BY <1>1, RequestAt DEF Jobs!Cancelled, Jobs!Arrived
  <2>2. Sound(r) /\ (~overtaken => ForChosen(r)) /\ r.job \in PanelJobs /\ r.again \in BOOLEAN
    BY <2>1, RequestAt DEF Sound, Jobs!Request
  <2>3. PICK new : Jobs!Sent("relist", r.job, r.again) = {new} /\ Sound(new)
                   /\ new.kind = "relist" /\ new.job = r.job /\ new.again = r.again
    BY <2>2, SentSound
  <2>4. ~overtaken => ForChosen(new)
    BY <2>1, <2>2, <2>3 DEF ForChosen
  <2> QED
    BY <1>1, <2>3, <2>4, SelectionKept DEF Jobs!Cancelled, PanelInv, PanelTypes
<1>2. CASE Jobs!Listed(s) \/ Jobs!Polled(s)
  <2>1. asked[s] # {} /\ r.kind \in Jobs!Lists /\ r.answer # {}
        /\ (Jobs!Polled(s) => r.kind = "poll")
    BY <1>2, RequestAt DEF Jobs!Listed, Jobs!Polled, Jobs!Arrived
  <2>2. AtMostOne(r.answer, Jobs!Listings) /\ (~overtaken => ForChosen(r))
    BY <2>1, RequestAt DEF AtMostOne, Jobs!Answered, Jobs!Listings
  <2>3. CASE Jobs!Listed(s)
    BY <2>2, <2>3, SelectionKept DEF Jobs!Listed, PanelInv, PanelTypes
  <2>4. CASE Jobs!Polled(s)
    <3>1. CASE r.job \in TransformJobs
      <4>1. PICK new : Jobs!Sent("follow", r.job, FALSE) = {new} /\ Sound(new)
                       /\ new.kind = "follow" /\ new.job = r.job /\ ~new.again
        BY <3>1, PanelAssumption, SentOnce
      <4>2. ~overtaken => ForChosen(new)
        BY <2>1, <2>2, <2>4, <4>1 DEF ForChosen
      <4> QED
        BY <2>2, <2>4, <3>1, <4>1, <4>2, SelectionKept DEF Jobs!Polled, PanelInv, PanelTypes
    <3>2. CASE r.job \notin TransformJobs
      BY <2>2, <2>4, <3>2, SelectionKept DEF Jobs!Polled, PanelInv, PanelTypes
    <3> QED
      BY <3>1, <3>2
  <2> QED
    BY <1>2, <2>3, <2>4
<1>3. CASE Jobs!Fails(s)
  <2>1. panelFaults' \in 0..PanelFaults
    BY <1>3, PanelAssumption DEF Jobs!Fails, PanelInv, PanelTypes
  <2>2. /\ Jobs!Sends(s, {}) /\ failed' \in BOOLEAN /\ listing' \in BOOLEAN
        /\ cancelling' \in {cancelling, Jobs!NoJob}
        /\ UNCHANGED <<real, listed, selected, shown, chosen, overtaken, panelClicks>>
    BY <1>3 DEF Jobs!Fails
  <2> QED
    BY <2>1, <2>2, SelectionKept DEF PanelInv, PanelTypes
<1>4. CASE Jobs!PollJobs(s)
  <2>1. PICK new : Jobs!Sent("poll", selected, FALSE) = {new} /\ Sound(new)
                   /\ new.kind = "poll" /\ new.job = selected /\ ~new.again
    <3>1. selected \in PanelJobs \cup {Jobs!NoJob}
      BY DEF PanelInv, PanelTypes
    <3>2. /\ "poll" \in Jobs!Lists \cup Jobs!Details \cup {"cancel"}
          /\ "poll" \notin Jobs!Details \cup {"cancel", "relist"}
      OBVIOUS
    <3> HIDE DEF Jobs!Lists, Jobs!Details
    <3> QED
      BY <3>1, <3>2, SentOnce
  <2>2. ~overtaken => ForChosen(new)
    BY <2>1 DEF PanelInv, ForChosen
  <2> QED
    BY <1>4, <2>1, <2>2, SelectionKept DEF Jobs!PollJobs, PanelInv, PanelTypes
<1>5. CASE Jobs!Reload(s)
  <2>1. PICK new : Jobs!Sent("list", Jobs!NoJob, FALSE) = {new} /\ Sound(new)
                   /\ new.kind = "list" /\ ~new.again
    BY SentOnce
  <2>2. ForChosen(new)
    BY <2>1 DEF ForChosen
  <2>3. panelClicks' \in 0..PanelClicks
    BY <1>5, PanelAssumption DEF Jobs!Reload, PanelInv, PanelTypes
  <2> QED
    BY <1>5, <2>1, <2>2, <2>3, SelectionKept DEF Jobs!Reload, PanelInv, PanelTypes
<1>6. ASSUME NEW j \in PanelJobs, Jobs!CancelJob(s, j) PROVE PanelInv'
  <2>1. PICK new : Jobs!Sent("cancel", j, selected = j) = {new} /\ Sound(new)
                   /\ new.kind = "cancel" /\ new.job = j /\ new.again = (selected = j)
    <3>1. PICK again \in BOOLEAN : again = (selected = j)
      OBVIOUS
    <3>2. \E new : Jobs!Sent("cancel", j, again) = {new} /\ Sound(new)
                  /\ new.kind = "cancel" /\ new.job = j /\ new.again = again
      BY SentSound
    <3> QED
      BY <3>1, <3>2
  <2>2. ~overtaken => ForChosen(new)
    BY <2>1 DEF PanelInv, ForChosen
  <2>3. panelClicks' \in 0..PanelClicks
    BY <1>6, PanelAssumption DEF Jobs!CancelJob, Jobs!Click, PanelInv, PanelTypes
  <2> QED
    BY <1>6, <2>1, <2>2, <2>3, SelectionKept DEF Jobs!CancelJob, PanelInv, PanelTypes
<1> QED
  BY <1>1, <1>2, <1>3, <1>4, <1>5, <1>6

\* A selection is made, or taken back.
LEMMA SelectionMade ==
  ASSUME PanelInv, NEW s \in PanelSlots, NEW new, Sound(new), ForChosen(new)',
         NEW j \in PanelJobs \cup {Jobs!NoJob},
         asked' = asked \/ Jobs!Sends(s, {new}),
         selected' = j /\ chosen' = j /\ overtaken' = (overtaken \/ Jobs!Due(j)),
         AtMostOne(shown', PanelJobs \X Jobs!Statuses), \A d \in shown' : d[1] = j,
         panelClicks' \in 0..PanelClicks, failed' \in BOOLEAN,
         UNCHANGED <<real, listed, listing, cancelling, panelFaults>>
  PROVE  PanelInv'
<1>1. /\ asked' \in [PanelSlots -> SUBSET Jobs!Request]
      /\ \A t \in PanelSlots : AtMostOne(asked'[t], Jobs!Request)
      /\ \A r \in Jobs!UnderWay' : r \in Jobs!UnderWay \/ r = new
      /\ \A r \in Jobs!UnderWay' : Sound(r)
  <2>1. CASE asked' = asked
    BY <2>1 DEF PanelInv, PanelTypes, Jobs!UnderWay
  <2>2. CASE Jobs!Sends(s, {new})
    BY <2>2, SlotSent
  <2> QED
    BY <2>1, <2>2
<1>2. overtaken' \in BOOLEAN
  BY DEF PanelInv, PanelTypes, Jobs!Due
<1>3. PanelTypes'
  BY <1>1, <1>2 DEF PanelInv, PanelTypes
<1>4. ~overtaken' => \A r \in Jobs!UnderWay' : ForChosen(r)'
  BY <1>1 DEF Jobs!Due, ForChosen
<1> QED
  BY <1>1, <1>3, <1>4 DEF PanelInv

\* The details of a job are opened: showAttempts, up to its request.
LEMMA DetailsOpened ==
  ASSUME PanelInv, NEW s \in PanelSlots, NEW j \in PanelJobs, NEW list,
         AtMostOne(list, Jobs!Listings), NEW again \in BOOLEAN, Jobs!Opened(s, j, list, again)
  PROVE  /\ selected' = j /\ failed' = FALSE
         /\ AtMostOne(shown', PanelJobs \X Jobs!Statuses) /\ \A d \in shown' : d[1] = j
         /\ \E new : /\ Jobs!Sends(s, {new}) /\ Sound(new)
                     /\ new.kind = "detail" /\ new.job = j
<1>1. PICK new : /\ Jobs!Sent("detail", j, again) = {new} /\ Sound(new)
                 /\ new.kind = "detail" /\ new.job = j
  <2>1. "detail" \in Jobs!Lists \cup Jobs!Details \cup {"cancel"} /\ j \in PanelJobs \cup {Jobs!NoJob}
    BY DEF Jobs!Lists, Jobs!Details
  <2> QED
    BY <2>1, SentSound
<1>2. shown' = {<<j, l[j]>> : l \in list}
  BY DEF Jobs!Opened
<1>3. CASE list = {}
  BY <1>1, <1>2, <1>3 DEF Jobs!Opened, AtMostOne
<1>4. ASSUME NEW l \in Jobs!Listings, list = {l} PROVE shown' = {<<j, l[j]>>} /\ l[j] \in Jobs!Statuses
  BY <1>2, <1>4 DEF Jobs!Listings
<1>5. AtMostOne(shown', PanelJobs \X Jobs!Statuses) /\ \A d \in shown' : d[1] = j
  BY <1>2, <1>4 DEF AtMostOne
<1> QED
  BY <1>1, <1>5 DEF Jobs!Opened

\* The steps that change what is selected or shown.
LEMMA PageSelects ==
  ASSUME PanelInv,
         \/ Jobs!CloseDetails
         \/ \E s \in PanelSlots : \/ \E j \in PanelJobs : Jobs!SelectJob(s, j)
                                 \/ Jobs!Relisted(s) \/ Jobs!Detailed(s)
  PROVE  PanelInv'
<1> USE DEF Jobs!panelCounts
<1>1. ASSUME NEW s \in PanelSlots, NEW j \in PanelJobs, Jobs!SelectJob(s, j) PROVE PanelInv'
  <2>1. PICK new : /\ Jobs!Sends(s, {new}) /\ Sound(new)
                   /\ new.kind = "detail" /\ new.job = j
    BY <1>1, DetailsOpened DEF Jobs!SelectJob, PanelInv, PanelTypes
  <2>2. /\ selected' = j /\ failed' = FALSE
        /\ AtMostOne(shown', PanelJobs \X Jobs!Statuses) /\ \A d \in shown' : d[1] = j
    BY <1>1, DetailsOpened DEF Jobs!SelectJob, PanelInv, PanelTypes
  <2>3. /\ chosen' = j /\ overtaken' = (overtaken \/ Jobs!Due(j))
        /\ UNCHANGED <<real, listed, listing, cancelling, panelFaults>>
    BY <1>1 DEF Jobs!SelectJob
  <2>4. panelClicks' \in 0..PanelClicks
    BY <1>1, PanelAssumption DEF Jobs!SelectJob, Jobs!Click, PanelInv, PanelTypes
  <2>5. ForChosen(new)'
    BY <2>1, <2>3 DEF ForChosen
  <2> QED
    BY <2>1, <2>2, <2>3, <2>4, <2>5, SelectionMade
<1>2. CASE Jobs!CloseDetails
  <2>1. /\ selected' = Jobs!NoJob /\ chosen' = Jobs!NoJob /\ shown' = {} /\ asked' = asked
        /\ overtaken' = (overtaken \/ Jobs!Due(Jobs!NoJob))
        /\ UNCHANGED <<real, listed, listing, failed, cancelling, panelFaults>>
    BY <1>2 DEF Jobs!CloseDetails
  <2>2. panelClicks' \in 0..PanelClicks
    BY <1>2, PanelAssumption DEF Jobs!CloseDetails, Jobs!Click, PanelInv, PanelTypes
  <2>3. overtaken' \in BOOLEAN
    BY <2>1 DEF PanelInv, PanelTypes, Jobs!Due
  <2>4. PanelTypes'
    BY <2>1, <2>2, <2>3 DEF PanelInv, PanelTypes, AtMostOne
  <2>5. Jobs!UnderWay' = Jobs!UnderWay
    BY <2>1 DEF Jobs!UnderWay
  <2> QED
    BY <2>1, <2>4, <2>5 DEF PanelInv, Jobs!Due, ForChosen
<1>3. ASSUME NEW s \in PanelSlots, Jobs!Relisted(s) PROVE PanelInv'
  <2> DEFINE r == Jobs!TheRequest(s)
  <2>1. asked[s] # {} /\ r.kind = "relist" /\ r.answer # {}
    BY <1>3, RequestAt DEF Jobs!Relisted, Jobs!Arrived
  <2>2. /\ Sound(r) /\ (~overtaken => ForChosen(r)) /\ r.job \in PanelJobs /\ r.again \in BOOLEAN
        /\ AtMostOne(r.answer, Jobs!Listings)
    BY <2>1, RequestAt
    DEF Sound, Jobs!Request, AtMostOne, Jobs!Answered, Jobs!Listings, Jobs!Lists
  <2>3. /\ listed' = r.answer /\ cancelling' \in {cancelling, Jobs!NoJob}
        /\ UNCHANGED <<real, listing, chosen, overtaken, panelClicks, panelFaults>>
        /\ r.again => Jobs!Opened(s, r.job, r.answer, TRUE)
        /\ ~r.again => Jobs!Sends(s, {}) /\ UNCHANGED <<failed, selected, shown>>
    BY <1>3 DEF Jobs!Relisted
  <2> HIDE DEF r
  <2>4. CASE ~r.again
    BY <2>2, <2>3, <2>4, SelectionKept DEF PanelInv, PanelTypes
  <2>5. CASE r.again
    <3>1. /\ selected' = r.job /\ failed' = FALSE
          /\ AtMostOne(shown', PanelJobs \X Jobs!Statuses) /\ \A d \in shown' : d[1] = r.job
          /\ \E new : /\ Jobs!Sends(s, {new}) /\ Sound(new)
                      /\ new.kind = "detail" /\ new.job = r.job
      BY <2>2, <2>3, <2>5, DetailsOpened
    <3>2. PICK new : /\ Jobs!Sends(s, {new}) /\ Sound(new)
                     /\ new.kind = "detail" /\ new.job = r.job
      BY <3>1
    <3>3. /\ asked' \in [PanelSlots -> SUBSET Jobs!Request]
          /\ \A t \in PanelSlots : AtMostOne(asked'[t], Jobs!Request)
          /\ \A q \in Jobs!UnderWay' : q \in Jobs!UnderWay \/ q = new
          /\ \A q \in Jobs!UnderWay' : Sound(q)
      BY <3>2, SlotSent
    <3>4. ~overtaken => r.job = chosen
      BY <2>2, <2>5, PanelAssumption DEF ForChosen
    <3>5. PanelTypes'
      BY <2>2, <2>3, <3>1, <3>3 DEF PanelInv, PanelTypes
    <3>6. ~overtaken' => selected' = chosen' /\ \A d \in shown' : d[1] = chosen'
      BY <2>3, <3>1, <3>4
    <3>7. ~overtaken' => \A q \in Jobs!UnderWay' : ForChosen(q)'
      BY <2>3, <3>2, <3>3, <3>4 DEF PanelInv, ForChosen
    <3> QED
      BY <3>3, <3>5, <3>6, <3>7 DEF PanelInv
  <2> QED
    BY <2>4, <2>5
<1>4. ASSUME NEW s \in PanelSlots, Jobs!Detailed(s) PROVE PanelInv'
  <2> DEFINE r == Jobs!TheRequest(s)
             l == Jobs!TheAnswer(s)
  <2>1. asked[s] # {} /\ r.kind \in Jobs!Details /\ r.answer # {}
    BY <1>4, RequestAt DEF Jobs!Detailed, Jobs!Arrived
  <2>2. /\ Sound(r) /\ (~overtaken => ForChosen(r)) /\ r.job \in PanelJobs
        /\ l \in [Jobs!Answered(r.kind, r.job) -> Jobs!Statuses]
    BY <2>1, RequestAt DEF Sound
  <2>3. Jobs!Answered(r.kind, r.job) = {r.job}
    BY <2>1 DEF Jobs!Answered, Jobs!Details, Jobs!Lists
  <2>4. /\ shown' = {<<r.job, l[r.job]>>} /\ Jobs!Sends(s, {})
        /\ cancelling' \in {cancelling, Jobs!NoJob}
        /\ UNCHANGED <<real, listed, listing, failed, selected, chosen, overtaken,
                       panelClicks, panelFaults>>
    BY <1>4 DEF Jobs!Detailed
  <2>5. ~overtaken => r.job = chosen
    BY <2>1, <2>2, PanelAssumption DEF ForChosen, Jobs!Details
  <2> HIDE DEF r, l
  <2>6. l[r.job] \in Jobs!Statuses
    BY <2>2, <2>3
  <2>7. AtMostOne(shown', PanelJobs \X Jobs!Statuses) /\ \A d \in shown' : d[1] = r.job
    BY <2>2, <2>4, <2>6 DEF AtMostOne
  <2>8. /\ asked' \in [PanelSlots -> SUBSET Jobs!Request]
        /\ \A t \in PanelSlots : AtMostOne(asked'[t], Jobs!Request)
        /\ \A q \in Jobs!UnderWay' : q \in Jobs!UnderWay /\ Sound(q)
    BY <2>4, SlotSent
  <2>9. PanelTypes'
    BY <2>4, <2>7, <2>8 DEF PanelInv, PanelTypes
  <2> QED
    BY <2>4, <2>5, <2>7, <2>8, <2>9 DEF PanelInv, ForChosen
<1> QED
  BY <1>1, <1>2, <1>3, <1>4

\* Every step of the jobs page.
LEMMA PanelStep == ASSUME PanelInv, [Jobs!PanelNext]_jobsVars PROVE PanelInv'
<1>1. CASE UNCHANGED jobsVars
  BY <1>1 DEF jobsVars, PanelInv, PanelTypes, ForChosen, Jobs!UnderWay
<1>2. CASE Jobs!PanelNext
  BY <1>2, ServerAnswers, PageFollows, PageSelects DEF Jobs!PanelNext, Jobs!Delivers
<1> QED
  BY <1>1, <1>2

\* What the property and the type invariant say.
LEMMA PanelHolds == PanelInv => Jobs!DetailsAreChosen /\ Jobs!PanelTypeOK
<1> SUFFICES ASSUME PanelInv PROVE Jobs!DetailsAreChosen /\ Jobs!PanelTypeOK
  OBVIOUS
<1>1. Jobs!DetailsAreChosen
  BY DEF PanelInv, Jobs!DetailsAreChosen
<1>2. \A S : Jobs!Cardinality(S) = Cardinality(S)
  BY DEF Cardinality, Jobs!Cardinality
<1>3. \A S, T : AtMostOne(S, T) => Jobs!Cardinality(S) <= 1 /\ S \subseteq T
  BY <1>2, FS_EmptySet, FS_Singleton DEF AtMostOne
<1>4. \A s \in PanelSlots : asked[s] = {} \/ \E r \in asked[s] : asked[s] = {r} /\ r \in Jobs!Request
  BY DEF PanelInv, PanelTypes, AtMostOne
<1> QED
  BY <1>1, <1>3, <1>4 DEF PanelInv, PanelTypes, Jobs!PanelTypeOK

-----------------------------------------------------------------------------
(* The media page.                                                         *)

ViewRow == [id : Page!Ids, revision : Nat, cues : Seq(Page!CueRow)]
PageRow == [asset : Assets, loading : BOOLEAN, saving : BOOLEAN, exporting : BOOLEAN,
            error : BOOLEAN, shown : SUBSET ViewRow]
SaveRow == [id : Page!Ids, expected : Nat, cues : Seq(Page!CueRow)]
PostRow == [kind : {"load", "save", "export", "import", "publish"},
            subject : Assets \cup Page!Ids \cup SaveRow \cup {"path"},
            base : SUBSET PageRow, left : SUBSET PageRow,
            status : {"sent", "answered", "refused"}, answer : SUBSET ViewRow, gone : BOOLEAN]
StoredRow == [cues : Seq(Page!CueRow), edited : BOOLEAN, revision : Nat]

Proper(cues) == cues = <<>> \/ Page!ValidCues(cues)
\* What is shown of a transcript is what it was at its revision.
Fair(v) ==
  /\ v \in ViewRow /\ Proper(v.cues)
  /\ v.revision <= stored[v.id].revision
  /\ v.revision = stored[v.id].revision => v.cues = stored[v.id].cues
  /\ v.cues # <<>> => stored[v.id].cues # <<>>
FairOne(S) == AtMostOne(S, ViewRow) /\ \A v \in S : Fair(v)
FairPage(W) == AtMostOne(W, PageRow) /\ \A w \in W : FairOne(w.shown)

TranscriptsStored ==
  /\ stored \in [Page!Ids -> StoredRow] /\ \A id \in Page!Ids : Proper(stored[id].cues)
  /\ recency \in Seq(Page!Ids) /\ \A id \in Page!Ids : \E n \in DOMAIN recency : recency[n] = id

PageTypes ==
  /\ typed \in Seq(Page!DraftRow)
  /\ dirty \in BOOLEAN /\ guarded \in BOOLEAN /\ crossed \in BOOLEAN
  /\ AtMostOne(publishing, Assets) /\ busy \in {"none", "import", "publish"}
  /\ clicks \in 0..ClickBound
  /\ posted \in Seq(PostRow) /\ Len(posted) <= PostBound

\* As long as the transcript shown is not another in the database, the draft
\* is that of its cues, but for those that have lost the times of their words.
DraftFollows ==
  /\ dirty => \E w \in workspace : w.shown # {}
  /\ \A i \in 1..Len(typed) :
       typed[i].words # {} => \E cue \in Page!CueRow : Page!ValidCue(cue) /\ typed[i] = Page!Drafted(cue)
  /\ \A w \in workspace : \A v \in w.shown :
       /\ typed # <<>> => stored[v.id].cues # <<>>
       /\ v.revision = stored[v.id].revision =>
            /\ Len(typed) = Len(stored[v.id].cues)
            /\ \A i \in 1..Len(typed) :
                 typed[i] = Page!Drafted(stored[v.id].cues[i]) \/ typed[i].words = {}

\* What a save asks for, and the page that asks and that is answered.
SaveSound(r) ==
  /\ r.subject \in SaveRow /\ Page!ValidCues(r.subject.cues)
  /\ r.subject.expected <= stored[r.subject.id].revision
  /\ r.status = "sent" /\ r.subject.expected = stored[r.subject.id].revision =>
       /\ Len(r.subject.cues) = Len(stored[r.subject.id].cues)
       /\ \A i \in 1..Len(r.subject.cues) :
            \/ r.subject.cues[i] = stored[r.subject.id].cues[i]
            \/ r.subject.cues[i].words = {}
  /\ \A w \in r.left : \A v \in w.shown : v.id = r.subject.id /\ v.revision = r.subject.expected
  /\ \A v \in r.answer : v.id = r.subject.id /\ v.revision = r.subject.expected + 1
PostSound(r) ==
  /\ FairPage(r.base) /\ FairPage(r.left) /\ FairOne(r.answer)
  /\ r.kind = "load" => r.subject \in Assets
  /\ r.kind = "export" => r.subject \in Page!Ids /\ stored[r.subject].cues # <<>>
  /\ r.kind = "save" => SaveSound(r)

PostsSound == \A n \in 1..Len(posted) : PostSound(posted[n])

\* As long as every answer comes to the page that asked for it.
UncrossedGuarded == ~crossed /\ dirty => guarded
Asks(n) == n \in 1..Len(posted) /\ posted[n].kind = "publish" /\ ~posted[n].gone
UncrossedAlone == ~crossed => \A n, m : Asks(n) => busy = "publish" /\ (Asks(m) => m = n)

PageInv ==
  /\ TranscriptsStored /\ PageTypes /\ FairPage(workspace) /\ DraftFollows
  /\ PostsSound /\ UncrossedGuarded /\ UncrossedAlone

\* What is typed for a time is read as that time.
LEMMA TimeRead ==
  ASSUME NEW ms \in Nat
  PROVE  /\ Page!Timestamp(ms) \in Nat \X Nat \X Nat \X Nat
         /\ Page!Milliseconds(Page!Timestamp(ms)) = {ms}
<1> DEFINE h == ms \div 3600000
           m == (ms % 3600000) \div 60000
           s == (ms % 60000) \div 1000
           r == ms % 1000
<1>1. h \in Nat /\ m \in Nat /\ s \in Nat /\ r \in Nat /\ m < 60 /\ s < 60
  OBVIOUS
<1>2. ms = 3600000 * h + 60000 * m + 1000 * s + r
  OBVIOUS
<1>3. Page!Timestamp(ms) = <<h, m, s, r>>
  BY DEF Page!Timestamp
<1> HIDE DEF h, m, s, r
<1>4. Page!Milliseconds(<<h, m, s, r>>) = {ms}
  BY <1>1, <1>2 DEF Page!Milliseconds
<1> QED
  BY <1>1, <1>3, <1>4

\* What is left of a sequence without one of its elements.
LEMMA Removed ==
  ASSUME NEW S, NEW q \in Seq(S), NEW n \in 1..Len(q)
  PROVE  /\ Page!RemoveAt(q, n) \in Seq(S)
         /\ Len(Page!RemoveAt(q, n)) = Len(q) - 1
         /\ \A m \in 1..(Len(q) - 1) : Page!RemoveAt(q, n)[m] = q[IF m < n THEN m ELSE m + 1]
<1> DEFINE a == SubSeq(q, 1, n - 1)
           b == SubSeq(q, n + 1, Len(q))
<1>1. a \in Seq(S) /\ Len(a) = n - 1 /\ \A i \in 1..(n - 1) : a[i] = q[i]
  <2>1. \A i \in 1..(n - 1) : q[i] \in S
    BY ElementOfSeq
  <2> QED
    BY <2>1, SubSeqProperties
<1>2. b \in Seq(S) /\ Len(b) = Len(q) - n /\ \A i \in 1..(Len(q) - n) : b[i] = q[n + i]
  <2>1. \A i \in (n + 1)..Len(q) : q[i] \in S
    BY ElementOfSeq
  <2>2. /\ b \in Seq(S) /\ Len(b) = IF n + 1 <= Len(q) THEN Len(q) - (n + 1) + 1 ELSE 0
        /\ \A i \in 1..(Len(q) - (n + 1) + 1) : b[i] = q[n + 1 + i - 1]
    BY <2>1, SubSeqProperties
  <2> QED
    BY <2>2
<1>3. Page!RemoveAt(q, n) = a \o b
  BY DEF Page!RemoveAt
<1> HIDE DEF a, b
<1>4. /\ a \o b \in Seq(S) /\ Len(a \o b) = Len(a) + Len(b)
      /\ \A i \in 1..(Len(a) + Len(b)) :
           (a \o b)[i] = IF i <= Len(a) THEN a[i] ELSE b[i - Len(a)]
  BY <1>1, <1>2, ConcatProperties
<1>5. ASSUME NEW m \in 1..(Len(q) - 1)
      PROVE  (a \o b)[m] = q[IF m < n THEN m ELSE m + 1]
  <2>1. CASE m < n
    BY <1>1, <1>2, <1>4, <2>1
  <2>2. CASE ~(m < n)
    <3>1. (a \o b)[m] = b[m - (n - 1)]
      BY <1>1, <1>2, <1>4, <2>2
    <3>2. b[m - (n - 1)] = q[n + (m - (n - 1))]
      BY <1>2, <2>2
    <3> QED
      BY <2>2, <3>1, <3>2
  <2> QED
    BY <2>1, <2>2
<1> QED
  BY <1>1, <1>2, <1>3, <1>4, <1>5

\* The one of a set of one.
LEMMA OnlyOne == \A x : Page!TheOne({x}) = x
BY DEF Page!TheOne

\* A time that can be read is a number.
LEMMA TimeReadable ==
  ASSUME NEW time \in Nat \X Nat \X Nat \X Nat, Page!Milliseconds(time) # {}
  PROVE  Page!TheOne(Page!Milliseconds(time)) \in Nat
         /\ Page!Milliseconds(time) = {Page!TheOne(Page!Milliseconds(time))}
<1> DEFINE ms == 3600000 * time[1] + 60000 * time[2] + 1000 * time[3] + time[4]
           fits == time[2] < 60 /\ time[3] < 60
<1>1. Page!Milliseconds(time) = IF fits THEN {ms} ELSE {}
  BY DEF Page!Milliseconds
<1>2. ms \in Nat
  OBVIOUS
<1> HIDE DEF ms, fits
<1>3. Page!Milliseconds(time) = {ms}
  BY <1>1
<1> QED
  BY <1>2, <1>3, OnlyOne

\* Cues are the same when their fields are.
LEMMA SameCue ==
  ASSUME NEW c \in Page!CueRow, NEW d \in Page!CueRow,
         c.start = d.start, c.end = d.end, c.text = d.text, c.words = d.words
  PROVE  c = d
BY DEF Page!CueRow

\* The draft of a cue has its text and its words.
LEMMA CueDrafted ==
  ASSUME NEW cue \in Page!CueRow
  PROVE  /\ Page!Drafted(cue) \in Page!DraftRow
         /\ Page!Drafted(cue).start = Page!Timestamp(cue.start)
         /\ Page!Drafted(cue).end = Page!Timestamp(cue.end)
         /\ Page!Drafted(cue).text = cue.text /\ Page!Drafted(cue).words = cue.words
<1>1. cue.start \in Nat /\ cue.end \in Nat
  BY DEF Page!CueRow
<1> DEFINE from == Page!Timestamp(cue.start)
           to == Page!Timestamp(cue.end)
<1>2. from \in Nat \X Nat \X Nat \X Nat /\ to \in Nat \X Nat \X Nat \X Nat
  BY <1>1, TimeRead
<1>3. Page!Drafted(cue) = [start |-> from, end |-> to, text |-> cue.text, words |-> cue.words]
  BY DEF Page!Drafted
<1>4. cue.text \in STRING /\ cue.words \in SUBSET (Nat \X Nat)
  BY DEF Page!CueRow
<1> HIDE DEF from, to
<1>5. [start |-> from, end |-> to, text |-> cue.text, words |-> cue.words] \in Page!DraftRow
  BY <1>2, <1>4 DEF Page!DraftRow
<1> QED
  BY <1>3, <1>5 DEF from, to

\* The draft of a transcript is that of its cues.
LEMMA TranscriptDrafted ==
  ASSUME NEW v \in ViewRow
  PROVE  /\ Page!DraftOf({v}) \in Seq(Page!DraftRow) /\ Len(Page!DraftOf({v})) = Len(v.cues)
         /\ \A i \in 1..Len(v.cues) : Page!DraftOf({v})[i] = Page!Drafted(v.cues[i])
<1>1. v.cues \in Seq(Page!CueRow) /\ DOMAIN v.cues = 1..Len(v.cues) /\ Len(v.cues) \in Nat
  BY DEF ViewRow
<1>2. \A i \in 1..Len(v.cues) : v.cues[i] \in Page!CueRow
  BY <1>1, ElementOfSeq
<1>3. Page!DraftOf({v}) = [i \in 1..Len(v.cues) |-> Page!Drafted(v.cues[i])]
  <2>1. Page!TheOne({v}) = v /\ {v} # {}
    BY OnlyOne
  <2>2. Page!DraftOf({v}) = [i \in DOMAIN v.cues |-> Page!Drafted(v.cues[i])]
    BY <2>1 DEF Page!DraftOf
  <2> QED
    BY <1>1, <2>2
<1>4. \A i \in 1..Len(v.cues) : Page!Drafted(v.cues[i]) \in Page!DraftRow
  BY <1>2, CueDrafted
<1> DEFINE draft == [i \in 1..Len(v.cues) |-> Page!Drafted(v.cues[i])]
<1>5. draft \in [1..Len(v.cues) -> Page!DraftRow] /\ \A i \in 1..Len(v.cues) : draft[i] = Page!Drafted(v.cues[i])
  BY <1>4
<1> HIDE DEF draft
<1>6. draft \in Seq(Page!DraftRow) /\ Len(draft) = Len(v.cues)
  BY <1>1, <1>5, LenProperties
<1> QED
  BY <1>3, <1>5, <1>6 DEF draft

\* The cues of a draft without an error can be stored, and are those that it is
\* a draft of.
LEMMA DraftRead ==
  ASSUME NEW draft \in Seq(Page!DraftRow), draft # <<>>, Page!CuesOf(draft) # {},
         \A i \in 1..Len(draft) : draft[i].words # {} =>
           \E cue \in Page!CueRow : Page!ValidCue(cue) /\ draft[i] = Page!Drafted(cue)
  PROVE  LET cues == Page!TheOne(Page!CuesOf(draft))
         IN /\ cues \in Seq(Page!CueRow) /\ Page!ValidCues(cues) /\ Len(cues) = Len(draft)
            /\ \A i \in 1..Len(draft) :
                 /\ cues[i].words = draft[i].words
                 /\ \A cue \in Page!CueRow : draft[i] = Page!Drafted(cue) => cues[i] = cue
<1> DEFINE Starts(i) == Page!Milliseconds(draft[i].start)
           Ends(i) == Page!Milliseconds(draft[i].end)
           Fits(i) == /\ Starts(i) # {} /\ Ends(i) # {} /\ draft[i].text # ""
                      /\ \A s \in Starts(i), e \in Ends(i) : e > s
                      /\ i > 1 => \A s \in Starts(i), before \in Starts(i - 1) : s >= before
           from == [i \in 1..Len(draft) |-> Page!TheOne(Starts(i))]
           to == [i \in 1..Len(draft) |-> Page!TheOne(Ends(i))]
           cues == [i \in 1..Len(draft) |-> [start |-> from[i], end |-> to[i], text |-> draft[i].text,
                                              words |-> draft[i].words]]
<1>1. DOMAIN draft = 1..Len(draft) /\ Len(draft) \in Nat /\ Len(draft) > 0
  BY LenProperties, EmptySeq
<1>2. /\ \A i \in 1..Len(draft) : Fits(i)
      /\ Page!CuesOf(draft) = {cues}
  BY <1>1 DEF Page!CuesOf
<1>3. Page!TheOne(Page!CuesOf(draft)) = cues
  BY <1>2, OnlyOne
<1>4. ASSUME NEW i \in 1..Len(draft)
      PROVE  /\ draft[i] \in Page!DraftRow
             /\ from[i] \in Nat /\ Starts(i) = {from[i]}
             /\ to[i] \in Nat /\ Ends(i) = {to[i]}
  <2>1. draft[i] \in Page!DraftRow
    BY ElementOfSeq
  <2>2. /\ draft[i].start \in Nat \X Nat \X Nat \X Nat
        /\ draft[i].end \in Nat \X Nat \X Nat \X Nat
    BY <2>1 DEF Page!DraftRow
  <2> QED
    BY <1>2, <2>1, <2>2, TimeReadable
<1>5. ASSUME NEW i \in 1..Len(draft)
      PROVE  /\ from[i] < to[i] /\ draft[i].text # ""
             /\ i > 1 => from[i] >= from[i - 1]
  <2>1. from[i] < to[i] /\ draft[i].text # ""
    BY <1>2, <1>4
  <2>2. i > 1 => i - 1 \in 1..Len(draft)
    BY <1>1
  <2>3. i > 1 => Starts(i - 1) = {from[i - 1]}
    BY <2>2, <1>4
  <2> QED
    BY <1>2, <1>4, <2>1, <2>3
<1>6. ASSUME NEW i \in 1..Len(draft)
      PROVE  /\ cues[i] \in Page!CueRow
             /\ cues[i].start = from[i] /\ cues[i].end = to[i]
             /\ cues[i].text = draft[i].text /\ cues[i].words = draft[i].words
  <2> HIDE DEF from, to
  <2>1. cues[i] = [start |-> from[i], end |-> to[i], text |-> draft[i].text, words |-> draft[i].words]
    OBVIOUS
  <2>2. draft[i].text \in STRING /\ draft[i].words \in SUBSET (Nat \X Nat)
    BY <1>4 DEF Page!DraftRow
  <2> HIDE DEF cues
  <2> QED
    BY <1>4, <2>1, <2>2 DEF Page!CueRow
<1>7. ASSUME NEW i \in 1..Len(draft), NEW cue \in Page!CueRow, draft[i] = Page!Drafted(cue)
      PROVE  cues[i] = cue
  <2>1. Starts(i) = {cue.start} /\ Ends(i) = {cue.end}
    BY <1>7, CueDrafted, TimeRead DEF Page!CueRow
  <2>2. from[i] = cue.start /\ to[i] = cue.end
    BY <2>1, OnlyOne
  <2>3. draft[i].text = cue.text /\ draft[i].words = cue.words
    BY <1>7, CueDrafted
  <2> HIDE DEF from, to, cues
  <2> QED
    BY <1>6, <2>2, <2>3, SameCue
<1>8. ASSUME NEW i \in 1..Len(draft)
      PROVE  Page!ValidCue(cues[i]) /\ (i > 1 => cues[i].start >= cues[i - 1].start)
  <2>1. i > 1 => i - 1 \in 1..Len(draft)
    BY <1>1
  <2> HIDE DEF from, to, cues
  <2>2. i > 1 => cues[i].start >= cues[i - 1].start
    BY <2>1, <1>5, <1>6
  <2>3. CASE draft[i].words = {}
    BY <1>5, <1>6, <2>2, <2>3 DEF Page!ValidCue
  <2>4. CASE draft[i].words # {}
    <3>1. PICK cue \in Page!CueRow : Page!ValidCue(cue) /\ draft[i] = Page!Drafted(cue)
      BY <2>4
    <3>2. cues[i] = cue
      BY <3>1, <1>7
    <3> QED
      BY <2>2, <3>1, <3>2
  <2> QED
    BY <2>3, <2>4
<1>9. cues \in Seq(Page!CueRow) /\ Len(cues) = Len(draft) /\ DOMAIN cues = 1..Len(draft)
  <2>1. cues = [i \in 1..Len(draft) |-> cues[i]]
    OBVIOUS
  <2> HIDE DEF cues
  <2>2. \A i \in 1..Len(draft) : cues[i] \in Page!CueRow
    BY <1>6
  <2>3. cues \in [1..Len(draft) -> Page!CueRow]
    BY <2>1, <2>2
  <2> QED
    BY <1>1, <2>3, LenProperties
<1>10. \A i \in 1..Len(draft) : cues[i].words = draft[i].words
  <2> HIDE DEF cues, from, to
  <2> QED
    BY <1>6
<1> HIDE DEF cues, Starts, Ends, Fits, from, to
<1>11. cues # <<>>
  BY <1>1, <1>9
<1> QED
  BY <1>3, <1>7, <1>8, <1>9, <1>10, <1>11 DEF Page!ValidCues

\* What Show compares is of the transcripts that are shown.
LEMMA ShownKeys ==
  ASSUME NEW W
  PROVE  /\ \A w \in W : \A v \in w.shown : <<v.id, v.revision>> \in Page!Key(W)
         /\ \A k \in Page!Key(W) : \E w \in W : \E v \in w.shown : k = <<v.id, v.revision>>
BY DEF Page!Key

\* What is fair stays so as long as nothing is stored.
LEMMA FairKept ==
  ASSUME stored' = stored
  PROVE  /\ \A v : Fair(v)' <=> Fair(v)
         /\ \A S : FairOne(S)' <=> FairOne(S)
         /\ \A W : FairPage(W)' <=> FairPage(W)
         /\ \A r : PostSound(r)' <=> PostSound(r)
BY DEF Fair, FairOne, FairPage, PostSound, SaveSound, AtMostOne

\* A page that shows a transcript takes it into its draft, and keeps the draft
\* when it is the same at the same revision.
LEMMA PageShown ==
  ASSUME PageInv, NEW W, FairPage(W), NEW clean \in BOOLEAN, Page!Show(W, clean), stored' = stored
  PROVE  /\ FairPage(workspace)' /\ DraftFollows'
         /\ workspace' = W
         /\ typed' \in Seq(Page!DraftRow) /\ dirty' \in BOOLEAN /\ guarded' \in BOOLEAN
         /\ dirty' => dirty /\ Page!Key(W) = Page!Key(workspace)
         /\ dirty' /\ ~clean => guarded' = guarded
<1> DEFINE same == workspace # {} /\ W # {} /\ Page!Key(W) = Page!Key(workspace)
           held == UNION {w.shown : w \in W}
<1>1. /\ workspace' = W
      /\ typed' = IF same THEN typed ELSE Page!DraftOf(held)
      /\ dirty' = (same /\ dirty)
      /\ guarded' = (~clean /\ same /\ guarded)
  BY DEF Page!Show
<1>2. /\ typed \in Seq(Page!DraftRow) /\ dirty \in BOOLEAN /\ guarded \in BOOLEAN
      /\ DraftFollows /\ FairPage(workspace)
  BY DEF PageInv, PageTypes
<1>3. FairPage(workspace)'
  BY <1>1, FairKept DEF FairPage, FairOne, Fair, AtMostOne
<1>4. /\ dirty' \in BOOLEAN /\ guarded' \in BOOLEAN
      /\ dirty' => dirty /\ Page!Key(W) = Page!Key(workspace)
      /\ dirty' /\ ~clean => guarded' = guarded
  <2> HIDE DEF held
  <2> QED
    BY <1>1, <1>2
<1>5. CASE same
  <2>1. typed' = typed /\ dirty' = dirty
    BY <1>1, <1>2, <1>5
  <2>2. \A w \in W : \A v \in w.shown :
          \E u \in workspace : \E v0 \in u.shown : v0.id = v.id /\ v0.revision = v.revision
    <3> TAKE w \in W
    <3> TAKE v \in w.shown
    <3>1. <<v.id, v.revision>> \in Page!Key(workspace)
      BY <1>5, ShownKeys
    <3>2. PICK u \in workspace : \E v0 \in u.shown : <<v.id, v.revision>> = <<v0.id, v0.revision>>
      BY <3>1, ShownKeys
    <3> QED
      BY <3>2
  <2>3. dirty => \E w \in W : w.shown # {}
    <3>1. ASSUME dirty PROVE \E w \in W : w.shown # {}
      <4>1. PICK u \in workspace : u.shown # {}
        BY <1>2, <3>1 DEF DraftFollows
      <4>2. PICK v \in u.shown : TRUE
        BY <4>1
      <4>3. <<v.id, v.revision>> \in Page!Key(W)
        BY <1>5, ShownKeys
      <4> QED
        BY <4>3, ShownKeys
    <3> QED
      BY <3>1
  <2>4. DraftFollows'
    <3> HIDE DEF same, held
    <3>1. ASSUME NEW w \in W, NEW v \in w.shown
          PROVE  /\ typed # <<>> => stored[v.id].cues # <<>>
                 /\ v.revision = stored[v.id].revision =>
                      /\ Len(typed) = Len(stored[v.id].cues)
                      /\ \A i \in 1..Len(typed) :
                           typed[i] = Page!Drafted(stored[v.id].cues[i]) \/ typed[i].words = {}
      <4>1. PICK u \in workspace : \E v0 \in u.shown : v0.id = v.id /\ v0.revision = v.revision
        BY <2>2
      <4>2. PICK v0 \in u.shown : v0.id = v.id /\ v0.revision = v.revision
        BY <4>1
      <4> QED
        BY <1>2, <4>2 DEF DraftFollows
    <3> QED
      BY <1>1, <1>2, <2>1, <2>3, <3>1 DEF DraftFollows
  <2> QED
    BY <1>1, <1>2, <1>3, <1>4, <2>1, <2>4
<1>6. CASE ~same
  <2>1. typed' = Page!DraftOf(held) /\ dirty' = FALSE
    BY <1>1, <1>6
  <2>2. CASE held = {}
    <3>1. typed' = <<>>
      BY <2>1, <2>2 DEF Page!DraftOf
    <3>2. \A w \in W : w.shown = {}
      BY <2>2
    <3>3. typed' \in Seq(Page!DraftRow) /\ Len(typed') = 0
      BY <3>1, EmptySeq
    <3>4. DraftFollows'
      <4>1. ~dirty' /\ workspace' = W
        BY <1>1, <2>1
      <4> HIDE DEF same, held
      <4>2. \A i \in 1..Len(typed') : FALSE
        BY <3>3
      <4> QED
        BY <3>2, <4>1, <4>2 DEF DraftFollows
    <3> QED
      BY <1>1, <1>3, <1>4, <3>3, <3>4
  <2>3. CASE held # {}
    <3>1. PICK w \in W : W = {w} /\ w.shown # {}
      BY <2>3 DEF FairPage, AtMostOne
    <3>2. PICK v \in ViewRow : w.shown = {v} /\ Fair(v)
      BY <3>1 DEF FairPage, FairOne, AtMostOne
    <3>3. held = {v}
      BY <3>1, <3>2
    <3>4. /\ typed' \in Seq(Page!DraftRow) /\ Len(typed') = Len(v.cues)
          /\ \A i \in 1..Len(v.cues) : typed'[i] = Page!Drafted(v.cues[i])
      BY <2>1, <3>3, TranscriptDrafted
    <3>5. v.cues \in Seq(Page!CueRow) /\ Proper(v.cues)
      BY <3>2 DEF Fair, ViewRow
    <3>6. typed' # <<>> => v.cues # <<>>
      BY <3>4, <3>5, EmptySeq
    <3>7. ASSUME NEW i \in 1..Len(v.cues), typed'[i].words # {}
          PROVE  \E cue \in Page!CueRow : Page!ValidCue(cue) /\ typed'[i] = Page!Drafted(cue)
      <4>1. v.cues[i] \in Page!CueRow
        BY <3>5, ElementOfSeq
      <4>2. Page!ValidCue(v.cues[i])
        <5>1. v.cues # <<>> /\ i \in DOMAIN v.cues
          BY <3>5, EmptySeq
        <5> QED
          BY <3>5, <5>1 DEF Proper, Page!ValidCues
      <4> QED
        BY <3>4, <4>1, <4>2
    <3>8. /\ stored'[v.id] = stored[v.id]
          /\ typed' # <<>> => stored[v.id].cues # <<>>
          /\ v.revision = stored[v.id].revision => v.cues = stored[v.id].cues
      BY <3>2, <3>6 DEF Fair
    <3>9. DraftFollows'
      <4>1. ~dirty' /\ workspace' = {w}
        BY <1>1, <2>1, <3>1
      <4> HIDE DEF same, held
      <4>2. \A i \in 1..Len(typed') :
              typed'[i].words # {} =>
                \E cue \in Page!CueRow : Page!ValidCue(cue) /\ typed'[i] = Page!Drafted(cue)
        BY <3>4, <3>7
      <4>3. /\ typed' # <<>> => stored'[v.id].cues # <<>>
            /\ v.revision = stored'[v.id].revision =>
                 /\ Len(typed') = Len(stored'[v.id].cues)
                 /\ \A i \in 1..Len(typed') : typed'[i] = Page!Drafted(stored'[v.id].cues[i])
        BY <3>4, <3>8
      <4>4. \A u \in workspace' : \A x \in u.shown : x = v
        BY <3>2, <4>1
      <4> QED
        BY <4>1, <4>2, <4>3, <4>4 DEF DraftFollows
    <3> QED
      BY <1>1, <1>3, <1>4, <3>4, <3>9
  <2> QED
    BY <2>2, <2>3
<1> QED
  BY <1>5, <1>6

\* A request and a page are in the next state what they are there.
LEMMA SoundNext ==
  /\ \A m, r : r = posted'[m] /\ PostSound(r)' => PostSound(posted[m])'
  /\ \A W : W = workspace' /\ FairPage(W)' => FairPage(workspace)'
<1>1. ASSUME NEW m, NEW r, r = posted'[m], PostSound(r)' PROVE PostSound(posted[m])'
  BY <1>1 DEF PostSound, SaveSound, FairPage, FairOne, Fair, AtMostOne
<1>2. ASSUME NEW W, W = workspace', FairPage(W)' PROVE FairPage(workspace)'
  BY <1>2 DEF FairPage, FairOne, Fair, AtMostOne
<1> QED
  BY <1>1, <1>2

\* A request that is made joins those under way.
LEMMA RequestPosted ==
  ASSUME PageInv, NEW kind, NEW subject, NEW base, NEW left,
         Page!Post(kind, subject, base, left),
         kind \in {"load", "save", "export", "import", "publish"},
         subject \in Assets \cup Page!Ids \cup SaveRow \cup {"path"},
         FairPage(base), FairPage(left),
         kind = "load" => subject \in Assets,
         kind = "export" => subject \in Page!Ids /\ stored[subject].cues # <<>>,
         \A row \in PostRow :
           /\ row.kind = "save" /\ kind = "save" /\ row.subject = subject
           /\ row.left = left /\ row.answer = {}
           => SaveSound(row),
         stored' = stored
  PROVE  /\ posted' \in Seq(PostRow) /\ Len(posted') <= PostBound /\ PostsSound'
         /\ \A n : Asks(n)' <=> Asks(n) \/ (n = Len(posted) + 1 /\ kind = "publish")
<1> DEFINE row == [kind |-> kind, subject |-> subject, base |-> base, left |-> left,
                   status |-> "sent", answer |-> {}, gone |-> FALSE]
<1>1. /\ posted \in Seq(PostRow) /\ Len(posted) < PostBound /\ posted' = Append(posted, row)
      /\ PostBound \in Nat
  BY PageAssumption DEF PageInv, PageTypes, Page!Post
<1>2. row \in PostRow
  <2>1. base \in SUBSET PageRow /\ left \in SUBSET PageRow
    BY DEF FairPage, AtMostOne
  <2> QED
    BY <2>1 DEF PostRow
<1>3. /\ row.kind = kind /\ row.subject = subject /\ row.base = base /\ row.left = left
      /\ row.answer = {} /\ ~row.gone
  OBVIOUS
<1> HIDE DEF row
<1>4. PostSound(row)
  <2>1. FairOne({})
    BY DEF FairOne, AtMostOne
  <2>2. row.kind = "save" => SaveSound(row)
    BY <1>2, <1>3
  <2> QED
    BY <1>3, <2>1, <2>2 DEF PostSound
<1>5. /\ posted' \in Seq(PostRow) /\ Len(posted') = Len(posted) + 1
      /\ \A n \in 1..Len(posted) : posted'[n] = posted[n]
      /\ posted'[Len(posted) + 1] = row
  BY <1>1, <1>2, AppendProperties
<1>6. Len(posted) \in Nat
  BY <1>1, LenProperties
<1>7. PostsSound'
  <2>1. ASSUME NEW n \in 1..Len(posted') PROVE PostSound(posted'[n])
    <3>1. CASE n \in 1..Len(posted)
      BY <1>5, <3>1 DEF PageInv, PostsSound
    <3>2. CASE n = Len(posted) + 1
      BY <1>4, <1>5, <3>2
    <3> QED
      BY <1>5, <1>6, <3>1, <3>2
  <2> QED
    BY <2>1 DEF PostsSound, PostSound, SaveSound, FairPage, FairOne, Fair, AtMostOne
<1>8. ASSUME NEW n PROVE Asks(n)' <=> Asks(n) \/ (n = Len(posted) + 1 /\ kind = "publish")
  <2>1. CASE n \in 1..Len(posted)
    BY <1>5, <1>6, <2>1 DEF Asks
  <2>2. CASE n = Len(posted) + 1
    BY <1>3, <1>5, <1>6, <2>2 DEF Asks
  <2>3. CASE n \notin 1..Len(posted) /\ n # Len(posted) + 1
    BY <1>5, <1>6, <2>3 DEF Asks
  <2> QED
    BY <2>1, <2>2, <2>3
<1> QED
  BY <1>1, <1>5, <1>6, <1>7, <1>8

\* A click counts.
LEMMA ClickCounted == PageInv /\ Page!Click => clicks' \in 0..ClickBound
BY PageAssumption DEF PageInv, PageTypes, Page!Click

\* What is as it was remains sound.
LEMMA PageKept ==
  ASSUME PageInv
  PROVE  /\ UNCHANGED <<stored, recency>> => TranscriptsStored'
         /\ UNCHANGED <<stored, posted>> =>
              /\ posted' \in Seq(PostRow) /\ Len(posted') <= PostBound /\ PostsSound'
         /\ UNCHANGED <<stored, workspace>> => FairPage(workspace)'
         /\ UNCHANGED <<stored, workspace, typed, dirty>> => DraftFollows'
<1>1. UNCHANGED <<stored, recency>> => TranscriptsStored'
  BY DEF PageInv, TranscriptsStored
<1>2. UNCHANGED <<stored, posted>> =>
        /\ posted' \in Seq(PostRow) /\ Len(posted') <= PostBound /\ PostsSound'
  BY DEF PageInv, PageTypes, PostsSound, PostSound, SaveSound, FairPage, FairOne, Fair, AtMostOne
<1>3. UNCHANGED <<stored, workspace>> => FairPage(workspace)'
  BY DEF PageInv, FairPage, FairOne, Fair, AtMostOne
<1>4. UNCHANGED <<stored, workspace, typed, dirty>> => DraftFollows'
  BY DEF PageInv, DraftFollows
<1> QED
  BY <1>1, <1>2, <1>3, <1>4

\* A page that is loading shows nothing, and has nothing to warn of.
LEMMA TranscriptLoads ==
  ASSUME PageInv, NEW asset \in Assets, Page!Load(asset), Page!Click,
         publishing' \in {publishing, {}}, UNCHANGED <<stored, recency, busy, crossed>>
  PROVE  PageInv'
<1> DEFINE u == [asset |-> asset, loading |-> TRUE, saving |-> FALSE, exporting |-> FALSE,
                 error |-> FALSE, shown |-> {}]
<1>1. Page!Show({u}, TRUE) /\ Page!Post("load", asset, {u}, {u})
  BY DEF Page!Load
<1>2. u \in PageRow /\ u.shown = {}
  BY DEF PageRow
<1> HIDE DEF u
<1>3. FairPage({u})
  BY <1>2 DEF FairPage, FairOne, AtMostOne
<1>4. /\ FairPage(workspace)' /\ DraftFollows'
      /\ workspace' = {u} /\ typed' \in Seq(Page!DraftRow)
      /\ dirty' \in BOOLEAN /\ guarded' \in BOOLEAN
  BY <1>1, <1>3, PageShown
<1>5. ~dirty'
  BY <1>2, <1>4 DEF DraftFollows
<1>6. /\ posted' \in Seq(PostRow) /\ Len(posted') <= PostBound /\ PostsSound'
      /\ \A n : Asks(n)' <=> Asks(n) \/ (n = Len(posted) + 1 /\ "load" = "publish")
  BY <1>1, <1>3, RequestPosted
<1>7. TranscriptsStored' /\ clicks' \in 0..ClickBound
  BY PageKept, ClickCounted
<1>8. PageTypes'
  BY <1>4, <1>6, <1>7 DEF PageInv, PageTypes, AtMostOne
<1>9. UncrossedGuarded' /\ UncrossedAlone'
  BY <1>5, <1>6 DEF PageInv, UncrossedGuarded, UncrossedAlone
<1> QED
  BY <1>4, <1>6, <1>7, <1>8, <1>9 DEF PageInv

\* loadTranscript, from the list and again after an error.
LEMMA TranscriptBegins ==
  ASSUME PageInv, Page!ReloadTranscript \/ \E asset \in Assets : Page!BeginTranscript(asset)
  PROVE  PageInv'
<1>1. CASE Page!ReloadTranscript
  <2>1. PICK w \in workspace : Page!Load(w.asset)
    BY <1>1 DEF Page!ReloadTranscript
  <2>2. w.asset \in Assets
    BY DEF PageInv, FairPage, AtMostOne, PageRow
  <2> QED
    BY <1>1, <2>1, <2>2, TranscriptLoads DEF Page!ReloadTranscript, Page!storeVars
<1>2. CASE \E asset \in Assets : Page!BeginTranscript(asset)
  BY <1>2, TranscriptLoads DEF Page!BeginTranscript, Page!storeVars
<1> QED
  BY <1>1, <1>2

\* A page that is closed or gives way to a publication shows nothing.
LEMMA TranscriptCloses ==
  ASSUME PageInv, Page!Show({}, TRUE), Page!Click, AtMostOne(publishing, Assets)',
         UNCHANGED <<stored, recency, busy, posted, crossed>>
  PROVE  PageInv'
<1>1. FairPage({})
  BY DEF FairPage, AtMostOne
<1>2. /\ FairPage(workspace)' /\ DraftFollows'
      /\ workspace' = {} /\ typed' \in Seq(Page!DraftRow)
      /\ dirty' \in BOOLEAN /\ guarded' \in BOOLEAN
  BY <1>1, PageShown
<1>3. ~dirty'
  BY <1>2 DEF DraftFollows
<1>4. /\ TranscriptsStored' /\ clicks' \in 0..ClickBound
      /\ posted' \in Seq(PostRow) /\ Len(posted') <= PostBound /\ PostsSound'
  BY PageKept, ClickCounted
<1>5. PageTypes'
  BY <1>2, <1>4 DEF PageInv, PageTypes
<1>6. UncrossedGuarded' /\ UncrossedAlone'
  BY <1>3 DEF PageInv, UncrossedGuarded, UncrossedAlone, Asks
<1> QED
  BY <1>2, <1>4, <1>5, <1>6 DEF PageInv

\* closeTranscript, and beginPublish, which closes the transcript.
LEMMA TranscriptLeft ==
  ASSUME PageInv, Page!CloseTranscript \/ \E asset \in Assets : Page!BeginPublish(asset)
  PROVE  PageInv'
<1>1. CASE Page!CloseTranscript
  BY <1>1, TranscriptCloses DEF Page!CloseTranscript, Page!storeVars, PageInv, PageTypes, AtMostOne
<1>2. CASE \E asset \in Assets : Page!BeginPublish(asset)
  BY <1>2, TranscriptCloses DEF Page!BeginPublish, Page!storeVars, AtMostOne
<1> QED
  BY <1>1, <1>2

\* The page shows the same transcript while it asks for something.
LEMMA TranscriptSent ==
  ASSUME PageInv, Page!Click, NEW w \in workspace, NEW u \in PageRow, u.shown = w.shown,
         NEW kind \in {"save", "export"}, NEW subject \in Page!Ids \cup SaveRow,
         Page!Show({u}, FALSE), Page!Post(kind, subject, workspace, {u}),
         kind = "export" => subject \in Page!Ids /\ stored[subject].cues # <<>>,
         \A row \in PostRow :
           row.kind = "save" /\ kind = "save" /\ row.subject = subject
             /\ row.left = {u} /\ row.answer = {} => SaveSound(row),
         UNCHANGED <<stored, recency, publishing, busy, crossed>>
  PROVE  PageInv'
<1>1. FairPage({u}) /\ FairPage(workspace)
  BY DEF PageInv, FairPage, AtMostOne
<1>2. /\ FairPage(workspace)' /\ DraftFollows' /\ typed' \in Seq(Page!DraftRow)
      /\ dirty' \in BOOLEAN /\ guarded' \in BOOLEAN
      /\ dirty' => dirty /\ guarded' = guarded
  BY <1>1, PageShown
<1>3. /\ posted' \in Seq(PostRow) /\ Len(posted') <= PostBound /\ PostsSound'
      /\ \A n : Asks(n)' <=> Asks(n) \/ (n = Len(posted) + 1 /\ kind = "publish")
  <2>1. /\ kind \in {"load", "save", "export", "import", "publish"} /\ kind # "load"
        /\ subject \in Assets \cup Page!Ids \cup SaveRow \cup {"path"}
    OBVIOUS
  <2>2. \A row \in PostRow :
          /\ row.kind = "save" /\ kind = "save" /\ row.subject = subject
          /\ row.left = {u} /\ row.answer = {}
          => SaveSound(row)
    OBVIOUS
  <2> QED
    BY <1>1, <2>1, <2>2, RequestPosted
<1>4. TranscriptsStored' /\ clicks' \in 0..ClickBound
  BY PageKept, ClickCounted
<1>5. PageTypes'
  BY <1>2, <1>3, <1>4 DEF PageInv, PageTypes, AtMostOne
<1>6. UncrossedGuarded'
  BY <1>2 DEF PageInv, UncrossedGuarded
<1>7. UncrossedAlone'
  BY <1>3 DEF PageInv, UncrossedAlone
<1> QED
  BY <1>2, <1>3, <1>4, <1>5, <1>6, <1>7 DEF PageInv

\* The save of a draft asks for the cues that it holds.
LEMMA TranscriptSaves == ASSUME PageInv, Page!SaveTranscript PROVE PageInv'
<1>1. PICK w \in workspace : \E s \in w.shown :
        LET left == {[w EXCEPT !.saving = TRUE, !.exporting = FALSE, !.error = FALSE]}
        IN /\ Page!Show(left, FALSE)
           /\ Page!Post("save", [id |-> s.id, expected |-> s.revision,
                                 cues |-> Page!TheOne(Page!CuesOf(typed))], workspace, left)
  BY DEF Page!SaveTranscript
<1> DEFINE cues == Page!TheOne(Page!CuesOf(typed))
           u == [w EXCEPT !.saving = TRUE, !.exporting = FALSE, !.error = FALSE]
<1>2. PICK s \in w.shown :
        /\ Page!Show({u}, FALSE)
        /\ Page!Post("save", [id |-> s.id, expected |-> s.revision, cues |-> cues], workspace, {u})
  BY <1>1
<1>3. w \in PageRow /\ FairOne(w.shown)
  BY DEF PageInv, FairPage, AtMostOne
<1>4. u \in PageRow /\ u.shown = w.shown
  BY <1>3 DEF PageRow
<1>5. s \in ViewRow /\ Fair(s) /\ w.shown = {s}
  BY <1>3 DEF FairOne, AtMostOne
<1>6. /\ cues \in Seq(Page!CueRow) /\ Page!ValidCues(cues) /\ Len(cues) = Len(typed)
      /\ \A i \in 1..Len(typed) :
           /\ cues[i].words = typed[i].words
           /\ \A cue \in Page!CueRow : typed[i] = Page!Drafted(cue) => cues[i] = cue
  BY DraftRead DEF Page!SaveTranscript, PageInv, PageTypes, DraftFollows
<1> DEFINE subject == [id |-> s.id, expected |-> s.revision, cues |-> cues]
<1> HIDE DEF cues, u
<1>7. s.id \in Page!Ids /\ s.revision \in Nat
  BY <1>5 DEF ViewRow
<1>8. /\ subject \in SaveRow /\ subject.id = s.id /\ subject.expected = s.revision
      /\ subject.cues = cues
  BY <1>6, <1>7 DEF SaveRow
<1> HIDE DEF subject
<1>9. ASSUME NEW row \in PostRow, row.kind = "save", row.subject = subject, row.left = {u},
             row.answer = {}
      PROVE  SaveSound(row)
  <2>1. subject.expected <= stored[subject.id].revision
    BY <1>5, <1>8 DEF Fair
  <2>2. ASSUME s.revision = stored[s.id].revision
        PROVE  /\ Len(cues) = Len(stored[s.id].cues)
               /\ \A i \in 1..Len(cues) : cues[i] = stored[s.id].cues[i] \/ cues[i].words = {}
    <3>1. /\ Len(typed) = Len(stored[s.id].cues)
          /\ \A i \in 1..Len(typed) :
               typed[i] = Page!Drafted(stored[s.id].cues[i]) \/ typed[i].words = {}
      BY <2>2 DEF PageInv, DraftFollows
    <3>2. stored[s.id].cues \in Seq(Page!CueRow)
      BY <1>7 DEF PageInv, TranscriptsStored, StoredRow
    <3>3. ASSUME NEW i \in 1..Len(cues) PROVE cues[i] = stored[s.id].cues[i] \/ cues[i].words = {}
      <4>1. i \in 1..Len(typed) /\ stored[s.id].cues[i] \in Page!CueRow
        BY <1>6, <3>1, <3>2, ElementOfSeq
      <4> QED
        BY <1>6, <3>1, <4>1
    <3> QED
      BY <1>6, <3>1, <3>3
  <2>3. \A x \in row.left : \A v \in x.shown : v.id = subject.id /\ v.revision = subject.expected
    BY <1>4, <1>5, <1>8, <1>9
  <2> QED
    BY <1>6, <1>8, <1>9, <2>1, <2>2, <2>3 DEF SaveSound
<1>10. /\ Page!Show({u}, FALSE) /\ Page!Post("save", subject, workspace, {u})
  BY <1>2 DEF subject
<1>11. /\ Page!Click /\ UNCHANGED <<stored, recency, publishing, busy, crossed>>
  BY DEF Page!SaveTranscript, Page!storeVars
<1> QED
  BY <1>4, <1>8, <1>9, <1>10, <1>11, TranscriptSent

\* The export of a transcript is that of one which has cues.
LEMMA TranscriptExports == ASSUME PageInv, Page!ExportTranscript PROVE PageInv'
<1>1. PICK w \in workspace : \E s \in w.shown :
        LET left == {[w EXCEPT !.exporting = TRUE, !.error = FALSE]}
        IN ~w.exporting /\ Page!Show(left, FALSE) /\ Page!Post("export", s.id, workspace, left)
  BY DEF Page!ExportTranscript
<1> DEFINE u == [w EXCEPT !.exporting = TRUE, !.error = FALSE]
<1>2. PICK s \in w.shown : Page!Show({u}, FALSE) /\ Page!Post("export", s.id, workspace, {u})
  BY <1>1
<1>3. w \in PageRow /\ FairOne(w.shown)
  BY DEF PageInv, FairPage, AtMostOne
<1>4. u \in PageRow /\ u.shown = w.shown
  BY <1>3 DEF PageRow
<1>5. s.id \in Page!Ids
  BY <1>3 DEF FairOne, Fair, ViewRow
<1>6. stored[s.id].cues # <<>>
  BY DEF Page!ExportTranscript, PageInv, DraftFollows
<1> HIDE DEF u
<1>7. Page!Click /\ UNCHANGED <<stored, recency, publishing, busy, crossed>>
  BY DEF Page!ExportTranscript, Page!storeVars
<1> QED
  BY <1>2, <1>4, <1>5, <1>6, <1>7, TranscriptSent

\* A row of a draft that was typed in is one without the times of its words.
LEMMA RowTyped ==
  ASSUME NEW row \in Page!DraftRow, NEW field, NEW value, NEW next,
         next = [[row EXCEPT ![field] = value] EXCEPT !.words = {}],
         \/ field \in {"start", "end"} /\ value \in TypedTimes
         \/ field = "text" /\ value \in TypedTexts
  PROVE  next \in Page!DraftRow /\ next.words = {}
<1>1. CASE field = "start" /\ value \in TypedTimes
  <2>1. value \in Nat \X Nat \X Nat \X Nat
    BY <1>1, PageAssumption
  <2> QED
    BY <1>1, <2>1 DEF Page!DraftRow
<1>2. CASE field = "end" /\ value \in TypedTimes
  <2>1. value \in Nat \X Nat \X Nat \X Nat
    BY <1>2, PageAssumption
  <2> QED
    BY <1>2, <2>1 DEF Page!DraftRow
<1>3. CASE field = "text" /\ value \in TypedTexts
  <2>1. value \in STRING
    BY <1>3, PageAssumption
  <2> QED
    BY <1>3, <2>1 DEF Page!DraftRow
<1> QED
  BY <1>1, <1>2, <1>3

\* updateCue
LEMMA CueUpdates == ASSUME PageInv, NEW i \in DOMAIN typed, Page!UpdateCue(i) PROVE PageInv'
<1>1. PICK field, value :
        /\ Page!Field(i, field, value)
        /\ \/ field \in {"start", "end"} /\ value \in TypedTimes
           \/ field = "text" /\ value \in TypedTexts
  BY DEF Page!UpdateCue
<1>2. /\ Page!Click /\ UNCHANGED <<stored, recency, workspace, publishing, busy, posted, crossed>>
      /\ typed' = [typed EXCEPT ![i] = [[typed[i] EXCEPT ![field] = value] EXCEPT !.words = {}]]
      /\ dirty' = TRUE /\ guarded' = IF dirty THEN guarded ELSE TRUE
  BY <1>1 DEF Page!Field, Page!storeVars
<1>3. typed \in Seq(Page!DraftRow) /\ i \in 1..Len(typed) /\ typed[i] \in Page!DraftRow
  BY ElementOfSeq DEF PageInv, PageTypes
<1> DEFINE next == [[typed[i] EXCEPT ![field] = value] EXCEPT !.words = {}]
<1>4. next \in Page!DraftRow /\ next.words = {}
  BY <1>1, <1>3, RowTyped
<1>5. typed' = [typed EXCEPT ![i] = next]
  BY <1>2
<1> HIDE DEF next
<1>6. /\ typed' \in Seq(Page!DraftRow) /\ Len(typed') = Len(typed)
      /\ \A n \in 1..Len(typed) : typed'[n] = IF n = i THEN next ELSE typed[n]
  BY <1>3, <1>4, <1>5, ExceptSeq
<1>7. typed' # <<>> => typed # <<>>
  BY <1>3, EmptySeq
<1>8. \E w \in workspace : w.shown # {}
  BY DEF Page!UpdateCue, Page!Typing
<1>9. DraftFollows'
  <2>1. \A n \in 1..Len(typed') :
          typed'[n].words # {} =>
            \E cue \in Page!CueRow : Page!ValidCue(cue) /\ typed'[n] = Page!Drafted(cue)
    BY <1>4, <1>6 DEF PageInv, DraftFollows
  <2>2. ASSUME NEW w \in workspace, NEW v \in w.shown
        PROVE  /\ typed' # <<>> => stored[v.id].cues # <<>>
               /\ v.revision = stored[v.id].revision =>
                    /\ Len(typed') = Len(stored[v.id].cues)
                    /\ \A n \in 1..Len(typed') :
                         typed'[n] = Page!Drafted(stored[v.id].cues[n]) \/ typed'[n].words = {}
    BY <1>4, <1>6, <1>7 DEF PageInv, DraftFollows
  <2> QED
    <3>1. workspace' = workspace /\ stored' = stored
      BY <1>2
    <3> QED
      BY <1>8, <2>1, <2>2, <3>1 DEF DraftFollows
<1>10. /\ TranscriptsStored' /\ clicks' \in 0..ClickBound /\ FairPage(workspace)'
       /\ posted' \in Seq(PostRow) /\ Len(posted') <= PostBound /\ PostsSound'
  BY <1>2, PageKept, ClickCounted
<1>11. PageTypes'
  BY <1>2, <1>6, <1>10 DEF PageInv, PageTypes
<1>12. UncrossedGuarded' /\ UncrossedAlone'
  BY <1>2 DEF PageInv, PageTypes, UncrossedGuarded, UncrossedAlone, Asks
<1> QED
  BY <1>9, <1>10, <1>11, <1>12 DEF PageInv

\* queueYouTubePublish, queueTikTokPublish and the import of a file.
LEMMA PublishQueues == ASSUME PageInv, Page!QueuePublish \/ Page!ImportMedia PROVE PageInv'
<1>1. FairPage({})
  BY DEF FairPage, AtMostOne
<1>2. /\ Page!Click
      /\ UNCHANGED <<stored, recency, workspace, typed, dirty, guarded, publishing>>
  BY DEF Page!QueuePublish, Page!ImportMedia, Page!storeVars
<1>3. /\ TranscriptsStored' /\ clicks' \in 0..ClickBound /\ FairPage(workspace)' /\ DraftFollows'
  BY <1>2, PageKept, ClickCounted
<1>4. CASE Page!QueuePublish
  <2>1. PICK asset \in publishing : Page!Post("publish", asset, {}, {})
    BY <1>4 DEF Page!QueuePublish
  <2>2. asset \in Assets
    BY DEF PageInv, PageTypes, AtMostOne
  <2>3. busy' = "publish" /\ busy # "publish" /\ crossed' = crossed
    BY <1>4 DEF Page!QueuePublish, Page!Publishing
  <2>4. /\ posted' \in Seq(PostRow) /\ Len(posted') <= PostBound /\ PostsSound'
        /\ \A n : Asks(n)' <=> Asks(n) \/ (n = Len(posted) + 1 /\ "publish" = "publish")
    BY <1>1, <1>2, <2>1, <2>2, RequestPosted
  <2>5. PageTypes'
    BY <1>2, <1>3, <2>3, <2>4 DEF PageInv, PageTypes, AtMostOne
  <2>6. UncrossedGuarded'
    BY <1>2, <2>3 DEF PageInv, UncrossedGuarded
  <2>7. UncrossedAlone'
    BY <2>3, <2>4 DEF PageInv, UncrossedAlone
  <2> QED
    BY <1>3, <2>4, <2>5, <2>6, <2>7 DEF PageInv
<1>5. CASE Page!ImportMedia
  <2>1. /\ Page!Post("import", "path", {}, {}) /\ busy' = "import"
        /\ crossed' = (crossed \/ busy = "publish")
    BY <1>5 DEF Page!ImportMedia, Page!Publishing
  <2>2. /\ posted' \in Seq(PostRow) /\ Len(posted') <= PostBound /\ PostsSound'
        /\ \A n : Asks(n)' <=> Asks(n) \/ (n = Len(posted) + 1 /\ "import" = "publish")
    BY <1>1, <1>2, <2>1, RequestPosted
  <2>3. crossed \in BOOLEAN /\ crossed' \in BOOLEAN
    BY <2>1 DEF PageInv, PageTypes
  <2>4. PageTypes'
    BY <1>2, <1>3, <2>1, <2>2, <2>3 DEF PageInv, PageTypes, AtMostOne
  <2>5. ~crossed' => ~crossed /\ busy # "publish"
    BY <2>1, <2>3
  <2>6. UncrossedGuarded'
    BY <1>2, <2>5 DEF PageInv, UncrossedGuarded
  <2>7. UncrossedAlone'
    BY <2>2, <2>5 DEF PageInv, UncrossedAlone
  <2> QED
    BY <1>3, <2>2, <2>4, <2>6, <2>7 DEF PageInv
<1> QED
  BY <1>4, <1>5

\* The form of a publication is closed, or a link to the page followed.
LEMMA PageStays == ASSUME PageInv, Page!CancelPublish \/ Page!FollowLinkHere PROVE PageInv'
<1>1. /\ Page!Click /\ UNCHANGED <<stored, recency, workspace, typed, dirty, busy, posted>>
      /\ AtMostOne(publishing, Assets)' /\ guarded' \in BOOLEAN /\ crossed' \in BOOLEAN
      /\ ~crossed' => guarded' = guarded /\ ~crossed
  BY DEF Page!CancelPublish, Page!FollowLinkHere, Page!storeVars, PageInv, PageTypes, AtMostOne
<1>2. /\ TranscriptsStored' /\ clicks' \in 0..ClickBound /\ FairPage(workspace)' /\ DraftFollows'
      /\ posted' \in Seq(PostRow) /\ Len(posted') <= PostBound /\ PostsSound'
  BY <1>1, PageKept, ClickCounted
<1>3. PageTypes'
  BY <1>1, <1>2 DEF PageInv, PageTypes
<1>4. UncrossedGuarded' /\ UncrossedAlone'
  BY <1>1 DEF PageInv, UncrossedGuarded, UncrossedAlone, Asks
<1> QED
  BY <1>2, <1>3, <1>4 DEF PageInv

\* A request of a page that is gone.
LEMMA RequestGone ==
  ASSUME NEW r \in PostRow, NEW q, q = [r EXCEPT !.gone = TRUE]
  PROVE  /\ q \in PostRow /\ q.gone
         /\ q.kind = r.kind /\ q.subject = r.subject /\ q.base = r.base /\ q.left = r.left
         /\ q.status = r.status /\ q.answer = r.answer
         /\ PostSound(r) => PostSound(q)
<1>1. /\ q \in PostRow /\ q.gone
      /\ q.kind = r.kind /\ q.subject = r.subject /\ q.base = r.base /\ q.left = r.left
      /\ q.status = r.status /\ q.answer = r.answer
  BY DEF PostRow
<1>2. SaveSound(r) => SaveSound(q)
  BY <1>1 DEF SaveSound
<1> QED
  BY <1>1, <1>2 DEF PostSound

\* A page that is left has no one to answer.
LEMMA PageLeaves == ASSUME PageInv, Page!LeavePage PROVE PageInv'
<1>1. /\ Page!Click /\ UNCHANGED <<stored, recency>>
      /\ workspace' = {} /\ typed' = <<>> /\ dirty' = FALSE /\ guarded' = FALSE
      /\ publishing' = {} /\ busy' = "none" /\ crossed' = FALSE
      /\ posted' = [n \in DOMAIN posted |-> [posted[n] EXCEPT !.gone = TRUE]]
  BY DEF Page!LeavePage, Page!Fresh, Page!storeVars
<1>2. posted \in Seq(PostRow) /\ Len(posted) \in Nat /\ DOMAIN posted = 1..Len(posted)
  BY LenProperties DEF PageInv, PageTypes
<1>3. ASSUME NEW n \in 1..Len(posted)
      PROVE  /\ posted'[n] \in PostRow /\ posted'[n].gone
             /\ posted'[n].kind = posted[n].kind /\ posted'[n].subject = posted[n].subject
             /\ PostSound(posted'[n])
  <2>1. posted[n] \in PostRow /\ posted'[n] = [posted[n] EXCEPT !.gone = TRUE]
    BY <1>1, <1>2, ElementOfSeq
  <2>2. PostSound(posted[n])
    BY DEF PageInv, PostsSound
  <2> QED
    BY <2>1, <2>2, RequestGone
<1>4. DOMAIN posted' = 1..Len(posted) /\ posted' \in Seq(PostRow) /\ Len(posted') = Len(posted)
  <2>1. posted' \in [1..Len(posted) -> PostRow]
    BY <1>1, <1>2, <1>3
  <2> QED
    BY <1>2, <2>1, LenProperties
<1>5. PostsSound'
  <2>1. \A n \in 1..Len(posted') : PostSound(posted'[n])
    BY <1>3, <1>4
  <2>2. stored' = stored
    BY <1>1
  <2> QED
    BY <2>1, <2>2 DEF PostsSound, PostSound, SaveSound, FairPage, FairOne, Fair, AtMostOne
<1>6. TranscriptsStored' /\ clicks' \in 0..ClickBound
  BY <1>1, PageKept, ClickCounted
<1>7. FairPage(workspace)' /\ DraftFollows'
  <2>1. typed' \in Seq(Page!DraftRow) /\ Len(typed') = 0
    BY <1>1, EmptySeq
  <2>2. \A i \in 1..Len(typed') : FALSE
    BY <2>1
  <2> QED
    BY <1>1, <2>2 DEF FairPage, DraftFollows, AtMostOne
<1>8. PageTypes'
  BY <1>1, <1>4, <1>6, EmptySeq DEF PageInv, PageTypes, AtMostOne
<1>9. UncrossedGuarded' /\ UncrossedAlone'
  BY <1>1, <1>3, <1>4 DEF UncrossedGuarded, UncrossedAlone, Asks
<1> QED
  BY <1>5, <1>6, <1>7, <1>8, <1>9 DEF PageInv

\* What was fair, sound or followed stays so when a transcript is stored.
LEMMA CuesStored ==
  ASSUME PageInv, NEW id \in Page!Ids, NEW cues \in Seq(Page!CueRow), Page!ValidCues(cues),
         NEW edited \in BOOLEAN, Page!Store(id, cues, edited)
  PROVE  /\ TranscriptsStored'
         /\ stored'[id].cues = cues /\ stored'[id].revision = stored[id].revision + 1
         /\ \A other \in Page!Ids : other # id => stored'[other] = stored[other]
<1>1. /\ stored \in [Page!Ids -> StoredRow] /\ \A x \in Page!Ids : Proper(stored[x].cues)
      /\ recency \in Seq(Page!Ids) /\ \A x \in Page!Ids : \E n \in DOMAIN recency : recency[n] = x
  BY DEF PageInv, TranscriptsStored
<1>2. stored[id] \in StoredRow /\ stored[id].revision \in Nat
  BY <1>1 DEF StoredRow
<1> DEFINE row == [cues |-> cues, edited |-> edited, revision |-> stored[id].revision + 1]
           at == CHOOSE n \in DOMAIN recency : recency[n] = id
<1>3. stored' = [stored EXCEPT ![id] = row]
  BY DEF Page!Store
<1>4. row \in StoredRow /\ row.cues = cues /\ row.revision = stored[id].revision + 1
  BY <1>2 DEF StoredRow
<1>5. recency' = [n \in DOMAIN recency |->
                    IF n = 1 THEN id ELSE IF n <= at THEN recency[n - 1] ELSE recency[n]]
  BY DEF Page!Store
<1>6. at \in DOMAIN recency /\ recency[at] = id
  BY <1>1
<1> HIDE DEF row, at
<1>7. DOMAIN recency = 1..Len(recency) /\ Len(recency) \in Nat
  BY <1>1, LenProperties
<1>8. recency' \in Seq(Page!Ids) /\ DOMAIN recency' = 1..Len(recency)
  <2>1. ASSUME NEW n \in 1..Len(recency) PROVE recency'[n] \in Page!Ids
    <3>1. recency'[n] = IF n = 1 THEN id ELSE IF n <= at THEN recency[n - 1] ELSE recency[n]
      BY <1>5, <1>7
    <3>2. recency[n] \in Page!Ids /\ (n # 1 => recency[n - 1] \in Page!Ids)
      BY <1>1, <1>7, ElementOfSeq
    <3> QED
      BY <3>1, <3>2
  <2>2. recency' \in [1..Len(recency) -> Page!Ids]
    BY <1>5, <1>7, <2>1
  <2> QED
    BY <1>7, <2>2, LenProperties
<1>9. ASSUME NEW x \in Page!Ids PROVE \E n \in DOMAIN recency' : recency'[n] = x
  <2>1. PICK n \in 1..Len(recency) : recency[n] = x
    BY <1>1, <1>7
  <2>2. at \in 1..Len(recency)
    BY <1>6, <1>7
  <2>3. CASE n < at
    <3>1. n + 1 \in 1..Len(recency) /\ n + 1 # 1 /\ n + 1 <= at /\ (n + 1) - 1 = n
      BY <1>7, <2>2, <2>3
    <3>2. recency'[n + 1] = recency[(n + 1) - 1]
      BY <1>5, <1>7, <3>1
    <3> QED
      BY <1>8, <2>1, <3>1, <3>2
  <2>4. CASE n = at
    <3>1. 1 \in 1..Len(recency) /\ recency'[1] = id
      BY <1>5, <1>7, <2>2
    <3> QED
      BY <1>6, <1>8, <2>1, <2>4, <3>1
  <2>5. CASE n > at
    <3>1. recency'[n] = recency[n]
      BY <1>5, <1>7, <2>2, <2>5
    <3> QED
      BY <1>8, <2>1, <3>1
  <2> QED
    BY <1>7, <2>2, <2>3, <2>4, <2>5
<1>10. /\ stored' \in [Page!Ids -> StoredRow] /\ stored'[id] = row
       /\ \A other \in Page!Ids : other # id => stored'[other] = stored[other]
  BY <1>1, <1>3, <1>4
<1>11. \A x \in Page!Ids : Proper(stored'[x].cues)
  <2>1. Proper(cues)
    BY DEF Proper
  <2> QED
    BY <1>1, <1>4, <1>10, <2>1
<1>12. TranscriptsStored'
  BY <1>8, <1>9, <1>10, <1>11 DEF TranscriptsStored, Proper
<1> QED
  BY <1>4, <1>10, <1>12

\* What was fair and sound before a transcript is stored is so after it.
LEMMA StaysFair ==
  ASSUME PageInv, NEW id \in Page!Ids, NEW cues, Page!ValidCues(cues),
         stored'[id].cues = cues, stored'[id].revision = stored[id].revision + 1,
         \A other \in Page!Ids : other # id => stored'[other] = stored[other]
  PROVE  /\ \A v : Fair(v) => Fair(v)'
         /\ \A S : FairOne(S) => FairOne(S)'
         /\ \A W : FairPage(W) => FairPage(W)'
         /\ \A r : PostSound(r) => PostSound(r)'
         /\ UNCHANGED <<workspace, typed, dirty>> => DraftFollows'
<1>1. \A x \in Page!Ids : stored[x].revision \in Nat
  BY DEF PageInv, TranscriptsStored, StoredRow
<1>2. cues # <<>>
  BY DEF Page!ValidCues
<1>3. ASSUME NEW v, Fair(v) PROVE Fair(v)'
  <2>1. v.id \in Page!Ids /\ v.revision \in Nat
    BY <1>3 DEF Fair, ViewRow
  <2>2. CASE v.id = id
    <3>1. v.revision <= stored[id].revision
      BY <1>3, <2>2 DEF Fair
    <3>2. v.revision < stored'[id].revision
      BY <1>1, <2>1, <3>1
    <3> QED
      BY <1>1, <1>2, <1>3, <2>1, <2>2, <3>2 DEF Fair, Proper
  <2>3. CASE v.id # id
    BY <1>3, <2>1, <2>3 DEF Fair, Proper
  <2> QED
    BY <2>2, <2>3
<1>4. \A S : FairOne(S) => FairOne(S)'
  BY <1>3 DEF FairOne, AtMostOne
<1>5. \A W : FairPage(W) => FairPage(W)'
  BY <1>4 DEF FairPage, AtMostOne
<1>6. ASSUME NEW r, r.kind = "save" => SaveSound(r), r.kind = "save"
      PROVE  SaveSound(r)'
  <2> DEFINE s == r.subject
  <2>1. s \in SaveRow /\ s.id \in Page!Ids /\ s.expected \in Nat
    BY <1>6 DEF SaveSound, SaveRow
  <2>2. CASE s.id = id
    <3>1. s.expected <= stored[id].revision
      BY <1>6, <2>2 DEF SaveSound
    <3>2. s.expected < stored'[id].revision
      BY <1>1, <2>1, <3>1
    <3>3. s.expected <= stored'[s.id].revision /\ s.expected # stored'[s.id].revision
      BY <1>1, <2>1, <2>2, <3>2
    <3> QED
      BY <1>6, <2>2, <3>3 DEF SaveSound
  <2>3. CASE s.id # id
    <3>1. stored'[s.id] = stored[s.id]
      BY <2>1, <2>3
    <3> QED
      BY <1>6, <3>1 DEF SaveSound
  <2> QED
    BY <2>2, <2>3
<1>7. ASSUME NEW r, PostSound(r) PROVE PostSound(r)'
  <2>1. FairPage(r.base)' /\ FairPage(r.left)' /\ FairOne(r.answer)'
    BY <1>4, <1>5, <1>7 DEF PostSound
  <2>2. r.kind = "export" => stored'[r.subject].cues # <<>>
    BY <1>2, <1>7 DEF PostSound
  <2>3. r.kind = "save" => SaveSound(r)'
    BY <1>6, <1>7 DEF PostSound
  <2> QED
    BY <1>7, <2>1, <2>2, <2>3 DEF PostSound
<1>8. ASSUME UNCHANGED <<workspace, typed, dirty>> PROVE DraftFollows'
  <2>1. ASSUME NEW w \in workspace, NEW v \in w.shown
        PROVE  /\ typed # <<>> => stored'[v.id].cues # <<>>
               /\ v.revision = stored'[v.id].revision =>
                    /\ Len(typed) = Len(stored'[v.id].cues)
                    /\ \A i \in 1..Len(typed) :
                         typed[i] = Page!Drafted(stored'[v.id].cues[i]) \/ typed[i].words = {}
    <3>1. Fair(v) /\ v.id \in Page!Ids /\ v.revision \in Nat
      BY DEF PageInv, FairPage, FairOne, Fair, ViewRow
    <3>2. CASE v.id = id
      <4>1. v.revision <= stored[id].revision
        BY <3>1, <3>2 DEF Fair
      <4>2. v.revision # stored'[v.id].revision
        BY <1>1, <3>1, <3>2, <4>1
      <4> QED
        BY <1>2, <3>2, <4>2
    <3>3. CASE v.id # id
      <4>1. stored'[v.id] = stored[v.id]
        BY <3>1, <3>3
      <4> QED
        BY <4>1 DEF PageInv, DraftFollows
    <3> QED
      BY <3>2, <3>3
  <2> QED
    BY <1>8, <2>1 DEF PageInv, DraftFollows
<1> QED
  BY <1>3, <1>4, <1>5, <1>7, <1>8

\* The page as it was, after a transcript was stored.
LEMMA PageUnaware ==
  ASSUME PageInv, NEW id \in Page!Ids, NEW cues \in Seq(Page!CueRow), Page!ValidCues(cues),
         NEW edited \in BOOLEAN, Page!Store(id, cues, edited), Page!Click,
         UNCHANGED <<workspace, typed, dirty, guarded, publishing, busy, posted, crossed>>
  PROVE  PageInv'
<1>1. /\ TranscriptsStored'
      /\ stored'[id].cues = cues /\ stored'[id].revision = stored[id].revision + 1
      /\ \A other \in Page!Ids : other # id => stored'[other] = stored[other]
  BY CuesStored
<1>2. /\ \A W : FairPage(W) => FairPage(W)'
      /\ \A r : PostSound(r) => PostSound(r)'
      /\ DraftFollows'
  BY <1>1, StaysFair
<1>3. FairPage(workspace)'
  <2>1. FairPage(workspace) /\ workspace' = workspace
    BY DEF PageInv
  <2> QED
    BY <1>2, <2>1 DEF FairPage, FairOne, Fair, AtMostOne
<1>4. PostsSound'
  <2>1. posted' = posted /\ \A n \in 1..Len(posted) : PostSound(posted[n])
    BY DEF PageInv, PostsSound
  <2>2. ASSUME NEW n \in 1..Len(posted) PROVE PostSound(posted[n])'
    <3>1. PICK r : r = posted[n] /\ r = posted'[n]
      BY <2>1
    <3>2. PostSound(r)'
      BY <1>2, <2>1, <3>1
    <3> QED
      BY <3>1, <3>2, SoundNext
  <2> QED
    BY <2>1, <2>2 DEF PostsSound
<1>5. PageTypes'
  BY ClickCounted DEF PageInv, PageTypes
<1>6. UncrossedGuarded' /\ UncrossedAlone'
  BY DEF PageInv, UncrossedGuarded, UncrossedAlone, Asks
<1> QED
  BY <1>1, <1>2, <1>3, <1>4, <1>5, <1>6 DEF PageInv

\* Valid cues have a first one.
LEMMA FirstCue ==
  ASSUME NEW cues \in Seq(Page!CueRow), Page!ValidCues(cues)
  PROVE  /\ DOMAIN cues = 1..Len(cues) /\ Len(cues) \in Nat /\ 1 \in 1..Len(cues)
         /\ cues[1] \in Page!CueRow /\ Page!ValidCue(cues[1])
<1>1. DOMAIN cues = 1..Len(cues) /\ Len(cues) \in Nat /\ 1 \in 1..Len(cues)
  BY EmptySeq, LenProperties DEF Page!ValidCues
<1> QED
  BY <1>1, ElementOfSeq DEF Page!ValidCues

\* A cue with another text.
LEMMA CueReworded ==
  ASSUME NEW cue \in Page!CueRow, Page!ValidCue(cue), NEW text \in STRING, text # "", NEW next,
         next = [cue EXCEPT !.text = text, !.words = {}]
  PROVE  next \in Page!CueRow /\ Page!ValidCue(next) /\ next.start = cue.start
<1>1. /\ next \in Page!CueRow /\ next.text = text /\ next.words = {}
      /\ next.start = cue.start /\ next.end = cue.end
  BY DEF Page!CueRow
<1> QED
  BY <1>1 DEF Page!ValidCue

\* Cues with another text in the first of them are valid as they were.
LEMMA OtherCues ==
  ASSUME NEW cues \in Seq(Page!CueRow), Page!ValidCues(cues), NEW first \in Page!CueRow,
         Page!ValidCue(first), first.start = cues[1].start
  PROVE  [cues EXCEPT ![1] = first] \in Seq(Page!CueRow)
         /\ Page!ValidCues([cues EXCEPT ![1] = first])
<1> DEFINE others == [cues EXCEPT ![1] = first]
<1>1. DOMAIN cues = 1..Len(cues) /\ Len(cues) \in Nat /\ 1 \in 1..Len(cues)
  BY FirstCue
<1>2. /\ others \in Seq(Page!CueRow) /\ Len(others) = Len(cues)
      /\ \A i \in 1..Len(cues) : others[i] = IF i = 1 THEN first ELSE cues[i]
  BY <1>1, ExceptSeq
<1>3. DOMAIN others = 1..Len(cues)
  BY <1>1
<1> HIDE DEF others
<1>4. ASSUME NEW i \in 1..Len(cues)
      PROVE  Page!ValidCue(others[i]) /\ (i > 1 => others[i].start >= others[i - 1].start)
  <2>1. Page!ValidCue(cues[i]) /\ (i > 1 => cues[i].start >= cues[i - 1].start)
    BY <1>1 DEF Page!ValidCues
  <2>2. Page!ValidCue(others[i])
    BY <1>2, <2>1
  <2>3. \A n \in 1..Len(cues) : others[n].start = cues[n].start
    BY <1>2
  <2>4. i > 1 => i - 1 \in 1..Len(cues)
    BY <1>1
  <2> QED
    BY <2>1, <2>2, <2>3, <2>4
<1>5. others # <<>>
  BY <1>1, <1>3
<1>6. others \in Seq(Page!CueRow) /\ Page!ValidCues(others)
  BY <1>2, <1>3, <1>4, <1>5 DEF Page!ValidCues
<1> QED
  BY <1>6 DEF others

\* replaceGeneratedCues, and the save of another page.
LEMMA TranscriptChanges ==
  ASSUME PageInv, NEW id \in Page!Ids, Page!Generate(id) \/ Page!OtherSaves(id)
  PROVE  PageInv'
<1>1. UNCHANGED <<workspace, typed, dirty, guarded, publishing, busy, posted, crossed>> /\ Page!Click
  BY DEF Page!Generate, Page!OtherSaves, Page!pageVars
<1>2. CASE Page!Generate(id)
  <2>1. Page!Store(id, Inferred, FALSE)
    BY <1>2 DEF Page!Generate
  <2> QED
    BY <1>1, <2>1, PageUnaware, PageAssumption
<1>3. CASE Page!OtherSaves(id)
  <2>1. PICK text \in TypedTexts \ {""} :
          Page!Store(id, [stored[id].cues EXCEPT ![1] =
                            [stored[id].cues[1] EXCEPT !.text = text, !.words = {}]], TRUE)
    BY <1>3 DEF Page!OtherSaves
  <2> DEFINE cues == stored[id].cues
             first == [cues[1] EXCEPT !.text = text, !.words = {}]
             others == [cues EXCEPT ![1] = first]
  <2>2. cues \in Seq(Page!CueRow) /\ Page!ValidCues(cues)
    BY <1>3 DEF Page!OtherSaves, PageInv, TranscriptsStored, StoredRow, Proper
  <2>3. Page!Store(id, others, TRUE)
    BY <2>1
  <2>4. text \in STRING /\ text # ""
    BY PageAssumption
  <2> HIDE DEF cues
  <2>5. cues[1] \in Page!CueRow /\ Page!ValidCue(cues[1])
    BY <2>2, FirstCue
  <2>6. first \in Page!CueRow /\ Page!ValidCue(first) /\ first.start = cues[1].start
    BY <2>4, <2>5, CueReworded
  <2> HIDE DEF first
  <2>7. others \in Seq(Page!CueRow) /\ Page!ValidCues(others)
    BY <2>2, <2>6, OtherCues
  <2> HIDE DEF others
  <2> QED
    BY <1>1, <2>3, <2>7, PageUnaware
<1> QED
  BY <1>2, <1>3

\* q is the request r with a status and an answer.
Became(q, r, status, answer) ==
  /\ q \in PostRow /\ q.status = status /\ q.answer = answer
  /\ q.kind = r.kind /\ q.subject = r.subject /\ q.base = r.base /\ q.left = r.left
  /\ q.gone = r.gone

\* What the page shows of a list is in the database.
LEMMA ListedFair ==
  ASSUME PageInv, NEW asset \in Assets
  PROVE  FairOne(Page!Listed(asset)) /\ Page!Listed(asset) \in SUBSET ViewRow
<1> DEFINE First == {m \in DOMAIN recency :
                       Page!Of(m, asset) /\ \A earlier \in 1..(m - 1) : ~Page!Of(earlier, asset)}
<1>1. Page!Listed(asset) = {Page!View(recency[n]) : n \in First}
  BY DEF Page!Listed
<1>2. /\ recency \in Seq(Page!Ids) /\ DOMAIN recency = 1..Len(recency) /\ Len(recency) \in Nat
  BY LenProperties DEF PageInv, TranscriptsStored
<1>3. \A n, m \in First : n = m
  <2> SUFFICES ASSUME NEW n \in First, NEW m \in First, n < m PROVE FALSE
    BY <1>2
  <2>1. n \in 1..(m - 1)
    BY <1>2
  <2> QED
    BY <2>1
<1>4. ASSUME NEW n \in First PROVE Page!View(recency[n]) \in ViewRow /\ Fair(Page!View(recency[n]))
  <2>1. recency[n] \in Page!Ids
    BY <1>2, ElementOfSeq
  <2>2. PICK id \in Page!Ids : id = recency[n]
    BY <2>1
  <2>3. stored[id] \in StoredRow /\ Proper(stored[id].cues)
    BY DEF PageInv, TranscriptsStored
  <2>4. /\ Page!View(id) \in ViewRow /\ Page!View(id).id = id
        /\ Page!View(id).revision = stored[id].revision /\ Page!View(id).cues = stored[id].cues
    BY <2>3 DEF Page!View, ViewRow, StoredRow
  <2>5. stored[id].revision \in Nat
    BY <2>3 DEF StoredRow
  <2>6. Fair(Page!View(id))
    BY <2>3, <2>4, <2>5 DEF Fair
  <2> QED
    BY <2>2, <2>4, <2>6
<1> HIDE DEF First
<1>5. CASE First = {}
  BY <1>1, <1>5 DEF FairOne, AtMostOne
<1>6. CASE First # {}
  <2>1. PICK n \in First : First = {n}
    BY <1>3, <1>6
  <2>2. Page!Listed(asset) = {Page!View(recency[n])}
    BY <1>1, <2>1
  <2> QED
    BY <1>4, <2>1, <2>2 DEF FairOne, AtMostOne
<1> QED
  BY <1>5, <1>6

\* One of the requests goes on and nothing else of the page.
LEMMA RequestGoesOn ==
  ASSUME PageInv, NEW n \in 1..Len(posted), NEW q \in PostRow, posted' = [posted EXCEPT ![n] = q],
         q.kind = posted[n].kind, q.gone = posted[n].gone, PostSound(q)',
         \A r : PostSound(r) => PostSound(r)', \A W : FairPage(W) => FairPage(W)',
         DraftFollows', TranscriptsStored', clicks' \in 0..ClickBound,
         UNCHANGED <<workspace, typed, dirty, guarded, publishing, busy, crossed>>
  PROVE  PageInv'
<1>1. posted \in Seq(PostRow) /\ Len(posted) \in Nat
  BY LenProperties DEF PageInv, PageTypes
<1>2. /\ posted' \in Seq(PostRow) /\ Len(posted') = Len(posted)
      /\ \A m \in 1..Len(posted) : posted'[m] = IF m = n THEN q ELSE posted[m]
  BY <1>1, ExceptSeq
<1>3. PostsSound'
  <2>1. ASSUME NEW m \in 1..Len(posted) PROVE PostSound(posted[m])'
    <3>1. PICK r : r = posted'[m]
      OBVIOUS
    <3>2. PostSound(r)'
      <4>1. CASE m = n
        <5>1. r = q
          BY <1>2, <3>1, <4>1
        <5> QED
          BY <5>1
      <4>2. CASE m # n
        <5>1. PostSound(r)
          BY <1>2, <3>1, <4>2 DEF PageInv, PostsSound
        <5> QED
          BY <5>1
      <4> QED
        BY <4>1, <4>2
    <3> QED
      BY <3>1, <3>2, SoundNext
  <2> QED
    BY <1>2, <2>1 DEF PostsSound
<1>4. FairPage(workspace)'
  <2>1. PICK W : W = workspace /\ W = workspace'
    OBVIOUS
  <2>2. FairPage(W)'
    BY <2>1 DEF PageInv
  <2> QED
    BY <2>1, <2>2, SoundNext
<1>5. PageTypes'
  BY <1>2 DEF PageInv, PageTypes
<1>6. \A m : Asks(m)' <=> Asks(m)
  BY <1>2 DEF Asks
<1>7. UncrossedGuarded' /\ UncrossedAlone'
  BY <1>6 DEF PageInv, UncrossedGuarded, UncrossedAlone
<1> QED
  BY <1>3, <1>4, <1>5, <1>7 DEF PageInv

\* A request that is answered otherwise than by what it stores, or is lost.
LEMMA PostAnswered ==
  ASSUME PageInv, NEW r \in PostRow, PostSound(r), NEW status \in {"answered", "refused"},
         NEW answer, FairOne(answer), r.kind # "load" => answer = {},
         NEW q, Became(q, r, status, answer)
  PROVE  PostSound(q)
<1>1. ASSUME q.kind = "save" PROVE SaveSound(q)
  <2>1. SaveSound(r) /\ answer = {}
    BY <1>1 DEF PostSound, Became
  <2>2. q.status # "sent" /\ q.answer = {} /\ q.subject = r.subject /\ q.left = r.left
    BY <2>1 DEF Became
  <2> QED
    BY <2>1, <2>2 DEF SaveSound
<1> QED
  BY <1>1 DEF PostSound, Became

\* A request is served that stores nothing, or lost.
LEMMA RequestServed ==
  ASSUME PageInv, NEW n \in 1..Len(posted), NEW status \in {"answered", "refused"}, NEW answer,
         answer = {} \/ (posted[n].kind = "load" /\ answer = Page!Listed(posted[n].subject)),
         posted' = [posted EXCEPT ![n] = [posted[n] EXCEPT !.status = status, !.answer = answer]],
         clicks' \in 0..ClickBound,
         UNCHANGED <<stored, recency, workspace, typed, dirty, guarded, publishing, busy, crossed>>
  PROVE  PageInv'
<1>1. PICK r : r = posted[n]
  OBVIOUS
<1>2. r \in PostRow /\ PostSound(r)
  BY <1>1, ElementOfSeq DEF PageInv, PageTypes, PostsSound
<1>3. PICK a : a = answer
  OBVIOUS
<1>4. a \in SUBSET ViewRow /\ FairOne(a) /\ (r.kind # "load" => a = {})
  <2>1. CASE answer = {}
    BY <1>3, <2>1 DEF FairOne, AtMostOne
  <2>2. CASE answer # {}
    <3>1. r.kind = "load" /\ a = Page!Listed(r.subject)
      BY <1>1, <1>3, <2>2
    <3> QED
      BY <1>2, <3>1, ListedFair DEF PostSound
  <2> QED
    BY <2>1, <2>2
<1> DEFINE q == [r EXCEPT !.status = status, !.answer = a]
<1>5. Became(q, r, status, a)
  BY <1>2, <1>4 DEF PostRow, Became
<1>6. posted' = [posted EXCEPT ![n] = q]
  BY <1>1, <1>3
<1> HIDE DEF q
<1>7. q \in PostRow /\ PostSound(q) /\ q.kind = r.kind /\ q.gone = r.gone
  BY <1>2, <1>4, <1>5, PostAnswered DEF Became
<1>8. (\A x : PostSound(x) => PostSound(x)') /\ (\A W : FairPage(W) => FairPage(W)')
  BY FairKept
<1>9. DraftFollows' /\ TranscriptsStored'
  BY PageKept
<1> QED
  BY <1>1, <1>6, <1>7, <1>8, <1>9, RequestGoesOn

\* A save that is served is stored and answered with what it stores.
LEMMA SaveServed ==
  ASSUME PageInv, NEW n \in 1..Len(posted), NEW r, r = posted[n], r.kind = "save",
         r.status = "sent", Page!ValidCues(r.subject.cues),
         stored[r.subject.id].revision = r.subject.expected,
         Page!Store(r.subject.id, r.subject.cues, TRUE),
         NEW q, q = [r EXCEPT !.status = "answered",
                              !.answer = {[id |-> r.subject.id, cues |-> r.subject.cues,
                                           revision |-> r.subject.expected + 1]}],
         posted' = [posted EXCEPT ![n] = q],
         UNCHANGED <<workspace, typed, dirty, guarded, publishing, busy, crossed, clicks>>
  PROVE  PageInv'
<1> DEFINE s == r.subject
           v == [id |-> s.id, cues |-> s.cues, revision |-> s.expected + 1]
<1>1. r \in PostRow /\ PostSound(r)
  BY ElementOfSeq DEF PageInv, PageTypes, PostsSound
<1>2. s \in SaveRow /\ s.id \in Page!Ids /\ s.expected \in Nat /\ s.cues \in Seq(Page!CueRow)
  BY <1>1 DEF PostSound, SaveSound, SaveRow
<1>3. /\ TranscriptsStored'
      /\ stored'[s.id].cues = s.cues /\ stored'[s.id].revision = stored[s.id].revision + 1
      /\ \A other \in Page!Ids : other # s.id => stored'[other] = stored[other]
  BY <1>2, CuesStored
<1>4. /\ \A x : PostSound(x) => PostSound(x)'
      /\ \A W : FairPage(W) => FairPage(W)'
      /\ DraftFollows'
  BY <1>2, <1>3, StaysFair
<1>5. /\ v \in ViewRow /\ v.id = s.id /\ v.cues = s.cues
      /\ v.revision = s.expected + 1 /\ v.revision \in Nat
  BY <1>2 DEF ViewRow
<1> HIDE DEF v
<1>6. Fair(v)'
  <2>1. Proper(v.cues) /\ v.cues # <<>>
    BY <1>5 DEF Proper, Page!ValidCues
  <2>2. v.revision = stored'[v.id].revision /\ v.cues = stored'[v.id].cues
    BY <1>3, <1>5
  <2>3. v.revision <= stored'[v.id].revision
    <3>1. \A i \in Nat : \A j : i = j => i <= j
      OBVIOUS
    <3> QED
      BY <1>5, <2>2, <3>1, Zenon
  <2>4. Proper(v.cues)'
    BY <2>1 DEF Proper
  <2> QED
    BY <1>5, <2>1, <2>2, <2>3, <2>4 DEF Fair
<1>7. FairOne({v})'
  BY <1>5, <1>6 DEF FairOne, AtMostOne
<1>8. Became(q, r, "answered", {v})
  <2>1. q = [r EXCEPT !.status = "answered", !.answer = {v}]
    BY DEF v
  <2>2. {v} \in SUBSET ViewRow
    BY <1>5
  <2> QED
    BY <1>1, <2>1, <2>2 DEF Became, PostRow
<1>9. PostSound(r)'
  BY <1>1, <1>4
<1>10. q.status # "sent" /\ q.answer = {v} /\ q.subject = s /\ q.left = r.left
       /\ q.base = r.base /\ q.kind = "save" /\ q \in PostRow /\ q.gone = r.gone
  BY <1>8 DEF Became
<1>11. SaveSound(q)'
  <2>1. SaveSound(r)'
    BY <1>9 DEF PostSound
  <2>2. \A x \in q.answer : x.id = s.id /\ x.revision = s.expected + 1
    BY <1>5, <1>10
  <2>3. s \in SaveRow /\ Page!ValidCues(s.cues)'
    BY <1>2, <2>1 DEF SaveSound
  <2>4. s.expected <= stored'[s.id].revision
    BY <1>2, <1>3, <1>5
  <2>5. \A w \in r.left : \A x \in w.shown : x.id = s.id /\ x.revision = s.expected
    BY <2>1 DEF SaveSound
  <2> HIDE DEF s
  <2> QED
    BY <1>10, <2>2, <2>3, <2>4, <2>5 DEF SaveSound
<1>12. PostSound(q)'
  <2>1. FairPage(q.base)' /\ FairPage(q.left)' /\ FairOne(q.answer)'
    BY <1>7, <1>9, <1>10 DEF PostSound
  <2> QED
    BY <1>10, <1>11, <2>1 DEF PostSound
<1>13. clicks' \in 0..ClickBound
  BY DEF PageInv, PageTypes
<1>14. q.kind = posted[n].kind /\ q.gone = posted[n].gone
  BY <1>10
<1> HIDE DEF s
<1> QED
  BY <1>3, <1>4, <1>10, <1>12, <1>13, <1>14, RequestGoesOn

\* The server serves a request, or it is lost.
LEMMA RequestSettles ==
  ASSUME PageInv, NEW n \in DOMAIN posted, Page!Serve(n) \/ Page!Lose(n)
  PROVE  PageInv'
<1>1. n \in 1..Len(posted) /\ posted[n] \in PostRow /\ PostSound(posted[n])
  BY ElementOfSeq, LenProperties DEF PageInv, PageTypes, PostsSound
<1>2. CASE Page!Lose(n)
  <2>1. /\ Page!Click
        /\ posted' = [posted EXCEPT ![n] = [posted[n] EXCEPT !.status = "refused", !.answer = {}]]
        /\ UNCHANGED <<stored, recency, workspace, typed, dirty, guarded, publishing, busy, crossed>>
    BY <1>2 DEF Page!Lose, Page!storeVars, Page!pageVars
  <2> QED
    BY <1>1, <2>1, ClickCounted, RequestServed
<1>3. CASE Page!Serve(n)
  <2>1. PICK r : r = posted[n]
    OBVIOUS
  <2>2. /\ r.status = "sent"
        /\ UNCHANGED <<workspace, typed, dirty, guarded, publishing, busy, crossed, clicks>>
    BY <1>3, <2>1 DEF Page!Serve, Page!pageVars
  <2>3. clicks' \in 0..ClickBound
    BY <2>2 DEF PageInv, PageTypes
  <2>4. CASE ~Page!Accepts(r)
    <3>1. /\ posted' = [posted EXCEPT ![n] = [posted[n] EXCEPT !.status = "refused", !.answer = {}]]
          /\ UNCHANGED <<stored, recency>>
      BY <1>3, <2>1, <2>4 DEF Page!Serve, Page!storeVars
    <3> QED
      BY <1>1, <2>2, <2>3, <3>1, RequestServed
  <2>5. CASE Page!Accepts(r) /\ r.kind = "save"
    <3>1. Page!ValidCues(r.subject.cues) /\ stored[r.subject.id].revision = r.subject.expected
      BY <2>5 DEF Page!Accepts
    <3>2. /\ Page!Store(r.subject.id, r.subject.cues, TRUE)
          /\ posted' = [posted EXCEPT ![n] =
               [r EXCEPT !.status = "answered",
                         !.answer = {[id |-> r.subject.id, cues |-> r.subject.cues,
                                      revision |-> r.subject.expected + 1]}]]
      BY <1>3, <2>1, <2>5 DEF Page!Serve
    <3> QED
      BY <1>1, <2>1, <2>2, <2>5, <3>1, <3>2, SaveServed
  <2>6. CASE Page!Accepts(r) /\ r.kind = "load"
    <3>1. /\ posted' = [posted EXCEPT ![n] = [posted[n] EXCEPT !.status = "answered",
                                                               !.answer = Page!Listed(r.subject)]]
          /\ UNCHANGED <<stored, recency>>
      BY <1>3, <2>1, <2>6 DEF Page!Serve, Page!storeVars
    <3> QED
      BY <1>1, <2>1, <2>2, <2>3, <2>6, <3>1, RequestServed
  <2>7. CASE Page!Accepts(r) /\ r.kind \notin {"save", "load"}
    <3>1. /\ posted' = [posted EXCEPT ![n] = [posted[n] EXCEPT !.status = "answered", !.answer = {}]]
          /\ UNCHANGED <<stored, recency>>
      BY <1>3, <2>1, <2>7 DEF Page!Serve, Page!storeVars
    <3> QED
      BY <1>1, <2>2, <2>3, <3>1, RequestServed
  <2> QED
    BY <2>4, <2>5, <2>6, <2>7
<1> QED
  BY <1>2, <1>3

\* A page with the answer of a request is of what the request found.
LEMMA AnsweredFair ==
  ASSUME PageInv, NEW r \in PostRow, PostSound(r)
  PROVE  FairPage({Page!Answered(r, w) : w \in r.base})
         /\ (r.kind = "save" /\ r.status = "answered" =>
               \A u \in {Page!Answered(r, w) : w \in r.base} : u.shown = r.answer)
<1> DEFINE W == {Page!Answered(r, w) : w \in r.base}
<1>1. FairPage(r.base) /\ FairOne(r.answer) /\ r.answer \in SUBSET ViewRow
  BY DEF PostSound, PostRow
<1>2. CASE r.base = {}
  BY <1>2 DEF FairPage, AtMostOne
<1>3. CASE r.base # {}
  <2>1. PICK w \in PageRow : r.base = {w} /\ FairOne(w.shown)
    BY <1>1, <1>3 DEF FairPage, AtMostOne
  <2>2. W = {Page!Answered(r, w)}
    BY <2>1
  <2> DEFINE u == Page!Answered(r, w)
  <2>3. CASE r.status = "refused"
    <3>1. u = [w EXCEPT !.loading = FALSE, !.saving = FALSE, !.error = TRUE]
      BY <2>3 DEF Page!Answered
    <3> HIDE DEF u
    <3>2. u \in PageRow /\ u.shown = w.shown
      BY <2>1, <3>1 DEF PageRow
    <3> QED
      BY <2>1, <2>2, <2>3, <3>2 DEF FairPage, AtMostOne, u
  <2>4. CASE r.status # "refused" /\ r.kind = "export"
    <3>1. u = w
      BY <2>4 DEF Page!Answered
    <3> QED
      BY <2>1, <2>2, <2>4, <3>1 DEF FairPage, AtMostOne
  <2>5. CASE r.status # "refused" /\ r.kind # "export"
    <3>1. u = [w EXCEPT !.loading = FALSE, !.saving = FALSE, !.shown = r.answer]
      BY <2>5 DEF Page!Answered
    <3> HIDE DEF u
    <3>2. u \in PageRow /\ u.shown = r.answer
      BY <1>1, <2>1, <3>1 DEF PageRow
    <3> QED
      BY <1>1, <2>2, <3>2 DEF FairPage, AtMostOne, u
  <2> QED
    BY <2>3, <2>4, <2>5
<1> QED
  BY <1>2, <1>3

\* One of the requests is over.
LEMMA RequestOver ==
  ASSUME PageInv, NEW n \in 1..Len(posted), posted' = Page!RemoveAt(posted, n), stored' = stored
  PROVE  /\ posted' \in Seq(PostRow) /\ Len(posted') <= PostBound /\ PostsSound'
         /\ \A m : Asks(m)' => Asks(IF m < n THEN m ELSE m + 1)
<1>1. posted \in Seq(PostRow) /\ Len(posted) \in Nat /\ Len(posted) <= PostBound /\ PostBound \in Nat
  BY LenProperties, PageAssumption DEF PageInv, PageTypes
<1>2. /\ posted' \in Seq(PostRow) /\ Len(posted') = Len(posted) - 1
      /\ \A m \in 1..(Len(posted) - 1) : posted'[m] = posted[IF m < n THEN m ELSE m + 1]
  BY <1>1, Removed
<1>3. PostsSound'
  <2>1. ASSUME NEW m \in 1..(Len(posted) - 1) PROVE PostSound(posted[m])'
    <3>1. PICK k \in 1..Len(posted) : posted'[m] = posted[k]
      <4>1. (IF m < n THEN m ELSE m + 1) \in 1..Len(posted)
        BY <1>1
      <4> QED
        BY <1>2, <4>1
    <3>2. PICK r : r = posted'[m] /\ r = posted[k]
      BY <3>1
    <3>3. PostSound(r)
      BY <3>2 DEF PageInv, PostsSound
    <3>4. PostSound(r)'
      BY <3>3, FairKept
    <3> QED
      BY <3>2, <3>4, SoundNext
  <2> QED
    BY <1>2, <2>1 DEF PostsSound
<1>4. ASSUME NEW m, Asks(m)' PROVE Asks(IF m < n THEN m ELSE m + 1)
  <2>1. m \in 1..(Len(posted) - 1) /\ posted'[m].kind = "publish" /\ ~posted'[m].gone
    BY <1>2, <1>4 DEF Asks
  <2>2. CASE m < n
    <3>1. posted'[m] = posted[m] /\ m \in 1..Len(posted)
      BY <1>1, <1>2, <2>1, <2>2
    <3> QED
      BY <2>1, <2>2, <3>1 DEF Asks
  <2>3. CASE ~(m < n)
    BY <1>1, <1>2, <2>1, <2>3 DEF Asks
  <2> QED
    BY <2>2, <2>3
<1> QED
  BY <1>1, <1>2, <1>3, <1>4

\* The page takes the answer of a request that is not about its transcript.
LEMMA PublishAnswered ==
  ASSUME PageInv, NEW n \in 1..Len(posted), posted' = Page!RemoveAt(posted, n),
         UNCHANGED <<stored, recency, workspace, typed, dirty, guarded, clicks>>,
         AtMostOne(publishing, Assets)', crossed' \in BOOLEAN,
         busy' \in {"none", "import", "publish"},
         ~crossed' => ~crossed /\ \/ busy' = busy
                                  \/ busy # "publish"
                                  \/ posted[n].kind = "publish" /\ ~posted[n].gone
  PROVE  PageInv'
<1>1. /\ posted' \in Seq(PostRow) /\ Len(posted') <= PostBound /\ PostsSound'
      /\ \A m : Asks(m)' => Asks(IF m < n THEN m ELSE m + 1)
  BY RequestOver
<1>2. TranscriptsStored' /\ FairPage(workspace)' /\ DraftFollows' /\ clicks' \in 0..ClickBound
  BY PageKept DEF PageInv, PageTypes
<1>3. PageTypes'
  BY <1>1, <1>2 DEF PageInv, PageTypes
<1>4. UncrossedGuarded'
  BY DEF PageInv, UncrossedGuarded
<1>5. UncrossedAlone'
  <2> SUFFICES ASSUME ~crossed', NEW m, Asks(m)', NEW k
               PROVE  busy' = "publish" /\ (Asks(k)' => k = m)
    BY DEF UncrossedAlone
  <2> DEFINE o(i) == IF i < n THEN i ELSE i + 1
  <2>1. ~crossed /\ Asks(o(m))
    BY <1>1
  <2>2. busy = "publish" /\ \A i : Asks(i) => i = o(m)
    BY <2>1 DEF PageInv, UncrossedAlone
  <2>3. m \in 1..Len(posted') /\ Len(posted') \in Nat
    BY <1>1, LenProperties DEF Asks
  <2>4. o(m) # n
    BY <2>3
  <2>5. busy' = busy
    <3>1. ASSUME posted[n].kind = "publish", ~posted[n].gone PROVE FALSE
      BY <2>2, <2>4, <3>1 DEF Asks
    <3> QED
      BY <2>2, <3>1
  <2>6. ASSUME Asks(k)' PROVE k = m
    <3>1. o(k) = o(m)
      BY <1>1, <2>2, <2>6
    <3>2. k \in 1..Len(posted')
      BY <2>6 DEF Asks
    <3> QED
      BY <2>3, <3>1, <3>2
  <2> QED
    BY <2>2, <2>5, <2>6
<1> QED
  BY <1>1, <1>2, <1>3, <1>4, <1>5 DEF PageInv

\* The page takes the answer of a request about its transcript.
LEMMA TranscriptAnswered ==
  ASSUME PageInv, NEW n \in 1..Len(posted), NEW r, r = posted[n],
         posted' = Page!RemoveAt(posted, n),
         Page!Show({Page!Answered(r, w) : w \in r.base}, r.kind = "save" /\ r.status = "answered"),
         crossed' = (\/ crossed \/ workspace # r.left
                     \/ \E m \in (n + 1)..Len(posted) : posted[m].left # {}),
         UNCHANGED <<stored, recency, publishing, busy, clicks>>
  PROVE  PageInv'
<1> DEFINE W == {Page!Answered(r, w) : w \in r.base}
           clean == r.kind = "save" /\ r.status = "answered"
<1>1. r \in PostRow /\ PostSound(r)
  BY ElementOfSeq DEF PageInv, PageTypes, PostsSound
<1>2. FairPage(W) /\ (clean => \A u \in W : u.shown = r.answer)
  BY <1>1, AnsweredFair
<1>3. clean \in BOOLEAN
  OBVIOUS
<1>4. Page!Show(W, clean)
  OBVIOUS
<1>5. crossed \in BOOLEAN /\ crossed' \in BOOLEAN /\ (~crossed' => ~crossed /\ workspace = r.left)
  BY DEF PageInv, PageTypes
<1> HIDE DEF W
<1>6. /\ FairPage(workspace)' /\ DraftFollows'
      /\ typed' \in Seq(Page!DraftRow) /\ dirty' \in BOOLEAN /\ guarded' \in BOOLEAN
      /\ dirty' => dirty /\ Page!Key(W) = Page!Key(workspace)
      /\ dirty' /\ ~clean => guarded' = guarded
  <2> HIDE DEF clean
  <2> QED
    BY <1>2, <1>3, <1>4, PageShown
<1>7. /\ posted' \in Seq(PostRow) /\ Len(posted') <= PostBound /\ PostsSound'
      /\ \A m : Asks(m)' => Asks(IF m < n THEN m ELSE m + 1)
  BY RequestOver
<1>8. TranscriptsStored' /\ clicks' \in 0..ClickBound
  BY PageKept DEF PageInv, PageTypes
<1>9. PageTypes'
  BY <1>5, <1>6, <1>7, <1>8 DEF PageInv, PageTypes
<1>10. UncrossedGuarded'
  <2> SUFFICES ASSUME ~crossed', dirty' PROVE guarded'
    BY DEF UncrossedGuarded
  <2>1. ~crossed /\ workspace = r.left /\ dirty /\ guarded
    BY <1>5, <1>6 DEF PageInv, UncrossedGuarded
  <2>2. ASSUME clean PROVE FALSE
    <3>1. PICK w \in workspace : w.shown # {}
      BY <2>1 DEF PageInv, DraftFollows
    <3>2. PICK v \in w.shown : TRUE
      BY <3>1
    <3>3. <<v.id, v.revision>> \in Page!Key(W)
      BY <1>6, ShownKeys
    <3>4. PICK u \in W : \E x \in u.shown : <<v.id, v.revision>> = <<x.id, x.revision>>
      BY <3>3, ShownKeys
    <3>5. PICK x \in r.answer : v.revision = x.revision
      BY <1>2, <2>2, <3>4
    <3>6. SaveSound(r)
      BY <1>1, <2>2 DEF PostSound
    <3>7. x.revision = r.subject.expected + 1 /\ v.revision = r.subject.expected
      BY <2>1, <3>2, <3>6 DEF SaveSound
    <3>8. r.subject.expected \in Nat
      BY <3>6 DEF SaveSound, SaveRow
    <3> QED
      BY <3>5, <3>7, <3>8
  <2> QED
    BY <1>6, <2>1, <2>2
<1>11. UncrossedAlone'
  <2> SUFFICES ASSUME ~crossed', NEW m, Asks(m)', NEW k
               PROVE  busy' = "publish" /\ (Asks(k)' => k = m)
    BY DEF UncrossedAlone
  <2> DEFINE o(i) == IF i < n THEN i ELSE i + 1
  <2>1. ~crossed /\ Asks(o(m))
    BY <1>5, <1>7
  <2>2. busy = "publish" /\ \A i : Asks(i) => i = o(m)
    BY <2>1 DEF PageInv, UncrossedAlone
  <2>3. m \in 1..Len(posted') /\ Len(posted') \in Nat
    BY <1>7, LenProperties DEF Asks
  <2>4. ASSUME Asks(k)' PROVE k = m
    <3>1. o(k) = o(m)
      BY <1>7, <2>2, <2>4
    <3>2. k \in 1..Len(posted')
      BY <2>4 DEF Asks
    <3> QED
      BY <2>3, <3>1, <3>2
  <2> QED
    BY <2>2, <2>4
<1> QED
  BY <1>6, <1>7, <1>8, <1>9, <1>10, <1>11 DEF PageInv

\* The page takes an answer.
LEMMA PageReceives == ASSUME PageInv, NEW n \in DOMAIN posted, Page!Receive(n) PROVE PageInv'
<1>1. n \in 1..Len(posted)
  BY LenProperties DEF PageInv, PageTypes
<1>2. PICK r : r = posted[n]
  OBVIOUS
<1>3. posted' = Page!RemoveAt(posted, n) /\ UNCHANGED <<stored, recency, clicks>>
  BY DEF Page!Receive, Page!storeVars
<1>4. /\ AtMostOne(publishing, Assets) /\ crossed \in BOOLEAN
      /\ busy \in {"none", "import", "publish"}
      /\ posted \in Seq(PostRow)
  BY DEF PageInv, PageTypes
<1>9. r \in PostRow
  BY <1>1, <1>2, <1>4, ElementOfSeq
<1>10. r.gone \in BOOLEAN
  BY <1>9 DEF PostRow
<1>5. CASE r.gone
  <2>1. UNCHANGED <<workspace, typed, dirty, guarded, publishing, busy, crossed>>
    BY <1>2, <1>5 DEF Page!Receive, Page!pageVars
  <2>2. AtMostOne(publishing, Assets)'
    BY <1>4, <2>1 DEF AtMostOne
  <2> QED
    BY <1>1, <1>3, <1>4, <2>1, <2>2, PublishAnswered
<1>6. CASE ~r.gone /\ r.kind = "import"
  <2>1. /\ busy' = "none" /\ crossed' = (crossed \/ busy # "import")
        /\ UNCHANGED <<workspace, typed, dirty, guarded, publishing>>
    BY <1>2, <1>6 DEF Page!Receive
  <2>2. AtMostOne(publishing, Assets)'
    BY <1>4, <2>1 DEF AtMostOne
  <2>3. crossed' \in BOOLEAN /\ (~crossed' => ~crossed /\ busy # "publish")
    BY <1>4, <2>1
  <2> QED
    BY <1>1, <1>3, <1>4, <2>1, <2>2, <2>3, PublishAnswered
<1>7. CASE ~r.gone /\ r.kind = "publish"
  <2>1. /\ busy' = "none" /\ crossed' = (crossed \/ ~(busy = "publish"))
        /\ publishing' = IF r.status = "refused" THEN publishing ELSE {}
        /\ UNCHANGED <<workspace, typed, dirty, guarded>>
    BY <1>2, <1>7 DEF Page!Receive, Page!Publishing
  <2>2. AtMostOne(publishing, Assets)'
    BY <1>4, <2>1 DEF AtMostOne
  <2>3. crossed' \in BOOLEAN /\ (~crossed' => ~crossed)
    BY <1>4, <2>1
  <2> QED
    BY <1>1, <1>2, <1>3, <1>7, <2>1, <2>2, <2>3, PublishAnswered
<1>8. CASE ~r.gone /\ r.kind \notin {"import", "publish"}
  <2>1. /\ Page!Show({Page!Answered(r, w) : w \in r.base},
                     r.kind = "save" /\ r.status = "answered")
        /\ crossed' = (\/ crossed \/ workspace # r.left
                       \/ \E m \in (n + 1)..Len(posted) : posted[m].left # {})
        /\ UNCHANGED <<publishing, busy>>
    BY <1>2, <1>8 DEF Page!Receive
  <2> QED
    BY <1>1, <1>2, <1>3, <2>1, TranscriptAnswered
<1> QED
  BY <1>5, <1>6, <1>7, <1>8, <1>10

\* Nothing that the page or its server does makes the invariant untrue.
LEMMA PageStep == ASSUME PageInv, [Page!WorkspaceNext]_pageVars PROVE PageInv'
<1>1. CASE UNCHANGED pageVars
  <2>1. /\ UNCHANGED <<stored, recency, workspace, typed, dirty, guarded, publishing, busy>>
        /\ UNCHANGED <<posted, crossed, clicks>>
    BY <1>1 DEF pageVars
  <2>2. TranscriptsStored' /\ PostsSound' /\ FairPage(workspace)' /\ DraftFollows'
    BY <2>1, PageKept
  <2>4. UncrossedGuarded' /\ UncrossedAlone'
    BY <2>1 DEF PageInv, UncrossedGuarded, UncrossedAlone, Asks
  <2>3. PageTypes'
    BY <2>1 DEF PageInv, PageTypes, AtMostOne
  <2> QED
    BY <2>2, <2>3, <2>4 DEF PageInv
<1>2. CASE Page!ReloadTranscript \/ \E asset \in Assets : Page!BeginTranscript(asset)
  BY <1>2, TranscriptBegins
<1>3. CASE Page!CloseTranscript \/ \E asset \in Assets : Page!BeginPublish(asset)
  BY <1>3, TranscriptLeft
<1>4. CASE Page!SaveTranscript
  BY <1>4, TranscriptSaves
<1>5. CASE Page!ExportTranscript
  BY <1>5, TranscriptExports
<1>6. CASE \E i \in DOMAIN typed : Page!UpdateCue(i)
  BY <1>6, CueUpdates
<1>7. CASE Page!QueuePublish \/ Page!ImportMedia
  BY <1>7, PublishQueues
<1>8. CASE Page!CancelPublish \/ Page!FollowLinkHere
  BY <1>8, PageStays
<1>9. CASE Page!LeavePage
  BY <1>9, PageLeaves
<1>10. CASE \E id \in Page!Ids : Page!Generate(id) \/ Page!OtherSaves(id)
  BY <1>10, TranscriptChanges
<1>11. CASE \E n \in DOMAIN posted : Page!Serve(n) \/ Page!Lose(n)
  BY <1>11, RequestSettles
<1>12. CASE \E n \in DOMAIN posted : Page!Receive(n)
  BY <1>12, PageReceives
<1> QED
  BY <1>1, <1>2, <1>3, <1>4, <1>5, <1>6, <1>7, <1>8, <1>9, <1>10, <1>11, <1>12
  DEF Page!WorkspaceNext

\* The ids of the transcripts can be listed, each once.
LEMMA IdsListed ==
  /\ Page!SetToSeq(Page!Ids) \in Seq(Page!Ids)
  /\ \A id \in Page!Ids : \E n \in DOMAIN Page!SetToSeq(Page!Ids) : Page!SetToSeq(Page!Ids)[n] = id
<1> DEFINE S == Page!Ids
           k == Cardinality(S)
<1>1. IsFiniteSet(S) /\ k \in Nat
  BY PageAssumption, FS_CardinalityType
<1>2. Page!Cardinality(S) = k
  BY DEF Cardinality, Page!Cardinality
<1>3. PICK f : f \in Bijection(1..k, S)
  BY <1>1, FS_NatBijection, FS_CardinalityType DEF ExistsBijection
<1>4. f \in [1..k -> S] /\ (\A s \in S : \E n \in 1..k : f[n] = s)
      /\ \A m, n \in 1..k : f[m] = f[n] => m = n
  BY <1>3 DEF Bijection, Injection, Surjection, IsInjective
<1>5. Page!IsInjective(f)
  BY <1>4 DEF Page!IsInjective
<1> DEFINE g == Page!SetToSeq(S)
<1>6. g \in [1..k -> S] /\ Page!IsInjective(g)
  BY <1>2, <1>4, <1>5 DEF Page!SetToSeq
<1> HIDE DEF g
<1>7. g \in Injection(1..k, S)
  BY <1>6 DEF Page!IsInjective, Injection, IsInjective
<1>8. IsFiniteSet(1..k) /\ Cardinality(1..k) = k
  BY <1>1, FS_Interval
<1>9. g \in Surjection(1..k, S)
  BY <1>1, <1>7, <1>8, FS_Injection
<1> QED
  BY <1>1, <1>6, <1>9, IsASeq DEF Surjection, g

\* What the page and the database begin with.
LEMMA PageBegins == ASSUME Page!WorkspaceInit PROVE PageInv
<1>1. /\ stored = [id \in Page!Ids |-> [cues |-> Originals[id].cues, edited |-> FALSE, revision |-> 0]]
      /\ recency = Page!SetToSeq(Page!Ids)
      /\ workspace = {} /\ typed = <<>> /\ dirty = FALSE /\ guarded = FALSE
      /\ publishing = {} /\ busy = "none" /\ posted = <<>> /\ crossed = FALSE /\ clicks = 0
  BY DEF Page!WorkspaceInit
<1>2. TranscriptsStored
  <2>1. \A id \in Page!Ids : stored[id] \in StoredRow /\ stored[id].cues = Originals[id].cues
    BY <1>1, PageAssumption DEF StoredRow
  <2>2. \A id \in Page!Ids : Proper(stored[id].cues)
    BY <2>1, PageAssumption DEF Proper
  <2>3. stored \in [Page!Ids -> StoredRow]
    BY <1>1, <2>1
  <2> QED
    BY <1>1, <2>2, <2>3, IdsListed DEF TranscriptsStored
<1>3. PageTypes
  <2>1. typed \in Seq(Page!DraftRow) /\ posted \in Seq(PostRow) /\ Len(posted) = 0
    BY <1>1, EmptySeq
  <2>2. Len(posted) <= PostBound /\ clicks \in 0..ClickBound
    BY <1>1, <2>1, PageAssumption
  <2> QED
    BY <1>1, <2>1, <2>2 DEF PageTypes, AtMostOne
<1>4. FairPage(workspace)
  BY <1>1 DEF FairPage, AtMostOne
<1>5. DraftFollows
  BY <1>1, EmptySeq DEF DraftFollows
<1>6. PostsSound /\ UncrossedGuarded /\ UncrossedAlone
  BY <1>1, EmptySeq DEF PostsSound, UncrossedGuarded, UncrossedAlone, Asks
<1> QED
  BY <1>2, <1>3, <1>4, <1>5, <1>6 DEF PageInv

\* A set of at most one.
LEMMA FewCounted ==
  ASSUME NEW S, \A x, y \in S : x = y
  PROVE  IsFiniteSet(S) /\ Page!Cardinality(S) <= 1 /\ Page!Cardinality(S) \in Nat
<1>1. CASE S = {}
  BY <1>1, FS_EmptySet DEF Cardinality, Page!Cardinality
<1>2. CASE S # {}
  <2>1. PICK x : S = {x}
    BY <1>2
  <2>2. IsFiniteSet({x}) /\ Cardinality({x}) = 1
    BY FS_Singleton
  <2>3. Page!Cardinality(S) = Cardinality(S)
    BY DEF Cardinality, Page!Cardinality
  <2> QED
    BY <2>1, <2>2, <2>3
<1> QED
  BY <1>1, <1>2

\* What the invariant says of the page's saves and of its edits.
LEMMA PageHolds == ASSUME PageInv PROVE Page!SavesAreFaithful /\ Page!EditsAreGuarded
<1>1. posted \in Seq(PostRow) /\ DOMAIN posted = 1..Len(posted)
  BY LenProperties DEF PageInv, PageTypes
<1>2. ASSUME NEW n \in DOMAIN posted, posted[n].kind = "export"
      PROVE  Page!Exportable(posted[n].subject)
  <2>1. posted[n].subject \in Page!Ids /\ stored[posted[n].subject].cues # <<>>
    BY <1>1, <1>2 DEF PageInv, PostsSound, PostSound
  <2> QED
    BY <2>1 DEF PageInv, TranscriptsStored, Proper, Page!Exportable
<1>3. ASSUME NEW n \in DOMAIN posted, NEW r, r = posted[n], r.kind = "save"
      PROVE  /\ Page!ValidCues(r.subject.cues) /\ r.subject.expected <= stored[r.subject.id].revision
             /\ r.status = "sent" /\ r.subject.expected = stored[r.subject.id].revision =>
                  /\ Len(r.subject.cues) = Len(stored[r.subject.id].cues)
                  /\ \A i \in DOMAIN stored[r.subject.id].cues :
                       r.subject.cues[i] = stored[r.subject.id].cues[i] \/ r.subject.cues[i].words = {}
  <2>1. SaveSound(r)
    BY <1>1, <1>3 DEF PageInv, PostsSound, PostSound
  <2>2. stored[r.subject.id] \in StoredRow
    BY <2>1 DEF SaveSound, SaveRow, PageInv, TranscriptsStored
  <2>3. DOMAIN stored[r.subject.id].cues = 1..Len(stored[r.subject.id].cues)
    BY <2>2, LenProperties DEF StoredRow
  <2> QED
    BY <2>1, <2>3 DEF SaveSound
<1>4. Page!SavesAreFaithful
  BY <1>2, <1>3 DEF Page!SavesAreFaithful
<1>5. ASSUME ~crossed
      PROVE  /\ dirty => guarded
             /\ Page!Cardinality({n \in DOMAIN posted : posted[n].kind = "publish" /\ ~posted[n].gone}) <= 1
  <2>1. \A m, n : Asks(m) /\ Asks(n) => m = n
    BY <1>5 DEF PageInv, UncrossedAlone
  <2> DEFINE S == {n \in DOMAIN posted : posted[n].kind = "publish" /\ ~posted[n].gone}
  <2>2. \A m, n \in S : m = n
    BY <1>1, <2>1 DEF Asks
  <2> HIDE DEF S
  <2>3. Page!Cardinality(S) <= 1
    BY <2>2, FewCounted
  <2> QED
    BY <1>5, <2>3 DEF S, PageInv, UncrossedGuarded
<1>6. Page!EditsAreGuarded
  BY <1>5 DEF Page!EditsAreGuarded
<1> QED
  BY <1>4, <1>6

\* The types of the page.
LEMMA PageTyped == ASSUME PageInv PROVE Page!WorkspaceTypeOK
<1>1. stored \in [Page!Ids -> [cues : Seq(Page!CueRow), edited : BOOLEAN, revision : Nat]]
  BY DEF PageInv, TranscriptsStored, StoredRow
<1>2. recency \in Seq(Page!Ids) /\ Page!ToSet(recency) = Page!Ids
  <2>1. recency \in Seq(Page!Ids) /\ DOMAIN recency = 1..Len(recency)
        /\ \A id \in Page!Ids : \E n \in DOMAIN recency : recency[n] = id
    BY LenProperties DEF PageInv, TranscriptsStored
  <2>2. \A n \in DOMAIN recency : recency[n] \in Page!Ids
    BY <2>1, ElementOfSeq
  <2> QED
    BY <2>1, <2>2 DEF Page!ToSet
<1>3. Page!Cardinality(workspace) <= 1 /\ Page!Cardinality(publishing) <= 1
      /\ publishing \subseteq Assets
  <2>1. (\A x, y \in workspace : x = y) /\ (\A x, y \in publishing : x = y)
    BY DEF PageInv, PageTypes, FairPage, AtMostOne
  <2> QED
    BY <2>1, FewCounted DEF PageInv, PageTypes, AtMostOne
<1>4. ASSUME NEW w \in workspace
      PROVE  /\ DOMAIN w = {"asset", "loading", "saving", "exporting", "error", "shown"}
             /\ w.asset \in Assets /\ Page!Cardinality(w.shown) <= 1
             /\ {w.loading, w.saving, w.exporting, w.error} \subseteq BOOLEAN
  <2>1. w \in PageRow /\ FairOne(w.shown)
    BY DEF PageInv, FairPage, AtMostOne
  <2>2. \A x, y \in w.shown : x = y
    BY <2>1 DEF FairOne, AtMostOne
  <2>3. Page!Cardinality(w.shown) <= 1
    BY <2>2, FewCounted
  <2>4. DOMAIN w = {"asset", "loading", "saving", "exporting", "error", "shown"}
    BY <2>1 DEF PageRow
  <2> QED
    BY <2>1, <2>3, <2>4 DEF PageRow
<1>5. /\ typed \in Seq(Page!DraftRow)
      /\ {dirty, guarded, crossed} \subseteq BOOLEAN
      /\ busy \in {"none", "import", "publish"}
      /\ Len(posted) <= PostBound /\ clicks \in 0..ClickBound
  BY DEF PageInv, PageTypes
<1> QED
  BY <1>1, <1>2, <1>3, <1>4, <1>5 DEF Page!WorkspaceTypeOK

-----------------------------------------------------------------------------
(* Edits do not vanish unasked.                                            *)

\* What a request was made of, whatever has become of the page: a save and an
\* export by a page that shows a transcript and goes on showing it, and only
\* what is asked to be saved is answered as saved.
PostEdited(r) ==
  /\ r.kind = "load" => \A w \in r.left : w.shown = {} /\ ~w.saving
  /\ r.kind \in {"import", "publish"} => r.left = {}
  /\ r.kind \in {"save", "export"} =>
       \E w \in r.base, u \in r.left :
         /\ r.base = {w} /\ r.left = {u} /\ u.shown = w.shown
         /\ ~w.saving /\ u.saving = (r.kind = "save")
  /\ r.kind = "save" /\ r.status = "answered" =>
       r.answer # {} /\ \A v \in r.answer : v.cues = r.subject.cues
PostsEdited == \A n \in 1..Len(posted) : PostEdited(posted[n])

\* A page that waits for the save it asked for last has nothing typed but that.
Awaits(n) ==
  /\ posted[n].kind = "save" /\ ~posted[n].gone /\ workspace = posted[n].left
  /\ \A m \in (n + 1)..Len(posted) : posted[m].gone \/ posted[m].left = {}
SaveAwaited ==
  \A n \in 1..Len(posted) : Awaits(n) => Page!CuesOf(typed) = {posted[n].subject.cues}

EditInv == PostsEdited /\ SaveAwaited

\* The requests under way, as a sequence.
LEMMA RequestsUnderWay ==
  ASSUME PageInv
  PROVE  /\ posted \in Seq(PostRow) /\ Len(posted) \in Nat /\ DOMAIN posted = 1..Len(posted)
         /\ \A n \in 1..Len(posted) : posted[n] \in PostRow
BY LenProperties, ElementOfSeq DEF PageInv, PageTypes

\* A page that does not save waits for no save.
LEMMA NotSaving ==
  ASSUME PageInv', PostsEdited', \A w \in workspace' : ~w.saving
  PROVE  SaveAwaited'
<1> SUFFICES ASSUME NEW n \in 1..Len(posted'), Awaits(n)'
             PROVE  FALSE
  BY DEF SaveAwaited
<1>1. posted'[n].kind = "save" /\ workspace' = posted'[n].left
  BY DEF Awaits
<1>2. PICK u \in posted'[n].left : u.saving
  BY <1>1 DEF PostsEdited, PostEdited
<1> QED
  BY <1>1, <1>2

\* The request that is made is the last one.
LEMMA LastPosted ==
  ASSUME PageInv, NEW kind, NEW subject, NEW base, NEW left,
         Page!Post(kind, subject, base, left)
  PROVE  /\ Len(posted') = Len(posted) + 1
         /\ \A m \in 1..Len(posted) : posted'[m] = posted[m]
         /\ posted'[Len(posted) + 1].kind = kind
         /\ posted'[Len(posted) + 1].subject = subject
         /\ posted'[Len(posted) + 1].base = base
         /\ posted'[Len(posted) + 1].left = left
         /\ posted'[Len(posted) + 1].status = "sent"
         /\ ~posted'[Len(posted) + 1].gone
<1> DEFINE row == [kind |-> kind, subject |-> subject, base |-> base, left |-> left,
                   status |-> "sent", answer |-> {}, gone |-> FALSE]
<1>1. posted' = Append(posted, row) /\ posted \in Seq(PostRow)
  BY RequestsUnderWay DEF Page!Post
<1>2. /\ row.kind = kind /\ row.subject = subject /\ row.base = base /\ row.left = left
      /\ row.status = "sent" /\ ~row.gone
  OBVIOUS
<1> HIDE DEF row
<1>3. posted \in Seq(PostRow \cup {row})
  <2>1. \A n \in 1..Len(posted) : posted[n] \in PostRow \cup {row}
    BY RequestsUnderWay
  <2> QED
    BY <2>1, IsASeq, RequestsUnderWay
<1>4. /\ Len(posted') = Len(posted) + 1 /\ posted'[Len(posted) + 1] = row
      /\ \A m \in 1..Len(posted) : posted'[m] = posted[m]
  BY <1>1, <1>3, AppendProperties
<1> QED
  BY <1>2, <1>4

\* One more request.
LEMMA EditedPosted ==
  ASSUME PageInv, PostsEdited, Len(posted') = Len(posted) + 1,
         \A m \in 1..Len(posted) : posted'[m] = posted[m],
         NEW r, r = posted'[Len(posted) + 1], PostEdited(r)
  PROVE  PostsEdited'
<1>1. Len(posted) \in Nat
  BY RequestsUnderWay
<1>2. ASSUME NEW n \in 1..Len(posted') PROVE PostEdited(posted'[n])
  <2>1. n \in 1..Len(posted) \/ n = Len(posted) + 1
    BY <1>1
  <2> QED
    BY <2>1 DEF PostsEdited
<1> QED
  BY <1>2 DEF PostsEdited, PostEdited

\* What has been typed stays, and the page waits for no other save.
LEMMA StillAwaited ==
  ASSUME PageInv, EditInv, UNCHANGED <<workspace, typed>>, NEW o,
         \A n \in 1..Len(posted') :
           Awaits(n)' => /\ o[n] \in 1..Len(posted) /\ Awaits(o[n])
                         /\ posted'[n].subject = posted[o[n]].subject
  PROVE  SaveAwaited'
<1>1. ASSUME NEW n \in 1..Len(posted'), Awaits(n)'
      PROVE  Page!CuesOf(typed') = {posted'[n].subject.cues}
  <2>1. o[n] \in 1..Len(posted) /\ Awaits(o[n]) /\ posted'[n].subject = posted[o[n]].subject
    BY <1>1
  <2>2. Page!CuesOf(typed) = {posted[o[n]].subject.cues}
    BY <2>1 DEF EditInv, SaveAwaited
  <2> QED
    BY <2>1, <2>2
<1> QED
  BY <1>1 DEF SaveAwaited

\* What changes neither the requests nor what is typed.
LEMMA EditKept ==
  ASSUME EditInv, UNCHANGED <<posted, workspace, typed>>
  PROVE  EditInv'
BY DEF EditInv, PostsEdited, PostEdited, SaveAwaited, Awaits

\* A transcript is asked for, by a page that shows none.
LEMMA LoadEdited ==
  ASSUME PageInv, PageInv', EditInv, NEW asset, Page!Load(asset)
  PROVE  EditInv' /\ Len(posted') = Len(posted) + 1
<1> DEFINE w == [asset |-> asset, loading |-> TRUE, saving |-> FALSE, exporting |-> FALSE,
                 error |-> FALSE, shown |-> {}]
<1>1. Page!Show({w}, TRUE) /\ Page!Post("load", asset, {w}, {w})
  BY DEF Page!Load
<1>2. w.shown = {} /\ ~w.saving
  OBVIOUS
<1> HIDE DEF w
<1>3. workspace' = {w}
  BY <1>1 DEF Page!Show
<1>4. PICK r : r = posted'[Len(posted) + 1]
  OBVIOUS
<1>5. r.kind = "load" /\ r.left = {w}
  BY <1>1, <1>4, LastPosted
<1>6. PostEdited(r)
  BY <1>2, <1>5 DEF PostEdited
<1>7. /\ Len(posted') = Len(posted) + 1
      /\ \A m \in 1..Len(posted) : posted'[m] = posted[m]
  BY <1>1, LastPosted
<1>8. PostsEdited'
  BY <1>4, <1>6, <1>7, EditedPosted DEF EditInv
<1>9. SaveAwaited'
  BY <1>2, <1>3, <1>8, NotSaving
<1> QED
  BY <1>7, <1>8, <1>9 DEF EditInv

\* The page goes on showing what it shows, with the same draft.
LEMMA ShownAgain ==
  ASSUME PageInv, NEW w, NEW u, workspace = {w}, u.shown = w.shown, w.shown # {},
         Page!Show({u}, FALSE)
  PROVE  workspace' = {u} /\ typed' = typed /\ dirty' = dirty
<1>1. Page!Key({u}) = Page!Key({w})
  BY DEF Page!Key
<1>2. {u} # {} /\ workspace # {} /\ Page!Key({u}) = Page!Key(workspace)
  BY <1>1
<1>3. workspace' = {u} /\ typed' = typed /\ dirty' = (TRUE /\ dirty)
  BY <1>2 DEF Page!Show
<1>4. dirty \in BOOLEAN
  BY DEF PageInv, PageTypes
<1> QED
  BY <1>3, <1>4

\* What is typed is asked to be saved, and nothing is typed until the answer.
LEMMA SaveEdited ==
  ASSUME PageInv, PageInv', EditInv, Page!SaveTranscript
  PROVE  EditInv' /\ Len(posted') = Len(posted) + 1
<1> DEFINE cues == Page!TheOne(Page!CuesOf(typed))
<1>1. PICK w \in workspace : \E s \in w.shown :
        LET left == {[w EXCEPT !.saving = TRUE, !.exporting = FALSE, !.error = FALSE]}
        IN /\ Page!Show(left, FALSE)
           /\ Page!Post("save", [id |-> s.id, expected |-> s.revision, cues |-> cues],
                        workspace, left)
  BY DEF Page!SaveTranscript
<1> DEFINE u == [w EXCEPT !.saving = TRUE, !.exporting = FALSE, !.error = FALSE]
<1>2. PICK s \in w.shown :
        /\ Page!Show({u}, FALSE)
        /\ Page!Post("save", [id |-> s.id, expected |-> s.revision, cues |-> cues], workspace, {u})
  BY <1>1
<1>3. w \in PageRow /\ workspace = {w}
  BY DEF PageInv, FairPage, AtMostOne
<1>4. u.shown = w.shown /\ u.saving
  BY <1>3 DEF PageRow
<1>5. ~w.saving
  BY <1>3 DEF Page!SaveTranscript, Page!Typing
<1>6. Page!CuesOf(typed) = {cues}
  <2>1. Page!CuesOf(typed) # {}
    BY DEF Page!SaveTranscript
  <2>2. PICK c : Page!CuesOf(typed) = {c}
    BY <2>1 DEF Page!CuesOf
  <2> QED
    BY <2>2, OnlyOne
<1> DEFINE subject == [id |-> s.id, expected |-> s.revision, cues |-> cues]
<1>7. subject.cues = cues
  OBVIOUS
<1>8. Page!Show({u}, FALSE) /\ Page!Post("save", subject, workspace, {u})
  BY <1>2
<1> HIDE DEF u, cues, subject
<1>9. workspace' = {u} /\ typed' = typed
  BY <1>3, <1>4, <1>8, ShownAgain
<1>10. PICK r : r = posted'[Len(posted) + 1]
  OBVIOUS
<1>11. /\ r.kind = "save" /\ r.subject = subject /\ r.base = {w} /\ r.left = {u}
       /\ r.status = "sent" /\ ~r.gone
       /\ Len(posted') = Len(posted) + 1
       /\ \A m \in 1..Len(posted) : posted'[m] = posted[m]
  BY <1>3, <1>8, <1>10, LastPosted
<1>12. PostEdited(r)
  BY <1>4, <1>5, <1>11 DEF PostEdited
<1>13. PostsEdited'
  BY <1>10, <1>11, <1>12, EditedPosted DEF EditInv
<1>14. SaveAwaited'
  <2> SUFFICES ASSUME NEW n \in 1..Len(posted'), Awaits(n)'
               PROVE  Page!CuesOf(typed') = {posted'[n].subject.cues}
    BY DEF SaveAwaited
  <2>1. Len(posted) \in Nat
    BY RequestsUnderWay
  <2>2. CASE n = Len(posted) + 1
    BY <1>6, <1>7, <1>9, <1>10, <1>11, <2>2
  <2>3. CASE n # Len(posted) + 1
    <3>1. Len(posted) + 1 \in (n + 1)..Len(posted')
      BY <1>11, <2>1, <2>3
    <3>2. r.gone \/ r.left = {}
      BY <1>10, <3>1 DEF Awaits
    <3> QED
      BY <1>11, <3>2
  <2> QED
    BY <2>2, <2>3
<1> QED
  BY <1>11, <1>13, <1>14 DEF EditInv

\* An export leaves what is typed.
LEMMA ExportEdited ==
  ASSUME PageInv, PageInv', EditInv, Page!ExportTranscript
  PROVE  EditInv' /\ Len(posted') = Len(posted) + 1
<1>1. PICK w \in workspace : \E s \in w.shown :
        LET left == {[w EXCEPT !.exporting = TRUE, !.error = FALSE]}
        IN ~w.exporting /\ Page!Show(left, FALSE) /\ Page!Post("export", s.id, workspace, left)
  BY DEF Page!ExportTranscript
<1> DEFINE u == [w EXCEPT !.exporting = TRUE, !.error = FALSE]
<1>2. PICK s \in w.shown : Page!Show({u}, FALSE) /\ Page!Post("export", s.id, workspace, {u})
  BY <1>1
<1>3. w \in PageRow /\ workspace = {w}
  BY DEF PageInv, FairPage, AtMostOne
<1>4. u.shown = w.shown /\ u.saving = w.saving /\ w.saving \in BOOLEAN
  BY <1>3 DEF PageRow
<1>5. ~w.saving
  BY <1>3 DEF Page!ExportTranscript, Page!Typing
<1> HIDE DEF u
<1>6. workspace' = {u}
  BY <1>2 DEF Page!Show
<1>7. PICK r : r = posted'[Len(posted) + 1]
  OBVIOUS
<1>8. /\ r.kind = "export" /\ r.base = {w} /\ r.left = {u}
      /\ Len(posted') = Len(posted) + 1
      /\ \A m \in 1..Len(posted) : posted'[m] = posted[m]
  BY <1>2, <1>3, <1>7, LastPosted
<1>9. PostEdited(r)
  <2>1. u.saving = FALSE /\ r.kind # "save"
    BY <1>4, <1>5, <1>8
  <2> QED
    BY <1>4, <1>5, <1>8, <2>1 DEF PostEdited
<1>10. PostsEdited'
  BY <1>7, <1>8, <1>9, EditedPosted DEF EditInv
<1>11. SaveAwaited'
  BY <1>4, <1>5, <1>6, <1>10, NotSaving
<1> QED
  BY <1>8, <1>10, <1>11 DEF EditInv

\* A publication or an import is asked for, beside the transcript.
LEMMA BesideEdited ==
  ASSUME PageInv, PageInv', EditInv, Page!QueuePublish \/ Page!ImportMedia
  PROVE  EditInv' /\ Len(posted') = Len(posted) + 1
<1>1. /\ UNCHANGED <<workspace, typed>>
      /\ \E kind \in {"import", "publish"} : \E subject : Page!Post(kind, subject, {}, {})
  BY DEF Page!QueuePublish, Page!ImportMedia
<1>2. PICK kind, subject : kind \in {"import", "publish"} /\ Page!Post(kind, subject, {}, {})
  BY <1>1
<1>3. PICK r : r = posted'[Len(posted) + 1]
  OBVIOUS
<1>4. /\ r.kind = kind /\ r.left = {}
      /\ Len(posted') = Len(posted) + 1
      /\ \A m \in 1..Len(posted) : posted'[m] = posted[m]
  BY <1>2, <1>3, LastPosted
<1>5. PostEdited(r)
  BY <1>2, <1>4 DEF PostEdited
<1>6. PostsEdited'
  BY <1>3, <1>4, <1>5, EditedPosted DEF EditInv
<1> DEFINE o == [n \in 1..Len(posted') |-> n]
<1>7. ASSUME NEW n \in 1..Len(posted'), Awaits(n)'
      PROVE  o[n] \in 1..Len(posted) /\ Awaits(o[n]) /\ posted'[n].subject = posted[o[n]].subject
  <2>1. Len(posted) \in Nat
    BY RequestsUnderWay
  <2>2. posted'[n].kind = "save" /\ ~posted'[n].gone /\ workspace' = posted'[n].left
        /\ \A m \in (n + 1)..Len(posted') : posted'[m].gone \/ posted'[m].left = {}
    BY <1>7 DEF Awaits
  <2>3. n # Len(posted) + 1
    <3>1. r.kind # "save"
      BY <1>2, <1>4
    <3> QED
      BY <1>3, <2>2, <3>1
  <2>4. n \in 1..Len(posted)
    BY <1>4, <2>1, <2>3
  <2>5. \A m \in (n + 1)..Len(posted) : posted[m].gone \/ posted[m].left = {}
    BY <1>4, <2>1, <2>2
  <2> QED
    BY <1>1, <1>4, <2>2, <2>4, <2>5 DEF Awaits
<1> HIDE DEF o
<1>8. SaveAwaited'
  BY <1>1, <1>7, StillAwaited
<1> QED
  BY <1>4, <1>6, <1>8 DEF EditInv

\* A cue is edited.
LEMMA TypingEdited ==
  ASSUME PageInv, PageInv', EditInv, NEW i \in DOMAIN typed, Page!UpdateCue(i)
  PROVE  EditInv' /\ posted' = posted
<1>1. UNCHANGED <<posted, workspace>>
  BY DEF Page!UpdateCue, Page!Field
<1>2. PICK w \in workspace : ~w.saving
  BY DEF Page!UpdateCue, Page!Typing
<1>3. \A u \in workspace : ~u.saving
  BY <1>2 DEF PageInv, FairPage, AtMostOne
<1>4. PostsEdited'
  BY <1>1 DEF EditInv, PostsEdited, PostEdited
<1> QED
  BY <1>1, <1>3, <1>4, NotSaving DEF EditInv

\* A transcript is closed.
LEMMA CloseEdited ==
  ASSUME PageInv, PageInv', EditInv, UNCHANGED posted, Page!Show({}, TRUE)
  PROVE  EditInv'
<1>1. workspace' = {}
  BY DEF Page!Show
<1>2. PostsEdited'
  BY DEF EditInv, PostsEdited, PostEdited
<1> QED
  BY <1>1, <1>2, NotSaving DEF EditInv

\* The page is left.
LEMMA LeaveEdited == ASSUME PageInv, PageInv', EditInv, Page!LeavePage PROVE EditInv'
<1>1. workspace' = {} /\ posted' = [n \in DOMAIN posted |-> [posted[n] EXCEPT !.gone = TRUE]]
  BY DEF Page!LeavePage, Page!Fresh
<1>2. Len(posted') = Len(posted)
  BY <1>1, RequestsUnderWay, LenProperties DEF PageInv, PageTypes
<1>3. ASSUME NEW n \in 1..Len(posted') PROVE PostEdited(posted'[n])
  <2>1. posted[n] \in PostRow /\ posted'[n] = [posted[n] EXCEPT !.gone = TRUE] /\ PostEdited(posted[n])
    BY <1>1, <1>2, RequestsUnderWay DEF EditInv, PostsEdited
  <2>2. /\ posted'[n].kind = posted[n].kind /\ posted'[n].subject = posted[n].subject
        /\ posted'[n].base = posted[n].base /\ posted'[n].left = posted[n].left
        /\ posted'[n].status = posted[n].status /\ posted'[n].answer = posted[n].answer
    BY <2>1 DEF PostRow
  <2> QED
    BY <2>1, <2>2 DEF PostEdited
<1>4. PostsEdited'
  BY <1>3 DEF PostsEdited, PostEdited
<1> QED
  BY <1>1, <1>4, NotSaving DEF EditInv

\* A request becomes answered, refused, or one that nobody waits for.
LEMMA ReplyEdited ==
  ASSUME PageInv, PageInv', EditInv, NEW n \in 1..Len(posted), NEW q,
         posted' = [posted EXCEPT ![n] = q], PostEdited(q),
         q.kind = posted[n].kind, q.subject = posted[n].subject,
         q.left = posted[n].left, q.gone = posted[n].gone,
         UNCHANGED <<workspace, typed>>
  PROVE  EditInv' /\ Len(posted') = Len(posted)
<1>1. /\ posted \in Seq(PostRow) /\ posted' \in Seq(PostRow) /\ Len(posted) \in Nat
      /\ DOMAIN posted = 1..Len(posted) /\ DOMAIN posted' = 1..Len(posted')
      /\ Len(posted') \in Nat
  BY RequestsUnderWay, LenProperties DEF PageInv, PageTypes
<1>2. 1..Len(posted') = 1..Len(posted)
  BY <1>1
<1>3. Len(posted') = Len(posted)
  <2>1. DOMAIN posted' = 1..Len(posted) /\ Len(posted) \in Nat
    BY <1>1
  <2> QED
    BY <1>1, <2>1, LenProperties
<1>4. \A m \in 1..Len(posted) : posted'[m] = IF m = n THEN q ELSE posted[m]
  BY <1>1
<1>5. PostsEdited'
  <2>1. \A m \in 1..Len(posted) : PostEdited(posted'[m])
    BY <1>4 DEF EditInv, PostsEdited
  <2> QED
    BY <1>3, <2>1 DEF PostsEdited, PostEdited
<1>6. \A m \in 1..Len(posted) :
        /\ posted'[m].kind = posted[m].kind /\ posted'[m].subject = posted[m].subject
        /\ posted'[m].left = posted[m].left /\ posted'[m].gone = posted[m].gone
  BY <1>4
<1> DEFINE o == [m \in 1..Len(posted) |-> m]
<1>7. ASSUME NEW m \in 1..Len(posted'), Awaits(m)'
      PROVE  o[m] \in 1..Len(posted) /\ Awaits(o[m]) /\ posted'[m].subject = posted[o[m]].subject
  <2>1. m \in 1..Len(posted) /\ (m + 1)..Len(posted') = (m + 1)..Len(posted)
        /\ (m + 1)..Len(posted) \subseteq 1..Len(posted)
    BY <1>1, <1>3
  <2> QED
    BY <1>6, <1>7, <2>1 DEF Awaits
<1> HIDE DEF o
<1>8. SaveAwaited'
  BY <1>7, StillAwaited
<1> QED
  BY <1>3, <1>5, <1>8 DEF EditInv

\* The server serves a request, or it is lost.
LEMMA ServeEdited ==
  ASSUME PageInv, PageInv', EditInv, NEW n \in DOMAIN posted, Page!Serve(n) \/ Page!Lose(n)
  PROVE  EditInv' /\ Len(posted') = Len(posted)
<1>1. n \in 1..Len(posted) /\ posted[n] \in PostRow /\ PostEdited(posted[n])
  BY RequestsUnderWay DEF EditInv, PostsEdited
<1>2. PICK r : r = posted[n]
  OBVIOUS
<1>3. UNCHANGED <<workspace, typed>>
  BY DEF Page!Serve, Page!Lose, Page!pageVars
<1>4. ASSUME NEW status, NEW answer,
             posted' = [posted EXCEPT ![n] = [r EXCEPT !.status = status, !.answer = answer]],
             r.kind = "save" =>
               status = "refused" \/ (answer # {} /\ \A v \in answer : v.cues = r.subject.cues)
      PROVE  EditInv' /\ Len(posted') = Len(posted)
  <2>1. PICK q : q = [r EXCEPT !.status = status, !.answer = answer]
    OBVIOUS
  <2>2. /\ q.kind = r.kind /\ q.subject = r.subject /\ q.base = r.base /\ q.left = r.left
        /\ q.gone = r.gone /\ q.status = status /\ q.answer = answer
    BY <1>1, <1>2, <2>1 DEF PostRow
  <2>3. PostEdited(q)
    BY <1>1, <1>2, <1>4, <2>2 DEF PostEdited
  <2>4. posted' = [posted EXCEPT ![n] = q]
    BY <1>4, <2>1
  <2> QED
    BY <1>1, <1>2, <1>3, <2>2, <2>3, <2>4, ReplyEdited
<1>5. CASE Page!Lose(n)
  <2>1. posted' = [posted EXCEPT ![n] = [r EXCEPT !.status = "refused", !.answer = {}]]
    BY <1>2, <1>5 DEF Page!Lose
  <2>2. PICK status, answer : status = "refused" /\ answer = {}
    OBVIOUS
  <2>3. posted' = [posted EXCEPT ![n] = [r EXCEPT !.status = status, !.answer = answer]]
    BY <2>1, <2>2
  <2> QED
    BY <1>4, <2>2, <2>3
<1>6. CASE Page!Serve(n) /\ Page!Accepts(r) /\ r.kind = "save"
  <2>1. posted' = [posted EXCEPT ![n] =
          [r EXCEPT !.status = "answered",
                    !.answer = {[id |-> r.subject.id, cues |-> r.subject.cues,
                                 revision |-> r.subject.expected + 1]}]]
    BY <1>2, <1>6 DEF Page!Serve
  <2>2. PICK answer : answer = {[id |-> r.subject.id, cues |-> r.subject.cues,
                                 revision |-> r.subject.expected + 1]}
    OBVIOUS
  <2>3. answer # {} /\ \A v \in answer : v.cues = r.subject.cues
    BY <2>2
  <2>4. posted' = [posted EXCEPT ![n] = [r EXCEPT !.status = "answered", !.answer = answer]]
    BY <2>1, <2>2
  <2> QED
    BY <1>4, <2>3, <2>4
<1>7. CASE Page!Serve(n) /\ ~(Page!Accepts(r) /\ r.kind = "save")
  <2>1. \E status, answer :
          /\ posted' = [posted EXCEPT ![n] = [r EXCEPT !.status = status, !.answer = answer]]
          /\ Page!Accepts(r) \/ status = "refused"
    BY <1>2, <1>7 DEF Page!Serve
  <2> QED
    BY <1>4, <1>7, <2>1
<1> QED
  BY <1>5, <1>6, <1>7

\* A request that is over is one of none.
LEMMA OverEdited ==
  ASSUME PageInv, PageInv', EditInv, NEW n \in 1..Len(posted), posted' = Page!RemoveAt(posted, n)
  PROVE  /\ PostsEdited'
         /\ (posted[n].gone \/ posted[n].left = {}) /\ UNCHANGED <<workspace, typed>>
              => SaveAwaited'
<1>1. /\ posted \in Seq(PostRow) /\ Len(posted) \in Nat
      /\ Len(posted') = Len(posted) - 1
      /\ \A m \in 1..(Len(posted) - 1) : posted'[m] = posted[IF m < n THEN m ELSE m + 1]
  BY RequestsUnderWay, Removed
<1>2. \A m \in 1..(Len(posted) - 1) : (IF m < n THEN m ELSE m + 1) \in 1..Len(posted)
  BY <1>1
<1>3. PostsEdited'
  <2>1. ASSUME NEW m \in 1..(Len(posted) - 1) PROVE PostEdited(posted'[m])
    <3>1. PICK k \in 1..Len(posted) : posted'[m] = posted[k]
      BY <1>1, <1>2
    <3> QED
      BY <3>1 DEF EditInv, PostsEdited
  <2> QED
    BY <1>1, <2>1 DEF PostsEdited, PostEdited
<1>4. ASSUME posted[n].gone \/ posted[n].left = {}, UNCHANGED <<workspace, typed>>
      PROVE  SaveAwaited'
  <2> DEFINE o == [m \in 1..(Len(posted) - 1) |-> IF m < n THEN m ELSE m + 1]
  <2>1. ASSUME NEW m \in 1..Len(posted'), Awaits(m)'
        PROVE  o[m] \in 1..Len(posted) /\ Awaits(o[m]) /\ posted'[m].subject = posted[o[m]].subject
    <3>1. m \in 1..(Len(posted) - 1)
      BY <1>1
    <3>2. o[m] = (IF m < n THEN m ELSE m + 1) /\ o[m] \in 1..Len(posted)
          /\ posted'[m] = posted[o[m]]
      BY <1>1, <1>2, <3>1
    <3>3. ASSUME NEW k \in (o[m] + 1)..Len(posted) PROVE posted[k].gone \/ posted[k].left = {}
      <4>1. CASE k = n
        BY <1>4, <4>1
      <4>2. CASE k < n
        <5>1. k \in (m + 1)..(Len(posted) - 1) /\ k \in 1..(Len(posted) - 1)
          BY <1>1, <3>1, <3>2, <4>2
        <5>2. posted'[k] = posted[k]
          BY <1>1, <4>2, <5>1
        <5> QED
          BY <1>1, <2>1, <5>1, <5>2 DEF Awaits
      <4>3. CASE k > n
        <5>1. k - 1 \in (m + 1)..(Len(posted) - 1) /\ k - 1 \in 1..(Len(posted) - 1)
              /\ ~(k - 1 < n) /\ (k - 1) + 1 = k
          BY <1>1, <3>1, <3>2, <4>3
        <5>2. posted'[k - 1] = posted[k]
          BY <1>1, <5>1
        <5> QED
          BY <1>1, <2>1, <5>1, <5>2 DEF Awaits
      <4> QED
        BY <1>1, <3>2, <4>1, <4>2, <4>3
    <3> HIDE DEF o
    <3> QED
      BY <1>4, <2>1, <3>2, <3>3 DEF Awaits
  <2> HIDE DEF o
  <2> QED
    BY <1>4, <2>1, StillAwaited
<1> QED
  BY <1>3, <1>4

\* The page as an answer leaves it does not save.
LEMMA AnsweredIdle ==
  ASSUME NEW r \in PostRow, PostEdited(r), r.kind \in {"load", "save", "export"}, NEW w \in r.base
  PROVE  /\ ~Page!Answered(r, w).saving
         /\ r.status = "refused" \/ r.kind = "export" => Page!Answered(r, w).shown = w.shown
         /\ r.status # "refused" /\ r.kind # "export" => Page!Answered(r, w).shown = r.answer
<1>1. w \in PageRow
  BY DEF PostRow
<1> DEFINE u == Page!Answered(r, w)
<1>2. CASE r.status = "refused"
  <2>1. u = [w EXCEPT !.loading = FALSE, !.saving = FALSE, !.error = TRUE]
    BY <1>2 DEF Page!Answered
  <2> HIDE DEF u
  <2>2. ~u.saving /\ u.shown = w.shown
    BY <1>1, <2>1 DEF PageRow
  <2> QED
    BY <1>2, <2>2 DEF u
<1>3. CASE r.status # "refused" /\ r.kind = "export"
  <2>1. u = w
    BY <1>3 DEF Page!Answered
  <2>2. ~w.saving
    BY <1>3 DEF PostEdited
  <2> QED
    BY <1>3, <2>1, <2>2
<1>4. CASE r.status # "refused" /\ r.kind # "export"
  <2>1. u = [w EXCEPT !.loading = FALSE, !.saving = FALSE, !.shown = r.answer]
    BY <1>4 DEF Page!Answered
  <2> HIDE DEF u
  <2>2. ~u.saving /\ u.shown = r.answer
    BY <1>1, <2>1 DEF PageRow
  <2> QED
    BY <1>4, <2>2 DEF u
<1> QED
  BY <1>2, <1>3, <1>4

\* The page as an answer leaves it.
AnswerPage(r) == {Page!Answered(r, w) : w \in r.base}

\* What an answer to a request that the page waits for does.
LEMMA AnswerShown ==
  ASSUME PageInv, EditInv, NEW n \in DOMAIN posted, Page!Receive(n), NEW r, r = posted[n],
         ~r.gone, r.kind \notin {"import", "publish"}
  PROVE  /\ Page!Show(AnswerPage(r), r.kind = "save" /\ r.status = "answered")
         /\ crossed' = (\/ crossed \/ workspace # r.left
                        \/ \E m \in (n + 1)..Len(posted) : posted[m].left # {})
         /\ r \in PostRow /\ PostEdited(r) /\ r.kind \in {"load", "save", "export"}
         /\ r.status # "sent"
<1>1. n \in 1..Len(posted) /\ r \in PostRow /\ PostEdited(r)
  BY RequestsUnderWay DEF EditInv, PostsEdited
<1>2. r.kind \in {"load", "save", "export"}
  BY <1>1 DEF PostRow
<1>3. r.status # "sent"
  BY DEF Page!Receive
<1>4. /\ Page!Show(AnswerPage(r), r.kind = "save" /\ r.status = "answered")
      /\ crossed' = (\/ crossed \/ workspace # r.left
                     \/ \E m \in (n + 1)..Len(posted) : posted[m].left # {})
  BY DEF Page!Receive, AnswerPage
<1> QED
  BY <1>1, <1>2, <1>3, <1>4

\* The page takes an answer.
LEMMA ReceiveEdited ==
  ASSUME PageInv, PageInv', EditInv, NEW n \in DOMAIN posted, Page!Receive(n)
  PROVE  EditInv'
<1>1. n \in 1..Len(posted) /\ posted' = Page!RemoveAt(posted, n)
  BY RequestsUnderWay DEF Page!Receive
<1>2. PICK r : r = posted[n]
  OBVIOUS
<1>3. PostsEdited' /\ PostEdited(r)
  BY <1>1, <1>2, OverEdited DEF EditInv, PostsEdited
<1>4. CASE r.gone \/ r.kind \in {"import", "publish"}
  <2>1. r.gone \/ r.left = {}
    BY <1>3, <1>4 DEF PostEdited
  <2>2. UNCHANGED <<workspace, typed>>
    BY <1>2, <1>4 DEF Page!Receive, Page!pageVars
  <2> QED
    BY <1>1, <1>2, <1>3, <2>1, <2>2, OverEdited DEF EditInv
<1>5. CASE ~r.gone /\ r.kind \notin {"import", "publish"}
  <2>1. /\ workspace' = AnswerPage(r)
        /\ r \in PostRow /\ r.kind \in {"load", "save", "export"}
    <3>1. /\ Page!Show(AnswerPage(r), r.kind = "save" /\ r.status = "answered")
          /\ r \in PostRow /\ r.kind \in {"load", "save", "export"}
      BY <1>2, <1>5, AnswerShown
    <3> QED
      BY <3>1 DEF Page!Show
  <2>2. \A u \in workspace' : ~u.saving
    BY <1>3, <2>1, AnsweredIdle DEF AnswerPage
  <2> QED
    BY <1>3, <2>2, NotSaving DEF EditInv
<1> QED
  BY <1>4, <1>5

\* What the page does other than leaving and taking an answer, which asks for
\* more or for as much.
LEMMA AskEdited ==
  ASSUME PageInv, PageInv', EditInv, [Page!WorkspaceNext]_pageVars,
         ~Page!LeavePage, ~(\E n \in DOMAIN posted : Page!Receive(n))
  PROVE  EditInv' /\ Len(posted') >= Len(posted)
<1>1. Len(posted) \in Nat
  BY RequestsUnderWay
<1>2. CASE UNCHANGED <<posted, workspace, typed>>
  BY <1>1, <1>2, EditKept
<1>3. CASE \E asset : Page!Load(asset)
  BY <1>1, <1>3, LoadEdited
<1>4. CASE UNCHANGED posted /\ Page!Show({}, TRUE)
  BY <1>1, <1>4, CloseEdited
<1>5. CASE Page!SaveTranscript
  BY <1>1, <1>5, SaveEdited
<1>6. CASE Page!ExportTranscript
  BY <1>1, <1>6, ExportEdited
<1>7. CASE \E i \in DOMAIN typed : Page!UpdateCue(i)
  BY <1>1, <1>7, TypingEdited
<1>8. CASE Page!QueuePublish \/ Page!ImportMedia
  BY <1>1, <1>8, BesideEdited
<1>9. CASE \E n \in DOMAIN posted : Page!Serve(n) \/ Page!Lose(n)
  BY <1>1, <1>9, ServeEdited
<1>10. CASE UNCHANGED pageVars
  BY <1>2, <1>10 DEF pageVars
<1>11. CASE Page!ReloadTranscript \/ \E asset \in Assets : Page!BeginTranscript(asset)
  BY <1>3, <1>11 DEF Page!ReloadTranscript, Page!BeginTranscript
<1>12. CASE Page!CloseTranscript \/ \E asset \in Assets : Page!BeginPublish(asset)
  BY <1>4, <1>12 DEF Page!CloseTranscript, Page!BeginPublish
<1>13. CASE Page!CancelPublish \/ Page!FollowLinkHere
  BY <1>2, <1>13 DEF Page!CancelPublish, Page!FollowLinkHere
<1>14. CASE \E id \in Page!Ids : Page!Generate(id) \/ Page!OtherSaves(id)
  BY <1>2, <1>14 DEF Page!Generate, Page!OtherSaves, Page!pageVars
<1> QED
  BY <1>5, <1>6, <1>7, <1>8, <1>9, <1>10, <1>11, <1>12, <1>13, <1>14 DEF Page!WorkspaceNext

\* Every step of the page or its server.
LEMMA EditStep ==
  ASSUME PageInv, PageInv', EditInv, [Page!WorkspaceNext]_pageVars
  PROVE  EditInv'
BY AskEdited, LeaveEdited, ReceiveEdited

\* An answer that comes to the page that asked for it discards no edits, but
\* when it says that they are stored.
LEMMA AnswerKeepsEdits ==
  ASSUME PageInv, EditInv, NEW n \in DOMAIN posted, Page!Receive(n),
         dirty, ~dirty', ~crossed, ~crossed'
  PROVE  \E w \in workspace' : \E s \in w.shown : Page!CuesOf(typed) = {s.cues}
<1>1. PICK r : r = posted[n]
  OBVIOUS
<1>2. ~r.gone /\ r.kind \notin {"import", "publish"}
  BY <1>1 DEF Page!Receive, Page!pageVars
<1>3. /\ Page!Show(AnswerPage(r), r.kind = "save" /\ r.status = "answered")
      /\ workspace = r.left /\ ~\E m \in (n + 1)..Len(posted) : posted[m].left # {}
      /\ r \in PostRow /\ PostEdited(r) /\ r.kind \in {"load", "save", "export"}
      /\ r.status # "sent"
  <2>1. /\ Page!Show(AnswerPage(r), r.kind = "save" /\ r.status = "answered")
        /\ crossed' = (\/ crossed \/ workspace # r.left
                       \/ \E m \in (n + 1)..Len(posted) : posted[m].left # {})
        /\ r \in PostRow /\ PostEdited(r) /\ r.kind \in {"load", "save", "export"}
        /\ r.status # "sent"
    BY <1>1, <1>2, AnswerShown
  <2>2. ~(\/ crossed \/ workspace # r.left
          \/ \E m \in (n + 1)..Len(posted) : posted[m].left # {})
    BY <2>1
  <2> QED
    BY <2>1, <2>2
<1>4. PICK u \in workspace : workspace = {u} /\ u.shown # {}
  BY DEF PageInv, DraftFollows, FairPage, AtMostOne
<1>5. r.kind \in {"save", "export"}
  BY <1>3, <1>4 DEF PostEdited
<1>6. PICK w \in r.base : r.base = {w} /\ u.shown = w.shown
  BY <1>3, <1>4, <1>5 DEF PostEdited
<1> DEFINE v == Page!Answered(r, w)
<1>7. /\ r.status = "refused" \/ r.kind = "export" => v.shown = w.shown
      /\ r.status # "refused" /\ r.kind # "export" => v.shown = r.answer
  BY <1>3, AnsweredIdle
<1>8. Page!Show({v}, r.kind = "save" /\ r.status = "answered")
  <2>1. AnswerPage(r) = {v}
    BY <1>6 DEF AnswerPage
  <2> QED
    BY <1>3, <2>1
<1> HIDE DEF v
<1>9. workspace' = {v}
  BY <1>8 DEF Page!Show
<1>10. v.shown # u.shown
  <2> SUFFICES ASSUME v.shown = u.shown PROVE FALSE
    OBVIOUS
  <2>1. Page!Key({v}) = Page!Key({u})
    BY DEF Page!Key
  <2>2. {v} # {} /\ workspace # {} /\ Page!Key({v}) = Page!Key(workspace)
    BY <1>4, <2>1
  <2> QED
    BY <1>8, <2>2 DEF Page!Show
<1>11. r.kind = "save" /\ r.status = "answered"
  BY <1>3, <1>5, <1>6, <1>7, <1>10 DEF PostRow
<1>12. v.shown = r.answer /\ r.answer # {} /\ \A s \in r.answer : s.cues = r.subject.cues
  BY <1>3, <1>7, <1>11 DEF PostEdited
<1>13. n \in 1..Len(posted) /\ Awaits(n)
  BY <1>1, <1>2, <1>3, <1>11, RequestsUnderWay DEF Awaits
<1>14. Page!CuesOf(typed) = {r.subject.cues}
  BY <1>1, <1>13 DEF EditInv, SaveAwaited
<1>15. PICK s \in v.shown : s.cues = r.subject.cues
  BY <1>12
<1> QED
  BY <1>9, <1>14, <1>15

\* Edits that a step discards were discarded after a warning, with the page, or
\* are stored.
LEMMA EditsGoAsked ==
  ASSUME PageInv, PageInv', EditInv, [Page!WorkspaceNext]_pageVars, dirty, ~dirty'
  PROVE  \/ crossed \/ crossed' \/ Page!Warned \/ Page!LeavePage
         \/ \E w \in workspace' : \E s \in w.shown : Page!CuesOf(typed) = {s.cues}
<1> SUFFICES ASSUME ~crossed, ~crossed', ~Page!LeavePage
             PROVE  \/ Page!Warned
                    \/ \E w \in workspace' : \E s \in w.shown : Page!CuesOf(typed) = {s.cues}
  OBVIOUS
<1>1. CASE \E n \in DOMAIN posted : Page!Receive(n)
  BY <1>1, AnswerKeepsEdits
<1>2. CASE ~\E n \in DOMAIN posted : Page!Receive(n)
  <2>1. Len(posted') >= Len(posted)
    BY <1>2, AskEdited
  <2>2. guarded
    BY DEF PageInv, UncrossedGuarded
  <2> QED
    BY <2>1, <2>2 DEF Page!Warned
<1> QED
  BY <1>1, <1>2

\* No request is under way.
LEMMA EditBegins == ASSUME Page!WorkspaceInit PROVE EditInv
<1>1. posted = <<>>
  BY DEF Page!WorkspaceInit
<1> QED
  BY <1>1, EmptySeq DEF EditInv, PostsEdited, SaveAwaited

-----------------------------------------------------------------------------
(* The three, in the server.                                               *)

\* A step of the server is one of these, or leaves them alone.
LEMMA RequestsApart ==
  ASSUME [ServicesNext]_servicesVars
  PROVE  [Api!ApiNext]_apiVars /\ [Jobs!PanelNext]_jobsVars /\ [Page!WorkspaceNext]_pageVars
BY DEF ServicesNext, Publish, Connect, Find, Deliver, Answer, Edit, Watch, servicesVars

RequestsInv == ApiInv /\ PanelInv /\ PageInv

\* The inductive invariant of the three holds (idempotent of api-v1.ts,
\* jobs-route.tsx, media-route.tsx and transcript-editor.tsx).
THEOREM RequestsInvariant == ServicesSpec => []RequestsInv
<1>1. ServicesInit => RequestsInv
  BY ApiBegins, PanelBegins, PageBegins DEF ServicesInit, RequestsInv
<1>2. RequestsInv /\ [ServicesNext]_servicesVars => RequestsInv'
  BY RequestsApart, ApiStep, PanelStep, PageStep DEF RequestsInv
<1> QED
  BY <1>1, <1>2, PTL DEF ServicesSpec

\* A request with an idempotency key is done once and answered with its own
\* work, unless a record could not be completed: then a create request is done
\* again, a publish key has one job per platform, and its answer may be of the
\* body sent before.  A key is pending only for a request under way, unless the
\* server died or could not release it (api-v1.ts, idempotent).  The details that the jobs page shows are those of the job
\* selected last, until a selection overtakes an answer (jobs-route.tsx).  A
\* save of the media page asks for what was edited and nothing else, and its
\* edits are discarded after a warning, until an answer comes to a page that
\* has changed (media-route.tsx, transcript-editor.tsx).
THEOREM RequestsHeld == ServicesSpec => []RequestsHold
<1>1. RequestsInv => RequestsHold
  BY ApiHolds, PanelHolds, PageHolds DEF RequestsInv, RequestsHold
<1> QED
  BY <1>1, RequestsInvariant, PTL

\* Edits of a transcript do not vanish unasked: the part of NothingForgotten
\* that is about the media page (media-route.tsx, transcript-editor.tsx).
THEOREM EditsKept == ServicesSpec => Page!EditsVanishAsked
<1> DEFINE Asked == dirty /\ ~dirty' =>
             \/ crossed \/ crossed' \/ Page!Warned \/ Page!LeavePage
             \/ \E w \in workspace' : \E s \in w.shown : Page!CuesOf(typed) = {s.cues}
<1>1. ServicesInit => EditInv
  BY EditBegins DEF ServicesInit
<1>2. RequestsInv /\ RequestsInv' /\ EditInv /\ [ServicesNext]_servicesVars
        => EditInv' /\ [Asked]_(Page!workspaceVars)
  BY RequestsApart, EditStep, EditsGoAsked DEF RequestsInv
<1> QED
  BY <1>1, <1>2, RequestsInvariant, PTL DEF ServicesSpec, Page!EditsVanishAsked

\* A publish job is as sound among the others (the four handlers).
LEMMA PublishingInvariant == ServicesSpec => []PublishInv
<1>1. ServicesInit => PublishInv
  BY PublishBegins DEF ServicesInit
<1>2. PublishInv /\ [ServicesNext]_servicesVars => PublishInv'
  <2>1. [ServicesNext]_servicesVars => [PublishNext]_allVars
    BY DEF ServicesNext, Publish, Connect, Find, Deliver, Answer, Edit, Watch, servicesVars
  <2> QED
    BY <2>1, PublishInvKept
<1> QED
  BY <1>1, <1>2, PTL DEF ServicesSpec

\* Every variable of the publishing, the connections, the webhooks, the API
\* and the two pages has its type, for every number of them.
THEOREM ServicesTyped == ServicesSpec => []ServicesTypeOK
<1>1. PublishInv => TypeOK
  BY DEF PublishInv
<1>2. ConnectionsInv => /\ Accounts!AccountTypeOK
                        /\ Targets!TargetsTypeOK
                        /\ Webhooks!WebhookTypeOK
  BY DEF ConnectionsInv, AccountInv, TargetsInv, WebhookInv
<1>3. RequestsInv => Api!ApiTypeOK /\ Page!WorkspaceTypeOK /\ Jobs!PanelTypeOK
  BY PageTyped, PanelHolds DEF RequestsInv, ApiInv
<1>4. PublishInv /\ ConnectionsInv /\ RequestsInv => ServicesTypeOK
  BY <1>1, <1>2, <1>3 DEF ServicesTypeOK
<1> QED
  BY <1>4, PublishingInvariant, ConnectionsInvariant, RequestsInvariant, PTL
=============================================================================
