------------------------- MODULE ConnectionsProofs --------------------------
(***************************************************************************)
(* Theorems about the connections to other services, for every number of   *)
(* operations, requests, accounts, targets, destinations and crashes: a    *)
(* callback is answered once, a request that can come back has its PKCE    *)
(* verifier, a connected youtube account has its token, what the operator  *)
(* switched off stays off, a delivery that is a success was accepted, and  *)
(* a destination that may be sent to has its key.                          *)
(***************************************************************************)
EXTENDS MCServices, FiniteSetTheorems, TLAPS

-----------------------------------------------------------------------------
(* Accounts.                                                               *)

\* Operations that hold a request nobody else may answer.
Holding == {"begin", "consumed", "exchange", "store", "cleanup"}
Holds(s) == flow[s].op \in Holding

\* Every authorization request is open or held by one operation, under an id of
\* its own; one that is open has its verifier.
RequestInv ==
  /\ \A r \in requests : r.id <= begun
  /\ \A r, q \in requests : r.id = q.id => r = q
  /\ \A s \in Slots : Holds(s) =>
       /\ flow[s].request <= begun
       /\ \A r \in requests : r.id # flow[s].request
       /\ \A t \in Slots : Holds(t) /\ flow[t].request = flow[s].request => t = s
  /\ Accounts!LiveRequestHasVerifier

\* Account i of p has a row, or an operation works with it.
Named(p, i) ==
  \/ connection[p].id = i
  \/ \E s \in Slots : flow[s].op # "idle" /\ flow[s].provider = p /\ flow[s].account = i

\* An account id belongs to one provider for ever.
IdInv ==
  \A p \in Accounts!Providers, i \in 1..IdBound :
    Named(p, i) => i <= ids /\ \A q \in Accounts!Providers : Named(q, i) => q = p

\* Only twitch validates, only tiktok asks for the creator, and an account that
\* stores its token is there.
FlowInv ==
  \A s \in Slots :
    /\ flow[s].op = "validate" => flow[s].provider = "twitch"
    /\ flow[s].op = "creator" => flow[s].provider = "tiktok"
    /\ flow[s].op = "store" => flow[s].account # 0

\* A connected youtube account without its token is about to get it, or to be
\* removed.
TokenInv ==
  serverCrashes = 0 /\ connection["youtube"].status = "connected" =>
    \/ connection["youtube"].id \in tokens
    \/ \E s \in Slots : /\ flow[s].op \in {"store", "remove"} /\ flow[s].provider = "youtube"
                        /\ flow[s].account = connection["youtube"].id

AccountInv == Accounts!AccountTypeOK /\ RequestInv /\ IdInv /\ FlowInv /\ TokenInv

AccountRow ==
  [id : 0..IdBound, status : {"none", "connected", "reauthorization_required"}]

\* No account is connected yet.
LEMMA AccountsBegin == Accounts!AccountInit => AccountInv
<1> SUFFICES ASSUME Accounts!AccountInit PROVE AccountInv
  OBVIOUS
<1>1. 0 \in 0..IdBound /\ 0 \in 0..RequestBound /\ 0 \in 0..AccountCrashBound
  BY AccountAssumption
<1>2. \A s \in Slots : flow[s].op = "idle"
  BY DEF Accounts!AccountInit, Accounts!Idle
<1>3. \A p \in Accounts!Providers : connection[p].id = 0 /\ connection[p].status = "none"
  BY DEF Accounts!AccountInit, Accounts!NoAccount
<1>4. Accounts!AccountTypeOK
  BY <1>1 DEF Accounts!AccountInit, Accounts!AccountTypeOK, Accounts!NoAccount
<1>5. RequestInv
  BY <1>2 DEF Accounts!AccountInit, RequestInv, Holds, Holding, Accounts!LiveRequestHasVerifier
<1>6. IdInv
  BY <1>2, <1>3, AccountAssumption DEF IdInv, Named
<1>7. FlowInv /\ TokenInv
  BY <1>2, <1>3 DEF FlowInv, TokenInv, Accounts!Providers
<1> QED
  BY <1>4, <1>5, <1>6, <1>7 DEF AccountInv

\* What an operation is.
LEMMA FlowRows ==
  ASSUME Accounts!AccountTypeOK, NEW s \in Slots
  PROVE  /\ flow[s] = Accounts!Idle <=> flow[s].op = "idle"
         /\ flow[s].op # "idle" => flow[s].provider \in Accounts!Providers
         /\ Holds(s) => flow[s] \in [op : Holding, provider : Accounts!Providers,
                                     request : 1..RequestBound, account : 0..IdBound]
         /\ flow[s].op # "idle" /\ ~Holds(s) =>
              flow[s] \in [op : {"refresh", "validate", "creator", "remove"},
                           provider : Accounts!Providers, account : 1..IdBound]
BY DEF Accounts!AccountTypeOK, Accounts!Operation, Accounts!Idle, Holds, Holding

\* An operation that goes on with its request, or ends, leaves the requests as
\* they are; it may delete the verifier of its own.
LEMMA RequestsKept ==
  ASSUME AccountInv, NEW s \in Slots, NEW row,
         flow' = [flow EXCEPT ![s] = row],
         row.op \in Holding => Holds(s) /\ row.request = flow[s].request,
         UNCHANGED <<requests, begun>>,
         verifiers' = verifiers \/ (Holds(s) /\ verifiers' = verifiers \ {flow[s].request})
  PROVE  RequestInv'
<1>1. flow'[s] = row /\ \A t \in Slots \ {s} : flow'[t] = flow[t]
  BY DEF AccountInv, Accounts!AccountTypeOK
<1>2. Accounts!LiveRequestHasVerifier'
  BY DEF AccountInv, RequestInv, Accounts!LiveRequestHasVerifier
<1> QED
  BY <1>1, <1>2 DEF AccountInv, RequestInv, Holds

\* Steps that give no account id.
LEMMA IdsKept ==
  ASSUME AccountInv, NEW s \in Slots, NEW row,
         flow' = [flow EXCEPT ![s] = row],
         row.op # "idle" => row.account = 0 \/ Named(row.provider, row.account),
         \A p \in Accounts!Providers :
           connection'[p].id = 0 \/ Named(p, connection'[p].id),
         ids' = ids
  PROVE  IdInv'
<1>1. flow'[s] = row /\ \A t \in Slots \ {s} : flow'[t] = flow[t]
  BY DEF AccountInv, Accounts!AccountTypeOK
<1>2. \A p \in Accounts!Providers, i \in 1..IdBound : Named(p, i)' => Named(p, i)
  BY <1>1, AccountAssumption DEF Named
<1> QED
  BY <1>2 DEF AccountInv, IdInv

\* An operation that stores no token and removes no row any more.
LEMMA TokenKept ==
  ASSUME AccountInv, NEW s \in Slots, NEW row,
         flow' = [flow EXCEPT ![s] = row],
         flow[s].op \notin {"store", "remove"} \/ flow[s].provider # "youtube",
         connection'["youtube"] = connection["youtube"],
         tokens \subseteq tokens', serverCrashes' = serverCrashes
  PROVE  TokenInv'
<1>1. flow'[s] = row /\ \A t \in Slots \ {s} : flow'[t] = flow[t]
  BY DEF AccountInv, Accounts!AccountTypeOK
<1> QED
  BY <1>1 DEF AccountInv, TokenInv

\* Only the row of its own provider is marked, or written back.
LEMMA Marked ==
  ASSUME AccountInv, NEW p \in Accounts!Providers, NEW i,
         connection' = Accounts!Flagged(p, i)
  PROVE  /\ connection' \in [Accounts!Providers -> AccountRow]
         /\ \A q \in Accounts!Providers : connection'[q].id = connection[q].id
         /\ \A q \in Accounts!Providers \ {p} : connection'[q] = connection[q]
         /\ connection'[p] = connection[p] \/ connection'[p].status # "connected"
         /\ connection[p].id = i /\ i # 0 => connection'[p].status # "connected"
<1> DEFINE new == [connection[p] EXCEPT !.status = "reauthorization_required"]
<1>1. /\ connection \in [Accounts!Providers -> AccountRow] /\ new \in AccountRow
      /\ new.id = connection[p].id /\ new.status # "connected"
  BY DEF AccountInv, Accounts!AccountTypeOK, AccountRow
<1>2. connection' = IF connection[p].id = i /\ i # 0 THEN [connection EXCEPT ![p] = new]
                    ELSE connection
  BY DEF Accounts!Flagged
<1> HIDE DEF new
<1> QED
  BY <1>1, <1>2

\* The row that is written back is that of its own provider.
LEMMA WrittenBack ==
  ASSUME AccountInv, NEW p \in Accounts!Providers, NEW i \in 1..IdBound,
         connection' = Accounts!Upserted(p, i)
  PROVE  /\ connection' \in [Accounts!Providers -> AccountRow]
         /\ \A q \in Accounts!Providers \ {p} : connection'[q] = connection[q]
         /\ connection'[p].id = IF connection[p].id = 0 THEN i ELSE connection[p].id
<1> DEFINE new == [id |-> IF connection[p].id = 0 THEN i ELSE connection[p].id,
                   status |-> "connected"]
<1>1. /\ connection \in [Accounts!Providers -> AccountRow] /\ new \in AccountRow
      /\ new.id = IF connection[p].id = 0 THEN i ELSE connection[p].id
  BY DEF AccountInv, Accounts!AccountTypeOK, AccountRow
<1>2. connection' = [connection EXCEPT ![p] = new]
  BY DEF Accounts!Upserted
<1> HIDE DEF new
<1> QED
  BY <1>1, <1>2

\* An operation goes on as one that it may become.
LEMMA FlowKept ==
  ASSUME AccountInv, NEW s \in Slots, NEW row \in {Accounts!Idle} \cup Accounts!Operation,
         flow' = [flow EXCEPT ![s] = row],
         row.op = "validate" => row.provider = "twitch",
         row.op = "creator" => row.provider = "tiktok",
         row.op = "store" => row.account # 0
  PROVE  flow' \in [Slots -> {Accounts!Idle} \cup Accounts!Operation] /\ FlowInv'
<1>1. flow'[s] = row /\ \A t \in Slots \ {s} : flow'[t] = flow[t]
  BY DEF AccountInv, Accounts!AccountTypeOK
<1> QED
  BY <1>1 DEF AccountInv, FlowInv, Accounts!AccountTypeOK

\* The callback, from the request to its cleanup.
LEMMA CallbackStep ==
  ASSUME AccountInv, NEW s \in Slots,
         \/ Accounts!ReadVerifier(s) \/ Accounts!ExchangeFailed(s)
         \/ Accounts!StoreToken(s) \/ Accounts!Cleanup(s)
  PROVE  AccountInv'
<1> DEFINE f == flow[s]
           Row(op) == [f EXCEPT !.op = op]
           p == f.provider
<1>1. /\ Holds(s) /\ p \in Accounts!Providers /\ f.op # "begin"
      /\ f \in [op : Holding, provider : Accounts!Providers,
                request : 1..RequestBound, account : 0..IdBound]
      /\ UNCHANGED <<active, requests, begun, ids, serverCrashes>>
  BY FlowRows
  DEF AccountInv, Holds, Holding, Accounts!ReadVerifier, Accounts!ExchangeFailed,
      Accounts!StoreToken, Accounts!Cleanup
<1>2. PICK row \in {Accounts!Idle, Row("exchange"), Row("cleanup")} :
        flow' = [flow EXCEPT ![s] = row]
  BY DEF Accounts!ReadVerifier, Accounts!ExchangeFailed, Accounts!StoreToken, Accounts!Cleanup,
         Accounts!Done, Accounts!Goes
<1>3. /\ row \in {Accounts!Idle} \cup Accounts!Operation
      /\ row.op \in {"idle", "exchange", "cleanup"}
      /\ row.op # "idle" => /\ row.provider = p /\ row.account = f.account
                            /\ row.request = f.request
  BY <1>1, <1>2 DEF Accounts!Idle, Accounts!Operation, Holding
<1>4. verifiers' = verifiers \/ verifiers' = verifiers \ {f.request}
  BY DEF Accounts!ReadVerifier, Accounts!ExchangeFailed, Accounts!StoreToken, Accounts!Cleanup
<1>5. \/ UNCHANGED <<connection, tokens>>
      \/ /\ f.op = "store" /\ tokens' = tokens \cup {f.account} /\ connection' = connection
      \/ /\ f.op = "store" /\ tokens' = tokens
         /\ connection' = IF Accounts!Completes(p).marks
                          THEN Accounts!Flagged(p, f.account) ELSE connection
  BY DEF Accounts!ReadVerifier, Accounts!ExchangeFailed, Accounts!StoreToken, Accounts!Cleanup
<1>6. /\ connection' \in [Accounts!Providers -> AccountRow]
      /\ \A q \in Accounts!Providers : connection'[q].id = connection[q].id
      /\ \A q \in Accounts!Providers \ {p} : connection'[q] = connection[q]
  BY <1>1, <1>5, Marked DEF AccountInv, Accounts!AccountTypeOK, AccountRow
<1>7. tokens' \subseteq 1..IdBound /\ verifiers' \subseteq 1..RequestBound
  BY <1>1, <1>4, <1>5 DEF AccountInv, FlowInv, Accounts!AccountTypeOK
<1>8. f.op # "idle"
  BY <1>1 DEF Holding
<1> HIDE DEF Row
<1>9. RequestInv'
  BY <1>1, <1>2, <1>3, <1>4, RequestsKept DEF Holding
<1>10. IdInv'
  <2>1. Named(p, f.account)
    BY <1>8 DEF Named
  <2>2. \A q \in Accounts!Providers : Named(q, connection'[q].id)
    BY <1>6 DEF Named
  <2> QED
    BY <1>1, <1>2, <1>3, <2>1, <2>2, IdsKept
<1>11. TokenInv'
  <2>1. CASE f.op # "store" \/ p # "youtube"
    <3>1. connection'["youtube"] = connection["youtube"] /\ tokens \subseteq tokens'
      BY <1>5, <1>6, <2>1 DEF Accounts!Providers
    <3>2. f.op # "remove"
      BY <1>1 DEF Holding
    <3> QED
      BY <1>1, <1>2, <2>1, <3>1, <3>2, TokenKept
  <2>2. CASE f.op = "store" /\ p = "youtube"
    <3>1. \/ f.account \in tokens' /\ connection' = connection /\ tokens \subseteq tokens'
          \/ connection' = Accounts!Flagged(p, f.account) /\ tokens' = tokens
      BY <1>5, <2>2, <1>7, <1>3 DEF Accounts!Completes, Accounts!YouTubeCompletes,
         Accounts!ReadVerifier, Accounts!ExchangeFailed, Accounts!StoreToken, Accounts!Cleanup
    <3>2. f.account # 0
      BY <2>2 DEF AccountInv, FlowInv
    <3>3. flow'[s] = row /\ \A t \in Slots \ {s} : flow'[t] = flow[t]
      BY <1>2 DEF AccountInv, Accounts!AccountTypeOK
    <3> QED
      BY <1>1, <2>2, <3>1, <3>2, <3>3, Marked DEF AccountInv, TokenInv
  <2> QED
    BY <2>1, <2>2
<1> QED
  BY <1>1, <1>2, <1>3, <1>6, <1>7, <1>9, <1>10, <1>11, FlowKept
  DEF AccountInv, Accounts!AccountTypeOK, AccountRow

\* The operation that goes on to store the token of account id.
LEMMA Stored ==
  ASSUME NEW f \in [op : Holding, provider : Accounts!Providers,
                    request : 1..RequestBound, account : 0..IdBound],
         NEW id \in 1..IdBound
  PROVE  LET row == [f EXCEPT !.op = "store", !.account = id]
         IN  /\ row \in {Accounts!Idle} \cup Accounts!Operation
             /\ row.op = "store" /\ row.provider = f.provider
             /\ row.account = id /\ row.request = f.request
<1> DEFINE row == [f EXCEPT !.op = "store", !.account = id]
<1>1. /\ row.op = "store" /\ row.provider = f.provider
      /\ row.account = id /\ row.request = f.request
  OBVIOUS
<1>2. id \in 0..IdBound
  BY AccountAssumption
<1>3. row \in [op : {"begin", "consumed", "exchange", "store", "cleanup"},
               provider : Accounts!Providers, request : 1..RequestBound, account : 0..IdBound]
  BY <1>2 DEF Holding
<1> QED
  BY <1>1, <1>3 DEF Accounts!Operation

\* The identity of the account is known: its row is written.
LEMMA ExchangedStep == ASSUME AccountInv, NEW s \in Slots, Accounts!Exchanged(s) PROVE AccountInv'
<1> DEFINE f == flow[s]
           p == f.provider
           id == connection'[p].id
           row == [f EXCEPT !.op = "store", !.account = id]
<1>1. /\ f.op = "exchange" /\ Holds(s) /\ p \in Accounts!Providers
      /\ f \in [op : Holding, provider : Accounts!Providers,
                request : 1..RequestBound, account : 0..IdBound]
      /\ UNCHANGED <<active, tokens, requests, verifiers, begun, serverCrashes>>
  BY FlowRows DEF AccountInv, Holds, Holding, Accounts!Exchanged
<1>2. /\ ids \in 0..IdBound /\ ids + 1 \in 1..IdBound
      /\ connection' = Accounts!Upserted(p, ids + 1)
      /\ ids' = IF connection[p].id = 0 THEN ids + 1 ELSE ids
  BY AccountAssumption DEF Accounts!Exchanged, AccountInv, Accounts!AccountTypeOK
<1>3. /\ connection' \in [Accounts!Providers -> AccountRow]
      /\ \A q \in Accounts!Providers \ {p} : connection'[q] = connection[q]
      /\ id = IF connection[p].id = 0 THEN ids + 1 ELSE connection[p].id
  BY <1>1, <1>2, WrittenBack
<1>4. id \in 1..IdBound /\ ids' \in 0..IdBound /\ ids <= ids'
  BY <1>1, <1>2, <1>3 DEF AccountInv, Accounts!AccountTypeOK, AccountRow
<1>5. flow' = [flow EXCEPT ![s] = row]
  BY <1>1 DEF Accounts!Exchanged, AccountInv, Accounts!AccountTypeOK
<1>6. /\ row \in {Accounts!Idle} \cup Accounts!Operation
      /\ row.op = "store" /\ row.provider = p /\ row.account = id /\ row.request = f.request
  BY <1>1, <1>4, Stored
<1> HIDE DEF row
<1>7. flow'[s] = row /\ \A t \in Slots \ {s} : flow'[t] = flow[t]
  BY <1>5 DEF AccountInv, Accounts!AccountTypeOK
<1>8. RequestInv'
  BY <1>1, <1>5, <1>6, RequestsKept
<1>9. IdInv'
  <2>1. ASSUME NEW q \in Accounts!Providers, NEW i \in 1..IdBound, Named(q, i)'
        PROVE  Named(q, i) \/ (i = ids + 1 /\ q = p /\ ids' = ids + 1)
    <3>1. CASE connection'[q].id = i
      BY <1>2, <1>3, <2>1, <3>1 DEF Named
    <3>2. ASSUME NEW t \in Slots, flow'[t].op # "idle", flow'[t].provider = q, flow'[t].account = i
          PROVE  Named(q, i) \/ (i = ids + 1 /\ q = p /\ ids' = ids + 1)
      <4>1. CASE t = s
        BY <1>2, <1>3, <1>6, <1>7, <2>1, <3>2, <4>1 DEF Named
      <4>2. CASE t # s
        BY <1>7, <3>2, <4>2 DEF Named
      <4> QED
        BY <4>1, <4>2
    <3> QED
      BY <2>1, <3>1, <3>2 DEF Named
  <2>2. ~\E q \in Accounts!Providers : Named(q, ids + 1)
    BY <1>2 DEF AccountInv, IdInv
  <2>3. \A q \in Accounts!Providers, i \in 1..IdBound : Named(q, i) => i <= ids
    BY DEF AccountInv, IdInv
  <2>4. SUFFICES ASSUME NEW q \in Accounts!Providers, NEW i \in 1..IdBound, Named(q, i)'
                 PROVE  i <= ids' /\ \A r \in Accounts!Providers : Named(r, i)' => r = q
    BY DEF IdInv
  <2>5. i <= ids'
    BY <1>2, <1>4, <2>1, <2>3, <2>4
  <2>6. ASSUME NEW r \in Accounts!Providers, Named(r, i)' PROVE r = q
    BY <2>1, <2>2, <2>4, <2>6 DEF AccountInv, IdInv
  <2> QED
    BY <2>5, <2>6
<1>10. TokenInv'
  <2>1. CASE p = "youtube"
    BY <1>6, <1>7, <2>1 DEF TokenInv
  <2>2. CASE p # "youtube"
    BY <1>1, <1>3, <1>5, <2>2, TokenKept DEF Accounts!Providers
  <2> QED
    BY <2>1, <2>2
<1>11. flow' \in [Slots -> {Accounts!Idle} \cup Accounts!Operation] /\ FlowInv'
  <2>1. id # 0
    BY <1>4, AccountAssumption
  <2> HIDE DEF id, f, p
  <2> QED
    BY <1>5, <1>6, <2>1, FlowKept
<1> HIDE DEF id, f, p
<1>12. Accounts!AccountTypeOK'
  BY <1>1, <1>3, <1>4, <1>11 DEF AccountInv, Accounts!AccountTypeOK, AccountRow
<1> QED
  BY <1>8, <1>9, <1>10, <1>11, <1>12 DEF AccountInv

\* A refresh, the question for the creator, the removal of the row: they end,
\* or twitch goes on to validate.
LEMMA TokenStep ==
  ASSUME AccountInv, NEW s \in Slots,
         \/ Accounts!Refreshed(s) \/ Accounts!Validated(s) \/ Accounts!RefreshFailed(s)
         \/ Accounts!CreatorAnswered(s) \/ Accounts!RemoveRow(s)
  PROVE  AccountInv'
<1> DEFINE f == flow[s]
           p == f.provider
<1>1. /\ f.op \in {"refresh", "validate", "creator", "remove"} /\ ~Holds(s)
      /\ p \in Accounts!Providers /\ f.account \in 1..IdBound /\ f.op # "idle"
      /\ f \in [op : {"refresh", "validate", "creator", "remove"},
                provider : Accounts!Providers, account : 1..IdBound]
      /\ UNCHANGED <<active, requests, verifiers, begun, ids, serverCrashes>>
  BY FlowRows
  DEF AccountInv, Holds, Holding, Accounts!Refreshed, Accounts!Validated, Accounts!RefreshFailed,
      Accounts!CreatorAnswered, Accounts!RemoveRow
<1>2. PICK row \in {Accounts!Idle, [f EXCEPT !.op = "validate"]} :
        /\ flow' = [flow EXCEPT ![s] = row]
        /\ row = Accounts!Idle \/ p = "twitch"
  BY DEF Accounts!Refreshed, Accounts!Validated, Accounts!RefreshFailed,
         Accounts!CreatorAnswered, Accounts!RemoveRow, Accounts!Done, Accounts!Goes
<1>3. /\ row \in {Accounts!Idle} \cup Accounts!Operation
      /\ row.op \in {"idle", "validate"}
      /\ row.op # "idle" => row.provider = p /\ row.account = f.account
  BY <1>1, <1>2 DEF Accounts!Idle, Accounts!Operation
<1>4. tokens' = tokens \/ tokens' = tokens \cup {f.account}
  BY DEF Accounts!Refreshed, Accounts!Validated, Accounts!RefreshFailed,
         Accounts!CreatorAnswered, Accounts!RemoveRow
<1>5. \/ connection' = connection
      \/ connection' = Accounts!Upserted(p, f.account) /\ p # "youtube"
      \/ connection' = Accounts!Flagged(p, f.account)
      \/ /\ f.op = "remove" /\ connection[p].id = f.account
         /\ connection' = [connection EXCEPT ![p] = Accounts!NoAccount]
  <2>1. CASE Accounts!Refreshed(s)
    BY <2>1 DEF Accounts!Refreshed, Accounts!Refresh, Accounts!YouTubeRefresh
  <2>2. CASE Accounts!Validated(s)
    BY <2>2 DEF Accounts!Validated, AccountInv, FlowInv
  <2>3. CASE Accounts!RefreshFailed(s)
    BY <2>3 DEF Accounts!RefreshFailed
  <2>4. CASE Accounts!CreatorAnswered(s)
    BY <2>4 DEF Accounts!CreatorAnswered, AccountInv, FlowInv
  <2>5. CASE Accounts!RemoveRow(s)
    BY <2>5 DEF Accounts!RemoveRow
  <2> QED
    BY <2>1, <2>2, <2>3, <2>4, <2>5
<1>6. f.op = "remove" /\ p = "youtube" =>
        \/ connection' = connection /\ connection[p].id # f.account
        \/ connection'[p].status # "connected"
  BY <1>1 DEF Accounts!Refreshed, Accounts!Validated, Accounts!RefreshFailed,
              Accounts!CreatorAnswered, Accounts!RemoveRow, Accounts!NoAccount,
              AccountInv, Accounts!AccountTypeOK
<1>7. /\ connection' \in [Accounts!Providers -> AccountRow]
      /\ \A q \in Accounts!Providers \ {p} : connection'[q] = connection[q]
      /\ connection'[p].id \in {0, connection[p].id, f.account}
  <2>1. /\ connection \in [Accounts!Providers -> AccountRow] /\ Accounts!NoAccount \in AccountRow
        /\ Accounts!NoAccount.id = 0
    BY AccountAssumption DEF AccountInv, Accounts!AccountTypeOK, AccountRow, Accounts!NoAccount
  <2>2. CASE connection' = connection
    BY <2>1, <2>2
  <2>3. CASE connection' = Accounts!Upserted(p, f.account)
    BY <1>1, <2>3, WrittenBack
  <2>4. CASE connection' = Accounts!Flagged(p, f.account)
    BY <1>1, <2>4, Marked
  <2>5. CASE connection' = [connection EXCEPT ![p] = Accounts!NoAccount]
    BY <1>1, <2>1, <2>5
  <2> QED
    BY <1>5, <2>2, <2>3, <2>4, <2>5
<1>8. p = "youtube" => connection'[p] = connection[p] \/ connection'[p].status # "connected"
  BY <1>1, <1>5, Marked DEF AccountInv, Accounts!AccountTypeOK, Accounts!NoAccount
<1>9. RequestInv'
  BY <1>1, <1>2, <1>3, RequestsKept DEF Holding
<1>10. IdInv'
  <2>1. Named(p, f.account) /\ \A q \in Accounts!Providers : Named(q, connection[q].id)
    BY <1>1 DEF Named
  <2> QED
    BY <1>1, <1>2, <1>3, <1>7, <2>1, IdsKept
<1>11. TokenInv'
  <2> SUFFICES ASSUME connection'["youtube"].status = "connected", serverCrashes = 0
               PROVE  TokenInv'
    BY <1>1 DEF TokenInv
  <2>1. connection'["youtube"] = connection["youtube"]
    BY <1>7, <1>8 DEF Accounts!Providers
  <2>2. flow'[s] = row /\ \A t \in Slots \ {s} : flow'[t] = flow[t]
    BY <1>2 DEF AccountInv, Accounts!AccountTypeOK
  <2>3. f.op = "remove" /\ p = "youtube" => connection["youtube"].id # f.account
    BY <1>6, <2>1
  <2> QED
    BY <1>1, <1>4, <2>1, <2>2, <2>3 DEF AccountInv, TokenInv
<1>12. flow' \in [Slots -> {Accounts!Idle} \cup Accounts!Operation] /\ FlowInv'
  <2>1. /\ row.op = "validate" => row.provider = "twitch"
        /\ row.op # "creator" /\ row.op # "store"
    BY <1>2, <1>3 DEF Accounts!Idle
  <2> QED
    BY <1>2, <1>3, <2>1, FlowKept
<1>13. Accounts!AccountTypeOK'
  <2>1. tokens' \subseteq 1..IdBound
    BY <1>1, <1>4 DEF AccountInv, Accounts!AccountTypeOK
  <2> QED
    BY <1>1, <1>7, <1>12, <2>1 DEF AccountInv, Accounts!AccountTypeOK, AccountRow
<1> QED
  BY <1>9, <1>10, <1>11, <1>12, <1>13 DEF AccountInv

\* A request is begun: the ids of the open ones are below the new one.
LEMMA BeginStep ==
  ASSUME AccountInv, NEW s \in Slots, NEW p \in Accounts!Providers, Accounts!Begin(s, p)
  PROVE  AccountInv'
<1> DEFINE new == [id |-> begun + 1, provider |-> p, expired |-> FALSE]
           held == [op |-> "begin", provider |-> p, request |-> begun + 1, account |-> 0]
<1>1. /\ flow[s].op = "idle" /\ begun' = begun + 1
      /\ begun \in 0..RequestBound /\ begun + 1 \in 1..RequestBound /\ begun' \in 0..RequestBound
      /\ UNCHANGED <<active, connection, tokens, ids, serverCrashes>>
  BY AccountAssumption
  DEF Accounts!Begin, Accounts!Idle, AccountInv, Accounts!AccountTypeOK
<1>2. /\ verifiers' \subseteq verifiers
      /\ \A v \in verifiers \ verifiers' : \E x \in requests : x.expired /\ x.id = v
  BY DEF Accounts!Begin, Accounts!Expired
<1>3. \/ /\ flow' = flow /\ p \notin Accounts!Verifying
         /\ requests' = (requests \ Accounts!Expired) \cup {new}
      \/ flow' = [flow EXCEPT ![s] = held] /\ requests' = requests \ Accounts!Expired
  BY DEF Accounts!Begin
<1>4. /\ new \in Accounts!Request /\ new.id = begun + 1 /\ new.provider = p
      /\ held \in Accounts!Operation /\ held.op = "begin" /\ held.provider = p
      /\ held.request = begun + 1 /\ held.account = 0
  BY <1>1, AccountAssumption DEF Accounts!Request, Accounts!Operation
<1>5. requests' \subseteq requests \cup {new} /\ \A r \in requests' \ {new} : ~r.expired
  BY <1>3 DEF Accounts!Expired
<1>6. requests' \subseteq Accounts!Request /\ verifiers' \subseteq 1..RequestBound
  BY <1>2, <1>4, <1>5 DEF AccountInv, Accounts!AccountTypeOK
<1> HIDE DEF new, held
<1>7. Accounts!LiveRequestHasVerifier'
  <2> SUFFICES ASSUME NEW r \in requests', r.provider \in Accounts!Verifying
               PROVE  r.id \in verifiers'
    BY DEF Accounts!LiveRequestHasVerifier
  <2>1. CASE r = new
    BY <1>1, <1>3, <1>4, <1>5, <2>1 DEF AccountInv, RequestInv, Accounts!Expired
  <2>2. CASE r # new
    <3>1. r \in requests /\ ~r.expired /\ r.id \in verifiers
      BY <1>5, <2>2 DEF AccountInv, RequestInv, Accounts!LiveRequestHasVerifier
    <3> QED
      BY <1>2, <3>1 DEF AccountInv, RequestInv
  <2> QED
    BY <2>1, <2>2
<1>8. \A r \in requests : r.id <= begun /\ r.id # begun + 1
  <2>1. \A r \in requests : r.id \in 1..RequestBound
    BY DEF AccountInv, Accounts!AccountTypeOK, Accounts!Request
  <2> QED
    BY <1>1, <2>1, AccountAssumption DEF AccountInv, RequestInv
<1>9. \A t \in Slots : Holds(t) => /\ flow[t].request <= begun /\ flow[t].request # begun + 1
                                   /\ flow[t].request \in 1..RequestBound /\ t # s
  <2> SUFFICES ASSUME NEW t \in Slots, Holds(t)
               PROVE  /\ flow[t].request <= begun /\ flow[t].request # begun + 1
                      /\ flow[t].request \in 1..RequestBound /\ t # s
    OBVIOUS
  <2>1. flow[t].request \in 1..RequestBound /\ flow[t].request <= begun
    BY FlowRows DEF AccountInv, RequestInv
  <2>2. t # s
    BY <1>1 DEF Holds, Holding
  <2> QED
    BY <1>1, <2>1, <2>2, AccountAssumption
<1>10. \A t \in Slots : /\ t # s => flow'[t] = flow[t]
                        /\ flow'[s] = IF flow' = flow THEN flow[s] ELSE held
  BY <1>3 DEF AccountInv, Accounts!AccountTypeOK
<1>11. \A r \in requests' : r.id <= begun' /\ \A q \in requests' : r.id = q.id => r = q
  <2>1. \A r \in requests : r.id \in 1..RequestBound
    BY DEF AccountInv, Accounts!AccountTypeOK, Accounts!Request
  <2> QED
    BY <1>1, <1>4, <1>5, <1>8, <2>1, AccountAssumption DEF AccountInv, RequestInv
<1>12. ASSUME NEW t \in Slots, Holds(t)'
       PROVE  /\ flow'[t].request <= begun'
              /\ \A r \in requests' : r.id # flow'[t].request
              /\ \A u \in Slots : Holds(u)' /\ flow'[u].request = flow'[t].request => u = t
  <2>0. Holds(t)' /\ t \in Slots
    BY <1>12
  <2>1. CASE flow' = flow
    <3>1. Holds(t) /\ flow'[t] = flow[t]
      BY <2>0, <2>1 DEF Holds
    <3>2. flow[t].request <= begun'
      BY <1>1, <1>9, <3>1, AccountAssumption
    <3>3. \A r \in requests' : r.id # flow[t].request
      BY <1>4, <1>5, <1>9, <3>1 DEF AccountInv, RequestInv
    <3> QED
      BY <2>1, <3>1, <3>2, <3>3 DEF Holds, AccountInv, RequestInv
  <2>2. CASE flow' = [flow EXCEPT ![s] = held] /\ requests' = requests \ Accounts!Expired
    <3>1. flow'[s] = held /\ \A u \in Slots \ {s} : flow'[u] = flow[u]
      BY <2>2 DEF AccountInv, Accounts!AccountTypeOK
    <3>2. CASE t = s
      BY <1>1, <1>4, <1>8, <1>9, <2>2, <3>1, <3>2, AccountAssumption DEF Holds
    <3>3. CASE t # s
      <4>1. Holds(t) /\ flow'[t] = flow[t]
        BY <2>0, <3>1, <3>3 DEF Holds
      <4>2. flow[t].request <= begun'
        BY <1>1, <1>9, <4>1, AccountAssumption
      <4>3. \A u \in Slots : Holds(u)' /\ flow'[u].request = flow[t].request => u = t
        BY <1>4, <1>9, <3>1, <4>1 DEF Holds, AccountInv, RequestInv
      <4> QED
        BY <2>2, <4>1, <4>2, <4>3 DEF AccountInv, RequestInv
    <3> QED
      BY <3>2, <3>3
  <2> QED
    BY <1>3, <2>1, <2>2
<1>13. RequestInv'
  BY <1>7, <1>11, <1>12 DEF RequestInv
<1>14. IdInv' /\ TokenInv'
  <2>1. \A t \in Slots : \/ flow'[t] = flow[t]
                         \/ t = s /\ flow'[t] = held
    BY <1>3 DEF AccountInv, Accounts!AccountTypeOK
  <2>2. \A q \in Accounts!Providers, i \in 1..IdBound : Named(q, i)' => Named(q, i)
    BY <1>1, <1>4, <2>1, AccountAssumption DEF Named
  <2>3. IdInv'
    BY <1>1, <2>2 DEF AccountInv, IdInv
  <2>4. TokenInv'
    BY <1>1, <1>4, <2>1 DEF AccountInv, TokenInv
  <2> QED
    BY <2>3, <2>4
<1>15. flow' \in [Slots -> {Accounts!Idle} \cup Accounts!Operation] /\ FlowInv'
  <2>1. CASE flow' = flow
    BY <2>1 DEF AccountInv, FlowInv, Accounts!AccountTypeOK
  <2>2. CASE flow' = [flow EXCEPT ![s] = held]
    BY <1>4, <2>2, FlowKept
  <2> QED
    BY <1>3, <2>1, <2>2
<1>16. Accounts!AccountTypeOK'
  BY <1>1, <1>6, <1>15 DEF AccountInv, Accounts!AccountTypeOK
<1> QED
  BY <1>13, <1>14, <1>15, <1>16 DEF AccountInv

\* The verifier is stored and the request is created, or one of the writes
\* failed: the operation lets its request go.
LEMMA BeginCreatedStep ==
  ASSUME AccountInv, NEW s \in Slots, Accounts!BeginCreated(s) PROVE AccountInv'
<1> DEFINE f == flow[s]
           new == [id |-> f.request, provider |-> f.provider, expired |-> FALSE]
<1>1. /\ Holds(s) /\ f.op = "begin" /\ f.provider \in Accounts!Providers
      /\ f.request \in 1..RequestBound /\ f.request <= begun
      /\ \A r \in requests : r.id # f.request
      /\ flow' = [flow EXCEPT ![s] = Accounts!Idle]
      /\ UNCHANGED <<active, connection, tokens, begun, ids, serverCrashes>>
  BY FlowRows DEF AccountInv, RequestInv, Holds, Holding, Accounts!BeginCreated, Accounts!Done
<1>2. /\ verifiers' = verifiers \/ verifiers' = verifiers \cup {f.request}
      /\ \/ requests' = requests
         \/ requests' = requests \cup {new} /\ verifiers' = verifiers \cup {f.request}
  BY DEF Accounts!BeginCreated
<1>3. /\ new \in Accounts!Request /\ new.id = f.request
      /\ Accounts!Idle.op = "idle"
  BY <1>1 DEF Accounts!Request, Accounts!Idle
<1>4. flow'[s] = Accounts!Idle /\ \A t \in Slots \ {s} : flow'[t] = flow[t]
  BY <1>1 DEF AccountInv, Accounts!AccountTypeOK
<1> HIDE DEF new
<1>5. RequestInv'
  <2>1. Accounts!LiveRequestHasVerifier'
    BY <1>2, <1>3 DEF AccountInv, RequestInv, Accounts!LiveRequestHasVerifier
  <2>2. ASSUME NEW t \in Slots, Holds(t)' PROVE t # s /\ Holds(t) /\ flow'[t] = flow[t]
    BY <1>3, <1>4, <2>2 DEF Holds, Holding
  <2>3. \A t \in Slots \ {s} : Holds(t) => flow[t].request # f.request
    BY <1>1 DEF AccountInv, RequestInv
  <2>4. \A r \in requests' : r.id <= begun' /\ \A q \in requests' : r.id = q.id => r = q
    BY <1>1, <1>2, <1>3 DEF AccountInv, RequestInv
  <2>5. ASSUME NEW t \in Slots, Holds(t)'
        PROVE  /\ flow'[t].request <= begun'
               /\ \A r \in requests' : r.id # flow'[t].request
               /\ \A u \in Slots : Holds(u)' /\ flow'[u].request = flow'[t].request => u = t
    BY <1>1, <1>2, <1>3, <2>2, <2>3, <2>5 DEF AccountInv, RequestInv
  <2> QED
    BY <2>1, <2>4, <2>5 DEF RequestInv
<1>6. IdInv'
  <2>1. \A q \in Accounts!Providers : Named(q, connection'[q].id)
    BY <1>1 DEF Named
  <2> QED
    BY <1>1, <1>3, <2>1, IdsKept
<1>7. TokenInv'
  BY <1>1, TokenKept
<1>8. flow' \in [Slots -> {Accounts!Idle} \cup Accounts!Operation] /\ FlowInv'
  BY <1>1, <1>3, FlowKept
<1>9. Accounts!AccountTypeOK'
  BY <1>1, <1>2, <1>3, <1>8 DEF AccountInv, Accounts!AccountTypeOK
<1> QED
  BY <1>5, <1>6, <1>7, <1>8, <1>9 DEF AccountInv

\* The callback takes the request out of the table.
LEMMA ConsumeStep ==
  ASSUME AccountInv, NEW s \in Slots, NEW r \in requests, Accounts!Consume(s, r)
  PROVE  AccountInv'
<1> DEFINE Row(op) == [op |-> op, provider |-> r.provider, request |-> r.id, account |-> 0]
<1>1. /\ flow[s].op = "idle" /\ ~Holds(s) /\ requests' = requests \ {r}
      /\ UNCHANGED <<active, connection, tokens, verifiers, begun, ids, serverCrashes>>
  BY DEF Accounts!Consume, Accounts!Idle, Holds, Holding
<1>2. /\ r \in Accounts!Request /\ r.provider \in Accounts!Providers /\ r.id \in 1..RequestBound
      /\ 0 \in 0..IdBound
  BY AccountAssumption DEF AccountInv, Accounts!AccountTypeOK, Accounts!Request
<1>3. PICK row \in {Accounts!Idle, Row("cleanup"), Row("consumed")} :
        flow' = [flow EXCEPT ![s] = row]
  BY DEF Accounts!Consume
<1>4. /\ row \in {Accounts!Idle} \cup Accounts!Operation
      /\ row.op \in {"idle", "cleanup", "consumed"}
      /\ row.op # "idle" => row.request = r.id /\ row.account = 0
  BY <1>2, <1>3 DEF Accounts!Idle, Accounts!Operation
<1> HIDE DEF Row
<1>5. flow'[s] = row /\ \A t \in Slots \ {s} : flow'[t] = flow[t]
  BY <1>3 DEF AccountInv, Accounts!AccountTypeOK
<1>6. RequestInv'
  <2>1. Accounts!LiveRequestHasVerifier'
    BY <1>1 DEF AccountInv, RequestInv, Accounts!LiveRequestHasVerifier
  <2>2. \A q \in requests' : q.id <= begun' /\ q.id # r.id
                             /\ \A x \in requests' : q.id = x.id => q = x
    BY <1>1 DEF AccountInv, RequestInv
  <2>3. r.id <= begun' /\ \A t \in Slots : Holds(t) => flow[t].request # r.id
    BY <1>1 DEF AccountInv, RequestInv
  <2>4. ASSUME NEW t \in Slots, Holds(t)'
        PROVE  /\ flow'[t].request <= begun'
               /\ \A q \in requests' : q.id # flow'[t].request
               /\ \A u \in Slots : Holds(u)' /\ flow'[u].request = flow'[t].request => u = t
    <3>1. CASE t = s
      BY <1>4, <1>5, <2>2, <2>3, <2>4, <3>1 DEF Holds, Holding
    <3>2. CASE t # s
      <4>1. Holds(t) /\ flow'[t] = flow[t]
        BY <1>5, <2>4, <3>2 DEF Holds
      <4>2. \A u \in Slots : Holds(u)' /\ flow'[u].request = flow[t].request => u = t
        BY <1>4, <1>5, <2>3, <4>1 DEF Holds, Holding, AccountInv, RequestInv
      <4> QED
        BY <1>1, <4>1, <4>2 DEF AccountInv, RequestInv
    <3> QED
      BY <3>1, <3>2
  <2> QED
    BY <2>1, <2>2, <2>4 DEF RequestInv
<1>7. IdInv'
  <2>1. \A q \in Accounts!Providers : Named(q, connection'[q].id)
    BY <1>1 DEF Named
  <2> QED
    BY <1>1, <1>3, <1>4, <2>1, IdsKept
<1>8. TokenInv'
  BY <1>1, <1>3, TokenKept
<1>9. flow' \in [Slots -> {Accounts!Idle} \cup Accounts!Operation] /\ FlowInv'
  BY <1>3, <1>4, FlowKept
<1>10. Accounts!AccountTypeOK'
  BY <1>1, <1>9 DEF AccountInv, Accounts!AccountTypeOK
<1> QED
  BY <1>6, <1>7, <1>8, <1>9, <1>10 DEF AccountInv

\* A refresh, the question for the creator and a removal begin with the account
\* they read.
LEMMA StartStep ==
  ASSUME AccountInv, NEW s \in Slots, NEW p \in Accounts!Providers,
         \/ Accounts!RefreshStart(s, p)
         \/ Accounts!CreatorStart(s) /\ p = "tiktok"
         \/ Accounts!RemoveStart(s, p)
  PROVE  AccountInv'
<1> DEFINE i == connection[p].id
           Row(op) == [op |-> op, provider |-> p, account |-> i]
<1>1. /\ flow[s].op = "idle"
      /\ UNCHANGED <<active, connection, requests, verifiers, begun, ids, serverCrashes>>
      /\ i \in 0..IdBound /\ (tokens' = tokens \/ tokens' = tokens \ {i})
  BY DEF Accounts!RefreshStart, Accounts!CreatorStart, Accounts!RemoveStart,
         Accounts!Idle, AccountInv, Accounts!AccountTypeOK
<1>2. i \in 1..IdBound
  BY <1>1, AccountAssumption DEF Accounts!RefreshStart, Accounts!CreatorStart, Accounts!RemoveStart,
     AccountInv, Accounts!AccountTypeOK
<1>3. PICK row \in {Row("refresh"), Row("creator"), Row("remove")} :
        /\ flow' = [flow EXCEPT ![s] = row]
        /\ row = Row("creator") => p = "tiktok"
        /\ tokens' = tokens \/ row = Row("remove")
  <2>1. Row("refresh").op = "refresh" /\ Row("creator").op = "creator" /\ Row("remove").op = "remove"
    OBVIOUS
  <2>2. CASE Accounts!RefreshStart(s, p)
    BY <2>1, <2>2 DEF Accounts!RefreshStart
  <2>3. CASE Accounts!CreatorStart(s) /\ p = "tiktok"
    BY <2>1, <2>3 DEF Accounts!CreatorStart
  <2>4. CASE Accounts!RemoveStart(s, p)
    BY <2>1, <2>4 DEF Accounts!RemoveStart
  <2> QED
    BY <2>2, <2>3, <2>4
<1>4. /\ row \in {Accounts!Idle} \cup Accounts!Operation
      /\ row.op \in {"refresh", "creator", "remove"} /\ row.provider = p /\ row.account = i
      /\ row.op = "creator" => p = "tiktok"
      /\ tokens' = tokens \/ row.op = "remove"
  BY <1>2, <1>3 DEF Accounts!Operation
<1> HIDE DEF Row
<1>5. flow'[s] = row /\ \A t \in Slots \ {s} : flow'[t] = flow[t]
  BY <1>3 DEF AccountInv, Accounts!AccountTypeOK
<1>6. RequestInv'
  BY <1>1, <1>3, <1>4, RequestsKept DEF Holding
<1>7. IdInv'
  <2>1. \A q \in Accounts!Providers : Named(q, connection[q].id)
    BY DEF Named
  <2> QED
    BY <1>1, <1>3, <1>4, <2>1, IdsKept
<1>8. TokenInv'
  <2>1. CASE tokens' = tokens
    BY <1>1, <1>3, <2>1, TokenKept
  <2>2. CASE tokens' = tokens \ {i} /\ row.op = "remove" /\ p = "youtube"
    BY <1>1, <1>4, <1>5, <2>2 DEF TokenInv
  <2>3. CASE tokens' = tokens \ {i} /\ row.op = "remove" /\ p # "youtube"
    <3>1. ~Named("youtube", i)
      BY <1>2, <2>3 DEF AccountInv, IdInv, Named, Accounts!Providers
    <3>2. connection["youtube"].id # i
      BY <3>1 DEF Named
    <3> QED
      BY <1>1, <1>5, <2>3, <3>2 DEF AccountInv, TokenInv
  <2> QED
    BY <1>1, <1>4, <2>1, <2>2, <2>3
<1>9. flow' \in [Slots -> {Accounts!Idle} \cup Accounts!Operation] /\ FlowInv'
  <2>1. /\ row.op # "validate" /\ row.op # "store"
        /\ row.op = "creator" => row.provider = "tiktok"
    BY <1>4
  <2> QED
    BY <1>3, <1>4, <2>1, FlowKept
<1>10. Accounts!AccountTypeOK'
  BY <1>1, <1>9 DEF AccountInv, Accounts!AccountTypeOK
<1> QED
  BY <1>6, <1>7, <1>8, <1>9, <1>10 DEF AccountInv

\* The other client, the ten minutes and the crash touch no operation but to
\* end it.
LEMMA OutsideStep ==
  ASSUME AccountInv,
         \/ \E p \in Accounts!Providers : Accounts!ReplaceClient(p)
         \/ \E r \in requests : Accounts!Expire(r)
         \/ Accounts!ServerCrash
  PROVE  AccountInv'
<1>1. ASSUME NEW p \in Accounts!Providers, Accounts!ReplaceClient(p) PROVE AccountInv'
  <2>1. /\ connection' = Accounts!Flagged(p, connection[p].id)
        /\ UNCHANGED <<active, tokens, requests, verifiers, begun, ids, flow, serverCrashes>>
    BY <1>1 DEF Accounts!ReplaceClient
  <2>2. /\ connection' \in [Accounts!Providers -> AccountRow]
        /\ \A q \in Accounts!Providers : connection'[q].id = connection[q].id
        /\ \A q \in Accounts!Providers :
             connection'[q] = connection[q] \/ connection'[q].status # "connected"
    BY <2>1, Marked
  <2>3. Accounts!AccountTypeOK' /\ FlowInv'
    BY <2>1, <2>2 DEF AccountInv, FlowInv, Accounts!AccountTypeOK, AccountRow
  <2>4. RequestInv'
    BY <2>1 DEF AccountInv, RequestInv, Holds, Accounts!LiveRequestHasVerifier
  <2>5. IdInv'
    BY <2>1, <2>2 DEF AccountInv, IdInv, Named
  <2>6. TokenInv'
    BY <2>1, <2>2 DEF AccountInv, TokenInv, Accounts!Providers
  <2> QED
    BY <2>3, <2>4, <2>5, <2>6 DEF AccountInv
<1>2. ASSUME NEW r \in requests, Accounts!Expire(r) PROVE AccountInv'
  <2> DEFINE late == [r EXCEPT !.expired = TRUE]
  <2>1. /\ requests' = (requests \ {r}) \cup {late}
        /\ UNCHANGED <<active, connection, tokens, verifiers, begun, ids, flow, serverCrashes>>
    BY <1>2 DEF Accounts!Expire
  <2>2. r \in Accounts!Request
    BY DEF AccountInv, Accounts!AccountTypeOK
  <2>3. late \in Accounts!Request /\ late.id = r.id /\ late.provider = r.provider
    BY <2>2 DEF Accounts!Request
  <2> HIDE DEF late
  <2>4. Accounts!AccountTypeOK' /\ FlowInv'
    BY <2>1, <2>3 DEF AccountInv, FlowInv, Accounts!AccountTypeOK
  <2>5. RequestInv'
    BY <2>1, <2>3 DEF AccountInv, RequestInv, Holds, Accounts!LiveRequestHasVerifier
  <2>6. IdInv' /\ TokenInv'
    BY <2>1 DEF AccountInv, IdInv, Named, TokenInv
  <2> QED
    BY <2>4, <2>5, <2>6 DEF AccountInv
<1>3. ASSUME Accounts!ServerCrash PROVE AccountInv'
  <2>1. /\ serverCrashes' \in 1..AccountCrashBound /\ serverCrashes' # 0
        /\ flow' = [s \in Slots |-> Accounts!Idle]
        /\ UNCHANGED <<active, connection, tokens, requests, verifiers, begun, ids>>
    BY <1>3, AccountAssumption DEF Accounts!ServerCrash, AccountInv, Accounts!AccountTypeOK
  <2>2. \A s \in Slots : flow'[s].op = "idle"
    BY <2>1 DEF Accounts!Idle
  <2>3. Accounts!AccountTypeOK'
    BY <2>1, AccountAssumption DEF AccountInv, Accounts!AccountTypeOK
  <2>4. FlowInv' /\ TokenInv'
    BY <2>1, <2>2 DEF FlowInv, TokenInv
  <2>5. RequestInv'
    BY <2>1, <2>2 DEF AccountInv, RequestInv, Holds, Holding, Accounts!LiveRequestHasVerifier
  <2>6. IdInv'
    BY <2>1, <2>2 DEF AccountInv, IdInv, Named
  <2> QED
    BY <2>3, <2>4, <2>5, <2>6 DEF AccountInv
<1> QED
  BY <1>1, <1>2, <1>3

\* Every step of the accounts.
LEMMA AccountStep ==
  ASSUME AccountInv, [Accounts!AccountNext]_(Accounts!accountVars) PROVE AccountInv'
<1>1. CASE UNCHANGED Accounts!accountVars
  BY <1>1 DEF Accounts!accountVars, AccountInv, Accounts!AccountTypeOK, RequestInv, IdInv, FlowInv,
     TokenInv, Named, Holds, Accounts!LiveRequestHasVerifier
<1>2. CASE Accounts!AccountNext
  <2>1. active \subseteq Accounts!Providers
    BY AccountAssumption
    DEF AccountInv, Accounts!AccountTypeOK, Accounts!Providers
  <2>2. "tiktok" \in Accounts!Providers
    BY DEF Accounts!Providers
  <2>3. ASSUME NEW s \in Slots, NEW p \in active,
               Accounts!Begin(s, p) \/ Accounts!RefreshStart(s, p) \/ Accounts!RemoveStart(s, p)
        PROVE  AccountInv'
    BY <2>1, <2>3, BeginStep, StartStep
  <2>4. ASSUME NEW s \in Slots, Accounts!CreatorStart(s) PROVE AccountInv'
    BY <2>2, <2>4, StartStep
  <2>5. ASSUME NEW s \in Slots, NEW r \in requests, Accounts!Consume(s, r) PROVE AccountInv'
    BY <2>5, ConsumeStep
  <2>6. ASSUME NEW s \in Slots,
               \/ Accounts!BeginCreated(s) \/ Accounts!ReadVerifier(s) \/ Accounts!Exchanged(s)
               \/ Accounts!ExchangeFailed(s) \/ Accounts!StoreToken(s) \/ Accounts!Cleanup(s)
        PROVE  AccountInv'
    BY <2>6, BeginCreatedStep, CallbackStep, ExchangedStep
  <2>7. ASSUME NEW s \in Slots,
               \/ Accounts!Refreshed(s) \/ Accounts!Validated(s) \/ Accounts!RefreshFailed(s)
               \/ Accounts!CreatorAnswered(s) \/ Accounts!RemoveRow(s)
        PROVE  AccountInv'
    BY <2>7, TokenStep
  <2>8. CASE \/ \E p \in active : Accounts!ReplaceClient(p)
             \/ \E r \in requests : Accounts!Expire(r)
             \/ Accounts!ServerCrash
    BY <2>1, <2>8, OutsideStep
  <2> QED
    BY <1>2, <2>3, <2>4, <2>5, <2>6, <2>7, <2>8 DEF Accounts!AccountNext
<1> QED
  BY <1>1, <1>2

\* What the properties say.
LEMMA AccountHolds ==
  ASSUME AccountInv
  PROVE  /\ Accounts!StateUsedOnce /\ Accounts!LiveRequestHasVerifier
         /\ Accounts!ConnectedHasToken /\ Accounts!TokenOutageKeepsAccount
<1>1. Accounts!StateUsedOnce
  BY DEF AccountInv, RequestInv, Holds, Holding, Accounts!StateUsedOnce, Accounts!Completing
<1>2. Accounts!LiveRequestHasVerifier
  BY DEF AccountInv, RequestInv
<1>3. Accounts!ConnectedHasToken
  <2>1. {x \in Accounts!Providers :
           Accounts!Completes(x).marks /\ ~Accounts!Refresh(x, "granted").upserts} \subseteq {"youtube"}
    BY DEF Accounts!Providers, Accounts!Completes, Accounts!TwitchCompletes, Accounts!KickCompletes,
       Accounts!MetaCompletes, Accounts!Refresh, Accounts!TikTokRefresh
  <2>2. ASSUME serverCrashes = 0, connection["youtube"].status = "connected",
               Accounts!Touching("youtube") = {}
        PROVE  connection["youtube"].id \in tokens
    BY <2>2 DEF AccountInv, TokenInv, Accounts!Touching, Accounts!Idle
  <2> QED
    BY <2>1, <2>2 DEF Accounts!ConnectedHasToken
<1>4. Accounts!TokenOutageKeepsAccount
  <2> SUFFICES ASSUME NEW p \in Accounts!Providers \ {"meta"}, NEW t \in Accounts!Outages
               PROVE  ~Accounts!Refresh(p, t).marks
    BY DEF Accounts!TokenOutageKeepsAccount
  <2>1. t \in {"network", "unavailable", "limited"}
    BY DEF Accounts!Outages
  <2>2. CASE p = "youtube"
    BY <2>1, <2>2 DEF Accounts!Refresh, Accounts!YouTubeRefresh
  <2>3. CASE p = "tiktok"
    BY <2>1, <2>3 DEF Accounts!Refresh, Accounts!TikTokRefresh
  <2>4. CASE p = "twitch"
    BY <2>1, <2>4 DEF Accounts!Refresh, Accounts!TwitchRefresh
  <2>5. CASE p = "kick"
    BY <2>1, <2>5 DEF Accounts!Refresh, Accounts!KickRefresh, Accounts!KickToken
  <2> QED
    BY <2>2, <2>3, <2>4, <2>5 DEF Accounts!Providers
<1> QED
  BY <1>1, <1>2, <1>3, <1>4

-----------------------------------------------------------------------------
(* The targets of Meta.                                                    *)

TargetRow == [stored : BOOLEAN, available : BOOLEAN, enabled : BOOLEAN]
Asking == [op : {"asking"}, previous : SUBSET MetaTargetIds]
Storing == [op : {"storing", "writing"}, answer : [MetaTargetIds -> Targets!Standings],
            left : SUBSET MetaTargetIds]

\* What the operator switched off keeps its row and is not enabled.
SwitchInv ==
  \A t \in MetaTargetIds : choice[t] = "off" => targets[t].stored /\ ~targets[t].enabled

\* A write is asked for by a discovery that waits for it, and for no other.
WritesInv ==
  \A i \in DOMAIN writes :
    /\ discovery[writes[i].slot].op = "writing"
    /\ \A k \in DOMAIN writes : writes[k].slot = writes[i].slot => k = i

\* The write asked for last about a target decides; of one that is available it
\* stores the token, or the row came to be without.
TokensInv ==
  \A t \in MetaTargetIds : targets[t].available => Targets!HasToken(t) \/ t \in tokenless

TargetsInv == Targets!TargetsTypeOK /\ SwitchInv /\ WritesInv /\ TokensInv

\* No target is known yet.
LEMMA TargetsBegin == Targets!TargetsInit => TargetsInv
<1> SUFFICES ASSUME Targets!TargetsInit PROVE TargetsInv
  OBVIOUS
<1>1. 0 \in 0..DiscoveryBound /\ <<>> \in Seq(Targets!Write)
  BY TargetsAssumption
<1>2. Targets!TargetsTypeOK
  BY <1>1 DEF Targets!TargetsInit, Targets!TargetsTypeOK, Targets!NoTarget
<1> QED
  BY <1>2 DEF Targets!TargetsInit, TargetsInv, SwitchInv, WritesInv, TokensInv, Targets!NoTarget

\* Each write is of a discovery and a target.
LEMMA WritesTyped ==
  ASSUME Targets!TargetsTypeOK
  PROVE  /\ writes \in Seq(Targets!Write)
         /\ \A i \in DOMAIN writes : /\ writes[i] \in Targets!Write
                                   /\ writes[i].slot \in DiscoverySlots
<1>1. writes \in Seq(Targets!Write)
  BY DEF Targets!TargetsTypeOK
<1>2. \A i \in DOMAIN writes : writes[i] \in Targets!Write
  BY <1>1
<1> QED
  BY <1>1, <1>2 DEF Targets!Write

\* What a target has does not change while nothing is written about it.
LEMMA TokenStays ==
  ASSUME NEW t, writes' = writes, (t \in pageTokens) <=> (t \in pageTokens')
  PROVE  Targets!HasToken(t) => Targets!HasToken(t)'
BY DEF Targets!HasToken

\* A write asked for last decides.
LEMMA LastDecides ==
  ASSUME Targets!TargetsTypeOK, NEW w \in Targets!Write, writes' = Append(writes, w),
         pageTokens' = pageTokens, NEW t \in MetaTargetIds
  PROVE  /\ t = w.target /\ w.stores => Targets!HasToken(t)'
         /\ t # w.target /\ Targets!HasToken(t) => Targets!HasToken(t)'
<1> DEFINE n == Len(writes)
           About(q) == {i \in DOMAIN q : q[i].target = t}
<1>1. /\ n \in Nat /\ DOMAIN writes = 1..n /\ DOMAIN writes' = 1..(n + 1)
      /\ writes'[n + 1] = w /\ \A i \in 1..n : writes'[i] = writes[i]
  BY DEF Targets!TargetsTypeOK
<1>2. ASSUME t = w.target, w.stores PROVE Targets!HasToken(t)'
  <2>1. n + 1 \in About(writes') /\ \A k \in About(writes') : k <= n + 1
    BY <1>1, <1>2
  <2> QED
    BY <2>1, <1>1, <1>2 DEF Targets!HasToken
<1>3. ASSUME t # w.target, Targets!HasToken(t) PROVE Targets!HasToken(t)'
  <2>1. About(writes') = About(writes) /\ \A i \in About(writes) : writes'[i] = writes[i]
    BY <1>1, <1>3
  <2> QED
    BY <2>1, <1>3 DEF Targets!HasToken
<1> QED
  BY <1>2, <1>3

\* When the first write is done or given up, the later ones still decide, and
\* where there is none it did.
LEMMA FirstDone ==
  ASSUME Targets!TargetsTypeOK, writes # <<>>, writes' = Tail(writes), NEW t \in MetaTargetIds,
         NEW w, w = Head(writes),
         \/ /\ t # w.target
            /\ (t \in pageTokens) <=> (t \in pageTokens')
         \/ t = w.target /\ w.stores /\ t \in pageTokens'
         \/ t = w.target /\ ~w.stores,
         Targets!HasToken(t)
  PROVE  Targets!HasToken(t)'
<1> DEFINE n == Len(writes)
           About(q) == {i \in DOMAIN q : q[i].target = t}
<1>1. /\ n \in Nat \ {0} /\ DOMAIN writes = 1..n /\ DOMAIN writes' = 1..(n - 1)
      /\ w = writes[1] /\ \A i \in 1..(n - 1) : writes'[i] = writes[i + 1]
  BY DEF Targets!TargetsTypeOK
<1>2. CASE About(writes) = {}
  <2>1. t \in pageTokens /\ t # w.target /\ About(writes') = {}
    BY <1>1, <1>2 DEF Targets!HasToken
  <2> QED
    BY <2>1 DEF Targets!HasToken
<1>3. ASSUME NEW i \in About(writes), writes[i].stores, \A k \in About(writes) : k <= i
      PROVE  Targets!HasToken(t)'
  <2>1. CASE i = 1
    <3>1. About(writes') = {} /\ t = w.target /\ w.stores
      BY <1>1, <1>3, <2>1
    <3> QED
      BY <3>1 DEF Targets!HasToken
  <2>2. CASE i # 1
    <3>1. /\ i - 1 \in About(writes') /\ writes'[i - 1].stores
          /\ \A k \in About(writes') : k <= i - 1
      BY <1>1, <1>3, <2>2
    <3> QED
      BY <3>1 DEF Targets!HasToken
  <2> QED
    BY <2>1, <2>2
<1> QED
  BY <1>2, <1>3 DEF Targets!HasToken

\* A row is written; the discovery goes on or asks for its token.
LEMMA TargetStored ==
  ASSUME TargetsInv, NEW s \in DiscoverySlots, NEW t \in MetaTargetIds, NEW sent \in BOOLEAN,
         Targets!StoreTarget(s, t, sent)
  PROVE  TargetsInv'
<1> DEFINE d == discovery[s]
           gone == d.answer[t] = "absent"
           row == IF gone THEN Targets!Vanished(targets[t])
                  ELSE Targets!Found(targets[t], d.answer[t])
           w == [slot |-> s, target |-> t, stores |-> ~gone]
           left == d.left \ {t}
<1>1. /\ Targets!TargetsTypeOK /\ d \in Storing /\ d.op = "storing"
      /\ targets[t] \in TargetRow /\ w \in Targets!Write
  BY DEF TargetsInv, Targets!TargetsTypeOK, Targets!StoreTarget, Targets!NoDiscovery, TargetRow,
         Storing, Targets!Write
<1>2. /\ targets' = [targets EXCEPT ![t] = row]
      /\ UNCHANGED <<pageTokens, discoveries, choice>>
      /\ \/ /\ gone \/ sent
            /\ writes' = Append(writes, w) /\ tokenless' = tokenless \ {t}
            /\ discovery' = [discovery EXCEPT ![s] =
                 [op |-> "writing", answer |-> d.answer, left |-> left]]
         \/ /\ ~gone
            /\ tokenless' = IF Targets!HasToken(t) THEN tokenless ELSE tokenless \cup {t}
            /\ writes' = writes
            /\ discovery' = [discovery EXCEPT ![s] =
                 [op |-> "storing", answer |-> d.answer, left |-> left]]
  BY DEF Targets!StoreTarget
<1>3. /\ row \in TargetRow
      /\ targets[t].stored /\ ~targets[t].enabled => row.stored /\ ~row.enabled
      /\ gone => ~row.available
  BY <1>1 DEF Targets!Vanished, Targets!Found, TargetRow
<1>4. /\ [op |-> "writing", answer |-> d.answer, left |-> left] \in Storing
      /\ [op |-> "storing", answer |-> d.answer, left |-> left] \in Storing
  BY <1>1 DEF Storing
<1>w. w.slot = s /\ w.target = t /\ w.stores = ~gone
  OBVIOUS
<1> HIDE DEF row, w, left
<1>5. Targets!TargetsTypeOK'
  <2>1. targets' \in [MetaTargetIds -> TargetRow] /\ tokenless' \subseteq MetaTargetIds
    BY <1>1, <1>2, <1>3 DEF Targets!TargetsTypeOK, TargetRow
  <2>2. writes' \in Seq(Targets!Write)
    <3>1. writes' = writes \/ writes' = Append(writes, w)
      BY <1>2
    <3> QED
      BY <3>1, <1>1, WritesTyped
  <2>3. discovery' \in [DiscoverySlots -> {Targets!NoDiscovery} \cup Asking \cup Storing]
    BY <1>1, <1>2, <1>4 DEF Targets!TargetsTypeOK, Asking, Storing
  <2> QED
    BY <1>1, <1>2, <2>1, <2>2, <2>3 DEF Targets!TargetsTypeOK, TargetRow, Asking, Storing
<1>6. SwitchInv'
  BY <1>1, <1>2, <1>3 DEF TargetsInv, SwitchInv, Targets!TargetsTypeOK
<1>7. \A i \in DOMAIN writes : writes[i].slot # s
  BY <1>1 DEF TargetsInv, WritesInv
<1>8. WritesInv'
  <2>1. CASE writes' = writes
    <3>1. \A x \in DiscoverySlots \ {s} : discovery'[x] = discovery[x]
      BY <1>1, <1>2 DEF Targets!TargetsTypeOK
    <3>2. \A i \in DOMAIN writes : writes[i].slot \in DiscoverySlots \ {s}
      BY <1>1, <1>7, WritesTyped
    <3> QED
      BY <2>1, <3>1, <3>2 DEF TargetsInv, WritesInv
  <2>2. ASSUME writes' = Append(writes, w),
               discovery' = [discovery EXCEPT ![s] =
                 [op |-> "writing", answer |-> d.answer, left |-> left]]
        PROVE  WritesInv'
    <3>1. PICK n \in Nat : /\ DOMAIN writes = 1..n /\ DOMAIN writes' = 1..(n + 1)
                           /\ writes'[n + 1] = w /\ \A i \in 1..n : writes'[i] = writes[i]
      <4>1. writes \in Seq(Targets!Write)
        BY <1>1, WritesTyped
      <4>2. /\ Len(writes) \in Nat /\ DOMAIN writes = 1..Len(writes)
            /\ DOMAIN Append(writes, w) = 1..(Len(writes) + 1)
            /\ Append(writes, w)[Len(writes) + 1] = w
            /\ \A i \in 1..Len(writes) : Append(writes, w)[i] = writes[i]
        BY <4>1, <1>1
      <4> QED
        BY <4>2, <2>2
    <3>2. discovery'[s].op = "writing" /\ \A x \in DiscoverySlots \ {s} : discovery'[x] = discovery[x]
      BY <1>1, <2>2 DEF Targets!TargetsTypeOK
    <3>3. \A i \in 1..n : writes[i].slot \in DiscoverySlots \ {s}
      BY <1>1, <1>7, <3>1, WritesTyped
    <3>4. ASSUME NEW i \in 1..(n + 1)
          PROVE  /\ discovery'[writes'[i].slot].op = "writing"
                 /\ \A k \in 1..(n + 1) : writes'[k].slot = writes'[i].slot => k = i
      <4>1. CASE i = n + 1
        BY <4>1, <1>w, <3>1, <3>2, <3>3
      <4>2. CASE i \in 1..n
        BY <4>2, <1>w, <3>1, <3>2, <3>3 DEF TargetsInv, WritesInv
      <4> QED
        BY <4>1, <4>2
    <3> QED
      BY <3>1, <3>4 DEF WritesInv
  <2> QED
    BY <1>2, <2>1, <2>2
<1>9. TokensInv'
  <2> SUFFICES ASSUME NEW x \in MetaTargetIds, targets'[x].available
               PROVE  Targets!HasToken(x)' \/ x \in tokenless'
    BY DEF TokensInv
  <2>1. x # t => Targets!HasToken(x) \/ x \in tokenless
    BY <1>1, <1>2 DEF TargetsInv, TokensInv, Targets!TargetsTypeOK
  <2>2. x = t => ~gone
    BY <1>1, <1>2, <1>3 DEF Targets!TargetsTypeOK
  <2>3. CASE writes' = Append(writes, w) /\ tokenless' = tokenless \ {t}
    BY <2>1, <2>2, <2>3, <1>1, <1>2, <1>w, LastDecides
  <2>4. CASE /\ writes' = writes
             /\ tokenless' = IF Targets!HasToken(t) THEN tokenless ELSE tokenless \cup {t}
    BY <2>1, <2>4, <1>2, TokenStays
  <2> QED
    BY <1>2, <2>3, <2>4
<1> QED
  BY <1>5, <1>6, <1>8, <1>9 DEF TargetsInv

\* The secret store has done its first write, or has not managed to.
LEMMA TokenSettled ==
  ASSUME TargetsInv, Targets!TokenWritten \/ Targets!TokenRefused
  PROVE  TargetsInv'
<1> DEFINE w == Head(writes)
           d == discovery[w.slot]
<1>1. /\ Targets!TargetsTypeOK /\ writes # <<>> /\ w \in Targets!Write
      /\ writes' = Tail(writes) /\ writes' \in Seq(Targets!Write)
      /\ UNCHANGED <<targets, discoveries, choice>>
  <2>1. /\ Targets!TargetsTypeOK /\ writes # <<>> /\ writes' = Tail(writes)
        /\ UNCHANGED <<targets, discoveries, choice>>
    BY DEF TargetsInv, Targets!TokenWritten, Targets!TokenRefused
  <2>2. writes \in Seq(Targets!Write)
    BY <2>1, WritesTyped
  <2>3. Head(writes) \in Targets!Write /\ Tail(writes) \in Seq(Targets!Write)
    BY <2>1, <2>2
  <2> QED
    BY <2>1, <2>3
<1>2. PICK n \in Nat \ {0} :
        /\ DOMAIN writes = 1..n /\ DOMAIN writes' = 1..(n - 1)
        /\ w = writes[1] /\ \A i \in 1..(n - 1) : writes'[i] = writes[i + 1]
  BY <1>1 DEF Targets!TargetsTypeOK
<1>3. d.op = "writing" /\ d \in Storing
  BY <1>1, <1>2 DEF TargetsInv, WritesInv, Targets!TargetsTypeOK, Targets!Write, Storing,
     Targets!NoDiscovery
<1>4. [op |-> "storing", answer |-> d.answer, left |-> d.left] \in Storing
  BY <1>3 DEF Storing
<1>s. w.slot \in DiscoverySlots /\ w.target \in MetaTargetIds
  BY <1>1 DEF Targets!Write
<1>5. PICK goesOn \in {Targets!NoDiscovery} \cup Storing :
        discovery' = [discovery EXCEPT ![w.slot] = goesOn]
  BY <1>4 DEF Targets!TokenWritten, Targets!TokenRefused
<1>6. /\ pageTokens' \subseteq MetaTargetIds /\ tokenless' \subseteq MetaTargetIds
  BY <1>1, <1>s DEF Targets!TokenWritten, Targets!TokenRefused, Targets!TargetsTypeOK
<1>7. Targets!TargetsTypeOK'
  BY <1>1, <1>5, <1>6, <1>s DEF Targets!TargetsTypeOK, Asking, Storing
<1>8. SwitchInv'
  BY <1>1 DEF TargetsInv, SwitchInv
<1>9. WritesInv'
  <2>1. ASSUME NEW i \in 1..(n - 1)
        PROVE  /\ discovery'[writes'[i].slot].op = "writing"
               /\ \A k \in 1..(n - 1) : writes'[k].slot = writes'[i].slot => k = i
    <3>1. i + 1 \in 1..n /\ i + 1 # 1 /\ 1 \in 1..n /\ writes'[i] = writes[i + 1]
      BY <1>2
    <3>2. writes[i + 1].slot # w.slot /\ discovery[writes[i + 1].slot].op = "writing"
      BY <1>2, <3>1 DEF TargetsInv, WritesInv
    <3>3. discovery'[writes'[i].slot].op = "writing"
      BY <1>5, <3>1, <3>2
    <3>4. ASSUME NEW k \in 1..(n - 1), writes'[k].slot = writes'[i].slot PROVE k = i
      <4>1. k + 1 \in 1..n /\ writes'[k] = writes[k + 1]
        BY <1>2
      <4>2. k + 1 = i + 1
        BY <1>2, <3>1, <3>4, <4>1 DEF TargetsInv, WritesInv
      <4> QED
        BY <4>2
    <3> QED
      BY <3>3, <3>4
  <2> QED
    BY <1>2, <2>1 DEF WritesInv
<1>10. TokensInv'
  <2> SUFFICES ASSUME NEW t \in MetaTargetIds, targets[t].available
               PROVE  Targets!HasToken(t)' \/ t \in tokenless'
    BY <1>1 DEF TokensInv
  <2>1. Targets!HasToken(t) \/ t \in tokenless
    BY DEF TargetsInv, TokensInv
  <2> HIDE DEF w
  <2>2. /\ t # w.target => (t \in pageTokens <=> t \in pageTokens')
        /\ t \in tokenless => t \in tokenless'
        /\ w.stores /\ t = w.target => t \in pageTokens' \/ t \in tokenless'
    BY DEF Targets!TokenWritten, Targets!TokenRefused, w
  <2>3. CASE Targets!HasToken(t)
    <3>1. CASE t = w.target /\ w.stores /\ t \notin pageTokens'
      BY <3>1, <2>2
    <3>2. CASE ~(t = w.target /\ w.stores /\ t \notin pageTokens')
      <4>1. w = Head(writes)
        BY DEF w
      <4>2. \/ t # w.target /\ (t \in pageTokens <=> t \in pageTokens')
            \/ t = w.target /\ w.stores /\ t \in pageTokens'
            \/ t = w.target /\ ~w.stores
        BY <3>2, <2>2
      <4> QED
        BY <4>1, <4>2, <2>3, <1>1, FirstDone
    <3> QED
      BY <3>1, <3>2
  <2> QED
    BY <2>1, <2>2, <2>3
<1> QED
  BY <1>7, <1>8, <1>9, <1>10 DEF TargetsInv

\* The server dies with its discoveries and the writes they wait for.
LEMMA DiscoveriesDie ==
  ASSUME TargetsInv, Targets!DiscoveryCrash
  PROVE  TargetsInv'
<1>1. /\ Targets!TargetsTypeOK /\ writes' = <<>> /\ <<>> \in Seq(Targets!Write)
      /\ DOMAIN <<>> = {}
      /\ UNCHANGED <<targets, pageTokens, discoveries, choice>>
      /\ discovery' = [s \in DiscoverySlots |-> Targets!NoDiscovery]
      /\ tokenless' \subseteq MetaTargetIds
  BY DEF TargetsInv, Targets!DiscoveryCrash, Targets!TargetsTypeOK
<1>2. Targets!TargetsTypeOK'
  BY <1>1 DEF Targets!TargetsTypeOK
<1>3. SwitchInv' /\ WritesInv'
  BY <1>1 DEF TargetsInv, SwitchInv, WritesInv
<1>4. ASSUME NEW t \in MetaTargetIds, targets[t].available
      PROVE  Targets!HasToken(t)' \/ t \in tokenless'
  <2>1. t \in pageTokens => Targets!HasToken(t)'
    BY <1>1 DEF Targets!HasToken
  <2>2. Targets!HasToken(t) => t \in pageTokens \/ t \in tokenless'
    BY DEF Targets!HasToken, Targets!DiscoveryCrash
  <2>3. Targets!HasToken(t) \/ t \in tokenless
    BY <1>4 DEF TargetsInv, TokensInv
  <2> QED
    BY <2>1, <2>2, <2>3 DEF Targets!DiscoveryCrash
<1> QED
  BY <1>1, <1>2, <1>3, <1>4 DEF TargetsInv, TokensInv

\* A discovery comes to its next await, or to its end, and writes nothing.
LEMMA DiscoveryMoves ==
  ASSUME TargetsInv, NEW s \in DiscoverySlots, discovery[s].op # "writing",
         NEW d \in {Targets!NoDiscovery} \cup Asking \cup Storing,
         discovery' = [discovery EXCEPT ![s] = d], discoveries' \in 0..DiscoveryBound,
         UNCHANGED <<targets, pageTokens, writes, tokenless, choice>>
  PROVE  TargetsInv'
<1>1. Targets!TargetsTypeOK'
  BY DEF TargetsInv, Targets!TargetsTypeOK, Asking, Storing
<1>2. SwitchInv'
  BY DEF TargetsInv, SwitchInv
<1>3. WritesInv'
  <2>1. \A i \in DOMAIN writes : writes[i].slot # s
    BY DEF TargetsInv, WritesInv
  <2>2. \A i \in DOMAIN writes : writes[i].slot \in DiscoverySlots
    BY WritesTyped DEF TargetsInv
  <2>3. \A x \in DiscoverySlots \ {s} : discovery'[x] = discovery[x]
    BY DEF TargetsInv, Targets!TargetsTypeOK
  <2> QED
    BY <2>1, <2>2, <2>3 DEF TargetsInv, WritesInv
<1>4. TokensInv'
  BY TokenStays DEF TargetsInv, TokensInv
<1> QED
  BY <1>1, <1>2, <1>3, <1>4 DEF TargetsInv

\* Discoveries, failed writes, crashes and the switch of the operator.
LEMMA TargetsStep ==
  ASSUME TargetsInv, [Targets!TargetsNext]_targetVars
  PROVE  TargetsInv'
<1>0. Targets!TargetsTypeOK
  BY DEF TargetsInv
<1>1. ASSUME NEW s \in DiscoverySlots, Targets!Discover(s) PROVE TargetsInv'
  <2>1. discoveries' \in 0..DiscoveryBound
    BY <1>0, <1>1, TargetsAssumption DEF Targets!Discover, Targets!TargetsTypeOK
  <2> DEFINE d == [op |-> "asking", previous |-> {t \in MetaTargetIds : targets[t].stored}]
  <2>2. d \in Asking /\ discovery' = [discovery EXCEPT ![s] = d]
    BY <1>1 DEF Targets!Discover, Asking
  <2>3. discovery[s].op # "writing" /\ UNCHANGED <<targets, pageTokens, writes, tokenless, choice>>
    BY <1>1 DEF Targets!Discover, Targets!NoDiscovery
  <2> HIDE DEF d
  <2> QED
    BY <2>1, <2>2, <2>3, DiscoveryMoves
<1>2. ASSUME NEW s \in DiscoverySlots, Targets!AnswerTargets(s) PROVE TargetsInv'
  <2>1. /\ discovery[s] \in Asking /\ discovery[s].op # "writing"
        /\ discoveries' \in 0..DiscoveryBound
        /\ UNCHANGED <<targets, pageTokens, writes, tokenless, choice>>
    BY <1>0, <1>2 DEF Targets!AnswerTargets, Targets!TargetsTypeOK, Targets!NoDiscovery, Asking
  <2>2. CASE discovery' = [discovery EXCEPT ![s] = Targets!NoDiscovery]
    BY <2>1, <2>2, DiscoveryMoves
  <2>3. ASSUME NEW answer \in [MetaTargetIds -> Targets!Standings],
               discovery' = [discovery EXCEPT ![s] =
                 [op |-> "storing", answer |-> answer,
                  left |-> {t \in MetaTargetIds : answer[t] # "absent"} \cup @.previous]]
        PROVE  TargetsInv'
    <3> DEFINE d == [op |-> "storing", answer |-> answer,
                     left |-> {t \in MetaTargetIds : answer[t] # "absent"}
                              \cup discovery[s].previous]
    <3>1. discovery[s].previous \subseteq MetaTargetIds
      BY <2>1 DEF Asking
    <3>2. d \in Storing /\ discovery' = [discovery EXCEPT ![s] = d]
      BY <2>3, <3>1 DEF Storing
    <3> HIDE DEF d
    <3> QED
      BY <2>1, <3>2, DiscoveryMoves
  <2> QED
    BY <1>2, <2>2, <2>3 DEF Targets!AnswerTargets
<1>3. ASSUME NEW s \in DiscoverySlots, Targets!DiscoveryEnds(s) PROVE TargetsInv'
  BY <1>0, <1>3, DiscoveryMoves DEF Targets!DiscoveryEnds, Targets!TargetsTypeOK
<1>4. ASSUME NEW t \in MetaTargetIds, NEW on \in BOOLEAN, Targets!SetTargetEnabled(t, on)
      PROVE  TargetsInv'
  <2>1. Targets!TargetsTypeOK'
    BY <1>0, <1>4 DEF Targets!SetTargetEnabled, Targets!TargetsTypeOK
  <2>2. SwitchInv'
    BY <1>0, <1>4 DEF Targets!SetTargetEnabled, Targets!TargetsTypeOK, TargetsInv, SwitchInv
  <2>3. WritesInv'
    BY <1>4 DEF Targets!SetTargetEnabled, TargetsInv, WritesInv
  <2>4. \A x \in MetaTargetIds : targets'[x].available <=> targets[x].available
    BY <1>0, <1>4 DEF Targets!SetTargetEnabled, Targets!TargetsTypeOK
  <2>5. TokensInv'
    BY <1>4, <2>4, TokenStays DEF Targets!SetTargetEnabled, TargetsInv, TokensInv
  <2> QED
    BY <2>1, <2>2, <2>3, <2>5 DEF TargetsInv
<1>5. CASE UNCHANGED targetVars
  <2>1. Targets!TargetsTypeOK' /\ SwitchInv' /\ WritesInv'
    BY <1>5 DEF targetVars, TargetsInv, Targets!TargetsTypeOK, SwitchInv, WritesInv
  <2>2. TokensInv'
    BY <1>5, TokenStays DEF targetVars, TargetsInv, TokensInv
  <2> QED
    BY <2>1, <2>2 DEF TargetsInv
<1> QED
  BY <1>1, <1>2, <1>3, <1>4, <1>5, TargetStored, TokenSettled, DiscoveriesDie
     DEF Targets!TargetsNext

-----------------------------------------------------------------------------
(* Webhooks.                                                               *)

DeliveryRow ==
  [status : {"none", "pending", "running", "retrying", "succeeded", "failed"}, job : BOOLEAN]
DeliveryJobRow ==
  [status : {"none", "queued", "running", "succeeded", "failed", "cancelled"},
   attempts : 0..WebhookRetryBound, cancel : BOOLEAN]

\* What each stage of a start has done for the keys: set those of the
\* allowlist, then disabled the other destinations, then forgotten their keys.
WebhookKeys ==
  /\ \A d \in Destinations : destinations[d] = "enabled" => d \in signingKeys
  /\ server = "reconcile" => configured \subseteq signingKeys
  /\ server \in {"forget", "recover", "up", "publish"} =>
       \A d \in Destinations \ configured : destinations[d] # "enabled"
  /\ server \in {"recover", "up", "publish"} =>
       \A d \in Destinations \ configured : destinations[d] = "disabled" => d \notin signingKeys

\* An execution that reports a success knows of it.
WebhookAnswers ==
  /\ Webhooks!SucceededWasAccepted
  /\ \A e \in sending : e.answer = "ok" => e.to \in accepted

WebhookInv == Webhooks!WebhookTypeOK /\ WebhookKeys /\ WebhookAnswers

\* Nothing is configured yet.
LEMMA WebhookBegins == Webhooks!WebhookInit => WebhookInv
<1> SUFFICES ASSUME Webhooks!WebhookInit PROVE WebhookInv
  OBVIOUS
<1>1. 0 \in 0..WebhookRestartBound /\ 0 \in 0..WebhookRetryBound
  BY WebhookAssumption
<1>2. Webhooks!WebhookTypeOK
  BY <1>1 DEF Webhooks!WebhookInit, Webhooks!WebhookTypeOK, Webhooks!NoDelivery, Webhooks!NoJob
<1>3. WebhookKeys /\ WebhookAnswers
  BY DEF Webhooks!WebhookInit, Webhooks!NoDelivery, Webhooks!NoJob, WebhookKeys, WebhookAnswers,
         Webhooks!SucceededWasAccepted
<1> QED
  BY <1>2, <1>3 DEF WebhookInv

\* The row and the job of a delivery that is attached to its job.
LEMMA DeliveryEnqueued ==
  ASSUME WebhookInv, NEW d \in Destinations, deliveryJob' = Webhooks!Enqueued(d)
  PROVE  /\ deliveryJob' \in [Destinations -> DeliveryJobRow]
          /\ \A c \in Destinations : deliveryJob'[c].status = "succeeded"
                                      => deliveryJob[c].status = "succeeded"
<1> DEFINE row == [deliveryJob[d] EXCEPT
                     !.status = IF @ = "none" THEN "queued" ELSE @]
<1>1. /\ deliveryJob \in [Destinations -> DeliveryJobRow]
      /\ deliveryJob' = [deliveryJob EXCEPT ![d] = row]
  BY DEF Webhooks!Enqueued, WebhookInv, Webhooks!WebhookTypeOK, DeliveryJobRow
<1>2. /\ row.attempts = deliveryJob[d].attempts /\ row.cancel = deliveryJob[d].cancel
      /\ row.status = IF deliveryJob[d].status = "none" THEN "queued"
                      ELSE deliveryJob[d].status
      /\ row \in DeliveryJobRow
  BY <1>1 DEF DeliveryJobRow
<1> HIDE DEF row
<1> QED
  BY <1>1, <1>2

\* A delivery that gets its job keeps its status.
LEMMA DeliveryAttached ==
  ASSUME WebhookInv, NEW d \in Destinations, delivery' = Webhooks!Attached(d)
  PROVE  /\ delivery' \in [Destinations -> DeliveryRow]
         /\ \A c \in Destinations : delivery'[c].status = delivery[c].status
BY DEF Webhooks!Attached, DeliveryRow, WebhookInv, Webhooks!WebhookTypeOK

\* The start of the server.
LEMMA WebhookStarts ==
  ASSUME WebhookInv, Webhooks!StartAny \/ Webhooks!Starting
  PROVE  WebhookInv'
<1> USE DEF WebhookInv
<1>1. ASSUME NEW config \in SUBSET Destinations, Webhooks!Start(config) PROVE WebhookInv'
  BY <1>1, WebhookAssumption
  DEF Webhooks!Start, Webhooks!WebhookTypeOK, WebhookKeys, WebhookAnswers,
      Webhooks!SucceededWasAccepted
<1>2. CASE Webhooks!SetSecret
  BY <1>2
  DEF Webhooks!SetSecret, Webhooks!WebhookTypeOK, WebhookKeys, WebhookAnswers,
      Webhooks!SucceededWasAccepted
<1>3. CASE Webhooks!Reconcile
  BY <1>3
  DEF Webhooks!Reconcile, Webhooks!WebhookTypeOK, WebhookKeys, WebhookAnswers,
      Webhooks!SucceededWasAccepted
<1>4. CASE Webhooks!ForgetSecret
  BY <1>4
  DEF Webhooks!ForgetSecret, Webhooks!Forgettable, Webhooks!WebhookTypeOK, WebhookKeys,
      WebhookAnswers, Webhooks!SucceededWasAccepted
<1>5. CASE Webhooks!RecoverUnqueued
  <2>1. CASE Webhooks!Unqueued = {}
    BY <1>5, <2>1
    DEF Webhooks!RecoverUnqueued, Webhooks!WebhookTypeOK, WebhookKeys,
        WebhookAnswers, Webhooks!SucceededWasAccepted
  <2>2. ASSUME NEW d \in Webhooks!Unqueued,
               deliveryJob' = Webhooks!Enqueued(d), delivery' = Webhooks!Attached(d)
        PROVE  WebhookInv'
    <3> d \in Destinations
      BY DEF Webhooks!Unqueued
    <3>1. UNCHANGED <<server, configured, destinations, signingKeys, publishTo, sending,
                      accepted, starts>>
      BY <1>5, <2>2 DEF Webhooks!RecoverUnqueued
    <3> QED
      BY <2>2, <3>1, DeliveryEnqueued, DeliveryAttached
      DEF DeliveryRow, DeliveryJobRow, Webhooks!WebhookTypeOK, WebhookKeys, WebhookAnswers,
          Webhooks!SucceededWasAccepted
  <2> QED
    BY <1>5, <2>1, <2>2 DEF Webhooks!RecoverUnqueued
<1> QED
  BY <1>1, <1>2, <1>3, <1>4, <1>5 DEF Webhooks!StartAny, Webhooks!Starting

\* publish() of an event, and the crash.
LEMMA WebhookPublishes ==
  ASSUME WebhookInv, Webhooks!Publishing \/ Webhooks!WebhookCrash
  PROVE  WebhookInv'
<1>1. CASE Webhooks!Publish
  BY <1>1
  DEF Webhooks!Publish, WebhookInv, Webhooks!WebhookTypeOK, WebhookKeys,
      WebhookAnswers, Webhooks!SucceededWasAccepted
<1>2. CASE Webhooks!PublishDone
  BY <1>2
  DEF Webhooks!PublishDone, WebhookInv, Webhooks!WebhookTypeOK, WebhookKeys,
      WebhookAnswers, Webhooks!SucceededWasAccepted
<1>3. ASSUME NEW d \in Destinations, Webhooks!CreateDelivery(d) PROVE WebhookInv'
  BY <1>3
  DEF Webhooks!CreateDelivery, WebhookInv, Webhooks!WebhookTypeOK, WebhookKeys,
      WebhookAnswers, Webhooks!SucceededWasAccepted
<1>4. ASSUME NEW d \in Destinations, Webhooks!CreateJob(d) PROVE WebhookInv'
  BY <1>4, DeliveryEnqueued
  DEF Webhooks!CreateJob, DeliveryJobRow, WebhookInv, Webhooks!WebhookTypeOK, WebhookKeys,
      WebhookAnswers, Webhooks!SucceededWasAccepted
<1>5. ASSUME NEW d \in Destinations, Webhooks!AttachJob(d) PROVE WebhookInv'
  BY <1>5, DeliveryAttached
  DEF Webhooks!AttachJob, DeliveryRow, WebhookInv, Webhooks!WebhookTypeOK, WebhookKeys,
      WebhookAnswers, Webhooks!SucceededWasAccepted
<1>6. CASE Webhooks!WebhookCrash
  <2>1. \A d \in Destinations :
          /\ deliveryJob'[d] \in DeliveryJobRow
          /\ deliveryJob'[d].attempts = deliveryJob[d].attempts
          /\ deliveryJob'[d].status = deliveryJob[d].status
             \/ /\ deliveryJob[d].status = "running"
                /\ \/ deliveryJob'[d].status \in {"cancelled", "failed"}
                   \/ deliveryJob'[d].status = "queued"
    <3> TAKE d \in Destinations
    <3>1. deliveryJob[d] \in DeliveryJobRow
      BY DEF WebhookInv, Webhooks!WebhookTypeOK, DeliveryJobRow
    <3>2. CASE deliveryJob[d].status # "running"
      BY <1>6, <3>1, <3>2 DEF Webhooks!WebhookCrash
    <3>3. CASE deliveryJob[d].status = "running"
      BY <1>6, <3>1, <3>3 DEF Webhooks!WebhookCrash, Webhooks!Recovered, DeliveryJobRow
    <3> QED
      BY <3>2, <3>3
  <2>2. deliveryJob' \in [Destinations -> DeliveryJobRow]
    BY <1>6, <2>1 DEF Webhooks!WebhookCrash
  <2>3. UNCHANGED <<configured, destinations, signingKeys, delivery, accepted, starts>>
        /\ server' = "down" /\ publishTo' = {} /\ sending' = {}
    BY <1>6 DEF Webhooks!WebhookCrash
  <2> QED
    BY <2>1, <2>2, <2>3
    DEF DeliveryJobRow, WebhookInv, Webhooks!WebhookTypeOK, WebhookKeys, WebhookAnswers,
        Webhooks!SucceededWasAccepted
<1> QED
  BY <1>1, <1>2, <1>3, <1>4, <1>5, <1>6 DEF Webhooks!Publishing, Webhooks!PersistDelivery

\* A delivery takes the status it is given.
LEMMA DeliveryRecorded ==
  ASSUME WebhookInv, NEW d \in Destinations,
         NEW status \in {"running", "retrying", "succeeded", "failed"},
         Webhooks!Recorded(d, status)
  PROVE  /\ delivery' \in [Destinations -> DeliveryRow]
         /\ \A c \in Destinations :
              delivery'[c].status = IF c = d THEN status ELSE delivery[c].status
<1> DEFINE row == [delivery[d] EXCEPT !.status = status]
<1>1. delivery \in [Destinations -> DeliveryRow]
  BY DEF WebhookInv, Webhooks!WebhookTypeOK, DeliveryRow
<1>2. row \in DeliveryRow /\ row.status = status
  BY <1>1 DEF DeliveryRow
<1>3. delivery' = [delivery EXCEPT ![d] = row]
  BY <1>1 DEF Webhooks!Recorded
<1> QED
  BY <1>1, <1>2, <1>3

\* How an attempt is settled, and what its execution goes on with.
LEMMA DeliverySettled ==
  ASSUME WebhookInv, NEW e \in sending, NEW status \in {"queued", "succeeded", "failed"},
         deliveryJob' = Webhooks!SettledJob(e, status)
  PROVE  /\ deliveryJob' \in [Destinations -> DeliveryJobRow]
          /\ \A c \in Destinations : deliveryJob'[c].status = "succeeded" =>
              \/ deliveryJob[c].status = "succeeded"
              \/ c = e.to /\ status = "succeeded"
<1> DEFINE j == deliveryJob[e.to]
           row == [j EXCEPT !.status = IF j.cancel THEN "cancelled" ELSE status]
<1>1. e.to \in Destinations /\ deliveryJob \in [Destinations -> DeliveryJobRow]
  BY DEF WebhookInv, Webhooks!WebhookTypeOK, Webhooks!Execution, DeliveryJobRow
<1>2. /\ row.attempts = j.attempts /\ row.cancel = j.cancel
      /\ row.status = IF j.cancel THEN "cancelled" ELSE status
      /\ row \in DeliveryJobRow
  BY <1>1 DEF DeliveryJobRow
<1>3. CASE j.status = "running"
  <2>1. deliveryJob' = [deliveryJob EXCEPT ![e.to] = row]
    BY <1>1, <1>3 DEF Webhooks!SettledJob, DeliveryJobRow
  <2> HIDE DEF row
  <2> QED
    BY <1>1, <1>2, <2>1
<1>4. CASE j.status # "running"
  <2>1. deliveryJob' = deliveryJob
    BY <1>4 DEF Webhooks!SettledJob
  <2> QED
    BY <1>1, <2>1
<1> QED
  BY <1>3, <1>4

\* An execution goes on with the answer it has.
LEMMA DeliveryGoesOn ==
  ASSUME WebhookInv, NEW e \in sending, NEW phase \in {"secret", "send", "answered"},
         NEW answer \in {"none", "ok", "retryable", "rejected", "aborted"},
         Webhooks!Goes(e, phase, answer)
  PROVE  /\ sending' \subseteq Webhooks!Execution
         /\ e.to \in Destinations
         /\ \A f \in sending' : f \in sending \/ (f.to = e.to /\ f.answer = answer)
<1>1. e \in Webhooks!Execution /\ sending \subseteq Webhooks!Execution
  BY DEF WebhookInv, Webhooks!WebhookTypeOK
<1> DEFINE f == [e EXCEPT !.phase = phase, !.answer = answer]
<1>2. f \in Webhooks!Execution /\ f.to = e.to /\ f.answer = answer
  BY <1>1 DEF Webhooks!Execution
<1>3. sending' = (sending \ {e}) \cup {f}
  BY DEF Webhooks!Goes
<1>4. e.to \in Destinations
  BY <1>1 DEF Webhooks!Execution
<1> HIDE DEF f
<1> QED
  BY <1>1, <1>2, <1>3, <1>4

\* The commands on the job of a delivery, and the loss of its lease.
LEMMA WebhookCommands ==
  ASSUME WebhookInv, NEW d \in Destinations,
         \/ Webhooks!CancelDelivery(d) \/ Webhooks!RetryDelivery(d)
         \/ \E e \in sending : e.to = d /\ Webhooks!LeaseOver(e)
  PROVE  WebhookInv'
<1> DEFINE j == deliveryJob[d]
<1>1. /\ deliveryJob \in [Destinations -> DeliveryJobRow]
      /\ j \in DeliveryJobRow
  BY DEF WebhookInv, Webhooks!WebhookTypeOK, DeliveryJobRow
<1>2. UNCHANGED <<server, configured, destinations, signingKeys, publishTo, delivery, sending,
                  accepted, starts>>
  BY DEF Webhooks!CancelDelivery, Webhooks!RetryDelivery, Webhooks!LeaseOver
<1> DEFINE Fits(row) ==
             /\ row \in DeliveryJobRow
             /\ deliveryJob' = [deliveryJob EXCEPT ![d] = row]
             /\ row.status # "succeeded"
<1>3. PICK row : Fits(row)
  <2>1. CASE Webhooks!CancelDelivery(d)
    <3> DEFINE new == [j EXCEPT !.cancel = TRUE,
                                !.status = IF j.status = "queued" THEN "cancelled" ELSE j.status]
    <3>1. deliveryJob' = [deliveryJob EXCEPT ![d] = new]
      BY <1>1, <2>1 DEF Webhooks!CancelDelivery, DeliveryJobRow
    <3>2. new \in DeliveryJobRow /\ new.status \in {"cancelled", "running"}
      BY <1>1, <2>1 DEF Webhooks!CancelDelivery, DeliveryJobRow
    <3> HIDE DEF new
    <3>3. Fits(new)
      BY <3>1, <3>2
    <3> QED
      BY <3>3
  <2>2. CASE Webhooks!RetryDelivery(d)
    <3> DEFINE new == [j EXCEPT !.status = "queued"]
    <3>1. deliveryJob' = [deliveryJob EXCEPT ![d] = new] /\ new \in DeliveryJobRow
          /\ new.status = "queued"
      BY <1>1, <2>2 DEF Webhooks!RetryDelivery, DeliveryJobRow
    <3> HIDE DEF new
    <3>2. Fits(new)
      BY <3>1
    <3> QED
      BY <3>2
  <2>3. CASE \E e \in sending : e.to = d /\ Webhooks!LeaseOver(e)
    <3> DEFINE new == Webhooks!Recovered(j)
    <3>1. deliveryJob' = [deliveryJob EXCEPT ![d] = new]
      BY <1>1, <2>3 DEF Webhooks!LeaseOver
    <3>2. new \in DeliveryJobRow /\ new.status \in {"cancelled", "queued", "failed"}
      BY <1>1 DEF Webhooks!Recovered, DeliveryJobRow
    <3> HIDE DEF new
    <3>3. Fits(new)
      BY <3>1, <3>2
    <3> QED
      BY <3>3
  <2> QED
    BY <2>1, <2>2, <2>3
<1>4. /\ deliveryJob' \in [Destinations -> DeliveryJobRow]
      /\ \A c \in Destinations : deliveryJob'[c].status = "succeeded"
                                   => deliveryJob[c].status = "succeeded"
  BY <1>1, <1>3
<1> QED
  BY <1>2, <1>4
  DEF WebhookInv, Webhooks!WebhookTypeOK, DeliveryJobRow, WebhookKeys,
      WebhookAnswers, Webhooks!SucceededWasAccepted

\* The handler.
LEMMA WebhookDelivers == ASSUME WebhookInv, Webhooks!Delivering PROVE WebhookInv'
<1> DEFINE Same == UNCHANGED <<server, configured, destinations, signingKeys, publishTo, starts>>
<1>1. ASSUME NEW d \in Destinations, Webhooks!StartAttempt(d) PROVE WebhookInv'
  <2> DEFINE j == deliveryJob[d]
             status == IF destinations[d] = "enabled" THEN "running" ELSE "failed"
             row == [j EXCEPT !.status = status, !.attempts = j.attempts + 1]
             e == [to |-> d, attempt |-> j.attempts + 1, phase |-> "secret", answer |-> "none"]
  <2>1. /\ deliveryJob \in [Destinations -> DeliveryJobRow] /\ j \in DeliveryJobRow
        /\ delivery \in [Destinations -> DeliveryRow] /\ sending \subseteq Webhooks!Execution
    BY DEF WebhookInv, Webhooks!WebhookTypeOK, DeliveryJobRow, DeliveryRow
  <2>2. j.attempts + 1 \in 1..WebhookRetryBound
    BY <1>1, <2>1, WebhookAssumption DEF Webhooks!StartAttempt, DeliveryJobRow
  <2>3. /\ deliveryJob' = [deliveryJob EXCEPT ![d] = row]
        /\ row.status = status /\ row.attempts = j.attempts + 1 /\ row \in DeliveryJobRow
    BY <1>1, <2>1, <2>2 DEF Webhooks!StartAttempt, DeliveryJobRow
  <2>4. sending' \subseteq sending \cup {e} /\ e \in Webhooks!Execution /\ e.answer = "none"
    BY <1>1, <2>2 DEF Webhooks!StartAttempt, Webhooks!Execution
  <2>5. /\ delivery' \in [Destinations -> DeliveryRow]
        /\ \A c \in Destinations : delivery'[c].status = "succeeded"
                                     => delivery[c].status = "succeeded"
    <3>1. PICK s \in {"running", "succeeded", "failed"} :
            Webhooks!Recorded(d, s) /\ (s = "succeeded" => delivery[d].status = "succeeded")
      BY <1>1 DEF Webhooks!StartAttempt
    <3> QED
      BY <3>1, DeliveryRecorded
  <2>6. Same /\ accepted' = accepted
    BY <1>1 DEF Webhooks!StartAttempt
  <2>7. status \in {"running", "failed"}
    OBVIOUS
  <2> HIDE DEF row, e, status
  <2>8. /\ deliveryJob' \in [Destinations -> DeliveryJobRow]
        /\ \A c \in Destinations : deliveryJob'[c].status = "succeeded"
                                     => deliveryJob[c].status = "succeeded"
    BY <2>1, <2>3, <2>7
  <2> QED
    BY <2>4, <2>5, <2>6, <2>8
    DEF WebhookInv, Webhooks!WebhookTypeOK, DeliveryJobRow, DeliveryRow, WebhookKeys,
        WebhookAnswers, Webhooks!SucceededWasAccepted
<1>2. ASSUME NEW e \in sending, Webhooks!SecretRead(e) PROVE WebhookInv'
  <2>1. CASE e.to \in signingKeys
    <3>1. Webhooks!Goes(e, "send", "none") /\ Same /\ UNCHANGED <<accepted, delivery, deliveryJob>>
      BY <1>2, <2>1 DEF Webhooks!SecretRead
    <3> QED
      BY <3>1, DeliveryGoesOn
      DEF WebhookInv, Webhooks!WebhookTypeOK, WebhookKeys, WebhookAnswers,
          Webhooks!SucceededWasAccepted
  <2>2. CASE e.to \notin signingKeys
    <3>1. /\ sending' = sending \ {e} /\ Same /\ accepted' = accepted
          /\ delivery' = [delivery EXCEPT ![e.to].status = "failed"]
          /\ deliveryJob' = Webhooks!SettledJob(e, "failed")
      BY <1>2, <2>2 DEF Webhooks!SecretRead, Webhooks!Ends, Webhooks!Recorded
    <3>2. /\ deliveryJob' \in [Destinations -> DeliveryJobRow]
          /\ \A c \in Destinations : deliveryJob'[c].status = "succeeded"
                                       => deliveryJob[c].status = "succeeded"
      BY <3>1, DeliverySettled
    <3>3. /\ delivery' \in [Destinations -> DeliveryRow]
          /\ \A c \in Destinations : delivery'[c].status = "succeeded"
                                       => delivery[c].status = "succeeded"
      BY <3>1 DEF WebhookInv, Webhooks!WebhookTypeOK, DeliveryRow
    <3> QED
      BY <3>1, <3>2, <3>3
      DEF WebhookInv, Webhooks!WebhookTypeOK, DeliveryJobRow, DeliveryRow, WebhookKeys,
          WebhookAnswers, Webhooks!SucceededWasAccepted
  <2> QED
    BY <2>1, <2>2
<1>3. ASSUME NEW e \in sending, Webhooks!Sent(e) PROVE WebhookInv'
  <2>1. Same /\ UNCHANGED <<delivery, deliveryJob>>
    BY <1>3 DEF Webhooks!Sent
  <2>2. PICK a \in {"ok", "retryable", "rejected", "aborted"} :
          /\ Webhooks!Goes(e, "answered", a)
          /\ accepted' = accepted \cup {e.to} \/ (a # "ok" /\ accepted' = accepted)
    BY <1>3 DEF Webhooks!Sent
  <2> QED
    BY <2>1, <2>2, DeliveryGoesOn
    DEF WebhookInv, Webhooks!WebhookTypeOK, WebhookKeys, WebhookAnswers,
        Webhooks!SucceededWasAccepted
<1>4. ASSUME NEW e \in sending, Webhooks!Answered(e) PROVE WebhookInv'
  <2> DEFINE retry == e.answer = "retryable" /\ e.attempt < DeliveryAttempts
             reported == IF e.answer = "ok" THEN "succeeded" ELSE IF retry THEN "retrying" ELSE "failed"
             settled == IF e.answer = "ok" THEN "succeeded" ELSE IF retry THEN "queued" ELSE "failed"
  <2>1. /\ sending' = sending \ {e} /\ Same /\ accepted' = accepted
        /\ delivery' = [delivery EXCEPT ![e.to].status = reported]
        /\ deliveryJob' = Webhooks!SettledJob(e, settled)
    BY <1>4 DEF Webhooks!Answered, Webhooks!Ends, Webhooks!Recorded
  <2>2. /\ reported \in {"succeeded", "retrying", "failed"}
        /\ settled \in {"queued", "succeeded", "failed"}
        /\ reported = "succeeded" \/ settled = "succeeded" => e.answer = "ok"
    OBVIOUS
  <2> HIDE DEF reported, settled
  <2>3. /\ deliveryJob' \in [Destinations -> DeliveryJobRow]
        /\ \A c \in Destinations : deliveryJob'[c].status = "succeeded" =>
             deliveryJob[c].status = "succeeded" \/ (c = e.to /\ settled = "succeeded")
    BY <2>1, <2>2, DeliverySettled
  <2>4. /\ delivery' \in [Destinations -> DeliveryRow]
        /\ \A c \in Destinations : delivery'[c].status = "succeeded" =>
             delivery[c].status = "succeeded" \/ (c = e.to /\ reported = "succeeded")
    <3>1. e.to \in Destinations /\ Webhooks!Recorded(e.to, reported)
      BY <2>1 DEF WebhookInv, Webhooks!WebhookTypeOK, Webhooks!Execution, Webhooks!Recorded
    <3> QED
      BY <2>2, <3>1, DeliveryRecorded
  <2> QED
    BY <2>1, <2>2, <2>3, <2>4
    DEF WebhookInv, Webhooks!WebhookTypeOK, DeliveryJobRow, DeliveryRow, WebhookKeys,
        WebhookAnswers, Webhooks!SucceededWasAccepted
<1>5. ASSUME NEW e \in sending PROVE e.to \in Destinations
  BY DEF WebhookInv, Webhooks!WebhookTypeOK, Webhooks!Execution
<1> QED
  BY <1>1, <1>2, <1>3, <1>4, <1>5, WebhookCommands DEF Webhooks!Delivering

\* Every step of the webhooks.
LEMMA WebhookStep ==
  ASSUME WebhookInv, [Webhooks!WebhookNext]_webhookVars
  PROVE  WebhookInv'
<1>1. CASE UNCHANGED webhookVars
  BY <1>1
  DEF webhookVars, WebhookInv, Webhooks!WebhookTypeOK, WebhookKeys,
      WebhookAnswers, Webhooks!SucceededWasAccepted
<1> QED
  BY <1>1, WebhookStarts, WebhookPublishes, WebhookDelivers DEF Webhooks!WebhookNext

-----------------------------------------------------------------------------
(* The three of them, in the server.                                       *)

\* A step of the server is one of these, or leaves them alone.
LEMMA ConnectionsApart ==
  ASSUME [ServicesNext]_servicesVars
  PROVE  /\ [Accounts!AccountNext]_(Accounts!accountVars)
         /\ [Targets!TargetsNext]_targetVars
         /\ [Webhooks!WebhookNext]_webhookVars
<1>1. CASE UNCHANGED servicesVars
  BY <1>1 DEF servicesVars, accountVars, Accounts!accountVars
<1>2. CASE Publish
  BY <1>2 DEF Publish, accountVars, Accounts!accountVars
<1>3. CASE Connect
  BY <1>3 DEF Connect, accountVars, Accounts!accountVars
<1>4. CASE Find
  BY <1>4 DEF Find, accountVars, Accounts!accountVars
<1>5. CASE Deliver
  BY <1>5 DEF Deliver, accountVars, Accounts!accountVars
<1>6. CASE Answer
  BY <1>6 DEF Answer, accountVars, Accounts!accountVars
<1>7. CASE Edit
  BY <1>7 DEF Edit, accountVars, Accounts!accountVars
<1>8. CASE Watch
  BY <1>8 DEF Watch, accountVars, Accounts!accountVars
<1> QED
  BY <1>1, <1>2, <1>3, <1>4, <1>5, <1>6, <1>7, <1>8 DEF ServicesNext

ConnectionsInv == AccountInv /\ TargetsInv /\ WebhookInv

\* The inductive invariant of the three holds (the OAuth services of the
\* integrations, the targets of meta, core/webhooks.ts).
THEOREM ConnectionsInvariant == ServicesSpec => []ConnectionsInv
<1>1. ServicesInit => ConnectionsInv
  BY AccountsBegin, TargetsBegin, WebhookBegins DEF ServicesInit, ConnectionsInv
<1>2. ConnectionsInv /\ [ServicesNext]_servicesVars => ConnectionsInv'
  BY ConnectionsApart, AccountStep, TargetsStep, WebhookStep DEF ConnectionsInv
<1> QED
  BY <1>1, <1>2, PTL DEF ServicesSpec

\* Connections are made once and can be used, however callbacks, refreshes,
\* removals, discoveries, failed writes and crashes are interleaved
\* (completeAuthorization, refreshAccessToken, removeAccount and the discovery of
\* targets); without its token is only a target that Meta sent none for, or whose
\* token was not written before the server died or its write failed.
THEOREM ConnectionsHeld == ServicesSpec => []ConnectionsHold
<1>1. TargetsInv => Targets!SwitchedOffStaysOff
  BY DEF TargetsInv, SwitchInv, Targets!SwitchedOffStaysOff, Targets!Publishable
<1>2. TargetsInv => Targets!PublishableHasToken
  BY DEF TargetsInv, TokensInv, Targets!HasToken, Targets!PublishableHasToken,
         Targets!Publishable
<1>3. ConnectionsInv => ConnectionsHold
  BY <1>1, <1>2, AccountHolds DEF ConnectionsInv, ConnectionsHold
<1> QED
  BY <1>3, ConnectionsInvariant, PTL

\* What the webhook tables say is so, whatever restarts, other allowlists and
\* lost answers come between (core/webhooks.ts).
THEOREM WebhookTablesHeld == ServicesSpec => []WebhookTablesHold
<1>1. ConnectionsInv => WebhookTablesHold
  BY DEF ConnectionsInv, WebhookInv, WebhookAnswers, WebhookKeys, WebhookTablesHold,
         Webhooks!KeysMatchAllowlist
<1> QED
  BY <1>1, ConnectionsInvariant, PTL
=============================================================================
