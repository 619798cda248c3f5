-------------------------- MODULE AccountConnection -------------------------
(***************************************************************************)
(* Connecting, refreshing and removing platform accounts: the five OAuth   *)
(* services, the tables accounts (or meta_credentials) and                 *)
(* oauth_authorization_requests, and what they keep in the secret store.   *)
(* One server process: a stretch between two awaits is one action, and the *)
(* secret store settles its writes in the order they were asked for.       *)
(* Each provider has one external identity the operator connects.          *)
(*                                                                         *)
(* The services differ in what each does with the PKCE verifier, in what   *)
(* it makes of an answer of its provider, and in what a failed refresh     *)
(* does to the account; the section on the five services says how.         *)
(***************************************************************************)
EXTENDS Integers, FiniteSets

CONSTANTS
  Groups,         \* sets of providers used together (one is chosen)
  Slots,          \* bound: operations in flight
  RequestBound,   \* bound: authorization requests ever begun
  IdBound,        \* bound: account rows ever inserted
  AccountCrashBound

VARIABLES
  active,     \* the providers in use
  account,    \* the account row of each provider's identity
  tokens,     \* account ids whose refresh token or bundle is stored
  requests,   \* oauth_authorization_requests
  verifiers,  \* requests whose PKCE verifier is stored
  begun,      \* authorization requests begun so far
  ids,        \* account ids given so far
  flow,       \* the operation in each slot
  serverCrashes

accountVars == <<active, account, tokens, requests, verifiers, begun, ids, flow, serverCrashes>>

-----------------------------------------------------------------------------
(* The five services.                                                      *)

Providers == {"tiktok", "youtube", "twitch", "kick", "meta"}

\* What a token endpoint may answer ("kept" is a grant without a new refresh
\* token, "unauthorized" and "invalid_client" are a 401), and what the lookup
\* of the identity behind a token may.
TokenAnswers ==
  {"granted", "kept", "malformed", "network", "unavailable", "limited", "unauthorized",
   "invalid_grant", "invalid_client"}
IdentityAnswers ==
  {"own", "other", "unscoped", "unidentified", "network", "unavailable", "unauthorized"}
Outages == {"network", "unavailable", "limited"}

\* beginAuthorization: whether a verifier is stored before the request is
\* created, and whether the verifiers of its own requests that expired, or
\* that could not be created, are deleted.
YouTubeBegins == [verifier |-> TRUE, tidies |-> TRUE]
TikTokBegins == [verifier |-> TRUE, tidies |-> TRUE]   \* the desktop flow
TwitchBegins == [verifier |-> FALSE, tidies |-> FALSE]
KickBegins == [verifier |-> TRUE, tidies |-> FALSE]
MetaBegins == [verifier |-> FALSE, tidies |-> FALSE]
Begins(p) ==
  CASE p = "youtube" -> YouTubeBegins [] p = "tiktok" -> TikTokBegins
    [] p = "twitch" -> TwitchBegins [] p = "kick" -> KickBegins [] OTHER -> MetaBegins

\* completeAuthorization: whether the verifier is deleted at the end, whatever
\* happened (kick deletes it where it is read), and whether the account is
\* marked when its token cannot be stored.
YouTubeCompletes == [deletesLast |-> TRUE, marks |-> TRUE]
TikTokCompletes == [deletesLast |-> TRUE, marks |-> TRUE]
TwitchCompletes == [deletesLast |-> FALSE, marks |-> FALSE]
KickCompletes == [deletesLast |-> FALSE, marks |-> FALSE]
MetaCompletes == [deletesLast |-> FALSE, marks |-> FALSE]
Completes(p) ==
  CASE p = "youtube" -> YouTubeCompletes [] p = "tiktok" -> TikTokCompletes
    [] p = "twitch" -> TwitchCompletes [] p = "kick" -> KickCompletes [] OTHER -> MetaCompletes

-----------------------------------------------------------------------------
(* The category of the error an answer is turned into, or "granted".       *)

YouTubeToken(t) ==
  CASE t = "granted" -> "granted"
    [] t = "network" -> "network"
    [] t \in {"unauthorized", "invalid_client"} -> "authentication"
    [] OTHER -> "remote"
YouTubeIdentity(i) ==
  CASE i \in {"own", "other"} -> "granted"
    [] i = "network" -> "network"
    [] i = "unauthorized" -> "authentication"
    [] i \in {"unscoped", "unidentified"} -> "authorization"
    [] OTHER -> "remote"
TikTokToken(t) ==
  CASE t = "granted" -> "granted"
    [] t = "network" -> "network"
    [] t \in {"unauthorized", "invalid_client"} -> "authentication"
    [] OTHER -> "remote"
TikTokIdentity(i) ==
  CASE i = "own" -> "granted"
    [] i = "network" -> "network"
    [] i \in {"unauthorized", "other"} -> "authentication"
    [] i = "unscoped" -> "authorization"
    [] OTHER -> "remote"
TwitchToken(t) ==
  CASE t = "granted" -> "granted"
    [] t = "network" -> "network"
    [] t \in {"unauthorized", "invalid_client", "kept"} -> "authentication"
    [] OTHER -> "remote"
TwitchIdentity(i) ==
  CASE i \in {"own", "other", "unscoped"} -> "granted"
    [] i = "network" -> "network"
    [] OTHER -> "authentication"
KickToken(t) ==
  CASE t = "granted" -> "granted"
    [] t = "network" -> "network"
    [] t \in {"unauthorized", "invalid_client", "kept"} -> "authentication"
    [] OTHER -> "remote"
KickIdentity(i) ==
  CASE i \in {"own", "other", "unscoped"} -> "granted"
    [] i = "network" -> "network"
    [] i \in {"unauthorized", "unidentified"} -> "authentication"
    [] OTHER -> "remote"
\* meta does not wrap an error of the network.
MetaToken(t) ==
  CASE t \in {"granted", "kept"} -> "granted"
    [] t = "network" -> "unclassified"
    [] OTHER -> "authentication"
MetaIdentity(i) ==
  CASE i \in {"own", "other", "unscoped"} -> "granted"
    [] i = "network" -> "unclassified"
    [] OTHER -> "authentication"

TokenOutcome(p, t) ==
  CASE p = "youtube" -> YouTubeToken(t) [] p = "tiktok" -> TikTokToken(t)
    [] p = "twitch" -> TwitchToken(t) [] p = "kick" -> KickToken(t) [] OTHER -> MetaToken(t)
IdentityOutcome(p, i) ==
  CASE p = "youtube" -> YouTubeIdentity(i) [] p = "tiktok" -> TikTokIdentity(i)
    [] p = "twitch" -> TwitchIdentity(i) [] p = "kick" -> KickIdentity(i)
    [] OTHER -> MetaIdentity(i)

-----------------------------------------------------------------------------
(* Refreshing: whether the account must be connected, whether its row is   *)
(* written back, the category of a failure and whether it marks the        *)
(* account as one to reconnect.                                            *)

YouTubeRefresh(t) ==
  [connected |-> FALSE, upserts |-> FALSE,
   outcome |-> CASE t \in {"granted", "kept"} -> "granted"
                 [] t = "network" -> "network" [] t = "malformed" -> "remote"
                 [] t = "invalid_client" -> "configuration" [] OTHER -> "authentication",
   marks |-> t = "invalid_grant"]
TikTokRefresh(t) ==
  [connected |-> TRUE, upserts |-> TRUE,
   outcome |-> CASE t = "granted" -> "granted"
                 [] t = "network" -> "network" [] t \in {"malformed", "kept"} -> "remote"
                 [] t = "invalid_client" -> "configuration" [] OTHER -> "authentication",
   marks |-> t = "invalid_grant"]
TwitchRefresh(t) ==
  [connected |-> TRUE, upserts |-> TRUE,
   outcome |-> IF t = "kept" THEN "granted" ELSE TwitchToken(t),
   marks |-> t \in {"unauthorized", "invalid_client"}]
KickRefresh(t) ==
  [connected |-> TRUE, upserts |-> FALSE, outcome |-> KickToken(t),
   marks |-> KickToken(t) = "authentication"]
MetaRefresh(t) ==
  [connected |-> TRUE, upserts |-> TRUE, outcome |-> MetaToken(t),
   marks |-> MetaToken(t) = "authentication"]
Refresh(p, t) ==
  CASE p = "youtube" -> YouTubeRefresh(t) [] p = "tiktok" -> TikTokRefresh(t)
    [] p = "twitch" -> TwitchRefresh(t) [] p = "kick" -> KickRefresh(t) [] OTHER -> MetaRefresh(t)

\* What a refused refresh may do to the account: TRUE when it is marked.
RefusalsMark(p) == {Refresh(p, t).marks : t \in {x \in TokenAnswers : Refresh(p, x).outcome # "granted"}}

\* What a token that twitch does not validate may do: each answer but a good one,
\* that of an outage too, counts as an authentication error and marks the account.
InvalidMarks ==
  {TwitchIdentity(i) = "authentication" : i \in {x \in IdentityAnswers :
                                                  TwitchIdentity(x) # "granted"}}

\* getAccountCapabilities: the creator's answer (loadCreatorInfo) marks the
\* account when the access token is refused.
CreatorAnswerMarks(answer) == answer \in {"unauthorized", "access_token_invalid"}
CreatorAnswers ==
  {"ok", "network", "unavailable", "limited", "unauthorized", "access_token_invalid",
   "scope_not_authorized", "malformed"}

-----------------------------------------------------------------------------
(* The tables and the operations in flight.                                *)

Verifying == {p \in Providers : Begins(p).verifier}
Tidying == {p \in Providers : Begins(p).tidies}
Removable == Providers \ {"meta"}

NoAccount == [id |-> 0, status |-> "none"]
Idle == [op |-> "idle"]
Request == [id : 1..RequestBound, provider : Providers, expired : BOOLEAN]
Operation ==
  [op : {"begin", "consumed", "exchange", "store", "cleanup"},
   provider : Providers, request : 1..RequestBound, account : 0..IdBound]
  \cup [op : {"refresh", "validate", "creator", "remove"}, provider : Providers, account : 1..IdBound]

AccountTypeOK ==
  /\ active \in Groups
  /\ account \in [Providers -> [id : 0..IdBound,
                                status : {"none", "connected", "reauthorization_required"}]]
  /\ tokens \subseteq 1..IdBound
  /\ requests \subseteq Request
  /\ verifiers \subseteq 1..RequestBound
  /\ begun \in 0..RequestBound /\ ids \in 0..IdBound
  /\ flow \in [Slots -> {Idle} \cup Operation]
  /\ serverCrashes \in 0..AccountCrashBound

AccountInit ==
  /\ active \in Groups
  /\ account = [p \in Providers |-> NoAccount]
  /\ tokens = {} /\ requests = {} /\ verifiers = {}
  /\ begun = 0 /\ ids = 0
  /\ flow = [s \in Slots |-> Idle]
  /\ serverCrashes = 0

-----------------------------------------------------------------------------
Done(s) == flow' = [flow EXCEPT ![s] = Idle]
Goes(s, op) == flow' = [flow EXCEPT ![s].op = op]
Expired == {r \in requests : r.expired}

\* accounts.setStatus / setProviderStatus: an UPDATE, nothing when the row is gone
Flagged(p, id) ==
  IF account[p].id = id /\ id # 0
  THEN [account EXCEPT ![p].status = "reauthorization_required"] ELSE account
\* accounts.upsert: by provider and external id; a missing row is inserted
Upserted(p, id) ==
  [account EXCEPT ![p] = [id |-> IF @.id = 0 THEN id ELSE @.id, status |-> "connected"]]

\* beginAuthorization: expired requests of every provider are deleted, the
\* verifiers of its own ones with them, and the verifier is stored first.
Begin(s, p) ==
  /\ flow[s] = Idle /\ begun < RequestBound
  /\ begun' = begun + 1
  /\ verifiers' =
       IF p \in Tidying
       THEN verifiers \ {r.id : r \in {x \in Expired : x.provider = p}} ELSE verifiers
  /\ IF p \in Verifying
     THEN /\ requests' = requests \ Expired
          /\ flow' = [flow EXCEPT ![s] = [op |-> "begin", provider |-> p,
                                          request |-> begun + 1, account |-> 0]]
     ELSE /\ requests' = (requests \ Expired)
                           \cup {[id |-> begun + 1, provider |-> p, expired |-> FALSE]}
          /\ UNCHANGED flow
  /\ UNCHANGED <<active, account, tokens, ids, serverCrashes>>

\* The verifier is stored, the request created; or either write failed.
BeginCreated(s) ==
  /\ flow[s].op = "begin"
  /\ \/ /\ verifiers' = verifiers \cup {flow[s].request}
        /\ requests' = requests \cup
             {[id |-> flow[s].request, provider |-> flow[s].provider, expired |-> FALSE]}
     \/ /\ flow[s].provider \notin Tidying
        /\ verifiers' = verifiers \cup {flow[s].request}
        /\ UNCHANGED requests
     \/ UNCHANGED <<verifiers, requests>>
  /\ Done(s)
  /\ UNCHANGED <<active, account, tokens, begun, ids, serverCrashes>>

\* completeAuthorization: consumeByStateHash reads and deletes the request.
Consume(s, r) ==
  /\ flow[s] = Idle
  /\ requests' = requests \ {r}
  /\ flow' = [flow EXCEPT ![s] =
       IF r.expired /\ ~Completes(r.provider).deletesLast THEN Idle
       ELSE [op |-> IF r.expired THEN "cleanup" ELSE "consumed", provider |-> r.provider,
             request |-> r.id, account |-> 0]]
  /\ UNCHANGED <<active, account, tokens, verifiers, begun, ids, serverCrashes>>

\* The verifier is read; kick deletes it at once.  A denial, a missing code or
\* a missing verifier ends the flow.
ReadVerifier(s) ==
  LET f == flow[s] IN
  /\ f.op = "consumed"
  /\ \/ /\ f.provider \in Verifying => f.request \in verifiers
        /\ Goes(s, "exchange")
     \/ Goes(s, "cleanup")
  /\ verifiers' = IF f.provider = "kick" THEN verifiers \ {f.request} ELSE verifiers
  /\ UNCHANGED <<active, account, tokens, requests, begun, ids, serverCrashes>>

\* The provider exchanged the code and named the identity: the row is written.
Exchanged(s) ==
  LET p == flow[s].provider IN
  /\ flow[s].op = "exchange"
  /\ ids < IdBound
  /\ account' = Upserted(p, ids + 1)
  /\ ids' = IF account[p].id = 0 THEN ids + 1 ELSE ids
  /\ flow' = [flow EXCEPT ![s].op = "store", ![s].account = account'[p].id]
  /\ UNCHANGED <<active, tokens, requests, verifiers, begun, serverCrashes>>
\* The code or the identity was refused.
ExchangeFailed(s) ==
  /\ flow[s].op = "exchange"
  /\ Goes(s, "cleanup")
  /\ UNCHANGED <<active, account, tokens, requests, verifiers, begun, ids, serverCrashes>>

\* Seeded fault: a failed write of the token is not noticed.
StoreTokenIgnoringFailure(s) ==
  /\ flow[s].op = "store"
  /\ tokens' \in {tokens, tokens \cup {flow[s].account}}
  /\ Goes(s, "cleanup")
  /\ UNCHANGED <<active, account, requests, verifiers, begun, ids, serverCrashes>>

\* The token is stored.  When that fails tiktok and youtube take the
\* connection back.
StoreToken(s) ==
  LET f == flow[s] IN
  /\ f.op = "store"
  /\ \/ tokens' = tokens \cup {f.account} /\ UNCHANGED account
     \/ /\ UNCHANGED tokens
        /\ account' = IF Completes(f.provider).marks
                      THEN Flagged(f.provider, f.account) ELSE account
  /\ Goes(s, "cleanup")
  /\ UNCHANGED <<active, requests, verifiers, begun, ids, serverCrashes>>

\* The finally block: the verifier is deleted, whatever happened.
Cleanup(s) ==
  /\ flow[s].op = "cleanup"
  /\ verifiers' = IF Completes(flow[s].provider).deletesLast
                  THEN verifiers \ {flow[s].request} ELSE verifiers
  /\ Done(s)
  /\ UNCHANGED <<active, account, tokens, requests, begun, ids, serverCrashes>>

-----------------------------------------------------------------------------
(* Refreshing, removing, reconfiguring.                                    *)

\* refreshAccessToken / getAccessToken: the row and the token are read
RefreshStart(s, p) ==
  /\ flow[s] = Idle /\ account[p].id # 0 /\ account[p].id \in tokens
  /\ Refresh(p, "granted").connected => account[p].status = "connected"
  /\ flow' = [flow EXCEPT ![s] = [op |-> "refresh", provider |-> p, account |-> account[p].id]]
  /\ UNCHANGED <<active, account, tokens, requests, verifiers, begun, ids, serverCrashes>>

\* The token was granted: it is stored, and the row as it was read at the
\* start is written back as connected; twitch validates in between.
Refreshed(s) ==
  LET f == flow[s] IN
  /\ f.op = "refresh"
  /\ tokens' = tokens \cup {f.account}
  /\ IF f.provider = "twitch" THEN Goes(s, "validate") ELSE Done(s)
  /\ account' = IF Refresh(f.provider, "granted").upserts /\ f.provider # "twitch"
                THEN Upserted(f.provider, f.account) ELSE account
  /\ UNCHANGED <<active, requests, verifiers, begun, ids, serverCrashes>>
Validated(s) ==
  LET f == flow[s] IN
  /\ f.op = "validate"
  /\ account' = Upserted(f.provider, f.account)
  /\ Done(s)
  /\ UNCHANGED <<active, tokens, requests, verifiers, begun, ids, serverCrashes>>

\* Refused: some answers say that the account must be reconnected, the others
\* are only thrown.
RefreshFailed(s) ==
  LET f == flow[s]
      marked == IF f.op = "validate" THEN InvalidMarks ELSE RefusalsMark(f.provider)
  IN
  /\ f.op \in {"refresh", "validate"}
  /\ account' \in {IF m THEN Flagged(f.provider, f.account) ELSE account : m \in marked}
  /\ Done(s)
  /\ UNCHANGED <<active, tokens, requests, verifiers, begun, ids, serverCrashes>>

\* getAccountCapabilities of tiktok asks the creator with a token that is not
\* about to expire (one that is, is refreshed first).
CreatorStart(s) ==
  /\ flow[s] = Idle
  /\ account["tiktok"].status = "connected" /\ account["tiktok"].id \in tokens
  /\ flow' = [flow EXCEPT ![s] = [op |-> "creator", provider |-> "tiktok",
                                  account |-> account["tiktok"].id]]
  /\ UNCHANGED <<active, account, tokens, requests, verifiers, begun, ids, serverCrashes>>
CreatorAnswered(s) ==
  LET f == flow[s] IN
  /\ f.op = "creator"
  /\ account' \in {IF CreatorAnswerMarks(a) THEN Flagged("tiktok", f.account) ELSE account :
                      a \in CreatorAnswers}
  /\ Done(s)
  /\ UNCHANGED <<active, tokens, requests, verifiers, begun, ids, serverCrashes>>

\* removeAccount: the token first, then the row
RemoveStart(s, p) ==
  /\ flow[s] = Idle /\ p \in Removable /\ account[p].id # 0
  /\ flow' = [flow EXCEPT ![s] = [op |-> "remove", provider |-> p, account |-> account[p].id]]
  /\ tokens' = tokens \ {account[p].id}
  /\ UNCHANGED <<active, account, requests, verifiers, begun, ids, serverCrashes>>
RemoveRow(s) ==
  LET f == flow[s] IN
  /\ f.op = "remove"
  /\ account' = IF account[f.provider].id = f.account
                THEN [account EXCEPT ![f.provider] = NoAccount] ELSE account
  /\ Done(s)
  /\ UNCHANGED <<active, tokens, requests, verifiers, begun, ids, serverCrashes>>

\* configureCredentials with another client id
ReplaceClient(p) ==
  /\ account[p].status = "connected"
  /\ account' = Flagged(p, account[p].id)
  /\ UNCHANGED <<active, tokens, requests, verifiers, begun, ids, flow, serverCrashes>>

\* Ten minutes pass; the server dies.
Expire(r) ==
  /\ ~r.expired
  /\ requests' = (requests \ {r}) \cup {[r EXCEPT !.expired = TRUE]}
  /\ UNCHANGED <<active, account, tokens, verifiers, begun, ids, flow, serverCrashes>>
ServerCrash ==
  /\ serverCrashes < AccountCrashBound
  /\ \E s \in Slots : flow[s] # Idle
  /\ serverCrashes' = serverCrashes + 1
  /\ flow' = [s \in Slots |-> Idle]
  /\ UNCHANGED <<active, account, tokens, requests, verifiers, begun, ids>>

AccountNext ==
  \/ \E s \in Slots :
       \/ \E p \in active : Begin(s, p) \/ RefreshStart(s, p) \/ RemoveStart(s, p)
       \/ CreatorStart(s) \/ CreatorAnswered(s)
       \/ BeginCreated(s) \/ \E r \in requests : Consume(s, r)
       \/ ReadVerifier(s) \/ Exchanged(s) \/ ExchangeFailed(s) \/ StoreToken(s) \/ Cleanup(s)
       \/ Refreshed(s) \/ Validated(s) \/ RefreshFailed(s) \/ RemoveRow(s)
  \/ \E p \in active : ReplaceClient(p)
  \/ \E r \in requests : Expire(r)
  \/ ServerCrash

AccountSpec == AccountInit /\ [][AccountNext]_accountVars

-----------------------------------------------------------------------------
Completing(s) == flow[s].op \in {"consumed", "exchange", "store", "cleanup"}
Touching(p) == {s \in Slots : flow[s] # Idle /\ flow[s].provider = p}

\* A state value answers one callback: of two callbacks with the same state,
\* in any order, one is refused (consumeByStateHash).
StateUsedOnce ==
  \A s \in Slots : Completing(s) =>
    /\ flow[s].request \notin {r.id : r \in requests}
    /\ \A t \in Slots \ {s} : Completing(t) => flow[t].request # flow[s].request

\* A request the operator may still come back to has its PKCE verifier, even
\* when another provider, another request or a crash cleaned up meanwhile.
LiveRequestHasVerifier ==
  \A r \in requests : r.provider \in Verifying => r.id \in verifiers

\* Once no operation of the account is under way a connected youtube account
\* has its token, whatever write failed and whoever removed or refreshed it
\* meanwhile; only a crash in the middle can break this.  (A refresh of the
\* other services writes the row it read at its start back, and brings a
\* removed account back without a token.)
ConnectedHasToken ==
  serverCrashes = 0 =>
    \A p \in {x \in Providers : Completes(x).marks /\ ~Refresh(x, "granted").upserts} :
      account[p].status = "connected" /\ Touching(p) = {} => account[p].id \in tokens

\* An outage, a failure or a limit of a provider's token endpoint does not make
\* a connected account one to be reconnected; meta takes each refusal for one.
\* It is about the token endpoint alone: twitch then has the new token validated
\* and takes any answer but a good one for a revoked token (RefreshFailed).
TokenOutageKeepsAccount ==
  \A p \in Providers \ {"meta"} : \A t \in Outages : ~Refresh(p, t).marks
=============================================================================
