----------------------------- MODULE MetaTargets ----------------------------
(***************************************************************************)
(* The Pages and professional accounts a Meta connection may publish to:   *)
(* table meta_publish_targets, the page tokens in the secret store, and    *)
(* discoverTargets and setTargetEnabled of MetaOAuthService.  One server   *)
(* process: a stretch between two awaits is one action.                    *)
(***************************************************************************)
EXTENDS Integers, Sequences

CONSTANTS
  MetaTargetIds,   \* targets Meta may name
  DiscoverySlots,  \* bound: discoveries in flight
  DiscoveryBound   \* bound: discoveries ever begun

VARIABLES
  targets,      \* the row of each target
  pageTokens,   \* targets whose page token is stored
  writes,       \* writes asked of the secret store, which does one after the other
  discovery,    \* the discovery in each slot
  discoveries,  \* discoveries begun so far
  tokenless,    \* (history) targets whose row came to be without a token: Meta sent
                \* none, it could not be written, or the server died before it was
  choice        \* (history) what the operator last said of each target

targetVars == <<targets, pageTokens, writes, discovery, discoveries, tokenless, choice>>

NoTarget == [stored |-> FALSE, available |-> FALSE, enabled |-> FALSE]
NoDiscovery == [op |-> "idle"]
\* What Meta may say of a target: it may be published to when the page grants
\* the content task and the scopes are granted.
Standings == {"absent", "blocked", "available"}
Write == [slot : DiscoverySlots, target : MetaTargetIds, stores : BOOLEAN]

TargetsTypeOK ==
  /\ targets \in [MetaTargetIds -> [stored : BOOLEAN, available : BOOLEAN, enabled : BOOLEAN]]
  /\ pageTokens \subseteq MetaTargetIds
  /\ writes \in Seq(Write)
  /\ discovery \in [DiscoverySlots ->
       {NoDiscovery} \cup
       [op : {"asking"}, previous : SUBSET MetaTargetIds] \cup
       [op : {"storing", "writing"}, answer : [MetaTargetIds -> Standings],
        left : SUBSET MetaTargetIds]]
  /\ discoveries \in 0..DiscoveryBound
  /\ tokenless \subseteq MetaTargetIds
  /\ choice \in [MetaTargetIds -> {"none", "on", "off"}]

TargetsInit ==
  /\ targets = [t \in MetaTargetIds |-> NoTarget]
  /\ pageTokens = {}
  /\ writes = <<>>
  /\ discovery = [s \in DiscoverySlots |-> NoDiscovery]
  /\ discoveries = 0
  /\ tokenless = {}
  /\ choice = [t \in MetaTargetIds |-> "none"]

-----------------------------------------------------------------------------
\* upsertTarget: a new target is enabled when it is available; one found again
\* keeps what it was, also when it is blocked now.
Found(row, standing) ==
  [stored |-> TRUE,
   available |-> standing = "available",
   enabled |-> IF row.stored THEN row.enabled ELSE standing = "available"]

\* Seeded fault: a target that is gone is switched off and stays available.
VanishedDisabled(row) == [row EXCEPT !.enabled = FALSE]

\* markTargetUnavailable
Vanished(row) == [row EXCEPT !.available = FALSE, !.enabled = FALSE]

\* The token of t is stored, or will be once the writes asked for are done.
HasToken(t) ==
  LET about == {i \in DOMAIN writes : writes[i].target = t}
  IN IF about = {} THEN t \in pageTokens
     ELSE \E i \in about : writes[i].stores /\ \A k \in about : k <= i

\* No discovery is between two awaits.
Idle == \A s \in DiscoverySlots : discovery[s].op # "storing"

\* The targets known before are read, and Meta is asked.
Discover(s) ==
  /\ Idle
  /\ discovery[s] = NoDiscovery /\ discoveries < DiscoveryBound
  /\ discoveries' = discoveries + 1
  /\ discovery' = [discovery EXCEPT ![s] =
       [op |-> "asking", previous |-> {t \in MetaTargetIds : targets[t].stored}]]
  /\ UNCHANGED <<targets, pageTokens, writes, tokenless, choice>>

AnswerTargets(s) ==
  /\ Idle
  /\ discovery[s].op = "asking"
  /\ \/ \E answer \in [MetaTargetIds -> Standings] :
          discovery' = [discovery EXCEPT ![s] =
            [op |-> "storing", answer |-> answer,
             left |-> {t \in MetaTargetIds : answer[t] # "absent"} \cup @.previous]]
     \/ discovery' = [discovery EXCEPT ![s] = NoDiscovery]   \* refused, or no answer
  /\ UNCHANGED <<targets, pageTokens, writes, discoveries, tokenless, choice>>

\* The row of one target.  Those Meta named come first, those it no longer names
\* after.  Where Meta sent a token it is to be stored, that of a target that is
\* gone is to be deleted, and the discovery waits for it; else it goes on.
StoreTarget(s, t, sent) ==
  LET d == discovery[s]
      named == {x \in d.left : d.answer[x] # "absent"}
      gone == d.answer[t] = "absent"
  IN
  /\ d.op = "storing"
  /\ t \in IF named # {} THEN named ELSE d.left
  /\ targets' = [targets EXCEPT ![t] = IF gone THEN Vanished(@) ELSE Found(@, d.answer[t])]
  /\ \/ /\ gone \/ sent
        /\ writes' = Append(writes, [slot |-> s, target |-> t, stores |-> ~gone])
        /\ discovery' = [discovery EXCEPT ![s] =
             [op |-> "writing", answer |-> d.answer, left |-> d.left \ {t}]]
        /\ tokenless' = tokenless \ {t}
     \/ /\ ~gone /\ ~sent
        /\ discovery' = [discovery EXCEPT ![s] =
             [op |-> "storing", answer |-> d.answer, left |-> d.left \ {t}]]
        /\ tokenless' = IF HasToken(t) THEN tokenless ELSE tokenless \cup {t}
        /\ UNCHANGED writes
  /\ UNCHANGED <<pageTokens, discoveries, choice>>

\* The secret store has done the write it was asked for first, and the
\* discovery that waits for it goes on.
TokenWritten ==
  LET w == Head(writes)
      d == discovery[w.slot]
  IN
  /\ Idle /\ writes # <<>>
  /\ pageTokens' = IF w.stores THEN pageTokens \cup {w.target} ELSE pageTokens \ {w.target}
  /\ writes' = Tail(writes)
  /\ discovery' = [discovery EXCEPT ![w.slot] =
       [op |-> "storing", answer |-> d.answer, left |-> d.left]]
  /\ UNCHANGED <<targets, discoveries, tokenless, choice>>

\* It could not, which ends the discovery.
TokenRefused ==
  LET w == Head(writes)
  IN
  /\ Idle /\ writes # <<>>
  /\ tokenless' = IF w.stores /\ w.target \notin pageTokens
                  THEN tokenless \cup {w.target} ELSE tokenless
  /\ writes' = Tail(writes)
  /\ discovery' = [discovery EXCEPT ![w.slot] = NoDiscovery]
  /\ UNCHANGED <<targets, pageTokens, discoveries, choice>>

\* All targets are stored, or there was none.
DiscoveryEnds(s) ==
  /\ discovery[s].op = "storing" /\ discovery[s].left = {}
  /\ discovery' = [discovery EXCEPT ![s] = NoDiscovery]
  /\ UNCHANGED <<targets, pageTokens, writes, discoveries, tokenless, choice>>

\* The server dies, also between a row and its token.
DiscoveryCrash ==
  /\ discovery' = [s \in DiscoverySlots |-> NoDiscovery]
  /\ tokenless' = tokenless \cup
       {t \in MetaTargetIds \ pageTokens :
          \E i \in DOMAIN writes : writes[i].target = t /\ writes[i].stores}
  /\ writes' = <<>>
  /\ UNCHANGED <<targets, pageTokens, discoveries, choice>>

\* setTargetEnabled: also a blocked target can be enabled.
SetTargetEnabled(t, on) ==
  /\ Idle
  /\ targets[t].stored
  /\ targets' = [targets EXCEPT ![t].enabled = on]
  /\ choice' = [choice EXCEPT ![t] = IF on THEN "on" ELSE "off"]
  /\ UNCHANGED <<pageTokens, writes, discovery, discoveries, tokenless>>

TargetsNext ==
  \/ \E s \in DiscoverySlots :
       \/ Discover(s) \/ AnswerTargets(s) \/ DiscoveryEnds(s)
       \/ \E t \in MetaTargetIds, sent \in BOOLEAN : StoreTarget(s, t, sent)
  \/ TokenWritten \/ TokenRefused \/ DiscoveryCrash
  \/ \E t \in MetaTargetIds, on \in BOOLEAN : SetTargetEnabled(t, on)

TargetsSpec == TargetsInit /\ [][TargetsNext]_targetVars

-----------------------------------------------------------------------------
\* The condition of the Instagram and Facebook handlers.
Publishable(t) == targets[t].stored /\ targets[t].enabled /\ targets[t].available

\* A target the operator switched off is not published to, however often Meta
\* names it again, blocks it or drops it meanwhile.
SwitchedOffStaysOff == \A t \in MetaTargetIds : choice[t] = "off" => ~Publishable(t)

\* A target that may be published to has its page token, or its writing is under
\* way, whatever the order in which two discoveries with different answers store
\* theirs.  Excepted are targets whose row came to be without a token.
PublishableHasToken ==
  \A t \in MetaTargetIds : Publishable(t) /\ t \notin tokenless
    => \/ t \in pageTokens
       \/ \E i \in DOMAIN writes : writes[i].target = t /\ writes[i].stores
=============================================================================
